-------------------------- MODULE MCDispatchLedger --------------------------
(***************************************************************************)
(* Instances of DispatchLedger for TLC.                                    *)
(***************************************************************************)
EXTENDS DispatchLedger, TLC

CONSTANTS k1, p1, p2, e1, e2

MCPermissions == {p1, p2}
MCAllowlist == {p1}

(* An item every gate lets pass, with the given key and retry limit.       *)
SafeItem(k, limit) ==
  [state |-> "ACTIVE", continuation_policy |-> "AUTONOMOUS_EXPECTED",
   source_health |-> "FRESH", runtime_status |-> "IDLE",
   action_class |-> "INTERNAL_CONTINUE", safe_internal_next |-> TRUE,
   safe_recovery |-> FALSE, reversible |-> TRUE, external_effect |-> FALSE,
   owner_gate |-> FALSE, stop_latch |-> FALSE, circuit_open |-> FALSE,
   dedupe_key |-> k, retry_count |-> 0, retry_limit |-> limit,
   requested_permissions |-> {}, minimum_permissions |-> {p1}]

Recovery(item) ==
  [item EXCEPT !.runtime_status = "STALE", !.action_class = "INTERNAL_RECOVERY",
               !.safe_recovery = TRUE]

(* One key; the second caller allows fewer retries than the first.         *)
OneKeyItems ==
  {SafeItem(k1, 3), Recovery(SafeItem(k1, 2)),
   [SafeItem(k1, 3) EXCEPT !.stop_latch = TRUE]}

Symmetric == Permutations(Executors)
=============================================================================
