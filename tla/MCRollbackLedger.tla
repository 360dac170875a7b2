-------------------------- MODULE MCRollbackLedger --------------------------
(***************************************************************************)
(* Instances of RollbackLedger for TLC: incidents that start out safe to   *)
(* roll back and change under the responders' hands.                       *)
(***************************************************************************)
EXTENDS RollbackLedger, TLC

CONSTANTS k1, k2, a1, a2, local, write, p1, p2

SafeIncident ==
  [key |-> k1, adapter |-> a1, filled |-> TRUE,
   action_class |-> "INTERNAL_LOCAL_ROLLBACK", durable_claim_status |-> "FAILED_LOCAL",
   grant_reuse_attempt |-> FALSE,
   downstream_outcome_status |-> "VERIFIED_NO_EXTERNAL_EFFECT", fresh |-> TRUE,
   source_conflict |-> FALSE, stop_latch |-> FALSE, owner_gate |-> FALSE,
   rollback_action_allowlisted |-> TRUE, rollback_reversible |-> TRUE,
   rollback_external_effect |-> FALSE, external_effect_possible |-> FALSE,
   requested_permissions |-> {local}, minimum_permissions |-> {local},
   retry_count |-> 0, retry_limit |-> 1, circuit_open |-> FALSE, intact |-> TRUE,
   matching |-> TRUE]

MCStartEvidence == {SafeIncident}

(* What tells rollbacks apart, and what stops them, comes and goes.        *)
FewFields ==
  [key |-> Keys, adapter |-> Adapters, stop_latch |-> BOOLEAN,
   owner_gate |-> BOOLEAN, external_effect_possible |-> BOOLEAN,
   retry_count |-> 0 .. 2]

Symmetric == Permutations(Responders)
=============================================================================
