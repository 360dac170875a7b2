--------------------------- MODULE PilotDeciders ---------------------------
(***************************************************************************)
(* The read-only deciders beside the executor, each an ordered list of     *)
(* gates: evaluate_single_pilot_preflight of governance/                   *)
(* m4_single_pilot_composite_preflight.py and evaluate_m4_eligibility of   *)
(* m4_home_system_eligibility.py.                                          *)
(***************************************************************************)
EXTENDS ContinuationGate

(* What the deciders look at beside the item.  blank is the identity that  *)
(* is missing.  adapter_allowed, run_bound and outcome_bound each stand    *)
(* for the fields that are compared with one frozen value.  The preflight  *)
(* brings a permission_allowlist of its own; the evaluator is told in one  *)
(* bit each whether permissions are minimal and a retry limit is there.    *)
Prep ==
  [blank : {"none", "home_system", "work_id", "dedupe_key", "target_adapter", "target"},
   waiting_expected : BOOLEAN, review_gate : BOOLEAN, protected_effects_allowed : BOOLEAN,
   durable_claim_state : {"NONE", "SUCCEEDED", "OTHER"}, negative_tests_passed : BOOLEAN,
   audit_present : BOOLEAN, rollback_present : BOOLEAN, durable_dedupe_passed : BOOLEAN,
   circuit_breaker_present : BOOLEAN, adapter_allowed : BOOLEAN, run_bound : BOOLEAN,
   outcome_bound : BOOLEAN, live_executor_enabled : BOOLEAN,
   permission_allowlist : SUBSET Permissions, minimum_permissions_proven : BOOLEAN,
   retry_limit_present : BOOLEAN]

LeastPrivilege(w, p) ==
  /\ w.requested_permissions \subseteq w.minimum_permissions
  /\ w.minimum_permissions \subseteq p.permission_allowlist

Durable(p) == p.audit_present /\ p.rollback_present /\ p.durable_dedupe_passed

(* A slip: a recovery is proven by any stopped runtime.                    *)
SafeAction_AnyStop(w) ==
  IF w.action_class = "INTERNAL_CONTINUE"
    THEN w.runtime_status = "IDLE" /\ w.safe_internal_next
    ELSE w.runtime_status # "IDLE" /\ w.safe_recovery

SafeAction(w) ==
  IF w.action_class = "INTERNAL_CONTINUE"
    THEN w.runtime_status = "IDLE" /\ w.safe_internal_next
    ELSE w.runtime_status \in {"FAILED", "STALE"} /\ w.safe_recovery

(* evaluate_single_pilot_preflight.  (A count that is no integer fails as  *)
(* a negative one does, and is left out.)                                  *)
Preflight(w, p) ==
  FirstOf(<<
    Gate(p.blank # "none", "FAIL_CLOSED_IDENTITY"),
    Gate(w.source_health # "FRESH", "BLOCKED_SOURCE"),
    Gate(p.waiting_expected, "BLOCKED_EXPECTED_WAIT"),
    Gate(w.owner_gate \/ p.review_gate \/ w.stop_latch, "BLOCKED_OWNER_OR_REVIEW"),
    Gate(w.state # "ACTIVE", "BLOCKED_STATE"),
    Gate(w.continuation_policy # "AUTONOMOUS_EXPECTED", "BLOCKED_POLICY"),
    Gate(w.runtime_status \in {"RUNNING", "UNKNOWN"}, "BLOCKED_RUNTIME"),
    Gate(w.action_class \notin AllowedActions, "BLOCKED_SAFE_ACTION"),
    Gate(~SafeAction(w), "BLOCKED_SAFE_ACTION"),
    Gate(~w.reversible \/ w.external_effect \/ p.protected_effects_allowed,
         "BLOCKED_OWNER_OR_EFFECT"),
    Gate(~LeastPrivilege(w, p), "BLOCKED_RIGHTS"),
    Gate(w.retry_count < 0 \/ w.retry_limit <= 0, "FAIL_CLOSED"),
    Gate(w.circuit_open \/ w.retry_count >= w.retry_limit, "BLOCKED_CIRCUIT"),
    Gate(~p.negative_tests_passed \/ ~Durable(p), "BLOCKED_DURABILITY"),
    Gate(p.durable_claim_state = "SUCCEEDED", "BLOCKED_DUPLICATE_DONE"),
    Gate(p.durable_claim_state # "NONE", "BLOCKED_DURABLE_CLAIM"),
    Gate(~p.adapter_allowed, "BLOCKED_ADAPTER_AUTHORITY"),
    Gate(~p.run_bound, "BLOCKED_RUN_BINDING"),
    Gate(~p.outcome_bound, "BLOCKED_OUTCOME_PROOF"),
    Gate(~p.live_executor_enabled, "BLOCKED_EXECUTOR")>>,
    "READY")

(* evaluate_m4_eligibility.  Of the runtime it is only told whether a run  *)
(* is active.                                                              *)
Eligibility(w, p) ==
  FirstOf(<<
    Gate(p.blank = "home_system", "UNKNOWN"),
    Gate(p.waiting_expected, "WAITING_EXPECTED"),
    Gate(w.stop_latch \/ w.owner_gate \/ p.review_gate, "OWNER_REVIEW_GATE"),
    Gate(w.runtime_status = "RUNNING", "ACTIVE_RUN_NOOP"),
    Gate(w.source_health # "FRESH", "SOURCE_BLOCKED"),
    Gate(w.continuation_policy # "AUTONOMOUS_EXPECTED", "POLICY_BLOCKED"),
    Gate(p.blank \in {"work_id", "dedupe_key"}, "POLICY_BLOCKED"),
    Gate(~w.safe_internal_next /\ ~w.safe_recovery, "SAFE_NEXT_BLOCKED"),
    Gate(p.blank = "target", "SAFE_NEXT_BLOCKED"),
    Gate(w.action_class \notin AllowedActions \/ ~w.reversible \/ w.external_effect,
         "ACTION_BLOCKED"),
    Gate(p.protected_effects_allowed, "ACTION_BLOCKED"),
    Gate(~p.minimum_permissions_proven, "RIGHTS_BLOCKED"),
    Gate(~p.retry_limit_present \/ ~p.circuit_breaker_present \/ ~Durable(p),
         "DURABILITY_BLOCKED"),
    Gate(~p.negative_tests_passed, "TESTS_BLOCKED"),
    Gate(~p.live_executor_enabled, "LIVE_EXECUTOR_BLOCKED")>>,
    "ELIGIBLE")
=============================================================================
