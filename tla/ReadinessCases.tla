--------------------------- MODULE ReadinessCases ---------------------------
(***************************************************************************)
(* The deterministic cases of four gate scripts under critical/, which ask *)
(* the executor's decision, the eligibility evaluator, the preflight and   *)
(* the cost guard about a base snapshot with a field or two replaced: the  *)
(* models must give every case the outcome that its script expects.  Cases *)
(* with the same outcome stand together.  Where several fields of the      *)
(* program are one of the model, variants of a case are one case.          *)
(***************************************************************************)
EXTENDS Integers, Sequences

D == INSTANCE PilotDeciders WITH
       Keys <- {"shared-success", "other"},
       Permissions <- {"contents:read", "actions:write", "issues:write"},
       PermissionAllowlist <- {"contents:read", "actions:write"}

C == INSTANCE CostGuard

BaseItem ==
  [state |-> "ACTIVE", continuation_policy |-> "AUTONOMOUS_EXPECTED",
   source_health |-> "FRESH", runtime_status |-> "IDLE", safe_internal_next |-> TRUE,
   safe_recovery |-> FALSE, action_class |-> "INTERNAL_CONTINUE", reversible |-> TRUE,
   external_effect |-> FALSE, owner_gate |-> FALSE, stop_latch |-> FALSE,
   dedupe_key |-> "other", retry_count |-> 0, retry_limit |-> 3, circuit_open |-> FALSE,
   requested_permissions |-> {"contents:read"}, minimum_permissions |-> {"contents:read"}]

-----------------------------------------------------------------------------
(* safe_continuation_executor_v1_gate.py.  The cases run through one       *)
(* executor, which remembers the success of SC-02 when SC-10 comes.        *)

Done == {"shared-success"}

With(action) == [BaseItem EXCEPT !.action_class = action]

Policy(policy) == [BaseItem EXCEPT !.continuation_policy = policy]

Recovery(status, safe) ==
  [BaseItem EXCEPT !.runtime_status = status, !.safe_internal_next = FALSE,
                   !.safe_recovery = safe, !.action_class = "INTERNAL_RECOVERY"]

ContinuationCases ==
  [NOOP_RUNNING |-> {[BaseItem EXCEPT !.runtime_status = "RUNNING"]},
   DISPATCH_CONTINUE |-> {BaseItem},
   DISPATCH_RECOVERY |-> {Recovery("FAILED", TRUE)},
   FAIL_CLOSED |-> {Recovery("STALE", FALSE), With("DELETE"), With("OTHER")},
   NOOP_PARKED |-> {Policy("PARKED")},
   NOOP_WAITING_EXTERNAL |-> {Policy("WAITING_EXTERNAL")},
   OWNER_REQUIRED |-> {[BaseItem EXCEPT !.owner_gate = TRUE], With("MERGE"),
                       With("EXTERNAL_SEND"), With("PAYMENT")},
   SOURCE_RECONCILE |-> {[BaseItem EXCEPT !.source_health = "OTHER"],
                         [BaseItem EXCEPT !.runtime_status = "UNKNOWN"]},
   NOOP_DUPLICATE |-> {[BaseItem EXCEPT !.dedupe_key = "shared-success"]},
   NOOP_DONE |-> {[BaseItem EXCEPT !.state = "DONE"]},
   STOPPED |-> {[BaseItem EXCEPT !.stop_latch = TRUE]},
   CIRCUIT_OPEN |-> {[BaseItem EXCEPT !.retry_count = 3]},
   FAIL_CLOSED_LEAST_PRIVILEGE |->
     {[BaseItem EXCEPT !.requested_permissions = @ \cup {"actions:write"}]}]

(* A dispatch that fails twice is tried twice, and then no more.           *)
RetryCase(count) == [BaseItem EXCEPT !.retry_count = count, !.retry_limit = 2]

(* The executor decides every case as the script expects, and stops        *)
(* retrying at the limit.                                                  *)
ASSUME ContinuationConforms ==
  /\ \A s \in DOMAIN ContinuationCases : \A w \in ContinuationCases[s] : D!Decide(w, Done) = s
  /\ \A n \in 0 .. 2 : D!MayDispatch(RetryCase(n), Done) <=> n < 2
  /\ D!Decide(RetryCase(2), Done) = "CIRCUIT_OPEN"

-----------------------------------------------------------------------------

BasePrep ==
  [blank |-> "none", waiting_expected |-> FALSE, review_gate |-> FALSE,
   protected_effects_allowed |-> FALSE, durable_claim_state |-> "NONE",
   negative_tests_passed |-> TRUE, audit_present |-> TRUE, rollback_present |-> TRUE,
   durable_dedupe_passed |-> TRUE, circuit_breaker_present |-> TRUE,
   adapter_allowed |-> TRUE, run_bound |-> TRUE, outcome_bound |-> TRUE,
   live_executor_enabled |-> TRUE, minimum_permissions_proven |-> TRUE,
   retry_limit_present |-> TRUE,
   permission_allowlist |-> {"contents:read", "actions:write"}]

Base == [item |-> BaseItem, prep |-> BasePrep]

(* m4_home_system_eligibility_gate.py                                      *)
EligibilityCases ==
  [ELIGIBLE |-> {Base},
   OWNER_REVIEW_GATE |->
     {[Base EXCEPT !.prep.review_gate = TRUE], [Base EXCEPT !.item.owner_gate = TRUE],
      [Base EXCEPT !.item.stop_latch = TRUE],
      [Base EXCEPT !.prep.review_gate = TRUE, !.prep.live_executor_enabled = FALSE]},
   ACTIVE_RUN_NOOP |-> {[Base EXCEPT !.item.runtime_status = "RUNNING"]},
   SOURCE_BLOCKED |-> {[Base EXCEPT !.item.source_health = "OTHER"]},
   POLICY_BLOCKED |-> {[Base EXCEPT !.item.continuation_policy = "MANUAL_ON_DEMAND"]},
   SAFE_NEXT_BLOCKED |-> {[Base EXCEPT !.item.safe_internal_next = FALSE]},
   ACTION_BLOCKED |-> {[Base EXCEPT !.item.external_effect = TRUE],
                       [Base EXCEPT !.prep.protected_effects_allowed = TRUE]},
   RIGHTS_BLOCKED |-> {[Base EXCEPT !.prep.minimum_permissions_proven = FALSE]},
   DURABILITY_BLOCKED |-> {[Base EXCEPT !.prep.durable_dedupe_passed = FALSE]},
   TESTS_BLOCKED |-> {[Base EXCEPT !.prep.negative_tests_passed = FALSE]},
   LIVE_EXECUTOR_BLOCKED |-> {[Base EXCEPT !.prep.live_executor_enabled = FALSE]},
   WAITING_EXPECTED |-> {[Base EXCEPT !.prep.waiting_expected = TRUE]}]

(* The evaluator gives every case the status that the script expects.      *)
ASSUME EligibilityConforms ==
  \A s \in DOMAIN EligibilityCases : \A c \in EligibilityCases[s] :
    D!Eligibility(c.item, c.prep) = s

(* The three home systems as they were observed: PETER waits, the old      *)
(* USCHI is frozen, and the new one has no adapter that is allowed.        *)
Peter == [Base EXCEPT !.prep.adapter_allowed = FALSE, !.prep.waiting_expected = TRUE,
                      !.prep.live_executor_enabled = FALSE]

UschiLegacy == [Base EXCEPT !.prep.adapter_allowed = FALSE, !.item.state = "OTHER",
                            !.item.continuation_policy = "PARKED",
                            !.prep.live_executor_enabled = FALSE]

UschiNew == [Base EXCEPT !.prep.adapter_allowed = FALSE]

BaseRecovery(status, safe) == [Base EXCEPT !.item = Recovery(status, safe)]

(* m4_single_pilot_composite_preflight_v1_gate.py                          *)
PreflightCases ==
  [READY |-> {Base},
   BLOCKED_SOURCE |-> {[Base EXCEPT !.item.source_health = "OTHER"]},
   BLOCKED_STATE |-> {[Base EXCEPT !.item.state = "DONE"], UschiLegacy},
   BLOCKED_POLICY |-> {[Base EXCEPT !.item.continuation_policy = "MANUAL_ON_DEMAND"]},
   BLOCKED_EXPECTED_WAIT |-> {[Base EXCEPT !.prep.waiting_expected = TRUE], Peter},
   BLOCKED_OWNER_OR_REVIEW |->
     {[Base EXCEPT !.item.owner_gate = TRUE], [Base EXCEPT !.prep.review_gate = TRUE],
      [Base EXCEPT !.item.stop_latch = TRUE]},
   BLOCKED_RUNTIME |-> {[Base EXCEPT !.item.runtime_status = "RUNNING"],
                        [Base EXCEPT !.item.runtime_status = "UNKNOWN"]},
   BLOCKED_SAFE_ACTION |->
     {BaseRecovery("IDLE", TRUE), BaseRecovery("FAILED", FALSE),
      [Base EXCEPT !.item.safe_internal_next = FALSE], [Base EXCEPT !.item.action_class = "MERGE"]},
   BLOCKED_OWNER_OR_EFFECT |->
     {[Base EXCEPT !.item.reversible = FALSE], [Base EXCEPT !.item.external_effect = TRUE],
      [Base EXCEPT !.prep.protected_effects_allowed = TRUE]},
   BLOCKED_RIGHTS |->
     {[Base EXCEPT !.item.requested_permissions = @ \cup {"issues:write"}],
      [Base EXCEPT !.item.minimum_permissions = @ \cup {"issues:write"}]},
   BLOCKED_CIRCUIT |-> {[Base EXCEPT !.item.retry_count = 3], [Base EXCEPT !.item.circuit_open = TRUE]},
   BLOCKED_DURABILITY |->
     {[Base EXCEPT !.prep[f] = FALSE] :
        f \in {"negative_tests_passed", "audit_present", "rollback_present", "durable_dedupe_passed"}},
   FAIL_CLOSED_IDENTITY |->
     {[Base EXCEPT !.prep.blank = f] : f \in {"work_id", "dedupe_key", "target", "target_adapter"}},
   BLOCKED_ADAPTER_AUTHORITY |-> {UschiNew},
   BLOCKED_RUN_BINDING |-> {[Base EXCEPT !.prep.run_bound = FALSE]},
   BLOCKED_DURABLE_CLAIM |-> {[Base EXCEPT !.prep.durable_claim_state = "OTHER"]},
   BLOCKED_DUPLICATE_DONE |-> {[Base EXCEPT !.prep.durable_claim_state = "SUCCEEDED"]},
   BLOCKED_OUTCOME_PROOF |-> {[Base EXCEPT !.prep.outcome_bound = FALSE]}]

(* The preflight gives every case the status that the script expects.      *)
ASSUME PreflightConforms ==
  \A s \in DOMAIN PreflightCases : \A c \in PreflightCases[s] :
    D!Preflight(c.item, c.prep) = s

-----------------------------------------------------------------------------
(* m5_cost_tco_evidence_guard_v0_1_gate.py                                 *)

BaseCost ==
  [well_formed |-> TRUE, limit |-> 2000, accrued |-> 400, committed |-> 200,
   projected |-> 800, delta |-> 0, unknown_paths |-> 0, observed_before_checked |-> TRUE,
   lines |-> {"good"}, coverage_complete |-> TRUE, source_conflict |-> FALSE,
   owner_override |-> FALSE, source_fresh |-> TRUE]

Projected(cents) == [BaseCost EXCEPT !.projected = cents]

CostCases ==
  [COST_PASS |-> {Projected(1000), Projected(1599)},
   COST_WARNING |-> {Projected(1600), Projected(1999)},
   OWNER_REQUIRED |->
     {Projected(2000), Projected(2500), [Projected(1700) EXCEPT !.delta = 300],
      [BaseCost EXCEPT !.owner_override = TRUE]},
   EVIDENCE_INCOMPLETE |->
     {[BaseCost EXCEPT !.source_fresh = FALSE], [BaseCost EXCEPT !.coverage_complete = FALSE],
      [BaseCost EXCEPT !.unknown_paths = 1], [BaseCost EXCEPT !.lines = {"stale"}]},
   FAIL_CLOSED |->
     {[BaseCost EXCEPT !.source_conflict = TRUE], [BaseCost EXCEPT !.accrued = -1],
      Projected(-1), [BaseCost EXCEPT !.accrued = 900, !.committed = 0],
      [BaseCost EXCEPT !.well_formed = FALSE], [BaseCost EXCEPT !.limit = 3000],
      [BaseCost EXCEPT !.lines = {"malformed"}], [BaseCost EXCEPT !.lines = {}],
      [BaseCost EXCEPT !.delta = -1]}]

(* expected_permit_like: what it takes to be let on, with or without a     *)
(* warning, all at once.  (It does not look at the order of the times.)    *)
ExpectedPermit(s) ==
  /\ s.well_formed /\ s.limit = 2000
  /\ \A a \in {s.accrued, s.committed, s.projected, s.delta} : a >= 0
  /\ s.accrued + s.committed <= s.projected
  /\ s.coverage_complete /\ s.unknown_paths <= 0 /\ ~s.source_conflict
  /\ ~s.owner_override /\ s.source_fresh
  /\ s.lines = {"good"}
  /\ s.projected + s.delta < 2000

(* The snapshots the script draws at random, with the amounts at their     *)
(* boundaries: one line of evidence.                                       *)
DrawnCosts ==
  [well_formed : BOOLEAN, limit : {2000, 1800}, accrued : {-5, 0, 1499, 2199},
   committed : {-5, 0, 100, 899}, projected : {0, 1599, 1600, 1999, 2000},
   delta : {-5, 0, 1, 499}, unknown_paths : {0, 2}, observed_before_checked : {TRUE},
   lines : {{line} : line \in C!Lines}, coverage_complete : BOOLEAN,
   source_conflict : BOOLEAN, owner_override : BOOLEAN, source_fresh : BOOLEAN]

(* The guard decides every case as the script expects, and lets a drawn    *)
(* snapshot pass exactly when the script's own formula does.               *)
ASSUME CostConforms ==
  /\ \A s \in DOMAIN CostCases : \A c \in CostCases[s] : C!ClassifyCost(c) = s
  /\ \A c \in DrawnCosts :
       C!ClassifyCost(c) \in {"COST_PASS", "COST_WARNING"} <=> ExpectedPermit(c)
=============================================================================
