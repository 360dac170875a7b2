--------------------------- MODULE PilotReadiness ---------------------------
(***************************************************************************)
(* The read-only deciders around one work item, beside the executor that   *)
(* would dispatch it: the preflight and the eligibility evaluator of       *)
(* PilotDeciders and classify_cost of CostGuard.  Each is given a snapshot *)
(* of its own; here all are taken of the same moment.                      *)
(***************************************************************************)
EXTENDS ContinuationExecutor, PilotDeciders, CostGuard

CONSTANTS
  StartPrep, PrepValues,  \* what is prepared at first, and what it may become
  StartCost, CostValues   \* the same of the cost snapshot

ASSUME ReadinessAssumption == StartPrep \in Prep /\ StartCost \in CostSnapshot

VARIABLES prep, cost

-----------------------------------------------------------------------------

ReadinessInit == Init /\ prep = StartPrep /\ cost = StartCost

(* External: something else about the item is prepared, or undone.         *)
Prepare ==
  /\ edits < MaxEdits
  /\ edits' = edits + 1
  /\ \E f \in DOMAIN PrepValues : \E v \in PrepValues[f] : prep' = [prep EXCEPT ![f] = v]
  /\ prep' \in Prep
  /\ UNCHANGED <<item, held, completed, booked, attempts, answered, cost>>

(* External: a cost is booked or some evidence of it comes or goes.        *)
Spend ==
  /\ edits < MaxEdits
  /\ edits' = edits + 1
  /\ \E f \in DOMAIN CostValues : \E v \in CostValues[f] : cost' = [cost EXCEPT ![f] = v]
  /\ cost' \in CostSnapshot
  /\ UNCHANGED <<item, held, completed, booked, attempts, answered, prep>>

ReadinessNext == Prepare \/ Spend \/ (Next /\ UNCHANGED <<prep, cost>>)

ReadinessSpec == ReadinessInit /\ [][ReadinessNext]_<<vars, prep, cost>>

-----------------------------------------------------------------------------
(* Properties                                                              *)

(* All that stands ready beside the item, in no order.                     *)
Prepared(p) ==
  /\ p.blank = "none" /\ ~p.waiting_expected /\ ~p.review_gate /\ ~p.protected_effects_allowed
  /\ p.durable_claim_state = "NONE" /\ p.negative_tests_passed /\ Durable(p)
  /\ p.adapter_allowed /\ p.run_bound /\ p.outcome_bound /\ p.live_executor_enabled

(* What the evaluator is told of the home system besides.                  *)
Vouched(p) ==
  p.circuit_breaker_present /\ p.minimum_permissions_proven /\ p.retry_limit_present

(* Three modules decide on one item, each with gates and an order of its   *)
(* own.  What the preflight calls ready the evaluator passes, if its own   *)
(* three bits are set, and the executor dispatches, unless the preflight's *)
(* allowlist knows a permission that the executor's does not.  What the    *)
(* executor may dispatch and is prepared under an allowlist no narrower,   *)
(* the preflight calls ready, with one exception: a negative retry count,  *)
(* which `decide` compares with the limit like any other and the preflight *)
(* refuses.                                                                *)
DecidersAgree ==
  /\ Preflight(item, prep) = "READY" =>
       /\ prep.permission_allowlist \subseteq PermissionAllowlist => MayDispatch(item, {})
       /\ Vouched(prep) => Eligibility(item, prep) = "ELIGIBLE"
  /\ /\ MayDispatch(item, {}) /\ Prepared(prep)
     /\ PermissionAllowlist \subseteq prep.permission_allowlist
     => (Preflight(item, prep) = "READY" <=> item.retry_count >= 0)

(* No snapshot with a month's end at or above the limit licenses anything, *)
(* none at four fifths passes without a warning, and of two snapshots of   *)
(* one month the one with less evidence, or with a cost more, never        *)
(* licenses more, whichever gate decides (classify_cost).                  *)
CostSound ==
  /\ Licence[ClassifyCost(cost)] > 0 => Effective(cost) < BUDGET_LIMIT
  /\ Licence[ClassifyCost(cost)] > 1 => Effective(cost) * 5 < BUDGET_LIMIT * 4
  /\ (\A a \in Amounts(cost) : a >= 0) =>
       \A s \in Worse(cost) : Licence[ClassifyCost(s)] <= Licence[ClassifyCost(cost)]
=============================================================================
