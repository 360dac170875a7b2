----------------------------- MODULE CostGuard -----------------------------
(***************************************************************************)
(* governance/m5_cost_tco_evidence_guard.py: what a month's cost snapshot  *)
(* allows.  Amounts are euro cents.  well_formed stands for version, names,*)
(* period, currency and the zones of the times; a line is one of four      *)
(* kinds.                                                                  *)
(***************************************************************************)
EXTENDS GateList

BUDGET_LIMIT == 2000

WARNING_PERCENT == 80

Lines == {"good", "stale", "uncovered", "malformed"}

CostSnapshot ==
  [well_formed : BOOLEAN, limit : Nat, accrued : Int, committed : Int, projected : Int,
   delta : Int, unknown_paths : Int, observed_before_checked : BOOLEAN,
   lines : SUBSET Lines, coverage_complete : BOOLEAN, source_conflict : BOOLEAN,
   owner_override : BOOLEAN, source_fresh : BOOLEAN]

Effective(s) == s.projected + s.delta

Amounts(s) == {s.accrued, s.committed, s.projected, s.delta, s.unknown_paths}

(* A slip: the limit itself is still within the budget.                    *)
OverLimit_Beyond(s) == Effective(s) > BUDGET_LIMIT

OverLimit(s) == Effective(s) >= BUDGET_LIMIT

NearLimit(s) == Effective(s) * 100 >= BUDGET_LIMIT * WARNING_PERCENT

EvidenceComplete(s) ==
  s.coverage_complete /\ s.unknown_paths = 0 /\ s.lines \subseteq {"good"}

(* classify_cost                                                           *)
ClassifyCost(s) ==
  FirstOf(<<
    Gate(~s.well_formed \/ s.limit # BUDGET_LIMIT, "FAIL_CLOSED"),
    Gate(\E a \in Amounts(s) : a < 0, "FAIL_CLOSED"),
    Gate(s.accrued + s.committed > s.projected, "FAIL_CLOSED"),
    Gate(~s.observed_before_checked, "FAIL_CLOSED"),
    Gate(s.coverage_complete /\ s.lines = {}, "FAIL_CLOSED"),
    Gate("malformed" \in s.lines \/ s.source_conflict, "FAIL_CLOSED"),
    Gate(s.owner_override, "OWNER_REQUIRED"),
    Gate(~s.source_fresh, "EVIDENCE_INCOMPLETE"),
    Gate(~EvidenceComplete(s), "EVIDENCE_INCOMPLETE"),
    Gate(OverLimit(s), "OWNER_REQUIRED"),
    Gate(NearLimit(s), "COST_WARNING")>>,
    "COST_PASS")

(* What lets the work go on by itself, and how freely.                     *)
Licence == [COST_PASS |-> 2, COST_WARNING |-> 1, OWNER_REQUIRED |-> 0,
            EVIDENCE_INCOMPLETE |-> 0, FAIL_CLOSED |-> 0]

(* The same costs seen with less evidence, or with a cost more.            *)
Worse(s) ==
  {[s EXCEPT !.lines = @ \cup {x}] : x \in Lines \ {"good"}}
  \cup {[s EXCEPT !.coverage_complete = FALSE], [s EXCEPT !.source_fresh = FALSE],
        [s EXCEPT !.source_conflict = TRUE], [s EXCEPT !.unknown_paths = @ + 1]}
  \cup {[s EXCEPT !.delta = @ + c] : c \in {1, 400}}
  \cup {[s EXCEPT !.accrued = @ + c] : c \in {1, 400}}
=============================================================================
