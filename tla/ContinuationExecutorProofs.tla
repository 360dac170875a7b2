--------------------- MODULE ContinuationExecutorProofs ---------------------
(***************************************************************************)
(* Theorems about ContinuationExecutor, for any items, any revisions, any  *)
(* number of calls and restarts, and about PilotReadiness: the deciders    *)
(* beside the executor and the cost guard, for any item, any preparation   *)
(* and any amounts.                                                        *)
(***************************************************************************)
EXTENDS PilotReadiness, WellFoundedInduction, TLAPS

(* The ordered gates of `decide` let pass exactly the legal items that are *)
(* not completed: no order of the gates hides a missing prerequisite.      *)
THEOREM GatesExact ==
  ASSUME NEW w \in WorkItem, NEW done
  PROVE  MayDispatch(w, done) <=> LegalDispatch(w) /\ w.dedupe_key \notin done
<1> DEFINE gates == Gates(w, done)
<1>1. DOMAIN gates = 1 .. 21
  BY DEF Gates
<1>2. MayDispatch(w, done) <=>
        /\ ~gates[1].fires /\ ~gates[2].fires /\ ~gates[3].fires /\ ~gates[4].fires
        /\ ~gates[5].fires /\ ~gates[6].fires /\ ~gates[7].fires /\ ~gates[8].fires
        /\ ~gates[9].fires /\ ~gates[10].fires /\ ~gates[11].fires /\ ~gates[12].fires
        /\ ~gates[13].fires /\ ~gates[14].fires /\ ~gates[15].fires /\ ~gates[16].fires
        /\ ~gates[17].fires /\ ~gates[18].fires /\ ~gates[19].fires /\ ~gates[20].fires
        /\ ~gates[21].fires
  BY <1>1, SMTT(30) DEF MayDispatch
<1>3. /\ gates[1].fires = w.stop_latch /\ gates[2].fires = w.owner_gate
      /\ gates[3].fires = (w.source_health # "FRESH")
      /\ gates[4].fires = (w.state = "DONE") /\ gates[5].fires = (w.state # "ACTIVE")
      /\ gates[6].fires = (w.continuation_policy = "PARKED")
      /\ gates[7].fires = (w.continuation_policy = "WAITING_EXTERNAL")
      /\ gates[8].fires = (w.continuation_policy = "MANUAL_ON_DEMAND")
      /\ gates[9].fires = (w.continuation_policy = "OWNER_REQUIRED")
      /\ gates[10].fires = (w.continuation_policy # "AUTONOMOUS_EXPECTED")
      /\ gates[11].fires = (w.runtime_status = "RUNNING")
      /\ gates[12].fires = (w.runtime_status = "UNKNOWN")
      /\ gates[13].fires = (w.runtime_status = "OTHER")
      /\ gates[14].fires = (w.dedupe_key \in done)
  BY DEF Gates, Gate
<1>4. /\ gates[15].fires = (w.action_class \in OwnerActions)
      /\ gates[16].fires = (w.action_class \notin AllowedActions)
      /\ gates[17].fires = ~ActionFitsRuntime(w)
      /\ gates[18].fires = (~w.reversible \/ w.external_effect)
      /\ gates[19].fires = ~(w.requested_permissions \subseteq w.minimum_permissions)
      /\ gates[20].fires = ~(w.minimum_permissions \subseteq PermissionAllowlist)
      /\ gates[21].fires = (w.circuit_open \/ w.retry_count >= w.retry_limit)
  BY DEF Gates, Gate
<1>5. /\ w.retry_count \in Int /\ w.retry_limit \in Int
      /\ w.runtime_status \in {"IDLE", "FAILED", "STALE", "RUNNING", "UNKNOWN", "OTHER"}
      /\ w.safe_recovery \in BOOLEAN /\ w.safe_internal_next \in BOOLEAN
  BY DEF WorkItem
<1>6. (/\ w.action_class \notin OwnerActions /\ w.action_class \in AllowedActions
       /\ ActionFitsRuntime(w) /\ w.runtime_status \notin {"RUNNING", "UNKNOWN", "OTHER"})
        <=> \/ /\ w.action_class = "INTERNAL_CONTINUE"
               /\ w.runtime_status = "IDLE" /\ w.safe_internal_next
            \/ /\ w.action_class = "INTERNAL_RECOVERY"
               /\ w.runtime_status \in {"FAILED", "STALE"} /\ w.safe_recovery
  BY <1>5 DEF ActionFitsRuntime, OwnerActions, AllowedActions
<1>7. w.retry_count >= w.retry_limit <=> ~(w.retry_count < w.retry_limit)
  BY <1>5
<1> QED
  BY <1>2, <1>3, <1>4, <1>6, <1>7 DEF LegalDispatch

(* The inductive invariant: a key in flight is not completed yet, or its   *)
(* success could be booked twice.                                          *)
HeldOpen == held # NoItem => held.dedupe_key \notin completed

ExecutorInv == TypeOK /\ OnlyLegalDispatch /\ BooksBalance /\ CompletedOnce /\ HeldOpen

LEMMA InitExecutor == Init => ExecutorInv
<1> SUFFICES ASSUME Init PROVE ExecutorInv
  OBVIOUS
<1>1. TypeOK
  BY ExecutorAssumption DEF Init, TypeOK, NoBooks, Books
<1>2. OnlyLegalDispatch
  BY <1>1, GatesExact DEF Init, OnlyLegalDispatch, TypeOK
<1>3. BooksBalance /\ CompletedOnce /\ HeldOpen
  BY DEF Init, BooksBalance, CompletedOnce, NoBooks, HeldOpen
<1> QED
  BY <1>1, <1>2, <1>3 DEF ExecutorInv

LEMMA NextExecutor == ExecutorInv /\ [Next]_vars => ExecutorInv'
<1> SUFFICES ASSUME ExecutorInv, [Next]_vars PROVE ExecutorInv'
  OBVIOUS
<1> USE DEF ExecutorInv, HeldOpen
<1>0. NoItem \notin WorkItem /\ \A w \in WorkItem : w.dedupe_key \in Keys
  BY DEF NoItem, WorkItem
<1>1. CASE UNCHANGED vars
  BY <1>1 DEF vars, TypeOK, OnlyLegalDispatch, BooksBalance, CompletedOnce
<1>2. CASE Revise
  <2>1. TypeOK'
    BY <1>2, ExecutorAssumption DEF Revise, TypeOK
  <2>2. OnlyLegalDispatch'
    BY <1>2, <2>1, GatesExact DEF Revise, OnlyLegalDispatch, TypeOK
  <2> QED
    BY <1>2, <2>1, <2>2 DEF Revise, BooksBalance, CompletedOnce
<1>3. CASE Decline
  <2>1. TypeOK'
    BY <1>3, ExecutorAssumption DEF Decline, Called, watched, TypeOK
  <2> QED
    BY <1>3, <2>1 DEF Decline, Called, watched, OnlyLegalDispatch, BooksBalance, CompletedOnce
<1>4. CASE Attempt
  <2>1. /\ item \in WorkItem /\ item.dedupe_key \in Keys /\ held = NoItem /\ held' = item
        /\ LegalDispatch(item) /\ item.dedupe_key \notin completed
        /\ booked' = [booked EXCEPT ![item.dedupe_key].attempt = @ + 1]
        /\ UNCHANGED <<item, edits, completed>> /\ booked \in [Keys -> Books]
    BY <1>0, <1>4, GatesExact DEF Attempt, Called, watched, TypeOK
  <2>2. TypeOK'
    BY <1>4, <2>1, ExecutorAssumption DEF Attempt, Called, TypeOK, Books
  <2>3. OnlyLegalDispatch'
    BY <2>1 DEF OnlyLegalDispatch
  <2>4. BooksBalance'
    BY <2>1, <1>0 DEF BooksBalance, Books
  <2>5. CompletedOnce'
    BY <2>1 DEF CompletedOnce, Books
  <2> QED
    BY <2>1, <2>2, <2>3, <2>4, <2>5
<1>5. CASE CallbackTrue
  <2>1. PICK k \in Keys : k = held.dedupe_key
    BY <1>0, <1>5 DEF CallbackTrue, TypeOK
  <2>2. /\ held # NoItem /\ held' = NoItem /\ completed' = completed \cup {k}
        /\ booked' = [booked EXCEPT ![k].success = @ + 1]
        /\ UNCHANGED <<item, edits, attempts>> /\ booked \in [Keys -> Books]
    BY <1>5, <2>1 DEF CallbackTrue, watched, TypeOK
  <2>3. TypeOK'
    BY <2>2 DEF TypeOK, Books
  <2>4. OnlyLegalDispatch'
    BY <2>2, GatesExact DEF OnlyLegalDispatch, TypeOK
  <2>5. BooksBalance'
    BY <2>1, <2>2 DEF BooksBalance, Books
  <2>6. CompletedOnce'
    BY <2>1, <2>2 DEF CompletedOnce, Books
  <2> QED
    BY <2>2, <2>3, <2>4, <2>5, <2>6
<1>6. CASE CallbackFalse
  <2>1. PICK k \in Keys : k = held.dedupe_key
    BY <1>0, <1>6 DEF CallbackFalse, TypeOK
  <2>2. /\ held # NoItem /\ held' = NoItem /\ UNCHANGED <<item, edits, attempts, completed>>
        /\ booked' = [booked EXCEPT ![k].failure = @ + 1] /\ booked \in [Keys -> Books]
    BY <1>6, <2>1 DEF CallbackFalse, watched, TypeOK
  <2>3. TypeOK'
    BY <2>2 DEF TypeOK, Books
  <2>4. OnlyLegalDispatch'
    BY <2>2 DEF OnlyLegalDispatch
  <2>5. BooksBalance'
    BY <2>1, <2>2 DEF BooksBalance, Books
  <2>6. CompletedOnce'
    BY <2>2 DEF CompletedOnce, Books
  <2> QED
    BY <2>2, <2>3, <2>4, <2>5, <2>6
<1>7. CASE Restart
  <2>1. TypeOK' /\ BooksBalance' /\ CompletedOnce'
    BY <1>7 DEF Restart, watched, TypeOK, BooksBalance, CompletedOnce, NoBooks, Books
  <2>2. OnlyLegalDispatch'
    BY <1>7, GatesExact DEF Restart, watched, TypeOK, OnlyLegalDispatch
  <2> QED
    BY <1>7, <2>1, <2>2 DEF Restart
<1> QED
  BY <1>1, <1>2, <1>3, <1>4, <1>5, <1>6, <1>7 DEF Next

THEOREM ExecutorInvariant == Spec => []ExecutorInv
BY InitExecutor, NextExecutor, PTL DEF Spec

(* A dispatch in flight satisfies every frozen prerequisite.               *)
THEOREM DispatchesLegal == Spec => []OnlyLegalDispatch
<1>1. ExecutorInv => OnlyLegalDispatch
  BY DEF ExecutorInv
<1> QED
  BY <1>1, ExecutorInvariant, PTL

(* Every attempt is booked once, and a key succeeds once per instance.     *)
THEOREM BooksSound == Spec => [](BooksBalance /\ CompletedOnce)
<1>1. ExecutorInv => BooksBalance /\ CompletedOnce
  BY DEF ExecutorInv
<1> QED
  BY <1>1, ExecutorInvariant, PTL

-----------------------------------------------------------------------------
(* The deciders beside the executor                                        *)

(* A nonempty set of naturals has a least member.                          *)
LEMMA LeastNatural ==
  ASSUME NEW S \in SUBSET Nat, S # {}
  PROVE  \E i \in S : \A j \in S : i <= j
<1> DEFINE R == {ss \in Nat \X Nat : ss[1] < ss[2]}
<1>1. IsWellFoundedOn(R, Nat)
  BY NatLessThanWellFounded DEF OpToRel
<1>2. PICK i \in S : \A j \in S : ~(<<j, i>> \in R)
  <2> HIDE DEF R
  <2> QED
    BY <1>1, WFMin, Zenon
<1>3. \A j \in S : ~(j < i)
  BY <1>2
<1> QED
  BY <1>2, <1>3

(* Of some gates either none fires, or one fires and none before it.       *)
LEMMA FirstDecides ==
  ASSUME NEW n \in Nat, NEW gates, DOMAIN gates = 1 .. n, NEW otherwise
  PROVE  \/ /\ FirstOf(gates, otherwise) = otherwise
            /\ \A i \in 1 .. n : ~gates[i].fires
         \/ \E i \in 1 .. n :
              /\ gates[i].fires /\ FirstOf(gates, otherwise) = gates[i].outcome
              /\ \A j \in 1 .. n : j < i => ~gates[j].fires
<1> DEFINE fired == {i \in DOMAIN gates : gates[i].fires}
           first == CHOOSE i \in fired : \A j \in fired : i <= j
<1>1. FirstOf(gates, otherwise) = IF fired = {} THEN otherwise ELSE gates[first].outcome
  BY DEF FirstOf
<1>2. CASE fired = {}
  BY <1>1, <1>2
<1>3. CASE fired # {}
  <2>1. \E i \in fired : \A j \in fired : i <= j
    <3>1. fired \in SUBSET Nat
      OBVIOUS
    <3> HIDE DEF fired
    <3> QED
      BY <1>3, <3>1, LeastNatural
  <2>2. first \in fired /\ \A j \in fired : first <= j
    BY <2>1, Zenon
  <2> QED
    BY <1>1, <1>3, <2>2
<1> QED
  BY <1>2, <1>3

(* All that the preflight asks of an item and of what stands beside it.    *)
Passes(w, p) ==
  /\ p.blank = "none" /\ w.source_health = "FRESH" /\ ~p.waiting_expected
  /\ ~w.owner_gate /\ ~p.review_gate /\ ~w.stop_latch
  /\ w.state = "ACTIVE" /\ w.continuation_policy = "AUTONOMOUS_EXPECTED"
  /\ w.runtime_status \notin {"RUNNING", "UNKNOWN"}
  /\ w.action_class \in AllowedActions /\ SafeAction(w)
  /\ w.reversible /\ ~w.external_effect /\ ~p.protected_effects_allowed
  /\ LeastPrivilege(w, p)
  /\ ~(w.retry_count < 0) /\ ~(w.retry_limit <= 0)
  /\ ~w.circuit_open /\ ~(w.retry_count >= w.retry_limit)
  /\ p.negative_tests_passed /\ Durable(p) /\ p.durable_claim_state = "NONE"
  /\ p.adapter_allowed /\ p.run_bound /\ p.outcome_bound /\ p.live_executor_enabled

LEMMA PreflightExact ==
  ASSUME NEW w, NEW p
  PROVE  Preflight(w, p) = "READY" <=> Passes(w, p)
<1> DEFINE gates ==
  <<Gate(p.blank # "none", "FAIL_CLOSED_IDENTITY"),
    Gate(w.source_health # "FRESH", "BLOCKED_SOURCE"),
    Gate(p.waiting_expected, "BLOCKED_EXPECTED_WAIT"),
    Gate(w.owner_gate \/ p.review_gate \/ w.stop_latch, "BLOCKED_OWNER_OR_REVIEW"),
    Gate(w.state # "ACTIVE", "BLOCKED_STATE"),
    Gate(w.continuation_policy # "AUTONOMOUS_EXPECTED", "BLOCKED_POLICY"),
    Gate(w.runtime_status \in {"RUNNING", "UNKNOWN"}, "BLOCKED_RUNTIME"),
    Gate(w.action_class \notin AllowedActions, "BLOCKED_SAFE_ACTION"),
    Gate(~SafeAction(w), "BLOCKED_SAFE_ACTION"),
    Gate(~w.reversible \/ w.external_effect \/ p.protected_effects_allowed,
         "BLOCKED_OWNER_OR_EFFECT"),
    Gate(~LeastPrivilege(w, p), "BLOCKED_RIGHTS"),
    Gate(w.retry_count < 0 \/ w.retry_limit <= 0, "FAIL_CLOSED"),
    Gate(w.circuit_open \/ w.retry_count >= w.retry_limit, "BLOCKED_CIRCUIT"),
    Gate(~p.negative_tests_passed \/ ~Durable(p), "BLOCKED_DURABILITY"),
    Gate(p.durable_claim_state = "SUCCEEDED", "BLOCKED_DUPLICATE_DONE"),
    Gate(p.durable_claim_state # "NONE", "BLOCKED_DURABLE_CLAIM"),
    Gate(~p.adapter_allowed, "BLOCKED_ADAPTER_AUTHORITY"),
    Gate(~p.run_bound, "BLOCKED_RUN_BINDING"),
    Gate(~p.outcome_bound, "BLOCKED_OUTCOME_PROOF"),
    Gate(~p.live_executor_enabled, "BLOCKED_EXECUTOR")>>
<1>1. Preflight(w, p) = FirstOf(gates, "READY")
  BY Zenon DEF Preflight
<1>2. DOMAIN gates = 1 .. 20
  OBVIOUS
<1>3. \A i \in 1 .. 20 : gates[i].outcome # "READY"
  BY DEF Gate
<1>4. /\ gates[1].fires = (p.blank # "none") /\ gates[2].fires = (w.source_health # "FRESH")
      /\ gates[3].fires = p.waiting_expected
      /\ gates[4].fires = (w.owner_gate \/ p.review_gate \/ w.stop_latch)
      /\ gates[5].fires = (w.state # "ACTIVE")
      /\ gates[6].fires = (w.continuation_policy # "AUTONOMOUS_EXPECTED")
      /\ gates[7].fires = (w.runtime_status \in {"RUNNING", "UNKNOWN"})
      /\ gates[8].fires = (w.action_class \notin AllowedActions)
      /\ gates[9].fires = ~SafeAction(w)
      /\ gates[10].fires = (~w.reversible \/ w.external_effect \/ p.protected_effects_allowed)
      /\ gates[11].fires = ~LeastPrivilege(w, p)
      /\ gates[12].fires = (w.retry_count < 0 \/ w.retry_limit <= 0)
      /\ gates[13].fires = (w.circuit_open \/ w.retry_count >= w.retry_limit)
      /\ gates[14].fires = (~p.negative_tests_passed \/ ~Durable(p))
      /\ gates[15].fires = (p.durable_claim_state = "SUCCEEDED")
      /\ gates[16].fires = (p.durable_claim_state # "NONE")
      /\ gates[17].fires = ~p.adapter_allowed /\ gates[18].fires = ~p.run_bound
      /\ gates[19].fires = ~p.outcome_bound /\ gates[20].fires = ~p.live_executor_enabled
  BY Zenon DEF Gate
<1> HIDE DEF gates
<1>5. Preflight(w, p) = "READY" <=> \A i \in 1 .. 20 : ~gates[i].fires
  <2>1. \/ /\ FirstOf(gates, "READY") = "READY"
           /\ \A i \in 1 .. 20 : ~gates[i].fires
        \/ \E i \in 1 .. 20 :
             /\ gates[i].fires /\ FirstOf(gates, "READY") = gates[i].outcome
             /\ \A j \in 1 .. 20 : j < i => ~gates[j].fires
    BY <1>2, FirstDecides
  <2> QED
    BY <1>1, <1>3, <2>1
<1>6. (\A i \in 1 .. 20 : ~gates[i].fires) <=>
        /\ ~gates[1].fires /\ ~gates[2].fires /\ ~gates[3].fires /\ ~gates[4].fires
        /\ ~gates[5].fires /\ ~gates[6].fires /\ ~gates[7].fires /\ ~gates[8].fires
        /\ ~gates[9].fires /\ ~gates[10].fires /\ ~gates[11].fires /\ ~gates[12].fires
        /\ ~gates[13].fires /\ ~gates[14].fires /\ ~gates[15].fires /\ ~gates[16].fires
        /\ ~gates[17].fires /\ ~gates[18].fires /\ ~gates[19].fires /\ ~gates[20].fires
  BY SMTT(30)
<1> QED
  BY <1>4, <1>5, <1>6 DEF Passes

(* What passes the preflight the eligibility evaluator lets pass too, if   *)
(* the home system is vouched for.                                         *)
LEMMA PassesEligible ==
  ASSUME NEW w, NEW p, Passes(w, p), Vouched(p)
  PROVE  Eligibility(w, p) = "ELIGIBLE"
<1> DEFINE gates ==
  <<Gate(p.blank = "home_system", "UNKNOWN"),
    Gate(p.waiting_expected, "WAITING_EXPECTED"),
    Gate(w.stop_latch \/ w.owner_gate \/ p.review_gate, "OWNER_REVIEW_GATE"),
    Gate(w.runtime_status = "RUNNING", "ACTIVE_RUN_NOOP"),
    Gate(w.source_health # "FRESH", "SOURCE_BLOCKED"),
    Gate(w.continuation_policy # "AUTONOMOUS_EXPECTED", "POLICY_BLOCKED"),
    Gate(p.blank \in {"work_id", "dedupe_key"}, "POLICY_BLOCKED"),
    Gate(~w.safe_internal_next /\ ~w.safe_recovery, "SAFE_NEXT_BLOCKED"),
    Gate(p.blank = "target", "SAFE_NEXT_BLOCKED"),
    Gate(w.action_class \notin AllowedActions \/ ~w.reversible \/ w.external_effect,
         "ACTION_BLOCKED"),
    Gate(p.protected_effects_allowed, "ACTION_BLOCKED"),
    Gate(~p.minimum_permissions_proven, "RIGHTS_BLOCKED"),
    Gate(~p.retry_limit_present \/ ~p.circuit_breaker_present \/ ~Durable(p),
         "DURABILITY_BLOCKED"),
    Gate(~p.negative_tests_passed, "TESTS_BLOCKED"),
    Gate(~p.live_executor_enabled, "LIVE_EXECUTOR_BLOCKED")>>
<1>1. Eligibility(w, p) = FirstOf(gates, "ELIGIBLE")
  BY Zenon DEF Eligibility
<1>2. DOMAIN gates = 1 .. 15
  OBVIOUS
<1>4. /\ gates[1].fires = (p.blank = "home_system") /\ gates[2].fires = p.waiting_expected
      /\ gates[3].fires = (w.stop_latch \/ w.owner_gate \/ p.review_gate)
      /\ gates[4].fires = (w.runtime_status = "RUNNING")
      /\ gates[5].fires = (w.source_health # "FRESH")
      /\ gates[6].fires = (w.continuation_policy # "AUTONOMOUS_EXPECTED")
      /\ gates[7].fires = (p.blank \in {"work_id", "dedupe_key"})
      /\ gates[8].fires = (~w.safe_internal_next /\ ~w.safe_recovery)
      /\ gates[9].fires = (p.blank = "target")
      /\ gates[10].fires = (w.action_class \notin AllowedActions \/ ~w.reversible
                              \/ w.external_effect)
      /\ gates[11].fires = p.protected_effects_allowed
      /\ gates[12].fires = ~p.minimum_permissions_proven
      /\ gates[13].fires = (~p.retry_limit_present \/ ~p.circuit_breaker_present
                              \/ ~Durable(p))
      /\ gates[14].fires = ~p.negative_tests_passed
      /\ gates[15].fires = ~p.live_executor_enabled
  BY Zenon DEF Gate
<1> HIDE DEF gates
<1>5. w.safe_internal_next \/ w.safe_recovery
  BY DEF Passes, SafeAction
<1>6. /\ ~gates[1].fires /\ ~gates[2].fires /\ ~gates[3].fires /\ ~gates[4].fires
      /\ ~gates[5].fires /\ ~gates[6].fires /\ ~gates[7].fires /\ ~gates[8].fires
      /\ ~gates[9].fires /\ ~gates[10].fires /\ ~gates[11].fires /\ ~gates[12].fires
      /\ ~gates[13].fires /\ ~gates[14].fires /\ ~gates[15].fires
  BY <1>4, <1>5 DEF Passes, Vouched
<1>7. \A i \in 1 .. 15 : ~gates[i].fires
  BY <1>6, SMTT(30)
<1> QED
  BY <1>1, <1>2, <1>7, FirstDecides

(* Under an allowlist no wider the preflight asks for more than the        *)
(* executor does; under one no narrower it asks for no more than that, for *)
(* what stands prepared beside the item, and for a count that is not       *)
(* negative.                                                               *)
LEMMA PassesLegal ==
  ASSUME NEW w \in WorkItem, NEW p \in Prep
  PROVE  /\ Passes(w, p) /\ p.permission_allowlist \subseteq PermissionAllowlist
              => LegalDispatch(w)
         /\ Passes(w, p) => w.retry_count >= 0
         /\ /\ LegalDispatch(w) /\ Prepared(p) /\ w.retry_count >= 0
            /\ PermissionAllowlist \subseteq p.permission_allowlist
            => Passes(w, p)
<1>1. w.retry_count \in Int /\ w.retry_limit \in Int
  BY DEF WorkItem
<1>2. w.action_class \in AllowedActions /\ SafeAction(w) <=>
        \/ /\ w.action_class = "INTERNAL_CONTINUE"
           /\ w.runtime_status = "IDLE" /\ w.safe_internal_next
        \/ /\ w.action_class = "INTERNAL_RECOVERY"
           /\ w.runtime_status \in {"FAILED", "STALE"} /\ w.safe_recovery
  BY DEF SafeAction, AllowedActions
<1> QED
  BY <1>1, <1>2 DEF Passes, LegalDispatch, Prepared, LeastPrivilege

-----------------------------------------------------------------------------
(* The cost guard                                                          *)

(* A snapshot that licenses work: whole, of known cost, within the limit.  *)
Licensed(s) ==
  /\ s.well_formed /\ s.limit = BUDGET_LIMIT /\ ~\E a \in Amounts(s) : a < 0
  /\ ~(s.accrued + s.committed > s.projected) /\ s.observed_before_checked
  /\ ~(s.coverage_complete /\ s.lines = {})
  /\ "malformed" \notin s.lines /\ ~s.source_conflict /\ ~s.owner_override
  /\ s.source_fresh /\ EvidenceComplete(s) /\ ~OverLimit(s)

LEMMA LicenceExact ==
  ASSUME NEW s
  PROVE  Licence[ClassifyCost(s)] = IF ~Licensed(s) THEN 0 ELSE IF NearLimit(s) THEN 1 ELSE 2
<1> DEFINE gates ==
  <<Gate(~s.well_formed \/ s.limit # BUDGET_LIMIT, "FAIL_CLOSED"),
    Gate(\E a \in Amounts(s) : a < 0, "FAIL_CLOSED"),
    Gate(s.accrued + s.committed > s.projected, "FAIL_CLOSED"),
    Gate(~s.observed_before_checked, "FAIL_CLOSED"),
    Gate(s.coverage_complete /\ s.lines = {}, "FAIL_CLOSED"),
    Gate("malformed" \in s.lines \/ s.source_conflict, "FAIL_CLOSED"),
    Gate(s.owner_override, "OWNER_REQUIRED"),
    Gate(~s.source_fresh, "EVIDENCE_INCOMPLETE"),
    Gate(~EvidenceComplete(s), "EVIDENCE_INCOMPLETE"),
    Gate(OverLimit(s), "OWNER_REQUIRED"),
    Gate(NearLimit(s), "COST_WARNING")>>
<1>1. ClassifyCost(s) = FirstOf(gates, "COST_PASS")
  BY Zenon DEF ClassifyCost
<1>2. DOMAIN gates = 1 .. 11
  OBVIOUS
<1>3. /\ gates[1].outcome = "FAIL_CLOSED" /\ gates[2].outcome = "FAIL_CLOSED"
      /\ gates[3].outcome = "FAIL_CLOSED" /\ gates[4].outcome = "FAIL_CLOSED"
      /\ gates[5].outcome = "FAIL_CLOSED" /\ gates[6].outcome = "FAIL_CLOSED"
      /\ gates[7].outcome = "OWNER_REQUIRED" /\ gates[8].outcome = "EVIDENCE_INCOMPLETE"
      /\ gates[9].outcome = "EVIDENCE_INCOMPLETE" /\ gates[10].outcome = "OWNER_REQUIRED"
      /\ gates[11].outcome = "COST_WARNING"
  BY Zenon DEF Gate
<1>4. /\ gates[1].fires = (~s.well_formed \/ s.limit # BUDGET_LIMIT)
      /\ gates[2].fires = (\E a \in Amounts(s) : a < 0)
      /\ gates[3].fires = (s.accrued + s.committed > s.projected)
      /\ gates[4].fires = ~s.observed_before_checked
      /\ gates[5].fires = (s.coverage_complete /\ s.lines = {})
      /\ gates[6].fires = ("malformed" \in s.lines \/ s.source_conflict)
      /\ gates[7].fires = s.owner_override /\ gates[8].fires = ~s.source_fresh
      /\ gates[9].fires = ~EvidenceComplete(s) /\ gates[10].fires = OverLimit(s)
      /\ gates[11].fires = NearLimit(s)
  BY Zenon DEF Gate
<1> HIDE DEF gates
<1>5. \/ ClassifyCost(s) = "COST_PASS" /\ \A i \in 1 .. 11 : ~gates[i].fires
      \/ \E i \in 1 .. 11 : /\ gates[i].fires /\ ClassifyCost(s) = gates[i].outcome
                            /\ \A j \in 1 .. 11 : j < i => ~gates[j].fires
  <2>1. \/ /\ FirstOf(gates, "COST_PASS") = "COST_PASS"
           /\ \A i \in 1 .. 11 : ~gates[i].fires
        \/ \E i \in 1 .. 11 :
             /\ gates[i].fires /\ FirstOf(gates, "COST_PASS") = gates[i].outcome
             /\ \A j \in 1 .. 11 : j < i => ~gates[j].fires
    BY <1>2, FirstDecides
  <2> QED
    BY <1>1, <2>1
<1>6. Licensed(s) <=>
        /\ ~gates[1].fires /\ ~gates[2].fires /\ ~gates[3].fires /\ ~gates[4].fires
        /\ ~gates[5].fires /\ ~gates[6].fires /\ ~gates[7].fires /\ ~gates[8].fires
        /\ ~gates[9].fires /\ ~gates[10].fires
  BY <1>4 DEF Licensed
<1>7. Licensed(s) <=> \A i \in 1 .. 10 : ~gates[i].fires
  BY <1>6, SMTT(30)
<1>8. /\ Licence["COST_PASS"] = 2 /\ Licence["COST_WARNING"] = 1
      /\ Licence["OWNER_REQUIRED"] = 0 /\ Licence["EVIDENCE_INCOMPLETE"] = 0
      /\ Licence["FAIL_CLOSED"] = 0
  BY DEF Licence
<1>9. \A i \in 1 .. 10 : Licence[gates[i].outcome] = 0
  BY <1>3, <1>8
<1>10. CASE ClassifyCost(s) = "COST_PASS" /\ \A i \in 1 .. 11 : ~gates[i].fires
  <2>1. Licensed(s) /\ ~gates[11].fires
    BY <1>7, <1>10
  <2> QED
    BY <1>4, <1>8, <1>10, <2>1
<1>11. ASSUME NEW i \in 1 .. 11, gates[i].fires, ClassifyCost(s) = gates[i].outcome,
              \A j \in 1 .. 11 : j < i => ~gates[j].fires
       PROVE  Licence[ClassifyCost(s)] =
                IF ~Licensed(s) THEN 0 ELSE IF NearLimit(s) THEN 1 ELSE 2
  <2>1. CASE i = 11
    <3>1. Licensed(s) /\ NearLimit(s)
      BY <1>4, <1>7, <1>11, <2>1
    <3> QED
      BY <1>3, <1>8, <1>11, <2>1, <3>1
  <2>2. CASE i # 11
    <3>1. i \in 1 .. 10
      BY <2>2
    <3> QED
      BY <1>7, <1>9, <1>11, <3>1
  <2> QED
    BY <2>1, <2>2
<1> QED
  BY <1>5, <1>10, <1>11

(* Less evidence, or a cost more, and the license is no wider.             *)
LEMMA WorseIsNoBetter ==
  ASSUME NEW s \in CostSnapshot, NEW t \in Worse(s), \A a \in Amounts(s) : a >= 0,
         Licensed(t)
  PROVE  Licensed(s) /\ (NearLimit(s) => NearLimit(t))
<1>0. /\ s.accrued \in Int /\ s.committed \in Int /\ s.projected \in Int /\ s.delta \in Int
      /\ s.unknown_paths \in Int /\ s.unknown_paths >= 0
      /\ ~\E a \in Amounts(s) : a < 0
  BY DEF CostSnapshot, Amounts
<1>1. CASE \E x \in Lines \ {"good"} : t = [s EXCEPT !.lines = @ \cup {x}]
  <2>1. PICK x \in Lines \ {"good"} : t = [s EXCEPT !.lines = @ \cup {x}]
    BY <1>1
  <2>2. x \in t.lines /\ x # "good"
    BY <2>1 DEF CostSnapshot
  <2> QED
    BY <2>2 DEF Licensed, EvidenceComplete
<1>2. CASE t = [s EXCEPT !.coverage_complete = FALSE]
  BY <1>2 DEF Licensed, EvidenceComplete, CostSnapshot
<1>3. CASE t = [s EXCEPT !.source_fresh = FALSE]
  BY <1>3 DEF Licensed, CostSnapshot
<1>4. CASE t = [s EXCEPT !.source_conflict = TRUE]
  BY <1>4 DEF Licensed, CostSnapshot
<1>5. CASE t = [s EXCEPT !.unknown_paths = @ + 1]
  <2>1. t.unknown_paths = s.unknown_paths + 1
    BY <1>5 DEF CostSnapshot
  <2> QED
    BY <1>0, <2>1 DEF Licensed, EvidenceComplete
<1>6. CASE \E c \in {1, 400} : t = [s EXCEPT !.delta = @ + c]
  <2>1. PICK c \in {1, 400} : t = [s EXCEPT !.delta = @ + c]
    BY <1>6
  <2>2. /\ t.delta = s.delta + c /\ t.projected = s.projected /\ t.accrued = s.accrued
        /\ t.committed = s.committed /\ t.well_formed = s.well_formed /\ t.limit = s.limit
        /\ t.observed_before_checked = s.observed_before_checked /\ t.lines = s.lines
        /\ t.coverage_complete = s.coverage_complete /\ t.source_fresh = s.source_fresh
        /\ t.source_conflict = s.source_conflict /\ t.owner_override = s.owner_override
        /\ t.unknown_paths = s.unknown_paths
    BY <2>1 DEF CostSnapshot
  <2>3. OverLimit(s) => OverLimit(t)
    BY <1>0, <2>2 DEF OverLimit, Effective, BUDGET_LIMIT
  <2>4. NearLimit(s) => NearLimit(t)
    BY <1>0, <2>2 DEF NearLimit, Effective, BUDGET_LIMIT, WARNING_PERCENT
  <2> QED
    BY <1>0, <2>2, <2>3, <2>4 DEF Licensed, EvidenceComplete
<1>7. CASE \E c \in {1, 400} : t = [s EXCEPT !.accrued = @ + c]
  <2>1. PICK c \in {1, 400} : t = [s EXCEPT !.accrued = @ + c]
    BY <1>7
  <2>2. /\ t.accrued = s.accrued + c /\ t.projected = s.projected /\ t.delta = s.delta
        /\ t.committed = s.committed /\ t.well_formed = s.well_formed /\ t.limit = s.limit
        /\ t.observed_before_checked = s.observed_before_checked /\ t.lines = s.lines
        /\ t.coverage_complete = s.coverage_complete /\ t.source_fresh = s.source_fresh
        /\ t.source_conflict = s.source_conflict /\ t.owner_override = s.owner_override
        /\ t.unknown_paths = s.unknown_paths
    BY <2>1 DEF CostSnapshot
  <2>3. s.accrued + s.committed > s.projected => t.accrued + t.committed > t.projected
    BY <1>0, <2>2
  <2>4. (OverLimit(t) <=> OverLimit(s)) /\ (NearLimit(t) <=> NearLimit(s))
    BY <2>2 DEF OverLimit, NearLimit, Effective
  <2> QED
    BY <1>0, <2>2, <2>3, <2>4 DEF Licensed, EvidenceComplete
<1> QED
  BY <1>1, <1>2, <1>3, <1>4, <1>5, <1>6, <1>7 DEF Worse

-----------------------------------------------------------------------------
(* The deciders beside any executor                                        *)

ReadinessInv == item \in WorkItem /\ prep \in Prep /\ cost \in CostSnapshot

LEMMA ReadinessInvariant == ReadinessSpec => []ReadinessInv
<1>1. ReadinessInit => ReadinessInv
  BY ReadinessAssumption, ExecutorAssumption DEF ReadinessInit, Init, ReadinessInv
<1>2. ReadinessInv /\ [ReadinessNext]_<<vars, prep, cost>> => ReadinessInv'
  BY DEF ReadinessInv, ReadinessNext, Prepare, Spend, Next, Revise, Decline, Attempt, Called,
     CallbackTrue, CallbackFalse, Restart, watched, vars
<1> QED
  BY <1>1, <1>2, PTL DEF ReadinessSpec

(* Whatever becomes of an item and of what stands beside it, what the      *)
(* preflight of the pilot calls ready the executor's `decide` dispatches   *)
(* and the eligibility evaluator passes, as far as the allowlist and the   *)
(* bits each is given allow; and under equal allowlists the preflight and  *)
(* `decide` differ on a prepared item for a negative retry count only.     *)
THEOREM DecidersConcur == ReadinessSpec => []DecidersAgree
<1>1. ASSUME ReadinessInv
      PROVE  DecidersAgree
  <2>1. item \in WorkItem /\ prep \in Prep
    BY <1>1 DEF ReadinessInv
  <2>2. MayDispatch(item, {}) <=> LegalDispatch(item)
    BY <2>1, GatesExact
  <2> QED
    BY <2>1, <2>2, PreflightExact, PassesEligible, PassesLegal DEF DecidersAgree
<1> QED
  BY <1>1, ReadinessInvariant, PTL

(* `classify_cost` licenses no month's end at the limit, passes none       *)
(* unwarned at four fifths of it, and is not swayed by missing evidence,   *)
(* for all amounts.                                                        *)
THEOREM CostGuardSound == ReadinessSpec => []CostSound
<1>1. ASSUME ReadinessInv
      PROVE  CostSound
  <2>1. cost \in CostSnapshot
    BY <1>1 DEF ReadinessInv
  <2>2. cost.projected \in Int /\ cost.delta \in Int
    BY <2>1 DEF CostSnapshot
  <2>3. Licence[ClassifyCost(cost)] > 0 => Effective(cost) < BUDGET_LIMIT
    BY <2>2, LicenceExact DEF Licensed, OverLimit, Effective, BUDGET_LIMIT
  <2>4. Licence[ClassifyCost(cost)] > 1 => Effective(cost) * 5 < BUDGET_LIMIT * 4
    BY <2>2, LicenceExact DEF NearLimit, Effective, BUDGET_LIMIT, WARNING_PERCENT
  <2>5. ASSUME \A a \in Amounts(cost) : a >= 0, NEW s \in Worse(cost)
        PROVE  Licence[ClassifyCost(s)] <= Licence[ClassifyCost(cost)]
    <3>1. Licensed(s) => Licensed(cost) /\ (NearLimit(cost) => NearLimit(s))
      BY <2>1, <2>5, WorseIsNoBetter
    <3>2. /\ Licence[ClassifyCost(s)] =
               IF ~Licensed(s) THEN 0 ELSE IF NearLimit(s) THEN 1 ELSE 2
          /\ Licence[ClassifyCost(cost)] =
               IF ~Licensed(cost) THEN 0 ELSE IF NearLimit(cost) THEN 1 ELSE 2
      BY LicenceExact
    <3> QED
      BY <3>1, <3>2
  <2> QED
    BY <2>3, <2>4, <2>5 DEF CostSound
<1> QED
  BY <1>1, ReadinessInvariant, PTL

(* The executor keeps its promises while the deciders' view of the item is *)
(* prepared or undone beside it.                                           *)
THEOREM ExecutorBesideDeciders == ReadinessSpec => [](OnlyLegalDispatch /\ BooksBalance)
<1>1. ReadinessInit => ExecutorInv
  BY InitExecutor DEF ReadinessInit
<1>2. ASSUME ExecutorInv, Prepare \/ Spend
      PROVE  ExecutorInv'
  <2>1. edits' \in 0 .. MaxEdits
    BY <1>2, ExecutorAssumption DEF Prepare, Spend, ExecutorInv, TypeOK
  <2>2. UNCHANGED <<item, held, completed, booked, attempts>>
    BY <1>2 DEF Prepare, Spend
  <2> QED
    BY <1>2, <2>1, <2>2 DEF ExecutorInv, TypeOK, OnlyLegalDispatch, BooksBalance, CompletedOnce,
       HeldOpen
<1>3. ExecutorInv /\ [ReadinessNext]_<<vars, prep, cost>> => ExecutorInv'
  BY <1>2, NextExecutor DEF ReadinessNext
<1>4. ExecutorInv => OnlyLegalDispatch /\ BooksBalance
  BY DEF ExecutorInv
<1> QED
  BY <1>1, <1>3, <1>4, PTL DEF ReadinessSpec
=============================================================================
