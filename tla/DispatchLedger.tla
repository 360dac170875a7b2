--------------------------- MODULE DispatchLedger ---------------------------
(***************************************************************************)
(* governance/durable_continuation_ledger.py: executors in several         *)
(* processes that share one SQLite file.  A call of `execute` decides with *)
(* the gates, claims the dedupe key in one immediate transaction, calls    *)
(* the dispatch callback outside any transaction, and records the result   *)
(* in a second transaction.  Everything in memory is lost in a crash, the  *)
(* rows and the audit trail are not.                                       *)
(*                                                                         *)
(* Each transaction is one action (BEGIN IMMEDIATE serialises them); the   *)
(* steps between transactions interleave freely.                           *)
(***************************************************************************)
EXTENDS ContinuationGate, FiniteSets

CONSTANTS
  Executors,   \* processes or threads that call `execute`
  Items,       \* the work items they may be called with
  MaxFaults,   \* bound: crashes, database errors and foreign writes
  AuditBound   \* bound: blocked claims stop being explored at this length

ASSUME LedgerAssumption ==
  /\ Items \subseteq WorkItem
  /\ MaxFaults \in Nat
  /\ AuditBound \in Nat

VARIABLES
  claims,    \* claims[k]: the row of dispatch_claims
  audit,     \* audit[k]: event types of audit_events with that dedupe key
  runs,      \* runs[k]: the downstream runs the callbacks started (external)
  pc,        \* where the executor is inside `execute`
  work,      \* the item of the current or last call
  attempt,   \* history: the attempt number the executor was given
  run,       \* the run its callback started
  answer,    \* how the callback ended
  decision,  \* the outcome the last call of `execute` returned
  faults     \* faults so far

ledgerVars == <<claims, audit, runs>>
callVars == <<pc, work, attempt, run, answer, decision>>
vars == <<claims, audit, runs, pc, work, attempt, run, answer, decision, faults>>

NoItem == [dedupe_key |-> "none"]

Statuses ==
  {"ABSENT", "CLAIMED", "SUCCEEDED", "FAILED_RETRYABLE", "RECONCILE_REQUIRED", "ALIEN"}

(* A run fails cleanly (FAILED) or fails after it may have had an effect.  *)
RunStates == {"RUNNING", "SUCCEEDED", "FAILED", "FAILED_EFFECT"}

(* The event types of audit_events; the last four are the reconciler's.    *)
Events ==
  {"CLAIMED", "RETRY_CLAIMED", "SUCCEEDED", "FAILED_RETRYABLE", "RECONCILE_REQUIRED",
   "CIRCUIT_OPEN", "DUPLICATE_BLOCKED", "CLAIM_PRESENT_BLOCKED",
   "UNKNOWN_STATUS_BLOCKED", "RECONCILED_SUCCEEDED", "RECONCILED_FAILED_RETRYABLE",
   "RECONCILE_NOOP_ALREADY_SUCCEEDED", "RECONCILE_STATE_BLOCKED"}

(* What `execute` returns; "RAISED" if it raises, "none" before a result.  *)
Dispatched == {"DISPATCH_CONTINUE", "DISPATCH_RECOVERY"}

Outcomes ==
  Dispatched \cup
  {"none", "RAISED", "STOPPED", "OWNER_REQUIRED", "SOURCE_RECONCILE", "NOOP_DONE",
   "FAIL_CLOSED", "NOOP_PARKED", "NOOP_WAITING_EXTERNAL", "NOOP_MANUAL", "NOOP_RUNNING",
   "NOOP_DUPLICATE", "FAIL_CLOSED_LEAST_PRIVILEGE", "CIRCUIT_OPEN", "RECONCILE_REQUIRED",
   "FAIL_CLOSED_LEDGER_ERROR", "FAIL_CLOSED_LEDGER_STATUS", "DISPATCH_FAILED_RETRYABLE"}

Init ==
  /\ claims = [k \in Keys |-> [status |-> "ABSENT", attempts |-> 0, limit |-> 0]]
  /\ audit = [k \in Keys |-> <<>>]
  /\ runs = [k \in Keys |-> <<>>]
  /\ pc = [e \in Executors |-> "idle"]
  /\ work = [e \in Executors |-> NoItem]
  /\ attempt = [e \in Executors |-> 0]
  /\ run = [e \in Executors |-> 0]
  /\ answer = [e \in Executors |-> "none"]
  /\ decision = [e \in Executors |-> "none"]
  /\ faults = 0

-----------------------------------------------------------------------------
(* Steps of `execute` up to the claim                                      *)

Record(k, event) == audit' = [audit EXCEPT ![k] = Append(@, event)]

(* `execute` ends without holding the key.                                 *)
Answer(e, item, outcome) ==
  /\ work' = [work EXCEPT ![e] = item]
  /\ decision' = [decision EXCEPT ![e] = outcome]
  /\ UNCHANGED <<pc, attempt, run, answer>>

(* A gate stops the item: the ledger is not touched.                       *)
Refuse(e, item) ==
  /\ pc[e] = "idle"
  /\ ~MayDispatch(item, {})
  /\ Answer(e, item, Decide(item, {}))
  /\ UNCHANGED <<ledgerVars, faults>>

(* The item passed the gates and `claim` opens its transaction.            *)
Claims(e, item) ==
  /\ pc[e] = "idle"
  /\ MayDispatch(item, {})

(* The claim is granted as attempt n under the retry limit l.              *)
Grant(e, item, n, l, event) ==
  /\ claims' = [claims EXCEPT ![item.dedupe_key] =
                  [status |-> "CLAIMED", attempts |-> n, limit |-> l]]
  /\ Record(item.dedupe_key, event)
  /\ pc' = [pc EXCEPT ![e] = "claimed"]
  /\ work' = [work EXCEPT ![e] = item]
  /\ attempt' = [attempt EXCEPT ![e] = n]
  /\ decision' = [decision EXCEPT ![e] = "none"]
  /\ UNCHANGED <<runs, run, answer, faults>>

ClaimNew(e, item) ==
  /\ Claims(e, item)
  /\ claims[item.dedupe_key].status = "ABSENT"
  /\ Grant(e, item, 1, item.retry_limit, "CLAIMED")

RetryLimit(row, item) ==
  IF row.limit <= item.retry_limit THEN row.limit ELSE item.retry_limit

CircuitOpen(row, item) ==
  row.attempts >= row.limit \/ row.attempts >= item.retry_limit

(* A slip: a claim left over by another executor is taken over.            *)
ClaimRetry_TakeOver(e, item) ==
  LET row == claims[item.dedupe_key] IN
  /\ Claims(e, item)
  /\ row.status \in {"FAILED_RETRYABLE", "CLAIMED"}
  /\ ~CircuitOpen(row, item)
  /\ Grant(e, item, row.attempts + 1, RetryLimit(row, item), "RETRY_CLAIMED")

(* A slip: every status but CLAIMED may be retried.                        *)
ClaimRetry_Settled(e, item) ==
  LET row == claims[item.dedupe_key] IN
  /\ Claims(e, item)
  /\ row.status \notin {"ABSENT", "CLAIMED"}
  /\ ~CircuitOpen(row, item)
  /\ Grant(e, item, row.attempts + 1, RetryLimit(row, item), "RETRY_CLAIMED")

ClaimRetry(e, item) ==
  LET row == claims[item.dedupe_key] IN
  /\ Claims(e, item)
  /\ row.status = "FAILED_RETRYABLE"
  /\ ~CircuitOpen(row, item)
  /\ Grant(e, item, row.attempts + 1, RetryLimit(row, item), "RETRY_CLAIMED")

(* A claim that may not proceed leaves the row alone, adds its event to    *)
(* the audit trail and ends the call.                                      *)
Block(e, item, event, outcome) ==
  /\ Claims(e, item)
  /\ Len(audit[item.dedupe_key]) < AuditBound
  /\ Record(item.dedupe_key, event)
  /\ Answer(e, item, outcome)
  /\ UNCHANGED <<claims, runs, faults>>

ClaimCircuitOpen(e, item) ==
  LET row == claims[item.dedupe_key] IN
  /\ row.status = "FAILED_RETRYABLE"
  /\ CircuitOpen(row, item)
  /\ Block(e, item, "CIRCUIT_OPEN", "CIRCUIT_OPEN")

BlockedEvent ==
  [SUCCEEDED |-> "DUPLICATE_BLOCKED", CLAIMED |-> "CLAIM_PRESENT_BLOCKED",
   RECONCILE_REQUIRED |-> "RECONCILE_REQUIRED", ALIEN |-> "UNKNOWN_STATUS_BLOCKED"]

BlockedOutcome ==
  [SUCCEEDED |-> "NOOP_DUPLICATE", CLAIMED |-> "RECONCILE_REQUIRED",
   RECONCILE_REQUIRED |-> "RECONCILE_REQUIRED",
   ALIEN |-> "FAIL_CLOSED_LEDGER_STATUS"]

(* A slip: the blocked claimant marks the row, as the rollback ledger does. *)
ClaimBlocked_Mutates(e, item) ==
  LET k == item.dedupe_key IN
  /\ Claims(e, item)
  /\ claims[k].status \in {"SUCCEEDED", "CLAIMED", "RECONCILE_REQUIRED", "ALIEN"}
  /\ Record(k, BlockedEvent[claims[k].status])
  /\ claims' = [claims EXCEPT ![k].status =
                  IF @ = "CLAIMED" THEN "RECONCILE_REQUIRED" ELSE @]
  /\ Answer(e, item, BlockedOutcome[claims[k].status])
  /\ UNCHANGED <<runs, faults>>

ClaimBlocked(e, item) ==
  LET status == claims[item.dedupe_key].status IN
  /\ status \in {"SUCCEEDED", "CLAIMED", "RECONCILE_REQUIRED", "ALIEN"}
  /\ Block(e, item, BlockedEvent[status], BlockedOutcome[status])

(* The database fails inside `claim`: rollback, the call fails closed.     *)
ClaimError(e, item) ==
  /\ Claims(e, item)
  /\ faults < MaxFaults
  /\ faults' = faults + 1
  /\ Answer(e, item, "FAIL_CLOSED_LEDGER_ERROR")
  /\ UNCHANGED ledgerVars

-----------------------------------------------------------------------------
(* Steps of `execute` after the claim                                      *)

(* The executor's call is over: nothing of it survives but the outcome.    *)
Return(e, outcome) ==
  /\ pc' = [pc EXCEPT ![e] = "idle"]
  /\ attempt' = [attempt EXCEPT ![e] = 0]
  /\ run' = [run EXCEPT ![e] = 0]
  /\ answer' = [answer EXCEPT ![e] = "none"]
  /\ decision' = [decision EXCEPT ![e] = outcome]
  /\ UNCHANGED work

Key(e) == work[e].dedupe_key

(* The callback starts a run in the Home-System.                           *)
Dispatch(e) ==
  /\ pc[e] = "claimed"
  /\ pc' = [pc EXCEPT ![e] = "dispatching"]
  /\ runs' = [runs EXCEPT ![Key(e)] = Append(@, "RUNNING")]
  /\ run' = [run EXCEPT ![e] = Len(runs[Key(e)]) + 1]
  /\ UNCHANGED <<claims, audit, work, attempt, answer, decision, faults>>

(* External: the Home-System finishes a run.                               *)
RunEnds(k) ==
  \E i \in DOMAIN runs[k], s \in RunStates \ {"RUNNING"} :
    /\ runs[k][i] = "RUNNING"
    /\ runs' = [runs EXCEPT ![k][i] = s]
    /\ UNCHANGED <<claims, audit, callVars, faults>>

(* External: what the callback may answer.  It reports success or failure  *)
(* only if it knows, failure only if nothing happened downstream; else it  *)
(* raises UncertainDispatchOutcome.                                        *)
MayAnswer(e, a) ==
  \/ a = "uncertain"
  \/ a = "success" /\ runs[Key(e)][run[e]] = "SUCCEEDED"
  \/ a = "failure" /\ runs[Key(e)][run[e]] = "FAILED"

CallbackReturns(e) ==
  \E a \in {"success", "failure", "uncertain"} :
    /\ pc[e] = "dispatching"
    /\ MayAnswer(e, a)
    /\ pc' = [pc EXCEPT ![e] = "returned"]
    /\ answer' = [answer EXCEPT ![e] = a]
    /\ UNCHANGED <<ledgerVars, work, attempt, run, decision, faults>>

SetStatus(k, status) == claims' = [claims EXCEPT ![k].status = status]

Returned(e, answers) == pc[e] = "returned" /\ answer[e] \in answers

(* A marking transaction: the row and the audit trail change together.     *)
Mark(e, status, outcome) ==
  /\ SetStatus(Key(e), status)
  /\ Record(Key(e), status)
  /\ Return(e, outcome)
  /\ UNCHANGED <<runs, faults>>

MarkSuccess(e) ==
  /\ Returned(e, {"success"})
  /\ claims[Key(e)].status = "CLAIMED"
  /\ Mark(e, "SUCCEEDED", DispatchOutcome(work[e]))

MarkFailure(e) ==
  /\ Returned(e, {"failure"})
  /\ claims[Key(e)].status = "CLAIMED"
  /\ Mark(e, "FAILED_RETRYABLE", "DISPATCH_FAILED_RETRYABLE")

(* mark_success and mark_failure refuse a row that is not CLAIMED and      *)
(* raise out of `execute`.                                                 *)
MarkRaises(e) ==
  /\ Returned(e, {"success", "failure"})
  /\ claims[Key(e)].status # "CLAIMED"
  /\ Return(e, "RAISED")
  /\ UNCHANGED <<ledgerVars, faults>>

(* A slip: an uncertain outcome is reported but not recorded.              *)
MarkReconcileRequired_Silent(e) ==
  /\ Returned(e, {"uncertain"})
  /\ Return(e, "RECONCILE_REQUIRED")
  /\ UNCHANGED <<ledgerVars, faults>>

(* mark_reconcile_required asks only that the row exists.                  *)
MarkReconcileRequired(e) ==
  /\ Returned(e, {"uncertain"})
  /\ Mark(e, "RECONCILE_REQUIRED", "RECONCILE_REQUIRED")

(* The process dies, the after-claim hook raises, or the marking           *)
(* transaction fails and is rolled back: the row stays as it was.          *)
Abandon(e) ==
  /\ pc[e] # "idle"
  /\ faults < MaxFaults
  /\ faults' = faults + 1
  /\ Return(e, "RAISED")
  /\ UNCHANGED ledgerVars

(* External: a foreign writer leaves a status the program does not know    *)
(* on a claimed row.                                                       *)
ForeignStatus(k) ==
  /\ claims[k].status = "CLAIMED"
  /\ faults < MaxFaults
  /\ faults' = faults + 1
  /\ SetStatus(k, "ALIEN")
  /\ UNCHANGED <<audit, runs, callVars>>

Call(e, item) ==
  \/ Refuse(e, item)
  \/ ClaimNew(e, item)
  \/ ClaimRetry(e, item)
  \/ ClaimCircuitOpen(e, item)
  \/ ClaimBlocked(e, item)
  \/ ClaimError(e, item)

Proceed(e) ==
  \/ Dispatch(e)
  \/ CallbackReturns(e)
  \/ MarkSuccess(e)
  \/ MarkFailure(e)
  \/ MarkRaises(e)
  \/ MarkReconcileRequired(e)

Environment ==
  \/ \E k \in Keys : RunEnds(k) \/ ForeignStatus(k)
  \/ \E e \in Executors : Abandon(e)

Next ==
  \/ \E e \in Executors : Proceed(e) \/ \E item \in Items : Call(e, item)
  \/ Environment

Spec == Init /\ [][Next]_vars

(* A call that holds the key goes on by itself: `execute` has no wait but  *)
(* the callback, whose adapter must return.  Nothing is assumed about the  *)
(* runs, about new calls or about faults.                                  *)
FairSpec == Spec /\ \A e \in Executors : WF_vars(Proceed(e))

-----------------------------------------------------------------------------
(* Properties                                                              *)

(* Every variable has its type.                                            *)
TypeOK ==
  /\ claims \in [Keys -> [status : Statuses, attempts : Nat, limit : Int]]
  /\ audit \in [Keys -> Seq(Events)]
  /\ runs \in [Keys -> Seq(RunStates)]
  /\ pc \in [Executors -> {"idle", "claimed", "dispatching", "returned"}]
  /\ work \in [Executors -> Items \cup {NoItem}]
  /\ attempt \in [Executors -> Nat]
  /\ run \in [Executors -> Nat]
  /\ answer \in [Executors -> {"none", "success", "failure", "uncertain"}]
  /\ decision \in [Executors -> Outcomes]
  /\ faults \in 0 .. MaxFaults

(* The executor was granted the key k and has not returned.                *)
Active(e, k) == pc[e] # "idle" /\ Key(e) = k

(* Two executors never work on the same dedupe key at a time, and the key  *)
(* of a working executor is closed to others (its row is CLAIMED, or       *)
(* unreadable): claim's transaction decides races between processes.       *)
ExclusiveClaim ==
  \A k \in Keys, e \in Executors : Active(e, k) =>
    /\ claims[k].status \in {"CLAIMED", "ALIEN"}
    /\ \A f \in Executors : Active(f, k) => f = e

(* An item of the key has a negative retry count.  `decide` compares the   *)
(* item's count with its limit, and `claim` inserts a first attempt        *)
(* without a look at the limit: with a negative count one attempt is       *)
(* granted under a limit that allows none.                                 *)
NegativeCount(k) == \E item \in Items : item.dedupe_key = k /\ item.retry_count < 0

WithinLimit(k, n, limit) == n <= limit \/ (n = 1 /\ NegativeCount(k))

(* Across retries, crashes and items that carry different limits, the      *)
(* callback is started at most once per granted attempt, and attempts stay *)
(* within the smallest limit granted, a negative count's first attempt     *)
(* excepted.                                                               *)
LaunchBound ==
  \A k \in Keys :
    /\ Len(runs[k]) <= claims[k].attempts
    /\ WithinLimit(k, claims[k].attempts, claims[k].limit)

(* A key is dispatched again only after its last run failed without any    *)
(* effect; a result that is unknown (crash, uncertain callback, failed     *)
(* mark) or successful is never redispatched.  So at most one run has an   *)
(* effect.                                                                 *)
EffectOnce ==
  \A k \in Keys : \A i \in DOMAIN runs[k] :
    i < Len(runs[k]) => runs[k][i] = "FAILED"

(* A status SUCCEEDED is never invented: some run of that key succeeded.   *)
SuccessIsReal ==
  \A k \in Keys : claims[k].status = "SUCCEEDED" =>
    \E i \in DOMAIN runs[k] : runs[k][i] = "SUCCEEDED"

(* A caller that was told the work is done (dispatched, or a duplicate of  *)
(* a dispatched item) can rely on the row, whatever happened since.        *)
ReportedSuccessIsDurable ==
  \A e \in Executors :
    decision[e] \in Dispatched \cup {"NOOP_DUPLICATE"} =>
      claims[Key(e)].status = "SUCCEEDED"

StatusAfter ==
  [CLAIMED |-> "CLAIMED", RETRY_CLAIMED |-> "CLAIMED", SUCCEEDED |-> "SUCCEEDED",
   FAILED_RETRYABLE |-> "FAILED_RETRYABLE", RECONCILE_REQUIRED |-> "RECONCILE_REQUIRED"]

EventsOf(k, types) == {i \in DOMAIN audit[k] : audit[k][i] \in types}

(* The executor whose attempt is the row's attempt.                        *)
Holds(e, k) == Active(e, k) /\ attempt[e] = claims[k].attempts

(* The ownership rule of `claim`: a live claim changes only by a step of   *)
(* the executor that holds it (or by a foreign write).                     *)
OwnershipStep ==
  \A k \in Keys, e \in Executors :
    /\ claims[k].status = "CLAIMED" /\ Holds(e, k)
    /\ claims'[k] # claims[k] /\ claims'[k].status # "ALIEN"
    => pc'[e] # pc[e]

OwnershipRule == [][OwnershipStep]_vars

(* A confirmed success is final: no later call, crash or late mark changes *)
(* a row that is SUCCEEDED (no rule of `claim` or of the marks touches it). *)
FinalStep == \A k \in Keys : claims[k].status = "SUCCEEDED" => claims'[k] = claims[k]

SuccessIsFinal == [][FinalStep]_vars

(* The inductive invariant behind the theorems of DispatchLedgerProofs.    *)

(* A working executor has a real item and the row's current attempt.       *)
HolderInv ==
  \A e \in Executors :
    /\ pc[e] # "idle" => attempt[e] = claims[Key(e)].attempts /\ decision[e] = "none"
    /\ pc[e] # "idle" \/ decision[e] # "none" => work[e] \in Items

(* The run of a working executor is the last run of its key; what its      *)
(* callback reported is what happened.                                     *)
RunOK(e) ==
  /\ pc[e] = "claimed" => Len(runs[Key(e)]) < claims[Key(e)].attempts
  /\ pc[e] \in {"dispatching", "returned"} => run[e] = Len(runs[Key(e)]) /\ run[e] > 0
  /\ answer[e] # "none" <=> pc[e] = "returned"
  /\ answer[e] = "success" => runs[Key(e)][run[e]] = "SUCCEEDED"
  /\ answer[e] = "failure" => runs[Key(e)][run[e]] = "FAILED"

RunInv == \A e \in Executors : RunOK(e)

(* The next callback of k may be started as far as the row and its holder  *)
(* are concerned.                                                          *)
Open(k) ==
  \/ claims[k].status \in {"ABSENT", "FAILED_RETRYABLE"}
  \/ \E e \in Executors : Active(e, k) /\ pc[e] = "claimed"

RowInv ==
  \A k \in Keys :
    /\ claims[k].status = "ABSENT" => claims[k].attempts = 0
    /\ Open(k) => \A i \in DOMAIN runs[k] : runs[k][i] = "FAILED"

LedgerInv ==
  /\ TypeOK
  /\ ExclusiveClaim
  /\ LaunchBound
  /\ EffectOnce
  /\ SuccessIsReal
  /\ ReportedSuccessIsDurable
  /\ HolderInv
  /\ RunInv
  /\ RowInv

(* Without faults, no claim stays open: the executor that took it records  *)
(* a result.                                                               *)
ClaimsSettle ==
  \A k \in Keys :
    claims[k].status = "CLAIMED" ~> (claims[k].status # "CLAIMED" \/ faults > 0)

-----------------------------------------------------------------------------
(* The ledger implements SingleFlight: a key is in the hands of the        *)
(* executor working on it, else it is in the phase its row says.           *)
PhaseOf(k) ==
  IF \E e \in Executors : Active(e, k)
    THEN IF \E e \in Executors : Active(e, k) /\ pc[e] = "claimed"
           THEN "accepted" ELSE "flying"
    ELSE CASE claims[k].status \in {"ABSENT", "FAILED_RETRYABLE"} -> "free"
           [] claims[k].status = "SUCCEEDED" -> "done"
           [] OTHER -> "stuck"

(* A bound on every retry limit, and on the one attempt of an item whose   *)
(* negative retry count passes under a limit that allows none.             *)
CONSTANT MaxRetryLimit

ASSUME RetryLimitAssumption ==
  /\ MaxRetryLimit \in Nat \ {0}
  /\ \A item \in Items : item.retry_limit <= MaxRetryLimit

phaseBar == [k \in Keys |-> PhaseOf(k)]
launchedBar == [k \in Keys |-> Len(runs[k])]

SF == INSTANCE SingleFlight WITH
        phase <- phaseBar, launched <- launchedBar, Cap <- MaxRetryLimit

(* Every behaviour of the ledger is one of the abstract dispatcher.        *)
ImplementsSingleFlight == SF!Spec
=============================================================================
