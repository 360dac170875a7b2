# Formal model of the Gehirn Runtime Lab

TLA+ specifications of the governance runtime in `src/governance` and
`src/continuity`: which work the runtime may continue by itself, how a dispatch
is claimed, recorded and reconciled, how single-use grants and rollbacks are
kept, and what the parts promise each other. TLC checks small instances, TLAPS
proves the main safety results for every instance.

## 1. Inventory of the system

The program is a library of small Python components. Processes share nothing
but SQLite files (one writer at a time, `BEGIN IMMEDIATE`) and a canonical
record store; the Home-Systems behind it (GitHub Actions, the vector index, the
memory service) are reached through callbacks and adapters that callers pass in.

| Component (source) | State | Operations | What is hard | What makes it correct |
|---|---|---|---|---|
| Continuation gates, in-memory executor (`safe_continuation_executor.py`) | completed dedupe keys, audit list, both lost in a restart | `decide`, `execute` | order of 21 gates; item revised during a call; restart | only legal items are dispatched; every attempt booked once; a key succeeds once per instance |
| Durable ledger and executor (`durable_continuation_ledger.py`) | `dispatch_claims`, `audit_events` in SQLite | `claim`, `mark_success`, `mark_failure`, `mark_reconcile_required`, `execute` | processes race; crash between claim, callback and mark; unknown outcomes; retries under different limits | one holder per key; no redispatch after success or an unknown outcome; budget kept; trail tells the row |
| Downstream reconciliation (`downstream_reconciliation.py`) | shares the ledger file | `parse_evidence`, `reconcile`, `_set_state` | reads the row, assesses older reports, sets the row later; executors move in between | success never downgraded; a key is reopened only on evidence that excludes an effect |
| Single-pilot authorization consumption (`durable_single_pilot_authorization_consumption.py`) | one row per grant, audit events | `claim`, `consume`, `mark_reconcile_required` | replay, reuse of evidence, conflicting receipts, restarts | a grant is used once, for the scope it was given for |
| Authority boundary (`m4_single_pilot_authority_boundary.py`) | none | `validate_single_pilot_authority` | time windows and skew, order of 26 checks | nothing passes that any check would stop |
| Preflight, eligibility (`m4_single_pilot_composite_preflight.py`, `m4_home_system_eligibility.py`) | none | `evaluate_single_pilot_preflight`, `evaluate_m4_eligibility` | three modules decide on one item, each with gates and an order of its own | what one calls ready the others do not refuse |
| Incident classification, rollback ledger (`m5_incident_rollback_safety.py`) | one row per rollback scope | `classify_incident`, `claim`, `mark_succeeded`, `mark_reconcile_required` | two claimants, late results, no way out of RECONCILE_REQUIRED | at most one rollback per scope is started |
| Run evidence, verification, outcome artifacts (`github_actions_run_evidence.py`, `post_dispatch_verification.py`, `downstream_outcome_artifact_evidence.py`) | none | match runs, classify state, verify archives | pages of one listing apart in time, reruns, late evaluation, clocks that differ | a run, a verdict and an outcome are about the dispatch they are reported for |
| Canonical router (`canon_router.py`), MemOS composition and recovery (`memos_composition.py`, `memos_recovery.py`) | canonical records and events, derived index | `write`, `promote`, corrections, `reconcile`, `rebuild` | errors and crashes between record, event and index; a memory that is ahead of the store after an error; retries with the same or an altered record | what was accepted is kept; contradictions are marked, corrected records superseded; the trail tells what happened once; a search shows only what the store has |
| Intake (`intake_router.py`, `intake_composition.py`) | inbox, content bindings and domain references in SQLite, beside Canon | `analyze_message`, `ingest_message`, `ingest_explicit`, `ingest_candidate` | several services on the same files; a failure between write, binding and references; evidence that ties | what was answered is there, once, with its references; a guess never becomes a target |
| Truth-aware answer set, direct index (`truth_aware_answer_set.py`, `direct_qdrant_index.py`) | derived index | `locate`, `answer`, `project_from_anchor_ids` | an index that is behind, altered or foreign; which anchor wins | an answer is current, readable and free of contradictions, whichever anchor wins |
| Cost guard (`m5_cost_tco_evidence_guard.py`) | none | `classify_cost` | thresholds, missing lines, order of gates | less evidence or more cost never licenses more |
| Brain continuity supervisor (`continuity/brain_continuity_supervisor.py`) | an issue; reads runs, commits and the contract file | `evaluate`, `run_live` | runs that change between two queries, failing requests, commits dated ahead | a steady run is seen; progress expires; the issue follows |
| Gate scripts (`critical/*_gate.py`) | none | tables of cases | they test the program, not the model | the models decide every case as the script expects |
| Retrieval benchmarks, bootstrap probes, workflows | none | scripts | | not modelled (section 6) |

Interaction: the watcher publishes work items; `decide` gates them; the durable
executor claims the key in the ledger and calls a Home-System adapter; run
evidence and outcome artifacts become `DownstreamEvidence`; the reconciler moves
unknown claims in the ledger; the pilot path adds preflight, authority and the
consumption of a grant before a dispatch; incidents lead to a rollback claim.

The scripts in `critical/` are the repository's tests. The decision tables of nine
of them are replayed against the models; the others are read as statements about
the program and quoted where a model disagrees with one.

## 2. Modules

| Module | Models | Correspondence |
|---|---|---|
| `ContinuationGate` | `decide` | `Gates` lists the 21 conditions in the order of the code with their outcomes; `MayDispatch` is `decide(item).dispatch`, `Decide` its outcome. Strings the code does not name are `"OTHER"`. |
| `ContinuationExecutor` | `SafeContinuationExecutor.execute` | one instance with `completed` and `booked` (the audit list, counted per key); `Revise` is the watcher, who may change the item at any time; `Restart` is a new instance. |
| `SingleFlight` | abstract promise of the ledger | per key: free, accepted, flying, stuck, done, and how many launches happened. |
| `DispatchLedger` | durable ledger and executor | `claims` and `audit` are the two tables; each transaction is one action; `pc` says where each executor is inside `execute`; `Abandon` is a crash, a hook that raises or a failed marking transaction; `runs` are the runs in the Home-System (external). |
| `DispatchReconciliation` | reconciler beside the executors | extends `DispatchLedger`; `Gather`, `ReadState`, `SetState` / `SetStateNoop` and `Recheck` are separate steps. |
| `AuthorityBoundary` | `validate_single_pilot_authority`; `_authority_ok` | `Tests` lists the 26 tests in the order of the code with their statuses; `Verdict` is the decision's status, `StillAuthorized` the second look taken by `claim`. Fields that are only checked for form are Booleans. |
| `AuthorityReview` | repeated evaluation of one piece of evidence | `Review` is one call at the present time, `Deliver` evidence that changes (external), `Permits` the permission all at once. |
| `SingleUseGrant` | abstract promise of the consumption ledger | per grant: unused, taken, doubtful, spent; what it was taken for; whether a run was started. |
| `AuthorizationLedger` | `DurableSinglePilotAuthorizationConsumptionLedger` | `rows` and `events` are the two tables; `Claim...`, `Mark...` and `Consume...` are the outcomes of the three methods, one transaction each; `ForeignStatus` is another writer that leaves a status the program does not know, `Start` is the separate dispatcher and `PossibleReceipts` what arrives as receipts (external). |
| `IncidentClassifier` | `classify_incident`, `rollback_scope_key`, `rollback_scope_sha256` | `Boundaries` lists the 21 conditions in the order of the code with their decisions, the last one met by whatever is left; `Classify` takes the first that is met. Fields that are only checked for presence, or are always read together, are one Boolean. |
| `RollbackOnce` | abstract promise of the rollback ledger | per rollback: free, taken, done, doubtful; what it was taken for; whether it was started and carried out. |
| `RollbackLedger` | `DurableRollbackLedger` and its responders | `rows` and `events` are the two tables; `Claim...` and `Mark...` the outcomes of the three methods, one transaction each; `Revise` (evidence that changes), `Start` and `End` (the rollback itself) are external. |
| `CanonRouter` | the policy of `FailClosedCanonRouter` | pure operators on the dictionary of records: `Admitted` and `Written` are `write` with its corrections, `Promotable` and `Promoted` a promotion, `Route` and `Readable` what a search asks. `verify` is left out: no service calls it. |
| `CanonRecovery` | `RecoverableGovernedMemOSService`, `CanonicalSQLiteStore`, the partitioned index | `canon`, `rowOrder` and `trail` are the two tables, `gate`, `gateOrder` and `backlog` the router's memory (`backlog` is the history behind the cursor), `index` and `opened` the derived index. Each call starts with the router's decision in one step; every put (`PutRecord`), every event (`AppendEvent`), the cursor and every projection (`Project`) is a step of its own. `CanonFails` and `IndexFails` are exceptions, `Restart` is a new process. |
| `TruthAwareAnswers` | `TruthAwareAnswerSetService` over the recoverable service | pure operators on the state of `CanonRecovery`: `Located`, `AuthorizedSiblings`, `Projection`, `History`; `Answers` is the set of all answers, one for each anchor the scores may choose. |
| `GateList` | the shape of all ordered deciders | `FirstOf`: the outcome of the first gate that is met. |
| `PilotDeciders` | `evaluate_single_pilot_preflight`, `evaluate_m4_eligibility` | ordered lists of gates over the executor's item and `Prep`, what is prepared beside it, the preflight's own permission allowlist included. Fields that are only read together are one value. |
| `CostGuard` | `classify_cost` | an ordered list of gates over a snapshot with amounts in cents; `Licence` orders the decisions by what they allow. |
| `PilotReadiness` | the deciders beside the executor | composes `ContinuationExecutor`, `PilotDeciders` and `CostGuard`; `Prepare` and `Spend` revise what the deciders look at (external). |
| `RunEvidence` | the three evaluators of GitHub evidence | `AdapterStatus` and `Observed` are `evaluate` of the run adapter, `Verify` the post-dispatch verifier, `OutcomeStatus` and `EvidenceOf` the outcome adapter, each in the order of the code. |
| `RunTracking` | the evaluators in time | dispatches, runs, reruns and artifacts of GitHub, with a clock of its own, and pages that are listed one by one are external; `EvaluateRuns` is the adapter's call and `Verdict` and `Outcome` are what the other two would say now. |
| `IntakeRouter` | `ProductNeutralIntakeRouter`, `DomainRegistry` | `AnalyzeClause`: scores in quarters of a unit, winners, the knowledge type of a marker. Words are abstracted to how many aliases and terms of a domain a clause has. |
| `Intake` | `GovernedIntakeService`, `SafeInbox`, `DomainReferenceCatalog` | several services on the same files. A call is a list of candidates; `Park`, `Admit`, `Write`, `Bind`, `AddDomainRef` are transactions of their own, `StepFails` an exception in any of them, `Restart` a new process with what the files hold. |
| `ContinuitySupervisor` | `brain_continuity_supervisor.py` and its schedule | each request (`QueryRuns` per status, `ReadCommits`, `Publish`) is one step; `Branch` is what runs, commits and the contract do meanwhile (external). Times are ages with a ceiling, so time has no end. |
| `ReadinessCases`, `EvidenceCases`, `BoundaryCases` | tables of nine gate scripts | cases with the outcome expected, written as a base record with fields replaced, as in the scripts; one `ASSUME` per script. Variants that differ in a detail the model abstracts are one case. |
| `MC...` | instances for TLC | values of constants only. |
| `...Proofs` | theorems | see section 5. A proof module extends what it is about: `AuthorityProofs` the review and the consumption ledger, `DispatchLedgerProofs` ledger and reconciler, `ContinuationExecutorProofs` executor, deciders and cost guard, `CanonRecoveryProofs` the recoverable service and its answers. |

Operators named `X_Reason` next to an operator `X` are plausible slips of the
same code. They are not used by any specification; they show that the
properties can fail.

## 3. Checks

| Run | Bounds | What it shows |
|---|---|---|
| `executor` | 2 keys, 2 permissions, 2 revisions, 3 calls | From an item ready to continue or to recover, any two fields of the item, of what is prepared beside it or of the costs are revised, so every gate and every pair of gates is reached, also while a callback runs. Retry counts are -1 to 2. Only legal items are dispatched and no legal item is refused; a key succeeds once per instance and every attempt is booked; preflight, eligibility and executor agree (`DecidersAgree`), with the exception of section 4; the cost guard is sound and monotone (`CostSound`). |
| `ledger` | 2 executors, 1 key, retry limits 2 and 3, 2 faults, audit trail extended by blocked calls up to length 5 | `ExclusiveClaim`, `OwnershipRule`, the refinement of `SingleFlight` (which holds the limits on launches, effects and successes), and `ClaimsSettle`: without a fault every claim is settled. Two faults allow a crash to be followed by a second one or by a foreign write; limits 2 and 3 give three attempts and a caller with a smaller budget. |
| `reconciliation` | 2 executors, 1 reconciler, 1 key with limits 0 (under a retry count of -1) and 2, 1 fault, 2 calls of `reconcile` | What holds when reconciliation overlaps live calls, with honest reports that may be stale, missing, or about something else. |
| `success_downgraded` | no fault | Finding 1: a late `mark_reconcile_required` overwrites SUCCEEDED. |
| `claim_mutated` | no fault | Finding 2: a late mark changes the claim of another executor. |
| `authority` | review: 2 bundles of evidence, 2 changed fields, 9 units of time, ages of 2 and 3, a skew of 1; ledger: 2 pilots, 2 grant ids, 2 pieces of evidence, 5 requests, 2 receipts, 2 times | `AuthorityReview` and `AuthorizationLedger` share the boundary and no variable; each moves while the other is at its start. The verdict is exactly the permission (`VerdictSound`): two changed fields reach every test and every pair of tests, so no test hides another. What has lapsed does not come back (`NoRevival`); a claim on an old decision bounds the age of all evidence (`EvidenceAgeAtClaim`), with values for which both bounds are reached. In the ledger requests share an id, or evidence, and one intends what its owner did not grant; a foreign writer may leave an unknown status on a claimed row: `ConsumedByItsRun`, `RunsPermitted` and the refinement of `SingleUseGrant`. Runs are bounded by the grants. |
| `rollback` | 2 responders, 2 keys, 2 adapters, 2 changes | Two responders on one rollback, on two, and on one key under two scopes; crashes at any point, slow holders, late results, doubt raised by anybody, a stop latch, an owner's gate, a retry count that change after the assessment. `AssessmentSound`: the ordered boundaries allow exactly what is safe, and nothing overrules the stop latch or the owner's gate (for all evidence by a theorem). `RollbacksAccountedFor` and the refinement of `RollbackOnce`. Rollbacks are bounded by the keys. |
| `canon` | 3 records, one of them altered before a retry; 1 error of the database, 1 of the index, 1 foreign index item, 1 restart; 4 million states | An idea, a claim that contradicts it and a correction. What survives everything: `AcceptedKept`, `ConflictsMarked`, `SearchHonest` and `MarksAreFinal`; what any reader is answered: `AnswerHonest`, `AnsweredIsTold`. `LineageWhileDatabaseWorks` needs a database that works, `TrailComplete` also a process that has not been restarted. |
| `green_ahead` | as `supervisor`, no fault | Finding 3: a commit dated ahead keeps the status green beyond the window. |
| `evidence` | 1 piece of work dispatched twice, clocks apart by 1, 3 units of time, 2 pages per dispatch, 4 steps of runs | The smallest case in which one dispatch can be given the other's run, a rerun can hide the first attempt and a page can be old. `MatchedRunIsOurs`, `ActiveIsRecent`, `TerminalIsFirstAttempt`, `EvidenceHonest`. |
| `intake` | 2 services, 3 records, 3 domains, 6 clauses, 3 calls, 1 failed step or restart | Clauses like those of the golden tests: evidence for one domain, a tie, none, a spelling variant, a correction marker. `BindingsHold`, `AnsweredOnce`, `AnsweredIsKept`, `EvidenceDecides`. |
| `supervisor` | 1 other run, a page of 1 commit, windows of 1, 1 fault, time without end | `SteadyRunCounted`, `GreenExpires` and, as liveness, `IssueFollows`. One commit and one run suffice: a decision asks whether there is one, and a page of one makes commits fall off it. The case tables are evaluated here, as the one run that uses none of the deciders they are about. |

Bounds are CONSTANTS: `MaxFaults` (crashes, database errors, foreign writes; in
`CanonRecovery` one bound for each kind of fault),
`AuditBound` (a blocked claim only extends the trail, so it is explored only
while the trail is short), `MaxReconciles`, `MaxEdits`, `MaxAttempts`,
`MaxTime` and `ReviewTime` (the clocks).
`CHECK_DEADLOCK FALSE` is used where the system may really stop: all keys done
or stuck, and every bounded event used up.

Fairness: `FairSpec` of the ledger assumes weak fairness of `Proceed(e)` only. After a claim
`execute` runs straight through to a mark; the only wait is the callback, whose
adapter must return. Nothing is assumed about new calls, downstream runs,
reconcilers or faults. The supervisor's `Spec` assumes weak fairness of time and of
the supervisor's own steps: the workflow has a schedule, its job a time limit, and
its requests fail at most `MaxFaults` times; nothing is assumed of runs, commits
and contracts, which `IssueFollows` takes as premises.

External assumptions: the dispatch adapter reports success only of a run that
succeeded and failure only of a run that failed without effect (`MayAnswer`);
evidence adapters report the true state of the runs they see (`HonestReport`),
but may miss runs, be stale, or return reports about other work. The code takes
every exception other than `UncertainDispatchOutcome` as a clean failure, so an
adapter that raises a plain timeout error breaks the contract and `EffectOnce`
with it. On the pilot path a caller passes `claim` the decision made for the
same intent and grant, and a time between that decision and the present; the
decision carries nothing `claim` could compare. A verified receipt tells the scope
its run was started for; one that is not verified may tell anything. Events that
blocked calls add to the trail of the consumption ledger are left out; another
writer is assumed to leave consumed rows alone.
On the incident path a responder hands `claim` the evidence it assessed together
with that assessment, records a success only of a rollback it has seen completed,
and starts a rollback only if it was told CLAIMED_NEW. Permissions are sets,
although a digest of a scope would tell a repeated permission from a single one;
a database error in a claim reaches the caller and is modelled as its crash. Both
ledgers of this path and the pilot path keep no record of who holds a claim.
On the canonical path there is one service on one file, whose calls come one
after another. Callers bring records they made with `new_record`, under any
authority, and may bring them again, altered. SQLite commits or rolls back each
put and each append as a whole. The index is a set of items, looked up by id within
a partition; ranking and `top_k` are left out, so that "found" means among the
candidates. After a restart it is on disk with no partition opened, or it is a new
one.
For run evidence the clocks of caller and GitHub differ by a constant up to the
skew or beyond; a run appears once per dispatch, may be rerun, and leaves an artifact that says one of
`Contents`; `MatchedRunIsOurs` has the premise `Orderly`: clocks apart by no more than
the skew, runs that appear within their window, and no second dispatch of the same work
before that window and twice the skew have passed. The run itself also reaches
dispatches that are not orderly.
For intake every statement on a file is a transaction, and record ids are fresh.

## 4. What the model found

1. `mark_reconcile_required` does not look at the status of the row. A reconciler
   that sets SUCCEEDED while the executor has not returned is overwritten by the
   executor's late uncertain answer (`success_downgraded`).
2. Marks are matched by key only. After a reconciler reopens an attempt whose
   executor is still in its call, the next executor's live claim can be changed
   by the first one (`claim_mutated`). Without a reconciler neither can happen:
   both are theorems for `DispatchLedger` alone.
3. The supervisor writes into its issue that an old commit keeps the status green for
   the freshness window at most (line 287). A commit dated ahead of the clock has age 0
   until its date (line 127) and is green for a window more (`green_ahead`). What holds
   is `GreenExpires`: the window counts from the push, unless the commit's date is ahead
   of it, and such a date stretches the window by no more than the clock error.

One more promise is wider than the code, and no run is spent on it. The recoverable
service calls itself "crash/retry-safe" and lists the events of a write as its second
durable step (`memos_recovery.py:47-56`). `write` takes whatever Canon has for a
completed write: if the process ends between the put and the append, the retry is
accepted and the event is never written. In the model these are the steps `WriteNew`,
`PutRecord`, `Restart` and `WriteAgain`; they break `AcceptedLeavesTrail`. What the
same text says of an error of the index holds: `TrailComplete`, which therefore speaks
of the time until the first restart and of a database without errors.

The deciders of a pilot agree but for two things, both stated in `DecidersAgree`. Retry
counts are integers that `decide` only compares with the limit, so that an item with a
count of -1 passes it, also under a limit of zero, and gets a first attempt in the
ledger (`WithinLimit` in `LaunchBound`); the preflight refuses it
(`m4_single_pilot_composite_preflight.py:159-167`). And the preflight has a permission
allowlist of its own: where it is wider than the executor's, it calls ready what `decide`
refuses. The evaluator's three own bits (a circuit breaker, proven permissions, a retry
limit) are asked by nobody else. That a count may not be an integer at all is left out.

Another behaviour of the canonical path is a premise of its properties, as the
repository nowhere says otherwise. After a database error the router's memory
is ahead of Canon and the retry goes through the router again: it adds a second event
for the same write, and can put a record back to what it was before it was corrected,
so `LineageWhileDatabaseWorks` has its premise. A record is never taken back for a
version Canon had already marked: that is `MarksAreFinal`, a theorem.
One more is a premise of `AnsweredIsTold`: `locate` and `search` take the project and purpose
of a hit from the index item, so an item that came into the index by another way, under a
record's id but in another partition, can hide that record (section 5).

Some things the repository says nothing about: the retry of a write that was stored
as CONFLICTING is refused as an idempotency conflict, since it differs from its row;
a promotion whose put failed is refused until the next write or restart, since it is
a DECISION in memory only; two corrections contradict each other unmarked, since
`write` leaves corrections out of its search for conflicts.

The rollback ledger has the same unconditional `mark_reconcile_required`, but says
nowhere that a success is final: `ToldTruth` and `RollbackOnce` allow a success to
be doubted later. A second claim puts a slow but live holder in doubt; the
holder's own success is then refused for good, although its rollback is carried
out. The ledger has no way out of RECONCILE_REQUIRED.

Observed while modelling the rest, and left to the reader, since nothing in the
repository says otherwise:
- Intake: a clause worded as a correction makes `new_record` raise; it is neither
  parked nor stored, and later clauses of the message are not looked at. Of two services
  that write one content at once both store it; the second record stays unbound.
  Two services on one canonical file put their own memory over each other's marks
  (`memos_composition.py:288`); what survives both is `AnsweredIsKept`.
- Run evidence: unless dispatches are `Orderly`, the run of an earlier dispatch of the
  same work matches a later one. Artifacts are known by their run, not by its
  attempt. A run that failed technically never yields FAILED evidence, as the outcome
  adapter asks for a run that succeeded.
- Cost guard: the amounts of the lines are not compared with the totals, and a complete
  snapshot without lines is refused, so that adding a line can improve the decision.
- Eligibility does not look at the item's state, its kind of runtime failure or its
  circuit; the preflight does.
- Supervisor: a run that moves between two queries, or whose answer is garbled, is not seen, and
  a check that fails leaves the issue as it was.

`CompleteEvidenceIsSafe` shows what callers of `reconcile` have to provide:
reports of every run of the key. Nothing in `reconcile` checks that a report is
about the latest attempt.

## 5. Proofs

Some theorems state properties that no run lists (`EffectOnce`, `SuccessIsReal`,
`SingleUse`, `OneRollback`, `ToldTruth`, `TrailTellsStatus`, the type invariants):
what is proved for all instances is not checked again on a small one.

`DispatchLedgerProofs` proves for every number of executors, keys, items and
faults: the type invariant, `ExclusiveClaim`, `LaunchBound`, `EffectOnce`, `SuccessIsReal`,
`ReportedSuccessIsDurable`, `OwnershipRule`, `SuccessIsFinal`, and that the ledger
implements `SingleFlight`. The argument rests on the inductive invariant
`LedgerInv`. The properties are not inductive by themselves: that a retry is safe
(`EffectOnce`) needs to know that a row is FAILED_RETRYABLE only if all runs
failed cleanly (`RowInv`), which needs that an executor's answer is about the
last run of its key (`RunInv`), which needs that nobody else worked on the key
since (`ExclusiveClaim`) and that the executor's attempt is the row's
(`HolderInv`). `RowChange` lists who may change a row and gives the two action
properties; the refinement maps each step to a step of `SingleFlight` or to a stutter.

With reconcilers beside the executors most of this is lost, as section 4 tells: a
reconciler may reopen the row of an executor that is still working. What is left is
proved for `RSpec` and any number of reconcilers, from `SharedInv`. Attempts are
counted by those who were granted one and have not started it (`Waiting`): the runs of
a key and they together are no more than its attempts (`AttemptsInv`), so
`LaunchBound` survives. Every step appends to the trail what it does to the row
(`Follows`, shown step by step in `RowsFollow`), and a trail that is followed still
replays the row (`ReplayStep`), hence `SharedAuditReplaysRow`. A change of a row by a
reconciler is its `_set_state` (`RowSet`), which looks at the row again: hence
`ReconcilerKeepsSuccess`. What a reconciler holds as evidence is out of date, but a run
that failed without effect has failed so for good (`EvidenceInv`, `RunsKeep`): hence
`CompleteEvidenceIsSafe`. That executors respect each other's claims is not among the
theorems: it is false beside a reconciler (`claim_mutated`).

Assumptions: `LedgerAssumption`, `AllowlistAssumption`, `RetryLimitAssumption`,
`ReconcilerAssumption`; for the executor and the deciders `ExecutorAssumption` and
`ReadinessAssumption`; on the pilot path `BoundaryAssumption`, `ReviewAssumption`,
`RequestAssumption`; on the incident path `RollbackAssumption`; on the canonical path
`RouterAssumption` and `RecoveryAssumption` (a record is not its own predecessor,
which `new_record` ensures by fresh ids); for intake `IntakeAssumption` and
`IntakeRouterAssumption`; for run evidence `TrackingAssumption` and
`EvidenceAssumption`; for the supervisor `SupervisorAssumption`. They give constants
their types and keep markers such as "none" apart from names.
The last gate of `decide` is needed for the first claim: `GateLeavesRoom` shows
that an item that passes with a retry count of at least zero has a retry limit of at
least one. `LedgerInv`,
`SharedInv`, `LineageInv`, `TrailInv`, `IntakeInv` and `TrackingInv` were checked with TLC
on the run of their module before they were proved.

`ContinuationExecutorProofs` proves that the gates of `decide`, in their order, let pass
exactly the items that satisfy all prerequisites at once (`GatesExact`), the safety
properties of the executor, alone and beside the deciders, and two facts about deciders
that hold for all inputs. `DecidersAgree`: the preflight's twenty gates pass exactly what
`Passes` says (`PreflightExact`), and that is what `decide` asks and what must be prepared
beside the item (`PassesLegal`). `CostSound`: what `classify_cost` licenses is a whole,
known and affordable month (`LicenceExact`, `Licensed`), and a worse snapshot is
licensed only if the better one is (`WorseIsNoBetter`), for all amounts.

`AuthorityProofs` shows that some test fails first if any does, and what
the 26 tests demand together (`ValidParts`), and concludes
`VerdictSound`, `NoRevival`, `LooksAgree` and `EvidenceAgeAtClaim` for all
evidence and all limits. The invariant `ReviewInv` adds to `VerdictSound` that
evidence which has lapsed is permitted at no later time: every condition that
fails later is an upper bound on the time (`LapsesForGood`).
It also proves the ledger's properties in the run `authority` for
every number of processes, grants and requests. `SingleUse` is not inductive: it
needs that whoever holds a claim finds an open row bound to its own request, under
which nothing was started (`HolderInv`), that every run has such a row
(`RunInv`), and that no two rows share evidence (`RowInv`). One lemma
(`BindingsKept`) covers all steps that bind no row; `ClaimNewInv`, `StartInv` and
`ConsumeInv` are the others. `RunsPermitted` rests on `ValidParts`.

`RollbackLedgerProofs` proves `ClassifyExact`: some boundary is met first
(`FirstExists`), its decision is the answer (`ClassifyIsFirst`), and the twentieth
is the first exactly for safe evidence (`SafeIsTwentieth`). All properties of the
run `rollback` follow for every number of responders and keys.
`OneRollback` needs that a holder finds an open row for its own scope
(`HolderInv`) and that every started rollback has a row (`StartedInv`).
`ResponderInv` covers all steps that bind no row: each leaves a row alone, doubts
it, or settles it (`Kept`, `Doubted`, `Settled`).

`CanonRecoveryProofs` proves all properties of the run `canon`, for all records,
callers, errors and restarts. The first invariant, `IInv`, says that the
memory is a later version of Canon (`MemoryInv`, with `Develops` for "later"), that
what is not yet in Canon is still to be compared (`SyncInv`), that what a call is
about to return is true by then (`ResultInv`), and that what is not yet in the
index is still to be projected (`IndexInv`). `AcceptedKept`, `SearchHonest`,
`AnsweredIsFindable` and `MarksAreFinal` follow: a put only replaces a row by a later
version of it. `ConflictsMarked` needs the order of the puts: a record is put after
everything inserted before it, hence after all it conflicts with has been marked
(`ConflictInv`: what is stored is a beginning of the memory's order, and what is
still to be compared is an end of it; `NewcomerLast`). Two more hold as long as the
database works. `LineageInv`: memory and Canon differ only inside a call, in which at
most one record is new, so that a correction and the version it replaces change places
in one put of each. `TrailInv`: the one event that is not on the trail is that of the
call under way, and the memory already shows what it tells (`Shows`); hence no event is
there twice and none is ahead of Canon (`TrailStaysBehind`). The answers need nothing of
the state but `IInv` and `ConflictInv`: `AnswerHonest` follows from what `Projection`
keeps of Canon (`SiblingsHonest`). `AnsweredIsTold` has a premise, `InPlace`: `locate` and
`search` compare the partition of the index item, not that of the record behind it, so a
foreign item that bears a record's id under another project or purpose makes that record
an anchor there, and the answer drops it. `StrangersOutOfPlace` shows that nothing the
service itself writes does this; only the foreign items of the model can.

`IntakeProofs` proves all properties of the run `intake` for every number of services,
files' contents, calls, failed steps and restarts. What two services and Canon hold of
one record may differ in marks but says the same (`CopiesInv`), and the catalog only
names records of Canon that say the content (`CatalogInv`): so a service with an old
memory binds nothing wrong. `AnsweredOnce` needs that what was answered before a
candidate was taken up is bound (`SettledInv`), and that the write is therefore not
reached. `AnsweredIsKept` needs what the call has done so far for its candidate
(`CallInv`): the record is in Canon, the content is bound, and the references that are
not there yet are still to be added. `EvidenceDecides` is a fact about `AnalyzeClause`
kept along the list of candidates (`AnalysisInv`).

`RunTrackingProofs` proves all properties of the run `evidence` for all dispatches,
windows, skews, ages, drifts and reruns. Rows, observations and receipts are out of date
when they are judged; the invariant says what each still tells then. A row of a first
attempt tells how it ended, or until when it had not (`RowInv`), an observation is only
made of a first attempt (`ObservationInv`), and the run of a receipt is no older than the
dispatch, up to the skew (`ReceiptInv`): with `Orderly` no other run of the same work is.
The three evaluators are lists of gates of which the first decides (`FirstDecides`);
`VerifyTells`, `AdapterTells` and their like say what each favourable answer rests on.

`ContinuitySupervisorProofs` proves `SteadyRunCounted` and `GreenExpires` for every
number of runs, length of the page, window, clock error and faults. The first needs
what is still to be seen of a steady run: it is in one of the five statuses, and once
that status has been queried it has been found (`SeenInv`). The second needs that no
commit is dated further ahead of its push than clocks are wrong, and that this
survives time, which wears off in the model once a commit is old (`DatedInv`,
`Ageing`).

Only model-checked: the liveness properties (`ClaimsSettle`, `IssueFollows`), which are
beyond the prover, and the three violations of section 4. The case tables are finite facts
that TLC evaluates. The type invariants of the
state machines with a proof module are proved and not part of the runs.

## 6. Not modelled

- `integrity_ok`, the read-only views of the tables, payloads of audit events,
  error texts and timestamps: no other state depends on them.
- `verify` of the canonical router, which neither service calls; the base class
  `write` and `_sync` of the MemOS service where the recoverable service overrides
  them (the intake uses the base class, and `Intake` models it).
- Scores and ranking of a search. The direct index is a client of an external vector
  store with the contract of the index that is modelled; it concatenates its partitions
  in the order of their sensitivity and cuts at `top_k` afterwards, which is left out
  with the ranking.
- Texts and archives that do not parse, in the evidence evaluators and in the gate
  cases about them (PH-13, PH-18, OA-13, part of GA-20 and OA-22).
- Gate scripts that drive a ledger, the intake or MemOS through one fixed sequence
  (`durable_continuation_ledger_v1_gate.py`, the reconciliation and consumption gates, the
  `governance_*` gates): their sequences are among the behaviours TLC explores.
- Retrieval benchmarks and gates (`derived_retrieval_*`), install probes, trigger files
  and CI workflows other than the supervisor's: they measure or set up, and keep no
  state of the program.

## 7. Plan

Done: all modules of section 2, in the order ledger, reconciliation, pilot path,
incident path, canonical path, answers, intake, run evidence, deciders, supervisor,
case tables. Left:

1. The source of `DispatchReconciliation`'s reports is still "honest, perhaps stale":
   replace it by `RunTracking`, so that skew and reruns reach the reconciler.
2. The recoverable service beside a second one on the same file, with indices.
3. Proofs: that nothing but `Orderly` is needed of dispatches for `MatchedRunIsOurs`, and
   what a second service on one canonical file leaves of `AcceptedKept`, once it is modelled.
