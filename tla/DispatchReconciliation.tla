----------------------- MODULE DispatchReconciliation -----------------------
(***************************************************************************)
(* governance/downstream_reconciliation.py beside the executors of         *)
(* DispatchLedger.  A reconciler takes reports about the runs of a work    *)
(* item and moves a claim whose result is unknown to SUCCEEDED or back to  *)
(* FAILED_RETRYABLE.  It shares the ledger file with the executors: the    *)
(* reports are gathered, the row is read, and the row is set in separate   *)
(* steps, and between any two of them an executor may move.                *)
(***************************************************************************)
EXTENDS DispatchLedger

CONSTANTS
  Reconcilers,   \* processes that call `reconcile`
  MaxReconciles  \* bound: calls of `reconcile` explored

ASSUME ReconcilerAssumption == MaxReconciles \in Nat

VARIABLES
  rpc,        \* where the reconciler is inside `reconcile`
  rwork,      \* the item it reconciles
  evidence,   \* the reports it was given
  rdecision,  \* the decision the last call returned
  reconciles  \* calls so far

reconcilerVars == <<rpc, rwork, evidence, rdecision, reconciles>>
allVars == <<vars, reconcilerVars>>

(* One DownstreamEvidence.  exact stands for its four identity fields      *)
(* (home system, work id, dedupe key, target) agreeing with the call's,    *)
(* effect for either external-effect flag; run names the reported run.     *)
Report ==
  [run : Nat, state : {"RUNNING", "SUCCEEDED", "FAILED", "UNKNOWN"},
   effect : BOOLEAN, fresh : BOOLEAN, exact : BOOLEAN]

(* What `reconcile` returns; "RAISED" if it raises, "none" before a result. *)
Verdicts ==
  {"none", "RAISED", "OWNER_GATE_BLOCKED", "FAIL_CLOSED", "NOOP_ALREADY_SUCCEEDED",
   "SOURCE_BLOCKED", "CONFLICT_BLOCKED", "WAIT_DOWNSTREAM", "RECONCILE_REQUIRED",
   "RECONCILED_SUCCEEDED", "RECONCILED_FAILED_RETRYABLE"}

Decision == [status : Verdicts, updated : BOOLEAN]

RInit ==
  /\ Init
  /\ rpc = [r \in Reconcilers |-> "idle"]
  /\ rwork = [r \in Reconcilers |-> NoItem]
  /\ evidence = [r \in Reconcilers |-> {}]
  /\ rdecision = [r \in Reconcilers |-> [status |-> "none", updated |-> FALSE]]
  /\ reconciles = 0

-----------------------------------------------------------------------------
(* External: what the evidence adapters may report.                        *)

(* The honest report of run i of key k.                                    *)
HonestReport(k, i, fresh) ==
  [run |-> i, fresh |-> fresh, exact |-> TRUE,
   state |-> IF runs[k][i] = "FAILED_EFFECT" THEN "FAILED" ELSE runs[k][i],
   effect |-> runs[k][i] = "FAILED_EFFECT"]

(* Reports that say nothing about any run of the key.                      *)
Noise ==
  {[run |-> 0, state |-> "SUCCEEDED", effect |-> FALSE, fresh |-> TRUE, exact |-> FALSE],
   [run |-> 0, state |-> "UNKNOWN", effect |-> FALSE, fresh |-> TRUE, exact |-> TRUE]}

(* At most one report per run and at most one that says nothing: adapters  *)
(* need not see every run.                                                 *)
PossibleEvidence(k) ==
  UNION {{{HonestReport(k, i, seen[i] = "fresh") : i \in {j \in DOMAIN seen : seen[j] # "missed"}}
            \cup noise : noise \in {{}} \cup {{n} : n \in Noise}}
         : seen \in [DOMAIN runs[k] -> {"fresh", "stale", "missed"}]}

Gather(r, item) ==
  /\ rpc[r] = "idle"
  /\ reconciles < MaxReconciles
  /\ reconciles' = reconciles + 1
  /\ rpc' = [rpc EXCEPT ![r] = "gathered"]
  /\ rwork' = [rwork EXCEPT ![r] = item]
  /\ \E reports \in PossibleEvidence(item.dedupe_key) :
       evidence' = [evidence EXCEPT ![r] = reports]
  /\ rdecision' = [rdecision EXCEPT ![r] = [status |-> "none", updated |-> FALSE]]
  /\ UNCHANGED vars

-----------------------------------------------------------------------------
(* `reconcile`                                                             *)

RKey(r) == rwork[r].dedupe_key

Exact(reports) == {m \in reports : m.exact /\ m.fresh}

StaleExact(reports) == {m \in reports : m.exact /\ ~m.fresh}

(* A slip: the effect flags of the reports are not consulted.              *)
EffectExcluded_Unchecked(exact) == TRUE

EffectExcluded(exact) == ~\E m \in exact : m.effect

(* What the reports amount to.  The two RECONCILED_ answers ask for the    *)
(* row to be set; the others end the call.  The cases exclude each other.  *)
Assess(reports) ==
  LET exact == Exact(reports)
      states == {m.state : m \in exact}
      terminal == states \cap {"SUCCEEDED", "FAILED"}
      running == "RUNNING" \in states
  IN CASE exact = {} /\ StaleExact(reports) # {} -> "SOURCE_BLOCKED"
       [] Cardinality(terminal) > 1 -> "CONFLICT_BLOCKED"
       [] running /\ terminal = {"SUCCEEDED"} -> "CONFLICT_BLOCKED"
       [] running /\ terminal \in {{}, {"FAILED"}} -> "WAIT_DOWNSTREAM"
       [] states = {"SUCCEEDED"} -> "RECONCILED_SUCCEEDED"
       [] states = {"FAILED"} /\ EffectExcluded(exact)
            -> "RECONCILED_FAILED_RETRYABLE"
       [] OTHER -> "RECONCILE_REQUIRED"

RDone(r, status, updated) ==
  /\ rpc' = [rpc EXCEPT ![r] = "idle"]
  /\ evidence' = [evidence EXCEPT ![r] = {}]
  /\ rdecision' = [rdecision EXCEPT ![r] = [status |-> status, updated |-> updated]]
  /\ UNCHANGED <<rwork, reconciles>>

(* An owner gate, a review gate or the stop latch is set.                  *)
OwnerGated(r) ==
  /\ rpc[r] = "gathered"
  /\ RDone(r, "OWNER_GATE_BLOCKED", FALSE)
  /\ UNCHANGED vars

(* The row is read: no row, or a success, ends the call before the reports *)
(* are looked at.                                                          *)
LocalAnswer == [ABSENT |-> "FAIL_CLOSED", SUCCEEDED |-> "NOOP_ALREADY_SUCCEEDED"]

Settling == {"RECONCILED_SUCCEEDED", "RECONCILED_FAILED_RETRYABLE"}

ReadState(r) ==
  LET status == claims[RKey(r)].status
      verdict == IF status \in DOMAIN LocalAnswer THEN LocalAnswer[status]
                                                  ELSE Assess(evidence[r])
  IN /\ rpc[r] = "gathered"
     /\ IF verdict \in Settling
          THEN /\ rpc' = [rpc EXCEPT ![r] = "setting"]
               /\ UNCHANGED <<rwork, evidence, rdecision, reconciles>>
          ELSE RDone(r, verdict, FALSE)
     /\ UNCHANGED vars

RequestedStatus ==
  [RECONCILED_SUCCEEDED |-> "SUCCEEDED",
   RECONCILED_FAILED_RETRYABLE |-> "FAILED_RETRYABLE"]

(* A slip: `_set_state` trusts the read that preceded it.                  *)
Settable_TrustRead == {"CLAIMED", "RECONCILE_REQUIRED", "FAILED_RETRYABLE", "SUCCEEDED"}

Settable == {"CLAIMED", "RECONCILE_REQUIRED", "FAILED_RETRYABLE"}

(* A slip: the row is replaced, with a fresh attempt counter.              *)
UpdateRow_FreshBudget(k, verdict) ==
  /\ claims' = [claims EXCEPT ![k].status = RequestedStatus[verdict], ![k].attempts = 0]
  /\ Record(k, verdict)

(* A slip: the row is updated without its audit event.                     *)
UpdateRow_NoEvent(k, verdict) ==
  /\ SetStatus(k, RequestedStatus[verdict])
  /\ UNCHANGED audit

UpdateRow(k, verdict) ==
  /\ SetStatus(k, RequestedStatus[verdict])
  /\ Record(k, verdict)

(* `_set_state` updates the row.                                           *)
SetState(r) ==
  LET verdict == Assess(evidence[r]) IN
  /\ rpc[r] = "setting"
  /\ claims[RKey(r)].status \in Settable
  /\ UpdateRow(RKey(r), verdict)
  /\ RDone(r, verdict, TRUE)
  /\ UNCHANGED <<runs, callVars, faults>>

(* `_set_state` finds a success, or a status it does not know, and leaves  *)
(* the row.  A requested failure is answered as if it had been set; after  *)
(* a requested success the row is read once more.                          *)
SetStateNoop(r) ==
  LET k == RKey(r) IN
  /\ rpc[r] = "setting"
  /\ claims[k].status \notin Settable
  /\ Record(k, IF claims[k].status = "SUCCEEDED"
                 THEN "RECONCILE_NOOP_ALREADY_SUCCEEDED"
                 ELSE "RECONCILE_STATE_BLOCKED")
  /\ IF Assess(evidence[r]) = "RECONCILED_SUCCEEDED"
       THEN /\ rpc' = [rpc EXCEPT ![r] = "rechecking"]
            /\ UNCHANGED <<rwork, evidence, rdecision, reconciles>>
       ELSE RDone(r, "RECONCILED_FAILED_RETRYABLE", FALSE)
  /\ UNCHANGED <<claims, runs, callVars, faults>>

Recheck(r) ==
  /\ rpc[r] = "rechecking"
  /\ RDone(r, IF claims[RKey(r)].status = "SUCCEEDED"
                THEN "NOOP_ALREADY_SUCCEEDED" ELSE "RECONCILED_SUCCEEDED", FALSE)
  /\ UNCHANGED vars

(* The process dies or a transaction of `reconcile` fails.                 *)
RAbandon(r) ==
  /\ rpc[r] # "idle"
  /\ faults < MaxFaults
  /\ faults' = faults + 1
  /\ RDone(r, "RAISED", FALSE)
  /\ UNCHANGED <<ledgerVars, callVars>>

Reconcile(r) ==
  \/ OwnerGated(r)
  \/ ReadState(r)
  \/ SetState(r)
  \/ SetStateNoop(r)
  \/ Recheck(r)
  \/ RAbandon(r)

RNext ==
  \/ Next /\ UNCHANGED reconcilerVars
  \/ \E r \in Reconcilers : Reconcile(r) \/ \E item \in Items : Gather(r, item)

RSpec == RInit /\ [][RNext]_allVars

-----------------------------------------------------------------------------
(* Properties                                                              *)

(* Every variable has its type.                                            *)
RTypeOK ==
  /\ TypeOK
  /\ rpc \in [Reconcilers -> {"idle", "gathered", "setting", "rechecking"}]
  /\ rwork \in [Reconcilers -> Items \cup {NoItem}]
  /\ evidence \in [Reconcilers -> SUBSET Report]
  /\ rdecision \in [Reconcilers -> Decision]
  /\ reconciles \in 0 .. MaxReconciles

StatusAfterR ==
  [event \in DOMAIN StatusAfter \cup Settling |->
     IF event \in Settling THEN RequestedStatus[event] ELSE StatusAfter[event]]

(* The audit trail alone tells the row, whoever of executors and           *)
(* reconcilers wrote it: its last status event is the status, its claim    *)
(* events number the attempts.  Holds since row and event are written in   *)
(* one transaction; only a foreign write breaks it.                        *)
SharedAuditReplaysRow ==
  \A k \in Keys :
    /\ claims[k].attempts = Cardinality(EventsOf(k, {"CLAIMED", "RETRY_CLAIMED"}))
    /\ claims[k].status \notin {"ABSENT", "ALIEN"} =>
         \E i \in EventsOf(k, DOMAIN StatusAfterR) :
           /\ StatusAfterR[audit[k][i]] = claims[k].status
           /\ \A j \in EventsOf(k, DOMAIN StatusAfterR) : j <= i

RStep(r) == rpc'[r] # rpc[r]

(* "Confirmed local success may never be downgraded by stale/failure       *)
(* evidence" (gate DR-13): no step of a reconciler takes a success back,   *)
(* even when the row became a success after the reconciler had read it.    *)
ReconcilerKeepsSuccess ==
  [][\A k \in Keys, r \in Reconcilers :
       RStep(r) /\ claims[k].status = "SUCCEEDED" => claims'[k] = claims[k]]_allVars

(* The reports name every run of the key, also those started since.        *)
Covers(r, k) == {m.run : m \in Exact(evidence[r])} = DOMAIN runs[k]

(* A reconciler whose reports cover all runs of the key reopens it for a   *)
(* retry only if every run failed without effect.  The premise is what the *)
(* caller has to provide: nothing in `reconcile` checks that a report is   *)
(* about the latest attempt.                                               *)
CompleteEvidenceIsSafe ==
  [][\A k \in Keys, r \in Reconcilers :
       /\ RStep(r) /\ Covers(r, k)
       /\ claims'[k] # claims[k] /\ claims'[k].status = "FAILED_RETRYABLE"
       => \A i \in DOMAIN runs[k] : runs[k][i] = "FAILED"]_allVars

(* The comment in `claim`: "a competing/restarted executor must never      *)
(* mutate another executor's live/possibly-live claim".  A live claim is   *)
(* changed only by its holder, a reconciler, or a foreign writer; never by *)
(* another executor.                                                       *)
ExecutorsRespectOwnership ==
  [][\A k \in Keys, e \in Executors :
       /\ claims[k].status = "CLAIMED" /\ Holds(e, k)
       /\ claims'[k] # claims[k] /\ claims'[k].status # "ALIEN"
       => pc'[e] # pc[e] \/ \E r \in Reconcilers : RStep(r)]_allVars

-----------------------------------------------------------------------------
(* The inductive invariant behind the theorems about RSpec: a reconciler   *)
(* may reopen the row of a working executor, so that LedgerInv is lost.    *)

(* Executors that were granted k and have not started their callback: as   *)
(* many attempts are spoken for.                                           *)
Waiting(k) == {e \in Executors : Active(e, k) /\ pc[e] = "claimed"}

AttemptsInv ==
  \A k \in Keys :
    /\ claims[k].status = "ABSENT" => claims[k].attempts = 0
    /\ WithinLimit(k, claims[k].attempts, claims[k].limit)
    /\ IsFiniteSet(Waiting(k))
    /\ Len(runs[k]) + Cardinality(Waiting(k)) <= claims[k].attempts

(* What a working reconciler was told and is about to do: a run that was   *)
(* reported as failed without effect has failed so.                        *)
EvidenceInv ==
  \A r \in Reconcilers : rpc[r] # "idle" =>
    /\ rwork[r] \in Items
    /\ rpc[r] = "setting" => Assess(evidence[r]) \in Settling
    /\ \A m \in evidence[r] : m.exact /\ m.state = "FAILED" /\ ~m.effect =>
         m.run \in DOMAIN runs[RKey(r)] /\ runs[RKey(r)][m.run] = "FAILED"

SharedInv ==
  /\ RTypeOK
  /\ \A e \in Executors : pc[e] # "idle" => work[e] \in Items
  /\ AttemptsInv
  /\ SharedAuditReplaysRow
  /\ EvidenceInv
=============================================================================
