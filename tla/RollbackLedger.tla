--------------------------- MODULE RollbackLedger ---------------------------
(***************************************************************************)
(* governance/m5_incident_rollback_safety.py: responders assess an         *)
(* incident, claim its rollback in a SQLite file they share, carry it out  *)
(* and record the result.  Every method of the ledger is one immediate     *)
(* transaction and one action here.  The evidence may change at any time,  *)
(* also between an assessment and the claim that rests on it.              *)
(***************************************************************************)
EXTENDS IncidentClassifier

CONSTANTS
  Responders,    \* processes that call the classifier and the ledger
  StartEvidence, \* evidence to begin with
  FieldValues,   \* FieldValues[field]: what the collectors may deliver
  MaxEdits       \* bound: deliveries

ASSUME RollbackAssumption ==
  /\ StartEvidence \subseteq IncidentEvidence
  /\ MaxEdits \in Nat

VARIABLES
  incident,   \* the evidence as it is now (external)
  edits,      \* deliveries so far (external)
  rows,       \* rows[k]: status and scope of the row in rollback_claims
  events,     \* events[k]: event types of the audit with that scope key
  pc,         \* pc[p]: "idle", "assessed" or "holding" (told CLAIMED_NEW)
  seen,       \* seen[p]: the evidence it works with
  assessment, \* assessment[p]: the decision on it
  told,       \* told[p]: the ledger's last answer and the scope it is about
  rollbacks   \* rollbacks started, in order (external)

responderVars == <<pc, seen, assessment, told>>
vars == <<incident, edits, rows, events, responderVars, rollbacks>>

NoScope == [key |-> "none"]
NoEvidence == [key |-> "none"]
NoRow == [status |-> "ABSENT", scope |-> NoScope]
Told(status, scope) == [status |-> status, scope |-> scope]
Silence == Told("none", NoScope)

Scopes ==
  [key : Keys, adapter : Adapters, action_class : {"INTERNAL_LOCAL_ROLLBACK", "OTHER"},
   requested : SUBSET Permissions, minimum : SUBSET Permissions]

Statuses == {"ABSENT", "CLAIMED", "SUCCEEDED", "RECONCILE_REQUIRED"}

RollbackClaimStatus ==
  {"none", "CLAIMED_NEW", "SUCCEEDED", "RECONCILE_REQUIRED", "NOOP_ALREADY_SUCCEEDED",
   "SCOPE_CONFLICT_BLOCKED", "DECISION_BLOCKED"}

(* The audit events of calls that change the row; those of calls that      *)
(* leave it alone are left out.                                            *)
Events ==
  {"ROLLBACK_CLAIMED", "ROLLBACK_CLAIM_UNCERTAIN_RECONCILE", "ROLLBACK_SUCCEEDED",
   "ROLLBACK_RECONCILE_REQUIRED"}

Init ==
  /\ incident \in StartEvidence
  /\ edits = 0
  /\ rows = [k \in Keys |-> NoRow]
  /\ events = [k \in Keys |-> {}]
  /\ pc = [p \in Responders |-> "idle"]
  /\ seen = [p \in Responders |-> NoEvidence]
  /\ assessment = [p \in Responders |-> "none"]
  /\ told = [p \in Responders |-> Silence]
  /\ rollbacks = <<>>

-----------------------------------------------------------------------------
(* Around the ledger                                                       *)

(* External: other evidence arrives.                                       *)
Revise ==
  /\ edits < MaxEdits
  /\ \E field \in DOMAIN FieldValues : \E value \in FieldValues[field] :
       incident' = [incident EXCEPT ![field] = value]
  /\ incident' \in IncidentEvidence
  /\ edits' = edits + 1
  /\ UNCHANGED <<rows, events, responderVars, rollbacks>>

Assess(p) ==
  /\ pc[p] = "idle"
  /\ pc' = [pc EXCEPT ![p] = "assessed"]
  /\ seen' = [seen EXCEPT ![p] = incident]
  /\ assessment' = [assessment EXCEPT ![p] = Classify(incident)]
  /\ told' = [told EXCEPT ![p] = Silence]
  /\ UNCHANGED <<incident, edits, rows, events, rollbacks>>

(* External: the responder that was given the claim begins to roll back.   *)
Start(p) ==
  /\ pc[p] = "holding"
  /\ pc' = [pc EXCEPT ![p] = "idle"]
  /\ seen' = [seen EXCEPT ![p] = NoEvidence]
  /\ rollbacks' = Append(rollbacks, [evidence |-> seen[p], outcome |-> "running"])
  /\ UNCHANGED <<incident, edits, rows, events, assessment, told>>

(* External: a rollback comes to its end, if it does.                      *)
End(i, outcome) ==
  /\ rollbacks[i].outcome = "running"
  /\ rollbacks' = [rollbacks EXCEPT ![i] = [evidence |-> @.evidence, outcome |-> outcome]]
  /\ UNCHANGED <<incident, edits, rows, events, responderVars>>

(* The process dies, or the database fails in its claim: the transaction   *)
(* is rolled back and the error is the caller's.                           *)
Crash(p) ==
  /\ pc[p] # "idle"
  /\ pc' = [pc EXCEPT ![p] = "idle"]
  /\ seen' = [seen EXCEPT ![p] = NoEvidence]
  /\ assessment' = [assessment EXCEPT ![p] = "none"]
  /\ told' = [told EXCEPT ![p] = Silence]
  /\ UNCHANGED <<incident, edits, rows, events, rollbacks>>

-----------------------------------------------------------------------------
(* claim                                                                   *)

Record(k, event) == events' = [events EXCEPT ![k] = @ \cup {event}]

(* The call is over; a responder that was told CLAIMED_NEW may go on.      *)
ClaimReturns(p, status) ==
  /\ told' = [told EXCEPT ![p] = Told(status, RollbackScope(seen[p]))]
  /\ assessment' = [assessment EXCEPT ![p] = "none"]
  /\ IF status = "CLAIMED_NEW"
       THEN pc' = [pc EXCEPT ![p] = "holding"] /\ UNCHANGED seen
       ELSE /\ pc' = [pc EXCEPT ![p] = "idle"]
            /\ seen' = [seen EXCEPT ![p] = NoEvidence]
  /\ UNCHANGED <<incident, edits, rollbacks>>

ClaimDecisionBlocked(p) ==
  /\ pc[p] = "assessed"
  /\ assessment[p] # "LOCAL_ROLLBACK_ALLOWED"
  /\ ClaimReturns(p, "DECISION_BLOCKED")
  /\ UNCHANGED <<rows, events>>

(* A slip: anything but a stop lets the claim through.                     *)
ClaimOpens_UnlessStopped(p) == pc[p] = "assessed" /\ assessment[p] # "STOPPED"

(* The transaction of an allowed claim opens.                              *)
ClaimOpens(p) == pc[p] = "assessed" /\ assessment[p] = "LOCAL_ROLLBACK_ALLOWED"

Row(p) == rows[seen[p].key]

SameScope(k, scope) == rows[k].scope = scope

Bind(p) ==
  /\ rows' = [rows EXCEPT ![seen[p].key] =
                [status |-> "CLAIMED", scope |-> RollbackScope(seen[p])]]
  /\ Record(seen[p].key, "ROLLBACK_CLAIMED")
  /\ ClaimReturns(p, "CLAIMED_NEW")

ClaimNew(p) ==
  /\ ClaimOpens(p)
  /\ Row(p).status = "ABSENT"
  /\ Bind(p)

(* The row is there already; `status` is what it says.                     *)
Found(p, status) ==
  /\ ClaimOpens(p)
  /\ Row(p).status = status
  /\ SameScope(seen[p].key, RollbackScope(seen[p]))

ClaimConflict(p) ==
  /\ ClaimOpens(p)
  /\ Row(p).status # "ABSENT"
  /\ ~SameScope(seen[p].key, RollbackScope(seen[p]))
  /\ ClaimReturns(p, "SCOPE_CONFLICT_BLOCKED")
  /\ UNCHANGED <<rows, events>>

ClaimNoop(p) ==
  /\ Found(p, "SUCCEEDED")
  /\ ClaimReturns(p, "NOOP_ALREADY_SUCCEEDED")
  /\ UNCHANGED <<rows, events>>

Doubt(k) == rows' = [rows EXCEPT ![k] = [status |-> "RECONCILE_REQUIRED", scope |-> @.scope]]

(* Somebody claimed this rollback and has not recorded a result: nobody    *)
(* can tell a slow holder from a dead one.                                 *)
ClaimUncertain(p) ==
  /\ Found(p, "CLAIMED")
  /\ Doubt(seen[p].key)
  /\ Record(seen[p].key, "ROLLBACK_CLAIM_UNCERTAIN_RECONCILE")
  /\ ClaimReturns(p, "RECONCILE_REQUIRED")

ClaimSticky(p) ==
  /\ Found(p, "RECONCILE_REQUIRED")
  /\ ClaimReturns(p, "RECONCILE_REQUIRED")
  /\ UNCHANGED <<rows, events>>

-----------------------------------------------------------------------------
(* mark_succeeded and mark_reconcile_required, called by any process that  *)
(* has the scope key and digest: as they are in the row, or computed anew. *)

PossibleScopes ==
  {RollbackScope(incident)} \cup {rows[k].scope : k \in {l \in Keys : rows[l] # NoRow}}

MarkReturns(p, status, scope) ==
  /\ pc[p] = "idle"
  /\ told' = [told EXCEPT ![p] = Told(status, scope)]
  /\ UNCHANGED <<incident, edits, pc, seen, assessment, rollbacks>>

(* There is no row, or it is for another scope.                            *)
MarkConflict(p, s) ==
  /\ ~SameScope(s.key, s)
  /\ MarkReturns(p, "SCOPE_CONFLICT_BLOCKED", s)
  /\ UNCHANGED <<rows, events>>

(* External: who records a success has seen the rollback completed.        *)
Completed(k) ==
  \E i \in DOMAIN rollbacks :
    rollbacks[i].evidence.key = k /\ rollbacks[i].outcome = "completed"

MarkNoop(p, s) ==
  /\ Completed(s.key)
  /\ SameScope(s.key, s)
  /\ rows[s.key].status = "SUCCEEDED"
  /\ MarkReturns(p, "NOOP_ALREADY_SUCCEEDED", s)
  /\ UNCHANGED <<rows, events>>

MarkBlocked(p, s) ==
  /\ Completed(s.key)
  /\ SameScope(s.key, s)
  /\ rows[s.key].status = "RECONCILE_REQUIRED"
  /\ MarkReturns(p, "RECONCILE_REQUIRED", s)
  /\ UNCHANGED <<rows, events>>

Succeed(p, s) ==
  /\ rows' = [rows EXCEPT ![s.key] = [status |-> "SUCCEEDED", scope |-> @.scope]]
  /\ Record(s.key, "ROLLBACK_SUCCEEDED")
  /\ MarkReturns(p, "SUCCEEDED", s)

(* A slip: a late result settles the doubt.                                *)
MarkSucceeded_Late(p, s) ==
  /\ Completed(s.key)
  /\ SameScope(s.key, s)
  /\ rows[s.key].status \in {"CLAIMED", "RECONCILE_REQUIRED"}
  /\ Succeed(p, s)

MarkSucceeded(p, s) ==
  /\ Completed(s.key)
  /\ SameScope(s.key, s)
  /\ rows[s.key].status = "CLAIMED"
  /\ Succeed(p, s)

(* Any caller may raise doubt, whatever the row's status is.               *)
MarkReconcileRequired(p, s) ==
  /\ SameScope(s.key, s)
  /\ Doubt(s.key)
  /\ Record(s.key, "ROLLBACK_RECONCILE_REQUIRED")
  /\ MarkReturns(p, "RECONCILE_REQUIRED", s)

Claim(p) ==
  \/ ClaimDecisionBlocked(p)
  \/ ClaimNew(p)
  \/ ClaimConflict(p)
  \/ ClaimNoop(p)
  \/ ClaimUncertain(p)
  \/ ClaimSticky(p)

Mark(p) ==
  \E s \in PossibleScopes :
    \/ MarkConflict(p, s)
    \/ MarkNoop(p, s)
    \/ MarkBlocked(p, s)
    \/ MarkSucceeded(p, s)
    \/ MarkReconcileRequired(p, s)

Next ==
  \/ Revise
  \/ \E p \in Responders : Assess(p) \/ Claim(p) \/ Start(p) \/ Crash(p) \/ Mark(p)
  \/ \E i \in DOMAIN rollbacks : End(i, "completed") \/ End(i, "failed")

Spec == Init /\ [][Next]_vars

-----------------------------------------------------------------------------
(* Properties                                                              *)

RowTypes == [status : Statuses, scope : Scopes \cup {NoScope}]

Rollbacks == [evidence : IncidentEvidence, outcome : {"running", "completed", "failed"}]

(* Every variable has its type.                                            *)
TypeOK ==
  /\ incident \in IncidentEvidence
  /\ edits \in 0 .. MaxEdits
  /\ rows \in [Keys -> RowTypes]
  /\ events \in [Keys -> SUBSET Events]
  /\ pc \in [Responders -> {"idle", "assessed", "holding"}]
  /\ seen \in [Responders -> IncidentEvidence \cup {NoEvidence}]
  /\ assessment \in [Responders -> IncidentDecision \cup {"none"}]
  /\ told \in [Responders -> [status : RollbackClaimStatus, scope : Scopes \cup {NoScope}]]
  /\ rollbacks \in Seq(Rollbacks)

(* What it takes to roll back without asking anybody, all at once.         *)
Safe(e) ==
  /\ ~e.stop_latch /\ ~e.owner_gate /\ ~e.grant_reuse_attempt
  /\ e.filled /\ e.intact /\ e.matching
  /\ e.fresh /\ ~e.source_conflict
  /\ e.downstream_outcome_status = "VERIFIED_NO_EXTERNAL_EFFECT"
  /\ e.durable_claim_status \in {"FAILED_LOCAL", "FAILED_RETRYABLE"}
  /\ e.action_class = "INTERNAL_LOCAL_ROLLBACK" /\ e.rollback_action_allowlisted
  /\ e.rollback_reversible /\ ~e.rollback_external_effect /\ ~e.external_effect_possible
  /\ \A r \in e.requested_permissions : r \in e.minimum_permissions
  /\ 0 <= e.retry_count /\ e.retry_count < e.retry_limit /\ ~e.circuit_open

(* The ordered boundaries are neither looser nor stricter than what makes  *)
(* a rollback safe, and the stop latch and then the owner's gate are never *)
(* overruled by anything that is looked at later.                          *)
AssessmentSound ==
  \A p \in Responders : pc[p] = "assessed" =>
    /\ assessment[p] = "LOCAL_ROLLBACK_ALLOWED" <=> Safe(seen[p])
    /\ assessment[p] = "STOPPED" <=> seen[p].stop_latch
    /\ seen[p].owner_gate => assessment[p] \in {"STOPPED", "OWNER_REQUIRED"}

(* A rollback is started at most once, ever: of the responders that hold   *)
(* its claim and the rollbacks that were started there is at most one,     *)
(* whoever crashed and whatever doubt was raised in between.               *)
OneRollback ==
  /\ \A p \in Responders : pc[p] = "holding" =>
       /\ \A q \in Responders : pc[q] = "holding" /\ seen[q].key = seen[p].key => q = p
       /\ \A i \in DOMAIN rollbacks : rollbacks[i].evidence.key # seen[p].key
  /\ \A i, j \in DOMAIN rollbacks :
       rollbacks[i].evidence.key = rollbacks[j].evidence.key => i = j

(* The ledger and what happened agree: every rollback was safe on the      *)
(* evidence its responder had and is the one its row was claimed for, and  *)
(* a row that says success stands for a completed rollback.                *)
RollbacksAccountedFor ==
  /\ \A i \in DOMAIN rollbacks :
       /\ Safe(rollbacks[i].evidence)
       /\ SameScope(rollbacks[i].evidence.key, RollbackScope(rollbacks[i].evidence))
  /\ \A k \in Keys : rows[k].status = "SUCCEEDED" => Completed(k)

(* An answer stays true: who was told of a success finds the row succeeded *)
(* for its scope, or the doubt somebody raised about it in the trail; who  *)
(* was told that the row is in doubt finds it in doubt for ever.           *)
ToldTruth ==
  \A p \in Responders :
    LET k == told[p].scope.key IN
    /\ told[p].status \in {"SUCCEEDED", "NOOP_ALREADY_SUCCEEDED"} =>
         /\ rows[k].scope = told[p].scope
         /\ \/ rows[k].status = "SUCCEEDED"
            \/ {"ROLLBACK_SUCCEEDED", "ROLLBACK_RECONCILE_REQUIRED"} \subseteq events[k]
    /\ told[p].status = "RECONCILE_REQUIRED" =>
         rows[k] = [status |-> "RECONCILE_REQUIRED", scope |-> told[p].scope]

(* The audit trail alone tells the status of every row: each transaction   *)
(* writes both.                                                            *)
StatusFromTrail(trail) ==
  IF trail = {} THEN "ABSENT"
  ELSE IF trail \cap {"ROLLBACK_CLAIM_UNCERTAIN_RECONCILE",
                      "ROLLBACK_RECONCILE_REQUIRED"} # {} THEN "RECONCILE_REQUIRED"
  ELSE IF "ROLLBACK_SUCCEEDED" \in trail THEN "SUCCEEDED"
  ELSE "CLAIMED"

TrailTellsStatus == \A k \in Keys : rows[k].status = StatusFromTrail(events[k])

-----------------------------------------------------------------------------
(* The inductive invariant behind the theorems of RollbackLedgerProofs.    *)

(* A working responder has evidence; a holder's is safe.                   *)
WorkInv ==
  \A p \in Responders :
    /\ pc[p] # "idle" => seen[p] \in IncidentEvidence
    /\ pc[p] = "holding" => Safe(seen[p])

(* A row is for a scope with its key, or is not there at all.              *)
RowInv ==
  \A k \in Keys :
    IF rows[k].status = "ABSENT" THEN rows[k] = NoRow
    ELSE rows[k].scope \in Scopes /\ rows[k].scope.key = k

(* A holder's row is open and is for its scope.                            *)
HolderInv ==
  \A p \in Responders : pc[p] = "holding" =>
    /\ rows[seen[p].key].status \in {"CLAIMED", "RECONCILE_REQUIRED"}
    /\ SameScope(seen[p].key, RollbackScope(seen[p]))

StartedInv == \A i \in DOMAIN rollbacks : rows[rollbacks[i].evidence.key].status # "ABSENT"

(* What may prove untrue was said of a row that exists.                    *)
ToldInv ==
  \A p \in Responders :
    told[p].status \in {"SUCCEEDED", "NOOP_ALREADY_SUCCEEDED", "RECONCILE_REQUIRED"} =>
      told[p].scope.key \in Keys

LedgerInv ==
  /\ TypeOK /\ WorkInv /\ AssessmentSound
  /\ RowInv /\ HolderInv /\ StartedInv
  /\ OneRollback /\ RollbacksAccountedFor
  /\ ToldTruth /\ ToldInv /\ TrailTellsStatus

-----------------------------------------------------------------------------
(* The ledger implements RollbackOnce.                                     *)

Phase(status) ==
  IF status = "ABSENT" THEN "free"
  ELSE IF status = "CLAIMED" THEN "taken"
  ELSE IF status = "SUCCEEDED" THEN "done"
  ELSE "doubtful"

phaseBar == [k \in Keys |-> Phase(rows[k].status)]
scopeBar == [k \in Keys |-> rows[k].scope]
startedBar == {rollbacks[i].evidence.key : i \in DOMAIN rollbacks}
finishedBar == {k \in Keys : Completed(k)}

RO == INSTANCE RollbackOnce
        WITH phase <- phaseBar, scope <- scopeBar, started <- startedBar,
             finished <- finishedBar

(* Every behaviour is one of RollbackOnce.                                 *)
ImplementsRollbackOnce == RO!Spec
=============================================================================
