------------------------ MODULE AuthorizationLedger ------------------------
(***************************************************************************)
(* governance/durable_single_pilot_authorization_consumption.py: single-   *)
(* use owner grants are claimed and consumed in one SQLite file that       *)
(* several processes share and that survives restarts.  Every method is    *)
(* one immediate transaction and one action here; what happens between two *)
(* calls (waiting, crashes, the dispatch itself) interleaves freely.       *)
(*                                                                         *)
(* Each row keeps a digest of the authorization scope; digests are the     *)
(* digested records themselves.                                            *)
(***************************************************************************)
EXTENDS AuthorityBoundary

CONSTANTS
  Pilots,     \* processes that call the ledger
  Requests,   \* the evidence they may hold: [intent, preflight, grant]
  ReceiptIds, \* receipt_evidence_sha256 of verified receipts
  MaxTime     \* bound: the clock

ASSUME RequestAssumption ==
  /\ Requests \subseteq [intent : PilotIntent, preflight : PreflightEvidence,
                         grant : OwnerAuthorizationEvidence]
  /\ MaxTime \in Nat

VARIABLES
  rows,      \* rows[g]: the row of authorization_consumption
  events,    \* events[g]: event types of the audit with that grant id
  now,       \* the clock
  pc,        \* pc[p]: "idle", "decided" or "holding" (told CLAIMED_NEW)
  request,   \* request[p]: the evidence it is working with
  decision,  \* decision[p]: status and time of the authority decision
  told,      \* told[p]: the answer of the ledger to its last call, with the
             \* scope or the receipt it was told is consumed
  runs       \* the runs started downstream, in order (external)

pilotVars == <<pc, request, decision, told>>
vars == <<rows, events, now, pc, request, decision, told, runs>>

NoReceipt == [grant_id |-> "none", run |-> 0, evidence |-> "none"]
NoScope == [grant_id |-> "none"]
NoRow == [status |-> "ABSENT", evidence |-> "none", scope |-> NoScope, receipt |-> NoReceipt]
NoRequest == [grant |-> "none"]
NoDecision == [status |-> "none", asOf |-> 0]
Told(status, scope, receipt) == [status |-> status, scope |-> scope, receipt |-> receipt]
Silence == Told("none", NoScope, NoReceipt)

(* authorization_scope_sha256 digests the grant id, the snapshot and every *)
(* field of the intent.                                                    *)
ScopeOf(r) ==
  [grant_id |-> r.grant.grant_id, snapshot |-> r.grant.snapshot, intent |-> r.intent]

Scopes == {ScopeOf(r) : r \in Requests}

(* The audit events of calls that change the row, and of a receipt of      *)
(* another scope.  Calls that leave the row alone record nine more types,  *)
(* which nothing here tells apart; they are left out.                      *)
Events == {"CLAIMED", "RECONCILE_REQUIRED", "RECEIPT_SCOPE_CONFLICT_BLOCKED", "CONSUMED"}

Statuses == {"ABSENT", "CLAIMED", "RECONCILE_REQUIRED", "CONSUMED", "ALIEN"}

Answers ==
  {"none", "CLAIMED_NEW", "RECONCILE_REQUIRED", "SCOPE_CONFLICT_BLOCKED",
   "EVIDENCE_REUSE_BLOCKED", "AUTHORITY_BLOCKED", "CONSUMED", "NOOP_ALREADY_CONSUMED",
   "CONFLICT_BLOCKED", "FAIL_CLOSED"}

Init ==
  /\ rows = [g \in GrantIds |-> NoRow]
  /\ events = [g \in GrantIds |-> {}]
  /\ now = 0
  /\ pc = [p \in Pilots |-> "idle"]
  /\ request = [p \in Pilots |-> NoRequest]
  /\ decision = [p \in Pilots |-> NoDecision]
  /\ told = [p \in Pilots |-> Silence]
  /\ runs = <<>>

-----------------------------------------------------------------------------
(* Around the ledger                                                       *)

Tick ==
  /\ now < MaxTime
  /\ now' = now + 1
  /\ UNCHANGED <<rows, events, pilotVars, runs>>

(* A pilot has its evidence validated.                                     *)
Decide(p, r) ==
  /\ pc[p] = "idle"
  /\ pc' = [pc EXCEPT ![p] = "decided"]
  /\ request' = [request EXCEPT ![p] = r]
  /\ decision' = [decision EXCEPT ![p] =
       [status |-> Verdict(r.intent, r.preflight, r.grant, now), asOf |-> now]]
  /\ told' = [told EXCEPT ![p] = Silence]
  /\ UNCHANGED <<rows, events, now, runs>>

(* External: the separate one-shot dispatcher starts the run the pilot was *)
(* given the grant for.                                                    *)
Start(p) ==
  /\ pc[p] = "holding"
  /\ pc' = [pc EXCEPT ![p] = "idle"]
  /\ runs' = Append(runs, [scope    |-> ScopeOf(request[p]),
                           evidence |-> request[p].grant.evidence])
  /\ request' = [request EXCEPT ![p] = NoRequest]
  /\ UNCHANGED <<rows, events, now, decision, told>>

(* The process dies; only rows and events survive.                         *)
Crash(p) ==
  /\ pc[p] # "idle"
  /\ pc' = [pc EXCEPT ![p] = "idle"]
  /\ request' = [request EXCEPT ![p] = NoRequest]
  /\ decision' = [decision EXCEPT ![p] = NoDecision]
  /\ told' = [told EXCEPT ![p] = Silence]
  /\ UNCHANGED <<rows, events, now, runs>>

-----------------------------------------------------------------------------
(* claim                                                                   *)

Record(g, event) == events' = [events EXCEPT ![g] = @ \cup {event}]

(* The call is over; a pilot that was told CLAIMED_NEW may go on.          *)
ClaimReturns(p, status) ==
  /\ told' = [told EXCEPT ![p] =
       Told(status,
            IF status = "NOOP_ALREADY_CONSUMED" THEN ScopeOf(request[p]) ELSE NoScope,
            NoReceipt)]
  /\ decision' = [decision EXCEPT ![p] = NoDecision]
  /\ IF status = "CLAIMED_NEW"
       THEN pc' = [pc EXCEPT ![p] = "holding"] /\ UNCHANGED request
       ELSE /\ pc' = [pc EXCEPT ![p] = "idle"]
            /\ request' = [request EXCEPT ![p] = NoRequest]
  /\ UNCHANGED <<now, runs>>

(* A slip: the decision is taken for valid because it is there.            *)
AuthorityOk_AnyDecision(p, asOf) == StillAuthorized(request[p].grant, asOf)

(* The caller's time is the decision's, the present, or in between.        *)
AuthorityOk(p, asOf) ==
  /\ decision[p].status = "VALID"
  /\ StillAuthorized(request[p].grant, asOf)

ClaimCalls(p, asOf) ==
  /\ pc[p] = "decided"
  /\ asOf \in decision[p].asOf .. now

ClaimUnauthorized(p) ==
  \E asOf \in decision[p].asOf .. now :
    /\ ClaimCalls(p, asOf)
    /\ ~AuthorityOk(p, asOf)
    /\ ClaimReturns(p, "AUTHORITY_BLOCKED")
    /\ UNCHANGED <<rows, events>>

(* The transaction of an authorized claim opens.                           *)
ClaimOpens(p) ==
  \E asOf \in decision[p].asOf .. now : ClaimCalls(p, asOf) /\ AuthorityOk(p, asOf)

Grant(p) == request[p].grant

Row(p) == rows[Grant(p).grant_id]

SameBinding(p) ==
  Row(p).scope = ScopeOf(request[p]) /\ Row(p).evidence = Grant(p).evidence

ClaimBlocked(p, answer) ==
  /\ ClaimReturns(p, answer)
  /\ UNCHANGED <<rows, events>>

ClaimConflict(p) ==
  /\ ClaimOpens(p)
  /\ Row(p).status # "ABSENT"
  /\ ~SameBinding(p)
  /\ ClaimBlocked(p, "SCOPE_CONFLICT_BLOCKED")

ClaimConsumed(p) ==
  /\ ClaimOpens(p)
  /\ Row(p).status = "CONSUMED"
  /\ SameBinding(p)
  /\ ClaimBlocked(p, "NOOP_ALREADY_CONSUMED")

ClaimPresent(p) ==
  /\ ClaimOpens(p)
  /\ Row(p).status \in {"CLAIMED", "RECONCILE_REQUIRED"}
  /\ SameBinding(p)
  /\ ClaimBlocked(p, "RECONCILE_REQUIRED")

(* A status the program does not know.                                     *)
ClaimAlien(p) ==
  /\ ClaimOpens(p)
  /\ Row(p).status = "ALIEN"
  /\ SameBinding(p)
  /\ ClaimBlocked(p, "FAIL_CLOSED")

EvidenceUsed(evidence) == \E g \in GrantIds : rows[g].evidence = evidence

ClaimReused(p) ==
  /\ ClaimOpens(p)
  /\ Row(p).status = "ABSENT"
  /\ EvidenceUsed(Grant(p).evidence)
  /\ ClaimBlocked(p, "EVIDENCE_REUSE_BLOCKED")

Bind(p) ==
  /\ rows' = [rows EXCEPT ![Grant(p).grant_id] =
       [status |-> "CLAIMED", evidence |-> Grant(p).evidence,
        scope |-> ScopeOf(request[p]), receipt |-> NoReceipt]]
  /\ Record(Grant(p).grant_id, "CLAIMED")
  /\ ClaimReturns(p, "CLAIMED_NEW")

ClaimNew(p) ==
  /\ ClaimOpens(p)
  /\ Row(p).status = "ABSENT"
  /\ ~EvidenceUsed(Grant(p).evidence)
  /\ Bind(p)

(* The database fails: everything is rolled back.                          *)
ClaimError(p) ==
  /\ ClaimOpens(p)
  /\ ClaimReturns(p, "FAIL_CLOSED")
  /\ UNCHANGED <<rows, events>>

-----------------------------------------------------------------------------
(* mark_reconcile_required and consume, called by any idle process         *)

Answer(p, receipt, status) ==
  /\ pc[p] = "idle"
  /\ told' = [told EXCEPT ![p] = Told(status, NoScope, receipt)]
  /\ UNCHANGED <<now, pc, request, decision, runs>>

Open(g) == rows[g].status \in {"CLAIMED", "RECONCILE_REQUIRED"}

(* External: a foreign writer leaves a status the program does not know    *)
(* on a claimed row.                                                       *)
ForeignStatus(g) ==
  /\ rows[g].status = "CLAIMED"
  /\ rows' = [rows EXCEPT ![g].status = "ALIEN"]
  /\ UNCHANGED <<events, now, pilotVars, runs>>

Doubt(g) == rows' = [rows EXCEPT ![g].status = "RECONCILE_REQUIRED"]

MarkReconcile(p, g) ==
  /\ Open(g)
  /\ Doubt(g)
  /\ Record(g, "RECONCILE_REQUIRED")
  /\ Answer(p, NoReceipt, "RECONCILE_REQUIRED")

(* A slip: the mark does not look at the status, as in the other ledgers.  *)
MarkNoop_Downgrades(p, g) ==
  /\ rows[g].status = "CONSUMED"
  /\ Doubt(g)
  /\ Record(g, "RECONCILE_REQUIRED")
  /\ Answer(p, NoReceipt, "RECONCILE_REQUIRED")

MarkNoop(p, g) ==
  /\ rows[g].status = "CONSUMED"
  /\ Answer(p, NoReceipt, "NOOP_ALREADY_CONSUMED")
  /\ UNCHANGED <<rows, events>>

(* No row, or a status the program does not know.                          *)
MarkUnknown(p, g) ==
  /\ rows[g].status \in {"ABSENT", "ALIEN"}
  /\ Answer(p, NoReceipt, "FAIL_CLOSED")
  /\ UNCHANGED <<rows, events>>

(* External: a receipt names a run and is filed under some grant.  A       *)
(* verified one tells the scope the run was started for; one that is not   *)
(* verified may well tell the scope that is wanted.                        *)
Receipt(verified, g, i, evidence) ==
  [verified |-> verified, grant_id |-> g, run |-> i, evidence |-> evidence,
   scope |-> IF verified THEN runs[i].scope ELSE rows[g].scope]

PossibleReceipts ==
  {Receipt(v, g, i, e) : v \in BOOLEAN, g \in GrantIds, i \in DOMAIN runs, e \in ReceiptIds}

Proof(r) == [grant_id |-> r.grant_id, run |-> r.run, evidence |-> r.evidence]

(* A slip: receipts are taken as they come.                                *)
ReceiptValid_Any(r) == TRUE

ReceiptValid(r) == r.verified

ExactScope(r) == rows[r.grant_id].scope = r.scope

(* No verified receipt, or no claim: nothing is written.                   *)
ConsumeRefused(p, r) ==
  /\ ~ReceiptValid(r) \/ rows[r.grant_id].status = "ABSENT"
  /\ Answer(p, NoReceipt, "FAIL_CLOSED")
  /\ UNCHANGED <<rows, events>>

Consumes(r) == ReceiptValid(r) /\ rows[r.grant_id].status # "ABSENT"

ConsumeMismatch(p, r) ==
  /\ Consumes(r)
  /\ ~ExactScope(r)
  /\ IF Open(r.grant_id) THEN Doubt(r.grant_id) ELSE UNCHANGED rows
  /\ Record(r.grant_id, "RECEIPT_SCOPE_CONFLICT_BLOCKED")
  /\ Answer(p, NoReceipt, "SCOPE_CONFLICT_BLOCKED")

ReplayAnswer(r) ==
  IF rows[r.grant_id].receipt = Proof(r) THEN "NOOP_ALREADY_CONSUMED"
                                         ELSE "CONFLICT_BLOCKED"

ConsumeReplay(p, r) ==
  /\ Consumes(r)
  /\ ExactScope(r)
  /\ rows[r.grant_id].status = "CONSUMED"
  /\ Answer(p, Proof(r), ReplayAnswer(r))
  /\ UNCHANGED <<rows, events>>

ConsumeAlien(p, r) ==
  /\ Consumes(r)
  /\ ExactScope(r)
  /\ rows[r.grant_id].status = "ALIEN"
  /\ Answer(p, NoReceipt, "FAIL_CLOSED")
  /\ UNCHANGED <<rows, events>>

Consume(p, r) ==
  /\ Consumes(r)
  /\ ExactScope(r)
  /\ Open(r.grant_id)
  /\ rows' = [rows EXCEPT ![r.grant_id].status = "CONSUMED", ![r.grant_id].receipt = Proof(r)]
  /\ Record(r.grant_id, "CONSUMED")
  /\ Answer(p, Proof(r), "CONSUMED")

(* The database fails inside either call.                                  *)
UpdateError(p) ==
  /\ Answer(p, NoReceipt, "FAIL_CLOSED")
  /\ UNCHANGED <<rows, events>>

Claim(p) ==
  \/ ClaimUnauthorized(p)
  \/ ClaimConflict(p)
  \/ ClaimConsumed(p)
  \/ ClaimPresent(p)
  \/ ClaimAlien(p)
  \/ ClaimReused(p)
  \/ ClaimNew(p)
  \/ ClaimError(p)

Update(p) ==
  \/ UpdateError(p)
  \/ \E g \in GrantIds :
       MarkReconcile(p, g) \/ MarkNoop(p, g) \/ MarkUnknown(p, g)
  \/ \E r \in PossibleReceipts :
       \/ ConsumeRefused(p, r)
       \/ ConsumeMismatch(p, r)
       \/ ConsumeReplay(p, r)
       \/ ConsumeAlien(p, r)
       \/ Consume(p, r)

Next ==
  \/ Tick
  \/ \E g \in GrantIds : ForeignStatus(g)
  \/ \E p \in Pilots :
       \/ \E r \in Requests : Decide(p, r)
       \/ Claim(p)
       \/ Start(p)
       \/ Crash(p)
       \/ Update(p)

Spec == Init /\ [][Next]_vars

-----------------------------------------------------------------------------
(* Properties                                                              *)

Receipts ==
  [grant_id : GrantIds \cup {"none"}, run : Nat, evidence : ReceiptIds \cup {"none"}]

(* Every variable has its type.                                            *)
TypeOK ==
  /\ rows \in [GrantIds -> [status : Statuses, evidence : Evidences \cup {"none"},
                            scope : Scopes \cup {NoScope}, receipt : Receipts]]
  /\ events \in [GrantIds -> SUBSET Events]
  /\ now \in 0 .. MaxTime
  /\ pc \in [Pilots -> {"idle", "decided", "holding"}]
  /\ request \in [Pilots -> Requests \cup {NoRequest}]
  /\ decision \in [Pilots -> [status : AuthorityStatuses \cup {"none"}, asOf : 0 .. now]]
  /\ told \in [Pilots -> [status : Answers, scope : Scopes \cup {NoScope},
                          receipt : Receipts]]
  /\ runs \in Seq([scope : Scopes, evidence : Evidences])

(* One owner permission, one dispatch: the processes that may start a run  *)
(* on some evidence and the runs started on it are together at most one,   *)
(* whatever grant ids the evidence comes under, across crashes, restarts   *)
(* and after the grant was consumed.                                       *)
SingleUse ==
  /\ \A p \in Pilots : pc[p] = "holding" =>
       /\ \A q \in Pilots :
            pc[q] = "holding" /\ Grant(q).evidence = Grant(p).evidence => q = p
       /\ \A i \in DOMAIN runs : runs[i].evidence # Grant(p).evidence
  /\ \A i, j \in DOMAIN runs : runs[i].evidence = runs[j].evidence => i = j

(* A grant is consumed by the run that was started under this very claim:  *)
(* not by a forged receipt, nor by the receipt of another grant's run.     *)
ConsumedByItsRun ==
  \A g \in GrantIds : rows[g].status = "CONSUMED" =>
    /\ rows[g].receipt.run \in DOMAIN runs
    /\ LET run == runs[rows[g].receipt.run] IN
         run.scope = rows[g].scope /\ run.evidence = rows[g].evidence

(* Every run, and every claim, is what an owner permitted: its intent is   *)
(* the scope of a genuine, unrevoked grant with that id and evidence.      *)
Permitted(scope, evidence) ==
  \E r \in Requests :
    /\ scope = ScopeOf(r) /\ evidence = r.grant.evidence
    /\ r.intent = r.grant.scope
    /\ r.grant.genuine /\ ~r.grant.revoked

RunsPermitted ==
  /\ \A i \in DOMAIN runs : Permitted(runs[i].scope, runs[i].evidence)
  /\ \A g \in GrantIds :
       rows[g].status # "ABSENT" => Permitted(rows[g].scope, rows[g].evidence)

(* An answer stays true: who was told that a receipt consumed its grant,   *)
(* now or before, finds that receipt in the row for ever; who was told of  *)
(* a conflict finds another one; who was told at a claim that the grant is *)
(* consumed finds it consumed for its own scope.                           *)
ToldTruth ==
  \A p \in Pilots :
    LET t == told[p]  row == rows[t.receipt.grant_id] IN
    /\ t.receipt # NoReceipt =>
         /\ row.status = "CONSUMED"
         /\ row.receipt = t.receipt <=> t.status \in {"CONSUMED", "NOOP_ALREADY_CONSUMED"}
    /\ t.scope # NoScope =>
         /\ rows[t.scope.grant_id].status = "CONSUMED"
         /\ rows[t.scope.grant_id].scope = t.scope

(* The audit trail alone tells the status of every row the program wrote:  *)
(* each transaction writes both, and a receipt of another scope is the one *)
(* event that may, or may not, have changed the row.                       *)
StatusFromTrail(trail) ==
  IF trail = {} THEN "ABSENT"
  ELSE IF "CONSUMED" \in trail THEN "CONSUMED"
  ELSE IF "RECONCILE_REQUIRED" \in trail \/ "RECEIPT_SCOPE_CONFLICT_BLOCKED" \in trail
         THEN "RECONCILE_REQUIRED"
  ELSE "CLAIMED"

TrailTellsStatus ==
  \A g \in GrantIds :
    rows[g].status # "ALIEN" => rows[g].status = StatusFromTrail(events[g])

-----------------------------------------------------------------------------
(* The inductive invariant behind the theorems of AuthorizationLedgerProofs. *)

WorkInv ==
  \A p \in Pilots : pc[p] # "idle" =>
    /\ request[p] \in Requests
    /\ decision[p].status = "VALID" => Permitted(ScopeOf(request[p]), Grant(p).evidence)

RowInv ==
  \A g \in GrantIds :
    /\ rows[g].status = "ABSENT" => rows[g] = NoRow
    /\ rows[g].status # "ABSENT" =>
         /\ rows[g].scope \in Scopes /\ rows[g].scope.grant_id = g
         /\ \A h \in GrantIds :
              rows[h].status # "ABSENT" /\ rows[h].evidence = rows[g].evidence => h = g

Bound(g) == rows[g].status \in {"CLAIMED", "RECONCILE_REQUIRED", "ALIEN"}

HolderInv ==
  \A p \in Pilots : pc[p] = "holding" =>
    /\ Bound(Grant(p).grant_id) /\ SameBinding(p)
    /\ \A q \in Pilots :
         pc[q] = "holding" /\ Grant(q).grant_id = Grant(p).grant_id => q = p
    /\ \A i \in DOMAIN runs : runs[i].scope.grant_id # Grant(p).grant_id

RunInv ==
  \A i \in DOMAIN runs :
    /\ runs[i].scope.grant_id \in GrantIds
    /\ LET row == rows[runs[i].scope.grant_id] IN
         row.status # "ABSENT" /\ row.scope = runs[i].scope
                               /\ row.evidence = runs[i].evidence
    /\ \A j \in DOMAIN runs : runs[j].scope.grant_id = runs[i].scope.grant_id => j = i

ToldInv ==
  \A p \in Pilots :
    /\ told[p].receipt # NoReceipt => told[p].receipt.grant_id \in GrantIds
    /\ told[p].scope # NoScope => told[p].scope.grant_id \in GrantIds

LedgerInv ==
  /\ TypeOK /\ WorkInv /\ RowInv /\ HolderInv /\ RunInv
  /\ ConsumedByItsRun /\ RunsPermitted /\ ToldTruth /\ ToldInv /\ TrailTellsStatus

-----------------------------------------------------------------------------
(* The ledger implements SingleUseGrant.                                   *)

Phase(status) ==
  IF status = "ABSENT" THEN "unused"
  ELSE IF status = "CLAIMED" THEN "taken"
  ELSE IF status \in {"RECONCILE_REQUIRED", "ALIEN"} THEN "doubtful"
  ELSE "spent"

phaseBar == [g \in GrantIds |-> Phase(rows[g].status)]

bindingBar == [g \in GrantIds |-> [evidence |-> rows[g].evidence, scope |-> rows[g].scope]]

startedBar == {g \in GrantIds : \E i \in DOMAIN runs : runs[i].scope.grant_id = g}

SUG == INSTANCE SingleUseGrant WITH
         phase <- phaseBar, binding <- bindingBar, started <- startedBar

(* Every behaviour of the ledger is one of the abstract grants.            *)
ImplementsSingleUseGrant == SUG!Spec
=============================================================================
