------------------------ MODULE RollbackLedgerProofs ------------------------
(***************************************************************************)
(* Theorems about RollbackLedger, for any number of responders, rollbacks  *)
(* and changes of the evidence.                                            *)
(***************************************************************************)
EXTENDS RollbackLedger, TLAPS

-----------------------------------------------------------------------------
(* The classifier                                                          *)

(* The boundary that decides: it is met, and none before it is.            *)
First(e, i) ==
  /\ i \in 1 .. 21
  /\ Boundaries(e)[i].met
  /\ \A j \in 1 .. 21 : j < i => ~Boundaries(e)[j].met

(* The last boundary is always met, so some boundary is the first one.     *)
LEMMA FirstExists ==
  ASSUME NEW e
  PROVE  \E i \in 1 .. 21 : First(e, i)
<1> DEFINE Unmet(n) == \A j \in 1 .. 21 : j <= n => ~Boundaries(e)[j].met
<1>1. Boundaries(e)[21].met
  BY DEF Boundaries, Boundary
<1>2. Unmet(0) /\ ~Unmet(21)
  BY <1>1
<1>3. \E n \in 0 .. 20 : Unmet(n) /\ ~Unmet(n + 1)
  <2> SUFFICES ASSUME \A n \in 0 .. 20 : Unmet(n) => Unmet(n + 1)
               PROVE  FALSE
    OBVIOUS
  <2> HIDE DEF Unmet
  <2>1. Unmet(11)
    BY <1>2, SMTT(30)
  <2> QED
    BY <2>1, <1>2, SMTT(30)
<1>4. PICK n \in 0 .. 20 : Unmet(n) /\ ~Unmet(n + 1)
  BY <1>3
<1>5. First(e, n + 1)
  BY <1>4 DEF First
<1> QED
  BY <1>5

(* The decision is that of the first boundary.                             *)
LEMMA ClassifyIsFirst ==
  ASSUME NEW e, NEW i \in 1 .. 21, First(e, i)
  PROVE  Classify(e) = Boundaries(e)[i].decision
<1> DEFINE met == {j \in DOMAIN Boundaries(e) : Boundaries(e)[j].met}
<1>1. DOMAIN Boundaries(e) = 1 .. 21
  BY DEF Boundaries
<1>2. i \in met /\ \A j \in met : i <= j
  BY <1>1 DEF First
<1>3. \A k \in met : (\A j \in met : k <= j) => k = i
  BY <1>1, <1>2
<1>4. (CHOOSE k \in met : \A j \in met : k <= j) = i
  BY <1>2, <1>3
<1> QED
  BY <1>4 DEF Classify

(* What the boundaries decide, without an order.                           *)
LEMMA Decisions ==
  ASSUME NEW e
  PROVE  /\ \A i \in 1 .. 21 : Boundaries(e)[i].decision \in IncidentDecision
         /\ \A i \in 1 .. 21 :
              Boundaries(e)[i].decision = "LOCAL_ROLLBACK_ALLOWED" <=> i = 20
         /\ \A i \in 1 .. 21 : Boundaries(e)[i].decision = "STOPPED" <=> i = 1
         /\ Boundaries(e)[2].decision = "OWNER_REQUIRED"
<1>1. /\ Boundaries(e)[2].decision = "OWNER_REQUIRED"
      /\ \A i \in 1 .. 21 : Boundaries(e)[i].decision \in IncidentDecision
  BY SMTT(60) DEF Boundaries, Boundary, IncidentDecision
<1>2. \A i \in 1 .. 21 : Boundaries(e)[i].decision = "LOCAL_ROLLBACK_ALLOWED" <=> i = 20
  BY SMTT(60) DEF Boundaries, Boundary
<1>3. \A i \in 1 .. 21 : Boundaries(e)[i].decision = "STOPPED" <=> i = 1
  BY SMTT(60) DEF Boundaries, Boundary
<1> QED
  BY <1>1, <1>2, <1>3

(* The twentieth boundary is the first that is met exactly for evidence    *)
(* that is safe.                                                           *)
LEMMA SafeIsTwentieth ==
  ASSUME NEW e \in IncidentEvidence
  PROVE  First(e, 20) <=> Safe(e)
<1> DEFINE B == Boundaries(e)
<1>1. First(e, 20) <=>
        /\ B[20].met
        /\ ~B[1].met /\ ~B[2].met /\ ~B[3].met /\ ~B[4].met /\ ~B[5].met /\ ~B[6].met
        /\ ~B[7].met /\ ~B[8].met /\ ~B[9].met /\ ~B[10].met /\ ~B[11].met /\ ~B[12].met
        /\ ~B[13].met /\ ~B[14].met /\ ~B[15].met /\ ~B[16].met /\ ~B[17].met
        /\ ~B[18].met /\ ~B[19].met
  <2> HIDE DEF B
  <2>1. First(e, 20) <=> B[20].met /\ \A j \in 1 .. 19 : ~B[j].met
    BY DEF First, B
  <2> QED
    BY <2>1, SMTT(30)
<1>2. /\ B[1].met = e.stop_latch /\ B[2].met = e.owner_gate /\ B[3].met = ~e.filled
      /\ B[4].met = ~e.intact /\ B[5].met = ~e.matching
      /\ B[6].met = (e.retry_count < 0 \/ e.retry_limit < 0)
      /\ B[7].met = e.grant_reuse_attempt /\ B[8].met = e.source_conflict
      /\ B[9].met = ~e.fresh
  BY DEF Boundaries, Boundary, Stopped
<1>3. /\ B[10].met = (e.downstream_outcome_status = "VERIFIED_SUCCESS"
                        /\ e.durable_claim_status \in {"SUCCEEDED", "CONSUMED"})
      /\ B[11].met = (e.downstream_outcome_status = "VERIFIED_SUCCESS")
      /\ B[12].met = e.external_effect_possible
      /\ B[13].met = (e.downstream_outcome_status \in {"UNKNOWN", "MISSING", "CONFLICTING"})
      /\ B[14].met = (e.durable_claim_status \in {"CLAIMED", "RECONCILE_REQUIRED", "UNKNOWN"})
      /\ B[15].met = (e.rollback_external_effect \/ ~e.rollback_reversible)
  BY DEF Boundaries, Boundary, EffectPossible
<1>4. /\ B[16].met = (e.action_class # "INTERNAL_LOCAL_ROLLBACK")
      /\ B[17].met = ~e.rollback_action_allowlisted
      /\ B[18].met = ~(e.requested_permissions \subseteq e.minimum_permissions)
      /\ B[19].met = (e.circuit_open \/ e.retry_count >= e.retry_limit)
      /\ B[20].met = (e.downstream_outcome_status = "VERIFIED_NO_EXTERNAL_EFFECT"
                        /\ e.durable_claim_status \in {"FAILED_LOCAL", "FAILED_RETRYABLE"})
  BY DEF Boundaries, Boundary
<1>5. e.retry_count \in Int /\ e.retry_limit \in Int
  BY DEF IncidentEvidence
<1>6. /\ ~(e.retry_count < 0 \/ e.retry_limit < 0) /\ ~(e.retry_count >= e.retry_limit)
        <=> 0 <= e.retry_count /\ e.retry_count < e.retry_limit
  BY <1>5
<1>7. /\ B[20].met /\ e.downstream_outcome_status = "VERIFIED_NO_EXTERNAL_EFFECT"
        => ~B[10].met /\ ~B[11].met /\ ~B[13].met /\ ~B[14].met
  BY <1>3, <1>4
<1> HIDE DEF B
<1> QED
  BY <1>1, <1>2, <1>3, <1>4, <1>6, <1>7 DEF Safe

(* The ordered boundaries allow a rollback exactly on evidence that makes  *)
(* it safe; the stop latch, then the owner's gate, are never overruled.    *)
THEOREM ClassifyExact ==
  ASSUME NEW e \in IncidentEvidence
  PROVE  /\ Classify(e) \in IncidentDecision
         /\ Classify(e) = "LOCAL_ROLLBACK_ALLOWED" <=> Safe(e)
         /\ Classify(e) = "STOPPED" <=> e.stop_latch
         /\ e.owner_gate => Classify(e) \in {"STOPPED", "OWNER_REQUIRED"}
<1>1. PICK i \in 1 .. 21 : First(e, i)
  BY FirstExists
<1>2. Classify(e) = Boundaries(e)[i].decision
  BY <1>1, ClassifyIsFirst
<1>3. \A j \in 1 .. 21 : First(e, j) => j = i
  BY <1>1 DEF First
<1>4. Classify(e) = "LOCAL_ROLLBACK_ALLOWED" <=> Safe(e)
  BY <1>1, <1>2, <1>3, Decisions, SafeIsTwentieth
<1>5. /\ Boundaries(e)[1].met = e.stop_latch
      /\ Boundaries(e)[2].met = e.owner_gate
  BY DEF Boundaries, Boundary, Stopped
<1>6. Classify(e) = "STOPPED" <=> e.stop_latch
  <2>1. i = 1 <=> Boundaries(e)[1].met
    BY <1>1 DEF First
  <2> QED
    BY <1>2, <1>5, <2>1, Decisions
<1>7. e.owner_gate => Classify(e) \in {"STOPPED", "OWNER_REQUIRED"}
  <2>1. Boundaries(e)[2].met => i = 1 \/ i = 2
    BY <1>1 DEF First
  <2> QED
    BY <1>2, <1>5, <2>1, Decisions
<1> QED
  BY <1>2, <1>4, <1>6, <1>7, Decisions

-----------------------------------------------------------------------------
(* The ledger                                                              *)

ToldTypes == [status : RollbackClaimStatus, scope : Scopes \cup {NoScope}]

(* The digest of a scope holds its key; no digest is of nothing.           *)
LEMMA ScopeFacts ==
  /\ \A e \in IncidentEvidence :
       RollbackScope(e) \in Scopes /\ RollbackScope(e).key = e.key /\ e.key \in Keys
  /\ \A s \in Scopes : s.key \in Keys
  /\ NoScope \notin Scopes
<1>1. ASSUME NEW e \in IncidentEvidence
      PROVE  RollbackScope(e) \in Scopes /\ RollbackScope(e).key = e.key /\ e.key \in Keys
  BY DEF IncidentEvidence, RollbackScope, Scopes
<1>2. \A s \in Scopes : s.key \in Keys
  BY DEF Scopes
<1>3. NoScope \notin Scopes
  <2>1. \A s \in Scopes : "adapter" \in DOMAIN s
    BY DEF Scopes
  <2>2. "adapter" \notin DOMAIN NoScope
    BY DEF NoScope
  <2> QED
    BY <2>1, <2>2
<1> QED
  BY <1>1, <1>2, <1>3

LEMMA InvParts ==
  ASSUME LedgerInv
  PROVE  /\ TypeOK /\ WorkInv /\ AssessmentSound /\ RowInv /\ HolderInv /\ StartedInv
         /\ OneRollback /\ RollbacksAccountedFor /\ ToldTruth /\ ToldInv /\ TrailTellsStatus
         /\ incident \in IncidentEvidence /\ edits \in 0 .. MaxEdits
         /\ rows \in [Keys -> RowTypes] /\ events \in [Keys -> SUBSET Events]
         /\ pc \in [Responders -> {"idle", "assessed", "holding"}]
         /\ seen \in [Responders -> IncidentEvidence \cup {NoEvidence}]
         /\ assessment \in [Responders -> IncidentDecision \cup {"none"}]
         /\ told \in [Responders -> ToldTypes] /\ rollbacks \in Seq(Rollbacks)
BY DEF LedgerInv, TypeOK, ToldTypes

LEMMA TypeParts ==
  ASSUME incident' \in IncidentEvidence, edits' \in 0 .. MaxEdits,
         rows' \in [Keys -> RowTypes], events' \in [Keys -> SUBSET Events],
         pc' \in [Responders -> {"idle", "assessed", "holding"}],
         seen' \in [Responders -> IncidentEvidence \cup {NoEvidence}],
         assessment' \in [Responders -> IncidentDecision \cup {"none"}],
         told' \in [Responders -> ToldTypes], rollbacks' \in Seq(Rollbacks)
  PROVE  TypeOK'
BY DEF TypeOK, ToldTypes

LEMMA RollbackFacts ==
  ASSUME LedgerInv, NEW i \in DOMAIN rollbacks
  PROVE  /\ rollbacks[i].evidence \in IncidentEvidence
         /\ rollbacks[i].evidence.key \in Keys
         /\ rollbacks[i].outcome \in {"running", "completed", "failed"}
<1>1. rollbacks[i] \in Rollbacks
  BY InvParts
<1> QED
  BY <1>1, ScopeFacts DEF Rollbacks

LEMMA InitInv == Init => LedgerInv
<1> SUFFICES ASSUME Init PROVE LedgerInv
  OBVIOUS
<1>1. TypeOK
  <2>1. NoRow \in RowTypes
    BY DEF NoRow, RowTypes, Statuses
  <2>2. rows \in [Keys -> RowTypes] /\ events \in [Keys -> SUBSET Events]
    BY <2>1 DEF Init
  <2>3. Silence \in ToldTypes
    BY DEF Silence, Told, ToldTypes, RollbackClaimStatus
  <2>4. told \in [Responders -> ToldTypes]
    BY <2>3 DEF Init
  <2>5. incident \in IncidentEvidence /\ edits \in 0 .. MaxEdits
    BY RollbackAssumption DEF Init
  <2>6. /\ pc \in [Responders -> {"idle", "assessed", "holding"}]
        /\ seen \in [Responders -> IncidentEvidence \cup {NoEvidence}]
        /\ assessment \in [Responders -> IncidentDecision \cup {"none"}]
        /\ rollbacks \in Seq(Rollbacks)
    BY DEF Init
  <2> QED
    BY <2>2, <2>4, <2>5, <2>6 DEF TypeOK, ToldTypes
<1>2. WorkInv /\ AssessmentSound /\ HolderInv /\ OneRollback
  BY DEF Init, WorkInv, AssessmentSound, HolderInv, OneRollback
<1>3. RowInv /\ StartedInv /\ RollbacksAccountedFor
  BY DEF Init, RowInv, StartedInv, RollbacksAccountedFor, NoRow
<1>4. ToldTruth /\ ToldInv
  BY DEF Init, ToldTruth, ToldInv, Silence, Told
<1>5. TrailTellsStatus
  BY DEF Init, TrailTellsStatus, StatusFromTrail, NoRow
<1> QED
  BY <1>1, <1>2, <1>3, <1>4, <1>5 DEF LedgerInv

(* New evidence touches nothing that was done.                             *)
LEMMA QuietInv ==
  ASSUME LedgerInv, TypeOK', UNCHANGED <<rows, events, responderVars, rollbacks>>
  PROVE  LedgerInv'
<1> USE InvParts DEF responderVars
<1>1. WorkInv' /\ AssessmentSound' /\ RowInv' /\ HolderInv' /\ StartedInv'
  BY DEF WorkInv, AssessmentSound, RowInv, HolderInv, StartedInv, SameScope
<1>2. OneRollback' /\ RollbacksAccountedFor'
  BY DEF OneRollback, RollbacksAccountedFor, SameScope, Completed
<1>3. ToldTruth' /\ ToldInv' /\ TrailTellsStatus'
  BY DEF ToldTruth, ToldInv, TrailTellsStatus
<1> QED
  BY <1>1, <1>2, <1>3 DEF LedgerInv

-----------------------------------------------------------------------------
(* Steps that bind no row and start nothing                                *)

(* What such a step may do to a row and its trail.                         *)
Kept(k) == rows'[k] = rows[k] /\ events'[k] = events[k]

Doubted(k) ==
  /\ rows[k].status # "ABSENT"
  /\ rows'[k] = [status |-> "RECONCILE_REQUIRED", scope |-> rows[k].scope]
  /\ \E d \in {"ROLLBACK_CLAIM_UNCERTAIN_RECONCILE", "ROLLBACK_RECONCILE_REQUIRED"} :
       /\ events'[k] = events[k] \cup {d}
       /\ rows[k].status = "SUCCEEDED" => d = "ROLLBACK_RECONCILE_REQUIRED"

Settled(k) ==
  /\ rows[k].status = "CLAIMED"
  /\ Completed(k)
  /\ rows'[k] = [status |-> "SUCCEEDED", scope |-> rows[k].scope]
  /\ events'[k] = events[k] \cup {"ROLLBACK_SUCCEEDED"}

(* An answer is true of the rows and the trails.                           *)
ToldOK(t, rs, es) ==
  /\ t.status \in {"SUCCEEDED", "NOOP_ALREADY_SUCCEEDED"} =>
       /\ t.scope.key \in Keys
       /\ rs[t.scope.key].scope = t.scope
       /\ \/ rs[t.scope.key].status = "SUCCEEDED"
          \/ {"ROLLBACK_SUCCEEDED", "ROLLBACK_RECONCILE_REQUIRED"} \subseteq es[t.scope.key]
  /\ t.status = "RECONCILE_REQUIRED" =>
       /\ t.scope.key \in Keys
       /\ rs[t.scope.key] = [status |-> "RECONCILE_REQUIRED", scope |-> t.scope]

LEMMA ToldParts ==
  /\ ToldTruth /\ ToldInv <=> \A q \in Responders : ToldOK(told[q], rows, events)
  /\ (ToldTruth /\ ToldInv)' <=> \A q \in Responders : ToldOK(told'[q], rows', events')
BY DEF ToldTruth, ToldInv, ToldOK

(* The trail of a row that says success has the success.                   *)
LEMMA SuccessInTrail ==
  ASSUME LedgerInv, NEW k \in Keys, rows[k].status = "SUCCEEDED"
  PROVE  "ROLLBACK_SUCCEEDED" \in events[k]
BY InvParts DEF TrailTellsStatus, StatusFromTrail

(* Old answers stay true.                                                  *)
LEMMA AnswersKept ==
  ASSUME LedgerInv, NEW q \in Responders,
         \A k \in Keys : Kept(k) \/ Doubted(k) \/ Settled(k)
  PROVE  ToldOK(told[q], rows', events')
<1> DEFINE t == told[q]  k == told[q].scope.key
<1>1. ToldOK(t, rows, events)
  BY InvParts, ToldParts
<1>2. CASE k \in Keys
  <2>1. CASE Kept(k)
    BY <1>1, <2>1 DEF Kept, ToldOK
  <2>2. CASE Doubted(k)
    <3>1. rows'[k].scope = rows[k].scope /\ events[k] \subseteq events'[k]
      BY <2>2 DEF Doubted
    <3>2. rows[k].status = "SUCCEEDED" =>
            {"ROLLBACK_SUCCEEDED", "ROLLBACK_RECONCILE_REQUIRED"} \subseteq events'[k]
      BY <1>2, <2>2, <3>1, SuccessInTrail DEF Doubted
    <3>3. rows[k] = [status |-> "RECONCILE_REQUIRED", scope |-> t.scope] => rows'[k] = rows[k]
      BY <2>2 DEF Doubted
    <3> QED
      BY <1>1, <3>1, <3>2, <3>3 DEF ToldOK
  <2>3. CASE Settled(k)
    <3>1. rows'[k].scope = rows[k].scope /\ rows'[k].status = "SUCCEEDED"
          /\ rows[k].status # "RECONCILE_REQUIRED"
      BY <2>3 DEF Settled
    <3> QED
      BY <1>1, <3>1 DEF ToldOK
  <2> QED
    BY <1>2, <2>1, <2>2, <2>3
<1>3. CASE k \notin Keys
  BY <1>1, <1>3 DEF ToldOK
<1> QED
  BY <1>2, <1>3

(* Rows and trails change together.                                        *)
LEMMA TrailKept ==
  ASSUME LedgerInv, \A k \in Keys : Kept(k) \/ Doubted(k) \/ Settled(k)
  PROVE  TrailTellsStatus'
<1> SUFFICES ASSUME NEW k \in Keys
             PROVE  rows'[k].status = StatusFromTrail(events'[k])
  BY DEF TrailTellsStatus
<1>1. rows[k].status = StatusFromTrail(events[k])
  BY InvParts DEF TrailTellsStatus
<1>2. CASE Kept(k)
  BY <1>1, <1>2 DEF Kept
<1>3. CASE Doubted(k)
  BY <1>3 DEF Doubted, StatusFromTrail
<1>4. CASE Settled(k)
  BY <1>1, <1>4 DEF Settled, StatusFromTrail
<1> QED
  BY <1>2, <1>3, <1>4

(* What a row is for does not change, and a holder's row stays open.       *)
LEMMA RowsKept ==
  ASSUME LedgerInv, UNCHANGED rollbacks,
         \A q \in Responders :
           pc'[q] = "holding" => pc[q] = "holding" /\ seen'[q] = seen[q],
         \A k \in Keys : Kept(k) \/ Doubted(k) \/ Settled(k)
  PROVE  /\ RowInv' /\ HolderInv' /\ StartedInv' /\ OneRollback' /\ RollbacksAccountedFor'
<1>1. ASSUME NEW k \in Keys
      PROVE  /\ rows'[k].scope = rows[k].scope
             /\ rows'[k].status = "ABSENT" <=> rows[k].status = "ABSENT"
             /\ rows[k].status = "ABSENT" => rows'[k] = rows[k]
             /\ rows'[k].status = "SUCCEEDED" => rows[k].status = "SUCCEEDED" \/ Completed(k)
             /\ rows[k].status \in {"CLAIMED", "RECONCILE_REQUIRED"} /\ ~Completed(k)
                  => rows'[k].status \in {"CLAIMED", "RECONCILE_REQUIRED"}
  <2>1. CASE Kept(k)
    BY <2>1 DEF Kept
  <2>2. CASE Doubted(k)
    BY <2>2 DEF Doubted
  <2>3. CASE Settled(k)
    BY <2>3 DEF Settled
  <2> QED
    BY <2>1, <2>2, <2>3
<1>2. RowInv'
  BY <1>1, InvParts DEF RowInv
<1>3. HolderInv'
  <2> SUFFICES ASSUME NEW q \in Responders, pc[q] = "holding", seen'[q] = seen[q]
               PROVE  /\ rows'[seen[q].key].status \in {"CLAIMED", "RECONCILE_REQUIRED"}
                      /\ rows'[seen[q].key].scope = RollbackScope(seen[q])
    BY DEF HolderInv, SameScope
  <2>1. seen[q].key \in Keys
    BY InvParts, ScopeFacts DEF WorkInv
  <2>2. ~Completed(seen[q].key)
    BY InvParts DEF OneRollback, Completed
  <2> QED
    BY <1>1, <2>1, <2>2, InvParts DEF HolderInv, SameScope
<1>4. StartedInv'
  BY <1>1, InvParts, RollbackFacts DEF StartedInv
<1>5. OneRollback'
  BY InvParts DEF OneRollback
<1>6. RollbacksAccountedFor'
  <2>1. \A k \in Keys : rows'[k].status = "SUCCEEDED" => Completed(k)'
    BY <1>1, InvParts DEF RollbacksAccountedFor, Completed
  <2>2. \A i \in DOMAIN rollbacks' :
          /\ Safe(rollbacks'[i].evidence)
          /\ rows'[rollbacks'[i].evidence.key].scope = RollbackScope(rollbacks'[i].evidence)
    BY <1>1, InvParts, RollbackFacts DEF RollbacksAccountedFor, SameScope
  <2> QED
    BY <2>1, <2>2 DEF RollbacksAccountedFor, SameScope
<1> QED
  BY <1>2, <1>3, <1>4, <1>5, <1>6

(* So every step of one responder that binds no row keeps the invariant.   *)
LEMMA ResponderInv ==
  ASSUME LedgerInv, NEW p \in Responders, UNCHANGED <<incident, edits, rollbacks>>,
         rows' \in [Keys -> RowTypes], events' \in [Keys -> SUBSET Events],
         NEW c \in {"idle", "assessed", "holding"},
         NEW e \in IncidentEvidence \cup {NoEvidence},
         NEW a \in IncidentDecision \cup {"none"}, NEW t \in ToldTypes,
         pc' = [pc EXCEPT ![p] = c], seen' = [seen EXCEPT ![p] = e],
         assessment' = [assessment EXCEPT ![p] = a], told' = [told EXCEPT ![p] = t],
         c = "holding" => pc[p] = "holding" /\ e = seen[p],
         c = "assessed" => e = incident /\ a = Classify(incident),
         ToldOK(t, rows', events'),
         \A k \in Keys : Kept(k) \/ Doubted(k) \/ Settled(k)
  PROVE  LedgerInv'
<1>1. TypeOK'
  BY InvParts, TypeParts
<1>2. /\ pc'[p] = c /\ seen'[p] = e /\ assessment'[p] = a /\ told'[p] = t
      /\ \A q \in Responders : q # p =>
           /\ pc'[q] = pc[q] /\ seen'[q] = seen[q]
           /\ assessment'[q] = assessment[q] /\ told'[q] = told[q]
  BY InvParts
<1>3. WorkInv'
  BY <1>2, InvParts DEF WorkInv
<1>4. AssessmentSound'
  BY <1>2, InvParts, ClassifyExact DEF AssessmentSound
<1>5. RowInv' /\ HolderInv' /\ StartedInv' /\ OneRollback' /\ RollbacksAccountedFor'
  BY <1>2, RowsKept
<1>6. ToldTruth' /\ ToldInv'
  BY <1>2, AnswersKept, ToldParts
<1>7. TrailTellsStatus'
  BY TrailKept
<1> QED
  BY <1>1, <1>3, <1>4, <1>5, <1>6, <1>7 DEF LedgerInv

LEMMA SilenceFacts ==
  Silence \in ToldTypes /\ ToldOK(Silence, rows', events')
BY DEF Silence, Told, ToldTypes, RollbackClaimStatus, ToldOK

LEMMA AssessInv ==
  ASSUME LedgerInv, NEW p \in Responders, Assess(p)
  PROVE  LedgerInv'
<1>1. /\ UNCHANGED <<incident, edits, rollbacks, rows, events>>
      /\ pc' = [pc EXCEPT ![p] = "assessed"] /\ seen' = [seen EXCEPT ![p] = incident]
      /\ assessment' = [assessment EXCEPT ![p] = Classify(incident)]
      /\ told' = [told EXCEPT ![p] = Silence]
  BY DEF Assess
<1>2. Classify(incident) \in IncidentDecision
  BY InvParts, ClassifyExact
<1>3. \A k \in Keys : Kept(k)
  BY <1>1 DEF Kept
<1> QED
  BY <1>1, <1>2, <1>3, InvParts, SilenceFacts, ResponderInv

LEMMA CrashInv ==
  ASSUME LedgerInv, NEW p \in Responders, Crash(p)
  PROVE  LedgerInv'
<1>1. /\ UNCHANGED <<incident, edits, rollbacks, rows, events>>
      /\ pc' = [pc EXCEPT ![p] = "idle"] /\ seen' = [seen EXCEPT ![p] = NoEvidence]
      /\ assessment' = [assessment EXCEPT ![p] = "none"]
      /\ told' = [told EXCEPT ![p] = Silence]
  BY DEF Crash
<1>2. \A k \in Keys : Kept(k)
  BY <1>1 DEF Kept
<1> QED
  BY <1>1, <1>2, InvParts, SilenceFacts, ResponderInv

(* A claim that gives the responder nothing.                               *)
LEMMA ClaimReturnsInv ==
  ASSUME LedgerInv, NEW p \in Responders, pc[p] = "assessed",
         NEW status \in RollbackClaimStatus, status # "CLAIMED_NEW",
         ClaimReturns(p, status),
         rows' \in [Keys -> RowTypes], events' \in [Keys -> SUBSET Events],
         ToldOK(Told(status, RollbackScope(seen[p])), rows', events'),
         \A k \in Keys : Kept(k) \/ Doubted(k) \/ Settled(k)
  PROVE  LedgerInv'
<1>1. Told(status, RollbackScope(seen[p])) \in ToldTypes
  BY InvParts, ScopeFacts DEF WorkInv, Told, ToldTypes
<1>2. /\ UNCHANGED <<incident, edits, rollbacks>>
      /\ pc' = [pc EXCEPT ![p] = "idle"] /\ seen' = [seen EXCEPT ![p] = NoEvidence]
      /\ assessment' = [assessment EXCEPT ![p] = "none"]
      /\ told' = [told EXCEPT ![p] = Told(status, RollbackScope(seen[p]))]
  BY DEF ClaimReturns
<1> QED
  BY <1>1, <1>2, ResponderInv

LEMMA DoubtFacts ==
  ASSUME LedgerInv, NEW k \in Keys, rows[k].status # "ABSENT", Doubt(k),
         NEW d \in {"ROLLBACK_CLAIM_UNCERTAIN_RECONCILE", "ROLLBACK_RECONCILE_REQUIRED"},
         Record(k, d), rows[k].status = "SUCCEEDED" => d = "ROLLBACK_RECONCILE_REQUIRED"
  PROVE  /\ rows' \in [Keys -> RowTypes] /\ events' \in [Keys -> SUBSET Events]
         /\ rows'[k] = [status |-> "RECONCILE_REQUIRED", scope |-> rows[k].scope]
         /\ \A l \in Keys : Kept(l) \/ Doubted(l) \/ Settled(l)
<1> DEFINE row == [status |-> "RECONCILE_REQUIRED", scope |-> rows[k].scope]
<1>1. rows' = [rows EXCEPT ![k] = row]
  BY DEF Doubt
<1>2. row \in RowTypes
  BY InvParts DEF RowTypes, Statuses
<1>3. events' = [events EXCEPT ![k] = events[k] \cup {d}] /\ d \in Events
  BY DEF Record, Events
<1>4. /\ rows'[k] = row /\ events'[k] = events[k] \cup {d}
      /\ \A l \in Keys : l # k => rows'[l] = rows[l] /\ events'[l] = events[l]
  BY <1>1, <1>3, InvParts
<1>5. /\ rows' \in [Keys -> RowTypes]
      /\ events' \in [Keys -> SUBSET Events]
  BY <1>1, <1>2, <1>3, InvParts
<1>6. Doubted(k) /\ \A l \in Keys : l # k => Kept(l)
  BY <1>4 DEF Doubted, Kept
<1> QED
  BY <1>4, <1>5, <1>6

LEMMA ClaimNewInv ==
  ASSUME LedgerInv, NEW p \in Responders, ClaimNew(p)
  PROVE  LedgerInv'
<1> DEFINE e == seen[p]
           k == seen[p].key
           s == RollbackScope(seen[p])
           row == [status |-> "CLAIMED", scope |-> s]
<1>1. /\ pc[p] = "assessed" /\ assessment[p] = "LOCAL_ROLLBACK_ALLOWED"
      /\ rows[k].status = "ABSENT" /\ rows' = [rows EXCEPT ![k] = row]
      /\ events' = [events EXCEPT ![k] = events[k] \cup {"ROLLBACK_CLAIMED"}]
      /\ UNCHANGED <<incident, edits, rollbacks, seen>>
      /\ pc' = [pc EXCEPT ![p] = "holding"]
      /\ assessment' = [assessment EXCEPT ![p] = "none"]
      /\ told' = [told EXCEPT ![p] = Told("CLAIMED_NEW", s)]
  BY DEF ClaimNew, ClaimOpens, Row, Bind, Record, ClaimReturns
<1>2. e \in IncidentEvidence /\ Safe(e) /\ k \in Keys /\ s \in Scopes /\ s.key = k
  BY <1>1, InvParts, ScopeFacts DEF WorkInv, AssessmentSound
<1>3. row \in RowTypes /\ Told("CLAIMED_NEW", s) \in ToldTypes
  BY <1>2 DEF RowTypes, Statuses, Told, ToldTypes, RollbackClaimStatus
<1>4. "ROLLBACK_CLAIMED" \in Events
  BY DEF Events
<1>5. /\ rows'[k] = row /\ events'[k] = events[k] \cup {"ROLLBACK_CLAIMED"}
      /\ \A l \in Keys : l # k => rows'[l] = rows[l] /\ events'[l] = events[l]
      /\ pc'[p] = "holding" /\ told'[p] = Told("CLAIMED_NEW", s)
      /\ assessment'[p] = "none"
      /\ \A q \in Responders : q # p =>
           pc'[q] = pc[q] /\ told'[q] = told[q] /\ assessment'[q] = assessment[q]
  BY <1>1, <1>2, InvParts
<1>6. row.status = "CLAIMED" /\ row.scope = s
  OBVIOUS
<1>7. TypeOK'
  <2>1. /\ rows' \in [Keys -> RowTypes] /\ events' \in [Keys -> SUBSET Events]
        /\ told' \in [Responders -> ToldTypes]
    BY <1>1, <1>3, <1>4, InvParts
  <2>2. /\ pc' \in [Responders -> {"idle", "assessed", "holding"}]
        /\ assessment' \in [Responders -> IncidentDecision \cup {"none"}]
    BY <1>1, InvParts
  <2> QED
    BY <1>1, <2>1, <2>2, InvParts, TypeParts
<1>8. \A q \in Responders : pc[q] = "holding" => seen[q].key \in Keys /\ seen[q].key # k
  BY <1>1, InvParts, ScopeFacts DEF HolderInv, WorkInv
<1>9. \A i \in DOMAIN rollbacks :
        rollbacks[i].evidence.key \in Keys /\ rollbacks[i].evidence.key # k
  BY <1>1, InvParts, RollbackFacts DEF StartedInv
<1> HIDE DEF e, k, s, row
<1>10. WorkInv' /\ AssessmentSound'
  BY <1>1, <1>2, <1>5, InvParts DEF WorkInv, AssessmentSound, e
<1>11. RowInv'
  BY <1>2, <1>5, <1>6, InvParts DEF RowInv
<1>12. HolderInv'
  <2> SUFFICES ASSUME NEW q \in Responders, pc'[q] = "holding"
               PROVE  /\ rows'[seen[q].key].status \in {"CLAIMED", "RECONCILE_REQUIRED"}
                      /\ rows'[seen[q].key].scope = RollbackScope(seen[q])
    BY <1>1 DEF HolderInv, SameScope
  <2>1. CASE q = p
    BY <1>5, <1>6, <2>1 DEF k, s
  <2>2. CASE q # p
    BY <1>5, <1>8, <2>2, InvParts DEF HolderInv, SameScope
  <2> QED
    BY <2>1, <2>2
<1>13. StartedInv' /\ OneRollback'
  <2>1. StartedInv'
    BY <1>1, <1>5, <1>9, InvParts DEF StartedInv
  <2>2. ASSUME NEW q \in Responders, NEW f \in Responders,
               pc'[q] = "holding", pc'[f] = "holding", seen[f].key = seen[q].key
        PROVE  f = q
    BY <1>5, <1>8, <2>2, InvParts DEF OneRollback, k
  <2>3. ASSUME NEW q \in Responders, pc'[q] = "holding", NEW i \in DOMAIN rollbacks
        PROVE  rollbacks[i].evidence.key # seen[q].key
    BY <1>5, <1>9, <2>3, InvParts DEF OneRollback, k
  <2>4. OneRollback'
    BY <1>1, <2>2, <2>3, InvParts DEF OneRollback
  <2> QED
    BY <2>1, <2>4
<1>14. RollbacksAccountedFor'
  <2>1. \A l \in Keys : rows'[l].status = "SUCCEEDED" => Completed(l)'
    BY <1>1, <1>5, <1>6, InvParts DEF RollbacksAccountedFor, Completed
  <2>2. \A i \in DOMAIN rollbacks :
          /\ Safe(rollbacks[i].evidence)
          /\ rows'[rollbacks[i].evidence.key].scope = RollbackScope(rollbacks[i].evidence)
    BY <1>5, <1>9, InvParts DEF RollbacksAccountedFor, SameScope
  <2> QED
    BY <1>1, <2>1, <2>2 DEF RollbacksAccountedFor, SameScope
<1>15. ToldTruth' /\ ToldInv'
  <2>1. ToldOK(told'[p], rows', events')
    BY <1>5 DEF Told, ToldOK
  <2>2. ASSUME NEW q \in Responders, q # p
        PROVE  ToldOK(told[q], rows', events')
    <3>1. ToldOK(told[q], rows, events)
      BY InvParts, ToldParts
    <3>2. CASE told[q].scope.key = k
      <4>1. rows[k].status # "RECONCILE_REQUIRED" /\ rows[k].status # "SUCCEEDED"
        BY <1>1 DEF k
      <4>2. events[k] = {}
        BY <1>1, <1>2, InvParts DEF TrailTellsStatus, StatusFromTrail, k
      <4> QED
        BY <3>1, <3>2, <4>1, <4>2 DEF ToldOK
    <3>3. CASE told[q].scope.key # k
      BY <1>5, <3>1, <3>3 DEF ToldOK
    <3> QED
      BY <3>2, <3>3
  <2> QED
    BY <1>5, <2>1, <2>2, ToldParts
<1>16. TrailTellsStatus'
  <2>1. events[k] = {}
    BY <1>1, <1>2, InvParts DEF TrailTellsStatus, StatusFromTrail, k
  <2>2. rows'[k].status = StatusFromTrail(events'[k])
    BY <1>5, <1>6, <2>1 DEF StatusFromTrail
  <2> QED
    BY <1>5, <2>2, InvParts DEF TrailTellsStatus
<1> QED
  BY <1>7, <1>10, <1>11, <1>12, <1>13, <1>14, <1>15, <1>16 DEF LedgerInv

LEMMA ClaimInv ==
  ASSUME LedgerInv, NEW p \in Responders, Claim(p)
  PROVE  LedgerInv'
<1> DEFINE k == seen[p].key
           s == RollbackScope(seen[p])
<1>1. pc[p] = "assessed"
  BY DEF Claim, ClaimDecisionBlocked, ClaimNew, ClaimConflict, ClaimNoop, ClaimUncertain,
         ClaimSticky, Found, ClaimOpens
<1>2. k \in Keys /\ s \in Scopes /\ s.key = k
  BY <1>1, InvParts, ScopeFacts DEF WorkInv
<1>3. UNCHANGED <<rows, events>> =>
        /\ rows' \in [Keys -> RowTypes] /\ events' \in [Keys -> SUBSET Events]
        /\ \A l \in Keys : Kept(l) \/ Doubted(l) \/ Settled(l)
  BY InvParts DEF Kept
<1>4. CASE ClaimNew(p)
  BY <1>4, ClaimNewInv
<1>5. CASE ClaimDecisionBlocked(p)
  <2>1. ToldOK(Told("DECISION_BLOCKED", s), rows', events')
    BY DEF ToldOK, Told
  <2> QED
    BY <1>1, <1>3, <1>5, <2>1, ClaimReturnsInv DEF ClaimDecisionBlocked, RollbackClaimStatus
<1>6. CASE ClaimConflict(p)
  <2>1. ToldOK(Told("SCOPE_CONFLICT_BLOCKED", s), rows', events')
    BY DEF ToldOK, Told
  <2> QED
    BY <1>1, <1>3, <1>6, <2>1, ClaimReturnsInv DEF ClaimConflict, RollbackClaimStatus
<1>7. CASE ClaimNoop(p)
  <2>1. ToldOK(Told("NOOP_ALREADY_SUCCEEDED", s), rows', events')
    BY <1>2, <1>7 DEF ClaimNoop, Found, Row, SameScope, ToldOK, Told
  <2> QED
    BY <1>1, <1>3, <1>7, <2>1, ClaimReturnsInv DEF ClaimNoop, RollbackClaimStatus
<1>8. CASE ClaimUncertain(p)
  <2>1. rows[k].status = "CLAIMED" /\ rows[k].scope = s
    BY <1>8 DEF ClaimUncertain, Found, Row, SameScope
  <2>2. /\ rows' \in [Keys -> RowTypes] /\ events' \in [Keys -> SUBSET Events]
        /\ rows'[k] = [status |-> "RECONCILE_REQUIRED", scope |-> rows[k].scope]
        /\ \A l \in Keys : Kept(l) \/ Doubted(l) \/ Settled(l)
    BY <1>2, <1>8, <2>1, DoubtFacts DEF ClaimUncertain
  <2>3. ToldOK(Told("RECONCILE_REQUIRED", s), rows', events')
    BY <1>2, <2>1, <2>2 DEF ToldOK, Told
  <2> QED
    BY <1>1, <1>8, <2>2, <2>3, ClaimReturnsInv DEF ClaimUncertain, RollbackClaimStatus
<1>9. CASE ClaimSticky(p)
  <2>1. rows[k].status = "RECONCILE_REQUIRED" /\ rows[k].scope = s /\ UNCHANGED rows
    BY <1>9 DEF ClaimSticky, Found, Row, SameScope
  <2>2. rows[k] = [status |-> "RECONCILE_REQUIRED", scope |-> s]
    <3>1. rows[k] \in RowTypes
      BY <1>2, InvParts
    <3> QED
      BY <2>1, <3>1 DEF RowTypes
  <2>3. ToldOK(Told("RECONCILE_REQUIRED", s), rows', events')
    BY <1>2, <2>1, <2>2 DEF ToldOK, Told
  <2> QED
    BY <1>1, <1>3, <1>9, <2>3, ClaimReturnsInv DEF ClaimSticky, RollbackClaimStatus
<1> QED
  BY <1>4, <1>5, <1>6, <1>7, <1>8, <1>9 DEF Claim

LEMMA PossibleScopeTypes ==
  ASSUME LedgerInv, NEW s \in PossibleScopes
  PROVE  s \in Scopes /\ s.key \in Keys
<1>1. RollbackScope(incident) \in Scopes
  BY InvParts, ScopeFacts
<1>2. ASSUME NEW k \in Keys, rows[k] # NoRow
      PROVE  rows[k].scope \in Scopes
  BY <1>2, InvParts DEF RowInv
<1> QED
  BY <1>1, <1>2, ScopeFacts DEF PossibleScopes

LEMMA MarkReturnsInv ==
  ASSUME LedgerInv, NEW p \in Responders, NEW status \in RollbackClaimStatus,
         NEW s \in Scopes, MarkReturns(p, status, s),
         rows' \in [Keys -> RowTypes], events' \in [Keys -> SUBSET Events],
         ToldOK(Told(status, s), rows', events'),
         \A k \in Keys : Kept(k) \/ Doubted(k) \/ Settled(k)
  PROVE  LedgerInv'
<1>1. Told(status, s) \in ToldTypes
  BY DEF Told, ToldTypes
<1>2. /\ pc[p] = "idle" /\ UNCHANGED <<incident, edits, rollbacks>>
      /\ pc' = [pc EXCEPT ![p] = "idle"] /\ seen' = [seen EXCEPT ![p] = seen[p]]
      /\ assessment' = [assessment EXCEPT ![p] = assessment[p]]
      /\ told' = [told EXCEPT ![p] = Told(status, s)]
      /\ seen[p] \in IncidentEvidence \cup {NoEvidence}
      /\ assessment[p] \in IncidentDecision \cup {"none"}
  BY InvParts DEF MarkReturns
<1> QED
  BY <1>1, <1>2, ResponderInv

LEMMA MarkInv ==
  ASSUME LedgerInv, NEW p \in Responders, NEW s \in PossibleScopes,
         \/ MarkConflict(p, s) \/ MarkNoop(p, s) \/ MarkBlocked(p, s)
         \/ MarkSucceeded(p, s) \/ MarkReconcileRequired(p, s)
  PROVE  LedgerInv'
<1> DEFINE k == s.key
<1>1. s \in Scopes /\ k \in Keys
  BY PossibleScopeTypes
<1>2. UNCHANGED <<rows, events>> =>
        /\ rows' \in [Keys -> RowTypes] /\ events' \in [Keys -> SUBSET Events]
        /\ \A l \in Keys : Kept(l) \/ Doubted(l) \/ Settled(l)
  BY InvParts DEF Kept
<1>3. CASE MarkConflict(p, s)
  <2>1. ToldOK(Told("SCOPE_CONFLICT_BLOCKED", s), rows', events')
    BY DEF ToldOK, Told
  <2> QED
    BY <1>1, <1>2, <1>3, <2>1, MarkReturnsInv DEF MarkConflict, RollbackClaimStatus
<1>4. CASE MarkNoop(p, s)
  <2>1. ToldOK(Told("NOOP_ALREADY_SUCCEEDED", s), rows', events')
    BY <1>1, <1>4 DEF MarkNoop, SameScope, ToldOK, Told
  <2> QED
    BY <1>1, <1>2, <1>4, <2>1, MarkReturnsInv DEF MarkNoop, RollbackClaimStatus
<1>5. CASE MarkBlocked(p, s)
  <2>1. rows[k] = [status |-> "RECONCILE_REQUIRED", scope |-> s] /\ UNCHANGED rows
    <3>1. rows[k] \in RowTypes
      BY <1>1, InvParts
    <3> QED
      BY <1>5, <3>1 DEF MarkBlocked, SameScope, RowTypes
  <2>2. ToldOK(Told("RECONCILE_REQUIRED", s), rows', events')
    BY <1>1, <2>1 DEF ToldOK, Told
  <2> QED
    BY <1>1, <1>2, <1>5, <2>2, MarkReturnsInv DEF MarkBlocked, RollbackClaimStatus
<1>6. CASE MarkReconcileRequired(p, s)
  <2>1. rows[k].scope = s /\ rows[k].status # "ABSENT"
    <3>1. rows[k].scope = s
      BY <1>6 DEF MarkReconcileRequired, SameScope
    <3>2. rows[k].status = "ABSENT" => rows[k].scope = NoScope
      BY <1>1, InvParts DEF RowInv, NoRow
    <3> QED
      BY <1>1, <3>1, <3>2, ScopeFacts
  <2>2. /\ rows' \in [Keys -> RowTypes] /\ events' \in [Keys -> SUBSET Events]
        /\ rows'[k] = [status |-> "RECONCILE_REQUIRED", scope |-> rows[k].scope]
        /\ \A l \in Keys : Kept(l) \/ Doubted(l) \/ Settled(l)
    BY <1>1, <1>6, <2>1, DoubtFacts DEF MarkReconcileRequired
  <2>3. ToldOK(Told("RECONCILE_REQUIRED", s), rows', events')
    BY <1>1, <2>1, <2>2 DEF ToldOK, Told
  <2> QED
    BY <1>1, <1>6, <2>2, <2>3, MarkReturnsInv DEF MarkReconcileRequired, RollbackClaimStatus
<1>7. CASE MarkSucceeded(p, s)
  <2> DEFINE row == [status |-> "SUCCEEDED", scope |-> rows[k].scope]
  <2>1. /\ Completed(k) /\ rows[k].scope = s /\ rows[k].status = "CLAIMED"
        /\ rows' = [rows EXCEPT ![k] = row]
        /\ events' = [events EXCEPT ![k] = events[k] \cup {"ROLLBACK_SUCCEEDED"}]
        /\ MarkReturns(p, "SUCCEEDED", s)
    BY <1>7 DEF MarkSucceeded, Succeed, Record, SameScope
  <2>2. row \in RowTypes /\ "ROLLBACK_SUCCEEDED" \in Events
    BY <1>1, <2>1 DEF RowTypes, Statuses, Events
  <2>3. /\ rows'[k] = row /\ events'[k] = events[k] \cup {"ROLLBACK_SUCCEEDED"}
        /\ \A l \in Keys : l # k => rows'[l] = rows[l] /\ events'[l] = events[l]
        /\ rows' \in [Keys -> RowTypes] /\ events' \in [Keys -> SUBSET Events]
    BY <1>1, <2>1, <2>2, InvParts
  <2>4. Settled(k) /\ \A l \in Keys : l # k => Kept(l)
    BY <2>1, <2>3 DEF Settled, Kept
  <2>5. ToldOK(Told("SUCCEEDED", s), rows', events')
    BY <1>1, <2>1, <2>3 DEF ToldOK, Told
  <2> QED
    BY <1>1, <2>1, <2>3, <2>4, <2>5, MarkReturnsInv DEF RollbackClaimStatus
<1> QED
  BY <1>3, <1>4, <1>5, <1>6, <1>7

-----------------------------------------------------------------------------
(* Rollbacks start and end                                                 *)

LEMMA StartInv ==
  ASSUME LedgerInv, NEW p \in Responders, Start(p)
  PROVE  LedgerInv'
<1> DEFINE e == seen[p]
           r == [evidence |-> e, outcome |-> "running"]
<1>1. /\ pc[p] = "holding" /\ UNCHANGED <<incident, edits, rows, events, assessment, told>>
      /\ pc' = [pc EXCEPT ![p] = "idle"] /\ seen' = [seen EXCEPT ![p] = NoEvidence]
      /\ rollbacks' = Append(rollbacks, r)
  BY DEF Start
<1>2. e \in IncidentEvidence /\ Safe(e) /\ e.key \in Keys
  BY <1>1, InvParts, ScopeFacts DEF WorkInv
<1>3. r \in Rollbacks /\ r.evidence = e /\ r.outcome = "running"
  BY <1>2 DEF Rollbacks
<1> HIDE DEF r
<1>4. /\ DOMAIN rollbacks' = DOMAIN rollbacks \cup {Len(rollbacks) + 1}
      /\ Len(rollbacks) + 1 \notin DOMAIN rollbacks
      /\ \A i \in DOMAIN rollbacks : rollbacks'[i] = rollbacks[i]
      /\ rollbacks'[Len(rollbacks) + 1] = r
      /\ rollbacks' \in Seq(Rollbacks)
  BY <1>1, <1>3, InvParts
<1>5. /\ pc'[p] = "idle"
      /\ \A q \in Responders : q # p => pc'[q] = pc[q] /\ seen'[q] = seen[q]
  BY <1>1, InvParts
<1>6. TypeOK'
  <2>1. /\ pc' \in [Responders -> {"idle", "assessed", "holding"}]
        /\ seen' \in [Responders -> IncidentEvidence \cup {NoEvidence}]
    BY <1>1, InvParts
  <2> QED
    BY <1>1, <1>4, <2>1, InvParts, TypeParts
<1>7. WorkInv' /\ AssessmentSound' /\ HolderInv'
  BY <1>1, <1>5, InvParts DEF WorkInv, AssessmentSound, HolderInv, SameScope
<1>8. RowInv' /\ ToldTruth' /\ ToldInv' /\ TrailTellsStatus'
  BY <1>1, InvParts DEF RowInv, ToldTruth, ToldInv, TrailTellsStatus
<1>9. StartedInv'
  <2>1. rows[e.key].status # "ABSENT"
    BY <1>1, InvParts DEF HolderInv
  <2> QED
    BY <1>1, <1>3, <1>4, <2>1, InvParts DEF StartedInv
<1>10. OneRollback'
  <2>1. \A q \in Responders : pc'[q] = "holding" => q # p /\ seen[q].key # e.key
    BY <1>1, <1>5, InvParts DEF OneRollback
  <2>2. \A i \in DOMAIN rollbacks : rollbacks[i].evidence.key # e.key
    BY <1>1, InvParts DEF OneRollback
  <2>3. ASSUME NEW q \in Responders, pc'[q] = "holding"
        PROVE  /\ \A f \in Responders :
                    pc'[f] = "holding" /\ seen'[f].key = seen'[q].key => f = q
               /\ \A i \in DOMAIN rollbacks' : rollbacks'[i].evidence.key # seen'[q].key
    <3>1. q # p /\ pc[q] = "holding" /\ seen'[q] = seen[q] /\ seen[q].key # e.key
      BY <1>5, <2>1, <2>3
    <3>2. \A f \in Responders :
            pc'[f] = "holding" /\ seen'[f].key = seen'[q].key => f = q
      BY <1>5, <2>1, <3>1, InvParts DEF OneRollback
    <3>3. \A i \in DOMAIN rollbacks' : rollbacks'[i].evidence.key # seen'[q].key
      BY <1>3, <1>4, <3>1, InvParts DEF OneRollback
    <3> QED
      BY <3>2, <3>3
  <2>4. \A i, j \in DOMAIN rollbacks' :
          rollbacks'[i].evidence.key = rollbacks'[j].evidence.key => i = j
    BY <1>3, <1>4, <2>2, InvParts DEF OneRollback
  <2> QED
    BY <2>3, <2>4 DEF OneRollback
<1>11. RollbacksAccountedFor'
  <2>1. rows[e.key].scope = RollbackScope(e)
    BY <1>1, InvParts DEF HolderInv, SameScope
  <2>2. \A i \in DOMAIN rollbacks' :
          /\ Safe(rollbacks'[i].evidence)
          /\ rows[rollbacks'[i].evidence.key].scope = RollbackScope(rollbacks'[i].evidence)
    BY <1>2, <1>3, <1>4, <2>1, InvParts DEF RollbacksAccountedFor, SameScope
  <2>3. \A k \in Keys : Completed(k) => Completed(k)'
    BY <1>4 DEF Completed
  <2> QED
    BY <1>1, <2>2, <2>3, InvParts DEF RollbacksAccountedFor, SameScope
<1> QED
  BY <1>6, <1>7, <1>8, <1>9, <1>10, <1>11 DEF LedgerInv

(* The end of a rollback changes no evidence, and completes at most it.    *)
LEMMA EndFacts ==
  ASSUME LedgerInv, NEW i \in DOMAIN rollbacks, NEW outcome \in {"completed", "failed"},
         End(i, outcome)
  PROVE  /\ rollbacks' \in Seq(Rollbacks) /\ DOMAIN rollbacks' = DOMAIN rollbacks
         /\ \A j \in DOMAIN rollbacks : rollbacks'[j].evidence = rollbacks[j].evidence
         /\ \A j \in DOMAIN rollbacks : j # i => rollbacks'[j] = rollbacks[j]
         /\ rollbacks[i].outcome = "running" /\ rollbacks'[i].outcome = outcome
         /\ UNCHANGED <<incident, edits, rows, events, responderVars>>
<1> DEFINE r == [evidence |-> rollbacks[i].evidence, outcome |-> outcome]
<1>1. /\ rollbacks' = [rollbacks EXCEPT ![i] = r] /\ rollbacks[i].outcome = "running"
      /\ UNCHANGED <<incident, edits, rows, events, responderVars>>
  BY DEF End
<1>2. r \in Rollbacks /\ r.evidence = rollbacks[i].evidence /\ r.outcome = outcome
  BY RollbackFacts DEF Rollbacks
<1> HIDE DEF r
<1> QED
  BY <1>1, <1>2, InvParts

LEMMA EndInv ==
  ASSUME LedgerInv, NEW i \in DOMAIN rollbacks, NEW outcome \in {"completed", "failed"},
         End(i, outcome)
  PROVE  LedgerInv'
<1>1. /\ rollbacks' \in Seq(Rollbacks) /\ DOMAIN rollbacks' = DOMAIN rollbacks
      /\ \A j \in DOMAIN rollbacks : rollbacks'[j].evidence = rollbacks[j].evidence
      /\ UNCHANGED <<incident, edits, rows, events, pc, seen, assessment, told>>
  BY EndFacts DEF responderVars
<1>2. TypeOK'
  BY <1>1, InvParts, TypeParts
<1>3. WorkInv' /\ AssessmentSound' /\ RowInv' /\ HolderInv'
  BY <1>1, InvParts DEF WorkInv, AssessmentSound, RowInv, HolderInv, SameScope
<1>4. StartedInv' /\ OneRollback'
  BY <1>1, InvParts DEF StartedInv, OneRollback
<1>5. ToldTruth' /\ ToldInv' /\ TrailTellsStatus'
  BY <1>1, InvParts DEF ToldTruth, ToldInv, TrailTellsStatus
<1>6. RollbacksAccountedFor'
  <2>1. \A k \in Keys : Completed(k) => Completed(k)'
    BY <1>1, EndFacts DEF Completed
  <2> QED
    BY <1>1, <2>1, InvParts DEF RollbacksAccountedFor, SameScope
<1> QED
  BY <1>2, <1>3, <1>4, <1>5, <1>6 DEF LedgerInv

LEMMA ReviseInv ==
  ASSUME LedgerInv, Revise
  PROVE  LedgerInv'
<1>1. TypeOK'
  <2>1. edits' \in 0 .. MaxEdits /\ incident' \in IncidentEvidence
    BY InvParts, RollbackAssumption DEF Revise
  <2>2. UNCHANGED <<rows, events, pc, seen, assessment, told, rollbacks>>
    BY DEF Revise, responderVars
  <2> QED
    BY <2>1, <2>2, InvParts, TypeParts
<1> QED
  BY <1>1, QuietInv DEF Revise

-----------------------------------------------------------------------------
(* Theorems                                                                *)

(* The inductive invariant: claims are exclusive, a holder's evidence is   *)
(* safe, rows remember their scope, and rows and trails move together.     *)
THEOREM LedgerInvariant == Spec => []LedgerInv
<1>1. LedgerInv /\ [Next]_vars => LedgerInv'
  <2> SUFFICES ASSUME LedgerInv, [Next]_vars
               PROVE  LedgerInv'
    OBVIOUS
  <2>1. CASE Revise
    BY <2>1, ReviseInv
  <2>2. ASSUME NEW p \in Responders, Assess(p) \/ Claim(p) \/ Start(p) \/ Crash(p) \/ Mark(p)
        PROVE  LedgerInv'
    BY <2>2, AssessInv, ClaimInv, StartInv, CrashInv, MarkInv DEF Mark
  <2>3. ASSUME NEW i \in DOMAIN rollbacks, End(i, "completed") \/ End(i, "failed")
        PROVE  LedgerInv'
    BY <2>3, EndInv
  <2>4. CASE UNCHANGED vars
    <3>1. TypeOK'
      BY <2>4, InvParts, TypeParts DEF vars, responderVars
    <3> QED
      BY <2>4, <3>1, QuietInv DEF vars
  <2> QED
    BY <2>1, <2>2, <2>3, <2>4 DEF Next
<1> QED
  BY <1>1, InitInv, PTL DEF Spec

(* The decision a claim rests on is exactly what the evidence justifies.   *)
THEOREM AssessmentIsSound == Spec => []AssessmentSound
<1>1. LedgerInv => AssessmentSound
  BY DEF LedgerInv
<1> QED
  BY <1>1, LedgerInvariant, PTL

(* A rollback is started at most once, over any crashes and late results.  *)
THEOREM RollbackIsStartedOnce == Spec => []OneRollback
<1>1. LedgerInv => OneRollback
  BY DEF LedgerInv
<1> QED
  BY <1>1, LedgerInvariant, PTL

(* Every rollback was safe and claimed; every success was carried out.     *)
THEOREM RollbacksAreAccountedFor == Spec => []RollbacksAccountedFor
<1>1. LedgerInv => RollbacksAccountedFor
  BY DEF LedgerInv
<1> QED
  BY <1>1, LedgerInvariant, PTL

(* What a responder was told of a rollback stays true.                     *)
THEOREM AnswersStayTrue == Spec => []ToldTruth
<1>1. LedgerInv => ToldTruth
  BY DEF LedgerInv
<1> QED
  BY <1>1, LedgerInvariant, PTL

(* The audit trail alone tells the status of every row.                    *)
THEOREM TrailIsTrue == Spec => []TrailTellsStatus
<1>1. LedgerInv => TrailTellsStatus
  BY DEF LedgerInv
<1> QED
  BY <1>1, LedgerInvariant, PTL

-----------------------------------------------------------------------------
(* The ledger implements RollbackOnce.                                     *)

(* The abstract state, rollback by rollback.                               *)
LEMMA Bars ==
  ASSUME LedgerInv
  PROVE  /\ \A k \in Keys :
              /\ rows[k].status = "ABSENT" <=> phaseBar[k] = "free"
              /\ rows[k].status = "CLAIMED" <=> phaseBar[k] = "taken"
              /\ rows[k].status = "SUCCEEDED" <=> phaseBar[k] = "done"
              /\ rows[k].status = "RECONCILE_REQUIRED" <=> phaseBar[k] = "doubtful"
         /\ DOMAIN phaseBar = Keys /\ DOMAIN scopeBar = Keys
<1>1. \A k \in Keys : rows[k].status \in Statuses
  BY InvParts DEF RowTypes
<1> QED
  BY <1>1 DEF phaseBar, scopeBar, Statuses, Phase

LEMMA HiddenStep ==
  ASSUME UNCHANGED <<rows, rollbacks>>
  PROVE  UNCHANGED <<phaseBar, scopeBar, startedBar, finishedBar>>
BY DEF phaseBar, scopeBar, startedBar, finishedBar, Completed

LEMMA TakeStep ==
  ASSUME LedgerInv, NEW p \in Responders, ClaimNew(p)
  PROVE  \E k \in Keys, s \in Scopes : RO!Take(k, s)
<1> DEFINE k == seen[p].key
           s == RollbackScope(seen[p])
<1>1. /\ pc[p] = "assessed" /\ rows[k].status = "ABSENT" /\ UNCHANGED rollbacks
      /\ rows' = [rows EXCEPT ![k] = [status |-> "CLAIMED", scope |-> s]]
  BY DEF ClaimNew, ClaimOpens, Row, Bind, ClaimReturns
<1>2. k \in Keys /\ s \in Scopes
  BY <1>1, InvParts, ScopeFacts DEF WorkInv
<1>3. /\ rows'[k].status = "CLAIMED" /\ rows'[k].scope = s
      /\ \A l \in Keys : l # k => rows'[l] = rows[l]
  BY <1>1, <1>2, InvParts
<1> HIDE DEF k, s
<1>4. phaseBar[k] = "free"
  BY <1>1, <1>2, Bars DEF k
<1>5. phaseBar' = [phaseBar EXCEPT ![k] = "taken"]
  BY <1>2, <1>3 DEF phaseBar, Phase
<1>6. scopeBar' = [scopeBar EXCEPT ![k] = s]
  BY <1>2, <1>3 DEF scopeBar
<1>7. UNCHANGED <<startedBar, finishedBar>>
  BY <1>1 DEF startedBar, finishedBar, Completed
<1> QED
  BY <1>2, <1>4, <1>5, <1>6, <1>7 DEF RO!Take

LEMMA DoubtStep ==
  ASSUME LedgerInv, NEW k \in Keys, rows[k].status # "ABSENT", Doubt(k),
         UNCHANGED rollbacks
  PROVE  RO!Doubt(k) \/ UNCHANGED <<phaseBar, scopeBar, startedBar, finishedBar>>
<1>1. /\ rows'[k].status = "RECONCILE_REQUIRED" /\ rows'[k].scope = rows[k].scope
      /\ \A l \in Keys : l # k => rows'[l] = rows[l]
  BY InvParts DEF Doubt
<1>2. UNCHANGED <<scopeBar, startedBar, finishedBar>>
  BY <1>1 DEF scopeBar, startedBar, finishedBar, Completed
<1>3. phaseBar' = [phaseBar EXCEPT ![k] = "doubtful"]
  BY <1>1 DEF phaseBar, Phase
<1>4. CASE rows[k].status = "RECONCILE_REQUIRED"
  <2>1. UNCHANGED phaseBar
    BY <1>1, <1>4 DEF phaseBar, Phase
  <2> QED
    BY <1>2, <2>1
<1>5. CASE rows[k].status # "RECONCILE_REQUIRED"
  <2>1. phaseBar[k] \in {"taken", "done"}
    <3>1. rows[k].status \in Statuses
      BY InvParts DEF RowTypes
    <3> QED
      BY <1>5, <3>1, Bars DEF Statuses
  <2> QED
    BY <1>2, <1>3, <2>1 DEF RO!Doubt
<1> QED
  BY <1>4, <1>5

LEMMA ConcludeStep ==
  ASSUME LedgerInv, NEW p \in Responders, NEW s \in PossibleScopes, MarkSucceeded(p, s)
  PROVE  RO!Conclude(s.key)
<1> DEFINE k == s.key
<1>1. k \in Keys /\ Completed(k) /\ rows[k].status = "CLAIMED"
  BY PossibleScopeTypes DEF MarkSucceeded
<1>2. /\ rows'[k].status = "SUCCEEDED" /\ rows'[k].scope = rows[k].scope
      /\ \A l \in Keys : l # k => rows'[l] = rows[l]
      /\ UNCHANGED rollbacks
  BY <1>1, InvParts DEF MarkSucceeded, Succeed, MarkReturns
<1>3. phaseBar[k] = "taken" /\ k \in finishedBar
  <2>1. phaseBar[k] = "taken"
    BY <1>1, Bars
  <2> QED
    BY <1>1, <2>1 DEF finishedBar
<1>4. phaseBar' = [phaseBar EXCEPT ![k] = "done"]
  BY <1>1, <1>2 DEF phaseBar, Phase
<1>5. UNCHANGED <<scopeBar, startedBar, finishedBar>>
  BY <1>1, <1>2 DEF scopeBar, startedBar, finishedBar, Completed
<1> QED
  BY <1>3, <1>4, <1>5 DEF RO!Conclude

LEMMA StartStep ==
  ASSUME LedgerInv, NEW p \in Responders, Start(p)
  PROVE  \E k \in Keys : RO!Start(k)
<1> DEFINE k == seen[p].key
           r == [evidence |-> seen[p], outcome |-> "running"]
<1>1. pc[p] = "holding" /\ rollbacks' = Append(rollbacks, r) /\ UNCHANGED rows
  BY DEF Start
<1>2. k \in Keys /\ r \in Rollbacks
  BY <1>1, InvParts, ScopeFacts DEF WorkInv, Rollbacks
<1>3. r.evidence.key = k /\ r.outcome = "running"
  OBVIOUS
<1>4. /\ rows[k].status \in {"CLAIMED", "RECONCILE_REQUIRED"}
      /\ \A i \in DOMAIN rollbacks : rollbacks[i].evidence.key # k
  BY <1>1, InvParts DEF HolderInv, OneRollback
<1> HIDE DEF k, r
<1>5. /\ DOMAIN rollbacks' = DOMAIN rollbacks \cup {Len(rollbacks) + 1}
      /\ \A i \in DOMAIN rollbacks : rollbacks'[i] = rollbacks[i]
      /\ rollbacks'[Len(rollbacks) + 1] = r
  BY <1>1, <1>2, InvParts
<1>6. phaseBar[k] \in {"taken", "doubtful"}
  BY <1>2, <1>4, Bars
<1>7. k \notin startedBar /\ startedBar' = startedBar \cup {k}
  BY <1>3, <1>4, <1>5 DEF startedBar
<1>8. UNCHANGED <<phaseBar, scopeBar, finishedBar>>
  <2>1. \A l \in Keys : Completed(l)' <=> Completed(l)
    BY <1>3, <1>5 DEF Completed
  <2> QED
    BY <1>1, <2>1 DEF phaseBar, scopeBar, finishedBar
<1> QED
  BY <1>2, <1>6, <1>7, <1>8 DEF RO!Start

LEMMA EndStep ==
  ASSUME LedgerInv, NEW i \in DOMAIN rollbacks, NEW outcome \in {"completed", "failed"},
         End(i, outcome)
  PROVE  \/ \E k \in Keys : RO!Finish(k)
         \/ UNCHANGED <<phaseBar, scopeBar, startedBar, finishedBar>>
<1> DEFINE k == rollbacks[i].evidence.key
<1>1. /\ DOMAIN rollbacks' = DOMAIN rollbacks /\ UNCHANGED rows
      /\ \A j \in DOMAIN rollbacks : rollbacks'[j].evidence = rollbacks[j].evidence
      /\ \A j \in DOMAIN rollbacks : j # i => rollbacks'[j] = rollbacks[j]
      /\ rollbacks[i].outcome = "running" /\ rollbacks'[i].outcome = outcome
  BY EndFacts
<1>2. k \in Keys
  BY RollbackFacts
<1>3. UNCHANGED <<phaseBar, scopeBar, startedBar>>
  BY <1>1 DEF phaseBar, scopeBar, startedBar
<1>4. CASE outcome = "completed"
  <2>1. finishedBar' = finishedBar \cup {k}
    <3>1. \A l \in Keys : Completed(l)' <=> Completed(l) \/ l = k
      BY <1>1, <1>4 DEF Completed
    <3> QED
      BY <1>2, <3>1 DEF finishedBar
  <2>2. k \in startedBar
    BY DEF startedBar
  <2> QED
    BY <1>2, <1>3, <2>1, <2>2 DEF RO!Finish
<1>5. CASE outcome = "failed"
  <2>1. \A l \in Keys : Completed(l)' <=> Completed(l)
    BY <1>1, <1>5 DEF Completed
  <2> QED
    BY <1>3, <2>1 DEF finishedBar
<1> QED
  BY <1>4, <1>5

(* Every behaviour of the ledger is one of RollbackOnce.                   *)
THEOREM LedgerImplementsRollbackOnce == Spec => ImplementsRollbackOnce
<1>1. Init => RO!Init
  <2> SUFFICES ASSUME Init PROVE RO!Init
    OBVIOUS
  <2>1. phaseBar = [k \in Keys |-> "free"]
    BY DEF Init, phaseBar, Phase, NoRow
  <2>2. scopeBar = [k \in Keys |-> RO!NoScope]
    BY DEF Init, scopeBar, NoRow, NoScope, RO!NoScope
  <2>3. startedBar = {} /\ finishedBar = {}
    BY DEF Init, startedBar, finishedBar, Completed
  <2> QED
    BY <2>1, <2>2, <2>3 DEF RO!Init
<1>2. LedgerInv /\ [Next]_vars => [RO!Next]_RO!roVars
  <2> SUFFICES ASSUME LedgerInv, [Next]_vars
               PROVE  RO!Next \/ UNCHANGED <<phaseBar, scopeBar, startedBar, finishedBar>>
    BY DEF RO!roVars
  <2>1. CASE UNCHANGED <<rows, rollbacks>>
    BY <2>1, HiddenStep
  <2>2. ASSUME NEW p \in Responders, Claim(p)
        PROVE  \/ UNCHANGED <<rows, rollbacks>> \/ ClaimNew(p)
               \/ \E k \in Keys :
                    rows[k].status # "ABSENT" /\ Doubt(k) /\ UNCHANGED rollbacks
    <3>1. CASE ClaimUncertain(p)
      <4>1. seen[p].key \in Keys
        BY <3>1, InvParts, ScopeFacts DEF ClaimUncertain, Found, ClaimOpens, WorkInv
      <4> QED
        BY <3>1, <4>1 DEF ClaimUncertain, Found, Row, ClaimReturns
    <3> QED
      BY <2>2, <3>1 DEF Claim, ClaimDecisionBlocked, ClaimConflict, ClaimNoop, ClaimSticky,
                        ClaimReturns
  <2>3. ASSUME NEW p \in Responders, NEW s \in PossibleScopes,
               \/ MarkConflict(p, s) \/ MarkNoop(p, s) \/ MarkBlocked(p, s)
               \/ MarkReconcileRequired(p, s)
        PROVE  \/ UNCHANGED <<rows, rollbacks>>
               \/ \E k \in Keys :
                    rows[k].status # "ABSENT" /\ Doubt(k) /\ UNCHANGED rollbacks
    <3>1. CASE MarkReconcileRequired(p, s)
      <4>1. rows[s.key].scope = s /\ s.key \in Keys /\ s \in Scopes
        BY <3>1, PossibleScopeTypes DEF MarkReconcileRequired, SameScope
      <4>2. rows[s.key].status # "ABSENT"
        BY <4>1, InvParts, ScopeFacts DEF RowInv, NoRow
      <4> QED
        BY <3>1, <4>1, <4>2 DEF MarkReconcileRequired, MarkReturns
    <3> QED
      BY <2>3, <3>1 DEF MarkConflict, MarkNoop, MarkBlocked, MarkReturns
  <2>4. ASSUME NEW p \in Responders, NEW s \in PossibleScopes, MarkSucceeded(p, s)
        PROVE  RO!Next
    BY <2>4, ConcludeStep, PossibleScopeTypes DEF RO!Next
  <2>5. ASSUME NEW k \in Keys, rows[k].status # "ABSENT", Doubt(k), UNCHANGED rollbacks
        PROVE  RO!Next \/ UNCHANGED <<phaseBar, scopeBar, startedBar, finishedBar>>
    BY <2>5, DoubtStep DEF RO!Next
  <2>6. ASSUME NEW p \in Responders, Mark(p)
        PROVE  RO!Next \/ UNCHANGED <<phaseBar, scopeBar, startedBar, finishedBar>>
    BY <2>1, <2>3, <2>4, <2>5, <2>6 DEF Mark
  <2>7. ASSUME NEW p \in Responders, Claim(p)
        PROVE  RO!Next \/ UNCHANGED <<phaseBar, scopeBar, startedBar, finishedBar>>
    BY <2>1, <2>2, <2>5, <2>7, TakeStep DEF RO!Next
  <2>8. ASSUME NEW p \in Responders, Start(p)
        PROVE  RO!Next
    BY <2>8, StartStep DEF RO!Next
  <2>9. ASSUME NEW i \in DOMAIN rollbacks, End(i, "completed") \/ End(i, "failed")
        PROVE  RO!Next \/ UNCHANGED <<phaseBar, scopeBar, startedBar, finishedBar>>
    BY <2>9, EndStep DEF RO!Next
  <2>10. CASE Revise \/ (\E p \in Responders : Assess(p) \/ Crash(p)) \/ UNCHANGED vars
    <3>1. UNCHANGED <<rows, rollbacks>>
      BY <2>10 DEF Revise, Assess, Crash, vars
    <3> QED
      BY <3>1, HiddenStep
  <2> QED
    BY <2>6, <2>7, <2>8, <2>9, <2>10 DEF Next
<1> QED
  BY <1>1, <1>2, LedgerInvariant, PTL DEF Spec, RO!Spec, ImplementsRollbackOnce
=============================================================================
