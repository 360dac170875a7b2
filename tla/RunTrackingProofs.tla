------------------------- MODULE RunTrackingProofs -------------------------
(***************************************************************************)
(* Theorems about RunTracking, for any work, any window, skew and age, any *)
(* drift of GitHub's clock and any number of steps.                        *)
(***************************************************************************)
EXTENDS RunTracking, WellFoundedInduction, TLAPS

(* A nonempty set of naturals has a least member.                          *)
LEMMA LeastNatural ==
  ASSUME NEW S \in SUBSET Nat, S # {}
  PROVE  \E i \in S : \A j \in S : i <= j
<1> DEFINE R == {ss \in Nat \X Nat : ss[1] < ss[2]}
<1>1. IsWellFoundedOn(R, Nat)
  BY NatLessThanWellFounded DEF OpToRel
<1>2. PICK i \in S : \A j \in S : ~(<<j, i>> \in R)
  <2> HIDE DEF R
  <2> QED
    BY <1>1, WFMin, Zenon
<1>3. \A j \in S : ~(j < i)
  BY <1>2
<1> QED
  BY <1>2, <1>3

(* Of some gates either none fires, or one fires and none before it.       *)
LEMMA FirstDecides ==
  ASSUME NEW n \in Nat, NEW gates, DOMAIN gates = 1 .. n, NEW otherwise
  PROVE  \/ /\ FirstOf(gates, otherwise) = otherwise
            /\ \A i \in 1 .. n : ~gates[i].fires
         \/ \E i \in 1 .. n :
              /\ gates[i].fires /\ FirstOf(gates, otherwise) = gates[i].outcome
              /\ \A j \in 1 .. n : j < i => ~gates[j].fires
<1> DEFINE fired == {i \in DOMAIN gates : gates[i].fires}
           first == CHOOSE i \in fired : \A j \in fired : i <= j
<1>1. FirstOf(gates, otherwise) = IF fired = {} THEN otherwise ELSE gates[first].outcome
  BY DEF FirstOf
<1>2. CASE fired = {}
  BY <1>1, <1>2
<1>3. CASE fired # {}
  <2>1. \E i \in fired : \A j \in fired : i <= j
    <3>1. fired \in SUBSET Nat
      OBVIOUS
    <3> HIDE DEF fired
    <3> QED
      BY <1>3, <3>1, LeastNatural
  <2>2. first \in fired /\ \A j \in fired : first <= j
    BY <2>1, Zenon
  <2> QED
    BY <1>1, <1>3, <2>2
<1> QED
  BY <1>2, <1>3

-----------------------------------------------------------------------------
(* The verdicts on observations                                            *)

(* The observations that Verify judges: the last ones of the right run.    *)
Exactly(rcpt, obs) == {o \in obs : o.run = rcpt.run /\ o.token = rcpt.token /\ o.fresh}

Last(os) == {o \in os : \A p \in os : p.observed <= o.observed}

(* What the answers of Verify that are not refusals tell.                  *)
LEMMA VerifyTells ==
  ASSUME NEW rcpt, NEW obs, NEW asOf, NEW gated
  PROVE  LET v == Verify(rcpt, obs, asOf, gated)
             last == Last(Exactly(rcpt, obs)) IN
         /\ v \in DOMAIN RunAnswer
         /\ v = "EXACT_ACTIVE_FRESH" =>
              \E o \in last : o.state \in Active /\ ~HeartbeatStale(o, asOf)
         /\ v = "EXACT_SUCCEEDED" => \E o \in last : o.state = "SUCCEEDED"
         /\ v = "EXACT_FAILED" =>
              /\ Exactly(rcpt, obs) # {}
              /\ \A o \in last : o.state \notin Active \cup {"SUCCEEDED"}
<1> DEFINE v == Verify(rcpt, obs, asOf, gated)
           exact == {o \in obs : o.run = rcpt.run /\ o.token = rcpt.token}
           fresh == {o \in exact : o.fresh}
           latest == {o \in fresh : \A p \in fresh : p.observed <= o.observed}
           gates ==
  <<Gate(gated, "OWNER_GATE_BLOCKED"),
    Gate(obs = {}, "SOURCE_BLOCKED"),
    Gate(fresh = {} /\ exact # {}, "SOURCE_BLOCKED"),
    Gate(fresh = {}, "IDENTITY_BLOCKED"),
    Gate(\E o, p \in latest : o.state # p.state, "CONFLICT_BLOCKED"),
    Gate(\E o \in latest : o.observed > asOf + Skew, "TEMPORAL_BLOCKED"),
    Gate(\E o \in latest : o.created < rcpt.dispatched - Skew, "TEMPORAL_BLOCKED"),
    Gate(\E o \in latest : o.created > o.observed + Skew, "TEMPORAL_BLOCKED"),
    Gate(\E o \in latest : o.updated \notin o.created - Skew .. o.observed + Skew, "TEMPORAL_BLOCKED"),
    Gate(\E o \in latest : o.state \in Active /\ HeartbeatStale(o, asOf), "HEARTBEAT_STALE"),
    Gate(\E o \in latest : o.updated > asOf + Skew, "TEMPORAL_BLOCKED"),
    Gate(\E o \in latest : o.state \in Active, "EXACT_ACTIVE_FRESH"),
    Gate(\E o \in latest : o.state = "SUCCEEDED", "EXACT_SUCCEEDED")>>
<1>1. v = FirstOf(gates, "EXACT_FAILED")
  BY Zenon DEF Verify
<1>2. DOMAIN gates = 1 .. 13
  OBVIOUS
<1>3. /\ gates[1].outcome = "OWNER_GATE_BLOCKED"
      /\ gates[2].outcome = "SOURCE_BLOCKED" /\ gates[3].outcome = "SOURCE_BLOCKED"
      /\ gates[4].outcome = "IDENTITY_BLOCKED" /\ gates[5].outcome = "CONFLICT_BLOCKED"
      /\ gates[6].outcome = "TEMPORAL_BLOCKED" /\ gates[7].outcome = "TEMPORAL_BLOCKED"
      /\ gates[8].outcome = "TEMPORAL_BLOCKED" /\ gates[9].outcome = "TEMPORAL_BLOCKED"
      /\ gates[10].outcome = "HEARTBEAT_STALE" /\ gates[11].outcome = "TEMPORAL_BLOCKED"
      /\ gates[12].outcome = "EXACT_ACTIVE_FRESH" /\ gates[13].outcome = "EXACT_SUCCEEDED"
  BY Zenon DEF Gate
<1>4. /\ gates[4].fires <=> fresh = {}
      /\ gates[10].fires <=> \E o \in latest : o.state \in Active /\ HeartbeatStale(o, asOf)
      /\ gates[12].fires <=> \E o \in latest : o.state \in Active
      /\ gates[13].fires <=> \E o \in latest : o.state = "SUCCEEDED"
  BY Zenon DEF Gate
<1>5. fresh = Exactly(rcpt, obs) /\ latest = Last(Exactly(rcpt, obs))
  BY DEF Exactly, Last
<1> HIDE DEF gates, v, exact, fresh, latest
<1>6. \/ v = "EXACT_FAILED" /\ \A i \in 1 .. 13 : ~gates[i].fires
      \/ \E i \in 1 .. 13 : /\ gates[i].fires /\ v = gates[i].outcome
                            /\ \A j \in 1 .. 13 : j < i => ~gates[j].fires
  BY <1>1, <1>2, FirstDecides
<1>7. \A i \in 1 .. 13 :
        /\ gates[i].outcome \in DOMAIN RunAnswer
        /\ gates[i].outcome = "EXACT_ACTIVE_FRESH" => i = 12
        /\ gates[i].outcome = "EXACT_SUCCEEDED" => i = 13
        /\ gates[i].outcome # "EXACT_FAILED"
  BY <1>3 DEF RunAnswer
<1>8. v \in DOMAIN RunAnswer
  BY <1>6, <1>7 DEF RunAnswer
<1>9. CASE v = "EXACT_ACTIVE_FRESH"
  <2>1. gates[12].fires /\ ~gates[10].fires
    BY <1>6, <1>7, <1>9
  <2> QED
    BY <1>4, <1>5, <1>8, <1>9, <2>1 DEF v
<1>10. CASE v = "EXACT_SUCCEEDED"
  <2>1. gates[13].fires
    BY <1>6, <1>7, <1>10
  <2> QED
    BY <1>4, <1>5, <1>8, <1>10, <2>1 DEF v
<1>11. CASE v = "EXACT_FAILED"
  <2>1. ~gates[4].fires /\ ~gates[12].fires /\ ~gates[13].fires
    BY <1>6, <1>7, <1>11
  <2> QED
    BY <1>4, <1>5, <1>8, <1>11, <2>1 DEF v
<1> QED
  BY <1>8, <1>9, <1>10, <1>11 DEF v

(* What an adapter's readiness tells of the rows it was given.             *)
LEMMA AdapterTells ==
  ASSUME NEW intent, NEW rows, NEW fetched, NEW asOf, NEW error,
         AdapterStatus(intent, rows, fetched, asOf, error) = "OBSERVATION_READY"
  PROVE  LET exact == {r \in rows : Matches(intent, r)} IN
         /\ exact # {}
         /\ \A r \in exact : r.attempt = 1
         /\ \A r \in Newest(exact) : StateOf(r) # "unknown"
<1> DEFINE exact == {r \in rows : Matches(intent, r)}
           latest == Newest(exact)
           status == AdapterStatus(intent, rows, fetched, asOf, error)
           gates ==
  <<Gate(intent.deadline < intent.dispatched, "RECEIPT_INVALID"),
    Gate(error, "SOURCE_UNAVAILABLE"),
    Gate(~Fresh(fetched, asOf), "SOURCE_STALE"),
    Gate(exact = {} /\ asOf <= intent.deadline, "AWAITING_RUN"),
    Gate(exact = {}, "RUN_UNCERTAIN"),
    Gate(\E r, s \in exact : r.run # s.run, "CONFLICT_BLOCKED"),
    Gate(~FirstAttempts(exact), "CONFLICT_BLOCKED"),
    Gate(\E r, s \in latest : StateOf(r) # StateOf(s), "CONFLICT_BLOCKED"),
    Gate(\E r \in latest : StateOf(r) = "unknown" \/ r.updated < r.created, "FAIL_CLOSED"),
    Gate(\E r \in latest : r.updated > fetched + Skew, "FAIL_CLOSED")>>
<1>1. status = FirstOf(gates, "OBSERVATION_READY")
  BY Zenon DEF AdapterStatus
<1>2. DOMAIN gates = 1 .. 10
  OBVIOUS
<1>3. /\ gates[1].outcome = "RECEIPT_INVALID" /\ gates[2].outcome = "SOURCE_UNAVAILABLE"
      /\ gates[3].outcome = "SOURCE_STALE" /\ gates[4].outcome = "AWAITING_RUN"
      /\ gates[5].outcome = "RUN_UNCERTAIN" /\ gates[6].outcome = "CONFLICT_BLOCKED"
      /\ gates[7].outcome = "CONFLICT_BLOCKED" /\ gates[8].outcome = "CONFLICT_BLOCKED"
      /\ gates[9].outcome = "FAIL_CLOSED" /\ gates[10].outcome = "FAIL_CLOSED"
  BY Zenon DEF Gate
<1>4. /\ gates[5].fires <=> exact = {}
      /\ gates[7].fires <=> ~FirstAttempts(exact)
      /\ gates[9].fires <=>
           \E r \in latest : StateOf(r) = "unknown" \/ r.updated < r.created
  BY Zenon DEF Gate
<1> HIDE DEF gates
<1>5. \A i \in 1 .. 10 : ~gates[i].fires
  <2>1. \A i \in 1 .. 10 : gates[i].outcome # "OBSERVATION_READY"
    BY <1>3
  <2>2. status = "OBSERVATION_READY"
    BY Zenon
  <2> HIDE DEF status
  <2>3. \/ status = "OBSERVATION_READY" /\ \A i \in 1 .. 10 : ~gates[i].fires
        \/ \E i \in 1 .. 10 : /\ gates[i].fires /\ status = gates[i].outcome
                              /\ \A j \in 1 .. 10 : j < i => ~gates[j].fires
    BY <1>1, <1>2, FirstDecides
  <2> QED
    BY <2>1, <2>2, <2>3
<1>6. exact # {} /\ FirstAttempts(exact)
  <2>1. ~gates[5].fires /\ ~gates[7].fires
    BY <1>5
  <2> QED
    BY <1>4, <2>1, Zenon
<1>7. \A r \in latest : StateOf(r) # "unknown"
  <2>1. ~gates[9].fires
    BY <1>5
  <2> QED
    BY <1>4, <2>1, Zenon
<1> QED
  BY <1>6, <1>7, Zenon DEF FirstAttempts

(* What ready evidence tells of the run and of the artifacts.              *)
LEMMA OutcomeTells ==
  ASSUME NEW rcpt, NEW o, NEW some, NEW deadline, NEW fetched,
         NEW asOf,
         OutcomeStatus(rcpt, o, some, deadline, fetched, asOf, FALSE) = "EVIDENCE_READY"
  PROVE  /\ Verify(rcpt, {o}, asOf, FALSE) = "EXACT_SUCCEEDED"
         /\ BundlesOf(rcpt, some) # {}
         /\ \A b \in BundlesOf(rcpt, some) :
              /\ b.intact
              /\ b.state = "SUCCEEDED" => b.confirmed /\ b.effect = "NONE"
<1> DEFINE ran == Verify(rcpt, {o}, asOf, FALSE)
           exact == BundlesOf(rcpt, some)
           status == OutcomeStatus(rcpt, o, some, deadline, fetched, asOf, FALSE)
           begun == (IF rcpt.dispatched >= o.created THEN rcpt.dispatched
                     ELSE o.created) - Skew
           gates ==
  <<Gate(FALSE, "SOURCE_UNAVAILABLE"),
    Gate(~Fresh(fetched, asOf), "SOURCE_STALE"),
    Gate(ran # "EXACT_SUCCEEDED", RunAnswer[ran]),
    Gate(exact = {} /\ asOf <= deadline, "AWAITING_OUTCOME"),
    Gate(exact = {}, "OUTCOME_UNCERTAIN"),
    Gate(\E b, c \in exact : b # c, "CONFLICT_BLOCKED"),
    Gate(\E b \in exact : b.expired, "SOURCE_BLOCKED"),
    Gate(\E b \in exact : b.created < begun, "TEMPORAL_BLOCKED"),
    Gate(\E b \in exact : b.created > fetched + Skew, "TEMPORAL_BLOCKED"),
    Gate(\E b \in exact : ~b.intact, "INTEGRITY_BLOCKED"),
    Gate(\E b \in exact : b.payload_run # rcpt.run \/ b.token # rcpt.token,
         "IDENTITY_BLOCKED"),
    Gate(\E b \in exact : b.produced < begun \/ b.produced > b.created + Skew
           \/ b.produced > fetched + Skew \/ b.produced > asOf + Skew, "TEMPORAL_BLOCKED"),
    Gate(\E b \in exact : b.state = "OTHER" \/ b.effect = "CONTRADICTORY", "FAIL_CLOSED"),
    Gate(\E b \in exact : b.state = "SUCCEEDED" /\ ~b.confirmed, "OUTCOME_UNCERTAIN"),
    Gate(\E b \in exact : b.state = "SUCCEEDED" /\ ~EffectClear(b),
         "EFFECT_UNSAFE_BLOCKED")>>
<1>1. status = FirstOf(gates, "EVIDENCE_READY")
  BY Zenon DEF OutcomeStatus
<1>2. DOMAIN gates = 1 .. 15
  OBVIOUS
<1>3. /\ gates[1].outcome = "SOURCE_UNAVAILABLE" /\ gates[2].outcome = "SOURCE_STALE"
      /\ gates[3].outcome = RunAnswer[ran] /\ gates[4].outcome = "AWAITING_OUTCOME"
      /\ gates[5].outcome = "OUTCOME_UNCERTAIN" /\ gates[6].outcome = "CONFLICT_BLOCKED"
      /\ gates[7].outcome = "SOURCE_BLOCKED" /\ gates[8].outcome = "TEMPORAL_BLOCKED"
      /\ gates[9].outcome = "TEMPORAL_BLOCKED" /\ gates[10].outcome = "INTEGRITY_BLOCKED"
      /\ gates[11].outcome = "IDENTITY_BLOCKED" /\ gates[12].outcome = "TEMPORAL_BLOCKED"
      /\ gates[13].outcome = "FAIL_CLOSED" /\ gates[14].outcome = "OUTCOME_UNCERTAIN"
      /\ gates[15].outcome = "EFFECT_UNSAFE_BLOCKED"
  BY Zenon DEF Gate
<1>4. /\ gates[3].fires <=> ran # "EXACT_SUCCEEDED"
      /\ gates[5].fires <=> exact = {}
      /\ gates[10].fires <=> \E b \in exact : ~b.intact
      /\ gates[14].fires <=> \E b \in exact : b.state = "SUCCEEDED" /\ ~b.confirmed
      /\ gates[15].fires <=> \E b \in exact : b.state = "SUCCEEDED" /\ ~EffectClear(b)
  BY Zenon DEF Gate
<1> HIDE DEF gates
<1>5. \A i \in 1 .. 15 : ~gates[i].fires
  <2>1. ran \in DOMAIN RunAnswer
    BY VerifyTells
  <2>2. RunAnswer[ran] # "EVIDENCE_READY"
    <3> HIDE DEF ran
    <3> QED
      BY <2>1 DEF RunAnswer
  <2>3. \A i \in 1 .. 15 : gates[i].outcome # "EVIDENCE_READY"
    <3> HIDE DEF ran
    <3> QED
      BY <1>3, <2>2
  <2>4. status = "EVIDENCE_READY"
    BY Zenon
  <2> HIDE DEF status
  <2>5. \/ status = "EVIDENCE_READY" /\ \A i \in 1 .. 15 : ~gates[i].fires
        \/ \E i \in 1 .. 15 : /\ gates[i].fires /\ status = gates[i].outcome
                              /\ \A j \in 1 .. 15 : j < i => ~gates[j].fires
    BY <1>1, <1>2, FirstDecides
  <2> QED
    BY <2>3, <2>4, <2>5
<1>6. ran = "EXACT_SUCCEEDED" /\ exact # {}
  <2>1. ~gates[3].fires /\ ~gates[5].fires
    BY <1>5
  <2> QED
    BY <1>4, <2>1, Zenon
<1>7. \A b \in exact : b.intact /\ (b.state = "SUCCEEDED" => b.confirmed /\ b.effect = "NONE")
  <2>1. ~gates[10].fires /\ ~gates[14].fires /\ ~gates[15].fires
    BY <1>5
  <2> QED
    BY <1>4, <2>1, Zenon DEF EffectClear
<1> QED
  BY <1>6, <1>7, Zenon

-----------------------------------------------------------------------------
(* Rows and observations that are the latest                               *)

(* Of some integers with a bound one is the greatest.                      *)
LEMMA GreatestOf ==
  ASSUME NEW S \in SUBSET Int, S # {}, NEW bound \in Int, \A i \in S : i <= bound
  PROVE  \E i \in S : \A j \in S : j <= i
<1> DEFINE T == {bound - i : i \in S}
<1>1. T \in SUBSET Nat /\ T # {}
  <2>1. \A i \in S : bound - i \in Nat
    OBVIOUS
  <2>2. PICK i \in S : TRUE
    OBVIOUS
  <2> QED
    BY <2>1, <2>2
<1>2. PICK t \in T : \A u \in T : t <= u
  <2> HIDE DEF T
  <2> QED
    BY <1>1, LeastNatural
<1>3. PICK i \in S : t = bound - i
  BY <1>2
<1>4. \A j \in S : bound - j \in T
  OBVIOUS
<1>5. \A j \in S : j <= i
  BY <1>2, <1>3, <1>4
<1> QED
  BY <1>5

(* So there is a newest row,                                               *)
LEMMA NewestExists ==
  ASSUME NEW rows, rows # {}, NEW bound \in Int,
         \A r \in rows : r.updated \in Int /\ r.updated <= bound
  PROVE  Newest(rows) # {}
<1> DEFINE S == {r.updated : r \in rows}
<1>1. S \in SUBSET Int /\ S # {} /\ \A i \in S : i <= bound
  OBVIOUS
<1>2. PICK i \in S : \A j \in S : j <= i
  <2> HIDE DEF S
  <2> QED
    BY <1>1, GreatestOf
<1>3. PICK r \in rows : i = r.updated
  BY <1>2
<1> QED
  BY <1>2, <1>3 DEF Newest

(* and a last observation.                                                 *)
LEMMA LastExists ==
  ASSUME NEW os, os # {}, NEW bound \in Int,
         \A o \in os : o.observed \in Int /\ o.observed <= bound
  PROVE  Last(os) # {}
<1> DEFINE S == {o.observed : o \in os}
<1>1. S \in SUBSET Int /\ S # {} /\ \A i \in S : i <= bound
  OBVIOUS
<1>2. PICK i \in S : \A j \in S : j <= i
  <2> HIDE DEF S
  <2> QED
    BY <1>1, GreatestOf
<1>3. PICK o \in os : i = o.observed
  BY <1>2
<1> QED
  BY <1>2, <1>3 DEF Last

-----------------------------------------------------------------------------
(* The invariant                                                           *)

(* What the numbers of the model are.                                      *)
LEMMA Numbers ==
  ASSUME TrackingInv
  PROVE  /\ now \in Nat /\ drift \in Int /\ GitHubTime \in Int /\ Latest \in Nat
         /\ Dispatches = 1 .. Len(Work) /\ Len(Work) \in Nat
         /\ Skew \in Nat /\ MaxAge \in Nat /\ Window \in Nat
         /\ 1 .. Latest \subseteq Dispatches
         /\ \A d \in 1 .. Latest : dispatched[d] \in Int
<1>1. now \in Nat /\ drift \in Int /\ dispatched \in Seq(0 .. MaxTime)
  BY TrackingAssumption DEF TrackingInv, TypeOK
<1>2. Dispatches = 1 .. Len(Work) /\ Len(Work) \in Nat
  BY TrackingAssumption DEF Dispatches
<1>3. Latest \in Nat /\ \A d \in 1 .. Latest : dispatched[d] \in Int
  BY <1>1, TrackingAssumption DEF Latest
<1>4. Latest <= Len(Work)
  BY DEF TrackingInv
<1> QED
  BY <1>1, <1>2, <1>3, <1>4, EvidenceAssumption, TrackingAssumption DEF GitHubTime

(* A run that is there is a row of its own number.                         *)
LEMMA RunThere ==
  ASSUME TrackingInv, NEW d \in Dispatches, runs[d] # NoRun
  PROVE  /\ runs[d] \in Row /\ d \in 1 .. Latest
         /\ runs[d].run = d /\ runs[d].token = Work[d]
         /\ runs[d].updated <= GitHubTime
         /\ runs[d].attempt = 1 => ended[d].conclusion = runs[d].conclusion
         /\ runs[d].status = "completed" <=> runs[d].conclusion # "none"
<1>1. runs[d] \in Row
  BY DEF TrackingInv, TypeOK
<1>2. RunInv(d)
  BY DEF TrackingInv
<1>3. d \in Nat /\ d >= 1
  BY Numbers
<1> QED
  BY <1>1, <1>2, <1>3, Numbers DEF RunInv

(* Initially nothing has been dispatched.                                  *)
LEMMA InitInv == Init => TrackingInv
<1> SUFFICES ASSUME Init PROVE TrackingInv
  OBVIOUS
<1>1. TypeOK
  <2>1. dispatched \in Seq(0 .. MaxTime)
    BY DEF Init
  <2>2. now \in 0 .. MaxTime /\ drift \in Drifts /\ runs \in [Dispatches -> Row \cup {NoRun}]
    BY TrackingAssumption DEF Init
  <2>3. artifacts = {} /\ listing = {} /\ observations = {} /\ bundles = {}
    BY DEF Init
  <2> QED
    BY <2>1, <2>2, <2>3 DEF TypeOK
<1>2. ended \in [Dispatches -> [conclusion : Conclusions, at : Int]]
  BY DEF Init, NotEnded, Conclusions
<1>3. Latest <= Len(Work)
  <2>1. Len(<<>>) = 0
    OBVIOUS
  <2> QED
    BY <2>1, TrackingAssumption DEF Init, Latest
<1>4. \A d \in Dispatches : RunInv(d)
  BY DEF Init, RunInv, NotEnded
<1> QED
  BY <1>1, <1>2, <1>3, <1>4 DEF Init, TrackingInv

(* Time passing makes everything seen older.                               *)
LEMMA TickInv == TrackingInv /\ Tick => TrackingInv'
<1> SUFFICES ASSUME TrackingInv, Tick PROVE TrackingInv'
  OBVIOUS
<1>1. /\ now' = now + 1 /\ now' \in 0 .. MaxTime
      /\ UNCHANGED <<dispatched, github, seen, judged, result>>
  BY TrackingAssumption DEF Tick, TrackingInv, TypeOK
<1>2. /\ dispatched' = dispatched /\ drift' = drift /\ runs' = runs /\ ended' = ended
      /\ artifacts' = artifacts /\ listing' = listing /\ listedAt' = listedAt
      /\ receipt' = receipt /\ observations' = observations /\ bundles' = bundles
  BY <1>1 DEF github, seen, judged, result
<1>3. TypeOK'
  BY <1>1, <1>2 DEF TrackingInv, TypeOK
<1>4. GitHubTime' = GitHubTime + 1 /\ Latest' = Latest /\ Dispatches' = Dispatches
  BY <1>1, <1>2, Numbers DEF GitHubTime, Latest, Dispatches
<1>5. ASSUME NEW d \in Dispatches PROVE RunInv(d)'
  <2>1. RunInv(d)
    BY DEF TrackingInv
  <2>2. CASE runs[d] = NoRun
    BY <1>2, <2>1, <2>2 DEF RunInv
  <2>3. CASE runs[d] # NoRun
    <3>1. runs[d].updated \in Int
      BY <2>3, RunThere DEF Row
    <3> QED
      BY <1>2, <1>4, <2>1, <2>3, <3>1, Numbers DEF RunInv
  <2> QED
    BY <2>2, <2>3
<1>6. ASSUME NEW row \in listing PROVE RowInv(row)'
  <2>1. RowInv(row) /\ row.updated \in Int
    BY DEF TrackingInv, TypeOK, Row
  <2> QED
    BY <1>2, <1>4, <2>1, Numbers DEF RowInv, NotEndedBefore
<1>7. ASSUME NEW o \in observations PROVE ObservationInv(o)'
  <2>1. ObservationInv(o) /\ o.updated \in Int /\ o.observed \in Int
    BY DEF TrackingInv, TypeOK, Observation
  <2> QED
    BY <1>1, <1>2, <1>4, <2>1, Numbers DEF ObservationInv, NotEndedBefore
<1>8. (receipt # NoReceipt => ReceiptInv)'
  BY <1>2, <1>4 DEF TrackingInv, ReceiptInv
<1>9. listedAt' \in 0 .. now'
  BY <1>1, <1>2, Numbers DEF TrackingInv
<1> QED
  BY <1>2, <1>3, <1>4, <1>5, <1>6, <1>7, <1>8, <1>9 DEF TrackingInv

(* A new dispatch begins with nothing seen of its run.                     *)
LEMMA DispatchInv == TrackingInv /\ Dispatch => TrackingInv'
<1> SUFFICES ASSUME TrackingInv, Dispatch PROVE TrackingInv'
  OBVIOUS
<1>1. /\ dispatched' = Append(dispatched, now) /\ Latest < Len(Work)
      /\ listing' = {} /\ listedAt' = 0 /\ receipt' = NoReceipt
      /\ observations' = {} /\ bundles' = {}
      /\ now' = now /\ drift' = drift /\ runs' = runs /\ ended' = ended
      /\ artifacts' = artifacts
  BY DEF Dispatch, github
<1>2. Latest' = Latest + 1 /\ dispatched' \in Seq(0 .. MaxTime)
  <2>1. dispatched \in Seq(0 .. MaxTime) /\ now \in 0 .. MaxTime
    BY DEF TrackingInv, TypeOK
  <2> QED
    BY <1>1, <2>1 DEF Latest
<1>3. TypeOK'
  BY <1>1, <1>2 DEF TrackingInv, TypeOK
<1>4. ASSUME NEW d \in Dispatches PROVE RunInv(d)'
  <2>1. RunInv(d) /\ d \in Nat
    BY Numbers DEF TrackingInv
  <2> QED
    BY <1>1, <1>2, <2>1, Numbers DEF RunInv, GitHubTime
<1>5. Latest' <= Len(Work)
  BY <1>1, <1>2, Numbers
<1> QED
  BY <1>1, <1>3, <1>4, <1>5, Numbers DEF TrackingInv

(* The run of one dispatch changes, and with it at most the end of its     *)
(* first attempt, which had none: what was seen of it earlier stays true.  *)
LEMMA RunChangeInv ==
  ASSUME TrackingInv, NEW d \in Dispatches, NEW row \in Row,
         UNCHANGED <<now, dispatched, drift, artifacts, seen, judged, result>>,
         runs' = [runs EXCEPT ![d] = row],
         row # NoRun, runs[d] # NoRun => row.created = runs[d].created,
         \/ ended' = ended
         \/ /\ ended[d].conclusion = "none"
            /\ \E conclusion \in Conclusions :
                 ended' = [ended EXCEPT ![d] = [conclusion |-> conclusion, at |-> GitHubTime]],
         RunInv(d)'
  PROVE  TrackingInv'
<1>1. /\ now' = now /\ dispatched' = dispatched /\ drift' = drift /\ artifacts' = artifacts
      /\ listing' = listing /\ listedAt' = listedAt /\ receipt' = receipt
      /\ observations' = observations /\ bundles' = bundles
      /\ GitHubTime' = GitHubTime /\ Latest' = Latest
  BY DEF seen, judged, result, GitHubTime, Latest
<1>2. /\ runs \in [Dispatches -> Row \cup {NoRun}]
      /\ ended \in [Dispatches -> [conclusion : Conclusions, at : Int]]
  BY DEF TrackingInv, TypeOK
<1>3. /\ runs' \in [Dispatches -> Row \cup {NoRun}] /\ runs'[d] = row
      /\ \A e \in Dispatches : e # d => runs'[e] = runs[e]
  BY <1>2
<1>4. \A e \in Dispatches : runs[e] # NoRun =>
        runs'[e] # NoRun /\ runs'[e].created = runs[e].created
  BY <1>3
<1>5. /\ ended' \in [Dispatches -> [conclusion : Conclusions, at : Int]]
      /\ \A e \in Dispatches :
           \/ ended'[e] = ended[e]
           \/ e = d /\ ended[e].conclusion = "none" /\ ended'[e].at = GitHubTime
  BY <1>2, Numbers
<1>6. TypeOK'
  BY <1>1, <1>3 DEF TrackingInv, TypeOK
<1>7. ASSUME NEW e \in Dispatches PROVE RunInv(e)'
  <2>1. CASE e = d
    BY <2>1
  <2>2. CASE e # d
    <3>1. RunInv(e) /\ runs'[e] = runs[e]
      BY <1>3, <2>2 DEF TrackingInv
    <3>2. ended'[e] = ended[e]
      BY <1>5, <2>2
    <3> QED
      BY <1>1, <3>1, <3>2 DEF RunInv
  <2> QED
    BY <2>1, <2>2
<1>8. ASSUME NEW r \in listing PROVE RowInv(r)'
  <2>1. RowInv(r) /\ r.updated \in Int
    BY DEF TrackingInv, TypeOK, Row
  <2>2. /\ r.run \in Dispatches /\ runs'[r.run] # NoRun
        /\ r.created = runs'[r.run].created
    BY <1>4, <2>1 DEF RowInv
  <2>3. r.attempt = 1 /\ r.status = "completed" => ended'[r.run].conclusion = r.conclusion
    BY <1>5, <2>1 DEF RowInv
  <2>4. r.attempt = 1 /\ r.status # "completed" => NotEndedBefore(r.run, r.updated)'
    BY <1>5, <2>1, Numbers DEF RowInv, NotEndedBefore
  <2> QED
    BY <1>1, <2>1, <2>2, <2>3, <2>4 DEF RowInv
<1>9. ASSUME NEW o \in observations PROVE ObservationInv(o)'
  <2>1. ObservationInv(o) /\ o.updated \in Int
    BY DEF TrackingInv, TypeOK, Observation
  <2>2. /\ o.state = "SUCCEEDED" => ended'[o.run].conclusion = "success"
        /\ o.state = "FAILED" => ended'[o.run].conclusion = "failure"
    BY <1>5, <2>1 DEF ObservationInv
  <2>3. o.state \in Active => NotEndedBefore(o.run, o.updated)'
    BY <1>5, <2>1, Numbers DEF ObservationInv, NotEndedBefore
  <2> QED
    BY <1>1, <2>1, <2>2, <2>3 DEF ObservationInv
<1>10. (receipt # NoReceipt => ReceiptInv)'
  <2> SUFFICES ASSUME receipt # NoReceipt PROVE ReceiptInv'
    BY <1>1
  <2>1. ReceiptInv
    BY DEF TrackingInv
  <2>2. receipt.run \in Dispatches
    BY <2>1, Numbers DEF ReceiptInv
  <2> QED
    BY <1>1, <1>4, <2>1, <2>2 DEF ReceiptInv
<1> QED
  BY <1>1, <1>5, <1>6, <1>7, <1>8, <1>9, <1>10 DEF TrackingInv

(* A run appears: nothing was known of it.                                 *)
LEMMA AppearsInv ==
  ASSUME TrackingInv, NEW d \in Dispatches, NEW status \in {"queued", "in_progress", "waiting"},
         RunAppears(d, status)
  PROVE  TrackingInv'
<1> DEFINE row == [run |-> d, token |-> Work[d], attempt |-> 1, created |-> GitHubTime,
                   updated |-> GitHubTime, status |-> status, conclusion |-> "none"]
<1>1. /\ runs' = [runs EXCEPT ![d] = row] /\ runs[d] = NoRun /\ d <= Latest
      /\ UNCHANGED <<now, dispatched, drift, ended, artifacts, seen, judged, result>>
  BY DEF RunAppears
<1>2. d \in Nat \ {0} /\ Work[d] \in STRING
  BY Numbers, TrackingAssumption
<1>3. row \in Row
  BY <1>2, Numbers DEF Row, RowStatuses, Conclusions
<1>4. row # NoRun
  <2>1. row.run # NoRun.run
    BY <1>2 DEF NoRun
  <2> QED
    BY <2>1
<1>5. runs'[d] = row
  BY <1>1 DEF TrackingInv, TypeOK
<1>6. RunInv(d)'
  <2>1. ended'[d].conclusion = "none"
    BY <1>1 DEF TrackingInv, RunInv
  <2>2. d <= Latest' /\ GitHubTime' = GitHubTime
    BY <1>1 DEF Latest, GitHubTime
  <2>3. /\ row.run = d /\ row.token = Work[d] /\ row.updated = GitHubTime
        /\ row.conclusion = "none" /\ row.status # "completed"
    OBVIOUS
  <2> HIDE DEF row
  <2> QED
    BY <1>4, <1>5, <2>1, <2>2, <2>3, Numbers DEF RunInv
<1> HIDE DEF row
<1> QED
  BY <1>1, <1>3, <1>4, <1>6, RunChangeInv

(* A run moves on, within an attempt or to the next one.                   *)
LEMMA MovesInv ==
  ASSUME TrackingInv, NEW d \in Dispatches, runs[d] # NoRun,
         NEW status \in RowStatuses, NEW conclusion \in Conclusions, NEW attempt \in Nat,
         status = "completed" <=> conclusion # "none",
         runs' = [runs EXCEPT ![d].status = status, ![d].conclusion = conclusion,
                              ![d].attempt = attempt, ![d].updated = GitHubTime],
         UNCHANGED <<now, dispatched, drift, artifacts, seen, judged, result>>,
         \/ ended' = ended /\ (attempt = 1 => ended[d].conclusion = conclusion)
         \/ /\ ended[d].conclusion = "none"
            /\ ended' = [ended EXCEPT ![d] = [conclusion |-> conclusion, at |-> GitHubTime]]
  PROVE  TrackingInv'
<1> DEFINE old == runs[d]
           row == [old EXCEPT !.status = status, !.conclusion = conclusion,
                              !.attempt = attempt, !.updated = GitHubTime]
<1>1. /\ old \in Row /\ d \in 1 .. Latest /\ old.run = d /\ old.token = Work[d]
  BY RunThere
<1>2. row \in Row
  BY <1>1, Numbers DEF Row
<1>3. /\ row.run = d /\ row.token = Work[d] /\ row.created = old.created
      /\ row.updated = GitHubTime /\ row.attempt = attempt
      /\ row.status = status /\ row.conclusion = conclusion
  BY <1>1 DEF Row
<1>4. runs' = [runs EXCEPT ![d] = row]
  BY DEF TrackingInv, TypeOK
<1>5. row # NoRun
  <2>1. d # 0
    BY Numbers
  <2>2. NoRun.run = 0
    BY DEF NoRun
  <2> HIDE DEF row
  <2> QED
    BY <1>3, <2>1, <2>2
<1>6. runs'[d] = row
  BY <1>4 DEF TrackingInv, TypeOK
<1>7. attempt = 1 => ended'[d].conclusion = conclusion
  BY DEF TrackingInv
<1> HIDE DEF row
<1>8. RunInv(d)'
  <2>1. d <= Latest' /\ GitHubTime' = GitHubTime
    BY <1>1, Numbers DEF Latest, GitHubTime
  <2>2. GitHubTime <= GitHubTime
    BY Numbers
  <2>3. row.status = "completed" <=> row.conclusion # "none"
    BY <1>3
  <2>4. row.attempt = 1 => ended'[d].conclusion = row.conclusion
    BY <1>3, <1>7
  <2> QED
    BY <1>3, <1>5, <1>6, <2>1, <2>2, <2>3, <2>4, Zenon DEF RunInv
<1> QED
  BY <1>2, <1>3, <1>4, <1>5, <1>8, RunChangeInv

(* A queued or waiting run starts.                                         *)
LEMMA StartsInv ==
  ASSUME TrackingInv, NEW d \in Dispatches, RunStarts(d)
  PROVE  TrackingInv'
<1>1. runs[d] # NoRun /\ runs[d].status \in {"queued", "waiting"}
  BY DEF RunStarts, Moves
<1>2. runs[d] \in Row
  BY <1>1, RunThere
<1>3. runs' = [runs EXCEPT ![d].status = "in_progress", ![d].conclusion = "none",
                           ![d].attempt = runs[d].attempt, ![d].updated = GitHubTime]
  BY <1>2 DEF RunStarts, RunMoves, TrackingInv, TypeOK, Row
<1>4. /\ UNCHANGED <<now, dispatched, drift, artifacts, seen, judged, result>>
      /\ ended' = ended
  BY DEF RunStarts
<1>5. runs[d].attempt = 1 => ended[d].conclusion = "none"
  BY <1>1, RunThere
<1>6. /\ runs[d].attempt \in Nat /\ "in_progress" \in RowStatuses /\ "none" \in Conclusions
      /\ "in_progress" = "completed" <=> "none" # "none"
  BY <1>2 DEF Row, RowStatuses, Conclusions
<1> QED
  BY <1>1, <1>3, <1>4, <1>5, <1>6, MovesInv

(* A run in progress ends; of a first attempt this is kept in the history. *)
LEMMA EndsInv ==
  ASSUME TrackingInv, NEW d \in Dispatches,
         NEW conclusion \in {"success", "failure", "neutral"}, RunEnds(d, conclusion)
  PROVE  TrackingInv'
<1>1. runs[d] # NoRun /\ runs[d].status = "in_progress"
  BY DEF RunEnds, Moves
<1>2. runs[d] \in Row
  BY <1>1, RunThere
<1>3. runs' = [runs EXCEPT ![d].status = "completed", ![d].conclusion = conclusion,
                           ![d].attempt = runs[d].attempt, ![d].updated = GitHubTime]
  BY <1>2 DEF RunEnds, RunMoves, TrackingInv, TypeOK, Row
<1>4. UNCHANGED <<now, dispatched, drift, artifacts, seen, judged, result>>
  BY DEF RunEnds
<1>5. \/ ended' = ended /\ runs[d].attempt # 1
      \/ /\ ended[d].conclusion = "none"
         /\ ended' = [ended EXCEPT ![d] = [conclusion |-> conclusion, at |-> GitHubTime]]
  BY <1>1, RunThere DEF RunEnds
<1>6. /\ runs[d].attempt \in Nat /\ "completed" \in RowStatuses /\ conclusion \in Conclusions
      /\ conclusion # "none"
  BY <1>2 DEF Row, RowStatuses, Conclusions
<1> QED
  BY <1>1, <1>3, <1>4, <1>5, <1>6, MovesInv

(* An ended run is run once more.                                          *)
LEMMA RerunInv ==
  ASSUME TrackingInv, NEW d \in Dispatches, NEW status \in {"queued", "in_progress"},
         Rerun(d, status)
  PROVE  TrackingInv'
<1>1. runs[d] # NoRun
  BY DEF Rerun, Moves
<1>2. runs' = [runs EXCEPT ![d].status = status, ![d].conclusion = "none",
                           ![d].attempt = 2, ![d].updated = GitHubTime]
  BY DEF Rerun
<1>3. /\ UNCHANGED <<now, dispatched, drift, artifacts, seen, judged, result>>
      /\ ended' = ended
  BY DEF Rerun
<1>4. /\ status \in RowStatuses /\ "none" \in Conclusions /\ 2 \in Nat
      /\ status = "completed" <=> "none" # "none"
      /\ 2 = 1 => ended[d].conclusion = "none"
  BY DEF RowStatuses, Conclusions
<1> QED
  BY <1>1, <1>2, <1>3, <1>4, MovesInv

(* A run writes an artifact: those there were remain.                      *)
LEMMA ReportsInv ==
  ASSUME TrackingInv, NEW d \in Dispatches, NEW content \in Contents, RunReports(d, content)
  PROVE  TrackingInv'
<1> DEFINE b ==
       [artifact |-> runs[d].attempt, run |-> d, payload_run |-> d, token |-> Work[d],
         created |-> GitHubTime, produced |-> GitHubTime, expired |-> FALSE,
         state |-> content.state, confirmed |-> content.confirmed,
         effect |-> content.effect, intact |-> content.intact]
<1>1. /\ artifacts' = artifacts \cup {b} /\ runs[d] # NoRun
      /\ UNCHANGED <<now, dispatched, drift, runs, ended, seen, judged, result>>
  BY DEF RunReports, Moves
<1>2. b \in Bundle
  <2>1. runs[d].attempt \in Nat /\ d \in Nat
    BY <1>1, RunThere, Numbers DEF Row
  <2>2. Work[d] \in STRING
    BY TrackingAssumption DEF Dispatches
  <2>3. content \in [state : {"SUCCEEDED", "FAILED", "OTHER"}, confirmed : BOOLEAN,
                     effect : Effects, intact : BOOLEAN]
    BY TrackingAssumption
  <2> QED
    BY <2>1, <2>2, <2>3, Numbers DEF Bundle
<1> HIDE DEF b
<1>3. TypeOK'
  BY <1>1, <1>2 DEF TrackingInv, TypeOK, seen, judged, result
<1>4. /\ GitHubTime' = GitHubTime /\ Latest' = Latest /\ runs' = runs /\ ended' = ended
      /\ listing' = listing /\ listedAt' = listedAt /\ now' = now /\ receipt' = receipt
      /\ observations' = observations /\ bundles' = bundles /\ dispatched' = dispatched
  BY <1>1 DEF GitHubTime, Latest, seen, judged, result
<1>5. /\ \A e \in Dispatches : RunInv(e)'
      /\ \A r \in listing' : RowInv(r)'
      /\ \A o \in observations' : ObservationInv(o)'
      /\ (receipt # NoReceipt => ReceiptInv)'
  BY <1>4 DEF TrackingInv, RunInv, RowInv, ObservationInv, ReceiptInv, NotEndedBefore
<1> QED
  BY <1>1, <1>3, <1>4, <1>5 DEF TrackingInv

(* What is listed is true when it is listed.                               *)
LEMMA ListRunsInv ==
  ASSUME TrackingInv, NEW some \in SUBSET Dispatches, ListRuns(some)
  PROVE  TrackingInv'
<1>1. /\ \A d \in some : runs[d] # NoRun
      /\ listing' = listing \cup {runs[d] : d \in some} /\ listedAt' = now
      /\ UNCHANGED <<now, dispatched, github, judged, result>>
  BY DEF ListRuns
<1>2. /\ now' = now /\ dispatched' = dispatched /\ drift' = drift /\ runs' = runs
      /\ ended' = ended /\ artifacts' = artifacts /\ receipt' = receipt
      /\ observations' = observations /\ bundles' = bundles
      /\ GitHubTime' = GitHubTime /\ Latest' = Latest
  BY <1>1 DEF github, judged, result, GitHubTime, Latest
<1>3. ASSUME NEW d \in some PROVE runs[d] \in Row /\ RowInv(runs[d])
  <2>1. d \in Dispatches /\ runs[d] # NoRun
    BY <1>1
  <2>2. /\ runs[d] \in Row /\ runs[d].run = d /\ runs[d].token = Work[d]
        /\ runs[d].updated <= GitHubTime
        /\ runs[d].attempt = 1 => ended[d].conclusion = runs[d].conclusion
        /\ runs[d].status = "completed" <=> runs[d].conclusion # "none"
    BY <2>1, RunThere
  <2>3. runs[d].attempt = 1 /\ runs[d].status # "completed" =>
          NotEndedBefore(d, runs[d].updated)
    BY <2>2 DEF NotEndedBefore
  <2> QED
    BY <2>1, <2>2, <2>3 DEF RowInv
<1>4. listing' \subseteq Row
  BY <1>1, <1>3 DEF TrackingInv, TypeOK
<1>5. TypeOK'
  BY <1>2, <1>4 DEF TrackingInv, TypeOK
<1>6. \A r \in listing' : RowInv(r)
  BY <1>1, <1>3 DEF TrackingInv
<1>7. /\ \A e \in Dispatches : RunInv(e)'
      /\ \A r \in listing' : RowInv(r)'
      /\ \A o \in observations' : ObservationInv(o)'
      /\ (receipt # NoReceipt => ReceiptInv)'
  BY <1>2, <1>6 DEF TrackingInv, RunInv, RowInv, ObservationInv, ReceiptInv, NotEndedBefore
<1>8. listedAt' \in 0 .. now'
  BY <1>1, <1>2, Numbers
<1> QED
  BY <1>2, <1>5, <1>7, <1>8 DEF TrackingInv

(* Steps that move nothing but drop what was listed, or list artifacts.    *)
LEMMA LookInv ==
  ASSUME TrackingInv,
         UNCHANGED <<now, dispatched, github, receipt, observations>>,
         listing' \subseteq listing, listedAt' \in 0 .. now, bundles' \subseteq artifacts
  PROVE  TrackingInv'
<1>1. /\ now' = now /\ dispatched' = dispatched /\ drift' = drift /\ runs' = runs
      /\ ended' = ended /\ artifacts' = artifacts /\ receipt' = receipt
      /\ observations' = observations /\ GitHubTime' = GitHubTime /\ Latest' = Latest
  BY DEF github, GitHubTime, Latest
<1>2. TypeOK'
  <2>1. bundles' \subseteq Bundle /\ listing' \subseteq Row
    BY DEF TrackingInv, TypeOK
  <2> QED
    BY <1>1, <2>1 DEF TrackingInv, TypeOK
<1>3. /\ \A e \in Dispatches : RunInv(e)'
      /\ \A r \in listing' : RowInv(r)'
      /\ \A o \in observations' : ObservationInv(o)'
      /\ (receipt # NoReceipt => ReceiptInv)'
  BY <1>1 DEF TrackingInv, RunInv, RowInv, ObservationInv, ReceiptInv, NotEndedBefore
<1> QED
  BY <1>1, <1>2, <1>3 DEF TrackingInv

(* Artifacts are listed as they are.                                       *)
LEMMA ListArtifactsInv ==
  ASSUME TrackingInv, NEW some \in SUBSET artifacts, ListArtifacts(some)
  PROVE  TrackingInv'
<1>1. /\ UNCHANGED <<now, dispatched, github, listing, listedAt, judged>>
      /\ bundles' \subseteq artifacts
  BY DEF ListArtifacts
<1>2. UNCHANGED <<now, dispatched, github, receipt, observations>>
  BY <1>1 DEF judged
<1> QED
  BY <1>1, <1>2, LookInv DEF TrackingInv

(* The listing that gave no observation is dropped.                        *)
LEMMA DropListingInv == TrackingInv /\ DropListing => TrackingInv'
<1> SUFFICES ASSUME TrackingInv, DropListing PROVE TrackingInv'
  OBVIOUS
<1>1. /\ UNCHANGED <<now, dispatched, github, judged, result>>
      /\ listing' = {} /\ listedAt' = 0
  BY DEF DropListing
<1>2. /\ UNCHANGED <<now, dispatched, github, receipt, observations>>
      /\ bundles' \subseteq artifacts
  BY <1>1 DEF judged, result, TrackingInv
<1> QED
  BY <1>1, <1>2, Numbers, LookInv

(* An evaluation makes its observation of a row that matches, and of no    *)
(* other than a first attempt.                                             *)
LEMMA ObservedRow ==
  ASSUME TrackingInv, listing # {}, NEW asOf,
         AdapterStatus(IntentOf(Latest), listing, listedAt, asOf, FALSE) = "OBSERVATION_READY"
  PROVE  /\ Latest \in Dispatches
         /\ \E row \in listing :
              /\ Matches(IntentOf(Latest), row)
              /\ row.attempt = 1 /\ StateOf(row) # "unknown"
              /\ Observed(IntentOf(Latest), listing, listedAt) =
                   [run |-> row.run, token |-> Work[Latest], fresh |-> TRUE,
                    observed |-> listedAt, created |-> row.created,
                    state |-> StateOf(row), updated |-> row.updated]
<1> DEFINE intent == IntentOf(Latest)
           exact == {r \in listing : Matches(intent, r)}
           row == CHOOSE r \in Newest(exact) : TRUE
<1>1. /\ exact # {}
      /\ \A r \in exact : r.attempt = 1
      /\ \A r \in Newest(exact) : StateOf(r) # "unknown"
  BY AdapterTells, Zenon
<1>2. \A r \in exact : r.updated \in Int /\ r.updated <= GitHubTime
  BY DEF TrackingInv, TypeOK, Row, RowInv
<1>3. Newest(exact) # {}
  <2> HIDE DEF exact
  <2> QED
    BY <1>1, <1>2, NewestExists, Numbers
<1>4. row \in Newest(exact)
  BY <1>3, Zenon
<1>5. row \in exact
  BY <1>4, Zenon DEF Newest
<1>6. Latest \in Dispatches
  <2>1. PICK r \in listing : TRUE
    OBVIOUS
  <2>2. r.run \in 1 .. Latest
    BY RunThere DEF TrackingInv, RowInv
  <2>3. Latest \in 1 .. Latest
    BY <2>2, Numbers
  <2> QED
    BY <2>3, Numbers
<1>7. Observed(intent, listing, listedAt) =
        [run |-> row.run, token |-> Work[Latest], fresh |-> TRUE,
         observed |-> listedAt, created |-> row.created,
         state |-> StateOf(row), updated |-> row.updated]
  <2>1. intent.token = Work[Latest]
    BY DEF IntentOf
  <2>2. Observed(intent, listing, listedAt) =
          [run |-> row.run, token |-> intent.token, fresh |-> TRUE,
           observed |-> listedAt, created |-> row.created,
           state |-> StateOf(row), updated |-> row.updated]
    BY Zenon DEF Observed
  <2> QED
    BY <2>1, <2>2
<1>8. row \in listing /\ Matches(intent, row)
  BY <1>5, Zenon
<1>9. row.attempt = 1 /\ StateOf(row) # "unknown"
  BY <1>1, <1>4, <1>5, Zenon
<1> HIDE DEF row
<1> QED
  BY <1>6, <1>7, <1>8, <1>9

(* An evaluation adds its observation and gives the receipt its run.       *)
LEMMA EvaluateRunsInv == TrackingInv /\ EvaluateRuns => TrackingInv'
<1> SUFFICES ASSUME TrackingInv, EvaluateRuns PROVE TrackingInv'
  OBVIOUS
<1> DEFINE o == Observed(IntentOf(Latest), listing, listedAt)
<1>1. /\ observations' = observations \cup {o}
      /\ receipt' = IF receipt # NoReceipt THEN receipt
                    ELSE [run |-> o.run, token |-> IntentOf(Latest).token,
                          dispatched |-> IntentOf(Latest).dispatched]
      /\ listing' = {} /\ listedAt' = 0
      /\ UNCHANGED <<now, dispatched, github, pages, result>>
  BY DEF EvaluateRuns
<1>2. /\ Latest \in Dispatches
      /\ \E row \in listing :
           /\ Matches(IntentOf(Latest), row)
           /\ row.attempt = 1 /\ StateOf(row) # "unknown"
           /\ o = [run |-> row.run, token |-> Work[Latest], fresh |-> TRUE,
                   observed |-> listedAt, created |-> row.created,
                   state |-> StateOf(row), updated |-> row.updated]
  BY ObservedRow DEF EvaluateRuns
<1>3. PICK row \in listing :
        /\ Matches(IntentOf(Latest), row)
        /\ row.attempt = 1 /\ StateOf(row) # "unknown"
        /\ o = [run |-> row.run, token |-> Work[Latest], fresh |-> TRUE,
                observed |-> listedAt, created |-> row.created,
                state |-> StateOf(row), updated |-> row.updated]
  BY <1>2
<1> HIDE DEF o
<1>4. /\ now' = now /\ dispatched' = dispatched /\ drift' = drift /\ runs' = runs
      /\ ended' = ended /\ artifacts' = artifacts /\ bundles' = bundles
      /\ GitHubTime' = GitHubTime /\ Latest' = Latest
  BY <1>1 DEF github, result, GitHubTime, Latest
<1>5. row \in Row /\ RowInv(row)
  BY DEF TrackingInv, TypeOK
<1>6. StateOf(row) \in {"QUEUED", "IN_PROGRESS", "SUCCEEDED", "FAILED"}
  BY <1>3 DEF StateOf
<1>7. o \in Observation
  <2>1. Work[Latest] \in STRING
    BY <1>2, TrackingAssumption DEF Dispatches
  <2>2. listedAt \in Int
    BY Numbers DEF TrackingInv
  <2>3. row.run \in Nat /\ row.created \in Int /\ row.updated \in Int
    BY <1>5 DEF Row
  <2> QED
    BY <1>3, <1>6, <2>1, <2>2, <2>3 DEF Observation
<1>8. ObservationInv(o)
  <2>1. /\ o.run = row.run /\ o.observed = listedAt /\ o.state = StateOf(row)
        /\ o.updated = row.updated
    BY <1>3
  <2>2. o.run \in Dispatches /\ o.observed <= now /\ o.updated <= GitHubTime
    BY <1>5, <2>1, Numbers DEF RowInv, TrackingInv
  <2>3. /\ o.state = "SUCCEEDED" => row.status = "completed" /\ row.conclusion = "success"
        /\ o.state = "FAILED" => row.status = "completed" /\ row.conclusion = "failure"
        /\ o.state \in Active => row.status # "completed"
    BY <2>1 DEF StateOf, Active
  <2>4. /\ row.status = "completed" => ended[o.run].conclusion = row.conclusion
        /\ row.status # "completed" => NotEndedBefore(o.run, o.updated)
    BY <1>3, <1>5, <2>1 DEF RowInv
  <2> QED
    BY <2>2, <2>3, <2>4 DEF ObservationInv
<1>9. TypeOK'
  <2>1. observations' \subseteq Observation /\ listing' \subseteq Row
    BY <1>1, <1>7 DEF TrackingInv, TypeOK
  <2> QED
    BY <1>4, <2>1 DEF TrackingInv, TypeOK
<1>10. \A p \in observations' : ObservationInv(p)'
  <2>1. \A p \in observations' : ObservationInv(p)
    BY <1>1, <1>8 DEF TrackingInv
  <2> QED
    BY <1>4, <2>1 DEF ObservationInv, NotEndedBefore
<1>11. (receipt # NoReceipt => ReceiptInv)'
  <2>1. CASE receipt # NoReceipt
    <3>1. receipt' = receipt /\ ReceiptInv
      BY <1>1, <2>1 DEF TrackingInv
    <3> QED
      BY <1>4, <3>1 DEF ReceiptInv
  <2>2. CASE receipt = NoReceipt
    <3>1. receipt'.run = row.run
      BY <1>1, <1>3, <2>2
    <3>2. row.run \in 1 .. Latest /\ runs[row.run] # NoRun
      BY <1>5, RunThere DEF RowInv
    <3>3. Work[row.run] = Work[Latest] /\ runs[row.run].created >= dispatched[Latest] - Skew
      BY <1>3, <1>5 DEF Matches, IntentOf, RowInv
    <3> QED
      BY <1>4, <3>1, <3>2, <3>3 DEF ReceiptInv
  <2> QED
    BY <2>1, <2>2
<1>12. \A d \in Dispatches : RunInv(d)'
  BY <1>4 DEF TrackingInv, RunInv
<1> QED
  BY <1>1, <1>4, <1>9, <1>10, <1>11, <1>12, Numbers DEF TrackingInv

(* Every step keeps what is known of runs, rows, observations and the      *)
(* receipt in agreement with the history.                                  *)
THEOREM TrackingInvariant == Spec => []TrackingInv
<1>1. TrackingInv /\ [Next]_vars => TrackingInv'
  <2> SUFFICES ASSUME TrackingInv, [Next]_vars PROVE TrackingInv'
    OBVIOUS
  <2>1. CASE GitHub
    <3>1. CASE \E d \in Dispatches :
                 \/ \E status \in {"queued", "in_progress", "waiting"} : RunAppears(d, status)
                 \/ RunStarts(d)
                 \/ \E content \in Contents : RunReports(d, content)
                 \/ \E conclusion \in {"success", "failure", "neutral"} : RunEnds(d, conclusion)
                 \/ \E status \in {"queued", "in_progress"} : Rerun(d, status)
      BY <3>1, AppearsInv, StartsInv, ReportsInv, EndsInv, RerunInv
    <3>2. CASE \E some \in SUBSET Dispatches : ListRuns(some)
      BY <3>2, ListRunsInv
    <3>3. CASE \E some \in SUBSET artifacts : ListArtifacts(some)
      BY <3>3, ListArtifactsInv
    <3> QED
      BY <2>1, <3>1, <3>2, <3>3, Zenon DEF GitHub
  <2>2. CASE UNCHANGED vars
    <3>1. /\ UNCHANGED <<now, dispatched, github, receipt, observations>>
          /\ listing' \subseteq listing /\ listedAt' \in 0 .. now /\ bundles' \subseteq artifacts
      BY <2>2 DEF vars, judged, seen, result, TrackingInv
    <3> QED
      BY <3>1, LookInv
  <2> QED
    BY <2>1, <2>2, TickInv, DispatchInv, EvaluateRunsInv, DropListingInv
    DEF Next, Evaluation
<1> QED
  BY <1>1, InitInv, PTL DEF Spec

-----------------------------------------------------------------------------
(* What the evaluators say                                                 *)

(* Every variable keeps its type.                                          *)
THEOREM TypeCorrect == Spec => []TypeOK
<1>1. TrackingInv => TypeOK
  BY DEF TrackingInv
<1> QED
  BY <1>1, TrackingInvariant, PTL

(* An earlier run of the same work is too old to match, if things go       *)
(* orderly: the run of a receipt is the one this dispatch has started.     *)
THEOREM MatchIsOurs == Spec => []MatchedRunIsOurs
<1>1. TrackingInv => MatchedRunIsOurs
  <2> SUFFICES ASSUME TrackingInv, receipt # NoReceipt, Orderly
               PROVE  receipt.run = Latest
    BY DEF MatchedRunIsOurs
  <2> DEFINE d == receipt.run
  <2>1. /\ d \in 1 .. Latest /\ runs[d] # NoRun /\ Work[d] = Work[Latest]
        /\ runs[d].created >= dispatched[Latest] - Skew
    BY DEF TrackingInv, ReceiptInv
  <2>2. /\ d \in Nat /\ Latest \in 1 .. Latest
        /\ dispatched[d] \in Int /\ dispatched[Latest] \in Int
        /\ drift \in Int /\ Skew \in Nat /\ Window \in Nat
    BY <2>1, Numbers
  <2>3. runs[d].created \in Int
    <3>1. d \in Dispatches
      BY <2>1, Numbers
    <3> QED
      BY <2>1, <3>1, RunThere DEF Row
  <2>4. runs[d].created <= dispatched[d] + Window + drift /\ drift <= Skew
    BY <2>1, <2>2 DEF Orderly
  <2>5. d < Latest => dispatched[Latest] > dispatched[d] + Window + 2 * Skew
    BY <2>1, <2>2 DEF Orderly
  <2> HIDE DEF d
  <2>6. ~(d < Latest)
    BY <2>1, <2>2, <2>3, <2>4, <2>5
  <2> QED
    BY <2>1, <2>2, <2>6 DEF d
<1> QED
  BY <1>1, TrackingInvariant, PTL

(* What Verify goes by are observations of the run of the receipt.         *)
LEMMA JudgedObservations ==
  ASSUME TrackingInv, NEW obs \in SUBSET observations
  PROVE  \A o \in Exactly(receipt, obs) :
           /\ o \in Observation /\ ObservationInv(o)
           /\ o.run = receipt.run
           /\ o.state \in Active \cup {"SUCCEEDED", "FAILED"}
<1>1. \A o \in obs : o \in Observation /\ ObservationInv(o)
  BY DEF TrackingInv, TypeOK
<1>2. \A o \in obs : o.state \in Active \cup {"SUCCEEDED", "FAILED"}
  BY <1>1 DEF Observation, Active
<1> QED
  BY <1>1, <1>2 DEF Exactly

(* A run that is called active was active within the heartbeat's age.      *)
THEOREM ActiveWasRecent == Spec => []ActiveIsRecent
<1>1. TrackingInv => ActiveIsRecent
  <2> SUFFICES ASSUME TrackingInv, receipt # NoReceipt, Verdict = "EXACT_ACTIVE_FRESH"
               PROVE  \/ ended[receipt.run].conclusion = "none"
                      \/ ended[receipt.run].at >= now - MaxAge
    BY DEF ActiveIsRecent
  <2>1. PICK o \in Last(Exactly(receipt, observations)) :
          o.state \in Active /\ ~HeartbeatStale(o, now)
    BY VerifyTells DEF Verdict
  <2>2. o \in Exactly(receipt, observations)
    BY DEF Last
  <2>3. o \in Observation /\ ObservationInv(o) /\ o.run = receipt.run
    BY <2>2, JudgedObservations
  <2>4. NotEndedBefore(receipt.run, o.updated) /\ o.updated \in Int
    BY <2>1, <2>3 DEF ObservationInv, Observation
  <2>5. now - o.updated <= MaxAge
    BY <2>1, <2>4, Numbers DEF HeartbeatStale
  <2>6. ended[receipt.run].at \in Int
    <3>1. receipt.run \in Dispatches
      BY <2>3 DEF ObservationInv
    <3> QED
      BY <3>1 DEF TrackingInv
  <2> QED
    BY <2>4, <2>5, <2>6, Numbers DEF NotEndedBefore
<1> QED
  BY <1>1, TrackingInvariant, PTL

(* Success and failure are told of the end of the first attempt.           *)
LEMMA TerminalTells ==
  ASSUME TrackingInv, NEW obs \in SUBSET observations, NEW asOf, NEW gated
  PROVE  /\ Verify(receipt, obs, asOf, gated) = "EXACT_SUCCEEDED" =>
              ended[receipt.run].conclusion = "success"
         /\ Verify(receipt, obs, asOf, gated) = "EXACT_FAILED" =>
              ended[receipt.run].conclusion = "failure"
<1> DEFINE v == Verify(receipt, obs, asOf, gated)
           exact == Exactly(receipt, obs)
<1>1. /\ v = "EXACT_SUCCEEDED" => \E o \in Last(exact) : o.state = "SUCCEEDED"
      /\ v = "EXACT_FAILED" =>
           exact # {} /\ \A o \in Last(exact) : o.state \notin Active \cup {"SUCCEEDED"}
  BY VerifyTells
<1>2. \A o \in exact : /\ o \in Observation /\ ObservationInv(o) /\ o.run = receipt.run
                       /\ o.state \in Active \cup {"SUCCEEDED", "FAILED"}
  BY JudgedObservations
<1>3. \A o \in Last(exact) : o \in exact
  BY DEF Last
<1> HIDE DEF v, exact
<1>4. v = "EXACT_SUCCEEDED" => ended[receipt.run].conclusion = "success"
  BY <1>1, <1>2, <1>3 DEF ObservationInv
<1>5. ASSUME v = "EXACT_FAILED" PROVE ended[receipt.run].conclusion = "failure"
  <2>1. \A o \in exact : o.observed \in Int /\ o.observed <= now
    BY <1>2 DEF Observation, ObservationInv
  <2>2. PICK o : o \in Last(exact)
    BY <1>1, <1>5, <2>1, LastExists, Numbers
  <2>3. o.state = "FAILED"
    BY <1>1, <1>2, <1>3, <1>5, <2>2
  <2> QED
    BY <1>2, <1>3, <2>2, <2>3 DEF ObservationInv
<1> QED
  BY <1>4, <1>5 DEF v

(* Terminal verdicts are about the attempt the dispatch is accountable for.*)
THEOREM TerminalIsOfFirstAttempt == Spec => []TerminalIsFirstAttempt
<1>1. TrackingInv => TerminalIsFirstAttempt
  <2> SUFFICES ASSUME TrackingInv
               PROVE  /\ Verdict = "EXACT_SUCCEEDED" => ended[receipt.run].conclusion = "success"
                      /\ Verdict = "EXACT_FAILED" => ended[receipt.run].conclusion = "failure"
    BY DEF TerminalIsFirstAttempt
  <2> QED
    BY TerminalTells DEF Verdict
<1> QED
  BY <1>1, TrackingInvariant, PTL

(* Evidence that is ready says what an artifact of the run reports.        *)
THEOREM EvidenceIsHonest == Spec => []EvidenceHonest
<1>1. TrackingInv => EvidenceHonest
  <2> SUFFICES ASSUME TrackingInv, receipt # NoReceipt, NEW o \in observations,
                      Outcome(o) = "EVIDENCE_READY"
               PROVE  LET e == EvidenceOf(receipt, bundles) IN
                      /\ \E b \in artifacts :
                           /\ b.run = receipt.run
                           /\ b.intact
                           /\ b.state = e.state
                           /\ e.state = "SUCCEEDED" => b.confirmed /\ b.effect = "NONE"
                           /\ e.state = "FAILED" => (e.effect <=> b.effect # "NONE")
                      /\ RanOnce(receipt.run) => ended[receipt.run].conclusion = "success"
    BY Zenon DEF EvidenceHonest
  <2> DEFINE exact == BundlesOf(receipt, bundles)
             b == CHOOSE c \in exact : TRUE
             e == EvidenceOf(receipt, bundles)
  <2>1. /\ Verify(receipt, {o}, now, FALSE) = "EXACT_SUCCEEDED"
        /\ exact # {}
        /\ \A c \in exact : /\ c.intact
                            /\ c.state = "SUCCEEDED" => c.confirmed /\ c.effect = "NONE"
    <3> DEFINE deadline == o.updated + Window
    <3>1. OutcomeStatus(receipt, o, bundles, deadline, bundledAt, now, FALSE)
            = "EVIDENCE_READY"
      BY Zenon DEF Outcome
    <3> HIDE DEF exact, b, e, deadline
    <3>2. /\ Verify(receipt, {o}, now, FALSE) = "EXACT_SUCCEEDED"
          /\ BundlesOf(receipt, bundles) # {}
          /\ \A c \in BundlesOf(receipt, bundles) :
               /\ c.intact
               /\ c.state = "SUCCEEDED" => c.confirmed /\ c.effect = "NONE"
      BY <3>1, OutcomeTells
    <3> QED
      BY <3>2 DEF exact
  <2>2. ended[receipt.run].conclusion = "success"
    BY <2>1, TerminalTells
  <2>3. b \in exact
    BY <2>1, Zenon
  <2>4. b \in artifacts /\ b.run = receipt.run
    BY <2>3 DEF TrackingInv, BundlesOf
  <2>5. e = [run |-> receipt.run, state |-> b.state,
             effect |-> b.state = "FAILED" /\ b.effect # "NONE"]
    BY Zenon DEF EvidenceOf
  <2> HIDE DEF b, e, exact
  <2>6. /\ e.state = b.state
        /\ e.effect <=> (b.state = "FAILED" /\ b.effect # "NONE")
    BY <2>5
  <2>7. b.intact /\ (b.state = "SUCCEEDED" => b.confirmed /\ b.effect = "NONE")
    BY <2>1, <2>3
  <2>8. e.state = "FAILED" => (e.effect <=> b.effect # "NONE")
    BY <2>6
  <2>9. \E c \in artifacts :
           /\ c.run = receipt.run
           /\ c.intact
           /\ c.state = e.state
           /\ e.state = "SUCCEEDED" => c.confirmed /\ c.effect = "NONE"
           /\ e.state = "FAILED" => (e.effect <=> c.effect # "NONE")
    <3>1. b.state = e.state /\ (e.state = "SUCCEEDED" => b.confirmed /\ b.effect = "NONE")
      BY <2>6, <2>7
    <3> QED
      BY <2>4, <2>7, <2>8, <3>1
  <2> QED
    BY <2>2, <2>9, Zenon DEF e
<1> QED
  BY <1>1, TrackingInvariant, PTL
=============================================================================
