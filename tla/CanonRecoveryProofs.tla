------------------------- MODULE CanonRecoveryProofs -------------------------
(***************************************************************************)
(* Theorems about CanonRecovery and the answers built on it, for any       *)
(* records, callers, errors and restarts.                                  *)
(***************************************************************************)
EXTENDS TruthAwareAnswers, FiniteSetTheorems, TLAPS

-----------------------------------------------------------------------------
(* The strengthened invariant                                              *)

(* The later version of a record is a development of the earlier one.      *)
Develops(old, new) ==
  /\ Advanced(old, new)
  /\ old # NoRecord =>
       \/ new.knowledge_type = old.knowledge_type
       \/ old.knowledge_type = "IDEA" /\ new.knowledge_type = "DECISION"

Keyed(records) == \A id \in Ids : records[id] # NoRecord => records[id].id = id

Lists(order, records) ==
  \A id \in Ids : records[id] # NoRecord <=> \E i \in DOMAIN order : order[i] = id

(* The dictionaries are what their orders say, and the memory is never     *)
(* behind Canon.                                                           *)
MemoryInv ==
  /\ Keyed(canon)
  /\ Keyed(gate)
  /\ Lists(rowOrder, canon)
  /\ Lists(gateOrder, gate)
  /\ \A id \in Ids : Develops(canon[id], gate[id])

(* What is not yet in Canon is still to be compared.                       *)
SyncInv ==
  /\ pc # "syncing" => todo = <<>> /\ sent = 0
  /\ pc = "syncing" =>
       /\ \A i \in DOMAIN todo : gate[todo[i]] # NoRecord
       /\ \A id \in Ids : canon[id] = gate[id] \/ \E i \in DOMAIN todo : todo[i] = id

Kept(r) ==
  /\ canon[r.id] # NoRecord
  /\ SameFact(canon[r.id], r)
  /\ canon[r.id].knowledge_type \in {r.knowledge_type, "DECISION"}

(* What a call is about to return is true by then.                         *)
ResultInv ==
  /\ pc = "syncing" => result # NoRecord
  /\ result # NoRecord =>
       /\ pc = "syncing" => gate[result.id] = result
       /\ pc \in {"projecting", "reconciling"} => Kept(result)
  /\ pc = "idle" /\ reply = "stored" => result # NoRecord /\ Kept(result)
  /\ pc # "idle" => reply = "none"

Projected(id) == canon[id] \in index /\ Partition(canon[id]) \in opened

Due(id) == Projected(id) \/ \E i \in DOMAIN changed : changed[i] = canon[id]

(* What is not yet in the index is still to be projected.                  *)
IndexInv ==
  /\ \A i \in DOMAIN changed : changed[i] = canon[changed[i].id]
  /\ pc = "idle" => changed = <<>>
  /\ pc = "syncing" =>
       /\ \A i \in DOMAIN changed : changed[i] = gate[changed[i].id]
       /\ canon[result.id] # gate[result.id] \/ Due(result.id)
  /\ pc \in {"projecting", "reconciling"} =>
       IF result # NoRecord THEN Due(result.id)
       ELSE \A id \in Ids : canon[id] # NoRecord => Due(id)
  /\ reply = "stored" => Projected(result.id)
  /\ reply = "reconciled" => \A id \in Ids : canon[id] # NoRecord => Projected(id)
-----------------------------------------------------------------------------
(* The router                                                              *)

LEMMA NoRecordApart == NoRecord \notin KnowledgeRecord
BY RouterAssumption DEF NoRecord, KnowledgeRecord

(* Writing a record keeps the types.                                       *)
LEMMA WrittenType ==
  ASSUME NEW records \in [Ids -> Stored], NEW r \in KnowledgeRecord, NEW a,
         Admitted(records, r, a)
  PROVE  /\ Written(records, r) \in [Ids -> Stored]
         /\ AsStored(records, r) \in KnowledgeRecord
         /\ WriteEvent(records, r) \in HistoryEvent
<1>1. ASSUME NEW s \in KnowledgeRecord, NEW status \in EpistemicStatus
      PROVE  WithStatus(s, status) \in KnowledgeRecord
  BY DEF WithStatus, KnowledgeRecord
<1>2. {"SUPERSEDED", "CONFLICTING"} \subseteq EpistemicStatus
  BY DEF EpistemicStatus
<1>3. AsStored(records, r) \in KnowledgeRecord
  BY <1>1, <1>2 DEF AsStored
<1>4. ASSUME NEW id \in Ids
      PROVE  Mark(records, r, id) \in Stored
  <2>1. CASE r.knowledge_type = "CORRECTION" /\ id = r.predecessor
    BY <2>1, <1>1, <1>2 DEF Mark, Admitted, Correctable, Stored
  <2>2. CASE r.knowledge_type # "CORRECTION" /\ id \in Conflicts(records, r)
    BY <2>2, <1>1, <1>2 DEF Mark, Conflicts, Stored
  <2> QED
    BY <2>1, <2>2 DEF Mark
<1>5. Written(records, r) \in [Ids -> Stored]
  BY <1>3, <1>4 DEF Written, Stored
<1>6. r.id \in Ids /\ Conflicts(records, r) \subseteq Ids
  BY DEF KnowledgeRecord, Conflicts
<1>7. r.knowledge_type = "CORRECTION" => {r.predecessor} \subseteq Ids
  BY DEF Admitted, Correctable, KnowledgeRecord
<1>8. WriteEvent(records, r) \in HistoryEvent
  BY <1>6, <1>7 DEF WriteEvent, HistoryEvent
<1> QED
  BY <1>3, <1>5, <1>8

(* What is stored for a record is the record, marked at most.              *)
LEMMA StoredAsGiven ==
  ASSUME NEW records, NEW r \in KnowledgeRecord
  PROVE  /\ SameFact(AsStored(records, r), r)
         /\ AsStored(records, r).id = r.id
         /\ AsStored(records, r).knowledge_type = r.knowledge_type
         /\ AsStored(records, r).epistemic_status \in {r.epistemic_status, "CONFLICTING"}
BY DEF AsStored, WithStatus, SameFact, SameScope, Partition, KnowledgeRecord

(* Writing a record only marks the others.                                 *)
LEMMA OthersDevelop ==
  ASSUME NEW records \in [Ids -> Stored], NEW r \in KnowledgeRecord, NEW a,
         Admitted(records, r, a), NEW id \in Ids, id # r.id
  PROVE  /\ Written(records, r)[id] = Mark(records, r, id)
         /\ Develops(records[id], Written(records, r)[id])
         /\ records[id] = NoRecord => Written(records, r)[id] = NoRecord
         /\ records[id] # NoRecord =>
              /\ Written(records, r)[id] # NoRecord
              /\ Written(records, r)[id].id = records[id].id
              /\ Written(records, r)[id].knowledge_type = records[id].knowledge_type
<1>1. Written(records, r)[id] = Mark(records, r, id)
  BY DEF Written
<1>2. ASSUME NEW s \in KnowledgeRecord, NEW status \in EpistemicStatus,
             s.epistemic_status = "SUPERSEDED" => status = "SUPERSEDED",
             s.epistemic_status = "CONFLICTING" => status \in {"CONFLICTING", "SUPERSEDED"}
      PROVE  /\ Develops(s, WithStatus(s, status))
             /\ WithStatus(s, status) # NoRecord
             /\ WithStatus(s, status).id = s.id
             /\ WithStatus(s, status).knowledge_type = s.knowledge_type
  <2>1. WithStatus(s, status) \in KnowledgeRecord
    BY DEF WithStatus, KnowledgeRecord
  <2> QED
    BY <2>1, <1>2, NoRecordApart
    DEF WithStatus, Develops, Advanced, SameFact, SameScope, Partition
<1>3. ASSUME NEW s \in Stored
      PROVE  Develops(s, s)
  BY DEF Develops, Advanced, SameFact, SameScope
<1>4. "SUPERSEDED" \in EpistemicStatus /\ "CONFLICTING" \in EpistemicStatus
  BY DEF EpistemicStatus
<1>5. CASE r.knowledge_type = "CORRECTION" /\ id = r.predecessor
  <2>1. records[id] \in KnowledgeRecord /\ records[id] # NoRecord
    BY <1>5 DEF Admitted, Correctable, Stored
  <2>2. Mark(records, r, id) = WithStatus(records[id], "SUPERSEDED")
    BY <1>5 DEF Mark
  <2> QED
    BY <2>1, <2>2, <1>1, <1>2, <1>4
<1>6. CASE r.knowledge_type # "CORRECTION" /\ id \in Conflicts(records, r)
  <2>1. /\ records[id] \in KnowledgeRecord /\ records[id] # NoRecord
        /\ records[id].epistemic_status # "SUPERSEDED"
    BY <1>6 DEF Conflicts, Stored
  <2>2. Mark(records, r, id) = WithStatus(records[id], "CONFLICTING")
    BY <1>6 DEF Mark
  <2> QED
    BY <2>1, <2>2, <1>1, <1>2, <1>4
<1>7. CASE Mark(records, r, id) = records[id]
  BY <1>7, <1>1, <1>3
<1> QED
  BY <1>5, <1>6, <1>7 DEF Mark

(* A promotion changes the type of one record and nothing else.            *)
LEMMA PromotedDevelops ==
  ASSUME NEW records \in [Ids -> Stored], Keyed(records), NEW id \in Ids, NEW a,
         Promotable(records, id, a)
  PROVE  /\ Promoted(records, id) \in [Ids -> Stored]
         /\ Promoted(records, id)[id] \in KnowledgeRecord
         /\ Promoted(records, id)[id] # NoRecord
         /\ Promoted(records, id)[id].id = id
         /\ Promoted(records, id)[id].knowledge_type = "DECISION"
         /\ Promoted(records, id)[id].epistemic_status = records[id].epistemic_status
         /\ Develops(records[id], Promoted(records, id)[id])
         /\ \A other \in Ids \ {id} : Promoted(records, id)[other] = records[other]
         /\ PromoteEvent(id) \in HistoryEvent
<1>1. records[id] \in KnowledgeRecord /\ records[id].id = id
  BY DEF Promotable, Stored, Keyed
<1>2. Promoted(records, id)[id] = WithType(records[id], "DECISION")
  BY DEF Promoted
<1>3. WithType(records[id], "DECISION") \in KnowledgeRecord
  BY <1>1 DEF WithType, KnowledgeRecord, KnowledgeType
<1>4. Develops(records[id], WithType(records[id], "DECISION"))
  BY <1>1, <1>3, NoRecordApart
  DEF WithType, Develops, Advanced, SameFact, SameScope, Partition, Promotable
<1>5. Promoted(records, id) \in [Ids -> Stored]
  BY <1>3 DEF Promoted, Stored
<1>6. PromoteEvent(id) \in HistoryEvent
  BY DEF PromoteEvent, HistoryEvent
<1> QED
  BY <1>1, <1>2, <1>3, <1>4, <1>5, <1>6, NoRecordApart DEF Promoted, WithType

LEMMA DevelopsTwice ==
  ASSUME NEW r \in Stored, NEW s \in Stored, NEW t \in Stored,
         Develops(r, s), Develops(s, t)
  PROVE  Develops(r, t)
BY DEF Develops, Advanced, SameFact, SameScope

LEMMA DevelopsItself ==
  ASSUME NEW r \in Stored
  PROVE  Develops(r, r)
BY DEF Develops, Advanced, SameFact, SameScope

-----------------------------------------------------------------------------
(* Steps                                                                   *)

IInv ==
  TypeOK /\ MemoryInv /\ SyncInv /\ ResultInv /\ IndexInv /\ AcceptedKept

Refusal == pc = "idle" /\ Refuse

NewWrite(d, a) ==
  /\ pc = "idle"
  /\ Fresh(d)
  /\ Admitted(gate, d, a)
  /\ StartSync(Written(gate, d), WriteEvent(gate, d), AsStored(gate, d))

Promotion(id, a) ==
  /\ pc = "idle"
  /\ ~IsDecision(id)
  /\ Promotable(gate, id, a)
  /\ StartSync(Promoted(gate, id), PromoteEvent(id), Promoted(gate, id)[id])

Reprojection(phase, r) ==
  /\ pc = "idle"
  /\ phase \in {"projecting", "reconciling"}
  /\ r = NoRecord \/ \E id \in Ids : canon[id] = r
  /\ StartProjection(phase, r)

Recovery == Restart \/ \E r \in Rogues : Corrupt(r)

LEMMA CallCases ==
  ASSUME IInv, Call
  PROVE  \/ Refusal
         \/ \E d \in Drafts, a \in Authorities : NewWrite(d, a)
         \/ \E id \in Ids, a \in Authorities : Promotion(id, a)
         \/ \E phase, r : Reprojection(phase, r)
<1>1. ASSUME NEW d \in Drafts, WriteAgain(d)
      PROVE  Refusal \/ \E phase, r : Reprojection(phase, r)
  <2>1. d.id \in Ids
    BY RecoveryAssumption DEF KnowledgeRecord
  <2> QED
    BY <2>1, <1>1 DEF WriteAgain, Refusal, Reprojection
<1>2. ASSUME NEW d \in Drafts, NEW a \in Authorities, WriteNew(d, a)
      PROVE  Refusal \/ NewWrite(d, a)
  BY <1>2 DEF WriteNew, Refusal, NewWrite
<1>3. ASSUME NEW id \in Ids, NEW a \in Authorities, PromoteNew(id, a)
      PROVE  Refusal \/ Promotion(id, a)
  BY <1>3 DEF PromoteNew, Refusal, Promotion
<1>4. ASSUME NEW id \in Ids, NEW a \in Authorities, PromoteAgain(id, a)
      PROVE  Refusal \/ \E phase, r : Reprojection(phase, r)
  BY <1>4 DEF PromoteAgain, Refusal, Reprojection
<1>5. ASSUME ReconcileIndex \/ RebuildIndex
      PROVE  \E phase, r : Reprojection(phase, r)
  BY <1>5 DEF ReconcileIndex, RebuildIndex, Reprojection
<1> QED
  BY <1>1, <1>2, <1>3, <1>4, <1>5 DEF Call

LEMMA NextCases ==
  ASSUME IInv, [Next]_vars
  PROVE  \/ Refusal
         \/ \E d \in Drafts, a \in Authorities : NewWrite(d, a)
         \/ \E id \in Ids, a \in Authorities : Promotion(id, a)
         \/ \E phase, r : Reprojection(phase, r)
         \/ PutRecord \/ AppendEvent \/ AdvanceCursor
         \/ Project \/ Return
         \/ CanonFails \/ IndexFails \/ Recovery
         \/ UNCHANGED vars
BY CallCases DEF Next, Sync, Fault, Recovery

(* What a sync begins with.                                                *)
LEMMA SyncBegins ==
  ASSUME IInv,
         \/ \E d \in Drafts, a \in Authorities : NewWrite(d, a)
         \/ \E id \in Ids, a \in Authorities : Promotion(id, a)
  PROVE  /\ gate' \in [Ids -> Stored]
         /\ result' \in KnowledgeRecord /\ result' # NoRecord
         /\ gate'[result'.id] = result'
         /\ canon[result'.id] # gate'[result'.id]
         /\ \E e \in HistoryEvent : backlog' = Append(backlog, e)
         /\ gateOrder' = IF gate[result'.id] = NoRecord THEN Append(gateOrder, result'.id)
                         ELSE gateOrder
         /\ \A id \in Ids : id # result'.id =>
              /\ gate[id] = NoRecord => gate'[id] = NoRecord
              /\ gate[id] # NoRecord => gate'[id] # NoRecord /\ gate'[id].id = id
         /\ \A id \in Ids : Develops(canon[id], gate'[id])
         /\ pc = "idle" /\ pc' = "syncing" /\ reply' = "none"
         /\ todo' = gateOrder' /\ changed' = <<>>
         /\ UNCHANGED <<durable, index, opened, sent, accepted, faults>>
<1> USE DEF IInv
<1>1. ASSUME NEW d \in Drafts, NEW a \in Authorities, NewWrite(d, a)
      PROVE  /\ gate' \in [Ids -> Stored]
             /\ result' \in KnowledgeRecord /\ result'.id = d.id
             /\ gate'[d.id] = result'
             /\ canon[d.id] = NoRecord
             /\ \E e \in HistoryEvent : backlog' = Append(backlog, e)
             /\ \A id \in Ids : id # d.id =>
                  /\ gate[id] = NoRecord => gate'[id] = NoRecord
                  /\ gate[id] # NoRecord => gate'[id] # NoRecord /\ gate'[id].id = id
             /\ \A id \in Ids : Develops(canon[id], gate'[id])
  <2>1. d \in KnowledgeRecord /\ d.id \in Ids /\ gate \in [Ids -> Stored]
    BY RecoveryAssumption DEF KnowledgeRecord, TypeOK
  <2>2. /\ gate' = Written(gate, d) /\ result' = AsStored(gate, d)
        /\ backlog' = Append(backlog, WriteEvent(gate, d))
        /\ Admitted(gate, d, a) /\ canon[d.id] = NoRecord
    BY <1>1 DEF NewWrite, StartSync, Fresh
  <2>3. gate' \in [Ids -> Stored] /\ result' \in KnowledgeRecord
        /\ WriteEvent(gate, d) \in HistoryEvent
    BY <2>1, <2>2, WrittenType
  <2>4. result'.id = d.id
    BY <2>1, <2>2, StoredAsGiven
  <2>5. gate'[d.id] = result'
    BY <2>1, <2>2 DEF Written
  <2>6. ASSUME NEW id \in Ids, id # d.id
        PROVE  /\ Develops(gate[id], gate'[id])
               /\ gate[id] = NoRecord => gate'[id] = NoRecord
               /\ gate[id] # NoRecord => gate'[id] # NoRecord /\ gate'[id].id = id
    <3>1. gate[id] # NoRecord => gate[id].id = id
      BY DEF MemoryInv, Keyed
    <3> QED
      BY <2>1, <2>2, <2>6, <3>1, OthersDevelop
  <2>7. ASSUME NEW id \in Ids
        PROVE  Develops(canon[id], gate'[id])
    <3>1. CASE id = d.id
      BY <3>1, <2>2 DEF Develops, Advanced
    <3>2. CASE id # d.id
      BY <3>2, <2>3, <2>6, DevelopsTwice DEF MemoryInv, TypeOK
    <3> QED
      BY <3>1, <3>2
  <2> QED
    BY <2>2, <2>3, <2>4, <2>5, <2>6, <2>7
<1>2. ASSUME NEW i \in Ids, NEW a \in Authorities, Promotion(i, a)
      PROVE  /\ gate' \in [Ids -> Stored]
             /\ result' \in KnowledgeRecord /\ result'.id = i
             /\ gate'[i] = result'
             /\ gate[i] # NoRecord
             /\ canon[i] # result'
             /\ \E e \in HistoryEvent : backlog' = Append(backlog, e)
             /\ \A id \in Ids : id # i => gate'[id] = gate[id]
             /\ \A id \in Ids : Develops(canon[id], gate'[id])
  <2>1. gate \in [Ids -> Stored] /\ Keyed(gate) /\ Promotable(gate, i, a)
    BY <1>2 DEF TypeOK, MemoryInv, Promotion
  <2>2. /\ gate' = Promoted(gate, i) /\ result' = Promoted(gate, i)[i]
        /\ backlog' = Append(backlog, PromoteEvent(i))
    BY <1>2 DEF Promotion, StartSync
  <2>3. /\ gate' \in [Ids -> Stored] /\ result' \in KnowledgeRecord /\ result'.id = i
        /\ result'.knowledge_type = "DECISION" /\ result' # NoRecord
        /\ Develops(gate[i], gate'[i])
        /\ \A other \in Ids \ {i} : gate'[other] = gate[other]
        /\ PromoteEvent(i) \in HistoryEvent
    BY <2>1, <2>2, PromotedDevelops
  <2>4. canon[i] # result'
    BY <1>2, <2>3 DEF Promotion, IsDecision
  <2>5. ASSUME NEW id \in Ids
        PROVE  Develops(canon[id], gate'[id])
    <3>1. canon[id] \in Stored /\ gate[id] \in Stored /\ gate'[id] \in Stored
          /\ Develops(canon[id], gate[id])
      BY <2>3 DEF TypeOK, MemoryInv
    <3>2. CASE id = i
      BY <3>1, <3>2, <2>3, DevelopsTwice
    <3>3. CASE id # i
      BY <3>1, <3>3, <2>3
    <3> QED
      BY <3>2, <3>3
  <2> QED
    BY <2>1, <2>2, <2>3, <2>4, <2>5 DEF Promotable
<1>3. CASE \E d \in Drafts, a \in Authorities : NewWrite(d, a)
  <2>1. PICK d \in Drafts, a \in Authorities : NewWrite(d, a)
    BY <1>3
  <2>2. /\ gateOrder' = IF gate[result'.id] = NoRecord THEN Append(gateOrder, result'.id)
                        ELSE gateOrder
        /\ pc = "idle" /\ pc' = "syncing" /\ reply' = "none"
        /\ todo' = gateOrder' /\ changed' = <<>>
        /\ UNCHANGED <<durable, index, opened, sent, accepted, faults>>
    BY <2>1 DEF NewWrite, StartSync
  <2>3. d.id \in Ids
    BY RecoveryAssumption DEF KnowledgeRecord
  <2> QED
    BY <2>1, <2>2, <2>3, <1>1, NoRecordApart
<1>4. CASE \E i \in Ids, a \in Authorities : Promotion(i, a)
  <2>1. PICK i \in Ids, a \in Authorities : Promotion(i, a)
    BY <1>4
  <2>2. /\ gateOrder' = IF gate[result'.id] = NoRecord THEN Append(gateOrder, result'.id)
                        ELSE gateOrder
        /\ pc = "idle" /\ pc' = "syncing" /\ reply' = "none"
        /\ todo' = gateOrder' /\ changed' = <<>>
        /\ UNCHANGED <<durable, index, opened, sent, accepted, faults>>
    BY <2>1 DEF Promotion, StartSync
  <2>3. \A id \in Ids : gate[id] # NoRecord => gate[id].id = id
    BY DEF MemoryInv, Keyed
  <2> QED
    BY <2>1, <2>2, <2>3, <1>2, NoRecordApart
<1> QED
  BY <1>3, <1>4

(* What putting a record does.                                             *)
LEMMA PutEffect ==
  ASSUME IInv, PutRecord
  PROVE  LET id == Head(todo) IN
         /\ id \in Ids /\ gate[id] \in KnowledgeRecord /\ gate[id] # NoRecord
         /\ gate[id].id = id
         /\ canon' \in [Ids -> Stored]
         /\ canon'[id] = gate[id]
         /\ \A other \in Ids \ {id} : canon'[other] = canon[other]
         /\ \A other \in Ids : Develops(canon[other], canon'[other])
         /\ changed' = IF canon[id] = gate[id] THEN changed ELSE Append(changed, gate[id])
         /\ rowOrder' = IF canon[id] = NoRecord THEN Append(rowOrder, id) ELSE rowOrder
         /\ todo' = Tail(todo) /\ todo' \in Seq(Ids)
<1> USE DEF IInv
<1>1. todo \in Seq(Ids) /\ todo # <<>>
  BY DEF TypeOK, PutRecord
<1>2. Head(todo) \in Ids /\ 1 \in DOMAIN todo /\ Head(todo) = todo[1] /\ Tail(todo) \in Seq(Ids)
  BY <1>1
<1>3. gate[Head(todo)] # NoRecord
  BY <1>2 DEF SyncInv, PutRecord
<1>4. gate[Head(todo)] \in KnowledgeRecord /\ gate[Head(todo)].id = Head(todo)
  BY <1>2, <1>3 DEF TypeOK, Stored, MemoryInv, Keyed
<1>5. /\ canon' = [canon EXCEPT ![Head(todo)] = gate[Head(todo)]]
      /\ changed' = IF canon[Head(todo)] = gate[Head(todo)] THEN changed
                    ELSE Append(changed, gate[Head(todo)])
      /\ rowOrder' = IF canon[Head(todo)] = NoRecord THEN Append(rowOrder, Head(todo))
                     ELSE rowOrder
      /\ todo' = Tail(todo)
  BY DEF PutRecord
<1>6. ASSUME NEW other \in Ids
      PROVE  Develops(canon[other], canon'[other])
  <2>1. CASE other = Head(todo)
    BY <2>1, <1>5, <1>2 DEF TypeOK, MemoryInv
  <2>2. CASE other # Head(todo)
    BY <2>2, <1>5, DevelopsItself DEF TypeOK
  <2> QED
    BY <2>1, <2>2
<1>7. canon' \in [Ids -> Stored]
  BY <1>2, <1>4, <1>5 DEF TypeOK, Stored
<1> QED
  BY <1>2, <1>3, <1>4, <1>5, <1>6, <1>7 DEF TypeOK

(* All of Canon, in the order of its rows, is a sequence of its records.   *)
LEMMA SnapshotType ==
  ASSUME IInv
  PROVE  /\ Snapshot \in Seq(KnowledgeRecord)
         /\ \A i \in DOMAIN Snapshot : Snapshot[i] = canon[Snapshot[i].id]
         /\ \A id \in Ids : canon[id] # NoRecord => \E i \in DOMAIN Snapshot : Snapshot[i] = canon[id]
<1> USE DEF IInv
<1>1. rowOrder \in Seq(Ids) /\ DOMAIN rowOrder = 1 .. Len(rowOrder) /\ Len(rowOrder) \in Nat
  BY DEF TypeOK
<1>2. ASSUME NEW i \in 1 .. Len(rowOrder)
      PROVE  canon[rowOrder[i]] \in KnowledgeRecord /\ canon[rowOrder[i]].id = rowOrder[i]
  <2>1. rowOrder[i] \in Ids /\ canon[rowOrder[i]] # NoRecord
    BY <1>1 DEF MemoryInv, Lists
  <2> QED
    BY <2>1 DEF TypeOK, Stored, MemoryInv, Keyed
<1>3. DOMAIN Snapshot = 1 .. Len(rowOrder)
  BY DEF Snapshot
<1>4. \A i \in 1 .. Len(rowOrder) : Snapshot[i] = canon[rowOrder[i]]
  BY DEF Snapshot
<1>5. Snapshot \in Seq(KnowledgeRecord)
  BY <1>1, <1>2 DEF Snapshot
<1>6. ASSUME NEW id \in Ids, canon[id] # NoRecord
      PROVE  \E i \in DOMAIN Snapshot : Snapshot[i] = canon[id]
  BY <1>1, <1>3, <1>4, <1>6 DEF MemoryInv, Lists
<1> QED
  BY <1>2, <1>3, <1>4, <1>5, <1>6

LEMMA IndexPutType ==
  ASSUME index \subseteq KnowledgeRecord, NEW r \in KnowledgeRecord, IndexPut(r)
  PROVE  /\ index' \subseteq KnowledgeRecord
         /\ r \in index'
         /\ \A i \in index : i.id # r.id => i \in index'
BY DEF IndexPut

LEMMA PartitionType ==
  ASSUME NEW r \in KnowledgeRecord
  PROVE  Partition(r) \in Partitions
BY DEF Partition, Partitions, KnowledgeRecord

(* What a projection does.                                                 *)
LEMMA ProjectEffect ==
  ASSUME IInv, Project
  PROVE  LET r == Head(changed) IN
         /\ r \in KnowledgeRecord /\ r = canon[r.id] /\ changed # <<>> /\ r = changed[1]
         /\ changed' = Tail(changed) /\ changed' \in Seq(KnowledgeRecord)
         /\ index' \subseteq KnowledgeRecord
         /\ r \in index' /\ \A i \in index : i.id # r.id => i \in index'
         /\ opened' = opened \cup {Partition(r)} /\ opened' \subseteq Partitions
<1> USE DEF IInv
<1>1. changed \in Seq(KnowledgeRecord) /\ changed # <<>> /\ index \subseteq KnowledgeRecord
  BY DEF TypeOK, Project
<1>2. /\ Head(changed) \in KnowledgeRecord /\ Head(changed) = changed[1]
      /\ 1 \in DOMAIN changed /\ Tail(changed) \in Seq(KnowledgeRecord)
  BY <1>1
<1>3. changed[1] = canon[changed[1].id]
  BY <1>2 DEF IndexInv
<1>4. /\ index' \subseteq KnowledgeRecord
      /\ Head(changed) \in index'
      /\ \A i \in index : i.id # Head(changed).id => i \in index'
  <2>1. CASE IndexPut(Head(changed))
    BY <2>1, <1>1, <1>2, IndexPutType
  <2>2. CASE ContainsCurrent(Head(changed)) /\ UNCHANGED index
    BY <2>2, <1>1 DEF ContainsCurrent
  <2> QED
    BY <2>1, <2>2 DEF Project
<1>5. opened' \subseteq Partitions
  BY <1>2, PartitionType DEF Project, TypeOK
<1> QED
  BY <1>1, <1>2, <1>3, <1>4, <1>5 DEF Project

(* After an error the call is over and the memory is as it was.            *)
LEMMA ErrorEffect ==
  ASSUME IInv, CanonFails \/ IndexFails
  PROVE  /\ pc' = "idle" /\ todo' = <<>> /\ changed' = <<>> /\ sent' = 0
         /\ result' = NoRecord /\ reply' = "failed"
         /\ faults' \in [FaultKinds -> Nat]
         /\ opened \subseteq opened' /\ opened' \subseteq Partitions
         /\ UNCHANGED <<durable, index, memory, accepted>>
<1> USE DEF IInv
<1>1. CASE CanonFails
  BY <1>1, RecoveryAssumption DEF CanonFails, Suffer, FaultKinds, Raise, TypeOK
<1>2. CASE IndexFails
  <2>1. Head(changed) \in KnowledgeRecord
    BY <1>2 DEF IndexFails, TypeOK
  <2>2. opened \subseteq opened' /\ opened' \subseteq Partitions
    BY <2>1, <1>2, PartitionType DEF IndexFails, TypeOK
  <2> QED
    BY <2>2, <1>2, RecoveryAssumption DEF IndexFails, Suffer, FaultKinds, Raise, TypeOK
<1> QED
  BY <1>1, <1>2

LEMMA TypeStep ==
  ASSUME IInv, [Next]_vars
  PROVE  TypeOK'
<1>0. TypeOK
  BY DEF IInv
<1>1. CASE Refusal
  BY <1>0, <1>1 DEF Refusal, Refuse, TypeOK, Stored, durable, memory, work
<1>2. CASE \/ \E d \in Drafts, a \in Authorities : NewWrite(d, a)
           \/ \E id \in Ids, a \in Authorities : Promotion(id, a)
  <2>1. /\ gate' \in [Ids -> Stored]
        /\ result' \in KnowledgeRecord
        /\ \E e \in HistoryEvent : backlog' = Append(backlog, e)
        /\ gateOrder' = IF gate[result'.id] = NoRecord THEN Append(gateOrder, result'.id)
                         ELSE gateOrder
        /\ pc' = "syncing" /\ reply' = "none" /\ todo' = gateOrder' /\ changed' = <<>>
        /\ UNCHANGED <<durable, index, opened, sent, accepted, faults>>
    BY <1>2, SyncBegins
  <2>2. result'.id \in Ids
    BY <2>1 DEF KnowledgeRecord
  <2>3. gateOrder' \in Seq(Ids) /\ backlog' \in Seq(HistoryEvent)
    BY <1>0, <2>1, <2>2 DEF TypeOK
  <2> QED
    BY <1>0, <2>1, <2>3 DEF TypeOK, Stored, durable
<1>3. CASE \E phase, r : Reprojection(phase, r)
  <2>1. PICK phase, r : Reprojection(phase, r)
    BY <1>3
  <2>2. r \in Stored
    BY <1>0, <2>1 DEF Reprojection, TypeOK, Stored
  <2>3. Snapshot \in Seq(KnowledgeRecord)
    BY SnapshotType
  <2> QED
    BY <1>0, <2>1, <2>2, <2>3 DEF Reprojection, StartProjection, TypeOK, durable, memory
<1>4. CASE PutRecord
  <2> DEFINE id == Head(todo)
  <2>1. /\ id \in Ids /\ gate[id] \in KnowledgeRecord
        /\ canon' \in [Ids -> Stored] /\ todo' \in Seq(Ids)
        /\ changed' = IF canon[id] = gate[id] THEN changed ELSE Append(changed, gate[id])
        /\ rowOrder' = IF canon[id] = NoRecord THEN Append(rowOrder, id) ELSE rowOrder
    BY <1>4, PutEffect
  <2> HIDE DEF id
  <2>2. rowOrder' \in Seq(Ids) /\ changed' \in Seq(KnowledgeRecord)
    BY <1>0, <2>1 DEF TypeOK
  <2> QED
    BY <1>0, <1>4, <2>1, <2>2 DEF PutRecord, TypeOK, memory, answer
<1>5. CASE AppendEvent
  <2>1. /\ backlog \in Seq(HistoryEvent) /\ sent \in Nat /\ sent < Len(backlog)
        /\ trail \in Seq(HistoryEvent)
    BY <1>0, <1>5 DEF AppendEvent, TypeOK
  <2>2. backlog[sent + 1] \in HistoryEvent
    BY <2>1
  <2>3. trail' \in Seq(HistoryEvent) /\ sent' \in Nat
    BY <1>5, <2>1, <2>2 DEF AppendEvent
  <2> QED
    BY <1>0, <1>5, <2>3 DEF AppendEvent, TypeOK, memory, answer
<1>6. CASE AdvanceCursor
  BY <1>0, <1>6 DEF AdvanceCursor, TypeOK, durable, answer
<1>7. CASE Project
  <2>1. /\ changed' \in Seq(KnowledgeRecord)
        /\ index' \subseteq KnowledgeRecord /\ opened' \subseteq Partitions
    BY <1>7, ProjectEffect
  <2> QED
    BY <1>0, <1>7, <2>1 DEF Project, TypeOK, durable, memory, answer
<1>8. CASE Return
  BY <1>0, <1>8 DEF Return, TypeOK, Stored, durable, memory
<1>9. CASE CanonFails \/ IndexFails
  <2>1. /\ pc' = "idle" /\ todo' = <<>> /\ changed' = <<>> /\ sent' = 0
        /\ result' = NoRecord /\ reply' = "failed"
        /\ faults' \in [FaultKinds -> Nat] /\ opened' \subseteq Partitions
        /\ UNCHANGED <<durable, index, memory, accepted>>
    BY <1>9, ErrorEffect
  <2> QED
    BY <1>0, <2>1 DEF TypeOK, Stored, durable, memory
<1>10. CASE Restart
  BY <1>0, <1>10, RecoveryAssumption DEF Restart, Suffer, FaultKinds, TypeOK, Stored, durable
<1>11. CASE \E r \in Rogues : Corrupt(r)
  <2>1. PICK r \in Rogues : Corrupt(r)
    BY <1>11
  <2>2. r \in KnowledgeRecord
    BY RecoveryAssumption
  <2>3. index' \subseteq KnowledgeRecord /\ opened' \subseteq Partitions
    BY <1>0, <2>1, <2>2, IndexPutType, PartitionType DEF Corrupt, TypeOK
  <2> QED
    BY <1>0, <2>1, <2>3, RecoveryAssumption DEF Corrupt, Suffer, FaultKinds, TypeOK, Stored, durable, memory,
       work
<1>12. CASE UNCHANGED vars
  BY <1>0, <1>12 DEF vars, TypeOK, durable, memory, work, answer
<1> QED
  BY <1>1, <1>2, <1>3, <1>4, <1>5, <1>6, <1>7, <1>8, <1>9, <1>10, <1>11, <1>12,
     NextCases DEF Recovery

LEMMA AppendLists ==
  ASSUME NEW S, NEW order \in Seq(S), NEW new \in S, NEW x
  PROVE  (\E i \in DOMAIN Append(order, new) : Append(order, new)[i] = x)
            <=> x = new \/ \E i \in DOMAIN order : order[i] = x
<1>1. /\ DOMAIN order = 1 .. Len(order) /\ Len(order) \in Nat
      /\ DOMAIN Append(order, new) = 1 .. Len(order) + 1
      /\ \A i \in 1 .. Len(order) : Append(order, new)[i] = order[i]
      /\ Append(order, new)[Len(order) + 1] = new
  OBVIOUS
<1>2. \A i \in 1 .. Len(order) + 1 : i \in 1 .. Len(order) \/ i = Len(order) + 1
  BY <1>1
<1>3. Len(order) + 1 \in 1 .. Len(order) + 1 /\ 1 .. Len(order) \subseteq 1 .. Len(order) + 1
  BY <1>1
<1> QED
  BY <1>1, <1>2, <1>3

LEMMA TailLists ==
  ASSUME NEW S, NEW order \in Seq(S), order # <<>>, NEW x
  PROVE  /\ (\E i \in DOMAIN order : order[i] = x)
              <=> x = Head(order) \/ \E i \in DOMAIN Tail(order) : Tail(order)[i] = x
         /\ \A i \in DOMAIN Tail(order) : i + 1 \in DOMAIN order /\ Tail(order)[i] = order[i + 1]
<1>1. /\ DOMAIN order = 1 .. Len(order) /\ Len(order) \in Nat /\ Len(order) > 0
      /\ DOMAIN Tail(order) = 1 .. Len(order) - 1
      /\ Head(order) = order[1]
      /\ \A i \in 1 .. Len(order) - 1 : Tail(order)[i] = order[i + 1]
  OBVIOUS
<1>2. ASSUME NEW i \in 1 .. Len(order), i # 1
      PROVE  i - 1 \in 1 .. Len(order) - 1 /\ Tail(order)[i - 1] = order[i]
  <2>1. i - 1 \in 1 .. Len(order) - 1 /\ (i - 1) + 1 = i
    BY <1>1, <1>2
  <2>2. Tail(order)[i - 1] = order[(i - 1) + 1]
    BY <1>1, <2>1
  <2> QED
    BY <2>1, <2>2
<1>3. \A i \in 1 .. Len(order) - 1 : i + 1 \in 1 .. Len(order)
  BY <1>1
<1>4. 1 \in 1 .. Len(order)
  BY <1>1
<1> QED
  BY <1>1, <1>2, <1>3, <1>4

(* Steps that touch neither Canon nor the router.                          *)
LEMMA RecordsQuiet ==
  ASSUME IInv,
         \/ Refusal \/ (\E phase, r : Reprojection(phase, r))
         \/ AppendEvent \/ AdvanceCursor \/ Project \/ Return
         \/ CanonFails \/ IndexFails \/ (\E r \in Rogues : Corrupt(r)) \/ UNCHANGED vars
  PROVE  UNCHANGED <<canon, rowOrder, gate, gateOrder>>
<1>1. CASE CanonFails \/ IndexFails
  BY <1>1, ErrorEffect DEF durable, memory
<1>2. CASE \E phase, r : Reprojection(phase, r)
  BY <1>2 DEF Reprojection, StartProjection, durable, memory
<1>3. CASE \E r \in Rogues : Corrupt(r)
  BY <1>3 DEF Corrupt, durable, memory
<1> QED
  BY <1>1, <1>2, <1>3 DEF Refusal, Refuse, StartProjection, AppendEvent, AdvanceCursor, Project,
     Return, vars, durable, memory

LEMMA MemoryStep ==
  ASSUME IInv, [Next]_vars
  PROVE  MemoryInv'
<1>0. TypeOK /\ MemoryInv
  BY DEF IInv
<1>1. CASE \/ Refusal \/ (\E phase, r : Reprojection(phase, r))
           \/ AppendEvent \/ AdvanceCursor \/ Project \/ Return
           \/ CanonFails \/ IndexFails \/ (\E r \in Rogues : Corrupt(r)) \/ UNCHANGED vars
  <2>1. UNCHANGED <<canon, rowOrder, gate, gateOrder>>
    BY <1>1, RecordsQuiet
  <2> QED
    BY <1>0, <2>1 DEF MemoryInv, Keyed, Lists
<1>2. CASE \/ \E d \in Drafts, a \in Authorities : NewWrite(d, a)
           \/ \E id \in Ids, a \in Authorities : Promotion(id, a)
  <2>1. /\ result' \in KnowledgeRecord /\ result' # NoRecord
        /\ gate'[result'.id] = result'
        /\ gateOrder' = IF gate[result'.id] = NoRecord THEN Append(gateOrder, result'.id)
                         ELSE gateOrder
        /\ \A id \in Ids : id # result'.id =>
              /\ gate[id] = NoRecord => gate'[id] = NoRecord
              /\ gate[id] # NoRecord => gate'[id] # NoRecord /\ gate'[id].id = id
        /\ \A id \in Ids : Develops(canon[id], gate'[id])
        /\ UNCHANGED durable
    BY <1>2, SyncBegins
  <2>2. result'.id \in Ids /\ gateOrder \in Seq(Ids)
    BY <1>0, <2>1 DEF TypeOK, KnowledgeRecord
  <2>3. UNCHANGED <<canon, rowOrder>>
    BY <2>1 DEF durable
  <2>4. Keyed(gate)'
    BY <2>1, <2>2 DEF Keyed
  <2>5. ASSUME NEW id \in Ids
        PROVE  gate'[id] # NoRecord <=> \E i \in DOMAIN gateOrder' : gateOrder'[i] = id
    <3>1. gate[id] # NoRecord <=> \E i \in DOMAIN gateOrder : gateOrder[i] = id
      BY <1>0 DEF MemoryInv, Lists
    <3>2. (\E i \in DOMAIN gateOrder' : gateOrder'[i] = id)
            <=> id = result'.id \/ \E i \in DOMAIN gateOrder : gateOrder[i] = id
      <4>1. CASE gate[result'.id] = NoRecord
        BY <4>1, <2>1, <2>2, AppendLists
      <4>2. CASE gate[result'.id] # NoRecord
        <5>1. \E i \in DOMAIN gateOrder : gateOrder[i] = result'.id
          BY <4>2, <2>2, <1>0 DEF MemoryInv, Lists
        <5> QED
          BY <4>2, <5>1, <2>1
      <4> QED
        BY <4>1, <4>2
    <3> QED
      BY <3>1, <3>2, <2>1
  <2> QED
    BY <1>0, <2>1, <2>3, <2>4, <2>5 DEF MemoryInv, Keyed, Lists
<1>3. CASE PutRecord
  <2> DEFINE id == Head(todo)
  <2>1. /\ id \in Ids /\ gate[id] \in KnowledgeRecord /\ gate[id] # NoRecord
        /\ gate[id].id = id
        /\ canon'[id] = gate[id]
        /\ \A other \in Ids \ {id} : canon'[other] = canon[other]
        /\ rowOrder' = IF canon[id] = NoRecord THEN Append(rowOrder, id) ELSE rowOrder
    BY <1>3, PutEffect
  <2> HIDE DEF id
  <2>2. UNCHANGED <<gate, gateOrder>>
    BY <1>3 DEF PutRecord, memory
  <2>3. Keyed(canon)'
    BY <1>0, <2>1 DEF MemoryInv, Keyed
  <2>4. ASSUME NEW other \in Ids
        PROVE  canon'[other] # NoRecord <=> \E i \in DOMAIN rowOrder' : rowOrder'[i] = other
    <3>1. canon[other] # NoRecord <=> \E i \in DOMAIN rowOrder : rowOrder[i] = other
      BY <1>0 DEF MemoryInv, Lists
    <3>2. CASE canon[id] = NoRecord
      <4>1. (\E i \in DOMAIN rowOrder' : rowOrder'[i] = other)
              <=> other = id \/ \E i \in DOMAIN rowOrder : rowOrder[i] = other
        <5>1. rowOrder \in Seq(Ids) /\ rowOrder' = Append(rowOrder, id)
          BY <3>2, <2>1, <1>0 DEF TypeOK
        <5>2. id \in Ids
          BY <2>1
        <5>3. (\E i \in DOMAIN Append(rowOrder, id) : Append(rowOrder, id)[i] = other)
                <=> other = id \/ \E i \in DOMAIN rowOrder : rowOrder[i] = other
          BY <5>1, <5>2, AppendLists
        <5> QED
          BY <5>1, <5>3
      <4> QED
        BY <4>1, <3>1, <2>1
    <3>3. CASE canon[id] # NoRecord
      BY <3>3, <3>1, <2>1
    <3> QED
      BY <3>2, <3>3
  <2>5. ASSUME NEW other \in Ids
        PROVE  Develops(canon'[other], gate'[other])
    <3>1. CASE other = id
      BY <3>1, <2>1, <2>2, DevelopsItself DEF Stored
    <3>2. CASE other # id
      BY <3>2, <2>1, <2>2, <1>0 DEF MemoryInv
    <3> QED
      BY <3>1, <3>2
  <2> QED
    BY <1>0, <2>2, <2>3, <2>4, <2>5 DEF MemoryInv, Keyed, Lists
<1>4. CASE Restart
  <2>1. gate' = canon /\ gateOrder' = rowOrder /\ canon' = canon /\ rowOrder' = rowOrder
    BY <1>4 DEF Restart, durable
  <2>2. \A id \in Ids : Develops(canon[id], canon[id])
    BY <1>0, DevelopsItself DEF TypeOK
  <2> QED
    BY <1>0, <2>1, <2>2 DEF MemoryInv, Keyed, Lists
<1> QED
  BY <1>1, <1>2, <1>3, <1>4, NextCases DEF Recovery

LEMMA SyncStep ==
  ASSUME IInv, [Next]_vars
  PROVE  SyncInv'
<1>0. TypeOK /\ MemoryInv /\ SyncInv
  BY DEF IInv
<1>1. CASE Refusal \/ UNCHANGED vars
  BY <1>0, <1>1 DEF Refusal, Refuse, vars, durable, memory, work, SyncInv
<1>2. CASE \/ \E d \in Drafts, a \in Authorities : NewWrite(d, a)
           \/ \E id \in Ids, a \in Authorities : Promotion(id, a)
  <2>1. pc' = "syncing" /\ todo' = gateOrder' /\ gate' \in [Ids -> Stored]
    BY <1>2, SyncBegins
  <2>2. MemoryInv' /\ TypeOK'
    BY MemoryStep, TypeStep
  <2>3. ASSUME NEW i \in DOMAIN todo'
        PROVE  gate'[todo'[i]] # NoRecord
    <3>1. todo'[i] \in Ids
      BY <2>2, <2>3 DEF TypeOK
    <3> QED
      BY <3>1, <2>1, <2>2, <2>3 DEF MemoryInv, Lists
  <2>4. ASSUME NEW id \in Ids
        PROVE  canon'[id] = gate'[id] \/ \E i \in DOMAIN todo' : todo'[i] = id
    <3>1. CASE gate'[id] # NoRecord
      BY <3>1, <2>1, <2>2 DEF MemoryInv, Lists
    <3>2. CASE gate'[id] = NoRecord
      BY <3>2, <2>2 DEF MemoryInv, Develops, Advanced
    <3> QED
      BY <3>1, <3>2
  <2> QED
    BY <2>1, <2>3, <2>4 DEF SyncInv
<1>3. CASE PutRecord
  <2> DEFINE id == Head(todo)
  <2>1. /\ id \in Ids
        /\ canon'[id] = gate[id]
        /\ \A other \in Ids \ {id} : canon'[other] = canon[other]
        /\ todo' = Tail(todo)
    BY <1>3, PutEffect
  <2>2. /\ todo \in Seq(Ids) /\ todo # <<>> /\ pc = "syncing" /\ pc' = "syncing"
        /\ gate' = gate
    BY <1>0, <1>3 DEF PutRecord, TypeOK, memory
  <2>3. ASSUME NEW x
        PROVE  /\ (\E i \in DOMAIN todo : todo[i] = x)
                    <=> x = id \/ \E i \in DOMAIN Tail(todo) : Tail(todo)[i] = x
               /\ \A i \in DOMAIN Tail(todo) :
                    i + 1 \in DOMAIN todo /\ Tail(todo)[i] = todo[i + 1]
    BY <2>2, TailLists
  <2> HIDE DEF id
  <2>4. \A i \in DOMAIN todo' : gate'[todo'[i]] # NoRecord
    BY <1>0, <2>1, <2>2, <2>3 DEF SyncInv
  <2>5. ASSUME NEW other \in Ids
        PROVE  canon'[other] = gate'[other] \/ \E i \in DOMAIN todo' : todo'[i] = other
    BY <1>0, <2>1, <2>2, <2>3 DEF SyncInv
  <2> QED
    BY <2>2, <2>4, <2>5 DEF SyncInv
<1>4. CASE AppendEvent
  BY <1>0, <1>4 DEF AppendEvent, SyncInv, memory
<1>5. CASE AdvanceCursor
  BY <1>0, <1>5 DEF AdvanceCursor, SyncInv
<1>6. CASE (\E phase, r : Reprojection(phase, r)) \/ Project \/ Return
  BY <1>0, <1>6 DEF Reprojection, StartProjection, Project, Return, SyncInv, durable, memory
<1>7. CASE CanonFails \/ IndexFails
  <2>1. pc' = "idle" /\ todo' = <<>> /\ sent' = 0
    BY <1>7, ErrorEffect
  <2> QED
    BY <2>1 DEF SyncInv
<1>8. CASE Recovery
  BY <1>0, <1>8 DEF Recovery, Restart, Corrupt, SyncInv, work
<1> QED
  BY <1>1, <1>2, <1>3, <1>4, <1>5, <1>6, <1>7, <1>8, NextCases

(* Canon only ever develops.                                               *)
LEMMA CanonDevelops ==
  ASSUME IInv, [Next]_vars, NEW id \in Ids
  PROVE  Develops(canon[id], canon'[id])
<1>0. canon[id] \in Stored
  BY DEF IInv, TypeOK
<1>1. CASE PutRecord
  BY <1>1, PutEffect
<1>2. CASE canon' = canon
  BY <1>0, <1>2, DevelopsItself
<1>3. ASSUME Restart
      PROVE  canon' = canon
  BY <1>3 DEF Restart, durable
<1>4. ASSUME \/ \E d \in Drafts, a \in Authorities : NewWrite(d, a)
             \/ \E i \in Ids, a \in Authorities : Promotion(i, a)
      PROVE  canon' = canon
  BY <1>4, SyncBegins DEF durable
<1> QED
  BY <1>1, <1>2, <1>3, <1>4, RecordsQuiet, NextCases DEF Recovery

LEMMA KeptStays ==
  ASSUME IInv, [Next]_vars, NEW r \in KnowledgeRecord, Kept(r)
  PROVE  Kept(r)'
<1>1. r.id \in Ids
  BY DEF KnowledgeRecord
<1>2. Develops(canon[r.id], canon'[r.id])
  BY <1>1, CanonDevelops
<1> QED
  BY <1>1, <1>2 DEF Kept, Develops, Advanced, SameFact, SameScope

LEMMA KeptItself ==
  ASSUME NEW r \in KnowledgeRecord, canon[r.id] = r
  PROVE  Kept(r)
BY NoRecordApart DEF Kept, SameFact, SameScope

LEMMA ResultStep ==
  ASSUME IInv, [Next]_vars
  PROVE  ResultInv'
<1>0. TypeOK /\ MemoryInv /\ SyncInv /\ ResultInv
  BY DEF IInv
<1>a. ASSUME result # NoRecord
      PROVE  result \in KnowledgeRecord /\ result.id \in Ids
  BY <1>0, <1>a DEF TypeOK, Stored, KnowledgeRecord
<1>b. ASSUME result # NoRecord, Kept(result), result' = result
      PROVE  Kept(result)'
  BY <1>a, <1>b, KeptStays
<1>1. CASE Refusal
  BY <1>0, <1>1 DEF Refusal, Refuse, ResultInv, work
<1>2. CASE UNCHANGED vars
  <2>1. UNCHANGED <<pc, result, reply, gate>>
    BY <1>2 DEF vars, work, answer, memory
  <2> QED
    BY <1>0, <1>b, <2>1 DEF ResultInv
<1>3. CASE \/ \E d \in Drafts, a \in Authorities : NewWrite(d, a)
           \/ \E id \in Ids, a \in Authorities : Promotion(id, a)
  <2>1. result' # NoRecord /\ gate'[result'.id] = result' /\ pc' = "syncing" /\ reply' = "none"
    BY <1>3, SyncBegins
  <2> QED
    BY <2>1 DEF ResultInv
<1>4. CASE \E phase, r : Reprojection(phase, r)
  <2>1. PICK phase, r : Reprojection(phase, r)
    BY <1>4
  <2>2. /\ pc' \in {"projecting", "reconciling"} /\ result' = r /\ reply' = "none"
        /\ canon' = canon
        /\ r = NoRecord \/ \E id \in Ids : canon[id] = r
    BY <2>1 DEF Reprojection, StartProjection, durable
  <2>3. ASSUME r # NoRecord
        PROVE  Kept(result)'
    <3>1. PICK id \in Ids : canon[id] = r
      BY <2>2, <2>3
    <3>2. r \in KnowledgeRecord /\ canon[r.id] = r
      BY <3>1, <2>3, <1>0 DEF TypeOK, Stored, MemoryInv, Keyed
    <3>3. Kept(r)
      BY <3>2, KeptItself
    <3> QED
      BY <3>3, <2>2 DEF Kept
  <2> QED
    BY <2>2, <2>3 DEF ResultInv
<1>5. CASE PutRecord \/ AppendEvent
  <2>1. UNCHANGED <<pc, result, reply, gate>> /\ pc = "syncing"
    BY <1>5 DEF PutRecord, AppendEvent, answer, memory
  <2> QED
    BY <1>0, <2>1 DEF ResultInv
<1>6. CASE AdvanceCursor
  <2>1. /\ UNCHANGED <<result, reply, canon, gate>> /\ pc = "syncing" /\ pc' = "projecting"
        /\ todo = <<>>
    BY <1>6 DEF AdvanceCursor, answer, durable
  <2>2. result # NoRecord /\ gate[result.id] = result /\ reply = "none"
    BY <1>0, <2>1 DEF ResultInv
  <2>3. canon[result.id] = result
    BY <1>0, <1>a, <2>1, <2>2 DEF SyncInv
  <2>4. Kept(result)
    BY <1>a, <2>2, <2>3, KeptItself
  <2> QED
    BY <1>b, <2>1, <2>2, <2>4 DEF ResultInv
<1>7. CASE Project
  <2>1. UNCHANGED <<pc, result, reply>> /\ pc \in {"projecting", "reconciling"}
    BY <1>7 DEF Project, answer
  <2> QED
    BY <1>0, <1>b, <2>1 DEF ResultInv
<1>8. CASE Return
  <2>1. /\ result' = result /\ pc \in {"projecting", "reconciling"} /\ pc' = "idle"
        /\ reply' = "stored" => result # NoRecord
    BY <1>8 DEF Return
  <2> QED
    BY <1>0, <1>b, <2>1 DEF ResultInv
<1>9. CASE CanonFails \/ IndexFails
  <2>1. pc' = "idle" /\ result' = NoRecord /\ reply' = "failed"
    BY <1>9, ErrorEffect
  <2> QED
    BY <2>1 DEF ResultInv
<1>10. CASE Recovery
  <2>1. pc' = "idle" /\ result' = NoRecord /\ reply' = "none"
    BY <1>10 DEF Recovery, Restart, Corrupt, work
  <2> QED
    BY <2>1 DEF ResultInv
<1> QED
  BY <1>1, <1>2, <1>3, <1>4, <1>5, <1>6, <1>7, <1>8, <1>9, <1>10, NextCases

LEMMA AcceptedStep ==
  ASSUME IInv, [Next]_vars
  PROVE  AcceptedKept'
<1>0. TypeOK /\ ResultInv /\ AcceptedKept
  BY DEF IInv
<1>1. ASSUME NEW r \in accepted
      PROVE  Kept(r)'
  <2>1. r \in KnowledgeRecord /\ Kept(r)
    BY <1>0 DEF TypeOK, AcceptedKept, Kept
  <2> QED
    BY <2>1, KeptStays
<1>2. CASE accepted' = accepted
  BY <1>1, <1>2 DEF AcceptedKept, Kept
<1>3. CASE Return /\ accepted' = accepted \cup {result} /\ result # NoRecord
  <2>1. result \in KnowledgeRecord /\ Kept(result)
    BY <1>0, <1>3 DEF Return, TypeOK, Stored, ResultInv
  <2>2. Kept(result)' /\ result' = result
    BY <2>1, <1>3, KeptStays DEF Return
  <2> QED
    BY <1>1, <1>3, <2>2 DEF AcceptedKept, Kept
<1>4. ASSUME \/ \E d \in Drafts, a \in Authorities : NewWrite(d, a)
             \/ \E i \in Ids, a \in Authorities : Promotion(i, a)
      PROVE  accepted' = accepted
  BY <1>4, SyncBegins
<1>5. ASSUME CanonFails \/ IndexFails
      PROVE  accepted' = accepted
  BY <1>5, ErrorEffect
<1>6. ASSUME \E phase, r : Reprojection(phase, r)
      PROVE  accepted' = accepted
  BY <1>6 DEF Reprojection, StartProjection
<1>7. ASSUME Recovery
      PROVE  accepted' = accepted
  BY <1>7 DEF Recovery, Restart, Corrupt
<1> QED
  BY <1>2, <1>3, <1>4, <1>5, <1>6, <1>7, NextCases
  DEF Refusal, Refuse, PutRecord, AppendEvent, AdvanceCursor, Project, Return, vars, answer

LEMMA IndexStep ==
  ASSUME IInv, [Next]_vars
  PROVE  IndexInv'
<1>0. TypeOK /\ MemoryInv /\ SyncInv /\ ResultInv /\ IndexInv
  BY DEF IInv
<1>a. ASSUME result # NoRecord
      PROVE  result \in KnowledgeRecord /\ result.id \in Ids
  BY <1>0, <1>a DEF TypeOK, Stored, KnowledgeRecord
<1>b. changed \in Seq(KnowledgeRecord)
  BY <1>0 DEF TypeOK
<1>1. CASE Refusal
  <2>1. /\ UNCHANGED <<pc, changed, canon>> /\ pc = "idle" /\ reply' = "refused"
    BY <1>1 DEF Refusal, Refuse, work, durable
  <2> QED
    BY <1>0, <2>1 DEF IndexInv
<1>2. CASE UNCHANGED vars
  <2>1. UNCHANGED <<pc, changed, canon, gate, index, opened, result, reply>>
    BY <1>2 DEF vars, work, durable, memory, answer
  <2> QED
    BY <1>0, <2>1 DEF IndexInv, Due, Projected
<1>3. CASE \/ \E d \in Drafts, a \in Authorities : NewWrite(d, a)
           \/ \E id \in Ids, a \in Authorities : Promotion(id, a)
  <2>1. /\ canon[result'.id] # gate'[result'.id] /\ UNCHANGED durable
        /\ pc' = "syncing" /\ reply' = "none" /\ changed' = <<>>
    BY <1>3, SyncBegins
  <2>2. canon' = canon
    BY <2>1 DEF durable
  <2> QED
    BY <2>1, <2>2 DEF IndexInv
<1>4. CASE \E phase, r : Reprojection(phase, r)
  <2>1. PICK phase, r : Reprojection(phase, r)
    BY <1>4
  <2>2. /\ pc' \in {"projecting", "reconciling"} /\ result' = r /\ reply' = "none"
        /\ changed' = Snapshot /\ canon' = canon
        /\ r = NoRecord \/ \E id \in Ids : canon[id] = r
    BY <2>1 DEF Reprojection, StartProjection, durable
  <2>3. /\ \A i \in DOMAIN changed' : changed'[i] = canon'[changed'[i].id]
        /\ \A id \in Ids : canon'[id] # NoRecord => \E i \in DOMAIN changed' : changed'[i] = canon'[id]
    BY <2>2, SnapshotType
  <2>4. ASSUME NEW id \in Ids, canon'[id] # NoRecord
        PROVE  Due(id)'
    BY <2>3, <2>4 DEF Due
  <2>5. ASSUME r # NoRecord
        PROVE  Due(result.id)'
    <3>1. PICK id \in Ids : canon[id] = r
      BY <2>2, <2>5
    <3>2. r.id = id /\ canon'[id] # NoRecord
      BY <3>1, <2>2, <2>5, <1>0 DEF MemoryInv, Keyed
    <3>3. \E i \in DOMAIN changed' : changed'[i] = canon'[id]
      BY <2>3, <3>2
    <3> QED
      BY <3>2, <3>3, <2>2 DEF Due
  <2> QED
    BY <2>2, <2>3, <2>4, <2>5 DEF IndexInv
<1>5. CASE PutRecord
  <2> DEFINE id == Head(todo)
  <2>1. /\ id \in Ids /\ gate[id] \in KnowledgeRecord /\ gate[id] # NoRecord
        /\ gate[id].id = id
        /\ canon'[id] = gate[id]
        /\ \A other \in Ids \ {id} : canon'[other] = canon[other]
        /\ changed' = IF canon[id] = gate[id] THEN changed ELSE Append(changed, gate[id])
    BY <1>5, PutEffect
  <2>2. /\ UNCHANGED <<pc, gate, index, opened, result, reply>> /\ pc = "syncing"
    BY <1>5 DEF PutRecord, memory, answer
  <2> HIDE DEF id
  <2>3. ASSUME NEW x
        PROVE  (\E i \in DOMAIN changed' : changed'[i] = x)
                 <=> \/ canon[id] # gate[id] /\ x = gate[id]
                     \/ \E i \in DOMAIN changed : changed[i] = x
    <3>1. CASE canon[id] = gate[id]
      BY <3>1, <2>1
    <3>2. CASE canon[id] # gate[id]
      <4>1. (\E i \in DOMAIN Append(changed, gate[id]) : Append(changed, gate[id])[i] = x)
              <=> x = gate[id] \/ \E i \in DOMAIN changed : changed[i] = x
        <5>1. gate[id] \in KnowledgeRecord
          BY <2>1
        <5> QED
          BY <1>b, <5>1, AppendLists
      <4> QED
        BY <4>1, <3>2, <2>1
    <3> QED
      BY <3>1, <3>2
  <2>4. ASSUME NEW i \in DOMAIN changed'
        PROVE  changed'[i] = canon'[changed'[i].id] /\ changed'[i] = gate[changed'[i].id]
    <3>1. CASE changed'[i] = gate[id]
      BY <3>1, <2>1
    <3>2. CASE \E j \in DOMAIN changed : changed[j] = changed'[i]
      <4>1. PICK j \in DOMAIN changed : changed[j] = changed'[i]
        BY <3>2
      <4>2. /\ changed[j] = canon[changed[j].id] /\ changed[j] = gate[changed[j].id]
            /\ changed[j].id \in Ids
        <5>1. changed[j] \in KnowledgeRecord
          BY <1>b, <4>1
        <5>2. changed[j].id \in Ids
          BY <5>1 DEF KnowledgeRecord
        <5> QED
          BY <1>0, <2>2, <4>1, <5>2 DEF IndexInv
      <4> QED
        BY <4>1, <4>2, <2>1
    <3> QED
      BY <3>1, <3>2, <2>3
  <2>5. canon'[result.id] # gate[result.id] \/ Due(result.id)'
    <3>1. result # NoRecord /\ result.id \in Ids
      BY <1>0, <1>a, <2>2 DEF ResultInv
    <3>2. canon[result.id] # gate[result.id] \/ Due(result.id)
      BY <1>0, <2>2 DEF IndexInv
    <3>3. CASE result.id = id /\ canon[id] # gate[id]
      <4>1. \E i \in DOMAIN changed' : changed'[i] = canon'[result.id]
        BY <3>3, <2>1, <2>3
      <4> QED
        BY <4>1, <2>2 DEF Due
    <3>4. CASE canon'[result.id] = canon[result.id] /\ Due(result.id)
      <4>1. CASE Projected(result.id)
        BY <4>1, <3>4, <2>2 DEF Due, Projected
      <4>2. CASE \E i \in DOMAIN changed : changed[i] = canon[result.id]
        <5>1. \E i \in DOMAIN changed' : changed'[i] = canon'[result.id]
          BY <4>2, <3>4, <2>3
        <5> QED
          BY <5>1, <2>2 DEF Due
      <4> QED
        BY <4>1, <4>2, <3>4 DEF Due
    <3> QED
      BY <3>1, <3>2, <3>3, <3>4, <2>1
  <2>6. reply = "none"
    BY <1>0, <2>2 DEF ResultInv
  <2> QED
    BY <2>2, <2>4, <2>5, <2>6 DEF IndexInv
<1>6. CASE AppendEvent
  <2>1. UNCHANGED <<pc, changed, canon, gate, index, opened, result, reply>>
    BY <1>6 DEF AppendEvent, memory, answer
  <2> QED
    BY <1>0, <2>1 DEF IndexInv, Due, Projected
<1>7. CASE AdvanceCursor
  <2>1. /\ UNCHANGED <<changed, canon, gate, index, opened, result, reply>>
        /\ pc = "syncing" /\ pc' = "projecting" /\ todo = <<>>
    BY <1>7 DEF AdvanceCursor, answer, durable
  <2>2. result # NoRecord /\ canon[result.id] = gate[result.id] /\ reply = "none"
    BY <1>0, <1>a, <2>1 DEF ResultInv, SyncInv
  <2>3. Due(result.id)
    BY <1>0, <2>1, <2>2 DEF IndexInv
  <2>4. Due(result.id)'
    BY <2>1, <2>3 DEF Due, Projected
  <2> QED
    BY <1>0, <2>1, <2>2, <2>4 DEF IndexInv
<1>8. CASE Project
  <2> DEFINE r == Head(changed)
  <2>1. /\ r \in KnowledgeRecord /\ r = canon[r.id] /\ changed # <<>>
        /\ changed' = Tail(changed)
        /\ r \in index' /\ \A i \in index : i.id # r.id => i \in index'
        /\ opened' = opened \cup {Partition(r)}
    BY <1>8, ProjectEffect
  <2>2. /\ UNCHANGED <<pc, result, reply, canon>> /\ pc \in {"projecting", "reconciling"}
    BY <1>8 DEF Project, answer, durable
  <2>3. ASSUME NEW x
        PROVE  /\ (\E i \in DOMAIN changed : changed[i] = x)
                    <=> x = r \/ \E i \in DOMAIN Tail(changed) : Tail(changed)[i] = x
               /\ \A i \in DOMAIN Tail(changed) :
                    i + 1 \in DOMAIN changed /\ Tail(changed)[i] = changed[i + 1]
    BY <1>b, <2>1, TailLists
  <2> HIDE DEF r
  <2>4. ASSUME NEW id \in Ids, canon[id] # NoRecord, Due(id)
        PROVE  Due(id)'
    <3>1. CASE canon[id] = r
      BY <3>1, <2>1, <2>2 DEF Due, Projected
    <3>2. CASE canon[id] # r /\ Projected(id)
      <4>1. canon[id].id = id /\ canon[id] \in index /\ Partition(canon[id]) \in opened
        BY <3>2, <2>4, <1>0 DEF Projected, MemoryInv, Keyed
      <4>2. canon[id].id # r.id
        BY <3>2, <4>1, <2>1
      <4> QED
        BY <4>1, <4>2, <2>1, <2>2 DEF Due, Projected
    <3>3. CASE canon[id] # r /\ \E i \in DOMAIN changed : changed[i] = canon[id]
      <4>1. \E i \in DOMAIN changed' : changed'[i] = canon'[id]
        BY <3>3, <2>1, <2>2, <2>3
      <4> QED
        BY <4>1 DEF Due
    <3> QED
      BY <3>1, <3>2, <3>3, <2>4 DEF Due
  <2>5. \A i \in DOMAIN changed' : changed'[i] = canon'[changed'[i].id]
    BY <1>0, <2>1, <2>2, <2>3 DEF IndexInv
  <2>6. reply = "none"
    BY <1>0, <2>2 DEF ResultInv
  <2>7. ASSUME result # NoRecord
        PROVE  Due(result.id)'
    <3>1. result.id \in Ids /\ canon[result.id] # NoRecord
      BY <1>0, <1>a, <2>2, <2>7 DEF ResultInv, Kept
    <3>2. Due(result.id)
      BY <1>0, <2>2, <2>7 DEF IndexInv
    <3>3. \A id \in Ids : canon[id] # NoRecord /\ Due(id) => Due(id)'
      BY <2>4
    <3>4. \A id \in Ids : Due(id)' <=> (\/ canon'[id] \in index' /\ Partition(canon'[id]) \in opened'
                                        \/ \E i \in DOMAIN changed' : changed'[i] = canon'[id])
      BY DEF Due, Projected
    <3> QED
      BY <3>1, <3>2, <3>3, <3>4, <2>2 DEF Due, Projected
  <2>8. ASSUME result = NoRecord, NEW id \in Ids, canon[id] # NoRecord
        PROVE  Due(id)'
    BY <1>0, <2>2, <2>4, <2>8 DEF IndexInv
  <2> QED
    BY <2>2, <2>5, <2>6, <2>7, <2>8 DEF IndexInv
<1>9. CASE Return
  <2>1. /\ UNCHANGED <<result, canon, index, opened, changed>>
        /\ pc \in {"projecting", "reconciling"} /\ pc' = "idle" /\ changed = <<>>
        /\ reply' = "stored" => result # NoRecord
        /\ reply' = "reconciled" => result = NoRecord
    BY <1>9 DEF Return, durable
  <2>2. \A id \in Ids : Due(id) => Projected(id)'
    BY <2>1 DEF Due, Projected
  <2>3. ASSUME result # NoRecord
        PROVE  Projected(result.id)'
    <3>1. Due(result.id)
      BY <1>0, <2>1, <2>3 DEF IndexInv
    <3> QED
      BY <3>1, <2>1 DEF Due, Projected
  <2>4. ASSUME result = NoRecord, NEW id \in Ids, canon[id] # NoRecord
        PROVE  Projected(id)'
    BY <1>0, <2>1, <2>2, <2>4 DEF IndexInv
  <2> QED
    BY <1>0, <2>1, <2>3, <2>4 DEF IndexInv
<1>10. CASE CanonFails \/ IndexFails
  <2>1. pc' = "idle" /\ changed' = <<>> /\ reply' = "failed"
    BY <1>10, ErrorEffect
  <2> QED
    BY <2>1 DEF IndexInv
<1>11. CASE Restart
  <2>1. pc' = "idle" /\ changed' = <<>> /\ reply' = "none"
    BY <1>11 DEF Restart
  <2> QED
    BY <2>1 DEF IndexInv
<1>12. CASE \E r \in Rogues : Corrupt(r)
  <2>1. pc' = "idle" /\ changed' = changed /\ reply' = "none" /\ pc = "idle"
    BY <1>12 DEF Corrupt, work
  <2>2. changed' = <<>>
    BY <1>0, <2>1 DEF IndexInv
  <2> QED
    BY <2>1, <2>2 DEF IndexInv
<1> QED
  BY <1>1, <1>2, <1>3, <1>4, <1>5, <1>6, <1>7, <1>8, <1>9, <1>10, <1>11, <1>12,
     NextCases DEF Recovery

LEMMA InitInv == Init => IInv
<1> SUFFICES ASSUME Init PROVE IInv
  OBVIOUS
<1>1. TypeOK
  BY RecoveryAssumption DEF Init, TypeOK, Stored
<1>2. MemoryInv
  BY DEF Init, MemoryInv, Keyed, Lists, Develops, Advanced
<1>3. SyncInv /\ ResultInv /\ IndexInv /\ AcceptedKept
  BY DEF Init, SyncInv, ResultInv, IndexInv, AcceptedKept
<1> QED
  BY <1>1, <1>2, <1>3 DEF IInv

LEMMA NextInv == IInv /\ [Next]_vars => IInv'
BY TypeStep, MemoryStep, SyncStep, ResultStep, IndexStep, AcceptedStep DEF IInv

(* The strengthened invariant is inductive, for any drafts, callers, rogue *)
(* items, errors and restarts: the memory is never behind Canon, and what  *)
(* is not yet stored or projected is still due (RecoverableGovernedMemOS-  *)
(* Service).                                                               *)
THEOREM RecoveryInvariant == Spec => []IInv
BY InitInv, NextInv, PTL DEF Spec

(* Every variable keeps its type (CanonicalSQLiteStore, the index and the  *)
(* router's dictionary).                                                   *)
THEOREM TypeCorrect == Spec => []TypeOK
<1>1. IInv => TypeOK
  BY DEF IInv
<1> QED
  BY <1>1, RecoveryInvariant, PTL

(* What a caller was given as stored stays in Canon word for word, and a   *)
(* promotion stays (write, promote_idea_to_decision).                      *)
THEOREM AcceptedIsKept == Spec => []AcceptedKept
<1>1. IInv => AcceptedKept
  BY DEF IInv
<1> QED
  BY <1>1, RecoveryInvariant, PTL

(* In Canon a record never loses a mark it had (write's retry, _sync,      *)
(* __init__).                                                              *)
THEOREM MarksStay == Spec => MarksAreFinal
<1>1. IInv /\ [Next]_vars => [\A id \in Ids : Advanced(canon[id], canon'[id])]_canon
  BY CanonDevelops DEF Develops
<1> QED
  BY <1>1, RecoveryInvariant, PTL DEF Spec, MarksAreFinal

(* A search shows only what Canon has and its reader may see, whatever is  *)
(* in the index (search).                                                  *)
THEOREM SearchIsHonest == Spec => []SearchHonest
<1>1. ASSUME IInv, NEW a \in Authorities, NEW project \in Domains, NEW purpose \in Purposes,
             NEW r \in Search(project, purpose, a)
      PROVE  r = canon[r.id] /\ Within(r, a)
  <2>1. PICK i \in index : r = canon[i.id] /\ canon[i.id] # NoRecord /\ Readable(gate, i.id, a)
    BY DEF Search, Searched
  <2>2. i.id \in Ids
    BY <1>1, <2>1 DEF IInv, TypeOK, KnowledgeRecord
  <2>3. canon[i.id].id = i.id
    BY <1>1, <2>1, <2>2 DEF IInv, MemoryInv, Keyed
  <2>4. SameFact(canon[i.id], gate[i.id])
    BY <1>1, <2>1, <2>2 DEF IInv, MemoryInv, Develops, Advanced
  <2>5. Within(canon[i.id], a)
    BY <2>1, <2>4 DEF Readable, Within, SameFact, Partition, SameScope
  <2> QED
    BY <2>1, <2>3, <2>5
<1>2. IInv => SearchHonest
  BY <1>1 DEF SearchHonest
<1> QED
  BY <1>2, RecoveryInvariant, PTL

(* What was answered is projected and found, after any errors before it    *)
(* (the order of _sync, reconcile_index_from_canonical).                   *)
THEOREM AnsweredIsFound == Spec => []AnsweredIsFindable
<1>1. ASSUME IInv, NEW id \in Ids, canon[id] # NoRecord, Projected(id)
      PROVE  Findable(id)
  <2>1. /\ canon[id] \in KnowledgeRecord /\ canon[id].id = id
        /\ canon[id] \in index /\ Partition(canon[id]) \in opened
    BY <1>1 DEF IInv, TypeOK, Stored, MemoryInv, Keyed, Projected
  <2>2. gate[id] # NoRecord /\ SameFact(canon[id], gate[id])
    BY <1>1 DEF IInv, MemoryInv, Develops, Advanced
  <2>3. ASSUME NEW a \in Authorities, Within(canon[id], a)
        PROVE  canon[id] \in Search(canon[id].domain, canon[id].purpose, a)
    <3>1. Readable(gate, id, a)
      BY <2>2, <2>3 DEF Readable, Within, SameFact, SameScope, Partition
    <3>2. canon[id].domain # "none"
      BY <2>1, RouterAssumption DEF KnowledgeRecord
    <3>3. Route(canon[id].domain, {}, a) = "ROUTED" /\ canon[id].purpose \in a.purposes
      BY <2>3, <3>2 DEF Route, Within
    <3>4. canon[id] \in Searched(canon[id].domain, canon[id].purpose, a)
      BY <2>1, <2>3 DEF Searched, Within
    <3> QED
      BY <1>1, <2>1, <3>1, <3>3, <3>4 DEF Search
  <2> QED
    BY <2>1, <2>3 DEF Findable
<1>2. ASSUME IInv, reply = "stored"
      PROVE  Findable(result.id)
  <2>1. pc = "idle" /\ result # NoRecord /\ Kept(result) /\ Projected(result.id)
    BY <1>2 DEF IInv, TypeOK, ResultInv, IndexInv
  <2>2. result.id \in Ids
    BY <1>2, <2>1 DEF IInv, TypeOK, Stored, KnowledgeRecord
  <2> QED
    BY <1>1, <1>2, <2>1, <2>2 DEF Kept
<1>3. ASSUME IInv, reply = "reconciled", NEW id \in Ids, canon[id] # NoRecord
      PROVE  Findable(id)
  BY <1>1, <1>3 DEF IInv, IndexInv
<1>4. IInv => AnsweredIsFindable
  BY <1>2, <1>3 DEF AnsweredIsFindable
<1> QED
  BY <1>4, RecoveryInvariant, PTL

-----------------------------------------------------------------------------
(* Contradictions                                                          *)

Clash(r, s) ==
  /\ r # NoRecord /\ s # NoRecord
  /\ r.epistemic_status # "SUPERSEDED" /\ s.epistemic_status # "SUPERSEDED"
  /\ SameScope(r, s)
  /\ r.content # s.content
  /\ r.knowledge_type # "CORRECTION" /\ s.knowledge_type # "CORRECTION"

Disputed(r, s) == r.epistemic_status = "CONFLICTING" /\ s.epistemic_status = "CONFLICTING"

Marked(records) ==
  \A x, y \in Ids : Clash(records[x], records[y]) => Disputed(records[x], records[y])

Distinct(order) == \A i, j \in DOMAIN order : order[i] = order[j] => i = j

(* The memory's order begins with what is stored and ends with what is     *)
(* still to be compared, so that a record is stored after all it conflicts *)
(* with is marked.                                                         *)
ConflictInv ==
  /\ Marked(gate)
  /\ Marked(canon)
  /\ Distinct(gateOrder)
  /\ Distinct(rowOrder)
  /\ \A i, j \in DOMAIN gateOrder :
       canon[gateOrder[i]] # NoRecord /\ canon[gateOrder[j]] = NoRecord => i < j
  /\ pc = "syncing" =>
       \E n \in Nat : /\ Len(gateOrder) = n + Len(todo)
                      /\ \A i \in DOMAIN todo : todo[i] = gateOrder[n + i]

(* Development creates no contradiction and leaves none unmarked.          *)
LEMMA DevelopedPair ==
  ASSUME NEW r \in Stored, NEW s \in Stored, NEW r2 \in Stored, NEW s2 \in Stored,
         r # NoRecord, s # NoRecord,
         Develops(r, r2), Develops(s, s2), Clash(r2, s2),
         Clash(r, s) => Disputed(r, s)
  PROVE  Disputed(r2, s2)
<1>1. Clash(r, s)
  BY DEF Clash, Develops, Advanced, SameFact, SameScope
<1> QED
  BY <1>1 DEF Clash, Disputed, Develops, Advanced

LEMMA MarkedWrite ==
  ASSUME IInv, ConflictInv, NEW d \in Drafts, NEW a \in Authorities, NewWrite(d, a)
  PROVE  Marked(gate)'
<1>1. d \in KnowledgeRecord /\ d.id \in Ids /\ gate \in [Ids -> Stored]
  BY RecoveryAssumption DEF KnowledgeRecord, IInv, TypeOK
<1>2. gate' = Written(gate, d) /\ Admitted(gate, d, a)
  BY DEF NewWrite, StartSync
<1>3. gate' \in [Ids -> Stored]
  BY <1>1, <1>2, WrittenType
<1>4. gate'[d.id] = AsStored(gate, d)
  BY <1>1, <1>2 DEF Written
<1>5. ASSUME NEW id \in Ids, id # d.id
      PROVE  /\ gate'[id] = Mark(gate, d, id)
             /\ Develops(gate[id], gate'[id])
             /\ gate[id] = NoRecord => gate'[id] = NoRecord
  BY <1>1, <1>2, <1>5, OthersDevelop
<1>6. ASSUME NEW x \in Ids, x # d.id, Clash(gate'[x], gate'[d.id])
      PROVE  Disputed(gate'[x], gate'[d.id])
  <2>1. SameFact(gate'[d.id], d) /\ gate'[d.id].knowledge_type = d.knowledge_type
    BY <1>1, <1>4, StoredAsGiven
  <2>2. gate[x] # NoRecord /\ Develops(gate[x], gate'[x])
    BY <1>5, <1>6 DEF Clash
  <2>3. x \in Conflicts(gate, d)
    BY <1>6, <2>1, <2>2 DEF Conflicts, Clash, Develops, Advanced, SameFact, SameScope
  <2>4. d.knowledge_type # "CORRECTION"
    BY <1>6, <2>1 DEF Clash
  <2>5. gate'[x] = WithStatus(gate[x], "CONFLICTING")
    BY <1>5, <1>6, <2>3, <2>4 DEF Mark
  <2>6. gate'[d.id] = WithStatus(d, "CONFLICTING")
    BY <1>4, <2>3, <2>4 DEF AsStored
  <2> QED
    BY <2>5, <2>6 DEF Disputed, WithStatus
<1>7. ASSUME NEW x \in Ids, NEW y \in Ids, x # d.id, y # d.id, Clash(gate'[x], gate'[y])
      PROVE  Disputed(gate'[x], gate'[y])
  <2>1. /\ gate[x] # NoRecord /\ Develops(gate[x], gate'[x])
        /\ gate[y] # NoRecord /\ Develops(gate[y], gate'[y])
    BY <1>5, <1>7 DEF Clash
  <2>2. Clash(gate[x], gate[y]) => Disputed(gate[x], gate[y])
    BY DEF ConflictInv, Marked
  <2> QED
    BY <2>1, <2>2, <1>1, <1>3, <1>7, DevelopedPair
<1>8. ASSUME NEW x \in Ids, NEW y \in Ids, Clash(gate'[x], gate'[y])
      PROVE  Clash(gate'[y], gate'[x]) /\ x # y
  BY <1>8 DEF Clash, SameScope
<1>9. ASSUME NEW x \in Ids, NEW y \in Ids, Clash(gate'[x], gate'[y])
      PROVE  Disputed(gate'[x], gate'[y])
  <2>1. CASE x # d.id /\ y # d.id
    BY <2>1, <1>7, <1>9
  <2>2. CASE y = d.id
    BY <2>2, <1>6, <1>8, <1>9
  <2>3. CASE x = d.id
    <3>1. Disputed(gate'[y], gate'[x])
      BY <2>3, <1>6, <1>8, <1>9
    <3> QED
      BY <3>1 DEF Disputed
  <2> QED
    BY <2>1, <2>2, <2>3
<1> QED
  BY <1>9 DEF Marked

LEMMA MarkedPromotion ==
  ASSUME IInv, ConflictInv, NEW i \in Ids, NEW a \in Authorities, Promotion(i, a)
  PROVE  Marked(gate)'
<1>1. gate \in [Ids -> Stored] /\ Keyed(gate) /\ Promotable(gate, i, a)
      /\ gate' = Promoted(gate, i)
  BY DEF IInv, TypeOK, MemoryInv, Promotion, StartSync
<1>2. /\ gate' \in [Ids -> Stored] /\ Develops(gate[i], gate'[i]) /\ gate[i] # NoRecord
      /\ \A other \in Ids \ {i} : gate'[other] = gate[other]
  BY <1>1, PromotedDevelops DEF Promotable
<1>3. ASSUME NEW x \in Ids, gate'[x] # NoRecord
      PROVE  gate[x] # NoRecord /\ Develops(gate[x], gate'[x])
  BY <1>1, <1>2, <1>3, DevelopsItself
<1>4. ASSUME NEW x \in Ids, NEW y \in Ids, Clash(gate'[x], gate'[y])
      PROVE  Disputed(gate'[x], gate'[y])
  <2>1. /\ gate[x] # NoRecord /\ Develops(gate[x], gate'[x])
        /\ gate[y] # NoRecord /\ Develops(gate[y], gate'[y])
    BY <1>3, <1>4 DEF Clash
  <2>2. Clash(gate[x], gate[y]) => Disputed(gate[x], gate[y])
    BY DEF ConflictInv, Marked
  <2> QED
    BY <2>1, <2>2, <1>1, <1>2, <1>4, DevelopedPair
<1> QED
  BY <1>4 DEF Marked

(* A record new to Canon is stored after all that is stored has been       *)
(* compared.                                                               *)
LEMMA NewcomerLast ==
  ASSUME IInv, ConflictInv, PutRecord, canon[Head(todo)] = NoRecord,
         NEW x \in Ids, canon[x] # NoRecord
  PROVE  canon[x] = gate[x]
<1>1. todo \in Seq(Ids) /\ gateOrder \in Seq(Ids) /\ todo # <<>> /\ pc = "syncing"
  BY DEF IInv, TypeOK, PutRecord
<1>2. PICK n \in Nat : /\ Len(gateOrder) = n + Len(todo)
                       /\ \A i \in DOMAIN todo : todo[i] = gateOrder[n + i]
  BY <1>1 DEF ConflictInv
<1>3. ASSUME NEW j \in DOMAIN todo, todo[j] = x
      PROVE  FALSE
  <2>1. j \in 1 .. Len(todo) /\ 1 \in DOMAIN todo /\ Head(todo) = todo[1]
    BY <1>1, <1>3
  <2>2. n + j \in DOMAIN gateOrder /\ n + 1 \in DOMAIN gateOrder
    BY <1>1, <1>2, <2>1
  <2>3. gateOrder[n + j] = x /\ gateOrder[n + 1] = Head(todo)
    BY <1>2, <1>3, <2>1
  <2>4. n + j < n + 1
    BY <2>2, <2>3 DEF ConflictInv
  <2> QED
    BY <2>1, <2>4
<1> QED
  BY <1>1, <1>3 DEF IInv, SyncInv

LEMMA MarkedPut ==
  ASSUME IInv, ConflictInv, PutRecord
  PROVE  Marked(canon)'
<1> DEFINE id == Head(todo)
<1>1. /\ id \in Ids /\ gate[id] # NoRecord
      /\ canon' \in [Ids -> Stored] /\ canon'[id] = gate[id]
      /\ \A other \in Ids \ {id} : canon'[other] = canon[other]
      /\ \A other \in Ids : Develops(canon[other], canon'[other])
  BY PutEffect
<1>2. \A x \in Ids : canon[id] = NoRecord /\ canon[x] # NoRecord => canon[x] = gate[x]
  BY NewcomerLast
<1> HIDE DEF id
<1>3. canon \in [Ids -> Stored] /\ gate \in [Ids -> Stored]
  BY DEF IInv, TypeOK
<1>4. ASSUME NEW x \in Ids, NEW y \in Ids, Clash(canon'[x], canon'[y])
      PROVE  Disputed(canon'[x], canon'[y])
  <2>1. CASE canon[x] # NoRecord /\ canon[y] # NoRecord
    <3>1. Clash(canon[x], canon[y]) => Disputed(canon[x], canon[y])
      BY DEF ConflictInv, Marked
    <3> QED
      BY <2>1, <3>1, <1>1, <1>3, <1>4, DevelopedPair
  <2>2. CASE canon[x] = NoRecord \/ canon[y] = NoRecord
    <3>1. canon[id] = NoRecord
      BY <2>2, <1>1, <1>4 DEF Clash
    <3>2. ASSUME NEW z \in Ids, canon'[z] # NoRecord
          PROVE  canon'[z] = gate[z]
      BY <3>1, <3>2, <1>1, <1>2
    <3>3. canon'[x] = gate[x] /\ canon'[y] = gate[y]
      BY <3>2, <1>4 DEF Clash
    <3> QED
      BY <3>3, <1>4 DEF ConflictInv, Marked
  <2> QED
    BY <2>1, <2>2
<1> QED
  BY <1>4 DEF Marked

LEMMA AppendDistinct ==
  ASSUME NEW order \in Seq(Ids), NEW new \in Ids, Distinct(order),
         ~ \E i \in DOMAIN order : order[i] = new
  PROVE  Distinct(Append(order, new))
<1>1. /\ DOMAIN order = 1 .. Len(order) /\ Len(order) \in Nat
      /\ DOMAIN Append(order, new) = 1 .. Len(order) + 1
      /\ \A i \in 1 .. Len(order) : Append(order, new)[i] = order[i]
      /\ Append(order, new)[Len(order) + 1] = new
  OBVIOUS
<1>2. \A i \in 1 .. Len(order) + 1 : i \in 1 .. Len(order) \/ i = Len(order) + 1
  BY <1>1
<1>3. ASSUME NEW i \in 1 .. Len(order) + 1, NEW j \in 1 .. Len(order) + 1,
             Append(order, new)[i] = Append(order, new)[j]
      PROVE  i = j
  <2>1. CASE i \in 1 .. Len(order) /\ j \in 1 .. Len(order)
    BY <2>1, <1>1, <1>3 DEF Distinct
  <2>2. CASE i = Len(order) + 1 /\ j = Len(order) + 1
    BY <2>2
  <2>3. CASE i = Len(order) + 1 /\ j \in 1 .. Len(order)
    BY <2>3, <1>1, <1>3
  <2>4. CASE i \in 1 .. Len(order) /\ j = Len(order) + 1
    BY <2>4, <1>1, <1>3
  <2> QED
    BY <1>2, <2>1, <2>2, <2>3, <2>4
<1> QED
  BY <1>1, <1>3 DEF Distinct

(* Of the other steps none begins a sync or moves it on.                   *)
LEMMA OrderQuiet ==
  ASSUME IInv,
         \/ Refusal \/ (\E phase, r : Reprojection(phase, r))
         \/ AppendEvent \/ AdvanceCursor \/ Project \/ Return
         \/ CanonFails \/ IndexFails \/ (\E r \in Rogues : Corrupt(r)) \/ UNCHANGED vars
  PROVE  pc' = "syncing" => pc = "syncing" /\ UNCHANGED todo
<1>1. CASE CanonFails \/ IndexFails
  BY <1>1, ErrorEffect
<1>2. CASE \E phase, r : Reprojection(phase, r)
  BY <1>2 DEF Reprojection, StartProjection
<1>3. CASE \E r \in Rogues : Corrupt(r)
  BY <1>3 DEF Corrupt, work
<1> QED
  BY <1>1, <1>2, <1>3 DEF Refusal, Refuse, AppendEvent, AdvanceCursor, Project,
     Return, vars, work

LEMMA ConflictStep ==
  ASSUME IInv, ConflictInv, [Next]_vars
  PROVE  ConflictInv'
<1>0. TypeOK /\ MemoryInv /\ SyncInv
  BY DEF IInv
<1>1. CASE \/ Refusal \/ (\E phase, r : Reprojection(phase, r))
           \/ AppendEvent \/ AdvanceCursor \/ Project \/ Return
           \/ CanonFails \/ IndexFails \/ (\E r \in Rogues : Corrupt(r)) \/ UNCHANGED vars
  <2>1. UNCHANGED <<canon, rowOrder, gate, gateOrder>>
    BY <1>1, RecordsQuiet
  <2>2. pc' = "syncing" => pc = "syncing" /\ UNCHANGED todo
    BY <1>1, OrderQuiet
  <2> QED
    BY <2>1, <2>2 DEF ConflictInv, Marked, Distinct
<1>2. CASE \/ \E d \in Drafts, a \in Authorities : NewWrite(d, a)
           \/ \E id \in Ids, a \in Authorities : Promotion(id, a)
  <2>1. /\ result' \in KnowledgeRecord
        /\ gateOrder' = IF gate[result'.id] = NoRecord THEN Append(gateOrder, result'.id)
                        ELSE gateOrder
        /\ \A id \in Ids : Develops(canon[id], gate'[id])
        /\ todo' = gateOrder'
        /\ UNCHANGED durable
    BY <1>2, SyncBegins
  <2>2. result'.id \in Ids /\ gateOrder \in Seq(Ids)
    BY <1>0, <2>1 DEF TypeOK, KnowledgeRecord
  <2>3. UNCHANGED <<canon, rowOrder>>
    BY <2>1 DEF durable
  <2>4. Marked(gate)'
    BY <1>2, MarkedWrite, MarkedPromotion
  <2>5. /\ Distinct(gateOrder)'
        /\ \A i, j \in DOMAIN gateOrder' :
             canon'[gateOrder'[i]] # NoRecord /\ canon'[gateOrder'[j]] = NoRecord => i < j
    <3>1. CASE gate[result'.id] # NoRecord
      <4>1. Distinct(gateOrder)' /\ gateOrder' = gateOrder
        BY <2>1, <3>1 DEF ConflictInv
      <4>2. \A i, j \in DOMAIN gateOrder' :
              canon'[gateOrder'[i]] # NoRecord /\ canon'[gateOrder'[j]] = NoRecord => i < j
        BY <2>3, <4>1 DEF ConflictInv
      <4> QED
        BY <4>1, <4>2
    <3>2. CASE gate[result'.id] = NoRecord
      <4> DEFINE new == result'.id
      <4>1. new \in Ids /\ gateOrder' = Append(gateOrder, new) /\ gate[new] = NoRecord
        BY <2>1, <2>2, <3>2
      <4> HIDE DEF new
      <4>2. ~ \E i \in DOMAIN gateOrder : gateOrder[i] = new
        BY <4>1, <1>0 DEF MemoryInv, Lists
      <4>3. Distinct(gateOrder)'
        <5>1. Distinct(gateOrder)
          BY DEF ConflictInv
        <5>2. Distinct(Append(gateOrder, new))
          BY <2>2, <4>1, <4>2, <5>1, AppendDistinct
        <5> QED
          BY <5>2, <4>1 DEF Distinct
      <4>4. canon[new] = NoRecord
        BY <4>1, <1>0 DEF MemoryInv, Develops, Advanced
      <4>5. /\ DOMAIN gateOrder = 1 .. Len(gateOrder) /\ Len(gateOrder) \in Nat
            /\ DOMAIN gateOrder' = 1 .. Len(gateOrder) + 1
            /\ \A i \in 1 .. Len(gateOrder) : gateOrder'[i] = gateOrder[i]
            /\ gateOrder'[Len(gateOrder) + 1] = new
        BY <2>2, <4>1
      <4>6. ASSUME NEW i \in DOMAIN gateOrder', NEW j \in DOMAIN gateOrder',
                   canon'[gateOrder'[i]] # NoRecord, canon'[gateOrder'[j]] = NoRecord
            PROVE  i < j
        <5>1. canon[gateOrder'[i]] # NoRecord /\ canon[gateOrder'[j]] = NoRecord
          BY <2>3, <4>6
        <5>2. i \in 1 .. Len(gateOrder)
          BY <5>1, <4>4, <4>5
        <5>3. CASE j = Len(gateOrder) + 1
          BY <5>2, <5>3, <4>5
        <5>4. CASE j \in 1 .. Len(gateOrder)
          <6>1. canon[gateOrder[i]] # NoRecord /\ canon[gateOrder[j]] = NoRecord
            BY <5>1, <5>2, <5>4, <4>5
          <6> QED
            BY <6>1, <5>2, <5>4, <4>5 DEF ConflictInv
        <5> QED
          BY <5>3, <5>4, <4>5
      <4> QED
        BY <4>3, <4>6
    <3> QED
      BY <3>1, <3>2
  <2>6. \E n \in Nat : /\ Len(gateOrder') = n + Len(todo')
                       /\ \A i \in DOMAIN todo' : todo'[i] = gateOrder'[n + i]
    <3>1. gateOrder' \in Seq(Ids)
      BY <2>1, <2>2
    <3>2. /\ 0 \in Nat /\ Len(gateOrder') = 0 + Len(todo')
          /\ \A i \in DOMAIN todo' : todo'[i] = gateOrder'[0 + i]
      BY <3>1, <2>1
    <3> QED
      BY <3>2
  <2> QED
    BY <2>3, <2>4, <2>5, <2>6 DEF ConflictInv, Marked, Distinct
<1>3. CASE PutRecord
  <2> DEFINE id == Head(todo)
  <2>1. /\ id \in Ids /\ gate[id] # NoRecord
        /\ canon'[id] = gate[id]
        /\ \A other \in Ids \ {id} : canon'[other] = canon[other]
        /\ rowOrder' = IF canon[id] = NoRecord THEN Append(rowOrder, id) ELSE rowOrder
        /\ todo' = Tail(todo)
    BY <1>3, PutEffect
  <2>2. /\ todo \in Seq(Ids) /\ todo # <<>> /\ 1 \in DOMAIN todo /\ id = todo[1]
        /\ gateOrder \in Seq(Ids) /\ rowOrder \in Seq(Ids)
    BY <1>0, <1>3 DEF TypeOK, PutRecord
  <2> HIDE DEF id
  <2>3. pc = "syncing" /\ UNCHANGED <<gate, gateOrder>>
    BY <1>3 DEF PutRecord, memory
  <2>4. Marked(canon)'
    BY <1>3, MarkedPut
  <2>5. Distinct(rowOrder)'
    <3>1. CASE canon[id] # NoRecord
      BY <3>1, <2>1 DEF ConflictInv, Distinct
    <3>2. CASE canon[id] = NoRecord
      <4>1. ~ \E i \in DOMAIN rowOrder : rowOrder[i] = id
        BY <3>2, <2>1, <1>0 DEF MemoryInv, Lists
      <4>2. Distinct(rowOrder) /\ rowOrder' = Append(rowOrder, id)
        BY <3>2, <2>1 DEF ConflictInv
      <4>3. Distinct(Append(rowOrder, id))
        BY <4>1, <4>2, <2>1, <2>2, AppendDistinct
      <4> QED
        BY <4>2, <4>3 DEF Distinct
    <3> QED
      BY <3>1, <3>2
  <2>6. PICK n \in Nat : /\ Len(gateOrder) = n + Len(todo)
                         /\ \A i \in DOMAIN todo : todo[i] = gateOrder[n + i]
    BY <2>3 DEF ConflictInv
  <2>7. \E m \in Nat : /\ Len(gateOrder') = m + Len(todo')
                       /\ \A i \in DOMAIN todo' : todo'[i] = gateOrder'[m + i]
    <3>1. /\ Len(Tail(todo)) = Len(todo) - 1 /\ Len(todo) \in Nat
          /\ DOMAIN todo = 1 .. Len(todo) /\ DOMAIN Tail(todo) = 1 .. Len(todo) - 1
          /\ \A i \in 1 .. Len(todo) - 1 : Tail(todo)[i] = todo[i + 1]
      BY <2>2
    <3>2. n + 1 \in Nat /\ Len(gateOrder) = (n + 1) + Len(Tail(todo))
      <4> DEFINE m == Len(todo)
      <4>1. m \in Nat /\ Len(gateOrder) = n + m /\ Len(Tail(todo)) = m - 1
        BY <2>6, <3>1
      <4> HIDE DEF m
      <4>2. m \in Nat
        BY <4>1
      <4>3. n + 1 \in Nat /\ n + m = (n + 1) + (m - 1)
        BY <4>2
      <4> QED
        BY <4>1, <4>3
    <3>3. ASSUME NEW i \in DOMAIN Tail(todo)
          PROVE  Tail(todo)[i] = gateOrder[(n + 1) + i]
      <4> DEFINE m == Len(todo)
      <4>0. m \in Nat /\ i \in 1 .. m - 1 /\ DOMAIN todo = 1 .. m
        BY <3>1
      <4>1. Tail(todo)[i] = todo[i + 1]
        BY <3>1
      <4> HIDE DEF m
      <4>2. i + 1 \in 1 .. m /\ i \in Nat
        BY <4>0
      <4>3. Tail(todo)[i] = gateOrder[n + (i + 1)]
        BY <2>6, <4>0, <4>1, <4>2
      <4>4. n + (i + 1) = (n + 1) + i
        BY <4>2
      <4> QED
        BY <4>3, <4>4
    <3> QED
      BY <2>1, <2>3, <3>2, <3>3
  <2>8. ASSUME NEW i \in DOMAIN gateOrder, NEW j \in DOMAIN gateOrder,
               canon'[gateOrder[i]] # NoRecord, canon'[gateOrder[j]] = NoRecord
        PROVE  i < j
    <3>1. /\ gateOrder[i] \in Ids /\ gateOrder[j] \in Ids /\ gateOrder[j] # id
          /\ canon[gateOrder[j]] = NoRecord
      BY <2>1, <2>2, <2>8
    <3>2. CASE canon[gateOrder[i]] # NoRecord
      BY <3>1, <3>2 DEF ConflictInv
    <3>3. CASE canon[gateOrder[i]] = NoRecord
      <4>1. gateOrder[i] = id
        BY <3>1, <3>3, <2>1, <2>8
      <4>2. gate[gateOrder[j]] # NoRecord
        BY <3>1, <1>0 DEF MemoryInv, Lists
      <4>3. PICK k \in DOMAIN todo : todo[k] = gateOrder[j]
        BY <3>1, <4>2, <2>3, <1>0 DEF SyncInv
      <4>4. n + 1 \in DOMAIN gateOrder /\ n + k \in DOMAIN gateOrder /\ k \in Nat /\ k >= 1
        BY <2>2, <2>6
      <4>5. gateOrder[n + 1] = id /\ gateOrder[n + k] = gateOrder[j]
        BY <2>2, <2>6, <4>3
      <4>6. i = n + 1 /\ j = n + k
        BY <4>1, <4>4, <4>5 DEF ConflictInv, Distinct
      <4>7. k # 1
        BY <3>1, <4>3, <2>2
      <4> QED
        BY <4>4, <4>6, <4>7
    <3> QED
      BY <3>2, <3>3
  <2> QED
    BY <2>3, <2>4, <2>5, <2>7, <2>8 DEF ConflictInv, Marked, Distinct
<1>4. CASE Restart
  <2>1. /\ gate' = canon /\ gateOrder' = rowOrder /\ pc' = "idle"
        /\ UNCHANGED <<canon, rowOrder>>
    BY <1>4 DEF Restart, durable
  <2>2. \A j \in DOMAIN rowOrder : canon[rowOrder[j]] # NoRecord
    <3>1. rowOrder \in Seq(Ids)
      BY <1>0 DEF TypeOK
    <3> QED
      BY <3>1, <1>0 DEF MemoryInv, Lists
  <2> QED
    BY <2>1, <2>2 DEF ConflictInv, Marked, Distinct
<1> QED
  BY <1>1, <1>2, <1>3, <1>4, NextCases DEF Recovery

(* The two hold together.                                                  *)
LEMMA OrderInvariant == Spec => [](IInv /\ ConflictInv)
<1>1. Init => ConflictInv
  BY DEF Init, ConflictInv, Marked, Clash, Distinct
<1>2. IInv /\ ConflictInv /\ [Next]_vars => ConflictInv'
  BY ConflictStep
<1> QED
  BY <1>1, <1>2, RecoveryInvariant, PTL DEF Spec

(* For any records, callers, errors and restarts, no contradiction in      *)
(* Canon goes unmarked, not even half way through a write.                 *)
THEOREM ConflictsAreMarked == Spec => []ConflictsMarked
<1>1. ConflictInv => ConflictsMarked
  BY DEF ConflictInv, Marked, Clash, Disputed, ConflictsMarked, Current
<1> QED
  BY <1>1, OrderInvariant, PTL

-----------------------------------------------------------------------------
(* Lineage                                                                 *)

Lineage(records) ==
  \A id \in Ids :
    records[id] # NoRecord /\ records[id].knowledge_type = "CORRECTION" =>
      /\ records[id].predecessor \in Ids
      /\ records[records[id].predecessor] # NoRecord
      /\ SameScope(records[records[id].predecessor], records[id])
      /\ records[records[id].predecessor].epistemic_status = "SUPERSEDED"

(* While the database works the memory runs ahead of Canon only within a   *)
(* sync, and by one new record at most.                                    *)
LineageInv ==
  DatabaseWorked =>
    /\ Lineage(gate)
    /\ Lineage(canon)
    /\ pc # "syncing" => canon = gate
    /\ pc = "syncing" =>
         \A id \in Ids \ {result.id} : canon[id] = NoRecord => gate[id] = NoRecord

(* Development, with at most one record more, keeps lineage if it holds    *)
(* for the record that is new.                                             *)
LEMMA LineageDevelops ==
  ASSUME NEW old \in [Ids -> Stored], NEW new \in [Ids -> Stored], NEW x \in Ids,
         Lineage(old),
         \A id \in Ids : Develops(old[id], new[id]),
         \A id \in Ids \ {x} : old[id] = NoRecord => new[id] = NoRecord,
         old[x] = NoRecord /\ new[x] # NoRecord /\ new[x].knowledge_type = "CORRECTION" =>
           /\ new[x].predecessor \in Ids
           /\ new[new[x].predecessor] # NoRecord
           /\ SameScope(new[new[x].predecessor], new[x])
           /\ new[new[x].predecessor].epistemic_status = "SUPERSEDED"
  PROVE  Lineage(new)
<1>1. ASSUME NEW id \in Ids, new[id] # NoRecord, new[id].knowledge_type = "CORRECTION",
             old[id] # NoRecord
      PROVE  /\ new[id].predecessor \in Ids
             /\ new[new[id].predecessor] # NoRecord
             /\ SameScope(new[new[id].predecessor], new[id])
             /\ new[new[id].predecessor].epistemic_status = "SUPERSEDED"
  <2> DEFINE p == old[id].predecessor
  <2>1. /\ SameFact(old[id], new[id])
        /\ old[id].knowledge_type = "CORRECTION"
    BY <1>1 DEF Develops, Advanced
  <2>2. /\ p \in Ids /\ old[p] # NoRecord /\ SameScope(old[p], old[id])
        /\ old[p].epistemic_status = "SUPERSEDED"
    BY <1>1, <2>1 DEF Lineage
  <2>3. new[id].predecessor = p
    BY <2>1 DEF SameFact
  <2> HIDE DEF p
  <2>4. /\ new[p] # NoRecord /\ SameFact(old[p], new[p])
        /\ new[p].epistemic_status = "SUPERSEDED"
    BY <2>2 DEF Develops, Advanced
  <2>5. SameScope(new[p], new[id])
    BY <2>1, <2>2, <2>4 DEF SameFact, SameScope
  <2> QED
    BY <2>2, <2>3, <2>4, <2>5
<1>2. ASSUME NEW id \in Ids, new[id] # NoRecord, old[id] = NoRecord
      PROVE  id = x
  BY <1>2
<1> QED
  BY <1>1, <1>2 DEF Lineage

LEMMA LineageWrite ==
  ASSUME IInv, Lineage(gate), canon = gate,
         NEW d \in Drafts, NEW a \in Authorities, NewWrite(d, a)
  PROVE  /\ Lineage(gate)'
         /\ \A id \in Ids \ {result'.id} : canon[id] = NoRecord => gate'[id] = NoRecord
<1>1. d \in KnowledgeRecord /\ d.id \in Ids /\ gate \in [Ids -> Stored] /\ d.predecessor # d.id
  BY RecoveryAssumption DEF KnowledgeRecord, IInv, TypeOK
<1>2. /\ gate' = Written(gate, d) /\ Admitted(gate, d, a) /\ gate[d.id] = NoRecord
      /\ result' = AsStored(gate, d)
  BY DEF NewWrite, StartSync, Fresh
<1>3. gate' \in [Ids -> Stored]
  BY <1>1, <1>2, WrittenType
<1>4. gate'[d.id] = AsStored(gate, d) /\ result'.id = d.id
  BY <1>1, <1>2, StoredAsGiven DEF Written
<1>5. ASSUME NEW id \in Ids, id # d.id
      PROVE  /\ gate'[id] = Mark(gate, d, id)
             /\ Develops(gate[id], gate'[id])
             /\ gate[id] = NoRecord => gate'[id] = NoRecord
  BY <1>1, <1>2, <1>5, OthersDevelop
<1>6. \A id \in Ids : Develops(gate[id], gate'[id])
  BY <1>2, <1>5 DEF Develops, Advanced
<1>7. ASSUME gate'[d.id].knowledge_type = "CORRECTION"
      PROVE  /\ gate'[d.id].predecessor \in Ids
             /\ gate'[gate'[d.id].predecessor] # NoRecord
             /\ SameScope(gate'[gate'[d.id].predecessor], gate'[d.id])
             /\ gate'[gate'[d.id].predecessor].epistemic_status = "SUPERSEDED"
  <2>1. d.knowledge_type = "CORRECTION" /\ gate'[d.id] = d
    BY <1>1, <1>4, <1>7, StoredAsGiven DEF AsStored
  <2> DEFINE p == d.predecessor
  <2>2. p \in Ids /\ p # d.id /\ gate[p] # NoRecord /\ SameScope(gate[p], d)
    BY <1>1, <1>2, <2>1 DEF Admitted, Correctable, KnowledgeRecord
  <2>3. gate'[p] = WithStatus(gate[p], "SUPERSEDED")
    BY <1>5, <2>1, <2>2 DEF Mark
  <2>4. gate[p] \in KnowledgeRecord
    BY <1>1, <2>2 DEF Stored
  <2> HIDE DEF p
  <2>5. gate'[p] \in KnowledgeRecord /\ gate'[p].epistemic_status = "SUPERSEDED"
        /\ SameScope(gate'[p], d)
    BY <2>2, <2>3, <2>4 DEF WithStatus, KnowledgeRecord, EpistemicStatus, SameScope
  <2> QED
    BY <2>1, <2>2, <2>5, NoRecordApart DEF p
<1>8. Lineage(gate')
  BY <1>1, <1>3, <1>5, <1>6, <1>7, LineageDevelops
<1> QED
  BY <1>4, <1>5, <1>8 DEF Lineage

LEMMA LineagePromotion ==
  ASSUME IInv, Lineage(gate), canon = gate,
         NEW i \in Ids, NEW a \in Authorities, Promotion(i, a)
  PROVE  /\ Lineage(gate)'
         /\ \A id \in Ids \ {result'.id} : canon[id] = NoRecord => gate'[id] = NoRecord
<1>1. gate \in [Ids -> Stored] /\ Keyed(gate) /\ Promotable(gate, i, a)
  BY DEF IInv, TypeOK, MemoryInv, Promotion
<1>2. gate' = Promoted(gate, i) /\ result' = gate'[i]
  BY DEF Promotion, StartSync
<1>3. /\ gate' \in [Ids -> Stored] /\ result'.id = i
      /\ Develops(gate[i], gate'[i])
      /\ \A other \in Ids \ {i} : gate'[other] = gate[other]
  BY <1>1, <1>2, PromotedDevelops
<1>4. \A id \in Ids : Develops(gate[id], gate'[id])
  BY <1>1, <1>3, DevelopsItself
<1>5. gate[i] # NoRecord
  BY <1>1 DEF Promotable
<1>6. Lineage(gate')
  BY <1>1, <1>3, <1>4, <1>5, LineageDevelops
<1> QED
  BY <1>3, <1>6 DEF Lineage

LEMMA LineagePut ==
  ASSUME IInv, ConflictInv, LineageInv, DatabaseWorked, PutRecord
  PROVE  /\ Lineage(canon)'
         /\ \A id \in Ids \ {result.id} : canon'[id] = NoRecord => gate[id] = NoRecord
<1> DEFINE id == Head(todo)
<1>1. /\ id \in Ids /\ gate[id] # NoRecord
      /\ canon' \in [Ids -> Stored] /\ canon'[id] = gate[id]
      /\ \A other \in Ids \ {id} : canon'[other] = canon[other]
      /\ \A other \in Ids : Develops(canon[other], canon'[other])
  BY PutEffect
<1>2. \A x \in Ids : canon[id] = NoRecord /\ canon[x] # NoRecord => canon[x] = gate[x]
  BY NewcomerLast
<1> HIDE DEF id
<1>3. /\ canon \in [Ids -> Stored] /\ Lineage(canon) /\ Lineage(gate)
      /\ \A x \in Ids \ {result.id} : canon[x] = NoRecord => gate[x] = NoRecord
  BY DEF IInv, TypeOK, LineageInv, PutRecord
<1>4. ASSUME canon[id] = NoRecord
      PROVE  \A x \in Ids : canon'[x] = gate[x]
  <2>1. id = result.id
    BY <1>1, <1>3, <1>4
  <2>2. \A x \in Ids : canon[x] = NoRecord => x = id \/ gate[x] = NoRecord
    BY <1>3, <2>1
  <2> QED
    BY <1>1, <1>2, <1>4, <2>2
<1>5. CASE canon[id] = NoRecord
  <2>1. Lineage(canon')
    BY <1>3, <1>4, <1>5 DEF Lineage
  <2> QED
    BY <1>4, <1>5, <2>1 DEF Lineage
<1>6. CASE canon[id] # NoRecord
  <2>1. \A x \in Ids \ {id} : canon[x] = NoRecord => canon'[x] = NoRecord
    BY <1>1
  <2>2. Lineage(canon')
    BY <1>1, <1>3, <1>6, <2>1, LineageDevelops
  <2> QED
    BY <1>1, <1>3, <2>2 DEF Lineage
<1> QED
  BY <1>5, <1>6

(* What has gone wrong is not forgotten.                                   *)
LEMMA FaultsStay ==
  ASSUME IInv, [Next]_vars
  PROVE  /\ DatabaseWorked' => DatabaseWorked /\ ~CanonFails
         /\ faults'["crash"] = 0 => faults["crash"] = 0 /\ ~Restart
<1>1. faults \in [FaultKinds -> Nat] /\ {"canon", "index", "rogue", "crash"} = FaultKinds
  BY DEF IInv, TypeOK, FaultKinds
<1>2. ASSUME NEW kind \in FaultKinds, Suffer(kind)
      PROVE  /\ faults'[kind] # 0
             /\ \A other \in FaultKinds \ {kind} : faults'[other] = faults[other]
  BY <1>1, <1>2 DEF Suffer
<1>3. CASE CanonFails
  <2>1. Suffer("canon") /\ pc = "syncing"
    BY <1>3 DEF CanonFails
  <2>2. faults'["canon"] # 0 /\ faults'["crash"] = faults["crash"]
    BY <2>1, <1>1, <1>2
  <2>3. Restart => faults'["crash"] # 0
    BY <1>1, <1>2 DEF Restart
  <2> QED
    BY <2>2, <2>3 DEF DatabaseWorked
<1>4. CASE Restart
  <2>1. Suffer("crash")
    BY <1>4 DEF Restart
  <2>2. faults'["crash"] # 0 /\ faults'["canon"] = faults["canon"]
    BY <2>1, <1>1, <1>2
  <2>3. CanonFails => faults'["canon"] # 0
    BY <1>1, <1>2 DEF CanonFails
  <2> QED
    BY <2>2, <2>3 DEF DatabaseWorked
<1>5. CASE ~CanonFails /\ ~Restart
  <2>1. faults'["canon"] = faults["canon"] /\ faults'["crash"] = faults["crash"]
    <3>1. CASE IndexFails
      <4>1. Suffer("index")
        BY <3>1 DEF IndexFails
      <4> QED
        BY <4>1, <1>1, <1>2
    <3>2. CASE \E r \in Rogues : Corrupt(r)
      <4>1. Suffer("rogue")
        BY <3>2 DEF Corrupt
      <4> QED
        BY <4>1, <1>1, <1>2
    <3>3. CASE \/ \E d \in Drafts, a \in Authorities : NewWrite(d, a)
               \/ \E id \in Ids, a \in Authorities : Promotion(id, a)
      BY <3>3, SyncBegins
    <3>4. CASE \E phase, r : Reprojection(phase, r)
      BY <3>4 DEF Reprojection, StartProjection
    <3>5. CASE Refusal \/ PutRecord \/ AppendEvent \/ AdvanceCursor \/ Project \/ Return
               \/ UNCHANGED vars
      BY <3>5 DEF Refusal, Refuse, PutRecord, AppendEvent, AdvanceCursor, Project, Return, vars
    <3> QED
      BY <1>5, <3>1, <3>2, <3>3, <3>4, <3>5, NextCases DEF Recovery
  <2> QED
    BY <2>1, <1>5 DEF DatabaseWorked
<1> QED
  BY <1>3, <1>4, <1>5

LEMMA LineageStep ==
  ASSUME IInv, ConflictInv, LineageInv, [Next]_vars
  PROVE  LineageInv'
<1> SUFFICES ASSUME DatabaseWorked'
             PROVE  /\ Lineage(gate)'
                    /\ Lineage(canon)'
                    /\ pc' # "syncing" => canon' = gate'
                    /\ pc' = "syncing" =>
                         \A id \in Ids \ {result'.id} : canon'[id] = NoRecord => gate'[id] = NoRecord
  BY DEF LineageInv
<1>1. DatabaseWorked /\ ~CanonFails
  BY FaultsStay
<1>2. /\ Lineage(gate) /\ Lineage(canon)
      /\ pc # "syncing" => canon = gate
      /\ pc = "syncing" => \A id \in Ids \ {result.id} : canon[id] = NoRecord => gate[id] = NoRecord
  BY <1>1 DEF LineageInv
<1>3. CASE \/ \E d \in Drafts, a \in Authorities : NewWrite(d, a)
           \/ \E id \in Ids, a \in Authorities : Promotion(id, a)
  <2>1. pc = "idle" /\ pc' = "syncing" /\ canon' = canon
    BY <1>3, SyncBegins DEF durable
  <2>2. canon = gate
    BY <1>2, <2>1
  <2>3. /\ Lineage(gate)'
        /\ \A id \in Ids \ {result'.id} : canon[id] = NoRecord => gate'[id] = NoRecord
    BY <1>2, <1>3, <2>2, LineageWrite, LineagePromotion
  <2> QED
    BY <1>2, <2>1, <2>3 DEF Lineage
<1>4. CASE PutRecord
  <2>1. pc = "syncing" /\ UNCHANGED <<pc, gate, result>>
    BY <1>4 DEF PutRecord, memory, answer
  <2>2. /\ Lineage(canon)'
        /\ \A id \in Ids \ {result.id} : canon'[id] = NoRecord => gate[id] = NoRecord
    BY <1>1, <1>4, LineagePut
  <2> QED
    BY <1>2, <2>1, <2>2 DEF Lineage
<1>5. CASE AdvanceCursor
  <2>1. pc = "syncing" /\ pc' = "projecting" /\ todo = <<>> /\ UNCHANGED <<canon, gate>>
    BY <1>5 DEF AdvanceCursor, durable
  <2>2. \A id \in Ids : canon[id] = gate[id]
    BY <2>1 DEF IInv, SyncInv
  <2>3. canon = gate
    BY <2>2 DEF IInv, TypeOK
  <2> QED
    BY <1>2, <2>1, <2>3 DEF Lineage
<1>6. CASE AppendEvent
  BY <1>2, <1>6 DEF AppendEvent, memory, answer, Lineage
<1>7. CASE Restart
  BY <1>2, <1>7 DEF Restart, durable, Lineage
<1>8. CASE IndexFails
  <2>1. pc # "syncing"
    BY <1>8 DEF IndexFails
  <2>2. pc' = "idle" /\ UNCHANGED <<canon, gate>>
    BY <1>8, ErrorEffect DEF durable, memory
  <2> QED
    BY <1>2, <2>1, <2>2 DEF Lineage
<1>9. CASE \/ Refusal \/ (\E phase, r : Reprojection(phase, r)) \/ Project \/ Return
           \/ (\E r \in Rogues : Corrupt(r))
  <2>1. UNCHANGED <<canon, gate>>
    BY <1>9, RecordsQuiet
  <2>2. pc # "syncing" /\ pc' # "syncing"
    <3>1. CASE \E phase, r : Reprojection(phase, r)
      BY <3>1 DEF Reprojection, StartProjection
    <3>2. CASE \E r \in Rogues : Corrupt(r)
      BY <3>2 DEF Corrupt, work
    <3> QED
      BY <1>9, <3>1, <3>2 DEF Refusal, Refuse, Project, Return, work
  <2> QED
    BY <1>2, <2>1, <2>2 DEF Lineage
<1>10. CASE UNCHANGED vars
  BY <1>2, <1>10 DEF vars, durable, memory, work, answer, Lineage
<1> QED
  BY <1>1, <1>3, <1>4, <1>5, <1>6, <1>7, <1>8, <1>9, <1>10, NextCases DEF Recovery

(* Unless the database fails, no correction stands in Canon beside a       *)
(* current version of what it corrects, half way through a write and after *)
(* a restart there included (_write_correction, _sync, __init__).          *)
THEOREM LineageIsKept == Spec => []LineageWhileDatabaseWorks
<1>1. Init => LineageInv
  BY DEF Init, LineageInv, Lineage
<1>2. LineageInv => LineageWhileDatabaseWorks
  BY DEF LineageInv, Lineage, LineageWhileDatabaseWorks, LineageKept
<1>3. IInv /\ ConflictInv /\ LineageInv /\ [Next]_vars => LineageInv'
  BY LineageStep
<1> QED
  BY <1>1, <1>2, <1>3, OrderInvariant, PTL DEF Spec

-----------------------------------------------------------------------------
(* The event trail                                                         *)

(* The records show what an event tells.                                   *)
Shows(records, e) ==
  /\ \A id \in e.others \cup {e.id} : records[id] # NoRecord
  /\ e.event = "corrected" => \A p \in e.others : records[p].epistemic_status = "SUPERSEDED"
  /\ e.event = "conflict_detected" =>
       \A id \in e.others \cup {e.id} :
         records[id].epistemic_status \in {"CONFLICTING", "SUPERSEDED"}
  /\ e.event = "knowledge_type_promoted" => records[e.id].knowledge_type = "DECISION"

Tells(id) == \E i \in DOMAIN trail : trail[i].id = id

(* While the database works there is an event to append only within a      *)
(* sync, and one only, about the record the call will return.              *)
TrailInv ==
  DatabaseWorked =>
    /\ HistoryOnce
    /\ \A i \in DOMAIN trail : Shows(canon, trail[i])
    /\ pc # "syncing" => backlog = <<>>
    /\ pc = "syncing" =>
         \E e \in HistoryEvent :
           /\ backlog = <<e>> /\ e.id = result.id /\ Shows(gate, e)
           /\ \/ sent = 0 /\ \A i \in DOMAIN trail : trail[i] # e
              \/ sent = 1 /\ Tells(e.id)
    /\ faults["crash"] = 0 =>
         /\ AcceptedLeavesTrail
         /\ \A id \in Ids : canon[id] # NoRecord =>
              Tells(id) \/ (pc = "syncing" /\ sent = 0 /\ id = result.id)

(* What an event tells stays true.                                         *)
LEMMA ShownStays ==
  ASSUME NEW old, NEW new, NEW e \in HistoryEvent, Shows(old, e),
         \A id \in Ids : Develops(old[id], new[id])
  PROVE  Shows(new, e)
<1>1. e.others \cup {e.id} \subseteq Ids /\ e.others \subseteq Ids /\ e.id \in Ids
  BY DEF HistoryEvent
<1>2. ASSUME NEW id \in e.others \cup {e.id}
      PROVE  /\ old[id] # NoRecord
             /\ new[id] # NoRecord
             /\ old[id].epistemic_status = "SUPERSEDED" => new[id].epistemic_status = "SUPERSEDED"
             /\ old[id].epistemic_status = "CONFLICTING" =>
                  new[id].epistemic_status \in {"CONFLICTING", "SUPERSEDED"}
             /\ old[id].knowledge_type = "DECISION" => new[id].knowledge_type = "DECISION"
  BY <1>1, <1>2 DEF Shows, Develops, Advanced
<1>3. ASSUME e.event = "corrected", NEW p \in e.others
      PROVE  new[p].epistemic_status = "SUPERSEDED"
  BY <1>2, <1>3 DEF Shows
<1>4. ASSUME e.event = "conflict_detected", NEW id \in e.others \cup {e.id}
      PROVE  new[id].epistemic_status \in {"CONFLICTING", "SUPERSEDED"}
  <2>1. old[id].epistemic_status \in {"CONFLICTING", "SUPERSEDED"}
    BY <1>4 DEF Shows
  <2> QED
    BY <1>2, <1>4, <2>1
<1>5. ASSUME e.event = "knowledge_type_promoted"
      PROVE  new[e.id].knowledge_type = "DECISION"
  BY <1>2, <1>5 DEF Shows
<1> QED
  BY <1>2, <1>3, <1>4, <1>5 DEF Shows

(* A write's event tells what the memory shows.                            *)
LEMMA WriteShows ==
  ASSUME NEW records \in [Ids -> Stored], NEW d \in KnowledgeRecord, NEW a,
         Admitted(records, d, a), records[d.id] = NoRecord
  PROVE  Shows(Written(records, d), WriteEvent(records, d))
<1> DEFINE new == Written(records, d)
           e == WriteEvent(records, d)
<1> SUFFICES Shows(new, e)
  OBVIOUS
<1>1. d.id \in Ids /\ new \in [Ids -> Stored] /\ AsStored(records, d) \in KnowledgeRecord
  BY WrittenType DEF KnowledgeRecord
<1>2. /\ new[d.id] = AsStored(records, d) /\ new[d.id] # NoRecord
      /\ \A id \in Ids \ {d.id} : new[id] = Mark(records, d, id)
  BY <1>1, NoRecordApart DEF Written
<1>3. e.id = d.id
  BY DEF WriteEvent
<1>4. ASSUME NEW s \in KnowledgeRecord, NEW status \in EpistemicStatus
      PROVE  WithStatus(s, status) # NoRecord /\ WithStatus(s, status).epistemic_status = status
  <2>1. WithStatus(s, status) \in KnowledgeRecord
    BY DEF WithStatus, KnowledgeRecord
  <2> QED
    BY <2>1, NoRecordApart DEF WithStatus
<1>5. "SUPERSEDED" \in EpistemicStatus /\ "CONFLICTING" \in EpistemicStatus
  BY DEF EpistemicStatus
<1> HIDE DEF new
<1>6. CASE d.knowledge_type = "CORRECTION"
  <2> DEFINE p == d.predecessor
  <2>1. e.event = "corrected" /\ e.others = {p}
    BY <1>6 DEF WriteEvent
  <2>2. p \in Ids /\ records[p] # NoRecord /\ p # d.id /\ records[p] \in KnowledgeRecord
    BY <1>6 DEF Admitted, Correctable, KnowledgeRecord, Stored
  <2>3. new[p] = WithStatus(records[p], "SUPERSEDED")
    BY <1>2, <1>6, <2>2 DEF Mark
  <2> HIDE DEF e, p
  <2>4. new[p] # NoRecord /\ new[p].epistemic_status = "SUPERSEDED"
    BY <1>4, <1>5, <2>2, <2>3
  <2> QED
    BY <1>2, <1>3, <2>1, <2>4 DEF Shows
<1>7. CASE d.knowledge_type # "CORRECTION" /\ Conflicts(records, d) # {}
  <2>1. e.event = "conflict_detected" /\ e.others = Conflicts(records, d)
    BY <1>7 DEF WriteEvent
  <2>2. new[d.id].epistemic_status = "CONFLICTING"
    BY <1>2, <1>4, <1>5, <1>7 DEF AsStored
  <2>3. ASSUME NEW id \in Conflicts(records, d)
        PROVE  new[id] # NoRecord /\ new[id].epistemic_status = "CONFLICTING"
    <3>1. id \in Ids /\ records[id] # NoRecord /\ id # d.id /\ records[id] \in KnowledgeRecord
      BY DEF Conflicts, Stored
    <3>2. new[id] = WithStatus(records[id], "CONFLICTING")
      BY <1>2, <1>7, <3>1 DEF Mark
    <3> QED
      BY <1>4, <1>5, <3>1, <3>2
  <2> HIDE DEF e
  <2> QED
    BY <1>2, <1>3, <2>1, <2>2, <2>3 DEF Shows
<1>8. CASE d.knowledge_type # "CORRECTION" /\ Conflicts(records, d) = {}
  <2>1. e.event = "written" /\ e.others = {}
    BY <1>8 DEF WriteEvent
  <2> HIDE DEF e
  <2> QED
    BY <1>2, <1>3, <2>1 DEF Shows
<1> QED
  BY <1>6, <1>7, <1>8

(* The event a sync begins with is a new one.                              *)
LEMMA EventBegins ==
  ASSUME IInv, TrailInv, DatabaseWorked, canon = gate,
         \/ \E d \in Drafts, a \in Authorities : NewWrite(d, a)
         \/ \E id \in Ids, a \in Authorities : Promotion(id, a)
  PROVE  \E e \in HistoryEvent :
           /\ backlog' = <<e>> /\ e.id = result'.id /\ Shows(gate', e)
           /\ \A i \in DOMAIN trail : trail[i] # e
<1>1. pc = "idle"
  BY DEF NewWrite, Promotion
<1>2. /\ gate \in [Ids -> Stored] /\ Keyed(gate) /\ backlog = <<>>
      /\ \A i \in DOMAIN trail : Shows(canon, trail[i])
  BY <1>1 DEF IInv, TypeOK, MemoryInv, TrailInv
<1>3. ASSUME NEW d \in Drafts, NEW a \in Authorities, NewWrite(d, a)
      PROVE  \E e \in HistoryEvent :
               /\ backlog' = <<e>> /\ e.id = result'.id /\ Shows(gate', e)
               /\ \A i \in DOMAIN trail : trail[i] # e
  <2> DEFINE e == WriteEvent(gate, d)
  <2>1. /\ gate' = Written(gate, d) /\ result' = AsStored(gate, d)
        /\ backlog' = Append(backlog, e) /\ Admitted(gate, d, a) /\ gate[d.id] = NoRecord
    BY <1>3 DEF NewWrite, StartSync, Fresh
  <2>2. d \in KnowledgeRecord
    BY RecoveryAssumption
  <2>3. e \in HistoryEvent /\ result'.id = d.id /\ Shows(gate', e)
    BY <1>2, <2>1, <2>2, WrittenType, StoredAsGiven, WriteShows
  <2>4. e.id = d.id
    BY DEF WriteEvent
  <2> HIDE DEF e
  <2>5. backlog' = <<e>>
    BY <1>2, <2>1, <2>3
  <2>6. ASSUME NEW i \in DOMAIN trail, trail[i] = e
        PROVE  FALSE
    BY <1>2, <2>1, <2>4, <2>6 DEF Shows
  <2> QED
    BY <2>3, <2>4, <2>5, <2>6
<1>4. ASSUME NEW i \in Ids, NEW a \in Authorities, Promotion(i, a)
      PROVE  \E e \in HistoryEvent :
               /\ backlog' = <<e>> /\ e.id = result'.id /\ Shows(gate', e)
               /\ \A n \in DOMAIN trail : trail[n] # e
  <2> DEFINE e == PromoteEvent(i)
  <2>1. /\ gate' = Promoted(gate, i) /\ result' = gate'[i]
        /\ backlog' = Append(backlog, e) /\ Promotable(gate, i, a) /\ ~IsDecision(i)
    BY <1>4 DEF Promotion, StartSync
  <2>2. /\ e \in HistoryEvent /\ result'.id = i
        /\ gate'[i] # NoRecord /\ gate'[i].knowledge_type = "DECISION"
    BY <1>2, <2>1, PromotedDevelops
  <2>3. e.id = i /\ e.event = "knowledge_type_promoted" /\ e.others = {}
    BY DEF PromoteEvent
  <2> HIDE DEF e
  <2>4. backlog' = <<e>>
    BY <1>2, <2>1, <2>2
  <2>5. ASSUME NEW n \in DOMAIN trail, trail[n] = e
        PROVE  FALSE
    <3>1. canon[i] # NoRecord /\ canon[i].knowledge_type = "DECISION"
      BY <1>2, <2>3, <2>5 DEF Shows
    <3> QED
      BY <2>1, <3>1 DEF IsDecision
  <2>6. Shows(gate', e)
    BY <2>2, <2>3 DEF Shows
  <2> QED
    BY <2>2, <2>3, <2>4, <2>5, <2>6
<1> QED
  BY <1>3, <1>4

(* Appending the event.                                                    *)
LEMMA TrailAppend ==
  ASSUME IInv, TrailInv, DatabaseWorked, AppendEvent
  PROVE  \E e \in HistoryEvent :
           /\ backlog = <<e>> /\ backlog' = <<e>> /\ e.id = result.id /\ sent' = 1
           /\ Shows(gate, e) /\ Shows(canon, e)
           /\ HistoryOnce'
           /\ \A x : (\E i \in DOMAIN trail' : trail'[i] = x)
                      <=> x = e \/ \E i \in DOMAIN trail : trail[i] = x
<1>1. /\ pc = "syncing" /\ todo = <<>> /\ sent < Len(backlog)
      /\ trail' = Append(trail, backlog[sent + 1]) /\ sent' = sent + 1
      /\ UNCHANGED backlog
  BY DEF AppendEvent, RecordsStored, memory
<1>2. PICK e \in HistoryEvent :
        /\ backlog = <<e>> /\ e.id = result.id /\ Shows(gate, e)
        /\ \/ sent = 0 /\ \A i \in DOMAIN trail : trail[i] # e
           \/ sent = 1 /\ Tells(e.id)
  BY <1>1 DEF TrailInv
<1>3. sent = 0 /\ trail' = Append(trail, e) /\ sent' = 1 /\ \A i \in DOMAIN trail : trail[i] # e
  <2>1. Len(backlog) = 1
    BY <1>2
  <2>2. sent = 0
    BY <1>1, <1>2, <2>1
  <2>3. backlog[sent + 1] = e
    BY <1>2, <2>2
  <2> QED
    BY <1>1, <1>2, <2>2, <2>3
<1>4. canon = gate
  <2>1. \A id \in Ids : canon[id] = gate[id]
    BY <1>1 DEF IInv, SyncInv
  <2> QED
    BY <2>1 DEF IInv, TypeOK
<1>5. trail \in Seq(HistoryEvent) /\ HistoryOnce
  BY DEF IInv, TypeOK, TrailInv
<1>6. /\ DOMAIN trail = 1 .. Len(trail) /\ Len(trail) \in Nat
      /\ DOMAIN trail' = 1 .. Len(trail) + 1
      /\ \A i \in 1 .. Len(trail) : trail'[i] = trail[i]
      /\ trail'[Len(trail) + 1] = e
  BY <1>3, <1>5
<1>7. \A i \in 1 .. Len(trail) + 1 : i \in 1 .. Len(trail) \/ i = Len(trail) + 1
  BY <1>6
<1>8. ASSUME NEW i \in DOMAIN trail', NEW j \in DOMAIN trail', trail'[i] = trail'[j]
      PROVE  i = j
  <2>1. CASE i \in 1 .. Len(trail) /\ j \in 1 .. Len(trail)
    BY <2>1, <1>5, <1>6, <1>8 DEF HistoryOnce
  <2>2. CASE i = Len(trail) + 1 /\ j = Len(trail) + 1
    BY <2>2
  <2>3. CASE i = Len(trail) + 1 /\ j \in 1 .. Len(trail)
    BY <2>3, <1>3, <1>6, <1>8
  <2>4. CASE i \in 1 .. Len(trail) /\ j = Len(trail) + 1
    BY <2>4, <1>3, <1>6, <1>8
  <2> QED
    BY <1>6, <1>7, <2>1, <2>2, <2>3, <2>4
<1>9. ASSUME NEW x
      PROVE  (\E i \in DOMAIN trail' : trail'[i] = x)
               <=> x = e \/ \E i \in DOMAIN trail : trail[i] = x
  BY <1>3, <1>5, AppendLists
<1> QED
  BY <1>1, <1>2, <1>3, <1>4, <1>8, <1>9 DEF HistoryOnce

LEMMA TrailStep ==
  ASSUME IInv, LineageInv, TrailInv, [Next]_vars
  PROVE  TrailInv'
<1> SUFFICES ASSUME DatabaseWorked'
             PROVE  /\ HistoryOnce'
                    /\ \A i \in DOMAIN trail' : Shows(canon', trail'[i])
                    /\ pc' # "syncing" => backlog' = <<>>
                    /\ pc' = "syncing" =>
                         \E e \in HistoryEvent :
                           /\ backlog' = <<e>> /\ e.id = result'.id /\ Shows(gate', e)
                           /\ \/ sent' = 0 /\ \A i \in DOMAIN trail' : trail'[i] # e
                              \/ sent' = 1 /\ Tells(e.id)'
                    /\ faults'["crash"] = 0 =>
                         /\ AcceptedLeavesTrail'
                         /\ \A id \in Ids : canon'[id] # NoRecord =>
                              Tells(id)' \/ (pc' = "syncing" /\ sent' = 0 /\ id = result'.id)
  BY DEF TrailInv, Shows
<1>1. DatabaseWorked /\ ~CanonFails /\ (faults'["crash"] = 0 => faults["crash"] = 0 /\ ~Restart)
  BY FaultsStay
<1>2. /\ HistoryOnce
      /\ \A i \in DOMAIN trail : Shows(canon, trail[i])
      /\ pc # "syncing" => backlog = <<>>
      /\ pc = "syncing" =>
           \E e \in HistoryEvent :
             /\ backlog = <<e>> /\ e.id = result.id /\ Shows(gate, e)
             /\ \/ sent = 0 /\ \A i \in DOMAIN trail : trail[i] # e
                \/ sent = 1 /\ Tells(e.id)
      /\ faults["crash"] = 0 =>
           /\ AcceptedLeavesTrail
           /\ \A id \in Ids : canon[id] # NoRecord =>
                Tells(id) \/ (pc = "syncing" /\ sent = 0 /\ id = result.id)
  BY <1>1 DEF TrailInv
<1>3. /\ pc # "syncing" => canon = gate
      /\ pc = "syncing" => \A id \in Ids \ {result.id} : canon[id] = NoRecord => gate[id] = NoRecord
  BY <1>1 DEF LineageInv
<1>4. trail \in Seq(HistoryEvent) /\ TypeOK /\ SyncInv /\ ResultInv
  BY DEF IInv, TypeOK
<1>5. CASE \/ \E d \in Drafts, a \in Authorities : NewWrite(d, a)
           \/ \E id \in Ids, a \in Authorities : Promotion(id, a)
  <2>1. /\ pc = "idle" /\ pc' = "syncing"
        /\ UNCHANGED <<canon, trail, sent, accepted>>
    BY <1>5, SyncBegins DEF durable
  <2>2. sent' = 0
    BY <1>4, <2>1 DEF SyncInv
  <2>3. canon = gate
    BY <1>3, <2>1
  <2>4. \E e \in HistoryEvent :
          /\ backlog' = <<e>> /\ e.id = result'.id /\ Shows(gate', e)
          /\ \A i \in DOMAIN trail : trail[i] # e
    BY <1>1, <1>5, <2>3, EventBegins
  <2>5. faults'["crash"] = 0 =>
          AcceptedLeavesTrail /\ \A id \in Ids : canon[id] # NoRecord => Tells(id)
    BY <1>1, <1>2, <2>1
  <2> QED
    BY <1>2, <2>1, <2>2, <2>4, <2>5 DEF HistoryOnce, AcceptedLeavesTrail, Tells
<1>6. CASE PutRecord
  <2> DEFINE id == Head(todo)
  <2>1. /\ id \in Ids
        /\ \A other \in Ids \ {id} : canon'[other] = canon[other]
        /\ \A other \in Ids : Develops(canon[other], canon'[other])
        /\ gate[id] # NoRecord
    BY <1>6, PutEffect
  <2> HIDE DEF id
  <2>2. /\ pc = "syncing" /\ todo # <<>>
        /\ UNCHANGED <<pc, trail, gate, backlog, sent, result, accepted>>
    BY <1>6 DEF PutRecord, memory, answer
  <2>3. \A i \in DOMAIN trail : Shows(canon', trail[i])
    <3>1. \A i \in DOMAIN trail : trail[i] \in HistoryEvent
      BY <1>4
    <3> QED
      BY <1>2, <2>1, <3>1, ShownStays
  <2>4. ASSUME faults'["crash"] = 0, NEW x \in Ids, canon'[x] # NoRecord
        PROVE  Tells(x) \/ (sent = 0 /\ x = result.id)
    <3>1. CASE canon[x] # NoRecord
      BY <1>1, <1>2, <2>2, <2>4, <3>1
    <3>2. CASE canon[x] = NoRecord
      <4>1. x = id
        BY <2>1, <2>4, <3>2
      <4>2. x = result.id
        BY <1>3, <2>1, <2>2, <3>2, <4>1
      <4>3. sent = 0 \/ Tells(x)
        BY <1>2, <2>2, <4>2
      <4> QED
        BY <4>2, <4>3
    <3> QED
      BY <3>1, <3>2
  <2>5. \A x : Tells(x)' <=> Tells(x)
    BY <2>2 DEF Tells
  <2>6. \E e \in HistoryEvent :
          /\ backlog' = <<e>> /\ e.id = result'.id /\ Shows(gate', e)
          /\ \/ sent' = 0 /\ \A i \in DOMAIN trail' : trail'[i] # e
             \/ sent' = 1 /\ Tells(e.id)'
    BY <1>2, <2>2, <2>5
  <2> QED
    BY <1>1, <1>2, <2>2, <2>3, <2>4, <2>5, <2>6 DEF HistoryOnce, AcceptedLeavesTrail
<1>7. CASE AppendEvent
  <2>1. PICK e \in HistoryEvent :
          /\ backlog = <<e>> /\ backlog' = <<e>> /\ e.id = result.id /\ sent' = 1
          /\ Shows(gate, e) /\ Shows(canon, e)
          /\ HistoryOnce'
          /\ \A x : (\E i \in DOMAIN trail' : trail'[i] = x)
                     <=> x = e \/ \E i \in DOMAIN trail : trail[i] = x
    BY <1>1, <1>7, TrailAppend
  <2>2. pc = "syncing" /\ UNCHANGED <<pc, canon, gate, result, accepted>>
    BY <1>7 DEF AppendEvent, memory, answer
  <2>3. ASSUME NEW i \in DOMAIN trail'
        PROVE  Shows(canon', trail'[i])
    <3>1. trail'[i] = e \/ \E j \in DOMAIN trail : trail[j] = trail'[i]
      BY <2>1
    <3>2. Shows(canon, trail'[i])
      BY <1>2, <2>1, <3>1
    <3> QED
      BY <2>2, <3>2
  <2>4. ASSUME NEW x
        PROVE  Tells(x)' <=> x = e.id \/ Tells(x)
    <3>1. ASSUME NEW i \in DOMAIN trail', trail'[i].id = x
          PROVE  x = e.id \/ Tells(x)
      <4>1. trail'[i] = e \/ \E j \in DOMAIN trail : trail[j] = trail'[i]
        BY <2>1
      <4> QED
        BY <3>1, <4>1 DEF Tells
    <3>2. ASSUME NEW j \in DOMAIN trail, trail[j].id = x
          PROVE  \E i \in DOMAIN trail' : trail'[i].id = x
      <4>1. \E i \in DOMAIN trail' : trail'[i] = trail[j]
        BY <2>1
      <4> QED
        BY <3>2, <4>1
    <3>3. \E i \in DOMAIN trail' : trail'[i] = e
      BY <2>1
    <3> QED
      BY <3>1, <3>2, <3>3 DEF Tells
  <2>5. ASSUME faults'["crash"] = 0
        PROVE  /\ AcceptedLeavesTrail'
               /\ \A id \in Ids : canon'[id] # NoRecord => Tells(id)'
    <3>1. \A r \in accepted : Tells(r.id)
      BY <1>1, <1>2, <2>5 DEF AcceptedLeavesTrail, Tells
    <3>2. \A r \in accepted' : Tells(r.id)'
      BY <2>2, <2>4, <3>1
    <3>3. AcceptedLeavesTrail'
      BY <3>2 DEF AcceptedLeavesTrail, Tells
    <3>4. \A id \in Ids : canon[id] # NoRecord => Tells(id) \/ id = e.id
      BY <1>1, <1>2, <2>1, <2>2, <2>5
    <3> QED
      BY <2>2, <2>4, <3>3, <3>4
  <2>6. Shows(gate', e)
    BY <2>1, <2>2
  <2> QED
    BY <2>1, <2>2, <2>3, <2>4, <2>5, <2>6
<1>8. CASE AdvanceCursor
  <2>1. /\ pc = "syncing" /\ pc' = "projecting" /\ sent = Len(backlog) /\ backlog' = <<>>
        /\ UNCHANGED <<canon, trail, accepted>>
    BY <1>8 DEF AdvanceCursor, answer, durable
  <2>2. PICK e \in HistoryEvent :
          /\ backlog = <<e>> /\ e.id = result.id
          /\ \/ sent = 0 /\ \A i \in DOMAIN trail : trail[i] # e
             \/ sent = 1 /\ Tells(e.id)
    BY <1>2, <2>1
  <2>3. sent # 0
    <3>1. Len(backlog) = 1
      BY <2>2
    <3> QED
      BY <2>1, <3>1
  <2>4. faults'["crash"] = 0 =>
          AcceptedLeavesTrail /\ \A id \in Ids : canon[id] # NoRecord => Tells(id)
    BY <1>1, <1>2, <2>1, <2>3
  <2> QED
    BY <1>2, <2>1, <2>4 DEF HistoryOnce, AcceptedLeavesTrail, Tells
<1>9. CASE Return
  <2>1. /\ pc \in {"projecting", "reconciling"} /\ pc' = "idle"
        /\ accepted' = accepted \/ (result # NoRecord /\ accepted' = accepted \cup {result})
        /\ UNCHANGED <<canon, trail, backlog>>
    BY <1>9 DEF Return, durable, memory
  <2>2. ASSUME faults'["crash"] = 0
        PROVE  AcceptedLeavesTrail' /\ \A id \in Ids : canon[id] # NoRecord => Tells(id)
    <3>1. AcceptedLeavesTrail /\ \A id \in Ids : canon[id] # NoRecord => Tells(id)
      BY <1>1, <1>2, <2>1, <2>2
    <3>2. result # NoRecord => Tells(result.id)
      <4>1. result # NoRecord => result.id \in Ids /\ canon[result.id] # NoRecord
        BY <1>4, <2>1 DEF ResultInv, Kept, TypeOK, Stored, KnowledgeRecord
      <4> QED
        BY <3>1, <4>1
    <3> QED
      BY <2>1, <3>1, <3>2 DEF AcceptedLeavesTrail, Tells
  <2> QED
    BY <1>2, <2>1, <2>2 DEF HistoryOnce, Tells
<1>10. CASE Restart
  <2>1. pc' = "idle" /\ backlog' = <<>> /\ UNCHANGED <<canon, trail>>
    BY <1>10 DEF Restart, durable
  <2>2. faults'["crash"] # 0
    BY <1>1, <1>10
  <2> QED
    BY <1>2, <2>1, <2>2 DEF HistoryOnce
<1>11. CASE \/ Refusal \/ (\E phase, r : Reprojection(phase, r)) \/ Project \/ IndexFails
            \/ (\E r \in Rogues : Corrupt(r))
  <2>1. pc # "syncing" /\ pc' # "syncing" /\ UNCHANGED <<canon, trail, backlog, accepted>>
    <3>1. CASE \E phase, r : Reprojection(phase, r)
      BY <3>1 DEF Reprojection, StartProjection, durable, memory
    <3>2. CASE \E r \in Rogues : Corrupt(r)
      BY <3>2 DEF Corrupt, work, durable, memory
    <3>3. CASE IndexFails
      <4>1. pc # "syncing"
        BY <3>3 DEF IndexFails
      <4> QED
        BY <4>1, <3>3, ErrorEffect DEF durable, memory
    <3> QED
      BY <1>11, <3>1, <3>2, <3>3 DEF Refusal, Refuse, Project, work, durable, memory, answer
  <2>2. faults'["crash"] = 0 =>
          AcceptedLeavesTrail /\ \A id \in Ids : canon[id] # NoRecord => Tells(id)
    BY <1>1, <1>2, <2>1
  <2> QED
    BY <1>2, <2>1, <2>2 DEF HistoryOnce, AcceptedLeavesTrail, Tells
<1>12. CASE UNCHANGED vars
  <2>1. UNCHANGED <<pc, canon, trail, gate, backlog, sent, result, accepted>>
    BY <1>12 DEF vars, durable, memory, work, answer
  <2> QED
    BY <1>1, <1>2, <2>1 DEF HistoryOnce, AcceptedLeavesTrail, Tells
<1> QED
  BY <1>1, <1>5, <1>6, <1>7, <1>8, <1>9, <1>10, <1>11, <1>12, NextCases DEF Recovery

(* All of it holds together.                                               *)
LEMMA TrailInvariant == Spec => [](IInv /\ ConflictInv /\ LineageInv /\ TrailInv)
<1>1. Init => LineageInv /\ TrailInv
  <2>1. Init => LineageInv
    BY DEF Init, LineageInv, Lineage
  <2>2. Init => TrailInv
    BY DEF Init, TrailInv, HistoryOnce, AcceptedLeavesTrail
  <2> QED
    BY <2>1, <2>2
<1>2. IInv /\ ConflictInv /\ LineageInv /\ [Next]_vars => LineageInv'
  BY LineageStep
<1>3. IInv /\ LineageInv /\ TrailInv /\ [Next]_vars => TrailInv'
  BY TrailStep
<1> QED
  BY <1>1, <1>2, <1>3, OrderInvariant, PTL DEF Spec

(* Unless the database fails no event is on the trail twice, and until a   *)
(* first restart nothing that was accepted is missing there (the order of  *)
(* _sync's steps, _history_cursor).                                        *)
THEOREM TrailIsComplete == Spec => []TrailComplete
<1>1. TrailInv => TrailComplete
  BY DEF TrailInv, TrailComplete
<1> QED
  BY <1>1, TrailInvariant, PTL

(* Unless the database fails the trail never tells what Canon does not     *)
(* show, also half way through a write and after restarts (_sync: records  *)
(* are put before the event).                                              *)
THEOREM TrailStaysBehind == Spec => []TrailNeverAhead
<1>1. TrailInv => TrailNeverAhead
  BY DEF TrailInv, TrailNeverAhead, Shows
<1> QED
  BY <1>1, TrailInvariant, PTL

-----------------------------------------------------------------------------
(* Answers                                                                 *)

(* What is shown beside an anchor is Canon's, about its subject and for    *)
(* its reader.                                                             *)
LEMMA SiblingsHonest ==
  ASSUME IInv, NEW anchor, NEW a, NEW r \in AuthorizedSiblings(anchor, a)
  PROVE  /\ r.id \in Ids /\ r # NoRecord /\ r = canon[r.id]
         /\ Within(r, a)
         /\ SameScope(r, anchor)
<1>1. PICK id \in Ids : /\ r = canon[id] /\ canon[id] # NoRecord
                        /\ SameScope(canon[id], anchor) /\ Readable(gate, id, a)
  BY DEF AuthorizedSiblings
<1>2. canon[id].id = id
  BY <1>1 DEF IInv, MemoryInv, Keyed
<1>3. SameFact(canon[id], gate[id])
  BY <1>1 DEF IInv, MemoryInv, Develops, Advanced
<1>4. Within(canon[id], a)
  BY <1>1, <1>3 DEF Readable, Within, SameFact, Partition, SameScope
<1> QED
  BY <1>1, <1>2, <1>4

(* What an answer makes of the siblings.                                   *)
LEMMA ProjectionTells ==
  ASSUME NEW siblings
  PROVE  /\ Projection(siblings).records =
               {r \in siblings : r.epistemic_status # "SUPERSEDED"}
         /\ Projection(siblings).status = "CURRENT" =>
              \A r \in Projection(siblings).records : r.epistemic_status # "CONFLICTING"
         /\ History(siblings).records \subseteq siblings
         /\ History(siblings).status \notin {"CURRENT", "CONFLICTING"}
<1> DEFINE current == {r \in siblings : r.epistemic_status # "SUPERSEDED"}
<1>1. CASE current = {}
  BY <1>1 DEF Projection, Nothing, Answer, History
<1>2. CASE current # {} /\ \E r \in current : r.epistemic_status = "CONFLICTING"
  BY <1>2 DEF Projection, Nothing, Answer, History
<1>3. CASE current # {} /\ \A r \in current : r.epistemic_status # "CONFLICTING"
  BY <1>3 DEF Projection, Nothing, Answer, History
<1> QED
  BY <1>1, <1>2, <1>3

(* Whatever the index proposes, an answer shows only what its reader may   *)
(* see of Canon, on one subject, and one that calls itself current holds   *)
(* nothing superseded and no contradiction (answer).                       *)
THEOREM AnswersAreHonest == Spec => []AnswerHonest
<1>1. ASSUME IInv, ConflictInv, NEW anchor, NEW a, NEW given,
             given \in {History(AuthorizedSiblings(anchor, a)),
                        Projection(AuthorizedSiblings(anchor, a))}
      PROVE  /\ \A r \in given.records : r = canon[r.id] /\ Within(r, a)
             /\ \A r, s \in given.records : SameScope(r, s)
             /\ given.status \in {"CURRENT", "CONFLICTING"} =>
                  \A r \in given.records : r.epistemic_status # "SUPERSEDED"
             /\ given.status = "CURRENT" => \A r, s \in given.records : ~Contradict(r, s)
  <2> DEFINE siblings == AuthorizedSiblings(anchor, a)
  <2>1. /\ given.records \subseteq siblings
        /\ given.status \in {"CURRENT", "CONFLICTING"} =>
             \A r \in given.records : r.epistemic_status # "SUPERSEDED"
        /\ given.status = "CURRENT" =>
             \A r \in given.records : r.epistemic_status # "CONFLICTING"
    BY <1>1, ProjectionTells
  <2>2. \A r \in siblings : /\ r.id \in Ids /\ r # NoRecord /\ r = canon[r.id]
                            /\ Within(r, a) /\ SameScope(r, anchor)
    BY <1>1, SiblingsHonest
  <2> HIDE DEF siblings
  <2>3. \A r, s \in given.records : SameScope(r, s)
    BY <2>1, <2>2 DEF SameScope
  <2>4. ASSUME given.status = "CURRENT", NEW r \in given.records, NEW s \in given.records,
               Contradict(r, s)
        PROVE  FALSE
    <3>1. /\ r.id \in Ids /\ s.id \in Ids /\ r = canon[r.id] /\ s = canon[s.id]
          /\ r # NoRecord /\ s # NoRecord
          /\ r.epistemic_status \notin {"SUPERSEDED", "CONFLICTING"}
          /\ s.epistemic_status \notin {"SUPERSEDED", "CONFLICTING"}
      BY <2>1, <2>2, <2>4
    <3>2. Clash(r, s)
      BY <2>3, <2>4, <3>1 DEF Clash, Contradict
    <3>3. Disputed(r, s)
      BY <1>1, <3>1, <3>2 DEF ConflictInv, Marked
    <3> QED
      BY <3>1, <3>3 DEF Disputed
  <2> QED
    BY <2>1, <2>2, <2>3, <2>4
<1>2. ASSUME IInv, ConflictInv,
             NEW a \in Authorities, NEW project \in Domains, NEW purpose \in Purposes,
             NEW history \in BOOLEAN,
             NEW given \in Answers(project, purpose, a, Subjects, history)
      PROVE  /\ \A r \in given.records : r = canon[r.id] /\ Within(r, a)
             /\ \A r, s \in given.records : SameScope(r, s)
             /\ given.status \in {"CURRENT", "CONFLICTING"} =>
                  \A r \in given.records : r.epistemic_status # "SUPERSEDED"
             /\ given.status = "CURRENT" => \A r, s \in given.records : ~Contradict(r, s)
  <2>1. \/ given = Answer("BLOCKED", {}) \/ given = Nothing
        \/ \E anchor : given \in {History(AuthorizedSiblings(anchor, a)),
                                 Projection(AuthorizedSiblings(anchor, a))}
    BY <1>2 DEF Answers
  <2>2. CASE given = Answer("BLOCKED", {}) \/ given = Nothing
    <3>1. given.records = {}
      BY <2>2 DEF Answer, Nothing
    <3> QED
      BY <3>1
  <2>3. CASE \E anchor : given \in {History(AuthorizedSiblings(anchor, a)),
                                   Projection(AuthorizedSiblings(anchor, a))}
    <3>1. PICK anchor : given \in {History(AuthorizedSiblings(anchor, a)),
                                   Projection(AuthorizedSiblings(anchor, a))}
      BY <2>3
    <3> QED
      BY <1>1, <1>2, <3>1
  <2> QED
    BY <2>1, <2>2, <2>3
<1>3. IInv /\ ConflictInv => AnswerHonest
  BY <1>2 DEF AnswerHonest
<1> QED
  BY <1>3, OrderInvariant, PTL

(* A caller whose write was answered is told of his record whichever       *)
(* proposal becomes the anchor, unless another record's id stands in the   *)
(* index under a foreign project or purpose (answer,                       *)
(* project_from_anchor_ids).                                               *)
THEOREM AnsweredAreTold == Spec => []AnsweredIsTold
<1>1. ASSUME IInv, reply = "stored", InPlace, Findable(result.id),
             NEW a \in Authorities, Within(canon[result.id], a)
      PROVE  LET r == canon[result.id]
                 told == Answers(r.domain, r.purpose, a, {r.subject}, FALSE)
             IN  /\ Cardinality(told) = 1
                 /\ told = {FromAnchor(r.id, a)}
                 /\ r.epistemic_status # "SUPERSEDED" => \A given \in told : r \in given.records
  <2> DEFINE r == canon[result.id]
             told == Answers(r.domain, r.purpose, a, {r.subject}, FALSE)
             anchors == {s \in Located(r.domain, r.purpose, a) : s.subject \in {r.subject}}
             whole == AuthorizedSiblings(r, a)
  <2>1. /\ result.id \in Ids /\ r \in KnowledgeRecord /\ r # NoRecord /\ r.id = result.id
        /\ gate[r.id] # NoRecord /\ SameFact(r, gate[r.id])
    <3>1. pc = "idle" /\ result # NoRecord /\ Kept(result)
      BY <1>1 DEF IInv, TypeOK, ResultInv, IndexInv
    <3>2. result.id \in Ids /\ r # NoRecord
      BY <1>1, <3>1 DEF IInv, TypeOK, Stored, KnowledgeRecord, Kept
    <3>3. r.id = result.id /\ r \in KnowledgeRecord
      BY <1>1, <3>2 DEF IInv, TypeOK, Stored, MemoryInv, Keyed
    <3> QED
      BY <1>1, <3>2, <3>3 DEF IInv, MemoryInv, Develops, Advanced
  <2>2. Readable(gate, r.id, a)
    BY <1>1, <2>1 DEF Readable, Within, SameFact, SameScope, Partition
  <2>3. Route(r.domain, {}, a) = "ROUTED" /\ r.purpose \in a.purposes
    BY <1>1, <2>1, RouterAssumption DEF Route, Within, KnowledgeRecord
  <2>4. r \in anchors
    BY <1>1 DEF Findable, Located
  <2>5. ASSUME NEW s \in anchors
        PROVE  AuthorizedSiblings(s, a) = whole
    <3>1. PICK i \in index : /\ s = canon[i.id] /\ canon[i.id] # NoRecord
                             /\ i.domain = r.domain /\ i.purpose = r.purpose
      BY <2>5 DEF Located, Search, Searched
    <3>2. s.domain = r.domain /\ s.purpose = r.purpose /\ s.subject = r.subject
      BY <1>1, <2>5, <3>1 DEF InPlace
    <3> HIDE DEF r
    <3> QED
      BY <3>2 DEF AuthorizedSiblings, SameScope
  <2>6. told = {Projection(AuthorizedSiblings(s, a)) : s \in anchors}
    BY <2>3, <2>4 DEF Answers
  <2>7. FromAnchor(r.id, a) = Projection(whole)
    BY <2>1, <2>2 DEF FromAnchor
  <2>8. r.epistemic_status # "SUPERSEDED" => r \in Projection(whole).records
    <3>1. r \in whole
      BY <2>1, <2>2 DEF AuthorizedSiblings, SameScope
    <3> QED
      BY <3>1, ProjectionTells
  <2> HIDE DEF r, told, anchors, whole
  <2>9. told = {FromAnchor(r.id, a)}
    BY <2>4, <2>5, <2>6, <2>7
  <2>10. Cardinality(told) = 1
    BY <2>9, FS_Singleton
  <2>11. r.epistemic_status # "SUPERSEDED" => \A given \in told : r \in given.records
    BY <2>7, <2>8, <2>9
  <2> QED
    BY <2>9, <2>10, <2>11 DEF r, told
<1>2. IInv /\ AnsweredIsFindable => AnsweredIsTold
  BY <1>1 DEF AnsweredIsFindable, AnsweredIsTold
<1> QED
  BY <1>2, RecoveryInvariant, AnsweredIsFound, PTL

(* Only what got into the index without Canon stands there out of place    *)
(* (put: the partition of an item is its record's).                        *)
THEOREM StrangersOutOfPlace ==
  Spec => [](\A i \in index :
               i \in Rogues \/ (canon[i.id] # NoRecord /\ Partition(i) = Partition(canon[i.id])))
<1> DEFINE Placed == \A i \in index :
             i \in Rogues \/ (canon[i.id] # NoRecord /\ Partition(i) = Partition(canon[i.id]))
<1>1. Init => Placed
  BY DEF Init
<1>2. ASSUME IInv, Placed, [Next]_vars
      PROVE  Placed'
  <2>1. \A id \in Ids : Advanced(canon[id], canon'[id])
    BY <1>2, CanonDevelops DEF Develops
  <2>2. \A i \in index : i.id \in Ids
    BY <1>2 DEF IInv, TypeOK, KnowledgeRecord
  <2>3. \A i \in index :
          i \in Rogues \/ (canon'[i.id] # NoRecord /\ Partition(i) = Partition(canon'[i.id]))
    BY <1>2, <2>1, <2>2 DEF Advanced, SameFact
  <2>4. ASSUME NEW i \in index', i \notin index
        PROVE  i \in Rogues \/ (canon'[i.id] # NoRecord /\ i = canon'[i.id])
    <3>1. CASE Project
      <4>1. i = Head(changed) /\ canon' = canon
        BY <2>4, <3>1 DEF Project, IndexPut, durable
      <4>2. i \in KnowledgeRecord /\ i = canon[i.id]
        BY <1>2, <3>1, <4>1, ProjectEffect
      <4> QED
        BY <4>1, <4>2, NoRecordApart
    <3>2. CASE \E r \in Rogues : Corrupt(r)
      BY <2>4, <3>2 DEF Corrupt, IndexPut
    <3>3. CASE Restart
      BY <2>4, <3>3 DEF Restart
    <3>4. CASE CanonFails \/ IndexFails
      BY <1>2, <2>4, <3>4, ErrorEffect
    <3>5. CASE \/ \E d \in Drafts, a \in Authorities : NewWrite(d, a)
               \/ \E id \in Ids, a \in Authorities : Promotion(id, a)
      BY <1>2, <2>4, <3>5, SyncBegins
    <3>6. CASE \E phase, r : Reprojection(phase, r)
      BY <2>4, <3>6 DEF Reprojection, StartProjection
    <3>7. CASE Refusal \/ PutRecord \/ AppendEvent \/ AdvanceCursor \/ Return \/ UNCHANGED vars
      BY <2>4, <3>7 DEF Refusal, Refuse, PutRecord, AppendEvent, AdvanceCursor, Return, vars
    <3> QED
      BY <1>2, <3>1, <3>2, <3>3, <3>4, <3>5, <3>6, <3>7, NextCases DEF Recovery
  <2> QED
    BY <2>3, <2>4
<1> HIDE DEF Placed
<1>3. Spec => []Placed
  BY <1>1, <1>2, RecoveryInvariant, PTL DEF Spec
<1> QED
  BY <1>3 DEF Placed
=============================================================================
