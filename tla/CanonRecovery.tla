---------------------------- MODULE CanonRecovery ----------------------------
(***************************************************************************)
(* governance/memos_recovery.py on top of governance/memos_composition.py: *)
(* a service that keeps the router's records in memory, makes them durable *)
(* in a SQLite file (Canon and its event trail) and projects them into a   *)
(* derived index.  Every put and every append is a transaction of its own, *)
(* so that a call may stop between any two of them: by an error of the     *)
(* database or of the index, which leaves the memory as it is, or with the *)
(* process, which loses it.                                                *)
(***************************************************************************)
EXTENDS CanonRouter, Sequences

CONSTANTS
  Drafts,      \* records that callers made with new_record
  Authorities, \* callers and readers
  Rogues,      \* what may get into the index without Canon
  MaxFaults    \* bound: how often each thing goes wrong

(* Errors of the database and of the index, items that get into the index  *)
(* without Canon, and restarts.                                            *)
FaultKinds == {"canon", "index", "rogue", "crash"}

ASSUME RecoveryAssumption ==
  /\ Authorities \subseteq Authority
  /\ Drafts \subseteq KnowledgeRecord
  /\ \A d \in Drafts : \E a \in Authorities : NewRecord(d, a)
  /\ \A d \in Drafts : d.predecessor # d.id
  /\ Rogues \subseteq KnowledgeRecord
  /\ MaxFaults \in [FaultKinds -> Nat]

VARIABLES
  canon,    \* canon[id]: the row of that id in "records"
  rowOrder, \* ids in the order of their rowids
  trail,    \* the table "events"
  index,    \* items of the derived index
  opened,   \* partitions of the index this process has opened
  gate,     \* gate._records
  gateOrder,\* its ids in the order of insertion
  backlog,  \* gate._history from _history_cursor on
  sent,     \* events of the backlog appended by this call
  pc,       \* "idle", "syncing", "projecting" or "reconciling"
  todo,     \* ids of the snapshot _sync has still to compare
  changed,  \* records that are still to be projected
  result,   \* the record the call returns
  reply,    \* how the last call ended
  accepted, \* records ever returned to a caller (external)
  faults    \* what went wrong so far, by kind

durable == <<canon, rowOrder, trail>>
memory == <<gate, gateOrder, backlog>>
work == <<pc, todo, changed, sent>>
answer == <<result, reply, accepted>>
vars == <<durable, index, opened, memory, work, answer, faults>>

Partition(r) == <<r.domain, r.purpose, r.sensitivity>>
Partitions == Domains \X Purposes \X Sensitivity

Init ==
  /\ canon = [id \in Ids |-> NoRecord]
  /\ rowOrder = <<>>
  /\ trail = <<>>
  /\ index = {}
  /\ opened = {}
  /\ gate = [id \in Ids |-> NoRecord]
  /\ gateOrder = <<>>
  /\ backlog = <<>>
  /\ sent = 0
  /\ pc = "idle"
  /\ todo = <<>>
  /\ changed = <<>>
  /\ result = NoRecord
  /\ reply = "none"
  /\ accepted = {}
  /\ faults = [kind \in FaultKinds |-> 0]

-----------------------------------------------------------------------------
(* Calls                                                                   *)

(* All of Canon in the order of its rows.                                  *)
Snapshot == [i \in 1 .. Len(rowOrder) |-> canon[rowOrder[i]]]

Refuse ==
  /\ reply' = "refused"
  /\ result' = NoRecord
  /\ UNCHANGED <<durable, index, opened, memory, work, accepted, faults>>

StartProjection(phase, r) ==
  /\ pc' = phase
  /\ changed' = Snapshot
  /\ result' = r
  /\ reply' = "none"
  /\ UNCHANGED <<durable, index, opened, memory, todo, sent, accepted, faults>>

(* The router has accepted a change: _sync begins.                         *)
StartSync(records, event, r) ==
  /\ gate' = records
  /\ gateOrder' = IF gate[r.id] = NoRecord THEN Append(gateOrder, r.id) ELSE gateOrder
  /\ backlog' = Append(backlog, event)
  /\ pc' = "syncing"
  /\ todo' = gateOrder'
  /\ changed' = <<>>
  /\ result' = r
  /\ reply' = "none"
  /\ UNCHANGED <<durable, index, opened, sent, accepted, faults>>

(* A slip: as in the service this one extends, every write is a new one.   *)
Fresh_Unchecked(d) == TRUE

Fresh(d) == canon[d.id] = NoRecord

WriteNew(d, a) ==
  /\ pc = "idle"
  /\ Fresh(d)
  /\ IF Admitted(gate, d, a)
       THEN StartSync(Written(gate, d), WriteEvent(gate, d), AsStored(gate, d))
       ELSE Refuse

(* A slip: the record is known, nothing is to be done.                     *)
WriteAgain_Trusting(d) ==
  /\ pc = "idle"
  /\ ~Fresh(d)
  /\ IF canon[d.id] = d
       THEN /\ result' = d
            /\ reply' = "stored"
            /\ accepted' = accepted \cup {d}
            /\ UNCHANGED <<durable, index, opened, memory, work, faults>>
       ELSE Refuse

(* The retry of a write repairs the index; another record of that id, the  *)
(* same record marked as conflicting included, is an idempotency conflict. *)
WriteAgain(d) ==
  /\ pc = "idle"
  /\ ~Fresh(d)
  /\ IF canon[d.id] = d THEN StartProjection("reconciling", d) ELSE Refuse

IsDecision(id) == canon[id] # NoRecord /\ canon[id].knowledge_type = "DECISION"

PromoteNew(id, a) ==
  /\ pc = "idle"
  /\ ~IsDecision(id)
  /\ IF Promotable(gate, id, a)
       THEN StartSync(Promoted(gate, id), PromoteEvent(id), Promoted(gate, id)[id])
       ELSE Refuse

PromoteAgain(id, a) ==
  /\ pc = "idle"
  /\ IsDecision(id)
  /\ IF a.can_promote_decision THEN StartProjection("reconciling", canon[id]) ELSE Refuse

ReconcileIndex == pc = "idle" /\ StartProjection("reconciling", NoRecord)

RebuildIndex == pc = "idle" /\ StartProjection("projecting", NoRecord)

-----------------------------------------------------------------------------
(* _sync                                                                   *)

(* Compare the next record with its row and store it if they differ.       *)
PutRecord ==
  /\ pc = "syncing"
  /\ todo # <<>>
  /\ LET id == Head(todo) IN
     /\ canon' = [canon EXCEPT ![id] = gate[id]]
     /\ rowOrder' = IF canon[id] = NoRecord THEN Append(rowOrder, id) ELSE rowOrder
     /\ changed' = IF canon[id] = gate[id] THEN changed ELSE Append(changed, gate[id])
  /\ todo' = Tail(todo)
  /\ UNCHANGED <<trail, index, opened, memory, pc, sent, answer, faults>>

RecordsStored == todo = <<>>

AppendEvent ==
  /\ pc = "syncing"
  /\ RecordsStored
  /\ sent < Len(backlog)
  /\ trail' = Append(trail, backlog[sent + 1])
  /\ sent' = sent + 1
  /\ UNCHANGED <<canon, rowOrder, index, opened, memory, pc, todo, changed, answer, faults>>

(* A slip: the cursor stays where it was.                                  *)
AdvanceCursor_Late ==
  /\ pc = "syncing"
  /\ todo = <<>>
  /\ sent = Len(backlog)
  /\ sent' = 0
  /\ pc' = "projecting"
  /\ UNCHANGED <<durable, index, opened, gate, gateOrder, backlog, todo, changed, answer, faults>>

AdvanceCursor ==
  /\ pc = "syncing"
  /\ todo = <<>>
  /\ sent = Len(backlog)
  /\ backlog' = <<>>
  /\ sent' = 0
  /\ pc' = "projecting"
  /\ UNCHANGED <<durable, index, opened, gate, gateOrder, todo, changed, answer, faults>>

-----------------------------------------------------------------------------
(* The derived index                                                       *)

(* An item is looked up by its id within its partition.                    *)
IndexPut(r) ==
  index' = {i \in index : i.id # r.id \/ Partition(i) # Partition(r)} \cup {r}

ContainsCurrent(r) == r \in index

Project ==
  /\ pc \in {"projecting", "reconciling"}
  /\ changed # <<>>
  /\ LET r == Head(changed) IN
     /\ IF pc = "reconciling" /\ ContainsCurrent(r) THEN UNCHANGED index ELSE IndexPut(r)
     /\ opened' = opened \cup {Partition(r)}
  /\ changed' = Tail(changed)
  /\ UNCHANGED <<durable, memory, pc, todo, sent, answer, faults>>

Return ==
  /\ pc \in {"projecting", "reconciling"}
  /\ changed = <<>>
  /\ pc' = "idle"
  /\ IF result = NoRecord
       THEN reply' = "reconciled" /\ UNCHANGED accepted
       ELSE reply' = "stored" /\ accepted' = accepted \cup {result}
  /\ UNCHANGED <<durable, index, opened, memory, todo, changed, sent, result, faults>>

(* What a search of one project for one purpose may bring up: ranking and  *)
(* top_k are left out.                                                     *)
Searched(project, purpose, a) ==
  {i \in index : /\ i.domain = project
                 /\ i.purpose = purpose
                 /\ i.sensitivity <= a.clearance
                 /\ Partition(i) \in opened}

(* A slip: the items themselves are returned.                              *)
Search_Unhydrated(project, purpose, a) ==
  IF Route(project, {}, a) # "ROUTED" \/ purpose \notin a.purposes THEN {}
  ELSE {i \in Searched(project, purpose, a) : Readable(gate, i.id, a)}

Search(project, purpose, a) ==
  IF Route(project, {}, a) # "ROUTED" \/ purpose \notin a.purposes THEN {}
  ELSE {canon[i.id] : i \in {i \in Searched(project, purpose, a) :
                               canon[i.id] # NoRecord /\ Readable(gate, i.id, a)}}

-----------------------------------------------------------------------------
(* What goes wrong                                                         *)

Suffer(kind) ==
  /\ faults[kind] < MaxFaults[kind]
  /\ faults' = [faults EXCEPT ![kind] = @ + 1]

Raise ==
  /\ pc' = "idle"
  /\ todo' = <<>>
  /\ changed' = <<>>
  /\ sent' = 0
  /\ result' = NoRecord
  /\ reply' = "failed"
  /\ UNCHANGED <<durable, index, memory, accepted>>

(* The database is locked or full: the transaction is rolled back.         *)
CanonFails == pc = "syncing" /\ Suffer("canon") /\ Raise /\ UNCHANGED opened

(* Looking up or storing an item fails; its partition is open by then, or  *)
(* not.                                                                    *)
IndexFails ==
  /\ pc \in {"projecting", "reconciling"}
  /\ changed # <<>>
  /\ opened' \in {opened, opened \cup {Partition(Head(changed))}}
  /\ Suffer("index")
  /\ Raise

(* The process ends, in a call or between two; the next one has only what  *)
(* is durable, with the index or with a new, empty one.                    *)
Restart ==
  /\ Suffer("crash")
  /\ gate' = canon
  /\ gateOrder' = rowOrder
  /\ backlog' = <<>>
  /\ pc' = "idle"
  /\ todo' = <<>>
  /\ changed' = <<>>
  /\ sent' = 0
  /\ opened' = {}
  /\ index' \in {index, {}}
  /\ result' = NoRecord
  /\ reply' = "none"
  /\ UNCHANGED <<durable, accepted>>

(* External: an item gets into the index without Canon.                    *)
Corrupt(r) ==
  /\ pc = "idle"
  /\ Suffer("rogue")
  /\ IndexPut(r)
  /\ opened' = opened \cup {Partition(r)}
  /\ result' = NoRecord
  /\ reply' = "none"
  /\ UNCHANGED <<durable, memory, work, accepted>>

Call ==
  \/ \E d \in Drafts : WriteAgain(d) \/ \E a \in Authorities : WriteNew(d, a)
  \/ \E id \in Ids, a \in Authorities : PromoteNew(id, a) \/ PromoteAgain(id, a)
  \/ ReconcileIndex
  \/ RebuildIndex

Sync == PutRecord \/ AppendEvent \/ AdvanceCursor

Fault == CanonFails \/ IndexFails \/ Restart \/ \E r \in Rogues : Corrupt(r)

Next == Call \/ Sync \/ Project \/ Return \/ Fault

Spec == Init /\ [][Next]_vars

-----------------------------------------------------------------------------
(* Properties                                                              *)

(* Every variable keeps its type.                                          *)
TypeOK ==
  /\ canon \in [Ids -> Stored]
  /\ rowOrder \in Seq(Ids)
  /\ trail \in Seq(HistoryEvent)
  /\ index \subseteq KnowledgeRecord
  /\ opened \subseteq Partitions
  /\ gate \in [Ids -> Stored]
  /\ gateOrder \in Seq(Ids)
  /\ backlog \in Seq(HistoryEvent)
  /\ sent \in Nat
  /\ pc \in {"idle", "syncing", "projecting", "reconciling"}
  /\ todo \in Seq(Ids)
  /\ changed \in Seq(KnowledgeRecord)
  /\ result \in Stored
  /\ reply \in {"none", "stored", "reconciled", "refused", "failed"}
  /\ accepted \subseteq KnowledgeRecord
  /\ faults \in [FaultKinds -> Nat]

(* The same statement, whatever became of its status and type.             *)
SameFact(r, s) ==
  /\ r.id = s.id
  /\ SameScope(r, s)
  /\ Partition(r) = Partition(s)
  /\ r.content = s.content
  /\ r.predecessor = s.predecessor

(* What a caller was once given as stored stays in Canon word for word,    *)
(* and a promotion stays, over all errors, restarts and retries with a     *)
(* record that was altered in between (write, promote_idea_to_decision).   *)
AcceptedKept ==
  \A r \in accepted :
    /\ canon[r.id] # NoRecord
    /\ SameFact(canon[r.id], r)
    /\ canon[r.id].knowledge_type \in {r.knowledge_type, "DECISION"}

Current(id) == canon[id] # NoRecord /\ canon[id].epistemic_status # "SUPERSEDED"

(* No contradiction in Canon has a silent winner: of two current records   *)
(* that say different things on one subject, neither a correction, both    *)
(* are marked, also where a write stopped half way (the order of _sync).   *)
ConflictsMarked ==
  \A x, y \in Ids :
    /\ Current(x) /\ Current(y)
    /\ SameScope(canon[x], canon[y])
    /\ canon[x].content # canon[y].content
    /\ canon[x].knowledge_type # "CORRECTION" /\ canon[y].knowledge_type # "CORRECTION"
    => canon[x].epistemic_status = "CONFLICTING" /\ canon[y].epistemic_status = "CONFLICTING"

(* A search shows only records that Canon has, as Canon has them, and only *)
(* what its reader may see, whatever is in the index and however far the   *)
(* memory, which decides, is from Canon, which is shown (search).          *)
SearchHonest ==
  \A a \in Authorities, project \in Domains, purpose \in Purposes :
    \A r \in Search(project, purpose, a) : r = canon[r.id] /\ Within(r, a)

(* Its projection is current and whoever may see it finds it.              *)
Findable(id) ==
  /\ canon[id] \in index
  /\ \A a \in Authorities :
       Within(canon[id], a) => canon[id] \in Search(canon[id].domain, canon[id].purpose, a)

(* When a write or a promotion was answered, its record is projected and   *)
(* found as Canon has it; when a reconciliation or a rebuild was, every    *)
(* record is: the index stays behind after an error until write's retry    *)
(* or a reconciliation repairs it, and after a restart until its           *)
(* partitions are opened.                                                  *)
AnsweredIsFindable ==
  /\ reply = "stored" => Findable(result.id)
  /\ reply = "reconciled" => \A id \in Ids : canon[id] # NoRecord => Findable(id)

(* No write or promotion was ended by an error of the database.            *)
DatabaseWorked == faults["canon"] = 0

(* A correction never stands in Canon beside a current version of what it  *)
(* corrects (_write_correction).                                           *)
LineageKept ==
  \A id \in Ids :
    canon[id] # NoRecord /\ canon[id].knowledge_type = "CORRECTION" =>
      LET p == canon[id].predecessor IN
      /\ p \in Ids
      /\ canon[p] # NoRecord
      /\ SameScope(canon[p], canon[id])
      /\ canon[p].epistemic_status = "SUPERSEDED"

(* Unless the database fails, lineage holds half way through every write   *)
(* and after every restart (_sync: what is corrected is put first).        *)
LineageWhileDatabaseWorks == DatabaseWorked => LineageKept

(* No event is on the trail twice.                                         *)
HistoryOnce == \A i, j \in DOMAIN trail : trail[i] = trail[j] => i = j

(* The event trail is not behind what was accepted: whatever callers were  *)
(* given as stored has left an event.  The service calls itself crash- and *)
(* retry-safe in this; a retry after a crash between put and append (write *)
(* finds the record in Canon) breaks it.                                   *)
AcceptedLeavesTrail ==
  \A r \in accepted : \E i \in DOMAIN trail : trail[i].id = r.id

(* Unless the database fails no event is on the trail twice, and until a   *)
(* first restart nothing that was accepted is missing there                *)
(* (RecoverableGovernedMemOSService: the order of its four steps).         *)
TrailComplete ==
  DatabaseWorked => HistoryOnce /\ (faults["crash"] = 0 => AcceptedLeavesTrail)

(* Unless the database fails the trail never tells what Canon does not     *)
(* show: the record and all it refers to are stored, with the marks the    *)
(* event is about (_sync).                                                 *)
TrailNeverAhead ==
  DatabaseWorked =>
    \A i \in DOMAIN trail :
      LET e == trail[i] IN
      /\ \A id \in e.others \cup {e.id} : canon[id] # NoRecord
      /\ e.event = "corrected" =>
           \A p \in e.others : canon[p].epistemic_status = "SUPERSEDED"
      /\ e.event = "conflict_detected" =>
           \A id \in e.others \cup {e.id} :
             canon[id].epistemic_status \in {"CONFLICTING", "SUPERSEDED"}
      /\ e.event = "knowledge_type_promoted" => canon[e.id].knowledge_type = "DECISION"

(* In Canon a record never loses a mark it had: a superseded record never  *)
(* becomes current again, a conflict is never taken back and a decision    *)
(* never becomes an idea (the gate restored by __init__, write's retry).   *)
Advanced(old, new) ==
  old # NoRecord =>
    /\ new # NoRecord
    /\ SameFact(old, new)
    /\ old.epistemic_status = "SUPERSEDED" => new.epistemic_status = "SUPERSEDED"
    /\ old.epistemic_status = "CONFLICTING" =>
         new.epistemic_status \in {"CONFLICTING", "SUPERSEDED"}
    /\ old.knowledge_type = "DECISION" => new.knowledge_type = "DECISION"

MarksAreFinal == [][\A id \in Ids : Advanced(canon[id], canon'[id])]_canon
=============================================================================
