-------------------------- MODULE TruthAwareAnswers --------------------------
(***************************************************************************)
(* governance/truth_aware_answer_set.py over the recoverable service: the  *)
(* derived index proposes ids, Canon and the gate decide what an answer    *)
(* shows.  The scores, and with them which of several proposals becomes    *)
(* the anchor, are any; a query is the set of the subjects it names.       *)
(***************************************************************************)
EXTENDS CanonRecovery, FiniteSets

Answer(status, records) == [status |-> status, records |-> records]

Nothing == Answer("EMPTY", {})

(* locate: what is proposed, Canon has and the reader may read.            *)
Located(project, purpose, a) == Search(project, purpose, a)

(* _authorized_siblings: all of Canon on the anchor's subject.             *)
AuthorizedSiblings(anchor, a) ==
  {canon[id] : id \in {id \in Ids : /\ canon[id] # NoRecord
                                    /\ SameScope(canon[id], anchor)
                                    /\ canon[id].purpose = anchor.purpose
                                    /\ Readable(gate, id, a)}}

(* A slip: the conflict is looked for in what is superseded as well, and a *)
(* mark that its other side has lost is not one.                           *)
Projection_AnyStatus(siblings) ==
  IF siblings = {} THEN Nothing
  ELSE IF Cardinality({r \in siblings : r.epistemic_status = "CONFLICTING"}) > 1
    THEN Answer("CONFLICTING", siblings)
    ELSE Answer("CURRENT", siblings)

(* The current ones of the siblings, and whether they contradict.          *)
Projection(siblings) ==
  LET current == {r \in siblings : r.epistemic_status # "SUPERSEDED"} IN
  IF current = {} THEN Nothing
  ELSE IF \E r \in current : r.epistemic_status = "CONFLICTING"
    THEN Answer("CONFLICTING", current)
    ELSE Answer("CURRENT", current)

History(siblings) == IF siblings = {} THEN Nothing ELSE Answer("HISTORY", siblings)

(* answer: all it may answer, one for each anchor the scores may choose.   *)
Answers(project, purpose, a, named, history) ==
  IF Route(project, {}, a) # "ROUTED" \/ purpose \notin a.purposes
    THEN {Answer("BLOCKED", {})}
  ELSE
    LET anchors == {r \in Located(project, purpose, a) : r.subject \in named} IN
    IF anchors = {} THEN {Nothing}
    ELSE {IF history THEN History(AuthorizedSiblings(r, a))
                     ELSE Projection(AuthorizedSiblings(r, a)) : r \in anchors}

(* project_from_anchor_ids, for the first id that Canon has and the reader *)
(* may read.                                                               *)
FromAnchor(id, a) ==
  IF canon[id] = NoRecord \/ ~Readable(gate, id, a) THEN Nothing
  ELSE Projection(AuthorizedSiblings(canon[id], a))

-----------------------------------------------------------------------------
(* Properties                                                              *)

Contradict(r, s) ==
  /\ r.content # s.content
  /\ r.knowledge_type # "CORRECTION" /\ s.knowledge_type # "CORRECTION"

(* Whatever the index proposes, whatever went wrong before: an answer      *)
(* shows only what its reader may see of Canon, on one subject, one that   *)
(* calls itself current holds nothing superseded and no contradiction, and *)
(* one that calls itself conflicting still has something current in it     *)
(* (answer).                                                               *)
AnswerHonest ==
  pc = "idle" =>
    \A a \in Authorities, project \in Domains, purpose \in Purposes, history \in BOOLEAN :
      \A given \in Answers(project, purpose, a, Subjects, history) :
        /\ \A r \in given.records : r = canon[r.id] /\ Within(r, a)
        /\ \A r, s \in given.records : SameScope(r, s)
        /\ given.status \in {"CURRENT", "CONFLICTING"} =>
             \A r \in given.records : r.epistemic_status # "SUPERSEDED"
        /\ given.status = "CURRENT" =>
             \A r, s \in given.records : ~Contradict(r, s)

(* The items stand in the partitions of their records.  An item of another *)
(* project or purpose that bears the id of a record makes the record an    *)
(* anchor there, which is then answered with its own siblings (locate      *)
(* compares neither with the record): such items are left out below.       *)
InPlace ==
  \A i \in index : canon[i.id] # NoRecord =>
    i.domain = canon[i.id].domain /\ i.purpose = canon[i.id].purpose

(* A caller whose write was answered finds it when he asks for its subject:*)
(* every answer he may get tells of the record, or the record has been     *)
(* superseded and the answer tells of something else; and whichever record *)
(* becomes the anchor, the answer is the same (project_from_anchor_ids:    *)
(* "one authorized derived anchor can recover full Canon siblings").       *)
AnsweredIsTold ==
  reply = "stored" /\ InPlace =>
    LET r == canon[result.id] IN
    \A a \in {a \in Authorities : Within(r, a)} :
      LET told == Answers(r.domain, r.purpose, a, {r.subject}, FALSE) IN
      /\ Cardinality(told) = 1
      /\ told = {FromAnchor(r.id, a)}
      /\ r.epistemic_status # "SUPERSEDED" =>
           \A given \in told : r \in given.records
=============================================================================
