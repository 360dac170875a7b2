----------------------------- MODULE CanonRouter -----------------------------
(***************************************************************************)
(* governance/canon_router.py: the policy of FailClosedCanonRouter as      *)
(* operators on its dictionary of records, which is a function from ids to *)
(* records here.  What is stored of a record beside the fields below       *)
(* (source, time, confidence, relations, author) never decides anything    *)
(* and belongs to "content".                                               *)
(***************************************************************************)
EXTENDS Naturals

CONSTANTS Ids, Domains, Subjects, Purposes, Contents

ASSUME RouterAssumption == "none" \notin Ids /\ "none" \notin Domains

KnowledgeType ==
  {"IDEA", "QUESTION", "OBSERVATION", "CLAIM", "DECISION", "CORRECTION", "TASK"}

EpistemicStatus == {"UNCONFIRMED", "USER_STATED", "VERIFIED", "SUPERSEDED", "CONFLICTING"}

(* PUBLIC, INTERNAL, CONFIDENTIAL, RESTRICTED by their rank.               *)
Sensitivity == 0 .. 3

KnowledgeRecord ==
  [id : Ids, domain : Domains, subject : Subjects, purpose : Purposes,
   sensitivity : Sensitivity, knowledge_type : KnowledgeType,
   epistemic_status : EpistemicStatus, content : Contents,
   predecessor : Ids \cup {"none"}]

NoRecord == [id |-> "none"]

Stored == KnowledgeRecord \cup {NoRecord}

Authority ==
  [projects : SUBSET Domains, purposes : SUBSET Purposes, clearance : Sensitivity,
   can_verify : BOOLEAN, can_correct : BOOLEAN, can_promote_decision : BOOLEAN]

HistoryEvent ==
  [event : {"written", "conflict_detected", "corrected", "knowledge_type_promoted"},
   id : Ids, others : SUBSET Ids]

WithStatus(r, status) ==
  [id |-> r.id, domain |-> r.domain, subject |-> r.subject, purpose |-> r.purpose,
   sensitivity |-> r.sensitivity, knowledge_type |-> r.knowledge_type,
   epistemic_status |-> status, content |-> r.content, predecessor |-> r.predecessor]

WithType(r, type) ==
  [id |-> r.id, domain |-> r.domain, subject |-> r.subject, purpose |-> r.purpose,
   sensitivity |-> r.sensitivity, knowledge_type |-> type,
   epistemic_status |-> r.epistemic_status, content |-> r.content,
   predecessor |-> r.predecessor]

-----------------------------------------------------------------------------
(* Who may do what                                                         *)

Within(r, a) ==
  /\ r.domain \in a.projects
  /\ r.purpose \in a.purposes
  /\ r.sensitivity <= a.clearance

(* Two candidates are ambiguous even if only one of them is authorized.    *)
Route(target, candidates, a) ==
  IF target # "none"
    THEN IF target \in a.projects THEN "ROUTED" ELSE "BLOCKED"
  ELSE IF candidates = {} THEN "UNROUTED"
  ELSE IF \E c, d \in candidates : c # d THEN "AMBIGUOUS"
  ELSE IF candidates \subseteq a.projects THEN "ROUTED" ELSE "BLOCKED"

Entitled(r, a) ==
  /\ r.epistemic_status = "VERIFIED" => a.can_verify
  /\ r.knowledge_type = "CORRECTION" => a.can_correct

NewRecord(r, a) ==
  /\ Within(r, a)
  /\ Entitled(r, a)
  /\ r.epistemic_status \notin {"SUPERSEDED", "CONFLICTING"}
  /\ r.knowledge_type = "CORRECTION" => r.predecessor # "none"

PreWritePolicy(r, a) == Within(r, a) /\ Entitled(r, a)

Readable(records, id, a) == records[id] # NoRecord /\ Within(records[id], a)

-----------------------------------------------------------------------------
(* write                                                                   *)

SameScope(r, s) == r.domain = s.domain /\ r.subject = s.subject

(* A slip: only claims conflict with one another.                          *)
Conflicts_ClaimsOnly(records, r) ==
  {id \in Ids : /\ records[id] # NoRecord
                /\ SameScope(records[id], r)
                /\ records[id].content # r.content
                /\ records[id].knowledge_type = "CLAIM"
                /\ r.knowledge_type = "CLAIM"
                /\ records[id].epistemic_status # "SUPERSEDED"}

(* A slip: what was superseded still takes part in conflicts.              *)
Conflicts_WithSuperseded(records, r) ==
  {id \in Ids : /\ records[id] # NoRecord
                /\ SameScope(records[id], r)
                /\ records[id].content # r.content
                /\ records[id].knowledge_type # "CORRECTION"}

Conflicts(records, r) ==
  {id \in Ids : /\ records[id] # NoRecord
                /\ SameScope(records[id], r)
                /\ records[id].content # r.content
                /\ records[id].knowledge_type # "CORRECTION"
                /\ records[id].epistemic_status # "SUPERSEDED"}

(* A correction needs its predecessor, about the same subject.             *)
Correctable(records, r) ==
  /\ r.predecessor # "none"
  /\ records[r.predecessor] # NoRecord
  /\ SameScope(records[r.predecessor], r)

Admitted(records, r, a) ==
  /\ PreWritePolicy(r, a)
  /\ r.knowledge_type = "CORRECTION" => Correctable(records, r)

(* The record as it is stored and returned.                                *)
AsStored(records, r) ==
  IF r.knowledge_type # "CORRECTION" /\ Conflicts(records, r) # {}
    THEN WithStatus(r, "CONFLICTING") ELSE r

(* A slip: a record in conflict stays so when it is corrected.             *)
Mark_KeepsConflict(records, r, id) ==
  IF r.knowledge_type = "CORRECTION"
    THEN IF id = r.predecessor /\ records[id].epistemic_status # "CONFLICTING"
           THEN WithStatus(records[id], "SUPERSEDED") ELSE records[id]
    ELSE IF id \in Conflicts(records, r)
           THEN WithStatus(records[id], "CONFLICTING") ELSE records[id]

(* What writing a record makes of the others.                              *)
Mark(records, r, id) ==
  IF r.knowledge_type = "CORRECTION"
    THEN IF id = r.predecessor THEN WithStatus(records[id], "SUPERSEDED") ELSE records[id]
    ELSE IF id \in Conflicts(records, r)
           THEN WithStatus(records[id], "CONFLICTING") ELSE records[id]

Written(records, r) ==
  [id \in Ids |-> IF id = r.id THEN AsStored(records, r) ELSE Mark(records, r, id)]

WriteEvent(records, r) ==
  IF r.knowledge_type = "CORRECTION"
    THEN [event |-> "corrected", id |-> r.id, others |-> {r.predecessor}]
  ELSE IF Conflicts(records, r) # {}
    THEN [event |-> "conflict_detected", id |-> r.id, others |-> Conflicts(records, r)]
  ELSE [event |-> "written", id |-> r.id, others |-> {}]

-----------------------------------------------------------------------------
(* promote_idea_to_decision                                                *)

Promotable(records, id, a) ==
  /\ a.can_promote_decision
  /\ records[id] # NoRecord
  /\ records[id].knowledge_type = "IDEA"

Promoted(records, id) == [records EXCEPT ![id] = WithType(records[id], "DECISION")]

PromoteEvent(id) == [event |-> "knowledge_type_promoted", id |-> id, others |-> {}]
=============================================================================
