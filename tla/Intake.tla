------------------------------- MODULE Intake -------------------------------
(***************************************************************************)
(* governance/intake_composition.py: services that take messages apart,    *)
(* park what has no safe target in an inbox, write the rest into Canon     *)
(* once per content and keep, in a catalog beside Canon, which record      *)
(* stands for which content and which domains refer to it.  Canon, the     *)
(* catalog and the inbox are files of their own and every statement is a   *)
(* transaction of its own, so that calls of several services interleave    *)
(* and a call may stop between any two.                                    *)
(***************************************************************************)
EXTENDS IntakeRouter, SequencesExt

CONSTANTS
  Services,    \* processes on the same files
  Registries,  \* what a process may be started with
  Messages,    \* for ingest_message
  Explicits,   \* candidates of ingest_explicit
  Writer,      \* the authority of every call
  Purpose, Level,  \* purpose and sensitivity of every call
  MaxCalls, MaxFaults  \* bounds

(* A message without a clause is answered at once and changes nothing.      *)
ASSUME IntakeAssumption ==
  /\ IsFiniteSet(Domains)
  /\ Registries \subseteq Registry
  /\ Messages \subseteq [clauses : Seq(Contents) \ {<<>>}, previous : Domains \cup {"none"}]
  /\ Explicits \subseteq {c \in CandidateDraft :
                            c.route_status = "ROUTED" /\ c.target_domain # "none"}
  /\ Writer \in Authority
  /\ Purpose \in Purposes
  /\ Level \in Sensitivity
  /\ MaxCalls \in Nat
  /\ MaxFaults \in Nat

RelationKind == {"primary", "cross_project_duplicate_reference", "related_domain"}

DomainRef == [id : Ids, domain : Domains, kind : RelationKind]

Outcome == [status : {"PARKED", "WRITTEN", "LINKED_DUPLICATE"},
            candidate : CandidateDraft, id : Ids \cup {"none"}]

VARIABLES
  canon,    \* canon[id]: the row of that id
  bound,    \* content_identity: the record of a fingerprint
  refs,     \* domain_refs
  parked,   \* candidates in the inbox
  gate,     \* gate[s]: records in the memory of service s
  registry, \* registry[s]: its registry
  pc,       \* where the call of s stands
  rest,     \* its candidates that are not dealt with, the current one first
  record,   \* the record it writes or found
  refsTodo, \* the references it has still to add
  log,      \* outcome_log of all services, kept over restarts
  settled,  \* contents answered when s took its candidate up (external)
  minted,   \* ids given out
  calls, faults

files == <<canon, bound, refs, parked>>
process == <<gate, registry>>
call == <<pc, rest, record, refsTodo, settled>>
vars == <<files, process, call, log, minted, calls, faults>>

NoRecords == [id \in Ids |-> NoRecord]

Init ==
  /\ canon = NoRecords
  /\ bound = [f \in Fingerprints |-> "none"]
  /\ refs = {}
  /\ parked = {}
  /\ gate = [s \in Services |-> NoRecords]
  /\ registry \in [Services -> Registries]
  /\ pc = [s \in Services |-> "idle"]
  /\ rest = [s \in Services |-> <<>>]
  /\ record = [s \in Services |-> NoRecord]
  /\ refsTodo = [s \in Services |-> <<>>]
  /\ log = {}
  /\ settled = [s \in Services |-> {}]
  /\ minted = {}
  /\ calls = 0
  /\ faults = 0

Of(candidate) == Fingerprint(candidate.subject, candidate.content)

Answered == {Of(o.candidate) : o \in {o \in log : o.status # "PARKED"}}

-----------------------------------------------------------------------------
(* Calls                                                                   *)

Begin(s, candidates) ==
  /\ pc[s] = "idle"
  /\ calls < MaxCalls
  /\ calls' = calls + 1
  /\ pc' = [pc EXCEPT ![s] = "candidate"]
  /\ rest' = [rest EXCEPT ![s] = candidates]
  /\ settled' = [settled EXCEPT ![s] = Answered]
  /\ UNCHANGED <<files, process, record, refsTodo, log, minted, faults>>

IngestMessage(s, message) == Begin(s, AnalyzeMessage(registry[s], message))

IngestExplicit(s, candidate) == Begin(s, <<candidate>>)

-----------------------------------------------------------------------------
(* ingest_candidate                                                        *)

(* A safe target, which the caller may write to and whose Canon can be     *)
(* read: tried in this order, and whichever fails has the same end.        *)
Writable(s, c) ==
  /\ c.route_status = "ROUTED"
  /\ Route(c.target_domain, {}, Writer) = "ROUTED"
  /\ ReadCurrentCanon(registry[s], c.target_domain)

(* The outcome is logged and the next candidate taken up.                  *)
Conclude(s, status, id) ==
  LET outcome == [status |-> status, candidate |-> Head(rest[s]), id |-> id] IN
  /\ log' = log \cup {outcome}
  /\ rest' = [rest EXCEPT ![s] = Tail(@)]
  /\ settled' = [settled EXCEPT ![s] =
                   Answered \cup (IF id = "none" THEN {} ELSE {Of(Head(rest[s]))})]
  /\ record' = [record EXCEPT ![s] = NoRecord]
  /\ pc' = [pc EXCEPT ![s] = IF Tail(rest[s]) = <<>> THEN "idle" ELSE "candidate"]

Park(s) ==
  /\ pc[s] = "candidate"
  /\ ~Writable(s, Head(rest[s]))
  /\ parked' = parked \cup {Head(rest[s])}
  /\ Conclude(s, "PARKED", "none")
  /\ UNCHANGED <<canon, bound, refs, process, refsTodo, minted, calls, faults>>

(* A slip: only the target refers to the record.                           *)
RefsOf_TargetOnly(c, id, kind) == <<[id |-> id, domain |-> c.target_domain, kind |-> kind]>>

(* The references of a candidate, its target first; the related domains    *)
(* come in one order, that of their names.                                 *)
RefsOf(c, id, kind) ==
  <<[id |-> id, domain |-> c.target_domain, kind |-> kind]>>
    \o SetToSeq({[id |-> id, domain |-> d, kind |-> "related_domain"] : d \in c.related_domains})

(* The content is known: its record is loaded and only referred to.        *)
Resolve(s) ==
  LET c == Head(rest[s])
      existing == bound[Of(c)] IN
  /\ pc[s] = "candidate"
  /\ Writable(s, c)
  /\ existing # "none" /\ canon[existing] # NoRecord
  /\ record' = [record EXCEPT ![s] = canon[existing]]
  /\ refsTodo' = [refsTodo EXCEPT ![s] =
                    RefsOf(c, existing, "cross_project_duplicate_reference")]
  /\ pc' = [pc EXCEPT ![s] = "linking"]
  /\ UNCHANGED <<files, process, rest, log, settled, minted, calls, faults>>

(* The record new_record makes of a candidate.                             *)
DraftOf(c, id) ==
  [id |-> id, domain |-> c.target_domain, subject |-> c.subject, purpose |-> Purpose,
   sensitivity |-> Level, knowledge_type |-> c.knowledge_type,
   epistemic_status |-> "USER_STATED", content |-> c.content, predecessor |-> "none"]

FreshId == CHOOSE id \in Ids : id \notin minted

(* A slip: the content is bound before its record is written.              *)
Admit_BindsFirst(s) ==
  LET c == Head(rest[s])
      draft == DraftOf(c, FreshId) IN
  /\ pc[s] = "candidate"
  /\ Writable(s, c)
  /\ bound[Of(c)] = "none"
  /\ minted # Ids
  /\ NewRecord(draft, Writer)
  /\ minted' = minted \cup {draft.id}
  /\ bound' = [bound EXCEPT ![Of(c)] = draft.id]
  /\ record' = [record EXCEPT ![s] = AsStored(gate[s], draft)]
  /\ gate' = [gate EXCEPT ![s] = Written(gate[s], draft)]
  /\ pc' = [pc EXCEPT ![s] = "writing"]
  /\ UNCHANGED <<canon, refs, parked, registry, rest, refsTodo, log, settled, calls, faults>>

(* The content is new: a record is made and accepted by the router in the  *)
(* memory of the service.                                                  *)
Admit(s) ==
  LET c == Head(rest[s])
      draft == DraftOf(c, FreshId) IN
  /\ pc[s] = "candidate"
  /\ Writable(s, c)
  /\ bound[Of(c)] = "none"
  /\ minted # Ids
  /\ NewRecord(draft, Writer)
  /\ minted' = minted \cup {draft.id}
  /\ record' = [record EXCEPT ![s] = AsStored(gate[s], draft)]
  /\ gate' = [gate EXCEPT ![s] = Written(gate[s], draft)]
  /\ pc' = [pc EXCEPT ![s] = "writing"]
  /\ UNCHANGED <<files, registry, rest, refsTodo, log, settled, calls, faults>>

(* Some of what the memory has goes into Canon.                            *)
Synced(s, ids) == [id \in Ids |-> IF id \in ids THEN gate[s][id] ELSE canon[id]]

InMemory(s) == {id \in Ids : gate[s][id] # NoRecord}

Write(s) ==
  /\ pc[s] = "writing"
  /\ canon' = Synced(s, InMemory(s))
  /\ pc' = [pc EXCEPT ![s] = "binding"]
  /\ UNCHANGED <<bound, refs, parked, process, rest, record, refsTodo, log, settled,
                 minted, calls, faults>>

(* A slip: the content is not bound.                                       *)
Bind_Forgotten(s) ==
  LET c == Head(rest[s]) IN
  /\ pc[s] = "binding"
  /\ refsTodo' = [refsTodo EXCEPT ![s] = RefsOf(c, record[s].id, "primary")]
  /\ pc' = [pc EXCEPT ![s] = "referring"]
  /\ UNCHANGED <<files, process, rest, record, log, settled, minted, calls, faults>>

(* Whoever binds first stays bound.                                        *)
Bind(s) ==
  LET c == Head(rest[s]) IN
  /\ pc[s] = "binding"
  /\ bound' = [bound EXCEPT ![Of(c)] = IF @ = "none" THEN record[s].id ELSE @]
  /\ refsTodo' = [refsTodo EXCEPT ![s] = RefsOf(c, record[s].id, "primary")]
  /\ pc' = [pc EXCEPT ![s] = "referring"]
  /\ UNCHANGED <<canon, refs, parked, process, rest, record, log, settled, minted,
                 calls, faults>>

AddDomainRef(s) ==
  /\ pc[s] \in {"linking", "referring"}
  /\ refs' = refs \cup {Head(refsTodo[s])}
  /\ refsTodo' = [refsTodo EXCEPT ![s] = Tail(@)]
  /\ IF Len(refsTodo[s]) = 1
       THEN Conclude(s, IF pc[s] = "linking" THEN "LINKED_DUPLICATE" ELSE "WRITTEN",
                     record[s].id)
       ELSE UNCHANGED <<log, rest, settled, record, pc>>
  /\ UNCHANGED <<canon, bound, parked, process, minted, calls, faults>>

-----------------------------------------------------------------------------
(* What ends a call early.  The candidates after the current one are not   *)
(* dealt with, and nothing is taken back.                                  *)

Abandon(s) ==
  /\ pc' = [pc EXCEPT ![s] = "idle"]
  /\ rest' = [rest EXCEPT ![s] = <<>>]
  /\ record' = [record EXCEPT ![s] = NoRecord]
  /\ refsTodo' = [refsTodo EXCEPT ![s] = <<>>]
  /\ UNCHANGED <<settled, log, minted, calls>>

(* new_record raises: intake knows no predecessor to a correction.         *)
RefuseRecord(s) ==
  /\ pc[s] = "candidate"
  /\ Writable(s, Head(rest[s]))
  /\ bound[Of(Head(rest[s]))] = "none"
  /\ minted # Ids
  /\ ~NewRecord(DraftOf(Head(rest[s]), FreshId), Writer)
  /\ Abandon(s)
  /\ UNCHANGED <<files, process, faults>>

(* The RuntimeError of ingest_candidate; BindingsHold says that no call    *)
(* meets it, so that there is no action for it.                            *)
CatalogBroken(s) ==
  /\ pc[s] = "candidate"
  /\ bound[Of(Head(rest[s]))] # "none"
  /\ canon[bound[Of(Head(rest[s]))]] = NoRecord

Suffer == faults < MaxFaults /\ faults' = faults + 1

(* A file cannot be written; a write may have stored some records by then, *)
(* the new one last, and even all when the index or the trail failed.      *)
StepFails(s) ==
  /\ pc[s] # "idle"
  /\ Suffer
  /\ \/ UNCHANGED canon
     \/ /\ pc[s] = "writing"
        /\ \E ids \in SUBSET InMemory(s) :
             /\ record[s].id \in ids => ids = InMemory(s)
             /\ canon' = Synced(s, ids)
  /\ Abandon(s)
  /\ UNCHANGED <<bound, refs, parked, process>>

(* The process ends between two calls or two transactions and is started   *)
(* again, perhaps with another registry.                                   *)
Restart(s) ==
  /\ Suffer
  /\ gate' = [gate EXCEPT ![s] = canon]
  /\ \E r \in Registries : registry' = [registry EXCEPT ![s] = r]
  /\ Abandon(s)
  /\ UNCHANGED files

Step(s) ==
  \/ \E message \in Messages : IngestMessage(s, message)
  \/ \E candidate \in Explicits : IngestExplicit(s, candidate)
  \/ Park(s) \/ Resolve(s) \/ Admit(s) \/ Write(s) \/ Bind(s) \/ AddDomainRef(s)
  \/ RefuseRecord(s) \/ StepFails(s) \/ Restart(s)

Next == \E s \in Services : Step(s)

Spec == Init /\ [][Next]_vars

-----------------------------------------------------------------------------
(* Properties                                                              *)

(* Every variable keeps its type.                                          *)
TypeOK ==
  /\ canon \in [Ids -> Stored]
  /\ bound \in [Fingerprints -> Ids \cup {"none"}]
  /\ refs \subseteq DomainRef
  /\ parked \subseteq CandidateDraft
  /\ gate \in [Services -> [Ids -> Stored]]
  /\ registry \in [Services -> Registry]
  /\ pc \in [Services -> {"idle", "candidate", "linking", "writing", "binding", "referring"}]
  /\ rest \in [Services -> Seq(CandidateDraft)]
  /\ record \in [Services -> Stored]
  /\ refsTodo \in [Services -> Seq(DomainRef)]
  /\ log \subseteq Outcome
  /\ settled \in [Services -> SUBSET Fingerprints]
  /\ minted \subseteq Ids

(* The catalog names, for a content, a record that Canon has and that says *)
(* this content: ingest_candidate never meets the RuntimeError about a     *)
(* missing canonical record, whatever stopped between write and bind.      *)
BindingsHold ==
  /\ \A f \in Fingerprints :
       bound[f] # "none" =>
         /\ canon[bound[f]] # NoRecord
         /\ Fingerprint(canon[bound[f]].subject, canon[bound[f]].content) = f
  /\ \A s \in Services : ~CatalogBroken(s)

(* Once any service has answered for a content, no candidate taken up      *)
(* afterwards makes a second record of it: a duplicate can only come from  *)
(* a call that overlapped with the first or from one that failed between   *)
(* write and bind.                                                         *)
AnsweredOnce ==
  \A s \in Services :
    pc[s] \in {"writing", "binding", "referring"} => Of(Head(rest[s])) \notin settled[s]

(* What an answer says is so.                                              *)
Kept(o) ==
  IF o.status = "PARKED" THEN o.candidate \in parked
  ELSE /\ canon[o.id] # NoRecord
       /\ Of(o.candidate) = Of(canon[o.id])
       /\ bound[Of(o.candidate)] # "none"
       /\ \A d \in o.candidate.related_domains \cup {o.candidate.target_domain} :
            \E ref \in refs : ref.id = o.id /\ ref.domain = d

(* A candidate that was answered is where the answer says: parked, or in   *)
(* Canon with its target and every related domain referring to the record  *)
(* that the catalog keeps for it, also when the call then failed on a      *)
(* later clause.                                                           *)
AnsweredIsKept == \A o \in log : Kept(o)

(* The target of a routed text is spoken for more than any other domain    *)
(* that is known, unless none is spoken for.                               *)
Grounded(known, c) ==
  c \notin Explicits /\ c.route_status = "ROUTED" =>
    \A d \in Domains \ {c.target_domain} :
      known[d] # "MISSING" =>
        Quarters(c.content, d) < Quarters(c.content, c.target_domain)
          \/ Evidenced(known, c.content) = {}

(* A domain that no alias and no term of the text speaks for gets a record *)
(* of it only if no known domain is spoken for at all; of two that are     *)
(* spoken for alike neither does (analyze_clause, the golden tests GT-02   *)
(* and GT-04): prior context never breaks a tie.                           *)
EvidenceDecides ==
  \A s \in Services : rest[s] # <<>> => Grounded(registry[s], Head(rest[s]))

-----------------------------------------------------------------------------
(* The inductive invariant behind the theorems of IntakeProofs.            *)

(* No copy of a record, in Canon or in a memory, says anything else than   *)
(* the others, and there are copies only of ids that were given out.       *)
Copies(id) == ({canon[id]} \cup {gate[s][id] : s \in Services}) \ {NoRecord}

CopiesInv ==
  \A id \in Ids : \A a, b \in Copies(id) : id \in minted /\ a.id = id /\ Of(a) = Of(b)

CatalogInv ==
  \A f \in Fingerprints :
    bound[f] # "none" => canon[bound[f]] # NoRecord /\ Of(canon[bound[f]]) = f

(* Every domain of a candidate refers to its record, or will.              *)
Referred(s) ==
  \A d \in Head(rest[s]).related_domains \cup {Head(rest[s]).target_domain} :
    \E ref \in refs \cup Range(refsTodo[s]) : ref.id = record[s].id /\ ref.domain = d

(* What a call has done so far for the candidate it deals with.            *)
CallInv(s) ==
  /\ pc[s] # "idle" => rest[s] # <<>>
  /\ pc[s] \notin {"idle", "candidate"} => Head(rest[s]).target_domain \in Domains
  /\ pc[s] = "writing" =>
       record[s].id \in InMemory(s) /\ Of(gate[s][record[s].id]) = Of(Head(rest[s]))
  /\ pc[s] \in {"binding", "linking", "referring"} =>
       /\ record[s].id \in Ids /\ canon[record[s].id] # NoRecord
       /\ Of(canon[record[s].id]) = Of(Head(rest[s]))
  /\ pc[s] \in {"linking", "referring"} =>
       bound[Of(Head(rest[s]))] # "none" /\ refsTodo[s] # <<>> /\ Referred(s)

(* What was answered when the candidate was taken up is bound.             *)
SettledInv(s) ==
  /\ \A f \in settled[s] : bound[f] # "none"
  /\ pc[s] \in {"writing", "binding", "referring"} => Of(Head(rest[s])) \notin settled[s]

AnalysisInv(s) == \A i \in DOMAIN rest[s] : Grounded(registry[s], rest[s][i])

ServiceInv(s) == CallInv(s) /\ SettledInv(s) /\ AnalysisInv(s)

LogInv == AnsweredIsKept /\ \A o \in log : o.status # "PARKED" => o.id \in Ids

IntakeInv ==
  /\ TypeOK
  /\ CopiesInv
  /\ CatalogInv
  /\ LogInv
  /\ \A s \in Services : ServiceInv(s)
=============================================================================
