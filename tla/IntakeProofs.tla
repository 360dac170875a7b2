---------------------------- MODULE IntakeProofs ----------------------------
(***************************************************************************)
(* Theorems about Intake, for any services, texts, registries, calls,      *)
(* failed steps and restarts.                                              *)
(***************************************************************************)
EXTENDS Intake, FiniteSetTheorems, TLAPS

(* The library's sequence of a finite set has exactly its elements.        *)
LEMMA SetAsSeq ==
  ASSUME NEW S, IsFiniteSet(S)
  PROVE  /\ SetToSeq(S) \in Seq(S)
         /\ Range(SetToSeq(S)) = S
<1> DEFINE n == Cardinality(S)
           f == SetToSeq(S)
<1>1. n \in Nat /\ ExistsBijection(1 .. n, S)
  BY FS_CardinalityType
<1>2. \E g \in [1 .. n -> S] : IsInjective(g)
  BY <1>1 DEF ExistsBijection, Bijection, Injection, IsInjective
<1>3. f \in [1 .. n -> S] /\ IsInjective(f)
  BY <1>2 DEF SetToSeq
<1>4. f \in Injection(1 .. n, S)
  BY <1>3 DEF Injection, IsInjective
<1>5. Cardinality(1 .. n) = n
  BY <1>1, FS_Interval
<1>6. f \in Surjection(1 .. n, S)
  BY <1>4, <1>5, FS_Injection
<1>7. \A x \in S : \E i \in 1 .. n : f[i] = x
  BY <1>6 DEF Surjection
<1>8. Range(f) = S
  BY <1>3, <1>7 DEF Range
<1>9. f \in Seq(S)
  BY <1>1, <1>3
<1> QED
  BY <1>8, <1>9

-----------------------------------------------------------------------------
(* Records                                                                 *)

(* A place has a record or is empty.                                       *)
LEMMA StoredTypes ==
  /\ NoRecord \notin KnowledgeRecord
  /\ \A r \in Stored : r # NoRecord => r \in KnowledgeRecord /\ r.id \in Ids
  /\ \A r \in KnowledgeRecord : Of(r) \in Fingerprints
  /\ \A c \in CandidateDraft : Of(c) \in Fingerprints
<1>1. NoRecord \notin KnowledgeRecord
  BY RouterAssumption DEF NoRecord, KnowledgeRecord
<1>2. \A r \in KnowledgeRecord : r.id \in Ids /\ r.subject \in Subjects /\ r.content \in Contents
  BY DEF KnowledgeRecord
<1>3. \A c \in CandidateDraft : c.subject \in Subjects /\ c.content \in Contents
  BY DEF CandidateDraft
<1>4. \A s \in Subjects, t \in Contents : Fingerprint(s, t) \in Fingerprints
  BY IntakeRouterAssumption DEF Fingerprint, Fingerprints
<1> QED
  BY <1>1, <1>2, <1>3, <1>4 DEF Stored, Of

(* Another status changes nothing else of a record.                        *)
LEMMA StatusOnly ==
  ASSUME NEW r \in KnowledgeRecord, NEW status \in EpistemicStatus
  PROVE  /\ WithStatus(r, status) \in KnowledgeRecord
         /\ WithStatus(r, status).id = r.id
         /\ Of(WithStatus(r, status)) = Of(r)
BY DEF WithStatus, KnowledgeRecord, Of, Fingerprint

(* The router's write puts a new record into an empty place of the memory  *)
(* and changes at most the status of the others (no correction).           *)
LEMMA WrittenKeeps ==
  ASSUME NEW records \in [Ids -> Stored], NEW r \in KnowledgeRecord,
         r.knowledge_type # "CORRECTION",
         \A id \in Ids : records[id] # NoRecord => records[id].id = id
  PROVE  /\ Written(records, r) \in [Ids -> Stored]
         /\ AsStored(records, r) \in KnowledgeRecord /\ AsStored(records, r).id = r.id
         /\ Written(records, r)[r.id] = AsStored(records, r)
         /\ Of(AsStored(records, r)) = Of(r)
         /\ \A id \in Ids \ {r.id} :
              /\ records[id] = NoRecord => Written(records, r)[id] = NoRecord
              /\ records[id] # NoRecord =>
                   /\ Written(records, r)[id] # NoRecord
                   /\ Written(records, r)[id].id = id
                   /\ Of(Written(records, r)[id]) = Of(records[id])
<1> DEFINE W == Written(records, r)
           stored == AsStored(records, r)
<1>1. r.id \in Ids /\ "CONFLICTING" \in EpistemicStatus
  BY DEF KnowledgeRecord, EpistemicStatus
<1>2. stored \in KnowledgeRecord /\ stored.id = r.id /\ Of(stored) = Of(r)
  BY <1>1, StatusOnly DEF AsStored
<1>3. W[r.id] = stored
  BY <1>1 DEF Written
<1>4. ASSUME NEW id \in Ids \ {r.id}
      PROVE  /\ W[id] = records[id] \/ W[id] = WithStatus(records[id], "CONFLICTING")
             /\ records[id] = NoRecord => W[id] = NoRecord
  <2>1. W[id] = IF id \in Conflicts(records, r)
                  THEN WithStatus(records[id], "CONFLICTING") ELSE records[id]
    BY DEF Written, Mark
  <2>2. id \in Conflicts(records, r) => records[id] # NoRecord
    BY DEF Conflicts
  <2> QED
    BY <2>1, <2>2
<1>5. ASSUME NEW id \in Ids \ {r.id}, records[id] # NoRecord
      PROVE  W[id] \in KnowledgeRecord /\ W[id].id = id /\ Of(W[id]) = Of(records[id])
  <2>1. records[id] \in KnowledgeRecord
    BY <1>5, StoredTypes
  <2> QED
    BY <1>1, <1>4, <1>5, <2>1, StatusOnly
<1>6. \A id \in Ids : W[id] \in Stored
  BY <1>2, <1>3, <1>4, <1>5 DEF Stored
<1>7. W \in [Ids -> Stored]
  BY <1>6 DEF Written
<1> QED
  BY <1>2, <1>3, <1>4, <1>5, <1>7, StoredTypes

-----------------------------------------------------------------------------
(* Candidates                                                              *)

(* The points that a text gives a domain are a number.                     *)
LEMMA QuartersType ==
  ASSUME NEW text \in Contents, NEW d \in Domains
  PROVE  Quarters(text, d) \in Nat
<1>1. Aliases[text][d] \in Nat /\ Terms[text][d] \in Nat
  BY IntakeRouterAssumption
<1> QED
  BY <1>1 DEF Quarters

(* Only domains are scored; where any is spoken for these are the ones     *)
(* that are known and spoken for.                                          *)
LEMMA ScoreParts ==
  ASSUME NEW known \in Registry, NEW text \in Contents,
         NEW previous \in Domains \cup {"none"}
  PROVE  LET score == Score(known, text, previous)
             spoken == Evidenced(known, text) IN
         /\ DOMAIN score \subseteq Domains
         /\ spoken \subseteq Domains
         /\ spoken # {} => DOMAIN score = spoken
                             /\ \A d \in spoken : score[d] = Quarters(text, d)
BY DEF Score, Evidenced

(* A candidate with the parts of a draft is one.                           *)
LEMMA CandidateType ==
  ASSUME NEW text \in Contents, NEW status \in {"ROUTED", "AMBIGUOUS", "UNROUTED"},
         NEW target \in Domains \cup {"none"}, NEW related \in SUBSET Domains
  PROVE  /\ Candidate(text, status, target, related) \in CandidateDraft
         /\ Candidate(text, status, target, related).content = text
         /\ Candidate(text, status, target, related).route_status = status
         /\ Candidate(text, status, target, related).target_domain = target
<1>1. KnowledgeTypeOf(text) \in KnowledgeType
  BY DEF KnowledgeTypeOf, KnowledgeType
<1>2. SubjectOf[text] \in Subjects
  BY IntakeRouterAssumption
<1> QED
  BY <1>1, <1>2 DEF Candidate, CandidateDraft

(* What the router makes of a clause is a candidate whose target, if any,  *)
(* was decided by the evidence.                                            *)
LEMMA ClauseIsGrounded ==
  ASSUME NEW known \in Registry, NEW text \in Contents,
         NEW previous \in Domains \cup {"none"}
  PROVE  /\ AnalyzeClause(known, text, previous) \in CandidateDraft
         /\ Grounded(known, AnalyzeClause(known, text, previous))
<1> DEFINE score == Score(known, text, previous)
           spoken == Evidenced(known, text)
           winners == Winners(score)
           c == AnalyzeClause(known, text, previous)
<1>1. DOMAIN score \subseteq Domains /\ winners \subseteq DOMAIN score
  BY ScoreParts DEF Winners
<1>2. CASE winners = {}
  <2>1. c = Candidate(text, "UNROUTED", "none", {})
    BY <1>2 DEF AnalyzeClause
  <2> QED
    BY <2>1, CandidateType DEF Grounded
<1>3. CASE winners # {} /\ Cardinality(winners) > 1
  <2>1. c = Candidate(text, "AMBIGUOUS", "none", DOMAIN score)
    BY <1>3 DEF AnalyzeClause
  <2> QED
    BY <1>1, <2>1, CandidateType DEF Grounded
<1>4. CASE winners # {} /\ ~(Cardinality(winners) > 1)
  <2> DEFINE target == CHOOSE d \in winners : TRUE
  <2>1. c = Candidate(text, "ROUTED", target, DOMAIN score \ {target})
    BY <1>4 DEF AnalyzeClause
  <2>2. target \in winners /\ target \in DOMAIN score
    BY <1>1, <1>4
  <2>3. \A d \in winners : d = target
    <3>1. IsFiniteSet(winners)
      <4>1. IsFiniteSet(Domains) /\ winners \in SUBSET Domains
        BY <1>1, IntakeAssumption
      <4> QED
        BY <4>1, FS_Subset
    <3>2. Cardinality(winners) \in Nat /\ Cardinality(winners) # 0
      BY <1>4, <3>1, FS_CardinalityType, FS_EmptySet
    <3>3. Cardinality(winners) = 1
      BY <1>4, <3>2
    <3>4. PICK w : winners = {w}
      BY <3>1, <3>3, FS_Singleton
    <3> QED
      BY <2>2, <3>4
  <2>4. c \in CandidateDraft /\ c.content = text /\ c.target_domain = target
    BY <1>1, <2>1, <2>2, CandidateType
  <2>5. ASSUME NEW d \in Domains \ {target}, known[d] # "MISSING", spoken # {}
        PROVE  Quarters(text, d) < Quarters(text, target)
    <3>1. /\ DOMAIN score = spoken /\ spoken \subseteq Domains
          /\ \A e \in spoken : score[e] = Quarters(text, e)
      BY <2>5, ScoreParts
    <3>2. /\ target \in spoken /\ \A e \in spoken : score[e] <= score[target]
      BY <2>2, <3>1 DEF Winners
    <3>3. \A e \in Domains : Quarters(text, e) \in Nat
      BY QuartersType
    <3>4. CASE d \in spoken
      <4>1. d \notin winners
        BY <2>3, <2>5
      <4>2. PICK e \in spoken : ~(score[e] <= score[d])
        BY <3>1, <3>4, <4>1 DEF Winners
      <4>3. /\ Quarters(text, e) <= Quarters(text, target)
            /\ ~(Quarters(text, e) <= Quarters(text, d))
        BY <3>1, <3>2, <3>4, <4>2
      <4> QED
        BY <3>1, <3>2, <3>3, <3>4, <4>3
    <3>5. CASE d \notin spoken
      <4>1. ~(Quarters(text, d) > 0) /\ Quarters(text, target) > 0
        BY <2>5, <3>2, <3>5 DEF Evidenced
      <4> QED
        BY <3>1, <3>2, <3>3, <4>1
    <3> QED
      BY <3>4, <3>5
  <2>6. Grounded(known, c)
    BY <2>4, <2>5 DEF Grounded
  <2> QED
    BY <2>4, <2>6
<1> QED
  BY <1>2, <1>3, <1>4

(* A message becomes a sequence of such candidates, one a clause.          *)
LEMMA MessageIsGrounded ==
  ASSUME NEW known \in Registry, NEW message \in Messages
  PROVE  LET candidates == AnalyzeMessage(known, message) IN
         /\ candidates \in Seq(CandidateDraft) /\ candidates # <<>>
         /\ \A i \in DOMAIN candidates : Grounded(known, candidates[i])
<1> DEFINE clauses == message.clauses
           candidates == AnalyzeMessage(known, message)
<1>1. /\ clauses \in Seq(Contents) /\ clauses # <<>>
      /\ message.previous \in Domains \cup {"none"}
  BY IntakeAssumption
<1>2. DOMAIN clauses = 1 .. Len(clauses) /\ Len(clauses) \in Nat /\ Len(clauses) # 0
      /\ \A i \in DOMAIN clauses : clauses[i] \in Contents
  BY <1>1
<1>3. /\ DOMAIN candidates = DOMAIN clauses
      /\ \A i \in DOMAIN clauses :
           candidates[i] = AnalyzeClause(known, clauses[i], message.previous)
  BY DEF AnalyzeMessage
<1>4. \A i \in DOMAIN clauses :
        candidates[i] \in CandidateDraft /\ Grounded(known, candidates[i])
  BY <1>1, <1>2, <1>3, ClauseIsGrounded
<1>5. candidates \in [1 .. Len(clauses) -> CandidateDraft]
  BY <1>2, <1>3, <1>4 DEF AnalyzeMessage
<1>6. candidates \in Seq(CandidateDraft)
  <2> HIDE DEF candidates
  <2> QED
    BY <1>2, <1>5
<1>7. candidates # <<>>
  <2>1. 1 \in DOMAIN candidates
    BY <1>2, <1>3
  <2> QED
    BY <2>1
<1> QED
  BY <1>3, <1>4, <1>6, <1>7

-----------------------------------------------------------------------------
(* What the steps have in common                                           *)

(* A step that takes nothing back of what is in the files.                 *)
Grows ==
  /\ \A id \in Ids : canon[id] # NoRecord =>
       canon'[id] # NoRecord /\ Of(canon'[id]) = Of(canon[id])
  /\ \A f \in Fingerprints : bound[f] # "none" => bound'[f] = bound[f]
  /\ refs \subseteq refs' /\ parked \subseteq parked'

(* Then a service that does not take part keeps its invariant.             *)
LEMMA OthersKept ==
  ASSUME IntakeInv, Grows, NEW t \in Services,
         pc'[t] = pc[t], rest'[t] = rest[t], record'[t] = record[t],
         refsTodo'[t] = refsTodo[t], settled'[t] = settled[t],
         gate'[t] = gate[t], registry'[t] = registry[t]
  PROVE  ServiceInv(t)'
<1> DEFINE c == Head(rest[t])
<1>1. TypeOK /\ ServiceInv(t)
  BY DEF IntakeInv
<1>2. settled[t] \subseteq Fingerprints
  BY <1>1 DEF TypeOK
<1>3. pc[t] # "idle" => Of(c) \in Fingerprints
  <2>1. rest[t] \in Seq(CandidateDraft)
    BY <1>1 DEF TypeOK
  <2> QED
    BY <1>1, <2>1, StoredTypes DEF ServiceInv, CallInv
<1>4. CallInv(t)'
  BY <1>1, <1>3 DEF ServiceInv, CallInv, Grows, Referred, InMemory
<1>5. SettledInv(t)'
  BY <1>1, <1>2 DEF ServiceInv, SettledInv, Grows
<1>6. AnalysisInv(t)'
  BY <1>1 DEF ServiceInv, AnalysisInv
<1> QED
  BY <1>4, <1>5, <1>6 DEF ServiceInv

(* What was answered stays true.                                           *)
LEMMA AnswersKept ==
  ASSUME IntakeInv, Grows, NEW o \in log
  PROVE  Kept(o)' /\ (o.status # "PARKED" => o.id \in Ids)
<1>1. Kept(o) /\ (o.status # "PARKED" => o.id \in Ids)
  BY DEF IntakeInv, LogInv, AnsweredIsKept
<1>2. Of(o.candidate) \in Fingerprints
  <2>1. o.candidate \in CandidateDraft
    BY DEF IntakeInv, TypeOK, Outcome
  <2> QED
    BY <2>1, StoredTypes
<1> QED
  BY <1>1, <1>2 DEF Kept, Grows

(* No answer given becomes untrue while the files only grow,               *)
LEMMA LogKept ==
  ASSUME IntakeInv, Grows, log' = log
  PROVE  LogInv'
BY AnswersKept DEF LogInv, AnsweredIsKept

(* nor does an entry of the catalog.                                       *)
LEMMA CatalogKept ==
  ASSUME IntakeInv, Grows, bound' = bound
  PROVE  CatalogInv'
<1>1. \A f \in Fingerprints : bound[f] \in Ids \cup {"none"}
  BY DEF IntakeInv, TypeOK
<1> QED
  BY <1>1 DEF IntakeInv, CatalogInv, Grows

(* Copying records makes no new ones.                                      *)
LEMMA CopiesKept ==
  ASSUME IntakeInv, minted \subseteq minted',
         \A id \in Ids :
           /\ canon'[id] \in {canon[id]} \cup {gate[s][id] : s \in Services}
           /\ \A s \in Services : gate'[s][id] \in {gate[s][id], canon[id]}
  PROVE  CopiesInv'
<1>1. \A id \in Ids : Copies(id)' \subseteq Copies(id)
  BY DEF Copies
<1> QED
  BY <1>1 DEF IntakeInv, CopiesInv

(* A candidate is done with and the next one taken up.                     *)
LEMMA ConcludeTypes ==
  ASSUME IntakeInv, NEW s \in Services, NEW id \in Ids \cup {"none"},
         NEW status \in {"PARKED", "WRITTEN", "LINKED_DUPLICATE"},
         pc[s] # "idle", Conclude(s, status, id)
  PROVE  /\ log' \subseteq Outcome
         /\ rest' \in [Services -> Seq(CandidateDraft)]
         /\ settled' \in [Services -> SUBSET Fingerprints]
         /\ record' \in [Services -> Stored]
         /\ pc' \in [Services -> {"idle", "candidate", "linking", "writing", "binding",
                                  "referring"}]
<1> DEFINE c == Head(rest[s])
<1>1. TypeOK /\ rest[s] # <<>>
  BY DEF IntakeInv, ServiceInv, CallInv
<1>2. rest[s] \in Seq(CandidateDraft)
  BY <1>1 DEF TypeOK
<1>3. c \in CandidateDraft /\ Tail(rest[s]) \in Seq(CandidateDraft) /\ Of(c) \in Fingerprints
  BY <1>1, <1>2, StoredTypes
<1>4. Answered \subseteq Fingerprints
  <2>1. \A o \in log : o.candidate \in CandidateDraft
    BY <1>1 DEF TypeOK, Outcome
  <2> QED
    BY <2>1, StoredTypes DEF Answered
<1>5. [status |-> status, candidate |-> c, id |-> id] \in Outcome
  BY <1>3 DEF Outcome
<1>6. log' \subseteq Outcome
  BY <1>1, <1>5 DEF Conclude, TypeOK
<1>7. rest' \in [Services -> Seq(CandidateDraft)]
  BY <1>1, <1>3 DEF Conclude, TypeOK
<1>8. settled' \in [Services -> SUBSET Fingerprints]
  BY <1>1, <1>3, <1>4 DEF Conclude, TypeOK
<1>9. record' \in [Services -> Stored]
  BY <1>1 DEF Conclude, TypeOK, Stored
<1>10. pc' \in [Services -> {"idle", "candidate", "linking", "writing", "binding",
                             "referring"}]
  BY <1>1 DEF Conclude, TypeOK
<1> QED
  BY <1>6, <1>7, <1>8, <1>9, <1>10

(* A piece that is concluded with a true answer leaves a true log.         *)
LEMMA ConcludeInv ==
  ASSUME IntakeInv, Grows, NEW s \in Services, NEW id \in Ids \cup {"none"},
         NEW status \in {"PARKED", "WRITTEN", "LINKED_DUPLICATE"},
         pc[s] # "idle", Conclude(s, status, id), UNCHANGED registry,
         NEW c, c = Head(rest[s]), status = "PARKED" <=> id = "none",
         Kept([status |-> status, candidate |-> c, id |-> id])'
  PROVE  LogInv' /\ ServiceInv(s)'
<1> DEFINE outcome == [status |-> status, candidate |-> c, id |-> id]
<1>1. TypeOK /\ ServiceInv(s) /\ rest[s] # <<>>
  BY DEF IntakeInv, ServiceInv, CallInv
<1>2. rest[s] \in Seq(CandidateDraft)
  BY <1>1 DEF TypeOK
<1>3. log' = log \cup {outcome}
  BY DEF Conclude
<1>4. LogInv'
  BY <1>3, AnswersKept DEF LogInv, AnsweredIsKept
<1>5. pc'[s] = (IF Tail(rest[s]) = <<>> THEN "idle" ELSE "candidate") /\ rest'[s] = Tail(rest[s])
  BY <1>1 DEF Conclude, TypeOK
<1>6. CallInv(s)'
  BY <1>5 DEF CallInv
<1>7. SettledInv(s)'
  <2>1. settled'[s] = Answered \cup (IF id = "none" THEN {} ELSE {Of(c)})
    BY <1>1 DEF Conclude, TypeOK
  <2>2. id # "none" => bound'[Of(c)] # "none"
    BY DEF Kept
  <2>3. ASSUME NEW f \in Answered PROVE bound'[f] # "none"
    <3>1. PICK o \in log : o.status # "PARKED" /\ f = Of(o.candidate)
      BY <2>3 DEF Answered
    <3> QED
      BY <3>1, AnswersKept DEF Kept
  <2> QED
    BY <1>5, <2>1, <2>2, <2>3 DEF SettledInv
<1>8. AnalysisInv(s)'
  <2>1. ASSUME NEW i \in DOMAIN rest'[s]
        PROVE  i + 1 \in DOMAIN rest[s] /\ rest'[s][i] = rest[s][i + 1]
    BY <1>1, <1>2, <1>5, <2>1
  <2> QED
    BY <1>1, <2>1 DEF ServiceInv, AnalysisInv
<1> QED
  BY <1>4, <1>6, <1>7, <1>8 DEF ServiceInv

(* A call ends early.                                                      *)
LEMMA AbandonInv ==
  ASSUME IntakeInv, Grows, NEW s \in Services, Abandon(s)
  PROVE  /\ rest' \in [Services -> Seq(CandidateDraft)]
         /\ refsTodo' \in [Services -> Seq(DomainRef)]
         /\ record' \in [Services -> Stored]
         /\ pc' \in [Services -> {"idle", "candidate", "linking", "writing", "binding",
                                  "referring"}]
         /\ ServiceInv(s)' /\ LogInv'
<1>1. TypeOK /\ ServiceInv(s)
  BY DEF IntakeInv
<1>2. /\ pc'[s] = "idle" /\ rest'[s] = <<>> /\ settled'[s] = settled[s]
      /\ settled[s] \subseteq Fingerprints
  BY <1>1 DEF TypeOK, Abandon
<1>3. CallInv(s)' /\ AnalysisInv(s)'
  BY <1>2 DEF CallInv, AnalysisInv
<1>4. SettledInv(s)'
  BY <1>1, <1>2 DEF ServiceInv, SettledInv, Grows
<1>5. LogInv'
  BY LogKept DEF Abandon
<1>6. /\ rest' \in [Services -> Seq(CandidateDraft)]
      /\ refsTodo' \in [Services -> Seq(DomainRef)]
      /\ record' \in [Services -> Stored]
      /\ pc' \in [Services -> {"idle", "candidate", "linking", "writing", "binding",
                               "referring"}]
  BY <1>1 DEF TypeOK, Abandon, Stored
<1> QED
  BY <1>3, <1>4, <1>5, <1>6 DEF ServiceInv

-----------------------------------------------------------------------------
(* The steps                                                               *)

(* A call begins with nothing done and grounded candidates.                *)
LEMMA BeginInv ==
  ASSUME IntakeInv, NEW s \in Services, NEW candidates \in Seq(CandidateDraft),
         candidates # <<>>, \A i \in DOMAIN candidates : Grounded(registry[s], candidates[i]),
         Begin(s, candidates)
  PROVE  IntakeInv'
<1>1. TypeOK
  BY DEF IntakeInv
<1>2. UNCHANGED <<files, process, record, refsTodo, log, minted>>
  BY DEF Begin
<1>3. Grows
  BY <1>2 DEF Grows, files
<1>4. Answered \subseteq Fingerprints
  <2>1. \A o \in log : o.candidate \in CandidateDraft
    BY <1>1 DEF TypeOK, Outcome
  <2> QED
    BY <2>1, StoredTypes DEF Answered
<1>5. TypeOK'
  <2>1. rest' \in [Services -> Seq(CandidateDraft)]
    BY <1>1 DEF Begin, TypeOK
  <2>2. settled' \in [Services -> SUBSET Fingerprints]
    BY <1>1, <1>4 DEF Begin, TypeOK
  <2>3. pc' \in [Services -> {"idle", "candidate", "linking", "writing", "binding",
                              "referring"}]
    BY <1>1 DEF Begin, TypeOK
  <2> QED
    BY <1>1, <1>2, <2>1, <2>2, <2>3 DEF TypeOK, files, process
<1>6. CopiesInv'
  BY <1>2, CopiesKept DEF files, process
<1>7. CatalogInv' /\ LogInv'
  BY <1>2, <1>3, CatalogKept, LogKept DEF files
<1>8. ServiceInv(s)'
  <2>1. pc'[s] = "candidate" /\ rest'[s] = candidates /\ settled'[s] = Answered
    BY <1>1 DEF Begin, TypeOK
  <2>2. CallInv(s)' /\ AnalysisInv(s)'
    BY <1>2, <2>1 DEF CallInv, AnalysisInv, process
  <2>3. SettledInv(s)'
    <3>1. ASSUME NEW f \in Answered PROVE bound'[f] # "none"
      <4>1. PICK o \in log : o.status # "PARKED" /\ f = Of(o.candidate)
        BY <3>1 DEF Answered
      <4> QED
        BY <1>3, <4>1, AnswersKept DEF Kept
    <3> QED
      BY <2>1, <3>1 DEF SettledInv
  <2> QED
    BY <2>2, <2>3 DEF ServiceInv
<1>9. ASSUME NEW t \in Services, t # s PROVE ServiceInv(t)'
  <2>1. /\ pc'[t] = pc[t] /\ rest'[t] = rest[t] /\ settled'[t] = settled[t]
        /\ record'[t] = record[t] /\ refsTodo'[t] = refsTodo[t]
        /\ gate'[t] = gate[t] /\ registry'[t] = registry[t]
    BY <1>1, <1>2, <1>9 DEF Begin, TypeOK, process
  <2> QED
    BY <1>3, <2>1, OthersKept
<1> QED
  BY <1>5, <1>6, <1>7, <1>8, <1>9 DEF IntakeInv

(* A piece whose target is not evident is parked.                          *)
LEMMA ParkInv ==
  ASSUME IntakeInv, NEW s \in Services, Park(s)
  PROVE  IntakeInv'
<1> DEFINE c == Head(rest[s])
<1>1. TypeOK /\ pc[s] = "candidate" /\ rest[s] # <<>>
  BY DEF IntakeInv, ServiceInv, CallInv, Park
<1>2. Conclude(s, "PARKED", "none") /\ parked' = parked \cup {c}
      /\ UNCHANGED <<canon, bound, refs, process, refsTodo, minted>>
  BY DEF Park
<1>3. Grows
  BY <1>2 DEF Grows
<1>4. c \in CandidateDraft
  <2>1. rest[s] \in Seq(CandidateDraft)
    BY <1>1 DEF TypeOK
  <2> QED
    BY <1>1, <2>1
<1>5. TypeOK'
  BY <1>1, <1>2, <1>4, ConcludeTypes DEF TypeOK, process
<1>6. CopiesInv' /\ CatalogInv'
  BY <1>2, <1>3, CopiesKept, CatalogKept DEF process
<1>7. LogInv' /\ ServiceInv(s)'
  <2>1. PICK d : d = c
    OBVIOUS
  <2>2. Kept([status |-> "PARKED", candidate |-> d, id |-> "none"])'
    BY <1>2, <2>1 DEF Kept
  <2> QED
    BY <1>1, <1>2, <1>3, <2>1, <2>2, ConcludeInv DEF process
<1>8. ASSUME NEW t \in Services, t # s PROVE ServiceInv(t)'
  <2>1. /\ pc'[t] = pc[t] /\ rest'[t] = rest[t] /\ settled'[t] = settled[t]
        /\ record'[t] = record[t] /\ refsTodo'[t] = refsTodo[t]
        /\ gate'[t] = gate[t] /\ registry'[t] = registry[t]
    BY <1>1, <1>2, <1>8 DEF Conclude, TypeOK, process
  <2> QED
    BY <1>3, <2>1, OthersKept
<1> QED
  BY <1>5, <1>6, <1>7, <1>8 DEF IntakeInv

(* The candidate that a service deals with.                                *)
LEMMA Current ==
  ASSUME IntakeInv, NEW s \in Services, pc[s] # "idle"
  PROVE  /\ rest[s] # <<>> /\ rest[s] \in Seq(CandidateDraft)
         /\ Head(rest[s]) \in CandidateDraft
         /\ Of(Head(rest[s])) \in Fingerprints
<1>1. rest[s] # <<>> /\ rest[s] \in Seq(CandidateDraft)
  BY DEF IntakeInv, TypeOK, ServiceInv, CallInv
<1> QED
  BY <1>1, StoredTypes

(* A safe target is a domain.                                              *)
LEMMA TargetIsDomain ==
  ASSUME NEW s \in Services, NEW c \in CandidateDraft, Writable(s, c)
  PROVE  c.target_domain \in Domains
<1>1. c.target_domain # "none"
  BY DEF Writable, Route
<1> QED
  BY <1>1 DEF CandidateDraft

(* The references of a candidate are not empty and name its domains.       *)
LEMMA RefsNameDomains ==
  ASSUME NEW c \in CandidateDraft, c.target_domain \in Domains, NEW id \in Ids,
         NEW kind \in RelationKind
  PROVE  /\ RefsOf(c, id, kind) \in Seq(DomainRef)
         /\ RefsOf(c, id, kind) # <<>>
         /\ \A d \in c.related_domains \cup {c.target_domain} :
              \E ref \in Range(RefsOf(c, id, kind)) : ref.id = id /\ ref.domain = d
<1> DEFINE Related(d) == [id |-> id, domain |-> d, kind |-> "related_domain"]
           related == {Related(d) : d \in c.related_domains}
           first == [id |-> id, domain |-> c.target_domain, kind |-> kind]
           tail == SetToSeq(related)
           all == <<first>> \o tail
<1>1. all = RefsOf(c, id, kind)
  BY DEF RefsOf
<1>2. IsFiniteSet(related)
  <2>1. c.related_domains \in SUBSET Domains /\ IsFiniteSet(Domains)
    BY IntakeAssumption DEF CandidateDraft
  <2>2. IsFiniteSet(c.related_domains)
    BY <2>1, FS_Subset
  <2>3. [ref \in related |-> ref.domain] \in Injection(related, c.related_domains)
    BY DEF Injection, IsInjective
  <2> QED
    BY <2>2, <2>3, FS_Injection
<1>3. first \in DomainRef /\ related \subseteq DomainRef
  BY DEF DomainRef, RelationKind, CandidateDraft
<1>4. tail \in Seq(related) /\ Range(tail) = related
  BY <1>2, SetAsSeq
<1> HIDE DEF tail, related, first
<1>5. tail \in Seq(DomainRef) /\ Len(tail) \in Nat /\ DOMAIN tail = 1 .. Len(tail)
  BY <1>3, <1>4
<1>6. /\ all \in Seq(DomainRef) /\ Len(all) = 1 + Len(tail) /\ DOMAIN all = 1 .. Len(all)
      /\ all[1] = first /\ \A i \in 1 .. Len(tail) : all[i + 1] = tail[i]
  BY <1>3, <1>5
<1> HIDE DEF all
<1>7. first \in Range(all) /\ related \subseteq Range(all)
  <2>1. 1 \in DOMAIN all /\ \A i \in 1 .. Len(tail) : i + 1 \in DOMAIN all
    BY <1>5, <1>6
  <2>2. first \in Range(all) /\ \A i \in 1 .. Len(tail) : tail[i] \in Range(all)
    BY <1>6, <2>1 DEF Range
  <2> QED
    BY <1>4, <1>5, <2>2 DEF Range
<1>8. all # <<>>
  BY <1>5, <1>6
<1>9. \A d \in c.related_domains : Related(d) \in Range(all)
  BY <1>7 DEF related
<1>10. \A d \in c.related_domains \cup {c.target_domain} :
         \E ref \in Range(all) : ref.id = id /\ ref.domain = d
  BY <1>7, <1>9 DEF first
<1> QED
  BY <1>1, <1>6, <1>8, <1>10

(* A piece that the catalog knows gets references to its record.           *)
LEMMA ResolveInv ==
  ASSUME IntakeInv, NEW s \in Services, Resolve(s)
  PROVE  IntakeInv'
<1> DEFINE c == Head(rest[s])
           existing == bound[Of(c)]
           todo == RefsOf(c, existing, "cross_project_duplicate_reference")
<1>1. TypeOK /\ pc[s] = "candidate" /\ Writable(s, c) /\ existing # "none"
  BY DEF IntakeInv, Resolve
<1>2. /\ record'[s] = canon[existing] /\ refsTodo'[s] = todo /\ pc'[s] = "linking"
      /\ UNCHANGED <<files, process, rest, log, settled, minted>>
  BY <1>1 DEF Resolve, TypeOK
<1>3. Grows
  BY <1>2 DEF Grows, files
<1>4. c \in CandidateDraft /\ Of(c) \in Fingerprints /\ rest[s] # <<>>
  BY <1>1, Current
<1>5. existing \in Ids /\ canon[existing] # NoRecord /\ Of(canon[existing]) = Of(c)
  BY <1>1, <1>4 DEF IntakeInv, CatalogInv, TypeOK
<1>6. canon[existing] \in Stored /\ canon[existing].id = existing
  BY <1>1, <1>5 DEF IntakeInv, CopiesInv, Copies, TypeOK
<1>7. /\ c.target_domain \in Domains /\ todo \in Seq(DomainRef) /\ todo # <<>>
      /\ \A d \in c.related_domains \cup {c.target_domain} :
           \E ref \in Range(todo) : ref.id = existing /\ ref.domain = d
  BY <1>1, <1>4, <1>5, TargetIsDomain, RefsNameDomains DEF RelationKind
<1> HIDE DEF todo, existing
<1>8. TypeOK'
  <2>1. record' = [record EXCEPT ![s] = canon[existing]] /\ refsTodo' = [refsTodo EXCEPT ![s] = todo]
        /\ pc' = [pc EXCEPT ![s] = "linking"]
    BY DEF Resolve, todo, existing
  <2> QED
    BY <1>1, <1>2, <1>6, <1>7, <2>1 DEF TypeOK, files, process
<1>9. CopiesInv' /\ CatalogInv' /\ LogInv'
  BY <1>2, <1>3, CopiesKept, CatalogKept, LogKept DEF files, process, Resolve
<1>10. ServiceInv(s)'
  <2>1. CallInv(s)'
    BY <1>1, <1>2, <1>4, <1>5, <1>6, <1>7 DEF CallInv, Referred, files, existing
  <2>2. SettledInv(s)' /\ AnalysisInv(s)'
    BY <1>2 DEF IntakeInv, ServiceInv, SettledInv, AnalysisInv, files, process
  <2> QED
    BY <2>1, <2>2 DEF ServiceInv
<1>11. ASSUME NEW t \in Services, t # s PROVE ServiceInv(t)'
  <2>1. /\ pc'[t] = pc[t] /\ rest'[t] = rest[t] /\ settled'[t] = settled[t]
        /\ record'[t] = record[t] /\ refsTodo'[t] = refsTodo[t]
        /\ gate'[t] = gate[t] /\ registry'[t] = registry[t]
    BY <1>1, <1>2, <1>11 DEF Resolve, TypeOK, process
  <2> QED
    BY <1>3, <2>1, OthersKept
<1> QED
  BY <1>8, <1>9, <1>10, <1>11 DEF IntakeInv

(* A fresh id has no copies yet.                                           *)
LEMMA FreshHasNoCopies ==
  ASSUME IntakeInv, minted # Ids
  PROVE  /\ FreshId \in Ids /\ FreshId \notin minted
         /\ canon[FreshId] = NoRecord
         /\ \A s \in Services : gate[s][FreshId] = NoRecord
<1>1. minted \subseteq Ids
  BY DEF IntakeInv, TypeOK
<1>2. \E id \in Ids : id \notin minted
  BY <1>1
<1>3. FreshId \in Ids /\ FreshId \notin minted
  BY <1>2 DEF FreshId
<1>4. \A r \in Copies(FreshId) : FALSE
  BY <1>3 DEF IntakeInv, CopiesInv
<1> QED
  BY <1>3, <1>4 DEF Copies

(* The router accepts the record in the memory of the service: its id is   *)
(* new and of the others at most the status changes.                       *)
LEMMA AdmitInv ==
  ASSUME IntakeInv, NEW s \in Services, Admit(s)
  PROVE  IntakeInv'
<1> DEFINE c == Head(rest[s])
           draft == DraftOf(c, FreshId)
           memory == Written(gate[s], draft)
           stored == AsStored(gate[s], draft)
<1>1. TypeOK /\ pc[s] = "candidate" /\ Writable(s, c) /\ bound[Of(c)] = "none"
      /\ minted # Ids /\ NewRecord(draft, Writer)
  BY DEF IntakeInv, Admit
<1>2. /\ record' = [record EXCEPT ![s] = stored] /\ gate' = [gate EXCEPT ![s] = memory]
      /\ pc' = [pc EXCEPT ![s] = "writing"] /\ minted' = minted \cup {draft.id}
      /\ UNCHANGED <<files, registry, rest, refsTodo, log, settled>>
  BY DEF Admit
<1>3. Grows
  BY <1>2 DEF Grows, files
<1>4. c \in CandidateDraft /\ rest[s] # <<>> /\ c.target_domain \in Domains
  BY <1>1, Current, TargetIsDomain
<1>5. FreshId \in Ids /\ FreshId \notin minted /\ canon[FreshId] = NoRecord
      /\ \A t \in Services : gate[t][FreshId] = NoRecord
  BY <1>1, FreshHasNoCopies
<1>6. draft \in KnowledgeRecord /\ draft.id = FreshId /\ Of(draft) = Of(c)
      /\ draft.knowledge_type # "CORRECTION"
  <2>1. draft.predecessor = "none" /\ draft.id = FreshId /\ Of(draft) = Of(c)
    BY DEF DraftOf, Of
  <2>2. draft.knowledge_type # "CORRECTION"
    BY <1>1, <2>1 DEF NewRecord
  <2>3. draft \in KnowledgeRecord
    BY <1>4, <1>5, IntakeAssumption
    DEF DraftOf, KnowledgeRecord, CandidateDraft, EpistemicStatus
  <2> QED
    BY <2>1, <2>2, <2>3
<1> HIDE DEF draft
<1>7. gate[s] \in [Ids -> Stored] /\ \A id \in Ids : gate[s][id] # NoRecord => gate[s][id].id = id
  <2>1. gate[s] \in [Ids -> Stored]
    BY <1>1 DEF TypeOK
  <2>2. \A id \in Ids : gate[s][id] # NoRecord => gate[s][id] \in Copies(id)
    BY DEF Copies
  <2> QED
    BY <2>1, <2>2 DEF IntakeInv, CopiesInv
<1>8. /\ memory \in [Ids -> Stored] /\ stored \in KnowledgeRecord /\ stored.id = FreshId
      /\ memory[FreshId] = stored /\ Of(stored) = Of(c)
      /\ \A id \in Ids \ {FreshId} :
           /\ gate[s][id] = NoRecord => memory[id] = NoRecord
           /\ gate[s][id] # NoRecord =>
                memory[id] # NoRecord /\ memory[id].id = id /\ Of(memory[id]) = Of(gate[s][id])
  BY <1>6, <1>7, WrittenKeeps
<1> HIDE DEF memory, stored
<1>9. gate'[s] = memory /\ record'[s] = stored /\ pc'[s] = "writing"
      /\ \A t \in Services : t # s => gate'[t] = gate[t]
  BY <1>1, <1>2 DEF TypeOK
<1>10. TypeOK'
  <2>1. gate' \in [Services -> [Ids -> Stored]] /\ record' \in [Services -> Stored]
    BY <1>1, <1>2, <1>8 DEF TypeOK, Stored
  <2>2. minted' \subseteq Ids
    BY <1>1, <1>2, <1>5, <1>6 DEF TypeOK
  <2>3. pc' \in [Services -> {"idle", "candidate", "linking", "writing", "binding",
                              "referring"}]
    BY <1>1, <1>2 DEF TypeOK
  <2> QED
    BY <1>1, <1>2, <2>1, <2>2, <2>3 DEF TypeOK, files
<1>11. CopiesInv'
  <2>1. ASSUME NEW id \in Ids, NEW a \in Copies(id)'
        PROVE  IF id = FreshId THEN a = stored
               ELSE \E b \in Copies(id) : a.id = id /\ Of(a) = Of(b)
    <3>1. a # NoRecord /\ (a = canon[id] \/ \E t \in Services : a = gate'[t][id])
      BY <1>2, <2>1 DEF Copies, files
    <3>2. CASE id = FreshId
      BY <1>5, <1>8, <1>9, <3>1, <3>2
    <3>3. CASE id # FreshId
      <4>1. CASE a = canon[id]
        BY <3>1, <3>3, <4>1 DEF Copies, IntakeInv, CopiesInv
      <4>2. CASE \E t \in Services : a = gate'[t][id]
        <5>1. PICK t \in Services : a = gate'[t][id]
          BY <4>2
        <5>2. gate[t][id] # NoRecord /\ a.id = id /\ Of(a) = Of(gate[t][id])
          <6>1. CASE t = s
            BY <1>8, <1>9, <3>1, <3>3, <5>1, <6>1
          <6>2. CASE t # s
            <7>1. gate[t][id] \in Copies(id) /\ a = gate[t][id]
              BY <1>9, <3>1, <5>1, <6>2 DEF Copies
            <7> QED
              BY <3>1, <7>1 DEF IntakeInv, CopiesInv
          <6> QED
            BY <6>1, <6>2
        <5>3. gate[t][id] \in Copies(id)
          BY <5>2 DEF Copies
        <5> QED
          BY <3>3, <5>2, <5>3
      <4> QED
        BY <3>1, <4>1, <4>2
    <3> QED
      BY <3>2, <3>3
  <2>2. \A id \in Ids : \A a, b \in Copies(id) : id \in minted /\ Of(a) = Of(b)
    BY DEF IntakeInv, CopiesInv
  <2>3. minted' = minted \cup {FreshId}
    BY <1>2, <1>6
  <2>4. ASSUME NEW id \in Ids, NEW a \in Copies(id)', NEW b \in Copies(id)'
        PROVE  id \in minted' /\ a.id = id /\ Of(a) = Of(b)
    <3>1. CASE id = FreshId
      BY <1>8, <2>1, <2>3, <2>4, <3>1
    <3>2. CASE id # FreshId
      BY <2>1, <2>2, <2>3, <2>4, <3>2
    <3> QED
      BY <3>1, <3>2
  <2> QED
    BY <2>4 DEF CopiesInv
<1>12. CatalogInv' /\ LogInv'
  BY <1>2, <1>3, CatalogKept, LogKept DEF files
<1>13. ServiceInv(s)'
  <2>1. CallInv(s)'
    BY <1>2, <1>4, <1>5, <1>8, <1>9, StoredTypes DEF CallInv, InMemory
  <2>2. SettledInv(s)' /\ AnalysisInv(s)'
    BY <1>1, <1>2 DEF IntakeInv, ServiceInv, SettledInv, AnalysisInv, files
  <2> QED
    BY <2>1, <2>2 DEF ServiceInv
<1>14. ASSUME NEW t \in Services, t # s PROVE ServiceInv(t)'
  <2>1. /\ pc'[t] = pc[t] /\ rest'[t] = rest[t] /\ settled'[t] = settled[t]
        /\ record'[t] = record[t] /\ refsTodo'[t] = refsTodo[t]
        /\ gate'[t] = gate[t] /\ registry'[t] = registry[t]
    BY <1>1, <1>2, <1>14 DEF TypeOK
  <2> QED
    BY <1>3, <2>1, OthersKept
<1> QED
  BY <1>10, <1>11, <1>12, <1>13, <1>14 DEF IntakeInv

(* Canon takes records of a memory and loses none.                         *)
LEMMA SyncGrows ==
  ASSUME IntakeInv, NEW s \in Services, NEW ids \in SUBSET InMemory(s),
         canon' = Synced(s, ids), UNCHANGED <<bound, refs, parked>>
  PROVE  /\ Grows
         /\ canon' \in [Ids -> Stored]
         /\ \A id \in Ids : canon'[id] \in {canon[id], gate[s][id]}
         /\ \A id \in ids : canon'[id] = gate[s][id]
<1>1. TypeOK
  BY DEF IntakeInv
<1>2. /\ ids \subseteq Ids /\ \A id \in ids : gate[s][id] # NoRecord
      /\ \A id \in Ids : canon'[id] = IF id \in ids THEN gate[s][id] ELSE canon[id]
  BY DEF InMemory, Synced
<1>3. canon' \in [Ids -> Stored]
  BY <1>1, <1>2 DEF TypeOK, Synced
<1>4. ASSUME NEW id \in ids, canon[id] # NoRecord
      PROVE  Of(gate[s][id]) = Of(canon[id])
  <2>1. gate[s][id] \in Copies(id) /\ canon[id] \in Copies(id)
    BY <1>2, <1>4 DEF Copies
  <2> QED
    BY <1>2, <2>1 DEF IntakeInv, CopiesInv
<1>5. Grows
  BY <1>2, <1>4 DEF Grows
<1> QED
  BY <1>2, <1>3, <1>5

(* A new record is written, with the others its service remembers.         *)
LEMMA WriteInv ==
  ASSUME IntakeInv, NEW s \in Services, Write(s)
  PROVE  IntakeInv'
<1> DEFINE id == record[s].id
<1>1. TypeOK /\ pc[s] = "writing"
  BY DEF IntakeInv, Write
<1>2. /\ canon' = Synced(s, InMemory(s)) /\ pc' = [pc EXCEPT ![s] = "binding"]
      /\ UNCHANGED <<bound, refs, parked, process, rest, record, refsTodo, log, settled, minted>>
  BY DEF Write
<1>3. /\ Grows /\ canon' \in [Ids -> Stored]
      /\ \A i \in Ids : canon'[i] \in {canon[i], gate[s][i]}
      /\ \A i \in InMemory(s) : canon'[i] = gate[s][i]
  BY <1>2, SyncGrows
<1>4. pc'[s] = "binding" /\ \A t \in Services \ {s} : pc'[t] = pc[t]
  BY <1>1, <1>2 DEF TypeOK
<1>5. TypeOK'
  <2>1. pc' \in [Services -> {"idle", "candidate", "linking", "writing", "binding",
                              "referring"}]
    BY <1>1, <1>2 DEF TypeOK
  <2> QED
    BY <1>1, <1>2, <1>3, <2>1 DEF TypeOK, process
<1>6. CopiesInv' /\ CatalogInv' /\ LogInv'
  BY <1>2, <1>3, CopiesKept, CatalogKept, LogKept DEF process
<1>7. ServiceInv(s)'
  <2>1. /\ id \in InMemory(s) /\ Of(gate[s][id]) = Of(Head(rest[s])) /\ rest[s] # <<>>
        /\ Head(rest[s]).target_domain \in Domains
    BY <1>1 DEF IntakeInv, ServiceInv, CallInv
  <2>2. id \in Ids /\ canon'[id] # NoRecord /\ Of(canon'[id]) = Of(Head(rest[s]))
    BY <1>3, <2>1 DEF InMemory
  <2>3. CallInv(s)'
    BY <1>2, <1>4, <2>1, <2>2 DEF CallInv
  <2>4. SettledInv(s)' /\ AnalysisInv(s)'
    BY <1>1, <1>2 DEF IntakeInv, ServiceInv, SettledInv, AnalysisInv, process
  <2> QED
    BY <2>3, <2>4 DEF ServiceInv
<1>8. ASSUME NEW t \in Services, t # s PROVE ServiceInv(t)'
  BY <1>2, <1>3, <1>4, <1>8, OthersKept DEF process
<1> QED
  BY <1>5, <1>6, <1>7, <1>8 DEF IntakeInv

(* Whoever binds first stays bound, so that nothing bound is lost.         *)
LEMMA BindInv ==
  ASSUME IntakeInv, NEW s \in Services, Bind(s)
  PROVE  IntakeInv'
<1> DEFINE c == Head(rest[s])
           id == record[s].id
           todo == RefsOf(c, id, "primary")
<1>1. TypeOK /\ pc[s] = "binding"
  BY DEF IntakeInv, Bind
<1>2. /\ bound' = [bound EXCEPT ![Of(c)] = IF @ = "none" THEN id ELSE @]
      /\ refsTodo' = [refsTodo EXCEPT ![s] = todo] /\ pc' = [pc EXCEPT ![s] = "referring"]
      /\ UNCHANGED <<canon, refs, parked, process, rest, record, log, settled, minted>>
  BY DEF Bind
<1>3. c \in CandidateDraft /\ Of(c) \in Fingerprints /\ rest[s] # <<>>
  BY <1>1, Current
<1>4. id \in Ids /\ canon[id] # NoRecord /\ Of(canon[id]) = Of(c)
  BY <1>1 DEF IntakeInv, ServiceInv, CallInv
<1>5. c.target_domain \in Domains
  BY <1>1 DEF IntakeInv, ServiceInv, CallInv
<1>6. /\ todo \in Seq(DomainRef) /\ todo # <<>>
      /\ \A d \in c.related_domains \cup {c.target_domain} :
           \E ref \in Range(todo) : ref.id = id /\ ref.domain = d
  <2>1. "primary" \in RelationKind
    BY DEF RelationKind
  <2> HIDE DEF c, id
  <2> QED
    BY <1>3, <1>4, <1>5, <2>1, RefsNameDomains
<1> HIDE DEF todo, id
<1>7. \A f \in Fingerprints : bound[f] \in Ids \cup {"none"}
  BY <1>1 DEF TypeOK
<1>8. /\ \A f \in Fingerprints : bound[f] # "none" => bound'[f] = bound[f]
      /\ \A f \in Fingerprints : bound'[f] \in {bound[f]} \cup (IF f = Of(c) THEN {id} ELSE {})
      /\ bound'[Of(c)] # "none"
  <2>1. \A f \in Fingerprints : f # Of(c) => bound'[f] = bound[f]
    BY <1>1, <1>2 DEF TypeOK
  <2>2. bound'[Of(c)] = IF bound[Of(c)] = "none" THEN id ELSE bound[Of(c)]
    BY <1>1, <1>2, <1>3 DEF TypeOK
  <2>3. id # "none"
    BY <1>4, RouterAssumption
  <2> HIDE DEF c
  <2> QED
    BY <1>3, <2>1, <2>2, <2>3
<1>9. Grows
  BY <1>2, <1>8 DEF Grows
<1>10. pc'[s] = "referring" /\ refsTodo'[s] = todo
       /\ \A t \in Services \ {s} : pc'[t] = pc[t] /\ refsTodo'[t] = refsTodo[t]
  BY <1>1, <1>2 DEF TypeOK
<1>11. TypeOK'
  <2>1. pc' \in [Services -> {"idle", "candidate", "linking", "writing", "binding",
                              "referring"}]
    BY <1>1, <1>2 DEF TypeOK
  <2>2. bound' \in [Fingerprints -> Ids \cup {"none"}]
    BY <1>1, <1>2, <1>4 DEF TypeOK
  <2>3. refsTodo' \in [Services -> Seq(DomainRef)]
    BY <1>1, <1>2, <1>6 DEF TypeOK
  <2> QED
    BY <1>1, <1>2, <2>1, <2>2, <2>3 DEF TypeOK, process
<1>12. CopiesInv' /\ LogInv'
  BY <1>2, <1>9, CopiesKept, LogKept DEF process
<1>13. CatalogInv'
  BY <1>2, <1>4, <1>8 DEF IntakeInv, CatalogInv
<1>14. ServiceInv(s)'
  <2>1. Referred(s)'
    BY <1>2, <1>6, <1>10 DEF Referred, id
  <2>2. rest'[s] = rest[s] /\ record'[s].id = id /\ canon' = canon
    BY <1>2 DEF id
  <2>3. CallInv(s)'
    BY <1>3, <1>4, <1>5, <1>6, <1>8, <1>10, <2>1, <2>2 DEF CallInv
  <2>4. SettledInv(s)' /\ AnalysisInv(s)'
    <3>1. SettledInv(s) /\ AnalysisInv(s) /\ settled[s] \subseteq Fingerprints
      BY DEF IntakeInv, ServiceInv, TypeOK
    <3> QED
      BY <1>1, <1>2, <1>8, <3>1 DEF SettledInv, AnalysisInv, process
  <2> QED
    BY <2>3, <2>4 DEF ServiceInv
<1>15. ASSUME NEW t \in Services, t # s PROVE ServiceInv(t)'
  BY <1>2, <1>9, <1>10, <1>15, OthersKept DEF process
<1> QED
  BY <1>11, <1>12, <1>13, <1>14, <1>15 DEF IntakeInv

(* The first reference is added, the others stay to be added.              *)
LEMMA AddDomainRefInv ==
  ASSUME IntakeInv, NEW s \in Services, AddDomainRef(s)
  PROVE  IntakeInv'
<1> DEFINE todo == refsTodo[s]
           id == record[s].id
           status == IF pc[s] = "linking" THEN "LINKED_DUPLICATE" ELSE "WRITTEN"
<1>1. TypeOK /\ ServiceInv(s) /\ pc[s] \in {"linking", "referring"}
  BY DEF IntakeInv, AddDomainRef
<1>2. /\ refs' = refs \cup {Head(todo)} /\ refsTodo' = [refsTodo EXCEPT ![s] = Tail(todo)]
      /\ UNCHANGED <<canon, bound, parked, process, minted>>
  BY DEF AddDomainRef
<1>3. todo \in Seq(DomainRef) /\ todo # <<>>
  BY <1>1 DEF TypeOK, ServiceInv, CallInv
<1>4. Head(todo) \in DomainRef /\ Tail(todo) \in Seq(DomainRef)
  BY <1>3
<1>5. Range(todo) \subseteq {Head(todo)} \cup Range(Tail(todo))
  <2>1. ASSUME NEW i \in DOMAIN todo, i # 1
        PROVE  i - 1 \in DOMAIN Tail(todo) /\ Tail(todo)[i - 1] = todo[i]
    BY <1>3, <2>1
  <2>2. todo[1] = Head(todo)
    BY <1>3
  <2> QED
    BY <2>1, <2>2 DEF Range
<1>6. Grows
  BY <1>2 DEF Grows
<1>7. refs' \subseteq DomainRef /\ refsTodo' \in [Services -> Seq(DomainRef)]
  BY <1>1, <1>2, <1>4 DEF TypeOK
<1>8. CopiesInv' /\ CatalogInv'
  BY <1>2, <1>6, CopiesKept, CatalogKept DEF process
<1>9. /\ rest[s] # <<>> /\ Head(rest[s]) \in CandidateDraft
      /\ Head(rest[s]).target_domain \in Domains
      /\ id \in Ids /\ canon[id] # NoRecord /\ Of(canon[id]) = Of(Head(rest[s]))
      /\ bound[Of(Head(rest[s]))] # "none" /\ Referred(s)
  BY <1>1, Current DEF ServiceInv, CallInv
<1>10. ASSUME NEW d \in Head(rest[s]).related_domains \cup {Head(rest[s]).target_domain}
       PROVE  \E ref \in refs' \cup Range(Tail(todo)) : ref.id = id /\ ref.domain = d
  <2>1. PICK ref \in refs \cup Range(todo) : ref.id = id /\ ref.domain = d
    BY <1>9 DEF Referred
  <2>2. ref \in refs' \cup Range(Tail(todo))
    BY <1>2, <1>5, <2>1
  <2> QED
    BY <2>1, <2>2
<1>11. CASE Len(todo) = 1
  <2>1. Conclude(s, status, id)
    BY <1>11 DEF AddDomainRef
  <2>2. status \in {"PARKED", "WRITTEN", "LINKED_DUPLICATE"} /\ status # "PARKED"
        /\ id # "none"
    BY <1>9, RouterAssumption
  <2>3. TypeOK'
    BY <1>1, <1>2, <1>7, <1>9, <2>1, <2>2, ConcludeTypes DEF TypeOK, process
  <2>4. Range(Tail(todo)) = {}
    BY <1>3, <1>11 DEF Range
  <2>5. PICK c : c = Head(rest[s])
    OBVIOUS
  <2>6. PICK i : i = id
    OBVIOUS
  <2>7. PICK st : st = status
    OBVIOUS
  <2>8. Kept([status |-> st, candidate |-> c, id |-> i])'
    <3>1. \A d \in c.related_domains \cup {c.target_domain} :
            \E ref \in refs' : ref.id = i /\ ref.domain = d
      BY <1>10, <2>4, <2>5, <2>6
    <3>2. canon'[i] # NoRecord /\ Of(c) = Of(canon'[i]) /\ bound'[Of(c)] # "none"
      BY <1>2, <1>9, <2>5, <2>6
    <3>3. st # "PARKED"
      BY <2>2, <2>7
    <3> QED
      BY <3>1, <3>2, <3>3 DEF Kept
  <2>9. LogInv' /\ ServiceInv(s)'
    <3>1. Conclude(s, st, i) /\ i \in Ids \cup {"none"}
          /\ st \in {"PARKED", "WRITTEN", "LINKED_DUPLICATE"}
          /\ (st = "PARKED" <=> i = "none") /\ pc[s] # "idle" /\ UNCHANGED registry
      BY <1>1, <1>2, <1>9, <2>1, <2>2, <2>6, <2>7 DEF process
    <3> QED
      BY <1>6, <2>5, <2>8, <3>1, ConcludeInv
  <2>10. ASSUME NEW t \in Services, t # s PROVE ServiceInv(t)'
    <3>1. /\ pc'[t] = pc[t] /\ rest'[t] = rest[t] /\ settled'[t] = settled[t]
          /\ record'[t] = record[t] /\ refsTodo'[t] = refsTodo[t]
          /\ gate'[t] = gate[t] /\ registry'[t] = registry[t]
      BY <1>1, <1>2, <2>1, <2>10 DEF Conclude, TypeOK, process
    <3> QED
      BY <1>6, <3>1, OthersKept
  <2> QED
    BY <1>8, <2>3, <2>9, <2>10 DEF IntakeInv
<1>12. CASE Len(todo) # 1
  <2>1. UNCHANGED <<log, rest, settled, record, pc>>
    BY <1>12 DEF AddDomainRef
  <2>2. TypeOK'
    BY <1>1, <1>2, <1>7, <2>1 DEF TypeOK, process
  <2>3. LogInv'
    BY <1>6, <2>1, LogKept
  <2>4. refsTodo'[s] = Tail(todo)
    BY <1>1, <1>2 DEF TypeOK
  <2>5. Tail(todo) # <<>>
    <3>1. Len(todo) \in Nat /\ Len(todo) # 0 /\ Len(Tail(todo)) = Len(todo) - 1
      BY <1>3
    <3>2. Len(Tail(todo)) # 0
      BY <1>12, <3>1
    <3>3. Len(<<>>) = 0
      OBVIOUS
    <3> QED
      BY <3>2, <3>3
  <2>6. Referred(s)'
    BY <1>10, <2>1, <2>4 DEF Referred
  <2>7. CallInv(s)'
    BY <1>1, <1>2, <1>9, <2>1, <2>4, <2>5, <2>6 DEF CallInv
  <2>8. SettledInv(s)' /\ AnalysisInv(s)'
    BY <1>1, <1>2, <2>1 DEF ServiceInv, SettledInv, AnalysisInv, process
  <2>9. ASSUME NEW t \in Services, t # s PROVE ServiceInv(t)'
    <3>1. refsTodo'[t] = refsTodo[t]
      BY <1>1, <1>2, <2>9 DEF TypeOK
    <3> QED
      BY <1>2, <1>6, <2>1, <3>1, OthersKept DEF process
  <2> QED
    BY <1>8, <2>2, <2>3, <2>7, <2>8, <2>9 DEF IntakeInv, ServiceInv
<1> QED
  BY <1>11, <1>12

(* A record that is refused ends its call.                                 *)
LEMMA RefuseRecordInv ==
  ASSUME IntakeInv, NEW s \in Services, RefuseRecord(s)
  PROVE  IntakeInv'
<1>1. TypeOK /\ Abandon(s) /\ UNCHANGED <<files, process>>
  BY DEF IntakeInv, RefuseRecord
<1>2. Grows /\ UNCHANGED <<settled, log, minted>>
  BY <1>1 DEF Grows, files, Abandon
<1>3. TypeOK'
  BY <1>1, <1>2, AbandonInv DEF TypeOK, files, process
<1>4. CopiesInv' /\ CatalogInv'
  BY <1>1, <1>2, CopiesKept, CatalogKept DEF files, process
<1>5. ASSUME NEW t \in Services, t # s PROVE ServiceInv(t)'
  <2>1. /\ pc'[t] = pc[t] /\ rest'[t] = rest[t] /\ settled'[t] = settled[t]
        /\ record'[t] = record[t] /\ refsTodo'[t] = refsTodo[t]
        /\ gate'[t] = gate[t] /\ registry'[t] = registry[t]
    BY <1>1, <1>2, <1>5 DEF Abandon, TypeOK, process
  <2> QED
    BY <1>2, <2>1, OthersKept
<1> QED
  BY <1>1, <1>2, <1>3, <1>4, <1>5, AbandonInv DEF IntakeInv

(* So does a step that fails, some of whose writes may have been made.     *)
LEMMA StepFailsInv ==
  ASSUME IntakeInv, NEW s \in Services, StepFails(s)
  PROVE  IntakeInv'
<1>1. TypeOK /\ Abandon(s) /\ UNCHANGED <<bound, refs, parked, process>>
  BY DEF IntakeInv, StepFails
<1>2. UNCHANGED <<settled, log, minted>>
  BY <1>1 DEF Abandon
<1>3. /\ Grows /\ canon' \in [Ids -> Stored]
      /\ \A id \in Ids : canon'[id] \in {canon[id], gate[s][id]}
  <2>1. CASE UNCHANGED canon
    BY <1>1, <2>1 DEF Grows, TypeOK
  <2>2. CASE \E ids \in SUBSET InMemory(s) : canon' = Synced(s, ids)
    BY <1>1, <2>2, SyncGrows
  <2> QED
    BY <2>1, <2>2 DEF StepFails
<1>4. TypeOK'
  BY <1>1, <1>2, <1>3, AbandonInv DEF TypeOK, process
<1>5. CopiesInv' /\ CatalogInv'
  BY <1>1, <1>2, <1>3, CopiesKept, CatalogKept DEF process
<1>6. ASSUME NEW t \in Services, t # s PROVE ServiceInv(t)'
  <2>1. /\ pc'[t] = pc[t] /\ rest'[t] = rest[t] /\ settled'[t] = settled[t]
        /\ record'[t] = record[t] /\ refsTodo'[t] = refsTodo[t]
        /\ gate'[t] = gate[t] /\ registry'[t] = registry[t]
    BY <1>1, <1>2, <1>6 DEF Abandon, TypeOK, process
  <2> QED
    BY <1>3, <2>1, OthersKept
<1> QED
  BY <1>1, <1>3, <1>4, <1>5, <1>6, AbandonInv DEF IntakeInv

(* A service that starts anew remembers what Canon holds.                  *)
LEMMA RestartInv ==
  ASSUME IntakeInv, NEW s \in Services, Restart(s)
  PROVE  IntakeInv'
<1>1. TypeOK /\ Abandon(s) /\ UNCHANGED files /\ gate' = [gate EXCEPT ![s] = canon]
      /\ \E r \in Registries : registry' = [registry EXCEPT ![s] = r]
  BY DEF IntakeInv, Restart
<1>2. Grows /\ UNCHANGED <<settled, log, minted>>
  BY <1>1 DEF Grows, files, Abandon
<1>3. TypeOK'
  <2>1. gate' \in [Services -> [Ids -> Stored]] /\ registry' \in [Services -> Registry]
    BY <1>1, IntakeAssumption DEF TypeOK
  <2> QED
    BY <1>1, <1>2, <2>1, AbandonInv DEF TypeOK, files
<1>4. CopiesInv' /\ CatalogInv'
  <2>1. \A id \in Ids : /\ canon'[id] = canon[id]
                        /\ \A t \in Services : gate'[t][id] \in {gate[t][id], canon[id]}
    BY <1>1 DEF files, TypeOK
  <2> QED
    BY <1>1, <1>2, <2>1, CopiesKept, CatalogKept DEF files
<1>5. ASSUME NEW t \in Services, t # s PROVE ServiceInv(t)'
  <2>1. /\ pc'[t] = pc[t] /\ rest'[t] = rest[t] /\ settled'[t] = settled[t]
        /\ record'[t] = record[t] /\ refsTodo'[t] = refsTodo[t]
        /\ gate'[t] = gate[t] /\ registry'[t] = registry[t]
    BY <1>1, <1>2, <1>5 DEF Abandon, TypeOK
  <2> QED
    BY <1>2, <2>1, OthersKept
<1> QED
  BY <1>1, <1>2, <1>3, <1>4, <1>5, AbandonInv DEF IntakeInv

-----------------------------------------------------------------------------
(* What any number of services, with any faults, keep.                     *)
THEOREM IntakeInvariant == Spec => []IntakeInv
<1>1. Init => IntakeInv
  <2> SUFFICES ASSUME Init PROVE IntakeInv
    OBVIOUS
  <2>1. NoRecords \in [Ids -> Stored] /\ \A id \in Ids : NoRecords[id] = NoRecord
    BY DEF NoRecords, Stored
  <2>2. TypeOK
    <3>1. registry \in [Services -> Registry]
      BY IntakeAssumption DEF Init
    <3>2. /\ canon \in [Ids -> Stored] /\ gate \in [Services -> [Ids -> Stored]]
          /\ record \in [Services -> Stored]
      BY <2>1 DEF Init, Stored
    <3>3. bound \in [Fingerprints -> Ids \cup {"none"}] /\ refs = {} /\ parked = {}
          /\ log = {} /\ minted = {}
      BY DEF Init
    <3>4. /\ pc \in [Services -> {"idle", "candidate", "linking", "writing", "binding",
                                  "referring"}]
          /\ rest \in [Services -> Seq(CandidateDraft)]
          /\ refsTodo \in [Services -> Seq(DomainRef)]
          /\ settled \in [Services -> SUBSET Fingerprints]
      BY DEF Init
    <3> QED
      BY <3>1, <3>2, <3>3, <3>4 DEF TypeOK
  <2>3. CopiesInv
    BY <2>1 DEF Init, CopiesInv, Copies
  <2>4. CatalogInv
    BY DEF Init, CatalogInv
  <2>5. LogInv
    BY DEF Init, LogInv, AnsweredIsKept
  <2>6. \A s \in Services : ServiceInv(s)
    BY DEF Init, ServiceInv, CallInv, SettledInv, AnalysisInv
  <2> QED
    BY <2>2, <2>3, <2>4, <2>5, <2>6 DEF IntakeInv
<1>2. IntakeInv /\ [Next]_vars => IntakeInv'
  <2> SUFFICES ASSUME IntakeInv, [Next]_vars
               PROVE  IntakeInv'
    OBVIOUS
  <2>1. CASE UNCHANGED vars
    <3>1. Grows /\ UNCHANGED <<log, minted, pc, rest, record, refsTodo, settled, gate, registry>>
      BY <2>1 DEF vars, files, process, call, Grows
    <3>2. UNCHANGED <<canon, bound, refs, parked>>
      BY <2>1 DEF vars, files
    <3>3. TypeOK'
      BY <3>1, <3>2 DEF IntakeInv, TypeOK
    <3>4. CopiesInv' /\ CatalogInv' /\ LogInv'
      BY <3>1, <3>2, CopiesKept, CatalogKept, LogKept
    <3>5. \A s \in Services : ServiceInv(s)'
      BY <3>1, OthersKept
    <3> QED
      BY <3>3, <3>4, <3>5 DEF IntakeInv
  <2>2. ASSUME NEW s \in Services, Step(s) PROVE IntakeInv'
    <3>1. ASSUME NEW message \in Messages, IngestMessage(s, message) PROVE IntakeInv'
      <4>1. registry[s] \in Registry
        BY DEF IntakeInv, TypeOK
      <4> QED
        BY <3>1, <4>1, MessageIsGrounded, BeginInv DEF IngestMessage
    <3>2. ASSUME NEW candidate \in Explicits, IngestExplicit(s, candidate) PROVE IntakeInv'
      <4>1. candidate \in CandidateDraft
        BY IntakeAssumption
      <4>2. /\ <<candidate>> \in Seq(CandidateDraft) /\ <<candidate>> # <<>>
            /\ \A i \in DOMAIN <<candidate>> : Grounded(registry[s], <<candidate>>[i])
        BY <4>1 DEF Grounded
      <4> QED
        BY <3>2, <4>2, BeginInv DEF IngestExplicit
    <3> QED
      BY <2>2, <3>1, <3>2, ParkInv, ResolveInv, AdmitInv, WriteInv, BindInv, AddDomainRefInv,
         RefuseRecordInv, StepFailsInv, RestartInv DEF Step
  <2> QED
    BY <2>1, <2>2 DEF Next
<1> QED
  BY <1>1, <1>2, PTL DEF Spec

(* Every variable keeps its type.                                          *)
THEOREM TypeCorrect == Spec => []TypeOK
BY IntakeInvariant, PTL DEF IntakeInv

(* No call meets the RuntimeError about a missing canonical record         *)
(* (ingest_candidate), whatever stopped between write and bind.            *)
THEOREM BindingsAlwaysHold == Spec => []BindingsHold
<1>1. IntakeInv => BindingsHold
  <2> SUFFICES ASSUME IntakeInv PROVE BindingsHold
    OBVIOUS
  <2>1. \A s \in Services : pc[s] = "candidate" => Of(Head(rest[s])) \in Fingerprints
    BY Current
  <2> QED
    BY <2>1 DEF IntakeInv, CatalogInv, BindingsHold, CatalogBroken, Of
<1> QED
  BY <1>1, IntakeInvariant, PTL

(* No content is written again once it was answered.                       *)
THEOREM AnsweredOnlyOnce == Spec => []AnsweredOnce
<1>1. IntakeInv => AnsweredOnce
  BY DEF IntakeInv, ServiceInv, SettledInv, AnsweredOnce
<1> QED
  BY <1>1, IntakeInvariant, PTL

(* Every answer stays true, with all its references.                       *)
THEOREM AnswersStayTrue == Spec => []AnsweredIsKept
<1>1. IntakeInv => AnsweredIsKept
  BY DEF IntakeInv, LogInv
<1> QED
  BY <1>1, IntakeInvariant, PTL

(* No domain gets a text that speaks for another one as much.              *)
THEOREM TargetsAreEvident == Spec => []EvidenceDecides
<1>1. IntakeInv => EvidenceDecides
  <2> SUFFICES ASSUME IntakeInv, NEW s \in Services, rest[s] # <<>>
               PROVE  Grounded(registry[s], Head(rest[s]))
    BY DEF EvidenceDecides
  <2>1. rest[s] \in Seq(CandidateDraft)
    BY DEF IntakeInv, TypeOK
  <2>2. 1 \in DOMAIN rest[s] /\ Head(rest[s]) = rest[s][1]
    BY <2>1
  <2> QED
    BY <2>2 DEF IntakeInv, ServiceInv, AnalysisInv
<1> QED
  BY <1>1, IntakeInvariant, PTL
=============================================================================
