---------------------------- MODULE IntakeRouter ----------------------------
(***************************************************************************)
(* governance/intake_router.py, ProductNeutralIntakeRouter: from a clause  *)
(* of a message to a candidate with a target domain.  A text is a member   *)
(* of Contents; what the router sees in it, how many aliases and context   *)
(* terms of each domain and which markers, is given by functions.  Scores  *)
(* are counted in quarters, of which the code's 10, 2 and 0.25 have whole  *)
(* numbers.                                                                *)
(***************************************************************************)
EXTENDS CanonRouter, FiniteSetsExt

CONSTANTS
  Aliases,    \* Aliases[text][domain]: aliases of the domain in the text
  Terms,      \* Terms[text][domain]: context terms of the domain in the text
  Markers,    \* Markers[text]: knowledge types the text has a marker of
  SubjectOf,  \* the first eight words of a text
  NormalForm  \* the text that stands for all it is normalized like

MarkedTypes == {"DECISION", "CORRECTION", "TASK", "IDEA"}

ASSUME IntakeRouterAssumption ==
  /\ Aliases \in [Contents -> [Domains -> Nat]]
  /\ Terms \in [Contents -> [Domains -> Nat]]
  /\ Markers \in [Contents -> SUBSET MarkedTypes]
  /\ SubjectOf \in [Contents -> Subjects]
  /\ NormalForm \in [Contents -> Contents]

(* What the registry knows of a domain.                                    *)
RegistryEntry == {"MISSING", "NO_CANON", "UNAVAILABLE", "LOADED"}

Registry == [Domains -> RegistryEntry]

CandidateDraft ==
  [content : Contents, subject : Subjects, knowledge_type : KnowledgeType,
   route_status : {"ROUTED", "AMBIGUOUS", "UNROUTED"},
   target_domain : Domains \cup {"none"}, related_domains : SUBSET Domains]

(* Subjects are given in their normal form.                                *)
Fingerprint(subject, content) == <<subject, NormalForm[content]>>

Fingerprints == Subjects \X Contents

ReadCurrentCanon(registry, domain) == registry[domain] = "LOADED"

-----------------------------------------------------------------------------

Quarters(text, domain) == 40 * Aliases[text][domain] + 8 * Terms[text][domain]

(* Domains without a loadable Canon are scored like all that are known.    *)
Evidenced(registry, text) ==
  {d \in Domains : registry[d] # "MISSING" /\ Quarters(text, d) > 0}

(* A slip: the previous domain always counts a little.                     *)
Score_AlwaysContext(registry, text, previous) ==
  [d \in Evidenced(registry, text)
           \cup (IF previous # "none" /\ registry[previous] # "MISSING" THEN {previous} ELSE {})
     |-> Quarters(text, d) + (IF d = previous THEN 1 ELSE 0)]

(* The previous domain counts only where nothing else does.                *)
Score(registry, text, previous) ==
  IF Evidenced(registry, text) # {}
    THEN [d \in Evidenced(registry, text) |-> Quarters(text, d)]
  ELSE IF previous # "none" /\ registry[previous] # "MISSING"
    THEN [d \in {previous} |-> 1]
  ELSE [d \in {} |-> 0]

Winners(score) == {d \in DOMAIN score : \A e \in DOMAIN score : score[e] <= score[d]}

(* The first of the markers in the order the code looks for them.  Its     *)
(* question mark is gone from a normalized text, so that no text is taken  *)
(* for a question.                                                         *)
KnowledgeTypeOf(text) ==
  IF "DECISION" \in Markers[text] THEN "DECISION"
  ELSE IF "CORRECTION" \in Markers[text] THEN "CORRECTION"
  ELSE IF "TASK" \in Markers[text] THEN "TASK"
  ELSE IF "IDEA" \in Markers[text] THEN "IDEA"
  ELSE "CLAIM"

Candidate(text, status, target, related) ==
  [content |-> text, subject |-> SubjectOf[text],
   knowledge_type |-> KnowledgeTypeOf(text), route_status |-> status,
   target_domain |-> target, related_domains |-> related]

AnalyzeClause(registry, text, previous) ==
  LET score == Score(registry, text, previous)
      winners == Winners(score) IN
  IF winners = {} THEN Candidate(text, "UNROUTED", "none", {})
  ELSE IF Cardinality(winners) > 1
    THEN Candidate(text, "AMBIGUOUS", "none", DOMAIN score)
  ELSE LET target == CHOOSE d \in winners : TRUE IN
       Candidate(text, "ROUTED", target, DOMAIN score \ {target})

(* A message is its clauses and the domain the conversation was about.     *)
AnalyzeMessage(registry, message) ==
  [i \in DOMAIN message.clauses |->
     AnalyzeClause(registry, message.clauses[i], message.previous)]
=============================================================================
