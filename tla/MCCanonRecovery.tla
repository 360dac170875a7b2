--------------------------- MODULE MCCanonRecovery ---------------------------
(***************************************************************************)
(* Instances of CanonRecovery for TLC: a subject with claims that          *)
(* contradict each other, a correction, and a caller who retries with a    *)
(* record that was altered.                                                *)
(***************************************************************************)
EXTENDS TruthAwareAnswers

CONSTANTS a, b, k, wzw, lang, memory_use, python, rust, go

Draft(id, type, content, predecessor) ==
  [id |-> id, domain |-> wzw, subject |-> lang, purpose |-> memory_use,
   sensitivity |-> 1, knowledge_type |-> type, epistemic_status |-> "USER_STATED",
   content |-> content, predecessor |-> predecessor]

At(draft, sensitivity) == [draft EXCEPT !.sensitivity = sensitivity]

Owner ==
  [projects |-> {wzw}, purposes |-> {memory_use}, clearance |-> 1,
   can_verify |-> FALSE, can_correct |-> TRUE, can_promote_decision |-> TRUE]
Guest ==
  [projects |-> {wzw}, purposes |-> {memory_use}, clearance |-> 0,
   can_verify |-> FALSE, can_correct |-> FALSE, can_promote_decision |-> FALSE]

MCAuthorities == {Owner, Guest}

Idea == Draft(a, "IDEA", python, "none")
Claim == Draft(b, "CLAIM", rust, "none")
Correction == Draft(k, "CORRECTION", go, a)

(* An idea, a claim against it and a correction; the idea comes back with  *)
(* its sensitivity lowered.                                                *)
Altered == {Idea, At(Idea, 0), Claim, Correction}

AtMost(database, anIndex, rogue, crash) ==
  [canon |-> database, index |-> anIndex, rogue |-> rogue, crash |-> crash]

OneOfEach == AtMost(1, 1, 1, 1)

StrangeItem == {At(Idea, 0)}
=============================================================================
