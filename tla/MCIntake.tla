------------------------------ MODULE MCIntake ------------------------------
(***************************************************************************)
(* An instance of Intake for TLC, with clauses like those of the golden    *)
(* tests (critical/governance_memos_remaining_gate.py): a bill that        *)
(* belongs to a renovation, a desk that two domains report in different    *)
(* spelling, a text that speaks for two domains alike, one that speaks for *)
(* none, and one that is worded as a correction.                           *)
(***************************************************************************)
EXTENDS Intake

CONSTANTS s1, s2, wzw, bills, ideas, bill, desk, Desk, tie, mute, fix, room, other,
          memory, i1, i2, i3

In(domain, n) == [d \in Domains |-> IF d = domain THEN n ELSE 0]

MCAliases ==
  [t \in Contents |->
     CASE t \in {bill, fix} -> In(wzw, 1)
       [] t = tie -> [d \in Domains |-> IF d \in {wzw, ideas} THEN 1 ELSE 0]
       [] OTHER -> In(wzw, 0)]

MCTerms ==
  [t \in Contents |->
     IF t = bill THEN [d \in Domains |-> IF d = wzw THEN 2 ELSE IF d = bills THEN 1 ELSE 0]
     ELSE In(wzw, 0)]

MCMarkers == [t \in Contents |-> IF t = fix THEN {"CORRECTION"} ELSE {}]

MCSubjectOf == [t \in Contents |-> IF t \in {desk, Desk} THEN room ELSE other]

MCNormalForm == [t \in Contents |-> IF t = Desk THEN desk ELSE t]

AllLoaded == [d \in Domains |-> "LOADED"]

MCRegistries == {AllLoaded, [AllLoaded EXCEPT ![ideas] = "UNAVAILABLE"]}

MCMessages ==
  {[clauses |-> <<bill, fix>>, previous |-> "none"],
   [clauses |-> <<tie>>, previous |-> ideas],
   [clauses |-> <<mute, bill>>, previous |-> wzw]}

Explicit(text, domain) ==
  [content |-> text, subject |-> room, knowledge_type |-> "IDEA",
   route_status |-> "ROUTED", target_domain |-> domain, related_domains |-> {}]

MCExplicits == {Explicit(desk, ideas), Explicit(Desk, wzw), Explicit(Desk, bills)}

MCWriter ==
  [projects |-> {wzw, ideas}, purposes |-> {memory}, clearance |-> 2,
   can_verify |-> FALSE, can_correct |-> FALSE, can_promote_decision |-> FALSE]
=============================================================================
