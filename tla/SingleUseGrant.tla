--------------------------- MODULE SingleUseGrant ---------------------------
(***************************************************************************)
(* What the consumption ledger promises an owner: a grant is taken for one *)
(* piece of evidence and one scope, once and for ever; its evidence backs  *)
(* no other grant; at most one run is started for it; and it counts as     *)
(* spent only on the proof of that run.                                    *)
(***************************************************************************)
CONSTANTS
  GrantIds, Evidences, Scopes

VARIABLES
  phase,    \* phase[g]: "unused", "taken", "doubtful" or "spent"
  binding,  \* binding[g]: what the grant was taken for, or NoBinding
  started   \* the grants a run was started for

sugVars == <<phase, binding, started>>

NoScope == [grant_id |-> "none"]
NoBinding == [evidence |-> "none", scope |-> NoScope]
Bindings == [evidence : Evidences, scope : Scopes]

Init ==
  /\ phase = [g \in GrantIds |-> "unused"]
  /\ binding = [g \in GrantIds |-> NoBinding]
  /\ started = {}

Take(g, b) ==
  /\ phase[g] = "unused"
  /\ \A h \in GrantIds : binding[h].evidence # b.evidence
  /\ phase' = [phase EXCEPT ![g] = "taken"]
  /\ binding' = [binding EXCEPT ![g] = b]
  /\ UNCHANGED started

Start(g) ==
  /\ phase[g] \in {"taken", "doubtful"}
  /\ g \notin started
  /\ started' = started \cup {g}
  /\ UNCHANGED <<phase, binding>>

Doubt(g) ==
  /\ phase[g] = "taken"
  /\ phase' = [phase EXCEPT ![g] = "doubtful"]
  /\ UNCHANGED <<binding, started>>

Spend(g) ==
  /\ phase[g] \in {"taken", "doubtful"}
  /\ g \in started
  /\ phase' = [phase EXCEPT ![g] = "spent"]
  /\ UNCHANGED <<binding, started>>

Next ==
  \E g \in GrantIds :
    Start(g) \/ Doubt(g) \/ Spend(g) \/ \E b \in Bindings : Take(g, b)

Spec == Init /\ [][Next]_sugVars
=============================================================================
