---------------------------- MODULE RollbackOnce ----------------------------
(***************************************************************************)
(* What the rollback ledger promises: a rollback is taken on for one scope *)
(* and started at most once, ever; it counts as done only after it was     *)
(* carried out; and doubt, once there, stays for somebody else to resolve. *)
(***************************************************************************)
CONSTANTS
  Keys, Scopes

VARIABLES
  phase,    \* phase[k]: "free", "taken", "done" or "doubtful"
  scope,    \* scope[k]: what it was taken on for, or NoScope
  started,  \* keys whose rollback was started
  finished  \* keys whose rollback was carried out

roVars == <<phase, scope, started, finished>>

NoScope == [key |-> "none"]

Init ==
  /\ phase = [k \in Keys |-> "free"]
  /\ scope = [k \in Keys |-> NoScope]
  /\ started = {}
  /\ finished = {}

Take(k, s) ==
  /\ phase[k] = "free"
  /\ phase' = [phase EXCEPT ![k] = "taken"]
  /\ scope' = [scope EXCEPT ![k] = s]
  /\ UNCHANGED <<started, finished>>

Start(k) ==
  /\ phase[k] \in {"taken", "doubtful"}
  /\ k \notin started
  /\ started' = started \cup {k}
  /\ UNCHANGED <<phase, scope, finished>>

Finish(k) ==
  /\ k \in started
  /\ finished' = finished \cup {k}
  /\ UNCHANGED <<phase, scope, started>>

Conclude(k) ==
  /\ phase[k] = "taken"
  /\ k \in finished
  /\ phase' = [phase EXCEPT ![k] = "done"]
  /\ UNCHANGED <<scope, started, finished>>

Doubt(k) ==
  /\ phase[k] \in {"taken", "done"}
  /\ phase' = [phase EXCEPT ![k] = "doubtful"]
  /\ UNCHANGED <<scope, started, finished>>

Next ==
  \E k \in Keys :
    Start(k) \/ Finish(k) \/ Conclude(k) \/ Doubt(k) \/ \E s \in Scopes : Take(k, s)

Spec == Init /\ [][Next]_roVars
=============================================================================
