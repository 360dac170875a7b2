---------------------------- MODULE SingleFlight ----------------------------
(***************************************************************************)
(* What the durable continuation ledger promises to the Home-System behind *)
(* it, with none of the machinery.  For each dedupe key there is at most   *)
(* one accepted dispatch at a time; an accepted dispatch is launched at    *)
(* most once; a launch that is known to have succeeded is the last one;    *)
(* one whose result is unknown is never followed by another; and there are *)
(* at most Cap launches in all.                                            *)
(***************************************************************************)
EXTENDS Naturals

CONSTANTS
  Keys,   \* dedupe keys
  Cap     \* the largest retry limit an item may carry

VARIABLES
  phase,    \* phase[k]: "free", "accepted", "flying", "stuck" or "done"
  launched  \* launched[k]: how many dispatches of k were started

sfVars == <<phase, launched>>

Init ==
  /\ phase = [k \in Keys |-> "free"]
  /\ launched = [k \in Keys |-> 0]

Become(k, from, to) ==
  /\ phase[k] = from
  /\ phase' = [phase EXCEPT ![k] = to]

(* A caller is given the key, if the budget still allows a launch.         *)
Accept(k) ==
  /\ launched[k] < Cap
  /\ Become(k, "free", "accepted")
  /\ UNCHANGED launched

Launch(k) ==
  /\ Become(k, "accepted", "flying")
  /\ launched' = [launched EXCEPT ![k] = @ + 1]

(* The caller learned the result.                                          *)
Succeed(k) == Become(k, "flying", "done") /\ UNCHANGED launched
Fail(k)    == Become(k, "flying", "free") /\ UNCHANGED launched

(* The caller did not, or is gone.                                         *)
Lose(k) ==
  /\ Become(k, "accepted", "stuck") \/ Become(k, "flying", "stuck")
  /\ UNCHANGED launched

Next ==
  \E k \in Keys : Accept(k) \/ Launch(k) \/ Succeed(k) \/ Fail(k) \/ Lose(k)

Spec == Init /\ [][Next]_sfVars
=============================================================================
