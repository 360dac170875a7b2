---------------------------- MODULE MCRunTracking ----------------------------
(***************************************************************************)
(* An instance of RunTracking for TLC: one piece of work dispatched twice. *)
(***************************************************************************)
EXTENDS RunTracking

Says(state, confirmed, effect, intact) ==
  [state |-> state, confirmed |-> confirmed, effect |-> effect, intact |-> intact]

MCContents ==
  {Says("SUCCEEDED", TRUE, "NONE", TRUE), Says("SUCCEEDED", TRUE, "POSSIBLE", TRUE),
   Says("FAILED", FALSE, "POSSIBLE", TRUE)}

Twice == <<"w", "w">>

MCDrifts == {-1, 1}
=============================================================================
