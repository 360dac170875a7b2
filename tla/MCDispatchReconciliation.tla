---------------------- MODULE MCDispatchReconciliation ----------------------
(***************************************************************************)
(* Instances of DispatchReconciliation for TLC, with the values of         *)
(* MCDispatchLedger.                                                       *)
(***************************************************************************)
EXTENDS DispatchReconciliation, MCDispatchLedger

CONSTANT r1

(* One key; one caller allows a retry and the other none at all, but has a *)
(* retry count that passes all the same.                                   *)
MCItems ==
  {[SafeItem(k1, 0) EXCEPT !.retry_count = -1], SafeItem(k1, 2)}
=============================================================================
