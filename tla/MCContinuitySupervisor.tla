----------------------- MODULE MCContinuitySupervisor -----------------------
(***************************************************************************)
(* The supervisor on a small instance.  TLC also evaluates here the tables *)
(* of cases replayed from the gate scripts, which need an instance of      *)
(* their own modules only: this is the run that uses none of the deciders  *)
(* the tables are about.                                                   *)
(***************************************************************************)
EXTENDS ContinuitySupervisor, ReadinessCases, EvidenceCases, BoundaryCases
=============================================================================
