------------------------------- MODULE MCCpu -------------------------------
(***************************************************************************)
(* The CPU with three vectors, bytes of base 3 and two nested frames: the  *)
(* smallest instance in which two requests are pending when a third is     *)
(* dispatched and an interrupt lands inside a call.                        *)
(***************************************************************************)
EXTENDS Cpu
=============================================================================
