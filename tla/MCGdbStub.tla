------------------------------ MODULE MCGdbStub -----------------------------
(***************************************************************************)
(* The emulator loop under each debugger: two program words, two data      *)
(* addresses, a trace of three elements.                                   *)
(***************************************************************************)
EXTENDS GdbStub
=============================================================================
