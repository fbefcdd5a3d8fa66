------------------------------ MODULE MCEeprom ------------------------------
(***************************************************************************)
(* The EEPROM with two one-bit cells and short programming times.  The     *)
(* read stall and the window have their real length, and programming       *)
(* outlives both.                                                          *)
(***************************************************************************)
EXTENDS Eeprom
=============================================================================
