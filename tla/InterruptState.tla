--------------------------- MODULE InterruptState ---------------------------
(***************************************************************************)
(* The interrupt state that peripherals on one CPU share.                  *)
(***************************************************************************)
EXTENDS Interrupts

VARIABLE irq       \* u32IntFlags and u8IntPriority
=============================================================================
