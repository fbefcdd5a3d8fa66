------------------------------- MODULE MCUart -------------------------------
(***************************************************************************)
(* The serial port with one-bit bytes, a byte time of two clocks and a     *)
(* poll every other clock: bytes overlap in both directions and every      *)
(* interrupt source is on, off or on alone.                                *)
(***************************************************************************)
EXTENDS Uart

MCControlValues ==
    {{}, {"TXEN0"}, {"TXEN0", "UDRIE0", "TXCIE0"}, {"RXEN0", "RXCIE0"},
     {"TXEN0", "RXEN0", "UDRIE0", "TXCIE0", "RXCIE0"}}
=============================================================================
