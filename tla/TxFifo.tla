------------------------------- MODULE TxFifo -------------------------------
(***************************************************************************)
(* What a transmitter with a one-byte buffer and a shift register promises *)
(* a program: bytes leave in the order they were written, once each; the   *)
(* "ready" flag tells the program whether the next byte has room; a byte   *)
(* written without room replaces the last one queued and nothing else.     *)
(***************************************************************************)
EXTENDS Sequences, Integers

CONSTANTS Byte,      \* what the program writes
          NoByte     \* nothing was sent yet

Capacity == 2

VARIABLES queue,     \* bytes written and not yet sent, oldest first
          ready,     \* the flag the program polls before it writes
          sent       \* the byte last sent

fifoVars == <<queue, ready, sent>>

Init == queue = <<>> /\ ready = TRUE /\ sent = NoByte

Write(b) ==
    /\ queue' = IF Len(queue) < Capacity THEN Append(queue, b)
                                         ELSE <<queue[1], b>>
    /\ ready' = (Len(queue') < Capacity)
    /\ UNCHANGED sent

Send ==
    /\ queue # <<>>
    /\ sent' = Head(queue)
    /\ queue' = Tail(queue)
    /\ ready' = TRUE

Next == Send \/ \E b \in Byte : Write(b)

Spec == Init /\ [][Next]_fifoVars
=============================================================================
