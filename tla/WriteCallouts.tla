--------------------------- MODULE WriteCallouts ----------------------------
(***************************************************************************)
(* The write callouts of avr_cpu/write_callout.c: functions that Data_Write*)
(* calls before it stores a byte, any of which may veto the store.  The    *)
(* list pstCallouts is a set here: no function depends on the others of a  *)
(* run, and none is ever in the list twice or taken out of it.             *)
(***************************************************************************)
EXTENDS Naturals

AnyAddress == 0               \* u16Addr zero: called for every store

Callout(function, addr) == [function |-> function, addr |-> addr]

WriteCallout_Add(callouts, function, addr) ==
    callouts \cup {Callout(function, addr)}

\* The functions called before a byte is stored at addr.
Called(callouts, addr) ==
    {c.function : c \in {d \in callouts : d.addr \in {addr, AnyAddress}}}

AnyAccepts(callouts, addr, vetoes) ==     \* mutant: one "true" is enough
    \/ Called(callouts, addr) = {}
    \/ \E f \in Called(callouts, addr) : f \notin vetoes

\* WriteCallout_Run: the store happens unless a function returned false.
\* `vetoes` are the functions that do.
WriteCallout_Run(callouts, addr, vetoes) ==
    Called(callouts, addr) \cap vetoes = {}
=============================================================================
