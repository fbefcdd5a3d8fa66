------------------------------- MODULE Timers -------------------------------
(***************************************************************************)
(* The 16-bit and the 8-bit timer on one interrupt controller.  IO_Clock   *)
(* clocks one after the other and nothing looks at the timers in between,  *)
(* so each clock is a step of its own here.                                *)
(***************************************************************************)
EXTENDS Timer16, Timer8

ASSUME TimersAssumption ==
    \A s \in Source, t \in Source0 : Vec[s] = Vec0[t] => Vec[s] = NoVector

timersVars == <<irq, timer16Vars, timer8Vars>>

TimersInit == Timer16_Init /\ Timer8_Init

\* AVR_Interrupt calls the callback registered for the vector it dispatches.
Dispatch == AVR_Interrupt /\ Timer8_Ack

Timer16Step == (ProgramStep \/ Timer16_Clock) /\ UNCHANGED timer8Vars

Timer8Step ==
    /\ ProgramStep0 \/ Timer8_Clock
    /\ UNCHANGED timer16Vars

TimersNext == Timer16Step \/ Timer8Step \/ Dispatch

TimersSpec == TimersInit /\ [][TimersNext]_timersVars

\* IO_Clock calls both clock functions once per CPU cycle for ever.
ClockFairness ==
    /\ WF_timersVars(Timer16_Clock /\ UNCHANGED timer8Vars)
    /\ WF_timersVars(Timer8_Clock /\ UNCHANGED timer16Vars)

----------------------------------------------------------------------------
\* As RequestsMatchFlags, for the 8-bit timer: whatever the other timer and the
\* program do, an enabled source is requested exactly while its flag is up.
Requests0MatchFlags ==
    \A s \in timsk0 :
        Vec0[s] # NoVector => (Vec0[s] \in irq.flags <=> s \in tifr0)

\* A source that is masked gets no request, neither from its own timer nor by
\* the bookkeeping of the other; one it has already may still be dispatched, but
\* only once.
MaskedStaysQuiet ==
    [][/\ \A s \in Source \ timsk' : Vec[s] \in irq'.flags => Vec[s] \in irq.flags
       /\ \A s \in Source0 \ timsk0' : Vec0[s] \in irq'.flags => Vec0[s] \in irq.flags
      ]_timersVars

\* The 8-bit timer left running in a mode that counts raises a flag again and
\* again: it finds its match or its overflow whatever the program stored.
KeepsFiring0 ==
    <>[][Timer8_Clock \/ Dispatch]_timer8Vars
        /\ <>[](eClockSource0 = "DIV" /\ Counting0)
        => []<>raised0
=============================================================================
