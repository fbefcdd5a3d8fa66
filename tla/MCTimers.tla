------------------------------ MODULE MCTimers ------------------------------
(***************************************************************************)
(* Both timers with counters of two bits, so that they count to 3 (the     *)
(* 16-bit one in one-bit bytes), prescalers of one and two, the modes that *)
(* count and one that does not, and no vectors for compare match B and     *)
(* capture.  The program uses one of the timers.                           *)
(***************************************************************************)
EXTENDS Timers

MCVec == [s \in Source |->
             CASE s = "OCF1A" -> 0 [] s = "TOV1" -> 1 [] OTHER -> NoVector]
MCVec0 == [s \in Source0 |->
             CASE s = "OCF0A" -> 2 [] s = "TOV0" -> 3 [] OTHER -> NoVector]

MCModes == {{}, {"WGM12"}, {"WGM10"}}
MCModes0 == {{}, {"WGM01"}, {"WGM00", "WGM01"}, {"WGM02"}}

Untouched  == counterVars = <<0, [r \in Matches |-> 0], 0, {}, "OFF", 0, 0>>
                 /\ tifr = {} /\ timsk = {}
Untouched0 == counterVars0 = <<0, 0, {}, "OFF", 0, 0>> /\ tifr0 = {} /\ timsk0 = {}

OneTimer == Untouched \/ Untouched0

MCNext == TimersNext /\ OneTimer'

MCSpec == TimersInit /\ [][MCNext]_timersVars /\ ClockFairness
=============================================================================
