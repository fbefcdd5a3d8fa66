------------------------------ MODULE RunCycle ------------------------------
(***************************************************************************)
(* The skeleton of CPU_RunCycle (avr_cpu/avr_cpu.c): decode and execute    *)
(* one instruction, clock the peripherals once per cycle of it, then let   *)
(* AVR_Interrupt dispatch.  Decoding a JMP or a CALL clocks the            *)
(* peripherals too.  A component that runs under it EXTENDS this module,   *)
(* conjoins its own effect to each of the steps and says what the          *)
(* instruction does.                                                       *)
(***************************************************************************)
EXTENDS Integers

VARIABLES
    phase,         \* the part of CPU_RunCycle to run next; "jump" is the
                   \* execution of a JMP or CALL that has been decoded
    extraCycles,   \* stCPU.u16ExtraCycles: IO_Clock calls still to make
    cycleDebt      \* what u64CycleCount gained in this run cycle, less the
                   \* IO_Clock calls made in it

cycleVars == <<phase, extraCycles, cycleDebt>>

Phase == {"execute", "jump", "clock", "interrupt", "exited"}

CycleInit == phase = "execute" /\ extraCycles = 0 /\ cycleDebt = 0

\* Decoding a JMP or a CALL fetches its second word and calls IO_Clock, which
\* u64CycleCount does not count.
DecodeJump ==
    /\ phase = "execute"
    /\ phase' = "jump"
    /\ cycleDebt' = -1
    /\ UNCHANGED extraCycles

\* Execute the decoded instruction.  Its table entry and opcode function give
\* it c > 0 cycles; `counted` is what u64CycleCount advances by.
ExecuteInstruction(c, counted) ==
    /\ phase' = "clock"
    /\ extraCycles' = c
    /\ cycleDebt' = IF phase = "jump" THEN cycleDebt + counted ELSE counted

\* Fetch, decode and execute any instruction but a JMP or a CALL.
StartInstruction(c, counted) ==
    phase = "execute" /\ ExecuteInstruction(c, counted)

\* Execute the JMP or CALL that was decoded.
FinishJump(c) == phase = "jump" /\ ExecuteInstruction(c, c)

ClockOneLess ==                \* mutant: "while (--stCPU.u16ExtraCycles)"
    /\ phase = "clock"
    /\ phase' = IF extraCycles <= 2 THEN "interrupt" ELSE "clock"
    /\ extraCycles' = extraCycles - 1
    /\ cycleDebt' = cycleDebt - 1

\* One turn of "while (stCPU.u16ExtraCycles--)".
ClockCycle ==
    /\ phase = "clock"
    /\ phase' = IF extraCycles = 1 THEN "interrupt" ELSE "clock"
    /\ extraCycles' = extraCycles - 1
    /\ cycleDebt' = cycleDebt - 1

\* The end of CPU_RunCycle; emulator_loop calls it again.
EndCycle ==
    /\ phase = "interrupt"
    /\ phase' = "execute"
    /\ UNCHANGED <<extraCycles, cycleDebt>>

(***************************************************************************)
(* "Cycle-accurate peripheral clocking -- one iteration for each           *)
(* peripheral for each CPU cycle of the instruction" (avr_cpu.c:157): when *)
(* an instruction is over, the peripherals have seen every counted cycle.  *)
(* A decoded jump puts them one clock ahead of the count.                  *)
(***************************************************************************)
EveryCycleClocked == phase = "execute" => cycleDebt \in {-1, 0}
=============================================================================
