---------------------------- MODULE GdbStubProofs ---------------------------
(***************************************************************************)
(* No instruction runs past a reason to stop, and the target stops for no  *)
(* other reason, for any program size, any number of packets and break     *)
(* requests and under either debugger.                                     *)
(***************************************************************************)
EXTENDS GdbStub, TLAPS

Flag == [active : BOOLEAN, retrigger : BOOLEAN]

\* Only the interactive debugger has a command that sets a watchpoint: the
\* callout of the stub, which raises the other debugger's flag, never does.
LoopType ==
    /\ mode \in {"none", "debug", "gdb"}
    /\ loop \in {"check", "enter", "prompt", "store", "run", "exited"}
    /\ flags \in [{"interactive", "gdb"} -> Flag]
    /\ order \in {"step", "run"}
    /\ mode # "debug" => watchpoints = {}

Asked == Listener.active \/ Listener.retrigger

\* Where each reason to stop is held until the debugger is entered.
ReasonHeld ==
    Debugging =>
        /\ loop \in {"check", "enter"} => order = "run"
        /\ loop = "check" /\ cause # {} => Asked
        /\ loop = "enter" /\ (cause # {} \/ pc \in breakpoints) => Asked
        /\ loop \in {"store", "run"} => stopped \/ (cause = {} /\ pc \notin breakpoints)
        /\ loop \in {"store", "run"} /\ order = "step" => Asked
        /\ loop = "prompt" => stopped

LoopInv == LoopType /\ ReasonHeld

USE DEF Debugging

(***************************************************************************)
(* The emulator loop starts with no reason to stop.                        *)
(***************************************************************************)
LEMMA LoopInvInit == Init => LoopInv
  BY DEF Init, DebuggerInit, LoopInv, LoopType, Flag, ReasonHeld

(***************************************************************************)
(* The stub's own state does not matter to the loop.                       *)
(***************************************************************************)
LEMMA LoopInvFrame == LoopInv /\ UNCHANGED debuggerVars => LoopInv'
  BY DEF LoopInv, LoopType, Flag, ReasonHeld, Asked, Listener, debuggerVars, loopVars,
         historyVars

(***************************************************************************)
(* A break request or the packet reader that raises the stub's flag takes  *)
(* no request back.                                                        *)
(***************************************************************************)
LEMMA LoopInvGDBSet ==
    ASSUME LoopInv, flags' = GDB_Set(flags),
           UNCHANGED <<loopVars, loop, pc, breakpoints, watchpoints, historyVars>>
    PROVE  LoopInv'
  BY DEF LoopInv, LoopType, Flag, ReasonHeld, Asked, Listener, GDB_Set, loopVars, historyVars

(***************************************************************************)
(* What a command does at the prompt leaves the user asked.                *)
(***************************************************************************)
LEMMA LoopInvPrompt ==
    ASSUME LoopInv, loop = "prompt", UNCHANGED <<loopVars, flags, historyVars>>,
           loop' \in {"prompt", "exited"},
           mode # "debug" => UNCHANGED watchpoints
    PROVE  LoopInv'
  BY DEF LoopInv, LoopType, Flag, ReasonHeld, Asked, Listener, loopVars, historyVars

(***************************************************************************)
(* Continue and step resume from a stop; step keeps the debugger asked.    *)
(***************************************************************************)
LEMMA LoopInvResume ==
    ASSUME LoopInv, loop = "prompt", loop' = "store",
           flags' \in [{"interactive", "gdb"} -> Flag],
           order' \in {"step", "run"}, order' = "step" => Asked',
           UNCHANGED <<loopVars, pc, breakpoints, watchpoints, stopped, cause>>
    PROVE  LoopInv'
  BY DEF LoopInv, LoopType, ReasonHeld, loopVars

(***************************************************************************)
(* The steps of emulator_loop hand a reason to stop on to the debugger.    *)
(***************************************************************************)
LEMMA LoopInvEmulator == LoopInv /\ EmulatorLoop => LoopInv'
<1> SUFFICES ASSUME LoopInv, EmulatorLoop PROVE LoopInv'
    OBVIOUS
<1> USE DEF LoopInv, LoopType, Flag, ReasonHeld, Asked, Listener, loopVars, historyVars
<1>1. CASE CheckBreakpoint
      BY <1>1 DEF CheckBreakpoint, GDB_Set, Interactive_Set
<1>2. CASE PassThrough
      BY <1>2 DEF PassThrough
<1>3. CASE TraceBuffer_StoreFromCPU
      BY <1>3 DEF TraceBuffer_StoreFromCPU
<1>4. ASSUME NEW next \in Address, NEW store \in DataAddress \union {NoStore},
             RunCycle(next, store)
      PROVE  LoopInv'
      <2>1. CASE store \in watchpoints
            <3>1. mode = "debug"
                  BY <2>1
            <3>2. /\ LoopType'
                  /\ Listener'.active
                  BY <1>4, <2>1, <3>1 DEF RunCycle, Interactive_Set
            <3>   QED
                  BY <1>4, <3>2 DEF RunCycle
      <2>2. CASE store \notin watchpoints
            <3>1. LoopType' /\ flags' = flags /\ loop' = "check"
                  BY <1>4, <2>2 DEF RunCycle
            <3>2. cause' # {} => order = "step"
                  BY <1>4, <2>2 DEF RunCycle
            <3>   QED
                  BY <1>4, <3>1, <3>2 DEF RunCycle
      <2>   QED
            BY <2>1, <2>2
<1>5. CASE InteractiveStop
      BY <1>5 DEF InteractiveStop, Stop
<1>6. CASE GdbStop
      BY <1>6 DEF GdbStop, Stop
<1>   QED
      BY <1>1, <1>2, <1>3, <1>4, <1>5, <1>6 DEF EmulatorLoop, LoopStep

(***************************************************************************)
(* So do the commands of the interactive debugger.                         *)
(***************************************************************************)
LEMMA LoopInvInteractive == LoopInv /\ InteractiveCommand => LoopInv'
<1> SUFFICES ASSUME LoopInv, InteractiveCommand PROVE LoopInv'
    OBVIOUS
<1>1. CASE Interactive_Continue
      BY <1>1, LoopInvResume DEF Interactive_Continue, Command, LoopInv, LoopType, Flag
<1>2. CASE Interactive_Step
      <2>1. Asked' /\ flags' \in [{"interactive", "gdb"} -> Flag]
            BY <1>2 DEF Interactive_Step, Command, LoopInv, LoopType, Flag, Asked, Listener,
                        loopVars
      <2>   QED
            BY <1>2, <2>1, LoopInvResume DEF Interactive_Step, Command
<1>3. CASE Interactive_Quit
      BY <1>3, LoopInvPrompt DEF Interactive_Quit, Command
<1>4. CASE \E a \in Address : Interactive_Break(a)
      BY <1>4, LoopInvPrompt DEF Interactive_Break, Command
<1>5. CASE \E d \in DataAddress : Interactive_Watch(d)
      BY <1>5, LoopInvPrompt DEF Interactive_Watch, Command
<1>6. CASE \E start, end \in DataAddress : Interactive_WatchObj(start, end)
      BY <1>6, LoopInvPrompt DEF Interactive_WatchObj, Command
<1>   QED
      BY <1>1, <1>2, <1>3, <1>4, <1>5, <1>6 DEF InteractiveCommand

(***************************************************************************)
(* And the packets of the remote stub.                                     *)
(***************************************************************************)
LEMMA LoopInvStub == LoopInv /\ Stub => LoopInv'
<1> SUFFICES ASSUME LoopInv, Stub PROVE LoopInv'
    OBVIOUS
<1>1. CASE ReadHeader
      <2>1. CASE UNCHANGED flags
            BY <1>1, <2>1, LoopInvFrame DEF ReadHeader, debuggerVars
      <2>2. CASE flags' = GDB_Set(flags)
            BY <1>1, <2>2, LoopInvGDBSet DEF ReadHeader
      <2>   QED
            BY <1>1, <2>1, <2>2 DEF ReadHeader
<1>2. CASE ReadBody \/ OtherHandler \/ NoHandler
      BY <1>2, LoopInvFrame DEF ReadBody, OtherHandler, NoHandler
<1>3. CASE ReadClosed
      BY <1>3 DEF ReadClosed, Reading, LoopInv, LoopType, Flag, ReasonHeld, GDB_Set, loopVars,
                  historyVars
<1>4. CASE GDB_Handler_Continue
      BY <1>4, LoopInvResume
         DEF GDB_Handler_Continue, Dispatch, LoopInv, LoopType, Flag
<1>5. CASE GDB_Handler_Step
      <2>1. Asked' /\ flags' \in [{"interactive", "gdb"} -> Flag]
            BY <1>5 DEF GDB_Handler_Step, Dispatch, LoopInv, LoopType, Flag, Asked, Listener,
                        loopVars
      <2>   QED
            BY <1>5, <2>1, LoopInvResume DEF GDB_Handler_Step, Dispatch
<1>6. CASE GDB_Handler_SetBreakPoint \/ GDB_Handler_ClearBreakPoint
      BY <1>6, LoopInvPrompt
         DEF GDB_Handler_SetBreakPoint, GDB_Handler_ClearBreakPoint, Dispatch
<1>7. CASE GDB_Handler_WriteReg
      BY <1>7, LoopInvPrompt DEF GDB_Handler_WriteReg, Dispatch
<1>8. CASE GDB_Handler_Kill \/ SeparatorLost
      BY <1>8, LoopInvPrompt DEF GDB_Handler_Kill, SeparatorLost, Dispatch
<1>   QED
      BY <1>1, <1>2, <1>3, <1>4, <1>5, <1>6, <1>7, <1>8 DEF Stub

(***************************************************************************)
(* The thread beside the loop only ever raises the stub's flag.            *)
(***************************************************************************)
LEMMA LoopInvCatchIO == LoopInv /\ GDB_CatchIO => LoopInv'
<1> SUFFICES ASSUME LoopInv, GDB_CatchIO PROVE LoopInv'
    OBVIOUS
<1>1. CASE CatchTest \/ CatchSelect \/ CatchRecv
      BY <1>1, LoopInvFrame DEF CatchTest, CatchSelect, CatchRecv
<1>2. CASE CatchBreak
      BY <1>2, LoopInvGDBSet DEF CatchBreak
<1>   QED
      BY <1>1, <1>2 DEF GDB_CatchIO

(***************************************************************************)
(* No instruction runs past a breakpoint, a step or a watched store before *)
(* the debugger has been entered, whatever the packets, the lost bytes and *)
(* the timing of break requests (flavr.c:150, interactive.c:341,           *)
(* gdb_rsp.c:413 and 462).                                                 *)
(***************************************************************************)
THEOREM StopsBeforeRunning == Spec => []NoReasonOverrun
<1>1. LoopInv /\ [Next]_vars => LoopInv'
      <2> SUFFICES ASSUME LoopInv, [Next]_vars PROVE LoopInv'
          OBVIOUS
      <2>1. CASE EmulatorLoop
            BY <2>1, LoopInvEmulator
      <2>2. CASE InteractiveCommand
            BY <2>2, LoopInvInteractive
      <2>3. CASE Stub
            BY <2>3, LoopInvStub
      <2>4. CASE GDB_CatchIO
            BY <2>4, LoopInvCatchIO
      <2>5. CASE Client
            BY <2>5, LoopInvFrame DEF Client, SendPacket, SendBreak, GiveUp, Close
      <2>6. CASE UNCHANGED vars
            BY <2>6, LoopInvFrame DEF vars
      <2>   QED
            BY <2>1, <2>2, <2>3, <2>4, <2>5, <2>6 DEF Next
<1>2. LoopInv => NoReasonOverrun
      BY DEF LoopInv, ReasonHeld, NoReasonOverrun
<1>   QED
      BY <1>1, <1>2, LoopInvInit, PTL DEF Spec

----------------------------------------------------------------------------
(* The converse: what a raised flag stands for.                            *)

FlagHasReason ==
    /\ loop = "check" /\ Asked => cause # {} \/ breakRead
    /\ loop = "enter" /\ Asked => pc \in breakpoints \/ cause # {} \/ breakRead
    /\ loop \in {"store", "run"} /\ Asked => order = "step" \/ breakRead
    /\ catcher = "break" => breakRead
    /\ mode # "gdb" => catcher = "none"

ReasonInv == LoopType /\ FlagHasReason

(***************************************************************************)
(* No flag is raised at the start.                                         *)
(***************************************************************************)
LEMMA ReasonInvInit == Init => ReasonInv
  BY DEF Init, DebuggerInit, ReasonInv, LoopType, Flag, FlagHasReason, Asked, Listener

(***************************************************************************)
(* Bytes, packets and what GDB waits for raise no flag.                    *)
(***************************************************************************)
LEMMA ReasonInvFrame ==
    ReasonInv /\ UNCHANGED <<debuggerVars, catcher, breakRead>> => ReasonInv'
  BY DEF ReasonInv, LoopType, Flag, FlagHasReason, Asked, Listener, debuggerVars, loopVars,
         historyVars

(***************************************************************************)
(* At the prompt the flags may be raised for any reason.                   *)
(***************************************************************************)
LEMMA ReasonInvPrompt ==
    ASSUME ReasonInv, loop' \in {"prompt", "exited"},
           flags' \in [{"interactive", "gdb"} -> Flag],
           UNCHANGED <<loopVars, order, catcher, breakRead>>,
           mode # "debug" => UNCHANGED watchpoints
    PROVE  ReasonInv'
  BY DEF ReasonInv, LoopType, FlagHasReason, loopVars

(***************************************************************************)
(* Resuming keeps a flag raised for a step only.                           *)
(***************************************************************************)
LEMMA ReasonInvResume ==
    ASSUME ReasonInv, loop' = "store",
           flags' \in [{"interactive", "gdb"} -> Flag],
           order' \in {"step", "run"}, Asked' => order' = "step",
           UNCHANGED <<loopVars, watchpoints, catcher>>,
           catcher = "break" => breakRead'
    PROVE  ReasonInv'
  BY DEF ReasonInv, LoopType, FlagHasReason, loopVars

(***************************************************************************)
(* The steps of emulator_loop raise a flag for a breakpoint or a watched   *)
(* store and leave it to be seen before the next run cycle.                *)
(***************************************************************************)
LEMMA ReasonInvEmulator == ReasonInv /\ EmulatorLoop => ReasonInv'
<1> SUFFICES ASSUME ReasonInv, EmulatorLoop PROVE ReasonInv'
    OBVIOUS
<1> USE DEF ReasonInv, LoopType, Flag, FlagHasReason, Asked, Listener, loopVars, historyVars,
            stubVars
<1>1. CASE CheckBreakpoint /\ UNCHANGED stubVars
      BY <1>1 DEF CheckBreakpoint, GDB_Set, Interactive_Set
<1>2. CASE PassThrough /\ UNCHANGED stubVars
      BY <1>2 DEF PassThrough
<1>3. CASE TraceBuffer_StoreFromCPU /\ UNCHANGED stubVars
      BY <1>3 DEF TraceBuffer_StoreFromCPU
<1>4. ASSUME NEW next \in Address, NEW store \in DataAddress \union {NoStore},
             RunCycle(next, store), UNCHANGED stubVars
      PROVE  ReasonInv'
      <2>1. CASE store \in watchpoints
            <3>1. mode = "debug"
                  BY <2>1
            <3>2. LoopType' /\ cause' # {} /\ loop' = "check"
                  BY <1>4, <2>1, <3>1 DEF RunCycle, Interactive_Set
            <3>   QED
                  BY <1>4, <3>2 DEF RunCycle
      <2>2. CASE store \notin watchpoints
            <3>1. LoopType' /\ loop' = "check" /\ UNCHANGED <<mode, flags>>
                  BY <1>4, <2>2 DEF RunCycle
            <3>2. order = "step" => cause' # {}
                  BY <1>4 DEF RunCycle
            <3>   QED
                  BY <1>4, <3>1, <3>2 DEF RunCycle
      <2>   QED
            BY <2>1, <2>2
<1>5. CASE InteractiveStop
      <2>1. flags' \in [{"interactive", "gdb"} -> Flag]
            BY <1>5 DEF InteractiveStop, Stop
      <2>   QED
            BY <1>5, <2>1, ReasonInvPrompt DEF InteractiveStop, Stop
<1>6. CASE GdbStop
      <2>1. flags' \in [{"interactive", "gdb"} -> Flag]
            BY <1>6 DEF GdbStop, Stop
      <2>   QED
            BY <1>6, <2>1, ReasonInvPrompt DEF GdbStop, Stop
<1>   QED
      BY <1>1, <1>2, <1>3, <1>4, <1>5, <1>6 DEF EmulatorLoop, LoopStep

(***************************************************************************)
(* The commands of the interactive debugger.                               *)
(***************************************************************************)
LEMMA ReasonInvInteractive ==
    ReasonInv /\ InteractiveCommand /\ UNCHANGED stubVars => ReasonInv'
<1> SUFFICES ASSUME ReasonInv, InteractiveCommand, UNCHANGED stubVars PROVE ReasonInv'
    OBVIOUS
<1> USE DEF Command, stubVars
<1>1. CASE Interactive_Continue
      <2>1. ~Asked' /\ flags' \in [{"interactive", "gdb"} -> Flag]
            BY <1>1 DEF Interactive_Continue, ReasonInv, LoopType, Flag, Asked, Listener,
                        loopVars
      <2>2. catcher = "none"
            BY <1>1 DEF Interactive_Continue, ReasonInv, FlagHasReason
      <2>   QED
            BY <1>1, <2>1, <2>2, ReasonInvResume DEF Interactive_Continue
<1>2. CASE Interactive_Step
      <2>1. flags' \in [{"interactive", "gdb"} -> Flag]
            BY <1>2 DEF Interactive_Step, ReasonInv, LoopType, Flag
      <2>2. catcher = "none"
            BY <1>2 DEF Interactive_Step, ReasonInv, FlagHasReason
      <2>   QED
            BY <1>2, <2>1, <2>2, ReasonInvResume DEF Interactive_Step
<1>3. CASE \/ Interactive_Quit
           \/ \E a \in Address : Interactive_Break(a)
           \/ \E d \in DataAddress : Interactive_Watch(d)
           \/ \E start, end \in DataAddress : Interactive_WatchObj(start, end)
      BY <1>3, ReasonInvPrompt
         DEF Interactive_Quit, Interactive_Break, Interactive_Watch, Interactive_WatchObj,
             historyVars, ReasonInv, LoopType
<1>   QED
      BY <1>1, <1>2, <1>3 DEF InteractiveCommand

(***************************************************************************)
(* The packets of the remote stub.                                         *)
(***************************************************************************)
LEMMA ReasonInvStub == ReasonInv /\ Stub => ReasonInv'
<1> SUFFICES ASSUME ReasonInv, Stub PROVE ReasonInv'
    OBVIOUS
<1> USE DEF Dispatch, Reading, historyVars
<1>1. CASE ReadHeader \/ ReadClosed
      <2>1. flags' \in [{"interactive", "gdb"} -> Flag]
            BY <1>1 DEF ReadHeader, ReadClosed, GDB_Set, ReasonInv, LoopType, Flag
      <2>   QED
            BY <1>1, <2>1, ReasonInvPrompt DEF ReadHeader, ReadClosed, stubVars
<1>2. CASE ReadBody \/ OtherHandler \/ NoHandler
      BY <1>2, ReasonInvFrame DEF ReadBody, OtherHandler, NoHandler
<1>3. CASE GDB_Handler_Continue
      <2>1. ~Asked' /\ flags' \in [{"interactive", "gdb"} -> Flag]
            BY <1>3 DEF GDB_Handler_Continue, ReasonInv, LoopType, Flag, Asked, Listener,
                        loopVars
      <2>   QED
            BY <1>3, <2>1, ReasonInvResume DEF GDB_Handler_Continue, Resumed
<1>4. CASE GDB_Handler_Step
      <2>1. flags' \in [{"interactive", "gdb"} -> Flag]
            BY <1>4 DEF GDB_Handler_Step, ReasonInv, LoopType, Flag
      <2>   QED
            BY <1>4, <2>1, ReasonInvResume DEF GDB_Handler_Step, Resumed
<1>5. CASE \/ GDB_Handler_SetBreakPoint \/ GDB_Handler_ClearBreakPoint
           \/ GDB_Handler_WriteReg \/ GDB_Handler_Kill \/ SeparatorLost
      BY <1>5, ReasonInvPrompt
         DEF GDB_Handler_SetBreakPoint, GDB_Handler_ClearBreakPoint, GDB_Handler_WriteReg,
             GDB_Handler_Kill, SeparatorLost, stubVars, ReasonInv, LoopType
<1>   QED
      BY <1>1, <1>2, <1>3, <1>4, <1>5 DEF Stub

(***************************************************************************)
(* The thread raises the stub's flag for a break request it has read.      *)
(***************************************************************************)
LEMMA ReasonInvCatchIO == ReasonInv /\ GDB_CatchIO => ReasonInv'
<1> SUFFICES ASSUME ReasonInv, GDB_CatchIO PROVE ReasonInv'
    OBVIOUS
<1>1. mode = "gdb"
      BY DEF ReasonInv, FlagHasReason, GDB_CatchIO, CatchTest, CatchSelect, CatchRecv,
             CatchBreak
<1>2. CASE CatchTest \/ CatchSelect \/ CatchRecv
      BY <1>1, <1>2 DEF CatchTest, CatchSelect, CatchRecv, ReasonInv, LoopType, Flag,
             FlagHasReason, Asked, Listener, debuggerVars, loopVars, historyVars
<1>3. CASE CatchBreak
      BY <1>1, <1>3 DEF CatchBreak, GDB_Set, ReasonInv, LoopType, Flag, FlagHasReason,
             loopVars, historyVars
<1>   QED
      BY <1>2, <1>3 DEF GDB_CatchIO

(***************************************************************************)
(* The target stops only at a breakpoint, after a step or a watched store, *)
(* or for a break request read since it was last resumed                   *)
(* (interactive.c:341-364, gdb_rsp.c:413, 462 and 962).                    *)
(***************************************************************************)
THEOREM StopsForAReason == Spec => NoStopUnasked
<1>1. ReasonInv /\ [Next]_vars => ReasonInv'
      <2> SUFFICES ASSUME ReasonInv, [Next]_vars PROVE ReasonInv'
          OBVIOUS
      <2>1. CASE EmulatorLoop
            BY <2>1, ReasonInvEmulator
      <2>2. CASE InteractiveCommand /\ UNCHANGED stubVars
            BY <2>2, ReasonInvInteractive
      <2>3. CASE Stub
            BY <2>3, ReasonInvStub
      <2>4. CASE GDB_CatchIO
            BY <2>4, ReasonInvCatchIO
      <2>5. CASE Client
            BY <2>5, ReasonInvFrame DEF Client, SendPacket, SendBreak, GiveUp, Close
      <2>6. CASE UNCHANGED vars
            BY <2>6, ReasonInvFrame DEF vars, stubVars
      <2>   QED
            BY <2>1, <2>2, <2>3, <2>4, <2>5, <2>6 DEF Next
<1>2. ReasonInv /\ [Next]_vars =>
          [loop = "enter" /\ loop' = "prompt" =>
              pc \in breakpoints \/ cause # {} \/ breakRead]_vars
      <2> SUFFICES ASSUME ReasonInv, Next, loop = "enter", loop' = "prompt"
                   PROVE  pc \in breakpoints \/ cause # {} \/ breakRead
          OBVIOUS
      <2>1. EmulatorLoop
            BY DEF Next, InteractiveCommand, Interactive_Continue, Interactive_Step,
               Interactive_Break, Interactive_Watch, Interactive_WatchObj, Interactive_Quit,
               Command, Stub, ReadHeader, ReadBody, ReadClosed, Reading,
               GDB_Handler_Continue, GDB_Handler_Step, GDB_Handler_SetBreakPoint,
               GDB_Handler_ClearBreakPoint, GDB_Handler_WriteReg, OtherHandler,
               GDB_Handler_Kill, SeparatorLost, NoHandler, Dispatch, GDB_CatchIO, CatchTest,
               CatchSelect, CatchRecv, CatchBreak, Client, SendPacket, SendBreak, GiveUp,
               Close, debuggerVars
      <2>2. InteractiveStop \/ GdbStop
            BY <2>1 DEF EmulatorLoop, LoopStep, CheckBreakpoint, PassThrough,
               TraceBuffer_StoreFromCPU, RunCycle
      <2>3. Asked
            BY <2>2 DEF InteractiveStop, GdbStop, Stop, Asked, Listener
      <2>   QED
            BY <2>3 DEF ReasonInv, FlagHasReason
<1>   QED
      BY <1>1, <1>2, ReasonInvInit, PTL DEF Spec, NoStopUnasked

----------------------------------------------------------------------------
(* The trace ring, which the interactive debugger has alone.               *)

Slot == 0 .. TraceSize - 1

\* The k-th element printed, and the k-th of the run cycles remembered.
Printed(k) ==
    trace[IF index + k <= TraceSize THEN index + k - 1 ELSE index + k - 1 - TraceSize]

Remembered(k) ==
    IF k <= TraceSize - Len(ran) THEN 0 ELSE ran[k - (TraceSize - Len(ran))]

TraceTypes ==
    /\ mode = "debug"
    /\ pc \in Address
    /\ trace \in [Slot -> Address]
    /\ index \in Slot
    /\ ran \in Seq(Address) /\ Len(ran) <= TraceSize

\* Between the store and the run cycle it is about, the ring is one ahead.
TraceFollows ==
    /\ loop # "run" => \A k \in 1 .. TraceSize : Printed(k) = Remembered(k)
    /\ loop = "run" =>
           /\ Printed(TraceSize) = pc
           /\ \A k \in 1 .. TraceSize - 1 : Printed(k) = Remembered(k + 1)

TraceInv == useTrace => TraceTypes /\ TraceFollows

\* What the other steps leave alone.
TraceFrame ==
    /\ UNCHANGED <<loopVars, traceVars, ran>>
    /\ UNCHANGED pc \/ mode = "gdb"
    /\ UNCHANGED loop \/ (loop # "run" /\ loop' # "run")

(***************************************************************************)
(* Only a store and a run cycle touch the ring or its history.             *)
(***************************************************************************)
LEMMA TraceSteps ==
    ASSUME [Next]_vars
    PROVE  \/ TraceFrame
           \/ TraceBuffer_StoreFromCPU
           \/ \E next \in Address, store \in DataAddress \union {NoStore} :
                  RunCycle(next, store)
<1> USE DEF TraceFrame
<1>1. CASE CheckBreakpoint \/ PassThrough
      BY <1>1 DEF CheckBreakpoint, PassThrough, historyVars
<1>2. CASE InteractiveStop \/ GdbStop
      BY <1>2 DEF InteractiveStop, GdbStop, Stop
<1>3. CASE InteractiveCommand
      BY <1>3 DEF InteractiveCommand, Command, Interactive_Continue, Interactive_Step,
                  Interactive_Quit, Interactive_Break, Interactive_Watch,
                  Interactive_WatchObj, historyVars
<1>4. CASE Stub
      <2>1. CASE ReadHeader \/ ReadBody \/ ReadClosed
            BY <2>1 DEF ReadHeader, ReadBody, ReadClosed, Reading, debuggerVars, historyVars
      <2>2. CASE GDB_Handler_Continue \/ GDB_Handler_Step
            BY <2>2 DEF GDB_Handler_Continue, GDB_Handler_Step, Dispatch
      <2>3. CASE GDB_Handler_SetBreakPoint \/ GDB_Handler_ClearBreakPoint \/ OtherHandler
            BY <2>3 DEF GDB_Handler_SetBreakPoint, GDB_Handler_ClearBreakPoint, OtherHandler,
                        debuggerVars, historyVars
      <2>4. CASE GDB_Handler_WriteReg
            BY <2>4 DEF GDB_Handler_WriteReg, Dispatch, historyVars
      <2>5. CASE GDB_Handler_Kill \/ SeparatorLost \/ NoHandler
            BY <2>5 DEF GDB_Handler_Kill, SeparatorLost, NoHandler, Dispatch, debuggerVars,
                        historyVars
      <2>   QED
            BY <1>4, <2>1, <2>2, <2>3, <2>4, <2>5 DEF Stub
<1>5. CASE GDB_CatchIO
      BY <1>5 DEF GDB_CatchIO, CatchTest, CatchSelect, CatchRecv, CatchBreak, debuggerVars,
                  historyVars
<1>6. CASE Client
      BY <1>6 DEF Client, SendPacket, SendBreak, GiveUp, Close, debuggerVars, historyVars
<1>7. CASE UNCHANGED vars
      BY <1>7 DEF vars, debuggerVars, historyVars
<1>   QED
      BY <1>1, <1>2, <1>3, <1>4, <1>5, <1>6, <1>7 DEF Next, EmulatorLoop, LoopStep

(***************************************************************************)
(* A store overwrites the oldest element, which is then printed last.      *)
(***************************************************************************)
LEMMA StoreAdvances ==
    ASSUME TraceInv, TraceBuffer_StoreFromCPU
    PROVE  TraceInv'
<1> SUFFICES ASSUME useTrace' PROVE TraceTypes' /\ TraceFollows'
    BY DEF TraceInv
<1>1. /\ useTrace /\ loop = "store" /\ loop' = "run"
      /\ trace' = [trace EXCEPT ![index] = pc]
      /\ index' = IF index + 1 >= TraceSize THEN 0 ELSE index + 1
      /\ UNCHANGED <<mode, pc, ran>>
      BY DEF TraceBuffer_StoreFromCPU, loopVars, historyVars
<1>2. /\ TraceTypes
      /\ \A k \in 1 .. TraceSize : Printed(k) = Remembered(k)
      BY <1>1 DEF TraceInv, TraceFollows
<1>3. TraceSize \in Nat \ {0}
      BY DebuggerAssumption
<1>4. TraceTypes'
      BY <1>1, <1>2, <1>3 DEF TraceTypes, Slot
<1>5. Printed(TraceSize)' = pc'
      BY <1>1, <1>2, <1>3 DEF TraceTypes, Slot, Printed
<1>6. ASSUME NEW k \in 1 .. TraceSize - 1
      PROVE  Printed(k)' = Remembered(k + 1)'
      <2>1. Printed(k)' = Printed(k + 1)
            BY <1>1, <1>2, <1>3 DEF TraceTypes, Slot, Printed
      <2>2. Remembered(k + 1)' = Remembered(k + 1)
            BY <1>1 DEF Remembered
      <2>   QED
            BY <1>2, <1>3, <2>1, <2>2
<1>   QED
      BY <1>1, <1>4, <1>5, <1>6 DEF TraceFollows

(***************************************************************************)
(* And a run cycle is remembered where the ring has it already.            *)
(***************************************************************************)
LEMMA RunFollows ==
    ASSUME TraceInv, NEW next \in Address, NEW store, RunCycle(next, store)
    PROVE  TraceInv'
<1> SUFFICES ASSUME useTrace' PROVE TraceTypes' /\ TraceFollows'
    BY DEF TraceInv
<1>1. /\ useTrace /\ loop = "run" /\ loop' = "check" /\ pc' = next
      /\ ran' = LastRan(Append(ran, pc))
      /\ UNCHANGED <<mode, trace, index>>
      BY DEF RunCycle, loopVars, traceVars
<1>2. /\ TraceTypes
      /\ Printed(TraceSize) = pc
      /\ \A k \in 1 .. TraceSize - 1 : Printed(k) = Remembered(k + 1)
      BY <1>1 DEF TraceInv, TraceFollows
<1>3. TraceSize \in Nat \ {0}
      BY DebuggerAssumption
<1> DEFINE longer == Append(ran, pc)
<1>4. /\ longer \in Seq(Address) /\ Len(longer) = Len(ran) + 1
      /\ longer[Len(ran) + 1] = pc
      /\ \A i \in 1 .. Len(ran) : longer[i] = ran[i]
      BY <1>2 DEF TraceTypes
<1>5. /\ ran' \in Seq(Address) /\ Len(ran') <= TraceSize
      /\ \A k \in 1 .. TraceSize - 1 : Remembered(k)' = Remembered(k + 1)
      /\ Remembered(TraceSize)' = pc
      <2>1. Len(ran) \in Nat /\ Len(ran) <= TraceSize
            BY <1>2 DEF TraceTypes
      <2>2. CASE Len(ran) < TraceSize
            <3>1. ran' = longer
                  BY <1>1, <1>3, <1>4, <2>1, <2>2 DEF LastRan
            <3>   HIDE DEF longer
            <3>   QED
                  BY <1>3, <1>4, <2>1, <2>2, <3>1 DEF Remembered
      <2>3. CASE Len(ran) = TraceSize
            <3>1. ran' = Tail(longer)
                  BY <1>1, <1>3, <1>4, <2>1, <2>3 DEF LastRan
            <3>   HIDE DEF longer
            <3>2. /\ ran' \in Seq(Address) /\ Len(ran') = TraceSize
                  /\ \A i \in 1 .. TraceSize : ran'[i] = longer[i + 1]
                  BY <1>3, <1>4, <2>1, <2>3, <3>1
            <3>   QED
                  BY <1>3, <1>4, <2>1, <2>3, <3>2 DEF Remembered
      <2>   QED
            BY <2>1, <2>2, <2>3, <1>3
<1>6. TraceTypes'
      BY <1>1, <1>2, <1>5 DEF TraceTypes
<1>7. \A k \in 1 .. TraceSize : Printed(k)' = Printed(k)
      BY <1>1 DEF Printed
<1>8. ASSUME NEW k \in 1 .. TraceSize
      PROVE  Printed(k)' = Remembered(k)'
      <2>1. k = TraceSize \/ k \in 1 .. TraceSize - 1
            BY <1>3
      <2>   QED
            BY <1>2, <1>5, <1>7, <2>1
<1>   QED
      BY <1>1, <1>6, <1>8 DEF TraceFollows

LEMMA TraceInvariant == Spec => []TraceInv
<1>1. Init => TraceInv
      <2> SUFFICES ASSUME Init, useTrace PROVE TraceTypes /\ TraceFollows
          BY DEF TraceInv
      <2>1. TraceSize \in Nat \ {0} /\ 0 \in Address
            BY DebuggerAssumption DEF Address
      <2>2. /\ mode = "debug" /\ pc = 0 /\ loop = "check"
            /\ trace = [i \in Slot |-> 0] /\ index = 0 /\ ran = <<>>
            BY DEF Init, DebuggerInit, Slot
      <2>3. TraceTypes
            BY <2>1, <2>2 DEF TraceTypes, Slot
      <2>4. \A k \in 1 .. TraceSize : Printed(k) = 0 /\ Remembered(k) = 0
            BY <2>1, <2>2 DEF Printed, Remembered, Slot
      <2>   QED
            BY <2>2, <2>3, <2>4 DEF TraceFollows
<1>2. TraceInv /\ [Next]_vars => TraceInv'
      <2> SUFFICES ASSUME TraceInv, [Next]_vars PROVE TraceInv'
          OBVIOUS
      <2>1. CASE TraceFrame
            <3> SUFFICES ASSUME useTrace' PROVE TraceTypes' /\ TraceFollows'
                BY DEF TraceInv
            <3>1. /\ useTrace /\ UNCHANGED <<mode, trace, index, ran>>
                  BY <2>1 DEF TraceFrame, loopVars, traceVars
            <3>2. TraceTypes /\ TraceFollows /\ mode = "debug"
                  BY <3>1 DEF TraceInv, TraceTypes
            <3>3. pc' = pc
                  BY <2>1, <3>2 DEF TraceFrame
            <3>   QED
                  BY <2>1, <3>1, <3>2, <3>3
                     DEF TraceFrame, TraceTypes, TraceFollows, Printed, Remembered
      <2>2. CASE TraceBuffer_StoreFromCPU
            BY <2>2, StoreAdvances
      <2>3. CASE \E next \in Address, store \in DataAddress \union {NoStore} :
                     RunCycle(next, store)
            BY <2>3, RunFollows
      <2>   QED
            BY <2>1, <2>2, <2>3, TraceSteps
<1>   QED
      BY <1>1, <1>2, PTL DEF Spec

(***************************************************************************)
(* The trace command prints the last TraceSize run cycles in order, for a  *)
(* ring and a program of any size (trace_buffer.c:41 and 120).             *)
(***************************************************************************)
THEOREM TraceCorrect == Spec => []TraceIsHistory
<1>1. TraceInv => TraceIsHistory
      <2> SUFFICES ASSUME TraceInv, loop = "prompt", useTrace
                   PROVE  TraceBuffer_Print =
                              [i \in 1 .. TraceSize - Len(ran) |-> 0] \o ran
          BY DEF TraceIsHistory
      <2> DEFINE older == [i \in 1 .. TraceSize - index |-> trace[index + i - 1]]
                 newer == [i \in 1 .. index |-> trace[i - 1]]
                 blank == [i \in 1 .. TraceSize - Len(ran) |-> 0]
                 pages == older \o newer
                 past  == blank \o ran
      <2>1. TraceTypes /\ TraceSize \in Nat \ {0}
            /\ \A k \in 1 .. TraceSize : Printed(k) = Remembered(k)
            BY DebuggerAssumption DEF TraceInv, TraceFollows
      <2>2. 0 \in Address /\ index \in Nat /\ index < TraceSize
            /\ Len(ran) \in Nat /\ Len(ran) <= TraceSize
            BY <2>1, DebuggerAssumption DEF TraceTypes, Slot, Address
      <2>3. older \in Seq(Address) /\ Len(older) = TraceSize - index
            BY <2>1, <2>2 DEF TraceTypes, Slot
      <2>4. newer \in Seq(Address) /\ Len(newer) = index
            BY <2>1, <2>2 DEF TraceTypes, Slot
      <2>5. blank \in Seq(Address) /\ Len(blank) = TraceSize - Len(ran)
            BY <2>1, <2>2
      <2>6. /\ pages \in Seq(Address) /\ Len(pages) = TraceSize
            /\ \A k \in 1 .. TraceSize : pages[k] = Printed(k)
            <3>1. \A i \in 1 .. TraceSize - index : older[i] = trace[index + i - 1]
                  OBVIOUS
            <3>2. \A i \in 1 .. index : newer[i] = trace[i - 1]
                  OBVIOUS
            <3>   HIDE DEF older, newer
            <3>   QED
                  BY <2>1, <2>2, <2>3, <2>4, <3>1, <3>2 DEF Printed
      <2>7. /\ past \in Seq(Address) /\ Len(past) = TraceSize
            /\ \A k \in 1 .. TraceSize : past[k] = Remembered(k)
            <3>1. \A i \in 1 .. TraceSize - Len(ran) : blank[i] = 0
                  OBVIOUS
            <3>   HIDE DEF blank
            <3>   QED
                  BY <2>1, <2>2, <2>5, <3>1 DEF TraceTypes, Remembered
      <2>8. pages = past
            <3>   HIDE DEF pages, past
            <3>   QED
                  BY <2>1, <2>6, <2>7
      <2>   QED
            BY <2>8 DEF TraceBuffer_Print
<1>   QED
      BY <1>1, TraceInvariant, PTL
=============================================================================
