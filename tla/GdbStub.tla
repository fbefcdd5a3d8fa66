------------------------------ MODULE GdbStub -------------------------------
(***************************************************************************)
(* The remote stub of debug/gdb_rsp.c under emulator_loop: the packet      *)
(* reader that runs while the target is stopped, the thread that watches   *)
(* the socket for a break request while it runs, and both debuggers' way   *)
(* into a stop.                                                            *)
(*                                                                         *)
(* The socket to the stub is a sequence of bytes; a packet is "$", its     *)
(* command, for Z, z and P an address, "#" and two digits of checksum.     *)
(* What the stub sends reaches GDB at once.  GDB, which is external, sends a    *)
(* packet when it believes the target has stopped, acknowledges what it    *)
(* gets, gives up waiting for an acknowledgement or a reply at any time,   *)
(* sends a break request while it believes the target runs, and may close. *)
(***************************************************************************)
EXTENDS Debugger

CONSTANTS
    MaxPackets,    \* bound: packets GDB sends
    MaxBreaks      \* bound: break requests GDB sends

ASSUME GdbStubAssumption == MaxPackets \in Nat /\ MaxBreaks \in Nat

VARIABLES
    bStepping,     \* a step was asked for and its stop is not reported yet
    broken,        \* break_count is not 0
    rx,            \* where GDB_Execute_i is in the packet
    szCmdBuf,      \* the first two bytes of the packet
    catcher,       \* what the thread GDB_CatchIO does next
    toStub,        \* the bytes on their way to the stub
    client,        \* what GDB waits for
    sent,          \* packets GDB has sent
    breaks,        \* break requests GDB has sent
    breakRead      \* history: the thread took a break request since the target
                   \* was last resumed, or had one in hand then

readerVars == <<bStepping, broken, rx, szCmdBuf>>
clientVars == <<toStub, client>>
boundVars  == <<sent, breaks>>
stubVars   == <<readerVars, catcher, clientVars, boundVars, breakRead>>
vars       == <<debuggerVars, stubVars>>

Byte(k) == [kind |-> k, addr |-> 0]
AddressByte(a) == [kind |-> "address", addr |-> a]

Commands ==
    {<<Byte(k)>> : k \in {"c", "s", "q", "k"}}
        \union {<<Byte(k), AddressByte(a)>> : k \in {"Z", "z", "P"}, a \in Address}

Packet(c) == <<Byte("$")>> \o c \o <<Byte("#"), Byte("digit"), Byte("digit")>>

Init ==
    /\ DebuggerInit
    /\ bStepping = FALSE
    /\ broken = FALSE
    /\ rx = "start"
    /\ szCmdBuf = <<>>
    /\ catcher = IF mode = "gdb" THEN "test" ELSE "none"
    /\ toStub = <<>>
    /\ client = IF mode = "gdb" THEN "idle" ELSE "gone"
    /\ sent = 0
    /\ breaks = 0
    /\ breakRead = FALSE

----------------------------------------------------------------------------
(* GDB                                                                     *)

SendPacket(c) ==
    /\ loop # "exited"
    /\ client = "idle"
    /\ sent < MaxPackets
    /\ sent' = sent + 1
    /\ toStub' = toStub \o Packet(c)
    /\ client' = IF c[1].kind \in {"c", "s"} THEN "ackResume" ELSE "ackQuery"
    /\ UNCHANGED <<debuggerVars, readerVars, catcher, breaks, breakRead>>

SendBreak ==
    /\ loop # "exited"
    /\ client = "stop"
    /\ breaks < MaxBreaks
    /\ breaks' = breaks + 1
    /\ toStub' = Append(toStub, Byte("break"))
    /\ UNCHANGED <<debuggerVars, readerVars, catcher, client, sent, breakRead>>

GiveUp ==
    /\ loop # "exited"
    /\ client \in {"ackQuery", "ackResume", "reply"}
    /\ client' = "idle"
    /\ UNCHANGED <<debuggerVars, readerVars, catcher, toStub, boundVars, breakRead>>

Close ==
    /\ loop # "exited"
    /\ mode = "gdb" /\ client # "gone"
    /\ client' = "gone"
    /\ UNCHANGED <<debuggerVars, readerVars, catcher, toStub, boundVars, breakRead>>

Client == SendBreak \/ GiveUp \/ Close \/ \E c \in Commands : SendPacket(c)

\* GDB gets "+", and what it gets a packet for: it answers a packet with "+".
Acknowledged ==
    client' = CASE client = "ackQuery" -> "reply"
                [] client = "ackResume" -> "stop"
                [] OTHER -> client

GetsPacket(awaited) ==
    /\ client' = IF client = awaited THEN "idle" ELSE client
    /\ toStub' = IF client = "gone" THEN toStub ELSE Append(toStub, Byte("+"))

----------------------------------------------------------------------------
(* The stop and the packet reader, in the emulator's thread.               *)

InteractiveStop == mode # "gdb" /\ Stop("interactive") /\ UNCHANGED stubVars

\* The entry of GDB_CheckAndExecute: all stops but the first are reported.
GdbStop ==
    /\ mode = "gdb"
    /\ Stop("gdb")
    /\ IF broken \/ bStepping THEN GetsPacket("stop") ELSE UNCHANGED clientVars
    /\ bStepping' = FALSE
    /\ broken' = TRUE
    /\ rx' = "start"
    /\ UNCHANGED <<szCmdBuf, catcher, boundVars, breakRead>>

Reading == mode = "gdb" /\ loop = "prompt" /\ rx # "dispatch"

\* wait_for_data returns byte b.
Receive(b) == toStub # <<>> /\ b = Head(toStub).kind /\ toStub' = Tail(toStub)

\* GDB_Execute_i looks for "$".  A break request does not end the stop.
ReadHeader ==
    /\ Reading /\ rx = "start"
    /\ \/ /\ Receive("$")
          /\ rx' = "body"
          /\ szCmdBuf' = <<>>
          /\ UNCHANGED <<flags, broken>>
       \/ /\ Receive("break")
          /\ flags' = GDB_Set(flags)
          /\ broken' = TRUE
          /\ UNCHANGED <<rx, szCmdBuf>>
       \/ /\ toStub # <<>> /\ Head(toStub).kind \notin {"$", "break"}
          /\ toStub' = Tail(toStub)
          /\ UNCHANGED <<flags, broken, rx, szCmdBuf>>
    /\ UNCHANGED <<loopVars, loop, pc, breakpoints, watchpoints, traceVars, historyVars,
                   bStepping, catcher, client, boundVars, breakRead>>

\* It stores what follows up to "#" and takes two more bytes for the checksum,
\* which it does not look at, then acknowledges the packet.
ReadBody ==
    /\ Reading /\ rx # "start"
    /\ toStub # <<>>
    /\ toStub' = Tail(toStub)
    /\ \/ /\ rx = "body" /\ Head(toStub).kind # "#"
          /\ szCmdBuf' = IF Len(szCmdBuf) < 2 THEN Append(szCmdBuf, Head(toStub)) ELSE szCmdBuf
          /\ UNCHANGED <<rx, client>>
       \/ /\ rx = "body" /\ Head(toStub).kind = "#"
          /\ rx' = "sum1"
          /\ UNCHANGED <<szCmdBuf, client>>
       \/ /\ rx = "sum1"
          /\ rx' = "sum2"
          /\ UNCHANGED <<szCmdBuf, client>>
       \/ /\ rx = "sum2"
          /\ rx' = "dispatch"
          /\ Acknowledged
          /\ UNCHANGED szCmdBuf
    /\ UNCHANGED <<debuggerVars, bStepping, broken, catcher, boundVars, breakRead>>

\* wait_for_data finds the socket closed.
ReadClosed ==
    /\ Reading
    /\ toStub = <<>> /\ client = "gone"
    /\ loop' = "exited"
    /\ flags' = GDB_Set(flags)
    /\ UNCHANGED <<loopVars, pc, breakpoints, watchpoints, traceVars, historyVars, stubVars>>

----------------------------------------------------------------------------
(* The packet handlers, after the acknowledgement has gone out.            *)

Dispatch(c) ==
    mode = "gdb" /\ loop = "prompt" /\ rx = "dispatch"
        /\ szCmdBuf # <<>> /\ szCmdBuf[1].kind = c

Resumed == breakRead' = (catcher = "break")

GDB_Handler_Continue ==
    /\ Dispatch("c")
    /\ flags' = [flags EXCEPT !["gdb"] = [active |-> FALSE, retrigger |-> FALSE]]
    /\ loop' = "store"
    /\ order' = "run"
    /\ Resumed
    /\ UNCHANGED <<loopVars, pc, breakpoints, watchpoints, traceVars, ran, stopped, cause,
                   readerVars, catcher, clientVars, boundVars>>

GDB_Handler_Step ==
    /\ Dispatch("s")
    /\ flags' = [flags EXCEPT !["gdb"] = [active |-> TRUE, retrigger |-> TRUE]]
    /\ bStepping' = TRUE
    /\ loop' = "store"
    /\ order' = "step"
    /\ Resumed
    /\ UNCHANGED <<loopVars, pc, breakpoints, watchpoints, traceVars, ran, stopped, cause,
                   broken, rx, szCmdBuf, catcher, clientVars, boundVars>>

Replied == GetsPacket("reply") /\ rx' = "start"

\* The address in the packet; any, when the bytes of it were not all read.
Whole == Len(szCmdBuf) = 2 /\ szCmdBuf[2].kind = "address"

PacketAddress == IF Whole THEN {szCmdBuf[2].addr} ELSE Address

GDB_Handler_SetBreakPoint ==
    /\ Dispatch("Z")
    /\ \E a \in PacketAddress : breakpoints' = breakpoints \union {a}
    /\ Replied
    /\ UNCHANGED <<loopVars, loop, flags, pc, watchpoints, traceVars, historyVars,
                   bStepping, broken, szCmdBuf, catcher, boundVars, breakRead>>

GDB_Handler_ClearBreakPoint ==
    /\ Dispatch("z")
    /\ \E a \in PacketAddress : breakpoints' = breakpoints \ {a}
    /\ Replied
    /\ UNCHANGED <<loopVars, loop, flags, pc, watchpoints, traceVars, historyVars,
                   bStepping, broken, szCmdBuf, catcher, boundVars, breakRead>>

\* P with register 34 (and the end of G): the PC becomes the value that was
\* sent, which is not halved.
GDB_Handler_WriteReg ==
    /\ Dispatch("P")
    /\ pc' \in PacketAddress
    /\ Replied
    /\ UNCHANGED <<loopVars, loop, flags, breakpoints, watchpoints, traceVars, historyVars,
                   bStepping, broken, szCmdBuf, catcher, boundVars, breakRead>>

\* Every other command that has a handler: it reads or writes data.
OtherHandler ==
    /\ Dispatch("q")
    /\ Replied
    /\ UNCHANGED <<debuggerVars, bStepping, broken, szCmdBuf, catcher, boundVars, breakRead>>

\* For k and D.
GDB_Handler_Kill ==
    /\ Dispatch("k")
    /\ loop' = "exited"
    /\ UNCHANGED <<loopVars, flags, pc, breakpoints, watchpoints, traceVars, historyVars,
                   stubVars>>

\* A packet that has lost a comma or its "=" makes strstr or strchr return
\* NULL, and the handler writes through it.
SeparatorLost ==
    /\ \E c \in {"Z", "z", "P"} : Dispatch(c)
    /\ ~Whole
    /\ loop' = "exited"
    /\ UNCHANGED <<loopVars, flags, pc, breakpoints, watchpoints, traceVars, historyVars,
                   stubVars>>

\* No handler has this command: there is no reply.
NoHandler ==
    /\ mode = "gdb" /\ loop = "prompt" /\ rx = "dispatch"
    /\ \A c \in Commands : ~Dispatch(c[1].kind)
    /\ rx' = "start"
    /\ UNCHANGED <<debuggerVars, bStepping, broken, szCmdBuf, catcher, clientVars,
                   boundVars, breakRead>>

Stub ==
    \/ ReadHeader \/ ReadBody \/ ReadClosed
    \/ GDB_Handler_Continue \/ GDB_Handler_Step \/ GDB_Handler_Kill
    \/ GDB_Handler_SetBreakPoint \/ GDB_Handler_ClearBreakPoint
    \/ GDB_Handler_WriteReg \/ OtherHandler \/ SeparatorLost \/ NoHandler

----------------------------------------------------------------------------
(* GDB_CatchIO.  The flag is tested once, before select: a stop that comes *)
(* after the test leaves the thread waiting for the packet reader's bytes. *)

CatchTestStopped ==            \* mutant: "if (true == bIsInteractive)"
    /\ loop # "exited"
    /\ catcher = "test" /\ flags["gdb"].active
    /\ catcher' = "select"
    /\ UNCHANGED <<debuggerVars, readerVars, clientVars, boundVars, breakRead>>

CatchTest ==
    /\ loop # "exited"
    /\ catcher = "test" /\ ~flags["gdb"].active
    /\ catcher' = "select"
    /\ UNCHANGED <<debuggerVars, readerVars, clientVars, boundVars, breakRead>>

CatchSelect ==
    /\ loop # "exited"
    /\ catcher = "select"
    /\ toStub # <<>> \/ client = "gone"
    /\ catcher' = "recv"
    /\ UNCHANGED <<debuggerVars, readerVars, clientVars, boundVars, breakRead>>

\* Any byte but a break request is dropped; at the end of the stream recv
\* returns 0 and the thread tries again.
CatchRecv ==
    /\ loop # "exited"
    /\ catcher = "recv"
    /\ \/ /\ toStub # <<>>
          /\ toStub' = Tail(toStub)
          /\ IF Head(toStub).kind = "break"
             THEN catcher' = "break" /\ breakRead' = TRUE
             ELSE catcher' = "test" /\ UNCHANGED breakRead
       \/ /\ toStub = <<>> /\ client = "gone"
          /\ catcher' = "test"
          /\ UNCHANGED <<toStub, breakRead>>
    /\ UNCHANGED <<debuggerVars, readerVars, client, boundVars>>

CatchBreak ==
    /\ loop # "exited"
    /\ catcher = "break"
    /\ flags' = GDB_Set(flags)
    /\ catcher' = "test"
    /\ UNCHANGED <<loopVars, loop, pc, breakpoints, watchpoints, traceVars, historyVars,
                   readerVars, clientVars, boundVars, breakRead>>

GDB_CatchIO == CatchTest \/ CatchSelect \/ CatchRecv \/ CatchBreak

----------------------------------------------------------------------------

EmulatorLoop ==
    \/ LoopStep /\ UNCHANGED stubVars
    \/ InteractiveStop
    \/ GdbStop

Next ==
    \/ EmulatorLoop
    \/ InteractiveCommand /\ UNCHANGED stubVars
    \/ Stub
    \/ GDB_CatchIO
    \/ Client

\* The two threads of the process keep running; the user owes nothing.
Spec == Init /\ [][Next]_vars /\ WF_vars(EmulatorLoop) /\ WF_vars(GDB_CatchIO)

----------------------------------------------------------------------------
(* Properties                                                              *)

(***************************************************************************)
(* The target stops only when it was asked to: at a breakpoint, after a    *)
(* step or a watched store, or for a break request that came since it was  *)
(* resumed.  In code: who clears bIsInteractive and bRetrigger             *)
(* (interactive.c:341-364 and 470, gdb_rsp.c:462-474 and 962-978).         *)
(***************************************************************************)
NoStopUnasked ==
    [][loop = "enter" /\ loop' = "prompt" =>
         pc \in breakpoints \/ cause # {} \/ breakRead]_vars

(***************************************************************************)
(* A break request on its way to a running target stops it (or finds it    *)
(* stopped), whatever bytes come before it.  In code: GDB_CatchIO          *)
(* (gdb_rsp.c:413) beside the loop.                                        *)
(***************************************************************************)
BreakRequestStops ==
    (Running /\ \E i \in DOMAIN toStub : toStub[i].kind = "break") ~> ~Running
=============================================================================
