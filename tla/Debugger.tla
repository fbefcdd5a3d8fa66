------------------------------ MODULE Debugger ------------------------------
(***************************************************************************)
(* emulator_loop (flavr.c) with the debugger it asks before each           *)
(* CPU_RunCycle: breakpoints, watchpoints, the commands of the interactive *)
(* debugger and the trace buffer (debug/breakpoint.c, watchpoint.c,        *)
(* interactive.c, trace_buffer.c).  GdbStub adds the remote stub.          *)
(*                                                                         *)
(* The program is any: a run cycle goes to any address, its own included   *)
(* (a jump to itself, or a CPU asleep), and may store to a data address.   *)
(* The command line picks the debugger and the trace once.                 *)
(***************************************************************************)
EXTENDS Integers, Sequences

CONSTANTS
    CodeSize,      \* program words: the PCs the program reaches
    DataSize,      \* data addresses the program stores to
    MainAddress,   \* the start of the symbol "main"
    TraceSize      \* CONFIG_TRACEBUFFER_SIZE

ASSUME DebuggerAssumption ==
    /\ CodeSize \in Nat \ {0}
    /\ DataSize \in Nat \ {0}
    /\ MainAddress \in 0 .. CodeSize - 1
    /\ TraceSize \in Nat \ {0}

Address     == 0 .. CodeSize - 1
DataAddress == 1 .. DataSize
NoStore     == 0                  \* a run cycle that stores nothing

VARIABLES
    mode,          \* the command line: "none", "debug" or "gdb"
    useTrace,      \* --trace, which has an effect with --debug only
    loop,          \* what emulator_loop does next
    flags,         \* bIsInteractive and bRetrigger of interactive.c and gdb_rsp.c
    pc,            \* stCPU.u32PC
    breakpoints,   \* the addresses in stCPU.pstBreakPoints
    watchpoints,   \* the addresses in stCPU.pstWatchPoints
    trace,         \* astTraceStep: the PC of each element
    index,         \* u32Index
    ran,           \* history: the PCs of the last TraceSize run cycles
    stopped,       \* history: the debugger stopped since the last run cycle
    order,         \* history: what the user last asked for, "step" or "run"
    cause          \* history: reasons to stop that the last run cycle gave

loopVars    == <<mode, useTrace>>
traceVars   == <<trace, index>>
historyVars == <<ran, stopped, order, cause>>
debuggerVars == <<loopVars, loop, flags, pc, breakpoints, watchpoints,
                  traceVars, historyVars>>

Debugging == mode # "none"
Running   == loop \in {"check", "enter", "store", "run"}

DebuggerInit ==
    /\ mode \in {"none", "debug", "gdb"}
    /\ useTrace \in (IF mode = "debug" THEN BOOLEAN ELSE {FALSE})
    /\ loop = "check"
    /\ flags = [s \in {"interactive", "gdb"} |-> [active |-> FALSE, retrigger |-> FALSE]]
    /\ pc = 0
    /\ \/ mode = "none" /\ breakpoints = {}
       \/ mode # "none" /\ breakpoints = {0}
       \/ mode = "gdb" /\ breakpoints = {MainAddress}
    /\ watchpoints = {}
    /\ trace = [i \in 0 .. TraceSize - 1 |-> 0]
    /\ index = 0
    /\ ran = <<>>
    /\ stopped = FALSE
    /\ order = "run"
    /\ cause = {}

----------------------------------------------------------------------------
(* The flags by which a debugger asks for a stop.                          *)

Interactive_Set(f) == [f EXCEPT !["interactive"] = [active |-> TRUE, retrigger |-> FALSE]]

GDB_Set(f) == [f EXCEPT !["gdb"].active = TRUE]

Listener == flags[IF mode = "gdb" THEN "gdb" ELSE "interactive"]

----------------------------------------------------------------------------
(* The steps of emulator_loop.                                             *)

CheckOneDebugger ==        \* mutant: a breakpoint always calls Interactive_Set
    /\ loop = "check"
    /\ loop' = "enter"
    /\ flags' = IF pc \in breakpoints THEN Interactive_Set(flags) ELSE flags
    /\ UNCHANGED <<loopVars, pc, breakpoints, watchpoints, traceVars, historyVars>>

CheckBreakpoint ==
    /\ loop = "check"
    /\ loop' = "enter"
    /\ flags' = IF pc \notin breakpoints THEN flags
                ELSE IF mode = "gdb" THEN GDB_Set(flags) ELSE Interactive_Set(flags)
    /\ UNCHANGED <<loopVars, pc, breakpoints, watchpoints, traceVars, historyVars>>

\* CheckAndExecute of either debugger when it has not been asked to stop.
PassThrough ==
    /\ loop = "enter"
    /\ ~Listener.active /\ ~Listener.retrigger
    /\ loop' = "store"
    /\ UNCHANGED <<loopVars, flags, pc, breakpoints, watchpoints, traceVars, historyVars>>

\* CheckAndExecute of debugger s up to its first command.
Stop(s) ==
    /\ loop = "enter"
    /\ flags[s].active \/ flags[s].retrigger
    /\ flags' = IF flags[s].active THEN flags
                ELSE [flags EXCEPT ![s] = [active |-> TRUE, retrigger |-> FALSE]]
    /\ loop' = "prompt"
    /\ stopped' = TRUE
    /\ UNCHANGED <<loopVars, pc, breakpoints, watchpoints, traceVars, ran, order, cause>>

StoreShort ==                  \* mutant: the index wraps one element early
    /\ loop = "store"
    /\ loop' = "run"
    /\ IF useTrace
       THEN /\ trace' = [trace EXCEPT ![index] = pc]
            /\ index' = IF index + 1 >= TraceSize - 1 THEN 0 ELSE index + 1
       ELSE UNCHANGED traceVars
    /\ UNCHANGED <<loopVars, flags, pc, breakpoints, watchpoints, historyVars>>

TraceBuffer_StoreFromCPU ==
    /\ loop = "store"
    /\ loop' = "run"
    /\ IF useTrace
       THEN /\ trace' = [trace EXCEPT ![index] = pc]
            /\ index' = IF index + 1 >= TraceSize THEN 0 ELSE index + 1
       ELSE UNCHANGED traceVars
    /\ UNCHANGED <<loopVars, flags, pc, breakpoints, watchpoints, historyVars>>

LastRan(s) == IF Len(s) > TraceSize THEN Tail(s) ELSE s

\* CPU_RunCycle.  Both debuggers' write callouts call Interactive_Set when a
\* watched address is stored to.
RunCycle(next, store) ==
    /\ loop = "run"
    /\ loop' = "check"
    /\ pc' = next
    /\ flags' = IF store \in watchpoints THEN Interactive_Set(flags) ELSE flags
    /\ ran' = IF useTrace THEN LastRan(Append(ran, pc)) ELSE ran
    /\ stopped' = FALSE
    /\ order' = "run"
    /\ cause' = (IF order = "step" THEN {"step"} ELSE {})
                \union (IF store \in watchpoints THEN {"watch"} ELSE {})
    /\ UNCHANGED <<loopVars, breakpoints, watchpoints, traceVars>>

LoopStep ==
    \/ CheckBreakpoint
    \/ PassThrough
    \/ TraceBuffer_StoreFromCPU
    \/ \E next \in Address, store \in DataAddress \union {NoStore} : RunCycle(next, store)

----------------------------------------------------------------------------
(* The commands of the interactive debugger.  A command whose handler      *)
(* returns true ends CheckAndExecute; the ones that only print are         *)
(* stuttering steps.                                                       *)

Command == mode = "debug" /\ loop = "prompt"

ContinueToRetrigger ==         \* mutant: bRetrigger keeps a step's value
    /\ Command
    /\ loop' = "store"
    /\ flags' = [flags EXCEPT !["interactive"].active = FALSE]
    /\ order' = "run"
    /\ UNCHANGED <<loopVars, pc, breakpoints, watchpoints, traceVars, ran, stopped, cause>>

Interactive_Continue ==
    /\ Command
    /\ loop' = "store"
    /\ flags' = [flags EXCEPT !["interactive"] = [active |-> FALSE, retrigger |-> FALSE]]
    /\ order' = "run"
    /\ UNCHANGED <<loopVars, pc, breakpoints, watchpoints, traceVars, ran, stopped, cause>>

Interactive_Step ==
    /\ Command
    /\ loop' = "store"
    /\ flags' = [flags EXCEPT !["interactive"].retrigger = TRUE]
    /\ order' = "step"
    /\ UNCHANGED <<loopVars, pc, breakpoints, watchpoints, traceVars, ran, stopped, cause>>

Toggle(S, a) == IF a \in S THEN S \ {a} ELSE S \union {a}

\* By address or, in Interactive_BreakFunc, by the symbol that starts there.
Interactive_Break(a) ==
    /\ Command
    /\ breakpoints' = Toggle(breakpoints, a)
    /\ UNCHANGED <<loopVars, loop, flags, pc, watchpoints, traceVars, historyVars>>

Interactive_Watch(d) ==
    /\ Command
    /\ watchpoints' = Toggle(watchpoints, d)
    /\ UNCHANGED <<loopVars, loop, flags, pc, breakpoints, traceVars, historyVars>>

\* The object's first byte decides for all the addresses from start to end.
Interactive_WatchObj(start, end) ==
    /\ Command
    /\ start <= end
    /\ watchpoints' = IF start \in watchpoints THEN watchpoints \ (start .. end)
                      ELSE watchpoints \union (start .. end)
    /\ UNCHANGED <<loopVars, loop, flags, pc, breakpoints, traceVars, historyVars>>

\* Interactive_Quit, and the end of the standard input.
Interactive_Quit ==
    /\ Command
    /\ loop' = "exited"
    /\ UNCHANGED <<loopVars, flags, pc, breakpoints, watchpoints, traceVars, historyVars>>

InteractiveCommand ==
    \/ Interactive_Continue
    \/ Interactive_Step
    \/ Interactive_Quit
    \/ \E a \in Address : Interactive_Break(a)
    \/ \E d \in DataAddress : Interactive_Watch(d)
    \/ \E start, end \in DataAddress : Interactive_WatchObj(start, end)

----------------------------------------------------------------------------
(* Properties                                                              *)

\* What TraceBuffer_Print shows, in its order.
TraceBuffer_Print ==
    [i \in 1 .. TraceSize - index |-> trace[index + i - 1]]
        \o [i \in 1 .. index |-> trace[i - 1]]

(***************************************************************************)
(* No instruction runs past a reason to stop: when CPU_RunCycle is about   *)
(* to run at a breakpoint, after a single step or after a store to a       *)
(* watched address, the user has been asked first.  In code: the order of  *)
(* the tests in emulator_loop (flavr.c:150) and the two sets of flags that *)
(* breakpoints, callouts and commands write (interactive.c:341,            *)
(* gdb_rsp.c:462).                                                         *)
(***************************************************************************)
NoReasonOverrun ==
    loop = "run" /\ Debugging => stopped \/ (cause = {} /\ pc \notin breakpoints)

(***************************************************************************)
(* "Implements a circular buffer of trace elements" (trace_buffer.h:50):   *)
(* what the trace command prints is the last TraceSize run cycles, oldest  *)
(* first, after as many blank elements as are missing.  In code: the write *)
(* index of TraceBuffer_StoreFromCPU (trace_buffer.c:41) and the two loops *)
(* of TraceBuffer_Print (:120).                                            *)
(***************************************************************************)
TraceIsHistory ==
    loop = "prompt" /\ useTrace =>
        TraceBuffer_Print = [i \in 1 .. TraceSize - Len(ran) |-> 0] \o ran
=============================================================================
