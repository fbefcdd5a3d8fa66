---------------------------- MODULE KernelAware -----------------------------
(***************************************************************************)
(* Thread tracking for the Mark3 kernel: kernel_aware/kernel_aware.c and   *)
(* ka_thread.c on the write callouts, and the thread GDB selects in        *)
(* debug/gdb_rsp.c.                                                        *)
(*                                                                         *)
(* The emulated kernel, which is external, keeps the address of the running*)
(* thread in g_pclCurrent and switches by storing its two bytes, in the    *)
(* order its compiler chose.  KA_ThreadChange is called for the high byte, *)
(* before it is stored: it reads the pointer, the thread's ID and its stack*)
(* as they are in memory then, lists the thread if it is new and charges   *)
(* the cycles since the last call to the thread it read then.              *)
(*                                                                         *)
(* Addresses: a pointer is the pair of its bytes, a cell of RAM a number.  *)
(***************************************************************************)
EXTENDS WriteCallouts, Integers, Sequences, SequencesExt

CONSTANTS
    High, Low,       \* values of a pointer's high and low byte; 0 among them
    Threads,         \* where the program makes threads
    Id,              \* the IDs it gives them
    FlagCell,        \* the address of g_bIsKernelAware
    CurrentHigh,     \* the address of g_pclCurrent's high byte
    GuardCells,      \* addresses 32 bytes above the end of a stack
    MaxCycles,       \* bound: cycles of the run
    MaxMade          \* bound: threads made

Pointer == High \X Low
Null == <<0, 0>>

ASSUME KernelAwareAssumption ==
    /\ 0 \in High /\ High \subseteq Nat
    /\ 0 \in Low /\ Low \subseteq Nat
    /\ Threads \subseteq (High \ {0}) \X Low
    /\ 0 \in Id /\ Id \subseteq Nat
    /\ FlagCell \in Nat \ {AnyAddress}
    /\ CurrentHigh \in Nat \ {AnyAddress, FlagCell}
    /\ GuardCells \subseteq Nat /\ GuardCells # {}
    /\ MaxCycles \in Nat /\ MaxMade \in Nat

None == <<>>            \* no thread seen, no switch under way
NoThread == -1          \* mark3_thread when the CPU's registers are shown

VARIABLES
    now,             \* u64CycleCount
    loop,            \* the emulator runs, is stopped by GDB, is over, or has
                     \* dereferenced a null context
    highFirst,       \* the compiler stores the high byte of a word first
    curr,            \* g_pclCurrent
    storing,         \* the thread whose second byte is still to be stored
    memory,          \* what lies at each pointer: u8ThreadID, and the cell 32
                     \* bytes above u16StackPtr
    made,            \* the threads the program has made
    creations,       \* how often it made one
    flag,            \* g_bIsKernelAware
    callouts,        \* pstCallouts
    info,            \* pstThreadInfo
    lastThread,      \* pstLastThread
    lastTime,        \* u64LastTime
    mark3_thread,    \* the thread GDB selected
    selectedListed,  \* history: its ID was in the list GDB could get when it did
    runner,          \* history: the thread last switched to
    firstRun,        \* history: no thread was switched to before it
    since,           \* history: cycles since the switch to it
    ran              \* history: cycles run by each thread but the first run

programVars == <<highFirst, curr, storing, memory, made, creations, flag>>
trackerVars == <<info, lastThread, lastTime>>
gdbVars     == <<mark3_thread, selectedListed>>
historyVars == <<runner, firstRun, since, ran>>
vars == <<now, loop, programVars, callouts, trackerVars, gdbVars, historyVars>>

\* KernelAware_Init and KA_Thread_Init register their callouts in a program
\* that has the symbols.
Init ==
    /\ now = 1
    /\ loop = "run"
    /\ highFirst \in BOOLEAN
    /\ curr = Null /\ storing = None
    /\ memory \in {[p \in Pointer |-> [id |-> 0, guard |-> g]] : g \in GuardCells}
    /\ made = {} /\ creations = 0
    /\ flag = 0
    /\ callouts = {Callout("KA_Set", FlagCell), Callout("KA_ThreadChange", CurrentHigh)}
    /\ info = <<>> /\ lastThread = None /\ lastTime = 0
    /\ mark3_thread = NoThread /\ selectedListed = FALSE
    /\ runner = Null /\ firstRun = TRUE /\ since = 0
    /\ ran = [k \in Threads \X Id |-> 0]

----------------------------------------------------------------------------
(* The tracker.                                                            *)

Entries == {info[i] : i \in DOMAIN info}

Same(entry, p) == entry.ptr = p /\ entry.id = memory[p].id

AddForgetsMatch(p) ==             \* mutant: bExists is set by the last entry
    LET Retire(e) == IF e.ptr = p /\ ~Same(e, p) THEN [e EXCEPT !.active = FALSE] ELSE e
        retired == [i \in DOMAIN info |-> Retire(info[i])]
    IN  IF p = Null \/ (info # <<>> /\ Same(Last(info), p)) THEN retired
        ELSE Append(retired,
                    [ptr |-> p, id |-> memory[p].id, total |-> 0, active |-> TRUE])

AddNull(p) ==                     \* mutant: no test for the null pointer
    LET Retire(e) == IF e.ptr = p /\ ~Same(e, p) THEN [e EXCEPT !.active = FALSE] ELSE e
        retired == [i \in DOMAIN info |-> Retire(info[i])]
    IN  IF \E e \in Entries : Same(e, p) THEN retired
        ELSE Append(retired,
                    [ptr |-> p, id |-> memory[p].id, total |-> 0, active |-> TRUE])

\* The thread at p replaces others of that address; it is listed once.
Mark3KA_AddKnownThread(p) ==
    LET Retire(e) == IF e.ptr = p /\ ~Same(e, p) THEN [e EXCEPT !.active = FALSE] ELSE e
        retired == [i \in DOMAIN info |-> Retire(info[i])]
    IN  IF p = Null THEN info
        ELSE IF \E e \in Entries : Same(e, p) THEN retired
        ELSE Append(retired,
                    [ptr |-> p, id |-> memory[p].id, total |-> 0, active |-> TRUE])

\* The cycles since the last call go to the thread read then, if the ID in its
\* memory is still that of an entry.
Charge(entries, p) ==
    [i \in DOMAIN entries |->
        IF lastThread # None /\ lastTime # 0 /\ Same(entries[i], p)
        THEN [entries[i] EXCEPT !.total = @ + now - lastTime]
        ELSE entries[i]]

GuardOfNewThreads(p) ==           \* mutant: only a new thread's stack is watched
    IF p # Null /\ \E e \in Entries : Same(e, p) THEN callouts
    ELSE WriteCallout_Add(callouts, "KA_StackWarning", memory[p].guard)

WatchStack(p) == WriteCallout_Add(callouts, "KA_StackWarning", memory[p].guard)

ChangeCachesFirst ==              \* mutant: pstLastThread set before the charge
    /\ info' = Charge(Mark3KA_AddKnownThread(curr), curr)
    /\ lastTime' = now
    /\ callouts' = WatchStack(curr)
    /\ lastThread' = curr

\* Mark3KA_GetCurrentThread() is curr: the bytes in memory, not the one stored.
KA_ThreadChange ==
    /\ info' = Charge(Mark3KA_AddKnownThread(curr), lastThread)
    /\ lastTime' = now
    /\ callouts' = WatchStack(curr)
    /\ lastThread' = curr

----------------------------------------------------------------------------
(* The program.                                                            *)

Running == loop = "run"

Tick ==
    /\ Running
    /\ now < MaxCycles
    /\ now' = now + 1
    /\ since' = since + 1
    /\ UNCHANGED <<loop, programVars, callouts, trackerVars, gdbVars,
                   runner, firstRun, ran>>

\* The program makes a thread where none runs; the address may have been
\* another thread's.
MakeThread(p, id, guard) ==
    /\ Running /\ creations < MaxMade
    /\ p \notin {curr, runner, storing}
    /\ memory' = [memory EXCEPT ![p] = [id |-> id, guard |-> guard]]
    /\ made' = made \cup {p}
    /\ creations' = creations + 1
    /\ UNCHANGED <<now, loop, highFirst, curr, storing, flag, callouts,
                   trackerVars, gdbVars, historyVars>>

Credited ==
    IF firstRun \/ runner \notin Threads THEN ran
    ELSE [ran EXCEPT ![<<runner, memory[runner].id>>] = @ + since]

\* Data_Write of the high byte of p, which is where a switch counts as made.
StoreHigh(p) ==
    /\ IF "KA_ThreadChange" \in Called(callouts, CurrentHigh)
       THEN KA_ThreadChange ELSE UNCHANGED <<callouts, trackerVars>>
    /\ curr' = IF WriteCallout_Run(callouts, CurrentHigh, {"KA_Set"})
               THEN <<p[1], curr[2]>> ELSE curr
    /\ runner' = p
    /\ firstRun' = (runner = Null)
    /\ since' = 0
    /\ ran' = Credited

StoreLow(p) ==
    /\ curr' = <<curr[1], p[2]>>
    /\ UNCHANGED <<callouts, trackerVars, historyVars>>

\* The kernel clears g_pclCurrent at startup and switches between threads.
SwitchFirstByte(p) ==
    /\ Running /\ storing = None
    /\ p \in made \cup {curr}
    /\ IF highFirst THEN StoreHigh(p) ELSE StoreLow(p)
    /\ storing' = p
    /\ UNCHANGED <<now, loop, highFirst, memory, made, creations, flag, gdbVars>>

SwitchSecondByte ==
    /\ Running /\ storing # None
    /\ IF highFirst THEN StoreLow(storing) ELSE StoreHigh(storing)
    /\ storing' = None
    /\ UNCHANGED <<now, loop, highFirst, memory, made, creations, flag, gdbVars>>

\* Data_Write of g_bIsKernelAware: KA_Set stores a one of its own.
StoreFlag(v) ==
    /\ Running
    /\ flag' = IF WriteCallout_Run(callouts, FlagCell, {"KA_Set"}) THEN v ELSE 1
    /\ UNCHANGED <<now, loop, highFirst, curr, storing, memory, made, creations,
                   callouts, trackerVars, gdbVars, historyVars>>

----------------------------------------------------------------------------
(* GDB.                                                                    *)

Stopped == loop = "stop"

ActiveIds == {e.id : e \in {d \in Entries : d.active}}

\* KA_Get_Thread_Context finds an active entry with that ID.
HasContext(id) == id \in ActiveIds

Stop ==
    /\ Running
    /\ loop' = "stop"
    /\ UNCHANGED <<now, programVars, callouts, trackerVars, gdbVars, historyVars>>

ResumeKeepsThread ==              \* mutant: mark3_thread is not reset
    /\ Stopped
    /\ loop' = "run"
    /\ UNCHANGED <<now, programVars, callouts, trackerVars, gdbVars, historyVars>>

\* The end of GDB_CheckAndExecute.
Resume ==
    /\ Stopped
    /\ loop' = "run"
    /\ mark3_thread' = NoThread
    /\ selectedListed' = FALSE
    /\ UNCHANGED <<now, programVars, callouts, trackerVars, historyVars>>

\* The id that stands for the thread ID: in the list that "qfThreadInfo" sends, and
\* in the answer of "qC" about the running thread, where it means another thread.
ThreadInfoId(id) == id + 1
QC(id) == IF id = 0 THEN 0 ELSE id - 1

\* "Hg": what the cases of id and of a missing context store in mark3_thread
\* is overwritten at the end.
GDB_Handler_SetThread(gdbId) ==
    /\ Stopped
    /\ mark3_thread' = gdbId - 1
    /\ selectedListed' = (gdbId - 1 \in ActiveIds)
    /\ UNCHANGED <<now, loop, programVars, callouts, trackerVars, historyVars>>

\* "g": of a selected thread, what its context holds; without one, a crash.
GDB_Handler_ReadRegs ==
    /\ Stopped
    /\ loop' = IF mark3_thread = NoThread \/ HasContext(mark3_thread)
               THEN loop ELSE "crashed"
    /\ UNCHANGED <<now, programVars, callouts, trackerVars, gdbVars, historyVars>>

\* exit() while the program runs or GDB kills it: KA_PrintThreadInfo calls
\* KA_ThreadChange once more, without a store.
Exit ==
    /\ Running \/ Stopped
    /\ loop' = "exited"
    /\ KA_ThreadChange
    /\ ran' = Credited
    /\ UNCHANGED <<now, programVars, gdbVars, runner, firstRun, since>>

----------------------------------------------------------------------------
Program ==
    \/ Tick
    \/ \E p \in Threads, id \in Id, g \in GuardCells : MakeThread(p, id, g)
    \/ \E p \in Pointer : SwitchFirstByte(p)
    \/ SwitchSecondByte
    \/ \E v \in {0, 1} : StoreFlag(v)

Gdb ==
    \/ Stop \/ Resume \/ GDB_Handler_ReadRegs
    \/ \E id \in Id : GDB_Handler_SetThread(ThreadInfoId(id))  \* listed now or earlier
    \/ \E id \in Id : GDB_Handler_SetThread(QC(id))            \* running now or earlier

Next == Program \/ Gdb \/ Exit

Spec == Init /\ [][Next]_vars

----------------------------------------------------------------------------
OnePage == \A p, q \in made : p[1] = q[1]

\* What the list names although the pointer is read in the middle of a switch.
\* With the high byte stored first the tracker sees the old pointer whole: only
\* threads the program made, and the half-stored pointer if the emulator exits
\* between the bytes.  With the low byte first it sees the new low byte under the
\* old high byte: a thread when the two share a page, and else, as at the switch
\* from the null pointer, perhaps none; but never other junk.
OnlyThreadsListed ==
    \A e \in Entries :
        IF highFirst
        THEN e.ptr \in made \/ (loop = "exited" /\ storing # None /\ e.ptr = curr)
        ELSE \E old \in made \cup {Null}, new \in made : e.ptr = <<old[1], new[2]>>

\* With the low byte stored first and all threads on one page, where the new
\* pointer is seen, each thread is charged exactly the cycles it ran between
\* switches, however threads come and go at the same addresses, but for the first
\* run after reset.  (With the high byte first the code charges the thread before.)
ChargedToRunner ==
    ~highFirst /\ OnePage =>
        \A e \in Entries :
            e.ptr \in made => e.total = ran[<<e.ptr, e.id>>]

\* What the last step added to the total of the i-th thread listed.
Gain(i) == info'[i].total - (IF i \in DOMAIN info THEN info[i].total ELSE 0)

\* No cycle is charged twice: one call adds to the total of one thread at most,
\* and no more than the time since the call before, in either order of the bytes
\* and whatever is listed.
NoCycleChargedTwice ==
    [][/\ \A i, j \in DOMAIN info' : Gain(i) # 0 /\ Gain(j) # 0 => i = j
       /\ \A i \in DOMAIN info' : Gain(i) \in 0 .. lastTime' - lastTime]_vars

\* A thread made where another was takes its place in the list.
OneActivePerAddress ==
    \A d, e \in Entries : d.ptr = e.ptr /\ d.active /\ e.active => d = e

\* While the thread runs that the tracker read last, the guard byte of the stack it
\* has now is watched, also when it was made anew since it was listed.  That is the
\* running thread when the low byte comes first; with the high byte first it is the
\* one that ran before, and nothing is said of the runner unless they are the same.
StackWatched ==
    lastThread = runner /\ Running =>
        Callout("KA_StackWarning", memory[runner].guard) \in callouts

\* "Add a callout so that the kernel-aware flag is *always* set"
\* (kernel_aware.c:111): no store of the program clears it, whatever other
\* callouts watch the same byte.
FlagSticks == [][flag = 1 => flag' = 1]_vars

\* A thread that GDB selects by an id of this stop's thread list has a context when
\* its registers are read, and the emulator does not crash.  Of the id that qC
\* tells nothing is claimed: Hg takes it for the ID two below the running thread's,
\* which is in the list or has no context, and then the read crashes.
ListedThreadsReadable ==
    /\ loop = "crashed" => ~selectedListed
    /\ Stopped /\ mark3_thread # NoThread /\ selectedListed => HasContext(mark3_thread)
=============================================================================
