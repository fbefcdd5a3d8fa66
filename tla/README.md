# A TLA+ model of flAVR

flAVR (`src/`) emulates an AVR microcontroller: it loads a program, executes it
one instruction at a time, clocks a set of emulated peripherals once per CPU
cycle, dispatches interrupts between instructions, and offers debuggers (an
interactive one and a GDB stub) and "kernel-aware" tracing of programs built on
the Mark3 kernel. This directory holds TLA+ modules of its core, TLC runs over
small instances of them, and TLAPS proofs of the properties that matter most.
Paths below are relative to `src/src/`.

## 1. Inventory of the system

| Component | State | Operations | Talks to |
|---|---|---|---|
| Interrupt controller, `avr_cpu/avr_interrupt.c` | `u32IntFlags` (pending vectors), `u8IntPriority` (cached next vector) | `AVR_InterruptCandidate`, `AVR_ClearCandidate`, `AVR_NextInterrupt`, `AVR_Interrupt` | called by every peripheral's handlers and clocks; dispatch pushes the PC, runs an acknowledge callback and the interrupt callouts |
| Run cycle, `avr_cpu/avr_cpu.c` | PC, `u16ExtraPC`, `u16ExtraCycles`, `u64CycleCount`, `bAsleep` | `CPU_RunCycle`, `CPU_Init`, `CPU_AddPeriph` | opcode table, `IO_Clock`, `AVR_Interrupt` |
| Opcodes, `avr_cpu/avr_opcodes.c` | registers, SREG, RAM (stack included) | about 120 opcode functions; `Data_Write`, `Data_Read` | write callouts, watchpoints, `IO_Write`, `IO_Read` |
| Decoder, `avr_op_decode.c`, `avr_op_size.c`, `avr_op_cycles.c` | none (tables) | decode, size, base cycles of a word | run cycle, skips, disassembler |
| I/O dispatch, `avr_cpu/avr_io.c` | per-address reader and writer lists, clock list | `IO_Write`, `IO_Read`, `IO_Clock` | peripherals |
| UART, `peripheral/mega_uart.c` | TSR, TXB, RSR, empty flags, timers, UCSR0A/B, UDR0 | register handlers, `UART_Clock`, `TXC0_Callback` | interrupt controller, a TCP socket |
| EEPROM, `peripheral/mega_eeprom.c` | `eState`, `u32CountDown`, EECR, cells | `EEPROM_Write`, `EEPROM_Clock` | stalls the CPU through `u16ExtraCycles` |
| External interrupts, `peripheral/mega_eint.c` | sense modes, last pin values, EIMSK, EIFR | register handlers, `EINT_Clock`, `EINT_AckInt` | interrupt controller, port registers |
| Timers, `peripheral/mega_timer16.c`, `mega_timer8.c` | prescaler, counter, match values, latch, TIFR, TIMSK | register handlers, clock, acknowledge callbacks | interrupt controller |
| Callouts, `avr_cpu/write_callout.c`, `interrupt_callout.c` | lists of functions | add, run (a write callout may veto the write) | kernel awareness |
| Debugger, `debug/breakpoint.c`, `watchpoint.c`, `interactive.c` | lists, `bIsInteractive`, retrigger flag | insert, delete, check; commands | emulator loop, `Data_Write`/`Data_Read` |
| GDB stub, `debug/gdb_rsp.c` | `bIsInteractive`, socket, packet buffers | packet loop; a thread that waits for a break request | emulator loop |
| Trace buffer, `debug/trace_buffer.c` | ring and write index | store, load, print | emulator loop |
| Profiler, symbols, `debug/code_profile.c`, `debug_sym.c` | counters, symbol arrays | hit, print, find | emulator loop |
| Kernel awareness, `kernel_aware/*.c` | known threads with their cycles, the thread last seen, TLV buffers | write and interrupt callouts, `KA_Get_Thread_Context` | callouts, symbols, GDB stub, trace file |
| Loaders, `loader/*.c` | ROM, symbols | hex and ELF loading | CPU |
| Options, variants, main, `config/*.c`, `flavr.c` | option values, part tables | parsing; `emulator_loop` | everything |

`emulator_loop` (flavr.c:129) runs for ever: breakpoint check, debugger, trace,
profile, `CPU_RunCycle`. One run cycle executes one instruction (or idles one
cycle when asleep), calls `IO_Clock` once per cycle of it, then calls
`AVR_Interrupt`. Apart from the GDB stub's thread everything runs in this one
loop, so the interleavings that matter are those of *register handlers* (inside
the instruction), *clock functions* (between execution and dispatch) and
*acknowledge callbacks* (inside the dispatch), for whatever program is loaded.

What makes each component correct:

* interrupts: none lost, none invented, each delivered at the first boundary
  that allows it, a sleeper woken, the interrupted code resumed exactly;
* cycle accounting: peripherals see exactly the cycles that are counted (and
  one more for a JMP or CALL, whose decoder clocks them);
* EEPROM: never hangs, writes only inside the window, busy flag truthful;
* UART: bytes in order, flags truthful, a started byte is sent, a received one
  arrives unchanged and is announced by RXC0, which announces nothing else;
* external interrupts: each edge once; timers: exact counting, requests equal
  to flags, a running timer keeps firing;
* arithmetic: bytes chained through carry and zero compute the word the compiler
  meant, and the branch after them decides as the word comparison would;
* debugger: stop exactly where asked, resume exactly once; trace: the last N
  instructions in order; GDB: no byte of a packet taken by the break thread;
* kernel awareness: although it sees the pointer to the running thread one byte
  at a time, the tracker lists threads, charges each cycle to the thread that ran it
  and to no other, and watches the running stack; GDB can read each thread of the
  list it gets. The code does less than that, as the divergences below tell: the
  list may hold a half-stored pointer, the charge and the watch are right in one
  order of the bytes, and what `qC` says of the running thread is another thread's
  id. The properties say exactly how much holds.

`PROJECT.json` lists the hazards, one by one, at their lines.

## 2. Modules

| Module | Models | Correspondence |
|---|---|---|
| `Interrupts` | `avr_interrupt.c` without the dispatch | operators on `irq = [flags, prio]`, i.e. `u32IntFlags` as a set and `u8IntPriority`; `Acknowledge` is the end of `AVR_Interrupt` |
| `RunCycle` | the skeleton of `CPU_RunCycle` | `phase` is the part of the function to run next (`"jump"`: a JMP or CALL is decoded, which calls `IO_Clock` once, and not yet executed); `cycleDebt` is what `u64CycleCount` gained in this run cycle less the clocks given |
| `Cpu` | run cycle, control-flow opcodes, stack, sleep, dispatch | one action per class of opcode with the same effect on PC, stack, SREG.I, sleep and cycles; `frames` is a history of suspended code |
| `InterruptPromise` | abstract: what the interrupt system promises | implemented by `Cpu` through `KeepsPromise` |
| `Eeprom` | `mega_eeprom.c` under `RunCycle` | `EEPROM_Write` split by the state and bits it tests, `EEPROM_Clock` inside each clocking step |
| `Uart` | `mega_uart.c` | one action per register handler; `UART_Clock` runs transmitter then receiver; `AVR_Interrupt` runs the acknowledge callback |
| `TxFifo` | abstract: a two-place FIFO with a ready flag | implemented by `Uart` through `SendsInOrder` |
| `Eint` | `mega_eint.c` under `RunCycle` | register stores, pin stores, `EINT_Clock`; `EINT_Dispatch` is `AVR_Interrupt` with the acknowledge callback `EINT_AckInt` |
| `InterruptState` | the interrupt flags that peripherals on one CPU share | declares `irq`, so that two peripherals extended together have one |
| `Timer16` | `mega_timer16.c` | register stores, `Timer16_Clock` (prescaler, mode, flags), dispatch |
| `Timer8` | `mega_timer8.c` | the same, with the three modes this timer implements |
| `Timers` | both timers on one interrupt controller | each step is one timer's, with the other unchanged, or a dispatch, which runs the acknowledge callback of whichever owns the vector |
| `Alu` | the arithmetic opcodes of `avr_opcodes.c` and their SREG functions | one operator per opcode function, from register values and flags to a result and flags |
| `Arith` | fragments of one to five of these opcodes as a compiler emits them for words | one step per instruction on two register pairs and SREG; other instructions may run in between; `a`, `b`, `mixed` are histories |
| `Opcodes` | the tables of `avr_op_decode.c`, `avr_op_size.c`, `avr_op_cycles.c`, `avr_disasm.c` and `AVR_Opcode_Function` | a table is a sequence of switches (mask and cases) or tests; `latch` is the set of operand fields of `stCPU`, `Stale` where an earlier word left them |
| `Debugger` | `emulator_loop` with breakpoints, watchpoints, the interactive debugger and the trace ring | `loop` is the step of the loop to run next; the lists are sets, since insertion skips duplicates and deletion removes every match; one action per command |
| `GdbStub` | `gdb_rsp.c` on top of `Debugger` | `rx` is where `GDB_Execute_i` is in a packet, `catcher` where the thread `GDB_CatchIO` is between its test, `select`, `recv` and the store to the flag; `toStub` is the socket; GDB itself is external |
| `WriteCallouts` | `write_callout.c` | operators on the list of callouts, a set; the functions called for an address and whether the store happens |
| `KernelAware` | `kernel_aware.c`, `ka_thread.c` on the write callouts, and the thread GDB selects in `gdb_rsp.c` | the emulated program makes threads and switches by storing the two bytes of `g_pclCurrent`; `KA_ThreadChange` runs inside the store of the high byte, before it; GDB stops the program anywhere between its instructions, the two stores of a switch included |
| `InterruptLemmas`, `CpuProofs`, `EepromProofs`, `UartProofs`, `PeripheralProofs`, `InstructionProofs`, `GdbStubProofs`, `KernelAwareProofs` | theorems | each EXTENDS the module it is about, `PeripheralProofs` both `Timers` and `Eint`, `InstructionProofs` both `Opcodes` and `Arith` |
| `MCCpu`, `MCEeprom`, `MCUart`, `MCEint`, `MCTimers`, `MCInstructions`, `MCGdbStub`, `MCKernelAware` | instances for TLC | |

All peripheral modules EXTEND `Interrupts`; those whose behaviour depends on
when in an instruction they are clocked (EEPROM stall, pin edges) EXTEND
`RunCycle` and conjoin their own step to its steps. The UART and the timers do
not depend on it: their modules let the program's stores, the clock and
dispatches come in any order, which includes the orders of the run cycle.

Definitions with the comment *mutant* are plausible mistakes in the
definition that follows them; TLC finds each mutant (substituted for the
definition) to violate the property that names the hazard.

### Abstractions

* The program is arbitrary: any instruction with any operand the class allows.
  In `Cpu` it returns only to what was pushed and nests at most `MaxDepth`
  frames, and does not overwrite its own return addresses; PUSH and POP of data
  belong to `Straight`, as if the data lived beside the stack. A program that
  breaks this is outside the stack properties but not outside the interrupt ones.
* Peripherals in `Cpu` are arbitrary: any vector may be requested or withdrawn
  by any store and at any clock.
* A vector the part lacks is `NoVector` (255), as in its table.
* Registers are sets of their one bits; bytes have `ByteSize` values, so that a
  16-bit register has `ByteSize^2`, and wraps there.
* Reads that change no state are left out. `UDR0`'s read clears RXC0 and is in.
* In `Debugger` a run cycle goes to any address and stores to any data address
  or none; a trace element is its PC. In `GdbStub` what the stub sends reaches
  GDB at once, so the orders that matter, those of GDB's bytes against the two
  threads, are all there; the letter and the address of a packet are one byte
  each, and a packet that lost its address means any address, or the crash of
  the handler that misses the comma. GDB is taken to send no zero byte, which
  makes the thread exit the program.
* In `KernelAware` the kernel is external: it may make a thread anywhere but
  where one runs, so also where another was, and may store either byte of its
  pointer first. Of a thread only its ID and the address of its stack's guard
  byte are kept (`memory`), by pointer, and a pointer is the pair of its bytes, so
  that a half-stored one is a pointer too; where no thread was made lies ID 0. GDB
  may select any thread by the id the list or `qC` gave it, in this stop or an
  earlier one. The trace
  records, the idle time, thread names and the printed tables are left out: none is
  read back. The list of callouts is a set, because a callout is added once and
  never taken out, and none depends on another's result.
* History variables are read by no action of the code: `ran`, `stopped`,
  `order`, `cause` (`Debugger`), `breakRead` (`GdbStub`), `frames` (`Cpu`),
  `cycleDebt` (`RunCycle`), `enableAge` (`Eeprom`), `sent`, `taken`
  (`Uart`), `pinsBefore`, `requested` (`Eint`), `age` (`Timer16`), `raised0` (`Timer8`),
  `a`, `b`, `mixed` (`Arith`), `selectedListed`, `runner`, `firstRun`, `since`, `ran`
  (`KernelAware`).

## 3. Runs

| Run | Question | Instance | Result |
|---|---|---|---|
| `cpu` | interrupts, sleep, stack, cycles | 3 vectors, bytes of base 3, 5 program words, 2 frames | holds, 706 thousand states |
| `eeprom` | hang, window, busy flag, stall | 2 one-bit cells, real stall and window of 4, programming 6 and 5 ticks, instructions of 1 or 2 cycles | holds, 11 thousand states |
| `uart` | FIFO, flags, progress | one-bit bytes, baud 0 or 2, poll every 2, 5 control settings | holds, 221 thousand states |
| `eint` | edges | 3 lines of which one has no vector, all senses, instructions of 1 or 2 cycles | holds, 86 thousand states |
| `timers` | requests, masking, counting, progress of two timers | counters of 4 values (the 16-bit one in bytes of one bit), dividers 1 and 2, each mode that counts and one that does not; the program uses one of the two timers | holds, 195 thousand states |
| `instructions` | do the five tables agree; words from bytes, products, branches | all 65536 words with one second word; bytes of 8 values, immediates up to 7, every fragment on every pair of words | holds, 560 thousand states |
| `kernel_aware` | what the list can hold, charged cycles, stack guards, the flag, which selections GDB can read | 2 places for threads on one page, IDs 0 and 2, guard bytes one of which is the flag itself, either byte first, 3 cycles, 3 creations | holds, 3.9 million states |
| `debugger` | stops, steps, trace, break requests | 2 program words, 2 watchable addresses, trace of 3, GDB sends 3 packets and 1 break request | holds, 1.6 million states |
| `cpu_priority` | comment avr_interrupt.c:53 | as `cpu` | violated |
| `eeprom_cycles` | comment avr_cpu.c:157 | as `eeprom` | violated |
| `uart_timer` | comment mega_uart.c:405 | as `uart`, one baud rate | violated |
| `eint_sense` | comment mega_eint.c:204 | as `eint` | violated |

Why the bounds are enough: three vectors are the least with which the scan, the
comparison and the choice among remaining requests differ; two frames let an
interrupt land inside a call and inside another interrupt; base-3 bytes make the
two bytes of every pushed address differ somewhere. The EEPROM's programming
times only need to outlast the stall and the window, which keep their length.
The transmitter holds two bytes, so two values tell order, repetition and loss
apart. Counters of four values start below, at and above both match values and wrap.
In `timers` the program configures one timer and the other stays as it was reset
(`OneTimer`), which still shows that neither's bookkeeping touches the other's
requests; with both configured the state space is out of reach, and the theorems of
`PeripheralProofs` cover that case for everything but progress. Bytes of three bits have
a sign, a bit that is neither first nor last, and both carries, and every operand is
tried. The look-up of words is exhaustive: its one second word only has to differ from
every immediate operand. In `instructions` the tables and the fragments share no
state, so one rests while the other runs; a fragment ends with its last instruction
and a look-up with its word, so the run does not check for deadlock.

In `uart` a baud value of 0 lets a byte be read that no timer shifts, and 2 gives a
byte time in which the program can reconfigure the port or switch the receiver.

In `kernel_aware` two threads with two IDs let a thread replace another at its
address, come back after it, and share an ID with one elsewhere; three
creations are the least for the first thread of an address to be made again. With ID 2, the id
that `qC` tells is taken for ID 0, which a listed thread may or may not have. Three
cycles separate the reads of three switches. All threads are on one page, so the
half-stored pointers of this run are those with the page of the null pointer; with
threads on several pages the theorem `ListCorrect` covers them. One guard byte lies on
`g_bIsKernelAware`, where two callouts meet. The emulator exits or
crashes in some behaviours, so the run does not check for deadlock.

`debugger` explores no debugger, the interactive one with and without trace, and
GDB from the same initial predicate. Two program words tell a breakpoint hit from
one passed by; two data addresses give objects of one and two bytes; a ring of
three has a middle. Three packets are the least with which GDB clears the first
breakpoint, resumes and stops again, with a byte of any of them lost. The run
does not check for deadlock: the user or GDB may send nothing more.

The property of each run is stated in the module it is about, with the code it
concerns.

### Fairness

* `Cpu!RunFairness`: `emulator_loop` is `while (1)` around `CPU_RunCycle` and
  every loop of that function is finite, so a started run cycle ends and a
  sleeping CPU keeps cycling. No fairness is assumed of the program: `WakesUp`
  needs none.
* `Eeprom!FairSpec`: weak fairness of the whole next-state relation, the loop
  going on; the clocks follow because the other phases end.
* `Uart!FairSpec`, `Timers!ClockFairness`: `IO_Clock` calls each clock function
  once per cycle for ever. `KeepsFiring` and `KeepsFiring0` assume in their premises
  that the program at some point leaves the running timer alone, with a clock
  selected and, for the 8-bit timer, a mode that counts.

* `GdbStub!Spec`: weak fairness of the emulator loop and of the thread, two
  threads of one process of which neither waits for the other; none of the packet
  reader, the user or GDB.

### Divergences found

1. `AVR_NextInterrupt` (avr_interrupt.c:27) caches the *highest* pending index
   after a withdrawal or dispatch; the comment at line 53 says lower index,
   higher priority. `AVR_InterruptCandidate` keeps the lowest, so the order
   depends on history.
2. `EEPROM_Write` (mega_eeprom.c:206) counts the read stall twice in
   `u64CycleCount`.
3. `UART_TxClock` (mega_uart.c:567) reloads the shift register without starting
   the baud timer: the second of two bytes waits for a third write, which then
   starts the timer though the port is not idle.
4. `EINT_Clock` (mega_eint.c:250) switches INT1 on INT0's sense mode.

Three more show in `Opcodes`, whose properties except them by name:
`AVR_Disasm_LDS` and `AVR_Disasm_STS` (avr_disasm.c:904, 1040) print `stCPU.k`
where the decoder sets `stCPU.K`; the case of MULS (0x0200 under the mask 0xFC00)
and the missing case of BRHS (0xF005) leave those words executing as NOP and
listed as data; DES executes nothing.

Three more show in `GdbStub`, and its properties are stated so that they hold
with them. A thread that was in `select` when the target stopped takes a byte of
GDB's next packets (gdb_rsp.c:423); the reader does not look at the checksum
(line 368) and acknowledges what is left, so a lost command letter makes GDB wait
for ever for a target that is still stopped. The acknowledgement of a continue
packet goes out before its handler clears the flag (lines 374, 965), so a break
request sent in between is overwritten: `BreakRequestStops` is about a target
that already runs. `GDB_WatchpointCallback` (line 1156) raises the interactive
debugger's flag, and a watchpoint packet sets a breakpoint (line 1033), so no
watchpoint ever stops under GDB.

Nine more in `KernelAware`, whose properties hold with them or except them by
name:

* `KA_ThreadChange` is called before the high byte is stored and reads the pointer
  from memory. When the compiler stores the high byte first it sees the thread that
  is being left, so every interval goes to the thread that ran before it, although
  the comment at ka_thread.c:311 has the cached thread be the one "last run".
  `ChargedToRunner` is about the other order and says nothing of this one. Nor
  does `StackWatched` say much here: it is about a runner that is the thread last read,
  and in this order that is the thread before it, so a thread made anew runs its
  first interval unwatched. If the emulator exits between the bytes, the
  half-stored pointer is read and listed.
* When the compiler stores the low byte first, a switch between pages makes it see a
  pointer that may be no thread, which it lists (the new low byte under the old high
  byte, which is also what the first switch from the null pointer leaves).
  `OnlyThreadsListed` says that this is all the junk there is; `ChargedToRunner` is
  about threads on one page (`OnePage`).
* A thread A, then B, then A again at one address leaves A's entry inactive
  (`Mark3KA_AddKnownThread` finds it and does not reactivate it), so GDB is not told
  of the running thread.
* A thread that ended stays active in the list; gdb_rsp.c:1099 takes a thread with a
  context to be alive.
* `GDB_Handler_SetThread` (gdb_rsp.c:995) sets `mark3_thread` to the current thread
  for an ID without a context, and overwrites that at line 1011. Reading the
  registers then dereferences a null context (line 662): `ListedThreadsReadable` is
  about ids of the list that GDB can get in the same stop.
* `qC` (gdb_rsp.c:911, "Get the current running thread ID") answers the running
  thread's ID less one, where the list answers the ID plus one (line 866) and `Hg`
  subtracts one (line 1011). For the IDs 0 and 1 the answer selects the CPU's
  registers; for any other a debugger that selects what `qC` told it reads the thread
  whose ID is two lower, or crashes the emulator if there is none. `QC` and `Gdb` have
  it, and `ListedThreadsReadable` claims nothing for such an id unless it also stands
  for a thread of the list, in which case that thread, not the running one, is read.
* A guard byte is watched for ever, also when its stack is gone.
* What GDB writes to memory does not run the callouts, so it can clear the flag
  that `FlagSticks` keeps from the program.
* The first switch after reset is seen with the null pointer's high byte, so no
  thread is charged for its first run (`firstRun`).

Four in the peripherals, without a property of their own. A byte read from the
socket while UBRR0 is 0 is put in RSR with a timer of zero (mega_uart.c:633), so it
never shifts and the next poll overwrites it: `ReceivedByteArrives` is about bytes
read under another value. `UART_WriteUCSR0A`
(mega_uart.c:449) says a one written to TXC "was set explicitly -- clear it in the
SR" and then ORs the result with the register's old value, which clears nothing.
The 8-bit timer never compares OCR0B, so it never raises OCF0B; and a store to
TCCR0B sets the new divider without restarting the prescaler, so the first count
after it comes at the old rate.

The passing properties are true *with* these: `InterruptPromise` promises no
order, `RequestedOnEdge` excludes INT1, `TimedByteIsSent` starts from a running
timer.

## 4. Theorems

TLAPS proves, for every value of the constants allowed by the assumptions
(`VectorAssumption`, `CpuAssumption`, `EepromAssumption`, `UartAssumption`,
`EintAssumption`, `Timer16Assumption`, `Timer8Assumption`, `TimersAssumption`,
`AluAssumption`, `ArithAssumption`, `OpcodesAssumption`, `DebuggerAssumption`, `GdbStubAssumption`,
`KernelAwareAssumption`):

* `InterruptLemmas`: each of `AVR_InterruptCandidate`, `AVR_ClearCandidate` and
  `Acknowledge` returns well-formed requests with the expected flags and a cache
  that agrees with them. That the scan finds the highest vector rests on the
  well-foundedness of `<` on the naturals.
* `CpuProofs`: all safety properties of run `cpu`. The inductive invariant adds
  two facts to them: `DepthBounded` (with interrupts enabled there is room for a
  frame, or a dispatch could push past the stack) and `CyclesOwed` (inside the
  clocking loop the cycles owed equal the turns left). The types need the stack
  contents, since a popped PC is a program address only because it was pushed.
  `PromiseKept` shows each step to be a step of `InterruptPromise` or a stutter,
  `ReturnsCorrect` that a pop resumes the innermost frame.
* `EepromProofs`: all safety properties of run `eeprom`. The strengthening says
  that a read's countdown is covered by the clocks still owed to the running
  instruction, and that the age of an open window and its countdown sum to the
  window's length.
* `UartProofs`: `TypeOK`, `TxRequestIsTrue`, `TimerHasByte`, and the refinement
  of `TxFifo`; the strengthening says UDRE0 equals `bUDR_Empty`. `TakenByteKept`,
  the safety half of `ReceivedByteArrives`, rests on `Receiving`: the byte taken from
  the socket lies in RSR, and the timer runs just when it was taken under a nonzero
  UBRR0; every step then leaves it alone, shifts it, delivers it or, with no timer
  running, takes another.
* `PeripheralProofs`: of the timers the types, `RequestsMatchFlags`, `Requests0MatchFlags`,
  `MaskedStaysQuiet` and `CountsEveryClock`, for both timers in use at once. The
  strengthening is the agreement of the cache, since a dispatch acknowledges the
  cached vector; distinct sources, of one timer or of two, have distinct
  vectors (`TimersAssumption`); and for counting, the prescaler lies between two
  reloads while a measurement runs. A source without a vector shares `NoVector`
  with others, which is why every statement leaves it out.
  Of the external lines all properties of run `eint`, for any number of clocks in
  an instruction. The invariant says that the first of them compares with the pins
  the instruction started with and the later ones find nothing moved, and that
  until the dispatch a clock only adds requests.
* `InstructionProofs`, of `Arith`: `TypeOK`, `WordResult`, `BranchDecides` and `ProductResult`, so for
  real bytes and words. The strengthening, `Partial`, says what the low byte, the
  carry and the zero flag hold between the two instructions of a fragment; two
  lemmas join a pair of bytes and the carry between them into a word sum or
  difference. `ProductInv` says what the accumulator has gathered: for MUL up to
  multiples of the word, which the fragment drops; for MULSU exactly, where the last
  addition cannot overflow because the high byte of a signed product is at its
  largest only when the low one is zero (`SignedProduct`).
* `InstructionProofs`, of `Opcodes`: its four properties, for every word and every
  second word `OpcodesAssumption` allows, along an argument that says why the
  tables agree where the run only tries all words. A word is four digits, and a mask
  keeps each of them, drops it or keeps some of its bits (`Masks`), so a switch or a test
  is a condition on single digits, and the first match of a cascade the first
  condition that holds. From these follow what each function in the opcode table
  demands of its word, and which format such a word is decoded by; then
  `OperandsFresh` compares the latches of a function with those of its format.
  `EveryBitCounts` reads the word back from the function and its operands: a
  format's fields, with the digits its function fixes, leave no bit free.
  `AdvancesPastOperands` shows that the bound in which the size table's chain
  differs from the decoder's moves no word to or from the two formats of two words.
  `ListedAsExecuted` runs through both lists of switches side by side; they differ
  where BSET and BCLR have eight names each. The inductive invariant `LookedUp`
  says that latches, size and charge after decoding are those of the word. It rests
  on `Second` being neither an immediate operand nor `Stale`, so that a latch that
  holds it was loaded from the second word.
* `GdbStubProofs`: `NoReasonOverrun` and `NoStopUnasked`, for any program, any
  packets and any lost bytes. For the first the invariant says where each reason
  to stop is held between the run cycle that gave it and the debugger's entry, and
  that only the interactive debugger has watchpoints, as the other one's callout
  would raise the wrong flag. For the second it says, step by step of the loop,
  what a raised flag may stand for, and that a thread about to raise it has read a
  break request. For `TraceIsHistory` it says that the element printed k-th is the
  k-th of the remembered run cycles, with the ring one ahead of them between the
  store and the run.

* `KernelAwareProofs`: the types and every property of run `kernel_aware`, for any
  set of threads, IDs and addresses. That the list's entries are distinct and that
  the two callouts stay registered carries `FlagSticks`, `NoCycleChargedTwice`,
  `StackWatched` and `ListedThreadsReadable`. `OnlyThreadsListed` needs to know what
  the pointer is in the middle of a switch (`HighInv`, `SwitchInv`, `LowList`):
  whole and old when the high byte comes first, and else the new one's low byte
  with the old one's high byte (`LowPointers`). `ChargedToRunner` needs
  that the totals in the list match what each thread ran (`TotalsMatch`), that a
  thread that ran is listed before it is charged (`RanListed`), and that the thread
  and time cached are the runner's and the switch's (`RunnerSeen`).

Only model-checked: the liveness properties (`WakesUp`, `ProgrammingEnds`,
`TimedByteIsSent`, the second half of `ReceivedByteArrives`, `KeepsFiring`, `KeepsFiring0`,
`BreakRequestStops`), which TLAPS does not handle under fairness. Every safety
invariant and action property of a run that holds is a theorem.

## 5. Plan

Order of work, the most important behaviour first (done items marked):

1. done: `Interrupts`, `RunCycle`, `Cpu`, `InterruptPromise`, with proofs.
2. done: `Eeprom`, `Uart` with `TxFifo`, `Eint`, `Timer16`, with proofs.
3. done: `Timer8`, and `Timers`, the two timers on one controller, with proofs.
4. `Board`: the CPU with a timer and the EEPROM composed as `IO_Clock` and
   `IO_Write` compose them, with an interrupt handler and a main program sharing
   the 16-bit latch; abstract specification: a two-byte store is atomic when
   interrupts are off.
5. done: `Debugger`, `GdbStub`, with proofs. Left: the clock that disassembling a
   JMP or CALL gives the peripherals.
6. done: `WriteCallouts`, `KernelAware`, with proofs: callouts that run before the
   byte is stored, the two bytes of the current-thread pointer, the known-thread list,
   the thread GDB selects. Left: the memory GDB writes past the callouts.
7. done: `Alu`, `Arith`: the arithmetic opcodes, with proofs. `Opcodes`: the decode, size,
   cycle, execution and disassembly tables over every word. Left: loads and
   stores with their pointers, and a model of the whole data space.
8. `Loader`: records of hex files placed in words; `Options`.
9. Theorems: the board's atomicity.

## 6. Not modelled

Loaders, options and loads and stores are planned above; the profiler and the
symbol tables only count and look up, for printing. Of kernel awareness the
profiler, interrupt and trace records (`ka_profile.c`, `ka_interrupt.c`,
`ka_trace.c`) and the TLV file only write out what they are told. Of the
debuggers, the commands and packets that read or write registers and memory are left
out, but for the PC and the registers of a selected thread; of the thread
packets, the wording of what they report, and `Xfer:threads:read`, which the stub
answers with the IDs as they are but never offers. `Alu` leaves out the half carry (of the
branches only BRHC reads it), the fractional products and the bit opcodes. Register
and ELF printing only format text, and of the disassembler only the choice of
function and operands is modelled. Virtual devices (`ka_file.c`, `ka_graphics.c`,
`ka_joystick.c`) and the UART's server socket set-up are host I/O. Bytes lost or
delayed on the socket need no model of their own: the peer in `Uart` sends when
it likes. Nothing is persisted, so there is no crash recovery to model.
