-------------------------- MODULE KernelAwareProofs --------------------------
(***************************************************************************)
(* The safety properties of thread tracking for every program, number of   *)
(* threads, IDs and stacks, and either order of a pointer's bytes.         *)
(***************************************************************************)
EXTENDS KernelAware, TLAPS

----------------------------------------------------------------------------
(* Types.                                                                  *)

Entry == [ptr : Pointer, id : Id, total : Nat, active : BOOLEAN]

TypeOK ==
    /\ now \in Nat \ {0}
    /\ loop \in {"run", "stop", "exited", "crashed"}
    /\ highFirst \in BOOLEAN
    /\ curr \in Pointer
    /\ storing \in Pointer \cup {None}
    /\ memory \in [Pointer -> [id : Id, guard : GuardCells]]
    /\ made \subseteq Threads
    /\ creations \in Nat
    /\ flag \in {0, 1}
    /\ info \in Seq(Entry)
    /\ lastThread \in Pointer \cup {None}
    /\ lastTime \in Nat /\ lastTime <= now
    /\ mark3_thread \in Int
    /\ selectedListed \in BOOLEAN
    /\ runner \in Pointer
    /\ firstRun \in BOOLEAN
    /\ since \in Nat
    /\ ran \in [Threads \X Id -> Nat]

LEMMA PointerFacts ==
    /\ Null \in Pointer
    /\ Null \notin Threads
    /\ None \notin Pointer
    /\ Threads \subseteq Pointer
    /\ \A p, q \in Pointer : <<p[1], q[2]>> \in Pointer
    /\ \A p, q \in Pointer : p[1] = q[1] /\ p[2] = q[2] => p = q
    /\ \A p \in Pointer : p \in Threads => p[1] # 0
BY KernelAwareAssumption DEF Pointer, Null, None

LEMMA ListFacts ==
    ASSUME NEW es \in Seq(Entry)
    PROVE  /\ DOMAIN es = 1 .. Len(es) /\ Len(es) \in Nat
           /\ \A i \in 1 .. Len(es) :
                 es[i].ptr \in Pointer /\ es[i].id \in Id /\ es[i].total \in Nat
<1>1. \A e \in Entry : e.ptr \in Pointer /\ e.id \in Id /\ e.total \in Nat
  BY DEF Entry
<1>. QED  BY <1>1

----------------------------------------------------------------------------
(* What KA_ThreadChange does to the list.                                  *)

\* Mark3KA_AddKnownThread keeps the entries listed, retires those of other
\* threads at the same address, and appends the thread unless it is listed.
LEMMA AddResult ==
    ASSUME info \in Seq(Entry),
           memory \in [Pointer -> [id : Id, guard : GuardCells]],
           NEW p \in Pointer
    PROVE  LET out == Mark3KA_AddKnownThread(p)
           IN  /\ out \in Seq(Entry)
               /\ Len(out) \in {Len(info), Len(info) + 1}
               /\ \A i \in 1 .. Len(info) :
                     /\ out[i].ptr = info[i].ptr
                     /\ out[i].id = info[i].id
                     /\ out[i].total = info[i].total
                     /\ out[i].active => info[i].active
               /\ Len(out) = Len(info) + 1 =>
                     /\ p # Null
                     /\ out[Len(out)].ptr = p
                     /\ out[Len(out)].id = memory[p].id
                     /\ out[Len(out)].total = 0
                     /\ \A i \in 1 .. Len(info) : ~Same(info[i], p)
               /\ p # Null => \E i \in 1 .. Len(out) : Same(out[i], p)
               /\ p # Null => \A i \in 1 .. Len(out) :
                     out[i].active /\ out[i].ptr = p => out[i].id = memory[p].id
<1> DEFINE Retire(e) == IF e.ptr = p /\ ~Same(e, p) THEN [e EXCEPT !.active = FALSE] ELSE e
           retired == [i \in DOMAIN info |-> Retire(info[i])]
           new == [ptr |-> p, id |-> memory[p].id, total |-> 0, active |-> TRUE]
<1>1. /\ DOMAIN info = 1 .. Len(info) /\ Len(info) \in Nat
      /\ \A i \in 1 .. Len(info) : info[i] \in Entry
  OBVIOUS
<1>2. \A e \in Entry :
        /\ Retire(e) \in Entry
        /\ Retire(e).ptr = e.ptr /\ Retire(e).id = e.id /\ Retire(e).total = e.total
        /\ Retire(e).active => e.active
        /\ Retire(e).active /\ e.ptr = p => e.id = memory[p].id
  BY DEF Entry, Same
<1>3. /\ retired \in Seq(Entry)
      /\ Len(retired) = Len(info)
      /\ \A i \in 1 .. Len(info) : retired[i] = Retire(info[i])
  <2> HIDE DEF Retire
  <2>1. retired \in [1 .. Len(info) -> Entry]
    BY <1>1, <1>2
  <2>. QED  BY <1>1, <2>1
<1>4. new \in Entry
  BY DEF Entry
<1>5. \A i \in 1 .. Len(info) :
        /\ retired[i] \in Entry
        /\ retired[i].ptr = info[i].ptr
        /\ retired[i].id = info[i].id
        /\ retired[i].total = info[i].total
        /\ retired[i].active => info[i].active
        /\ retired[i].active /\ info[i].ptr = p => info[i].id = memory[p].id
  <2> HIDE DEF Retire, retired
  <2>. QED  BY <1>1, <1>2, <1>3
<1>6. CASE p = Null
  <2>1. Mark3KA_AddKnownThread(p) = info
    BY <1>6 DEF Mark3KA_AddKnownThread
  <2> DEFINE out == Mark3KA_AddKnownThread(p)
  <2>2. out = info
    BY <2>1
  <2> HIDE DEF out
  <2>3. out \in Seq(Entry) /\ Len(out) = Len(info) /\ Len(out) # Len(info) + 1
    <3>1. out \in Seq(Entry) /\ Len(out) = Len(info)
      BY <2>2
    <3>2. \A n \in Nat : n # n + 1
      OBVIOUS
    <3>. QED  BY <1>1, <3>1, <3>2
  <2>4. \A i \in 1 .. Len(info) : out[i] = info[i]
    BY <2>2
  <2> USE DEF out
  <2> HIDE DEF Mark3KA_AddKnownThread
  <2>. QED  BY <1>6, <2>3, <2>4
<1>7. CASE p # Null /\ \E e \in Entries : Same(e, p)
  <2>1. Mark3KA_AddKnownThread(p) = retired
    BY <1>7 DEF Mark3KA_AddKnownThread
  <2>2. PICK i \in 1 .. Len(info) : Same(info[i], p)
    BY <1>1, <1>7 DEF Entries
  <2>3. Same(retired[i], p)
    BY <1>5, <2>2 DEF Same
  <2> HIDE DEF retired, Retire
  <2>. QED  BY <1>3, <1>5, <1>7, <2>1, <2>3
<1>8. CASE p # Null /\ ~ \E e \in Entries : Same(e, p)
  <2>1. Mark3KA_AddKnownThread(p) = Append(retired, new)
    BY <1>8 DEF Mark3KA_AddKnownThread
  <2>2. \A i \in 1 .. Len(info) : ~Same(info[i], p)
    BY <1>1, <1>8 DEF Entries
  <2> DEFINE out == Append(retired, new)
  <2> HIDE DEF retired, Retire, new
  <2>3. /\ out \in Seq(Entry)
        /\ Len(out) = Len(info) + 1
        /\ out[Len(info) + 1] = new
        /\ \A i \in 1 .. Len(info) : out[i] = retired[i]
    BY <1>1, <1>3, <1>4
  <2>4. new.ptr = p /\ new.id = memory[p].id /\ new.total = 0 /\ Same(new, p)
    BY DEF new, Same
  <2>5. Same(out[Len(out)], p) /\ Len(out) \in 1 .. Len(out)
    BY <1>1, <2>3, <2>4
  <2>6. \A i \in 1 .. Len(out) :
          out[i].active /\ out[i].ptr = p => out[i].id = memory[p].id
    BY <1>1, <1>5, <2>3, <2>4
  <2> HIDE DEF out
  <2>7. \A i \in 1 .. Len(info) :
          /\ out[i].ptr = info[i].ptr
          /\ out[i].id = info[i].id
          /\ out[i].total = info[i].total
          /\ out[i].active => info[i].active
    BY <1>5, <2>3
  <2>8. Mark3KA_AddKnownThread(p) = out
    BY <2>1 DEF out
  <2>. QED  BY <1>8, <2>2, <2>3, <2>4, <2>5, <2>6, <2>7, <2>8
<1>. QED  BY <1>6, <1>7, <1>8

\* The charge changes totals only, and only of entries of the thread read before.
LEMMA ChargeResult ==
    ASSUME NEW es \in Seq(Entry), NEW p,
           now \in Nat, lastTime \in Nat, lastTime <= now
    PROVE  /\ Charge(es, p) \in Seq(Entry)
           /\ Len(Charge(es, p)) = Len(es)
           /\ \A i \in 1 .. Len(es) :
                 /\ Charge(es, p)[i].ptr = es[i].ptr
                 /\ Charge(es, p)[i].id = es[i].id
                 /\ Charge(es, p)[i].active = es[i].active
                 /\ Charge(es, p)[i].total =
                       IF lastThread # None /\ lastTime # 0 /\ Same(es[i], p)
                       THEN es[i].total + (now - lastTime) ELSE es[i].total
<1> DEFINE Charged(e) == IF lastThread # None /\ lastTime # 0 /\ Same(e, p)
                         THEN [e EXCEPT !.total = @ + now - lastTime] ELSE e
<1>1. /\ DOMAIN es = 1 .. Len(es) /\ Len(es) \in Nat
      /\ \A i \in 1 .. Len(es) : es[i] \in Entry
  OBVIOUS
<1>2. \A e \in Entry :
        /\ Charged(e) \in Entry
        /\ Charged(e).ptr = e.ptr /\ Charged(e).id = e.id /\ Charged(e).active = e.active
        /\ Charged(e).total = IF lastThread # None /\ lastTime # 0 /\ Same(e, p)
                              THEN e.total + (now - lastTime) ELSE e.total
  BY DEF Entry
<1>3. Charge(es, p) = [i \in 1 .. Len(es) |-> Charged(es[i])]
  BY <1>1 DEF Charge
<1> HIDE DEF Charged
<1>4. Charge(es, p) \in [1 .. Len(es) -> Entry]
  BY <1>1, <1>2, <1>3
<1>5. Charge(es, p) \in Seq(Entry) /\ Len(Charge(es, p)) = Len(es)
  BY <1>1, <1>4
<1>6. \A i \in 1 .. Len(es) : Charge(es, p)[i] = Charged(es[i])
  BY <1>3
<1>. QED  BY <1>1, <1>2, <1>5, <1>6

EntriesDistinct ==
    \A i, j \in 1 .. Len(info) :
        info[i].ptr = info[j].ptr /\ info[i].id = info[j].id => i = j

Listed(p) == \E i \in 1 .. Len(info) : Same(info[i], p)

TotalBefore(i) == IF i <= Len(info) THEN info[i].total ELSE 0

\* An entry charged by KA_ThreadChange, of the list after the addition.
Charged(e) == lastThread # None /\ lastTime # 0 /\ Same(e, lastThread)

\* The whole of KA_ThreadChange, on a list without repetitions.
LEMMA ChangeResult ==
    ASSUME TypeOK, EntriesDistinct, KA_ThreadChange, UNCHANGED memory
    PROVE  /\ info' \in Seq(Entry)
           /\ Len(info') \in {Len(info), Len(info) + 1}
           /\ \A i \in 1 .. Len(info) :
                 /\ info'[i].ptr = info[i].ptr
                 /\ info'[i].id = info[i].id
           /\ Len(info') = Len(info) + 1 =>
                 /\ curr # Null
                 /\ info'[Len(info')].ptr = curr
                 /\ info'[Len(info')].id = memory[curr].id
                 /\ \A i \in 1 .. Len(info) : ~Same(info[i], curr)
           /\ \A i \in 1 .. Len(info') :
                 info'[i].total =
                    IF Charged(info'[i]) THEN TotalBefore(i) + (now - lastTime)
                                         ELSE TotalBefore(i)
           /\ curr # Null => \E i \in 1 .. Len(info') : Same(info'[i], curr)
           /\ EntriesDistinct'
<1> DEFINE out == Mark3KA_AddKnownThread(curr)
<1>1. curr \in Pointer /\ Len(info) \in Nat
  BY DEF TypeOK
<1>2. /\ out \in Seq(Entry)
      /\ Len(out) \in {Len(info), Len(info) + 1}
      /\ \A i \in 1 .. Len(info) :
            out[i].ptr = info[i].ptr /\ out[i].id = info[i].id /\ out[i].total = info[i].total
      /\ Len(out) = Len(info) + 1 =>
            /\ curr # Null
            /\ out[Len(out)].ptr = curr
            /\ out[Len(out)].id = memory[curr].id
            /\ out[Len(out)].total = 0
            /\ \A i \in 1 .. Len(info) : ~Same(info[i], curr)
      /\ curr # Null => \E i \in 1 .. Len(out) : Same(out[i], curr)
  BY <1>1, AddResult DEF TypeOK
<1>3. info' = Charge(out, lastThread)
  BY DEF KA_ThreadChange
<1> HIDE DEF out
<1>4. /\ info' \in Seq(Entry)
      /\ Len(info') = Len(out)
      /\ \A i \in 1 .. Len(out) :
            /\ info'[i].ptr = out[i].ptr
            /\ info'[i].id = out[i].id
            /\ info'[i].total = IF lastThread # None /\ lastTime # 0 /\ Same(out[i], lastThread)
                                THEN out[i].total + (now - lastTime) ELSE out[i].total
  BY <1>2, <1>3, ChargeResult DEF TypeOK
<1>5. \A i \in 1 .. Len(out) : out[i].total = TotalBefore(i)
  BY <1>1, <1>2 DEF TotalBefore
<1>6. \A i \in 1 .. Len(out) : Same(out[i], lastThread) <=> Same(info'[i], lastThread)
  BY <1>4 DEF Same
<1>7. \A i \in 1 .. Len(info') :
        info'[i].total = IF Charged(info'[i]) THEN TotalBefore(i) + (now - lastTime)
                                              ELSE TotalBefore(i)
  BY <1>4, <1>5, <1>6 DEF Charged
<1>8. EntriesDistinct'
  <2> SUFFICES ASSUME NEW i \in 1 .. Len(info'), NEW j \in 1 .. Len(info'),
                      info'[i].ptr = info'[j].ptr, info'[i].id = info'[j].id
               PROVE  i = j
    BY DEF EntriesDistinct
  <2>1. CASE i <= Len(info) /\ j <= Len(info)
    BY <1>1, <1>2, <1>4, <2>1 DEF EntriesDistinct
  <2>2. CASE i > Len(info) /\ j > Len(info)
    BY <1>1, <1>2, <1>4, <2>2
  <2>3. ASSUME NEW k \in 1 .. Len(info), NEW l \in 1 .. Len(info'), l > Len(info),
               info'[k].ptr = info'[l].ptr, info'[k].id = info'[l].id
        PROVE  FALSE
    <3>1. l = Len(out) /\ Len(out) = Len(info) + 1
      BY <1>1, <1>2, <1>4, <2>3
    <3>2. info[k].ptr = curr /\ info[k].id = memory[curr].id
      BY <1>1, <1>2, <1>4, <2>3, <3>1
    <3>. QED
      BY <1>2, <2>3, <3>1, <3>2 DEF Same
  <2>. QED
    BY <1>1, <2>1, <2>2, <2>3
<1>9. curr # Null => \E i \in 1 .. Len(info') : Same(info'[i], curr)
  BY <1>2, <1>4 DEF Same
<1>. QED
  BY <1>1, <1>2, <1>4, <1>7, <1>8, <1>9

----------------------------------------------------------------------------
(* The callouts.                                                           *)

\* KA_Set and KA_ThreadChange stay registered, KA_Set for the flag alone.
CalloutInv ==
    /\ Callout("KA_Set", FlagCell) \in callouts
    /\ Callout("KA_ThreadChange", CurrentHigh) \in callouts
    /\ \A c \in callouts : c.function = "KA_Set" => c.addr = FlagCell

\* So every store of the pointer's high byte runs KA_ThreadChange and is made.
LEMMA StoreHighEffect ==
    ASSUME CalloutInv, NEW p, StoreHigh(p)
    PROVE  KA_ThreadChange /\ curr' = <<p[1], curr[2]>>
<1>1. "KA_ThreadChange" \in Called(callouts, CurrentHigh)
  BY DEF CalloutInv, Called, Callout
<1>2. "KA_Set" \notin Called(callouts, CurrentHigh)
  BY KernelAwareAssumption DEF CalloutInv, Called, AnyAddress
<1>3. WriteCallout_Run(callouts, CurrentHigh, {"KA_Set"})
  BY <1>2 DEF WriteCallout_Run
<1>. QED  BY <1>1, <1>3 DEF StoreHigh

\* A step runs KA_ThreadChange, or leaves the list and the callouts alone.
LEMMA StepKinds ==
    ASSUME CalloutInv, [Next]_vars
    PROVE  \/ KA_ThreadChange /\ UNCHANGED <<now, memory, made>>
           \/ UNCHANGED <<callouts, trackerVars>>
<1>1. CASE UNCHANGED vars
  BY <1>1 DEF vars, trackerVars
<1>2. CASE Program
  <2>1. CASE \E p \in Pointer : SwitchFirstByte(p)
    BY <2>1, StoreHighEffect DEF SwitchFirstByte, StoreLow
  <2>2. CASE SwitchSecondByte
    BY <2>2, StoreHighEffect DEF SwitchSecondByte, StoreLow
  <2>3. CASE ~ (\E p \in Pointer : SwitchFirstByte(p)) /\ ~SwitchSecondByte
    BY <1>2, <2>3 DEF Program, Tick, MakeThread, StoreFlag
  <2>. QED  BY <2>1, <2>2, <2>3
<1>3. CASE Gdb
  BY <1>3 DEF Gdb, Stop, Resume, GDB_Handler_ReadRegs, GDB_Handler_SetThread
<1>4. CASE Exit
  BY <1>4 DEF Exit, programVars
<1>. QED  BY <1>1, <1>2, <1>3, <1>4 DEF Next

LEMMA CalloutInvariant == Spec => []CalloutInv
<1>1. Init => CalloutInv
  BY DEF Init, CalloutInv, Callout
<1>2. CalloutInv /\ [Next]_vars => CalloutInv'
  <2> SUFFICES ASSUME CalloutInv, [Next]_vars PROVE CalloutInv'
    OBVIOUS
  <2>1. CASE KA_ThreadChange
    BY <2>1 DEF KA_ThreadChange, WatchStack, WriteCallout_Add, Callout, CalloutInv
  <2>2. CASE UNCHANGED <<callouts, trackerVars>>
    BY <2>2 DEF CalloutInv
  <2>. QED  BY <2>1, <2>2, StepKinds
<1>. QED  BY <1>1, <1>2, PTL DEF Spec

\* No store of the program clears the kernel-aware flag once it is set: KA_Set
\* stays registered, and its veto is enough.
THEOREM FlagIsKept == Spec => FlagSticks
<1>1. CalloutInv /\ [Next]_vars => [flag = 1 => flag' = 1]_vars
  <2> SUFFICES ASSUME CalloutInv, Next, flag = 1 PROVE flag' = 1
    BY DEF vars
  <2>1. CASE \E v \in {0, 1} : StoreFlag(v)
    <3>1. "KA_Set" \in Called(callouts, FlagCell)
      BY DEF CalloutInv, Called, Callout
    <3>2. ~WriteCallout_Run(callouts, FlagCell, {"KA_Set"})
      BY <3>1 DEF WriteCallout_Run
    <3>. QED  BY <2>1, <3>2 DEF StoreFlag
  <2>2. CASE ~ \E v \in {0, 1} : StoreFlag(v)
    <3>1. flag' = flag
      BY <2>2
         DEF Next, Program, Gdb, Tick, MakeThread, SwitchFirstByte, SwitchSecondByte,
             Stop, Resume, GDB_Handler_ReadRegs, GDB_Handler_SetThread, Exit, programVars
    <3>. QED  BY <3>1
  <2>. QED  BY <2>1, <2>2
<1>. QED  BY <1>1, CalloutInvariant, PTL DEF Spec, FlagSticks

----------------------------------------------------------------------------
(* Type correctness, and a list without repetitions.                       *)

LEMMA CreditedType ==
    ASSUME TypeOK
    PROVE  /\ Credited \in [Threads \X Id -> Nat]
           /\ ~firstRun /\ runner \in Threads =>
                 \A k \in Threads \X Id :
                    Credited[k] = IF k = <<runner, memory[runner].id>>
                                  THEN ran[k] + since ELSE ran[k]
           /\ firstRun \/ runner \notin Threads => Credited = ran
<1>1. CASE firstRun \/ runner \notin Threads
  BY <1>1 DEF Credited, TypeOK
<1>2. CASE ~firstRun /\ runner \in Threads
  <2> DEFINE key == <<runner, memory[runner].id>>
  <2>1. key \in Threads \X Id
    BY <1>2, PointerFacts DEF TypeOK
  <2>2. Credited = [ran EXCEPT ![key] = @ + since]
    BY <1>2 DEF Credited
  <2>3. ran \in [Threads \X Id -> Nat] /\ since \in Nat
    BY DEF TypeOK
  <2> HIDE DEF key
  <2>4. \A k \in Threads \X Id : Credited[k] = IF k = key THEN ran[k] + since ELSE ran[k]
    BY <2>2, <2>3
  <2>5. Credited \in [Threads \X Id -> Nat]
    BY <2>1, <2>2, <2>3
  <2>. QED  BY <1>2, <2>4, <2>5 DEF key
<1>. QED  BY <1>1, <1>2

LEMMA ChangeTypes ==
    ASSUME TypeOK, EntriesDistinct, KA_ThreadChange, UNCHANGED <<now, memory>>
    PROVE  /\ info' \in Seq(Entry)
           /\ EntriesDistinct'
           /\ lastThread' = curr /\ lastTime' = now
<1>1. info' \in Seq(Entry) /\ EntriesDistinct'
  BY ChangeResult
<1>. QED  BY <1>1 DEF KA_ThreadChange

LEMMA StoreHighTypes ==
    ASSUME TypeOK, EntriesDistinct, CalloutInv, NEW p \in Pointer, StoreHigh(p),
           UNCHANGED <<now, memory>>
    PROVE  /\ info' \in Seq(Entry)
           /\ EntriesDistinct'
           /\ lastThread' = curr /\ lastTime' = now
           /\ curr' = <<p[1], curr[2]>> /\ curr' \in Pointer
           /\ runner' = p /\ since' = 0
           /\ firstRun' = (runner = Null)
           /\ ran' = Credited /\ ran' \in [Threads \X Id -> Nat]
<1>1. KA_ThreadChange /\ curr' = <<p[1], curr[2]>>
  BY StoreHighEffect
<1>2. curr' \in Pointer
  BY <1>1, PointerFacts DEF TypeOK
<1>. QED  BY <1>1, <1>2, ChangeTypes, CreditedType DEF StoreHigh

LEMMA StoreLowTypes ==
    ASSUME TypeOK, EntriesDistinct, NEW p \in Pointer, StoreLow(p)
    PROVE  /\ EntriesDistinct'
           /\ UNCHANGED <<callouts, info, lastThread, lastTime, runner, firstRun, since, ran>>
           /\ curr' = <<curr[1], p[2]>> /\ curr' \in Pointer
<1>1. /\ UNCHANGED <<callouts, info, lastThread, lastTime, runner, firstRun, since, ran>>
      /\ curr' = <<curr[1], p[2]>>
  BY DEF StoreLow, trackerVars, historyVars
<1>2. curr' \in Pointer
  BY <1>1, PointerFacts DEF TypeOK
<1>. QED  BY <1>1, <1>2 DEF EntriesDistinct

LEMMA SwitchTypes ==
    ASSUME TypeOK, EntriesDistinct, CalloutInv,
           (\E p \in Pointer : SwitchFirstByte(p)) \/ SwitchSecondByte
    PROVE  TypeOK' /\ EntriesDistinct'
<1>1. /\ UNCHANGED <<now, loop, highFirst, memory, made, creations, flag, mark3_thread,
                     selectedListed>>
      /\ storing' \in Pointer \cup {None}
  BY DEF SwitchFirstByte, SwitchSecondByte, gdbVars
<1>2. \E p \in Pointer : StoreHigh(p) \/ StoreLow(p)
  <2>1. CASE \E p \in Pointer : SwitchFirstByte(p)
    BY <2>1 DEF SwitchFirstByte
  <2>2. CASE SwitchSecondByte
    BY <2>2 DEF SwitchSecondByte, TypeOK
  <2>. QED  BY <2>1, <2>2
<1>3. ASSUME NEW p \in Pointer, StoreHigh(p)
      PROVE  TypeOK' /\ EntriesDistinct'
  <2>1. /\ info' \in Seq(Entry) /\ EntriesDistinct'
        /\ lastThread' = curr /\ lastTime' = now
        /\ curr' \in Pointer /\ runner' = p /\ since' = 0
        /\ firstRun' = (runner = Null)
        /\ ran' \in [Threads \X Id -> Nat]
    BY <1>1, <1>3, StoreHighTypes
  <2>. QED  BY <1>1, <2>1 DEF TypeOK
<1>4. ASSUME NEW p \in Pointer, StoreLow(p)
      PROVE  TypeOK' /\ EntriesDistinct'
  <2>1. /\ EntriesDistinct'
        /\ UNCHANGED <<callouts, info, lastThread, lastTime, runner, firstRun, since, ran>>
        /\ curr' \in Pointer
    BY <1>4, StoreLowTypes
  <2>. QED  BY <1>1, <2>1 DEF TypeOK
<1>. QED  BY <1>2, <1>3, <1>4

LEMMA TypeStep ==
    ASSUME TypeOK, EntriesDistinct, CalloutInv, [Next]_vars
    PROVE  TypeOK' /\ EntriesDistinct'
<1>1. CASE Tick
  BY <1>1 DEF Tick, programVars, trackerVars, gdbVars, TypeOK, EntriesDistinct
<1>2. ASSUME NEW p \in Threads, NEW id \in Id, NEW g \in GuardCells, MakeThread(p, id, g)
      PROVE  TypeOK' /\ EntriesDistinct'
  <2>1. memory' \in [Pointer -> [id : Id, guard : GuardCells]] /\ made' \subseteq Threads
    BY <1>2 DEF MakeThread, TypeOK
  <2>. QED
    BY <1>2, <2>1 DEF MakeThread, trackerVars, gdbVars, historyVars, TypeOK, EntriesDistinct
<1>3. CASE (\E p \in Pointer : SwitchFirstByte(p)) \/ SwitchSecondByte
  BY <1>3, SwitchTypes
<1>4. ASSUME NEW v \in {0, 1}, StoreFlag(v)
      PROVE  TypeOK' /\ EntriesDistinct'
  BY <1>4 DEF StoreFlag, trackerVars, gdbVars, historyVars, TypeOK, EntriesDistinct
<1>5. CASE Stop \/ Resume \/ GDB_Handler_ReadRegs
  <2>1. /\ UNCHANGED <<now, programVars, callouts, trackerVars, historyVars>>
    BY <1>5 DEF Stop, Resume, GDB_Handler_ReadRegs
  <2>2. loop' \in {"run", "stop", "exited", "crashed"}
    BY <1>5 DEF Stop, Resume, GDB_Handler_ReadRegs, TypeOK
  <2>3. \/ UNCHANGED <<mark3_thread, selectedListed>>
        \/ mark3_thread' = -1 /\ selectedListed' = FALSE
    BY <1>5 DEF Stop, Resume, GDB_Handler_ReadRegs, NoThread, gdbVars
  <2>4. -1 \in Int
    OBVIOUS
  <2>5. mark3_thread' \in Int
    BY <2>3, <2>4 DEF TypeOK
  <2>6. selectedListed' \in BOOLEAN
    BY <2>3 DEF TypeOK
  <2>. QED
    BY <2>1, <2>2, <2>5, <2>6 DEF programVars, trackerVars, historyVars, TypeOK, EntriesDistinct
<1>6. ASSUME NEW gdbId \in Int, GDB_Handler_SetThread(gdbId)
      PROVE  TypeOK' /\ EntriesDistinct'
  <2>1. mark3_thread' \in Int /\ selectedListed' \in BOOLEAN
    BY <1>6 DEF GDB_Handler_SetThread
  <2>. QED
    BY <1>6, <2>1 DEF GDB_Handler_SetThread, programVars, trackerVars, historyVars, TypeOK,
                      EntriesDistinct
<1>7. CASE Exit
  <2>1. /\ UNCHANGED <<now, highFirst, curr, storing, memory, made, creations, flag,
                       mark3_thread, selectedListed, runner, firstRun, since>>
        /\ loop' = "exited" /\ ran' = Credited /\ KA_ThreadChange
    BY <1>7 DEF Exit, programVars, gdbVars
  <2>2. /\ info' \in Seq(Entry) /\ EntriesDistinct'
        /\ lastThread' = curr /\ lastTime' = now
    BY <2>1, ChangeTypes
  <2>3. ran' \in [Threads \X Id -> Nat]
    BY <2>1, CreditedType
  <2>. QED  BY <2>1, <2>2, <2>3 DEF TypeOK
<1>8. CASE UNCHANGED vars
  BY <1>8 DEF vars, programVars, trackerVars, gdbVars, historyVars, TypeOK, EntriesDistinct
<1>9. \A id \in Id : ThreadInfoId(id) \in Int /\ QC(id) \in Int
  BY KernelAwareAssumption DEF ThreadInfoId, QC
<1>. QED
  BY <1>1, <1>2, <1>3, <1>4, <1>5, <1>6, <1>7, <1>8, <1>9 DEF Next, Program, Gdb

\* The variables have their types, and no thread is listed twice.
THEOREM TypeCorrect == Spec => [](TypeOK /\ EntriesDistinct)
<1>1. Init => TypeOK /\ EntriesDistinct
  <2> SUFFICES ASSUME Init PROVE TypeOK /\ EntriesDistinct
    OBVIOUS
  <2>1. memory \in [Pointer -> [id : Id, guard : GuardCells]]
    BY KernelAwareAssumption DEF Init
  <2>2. info \in Seq(Entry) /\ Len(info) = 0
    BY DEF Init
  <2>3. EntriesDistinct
    BY <2>2 DEF EntriesDistinct
  <2>4. ran \in [Threads \X Id -> Nat]
    BY DEF Init
  <2>5. mark3_thread \in Int /\ lastTime <= now /\ now \in Nat \ {0}
    BY DEF Init, NoThread
  <2>6. curr \in Pointer /\ runner \in Pointer
    BY PointerFacts DEF Init
  <2>7. /\ loop \in {"run", "stop", "exited", "crashed"}
        /\ flag \in {0, 1} /\ creations \in Nat /\ since \in Nat /\ lastTime \in Nat
        /\ made \subseteq Threads
    BY DEF Init
  <2>8. highFirst \in BOOLEAN /\ selectedListed \in BOOLEAN /\ firstRun \in BOOLEAN
    BY DEF Init
  <2>9. storing \in Pointer \cup {None} /\ lastThread \in Pointer \cup {None}
    BY DEF Init
  <2>. QED
    BY <2>1, <2>2, <2>3, <2>4, <2>5, <2>6, <2>7, <2>8, <2>9 DEF TypeOK
<1>2. TypeOK /\ EntriesDistinct /\ CalloutInv /\ [Next]_vars => TypeOK' /\ EntriesDistinct'
  BY TypeStep
<1>. QED  BY <1>1, <1>2, CalloutInvariant, PTL DEF Spec

----------------------------------------------------------------------------
(* Charging.                                                               *)

\* No cycle is charged to two threads, nor twice to one: the one entry that can
\* gain is that of the thread read at the call before.
THEOREM ChargedOnce == Spec => NoCycleChargedTwice
<1>1. ASSUME TypeOK, EntriesDistinct, CalloutInv, [Next]_vars
      PROVE  /\ \A i, j \in DOMAIN info' : Gain(i) # 0 /\ Gain(j) # 0 => i = j
             /\ \A i \in DOMAIN info' : Gain(i) \in 0 .. lastTime' - lastTime
  <2>1. CASE KA_ThreadChange /\ UNCHANGED <<now, memory, made>>
    <3>1. /\ info' \in Seq(Entry) /\ EntriesDistinct'
          /\ \A i \in 1 .. Len(info') :
                info'[i].total =
                   IF Charged(info'[i]) THEN TotalBefore(i) + (now - lastTime)
                                        ELSE TotalBefore(i)
      BY <1>1, <2>1, ChangeResult
    <3>2. /\ DOMAIN info = 1 .. Len(info) /\ Len(info) \in Nat
          /\ DOMAIN info' = 1 .. Len(info') /\ Len(info') \in Nat
          /\ \A i \in 1 .. Len(info) : info[i].total \in Nat
      BY <1>1, <3>1, ListFacts DEF TypeOK
    <3>3. \A i \in 1 .. Len(info') : TotalBefore(i) \in Nat
      BY <3>2 DEF TotalBefore
    <3>4. \A i \in 1 .. Len(info') : Gain(i) = info'[i].total - TotalBefore(i)
      BY <3>2 DEF Gain, TotalBefore
    <3>5. lastTime \in Nat /\ now \in Nat /\ lastTime <= now /\ lastTime' = now
      BY <1>1, <2>1 DEF TypeOK, KA_ThreadChange
    <3>6. \A i \in 1 .. Len(info') :
            Gain(i) = IF Charged(info'[i]) THEN now - lastTime ELSE 0
      BY <3>1, <3>3, <3>4, <3>5
    <3>7. \A i \in 1 .. Len(info') : Gain(i) \in 0 .. lastTime' - lastTime
      BY <3>5, <3>6
    <3>8. \A i, j \in 1 .. Len(info') :
            Charged(info'[i]) /\ Charged(info'[j]) => i = j
      BY <3>1 DEF Charged, Same, EntriesDistinct
    <3>. QED  BY <3>2, <3>6, <3>7, <3>8
  <2>2. CASE UNCHANGED <<callouts, trackerVars>>
    <3>1. info' = info /\ lastTime' = lastTime
      BY <2>2 DEF trackerVars
    <3>2. \A i \in DOMAIN info : info[i].total \in Nat
      BY <1>1, ListFacts DEF TypeOK
    <3>3. \A i \in DOMAIN info' : Gain(i) = 0
      BY <3>1, <3>2 DEF Gain
    <3>4. 0 \in 0 .. lastTime' - lastTime
      BY <1>1, <3>1 DEF TypeOK
    <3>. QED  BY <3>3, <3>4
  <2>. QED  BY <1>1, <2>1, <2>2, StepKinds
<1>. QED  BY <1>1, CalloutInvariant, TypeCorrect, PTL DEF Spec, NoCycleChargedTwice

----------------------------------------------------------------------------
(* Stack guards.                                                           *)

WatchInv ==
    lastThread = runner /\ loop # "exited" =>
        Callout("KA_StackWarning", memory[runner].guard) \in callouts

\* The guard byte of a running thread that was seen is watched.
THEOREM WatchCorrect == Spec => []StackWatched
<1>1. Init => WatchInv
  BY PointerFacts DEF Init, WatchInv
<1>2. TypeOK /\ CalloutInv /\ WatchInv /\ [Next]_vars => WatchInv'
  <2> SUFFICES ASSUME TypeOK, CalloutInv, WatchInv, [Next]_vars PROVE WatchInv'
    OBVIOUS
  <2>1. ASSUME NEW p, StoreHigh(p), UNCHANGED <<loop, memory>> PROVE WatchInv'
    <3>1. /\ lastThread' = curr /\ runner' = p
          /\ callouts' = callouts \cup {Callout("KA_StackWarning", memory[curr].guard)}
      BY <2>1, StoreHighEffect DEF KA_ThreadChange, StoreHigh, WatchStack, WriteCallout_Add
    <3>. QED  BY <2>1, <3>1 DEF WatchInv
  <2>2. ASSUME NEW p, StoreLow(p), UNCHANGED <<loop, memory>> PROVE WatchInv'
    BY <2>2 DEF StoreLow, trackerVars, historyVars, WatchInv
  <2>3. CASE \E p \in Pointer : SwitchFirstByte(p)
    BY <2>1, <2>2, <2>3 DEF SwitchFirstByte
  <2>4. CASE SwitchSecondByte
    BY <2>1, <2>2, <2>4 DEF SwitchSecondByte
  <2>5. ASSUME NEW p \in Threads, NEW id \in Id, NEW g \in GuardCells, MakeThread(p, id, g)
        PROVE  WatchInv'
    <3>1. /\ p # runner
          /\ UNCHANGED <<loop, callouts, lastThread, runner>>
          /\ memory' = [memory EXCEPT ![p] = [id |-> id, guard |-> g]]
      BY <2>5 DEF MakeThread, trackerVars, historyVars
    <3>2. memory'[runner] = memory[runner]
      BY <3>1 DEF TypeOK
    <3>. QED  BY <3>1, <3>2 DEF WatchInv
  <2>6. CASE Tick \/ \E v \in {0, 1} : StoreFlag(v)
    BY <2>6 DEF Tick, StoreFlag, programVars, trackerVars, historyVars, WatchInv
  <2>7. CASE Gdb
    <3>1. UNCHANGED <<memory, callouts, lastThread, runner>> /\ loop # "exited"
      BY <2>7 DEF Gdb, Stop, Resume, GDB_Handler_ReadRegs, GDB_Handler_SetThread, programVars,
                  trackerVars, historyVars, Running, Stopped
    <3>. QED  BY <3>1 DEF WatchInv
  <2>8. CASE Exit
    BY <2>8 DEF Exit, WatchInv
  <2>9. CASE UNCHANGED vars
    BY <2>9 DEF vars, programVars, trackerVars, historyVars, WatchInv
  <2>. QED
    BY <2>3, <2>4, <2>5, <2>6, <2>7, <2>8, <2>9 DEF Next, Program
<1>3. WatchInv => StackWatched
  BY DEF WatchInv, StackWatched, Running
<1>. QED  BY <1>1, <1>2, <1>3, CalloutInvariant, TypeCorrect, PTL DEF Spec

----------------------------------------------------------------------------
(* GDB's threads.                                                          *)

SelectInv ==
    /\ Running => ~selectedListed
    /\ Stopped /\ selectedListed => HasContext(mark3_thread)
    /\ loop = "crashed" => ~selectedListed

\* A thread selected by an id of this stop's list can be read, and reading it is no
\* crash; an id that only qC told may still crash the read.
THEOREM SelectedReadable == Spec => []ListedThreadsReadable
<1>1. Init => SelectInv
  BY DEF Init, SelectInv, Running, Stopped
<1>2. SelectInv /\ [Next]_vars => SelectInv'
  <2> SUFFICES ASSUME SelectInv, [Next]_vars PROVE SelectInv'
    OBVIOUS
  <2>1. CASE Program
    <3>1. Running /\ UNCHANGED <<loop, mark3_thread, selectedListed>>
      BY <2>1 DEF Program, Tick, MakeThread, SwitchFirstByte, SwitchSecondByte, StoreFlag,
                  gdbVars
    <3>. QED  BY <3>1 DEF SelectInv, Running, Stopped
  <2>2. CASE Gdb
    <3>1. info' = info
      BY <2>2 DEF Gdb, Stop, Resume, GDB_Handler_ReadRegs, GDB_Handler_SetThread, trackerVars
    <3>2. ActiveIds' = ActiveIds
      BY <3>1 DEF ActiveIds, Entries
    <3>3. CASE Stop
      BY <3>3 DEF Stop, gdbVars, SelectInv, Running, Stopped
    <3>4. CASE Resume
      BY <3>4 DEF Resume, SelectInv, Stopped
    <3>5. CASE GDB_Handler_ReadRegs
      <4>1. /\ Stopped /\ UNCHANGED <<mark3_thread, selectedListed>>
            /\ loop' \in {loop, "crashed"}
            /\ loop' = "crashed" => ~HasContext(mark3_thread)
        BY <3>5 DEF GDB_Handler_ReadRegs, gdbVars, Stopped
      <4>. QED  BY <3>2, <4>1 DEF SelectInv, Running, Stopped, HasContext
    <3>6. ASSUME NEW id, GDB_Handler_SetThread(id)
          PROVE  SelectInv'
      BY <3>2, <3>6 DEF GDB_Handler_SetThread, SelectInv, Running, Stopped, HasContext
    <3>. QED  BY <2>2, <3>3, <3>4, <3>5, <3>6 DEF Gdb
  <2>3. CASE Exit
    BY <2>3 DEF Exit, SelectInv, Running, Stopped
  <2>4. CASE UNCHANGED vars
    <3>1. UNCHANGED <<loop, info, mark3_thread, selectedListed>>
      BY <2>4 DEF vars, trackerVars, gdbVars
    <3>. QED  BY <3>1 DEF SelectInv, Running, Stopped, HasContext, ActiveIds, Entries
  <2>. QED  BY <2>1, <2>2, <2>3, <2>4 DEF Next
<1>3. SelectInv => ListedThreadsReadable
  BY DEF SelectInv, ListedThreadsReadable
<1>. QED  BY <1>1, <1>2, <1>3, PTL DEF Spec

----------------------------------------------------------------------------
(* What the pointer is in the middle of a switch.                          *)

AllMade == \A i \in 1 .. Len(info) : info[i].ptr \in made

HighInv ==
    highFirst =>
        /\ storing = None => curr \in made \cup {Null}
        /\ storing # None => curr[1] = storing[1] /\ storing \in made \cup {Null}
        /\ IF loop # "exited" \/ storing = None THEN AllMade
           ELSE \A i \in 1 .. Len(info) : info[i].ptr \in made \cup {curr}

SwitchInv ==
    ~highFirst =>
        /\ runner \in made \cup {Null}
        /\ storing = None => curr = runner
        /\ storing # None =>
              curr[1] = runner[1] /\ curr[2] = storing[2] /\ storing \in made \cup {runner}

LowPointers ==
    {p \in Pointer : \E old \in made \cup {Null}, new \in made : p = <<old[1], new[2]>>}

LowList == ~highFirst => \A i \in 1 .. Len(info) : info[i].ptr \in LowPointers

ListInv == HighInv /\ SwitchInv /\ LowList

\* The low byte first: the pointer read is null, or the low byte of one thread and
\* the high byte of null or of a thread.
LEMMA PointerRead ==
    ASSUME TypeOK, SwitchInv, ~highFirst, curr # Null
    PROVE  curr \in LowPointers
<1>1. curr \in Pointer /\ made \subseteq Pointer /\ curr = <<curr[1], curr[2]>>
  BY PointerFacts DEF TypeOK, Pointer
<1>2. CASE storing = None
  BY <1>1, <1>2 DEF SwitchInv, LowPointers
<1>3. CASE storing # None
  <2>1. /\ runner \in made \cup {Null}
        /\ curr[1] = runner[1] /\ curr[2] = storing[2] /\ storing \in made \cup {runner}
    BY <1>3 DEF SwitchInv
  <2>2. storing \in made
    <3>1. CASE storing = Null /\ runner = Null
      BY <1>1, <2>1, <3>1 DEF Null
    <3>2. CASE ~(storing = Null /\ runner = Null)
      BY <2>1, <3>2
    <3>. QED  BY <3>1, <3>2
  <2>. QED  BY <1>1, <2>1, <2>2 DEF LowPointers
<1>. QED  BY <1>2, <1>3

\* On one page such a pointer is that of a thread, unless its page is null's.
LEMMA OnePagePointer ==
    ASSUME TypeOK, OnePage, NEW p \in LowPointers, p[1] # 0
    PROVE  p \in made
<1>1. PICK old \in made \cup {Null}, new \in made : p = <<old[1], new[2]>>
  BY DEF LowPointers
<1>2. old \in made /\ new \in Pointer
  BY <1>1, PointerFacts DEF Null, TypeOK
<1>3. p[1] = new[1] /\ p[2] = new[2]
  BY <1>1, <1>2 DEF OnePage
<1>. QED  BY <1>2, <1>3, PointerFacts DEF LowPointers

\* An invariant of the entries' pointers survives KA_ThreadChange if the pointer
\* read satisfies it.
LEMMA ChangeLists ==
    ASSUME TypeOK, EntriesDistinct, KA_ThreadChange, UNCHANGED memory, NEW P,
           \A i \in 1 .. Len(info) : info[i].ptr \in P,
           curr # Null => curr \in P
    PROVE  \A i \in 1 .. Len(info') : info'[i].ptr \in P
<1>1. /\ Len(info) \in Nat /\ Len(info') \in Nat
      /\ Len(info') \in {Len(info), Len(info) + 1}
      /\ \A i \in 1 .. Len(info) : info'[i].ptr = info[i].ptr
      /\ Len(info') = Len(info) + 1 =>
            /\ curr # Null
            /\ info'[Len(info')].ptr = curr
  BY ChangeResult, ListFacts DEF TypeOK
<1>. QED  BY <1>1

LEMMA ListStep ==
    ASSUME TypeOK, EntriesDistinct, CalloutInv, ListInv, [Next]_vars
    PROVE  ListInv'
<1>1. TypeOK'
  BY TypeStep
<1>2. ASSUME KA_ThreadChange, UNCHANGED <<memory, made, highFirst>>
      PROVE  /\ LowList'
             /\ highFirst /\ curr \in made \cup {Null} /\ AllMade => AllMade'
             /\ highFirst /\ AllMade =>
                   \A i \in 1 .. Len(info') : info'[i].ptr \in made \cup {curr}
  <2>1. ASSUME ~highFirst
        PROVE  \A i \in 1 .. Len(info') : info'[i].ptr \in LowPointers
    <3>1. \A i \in 1 .. Len(info) : info[i].ptr \in LowPointers
      BY <2>1 DEF ListInv, LowList
    <3>2. curr # Null => curr \in LowPointers
      BY <2>1, PointerRead DEF ListInv
    <3>. QED  BY <1>2, <3>1, <3>2, ChangeLists
  <2>2. LowPointers' = LowPointers
    BY <1>2 DEF LowPointers
  <2>3. LowList'
    BY <1>2, <2>1, <2>2 DEF LowList
  <2>4. ASSUME curr \in made \cup {Null}, AllMade
        PROVE  \A i \in 1 .. Len(info') : info'[i].ptr \in made
    BY <1>2, <2>4, ChangeLists DEF AllMade
  <2>5. ASSUME AllMade
        PROVE  \A i \in 1 .. Len(info') : info'[i].ptr \in made \cup {curr}
    BY <1>2, <2>5, ChangeLists DEF AllMade
  <2>. QED  BY <1>2, <2>3, <2>4, <2>5 DEF AllMade
<1>3. ASSUME UNCHANGED <<info, made, highFirst>>
      PROVE  LowList' /\ (AllMade => AllMade')
  <2>1. LowList'
    BY <1>3 DEF ListInv, LowList, LowPointers
  <2>2. AllMade => AllMade'
    BY <1>3 DEF AllMade
  <2>. QED  BY <2>1, <2>2
<1>4. ASSUME NEW p \in Pointer, SwitchFirstByte(p)
      PROVE  ListInv'
  <2>1. /\ storing = None /\ storing' = p /\ p \in made \cup {curr} /\ p # None
        /\ loop = "run" /\ UNCHANGED <<loop, memory, made, highFirst>>
    BY <1>4, PointerFacts DEF SwitchFirstByte, Running
  <2>2. CASE highFirst
    <3>1. StoreHigh(p)
      BY <1>4, <2>2 DEF SwitchFirstByte
    <3>2. KA_ThreadChange /\ curr' = <<p[1], curr[2]>>
      BY <3>1, StoreHighEffect
    <3>3. curr \in made \cup {Null} /\ AllMade
      BY <2>1, <2>2 DEF ListInv, HighInv
    <3>. QED
      BY <1>2, <2>1, <2>2, <3>2, <3>3 DEF ListInv, HighInv, SwitchInv
  <2>3. CASE ~highFirst
    <3>1. curr' = <<curr[1], p[2]>> /\ UNCHANGED <<info, runner>>
      BY <1>4, <2>3 DEF SwitchFirstByte, StoreLow, trackerVars, historyVars
    <3>2. curr = runner /\ runner \in made \cup {Null}
      BY <2>1, <2>3 DEF ListInv, SwitchInv
    <3>. QED
      BY <1>3, <2>1, <2>3, <3>1, <3>2 DEF ListInv, HighInv, SwitchInv
  <2>. QED  BY <2>2, <2>3
<1>5. CASE SwitchSecondByte
  <2>1. /\ storing # None /\ storing' = None /\ storing \in Pointer /\ curr \in Pointer
        /\ loop = "run" /\ UNCHANGED <<loop, memory, made, highFirst>>
    BY <1>5 DEF SwitchSecondByte, Running, TypeOK
  <2>2. CASE highFirst
    <3>1. curr' = <<curr[1], storing[2]>> /\ UNCHANGED info
      BY <1>5, <2>2 DEF SwitchSecondByte, StoreLow, trackerVars
    <3>2. curr[1] = storing[1] /\ storing \in made \cup {Null} /\ AllMade
      BY <2>1, <2>2 DEF ListInv, HighInv
    <3>3. curr' = storing
      BY <1>1, <2>1, <3>1, <3>2, PointerFacts DEF TypeOK
    <3>. QED
      BY <1>3, <2>1, <2>2, <3>1, <3>2, <3>3 DEF ListInv, HighInv, SwitchInv
  <2>3. CASE ~highFirst
    <3>1. StoreHigh(storing)
      BY <1>5, <2>3 DEF SwitchSecondByte
    <3>2. KA_ThreadChange /\ curr' = <<storing[1], curr[2]>> /\ runner' = storing
      BY <3>1, StoreHighEffect DEF StoreHigh
    <3>3. /\ curr[2] = storing[2] /\ storing \in made \cup {runner}
          /\ runner \in made \cup {Null}
      BY <2>1, <2>3 DEF ListInv, SwitchInv
    <3>4. curr' = storing
      BY <1>1, <2>1, <3>2, <3>3, PointerFacts DEF TypeOK
    <3>. QED
      BY <1>2, <2>1, <2>3, <3>2, <3>3, <3>4 DEF ListInv, HighInv, SwitchInv
  <2>. QED  BY <2>2, <2>3
<1>6. ASSUME NEW p \in Threads, NEW id \in Id, NEW g \in GuardCells, MakeThread(p, id, g)
      PROVE  ListInv'
  <2>1. /\ made' = made \cup {p}
        /\ UNCHANGED <<loop, highFirst, curr, storing, info, runner>>
    BY <1>6 DEF MakeThread, trackerVars, historyVars
  <2>2. \A q \in LowPointers : q \in LowPointers'
    BY <2>1 DEF LowPointers
  <2>3. LowList'
    BY <2>1, <2>2 DEF ListInv, LowList
  <2>4. AllMade => AllMade'
    BY <2>1 DEF AllMade
  <2>. QED
    BY <2>1, <2>3, <2>4 DEF ListInv, HighInv, SwitchInv
<1>7. CASE Tick \/ (\E v \in {0, 1} : StoreFlag(v)) \/ Gdb
  <2>1. /\ UNCHANGED <<highFirst, curr, storing, made, info, runner>>
        /\ loop # "exited"
    BY <1>7 DEF Tick, StoreFlag, Gdb, Stop, Resume, GDB_Handler_ReadRegs,
                GDB_Handler_SetThread, programVars, trackerVars, historyVars, Running, Stopped
  <2>2. HighInv'
    BY <2>1 DEF ListInv, HighInv, AllMade
  <2>3. SwitchInv'
    BY <2>1 DEF ListInv, SwitchInv
  <2>. QED  BY <1>3, <2>1, <2>2, <2>3 DEF ListInv
<1>8. CASE Exit
  <2>1. /\ KA_ThreadChange /\ loop # "exited" /\ loop' = "exited"
        /\ UNCHANGED <<highFirst, curr, storing, memory, made, runner>>
    BY <1>8 DEF Exit, programVars, Running, Stopped
  <2>. QED
    BY <1>2, <2>1 DEF ListInv, HighInv, SwitchInv
<1>9. CASE UNCHANGED vars
  <2>1. UNCHANGED <<loop, highFirst, curr, storing, made, info, runner>>
    BY <1>9 DEF vars, programVars, trackerVars, historyVars
  <2>2. HighInv'
    BY <2>1 DEF ListInv, HighInv, AllMade
  <2>3. SwitchInv'
    BY <2>1 DEF ListInv, SwitchInv
  <2>. QED  BY <1>3, <2>1, <2>2, <2>3 DEF ListInv
<1>. QED
  BY <1>4, <1>5, <1>6, <1>7, <1>8, <1>9 DEF Next, Program

LEMMA ListInvariant == Spec => [](TypeOK /\ EntriesDistinct /\ CalloutInv /\ ListInv)
<1>1. Init => ListInv
  <2> SUFFICES ASSUME Init PROVE ListInv
    OBVIOUS
  <2>1. Len(info) = 0 /\ storing = None /\ curr = Null /\ runner = Null
    BY DEF Init
  <2>. QED  BY <2>1 DEF ListInv, HighInv, SwitchInv, LowList, AllMade
<1>2. TypeOK /\ EntriesDistinct /\ CalloutInv /\ ListInv /\ [Next]_vars => ListInv'
  BY ListStep
<1>. QED  BY <1>1, <1>2, CalloutInvariant, TypeCorrect, PTL DEF Spec

\* Whatever is listed is a thread the program made, or what two half stores of
\* pointers to threads leave: in high-first order only at an exit between them.
THEOREM ListCorrect == Spec => []OnlyThreadsListed
<1>1. TypeOK /\ ListInv => OnlyThreadsListed
  <2> SUFFICES ASSUME TypeOK, ListInv, NEW e \in Entries
               PROVE  IF highFirst
                      THEN e.ptr \in made \/ (loop = "exited" /\ storing # None /\ e.ptr = curr)
                      ELSE \E old \in made \cup {Null}, new \in made :
                               e.ptr = <<old[1], new[2]>>
    BY DEF OnlyThreadsListed
  <2>1. PICK i \in 1 .. Len(info) : e = info[i]
    BY ListFacts DEF Entries, TypeOK
  <2>2. CASE highFirst
    BY <2>1, <2>2 DEF ListInv, HighInv, AllMade
  <2>3. CASE ~highFirst
    BY <2>1, <2>3 DEF ListInv, LowList, LowPointers
  <2>. QED  BY <2>2, <2>3
<1>. QED  BY <1>1, ListInvariant, PTL

----------------------------------------------------------------------------
(* The cycles charged.                                                     *)

TotalsMatch ==
    \A i \in 1 .. Len(info) :
        info[i].ptr \in made => info[i].total = ran[<<info[i].ptr, info[i].id>>]

RanListed ==
    \A k \in Threads \X Id :
        ran[k] # 0 => \E i \in 1 .. Len(info) : info[i].ptr = k[1] /\ info[i].id = k[2]

\* Of the runner the tracker knows everything, after the first run; at that, it
\* has read at most a pointer with the page of the null pointer.
RunnerSeen ==
    /\ runner = Null => firstRun
    /\ firstRun => lastThread = None \/ lastThread[1] = 0
    /\ ~firstRun =>
          /\ runner \in made
          /\ lastThread = runner
          /\ lastTime # 0 /\ lastTime + since = now
          /\ Listed(runner)

ChargeInv ==
    ~highFirst /\ OnePage =>
        /\ TotalsMatch
        /\ loop # "exited" => RanListed /\ RunnerSeen

\* KA_ThreadChange brings the totals up to what the threads have run.
LEMMA ChangeCharges ==
    ASSUME TypeOK, EntriesDistinct, TotalsMatch, RanListed, RunnerSeen,
           KA_ThreadChange, UNCHANGED <<now, memory, made>>, ran' = Credited
    PROVE  /\ TotalsMatch' /\ RanListed'
           /\ curr # Null => \E i \in 1 .. Len(info') : Same(info'[i], curr)
<1>1. /\ info' \in Seq(Entry)
      /\ Len(info') \in {Len(info), Len(info) + 1}
      /\ \A i \in 1 .. Len(info) : info'[i].ptr = info[i].ptr /\ info'[i].id = info[i].id
      /\ Len(info') = Len(info) + 1 =>
            /\ info'[Len(info')].ptr = curr
            /\ info'[Len(info')].id = memory[curr].id
            /\ \A i \in 1 .. Len(info) : ~Same(info[i], curr)
      /\ \A i \in 1 .. Len(info') :
            info'[i].total = IF Charged(info'[i]) THEN TotalBefore(i) + (now - lastTime)
                                                  ELSE TotalBefore(i)
      /\ curr # Null => \E i \in 1 .. Len(info') : Same(info'[i], curr)
  BY ChangeResult
<1>2. /\ Len(info) \in Nat /\ Len(info') \in Nat
      /\ \A i \in 1 .. Len(info') :
            info'[i].ptr \in Pointer /\ info'[i].id \in Id /\ info'[i].total \in Nat
      /\ \A i \in 1 .. Len(info) : info[i].total \in Nat
  BY <1>1, ListFacts DEF TypeOK
<1>3. /\ made \subseteq Threads /\ made' = made
      /\ now \in Nat /\ lastTime \in Nat /\ since \in Nat
      /\ ran \in [Threads \X Id -> Nat]
  BY DEF TypeOK
<1>4. ~firstRun =>
        /\ runner \in Threads
        /\ \A k \in Threads \X Id :
              ran'[k] = IF k = <<runner, memory[runner].id>> THEN ran[k] + since ELSE ran[k]
  BY <1>3, CreditedType DEF RunnerSeen
<1>5. firstRun => ran' = ran
  BY CreditedType
<1>6. ASSUME NEW i \in 1 .. Len(info'), info'[i].ptr \in made
      PROVE  info'[i].total = ran'[<<info'[i].ptr, info'[i].id>>]
  <2> DEFINE key == <<info'[i].ptr, info'[i].id>>
  <2>1. key \in Threads \X Id
    BY <1>2, <1>3, <1>6
  <2>2. TotalBefore(i) = ran[key]
    <3>1. CASE i <= Len(info)
      <4>1. i \in 1 .. Len(info)
        BY <1>2, <3>1
      <4>2. info'[i].ptr = info[i].ptr /\ info'[i].id = info[i].id
        BY <1>1, <4>1
      <4>3. info[i].total = ran[<<info[i].ptr, info[i].id>>]
        BY <1>6, <4>1, <4>2 DEF TotalsMatch
      <4>. QED  BY <3>1, <4>2, <4>3 DEF TotalBefore
    <3>2. CASE ~(i <= Len(info))
      <4>1. i = Len(info') /\ Len(info') = Len(info) + 1
        BY <1>1, <1>2, <3>2
      <4>2. key[1] = curr /\ key[2] = memory[curr].id
        BY <1>1, <4>1
      <4>3. \A j \in 1 .. Len(info) : ~(info[j].ptr = key[1] /\ info[j].id = key[2])
        BY <1>1, <4>1, <4>2 DEF Same
      <4>4. ran[key] = 0
        BY <2>1, <4>3 DEF RanListed
      <4>. QED  BY <3>2, <4>4 DEF TotalBefore
    <3>. QED  BY <3>1, <3>2
  <2>3. CASE firstRun
    <3>1. ~Charged(info'[i])
      BY <1>3, <1>6, <2>3, PointerFacts DEF Charged, Same, RunnerSeen
    <3>. QED  BY <1>1, <1>5, <2>2, <2>3, <3>1
  <2>4. CASE ~firstRun
    <3>1. lastThread = runner /\ lastThread # None /\ lastTime # 0 /\ now - lastTime = since
      BY <1>3, <1>4, <2>4, PointerFacts DEF RunnerSeen
    <3>2. Charged(info'[i]) <=> key = <<runner, memory[runner].id>>
      BY <3>1 DEF Charged, Same
    <3>3. ran'[key] = IF Charged(info'[i]) THEN ran[key] + since ELSE ran[key]
      BY <1>4, <2>1, <2>4, <3>2
    <3>4. info'[i].total = IF Charged(info'[i]) THEN TotalBefore(i) + since ELSE TotalBefore(i)
      BY <1>1, <3>1
    <3>. QED  BY <2>2, <3>3, <3>4
  <2>. QED  BY <2>3, <2>4
<1>7. ASSUME NEW k \in Threads \X Id, ran'[k] # 0
      PROVE  \E i \in 1 .. Len(info') : info'[i].ptr = k[1] /\ info'[i].id = k[2]
  <2>1. \E i \in 1 .. Len(info) : info[i].ptr = k[1] /\ info[i].id = k[2]
    <3>1. CASE ran[k] # 0
      BY <3>1 DEF RanListed
    <3>2. CASE ran[k] = 0
      <4>1. ~firstRun /\ k = <<runner, memory[runner].id>>
        BY <1>4, <1>5, <1>7, <3>2
      <4>2. Listed(runner) /\ k[1] = runner /\ k[2] = memory[runner].id
        BY <4>1 DEF RunnerSeen
      <4>. QED  BY <4>2 DEF Listed, Same
    <3>. QED  BY <3>1, <3>2
  <2>. QED  BY <1>1, <1>2, <2>1
<1>. QED  BY <1>1, <1>3, <1>6, <1>7 DEF TotalsMatch, RanListed

\* The step of a switch that the tracker sees, all threads on one page.
LEMMA SwitchSeen ==
    ASSUME TypeOK, EntriesDistinct, CalloutInv, SwitchInv, ~highFirst, OnePage,
           TotalsMatch, RanListed, RunnerSeen, SwitchSecondByte
    PROVE  TotalsMatch' /\ RanListed' /\ RunnerSeen'
<1>1. /\ storing # None /\ storing \in Pointer /\ curr \in Pointer
      /\ UNCHANGED <<now, memory, made>>
      /\ StoreHigh(storing)
  BY DEF SwitchSecondByte, TypeOK
<1>2. /\ KA_ThreadChange
      /\ lastThread' = curr /\ lastTime' = now
      /\ runner' = storing /\ since' = 0
      /\ firstRun' = (runner = Null)
      /\ ran' = Credited
  BY <1>1, StoreHighEffect, StoreHighTypes
<1>3. /\ TotalsMatch' /\ RanListed'
      /\ curr # Null => \E i \in 1 .. Len(info') : Same(info'[i], curr)
  BY <1>1, <1>2, ChangeCharges
<1>4. /\ runner \in made \cup {Null}
      /\ curr[1] = runner[1] /\ curr[2] = storing[2] /\ storing \in made \cup {runner}
      /\ made \subseteq Threads
      /\ now \in Nat \ {0}
  BY <1>1 DEF SwitchInv, TypeOK
<1>5. CASE runner = Null
  <2>1. curr[1] = 0
    BY <1>4, <1>5 DEF Null
  <2>. QED  BY <1>2, <1>3, <1>5, <2>1 DEF RunnerSeen
<1>6. CASE runner # Null
  <2>1. runner \in made /\ storing \in made
    BY <1>4, <1>6
  <2>2. curr = storing
    BY <1>1, <1>4, <2>1, PointerFacts DEF OnePage
  <2>3. storing # Null
    BY <1>4, <2>1, PointerFacts
  <2>4. Listed(runner)'
    BY <1>1, <1>2, <1>3, <2>2, <2>3 DEF Listed, Same
  <2>5. now + 0 = now
    BY <1>4
  <2>. QED
    BY <1>1, <1>2, <1>3, <1>4, <1>6, <2>1, <2>2, <2>3, <2>4, <2>5 DEF RunnerSeen
<1>. QED  BY <1>5, <1>6

\* A thread made anew was not running: what is known of the runner stays true.
LEMMA MakeKeeps ==
    ASSUME TypeOK, LowList, ~highFirst, OnePage, TotalsMatch,
           NEW p \in Threads, NEW id \in Id, NEW g \in GuardCells, MakeThread(p, id, g)
    PROVE  /\ TotalsMatch'
           /\ RanListed => RanListed'
           /\ RunnerSeen => RunnerSeen'
<1>1. /\ p # runner /\ made' = made \cup {p}
      /\ memory' = [memory EXCEPT ![p] = [id |-> id, guard |-> g]]
      /\ UNCHANGED <<now, info, lastThread, lastTime, runner, firstRun, since, ran>>
  BY DEF MakeThread, trackerVars, historyVars
<1>2. memory'[runner] = memory[runner]
  BY <1>1 DEF TypeOK
<1>3. TotalsMatch'
  <2>1. \A i \in 1 .. Len(info) : info[i].ptr = p => p \in made
    BY PointerFacts, OnePagePointer DEF LowList
  <2>. QED  BY <1>1, <2>1 DEF TotalsMatch
<1>4. RanListed => RanListed'
  BY <1>1 DEF RanListed
<1>5. RunnerSeen => RunnerSeen'
  <2>1. Listed(runner) => Listed(runner)'
    BY <1>1, <1>2 DEF Listed, Same
  <2>. QED  BY <1>1, <2>1 DEF RunnerSeen
<1>. QED  BY <1>3, <1>4, <1>5

LEMMA ChargeStep ==
    ASSUME TypeOK, EntriesDistinct, CalloutInv, ListInv, ChargeInv, [Next]_vars
    PROVE  ChargeInv'
<1>1. ASSUME UNCHANGED <<memory, made, info, lastThread, lastTime, runner, firstRun, ran>>,
             \/ now' = now + 1 /\ since' = since + 1
           \/ UNCHANGED <<now, since>>
      PROVE  /\ OnePage' => OnePage
             /\ TotalsMatch => TotalsMatch'
             /\ RanListed => RanListed'
             /\ RunnerSeen => RunnerSeen'
  <2>1. (OnePage' => OnePage) /\ (TotalsMatch => TotalsMatch') /\ (RanListed => RanListed')
    BY <1>1 DEF OnePage, TotalsMatch, RanListed
  <2>2. Listed(runner) => Listed(runner)'
    BY <1>1 DEF Listed, Same
  <2>3. lastTime + since = now => lastTime' + since' = now'
    BY <1>1 DEF TypeOK
  <2>4. RunnerSeen => RunnerSeen'
    BY <1>1, <2>2, <2>3 DEF RunnerSeen
  <2>. QED  BY <2>1, <2>4
<1>2. CASE Tick \/ (\E v \in {0, 1} : StoreFlag(v)) \/ Gdb \/ UNCHANGED vars
  <2>1. /\ UNCHANGED <<highFirst, memory, made, info, lastThread, lastTime, runner, firstRun,
                       ran>>
        /\ \/ now' = now + 1 /\ since' = since + 1
           \/ UNCHANGED <<now, since>>
        /\ loop # "exited" \/ UNCHANGED loop
    BY <1>2 DEF Tick, StoreFlag, Gdb, Stop, Resume, GDB_Handler_ReadRegs,
                GDB_Handler_SetThread, vars, programVars, trackerVars, historyVars, Running,
                Stopped
  <2>. QED
    BY <1>1, <2>1 DEF ChargeInv
<1>3. ASSUME NEW p \in Pointer, SwitchFirstByte(p)
      PROVE  ChargeInv'
  <2>1. CASE highFirst
    BY <1>3, <2>1 DEF SwitchFirstByte, ChargeInv
  <2>2. CASE ~highFirst
    <3>1. /\ UNCHANGED <<loop, highFirst, memory, made, info, lastThread, lastTime, runner,
                         firstRun, ran>>
          /\ UNCHANGED <<now, since>>
      BY <1>3, <2>2 DEF SwitchFirstByte, StoreLow, trackerVars, historyVars
    <3>. QED  BY <1>1, <3>1 DEF ChargeInv
  <2>. QED  BY <2>1, <2>2
<1>4. CASE SwitchSecondByte
  <2>1. loop = "run" /\ UNCHANGED <<loop, highFirst, made>>
    BY <1>4 DEF SwitchSecondByte, Running
  <2>2. OnePage' = OnePage
    BY <2>1 DEF OnePage
  <2>. QED
    BY <1>4, <2>1, <2>2, SwitchSeen DEF ListInv, ChargeInv
<1>5. ASSUME NEW p \in Threads, NEW id \in Id, NEW g \in GuardCells, MakeThread(p, id, g)
      PROVE  ChargeInv'
  <2>1. made' = made \cup {p} /\ UNCHANGED <<loop, highFirst>>
    BY <1>5 DEF MakeThread
  <2>2. OnePage' => OnePage
    BY <2>1 DEF OnePage
  <2>. QED
    BY <1>5, <2>1, <2>2, MakeKeeps DEF ListInv, ChargeInv
<1>6. CASE Exit
  <2>1. /\ loop # "exited" /\ loop' = "exited" /\ KA_ThreadChange /\ ran' = Credited
        /\ UNCHANGED <<now, memory, made, highFirst>>
    BY <1>6 DEF Exit, programVars, Running, Stopped
  <2>2. OnePage' = OnePage
    BY <2>1 DEF OnePage
  <2>. QED
    BY <2>1, <2>2, ChangeCharges DEF ChargeInv
<1>. QED
  BY <1>2, <1>3, <1>4, <1>5, <1>6 DEF Next, Program

\* Each thread is charged what it ran, where the tracker sees the new pointer.
THEOREM ChargeCorrect == Spec => []ChargedToRunner
<1>1. Init => ChargeInv
  <2> SUFFICES ASSUME Init PROVE ChargeInv
    OBVIOUS
  <2>1. /\ Len(info) = 0 /\ firstRun /\ lastThread = None
        /\ ran = [k \in Threads \X Id |-> 0]
    BY DEF Init
  <2>2. TotalsMatch /\ RanListed /\ RunnerSeen
    BY <2>1 DEF TotalsMatch, RanListed, RunnerSeen
  <2>. QED  BY <2>2 DEF ChargeInv
<1>2. TypeOK /\ EntriesDistinct /\ CalloutInv /\ ListInv /\ ChargeInv /\ [Next]_vars
         => ChargeInv'
  BY ChargeStep
<1>3. TypeOK /\ ChargeInv => ChargedToRunner
  <2> SUFFICES ASSUME TypeOK, ChargeInv PROVE ChargedToRunner
    OBVIOUS
  <2>1. \A e \in Entries : \E i \in 1 .. Len(info) : e = info[i]
    BY ListFacts DEF Entries, TypeOK
  <2>. QED
    BY <2>1 DEF ChargedToRunner, ChargeInv, TotalsMatch
<1>. QED  BY <1>1, <1>2, <1>3, ListInvariant, PTL DEF Spec
=============================================================================
