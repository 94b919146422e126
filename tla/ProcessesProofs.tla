-------------------------- MODULE ProcessesProofs --------------------------
(***************************************************************************)
(* Proofs about the process table, the scheduler and the switch to and     *)
(* from user mode, for any number of slots and any time quantum.           *)
(*                                                                         *)
(* What a process needs to go on with (its slot, program counter and page  *)
(* table) moves between its slot and the hart; the invariant follows it    *)
(* from one step of the switch to the next.                                *)
(***************************************************************************)
EXTENDS Processes, Integers, WellFoundedInduction, TLAPS

(* A slot that is taken has what is needed to run its process; only the    *)
(* handler of an exception, after which nothing runs, may spoil it.        *)
SlotsReady ==
    errorOccurred = "none" =>
        \A p \in Pids : pd[p].slotAllocated =>
            /\ pd[p].satp = TableOf(p)
            /\ pd[p].epc \in Contexts /\ pd[p].epc.proc = p

(* From the scheduler's choice to the end of the handler the current       *)
(* process is RUNNING; from RunProcess to the handler its program counter  *)
(* and page table are in the hart.  No error comes up in between.          *)
TimerTrapped == kernel \in {"uservec", "handler"} /\ cause = "timer"

ChosenRuns ==
    /\ kernel \in {"run", "ret", "user"} => errorOccurred = "none"
    /\ kernel \in {"run", "ret", "user"} =>
          pd[currentProcess].slotAllocated /\ pd[currentProcess].state = "RUNNING"
    /\ kernel \in {"ret", "user"} \/ TimerTrapped =>
          /\ hart.pc \in Contexts /\ hart.pc.proc = currentProcess
          /\ hart.satp = TableOf(currentProcess)
    /\ kernel \in {"ret", "user"} => csr.mtvec = "uservec" /\ csr.MTIE
    /\ kernel # "user" => ~csr.MIE

(* What the current process was interrupted with, on its way to the slot;  *)
(* before the first process runs there is nothing.                         *)
SavedInPart ==
    /\ kernel = "boot" => \A p \in Pids : left[p].pc = NoContext
    /\ TimerTrapped => errorOccurred = "none" /\ hart.pc = left[currentProcess].pc
    /\ TimerTrapped /\ kernel = "uservec" => hart.regs = left[currentProcess].regs
    /\ TimerTrapped /\ kernel = "handler" /\ left[currentProcess].held =>
          pd[currentProcess].regs = left[currentProcess].regs

(* Once the scheduler has given up, nothing becomes READY. *)
GaveUp == kernel = "select" /\ errorOccurred # "none" => \A p \in Pids : ~Ready(p)

ProcInv == TypeOK /\ SlotsReady /\ ChosenRuns /\ SavedInPart /\ InterruptedStateKept /\ GaveUp

USE NprocAssumption, QuantumAssumption, MaxStepsAssumption

(* The types of the parts. *)
Slots == [slotAllocated : BOOLEAN, state : {"CREATED", "READY", "RUNNING"},
          timeLeft : {0, TimeQuantum}, regs : Contexts \cup {Garbage},
          epc : Contexts \cup {NoContext}, satp : 0 .. NPROC]
Harts == [regs : Contexts \cup {Garbage}, pc : Contexts \cup {NoContext}, satp : 0 .. NPROC]
Csrs  == [mtvec : {"kernelvec", "uservec"}, MIE : BOOLEAN, MPIE : BOOLEAN, MTIE : BOOLEAN]
Saved == [regs : Contexts \cup {Garbage}, pc : Contexts \cup {NoContext}, held : BOOLEAN]

restVars == <<currentProcess, kernel, cause, timer, errorOccurred>>

RestOK ==
    /\ currentProcess \in Pids
    /\ kernel \in {"boot", "select", "run", "ret", "user", "uservec", "handler"}
    /\ cause \in {"none", "timer", "exception"}
    /\ timer \in BOOLEAN
    /\ errorOccurred \in {"none", "table filled", "loading unsuccessful",
                          "no process to run", "exception occurred"}

LEMMA TypeParts ==
    TypeOK <=> /\ pd \in [Pids -> Slots] /\ hart \in Harts /\ csr \in Csrs
               /\ left \in [Pids -> Saved] /\ RestOK
    BY DEF TypeOK, Slots, Harts, Csrs, Saved, RestOK

LEMMA TypePartsNext ==
    TypeOK' <=> /\ pd' \in [Pids -> Slots] /\ hart' \in Harts /\ csr' \in Csrs
                /\ left' \in [Pids -> Saved] /\ RestOK'
    BY DEF TypeOK, Slots, Harts, Csrs, Saved, RestOK

-----------------------------------------------------------------------------
LEMMA Least ==
    ASSUME NEW S \in SUBSET Nat, S # {}
    PROVE  \E n \in S : \A m \in S : n <= m
<1>1. PICK n \in S : \A m \in S : ~(<<m, n>> \in OpToRel(<, Nat))
    BY WFMin, NatLessThanWellFounded
<1>2. \A m \in S : ~(m < n)
    BY <1>1 DEF OpToRel
<1> QED BY <1>2

LEMMA SlotNumbers == Pids \subseteq Nat /\ 0 \in Pids
    BY DEF Pids

LEMMA Typed == ProcInv => /\ pd \in [Pids -> Slots] /\ hart \in Harts /\ csr \in Csrs
                          /\ left \in [Pids -> Saved]
                          /\ currentProcess \in Pids /\ currentProcess \in Nat
    BY TypeParts, SlotNumbers DEF ProcInv, RestOK

LEMMA InitInv == Init => ProcInv
<1> SUFFICES ASSUME Init PROVE ProcInv
    OBVIOUS
<1>1. TypeOK
    <2>1. pd \in [Pids -> Slots]
        BY DEF Init, Slots
    <2>2. hart \in Harts /\ csr \in Csrs
        BY DEF Init, Harts, Csrs
    <2>3. left \in [Pids -> Saved]
        BY DEF Init, Saved
    <2>4. RestOK
        BY SlotNumbers DEF Init, RestOK
    <2> QED BY <2>1, <2>2, <2>3, <2>4, TypeParts
<1>2. SlotsReady /\ ChosenRuns /\ SavedInPart /\ InterruptedStateKept /\ GaveUp
    BY DEF Init, SlotsReady, ChosenRuns, TimerTrapped, SavedInPart, InterruptedStateKept, OnItsWay, GaveUp
<1> QED BY <1>1, <1>2 DEF ProcInv

LEMMA CreateProcessInv == ProcInv /\ CreateProcess => ProcInv'
<1> SUFFICES ASSUME ProcInv, CreateProcess PROVE ProcInv'
    OBVIOUS
<1> DEFINE pid   == CHOOSE p \in FreeSlots : \A q \in FreeSlots : p <= q
           start == [proc |-> pid, n |-> 0]
<1>0. /\ pid \in Pids /\ ~pd[pid].slotAllocated
      /\ pd' = [pd EXCEPT ![pid] =
                   [slotAllocated |-> TRUE, state |-> "READY", timeLeft |-> TimeQuantum,
                    regs |-> start, epc |-> start, satp |-> TableOf(pid)]]
    <2>1. FreeSlots \in SUBSET Nat /\ FreeSlots # {}
        BY DEF FreeSlots, Pids, CreateProcess
    <2>2. \E p \in FreeSlots : \A q \in FreeSlots : p <= q
        BY <2>1, Least
    <2>3. pid \in FreeSlots
        BY <2>2, Zenon
    <2> QED BY <2>3 DEF FreeSlots, CreateProcess
<1> HIDE DEF pid
<1>a. start \in Contexts /\ start.proc = pid /\ TableOf(pid) \in 0 .. NPROC
    BY <1>0 DEF Contexts, TableOf, Pids
<1>1. TypeOK'
    <2>1. pd' \in [Pids -> Slots]
        BY <1>0, <1>a, TypeParts DEF ProcInv, Slots
    <2> QED BY <2>1, TypeParts, TypePartsNext DEF ProcInv, RestOK, CreateProcess
<1>2. SlotsReady'
    <2>1. CASE errorOccurred = "none"
        <3> SUFFICES ASSUME NEW p \in Pids, pd'[p].slotAllocated
                     PROVE  pd'[p].satp = TableOf(p) /\ pd'[p].epc \in Contexts /\ pd'[p].epc.proc = p
            BY DEF SlotsReady
        <3>1. CASE p = pid
            BY <1>0, <1>a, <3>1, Typed
        <3>2. CASE p # pid
            <4>1. pd'[p] = pd[p]
                BY <1>0, <3>2, Typed
            <4> QED BY <2>1, <4>1 DEF ProcInv, SlotsReady
        <3> QED BY <3>1, <3>2
    <2> QED BY <2>1 DEF SlotsReady, CreateProcess
<1>3. ChosenRuns'
    BY DEF ProcInv, TypeOK, SlotsReady, ChosenRuns, TimerTrapped, CreateProcess, Running
<1>4. SavedInPart'
    BY DEF ProcInv, TypeOK, SavedInPart, ChosenRuns, TimerTrapped, CreateProcess, Running
<1>5. InterruptedStateKept'
    BY DEF ProcInv, TypeOK, SavedInPart, TimerTrapped, InterruptedStateKept, OnItsWay, CreateProcess, Running
<1>6. GaveUp'
    BY DEF ProcInv, TypeOK, GaveUp, Ready, CreateProcess, Running
<1> QED BY <1>1, <1>2, <1>3, <1>4, <1>5, <1>6 DEF ProcInv

LEMMA CreateProcessFailsInv == ProcInv /\ CreateProcessFails => ProcInv'
<1> SUFFICES ASSUME ProcInv, CreateProcessFails PROVE ProcInv'
    OBVIOUS
<1>1. TypeOK'
    BY DEF ProcInv, TypeOK, CreateProcessFails, Running, Error
<1>2. SlotsReady'
    BY DEF ProcInv, TypeOK, SlotsReady, ChosenRuns, TimerTrapped, CreateProcessFails, Running, Error
<1>3. ChosenRuns'
    BY DEF ProcInv, TypeOK, SlotsReady, ChosenRuns, TimerTrapped, CreateProcessFails, Running, Error
<1>4. SavedInPart'
    BY DEF ProcInv, TypeOK, SavedInPart, ChosenRuns, TimerTrapped, CreateProcessFails, Running, Error
<1>5. InterruptedStateKept'
    BY DEF ProcInv, TypeOK, SavedInPart, TimerTrapped, InterruptedStateKept, OnItsWay, CreateProcessFails, Running, Error
<1>6. GaveUp'
    BY DEF ProcInv, TypeOK, GaveUp, Ready, CreateProcessFails, Running, Error
<1> QED BY <1>1, <1>2, <1>3, <1>4, <1>5, <1>6 DEF ProcInv

LEMMA StartInv == ProcInv /\ Start => ProcInv'
<1> SUFFICES ASSUME ProcInv, Start PROVE ProcInv'
    OBVIOUS
<1>1. TypeOK'
    BY DEF ProcInv, TypeOK, Start, Running
<1>2. SlotsReady'
    BY DEF ProcInv, TypeOK, SlotsReady, ChosenRuns, TimerTrapped, Start, Running
<1>3. ChosenRuns'
    BY DEF ProcInv, TypeOK, SlotsReady, ChosenRuns, TimerTrapped, Start, Running
<1>4. SavedInPart'
    BY DEF ProcInv, TypeOK, SavedInPart, ChosenRuns, TimerTrapped, Start, Running
<1>5. InterruptedStateKept'
    BY DEF ProcInv, TypeOK, SavedInPart, TimerTrapped, InterruptedStateKept, OnItsWay, Start, Running
<1>6. GaveUp'
    BY DEF ProcInv, TypeOK, GaveUp, Ready, Start, Running
<1> QED BY <1>1, <1>2, <1>3, <1>4, <1>5, <1>6 DEF ProcInv

LEMMA ContinueInv == ProcInv /\ SelectProcessToRun /\ Continue => ProcInv'
<1> SUFFICES ASSUME ProcInv, SelectProcessToRun /\ Continue PROVE ProcInv'
    OBVIOUS
<1>1. TypeOK'
    <2>1. pd' \in [Pids -> Slots]
        BY Typed DEF Continue, Slots
    <2> QED BY <2>1, TypeParts, TypePartsNext DEF ProcInv, RestOK, SelectProcessToRun, Continue
<1>2. SlotsReady'
    BY DEF ProcInv, TypeOK, SlotsReady, ChosenRuns, TimerTrapped, SelectProcessToRun, Continue, MayContinue, Ready, Running
<1>3. ChosenRuns'
    BY DEF ProcInv, TypeOK, SlotsReady, ChosenRuns, TimerTrapped, SelectProcessToRun, Continue, MayContinue, Ready, Running
<1>4. SavedInPart'
    BY DEF ProcInv, TypeOK, SavedInPart, ChosenRuns, TimerTrapped, SelectProcessToRun, Continue, MayContinue, Ready, Running
<1>5. InterruptedStateKept'
    BY DEF ProcInv, TypeOK, SavedInPart, TimerTrapped, InterruptedStateKept, OnItsWay, SelectProcessToRun, Continue, MayContinue, Ready, Running
<1>6. GaveUp'
    BY DEF ProcInv, TypeOK, GaveUp, Ready, SelectProcessToRun, Continue, MayContinue, Ready, Running
<1> QED BY <1>1, <1>2, <1>3, <1>4, <1>5, <1>6 DEF ProcInv

LEMMA IndexWraps ==
    ASSUME NEW n \in Nat
    PROVE  n % NPROC \in Pids
    BY DEF Pids

LEMMA PickNextInv == ProcInv /\ SelectProcessToRun /\ PickNext => ProcInv'
<1> SUFFICES ASSUME ProcInv, SelectProcessToRun /\ PickNext PROVE ProcInv'
    OBVIOUS
<1>0. PICK i \in 0 .. NPROC - 1 :
          /\ currentProcess' = (currentProcess + 1 + i) % NPROC
          /\ pd' = Picked(currentProcess') /\ Ready(currentProcess')
    BY DEF SelectProcessToRun, PickNext, ScanFinds
<1>1. TypeOK'
    <2>1. currentProcess' \in Pids
        <3>1. currentProcess + 1 + i \in Nat
            BY Typed
        <3> QED BY <1>0, <3>1, IndexWraps
    <2>2. pd' \in [Pids -> Slots]
        BY <1>0, <2>1, TypeParts DEF ProcInv, Picked, Slots
    <2> QED BY <2>1, <2>2, TypeParts, TypePartsNext DEF ProcInv, RestOK, SelectProcessToRun, PickNext
<1>a. /\ kernel = "select" /\ kernel' = "run" /\ errorOccurred = "none"
      /\ UNCHANGED <<hart, csr, cause, errorOccurred, left>>
    BY <1>0 DEF SelectProcessToRun, PickNext, Running, ProcInv, GaveUp, Ready
<1>b. currentProcess' \in Pids
    BY <1>1 DEF TypeOK
<1>c. /\ pd'[currentProcess'].state = "RUNNING" /\ pd'[currentProcess'].slotAllocated
      /\ \A p \in Pids : /\ pd'[p].slotAllocated = pd[p].slotAllocated
                         /\ pd'[p].satp = pd[p].satp /\ pd'[p].epc = pd[p].epc
    BY <1>0, <1>b, Typed DEF Picked, Slots, Ready
<1>2. SlotsReady'
    BY <1>a, <1>c DEF ProcInv, SlotsReady
<1>3. ChosenRuns'
    BY <1>a, <1>c DEF ProcInv, ChosenRuns, TimerTrapped
<1>4. SavedInPart'
    BY DEF ProcInv, TypeOK, SavedInPart, ChosenRuns, TimerTrapped, SelectProcessToRun, PickNext, ScanFinds, Picked, Ready, Running
<1>5. InterruptedStateKept'
    BY DEF ProcInv, TypeOK, SavedInPart, TimerTrapped, InterruptedStateKept, OnItsWay, SelectProcessToRun, PickNext, ScanFinds, Picked, Ready, Running
<1>6. GaveUp'
    BY DEF ProcInv, TypeOK, GaveUp, Ready, SelectProcessToRun, PickNext, ScanFinds, Picked, Ready, Running
<1> QED BY <1>1, <1>2, <1>3, <1>4, <1>5, <1>6 DEF ProcInv

(* Counted from the slot after the current one, every slot has a place in  *)
(* the scan.                                                               *)
LEMMA PlaceInScan ==
    ASSUME NEW c \in Pids, NEW p \in Pids
    PROVE  /\ (p + NPROC - c - 1) % NPROC \in 0 .. NPROC - 1
           /\ (c + 1 + ((p + NPROC - c - 1) % NPROC)) % NPROC = p
<1>1. CASE p > c
    <2>1. (p + NPROC - c - 1) % NPROC = p - c - 1
        BY <1>1 DEF Pids
    <2> QED BY <1>1, <2>1 DEF Pids
<1>2. CASE p <= c
    <2>1. (p + NPROC - c - 1) % NPROC = p + NPROC - c - 1
        BY <1>2 DEF Pids
    <2>2. (p + NPROC) % NPROC = p
        BY DEF Pids
    <2> QED BY <1>2, <2>1, <2>2 DEF Pids
<1> QED BY <1>1, <1>2 DEF Pids

(* A scan that finds nothing has seen every slot. *)
LEMMA ScanComplete ==
    ASSUME ProcInv, \A i \in 0 .. NPROC - 1 : ~ScanFinds(i)
    PROVE  \A p \in Pids : ~Ready(p)
<1> SUFFICES ASSUME NEW p \in Pids, Ready(p) PROVE FALSE
    OBVIOUS
<1> DEFINE at(i) == (currentProcess + 1 + i) % NPROC
           Hits  == {i \in 0 .. NPROC - 1 : Ready(at(i))}
<1> DEFINE i0 == (p + NPROC - currentProcess - 1) % NPROC
<1>0. i0 \in 0 .. NPROC - 1 /\ (currentProcess + 1 + i0) % NPROC = p
    <2>1. currentProcess \in Pids
        BY Typed
    <2> QED BY <2>1, PlaceInScan
<1> HIDE DEF i0
<1>1. i0 \in Hits
    BY <1>0
<1>2. Hits \in SUBSET Nat
    OBVIOUS
<1>3. PICK m \in Hits : \A i \in Hits : m <= i
    BY <1>1, <1>2, Least
<1>4. \A j \in 0 .. m - 1 : ~Ready(at(j))
    BY <1>3
<1> QED BY <1>3, <1>4 DEF ScanFinds

LEMMA NoProcessToRunInv == ProcInv /\ SelectProcessToRun /\ NoProcessToRun => ProcInv'
<1> SUFFICES ASSUME ProcInv, SelectProcessToRun /\ NoProcessToRun PROVE ProcInv'
    OBVIOUS
<1>1. TypeOK'
    <2>1. currentProcess' \in Pids
        <3>1. currentProcess + 1 \in Nat
            BY Typed
        <3> QED BY <3>1, IndexWraps DEF SelectProcessToRun, NoProcessToRun, After
    <2> QED BY <2>1, TypeParts, TypePartsNext DEF ProcInv, RestOK, SelectProcessToRun, NoProcessToRun, Error
<1>2. SlotsReady'
    BY DEF ProcInv, TypeOK, SlotsReady, ChosenRuns, TimerTrapped, SelectProcessToRun, NoProcessToRun, ScanFinds, After, Ready, Running, Error
<1>3. ChosenRuns'
    BY DEF ProcInv, TypeOK, SlotsReady, ChosenRuns, TimerTrapped, SelectProcessToRun, NoProcessToRun, ScanFinds, After, Ready, Running, Error
<1>4. SavedInPart'
    BY DEF ProcInv, TypeOK, SavedInPart, ChosenRuns, TimerTrapped, SelectProcessToRun, NoProcessToRun, ScanFinds, After, Ready, Running, Error
<1>5. InterruptedStateKept'
    BY DEF ProcInv, TypeOK, SavedInPart, TimerTrapped, InterruptedStateKept, OnItsWay, SelectProcessToRun, NoProcessToRun, ScanFinds, After, Ready, Running, Error
<1>6. GaveUp'
    <2>1. \A p \in Pids : ~Ready(p)
        BY ScanComplete DEF SelectProcessToRun, NoProcessToRun
    <2> QED BY <2>1 DEF GaveUp, Ready, SelectProcessToRun, NoProcessToRun
<1> QED BY <1>1, <1>2, <1>3, <1>4, <1>5, <1>6 DEF ProcInv

LEMMA RunProcessInv == ProcInv /\ RunProcess => ProcInv'
<1> SUFFICES ASSUME ProcInv, RunProcess PROVE ProcInv'
    OBVIOUS
<1>1. TypeOK'
    BY DEF ProcInv, TypeOK, RunProcess, TimerOn, Running
<1>2. SlotsReady'
    BY DEF ProcInv, TypeOK, SlotsReady, ChosenRuns, TimerTrapped, RunProcess, TimerOn, Running
<1>3. ChosenRuns'
    BY DEF ProcInv, TypeOK, SlotsReady, ChosenRuns, TimerTrapped, RunProcess, TimerOn, Running
<1>4. SavedInPart'
    BY DEF ProcInv, TypeOK, SavedInPart, ChosenRuns, TimerTrapped, RunProcess, TimerOn, Running
<1>5. InterruptedStateKept'
    BY DEF ProcInv, TypeOK, SavedInPart, TimerTrapped, InterruptedStateKept, OnItsWay, RunProcess, TimerOn, Running
<1>6. GaveUp'
    BY DEF ProcInv, TypeOK, GaveUp, Ready, RunProcess, TimerOn, Running
<1> QED BY <1>1, <1>2, <1>3, <1>4, <1>5, <1>6 DEF ProcInv

LEMMA UserretContextInv == ProcInv /\ Userret /\ UserretContext => ProcInv'
<1> SUFFICES ASSUME ProcInv, Userret /\ UserretContext PROVE ProcInv'
    OBVIOUS
<1>0. PICK r \in Contexts \cup {Garbage} : hart' = [hart EXCEPT !.regs = r]
    BY TypeParts DEF ProcInv, Slots, Userret, UserretContext
<1>1. TypeOK'
    <2>1. hart' \in Harts
        BY <1>0, TypeParts DEF ProcInv, Harts
    <2>2. csr' \in Csrs
        BY TypeParts DEF ProcInv, Csrs, Userret, UserretContext
    <2> QED BY <2>1, <2>2, TypeParts, TypePartsNext DEF ProcInv, RestOK, Userret, UserretContext
<1>2. SlotsReady'
    BY DEF ProcInv, TypeOK, SlotsReady, ChosenRuns, TimerTrapped, Userret, UserretContext, Running
<1>3. ChosenRuns'
    BY DEF ProcInv, TypeOK, SlotsReady, ChosenRuns, TimerTrapped, Userret, UserretContext, Running
<1>4. SavedInPart'
    BY DEF ProcInv, TypeOK, SavedInPart, ChosenRuns, TimerTrapped, Userret, UserretContext, Running
<1>5. InterruptedStateKept'
    BY DEF ProcInv, TypeOK, SavedInPart, TimerTrapped, InterruptedStateKept, OnItsWay, Userret, UserretContext, Running
<1>6. GaveUp'
    BY DEF ProcInv, TypeOK, GaveUp, Ready, Userret, UserretContext, Running
<1> QED BY <1>1, <1>2, <1>3, <1>4, <1>5, <1>6 DEF ProcInv

LEMMA LeftKept ==
    ASSUME ProcInv, left' = left \/ left' = [left EXCEPT ![currentProcess].held = FALSE]
    PROVE  /\ left' \in [Pids -> Saved]
           /\ \A p \in Pids : p # currentProcess => left'[p] = left[p]
<1>1. left \in [Pids -> Saved] /\ currentProcess \in Pids
    BY Typed
<1>2. CASE left' = left
    BY <1>1, <1>2
<1>3. CASE left' = [left EXCEPT ![currentProcess].held = FALSE]
    <2>1. left[currentProcess] \in Saved
        BY <1>1
    <2>2. [left[currentProcess] EXCEPT !.held = FALSE] \in Saved
        BY <2>1 DEF Saved
    <2> QED BY <1>1, <1>3, <2>2
<1> QED BY <1>2, <1>3

(* A fault of the kernel, in userret or in uservec. *)
LEMMA FaultInv ==
    ASSUME ProcInv, Running("ret") \/ Running("uservec"), Fault,
           left' = left \/ NotHeld, UNCHANGED <<currentProcess, timer, errorOccurred>>
    PROVE  ProcInv'
<1>0. /\ kernel \in {"ret", "uservec"} /\ errorOccurred = "none" /\ kernel' = "uservec"
      /\ cause' = "exception" /\ UNCHANGED pd
      /\ hart' = [hart EXCEPT !.regs = Garbage, !.pc = NoContext]
      /\ csr' = [csr EXCEPT !.MPIE = csr.MIE, !.MIE = FALSE]
    BY DEF Running, Fault, Trapped
<1>a. /\ left' \in [Pids -> Saved]
      /\ \A p \in Pids : p # currentProcess => left'[p] = left[p]
    BY LeftKept DEF NotHeld
<1>1. TypeOK'
    <2>1. hart' \in Harts
        BY <1>0, Typed DEF Harts
    <2>2. csr' \in Csrs
        BY <1>0, Typed DEF Csrs
    <2> QED BY <1>0, <1>a, <2>1, <2>2, TypeParts, TypePartsNext DEF ProcInv, RestOK
<1>2. SlotsReady'
    BY <1>0 DEF ProcInv, SlotsReady
<1>3. ChosenRuns'
    BY <1>0, Typed DEF ChosenRuns, TimerTrapped, Csrs
<1>4. SavedInPart'
    BY <1>0 DEF SavedInPart, TimerTrapped
<1>5. InterruptedStateKept'
    BY <1>0, <1>a DEF ProcInv, InterruptedStateKept, OnItsWay
<1>6. GaveUp'
    BY <1>0 DEF GaveUp
<1> QED BY <1>1, <1>2, <1>3, <1>4, <1>5, <1>6 DEF ProcInv

LEMMA FurtherTyped ==
    ASSUME NEW c \in Contexts
    PROVE  Further(c) \in Contexts /\ Further(c).proc = c.proc
    BY MaxStepsAssumption DEF Further, Contexts

LEMMA UserRunsInv == ProcInv /\ UserRuns => ProcInv'
<1> SUFFICES ASSUME ProcInv, UserRuns PROVE ProcInv'
    OBVIOUS
<1>0. hart \in Harts /\ hart.pc \in Contexts
    BY TypeParts DEF ProcInv, ChosenRuns, TimerTrapped, UserRuns, Running
<1>a. hart' = [hart EXCEPT !.pc = Further(hart.pc), !.regs = Further(hart.regs)]
    BY <1>0 DEF UserRuns, Harts
<1>b. Further(hart.pc) \in Contexts /\ Further(hart.pc).proc = hart.pc.proc
    BY <1>0, FurtherTyped
<1>c. hart' \in Harts /\ hart'.pc = Further(hart.pc) /\ hart'.satp = hart.satp
    <2>1. Further(hart.regs) \in Contexts \cup {Garbage}
        <3>1. CASE hart.regs = Garbage
            BY <3>1 DEF Further
        <3>2. CASE hart.regs # Garbage
            BY <1>0, <3>2, FurtherTyped DEF Harts
        <3> QED BY <3>1, <3>2
    <2> QED BY <1>0, <1>a, <1>b, <2>1 DEF Harts
<1>1. TypeOK'
    BY <1>c, TypeParts, TypePartsNext DEF ProcInv, RestOK, UserRuns
<1>2. SlotsReady'
    BY DEF ProcInv, TypeOK, SlotsReady, ChosenRuns, TimerTrapped, UserRuns, Contexts, Running
<1>3. ChosenRuns'
    BY <1>b, <1>c DEF ProcInv, ChosenRuns, TimerTrapped, UserRuns, Running
<1>4. SavedInPart'
    BY DEF ProcInv, TypeOK, SavedInPart, ChosenRuns, TimerTrapped, UserRuns, Contexts, Running
<1>5. InterruptedStateKept'
    BY DEF ProcInv, TypeOK, SavedInPart, TimerTrapped, InterruptedStateKept, OnItsWay, UserRuns, Contexts, Running
<1>6. GaveUp'
    BY DEF ProcInv, TypeOK, GaveUp, Ready, UserRuns, Contexts, Running
<1> QED BY <1>1, <1>2, <1>3, <1>4, <1>5, <1>6 DEF ProcInv

LEMMA TimerFiresInv == ProcInv /\ TimerFires => ProcInv'
<1> SUFFICES ASSUME ProcInv, TimerFires PROVE ProcInv'
    OBVIOUS
<1>1. TypeOK'
    BY TypeParts, TypePartsNext DEF ProcInv, RestOK, TimerFires
<1>2. SlotsReady'
    BY DEF ProcInv, TypeOK, SlotsReady, ChosenRuns, TimerTrapped, TimerFires
<1>3. ChosenRuns'
    BY DEF ProcInv, TypeOK, SlotsReady, ChosenRuns, TimerTrapped, TimerFires
<1>4. SavedInPart'
    BY DEF ProcInv, TypeOK, SavedInPart, ChosenRuns, TimerTrapped, TimerFires
<1>5. InterruptedStateKept'
    BY DEF ProcInv, TypeOK, SavedInPart, TimerTrapped, InterruptedStateKept, OnItsWay, TimerFires
<1>6. GaveUp'
    BY DEF ProcInv, TypeOK, GaveUp, Ready, TimerFires
<1> QED BY <1>1, <1>2, <1>3, <1>4, <1>5, <1>6 DEF ProcInv

LEMMA TrapInv == ProcInv /\ (TimerTrap \/ ExceptionTrap) => ProcInv'
<1> SUFFICES ASSUME ProcInv, TimerTrap \/ ExceptionTrap PROVE ProcInv'
    OBVIOUS
<1>0. /\ kernel = "user" /\ kernel' = "uservec" /\ cause' \in {"timer", "exception"}
      /\ errorOccurred = "none"
      /\ UNCHANGED <<pd, currentProcess, hart, timer, errorOccurred>>
      /\ csr' = [csr EXCEPT !.MPIE = csr.MIE, !.MIE = FALSE]
      /\ left' = [left EXCEPT ![currentProcess] =
                     [regs |-> hart.regs, pc |-> hart.pc, held |-> TRUE]]
    BY DEF TimerTrap, ExceptionTrap, Trap, Trapped, Running
<1>a. hart.pc \in Contexts /\ hart.pc.proc = currentProcess
      /\ hart.satp = TableOf(currentProcess)
    BY <1>0 DEF ProcInv, ChosenRuns
<1>1. TypeOK'
    <2>1. csr' \in Csrs
        BY <1>0, Typed DEF Csrs
    <2>2. left' \in [Pids -> Saved]
        BY <1>0, Typed DEF Saved, Harts
    <2> QED BY <1>0, <2>1, <2>2, TypeParts, TypePartsNext DEF ProcInv, RestOK
<1>2. SlotsReady'
    BY <1>0 DEF ProcInv, SlotsReady
<1>3. ChosenRuns'
    BY <1>0, <1>a, Typed DEF ChosenRuns, TimerTrapped, Csrs
<1>4. SavedInPart'
    BY <1>0, Typed DEF SavedInPart, TimerTrapped, Saved
<1>5. InterruptedStateKept'
    BY <1>0, Typed DEF ProcInv, InterruptedStateKept, OnItsWay
<1>6. GaveUp'
    BY <1>0 DEF GaveUp
<1> QED BY <1>1, <1>2, <1>3, <1>4, <1>5, <1>6 DEF ProcInv

(* uservec saves the registers, or what the stack made of them. *)
LEMMA SaveInv ==
    ASSUME ProcInv, Uservec, StackHolds \/ StackLoses
    PROVE  ProcInv'
<1>0. /\ kernel = "uservec" /\ kernel' = "handler" /\ errorOccurred = "none"
      /\ UNCHANGED <<currentProcess, hart, csr, cause, timer, errorOccurred>>
      /\ \/ /\ pd' = [pd EXCEPT ![currentProcess].regs = hart.regs]
            /\ left' = left
         \/ /\ pd' = [pd EXCEPT ![currentProcess].regs = Garbage]
            /\ left' = [left EXCEPT ![currentProcess].held = FALSE]
    BY DEF Uservec, StackHolds, StackLoses, Save, SaveSlot, NotHeld, Running
<1>a. /\ pd' \in [Pids -> Slots] /\ left' \in [Pids -> Saved]
      /\ \A p \in Pids : /\ pd'[p].slotAllocated => pd[p].slotAllocated
                         /\ pd'[p].satp = pd[p].satp /\ pd'[p].epc = pd[p].epc
                         /\ p # currentProcess => pd'[p] = pd[p] /\ left'[p] = left[p]
    <2>1. hart.regs \in Contexts \cup {Garbage}
        BY Typed DEF Harts
    <2>2. PICK r \in Contexts \cup {Garbage} : pd' = [pd EXCEPT ![currentProcess].regs = r]
        BY <1>0, <2>1
    <2>3. pd' \in [Pids -> Slots]
        BY <2>2, Typed DEF Slots
    <2>4. \A p \in Pids : /\ pd'[p].slotAllocated => pd[p].slotAllocated
                          /\ pd'[p].satp = pd[p].satp /\ pd'[p].epc = pd[p].epc
                          /\ p # currentProcess => pd'[p] = pd[p]
        BY <2>2, Typed DEF Slots
    <2>5. left' \in [Pids -> Saved] /\ \A p \in Pids : p # currentProcess => left'[p] = left[p]
        BY <1>0, LeftKept
    <2> QED BY <2>3, <2>4, <2>5
<1>1. TypeOK'
    BY <1>0, <1>a, TypeParts, TypePartsNext DEF ProcInv, RestOK
<1>2. SlotsReady'
    <2> SUFFICES ASSUME NEW p \in Pids, pd'[p].slotAllocated
                 PROVE  pd'[p].satp = TableOf(p) /\ pd'[p].epc \in Contexts /\ pd'[p].epc.proc = p
        BY DEF SlotsReady
    <2>1. pd[p].slotAllocated /\ pd'[p].satp = pd[p].satp /\ pd'[p].epc = pd[p].epc
        BY <1>a
    <2> QED BY <1>0, <2>1 DEF ProcInv, SlotsReady
<1>3. ChosenRuns'
    BY <1>0 DEF ProcInv, ChosenRuns, TimerTrapped
<1>4. SavedInPart'
    <2>1. CASE cause = "timer"
        <3>1. hart.pc = left[currentProcess].pc /\ hart.regs = left[currentProcess].regs
            BY <1>0, <2>1 DEF ProcInv, SavedInPart, TimerTrapped
        <3>2. left'[currentProcess].pc = left[currentProcess].pc
            BY <1>0, Typed DEF Saved
        <3>3. left'[currentProcess].held => pd'[currentProcess].regs = left'[currentProcess].regs
            BY <1>0, <3>1, Typed DEF Saved, Slots
        <3> QED BY <1>0, <3>1, <3>2, <3>3 DEF SavedInPart, TimerTrapped
    <2> QED BY <1>0, <2>1 DEF SavedInPart, TimerTrapped
<1>5. InterruptedStateKept'
    BY <1>0, <1>a DEF ProcInv, InterruptedStateKept, OnItsWay
<1>6. GaveUp'
    BY <1>0 DEF GaveUp
<1> QED BY <1>1, <1>2, <1>3, <1>4, <1>5, <1>6 DEF ProcInv

LEMMA HandlerInv == ProcInv /\ Handler => ProcInv'
<1> SUFFICES ASSUME ProcInv, Handler PROVE ProcInv'
    OBVIOUS
<1>1. TypeOK'
    <2>1. pd' \in [Pids -> Slots]
        <3>1. hart.satp \in 0 .. NPROC /\ hart.pc \in Contexts \cup {NoContext}
            BY Typed DEF Harts
        <3>2. pd' = [pd EXCEPT ![currentProcess].satp = hart.satp,
                               ![currentProcess].epc = hart.pc]
            BY DEF Handler
        <3> DEFINE s == hart.satp
                   c == hart.pc
        <3>3. pd' = [pd EXCEPT ![currentProcess].satp = s, ![currentProcess].epc = c]
            BY <3>2
        <3> HIDE DEF s, c
        <3>4. ASSUME NEW x \in Slots
              PROVE  [x EXCEPT !.satp = hart.satp, !.epc = hart.pc] \in Slots
            BY <3>1 DEF Slots
        <3>5. /\ pd' = [p \in Pids |-> pd'[p]]
              /\ pd'[currentProcess] = [pd[currentProcess] EXCEPT !.satp = s, !.epc = c]
              /\ \A p \in Pids : p # currentProcess => pd'[p] = pd[p]
            BY <3>3, Typed
        <3>6. pd'[currentProcess] \in Slots
            BY <3>4, <3>5, Typed DEF s, c
        <3> QED BY <3>5, <3>6, Typed
    <2>2. csr' \in Csrs
        BY DEF Csrs, Handler
    <2> QED BY <2>1, <2>2, TypeParts, TypePartsNext DEF ProcInv, RestOK, Handler, Error
<1>2. SlotsReady'
    BY DEF ProcInv, TypeOK, SlotsReady, ChosenRuns, TimerTrapped, Handler, Error, Running
<1>3. ChosenRuns'
    BY DEF ProcInv, TypeOK, SlotsReady, ChosenRuns, TimerTrapped, Handler, Error, Running
<1>4. SavedInPart'
    BY DEF ProcInv, TypeOK, SavedInPart, ChosenRuns, TimerTrapped, Handler, Error, Running
<1>5. InterruptedStateKept'
    <2> SUFFICES ASSUME NEW p \in Pids, left[p].pc # NoContext,
                        ~(kernel' \in {"uservec", "handler"} /\ p = currentProcess)
                 PROVE  /\ pd'[p].epc = left[p].pc
                        /\ left[p].held => pd'[p].regs = left[p].regs
        BY DEF InterruptedStateKept, OnItsWay, Handler
    <2>1. CASE p = currentProcess
        BY <2>1, Typed DEF ProcInv, SavedInPart, TimerTrapped, Handler, Running, Slots
    <2>2. CASE p # currentProcess
        <3>1. pd'[p] = pd[p]
            BY <2>2, Typed DEF Handler
        <3> QED BY <2>2, <3>1 DEF ProcInv, InterruptedStateKept, OnItsWay
    <2> QED BY <2>1, <2>2
<1>6. GaveUp'
    BY DEF ProcInv, TypeOK, GaveUp, Ready, Handler, Error, Running
<1> QED BY <1>1, <1>2, <1>3, <1>4, <1>5, <1>6 DEF ProcInv
-----------------------------------------------------------------------------
LEMMA NextInv == ProcInv /\ [Next]_vars => ProcInv'
<1> SUFFICES ASSUME ProcInv, [Next]_vars PROVE ProcInv'
    OBVIOUS
<1>1. CASE CreateProcess
    BY <1>1, CreateProcessInv
<1>2. CASE CreateProcessFails
    BY <1>2, CreateProcessFailsInv
<1>3. CASE Start
    BY <1>3, StartInv
<1>4. CASE SelectProcessToRun
    BY <1>4, ContinueInv, PickNextInv, NoProcessToRunInv DEF SelectProcessToRun
<1>5. CASE RunProcess
    BY <1>5, RunProcessInv
<1>6. CASE Userret
    BY <1>6, UserretContextInv, FaultInv DEF Userret
<1>7. CASE UserRuns
    BY <1>7, UserRunsInv
<1>8. CASE TimerFires
    BY <1>8, TimerFiresInv
<1>9. CASE TimerTrap \/ ExceptionTrap
    BY <1>9, TrapInv
<1>10. CASE Handler
    BY <1>10, HandlerInv
<1>12. CASE Uservec
    BY <1>12, SaveInv, FaultInv DEF Uservec, StackFaults
<1>11. CASE UNCHANGED vars
    <2>1. TypeOK'
        BY <1>11, TypeParts, TypePartsNext DEF ProcInv, RestOK, vars
    <2>3. SlotsReady' /\ SavedInPart'
        BY <1>11 DEF ProcInv, SlotsReady, SavedInPart, TimerTrapped, vars
    <2>2. ChosenRuns' /\ InterruptedStateKept' /\ GaveUp'
        BY <1>11 DEF ProcInv, ChosenRuns, TimerTrapped, InterruptedStateKept, OnItsWay, GaveUp, Ready, vars
    <2> QED BY <2>1, <2>2, <2>3 DEF ProcInv
<1> QED BY <1>1, <1>2, <1>3, <1>4, <1>5, <1>6, <1>7, <1>8, <1>9, <1>10, <1>11, <1>12 DEF Next

LEMMA Invariance == Spec => []ProcInv
    BY InitInv, NextInv, PTL DEF Spec

(***************************************************************************)
(* The index of the current process stays inside the process table and     *)
(* every slot, register and control bit keeps its type, through any number *)
(* of switches.                                                            *)
(***************************************************************************)
THEOREM ProcessesTyped == Spec => []TypeOK
    BY Invariance, PTL DEF ProcInv

(***************************************************************************)
(* userret leaves for user mode only with the process the scheduler chose: *)
(* its program counter, its page table, and uservec to come back to.       *)
(***************************************************************************)
THEOREM ChosenProcessRuns == Spec => []UserModeIsCurrent
<1>1. ProcInv => UserModeIsCurrent
    BY DEF ProcInv, ChosenRuns, TimerTrapped, UserModeIsCurrent
<1> QED BY <1>1, Invariance, PTL

(***************************************************************************)
(* runProcess switches the timer on early, and still no interrupt finds    *)
(* the kernel between the trap and userret.                                *)
(***************************************************************************)
THEOREM SwitchIsAtomic == Spec => []KernelNotInterrupted
<1>1. ProcInv => KernelNotInterrupted
    BY DEF ProcInv, ChosenRuns, TimerTrapped, KernelNotInterrupted
<1> QED BY <1>1, Invariance, PTL

(***************************************************************************)
(* uservec and the handler together save what a process was interrupted    *)
(* with, and nothing that runs later touches it: its pc always, and its    *)
(* registers whenever its own stack held t0 and t1 for uservec.            *)
(***************************************************************************)
THEOREM InterruptedStateSaved == Spec => []InterruptedStateKept
    BY Invariance, PTL DEF ProcInv

(* The scan stops at the first READY slot, counted from the current one.   *)
LEMMA PickSkipsNone ==
    ASSUME ProcInv, SelectProcessToRun, PickNext,
           NEW p \in Pids, Ready(p), Between(currentProcess, currentProcess', p)
    PROVE  FALSE
<1> DEFINE at(j) == (currentProcess + 1 + j) % NPROC
           place(q) == (q + NPROC - currentProcess - 1) % NPROC
<1>1. PICK i \in 0 .. NPROC - 1 : ScanFinds(i) /\ currentProcess' = at(i)
    BY DEF PickNext
<1>2. place(at(i)) = i
    <2>0. currentProcess \in 0 .. NPROC - 1
        BY Typed DEF Pids
    <2>1. CASE currentProcess + 1 + i < NPROC
        <3>1. at(i) = currentProcess + 1 + i
            BY <2>0, <2>1
        <3>2. at(i) + NPROC - currentProcess - 1 = i + NPROC
            BY <2>0, <3>1
        <3> QED BY <3>2
    <2>2. CASE currentProcess + 1 + i >= NPROC
        <3>1. at(i) = currentProcess + 1 + i - NPROC
            BY <2>0, <2>2
        <3>2. at(i) + NPROC - currentProcess - 1 = i
            BY <2>0, <3>1
        <3> QED BY <3>2
    <2> QED BY <2>0, <2>1, <2>2
<1>3. place(p) \in 0 .. i - 1
    <2>1. place(p) \in 0 .. NPROC - 1
        BY Typed, PlaceInScan
    <2>2. place(p) < i
        BY <1>1, <1>2 DEF Between
    <2> QED BY <2>1, <2>2
<1>4. (currentProcess + 1 + place(p)) % NPROC = p
    <2>1. currentProcess \in Pids
        BY Typed
    <2> QED BY <2>1, PlaceInScan
<1> HIDE DEF place
<1>5. ~Ready(at(place(p)))
    BY <1>1, <1>3 DEF ScanFinds
<1> QED BY <1>4, <1>5

(***************************************************************************)
(* selectProcessToRun passes no READY process over, and gives up only when *)
(* there is none, for any number of slots.                                 *)
(***************************************************************************)
THEOREM SchedulerSkipsNone == Spec => NoneSkipped
<1> DEFINE SkipsNone ==
       /\ kernel = "select" /\ kernel' = "run" =>
              \A p \in Pids : Ready(p) /\ Between(currentProcess, currentProcess', p)
                                 => MayContinue
       /\ kernel = "select" /\ errorOccurred' # "none" => \A p \in Pids : ~Ready(p)
<1>1. ProcInv /\ [Next]_vars => [SkipsNone]_vars
    <2> SUFFICES ASSUME ProcInv, Next, kernel = "select" PROVE SkipsNone
        BY DEF SkipsNone
    <2>1. CASE SelectProcessToRun
        <3>1. CASE Continue
            BY <2>1, <3>1 DEF Continue, SelectProcessToRun, Running
        <3>2. CASE PickNext
            BY <2>1, <3>2, PickSkipsNone DEF PickNext, SelectProcessToRun, Running
        <3>3. CASE NoProcessToRun
            BY <3>3, ScanComplete DEF NoProcessToRun
        <3> QED BY <2>1, <3>1, <3>2, <3>3 DEF SelectProcessToRun
    <2>2. CASE TimerFires
        BY <2>2 DEF TimerFires, ProcInv, GaveUp
    <2>3. ~(CreateProcess \/ CreateProcessFails \/ Start \/ RunProcess \/ Userret
            \/ UserRuns \/ TimerTrap \/ ExceptionTrap \/ Uservec \/ Handler)
        BY DEF CreateProcess, CreateProcessFails, Start, RunProcess, Userret,
               UserRuns, TimerTrap, ExceptionTrap, Uservec, Handler, Running
    <2> QED BY <2>1, <2>2, <2>3 DEF Next
<1> QED BY <1>1, Invariance, PTL DEF NoneSkipped, Spec
=============================================================================
