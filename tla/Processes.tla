----------------------------- MODULE Processes -----------------------------
(***************************************************************************)
(* Processes: the descriptor table, createProcess (kernel/createProcess.c),*)
(* the scheduler (kernel/process.c), the trap from user mode               *)
(* (kernel/uservec.S, userInterruptHandler) and the way back (userret).    *)
(*                                                                         *)
(* The kernel creates processes and calls dispatcher(), which does not     *)
(* return; from then on it runs only when a trap leaves user mode, through *)
(* the steps Uservec, Handler, SelectProcessToRun, RunProcess and Userret. *)
(*                                                                         *)
(* The context of a process, its registers or its program counter, is      *)
(* modelled by the process it belongs to and how far that has run.  The    *)
(* stack pointer of a process is taken to name no memory of the kernel.    *)
(***************************************************************************)
EXTENDS Naturals

CONSTANTS
    NPROC,          \* slots of the process table (64 in declarations.h)
    TimeQuantum,    \* 100000 in declarations.h
    NoContext,      \* none saved yet
    Garbage,        \* registers that are no process's
    MaxSteps        \* bound: how far a process runs

ASSUME NprocAssumption == NPROC \in Nat \ {0}
ASSUME QuantumAssumption == TimeQuantum \in Nat \ {0}
ASSUME MaxStepsAssumption == MaxSteps \in Nat

VARIABLES
    pd,             \* the process table
    currentProcess,
    kernel,         \* what the kernel does, or "user"
    hart,           \* user registers, pc (mepc in the kernel), satp
    csr,            \* mtvec, mstatus.MIE and MPIE, mie.MTIE
    cause,          \* mcause of the last trap
    timer,          \* the timer's interrupt is pending
    errorOccurred,  \* the message of error(), or "none"
    left            \* history: the context each process was interrupted in,
                    \* and whether its stack held what uservec put there

vars == <<pd, currentProcess, kernel, hart, csr, cause, timer, errorOccurred, left>>

Pids == 0 .. NPROC - 1

Contexts == [proc : Pids, n : 0 .. MaxSteps]

(* The page table of a process: its address in RAM, with no mode.          *)
TableOf(p) == p + 1

(* The global pd is zero at boot; state 0 is CREATED.                      *)
Init ==
    /\ pd = [p \in Pids |-> [slotAllocated |-> FALSE, state |-> "CREATED", timeLeft |-> 0,
                             regs |-> Garbage, epc |-> NoContext, satp |-> 0]]
    /\ currentProcess = 0
    /\ kernel = "boot"
    /\ hart = [regs |-> Garbage, pc |-> NoContext, satp |-> 0]
    /\ csr = [mtvec |-> "kernelvec", MIE |-> FALSE, MPIE |-> FALSE, MTIE |-> FALSE]
    /\ cause = "none"
    /\ timer = FALSE
    /\ errorOccurred = "none"
    /\ left = [p \in Pids |-> [regs |-> Garbage, pc |-> NoContext, held |-> FALSE]]

Running(k) == kernel = k /\ errorOccurred = "none"

Error(message) == errorOccurred' = message

-----------------------------------------------------------------------------
(***************************************************************************)
(* createProcess(): the first free slot; programLoader fills its page      *)
(* table, entry point and stack pointer (module PageTables), or fails.     *)
(***************************************************************************)
FreeSlots == {p \in Pids : ~pd[p].slotAllocated}

CreateProcess ==
    /\ Running("boot")
    /\ FreeSlots # {}
    /\ LET pid == CHOOSE p \in FreeSlots : \A q \in FreeSlots : p <= q
           start == [proc |-> pid, n |-> 0]
       IN pd' = [pd EXCEPT ![pid] =
                    [slotAllocated |-> TRUE, state |-> "READY", timeLeft |-> TimeQuantum,
                     regs |-> start, epc |-> start, satp |-> TableOf(pid)]]
    /\ UNCHANGED <<currentProcess, kernel, hart, csr, cause, timer, errorOccurred, left>>

CreateProcessFails ==
    /\ Running("boot")
    /\ Error(IF FreeSlots = {} THEN "table filled" ELSE "loading unsuccessful")
    /\ UNCHANGED <<pd, currentProcess, kernel, hart, csr, cause, timer, left>>

(* The call of dispatcher() that starts user mode. *)
Start ==
    /\ Running("boot")
    /\ kernel' = "select"
    /\ UNCHANGED <<pd, currentProcess, hart, csr, cause, timer, errorOccurred, left>>

-----------------------------------------------------------------------------
(***************************************************************************)
(* selectProcessToRun()                                                    *)
(***************************************************************************)
Ready(p) == pd[p].slotAllocated /\ pd[p].state = "READY"

MayContinue == Ready(currentProcess) /\ pd[currentProcess].timeLeft > 0

(* Mutant of ScanFinds: the scan starts one slot later. *)
ScanFindsLateStart(i) ==
    LET at(j) == (currentProcess + 2 + j) % NPROC
    IN i < NPROC /\ Ready((currentProcess + 1 + i) % NPROC)
       /\ \E n \in 0 .. NPROC - 1 :
             /\ at(n) = (currentProcess + 1 + i) % NPROC
             /\ \A j \in 0 .. n - 1 : ~Ready(at(j))

(* The scan starts with the next slot and ends with the current one. *)
ScanFinds(i) ==
    LET at(j) == (currentProcess + 1 + j) % NPROC
    IN i < NPROC /\ Ready(at(i)) /\ \A j \in 0 .. i - 1 : ~Ready(at(j))

Continue ==
    /\ MayContinue
    /\ pd' = [pd EXCEPT ![currentProcess].state = "RUNNING"]
    /\ kernel' = "run"
    /\ UNCHANGED <<currentProcess, errorOccurred>>

(* Mutants of Picked (the state stays READY) and of After (the index is    *)
(* not wrapped).                                                           *)
PickedStaysReady(p) == [pd EXCEPT ![p].timeLeft = TimeQuantum]
AfterUnwrapped(p) == p + 1

Picked(p) == [pd EXCEPT ![p].timeLeft = TimeQuantum, ![p].state = "RUNNING"]
After(p) == (p + 1) % NPROC

PickNext ==
    /\ ~MayContinue
    /\ \E i \in 0 .. NPROC - 1 :
          LET p == (currentProcess + 1 + i) % NPROC
          IN ScanFinds(i) /\ pd' = Picked(p) /\ currentProcess' = p
    /\ kernel' = "run"
    /\ UNCHANGED errorOccurred

(* NPROC + 1 increments: the index ends on the slot after the current one. *)
NoProcessToRun ==
    /\ ~MayContinue
    /\ \A i \in 0 .. NPROC - 1 : ~ScanFinds(i)
    /\ currentProcess' = After(currentProcess)
    /\ Error("no process to run")
    /\ UNCHANGED <<pd, kernel>>

SelectProcessToRun ==
    /\ Running("select")
    /\ Continue \/ PickNext \/ NoProcessToRun
    /\ UNCHANGED <<hart, csr, cause, timer, left>>

(* Mutant of TimerOn: MIE is set instead of MPIE. *)
TimerOnAtOnce == [csr EXCEPT !.mtvec = "uservec", !.MIE = TRUE, !.MTIE = TRUE]

TimerOn == [csr EXCEPT !.mtvec = "uservec", !.MPIE = TRUE, !.MTIE = TRUE]

(* runProcess(), up to the call of userret *)
RunProcess ==
    /\ Running("run")
    /\ csr' = TimerOn
    /\ hart' = [hart EXCEPT !.satp = pd[currentProcess].satp,
                            !.pc = pd[currentProcess].epc]
    /\ kernel' = "ret"
    /\ UNCHANGED <<pd, currentProcess, cause, timer, errorOccurred, left>>

(* What a trap does to the interrupt-enable bits. *)
Trapped == [csr EXCEPT !.MPIE = csr.MIE, !.MIE = FALSE]

(* userret: the index of the save area is loaded through t0, which nothing *)
(* has set; what is there may be the index of any slot, or of none, or the *)
(* load may fault.  A fault traps to uservec, from machine mode.           *)
UserretContext ==
    /\ \E r \in {pd[p].regs : p \in Pids} \cup {Garbage} : hart' = [hart EXCEPT !.regs = r]
    /\ kernel' = "user"
    /\ csr' = [csr EXCEPT !.MIE = csr.MPIE, !.MPIE = TRUE]
    /\ UNCHANGED <<pd, cause>>

(* A fault in the kernel: the registers and the pc are the kernel's. *)
Fault ==
    /\ hart' = [hart EXCEPT !.regs = Garbage, !.pc = NoContext]
    /\ cause' = "exception"
    /\ kernel' = "uservec"
    /\ csr' = Trapped
    /\ UNCHANGED pd

Userret ==
    /\ Running("ret")
    /\ UserretContext \/ Fault
    /\ UNCHANGED <<currentProcess, timer, errorOccurred, left>>

-----------------------------------------------------------------------------
(***************************************************************************)
(* User mode.                                                              *)
(***************************************************************************)
Further(c) == IF c # Garbage /\ c.n < MaxSteps THEN [c EXCEPT !.n = @ + 1] ELSE c

UserRuns ==
    /\ Running("user")
    /\ hart.pc.n < MaxSteps
    /\ hart' = [hart EXCEPT !.pc = Further(@), !.regs = Further(@)]
    /\ UNCHANGED <<pd, currentProcess, kernel, csr, cause, timer, errorOccurred, left>>

(* The kernel never programs the timer and never clears its interrupt.     *)
TimerFires ==
    /\ ~timer
    /\ timer' = TRUE
    /\ UNCHANGED <<pd, currentProcess, kernel, hart, csr, cause, errorOccurred, left>>

Trap(why) ==
    /\ left' = [left EXCEPT ![currentProcess] =
                   [regs |-> hart.regs, pc |-> hart.pc, held |-> TRUE]]
    /\ cause' = why
    /\ kernel' = "uservec"
    /\ csr' = Trapped
    /\ UNCHANGED <<pd, currentProcess, hart, timer, errorOccurred>>

TimerTrap == Running("user") /\ timer /\ csr.MTIE /\ Trap("timer")

ExceptionTrap == Running("user") /\ Trap("exception")

(* Mutant of SaveSlot: the slot after the current one. *)
NextSlot == (currentProcess + 1) % NPROC

SaveSlot == currentProcess

Save(regs) == pd' = [pd EXCEPT ![SaveSlot].regs = regs] /\ kernel' = "handler"

(* uservec needs t0 and t1 to find the slot, and keeps them on the stack   *)
(* of the process meanwhile.  It stores without translation: what the      *)
(* stack pointer names there may be memory, or something that does not     *)
(* hold them, or nothing, and the store traps to uservec again.            *)
StackHolds == Save(hart.regs) /\ UNCHANGED <<hart, csr, cause, left>>

NotHeld == left' = [left EXCEPT ![currentProcess].held = FALSE]

StackLoses == Save(Garbage) /\ NotHeld /\ UNCHANGED <<hart, csr, cause>>

StackFaults == Fault /\ NotHeld

Uservec ==
    /\ Running("uservec")
    /\ StackHolds \/ StackLoses \/ StackFaults
    /\ UNCHANGED <<currentProcess, timer, errorOccurred>>

(* userInterruptHandler(): its test of mcause for the mode it came from    *)
(* looks at bits that no cause sets.                                       *)
Handler ==
    /\ Running("handler")
    /\ csr' = [mtvec |-> "kernelvec", MIE |-> FALSE, MPIE |-> FALSE, MTIE |-> FALSE]
    /\ pd' = [pd EXCEPT ![currentProcess].satp = hart.satp, ![currentProcess].epc = hart.pc]
    /\ IF cause = "timer"
       THEN kernel' = "select" /\ UNCHANGED errorOccurred
       ELSE Error("exception occurred") /\ UNCHANGED kernel
    /\ UNCHANGED <<currentProcess, hart, cause, timer, left>>

Next ==
    \/ CreateProcess \/ CreateProcessFails \/ Start
    \/ SelectProcessToRun \/ RunProcess \/ Userret
    \/ UserRuns \/ TimerFires \/ TimerTrap \/ ExceptionTrap
    \/ Uservec \/ Handler

Spec == Init /\ [][Next]_vars

-----------------------------------------------------------------------------
(***************************************************************************)
(* The types.                                                              *)
(***************************************************************************)
TypeOK ==
    /\ pd \in [Pids -> [slotAllocated : BOOLEAN, state : {"CREATED", "READY", "RUNNING"},
                        timeLeft : {0, TimeQuantum}, regs : Contexts \cup {Garbage},
                        epc : Contexts \cup {NoContext}, satp : 0 .. NPROC]]
    /\ currentProcess \in Pids
    /\ kernel \in {"boot", "select", "run", "ret", "user", "uservec", "handler"}
    /\ hart \in [regs : Contexts \cup {Garbage}, pc : Contexts \cup {NoContext},
                 satp : 0 .. NPROC]
    /\ csr \in [mtvec : {"kernelvec", "uservec"},
                MIE : BOOLEAN, MPIE : BOOLEAN, MTIE : BOOLEAN]
    /\ cause \in {"none", "timer", "exception"}
    /\ timer \in BOOLEAN
    /\ errorOccurred \in {"none", "table filled", "loading unsuccessful",
                          "no process to run", "exception occurred"}
    /\ left \in [Pids -> [regs : Contexts \cup {Garbage}, pc : Contexts \cup {NoContext},
                          held : BOOLEAN]]

(***************************************************************************)
(* In user mode runs the process the scheduler chose: the current slot is  *)
(* taken and RUNNING, the program counter is that process's, satp is its   *)
(* page table, and a timer interrupt would come to uservec.                *)
(***************************************************************************)
UserModeIsCurrent ==
    kernel = "user" =>
        /\ pd[currentProcess].slotAllocated /\ pd[currentProcess].state = "RUNNING"
        /\ hart.pc.proc = currentProcess
        /\ hart.satp = TableOf(currentProcess)
        /\ csr.mtvec = "uservec" /\ csr.MTIE

(***************************************************************************)
(* The kernel is not interrupted on the way into and out of user mode,     *)
(* although runProcess switches the timer on before it leaves: its save    *)
(* area, its stack and currentProcess have one user at a time.             *)
(***************************************************************************)
KernelNotInterrupted == kernel # "user" => ~(csr.MIE /\ csr.MTIE)

(***************************************************************************)
(* What a process was interrupted with stays in its slot, whatever runs    *)
(* after it: its program counter, and its registers unless the stack it    *)
(* left to uservec did not hold two of them.  (The current process's state *)
(* is on its way to the slot until the handler has stored mepc; of an      *)
(* exception it does not come back.)                                       *)
(***************************************************************************)
OnItsWay(p) == kernel \in {"uservec", "handler"} /\ p = currentProcess

InterruptedStateKept ==
    \A p \in Pids : left[p].pc # NoContext /\ ~OnItsWay(p) =>
                        /\ pd[p].epc = left[p].pc
                        /\ left[p].held => pd[p].regs = left[p].regs

(***************************************************************************)
(* The scheduler gives up only when no process is READY, and until then it *)
(* skips none: a slot between the last process and the next is not READY.  *)
(***************************************************************************)
Between(c, d, p) == (p + NPROC - c - 1) % NPROC < (d + NPROC - c - 1) % NPROC

NoneSkipped ==
    [][/\ kernel = "select" /\ kernel' = "run" =>
              \A p \in Pids : Ready(p) /\ Between(currentProcess, currentProcess', p)
                                 => MayContinue
       /\ kernel = "select" /\ errorOccurred' # "none" => \A p \in Pids : ~Ready(p)]_vars

(***************************************************************************)
(* "Select a process to run based on round-robin scheduling method": as    *)
(* long as there is a process, the scheduler finds one to run.             *)
(***************************************************************************)
SchedulerFindsProcess ==
    errorOccurred = "no process to run" => \A p \in Pids : ~pd[p].slotAllocated
=============================================================================
