-------------------------------- MODULE Log --------------------------------
(***************************************************************************)
(* The log on the disk: logDataInit and logData of kernel/debug.c, and     *)
(* logs/getLogInfo.c, which copies the first log block out of the disk     *)
(* image.  logData has the loop of writeBytes, with the globals block_no   *)
(* and off for its position: they outlive the call, but not a reboot.      *)
(* The machine may be switched off between any two steps.                  *)
(***************************************************************************)
EXTENDS ByteIO, Sequences

CONSTANTS
    LOGSTART,       \* the first log block (900 in declarations.h)
    LogLengths,     \* bound: lengths of the strings logged
    MaxLogs,        \* bound: calls of logData per boot
    MaxBoots        \* bound: how often the machine is switched on

ASSUME LogstartAssumption == LOGSTART \in Blocks
ASSUME LogLengthsAssumption == LogLengths \subseteq Nat

VARIABLES
    block_no, off,  \* where the next byte of the log goes
    logged,         \* history: the bytes given to logData since boot
    logCalls,       \* and the number of its calls
    atBoot,         \* history: the disk when the machine was switched on
    boots

logVars == <<block_no, off, logged, logCalls, atBoot, boots>>

LogDataInit == block_no = LOGSTART /\ off = 0

LogInit ==
    /\ Init
    /\ LogDataInit
    /\ logged = <<>> /\ logCalls = 0 /\ atBoot = stable /\ boots = 1

(* The string is n bytes at l.  Bound: in the first boot no other call     *)
(* goes before it.                                                         *)
LogData(l, n) ==
    /\ call = NoCall \/ logCalls > 0
    /\ logCalls < MaxLogs /\ logCalls' = logCalls + 1
    /\ Begin([write |-> TRUE, virtual |-> FALSE, block |-> block_no, offset |-> off,
              nBytes |-> n, memoryLocation |-> l])
    /\ logged' = logged \o [i \in 1 .. n |-> memory[l + i - 1]]
    /\ UNCHANGED <<block_no, off, atBoot, boots>>

OtherCall(c) == boots = 1 /\ Call(c) /\ UNCHANGED logVars

(* Mutant of Step: the position is the call's own and starts over.         *)
StepForgetsOffset ==
    /\ Progress
    /\ IF logCalls > 0 THEN block_no' = block' /\ off' = 0 ELSE UNCHANGED <<block_no, off>>
    /\ UNCHANGED <<logged, logCalls, atBoot, boots>>

(* In logData the position of the loop is block_no and off.                *)
Step ==
    /\ Progress
    /\ IF logCalls > 0 THEN block_no' = block' /\ off' = pos' ELSE UNCHANGED <<block_no, off>>
    /\ UNCHANGED <<logged, logCalls, atBoot, boots>>

(* Off and on again: the disk stays, memory is as the boot loader fills it.*)
Reboot ==
    /\ boots < MaxBoots /\ boots' = boots + 1
    /\ view' = stable /\ open' = [u \in {"caller"} |-> NoBlock]
    /\ memory' = BootMemory
    /\ pc' = "idle" /\ call' = NoCall /\ before' = NoCall
    /\ block' = 0 /\ pos' = 0 /\ done' = 0
    /\ errorOccurred' = FALSE
    /\ block_no' = LOGSTART /\ off' = 0
    /\ logged' = <<>> /\ logCalls' = 0 /\ atBoot' = stable
    /\ UNCHANGED stable

Next ==
    \/ \E n \in LogLengths : \E l \in 0 .. MemSize - n : LogData(l, n)
    \/ \E c \in Calls : OtherCall(c)
    \/ Step
    \/ Reboot

Spec == LogInit /\ [][Next]_<<vars, logVars>>

-----------------------------------------------------------------------------
(***************************************************************************)
(* The position is the next byte of the log, or just past its block, and   *)
(* stays inside the log area until error().                                *)
(***************************************************************************)
LogTypeOK ==
    /\ TypeOK
    /\ block_no \in LOGSTART .. DISKSIZE /\ off \in 0 .. BSIZE
    /\ Running("idle") => (block_no - LOGSTART) * BSIZE + off = Len(logged)

(* The disk at boot with the first c bytes of the log written over it.     *)
WithLog(c) ==
    LET start == LOGSTART * BSIZE
    IN [a \in Addresses |-> IF start <= a /\ a < start + c THEN logged[a - start + 1]
                            ELSE Flat(atBoot)[a]]

(***************************************************************************)
(* Whenever the power goes, the disk has all the calls of logData that     *)
(* returned since boot, and of one that did not a prefix, one string right *)
(* behind the other; no byte outside the log area is touched.              *)
(***************************************************************************)
LogIsDurable ==
    logCalls > 0 =>
        \E c \in Len(logged) - (IF pc = "idle" THEN 0 ELSE call.nBytes) .. Len(logged) :
            Flat(stable) = WithLog(c)

(***************************************************************************)
(* logData ends in error() when the log does not fit its area, and only    *)
(* then: the last byte of the disk can be used.                            *)
(***************************************************************************)
Capacity == (DISKSIZE - LOGSTART) * BSIZE

LogRefusesOverflowOnly ==
    logCalls > 0 => /\ errorOccurred => Len(logged) > Capacity
                    /\ Running("idle") => Len(logged) <= Capacity

(* logs/getLogInfo.c copies the first log block of the image.              *)
Extracted == stable[LOGSTART]

(***************************************************************************)
(* What getLogInfo extracts between two calls begins with the log of this  *)
(* boot, as far as one block holds it; behind it is what was there before. *)
(***************************************************************************)
ExtractsFirstBlock ==
    logCalls > 0 /\ pc = "idle" =>
        \A i \in Positions :
            Extracted[i] = IF i < Len(logged) THEN logged[i + 1] ELSE atBoot[LOGSTART][i]
=============================================================================
