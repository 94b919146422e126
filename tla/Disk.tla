------------------------------- MODULE Disk -------------------------------
(***************************************************************************)
(* The virtio disk driver of kernel/disk.c, with all that can interleave   *)
(* with one call of diskRW: the device, which runs on its own, the         *)
(* interrupt controller (kernel/plic.c), the trap path of the kernel       *)
(* (kernel/kernelvec.S, kernel/interruptHandler.c), the interrupt-enable   *)
(* bits of the hart, and the UART, whose interrupts take the same path.    *)
(*                                                                         *)
(* diskRW is the only place where the kernel lets interrupts in.  It runs  *)
(* as the steps Fill, Publish, Notify, Arm, Sleep, Finish; TrapEntry,      *)
(* DiskIntrStep and TrapReturn are the interrupt handler; the device's     *)
(* steps are Fetch, Transfer, Complete and Raise.                          *)
(***************************************************************************)
EXTENDS Naturals, FiniteSets

CONSTANTS
    NUM,            \* descriptors in the queue (8 in declarations.h)
    IdxMod,         \* the ring indices are counted modulo this (2^16)
    Bufs, Blocks, Data,
    NoBuf,          \* the null Buffer pointer
    NoReq,          \* diskRW is not running
    MaxKeys,        \* bound: keys pressed
    KeyedData,      \* bound: contents of blocks and buffers with keys pressed
    IoErrors        \* TRUE: the device may report a failed transfer

ASSUME NumAssumption == NUM \in Nat /\ NUM >= 3
ASSUME IdxModAssumption == IdxMod \in Nat /\ IdxMod > 0 /\ IdxMod % NUM = 0
ASSUME FlagsAssumption == MaxKeys \in Nat /\ IoErrors \in BOOLEAN
ASSUME NoBufAssumption == NoBuf \notin Bufs
ASSUME NoReqAssumption ==
    NoReq \notin [buf : Bufs, write : BOOLEAN, result : {"pending", "moved", "failed"}]

VARIABLES
    pc,             \* where diskRW is
    req,            \* its arguments b and write, and idx[0]
    free,           \* disk.free
    desc,           \* disk.desc: address, and next if the chain goes on
    avail,          \* the available ring: its index and its entries
    info,           \* disk.info: buffer and status byte of each chain head
    used,           \* the used ring, written by the device
    used_idx,       \* disk.used_idx
    mem,            \* of every Buffer: blockno, data and the flag disk
    csr,            \* mstatus.MIE, mstatus.MPIE and mie.MEIE
    pending,        \* interrupts waiting in the PLIC
    claimed,        \* the interrupt being handled, or NoIrq
    errorOccurred,  \* the kernel is in the endless loop of error()
    dev,            \* the device: requests seen, notified, in hand, broken
    media,          \* what the disk holds
    keysLeft,       \* keys that may still be pressed
    keyed           \* history: a key was pressed

rings == <<free, desc, avail, info, used, used_idx>>
trap  == <<csr, pending, claimed>>
vars  == <<pc, req, rings, mem, trap, errorOccurred, dev, media, keysLeft, keyed>>
keyboard == <<keysLeft, keyed>>

Index == 0 .. NUM - 1
NoNext == NUM                   \* the flag VRING_DESC_F_NEXT is clear

DISK_IRQ == 1                   \* VIRTIO0_IRQ
UART_IRQ == 10                  \* UART0_IRQ
NoIrq == 0

Steps == {"off", "idle", "filled", "published", "notified", "armed", "wfi", "woken"}

(***************************************************************************)
(* Memory starts out zero.                                                 *)
(***************************************************************************)
Init ==
    /\ pc = "off"
    /\ req = NoReq
    /\ free = [i \in Index |-> FALSE]
    /\ desc = [i \in Index |-> [addr |-> "null", next |-> NoNext]]
    /\ avail = [idx |-> 0, ring |-> [i \in Index |-> 0]]
    /\ info = [i \in Index |-> [b |-> NoBuf, status |-> 0]]
    /\ used = [id |-> 0, elems |-> [i \in Index |-> 0]]
    /\ used_idx = 0
    /\ mem \in [Bufs -> [blockno : Blocks, data : Data, disk : {FALSE}]]
    /\ csr = [MIE |-> FALSE, MPIE |-> FALSE, MEIE |-> FALSE]
    /\ pending = {}
    /\ claimed = NoIrq
    /\ errorOccurred = FALSE
    /\ dev = [seen |-> 0, notified |-> FALSE, jobs |-> {}, broken |-> FALSE]
    /\ media \in [Blocks -> Data]
    /\ keysLeft \in {0, MaxKeys} /\ keyed = FALSE
    /\ keysLeft # 0 =>
          /\ \A k \in Blocks : media[k] \in KeyedData
          /\ \A b \in Bufs : /\ mem[b].blockno = CHOOSE k \in Blocks : TRUE
                             /\ mem[b].data \in KeyedData

(* The kernel executes diskRW, not the handler, and has not stopped. *)
Running(p) == pc = p /\ claimed = NoIrq /\ ~errorOccurred

IntrAllOff == [MIE |-> FALSE, MPIE |-> FALSE, MEIE |-> FALSE]

InterruptDue == csr.MIE /\ csr.MEIE /\ pending # {}

(* diskInit(): the device is the one expected and its queue long enough,   *)
(* or error() is called.                                                   *)
DiskInit ==
    /\ Running("off")
    /\ \E found \in BOOLEAN, queueMax \in 0 .. NUM :
          IF found /\ queueMax >= NUM
          THEN /\ free' = [i \in Index |-> TRUE] /\ pc' = "idle"
               /\ UNCHANGED errorOccurred
          ELSE errorOccurred' = TRUE /\ UNCHANGED <<free, pc>>
    /\ UNCHANGED <<req, desc, avail, info, used, used_idx, mem, trap, dev, media>>

-----------------------------------------------------------------------------
(***************************************************************************)
(* The caller, the buffer cache: between calls it assigns the buffer to a  *)
(* block (bget) and the holder changes the data.                           *)
(***************************************************************************)
Touch(b) ==
    /\ Running("idle") /\ keysLeft = 0 /\ ~keyed
    /\ \E k \in Blocks, d \in Data :
          mem' = [mem EXCEPT ![b].blockno = k, ![b].data = d]
    /\ UNCHANGED <<pc, req, rings, trap, errorOccurred, dev, media>>

-----------------------------------------------------------------------------
(***************************************************************************)
(* diskRW(b, write)                                                        *)
(***************************************************************************)

(* alloc3_desc(): alloc_desc takes the lowest free descriptor, three times. *)
Lowest(S) == CHOOSE i \in S : \A j \in S : i <= j

FreeDescs == {i \in Index : free[i]}

Alloc3 ==
    LET i0 == Lowest(FreeDescs)
        i1 == Lowest(FreeDescs \ {i0})
        i2 == Lowest(FreeDescs \ {i0, i1})
    IN <<i0, i1, i2>>

(* Lines 108 to 153.  With fewer than three free descriptors the loop      *)
(* around alloc3_desc spins: the step is not enabled.  Nothing waits for   *)
(* requests of earlier calls that the device is not done with.             *)
Fill(b, write) ==
    /\ Running("idle")
    /\ Cardinality(FreeDescs) >= 3
    /\ LET i == Alloc3 IN
       /\ req' = [buf |-> b, write |-> write, head |-> i[1]]
       /\ free' = [free EXCEPT ![i[1]] = FALSE, ![i[2]] = FALSE, ![i[3]] = FALSE]
       /\ desc' = [desc EXCEPT ![i[1]] = [addr |-> "header", next |-> i[2]],
                               ![i[2]] = [addr |-> "data",   next |-> i[3]],
                               ![i[3]] = [addr |-> "status", next |-> NoNext]]
       /\ info' = [info EXCEPT ![i[1]] = [b |-> b, status |-> 0]]
    /\ mem' = [mem EXCEPT ![b].disk = TRUE]
    /\ pc' = "filled"
    /\ UNCHANGED <<avail, used, used_idx, trap, errorOccurred, dev, media>>

Publish ==
    /\ Running("filled")
    /\ avail' = [idx  |-> (avail.idx + 1) % IdxMod,
                 ring |-> [avail.ring EXCEPT ![avail.idx % NUM] = req.head]]
    /\ pc' = "published"
    /\ UNCHANGED <<req, free, desc, info, used, used_idx, mem, trap,
                   errorOccurred, dev, media>>

Notify ==
    /\ Running("published")
    /\ dev' = [dev EXCEPT !.notified = TRUE]
    /\ pc' = "notified"
    /\ UNCHANGED <<req, rings, mem, trap, errorOccurred, media>>

(* Mutant of IntrDevOn: the bit MEIE is forgotten. *)
IntrDevOnHartOnly == [csr EXCEPT !.MIE = TRUE]

IntrDevOn == [csr EXCEPT !.MEIE = TRUE, !.MIE = TRUE]

(* intr_dev_on(): nothing can be taken before its last write sets MIE. *)
Arm ==
    /\ Running("notified")
    /\ csr' = IntrDevOn
    /\ pc' = "armed"
    /\ UNCHANGED <<req, rings, mem, pending, claimed, errorOccurred, dev, media>>

(* Mutant of Asleep: there is no wfi, diskRW goes on at once. *)
Awake == "woken"

Asleep == "wfi"

(* wfi: an interrupt that is due is taken before the instruction starts.   *)
(* Once asleep, the hart wakes by TrapEntry only: this code never has      *)
(* MEIE on with MIE off.                                                   *)
Sleep ==
    /\ Running("armed")
    /\ ~InterruptDue
    /\ pc' = Asleep
    /\ UNCHANGED <<req, rings, mem, trap, errorOccurred, dev, media>>

(* Mutant of ChainFrom: the flag NEXT is not followed. *)
HeadOnly(i) == {i}

(* free_chain(i): the descriptors reached from i by NEXT. *)
ChainFrom(i) ==
    {j \in Index : \A S \in SUBSET Index :
        i \in S /\ (\A k \in S : desc[k].next # NoNext => desc[k].next \in S) => j \in S}

(* Mutant of AfterWait: intr_all_off() is not called. *)
AfterWaitOn == [csr EXCEPT !.MIE = TRUE, !.MEIE = TRUE]

AfterWait == IntrAllOff

(* intr_all_off(), info[idx[0]].b = 0, free_chain(idx[0]), return. *)
Finish ==
    /\ Running("woken")
    /\ LET chain == ChainFrom(req.head) IN
       /\ errorOccurred' = (\E i \in chain : free[i])
       /\ free' = [i \in Index |-> free[i] \/ i \in chain]
       /\ desc' = [i \in Index |-> IF i \in chain THEN [desc[i] EXCEPT !.addr = "null"]
                                                  ELSE desc[i]]
    /\ info' = [info EXCEPT ![req.head].b = NoBuf]
    /\ csr' = AfterWait
    /\ req' = NoReq
    /\ pc' = "idle"
    /\ UNCHANGED <<avail, used, used_idx, mem, pending, claimed, dev, media>>

-----------------------------------------------------------------------------
(***************************************************************************)
(* The interrupt path: kernelvec, kernelInterruptHandler, devintr.         *)
(***************************************************************************)

(* The trap saves MIE in MPIE, the handler's intr_all_off() clears both    *)
(* and MEIE; plic_claim() takes the lowest interrupt, priorities being     *)
(* equal.                                                                  *)
TrapEntry ==
    /\ claimed = NoIrq /\ ~errorOccurred
    /\ InterruptDue
    /\ csr' = IntrAllOff
    /\ claimed' = Lowest(pending)
    /\ pending' = pending \ {Lowest(pending)}
    /\ pc' = IF pc = "wfi" THEN "woken" ELSE pc
    /\ UNCHANGED <<req, rings, mem, errorOccurred, dev, media>>

MoreUsed == used_idx % NUM # used.id % NUM

(* Mutants of NextUsed (the index is not reduced modulo NUM) and of        *)
(* Released (the flag of the buffer stays).                                *)
NextUsedUnwrapped == used_idx + 1
ReleasedNot(b) == mem

NextUsed == (used_idx + 1) % NUM
Released(b) == [mem EXCEPT ![b].disk = FALSE]

(* One round of the loop in diskIntr().  Through a null info[id].b the     *)
(* store faults, and the exception ends in error().                        *)
DiskIntrStep ==
    /\ claimed = DISK_IRQ /\ ~errorOccurred
    /\ MoreUsed
    /\ LET id == used.elems[used_idx] IN
       IF info[id].status # 0 \/ info[id].b = NoBuf
       THEN /\ errorOccurred' = TRUE
            /\ UNCHANGED <<mem, used_idx>>
       ELSE /\ mem' = Released(info[id].b)
            /\ used_idx' = NextUsed
            /\ UNCHANGED errorOccurred
    /\ UNCHANGED <<pc, req, free, desc, avail, info, used, trap, dev, media>>

(* plic_complete(), and mret: MIE becomes MPIE.  uartintr() touches        *)
(* nothing modelled here.                                                  *)
TrapReturn ==
    /\ claimed # NoIrq /\ ~errorOccurred
    /\ claimed = DISK_IRQ => ~MoreUsed
    /\ claimed' = NoIrq
    /\ csr' = [csr EXCEPT !.MIE = csr.MPIE, !.MPIE = TRUE]
    /\ UNCHANGED <<pc, req, rings, mem, pending, errorOccurred, dev, media>>

-----------------------------------------------------------------------------
(***************************************************************************)
(* The device and the keyboard (QEMU; modelled from how the driver uses    *)
(* them).  Every completion raises the interrupt anew, although the driver *)
(* never writes INTERRUPT_ACK.                                             *)
(***************************************************************************)

(* Take the next chain off the available ring.  Its descriptors point to   *)
(* the header and the buffer of the running call, for diskRW always builds *)
(* its chain from the same descriptors.  A chain with a freed descriptor   *)
(* stops the device: it answers nothing any more.                          *)
Fetch ==
    /\ dev.notified /\ ~dev.broken /\ dev.seen # avail.idx
    /\ LET head  == avail.ring[dev.seen % NUM]
           whole == \A i \in ChainFrom(head) : desc[i].addr # "null"
           job   == [n |-> dev.seen, head |-> head, phase |-> "fetched",
                     buf |-> req.buf, write |-> req.write,
                     block |-> mem[req.buf].blockno]
       IN dev' = IF whole
                 THEN [dev EXCEPT !.seen = (dev.seen + 1) % IdxMod,
                                  !.jobs = dev.jobs \cup {job}]
                 ELSE [dev EXCEPT !.broken = TRUE]
    /\ UNCHANGED <<pc, req, rings, mem, trap, errorOccurred, media>>

(* The ring is empty: wait for the next notification. *)
Quiesce ==
    /\ dev.notified /\ dev.seen = avail.idx
    /\ dev' = [dev EXCEPT !.notified = FALSE]
    /\ UNCHANGED <<pc, req, rings, mem, trap, errorOccurred, media>>

(* Move the data and write the status byte; a failed transfer moves none.  *)
Transfer(j) ==
    /\ ~dev.broken /\ j.phase = "fetched"
    /\ \E status \in (IF IoErrors THEN {0, 1} ELSE {0}) :
          /\ info' = [info EXCEPT ![j.head].status = status]
          /\ media' = IF status = 0 /\ j.write
                      THEN [media EXCEPT ![j.block] = mem[j.buf].data] ELSE media
          /\ mem' = IF status = 0 /\ ~j.write
                    THEN [mem EXCEPT ![j.buf].data = media[j.block]] ELSE mem
    /\ dev' = [dev EXCEPT !.jobs = (dev.jobs \ {j}) \cup {[j EXCEPT !.phase = "moved"]}]
    /\ UNCHANGED <<pc, req, free, desc, avail, used, used_idx, trap, errorOccurred>>

Complete(j) ==
    /\ ~dev.broken /\ j.phase = "moved"
    /\ used' = [id    |-> (used.id + 1) % IdxMod,
                elems |-> [used.elems EXCEPT ![used.id % NUM] = j.head]]
    /\ dev' = [dev EXCEPT !.jobs = (dev.jobs \ {j}) \cup {[j EXCEPT !.phase = "used"]}]
    /\ UNCHANGED <<pc, req, free, desc, avail, info, used_idx, mem, trap,
                   errorOccurred, media>>

Raise(j) ==
    /\ ~dev.broken /\ j.phase = "used"
    /\ pending' = pending \cup {DISK_IRQ}
    /\ dev' = [dev EXCEPT !.jobs = dev.jobs \ {j}]
    /\ UNCHANGED <<pc, req, rings, mem, csr, claimed, errorOccurred, media>>

KeyPressed ==
    /\ keysLeft > 0
    /\ keysLeft' = keysLeft - 1 /\ keyed' = TRUE
    /\ pending' = pending \cup {UART_IRQ}
    /\ UNCHANGED <<pc, req, rings, mem, csr, claimed, errorOccurred, dev, media>>

Device ==
    /\ UNCHANGED keyboard
    /\ Fetch \/ Quiesce \/ \E j \in dev.jobs : Transfer(j) \/ Complete(j) \/ Raise(j)
Handler == UNCHANGED keyboard /\ (TrapEntry \/ DiskIntrStep \/ TrapReturn)
DiskRW == UNCHANGED keyboard /\ (DiskInit \/ Publish \/ Notify \/ Arm \/ Sleep \/ Finish)
Caller ==
    /\ UNCHANGED keyboard
    /\ \E b \in Bufs : Touch(b) \/ \E write \in BOOLEAN : Fill(b, write)

Next == Device \/ Handler \/ DiskRW \/ Caller \/ KeyPressed

Spec == Init /\ [][Next]_vars

(* The processor keeps executing and the device keeps serving; nothing is  *)
(* assumed of callers and of the keyboard.                                 *)
FairSpec ==
    /\ Spec
    /\ WF_vars(DiskRW) /\ WF_vars(Handler) /\ WF_vars(Device)

-----------------------------------------------------------------------------
(***************************************************************************)
(* The types, and the ring indices inside their rings: the handler indexes *)
(* elems with used_idx as it stands.                                       *)
(***************************************************************************)
DriverTypeOK ==
    /\ pc \in Steps
    /\ req \in {NoReq} \cup [buf : Bufs, write : BOOLEAN, head : Index]
    /\ free \in [Index -> BOOLEAN]
    /\ desc \in [Index -> [addr : {"null", "header", "data", "status"},
                           next : Index \cup {NoNext}]]
    /\ avail \in [idx : 0 .. IdxMod - 1, ring : [Index -> Index]]
    /\ info \in [Index -> [b : Bufs \cup {NoBuf}, status : {0, 1}]]
    /\ used_idx \in Index
    /\ mem \in [Bufs -> [blockno : Blocks, data : Data, disk : BOOLEAN]]

TrapTypeOK ==
    /\ csr \in [MIE : BOOLEAN, MPIE : BOOLEAN, MEIE : BOOLEAN]
    /\ pending \subseteq {DISK_IRQ, UART_IRQ}
    /\ claimed \in {NoIrq, DISK_IRQ, UART_IRQ}
    /\ errorOccurred \in BOOLEAN
    /\ keysLeft \in 0 .. MaxKeys /\ keyed \in BOOLEAN

DeviceTypeOK ==
    /\ used \in [id : 0 .. IdxMod - 1, elems : [Index -> Index]]
    /\ dev \in [seen : 0 .. IdxMod - 1, notified : BOOLEAN, broken : BOOLEAN,
                jobs : SUBSET [n : 0 .. IdxMod - 1, head : Index, buf : Bufs,
                               write : BOOLEAN, block : Blocks,
                               phase : {"fetched", "moved", "used"}]]
    /\ media \in [Blocks -> Data]

TypeOK == DriverTypeOK /\ TrapTypeOK /\ DeviceTypeOK

(***************************************************************************)
(* diskRW implements BlockDevice: whatever the order of the device's and   *)
(* the driver's steps, one call makes one transfer, of the right block and *)
(* in the right direction, returns only after it, and never returns from a *)
(* transfer that failed.                                                   *)
(***************************************************************************)
Outcome ==
    IF info[req.head].status # 0 THEN "failed"
    ELSE IF pc = "filled" \/ dev.seen # avail.idx \/ \E j \in dev.jobs : j.phase = "fetched"
    THEN "pending"
    ELSE "moved"

Abstract == INSTANCE BlockDevice WITH
    content <- [b \in Bufs |-> [blockno |-> mem[b].blockno, data |-> mem[b].data]],
    disturbed <- keyed,
    req     <- IF pc \in {"off", "idle"} THEN NoReq
               ELSE [buf |-> req.buf, write |-> req.write, result |-> Outcome]

ImplementsBlockDevice == Abstract!Spec

(***************************************************************************)
(* Buffer.disk says "does disk 'own' buf?": while the device has a request *)
(* in hand that it has not moved yet, the flag of its buffer is set, and   *)
(* once diskRW has returned no flag is set and the device has nothing in   *)
(* hand.  With interrupts of the keyboard this is lost.                    *)
(***************************************************************************)
FlagTellsOwner ==
    ~keyed =>
    /\ \A j \in dev.jobs : j.phase = "fetched" => mem[j.buf].disk
    /\ pc = "idle" => dev.jobs = {} /\ \A b \in Bufs : ~mem[b].disk

(***************************************************************************)
(* diskRW takes three descriptors and gives the same three back, whatever  *)
(* interrupts end its wait: between calls all are free, so the loop around *)
(* alloc3_desc never spins.                                                *)
(***************************************************************************)
DescriptorsReturned ==
    pc # "off" => Cardinality(FreeDescs) = IF pc = "idle" THEN NUM ELSE NUM - 3

(***************************************************************************)
(* diskIntr never stores through a null info[id].b, although diskRW clears *)
(* that pointer on return whether or not the request has completed: an     *)
(* answer that comes late finds the pointer of the next request.           *)
(***************************************************************************)
NoNullStore ==
    claimed = DISK_IRQ /\ MoreUsed => info[used.elems[used_idx]].b # NoBuf

(***************************************************************************)
(* Without interrupts from the keyboard, a call of diskRW ends in one of   *)
(* three ways: it returns, the device reports an error, or it sleeps in    *)
(* wfi for good because its interrupt was taken before it fell asleep: the *)
(* buffer has been given back and interrupts are off.  It never waits for  *)
(* anything else.                                                          *)
(***************************************************************************)
WokenTooEarly == pc = "wfi" /\ ~csr.MEIE /\ ~mem[req.buf].disk

EndsOrOversleeps ==
    pc = "filled" ~> (pc = "idle" \/ errorOccurred \/ WokenTooEarly \/ keyed)

(***************************************************************************)
(* "Reads a block from disk to buffer if write = 0, writes the buffer      *)
(* content to its corresponding block if write != 0": every call comes     *)
(* back, or ends in error().                                               *)
(***************************************************************************)
RequestReturns == pc = "filled" ~> (pc = "idle" \/ errorOccurred)

(***************************************************************************)
(* The same comment: when diskRW returns, buffer and block are the same.   *)
(***************************************************************************)
ReturnsAfterTransfer ==
    [][pc = "woken" /\ pc' = "idle"
        => mem'[req.buf].data = media'[mem'[req.buf].blockno]]_vars
=============================================================================
