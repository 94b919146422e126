----------------------------- MODULE DiskProofs -----------------------------
(***************************************************************************)
(* Proofs about the disk driver, for every queue, cache and disk and any   *)
(* number of keys: its types, that diskRW gives back the descriptors it    *)
(* took, and in the second half what becomes of one call.                  *)
(*                                                                         *)
(* The invariant says which descriptors a call has: since all are free     *)
(* between calls, alloc3_desc always takes 0, 1 and 2, and chains them in  *)
(* that order, so free_chain gives back these three.                       *)
(***************************************************************************)
EXTENDS Disk, FiniteSetTheorems, TLAPS

InCall == pc \notin {"off", "idle"}

DescriptorInv ==
    /\ pc = "idle" => \A i \in Index : free[i]
    /\ \A i \in Index : (InCall /\ i \in {0, 1, 2}) \/ desc[i].addr = "null"
    /\ InCall => /\ req \in [buf : Bufs, write : BOOLEAN, head : Index]
                 /\ req.head = 0
                 /\ desc[0].next = 1 /\ desc[1].next = 2 /\ desc[2].next = NoNext
                 /\ \A i \in Index : free[i] <=> i >= 3

DiskInv == TypeOK /\ DescriptorInv

USE NumAssumption, IdxModAssumption, FlagsAssumption

-----------------------------------------------------------------------------
LEMMA ModRange ==
    ASSUME NEW a \in Nat, NEW n \in Nat, n > 0
    PROVE  a % n \in 0 .. n - 1
    OBVIOUS

(* With all descriptors free, alloc3_desc takes the first three. *)
LEMMA AllocatesFirstThree ==
    ASSUME free \in [Index -> BOOLEAN], \A i \in Index : free[i]
    PROVE  Alloc3 = <<0, 1, 2>>
<1>1. FreeDescs = Index
    BY DEF FreeDescs
<1>2. Lowest(Index) = 0
    <2>1. 0 \in Index /\ \A j \in Index : 0 <= j
        BY DEF Index
    <2> QED BY <2>1 DEF Lowest, Index
<1>3. Lowest(Index \ {0}) = 1
    <2>1. 1 \in Index \ {0} /\ \A j \in Index \ {0} : 1 <= j
        BY DEF Index
    <2> QED BY <2>1 DEF Lowest, Index
<1>4. Lowest(Index \ {0, 1}) = 2
    <2>1. 2 \in Index \ {0, 1} /\ \A j \in Index \ {0, 1} : 2 <= j
        BY DEF Index
    <2> QED BY <2>1 DEF Lowest, Index
<1> QED BY <1>1, <1>2, <1>3, <1>4 DEF Alloc3

(* free_chain frees the descriptors 0, 1 and 2, and a chain has its head.  *)
LEMMA ChainIsFirstThree ==
    ASSUME desc[0].next = 1, desc[1].next = 2, desc[2].next = NoNext
    PROVE  ChainFrom(0) = {0, 1, 2}
<1> DEFINE Closed(S) == 0 \in S /\ \A k \in S : desc[k].next # NoNext => desc[k].next \in S
<1>1. {0, 1, 2} \in SUBSET Index /\ Closed({0, 1, 2})
    BY DEF Index, NoNext
<1>2. ASSUME NEW S \in SUBSET Index, Closed(S) PROVE {0, 1, 2} \subseteq S
    BY <1>2 DEF NoNext
<1> QED BY <1>1, <1>2 DEF ChainFrom

LEMMA ChainHasHead ==
    ASSUME NEW i \in Index
    PROVE  i \in ChainFrom(i) /\ ChainFrom(i) \subseteq Index
    BY DEF ChainFrom

LEMMA Counting ==
    ASSUME TypeOK, DescriptorInv
    PROVE  DescriptorsReturned
<1>1. CASE pc = "idle"
    <2>1. FreeDescs = 0 .. NUM - 1
        BY <1>1 DEF FreeDescs, DescriptorInv, Index
    <2>2. Cardinality(0 .. NUM - 1) = NUM
        BY FS_Interval
    <2> QED BY <1>1, <2>1, <2>2 DEF DescriptorsReturned
<1>2. CASE InCall
    <2>1. FreeDescs = 3 .. NUM - 1
        BY <1>2 DEF FreeDescs, DescriptorInv, Index
    <2>2. Cardinality(3 .. NUM - 1) = NUM - 3
        BY FS_Interval
    <2> QED BY <1>2, <2>1, <2>2 DEF DescriptorsReturned, InCall
<1> QED BY <1>1, <1>2 DEF DescriptorsReturned, InCall

-----------------------------------------------------------------------------
LEMMA InitInv == Init => DiskInv
<1> SUFFICES ASSUME Init PROVE DiskInv
    OBVIOUS
<1>1. DriverTypeOK
    <2>1. pc \in Steps /\ req = NoReq /\ used_idx \in Index
        BY DEF Init, Steps, Index
    <2>2. free \in [Index -> BOOLEAN]
        BY DEF Init
    <2>3. desc \in [Index -> [addr : {"null", "header", "data", "status"},
                              next : Index \cup {NoNext}]]
        BY DEF Init
    <2>4. avail \in [idx : 0 .. IdxMod - 1, ring : [Index -> Index]]
        BY DEF Init, Index
    <2>5. info \in [Index -> [b : Bufs \cup {NoBuf}, status : {0, 1}]]
        BY DEF Init
    <2>6. mem \in [Bufs -> [blockno : Blocks, data : Data, disk : BOOLEAN]]
        BY DEF Init
    <2> QED BY <2>1, <2>2, <2>3, <2>4, <2>5, <2>6 DEF DriverTypeOK
<1>2. TrapTypeOK
    <2>1. csr \in [MIE : BOOLEAN, MPIE : BOOLEAN, MEIE : BOOLEAN]
        BY DEF Init
    <2>2. keysLeft \in 0 .. MaxKeys
        <3>1. keysLeft \in {0, MaxKeys}
            BY DEF Init
        <3> QED BY <3>1
    <2>3. pending = {} /\ claimed = NoIrq /\ ~errorOccurred /\ errorOccurred \in BOOLEAN
          /\ keyed \in BOOLEAN
        BY DEF Init
    <2> QED BY <2>1, <2>2, <2>3 DEF TrapTypeOK
<1>3. DeviceTypeOK
    BY DEF Init, DeviceTypeOK, Index
<1>4. DescriptorInv
    BY DEF Init, DescriptorInv, InCall
<1> QED BY <1>1, <1>2, <1>3, <1>4 DEF DiskInv, TypeOK

(* What each part of the invariant speaks of. *)
callVars   == <<pc, req, free, desc>>
driverVars == <<callVars, avail, info, used_idx, mem>>
trapVars   == <<trap, errorOccurred, keyboard>>
deviceVars == <<used, dev, media>>

LEMMA CallKept == DescriptorInv /\ UNCHANGED callVars => DescriptorInv'
    BY DEF DescriptorInv, InCall, callVars

LEMMA DriverKept == DriverTypeOK /\ UNCHANGED driverVars => DriverTypeOK'
    BY DEF DriverTypeOK, driverVars, callVars

LEMMA TrapKept == TrapTypeOK /\ UNCHANGED trapVars => TrapTypeOK'
    BY DEF TrapTypeOK, trapVars, trap, keyboard

LEMMA DeviceKept == DeviceTypeOK /\ UNCHANGED deviceVars => DeviceTypeOK'
    BY DEF DeviceTypeOK, deviceVars

(***************************************************************************)
(* diskRW.                                                                 *)
(***************************************************************************)
LEMMA DiskInitInv == DiskInv /\ DiskInit /\ UNCHANGED keyboard => DiskInv'
<1> SUFFICES ASSUME DiskInv, DiskInit, UNCHANGED keyboard PROVE DiskInv'
    OBVIOUS
<1>1. DriverTypeOK'
    BY DEF DiskInv, TypeOK, DriverTypeOK, DiskInit, Steps
<1>2. TrapTypeOK'
    BY DEF DiskInv, TypeOK, TrapTypeOK, DiskInit, keyboard, trap
<1>3. DeviceTypeOK'
    BY DeviceKept DEF DiskInv, TypeOK, DiskInit, deviceVars
<1>4. DescriptorInv'
    BY DEF DiskInv, TypeOK, DriverTypeOK, DescriptorInv, DiskInit, InCall, Running
<1> QED BY <1>1, <1>2, <1>3, <1>4 DEF DiskInv, TypeOK

LEMMA TouchInv ==
    ASSUME NEW b \in Bufs, DiskInv, Touch(b), UNCHANGED keyboard
    PROVE  DiskInv'
<1>1. DriverTypeOK'
    <2>1. PICK k \in Blocks, d \in Data : mem' = [mem EXCEPT ![b].blockno = k, ![b].data = d]
        BY DEF Touch
    <2>2. mem' \in [Bufs -> [blockno : Blocks, data : Data, disk : BOOLEAN]]
        BY <2>1 DEF DiskInv, TypeOK, DriverTypeOK
    <2> QED BY <2>2 DEF DiskInv, TypeOK, DriverTypeOK, Touch, rings
<1>2. TrapTypeOK'
    BY TrapKept DEF DiskInv, TypeOK, Touch, trapVars
<1>3. DeviceTypeOK'
    BY DeviceKept DEF DiskInv, TypeOK, Touch, rings, deviceVars
<1>4. DescriptorInv'
    BY CallKept DEF DiskInv, Touch, rings, callVars
<1> QED BY <1>1, <1>2, <1>3, <1>4 DEF DiskInv, TypeOK

LEMMA FillInv ==
    ASSUME NEW b \in Bufs, NEW write \in BOOLEAN,
           DiskInv, Fill(b, write), UNCHANGED keyboard
    PROVE  DiskInv'
<1>1. Alloc3 = <<0, 1, 2>>
    BY AllocatesFirstThree DEF DiskInv, TypeOK, DriverTypeOK, DescriptorInv, Fill, Running
<1>2. /\ req' = [buf |-> b, write |-> write, head |-> 0]
      /\ free' = [free EXCEPT ![0] = FALSE, ![1] = FALSE, ![2] = FALSE]
      /\ desc' = [desc EXCEPT ![0] = [addr |-> "header", next |-> 1],
                              ![1] = [addr |-> "data",   next |-> 2],
                              ![2] = [addr |-> "status", next |-> NoNext]]
      /\ info' = [info EXCEPT ![0] = [b |-> b, status |-> 0]]
    BY <1>1 DEF Fill
<1>3. {0, 1, 2} \subseteq Index
    BY DEF Index
<1>4. DriverTypeOK'
    <2>1. /\ pc' \in Steps
          /\ req' \in [buf : Bufs, write : BOOLEAN, head : Index]
          /\ free' \in [Index -> BOOLEAN]
        <3>1. pc' \in Steps
            BY DEF Fill, Steps
        <3>2. req' \in [buf : Bufs, write : BOOLEAN, head : Index]
            BY <1>2, <1>3
        <3>3. free' \in [Index -> BOOLEAN]
            BY <1>2, <1>3 DEF DiskInv, TypeOK, DriverTypeOK
        <3> QED BY <3>1, <3>2, <3>3
    <2>2. desc' \in [Index -> [addr : {"null", "header", "data", "status"},
                               next : Index \cup {NoNext}]]
        BY <1>2, <1>3 DEF DiskInv, TypeOK, DriverTypeOK
    <2>3. info' \in [Index -> [b : Bufs \cup {NoBuf}, status : {0, 1}]]
        BY <1>2, <1>3 DEF DiskInv, TypeOK, DriverTypeOK
    <2>4. mem' \in [Bufs -> [blockno : Blocks, data : Data, disk : BOOLEAN]]
        BY DEF DiskInv, TypeOK, DriverTypeOK, Fill
    <2> QED BY <2>1, <2>2, <2>3, <2>4 DEF DiskInv, TypeOK, DriverTypeOK, Fill
<1>5. TrapTypeOK' /\ DeviceTypeOK'
    BY TrapKept, DeviceKept DEF DiskInv, TypeOK, Fill, trapVars, deviceVars
<1>6. DescriptorInv'
    <2>1. pc' = "filled" /\ \A i \in Index : free[i]
        BY DEF DiskInv, DescriptorInv, Fill, Running
    <2>2. desc'[0].next = 1 /\ desc'[1].next = 2 /\ desc'[2].next = NoNext
        BY <1>2, <1>3 DEF DiskInv, TypeOK, DriverTypeOK
    <2>3. \A i \in Index : free'[i] <=> i >= 3
        <3>1. free \in [Index -> BOOLEAN]
            BY DEF DiskInv, TypeOK, DriverTypeOK
        <3>2. \A i \in Index : i \notin {0, 1, 2} => free'[i] = free[i]
            BY <1>2, <3>1
        <3>3. ~free'[0] /\ ~free'[1] /\ ~free'[2]
            BY <1>2, <1>3, <3>1
        <3>4. \A i \in Index : i \notin {0, 1, 2} => free'[i]
            BY <2>1, <3>2, Zenon
        <3>5. \A i \in Index : i >= 3 <=> i \notin {0, 1, 2}
            BY DEF Index
        <3> QED BY <3>3, <3>4, <3>5, Zenon
    <2>4. \A i \in Index : i \notin {0, 1, 2} => desc'[i].addr = "null"
        <3>1. desc \in [Index -> [addr : {"null", "header", "data", "status"},
                                  next : Index \cup {NoNext}]]
            BY DEF DiskInv, TypeOK, DriverTypeOK
        <3>2. \A i \in Index : i \notin {0, 1, 2} => desc'[i] = desc[i]
            BY <1>2, <3>1
        <3>3. \A i \in Index : i \notin {0, 1, 2} => desc[i].addr = "null"
            BY DEF DiskInv, DescriptorInv
        <3> QED BY <3>2, <3>3
    <2> QED BY <1>2, <1>3, <2>1, <2>2, <2>3, <2>4 DEF DescriptorInv, InCall
<1> QED BY <1>4, <1>5, <1>6 DEF DiskInv, TypeOK

LEMMA PublishInv == DiskInv /\ Publish /\ UNCHANGED keyboard => DiskInv'
<1> SUFFICES ASSUME DiskInv, Publish, UNCHANGED keyboard PROVE DiskInv'
    OBVIOUS
<1>1. avail.idx \in Nat /\ req.head \in Index
    BY DEF DiskInv, TypeOK, DriverTypeOK, DescriptorInv, InCall, Publish, Running
<1>2. (avail.idx + 1) % IdxMod \in 0 .. IdxMod - 1 /\ avail.idx % NUM \in Index
    BY <1>1, ModRange DEF Index
<1>3. DriverTypeOK'
    BY <1>1, <1>2 DEF DiskInv, TypeOK, DriverTypeOK, Publish, Steps
<1>4. TrapTypeOK' /\ DeviceTypeOK'
    BY TrapKept, DeviceKept DEF DiskInv, TypeOK, Publish, trapVars, deviceVars
<1>5. DescriptorInv'
    BY DEF DiskInv, DescriptorInv, InCall, Publish, Running
<1> QED BY <1>3, <1>4, <1>5 DEF DiskInv, TypeOK

LEMMA WaitInv == DiskInv /\ (Notify \/ Arm \/ Sleep) /\ UNCHANGED keyboard => DiskInv'
<1> SUFFICES ASSUME DiskInv, Notify \/ Arm \/ Sleep, UNCHANGED keyboard PROVE DiskInv'
    OBVIOUS
<1>1. DriverTypeOK'
    BY DEF DiskInv, TypeOK, DriverTypeOK, Notify, Arm, Sleep, Asleep, rings, Steps
<1>2. TrapTypeOK'
    BY DEF DiskInv, TypeOK, TrapTypeOK, Notify, Arm, Sleep, IntrDevOn, keyboard, trap
<1>3. DeviceTypeOK'
    BY DEF DiskInv, TypeOK, DeviceTypeOK, Notify, Arm, Sleep, rings
<1>4. DescriptorInv'
    BY DEF DiskInv, DescriptorInv, InCall, Notify, Arm, Sleep, Asleep, rings, Running
<1> QED BY <1>1, <1>2, <1>3, <1>4 DEF DiskInv, TypeOK

(* The call ends with the three descriptors free and without addresses.    *)
LEMMA FinishInv == DiskInv /\ Finish /\ UNCHANGED keyboard => DiskInv'
<1> SUFFICES ASSUME DiskInv, Finish, UNCHANGED keyboard PROVE DiskInv'
    OBVIOUS
<1>1. ChainFrom(req.head) = {0, 1, 2}
    BY ChainIsFirstThree DEF DiskInv, DescriptorInv, InCall, Finish, Running
<1>2. /\ free' = [i \in Index |-> free[i] \/ i \in {0, 1, 2}]
      /\ desc' = [i \in Index |-> IF i \in {0, 1, 2} THEN [desc[i] EXCEPT !.addr = "null"]
                                                     ELSE desc[i]]
      /\ errorOccurred' \in BOOLEAN
    BY <1>1 DEF Finish
<1>3. DriverTypeOK'
    <2>1. free' \in [Index -> BOOLEAN]
        BY <1>2, Zenon DEF DiskInv, TypeOK, DriverTypeOK
    <2>2. desc' \in [Index -> [addr : {"null", "header", "data", "status"},
                               next : Index \cup {NoNext}]]
        BY <1>2 DEF DiskInv, TypeOK, DriverTypeOK
    <2>3. info' \in [Index -> [b : Bufs \cup {NoBuf}, status : {0, 1}]]
        <3>1. info' = [info EXCEPT ![req.head].b = NoBuf] /\ req.head \in Index
            BY DEF DiskInv, DescriptorInv, InCall, Finish, Running
        <3>2. info \in [Index -> [b : Bufs \cup {NoBuf}, status : {0, 1}]]
            BY DEF DiskInv, TypeOK, DriverTypeOK
        <3> QED BY <3>1, <3>2
    <2> QED BY <2>1, <2>2, <2>3 DEF DiskInv, TypeOK, DriverTypeOK, Finish, Steps
<1>4. TrapTypeOK'
    BY <1>2 DEF DiskInv, TypeOK, TrapTypeOK, Finish, AfterWait, IntrAllOff, keyboard
<1>5. DeviceTypeOK'
    BY DeviceKept DEF DiskInv, TypeOK, Finish, deviceVars
<1>6. DescriptorInv'
    <2>0. \A i \in Index : free[i] <=> i >= 3
        BY DEF DiskInv, DescriptorInv, InCall, Finish, Running
    <2>1. \A i \in Index : free'[i]
        <3>1. \A i \in Index : i >= 3 \/ i \in {0, 1, 2}
            BY DEF Index
        <3>2. \A i \in Index : free'[i] <=> (free[i] \/ i \in {0, 1, 2})
            BY <1>2, Zenon
        <3> QED BY <2>0, <3>1, <3>2, Zenon
    <2>2. \A i \in Index : desc'[i].addr = "null"
        <3>1. desc \in [Index -> [addr : {"null", "header", "data", "status"},
                                  next : Index \cup {NoNext}]]
            BY DEF DiskInv, TypeOK, DriverTypeOK
        <3>2. \A i \in {0, 1, 2} \cap Index : desc'[i].addr = "null"
            BY <1>2, <3>1
        <3>3. \A i \in Index : i \notin {0, 1, 2} => desc'[i] = desc[i]
            BY <1>2
        <3>4. \A i \in Index : i \notin {0, 1, 2} => desc[i].addr = "null"
            BY DEF DiskInv, DescriptorInv
        <3> QED BY <3>2, <3>3, <3>4
    <2> QED BY <2>1, <2>2 DEF Finish, DescriptorInv, InCall
<1> QED BY <1>3, <1>4, <1>5, <1>6 DEF DiskInv, TypeOK

-----------------------------------------------------------------------------
(***************************************************************************)
(* The interrupt handler, the device and the keyboard change nothing a     *)
(* call holds but the step itself.                                         *)
(***************************************************************************)
LEMMA LowestIsMember ==
    ASSUME NEW S, S \subseteq {DISK_IRQ, UART_IRQ}, S # {}
    PROVE  Lowest(S) \in S
<1>1. \E i \in S : \A j \in S : i <= j
    <2>1. CASE DISK_IRQ \in S
        <3>1. \A j \in S : DISK_IRQ <= j
            BY DEF DISK_IRQ, UART_IRQ
        <3> QED BY <2>1, <3>1
    <2>2. CASE DISK_IRQ \notin S
        <3>1. S = {UART_IRQ}
            BY <2>2
        <3>2. UART_IRQ <= UART_IRQ
            BY DEF UART_IRQ
        <3> QED BY <3>1, <3>2
    <2> QED BY <2>1, <2>2
<1> QED BY <1>1, Zenon DEF Lowest

LEMMA TrapEntryInv == DiskInv /\ TrapEntry /\ UNCHANGED keyboard => DiskInv'
<1> SUFFICES ASSUME DiskInv, TrapEntry, UNCHANGED keyboard PROVE DiskInv'
    OBVIOUS
<1>1. pending \subseteq {DISK_IRQ, UART_IRQ} /\ Lowest(pending) \in pending
    BY LowestIsMember DEF DiskInv, TypeOK, TrapTypeOK, TrapEntry, InterruptDue
<1>2. DriverTypeOK'
    BY DEF DiskInv, TypeOK, DriverTypeOK, TrapEntry, rings, Steps
<1>3. TrapTypeOK'
    BY <1>1 DEF DiskInv, TypeOK, TrapTypeOK, TrapEntry, IntrAllOff, keyboard
<1>4. DeviceTypeOK'
    BY DeviceKept DEF DiskInv, TypeOK, TrapEntry, rings, deviceVars
<1>5. DescriptorInv'
    BY DEF DiskInv, DescriptorInv, InCall, TrapEntry, rings
<1> QED BY <1>2, <1>3, <1>4, <1>5 DEF DiskInv, TypeOK

LEMMA DiskIntrStepInv == DiskInv /\ DiskIntrStep /\ UNCHANGED keyboard => DiskInv'
<1> SUFFICES ASSUME DiskInv, DiskIntrStep, UNCHANGED keyboard PROVE DiskInv'
    OBVIOUS
<1> DEFINE id == used.elems[used_idx]
<1>1. id \in Index /\ used_idx \in Nat
    <2>1. used_idx \in Index /\ used \in [id : 0 .. IdxMod - 1, elems : [Index -> Index]]
        BY DEF DiskInv, TypeOK, DriverTypeOK, DeviceTypeOK
    <2>2. Index \subseteq Nat
        BY DEF Index
    <2> QED BY <2>1, <2>2
<1>2. NextUsed \in Index
    BY <1>1, ModRange DEF NextUsed, Index
<1>3. \/ mem' = mem /\ used_idx' = used_idx
      \/ /\ info[id].b # NoBuf
         /\ mem' = [mem EXCEPT ![info[id].b].disk = FALSE]
         /\ used_idx' = NextUsed
    BY DEF DiskIntrStep, Released
<1>4. mem' \in [Bufs -> [blockno : Blocks, data : Data, disk : BOOLEAN]]
    <2>1. mem \in [Bufs -> [blockno : Blocks, data : Data, disk : BOOLEAN]]
        BY DEF DiskInv, TypeOK, DriverTypeOK
    <2>2. info[id].b \in Bufs \cup {NoBuf}
        BY <1>1 DEF DiskInv, TypeOK, DriverTypeOK
    <2> HIDE DEF id
    <2>3. CASE mem' = mem
        BY <2>1, <2>3
    <2>4. CASE info[id].b # NoBuf /\ mem' = [mem EXCEPT ![info[id].b].disk = FALSE]
        BY <2>1, <2>2, <2>4
    <2> QED BY <1>3, <2>3, <2>4
<1>5. DriverTypeOK'
    BY <1>2, <1>3, <1>4 DEF DiskInv, TypeOK, DriverTypeOK, DiskIntrStep
<1>6. TrapTypeOK'
    BY DEF DiskInv, TypeOK, TrapTypeOK, DiskIntrStep, keyboard, trap
<1>7. DeviceTypeOK' /\ DescriptorInv'
    BY DeviceKept, CallKept DEF DiskInv, TypeOK, DiskIntrStep, deviceVars, callVars
<1> QED BY <1>5, <1>6, <1>7 DEF DiskInv, TypeOK

LEMMA TrapReturnInv == DiskInv /\ TrapReturn /\ UNCHANGED keyboard => DiskInv'
<1> SUFFICES ASSUME DiskInv, TrapReturn, UNCHANGED keyboard PROVE DiskInv'
    OBVIOUS
<1>1. TrapTypeOK'
    BY DEF DiskInv, TypeOK, TrapTypeOK, TrapReturn, keyboard
<1>2. DriverTypeOK' /\ DeviceTypeOK' /\ DescriptorInv'
    BY DriverKept, DeviceKept, CallKept
    DEF DiskInv, TypeOK, TrapReturn, rings, driverVars, deviceVars, callVars
<1> QED BY <1>1, <1>2 DEF DiskInv, TypeOK

(* The device takes a chain only in a call: between calls no descriptor    *)
(* has an address.                                                         *)
LEMMA FetchInv == DiskInv /\ Fetch /\ UNCHANGED keyboard => DiskInv'
<1> SUFFICES ASSUME DiskInv, Fetch, UNCHANGED keyboard PROVE DiskInv'
    OBVIOUS
<1> DEFINE head  == avail.ring[dev.seen % NUM]
           whole == \A i \in ChainFrom(head) : desc[i].addr # "null"
           job   == [n |-> dev.seen, head |-> head, phase |-> "fetched",
                     buf |-> req.buf, write |-> req.write,
                     block |-> mem[req.buf].blockno]
           next  == (dev.seen + 1) % IdxMod
<1>1. dev.seen \in 0 .. IdxMod - 1 /\ dev.seen \in Nat
    BY DEF DiskInv, TypeOK, DeviceTypeOK
<1>2. next \in 0 .. IdxMod - 1 /\ head \in Index
    <2>1. dev.seen % NUM \in Index
        BY <1>1, ModRange DEF Index
    <2> QED BY <1>1, <2>1, ModRange DEF DiskInv, TypeOK, DriverTypeOK
<1>3. ASSUME whole PROVE job \in [n : 0 .. IdxMod - 1, head : Index, buf : Bufs,
                                  write : BOOLEAN, block : Blocks,
                                  phase : {"fetched", "moved", "used"}]
    <2>1. InCall
        <3>1. head \in ChainFrom(head)
            BY <1>2, ChainHasHead
        <3>2. desc[head].addr # "null"
            BY <1>3, <3>1
        <3> QED BY <1>2, <3>2 DEF DiskInv, DescriptorInv
    <2>2. req.buf \in Bufs /\ req.write \in BOOLEAN
        BY <2>1 DEF DiskInv, DescriptorInv
    <2>3. mem[req.buf].blockno \in Blocks
        BY <2>2 DEF DiskInv, TypeOK, DriverTypeOK
    <2> QED BY <1>1, <1>2, <2>2, <2>3
<1>4. dev' = IF whole THEN [dev EXCEPT !.seen = next, !.jobs = dev.jobs \cup {job}]
             ELSE [dev EXCEPT !.broken = TRUE]
    BY DEF Fetch
<1>5. DeviceTypeOK'
    <2>1. used' = used /\ media' = media
        BY DEF Fetch, rings
    <2> HIDE DEF head, whole, job, next
    <2>2. CASE whole
        BY <1>2, <1>3, <1>4, <2>1, <2>2 DEF DiskInv, TypeOK, DeviceTypeOK
    <2>3. CASE ~whole
        BY <1>4, <2>1, <2>3 DEF DiskInv, TypeOK, DeviceTypeOK
    <2> QED BY <2>2, <2>3
<1>6. DriverTypeOK' /\ TrapTypeOK' /\ DescriptorInv'
    BY DriverKept, TrapKept, CallKept
    DEF DiskInv, TypeOK, Fetch, rings, driverVars, trapVars, callVars
<1> QED BY <1>5, <1>6 DEF DiskInv, TypeOK

LEMMA QuiesceInv == DiskInv /\ Quiesce /\ UNCHANGED keyboard => DiskInv'
<1> SUFFICES ASSUME DiskInv, Quiesce, UNCHANGED keyboard PROVE DiskInv'
    OBVIOUS
<1>1. DeviceTypeOK'
    BY DEF DiskInv, TypeOK, DeviceTypeOK, Quiesce, rings
<1>2. DriverTypeOK' /\ TrapTypeOK' /\ DescriptorInv'
    BY DriverKept, TrapKept, CallKept
    DEF DiskInv, TypeOK, Quiesce, rings, driverVars, trapVars, callVars
<1> QED BY <1>1, <1>2 DEF DiskInv, TypeOK

(* A job keeps its type through its phases. *)
Jobs == [n : 0 .. IdxMod - 1, head : Index, buf : Bufs, write : BOOLEAN, block : Blocks,
         phase : {"fetched", "moved", "used"}]

LEMMA JobMoves ==
    ASSUME DeviceTypeOK, NEW j \in dev.jobs, NEW p \in {"fetched", "moved", "used"}
    PROVE  /\ j \in Jobs
           /\ [dev EXCEPT !.jobs = (dev.jobs \ {j}) \cup {[j EXCEPT !.phase = p]}]
                \in [seen : 0 .. IdxMod - 1, notified : BOOLEAN, broken : BOOLEAN,
                     jobs : SUBSET Jobs]
<1>1. dev \in [seen : 0 .. IdxMod - 1, notified : BOOLEAN, broken : BOOLEAN, jobs : SUBSET Jobs]
    BY DEF DeviceTypeOK, Jobs
<1>2. j \in Jobs
    BY <1>1
<1>3. [j EXCEPT !.phase = p] \in Jobs
    BY <1>2 DEF Jobs
<1>4. (dev.jobs \ {j}) \cup {[j EXCEPT !.phase = p]} \in SUBSET Jobs
    BY <1>1, <1>3
<1> QED BY <1>1, <1>2, <1>4

LEMMA TransferInv ==
    ASSUME DiskInv, NEW j \in dev.jobs, Transfer(j), UNCHANGED keyboard
    PROVE  DiskInv'
<1>0. DeviceTypeOK /\ DriverTypeOK
    BY DEF DiskInv, TypeOK
<1>1. j \in Jobs
    BY <1>0, JobMoves
<1>2. PICK status \in {0, 1} :
          /\ info' = [info EXCEPT ![j.head].status = status]
          /\ media' = IF status = 0 /\ j.write
                      THEN [media EXCEPT ![j.block] = mem[j.buf].data] ELSE media
          /\ mem' = IF status = 0 /\ ~j.write
                    THEN [mem EXCEPT ![j.buf].data = media[j.block]] ELSE mem
    BY DEF Transfer
<1>3. j.head \in Index /\ j.buf \in Bufs /\ j.block \in Blocks
    BY <1>1 DEF Jobs
<1>4. /\ info \in [Index -> [b : Bufs \cup {NoBuf}, status : {0, 1}]]
      /\ mem \in [Bufs -> [blockno : Blocks, data : Data, disk : BOOLEAN]]
      /\ media \in [Blocks -> Data]
    BY <1>0 DEF DeviceTypeOK, DriverTypeOK
<1>5. info' \in [Index -> [b : Bufs \cup {NoBuf}, status : {0, 1}]]
    BY <1>2, <1>3, <1>4
<1>6. mem' \in [Bufs -> [blockno : Blocks, data : Data, disk : BOOLEAN]]
    <2>1. media[j.block] \in Data
        BY <1>3, <1>4
    <2> QED BY <1>2, <1>3, <1>4, <2>1
<1>7. media' \in [Blocks -> Data]
    <2>1. mem[j.buf].data \in Data
        BY <1>3, <1>4
    <2> QED BY <1>2, <1>3, <1>4, <2>1
<1>8. DriverTypeOK'
    BY <1>0, <1>5, <1>6 DEF DriverTypeOK, Transfer
<1>9. DeviceTypeOK'
    <2>1. dev' = [dev EXCEPT !.jobs = (dev.jobs \ {j}) \cup {[j EXCEPT !.phase = "moved"]}]
        BY DEF Transfer
    <2>2. dev' \in [seen : 0 .. IdxMod - 1, notified : BOOLEAN, broken : BOOLEAN,
                    jobs : SUBSET Jobs]
        BY <1>0, <2>1, JobMoves
    <2>3. used' = used
        BY DEF Transfer
    <2> QED BY <1>0, <1>7, <2>2, <2>3 DEF DeviceTypeOK, Jobs
<1>10. TrapTypeOK' /\ DescriptorInv'
    BY TrapKept, CallKept DEF DiskInv, TypeOK, Transfer, trapVars, callVars
<1> QED BY <1>8, <1>9, <1>10 DEF DiskInv, TypeOK

LEMMA CompleteInv ==
    ASSUME DiskInv, NEW j \in dev.jobs, Complete(j), UNCHANGED keyboard
    PROVE  DiskInv'
<1>0. DeviceTypeOK
    BY DEF DiskInv, TypeOK
<1>1. used.id \in Nat /\ used \in [id : 0 .. IdxMod - 1, elems : [Index -> Index]]
    BY <1>0 DEF DeviceTypeOK
<1>2. (used.id + 1) % IdxMod \in 0 .. IdxMod - 1 /\ used.id % NUM \in Index
    <2>1. used.id + 1 \in Nat
        BY <1>1
    <2>2. (used.id + 1) % IdxMod \in 0 .. IdxMod - 1
        BY <2>1, ModRange
    <2>3. used.id % NUM \in 0 .. NUM - 1
        BY <1>1, ModRange
    <2> QED BY <2>2, <2>3 DEF Index
<1>3. j.head \in Index
    BY <1>0, JobMoves DEF Jobs
<1>4. used' \in [id : 0 .. IdxMod - 1, elems : [Index -> Index]]
    BY <1>1, <1>2, <1>3 DEF Complete
<1>5. dev' \in [seen : 0 .. IdxMod - 1, notified : BOOLEAN, broken : BOOLEAN, jobs : SUBSET Jobs]
    <2>1. dev' = [dev EXCEPT !.jobs = (dev.jobs \ {j}) \cup {[j EXCEPT !.phase = "used"]}]
        BY DEF Complete
    <2> QED BY <1>0, <2>1, JobMoves
<1>6. DeviceTypeOK'
    <2>1. media' = media
        BY DEF Complete
    <2> QED BY <1>0, <1>4, <1>5, <2>1 DEF DeviceTypeOK, Jobs
<1>7. DriverTypeOK' /\ TrapTypeOK' /\ DescriptorInv'
    BY DriverKept, TrapKept, CallKept
    DEF DiskInv, TypeOK, Complete, driverVars, trapVars, callVars
<1> QED BY <1>6, <1>7 DEF DiskInv, TypeOK

LEMMA RaiseInv ==
    ASSUME DiskInv, NEW j \in dev.jobs, Raise(j), UNCHANGED keyboard
    PROVE  DiskInv'
<1>1. TrapTypeOK'
    BY DEF DiskInv, TypeOK, TrapTypeOK, Raise, keyboard
<1>2. DeviceTypeOK'
    BY DEF DiskInv, TypeOK, DeviceTypeOK, Raise, rings
<1>3. DriverTypeOK' /\ DescriptorInv'
    BY DriverKept, CallKept DEF DiskInv, TypeOK, Raise, rings, driverVars, callVars
<1> QED BY <1>1, <1>2, <1>3 DEF DiskInv, TypeOK

LEMMA KeyPressedInv == DiskInv /\ KeyPressed => DiskInv'
<1> SUFFICES ASSUME DiskInv, KeyPressed PROVE DiskInv'
    OBVIOUS
<1>1. TrapTypeOK'
    BY DEF DiskInv, TypeOK, TrapTypeOK, KeyPressed
<1>2. DriverTypeOK' /\ DeviceTypeOK' /\ DescriptorInv'
    BY DriverKept, DeviceKept, CallKept
    DEF DiskInv, TypeOK, KeyPressed, rings, driverVars, deviceVars, callVars
<1> QED BY <1>1, <1>2 DEF DiskInv, TypeOK

-----------------------------------------------------------------------------
LEMMA NextInv == DiskInv /\ [Next]_vars => DiskInv'
<1> SUFFICES ASSUME DiskInv, [Next]_vars PROVE DiskInv'
    OBVIOUS
<1>1. CASE Device
    BY <1>1, FetchInv, QuiesceInv, TransferInv, CompleteInv, RaiseInv DEF Device
<1>2. CASE Handler
    BY <1>2, TrapEntryInv, DiskIntrStepInv, TrapReturnInv DEF Handler
<1>3. CASE DiskRW
    BY <1>3, DiskInitInv, PublishInv, WaitInv, FinishInv DEF DiskRW
<1>4. CASE Caller
    BY <1>4, TouchInv, FillInv DEF Caller
<1>5. CASE KeyPressed
    BY <1>5, KeyPressedInv
<1>6. CASE UNCHANGED vars
    BY <1>6, DriverKept, TrapKept, DeviceKept, CallKept
    DEF DiskInv, TypeOK, vars, rings, trap, keyboard, driverVars, trapVars, deviceVars, callVars
<1> QED BY <1>1, <1>2, <1>3, <1>4, <1>5, <1>6 DEF Next

LEMMA Invariance == Spec => []DiskInv
    BY InitInv, NextInv, PTL DEF Spec

(***************************************************************************)
(* In disk.c the handler indexes the used ring with used_idx as it stands, *)
(* and the device follows indices and pointers the driver wrote: whatever  *)
(* the interleaving, every index stays inside its ring and the device only *)
(* ever works on buffers of a request.                                     *)
(***************************************************************************)
THEOREM TypesKept == Spec => []TypeOK
    BY Invariance, PTL DEF DiskInv

(***************************************************************************)
(* diskRW gives back exactly the descriptors it took, whatever interrupt   *)
(* ended its wait: the loop around alloc3_desc never spins.                *)
(***************************************************************************)
THEOREM DescriptorsGivenBack == Spec => []DescriptorsReturned
<1>1. DiskInv => DescriptorsReturned
    BY Counting DEF DiskInv
<1> QED BY <1>1, Invariance, PTL

-----------------------------------------------------------------------------
(***************************************************************************)
(* A call of diskRW from its start to its return: the handler never stores *)
(* through a null pointer, and as long as no key is pressed one call makes *)
(* one transfer and implements BlockDevice.                                *)
(***************************************************************************)
(* However many requests are on their way, all are chains from head 0, and *)
(* info[0] belongs to the running call, in which alone interrupts come.    *)
HeadsInv ==
    /\ \A i \in Index : avail.ring[i] = 0 /\ used.elems[i] = 0
    /\ \A j \in dev.jobs : j.head = 0
    /\ InCall => /\ info[0].b = req.buf
                 /\ \A i \in {0, 1, 2} : desc[i].addr # "null"

InterruptsInv ==
    /\ csr.MIE => pc \in {"armed", "wfi"}
    /\ claimed # NoIrq => pc \in {"armed", "woken"} /\ ~csr.MIE /\ ~csr.MPIE

CallInv == DiskInv /\ HeadsInv /\ InterruptsInv

(***************************************************************************)
(* Without keys, a request is in one of these stages.  "Settled" says that *)
(* the device and the handler have dealt with all requests before it.      *)
(***************************************************************************)
Succ(i) == (i + 1) % IdxMod

Settled == dev.seen = used.id /\ used_idx = used.id % NUM

Behind == used.id % NUM = (used_idx + 1) % NUM

Flagged(S) == \A b \in Bufs : mem[b].disk <=> b \in S

Job(n, phase) ==
    [n |-> n, head |-> 0, phase |-> phase, buf |-> req.buf, write |-> req.write,
     block |-> mem[req.buf].blockno]

JobIn(phase) == \E n \in 0 .. IdxMod - 1 : dev.jobs = {Job(n, phase)}

Waiting == pc \in {"published", "notified", "armed", "wfi"}

Rest ==
    /\ pc \in {"off", "idle", "filled"}
    /\ Settled /\ avail.idx = dev.seen
    /\ dev.jobs = {} /\ pending = {} /\ claimed = NoIrq
    /\ IF pc = "filled" THEN Flagged({req.buf}) /\ info[0].status = 0 ELSE Flagged({})

Published ==
    /\ Waiting
    /\ Settled /\ avail.idx = Succ(dev.seen)
    /\ dev.jobs = {} /\ pending = {} /\ claimed = NoIrq
    /\ Flagged({req.buf}) /\ info[0].status = 0

InHand ==
    /\ Waiting
    /\ dev.seen = Succ(used.id) /\ used_idx = used.id % NUM /\ avail.idx = dev.seen
    /\ JobIn("moved") \/ (JobIn("fetched") /\ info[0].status = 0)
    /\ pending = {} /\ claimed = NoIrq
    /\ Flagged({req.buf})

Answered ==
    /\ dev.seen = used.id /\ Behind /\ avail.idx = dev.seen
    /\ Flagged({req.buf})
    /\ \/ Waiting /\ JobIn("used") /\ pending = {} /\ claimed = NoIrq
       \/ Waiting /\ dev.jobs = {} /\ pending = {DISK_IRQ} /\ claimed = NoIrq
       \/ /\ Waiting \/ pc = "woken"
          /\ dev.jobs = {} /\ pending = {} /\ claimed = DISK_IRQ

Handled ==
    /\ Waiting \/ pc = "woken"
    /\ Settled /\ avail.idx = dev.seen
    /\ dev.jobs = {} /\ pending = {} /\ claimed \in {NoIrq, DISK_IRQ}
    /\ Flagged({}) /\ info[0].status = 0

Stages == Rest \/ Published \/ InHand \/ Answered \/ Handled

QuietInv == ~keyed => ~dev.broken /\ Stages

USE NumAssumption, IdxModAssumption, NoBufAssumption

-----------------------------------------------------------------------------
(***************************************************************************)
(* The chains and the interrupts, with any number of keys.                 *)
(***************************************************************************)
headVars == <<pc, req, desc, avail, info, used, dev>>

LEMMA HeadsKept == HeadsInv /\ UNCHANGED headVars => HeadsInv'
    BY DEF HeadsInv, InCall, headVars

LEMMA InterruptsKept == InterruptsInv /\ UNCHANGED <<pc, csr, claimed>> => InterruptsInv'
    BY DEF InterruptsInv

LEMMA InitCall == Init => CallInv
<1> SUFFICES ASSUME Init PROVE CallInv
    OBVIOUS
<1>1. HeadsInv
    BY DEF Init, HeadsInv, InCall
<1>2. InterruptsInv
    BY DEF Init, InterruptsInv
<1> QED BY <1>1, <1>2, InitInv DEF CallInv

LEMMA FillHeads ==
    ASSUME NEW b \in Bufs, NEW write \in BOOLEAN, CallInv, Fill(b, write)
    PROVE  /\ HeadsInv'
           /\ req' = [buf |-> b, write |-> write, head |-> 0]
           /\ info' = [info EXCEPT ![0] = [b |-> b, status |-> 0]]
<1>1. Alloc3 = <<0, 1, 2>>
    BY AllocatesFirstThree
    DEF CallInv, DiskInv, TypeOK, DriverTypeOK, DescriptorInv, Fill, Running
<1>2. /\ req' = [buf |-> b, write |-> write, head |-> 0]
      /\ desc' = [desc EXCEPT ![0] = [addr |-> "header", next |-> 1],
                              ![1] = [addr |-> "data",   next |-> 2],
                              ![2] = [addr |-> "status", next |-> NoNext]]
      /\ info' = [info EXCEPT ![0] = [b |-> b, status |-> 0]]
    BY <1>1 DEF Fill
<1>3. {0, 1, 2} \subseteq Index
    BY DEF Index
<1>4. info'[0].b = b /\ \A i \in {0, 1, 2} : desc'[i].addr # "null"
    BY <1>2, <1>3 DEF CallInv, DiskInv, TypeOK, DriverTypeOK
<1>5. req'.buf = b
    BY <1>2
<1>6. (\A i \in Index : avail'.ring[i] = 0 /\ used'.elems[i] = 0) /\ \A j \in dev'.jobs : j.head = 0
    BY DEF CallInv, HeadsInv, Fill
<1>7. HeadsInv'
    BY <1>4, <1>5, <1>6 DEF HeadsInv
<1> QED BY <1>2, <1>7

LEMMA PublishHeads == CallInv /\ Publish => HeadsInv'
<1> SUFFICES ASSUME CallInv, Publish PROVE HeadsInv'
    OBVIOUS
<1>1. InCall /\ InCall' /\ req.head = 0
    BY DEF CallInv, DiskInv, DescriptorInv, InCall, Publish, Running
<1>2. \A i \in Index : avail'.ring[i] = 0
    BY <1>1 DEF CallInv, DiskInv, TypeOK, DriverTypeOK, HeadsInv, Publish
<1> QED BY <1>1, <1>2 DEF CallInv, HeadsInv, Publish

LEMMA DriverHeads ==
    CallInv /\ (DiskInit \/ Notify \/ Arm \/ Sleep \/ Finish) => HeadsInv'
<1>1. CallInv /\ (DiskInit \/ Arm \/ Sleep) => HeadsInv'
    BY DEF CallInv, HeadsInv, InCall, DiskInit, Arm, Sleep, Asleep, Running, rings
<1>2. CallInv /\ Notify => HeadsInv'
    BY DEF CallInv, DiskInv, TypeOK, DeviceTypeOK, HeadsInv, InCall, Notify, Running, rings
<1>3. CallInv /\ Finish => HeadsInv'
    BY DEF CallInv, HeadsInv, InCall, Finish
<1> QED BY <1>1, <1>2, <1>3

LEMMA TrapEntryHeads == CallInv /\ TrapEntry => HeadsInv'
    BY DEF CallInv, HeadsInv, InCall, TrapEntry, rings

LEMMA FetchHeads == CallInv /\ Fetch => HeadsInv'
<1> SUFFICES ASSUME CallInv, Fetch PROVE HeadsInv'
    OBVIOUS
<1>0. dev.seen \in Nat
    BY DEF CallInv, DiskInv, TypeOK, DeviceTypeOK
<1>1. dev.seen % NUM \in Index
    BY <1>0, ModRange DEF Index
<1>2. avail.ring[dev.seen % NUM] = 0
    BY <1>1 DEF CallInv, HeadsInv
<1>3. \A j \in dev'.jobs : j.head = 0
    BY <1>2 DEF CallInv, DiskInv, TypeOK, DeviceTypeOK, HeadsInv, Fetch
<1> QED BY <1>3 DEF CallInv, HeadsInv, InCall, Fetch, rings

LEMMA JobHeads ==
    ASSUME CallInv, NEW j \in dev.jobs, Transfer(j) \/ Complete(j) \/ Raise(j)
    PROVE  HeadsInv'
<1>1. j.head = 0 /\ j \in [n : 0 .. IdxMod - 1, head : Index, buf : Bufs, write : BOOLEAN,
                           block : Blocks, phase : {"fetched", "moved", "used"}]
    BY DEF CallInv, HeadsInv, DiskInv, TypeOK, DeviceTypeOK
<1>2. \A i \in dev'.jobs : i.head = 0
    BY <1>1
    DEF CallInv, HeadsInv, DiskInv, TypeOK, DeviceTypeOK, Transfer, Complete, Raise
<1>3. CASE Transfer(j)
    <2>1. info'[0].b = info[0].b
        BY <1>1, <1>3 DEF CallInv, DiskInv, TypeOK, DriverTypeOK, Transfer, Index
    <2> QED BY <1>2, <1>3, <2>1 DEF CallInv, HeadsInv, InCall, Transfer
<1>4. CASE Complete(j)
    <2>1. \A i \in Index : used'.elems[i] = 0
        BY <1>1, <1>4 DEF CallInv, HeadsInv, DiskInv, TypeOK, DeviceTypeOK, Complete
    <2> QED BY <1>2, <1>4, <2>1 DEF CallInv, HeadsInv, InCall, Complete
<1>5. CASE Raise(j)
    BY <1>2, <1>5 DEF CallInv, HeadsInv, InCall, Raise, rings
<1> QED BY <1>3, <1>4, <1>5

LEMMA HeadsNext == CallInv /\ [Next]_vars => HeadsInv'
<1> SUFFICES ASSUME CallInv, [Next]_vars PROVE HeadsInv'
    OBVIOUS
<1>1. CASE Device
    <2>1. CASE Quiesce
        BY <2>1
        DEF CallInv, HeadsInv, DiskInv, TypeOK, DeviceTypeOK, InCall, Quiesce, rings
    <2> QED BY <1>1, <2>1, FetchHeads, JobHeads DEF Device
<1>2. CASE Handler
    <2>1. CASE DiskIntrStep \/ TrapReturn
        BY <2>1, HeadsKept DEF CallInv, DiskIntrStep, TrapReturn, headVars, rings
    <2> QED BY <1>2, <2>1, TrapEntryHeads DEF Handler
<1>3. CASE DiskRW
    BY <1>3, PublishHeads, DriverHeads DEF DiskRW
<1>4. CASE Caller
    <2>1. ASSUME NEW b \in Bufs, Touch(b) PROVE HeadsInv'
        BY <2>1, HeadsKept DEF CallInv, Touch, headVars, rings
    <2> QED BY <1>4, <2>1, FillHeads DEF Caller
<1>5. CASE KeyPressed
    BY <1>5, HeadsKept DEF CallInv, KeyPressed, headVars, rings
<1>6. CASE UNCHANGED vars
    BY <1>6, HeadsKept DEF CallInv, vars, headVars, rings
<1> QED BY <1>1, <1>2, <1>3, <1>4, <1>5, <1>6 DEF Next

LEMMA InterruptsNext == CallInv /\ [Next]_vars => InterruptsInv'
<1> SUFFICES ASSUME CallInv, [Next]_vars PROVE InterruptsInv'
    OBVIOUS
<1> USE DEF CallInv
<1>1. CASE Device
    BY <1>1, InterruptsKept DEF Device, Fetch, Quiesce, Transfer, Complete, Raise, trap
<1>2. CASE Handler
    <2>1. csr \in [MIE : BOOLEAN, MPIE : BOOLEAN, MEIE : BOOLEAN]
        BY DEF DiskInv, TypeOK, TrapTypeOK
    <2>2. CASE TrapEntry
        BY <2>1, <2>2 DEF TrapEntry, InterruptDue, InterruptsInv, IntrAllOff
    <2>3. CASE DiskIntrStep
        BY <2>3, InterruptsKept DEF DiskIntrStep, trap
    <2>4. CASE TrapReturn
        BY <2>1, <2>4 DEF TrapReturn, InterruptsInv
    <2> QED BY <1>2, <2>2, <2>3, <2>4 DEF Handler
<1>3. CASE DiskRW
    <2>1. csr \in [MIE : BOOLEAN, MPIE : BOOLEAN, MEIE : BOOLEAN]
        BY DEF DiskInv, TypeOK, TrapTypeOK
    <2>2. CASE DiskInit \/ Publish \/ Notify
        BY <2>2 DEF DiskInit, Publish, Notify, Running, InterruptsInv, trap
    <2>3. CASE Arm \/ Sleep
        BY <2>1, <2>3 DEF Arm, IntrDevOn, Sleep, Asleep, Running, InterruptsInv, trap
    <2>4. CASE Finish
        BY <2>4 DEF Finish, AfterWait, IntrAllOff, Running, InterruptsInv
    <2> QED BY <1>3, <2>2, <2>3, <2>4 DEF DiskRW
<1>4. CASE Caller
    BY <1>4 DEF Caller, Touch, Fill, Running, InterruptsInv, trap
<1>5. CASE KeyPressed
    BY <1>5, InterruptsKept DEF KeyPressed
<1>6. CASE UNCHANGED vars
    BY <1>6, InterruptsKept DEF vars, trap
<1> QED BY <1>1, <1>2, <1>3, <1>4, <1>5, <1>6 DEF Next

LEMMA CallNext == CallInv /\ [Next]_vars => CallInv'
    BY NextInv, HeadsNext, InterruptsNext DEF CallInv

LEMMA CallInvariance == Spec => []CallInv
    BY InitCall, CallNext, PTL DEF Spec

(***************************************************************************)
(* The interrupt handler never stores through a null info[id].b, however   *)
(* late the device answers and whatever keys are pressed.                  *)
(***************************************************************************)
THEOREM NoStoreThroughNull == Spec => []NoNullStore
<1>1. CallInv => NoNullStore
    <2> SUFFICES ASSUME CallInv, claimed = DISK_IRQ PROVE info[used.elems[used_idx]].b # NoBuf
        BY DEF NoNullStore
    <2>1. InCall
        BY DEF CallInv, InterruptsInv, InCall, DISK_IRQ, NoIrq
    <2>2. used.elems[used_idx] = 0
        BY DEF CallInv, HeadsInv, DiskInv, TypeOK, DriverTypeOK
    <2> QED BY <2>1, <2>2 DEF CallInv, HeadsInv, DiskInv, DescriptorInv
<1> QED BY <1>1, CallInvariance, PTL

-----------------------------------------------------------------------------
(***************************************************************************)
(* The stages of a request, without keys.                                  *)
(***************************************************************************)
Quiet == CallInv /\ ~keyed /\ ~dev.broken /\ Stages

Devices == [seen : 0 .. IdxMod - 1, notified : BOOLEAN, broken : BOOLEAN, jobs : SUBSET Jobs]

LEMMA Typed ==
    CallInv =>
    /\ used \in [id : 0 .. IdxMod - 1, elems : [Index -> Index]]
    /\ avail \in [idx : 0 .. IdxMod - 1, ring : [Index -> Index]]
    /\ info \in [Index -> [b : Bufs \cup {NoBuf}, status : {0, 1}]]
    /\ used_idx \in Index
    /\ mem \in [Bufs -> [blockno : Blocks, data : Data, disk : BOOLEAN]]
    /\ dev \in Devices
    /\ media \in [Blocks -> Data]
    BY DEF CallInv, DiskInv, TypeOK, DriverTypeOK, DeviceTypeOK, Devices, Jobs

LEMMA ReqTyped ==
    CallInv /\ InCall => /\ req \in [buf : Bufs, write : BOOLEAN, head : Index]
                         /\ req.head = 0 /\ req.buf \in Bufs
    BY DEF CallInv, DiskInv, DescriptorInv

(* The ring index counts modulo a multiple of the ring's size. *)
LEMMA SuccRange ==
    ASSUME NEW i \in 0 .. IdxMod - 1
    PROVE  Succ(i) \in 0 .. IdxMod - 1
    BY ModRange DEF Succ

LEMMA IdxModLarge == IdxMod >= NUM /\ IdxMod = NUM * (IdxMod \div NUM)
<1>1. IdxMod = NUM * (IdxMod \div NUM) + (IdxMod % NUM)
    OBVIOUS
<1>2. IdxMod < NUM => IdxMod % NUM = IdxMod
    OBVIOUS
<1> QED BY <1>1, <1>2

LEMMA SuccDiffers ==
    ASSUME NEW i \in 0 .. IdxMod - 1
    PROVE  Succ(i) # i
<1>1. CASE i + 1 < IdxMod
    <2>1. (i + 1) % IdxMod = i + 1
        BY <1>1
    <2> QED BY <2>1 DEF Succ
<1>2. CASE i + 1 = IdxMod
    <2>1. IdxMod % IdxMod = 0
        OBVIOUS
    <2> QED BY <1>2, <2>1, IdxModLarge DEF Succ
<1> QED BY <1>1, <1>2

LEMMA SlotMod ==
    ASSUME NEW i \in Index
    PROVE  i % NUM = i
    BY DEF Index

LEMMA SlotDiffers ==
    ASSUME NEW i \in Index
    PROVE  (i + 1) % NUM # i
<1>1. CASE i + 1 < NUM
    <2>1. (i + 1) % NUM = i + 1
        BY <1>1 DEF Index
    <2> QED BY <2>1 DEF Index
<1>2. CASE i + 1 = NUM
    <2>1. NUM % NUM = 0
        OBVIOUS
    <2> QED BY <1>2, <2>1 DEF Index
<1> QED BY <1>1, <1>2 DEF Index

LEMMA ModParts ==
    ASSUME NEW i \in Nat
    PROVE  \E q \in Nat, r \in 0 .. NUM - 1 : i = NUM * q + r /\ (i % NUM) = r
<1>1. i = NUM * (i \div NUM) + (i % NUM) /\ i \div NUM \in Nat /\ (i % NUM) \in 0 .. NUM - 1
    OBVIOUS
<1> QED BY <1>1

LEMMA RemainderOf ==
    ASSUME NEW q \in Nat, NEW r \in 0 .. NUM - 1
    PROVE  (NUM * q + r) % NUM = r
    OBVIOUS

LEMMA SuccSlot ==
    ASSUME NEW i \in 0 .. IdxMod - 1
    PROVE  Succ(i) % NUM = ((i % NUM) + 1) % NUM
<1>1. PICK q \in Nat, r \in 0 .. NUM - 1 : i = NUM * q + r /\ (i % NUM) = r
    BY ModParts
<1>2. (i + 1) % NUM = (r + 1) % NUM
    <2>1. CASE r + 1 < NUM
        <3>1. i + 1 = NUM * q + (r + 1) /\ (r + 1) \in 0 .. NUM - 1
            BY <1>1, <2>1
        <3>2. (i + 1) % NUM = r + 1
            BY <3>1, RemainderOf
        <3>3. (r + 1) % NUM = r + 1
            BY <2>1
        <3> QED BY <3>2, <3>3
    <2>2. CASE r + 1 = NUM
        <3>1. i + 1 = NUM * (q + 1) + 0 /\ q + 1 \in Nat
            BY <1>1, <2>2
        <3>2. (i + 1) % NUM = 0
            <4>1. 0 \in 0 .. NUM - 1
                OBVIOUS
            <4>2. (NUM * (q + 1) + 0) % NUM = 0
                BY <3>1, <4>1, RemainderOf
            <4> QED BY <3>1, <4>2
        <3>3. (r + 1) % NUM = 0
            BY <2>2
        <3> QED BY <3>2, <3>3
    <2> QED BY <1>1, <2>1, <2>2
<1>3. CASE i + 1 < IdxMod
    <2>1. Succ(i) = i + 1
        BY <1>3 DEF Succ
    <2> QED BY <1>1, <1>2, <2>1
<1>4. CASE i + 1 = IdxMod
    <2>1. Succ(i) = 0
        BY <1>4 DEF Succ
    <2>2. (i + 1) % NUM = IdxMod % NUM
        BY ONLY <1>4
    <2>3. 0 % NUM = 0
        OBVIOUS
    <2> QED BY <1>1, <1>2, <2>1, <2>2, <2>3
<1> QED BY <1>3, <1>4

LEMMA QuietInit == Init => ~dev.broken /\ Rest
<1> SUFFICES ASSUME Init PROVE ~dev.broken /\ Rest
    OBVIOUS
<1>1. used_idx = 0 /\ used.id = 0 /\ 0 % NUM = 0
    BY DEF Init
<1> QED BY <1>1 DEF Init, Rest, Settled, Flagged

(* What most steps leave alone. *)
requestVars == <<req, avail, info, used, used_idx, mem>>

LEMMA DiskInitQuiet ==
    ASSUME Quiet, DiskInit
    PROVE  Rest /\ Rest' /\ ~dev'.broken
    BY DEF Quiet, Stages, DiskInit, Running, Rest, Published, InHand, Answered, Handled,
           Waiting, Settled, Flagged, trap

LEMMA TouchQuiet ==
    ASSUME Quiet, NEW b \in Bufs, Touch(b)
    PROVE  Rest /\ Rest' /\ ~dev'.broken
<1>1. Rest /\ pc = "idle"
    BY DEF Quiet, Stages, Touch, Running, Published, InHand, Answered, Handled, Waiting
<1>2. \A x \in Bufs : mem'[x].disk = mem[x].disk
    BY Typed DEF Quiet, Touch
<1>3. Rest'
    BY <1>1, <1>2 DEF Rest, Settled, Flagged, Touch, rings, trap
<1> QED BY <1>1, <1>3 DEF Quiet, Touch

LEMMA FillQuiet ==
    ASSUME Quiet, NEW b \in Bufs, NEW write \in BOOLEAN, Fill(b, write)
    PROVE  Rest /\ Rest' /\ ~dev'.broken
<1>1. Rest /\ pc = "idle"
    BY DEF Quiet, Stages, Fill, Running, Published, InHand, Answered, Handled, Waiting
<1>2. req'.buf = b /\ info'[0].status = 0
    <2>1. req' = [buf |-> b, write |-> write, head |-> 0]
          /\ info' = [info EXCEPT ![0] = [b |-> b, status |-> 0]]
        BY FillHeads DEF Quiet
    <2>2. 0 \in Index
        BY DEF Index
    <2>3. info \in [Index -> [b : Bufs \cup {NoBuf}, status : {0, 1}]]
        BY Typed DEF Quiet
    <2> QED BY <2>1, <2>2, <2>3
<1>3. \A x \in Bufs : mem'[x].disk <=> x \in {b}
    BY <1>1, Typed DEF Quiet, Fill, Rest, Flagged
<1>4. Rest'
    BY <1>1, <1>2, <1>3 DEF Rest, Settled, Flagged, Fill, trap
<1> QED BY <1>1, <1>4 DEF Quiet, Fill

LEMMA PublishQuiet ==
    ASSUME Quiet, Publish
    PROVE  Rest /\ Published' /\ ~dev'.broken
<1>1. Rest /\ pc = "filled"
    BY DEF Quiet, Stages, Publish, Running, Published, InHand, Answered, Handled, Waiting
<1>2. Published'
    BY <1>1 DEF Rest, Published, Waiting, Settled, Flagged, Publish, Succ, trap
<1> QED BY <1>1, <1>2 DEF Quiet, Publish

(* The steps of the driver on its way to wfi. *)
LEMMA WaitQuiet ==
    ASSUME Quiet, Notify \/ Arm \/ Sleep
    PROVE  /\ \/ Published /\ Published'
              \/ InHand /\ InHand'
              \/ Answered /\ Answered'
              \/ Handled /\ Handled'
           /\ dev' = [dev EXCEPT !.notified = dev'.notified]
           /\ Waiting /\ Waiting'
           /\ UNCHANGED <<requestVars, media>>
<1>1. Waiting /\ Waiting' /\ claimed = NoIrq /\ claimed' = claimed /\ pending' = pending
    BY DEF Notify, Arm, Sleep, Asleep, Running, Waiting, trap
<1>2. UNCHANGED <<requestVars, media>>
    BY DEF Notify, Arm, Sleep, rings, requestVars
<1>3. dev \in Devices
    BY Typed DEF Quiet
<1>4. /\ dev' = [dev EXCEPT !.notified = dev'.notified]
      /\ dev'.seen = dev.seen /\ dev'.jobs = dev.jobs /\ dev'.broken = dev.broken
    BY <1>3 DEF Devices, Notify, Arm, Sleep
<1>5. ~Rest
    BY <1>1 DEF Rest, Waiting
<1>6. \A phase : JobIn(phase) <=> JobIn(phase)'
    BY <1>2, <1>4 DEF JobIn, Job, requestVars
<1>7. Published => Published'
    BY <1>1, <1>2, <1>4 DEF Published, Settled, Flagged, requestVars
<1>8. InHand => InHand'
    BY <1>1, <1>2, <1>4, <1>6 DEF InHand, Flagged, requestVars, Succ
<1>9. Answered => Answered'
    BY <1>1, <1>2, <1>4, <1>6 DEF Answered, Behind, Flagged, requestVars
<1>10. Handled => Handled'
    BY <1>1, <1>2, <1>4 DEF Handled, Settled, Flagged, requestVars
<1> QED BY <1>1, <1>2, <1>4, <1>5, <1>7, <1>8, <1>9, <1>10 DEF Quiet, Stages

LEMMA FinishQuiet ==
    ASSUME Quiet, Finish
    PROVE  Handled /\ Rest' /\ ~dev'.broken
<1>1. Handled
    BY DEF Quiet, Stages, Finish, Running, Rest, Published, InHand, Answered, Handled, Waiting,
           DISK_IRQ, NoIrq
<1>2. Rest'
    BY <1>1 DEF Handled, Rest, Settled, Flagged, Finish, Running
<1> QED BY <1>1, <1>2 DEF Quiet, Finish

LEMMA TrapEntryQuiet ==
    ASSUME Quiet, TrapEntry
    PROVE  Answered /\ Answered' /\ dev' = dev /\ UNCHANGED <<requestVars, media>>
           /\ (Waiting \/ pc = "woken") /\ (Waiting \/ pc = "woken")'
<1>1. pending # {} /\ UNCHANGED <<requestVars, dev, media>>
    BY DEF TrapEntry, InterruptDue, rings, requestVars
<1>2. Answered /\ Waiting /\ pending = {DISK_IRQ} /\ dev.jobs = {}
    BY <1>1 DEF Quiet, Stages, Rest, Published, InHand, Answered, Handled
<1>3. Lowest({DISK_IRQ}) = DISK_IRQ
    BY DEF Lowest, DISK_IRQ
<1>4. claimed' = DISK_IRQ /\ pending' = {} /\ (Waiting' \/ pc' = "woken")
    BY <1>2, <1>3 DEF TrapEntry, Waiting
<1>5. Answered'
    BY <1>1, <1>2, <1>4 DEF Answered, Behind, Flagged, requestVars
<1> QED BY <1>1, <1>2, <1>4, <1>5

LEMMA DiskIntrStepQuiet ==
    ASSUME Quiet, DiskIntrStep
    PROVE  /\ Answered /\ dev' = dev
           /\ UNCHANGED <<pc, req, avail, info, used, pending, claimed, media>>
           /\ \/ Answered' /\ UNCHANGED <<mem, used_idx>>
              \/ Handled' /\ info[0].status = 0 /\ mem' = Released(req.buf)
<1>1. UNCHANGED <<pc, req, avail, info, used, pending, claimed, dev, media>>
    BY DEF DiskIntrStep, trap
<1>2. Answered /\ (Waiting \/ pc = "woken") /\ dev.jobs = {} /\ pending = {} /\ claimed = DISK_IRQ
    <2>1. MoreUsed
        BY DEF DiskIntrStep
    <2>2. used_idx \in Index /\ used_idx % NUM = used_idx
        BY Typed, SlotMod DEF Quiet
    <2>3. ~Handled
        <3>1. used.id \in Nat /\ (used.id % NUM) \in 0 .. NUM - 1
            BY Typed, ModRange DEF Quiet
        <3>2. ASSUME Settled PROVE FALSE
            BY <2>1, <2>2, <3>2 DEF Settled, MoreUsed
        <3> QED BY <3>2 DEF Handled
    <2> QED BY <2>3 DEF Quiet, Stages, DiskIntrStep, Rest, Published, InHand, Answered,
                        DISK_IRQ, NoIrq
<1>3. InCall /\ used.elems[used_idx] = 0 /\ info[0].b = req.buf /\ req.buf \in Bufs
    <2>1. InCall
        BY <1>2 DEF InCall, Waiting
    <2>2. used_idx \in Index
        BY Typed DEF Quiet
    <2> QED BY <2>1, <2>2, ReqTyped DEF Quiet, CallInv, HeadsInv
<1>4. CASE info[0].status # 0
    <2>1. UNCHANGED <<mem, used_idx>>
        BY <1>3, <1>4 DEF DiskIntrStep
    <2> QED BY <1>1, <1>2, <2>1 DEF Answered, Behind, Flagged, Waiting
<1>5. CASE info[0].status = 0
    <2>1. mem' = Released(req.buf) /\ used_idx' = NextUsed
        BY <1>3, <1>5 DEF DiskIntrStep
    <2>2. used_idx' = used.id % NUM
        BY <1>2, <2>1 DEF NextUsed, Answered, Behind
    <2>3. \A b \in Bufs : ~mem'[b].disk
        BY <1>2, <1>3, <2>1, Typed DEF Quiet, Released, Answered, Flagged
    <2>4. Handled'
        BY <1>1, <1>2, <1>5, <2>2, <2>3 DEF Handled, Answered, Settled, Flagged, Waiting
    <2> QED BY <1>1, <1>2, <1>5, <2>1, <2>4
<1> QED BY <1>4, <1>5

LEMMA TrapReturnQuiet ==
    ASSUME Quiet, TrapReturn
    PROVE  Handled /\ Handled' /\ dev' = dev /\ UNCHANGED <<requestVars, media, pc>>
<1>1. UNCHANGED <<requestVars, dev, media, pc, pending>> /\ claimed' = NoIrq /\ claimed # NoIrq
    BY DEF TrapReturn, rings, requestVars
<1>2. Handled
    <2>1. used_idx \in Index /\ used_idx % NUM = used_idx
        BY Typed, SlotMod DEF Quiet
    <2>2. (used_idx + 1) % NUM # used_idx
        BY <2>1, SlotDiffers
    <2>3. ~Answered
        BY <1>1, <2>1, <2>2 DEF TrapReturn, MoreUsed, Answered, Behind
    <2> QED BY <1>1, <2>3 DEF Quiet, Stages, Rest, Published, InHand
<1>3. Handled'
    BY <1>1, <1>2 DEF Handled, Settled, Flagged, Waiting, requestVars
<1> QED BY <1>1, <1>2, <1>3

(***************************************************************************)
(* The device.                                                             *)
(***************************************************************************)
LEMMA FetchQuiet ==
    ASSUME Quiet, Fetch
    PROVE  /\ Published /\ InHand' /\ JobIn("fetched")' /\ ~dev'.broken
           /\ UNCHANGED <<pc, requestVars, media>>
<1>1. UNCHANGED <<pc, requestVars, trap, media>>
    BY DEF Fetch, rings, requestVars
<1>2. Published
    BY DEF Quiet, Stages, Fetch, Rest, InHand, Answered, Handled
<1>3. InCall
    BY <1>2 DEF Published, Waiting, InCall
<1>4. dev.seen \in 0 .. IdxMod - 1 /\ (dev.seen % NUM) \in Index
    <2>1. dev.seen \in 0 .. IdxMod - 1
        BY Typed DEF Quiet, Devices
    <2>2. (dev.seen % NUM) \in Index
        BY <2>1, ModRange DEF Index
    <2> QED BY <2>1, <2>2
<1>5. avail.ring[dev.seen % NUM] = 0
    BY <1>4 DEF Quiet, CallInv, HeadsInv
<1>6. \A i \in ChainFrom(0) : desc[i].addr # "null"
    <2>1. ChainFrom(0) = {0, 1, 2}
        BY <1>3, ChainIsFirstThree DEF Quiet, CallInv, DiskInv, DescriptorInv
    <2> QED BY <1>3, <2>1 DEF Quiet, CallInv, HeadsInv
<1>7. dev' = [dev EXCEPT !.seen = Succ(dev.seen),
                         !.jobs = dev.jobs \cup {Job(dev.seen, "fetched")}]
    BY <1>5, <1>6 DEF Fetch, Job, Succ
<1>8. /\ dev'.seen = Succ(dev.seen) /\ dev'.broken = dev.broken
      /\ dev'.jobs = {Job(dev.seen, "fetched")}
    BY <1>2, <1>7, Typed DEF Quiet, Devices, Published
<1>9. JobIn("fetched")'
    BY <1>1, <1>4, <1>8 DEF JobIn, Job, requestVars
<1>10. InHand'
    BY <1>1, <1>2, <1>8, <1>9
    DEF Published, InHand, Waiting, Settled, Flagged, Succ, requestVars, trap
<1> QED BY <1>1, <1>2, <1>8, <1>9, <1>10 DEF Quiet

LEMMA QuiesceQuiet ==
    ASSUME Quiet, Quiesce
    PROVE  /\ \/ Rest /\ Rest'
              \/ Published /\ Published'
              \/ InHand /\ InHand'
              \/ Answered /\ Answered'
              \/ Handled /\ Handled'
           /\ dev' = [dev EXCEPT !.notified = dev'.notified]
           /\ UNCHANGED <<pc, requestVars, media>>
<1>1. UNCHANGED <<pc, requestVars, claimed, pending, media>>
    BY DEF Quiesce, rings, requestVars, trap
<1>2. dev \in Devices
    BY Typed DEF Quiet
<1>3. /\ dev' = [dev EXCEPT !.notified = dev'.notified]
      /\ dev'.seen = dev.seen /\ dev'.jobs = dev.jobs /\ dev'.broken = dev.broken
    BY <1>2 DEF Devices, Quiesce
<1>4. \A phase : JobIn(phase) <=> JobIn(phase)'
    BY <1>1, <1>3 DEF JobIn, Job, requestVars
<1>5. Rest => Rest'
    BY <1>1, <1>3 DEF Rest, Settled, Flagged, requestVars
<1>6. Published => Published'
    BY <1>1, <1>3 DEF Published, Waiting, Settled, Flagged, requestVars
<1>7. InHand => InHand'
    BY <1>1, <1>3, <1>4 DEF InHand, Waiting, Flagged, requestVars, Succ
<1>8. Answered => Answered'
    BY <1>1, <1>3, <1>4 DEF Answered, Waiting, Behind, Flagged, requestVars
<1>9. Handled => Handled'
    BY <1>1, <1>3 DEF Handled, Waiting, Settled, Flagged, requestVars
<1> QED BY <1>1, <1>3, <1>5, <1>6, <1>7, <1>8, <1>9 DEF Quiet, Stages

(* The job the device works on, by the phase it is in. *)
LEMMA OneJob ==
    ASSUME Quiet, NEW j \in dev.jobs
    PROVE  /\ \E n \in 0 .. IdxMod - 1 : j = Job(n, j.phase)
           /\ dev.jobs = {j} /\ Waiting /\ pending = {} /\ claimed = NoIrq
           /\ j.phase = "fetched" => InHand /\ info[0].status = 0
           /\ j.phase = "moved" => InHand
           /\ j.phase = "used" => Answered
<1>1. InHand \/ Answered
    BY DEF Quiet, Stages, Rest, Published, Handled
<1>2. \A n, phase : Job(n, phase).phase = phase
    BY DEF Job
<1>3. CASE InHand
    <2>1. PICK phase \in {"fetched", "moved"} :
              JobIn(phase) /\ (phase = "fetched" => info[0].status = 0)
        BY <1>3 DEF InHand
    <2>2. PICK n \in 0 .. IdxMod - 1 : dev.jobs = {Job(n, phase)}
        BY <2>1 DEF JobIn
    <2>3. j = Job(n, phase) /\ j.phase = phase
        BY <1>2, <2>2
    <2> QED BY <1>3, <2>1, <2>2, <2>3 DEF InHand
<1>4. CASE Answered
    <2>1. JobIn("used") /\ Waiting /\ pending = {} /\ claimed = NoIrq
        BY <1>4 DEF Answered
    <2>2. PICK n \in 0 .. IdxMod - 1 : dev.jobs = {Job(n, "used")}
        BY <2>1 DEF JobIn
    <2>3. j = Job(n, "used") /\ j.phase = "used"
        BY <1>2, <2>2
    <2> QED BY <1>4, <2>1, <2>2, <2>3
<1> QED BY <1>1, <1>3, <1>4

LEMMA TransferQuiet ==
    ASSUME Quiet, NEW j \in dev.jobs, Transfer(j)
    PROVE  /\ InHand /\ InHand' /\ info[0].status = 0 /\ ~dev'.broken
           /\ \E n \in 0 .. IdxMod - 1 :
                 j = Job(n, "fetched") /\ dev'.jobs = {Job(n, "moved")'}
           /\ dev'.seen = dev.seen
           /\ req.buf \in Bufs /\ InCall
<1>1. InHand /\ info[0].status = 0 /\ dev.jobs = {j} /\ Waiting
    BY OneJob DEF Transfer
<1>2. PICK n \in 0 .. IdxMod - 1 : j = Job(n, "fetched")
    BY OneJob DEF Transfer
<1>3. InCall /\ req.buf \in Bufs
    BY <1>1, ReqTyped DEF InCall, Waiting, Quiet
<1>4. \A b \in Bufs : mem'[b].disk = mem[b].disk /\ mem'[b].blockno = mem[b].blockno
    BY Typed DEF Quiet, Transfer
<1>5. [j EXCEPT !.phase = "moved"] = Job(n, "moved")
    BY <1>2 DEF Job
<1>6. Job(n, "moved") = Job(n, "moved")'
    BY <1>3, <1>4 DEF Job, Transfer
<1>7. dev'.jobs = {Job(n, "moved")'} /\ dev'.seen = dev.seen /\ dev'.broken = dev.broken
    BY <1>1, <1>5, <1>6, Typed DEF Quiet, Devices, Transfer
<1>8. InHand'
    <2>1. JobIn("moved")'
        BY <1>7 DEF JobIn
    <2>2. UNCHANGED <<pc, req, avail, used, used_idx, pending, claimed>>
        BY DEF Transfer, trap
    <2> QED BY <1>1, <1>4, <1>7, <2>1, <2>2 DEF InHand, Waiting, Flagged, Succ
<1> QED BY <1>1, <1>2, <1>3, <1>7, <1>8 DEF Quiet

LEMMA CompleteQuiet ==
    ASSUME Quiet, NEW j \in dev.jobs, Complete(j)
    PROVE  /\ InHand /\ JobIn("moved") /\ Answered' /\ ~dev'.broken
           /\ dev'.seen = dev.seen
           /\ \A i \in dev'.jobs : i.phase = "used"
           /\ UNCHANGED <<pc, req, avail, info, used_idx, mem, media>>
<1>1. InHand /\ dev.jobs = {j} /\ Waiting
    BY OneJob DEF Complete
<1>2. PICK n \in 0 .. IdxMod - 1 : j = Job(n, "moved")
    BY OneJob DEF Complete
<1>3. UNCHANGED <<pc, req, avail, info, used_idx, mem, media, pending, claimed>>
    BY DEF Complete, trap
<1>4. [j EXCEPT !.phase = "used"] = Job(n, "used")'
    BY <1>2, <1>3 DEF Job
<1>5. dev'.jobs = {Job(n, "used")'} /\ dev'.seen = dev.seen /\ dev'.broken = dev.broken
    BY <1>1, <1>4, Typed DEF Quiet, Devices, Complete
<1>6. JobIn("used")' /\ JobIn("moved")
    BY <1>1, <1>2, <1>5 DEF JobIn
<1>7. used'.id = Succ(used.id) /\ used.id \in 0 .. IdxMod - 1
    BY Typed DEF Quiet, Complete, Succ
<1>8. Behind'
    BY <1>1, <1>3, <1>7, SuccSlot DEF Behind, InHand
<1>9. Answered'
    BY <1>1, <1>3, <1>5, <1>6, <1>7, <1>8 DEF Answered, InHand, Waiting, Flagged
<1>10. \A i \in dev'.jobs : i.phase = "used"
    BY <1>5 DEF Job
<1> QED BY <1>1, <1>3, <1>5, <1>6, <1>9, <1>10 DEF Quiet

LEMMA RaiseQuiet ==
    ASSUME Quiet, NEW j \in dev.jobs, Raise(j)
    PROVE  /\ Answered /\ Answered' /\ ~dev'.broken
           /\ dev'.seen = dev.seen /\ dev.jobs = {j} /\ dev'.jobs = {}
           /\ UNCHANGED <<pc, requestVars, media>>
<1>1. Answered /\ dev.jobs = {j} /\ Waiting /\ pending = {} /\ claimed = NoIrq
    BY OneJob DEF Raise
<1>2. UNCHANGED <<pc, requestVars, media, claimed>> /\ pending' = {DISK_IRQ}
    BY <1>1 DEF Raise, requestVars, rings
<1>3. dev'.jobs = {} /\ dev'.seen = dev.seen /\ dev'.broken = dev.broken
    BY <1>1, Typed DEF Quiet, Devices, Raise
<1>4. Answered'
    BY <1>1, <1>2, <1>3 DEF Answered, Behind, Waiting, Flagged, requestVars
<1> QED BY <1>1, <1>2, <1>3, <1>4 DEF Quiet

LEMMA KeyedStays == CallInv /\ [Next]_vars /\ ~keyed' => ~keyed /\ ~KeyPressed
    BY DEF Next, Device, Handler, DiskRW, Caller, KeyPressed, keyboard, vars

LEMMA QuietNext == CallInv /\ QuietInv /\ [Next]_vars => QuietInv'
<1> SUFFICES ASSUME CallInv, QuietInv, [Next]_vars, ~keyed'
             PROVE  ~dev'.broken /\ Stages'
    BY DEF QuietInv
<1>1. Quiet /\ ~KeyPressed
    BY KeyedStays DEF Quiet, QuietInv
<1>2. CASE Device
    <2>1. CASE Quiesce
        <3>1. dev'.broken = dev.broken
            BY <2>1, Typed DEF Quiesce, Devices
        <3> QED BY <1>1, <2>1, <3>1, QuiesceQuiet DEF Stages, Quiet
    <2>2. CASE Fetch
        BY <1>1, <2>2, FetchQuiet DEF Stages
    <2>3. ASSUME NEW j \in dev.jobs, Transfer(j) \/ Complete(j) \/ Raise(j)
          PROVE  ~dev'.broken /\ Stages'
        BY <1>1, <2>3, TransferQuiet, CompleteQuiet, RaiseQuiet DEF Stages
    <2> QED BY <1>2, <2>1, <2>2, <2>3 DEF Device
<1>3. CASE Handler
    BY <1>1, <1>3, TrapEntryQuiet, DiskIntrStepQuiet, TrapReturnQuiet
    DEF Handler, Stages, Quiet
<1>4. CASE DiskRW
    <2>1. CASE Notify \/ Arm \/ Sleep
        <3>1. dev'.broken = dev.broken
            BY <2>1, Typed DEF Notify, Arm, Sleep, Devices
        <3> QED BY <1>1, <2>1, <3>1, WaitQuiet DEF Stages, Quiet
    <2> QED BY <1>1, <1>4, <2>1, DiskInitQuiet, PublishQuiet, FinishQuiet DEF DiskRW, Stages
<1>5. CASE Caller
    BY <1>1, <1>5, TouchQuiet, FillQuiet DEF Caller, Stages
<1>6. CASE UNCHANGED vars
    BY <1>1, <1>6
    DEF vars, rings, trap, Quiet, Stages, Rest, Published, InHand, Answered, Handled,
        Settled, Behind, Flagged, Waiting, JobIn, Job, Succ
<1> QED BY <1>1, <1>2, <1>3, <1>4, <1>5, <1>6 DEF Next

LEMMA QuietInvariance == Spec => [](CallInv /\ QuietInv)
<1>1. Init => CallInv /\ QuietInv
    BY InitCall, QuietInit DEF QuietInv, Stages
<1> QED BY <1>1, CallNext, QuietNext, PTL DEF Spec

(***************************************************************************)
(* As long as no key is pressed, Buffer.disk tells the truth: the flag is  *)
(* set while the device has the buffer in hand, and clear between calls.   *)
(***************************************************************************)
THEOREM FlagIsTrue == Spec => []FlagTellsOwner
<1>1. CallInv /\ QuietInv => FlagTellsOwner
    <2> SUFFICES ASSUME Quiet PROVE /\ \A j \in dev.jobs : j.phase = "fetched" => mem[j.buf].disk
                                    /\ pc = "idle" => dev.jobs = {} /\ \A b \in Bufs : ~mem[b].disk
        BY DEF QuietInv, Quiet, FlagTellsOwner
    <2>1. ASSUME NEW j \in dev.jobs, j.phase = "fetched" PROVE mem[j.buf].disk
        <3>1. InHand /\ Waiting /\ \E n \in 0 .. IdxMod - 1 : j = Job(n, j.phase)
            BY <2>1, OneJob
        <3>2. j.buf = req.buf /\ req.buf \in Bufs
            BY <3>1, ReqTyped DEF Job, Quiet, InCall, Waiting
        <3> QED BY <3>1, <3>2 DEF InHand, Flagged
    <2>2. ASSUME pc = "idle" PROVE dev.jobs = {} /\ \A b \in Bufs : ~mem[b].disk
        BY <2>2 DEF Quiet, Stages, Rest, Published, InHand, Answered, Handled, Waiting, Flagged
    <2> QED BY <2>1, <2>2
<1> QED BY <1>1, QuietInvariance, PTL

-----------------------------------------------------------------------------
(***************************************************************************)
(* BlockDevice: the transfer is the abstract step; every other step of the *)
(* driver, the device and the handler stutters.                            *)
(***************************************************************************)
ReqBar == IF pc \in {"off", "idle"} THEN NoReq
          ELSE [buf |-> req.buf, write |-> req.write, result |-> Outcome]

Content == [b \in Bufs |-> [blockno |-> mem[b].blockno, data |-> mem[b].data]]

ByStatus == IF info[0].status = 0 THEN "moved" ELSE "failed"

(* The result of the call in each stage. *)
Outcomes ==
    /\ Rest /\ InCall => Outcome = "pending"
    /\ Published => Outcome = "pending"
    /\ InHand /\ JobIn("fetched") /\ info[0].status = 0 => Outcome = "pending"
    /\ InHand /\ JobIn("moved") => Outcome = ByStatus
    /\ Answered \/ Handled => Outcome = ByStatus

LEMMA OutcomesHold == CallInv => Outcomes
<1> SUFFICES ASSUME CallInv PROVE Outcomes
    OBVIOUS
<1>1. InCall => req.head = 0
    BY ReqTyped
<1>2. Rest /\ InCall => Outcome = "pending"
    BY <1>1 DEF Rest, InCall, Outcome
<1>3. Published => Outcome = "pending"
    <2>1. dev.seen \in 0 .. IdxMod - 1
        BY Typed DEF Devices
    <2> QED BY <1>1, <2>1, SuccDiffers DEF Published, Waiting, InCall, Outcome
<1>4. InHand /\ JobIn("fetched") /\ info[0].status = 0 => Outcome = "pending"
    BY <1>1 DEF InHand, Waiting, InCall, JobIn, Job, Outcome
<1>5. InHand /\ JobIn("moved") => Outcome = ByStatus
    BY <1>1 DEF InHand, Waiting, InCall, JobIn, Job, Outcome, ByStatus
<1>6. Answered \/ Handled => Outcome = ByStatus
    BY <1>1 DEF Answered, Handled, Waiting, InCall, JobIn, Job, Outcome, ByStatus
<1> QED BY <1>2, <1>3, <1>4, <1>5, <1>6 DEF Outcomes

LEMMA OutcomesHoldNext == CallInv' => Outcomes'
    BY OutcomesHold, PTL

(* A step that stutters. *)
LEMMA Stutters ==
    ASSUME UNCHANGED <<req, media, keyed>>, InCall <=> InCall', InCall => Outcome' = Outcome,
           \A b \in Bufs : mem'[b].blockno = mem[b].blockno /\ mem'[b].data = mem[b].data
    PROVE  UNCHANGED <<media, Content, ReqBar, keyed>>
    BY DEF Content, ReqBar, InCall

LEMMA SameOutcome ==
    ASSUME UNCHANGED <<req, info>>, pc # "filled", pc' # "filled",
           dev'.seen = dev.seen, dev'.jobs = dev.jobs, avail' = avail
    PROVE  Outcome' = Outcome
    BY DEF Outcome

barVars == <<media, Content, ReqBar, keyed>>

LEMMA InitImplements == Init => Abstract!Init
    BY DEF Init, Abstract!Init

LEMMA TouchImplements ==
    ASSUME Quiet, NEW b \in Bufs, Touch(b), UNCHANGED keyboard
    PROVE  Abstract!Touch(b)
<1>1. pc = "idle" /\ pc' = "idle" /\ UNCHANGED <<media, keyed>>
    BY DEF Touch, Running, keyboard
<1>2. PICK k \in Blocks, d \in Data : mem' = [mem EXCEPT ![b].blockno = k, ![b].data = d]
    BY DEF Touch
<1>3. Content' = [Content EXCEPT ![b] = [blockno |-> k, data |-> d]]
    <2>1. /\ mem'[b].blockno = k /\ mem'[b].data = d
          /\ \A c \in Bufs : c # b => mem'[c] = mem[c]
        BY <1>2, Typed DEF Quiet
    <2> QED BY <2>1 DEF Content
<1>4. [blockno |-> k, data |-> d] \in [blockno : Blocks, data : Data]
    OBVIOUS
<1> QED BY <1>1, <1>3, <1>4 DEF Abstract!Touch, Content

LEMMA FillImplements ==
    ASSUME Quiet, CallInv', NEW b \in Bufs, NEW write \in BOOLEAN, Fill(b, write),
           UNCHANGED keyboard
    PROVE  Abstract!Call(b, write)
<1>1. pc = "idle" /\ pc' = "filled" /\ UNCHANGED <<media, keyed>>
    BY DEF Fill, Running, keyboard
<1>2. req' = [buf |-> b, write |-> write, head |-> 0]
    BY FillHeads DEF Quiet
<1>3. Outcome' = "pending"
    BY <1>1, FillQuiet, OutcomesHoldNext DEF Outcomes, InCall
<1>4. \A x \in Bufs : mem'[x].blockno = mem[x].blockno /\ mem'[x].data = mem[x].data
    BY Typed DEF Quiet, Fill
<1>5. Content' = Content
    BY <1>4 DEF Content
<1>6. ReqBar' = [buf |-> b, write |-> write, result |-> "pending"]
    BY <1>1, <1>2, <1>3 DEF ReqBar
<1> QED BY <1>1, <1>5, <1>6 DEF Abstract!Call, Content, ReqBar

LEMMA MoveImplements ==
    ASSUME ReqBar # NoReq, ReqBar.result = "pending", UNCHANGED keyed,
           ReqBar' = [ReqBar EXCEPT !.result = "moved"],
           IF ReqBar.write
           THEN /\ media' = [media EXCEPT ![Content[ReqBar.buf].blockno] = Content[ReqBar.buf].data]
                /\ Content' = Content
           ELSE /\ Content' = [Content EXCEPT ![ReqBar.buf].data =
                                   media[Content[ReqBar.buf].blockno]]
                /\ media' = media
    PROVE  Abstract!Move
    BY DEF Abstract!Move, ReqBar, Content

LEMMA TransferImplements ==
    ASSUME Quiet, CallInv', NEW j \in dev.jobs, Transfer(j), UNCHANGED keyboard
    PROVE  Abstract!Move \/ Abstract!Fail
<1>1. PICK n \in 0 .. IdxMod - 1 : j = Job(n, "fetched") /\ dev'.jobs = {Job(n, "moved")'}
    BY TransferQuiet
<1>2. InHand /\ InHand' /\ info[0].status = 0 /\ req.buf \in Bufs /\ dev.jobs = {j}
    BY TransferQuiet, OneJob DEF Transfer
<1>3. /\ j.buf = req.buf /\ j.write = req.write /\ j.block = mem[req.buf].blockno
      /\ j.head = 0 /\ req.write \in BOOLEAN
    BY <1>1, TransferQuiet, ReqTyped DEF Job, Quiet
<1>4. UNCHANGED <<pc, req, keyed>> /\ InCall /\ InCall'
    BY TransferQuiet DEF Transfer, keyboard, InCall
<1>5. Outcome = "pending" /\ Outcome' = ByStatus'
    <2>1. JobIn("fetched") /\ JobIn("moved")'
        BY <1>1, <1>2 DEF JobIn
    <2> QED BY <1>2, <2>1, OutcomesHold, OutcomesHoldNext DEF Outcomes, Quiet
<1>6. /\ ReqBar = [buf |-> req.buf, write |-> req.write, result |-> "pending"]
      /\ ReqBar' = [buf |-> req.buf, write |-> req.write, result |-> ByStatus']
      /\ ReqBar # NoReq
    <2>1. ReqBar = [buf |-> req.buf, write |-> req.write, result |-> "pending"]
        BY <1>4, <1>5 DEF ReqBar, InCall
    <2>2. ReqBar' = [buf |-> req.buf, write |-> req.write, result |-> ByStatus']
        BY <1>4, <1>5 DEF ReqBar, InCall
    <2>3. ReqBar # NoReq
        BY <1>2, <1>3, <2>1, NoReqAssumption
    <2> QED BY <2>1, <2>2, <2>3
<1>7. PICK status \in {0, 1} :
          /\ info' = [info EXCEPT ![0].status = status]
          /\ media' = IF status = 0 /\ req.write
                      THEN [media EXCEPT ![mem[req.buf].blockno] = mem[req.buf].data]
                      ELSE media
          /\ mem' = IF status = 0 /\ ~req.write
                    THEN [mem EXCEPT ![req.buf].data = media[mem[req.buf].blockno]] ELSE mem
    BY <1>3 DEF Transfer
<1>8. info'[0].status = status
    BY <1>7, Typed DEF Quiet, Index
<1>9. Content[req.buf] = [blockno |-> mem[req.buf].blockno, data |-> mem[req.buf].data]
    BY <1>2 DEF Content
<1>10. CASE status = 1
    <2>1. Content' = Content /\ media' = media /\ ByStatus' = "failed"
        BY <1>7, <1>8, <1>10 DEF Content, ByStatus
    <2> QED BY <1>4, <1>6, <2>1 DEF Abstract!Fail, ReqBar, Content
<1>11. CASE status = 0
    <2>1. /\ ReqBar' = [ReqBar EXCEPT !.result = "moved"]
          /\ ReqBar.buf = req.buf /\ ReqBar.write = req.write /\ ReqBar.result = "pending"
        BY <1>6, <1>8, <1>11 DEF ByStatus
    <2>2. CASE req.write
        <3>1. media' = [media EXCEPT ![Content[req.buf].blockno] = Content[req.buf].data]
            BY <1>7, <1>9, <1>11, <2>2
        <3>2. Content' = Content
            BY <1>7, <2>2 DEF Content
        <3> QED BY <1>4, <1>6, <2>1, <2>2, <3>1, <3>2, MoveImplements
    <2>3. CASE ~req.write
        <3>1. mem' = [mem EXCEPT ![req.buf].data = media[mem[req.buf].blockno]] /\ media' = media
            BY <1>7, <1>11, <2>3
        <3>2. Content' = [Content EXCEPT ![req.buf].data = media[Content[req.buf].blockno]]
            BY <1>2, <1>9, <3>1, Typed DEF Content, Quiet
        <3> QED BY <1>4, <1>6, <2>1, <2>3, <3>1, <3>2, MoveImplements
    <2> QED BY <2>2, <2>3
<1> QED BY <1>7, <1>10, <1>11

LEMMA FinishImplements ==
    ASSUME Quiet, Finish, UNCHANGED keyboard
    PROVE  Abstract!Return
<1>1. Handled /\ pc = "woken" /\ pc' = "idle" /\ UNCHANGED <<mem, media, keyed>>
    BY FinishQuiet DEF Finish, Running, keyboard
<1>2. Outcome = "moved"
    BY <1>1, OutcomesHold DEF Outcomes, ByStatus, Handled, Quiet
<1>3. req.buf \in Bufs /\ req.write \in BOOLEAN
    BY <1>1, ReqTyped DEF InCall, Quiet
<1>4. ReqBar = [buf |-> req.buf, write |-> req.write, result |-> "moved"] /\ ReqBar # NoReq
    BY <1>1, <1>2, <1>3, NoReqAssumption DEF ReqBar
<1>5. ReqBar' = NoReq /\ Content' = Content
    BY <1>1 DEF ReqBar, Content
<1> QED BY <1>1, <1>4, <1>5 DEF Abstract!Return, ReqBar, Content

LEMMA DeviceImplements ==
    ASSUME Quiet, CallInv', Device
    PROVE  Abstract!Move \/ Abstract!Fail \/ UNCHANGED barVars
<1>1. UNCHANGED keyed
    BY DEF Device, keyboard
<1>2. CASE Fetch
    <2>1. /\ UNCHANGED <<pc, requestVars, media>> /\ InHand' /\ JobIn("fetched")'
          /\ Published /\ InCall /\ InCall'
        BY <1>2, FetchQuiet DEF Published, Waiting, InCall
    <2>2. info'[0].status = 0
        BY <2>1 DEF Published, requestVars
    <2>3. Outcome' = Outcome
        BY <2>1, <2>2, OutcomesHold, OutcomesHoldNext DEF Outcomes, Quiet
    <2> QED BY <1>1, <2>1, <2>3, Stutters DEF requestVars, barVars
<1>3. CASE Quiesce
    <2>1. UNCHANGED <<pc, requestVars, media>>
        BY <1>3, QuiesceQuiet
    <2>2. dev'.seen = dev.seen /\ dev'.jobs = dev.jobs
        BY <1>3, Typed DEF Quiesce, Devices, Quiet
    <2>3. Outcome' = Outcome
        BY <2>1, <2>2 DEF Outcome, requestVars
    <2> QED BY <1>1, <2>1, <2>3, Stutters DEF requestVars, barVars, InCall
<1>4. ASSUME NEW j \in dev.jobs, Complete(j) PROVE UNCHANGED barVars
    <2>1. /\ UNCHANGED <<pc, req, info, mem, media>>
          /\ InHand /\ JobIn("moved") /\ Answered' /\ InCall /\ InCall'
        BY <1>4, CompleteQuiet DEF InHand, Waiting, InCall
    <2>2. Outcome' = Outcome
        BY <2>1, OutcomesHold, OutcomesHoldNext DEF Outcomes, ByStatus, Quiet
    <2> QED BY <1>1, <2>1, <2>2, Stutters DEF barVars
<1>5. ASSUME NEW j \in dev.jobs, Raise(j) PROVE UNCHANGED barVars
    <2>1. UNCHANGED <<pc, requestVars, media>> /\ Answered /\ Answered'
        BY <1>5, RaiseQuiet
    <2>2. Outcome' = Outcome
        BY <2>1, OutcomesHold, OutcomesHoldNext DEF Outcomes, ByStatus, Quiet, requestVars
    <2> QED BY <1>1, <2>1, <2>2, Stutters DEF requestVars, barVars, InCall
<1>6. ASSUME NEW j \in dev.jobs, Transfer(j) PROVE Abstract!Move \/ Abstract!Fail
    BY <1>6, TransferImplements DEF Device
<1> QED BY <1>2, <1>3, <1>4, <1>5, <1>6 DEF Device

LEMMA HandlerImplements ==
    ASSUME Quiet, Handler
    PROVE  UNCHANGED barVars
<1>1. UNCHANGED <<keyed, media>> /\ \A b \in Bufs :
          mem'[b].blockno = mem[b].blockno /\ mem'[b].data = mem[b].data
    <2>1. CASE TrapEntry \/ TrapReturn
        BY <2>1 DEF Handler, TrapEntry, TrapReturn, keyboard
    <2>2. CASE DiskIntrStep
        BY <2>2, DiskIntrStepQuiet, Typed DEF Handler, Quiet, Released, keyboard
    <2> QED BY <2>1, <2>2 DEF Handler
<1>2. /\ UNCHANGED <<req, info, avail, dev>>
      /\ InCall /\ InCall' /\ pc # "filled" /\ pc' # "filled"
    <2>1. CASE TrapEntry
        BY <2>1, TrapEntryQuiet DEF requestVars, InCall, Waiting
    <2>2. CASE TrapReturn
        BY <2>2, TrapReturnQuiet DEF requestVars, InCall, Waiting, Handled
    <2>3. CASE DiskIntrStep
        <3>1. pc # "filled" /\ InCall
            BY <2>3, DiskIntrStepQuiet DEF Answered, Waiting, InCall
        <3> QED BY <2>3, <3>1, DiskIntrStepQuiet DEF InCall
    <2> QED BY <2>1, <2>2, <2>3 DEF Handler
<1> QED BY <1>1, <1>2, SameOutcome, Stutters DEF barVars

LEMMA DiskRWImplements ==
    ASSUME Quiet, CallInv', DiskRW
    PROVE  Abstract!Return \/ UNCHANGED barVars
<1>1. UNCHANGED keyed
    BY DEF DiskRW, keyboard
<1>2. CASE DiskInit
    BY <1>1, <1>2, Stutters DEF DiskInit, Running, InCall, barVars
<1>3. CASE Publish
    <2>1. UNCHANGED <<req, media, mem>> /\ Rest /\ Published' /\ InCall /\ InCall'
        BY <1>3, PublishQuiet DEF Publish, Running, InCall
    <2>2. Outcome' = Outcome
        BY <2>1, OutcomesHold, OutcomesHoldNext DEF Outcomes, Quiet
    <2> QED BY <1>1, <2>1, <2>2, Stutters DEF barVars
<1>4. CASE Notify \/ Arm \/ Sleep
    <2>1. /\ UNCHANGED <<requestVars, media>>
          /\ InCall /\ InCall' /\ pc # "filled" /\ pc' # "filled"
        BY <1>4, WaitQuiet DEF Waiting, InCall
    <2>2. dev'.seen = dev.seen /\ dev'.jobs = dev.jobs
        BY <1>4, Typed DEF Notify, Arm, Sleep, Devices, Quiet
    <2> QED BY <1>1, <2>1, <2>2, SameOutcome, Stutters DEF requestVars, barVars
<1>5. CASE Finish
    BY <1>5, FinishImplements DEF DiskRW
<1> QED BY <1>2, <1>3, <1>4, <1>5 DEF DiskRW

LEMMA StepImplements ==
    CallInv /\ QuietInv /\ CallInv' /\ [Next]_vars => [Abstract!Next]_(Abstract!deviceVars)
<1> SUFFICES ASSUME CallInv, QuietInv, CallInv', [Next]_vars
             PROVE  Abstract!Next \/ UNCHANGED barVars
    BY DEF barVars, Abstract!deviceVars, ReqBar, Content
<1>1. CASE keyed'
    BY <1>1 DEF Abstract!Next, Abstract!Disturb
<1>2. CASE ~keyed'
    <2>1. Quiet /\ ~KeyPressed
        BY <1>2, KeyedStays DEF Quiet, QuietInv
    <2>2. CASE Device
        BY <2>1, <2>2, DeviceImplements DEF Abstract!Next
    <2>3. CASE Handler
        BY <2>1, <2>3, HandlerImplements
    <2>4. CASE DiskRW
        BY <2>1, <2>4, DiskRWImplements DEF Abstract!Next
    <2>5. CASE Caller
        BY <2>1, <2>5, TouchImplements, FillImplements DEF Caller, Abstract!Next
    <2>6. CASE UNCHANGED vars
        BY <2>6 DEF vars, rings, barVars, Content, ReqBar, Outcome
    <2> QED BY <2>1, <2>2, <2>3, <2>4, <2>5, <2>6 DEF Next
<1> QED BY <1>1, <1>2

(***************************************************************************)
(* diskRW implements BlockDevice: as long as no key is pressed, one call   *)
(* makes one transfer, of the right block and in the right direction,      *)
(* returns only after it, and never returns from one that failed.          *)
(***************************************************************************)
THEOREM DiskImplementsBlockDevice == Spec => ImplementsBlockDevice
<1>1. Spec => [](CallInv /\ QuietInv)
    BY QuietInvariance
<1>2. Init => Abstract!Init
    BY InitImplements
<1>3. CallInv /\ QuietInv /\ CallInv' /\ [Next]_vars => [Abstract!Next]_(Abstract!deviceVars)
    BY StepImplements
<1> QED BY <1>1, <1>2, <1>3, PTL DEF Spec, ImplementsBlockDevice, Abstract!Spec
=============================================================================
