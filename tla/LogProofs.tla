----------------------------- MODULE LogProofs -----------------------------
(***************************************************************************)
(* Proofs about byte transfers and the log, for any disk, block size, log  *)
(* area and memory, any strings and any number of calls and boots.         *)
(*                                                                         *)
(* The loop keeps block * BSIZE + pos = Start + done, so the byte it is at *)
(* lies where a flat array would have it.  What users see has all bytes of *)
(* the call so far; the disk has those of the blocks that were saved.      *)
(***************************************************************************)
EXTENDS Log, SequenceTheorems, TLAPS

Contents == [Blocks -> Data]

(* Buffer, arguments and history of the call. *)
CallTyped ==
    /\ TypeOK
    /\ open \in [{"caller"} -> Blocks \cup {NoBlock}]
    /\ call = NoCall => pc = "idle" /\ ~errorOccurred
    /\ call # NoCall => before \in [disk : Contents, memory : [Locations -> Bytes]]

(* Where the loop is. *)
Progressing ==
    call # NoCall =>
        /\ block * BSIZE + pos = Start + done
        /\ done <= call.nBytes /\ call.block <= block
        /\ pc = "open" => \/ done = 0 /\ block = call.block /\ pos = call.offset
                          \/ done < call.nBytes /\ pos = 0
        /\ pc # "open" => block < DISKSIZE
        /\ pc \in {"save", "release"} => pos = BSIZE \/ done = call.nBytes
        /\ pc = "save" => call.write
        /\ pc = "idle" => done = call.nBytes /\ ~errorOccurred
        /\ call.virtual => \A i \in 1 .. done : call.memoryLocation + i - 1 \notin Unmapped
        /\ errorOccurred => Impossible

(* The byte i of block b when c bytes of the call are on their way to it. *)
Moved(b, i, c) ==
    IF call.write /\ Start <= b * BSIZE + i /\ b * BSIZE + i < Start + c
    THEN before.memory[call.memoryLocation + ((b * BSIZE + i) - Start)]
    ELSE before.disk[b][i]

(* How many of its bytes are on the disk. *)
Saved ==
    IF pc \in {"copy", "save"}
    THEN IF block * BSIZE <= Start THEN 0 ELSE block * BSIZE - Start
    ELSE done

Shared ==
    \A b \in Blocks : \/ b = block /\ pc \in {"copy", "save"} /\ call.write
                      \/ view[b] = stable[b]

Contained ==
    call # NoCall =>
        \A b \in Blocks, i \in Positions : /\ view[b][i] = Moved(b, i, done)
                                           /\ stable[b][i] = Moved(b, i, Saved)

Fetched(l) ==
    IF ~call.write /\ call.memoryLocation <= l /\ l < call.memoryLocation + done
    THEN Flat(before.disk)[Start + (l - call.memoryLocation)]
    ELSE before.memory[l]

MemoryKept == call # NoCall => \A l \in Locations : memory[l] = Fetched(l)

IOInv == CallTyped /\ Progressing /\ Shared /\ Contained /\ MemoryKept

(* The byte i of block b with c bytes of the log on the disk. *)
LogByte(b, i, c) ==
    LET start == LOGSTART * BSIZE
    IN IF start <= b * BSIZE + i /\ b * BSIZE + i < start + c
       THEN logged[((b * BSIZE + i) - start) + 1]
       ELSE atBoot[b][i]

LogTyped ==
    /\ logged \in Seq(Bytes) /\ logCalls \in Nat /\ atBoot \in Contents
    /\ block_no \in LOGSTART .. DISKSIZE /\ off \in 0 .. BSIZE

(* Before the first call, and in a call and behind it. *)
Position0 ==
    logCalls = 0 => /\ block_no = LOGSTART /\ off = 0 /\ logged = <<>>
                    /\ call = NoCall => atBoot = stable

InLog ==
    logCalls > 0 =>
        /\ call # NoCall /\ call.write /\ ~call.virtual
        /\ block_no = block /\ off = pos
        /\ LOGSTART <= call.block /\ call.block < DISKSIZE
        /\ call.nBytes <= Len(logged)
        /\ Start + call.nBytes = LOGSTART * BSIZE + Len(logged)
        /\ \A i \in 0 .. call.nBytes - 1 :
              before.memory[call.memoryLocation + i] = logged[Len(logged) - call.nBytes + i + 1]
        /\ \A b \in Blocks, i \in Positions :
              before.disk[b][i] = LogByte(b, i, Len(logged) - call.nBytes)

LogInv == IOInv /\ LogTyped /\ Position0 /\ InLog

USE DisksizeAssumption, BsizeAssumption, MemSizeAssumption, NoBlockAssumption,
    NoCallAssumption, LogstartAssumption, LogLengthsAssumption

-----------------------------------------------------------------------------
(***************************************************************************)
(* Blocks, positions and addresses.                                        *)
(***************************************************************************)
LEMMA Products ==
    ASSUME NEW a \in Nat, NEW b \in Nat
    PROVE  /\ a * BSIZE \in Nat
           /\ (a + 1) * BSIZE = a * BSIZE + BSIZE
           /\ a < b => a * BSIZE + BSIZE <= b * BSIZE
           /\ a <= b => a * BSIZE <= b * BSIZE
<1>1. a * BSIZE \in Nat /\ (a + 1) * BSIZE = a * BSIZE + BSIZE
    OBVIOUS
<1>2. ASSUME a < b PROVE a * BSIZE + BSIZE <= b * BSIZE
    <2>1. a + 1 <= b
        BY <1>2
    <2>2. (a + 1) * BSIZE <= b * BSIZE
        BY <2>1
    <2> QED BY <1>1, <2>2
<1>3. a <= b => a * BSIZE <= b * BSIZE
    OBVIOUS
<1> QED BY <1>1, <1>2, <1>3

LEMMA Apart ==
    ASSUME NEW a \in Nat, NEW b \in Nat, NEW i \in Positions, NEW j \in Positions,
           a * BSIZE + i = b * BSIZE + j
    PROVE  a = b /\ i = j
<1>1. a * BSIZE \in Nat /\ b * BSIZE \in Nat
      /\ (a < b => a * BSIZE + BSIZE <= b * BSIZE) /\ (b < a => b * BSIZE + BSIZE <= a * BSIZE)
    BY Products
<1>2. ~(a < b) /\ ~(b < a)
    BY <1>1 DEF Positions
<1>3. a = b
    BY <1>2
<1> QED BY <1>1, <1>3 DEF Positions

LEMMA Split ==
    ASSUME NEW a \in Addresses
    PROVE  /\ a \div BSIZE \in Blocks /\ a % BSIZE \in Positions
           /\ (a \div BSIZE) * BSIZE + (a % BSIZE) = a
<1> DEFINE q == a \div BSIZE
           m == a % BSIZE
<1>1. DISKSIZE * BSIZE \in Nat
    BY Products
<1>2. a \in Nat /\ a < DISKSIZE * BSIZE
    BY <1>1 DEF Addresses
<1>3. a = BSIZE * q + m /\ q \in Nat /\ m \in 0 .. BSIZE - 1
    BY <1>2
<1> HIDE DEF q, m
<1>4. q * BSIZE = BSIZE * q /\ q * BSIZE \in Nat
    BY <1>3
<1>5. q < DISKSIZE
    <2>1. DISKSIZE <= q => DISKSIZE * BSIZE <= q * BSIZE
        BY <1>3, Products
    <2> QED BY <1>1, <1>2, <1>3, <1>4, <2>1
<1>6. q \in Blocks /\ m \in Positions /\ q * BSIZE + m = a
    BY <1>3, <1>4, <1>5 DEF Blocks, Positions
<1> QED BY <1>6 DEF q, m

LEMMA Joined ==
    ASSUME NEW b \in Blocks, NEW i \in Positions
    PROVE  /\ b * BSIZE \in Nat /\ b * BSIZE + i \in Addresses
           /\ (b * BSIZE + i) \div BSIZE = b /\ (b * BSIZE + i) % BSIZE = i
<1>1. b * BSIZE \in Nat /\ b \in Nat /\ DISKSIZE * BSIZE \in Nat
      /\ b * BSIZE + BSIZE <= DISKSIZE * BSIZE
    BY Products DEF Blocks
<1> DEFINE a == b * BSIZE + i
<1>2. a \in Addresses
    BY <1>1 DEF Addresses, Positions
<1> HIDE DEF a
<1>3. (a \div BSIZE) * BSIZE + (a % BSIZE) = a /\ a \div BSIZE \in Blocks /\ a % BSIZE \in Positions
    BY <1>2, Split
<1>4. a = b * BSIZE + i
    BY DEF a
<1>5. a \div BSIZE \in Nat
    BY <1>3 DEF Blocks
<1>6. b = a \div BSIZE /\ i = a % BSIZE
    <2> DEFINE q == a \div BSIZE
               m == a % BSIZE
    <2>1. q \in Nat /\ m \in Positions /\ q * BSIZE + m = b * BSIZE + i
        BY <1>3, <1>4, <1>5
    <2> HIDE DEF q, m
    <2>2. b = q /\ i = m
        BY <1>1, <2>1, Apart
    <2> QED BY <2>2 DEF q, m
<1> QED BY <1>1, <1>2, <1>4, <1>6

LEMMA CallFields ==
    ASSUME NEW c \in Calls
    PROVE  /\ c.write \in BOOLEAN /\ c.virtual \in BOOLEAN
           /\ c.block \in 0 .. DISKSIZE /\ c.offset \in 0 .. BSIZE
           /\ c.nBytes \in 0 .. MemSize /\ c.memoryLocation \in 0 .. MemSize
           /\ c.memoryLocation + c.nBytes <= MemSize
           /\ c # NoCall
    BY DEF Calls

-----------------------------------------------------------------------------
(***************************************************************************)
(* A transfer: what its steps keep.                                        *)
(***************************************************************************)
LEMMA InCall ==
    ASSUME CallTyped, call # NoCall
    PROVE  /\ call \in Calls /\ Start \in Nat /\ call.block * BSIZE \in Nat
           /\ Start = call.block * BSIZE + call.offset
           /\ block \in Nat /\ block * BSIZE \in Nat /\ pos \in Nat /\ done \in Nat
           /\ pos <= BSIZE /\ block <= DISKSIZE /\ done <= MemSize
           /\ before.disk \in Contents /\ before.memory \in [Locations -> Bytes]
<1>1. call \in Calls
    BY DEF CallTyped, TypeOK
<1>2. call.block \in Nat /\ call.offset \in Nat
    BY <1>1, CallFields
<1>3. block \in Nat /\ pos \in Nat /\ done \in Nat /\ pos <= BSIZE /\ block <= DISKSIZE
      /\ done <= MemSize
    BY DEF CallTyped, TypeOK
<1>4. block * BSIZE \in Nat /\ call.block * BSIZE \in Nat
    BY <1>2, <1>3, Products
<1>5. Start = call.block * BSIZE + call.offset
    BY DEF Start
<1>6. before.disk \in Contents /\ before.memory \in [Locations -> Bytes]
    BY DEF CallTyped
<1> HIDE DEF Start
<1> QED BY <1>1, <1>2, <1>3, <1>4, <1>5, <1>6

LEMMA SameCall ==
    ASSUME call' = call
    PROVE  Start' = Start /\ (Impossible <=> Impossible')
    BY DEF Start, Impossible

LEMMA BytesOfDisk ==
    ASSUME NEW b \in Blocks, NEW i \in Positions
    PROVE  b * BSIZE + i \in Bytes
<1>1. b * BSIZE + i \in Addresses /\ DISKSIZE * BSIZE \in Nat
    BY Joined, Products
<1> QED BY <1>1 DEF Addresses, Bytes

LEMMA BootMemoryTyped == BootMemory \in [Locations -> Bytes]
<1>1. DISKSIZE * BSIZE \in Nat
    BY Products
<1> QED BY <1>1 DEF BootMemory, Locations, Bytes

LEMMA InitIO == Init => IOInv
<1> SUFFICES ASSUME Init PROVE IOInv
    OBVIOUS
<1>1. stable \in Contents
    BY BytesOfDisk DEF Init, Contents, Data
<1>2. view = stable /\ open = [u \in {"caller"} |-> NoBlock] /\ errorOccurred = FALSE
    BY DEF Init, Store!Init
<1>3. memory \in [Locations -> Bytes]
    BY BootMemoryTyped DEF Init
<1>4. CallTyped
    <2>1. /\ pc = "idle" /\ call = NoCall /\ block = 0 /\ pos = 0 /\ done = 0
          /\ view \in Contents
        BY <1>1, <1>2 DEF Init
    <2>2. open \in [{"caller"} -> Blocks \cup {NoBlock}] /\ open["caller"] = NoBlock
        BY <1>2
    <2>3. block \in 0 .. DISKSIZE /\ pos \in 0 .. BSIZE /\ done \in 0 .. MemSize
        BY <2>1
    <2>4. TypeOK
        BY <1>1, <1>2, <1>3, <2>1, <2>2, <2>3 DEF TypeOK, Contents
    <2> QED BY <1>2, <2>1, <2>2, <2>4 DEF CallTyped
<1> QED BY <1>2, <1>4 DEF Init, IOInv, Progressing, Shared, Contained, MemoryKept

LEMMA BeginIO ==
    ASSUME IOInv, NEW c \in Calls, Begin(c)
    PROVE  IOInv'
<1>1. /\ pc = "idle" /\ ~errorOccurred /\ pc' = "open" /\ call' = c /\ call' # NoCall
      /\ block' = c.block /\ pos' = c.offset /\ done' = 0
      /\ before' = [disk |-> stable, memory |-> memory]
      /\ stable' = stable /\ view' = view /\ open' = open
      /\ memory' = memory /\ errorOccurred' = errorOccurred
    BY CallFields DEF Begin, Running, store
<1>2. c.block \in 0 .. DISKSIZE /\ c.offset \in 0 .. BSIZE /\ c.nBytes \in Nat
      /\ c.block * BSIZE \in Nat
    BY CallFields, Products
<1>3. CallTyped'
    BY <1>1, <1>2 DEF IOInv, CallTyped, TypeOK, Contents
<1>4. Progressing'
    BY <1>1, <1>2 DEF Progressing, Start
<1>5. Shared'
    BY <1>1 DEF IOInv, Shared
<1>6. \A b \in Blocks : view[b] = stable[b]
    BY <1>1 DEF IOInv, Shared
<1>7. Contained'
    <2> SUFFICES ASSUME NEW b \in Blocks, NEW i \in Positions
                 PROVE  /\ view'[b][i] = Moved(b, i, done)'
                        /\ stable'[b][i] = Moved(b, i, Saved)'
        BY DEF Contained
    <2>1. Start' \in Nat /\ b * BSIZE + i \in Nat
        <3>1. Start' = c.block * BSIZE + c.offset
            BY <1>1 DEF Start
        <3>2. b * BSIZE \in Nat /\ i \in Nat
            BY Joined DEF Positions
        <3> QED BY <1>2, <3>1, <3>2
    <2>2. Saved' = 0
        BY <1>1 DEF Saved
    <2>3. Moved(b, i, done)' = stable[b][i] /\ Moved(b, i, Saved)' = stable[b][i]
        BY <1>1, <2>1, <2>2 DEF Moved
    <2> QED BY <1>1, <1>6, <2>3
<1>8. MemoryKept'
    BY <1>1, <1>2, CallFields DEF MemoryKept, Fetched, Locations
<1> QED BY <1>3, <1>4, <1>5, <1>7, <1>8 DEF IOInv

(* Steps that move no byte. *)
LEMMA NothingMoves ==
    ASSUME IOInv, call # NoCall, call' = call, before' = before, stable' = stable,
           view' = view, memory' = memory, done' = done, ~call.write \/ Saved' = Saved
    PROVE  Contained' /\ MemoryKept'
<1>1. Start' = Start
    BY SameCall
<1>2. ASSUME NEW b \in Blocks, NEW i \in Positions
      PROVE  /\ view'[b][i] = Moved(b, i, done)'
             /\ stable'[b][i] = Moved(b, i, Saved)'
    <2>1. view[b][i] = Moved(b, i, done) /\ stable[b][i] = Moved(b, i, Saved)
        BY DEF IOInv, Contained
    <2>2. Moved(b, i, done)' = Moved(b, i, done)
        BY <1>1 DEF Moved
    <2>3. Moved(b, i, Saved)' = Moved(b, i, Saved)
        BY <1>1 DEF Moved
    <2> QED BY <2>1, <2>2, <2>3
<1>3. ASSUME NEW l \in Locations PROVE memory'[l] = Fetched(l)'
    <2>1. Fetched(l)' = Fetched(l)
        BY <1>1 DEF Fetched, Flat
    <2> QED BY <2>1 DEF IOInv, MemoryKept
<1> QED BY <1>2, <1>3 DEF Contained, MemoryKept

LEMMA OpenIO == ASSUME IOInv, Open PROVE IOInv'
<1>1. /\ pc = "open" /\ pc' = "copy" /\ block < DISKSIZE
      /\ open' = [open EXCEPT !["caller"] = block]
      /\ stable' = stable /\ view' = view /\ errorOccurred' = errorOccurred /\ ~errorOccurred
      /\ memory' = memory /\ call' = call /\ block' = block /\ pos' = pos /\ done' = done
      /\ before' = before
    BY DEF Open, Running, BlockInRange, Store!Open
<1>2. call # NoCall
    BY <1>1 DEF IOInv, CallTyped
<1>3. /\ Start \in Nat /\ block \in Nat /\ block * BSIZE \in Nat /\ pos \in Nat /\ done \in Nat
    BY <1>2, InCall DEF IOInv
<1>4. block \in Blocks
    BY <1>1, <1>3 DEF Blocks
<1>5. CallTyped'
    <2>1. open' \in [{"caller"} -> Blocks \cup {NoBlock}] /\ open'["caller"] = block
        BY <1>1, <1>4 DEF IOInv, CallTyped
    <2> QED BY <1>1, <1>2, <2>1 DEF IOInv, CallTyped, TypeOK
<1>6. Progressing'
    BY <1>1, <1>2, SameCall DEF IOInv, Progressing
<1>7. Shared'
    BY <1>1 DEF IOInv, Shared
<1>8. Saved' = Saved
    <2>1. block * BSIZE + pos = Start + done /\ (done = 0 \/ pos = 0)
        BY <1>1, <1>2 DEF IOInv, Progressing
    <2>2. Saved = done
        BY <1>1 DEF Saved
    <2>3. Saved' = IF block * BSIZE <= Start THEN 0 ELSE block * BSIZE - Start
        BY <1>1, SameCall DEF Saved
    <2> QED BY <1>3, <2>1, <2>2, <2>3
<1> QED BY <1>1, <1>2, <1>5, <1>6, <1>7, <1>8, NothingMoves DEF IOInv

LEMMA OpenBeyondDiskIO == ASSUME IOInv, OpenBeyondDisk PROVE IOInv'
<1>1. /\ pc = "open" /\ pc' = pc /\ ~(block < DISKSIZE) /\ open' = open
      /\ stable' = stable /\ view' = view /\ errorOccurred' = TRUE /\ ~errorOccurred
      /\ memory' = memory /\ call' = call /\ block' = block /\ pos' = pos /\ done' = done
      /\ before' = before
    BY DEF OpenBeyondDisk, Running, BlockInRange, store
<1>2. call # NoCall
    BY <1>1 DEF IOInv, CallTyped
<1>3. /\ call \in Calls /\ Start \in Nat /\ block \in Nat /\ block * BSIZE \in Nat
      /\ pos \in Nat /\ done \in Nat /\ block <= DISKSIZE
    BY <1>2, InCall DEF IOInv
<1>4. CallTyped'
    BY <1>1, <1>2 DEF IOInv, CallTyped, TypeOK
<1>5. Impossible
    <2>1. block = DISKSIZE
        BY <1>1, <1>3
    <2>2. block * BSIZE + pos = Start + done
          /\ (block = call.block \/ (done < call.nBytes /\ pos = 0))
        BY <1>1, <1>2 DEF IOInv, Progressing
    <2>3. CASE block = call.block
        BY <2>1, <2>3 DEF Impossible
    <2>4. CASE done < call.nBytes /\ pos = 0
        <3>1. call.nBytes \in Nat
            BY <1>3, CallFields
        <3>2. Start + call.nBytes > DISKSIZE * BSIZE
            BY <1>3, <2>1, <2>2, <2>4, <3>1
        <3> QED BY <3>2 DEF Impossible
    <2> QED BY <2>2, <2>3, <2>4
<1>6. Progressing'
    BY <1>1, <1>2, <1>5, SameCall DEF IOInv, Progressing
<1>7. Shared'
    BY <1>1 DEF IOInv, Shared
<1>8. Saved' = Saved
    BY <1>1, SameCall DEF Saved
<1> QED BY <1>1, <1>2, <1>4, <1>6, <1>7, <1>8, NothingMoves DEF IOInv

LEMMA CopyUnmappedIO == ASSUME IOInv, CopyUnmapped PROVE IOInv'
<1>1. /\ pc = "copy" /\ pc' = pc /\ done < call.nBytes /\ open' = open
      /\ call.virtual /\ Location \in Unmapped
      /\ stable' = stable /\ view' = view /\ errorOccurred' = TRUE /\ ~errorOccurred
      /\ memory' = memory /\ call' = call /\ block' = block /\ pos' = pos /\ done' = done
      /\ before' = before
    BY DEF CopyUnmapped, Running, More, store
<1>2. call # NoCall
    BY <1>1 DEF IOInv, CallTyped
<1>3. call \in Calls /\ done \in Nat
    BY <1>2, InCall DEF IOInv
<1>4. CallTyped'
    BY <1>1, <1>2 DEF IOInv, CallTyped, TypeOK
<1>5. Impossible
    <2>1. done + 1 \in 1 .. call.nBytes /\ call.memoryLocation + (done + 1) - 1 = Location
        BY <1>1, <1>3, CallFields DEF Location
    <2> QED BY <1>1, <2>1 DEF Impossible
<1>6. Progressing'
    BY <1>1, <1>2, <1>5, SameCall DEF IOInv, Progressing
<1>7. Shared'
    BY <1>1 DEF IOInv, Shared
<1>8. Saved' = Saved
    BY <1>1, SameCall DEF Saved
<1> QED BY <1>1, <1>2, <1>4, <1>6, <1>7, <1>8, NothingMoves DEF IOInv

LEMMA EndOfBlockIO == ASSUME IOInv, EndOfBlock PROVE IOInv'
<1>1. /\ pc = "copy" /\ ~errorOccurred /\ (pos = BSIZE \/ ~(done < call.nBytes))
      /\ pc' = IF call.write THEN "save" ELSE "release"
      /\ open' = open /\ stable' = stable /\ view' = view /\ errorOccurred' = errorOccurred
      /\ memory' = memory /\ call' = call /\ block' = block /\ pos' = pos /\ done' = done
      /\ before' = before
    BY DEF EndOfBlock, Running, More, Changed, store
<1>2. call # NoCall
    BY <1>1 DEF IOInv, CallTyped
<1>3. call.write \in BOOLEAN /\ call.nBytes \in Nat /\ done \in Nat
    BY <1>2, InCall, CallFields DEF IOInv
<1>4. CallTyped'
    BY <1>1, <1>2 DEF IOInv, CallTyped, TypeOK
<1>5. Progressing'
    <2>1. pos = BSIZE \/ done = call.nBytes
        BY <1>1, <1>2, <1>3 DEF IOInv, Progressing
    <2>2. pc' # "idle" /\ pc' # "open" /\ (pc' = "save" => call.write)
        BY <1>1
    <2> QED BY <1>1, <1>2, <2>1, <2>2, SameCall DEF IOInv, Progressing
<1>6. Shared'
    BY <1>1, <1>3 DEF IOInv, Shared
<1>7. ~call.write \/ Saved' = Saved
    BY <1>1, SameCall DEF Saved
<1> QED BY <1>1, <1>2, <1>4, <1>5, <1>6, <1>7, NothingMoves DEF IOInv

LEMMA ReleaseIO == ASSUME IOInv, Release PROVE IOInv'
<1>1. /\ pc = "release" /\ ~errorOccurred
      /\ \/ /\ done < call.nBytes /\ pc' = "open" /\ block' = block + 1 /\ pos' = 0
         \/ /\ ~(done < call.nBytes) /\ pc' = "idle" /\ block' = block /\ pos' = pos
      /\ open' = [open EXCEPT !["caller"] = NoBlock]
      /\ stable' = stable /\ view' = view /\ errorOccurred' = errorOccurred
      /\ memory' = memory /\ call' = call /\ done' = done /\ before' = before
    BY DEF Release, Running, More, Brelse, Position, Store!Close
<1>2. call # NoCall
    BY <1>1 DEF IOInv, CallTyped
<1>3. /\ call.nBytes \in Nat /\ call.block \in Nat /\ Start \in Nat /\ done \in Nat
      /\ block \in Nat /\ block * BSIZE \in Nat /\ pos \in Nat
    BY <1>2, InCall, CallFields DEF IOInv
<1>4. /\ block * BSIZE + pos = Start + done /\ done <= call.nBytes /\ call.block <= block
      /\ block < DISKSIZE /\ (pos = BSIZE \/ done = call.nBytes)
    BY <1>1, <1>2 DEF IOInv, Progressing
<1>5. block' \in 0 .. DISKSIZE /\ pos' \in 0 .. BSIZE
    <2>1. pos \in 0 .. BSIZE
        BY <1>2, <1>3, InCall DEF IOInv
    <2> QED BY <1>1, <1>3, <1>4, <2>1
<1>6. CallTyped'
    <2>1. open' \in [{"caller"} -> Blocks \cup {NoBlock}] /\ open'["caller"] = NoBlock
        BY <1>1 DEF IOInv, CallTyped
    <2>2. pc' \in {"open", "idle"}
        BY <1>1
    <2> QED BY <1>1, <1>2, <1>5, <2>1, <2>2 DEF IOInv, CallTyped, TypeOK
<1>7. Progressing'
    <2>1. CASE done < call.nBytes
        <3>1. (block + 1) * BSIZE = block * BSIZE + BSIZE
            BY <1>3, Products
        <3>2. block' * BSIZE + pos' = Start + done /\ call.block <= block'
            BY <1>1, <1>3, <1>4, <2>1, <3>1
        <3> QED BY <1>1, <1>2, <2>1, <3>2, SameCall DEF IOInv, Progressing
    <2>2. CASE ~(done < call.nBytes)
        <3>1. done = call.nBytes
            BY <1>3, <1>4, <2>2
        <3> QED BY <1>1, <1>2, <2>2, <3>1, SameCall DEF IOInv, Progressing
    <2> QED BY <2>1, <2>2
<1>8. Shared'
    BY <1>1 DEF IOInv, Shared
<1>9. Saved' = Saved
    BY <1>1 DEF Saved
<1> QED BY <1>1, <1>2, <1>6, <1>7, <1>8, <1>9, NothingMoves DEF IOInv

LEMMA SaveIO == ASSUME IOInv, Save PROVE IOInv'
<1>1. /\ pc = "save" /\ pc' = "release" /\ ~errorOccurred
      /\ stable' = [stable EXCEPT ![open["caller"]] = view[open["caller"]]]
      /\ open' = open /\ view' = view /\ errorOccurred' = errorOccurred
      /\ memory' = memory /\ call' = call /\ block' = block /\ pos' = pos /\ done' = done
      /\ before' = before
    BY DEF Save, Running, Store!Save
<1>2. call # NoCall /\ open["caller"] = block
    BY <1>1 DEF IOInv, CallTyped, TypeOK
<1>3. block \in Blocks
    BY <1>1, <1>2, InCall DEF IOInv, Progressing, Blocks
<1>4. stable \in Contents /\ view \in Contents
    BY DEF IOInv, CallTyped, TypeOK, Contents
<1>5. stable' \in Contents
    BY <1>1, <1>2, <1>3, <1>4 DEF Contents
<1>6. ASSUME NEW b \in Blocks PROVE stable'[b] = view[b]
    BY <1>1, <1>2, <1>3, <1>4 DEF IOInv, Shared, Contents
<1>7. CallTyped'
    BY <1>1, <1>2, <1>5 DEF IOInv, CallTyped, TypeOK, Contents
<1>8. Progressing'
    BY <1>1, <1>2, SameCall DEF IOInv, Progressing
<1>9. Shared'
    BY <1>1, <1>6 DEF Shared
<1>10. Contained'
    <2> SUFFICES ASSUME NEW b \in Blocks, NEW i \in Positions
                 PROVE  /\ view'[b][i] = Moved(b, i, done)'
                        /\ stable'[b][i] = Moved(b, i, Saved)'
        BY DEF Contained
    <2>1. Moved(b, i, done)' = Moved(b, i, done)
        BY <1>1, SameCall DEF Moved
    <2>2. Moved(b, i, Saved)' = Moved(b, i, done)'
        BY <1>1 DEF Moved, Saved
    <2> QED BY <1>1, <1>2, <1>6, <2>1, <2>2 DEF IOInv, Contained
<1>11. MemoryKept'
    <2> SUFFICES ASSUME NEW l \in Locations PROVE memory'[l] = Fetched(l)'
        BY DEF MemoryKept
    <2>1. Fetched(l)' = Fetched(l)
        BY <1>1, SameCall DEF Fetched, Flat
    <2> QED BY <1>1, <1>2, <2>1 DEF IOInv, MemoryKept
<1> QED BY <1>7, <1>8, <1>9, <1>10, <1>11 DEF IOInv

LEMMA FlatAt ==
    ASSUME NEW blocks, NEW b \in Blocks, NEW i \in Positions
    PROVE  Flat(blocks)[b * BSIZE + i] = blocks[b][i]
<1> DEFINE a == b * BSIZE + i
<1>1. a \in Addresses /\ a \div BSIZE = b /\ a % BSIZE = i
    BY Joined
<1> HIDE DEF a
<1>2. Flat(blocks)[a] = blocks[b][i]
    BY <1>1 DEF Flat
<1> QED BY <1>2 DEF a

(* Where the next byte lies and where it goes. *)
LEMMA NextByte ==
    ASSUME IOInv, pc = "copy", More, pos # BSIZE
    PROVE  /\ call # NoCall /\ call \in Calls /\ call.write \in BOOLEAN
           /\ call.nBytes \in Nat /\ call.memoryLocation \in Nat /\ done < call.nBytes
           /\ Start \in Nat /\ block \in Nat /\ block * BSIZE \in Nat /\ done \in Nat
           /\ block \in Blocks /\ pos \in Positions
           /\ block * BSIZE + pos = Start + done
           /\ Location \in Locations /\ Location = call.memoryLocation + done
           /\ open["caller"] = block
<1>1. call # NoCall
    BY DEF IOInv, CallTyped
<1>2. /\ call \in Calls /\ Start \in Nat /\ block \in Nat /\ block * BSIZE \in Nat
      /\ pos \in Nat /\ pos <= BSIZE /\ done \in Nat
    BY <1>1, InCall DEF IOInv
<1>3. /\ call.write \in BOOLEAN /\ call.nBytes \in Nat /\ call.memoryLocation \in Nat
      /\ call.memoryLocation + call.nBytes <= MemSize
    BY <1>2, CallFields
<1>4. done < call.nBytes /\ Location = call.memoryLocation + done
    BY DEF More, Location
<1>5. block * BSIZE + pos = Start + done /\ block < DISKSIZE
    BY <1>1 DEF IOInv, Progressing
<1>6. block \in Blocks /\ pos \in Positions
    BY <1>2, <1>5 DEF Blocks, Positions
<1>7. Location \in Locations
    BY <1>2, <1>3, <1>4 DEF Locations
<1>8. open["caller"] = block
    BY DEF IOInv, CallTyped, TypeOK
<1> QED BY <1>1, <1>2, <1>3, <1>4, <1>5, <1>6, <1>7, <1>8

(* The loop goes one byte on. *)
LEMMA OneByteOn ==
    ASSUME IOInv, CopyByte
    PROVE  Progressing'
<1>1. /\ pc = "copy" /\ More /\ pos # BSIZE /\ ~(call.virtual /\ Location \in Unmapped)
      /\ pos' = pos + 1 /\ done' = done + 1
      /\ pc' = pc /\ call' = call /\ block' = block /\ before' = before
    BY DEF CopyByte, Running
<1>2. /\ call # NoCall /\ call.nBytes \in Nat /\ call.memoryLocation \in Nat
      /\ done < call.nBytes /\ Start \in Nat /\ block * BSIZE \in Nat /\ done \in Nat
      /\ pos \in Nat /\ block * BSIZE + pos = Start + done
      /\ Location = call.memoryLocation + done
    BY <1>1, NextByte DEF Positions
<1>3. block' * BSIZE + pos' = Start' + done' /\ done' <= call.nBytes
    BY <1>1, <1>2, SameCall
<1>4. ASSUME call.virtual, NEW i \in 1 .. done'
      PROVE  call.memoryLocation + i - 1 \notin Unmapped
    <2>1. CASE i \in 1 .. done
        BY <1>2, <1>4, <2>1 DEF IOInv, Progressing
    <2>2. CASE i = done + 1
        BY <1>1, <1>2, <1>4, <2>2
    <2>3. i \in 1 .. done \/ i = done + 1
        BY <1>1, <1>2
    <2> QED BY <2>1, <2>2, <2>3
<1>5. ~errorOccurred /\ errorOccurred' = errorOccurred
    BY DEF CopyByte, Running, Store!Change
<1> QED BY <1>1, <1>2, <1>3, <1>4, <1>5 DEF IOInv, Progressing

LEMMA CopyWriteIO == ASSUME IOInv, CopyByte, call.write PROVE IOInv'
<1>1. /\ pc = "copy" /\ More /\ pos # BSIZE
      /\ pos' = pos + 1 /\ done' = done + 1 /\ memory' = memory
      /\ pc' = pc /\ call' = call /\ block' = block /\ before' = before
      /\ view' = [view EXCEPT ![open["caller"]] = [view[block] EXCEPT ![pos] = memory[Location]]]
      /\ stable' = stable /\ open' = open /\ errorOccurred' = errorOccurred
    BY DEF CopyByte, Running, Store!Change
<1>2. /\ call # NoCall /\ call \in Calls /\ call.nBytes \in Nat /\ call.memoryLocation \in Nat
      /\ done < call.nBytes /\ Start \in Nat /\ block \in Nat /\ done \in Nat
      /\ block \in Blocks /\ pos \in Positions /\ block * BSIZE + pos = Start + done
      /\ Location \in Locations /\ Location = call.memoryLocation + done
      /\ open["caller"] = block
    BY <1>1, NextByte
<1>3. view \in Contents /\ memory \in [Locations -> Bytes]
    BY DEF IOInv, CallTyped, TypeOK, Contents
<1>4. memory[Location] = before.memory[Location] /\ memory[Location] \in Bytes
    BY <1>2, <1>3 DEF IOInv, MemoryKept, Fetched
<1>5. ASSUME NEW b \in Blocks, NEW i \in Positions
      PROVE  view'[b][i] = IF b = block /\ i = pos THEN memory[Location] ELSE view[b][i]
    BY <1>1, <1>2, <1>3 DEF Contents, Data
<1>6. view' \in Contents
    <2>1. [view[block] EXCEPT ![pos] = memory[Location]] \in Data
        BY <1>2, <1>3, <1>4 DEF Contents, Data
    <2> QED BY <1>1, <1>2, <1>3, <2>1 DEF Contents
<1>7. CallTyped'
    <2>1. pos' \in 0 .. BSIZE /\ done' \in 0 .. MemSize
        BY <1>1, <1>2, CallFields DEF Positions
    <2> QED BY <1>1, <1>2, <1>6, <2>1 DEF IOInv, CallTyped, TypeOK, Contents
<1>8. Shared'
    BY <1>1, <1>2, <1>3 DEF IOInv, Shared, Contents
<1>9. Contained'
    <2> SUFFICES ASSUME NEW b \in Blocks, NEW i \in Positions
                 PROVE  /\ view'[b][i] = Moved(b, i, done)'
                        /\ stable'[b][i] = Moved(b, i, Saved)'
        BY DEF Contained
    <2>1. view[b][i] = Moved(b, i, done) /\ stable[b][i] = Moved(b, i, Saved)
        BY <1>2 DEF IOInv, Contained
    <2>2. Saved' = Saved
        BY <1>1, SameCall DEF Saved
    <2>3. Moved(b, i, Saved)' = Moved(b, i, Saved)
        BY <1>1, <2>2, SameCall DEF Moved
    <2>4. b \in Nat /\ block \in Nat /\ b * BSIZE + i \in Nat
        BY <1>2, Joined DEF Blocks, Positions
    <2> DEFINE a == b * BSIZE + i
    <2>5. /\ Moved(b, i, done) = IF Start <= a /\ a < Start + done
                                 THEN before.memory[call.memoryLocation + (a - Start)]
                                 ELSE before.disk[b][i]
          /\ Moved(b, i, done)' = IF Start <= a /\ a < Start + (done + 1)
                                  THEN before.memory[call.memoryLocation + (a - Start)]
                                  ELSE before.disk[b][i]
        <3>1. Start' = Start
            BY <1>1, SameCall
        <3>2. Moved(b, i, done) = IF call.write /\ Start <= a /\ a < Start + done
                                  THEN before.memory[call.memoryLocation + (a - Start)]
                                  ELSE before.disk[b][i]
            BY DEF Moved, a
        <3>3. Moved(b, i, done)' = IF call'.write /\ Start' <= a /\ a < Start' + done'
                                   THEN before'.memory[call'.memoryLocation + (a - Start')]
                                   ELSE before'.disk[b][i]
            BY DEF Moved, a
        <3> HIDE DEF a
        <3> QED BY <1>1, <3>1, <3>2, <3>3
    <2>6. a = Start + done <=> b = block /\ i = pos
        <3>1. block * BSIZE + pos = Start + done
            BY <1>2
        <3>2. a = block * BSIZE + pos => b = block /\ i = pos
            BY <1>2, <2>4, Apart
        <3> QED BY <3>1, <3>2
    <2>7. a \in Nat
        BY <2>4
    <2> HIDE DEF a
    <2>8. CASE a = Start + done
        <3>1. call.memoryLocation + (a - Start) = Location /\ Start <= a /\ a < Start + (done + 1)
            BY <1>2, <2>7, <2>8
        <3>2. Moved(b, i, done)' = memory[Location]
            BY <1>4, <2>5, <3>1
        <3>3. view'[b][i] = memory[Location]
            BY <1>5, <2>6, <2>8
        <3> QED BY <1>1, <2>1, <2>3, <3>2, <3>3
    <2>9. CASE a # Start + done
        <3>1. a < Start + (done + 1) <=> a < Start + done
            BY <1>2, <2>7, <2>9
        <3>2. Moved(b, i, done)' = Moved(b, i, done)
            BY <2>5, <3>1
        <3>3. view'[b][i] = view[b][i]
            BY <1>5, <2>6, <2>9
        <3> QED BY <1>1, <2>1, <2>3, <3>2, <3>3
    <2> QED BY <2>8, <2>9
<1>10. MemoryKept'
    <2> SUFFICES ASSUME NEW l \in Locations PROVE memory'[l] = Fetched(l)'
        BY DEF MemoryKept
    <2> QED BY <1>1, <1>2 DEF IOInv, MemoryKept, Fetched
<1> QED BY <1>7, <1>8, <1>9, <1>10, OneByteOn DEF IOInv

LEMMA CopyReadIO == ASSUME IOInv, CopyByte, ~call.write PROVE IOInv'
<1>1. /\ pc = "copy" /\ More /\ pos # BSIZE
      /\ pos' = pos + 1 /\ done' = done + 1
      /\ memory' = [memory EXCEPT ![Location] = view[block][pos]]
      /\ pc' = pc /\ call' = call /\ block' = block /\ before' = before
      /\ view' = view /\ stable' = stable /\ open' = open /\ errorOccurred' = errorOccurred
    BY DEF CopyByte, Running, store
<1>2. /\ call # NoCall /\ call \in Calls /\ call.nBytes \in Nat /\ call.memoryLocation \in Nat
      /\ done < call.nBytes /\ Start \in Nat /\ done \in Nat
      /\ block \in Blocks /\ pos \in Positions /\ block * BSIZE + pos = Start + done
      /\ Location \in Locations /\ Location = call.memoryLocation + done
    BY <1>1, NextByte
<1>3. view \in Contents /\ memory \in [Locations -> Bytes]
    BY DEF IOInv, CallTyped, TypeOK, Contents
<1>4. memory' \in [Locations -> Bytes]
    <2>1. view[block][pos] \in Bytes
        BY <1>2, <1>3 DEF Contents, Data
    <2> QED BY <1>1, <1>2, <1>3, <2>1
<1>5. CallTyped'
    <2>1. pos' \in 0 .. BSIZE /\ done' \in 0 .. MemSize
        BY <1>1, <1>2, CallFields DEF Positions
    <2> QED BY <1>1, <1>2, <1>4, <2>1 DEF IOInv, CallTyped, TypeOK
<1>6. Shared'
    BY <1>1, <1>2 DEF IOInv, Shared
<1>7. Contained'
    <2> SUFFICES ASSUME NEW b \in Blocks, NEW i \in Positions
                 PROVE  /\ view'[b][i] = Moved(b, i, done)'
                        /\ stable'[b][i] = Moved(b, i, Saved)'
        BY DEF Contained
    <2>1. view[b][i] = Moved(b, i, done) /\ stable[b][i] = Moved(b, i, Saved)
        BY <1>2 DEF IOInv, Contained
    <2>2. Moved(b, i, done) = before.disk[b][i] /\ Moved(b, i, Saved) = before.disk[b][i]
        BY DEF Moved
    <2>3. Moved(b, i, done)' = before.disk[b][i] /\ Moved(b, i, Saved)' = before.disk[b][i]
        BY <1>1 DEF Moved
    <2> QED BY <1>1, <2>1, <2>2, <2>3
<1>8. MemoryKept'
    <2> SUFFICES ASSUME NEW l \in Locations PROVE memory'[l] = Fetched(l)'
        BY DEF MemoryKept
    <2> DEFINE flat == Flat(before.disk)
    <2>1. /\ Fetched(l) = IF call.memoryLocation <= l /\ l < call.memoryLocation + done
                          THEN flat[Start + (l - call.memoryLocation)]
                          ELSE before.memory[l]
          /\ Fetched(l)' = IF call.memoryLocation <= l /\ l < call.memoryLocation + (done + 1)
                           THEN flat[Start + (l - call.memoryLocation)]
                           ELSE before.memory[l]
        <3>1. Start' = Start
            BY <1>1, SameCall
        <3> QED BY <1>1, <3>1 DEF Fetched, Flat
    <2>2. flat[Start + done] = view[block][pos]
        <3>1. flat[Start + done] = before.disk[block][pos]
            BY <1>2, FlatAt
        <3>2. view[block][pos] = before.disk[block][pos]
            BY <1>2 DEF IOInv, Contained, Moved
        <3> QED BY <3>1, <3>2
    <2>3. memory[l] = Fetched(l) /\ l \in Nat
        BY <1>2 DEF IOInv, MemoryKept, Locations
    <2> HIDE DEF flat
    <2>4. CASE l = Location
        <3>1. Fetched(l)' = flat[Start + (l - call.memoryLocation)] /\ l - call.memoryLocation = done
            BY <1>2, <2>1, <2>3, <2>4
        <3>2. memory'[l] = view[block][pos]
            BY <1>1, <1>2, <1>3, <2>4
        <3> QED BY <2>2, <3>1, <3>2
    <2>5. CASE l # Location
        <3>1. l < call.memoryLocation + (done + 1) <=> l < call.memoryLocation + done
            BY <1>2, <2>3, <2>5
        <3>2. memory'[l] = memory[l]
            BY <1>1, <1>2, <1>3, <2>5
        <3> QED BY <2>1, <2>3, <3>1, <3>2
    <2> QED BY <2>4, <2>5
<1> QED BY <1>5, <1>6, <1>7, <1>8, OneByteOn DEF IOInv

LEMMA ProgressIO == ASSUME IOInv, Progress PROVE IOInv'
<1>1. CASE CopyByte
    BY <1>1, CopyWriteIO, CopyReadIO
<1> QED BY <1>1, OpenIO, OpenBeyondDiskIO, CopyUnmappedIO, EndOfBlockIO, SaveIO, ReleaseIO
        DEF Progress

(***************************************************************************)
(* What the invariant says of a call that is over or not.                  *)
(***************************************************************************)
LEMMA SavedPart ==
    ASSUME IOInv, call # NoCall
    PROVE  /\ Saved \in 0 .. done
           /\ Flat(stable) = [a \in Addresses |-> Moved(a \div BSIZE, a % BSIZE, Saved)]
<1>1. /\ Start \in Nat /\ block * BSIZE \in Nat /\ pos \in Nat /\ done \in Nat
      /\ block * BSIZE + pos = Start + done
    BY InCall DEF IOInv, Progressing
<1>2. Saved \in 0 .. done
    BY <1>1 DEF Saved
<1>3. ASSUME NEW a \in Addresses
      PROVE  stable[a \div BSIZE][a % BSIZE] = Moved(a \div BSIZE, a % BSIZE, Saved)
    <2>1. a \div BSIZE \in Blocks /\ a % BSIZE \in Positions
        BY Split
    <2> QED BY <2>1 DEF IOInv, Contained
<1> QED BY <1>2, <1>3 DEF Flat

LEMMA MovedIsOverwritten ==
    ASSUME IOInv, call # NoCall, call.write, NEW c \in Nat
    PROVE  [a \in Addresses |-> Moved(a \div BSIZE, a % BSIZE, c)]
              = Overwritten(Flat(before.disk), c)
<1>1. Start \in Nat /\ call.memoryLocation \in Nat
    BY InCall, CallFields DEF IOInv
<1>2. ASSUME NEW a \in Addresses
      PROVE  Moved(a \div BSIZE, a % BSIZE, c)
                = IF Start <= a /\ a < Start + c
                  THEN before.memory[call.memoryLocation + a - Start]
                  ELSE Flat(before.disk)[a]
    <2> DEFINE b == a \div BSIZE
               i == a % BSIZE
    <2>1. b * BSIZE + i = a
        BY Split
    <2>2. Flat(before.disk)[a] = before.disk[b][i]
        BY DEF Flat
    <2>3. a \in Nat
        BY Products DEF Addresses
    <2> HIDE DEF b, i
    <2>4. Moved(b, i, c) = IF Start <= a /\ a < Start + c
                           THEN before.memory[call.memoryLocation + (a - Start)]
                           ELSE before.disk[b][i]
        BY <2>1 DEF Moved
    <2>5. Moved(b, i, c) = IF Start <= a /\ a < Start + c
                           THEN before.memory[call.memoryLocation + a - Start]
                           ELSE Flat(before.disk)[a]
        BY <2>2, <2>4
    <2> QED BY <2>5 DEF b, i
<1> HIDE DEF Start
<1> QED BY <1>2 DEF Overwritten

(* A call that only reads leaves the disk as it was. *)
LEMMA ReadsOnly ==
    ASSUME IOInv, call # NoCall, ~call.write
    PROVE  stable = before.disk
<1>1. stable \in Contents /\ before.disk \in Contents
    BY InCall DEF IOInv, CallTyped, TypeOK, Contents
<1>2. ASSUME NEW b \in Blocks PROVE stable[b] = before.disk[b]
    <2>1. stable[b] \in Data /\ before.disk[b] \in Data
        BY <1>1 DEF Contents
    <2>2. ASSUME NEW i \in Positions PROVE stable[b][i] = before.disk[b][i]
        BY DEF IOInv, Contained, Moved
    <2> QED BY <2>1, <2>2 DEF Data
<1> QED BY <1>1, <1>2 DEF Contents

LEMMA PrefixesHold == IOInv => WritesArePrefixes
<1> SUFFICES ASSUME IOInv, call # NoCall
             PROVE  IF call.write
                    THEN \E c \in 0 .. done : Flat(stable) = Overwritten(Flat(before.disk), c)
                    ELSE stable = before.disk
    BY DEF WritesArePrefixes
<1>1. CASE call.write
    <2>1. Saved \in 0 .. done /\ Saved \in Nat
        BY SavedPart, InCall DEF IOInv
    <2>2. Flat(stable) = Overwritten(Flat(before.disk), Saved)
        BY <1>1, <2>1, SavedPart, MovedIsOverwritten
    <2> QED BY <1>1, <2>1, <2>2
<1> QED BY <1>1, ReadsOnly

LEMMA ExactlyHolds == IOInv => MovedExactly
<1> SUFFICES ASSUME IOInv, pc = "idle", call # NoCall
             PROVE  IF call.write
                    THEN /\ Flat(stable) = Overwritten(Flat(before.disk), call.nBytes)
                         /\ memory = before.memory
                    ELSE /\ stable = before.disk
                         /\ memory = [l \in Locations |->
                                        IF call.memoryLocation <= l
                                           /\ l < call.memoryLocation + call.nBytes
                                        THEN Flat(before.disk)[Start + l - call.memoryLocation]
                                        ELSE before.memory[l]]
    BY DEF MovedExactly
<1>1. done = call.nBytes /\ done \in Nat /\ Start \in Nat /\ call.memoryLocation \in Nat
    BY InCall, CallFields DEF IOInv, Progressing
<1>2. memory \in [Locations -> Bytes] /\ before.memory \in [Locations -> Bytes]
    BY InCall DEF IOInv, CallTyped, TypeOK
<1>3. CASE call.write
    <2>1. Saved = call.nBytes
        BY <1>1 DEF Saved
    <2>2. Flat(stable) = Overwritten(Flat(before.disk), call.nBytes)
        BY <1>1, <1>3, <2>1, SavedPart, MovedIsOverwritten
    <2>3. ASSUME NEW l \in Locations PROVE memory[l] = before.memory[l]
        BY <1>3 DEF IOInv, MemoryKept, Fetched
    <2>4. memory = before.memory
        BY <1>2, <2>3
    <2> QED BY <1>3, <2>2, <2>4
<1>4. CASE ~call.write
    <2> DEFINE flat == Flat(before.disk)
    <2>1. ASSUME NEW l \in Locations
          PROVE  memory[l] = IF call.memoryLocation <= l /\ l < call.memoryLocation + call.nBytes
                             THEN flat[Start + l - call.memoryLocation]
                             ELSE before.memory[l]
        <3>1. l \in Nat
            BY DEF Locations
        <3>2. Start + (l - call.memoryLocation) = Start + l - call.memoryLocation
            BY <1>1, <3>1
        <3>3. memory[l] = Fetched(l)
            BY DEF IOInv, MemoryKept
        <3>4. Fetched(l) = IF call.memoryLocation <= l /\ l < call.memoryLocation + call.nBytes
                           THEN flat[Start + (l - call.memoryLocation)]
                           ELSE before.memory[l]
            BY <1>1, <1>4 DEF Fetched
        <3> QED BY <3>2, <3>3, <3>4
    <2> HIDE DEF flat
    <2>2. memory = [l \in Locations |->
                      IF call.memoryLocation <= l /\ l < call.memoryLocation + call.nBytes
                      THEN flat[Start + l - call.memoryLocation]
                      ELSE before.memory[l]]
        BY <1>2, <2>1
    <2> QED BY <1>4, <2>2, ReadsOnly DEF flat
<1> QED BY <1>3, <1>4

LEMMA RefusalsHold == IOInv => RefusesExactlyImpossible
<1> SUFFICES ASSUME IOInv, call # NoCall
             PROVE  /\ errorOccurred => Impossible
                    /\ pc = "idle" /\ ~errorOccurred => ~Impossible
    BY DEF RefusesExactlyImpossible, Running
<1>1. errorOccurred => Impossible
    BY DEF IOInv, Progressing
<1>2. ASSUME pc = "idle" PROVE ~Impossible
    <2>1. /\ Start \in Nat /\ block \in Nat /\ block * BSIZE \in Nat /\ pos \in Nat
          /\ pos <= BSIZE /\ call.block \in Nat /\ call.nBytes \in Nat
        BY InCall, CallFields DEF IOInv
    <2>2. /\ block * BSIZE + pos = Start + call.nBytes /\ call.block <= block
          /\ block < DISKSIZE /\ done = call.nBytes
        BY <1>2 DEF IOInv, Progressing
    <2>3. block * BSIZE + BSIZE <= DISKSIZE * BSIZE /\ DISKSIZE * BSIZE \in Nat
        BY <2>1, <2>2, Products
    <2>4. ~(call.block >= DISKSIZE)
        BY <2>1, <2>2
    <2>5. ~(Start + call.nBytes > DISKSIZE * BSIZE)
        BY <2>1, <2>2, <2>3
    <2>6. ~(call.virtual /\ \E i \in 1 .. call.nBytes : call.memoryLocation + i - 1 \in Unmapped)
        BY <2>2 DEF IOInv, Progressing
    <2> QED BY <2>4, <2>5, <2>6 DEF Impossible
<1> QED BY <1>1, <1>2

-----------------------------------------------------------------------------
(***************************************************************************)
(* The log.                                                                *)
(***************************************************************************)
LEMMA LogNumbers ==
    ASSUME LogInv
    PROVE  /\ LOGSTART \in Nat /\ LOGSTART < DISKSIZE /\ LOGSTART * BSIZE \in Nat
           /\ Len(logged) \in Nat /\ block_no \in Nat /\ off \in Nat
           /\ block_no * BSIZE \in Nat
<1>1. LOGSTART \in Nat /\ LOGSTART < DISKSIZE
    BY DEF Blocks
<1>2. block_no \in Nat /\ off \in Nat
    BY <1>1 DEF LogInv, LogTyped
<1>3. logged \in Seq(Bytes)
    BY DEF LogInv, LogTyped
<1> QED BY <1>1, <1>2, <1>3, Products, LenProperties

(* What has been saved of the last string stands behind the others. *)
LEMMA DiskHasLog ==
    ASSUME LogInv, logCalls > 0, NEW b \in Blocks, NEW i \in Positions
    PROVE  stable[b][i] = LogByte(b, i, Len(logged) - call.nBytes + Saved)
<1> DEFINE a == b * BSIZE + i
           ls == LOGSTART * BSIZE
           len == Len(logged)
           n == call.nBytes
           saved == Saved
<1>1. call # NoCall /\ call.write /\ n <= len /\ Start + n = ls + len
    BY DEF LogInv, InLog
<1>2. n \in Nat /\ len \in Nat /\ ls \in Nat /\ Start \in Nat /\ call.memoryLocation \in Nat
    <2>1. call \in Calls /\ Start \in Nat
        BY <1>1, InCall DEF LogInv, IOInv
    <2>2. call.nBytes \in Nat /\ call.memoryLocation \in Nat
        BY <2>1, CallFields
    <2> QED BY <2>1, <2>2, LogNumbers
<1>3. a \in Nat
    BY Joined, Products DEF Positions, Blocks
<1>4. saved \in 0 .. n
    <2>1. saved \in 0 .. done /\ done <= n /\ done \in Nat
        BY <1>1, SavedPart, InCall DEF LogInv, IOInv, Progressing
    <2> QED BY <1>2, <2>1
<1>5. stable[b][i] = IF Start <= a /\ a < Start + saved
                     THEN before.memory[call.memoryLocation + (a - Start)]
                     ELSE before.disk[b][i]
    BY <1>1 DEF LogInv, IOInv, Contained, Moved
<1>6. before.disk[b][i] = IF ls <= a /\ a < ls + (len - n)
                          THEN logged[(a - ls) + 1] ELSE atBoot[b][i]
    BY DEF LogInv, InLog, LogByte
<1>7. LogByte(b, i, len - n + saved) = IF ls <= a /\ a < ls + (len - n + saved)
                                       THEN logged[(a - ls) + 1] ELSE atBoot[b][i]
    BY DEF LogByte
<1>8. \A k \in 0 .. n - 1 : before.memory[call.memoryLocation + k] = logged[len - n + k + 1]
    BY DEF LogInv, InLog
<1> HIDE DEF a, ls, len, n, saved, Start
<1>9. CASE Start <= a /\ a < Start + saved
    <2>1. a - Start \in 0 .. n - 1
        BY <1>2, <1>3, <1>4, <1>9
    <2>2. len - n + (a - Start) + 1 = (a - ls) + 1
        BY <1>1, <1>2, <1>3
    <2>3. stable[b][i] = logged[(a - ls) + 1]
        BY <1>5, <1>8, <1>9, <2>1, <2>2
    <2>4. ls <= a /\ a < ls + (len - n + saved)
        BY <1>1, <1>2, <1>3, <1>4, <1>9
    <2>5. stable[b][i] = LogByte(b, i, len - n + saved)
        BY <1>7, <2>3, <2>4
    <2> QED BY <2>5 DEF len, n, saved
<1>10. CASE ~(Start <= a /\ a < Start + saved)
    <2>1. (ls <= a /\ a < ls + (len - n + saved)) <=> (ls <= a /\ a < ls + (len - n))
        BY <1>1, <1>2, <1>3, <1>4, <1>10
    <2>2. stable[b][i] = LogByte(b, i, len - n + saved)
        BY <1>5, <1>6, <1>7, <1>10, <2>1
    <2> QED BY <2>2 DEF len, n, saved
<1> QED BY <1>9, <1>10

(* Between two calls all of it is there, and the position is behind it. *)
LEMMA LogIsThere ==
    ASSUME LogInv, pc = "idle", call = NoCall \/ logCalls > 0
    PROVE  /\ block_no < DISKSIZE
           /\ block_no * BSIZE + off = LOGSTART * BSIZE + Len(logged)
           /\ \A b \in Blocks, i \in Positions : stable[b][i] = LogByte(b, i, Len(logged))
<1>1. CASE logCalls = 0
    <2>1. block_no = LOGSTART /\ off = 0 /\ logged = <<>> /\ atBoot = stable
        BY <1>1 DEF LogInv, Position0
    <2>2. Len(logged) = 0
        BY <2>1
    <2>3. ASSUME NEW b \in Blocks, NEW i \in Positions
          PROVE  stable[b][i] = LogByte(b, i, Len(logged))
        <3>1. b * BSIZE + i \in Nat
            BY Joined DEF Positions
        <3>2. ~(LOGSTART * BSIZE <= b * BSIZE + i /\ b * BSIZE + i < LOGSTART * BSIZE + Len(logged))
            BY <2>2, <3>1, LogNumbers
        <3> QED BY <2>1, <3>2 DEF LogByte
    <2> QED BY <2>1, <2>2, <2>3, LogNumbers
<1>2. CASE logCalls > 0
    <2>1. /\ call # NoCall /\ block_no = block /\ off = pos
          /\ Start + call.nBytes = LOGSTART * BSIZE + Len(logged)
        BY <1>2 DEF LogInv, InLog
    <2>2. /\ block * BSIZE + pos = Start + done /\ done = call.nBytes /\ block < DISKSIZE
          /\ Saved = done
        BY <2>1 DEF LogInv, IOInv, Progressing, Saved
    <2>3. call.nBytes \in Nat
        BY <2>1, InCall, CallFields DEF LogInv, IOInv
    <2>4. Len(logged) - call.nBytes + Saved = Len(logged)
        BY <2>2, <2>3, LogNumbers
    <2>5. ASSUME NEW b \in Blocks, NEW i \in Positions
          PROVE  stable[b][i] = LogByte(b, i, Len(logged))
        BY <1>2, <2>4, DiskHasLog
    <2> QED BY <2>1, <2>2, <2>5
<1>3. logCalls = 0 \/ logCalls > 0
    BY DEF LogInv, LogTyped
<1> QED BY <1>1, <1>2, <1>3

LEMMA InitLog == LogInit => LogInv
<1> SUFFICES ASSUME LogInit PROVE LogInv
    OBVIOUS
<1>1. IOInv
    BY InitIO DEF LogInit
<1>2. LOGSTART \in LOGSTART .. DISKSIZE /\ stable \in Contents
    BY <1>1 DEF Blocks, IOInv, CallTyped, TypeOK, Contents
<1>3. LogTyped
    BY <1>2 DEF LogInit, LogDataInit, LogTyped
<1> QED BY <1>1, <1>3 DEF LogInit, LogDataInit, LogInv, Position0, InLog

LEMMA StepLog == ASSUME LogInv, Step PROVE LogInv'
<1>1. /\ Progress /\ logged' = logged /\ logCalls' = logCalls /\ atBoot' = atBoot
      /\ logCalls > 0 => block_no' = block' /\ off' = pos'
      /\ ~(logCalls > 0) => block_no' = block_no /\ off' = off
    BY DEF Step
<1>2. pc # "idle" /\ call' = call /\ before' = before
    BY <1>1 DEF Progress, Open, OpenBeyondDisk, CopyByte, CopyUnmapped, EndOfBlock, Save,
                Release, Running
<1>3. call # NoCall
    BY <1>2 DEF LogInv, IOInv, CallTyped
<1>4. IOInv'
    BY <1>1, ProgressIO DEF LogInv
<1>5. LogTyped'
    <2>1. CASE logCalls > 0
        <3>1. LOGSTART <= call.block /\ call.block \in Nat
            BY <1>3, <2>1, InCall, CallFields DEF LogInv, IOInv, InLog
        <3>2. call.block <= block' /\ block' \in 0 .. DISKSIZE /\ pos' \in 0 .. BSIZE
            BY <1>2, <1>3, <1>4 DEF IOInv, Progressing, CallTyped, TypeOK
        <3>3. block' \in LOGSTART .. DISKSIZE
            BY <3>1, <3>2, LogNumbers
        <3> QED BY <1>1, <2>1, <3>2, <3>3 DEF LogInv, LogTyped
    <2>2. CASE ~(logCalls > 0)
        BY <1>1, <2>2 DEF LogInv, LogTyped
    <2> QED BY <2>1, <2>2
<1>6. Position0'
    <2>1. logCalls \in Nat
        BY DEF LogInv, LogTyped
    <2> QED BY <1>1, <1>2, <1>3, <2>1 DEF LogInv, Position0
<1>7. InLog'
    <2>1. Start' = Start
        BY <1>2, SameCall
    <2>2. ASSUME NEW b, NEW i
          PROVE  LogByte(b, i, Len(logged) - call.nBytes)' = LogByte(b, i, Len(logged) - call.nBytes)
        BY <1>1, <1>2 DEF LogByte
    <2> HIDE DEF Start
    <2> QED BY <1>1, <1>2, <2>1, <2>2 DEF LogInv, InLog
<1> QED BY <1>4, <1>5, <1>6, <1>7 DEF LogInv

LEMMA OtherCallLog == ASSUME LogInv, NEW c \in Calls, OtherCall(c) PROVE LogInv'
<1>1. /\ Begin(c) /\ call = NoCall /\ call' = c /\ call' # NoCall
      /\ block_no' = block_no /\ off' = off /\ logged' = logged /\ logCalls' = logCalls
      /\ atBoot' = atBoot
    BY CallFields DEF OtherCall, Call, Begin, logVars
<1>2. IOInv'
    BY <1>1, BeginIO DEF LogInv
<1>3. logCalls = 0
    BY <1>1 DEF LogInv, InLog, LogTyped
<1>4. LogTyped' /\ Position0' /\ InLog'
    BY <1>1, <1>3 DEF LogInv, LogTyped, Position0, InLog
<1> QED BY <1>2, <1>4 DEF LogInv

LEMMA RebootLog == ASSUME LogInv, Reboot PROVE LogInv'
<1>1. /\ view' = stable /\ stable' = stable /\ open' = [u \in {"caller"} |-> NoBlock]
      /\ memory' = BootMemory /\ pc' = "idle" /\ call' = NoCall
      /\ block' = 0 /\ pos' = 0 /\ done' = 0 /\ errorOccurred' = FALSE
      /\ block_no' = LOGSTART /\ off' = 0 /\ logged' = <<>> /\ logCalls' = 0
      /\ atBoot' = stable
    BY DEF Reboot
<1>2. stable \in Contents
    BY DEF LogInv, IOInv, CallTyped, TypeOK, Contents
<1>3. CallTyped'
    <2>1. open' \in [{"caller"} -> Blocks \cup {NoBlock}] /\ open'["caller"] = NoBlock
        BY <1>1
    <2>2. block' \in 0 .. DISKSIZE /\ pos' \in 0 .. BSIZE /\ done' \in 0 .. MemSize
        BY <1>1
    <2>3. memory' \in [Locations -> Bytes]
        BY <1>1, BootMemoryTyped
    <2>4. TypeOK'
        BY <1>1, <1>2, <2>1, <2>2, <2>3 DEF TypeOK, Contents
    <2> QED BY <1>1, <2>1, <2>4 DEF CallTyped
<1>4. IOInv'
    BY <1>1, <1>3 DEF IOInv, Progressing, Shared, Contained, MemoryKept
<1>5. LOGSTART \in LOGSTART .. DISKSIZE
    BY DEF Blocks
<1>6. LogTyped' /\ Position0' /\ InLog'
    BY <1>1, <1>2, <1>5 DEF LogTyped, Position0, InLog
<1> QED BY <1>4, <1>6 DEF LogInv

LEMMA LogDataLog ==
    ASSUME LogInv, NEW n \in LogLengths, NEW l \in 0 .. MemSize - n, LogData(l, n)
    PROVE  LogInv'
<1> DEFINE c == [write |-> TRUE, virtual |-> FALSE, block |-> block_no, offset |-> off,
                 nBytes |-> n, memoryLocation |-> l]
           str == [i \in 1 .. n |-> memory[l + i - 1]]
           len == Len(logged)
           ls == LOGSTART * BSIZE
<1>1. /\ (call = NoCall \/ logCalls > 0) /\ logCalls' = logCalls + 1 /\ Begin(c)
      /\ logged' = logged \o str
      /\ block_no' = block_no /\ off' = off /\ atBoot' = atBoot
    BY DEF LogData
<1>2. n \in Nat /\ l \in Nat /\ l + n <= MemSize
    OBVIOUS
<1>3. LogTyped
    BY DEF LogInv
<1>4. c \in Calls
    <2>1. block_no \in 0 .. DISKSIZE /\ off \in 0 .. BSIZE /\ n \in 0 .. MemSize /\ l \in 0 .. MemSize
        BY <1>2, <1>3, LogNumbers DEF LogTyped
    <2> QED BY <1>2, <2>1 DEF Calls
<1>5. /\ c.write /\ ~c.virtual /\ c.block = block_no /\ c.offset = off /\ c.nBytes = n
      /\ c.memoryLocation = l /\ c # NoCall
    BY <1>4, CallFields
<1> HIDE DEF c
<1>6. IOInv'
    BY <1>1, <1>4, BeginIO DEF LogInv
<1>7. /\ pc = "idle" /\ call' = c /\ block' = block_no /\ pos' = off
      /\ before' = [disk |-> stable, memory |-> memory]
    BY <1>1, <1>5 DEF Begin, Running
<1>8. /\ block_no < DISKSIZE /\ block_no * BSIZE + off = ls + len
      /\ \A b \in Blocks, i \in Positions : stable[b][i] = LogByte(b, i, len)
    BY <1>1, <1>7, LogIsThere
<1>9. str \in Seq(Bytes) /\ Len(str) = n
    <2>1. ASSUME NEW i \in 1 .. n PROVE memory[l + i - 1] \in Bytes
        <3>1. l + i - 1 \in Locations
            BY <1>2 DEF Locations
        <3> QED BY <3>1 DEF LogInv, IOInv, CallTyped, TypeOK
    <2>2. str \in [1 .. n -> Bytes]
        BY <2>1
    <2> HIDE DEF str
    <2> QED BY <1>2, <2>2
<1>10. \A i \in 1 .. n : str[i] = memory[l + i - 1]
    OBVIOUS
<1> HIDE DEF str
<1>11. /\ logged' \in Seq(Bytes) /\ Len(logged') = len + n /\ len \in Nat /\ ls \in Nat
       /\ \A j \in 1 .. len + n : logged'[j] = IF j <= len THEN logged[j] ELSE str[j - len]
    BY <1>1, <1>3, <1>9, ConcatProperties, LogNumbers DEF LogTyped
<1>12. LogTyped'
    BY <1>1, <1>3, <1>11 DEF LogTyped
<1>13. logCalls' > 0
    BY <1>1, <1>3 DEF LogTyped
<1>14. ASSUME NEW i \in 0 .. n - 1 PROVE memory[l + i] = logged'[len + i + 1]
    <2>1. i + 1 \in 1 .. n /\ l + (i + 1) - 1 = l + i
        BY <1>2
    <2>2. len + i + 1 \in 1 .. len + n /\ ~(len + i + 1 <= len) /\ (len + i + 1) - len = i + 1
        BY <1>2, <1>11
    <2> HIDE DEF len
    <2>3. logged'[len + i + 1] = str[i + 1]
        BY <1>11, <2>2
    <2> QED BY <1>10, <2>1, <2>3
<1>15. ASSUME NEW b \in Blocks, NEW i \in Positions 
       PROVE  stable[b][i] = IF ls <= b * BSIZE + i /\ b * BSIZE + i < ls + len
                             THEN logged'[((b * BSIZE + i) - ls) + 1]
                             ELSE atBoot'[b][i]
    <2> DEFINE a == b * BSIZE + i
    <2>1. stable[b][i] = IF ls <= a /\ a < ls + len THEN logged[(a - ls) + 1] ELSE atBoot[b][i]
        BY <1>8 DEF LogByte
    <2>2. a \in Nat
        BY Joined DEF Positions
    <2> HIDE DEF a, len, ls
    <2>3. ASSUME ls <= a, a < ls + len PROVE logged'[(a - ls) + 1] = logged[(a - ls) + 1]
        <3>1. (a - ls) + 1 \in 1 .. len + n /\ (a - ls) + 1 <= len
            BY <1>2, <1>11, <2>2, <2>3
        <3> QED BY <1>11, <3>1
    <2>4. stable[b][i] = IF ls <= a /\ a < ls + len THEN logged'[(a - ls) + 1] ELSE atBoot'[b][i]
        BY <1>1, <2>1, <2>3
    <2> QED BY <2>4 DEF a
<1>16. /\ Len(logged') - call'.nBytes = len /\ call'.nBytes = n /\ call'.memoryLocation = l
       /\ before'.disk = stable /\ before'.memory = memory
    BY <1>2, <1>5, <1>7, <1>11
<1>17. Start' = ls + len
    BY <1>5, <1>7, <1>8 DEF Start
<1>18. InLog'
    <2>1. /\ call' # NoCall /\ call'.write /\ ~call'.virtual /\ block_no' = block' /\ off' = pos'
          /\ LOGSTART <= call'.block /\ call'.block < DISKSIZE
        BY <1>1, <1>3, <1>5, <1>7, <1>8 DEF LogTyped
    <2>2. call'.nBytes <= Len(logged') /\ Start' + call'.nBytes = ls + Len(logged')
        BY <1>2, <1>11, <1>16, <1>17
    <2>3. ASSUME NEW i \in 0 .. call'.nBytes - 1
          PROVE  before'.memory[call'.memoryLocation + i]
                    = logged'[Len(logged') - call'.nBytes + i + 1]
        BY <1>14, <1>16
    <2>4. ASSUME NEW b \in Blocks, NEW i \in Positions
          PROVE  before'.disk[b][i] = LogByte(b, i, Len(logged) - call.nBytes)'
        <3>1. LogByte(b, i, Len(logged) - call.nBytes)'
                 = IF ls <= b * BSIZE + i /\ b * BSIZE + i < ls + (Len(logged') - call'.nBytes)
                   THEN logged'[((b * BSIZE + i) - ls) + 1]
                   ELSE atBoot'[b][i]
            BY DEF LogByte
        <3> QED BY <1>15, <1>16, <3>1
    <2> QED BY <2>1, <2>2, <2>3, <2>4 DEF InLog
<1>19. Position0'
    BY <1>13 DEF Position0
<1> QED BY <1>6, <1>12, <1>18, <1>19 DEF LogInv

LEMMA LogInvariance == Spec => []LogInv
<1>1. LogInv /\ [Next]_<<vars, logVars>> => LogInv'
    <2> SUFFICES ASSUME LogInv, [Next]_<<vars, logVars>> PROVE LogInv'
        OBVIOUS
    <2>1. CASE UNCHANGED <<vars, logVars>>
        <3>1. /\ stable' = stable /\ view' = view /\ open' = open /\ memory' = memory /\ pc' = pc
              /\ call' = call /\ block' = block /\ pos' = pos /\ done' = done
              /\ errorOccurred' = errorOccurred /\ before' = before
              /\ block_no' = block_no /\ off' = off /\ logged' = logged /\ logCalls' = logCalls
              /\ atBoot' = atBoot
            BY <2>1 DEF vars, store, logVars
        <3>2. CallTyped'
            BY <3>1 DEF LogInv, IOInv, CallTyped, TypeOK
        <3>3. Progressing' /\ Shared'
            BY <3>1, SameCall DEF LogInv, IOInv, Progressing, Shared
        <3>4. Saved' = Saved /\ Start' = Start
            BY <3>1, SameCall DEF Saved
        <3>5. Contained' /\ MemoryKept'
            <4>1. CASE call # NoCall
                BY <3>1, <3>4, <4>1, NothingMoves DEF LogInv
            <4> QED BY <3>1, <4>1 DEF Contained, MemoryKept
        <3>6. LogTyped' /\ Position0'
            BY <3>1 DEF LogInv, LogTyped, Position0
        <3>7. InLog'
            BY <3>1, <3>4 DEF LogInv, InLog, LogByte
        <3> QED BY <3>2, <3>3, <3>5, <3>6, <3>7 DEF LogInv, IOInv
    <2> QED BY <2>1, LogDataLog, OtherCallLog, StepLog, RebootLog DEF Next
<1> QED BY <1>1, InitLog, PTL DEF Spec

LEMMA LogTypeHolds == LogInv => LogTypeOK
<1> SUFFICES ASSUME LogInv PROVE LogTypeOK
    OBVIOUS
<1>1. TypeOK /\ block_no \in LOGSTART .. DISKSIZE /\ off \in 0 .. BSIZE
    BY DEF LogInv, IOInv, CallTyped, LogTyped
<1>2. ASSUME Running("idle") PROVE (block_no - LOGSTART) * BSIZE + off = Len(logged)
    <2>1. block_no \in Nat /\ LOGSTART \in Nat /\ LOGSTART <= block_no
        BY <1>1, LogNumbers
    <2>2. (block_no - LOGSTART) * BSIZE = block_no * BSIZE - LOGSTART * BSIZE
        BY <2>1
    <2>3. block_no * BSIZE + off = LOGSTART * BSIZE + Len(logged)
        <3>1. CASE logCalls = 0
            <4>1. block_no = LOGSTART /\ off = 0 /\ logged = <<>>
                BY <3>1 DEF LogInv, Position0
            <4> QED BY <4>1
        <3>2. CASE logCalls > 0
            BY <1>2, <3>2, LogIsThere DEF Running
        <3> QED BY <3>1, <3>2 DEF LogInv, LogTyped
    <2>4. block_no * BSIZE \in Nat /\ LOGSTART * BSIZE \in Nat /\ off \in Nat /\ Len(logged) \in Nat
        BY LogNumbers
    <2> QED BY <2>2, <2>3, <2>4
<1> QED BY <1>1, <1>2 DEF LogTypeOK

LEMMA DurableHolds == LogInv => LogIsDurable
<1> SUFFICES ASSUME LogInv, logCalls > 0
             PROVE  \E c \in Len(logged) - (IF pc = "idle" THEN 0 ELSE call.nBytes) .. Len(logged) :
                       Flat(stable) = WithLog(c)
    BY DEF LogIsDurable
<1> DEFINE n == call.nBytes
           c == Len(logged) - n + Saved
<1>1. call # NoCall /\ n <= Len(logged)
    BY DEF LogInv, InLog
<1>2. n \in Nat /\ done \in Nat
    BY <1>1, InCall, CallFields DEF LogInv, IOInv
<1>3. Saved \in 0 .. done /\ done <= n /\ (pc = "idle" => Saved = n)
    BY <1>1, SavedPart DEF LogInv, IOInv, Progressing, Saved
<1>4. c \in Len(logged) - (IF pc = "idle" THEN 0 ELSE n) .. Len(logged)
    <2>1. Len(logged) \in Nat
        BY LogNumbers
    <2> HIDE DEF n
    <2>2. CASE pc = "idle"
        BY <1>2, <1>3, <2>1, <2>2
    <2>3. CASE pc # "idle"
        BY <1>1, <1>2, <1>3, <2>1, <2>3
    <2> QED BY <2>2, <2>3
<1>5. ASSUME NEW a \in Addresses
      PROVE  stable[a \div BSIZE][a % BSIZE]
                = IF LOGSTART * BSIZE <= a /\ a < LOGSTART * BSIZE + c
                  THEN logged[a - LOGSTART * BSIZE + 1] ELSE Flat(atBoot)[a]
    <2> DEFINE b == a \div BSIZE
               i == a % BSIZE
    <2>1. b \in Blocks /\ i \in Positions /\ b * BSIZE + i = a
        BY Split
    <2>2. Flat(atBoot)[a] = atBoot[b][i]
        BY DEF Flat
    <2>3. a \in Nat
        BY Products DEF Addresses
    <2> HIDE DEF b, i
    <2>4. stable[b][i] = LogByte(b, i, c)
        BY <2>1, DiskHasLog
    <2> HIDE DEF c
    <2>5. LogByte(b, i, c) = IF LOGSTART * BSIZE <= a /\ a < LOGSTART * BSIZE + c
                             THEN logged[(a - LOGSTART * BSIZE) + 1] ELSE atBoot[b][i]
        BY <2>1 DEF LogByte
    <2>6. stable[b][i] = IF LOGSTART * BSIZE <= a /\ a < LOGSTART * BSIZE + c
                         THEN logged[a - LOGSTART * BSIZE + 1] ELSE Flat(atBoot)[a]
        BY <2>2, <2>4, <2>5
    <2> QED BY <2>6 DEF b, i
<1>6. Flat(stable) = WithLog(c)
    <2> HIDE DEF c
    <2> QED BY <1>5 DEF Flat, WithLog
<1> HIDE DEF c
<1> QED BY <1>4, <1>6 DEF n

LEMMA OverflowHolds == LogInv => LogRefusesOverflowOnly
<1> SUFFICES ASSUME LogInv, logCalls > 0
             PROVE  /\ errorOccurred => Len(logged) > Capacity
                    /\ pc = "idle" /\ ~errorOccurred => Len(logged) <= Capacity
    BY DEF LogRefusesOverflowOnly, Running
<1>1. /\ call # NoCall /\ ~call.virtual /\ call.block < DISKSIZE
      /\ Start + call.nBytes = LOGSTART * BSIZE + Len(logged)
    BY DEF LogInv, InLog
<1>2. call.block \in Nat /\ DISKSIZE * BSIZE \in Nat
    BY <1>1, InCall, CallFields, Products DEF LogInv, IOInv
<1>3. Capacity = DISKSIZE * BSIZE - LOGSTART * BSIZE
    <2>1. LOGSTART \in Nat /\ LOGSTART < DISKSIZE
        BY LogNumbers
    <2> QED BY <2>1 DEF Capacity
<1>4. (Start + call.nBytes > DISKSIZE * BSIZE) <=> Len(logged) > Capacity
    <2> DEFINE first == LOGSTART * BSIZE
               last  == DISKSIZE * BSIZE
               stop  == Start + call.nBytes
    <2>1. /\ first \in Nat /\ last \in Nat /\ Len(logged) \in Nat
          /\ stop = first + Len(logged) /\ Capacity = last - first
        BY <1>1, <1>2, <1>3, LogNumbers
    <2> HIDE DEF first, last, stop
    <2>2. (stop > last) <=> Len(logged) > Capacity
        BY <2>1
    <2> QED BY <2>2 DEF last, stop
<1>5. Impossible <=> Start + call.nBytes > DISKSIZE * BSIZE
    BY <1>1, <1>2 DEF Impossible
<1>6. RefusesExactlyImpossible
    BY RefusalsHold DEF LogInv
<1>7. Capacity \in Int /\ Len(logged) \in Nat
    BY <1>2, <1>3, LogNumbers
<1> HIDE DEF Capacity
<1> QED BY <1>1, <1>4, <1>5, <1>6, <1>7 DEF RefusesExactlyImpossible, Running

LEMMA ExtractHolds == LogInv => ExtractsFirstBlock
<1> SUFFICES ASSUME LogInv, logCalls > 0, pc = "idle", NEW i \in Positions
             PROVE  Extracted[i] = IF i < Len(logged) THEN logged[i + 1] ELSE atBoot[LOGSTART][i]
    BY DEF ExtractsFirstBlock
<1>1. Extracted[i] = LogByte(LOGSTART, i, Len(logged))
    BY LogIsThere DEF Extracted
<1>2. i \in Nat /\ LOGSTART * BSIZE \in Nat /\ Len(logged) \in Nat
    BY LogNumbers DEF Positions
<1> DEFINE ls == LOGSTART * BSIZE
<1>3. LogByte(LOGSTART, i, Len(logged))
         = IF ls <= ls + i /\ ls + i < ls + Len(logged)
           THEN logged[((ls + i) - ls) + 1] ELSE atBoot[LOGSTART][i]
    BY DEF LogByte
<1> HIDE DEF ls
<1>4. ls \in Nat
    BY <1>2 DEF ls
<1>5. (ls <= ls + i /\ ls + i < ls + Len(logged) <=> i < Len(logged)) /\ ((ls + i) - ls) + 1 = i + 1
    BY <1>2, <1>4
<1> QED BY <1>1, <1>3, <1>5

(***************************************************************************)
(* The types, and where the log stands between two calls.                  *)
(***************************************************************************)
THEOREM LogTyping == Spec => []LogTypeOK
    BY LogInvariance, LogTypeHolds, PTL

(***************************************************************************)
(* readBytes and writeBytes, and logData with them, move their bytes to    *)
(* and from where a flat array would have them, across block boundaries.   *)
(***************************************************************************)
THEOREM TransfersAreExact == Spec => []MovedExactly
<1>1. LogInv => MovedExactly
    BY ExactlyHolds DEF LogInv
<1> QED BY <1>1, LogInvariance, PTL

(***************************************************************************)
(* Wherever a write stops, the disk has a prefix of its bytes.             *)
(***************************************************************************)
THEOREM WritesGrowInOrder == Spec => []WritesArePrefixes
<1>1. LogInv => WritesArePrefixes
    BY PrefixesHold DEF LogInv
<1> QED BY <1>1, LogInvariance, PTL

(***************************************************************************)
(* A transfer ends in error() exactly if it cannot be made.                *)
(***************************************************************************)
THEOREM RefusalsAreExact == Spec => []RefusesExactlyImpossible
<1>1. LogInv => RefusesExactlyImpossible
    BY RefusalsHold DEF LogInv
<1> QED BY <1>1, LogInvariance, PTL

(***************************************************************************)
(* Whenever the power goes, the strings logged since boot are on the disk  *)
(* one behind the other, the last one as far as it was saved.              *)
(***************************************************************************)
THEOREM LogSurvives == Spec => []LogIsDurable
    BY LogInvariance, DurableHolds, PTL

(***************************************************************************)
(* logData ends in error() exactly if the log outgrows its area.           *)
(***************************************************************************)
THEOREM LogUsesItsArea == Spec => []LogRefusesOverflowOnly
    BY LogInvariance, OverflowHolds, PTL

(***************************************************************************)
(* getLogInfo finds the beginning of this boot's log.                      *)
(***************************************************************************)
THEOREM ExtractedIsLog == Spec => []ExtractsFirstBlock
    BY LogInvariance, ExtractHolds, PTL
=============================================================================
