------------------------------- MODULE ByteIO -------------------------------
(***************************************************************************)
(* Reading and writing runs of bytes that may straddle blocks:             *)
(* readBytes, writeBytes and their variants with virtual addresses, in     *)
(* kernel/buffer.c.  They use the buffer cache through bread, bwrite and   *)
(* brelse only, so what they see of it is BlockStore, which BufferCache    *)
(* implements: one buffer is open at a time, saved and closed at the end   *)
(* of its block.  Module Log adds logData, which has the same loop.        *)
(*                                                                         *)
(* Each call of the cache is one step.  The disk is then known between any *)
(* two of them, where the machine may be switched off.                     *)
(***************************************************************************)
EXTENDS Naturals

CONSTANTS
    DISKSIZE,       \* blocks of the disk (1000 in declarations.h)
    BSIZE,          \* bytes of a block (1024)
    NoBlock,        \* no buffer is held
    NoCall,         \* before the first call
    MemSize,        \* bound: memory locations callers transfer to and from
    Unmapped        \* virtual locations without a physical page

ASSUME DisksizeAssumption == DISKSIZE \in Nat \ {0}
ASSUME BsizeAssumption == BSIZE \in Nat \ {0}
ASSUME MemSizeAssumption == MemSize \in Nat
ASSUME NoBlockAssumption == NoBlock \notin 0 .. DISKSIZE - 1

VARIABLES
    stable, view, open,     \* the store: disk, contents users see, open block
    memory,
    pc,             \* where the call is
    call,           \* its arguments
    block, pos,     \* diskBlockNum and nextBytePosToRead / ...ToWrite
    done,           \* bytesRead / bytesWritten
    errorOccurred,  \* the kernel is in the endless loop of error()
    before          \* history: disk and memory when it was called

store == <<stable, view, open>>
vars == <<store, memory, pc, call, block, pos, done, errorOccurred, before>>

Blocks    == 0 .. DISKSIZE - 1
Positions == 0 .. BSIZE - 1
Locations == 0 .. MemSize - 1
Addresses == 0 .. DISKSIZE * BSIZE - 1      \* the disk as one run of bytes

(* The code copies bytes and looks at none of them, so every place starts  *)
(* with a byte of its own.                                                 *)
Bytes == 0 .. DISKSIZE * BSIZE + MemSize - 1
Data  == [Positions -> Bytes]
BootMemory == [l \in Locations |-> DISKSIZE * BSIZE + l]

Store == INSTANCE BlockStore WITH
    Users <- {"caller"}, None <- NoBlock, Capacity <- 1, stopped <- errorOccurred

(* readBytes, writeBytes, readBytesVirtual, writeBytesVirtual.  Callers    *)
(* reduce the offset modulo BSIZE (logData may start just past a block);   *)
(* the block may be beyond the disk.                                       *)
Calls ==
    {c \in [write : BOOLEAN, virtual : BOOLEAN, block : 0 .. DISKSIZE,
            offset : 0 .. BSIZE, nBytes : 0 .. MemSize, memoryLocation : 0 .. MemSize] :
        c.memoryLocation + c.nBytes <= MemSize}

ASSUME NoCallAssumption == NoCall \notin Calls

Init ==
    /\ stable = [k \in Blocks |-> [i \in Positions |-> k * BSIZE + i]]
    /\ Store!Init
    /\ memory = BootMemory
    /\ pc = "idle"
    /\ call = NoCall
    /\ block = 0 /\ pos = 0 /\ done = 0
    /\ before = NoCall

Running(where) == pc = where /\ ~errorOccurred

-----------------------------------------------------------------------------
Begin(c) ==
    /\ Running("idle")
    /\ call' = c
    /\ block' = c.block /\ pos' = c.offset /\ done' = 0
    /\ before' = [disk |-> stable, memory |-> memory]
    /\ pc' = "open"
    /\ UNCHANGED <<store, memory, errorOccurred>>

(* Bound: one such call.  Nothing of it outlives it but the contents of    *)
(* disk and memory.                                                        *)
Call(c) == call = NoCall /\ c.offset # BSIZE /\ Begin(c)

(* Mutant of BlockInRange: off by one. *)
BlockBeforeLast(k) == k < DISKSIZE - 1

BlockInRange(k) == k < DISKSIZE

(* bread, after the check that the block is on the disk *)
Open ==
    /\ Running("open")
    /\ BlockInRange(block)
    /\ Store!Open("caller", block)
    /\ pc' = "copy"
    /\ UNCHANGED <<memory, call, block, pos, done, errorOccurred, before>>

OpenBeyondDisk ==
    /\ Running("open")
    /\ ~BlockInRange(block)
    /\ errorOccurred' = TRUE
    /\ UNCHANGED <<store, memory, pc, call, block, pos, done, before>>

More == done < call.nBytes

Location == call.memoryLocation + done

CopyByte ==
    /\ Running("copy") /\ More /\ pos # BSIZE
    /\ ~(call.virtual /\ Location \in Unmapped)
    /\ IF call.write
       THEN /\ Store!Change("caller", [view[block] EXCEPT ![pos] = memory[Location]])
            /\ UNCHANGED memory
       ELSE /\ memory' = [memory EXCEPT ![Location] = view[block][pos]]
            /\ UNCHANGED <<store, errorOccurred>>
    /\ pos' = pos + 1 /\ done' = done + 1
    /\ UNCHANGED <<pc, call, block, before>>

(* virtualToPhysical ends in error(), with the buffer held. *)
CopyUnmapped ==
    /\ Running("copy") /\ More /\ pos # BSIZE
    /\ call.virtual /\ Location \in Unmapped
    /\ errorOccurred' = TRUE
    /\ UNCHANGED <<store, memory, pc, call, block, pos, done, before>>

(* Mutant of Changed: the last block is released without bwrite. *)
ChangedAndMore == call.write /\ More

Changed == call.write

(* The block or the run of bytes is at its end. *)
EndOfBlock ==
    /\ Running("copy") /\ (pos = BSIZE \/ ~More)
    /\ pc' = IF Changed THEN "save" ELSE "release"
    /\ UNCHANGED <<store, memory, call, block, pos, done, errorOccurred, before>>

(* bwrite *)
Save ==
    /\ Running("save")
    /\ Store!Save("caller")
    /\ pc' = "release"
    /\ UNCHANGED <<memory, call, block, pos, done, errorOccurred, before>>

(* Mutant of Position: off by one. *)
PositionOne == 1

(* nextBytePosToRead / ...ToWrite in a new block *)
Position == 0

(* Mutant of Brelse: the buffer is not released after the last byte. *)
BrelseUnlessLast == IF More THEN Store!Close("caller") ELSE UNCHANGED <<store, errorOccurred>>

Brelse == Store!Close("caller")

(* On to the next block or back to the caller *)
Release ==
    /\ Running("release")
    /\ Brelse
    /\ IF More THEN pc' = "open" /\ block' = block + 1 /\ pos' = Position
               ELSE pc' = "idle" /\ UNCHANGED <<block, pos>>
    /\ UNCHANGED <<memory, call, done, before>>

Progress == Open \/ OpenBeyondDisk \/ CopyByte \/ CopyUnmapped \/ EndOfBlock \/ Save \/ Release

-----------------------------------------------------------------------------
(***************************************************************************)
(* The types, and the store's contract kept: the position is inside the    *)
(* block or just past it, and a buffer is held from bread to brelse only.  *)
(***************************************************************************)
TypeOK ==
    /\ stable \in [Blocks -> Data] /\ view \in [Blocks -> Data]
    /\ open["caller"] = IF pc \in {"copy", "save", "release"} THEN block ELSE NoBlock
    /\ memory \in [Locations -> Bytes]
    /\ pc \in {"idle", "open", "copy", "save", "release"}
    /\ call \in Calls \cup {NoCall}
    /\ block \in 0 .. DISKSIZE
    /\ pos \in 0 .. BSIZE
    /\ done \in 0 .. MemSize
    /\ errorOccurred \in BOOLEAN

(* The disk as one run of bytes, and a run of bytes with the first c of    *)
(* the call's bytes put into it.                                           *)
Flat(blocks) == [a \in Addresses |-> blocks[a \div BSIZE][a % BSIZE]]

Start == call.block * BSIZE + call.offset

Overwritten(flat, c) ==
    [a \in Addresses |-> IF Start <= a /\ a < Start + c
                         THEN before.memory[call.memoryLocation + a - Start]
                         ELSE flat[a]]

(***************************************************************************)
(* A call that returns has moved its bytes, those and no others, to and    *)
(* from the places a flat array of bytes would have them, across block     *)
(* boundaries, and what it wrote is on the disk.                           *)
(***************************************************************************)
MovedExactly ==
    pc = "idle" /\ call # NoCall =>
        IF call.write
        THEN /\ Flat(stable) = Overwritten(Flat(before.disk), call.nBytes)
             /\ memory = before.memory
        ELSE /\ stable = before.disk
             /\ memory = [l \in Locations |->
                            IF call.memoryLocation <= l /\ l < call.memoryLocation + call.nBytes
                            THEN Flat(before.disk)[Start + l - call.memoryLocation]
                            ELSE before.memory[l]]

(***************************************************************************)
(* At every moment of a write, also where it ends in error() or the power  *)
(* goes, the disk holds the old bytes with a prefix of the new ones: no    *)
(* byte of a later block is on the disk before one of an earlier block.    *)
(***************************************************************************)
WritesArePrefixes ==
    call # NoCall =>
        IF call.write
        THEN \E c \in 0 .. done : Flat(stable) = Overwritten(Flat(before.disk), c)
        ELSE stable = before.disk

(***************************************************************************)
(* A call ends in error() if its bytes do not fit on the disk or one of    *)
(* its virtual locations is not mapped, and only then; one that ends with  *)
(* the last byte of the disk returns.                                      *)
(***************************************************************************)
Impossible ==
    \/ call.block >= DISKSIZE
    \/ Start + call.nBytes > DISKSIZE * BSIZE
    \/ call.virtual /\ \E i \in 1 .. call.nBytes : call.memoryLocation + i - 1 \in Unmapped

RefusesExactlyImpossible ==
    call # NoCall => /\ errorOccurred => Impossible
                     /\ Running("idle") => ~Impossible
=============================================================================
