-------------------------------- MODULE Mkfs --------------------------------
(***************************************************************************)
(* The disk image builder mkfs/r5o5_mkfs.c: it fills the disk with spaces, *)
(* puts the programs it is given one behind the other into the blocks      *)
(* PROC_START .. PROC_END and writes down where each of them lies.         *)
(*                                                                         *)
(* The unit is a cell: a program is a sequence of cells, which a block     *)
(* boundary may separate anywhere, as it may the bytes of the code.        *)
(***************************************************************************)
EXTENDS Integers, Sequences

CONSTANTS
    BSIZE,          \* cells of a block (BLOCK_SIZE, BSIZE: 1024)
    DISKSIZE,       \* blocks of the disk (DISK_SIZE, DISKSIZE: 1000)
    PROC_START, PROC_END,   \* first and last block for programs (100, 299)
    Programs,       \* the program files, as sequences of cells
    Space,          \* the cell the disk is filled with
    MaxPrograms     \* bound: programs given to one call

ASSUME BsizeAssumption == BSIZE \in Nat \ {0}
ASSUME AreaAssumption ==
    /\ DISKSIZE \in Nat /\ PROC_START \in Nat \ {0} /\ PROC_END \in Nat
    /\ PROC_START <= PROC_END /\ PROC_END < DISKSIZE
ASSUME ProgramsAssumption == \A f \in Programs : Len(f) \in Nat /\ DOMAIN f = 1 .. Len(f)

(* What a cell may be. *)
Contents == {Space} \cup UNION {{f[k] : k \in DOMAIN f} : f \in Programs}

VARIABLES
    disk,           \* its cells
    blockNum, offset,   \* static variables: where the next program goes
    storing,        \* a program is being stored
    prog,           \* that program
    start,          \* prevBlockNum and prevOffset
    copied,         \* cells of it written
    info,           \* the lines of information/prog_info
    tried           \* history: the programs tried, where, for which line of
                    \* info, and what came of it

mkfsVars == <<disk, blockNum, offset, storing, prog, start, copied, info, tried>>

Cells == 0 .. DISKSIZE * BSIZE - 1
At(place) == place.block * BSIZE + place.off
Place(b, o) == [block |-> b, off |-> o]
AreaEnd == (PROC_END + 1) * BSIZE       \* the first cell behind the area

(* buildDisk *)
MkfsInit ==
    /\ disk = [a \in Cells |-> Space]
    /\ blockNum = PROC_START /\ offset = 0
    /\ storing = FALSE /\ prog = <<>> /\ start = Place(PROC_START, 0) /\ copied = 0
    /\ info = <<>> /\ tried = <<>>

(* Open the program and seek to where it goes.  If either fails, nothing   *)
(* changes; seeking in front of the disk always does.                      *)
StoreProgram(f) ==
    /\ ~storing /\ Len(tried) < MaxPrograms
    /\ At(Place(blockNum, offset)) >= 0
    /\ storing' = TRUE /\ prog' = f /\ copied' = 0
    /\ start' = Place(blockNum, offset)
    /\ UNCHANGED <<disk, blockNum, offset, info, tried>>

(* The carry at the head of the loop. *)
CarriedBlock == blockNum + offset \div BSIZE
CarriedOffset == offset % BSIZE

More == storing /\ copied < Len(prog)

(* Mutant of InArea: off by one. *)
InAreaLate(b) == b < PROC_END + 2

InArea(b) == b < PROC_END + 1

(* fwrite goes on from where the program before it ended. *)
WriteCell ==
    /\ More /\ InArea(CarriedBlock)
    /\ disk' = [disk EXCEPT ![At(start) + copied] = prog[copied + 1]]
    /\ copied' = copied + 1
    /\ blockNum' = CarriedBlock /\ offset' = CarriedOffset + 1
    /\ UNCHANGED <<storing, prog, start, info, tried>>

Try(outcome) ==
    tried' = Append(tried, [prog |-> prog, start |-> start,
                            line |-> Len(info) + 1, outcome |-> outcome])

(* Mutant of Restored: the place is not put back. *)
NotRestored == Place(CarriedBlock, CarriedOffset)

Restored == start

(* No room, or fwrite fails: the place is put back, the cells remain. *)
GiveUp ==
    /\ More
    /\ \/ ~InArea(CarriedBlock) /\ Try("no room")
       \/ InArea(CarriedBlock) /\ Try("write failed")
    /\ blockNum' = Restored.block /\ offset' = Restored.off
    /\ storing' = FALSE
    /\ UNCHANGED <<disk, prog, start, copied, info>>

(* Mutant of LastBlock: the block of a last cell before a boundary. *)
LastBlockCarried == CarriedBlock

LastOffset == (CarriedOffset + BSIZE - 1) % BSIZE
LastBlock == IF LastOffset = BSIZE - 1 THEN CarriedBlock - 1 ELSE CarriedBlock

(* All is written: the place of the last cell stays the place of the next  *)
(* program, and is recorded, unless fprintf fails.  Behind an empty file   *)
(* it is the place in front of the one the file was to go to.              *)
Record ==
    /\ storing /\ ~More
    /\ blockNum' = LastBlock /\ offset' = LastOffset
    /\ \/ /\ info' = Append(info, [prog |-> prog, start |-> start,
                                   end |-> Place(LastBlock, LastOffset)])
          /\ Try("stored")
       \/ Try("line lost") /\ UNCHANGED info
    /\ storing' = FALSE
    /\ UNCHANGED <<disk, prog, start, copied>>

MkfsNext ==
    \/ \E f \in Programs : StoreProgram(f)
    \/ WriteCell \/ GiveUp \/ Record

MkfsSpec == MkfsInit /\ [][MkfsNext]_mkfsVars

-----------------------------------------------------------------------------
Last(rec) == At(rec.end)
Completed == {"stored", "line lost"}

(* The tries made after the one that line n of info is about, and where    *)
(* they, and the program being stored now, begin.                          *)
TriesAfter(n) == {t \in 1 .. Len(tried) : tried[t].line > n}
BegunAfter(n) == {tried[t].start : t \in TriesAfter(n)} \cup (IF storing THEN {start} ELSE {})

(* None of them takes more of the program of line n than its last cell.    *)
Whole(n) == \A p \in BegunAfter(n) : Last(info[n]) <= At(p)

(* Where the place is left by a try. *)
Left(t) ==
    At(tried[t].start) + IF tried[t].outcome \in Completed THEN Len(tried[t].prog) - 1 ELSE 0

(***************************************************************************)
(* What is recorded is on the disk at the recorded place, whatever is      *)
(* tried and fails after it, as far as no later program begins on it: each *)
(* begins on the last cell of the one before it that was completed, its    *)
(* line recorded or not.  So a program loses its last cell at most, unless *)
(* empty files are tried after it: each of them moves the place one cell   *)
(* back.                                                                   *)
(***************************************************************************)
ProgramsInPlace ==
    /\ \A n \in 1 .. Len(info) :
          LET rec == info[n]
          IN /\ Last(rec) - At(rec.start) + 1 = Len(rec.prog)
             /\ \A a \in At(rec.start) .. Last(rec) :
                   (\A p \in BegunAfter(n) : a < At(p)) =>
                       disk[a] = rec.prog[a - At(rec.start) + 1]
             /\ (\A t \in TriesAfter(n) : Len(tried[t].prog) > 0) => Whole(n)
    /\ \A t \in 1 .. Len(tried) - 1 : At(tried[t + 1].start) = Left(t)

(***************************************************************************)
(* A program is refused for want of room if it does not fit in what is     *)
(* left of the area, and only then; one that fits exactly is stored.  No   *)
(* cell behind the area is ever written, and none in front of it unless    *)
(* an empty file was tried.                                                *)
(***************************************************************************)
RefusedExactlyForRoom ==
    /\ \A t \in 1 .. Len(tried) :
          LET fits == At(tried[t].start) + Len(tried[t].prog) <= AreaEnd
          IN /\ tried[t].outcome \in Completed => fits
             /\ tried[t].outcome = "no room" => ~fits
    /\ \A a \in Cells : a >= AreaEnd => disk[a] = Space
    /\ (\A t \in 1 .. Len(tried) : Len(tried[t].prog) > 0) =>
          \A a \in Cells : a < PROC_START * BSIZE => disk[a] = Space
=============================================================================
