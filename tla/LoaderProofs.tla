---------------------------- MODULE LoaderProofs ----------------------------
(***************************************************************************)
(* Proofs about the way of a program from its file into the memory of a    *)
(* process, for any disk, area, programs, pages and number of processes.   *)
(*                                                                         *)
(* The first part is about the disk image builder (module Mkfs): what is   *)
(* recorded stays in its place, and a program is refused for want of room  *)
(* only.  A place counts by the cell it names, At(place); a carry into the *)
(* next block changes the place and not the cell.                          *)
(*                                                                         *)
(* The second part is about createProcess and the ELF reader (module       *)
(* Loader).                                                                *)
(***************************************************************************)
EXTENDS Loader, SequenceTheorems, WellFoundedInduction, TLAPS

Here == Place(blockNum, offset)

(* Where the next program starts, or the one being stored did. *)
Current == IF storing THEN start ELSE Here

Places  == [block : Nat, off : Nat]
Ends    == [block : Int, off : Nat]
Records == [prog : Programs, start : Places, end : Ends]
Tries   == [prog : Programs, start : Places, line : Nat,
            outcome : Completed \cup {"no room", "write failed"}]

(* With empty files the place may end up in front of the disk. *)
MkfsTypeOK ==
    /\ disk \in [Cells -> Contents]
    /\ blockNum \in Int /\ offset \in Nat /\ copied \in Nat /\ storing \in BOOLEAN
    /\ blockNum \in Nat \/ (~storing /\ At(Here) < 0)
    /\ storing => prog \in Programs
    /\ start \in Places
    /\ info \in Seq(Records) /\ tried \in Seq(Tries)

NoneEmpty == \A t \in 1 .. Len(tried) : Len(tried[t].prog) > 0

(* The next cell is the one behind what is copied, and inside the area;    *)
(* what is copied is on the disk.                                          *)
Copying ==
    /\ At(Current) < AreaEnd
    /\ NoneEmpty => PROC_START * BSIZE <= At(Current)
    /\ storing =>
          /\ At(Here) = At(start) + copied /\ copied <= Len(prog)
          /\ copied > 0 => At(start) + copied <= AreaEnd
          /\ \A j \in 0 .. copied - 1 : disk[At(start) + j] = prog[j + 1]

NoneEmptyAfter(n) == \A t \in TriesAfter(n) : Len(tried[t].prog) > 0

(* The place is where the last try left it, and behind the programs that   *)
(* no empty file follows.  All of them end inside the area.                *)
Advancing ==
    /\ \A t \in 1 .. Len(tried) :
          /\ tried[t].line <= Len(info) + 1
          /\ t = Len(tried) => At(Current) = Left(t)
    /\ \A n \in 1 .. Len(info) : /\ Last(info[n]) < AreaEnd
                                 /\ NoneEmptyAfter(n) => Last(info[n]) <= At(Current)

MkfsInv == MkfsTypeOK /\ Copying /\ Advancing /\ ProgramsInPlace /\ RefusedExactlyForRoom

USE BsizeAssumption, AreaAssumption

-----------------------------------------------------------------------------
(***************************************************************************)
(* Places and cells.                                                       *)
(***************************************************************************)
LEMMA Products ==
    ASSUME NEW a \in Nat, NEW b \in Nat
    PROVE  /\ a * BSIZE \in Nat
           /\ (a + b) * BSIZE = a * BSIZE + b * BSIZE
           /\ a < b => a * BSIZE + BSIZE <= b * BSIZE
           /\ a <= b => a * BSIZE <= b * BSIZE
<1>1. a * BSIZE \in Nat
    OBVIOUS
<1>2. (a + b) * BSIZE = a * BSIZE + b * BSIZE
    OBVIOUS
<1>3. ASSUME a < b PROVE a * BSIZE + BSIZE <= b * BSIZE
    <2>1. a + 1 <= b
        BY <1>3
    <2>2. (a + 1) * BSIZE <= b * BSIZE
        BY <2>1
    <2>3. (a + 1) * BSIZE = a * BSIZE + BSIZE
        OBVIOUS
    <2> QED BY <2>2, <2>3
<1>4. a <= b => a * BSIZE <= b * BSIZE
    OBVIOUS
<1> QED BY <1>1, <1>2, <1>3, <1>4

LEMMA AtPlace ==
    ASSUME NEW b \in Nat, NEW o \in Nat
    PROVE  /\ Place(b, o) \in Places /\ Place(b, o).block = b /\ Place(b, o).off = o
           /\ At(Place(b, o)) = b * BSIZE + o /\ At(Place(b, o)) \in Nat
    BY Products DEF At, Place, Places

LEMMA AtInt ==
    ASSUME NEW b \in Int, NEW o \in Nat
    PROVE  /\ Place(b, o) \in Ends /\ At(Place(b, o)) = b * BSIZE + o
           /\ At(Place(b, o)) \in Int
    BY DEF At, Place, Ends

LEMMA EndInt ==
    ASSUME NEW p \in Ends
    PROVE  At(p) \in Int
    BY DEF At, Ends

LEMMA AtNat ==
    ASSUME NEW p \in Places
    PROVE  At(p) \in Nat /\ p = Place(p.block, p.off)
    BY Products DEF At, Place, Places

LEMMA AreaFits ==
    /\ AreaEnd \in Nat /\ AreaEnd = PROC_END * BSIZE + BSIZE
    /\ PROC_START * BSIZE \in Nat
    /\ AreaEnd <= DISKSIZE * BSIZE
<1>1. PROC_END \in Nat /\ DISKSIZE \in Nat /\ PROC_START \in Nat /\ PROC_END < DISKSIZE /\ 1 \in Nat
    OBVIOUS
<1>2. (PROC_END + 1) * BSIZE = PROC_END * BSIZE + 1 * BSIZE
    BY <1>1, Products
<1>3. PROC_END * BSIZE + BSIZE <= DISKSIZE * BSIZE /\ PROC_END * BSIZE \in Nat
      /\ PROC_START * BSIZE \in Nat
    BY <1>1, Products
<1>4. 1 * BSIZE = BSIZE
    OBVIOUS
<1> QED BY <1>2, <1>3, <1>4 DEF AreaEnd

LEMMA CellOf ==
    ASSUME NEW a \in Nat, a < AreaEnd
    PROVE  a \in Cells
    BY AreaFits DEF Cells

LEMMA Carry ==
    ASSUME blockNum \in Nat, offset \in Nat
    PROVE  /\ CarriedBlock \in Nat /\ CarriedOffset \in 0 .. BSIZE - 1
           /\ At(Here) \in Nat
           /\ CarriedBlock * BSIZE + CarriedOffset = At(Here)
<1> DEFINE q == offset \div BSIZE
           m == offset % BSIZE
<1>1. offset = BSIZE * q + m /\ q \in Nat /\ m \in 0 .. BSIZE - 1
    OBVIOUS
<1> HIDE DEF q, m
<1>2. (blockNum + q) * BSIZE = blockNum * BSIZE + q * BSIZE /\ q * BSIZE = BSIZE * q
      /\ blockNum * BSIZE \in Nat /\ q * BSIZE \in Nat
    BY <1>1, Products
<1>3. At(Here) = blockNum * BSIZE + offset
    BY AtPlace DEF Here
<1>4. CarriedBlock = blockNum + q /\ CarriedOffset = m
    BY DEF CarriedBlock, CarriedOffset, q, m
<1> QED BY <1>1, <1>2, <1>3, <1>4

(* Whether the next cell is in the area is told by its block. *)
LEMMA InAreaTold ==
    ASSUME blockNum \in Nat, offset \in Nat
    PROVE  InArea(CarriedBlock) <=> At(Here) < AreaEnd
<1>1. /\ CarriedBlock \in Nat /\ CarriedOffset \in 0 .. BSIZE - 1
      /\ CarriedBlock * BSIZE + CarriedOffset = At(Here) /\ CarriedBlock * BSIZE \in Nat
    BY Carry, Products
<1>2. CASE CarriedBlock <= PROC_END
    <2>1. CarriedBlock * BSIZE <= PROC_END * BSIZE /\ PROC_END * BSIZE \in Nat
        BY <1>1, <1>2, Products
    <2> QED BY <1>1, <1>2, <2>1, AreaFits DEF InArea
<1>3. CASE PROC_END < CarriedBlock
    <2>1. PROC_END * BSIZE + BSIZE <= CarriedBlock * BSIZE /\ PROC_END * BSIZE \in Nat
        BY <1>1, <1>3, Products
    <2> QED BY <1>1, <1>3, <2>1, AreaFits DEF InArea
<1> QED BY <1>1, <1>2, <1>3

LEMMA LastPlace ==
    ASSUME blockNum \in Nat, offset \in Nat
    PROVE  /\ LastBlock \in Int /\ LastOffset \in Nat
           /\ At(Place(LastBlock, LastOffset)) = At(Here) - 1
           /\ LastBlock \in Nat \/ At(Here) - 1 < 0
<1>1. /\ CarriedBlock \in Nat /\ CarriedOffset \in 0 .. BSIZE - 1
      /\ CarriedBlock * BSIZE + CarriedOffset = At(Here) /\ CarriedBlock * BSIZE \in Nat
      /\ At(Here) \in Nat
    BY Carry, Products
<1>2. CASE CarriedOffset = 0
    <2>1. LastOffset = BSIZE - 1
        BY <1>2 DEF LastOffset
    <2>2. LastBlock = CarriedBlock - 1 /\ LastBlock \in Int /\ LastOffset \in Nat
        BY <1>1, <2>1 DEF LastBlock
    <2>3. CarriedBlock = 0 => At(Here) - 1 < 0
        <3>1. 0 * BSIZE = 0
            OBVIOUS
        <3> QED BY <1>1, <1>2, <3>1
    <2>4. CarriedBlock # 0 => LastBlock \in Nat
        BY <1>1, <2>2
    <2>5. LastBlock * BSIZE = CarriedBlock * BSIZE - BSIZE
        BY <1>1, <2>2
    <2>6. At(Place(LastBlock, LastOffset)) = LastBlock * BSIZE + LastOffset
        BY <2>2, AtInt
    <2> QED BY <1>1, <1>2, <2>1, <2>2, <2>3, <2>4, <2>5, <2>6
<1>3. CASE CarriedOffset # 0
    <2>1. LastOffset = CarriedOffset - 1
        <3>1. CarriedOffset + BSIZE - 1 = BSIZE * 1 + (CarriedOffset - 1)
              /\ CarriedOffset - 1 \in 0 .. BSIZE - 1
            BY <1>1, <1>3
        <3>2. (BSIZE * 1 + (CarriedOffset - 1)) % BSIZE = CarriedOffset - 1
            BY <3>1
        <3> QED BY <3>1, <3>2 DEF LastOffset
    <2>2. LastBlock = CarriedBlock
        BY <1>1, <2>1 DEF LastBlock
    <2>3. At(Place(LastBlock, LastOffset)) = CarriedBlock * BSIZE + LastOffset
        BY <1>1, <1>3, <2>1, <2>2, AtPlace
    <2> QED BY <1>1, <1>3, <2>1, <2>2, <2>3
<1> QED BY <1>1, <1>2, <1>3

-----------------------------------------------------------------------------
(***************************************************************************)
(* The steps.                                                              *)
(***************************************************************************)
LEMMA ProgramCells ==
    ASSUME NEW f \in Programs, NEW k \in 1 .. Len(f)
    PROVE  f[k] \in Contents
<1>1. k \in DOMAIN f
    BY ProgramsAssumption
<1> QED BY <1>1 DEF Contents

LEMMA InitMkfs == MkfsInit => MkfsInv
<1> SUFFICES ASSUME MkfsInit PROVE MkfsInv
    OBVIOUS
<1>1. MkfsTypeOK
    <2>1. info \in Seq(Records) /\ tried \in Seq(Tries)
        BY EmptySeq DEF MkfsInit
    <2>2. disk \in [Cells -> Contents]
        BY DEF MkfsInit, Contents
    <2>3. start \in Places
        BY DEF MkfsInit, Places, Place
    <2>4. blockNum \in Nat /\ blockNum \in Int /\ offset \in Nat /\ copied \in Nat
        BY DEF MkfsInit
    <2>5. ~storing /\ storing \in BOOLEAN
        BY DEF MkfsInit
    <2> QED BY <2>1, <2>2, <2>3, <2>4, <2>5 DEF MkfsTypeOK
<1>2. Copying
    <2>1. At(Current) = PROC_START * BSIZE + 0
        BY AtPlace DEF MkfsInit, Current, Here
    <2>2. PROC_START * BSIZE <= PROC_END * BSIZE /\ PROC_END * BSIZE \in Nat
        BY Products
    <2> QED BY <2>1, <2>2, AreaFits DEF MkfsInit, Copying
<1>3. Len(info) = 0 /\ Len(tried) = 0
    BY EmptySeq DEF MkfsInit
<1>4. Advancing /\ ProgramsInPlace
    BY <1>3 DEF MkfsInit, Advancing, ProgramsInPlace
<1>5. RefusedExactlyForRoom
    BY <1>3 DEF MkfsInit, RefusedExactlyForRoom, Cells
<1> QED BY <1>1, <1>2, <1>4, <1>5 DEF MkfsInv

LEMMA StoreProgramInv ==
    ASSUME MkfsInv, NEW f \in Programs, StoreProgram(f)
    PROVE  MkfsInv'
<1>1. /\ ~storing /\ storing' = TRUE /\ prog' = f /\ copied' = 0 /\ start' = Here
      /\ At(Here) >= 0 /\ Here' = Here
      /\ UNCHANGED <<disk, blockNum, offset, info, tried>>
    BY DEF StoreProgram, Here
<1>2. blockNum \in Nat /\ offset \in Nat /\ At(Here) \in Nat /\ Here \in Places
    <2>1. At(Here) \in Int
        BY AtInt DEF MkfsInv, MkfsTypeOK, Here
    <2>2. blockNum \in Nat /\ offset \in Nat
        BY <1>1, <2>1 DEF MkfsInv, MkfsTypeOK
    <2> QED BY <2>2, AtPlace DEF Here
<1>3. Current = Here /\ Current' = Here /\ At(Current)' = At(Current) /\ At(Here)' = At(Here)
      /\ At(start)' = At(Here)
    BY <1>1 DEF Current, At
<1>4. MkfsTypeOK'
    BY <1>1, <1>2 DEF MkfsInv, MkfsTypeOK
<1>5. Copying'
    BY <1>1, <1>2, <1>3, ProgramsAssumption DEF MkfsInv, Copying, NoneEmpty
<1>6. /\ \A n : TriesAfter(n)' = TriesAfter(n) /\ NoneEmptyAfter(n)' = NoneEmptyAfter(n)
      /\ \A n : BegunAfter(n)' = BegunAfter(n) \cup {Here}
      /\ \A t : Left(t)' = Left(t)
    BY <1>1 DEF TriesAfter, NoneEmptyAfter, BegunAfter, Left, At
<1>7. Advancing'
    BY <1>1, <1>3, <1>6 DEF MkfsInv, Advancing, Last, At
<1>8. ProgramsInPlace'
    <2>1. ASSUME NEW n \in 1 .. Len(info), NEW a \in At(info[n].start) .. Last(info[n]),
                 \A p \in BegunAfter(n) \cup {Here} : a < At(p)
          PROVE  disk[a] = info[n].prog[a - At(info[n].start) + 1]
        BY <2>1 DEF MkfsInv, ProgramsInPlace
    <2>2. ASSUME NEW n \in 1 .. Len(info), \A t \in TriesAfter(n) : Len(tried[t].prog) > 0
          PROVE  \A p \in BegunAfter(n) \cup {Here} : Last(info[n]) <= At(p)
        <3>1. Whole(n)
            BY <2>2 DEF MkfsInv, ProgramsInPlace
        <3>2. Last(info[n]) <= At(Here)
            BY <1>3, <2>2 DEF MkfsInv, Advancing, NoneEmptyAfter
        <3> QED BY <3>1, <3>2 DEF Whole
    <2>3. \A n \in 1 .. Len(info) : Last(info[n]) - At(info[n].start) + 1 = Len(info[n].prog)
        BY DEF MkfsInv, ProgramsInPlace
    <2>4. \A t \in 1 .. Len(tried) - 1 : At(tried[t + 1].start) = Left(t)
        BY DEF MkfsInv, ProgramsInPlace
    <2> QED BY <1>1, <1>6, <2>1, <2>2, <2>3, <2>4 DEF ProgramsInPlace, Whole, Last, At
<1>9. RefusedExactlyForRoom'
    BY <1>1 DEF MkfsInv, RefusedExactlyForRoom, At
<1> QED BY <1>4, <1>5, <1>7, <1>8, <1>9 DEF MkfsInv

(* What a copying step starts from. *)
LEMMA Midway ==
    ASSUME MkfsInv, storing
    PROVE  /\ prog \in Programs /\ Len(prog) \in Nat
           /\ Current = start /\ start \in Places /\ At(start) \in Nat
           /\ blockNum \in Nat /\ offset \in Nat /\ At(Here) = At(start) + copied
           /\ copied \in 0 .. Len(prog) /\ At(start) < AreaEnd
           /\ NoneEmpty => PROC_START * BSIZE <= At(start)
           /\ \A j \in 0 .. copied - 1 : disk[At(start) + j] = prog[j + 1]
<1>1. prog \in Programs /\ start \in Places /\ blockNum \in Nat /\ offset \in Nat /\ copied \in Nat
    BY DEF MkfsInv, MkfsTypeOK
<1>2. Current = start
    BY DEF Current
<1>3. Len(prog) \in Nat /\ At(start) \in Nat
    BY <1>1, ProgramsAssumption, AtNat
<1> QED BY <1>1, <1>2, <1>3 DEF MkfsInv, Copying

LEMMA WriteCellInv ==
    ASSUME MkfsInv, WriteCell
    PROVE  MkfsInv'
<1> DEFINE p == At(start) + copied
<1>1. /\ storing /\ copied < Len(prog) /\ prog' = prog /\ start' = start /\ storing' = storing
      /\ copied' = copied + 1 /\ disk' = [disk EXCEPT ![p] = prog[copied + 1]]
      /\ blockNum' = CarriedBlock /\ offset' = CarriedOffset + 1
      /\ UNCHANGED <<info, tried>> /\ InArea(CarriedBlock)
    BY DEF WriteCell, More
<1>2. /\ Len(prog) \in Nat /\ Current = start /\ start \in Places /\ At(start) \in Nat
      /\ blockNum \in Nat /\ offset \in Nat /\ At(Here) = p /\ copied \in Nat
      /\ At(start) < AreaEnd /\ prog \in Programs
      /\ NoneEmpty => PROC_START * BSIZE <= At(start)
      /\ \A j \in 0 .. copied - 1 : disk[At(start) + j] = prog[j + 1]
    BY <1>1, Midway
<1>3. p \in Nat /\ p < AreaEnd /\ p \in Cells /\ p >= At(start)
    BY <1>1, <1>2, InAreaTold, CellOf
<1>4. disk \in [Cells -> Contents] /\ prog[copied + 1] \in Contents
    <2>1. copied + 1 \in 1 .. Len(prog)
        BY <1>1, <1>2
    <2> QED BY <1>2, <2>1, ProgramCells DEF MkfsInv, MkfsTypeOK
<1> HIDE DEF p
<1>5. disk' \in [Cells -> Contents]
      /\ \A a \in Cells : disk'[a] = IF a = p THEN prog[copied + 1] ELSE disk[a]
    BY <1>1, <1>3, <1>4
<1>6. CarriedBlock \in Nat /\ CarriedOffset + 1 \in Nat
      /\ CarriedBlock * BSIZE + CarriedOffset = p /\ CarriedBlock * BSIZE \in Nat
    BY <1>2, Carry, Products
<1>7. At(Here)' = p + 1
    <2>1. At(Place(CarriedBlock, CarriedOffset + 1)) = CarriedBlock * BSIZE + (CarriedOffset + 1)
        BY <1>6, AtPlace
    <2>2. At(Here)' = At(Place(CarriedBlock, CarriedOffset + 1))
        BY <1>1 DEF Here, At, Place
    <2>3. CarriedOffset \in Nat
        BY <1>2, Carry
    <2> QED BY <1>3, <1>6, <2>1, <2>2, <2>3
<1>8. Current' = start /\ At(Current)' = At(start) /\ At(start)' = At(start) /\ At(Current) = At(start)
    BY <1>1, <1>2 DEF Current, At
<1>9. p = At(start) + copied
    BY DEF p
<1>10. MkfsTypeOK'
    BY <1>1, <1>2, <1>5, <1>6 DEF MkfsInv, MkfsTypeOK
<1>11. Copying'
    <2>1. \A j \in 0 .. copied : disk'[At(start) + j] = prog[j + 1]
        <3> TAKE j \in 0 .. copied
        <3>1. At(start) + j \in Nat /\ At(start) + j <= p
            BY <1>2, <1>9
        <3>2. At(start) + j \in Cells
            BY <1>3, <3>1, CellOf, AreaFits
        <3>3. j \in 0 .. copied - 1 \/ j = copied
            BY <1>2
        <3>4. j # copied => At(start) + j # p
            BY <1>2, <1>9
        <3> QED BY <1>2, <1>5, <1>9, <3>2, <3>3, <3>4
    <2>2. copied + 1 <= Len(prog) /\ At(start) + (copied + 1) = p + 1 /\ p + 1 <= AreaEnd
        BY <1>1, <1>2, <1>3, <1>9, AreaFits
    <2>3. (copied + 1) - 1 = copied
        BY <1>2
    <2>4. NoneEmpty' = NoneEmpty
        BY <1>1 DEF NoneEmpty
    <2> QED BY <1>1, <1>2, <1>7, <1>8, <2>1, <2>2, <2>3, <2>4 DEF Copying
<1>12. /\ \A n : TriesAfter(n)' = TriesAfter(n) /\ NoneEmptyAfter(n)' = NoneEmptyAfter(n)
       /\ \A n : BegunAfter(n)' = BegunAfter(n) /\ start \in BegunAfter(n)
       /\ \A t : Left(t)' = Left(t)
    BY <1>1 DEF TriesAfter, NoneEmptyAfter, BegunAfter, Left, At
<1>13. Advancing'
    BY <1>1, <1>8, <1>12 DEF MkfsInv, Advancing, Last, At
<1>14. ProgramsInPlace'
    <2>1. ASSUME NEW n \in 1 .. Len(info), NEW a \in At(info[n].start) .. Last(info[n]),
                 \A q \in BegunAfter(n) : a < At(q)
          PROVE  disk'[a] = info[n].prog[a - At(info[n].start) + 1]
        <3>1. info[n] \in Records
            BY ElementOfSeq DEF MkfsInv, MkfsTypeOK
        <3>2. At(info[n].start) \in Nat /\ Last(info[n]) \in Int
            BY <3>1, AtNat, EndInt DEF Records, Last
        <3>3. a < At(start)
            BY <1>12, <2>1
        <3>4. a \in Nat /\ a # p /\ a < AreaEnd
            BY <1>2, <1>3, <3>2, <3>3, AreaFits
        <3>5. disk'[a] = disk[a]
            BY <1>5, <3>4, CellOf
        <3> QED BY <2>1, <3>5 DEF MkfsInv, ProgramsInPlace
    <2>2. \A n \in 1 .. Len(info) : /\ Last(info[n]) - At(info[n].start) + 1 = Len(info[n].prog)
                                    /\ (\A t \in TriesAfter(n) : Len(tried[t].prog) > 0) => Whole(n)
        BY DEF MkfsInv, ProgramsInPlace
    <2>3. \A t \in 1 .. Len(tried) - 1 : At(tried[t + 1].start) = Left(t)
        BY DEF MkfsInv, ProgramsInPlace
    <2> QED BY <1>1, <1>12, <2>1, <2>2, <2>3 DEF ProgramsInPlace, Whole, Last, At
<1>15. RefusedExactlyForRoom'
    <2>1. NoneEmpty => PROC_START * BSIZE <= p
        BY <1>2, <1>3, AreaFits
    <2>2. \A a \in Cells : a >= AreaEnd => a # p
        BY <1>3, AreaFits
    <2>3. NoneEmpty => \A a \in Cells : a < PROC_START * BSIZE => a # p
        BY <1>3, <2>1, AreaFits DEF Cells
    <2>4. \A a \in Cells : a >= AreaEnd => disk'[a] = Space
        BY <1>5, <2>2 DEF MkfsInv, RefusedExactlyForRoom
    <2>5. NoneEmpty => \A a \in Cells : a < PROC_START * BSIZE => disk'[a] = Space
        BY <1>5, <2>3 DEF MkfsInv, RefusedExactlyForRoom, NoneEmpty
    <2> QED BY <1>1, <2>4, <2>5 DEF MkfsInv, RefusedExactlyForRoom, NoneEmpty, At
<1> QED BY <1>10, <1>11, <1>13, <1>14, <1>15 DEF MkfsInv

LEMMA AppendKeeps ==
    ASSUME NEW S, NEW s \in Seq(S), NEW e \in S, NEW n \in 1 .. Len(s)
    PROVE  Append(s, e)[n] = s[n]
    BY AppendProperties

LEMMA AppendLast ==
    ASSUME NEW S, NEW q \in Seq(S), NEW e \in S
    PROVE  Append(q, e)[Len(q) + 1] = e
    BY AppendProperties

LEMMA OneMore ==
    ASSUME NEW m \in Nat, NEW k, k = m + 1, NEW n \in 1 .. k
    PROVE  n \in 1 .. m \/ n = m + 1
    OBVIOUS

LEMMA EarlierStays ==
    ASSUME NEW m \in Nat, NEW k, k = m + 1, NEW n \in 1 .. m
    PROVE  n \in 1 .. k
    OBVIOUS

LEMMA NotBack ==
    ASSUME NEW x \in Int, NEW y \in Int, NEW l \in Int, x <= y, l > 0
    PROVE  x <= y + l - 1
    OBVIOUS

Outcomes == Completed \cup {"no room", "write failed"}
ThisTry(outcome) == [prog |-> prog, start |-> start, line |-> Len(info) + 1, outcome |-> outcome]

(* One more try is written down: it is a later one for every line there    *)
(* is, and none for the line it may add.                                   *)
LEMMA TryAdded ==
    ASSUME MkfsInv, storing, ~storing', NEW outcome \in Outcomes, Try(outcome)
    PROVE  /\ tried' \in Seq(Tries) /\ Len(tried') = Len(tried) + 1 /\ Len(tried) \in Nat
           /\ \A t \in 1 .. Len(tried) : tried'[t] = tried[t] /\ Left(t)' = Left(t)
           /\ tried'[Len(tried) + 1] = ThisTry(outcome)
           /\ \A n \in 1 .. Len(info) : /\ TriesAfter(n)' = TriesAfter(n) \cup {Len(tried) + 1}
                                        /\ BegunAfter(n)' = BegunAfter(n)
           /\ \A n : n = Len(info) + 1 => TriesAfter(n)' = {} /\ BegunAfter(n)' = {}
<1>1. tried \in Seq(Tries) /\ tried' = Append(tried, ThisTry(outcome)) /\ Len(info) \in Nat
    BY DEF Try, ThisTry, MkfsInv, MkfsTypeOK
<1>2. ThisTry(outcome) \in Tries
    <2>1. prog \in Programs /\ start \in Places
        BY Midway
    <2>2. Len(info) + 1 \in Nat
        BY <1>1
    <2> QED BY <2>1, <2>2 DEF Tries, ThisTry, Outcomes
<1>3. tried' \in Seq(Tries) /\ Len(tried') = Len(tried) + 1 /\ Len(tried) \in Nat
    BY <1>1, <1>2, AppendProperties, LenProperties
<1>4. tried'[Len(tried) + 1] = ThisTry(outcome)
    BY <1>1, <1>2, AppendLast
<1>5. ASSUME NEW t \in 1 .. Len(tried) PROVE tried'[t] = tried[t]
    BY <1>1, <1>2, AppendKeeps
<1>6. \A t \in 1 .. Len(tried) : Left(t)' = Left(t)
    BY <1>5 DEF Left, At
<1>7. ASSUME NEW t \in 1 .. Len(tried') PROVE t \in 1 .. Len(tried) \/ t = Len(tried) + 1
    BY <1>3, OneMore
<1>8. ThisTry(outcome).line = Len(info) + 1 /\ ThisTry(outcome).start = start
    BY DEF ThisTry
<1>9. \A t \in 1 .. Len(tried) : tried[t].line \in Nat /\ tried[t].line <= Len(info) + 1
    <2> TAKE t \in 1 .. Len(tried)
    <2>1. tried[t] \in Tries
        BY <1>1, ElementOfSeq
    <2> QED BY <2>1 DEF Tries, MkfsInv, Advancing
<1>10. ASSUME NEW n \in 1 .. Len(info) PROVE TriesAfter(n)' = TriesAfter(n) \cup {Len(tried) + 1}
    <2>1. Len(info) + 1 > n /\ Len(tried) + 1 \in 1 .. Len(tried')
        BY <1>1, <1>3
    <2>2. \A t \in 1 .. Len(tried) : t \in 1 .. Len(tried')
        BY <1>3
    <2>3. TriesAfter(n)' = {t \in 1 .. Len(tried') : tried'[t].line > n}
        BY DEF TriesAfter
    <2> QED BY <1>4, <1>5, <1>7, <1>8, <2>1, <2>2, <2>3 DEF TriesAfter
<1>11. ASSUME NEW n \in 1 .. Len(info) PROVE BegunAfter(n)' = BegunAfter(n)
    <2>1. BegunAfter(n)' = {tried'[t].start : t \in TriesAfter(n) \cup {Len(tried) + 1}}
        BY <1>10 DEF BegunAfter
    <2>2. BegunAfter(n) = {tried[t].start : t \in TriesAfter(n)} \cup {start}
        BY DEF BegunAfter
    <2>3. \A t \in TriesAfter(n) : t \in 1 .. Len(tried)
        BY DEF TriesAfter
    <2> QED BY <1>4, <1>5, <1>8, <2>1, <2>2, <2>3
<1>12. ASSUME NEW n, n = Len(info) + 1 PROVE TriesAfter(n)' = {} /\ BegunAfter(n)' = {}
    <2>1. \A t \in 1 .. Len(tried') : ~(tried'[t].line > n)
        BY <1>1, <1>4, <1>5, <1>7, <1>8, <1>9, <1>12
    <2>2. TriesAfter(n)' = {t \in 1 .. Len(tried') : tried'[t].line > n}
        BY DEF TriesAfter
    <2>3. TriesAfter(n)' = {}
        BY <2>1, <2>2
    <2>4. BegunAfter(n)' = {tried'[t].start : t \in TriesAfter(n)'}
        BY DEF BegunAfter
    <2> QED BY <2>3, <2>4
<1> QED BY <1>3, <1>4, <1>5, <1>6, <1>10, <1>11, <1>12

(* What the tries say of the area holds of one more, if of this one. *)
LEMMA RoomAfterTry ==
    ASSUME MkfsInv, storing, ~storing', NEW outcome \in Outcomes, Try(outcome), disk' = disk,
           outcome \in Completed => At(start) + Len(prog) <= AreaEnd,
           outcome = "no room" => ~(At(start) + Len(prog) <= AreaEnd)
    PROVE  RefusedExactlyForRoom'
<1>1. /\ Len(tried') = Len(tried) + 1 /\ Len(tried) \in Nat
      /\ \A t \in 1 .. Len(tried) : tried'[t] = tried[t]
      /\ tried'[Len(tried) + 1] = ThisTry(outcome)
    BY TryAdded
<1>2. ASSUME NEW t \in 1 .. Len(tried')
      PROVE  LET fits == At(tried'[t].start) + Len(tried'[t].prog) <= AreaEnd
             IN /\ tried'[t].outcome \in Completed => fits
                /\ tried'[t].outcome = "no room" => ~fits
    <2>1. CASE t \in 1 .. Len(tried)
        BY <1>1, <2>1 DEF MkfsInv, RefusedExactlyForRoom
    <2>2. CASE t = Len(tried) + 1
        <3>1. tried'[t] = ThisTry(outcome)
            BY <1>1, <2>2
        <3>2. /\ ThisTry(outcome).start = start /\ ThisTry(outcome).prog = prog
              /\ ThisTry(outcome).outcome = outcome
            BY DEF ThisTry
        <3> QED BY <3>1, <3>2
    <2> QED BY <1>1, <2>1, <2>2, OneMore
<1>3. (\A t \in 1 .. Len(tried') : Len(tried'[t].prog) > 0) => NoneEmpty
    <2>0. Len(tried') = Len(tried) + 1 /\ Len(tried) \in Nat
        BY <1>1
    <2>1. \A t \in 1 .. Len(tried) : t \in 1 .. Len(tried')
        BY <2>0, EarlierStays
    <2> QED BY <1>1, <2>1 DEF NoneEmpty
<1>4. /\ \A a \in Cells : a >= AreaEnd => disk[a] = Space
      /\ NoneEmpty => \A a \in Cells : a < PROC_START * BSIZE => disk[a] = Space
    BY DEF MkfsInv, RefusedExactlyForRoom, NoneEmpty
<1> QED BY <1>2, <1>3, <1>4 DEF RefusedExactlyForRoom, At

(* The place is where the new try leaves it, and so is the next program.   *)
LEMMA PlaceAfterTry ==
    ASSUME MkfsInv, storing, ~storing', NEW outcome \in Outcomes, Try(outcome),
           At(Current)' = At(start) + IF outcome \in Completed THEN Len(prog) - 1 ELSE 0
    PROVE  /\ \A t \in 1 .. Len(tried') : t = Len(tried') => At(Current)' = Left(t)'
           /\ \A t \in 1 .. Len(tried') - 1 : At(tried'[t + 1].start) = Left(t)'
           /\ \A t \in 1 .. Len(tried') : tried'[t].line <= Len(info) + 1
<1>1. /\ Len(tried') = Len(tried) + 1 /\ Len(tried) \in Nat /\ Len(info) \in Nat
      /\ \A t \in 1 .. Len(tried) : tried'[t] = tried[t] /\ Left(t)' = Left(t)
      /\ tried'[Len(tried) + 1] = ThisTry(outcome)
    BY TryAdded, LenProperties DEF MkfsInv, MkfsTypeOK
<1>2. At(Current) = At(start)
    BY Midway
<1>3. ASSUME NEW t, t = Len(tried) + 1 PROVE Left(t)' = At(Current)'
    <2>1. /\ ThisTry(outcome).start = start /\ ThisTry(outcome).prog = prog
          /\ ThisTry(outcome).outcome = outcome
        BY DEF ThisTry
    <2>2. tried'[t] = ThisTry(outcome)
        BY <1>1, <1>3
    <2>3. Left(t)' = At(tried'[t].start) + IF tried'[t].outcome \in Completed
                                           THEN Len(tried'[t].prog) - 1 ELSE 0
        BY DEF Left, At, Completed
    <2> QED BY <2>1, <2>2, <2>3
<1>4. ASSUME NEW t \in 1 .. Len(tried') - 1 PROVE At(tried'[t + 1].start) = Left(t)'
    <2>1. t \in 1 .. Len(tried) /\ (t = Len(tried) \/ t \in 1 .. Len(tried) - 1)
        BY <1>1
    <2>2. CASE t = Len(tried)
        <3>1. tried'[t + 1] = ThisTry(outcome) /\ ThisTry(outcome).start = start
            BY <1>1, <2>2 DEF ThisTry
        <3>2. At(Current) = Left(t)
            BY <2>1, <2>2 DEF MkfsInv, Advancing
        <3> QED BY <1>1, <1>2, <2>1, <3>1, <3>2
    <2>3. CASE t \in 1 .. Len(tried) - 1
        <3>1. t + 1 \in 1 .. Len(tried)
            BY <1>1, <2>3
        <3>2. At(tried[t + 1].start) = Left(t)
            BY <2>3 DEF MkfsInv, ProgramsInPlace
        <3> QED BY <1>1, <2>1, <3>1, <3>2
    <2> QED BY <2>1, <2>2, <2>3
<1>5. ASSUME NEW t \in 1 .. Len(tried') PROVE tried'[t].line <= Len(info) + 1
    <2>1. CASE t \in 1 .. Len(tried)
        BY <1>1, <2>1 DEF MkfsInv, Advancing
    <2>2. CASE t = Len(tried) + 1
        <3>1. tried'[t] = ThisTry(outcome) /\ ThisTry(outcome).line = Len(info) + 1
            BY <1>1, <2>2 DEF ThisTry
        <3> QED BY <1>1, <3>1
    <2> QED BY <1>1, <2>1, <2>2, OneMore
<1>6. ASSUME NEW t \in 1 .. Len(tried'), t = Len(tried') PROVE At(Current)' = Left(t)'
    BY <1>1, <1>3, <1>6
<1> QED BY <1>4, <1>5, <1>6

(* The lines there are, when one more try is written down, and the place   *)
(* has not gone back.                                                      *)
LEMMA LinesAfterTry ==
    ASSUME MkfsInv, storing, ~storing', NEW outcome \in Outcomes, Try(outcome),
           disk' = disk, NEW n \in 1 .. Len(info)
    PROVE  /\ Last(info[n]) - At(info[n].start) + 1 = Len(info[n].prog)
           /\ \A a \in At(info[n].start) .. Last(info[n]) :
                 (\A p \in BegunAfter(n)' : a < At(p)) =>
                     disk'[a] = info[n].prog[a - At(info[n].start) + 1]
           /\ NoneEmptyAfter(n)' => /\ NoneEmptyAfter(n) /\ Len(prog) > 0
                                    /\ \A p \in BegunAfter(n)' : Last(info[n]) <= At(p)
<1>1. /\ TriesAfter(n)' = TriesAfter(n) \cup {Len(tried) + 1} /\ BegunAfter(n)' = BegunAfter(n)
      /\ \A t \in 1 .. Len(tried) : tried'[t] = tried[t]
      /\ tried'[Len(tried) + 1] = ThisTry(outcome)
    BY TryAdded
<1>2. NoneEmptyAfter(n)' => NoneEmptyAfter(n) /\ Len(prog) > 0
    <2> SUFFICES ASSUME NoneEmptyAfter(n)' PROVE NoneEmptyAfter(n) /\ Len(prog) > 0
        OBVIOUS
    <2>1. \A t \in TriesAfter(n) \cup {Len(tried) + 1} : Len(tried'[t].prog) > 0
        BY <1>1 DEF NoneEmptyAfter
    <2>2. ThisTry(outcome).prog = prog
        BY DEF ThisTry
    <2>3. \A t \in TriesAfter(n) : t \in 1 .. Len(tried)
        BY DEF TriesAfter
    <2> QED BY <1>1, <2>1, <2>2, <2>3 DEF NoneEmptyAfter
<1>3. NoneEmptyAfter(n) => Whole(n)
    BY DEF MkfsInv, ProgramsInPlace, NoneEmptyAfter
<1>4. Last(info[n]) - At(info[n].start) + 1 = Len(info[n].prog)
    BY DEF MkfsInv, ProgramsInPlace
<1>5. \A a \in At(info[n].start) .. Last(info[n]) :
          (\A p \in BegunAfter(n) : a < At(p)) =>
              disk[a] = info[n].prog[a - At(info[n].start) + 1]
    BY DEF MkfsInv, ProgramsInPlace
<1> QED BY <1>1, <1>2, <1>3, <1>4, <1>5 DEF Whole

LEMMA GiveUpInv ==
    ASSUME MkfsInv, GiveUp
    PROVE  MkfsInv'
<1>1. /\ storing /\ copied < Len(prog) /\ ~storing'
      /\ blockNum' = start.block /\ offset' = start.off
      /\ storing' = FALSE /\ UNCHANGED <<disk, prog, start, copied, info>>
    BY DEF GiveUp, More, Restored
<1>2. /\ Len(prog) \in Nat /\ Current = start /\ start \in Places /\ At(start) \in Nat
      /\ blockNum \in Nat /\ offset \in Nat /\ At(Here) = At(start) + copied /\ copied \in Nat
      /\ At(start) < AreaEnd /\ prog \in Programs /\ (NoneEmpty => PROC_START * BSIZE <= At(start))
    BY <1>1, Midway
<1>3. ~InArea(CarriedBlock) => ~(At(start) + Len(prog) <= AreaEnd)
    BY <1>1, <1>2, InAreaTold, AreaFits
<1>4. PICK outcome \in Outcomes : /\ Try(outcome) /\ outcome \notin Completed
                                  /\ outcome = "no room" => ~InArea(CarriedBlock)
    <2>1. CASE ~InArea(CarriedBlock) /\ Try("no room")
        BY <2>1 DEF Outcomes, Completed
    <2>2. CASE InArea(CarriedBlock) /\ Try("write failed")
        <3>1. "write failed" \in Outcomes /\ "write failed" \notin Completed
              /\ "write failed" # "no room"
            BY DEF Outcomes, Completed
        <3> QED BY <2>2, <3>1
    <2> QED BY <2>1, <2>2 DEF GiveUp
<1>5. RefusedExactlyForRoom'
    BY <1>1, <1>3, <1>4, RoomAfterTry
<1>6. Current' = start /\ At(Current)' = At(start) /\ At(Current) = At(start)
    <2>1. start = Place(start.block, start.off)
        BY <1>2, AtNat
    <2> QED BY <1>1, <1>2, <2>1 DEF Current, Here, Place, At
<1>t. /\ tried' \in Seq(Tries) /\ Len(tried') = Len(tried) + 1 /\ Len(tried) \in Nat
      /\ \A t \in 1 .. Len(tried) : tried'[t] = tried[t]
    BY <1>1, <1>4, TryAdded
<1>7. MkfsTypeOK'
    <2>1. tried' \in Seq(Tries)
        BY <1>t
    <2>2. blockNum' \in Nat /\ offset' \in Nat /\ blockNum' \in Int
        BY <1>1, <1>2 DEF Places
    <2> QED BY <1>1, <1>2, <2>1, <2>2 DEF MkfsInv, MkfsTypeOK
<1>8. Copying'
    <2>1. NoneEmpty' => NoneEmpty
        <3>1. \A t \in 1 .. Len(tried) : t \in 1 .. Len(tried')
            BY <1>t
        <3> QED BY <1>t, <3>1 DEF NoneEmpty
    <2> QED BY <1>1, <1>2, <1>6, <2>1 DEF Copying
<1>9. /\ \A t \in 1 .. Len(tried') : t = Len(tried') => At(Current)' = Left(t)'
      /\ \A t \in 1 .. Len(tried') - 1 : At(tried'[t + 1].start) = Left(t)'
      /\ \A t \in 1 .. Len(tried') : tried'[t].line <= Len(info) + 1
    <2>1. At(Current)' = At(start) + IF outcome \in Completed THEN Len(prog) - 1 ELSE 0
        <3>1. At(start) + 0 = At(start)
            BY <1>2
        <3> QED BY <1>4, <1>6, <3>1
    <2> QED BY <1>1, <1>4, <2>1, PlaceAfterTry
<1>10. ASSUME NEW n \in 1 .. Len(info)
       PROVE  /\ Last(info[n]) - At(info[n].start) + 1 = Len(info[n].prog)
              /\ \A a \in At(info[n].start) .. Last(info[n]) :
                    (\A p \in BegunAfter(n)' : a < At(p)) =>
                        disk'[a] = info[n].prog[a - At(info[n].start) + 1]
              /\ NoneEmptyAfter(n)' => /\ NoneEmptyAfter(n)
                                       /\ \A p \in BegunAfter(n)' : Last(info[n]) <= At(p)
    BY <1>1, <1>4, LinesAfterTry
<1>11. Advancing'
    <2>1. ASSUME NEW n \in 1 .. Len(info), NoneEmptyAfter(n)' PROVE Last(info[n]) <= At(start)
        BY <1>6, <1>10, <2>1 DEF MkfsInv, Advancing
    <2>2. \A n \in 1 .. Len(info) : Last(info[n]) < AreaEnd
        BY DEF MkfsInv, Advancing
    <2> QED BY <1>1, <1>6, <1>9, <2>1, <2>2 DEF Advancing, Last, At
<1>12. ProgramsInPlace'
    BY <1>1, <1>9, <1>10 DEF ProgramsInPlace, Whole, NoneEmptyAfter, Last, At
<1> QED BY <1>5, <1>7, <1>8, <1>11, <1>12 DEF MkfsInv

(* What both ways of recording a program share. *)
LEMMA Recording ==
    ASSUME MkfsInv, storing, ~More, storing' = FALSE, NEW outcome \in Completed, Try(outcome),
           blockNum' = LastBlock, offset' = LastOffset, UNCHANGED <<disk, prog, start, copied>>
    PROVE  /\ RefusedExactlyForRoom'
           /\ blockNum' \in Int /\ offset' \in Nat /\ (blockNum' \in Nat \/ At(Here)' < 0)
           /\ Place(LastBlock, LastOffset) \in Ends
           /\ At(Place(LastBlock, LastOffset)) = At(start) + Len(prog) - 1
           /\ At(start) + Len(prog) - 1 < AreaEnd
           /\ At(Current)' = At(start) + Len(prog) - 1
           /\ prog \in Programs /\ Len(prog) \in Nat /\ start \in Places /\ At(start) \in Nat
           /\ \A j \in 0 .. Len(prog) - 1 : disk[At(start) + j] = prog[j + 1]
           /\ tried' \in Seq(Tries) /\ Copying'
           /\ \A t \in 1 .. Len(tried') : t = Len(tried') => At(Current)' = Left(t)'
           /\ \A t \in 1 .. Len(tried') - 1 : At(tried'[t + 1].start) = Left(t)'
           /\ \A t \in 1 .. Len(tried') : tried'[t].line <= Len(info) + 1
<1>1. outcome \in Outcomes /\ outcome # "no room" /\ ~storing' /\ disk' = disk
    BY DEF Outcomes, Completed
<1>2. /\ prog \in Programs /\ Len(prog) \in Nat
      /\ Current = start /\ start \in Places /\ At(start) \in Nat
      /\ blockNum \in Nat /\ offset \in Nat /\ At(Here) = At(start) + copied
      /\ copied = Len(prog) /\ At(start) < AreaEnd
      /\ NoneEmpty => PROC_START * BSIZE <= At(start)
      /\ \A j \in 0 .. copied - 1 : disk[At(start) + j] = prog[j + 1]
    BY Midway DEF More
<1>3. At(start) + Len(prog) <= AreaEnd
    BY <1>2, AreaFits DEF MkfsInv, Copying
<1>4. RefusedExactlyForRoom'
    BY <1>1, <1>3, RoomAfterTry
<1>5. /\ LastBlock \in Int /\ LastOffset \in Nat /\ Place(LastBlock, LastOffset) \in Ends
      /\ At(Place(LastBlock, LastOffset)) = At(start) + Len(prog) - 1
      /\ LastBlock \in Nat \/ At(start) + Len(prog) - 1 < 0
    <2>1. /\ LastBlock \in Int /\ LastOffset \in Nat
          /\ At(Place(LastBlock, LastOffset)) = At(Here) - 1
          /\ LastBlock \in Nat \/ At(Here) - 1 < 0
        BY <1>2, LastPlace
    <2>2. Place(LastBlock, LastOffset) \in Ends
        BY <2>1, AtInt
    <2>3. At(Here) - 1 = At(start) + Len(prog) - 1
        BY <1>2
    <2> QED BY <2>1, <2>2, <2>3
<1>6. At(Here)' = At(start) + Len(prog) - 1 /\ At(Current)' = At(Here)'
    BY <1>1, <1>5 DEF Current, Here, Place, At
<1>7. /\ tried' \in Seq(Tries) /\ Len(tried') = Len(tried) + 1 /\ Len(tried) \in Nat
      /\ \A t \in 1 .. Len(tried) : tried'[t] = tried[t]
      /\ tried'[Len(tried) + 1] = ThisTry(outcome)
    BY <1>1, TryAdded
<1>8. NoneEmpty' => NoneEmpty /\ Len(prog) > 0
    <2> SUFFICES ASSUME NoneEmpty' PROVE NoneEmpty /\ Len(prog) > 0
        OBVIOUS
    <2>1. Len(tried) + 1 \in 1 .. Len(tried')
        BY <1>7
    <2>2. ThisTry(outcome).prog = prog
        BY DEF ThisTry
    <2>3. Len(tried'[Len(tried) + 1].prog) > 0
        BY <2>1 DEF NoneEmpty
    <2>4. NoneEmpty
        BY <1>7 DEF NoneEmpty
    <2> QED BY <1>7, <2>2, <2>3, <2>4
<1>e. At(start) + Len(prog) - 1 < AreaEnd
    BY <1>2, <1>3, AreaFits
<1>9. Copying'
    <2>1. At(start) + Len(prog) - 1 < AreaEnd
        BY <1>e
    <2>2. NoneEmpty' => PROC_START * BSIZE <= At(start) + Len(prog) - 1
        <3> DEFINE a == At(start)
                   l == Len(prog)
                   low == PROC_START * BSIZE
        <3> HAVE NoneEmpty'
        <3>1. a \in Nat /\ l \in Nat /\ l > 0 /\ low \in Nat /\ low <= a
            BY <1>2, <1>8, AreaFits
        <3> HIDE DEF a, l, low
        <3>2. low <= a + l - 1
            BY <3>1
        <3> QED BY <3>2 DEF a, l, low
    <2> QED BY <1>1, <1>6, <2>1, <2>2 DEF Copying
<1>10. /\ \A t \in 1 .. Len(tried') : t = Len(tried') => At(Current)' = Left(t)'
       /\ \A t \in 1 .. Len(tried') - 1 : At(tried'[t + 1].start) = Left(t)'
       /\ \A t \in 1 .. Len(tried') : tried'[t].line <= Len(info) + 1
    <2>1. At(Current)' = At(start) + IF outcome \in Completed THEN Len(prog) - 1 ELSE 0
        BY <1>2, <1>6
    <2> QED BY <1>1, <2>1, PlaceAfterTry
<1> QED BY <1>2, <1>4, <1>5, <1>6, <1>7, <1>9, <1>10, <1>e

LEMMA EndsBehind ==
    ASSUME MkfsInv, storing, NEW n \in 1 .. Len(info), NoneEmptyAfter(n), Len(prog) > 0
    PROVE  Last(info[n]) <= At(start) + Len(prog) - 1
<1>1. Last(info[n]) <= At(start) /\ Len(prog) \in Nat /\ At(start) \in Nat
    BY Midway DEF MkfsInv, Advancing
<1>2. info[n] \in Records
    BY ElementOfSeq DEF MkfsInv, MkfsTypeOK
<1>3. Last(info[n]) \in Int
    BY <1>2, EndInt DEF Records, Last
<1> QED BY <1>1, <1>3, NotBack

LEMMA RecordLostInv ==
    ASSUME MkfsInv, Record, info' = info, Try("line lost")
    PROVE  MkfsInv'
<1>1. /\ storing /\ ~More /\ storing' = FALSE /\ ~storing' /\ "line lost" \in Completed
      /\ "line lost" \in Outcomes /\ disk' = disk
      /\ blockNum' = LastBlock /\ offset' = LastOffset /\ UNCHANGED <<disk, prog, start, copied>>
    BY DEF Record, Completed, Outcomes
<1>2. /\ RefusedExactlyForRoom' /\ Copying'
      /\ blockNum' \in Int /\ offset' \in Nat /\ (blockNum' \in Nat \/ At(Here)' < 0)
      /\ At(Current)' = At(start) + Len(prog) - 1
      /\ prog \in Programs /\ Len(prog) \in Nat /\ start \in Places /\ At(start) \in Nat
      /\ tried' \in Seq(Tries)
      /\ \A t \in 1 .. Len(tried') : t = Len(tried') => At(Current)' = Left(t)'
      /\ \A t \in 1 .. Len(tried') - 1 : At(tried'[t + 1].start) = Left(t)'
      /\ \A t \in 1 .. Len(tried') : tried'[t].line <= Len(info) + 1
    BY <1>1, Recording
<1>3. MkfsTypeOK'
    BY <1>1, <1>2 DEF MkfsInv, MkfsTypeOK
<1>4. ASSUME NEW n \in 1 .. Len(info)
      PROVE  /\ Last(info[n]) - At(info[n].start) + 1 = Len(info[n].prog)
             /\ \A a \in At(info[n].start) .. Last(info[n]) :
                   (\A p \in BegunAfter(n)' : a < At(p)) =>
                       disk'[a] = info[n].prog[a - At(info[n].start) + 1]
             /\ NoneEmptyAfter(n)' => /\ NoneEmptyAfter(n) /\ Len(prog) > 0
                                      /\ \A p \in BegunAfter(n)' : Last(info[n]) <= At(p)
    BY <1>1, LinesAfterTry
<1>5. Advancing'
    <2>1. ASSUME NEW n \in 1 .. Len(info), NoneEmptyAfter(n)'
          PROVE  Last(info[n]) <= At(start) + Len(prog) - 1
        BY <1>1, <1>4, <2>1, EndsBehind
    <2>2. \A n \in 1 .. Len(info) : Last(info[n]) < AreaEnd
        BY DEF MkfsInv, Advancing
    <2> QED BY <1>1, <1>2, <2>1, <2>2 DEF Advancing, Last, At
<1>6. ProgramsInPlace'
    BY <1>1, <1>2, <1>4 DEF ProgramsInPlace, Whole, NoneEmptyAfter, Last, At
<1> QED BY <1>2, <1>3, <1>5, <1>6 DEF MkfsInv

LEMMA RecordStoredInv ==
    ASSUME MkfsInv, Record, Try("stored"),
           info' = Append(info, [prog |-> prog, start |-> start,
                                 end |-> Place(LastBlock, LastOffset)])
    PROVE  MkfsInv'
<1> DEFINE end == Place(LastBlock, LastOffset)
           rec == [prog |-> prog, start |-> start, end |-> end]
           new == Len(info) + 1
<1>1. /\ storing /\ ~More /\ storing' = FALSE /\ ~storing' /\ "stored" \in Completed
      /\ "stored" \in Outcomes /\ disk' = disk
      /\ blockNum' = LastBlock /\ offset' = LastOffset /\ UNCHANGED <<disk, prog, start, copied>>
    BY DEF Record, Completed, Outcomes
<1>2. /\ RefusedExactlyForRoom' /\ Copying'
      /\ blockNum' \in Int /\ offset' \in Nat /\ (blockNum' \in Nat \/ At(Here)' < 0)
      /\ At(Current)' = At(start) + Len(prog) - 1
      /\ end \in Ends /\ At(end) = At(start) + Len(prog) - 1 /\ At(end) < AreaEnd
      /\ prog \in Programs /\ Len(prog) \in Nat /\ start \in Places /\ At(start) \in Nat
      /\ \A j \in 0 .. Len(prog) - 1 : disk[At(start) + j] = prog[j + 1]
      /\ tried' \in Seq(Tries)
      /\ \A t \in 1 .. Len(tried') : t = Len(tried') => At(Current)' = Left(t)'
      /\ \A t \in 1 .. Len(tried') - 1 : At(tried'[t + 1].start) = Left(t)'
      /\ \A t \in 1 .. Len(tried') : tried'[t].line <= new
    BY <1>1, Recording
<1>3. rec \in Records /\ Last(rec) = At(end) /\ rec.start = start /\ rec.prog = prog
    BY <1>2 DEF Records, Last
<1>4. info' = Append(info, rec)
    OBVIOUS
<1>t. Len(info) \in Nat /\ new = Len(info) + 1
    BY LenProperties DEF MkfsInv, MkfsTypeOK
<1>b. \A n : n = Len(info) + 1 => BegunAfter(n)' = {}
    BY <1>1, TryAdded
<1> HIDE DEF end, rec, new
<1>5. /\ info' \in Seq(Records) /\ Len(info') = new
      /\ \A n \in 1 .. Len(info) : info'[n] = info[n]
      /\ info'[new] = rec
    BY <1>3, <1>4, <1>t, AppendProperties DEF MkfsInv, MkfsTypeOK
<1>6. ASSUME NEW n \in 1 .. Len(info') PROVE n \in 1 .. Len(info) \/ n = new
    BY <1>5, <1>t, OneMore
<1>7. MkfsTypeOK'
    BY <1>1, <1>2, <1>5 DEF MkfsInv, MkfsTypeOK
<1>8. ASSUME NEW n \in 1 .. Len(info)
      PROVE  /\ Last(info[n]) - At(info[n].start) + 1 = Len(info[n].prog)
             /\ \A a \in At(info[n].start) .. Last(info[n]) :
                   (\A p \in BegunAfter(n)' : a < At(p)) =>
                       disk'[a] = info[n].prog[a - At(info[n].start) + 1]
             /\ NoneEmptyAfter(n)' => /\ NoneEmptyAfter(n) /\ Len(prog) > 0
                                      /\ \A p \in BegunAfter(n)' : Last(info[n]) <= At(p)
    BY <1>1, LinesAfterTry
<1>9. Advancing'
    <2>1. ASSUME NEW n \in 1 .. Len(info), NoneEmptyAfter(n)'
          PROVE  Last(info[n]) <= At(start) + Len(prog) - 1
        BY <1>1, <1>8, <2>1, EndsBehind
    <2>2. Last(rec) <= At(start) + Len(prog) - 1
        BY <1>2, <1>3
    <2>3. ASSUME NEW n \in 1 .. Len(info'), NoneEmptyAfter(n)'
          PROVE  Last(info'[n]) <= At(start) + Len(prog) - 1
        BY <1>5, <1>6, <2>1, <2>2, <2>3
    <2>4. \A t \in 1 .. Len(tried') : tried'[t].line <= Len(info') + 1
        <3> TAKE t \in 1 .. Len(tried')
        <3>1. tried'[t] \in Tries /\ tried'[t].line <= new
            BY <1>2, ElementOfSeq
        <3>2. tried'[t].line \in Nat
            BY <3>1 DEF Tries
        <3> QED BY <1>5, <1>t, <3>1, <3>2
    <2>5. ASSUME NEW n \in 1 .. Len(info') PROVE Last(info'[n]) < AreaEnd
        <3>1. \A m \in 1 .. Len(info) : Last(info[m]) < AreaEnd
            BY DEF MkfsInv, Advancing
        <3>2. Last(rec) < AreaEnd
            BY <1>2, <1>3
        <3> QED BY <1>5, <1>6, <3>1, <3>2
    <2> QED BY <1>2, <2>3, <2>4, <2>5 DEF Advancing, Last, At
<1>10. ProgramsInPlace'
    <2>1. ASSUME NEW n \in 1 .. Len(info')
          PROVE  /\ Last(info'[n]) - At(info'[n].start) + 1 = Len(info'[n].prog)
                 /\ \A a \in At(info'[n].start) .. Last(info'[n]) :
                       (\A p \in BegunAfter(n)' : a < At(p)) =>
                           disk'[a] = info'[n].prog[a - At(info'[n].start) + 1]
                 /\ NoneEmptyAfter(n)' => \A p \in BegunAfter(n)' : Last(info'[n]) <= At(p)
        <3>1. CASE n \in 1 .. Len(info)
            BY <1>5, <1>8, <3>1
        <3>2. CASE n = new
            <4>1. info'[n] = rec /\ BegunAfter(n)' = {}
                BY <1>5, <1>b, <1>t, <3>2
            <4>2. Last(rec) - At(start) + 1 = Len(prog)
                BY <1>2, <1>3
            <4>3. ASSUME NEW a \in At(start) .. Last(rec)
                  PROVE  disk'[a] = prog[a - At(start) + 1]
                <5>1. a - At(start) \in 0 .. Len(prog) - 1 /\ At(start) + (a - At(start)) = a
                    BY <1>2, <1>3, <4>3
                <5> QED BY <1>1, <1>2, <5>1
            <4> QED BY <1>3, <4>1, <4>2, <4>3
        <3> QED BY <1>6, <3>1, <3>2
    <2> QED BY <1>2, <2>1 DEF ProgramsInPlace, Whole, NoneEmptyAfter, Last, At
<1> QED BY <1>2, <1>7, <1>9, <1>10 DEF MkfsInv

LEMMA RecordInv ==
    ASSUME MkfsInv, Record
    PROVE  MkfsInv'
    BY RecordStoredInv, RecordLostInv DEF Record

LEMMA MkfsNextInv ==
    ASSUME MkfsInv, MkfsNext
    PROVE  MkfsInv'
    BY StoreProgramInv, WriteCellInv, GiveUpInv, RecordInv DEF MkfsNext

LEMMA MkfsStays ==
    ASSUME MkfsInv, UNCHANGED mkfsVars
    PROVE  /\ MkfsInv'
           /\ \A n : Whole(n)' <=> Whole(n)
<1>1. At(Current)' = At(Current) /\ Current' = Current
    BY DEF mkfsVars, Current, Here, At, CarriedBlock, CarriedOffset
<1>2. MkfsTypeOK'
    BY DEF mkfsVars, MkfsInv, MkfsTypeOK, Here, At
<1>3. Copying'
    BY <1>1 DEF mkfsVars, MkfsInv, Copying, NoneEmpty, Here, At
<1>4. /\ \A n : /\ TriesAfter(n)' = TriesAfter(n) /\ NoneEmptyAfter(n)' = NoneEmptyAfter(n)
                /\ BegunAfter(n)' = BegunAfter(n)
      /\ \A t : Left(t)' = Left(t)
    BY DEF mkfsVars, TriesAfter, NoneEmptyAfter, BegunAfter, Left, At
<1>5. Advancing'
    BY <1>1, <1>4 DEF mkfsVars, MkfsInv, Advancing, Last, At
<1>6. \A n : Whole(n)' <=> Whole(n)
    BY <1>4 DEF mkfsVars, Whole, Last, At
<1>7. ProgramsInPlace'
    BY <1>4, <1>6 DEF mkfsVars, MkfsInv, ProgramsInPlace, Last, At
<1>8. RefusedExactlyForRoom'
    BY DEF mkfsVars, MkfsInv, RefusedExactlyForRoom, At
<1> QED BY <1>2, <1>3, <1>5, <1>6, <1>7, <1>8 DEF MkfsInv

LEMMA MkfsInvariance == MkfsSpec => []MkfsInv
<1>1. MkfsInv /\ [MkfsNext]_mkfsVars => MkfsInv'
    BY MkfsNextInv, MkfsStays
<1> QED BY <1>1, InitMkfs, PTL DEF MkfsSpec

(***************************************************************************)
(* What prog_info says of a program is true of the disk and stays true, as *)
(* far as no later program begins on it: but for the last cell, unless     *)
(* empty files follow.                                                     *)
(***************************************************************************)
THEOREM RecordsAreTrue == MkfsSpec => []ProgramsInPlace
    BY MkfsInvariance, PTL DEF MkfsInv

(***************************************************************************)
(* mkfs refuses a program for want of room if there is none, stores one    *)
(* that fits exactly, and writes nothing behind the area for programs, and *)
(* nothing in front of it unless a file was empty.                         *)
(***************************************************************************)
THEOREM RefusalIsForRoom == MkfsSpec => []RefusedExactlyForRoom
    BY MkfsInvariance, PTL DEF MkfsInv

-----------------------------------------------------------------------------
(***************************************************************************)
(* The loader.                                                             *)
(*                                                                         *)
(* The inductive invariant says of the process that is being made what the *)
(* properties say of those that are: which headers the list has, which     *)
(* pages are mapped for it, what is in them, and how far up it goes.  The  *)
(* processes that are there keep what they have, because every page has    *)
(* one owner.                                                              *)
(***************************************************************************)
USE NprocAssumption, ElfsizeAssumption, AddressAssumption, BehindAssumption

Nodes == [node : Nat, h : {h \in Contents \cup Garbage : IsHeader(h)}]
Processes == [pid : Pids, from : Cells, list : Seq(Nodes), sp : Nat]

InProcess == pc \in {"segments", "stack"}

(* What the variables of the loader are, whatever is loaded. *)
LoaderTyped ==
    /\ booted \in BOOLEAN /\ errorOccurred \in BOOLEAN
    /\ pc \in {"idle", "elf header", "headers", "segments", "stack"}
    /\ from \in Cells /\ i \in Nat /\ cnt \in Nat /\ mapped \in Nat
    /\ stack \in 0 .. ADDRESSES
    /\ list \in Seq(Nodes) /\ pd \in SUBSET Processes
    /\ pc = "headers" => IsElf(hdr)
    /\ pc # "idle" => FreePids # {}
    /\ ~booted => pc = "idle" /\ ~errorOccurred /\ pd = {}

(* The nodes are in the order of the list, and cnt is behind all of them.  *)
NodesGrow ==
    /\ \A j, k \in 1 .. Len(list) : j < k => list[j].node < list[k].node
    /\ \A k \in 1 .. Len(list) : /\ list[k].node < cnt /\ list[k].node < ELFSIZE
                                 /\ list[k].h.filesz <= list[k].h.memsz

(* Each page and each virtual page is mapped once. *)
MapsApart ==
    /\ \A m \in maps : m.table \in Pids /\ m.virtual \in VPages /\ m.page \in Pages
    /\ \A m, n \in maps : /\ m.table = n.table /\ m.virtual = n.virtual => m = n
                          /\ m.page = n.page => m = n

(* It is mapped for a process that is there, or the one being made. *)
MapsOwned ==
    \A m \in maps : (\E p \in pd : p.pid = m.table) \/ (m.table = pid /\ InProcess)

(* The segments of the list that are in memory. *)
Before(k) == k \in 1 .. Len(list) /\ (pc = "segments" => k < seg)

HasPages(t, h, c) == \A b \in 0 .. c - 1 : IsAllocated(t, VirtPage(h.vaddr + b))

SegmentsMapped ==
    /\ pc = "segments" => seg \in 1 .. Len(list) + 1
    /\ pc = "segments" /\ seg <= Len(list) =>
          mapped <= Segment.memsz /\ HasPages(pid, Segment, mapped)
    /\ InProcess => \A k \in 1 .. Len(list) : Before(k) => HasPages(pid, list[k].h, list[k].h.memsz)

(* A well-formed program that is being loaded. *)
Loading(n) == n \in Recorded(from) /\ Intact(n)

HeadersRead ==
    /\ pc = "elf header" => list = <<>> /\ cnt = 0
    /\ pc = "headers" => cnt <= 2 * i
    /\ \A n \in 1 .. Len(info) : Loading(n) =>
          LET f == info[n].prog
          IN /\ pc = "headers" => hdr = f[1] /\ i <= f[1].phnum /\ Lists(list, f, i)
             /\ InProcess => Lists(list, f, f[1].phnum)

EndOf(h) == h.vaddr + h.memsz

StackIsAbove ==
    InProcess /\ (\E n \in 1 .. Len(info) : Loading(n)) =>
        /\ stack <= VirtualPages - 2
        /\ \A k \in 1 .. Len(list) : Before(k) => EndOf(list[k].h) <= stack * PGSIZE
        /\ \A m \in maps : m.table = pid =>
              \/ m.virtual < stack
              \/ pc = "segments" /\ seg <= Len(list) /\ m.virtual * PGSIZE < EndOf(Segment)
              \/ pc = "stack" /\ m.virtual = stack
        /\ pc = "stack" => IsAllocated(pid, stack)

(* The segment of h is in memory, but for the last cell of the file. *)
InPlace(t, h, f) ==
    \A c \in 0 .. h.filesz - 1, m \in maps :
        m.table = t /\ m.virtual = VirtPage(h.vaddr + c) /\ h.off + c < Len(f) - 1
        => ram[m.page][(h.vaddr + c) % PGSIZE] = f[h.off + c + 1]

SegmentsInPlace ==
    \A n \in 1 .. Len(info) : Loading(n) /\ InProcess =>
        \A k \in 1 .. Len(list) : Before(k) => InPlace(pid, list[k].h, info[n].prog)

LoaderInv ==
    /\ MkfsInv
    /\ LoaderTyped /\ NodesGrow /\ MapsApart /\ MapsOwned /\ SegmentsMapped
    /\ HeadersRead /\ StackIsAbove /\ SegmentsInPlace
    /\ LoadedAsBuilt /\ StackAboveProgram /\ LoadsWellFormed

-----------------------------------------------------------------------------
(***************************************************************************)
(* Numbers and addresses.                                                  *)
(***************************************************************************)
LEMMA Multiples ==
    ASSUME NEW d \in Nat \ {0}, NEW a \in Nat, NEW b \in Nat
    PROVE  /\ a * d \in Nat
           /\ a < b => a * d + d <= b * d
           /\ a <= b => a * d <= b * d
<1>1. a * d \in Nat
    OBVIOUS
<1>2. ASSUME a < b PROVE a * d + d <= b * d
    <2>1. a + 1 <= b
        BY <1>2
    <2>2. (a + 1) * d <= b * d
        BY <2>1
    <2>3. (a + 1) * d = a * d + d
        OBVIOUS
    <2> QED BY <2>2, <2>3
<1>3. a <= b => a * d <= b * d
    OBVIOUS
<1> QED BY <1>1, <1>2, <1>3

LEMMA Divided ==
    ASSUME NEW d \in Nat \ {0}, NEW a \in Nat
    PROVE  /\ a \div d \in Nat /\ a % d \in 0 .. d - 1
           /\ a = (a \div d) * d + (a % d) /\ (a \div d) * d \in Nat
<1>1. a \div d \in Nat /\ a % d \in 0 .. d - 1 /\ a = d * (a \div d) + (a % d)
    OBVIOUS
<1>2. (a \div d) * d = d * (a \div d) /\ (a \div d) * d \in Nat
    BY <1>1, Multiples
<1> QED BY <1>1, <1>2

LEMMA DivBelow ==
    ASSUME NEW d \in Nat \ {0}, NEW a \in Nat, NEW c \in Nat
    PROVE  a \div d < c <=> a < c * d
<1> DEFINE q == a \div d
<1>1. /\ q \in Nat /\ a % d \in 0 .. d - 1 /\ a = q * d + (a % d)
      /\ q * d \in Nat /\ c * d \in Nat
    BY Divided, Multiples
<1> HIDE DEF q
<1>2. CASE q < c
    <2>1. q * d + d <= c * d
        BY <1>1, <1>2, Multiples
    <2> QED BY <1>1, <1>2, <2>1 DEF q
<1>3. CASE ~(q < c)
    <2>1. c * d <= q * d
        BY <1>1, <1>3, Multiples
    <2> QED BY <1>1, <1>3, <2>1 DEF q
<1> QED BY <1>2, <1>3

LEMMA ModSmall ==
    ASSUME NEW d \in Nat \ {0}, NEW a \in Nat, a < d
    PROVE  a % d = a
    OBVIOUS

LEMMA VirtPageBounds ==
    ASSUME NEW a \in Nat
    PROVE  VirtPage(a) \in VPages /\ VirtPage(a) \in Nat /\ VirtPage(a) * PGSIZE <= a
<1> DEFINE q == a \div PGSIZE
<1>1. q \in Nat /\ q * PGSIZE <= a /\ q * PGSIZE \in Nat
    BY Divided
<1> HIDE DEF q
<1>2. q % VirtualPages \in 0 .. VirtualPages - 1 /\ q % VirtualPages <= q
    <2>1. q % VirtualPages \in 0 .. VirtualPages - 1
        BY <1>1
    <2>2. q \div VirtualPages \in Nat /\ (q \div VirtualPages) * VirtualPages \in Nat
          /\ q = (q \div VirtualPages) * VirtualPages + (q % VirtualPages)
        BY <1>1, Divided
    <2> QED BY <1>1, <2>1, <2>2
<1>3. VirtPage(a) = q % VirtualPages
    BY DEF VirtPage, q
<1>4. (q % VirtualPages) * PGSIZE <= q * PGSIZE /\ (q % VirtualPages) * PGSIZE \in Nat
    BY <1>1, <1>2, Multiples
<1> QED BY <1>1, <1>2, <1>3, <1>4 DEF VPages

LEMMA VirtPageLow ==
    ASSUME NEW a \in Nat, a < VirtualPages * PGSIZE
    PROVE  VirtPage(a) = a \div PGSIZE
<1>1. a \div PGSIZE \in Nat /\ a \div PGSIZE < VirtualPages
    BY Divided, DivBelow
<1> QED BY <1>1, ModSmall DEF VirtPage

LEMMA SameCell ==
    ASSUME NEW a \in Nat, NEW b \in Nat,
           a < VirtualPages * PGSIZE, b < VirtualPages * PGSIZE,
           VirtPage(a) = VirtPage(b), a % PGSIZE = b % PGSIZE
    PROVE  a = b
<1>1. a \div PGSIZE = b \div PGSIZE
    BY VirtPageLow
<1>2. a = (a \div PGSIZE) * PGSIZE + (a % PGSIZE) /\ b = (b \div PGSIZE) * PGSIZE + (b % PGSIZE)
    BY Divided
<1> QED BY <1>1, <1>2

LEMMA MaxOfTwo ==
    ASSUME NEW a \in Nat, NEW b \in Nat
    PROVE  Max({a, b}) \in {a, b} /\ a <= Max({a, b}) /\ b <= Max({a, b})
<1>1. \E x \in {a, b} : \A y \in {a, b} : x >= y
    <2>1. CASE a <= b
        BY <2>1
    <2>2. CASE b <= a
        BY <2>2
    <2> QED BY <2>1, <2>2
<1>2. Max({a, b}) \in {a, b} /\ \A y \in {a, b} : Max({a, b}) >= y
    BY <1>1 DEF Max
<1> QED BY <1>2

LEMMA MaxOfOne ==
    ASSUME NEW S, NEW a \in Nat, S = {a}
    PROVE  Max(S) = a
<1>1. \E x \in S : \A y \in S : x >= y
    OBVIOUS
<1>2. Max(S) \in S
    BY <1>1 DEF Max
<1> QED BY <1>2

LEMMA Least ==
    ASSUME NEW S \in SUBSET Nat, S # {}
    PROVE  \E n \in S : \A m \in S : n <= m
<1>1. PICK n \in S : \A m \in S : ~(<<m, n>> \in OpToRel(<, Nat))
    BY WFMin, NatLessThanWellFounded
<1>2. \A m \in S : ~(m < n)
    BY <1>1 DEF OpToRel
<1> QED BY <1>2

LEMMA PidFree ==
    ASSUME FreePids # {}
    PROVE  pid \in Pids /\ \A p \in pd : p.pid # pid
<1>1. FreePids \in SUBSET Nat
    BY DEF FreePids, Pids
<1>2. \E x \in FreePids : \A y \in FreePids : x <= y
    BY <1>1, Least
<1>3. pid \in FreePids
    BY <1>2 DEF pid, Min
<1> QED BY <1>3 DEF FreePids

(* Rounding up to pages, and what of the address space is behind it. *)
LEMMA RoundedUp ==
    ASSUME NEW a \in Nat
    PROVE  CeilDiv(a, PGSIZE) \in 0 .. ADDRESSES
<1> DEFINE x == (a + PGSIZE - 1) % ADDRESSES
<1>1. a + PGSIZE - 1 \in Nat /\ ADDRESSES \in Nat \ {0}
    <2>1. VirtualPages * PGSIZE \in Nat
        BY Multiples
    <2> QED BY <2>1
<1>2. x \in 0 .. ADDRESSES - 1
    BY <1>1
<1> HIDE DEF x
<1>3. x \div PGSIZE \in Nat /\ (x \div PGSIZE) * PGSIZE <= x
      /\ x \div PGSIZE <= (x \div PGSIZE) * PGSIZE
    <2>1. x \div PGSIZE \in Nat /\ (x \div PGSIZE) * PGSIZE <= x
        BY <1>2, Divided
    <2>2. x \div PGSIZE <= (x \div PGSIZE) * PGSIZE
        <3> DEFINE y == x \div PGSIZE
        <3>1. y \in Nat
            BY <2>1
        <3> HIDE DEF y
        <3>2. y * 1 <= y * PGSIZE
            BY <3>1
        <3> QED BY <3>1, <3>2 DEF y
    <2> QED BY <2>1, <2>2
<1>4. x \div PGSIZE \in 0 .. ADDRESSES
    BY <1>1, <1>2, <1>3
<1> QED BY <1>4 DEF CeilDiv, x

LEMMA RoundedUpLow ==
    ASSUME NEW a \in Nat, 2 <= VirtualPages, a <= (VirtualPages - 2) * PGSIZE
    PROVE  /\ a % ADDRESSES = a
           /\ a <= CeilDiv(a, PGSIZE) * PGSIZE
           /\ CeilDiv(a, PGSIZE) \in Nat /\ CeilDiv(a, PGSIZE) <= VirtualPages - 2
<1> DEFINE x == a + PGSIZE - 1
           q == x \div PGSIZE
           w == VirtualPages - 2
<1>1. w \in Nat /\ w * PGSIZE \in Nat /\ w * PGSIZE + PGSIZE <= VirtualPages * PGSIZE
    BY Multiples
<1>2. a <= w * PGSIZE
    OBVIOUS
<1> HIDE DEF w
<1>3. /\ x \in Nat /\ x < w * PGSIZE + PGSIZE /\ x < ADDRESSES /\ a < ADDRESSES
      /\ ADDRESSES \in Nat \ {0}
    BY <1>1, <1>2
<1>4. x % ADDRESSES = x /\ a % ADDRESSES = a
    BY <1>3, ModSmall
<1>5. CeilDiv(a, PGSIZE) = q
    BY <1>4 DEF CeilDiv
<1>6. q < w + 1
    <2>1. (w + 1) * PGSIZE = w * PGSIZE + PGSIZE
        BY <1>1
    <2> HIDE DEF x
    <2>2. x < (w + 1) * PGSIZE /\ w + 1 \in Nat
        BY <1>1, <1>3, <2>1
    <2> QED BY <1>3, <2>2, DivBelow
<1>7. q \in Nat /\ x = q * PGSIZE + (x % PGSIZE) /\ x % PGSIZE <= PGSIZE - 1 /\ x % PGSIZE \in Nat
      /\ q * PGSIZE \in Nat
    <2> HIDE DEF x
    <2> QED BY <1>3, Divided
<1>8. a = x - (PGSIZE - 1)
    OBVIOUS
<1> HIDE DEF x, q
<1>9. a <= q * PGSIZE /\ q <= w
    BY <1>1, <1>3, <1>6, <1>7, <1>8
<1> QED BY <1>4, <1>5, <1>7, <1>9 DEF w

-----------------------------------------------------------------------------
(***************************************************************************)
(* Programs on the disk.                                                   *)
(***************************************************************************)
LEMMA CellsAreNumbers ==
    /\ DISKSIZE * BSIZE \in Nat /\ AreaEnd + BSIZE <= DISKSIZE * BSIZE
    /\ 0 \in Cells
<1>1. PROC_END + 1 \in Nat /\ DISKSIZE \in Nat
    OBVIOUS
<1>2. (PROC_END + 1) * BSIZE + BSIZE <= DISKSIZE * BSIZE /\ DISKSIZE * BSIZE \in Nat
    BY <1>1, Products
<1> QED BY <1>2, AreaFits DEF AreaEnd, Cells

LEMMA Linked ==
    ASSUME NEW f \in Programs, WellFormed(f)
    PROVE  /\ Len(f) \in Nat /\ f[1] \in Contents
           /\ f[1].phoff \in Nat /\ f[1].phnum \in Nat /\ f[1].phnum > 0
           /\ f[1].phoff + f[1].phnum < Len(f) /\ Len(f) > 1
           /\ \A j \in 1 .. f[1].phnum : /\ Header(f, j) \in Contents /\ IsHeader(Header(f, j))
                                         /\ Header(f, j).kind = "header"
<1>1. Len(f) \in Nat \ {0} /\ DOMAIN f = 1 .. Len(f)
    BY ProgramsAssumption DEF WellFormed
<1>2. f[1] \in Contents
    BY <1>1 DEF Contents
<1>3. f[1].phoff \in Nat /\ f[1].phnum \in Nat
    BY <1>2, CellsAssumption DEF WellFormed, IsElf
<1>4. f[1].phnum > 0
    BY <1>3 DEF WellFormed, Loads
<1>5. f[1].phoff + f[1].phnum < Len(f)
    BY DEF WellFormed
<1>6. ASSUME NEW j \in 1 .. f[1].phnum
      PROVE  /\ Header(f, j) \in Contents /\ IsHeader(Header(f, j))
             /\ Header(f, j).kind = "header"
    <2>1. f[1].phoff + j \in 1 .. Len(f)
        BY <1>1, <1>3, <1>5
    <2>2. Header(f, j) \in Contents
        BY <1>1, <2>1 DEF Header, Contents
    <2>3. Header(f, j).kind = "header"
        BY DEF WellFormed
    <2> QED BY <2>2, <2>3, CellsAssumption
<1> QED BY <1>1, <1>2, <1>3, <1>4, <1>5, <1>6

LEMMA HeaderNumbers ==
    ASSUME NEW h, IsHeader(h)
    PROVE  /\ h.off \in Nat /\ h.vaddr \in Nat /\ h.filesz \in Nat /\ h.memsz \in Nat
           /\ h.load \in BOOLEAN /\ EndOf(h) \in Nat
    BY DEF IsHeader, EndOf

(* A segment to load of a well-formed program. *)
LEMMA LinkedSegment ==
    ASSUME NEW f \in Programs, WellFormed(f), NEW j \in Loads(f)
    PROVE  /\ j \in 1 .. f[1].phnum /\ IsHeader(Header(f, j)) /\ Header(f, j).load
           /\ Header(f, j).filesz <= Header(f, j).memsz
           /\ Header(f, j).off + Header(f, j).filesz <= Len(f)
           /\ Header(f, j).vaddr % PGSIZE = 0
           /\ 2 <= VirtualPages
           /\ EndOf(Header(f, j)) <= (VirtualPages - 2) * PGSIZE
           /\ EndOf(Header(f, j)) < VirtualPages * PGSIZE
           /\ VirtualPages * PGSIZE < ADDRESSES
           /\ \A k \in Loads(f) : k # j =>
                 \/ EndOf(Header(f, j)) <= Header(f, k).vaddr
                 \/ EndOf(Header(f, k)) <= Header(f, j).vaddr
<1>1. j \in 1 .. f[1].phnum /\ IsHeader(Header(f, j)) /\ Header(f, j).load
    BY Linked DEF Loads
<1>2. EndOf(Header(f, j)) \in Nat
    BY <1>1, HeaderNumbers
<1>3. /\ Header(f, j).filesz <= Header(f, j).memsz
      /\ Header(f, j).off + Header(f, j).filesz <= Len(f)
      /\ Header(f, j).vaddr % PGSIZE = 0
      /\ EndOf(Header(f, j)) <= (VirtualPages - 2) * PGSIZE
    BY DEF WellFormed, EndOf
<1>4. \A k \in Loads(f) : k # j =>
         \/ EndOf(Header(f, j)) <= Header(f, k).vaddr
         \/ EndOf(Header(f, k)) <= Header(f, j).vaddr
    BY DEF WellFormed, EndOf
<1>5. 2 <= VirtualPages
    <2>1. CASE VirtualPages = 1
        <3>1. (VirtualPages - 2) * PGSIZE = - PGSIZE
            BY <2>1
        <3> QED BY <1>2, <1>3, <3>1
    <2> QED BY <2>1
<1>6. EndOf(Header(f, j)) < VirtualPages * PGSIZE
    <2>1. VirtualPages - 2 \in Nat /\ VirtualPages - 2 < VirtualPages
        BY <1>5
    <2>2. (VirtualPages - 2) * PGSIZE + PGSIZE <= VirtualPages * PGSIZE
          /\ (VirtualPages - 2) * PGSIZE \in Nat /\ VirtualPages * PGSIZE \in Nat
        BY <2>1, Multiples
    <2> QED BY <1>2, <1>3, <2>2
<1> QED BY <1>1, <1>3, <1>4, <1>5, <1>6

LEMMA FileInPlace ==
    ASSUME MkfsInv, NEW place \in Nat, NEW n \in Recorded(place), Intact(n)
    PROVE  LET f == info[n].prog IN
           /\ n \in 1 .. Len(info) /\ f \in Programs /\ Len(f) \in Nat /\ WellFormed(f)
           /\ place + Len(f) <= AreaEnd
           /\ At(info[n].end) = place + Len(f) - 1
           /\ \A c \in Nat : c + 1 < Len(f) => place + c \in Cells /\ disk[place + c] = f[c + 1]
<1> DEFINE f == info[n].prog
           last == At(info[n].end)
<1>1. n \in 1 .. Len(info) /\ At(info[n].start) = place /\ WellFormed(f)
      /\ \A p \in BegunAfter(n) : last <= At(p)
    BY DEF Recorded, Intact, Whole, Last
<1>2. info[n] \in Records
    BY <1>1, ElementOfSeq DEF MkfsInv, MkfsTypeOK
<1>3. f \in Programs /\ last \in Int
    BY <1>2, EndInt DEF Records
<1>4. Len(f) \in Nat
    BY <1>3, ProgramsAssumption
<1>5. last - place + 1 = Len(f) /\ last < AreaEnd
    BY <1>1 DEF MkfsInv, ProgramsInPlace, Advancing, Last
<1>6. \A p \in BegunAfter(n) : At(p) \in Int
    <2>1. \A t \in 1 .. Len(tried) : tried[t] \in Tries
        BY ElementOfSeq DEF MkfsInv, MkfsTypeOK
    <2>2. BegunAfter(n) \subseteq Places
        <3>1. storing => start \in Places
            BY DEF MkfsInv, MkfsTypeOK
        <3>2. \A t \in TriesAfter(n) : tried[t].start \in Places
            BY <2>1 DEF TriesAfter, Tries
        <3> QED BY <3>1, <3>2 DEF BegunAfter
    <2> QED BY <2>2, AtNat
<1>7. ASSUME NEW a \in place .. last, a < last PROVE disk[a] = f[a - place + 1]
    <2>1. \A p \in BegunAfter(n) : a < At(p)
        BY <1>1, <1>3, <1>6, <1>7
    <2> QED BY <1>1, <2>1 DEF MkfsInv, ProgramsInPlace, Last
<1> HIDE DEF f, last
<1>8. last = place + Len(f) - 1 /\ place + Len(f) <= AreaEnd
    BY <1>3, <1>4, <1>5, AreaFits
<1>9. ASSUME NEW c \in Nat, c + 1 < Len(f)
      PROVE  place + c \in Cells /\ disk[place + c] = f[c + 1]
    <2>1. place + c \in place .. last /\ place + c < last /\ (place + c) - place + 1 = c + 1
        BY <1>4, <1>8, <1>9
    <2>2. place + c \in Nat /\ place + c < AreaEnd
        BY <1>4, <1>8, <1>9, AreaFits
    <2> QED BY <1>7, <2>1, <2>2, CellOf
<1> QED BY <1>1, <1>3, <1>4, <1>8, <1>9 DEF f, last

(* What is read behind the start of a program. *)
LEMMA StartSplit ==
    ASSUME NEW s \in Nat, from = s
    PROVE  /\ StartOffset \in Nat /\ StartOffset <= s /\ StartBlock \in Nat
           /\ StartBlock + StartOffset = s
<1> DEFINE o == s % BSIZE
<1>1. o \in Nat /\ o <= s
    <2>1. o \in 0 .. BSIZE - 1 /\ s = (s \div BSIZE) * BSIZE + o /\ (s \div BSIZE) * BSIZE \in Nat
        BY Divided
    <2> HIDE DEF o
    <2> QED BY <2>1
<1>2. StartOffset = o /\ StartBlock = s - o
    BY DEF StartOffset, StartBlock
<1> HIDE DEF o
<1> QED BY <1>1, <1>2

LEMMA DiskCounts ==
    ASSUME NEW a \in Nat, a < DISKSIZE * BSIZE
    PROVE  a % ADDRESSES = a /\ AsInt(a) = a
<1> DEFINE room == DISKSIZE * BSIZE
<1>1. room \in Nat /\ 2 * room <= INTS /\ INTS \in Nat \ {0} /\ INTS <= ADDRESSES
      /\ ADDRESSES \in Nat /\ a < room
    BY CellsAreNumbers, IntsAssumption
<1> HIDE DEF room
<1>2. a < ADDRESSES /\ a < INTS /\ a < INTS \div 2 /\ ADDRESSES \in Nat \ {0}
    BY <1>1
<1>3. a % ADDRESSES = a /\ a % INTS = a
    BY <1>1, <1>2, ModSmall
<1> QED BY <1>2, <1>3 DEF AsInt

LEMMA ReadBehind ==
    ASSUME NEW s \in Nat, from = s, NEW x \in Nat, NEW y \in Nat, s + x + y < DISKSIZE * BSIZE
    PROVE  /\ StartBlock + ((x + StartOffset) % ADDRESSES) = s + x
           /\ AsInt(StartOffset + x) >= 0
           /\ (StartBlock + AsInt(StartOffset + x) + y) % ADDRESSES = s + x + y
<1> DEFINE o == StartOffset
           b == StartBlock
           room == DISKSIZE * BSIZE
           z == o + x
<1>1. o \in Nat /\ b \in Nat /\ b + o = s /\ o <= s
    BY StartSplit
<1>2. room \in Nat /\ s + x + y < room
    BY CellsAreNumbers
<1> HIDE DEF o, b, room
<1>3. z \in Nat /\ z < room /\ b + z = s + x /\ x + o = z
    BY <1>1, <1>2
<1> HIDE DEF z
<1>4. z % ADDRESSES = z /\ AsInt(z) = z
    BY <1>3, DiskCounts DEF room
<1>5. b + z + y = s + x + y
    BY <1>1, <1>3
<1>6. (s + x + y) % ADDRESSES = s + x + y
    <2> DEFINE w == s + x + y
    <2>1. w \in Nat /\ w < DISKSIZE * BSIZE
        BY <1>2 DEF room
    <2> HIDE DEF w
    <2>2. w % ADDRESSES = w
        BY <2>1, DiskCounts
    <2> QED BY <2>2 DEF w
<1>7. StartBlock = b /\ StartOffset = o /\ AsInt(o + x) = z /\ (x + o) % ADDRESSES = z
    BY <1>3, <1>4 DEF b, o, z
<1> QED BY <1>3, <1>5, <1>6, <1>7

-----------------------------------------------------------------------------
(***************************************************************************)
(* Pages, and what a step leaves alone.                                    *)
(***************************************************************************)
PagesTold == \A m \in maps : PageOf(m.table, m.virtual) = m.page

LEMMA PagesAreTold == MapsApart => PagesTold
<1> SUFFICES ASSUME MapsApart, NEW m \in maps
             PROVE  PageOf(m.table, m.virtual) = m.page
    BY DEF PagesTold
<1> DEFINE x == CHOOSE y \in maps : y.table = m.table /\ y.virtual = m.virtual
<1>1. x \in maps /\ x.table = m.table /\ x.virtual = m.virtual
    OBVIOUS
<1>2. x = m
    BY <1>1 DEF MapsApart
<1>3. PageOf(m.table, m.virtual) = x.page
    BY DEF PageOf
<1> QED BY <1>2, <1>3

LEMMA PagesAreToldNext == MapsApart' => PagesTold'
    BY PagesAreTold, PTL

LEMMA OwnPage ==
    ASSUME MapsApart, NEW t, NEW v, IsAllocated(t, v)
    PROVE  /\ PageOf(t, v) \in Pages
           /\ \A u, w : IsAllocated(u, w) /\ PageOf(u, w) = PageOf(t, v) => u = t /\ w = v
<1>1. PICK m \in maps : m.table = t /\ m.virtual = v
    BY DEF IsAllocated
<1>2. PagesTold
    BY PagesAreTold
<1>3. PageOf(t, v) = m.page /\ m.page \in Pages
    BY <1>1, <1>2 DEF PagesTold, MapsApart
<1>4. ASSUME NEW u, NEW w, IsAllocated(u, w), PageOf(u, w) = PageOf(t, v)
      PROVE  u = t /\ w = v
    <2>1. PICK x \in maps : x.table = u /\ x.virtual = w
        BY <1>4 DEF IsAllocated
    <2>2. x.page = m.page
        BY <1>2, <1>3, <1>4, <2>1 DEF PagesTold
    <2>3. x = m
        BY <2>2 DEF MapsApart
    <2> QED BY <1>1, <2>1, <2>3
<1> QED BY <1>3, <1>4

(* A mapping stays while the maps grow. *)
LEMMA PagesStay ==
    ASSUME MapsApart, MapsApart', maps \subseteq maps', NEW t, NEW v, IsAllocated(t, v)
    PROVE  IsAllocated(t, v)' /\ PageOf(t, v)' = PageOf(t, v)
<1>1. PICK m \in maps : m.table = t /\ m.virtual = v
    BY DEF IsAllocated
<1>2. PagesTold /\ PagesTold'
    BY PagesAreTold, PagesAreToldNext
<1>3. PageOf(t, v) = m.page
    BY <1>1, <1>2 DEF PagesTold
<1>4. m \in maps'
    OBVIOUS
<1>5. PageOf(t, v)' = m.page
    BY <1>1, <1>2, <1>4 DEF PagesTold
<1>6. IsAllocated(t, v)'
    BY <1>1, <1>4 DEF IsAllocated
<1> QED BY <1>3, <1>5, <1>6

LEMMA MemoryStays ==
    ASSUME MapsApart, MapsApart', maps \subseteq maps', NEW t, NEW a, IsAllocated(t, VirtPage(a)),
           LET p == PageOf(t, VirtPage(a)) IN ram'[p][a % PGSIZE] = ram[p][a % PGSIZE]
    PROVE  InMemory(t, a)' = InMemory(t, a)
<1>1. PageOf(t, VirtPage(a))' = PageOf(t, VirtPage(a))
    BY PagesStay
<1>2. InMemory(t, a)' = ram'[PageOf(t, VirtPage(a))'][a % PGSIZE]
    BY DEF InMemory
<1> QED BY <1>1, <1>2 DEF InMemory

(* The properties, of a process p and a program that may be its own. *)
Built(p, n) ==
    LET f == info[n].prog
    IN /\ Lists(p.list, f, f[1].phnum)
       /\ \A k \in 1 .. Len(p.list) :
             LET h == p.list[k].h
             IN \A c \in 0 .. h.memsz - 1 :
                   /\ IsAllocated(p.pid, VirtPage(h.vaddr + c))
                   /\ c < h.filesz /\ h.off + c < Len(f) - 1 =>
                         InMemory(p.pid, h.vaddr + c) = f[h.off + c + 1]

Stacked(p) ==
    LET top == p.sp \div PGSIZE
    IN /\ {top - 1, top - 2} \subseteq {m.virtual : m \in {x \in maps : x.table = p.pid}}
       /\ \A m \in maps : m.table = p.pid => m.virtual < top
       /\ \A k \in 1 .. Len(p.list) :
             p.list[k].h.vaddr + p.list[k].h.memsz <= (top - 2) * PGSIZE

LEMMA PropertiesAre ==
    /\ LoadedAsBuilt <=> \A p \in pd : \A n \in Recorded(p.from) :
                            Intact(n) => Built(p, n)
    /\ StackAboveProgram <=> \A p \in pd : \A n \in Recorded(p.from) :
                                Intact(n) => Stacked(p)
<1>1. LoadedAsBuilt <=> \A p \in pd : \A n \in Recorded(p.from) :
                           Intact(n) => Built(p, n)
    BY Zenon DEF LoadedAsBuilt, Built
<1>2. StackAboveProgram <=> \A p \in pd : \A n \in Recorded(p.from) :
                                Intact(n) => Stacked(p)
    BY Zenon DEF StackAboveProgram, Stacked
<1> QED BY <1>1, <1>2

LEMMA BuiltStays ==
    ASSUME MapsApart, MapsApart', maps \subseteq maps', UNCHANGED info, NEW p \in Processes, NEW n,
           \A v : \A o \in 0 .. PGSIZE - 1 :
              IsAllocated(p.pid, v) => ram'[PageOf(p.pid, v)][o] = ram[PageOf(p.pid, v)][o],
           Built(p, n)
    PROVE  Built(p, n)'
<1> DEFINE f == info[n].prog
<1>1. Lists(p.list, f, f[1].phnum)
    BY DEF Built
<1>2. Lists(p.list, f, f[1].phnum)'
    BY <1>1 DEF Lists, Header, Loads
<1>3. ASSUME NEW k \in 1 .. Len(p.list), NEW c \in 0 .. p.list[k].h.memsz - 1
      PROVE  LET h == p.list[k].h
             IN /\ IsAllocated(p.pid, VirtPage(h.vaddr + c))'
                /\ c < h.filesz /\ h.off + c < Len(f) - 1 =>
                      InMemory(p.pid, h.vaddr + c)' = f[h.off + c + 1]
    <2> DEFINE h == p.list[k].h
    <2>1. /\ IsAllocated(p.pid, VirtPage(h.vaddr + c))
          /\ c < h.filesz /\ h.off + c < Len(f) - 1 =>
                InMemory(p.pid, h.vaddr + c) = f[h.off + c + 1]
        BY <1>3 DEF Built
    <2>4. IsHeader(h)
        <3>1. p.list[k] \in Nodes
            BY ElementOfSeq DEF Processes
        <3> QED BY <3>1 DEF Nodes
    <2> HIDE DEF f
    <2>5. (h.vaddr + c) % PGSIZE \in 0 .. PGSIZE - 1
        <3>1. h.vaddr + c \in Nat
            BY <2>4, HeaderNumbers
        <3> HIDE DEF h
        <3> QED BY <3>1
    <2> HIDE DEF h
    <2>2. InMemory(p.pid, h.vaddr + c)' = InMemory(p.pid, h.vaddr + c)
        BY <2>1, <2>5, MemoryStays
    <2>3. IsAllocated(p.pid, VirtPage(h.vaddr + c))'
        BY <2>1, PagesStay
    <2> QED BY <2>1, <2>2, <2>3 DEF h
<1>4. f' = f
    OBVIOUS
<1> QED BY <1>2, <1>3, <1>4 DEF Built

LEMMA StackedStays ==
    ASSUME maps \subseteq maps', NEW p, \A m \in maps' \ maps : m.table # p.pid, Stacked(p)
    PROVE  Stacked(p)'
<1> DEFINE top == p.sp \div PGSIZE
<1>1. /\ {top - 1, top - 2} \subseteq {m.virtual : m \in {x \in maps : x.table = p.pid}}
      /\ \A m \in maps : m.table = p.pid => m.virtual < top
      /\ \A k \in 1 .. Len(p.list) :
            p.list[k].h.vaddr + p.list[k].h.memsz <= (top - 2) * PGSIZE
    BY DEF Stacked
<1> HIDE DEF top
<1>2. {top - 1, top - 2} \subseteq {m.virtual : m \in {x \in maps' : x.table = p.pid}}
    BY <1>1
<1>3. \A m \in maps' : m.table = p.pid => m.virtual < top
    BY <1>1
<1> QED BY <1>1, <1>2, <1>3 DEF Stacked, top

LEMMA PidStays ==
    ASSUME UNCHANGED pd
    PROVE  FreePids' = FreePids /\ pid' = pid
<1>1. FreePids' = FreePids
    BY DEF FreePids
<1> QED BY <1>1 DEF pid

LEMMA IntactStays ==
    ASSUME LoaderInv, UNCHANGED mkfsVars, NEW n
    PROVE  Intact(n)' <=> Intact(n)
<1>1. info' = info
    BY DEF mkfsVars
<1>2. Whole(n)' <=> Whole(n)
    BY MkfsStays DEF LoaderInv
<1>3. WellFormed(info[n].prog)' <=> WellFormed(info[n].prog)
    BY <1>1 DEF WellFormed, Header, Loads
<1> QED BY <1>2, <1>3 DEF Intact

LEMMA LoadingStays ==
    ASSUME LoaderInv, UNCHANGED mkfsVars, UNCHANGED <<info, from>>, NEW n
    PROVE  /\ Loading(n)' <=> Loading(n)
           /\ n \in Recorded(from)' <=> n \in Recorded(from)
           /\ Intact(n)' <=> Intact(n)
<1>1. n \in Recorded(from)' <=> n \in Recorded(from)
    BY DEF Recorded, At
<1>2. Intact(n)' <=> Intact(n)
    BY IntactStays
<1> QED BY <1>1, <1>2 DEF Loading

(* No step but the last changes a process that is there. *)
LEMMA PropertiesStay ==
    ASSUME LoaderInv, MapsApart', UNCHANGED mkfsVars, UNCHANGED <<info, pd>>, maps \subseteq maps',
           \A p \in pd : \A v : \A o \in 0 .. PGSIZE - 1 :
              IsAllocated(p.pid, v) => ram'[PageOf(p.pid, v)][o] = ram[PageOf(p.pid, v)][o],
           \A m \in maps' \ maps : \A p \in pd : m.table # p.pid
    PROVE  LoadedAsBuilt' /\ StackAboveProgram'
<1>1. ASSUME NEW p \in pd, NEW n \in Recorded(p.from)', Intact(n)'
      PROVE  Built(p, n)' /\ Stacked(p)'
    <2>1. n \in Recorded(p.from) /\ Intact(n)
        BY <1>1, IntactStays DEF Recorded, At
    <2>2. Built(p, n) /\ Stacked(p)
        BY <2>1, PropertiesAre DEF LoaderInv
    <2>3. MapsApart /\ p \in Processes
        BY DEF LoaderInv, LoaderTyped
    <2>4. Built(p, n)'
        BY <2>2, <2>3, BuiltStays
    <2>5. Stacked(p)'
        BY <2>2, StackedStays
    <2> QED BY <2>4, <2>5
<1>2. LoadedAsBuilt'
    BY <1>1 DEF LoadedAsBuilt, Built
<1>3. StackAboveProgram'
    BY <1>1 DEF StackAboveProgram, Stacked
<1> QED BY <1>2, <1>3

LEMMA Runs ==
    ASSUME LoaderInv, NEW where, Running(where)
    PROVE  /\ booted' /\ pc = where /\ ~errorOccurred
           /\ UNCHANGED mkfsVars /\ UNCHANGED <<disk, info>> /\ MkfsInv'
<1>1. pc = where /\ ~errorOccurred /\ UNCHANGED mkfsVars
    BY DEF Running
<1>2. booted'
    <2>1. booted \in BOOLEAN /\ booted' = booted /\ booted = TRUE
        BY DEF LoaderInv, LoaderTyped, Running
    <2> QED BY <2>1
<1>3. MkfsInv'
    BY <1>1, MkfsStays DEF LoaderInv
<1> QED BY <1>1, <1>2, <1>3 DEF mkfsVars

LEMMA StopInv ==
    ASSUME LoaderInv, booted', UNCHANGED mkfsVars, Stop, LoadsWellFormed'
    PROVE  LoaderInv'
<1>1. /\ errorOccurred' \in BOOLEAN
      /\ UNCHANGED <<existing, maps, ram, pd, pc, from, to, hdr, i, cnt, list, seg, mapped, stack>>
      /\ UNCHANGED <<disk, info>>
    BY DEF Stop, Spaces!Stop, reader, loader, mkfsVars
<1>2. FreePids' = FreePids /\ pid' = pid
    BY <1>1, PidStays
<1>3. \A n : Loading(n)' <=> Loading(n)
    BY <1>1, LoadingStays
<1>4. MkfsInv'
    BY MkfsStays DEF LoaderInv
<1>5. LoaderTyped'
    <2>1. LoaderTyped
        BY DEF LoaderInv
    <2> QED BY <1>1, <1>2, <2>1 DEF LoaderTyped, IsElf
<1>6. NodesGrow' /\ MapsApart' /\ MapsOwned'
    BY <1>1, <1>2 DEF LoaderInv, NodesGrow, MapsApart, MapsOwned, InProcess
<1>7. SegmentsMapped'
    BY <1>1, <1>2 DEF LoaderInv, SegmentsMapped, HasPages, IsAllocated, Segment, Before, InProcess
<1>8. HeadersRead'
    BY <1>1, <1>3 DEF LoaderInv, HeadersRead, InProcess
<1>9. StackIsAbove'
    BY <1>1, <1>2, <1>3 DEF LoaderInv, StackIsAbove, InProcess, Before, Segment, IsAllocated
<1>10. SegmentsInPlace'
    <2>1. SegmentsInPlace
        BY DEF LoaderInv
    <2>2. /\ InProcess' <=> InProcess
          /\ \A k : Before(k)' <=> Before(k)
          /\ \A t, h, f : InPlace(t, h, f)' <=> InPlace(t, h, f)
        BY <1>1 DEF InProcess, Before, InPlace
    <2> QED BY <1>1, <1>2, <1>3, <2>1, <2>2 DEF SegmentsInPlace
<1>11. LoadedAsBuilt' /\ StackAboveProgram'
    BY <1>1, <1>6, PropertiesStay
<1> QED BY <1>4, <1>5, <1>6, <1>7, <1>8, <1>9, <1>10, <1>11 DEF LoaderInv

(* A step of the reader: nothing is mapped or stored. *)
LEMMA ReaderStep ==
    ASSUME LoaderInv, ~errorOccurred, UNCHANGED mkfsVars, UNCHANGED <<disk, info>>,
           UNCHANGED <<spaces, ram, pd>>
    PROVE  /\ MapsApart' /\ LoadedAsBuilt' /\ StackAboveProgram' /\ LoadsWellFormed'
           /\ FreePids' = FreePids /\ pid' = pid
           /\ UNCHANGED <<maps, errorOccurred, pd>>
<1>1. UNCHANGED <<maps, errorOccurred, pd, info, ram>>
    BY DEF spaces
<1>2. MapsApart'
    BY <1>1 DEF LoaderInv, MapsApart
<1>3. LoadedAsBuilt' /\ StackAboveProgram'
    BY <1>1, <1>2, PropertiesStay
<1>4. LoadsWellFormed'
    BY <1>1 DEF LoadsWellFormed
<1> QED BY <1>1, <1>2, <1>3, <1>4, PidStays

-----------------------------------------------------------------------------
(***************************************************************************)
(* createProcess, elfReader.                                               *)
(***************************************************************************)
LEMMA CreateProcessInv ==
    ASSUME LoaderInv, NEW s, NEW e, CreateProcess(s, e)
    PROVE  LoaderInv'
<1>1. /\ booted' /\ pc = "idle" /\ ~errorOccurred
      /\ UNCHANGED mkfsVars /\ UNCHANGED <<disk, info>> /\ MkfsInv'
    BY Runs DEF CreateProcess
<1>2. CASE Stop
    <2>1. LoadsWellFormed'
        BY <1>1, <1>2 DEF Stop, LoadsWellFormed
    <2> QED BY <1>1, <1>2, <2>1, StopInv
<1>3. CASE ~Stop
    <2>1. /\ FreePids # {} /\ s \in Cells
          /\ pc' = "elf header" /\ from' = s /\ cnt' = 0 /\ list' = <<>>
          /\ UNCHANGED <<spaces, ram, pd>> /\ UNCHANGED <<i, seg, mapped, stack>>
        BY <1>3 DEF CreateProcess, loader
    <2>2. /\ MapsApart' /\ LoadedAsBuilt' /\ StackAboveProgram' /\ LoadsWellFormed'
          /\ FreePids' = FreePids /\ pid' = pid
          /\ UNCHANGED <<maps, errorOccurred, pd>>
        BY <1>1, <2>1, ReaderStep
    <2>3. list' \in Seq(Nodes) /\ Len(list') = 0
        BY <2>1, EmptySeq
    <2>4. LoaderTyped'
        BY <1>1, <2>1, <2>2, <2>3 DEF LoaderInv, LoaderTyped
    <2>5. NodesGrow'
        BY <2>3 DEF NodesGrow
    <2>6. MapsOwned'
        BY <1>1, <2>1, <2>2 DEF LoaderInv, MapsOwned, InProcess
    <2>7. SegmentsMapped' /\ StackIsAbove' /\ SegmentsInPlace'
        BY <2>1 DEF SegmentsMapped, StackIsAbove, SegmentsInPlace, InProcess
    <2>8. HeadersRead'
        BY <2>1 DEF HeadersRead, InProcess
    <2> QED BY <1>1, <2>2, <2>4, <2>5, <2>6, <2>7, <2>8 DEF LoaderInv
<1> QED BY <1>2, <1>3

LEMMA NothingListed ==
    ASSUME NEW f
    PROVE  Lists(<<>>, f, 0)
<1> DEFINE at == [k \in 1 .. 0 |-> 0]
<1>1. Len(<<>>) = 0 /\ 1 .. 0 = {}
    BY EmptySeq
<1>2. at \in [1 .. Len(<<>>) -> 1 .. 0]
    BY <1>1
<1>3. {at[k] : k \in 1 .. Len(<<>>)} = Loads(f) \cap (1 .. 0)
    BY <1>1
<1> HIDE DEF at
<1> QED BY <1>1, <1>2, <1>3 DEF Lists

(* A well-formed program is on the disk where it is read from. *)
LEMMA LoadingIs ==
    ASSUME LoaderInv, NEW n, Loading(n)
    PROVE  LET f == info[n].prog IN
           /\ n \in 1 .. Len(info) /\ f \in Programs /\ WellFormed(f) /\ Len(f) \in Nat
           /\ from \in Nat /\ from + Len(f) <= AreaEnd
           /\ At(info[n].end) = from + Len(f) - 1
           /\ \A c \in Nat : c + 1 < Len(f) => from + c \in Cells /\ disk[from + c] = f[c + 1]
<1>1. MkfsInv /\ from \in Nat
    <2>1. MkfsInv /\ from \in Cells
        BY DEF LoaderInv, LoaderTyped
    <2> QED BY <2>1, CellsAreNumbers DEF Cells
<1>2. n \in Recorded(from) /\ Intact(n)
    BY DEF Loading
<1> QED BY <1>1, <1>2, FileInPlace

LEMMA ReadElfHeaderInv ==
    ASSUME LoaderInv, ReadElfHeader
    PROVE  LoaderInv'
<1>1. /\ booted' /\ pc = "elf header" /\ ~errorOccurred
      /\ UNCHANGED mkfsVars /\ UNCHANGED <<disk, info>> /\ MkfsInv'
    BY Runs DEF ReadElfHeader
<1>2. ASSUME NEW n, Loading(n) PROVE disk[from] = info[n].prog[1] /\ disk[from].kind = "elf"
    <2> DEFINE f == info[n].prog
    <2>1. /\ f \in Programs /\ WellFormed(f) /\ from \in Nat
          /\ \A c \in Nat : c + 1 < Len(f) => from + c \in Cells /\ disk[from + c] = f[c + 1]
        BY <1>2, LoadingIs
    <2>2. 0 + 1 < Len(f)
        BY <2>1, Linked
    <2> HIDE DEF f
    <2>3. disk[from + 0] = f[0 + 1]
        BY <2>1, <2>2
    <2>4. from + 0 = from /\ 0 + 1 = 1
        BY <2>1
    <2> QED BY <2>1, <2>3, <2>4 DEF WellFormed, f
<1>3. CASE disk[from].kind # "elf"
    <2>1. Stop
        BY <1>3 DEF ReadElfHeader
    <2>2. LoadsWellFormed'
        <3>1. ASSUME NEW n \in Recorded(from)', Intact(n)' PROVE FALSE
            <4>1. UNCHANGED <<info, from>>
                BY <1>1, <2>1 DEF Stop
            <4>2. Loading(n)
                BY <1>1, <3>1, <4>1, LoadingStays DEF Loading
            <4> QED BY <1>2, <1>3, <4>2
        <3> QED BY <3>1 DEF LoadsWellFormed
    <2> QED BY <1>1, <2>1, <2>2, StopInv
<1>4. CASE disk[from].kind = "elf"
    <2>1. /\ pc' = "headers" /\ hdr' = disk[from] /\ i' = 0
          /\ UNCHANGED <<spaces, ram, pd>> /\ UNCHANGED <<from, cnt, list, seg, mapped, stack>>
        BY <1>4 DEF ReadElfHeader, loader
    <2>2. /\ MapsApart' /\ LoadedAsBuilt' /\ StackAboveProgram' /\ LoadsWellFormed'
          /\ FreePids' = FreePids /\ pid' = pid
          /\ UNCHANGED <<maps, errorOccurred, pd>>
        BY <1>1, <2>1, ReaderStep
    <2>3. IsElf(hdr')
        <3>1. disk \in [Cells -> Contents] /\ from \in Cells
            BY DEF LoaderInv, LoaderTyped, MkfsInv, MkfsTypeOK
        <3> QED BY <1>4, <2>1, <3>1, CellsAssumption
    <2>4. LoaderTyped'
        BY <1>1, <2>1, <2>2, <2>3 DEF LoaderInv, LoaderTyped
    <2>5. NodesGrow'
        BY <2>1 DEF LoaderInv, NodesGrow
    <2>6. MapsOwned'
        BY <1>1, <2>1, <2>2 DEF LoaderInv, MapsOwned, InProcess
    <2>7. SegmentsMapped' /\ StackIsAbove' /\ SegmentsInPlace'
        BY <2>1 DEF SegmentsMapped, StackIsAbove, SegmentsInPlace, InProcess
    <2>8. HeadersRead'
        <3>1. list' = <<>> /\ cnt' = 0
            BY <1>1, <2>1 DEF LoaderInv, HeadersRead
        <3>2. ASSUME NEW n, Loading(n)'
              PROVE  hdr' = info'[n].prog[1] /\ i' <= info'[n].prog[1].phnum
                     /\ Lists(list', info'[n].prog, i')
            <4>1. Loading(n)
                BY <1>1, <2>1, <3>2, LoadingStays
            <4>2. hdr' = info[n].prog[1]
                BY <1>2, <2>1, <4>1
            <4>3. info[n].prog[1].phnum \in Nat
                BY <4>1, LoadingIs, Linked
            <4>4. Lists(<<>>, info[n].prog, 0)
                BY NothingListed
            <4>5. list' = <<>> /\ i' = 0 /\ info' = info
                BY <1>1, <2>1, <3>1
            <4> QED BY <4>2, <4>3, <4>4, <4>5
        <3> QED BY <2>1, <3>1, <3>2 DEF HeadersRead, InProcess
    <2> QED BY <1>1, <2>2, <2>4, <2>5, <2>6, <2>7, <2>8 DEF LoaderInv
<1> QED BY <1>3, <1>4

(* One more header is read: one to load comes to the list. *)
LEMMA ListGrows ==
    ASSUME NEW f, NEW l \in Seq(Nodes), NEW m \in Nat, NEW e \in Nodes, Lists(l, f, m),
           f[1].phnum \in Nat, m + 1 <= f[1].phnum, Header(f, m + 1).load, e.h = Header(f, m + 1)
    PROVE  Lists(Append(l, e), f, m + 1)
<1> DEFINE s == Append(l, e)
           z == Len(l)
<1>1. z \in Nat /\ Len(s) = z + 1 /\ s[z + 1] = e /\ \A k \in 1 .. z : s[k] = l[k]
    <2>1. Len(s) = z + 1 /\ s[z + 1] = e /\ z \in Nat
        BY AppendProperties, LenProperties
    <2>2. \A k \in 1 .. z : s[k] = l[k]
        BY AppendKeeps
    <2> QED BY <2>1, <2>2
<1>2. PICK at \in [1 .. z -> 1 .. m] :
         /\ \A j, k \in 1 .. z : j < k => at[j] < at[k]
         /\ \A k \in 1 .. z : l[k].h = Header(f, at[k])
         /\ {at[k] : k \in 1 .. z} = Loads(f) \cap (1 .. m)
    BY DEF Lists
<1> HIDE DEF s, z
<1> DEFINE b == [k \in 1 .. z + 1 |-> IF k = z + 1 THEN m + 1 ELSE at[k]]
<1>3. b[z + 1] = m + 1 /\ \A k \in 1 .. z : k \in 1 .. z + 1 /\ b[k] = at[k] /\ at[k] \in 1 .. m
    BY <1>1
<1>4. \A k \in 1 .. z + 1 : k = z + 1 \/ k \in 1 .. z
    BY <1>1
<1>5. b \in [1 .. z + 1 -> 1 .. m + 1]
    BY <1>1, <1>3, <1>4
<1> HIDE DEF b
<1>6. ASSUME NEW j \in 1 .. z + 1, NEW k \in 1 .. z + 1, j < k PROVE b[j] < b[k]
    <2>1. j \in 1 .. z
        BY <1>1, <1>6
    <2>2. CASE k = z + 1
        BY <1>3, <2>1, <2>2
    <2>3. CASE k \in 1 .. z
        BY <1>2, <1>3, <1>6, <2>1, <2>3
    <2> QED BY <1>4, <2>2, <2>3
<1>7. ASSUME NEW k \in 1 .. z + 1 PROVE s[k].h = Header(f, b[k])
    <2>1. CASE k = z + 1
        BY <1>1, <1>3, <2>1
    <2>2. CASE k \in 1 .. z
        BY <1>1, <1>2, <1>3, <2>2
    <2> QED BY <1>4, <2>1, <2>2
<1>8. {b[k] : k \in 1 .. z + 1} = Loads(f) \cap (1 .. m + 1)
    <2>1. m + 1 \in Loads(f) /\ 1 .. m + 1 = (1 .. m) \cup {m + 1}
        BY DEF Loads
    <2>2. {b[k] : k \in 1 .. z + 1} = {at[k] : k \in 1 .. z} \cup {m + 1}
        <3>1. \A k \in 1 .. z + 1 : b[k] \in {at[j] : j \in 1 .. z} \cup {m + 1}
            BY <1>3, <1>4
        <3>2. \A k \in 1 .. z : at[k] \in {b[j] : j \in 1 .. z + 1}
            BY <1>3
        <3>3. m + 1 \in {b[j] : j \in 1 .. z + 1}
            BY <1>1, <1>3
        <3> QED BY <3>1, <3>2, <3>3
    <2> QED BY <1>2, <2>1, <2>2
<1>9. Lists(s, f, m + 1)
    BY <1>1, <1>5, <1>6, <1>7, <1>8 DEF Lists
<1> QED BY <1>9 DEF s

LEMMA ListStays ==
    ASSUME NEW f, NEW l \in Seq(Nodes), NEW m \in Nat, Lists(l, f, m), ~Header(f, m + 1).load
    PROVE  Lists(l, f, m + 1)
<1>1. PICK at \in [1 .. Len(l) -> 1 .. m] :
         /\ \A j, k \in 1 .. Len(l) : j < k => at[j] < at[k]
         /\ \A k \in 1 .. Len(l) : l[k].h = Header(f, at[k])
         /\ {at[k] : k \in 1 .. Len(l)} = Loads(f) \cap (1 .. m)
    BY DEF Lists
<1>2. at \in [1 .. Len(l) -> 1 .. m + 1]
    <2>1. 1 .. m \subseteq 1 .. m + 1
        OBVIOUS
    <2> QED BY <2>1
<1>3. Loads(f) \cap (1 .. m + 1) = Loads(f) \cap (1 .. m)
    BY DEF Loads
<1> QED BY <1>1, <1>2, <1>3 DEF Lists

LEMMA InList ==
    ASSUME LoaderInv, NEW k \in 1 .. Len(list)
    PROVE  /\ IsHeader(list[k].h) /\ list[k].node \in Nat
           /\ list[k].node < cnt /\ list[k].node < ELFSIZE /\ list[k].h.filesz <= list[k].h.memsz
<1>1. list[k] \in Nodes
    BY ElementOfSeq DEF LoaderInv, LoaderTyped
<1> QED BY <1>1 DEF LoaderInv, NodesGrow, Nodes

(* What is read of a well-formed program is its next header. *)
LEMMA NextHeader ==
    ASSUME LoaderInv, pc = "headers", i < hdr.phnum, NEW n, Loading(n), NEW h \in HeadersThere
    PROVE  LET f == info[n].prog IN
           /\ HeaderPlace \in Cells /\ HeaderPlace <= At(info[n].end)
           /\ f[1].phnum \in Nat /\ i + 1 <= f[1].phnum /\ i + 1 \in 1 .. f[1].phnum
           /\ h = Header(f, i + 1) /\ Lists(list, f, i)
<1> DEFINE f == info[n].prog
           c == f[1].phoff + i
<1>1. /\ n \in 1 .. Len(info) /\ f \in Programs /\ WellFormed(f) /\ Len(f) \in Nat
      /\ from \in Nat /\ from + Len(f) <= AreaEnd /\ At(info[n].end) = from + Len(f) - 1
      /\ \A d \in Nat : d + 1 < Len(f) => from + d \in Cells /\ disk[from + d] = f[d + 1]
    BY LoadingIs
<1>2. /\ f[1].phoff \in Nat /\ f[1].phnum \in Nat /\ f[1].phoff + f[1].phnum < Len(f)
      /\ \A j \in 1 .. f[1].phnum : Header(f, j).kind = "header"
    BY <1>1, Linked
<1>3. hdr = f[1] /\ Lists(list, f, i)
    BY <1>1 DEF LoaderInv, HeadersRead
<1>4. i \in Nat
    BY DEF LoaderInv, LoaderTyped
<1> HIDE DEF f
<1>5. i + 1 \in 1 .. f[1].phnum /\ c \in Nat /\ c + 1 < Len(f) /\ c + 1 = f[1].phoff + (i + 1)
    <2> DEFINE x == f[1].phoff
               y == f[1].phnum
    <2>1. x \in Nat /\ y \in Nat /\ x + y < Len(f) /\ i < y /\ c = x + i
        BY <1>2, <1>3
    <2> HIDE DEF c, x, y
    <2>2. i + 1 \in 1 .. y /\ c \in Nat /\ c + 1 < Len(f) /\ c + 1 = x + (i + 1)
        BY <1>1, <1>4, <2>1
    <2> QED BY <2>2 DEF x, y
<1>6. HeaderPlace = from + c /\ FirstOff >= 0
    <2> DEFINE x == f[1].phoff
    <2>1. x \in Nat /\ c = x + i /\ hdr.phoff = x
        BY <1>2, <1>3
    <2> HIDE DEF x
    <2>2. from + x + i < DISKSIZE * BSIZE
        <3> DEFINE room == DISKSIZE * BSIZE
                   l == Len(f)
        <3>1. AreaEnd \in Nat /\ room \in Nat /\ AreaEnd <= room /\ l \in Nat
              /\ from + l <= AreaEnd /\ x + i + 1 < l
            BY <1>1, <1>5, <2>1, CellsAreNumbers, AreaFits
        <3> HIDE DEF room, l
        <3>2. from + x + i < room
            BY <1>1, <1>4, <2>1, <3>1
        <3> QED BY <3>2 DEF room
    <2>0. from \in Nat /\ i \in Nat
        BY <1>1, <1>4
    <2>3. FirstOff = AsInt(StartOffset + x)
        BY <2>1 DEF FirstOff
    <2>4. /\ AsInt(StartOffset + x) >= 0
          /\ (StartBlock + AsInt(StartOffset + x) + i) % ADDRESSES = from + x + i
        BY <2>0, <2>1, <2>2, ReadBehind
    <2>5. HeaderPlace = from + x + i
        BY <2>3, <2>4 DEF HeaderPlace
    <2>6. from + x + i = from + (x + i)
        BY <2>0, <2>1
    <2> QED BY <2>1, <2>3, <2>4, <2>5, <2>6
<1> HIDE DEF c
<1>7. HeaderPlace \in Cells /\ disk[HeaderPlace] = Header(f, i + 1)
    BY <1>1, <1>5, <1>6 DEF Header
<1>8. HeaderPlace <= At(info[n].end)
    BY <1>1, <1>5, <1>6
<1>9. disk[HeaderPlace].kind = "header"
    BY <1>2, <1>5, <1>7
<1>10. h = Header(f, i + 1)
    BY <1>6, <1>7, <1>9 DEF HeadersThere
<1> QED BY <1>2, <1>3, <1>5, <1>7, <1>8, <1>10 DEF f

LEMMA HeaderTyped ==
    ASSUME LoaderInv, NEW h \in HeadersThere
    PROVE  IsHeader(h) /\ h \in Contents \cup Garbage
<1>1. CASE HeaderPlace \in Cells /\ disk[HeaderPlace].kind = "header" /\ h = disk[HeaderPlace]
    <2>1. disk[HeaderPlace] \in Contents
        BY <1>1 DEF LoaderInv, MkfsInv, MkfsTypeOK
    <2> QED BY <1>1, <2>1, CellsAssumption
<1>2. CASE h \in Garbage
    BY <1>2, CellsAssumption
<1> QED BY <1>1, <1>2 DEF HeadersThere

(* A segment of a well-formed program is taken, if there is a node. *)
LEMMA LinkedIsValid ==
    ASSUME NEW f \in Programs, WellFormed(f), NEW j \in Loads(f), NodeLeft
    PROVE  Valid(Header(f, j))
<1> DEFINE h == Header(f, j)
<1>1. /\ IsHeader(h) /\ h.filesz <= h.memsz /\ h.vaddr % PGSIZE = 0
      /\ 2 <= VirtualPages /\ EndOf(h) <= (VirtualPages - 2) * PGSIZE
    BY LinkedSegment
<1> HIDE DEF h
<1>2. h.vaddr \in Nat /\ h.memsz \in Nat /\ h.filesz \in Nat /\ EndOf(h) \in Nat
    BY <1>1, HeaderNumbers
<1>3. EndOf(h) % ADDRESSES = EndOf(h)
    BY <1>1, <1>2, RoundedUpLow
<1>4. (h.vaddr + h.memsz) % ADDRESSES >= h.vaddr
    BY <1>2, <1>3 DEF EndOf
<1>5. h.memsz >= h.filesz
    BY <1>1, <1>2
<1>6. Valid(h)
    BY <1>1, <1>4, <1>5 DEF Valid
<1> QED BY <1>6 DEF h

LEMMA ReadProgramHeaderInv ==
    ASSUME LoaderInv, ReadProgramHeader
    PROVE  LoaderInv'
<1>1. /\ booted' /\ pc = "headers" /\ ~errorOccurred
      /\ UNCHANGED mkfsVars /\ UNCHANGED <<disk, info>> /\ MkfsInv'
    BY Runs DEF ReadProgramHeader
<1>2. i < hdr.phnum /\ i \in Nat /\ cnt \in Nat /\ list \in Seq(Nodes) /\ cnt <= 2 * i
    BY <1>1 DEF ReadProgramHeader, LoaderInv, LoaderTyped, HeadersRead
<1>3. PICK h \in HeadersThere :
         IF HeaderPlace > to \/ HeaderPlace \notin Cells \/ (h.load /\ ~Valid(h)) THEN Stop
         ELSE /\ i' = i + 1
              /\ IF h.load
                 THEN cnt' = NextNode + 1 /\ list' = Append(list, [node |-> Node, h |-> h])
                 ELSE cnt' = cnt + 1 /\ UNCHANGED list
              /\ UNCHANGED <<spaces, ram, pd, pc, from, to, hdr, loader>>
    BY DEF ReadProgramHeader
<1>4. IsHeader(h) /\ h \in Contents \cup Garbage /\ h.load \in BOOLEAN
    BY HeaderTyped, HeaderNumbers
<1>5. CASE HeaderPlace > to \/ HeaderPlace \notin Cells \/ (h.load /\ ~Valid(h))
    <2>1. Stop
        BY <1>3, <1>5
    <2>2. UNCHANGED <<info, from, to>>
        BY <1>1, <2>1 DEF Stop
    <2>3. ASSUME NEW n, Loading(n), to = At(info[n].end), 2 * info[n].prog[1].phnum <= ELFSIZE
          PROVE  FALSE
        <3> DEFINE f == info[n].prog
        <3>1. /\ HeaderPlace \in Cells /\ HeaderPlace <= to
              /\ f[1].phnum \in Nat /\ i + 1 <= f[1].phnum /\ i + 1 \in 1 .. f[1].phnum
              /\ h = Header(f, i + 1) /\ f \in Programs /\ WellFormed(f)
            BY <1>1, <1>2, <2>3, NextHeader, LoadingIs
        <3>2. HeaderPlace \in Nat /\ to \in Nat
            <4>1. from + Len(f) - 1 \in Nat /\ to = from + Len(f) - 1
                BY <2>3, <3>1, LoadingIs, Linked
            <4> QED BY <3>1, <4>1, CellsAreNumbers DEF Cells
        <3> HIDE DEF f
        <3>3. ~(HeaderPlace > to)
            BY <3>1, <3>2
        <3>4. cnt < ELFSIZE
            <4>1. 2 * f[1].phnum <= ELFSIZE
                BY <2>3 DEF f
            <4> QED BY <1>2, <3>1, <4>1
        <3>5. h.load => Valid(h)
            BY <3>1, <3>4, LinkedIsValid DEF Loads, NodeLeft
        <3> QED BY <1>5, <3>1, <3>3, <3>5
    <2>4. LoadsWellFormed'
        <3> SUFFICES ASSUME NEW n \in Recorded(from)', to' = At(info'[n].end), Intact(n)',
                            2 * info'[n].prog[1].phnum <= ELFSIZE
                     PROVE  FALSE
            BY DEF LoadsWellFormed, At
        <3>1. Loading(n)
            BY <1>1, <2>2, LoadingStays DEF Loading
        <3> QED BY <2>2, <2>3, <3>1
    <2> QED BY <1>1, <2>1, <2>4, StopInv
<1>6. CASE ~(HeaderPlace > to \/ HeaderPlace \notin Cells \/ (h.load /\ ~Valid(h)))
    <2> DEFINE e == [node |-> Node, h |-> h]
    <2>1. /\ i' = i + 1 /\ UNCHANGED <<spaces, ram, pd>>
          /\ UNCHANGED <<pc, from, to, hdr, seg, mapped, stack>>
        BY <1>3, <1>6 DEF loader
    <2>2. /\ MapsApart' /\ LoadedAsBuilt' /\ StackAboveProgram' /\ LoadsWellFormed'
          /\ FreePids' = FreePids /\ pid' = pid
          /\ UNCHANGED <<maps, errorOccurred, pd>>
        BY <1>1, <2>1, ReaderStep
    <2>3. Node \in Nat /\ Node <= cnt /\ (list # <<>> => Node = cnt)
        BY <1>2 DEF Node
    <2>4. h.load => /\ Valid(h) /\ cnt' = Node + 2 /\ list' = Append(list, e)
        BY <1>3, <1>6, <2>3 DEF NextNode
    <2>5. ~h.load => cnt' = cnt + 1 /\ list' = list
        BY <1>3, <1>6
    <2>6. e \in Nodes /\ e.node = Node /\ e.h = h
        BY <1>4, <2>3 DEF Nodes
    <2> HIDE DEF e
    <2>7. h.load => /\ list' \in Seq(Nodes) /\ Len(list') = Len(list) + 1 /\ Len(list) \in Nat
                    /\ list'[Len(list) + 1] = e
                    /\ \A k \in 1 .. Len(list) : list'[k] = list[k]
        BY <1>2, <2>4, <2>6, AppendProperties, LenProperties
    <2>8. cnt' \in Nat /\ cnt' <= 2 * (i + 1) /\ list' \in Seq(Nodes)
        BY <1>2, <1>4, <2>3, <2>4, <2>5, <2>7
    <2>9. LoaderTyped'
        BY <1>1, <1>2, <2>1, <2>2, <2>8 DEF LoaderInv, LoaderTyped
    <2>10. NodesGrow'
        <3>1. CASE ~h.load
            <4>1. cnt' = cnt + 1 /\ list' = list
                BY <2>5, <3>1
            <4>2. ASSUME NEW k \in 1 .. Len(list) PROVE list[k].node < cnt + 1
                BY <1>2, InList
            <4> QED BY <4>1, <4>2 DEF LoaderInv, NodesGrow
        <3>2. CASE h.load
            <4> DEFINE z == Len(list)
            <4>1. /\ z \in Nat /\ Len(list') = z + 1 /\ list'[z + 1] = e /\ cnt' = Node + 2
                  /\ \A k \in 1 .. z : list'[k] = list[k]
                BY <2>4, <2>7, <3>2
            <4>2. Node < ELFSIZE /\ h.filesz <= h.memsz
                BY <1>2, <1>4, <2>3, <2>4, <3>2, HeaderNumbers DEF Valid, NodeLeft
            <4>3. ASSUME NEW k \in 1 .. z
                  PROVE  /\ list[k].node \in Nat /\ list[k].node < Node /\ list[k].node < ELFSIZE
                         /\ list[k].h.filesz <= list[k].h.memsz
                <5>1. list # <<>>
                    BY <4>1, <4>3, EmptySeq
                <5> QED BY <2>3, <5>1, InList
            <4>4. ASSUME NEW k \in 1 .. z + 1 PROVE k = z + 1 \/ k \in 1 .. z
                BY <4>1
            <4> HIDE DEF z
            <4>5. ASSUME NEW k \in 1 .. z + 1
                  PROVE  /\ list'[k].node < cnt' /\ list'[k].node < ELFSIZE
                         /\ list'[k].h.filesz <= list'[k].h.memsz
                <5>1. CASE k = z + 1
                    BY <2>3, <2>6, <4>1, <4>2, <5>1
                <5>2. CASE k \in 1 .. z
                    <6>1. list[k].node < Node + 2
                        BY <2>3, <4>3, <5>2
                    <6> QED BY <4>1, <4>3, <5>2, <6>1
                <5> QED BY <4>4, <5>1, <5>2
            <4>6. ASSUME NEW j \in 1 .. z + 1, NEW k \in 1 .. z + 1, j < k
                  PROVE  list'[j].node < list'[k].node
                <5>1. j \in 1 .. z
                    BY <4>1, <4>6
                <5>2. CASE k = z + 1
                    BY <2>6, <4>1, <4>3, <5>1, <5>2
                <5>3. CASE k \in 1 .. z
                    <6>1. list[j].node < list[k].node
                        BY <4>6, <5>1, <5>3 DEF LoaderInv, NodesGrow, z
                    <6> QED BY <4>1, <5>1, <5>3, <6>1
                <5> QED BY <4>4, <5>2, <5>3
            <4> QED BY <4>1, <4>5, <4>6 DEF NodesGrow
        <3> QED BY <3>1, <3>2
    <2>11. MapsOwned'
        BY <2>1, <2>2 DEF LoaderInv, MapsOwned, InProcess
    <2>12. SegmentsMapped' /\ StackIsAbove' /\ SegmentsInPlace'
        BY <1>1, <2>1 DEF SegmentsMapped, StackIsAbove, SegmentsInPlace, InProcess
    <2>13. HeadersRead'
        <3>1. ASSUME NEW n, Loading(n)'
              PROVE  hdr' = info'[n].prog[1] /\ i' <= info'[n].prog[1].phnum
                     /\ Lists(list', info'[n].prog, i')
            <4> DEFINE f == info[n].prog
            <4>1. Loading(n)
                BY <1>1, <2>1, <3>1, LoadingStays
            <4>2. /\ f[1].phnum \in Nat /\ i + 1 <= f[1].phnum
                  /\ h = Header(f, i + 1) /\ Lists(list, f, i)
                BY <1>1, <1>2, <4>1, NextHeader
            <4>3. hdr = f[1]
                BY <1>1, <4>1, LoadingIs DEF LoaderInv, HeadersRead
            <4> HIDE DEF f
            <4>4. Lists(list', f, i + 1)
                <5>1. CASE h.load
                    <6>1. Lists(Append(list, e), f, i + 1)
                        BY <1>2, <2>6, <4>2, <5>1, ListGrows
                    <6> QED BY <2>4, <5>1, <6>1
                <5>2. CASE ~h.load
                    <6>1. Lists(list, f, i + 1)
                        BY <1>2, <4>2, <5>2, ListStays
                    <6> QED BY <2>5, <5>2, <6>1
                <5> QED BY <5>1, <5>2
            <4>5. hdr' = hdr /\ i' = i + 1 /\ info'[n].prog = f
                BY <1>1, <2>1 DEF f
            <4> QED BY <4>2, <4>3, <4>4, <4>5
        <3> QED BY <1>1, <2>1, <2>8, <3>1 DEF HeadersRead, InProcess
    <2> QED BY <1>1, <2>2, <2>9, <2>10, <2>11, <2>12, <2>13 DEF LoaderInv
<1> QED BY <1>5, <1>6

(* A program that is loaded has a segment to load. *)
LEMMA SomethingToLoad ==
    ASSUME NEW f \in Programs, WellFormed(f)
    PROVE  2 <= VirtualPages /\ \E j \in 1 .. f[1].phnum : j \in Loads(f)
<1>1. PICK j : j \in Loads(f)
    BY DEF WellFormed
<1> QED BY <1>1, LinkedSegment

LEMMA NotEmptyList ==
    ASSUME NEW f \in Programs, WellFormed(f), NEW l, Lists(l, f, f[1].phnum)
    PROVE  l # <<>>
<1>1. PICK j \in 1 .. f[1].phnum : j \in Loads(f)
    BY SomethingToLoad
<1>2. PICK at : {at[k] : k \in 1 .. Len(l)} = Loads(f) \cap (1 .. f[1].phnum)
    BY DEF Lists
<1>3. \E k \in 1 .. Len(l) : at[k] = j
    BY <1>1, <1>2
<1> QED BY <1>3, EmptySeq

LEMMA AllHeadersReadInv ==
    ASSUME LoaderInv, AllHeadersRead
    PROVE  LoaderInv'
<1>1. /\ booted' /\ pc = "headers" /\ ~errorOccurred
      /\ UNCHANGED mkfsVars /\ UNCHANGED <<disk, info>> /\ MkfsInv'
    BY Runs DEF AllHeadersRead
<1>2. LoaderTyped /\ list \in Seq(Nodes) /\ Len(list) \in Nat /\ i \in Nat /\ i >= hdr.phnum
    BY LenProperties DEF AllHeadersRead, LoaderInv, LoaderTyped
<1>3. ASSUME NEW n, Loading(n)
      PROVE  /\ n \in 1 .. Len(info) /\ Lists(list, info[n].prog, info[n].prog[1].phnum)
             /\ list # <<>> /\ 2 <= VirtualPages
    <2> DEFINE f == info[n].prog
    <2>1. n \in 1 .. Len(info) /\ f \in Programs /\ WellFormed(f)
        BY <1>3, LoadingIs
    <2>2. hdr = f[1] /\ i <= f[1].phnum /\ Lists(list, f, i)
        BY <1>1, <1>3, <2>1 DEF LoaderInv, HeadersRead
    <2>3. f[1].phnum \in Nat
        BY <2>1, Linked
    <2> HIDE DEF f
    <2>4. i = f[1].phnum
        BY <1>2, <2>2, <2>3
    <2>5. Lists(list, f, f[1].phnum)
        BY <2>2, <2>4
    <2> QED BY <2>1, <2>5, NotEmptyList, SomethingToLoad DEF f
<1>4. CASE list = <<>>
    <2>1. Stop
        BY <1>4 DEF AllHeadersRead
    <2>2. LoadsWellFormed'
        <3>1. ASSUME NEW n \in Recorded(from)', Intact(n)' PROVE FALSE
            <4>1. UNCHANGED <<info, from>>
                BY <1>1, <2>1 DEF Stop
            <4>2. Loading(n)
                BY <1>1, <3>1, <4>1, LoadingStays DEF Loading
            <4> QED BY <1>3, <1>4, <4>2
        <3> QED BY <3>1 DEF LoadsWellFormed
    <2> QED BY <1>1, <2>1, <2>2, StopInv
<1>5. CASE list # <<>>
    <2>1. /\ pc' = "segments" /\ seg' = 1 /\ mapped' = 0 /\ stack' = 0
          /\ UNCHANGED <<maps, errorOccurred, ram, pd, from, hdr, i, cnt, list>>
        BY <1>5 DEF AllHeadersRead, Spaces!Create, reader
    <2>2. FreePids' = FreePids /\ pid' = pid
        BY <2>1, PidStays
    <2>3. InProcess' /\ ~InProcess /\ \A k : ~Before(k)'
        <3>1. \A k \in 1 .. Len(list) : ~(k < 1)
            BY <1>2
        <3> QED BY <1>1, <2>1, <3>1 DEF InProcess, Before
    <2>4. MapsApart'
        BY <2>1 DEF LoaderInv, MapsApart
    <2>5. LoadedAsBuilt' /\ StackAboveProgram'
        BY <1>1, <2>1, <2>4, PropertiesStay
    <2>6. LoadsWellFormed'
        BY <1>1, <2>1 DEF LoadsWellFormed
    <2>7. LoaderTyped'
        BY <1>1, <1>2, <2>1, <2>2 DEF LoaderTyped
    <2>8. NodesGrow'
        BY <2>1 DEF LoaderInv, NodesGrow
    <2>9. MapsOwned'
        BY <2>1, <2>3 DEF LoaderInv, MapsOwned
    <2>10. SegmentsMapped'
        <3>1. 1 \in 1 .. Len(list) + 1
            BY <1>2
        <3>2. ASSUME 1 <= Len(list)
              PROVE  0 <= Segment'.memsz /\ HasPages(pid, Segment, mapped)'
            <4>1. Segment' = list[1].h
                BY <2>1 DEF Segment
            <4>2. list[1].h.memsz \in Nat
                BY <1>2, <3>2, InList, HeaderNumbers
            <4>3. 0 .. mapped' - 1 = {}
                BY <2>1
            <4>4. HasPages(pid, Segment, mapped)'
                BY <4>3 DEF HasPages
            <4> QED BY <4>1, <4>2, <4>4
        <3> QED BY <2>1, <2>3, <3>1, <3>2 DEF SegmentsMapped
    <2>11. HeadersRead'
        <3>1. ASSUME NEW n, Loading(n)'
              PROVE  Lists(list', info'[n].prog, info'[n].prog[1].phnum)
            <4>1. Loading(n)
                BY <1>1, <2>1, <3>1, LoadingStays
            <4>2. list' = list /\ info' = info
                BY <1>1, <2>1
            <4> QED BY <1>3, <4>1, <4>2
        <3>2. pc' # "headers" /\ pc' # "elf header"
            BY <2>1
        <3> QED BY <3>1, <3>2 DEF HeadersRead
    <2>12. StackIsAbove'
        <3>1. ASSUME NEW n, Loading(n)' PROVE 0 <= VirtualPages - 2
            <4>1. Loading(n)
                BY <1>1, <2>1, <3>1, LoadingStays
            <4> QED BY <1>3, <4>1
        <3>2. ASSUME NEW m \in maps PROVE m.table # pid
            <4>1. PICK p \in pd : p.pid = m.table
                BY <2>3 DEF LoaderInv, MapsOwned
            <4>2. FreePids # {}
                BY <1>1, <1>2 DEF LoaderTyped
            <4> QED BY <4>1, <4>2, PidFree
        <3>3. stack' = 0 /\ pc' # "stack" /\ maps' = maps /\ pid' = pid
            BY <2>1, <2>2
        <3> QED BY <2>3, <3>1, <3>2, <3>3 DEF StackIsAbove
    <2>13. SegmentsInPlace'
        BY <2>3 DEF SegmentsInPlace
    <2> QED BY <1>1, <2>4, <2>5, <2>6, <2>7, <2>8, <2>9, <2>10, <2>11, <2>12, <2>13 DEF LoaderInv
<1> QED BY <1>4, <1>5

-----------------------------------------------------------------------------
(***************************************************************************)
(* programLoader.                                                          *)
(***************************************************************************)
(* The process that is made gets the virtual page v, if it has it not. *)
Grows(v) ==
    /\ maps \subseteq maps' /\ MapsApart' /\ UNCHANGED errorOccurred
    /\ \E m \in maps' : m.table = pid /\ m.virtual = v
    /\ \A m \in maps' \ maps : m.table = pid /\ m.virtual = v /\ ~IsAllocated(pid, v)

LEMMA AllocateGrows ==
    ASSUME MapsApart, FreePids # {}, NEW v \in VPages, Allocate(v)
    PROVE  Grows(v) /\ ~IsAllocated(pid, v)
<1>1. pid \in Pids
    BY PidFree
<1>2. PICK q \in Pages \ {m.page : m \in maps} :
         maps' = maps \cup {[table |-> pid, virtual |-> v, page |-> q, flags |-> RWX]}
    BY DEF Allocate, Spaces!Map
<1>3. ~IsAllocated(pid, v) /\ errorOccurred' = errorOccurred
    BY DEF Allocate, Spaces!Map, IsAllocated
<1> DEFINE x == [table |-> pid, virtual |-> v, page |-> q, flags |-> RWX]
<1>4. x.table = pid /\ x.virtual = v /\ x.page = q
    OBVIOUS
<1>5. maps' = maps \cup {x} /\ x \in maps'
    BY <1>2
<1>6. \A m \in maps : m.page # q /\ ~(m.table = pid /\ m.virtual = v)
    BY <1>2, <1>3 DEF IsAllocated
<1> HIDE DEF x
<1>7. MapsApart'
    <2>1. ASSUME NEW m \in maps' PROVE m.table \in Pids /\ m.virtual \in VPages /\ m.page \in Pages
        BY <1>1, <1>2, <1>4, <1>5, <2>1 DEF MapsApart
    <2>2. ASSUME NEW m \in maps', NEW n \in maps'
          PROVE  /\ m.table = n.table /\ m.virtual = n.virtual => m = n
                 /\ m.page = n.page => m = n
        <3>1. CASE m \in maps /\ n \in maps
            BY <3>1 DEF MapsApart
        <3>2. CASE m \in maps /\ n = x
            BY <1>4, <1>6, <3>2
        <3>3. CASE m = x /\ n \in maps
            BY <1>4, <1>6, <3>3
        <3>4. CASE m = x /\ n = x
            BY <3>4
        <3> QED BY <1>5, <3>1, <3>2, <3>3, <3>4
    <2> QED BY <2>1, <2>2 DEF MapsApart
<1>8. \E m \in maps' : m.table = pid /\ m.virtual = v
    BY <1>4, <1>5
<1> QED BY <1>3, <1>4, <1>5, <1>7, <1>8 DEF Grows

(* The segment of h is in memory after the step. *)
InPlaceNext(h, f) ==
    \A c \in 0 .. h.filesz - 1, m \in maps' :
        m.table = pid /\ m.virtual = VirtPage(h.vaddr + c) /\ h.off + c < Len(f) - 1
        => ram'[m.page][(h.vaddr + c) % PGSIZE] = f[h.off + c + 1]

LEMMA GrownPages ==
    ASSUME NEW v, Grows(v), UNCHANGED ram
    PROVE  /\ \A t, w : IsAllocated(t, w) => \E m \in maps' : m.table = t /\ m.virtual = w
           /\ \A h, f : /\ IsHeader(h) /\ h.filesz <= h.memsz
                        /\ HasPages(pid, h, h.memsz) /\ InPlace(pid, h, f)
                        => InPlaceNext(h, f)
<1>1. \A t, w : IsAllocated(t, w) => \E m \in maps' : m.table = t /\ m.virtual = w
    BY DEF Grows, IsAllocated
<1>3. ASSUME NEW h, NEW f, IsHeader(h), h.filesz <= h.memsz,
             HasPages(pid, h, h.memsz), InPlace(pid, h, f)
      PROVE  InPlaceNext(h, f)
    <2>1. ASSUME NEW c \in 0 .. h.filesz - 1, NEW m \in maps', m.table = pid,
                 m.virtual = VirtPage(h.vaddr + c), h.off + c < Len(f) - 1
          PROVE  ram'[m.page][(h.vaddr + c) % PGSIZE] = f[h.off + c + 1]
        <3>1. c \in 0 .. h.memsz - 1
            BY <1>3, HeaderNumbers
        <3>2. IsAllocated(pid, m.virtual)
            BY <1>3, <2>1, <3>1 DEF HasPages
        <3>3. m \in maps
            BY <2>1, <3>2 DEF Grows
        <3> QED BY <1>3, <2>1, <3>3 DEF InPlace
    <2> QED BY <2>1 DEF InPlaceNext
<1> QED BY <1>1, <1>3

(* It is called for a lack of pages, if the program is well-formed. *)
LEMMA StopForPages ==
    ASSUME LoaderInv, booted', UNCHANGED mkfsVars, Stop,
           \A n : Loading(n) => FreePages = {}
    PROVE  LoaderInv'
<1>1. UNCHANGED <<info, from, maps>>
    BY DEF Stop, Spaces!Stop, mkfsVars
<1>2. FreePages' = FreePages
    BY <1>1 DEF FreePages
<1>3. ASSUME NEW n \in Recorded(from)', Intact(n)' PROVE FreePages' = {}
    <2>1. Loading(n)
        BY <1>1, <1>3, LoadingStays DEF Loading
    <2> QED BY <1>2, <2>1
<1>4. LoadsWellFormed'
    BY <1>3 DEF LoadsWellFormed
<1> QED BY <1>4, StopInv

LEMMA MapCellInv ==
    ASSUME LoaderInv, MapCell
    PROVE  LoaderInv'
<1> DEFINE h == Segment
           v == VirtPage(h.vaddr + mapped)
<1>1. /\ booted' /\ pc = "segments" /\ ~errorOccurred
      /\ UNCHANGED mkfsVars /\ UNCHANGED <<disk, info>> /\ MkfsInv'
    BY Runs DEF MapCell, InSegments
<1>2. /\ LoaderTyped /\ MapsApart /\ seg \in 1 .. Len(list) /\ mapped < h.memsz /\ mapped \in Nat
      /\ HasPages(pid, h, mapped) /\ FreePids # {} /\ InProcess
    <2>1. LoaderTyped /\ MapsApart /\ seg <= Len(list) /\ mapped < h.memsz /\ mapped \in Nat
          /\ FreePids # {}
        BY <1>1 DEF MapCell, InSegments, LoaderInv, LoaderTyped
    <2>2. seg \in 1 .. Len(list) + 1 /\ HasPages(pid, h, mapped)
        BY <1>1, <2>1 DEF LoaderInv, SegmentsMapped
    <2>3. Len(list) \in Nat
        BY <2>1, LenProperties DEF LoaderTyped
    <2> QED BY <1>1, <2>1, <2>2, <2>3 DEF InProcess
<1>3. IsHeader(h) /\ h.vaddr \in Nat /\ h.memsz \in Nat /\ EndOf(h) \in Nat
      /\ EndOf(h) = h.vaddr + h.memsz
    BY <1>2, InList, HeaderNumbers DEF Segment, EndOf
<1>4. v \in VPages /\ v * PGSIZE < EndOf(h) /\ v \in Nat
    <2> HIDE DEF h
    <2>1. h.vaddr + mapped \in Nat /\ h.vaddr + mapped < EndOf(h)
        BY <1>2, <1>3
    <2>2. v \in VPages /\ v * PGSIZE <= h.vaddr + mapped /\ v \in Nat
        BY <2>1, VirtPageBounds
    <2>3. v * PGSIZE \in Nat
        BY <2>2
    <2> HIDE DEF v
    <2> QED BY <1>2, <1>3, <2>1, <2>2, <2>3
<1>5. CASE NeedsPage(v) /\ CannotAllocate(v)
    <2>1. Stop
        BY <1>5 DEF MapCell
    <2>2. FreePages = {}
        BY <1>5 DEF NeedsPage, CannotAllocate
    <2> QED BY <1>1, <2>1, <2>2, StopForPages
<1>6. CASE ~(NeedsPage(v) /\ CannotAllocate(v))
    <2>1. /\ mapped' = mapped + 1
          /\ UNCHANGED <<ram, pd, pc, from, to, hdr, i, cnt, list, seg, stack>>
          /\ IF NeedsPage(v) THEN Allocate(v) ELSE UNCHANGED spaces
        BY <1>6 DEF MapCell, reader
    <2>2. FreePids' = FreePids /\ pid' = pid
        BY <2>1, PidStays
    <2>3. Grows(v)
        <3>1. CASE NeedsPage(v)
            BY <1>2, <1>4, <2>1, <2>2, <3>1, AllocateGrows
        <3>2. CASE ~NeedsPage(v)
            <4>1. UNCHANGED <<maps, errorOccurred>> /\ IsAllocated(pid, v)
                BY <2>1, <3>2 DEF spaces, NeedsPage
            <4>2. MapsApart'
                BY <1>2, <4>1 DEF MapsApart
            <4> QED BY <4>1, <4>2 DEF Grows, IsAllocated
        <3> QED BY <3>1, <3>2
    <2> HIDE DEF v
    <2>4. /\ \A t, w : IsAllocated(t, w) => \E m \in maps' : m.table = t /\ m.virtual = w
          /\ \A g, f : /\ IsHeader(g) /\ g.filesz <= g.memsz
                       /\ HasPages(pid, g, g.memsz) /\ InPlace(pid, g, f)
                       => InPlaceNext(g, f)
        BY <2>1, <2>2, <2>3, GrownPages
    <2>5. LoadedAsBuilt' /\ StackAboveProgram'
        <3>1. \A p \in pd : p.pid # pid
            BY <1>2, PidFree
        <3> QED BY <1>1, <2>1, <2>3, <3>1, PropertiesStay DEF Grows
    <2>6. LoadsWellFormed' /\ MapsApart'
        BY <1>1, <2>3 DEF LoadsWellFormed, Grows
    <2>7. LoaderTyped'
        BY <1>1, <1>2, <2>1, <2>2, <2>3 DEF LoaderTyped, Grows
    <2>8. NodesGrow'
        BY <2>1 DEF LoaderInv, NodesGrow
    <2>9. MapsOwned' /\ InProcess'
        BY <1>2, <2>1, <2>2, <2>3 DEF LoaderInv, MapsOwned, InProcess, Grows
    <2>10. \A k : Before(k)' <=> Before(k)
        BY <2>1 DEF Before
    <2>11. Segment' = h
        BY <2>1 DEF Segment
    <2>12. SegmentsMapped'
        <3>1. mapped + 1 <= h.memsz
            BY <1>2, <1>3
        <3>2. ASSUME NEW b \in 0 .. mapped
              PROVE  \E m \in maps' : m.table = pid /\ m.virtual = VirtPage(h.vaddr + b)
            <4>1. CASE b = mapped
                BY <2>3, <4>1 DEF Grows, v
            <4>2. CASE b # mapped
                <5>1. b \in 0 .. mapped - 1
                    BY <1>2, <4>2
                <5>2. IsAllocated(pid, VirtPage(h.vaddr + b))
                    BY <1>2, <5>1 DEF HasPages
                <5> QED BY <2>4, <5>2
            <4> QED BY <4>1, <4>2
        <3>3. HasPages(pid, Segment, mapped)'
            <4>1. mapped' - 1 = mapped /\ pid' = pid /\ Segment' = h
                BY <1>2, <2>1, <2>2, <2>11
            <4> HIDE DEF h
            <4> QED BY <3>2, <4>1 DEF HasPages, IsAllocated, VirtPage
        <3>4. ASSUME NEW k \in 1 .. Len(list), Before(k) PROVE HasPages(pid, list[k].h, list[k].h.memsz)'
            <4>1. HasPages(pid, list[k].h, list[k].h.memsz)
                BY <1>2, <3>4 DEF LoaderInv, SegmentsMapped
            <4>2. ASSUME NEW b \in 0 .. list[k].h.memsz - 1
                  PROVE  \E m \in maps' : m.table = pid /\ m.virtual = VirtPage(list[k].h.vaddr + b)
                BY <2>4, <4>1 DEF HasPages
            <4>3. pid' = pid /\ list' = list
                BY <2>1, <2>2
            <4> QED BY <4>2, <4>3 DEF HasPages, IsAllocated, VirtPage
        <3>5. pc' = "segments" /\ seg' \in 1 .. Len(list') + 1 /\ mapped' <= Segment'.memsz
              /\ list' = list
            BY <1>1, <1>2, <2>1, <2>11, <3>1
        <3> HIDE DEF h
        <3> QED BY <2>9, <2>10, <3>3, <3>4, <3>5 DEF SegmentsMapped
    <2>13. HeadersRead'
        <3>1. \A n : Loading(n)' <=> Loading(n)
            BY <1>1, <2>1, LoadingStays
        <3> QED BY <1>1, <1>2, <2>1, <3>1 DEF LoaderInv, HeadersRead, InProcess
    <2>14. StackIsAbove'
        <3>1. \A n : Loading(n)' <=> Loading(n)
            BY <1>1, <2>1, LoadingStays
        <3>2. ASSUME NEW n \in 1 .. Len(info), Loading(n)
              PROVE  /\ stack <= VirtualPages - 2
                     /\ \A k \in 1 .. Len(list) : Before(k) => EndOf(list[k].h) <= stack * PGSIZE
                     /\ \A m \in maps' : m.table = pid => m.virtual < stack \/ m.virtual * PGSIZE < EndOf(h)
            <4>1. /\ stack <= VirtualPages - 2
                  /\ \A k \in 1 .. Len(list) : Before(k) => EndOf(list[k].h) <= stack * PGSIZE
                  /\ \A m \in maps : m.table = pid => m.virtual < stack \/ m.virtual * PGSIZE < EndOf(h)
                BY <1>1, <1>2, <3>2 DEF LoaderInv, StackIsAbove
            <4>2. \A m \in maps' : m \in maps \/ m.virtual = v
                BY <2>3 DEF Grows
            <4> QED BY <1>4, <4>1, <4>2
        <3>3. /\ pc' = "segments" /\ seg' = seg /\ list' = list /\ stack' = stack /\ pid' = pid
              /\ Segment' = h /\ info' = info /\ seg <= Len(list)
            BY <1>1, <1>2, <2>1, <2>2, <2>11
        <3> HIDE DEF h
        <3> QED BY <2>9, <2>10, <3>1, <3>2, <3>3 DEF StackIsAbove, EndOf
    <2>15. SegmentsInPlace'
        <3>1. \A n : Loading(n)' <=> Loading(n)
            BY <1>1, <2>1, LoadingStays
        <3>2. ASSUME NEW n \in 1 .. Len(info), Loading(n), NEW k \in 1 .. Len(list), Before(k)
              PROVE  InPlaceNext(list[k].h, info[n].prog)
            <4>1. InPlace(pid, list[k].h, info[n].prog)
                BY <1>2, <3>2 DEF LoaderInv, SegmentsInPlace
            <4>2. HasPages(pid, list[k].h, list[k].h.memsz)
                BY <1>2, <3>2 DEF LoaderInv, SegmentsMapped
            <4> QED BY <2>4, <4>1, <4>2, InList
        <3>3. list' = list /\ pid' = pid /\ info' = info
            BY <1>1, <2>1, <2>2
        <3>4. ASSUME NEW n \in 1 .. Len(info), Loading(n), NEW k \in 1 .. Len(list), Before(k)
              PROVE  InPlace(pid, list[k].h, info[n].prog)'
            BY <3>2, <3>3, <3>4 DEF InPlaceNext, InPlace, VirtPage
        <3> QED BY <2>10, <3>1, <3>3, <3>4 DEF SegmentsInPlace
    <2> QED BY <1>1, <2>5, <2>6, <2>7, <2>8, <2>9, <2>12, <2>13, <2>14, <2>15 DEF LoaderInv
<1> QED BY <1>5, <1>6

(* Where the stack of a well-formed program begins is above its pages. *)
LEMMA AboveAll ==
    ASSUME LoaderInv, pc = "segments", seg > Len(list), NEW n, Loading(n)
    PROVE  /\ stack \in Nat /\ stack <= VirtualPages - 2
           /\ StackPage(0) = stack /\ ~IsAllocated(pid, stack)
           /\ \A m \in maps : m.table = pid => m.virtual < stack
           /\ \A k \in 1 .. Len(list) : EndOf(list[k].h) <= stack * PGSIZE
<1>1. n \in 1 .. Len(info) /\ InProcess
    BY LoadingIs DEF InProcess
<1>2. LoaderTyped /\ Len(list) \in Nat /\ seg \in 1 .. Len(list) + 1
    BY LenProperties DEF LoaderInv, LoaderTyped, SegmentsMapped
<1>3. \A k \in 1 .. Len(list) : Before(k)
    BY <1>2 DEF Before
<1>4. ~(seg <= Len(list))
    BY <1>2
<1>5. /\ stack <= VirtualPages - 2
      /\ \A m \in maps : m.table = pid => m.virtual < stack
      /\ \A k \in 1 .. Len(list) : EndOf(list[k].h) <= stack * PGSIZE
    BY <1>1, <1>3, <1>4 DEF LoaderInv, StackIsAbove
<1>6. stack \in Nat
    <2>1. ADDRESSES \in Nat /\ stack \in 0 .. ADDRESSES
        BY <1>2 DEF LoaderTyped
    <2> QED BY <2>1
<1>7. StackPage(0) = stack
    <2>1. stack + 0 = stack /\ stack < VirtualPages
        BY <1>5, <1>6
    <2> QED BY <1>6, <2>1, ModSmall DEF StackPage
<1>8. ~IsAllocated(pid, stack)
    BY <1>5, <1>6 DEF IsAllocated
<1> QED BY <1>5, <1>6, <1>7, <1>8

LEMMA StackPageTyped ==
    ASSUME LoaderInv, NEW k \in Nat
    PROVE  StackPage(k) \in VPages
<1>1. stack \in Nat
    <2>1. ADDRESSES \in Nat
        OBVIOUS
    <2>2. stack \in 0 .. ADDRESSES
        BY DEF LoaderInv, LoaderTyped
    <2> QED BY <2>1, <2>2
<1>2. stack + k \in Nat
    BY <1>1
<1>3. (stack + k) % VirtualPages \in 0 .. VirtualPages - 1
    BY <1>2
<1> QED BY <1>3 DEF StackPage, VPages

LEMMA AllocateStackInv ==
    ASSUME LoaderInv, AllocateStack
    PROVE  LoaderInv'
<1> DEFINE v == StackPage(0)
<1>1. /\ booted' /\ pc = "segments" /\ ~errorOccurred
      /\ UNCHANGED mkfsVars /\ UNCHANGED <<disk, info>> /\ MkfsInv'
    BY Runs DEF AllocateStack
<1>2. /\ LoaderTyped /\ MapsApart /\ FreePids # {} /\ InProcess
      /\ seg > Len(list) /\ Len(list) \in Nat /\ seg \in 1 .. Len(list) + 1
    <2>1. LoaderTyped /\ MapsApart /\ seg > Len(list) /\ FreePids # {} /\ InProcess
        BY <1>1 DEF AllocateStack, LoaderInv, LoaderTyped, InProcess
    <2>2. Len(list) \in Nat /\ seg \in 1 .. Len(list) + 1
        BY <1>1, <2>1, LenProperties DEF LoaderInv, LoaderTyped, SegmentsMapped
    <2> QED BY <2>1, <2>2
<1>3. v \in VPages
    BY StackPageTyped
<1>4. \A k \in 1 .. Len(list) : Before(k)
    BY <1>2 DEF Before
<1>5. CASE CannotAllocate(v)
    <2>1. Stop
        BY <1>5 DEF AllocateStack
    <2>2. \A n : Loading(n) => FreePages = {}
        BY <1>1, <1>2, <1>5, AboveAll DEF CannotAllocate
    <2> QED BY <1>1, <2>1, <2>2, StopForPages
<1>6. CASE ~CannotAllocate(v)
    <2>1. /\ Allocate(v) /\ pc' = "stack"
          /\ UNCHANGED <<ram, pd, from, to, hdr, i, cnt, list, seg, mapped, stack>>
        BY <1>6 DEF AllocateStack, reader, loader
    <2>2. FreePids' = FreePids /\ pid' = pid
        BY <2>1, PidStays
    <2>3. Grows(v)
        BY <1>2, <1>3, <2>1, <2>2, AllocateGrows
    <2> HIDE DEF v
    <2>4. /\ \A t, w : IsAllocated(t, w) => \E m \in maps' : m.table = t /\ m.virtual = w
          /\ \A g, f : /\ IsHeader(g) /\ g.filesz <= g.memsz
                       /\ HasPages(pid, g, g.memsz) /\ InPlace(pid, g, f)
                       => InPlaceNext(g, f)
        BY <2>1, <2>2, <2>3, GrownPages
    <2>5. LoadedAsBuilt' /\ StackAboveProgram'
        <3>1. \A p \in pd : p.pid # pid
            BY <1>2, PidFree
        <3> QED BY <1>1, <2>1, <2>3, <3>1, PropertiesStay DEF Grows
    <2>6. LoadsWellFormed' /\ MapsApart'
        BY <1>1, <2>3 DEF LoadsWellFormed, Grows
    <2>7. LoaderTyped'
        BY <1>1, <1>2, <2>1, <2>2, <2>3 DEF LoaderTyped, Grows
    <2>8. NodesGrow'
        BY <2>1 DEF LoaderInv, NodesGrow
    <2>9. MapsOwned' /\ InProcess'
        BY <1>2, <2>1, <2>2, <2>3 DEF LoaderInv, MapsOwned, InProcess, Grows
    <2>10. list' = list /\ pid' = pid /\ info' = info /\ stack' = stack
        BY <1>1, <2>1, <2>2
    <2>11. SegmentsMapped'
        <3>1. ASSUME NEW k \in 1 .. Len(list) PROVE HasPages(pid, list[k].h, list[k].h.memsz)'
            <4>1. HasPages(pid, list[k].h, list[k].h.memsz)
                BY <1>2, <1>4 DEF LoaderInv, SegmentsMapped
            <4>2. ASSUME NEW b \in 0 .. list[k].h.memsz - 1
                  PROVE  \E m \in maps' : m.table = pid /\ m.virtual = VirtPage(list[k].h.vaddr + b)
                BY <2>4, <4>1 DEF HasPages
            <4> QED BY <2>10, <4>2 DEF HasPages, IsAllocated, VirtPage
        <3> QED BY <2>1, <2>10, <3>1 DEF SegmentsMapped
    <2>12. \A n : Loading(n)' <=> Loading(n)
        BY <1>1, <2>1, LoadingStays
    <2>13. HeadersRead'
        BY <1>1, <1>2, <2>1, <2>12 DEF LoaderInv, HeadersRead, InProcess
    <2>14. StackIsAbove'
        <3>1. ASSUME NEW n \in 1 .. Len(info), Loading(n)
              PROVE  /\ stack <= VirtualPages - 2
                     /\ \A k \in 1 .. Len(list) : EndOf(list[k].h) <= stack * PGSIZE
                     /\ \A m \in maps' : m.table = pid => m.virtual < stack \/ m.virtual = stack
                     /\ \E m \in maps' : m.table = pid /\ m.virtual = stack
            <4>1. /\ stack <= VirtualPages - 2 /\ v = stack
                  /\ \A k \in 1 .. Len(list) : EndOf(list[k].h) <= stack * PGSIZE
                  /\ \A m \in maps : m.table = pid => m.virtual < stack
                BY <1>1, <1>2, <3>1, AboveAll DEF v
            <4>2. /\ \A m \in maps' : m \in maps \/ m.virtual = v
                  /\ \E m \in maps' : m.table = pid /\ m.virtual = v
                BY <2>3 DEF Grows
            <4> QED BY <4>1, <4>2
        <3> QED BY <2>1, <2>10, <2>12, <3>1 DEF StackIsAbove, EndOf, IsAllocated
    <2>15. SegmentsInPlace'
        <3>1. ASSUME NEW n \in 1 .. Len(info), Loading(n), NEW k \in 1 .. Len(list)
              PROVE  InPlaceNext(list[k].h, info[n].prog)
            <4>1. InPlace(pid, list[k].h, info[n].prog)
                BY <1>2, <1>4, <3>1 DEF LoaderInv, SegmentsInPlace
            <4>2. HasPages(pid, list[k].h, list[k].h.memsz)
                BY <1>2, <1>4 DEF LoaderInv, SegmentsMapped
            <4> QED BY <2>4, <4>1, <4>2, InList
        <3>2. ASSUME NEW n \in 1 .. Len(info), Loading(n), NEW k \in 1 .. Len(list)
              PROVE  InPlace(pid, list[k].h, info[n].prog)'
            BY <2>10, <3>1, <3>2 DEF InPlaceNext, InPlace, VirtPage
        <3> QED BY <2>10, <2>12, <3>2 DEF SegmentsInPlace
    <2> QED BY <1>1, <2>5, <2>6, <2>7, <2>8, <2>9, <2>11, <2>13, <2>14, <2>15 DEF LoaderInv
<1> QED BY <1>5, <1>6

(* Two pages of stack, and no more: where the process's sp is. *)
LEMMA TwoPagesAbove ==
    ASSUME LoaderInv, pc = "stack", NEW n, Loading(n)
    PROVE  /\ stack \in Nat /\ stack <= VirtualPages - 2
           /\ StackPage(1) = stack + 1 /\ ~IsAllocated(pid, stack + 1) /\ IsAllocated(pid, stack)
           /\ \A m \in maps : m.table = pid => m.virtual < stack \/ m.virtual = stack
           /\ \A k \in 1 .. Len(list) : EndOf(list[k].h) <= stack * PGSIZE
<1>1. n \in 1 .. Len(info) /\ InProcess
    BY LoadingIs DEF InProcess
<1>2. \A k \in 1 .. Len(list) : Before(k)
    BY DEF Before
<1>3. /\ stack <= VirtualPages - 2 /\ IsAllocated(pid, stack)
      /\ \A m \in maps : m.table = pid => m.virtual < stack \/ m.virtual = stack
      /\ \A k \in 1 .. Len(list) : EndOf(list[k].h) <= stack * PGSIZE
    BY <1>1, <1>2 DEF LoaderInv, StackIsAbove
<1>4. stack \in Nat
    <2>1. ADDRESSES \in Nat /\ stack \in 0 .. ADDRESSES
        BY DEF LoaderInv, LoaderTyped
    <2> QED BY <2>1
<1>5. StackPage(1) = stack + 1
    <2>1. stack + 1 \in Nat /\ stack + 1 < VirtualPages
        BY <1>3, <1>4
    <2> QED BY <2>1, ModSmall DEF StackPage
<1>6. ~IsAllocated(pid, stack + 1)
    BY <1>3, <1>4 DEF IsAllocated
<1> QED BY <1>3, <1>4, <1>5, <1>6

LEMMA PageAfterStack ==
    ASSUME NEW s \in Nat, s <= VirtualPages - 2
    PROVE  ((s * PGSIZE + 2 * PGSIZE) % ADDRESSES) \div PGSIZE = s + 2
<1> DEFINE x == s * PGSIZE + 2 * PGSIZE
           q == x \div PGSIZE
<1>1. s + 2 \in Nat /\ s + 3 \in Nat /\ s + 2 <= VirtualPages /\ s + 2 < s + 3
    OBVIOUS
<1>2. (s + 2) * PGSIZE = x /\ x \in Nat
    <2>1. (s + 2) * PGSIZE \in Nat
        BY <1>1, Multiples
    <2>2. (s + 2) * PGSIZE = x
        OBVIOUS
    <2> QED BY <2>1, <2>2
<1>3. (s + 2) * PGSIZE <= VirtualPages * PGSIZE /\ VirtualPages * PGSIZE \in Nat
      /\ (s + 2) * PGSIZE + PGSIZE <= (s + 3) * PGSIZE /\ (s + 3) * PGSIZE \in Nat
    BY <1>1, Multiples
<1> HIDE DEF x
<1>4. x < ADDRESSES /\ ADDRESSES \in Nat \ {0} /\ x < (s + 3) * PGSIZE /\ ~(x < (s + 2) * PGSIZE)
    BY <1>2, <1>3
<1>5. x % ADDRESSES = x
    BY <1>2, <1>4, ModSmall
<1>6. q \in Nat /\ q < s + 3 /\ ~(q < s + 2)
    BY <1>1, <1>2, <1>4, Divided, DivBelow
<1> HIDE DEF q
<1>7. q = s + 2
    BY <1>6
<1>8. (x % ADDRESSES) \div PGSIZE = q
    BY <1>5 DEF q
<1> QED BY <1>7, <1>8 DEF x

LEMMA FinishInv ==
    ASSUME LoaderInv, Finish
    PROVE  LoaderInv'
<1> DEFINE v == StackPage(1)
<1>1. /\ booted' /\ pc = "stack" /\ ~errorOccurred
      /\ UNCHANGED mkfsVars /\ UNCHANGED <<disk, info>> /\ MkfsInv'
    BY Runs DEF Finish
<1>2. LoaderTyped /\ MapsApart /\ FreePids # {} /\ InProcess /\ \A k \in 1 .. Len(list) : Before(k)
    BY <1>1 DEF LoaderInv, LoaderTyped, InProcess, Before
<1>3. v \in VPages
    BY StackPageTyped
<1>4. CASE CannotAllocate(v)
    <2>1. Stop
        BY <1>4 DEF Finish
    <2>2. \A n : Loading(n) => FreePages = {}
        BY <1>1, <1>4, TwoPagesAbove DEF CannotAllocate
    <2> QED BY <1>1, <2>1, <2>2, StopForPages
<1>5. CASE ~CannotAllocate(v)
    <2>1. PICK np : np = [pid |-> pid, from |-> from, list |-> list,
                          sp |-> (stack * PGSIZE + 2 * PGSIZE) % ADDRESSES]
        OBVIOUS
    <2>2. /\ Allocate(v) /\ pc' = "idle" /\ pd' = pd \cup {np}
          /\ UNCHANGED <<ram, from, to, hdr, i, cnt, list, seg, mapped, stack>>
        BY <1>5, <2>1 DEF Finish, reader, loader
    <2>3. /\ np.pid = pid /\ np.from = from /\ np.list = list
          /\ np.sp = (stack * PGSIZE + 2 * PGSIZE) % ADDRESSES
        BY <2>1
    <2>4. Grows(v)
        BY <1>2, <1>3, <2>2, AllocateGrows
    <2>5. pid \in Pids /\ \A p \in pd : p.pid # pid
        BY <1>2, PidFree
    <2> HIDE DEF v
    <2>6. /\ maps \subseteq maps' /\ MapsApart' /\ errorOccurred' = errorOccurred
          /\ \A m \in maps' \ maps : m.table = pid /\ m.virtual = v
          /\ \E m \in maps' : m.table = pid /\ m.virtual = v
        BY <2>4 DEF Grows
    <2>7. /\ \A t, w : IsAllocated(t, w) => \E m \in maps' : m.table = t /\ m.virtual = w
          /\ \A g, f : /\ IsHeader(g) /\ g.filesz <= g.memsz
                       /\ HasPages(pid, g, g.memsz) /\ InPlace(pid, g, f)
                       => InPlaceNext(g, f)
        BY <2>2, <2>4, GrownPages
    <2>8. LoaderTyped'
        <3>1. np \in Processes
            <4>1. stack \in Nat /\ ADDRESSES \in Nat \ {0}
                <5>1. stack \in 0 .. ADDRESSES /\ VirtualPages * PGSIZE \in Nat
                    BY <1>2, Multiples DEF LoaderTyped
                <5> QED BY <5>1
            <4>2. stack * PGSIZE + 2 * PGSIZE \in Nat
                BY <4>1, Multiples
            <4>3. (stack * PGSIZE + 2 * PGSIZE) % ADDRESSES \in Nat
                <5> DEFINE x == stack * PGSIZE + 2 * PGSIZE
                <5> HIDE DEF x
                <5>1. x \in Nat => x % ADDRESSES \in Nat
                    BY <4>1
                <5> QED BY <4>2, <5>1 DEF x
            <4>4. from \in Cells /\ list \in Seq(Nodes)
                BY <1>2 DEF LoaderTyped
            <4> QED BY <2>1, <2>5, <4>3, <4>4 DEF Processes
        <3> QED BY <1>1, <1>2, <2>2, <2>6, <3>1 DEF LoaderTyped
    <2>9. NodesGrow'
        BY <2>2 DEF LoaderInv, NodesGrow
    <2>10. ~InProcess'
        BY <2>2 DEF InProcess
    <2>11. MapsOwned'
        <3>1. ASSUME NEW m \in maps' PROVE \E p \in pd' : p.pid = m.table
            <4>1. m.table = pid \/ \E p \in pd : p.pid = m.table
                BY <2>6 DEF LoaderInv, MapsOwned
            <4> QED BY <2>2, <2>3, <4>1
        <3> QED BY <3>1 DEF MapsOwned
    <2>12. SegmentsMapped' /\ StackIsAbove' /\ SegmentsInPlace' /\ HeadersRead'
        BY <2>2, <2>10 DEF SegmentsMapped, StackIsAbove, SegmentsInPlace, HeadersRead
    <2>13. LoadsWellFormed'
        BY <2>2 DEF LoadsWellFormed
    <2>14. ASSUME NEW p \in pd, NEW n \in Recorded(p.from)', Intact(n)'
           PROVE  Built(p, n)' /\ Stacked(p)'
        <3>1. n \in Recorded(p.from) /\ Intact(n)
            BY <1>1, <2>14, IntactStays DEF Recorded, At
        <3>2. Built(p, n) /\ Stacked(p)
            BY <3>1, PropertiesAre DEF LoaderInv
        <3>3. Built(p, n)'
            BY <1>1, <1>2, <2>2, <2>6, <3>2, BuiltStays DEF LoaderTyped
        <3>4. Stacked(p)'
            BY <2>5, <2>6, <3>2, StackedStays
        <3> QED BY <3>3, <3>4
    <2>15. ASSUME NEW n \in Recorded(np.from)', Intact(n)'
           PROVE  Built(np, n)' /\ Stacked(np)'
        <3> DEFINE f == info[n].prog
        <3>1. Loading(n)
            <4>1. n \in Recorded(from)
                BY <1>1, <2>3, <2>15 DEF Recorded, At
            <4>2. Intact(n)
                BY <1>1, <2>15, IntactStays
            <4> QED BY <4>1, <4>2 DEF Loading
        <3>2. n \in 1 .. Len(info) /\ Lists(list, f, f[1].phnum)
            BY <1>2, <3>1, LoadingIs DEF LoaderInv, HeadersRead
        <3>3. Lists(np.list, f, f[1].phnum)' /\ f' = f
            <4>1. f' = f /\ Lists(np.list, f, f[1].phnum)
                BY <1>1, <2>3, <3>2
            <4> QED BY <4>1 DEF Lists, Header, Loads
        <3>4. PagesTold'
            BY <2>6, PagesAreToldNext
        <3>5. ASSUME NEW k \in 1 .. Len(np.list), NEW c \in 0 .. np.list[k].h.memsz - 1
              PROVE  LET h == np.list[k].h
                     IN /\ IsAllocated(np.pid, VirtPage(h.vaddr + c))'
                        /\ c < h.filesz /\ h.off + c < Len(f) - 1 =>
                              InMemory(np.pid, h.vaddr + c)' = f[h.off + c + 1]
            <4>1. PICK h : h = np.list[k].h
                OBVIOUS
            <4>2. h = list[k].h /\ k \in 1 .. Len(list) /\ c \in 0 .. h.memsz - 1
                BY <2>3, <3>5, <4>1
            <4>3. HasPages(pid, h, h.memsz) /\ InPlace(pid, h, f)
                BY <1>2, <3>1, <3>2, <4>2 DEF LoaderInv, SegmentsMapped, SegmentsInPlace
            <4>4. IsHeader(h) /\ h.filesz <= h.memsz
                BY <4>2, InList
            <4> HIDE DEF f
            <4>5. InPlaceNext(h, f)
                BY <2>7, <4>3, <4>4
            <4>6. PICK m \in maps' : m.table = pid /\ m.virtual = VirtPage(h.vaddr + c)
                BY <2>7, <4>2, <4>3 DEF HasPages
            <4>7. IsAllocated(np.pid, VirtPage(h.vaddr + c))'
                BY <2>3, <4>6 DEF IsAllocated, VirtPage
            <4>8. ASSUME c < h.filesz, h.off + c < Len(f) - 1
                  PROVE  InMemory(np.pid, h.vaddr + c)' = f[h.off + c + 1]
                <5>1. c \in 0 .. h.filesz - 1
                    BY <4>2, <4>4, <4>8, HeaderNumbers
                <5>2. ram'[m.page][(h.vaddr + c) % PGSIZE] = f[h.off + c + 1]
                    BY <4>5, <4>6, <4>8, <5>1 DEF InPlaceNext
                <5>3. PageOf(m.table, m.virtual)' = m.page
                    BY <3>4 DEF PagesTold
                <5>4. PageOf(np.pid, VirtPage(h.vaddr + c))' = m.page
                    BY <2>3, <4>6, <5>3 DEF VirtPage
                <5> QED BY <5>2, <5>4 DEF InMemory
            <4> QED BY <4>1, <4>7, <4>8
        <3>6. Built(np, n)'
            <4> HIDE DEF f
            <4> QED BY <3>3, <3>5 DEF Built, f
        <3>7. Stacked(np)'
            <4>1. /\ stack \in Nat /\ stack <= VirtualPages - 2
                  /\ v = stack + 1 /\ IsAllocated(pid, stack)
                  /\ \A m \in maps : m.table = pid => m.virtual < stack \/ m.virtual = stack
                  /\ \A k \in 1 .. Len(list) : EndOf(list[k].h) <= stack * PGSIZE
                BY <1>1, <3>1, TwoPagesAbove DEF v
            <4>2. PICK top : top = np.sp \div PGSIZE
                OBVIOUS
            <4>3. top = stack + 2 /\ top - 1 = stack + 1 /\ top - 2 = stack
                BY <2>3, <4>1, <4>2, PageAfterStack
            <4>4. {top - 1, top - 2} \subseteq {m.virtual : m \in {x \in maps' : x.table = np.pid}}
                <5>1. /\ \E m \in maps' : m.table = np.pid /\ m.virtual = top - 1
                      /\ \E m \in maps' : m.table = np.pid /\ m.virtual = top - 2
                    BY <2>3, <2>6, <2>7, <4>1, <4>3
                <5> QED BY <5>1
            <4>5. ASSUME NEW m \in maps', m.table = np.pid PROVE m.virtual < top
                <5>1. m.virtual < stack \/ m.virtual = stack \/ m.virtual = stack + 1
                    BY <2>3, <2>6, <4>1, <4>5
                <5>2. m.virtual \in Nat
                    BY <2>6 DEF MapsApart, VPages
                <5> QED BY <4>1, <4>3, <5>1, <5>2
            <4>6. \A k \in 1 .. Len(np.list) :
                     np.list[k].h.vaddr + np.list[k].h.memsz <= (top - 2) * PGSIZE
                BY <2>3, <4>1, <4>3 DEF EndOf
            <4> QED BY <4>2, <4>4, <4>5, <4>6 DEF Stacked
        <3> QED BY <3>6, <3>7
    <2>16. ASSUME NEW p \in pd', NEW n \in Recorded(p.from)', Intact(n)'
           PROVE  Built(p, n)' /\ Stacked(p)'
        <3>1. p \in pd \/ p = np
            BY <2>2
        <3>2. CASE p \in pd
            BY <2>14, <2>16, <3>2
        <3>3. CASE p = np
            BY <2>15, <2>16, <3>3
        <3> QED BY <3>1, <3>2, <3>3
    <2>17. LoadedAsBuilt'
        BY <2>16 DEF LoadedAsBuilt, Built
    <2>18. StackAboveProgram'
        BY <2>16 DEF StackAboveProgram, Stacked
    <2> QED BY <1>1, <2>6, <2>8, <2>9, <2>11, <2>12, <2>13, <2>17, <2>18 DEF LoaderInv
<1> QED BY <1>4, <1>5

(* The segments of a well-formed program that are in the list. *)
LEMMA SegmentsApart ==
    ASSUME LoaderInv, InProcess, NEW n, Loading(n)
    PROVE  LET f == info[n].prog IN
           /\ \A k \in 1 .. Len(list) :
                 /\ list[k].h.off + list[k].h.filesz <= Len(f)
                 /\ 2 <= VirtualPages /\ EndOf(list[k].h) <= (VirtualPages - 2) * PGSIZE
                 /\ EndOf(list[k].h) < VirtualPages * PGSIZE
           /\ \A j, k \in 1 .. Len(list) : j # k =>
                 \/ EndOf(list[j].h) <= list[k].h.vaddr
                 \/ EndOf(list[k].h) <= list[j].h.vaddr
<1> DEFINE f == info[n].prog
<1>1. n \in 1 .. Len(info) /\ f \in Programs /\ WellFormed(f)
    BY LoadingIs
<1>2. Lists(list, f, f[1].phnum)
    BY <1>1 DEF LoaderInv, HeadersRead
<1> HIDE DEF f
<1>3. PICK at \in [1 .. Len(list) -> 1 .. f[1].phnum] :
         /\ \A j, k \in 1 .. Len(list) : j < k => at[j] < at[k]
         /\ \A k \in 1 .. Len(list) : list[k].h = Header(f, at[k])
         /\ {at[k] : k \in 1 .. Len(list)} = Loads(f) \cap (1 .. f[1].phnum)
    BY <1>2 DEF Lists
<1>4. \A k \in 1 .. Len(list) : at[k] \in Loads(f) /\ at[k] \in Nat
    <2>1. f[1].phnum \in Nat
        BY <1>1, Linked
    <2> QED BY <1>3, <2>1
<1>5. ASSUME NEW k \in 1 .. Len(list)
      PROVE  /\ list[k].h.off + list[k].h.filesz <= Len(f)
             /\ 2 <= VirtualPages /\ EndOf(list[k].h) <= (VirtualPages - 2) * PGSIZE
             /\ EndOf(list[k].h) < VirtualPages * PGSIZE
    <2>1. at[k] \in Loads(f) /\ list[k].h = Header(f, at[k])
        BY <1>3, <1>4
    <2> QED BY <1>1, <2>1, LinkedSegment
<1>6. ASSUME NEW j \in 1 .. Len(list), NEW k \in 1 .. Len(list), j # k
      PROVE  \/ EndOf(list[j].h) <= list[k].h.vaddr
             \/ EndOf(list[k].h) <= list[j].h.vaddr
    <2>1. at[j] \in Loads(f) /\ at[k] \in Loads(f)
          /\ list[j].h = Header(f, at[j]) /\ list[k].h = Header(f, at[k])
        BY <1>3, <1>4
    <2>2. at[j] # at[k]
        <3>1. j < k \/ k < j
            BY <1>6
        <3>2. at[j] < at[k] \/ at[k] < at[j]
            BY <1>3, <3>1
        <3> QED BY <1>4, <3>2
    <2> QED BY <1>1, <2>1, <2>2, LinkedSegment
<1> QED BY <1>5, <1>6 DEF f

(* A cell that is written when the segment of h is loaded. *)
Written(h, t, v, o) ==
    \E k \in 0 .. h.filesz - 1 :
        t = pid /\ v = VirtPage(h.vaddr + k) /\ o = (h.vaddr + k) % PGSIZE

(* The memory with the segment of h in it, whose file is at s of the disk. *)
Loaded(h, s) ==
    [p \in Pages |-> [o \in 0 .. PGSIZE - 1 |->
        LET hits == {k \in 0 .. h.filesz - 1 :
                        /\ PageOf(pid, VirtPage(h.vaddr + k)) = p
                        /\ (h.vaddr + k) % PGSIZE = o}
        IN IF hits = {} THEN ram[p][o] ELSE disk[s + Max(hits)]]]

(* readBytesVirtual writes the cells of the segment's file and no others. *)
LEMMA CellsLoaded ==
    ASSUME MapsApart, NEW h, NEW s, IsHeader(h), HasPages(pid, h, h.filesz),
           ram' = Loaded(h, s)
    PROVE  /\ \A t, v : \A o \in 0 .. PGSIZE - 1 :
                 IsAllocated(t, v) /\ ~Written(h, t, v, o) => ram'[PageOf(t, v)][o] = ram[PageOf(t, v)][o]
           /\ h.vaddr + h.filesz < VirtualPages * PGSIZE =>
                 \A c \in 0 .. h.filesz - 1 :
                    LET a == h.vaddr + c
                    IN ram'[PageOf(pid, VirtPage(a))][a % PGSIZE] = disk[s + c]
<1> DEFINE Hits(p, o) == {k \in 0 .. h.filesz - 1 :
                          PageOf(pid, VirtPage(h.vaddr + k)) = p /\ (h.vaddr + k) % PGSIZE = o}
<1>1. ASSUME NEW p \in Pages, NEW o \in 0 .. PGSIZE - 1
      PROVE  ram'[p][o] = IF Hits(p, o) = {} THEN ram[p][o] ELSE disk[s + Max(Hits(p, o))]
    BY DEF Loaded
<1>2. h.vaddr \in Nat /\ h.filesz \in Nat /\ \A k \in 0 .. h.filesz - 1 : IsAllocated(pid, VirtPage(h.vaddr + k))
    BY HeaderNumbers DEF HasPages
<1>3. \A t, v : \A o \in 0 .. PGSIZE - 1 :
         IsAllocated(t, v) /\ ~Written(h, t, v, o) =>
            ram'[PageOf(t, v)][o] = ram[PageOf(t, v)][o]
    <2> TAKE t, v
    <2> TAKE o \in 0 .. PGSIZE - 1
    <2>0. SUFFICES ASSUME IsAllocated(t, v), ~Written(h, t, v, o)
                   PROVE  ram'[PageOf(t, v)][o] = ram[PageOf(t, v)][o]
        OBVIOUS
    <2>1. PageOf(t, v) \in Pages
        BY <2>0, OwnPage
    <2>2. ASSUME NEW k \in 0 .. h.filesz - 1, PageOf(pid, VirtPage(h.vaddr + k)) = PageOf(t, v),
                 (h.vaddr + k) % PGSIZE = o
          PROVE  FALSE
        <3>1. IsAllocated(pid, VirtPage(h.vaddr + k))
            BY <1>2
        <3>2. pid = t /\ VirtPage(h.vaddr + k) = v
            BY <2>0, <2>2, <3>1, OwnPage
        <3> QED BY <2>0, <2>2, <3>2 DEF Written
    <2>3. Hits(PageOf(t, v), o) = {}
        BY <2>2
    <2> QED BY <1>1, <2>1, <2>3
<1>4. ASSUME h.vaddr + h.filesz < VirtualPages * PGSIZE, NEW c \in 0 .. h.filesz - 1
      PROVE  ram'[PageOf(pid, VirtPage(h.vaddr + c))][(h.vaddr + c) % PGSIZE] = disk[s + c]
    <2> DEFINE p == PageOf(pid, VirtPage(h.vaddr + c))
               o == (h.vaddr + c) % PGSIZE
    <2>1. IsAllocated(pid, VirtPage(h.vaddr + c)) /\ c \in Nat
        BY <1>2
    <2>2. p \in Pages /\ o \in 0 .. PGSIZE - 1
        BY <1>2, <2>1, OwnPage
    <2>3. ASSUME NEW k \in 0 .. h.filesz - 1, PageOf(pid, VirtPage(h.vaddr + k)) = p,
                 (h.vaddr + k) % PGSIZE = o
          PROVE  k = c
        <3>1. IsAllocated(pid, VirtPage(h.vaddr + k))
            BY <1>2
        <3>2. VirtPage(h.vaddr + k) = VirtPage(h.vaddr + c)
            BY <2>1, <2>3, <3>1, OwnPage
        <3>3. VirtualPages * PGSIZE \in Nat
            BY Multiples
        <3>4. /\ h.vaddr + k \in Nat /\ h.vaddr + k < VirtualPages * PGSIZE
              /\ h.vaddr + c \in Nat /\ h.vaddr + c < VirtualPages * PGSIZE
            <4> DEFINE room == VirtualPages * PGSIZE
                       a == h.vaddr
                       l == h.filesz
            <4>1. a \in Nat /\ l \in Nat /\ room \in Nat /\ a + l < room
                BY <1>2, <1>4, <3>3
            <4>2. k \in 0 .. l - 1 /\ c \in 0 .. l - 1
                OBVIOUS
            <4> HIDE DEF room, a, l
            <4>3. a + k \in Nat /\ a + k < room /\ a + c \in Nat /\ a + c < room
                BY <4>1, <4>2
            <4> QED BY <4>3 DEF room, a, l
        <3>5. h.vaddr + k = h.vaddr + c
            BY <2>3, <3>2, <3>4, SameCell
        <3> QED BY <1>2, <3>5
    <2>4. Hits(p, o) = {c}
        BY <2>3
    <2>5. Max(Hits(p, o)) = c
        BY <2>1, <2>4, MaxOfOne
    <2> HIDE DEF p, o
    <2>6. ram'[p][o] = disk[s + c]
        BY <1>1, <2>2, <2>4, <2>5
    <2> QED BY <2>6 DEF p, o
<1>5. h.vaddr + h.filesz < VirtualPages * PGSIZE =>
         \A c \in 0 .. h.filesz - 1 :
            ram'[PageOf(pid, VirtPage(h.vaddr + c))][(h.vaddr + c) % PGSIZE] = disk[s + c]
    BY <1>4
<1> QED BY <1>3, <1>5

(* A segment that is in memory stays there while one apart from it is loaded. *)
LEMMA StaysInPlace ==
    ASSUME MapsApart, UNCHANGED maps, NEW h, NEW g, NEW f, IsHeader(h), IsHeader(g),
           h.filesz <= h.memsz, g.filesz <= g.memsz,
           EndOf(h) < VirtualPages * PGSIZE, EndOf(g) < VirtualPages * PGSIZE,
           EndOf(g) <= h.vaddr \/ EndOf(h) <= g.vaddr,
           InPlace(pid, g, f),
           \A t, v : \A o \in 0 .. PGSIZE - 1 :
              IsAllocated(t, v) /\ ~Written(h, t, v, o) => ram'[PageOf(t, v)][o] = ram[PageOf(t, v)][o]
    PROVE  InPlaceNext(g, f)
<1> DEFINE room == VirtualPages * PGSIZE
<1>1. /\ h.vaddr \in Nat /\ h.memsz \in Nat /\ h.filesz \in Nat /\ EndOf(h) = h.vaddr + h.memsz
      /\ g.vaddr \in Nat /\ g.memsz \in Nat /\ g.filesz \in Nat /\ EndOf(g) = g.vaddr + g.memsz
      /\ room \in Nat /\ EndOf(h) < room /\ EndOf(g) < room
    BY HeaderNumbers, Multiples DEF EndOf
<1>2. PagesTold
    BY PagesAreTold
<1>3. ASSUME NEW c \in 0 .. g.filesz - 1, NEW k \in 0 .. h.filesz - 1
      PROVE  /\ g.vaddr + c \in Nat /\ g.vaddr + c < room
             /\ h.vaddr + k \in Nat /\ h.vaddr + k < room
             /\ g.vaddr + c # h.vaddr + k
    <2> HIDE DEF room
    <2>1. c < g.memsz /\ k < h.memsz /\ c \in Nat /\ k \in Nat
        BY <1>1
    <2>2. g.vaddr + c < EndOf(g) /\ h.vaddr + k < EndOf(h)
        BY <1>1, <2>1
    <2>3. EndOf(g) \in Nat /\ EndOf(h) \in Nat
        BY <1>1
    <2> QED BY <1>1, <2>1, <2>2, <2>3
<1>4. ASSUME NEW c \in 0 .. g.filesz - 1, NEW m \in maps', m.table = pid,
             m.virtual = VirtPage(g.vaddr + c), g.off + c < Len(f) - 1
      PROVE  ram'[m.page][(g.vaddr + c) % PGSIZE] = f[g.off + c + 1]
    <2> DEFINE o == (g.vaddr + c) % PGSIZE
    <2>1. g.vaddr + c \in Nat /\ o \in 0 .. PGSIZE - 1
        <3>1. g.vaddr + c \in Nat
            BY <1>1
        <3> QED BY <3>1, Divided
    <2>2. m \in maps /\ IsAllocated(pid, m.virtual) /\ PageOf(pid, m.virtual) = m.page
        BY <1>2, <1>4 DEF IsAllocated, PagesTold
    <2>3. ram[m.page][o] = f[g.off + c + 1]
        BY <1>4, <2>2 DEF InPlace
    <2>4. ~Written(h, pid, m.virtual, o)
        <3> SUFFICES ASSUME NEW k \in 0 .. h.filesz - 1, VirtPage(g.vaddr + c) = VirtPage(h.vaddr + k),
                            (g.vaddr + c) % PGSIZE = (h.vaddr + k) % PGSIZE
                     PROVE  FALSE
            BY <1>4 DEF Written
        <3>1. /\ g.vaddr + c \in Nat /\ g.vaddr + c < room
              /\ h.vaddr + k \in Nat /\ h.vaddr + k < room
              /\ g.vaddr + c # h.vaddr + k
            BY <1>3
        <3> QED BY <3>1, SameCell
    <2> HIDE DEF o
    <2>5. ram'[m.page][o] = ram[m.page][o]
        BY <2>1, <2>2, <2>4
    <2> QED BY <2>3, <2>5 DEF o
<1> QED BY <1>4 DEF InPlaceNext

(* After the step memory has what the disk has at s, which is the file's. *)
Copied(h, s) ==
    \A c \in 0 .. h.filesz - 1 :
        LET a == h.vaddr + c
        IN ram'[PageOf(pid, VirtPage(a))][a % PGSIZE] = disk[s + c]

FileAt(h, s, f) ==
    \A c \in 0 .. h.filesz - 1 : h.off + c < Len(f) - 1 => disk[s + c] = f[h.off + c + 1]

LEMMA NowInPlace ==
    ASSUME MapsApart, UNCHANGED maps, NEW h, NEW s, NEW f, Copied(h, s), FileAt(h, s, f)
    PROVE  InPlaceNext(h, f)
<1>1. PagesTold
    BY PagesAreTold
<1>2. ASSUME NEW c \in 0 .. h.filesz - 1, NEW m \in maps', m.table = pid,
             m.virtual = VirtPage(h.vaddr + c), h.off + c < Len(f) - 1
      PROVE  ram'[m.page][(h.vaddr + c) % PGSIZE] = f[h.off + c + 1]
    <2>1. PageOf(pid, VirtPage(h.vaddr + c)) = m.page
        BY <1>1, <1>2 DEF PagesTold
    <2>2. ram'[m.page][(h.vaddr + c) % PGSIZE] = disk[s + c]
        BY <2>1 DEF Copied
    <2> QED BY <1>2, <2>2 DEF FileAt
<1> QED BY <1>2 DEF InPlaceNext

(* Where the stack begins after a segment. *)
LEMMA StackGoesUp ==
    ASSUME LoaderInv, NEW h, IsHeader(h)
    PROVE  LET s == StackAbove(EndOf(h)) IN
           /\ s \in 0 .. ADDRESSES
           /\ 2 <= VirtualPages /\ EndOf(h) <= (VirtualPages - 2) * PGSIZE /\ stack <= VirtualPages - 2 =>
                 /\ s \in Nat /\ s <= VirtualPages - 2
                 /\ stack <= s /\ stack \in Nat
                 /\ stack * PGSIZE <= s * PGSIZE /\ EndOf(h) <= s * PGSIZE
<1> DEFINE a == EndOf(h)
           u == CeilDiv(a % ADDRESSES, PGSIZE)
<1>1. stack \in 0 .. ADDRESSES /\ ADDRESSES \in Nat \ {0} /\ a \in Nat
    <2>1. VirtualPages * PGSIZE \in Nat
        BY Multiples
    <2>2. stack \in 0 .. ADDRESSES
        BY DEF LoaderInv, LoaderTyped
    <2>3. a \in Nat
        BY HeaderNumbers
    <2> QED BY <2>1, <2>2, <2>3
<1>2. u \in 0 .. ADDRESSES
    <2> HIDE DEF a
    <2>1. a % ADDRESSES \in Nat
        BY <1>1
    <2> QED BY <2>1, RoundedUp
<1>3. StackAbove(a) = Max({stack, u})
    BY DEF StackAbove
<1>4. ASSUME 2 <= VirtualPages, a <= (VirtualPages - 2) * PGSIZE
      PROVE  a <= u * PGSIZE /\ u <= VirtualPages - 2
    <2>1. /\ a % ADDRESSES = a
          /\ a <= CeilDiv(a, PGSIZE) * PGSIZE /\ CeilDiv(a, PGSIZE) <= VirtualPages - 2
        <3> HIDE DEF a
        <3> QED BY <1>1, <1>4, RoundedUpLow
    <2> QED BY <2>1
<1> HIDE DEF a, u
<1>5. stack \in Nat /\ u \in Nat
    BY <1>1, <1>2
<1>6. Max({stack, u}) \in {stack, u} /\ stack <= Max({stack, u}) /\ u <= Max({stack, u})
    BY <1>5, MaxOfTwo
<1> DEFINE s == Max({stack, u})
<1>7. s \in 0 .. ADDRESSES /\ s \in Nat /\ stack <= s /\ u <= s /\ s \in {stack, u}
    BY <1>1, <1>2, <1>5, <1>6
<1> HIDE DEF s
<1>8. ASSUME 2 <= VirtualPages, a <= (VirtualPages - 2) * PGSIZE, stack <= VirtualPages - 2
      PROVE  s <= VirtualPages - 2 /\ stack * PGSIZE <= s * PGSIZE /\ a <= s * PGSIZE
    <2>1. a <= u * PGSIZE /\ u <= VirtualPages - 2
        BY <1>4, <1>8
    <2>2. s <= VirtualPages - 2
        BY <1>7, <1>8, <2>1
    <2>3. stack * PGSIZE <= s * PGSIZE /\ u * PGSIZE <= s * PGSIZE
          /\ u * PGSIZE \in Nat /\ s * PGSIZE \in Nat
        BY <1>5, <1>7, Multiples
    <2>4. a <= s * PGSIZE
        <3> DEFINE x == u * PGSIZE
                   y == s * PGSIZE
        <3>1. a <= x /\ x <= y /\ x \in Nat /\ y \in Nat
            BY <2>1, <2>3
        <3> HIDE DEF x, y
        <3>2. a <= y
            BY <1>1, <3>1
        <3> QED BY <3>2 DEF y
    <2> QED BY <2>2, <2>3, <2>4
<1> QED BY <1>3, <1>5, <1>7, <1>8 DEF a, s

(* The program's file is behind the segment that is to be loaded. *)
LEMMA SourceThere ==
    ASSUME LoaderInv, pc = "segments", seg \in 1 .. Len(list), NEW n, Loading(n)
    PROVE  /\ Source \in Cells /\ Source + Segment.filesz <= DISKSIZE * BSIZE
           /\ \A c \in 0 .. Segment.filesz - 1 :
                 Segment.off + c < Len(info[n].prog) - 1 =>
                    disk[Source + c] = info[n].prog[Segment.off + c + 1]
<1> DEFINE f == info[n].prog
           h == Segment
<1>1. /\ Len(f) \in Nat /\ from \in Nat /\ from + Len(f) <= AreaEnd
      /\ \A c \in Nat : c + 1 < Len(f) => disk[from + c] = f[c + 1]
    BY LoadingIs
<1>2. h.off \in Nat /\ h.filesz \in Nat /\ h.off + h.filesz <= Len(f)
    <2>1. InProcess /\ h = list[seg].h
        BY DEF InProcess, Segment
    <2>2. IsHeader(h)
        BY <2>1, InList
    <2>3. h.off + h.filesz <= Len(f)
        BY <2>1, SegmentsApart
    <2> QED BY <2>2, <2>3, HeaderNumbers
<1>3. AreaEnd \in Nat /\ BSIZE \in Nat \ {0} /\ DISKSIZE * BSIZE \in Nat /\ AreaEnd + BSIZE <= DISKSIZE * BSIZE
    BY CellsAreNumbers, AreaFits
<1> DEFINE room == DISKSIZE * BSIZE
<1> HIDE DEF f, room
<1>4. h.off + from \in Nat /\ h.off + from < room /\ h.off + from + h.filesz <= room
    <2> DEFINE x == h.off
               y == h.filesz
               l == Len(f)
    <2>1. room \in Nat /\ AreaEnd + BSIZE <= room /\ AreaEnd \in Nat /\ BSIZE \in Nat
        BY <1>3 DEF room
    <2>2. x \in Nat /\ y \in Nat /\ l \in Nat /\ x + y <= l
          /\ from \in Nat /\ from + l <= AreaEnd
        BY <1>1, <1>2
    <2>3. BSIZE > 0
        OBVIOUS
    <2> HIDE DEF x, y, l
    <2>4. x + from \in Nat /\ x + from < room /\ x + from + y <= room
        BY <2>1, <2>2, <2>3
    <2> QED BY <2>4 DEF x, y
<1>5. Source = h.off + from
    <2> DEFINE x == h.off
    <2>1. x \in Nat /\ from + x + 0 < DISKSIZE * BSIZE /\ 0 \in Nat
        BY <1>1, <1>2, <1>4 DEF room
    <2>2. Source = StartBlock + ((x + StartOffset) % ADDRESSES)
        BY DEF Source
    <2> HIDE DEF x
    <2>3. StartBlock + ((x + StartOffset) % ADDRESSES) = from + x
        BY <1>1, <2>1, ReadBehind
    <2>4. from + x = x + from
        BY <1>1, <2>1
    <2> QED BY <2>2, <2>3, <2>4 DEF x
<1> HIDE DEF h
<1>6. Source \in Cells /\ Source + h.filesz <= DISKSIZE * BSIZE
    <2>1. room \in Nat /\ Cells = 0 .. room - 1
        BY <1>3 DEF room, Cells
    <2>2. Source \in Cells /\ Source + h.filesz <= room
        BY <1>4, <1>5, <2>1
    <2> QED BY <2>2 DEF room
<1>7. ASSUME NEW c \in 0 .. h.filesz - 1, h.off + c < Len(f) - 1
      PROVE  disk[Source + c] = f[h.off + c + 1]
    <2>1. h.off + c \in Nat /\ h.off + c + 1 < Len(f) /\ Source + c = from + (h.off + c)
        <3> DEFINE x == h.off
                   y == h.filesz
                   l == Len(f)
        <3>1. /\ x \in Nat /\ y \in Nat /\ l \in Nat /\ from \in Nat /\ Source = x + from
              /\ c \in 0 .. y - 1 /\ x + c < l - 1
            BY <1>1, <1>2, <1>5, <1>7
        <3> HIDE DEF x, y, l
        <3>2. x + c \in Nat /\ x + c + 1 < l /\ Source + c = from + (x + c)
            BY <3>1
        <3> QED BY <3>2 DEF x, l
    <2> QED BY <1>1, <2>1
<1> QED BY <1>6, <1>7 DEF f, h

LEMMA LoadSegmentInv ==
    ASSUME LoaderInv, LoadSegment
    PROVE  LoaderInv'
<1> DEFINE h == Segment
<1>1. /\ booted' /\ pc = "segments" /\ ~errorOccurred
      /\ UNCHANGED mkfsVars /\ UNCHANGED <<disk, info>> /\ MkfsInv'
    BY Runs DEF LoadSegment, InSegments
<1>2. /\ LoaderTyped /\ MapsApart /\ seg \in 1 .. Len(list) /\ Len(list) \in Nat /\ mapped = h.memsz
      /\ HasPages(pid, h, mapped) /\ FreePids # {} /\ InProcess
      /\ IsHeader(h) /\ h.filesz <= h.memsz /\ h.memsz \in Nat /\ h.filesz \in Nat
    <2>1. LoaderTyped /\ MapsApart /\ seg <= Len(list) /\ mapped >= h.memsz /\ mapped \in Nat
          /\ FreePids # {}
        BY <1>1 DEF LoadSegment, InSegments, LoaderInv, LoaderTyped
    <2>2. seg \in 1 .. Len(list) + 1 /\ HasPages(pid, h, mapped) /\ mapped <= h.memsz
        BY <1>1, <2>1 DEF LoaderInv, SegmentsMapped
    <2>3. Len(list) \in Nat
        BY <2>1, LenProperties DEF LoaderTyped
    <2>4. seg \in 1 .. Len(list)
        BY <2>1, <2>2, <2>3
    <2>5. IsHeader(h) /\ h.filesz <= h.memsz
        BY <2>4, InList DEF Segment
    <2>6. h.memsz \in Nat /\ h.filesz \in Nat
        BY <2>5, HeaderNumbers
    <2> HIDE DEF h
    <2>7. mapped = h.memsz
        BY <2>1, <2>2, <2>6
    <2> QED BY <1>1, <2>1, <2>2, <2>3, <2>4, <2>5, <2>6, <2>7 DEF InProcess
<1>3. h = list[seg].h
    BY DEF Segment
<1>4. CASE ~(Source \in Cells /\ Source + h.filesz <= DISKSIZE * BSIZE)
    <2>1. Stop
        BY <1>4 DEF LoadSegment
    <2>2. \A n : ~Loading(n)
        BY <1>1, <1>2, <1>4, SourceThere
    <2> QED BY <1>1, <2>1, <2>2, StopForPages
<1>5. CASE Source \in Cells /\ Source + h.filesz <= DISKSIZE * BSIZE
    <2>1. /\ stack' = StackAbove(EndOf(h)) /\ seg' = seg + 1 /\ mapped' = 0
          /\ UNCHANGED <<maps, errorOccurred, pd, pc, from, to, hdr, i, cnt, list>>
        BY <1>5 DEF LoadSegment, spaces, reader, EndOf
    <2>2. FreePids' = FreePids /\ pid' = pid
        BY <2>1, PidStays
    <2>3. HasPages(pid, h, h.memsz) /\ HasPages(pid, h, h.filesz)
        <3>1. HasPages(pid, h, h.memsz)
            BY <1>2
        <3>2. 0 .. h.filesz - 1 \subseteq 0 .. h.memsz - 1
            BY <1>2
        <3> QED BY <3>1, <3>2 DEF HasPages
    <2>4. /\ \A t, v : \A o \in 0 .. PGSIZE - 1 :
                IsAllocated(t, v) /\ ~Written(h, t, v, o) => ram'[PageOf(t, v)][o] = ram[PageOf(t, v)][o]
          /\ h.vaddr + h.filesz < VirtualPages * PGSIZE =>
                \A c \in 0 .. h.filesz - 1 :
                   LET a == h.vaddr + c
                   IN ram'[PageOf(pid, VirtPage(a))][a % PGSIZE] = disk[Source + c]
        <3>1. ram' = Loaded(h, Source)
            BY <1>5, Zenon DEF LoadSegment, Loaded
        <3> HIDE DEF h
        <3> QED BY <1>2, <2>3, <3>1, CellsLoaded
    <2>5. MapsApart' /\ LoadsWellFormed'
        BY <1>1, <1>2, <2>1 DEF MapsApart, LoadsWellFormed
    <2>6. LoadedAsBuilt' /\ StackAboveProgram'
        <3>1. ASSUME NEW p \in pd, NEW v, NEW o \in 0 .. PGSIZE - 1, IsAllocated(p.pid, v)
              PROVE  ram'[PageOf(p.pid, v)][o] = ram[PageOf(p.pid, v)][o]
            <4>1. p.pid # pid
                BY <1>2, PidFree
            <4>2. ~Written(h, p.pid, v, o)
                BY <4>1 DEF Written
            <4> HIDE DEF h
            <4> QED BY <2>4, <3>1, <4>2
        <3> HIDE DEF h
        <3> QED BY <1>1, <2>1, <2>5, <3>1, PropertiesStay
    <2>7. LoaderTyped'
        <3>1. stack' \in 0 .. ADDRESSES
            BY <1>2, <2>1, StackGoesUp
        <3> HIDE DEF h
        <3> QED BY <1>1, <1>2, <2>1, <2>2, <3>1 DEF LoaderTyped
    <2>8. NodesGrow' /\ MapsOwned' /\ InProcess'
        BY <1>2, <2>1, <2>2 DEF LoaderInv, NodesGrow, MapsOwned, InProcess
    <2>9. \A k : Before(k)' <=> Before(k) \/ k = seg
        <3>1. \A k \in 1 .. Len(list) : k < seg + 1 <=> k < seg \/ k = seg
            BY <1>2
        <3> HIDE DEF h
        <3> QED BY <1>1, <1>2, <2>1, <3>1 DEF Before
    <2>10. \A k : Before(k) => k \in 1 .. Len(list) /\ k < seg /\ k # seg
        BY <1>1, <1>2 DEF Before
    <2>11. SegmentsMapped'
        <3>1. seg' \in 1 .. Len(list') + 1
            BY <1>2, <2>1
        <3>2. seg' <= Len(list') => mapped' <= Segment'.memsz /\ HasPages(pid, Segment, mapped)'
            <4> HAVE seg' <= Len(list')
            <4>1. seg + 1 \in 1 .. Len(list) /\ Segment' = list[seg + 1].h
                BY <1>2, <2>1 DEF Segment
            <4>2. list[seg + 1].h.memsz \in Nat
                BY <4>1, InList, HeaderNumbers
            <4>3. 0 .. mapped' - 1 = {}
                BY <2>1
            <4>4. HasPages(pid, Segment, mapped)'
                BY <4>3 DEF HasPages
            <4> QED BY <2>1, <4>1, <4>2, <4>4
        <3>3. ASSUME NEW k \in 1 .. Len(list), Before(k) \/ k = seg
              PROVE  HasPages(pid, list[k].h, list[k].h.memsz)'
            <4>1. HasPages(pid, list[k].h, list[k].h.memsz)
                BY <1>2, <1>3, <2>3, <3>3 DEF LoaderInv, SegmentsMapped
            <4> QED BY <2>1, <2>2, <4>1 DEF HasPages, IsAllocated, VirtPage
        <3> HIDE DEF h
        <3> QED BY <2>1, <2>9, <3>1, <3>2, <3>3 DEF SegmentsMapped
    <2>12. \A n : Loading(n)' <=> Loading(n)
        BY <1>1, <2>1, LoadingStays
    <2>13. HeadersRead'
        BY <1>1, <1>2, <2>1, <2>12 DEF LoaderInv, HeadersRead, InProcess
    <2>14. StackIsAbove'
        <3>1. ASSUME NEW n \in 1 .. Len(info), Loading(n)
              PROVE  /\ stack' <= VirtualPages - 2
                     /\ \A k \in 1 .. Len(list) :
                           Before(k) \/ k = seg => EndOf(list[k].h) <= stack' * PGSIZE
                     /\ \A m \in maps : m.table = pid => m.virtual < stack'
            <4>1. /\ stack <= VirtualPages - 2
                  /\ \A k \in 1 .. Len(list) : Before(k) => EndOf(list[k].h) <= stack * PGSIZE
                  /\ \A m \in maps : m.table = pid => m.virtual < stack \/ m.virtual * PGSIZE < EndOf(h)
                BY <1>1, <1>2, <3>1 DEF LoaderInv, StackIsAbove
            <4>2. 2 <= VirtualPages /\ EndOf(h) <= (VirtualPages - 2) * PGSIZE
                BY <1>2, <1>3, <3>1, SegmentsApart
            <4> HIDE DEF h
            <4>3. /\ stack' \in Nat /\ stack' <= VirtualPages - 2
                  /\ stack <= stack' /\ stack \in Nat
                  /\ stack * PGSIZE <= stack' * PGSIZE /\ EndOf(h) <= stack' * PGSIZE
                BY <1>2, <2>1, <4>1, <4>2, StackGoesUp
            <4>4. EndOf(h) \in Nat /\ stack * PGSIZE \in Nat /\ stack' * PGSIZE \in Nat
                BY <1>2, <4>3, HeaderNumbers, Multiples
            <4>5. ASSUME NEW k \in 1 .. Len(list), Before(k) \/ k = seg
                  PROVE  EndOf(list[k].h) <= stack' * PGSIZE
                <5>1. CASE k = seg
                    BY <1>3, <4>3, <5>1
                <5>2. CASE Before(k)
                    <6> DEFINE x == EndOf(list[k].h)
                               y == stack * PGSIZE
                               z == stack' * PGSIZE
                    <6>1. x \in Nat /\ y \in Nat /\ z \in Nat /\ x <= y /\ y <= z
                        BY <4>1, <4>3, <4>4, <5>2, InList, HeaderNumbers
                    <6> HIDE DEF x, y, z
                    <6>2. x <= z
                        BY <6>1
                    <6> QED BY <6>2 DEF x, z
                <5> QED BY <4>5, <5>1, <5>2
            <4>6. ASSUME NEW m \in maps, m.table = pid
                  PROVE  m.virtual < stack'
                <5>1. m.virtual \in Nat
                    BY <1>2 DEF MapsApart, VPages
                <5>2. CASE m.virtual < stack
                    BY <4>3, <5>1, <5>2
                <5>3. CASE m.virtual * PGSIZE < EndOf(h)
                    <6> DEFINE x == m.virtual * PGSIZE
                               y == EndOf(h)
                               z == stack' * PGSIZE
                    <6>1. x \in Nat /\ y \in Nat /\ z \in Nat /\ x < y /\ y <= z
                        BY <4>3, <4>4, <5>1, <5>3, Multiples
                    <6>2. x < z
                        <7> HIDE DEF x, y, z
                        <7> QED BY <6>1
                    <6>3. ~(stack' <= m.virtual)
                        <7> SUFFICES ASSUME stack' <= m.virtual PROVE FALSE
                            OBVIOUS
                        <7>1. z <= x
                            BY <4>3, <5>1, Multiples
                        <7> HIDE DEF x, z
                        <7> QED BY <6>1, <6>2, <7>1
                    <6> QED BY <4>3, <5>1, <6>3
                <5> QED BY <4>1, <4>6, <5>2, <5>3
            <4> QED BY <4>3, <4>5, <4>6
        <3>2. list' = list /\ maps' = maps /\ pid' = pid /\ info' = info /\ pc' = "segments"
            BY <1>1, <2>1, <2>2
        <3> HIDE DEF h
        <3> QED BY <2>9, <2>12, <3>1, <3>2 DEF StackIsAbove, EndOf
    <2>15. SegmentsInPlace'
        <3>1. ASSUME NEW n \in 1 .. Len(info), Loading(n), NEW k \in 1 .. Len(list), Before(k) \/ k = seg
              PROVE  InPlaceNext(list[k].h, info[n].prog)
            <4> DEFINE f == info[n].prog
                       g == list[k].h
            <4>1. EndOf(h) < VirtualPages * PGSIZE /\ EndOf(g) < VirtualPages * PGSIZE
                BY <1>2, <1>3, <3>1, SegmentsApart
            <4>2. CASE k = seg
                <5>1. \A c \in 0 .. h.filesz - 1 : h.off + c < Len(f) - 1 => disk[Source + c] = f[h.off + c + 1]
                    BY <1>1, <1>2, <3>1, SourceThere
                <5>2. h.vaddr + h.filesz < VirtualPages * PGSIZE
                    <6> DEFINE room == VirtualPages * PGSIZE
                    <6>1. room \in Nat /\ h.vaddr \in Nat /\ EndOf(h) = h.vaddr + h.memsz /\ EndOf(h) < room
                        BY <1>2, <4>1, HeaderNumbers, Multiples DEF EndOf
                    <6> HIDE DEF h, room
                    <6>2. h.vaddr + h.filesz < room
                        BY <1>2, <6>1
                    <6> QED BY <6>2 DEF room
                <5>3. \A c \in 0 .. h.filesz - 1 :
                         LET a == h.vaddr + c
                         IN ram'[PageOf(pid, VirtPage(a))][a % PGSIZE] = disk[Source + c]
                    BY <2>4, <5>2
                <5>4. Copied(h, Source) /\ FileAt(h, Source, f)
                    BY <5>1, <5>3 DEF Copied, FileAt
                <5>5. MapsApart /\ maps' = maps
                    BY <1>2, <2>1
                <5> HIDE DEF h, f
                <5>6. InPlaceNext(h, f)
                    BY <5>4, <5>5, NowInPlace
                <5> QED BY <1>3, <4>2, <5>6 DEF f
            <4>3. CASE Before(k)
                <5>1. k # seg /\ (EndOf(g) <= h.vaddr \/ EndOf(h) <= g.vaddr)
                    BY <1>2, <1>3, <2>10, <3>1, <4>3, SegmentsApart
                <5>2. InPlace(pid, g, f)
                    BY <1>2, <3>1, <4>3 DEF LoaderInv, SegmentsInPlace
                <5>3. IsHeader(g) /\ g.filesz <= g.memsz
                    BY InList
                <5> HIDE DEF h, f, g
                <5>4. InPlaceNext(g, f)
                    BY <1>2, <2>1, <2>4, <4>1, <5>1, <5>2, <5>3, StaysInPlace
                <5> QED BY <5>4 DEF g, f
            <4> QED BY <3>1, <4>2, <4>3
        <3>2. list' = list /\ pid' = pid /\ info' = info
            BY <1>1, <2>1, <2>2
        <3>3. ASSUME NEW n \in 1 .. Len(info), Loading(n), NEW k \in 1 .. Len(list), Before(k) \/ k = seg
              PROVE  InPlace(pid, list[k].h, info[n].prog)'
            BY <3>1, <3>2, <3>3 DEF InPlaceNext, InPlace, VirtPage
        <3> HIDE DEF h
        <3> QED BY <2>9, <2>12, <3>2, <3>3 DEF SegmentsInPlace
    <2> QED BY <1>1, <2>5, <2>6, <2>7, <2>8, <2>11, <2>13, <2>14, <2>15 DEF LoaderInv
<1> QED BY <1>4, <1>5

-----------------------------------------------------------------------------
(***************************************************************************)
(* Before the machine boots, and the theorems.                             *)
(***************************************************************************)
LEMMA InitLoader == Init => LoaderInv
<1> SUFFICES ASSUME Init PROVE LoaderInv
    OBVIOUS
<1>1. MkfsInv
    BY InitMkfs DEF Init
<1>2. /\ booted = FALSE /\ maps = {} /\ errorOccurred = FALSE /\ pd = {} /\ pc = "idle"
      /\ from = 0 /\ i = 0 /\ cnt = 0 /\ list = <<>> /\ mapped = 0 /\ stack = 0
    BY DEF Init, Spaces!Init
<1>3. list \in Seq(Nodes) /\ Len(list) = 0
    BY <1>2, EmptySeq
<1>4. LoaderTyped
    <2>1. 0 \in Cells /\ 0 \in 0 .. ADDRESSES
        BY CellsAreNumbers
    <2>2. pd \in SUBSET Processes
        BY <1>2
    <2> QED BY <1>2, <1>3, <2>1, <2>2 DEF LoaderTyped
<1>5. NodesGrow /\ MapsApart /\ MapsOwned
    BY <1>2, <1>3 DEF NodesGrow, MapsApart, MapsOwned
<1>6. SegmentsMapped /\ HeadersRead /\ StackIsAbove /\ SegmentsInPlace
    BY <1>2 DEF SegmentsMapped, HeadersRead, StackIsAbove, SegmentsInPlace, InProcess
<1>7. LoadedAsBuilt /\ StackAboveProgram /\ LoadsWellFormed
    BY <1>2 DEF LoadedAsBuilt, StackAboveProgram, LoadsWellFormed
<1> QED BY <1>1, <1>4, <1>5, <1>6, <1>7 DEF LoaderInv

LEMMA BuildInv ==
    ASSUME LoaderInv, Build \/ Boot
    PROVE  LoaderInv'
<1>1. /\ ~booted /\ booted' \in BOOLEAN
      /\ UNCHANGED <<maps, errorOccurred, pd, pc, from, i, cnt, list, mapped, stack>>
    BY DEF Build, Boot, spaces, reader, loader, LoaderInv, LoaderTyped
<1>2. LoaderTyped /\ pc = "idle" /\ ~errorOccurred /\ pd = {}
    BY <1>1 DEF LoaderInv, LoaderTyped
<1>3. MkfsInv'
    BY MkfsNextInv, MkfsStays DEF LoaderInv, Build, Boot
<1>4. FreePids' = FreePids /\ pid' = pid
    BY <1>1, PidStays
<1>5. LoaderTyped'
    BY <1>1, <1>2 DEF LoaderTyped
<1>6. NodesGrow' /\ MapsApart' /\ MapsOwned'
    BY <1>1, <1>4 DEF LoaderInv, NodesGrow, MapsApart, MapsOwned, InProcess
<1>7. SegmentsMapped' /\ HeadersRead' /\ StackIsAbove' /\ SegmentsInPlace'
    BY <1>1, <1>2 DEF SegmentsMapped, HeadersRead, StackIsAbove, SegmentsInPlace, InProcess
<1>8. LoadedAsBuilt' /\ StackAboveProgram' /\ LoadsWellFormed'
    BY <1>1, <1>2 DEF LoadedAsBuilt, StackAboveProgram, LoadsWellFormed
<1> QED BY <1>3, <1>5, <1>6, <1>7, <1>8 DEF LoaderInv

LEMMA LoaderStays ==
    ASSUME LoaderInv, UNCHANGED vars
    PROVE  LoaderInv'
<1>1. /\ UNCHANGED <<booted, existing, maps, errorOccurred, ram, pd, pc, from, to>>
      /\ UNCHANGED <<hdr, i, cnt, list, seg, mapped, stack>>
      /\ UNCHANGED mkfsVars /\ UNCHANGED <<disk, info>>
    BY DEF vars, spaces, reader, loader, mkfsVars
<1>2. MkfsInv'
    BY <1>1, MkfsStays DEF LoaderInv
<1>3. FreePids' = FreePids /\ pid' = pid
    BY <1>1, PidStays
<1>4. \A n : Loading(n)' <=> Loading(n)
    BY <1>1, LoadingStays
<1>5. LoaderTyped'
    BY <1>1, <1>3 DEF LoaderInv, LoaderTyped
<1>6. NodesGrow' /\ MapsApart' /\ MapsOwned'
    BY <1>1, <1>3 DEF LoaderInv, NodesGrow, MapsApart, MapsOwned, InProcess
<1>7. SegmentsMapped'
    BY <1>1, <1>3 DEF LoaderInv, SegmentsMapped, HasPages, IsAllocated, Segment, Before, InProcess
<1>8. HeadersRead'
    BY <1>1, <1>4 DEF LoaderInv, HeadersRead, InProcess
<1>9. StackIsAbove'
    BY <1>1, <1>3, <1>4 DEF LoaderInv, StackIsAbove, InProcess, Before, Segment, IsAllocated
<1>10. SegmentsInPlace'
    <2>1. SegmentsInPlace
        BY DEF LoaderInv
    <2>2. /\ InProcess' <=> InProcess
          /\ \A k : Before(k)' <=> Before(k)
          /\ \A t, h, f : InPlace(t, h, f)' <=> InPlace(t, h, f)
        BY <1>1 DEF InProcess, Before, InPlace
    <2> QED BY <1>1, <1>3, <1>4, <2>1, <2>2 DEF SegmentsInPlace
<1>11. LoadedAsBuilt' /\ StackAboveProgram'
    BY <1>1, <1>6, PropertiesStay
<1>12. LoadsWellFormed'
    <2>1. LoadsWellFormed /\ FreePages' = FreePages
        BY <1>1 DEF LoaderInv, FreePages
    <2>2. ASSUME NEW n \in Recorded(from)', Intact(n)'
          PROVE  n \in Recorded(from) /\ Intact(n)
        BY <1>1, <2>2, LoadingStays
    <2> QED BY <1>1, <2>1, <2>2 DEF LoadsWellFormed, At
<1> QED BY <1>2, <1>5, <1>6, <1>7, <1>8, <1>9, <1>10, <1>11, <1>12 DEF LoaderInv

LEMMA LoaderInvariance == Spec => []LoaderInv
<1>1. LoaderInv /\ [Next]_vars => LoaderInv'
    <2> SUFFICES ASSUME LoaderInv, [Next]_vars PROVE LoaderInv'
        OBVIOUS
    <2>1. CASE Build \/ Boot
        BY <2>1, BuildInv
    <2>2. ASSUME NEW s, NEW e, CreateProcess(s, e) PROVE LoaderInv'
        BY <2>2, CreateProcessInv
    <2>3. CASE ReadElfHeader
        BY <2>3, ReadElfHeaderInv
    <2>4. CASE ReadProgramHeader
        BY <2>4, ReadProgramHeaderInv
    <2>5. CASE AllHeadersRead
        BY <2>5, AllHeadersReadInv
    <2>6. CASE MapCell
        BY <2>6, MapCellInv
    <2>7. CASE LoadSegment
        BY <2>7, LoadSegmentInv
    <2>8. CASE AllocateStack
        BY <2>8, AllocateStackInv
    <2>9. CASE Finish
        BY <2>9, FinishInv
    <2>10. CASE UNCHANGED vars
        BY <2>10, LoaderStays
    <2>11. CASE \E n \in 1 .. Len(info) : CreateProcess(At(info[n].start), At(info[n].end))
        <3>1. PICK n \in 1 .. Len(info) : CreateProcess(At(info[n].start), At(info[n].end))
            BY <2>11
        <3> DEFINE s == At(info[n].start)
                   e == At(info[n].end)
        <3>2. CreateProcess(s, e)
            BY <3>1
        <3> HIDE DEF s, e
        <3> QED BY <3>2, CreateProcessInv
    <2>12. CASE CreateProcess(DISKSIZE * BSIZE, DISKSIZE * BSIZE)
        BY <2>2, <2>12
    <2> QED BY <2>1, <2>3, <2>4, <2>5, <2>6, <2>7, <2>8, <2>9, <2>10, <2>11, <2>12 DEF Next
<1> QED BY <1>1, InitLoader, PTL DEF Spec

LEMMA LoaderTypes == LoaderInv => TypeOK
<1> SUFFICES ASSUME LoaderInv PROVE TypeOK
    OBVIOUS
<1>1. LoaderTyped /\ Len(list) \in Nat
    BY LenProperties DEF LoaderInv, LoaderTyped
<1>2. DOMAIN disk = Cells
    BY DEF LoaderInv, MkfsInv, MkfsTypeOK
<1>3. pc = "segments" => seg \in 1 .. Len(list) + 1
    BY DEF LoaderInv, SegmentsMapped
<1>4. ASSUME NEW j \in 1 .. Len(list), NEW k \in 1 .. Len(list)
      PROVE  /\ list[j].node \in 0 .. ELFSIZE - 1
             /\ j # k => list[j].node # list[k].node
    <2>1. list[j].node \in Nat /\ list[j].node < ELFSIZE /\ list[k].node \in Nat
        BY InList
    <2>2. j < k => list[j].node < list[k].node
        BY DEF LoaderInv, NodesGrow
    <2>3. k < j => list[k].node < list[j].node
        BY DEF LoaderInv, NodesGrow
    <2>4. ELFSIZE \in Nat
        OBVIOUS
    <2> QED BY <1>1, <2>1, <2>2, <2>3, <2>4
<1> QED BY <1>1, <1>2, <1>3, <1>4 DEF LoaderTyped, TypeOK

(***************************************************************************)
(* createProcess reads and maps within bounds: elfReader's list never runs *)
(* out of elfNodes, though cnt is counted up twice for each node, no two   *)
(* of its headers share one, and programLoader stays inside the list.      *)
(***************************************************************************)
THEOREM TypesAreKept == Spec => []TypeOK
    BY LoaderInvariance, LoaderTypes, PTL

(***************************************************************************)
(* programLoader puts every segment of a well-formed program where its     *)
(* header asks for, and no later createProcess changes it.                 *)
(***************************************************************************)
THEOREM ProgramsAreLoaded == Spec => []LoadedAsBuilt
    BY LoaderInvariance, PTL DEF LoaderInv

(***************************************************************************)
(* stackBeginVirtPage is above every segment, and the two pages that       *)
(* createProcess maps there are the topmost the process has.               *)
(***************************************************************************)
THEOREM StacksAreAbove == Spec => []StackAboveProgram
    BY LoaderInvariance, PTL DEF LoaderInv

(***************************************************************************)
(* error() is called while a well-formed program with few headers is       *)
(* loaded only when allocatePage has no page left.                         *)
(***************************************************************************)
THEOREM LoadingStopsForPages == Spec => []LoadsWellFormed
    BY LoaderInvariance, PTL DEF LoaderInv

(***************************************************************************)
(* The disk is as mkfs recorded it all the while programs are loaded: the  *)
(* loader writes nothing to it.                                            *)
(***************************************************************************)
THEOREM DiskStaysAsBuilt == Spec => [](ProgramsInPlace /\ RefusedExactlyForRoom)
    BY LoaderInvariance, PTL DEF LoaderInv, MkfsInv

-----------------------------------------------------------------------------
(***************************************************************************)
(* The loader and the address spaces.                                      *)
(***************************************************************************)
LEMMA StopIsStop ==
    ASSUME Stop
    PROVE  [Spaces!Next]_Spaces!spaceVars
    BY DEF Stop, Spaces!Next

LEMMA AllocateMaps ==
    ASSUME FreePids # {}, NEW v \in VPages, Allocate(v)
    PROVE  [Spaces!Next]_Spaces!spaceVars
<1>1. pid \in Pids
    BY PidFree
<1>2. Spaces!Map(pid, v, RWX)
    BY DEF Allocate
<1> DEFINE t == pid
<1>3. t \in Pids /\ Spaces!Map(t, v, RWX)
    BY <1>1, <1>2
<1> HIDE DEF t
<1> QED BY <1>3 DEF Spaces!Next

LEMMA CreateCreates ==
    ASSUME FreePids # {}, Spaces!Create(pid)
    PROVE  [Spaces!Next]_Spaces!spaceVars
<1> DEFINE t == pid
<1>1. t \in Pids /\ Spaces!Create(t)
    BY PidFree
<1> HIDE DEF t
<1> QED BY <1>1 DEF Spaces!Next

(***************************************************************************)
(* createProcess uses the address spaces as module AddressSpaces, which    *)
(* PageTables implements, has them: a table is made once for a pid that is *)
(* free, no virtual page of it is mapped twice and no page is used twice.  *)
(***************************************************************************)
THEOREM LoaderUsesSpaces == Spec => Spaces!Spec
<1>1. Init => Spaces!Init
    BY DEF Init
<1>2. LoaderInv /\ [Next]_vars => [Spaces!Next]_Spaces!spaceVars
    <2> SUFFICES ASSUME LoaderInv, [Next]_vars PROVE [Spaces!Next]_Spaces!spaceVars
        OBVIOUS
    <2>0. pc # "idle" => FreePids # {}
        BY DEF LoaderInv, LoaderTyped
    <2>1. CASE UNCHANGED spaces \/ Stop
        BY <2>1, StopIsStop DEF spaces, Spaces!spaceVars
    <2>2. ASSUME NEW s, NEW e, CreateProcess(s, e) PROVE UNCHANGED spaces \/ Stop
        BY <2>2 DEF CreateProcess
    <2>3. CASE Build \/ Boot \/ ReadElfHeader \/ ReadProgramHeader \/ LoadSegment
        <3>1. UNCHANGED spaces \/ Stop
            BY <2>3 DEF Build, Boot, ReadElfHeader, ReadProgramHeader, LoadSegment
        <3> QED BY <2>1, <3>1
    <2>4. CASE AllHeadersRead
        <3>1. Stop \/ (Spaces!Create(pid) /\ FreePids # {})
            BY <2>0, <2>4 DEF AllHeadersRead, Running
        <3> QED BY <2>1, <3>1, CreateCreates
    <2>5. CASE MapCell
        <3> DEFINE v == VirtPage(Segment.vaddr + mapped)
        <3>1. v \in VPages /\ FreePids # {}
            <4>1. pc = "segments" /\ seg <= Len(list) /\ list \in Seq(Nodes) /\ mapped \in Nat
                BY <2>5 DEF MapCell, InSegments, Running, LoaderInv, LoaderTyped
            <4>2. seg \in 1 .. Len(list) + 1 /\ Len(list) \in Nat
                BY <4>1, LenProperties DEF LoaderInv, SegmentsMapped
            <4>3. seg \in 1 .. Len(list)
                BY <4>1, <4>2
            <4>4. Segment.vaddr \in Nat
                BY <4>3, InList, HeaderNumbers DEF Segment
            <4>5. Segment.vaddr + mapped \in Nat
                BY <4>1, <4>4
            <4>6. v \in VPages
                BY <4>5, VirtPageBounds
            <4> QED BY <2>0, <4>1, <4>6
        <3>2. UNCHANGED spaces \/ Stop \/ Allocate(v)
            BY <2>5 DEF MapCell
        <3> HIDE DEF v
        <3> QED BY <2>1, <3>1, <3>2, AllocateMaps
    <2>6. CASE AllocateStack
        <3> DEFINE v == StackPage(0)
        <3>1. v \in VPages /\ FreePids # {} /\ (Stop \/ Allocate(v))
            BY <2>0, <2>6, StackPageTyped DEF AllocateStack, Running
        <3> HIDE DEF v
        <3> QED BY <2>1, <3>1, AllocateMaps
    <2>7. CASE Finish
        <3> DEFINE v == StackPage(1)
        <3>1. v \in VPages /\ FreePids # {} /\ (Stop \/ Allocate(v))
            BY <2>0, <2>7, StackPageTyped DEF Finish, Running
        <3> HIDE DEF v
        <3> QED BY <2>1, <3>1, AllocateMaps
    <2>8. CASE UNCHANGED vars
        <3>1. UNCHANGED spaces
            BY <2>8 DEF vars
        <3> QED BY <2>1, <3>1
    <2>9. CASE \E n \in 1 .. Len(info) : CreateProcess(At(info[n].start), At(info[n].end))
        <3>1. UNCHANGED spaces \/ Stop
            BY <2>9 DEF CreateProcess
        <3> QED BY <2>1, <3>1
    <2>10. CASE CreateProcess(DISKSIZE * BSIZE, DISKSIZE * BSIZE)
        <3>1. UNCHANGED spaces \/ Stop
            BY <2>10 DEF CreateProcess
        <3> QED BY <2>1, <3>1
    <2> QED BY <2>3, <2>4, <2>5, <2>6, <2>7, <2>8, <2>9, <2>10 DEF Next
<1> QED BY <1>1, <1>2, LoaderInvariance, PTL DEF Spec, Spaces!Spec

=============================================================================
