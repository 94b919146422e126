------------------------------- MODULE Loader -------------------------------
(***************************************************************************)
(* Making a process of a program on the disk: createProcess and            *)
(* programLoader of kernel/createProcess.c with elfReader of               *)
(* kernel/elfReader.c.  The disk is what Mkfs leaves when the machine      *)
(* boots; memory is mapped through AddressSpaces; readBytes and            *)
(* readBytesVirtual do what module Log shows of them.                      *)
(*                                                                         *)
(* An ELF header and a program header take one cell each.  Places on the   *)
(* disk are counted in cells, as the code does by carrying offsets into    *)
(* block numbers before each use.                                          *)
(***************************************************************************)
EXTENDS Mkfs, FiniteSetsExt

CONSTANTS
    ELFSIZE,        \* nodes for program headers (30 in declarations.h)
    NPROC,          \* process descriptors (64)
    PGSIZE,         \* cells of a page (4096)
    VirtualPages,   \* pages an address can name (2^27)
    ADDRESSES,      \* values of a 64-bit integer (2^64)
    INTS,           \* values of an int (2^32)
    NumPages,       \* physical pages for processes
    Garbage         \* headers that a cell which is none may look like

ASSUME ElfsizeAssumption == ELFSIZE \in Nat \ {0}
ASSUME NprocAssumption == NPROC \in Nat
ASSUME AddressAssumption ==
    /\ PGSIZE \in Nat \ {0} /\ VirtualPages \in Nat \ {0}
    /\ ADDRESSES \in Nat /\ VirtualPages * PGSIZE < ADDRESSES
ASSUME IntsAssumption ==                \* an int can count the disk
    /\ INTS \in Nat \ {0} /\ 2 * (DISKSIZE * BSIZE) <= INTS /\ INTS <= ADDRESSES
ASSUME BehindAssumption == PROC_END + 1 < DISKSIZE      \* the log is there

IsHeader(h) == {h.off, h.vaddr, h.filesz, h.memsz} \subseteq Nat /\ h.load \in BOOLEAN
IsElf(e) == {e.phoff, e.phnum} \subseteq Nat

ASSUME CellsAssumption ==
    /\ \A h \in Garbage : IsHeader(h)
    /\ \A c \in Contents : /\ c.kind = "header" => IsHeader(c)
                           /\ c.kind = "elf" => IsElf(c)

VARIABLES
    booted,         \* mkfs is done
    existing, maps, errorOccurred,  \* the address spaces
    ram,            \* the cells of the physical pages
    pd,             \* the processes: pid, place of the program, segments, sp
    pc, from, to,   \* where createProcess is, and its arguments
    hdr, i, cnt,    \* elfReader: the ELF header, and its i and cnt
    list,           \* its list: program headers, and the node of each
    seg, mapped,    \* programLoader: place in the list, and i of the page loop
    stack           \* stackBeginVirtPage

spaces == <<existing, maps, errorOccurred>>
reader == <<hdr, i, cnt, list>>
loader == <<seg, mapped, stack>>
vars == <<mkfsVars, booted, spaces, ram, pd, pc, from, to, reader, loader>>

Pids   == 0 .. NPROC - 1
Pages  == 1 .. NumPages
VPages == 0 .. VirtualPages - 1
RWX    == {"R", "W", "X"}

Spaces == INSTANCE AddressSpaces WITH
    Tables <- Pids, VirtualPages <- VPages, Permissions <- {RWX}, stopped <- errorOccurred

Init ==
    /\ MkfsInit /\ booted = FALSE
    /\ Spaces!Init
    /\ ram = [p \in Pages |-> [o \in 0 .. PGSIZE - 1 |-> Space]]
    /\ pd = {}
    /\ pc = "idle" /\ from = 0 /\ to = 0
    /\ hdr = Space /\ i = 0 /\ cnt = 0 /\ list = <<>>
    /\ seg = 0 /\ mapped = 0 /\ stack = 0

Running(where) == booted /\ pc = where /\ ~errorOccurred /\ UNCHANGED <<mkfsVars, booted>>

(* error(): there is no list of segments, or the loader cannot go on. *)
Stop == Spaces!Stop /\ UNCHANGED <<ram, pd, pc, from, to, reader, loader>>

-----------------------------------------------------------------------------
FreePids == Pids \ {p.pid : p \in pd}
pid == Min(FreePids)

CreateProcess(s, e) ==
    /\ Running("idle")
    /\ IF FreePids = {} \/ s \notin Cells THEN Stop
       ELSE /\ pc' = "elf header" /\ from' = s /\ to' = e % ADDRESSES
            /\ cnt' = 0 /\ list' = <<>>
            /\ UNCHANGED <<spaces, ram, pd, hdr, i, loader>>

ReadElfHeader ==
    /\ Running("elf header")
    /\ IF disk[from].kind # "elf" THEN Stop         \* elf.magic
       ELSE /\ pc' = "headers" /\ hdr' = disk[from] /\ i' = 0
            /\ UNCHANGED <<spaces, ram, pd, from, to, cnt, list, loader>>

(* startOffset, and the first cell of startBlock. *)
StartOffset == from % BSIZE
StartBlock == from - StartOffset

(* off is an int: what phoff makes of it is cut to INTS, with a sign. *)
AsInt(n) == IF n % INTS < INTS \div 2 THEN n % INTS ELSE (n % INTS) - INTS
FirstOff == AsInt(StartOffset + hdr.phoff)

HeaderPlace == (StartBlock + FirstOff + i) % ADDRESSES

(* allocateELFReader: the node, and the index behind it. *)
Node == IF list = <<>> THEN 0 ELSE cnt
NextNode == Node + 1

(* Mutant of NodeLeft: off by one. *)
NodeLeftLate == cnt <= ELFSIZE

NodeLeft == cnt < ELFSIZE

Valid(h) ==
    /\ h.memsz >= h.filesz
    /\ (h.vaddr + h.memsz) % ADDRESSES >= h.vaddr
    /\ h.vaddr % PGSIZE = 0
    /\ NodeLeft

(* What lies there may be no program header, and is then taken for one; so *)
(* is, with off below 0, what lies in front of the buffer.                 *)
HeadersThere ==
    LET found == HeaderPlace \in Cells /\ disk[HeaderPlace].kind = "header"
    IN {h \in {disk[HeaderPlace]} : found} \cup IF found /\ FirstOff >= 0 THEN {} ELSE Garbage

(* A round of the loop; its cnt++ comes on top of allocateELFReader's.     *)
ReadProgramHeader ==
    /\ Running("headers") /\ i < hdr.phnum
    /\ \E h \in HeadersThere :
          IF HeaderPlace > to \/ HeaderPlace \notin Cells \/ (h.load /\ ~Valid(h)) THEN Stop
          ELSE /\ i' = i + 1
               /\ IF h.load
                  THEN cnt' = NextNode + 1 /\ list' = Append(list, [node |-> Node, h |-> h])
                  ELSE cnt' = cnt + 1 /\ UNCHANGED list
               /\ UNCHANGED <<spaces, ram, pd, pc, from, to, hdr, loader>>

AllHeadersRead ==
    /\ Running("headers") /\ i >= hdr.phnum
    /\ IF list = <<>> THEN Stop
       ELSE /\ Spaces!Create(pid)                    \* allocatePageTable
            /\ pc' = "segments" /\ seg' = 1 /\ mapped' = 0 /\ stack' = 0
            /\ UNCHANGED <<ram, pd, from, to, reader>>

-----------------------------------------------------------------------------
VirtPage(a) == (a \div PGSIZE) % VirtualPages       \* getVirtPage
IsAllocated(t, v) == \E m \in maps : m.table = t /\ m.virtual = v
PageOf(t, v) == (CHOOSE m \in maps : m.table = t /\ m.virtual = v).page

(* allocateVirtualPage.  Bound: the pool gives its lowest page.            *)
FreePages == Pages \ {m.page : m \in maps}
Allocate(v) == Spaces!Map(pid, v, RWX) /\ \E m \in maps' \ maps : m.page = Min(FreePages)
CannotAllocate(v) == IsAllocated(pid, v) \/ FreePages = {}

Segment == list[seg].h
InSegments == Running("segments") /\ seg <= Len(list)

(* Mutant of NeedsPage: every cell is given a page. *)
NeedsPageAlways(v) == TRUE

NeedsPage(v) == ~IsAllocated(pid, v)

(* A round of the page loop: the page of one more cell of the segment. *)
MapCell ==
    /\ InSegments /\ mapped < Segment.memsz
    /\ LET v == VirtPage(Segment.vaddr + mapped)
       IN IF NeedsPage(v) /\ CannotAllocate(v) THEN Stop
          ELSE /\ IF NeedsPage(v) THEN Allocate(v) ELSE UNCHANGED spaces
               /\ mapped' = mapped + 1
               /\ UNCHANGED <<ram, pd, pc, from, to, reader, seg, stack>>

(* Mutant of Source: where the program starts is forgotten. *)
SourceOfFile == Segment.off

Source == StartBlock + ((Segment.off + StartOffset) % ADDRESSES)

CeilDiv(x, y) == ((x + y - 1) % ADDRESSES) \div y

(* Mutant of StackAbove: it lies above the last segment only. *)
StackAboveLast(a) == CeilDiv(a % ADDRESSES, PGSIZE)

StackAbove(a) == Max({stack, CeilDiv(a % ADDRESSES, PGSIZE)})

(* readBytesVirtual, and the end of the segment. *)
LoadSegment ==
    /\ InSegments /\ mapped >= Segment.memsz
    /\ IF Source \in Cells /\ Source + Segment.filesz <= DISKSIZE * BSIZE
       THEN /\ ram' = [p \in Pages |-> [o \in 0 .. PGSIZE - 1 |->
                  LET hits == {k \in 0 .. Segment.filesz - 1 :
                                  /\ PageOf(pid, VirtPage(Segment.vaddr + k)) = p
                                  /\ (Segment.vaddr + k) % PGSIZE = o}
                  IN IF hits = {} THEN ram[p][o] ELSE disk[Source + Max(hits)]]]
            /\ stack' = StackAbove(Segment.vaddr + Segment.memsz)
            /\ seg' = seg + 1 /\ mapped' = 0
            /\ UNCHANGED <<spaces, pd, pc, from, to, reader>>
       ELSE Stop

StackPage(k) == (stack + k) % VirtualPages

AllocateStack ==
    /\ Running("segments") /\ seg > Len(list)
    /\ IF CannotAllocate(StackPage(0)) THEN Stop
       ELSE /\ Allocate(StackPage(0)) /\ pc' = "stack"
            /\ UNCHANGED <<ram, pd, from, to, reader, loader>>

(* The second stack page, and the process descriptor. *)
Finish ==
    /\ Running("stack")
    /\ IF CannotAllocate(StackPage(1)) THEN Stop
       ELSE /\ Allocate(StackPage(1)) /\ pc' = "idle"
            /\ pd' = pd \cup {[pid |-> pid, from |-> from, list |-> list,
                               sp |-> (stack * PGSIZE + 2 * PGSIZE) % ADDRESSES]}
            /\ UNCHANGED <<ram, from, to, reader, loader>>

Build == ~booted /\ MkfsNext /\ UNCHANGED <<booted, spaces, ram, pd, pc, from, to, reader, loader>>

Boot ==
    /\ ~booted /\ ~storing /\ info # <<>>
    /\ booted' = TRUE
    /\ UNCHANGED <<mkfsVars, spaces, ram, pd, pc, from, to, reader, loader>>

(* The callers name a recorded program, or a start beyond the disk. *)
Next ==
    \/ Build \/ Boot
    \/ \E n \in 1 .. Len(info) : CreateProcess(At(info[n].start), At(info[n].end))
    \/ CreateProcess(DISKSIZE * BSIZE, DISKSIZE * BSIZE)
    \/ ReadElfHeader \/ ReadProgramHeader \/ AllHeadersRead
    \/ MapCell \/ LoadSegment \/ AllocateStack \/ Finish

Spec == Init /\ [][Next]_vars

-----------------------------------------------------------------------------
(***************************************************************************)
(* The types, and the nodes of the list: each program header has one of    *)
(* its own inside elfNodes, although cnt runs ahead of them.               *)
(***************************************************************************)
TypeOK ==
    /\ DOMAIN disk = Cells /\ booted \in BOOLEAN
    /\ pc \in {"idle", "elf header", "headers", "segments", "stack"}
    /\ from \in Cells /\ (pc = "segments" => seg \in 1 .. Len(list) + 1)
    /\ i \in Nat /\ cnt \in Nat /\ mapped \in Nat /\ stack \in 0 .. ADDRESSES
    /\ \A j, k \in 1 .. Len(list) :
          /\ list[j].node \in 0 .. ELFSIZE - 1
          /\ j # k => list[j].node # list[k].node

(* A program as a linker makes it: headers behind the ELF header, aligned  *)
(* segments apart from each other, each inside the file and below the two  *)
(* last pages of the address space.                                        *)
Header(f, j) == f[f[1].phoff + j]
Loads(f) == {j \in 1 .. f[1].phnum : Header(f, j).load}

WellFormed(f) ==
    /\ Len(f) > 0 /\ f[1].kind = "elf" /\ f[1].phoff + f[1].phnum < Len(f)
    /\ \A j \in 1 .. f[1].phnum : Header(f, j).kind = "header"
    /\ Loads(f) # {}
    /\ \A j \in Loads(f) :
          LET h == Header(f, j)
          IN /\ h.filesz <= h.memsz /\ h.off + h.filesz <= Len(f)
             /\ h.vaddr % PGSIZE = 0
             /\ h.vaddr + h.memsz <= (VirtualPages - 2) * PGSIZE
             /\ \A k \in Loads(f) \ {j} :
                   \/ h.vaddr + h.memsz <= Header(f, k).vaddr
                   \/ Header(f, k).vaddr + Header(f, k).memsz <= h.vaddr

(* The list l has, in their order, the segments to load among the first m  *)
(* headers of f; at says which header each of them is.                     *)
Lists(l, f, m) ==
    \E at \in [1 .. Len(l) -> 1 .. m] :
        /\ \A j, k \in 1 .. Len(l) : j < k => at[j] < at[k]
        /\ \A k \in 1 .. Len(l) : l[k].h = Header(f, at[k])
        /\ {at[k] : k \in 1 .. Len(l)} = Loads(f) \cap (1 .. m)

(* A program with nothing but its last cell taken by others. *)
Intact(n) == WellFormed(info[n].prog) /\ Whole(n)

Recorded(place) == {n \in 1 .. Len(info) : At(info[n].start) = place}

InMemory(t, a) == ram[PageOf(t, VirtPage(a))][a % PGSIZE]

(***************************************************************************)
(* Every process made of a well-formed program has in its memory what the  *)
(* program's file has, at the addresses its headers ask for, from          *)
(* whichever block it was stored at and whatever is loaded after it.  Only *)
(* the file's last cell may be another program's first (see Mkfs; with     *)
(* empty files behind it the program may have lost more, and is then not   *)
(* Intact).                                                                *)
(***************************************************************************)
LoadedAsBuilt ==
    \A p \in pd : \A n \in Recorded(p.from) :
        LET f == info[n].prog
        IN Intact(n) =>
              /\ Lists(p.list, f, f[1].phnum)
              /\ \A k \in 1 .. Len(p.list) :
                    LET h == p.list[k].h
                    IN \A c \in 0 .. h.memsz - 1 :
                          /\ IsAllocated(p.pid, VirtPage(h.vaddr + c))
                          /\ c < h.filesz /\ h.off + c < Len(f) - 1 =>
                                InMemory(p.pid, h.vaddr + c) = f[h.off + c + 1]

(***************************************************************************)
(* "so that there would be no allocated virtual address after this": the   *)
(* stack of such a process is the two pages above all of its segments, and *)
(* the topmost it has.                                                     *)
(***************************************************************************)
StackAboveProgram ==
    \A p \in pd : \A n \in Recorded(p.from) :
        Intact(n) =>
            LET top == p.sp \div PGSIZE
            IN /\ {top - 1, top - 2} \subseteq {m.virtual : m \in {x \in maps : x.table = p.pid}}
               /\ \A m \in maps : m.table = p.pid => m.virtual < top
               /\ \A k \in 1 .. Len(p.list) :
                     p.list[k].h.vaddr + p.list[k].h.memsz <= (top - 2) * PGSIZE

(***************************************************************************)
(* Creating a process of a recorded, well-formed program with at most half *)
(* as many headers as there are nodes ends in error() only when there are  *)
(* no pages left.  With more headers it may, for cnt is counted up twice   *)
(* for each.                                                               *)
(***************************************************************************)
LoadsWellFormed ==
    errorOccurred /\ pc # "idle" =>
        \A n \in Recorded(from) :
            LET f == info[n].prog
            IN to = At(info[n].end) /\ Intact(n) /\ 2 * f[1].phnum <= ELFSIZE
                  => FreePages = {}
=============================================================================
