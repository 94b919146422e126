----------------------------- MODULE PageTables -----------------------------
(***************************************************************************)
(* The page tables of kernel/paging.c: trees of three levels of            *)
(* directories, kept in pages of the same pool as the pages they map.      *)
(* Physical memory is modelled as it is, one array of entries per page,    *)
(* whether the page is a directory or a process keeps data in it: what a   *)
(* page holds when it is taken from the pool is what its last user left.   *)
(*                                                                         *)
(* The kernel is sequential, so each call is one step.  A step works on a  *)
(* record m of memory, pool and error flag, as the statements of the call  *)
(* do one after the other; once error() is called nothing changes.         *)
(***************************************************************************)
EXTENDS Naturals, Sequences, Functions

CONSTANTS
    NUM_PTE,        \* entries of a directory (512 in declarations.h)
    NumPages,       \* pages in the pool
    Tables,         \* the page tables of the processes
    Asked,          \* bound: the virtual pages callers ask for
    Permissions,    \* the sets of flags callers ask for
    Deallocates,    \* TRUE: deallocatePageTable is called
    StoresEntries   \* TRUE: data may look like a valid entry

ASSUME NumPteAssumption == NUM_PTE \in Nat \ {0}
ASSUME NumPagesAssumption == NumPages \in Nat
ASSUME PermissionsAssumption == Permissions \subseteq SUBSET {"R", "W", "X"}
ASSUME TablesAssumption == Tables \cap (0 .. NUM_PTE - 1) = {}
ASSUME FlagsAssumption == Deallocates \in BOOLEAN /\ StoresEntries \in BOOLEAN

VARIABLES
    mem,            \* the entries each page holds
    free,           \* the pool of kernel/memoryAllocator.c, top first
    root,           \* the root directory of each table, or NoPage
    errorOccurred,  \* the kernel is in the endless loop of error()
    leaked          \* history: pages allocateVirtualPage took and did not map

vars == <<mem, free, root, errorOccurred, leaked>>

Pages  == 1 .. NumPages
NoPage == 0
Index  == 0 .. NUM_PTE - 1

VirtualPages == Index \X Index \X Index     \* L2, L1 and L0

ASSUME AskedAssumption == Asked \subseteq VirtualPages

Entry(p, flags) == [v |-> TRUE, page |-> p, flags |-> flags]
ZeroEntry == [v |-> FALSE, page |-> NoPage, flags |-> {}]

(* Mutant of Init: the loop that fills the pool runs once too often.       *)
InitOnePageMore ==
    /\ mem = [p \in Pages |-> [i \in Index |-> ZeroEntry]]
    /\ free = [i \in 1 .. NumPages + 1 |-> i]
    /\ root = [t \in Tables |-> NoPage]
    /\ errorOccurred = FALSE
    /\ leaked = {}

(* RAM is zero at boot; pageAllocInit() leaves the lowest page on top.     *)
Init ==
    /\ mem = [p \in Pages |-> [i \in Index |-> ZeroEntry]]
    /\ free = [i \in Pages |-> i]
    /\ root = [t \in Tables |-> NoPage]
    /\ errorOccurred = FALSE
    /\ leaked = {}

-----------------------------------------------------------------------------
(***************************************************************************)
(* Reading the tree.                                                       *)
(***************************************************************************)
IsVirtualPageAllocated(t, v) ==
    LET e2 == mem[root[t]][v[1]]
        e1 == mem[e2.page][v[2]]
        e0 == mem[e1.page][v[3]]
    IN e2.v /\ e1.v /\ e0.v

(* The final entry of a virtual page that is allocated.                    *)
FinalEntry(t, v) == mem[mem[mem[root[t]][v[1]].page][v[2]].page][v[3]]

VirtualToPhysical(t, v) == FinalEntry(t, v).page

-----------------------------------------------------------------------------
(***************************************************************************)
(* The statements, as functions of m.                                      *)
(***************************************************************************)
Now == [mem |-> mem, free |-> free, err |-> errorOccurred]

Become(m) == mem' = m.mem /\ free' = m.free /\ errorOccurred' = m.err

Error(m) == [m EXCEPT !.err = TRUE]

(* allocatePage() *)
Taken(m) == IF m.free = << >> THEN Error(m) ELSE [m EXCEPT !.free = Tail(m.free)]

(* freePage(p), which refuses a page when none is out. *)
Freed(m, p) ==
    IF m.err THEN m
    ELSE IF Len(m.free) = NumPages THEN Error(m)
    ELSE [m EXCEPT !.free = <<p>> \o m.free]

(* Mutant of Filled: a valid entry is overwritten. *)
FilledAlways(m, dir, i, flags) ==
    IF m.err THEN m
    ELSE IF m.free = << >> THEN Error(m)
    ELSE [Taken(m) EXCEPT !.mem[dir][i] = Entry(Head(m.free), flags)]

(* One level of mapVirtualPage: an invalid entry gets a new page, whose    *)
(* content stays as it is.                                                 *)
Filled(m, dir, i, flags) ==
    IF m.err \/ m.mem[dir][i].v THEN m
    ELSE IF m.free = << >> THEN Error(m)
    ELSE [Taken(m) EXCEPT !.mem[dir][i] = Entry(Head(m.free), flags)]

(* mapVirtualPage(): the argument physicalPageNum is never used.           *)
Mapped(m, t, v, flags) ==
    LET m2 == Filled(m, root[t], v[1], {"R"})
        l1 == m2.mem[root[t]][v[1]].page
        m1 == Filled(m2, l1, v[2], {"R"})
        l0 == m1.mem[l1][v[2]].page
    IN IF m2.err THEN m2
       ELSE IF m1.err THEN m1
       ELSE Filled(m1, l0, v[3], flags)

(* The loops of deallocatePageTable(), from the innermost outwards.  What  *)
(* hangs below entry i of a directory has gone in below; now the page of   *)
(* the entry, read again, goes and the entry is cleared.                   *)
DropEntry(m, dir, i, below) ==
    IF m.err \/ ~m.mem[dir][i].v THEN m
    ELSE LET f == Freed(below, below.mem[dir][i].page)
         IN IF f.err THEN f ELSE [f EXCEPT !.mem[dir][i] = ZeroEntry]

DropL0(m, dir) ==
    LET upTo[n \in 0 .. NUM_PTE] ==
          IF n = 0 THEN m
          ELSE LET l == upTo[n - 1] IN DropEntry(l, dir, n - 1, l)
    IN upTo[NUM_PTE]

DropL1(m, dir) ==
    LET upTo[n \in 0 .. NUM_PTE] ==
          IF n = 0 THEN m
          ELSE LET l == upTo[n - 1]
               IN DropEntry(l, dir, n - 1, DropL0(l, l.mem[dir][n - 1].page))
    IN upTo[NUM_PTE]

DropL2(m, dir) ==
    LET upTo[n \in 0 .. NUM_PTE] ==
          IF n = 0 THEN m
          ELSE LET l == upTo[n - 1]
               IN DropEntry(l, dir, n - 1, DropL1(l, l.mem[dir][n - 1].page))
    IN upTo[NUM_PTE]

-----------------------------------------------------------------------------
(* allocatePageTable(): of the root directory, and of it alone, the valid  *)
(* bits are cleared.                                                       *)
AllocatePageTable(t) ==
    /\ ~errorOccurred
    /\ root[t] = NoPage
    /\ IF free = << >>
       THEN Become(Error(Now)) /\ UNCHANGED root
       ELSE LET p == Head(free) IN
            /\ Become([Taken(Now) EXCEPT
                          !.mem[p] = [i \in Index |-> [mem[p][i] EXCEPT !.v = FALSE]]])
            /\ root' = [root EXCEPT ![t] = p]
    /\ UNCHANGED leaked

AllocateVirtualPage(t, v, flags) ==
    /\ ~errorOccurred
    /\ root[t] # NoPage
    /\ IF IsVirtualPageAllocated(t, v)
       THEN Become(Error(Now)) /\ UNCHANGED leaked
       ELSE LET m == Taken(Now) IN
            /\ Become(IF m.err THEN m ELSE Mapped(m, t, v, flags))
            /\ leaked' = IF m.err THEN leaked ELSE leaked \cup {Head(free)}
    /\ UNCHANGED root

(* A store through a virtual address: by readBytesVirtual, which asks      *)
(* virtualToPhysical for every byte, or later by the process itself.  Data *)
(* that does not look like a valid entry is as good as zero.               *)
Stores ==
    IF StoresEntries THEN Index \X {Entry(p, {"R", "W", "X"}) : p \in Pages}
    ELSE {<<0, ZeroEntry>>}

Store(t, v, i, content) ==
    /\ ~errorOccurred
    /\ root[t] # NoPage
    /\ Become(IF IsVirtualPageAllocated(t, v)
              THEN [Now EXCEPT !.mem[VirtualToPhysical(t, v)][i] = content]
              ELSE Error(Now))
    /\ UNCHANGED <<root, leaked>>

(* Mutant of DeallocatePageTable: the root directory is not returned.      *)
DeallocatePageTableKeepingRoot(t) ==
    /\ ~errorOccurred
    /\ root[t] # NoPage
    /\ Become(DropL2(Now, root[t]))
    /\ root' = [root EXCEPT ![t] = NoPage]
    /\ UNCHANGED leaked

DeallocatePageTable(t) ==
    /\ ~errorOccurred
    /\ root[t] # NoPage
    /\ Become(Freed(DropL2(Now, root[t]), root[t]))
    /\ root' = [root EXCEPT ![t] = NoPage]
    /\ UNCHANGED leaked

Next ==
    \E t \in Tables :
        \/ AllocatePageTable(t)
        \/ \E v \in Asked, flags \in Permissions : AllocateVirtualPage(t, v, flags)
        \/ \E v \in Asked, s \in Stores : Store(t, v, s[1], s[2])
        \/ Deallocates /\ DeallocatePageTable(t)

Spec == Init /\ [][Next]_vars

-----------------------------------------------------------------------------
(***************************************************************************)
(* The types; the pool never holds more entries than there are pages.      *)
(***************************************************************************)
Entries == [v : BOOLEAN, page : Pages \cup {NoPage}, flags : SUBSET {"R", "W", "X"}]

TypeOK ==
    /\ mem \in [Pages -> [Index -> Entries]]
    /\ Len(free) <= NumPages /\ Range(free) \subseteq Pages
    /\ root \in [Tables -> Pages \cup {NoPage}]
    /\ errorOccurred \in BOOLEAN
    /\ leaked \subseteq Pages

(* The valid entries of a table's tree, each named by where it is, and the *)
(* places that own a page: those entries and the roots.                    *)
Existing == {t \in Tables : root[t] # NoPage}

ValidIn(dirs) == {e \in dirs \X Index : mem[e[1]][e[2]].v}
Below(entries) == {mem[e[1]][e[2]].page : e \in entries}

TreeEntries(t) ==
    LET e2 == ValidIn({root[t]})
        e1 == ValidIn(Below(e2))
        e0 == ValidIn(Below(e1))
    IN e2 \cup e1 \cup e0

Owners == (UNION {TreeEntries(t) : t \in Existing}) \cup {<<root[t], t>> : t \in Existing}

Owned(o) == IF o[2] \in Index THEN mem[o[1]][o[2]].page ELSE o[1]

(***************************************************************************)
(* Every page is in exactly one place: in the pool, once; as a directory   *)
(* or a mapped page at one place of one table; or lost to                  *)
(* allocateVirtualPage, which takes one page too many on every call.  So   *)
(* deallocatePageTable gives back everything its table had and nothing     *)
(* else, and two tables never share a page.                                *)
(***************************************************************************)
EveryPageAccounted ==
    ~errorOccurred =>
        /\ \A i, j \in 1 .. Len(free) : free[i] = free[j] => i = j
        /\ \A o, q \in Owners : Owned(o) = Owned(q) => o = q
        /\ \A o \in Owners : Owned(o) \notin Range(free) \cup leaked
        /\ Range(free) \cap leaked = {}
        /\ Range(free) \cup leaked \cup {Owned(o) : o \in Owners} = Pages

(***************************************************************************)
(* The trees implement AddressSpaces: a new directory brings no mapping    *)
(* along, mapping or unmapping one page changes the translation of no      *)
(* other, and no two virtual pages share a page.                           *)
(***************************************************************************)
Mappings ==
    {[table |-> m[1], virtual |-> m[2],
      page |-> FinalEntry(m[1], m[2]).page, flags |-> FinalEntry(m[1], m[2]).flags] :
        m \in {n \in Existing \X VirtualPages : IsVirtualPageAllocated(n[1], n[2])}}

Spaces == INSTANCE AddressSpaces WITH
    VirtualPages <- Asked,
    existing     <- Existing,
    maps         <- Mappings,
    stopped      <- errorOccurred

ImplementsAddressSpaces == Spaces!Spec

(***************************************************************************)
(* "Given a virtual page number, allocate a physical page and map it to    *)
(* that virtual page if not already mapped": a virtual page changes its    *)
(* translation only by getting a page that was free, with its table        *)
(* staying, or by losing its table.                                        *)
(***************************************************************************)
Translation(t, v) ==
    IF root[t] # NoPage /\ IsVirtualPageAllocated(t, v) THEN VirtualToPhysical(t, v) ELSE NoPage

MappingsAreFresh ==
    [][\A t \in Tables, v \in VirtualPages :
          \/ Translation(t, v)' = Translation(t, v)
          \/ Translation(t, v)' \in Range(free) \cup {NoPage}]_vars
=============================================================================
