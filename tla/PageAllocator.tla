--------------------------- MODULE PageAllocator ---------------------------
(***************************************************************************)
(* The page allocator of kernel/memoryAllocator.c: a stack of free page    *)
(* numbers kept in the fixed array pages[NUM_PAGES], growing downwards.    *)
(* The slots from currFreePageNode to the end hold the free pages; the     *)
(* slots before it hold whatever was popped last.                          *)
(*                                                                         *)
(* Every call runs to completion (interrupts are off outside diskRW and    *)
(* no interrupt handler allocates), so one call is one step.  error()      *)
(* never returns: after it no further call is made.                        *)
(***************************************************************************)
EXTENDS Integers, FiniteSets

CONSTANTS
    NUM_PAGES,      \* pages managed (500 in declarations.h)
    START_PAGE,     \* number of the first page after the kernel image
    MaxBatch        \* bound: most pages in one allocatePages/freePages call

ASSUME NumPagesAssumption == NUM_PAGES \in Nat \ {0}
ASSUME StartPageAssumption == START_PAGE \in Nat
ASSUME MaxBatchAssumption == MaxBatch \in Nat \ {0}

VARIABLES
    pages,              \* the array
    currFreePageNode,   \* index of the top of the stack
    numFreePages,       \* number of free pages
    errorOccurred,      \* error() was called
    handed,             \* history: pages returned to callers, not yet freed
    stray,              \* history: a caller freed a page it did not hold
    reply               \* history: pages asked for and got by the last call

vars == <<pages, currFreePageNode, numFreePages, errorOccurred, handed, stray, reply>>

Index    == 0 .. NUM_PAGES - 1
PageNums == START_PAGE .. START_PAGE + NUM_PAGES - 1

FreeSlots == currFreePageNode .. NUM_PAGES - 1
FreeSet   == {pages[i] : i \in FreeSlots}

(***************************************************************************)
(* pageAllocInit()                                                         *)
(***************************************************************************)
Init ==
    /\ pages = [i \in Index |-> START_PAGE + i]
    /\ currFreePageNode = 0
    /\ numFreePages = NUM_PAGES
    /\ errorOccurred = FALSE
    /\ handed = {}
    /\ stray = FALSE
    /\ reply = [asked |-> 0, got |-> {}]

Running == ~errorOccurred

(* A call that asked for n pages ends in error(), nothing else changed. *)
Fail(n) ==
    /\ errorOccurred' = TRUE
    /\ reply' = [asked |-> n, got |-> {}]
    /\ UNCHANGED <<pages, currFreePageNode, numFreePages, handed>>

(* Mutant of Pop: the index stays behind by one page. *)
PopLate(n) ==
    LET top == {pages[currFreePageNode + i] : i \in 0 .. n - 1} IN
    /\ currFreePageNode' = currFreePageNode + n - 1
    /\ numFreePages' = numFreePages - n
    /\ handed' = handed \cup top
    /\ reply' = [asked |-> n, got |-> top]
    /\ UNCHANGED <<pages, errorOccurred>>

(* n times: take pages[currFreePageNode], advance the index, count down. *)
Pop(n) ==
    LET top == {pages[currFreePageNode + i] : i \in 0 .. n - 1} IN
    /\ currFreePageNode' = currFreePageNode + n
    /\ numFreePages' = numFreePages - n
    /\ handed' = handed \cup top
    /\ reply' = [asked |-> n, got |-> top]
    /\ UNCHANGED <<pages, errorOccurred>>

(* Mutant of Push: the slot is written before the index moves. *)
PushBeforeMove(s, n) ==
    /\ currFreePageNode' = currFreePageNode - n
    /\ pages' = [i \in Index |->
                    IF currFreePageNode - n < i /\ i <= currFreePageNode
                    THEN s[currFreePageNode - i + 1] ELSE pages[i]]
    /\ numFreePages' = numFreePages + n
    /\ handed' = handed \ {s[j] : j \in 1 .. n}
    /\ reply' = [asked |-> 0, got |-> {}]

(* The first n page numbers of s, each pushed on top of the one before. *)
Push(s, n) ==
    /\ currFreePageNode' = currFreePageNode - n
    /\ pages' = [i \in Index |->
                    IF currFreePageNode - n <= i /\ i < currFreePageNode
                    THEN s[currFreePageNode - i] ELSE pages[i]]
    /\ numFreePages' = numFreePages + n
    /\ handed' = handed \ {s[j] : j \in 1 .. n}
    /\ reply' = [asked |-> 0, got |-> {}]

(* The caller of freePage or freePages holds the n pages of s, all         *)
(* different.                                                              *)
HeldByCaller(s, n) ==
    /\ \A i \in 1 .. n : s[i] \in handed
    /\ \A i, j \in 1 .. n : s[i] = s[j] => i = j

(***************************************************************************)
(* The four operations.                                                    *)
(***************************************************************************)
AllocatePage ==
    /\ Running
    /\ IF numFreePages = 0 THEN Fail(1) ELSE Pop(1)
    /\ UNCHANGED stray

(* Mutant of AllocatePages: the last free page is never given out. *)
AllocatePagesAllButOne(n) ==
    /\ Running
    /\ IF n = 0 \/ n >= numFreePages THEN Fail(n) ELSE Pop(n)
    /\ UNCHANGED stray

AllocatePages(n) ==
    /\ Running
    /\ IF n = 0 \/ n > numFreePages THEN Fail(n) ELSE Pop(n)
    /\ UNCHANGED stray

(* Mutant of FreePage: no test for a full stack. *)
FreePageUnchecked(p) ==
    /\ Running
    /\ stray' = (stray \/ ~HeldByCaller(<<p>>, 1))
    /\ Push(<<p>>, 1)
    /\ UNCHANGED errorOccurred

FreePage(p) ==
    /\ Running
    /\ stray' = (stray \/ ~HeldByCaller(<<p>>, 1))
    /\ IF numFreePages = NUM_PAGES
       THEN Fail(0)
       ELSE Push(<<p>>, 1) /\ UNCHANGED errorOccurred

(* freePages() pushes until the stack is full: the next freePage() stops. *)
FreePages(s, n) ==
    /\ Running
    /\ stray' = (stray \/ ~HeldByCaller(s, n))
    /\ IF n = 0 \/ numFreePages = NUM_PAGES
       THEN Fail(0)
       ELSE IF numFreePages + n > NUM_PAGES
       THEN Push(s, NUM_PAGES - numFreePages) /\ errorOccurred' = TRUE
       ELSE Push(s, n) /\ UNCHANGED errorOccurred

(* Callers may free any page, held or not, and the same one twice.         *)
Next ==
    \/ AllocatePage
    \/ \E n \in 0 .. MaxBatch : AllocatePages(n)
    \/ \E p \in PageNums : FreePage(p)
    \/ \E n \in 0 .. MaxBatch : \E s \in [1 .. n -> PageNums] : FreePages(s, n)

Spec == Init /\ [][Next]_vars

-----------------------------------------------------------------------------
(***************************************************************************)
(* The variables hold values of their C types, the stack index one of the  *)
(* NUM_PAGES + 1 positions in or just past the array pages.                *)
(***************************************************************************)
TypeOK ==
    /\ pages \in [Index -> PageNums]
    /\ currFreePageNode \in 0 .. NUM_PAGES
    /\ numFreePages \in 0 .. NUM_PAGES
    /\ errorOccurred \in BOOLEAN
    /\ handed \subseteq PageNums
    /\ stray \in BOOLEAN
    /\ reply \in [asked : Nat, got : SUBSET PageNums]

(***************************************************************************)
(* The two counters agree and the index is inside the array, whatever      *)
(* pages callers return, double frees included: the test for a full stack  *)
(* in freePage is the only thing that keeps currFreePageNode (unsigned)    *)
(* from wrapping below zero.                                               *)
(***************************************************************************)
StackBounds ==
    /\ currFreePageNode + numFreePages = NUM_PAGES
    /\ currFreePageNode \in 0 .. NUM_PAGES

Conserved ==
    /\ \A i, j \in FreeSlots : pages[i] = pages[j] => i = j
    /\ handed \cap FreeSet = {}
    /\ handed \cup FreeSet = PageNums

(***************************************************************************)
(* As long as callers return only what they hold, every page is at every   *)
(* moment either held by one caller or in exactly one free slot: no page   *)
(* is handed out twice and none is lost, in any order of allocations and   *)
(* releases.                                                               *)
(***************************************************************************)
EveryPageOnce == ~stray => Conserved

(***************************************************************************)
(* The array implements the pool of PagePool: allocatePages(n) answers     *)
(* with n different free pages, and error() is reached only for an empty   *)
(* request or one the pool cannot serve ("If less than n pages are         *)
(* present, then we raise an error").                                      *)
(***************************************************************************)
Pool == INSTANCE PagePool WITH
            free <- FreeSet,
            stopped <- errorOccurred,
            Requests <- 0 .. MaxBatch

ImplementsPool == Pool!Spec
=============================================================================
