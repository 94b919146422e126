------------------------ MODULE PageAllocatorProofs ------------------------
(***************************************************************************)
(* Proofs about the page allocator for every NUM_PAGES, every position of  *)
(* the kernel image and every bound on the batches.                        *)
(***************************************************************************)
EXTENDS PageAllocator, FiniteSetTheorems, TLAPS

(* Inductive whoever frees what: the types and the agreement of counters. *)
StackInv == TypeOK /\ StackBounds

LEMMA PopKeepsStack ==
    ASSUME StackInv, NEW n \in Nat \ {0}, n <= numFreePages, Pop(n),
           stray' \in BOOLEAN
    PROVE  StackInv'
<1> USE NumPagesAssumption, StartPageAssumption DEF StackInv, TypeOK, StackBounds, Index
<1>1. {pages[currFreePageNode + i] : i \in 0 .. n - 1} \subseteq PageNums
  OBVIOUS
<1>2. reply' \in [asked : Nat, got : SUBSET PageNums]
  BY <1>1 DEF Pop
<1>3. handed' \subseteq PageNums
  BY <1>1 DEF Pop
<1>4. /\ currFreePageNode' = currFreePageNode + n
      /\ numFreePages' = numFreePages - n
      /\ pages' = pages
      /\ errorOccurred' = errorOccurred
  BY DEF Pop
<1> QED
  BY <1>2, <1>3, <1>4

LEMMA PushKeepsStack ==
    ASSUME StackInv,
           NEW n \in Nat, n + numFreePages <= NUM_PAGES,
           NEW m \in Nat, n <= m, NEW s \in [1 .. m -> PageNums],
           Push(s, n), errorOccurred' \in BOOLEAN, stray' \in BOOLEAN
    PROVE  StackInv'
<1> USE NumPagesAssumption, StartPageAssumption DEF StackInv, TypeOK, StackBounds, Index
<1>1. ASSUME NEW i \in Index
      PROVE  (IF currFreePageNode - n <= i /\ i < currFreePageNode
              THEN s[currFreePageNode - i] ELSE pages[i]) \in PageNums
  <2>1. CASE currFreePageNode - n <= i /\ i < currFreePageNode
    <3>1. currFreePageNode - i \in 1 .. m
      BY <2>1
    <3> QED
      BY <2>1, <3>1
  <2>2. CASE ~(currFreePageNode - n <= i /\ i < currFreePageNode)
    BY <2>2
  <2> QED
    BY <2>1, <2>2
<1>2. pages' \in [Index -> PageNums]
  BY <1>1 DEF Push
<1>3. /\ currFreePageNode' = currFreePageNode - n
      /\ numFreePages' = numFreePages + n
      /\ handed' \subseteq PageNums
      /\ reply' \in [asked : Nat, got : SUBSET PageNums]
  BY DEF Push
<1> QED
  BY <1>2, <1>3

LEMMA FailKeepsStack ==
    ASSUME StackInv, NEW n \in Nat, Fail(n), stray' \in BOOLEAN
    PROVE  StackInv'
  BY DEF Fail, StackInv, TypeOK, StackBounds

LEMMA StrayBoolean ==
    ASSUME TypeOK, [Next]_vars
    PROVE  stray' \in BOOLEAN
  BY DEF TypeOK, Next, vars, AllocatePage, AllocatePages, FreePage, FreePages

LEMMA StackStep ==
    ASSUME StackInv, [Next]_vars
    PROVE  StackInv'
<1>0. stray' \in BOOLEAN
  BY StrayBoolean DEF StackInv
<1> USE NumPagesAssumption, MaxBatchAssumption, <1>0
<1>1. numFreePages \in 0 .. NUM_PAGES
  BY DEF StackInv, TypeOK
<1>2. CASE AllocatePage
  BY <1>1, <1>2, PopKeepsStack, FailKeepsStack DEF AllocatePage
<1>3. ASSUME NEW n \in 0 .. MaxBatch, AllocatePages(n)
      PROVE  StackInv'
  BY <1>1, <1>3, PopKeepsStack, FailKeepsStack DEF AllocatePages
<1>4. ASSUME NEW p \in PageNums, FreePage(p)
      PROVE  StackInv'
  <2>2. CASE numFreePages = NUM_PAGES
    BY <1>4, <2>2, FailKeepsStack DEF FreePage
  <2>3. CASE numFreePages # NUM_PAGES
    <3>1. Push(<<p>>, 1) /\ errorOccurred' = errorOccurred
      BY <1>4, <2>3 DEF FreePage
    <3>2. <<p>> \in [1 .. 1 -> PageNums]
      OBVIOUS
    <3>3. 1 \in Nat /\ 1 + numFreePages <= NUM_PAGES /\ 1 <= 1
      BY <1>1, <2>3
    <3>4. errorOccurred' \in BOOLEAN
      BY <3>1 DEF StackInv, TypeOK
    <3> HIDE DEF StackInv
    <3> QED
      BY <3>1, <3>2, <3>3, <3>4, PushKeepsStack
  <2> QED
    BY <2>2, <2>3
<1>5. ASSUME NEW n \in 0 .. MaxBatch, NEW s \in [1 .. n -> PageNums], FreePages(s, n)
      PROVE  StackInv'
  <2>2. CASE n = 0 \/ numFreePages = NUM_PAGES
    BY <1>5, <2>2, FailKeepsStack DEF FreePages
  <2>3. CASE ~(n = 0 \/ numFreePages = NUM_PAGES) /\ numFreePages + n > NUM_PAGES
    <3>1. Push(s, NUM_PAGES - numFreePages) /\ errorOccurred' = TRUE
      BY <1>5, <2>3 DEF FreePages
    <3>2. NUM_PAGES - numFreePages \in Nat /\ NUM_PAGES - numFreePages <= n
      BY <1>1, <2>3
    <3> QED
      BY <1>1, <3>1, <3>2, PushKeepsStack
  <2>4. CASE ~(n = 0 \/ numFreePages = NUM_PAGES) /\ ~(numFreePages + n > NUM_PAGES)
    <3>1. Push(s, n) /\ errorOccurred' = errorOccurred
      BY <1>5, <2>4 DEF FreePages
    <3> QED
      BY <1>1, <2>4, <3>1, PushKeepsStack DEF StackInv, TypeOK
  <2> QED
    BY <2>2, <2>3, <2>4
<1>6. CASE UNCHANGED vars
  BY <1>6 DEF vars, StackInv, TypeOK, StackBounds, FreeSlots
<1> QED
  BY <1>2, <1>3, <1>4, <1>5, <1>6 DEF Next

LEMMA InitStack ==
    ASSUME Init
    PROVE  StackInv
<1> USE NumPagesAssumption, StartPageAssumption DEF Init
<1>1. pages \in [Index -> PageNums]
  BY DEF Index, PageNums
<1>2. handed \subseteq PageNums
  OBVIOUS
<1>3. reply \in [asked : Nat, got : SUBSET PageNums]
  <2>1. {} \in SUBSET PageNums
    OBVIOUS
  <2> QED
    BY <2>1
<1>4. /\ currFreePageNode \in 0 .. NUM_PAGES
      /\ numFreePages \in 0 .. NUM_PAGES
      /\ currFreePageNode + numFreePages = NUM_PAGES
  OBVIOUS
<1>5. errorOccurred \in BOOLEAN /\ stray \in BOOLEAN
  OBVIOUS
<1> HIDE DEF Init
<1> QED
  BY <1>1, <1>2, <1>3, <1>4, <1>5 DEF StackInv, TypeOK, StackBounds

LEMMA StackInvariance == Spec => []StackInv
<1>1. Init => StackInv
  BY InitStack
<1>2. StackInv /\ [Next]_vars => StackInv'
  BY StackStep
<1> QED
  BY <1>1, <1>2, PTL DEF Spec

(***************************************************************************)
(* The array of free page nodes of memoryAllocator.c only ever holds page  *)
(* numbers of the pool, and its index is one of the array's (or the        *)
(* length), whatever pages callers return to freePage and freePages.       *)
(***************************************************************************)
THEOREM AllocatorTyped == Spec => []TypeOK
  BY StackInvariance, PTL DEF StackInv

(***************************************************************************)
(* The stack index and the counter of free pages agree, whatever pages     *)
(* callers return: the unsigned index never wraps below zero.              *)
(***************************************************************************)
THEOREM StackSafe == Spec => []StackBounds
  BY StackInvariance, PTL DEF StackInv

-----------------------------------------------------------------------------
(***************************************************************************)
(* Conservation, as long as callers free only what they hold.              *)
(***************************************************************************)
PoolInv == StackInv /\ Conserved

CleanInv == StackInv /\ EveryPageOnce

LEMMA PopMovesTop ==
    ASSUME PoolInv, NEW n \in Nat \ {0}, n <= numFreePages, Pop(n),
           NEW top, top = {pages[currFreePageNode + i] : i \in 0 .. n - 1}
    PROVE  /\ top \subseteq FreeSet
           /\ FreeSet' = FreeSet \ top
           /\ Conserved'
<1> USE NumPagesAssumption DEF StackInv, TypeOK, StackBounds, PoolInv, Index
<1>1. /\ currFreePageNode \in 0 .. NUM_PAGES
      /\ currFreePageNode + n <= NUM_PAGES
      /\ currFreePageNode' = currFreePageNode + n
      /\ pages' = pages
      /\ handed' = handed \cup top
  BY DEF Pop
<1>2. /\ FreeSlots = currFreePageNode .. NUM_PAGES - 1
      /\ FreeSlots' = currFreePageNode + n .. NUM_PAGES - 1
      /\ FreeSet = {pages[i] : i \in FreeSlots}
      /\ FreeSet' = {pages[i] : i \in FreeSlots'}
  BY <1>1 DEF FreeSlots, FreeSet
<1>3. /\ \A i, j \in FreeSlots : pages[i] = pages[j] => i = j
      /\ handed \cap FreeSet = {}
      /\ handed \cup FreeSet = PageNums
  BY DEF Conserved
<1> HIDE DEF StackInv, TypeOK, StackBounds, PoolInv, Index
<1> DEFINE popped == currFreePageNode .. currFreePageNode + n - 1
<1>4. FreeSlots = popped \cup FreeSlots' /\ popped \cap FreeSlots' = {}
  BY <1>1, <1>2
<1>5. top = {pages[i] : i \in popped}
  <2>1. ASSUME NEW i \in 0 .. n - 1 PROVE currFreePageNode + i \in popped
    BY <1>1
  <2>2. ASSUME NEW k \in popped PROVE \E i \in 0 .. n - 1 : k = currFreePageNode + i
    <3>1. k - currFreePageNode \in 0 .. n - 1 /\ k = currFreePageNode + (k - currFreePageNode)
      BY <1>1
    <3> QED
      BY <3>1
  <2> HIDE DEF popped
  <2> QED
    BY <2>1, <2>2
<1> HIDE DEF popped
<1>6. top \subseteq FreeSet
  BY <1>2, <1>4, <1>5
<1>7. FreeSet' = FreeSet \ top
  <2>1. FreeSet = top \cup FreeSet'
    BY <1>2, <1>4, <1>5
  <2>2. ASSUME NEW p \in top, p \in FreeSet' PROVE FALSE
    <3>1. PICK i \in popped : p = pages[i]
      BY <1>5
    <3>2. PICK j \in FreeSlots' : p = pages[j]
      BY <1>2, <2>2
    <3> QED
      BY <1>3, <1>4, <3>1, <3>2
  <2> QED
    BY <2>1, <2>2
<1>8. \A i, j \in FreeSlots' : pages'[i] = pages'[j] => i = j
  BY <1>1, <1>3, <1>4
<1>9. handed' \cap FreeSet' = {} /\ handed' \cup FreeSet' = PageNums
  BY <1>1, <1>3, <1>6, <1>7
<1> QED
  BY <1>6, <1>7, <1>8, <1>9 DEF Conserved

LEMMA PushMovesList ==
    ASSUME PoolInv,
           NEW n \in Nat, n + numFreePages <= NUM_PAGES,
           NEW m \in Nat, n <= m, NEW s \in [1 .. m -> handed],
           \A i, j \in 1 .. m : s[i] = s[j] => i = j,
           Push(s, n)
    PROVE  /\ FreeSet' = FreeSet \cup {s[j] : j \in 1 .. n}
           /\ Conserved'
<1> DEFINE back == {s[j] : j \in 1 .. n}
           pushed == currFreePageNode - n .. currFreePageNode - 1
<1> USE NumPagesAssumption
<1>1. /\ currFreePageNode \in 0 .. NUM_PAGES
      /\ currFreePageNode - n >= 0
      /\ currFreePageNode' = currFreePageNode - n
      /\ handed' = handed \ back
      /\ pages' = [i \in Index |->
                     IF currFreePageNode - n <= i /\ i < currFreePageNode
                     THEN s[currFreePageNode - i] ELSE pages[i]]
  BY DEF Push, PoolInv, StackInv, TypeOK, StackBounds
<1>2. /\ FreeSlots = currFreePageNode .. NUM_PAGES - 1
      /\ FreeSlots' = currFreePageNode - n .. NUM_PAGES - 1
      /\ FreeSet = {pages[i] : i \in FreeSlots}
      /\ FreeSet' = {pages'[i] : i \in FreeSlots'}
  BY <1>1 DEF FreeSlots, FreeSet
<1>3. /\ \A i, j \in FreeSlots : pages[i] = pages[j] => i = j
      /\ handed \cap FreeSet = {}
      /\ handed \cup FreeSet = PageNums
  BY DEF Conserved, PoolInv
<1>4. FreeSlots' = pushed \cup FreeSlots /\ pushed \cap FreeSlots = {}
  BY <1>1, <1>2
<1>5. \A i \in FreeSlots : pages'[i] = pages[i]
  BY <1>1, <1>2 DEF Index
<1>6. \A i \in pushed : /\ currFreePageNode - i \in 1 .. n
                        /\ pages'[i] = s[currFreePageNode - i]
  BY <1>1 DEF Index
<1>7. {pages'[i] : i \in pushed} = back
  <2>1. ASSUME NEW j \in 1 .. n PROVE \E i \in pushed : pages'[i] = s[j]
    <3>1. currFreePageNode - j \in pushed /\ currFreePageNode - (currFreePageNode - j) = j
      BY <1>1
    <3> QED
      BY <1>6, <3>1
  <2> HIDE DEF pushed
  <2> QED
    BY <1>6, <2>1
<1>8. \A i, j \in pushed : pages'[i] = pages'[j] => i = j
  <2> SUFFICES ASSUME NEW i \in pushed, NEW j \in pushed, pages'[i] = pages'[j]
               PROVE  i = j
    OBVIOUS
  <2>1. /\ currFreePageNode - i \in 1 .. m
        /\ currFreePageNode - j \in 1 .. m
        /\ s[currFreePageNode - i] = s[currFreePageNode - j]
    BY <1>1, <1>6
  <2>2. currFreePageNode - i = currFreePageNode - j
    BY <2>1
  <2> QED
    BY <1>1, <2>2
<1>9. back \subseteq handed
  OBVIOUS
<1> HIDE DEF pushed, back
<1>10. FreeSet' = FreeSet \cup back
  BY <1>2, <1>4, <1>5, <1>7
<1>11. ASSUME NEW i \in FreeSlots', NEW j \in FreeSlots', pages'[i] = pages'[j]
       PROVE  i = j
  <2>1. CASE i \in pushed /\ j \in pushed
    BY <1>8, <1>11, <2>1
  <2>2. CASE i \in FreeSlots /\ j \in FreeSlots
    BY <1>3, <1>5, <1>11, <2>2
  <2>3. ASSUME NEW a \in pushed, NEW b \in FreeSlots, pages'[a] = pages'[b]
        PROVE  FALSE
    <3>1. pages'[a] \in handed /\ pages'[b] \in FreeSet
      BY <1>2, <1>5, <1>7, <1>9
    <3> QED
      BY <1>3, <2>3, <3>1
  <2> QED
    BY <1>4, <1>11, <2>1, <2>2, <2>3
<1>12. handed' \cap FreeSet' = {} /\ handed' \cup FreeSet' = PageNums
  BY <1>1, <1>3, <1>9, <1>10
<1> QED
  BY <1>10, <1>11, <1>12 DEF Conserved, back

(* What is freed without going astray was held. *)
LEMMA HeldPages ==
    ASSUME NEW n \in Nat, NEW s \in [1 .. n -> PageNums], FreePages(s, n), ~stray'
    PROVE  /\ s \in [1 .. n -> handed]
           /\ \A i, j \in 1 .. n : s[i] = s[j] => i = j
<1>1. HeldByCaller(s, n)
  BY DEF FreePages
<1> QED
  BY <1>1 DEF HeldByCaller

LEMMA HeldPage ==
    ASSUME NEW p \in PageNums, FreePage(p), ~stray'
    PROVE  /\ <<p>> \in [1 .. 1 -> handed]
           /\ \A i, j \in 1 .. 1 : <<p>>[i] = <<p>>[j] => i = j
<1>1. HeldByCaller(<<p>>, 1)
  BY DEF FreePage
<1>2. p \in handed
  BY <1>1 DEF HeldByCaller
<1> QED
  BY <1>2

LEMMA PoolStep ==
    ASSUME PoolInv, [Next]_vars, ~stray'
    PROVE  PoolInv'
<1> USE NumPagesAssumption, MaxBatchAssumption
<1>1. StackInv'
  BY StackStep DEF PoolInv
<1>2. numFreePages \in 0 .. NUM_PAGES
  BY DEF PoolInv, StackInv, TypeOK
<1>3. ASSUME NEW n \in Nat, Fail(n) PROVE Conserved'
  BY <1>3 DEF Fail, PoolInv, Conserved, FreeSlots, FreeSet
<1>4. ASSUME NEW n \in Nat \ {0}, n <= numFreePages, Pop(n) PROVE Conserved'
  BY <1>4, PopMovesTop
<1>5. ASSUME AllocatePage PROVE Conserved'
  BY <1>2, <1>3, <1>4, <1>5 DEF AllocatePage
<1>6. ASSUME NEW n \in 0 .. MaxBatch, AllocatePages(n) PROVE Conserved'
  BY <1>2, <1>3, <1>4, <1>6 DEF AllocatePages
<1>7. ASSUME NEW p \in PageNums, FreePage(p) PROVE Conserved'
  <2>1. CASE numFreePages = NUM_PAGES
    BY <1>3, <1>7, <2>1 DEF FreePage
  <2>2. CASE numFreePages # NUM_PAGES
    <3> DEFINE s == <<p>>
    <3>1. Push(s, 1)
      BY <1>7, <2>2 DEF FreePage
    <3>2. /\ s \in [1 .. 1 -> handed]
          /\ \A i, j \in 1 .. 1 : s[i] = s[j] => i = j
      BY <1>7, HeldPage
    <3>3. 1 \in Nat /\ 1 + numFreePages <= NUM_PAGES /\ 1 <= 1
      BY <1>2, <2>2
    <3> HIDE DEF s
    <3> QED
      BY <3>1, <3>2, <3>3, PushMovesList
  <2> QED
    BY <2>1, <2>2
<1>8. ASSUME NEW n \in 0 .. MaxBatch, NEW s \in [1 .. n -> PageNums], FreePages(s, n)
      PROVE  Conserved'
  <2>1. /\ s \in [1 .. n -> handed]
        /\ \A i, j \in 1 .. n : s[i] = s[j] => i = j
    BY <1>8, HeldPages
  <2>2. ASSUME NEW k \in Nat, k <= n, k + numFreePages <= NUM_PAGES, Push(s, k)
        PROVE  Conserved'
    <3>1. n \in Nat
      OBVIOUS
    <3> QED
      BY <2>1, <2>2, <3>1, PushMovesList
  <2>3. CASE n = 0 \/ numFreePages = NUM_PAGES
    BY <1>3, <1>8, <2>3 DEF FreePages
  <2>4. CASE ~(n = 0 \/ numFreePages = NUM_PAGES) /\ numFreePages + n > NUM_PAGES
    <3>1. Push(s, NUM_PAGES - numFreePages)
      BY <1>8, <2>4 DEF FreePages
    <3>2. /\ NUM_PAGES - numFreePages \in Nat
          /\ NUM_PAGES - numFreePages <= n
          /\ NUM_PAGES - numFreePages + numFreePages <= NUM_PAGES
      BY <1>2, <2>4
    <3> QED
      BY <2>2, <3>1, <3>2
  <2>5. CASE ~(n = 0 \/ numFreePages = NUM_PAGES) /\ ~(numFreePages + n > NUM_PAGES)
    BY <1>2, <1>8, <2>2, <2>5 DEF FreePages
  <2> QED
    BY <2>3, <2>4, <2>5
<1>9. ASSUME UNCHANGED vars PROVE Conserved'
  BY <1>9 DEF vars, PoolInv, Conserved, FreeSlots, FreeSet
<1>10. Conserved'
  BY <1>5, <1>6, <1>7, <1>8, <1>9 DEF Next
<1> QED
  BY <1>1, <1>10 DEF PoolInv

LEMMA InitPool ==
    ASSUME Init
    PROVE  PoolInv
<1> USE NumPagesAssumption, StartPageAssumption DEF Init
<1>1. FreeSlots = Index /\ FreeSet = {START_PAGE + i : i \in Index}
  BY DEF FreeSlots, FreeSet, Index
<1>2. \A i, j \in FreeSlots : pages[i] = pages[j] => i = j
  BY <1>1 DEF Index
<1>3. FreeSet = PageNums
  <2>1. ASSUME NEW p \in PageNums PROVE p \in {START_PAGE + i : i \in Index}
    <3>1. p - START_PAGE \in Index /\ p = START_PAGE + (p - START_PAGE)
      BY DEF PageNums, Index
    <3> QED
      BY <3>1
  <2>2. {START_PAGE + i : i \in Index} \subseteq PageNums
    BY DEF PageNums, Index
  <2> QED
    BY <1>1, <2>1, <2>2
<1> QED
  BY <1>2, <1>3, InitStack DEF Conserved, PoolInv

(* A stray release is never forgotten. *)
LEMMA StrayStays ==
    ASSUME [Next]_vars, stray
    PROVE  stray'
  BY DEF Next, vars, AllocatePage, AllocatePages, FreePage, FreePages

LEMMA CleanStep ==
    ASSUME CleanInv, [Next]_vars
    PROVE  CleanInv'
<1>1. StackInv'
  BY StackStep DEF CleanInv
<1>2. ASSUME ~stray' PROVE Conserved'
  <2>1. PoolInv
    BY <1>2, StrayStays DEF CleanInv, EveryPageOnce, PoolInv
  <2> QED
    BY <1>2, <2>1, PoolStep DEF PoolInv
<1> QED
  BY <1>1, <1>2 DEF CleanInv, EveryPageOnce

(***************************************************************************)
(* As long as callers free only pages they hold, after any sequence of     *)
(* calls every page is held by a caller or in exactly one free slot, never *)
(* both.                                                                   *)
(***************************************************************************)
THEOREM NoPageLostOrShared == Spec => []EveryPageOnce
<1>1. Init => CleanInv
  BY InitPool DEF PoolInv, CleanInv, EveryPageOnce
<1>2. CleanInv /\ [Next]_vars => CleanInv'
  BY CleanStep
<1>3. CleanInv => EveryPageOnce
  BY DEF CleanInv
<1> QED
  BY <1>1, <1>2, <1>3, PTL DEF Spec

-----------------------------------------------------------------------------
(***************************************************************************)
(* Refinement: the array implements the abstract pool.                     *)
(***************************************************************************)

(* A function injective on an interval has as many values there as points. *)
LEMMA IntervalImage ==
    ASSUME NEW a \in Int, NEW b \in Int, a <= b + 1, NEW f,
           \A i, j \in a .. b : f[i] = f[j] => i = j
    PROVE  /\ IsFiniteSet({f[i] : i \in a .. b})
           /\ Cardinality({f[i] : i \in a .. b}) = b - a + 1
<1> DEFINE S == a .. b
           T == {f[i] : i \in a .. b}
           g == [i \in S |-> f[i]]
<1>1. IsFiniteSet(S) /\ Cardinality(S) = b - a + 1
  BY FS_Interval
<1>2. g \in Bijection(S, T)
  BY DEF Bijection, Injection, Surjection, IsInjective
<1>3. ExistsBijection(S, T)
  BY <1>2 DEF ExistsBijection
<1> HIDE DEF S, T
<1>4. IsFiniteSet(T) /\ Cardinality(T) = Cardinality(S)
  BY <1>1, <1>3, FS_Bijection
<1> QED
  BY <1>1, <1>4 DEF T

LEMMA FreeCount ==
    ASSUME PoolInv
    PROVE  IsFiniteSet(FreeSet) /\ Cardinality(FreeSet) = numFreePages
<1>1. /\ currFreePageNode \in Int
      /\ NUM_PAGES - 1 \in Int
      /\ currFreePageNode <= NUM_PAGES - 1 + 1
      /\ NUM_PAGES - 1 - currFreePageNode + 1 = numFreePages
  BY NumPagesAssumption DEF PoolInv, StackInv, TypeOK, StackBounds
<1>2. \A i, j \in currFreePageNode .. NUM_PAGES - 1 : pages[i] = pages[j] => i = j
  BY DEF PoolInv, Conserved, FreeSlots
<1>3. LET T == {pages[i] : i \in currFreePageNode .. NUM_PAGES - 1} IN
      IsFiniteSet(T) /\ Cardinality(T) = NUM_PAGES - 1 - currFreePageNode + 1
  BY <1>1, <1>2, IntervalImage, Zenon
<1> QED
  BY <1>1, <1>3 DEF FreeSet, FreeSlots

LEMMA TopCount ==
    ASSUME PoolInv, NEW n \in Nat \ {0}, n <= numFreePages,
           NEW top, top = {pages[currFreePageNode + i] : i \in 0 .. n - 1}
    PROVE  Cardinality(top) = n
<1> DEFINE b == currFreePageNode + n - 1
           f == [i \in 0 .. n - 1 |-> pages[currFreePageNode + i]]
<1>1. currFreePageNode \in 0 .. NUM_PAGES /\ currFreePageNode + n <= NUM_PAGES
  BY NumPagesAssumption DEF PoolInv, StackInv, TypeOK, StackBounds
<1>2. \A i \in 0 .. n - 1 : currFreePageNode + i \in FreeSlots
  BY <1>1, NumPagesAssumption DEF FreeSlots
<1>3. \A i, j \in 0 .. n - 1 : f[i] = f[j] => i = j
  <2> SUFFICES ASSUME NEW i \in 0 .. n - 1, NEW j \in 0 .. n - 1, f[i] = f[j]
               PROVE  i = j
    OBVIOUS
  <2>1. currFreePageNode + i = currFreePageNode + j
    BY <1>2 DEF PoolInv, Conserved
  <2> QED
    BY <1>1, <2>1
<1>4. top = {f[i] : i \in 0 .. n - 1}
  OBVIOUS
<1>5. 0 \in Int /\ n - 1 \in Int /\ 0 <= n - 1 + 1 /\ n - 1 - 0 + 1 = n
  OBVIOUS
<1> HIDE DEF f
<1>6. Cardinality({f[i] : i \in 0 .. n - 1}) = n - 1 - 0 + 1
  <2> DEFINE z == n - 1
  <2>1. 0 \in Int /\ z \in Int /\ 0 <= z + 1 /\ \A i, j \in 0 .. z : f[i] = f[j] => i = j
    BY <1>3, <1>5
  <2> HIDE DEF z
  <2>2. Cardinality({f[i] : i \in 0 .. z}) = z - 0 + 1
    BY <2>1, IntervalImage, Zenon
  <2> QED
    BY <2>2 DEF z
<1> QED
  BY <1>4, <1>5, <1>6

LEMMA ListCount ==
    ASSUME NEW n \in Nat, NEW s, \A i, j \in 1 .. n : s[i] = s[j] => i = j,
           NEW S, S = {s[i] : i \in 1 .. n}
    PROVE  IsFiniteSet(S) /\ Cardinality(S) = n
<1>1. 1 \in Int /\ n \in Int /\ 1 <= n + 1 /\ n - 1 + 1 = n
  OBVIOUS
<1>2. /\ IsFiniteSet({s[i] : i \in 1 .. n})
      /\ Cardinality({s[i] : i \in 1 .. n}) = n - 1 + 1
  BY <1>1, IntervalImage, Zenon
<1> QED
  BY <1>1, <1>2

(* A caller that holds all it frees never overfills the stack. *)
LEMMA HeldFits ==
    ASSUME PoolInv, NEW n \in Nat, NEW s \in [1 .. n -> handed],
           \A i, j \in 1 .. n : s[i] = s[j] => i = j
    PROVE  n + numFreePages <= NUM_PAGES
<1> DEFINE back == {s[i] : i \in 1 .. n}
<1>1. back = {s[i] : i \in 1 .. n} /\ back \subseteq handed
  OBVIOUS
<1> HIDE DEF back
<1>2. IsFiniteSet(back) /\ Cardinality(back) = n
  BY <1>1, ListCount
<1>3. IsFiniteSet(PageNums) /\ Cardinality(PageNums) = NUM_PAGES
  BY FS_Interval, NumPagesAssumption, StartPageAssumption DEF PageNums
<1>4. back \cap FreeSet = {} /\ back \cup FreeSet \in SUBSET PageNums
  BY <1>1 DEF PoolInv, Conserved
<1>5. Cardinality(back \cup FreeSet) = n + numFreePages
  <2>1. Cardinality(back \cap FreeSet) = 0
    BY <1>4, FS_EmptySet
  <2>2. numFreePages \in Nat
    BY NumPagesAssumption DEF PoolInv, StackInv, TypeOK
  <2>3. Cardinality(back \cup FreeSet)
          = Cardinality(back) + Cardinality(FreeSet) - Cardinality(back \cap FreeSet)
    BY <1>2, FreeCount, FS_Union
  <2> QED
    BY <1>2, <2>1, <2>2, <2>3, FreeCount
<1> QED
  BY <1>3, <1>4, <1>5, FS_Subset

LEMMA SameCardinality == \A S : Pool!Cardinality(S) = Cardinality(S)
  BY DEF Pool!Cardinality, Cardinality, Pool!IsFiniteSet, IsFiniteSet

LEMMA PopTakes ==
    ASSUME PoolInv, Running, NEW n \in (0 .. MaxBatch) \ {0}, n <= numFreePages, Pop(n),
           stray' = stray
    PROVE  Pool!Next
<1> DEFINE top == {pages[currFreePageNode + i] : i \in 0 .. n - 1}
<1>1. n \in Nat \ {0}
  BY MaxBatchAssumption
<1>2. /\ handed' = handed \cup top
      /\ reply' = [asked |-> n, got |-> top]
      /\ errorOccurred' = errorOccurred
  BY DEF Pop
<1> HIDE DEF top
<1>3. top \subseteq FreeSet /\ FreeSet' = FreeSet \ top
  BY <1>1, PopMovesTop DEF top
<1>4. Cardinality(top) = n
  BY <1>1, TopCount DEF top
<1>5. Pool!Take(n)
  BY <1>2, <1>3, <1>4, SameCardinality DEF Pool!Take, Running
<1> QED
  BY <1>5 DEF Pool!Next

LEMMA PushGives ==
    ASSUME PoolInv, Running,
           NEW n \in Nat, NEW s \in [1 .. n -> handed],
           \A i, j \in 1 .. n : s[i] = s[j] => i = j,
           Push(s, n), errorOccurred' = errorOccurred, stray' = stray
    PROVE  Pool!Next
<1> DEFINE back == {s[j] : j \in 1 .. n}
<1>1. back \in SUBSET handed
  OBVIOUS
<1>2. /\ handed' = handed \ back
      /\ reply' = [asked |-> 0, got |-> {}]
  BY DEF Push
<1>3. n + numFreePages <= NUM_PAGES
  BY HeldFits
<1>4. FreeSet' = FreeSet \cup back
  BY <1>3, PushMovesList
<1> HIDE DEF back
<1>5. Pool!Give
  BY <1>1, <1>2, <1>4 DEF Pool!Give, Running
<1> QED
  BY <1>5 DEF Pool!Next

LEMMA FailRefuses ==
    ASSUME PoolInv, Running, NEW n \in 0 .. MaxBatch, n = 0 \/ n > numFreePages, Fail(n),
           stray' = stray
    PROVE  Pool!Next
<1>1. FreeSet' = FreeSet
  BY DEF Fail, FreeSet, FreeSlots
<1>2. Pool!Refuse(n)
  BY <1>1, FreeCount, SameCardinality DEF Fail, Pool!Refuse, Running
<1> QED
  BY <1>2 DEF Pool!Next

LEMMA RefinementStep ==
    ASSUME PoolInv, [Next]_vars, ~stray'
    PROVE  [Pool!Next]_(Pool!poolVars)
<1>0. stray' = stray
  <2>1. stray \in BOOLEAN /\ stray' \in BOOLEAN
    BY StrayBoolean DEF PoolInv, StackInv, TypeOK
  <2> QED
    BY <2>1, StrayStays
<1> USE NumPagesAssumption, MaxBatchAssumption, <1>0
<1>1. numFreePages \in 0 .. NUM_PAGES /\ 1 \in (0 .. MaxBatch) \ {0}
  BY DEF PoolInv, StackInv, TypeOK
<1>2. ASSUME AllocatePage PROVE Pool!Next
  <2>1. CASE numFreePages = 0
    BY <1>1, <1>2, <2>1, FailRefuses DEF AllocatePage
  <2>2. CASE numFreePages # 0
    BY <1>1, <1>2, <2>2, PopTakes DEF AllocatePage
  <2> QED
    BY <2>1, <2>2
<1>3. ASSUME NEW n \in 0 .. MaxBatch, AllocatePages(n) PROVE Pool!Next
  <2>1. CASE n = 0 \/ n > numFreePages
    BY <1>3, <2>1, FailRefuses DEF AllocatePages
  <2>2. CASE ~(n = 0 \/ n > numFreePages)
    BY <1>1, <1>3, <2>2, PopTakes DEF AllocatePages
  <2> QED
    BY <2>1, <2>2
<1>4. ASSUME NEW p \in PageNums, FreePage(p) PROVE Pool!Next
  <2> DEFINE s == <<p>>
  <2>1. /\ s \in [1 .. 1 -> handed]
        /\ \A i, j \in 1 .. 1 : s[i] = s[j] => i = j
    BY <1>4, HeldPage
  <2>2. Running /\ (numFreePages # NUM_PAGES => Push(s, 1) /\ errorOccurred' = errorOccurred)
    BY <1>4 DEF FreePage
  <2> HIDE DEF s
  <2>3. 1 + numFreePages <= NUM_PAGES
    BY <2>1, HeldFits
  <2>4. numFreePages # NUM_PAGES
    BY <1>1, <2>3
  <2> QED
    BY <2>1, <2>2, <2>4, PushGives
<1>5. ASSUME NEW n \in 0 .. MaxBatch, NEW s \in [1 .. n -> PageNums], FreePages(s, n)
      PROVE  Pool!Next
  <2>1. /\ n \in Nat
        /\ s \in [1 .. n -> handed]
        /\ \A i, j \in 1 .. n : s[i] = s[j] => i = j
    BY <1>5, HeldPages
  <2>2. n + numFreePages <= NUM_PAGES
    BY <2>1, HeldFits
  <2>3. CASE n = 0
    BY <1>1, <1>5, <2>3, FailRefuses DEF FreePages
  <2>4. CASE n # 0
    <3>1. numFreePages # NUM_PAGES /\ ~(numFreePages + n > NUM_PAGES)
      BY <1>1, <2>1, <2>2, <2>4
    <3>2. Running /\ Push(s, n) /\ errorOccurred' = errorOccurred
      BY <1>5, <2>4, <3>1 DEF FreePages
    <3> QED
      BY <2>1, <3>2, PushGives
  <2> QED
    BY <2>3, <2>4
<1>6. ASSUME UNCHANGED vars PROVE UNCHANGED Pool!poolVars
  BY <1>6 DEF vars, Pool!poolVars, FreeSet, FreeSlots
<1> QED
  BY <1>2, <1>3, <1>4, <1>5, <1>6 DEF Next

(***************************************************************************)
(* The array implements PagePool: until a caller frees a page it does not  *)
(* hold, allocatePages(n) returns n different free pages, releases make    *)
(* exactly the released pages free, and error() answers only an empty      *)
(* request or one for more pages than are free.                            *)
(***************************************************************************)
THEOREM ArrayImplementsPool == Spec => ImplementsPool
<1>1. Init => CleanInv
  BY InitPool DEF PoolInv, CleanInv, EveryPageOnce
<1>2. CleanInv /\ [Next]_vars => CleanInv'
  BY CleanStep
<1>3. Init => Pool!Init
  <2> SUFFICES ASSUME Init PROVE Pool!Init
    OBVIOUS
  <2>1. FreeSet = PageNums
    BY InitPool DEF Init, PoolInv, Conserved
  <2> QED
    BY <2>1 DEF Init, Pool!Init
<1>4. CleanInv /\ [Next]_vars => [Pool!Next]_(Pool!poolVars)
  <2> SUFFICES ASSUME CleanInv, [Next]_vars
               PROVE  [Pool!Next]_(Pool!poolVars)
    OBVIOUS
  <2>1. CASE stray'
    BY <2>1 DEF Pool!Next, Pool!Stray
  <2>2. CASE ~stray'
    <3>1. PoolInv
      BY <2>2, StrayStays DEF CleanInv, EveryPageOnce, PoolInv
    <3> QED
      BY <2>2, <3>1, RefinementStep
  <2> QED
    BY <2>1, <2>2
<1> QED
  BY <1>1, <1>2, <1>3, <1>4, PTL DEF Spec, ImplementsPool, Pool!Spec
=============================================================================
