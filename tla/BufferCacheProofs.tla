------------------------- MODULE BufferCacheProofs -------------------------
(***************************************************************************)
(* Proofs about the buffer cache for every number of buffers, blocks,      *)
(* contents and users.                                                     *)
(***************************************************************************)
EXTENDS BufferCache, FiniteSetTheorems, TLAPS

(***************************************************************************)
(* The inductive invariant.  Fresh and FreshBehind are what keeps block 0  *)
(* from being in two buffers: a buffer that was never read into is still   *)
(* assigned to block 0, and it stands behind the buffer that holds block   *)
(* 0, if there is one.                                                     *)
(***************************************************************************)
Fresh == \A b \in Bufs : ~buf[b].valid => buf[b].blockno = 0 /\ buf[b].refcnt = 0

FreshBehind ==
    \A i, j \in Bufs :
        buf[lru[i]].valid /\ buf[lru[i]].blockno = 0 /\ ~buf[lru[j]].valid => i < j

UnsavedHeld == \A b \in unsaved : buf[b].refcnt # 0

CacheInv ==
    /\ TypeOK
    /\ UniqueCopy
    /\ CountsHolders
    /\ Coherent
    /\ Fresh
    /\ FreshBehind
    /\ UnsavedHeld

-----------------------------------------------------------------------------
(* A count of zero means nobody holds the buffer. *)
LEMMA HoldersFinite ==
    ASSUME NEW b
    PROVE  /\ IsFiniteSet(Holders(b))
           /\ Cardinality(Holders(b)) \in Nat
           /\ Cardinality(Holders(b)) = 0 <=> Holders(b) = {}
<1>1. Holders(b) \in SUBSET Users
  BY DEF Holders
<1>2. IsFiniteSet(Holders(b))
  BY <1>1, UsersAssumption, FS_Subset
<1> QED
  BY <1>2, FS_CardinalityType, FS_EmptySet

LEMMA HeldIsCounted ==
    ASSUME CacheInv, NEW u \in Users, held[u] # None
    PROVE  /\ held[u] \in Bufs
           /\ buf[held[u]].refcnt # 0
           /\ buf[held[u]].valid
<1>1. held[u] \in Bufs
  BY DEF CacheInv, TypeOK
<1>2. u \in Holders(held[u])
  BY DEF Holders
<1>3. buf[held[u]].refcnt # 0
  BY <1>1, <1>2, HoldersFinite DEF CacheInv, CountsHolders
<1> QED
  BY <1>1, <1>3 DEF CacheInv, Fresh

(* Taking a buffer adds one holder, giving it back removes one. *)
LEMMA TakeCounts ==
    ASSUME TypeOK, NEW u \in Users, held[u] = None, NEW b \in Bufs,
           held' = [held EXCEPT ![u] = b], NEW c \in Bufs
    PROVE  Cardinality(Holders(c)') =
              IF c = b THEN Cardinality(Holders(c)) + 1 ELSE Cardinality(Holders(c))
<1> USE NoneAssumption DEF TypeOK
<1>1. CASE c = b
  <2>1. Holders(c)' = Holders(c) \cup {u} /\ u \notin Holders(c)
    BY <1>1 DEF Holders
  <2>2. Cardinality(Holders(c) \cup {u}) = Cardinality(Holders(c)) + 1
    <3> HIDE DEF TypeOK
    <3> QED
      BY <2>1, HoldersFinite, FS_AddElement
  <2> QED
    BY <1>1, <2>1, <2>2
<1>2. CASE c # b
  <2>1. Holders(c)' = Holders(c)
    BY <1>2 DEF Holders
  <2> QED
    BY <1>2, <2>1
<1> QED
  BY <1>1, <1>2

LEMMA GiveCounts ==
    ASSUME TypeOK, NEW u \in Users, held[u] # None,
           held' = [held EXCEPT ![u] = None], NEW c \in Bufs
    PROVE  Cardinality(Holders(c)') =
              IF c = held[u] THEN Cardinality(Holders(c)) - 1 ELSE Cardinality(Holders(c))
<1> USE NoneAssumption DEF TypeOK
<1>1. CASE c = held[u]
  <2>1. Holders(c)' = Holders(c) \ {u} /\ u \in Holders(c)
    BY <1>1 DEF Holders
  <2>2. Cardinality(Holders(c) \ {u}) = Cardinality(Holders(c)) - 1
    <3> HIDE DEF TypeOK
    <3> QED
      BY <2>1, HoldersFinite, FS_RemoveElement
  <2> QED
    BY <1>1, <2>1, <2>2
<1>2. CASE c # held[u]
  <2>1. Holders(c)' = Holders(c)
    BY <1>2 DEF Holders
  <2> QED
    BY <1>2, <2>1
<1> QED
  BY <1>1, <1>2

-----------------------------------------------------------------------------
(* What brelse does to the list: b comes first, the others keep their      *)
(* order, and the list is still a permutation of the buffers.              *)
LEMMA MovedToFront ==
    ASSUME TypeOK, NEW k \in Bufs, MoveToFront(lru[k])
    PROVE  lru' = [i \in Bufs |-> IF i = 1 THEN lru[k]
                                  ELSE IF i <= k THEN lru[i - 1]
                                  ELSE lru[i]]
<1>1. \A i \in Bufs : lru[i] = lru[k] => i = k
  BY DEF TypeOK
<1>2. (CHOOSE i \in Bufs : lru[i] = lru[k]) = k
  BY <1>1
<1> QED
  BY <1>2 DEF MoveToFront

LEMMA FrontPermutes ==
    ASSUME TypeOK, NEW k \in Bufs, MoveToFront(lru[k])
    PROVE  /\ lru' \in [Bufs -> Bufs]
           /\ \A i, j \in Bufs : lru'[i] = lru'[j] => i = j
           /\ \A b \in Bufs : \E i \in Bufs : lru'[i] = b
<1> DEFINE from(i) == IF i = 1 THEN k ELSE IF i <= k THEN i - 1 ELSE i
           to(i) == IF i = k THEN 1 ELSE IF i < k THEN i + 1 ELSE i
<1>1. \A i \in Bufs : /\ from(i) \in Bufs /\ to(from(i)) = i
                      /\ to(i) \in Bufs /\ from(to(i)) = i
  BY NbufAssumption DEF Bufs
<1>2. /\ lru' = [i \in Bufs |-> lru[from(i)]]
      /\ \A i \in Bufs : lru'[i] = lru[from(i)]
  BY MovedToFront
<1>3. /\ lru \in [Bufs -> Bufs]
      /\ \A i, j \in Bufs : lru[i] = lru[j] => i = j
      /\ \A b \in Bufs : \E i \in Bufs : lru[i] = b
  BY DEF TypeOK
<1> HIDE DEF from, to
<1>4. lru' \in [Bufs -> Bufs]
  BY <1>1, <1>2, <1>3
<1>5. \A i, j \in Bufs : lru'[i] = lru'[j] => i = j
  <2> SUFFICES ASSUME NEW i \in Bufs, NEW j \in Bufs, lru'[i] = lru'[j]
               PROVE  i = j
    OBVIOUS
  <2>1. from(i) = from(j)
    BY <1>1, <1>2, <1>3
  <2> QED
    BY <1>1, <2>1
<1>6. ASSUME NEW b \in Bufs PROVE \E i \in Bufs : lru'[i] = b
  <2>1. PICK p \in Bufs : lru[p] = b
    BY <1>3
  <2>2. to(p) \in Bufs /\ lru'[to(p)] = b
    BY <1>1, <1>2, <2>1
  <2> QED
    BY <2>2
<1> QED
  BY <1>4, <1>5, <1>6

(* A buffer that is not moved does not overtake any other: if x was before *)
(* y in the list, and y was not moved, then x is before y.                 *)
LEMMA FrontKeepsOrder ==
    ASSUME TypeOK, NEW k \in Bufs, MoveToFront(lru[k]),
           NEW i \in Bufs, NEW j \in Bufs, lru'[j] # lru[k],
           lru'[i] = lru[k] \/ \A p, q \in Bufs : lru[p] = lru'[i] /\ lru[q] = lru'[j] => p < q
    PROVE  i < j
<1> DEFINE from(n) == IF n = 1 THEN k ELSE IF n <= k THEN n - 1 ELSE n
<1>1. /\ \A n \in Bufs : from(n) \in Bufs
      /\ \A n \in Bufs : from(n) = k <=> n = 1
  BY NbufAssumption DEF Bufs
<1>2. \A n \in Bufs : lru'[n] = lru[from(n)]
  BY MovedToFront
<1>3. \A n \in Bufs : lru[n] = lru[k] => n = k
  BY DEF TypeOK
<1>4. from(j) # k
  BY <1>2
<1>5. CASE lru'[i] = lru[k]
  <2>1. i = 1
    BY <1>1, <1>2, <1>3, <1>5
  <2> QED
    BY <1>4, <2>1 DEF Bufs
<1>6. CASE lru'[i] # lru[k]
  <2>1. from(i) # k
    BY <1>2, <1>6
  <2>2. from(i) < from(j)
    BY <1>1, <1>2, <1>6
  <2> QED
    BY <1>4, <2>1, <2>2, NbufAssumption DEF Bufs
<1> QED
  BY <1>5, <1>6

-----------------------------------------------------------------------------
(* One lemma per operation: it keeps the invariant. *)
LEMMA BreadHitKeeps ==
    ASSUME CacheInv, NEW u \in Users, NEW k \in Blocks, held[u] = None,
           BreadHit(u, k), UNCHANGED <<lru, disk, unsaved, errorOccurred>>
    PROVE  CacheInv'
<1>1. PICK i \in Bufs :
        /\ FirstFor(k, i)
        /\ buf' = [buf EXCEPT ![lru[i]] =
                     [blockno |-> k, valid |-> TRUE, refcnt |-> buf[lru[i]].refcnt + 1,
                      data |-> IF buf[lru[i]].valid THEN buf[lru[i]].data ELSE disk[k]]]
        /\ held' = [held EXCEPT ![u] = lru[i]]
  BY DEF BreadHit
<1> DEFINE b == lru[i]
<1>2. /\ b \in Bufs /\ buf[b].blockno = k
      /\ \A j \in Bufs : j < i => buf[lru[j]].blockno # k
  BY <1>1 DEF FirstFor, CacheInv, TypeOK
<1>3. /\ buf' \in [Bufs -> [blockno : Blocks, valid : BOOLEAN, refcnt : Nat, data : Data]]
      /\ buf'[b].blockno = k
      /\ buf'[b].valid
      /\ buf'[b].refcnt = buf[b].refcnt + 1
      /\ buf'[b].data = IF buf[b].valid THEN buf[b].data ELSE disk[k]
      /\ \A c \in Bufs : c # b => buf'[c] = buf[c]
  <2>1. /\ buf \in [Bufs -> [blockno : Blocks, valid : BOOLEAN, refcnt : Nat, data : Data]]
        /\ disk \in [Blocks -> Data]
    BY DEF CacheInv, TypeOK
  <2> QED
    BY <1>1, <1>2, <2>1
<1>4. /\ lru' = lru /\ disk' = disk /\ unsaved' = unsaved
      /\ errorOccurred' = errorOccurred
  OBVIOUS
<1>5. held' = [held EXCEPT ![u] = b]
  BY <1>1
<1> HIDE DEF b
<1>6. /\ \A c \in Bufs : \E j \in Bufs : lru[j] = c
      /\ \A j, l \in Bufs : lru[j] = lru[l] => j = l
      /\ lru \in [Bufs -> Bufs]
  BY DEF CacheInv, TypeOK
<1>7. TypeOK'
  BY <1>2, <1>3, <1>4, <1>5 DEF CacheInv, TypeOK
<1>8. CountsHolders'
  <2>1. TypeOK
    BY DEF CacheInv
  <2> SUFFICES ASSUME NEW c \in Bufs PROVE buf'[c].refcnt = Cardinality(Holders(c)')
    BY DEF CountsHolders
  <2>2. Cardinality(Holders(c)') =
            IF c = b THEN Cardinality(Holders(c)) + 1 ELSE Cardinality(Holders(c))
    BY <1>2, <1>5, <2>1, TakeCounts
  <2> QED
    BY <1>3, <2>2 DEF CacheInv, CountsHolders
(* A buffer read for the first time is the only one that holds block 0. *)
<1>9. ASSUME ~buf[b].valid
      PROVE  /\ k = 0
             /\ \A c \in Bufs : buf[c].valid => buf[c].blockno # k
             /\ \A j \in Bufs : ~buf[lru[j]].valid => i <= j
  <2>1. k = 0
    BY <1>2, <1>9 DEF CacheInv, Fresh
  <2>2. ASSUME NEW c \in Bufs, buf[c].valid, buf[c].blockno = k PROVE FALSE
    <3>1. PICK j \in Bufs : lru[j] = c
      BY <1>6
    <3>2. j < i
      BY <1>9, <2>1, <2>2, <3>1 DEF CacheInv, FreshBehind, b
    <3> QED
      BY <1>2, <2>2, <3>1, <3>2
  <2>3. ASSUME NEW j \in Bufs, ~buf[lru[j]].valid PROVE i <= j
    <3>1. buf[lru[j]].blockno = k
      BY <1>6, <2>1, <2>3 DEF CacheInv, Fresh
    <3> QED
      BY <1>2, <3>1, NbufAssumption DEF Bufs
  <2> QED
    BY <2>1, <2>2, <2>3
<1>10. UniqueCopy'
  BY <1>2, <1>3, <1>9 DEF CacheInv, UniqueCopy
<1>11. Coherent'
  BY <1>2, <1>3, <1>4 DEF CacheInv, Coherent
<1>12. Fresh'
  BY <1>2, <1>3 DEF CacheInv, Fresh
<1>13. FreshBehind'
  <2> SUFFICES ASSUME NEW p \in Bufs, NEW q \in Bufs,
                      buf'[lru[p]].valid, buf'[lru[p]].blockno = 0, ~buf'[lru[q]].valid
               PROVE  p < q
    BY <1>4 DEF FreshBehind
  <2>1. lru[q] # b /\ ~buf[lru[q]].valid
    BY <1>3, <1>6
  <2>2. CASE lru[p] # b \/ buf[b].valid
    <3>1. buf[lru[p]].valid /\ buf[lru[p]].blockno = 0
      BY <1>2, <1>3, <1>6, <2>2
    <3> QED
      BY <2>1, <3>1 DEF CacheInv, FreshBehind
  <2>3. CASE lru[p] = b /\ ~buf[b].valid
    <3>1. p = i /\ i <= q /\ q # i
      BY <1>6, <1>9, <2>1, <2>3 DEF b
    <3> QED
      BY <3>1 DEF Bufs
  <2> QED
    BY <2>2, <2>3
<1>14. UnsavedHeld'
  <2>1. buf[b].refcnt \in Nat
    BY <1>2 DEF CacheInv, TypeOK
  <2>2. unsaved \subseteq Bufs /\ \A c \in unsaved : buf[c].refcnt # 0
    BY DEF CacheInv, TypeOK, UnsavedHeld
  <2> QED
    BY <1>3, <1>4, <2>1, <2>2 DEF UnsavedHeld
<1> QED
  BY <1>7, <1>8, <1>10, <1>11, <1>12, <1>13, <1>14 DEF CacheInv

LEMMA BreadMissKeeps ==
    ASSUME CacheInv, NEW u \in Users, NEW k \in Blocks, held[u] = None,
           BreadMiss(u, k), UNCHANGED <<lru, disk, unsaved, errorOccurred>>
    PROVE  CacheInv'
<1>1. PICK i \in Bufs :
        /\ LastUnused(i)
        /\ buf' = [buf EXCEPT ![lru[i]] =
                     [blockno |-> k, valid |-> TRUE, refcnt |-> 1, data |-> disk[k]]]
        /\ held' = [held EXCEPT ![u] = lru[i]]
  BY DEF BreadMiss
<1> DEFINE b == lru[i]
<1>2. /\ b \in Bufs /\ buf[b].refcnt = 0
      /\ \A c \in Bufs : buf[c].blockno # k
  BY <1>1 DEF LastUnused, CacheInv, TypeOK, BreadMiss, Cached
<1>3. /\ buf' \in [Bufs -> [blockno : Blocks, valid : BOOLEAN, refcnt : Nat, data : Data]]
      /\ buf'[b].blockno = k
      /\ buf'[b].valid
      /\ buf'[b].refcnt = 1
      /\ buf'[b].data = disk[k]
      /\ \A c \in Bufs : c # b => buf'[c] = buf[c]
  BY <1>1, <1>2 DEF CacheInv, TypeOK
<1>4. /\ lru' = lru /\ disk' = disk /\ unsaved' = unsaved
      /\ errorOccurred' = errorOccurred
  OBVIOUS
<1>5. held' = [held EXCEPT ![u] = b]
  BY <1>1
<1> HIDE DEF b
<1>6. lru \in [Bufs -> Bufs]
  BY DEF CacheInv, TypeOK
<1>7. TypeOK'
  BY <1>2, <1>3, <1>4, <1>5 DEF CacheInv, TypeOK
<1>8. CountsHolders'
  <2>1. TypeOK
    BY DEF CacheInv
  <2> SUFFICES ASSUME NEW c \in Bufs PROVE buf'[c].refcnt = Cardinality(Holders(c)')
    BY DEF CountsHolders
  <2>2. Cardinality(Holders(c)') =
            IF c = b THEN Cardinality(Holders(c)) + 1 ELSE Cardinality(Holders(c))
    BY <1>2, <1>5, <2>1, TakeCounts
  <2> QED
    BY <1>2, <1>3, <2>2 DEF CacheInv, CountsHolders
<1>9. UniqueCopy'
  BY <1>2, <1>3 DEF CacheInv, UniqueCopy
<1>10. Coherent'
  BY <1>2, <1>3, <1>4 DEF CacheInv, Coherent
<1>11. Fresh'
  BY <1>2, <1>3 DEF CacheInv, Fresh
(* Block 0 can only be missed when no fresh buffer is left. *)
<1>12. FreshBehind'
  <2> SUFFICES ASSUME NEW p \in Bufs, NEW q \in Bufs,
                      buf'[lru[p]].valid, buf'[lru[p]].blockno = 0, ~buf'[lru[q]].valid
               PROVE  p < q
    BY <1>4 DEF FreshBehind
  <2>1. lru[q] # b /\ ~buf[lru[q]].valid
    BY <1>3, <1>6
  <2>2. lru[p] # b
    BY <1>2, <1>3, <1>6, <2>1 DEF CacheInv, Fresh
  <2> QED
    BY <1>3, <1>6, <2>1, <2>2 DEF CacheInv, FreshBehind
<1>13. UnsavedHeld'
  <2>1. unsaved \subseteq Bufs /\ \A c \in unsaved : buf[c].refcnt # 0
    BY DEF CacheInv, TypeOK, UnsavedHeld
  <2> QED
    BY <1>3, <1>4, <2>1 DEF UnsavedHeld
<1> QED
  BY <1>7, <1>8, <1>9, <1>10, <1>11, <1>12, <1>13 DEF CacheInv

LEMMA ChangeKeeps ==
    ASSUME CacheInv, NEW u \in Users, NEW d \in Data, Change(u, d)
    PROVE  CacheInv'
<1> DEFINE b == held[u]
<1>1. b \in Bufs /\ buf[b].refcnt # 0
  BY HeldIsCounted DEF Change
<1>2. /\ buf' = [buf EXCEPT ![b].data = d]
      /\ unsaved' = unsaved \cup {b}
      /\ lru' = lru /\ disk' = disk /\ held' = held /\ errorOccurred' = errorOccurred
  BY DEF Change
<1> HIDE DEF b
<1>3. /\ buf' \in [Bufs -> [blockno : Blocks, valid : BOOLEAN, refcnt : Nat, data : Data]]
      /\ buf'[b].blockno = buf[b].blockno
      /\ buf'[b].valid = buf[b].valid
      /\ buf'[b].refcnt = buf[b].refcnt
      /\ \A c \in Bufs : c # b => buf'[c] = buf[c]
  <2> DEFINE B == [blockno : Blocks, valid : BOOLEAN, refcnt : Nat, data : Data]
  <2>1. buf \in [Bufs -> B]
    BY DEF CacheInv, TypeOK
  <2>2. ASSUME NEW x \in B
        PROVE  [x EXCEPT !.data = d] \in B
    OBVIOUS
  <2>3. /\ buf' = [c \in Bufs |-> buf'[c]]
        /\ buf'[b] = [buf[b] EXCEPT !.data = d] /\ buf[b] \in B
        /\ \A c \in Bufs : c # b => buf'[c] = buf[c]
    BY <1>1, <1>2, <2>1
  <2> QED
    BY <2>1, <2>2, <2>3
<1>4. TypeOK' /\ UnsavedHeld'
  BY <1>1, <1>2, <1>3 DEF CacheInv, TypeOK, UnsavedHeld
<1>5. UniqueCopy' /\ Fresh'
  BY <1>1, <1>3 DEF CacheInv, UniqueCopy, Fresh
<1>6. Coherent'
  BY <1>1, <1>2, <1>3 DEF CacheInv, Coherent
<1>7. FreshBehind'
  <2>1. lru \in [Bufs -> Bufs]
    BY DEF CacheInv, TypeOK
  <2> QED
    BY <1>1, <1>2, <1>3, <2>1 DEF CacheInv, FreshBehind
<1>8. CountsHolders'
  BY <1>1, <1>2, <1>3 DEF CacheInv, CountsHolders, Holders
<1> QED
  BY <1>4, <1>5, <1>6, <1>7, <1>8 DEF CacheInv

LEMMA BwriteKeeps ==
    ASSUME CacheInv, NEW u \in Users, Bwrite(u)
    PROVE  CacheInv'
<1> DEFINE b == held[u]
<1>1. b \in Bufs /\ buf[b].valid
  BY HeldIsCounted DEF Bwrite
<1>2. /\ disk' = [disk EXCEPT ![buf[b].blockno] = buf[b].data]
      /\ unsaved' = unsaved \ {b}
      /\ lru' = lru /\ buf' = buf /\ held' = held /\ errorOccurred' = errorOccurred
  BY DEF Bwrite
<1> HIDE DEF b
<1>3. TypeOK'
  BY <1>1, <1>2 DEF CacheInv, TypeOK
<1>4. UniqueCopy' /\ Fresh' /\ FreshBehind' /\ CountsHolders' /\ UnsavedHeld'
  BY <1>2 DEF CacheInv, UniqueCopy, Fresh, FreshBehind, CountsHolders, Holders, UnsavedHeld
<1>5. Coherent'
  <2>1. buf[b].blockno \in Blocks /\ \A c \in Bufs : buf[c].blockno \in Blocks
    BY <1>1 DEF CacheInv, TypeOK
  <2>2. disk \in [Blocks -> Data]
    BY DEF CacheInv, TypeOK
  <2> QED
    BY <1>1, <1>2, <2>1, <2>2 DEF CacheInv, Coherent, UniqueCopy
<1> QED
  BY <1>3, <1>4, <1>5 DEF CacheInv

LEMMA BrelseKeeps ==
    ASSUME CacheInv, NEW u \in Users, Brelse(u)
    PROVE  CacheInv'
<1> DEFINE b == held[u]
<1>1. /\ b \in Bufs /\ buf[b].refcnt # 0 /\ buf[b].valid
      /\ b \notin unsaved /\ held[u] # None
  BY HeldIsCounted DEF Brelse
<1>2. /\ buf' = [buf EXCEPT ![b].refcnt = @ - 1]
      /\ held' = [held EXCEPT ![u] = None]
      /\ disk' = disk /\ unsaved' = unsaved /\ errorOccurred' = errorOccurred
      /\ MoveToFront(b) \/ lru' = lru
  BY DEF Brelse
<1> HIDE DEF b
<1>3. PICK k \in Bufs : lru[k] = b
  BY <1>1 DEF CacheInv, TypeOK
<1>4. /\ buf' \in [Bufs -> [blockno : Blocks, valid : BOOLEAN, refcnt : Nat, data : Data]]
      /\ buf'[b].blockno = buf[b].blockno
      /\ buf'[b].valid = buf[b].valid
      /\ buf'[b].data = buf[b].data
      /\ buf'[b].refcnt = buf[b].refcnt - 1
      /\ \A c \in Bufs : c # b => buf'[c] = buf[c]
  <2>1. /\ buf \in [Bufs -> [blockno : Blocks, valid : BOOLEAN, refcnt : Nat, data : Data]]
        /\ buf[b].refcnt - 1 \in Nat
    BY <1>1 DEF CacheInv, TypeOK
  <2> QED
    BY <1>1, <1>2, <2>1
<1>5. /\ lru' \in [Bufs -> Bufs]
      /\ \A i, j \in Bufs : lru'[i] = lru'[j] => i = j
      /\ \A c \in Bufs : \E i \in Bufs : lru'[i] = c
  BY <1>2, <1>3, FrontPermutes DEF CacheInv, TypeOK
<1>6. TypeOK'
  <2>1. held' \in [Users -> Bufs \cup {None}]
    BY <1>2 DEF CacheInv, TypeOK
  <2> QED
    BY <1>2, <1>4, <1>5, <2>1 DEF CacheInv, TypeOK
<1>7. UniqueCopy' /\ Fresh'
  <2>1. \A c \in Bufs : /\ buf'[c].valid = buf[c].valid
                        /\ buf'[c].blockno = buf[c].blockno
    BY <1>4
  <2>2. UniqueCopy'
    BY <2>1 DEF CacheInv, UniqueCopy
  <2>3. Fresh'
    BY <1>1, <1>4 DEF CacheInv, Fresh
  <2> QED
    BY <2>2, <2>3
<1>8. Coherent'
  BY <1>1, <1>2, <1>4 DEF CacheInv, Coherent
<1>9. CountsHolders'
  <2> SUFFICES ASSUME NEW c \in Bufs PROVE buf'[c].refcnt = Cardinality(Holders(c)')
    BY DEF CountsHolders
  <2>1. Cardinality(Holders(c)') =
            IF c = b THEN Cardinality(Holders(c)) - 1 ELSE Cardinality(Holders(c))
    BY <1>1, <1>2, GiveCounts DEF CacheInv, b
  <2> QED
    BY <1>4, <2>1 DEF CacheInv, CountsHolders
<1>10. UnsavedHeld'
  BY <1>1, <1>2, <1>4 DEF CacheInv, TypeOK, UnsavedHeld
<1>11. FreshBehind'
  <2>1. CASE lru' = lru
    <3>1. lru \in [Bufs -> Bufs]
      BY DEF CacheInv, TypeOK
    <3>2. \A c \in Bufs : /\ buf'[c].valid = buf[c].valid
                          /\ buf'[c].blockno = buf[c].blockno
      BY <1>4
    <3> QED
      BY <2>1, <3>1, <3>2 DEF CacheInv, FreshBehind
  <2>2. CASE MoveToFront(b)
    <3> SUFFICES ASSUME NEW i \in Bufs, NEW j \in Bufs,
                        buf'[lru'[i]].valid, buf'[lru'[i]].blockno = 0, ~buf'[lru'[j]].valid
                 PROVE  i < j
      BY DEF FreshBehind
    <3>1. /\ lru'[i] \in Bufs /\ lru'[j] \in Bufs
          /\ buf[lru'[i]].valid /\ buf[lru'[i]].blockno = 0 /\ ~buf[lru'[j]].valid
      BY <1>1, <1>4, <1>5
    <3>2. lru'[j] # lru[k]
      BY <1>1, <1>3, <3>1
    <3>3. \A p, q \in Bufs : lru[p] = lru'[i] /\ lru[q] = lru'[j] => p < q
      BY <3>1 DEF CacheInv, FreshBehind
    <3> QED
      BY <1>3, <2>2, <3>2, <3>3, FrontKeepsOrder DEF CacheInv
  <2> QED
    BY <1>2, <2>1, <2>2
<1> QED
  BY <1>6, <1>7, <1>8, <1>9, <1>10, <1>11 DEF CacheInv

LEMMA CacheInit ==
    ASSUME Init
    PROVE  CacheInv
<1> USE NbufAssumption, BlocksAssumption, DataAssumption, NoneAssumption
<1>1. /\ lru = [i \in Bufs |-> NBUF + 1 - i]
      /\ lru \in [Bufs -> Bufs]
      /\ \A i, j \in Bufs : lru[i] = lru[j] => i = j
  BY DEF Init, Bufs
<1>2. ASSUME NEW b \in Bufs PROVE \E i \in Bufs : lru[i] = b
  <2>1. NBUF + 1 - b \in Bufs /\ lru[NBUF + 1 - b] = b
    BY <1>1 DEF Bufs
  <2> QED
    BY <2>1
<1>3. /\ buf \in [Bufs -> [blockno : Blocks, valid : BOOLEAN, refcnt : Nat, data : Data]]
      /\ \A b \in Bufs : buf[b].blockno = 0 /\ ~buf[b].valid /\ buf[b].refcnt = 0
  BY DEF Init
<1>4. TypeOK
  BY <1>1, <1>2, <1>3 DEF Init, TypeOK
<1>5. CountsHolders
  <2> SUFFICES ASSUME NEW b \in Bufs PROVE Cardinality(Holders(b)) = 0
    BY <1>3 DEF CountsHolders
  <2>1. Holders(b) = {}
    BY DEF Init, Holders
  <2> QED
    BY <2>1, FS_EmptySet
<1>6. UniqueCopy /\ Coherent /\ Fresh
  BY <1>3 DEF UniqueCopy, Coherent, Fresh
<1>7. FreshBehind
  BY <1>1, <1>3 DEF FreshBehind
<1>8. UnsavedHeld
  BY DEF Init, UnsavedHeld
<1> QED
  BY <1>4, <1>5, <1>6, <1>7, <1>8 DEF CacheInv

LEMMA CacheStep ==
    ASSUME CacheInv, [Next]_vars
    PROVE  CacheInv'
<1>1. ASSUME NEW u \in Users, NEW k \in Blocks, Bread(u, k) PROVE CacheInv'
  BY <1>1, BreadHitKeeps, BreadMissKeeps DEF Bread
<1>2. ASSUME NEW u \in Users, NEW k \in Blocks, BreadNoBuffers(u, k) PROVE CacheInv'
  BY <1>2 DEF BreadNoBuffers, CacheInv, TypeOK, UniqueCopy, CountsHolders, Holders,
              Coherent, Fresh, FreshBehind, UnsavedHeld
<1>3. ASSUME NEW u \in Users, NEW d \in Data, Change(u, d) PROVE CacheInv'
  BY <1>3, ChangeKeeps
<1>4. ASSUME NEW u \in Users, Bwrite(u) PROVE CacheInv'
  BY <1>4, BwriteKeeps
<1>5. ASSUME NEW u \in Users, Brelse(u) PROVE CacheInv'
  BY <1>5, BrelseKeeps
<1>6. CASE UNCHANGED vars
  BY <1>6 DEF vars, CacheInv, TypeOK, UniqueCopy, CountsHolders, Holders,
              Coherent, Fresh, FreshBehind, UnsavedHeld
<1> QED
  BY <1>1, <1>2, <1>3, <1>4, <1>5, <1>6 DEF Next

LEMMA CacheInvariance == Spec => []CacheInv
<1>1. Init => CacheInv
  BY CacheInit
<1>2. CacheInv /\ [Next]_vars => CacheInv'
  BY CacheStep
<1> QED
  BY <1>1, <1>2, PTL DEF Spec

(***************************************************************************)
(* The list brelse relinks stays a permutation of all the buffers: none    *)
(* drops out of it, and none is in it twice.                               *)
(***************************************************************************)
THEOREM ListComplete == Spec => []TypeOK
  BY CacheInvariance, PTL DEF CacheInv

(***************************************************************************)
(* No block is ever in two valid buffers, although bget looks for a block  *)
(* by number in buffers that never held any.                               *)
(***************************************************************************)
THEOREM OneCopy == Spec => []UniqueCopy
  BY CacheInvariance, PTL DEF CacheInv

(***************************************************************************)
(* refcnt is the number of users that hold the buffer, so bget never gives *)
(* a buffer in use to another block.                                       *)
(***************************************************************************)
THEOREM CountsRight == Spec => []CountsHolders
  BY CacheInvariance, PTL DEF CacheInv

(***************************************************************************)
(* A valid buffer not changed since it was read or saved holds what the    *)
(* disk holds, through any sequence of evictions by bget.                  *)
(***************************************************************************)
THEOREM CacheCoherent == Spec => []Coherent
  BY CacheInvariance, PTL DEF CacheInv

-----------------------------------------------------------------------------
(***************************************************************************)
(* Refinement: the cache implements BlockStore.                            *)
(***************************************************************************)
LEMMA ViewCached ==
    ASSUME CacheInv, NEW b \in Bufs, buf[b].valid
    PROVE  buf[b].blockno \in Blocks /\ View[buf[b].blockno] = buf[b].data
<1> DEFINE k == buf[b].blockno
           c == CHOOSE x \in Bufs : Holds(x, k)
<1>1. k \in Blocks
  BY DEF CacheInv, TypeOK
<1>2. Holds(b, k)
  BY DEF Holds
<1>3. c \in Bufs /\ Holds(c, k)
  BY <1>2
<1>4. c = b
  BY <1>2, <1>3 DEF CacheInv, UniqueCopy, Holds
<1> QED
  BY <1>1, <1>2, <1>4 DEF View

LEMMA ViewCachedNext ==
    ASSUME CacheInv', NEW b \in Bufs, buf'[b].valid
    PROVE  buf'[b].blockno \in Blocks /\ View'[buf'[b].blockno] = buf'[b].data
<1> DEFINE k == buf'[b].blockno
           c == CHOOSE x \in Bufs : buf'[x].valid /\ buf'[x].blockno = k
<1>1. k \in Blocks
  BY DEF CacheInv, TypeOK
<1>2. c \in Bufs /\ buf'[c].valid /\ buf'[c].blockno = k
  OBVIOUS
<1>3. c = b
  BY <1>2 DEF CacheInv, UniqueCopy
<1> QED
  BY <1>1, <1>3 DEF View, Holds

LEMMA ViewUncached ==
    /\ \A k \in Blocks : (\A b \in Bufs : ~Holds(b, k)) => View[k] = disk[k]
    /\ \A k \in Blocks : (\A b \in Bufs : ~(buf'[b].valid /\ buf'[b].blockno = k))
                          => View'[k] = disk'[k]
  BY DEF View, Holds

(* A buffer that is in the same state before and after shows the same. *)
LEMMA ViewUnchangedBuffer ==
    ASSUME CacheInv, CacheInv', NEW b \in Bufs, buf'[b] = buf[b], NEW k \in Blocks, Holds(b, k)
    PROVE  View'[k] = View[k]
  BY ViewCached, ViewCachedNext DEF Holds

LEMMA BreadHitOpens ==
    ASSUME CacheInv, CacheInv', NEW u \in Users, NEW k \in Blocks, held[u] = None,
           BreadHit(u, k), UNCHANGED <<lru, disk, unsaved, errorOccurred>>
    PROVE  View' = View /\ Opened' = [Opened EXCEPT ![u] = k]
<1>1. PICK i \in Bufs :
        /\ FirstFor(k, i)
        /\ buf' = [buf EXCEPT ![lru[i]] =
                     [blockno |-> k, valid |-> TRUE, refcnt |-> buf[lru[i]].refcnt + 1,
                      data |-> IF buf[lru[i]].valid THEN buf[lru[i]].data ELSE disk[k]]]
        /\ held' = [held EXCEPT ![u] = lru[i]]
  BY DEF BreadHit
<1> DEFINE b == lru[i]
<1>2. /\ b \in Bufs /\ buf[b].blockno = k
      /\ \A j \in Bufs : j < i => buf[lru[j]].blockno # k
  BY <1>1 DEF FirstFor, CacheInv, TypeOK
<1>3. /\ buf'[b].blockno = k
      /\ buf'[b].valid
      /\ buf'[b].data = IF buf[b].valid THEN buf[b].data ELSE disk[k]
      /\ \A c \in Bufs : c # b => buf'[c] = buf[c]
  BY <1>1, <1>2 DEF CacheInv, TypeOK
<1>4. held' = [held EXCEPT ![u] = b] /\ held \in [Users -> Bufs \cup {None}]
  BY <1>1 DEF CacheInv, TypeOK
<1>5. ASSUME NEW c \in Bufs, Holds(c, k), c # b PROVE FALSE
  <2>1. CASE buf[b].valid
    BY <1>2, <1>5, <2>1 DEF CacheInv, UniqueCopy, Holds
  <2>2. CASE ~buf[b].valid
    <3>1. PICK j \in Bufs : lru[j] = c
      BY DEF CacheInv, TypeOK
    <3>2. j < i
      BY <1>2, <1>5, <2>2, <3>1 DEF CacheInv, Fresh, FreshBehind, Holds
    <3> QED
      BY <1>2, <1>5, <3>1, <3>2 DEF Holds
  <2> QED
    BY <2>1, <2>2
<1> HIDE DEF b
<1>6. ASSUME NEW q \in Blocks PROVE View'[q] = View[q]
  <2>1. CASE q = k
    <3>1. View'[k] = buf'[b].data
      BY <1>2, <1>3, ViewCachedNext
    <3>2. CASE buf[b].valid
      BY <1>2, <1>3, <2>1, <3>1, <3>2, ViewCached
    <3>3. CASE ~buf[b].valid
      <4>1. \A c \in Bufs : ~Holds(c, k)
        BY <1>5, <3>3 DEF Holds
      <4> QED
        BY <1>3, <2>1, <3>1, <3>3, <4>1, ViewUncached
    <3> QED
      BY <3>2, <3>3
  <2>2. CASE q # k
    <3>1. CASE \E c \in Bufs : Holds(c, q)
      <4>1. PICK c \in Bufs : Holds(c, q)
        BY <3>1
      <4>2. buf'[c] = buf[c]
        BY <1>2, <1>3, <2>2, <4>1 DEF Holds
      <4> QED
        BY <4>1, <4>2, ViewUnchangedBuffer
    <3>2. CASE \A c \in Bufs : ~Holds(c, q)
      <4>1. \A c \in Bufs : ~(buf'[c].valid /\ buf'[c].blockno = q)
        BY <1>2, <1>3, <2>2, <3>2 DEF Holds
      <4> QED
        BY <3>2, <4>1, ViewUncached
    <3> QED
      BY <3>1, <3>2
  <2> QED
    BY <2>1, <2>2
<1>7. View' = View
  BY <1>6 DEF View
<1>8. Opened' = [Opened EXCEPT ![u] = k]
  <2>1. \A v \in Users : v # u => held'[v] = held[v]
    BY <1>4
  <2>2. \A c \in Bufs : buf'[c].blockno = buf[c].blockno
    BY <1>2, <1>3
  <2>3. held'[u] = b /\ b # None
    BY <1>2, <1>4, NoneAssumption
  <2>4. \A v \in Users : Opened'[v] = IF v = u THEN k ELSE Opened[v]
    BY <1>3, <1>4, <2>1, <2>2, <2>3 DEF Opened
  <2> QED
    BY <2>4 DEF Opened
<1> QED
  BY <1>7, <1>8

LEMMA BreadMissOpens ==
    ASSUME CacheInv, CacheInv', NEW u \in Users, NEW k \in Blocks, held[u] = None,
           BreadMiss(u, k), UNCHANGED <<lru, disk, unsaved, errorOccurred>>
    PROVE  View' = View /\ Opened' = [Opened EXCEPT ![u] = k]
<1>1. PICK i \in Bufs :
        /\ LastUnused(i)
        /\ buf' = [buf EXCEPT ![lru[i]] =
                     [blockno |-> k, valid |-> TRUE, refcnt |-> 1, data |-> disk[k]]]
        /\ held' = [held EXCEPT ![u] = lru[i]]
  BY DEF BreadMiss
<1> DEFINE b == lru[i]
<1>2. /\ b \in Bufs /\ buf[b].refcnt = 0
      /\ \A c \in Bufs : buf[c].blockno # k
  BY <1>1 DEF LastUnused, CacheInv, TypeOK, BreadMiss, Cached
<1>3. /\ buf'[b].blockno = k
      /\ buf'[b].valid
      /\ buf'[b].data = disk[k]
      /\ \A c \in Bufs : c # b => buf'[c] = buf[c]
  BY <1>1, <1>2 DEF CacheInv, TypeOK
<1>4. held' = [held EXCEPT ![u] = b] /\ held \in [Users -> Bufs \cup {None}]
  BY <1>1 DEF CacheInv, TypeOK
<1> HIDE DEF b
(* Nobody holds the evicted buffer, and the disk has what it showed. *)
<1>5. \A v \in Users : held[v] # b
  BY <1>2, HeldIsCounted, NoneAssumption
<1>6. buf[b].valid => buf[b].data = disk[buf[b].blockno]
  BY <1>2 DEF CacheInv, Coherent, UnsavedHeld
<1>7. ASSUME NEW q \in Blocks PROVE View'[q] = View[q]
  <2>1. CASE q = k
    <3>1. View'[k] = disk[k]
      BY <1>2, <1>3, ViewCachedNext
    <3>2. \A c \in Bufs : ~Holds(c, k)
      BY <1>2 DEF Holds
    <3> QED
      BY <2>1, <3>1, <3>2, ViewUncached
  <2>2. CASE q # k /\ Holds(b, q)
    <3>1. View[q] = disk[q]
      BY <1>2, <1>6, <2>2, ViewCached DEF Holds
    <3>2. \A c \in Bufs : ~(buf'[c].valid /\ buf'[c].blockno = q)
      BY <1>2, <1>3, <2>2 DEF Holds, CacheInv, UniqueCopy
    <3> QED
      BY <3>1, <3>2, ViewUncached
  <2>3. CASE q # k /\ ~Holds(b, q)
    <3>1. CASE \E c \in Bufs : Holds(c, q)
      <4>1. PICK c \in Bufs : Holds(c, q)
        BY <3>1
      <4>2. buf'[c] = buf[c]
        BY <1>3, <2>3, <4>1
      <4> QED
        BY <4>1, <4>2, ViewUnchangedBuffer
    <3>2. CASE \A c \in Bufs : ~Holds(c, q)
      <4>1. \A c \in Bufs : ~(buf'[c].valid /\ buf'[c].blockno = q)
        BY <1>2, <1>3, <2>3, <3>2 DEF Holds
      <4> QED
        BY <3>2, <4>1, ViewUncached
    <3> QED
      BY <3>1, <3>2
  <2> QED
    BY <2>1, <2>2, <2>3
<1>8. View' = View
  BY <1>7 DEF View
<1>9. Opened' = [Opened EXCEPT ![u] = k]
  <2>1. \A v \in Users : v # u => held'[v] = held[v]
    BY <1>4
  <2>2. held'[u] = b /\ b # None
    BY <1>2, <1>4, NoneAssumption
  <2>3. \A v \in Users : Opened'[v] = IF v = u THEN k ELSE Opened[v]
    BY <1>3, <1>4, <1>5, <2>1, <2>2 DEF Opened
  <2> QED
    BY <2>3 DEF Opened
<1> QED
  BY <1>8, <1>9

LEMMA ChangeChanges ==
    ASSUME CacheInv, CacheInv', NEW u \in Users, NEW d \in Data, Change(u, d)
    PROVE  View' = [View EXCEPT ![Opened[u]] = d] /\ Opened' = Opened
<1> DEFINE b == held[u]
           k == buf[b].blockno
<1>1. b \in Bufs /\ buf[b].valid /\ Opened[u] = k
  BY HeldIsCounted DEF Change, Opened
<1>2. /\ buf' = [buf EXCEPT ![b].data = d]
      /\ disk' = disk /\ held' = held
  BY DEF Change
<1> HIDE DEF b
<1>3. /\ buf'[b].blockno = k
      /\ buf'[b].valid
      /\ buf'[b].data = d
      /\ \A c \in Bufs : c # b => buf'[c] = buf[c]
  BY <1>1, <1>2 DEF CacheInv, TypeOK
<1>4. ASSUME NEW q \in Blocks PROVE View'[q] = IF q = k THEN d ELSE View[q]
  <2>1. CASE q = k
    BY <1>1, <1>3, <2>1, ViewCachedNext
  <2>2. CASE q # k
    <3>1. CASE \E c \in Bufs : Holds(c, q)
      <4>1. PICK c \in Bufs : Holds(c, q)
        BY <3>1
      <4>2. buf'[c] = buf[c]
        BY <1>3, <2>2, <4>1 DEF Holds
      <4> QED
        BY <2>2, <4>1, <4>2, ViewUnchangedBuffer
    <3>2. CASE \A c \in Bufs : ~Holds(c, q)
      <4>1. \A c \in Bufs : ~(buf'[c].valid /\ buf'[c].blockno = q)
        BY <1>1, <1>3, <2>2, <3>2 DEF Holds
      <4> QED
        BY <1>2, <2>2, <3>2, <4>1, ViewUncached
    <3> QED
      BY <3>1, <3>2
  <2> QED
    BY <2>1, <2>2
<1>5. View' = [View EXCEPT ![Opened[u]] = d]
  <2>1. /\ View' = [q \in Blocks |-> View'[q]]
        /\ View = [q \in Blocks |-> View[q]]
    BY DEF View
  <2> QED
    BY <1>1, <1>4, <2>1
<1>6. Opened' = Opened
  <2>1. \A c \in Bufs : buf'[c].blockno = buf[c].blockno
    BY <1>3
  <2> QED
    BY <1>2, <2>1 DEF Opened, CacheInv, TypeOK
<1> QED
  BY <1>5, <1>6

LEMMA BwriteSaves ==
    ASSUME CacheInv, CacheInv', NEW u \in Users, Bwrite(u)
    PROVE  /\ disk' = [disk EXCEPT ![Opened[u]] = View[Opened[u]]]
           /\ View' = View
           /\ Opened' = Opened
<1> DEFINE b == held[u]
           k == buf[b].blockno
<1>1. b \in Bufs /\ buf[b].valid /\ Opened[u] = k
  BY HeldIsCounted DEF Bwrite, Opened
<1>2. disk' = [disk EXCEPT ![k] = buf[b].data] /\ buf' = buf /\ held' = held
  BY DEF Bwrite
<1>3. View[k] = buf[b].data
  BY <1>1, ViewCached
<1> HIDE DEF b
<1>4. ASSUME NEW q \in Blocks PROVE View'[q] = View[q]
  <2>1. CASE \E c \in Bufs : Holds(c, q)
    BY <1>2, <2>1, ViewUnchangedBuffer
  <2>2. CASE \A c \in Bufs : ~Holds(c, q)
    <3>1. q # k
      BY <1>1, <2>2 DEF Holds
    <3>2. \A c \in Bufs : ~(buf'[c].valid /\ buf'[c].blockno = q)
      BY <1>2, <2>2 DEF Holds
    <3>3. disk'[q] = disk[q]
      BY <1>2, <3>1 DEF CacheInv, TypeOK
    <3> QED
      BY <2>2, <3>2, <3>3, ViewUncached
  <2> QED
    BY <2>1, <2>2
<1>5. View' = View
  BY <1>4 DEF View
<1> QED
  BY <1>1, <1>2, <1>3, <1>5 DEF Opened

LEMMA BrelseCloses ==
    ASSUME CacheInv, CacheInv', NEW u \in Users, Brelse(u)
    PROVE  View' = View /\ Opened' = [Opened EXCEPT ![u] = None]
<1> DEFINE b == held[u]
<1>1. b \in Bufs
  BY HeldIsCounted DEF Brelse
<1>2. /\ buf' = [buf EXCEPT ![b].refcnt = @ - 1]
      /\ held' = [held EXCEPT ![u] = None]
      /\ disk' = disk
  BY DEF Brelse
<1> HIDE DEF b
<1>3. \A c \in Bufs : /\ buf'[c].valid = buf[c].valid
                      /\ buf'[c].blockno = buf[c].blockno
                      /\ buf'[c].data = buf[c].data
  <2>1. buf \in [Bufs -> [blockno : Blocks, valid : BOOLEAN, refcnt : Nat, data : Data]]
    BY DEF CacheInv, TypeOK
  <2>2. /\ buf'[b].blockno = buf[b].blockno
        /\ buf'[b].valid = buf[b].valid
        /\ buf'[b].data = buf[b].data
    BY <1>1, <1>2, <2>1
  <2>3. \A c \in Bufs : c # b => buf'[c] = buf[c]
    BY <1>1, <1>2, <2>1
  <2> QED
    BY <2>2, <2>3
<1>4. ASSUME NEW q \in Blocks PROVE View'[q] = View[q]
  <2>1. CASE \E c \in Bufs : Holds(c, q)
    BY <1>3, <2>1, ViewCached, ViewCachedNext DEF Holds
  <2>2. CASE \A c \in Bufs : ~Holds(c, q)
    <3>1. \A c \in Bufs : ~(buf'[c].valid /\ buf'[c].blockno = q)
      BY <1>3, <2>2 DEF Holds
    <3> QED
      BY <1>2, <2>2, <3>1, ViewUncached
  <2> QED
    BY <2>1, <2>2
<1>5. View' = View
  BY <1>4 DEF View
<1>6. Opened' = [Opened EXCEPT ![u] = None]
  <2>1. held \in [Users -> Bufs \cup {None}]
    BY DEF CacheInv, TypeOK
  <2>2. \A v \in Users : Opened'[v] = IF v = u THEN None ELSE Opened[v]
    BY <1>2, <1>3, <2>1 DEF Opened
  <2> QED
    BY <2>2 DEF Opened
<1> QED
  BY <1>5, <1>6

LEMMA SameCardinality == \A S : Store!Cardinality(S) = Cardinality(S)
  BY DEF Store!Cardinality, Cardinality, Store!IsFiniteSet, IsFiniteSet

(* When every buffer is referenced, NBUF different blocks are open. *)
LEMMA FullIsOpen ==
    ASSUME CacheInv, \A b \in Bufs : buf[b].refcnt # 0
    PROVE  /\ Store!OpenBlocks \subseteq {buf[b].blockno : b \in Bufs}
           /\ Cardinality(Store!OpenBlocks) = NBUF
<1> DEFINE f == [b \in Bufs |-> buf[b].blockno]
           T == {buf[b].blockno : b \in Bufs}
<1>1. IsFiniteSet(Bufs) /\ Cardinality(Bufs) = NBUF
  BY NbufAssumption, FS_Interval DEF Bufs
<1>2. \A b \in Bufs : buf[b].valid
  BY DEF CacheInv, Fresh
<1>3. \A b, c \in Bufs : f[b] = f[c] => b = c
  BY <1>2 DEF CacheInv, UniqueCopy
<1>4. f \in Bijection(Bufs, T)
  BY <1>3 DEF Bijection, Injection, Surjection, IsInjective
<1>5. Cardinality(T) = NBUF
  BY <1>1, <1>4, FS_Bijection DEF ExistsBijection
<1>6. Store!OpenBlocks \subseteq T
  <2> SUFFICES ASSUME NEW u \in Users, Opened[u] # None PROVE Opened[u] \in T
    BY DEF Store!OpenBlocks
  <2> QED
    BY HeldIsCounted DEF Opened
<1>7. ASSUME NEW b \in Bufs PROVE buf[b].blockno \in Store!OpenBlocks
  <2>1. PICK u \in Users : held[u] = b
    <3>1. Cardinality(Holders(b)) # 0
      BY DEF CacheInv, CountsHolders
    <3>2. Holders(b) # {}
      BY <3>1, HoldersFinite
    <3> QED
      BY <3>2 DEF Holders
  <2>2. buf[b].blockno \in Blocks
    BY DEF CacheInv, TypeOK
  <2>3. Opened[u] = buf[b].blockno /\ Opened[u] # None
    BY <2>1, <2>2, NoneAssumption, BlocksAssumption DEF Opened
  <2> QED
    BY <2>3 DEF Store!OpenBlocks
<1>8. Store!OpenBlocks = T
  BY <1>6, <1>7
<1> QED
  BY <1>5, <1>6, <1>8

LEMMA NoBuffersRefuses ==
    ASSUME CacheInv, NEW u \in Users, NEW k \in Blocks, BreadNoBuffers(u, k)
    PROVE  Store!Refuse(u, k)
<1>1. \A b \in Bufs : buf[b].refcnt # 0 /\ buf[b].blockno # k
  BY DEF BreadNoBuffers, Cached
<1>2. k \notin Store!OpenBlocks
  BY <1>1, FullIsOpen
<1>3. Store!Cardinality(Store!OpenBlocks) = NBUF
  BY <1>1, FullIsOpen, SameCardinality
<1>4. Opened[u] = None /\ ~errorOccurred /\ errorOccurred' = TRUE
  BY DEF BreadNoBuffers, Opened
<1>5. disk' = disk /\ View' = View /\ Opened' = Opened
  BY DEF BreadNoBuffers, View, Opened, Holds
<1> QED
  BY <1>2, <1>3, <1>4, <1>5 DEF Store!Refuse

(* A user that holds a buffer has a block open. *)
LEMMA HeldIsOpen ==
    ASSUME CacheInv, NEW u \in Users
    PROVE  Opened[u] = None <=> held[u] = None
  BY HeldIsCounted, BlocksAssumption DEF Opened, CacheInv, TypeOK

LEMMA StoreStep ==
    ASSUME CacheInv, CacheInv', [Next]_vars
    PROVE  [Store!Next]_(Store!storeVars)
<1>1. ASSUME NEW u \in Users, NEW k \in Blocks, Bread(u, k) PROVE Store!Open(u, k)
  <2>1. /\ held[u] = None /\ ~errorOccurred
        /\ BreadHit(u, k) \/ BreadMiss(u, k)
        /\ UNCHANGED <<lru, disk, unsaved, errorOccurred>>
    BY <1>1 DEF Bread
  <2>2. View' = View /\ Opened' = [Opened EXCEPT ![u] = k]
    BY <2>1, BreadHitOpens, BreadMissOpens
  <2> QED
    BY <2>1, <2>2, HeldIsOpen DEF Store!Open
<1>2. ASSUME NEW u \in Users, NEW k \in Blocks, BreadNoBuffers(u, k)
      PROVE  Store!Refuse(u, k)
  BY <1>2, NoBuffersRefuses
<1>3. ASSUME NEW u \in Users, NEW d \in Data, Change(u, d) PROVE Store!Change(u, d)
  <2>1. View' = [View EXCEPT ![Opened[u]] = d] /\ Opened' = Opened
    BY <1>3, ChangeChanges
  <2> QED
    BY <1>3, <2>1, HeldIsOpen DEF Change, Store!Change
<1>4. ASSUME NEW u \in Users, Bwrite(u) PROVE Store!Save(u)
  <2>1. /\ disk' = [disk EXCEPT ![Opened[u]] = View[Opened[u]]]
        /\ View' = View
        /\ Opened' = Opened
    BY <1>4, BwriteSaves
  <2> QED
    BY <1>4, <2>1, HeldIsOpen DEF Bwrite, Store!Save
<1>5. ASSUME NEW u \in Users, Brelse(u) PROVE Store!Close(u)
  <2>1. View' = View /\ Opened' = [Opened EXCEPT ![u] = None]
    BY <1>5, BrelseCloses
  <2> QED
    BY <1>5, <2>1, HeldIsOpen DEF Brelse, Store!Close
<1>6. ASSUME UNCHANGED vars PROVE UNCHANGED Store!storeVars
  BY <1>6 DEF vars, Store!storeVars, View, Opened, Holds
<1> QED
  BY <1>1, <1>2, <1>3, <1>4, <1>5, <1>6 DEF Next, Store!Next

(***************************************************************************)
(* The cache implements BlockStore for every number of buffers: evictions  *)
(* and refills are invisible to the users of a block, who share its one    *)
(* content and keep it until they release it, and bget gives up only when  *)
(* NBUF other blocks are in use.                                           *)
(***************************************************************************)
THEOREM CacheImplementsStore == Spec => ImplementsStore
<1>1. Init => CacheInv
  BY CacheInit
<1>2. CacheInv /\ [Next]_vars => CacheInv'
  BY CacheStep
<1>3. Init => Store!Init
  <2> SUFFICES ASSUME Init PROVE Store!Init
    OBVIOUS
  <2>1. \A k \in Blocks : View[k] = disk[k]
    BY DEF Init, View, Holds
  <2>2. View = disk
    BY <2>1 DEF Init, View
  <2>3. Opened = [u \in Users |-> None]
    BY DEF Init, Opened
  <2> QED
    BY <2>2, <2>3 DEF Init, Store!Init
<1>4. CacheInv /\ CacheInv' /\ [Next]_vars => [Store!Next]_(Store!storeVars)
  BY StoreStep
<1> QED
  BY <1>1, <1>2, <1>3, <1>4, PTL DEF Spec, ImplementsStore, Store!Spec
=============================================================================
