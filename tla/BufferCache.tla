---------------------------- MODULE BufferCache ----------------------------
(***************************************************************************)
(* The buffer cache of kernel/buffer.c: NBUF buffers in a list ordered     *)
(* from the most to the least recently released, searched by bget.         *)
(*                                                                         *)
(* The kernel is sequential and diskRW returns with the transfer done      *)
(* (module Disk says when that is so), so each call is one step.  A user   *)
(* is a caller between its bread and its brelse.  The callers in the code  *)
(* hold one buffer at a time; several users stand for nested callers.      *)
(*                                                                         *)
(* binit leaves all buffers assigned to block 0 and not valid: the search  *)
(* for a block ignores valid, so bread(0) finds one of those first.        *)
(***************************************************************************)
EXTENDS Naturals, FiniteSets

CONSTANTS
    NBUF,           \* number of buffers (30 in declarations.h)
    Blocks,         \* block numbers, 0 among them
    Data,           \* contents of a block
    Zero,           \* content of a buffer nothing was read into
    Users,
    None            \* a user that holds no buffer

ASSUME NbufAssumption == NBUF \in Nat \ {0}
ASSUME BlocksAssumption == 0 \in Blocks /\ None \notin Blocks
ASSUME DataAssumption == Zero \in Data
ASSUME UsersAssumption == IsFiniteSet(Users)

Bufs == 1 .. NBUF

ASSUME NoneAssumption == None \notin Bufs

VARIABLES
    lru,            \* the list from head.next to head.prev
    buf,            \* blockno, valid, refcnt and data of each Buffer
    disk,           \* what the disk holds
    held,           \* the buffer each user holds
    unsaved,        \* history: buffers changed since their last bwrite
    errorOccurred   \* the kernel is in the endless loop of error()

vars == <<lru, buf, disk, held, unsaved, errorOccurred>>

(* binit() inserts the buffers one after the other behind the head. *)
Init ==
    /\ lru = [i \in Bufs |-> NBUF + 1 - i]
    /\ buf = [b \in Bufs |-> [blockno |-> 0, valid |-> FALSE, refcnt |-> 0, data |-> Zero]]
    /\ disk \in [Blocks -> Data]
    /\ held = [u \in Users |-> None]
    /\ unsaved = {}
    /\ errorOccurred = FALSE

(* The positions bget stops at: the first buffer assigned to block k,      *)
(* searching from the front; the last unreferenced one.                    *)
FirstFor(k, i) ==
    /\ buf[lru[i]].blockno = k
    /\ \A j \in Bufs : j < i => buf[lru[j]].blockno # k

(* Mutant of LastUnused: the reference count is not looked at. *)
Last(i) == i = NBUF

LastUnused(i) ==
    /\ buf[lru[i]].refcnt = 0
    /\ \A j \in Bufs : j > i => buf[lru[j]].refcnt # 0

Cached(k) == \E b \in Bufs : buf[b].blockno = k

(***************************************************************************)
(* bread(blockno): bget, and the transfer if the buffer is not valid.      *)
(***************************************************************************)
(* Mutant of BreadHit: the reference is not counted. *)
BreadHitUncounted(u, k) ==
    \E i \in Bufs :
        LET b == lru[i] IN
        /\ FirstFor(k, i)
        /\ buf' = [buf EXCEPT ![b] =
                     [blockno |-> k, valid |-> TRUE, refcnt |-> buf[b].refcnt,
                      data |-> IF buf[b].valid THEN buf[b].data ELSE disk[k]]]
        /\ held' = [held EXCEPT ![u] = b]

BreadHit(u, k) ==
    \E i \in Bufs :
        LET b == lru[i] IN
        /\ FirstFor(k, i)
        /\ buf' = [buf EXCEPT ![b] =
                     [blockno |-> k, valid |-> TRUE, refcnt |-> buf[b].refcnt + 1,
                      data |-> IF buf[b].valid THEN buf[b].data ELSE disk[k]]]
        /\ held' = [held EXCEPT ![u] = b]

(* Mutant of BreadMiss: valid is not reset, so the old data is kept. *)
BreadMissStaysValid(u, k) ==
    /\ ~Cached(k)
    /\ \E i \in Bufs :
          LET b == lru[i] IN
          /\ LastUnused(i)
          /\ buf' = [buf EXCEPT ![b] =
                       [blockno |-> k, valid |-> TRUE, refcnt |-> 1,
                        data |-> IF buf[b].valid THEN buf[b].data ELSE disk[k]]]
          /\ held' = [held EXCEPT ![u] = b]

BreadMiss(u, k) ==
    /\ ~Cached(k)
    /\ \E i \in Bufs :
          LET b == lru[i] IN
          /\ LastUnused(i)
          /\ buf' = [buf EXCEPT ![b] =
                       [blockno |-> k, valid |-> TRUE, refcnt |-> 1, data |-> disk[k]]]
          /\ held' = [held EXCEPT ![u] = b]

Bread(u, k) ==
    /\ ~errorOccurred
    /\ held[u] = None
    /\ BreadHit(u, k) \/ BreadMiss(u, k)
    /\ UNCHANGED <<lru, disk, unsaved, errorOccurred>>

(* error("bget: no buffers") *)
BreadNoBuffers(u, k) ==
    /\ ~errorOccurred
    /\ held[u] = None
    /\ ~Cached(k)
    /\ \A b \in Bufs : buf[b].refcnt # 0
    /\ errorOccurred' = TRUE
    /\ UNCHANGED <<lru, buf, disk, held, unsaved>>

(* The holder stores into b->data, as writeBytes does. *)
Change(u, d) ==
    /\ ~errorOccurred
    /\ held[u] # None
    /\ buf' = [buf EXCEPT ![held[u]].data = d]
    /\ unsaved' = unsaved \cup {held[u]}
    /\ UNCHANGED <<lru, disk, held, errorOccurred>>

Bwrite(u) ==
    /\ ~errorOccurred
    /\ held[u] # None
    /\ LET b == held[u] IN
       /\ disk' = [disk EXCEPT ![buf[b].blockno] = buf[b].data]
       /\ unsaved' = unsaved \ {b}
    /\ UNCHANGED <<lru, buf, held, errorOccurred>>

(* Mutants of MoveToFront: the buffer before b is lost; b is inserted at   *)
(* the wrong end.                                                          *)
MoveToFrontLosing(b) ==
    LET k == CHOOSE i \in Bufs : lru[i] = b IN
    lru' = [i \in Bufs |-> IF i = 1 THEN b
                           ELSE IF i < k THEN lru[i - 1]
                           ELSE lru[i]]

MoveToBack(b) ==
    LET k == CHOOSE i \in Bufs : lru[i] = b IN
    lru' = [i \in Bufs |-> IF i = NBUF THEN b
                           ELSE IF i >= k THEN lru[i + 1]
                           ELSE lru[i]]

(* Take b out of the list and insert it behind the head. *)
MoveToFront(b) ==
    LET k == CHOOSE i \in Bufs : lru[i] = b IN
    lru' = [i \in Bufs |-> IF i = 1 THEN b
                           ELSE IF i <= k THEN lru[i - 1]
                           ELSE lru[i]]

(* The code's callers save what they changed before they release it. *)
Brelse(u) ==
    /\ ~errorOccurred
    /\ held[u] # None
    /\ held[u] \notin unsaved
    /\ LET b == held[u] IN
       /\ buf' = [buf EXCEPT ![b].refcnt = @ - 1]
       /\ IF buf[b].refcnt = 1 THEN MoveToFront(b) ELSE UNCHANGED lru
    /\ held' = [held EXCEPT ![u] = None]
    /\ UNCHANGED <<disk, unsaved, errorOccurred>>

Next ==
    \E u \in Users :
        \/ \E k \in Blocks : Bread(u, k) \/ BreadNoBuffers(u, k)
        \/ \E d \in Data : Change(u, d)
        \/ Bwrite(u)
        \/ Brelse(u)

Spec == Init /\ [][Next]_vars

-----------------------------------------------------------------------------
(* What users see: the content of the buffer that holds the block, if one  *)
(* does, and the block each of them has open.                              *)
Holds(b, k) == buf[b].valid /\ buf[b].blockno = k

View ==
    [k \in Blocks |-> IF \E b \in Bufs : Holds(b, k)
                      THEN buf[CHOOSE b \in Bufs : Holds(b, k)].data
                      ELSE disk[k]]

Opened == [u \in Users |-> IF held[u] = None THEN None ELSE buf[held[u]].blockno]

Holders(b) == {u \in Users : held[u] = b}

(***************************************************************************)
(* The types; the list is a permutation of the buffers: the unlinking and  *)
(* relinking in brelse loses none and doubles none.                        *)
(***************************************************************************)
TypeOK ==
    /\ lru \in [Bufs -> Bufs]
    /\ \A i, j \in Bufs : lru[i] = lru[j] => i = j
    /\ \A b \in Bufs : \E i \in Bufs : lru[i] = b
    /\ buf \in [Bufs -> [blockno : Blocks, valid : BOOLEAN, refcnt : Nat, data : Data]]
    /\ disk \in [Blocks -> Data]
    /\ held \in [Users -> Bufs \cup {None}]
    /\ unsaved \subseteq Bufs
    /\ errorOccurred \in BOOLEAN

(***************************************************************************)
(* No block is in two buffers.  That is in danger through the buffers      *)
(* binit assigns to block 0 without reading it: bget must come upon the    *)
(* one that was read before any of the others, and the order brelse keeps  *)
(* is all that makes it so.                                                *)
(***************************************************************************)
UniqueCopy ==
    \A a, b \in Bufs :
        buf[a].valid /\ buf[b].valid /\ buf[a].blockno = buf[b].blockno => a = b

(***************************************************************************)
(* The reference count is the number of holders, so a buffer that is held  *)
(* is never given to another block, and one that is not can be.            *)
(***************************************************************************)
CountsHolders == \A b \in Bufs : buf[b].refcnt = Cardinality(Holders(b))

(***************************************************************************)
(* A buffer with valid set holds what the disk holds, unless its holder    *)
(* has changed it and not saved it yet: a later bread that finds it reads  *)
(* no stale data, and an eviction loses none.                              *)
(***************************************************************************)
Coherent ==
    \A b \in Bufs : buf[b].valid /\ b \notin unsaved
                        => buf[b].data = disk[buf[b].blockno]

(***************************************************************************)
(* The cache implements BlockStore: users of a block share one content,    *)
(* evictions and refills are invisible, and bget reports that it has no    *)
(* buffers only when NBUF other blocks are in use.                         *)
(***************************************************************************)
Store == INSTANCE BlockStore WITH
    stable   <- disk,
    view     <- View,
    open     <- Opened,
    stopped  <- errorOccurred,
    Capacity <- NBUF

ImplementsStore == Store!Spec
=============================================================================
