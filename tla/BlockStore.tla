---------------------------- MODULE BlockStore ----------------------------
(***************************************************************************)
(* What the buffer cache (kernel/buffer.c) promises those who hold its     *)
(* buffers, without buffers: every block has one content in memory that    *)
(* all its users share, and one on the disk.  Opening a block shows its    *)
(* present content, closing it loses nothing, and a user keeps the block   *)
(* it opened until it closes it.                                           *)
(***************************************************************************)
EXTENDS Naturals, FiniteSets

CONSTANTS
    Users, Blocks, Data,
    None,           \* a user that has no block open
    Capacity        \* how many different blocks can be open at once

VARIABLES
    stable,         \* what the disk holds
    view,           \* what users see
    open,           \* the block each user has open
    stopped         \* the kernel is in the endless loop of error()

storeVars == <<stable, view, open, stopped>>

OpenBlocks == {open[u] : u \in Users} \ {None}

Init ==
    /\ stable \in [Blocks -> Data]
    /\ view = stable
    /\ open = [u \in Users |-> None]
    /\ stopped = FALSE

Open(u, k) ==
    /\ ~stopped
    /\ open[u] = None
    /\ open' = [open EXCEPT ![u] = k]
    /\ UNCHANGED <<stable, view, stopped>>

(* Only a new block, with as many open as there can be, is refused. *)
Refuse(u, k) ==
    /\ ~stopped
    /\ open[u] = None
    /\ k \notin OpenBlocks
    /\ Cardinality(OpenBlocks) = Capacity
    /\ stopped' = TRUE
    /\ UNCHANGED <<stable, view, open>>

Change(u, d) ==
    /\ ~stopped
    /\ open[u] # None
    /\ view' = [view EXCEPT ![open[u]] = d]
    /\ UNCHANGED <<stable, open, stopped>>

Save(u) ==
    /\ ~stopped
    /\ open[u] # None
    /\ stable' = [stable EXCEPT ![open[u]] = view[open[u]]]
    /\ UNCHANGED <<view, open, stopped>>

Close(u) ==
    /\ ~stopped
    /\ open[u] # None
    /\ open' = [open EXCEPT ![u] = None]
    /\ UNCHANGED <<stable, view, stopped>>

Next ==
    \E u \in Users :
        \/ \E k \in Blocks : Open(u, k) \/ Refuse(u, k)
        \/ \E d \in Data : Change(u, d)
        \/ Save(u)
        \/ Close(u)

Spec == Init /\ [][Next]_storeVars
=============================================================================
