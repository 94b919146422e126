--------------------------- MODULE AddressSpaces ---------------------------
(***************************************************************************)
(* What kernel/paging.c promises its callers, without directories and      *)
(* entries: each page table maps virtual pages to physical pages with      *)
(* permissions.  A virtual page is mapped once, to a page that no virtual  *)
(* page of any table has, and keeps it until its table goes.               *)
(***************************************************************************)
CONSTANTS
    Tables,         \* the page tables of the processes
    VirtualPages, Pages, Permissions

VARIABLES
    existing,       \* the tables there are
    maps,           \* their mappings
    stopped         \* the kernel is in the endless loop of error()

spaceVars == <<existing, maps, stopped>>

Init ==
    /\ existing = {}
    /\ maps = {}
    /\ stopped = FALSE

Create(t) ==
    /\ ~stopped
    /\ t \notin existing
    /\ existing' = existing \cup {t}
    /\ UNCHANGED <<maps, stopped>>

Map(t, v, flags) ==
    /\ ~stopped
    /\ t \in existing
    /\ \A m \in maps : ~(m.table = t /\ m.virtual = v)
    /\ \E p \in Pages \ {m.page : m \in maps} :
          maps' = maps \cup {[table |-> t, virtual |-> v, page |-> p, flags |-> flags]}
    /\ UNCHANGED <<existing, stopped>>

Destroy(t) ==
    /\ ~stopped
    /\ t \in existing
    /\ existing' = existing \ {t}
    /\ maps' = {m \in maps : m.table # t}
    /\ UNCHANGED stopped

(* error(): a virtual page mapped twice, one used unmapped, no page left.  *)
Stop ==
    /\ ~stopped
    /\ stopped' = TRUE
    /\ UNCHANGED <<existing, maps>>

Next ==
    \/ \E t \in Tables :
          \/ Create(t)
          \/ \E v \in VirtualPages, flags \in Permissions : Map(t, v, flags)
          \/ Destroy(t)
    \/ Stop

Spec == Init /\ [][Next]_spaceVars
=============================================================================
