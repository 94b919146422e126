------------------------------ MODULE PagePool ------------------------------
(***************************************************************************)
(* What kernel/memoryAllocator.c promises its callers, without the array:  *)
(* a finite set of pages, each of which is either free or handed out.  A   *)
(* request for n pages is answered with n different free pages, a release  *)
(* makes pages free again, and the pool refuses (the kernel stops in       *)
(* error()) only a request it cannot serve.  All this holds as long as     *)
(* callers release only what they hold; after that, nothing is promised.   *)
(***************************************************************************)
EXTENDS Naturals, FiniteSets

CONSTANTS
    PageNums,       \* every page the allocator owns
    Requests        \* the numbers of pages callers ask for

VARIABLES
    free,           \* pages nobody holds
    handed,         \* pages callers hold
    stray,          \* a caller released a page it did not hold
    reply,          \* the last call: how many pages were asked for, and got
    stopped         \* the kernel is in the endless loop of error()

poolVars == <<free, handed, stray, reply, stopped>>

Init ==
    /\ free = PageNums
    /\ handed = {}
    /\ stray = FALSE
    /\ reply = [asked |-> 0, got |-> {}]
    /\ stopped = FALSE

Take(n) ==
    /\ ~stopped
    /\ \E S \in SUBSET free :
          /\ Cardinality(S) = n
          /\ free' = free \ S
          /\ handed' = handed \cup S
          /\ reply' = [asked |-> n, got |-> S]
    /\ UNCHANGED <<stray, stopped>>

Give ==
    /\ ~stopped
    /\ \E S \in SUBSET handed :
          /\ free' = free \cup S
          /\ handed' = handed \ S
    /\ reply' = [asked |-> 0, got |-> {}]
    /\ UNCHANGED <<stray, stopped>>

(* Only an empty request, or one for more pages than are free, is refused. *)
Refuse(n) ==
    /\ ~stopped
    /\ n = 0 \/ n > Cardinality(free)
    /\ stopped' = TRUE
    /\ reply' = [asked |-> n, got |-> {}]
    /\ UNCHANGED <<free, handed, stray>>

(* From the first stray release on, every step is allowed. *)
Stray == stray'

Next ==
    \/ \E n \in Requests \ {0} : Take(n)
    \/ Give
    \/ \E n \in Requests : Refuse(n)
    \/ Stray

Spec == Init /\ [][Next]_poolVars
=============================================================================
