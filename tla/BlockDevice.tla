---------------------------- MODULE BlockDevice ----------------------------
(***************************************************************************)
(* What kernel/disk.c promises the buffer cache: a call of diskRW moves    *)
(* one block between the disk and one buffer, once, and returns only when  *)
(* it has been moved.  A transfer the device reports as failed never       *)
(* returns: the kernel stops in error().  An interrupt of another device   *)
(* voids the promise.                                                      *)
(***************************************************************************)
CONSTANTS
    Bufs,           \* the buffers of the cache
    Blocks,         \* block numbers
    Data,           \* contents of a block
    NoReq           \* no call in progress

VARIABLES
    media,          \* what the disk holds
    content,        \* for each buffer, the block number and data in memory
    req,            \* the call in progress
    disturbed       \* another device has interrupted

deviceVars == <<media, content, req, disturbed>>

Init ==
    /\ media \in [Blocks -> Data]
    /\ content \in [Bufs -> [blockno : Blocks, data : Data]]
    /\ req = NoReq
    /\ disturbed = FALSE

(* Between calls the cache assigns buffers to blocks and callers fill them. *)
Touch(b) ==
    /\ req = NoReq
    /\ \E c \in [blockno : Blocks, data : Data] : content' = [content EXCEPT ![b] = c]
    /\ UNCHANGED <<media, req, disturbed>>

Call(b, w) ==
    /\ req = NoReq
    /\ req' = [buf |-> b, write |-> w, result |-> "pending"]
    /\ UNCHANGED <<media, content, disturbed>>

Move ==
    /\ req # NoReq /\ req.result = "pending"
    /\ LET b == req.buf
           k == content[b].blockno
       IN IF req.write
          THEN /\ media' = [media EXCEPT ![k] = content[b].data]
               /\ UNCHANGED content
          ELSE /\ content' = [content EXCEPT ![b].data = media[k]]
               /\ UNCHANGED media
    /\ req' = [req EXCEPT !.result = "moved"]
    /\ UNCHANGED disturbed

Fail ==
    /\ req # NoReq /\ req.result = "pending"
    /\ req' = [req EXCEPT !.result = "failed"]
    /\ UNCHANGED <<media, content, disturbed>>

Return ==
    /\ req # NoReq /\ req.result = "moved"
    /\ req' = NoReq
    /\ UNCHANGED <<media, content, disturbed>>

(* From the disturbance on every step is allowed. *)
Disturb == disturbed'

Next ==
    \/ \E b \in Bufs : Touch(b)
    \/ \E b \in Bufs, w \in BOOLEAN : Call(b, w)
    \/ Move \/ Fail \/ Return
    \/ Disturb

Spec == Init /\ [][Next]_deviceVars
=============================================================================
