---------------------------- MODULE MCBufferCache ----------------------------
(***************************************************************************)
(* Values for model-checking BufferCache: one user and one block more than *)
(* there are buffers, so that buffers are reused, shared and used up.      *)
(***************************************************************************)
EXTENDS BufferCache, TLC

(* Nothing in the model or in its properties tells two users apart, or two *)
(* blocks other than 0.                                                    *)
CacheSymmetry == Permutations(Users) \cup Permutations(Blocks \ {0})
=============================================================================
