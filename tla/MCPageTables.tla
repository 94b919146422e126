---------------------------- MODULE MCPageTables ----------------------------
(***************************************************************************)
(* Values for model-checking PageTables.  Of the eight virtual pages of    *)
(* directories with two entries, three: the first, one that shares both    *)
(* its directories, and one that shares nothing with it but the root.      *)
(***************************************************************************)
EXTENDS PageTables, TLC

MCAsked == {<<0, 0, 0>>, <<0, 0, 1>>, <<1, 0, 0>>}

(* Nothing in the model or in its properties tells two tables apart.       *)
TableSymmetry == Permutations(Tables)
=============================================================================
