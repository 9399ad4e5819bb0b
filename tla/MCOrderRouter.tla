---------------------------- MODULE MCOrderRouter ----------------------------
(***************************************************************************)
(* OrderRouter for TLC.                                                    *)
(***************************************************************************)
EXTENDS OrderRouter, TLC

\* The trading pairs are interchangeable.
Symmetry == Permutations(Sym)
=============================================================================
