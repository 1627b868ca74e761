---------------------------- MODULE MCLevelDbLog ----------------------------
(* LevelDbLog for TLC: the iterators are interchangeable.                   *)
EXTENDS LevelDbLog, TLC

IteratorSymmetry == Permutations(Readers)
=============================================================================
