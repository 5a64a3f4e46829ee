----------------------- MODULE MCExclusivePublication -----------------------
EXTENDS ExclusivePublication, TLC

(* Publishers, members and foreign directories are interchangeable. *)
Symmetry == Permutations(Publishers) \cup Permutations(Members) \cup Permutations(Foreign)
=============================================================================
