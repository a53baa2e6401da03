----------------------------- MODULE MCSelection -----------------------------
(* An instance for TLC: one client on which two accounts take turns. *)
EXTENDS Selection, TLC

Symmetry == Permutations(Tasks)
=============================================================================
