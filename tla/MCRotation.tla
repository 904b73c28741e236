----------------------------- MODULE MCRotation -----------------------------
(* Instances of Rotation for TLC: symmetry of the tasks where none is Held. *)
EXTENDS Rotation, TLC

Symmetry == Permutations(Task)
=============================================================================
