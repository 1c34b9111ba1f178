---------------------------- MODULE MCDescriptors ----------------------------
(* Instances of Descriptors for TLC.                                       *)
EXTENDS Descriptors, TLC

HandleSymmetry == Permutations(Handle)
=============================================================================
