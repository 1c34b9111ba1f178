------------------------------- MODULE MCRaid1 -------------------------------
(* Instances of Raid1 for TLC; every constant is given in the .cfg files.  *)
EXTENDS Raid1Inv, TLC, FiniteSets

\* Application values are interchangeable.
ValSymmetry == Permutations(Val)
=============================================================================
