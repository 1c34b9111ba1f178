------------------------------ MODULE MCRaid5 ------------------------------
(* Instances of Raid5 for TLC; every constant is given in the .cfg files.  *)
EXTENDS Raid5
=============================================================================
