------------------------------ MODULE MCChannel ------------------------------
(* Instances of Channel for TLC; every constant is given in the .cfg files. *)
EXTENDS Channel
=============================================================================
