---------------------------- MODULE MCNamespace ----------------------------
(* Instances of Namespace for TLC.                                         *)
EXTENDS Namespace, TLC

CONSTANTS Top, Leaf   \* the names of the two levels

\* Two levels
MCPath == {<<n>> : n \in Top} \cup {<<n, m>> : n \in Top, m \in Leaf}

\* Names of the first level, and files, are interchangeable.
NameSymmetry == Permutations(Top) \cup Permutations(File)
=============================================================================
