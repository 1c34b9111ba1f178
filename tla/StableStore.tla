----------------------------- MODULE StableStore -----------------------------
(***************************************************************************)
(* What a RAID-1 mount promises about one file ("stable storage",          *)
(* doc/designdoc:132): it has one content; creating makes it empty, a      *)
(* write replaces one chunk, all at once, and nothing else ever changes    *)
(* it: no crash, no repair, no change of the server that is believed.      *)
(***************************************************************************)
EXTENDS FileData

VARIABLE content    \* a sequence of chunks, or NoFile

Init == content = NoFile

Create == content = NoFile /\ content' = <<>>

Write(o, v) ==
    /\ content # NoFile
    /\ content' = Pwrite(content, o, v)

Unlink == content # NoFile /\ content' = NoFile

Next ==
    \/ Create
    \/ \E o \in Offset, v \in Val : Write(o, v)
    \/ Unlink

Spec == Init /\ [][Next]_content
=============================================================================
