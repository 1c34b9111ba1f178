------------------------------- MODULE FileData -------------------------------
(***************************************************************************)
(* What a file's bytes are in the modules about one file: a sequence of    *)
(* 4096-byte chunks (CHUNK_SZ), each one value, and what pread and pwrite  *)
(* do to them.                                                             *)
(***************************************************************************)
EXTENDS Integers, Sequences

CONSTANTS
    Val,        \* what an application may write into one chunk
    Zero,       \* what a hole left by pwrite reads as
    Junk,       \* bytes nobody wrote: uninitialised memory, a damaged sector
    NoChunk,    \* no chunk: end of file, an empty cache slot
    NoFile,     \* the file does not exist
    MaxChunks   \* bound: chunks of the file

ASSUME DataAssumption ==
    /\ MaxChunks \in Nat \ {0}
    /\ Zero \notin Val /\ Junk \notin Val \cup {Zero}
    /\ NoChunk \notin Val \cup {Zero, Junk}

Offset == 0 .. MaxChunks - 1
Chunk == Val \cup {Zero, Junk}
Contents == UNION {[1 .. n -> Chunk] : n \in 0 .. MaxChunks}

\* What pread of chunk o of a file's data returns
ChunkAt(data, o) == IF o < Len(data) THEN data[o + 1] ELSE NoChunk

\* The data after pwrite of v at chunk o; a gap before o is a hole
Pwrite(data, o, v) ==
    [i \in 1 .. (IF o < Len(data) THEN Len(data) ELSE o + 1) |->
        IF i = o + 1 THEN v
        ELSE IF i <= Len(data) THEN data[i] ELSE Zero]
=============================================================================
