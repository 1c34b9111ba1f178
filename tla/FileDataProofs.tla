---------------------------- MODULE FileDataProofs ----------------------------
(***************************************************************************)
(* Facts about the data of a file and what pwrite and ftruncate make of    *)
(* it, for the proofs about the modules that use FileData.                 *)
(***************************************************************************)
EXTENDS FileData, SequenceTheorems, TLAPS

\* A file's data is a sequence of at most MaxChunks chunks.
LEMMA ContentsAreSequences ==
    ASSUME NEW d \in Contents
    PROVE  /\ d \in Seq(Chunk) /\ Len(d) \in 0 .. MaxChunks
           /\ DOMAIN d = 1 .. Len(d)
           /\ \A i \in 1 .. Len(d) : d[i] \in Chunk
<1>1. PICK n \in 0 .. MaxChunks : d \in [1 .. n -> Chunk]
  BY DEF Contents
<1>2. n \in Nat
  BY DataAssumption
<1>3. d \in Seq(Chunk) /\ Len(d) = n
  BY <1>1, <1>2, IsASeq, LenProperties
<1> QED
  BY <1>1, <1>2, <1>3

\* A sequence of at most MaxChunks chunks is a file's data.
LEMMA SequencesAreContents ==
    ASSUME NEW n \in 0 .. MaxChunks, NEW d \in [1 .. n -> Chunk]
    PROVE  d \in Contents /\ Len(d) = n
<1>1. n \in Nat
  BY DataAssumption
<1>2. d \in Seq(Chunk) /\ Len(d) = n
  BY <1>1
<1> QED
  BY <1>1, <1>2 DEF Contents

\* A new file's data.
LEMMA EmptyIsContents == <<>> \in Contents
<1>1. <<>> \in [1 .. 0 -> Chunk]
  OBVIOUS
<1>2. 0 \in 0 .. MaxChunks
  BY DataAssumption
<1> QED
  BY <1>1, <1>2 DEF Contents

\* What pwrite of a chunk returns: never an empty file, its length, its chunks.
LEMMA PwriteIsContents ==
    ASSUME NEW d \in Contents, NEW o \in Offset, NEW v \in Chunk
    PROVE  /\ Pwrite(d, o, v) \in Contents
           /\ Pwrite(d, o, v) # <<>>
           /\ Len(Pwrite(d, o, v)) = IF o < Len(d) THEN Len(d) ELSE o + 1
           /\ \A i \in 1 .. Len(Pwrite(d, o, v)) :
                 Pwrite(d, o, v)[i] = IF i = o + 1 THEN v
                                      ELSE IF i <= Len(d) THEN d[i] ELSE Zero
<1> DEFINE n == IF o < Len(d) THEN Len(d) ELSE o + 1
           w == Pwrite(d, o, v)
<1>1. n \in 1 .. MaxChunks
  BY ContentsAreSequences, DataAssumption DEF Offset
<1>2. \A i \in 1 .. n : i <= Len(d) => d[i] \in Chunk
  BY <1>1, ContentsAreSequences, DataAssumption
<1>3. w \in [1 .. n -> Chunk]
  BY <1>1, <1>2, DataAssumption DEF Pwrite, Chunk
<1>4. w \in Contents /\ Len(w) = n
  BY <1>1, <1>3, SequencesAreContents, DataAssumption
<1>5. w # <<>>
  BY <1>1, <1>4, DataAssumption
<1>6. \A i \in 1 .. n : w[i] = IF i = o + 1 THEN v
                               ELSE IF i <= Len(d) THEN d[i] ELSE Zero
  BY DEF Pwrite
<1> QED
  BY <1>4, <1>5, <1>6

\* ftruncate to a chunk boundary inside the file
LEMMA PrefixIsContents ==
    ASSUME NEW d \in Contents, NEW n \in 0 .. Len(d)
    PROVE  /\ SubSeq(d, 1, n) \in Contents
           /\ Len(SubSeq(d, 1, n)) = n
           /\ \A i \in 1 .. n : SubSeq(d, 1, n)[i] = d[i]
<1>1. d \in Seq(Chunk) /\ Len(d) \in 0 .. MaxChunks /\ n \in 0 .. MaxChunks
  BY ContentsAreSequences, DataAssumption
<1>2. /\ SubSeq(d, 1, n) \in Seq(Chunk)
      /\ Len(SubSeq(d, 1, n)) = n
      /\ \A i \in 1 .. n : SubSeq(d, 1, n)[i] = d[i]
  BY <1>1, DataAssumption
<1>3. SubSeq(d, 1, n) \in [1 .. n -> Chunk]
  BY <1>2, LenProperties
<1> QED
  BY <1>1, <1>2, <1>3, SequencesAreContents

\* Data of the same length with the same chunks is the same.
LEMMA EqualContents ==
    ASSUME NEW d \in Contents, NEW e \in Contents, Len(d) = Len(e),
           \A i \in 1 .. Len(d) : d[i] = e[i]
    PROVE  d = e
BY ContentsAreSequences

\* ftruncate to the file's own length changes nothing.
LEMMA WholePrefix ==
    ASSUME NEW d \in Contents
    PROVE  SubSeq(d, 1, Len(d)) = d
<1>1. Len(d) \in 0 .. Len(d)
  BY ContentsAreSequences, DataAssumption
<1> QED
  BY <1>1, PrefixIsContents, EqualContents

\* One step of a restore: when server 1 has the first o chunks of src, the
\* next chunk written and the file cut behind it, it has the first o + 1.
LEMMA RestoreExtends ==
    ASSUME NEW d \in Contents, NEW src \in Contents,
           NEW o \in Offset, o < Len(src),
           o > 0 => d = SubSeq(src, 1, o)
    PROVE  SubSeq(Pwrite(d, o, src[o + 1]), 1, o + 1) = SubSeq(src, 1, o + 1)
<1> DEFINE v == src[o + 1]
           w == Pwrite(d, o, v)
<1>1. v \in Chunk /\ o + 1 \in 1 .. Len(src) /\ Len(src) \in Nat /\ Len(d) \in Nat
  BY ContentsAreSequences, DataAssumption DEF Offset
<1>2. /\ w \in Contents /\ Len(w) \in Nat /\ o + 1 \in 1 .. Len(w)
      /\ \A i \in 1 .. o + 1 :
            w[i] = IF i = o + 1 THEN v ELSE IF i <= Len(d) THEN d[i] ELSE Zero
  <2>1. /\ w \in Contents
        /\ Len(w) = IF o < Len(d) THEN Len(d) ELSE o + 1
        /\ \A i \in 1 .. Len(w) :
              w[i] = IF i = o + 1 THEN v ELSE IF i <= Len(d) THEN d[i] ELSE Zero
    BY <1>1, PwriteIsContents
  <2>2. o + 1 \in 1 .. Len(w) /\ Len(w) \in Nat
    BY <2>1, <1>1, DataAssumption DEF Offset
  <2>3. 1 .. o + 1 \subseteq 1 .. Len(w)
    BY <2>2, DataAssumption DEF Offset
  <2> QED
    BY <2>1, <2>2, <2>3
<1>3. \A i \in 1 .. o + 1 : w[i] = src[i]
  <2> SUFFICES ASSUME NEW i \in 1 .. o + 1 PROVE w[i] = src[i]
    OBVIOUS
  <2>1. CASE i = o + 1
    BY <2>1, <1>2
  <2>2. CASE i # o + 1
    <3>1. o > 0 /\ i \in 1 .. o /\ o \in 0 .. Len(src)
      BY <2>2, <1>1 DEF Offset
    <3>2. Len(d) = o /\ d[i] = src[i]
      BY <3>1, PrefixIsContents
    <3> QED
      BY <3>1, <3>2, <2>2, <1>2
  <2> QED
    BY <2>1, <2>2
<1>4. /\ SubSeq(w, 1, o + 1) \in Contents /\ SubSeq(src, 1, o + 1) \in Contents
      /\ Len(SubSeq(w, 1, o + 1)) = o + 1 /\ Len(SubSeq(src, 1, o + 1)) = o + 1
      /\ \A i \in 1 .. o + 1 : /\ SubSeq(w, 1, o + 1)[i] = w[i]
                              /\ SubSeq(src, 1, o + 1)[i] = src[i]
  BY <1>1, <1>2, PrefixIsContents
<1> QED
  BY <1>3, <1>4, EqualContents
=============================================================================
