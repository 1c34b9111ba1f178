---------------------------- MODULE MountStartProofs ----------------------------
(***************************************************************************)
(* Proofs about the start of the client (module MountStart): what the      *)
(* parser holds after any number of lines of any file, and that every      *)
(* process mounted is of the disk, the raid and the servers its block of   *)
(* the file gives. The argument goes along the lines of the file: the      *)
(* number of the block is the number of blank lines so far (BlockStep),    *)
(* and one more line changes the meaning of a file in one key of one block *)
(* (MeantStep).                                                            *)
(***************************************************************************)
EXTENDS MountStart, FiniteSetTheorems, SequenceTheorems, TLAPS

-----------------------------------------------------------------------------
(***************************************************************************)
(* Blocks.                                                                 *)
(***************************************************************************)
\* The blank lines before line i
BlanksBefore(f, i) == {j \in 1 .. i - 1 : f[j].key = "blank"}

LEMMA BlockType ==
    ASSUME NEW f, NEW i \in Nat \ {0}
    PROVE  /\ IsFiniteSet(BlanksBefore(f, i)) /\ BlockOf(f, i) = Cardinality(BlanksBefore(f, i))
           /\ BlockOf(f, i) \in Nat
<1>1. IsFiniteSet(1 .. i - 1)
  BY FS_Interval
<1>2. BlanksBefore(f, i) \in SUBSET (1 .. i - 1)
  BY DEF BlanksBefore
<1>3. IsFiniteSet(BlanksBefore(f, i))
  BY <1>1, <1>2, FS_Subset
<1> QED
  BY <1>3, FS_CardinalityType DEF BlockOf, BlanksBefore

LEMMA BlockFirst == ASSUME NEW f PROVE BlockOf(f, 1) = 0
<1>1. BlanksBefore(f, 1) = {}
  BY DEF BlanksBefore
<1> QED
  BY <1>1, BlockType, FS_EmptySet

\* The number of the block goes up by one with every blank line.
LEMMA BlockStep ==
    ASSUME NEW f, NEW i \in Nat \ {0}
    PROVE  BlockOf(f, i + 1) = IF f[i].key = "blank" THEN BlockOf(f, i) + 1 ELSE BlockOf(f, i)
<1>1. /\ IsFiniteSet(BlanksBefore(f, i)) /\ BlockOf(f, i) = Cardinality(BlanksBefore(f, i))
      /\ BlockOf(f, i + 1) = Cardinality(BlanksBefore(f, i + 1))
  BY BlockType
<1>2. CASE f[i].key = "blank"
  <2>1. BlanksBefore(f, i + 1) = BlanksBefore(f, i) \cup {i} /\ i \notin BlanksBefore(f, i)
    BY <1>2 DEF BlanksBefore
  <2> QED
    BY <1>1, <1>2, <2>1, FS_AddElement
<1>3. CASE f[i].key # "blank"
  <2>1. BlanksBefore(f, i + 1) = BlanksBefore(f, i)
    BY <1>3 DEF BlanksBefore
  <2> QED
    BY <1>1, <1>3, <2>1
<1> QED
  BY <1>2, <1>3

LEMMA BlockMonotonic ==
    ASSUME NEW f, NEW i \in Nat \ {0}, NEW k \in Nat \ {0}, i <= k
    PROVE  BlockOf(f, i) <= BlockOf(f, k)
<1>1. BlanksBefore(f, i) \in SUBSET BlanksBefore(f, k)
  BY DEF BlanksBefore
<1> QED
  BY <1>1, BlockType, FS_Subset

\* Of the lines of a prefix, the blocks are those of the whole.
LEMMA BlockPrefix ==
    ASSUME NEW f, NEW g, NEW i \in Nat \ {0}, \A j \in 1 .. i - 1 : f[j] = g[j]
    PROVE  BlockOf(f, i) = BlockOf(g, i)
<1>1. BlanksBefore(f, i) = BlanksBefore(g, i)
  BY DEF BlanksBefore
<1> QED
  BY <1>1, BlockType

-----------------------------------------------------------------------------
(***************************************************************************)
(* Prefixes of a file, and what they mean.                                 *)
(***************************************************************************)
Prefix(f, n) == SubSeq(f, 1, n)

LEMMA PrefixFacts ==
    ASSUME NEW T, NEW f \in Seq(T), NEW n \in 0 .. Len(f)
    PROVE  /\ Prefix(f, n) \in Seq(T) /\ Len(Prefix(f, n)) = n
           /\ DOMAIN Prefix(f, n) = 1 .. n
           /\ \A i \in 1 .. n : Prefix(f, n)[i] = f[i]
           /\ \A i \in 1 .. n + 1 : BlockOf(Prefix(f, n), i) = BlockOf(f, i)
<1> DEFINE a == Prefix(f, n)
<1>1. Len(f) \in Nat /\ n \in Nat /\ n <= Len(f) /\ \A k \in 1 .. n : f[k] \in T
  OBVIOUS
<1>2. /\ a \in Seq(T) /\ Len(a) = IF 1 <= n THEN n - 1 + 1 ELSE 0
      /\ \A k \in 1 .. n - 1 + 1 : a[k] = f[1 + k - 1]
  BY <1>1, SubSeqProperties DEF Prefix
<1> HIDE DEF a
<1>3. Len(a) = n /\ DOMAIN a = 1 .. n
  BY <1>1, <1>2
<1>4. \A k \in 1 .. n : a[k] = f[k]
  BY <1>1, <1>2
<1>5. ASSUME NEW i \in 1 .. n + 1 PROVE BlockOf(a, i) = BlockOf(f, i)
  <2>1. i \in Nat \ {0} /\ \A j \in 1 .. i - 1 : a[j] = f[j]
    BY <1>1, <1>4
  <2> QED
    BY <2>1, BlockPrefix
<1> QED
  BY <1>2, <1>3, <1>4, <1>5 DEF a

LEMMA PrefixWhole ==
    ASSUME NEW T, NEW f \in Seq(T) PROVE Prefix(f, Len(f)) = f
<1> DEFINE a == Prefix(f, Len(f))
<1>1. Len(f) \in 0 .. Len(f)
  OBVIOUS
<1>2. /\ a \in Seq(T) /\ Len(a) = Len(f)
      /\ \A i \in 1 .. Len(f) : a[i] = f[i]
  BY <1>1, PrefixFacts
<1> HIDE DEF a
<1>3. a = f
  BY <1>2
<1> QED
  BY <1>3 DEF a

\* The lines of a block in a prefix
LEMMA LinesPrefix ==
    ASSUME NEW T, NEW f \in Seq(T), NEW n \in 0 .. Len(f), NEW k, NEW key
    PROVE  LinesOf(Prefix(f, n), k, key)
              = {i \in 1 .. n : BlockOf(f, i) = k /\ f[i].key = key}
<1>1. n \in Nat
  OBVIOUS
<1>2. \A i \in 1 .. n : i \in 1 .. n + 1
  BY <1>1
<1> QED
  BY <1>2, PrefixFacts DEF LinesOf

\* Of some lines of a file, one is the last: the numbers up to one of them would
\* otherwise be mapped into themselves by adding 1, which misses 0.
LEMMA LastLine ==
    ASSUME NEW A \in SUBSET Nat, A # {}, NEW n \in Nat, \A i \in A : i <= n
    PROVE  \E i \in A : \A j \in A : j <= i
<1> SUFFICES ASSUME \A i \in A : \E j \in A : ~(j <= i) PROVE FALSE
  OBVIOUS
<1> DEFINE U == {u \in 0 .. n : \E i \in A : u <= i}
           f == [u \in U |-> u + 1]
<1>1. IsFiniteSet(U)
  <2>1. IsFiniteSet(0 .. n) /\ U \in SUBSET (0 .. n)
    BY FS_Interval
  <2> QED
    BY <2>1, FS_Subset
<1>2. ASSUME NEW u \in U PROVE u + 1 \in U
  <2>1. PICK i \in A : u <= i
    OBVIOUS
  <2>2. PICK j \in A : ~(j <= i)
    OBVIOUS
  <2>3. u + 1 <= j /\ j <= n /\ u \in Nat
    BY <2>1, <2>2
  <2> QED
    BY <2>3
<1>3. f \in Injection(U, U)
  <2>1. f \in [U -> U]
    BY <1>2
  <2>2. \A u, v \in U : f[u] = f[v] => u = v
    OBVIOUS
  <2> QED
    BY <2>1, <2>2 DEF Injection, IsInjective
<1>4. f \in Surjection(U, U)
  BY <1>1, <1>3, FS_Injection
<1>5. 0 \in U
  <2>1. PICK i \in A : i \in Nat
    OBVIOUS
  <2>2. 0 <= i /\ 0 \in 0 .. n
    BY <2>1
  <2> QED
    BY <2>2
<1>6. PICK u \in U : f[u] = 0
  BY <1>4, <1>5 DEF Surjection
<1> QED
  BY <1>6

\* One more line says one thing more, or nothing.
LEMMA MeantStep ==
    ASSUME NEW T, NEW f \in Seq(T), NEW n \in 1 .. Len(f), NEW k, NEW key
    PROVE  Meant(Prefix(f, n), k, key)
              = IF k = BlockOf(f, n) /\ key = f[n].key THEN FieldOf(f[n])
                ELSE Meant(Prefix(f, n - 1), k, key)
<1> DEFINE a == Prefix(f, n - 1)
           b == Prefix(f, n)
           A == LinesOf(a, k, key)
           B == LinesOf(b, k, key)
<1>1. n \in Nat /\ n - 1 \in 0 .. Len(f) /\ n \in 0 .. Len(f) /\ Len(f) \in Nat
  OBVIOUS
<1>2. A = {i \in 1 .. n - 1 : BlockOf(f, i) = k /\ f[i].key = key}
  BY <1>1, LinesPrefix
<1>3. B = {i \in 1 .. n : BlockOf(f, i) = k /\ f[i].key = key}
  BY <1>1, LinesPrefix
<1>4. (\A i \in 1 .. n : b[i] = f[i]) /\ \A i \in 1 .. n - 1 : a[i] = f[i]
  BY <1>1, PrefixFacts
<1>5. /\ Meant(a, k, key) = IF A = {} THEN Uninit
                            ELSE FieldOf(a[CHOOSE i \in A : \A j \in A : j <= i])
      /\ Meant(b, k, key) = IF B = {} THEN Uninit
                            ELSE FieldOf(b[CHOOSE i \in B : \A j \in B : j <= i])
  BY DEF Meant
<1> HIDE DEF a, b, A, B
<1>6. CASE k = BlockOf(f, n) /\ key = f[n].key
  <2>1. n \in B /\ \A j \in B : j <= n
    BY <1>1, <1>3, <1>6
  <2>2. (CHOOSE i \in B : \A j \in B : j <= i) = n
    <3>1. \A i \in B : (\A j \in B : j <= i) => i = n
      BY <1>1, <1>3, <2>1
    <3> QED
      BY <2>1, <3>1
  <2>3. b[n] = f[n] /\ B # {}
    BY <1>1, <1>4, <2>1
  <2>4. Meant(b, k, key) = FieldOf(b[CHOOSE i \in B : \A j \in B : j <= i])
    BY <1>5, <2>3
  <2>5. Meant(b, k, key) = FieldOf(f[n])
    BY <2>2, <2>3, <2>4
  <2> QED
    BY <1>6, <2>5 DEF b
<1>7. CASE ~(k = BlockOf(f, n) /\ key = f[n].key)
  <2>1. A = B
    BY <1>1, <1>2, <1>3, <1>7
  <2>2. CASE A = {}
    <3>1. Meant(a, k, key) = Uninit /\ Meant(b, k, key) = Uninit
      BY <1>5, <2>1, <2>2
    <3> QED
      BY <1>7, <3>1 DEF a, b
  <2>3. CASE A # {} /\ \E i \in A : \A j \in A : j <= i
    <3> DEFINE m == CHOOSE i \in A : \A j \in A : j <= i
    <3>1. m \in A
      BY <2>3
    <3>2. a[m] = b[m]
      <4> HIDE DEF m
      <4> QED
        BY <1>1, <1>2, <1>4, <3>1
    <3>3. Meant(a, k, key) = FieldOf(a[m]) /\ Meant(b, k, key) = FieldOf(b[m])
      BY <1>5, <2>1, <2>3
    <3>4. Meant(a, k, key) = Meant(b, k, key)
      BY <3>2, <3>3
    <3> QED
      BY <1>7, <3>4 DEF a, b
  <2>4. A # {} => \E i \in A : \A j \in A : j <= i
    <3>1. A \in SUBSET Nat /\ (\A i \in A : i <= n)
      BY <1>1, <1>2
    <3> QED
      BY <1>1, <3>1, LastLine
  <2> QED
    BY <2>2, <2>3, <2>4
<1> QED
  BY <1>6, <1>7 DEF a, b

\* Nothing is said of a block that is still to come.
LEMMA MeantLater ==
    ASSUME NEW T, NEW f \in Seq(T), NEW n \in 0 .. Len(f), NEW k, NEW key,
           \A i \in 1 .. n : BlockOf(f, i) # k
    PROVE  Meant(Prefix(f, n), k, key) = Uninit
<1>1. LinesOf(Prefix(f, n), k, key) = {}
  BY LinesPrefix
<1> QED
  BY <1>1 DEF Meant

-----------------------------------------------------------------------------
(***************************************************************************)
(* The fields.                                                             *)
(***************************************************************************)
Field == Kepts(Text) \cup Kepts(Address) \cup 0 .. 9 \cup Seq(Endpoint) \cup {Uninit}

LEMMA FieldType ==
    ASSUME NEW l, IsLine(l)
    PROVE  /\ l.key \in {"errorlog", "cache_size", "cache_replacment", "timeout",
                         "diskname", "mountpoint"} => FieldOf(l) \in Kepts(Text)
           /\ l.key = "hotswap" => FieldOf(l) \in Kepts(Address)
           /\ l.key = "raid" => FieldOf(l) \in 0 .. 9
           /\ l.key = "servers" =>
                 /\ FieldOf(l) \in Seq(Endpoint) /\ l.val \in Seq(Listed)
                 /\ Len(FieldOf(l)) = Len(l.val)
                 /\ \A n \in 1 .. Len(l.val) :
                       /\ FieldOf(l)[n].addr = l.val[n].addr
                       /\ l.nl /\ ~l.val[n].glued => ~FieldOf(l)[n].head /\ ~FieldOf(l)[n].tail
           /\ l.key = "raid" => FieldOf(l) = IF l.nl THEN l.val ELSE 0
           /\ l.key \in BasicKey \cup DiskKey => FieldOf(l) \in Field
<1>1. CASE l.key \in {"errorlog", "cache_size", "cache_replacment", "timeout",
                      "diskname", "mountpoint"}
  <2>1. l.val \in Text /\ l.nl \in BOOLEAN
    BY <1>1 DEF IsLine, ValueOf, BasicKey, DiskKey
  <2>2. FieldOf(l) \in Kepts(Text)
    BY <1>1, <2>1 DEF FieldOf, Kept, Kepts
  <2> QED
    BY <1>1, <2>2 DEF Field
<1>2. CASE l.key = "hotswap"
  <2>1. l.val \in Address /\ l.nl \in BOOLEAN
    BY <1>2 DEF IsLine, ValueOf, BasicKey, DiskKey
  <2>2. FieldOf(l) \in Kepts(Address)
    BY <1>2, <2>1 DEF FieldOf, Kept, Kepts
  <2> QED
    BY <1>2, <2>2 DEF Field
<1>3. CASE l.key = "raid"
  <2>1. l.val \in 0 .. 9 /\ l.nl \in BOOLEAN
    BY <1>3 DEF IsLine, ValueOf, BasicKey, DiskKey
  <2>2. FieldOf(l) \in 0 .. 9 /\ FieldOf(l) = IF l.nl THEN l.val ELSE 0
    BY <1>3, <2>1 DEF FieldOf, IntKept
  <2> QED
    BY <1>3, <2>2 DEF Field
<1>4. CASE l.key = "servers"
  <2> DEFINE v == l.val
             s == FieldOf(l)
  <2>1. v \in Seq(Listed) /\ l.nl \in BOOLEAN
    BY <1>4 DEF IsLine, ValueOf, BasicKey, DiskKey
  <2>2. s = [n \in DOMAIN v |-> [addr |-> v[n].addr, head |-> n > 1 /\ v[n].glued,
                                 tail |-> n = Len(v) /\ ~l.nl]]
    BY <1>4 DEF FieldOf, ServersKept
  <2> HIDE DEF v, s
  <2>3. DOMAIN v = 1 .. Len(v) /\ Len(v) \in Nat
    BY <2>1
  <2>4. ASSUME NEW n \in 1 .. Len(v) PROVE s[n] \in Endpoint
    <3> DEFINE head == n > 1 /\ v[n].glued
               tail == n = Len(v) /\ ~l.nl
    <3>1. v[n].addr \in Address
      <4>1. v[n] \in Listed
        BY <2>1
      <4> QED
        BY <4>1 DEF Listed
    <3>2. head \in BOOLEAN /\ tail \in BOOLEAN
      OBVIOUS
    <3>3. s[n] = [addr |-> v[n].addr, head |-> head, tail |-> tail]
      BY <2>2, <2>3
    <3> HIDE DEF head, tail
    <3> QED
      BY <3>1, <3>2, <3>3 DEF Endpoint
  <2>5. s \in Seq(Endpoint) /\ Len(s) = Len(v)
    <3>1. DOMAIN s = 1 .. Len(v) /\ s = [n \in 1 .. Len(v) |-> s[n]]
      BY <2>2, <2>3
    <3> QED
      BY <2>3, <2>4, <3>1
  <2>6. \A n \in 1 .. Len(v) :
           /\ s[n].addr = v[n].addr
           /\ l.nl /\ ~v[n].glued => ~s[n].head /\ ~s[n].tail
    BY <2>2, <2>3
  <2> QED
    BY <1>4, <2>1, <2>5, <2>6 DEF Field, v, s
<1>5. CASE l.key \notin BasicKey \cup DiskKey
  BY <1>5 DEF BasicKey, DiskKey
<1> QED
  BY <1>1, <1>2, <1>3, <1>4, <1>5 DEF BasicKey, DiskKey

-----------------------------------------------------------------------------
(***************************************************************************)
(* The inductive invariant.                                                *)
(***************************************************************************)
At == {"start", "connect", "mounted", "failed", "done", "crashed"}

ChildRec == [disk : Nat, at : At, raid : 0 .. 9 \cup {Uninit},
             sfd : Seq([addr : Endpoint, up : BOOLEAN])]

\* The disk of block k of a file, as far as it is read
IsParsed(f, d, k) == \A key \in DiskKey : d[key] = Meant(f, k, key)

\* What is parsed: the block that is read is one the list has, or the next one.
Parsed ==
    /\ file \in File /\ pos \in 1 .. Len(file) + 1
    /\ disks \in Seq([DiskKey -> Field])
    /\ basic \in [BasicKey -> Field]
    /\ nblock = BlockOf(file, pos)
    /\ Len(disks) = IF pos = 1 \/ BlockOf(file, pos - 1) = 0 THEN 1
                    ELSE BlockOf(file, pos - 1)
    /\ \A k \in 1 .. Len(disks) : IsParsed(Prefix(file, pos - 1), disks[k], k)
    /\ \A key \in BasicKey : basic[key] = Meant(Prefix(file, pos - 1), 0, key)

\* Where the parent is.
Parent ==
    /\ pc \in {"parse", "mount", "exited", "crashed"}
    /\ pc = "parse" => child = <<>> /\ mountN = 0
    /\ pc # "parse" => pos = Len(file) + 1
    /\ mountN \in 0 .. Len(disks)
    /\ faults \in 0 .. MaxFaults
    /\ missed \subseteq 1 .. mountN

\* A child has the raid of its disk, or any if nobody set it, and the addresses
\* of its sockets are the first of its disk's servers.
ChildOf(ch, d) ==
    /\ ch.at = "start" => ch.sfd = <<>>
    /\ ch.at \in {"connect", "mounted"} =>
          /\ ch.raid \in {1, 5}
          /\ d.raid # Uninit => ch.raid = d.raid
          /\ d.servers # Uninit
          /\ Len(ch.sfd) <= Len(d.servers)
          /\ \A n \in 1 .. Len(ch.sfd) : ch.sfd[n].addr = d.servers[n]
    /\ ch.at = "mounted" => Len(ch.sfd) = Len(d.servers)

Children ==
    /\ child \in Seq(ChildRec)
    /\ \A c \in 1 .. Len(child) :
          child[c].disk \in 1 .. mountN /\ ChildOf(child[c], disks[child[c].disk])
    /\ \A c, e \in 1 .. Len(child) : c < e => child[c].disk < child[e].disk

Inv == Parsed /\ Parent /\ Children

LEMMA FileFacts ==
    ASSUME NEW f \in File
    PROVE  /\ f \in Seq({f[i] : i \in DOMAIN f}) /\ Len(f) \in Nat
           /\ \A i \in 1 .. Len(f) : IsLine(f[i])
BY MountStartAssumption

LEMMA KeysApart == BasicKey \cap DiskKey = {} /\ "blank" \notin BasicKey \cup DiskKey
BY DEF BasicKey, DiskKey

\* The disk the next line is about is there, with what its block says so far.
LEMMA RoomFacts ==
    ASSUME Parsed, pos <= Len(file), nblock # 0
    PROVE  /\ Room \in Seq([DiskKey -> Field]) /\ Len(Room) = nblock /\ nblock \in Nat
           /\ \A k \in 1 .. nblock : IsParsed(Prefix(file, pos - 1), Room[k], k)
<1> DEFINE n == pos
           p == BlockOf(file, n - 1)
           T == {file[i] : i \in DOMAIN file}
<1>1. /\ file \in Seq(T) /\ n \in Nat \ {0} /\ n <= Len(file) /\ Len(file) \in Nat
      /\ n - 1 \in 0 .. Len(file) /\ disks \in Seq([DiskKey -> Field])
  BY FileFacts DEF Parsed
<1>2. nblock = BlockOf(file, n) /\ nblock \in Nat
  BY <1>1, BlockType DEF Parsed
<1>3. n # 1
  BY <1>2, BlockFirst
<1>4. n - 1 \in Nat \ {0} /\ (n - 1) + 1 = n
  BY <1>1, <1>3
<1>5. p \in Nat /\ nblock \in {p, p + 1}
  <2>1. p \in Nat
    BY <1>4, BlockType
  <2>2. BlockOf(file, (n - 1) + 1) \in {p, p + 1}
    BY <1>4, BlockStep
  <2> QED
    BY <1>2, <1>4, <2>1, <2>2
<1>6. /\ Len(disks) = IF p = 0 THEN 1 ELSE p
      /\ \A k \in 1 .. Len(disks) : IsParsed(Prefix(file, n - 1), disks[k], k)
  BY <1>3 DEF Parsed
<1> HIDE DEF p
<1>7. CASE ~(nblock > Len(disks))
  <2>1. Len(disks) = nblock
    BY <1>2, <1>5, <1>6, <1>7
  <2> QED
    BY <1>1, <1>2, <1>6, <1>7, <2>1 DEF Room
<1>8. CASE nblock > Len(disks)
  <2>1. Room = Append(disks, NewDisk) /\ p # 0 /\ nblock = Len(disks) + 1 /\ nblock = p + 1
    BY <1>1, <1>5, <1>6, <1>8 DEF Room
  <2>2. NewDisk \in [DiskKey -> Field]
    BY DEF NewDisk, Field
  <2>3. /\ Room \in Seq([DiskKey -> Field]) /\ Len(Room) = nblock
        /\ \A k \in 1 .. Len(disks) : Room[k] = disks[k]
        /\ Room[nblock] = NewDisk
    BY <1>1, <2>1, <2>2
  <2>4. ASSUME NEW i \in 1 .. n - 1 PROVE BlockOf(file, i) # nblock
    <3>1. i \in Nat \ {0} /\ i <= n - 1
      BY <1>1
    <3>2. BlockOf(file, i) <= p /\ BlockOf(file, i) \in Nat
      BY <1>4, <3>1, BlockMonotonic, BlockType DEF p
    <3> QED
      BY <1>5, <2>1, <3>2
  <2>5. IsParsed(Prefix(file, n - 1), Room[nblock], nblock)
    <3>1. \A key : Meant(Prefix(file, n - 1), nblock, key) = Uninit
      BY <1>1, <2>4, MeantLater
    <3>2. \A key \in DiskKey : Room[nblock][key] = Uninit
      BY <2>3 DEF NewDisk
    <3> QED
      BY <3>1, <3>2 DEF IsParsed
  <2>6. ASSUME NEW k \in 1 .. nblock PROVE IsParsed(Prefix(file, n - 1), Room[k], k)
    <3>1. k = nblock \/ k \in 1 .. Len(disks)
      BY <1>2, <2>1
    <3> QED
      BY <1>6, <2>3, <2>5, <3>1
  <2> QED
    BY <1>2, <2>3, <2>6
<1> QED
  BY <1>7, <1>8

LEMMA ReadLineParsed ==
    ASSUME Parsed, ReadLine
    PROVE  Parsed'
<1> DEFINE n == pos
           l == file[n]
           T == {file[i] : i \in DOMAIN file}
           a == Prefix(file, n - 1)
           b == Prefix(file, n)
<1>1. /\ file \in Seq(T) /\ n \in 1 .. Len(file) /\ n \in Nat \ {0} /\ Len(file) \in Nat
      /\ IsLine(l) /\ file \in File
  <2>1. file \in File /\ n \in 1 .. Len(file) + 1 /\ n <= Len(file)
    BY DEF Parsed, ReadLine
  <2>2. /\ file \in Seq(T) /\ Len(file) \in Nat
        /\ \A i \in 1 .. Len(file) : IsLine(file[i])
    BY <2>1, FileFacts
  <2> HIDE DEF T
  <2> QED
    BY <2>1, <2>2
<1>2. nblock = BlockOf(file, n) /\ nblock \in Nat
  BY <1>1, BlockType DEF Parsed
<1>3. file' = file /\ pos' = n + 1 /\ pos' - 1 = n /\ pos' # 1 /\ pos' \in 1 .. Len(file) + 1
  BY <1>1 DEF ReadLine
<1>4. nblock' = BlockOf(file, n + 1)
  BY <1>1, <1>2, BlockStep DEF ReadLine
<1>5. \A k, key : Meant(b, k, key) = IF k = nblock /\ key = l.key THEN FieldOf(l)
                                     ELSE Meant(a, k, key)
  BY <1>1, <1>2, MeantStep
<1>6. \A key \in BasicKey : basic[key] = Meant(a, 0, key)
  BY DEF Parsed
<1>7. l.key \in BasicKey \cup DiskKey => FieldOf(l) \in Field
  BY <1>1, FieldType
<1>8. basic \in [BasicKey -> Field] /\ disks \in Seq([DiskKey -> Field])
  BY DEF Parsed
<1>9. SUFFICES /\ disks' \in Seq([DiskKey -> Field])
               /\ basic' \in [BasicKey -> Field]
               /\ Len(disks') = IF nblock = 0 THEN 1 ELSE nblock
               /\ \A k \in 1 .. Len(disks') : IsParsed(b, disks'[k], k)
               /\ \A key \in BasicKey : basic'[key] = Meant(b, 0, key)
  BY <1>1, <1>2, <1>3, <1>4, <1>9 DEF Parsed, IsParsed
<1> HIDE DEF a, b
<1>10. CASE nblock = 0
  <2>1. disks' = disks /\ basic' = HandleBasic(l)
    BY <1>10 DEF ReadLine
  <2>2. Len(disks) = 1 /\ \A k \in 1 .. Len(disks) : IsParsed(a, disks[k], k)
    <3>1. n = 1 \/ BlockOf(file, n - 1) = 0
      <4> SUFFICES ASSUME n # 1 PROVE BlockOf(file, n - 1) = 0
        OBVIOUS
      <4>1. n - 1 \in Nat \ {0} /\ n - 1 <= n
        BY <1>1
      <4>2. BlockOf(file, n - 1) <= 0 /\ BlockOf(file, n - 1) \in Nat
        BY <1>1, <1>2, <1>10, <4>1, BlockMonotonic, BlockType
      <4> QED
        BY <4>2
    <3> QED
      BY <3>1 DEF Parsed, a
  <2>3. \A k \in 1 .. 1 : IsParsed(b, disks[k], k)
    BY <1>5, <1>10, <2>2 DEF IsParsed
  <2>4. basic' \in [BasicKey -> Field] /\ \A key \in BasicKey : basic'[key] = Meant(b, 0, key)
    <3>1. CASE l.key \in BasicKey
      <4>1. basic' = [basic EXCEPT ![l.key] = FieldOf(l)]
        BY <2>1, <3>1 DEF HandleBasic
      <4> QED
        BY <1>5, <1>6, <1>7, <1>8, <1>10, <3>1, <4>1
    <3>2. CASE l.key \notin BasicKey
      <4>1. basic' = basic
        BY <2>1, <3>2 DEF HandleBasic
      <4> QED
        BY <1>5, <1>6, <1>8, <3>2, <4>1
    <3> QED
      BY <3>1, <3>2
  <2> QED
    BY <1>8, <1>10, <2>1, <2>2, <2>3, <2>4
<1>11. CASE nblock # 0
  <2>1. disks' = HandleDisks(l) /\ basic' = basic
    BY <1>11 DEF ReadLine
  <2>2. \A key \in BasicKey : basic[key] = Meant(b, 0, key)
    BY <1>5, <1>6, <1>11
  <2> DEFINE room == Room
  <2>3. /\ room \in Seq([DiskKey -> Field]) /\ Len(room) = nblock
        /\ \A k \in 1 .. nblock : IsParsed(a, room[k], k)
    BY <1>1, <1>11, RoomFacts DEF a
  <2>4. disks' = IF l.key \in DiskKey THEN [room EXCEPT ![nblock][l.key] = FieldOf(l)] ELSE room
    BY <2>1 DEF HandleDisks
  <2> HIDE DEF room
  <2>5. CASE l.key \in DiskKey
    <3> DEFINE d == [room[nblock] EXCEPT ![l.key] = FieldOf(l)]
    <3>1. nblock \in 1 .. nblock /\ room[nblock] \in [DiskKey -> Field]
      BY <1>2, <1>11, <2>3
    <3>2. d \in [DiskKey -> Field] /\ d[l.key] = FieldOf(l)
          /\ \A key \in DiskKey : key # l.key => d[key] = room[nblock][key]
      BY <1>7, <2>5, <3>1
    <3>3. disks' = [room EXCEPT ![nblock] = d]
      BY <2>4, <2>5
    <3> HIDE DEF d
    <3>4. /\ disks' \in Seq([DiskKey -> Field]) /\ Len(disks') = nblock
          /\ disks'[nblock] = d
          /\ \A k \in 1 .. nblock : k # nblock => disks'[k] = room[k]
      BY <2>3, <3>1, <3>2, <3>3
    <3>5. ASSUME NEW k \in 1 .. nblock PROVE IsParsed(b, disks'[k], k)
      <4>1. CASE k = nblock
        BY <1>5, <2>3, <3>2, <3>4, <4>1 DEF IsParsed
      <4>2. CASE k # nblock
        BY <1>5, <2>3, <3>4, <4>2 DEF IsParsed
      <4> QED
        BY <4>1, <4>2
    <3> QED
      BY <1>8, <1>11, <2>1, <2>2, <3>4, <3>5
  <2>6. CASE l.key \notin DiskKey
    <3>1. disks' = room
      BY <2>4, <2>6
    <3>2. \A k \in 1 .. nblock : IsParsed(b, room[k], k)
      BY <1>5, <2>3, <2>6 DEF IsParsed
    <3> QED
      BY <1>8, <1>11, <2>1, <2>2, <2>3, <3>1, <3>2
  <2> QED
    BY <2>5, <2>6
<1> QED
  BY <1>10, <1>11

LEMMA InvInit == Init => Inv
<1> SUFFICES ASSUME Init PROVE Inv
  OBVIOUS
<1> DEFINE T == {file[i] : i \in DOMAIN file}
<1>1. file \in File /\ file \in Seq(T) /\ Len(file) \in Nat
  BY FileFacts DEF Init
<1>2. pos = 1 /\ pos - 1 = 0 /\ nblock = BlockOf(file, pos)
  BY BlockFirst DEF Init
<1>3. ASSUME NEW k, NEW key PROVE Meant(Prefix(file, 0), k, key) = Uninit
  <2>1. 0 \in 0 .. Len(file) /\ \A i \in 1 .. 0 : BlockOf(file, i) # k
    BY <1>1
  <2> QED
    BY <1>1, <2>1, MeantLater
<1>4. disks = <<NewDisk>> /\ NewDisk \in [DiskKey -> Field]
  BY DEF Init, NewDisk, Field
<1>5. /\ disks \in Seq([DiskKey -> Field]) /\ Len(disks) = 1 /\ disks[1] = NewDisk
  BY <1>4
<1>6. basic \in [BasicKey -> Field] /\ \A key \in BasicKey : basic[key] = Uninit
  BY DEF Init, Field
<1>7. IsParsed(Prefix(file, 0), NewDisk, 1)
  BY <1>3 DEF IsParsed, NewDisk
<1>8. Parsed
  BY <1>1, <1>2, <1>3, <1>5, <1>6, <1>7 DEF Parsed
<1>9. Parent
  BY <1>5, MountStartAssumption DEF Parent, Init
<1>10. Children
  BY DEF Children, Init
<1> QED
  BY <1>8, <1>9, <1>10 DEF Inv

LEMMA ParsedSame == Parsed /\ UNCHANGED <<file, pos, nblock, basic, disks>> => Parsed'
BY DEF Parsed, IsParsed

LEMMA ReadLineInv == Inv /\ ReadLine => Inv'
<1> SUFFICES ASSUME Inv, ReadLine PROVE Inv'
  OBVIOUS
<1>1. Parsed'
  BY ReadLineParsed DEF Inv
<1>2. /\ pc = "parse" /\ child = <<>> /\ mountN = 0
      /\ UNCHANGED <<pc, mountN, child, faults, missed>>
  BY DEF Inv, Parent, ReadLine
<1>3. Len(disks') \in Nat
  BY <1>1 DEF Parsed
<1>4. Parent'
  BY <1>2, <1>3 DEF Inv, Parent
<1>5. Children'
  BY <1>2 DEF Children
<1> QED
  BY <1>1, <1>4, <1>5 DEF Inv

LEMMA ParseEndInv == Inv /\ ParseEnd => Inv'
<1> SUFFICES ASSUME Inv, ParseEnd PROVE Inv'
  OBVIOUS
<1>1. /\ pc' = "mount" /\ pos > Len(file)
      /\ UNCHANGED <<file, pos, nblock, basic, disks, mountN, child, faults, missed>>
  BY DEF ParseEnd
<1>2. Parsed'
  BY <1>1, ParsedSame DEF Inv
<1>3. pos = Len(file) + 1
  <2>1. Len(file) \in Nat /\ pos \in 1 .. Len(file) + 1
    BY FileFacts DEF Inv, Parsed
  <2> QED
    BY <1>1, <2>1
<1>4. Parent' /\ Children'
  BY <1>1, <1>3 DEF Inv, Parent, Children, ChildOf
<1> QED
  BY <1>2, <1>4 DEF Inv

LEMMA ForkInv == Inv /\ Fork => Inv'
<1> SUFFICES ASSUME Inv, Fork PROVE Inv'
  OBVIOUS
<1> DEFINE new == NewChild(mountN + 1)
<1>1. /\ pc = "mount" /\ mountN < Len(disks) /\ child' = Append(child, new)
      /\ mountN' = mountN + 1
      /\ UNCHANGED <<file, pc, pos, nblock, basic, disks, faults, missed>>
  BY DEF Fork
<1>2. Parsed'
  BY <1>1, ParsedSame DEF Inv
<1>3. mountN \in Nat /\ Len(disks) \in Nat /\ mountN + 1 \in 1 .. Len(disks)
  BY <1>1 DEF Inv, Parsed, Parent
<1>4. Parent'
  BY <1>1, <1>3 DEF Inv, Parent
<1>5. new = [disk |-> mountN + 1, at |-> "start", raid |-> Uninit, sfd |-> <<>>]
  BY DEF NewChild
<1> HIDE DEF new
<1>6. new \in ChildRec /\ new.disk = mountN + 1 /\ \A d : ChildOf(new, d)
  <2>1. <<>> \in Seq([addr : Endpoint, up : BOOLEAN])
    OBVIOUS
  <2> QED
    BY <1>3, <1>5, <2>1 DEF ChildRec, At, ChildOf
<1>7. /\ child \in Seq(ChildRec)
      /\ \A c \in 1 .. Len(child) :
            child[c].disk \in 1 .. mountN /\ ChildOf(child[c], disks[child[c].disk])
      /\ \A c, e \in 1 .. Len(child) : c < e => child[c].disk < child[e].disk
  BY DEF Inv, Children
<1>8. /\ child' \in Seq(ChildRec) /\ Len(child') = Len(child) + 1 /\ Len(child) \in Nat
      /\ \A c \in 1 .. Len(child) : child'[c] = child[c]
      /\ child'[Len(child) + 1] = new
  BY <1>1, <1>6, <1>7
<1>9. ASSUME NEW c \in 1 .. Len(child')
      PROVE  child'[c].disk \in 1 .. mountN' /\ ChildOf(child'[c], disks'[child'[c].disk])
  <2>1. CASE c = Len(child) + 1
    BY <1>1, <1>3, <1>6, <1>8, <2>1
  <2>2. CASE c # Len(child) + 1
    <3>1. c \in 1 .. Len(child)
      BY <1>8, <2>2
    <3>2. child'[c] = child[c] /\ child[c].disk \in 1 .. mountN
          /\ ChildOf(child[c], disks[child[c].disk])
      BY <1>7, <1>8, <3>1
    <3> QED
      BY <1>1, <1>3, <3>2
  <2> QED
    BY <2>1, <2>2
<1>10. ASSUME NEW c \in 1 .. Len(child'), NEW e \in 1 .. Len(child'), c < e
       PROVE  child'[c].disk < child'[e].disk
  <2>1. c \in 1 .. Len(child)
    BY <1>8, <1>10
  <2>2. CASE e = Len(child) + 1
    BY <1>3, <1>6, <1>7, <1>8, <2>1, <2>2
  <2>3. CASE e # Len(child) + 1
    <3>1. e \in 1 .. Len(child)
      BY <1>8, <2>3
    <3> QED
      BY <1>7, <1>8, <1>10, <2>1, <3>1
  <2> QED
    BY <2>2, <2>3
<1>11. Children'
  BY <1>8, <1>9, <1>10 DEF Children
<1> QED
  BY <1>2, <1>4, <1>11 DEF Inv

LEMMA ForkFailsInv == Inv /\ ForkFails => Inv'
<1> SUFFICES ASSUME Inv, ForkFails PROVE Inv'
  OBVIOUS
<1>1. /\ pc = "mount" /\ mountN < Len(disks) /\ mountN' = mountN + 1
      /\ faults < MaxFaults /\ faults' = faults + 1
      /\ missed' = missed \cup {mountN + 1}
      /\ UNCHANGED <<file, pc, pos, nblock, basic, disks, child>>
  BY DEF ForkFails
<1>2. Parsed'
  BY <1>1, ParsedSame DEF Inv
<1>3. mountN \in Nat /\ Len(disks) \in Nat /\ mountN + 1 \in 1 .. Len(disks)
  BY <1>1 DEF Inv, Parsed, Parent
<1>4. Parent'
  <2>1. faults' \in 0 .. MaxFaults
    BY <1>1, MountStartAssumption DEF Inv, Parent
  <2>2. missed' \subseteq 1 .. mountN'
    BY <1>1, <1>3 DEF Inv, Parent
  <2> QED
    BY <1>1, <1>3, <2>1, <2>2 DEF Inv, Parent
<1>5. Children'
  <2>1. \A k \in 1 .. mountN : k \in 1 .. mountN'
    BY <1>1, <1>3
  <2> QED
    BY <1>1, <2>1 DEF Inv, Children
<1> QED
  BY <1>2, <1>4, <1>5 DEF Inv

LEMMA ParentEndInv == Inv /\ ParentEnd => Inv'
<1> SUFFICES ASSUME Inv, ParentEnd PROVE Inv'
  OBVIOUS
<1>1. /\ pc = "mount" /\ pc' \in {"exited", "crashed"}
      /\ UNCHANGED <<file, pos, nblock, basic, disks, mountN, child, faults, missed>>
  BY DEF ParentEnd, Outcomes
<1>2. Parsed'
  BY <1>1, ParsedSame DEF Inv
<1>3. Parent'
  BY <1>1 DEF Inv, Parent
<1>4. Children'
  BY <1>1 DEF Inv, Children
<1> QED
  BY <1>2, <1>3, <1>4 DEF Inv

\* One child goes on.
LEMMA ChildGoesInv ==
    ASSUME Inv, NEW c \in 1 .. Len(child), NEW new, ChildGoes(c, new),
           new \in ChildRec, new.disk = child[c].disk, ChildOf(new, Disk(c))
    PROVE  Inv'
<1>1. /\ child' = [child EXCEPT ![c] = new]
      /\ UNCHANGED <<file, pc, pos, nblock, basic, disks, mountN, faults, missed>>
  BY DEF ChildGoes
<1>2. /\ child \in Seq(ChildRec) /\ Len(child) \in Nat
      /\ \A d \in 1 .. Len(child) :
            child[d].disk \in 1 .. mountN /\ ChildOf(child[d], disks[child[d].disk])
      /\ \A d, e \in 1 .. Len(child) : d < e => child[d].disk < child[e].disk
  BY DEF Inv, Children
<1>3. /\ child' \in Seq(ChildRec) /\ Len(child') = Len(child) /\ child'[c] = new
      /\ \A d \in 1 .. Len(child) : d # c => child'[d] = child[d]
  BY <1>1, <1>2
<1>4. \A d \in 1 .. Len(child) : child'[d].disk = child[d].disk
  BY <1>3
<1>5. ASSUME NEW d \in 1 .. Len(child')
      PROVE  child'[d].disk \in 1 .. mountN' /\ ChildOf(child'[d], disks'[child'[d].disk])
  <2>1. CASE d = c
    BY <1>1, <1>2, <1>3, <2>1 DEF Disk
  <2>2. CASE d # c
    BY <1>1, <1>2, <1>3, <2>2
  <2> QED
    BY <2>1, <2>2
<1>6. Children'
  BY <1>2, <1>3, <1>4, <1>5 DEF Children
<1>7. Parsed'
  BY <1>1, ParsedSame DEF Inv
<1>8. Parent'
  <2>1. pc # "parse"
    BY <1>2 DEF Inv, Parent
  <2> QED
    BY <1>1, <2>1 DEF Inv, Parent
<1> QED
  BY <1>6, <1>7, <1>8 DEF Inv

\* What a child's disk may hold
LEMMA DiskType ==
    ASSUME Inv, NEW c \in 1 .. Len(child)
    PROVE  child[c] \in ChildRec /\ Disk(c) \in [DiskKey -> Field] /\ ChildOf(child[c], Disk(c))
<1>1. child[c] \in ChildRec /\ child[c].disk \in 1 .. mountN /\ ChildOf(child[c], Disk(c))
  BY DEF Inv, Children, Disk
<1>2. mountN \in 0 .. Len(disks) /\ disks \in Seq([DiskKey -> Field])
  BY DEF Inv, Parent, Parsed
<1>3. child[c].disk \in 1 .. Len(disks)
  BY <1>1, <1>2
<1> QED
  BY <1>1, <1>2, <1>3 DEF Disk

\* What a file says of a key is the value of the last line that has it.
LEMMA MeantCases ==
    ASSUME NEW f \in File, NEW n \in 0 .. Len(f), NEW k, NEW key
    PROVE  \/ LinesOf(Prefix(f, n), k, key) = {} /\ Meant(Prefix(f, n), k, key) = Uninit
           \/ \E m \in 1 .. Len(f) :
                 /\ m = CHOOSE i \in LinesOf(Prefix(f, n), k, key) :
                            \A j \in LinesOf(Prefix(f, n), k, key) : j <= i
                 /\ m \in LinesOf(Prefix(f, n), k, key)
                 /\ \A j \in LinesOf(Prefix(f, n), k, key) : j <= m
                 /\ IsLine(f[m]) /\ f[m].key = key
                 /\ Meant(Prefix(f, n), k, key) = FieldOf(f[m])
<1> DEFINE T == {f[i] : i \in DOMAIN f}
           a == Prefix(f, n)
           is == LinesOf(a, k, key)
           m == CHOOSE i \in is : \A j \in is : j <= i
<1>1. f \in Seq(T) /\ Len(f) \in Nat /\ \A i \in 1 .. Len(f) : IsLine(f[i])
  BY FileFacts
<1>2. is = {i \in 1 .. n : BlockOf(f, i) = k /\ f[i].key = key}
  <2> HIDE DEF T
  <2> QED
    BY <1>1, LinesPrefix
<1>3. Meant(a, k, key) = IF is = {} THEN Uninit ELSE FieldOf(a[m])
  BY DEF Meant
<1>4. \A i \in 1 .. n : a[i] = f[i]
  <2> HIDE DEF T
  <2> QED
    BY <1>1, PrefixFacts
<1>5. n \in Nat /\ n <= Len(f)
  BY <1>1
<1> HIDE DEF a, is
<1>6. CASE is = {}
  BY <1>3, <1>6 DEF a, is
<1>7. CASE is # {}
  <2>1. \E i \in is : \A j \in is : j <= i
    <3>1. is \in SUBSET Nat /\ \A i \in is : i <= n
      BY <1>2, <1>5
    <3> QED
      BY <1>5, <1>7, <3>1, LastLine
  <2>2. m \in is /\ \A j \in is : j <= m
    BY <2>1
  <2>3. Meant(a, k, key) = FieldOf(a[m])
    BY <1>3, <1>7
  <2> HIDE DEF m
  <2>4. m \in 1 .. n /\ m \in 1 .. Len(f) /\ f[m].key = key
    BY <1>2, <1>5, <2>2
  <2>5. IsLine(f[m]) /\ Meant(a, k, key) = FieldOf(f[m])
    BY <1>1, <1>4, <2>3, <2>4
  <2> QED
    BY <2>2, <2>4, <2>5 DEF a, is, m
<1> QED
  BY <1>6, <1>7

LEMMA MeantType ==
    ASSUME NEW f \in File, NEW n \in 0 .. Len(f), NEW k, NEW key
    PROVE  LET v == Meant(Prefix(f, n), k, key) IN
           /\ key \in {"errorlog", "cache_size", "cache_replacment", "timeout",
                       "diskname", "mountpoint"} => v \in Kepts(Text) \cup {Uninit}
           /\ key = "hotswap" => v \in Kepts(Address) \cup {Uninit}
           /\ key = "raid" => v \in 0 .. 9 \cup {Uninit}
           /\ key = "servers" => v \in Seq(Endpoint) \cup {Uninit}
<1> DEFINE v == Meant(Prefix(f, n), k, key)
<1>1. v = Uninit \/ \E m \in 1 .. Len(f) : IsLine(f[m]) /\ f[m].key = key /\ v = FieldOf(f[m])
  BY MeantCases
<1> HIDE DEF v
<1>2. CASE v = Uninit
  BY <1>2 DEF v
<1>3. CASE v # Uninit
  <2>1. PICK m \in 1 .. Len(f) : IsLine(f[m]) /\ f[m].key = key /\ v = FieldOf(f[m])
    BY <1>1, <1>3
  <2> QED
    BY <2>1, FieldType DEF v
<1> QED
  BY <1>2, <1>3

LEMMA DisksType ==
    ASSUME Parsed, NEW k \in 1 .. Len(disks)
    PROVE  /\ disks[k] \in [DiskKey -> Field]
           /\ disks[k].raid \in 0 .. 9 \cup {Uninit}
           /\ disks[k].servers \in Seq(Endpoint) \cup {Uninit}
           /\ disks[k].hotswap \in Kepts(Address) \cup {Uninit}
           /\ disks[k].diskname \in Kepts(Text) \cup {Uninit}
           /\ disks[k].mountpoint \in Kepts(Text) \cup {Uninit}
<1>1. file \in File /\ pos - 1 \in 0 .. Len(file)
  <2>1. file \in File /\ pos \in 1 .. Len(file) + 1
    BY DEF Parsed
  <2>2. Len(file) \in Nat
    BY <2>1, FileFacts
  <2> QED
    BY <2>1, <2>2
<1>2. \A key \in DiskKey : disks[k][key] = Meant(Prefix(file, pos - 1), k, key)
  BY DEF Parsed, IsParsed
<1>3. disks[k] \in [DiskKey -> Field]
  BY DEF Parsed
<1>4. disks[k].raid \in 0 .. 9 \cup {Uninit}
  BY <1>1, <1>2, MeantType DEF DiskKey
<1>5. disks[k].servers \in Seq(Endpoint) \cup {Uninit}
  BY <1>1, <1>2, MeantType DEF DiskKey
<1>6. disks[k].hotswap \in Kepts(Address) \cup {Uninit}
  BY <1>1, <1>2, MeantType DEF DiskKey
<1>7. disks[k].diskname \in Kepts(Text) \cup {Uninit}
      /\ disks[k].mountpoint \in Kepts(Text) \cup {Uninit}
  BY <1>1, <1>2, MeantType DEF DiskKey
<1> QED
  BY <1>3, <1>4, <1>5, <1>6, <1>7

LEMMA AtFields ==
    ASSUME NEW h \in ChildRec, NEW at
    PROVE  [h EXCEPT !.at = at]
              = [disk |-> h.disk, at |-> at, raid |-> h.raid, sfd |-> h.sfd]
<1>1. PICK k, a, q, s : h = [disk |-> k, at |-> a, raid |-> q, sfd |-> s]
  BY DEF ChildRec
<1>2. [[disk |-> k, at |-> a, raid |-> q, sfd |-> s] EXCEPT !.at = at]
         = [disk |-> k, at |-> at, raid |-> q, sfd |-> s]
  OBVIOUS
<1> QED
  BY <1>1, <1>2

LEMMA RaidFields ==
    ASSUME NEW h \in ChildRec, NEW at, NEW r
    PROVE  [h EXCEPT !.at = at, !.raid = r]
              = [disk |-> h.disk, at |-> at, raid |-> r, sfd |-> h.sfd]
<1> DEFINE g == [disk |-> h.disk, at |-> at, raid |-> h.raid, sfd |-> h.sfd]
<1>1. [h EXCEPT !.at = at, !.raid = r] = [[h EXCEPT !.at = at] EXCEPT !.raid = r]
  OBVIOUS
<1>2. [g EXCEPT !.raid = r] = [disk |-> h.disk, at |-> at, raid |-> r, sfd |-> h.sfd]
  OBVIOUS
<1>3. [h EXCEPT !.at = at] = g
  BY AtFields
<1> QED
  BY <1>1, <1>2, <1>3

LEMMA AtSfdFields ==
    ASSUME NEW h \in ChildRec, NEW at, NEW t
    PROVE  [h EXCEPT !.at = at, !.sfd = t]
              = [disk |-> h.disk, at |-> at, raid |-> h.raid, sfd |-> t]
<1> DEFINE g == [disk |-> h.disk, at |-> at, raid |-> h.raid, sfd |-> h.sfd]
<1>1. [h EXCEPT !.at = at, !.sfd = t] = [[h EXCEPT !.at = at] EXCEPT !.sfd = t]
  OBVIOUS
<1>2. [g EXCEPT !.sfd = t] = [disk |-> h.disk, at |-> at, raid |-> h.raid, sfd |-> t]
  OBVIOUS
<1>3. [h EXCEPT !.at = at] = g
  BY AtFields
<1> QED
  BY <1>1, <1>2, <1>3

LEMMA ChildStartInv ==
    ASSUME Inv, NEW c \in 1 .. Len(child), ChildStart(c)
    PROVE  Inv'
<1> DEFINE d == Disk(c)
<1>1. child[c] \in ChildRec /\ ChildOf(child[c], d) /\ child[c].at = "start"
  BY DiskType DEF ChildStart
<1>2. d.raid \in 0 .. 9 \cup {Uninit}
  <2>1. child[c].disk \in 1 .. mountN /\ mountN \in 0 .. Len(disks) /\ Len(disks) \in Nat
        /\ Parsed
    BY DEF Inv, Children, Parent, Parsed
  <2>2. child[c].disk \in 1 .. Len(disks)
    BY <2>1
  <2> QED
    BY <2>1, <2>2, DisksType DEF Disk
<1>3. PICK r \in RaidOf(d) :
           LET at == IF r \notin {1, 5} THEN "done"
                     ELSE IF d.servers = Uninit THEN "crashed"
                     ELSE IF r = 5 /\ Len(d.servers) = 1 THEN "crashed"
                     ELSE "connect"
           IN ChildGoes(c, [child[c] EXCEPT !.at = at, !.raid = r])
  BY DEF ChildStart
<1>4. PICK at \in {"done", "crashed", "connect"} :
           /\ at = "connect" => r \in {1, 5} /\ d.servers # Uninit
           /\ ChildGoes(c, [child[c] EXCEPT !.at = at, !.raid = r])
  BY <1>3
<1>5. r \in 0 .. 9 /\ (d.raid # Uninit => r = d.raid)
  BY <1>2 DEF RaidOf
<1> DEFINE new == [child[c] EXCEPT !.at = at, !.raid = r]
<1>6. new = [disk |-> child[c].disk, at |-> at, raid |-> r, sfd |-> child[c].sfd]
  <2> DEFINE h == child[c]
  <2>1. h \in ChildRec
    BY <1>1
  <2> HIDE DEF h
  <2> QED
    BY <2>1, RaidFields DEF h
<1>7. child[c].sfd = <<>>
  BY <1>1 DEF ChildOf
<1> HIDE DEF new, d
<1>8. new \in ChildRec /\ new.disk = child[c].disk
  BY <1>1, <1>5, <1>6 DEF ChildRec, At
<1>9. ChildOf(new, d)
  <2>1. /\ new.at = at /\ at # "start" /\ at # "mounted" /\ new.sfd = <<>> /\ new.raid = r
    BY <1>6, <1>7
  <2>2. (d.servers # Uninit /\ d.servers \in Seq(Endpoint)) \/ at # "connect"
    <3>1. child[c].disk \in 1 .. mountN /\ mountN \in 0 .. Len(disks) /\ Len(disks) \in Nat
          /\ Parsed
      BY DEF Inv, Children, Parent, Parsed
    <3>2. child[c].disk \in 1 .. Len(disks)
      BY <3>1
    <3>3. d.servers \in Seq(Endpoint) \cup {Uninit}
      BY <3>1, <3>2, DisksType DEF Disk, d
    <3> QED
      BY <1>4, <3>3
  <2>3. at = "connect" => Len(new.sfd) <= Len(d.servers) /\ \A n \in 1 .. Len(new.sfd) : FALSE
    BY <2>1, <2>2
  <2> QED
    BY <1>4, <1>5, <2>1, <2>2, <2>3 DEF ChildOf
<1> QED
  BY <1>4, <1>8, <1>9, ChildGoesInv DEF new, d

LEMMA ServersType ==
    ASSUME Inv, NEW c \in 1 .. Len(child), child[c].at = "connect"
    PROVE  Disk(c).servers \in Seq(Endpoint)
<1>1. child[c].disk \in 1 .. mountN /\ mountN \in 0 .. Len(disks) /\ Len(disks) \in Nat
      /\ Parsed
  BY DEF Inv, Children, Parent, Parsed
<1>2. child[c].disk \in 1 .. Len(disks)
  BY <1>1
<1>3. Disk(c).servers \in Seq(Endpoint) \cup {Uninit}
  BY <1>1, <1>2, DisksType DEF Disk
<1> QED
  BY <1>3, DiskType DEF ChildOf

LEMMA ConnectInv ==
    ASSUME Inv, NEW c \in 1 .. Len(child), Connect(c)
    PROVE  Inv'
<1> DEFINE d == Disk(c)
           s == child[c].sfd
<1>1. child[c] \in ChildRec /\ ChildOf(child[c], d) /\ child[c].at = "connect"
      /\ Len(s) < Len(d.servers)
  BY DiskType DEF Connect
<1>2. d.servers \in Seq(Endpoint) /\ s \in Seq([addr : Endpoint, up : BOOLEAN])
      /\ child[c].disk \in Nat /\ child[c].raid \in 0 .. 9 \cup {Uninit}
  BY <1>1, ServersType DEF ChildRec
<1>3. PICK up \in BOOLEAN, at \in {"connect", "crashed"} :
           ChildGoes(c, [child[c] EXCEPT !.at = at, !.sfd =
               Append(@, [addr |-> d.servers[NextServer(c)], up |-> up])])
  BY DEF Connect
<1> DEFINE x == [addr |-> d.servers[NextServer(c)], up |-> up]
           t == Append(s, x)
           new == [child[c] EXCEPT !.at = at, !.sfd = t]
<1>4. ChildGoes(c, new)
  BY <1>3
<1>5. NextServer(c) = Len(s) + 1 /\ Len(s) \in Nat /\ Len(s) + 1 \in 1 .. Len(d.servers)
  BY <1>1, <1>2 DEF NextServer
<1>6. x \in [addr : Endpoint, up : BOOLEAN] /\ x.addr = d.servers[Len(s) + 1]
  BY <1>2, <1>5
<1>7. new = [disk |-> child[c].disk, at |-> at, raid |-> child[c].raid, sfd |-> t]
  <2> DEFINE h == child[c]
  <2>1. h \in ChildRec
    BY <1>1
  <2> HIDE DEF h
  <2> QED
    BY <2>1, AtSfdFields DEF h
<1> HIDE DEF x
<1>8. /\ t \in Seq([addr : Endpoint, up : BOOLEAN]) /\ Len(t) = Len(s) + 1
      /\ \A n \in 1 .. Len(s) : t[n] = s[n]
      /\ t[Len(s) + 1] = x
  BY <1>2, <1>6
<1>9. Len(t) <= Len(d.servers) /\ Len(d.servers) \in Nat
  BY <1>2, <1>5, <1>8
<1>10. ASSUME NEW n \in 1 .. Len(t) PROVE t[n].addr = d.servers[n]
  <2>1. CASE n = Len(s) + 1
    BY <1>6, <1>8, <2>1
  <2>2. CASE n # Len(s) + 1
    <3>1. n \in 1 .. Len(s)
      BY <1>5, <1>8, <2>2
    <3>2. s[n].addr = d.servers[n]
      BY <1>1, <3>1 DEF ChildOf
    <3> QED
      BY <1>8, <3>1, <3>2
  <2> QED
    BY <2>1, <2>2
<1> HIDE DEF t, new, d
<1>11. new \in ChildRec /\ new.disk = child[c].disk
  BY <1>2, <1>7, <1>8 DEF ChildRec, At
<1>12. ChildOf(new, d)
  <2>1. new.at \in {"connect", "crashed"} /\ new.sfd = t /\ new.raid = child[c].raid
    BY <1>7
  <2>2. child[c].raid \in {1, 5} /\ d.servers # Uninit
        /\ (d.raid # Uninit => child[c].raid = d.raid)
    BY <1>1 DEF ChildOf
  <2> QED
    BY <1>9, <1>10, <2>1, <2>2 DEF ChildOf
<1> QED
  BY <1>4, <1>11, <1>12, ChildGoesInv DEF d

LEMMA MountInv ==
    ASSUME Inv, NEW c \in 1 .. Len(child), Mount(c)
    PROVE  Inv'
<1> DEFINE d == Disk(c)
<1>1. child[c] \in ChildRec /\ ChildOf(child[c], d) /\ child[c].at = "connect"
      /\ Len(child[c].sfd) = Len(d.servers)
  BY DiskType DEF Mount, Connected
<1>2. PICK at \in {"crashed", "failed", "mounted"} :
           ChildGoes(c, [child[c] EXCEPT !.at = at])
  BY DEF Mount
<1> DEFINE new == [child[c] EXCEPT !.at = at]
<1>3. new = [disk |-> child[c].disk, at |-> at, raid |-> child[c].raid, sfd |-> child[c].sfd]
  <2> DEFINE h == child[c]
  <2>1. h \in ChildRec
    BY <1>1
  <2> HIDE DEF h
  <2> QED
    BY <2>1, AtFields DEF h
<1> HIDE DEF new, d
<1>4. new \in ChildRec /\ new.disk = child[c].disk
  BY <1>1, <1>3 DEF ChildRec, At
<1>5. ChildOf(new, d)
  <2>1. new.at = at /\ new.sfd = child[c].sfd /\ new.raid = child[c].raid
    BY <1>3
  <2> QED
    BY <1>1, <2>1 DEF ChildOf
<1> QED
  BY <1>2, <1>4, <1>5, ChildGoesInv DEF new, d

LEMMA InvNext == Inv /\ [Next]_vars => Inv'
<1> SUFFICES ASSUME Inv, [Next]_vars PROVE Inv'
  OBVIOUS
<1>1. CASE UNCHANGED vars
  <2>1. Parsed'
    BY <1>1, ParsedSame DEF Inv, vars
  <2>2. Parent' /\ Children'
    BY <1>1 DEF Inv, Parent, Children, vars
  <2> QED
    BY <2>1, <2>2 DEF Inv
<1>2. CASE ParentStep
  BY <1>2, ReadLineInv, ParseEndInv, ForkInv, ForkFailsInv, ParentEndInv DEF ParentStep
<1>3. CASE \E c \in 1 .. Len(child) : ChildStep(c)
  BY <1>3, ChildStartInv, ConnectInv, MountInv DEF ChildStep
<1> QED
  BY <1>1, <1>2, <1>3 DEF Next

LEMMA Invariance == Spec => []Inv
BY InvInit, InvNext, PTL DEF Spec

-----------------------------------------------------------------------------
(***************************************************************************)
(* The properties.                                                         *)
(***************************************************************************)
\* The lines read so far, and the block of the last of them
LEMMA ReadSoFar ==
    ASSUME Parsed
    PROVE  LET f == Prefix(file, pos - 1)
               last == IF f = <<>> THEN 0 ELSE BlockOf(f, Len(f))
           IN /\ last \in Nat /\ nblock \in {last, last + 1} /\ nblock \in Nat
              /\ Len(disks) = IF last = 0 THEN 1 ELSE last
<1> DEFINE T == {file[i] : i \in DOMAIN file}
           n == pos - 1
           f == Prefix(file, n)
           last == IF f = <<>> THEN 0 ELSE BlockOf(f, Len(f))
<1>1. file \in Seq(T) /\ n \in 0 .. Len(file) /\ n \in Nat /\ pos \in Nat \ {0} /\ pos = n + 1
  <2>1. file \in File /\ pos \in 1 .. Len(file) + 1
    BY DEF Parsed
  <2>2. file \in Seq(T) /\ Len(file) \in Nat
    BY <2>1, FileFacts
  <2> QED
    BY <2>1, <2>2
<1>2. /\ f \in Seq(T) /\ Len(f) = n
      /\ \A i \in 1 .. n + 1 : BlockOf(f, i) = BlockOf(file, i)
  <2> HIDE DEF T, n
  <2> QED
    BY <1>1, PrefixFacts
<1>3. nblock = BlockOf(file, pos) /\ nblock \in Nat
  BY <1>1, BlockType DEF Parsed
<1>4. CASE n = 0
  <2>1. f = <<>> /\ pos = 1
    BY <1>1, <1>2, <1>4
  <2>2. last = 0 /\ nblock = 0
    BY <1>3, <2>1, BlockFirst
  <2> QED
    BY <1>4, <2>1, <2>2 DEF Parsed
<1>5. CASE n # 0
  <2>1. f # <<>> /\ pos # 1 /\ n \in Nat \ {0} /\ n \in 1 .. n + 1
    BY <1>1, <1>2, <1>5
  <2>2. last = BlockOf(file, n) /\ last \in Nat
    BY <1>2, <2>1, BlockType
  <2>3. nblock \in {last, last + 1}
    BY <1>1, <1>3, <2>1, <2>2, BlockStep
  <2> QED
    BY <1>3, <2>1, <2>2, <2>3 DEF Parsed
<1> QED
  BY <1>1, <1>4, <1>5

\* Type correctness, for all files.
THEOREM TypeCorrect == Spec => []TypeOK
<1>1. ASSUME Inv PROVE TypeOK
  <2>1. Parsed /\ Parent /\ Children
    BY <1>1 DEF Inv
  <2>2. nblock \in 0 .. Len(disks) + 1
    BY <2>1, ReadSoFar
  <2>3. basic \in [BasicKey -> Kepts(Text) \cup {Uninit}]
    <3>1. file \in File /\ pos - 1 \in 0 .. Len(file)
      <4>1. file \in File /\ pos \in 1 .. Len(file) + 1
        BY <2>1 DEF Parsed
      <4>2. Len(file) \in Nat
        BY <4>1, FileFacts
      <4> QED
        BY <4>1, <4>2
    <3>2. ASSUME NEW key \in BasicKey PROVE basic[key] \in Kepts(Text) \cup {Uninit}
      <4>1. basic[key] = Meant(Prefix(file, pos - 1), 0, key)
        BY <2>1 DEF Parsed
      <4> QED
        BY <3>1, <4>1, MeantType DEF BasicKey
    <3> QED
      BY <2>1, <3>2 DEF Parsed
  <2>4. ASSUME NEW k \in 1 .. Len(disks)
        PROVE  /\ DOMAIN disks[k] = DiskKey
               /\ disks[k].raid \in 0 .. 9 \cup {Uninit}
               /\ disks[k].servers \in Seq(Endpoint) \cup {Uninit}
               /\ disks[k].hotswap \in Kepts(Address) \cup {Uninit}
               /\ {disks[k].diskname, disks[k].mountpoint} \subseteq Kepts(Text) \cup {Uninit}
    BY <2>1, DisksType
  <2>5. ASSUME NEW c \in 1 .. Len(child)
        PROVE  /\ child[c].disk \in 1 .. mountN
               /\ child[c].at \in At
               /\ child[c].raid \in 0 .. 9 \cup {Uninit}
               /\ child[c].sfd \in Seq([addr : Endpoint, up : BOOLEAN])
    <3>1. child[c] \in ChildRec /\ child[c].disk \in 1 .. mountN
      BY <2>1 DEF Children
    <3> QED
      BY <3>1 DEF ChildRec
  <2> QED
    BY <2>1, <2>2, <2>3, <2>4, <2>5 DEF Parsed, Parent, TypeOK, At
<1> QED
  BY <1>1, Invariance, PTL

\* After any number of lines of any file, the parser has the disks of the blocks
\* read, each with the values of its own block, the last where one is repeated.
THEOREM ParsesBlocks == Spec => []ParsedBlocks
<1>1. ASSUME Inv PROVE ParsedBlocks
  <2> DEFINE f == Prefix(file, pos - 1)
             last == IF f = <<>> THEN 0 ELSE BlockOf(f, Len(f))
  <2>1. Parsed
    BY <1>1 DEF Inv
  <2>2. Len(disks) = IF last = 0 THEN 1 ELSE last
    BY <2>1, ReadSoFar
  <2>3. \A k \in 1 .. Len(disks), key \in DiskKey : disks[k][key] = Meant(f, k, key)
    BY <2>1 DEF Parsed, IsParsed
  <2>4. \A key \in BasicKey : basic[key] = Meant(f, 0, key)
    BY <2>1 DEF Parsed
  <2>5. f = SubSeq(file, 1, pos - 1)
    BY DEF Prefix
  <2> HIDE DEF f
  <2> QED
    BY <2>2, <2>3, <2>4, <2>5 DEF ParsedBlocks
<1> QED
  BY <1>1, Invariance, PTL

\* No disk is mounted by two processes, whatever forks failed.
THEOREM MountsOnce == Spec => []NoDiskTwice
<1>1. ASSUME Inv PROVE NoDiskTwice
  <2> SUFFICES ASSUME NEW c \in 1 .. Len(child), NEW d \in 1 .. Len(child), c # d
               PROVE  child[c].disk # child[d].disk
    BY DEF NoDiskTwice
  <2>1. /\ child[c].disk \in Nat /\ child[d].disk \in Nat
        /\ \A e, g \in 1 .. Len(child) : e < g => child[e].disk < child[g].disk
    <3>1. child \in Seq(ChildRec)
          /\ \A e, g \in 1 .. Len(child) : e < g => child[e].disk < child[g].disk
      BY <1>1 DEF Inv, Children
    <3>2. child[c] \in ChildRec /\ child[d] \in ChildRec
      BY <3>1
    <3> QED
      BY <3>1, <3>2 DEF ChildRec
  <2>2. c < d \/ d < c
    OBVIOUS
  <2> QED
    BY <2>1, <2>2
<1> QED
  BY <1>1, Invariance, PTL

\* A process that has mounted is of the raid its block gives, its sockets are of
\* the servers listed there, in their order, as far as allSFD has room.
THEOREM MountsServers == Spec => []ServersInOrder
<1>1. ASSUME Inv, NEW c \in 1 .. Len(child), child[c].at = "mounted"
      PROVE  LET k == child[c].disk
                 list == file[CHOOSE i \in LinesOf(file, k, "servers") :
                                  \A j \in LinesOf(file, k, "servers") : j <= i]
             IN /\ Len(child[c].sfd) = Len(list.val)
                /\ \A n \in 1 .. Len(list.val) : n < SfdInts(c) =>
                      /\ child[c].sfd[n].addr.addr = list.val[n].addr
                      /\ list.nl /\ ~list.val[n].glued =>
                            ~child[c].sfd[n].addr.head /\ ~child[c].sfd[n].addr.tail
                /\ \A i \in LinesOf(file, k, "raid") :
                      /\ \A j \in LinesOf(file, k, "raid") : j <= i
                      => file[i].val = child[c].raid
  <2> DEFINE k == child[c].disk
             s == child[c].sfd
             m == CHOOSE i \in LinesOf(file, k, "servers") :
                      \A j \in LinesOf(file, k, "servers") : j <= i
  <2>1. /\ Parsed /\ ChildOf(child[c], disks[k]) /\ k \in 1 .. mountN
        /\ mountN \in 0 .. Len(disks) /\ Len(disks) \in Nat /\ Len(child) \in Nat
        /\ file \in File
    BY <1>1 DEF Inv, Children, Parent, Parsed
  <2>2. /\ k \in 1 .. Len(disks) /\ pos = Len(file) + 1
    <3>1. pc # "parse"
      BY <1>1 DEF Inv, Parent
    <3> QED
      BY <1>1, <2>1, <3>1 DEF Inv, Parent
  <2>3. Len(file) \in Nat /\ pos - 1 = Len(file) /\ Len(file) \in 0 .. Len(file)
        /\ Prefix(file, pos - 1) = file /\ Prefix(file, Len(file)) = file
    <3>1. Len(file) \in Nat /\ Prefix(file, Len(file)) = file
      BY <2>1, FileFacts, PrefixWhole
    <3> QED
      BY <2>2, <3>1
  <2>4. \A key \in DiskKey : disks[k][key] = Meant(file, k, key)
    BY <2>1, <2>2, <2>3 DEF Parsed, IsParsed
  <2>5. /\ disks[k].servers = Meant(file, k, "servers")
        /\ disks[k].raid = Meant(file, k, "raid")
    BY <2>4 DEF DiskKey
  <2>6. /\ child[c].raid \in {1, 5}
        /\ disks[k].raid # Uninit => child[c].raid = disks[k].raid
        /\ disks[k].servers # Uninit
        /\ Len(s) = Len(disks[k].servers)
        /\ \A n \in 1 .. Len(s) : s[n].addr = disks[k].servers[n]
    BY <1>1, <2>1 DEF ChildOf
  <2>7. /\ IsLine(file[m]) /\ file[m].key = "servers"
        /\ disks[k].servers = FieldOf(file[m])
    <3>1. Meant(file, k, "servers") # Uninit
      BY <2>5, <2>6
    <3>2. PICK q \in 1 .. Len(file) :
               /\ q = CHOOSE i \in LinesOf(file, k, "servers") :
                          \A j \in LinesOf(file, k, "servers") : j <= i
               /\ IsLine(file[q]) /\ file[q].key = "servers"
               /\ Meant(file, k, "servers") = FieldOf(file[q])
      <4> HIDE DEF k, m, s
      <4>1. \/ Meant(Prefix(file, Len(file)), k, "servers") = Uninit
            \/ \E q \in 1 .. Len(file) :
                  /\ q = CHOOSE i \in LinesOf(Prefix(file, Len(file)), k, "servers") :
                             \A j \in LinesOf(Prefix(file, Len(file)), k, "servers") : j <= i
                  /\ IsLine(file[q]) /\ file[q].key = "servers"
                  /\ Meant(Prefix(file, Len(file)), k, "servers") = FieldOf(file[q])
        BY <2>1, <2>3, MeantCases
      <4> QED
        BY <2>3, <3>1, <4>1
    <3> QED
      BY <2>5, <3>2
  <2> HIDE DEF m
  <2> DEFINE list == file[m]
  <2>8. /\ list.val \in Seq(Listed) /\ Len(disks[k].servers) = Len(list.val)
        /\ \A n \in 1 .. Len(list.val) :
              /\ disks[k].servers[n].addr = list.val[n].addr
              /\ list.nl /\ ~list.val[n].glued =>
                    ~disks[k].servers[n].head /\ ~disks[k].servers[n].tail
    BY <2>7, FieldType
  <2>9. /\ Len(s) = Len(list.val)
        /\ \A n \in 1 .. Len(list.val) :
              /\ s[n].addr.addr = list.val[n].addr
              /\ list.nl /\ ~list.val[n].glued => ~s[n].addr.head /\ ~s[n].addr.tail
    <3>1. Len(s) = Len(list.val)
      BY <2>6, <2>8
    <3> HIDE DEF list, s, k
    <3>2. ASSUME NEW n \in 1 .. Len(list.val)
          PROVE  /\ s[n].addr.addr = list.val[n].addr
                 /\ list.nl /\ ~list.val[n].glued => ~s[n].addr.head /\ ~s[n].addr.tail
      <4>1. s[n].addr = disks[k].servers[n]
        BY <2>6, <3>1
      <4> QED
        BY <2>8, <4>1
    <3> QED
      BY <3>1, <3>2
  <2>10. ASSUME NEW i \in LinesOf(file, k, "raid"),
                \A j \in LinesOf(file, k, "raid") : j <= i
         PROVE  file[i].val = child[c].raid
    <3>1. PICK q \in 1 .. Len(file) :
               /\ q \in LinesOf(file, k, "raid")
               /\ \A j \in LinesOf(file, k, "raid") : j <= q
               /\ IsLine(file[q]) /\ file[q].key = "raid"
               /\ disks[k].raid = FieldOf(file[q])
      BY <2>1, <2>3, <2>5, MeantCases
    <3>2. i = q
      <4>1. i \in 1 .. Len(file)
        <5>1. DOMAIN file = 1 .. Len(file)
          BY <2>1, FileFacts
        <5> QED
          BY <5>1 DEF LinesOf
      <4>2. i <= q /\ q <= i
        BY <2>10, <3>1
      <4> QED
        BY <2>3, <4>1, <4>2
    <3>3. /\ FieldOf(file[i]) \in 0 .. 9
          /\ FieldOf(file[i]) = IF file[i].nl THEN file[i].val ELSE 0
      BY <3>1, <3>2, FieldType
    <3>4. disks[k].raid # Uninit
      BY <3>1, <3>2, <3>3, MountStartAssumption
    <3> QED
      BY <2>6, <3>1, <3>2, <3>3, <3>4
  <2> QED
    BY <2>9, <2>10 DEF m
<1>2. Inv => ServersInOrder
  BY <1>1 DEF ServersInOrder
<1> QED
  BY <1>2, Invariance, PTL
=============================================================================
