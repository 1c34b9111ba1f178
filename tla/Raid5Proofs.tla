----------------------------- MODULE Raid5Proofs -----------------------------
(***************************************************************************)
(* Proof that whatever one server of a RAID-5 mount kept can be computed   *)
(* from the others (module Raid5), for every number of servers, stripe and *)
(* file. For this the units of a place, taken over all servers, must have  *)
(* every bit an even number of times; and a write in progress must have    *)
(* given each server so far the chunk, or the parity, that is its own.     *)
(* After that: the types (TypeInv); that every server keeps its share of   *)
(* the stripe last written, and the size covers it (FileInv); the sum that *)
(* a write returns (SumInv); the chunks a read puts together (GotInv).     *)
(***************************************************************************)
EXTENDS Raid5, FiniteSetTheorems, SequenceTheorems, TLAPS

\* How far server t is from the first one a write to o asks
Turn(o, t) == IF t > XorServ(o) THEN t - XorServ(o) - 1 ELSE t - XorServ(o) + NServers - 1

\* What a write of buf at o has server t keep
Share(o, buf, t) == IF t = XorServ(o) THEN Parity(buf) ELSE Chunk(buf, Turn(o, t))

\* The servers whose unit k has bit b, if they keep d
With(d, b, k) == {t \in Server : b \in UnitOf(d[t], k)}

Even(d, k) == \A b \in Bit : Cardinality(With(d, b, k)) % 2 = 0

\* The locals of a write in progress
Locals == [pc : {"write"}, off : Offset, buf : Stripe, real : 1 .. StripeSz,
           i : 0 .. NServers - 1, serv : Server, sum : Int, failed : Nat,
           lost : Nat]

WriteInv == op.pc = "write" =>
    /\ op \in Locals
    /\ Turn(op.off, op.serv) = op.i
    /\ op.failed = 0 /\ op.lost = 0 =>
          \A t \in Server : Turn(op.off, t) < op.i =>
              \A k \in 1 .. ChunkSz :
                  UnitOf(disk[t], op.off + k) = Share(op.off, op.buf, t)[k]

EvenInv ==
    \A k \in Place \ torn :
        \/ op.pc = "write" /\ op.i > 0 /\ k \in Span(op.off)
        \/ Even(disk, k)

Inv ==
    /\ disk \in [Server -> Seq(Unit)]
    /\ "pc" \in DOMAIN op
    /\ WriteInv
    /\ EvenInv

-----------------------------------------------------------------------------
(***************************************************************************)
(* Placement.                                                              *)
(***************************************************************************)
LEMMA ServerCount == NServers \in Nat /\ NServers >= 2
BY Raid5Assumption

\* The sizes.
LEMMA SizeFacts ==
    /\ NServers \in Nat /\ NServers >= 2 /\ K \in Nat /\ K >= 1 /\ K = NServers - 1
    /\ Server = 1 .. NServers
    /\ ChunkSz \in Nat /\ ChunkSz >= 1
    /\ StripeSz \in Nat /\ StripeSz >= 1 /\ StripeSz = K * ChunkSz
    /\ Offset \subseteq Nat
<1>1. /\ NServers \in Nat /\ NServers >= 2 /\ K \in Nat /\ K >= 1 /\ K = NServers - 1
      /\ PageSz \in Nat /\ PageSz >= K
  BY Raid5Assumption DEF K
<1>2. ChunkSz \in Nat /\ ChunkSz >= 1
  BY <1>1 DEF ChunkSz
<1>3. StripeSz \in Nat /\ StripeSz >= 1
  BY <1>1, <1>2 DEF StripeSz
<1> QED
  BY <1>1, <1>2, <1>3, Raid5Assumption DEF StripeSz, Server

\* The parity's server.
LEMMA XorServType ==
    ASSUME NEW o \in Offset PROVE XorServ(o) \in Server
<1>1. o \div StripeSz \in Nat
  BY SizeFacts
<1>2. (o \div StripeSz) % NServers \in 0 .. NServers - 1
  BY <1>1, SizeFacts
<1> QED
  BY <1>2, SizeFacts DEF XorServ

\* The next server, and after the last the first.
LEMMA NextServFacts ==
    ASSUME NEW s \in Server
    PROVE  /\ NextServ(s) = IF s = NServers THEN 1 ELSE s + 1
           /\ NextServ(s) \in Server
<1>1. CASE s = NServers
  <2>1. (NServers + 1) % NServers = 1
    BY SizeFacts
  <2> QED
    BY <1>1, <2>1, SizeFacts DEF NextServ, CMod
<1>2. CASE s = NServers - 1
  <2>1. NServers % NServers = 0
    BY SizeFacts
  <2> QED
    BY <1>2, <2>1, SizeFacts DEF NextServ, CMod
<1>3. CASE s < NServers - 1
  <2>1. (s + 1) % NServers = s + 1
    BY <1>3, SizeFacts
  <2> QED
    BY <1>3, <2>1, SizeFacts DEF NextServ, CMod
<1> QED
  BY <1>1, <1>2, <1>3, SizeFacts

\* Going round a circle of n from x passes every place once.
LEMMA AroundOnce ==
    ASSUME NEW n \in Nat, NEW x \in 1 .. n, NEW s \in 1 .. n, NEW t \in 1 .. n,
           (IF s > x THEN s - x - 1 ELSE s - x + n - 1)
           = (IF t > x THEN t - x - 1 ELSE t - x + n - 1)
    PROVE  s = t
<1>1. CASE s > x
  BY <1>1
<1>2. CASE ~(s > x)
  BY <1>2
<1> QED
  BY <1>1, <1>2

\* Turns go from 0 to NServers - 1, the parity's server has the last, and no
\* two servers have the same.
LEMMA TurnFacts ==
    ASSUME NEW o \in Offset
    PROVE  /\ \A t \in Server : Turn(o, t) \in 0 .. NServers - 1
           /\ \A t \in Server : Turn(o, t) = NServers - 1 <=> t = XorServ(o)
           /\ \A s, t \in Server : Turn(o, s) = Turn(o, t) => s = t
           /\ \A j \in 0 .. K - 1 : \E t \in Server \ {XorServ(o)} : Turn(o, t) = j
           /\ Turn(o, NextServ(XorServ(o))) = 0
           /\ \A t \in Server : Turn(o, t) + 1 < NServers =>
                 Turn(o, NextServ(t)) = Turn(o, t) + 1
<1> DEFINE x == XorServ(o)
<1>1. x \in 1 .. NServers /\ NServers \in Nat /\ NServers >= 2 /\ K = NServers - 1
      /\ Server = 1 .. NServers
  BY XorServType, SizeFacts
<1>2. \A t \in Server : Turn(o, t) = IF t > x THEN t - x - 1 ELSE t - x + NServers - 1
  BY DEF Turn
<1>3. \A t \in Server : NextServ(t) = (IF t = NServers THEN 1 ELSE t + 1) /\ NextServ(t) \in Server
  BY NextServFacts
<1> HIDE DEF x
<1>4. ASSUME NEW j \in 0 .. K - 1 PROVE \E t \in Server \ {x} : Turn(o, t) = j
  <2>1. CASE x + 1 + j <= NServers
    <3>1. x + 1 + j \in Server \ {x} /\ Turn(o, x + 1 + j) = j
      BY <1>1, <1>2, <2>1
    <3> QED
      BY <3>1
  <2>2. CASE x + 1 + j > NServers
    <3>1. x + 1 + j - NServers \in Server \ {x} /\ Turn(o, x + 1 + j - NServers) = j
      BY <1>1, <1>2, <2>2
    <3> QED
      BY <3>1
  <2> QED
    BY <1>1, <2>1, <2>2
<1>5. /\ \A t \in Server : Turn(o, t) \in 0 .. NServers - 1
      /\ \A t \in Server : Turn(o, t) = NServers - 1 <=> t = x
      /\ \A s, t \in Server : Turn(o, s) = Turn(o, t) => s = t
  <2>1. ASSUME NEW t \in Server
        PROVE  Turn(o, t) \in 0 .. NServers - 1 /\ (Turn(o, t) = NServers - 1 <=> t = x)
    BY <1>1, <1>2
  <2>2. ASSUME NEW s \in Server, NEW t \in Server, Turn(o, s) = Turn(o, t) PROVE s = t
    <3>1. /\ Turn(o, s) = IF s > x THEN s - x - 1 ELSE s - x + NServers - 1
          /\ Turn(o, t) = IF t > x THEN t - x - 1 ELSE t - x + NServers - 1
      BY <1>2
    <3>2. s \in 1 .. NServers /\ t \in 1 .. NServers
      BY <1>1
    <3> QED
      BY <1>1, <2>2, <3>1, <3>2, AroundOnce
  <2> QED
    BY <2>1, <2>2
<1>6. Turn(o, NextServ(x)) = 0
  <2> DEFINE n == NextServ(x)
  <2>1. n = (IF x = NServers THEN 1 ELSE x + 1) /\ n \in Server
    BY <1>1, <1>3
  <2> HIDE DEF n
  <2>2. Turn(o, n) = 0
    BY <1>1, <1>2, <2>1
  <2> QED
    BY <2>2 DEF n
<1>7. ASSUME NEW t \in Server, Turn(o, t) + 1 < NServers
      PROVE  Turn(o, NextServ(t)) = Turn(o, t) + 1
  <2> DEFINE n == NextServ(t)
  <2>1. n = (IF t = NServers THEN 1 ELSE t + 1) /\ n \in Server
    BY <1>3
  <2> HIDE DEF n
  <2>2. Turn(o, n) = Turn(o, t) + 1
    BY <1>1, <1>2, <1>7, <2>1
  <2> QED
    BY <2>2 DEF n
<1> QED
  BY <1>4, <1>5, <1>6, <1>7 DEF x

\* No server keeps two parts of a stripe: the chunks and their parity are one
\* to a server.
THEOREM OneShareEach ==
    ASSUME NEW o \in Offset
    PROVE  /\ \A j \in 0 .. K - 1 : \E t \in Server \ {XorServ(o)} : Turn(o, t) = j
           /\ \A s, t \in Server : Turn(o, s) = Turn(o, t) => s = t
BY TurnFacts

-----------------------------------------------------------------------------
(***************************************************************************)
(* What a server keeps.                                                    *)
(***************************************************************************)
\* A chunk of a stripe, and the parity.
LEMMA ChunkFacts ==
    ASSUME NEW buf \in Stripe, NEW j \in 0 .. K - 1
    PROVE  /\ Chunk(buf, j) \in Seq(Unit) /\ Len(Chunk(buf, j)) = ChunkSz
           /\ \A k \in 1 .. ChunkSz :
                 /\ j * ChunkSz + k \in 1 .. StripeSz
                 /\ Chunk(buf, j)[k] = buf[j * ChunkSz + k]
<1>1. \A a, b, c \in Nat : a <= b => a * c <= b * c
  OBVIOUS
<1> DEFINE lo == j * ChunkSz
<1>2. lo \in Nat /\ (j + 1) * ChunkSz = lo + ChunkSz /\ lo + ChunkSz <= StripeSz
  <2>1. j \in Nat /\ j + 1 \in Nat /\ j + 1 <= K
    BY SizeFacts
  <2>2. (j + 1) * ChunkSz <= K * ChunkSz
    BY <1>1, <2>1, SizeFacts
  <2>3. lo \in Nat /\ (j + 1) * ChunkSz = lo + ChunkSz
    BY <2>1, SizeFacts
  <2> QED
    BY <2>2, <2>3, SizeFacts
<1> HIDE DEF lo
<1>3. buf \in Seq(Unit) /\ Len(buf) = StripeSz
  BY SizeFacts DEF Stripe
<1>4. /\ SubSeq(buf, lo + 1, lo + ChunkSz) \in Seq(Unit)
      /\ Len(SubSeq(buf, lo + 1, lo + ChunkSz)) = ChunkSz
      /\ \A k \in 1 .. ChunkSz : SubSeq(buf, lo + 1, lo + ChunkSz)[k] = buf[lo + k]
  BY <1>2, <1>3, SizeFacts
<1>5. Chunk(buf, j) = SubSeq(buf, lo + 1, lo + ChunkSz)
  BY <1>2 DEF Chunk, lo
<1>6. \A k \in 1 .. ChunkSz : lo + k \in 1 .. StripeSz
  BY <1>2, SizeFacts
<1> QED
  BY <1>4, <1>5, <1>6 DEF lo

LEMMA ParityFacts ==
    ASSUME NEW buf
    PROVE  /\ Parity(buf) \in Seq(Unit) /\ Len(Parity(buf)) = ChunkSz
           /\ \A k \in 1 .. ChunkSz, b \in Bit :
                 b \in Parity(buf)[k]
                 <=> Cardinality({j \in 0 .. K - 1 : b \in buf[j * ChunkSz + k]}) % 2 = 1
<1>1. Parity(buf) = [k \in 1 .. ChunkSz |-> Xor([j \in 0 .. K - 1 |-> buf[j * ChunkSz + k]])]
  BY DEF Parity
<1>2. ASSUME NEW k \in 1 .. ChunkSz
      PROVE  /\ Xor([j \in 0 .. K - 1 |-> buf[j * ChunkSz + k]]) \in Unit
             /\ \A b \in Bit :
                   b \in Xor([j \in 0 .. K - 1 |-> buf[j * ChunkSz + k]])
                   <=> Cardinality({j \in 0 .. K - 1 : b \in buf[j * ChunkSz + k]}) % 2 = 1
  <2> DEFINE f == [j \in 0 .. K - 1 |-> buf[j * ChunkSz + k]]
  <2>1. \A b : {j \in DOMAIN f : b \in f[j]} = {j \in 0 .. K - 1 : b \in buf[j * ChunkSz + k]}
    OBVIOUS
  <2>2. Xor(f) = {b \in Bit : Cardinality({j \in DOMAIN f : b \in f[j]}) % 2 = 1}
    BY DEF Xor
  <2> HIDE DEF f
  <2>3. Xor(f) \in Unit /\ \A b \in Bit :
           b \in Xor(f) <=> Cardinality({j \in 0 .. K - 1 : b \in buf[j * ChunkSz + k]}) % 2 = 1
    BY <2>1, <2>2 DEF Unit
  <2> QED
    BY <2>3 DEF f
<1>3. Parity(buf) \in [1 .. ChunkSz -> Unit]
  BY <1>1, <1>2
<1>4. Parity(buf) \in Seq(Unit) /\ Len(Parity(buf)) = ChunkSz
  BY <1>3, SizeFacts
<1>5. \A k \in 1 .. ChunkSz : Parity(buf)[k] = Xor([j \in 0 .. K - 1 |-> buf[j * ChunkSz + k]])
  BY <1>1
<1>6. ASSUME NEW k \in 1 .. ChunkSz, NEW b \in Bit
      PROVE  b \in Parity(buf)[k]
             <=> Cardinality({j \in 0 .. K - 1 : b \in buf[j * ChunkSz + k]}) % 2 = 1
  BY <1>2, <1>5
<1> QED
  BY <1>4, <1>6

\* What a pwrite leaves: the units written, and the others as they were.
LEMMA PwriteFacts ==
    ASSUME NEW d \in Seq(Unit), NEW o \in Nat, NEW x \in Seq(Unit), Len(x) \in 1 .. ChunkSz
    PROVE  /\ PwriteAt(d, o, x) \in Seq(Unit)
           /\ Len(PwriteAt(d, o, x)) >= Len(d) /\ Len(PwriteAt(d, o, x)) >= o + Len(x)
           /\ \A k \in 1 .. Len(x) : UnitOf(PwriteAt(d, o, x), o + k) = x[k]
           /\ \A k \in Nat \ {0} : k \notin Span(o) =>
                 UnitOf(PwriteAt(d, o, x), k) = UnitOf(d, k)
<1> DEFINE n == IF Len(d) > o + Len(x) THEN Len(d) ELSE o + Len(x)
           at(k) == IF o < k /\ k <= o + Len(x) THEN x[k - o]
                    ELSE IF k <= Len(d) THEN d[k] ELSE Zero
           e == [k \in 1 .. n |-> at(k)]
<1>1. n \in Nat /\ n >= Len(d) /\ n >= o + Len(x) /\ Len(d) \in Nat
  BY SizeFacts
<1>2. PwriteAt(d, o, x) = e
  BY DEF PwriteAt
<1>3. \A k \in 1 .. n : at(k) \in Unit
  <2> TAKE k \in 1 .. n
  <2>1. CASE o < k /\ k <= o + Len(x)
    <3>1. k - o \in 1 .. Len(x)
      BY <1>1, <2>1, SizeFacts
    <3> QED
      BY <2>1, <3>1
  <2>2. CASE ~(o < k /\ k <= o + Len(x))
    BY <1>1, <2>2 DEF Zero, Unit
  <2> QED
    BY <2>1, <2>2
<1>4. e \in Seq(Unit) /\ Len(e) = n /\ \A k \in 1 .. n : e[k] = at(k)
  <2> HIDE DEF n, at
  <2>1. e \in [1 .. n -> Unit] /\ \A k \in 1 .. n : e[k] = at(k)
    BY <1>3
  <2> HIDE DEF e
  <2> QED
    BY <1>1, <2>1
<1> HIDE DEF n, e
<1>5. \A k \in 1 .. Len(x) : UnitOf(e, o + k) = x[k]
  <2> TAKE k \in 1 .. Len(x)
  <2>1. o + k \in 1 .. n /\ o < o + k /\ o + k <= o + Len(x) /\ o + k - o = k
    <3>1. Len(x) \in Nat /\ k >= 1 /\ k <= Len(x) /\ k \in Int
      BY SizeFacts
    <3> QED
      BY <1>1, <3>1
  <2>2. at(o + k) = x[k]
    BY <2>1
  <2>3. e[o + k] = x[k] /\ o + k <= Len(e)
    BY <1>1, <1>4, <2>1, <2>2
  <2> QED
    BY <2>3 DEF UnitOf
<1>6. ASSUME NEW k \in Nat \ {0}, k \notin Span(o) PROVE UnitOf(e, k) = UnitOf(d, k)
  <2>1. ~(o < k /\ k <= o + Len(x))
    BY <1>6, SizeFacts DEF Span
  <2>2. at(k) = IF k <= Len(d) THEN d[k] ELSE Zero
    BY <2>1
  <2>3. CASE k <= n
    BY <1>1, <1>4, <2>2, <2>3 DEF UnitOf
  <2>4. CASE ~(k <= n)
    BY <1>1, <1>4, <2>4 DEF UnitOf
  <2> QED
    BY <2>3, <2>4
<1> QED
  BY <1>1, <1>2, <1>4, <1>5, <1>6

-----------------------------------------------------------------------------
(***************************************************************************)
(* Parity.                                                                 *)
(***************************************************************************)
\* Numbers are even and odd in turn.
LEMMA NextParity ==
    ASSUME NEW n \in Nat
    PROVE  n % 2 \in {0, 1} /\ (n % 2 = 1 <=> (n + 1) % 2 = 0)
OBVIOUS

\* With its share on every server a stripe is even: the chunks with a bit are
\* as many as the servers that keep them, and the parity makes them even.
LEMMA SharesAreEven ==
    ASSUME NEW o \in Offset, NEW buf \in Stripe, NEW k \in 1 .. ChunkSz, NEW d,
           \A t \in Server : UnitOf(d[t], o + k) = Share(o, buf, t)[k]
    PROVE  Even(d, o + k)
<1> SUFFICES ASSUME NEW b \in Bit PROVE Cardinality(With(d, b, o + k)) % 2 = 0
  BY DEF Even
<1> DEFINE x == XorServ(o)
           J == {j \in 0 .. K - 1 : b \in buf[j * ChunkSz + k]}
           S == {t \in Server \ {x} : b \in UnitOf(d[t], o + k)}
           g == [t \in S |-> Turn(o, t)]
<1>1. x \in Server /\ Server = 1 .. NServers /\ NServers \in Nat /\ K = NServers - 1
  BY XorServType, SizeFacts
<1>2. \A t \in Server \ {x} : Turn(o, t) \in 0 .. K - 1
  BY <1>1, TurnFacts
<1>3. \A t \in Server \ {x} : UnitOf(d[t], o + k) = buf[Turn(o, t) * ChunkSz + k]
  BY <1>2, ChunkFacts DEF Share
<1>4. b \in UnitOf(d[x], o + k) <=> Cardinality(J) % 2 = 1
  BY <1>1, ParityFacts DEF Share
<1>5. g \in Bijection(S, J)
  <2>1. \A t \in S : g[t] = Turn(o, t) /\ g[t] \in J
    BY <1>2, <1>3
  <2>2. \A s, t \in S : g[s] = g[t] => s = t
    BY <2>1, TurnFacts
  <2>3. \A j \in J : \E t \in S : g[t] = j
    <3> TAKE j \in J
    <3>1. PICK t \in Server \ {x} : Turn(o, t) = j
      BY TurnFacts
    <3>2. t \in S
      BY <1>3, <3>1
    <3> QED
      BY <2>1, <3>1, <3>2
  <2> HIDE DEF J, S
  <2> QED
    BY <2>1, <2>2, <2>3 DEF Bijection, Injection, Surjection, IsInjective
<1>6. IsFiniteSet(Server)
  BY <1>1, FS_Interval
<1>7. IsFiniteSet(S) /\ Cardinality(S) \in Nat
  <2>1. S \in SUBSET Server
    OBVIOUS
  <2> QED
    BY <1>6, <2>1, FS_Subset, FS_CardinalityType
<1>8. Cardinality(J) = Cardinality(S)
  <2> HIDE DEF J, S, g
  <2>1. ExistsBijection(S, J)
    BY <1>5 DEF ExistsBijection
  <2> QED
    BY <1>7, <2>1, FS_Bijection
<1>9. CASE b \in UnitOf(d[x], o + k)
  <2>1. With(d, b, o + k) = S \cup {x} /\ x \notin S
    BY <1>1, <1>9 DEF With
  <2>2. Cardinality(S \cup {x}) = Cardinality(S) + 1
    BY <1>7, <2>1, FS_AddElement
  <2>3. Cardinality(S) % 2 = 1
    BY <1>4, <1>8, <1>9
  <2> QED
    BY <1>7, <2>1, <2>2, <2>3, NextParity
<1>10. CASE b \notin UnitOf(d[x], o + k)
  <2>1. With(d, b, o + k) = S
    BY <1>1, <1>10 DEF With
  <2>2. Cardinality(S) % 2 # 1
    BY <1>4, <1>8, <1>10
  <2> QED
    BY <1>7, <2>1, <2>2, NextParity
<1> QED
  BY <1>9, <1>10

\* Of an even place every server's unit is the xor of the others.
LEMMA EvenIsRecoverable ==
    ASSUME NEW d \in [Server -> Seq(Unit)], NEW k \in Nat \ {0}, Even(d, k), NEW s \in Server
    PROVE  UnitOf(d[s], k) = Xor([t \in Server \ {s} |-> UnitOf(d[t], k)])
<1> DEFINE f == [t \in Server \ {s} |-> UnitOf(d[t], k)]
<1>1. UnitOf(d[s], k) \subseteq Bit
  BY DEF UnitOf, Zero, Unit
<1>2. ASSUME NEW b \in Bit
      PROVE  b \in UnitOf(d[s], k) <=> Cardinality({t \in DOMAIN f : b \in f[t]}) % 2 = 1
  <2> DEFINE W == With(d, b, k)
  <2>1. {t \in DOMAIN f : b \in f[t]} = W \ {s}
    BY DEF With
  <2>2. IsFiniteSet(W) /\ Cardinality(W) \in Nat /\ Cardinality(W) % 2 = 0
    <3>1. IsFiniteSet(Server) /\ W \in SUBSET Server
      BY SizeFacts, FS_Interval DEF With
    <3> QED
      BY <3>1, FS_Subset, FS_CardinalityType DEF Even
  <2>3. b \in UnitOf(d[s], k) <=> s \in W
    BY DEF With
  <2> HIDE DEF W, f
  <2>4. Cardinality(W \ {s}) = IF s \in W THEN Cardinality(W) - 1 ELSE Cardinality(W)
    BY <2>2, FS_RemoveElement
  <2>5. Cardinality(W \ {s}) \in Nat
    BY <2>2, FS_RemoveElement, FS_CardinalityType
  <2>6. CASE s \in W
    <3>1. Cardinality(W) = Cardinality(W \ {s}) + 1
      BY <2>2, <2>4, <2>6
    <3> QED
      BY <2>1, <2>2, <2>3, <2>5, <2>6, <3>1, NextParity
  <2>7. CASE s \notin W
    <3>1. Cardinality({t \in DOMAIN f : b \in f[t]}) % 2 = 0
      BY <2>1, <2>2, <2>4, <2>7
    <3>2. ~(Cardinality({t \in DOMAIN f : b \in f[t]}) % 2 = 1)
      BY <3>1
    <3> QED
      BY <2>3, <2>7, <3>2
  <2> QED
    BY <2>6, <2>7
<1>3. Xor(f) = {b \in Bit : Cardinality({t \in DOMAIN f : b \in f[t]}) % 2 = 1}
  BY DEF Xor
<1> HIDE DEF f
<1>4. UnitOf(d[s], k) = Xor(f)
  BY <1>1, <1>2, <1>3
<1> QED
  BY <1>4 DEF f

-----------------------------------------------------------------------------
(***************************************************************************)
(* The steps.                                                              *)
(***************************************************************************)
\* Places are numbered from 1.
LEMMA PlaceFacts == Place \subseteq Nat \ {0}
BY SizeFacts DEF Place, Span

\* The units of a place are counted from its offset.
LEMMA SpanFacts ==
    ASSUME NEW o \in Nat, NEW k \in Span(o)
    PROVE  k - o \in 1 .. ChunkSz /\ o + (k - o) = k
BY SizeFacts DEF Span

\* A request to one server leaves the places outside the write even.
LEMMA OutsideKept ==
    ASSUME disk \in [Server -> Seq(Unit)], op.serv \in Server, op.off \in Nat,
           NEW x \in Seq(Unit), Len(x) \in 1 .. ChunkSz, Stored(x) \/ UNCHANGED disk
    PROVE  /\ disk' \in [Server -> Seq(Unit)]
           /\ \A t \in Server : t # op.serv => disk'[t] = disk[t]
           /\ \A t \in Server : Len(disk'[t]) >= Len(disk[t])
           /\ \A t \in Server, k \in Place : k \notin Span(op.off) =>
                 UnitOf(disk'[t], k) = UnitOf(disk[t], k)
           /\ Stored(x) => Len(disk'[op.serv]) >= op.off + Len(x)
           /\ Stored(x) => \A k \in 1 .. Len(x) : UnitOf(disk'[op.serv], op.off + k) = x[k]
           /\ \A k \in Place : k \notin Span(op.off) /\ Even(disk, k) => Even(disk', k)
<1>1. CASE UNCHANGED disk /\ ~Stored(x)
  <2>1. \A k : Even(disk', k) <=> Even(disk, k)
    BY <1>1 DEF Even, With
  <2>2. \A t \in Server : Len(disk'[t]) >= Len(disk[t])
    BY <1>1
  <2> QED
    BY <1>1, <2>1, <2>2
<1>2. CASE Stored(x)
  <2>1. disk' = [disk EXCEPT ![op.serv] = PwriteAt(disk[op.serv], op.off, x)]
    BY <1>2 DEF Stored
  <2>2. /\ PwriteAt(disk[op.serv], op.off, x) \in Seq(Unit)
        /\ Len(PwriteAt(disk[op.serv], op.off, x)) >= Len(disk[op.serv])
        /\ Len(PwriteAt(disk[op.serv], op.off, x)) >= op.off + Len(x)
        /\ \A k \in 1 .. Len(x) :
              UnitOf(PwriteAt(disk[op.serv], op.off, x), op.off + k) = x[k]
        /\ \A k \in Nat \ {0} : k \notin Span(op.off) =>
              UnitOf(PwriteAt(disk[op.serv], op.off, x), k) = UnitOf(disk[op.serv], k)
    <3>1. disk[op.serv] \in Seq(Unit)
      OBVIOUS
    <3> QED
      BY <3>1, PwriteFacts
  <2>3. disk' \in [Server -> Seq(Unit)]
    BY <2>1, <2>2
  <2>4. \A t \in Server : t # op.serv => disk'[t] = disk[t]
    BY <2>1
  <2>5. disk'[op.serv] = PwriteAt(disk[op.serv], op.off, x)
    BY <2>1
  <2>6. ASSUME NEW k \in Place, k \notin Span(op.off)
        PROVE  /\ \A t \in Server : UnitOf(disk'[t], k) = UnitOf(disk[t], k)
               /\ Even(disk, k) => Even(disk', k)
    <3>1. \A t \in Server : UnitOf(disk'[t], k) = UnitOf(disk[t], k)
      BY <2>2, <2>4, <2>5, <2>6, PlaceFacts
    <3>2. \A b \in Bit : With(disk', b, k) = With(disk, b, k)
      BY <3>1 DEF With
    <3> QED
      BY <3>1, <3>2 DEF Even
  <2>7. \A t \in Server : Len(disk'[t]) >= Len(disk[t])
    <3> TAKE t \in Server
    <3>1. CASE t = op.serv
      BY <2>2, <2>5, <3>1
    <3>2. CASE t # op.serv
      BY <2>4, <3>2
    <3> QED
      BY <3>1, <3>2
  <2>8. Len(disk'[op.serv]) >= op.off + Len(x)
    BY <2>2, <2>5
  <2>9. \A k \in 1 .. Len(x) : UnitOf(disk'[op.serv], op.off + k) = x[k]
    BY <2>2, <2>5
  <2> QED
    BY <2>3, <2>4, <2>6, <2>7, <2>8, <2>9
<1> QED
  BY <1>1, <1>2

\* What a request sends is the server's share.
LEMMA SentIsShare ==
    ASSUME Inv, op.pc = "write"
    PROVE  /\ Sent = Share(op.off, op.buf, op.serv)
           /\ Sent \in Seq(Unit) /\ Len(Sent) = ChunkSz
<1>1. /\ op.off \in Offset /\ op.buf \in Stripe /\ op.serv \in Server
      /\ Turn(op.off, op.serv) = op.i /\ op.i \in 0 .. NServers - 1
  BY DEF Inv, WriteInv, Locals
<1>2. CASE op.serv = XorServ(op.off)
  BY <1>2, ParityFacts DEF Sent, Share
<1>3. CASE op.serv # XorServ(op.off)
  <2>1. op.i # NServers - 1
    BY <1>1, <1>3, TurnFacts
  <2>2. op.i \in 0 .. K - 1
    BY <1>1, <2>1, SizeFacts
  <2> QED
    BY <1>1, <1>3, <2>2, ChunkFacts DEF Sent, Share
<1> QED
  BY <1>2, <1>3

\* What a pwrite writes of it: all, or a part.
LEMMA PartFacts ==
    ASSUME Inv, op.pc = "write"
    PROVE  /\ ChunkSz \in 1 .. ChunkSz /\ Part(ChunkSz) = Sent
           /\ \A n \in 1 .. ChunkSz : Part(n) \in Seq(Unit) /\ Len(Part(n)) \in 1 .. ChunkSz
<1>1. Sent \in Seq(Unit) /\ Len(Sent) = ChunkSz /\ ChunkSz \in Nat /\ ChunkSz >= 1
  BY SentIsShare, SizeFacts
<1>2. ASSUME NEW n \in 1 .. ChunkSz
      PROVE  SubSeq(Sent, 1, n) \in Seq(Unit) /\ Len(SubSeq(Sent, 1, n)) = n
  BY <1>1
<1>3. SubSeq(Sent, 1, ChunkSz) = Sent
  BY <1>1
<1> QED
  BY <1>1, <1>2, <1>3 DEF Part

\* A write ends that lost something, or cannot be finished.
LEMMA TornKeeps ==
    ASSUME Inv, op.pc = "write", NEW x \in Seq(Unit), Len(x) \in 1 .. ChunkSz,
           Stored(x) \/ UNCHANGED disk, Torn, op'.pc # "write", "pc" \in DOMAIN op'
    PROVE  Inv'
<1>1. op.serv \in Server /\ op.off \in Nat /\ disk \in [Server -> Seq(Unit)]
  BY SizeFacts DEF Inv, WriteInv, Locals
<1>2. /\ disk' \in [Server -> Seq(Unit)]
      /\ \A k \in Place : k \notin Span(op.off) /\ Even(disk, k) => Even(disk', k)
  BY <1>1, OutsideKept
<1>3. \A k \in Place \ torn' : k \notin Span(op.off) /\ k \notin torn
  BY DEF Torn
<1>4. EvenInv'
  BY <1>2, <1>3 DEF Inv, EvenInv
<1> QED
  BY <1>2, <1>4 DEF Inv, WriteInv

\* Turns of a loop over n servers.
LEMMA TurnOrder ==
    ASSUME NEW n \in Nat, NEW i \in 0 .. n - 1, NEW j \in 0 .. n - 1
    PROVE  /\ j <= i /\ j # i => j < i
           /\ ~(i + 1 < n) => j <= i
           /\ i + 1 < n => i + 1 \in 0 .. n - 1 /\ (j < i + 1 => j <= i)
OBVIOUS

\* The reply of a server, good or bad.
LEMMA RepliedKeeps ==
    ASSUME Inv, op.pc = "write",
           NEW x \in Seq(Unit), Len(x) \in 1 .. ChunkSz, Stored(x) \/ UNCHANGED disk,
           NEW res \in Int, NEW failed \in Nat, NEW lost \in Nat,
           failed = 0 /\ lost = 0 => op.failed = 0 /\ op.lost = 0 /\ Stored(Sent),
           WriteReplied(res, failed, lost)
    PROVE  Inv'
<1>1. /\ op.off \in Offset /\ op.off \in Nat /\ op.buf \in Stripe /\ op.serv \in Server
      /\ op.i \in 0 .. NServers - 1 /\ op.real \in 1 .. StripeSz
      /\ Turn(op.off, op.serv) = op.i
      /\ disk \in [Server -> Seq(Unit)]
  BY SizeFacts DEF Inv, WriteInv, Locals
<1>2. /\ Sent = Share(op.off, op.buf, op.serv)
      /\ Sent \in Seq(Unit) /\ Len(Sent) = ChunkSz
  BY SentIsShare
<1>3. /\ disk' \in [Server -> Seq(Unit)]
      /\ \A t \in Server : t # op.serv => disk'[t] = disk[t]
      /\ Stored(Sent) => \A k \in 1 .. ChunkSz :
            UnitOf(disk'[op.serv], op.off + k) = Share(op.off, op.buf, op.serv)[k]
      /\ \A k \in Place : k \notin Span(op.off) /\ Even(disk, k) => Even(disk', k)
  <2>1. Len(Sent) \in 1 .. ChunkSz
    BY <1>2, SizeFacts
  <2>2. Stored(Sent) => \A k \in 1 .. ChunkSz :
           UnitOf(disk'[op.serv], op.off + k) = Share(op.off, op.buf, op.serv)[k]
    BY <1>1, <1>2, <2>1, OutsideKept
  <2> QED
    BY <1>1, <2>2, OutsideKept
<1>4. ASSUME failed = 0, lost = 0, NEW t \in Server, Turn(op.off, t) <= op.i, NEW k \in 1 .. ChunkSz
      PROVE  UnitOf(disk'[t], op.off + k) = Share(op.off, op.buf, t)[k]
  <2>1. CASE t = op.serv
    BY <1>3, <1>4, <2>1
  <2>2. CASE t # op.serv
    <3>1. Turn(op.off, t) # op.i /\ Turn(op.off, t) \in 0 .. NServers - 1
      BY <1>1, <2>2, TurnFacts
    <3>2. Turn(op.off, t) < op.i
      BY <1>1, <1>4, <3>1, SizeFacts, TurnOrder
    <3>3. UnitOf(disk[t], op.off + k) = Share(op.off, op.buf, t)[k]
      BY <1>4, <3>2 DEF Inv, WriteInv
    <3> QED
      BY <1>3, <2>2, <3>3
  <2> QED
    BY <2>1, <2>2
<1>5. CASE op.i + 1 < NServers
  <2>1. /\ op' = [op EXCEPT !.i = op.i + 1, !.serv = NextServ(op.serv),
                            !.sum = op.sum + res, !.failed = failed, !.lost = lost]
        /\ torn' = torn
    BY <1>5 DEF WriteReplied
  <2>2. op \in Locals /\ op.i + 1 \in 0 .. NServers - 1 /\ NextServ(op.serv) \in Server
    <3>1. op \in Locals
      BY DEF Inv, WriteInv
    <3>2. op.i + 1 \in 0 .. NServers - 1
      BY <1>1, <1>5, SizeFacts, TurnOrder
    <3> QED
      BY <1>1, <3>1, <3>2, NextServFacts
  <2>3. /\ op' \in Locals /\ op'.pc = "write" /\ "pc" \in DOMAIN op'
        /\ op'.off = op.off /\ op'.buf = op.buf /\ op'.failed = failed /\ op'.lost = lost
        /\ op'.i = op.i + 1 /\ op'.serv = NextServ(op.serv)
    <3>1. op.sum + res \in Int
      BY <2>2 DEF Locals
    <3>2. op' = [pc |-> "write", off |-> op.off, buf |-> op.buf, real |-> op.real,
                 i |-> op.i + 1, serv |-> NextServ(op.serv), sum |-> op.sum + res,
                 failed |-> failed, lost |-> lost]
      BY <2>1, <2>2 DEF Locals
    <3>3. /\ op.off \in Offset /\ op.buf \in Stripe /\ op.real \in 1 .. StripeSz
      BY <1>1
    <3> QED
      BY <2>2, <3>1, <3>2, <3>3 DEF Locals
  <2>4. Turn(op'.off, op'.serv) = op'.i
    BY <1>1, <1>5, <2>3, TurnFacts
  <2>5. ASSUME op'.failed = 0, op'.lost = 0, NEW t \in Server, Turn(op'.off, t) < op'.i,
               NEW k \in 1 .. ChunkSz
        PROVE  UnitOf(disk'[t], op'.off + k) = Share(op'.off, op'.buf, t)[k]
    <3>1. Turn(op.off, t) \in 0 .. NServers - 1
      BY <1>1, TurnFacts
    <3>2. Turn(op.off, t) <= op.i
      BY <1>1, <2>3, <2>5, <3>1, SizeFacts
    <3> QED
      BY <1>4, <2>3, <2>5, <3>2
  <2>6. WriteInv'
    BY <2>3, <2>4, <2>5 DEF WriteInv, Locals, Turn, Share
  <2>7. EvenInv'
    <3> SUFFICES ASSUME NEW k \in Place \ torn, k \notin Span(op.off)
                 PROVE  Even(disk', k)
      BY <1>1, <2>1, <2>3, SizeFacts DEF EvenInv
    <3>1. Even(disk, k)
      BY DEF Inv, EvenInv
    <3> QED
      BY <1>3, <3>1
  <2> QED
    BY <1>3, <2>3, <2>6, <2>7 DEF Inv
<1>6. CASE ~(op.i + 1 < NServers)
  <2>1. WriteReturns(Reported(op.sum + res, op.real), failed, lost)
    BY <1>6 DEF WriteReplied
  <2>2. op' = [op EXCEPT !.pc = "wrote", !.sum = Reported(op.sum + res, op.real),
                         !.failed = failed, !.lost = lost]
    BY <2>1 DEF WriteReturns
  <2>3. op'.pc = "wrote" /\ "pc" \in DOMAIN op'
    BY <2>2 DEF Inv
  <2>4. CASE failed > 0 \/ lost > 0
    <3>1. Torn
      BY <2>1, <2>4 DEF WriteReturns
    <3> QED
      BY <2>3, <3>1, TornKeeps
  <2>5. CASE failed = 0 /\ lost = 0
    <3>1. torn' = torn \ Span(op.off)
      BY <2>1, <2>5 DEF WriteReturns, Whole
    <3>2. ASSUME NEW k \in 1 .. ChunkSz PROVE Even(disk', op.off + k)
      <4>1. ASSUME NEW t \in Server PROVE Turn(op.off, t) <= op.i
        <5>1. Turn(op.off, t) \in 0 .. NServers - 1
          BY <1>1, TurnFacts
        <5> QED
          BY <1>1, <1>6, <5>1, SizeFacts, TurnOrder
      <4>2. \A t \in Server : UnitOf(disk'[t], op.off + k) = Share(op.off, op.buf, t)[k]
        BY <1>4, <2>5, <4>1
      <4> QED
        BY <1>1, <4>2, SharesAreEven
    <3>3. ASSUME NEW k \in Place \ torn' PROVE Even(disk', k)
      <4>1. CASE k \in Span(op.off)
        <5>1. k - op.off \in 1 .. ChunkSz /\ op.off + (k - op.off) = k
          BY <1>1, <4>1, SpanFacts
        <5> QED
          BY <3>2, <5>1
      <4>2. CASE k \notin Span(op.off)
        BY <1>3, <3>1, <4>2 DEF Inv, EvenInv
      <4> QED
        BY <4>1, <4>2
    <3> QED
      BY <1>3, <2>3, <3>3 DEF Inv, EvenInv, WriteInv
  <2> QED
    BY <2>4, <2>5
<1> QED
  BY <1>5, <1>6

\* What a request to store does, whole, cut short, or not at all
Attempted(x) ==
    /\ x \in Seq(Unit) /\ Len(x) \in 1 .. ChunkSz
    /\ Stored(x) \/ UNCHANGED disk

\* A request comes back, or a call returns -EPERM and r5_write gives up.
LEMMA WriteRpcKeeps == ASSUME Inv, WriteRpc PROVE Inv'
<1>1. /\ op.pc = "write" /\ Stored(Sent) /\ WriteReplied(ChunkSz, op.failed, op.lost)
      /\ op.failed \in Nat /\ op.lost \in Nat /\ ChunkSz \in Int
  BY SizeFacts DEF WriteRpc, Inv, WriteInv, Locals
<1>2. Sent \in Seq(Unit) /\ Len(Sent) \in 1 .. ChunkSz
  BY <1>1, SentIsShare, SizeFacts
<1> QED
  BY <1>1, <1>2, RepliedKeeps

LEMMA WriteShortKeeps == ASSUME Inv, NEW n \in 1 .. ChunkSz - 1, WriteShort(n) PROVE Inv'
<1>1. /\ op.pc = "write" /\ Stored(Part(n)) /\ op.failed \in Nat /\ op.lost \in Nat
      /\ WriteReplied(n, op.failed, op.lost + (ChunkSz - n))
  BY DEF WriteShort, Inv, WriteInv, Locals
<1>2. /\ n \in 1 .. ChunkSz /\ n \in Int /\ op.lost + (ChunkSz - n) \in Nat
      /\ op.lost + (ChunkSz - n) # 0
  BY <1>1, SizeFacts
<1>3. Part(n) \in Seq(Unit) /\ Len(Part(n)) \in 1 .. ChunkSz
  BY <1>1, <1>2, PartFacts
<1> QED
  BY <1>1, <1>2, <1>3, RepliedKeeps

\* What a request that fails may have stored.
LEMMA FailsAttempts ==
    ASSUME Inv, NEW e \in Errno, WriteFails(e)
    PROVE  \E x : Attempted(x)
<1>1. op.pc = "write"
  BY DEF WriteFails
<1>2. CASE UNCHANGED disk
  BY <1>1, <1>2, PartFacts DEF Attempted
<1>3. CASE \E n \in 1 .. ChunkSz : Stored(Part(n))
  BY <1>1, <1>3, PartFacts DEF Attempted
<1> QED
  BY <1>2, <1>3 DEF WriteFails

LEMMA WriteFailsKeeps == ASSUME Inv, NEW e \in Errno, WriteFails(e) PROVE Inv'
<1>1. /\ op.pc = "write" /\ op.failed \in Nat /\ op.lost \in Nat
      /\ IF e = 1 THEN WriteReturns(-1, op.failed + 1, op.lost)
                  ELSE WriteReplied(0 - e, op.failed + 1, op.lost)
  BY DEF WriteFails, Inv, WriteInv, Locals
<1>2. op.failed + 1 \in Nat /\ op.failed + 1 > 0 /\ 0 - e \in Int
  BY <1>1, Raid5Assumption
<1>3. PICK x : x \in Seq(Unit) /\ Len(x) \in 1 .. ChunkSz /\ (Stored(x) \/ UNCHANGED disk)
  BY FailsAttempts DEF Attempted
<1>4. CASE e = 1
  <2>1. /\ Torn
        /\ op' = [op EXCEPT !.pc = "wrote", !.sum = -1, !.failed = op.failed + 1,
                            !.lost = op.lost]
    BY <1>1, <1>2, <1>4 DEF WriteReturns
  <2>2. op'.pc = "wrote" /\ "pc" \in DOMAIN op'
    BY <2>1 DEF Inv
  <2> QED
    BY <1>1, <1>3, <2>1, <2>2, TornKeeps
<1>5. CASE e # 1
  <2>1. WriteReplied(0 - e, op.failed + 1, op.lost)
    BY <1>1, <1>5
  <2>2. op.failed + 1 # 0
    BY <1>2
  <2> QED
    BY <1>1, <1>2, <1>3, <2>1, <2>2, RepliedKeeps
<1> QED
  BY <1>4, <1>5

\* What leaves the servers' files alone and is no write in progress, before or
\* after.
LEMMA QuietKeeps ==
    ASSUME Inv, op.pc # "write", disk' = disk, torn' = torn, op'.pc # "write",
           "pc" \in DOMAIN op'
    PROVE  Inv'
<1>1. \A k \in Place \ torn : Even(disk, k)
  BY DEF Inv, EvenInv
<1> QED
  BY <1>1 DEF Inv, WriteInv, EvenInv

\* A write begins with the first turn, before anything is stored.
LEMMA CallWriteKeeps ==
    ASSUME Inv, NEW o \in Offset, NEW data \in Data, CallWrite(o, data) PROVE Inv'
<1> DEFINE real == IF Len(data) < StripeSz THEN Len(data) ELSE StripeSz
<1>1. op.pc # "write" /\ disk' = disk /\ torn' = torn
      /\ op' = [pc |-> "write", off |-> o, buf |-> Padded(data), real |-> real, i |-> 0,
                serv |-> NextServ(XorServ(o)), sum |-> 0, failed |-> 0, lost |-> 0]
  BY DEF CallWrite, Idle
<1>2. PICK n \in Size : data \in [1 .. n -> Unit]
  BY DEF Data
<1>3. n \in Nat /\ n >= 1 /\ Len(data) = n
  BY <1>2, Raid5Assumption
<1>4. real \in 1 .. StripeSz
  BY <1>3, SizeFacts
<1>5. Padded(data) \in Stripe
  <2>1. ASSUME NEW k \in 1 .. StripeSz
        PROVE  (IF k <= Len(data) THEN data[k] ELSE Zero) \in Unit
    BY <1>2, <1>3, SizeFacts DEF Zero, Unit
  <2> QED
    BY <2>1 DEF Padded, Stripe
<1>6. NextServ(XorServ(o)) \in Server /\ Turn(o, NextServ(XorServ(o))) = 0
  BY XorServType, NextServFacts, TurnFacts
<1>7. 0 \in 0 .. NServers - 1
  BY SizeFacts
<1> HIDE DEF real
<1>8. op' \in Locals
  BY <1>1, <1>4, <1>5, <1>6, <1>7 DEF Locals
<1>9. op'.off = o /\ op'.i = 0 /\ op'.serv = NextServ(XorServ(o)) /\ "pc" \in DOMAIN op'
  BY <1>1
<1>10. \A t \in Server : ~(Turn(o, t) < 0)
  BY TurnFacts, SizeFacts
<1>11. WriteInv'
  BY <1>6, <1>8, <1>9, <1>10 DEF WriteInv, Turn
<1>12. \A k \in Place \ torn : Even(disk, k)
  BY <1>1 DEF Inv, EvenInv
<1> QED
  BY <1>1, <1>9, <1>11, <1>12 DEF Inv, EvenInv

\* A read changes no server's file.
LEMMA ReadKeeps ==
    ASSUME Inv,
           \/ \E o \in Offset, start \in Uninitialised : CallRead(o, start)
           \/ ReadRpc
           \/ ReadFails
    PROVE  Inv'
<1>1. CASE \E o \in Offset, start \in Uninitialised : CallRead(o, start)
  <2>1. /\ op.pc # "write" /\ disk' = disk /\ torn' = torn
        /\ op'.pc = "read" /\ "pc" \in DOMAIN op'
    BY <1>1 DEF CallRead, Idle
  <2> QED
    BY <2>1, QuietKeeps
<1>2. CASE ReadRpc
  <2>1. op.pc = "read" /\ disk' = disk /\ torn' = torn
    BY <1>2 DEF ReadRpc
  <2>2. PICK got, last : ReadNext(got, last)
    BY <1>2 DEF ReadRpc
  <2> DEFINE o == [op EXCEPT !.i = op.i + 1, !.serv = NextServ(op.serv), !.got = got,
                             !.last = last]
  <2>3. o.pc = "read" /\ "pc" \in DOMAIN o
    BY <2>1 DEF Inv
  <2>4. op' = o \/ op' = [o EXCEPT !.pc = "reply", !.serv = 0]
    BY <2>2 DEF ReadNext
  <2> HIDE DEF o
  <2>5. op'.pc # "write" /\ "pc" \in DOMAIN op'
    BY <2>3, <2>4
  <2> QED
    BY <2>1, <2>5, QuietKeeps
<1>3. CASE ReadFails
  <2>1. /\ op.pc = "read" /\ disk' = disk /\ torn' = torn
        /\ op'.pc = "idle" /\ "pc" \in DOMAIN op'
    BY <1>3 DEF ReadFails, Idle
  <2> QED
    BY <2>1, QuietKeeps
<1> QED
  BY <1>1, <1>2, <1>3

\* A client that dies between two requests of a write leaves it torn, unless
\* it had not begun.
LEMMA ClientCrashKeeps == ASSUME Inv, ClientCrash PROVE Inv'
<1>1. disk' = disk /\ op'.pc = "down" /\ "pc" \in DOMAIN op'
  BY DEF ClientCrash, Die, Down
<1>2. CASE op.pc = "write" /\ op.i > 0
  <2>1. Torn
    BY <1>2 DEF ClientCrash
  <2>2. Zero \in Unit /\ [k \in 1 .. ChunkSz |-> Zero] \in Seq(Unit)
        /\ Len([k \in 1 .. ChunkSz |-> Zero]) \in 1 .. ChunkSz
    BY SizeFacts DEF Zero, Unit
  <2> QED
    BY <1>1, <1>2, <2>1, <2>2, TornKeeps
<1>3. CASE ~(op.pc = "write" /\ op.i > 0)
  <2>1. torn' = torn
    BY <1>3 DEF ClientCrash
  <2>2. \A k \in Place \ torn : Even(disk, k)
    BY <1>3 DEF Inv, EvenInv
  <2> QED
    BY <1>1, <2>1, <2>2 DEF Inv, WriteInv, EvenInv
<1> QED
  BY <1>2, <1>3

LEMMA CutTransferKeeps == ASSUME Inv, CutTransfer PROVE Inv'
<1>1. PICK x \in ChunkOfUnits : Stored(x)
  BY DEF CutTransfer
<1>2. x \in Seq(Unit) /\ Len(x) \in 1 .. ChunkSz
  BY SizeFacts DEF ChunkOfUnits
<1>3. op.pc = "write" /\ Torn /\ op'.pc = "down" /\ "pc" \in DOMAIN op'
  BY DEF CutTransfer, Die, Down
<1> QED
  BY <1>1, <1>2, <1>3, TornKeeps

-----------------------------------------------------------------------------
(***************************************************************************)
(* The theorems.                                                           *)
(***************************************************************************)
LEMMA InitInv == Init => Inv
<1> SUFFICES ASSUME Init PROVE Inv
  OBVIOUS
<1>1. disk = [s \in Server |-> <<>>] /\ op = Idle /\ torn = {}
  BY DEF Init
<1>2. op.pc = "idle" /\ "pc" \in DOMAIN op
  BY <1>1 DEF Idle
<1>3. ASSUME NEW k \in Place PROVE Even(disk, k)
  <2>1. \A t \in Server : UnitOf(disk[t], k) = {}
    BY <1>1, PlaceFacts DEF UnitOf, Zero
  <2>2. \A b \in Bit : With(disk, b, k) = {}
    BY <2>1 DEF With
  <2>3. Cardinality({}) % 2 = 0
    BY FS_EmptySet
  <2> QED
    BY <2>2, <2>3 DEF Even
<1> QED
  BY <1>1, <1>2, <1>3 DEF Inv, WriteInv, EvenInv

LEMMA NextInv == Inv /\ [Next]_vars => Inv'
<1> SUFFICES ASSUME Inv, [Next]_vars PROVE Inv'
  OBVIOUS
<1>1. ASSUME NEW o \in Offset, NEW data \in Data, CallWrite(o, data) PROVE Inv'
  BY <1>1, CallWriteKeeps
<1>2. CASE \/ \E o \in Offset, start \in Uninitialised : CallRead(o, start)
           \/ ReadRpc
           \/ ReadFails
  BY <1>2, ReadKeeps
<1>3. CASE WriteRpc
  BY <1>3, WriteRpcKeeps
<1>4. ASSUME NEW e \in Errno, WriteFails(e) PROVE Inv'
  BY <1>4, WriteFailsKeeps
<1>10. ASSUME NEW n \in 1 .. ChunkSz - 1, WriteShort(n) PROVE Inv'
  BY <1>10, WriteShortKeeps
<1>5. CASE Return
  <2>1. /\ op.pc # "write" /\ disk' = disk /\ torn' = torn
        /\ op'.pc = "idle" /\ "pc" \in DOMAIN op'
    BY <1>5 DEF Return, Idle
  <2> QED
    BY <2>1, QuietKeeps
<1>6. CASE ClientCrash
  BY <1>6, ClientCrashKeeps
<1>7. CASE CutTransfer
  BY <1>7, CutTransferKeeps
<1>8. CASE Remount
  <2>1. /\ op.pc # "write" /\ disk' = disk /\ torn' = torn
        /\ op'.pc = "idle" /\ "pc" \in DOMAIN op'
    BY <1>8 DEF Remount, Idle, Down
  <2> QED
    BY <2>1, QuietKeeps
<1>9. CASE UNCHANGED vars
  BY <1>9 DEF vars, Inv, WriteInv, EvenInv
<1> QED
  BY <1>1, <1>2, <1>3, <1>4, <1>5, <1>6, <1>7, <1>8, <1>9, <1>10 DEF Next, Handler

\* The inductive invariant.
THEOREM Invariance == Spec => []Inv
<1> QED
  BY InitInv, NextInv, PTL DEF Spec

\* Whatever one server kept can be computed from the others, except where a
\* write was lost halfway or is in progress: r5_write, for any number of
\* servers, any stripe and any order of overlapping writes.
THEOREM Recovery == Spec => []Recoverable
<1>1. Inv => Recoverable
  <2> SUFFICES ASSUME Inv, NEW k \in Place \ (torn \cup InWrite), NEW s \in Server
               PROVE  UnitOf(disk[s], k) = Xor([t \in Server \ {s} |-> UnitOf(disk[t], k)])
    BY DEF Recoverable
  <2>1. Even(disk, k)
    BY DEF Inv, EvenInv, InWrite
  <2> QED
    BY <2>1, PlaceFacts, EvenIsRecoverable DEF Inv
<1> QED
  BY <1>1, Invariance, PTL

-----------------------------------------------------------------------------
(***************************************************************************)
(* Types.                                                                  *)
(***************************************************************************)
TypeInv ==
    /\ TypeOK
    /\ op.pc = "write" => op.failed <= op.i
    /\ op.pc = "read" => op.i < NServers /\ op.last <= Len(op.got)

\* Which locals a handler has.
LEMMA OpKinds ==
    ASSUME TypeOK
    PROVE  /\ op.pc \in {"write", "wrote"} => op \in WriteOp
           /\ op.pc \in {"read", "reply"} => op \in ReadOp
           /\ "pc" \in DOMAIN op
BY DEF TypeOK, WriteOp, ReadOp, Idle, Down

\* The locals of a write.
LEMMA WriteLocals ==
    ASSUME op \in WriteOp
    PROVE  /\ op.off \in Offset /\ op.off \in Nat /\ op.buf \in Stripe
           /\ op.real \in 1 .. StripeSz /\ op.real \in Nat /\ op.serv \in Server
           /\ op.i \in Nat /\ op.i < NServers /\ op.sum \in Int
           /\ op.failed \in Nat /\ op.lost \in Nat
<1>1. /\ op.off \in Offset /\ op.buf \in Stripe /\ op.real \in 1 .. StripeSz
      /\ op.serv \in Server /\ op.i \in 0 .. NServers - 1 /\ op.sum \in Int
      /\ op.failed \in 0 .. NServers /\ op.lost \in Nat
  BY DEF WriteOp
<1>2. op.i \in Nat /\ op.i < NServers /\ op.failed \in Nat
  BY <1>1, SizeFacts
<1>3. op.real \in Nat
  BY <1>1
<1>4. op.off \in Nat
  BY <1>1, SizeFacts
<1> QED
  BY <1>1, <1>2, <1>3, <1>4

\* The step after a reply to a write: on to the next server, or the return.
LEMMA WriteRepliedFacts ==
    ASSUME op \in WriteOp, NEW res, NEW failed, NEW lost, WriteReplied(res, failed, lost)
    PROVE  \/ /\ op.i + 1 < NServers
              /\ op' = [pc |-> op.pc, off |-> op.off, buf |-> op.buf, real |-> op.real,
                        i |-> op.i + 1, serv |-> NextServ(op.serv),
                        sum |-> op.sum + res, failed |-> failed, lost |-> lost]
              /\ UNCHANGED <<torn, written, acked>>
           \/ /\ ~(op.i + 1 < NServers)
              /\ WriteReturns(Reported(op.sum + res, op.real), failed, lost)
BY DEF WriteReplied, WriteOp

LEMMA WriteReturnsFacts ==
    ASSUME op \in WriteOp, NEW sum, NEW failed, NEW lost, WriteReturns(sum, failed, lost)
    PROVE  /\ op' = [pc |-> "wrote", off |-> op.off, buf |-> op.buf, real |-> op.real,
                     i |-> op.i, serv |-> op.serv, sum |-> sum, failed |-> failed, lost |-> lost]
           /\ IF failed > 0 \/ lost > 0 THEN Torn ELSE Whole
BY DEF WriteReturns, WriteOp

\* The histories stay of their types, whatever becomes of a write.
LEMMA HistoryTypes ==
    ASSUME TypeOK, op \in WriteOp, Torn \/ Whole \/ UNCHANGED <<torn, written, acked>>
    PROVE  /\ torn' \subseteq Place
           /\ written' \in [Offset -> Stripe \cup {NoStripe}]
           /\ acked' \in Nat
<1>1. /\ op.off \in Offset /\ op.off \in Nat /\ op.buf \in Stripe /\ op.real \in Nat
      /\ torn \subseteq Place /\ written \in [Offset -> Stripe \cup {NoStripe}]
      /\ acked \in Nat
  BY WriteLocals DEF TypeOK
<1>2. Span(op.off) \subseteq Place
  BY <1>1 DEF Place
<1>3. CASE Torn
  BY <1>1, <1>2, <1>3 DEF Torn
<1>4. CASE Whole
  BY <1>1, <1>4 DEF Whole
<1>5. CASE UNCHANGED <<torn, written, acked>>
  BY <1>1, <1>5
<1> QED
  BY <1>3, <1>4, <1>5

\* What a request of a write stores, well or badly.
LEMMA RequestStores ==
    ASSUME Inv, TypeOK, op.pc = "write",
           NEW x, Attempted(x)
    PROVE  /\ op \in WriteOp /\ op.off \in Nat /\ op.serv \in Server
           /\ op.i \in Nat /\ op.i < NServers
           /\ disk \in [Server -> Seq(Unit)] /\ disk' \in [Server -> Seq(Unit)]
           /\ \A t \in Server : t # op.serv => disk'[t] = disk[t]
           /\ \A t \in Server : Len(disk'[t]) >= Len(disk[t])
           /\ \A t \in Server, k \in Place : k \notin Span(op.off) =>
                 UnitOf(disk'[t], k) = UnitOf(disk[t], k)
           /\ Stored(Sent) =>
                 /\ Len(disk'[op.serv]) >= op.off + ChunkSz
                 /\ \A k \in 1 .. ChunkSz :
                       UnitOf(disk'[op.serv], op.off + k) = Share(op.off, op.buf, op.serv)[k]
<1>1. op \in WriteOp
  BY OpKinds
<1>2. op.off \in Nat /\ op.serv \in Server /\ op.i \in Nat /\ op.i < NServers
  BY <1>1, WriteLocals
<1>3. disk \in [Server -> Seq(Unit)]
  BY DEF TypeOK
<1>4. Sent = Share(op.off, op.buf, op.serv) /\ Sent \in Seq(Unit) /\ Len(Sent) = ChunkSz
  BY SentIsShare
<1> QED
  <2>1. x \in Seq(Unit) /\ Len(x) \in 1 .. ChunkSz /\ (Stored(x) \/ UNCHANGED disk)
    BY DEF Attempted
  <2>2. Len(Sent) \in 1 .. ChunkSz
    BY <1>4, SizeFacts
  <2>3. Stored(Sent) =>
           /\ Len(disk'[op.serv]) >= op.off + ChunkSz
           /\ \A k \in 1 .. ChunkSz :
                 UnitOf(disk'[op.serv], op.off + k) = Share(op.off, op.buf, op.serv)[k]
    BY <1>2, <1>3, <1>4, <2>2, OutsideKept
  <2> QED
    BY <1>1, <1>2, <1>3, <2>1, <2>3, OutsideKept

\* A write goes on, or returns.
LEMMA ReplyTypes ==
    ASSUME Inv, TypeInv, op.pc = "write", NEW x, Attempted(x),
           UNCHANGED cache, faults' \in 0 .. MaxFaults,
           NEW res \in Int, NEW failed \in Nat, NEW lost \in Nat, failed <= op.failed + 1,
           \/ WriteReplied(res, failed, lost)
           \/ WriteReturns(res, failed, lost)
    PROVE  TypeInv'
<1>1. /\ op \in WriteOp /\ op.i \in Nat /\ op.i < NServers
      /\ disk' \in [Server -> Seq(Unit)] /\ op.serv \in Server
  BY RequestStores DEF TypeInv
<1>2. /\ op.off \in Offset /\ op.buf \in Stripe /\ op.real \in 1 .. StripeSz
      /\ op.sum \in Int /\ op.failed \in Nat /\ op.failed <= op.i
  BY <1>1, WriteLocals DEF TypeInv
<1>3. failed <= op.i + 1 /\ failed \in 0 .. NServers
  BY <1>1, <1>2, ServerCount
<1>4. ASSUME NEW sum \in Int, WriteReturns(sum, failed, lost) PROVE TypeInv'
  <2>1. /\ op' = [pc |-> "wrote", off |-> op.off, buf |-> op.buf, real |-> op.real,
                  i |-> op.i, serv |-> op.serv, sum |-> sum, failed |-> failed, lost |-> lost]
        /\ Torn \/ Whole
    BY <1>1, <1>4, WriteReturnsFacts
  <2>2. op' \in WriteOp /\ op'.pc = "wrote"
    BY <1>1, <1>2, <1>3, <1>4, <2>1 DEF WriteOp
  <2> QED
    BY <1>1, <2>1, <2>2, HistoryTypes DEF TypeInv, TypeOK
<1>5. CASE WriteReplied(res, failed, lost) /\ op.i + 1 < NServers
  <2>1. /\ op' = [pc |-> op.pc, off |-> op.off, buf |-> op.buf, real |-> op.real,
                  i |-> op.i + 1, serv |-> NextServ(op.serv),
                  sum |-> op.sum + res, failed |-> failed, lost |-> lost]
        /\ UNCHANGED <<torn, written, acked>>
    BY <1>1, <1>5, WriteRepliedFacts
  <2>2. NextServ(op.serv) \in Server /\ op.sum + res \in Int /\ op.i + 1 \in 0 .. NServers - 1
    <3>1. op.i + 1 \in 0 .. NServers - 1
      BY <1>1, <1>5, ServerCount
    <3> QED
      BY <1>1, <1>2, <3>1, NextServFacts
  <2>3. op' \in WriteOp
    BY <1>2, <1>3, <2>1, <2>2 DEF WriteOp
  <2>4. op'.pc = "write" /\ op'.failed <= op'.i
    BY <1>3, <2>1
  <2> QED
    BY <1>1, <2>1, <2>3, <2>4, HistoryTypes DEF TypeInv, TypeOK
<1>6. CASE WriteReplied(res, failed, lost) /\ ~(op.i + 1 < NServers)
  <2>1. WriteReturns(Reported(op.sum + res, op.real), failed, lost)
    BY <1>1, <1>6, WriteRepliedFacts
  <2>2. Reported(op.sum + res, op.real) \in Int
    BY <1>2 DEF Reported
  <2> QED
    BY <1>4, <2>1, <2>2
<1> QED
  BY <1>4, <1>5, <1>6

\* A request that is carried out stores its chunk.
LEMMA SentAttempted ==
    ASSUME Inv, op.pc = "write", Stored(Sent) PROVE Attempted(Sent)
BY SentIsShare, SizeFacts DEF Attempted

LEMMA PartAttempted ==
    ASSUME Inv, op.pc = "write", NEW n \in 1 .. ChunkSz - 1, Stored(Part(n))
    PROVE  Attempted(Part(n))
<1>1. n \in 1 .. ChunkSz
  BY SizeFacts
<1> QED
  BY <1>1, PartFacts DEF Attempted

LEMMA WriteRpcTypes == ASSUME Inv, TypeInv, WriteRpc PROVE TypeInv'
<1>1. op \in WriteOp /\ op.pc = "write"
  BY OpKinds DEF TypeInv, WriteRpc
<1>2. /\ op.failed \in Nat /\ op.failed <= op.failed + 1 /\ op.lost \in Nat
      /\ ChunkSz \in Int
  BY <1>1, WriteLocals, SizeFacts
<1>3. Attempted(Sent)
  BY <1>1, SentAttempted DEF WriteRpc
<1> QED
  BY <1>1, <1>2, <1>3, ReplyTypes DEF WriteRpc, TypeInv, TypeOK

LEMMA WriteShortTypes ==
    ASSUME Inv, TypeInv, NEW n \in 1 .. ChunkSz - 1, WriteShort(n) PROVE TypeInv'
<1>1. op \in WriteOp /\ op.pc = "write"
  BY OpKinds DEF TypeInv, WriteShort
<1>2. /\ op.failed \in Nat /\ op.failed <= op.failed + 1 /\ n \in Int
      /\ op.lost + (ChunkSz - n) \in Nat
  BY <1>1, WriteLocals, SizeFacts
<1>3. Attempted(Part(n))
  BY <1>1, PartAttempted DEF WriteShort
<1>4. faults' \in 0 .. MaxFaults
  BY Raid5Assumption DEF WriteShort, Inject, TypeInv, TypeOK
<1> QED
  BY <1>1, <1>2, <1>3, <1>4, ReplyTypes DEF WriteShort

LEMMA WriteFailsTypes ==
    ASSUME Inv, TypeInv, NEW e \in Errno, WriteFails(e) PROVE TypeInv'
<1>1. op \in WriteOp /\ op.pc = "write"
  BY OpKinds DEF TypeInv, WriteFails
<1>2. /\ op.failed + 1 \in Nat /\ op.failed + 1 <= op.failed + 1 /\ -1 \in Int
      /\ 0 - e \in Int /\ op.lost \in Nat
  BY <1>1, WriteLocals, Raid5Assumption
<1>3. faults' \in 0 .. MaxFaults
  BY Raid5Assumption DEF WriteFails, Inject, TypeInv, TypeOK
<1>4. PICK x : Attempted(x)
  BY FailsAttempts
<1>5. CASE e = 1
  BY <1>1, <1>2, <1>3, <1>4, <1>5, ReplyTypes DEF WriteFails
<1>6. CASE e # 1
  BY <1>1, <1>2, <1>3, <1>4, <1>6, ReplyTypes DEF WriteFails
<1> QED
  BY <1>5, <1>6

\* The locals a write begins with.
LEMMA CallWriteFacts ==
    ASSUME NEW o \in Offset, NEW data \in Data, CallWrite(o, data)
    PROVE  /\ op = Idle /\ UNCHANGED <<disk, cache, faults, torn, written, acked>>
           /\ op' \in WriteOp /\ op'.pc = "write" /\ op'.off = o /\ op'.i = 0
           /\ op'.sum = 0 /\ op'.failed = 0 /\ op'.lost = 0
<1> DEFINE real == IF Len(data) < StripeSz THEN Len(data) ELSE StripeSz
<1>1. op' = [pc |-> "write", off |-> o, buf |-> Padded(data), real |-> real, i |-> 0,
             serv |-> NextServ(XorServ(o)), sum |-> 0, failed |-> 0, lost |-> 0]
  BY DEF CallWrite
<1>2. PICK n \in Size : data \in [1 .. n -> Unit]
  BY DEF Data
<1>3. n \in Nat /\ n >= 1 /\ Len(data) = n
  BY <1>2, Raid5Assumption
<1>4. real \in 1 .. StripeSz
  BY <1>3, SizeFacts
<1>5. Padded(data) \in Stripe
  <2>1. ASSUME NEW k \in 1 .. StripeSz
        PROVE  (IF k <= Len(data) THEN data[k] ELSE Zero) \in Unit
    BY <1>2, <1>3, SizeFacts DEF Zero, Unit
  <2> QED
    BY <2>1 DEF Padded, Stripe
<1>6. NextServ(XorServ(o)) \in Server
  BY XorServType, NextServFacts
<1>7. 0 \in 0 .. NServers - 1 /\ 0 \in 0 .. NServers
  BY SizeFacts
<1> HIDE DEF real
<1> QED
  BY <1>1, <1>4, <1>5, <1>6, <1>7 DEF CallWrite, WriteOp

LEMMA CallWriteTypes ==
    ASSUME TypeInv, NEW o \in Offset, NEW data \in Data, CallWrite(o, data)
    PROVE  TypeInv'
BY CallWriteFacts DEF TypeInv, TypeOK

\* Server numbers stay integers, whatever the first one was.
LEMMA NextServType == ASSUME NEW s \in Int PROVE NextServ(s) \in Int
<1>1. NServers \in Nat /\ NServers >= 2
  BY SizeFacts
<1>2. \A a \in Int : a % NServers \in Int
  BY <1>1
<1>3. CMod(s + 1, NServers) \in Int
  BY <1>1, <1>2 DEF CMod
<1> QED
  BY <1>1, <1>3 DEF NextServ

LEMMA CallReadTypes ==
    ASSUME TypeInv, NEW o \in Offset, NEW start \in Uninitialised, CallRead(o, start)
    PROVE  TypeInv'
<1>1. start \in Int
  BY SizeFacts DEF Uninitialised
<1>2. NextServ(start) \in Int /\ 0 \in 0 .. NServers /\ 0 \in 0 .. ChunkSz
      /\ <<>> \in Seq(Unit \cup {Junk}) /\ 0 < NServers /\ Len(<<>>) = 0
  BY <1>1, SizeFacts, NextServType
<1>3. op' = [pc |-> "read", off |-> o, i |-> 0, start |-> start,
             serv |-> NextServ(start), got |-> <<>>, last |-> 0]
  BY DEF CallRead
<1>4. op' \in ReadOp
  BY <1>1, <1>2, <1>3 DEF ReadOp
<1> QED
  BY <1>2, <1>3, <1>4 DEF CallRead, TypeInv, TypeOK

\* What a server that was asked sends: at most a chunk, and the whole chunk of
\* a file that is long enough.
LEMMA PreadFacts ==
    ASSUME NEW d \in Seq(Unit), NEW o \in Nat
    PROVE  /\ PreadAt(d, o) \in Seq(Unit) /\ Len(PreadAt(d, o)) \in 0 .. ChunkSz
           /\ Len(d) >= o + ChunkSz =>
                 /\ Len(PreadAt(d, o)) = ChunkSz
                 /\ \A k \in 1 .. ChunkSz : PreadAt(d, o)[k] = UnitOf(d, o + k)
<1> DEFINE n == IF Len(d) < o + ChunkSz THEN Len(d) ELSE o + ChunkSz
<1>1. /\ n \in Int /\ o + 1 \in Int /\ Len(d) \in Nat /\ ChunkSz \in Nat /\ ChunkSz >= 1
      /\ n <= Len(d) /\ n <= o + ChunkSz
  BY SizeFacts
<1>2. \A i \in o + 1 .. n : d[i] \in Unit
  BY <1>1
<1>3. PreadAt(d, o) = SubSeq(d, o + 1, n)
  BY DEF PreadAt
<1>4. Len(d) >= o + ChunkSz => n = o + ChunkSz
  BY <1>1
<1> HIDE DEF n
<1>5. /\ SubSeq(d, o + 1, n) \in Seq(Unit)
      /\ Len(SubSeq(d, o + 1, n)) = IF o + 1 <= n THEN n - (o + 1) + 1 ELSE 0
      /\ \A i \in 1 .. n - (o + 1) + 1 : SubSeq(d, o + 1, n)[i] = d[(o + 1) + i - 1]
  BY <1>1, <1>2, SubSeqProperties
<1>6. Len(PreadAt(d, o)) \in 0 .. ChunkSz
  BY <1>1, <1>3, <1>5
<1>7. ASSUME Len(d) >= o + ChunkSz
      PROVE  /\ Len(PreadAt(d, o)) = ChunkSz
             /\ \A k \in 1 .. ChunkSz : PreadAt(d, o)[k] = UnitOf(d, o + k)
  <2>1. n = o + ChunkSz /\ n - (o + 1) + 1 = ChunkSz
    BY <1>1, <1>4, <1>7
  <2>2. ASSUME NEW k \in 1 .. ChunkSz PROVE PreadAt(d, o)[k] = UnitOf(d, o + k)
    <3>1. (o + 1) + k - 1 = o + k /\ o + k <= Len(d)
      BY <1>1, <1>7
    <3> QED
      BY <1>3, <1>5, <2>1, <3>1 DEF UnitOf
  <2> QED
    BY <1>1, <1>3, <1>5, <2>1, <2>2
<1> QED
  BY <1>3, <1>5, <1>6, <1>7

\* What becomes of it in the buffer: always a whole chunk.
LEMMA ReceivedFacts ==
    ASSUME NEW x \in Seq(Unit \cup {Junk}), Len(x) \in 0 .. ChunkSz
    PROVE  /\ Received(x) \in Seq(Unit \cup {Junk}) /\ Len(Received(x)) = ChunkSz
           /\ \A k \in 1 .. Len(x) : Received(x)[k] = x[k]
<1>1. \A k \in 1 .. ChunkSz : (IF k <= Len(x) THEN x[k] ELSE Junk) \in Unit \cup {Junk}
  OBVIOUS
<1>2. Received(x) \in [1 .. ChunkSz -> Unit \cup {Junk}]
  BY <1>1 DEF Received
<1>3. \A k \in 1 .. Len(x) : Received(x)[k] = x[k]
  BY SizeFacts DEF Received
<1> QED
  BY <1>2, <1>3, SizeFacts

\* What an answer may be.
LEMMA SendsFacts ==
    ASSUME TypeOK, op \in ReadOp, NEW x \in Sends
    PROVE  /\ x \in Seq(Unit \cup {Junk}) /\ Len(x) \in 0 .. ChunkSz
           /\ op.serv \in Server => x = PreadAt(disk[op.serv], op.off)
<1>1. CASE op.serv \in Server
  <2>1. x = PreadAt(disk[op.serv], op.off) /\ disk[op.serv] \in Seq(Unit) /\ op.off \in Nat
    BY <1>1, SizeFacts DEF Sends, TypeOK, ReadOp
  <2>2. x \in Seq(Unit) /\ Len(x) \in 0 .. ChunkSz
    BY <2>1, PreadFacts
  <2> QED
    BY <2>1, <2>2, SeqMonotonic
<1>2. CASE op.serv \notin Server
  <2>1. PICK n \in 0 .. ChunkSz : x = [k \in 1 .. n |-> Junk]
    BY <1>2 DEF Sends
  <2>2. n \in Nat /\ x \in [1 .. n -> Unit \cup {Junk}]
    BY <2>1, SizeFacts
  <2> QED
    BY <1>2, <2>1, <2>2
<1> QED
  BY <1>1, <1>2

\* The step of a read with one server: got and last are what buf and res become.
LEMMA ReadRpcFacts ==
    ASSUME TypeInv, ReadRpc
    PROVE  /\ op \in ReadOp /\ op.pc = "read" /\ UNCHANGED <<disk, faults, torn, written, acked>>
           /\ \E got, last :
                 /\ \/ SkipsServer /\ got = op.got /\ last = op.last
                    \/ /\ ~SkipsServer
                       /\ \E x \in Sends : got = op.got \o Received(x) /\ last = Len(x)
                 /\ got \in Seq(Unit \cup {Junk}) /\ last \in 0 .. ChunkSz /\ last <= Len(got)
                 /\ op.i + 1 < NServers =>
                       /\ op' = [pc |-> "read", off |-> op.off, i |-> op.i + 1,
                                 start |-> op.start, serv |-> NextServ(op.serv),
                                 got |-> got, last |-> last]
                       /\ UNCHANGED cache
                 /\ ~(op.i + 1 < NServers) =>
                       /\ op' = [pc |-> "reply", off |-> op.off, i |-> op.i + 1,
                                 start |-> op.start, serv |-> 0,
                                 got |-> got, last |-> last]
                       /\ cache' = IF last = 0 THEN cache
                                   ELSE [off |-> op.off, len |-> last]
<1>1. /\ op \in ReadOp /\ op.pc = "read" /\ UNCHANGED <<disk, faults, torn, written, acked>>
      /\ TypeOK /\ op.last <= Len(op.got)
  BY OpKinds DEF TypeInv, ReadRpc
<1>2. ASSUME NEW got, NEW last, ReadNext(got, last)
      PROVE  /\ op.i + 1 < NServers =>
                   /\ op' = [pc |-> "read", off |-> op.off, i |-> op.i + 1,
                             start |-> op.start, serv |-> NextServ(op.serv),
                             got |-> got, last |-> last]
                   /\ UNCHANGED cache
             /\ ~(op.i + 1 < NServers) =>
                   /\ op' = [pc |-> "reply", off |-> op.off, i |-> op.i + 1,
                             start |-> op.start, serv |-> 0,
                             got |-> got, last |-> last]
                   /\ cache' = IF last = 0 THEN cache
                               ELSE [off |-> op.off, len |-> last]
  <2> DEFINE o == [op EXCEPT !.i = op.i + 1, !.serv = NextServ(op.serv),
                             !.got = got, !.last = last]
             e == [o EXCEPT !.pc = "reply", !.serv = 0]
  <2>1. IF o.i < NServers
        THEN op' = o /\ UNCHANGED cache
        ELSE /\ op' = e
             /\ cache' = IF last = 0 THEN cache
                         ELSE [off |-> op.off, len |-> last]
    BY <1>2 DEF ReadNext
  <2>2. /\ o = [op EXCEPT !.i = op.i + 1, !.serv = NextServ(op.serv),
                         !.got = got, !.last = last]
        /\ e = [[op EXCEPT !.i = op.i + 1, !.serv = NextServ(op.serv),
                          !.got = got, !.last = last] EXCEPT !.pc = "reply", !.serv = 0]
    OBVIOUS
  <2> HIDE DEF o, e
  <2>3. o = [pc |-> "read", off |-> op.off, i |-> op.i + 1, start |-> op.start,
             serv |-> NextServ(op.serv), got |-> got, last |-> last]
    BY ONLY <1>1, <2>2 DEF ReadOp
  <2>4. e = [pc |-> "reply", off |-> op.off, i |-> op.i + 1, start |-> op.start,
             serv |-> 0, got |-> got, last |-> last]
    BY ONLY <1>1, <2>2 DEF ReadOp
  <2>5. o.i = op.i + 1
    BY <2>3
  <2> QED
    BY <2>1, <2>3, <2>4, <2>5
<1>3. CASE SkipsServer
  <2>1. ReadNext(op.got, op.last)
    BY <1>3 DEF ReadRpc
  <2>2. op.got \in Seq(Unit \cup {Junk}) /\ op.last \in 0 .. ChunkSz
    BY <1>1 DEF ReadOp
  <2> QED
    BY <1>1, <1>2, <1>3, <2>1, <2>2
<1>4. CASE ~SkipsServer
  <2>1. PICK x \in Sends : ReadNext(op.got \o Received(x), Len(x))
    BY <1>4 DEF ReadRpc
  <2>2. x \in Seq(Unit \cup {Junk}) /\ Len(x) \in 0 .. ChunkSz
    BY <1>1, SendsFacts
  <2>3. Received(x) \in Seq(Unit \cup {Junk}) /\ Len(Received(x)) = ChunkSz
    BY <2>2, ReceivedFacts
  <2>4. op.got \in Seq(Unit \cup {Junk})
    BY <1>1 DEF ReadOp
  <2>5. /\ op.got \o Received(x) \in Seq(Unit \cup {Junk})
        /\ Len(op.got \o Received(x)) = Len(op.got) + ChunkSz /\ Len(op.got) \in Nat
    BY <2>3, <2>4, ConcatProperties, LenProperties
  <2>6. Len(x) <= Len(op.got \o Received(x))
    BY <2>2, <2>5, SizeFacts
  <2> QED
    BY <1>1, <1>2, <1>4, <2>1, <2>2, <2>5, <2>6
<1> QED
  BY <1>3, <1>4

LEMMA ReadRpcTypes == ASSUME TypeInv, ReadRpc PROVE TypeInv'
<1>1. op \in ReadOp /\ op.pc = "read" /\ UNCHANGED <<disk, faults, torn, written, acked>>
  BY ReadRpcFacts
<1>2. PICK got, last :
         /\ got \in Seq(Unit \cup {Junk}) /\ last \in 0 .. ChunkSz /\ last <= Len(got)
         /\ op.i + 1 < NServers =>
               /\ op' = [pc |-> "read", off |-> op.off, i |-> op.i + 1,
                         start |-> op.start, serv |-> NextServ(op.serv),
                         got |-> got, last |-> last]
               /\ UNCHANGED cache
         /\ ~(op.i + 1 < NServers) =>
               /\ op' = [pc |-> "reply", off |-> op.off, i |-> op.i + 1,
                         start |-> op.start, serv |-> 0, got |-> got, last |-> last]
               /\ cache' = IF last = 0 THEN cache
                           ELSE [off |-> op.off, len |-> last]
  BY ReadRpcFacts
<1>3. /\ op.off \in Offset /\ op.i \in Nat /\ op.i < NServers /\ op.start \in Int
      /\ op.serv \in Int
  BY <1>1, SizeFacts DEF ReadOp, TypeInv
<1>4. op.i + 1 \in 0 .. NServers /\ NextServ(op.serv) \in Int
  <2>1. op.i + 1 \in 0 .. NServers
    BY <1>3, SizeFacts
  <2> QED
    BY <1>3, <2>1, NextServType
<1>5. op' \in ReadOp
  BY <1>2, <1>3, <1>4 DEF ReadOp
<1>6. op'.pc # "write" /\ (op'.pc = "read" => op'.i < NServers /\ op'.last <= Len(op'.got))
  BY <1>2
<1>7. cache' \in [off : Offset, len : 1 .. ChunkSz] \cup {NoNode}
  <2>1. CASE cache' = cache
    BY <2>1 DEF TypeInv, TypeOK
  <2>2. CASE last # 0 /\ cache' = [off |-> op.off, len |-> last]
    <3>1. last \in 1 .. ChunkSz
      BY <1>2, <2>2, SizeFacts
    <3> QED
      BY <1>3, <2>2, <3>1
  <2> QED
    BY <1>2, <2>1, <2>2
<1> QED
  BY <1>1, <1>5, <1>6, <1>7 DEF TypeInv, TypeOK

\* The steps that end a handler.
LEMMA EndTypes ==
    ASSUME Inv, TypeInv, ReadFails \/ Return \/ ClientCrash \/ CutTransfer \/ Remount
    PROVE  TypeInv'
<1>1. CASE ReadFails \/ Return \/ Remount
  <2>1. faults' \in 0 .. MaxFaults
    BY <1>1, Raid5Assumption DEF ReadFails, Return, Remount, Inject, TypeInv, TypeOK
  <2> QED
    BY <1>1, <2>1 DEF ReadFails, Return, Remount, Idle, TypeInv, TypeOK
<1>2. CASE ClientCrash
  <2>1. faults' \in 0 .. MaxFaults
    BY <1>2, Raid5Assumption DEF ClientCrash, Inject, TypeInv, TypeOK
  <2>2. /\ torn' \subseteq Place
        /\ written' \in [Offset -> Stripe \cup {NoStripe}]
        /\ acked' \in Nat
    <3>1. CASE op.pc = "write" /\ op.i > 0
      BY <1>2, <3>1, OpKinds, HistoryTypes DEF ClientCrash, TypeInv
    <3>2. CASE ~(op.pc = "write" /\ op.i > 0)
      BY <1>2, <3>2 DEF ClientCrash, TypeInv, TypeOK
    <3> QED
      BY <3>1, <3>2
  <2> QED
    BY <1>2, <2>1, <2>2 DEF ClientCrash, Die, Down, TypeInv, TypeOK
<1>3. CASE CutTransfer
  <2>1. faults' \in 0 .. MaxFaults
    BY <1>3, Raid5Assumption DEF CutTransfer, Inject, TypeInv, TypeOK
  <2>2. op \in WriteOp
    BY <1>3, OpKinds DEF CutTransfer, TypeInv
  <2>3. /\ torn' \subseteq Place
        /\ written' \in [Offset -> Stripe \cup {NoStripe}]
        /\ acked' \in Nat
    BY <1>3, <2>2, HistoryTypes DEF CutTransfer, TypeInv
  <2>4. disk' \in [Server -> Seq(Unit)]
    <3>1. PICK x \in ChunkOfUnits : Stored(x)
      BY <1>3 DEF CutTransfer
    <3>2. x \in Seq(Unit) /\ Len(x) \in 1 .. ChunkSz
      BY SizeFacts DEF ChunkOfUnits
    <3>3. op.off \in Nat /\ op.serv \in Server
      BY <2>2, WriteLocals
    <3> QED
      BY <3>1, <3>2, <3>3, OutsideKept DEF TypeInv, TypeOK
  <2> QED
    BY <1>3, <2>1, <2>3, <2>4 DEF CutTransfer, Die, Down, TypeInv, TypeOK
<1> QED
  BY <1>1, <1>2, <1>3

LEMMA InitTypes == Init => TypeInv
<1>1. <<>> \in Seq(Unit)
  BY EmptySeq
<1> QED
  BY <1>1, Raid5Assumption DEF Init, TypeInv, TypeOK, Idle

LEMMA NextTypes == Inv /\ TypeInv /\ [Next]_vars => TypeInv'
<1> SUFFICES ASSUME Inv, TypeInv, [Next]_vars PROVE TypeInv'
  OBVIOUS
<1>1. CASE UNCHANGED vars
  BY <1>1 DEF vars, TypeInv, TypeOK
<1> QED
  BY <1>1, CallWriteTypes, CallReadTypes, WriteRpcTypes, WriteShortTypes, WriteFailsTypes,
     ReadRpcTypes, EndTypes DEF Next, Handler

LEMMA TypeInvariance == Spec => []TypeInv
BY InitTypes, NextTypes, Invariance, PTL DEF Spec

\* Type correctness: a read's server number may be negative, and is an integer;
\* as many requests of a write fail as there are servers, and no more.
THEOREM TypeCorrect == Spec => []TypeOK
<1>1. TypeInv => TypeOK
  BY DEF TypeInv
<1> QED
  BY <1>1, TypeInvariance, PTL

-----------------------------------------------------------------------------
(***************************************************************************)
(* What the servers have of the stripes that were written: all of their    *)
(* shares, at the end of which their files do not end.                     *)
(***************************************************************************)
Keeps(d, o, buf) ==
    \A t \in Server :
        /\ Len(d[t]) >= o + ChunkSz
        /\ \A k \in 1 .. ChunkSz : UnitOf(d[t], o + k) = Share(o, buf, t)[k]

FileInv ==
    /\ op.pc = "write" /\ op.failed = 0 /\ op.lost = 0 =>
          \A t \in Server : Turn(op.off, t) < op.i => Len(disk[t]) >= op.off + ChunkSz
    /\ acked <= K * Len(disk[1])
    /\ \A o \in Offset : written[o] # NoStripe =>
          \/ op.pc = "write" /\ op.i > 0 /\ Overlap(op.off, o)
          \/ Keeps(disk, o, written[o])

\* Files that only grow cover what they covered.
LEMMA GrownCovers ==
    ASSUME NEW a \in Nat, NEW m \in Nat, NEW n \in Nat, n >= m, a <= K * m
    PROVE  a <= K * n
<1>1. \A x, y, z \in Nat : x <= y => z * x <= z * y
  OBVIOUS
<1>2. K * m <= K * n /\ K * m \in Nat /\ K * n \in Nat
  BY <1>1, SizeFacts
<1> QED
  BY <1>2

\* Files with a chunk each from an offset on cover the stripe at that offset.
LEMMA StripeCovers ==
    ASSUME NEW o \in Nat, NEW r \in Nat, r <= StripeSz
    PROVE  /\ o + r \in Nat /\ o + ChunkSz \in Nat
           /\ o + r <= K * (o + ChunkSz)
<1>1. \A x, y, z \in Nat : x >= 1 => y <= x * y /\ x * (y + z) = x * y + x * z
  <2> TAKE x, y, z \in Nat
  <2>1. \A u, v, w \in Nat : u <= v => u * w <= v * w
    OBVIOUS
  <2>2. x >= 1 => 1 * y <= x * y
    BY <2>1
  <2> QED
    BY <2>2
<1>2. o <= K * o /\ K * (o + ChunkSz) = K * o + K * ChunkSz
  BY <1>1, SizeFacts
<1>3. K * o \in Nat /\ r <= K * ChunkSz /\ K * ChunkSz \in Nat /\ ChunkSz \in Nat
  BY SizeFacts
<1> QED
  BY <1>2, <1>3

\* A stripe no request has touched is kept.
LEMMA UntouchedKept ==
    ASSUME FileInv, disk \in [Server -> Seq(Unit)], disk' \in [Server -> Seq(Unit)],
           \A t \in Server : Len(disk'[t]) >= Len(disk[t]),
           \A t \in Server, k \in Place : k \notin Span(op.off) =>
               UnitOf(disk'[t], k) = UnitOf(disk[t], k),
           NEW o \in Offset, written[o] # NoStripe, ~Overlap(op.off, o)
    PROVE  Keeps(disk', o, written[o])
<1>1. Keeps(disk, o, written[o])
  BY DEF FileInv
<1>2. \A t \in Server : Len(disk[t]) \in Nat /\ Len(disk'[t]) \in Nat
  OBVIOUS
<1>3. o \in Nat /\ ChunkSz \in Nat
  BY SizeFacts
<1>4. ASSUME NEW t \in Server
      PROVE  /\ Len(disk'[t]) >= o + ChunkSz
             /\ \A k \in 1 .. ChunkSz :
                   UnitOf(disk'[t], o + k) = Share(o, written[o], t)[k]
  <2>1. Len(disk[t]) >= o + ChunkSz
    BY <1>1 DEF Keeps
  <2>2. ASSUME NEW k \in 1 .. ChunkSz
        PROVE  UnitOf(disk'[t], o + k) = Share(o, written[o], t)[k]
    <3>1. o + k \in Span(o)
      BY <1>3 DEF Span
    <3>2. o + k \in Place /\ o + k \notin Span(op.off)
      BY <3>1 DEF Place, Overlap
    <3> QED
      BY <1>1, <3>2 DEF Keeps
  <2> QED
    BY <1>2, <1>3, <2>1, <2>2
<1> QED
  BY <1>4 DEF Keeps

\* A write that ends torn.
LEMMA TornFiles ==
    ASSUME TypeInv, FileInv, op.pc = "write", disk' \in [Server -> Seq(Unit)],
           \A t \in Server : Len(disk'[t]) >= Len(disk[t]),
           \A t \in Server, k \in Place : k \notin Span(op.off) =>
               UnitOf(disk'[t], k) = UnitOf(disk[t], k),
           Torn, op'.pc # "write"
    PROVE  FileInv'
<1>1. disk \in [Server -> Seq(Unit)] /\ acked \in Nat /\ 1 \in Server
      /\ written \in [Offset -> Stripe \cup {NoStripe}]
  BY SizeFacts DEF TypeInv, TypeOK
<1>2. acked <= K * Len(disk'[1])
  BY <1>1, GrownCovers DEF FileInv
<1>3. acked' = acked
      /\ \A o \in Offset : written'[o] = IF Overlap(op.off, o) THEN NoStripe ELSE written[o]
  BY DEF Torn
<1>4. \A o \in Offset : written'[o] # NoStripe => Keeps(disk', o, written'[o])
  BY <1>1, <1>3, UntouchedKept
<1> QED
  BY <1>2, <1>3, <1>4 DEF FileInv

\* A reply to a write.
LEMMA ReplyFiles ==
    ASSUME Inv, TypeInv, FileInv, op.pc = "write", NEW x, Attempted(x),
           NEW res \in Int, NEW failed \in Nat, NEW lost \in Nat,
           failed = 0 /\ lost = 0 => op.failed = 0 /\ op.lost = 0 /\ Stored(Sent),
           \/ WriteReplied(res, failed, lost)
           \/ failed > 0 /\ WriteReturns(res, failed, lost)
    PROVE  FileInv'
<1>1. /\ op \in WriteOp /\ op.off \in Nat /\ op.serv \in Server
      /\ op.i \in Nat /\ op.i < NServers
      /\ disk \in [Server -> Seq(Unit)] /\ disk' \in [Server -> Seq(Unit)]
      /\ \A t \in Server : t # op.serv => disk'[t] = disk[t]
      /\ \A t \in Server : Len(disk'[t]) >= Len(disk[t])
      /\ \A t \in Server, k \in Place : k \notin Span(op.off) =>
            UnitOf(disk'[t], k) = UnitOf(disk[t], k)
      /\ Stored(Sent) =>
            /\ Len(disk'[op.serv]) >= op.off + ChunkSz
            /\ \A k \in 1 .. ChunkSz :
                  UnitOf(disk'[op.serv], op.off + k) = Share(op.off, op.buf, op.serv)[k]
  BY RequestStores DEF TypeInv
<1>2. op.off \in Offset /\ op.buf \in Stripe /\ op.real \in Nat /\ op.real <= StripeSz
  BY <1>1, WriteLocals, SizeFacts
<1>3. acked \in Nat /\ 1 \in Server /\ acked <= K * Len(disk'[1])
  <2>1. acked \in Nat /\ 1 \in Server
    BY SizeFacts DEF TypeInv, TypeOK
  <2> QED
    BY <1>1, <2>1, GrownCovers DEF FileInv
<1>4. ASSUME failed = 0, lost = 0, NEW t \in Server, Turn(op.off, t) <= op.i
      PROVE  /\ Len(disk'[t]) >= op.off + ChunkSz
             /\ \A k \in 1 .. ChunkSz :
                   UnitOf(disk'[t], op.off + k) = Share(op.off, op.buf, t)[k]
  <2>1. CASE t = op.serv
    BY <1>1, <1>4, <2>1
  <2>2. CASE t # op.serv
    <3>1. Turn(op.off, t) # op.i /\ Turn(op.off, t) \in 0 .. NServers - 1
      BY <1>1, <1>2, <1>4, <2>2, TurnFacts DEF Inv, WriteInv
    <3>2. Turn(op.off, t) < op.i
      <4>1. op.i \in 0 .. NServers - 1 /\ NServers \in Nat
        BY <1>1, SizeFacts
      <4> QED
        BY <1>4, <3>1, <4>1, TurnOrder
    <3> QED
      BY <1>1, <1>4, <2>2, <3>2 DEF Inv, WriteInv, FileInv
  <2> QED
    BY <2>1, <2>2
<1>5. ASSUME failed > 0 \/ lost > 0, NEW sum, WriteReturns(sum, failed, lost) PROVE FileInv'
  <2>1. Torn /\ op'.pc = "wrote"
    BY <1>1, <1>5, WriteReturnsFacts
  <2> QED
    BY <1>1, <2>1, TornFiles
<1>6. CASE WriteReplied(res, failed, lost) /\ op.i + 1 < NServers
  <2>1. /\ op' = [pc |-> op.pc, off |-> op.off, buf |-> op.buf, real |-> op.real,
                  i |-> op.i + 1, serv |-> NextServ(op.serv),
                  sum |-> op.sum + res, failed |-> failed, lost |-> lost]
        /\ UNCHANGED <<torn, written, acked>>
    BY <1>1, <1>6, WriteRepliedFacts
  <2>2. /\ op'.pc = "write" /\ op'.off = op.off /\ op'.i = op.i + 1
        /\ op'.failed = failed /\ op'.lost = lost
    BY <2>1
  <2>3. ASSUME NEW t \in Server, Turn(op.off, t) < op.i + 1 PROVE Turn(op.off, t) <= op.i
    <3>1. Turn(op.off, t) \in 0 .. NServers - 1
      BY <1>2, TurnFacts
    <3> QED
      BY <1>1, <2>3, <3>1, SizeFacts
  <2>4. failed = 0 /\ lost = 0 => \A t \in Server : Turn(op.off, t) < op.i + 1 =>
                         Len(disk'[t]) >= op.off + ChunkSz
    BY <1>4, <2>3
  <2>5. \A o \in Offset : written[o] # NoStripe =>
           Overlap(op.off, o) \/ Keeps(disk', o, written[o])
    BY <1>1, UntouchedKept
  <2>6. op.i + 1 > 0
    BY <1>1
  <2>7. \A t \in Server : Turn(op.off, t)' = Turn(op.off, t)
    BY <2>2 DEF Turn
  <2> QED
    BY <1>3, <2>1, <2>2, <2>4, <2>5, <2>6, <2>7 DEF FileInv
<1>7. CASE WriteReplied(res, failed, lost) /\ ~(op.i + 1 < NServers)
  <2>1. WriteReturns(Reported(op.sum + res, op.real), failed, lost)
    BY <1>1, <1>7, WriteRepliedFacts
  <2>2. CASE failed = 0 /\ lost = 0
    <3>1. Whole /\ op'.pc = "wrote"
      BY <1>1, <2>1, <2>2, WriteReturnsFacts
    <3>2. ASSUME NEW t \in Server PROVE Turn(op.off, t) <= op.i
      <4>1. Turn(op.off, t) \in 0 .. NServers - 1
        BY <1>2, TurnFacts
      <4>2. op.i \in Nat /\ ~(op.i + 1 < NServers)
        BY <1>1, <1>7
      <4> QED
        BY <4>1, <4>2, ServerCount
    <3>3. Keeps(disk', op.off, op.buf)
      BY <1>4, <2>2, <3>2 DEF Keeps
    <3>4. \A o \in Offset : written'[o] = IF o = op.off THEN op.buf
                                         ELSE IF Overlap(op.off, o) THEN NoStripe
                                         ELSE written[o]
      BY <3>1 DEF Whole
    <3>5. \A o \in Offset : written'[o] # NoStripe => Keeps(disk', o, written'[o])
      <4> TAKE o \in Offset
      <4>1. CASE o = op.off
        BY <3>3, <3>4, <4>1
      <4>2. CASE o # op.off
        BY <1>1, <3>4, <4>2, UntouchedKept
      <4> QED
        BY <4>1, <4>2
    <3>6. op.off + op.real <= K * Len(disk'[1])
      <4>1. Len(disk'[1]) \in Nat /\ Len(disk'[1]) >= op.off + ChunkSz
        BY <1>1, <1>3, <1>4, <2>2, <3>2
      <4>2. /\ op.off + op.real \in Nat /\ op.off + ChunkSz \in Nat
            /\ op.off + op.real <= K * (op.off + ChunkSz)
        BY <1>1, <1>2, StripeCovers
      <4> QED
        BY <4>1, <4>2, GrownCovers
    <3>7. acked' <= K * Len(disk'[1])
      BY <1>3, <3>1, <3>6 DEF Whole
    <3> QED
      BY <3>1, <3>5, <3>7 DEF FileInv
  <2>3. CASE ~(failed = 0 /\ lost = 0)
    BY <1>5, <2>1, <2>3
  <2> QED
    BY <2>2, <2>3
<1> QED
  BY <1>5, <1>6, <1>7

\* The steps of a write.
WriteStep ==
    \/ WriteRpc
    \/ \E n \in 1 .. ChunkSz - 1 : WriteShort(n)
    \/ \E e \in Errno : WriteFails(e)

\* They keep what is known of the servers' files.
LEMMA WriteFiles ==
    ASSUME Inv, TypeInv, FileInv, WriteStep PROVE FileInv'
<1>1. op \in WriteOp /\ op.pc = "write"
  BY OpKinds DEF WriteStep, WriteRpc, WriteShort, WriteFails, TypeInv
<1>2. op.failed \in Nat /\ op.lost \in Nat /\ ChunkSz \in Nat
  BY <1>1, WriteLocals, SizeFacts
<1>3. CASE WriteRpc
  BY <1>1, <1>2, <1>3, SentAttempted, ReplyFiles DEF WriteRpc
<1>4. ASSUME NEW n \in 1 .. ChunkSz - 1, WriteShort(n) PROVE FileInv'
  <2>1. /\ op.lost + (ChunkSz - n) \in Nat /\ op.lost + (ChunkSz - n) # 0 /\ n \in Int
    BY <1>2
  <2>2. Attempted(Part(n))
    BY <1>1, <1>4, PartAttempted DEF WriteShort
  <2>3. WriteReplied(n, op.failed, op.lost + (ChunkSz - n))
    BY <1>4 DEF WriteShort
  <2> QED
    BY <1>1, <1>2, <2>1, <2>2, <2>3, ReplyFiles
<1>5. ASSUME NEW e \in Errno, WriteFails(e) PROVE FileInv'
  <2>1. op.failed + 1 \in Nat /\ op.failed + 1 > 0 /\ 0 - e \in Int /\ -1 \in Int
    BY <1>2, Raid5Assumption
  <2>2. \/ WriteReplied(0 - e, op.failed + 1, op.lost)
        \/ WriteReturns(-1, op.failed + 1, op.lost)
    BY <1>5 DEF WriteFails
  <2>3. PICK x : Attempted(x)
    BY <1>5, FailsAttempts
  <2>4. op.failed + 1 # 0
    BY <1>2
  <2> QED
    BY <1>1, <1>2, <2>1, <2>2, <2>3, <2>4, ReplyFiles
<1> QED
  BY <1>3, <1>4, <1>5 DEF WriteStep

\* The steps that touch no file, and forget no stripe.
LEMMA QuietFiles ==
    ASSUME FileInv, UNCHANGED <<disk, written, acked>>, ~(op.pc = "write" /\ op.i > 0),
           op'.pc # "write"
    PROVE  FileInv'
BY DEF FileInv, Keeps, Share, Turn

LEMMA CallWriteFiles ==
    ASSUME FileInv, NEW o \in Offset, NEW data \in Data, CallWrite(o, data)
    PROVE  FileInv'
<1>1. /\ op.pc # "write" /\ UNCHANGED <<disk, written, acked>>
      /\ op'.off = o /\ op'.i = 0
  BY CallWriteFacts DEF Idle
<1>2. \A t \in Server : ~(Turn(o, t) < 0)
  BY TurnFacts, SizeFacts
<1>3. \A t \in Server : Turn(op'.off, t) = Turn(o, t)
  BY <1>1 DEF Turn
<1> QED
  BY <1>1, <1>2, <1>3 DEF FileInv, Keeps, Share, Turn

\* The client's death.
LEMMA DieFiles ==
    ASSUME TypeInv, FileInv, ClientCrash \/ CutTransfer PROVE FileInv'
<1>1. op'.pc = "down" /\ disk \in [Server -> Seq(Unit)]
  BY DEF ClientCrash, CutTransfer, Die, Down, TypeInv, TypeOK
<1>2. CASE ClientCrash
  <2>1. CASE op.pc = "write" /\ op.i > 0
    <3>1. \A t \in Server : Len(disk[t]) \in Nat /\ Len(disk'[t]) >= Len(disk[t])
      BY <1>1, <1>2 DEF ClientCrash
    <3> QED
      BY <1>1, <1>2, <2>1, <3>1, TornFiles DEF ClientCrash
  <2>2. CASE ~(op.pc = "write" /\ op.i > 0)
    BY <1>1, <1>2, <2>2, QuietFiles DEF ClientCrash
  <2> QED
    BY <2>1, <2>2
<1>3. CASE CutTransfer
  <2>1. op.pc = "write" /\ Torn
    BY <1>3 DEF CutTransfer
  <2>2. PICK x \in ChunkOfUnits : Stored(x)
    BY <1>3 DEF CutTransfer
  <2>3. x \in Seq(Unit) /\ Len(x) \in 1 .. ChunkSz
    BY SizeFacts DEF ChunkOfUnits
  <2>4. op.off \in Nat /\ op.serv \in Server
    BY <2>1, OpKinds, WriteLocals DEF TypeInv
  <2>5. /\ disk' \in [Server -> Seq(Unit)]
        /\ \A t \in Server : Len(disk'[t]) >= Len(disk[t])
        /\ \A t \in Server, k \in Place : k \notin Span(op.off) =>
              UnitOf(disk'[t], k) = UnitOf(disk[t], k)
    BY <1>1, <2>2, <2>3, <2>4, OutsideKept
  <2> QED
    BY <1>1, <2>1, <2>5, TornFiles
<1> QED
  BY <1>2, <1>3

LEMMA InitFiles == Init => FileInv
<1> SUFFICES ASSUME Init PROVE FileInv
  OBVIOUS
<1>1. disk[1] = <<>> /\ Len(<<>>) = 0
  BY SizeFacts DEF Init
<1>2. K * 0 = 0
  BY SizeFacts
<1> QED
  BY <1>1, <1>2 DEF Init, Idle, FileInv

LEMMA NextFiles == Inv /\ TypeInv /\ FileInv /\ [Next]_vars => FileInv'
<1> SUFFICES ASSUME Inv, TypeInv, FileInv, [Next]_vars PROVE FileInv'
  OBVIOUS
<1>1. ASSUME NEW o \in Offset, NEW data \in Data, CallWrite(o, data) PROVE FileInv'
  BY <1>1, CallWriteFiles
<1>2. CASE WriteStep
  BY <1>2, WriteFiles
<1>3. CASE ClientCrash \/ CutTransfer
  BY <1>3, DieFiles
<1>4. CASE ReadRpc
  <2>1. UNCHANGED <<disk, written, acked>> /\ op.pc = "read" /\ op'.pc # "write"
    BY <1>4, ReadRpcFacts
  <2> QED
    BY <2>1, QuietFiles
<1>5. CASE \/ \E o \in Offset, start \in Uninitialised : CallRead(o, start)
           \/ ReadFails \/ Return \/ Remount
  <2>1. UNCHANGED <<disk, written, acked>> /\ op.pc # "write" /\ op'.pc # "write"
    BY <1>5 DEF CallRead, ReadFails, Return, Remount, Idle, Down
  <2> QED
    BY <2>1, QuietFiles
<1>6. CASE UNCHANGED vars
  BY <1>6 DEF vars, FileInv, Keeps, Share, Turn
<1> QED
  BY <1>1, <1>2, <1>3, <1>4, <1>5, <1>6 DEF Next, Handler, WriteStep

LEMMA FileInvariance == Spec => []FileInv
BY InitFiles, NextFiles, Invariance, TypeInvariance, PTL DEF Spec

\* No byte of a write that lost nothing lies beyond the size r5_getattr makes
\* of server 1's: for every number of servers, stripe and padding.
THEOREM SizeCovered == Spec => []SizeCovers
<1>1. FileInv => SizeCovers
  BY DEF FileInv, SizeCovers, ReportedSize
<1> QED
  BY <1>1, FileInvariance, PTL

-----------------------------------------------------------------------------
(***************************************************************************)
(* What r5_write returns.                                                  *)
(***************************************************************************)
SumInv ==
    /\ op.pc = "write" =>
          /\ op.failed = 0 => /\ op.sum = op.i * ChunkSz - op.lost
                              /\ op.lost <= op.i * ChunkSz
          /\ op.failed = 1 /\ op.lost = 0 =>
                \E e \in Errno : op.sum = (op.i - 1) * ChunkSz - e
    /\ OneFailureReported

\* The sum at the end of a write, with no failure and with one.
LEMMA SumFacts ==
    /\ \A i \in Nat : /\ i * ChunkSz + ChunkSz = (i + 1) * ChunkSz
                      /\ (i - 1) * ChunkSz + ChunkSz = ((i + 1) - 1) * ChunkSz
                      /\ i * ChunkSz = ((i + 1) - 1) * ChunkSz
                      /\ i * ChunkSz \in Int /\ (i - 1) * ChunkSz \in Int
    /\ \A i \in Nat : i < NServers /\ ~(i + 1 < NServers) =>
          /\ (i + 1) * ChunkSz = StripeSz + ChunkSz
          /\ ((i + 1) - 1) * ChunkSz = StripeSz
<1>1. ChunkSz \in Int /\ NServers \in Nat /\ K = NServers - 1 /\ StripeSz = K * ChunkSz
      /\ K \in Nat
  BY SizeFacts
<1>2. \A x \in Int, y \in Int : (x + 1) * y = x * y + y /\ x * y \in Int
  OBVIOUS
<1>3. ASSUME NEW i \in Nat
      PROVE  /\ i * ChunkSz + ChunkSz = (i + 1) * ChunkSz
             /\ (i - 1) * ChunkSz + ChunkSz = ((i + 1) - 1) * ChunkSz
             /\ i * ChunkSz = ((i + 1) - 1) * ChunkSz
             /\ i * ChunkSz \in Int /\ (i - 1) * ChunkSz \in Int
  <2>1. i \in Int /\ i - 1 \in Int /\ (i - 1) + 1 = i /\ (i + 1) - 1 = i
    OBVIOUS
  <2>2. /\ (i + 1) * ChunkSz = i * ChunkSz + ChunkSz
        /\ ((i - 1) + 1) * ChunkSz = (i - 1) * ChunkSz + ChunkSz
        /\ i * ChunkSz \in Int /\ (i - 1) * ChunkSz \in Int
    BY <1>1, <1>2, <2>1
  <2> QED
    BY <2>1, <2>2
<1>4. ASSUME NEW i \in Nat, i < NServers, ~(i + 1 < NServers)
      PROVE  /\ (i + 1) * ChunkSz = StripeSz + ChunkSz
             /\ ((i + 1) - 1) * ChunkSz = StripeSz
  <2>1. i = K
    BY <1>1, <1>4
  <2> QED
    BY <1>1, <1>3, <2>1
<1> QED
  BY <1>3, <1>4

\* A reply to a write: the sum it makes of a chunk, of a part, or of -errno.
LEMMA ReplySum ==
    ASSUME \A e \in Errno : e <= StripeSz,
           op \in WriteOp, SumInv, op.pc = "write",
           NEW res \in Int, NEW failed, NEW lost \in Nat,
           \/ /\ res \in 1 .. ChunkSz /\ lost = op.lost + (ChunkSz - res)
              /\ failed = op.failed
           \/ /\ \E e \in Errno : res = 0 - e
              /\ lost = op.lost
              /\ failed = op.failed + 1,
           WriteReplied(res, failed, lost)
    PROVE  SumInv'
<1>1. /\ op.i \in Nat /\ op.i < NServers /\ op.sum \in Int /\ op.failed \in Nat
      /\ op.real \in Nat /\ op.real <= StripeSz /\ op.real >= 1 /\ op.lost \in Nat
  BY WriteLocals, SizeFacts
<1> DEFINE a == op.i * ChunkSz
           b == (op.i - 1) * ChunkSz
           c == ((op.i + 1) - 1) * ChunkSz
           d == (op.i + 1) * ChunkSz
<1>2. /\ a + ChunkSz = d /\ b + ChunkSz = c /\ a = c
      /\ a \in Int /\ b \in Int /\ ChunkSz \in Nat /\ Errno \subseteq Nat
  BY <1>1, SumFacts, SizeFacts, Raid5Assumption
<1>3. /\ op.failed = 0 => op.sum = a - op.lost /\ op.lost <= a
      /\ op.failed = 1 /\ op.lost = 0 => \E e \in Errno : op.sum = b - e
  BY DEF SumInv
<1> HIDE DEF a, b, c, d
<1>4. /\ failed = 0 => op.sum + res = d - lost /\ lost <= d
      /\ failed = 1 /\ lost = 0 => \E e \in Errno : op.sum + res = c - e
  <2>1. CASE /\ res \in 1 .. ChunkSz /\ lost = op.lost + (ChunkSz - res)
             /\ failed = op.failed
    <3>1. ASSUME failed = 0 PROVE op.sum + res = d - lost /\ lost <= d
      BY <1>1, <1>2, <1>3, <2>1, <3>1
    <3>2. ASSUME failed = 1, lost = 0 PROVE \E e \in Errno : op.sum + res = c - e
      <4>1. op.lost = 0 /\ res = ChunkSz
        BY <1>1, <1>2, <2>1, <3>2
      <4>2. PICK e \in Errno : op.sum = b - e
        BY <1>3, <2>1, <3>2, <4>1
      <4>3. op.sum + res = c - e
        BY <1>2, <4>1, <4>2
      <4> QED
        BY <4>3
    <3> QED
      BY <3>1, <3>2
  <2>2. CASE /\ \E e \in Errno : res = 0 - e
             /\ lost = op.lost /\ failed = op.failed + 1
    <3>1. failed # 0
      BY <1>1, <2>2
    <3>2. ASSUME failed = 1, lost = 0 PROVE \E e \in Errno : op.sum + res = c - e
      <4>1. op.failed = 0 /\ op.lost = 0
        BY <1>1, <2>2, <3>2
      <4>2. PICK e \in Errno : res = 0 - e
        BY <2>2
      <4>3. op.sum + res = c - e
        BY <1>2, <1>3, <4>1, <4>2
      <4> QED
        BY <4>3
    <3> QED
      BY <3>1, <3>2
  <2> QED
    BY <2>1, <2>2
<1>5. CASE op.i + 1 < NServers
  <2>1. /\ op'.pc = "write" /\ op'.i = op.i + 1 /\ op'.sum = op.sum + res
        /\ op'.failed = failed /\ op'.lost = lost
    BY <1>5, WriteRepliedFacts
  <2> QED
    BY <1>4, <2>1 DEF SumInv, OneFailureReported, c, d
<1>6. CASE ~(op.i + 1 < NServers)
  <2> DEFINE sum == op.sum + res
  <2>1. /\ op'.pc = "wrote" /\ op'.real = op.real /\ op'.sum = Reported(sum, op.real)
        /\ op'.failed = failed /\ op'.lost = lost
    BY <1>6, WriteRepliedFacts, WriteReturnsFacts
  <2>2. d = StripeSz + ChunkSz /\ c = StripeSz
    BY <1>1, <1>6, SumFacts DEF c, d
  <2>3. /\ failed = 0 => sum = StripeSz + ChunkSz - lost /\ lost <= StripeSz + ChunkSz
        /\ failed = 1 /\ lost = 0 => \E e \in Errno : sum = StripeSz - e
    <3>1. ASSUME failed = 0 PROVE sum = StripeSz + ChunkSz - lost /\ lost <= StripeSz + ChunkSz
      <4>1. op.sum + res = d - lost /\ lost <= d
        BY <1>4, <3>1
      <4>2. StripeSz \in Nat /\ ChunkSz \in Nat /\ sum = op.sum + res
        BY SizeFacts
      <4> HIDE DEF sum
      <4> QED
        BY ONLY <2>2, <4>1, <4>2
    <3>2. ASSUME failed = 1, lost = 0 PROVE \E e \in Errno : sum = StripeSz - e
      <4>1. \E e \in Errno : op.sum + res = c - e
        BY <1>4, <3>2
      <4> QED
        BY <2>2, <4>1
    <3> QED
      BY <3>1, <3>2
  <2>4. StripeSz \in Nat /\ ChunkSz \in Nat
    BY SizeFacts
  <2> HIDE DEF sum
  <2>5. ASSUME op.real = StripeSz, failed = 0
        PROVE  Reported(sum, op.real) = op.real <=> lost <= ChunkSz
    BY <2>3, <2>4, <2>5 DEF Reported
  <2>6. ASSUME op.real = StripeSz, failed = 1, lost = 0
        PROVE  Reported(sum, op.real) # op.real
    <3>1. PICK e \in Errno : sum = StripeSz - e
      BY <2>3, <2>6
    <3>2. e \in Nat /\ e >= 1 /\ e <= StripeSz
      BY Raid5Assumption
    <3>3. sum \in Int /\ sum >= 0 /\ sum < StripeSz
      BY <2>4, <3>1, <3>2
    <3> QED
      BY <2>4, <2>6, <3>3 DEF Reported
  <2> QED
    BY <2>1, <2>5, <2>6 DEF SumInv, OneFailureReported
<1> QED
  BY <1>5, <1>6

LEMMA NextSum ==
    ASSUME \A e \in Errno : e <= StripeSz, TypeInv, SumInv, [Next]_vars
    PROVE  SumInv'
<1>1. ASSUME NEW o \in Offset, NEW data \in Data, CallWrite(o, data) PROVE SumInv'
  <2>1. op'.pc = "write" /\ op'.i = 0 /\ op'.sum = 0 /\ op'.failed = 0 /\ op'.lost = 0
    BY <1>1, CallWriteFacts
  <2>2. 0 * ChunkSz = 0
    BY SizeFacts
  <2> QED
    BY <2>1, <2>2 DEF SumInv, OneFailureReported
<1>2. CASE WriteRpc
  <2>1. op \in WriteOp /\ op.pc = "write" /\ WriteReplied(ChunkSz, op.failed, op.lost)
    BY <1>2, OpKinds DEF WriteRpc, TypeInv
  <2>2. /\ ChunkSz \in Int /\ ChunkSz \in 1 .. ChunkSz /\ op.lost \in Nat
        /\ op.lost = op.lost + (ChunkSz - ChunkSz)
    BY <2>1, WriteLocals, SizeFacts
  <2> QED
    BY <2>1, <2>2, ReplySum
<1>7. ASSUME NEW n \in 1 .. ChunkSz - 1, WriteShort(n) PROVE SumInv'
  <2>1. /\ op \in WriteOp /\ op.pc = "write"
        /\ WriteReplied(n, op.failed, op.lost + (ChunkSz - n))
    BY <1>7, OpKinds DEF WriteShort, TypeInv
  <2>2. n \in Int /\ n \in 1 .. ChunkSz /\ op.lost + (ChunkSz - n) \in Nat
    BY <2>1, WriteLocals, SizeFacts
  <2> QED
    BY <2>1, <2>2, ReplySum
<1>3. ASSUME NEW e \in Errno, WriteFails(e) PROVE SumInv'
  <2>1. /\ op \in WriteOp /\ op.pc = "write" /\ 0 - e \in Int /\ op.failed \in Nat
        /\ op.lost \in Nat
    BY <1>3, OpKinds, WriteLocals, Raid5Assumption DEF WriteFails, TypeInv
  <2>2. CASE e = 1
    <3>1. /\ op'.pc = "wrote" /\ op'.real = op.real /\ op'.sum = -1
          /\ op'.failed = op.failed + 1
      BY <1>3, <2>1, <2>2, WriteReturnsFacts DEF WriteFails
    <3>2. op.real >= 1 /\ op.real \in Nat
      BY <2>1, WriteLocals, SizeFacts
    <3> QED
      BY <2>1, <3>1, <3>2 DEF SumInv, OneFailureReported
  <2>3. CASE e # 1
    <3>1. WriteReplied(0 - e, op.failed + 1, op.lost)
      BY <1>3, <2>3 DEF WriteFails
    <3> QED
      BY <2>1, <3>1, ReplySum
  <2> QED
    BY <2>2, <2>3
<1>4. CASE ReadRpc
  <2>1. op'.pc \in {"read", "reply"}
    BY <1>4, ReadRpcFacts
  <2> QED
    BY <2>1 DEF SumInv, OneFailureReported
<1>5. CASE \/ \E o \in Offset, start \in Uninitialised : CallRead(o, start)
           \/ ReadFails \/ Return \/ ClientCrash \/ CutTransfer \/ Remount
  <2>1. op'.pc \in {"read", "idle", "down"}
    BY <1>5 DEF CallRead, ReadFails, Return, ClientCrash, CutTransfer, Remount, Die,
                Idle, Down
  <2> QED
    BY <2>1 DEF SumInv, OneFailureReported
<1>6. CASE UNCHANGED vars
  BY <1>6 DEF vars, SumInv, OneFailureReported
<1> QED
  BY <1>1, <1>2, <1>3, <1>4, <1>5, <1>6, <1>7 DEF Next, Handler

\* The caller of a write of a whole stripe is told of one request that failed,
\* and of requests cut short when they lost more than a chunk together, but of
\* no smaller loss: r5_write compares the sum of all the replies, the parity's
\* among them, with the size. No error number may be larger than a stripe, for
\* then the sum could be negative, which passes for success.
THEOREM FailureReported ==
    ASSUME \A e \in Errno : e <= StripeSz PROVE Spec => []OneFailureReported
<1>1. Init => SumInv
  BY DEF Init, Idle, SumInv, OneFailureReported
<1>2. TypeInv /\ SumInv /\ [Next]_vars => SumInv'
  BY NextSum
<1>3. SumInv => OneFailureReported
  BY DEF SumInv
<1> QED
  BY <1>1, <1>2, <1>3, TypeInvariance, PTL DEF Spec

-----------------------------------------------------------------------------
(***************************************************************************)
(* What r5_read returns of a stripe the servers keep: the chunks in their  *)
(* order round the servers, from the first one asked.                      *)
(***************************************************************************)
\* The turn of the first server a read asks, or passes over
First == Turn(op.off, NextServ(op.start))

\* The chunks read so far, the parity's server being passed over
Taken == IF First + op.i > K THEN op.i - 1 ELSE op.i

\* The j-th chunk from a on
From(a, j) == IF a + j < K THEN a + j ELSE a + j - K

GotInv ==
    op.pc \in {"read", "reply"} /\ written[op.off] # NoStripe /\ op.start >= 0 =>
        /\ op.start \in Server
        /\ op.pc = "reply" => op.i = NServers
        /\ op.pc = "read" =>
              /\ op.serv \in Server
              /\ Turn(op.off, op.serv) =
                    IF First + op.i < NServers THEN First + op.i ELSE First + op.i - NServers
        /\ Len(op.got) = Taken * ChunkSz
        /\ \A j \in 0 .. Taken - 1 : Chunk(op.got, j) = Chunk(written[op.off], From(First, j))

\* A chunk appended to whole chunks leaves them, and is the next one.
LEMMA ChunkOfConcat ==
    ASSUME NEW S, NEW got \in Seq(S), NEW y \in Seq(S), NEW n \in Nat,
           Len(got) = n * ChunkSz, Len(y) = ChunkSz
    PROVE  /\ \A j \in 0 .. n - 1 : Chunk(got \o y, j) = Chunk(got, j)
           /\ Chunk(got \o y, n) = y
           /\ Len(got \o y) = (n + 1) * ChunkSz
<1> DEFINE all == got \o y
           m == n * ChunkSz
<1>1. ChunkSz \in Nat /\ ChunkSz >= 1 /\ m \in Nat /\ (n + 1) * ChunkSz = m + ChunkSz
      /\ Len(got) = m
  BY SizeFacts
<1> HIDE DEF m
<1>2. /\ all \in Seq(S) /\ Len(all) = m + ChunkSz
      /\ \A i \in 1 .. m + ChunkSz : all[i] = IF i <= m THEN got[i] ELSE y[i - m]
  BY <1>1, ConcatProperties
<1> HIDE DEF all
<1>3. ASSUME NEW j \in 0 .. n - 1 PROVE Chunk(all, j) = Chunk(got, j)
  <2> DEFINE lo == j * ChunkSz
  <2>1. lo \in Nat /\ (j + 1) * ChunkSz = lo + ChunkSz /\ lo + ChunkSz <= m
    <3>1. \A a, b, c \in Nat : a <= b => a * c <= b * c
      OBVIOUS
    <3>2. j \in Nat /\ j + 1 \in Nat /\ j + 1 <= n
      OBVIOUS
    <3>3. (j + 1) * ChunkSz <= m
      BY <1>1, <3>1, <3>2 DEF m
    <3> QED
      BY <1>1, <3>2, <3>3
  <2>2. lo + 1 \in 1 .. Len(got) /\ lo + ChunkSz \in 1 .. Len(got)
    BY <1>1, <2>1
  <2>3. SubSeq(got \o y, lo + 1, lo + ChunkSz) = SubSeq(got, lo + 1, lo + ChunkSz)
    BY <2>2, SubSeqOfConcat1
  <2> QED
    BY <2>1, <2>3 DEF Chunk, all
<1>4. Chunk(all, n) = y
  <2>1. Chunk(all, n) = SubSeq(all, m + 1, m + ChunkSz)
    BY <1>1 DEF Chunk, m
  <2>2. \A i \in m + 1 .. m + ChunkSz : all[i] \in S
    BY <1>1, <1>2, ElementOfSeq
  <2>3. /\ SubSeq(all, m + 1, m + ChunkSz) \in Seq(S)
        /\ Len(SubSeq(all, m + 1, m + ChunkSz)) = ChunkSz
        /\ \A i \in 1 .. ChunkSz :
              SubSeq(all, m + 1, m + ChunkSz)[i] = all[(m + 1) + i - 1]
    <3>1. m + 1 \in Int /\ m + ChunkSz \in Int /\ (m + ChunkSz) - (m + 1) + 1 = ChunkSz
          /\ m + 1 <= m + ChunkSz
      BY <1>1
    <3> DEFINE s == SubSeq(all, m + 1, m + ChunkSz)
    <3>2. /\ s \in Seq(S)
          /\ Len(s) = IF m + 1 <= m + ChunkSz THEN (m + ChunkSz) - (m + 1) + 1 ELSE 0
          /\ \A i \in 1 .. (m + ChunkSz) - (m + 1) + 1 : s[i] = all[(m + 1) + i - 1]
      <4> HIDE DEF s
      <4>1. s = SubSeq(all, m + 1, m + ChunkSz)
        BY DEF s
      <4> QED
        BY ONLY <2>2, <3>1, <4>1, SubSeqProperties
    <3> HIDE DEF s
    <3>3. Len(s) = ChunkSz /\ \A i \in 1 .. ChunkSz : s[i] = all[(m + 1) + i - 1]
      BY ONLY <3>1, <3>2
    <3> QED
      BY <3>2, <3>3 DEF s
  <2>4. \A i \in 1 .. ChunkSz : all[(m + 1) + i - 1] = y[i]
    <3> TAKE i \in 1 .. ChunkSz
    <3>1. (m + 1) + i - 1 \in 1 .. m + ChunkSz /\ ~((m + 1) + i - 1 <= m)
          /\ ((m + 1) + i - 1) - m = i
      BY <1>1
    <3> QED
      BY <1>2, <3>1
  <2> QED
    BY <2>1, <2>3, <2>4, SeqEqual
<1> QED
  BY <1>1, <1>2, <1>3, <1>4 DEF all

\* After the last turn comes the first.
LEMMA NextTurn ==
    ASSUME NEW o \in Offset, NEW s \in Server
    PROVE  Turn(o, NextServ(s)) = IF Turn(o, s) + 1 < NServers THEN Turn(o, s) + 1 ELSE 0
<1>1. Turn(o, s) \in 0 .. NServers - 1
  BY TurnFacts
<1>2. CASE Turn(o, s) + 1 < NServers
  BY <1>2, TurnFacts
<1>3. CASE ~(Turn(o, s) + 1 < NServers)
  <2>1. Turn(o, s) = NServers - 1
    BY <1>1, <1>3, SizeFacts
  <2>2. s = XorServ(o)
    BY <2>1, TurnFacts
  <2> QED
    BY <1>3, <2>2, TurnFacts
<1> QED
  BY <1>2, <1>3

\* A read begins.
LEMMA CallReadGot ==
    ASSUME NEW o \in Offset, NEW start \in Uninitialised, CallRead(o, start)
    PROVE  GotInv'
<1>1. op' = [pc |-> "read", off |-> o, i |-> 0, start |-> start,
             serv |-> NextServ(start), got |-> <<>>, last |-> 0]
  BY DEF CallRead
<1>2. op'.pc = "read" /\ op'.off = o /\ op'.i = 0 /\ op'.start = start
      /\ op'.serv = NextServ(start) /\ op'.got = <<>>
  BY <1>1
<1> SUFFICES ASSUME start >= 0
             PROVE  GotInv'
  BY <1>2 DEF GotInv
<1>3. start \in Server
  BY SizeFacts DEF Uninitialised
<1>4. NextServ(start) \in Server
  BY <1>3, NextServFacts
<1> DEFINE a == Turn(o, NextServ(start))
<1>5. a \in 0 .. NServers - 1
  BY <1>4, TurnFacts
<1>6. First' = a
  BY <1>2 DEF First, Turn
<1> HIDE DEF a
<1>7. a \in Nat /\ a + 0 < NServers /\ a + 0 = a /\ ~(a + 0 > K)
  BY <1>5, SizeFacts
<1>8. Taken' = 0
  BY <1>2, <1>6, <1>7 DEF Taken
<1>9. Turn(op'.off, op'.serv) = a
  BY <1>2 DEF Turn, a
<1>10. Len(<<>>) = 0 /\ 0 * ChunkSz = 0
  BY SizeFacts
<1>11. \A j : j \notin 0 .. 0 - 1
  OBVIOUS
<1> QED
  BY <1>2, <1>3, <1>4, <1>6, <1>7, <1>8, <1>9, <1>10, <1>11 DEF GotInv, Turn

\* A read asks the next server, or passes over the parity's.
LEMMA ReadRpcGot ==
    ASSUME TypeInv, FileInv, GotInv, ReadRpc PROVE GotInv'
<1>1. op \in ReadOp /\ op.pc = "read" /\ UNCHANGED <<disk, faults, torn, written, acked>>
  BY ReadRpcFacts
<1>2. PICK got, last :
         /\ \/ SkipsServer /\ got = op.got /\ last = op.last
            \/ /\ ~SkipsServer
               /\ \E x \in Sends : got = op.got \o Received(x) /\ last = Len(x)
         /\ op.i + 1 < NServers =>
               op' = [pc |-> "read", off |-> op.off, i |-> op.i + 1,
                      start |-> op.start, serv |-> NextServ(op.serv),
                      got |-> got, last |-> last]
         /\ ~(op.i + 1 < NServers) =>
               op' = [pc |-> "reply", off |-> op.off, i |-> op.i + 1,
                      start |-> op.start, serv |-> 0, got |-> got, last |-> last]
  BY ReadRpcFacts
<1>3. /\ op'.off = op.off /\ op'.i = op.i + 1 /\ op'.start = op.start /\ op'.got = got
      /\ op'.pc = "read" => op'.serv = NextServ(op.serv)
      /\ op'.pc = "reply" => ~(op.i + 1 < NServers)
  BY <1>2
<1> SUFFICES ASSUME written[op.off] # NoStripe, op.start >= 0 PROVE GotInv'
  BY <1>1, <1>3 DEF GotInv
<1> DEFINE o == op.off
           buf == written[o]
           t == Turn(o, op.serv)
           next == IF First + (op.i + 1) > K THEN (op.i + 1) - 1 ELSE op.i + 1
<1>4. /\ op.start \in Server /\ op.serv \in Server /\ Len(op.got) = Taken * ChunkSz
      /\ t = IF First + op.i < NServers THEN First + op.i ELSE First + op.i - NServers
      /\ \A j \in 0 .. Taken - 1 : Chunk(op.got, j) = Chunk(buf, From(First, j))
  BY <1>1 DEF GotInv
<1>5. /\ o \in Offset /\ o \in Nat /\ op.i \in 0 .. NServers - 1
      /\ op.got \in Seq(Unit \cup {Junk}) /\ NServers \in Nat /\ NServers >= 2
      /\ K = NServers - 1
  <2>1. /\ o \in Offset /\ op.i \in 0 .. NServers /\ op.i < NServers
        /\ op.got \in Seq(Unit \cup {Junk})
    BY <1>1 DEF ReadOp, TypeInv
  <2>2. op.i \in 0 .. NServers - 1
    BY <2>1, SizeFacts
  <2> QED
    BY <2>1, <2>2, SizeFacts
<1>6. First \in 0 .. NServers - 1 /\ t \in 0 .. NServers - 1 /\ NextServ(op.serv) \in Server
  BY <1>4, <1>5, NextServFacts, TurnFacts DEF First
<1>7. /\ Taken \in Nat
      /\ t = K => next = Taken
      /\ t # K => next = Taken + 1 /\ t = From(First, Taken)
      /\ t + 1 < NServers =>
            t + 1 = IF First + (op.i + 1) < NServers THEN First + (op.i + 1)
                    ELSE First + (op.i + 1) - NServers
      /\ ~(t + 1 < NServers) =>
            0 = IF First + (op.i + 1) < NServers THEN First + (op.i + 1)
                ELSE First + (op.i + 1) - NServers
  <2>1. /\ t = IF First + op.i < NServers THEN First + op.i ELSE First + op.i - NServers
        /\ Taken = IF First + op.i > K THEN op.i - 1 ELSE op.i
        /\ next = IF First + (op.i + 1) > K THEN (op.i + 1) - 1 ELSE op.i + 1
        /\ From(First, Taken) = IF First + Taken < K THEN First + Taken
                                ELSE First + Taken - K
    BY <1>4 DEF Taken, From
  <2> DEFINE a == First
             now == Taken
             f == From(First, Taken)
  <2>2. /\ t = IF a + op.i < NServers THEN a + op.i ELSE a + op.i - NServers
        /\ now = IF a + op.i > K THEN op.i - 1 ELSE op.i
        /\ next = IF a + (op.i + 1) > K THEN (op.i + 1) - 1 ELSE op.i + 1
        /\ f = IF a + now < K THEN a + now ELSE a + now - K
        /\ a \in 0 .. NServers - 1 /\ op.i \in 0 .. NServers - 1
        /\ NServers \in Nat /\ NServers >= 2 /\ K = NServers - 1
    BY <1>5, <1>6, <2>1
  <2> HIDE DEF t, next, a, now, f
  <2>3. /\ now \in Nat
        /\ t = K => next = now
        /\ t # K => next = now + 1 /\ t = IF a + now < K THEN a + now ELSE a + now - K
        /\ t + 1 < NServers =>
              t + 1 = IF a + (op.i + 1) < NServers THEN a + (op.i + 1)
                      ELSE a + (op.i + 1) - NServers
        /\ ~(t + 1 < NServers) =>
              0 = IF a + (op.i + 1) < NServers THEN a + (op.i + 1)
                  ELSE a + (op.i + 1) - NServers
    <3>1. CASE a + op.i < NServers
      BY ONLY <2>2, <3>1
    <3>2. CASE ~(a + op.i < NServers)
      BY ONLY <2>2, <3>2
    <3> QED
      BY ONLY <3>1, <3>2
  <2> USE DEF a, now, f
  <2> QED
    BY <2>2, <2>3
<1>8. First' = First /\ Taken' = next
  <2>1. First' = First
    BY <1>3 DEF First, Turn
  <2> QED
    BY <1>3, <2>1 DEF Taken
<1>9. Turn(o, NextServ(op.serv)) =
         IF First + (op.i + 1) < NServers THEN First + (op.i + 1)
         ELSE First + (op.i + 1) - NServers
  BY <1>4, <1>5, <1>7, NextTurn
<1>10. /\ Len(got) = next * ChunkSz
       /\ \A j \in 0 .. next - 1 : Chunk(got, j) = Chunk(buf, From(First, j))
  <2>1. SkipsServer <=> t = K
    BY <1>4, <1>5, TurnFacts DEF SkipsServer
  <2>2. CASE t = K
    BY <1>2, <1>4, <1>7, <2>1, <2>2
  <2>3. CASE t # K
    <3>1. PICK x \in Sends : got = op.got \o Received(x)
      BY <1>2, <2>1, <2>3
    <3>2. x = PreadAt(disk[op.serv], o) /\ x \in Seq(Unit \cup {Junk}) /\ Len(x) \in 0 .. ChunkSz
      BY <1>1, <1>4, <3>1, SendsFacts DEF TypeInv
    <3>3. Keeps(disk, o, buf) /\ buf \in Stripe
      BY <1>1, <1>5 DEF FileInv, TypeInv, TypeOK
    <3>4. Len(x) = ChunkSz /\ \A k \in 1 .. ChunkSz : x[k] = Share(o, buf, op.serv)[k]
      <4>1. disk[op.serv] \in Seq(Unit)
        BY <1>4 DEF TypeInv, TypeOK
      <4>2. Len(disk[op.serv]) >= o + ChunkSz
        BY <1>4, <3>3 DEF Keeps
      <4> QED
        BY <1>4, <1>5, <3>2, <3>3, <4>1, <4>2, PreadFacts DEF Keeps
    <3>5. /\ Received(x) \in Seq(Unit \cup {Junk}) /\ Len(Received(x)) = ChunkSz
          /\ \A k \in 1 .. ChunkSz : Received(x)[k] = x[k]
      BY <3>2, <3>4, ReceivedFacts
    <3>6. Received(x) = Chunk(buf, t)
      <4>1. t \in 0 .. K - 1 /\ op.serv # XorServ(o)
        BY <1>5, <1>6, <2>1, <2>3 DEF SkipsServer
      <4>2. Chunk(buf, t) \in Seq(Unit) /\ Len(Chunk(buf, t)) = ChunkSz
        BY <3>3, <4>1, ChunkFacts
      <4>3. Chunk(buf, t) \in Seq(Unit \cup {Junk})
        BY <4>2, SeqMonotonic
      <4>4. Share(o, buf, op.serv) = Chunk(buf, t)
        BY <4>1 DEF Share
      <4> QED
        BY <3>4, <3>5, <4>2, <4>3, <4>4, SeqEqual
    <3>7. /\ \A j \in 0 .. Taken - 1 : Chunk(got, j) = Chunk(op.got, j)
          /\ Chunk(got, Taken) = Received(x)
          /\ Len(got) = (Taken + 1) * ChunkSz
      <4>1. op.got \in Seq(Unit \cup {Junk}) /\ Len(op.got) = Taken * ChunkSz /\ Taken \in Nat
        BY <1>4, <1>5, <1>7
      <4> DEFINE y == Received(x)
      <4>2. y \in Seq(Unit \cup {Junk}) /\ Len(y) = ChunkSz /\ got = op.got \o y
        BY <3>1, <3>5
      <4> HIDE DEF y
      <4>3. /\ \A j \in 0 .. Taken - 1 : Chunk(op.got \o y, j) = Chunk(op.got, j)
            /\ Chunk(op.got \o y, Taken) = y
            /\ Len(op.got \o y) = (Taken + 1) * ChunkSz
        BY <4>1, <4>2, ChunkOfConcat
      <4> QED
        BY <4>2, <4>3 DEF y
    <3>8. \A j \in 0 .. next - 1 : j \in 0 .. Taken - 1 \/ j = Taken
      BY <1>7, <2>3
    <3>9. next = Taken + 1 /\ t = From(First, Taken)
      BY <1>7, <2>3
    <3> HIDE DEF t, next, buf
    <3> QED
      BY <1>4, <3>6, <3>7, <3>8, <3>9
  <2> QED
    BY <2>2, <2>3
<1>11. op'.pc = "reply" => op.i + 1 = NServers
  BY <1>3, <1>5
<1>12. Turn(op'.off, op'.serv) = Turn(o, op'.serv)
  BY <1>3
<1> HIDE DEF t, next
<1> QED
  BY <1>1, <1>3, <1>4, <1>6, <1>8, <1>9, <1>10, <1>11, <1>12 DEF GotInv, Turn

LEMMA NextGot ==
    ASSUME TypeInv, FileInv, GotInv, [Next]_vars PROVE GotInv'
<1>1. ASSUME NEW o \in Offset, NEW start \in Uninitialised, CallRead(o, start) PROVE GotInv'
  BY <1>1, CallReadGot
<1>2. CASE ReadRpc
  BY <1>2, ReadRpcGot
<1>3. ASSUME NEW o \in Offset, NEW data \in Data, CallWrite(o, data) PROVE GotInv'
  BY <1>3, CallWriteFacts DEF GotInv
<1>4. CASE WriteStep
  <2>1. op \in WriteOp /\ op.pc = "write"
    BY <1>4, OpKinds DEF WriteStep, WriteRpc, WriteShort, WriteFails, TypeInv
  <2>2. op'.pc \in {"write", "wrote"}
    <3>1. CASE WriteRpc
      BY <2>1, <3>1, WriteRepliedFacts, WriteReturnsFacts DEF WriteRpc
    <3>2. CASE \E e \in Errno : WriteFails(e)
      BY <2>1, <3>2, WriteRepliedFacts, WriteReturnsFacts DEF WriteFails
    <3>3. CASE \E n \in 1 .. ChunkSz - 1 : WriteShort(n)
      BY <2>1, <3>3, WriteRepliedFacts, WriteReturnsFacts DEF WriteShort
    <3> QED
      BY <1>4, <3>1, <3>2, <3>3 DEF WriteStep
  <2> QED
    BY <2>2 DEF GotInv
<1>5. CASE ReadFails \/ Return \/ ClientCrash \/ CutTransfer \/ Remount
  <2>1. op'.pc \in {"idle", "down"}
    BY <1>5 DEF ReadFails, Return, ClientCrash, CutTransfer, Remount, Die, Idle, Down
  <2> QED
    BY <2>1 DEF GotInv
<1>6. CASE UNCHANGED vars
  BY <1>6 DEF vars, GotInv, First, Taken, Turn
<1> QED
  BY <1>1, <1>2, <1>3, <1>4, <1>5, <1>6 DEF Next, Handler, WriteStep

\* A place of a stripe is the k-th of one of its chunks.
LEMMA PlaceInStripe ==
    ASSUME NEW i \in 1 .. StripeSz
    PROVE  \E j \in 0 .. K - 1, k \in 1 .. ChunkSz : i = j * ChunkSz + k
<1> DEFINE j == (i - 1) \div ChunkSz
           k == (i - 1) % ChunkSz
<1>1. i - 1 \in Nat /\ ChunkSz \in Nat /\ ChunkSz >= 1
  BY SizeFacts
<1>2. j \in Nat /\ k \in 0 .. ChunkSz - 1 /\ i - 1 = ChunkSz * j + k
  BY ONLY <1>1
<1> HIDE DEF j, k
<1>3. i - 1 = j * ChunkSz + k
  BY ONLY <1>1, <1>2
<1>4. j < K
  <2> SUFFICES ASSUME ~(j < K) PROVE FALSE
    OBVIOUS
  <2>1. \A a, b, c \in Nat : a <= b => a * c <= b * c
    OBVIOUS
  <2>2. K \in Nat /\ K <= j
    BY <1>2, SizeFacts
  <2>3. K * ChunkSz <= j * ChunkSz
    BY ONLY <1>1, <1>2, <2>1, <2>2
  <2>4. j * ChunkSz \in Nat /\ K * ChunkSz \in Nat
    BY ONLY <1>1, <1>2, <2>2
  <2>5. i <= K * ChunkSz /\ i \in Nat
    BY SizeFacts
  <2> QED
    BY ONLY <1>2, <1>3, <2>3, <2>4, <2>5
<1>5. j \in 0 .. K - 1 /\ k + 1 \in 1 .. ChunkSz /\ i = j * ChunkSz + (k + 1)
  <2>1. K \in Nat /\ j * ChunkSz \in Nat /\ i \in Nat
    BY <1>1, <1>2, SizeFacts
  <2> QED
    BY ONLY <1>1, <1>2, <1>3, <1>4, <2>1
<1> QED
  BY <1>5

\* Chunks that agree, one by one, make the stripe.
LEMMA ChunksAreStripe ==
    ASSUME NEW S, NEW got \in Seq(S), Len(got) = StripeSz, NEW buf \in Stripe,
           Unit \subseteq S, \A j \in 0 .. K - 1 : Chunk(got, j) = Chunk(buf, j)
    PROVE  SubSeq(got, 1, StripeSz) = buf
<1>1. buf \in Seq(S) /\ Len(buf) = StripeSz
  <2>1. buf \in Seq(Unit) /\ Len(buf) = StripeSz
    BY SizeFacts DEF Stripe
  <2> QED
    BY <2>1, SeqMonotonic
<1>2. ASSUME NEW i \in 1 .. StripeSz PROVE got[i] = buf[i]
  <2>1. PICK j \in 0 .. K - 1, k \in 1 .. ChunkSz : i = j * ChunkSz + k
    BY PlaceInStripe
  <2>2. Chunk(buf, j)[k] = buf[i]
    BY <2>1, ChunkFacts
  <2> DEFINE lo == j * ChunkSz
  <2>3. /\ lo \in Nat /\ (j + 1) * ChunkSz = lo + ChunkSz /\ lo + ChunkSz <= StripeSz
        /\ ChunkSz \in Nat /\ StripeSz \in Nat
    <3>1. \A a, b, c \in Nat : a <= b => a * c <= b * c
      OBVIOUS
    <3>2. j \in Nat /\ j + 1 \in Nat /\ j + 1 <= K
      BY SizeFacts
    <3>3. (j + 1) * ChunkSz <= K * ChunkSz
      BY <3>1, <3>2, SizeFacts
    <3> QED
      BY <3>2, <3>3, SizeFacts
  <2>4. i = lo + k
    BY <2>1
  <2>5. Chunk(got, j) = SubSeq(got, lo + 1, lo + ChunkSz)
    BY <2>3 DEF Chunk
  <2> HIDE DEF lo
  <2>6. SubSeq(got, lo + 1, lo + ChunkSz)[k] = got[lo + k]
    BY <2>3
  <2> QED
    BY <2>2, <2>4, <2>5, <2>6
<1>3. got = buf
  BY <1>1, <1>2, SeqEqual
<1>4. SubSeq(got, 1, Len(got)) = got
  OBVIOUS
<1> QED
  BY <1>3, <1>4

\* A read that asks the servers for a stripe no later write has touched returns
\* it, its chunks glued in their order, if serv, which nobody initialised, holds
\* the number of the parity's server: r5_write and r5_read agree, for every
\* number of servers, about which of them keeps what.
THEOREM ReadsStripe == Spec => []ReadReturnsStripe
<1>1. Init => GotInv
  BY DEF Init, Idle, GotInv
<1>2. TypeInv /\ FileInv /\ GotInv /\ [Next]_vars => GotInv'
  BY NextGot
<1>3. TypeInv /\ GotInv => ReadReturnsStripe
  <2> SUFFICES ASSUME TypeInv, GotInv, op.pc = "reply", written[op.off] # NoStripe,
                      op.start = XorServ(op.off)
               PROVE  SubSeq(op.got, 1, StripeSz) = written[op.off]
    BY DEF ReadReturnsStripe
  <2>1. op.off \in Offset /\ op.got \in Seq(Unit \cup {Junk})
        /\ written[op.off] \in Stripe
    BY OpKinds DEF TypeInv, TypeOK, ReadOp
  <2>2. op.start >= 0
    <3>1. XorServ(op.off) \in 1 .. NServers /\ NServers \in Nat
      BY <2>1, XorServType, SizeFacts
    <3> QED
      BY <3>1
  <2>3. /\ op.start \in Server /\ op.i = NServers
        /\ Len(op.got) = Taken * ChunkSz
        /\ \A j \in 0 .. Taken - 1 :
              Chunk(op.got, j) = Chunk(written[op.off], From(First, j))
    BY <2>2 DEF GotInv
  <2>4. First = 0
    BY <2>1, TurnFacts DEF First
  <2>5. Taken = K
    BY <2>3, <2>4, SizeFacts DEF Taken
  <2>6. \A j \in 0 .. K - 1 : From(First, j) = j
    BY <2>4, SizeFacts DEF From
  <2> QED
    BY <2>1, <2>3, <2>5, <2>6, SizeFacts, ChunksAreStripe
<1> QED
  BY <1>1, <1>2, <1>3, TypeInvariance, FileInvariance, PTL DEF Spec
=============================================================================
