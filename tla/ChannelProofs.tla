---------------------------- MODULE ChannelProofs ----------------------------
(***************************************************************************)
(* Proofs about one connection (module Channel), for any threads, calls,   *)
(* reads and names in a directory. Until the first slip the exchange is    *)
(* always in one of a few phases (InStep), with at most one handler        *)
(* running; that is why requests and answers stay in step without anything *)
(* that identifies them, and why what ends that is one of five things.     *)
(* What is stored depends on two of them only (Lined).                     *)
(***************************************************************************)
EXTENDS Channel, SequenceTheorems, TLAPS

-----------------------------------------------------------------------------
(***************************************************************************)
(* Streams.                                                                *)
(***************************************************************************)
LEMMA TakeFacts ==
    ASSUME NEW T, NEW s \in Seq(T), NEW n \in 0 .. Len(s)
    PROVE  /\ SubSeq(s, 1, n) \in Seq(T) /\ Len(SubSeq(s, 1, n)) = n
           /\ \A k \in 1 .. n : SubSeq(s, 1, n)[k] = s[k]
<1>1. Len(s) \in Nat /\ n \in Nat /\ n <= Len(s) /\ \A k \in 1 .. n : s[k] \in T
  OBVIOUS
<1>2. /\ SubSeq(s, 1, n) \in Seq(T)
      /\ Len(SubSeq(s, 1, n)) = IF 1 <= n THEN n - 1 + 1 ELSE 0
      /\ \A k \in 1 .. n - 1 + 1 : SubSeq(s, 1, n)[k] = s[1 + k - 1]
  BY <1>1, SubSeqProperties
<1> QED
  BY <1>1, <1>2

LEMMA DropFacts ==
    ASSUME NEW T, NEW s \in Seq(T), NEW n \in 0 .. Len(s)
    PROVE  /\ SubSeq(s, n + 1, Len(s)) \in Seq(T)
           /\ Len(SubSeq(s, n + 1, Len(s))) = Len(s) - n
           /\ \A k \in 1 .. Len(s) - n : SubSeq(s, n + 1, Len(s))[k] = s[k + n]
<1> DEFINE b == SubSeq(s, n + 1, Len(s))
<1>1. Len(s) \in Nat /\ n \in Nat /\ n <= Len(s) /\ \A k \in n + 1 .. Len(s) : s[k] \in T
  OBVIOUS
<1>2. /\ b \in Seq(T)
      /\ Len(b) = IF n + 1 <= Len(s) THEN Len(s) - (n + 1) + 1 ELSE 0
      /\ \A k \in 1 .. Len(s) - (n + 1) + 1 : b[k] = s[(n + 1) + k - 1]
  BY <1>1, SubSeqProperties
<1> HIDE DEF b
<1>3. ASSUME NEW k \in 1 .. Len(s) - n PROVE b[k] = s[k + n]
  <2>1. k \in 1 .. Len(s) - (n + 1) + 1 /\ (n + 1) + k - 1 = k + n
    BY <1>1
  <2> QED
    BY <1>2, <2>1
<1>4. Len(b) = Len(s) - n
  BY <1>1, <1>2
<1> QED
  BY <1>2, <1>3, <1>4 DEF b

\* What a read() returns is some units from the front, and leaves the rest.
LEMMA ReadsFacts ==
    ASSUME NEW s \in Seq(Unit), NEW n \in 1 .. 2, NEW got \in Reads(s, n)
    PROVE  /\ Len(got) \in 1 .. Len(s) /\ Len(got) <= n /\ got \in Seq(Unit)
           /\ \A k \in 1 .. Len(got) : got[k] = s[k]
           /\ got = SubSeq(s, 1, Len(got))
           /\ After(s, got) \in Seq(Unit) /\ Len(After(s, got)) = Len(s) - Len(got)
           /\ \A k \in 1 .. Len(s) - Len(got) : After(s, got)[k] = s[k + Len(got)]
           /\ ~ShortReads => Len(got) = n
<1>1. Len(s) \in Nat /\ n \in Nat
  OBVIOUS
<1>2. PICK m \in 1 .. Len(s) : m <= n /\ got = SubSeq(s, 1, m) /\ (~ShortReads => m = n)
  <2>1. CASE ShortReads
    <3> DEFINE lim == Min({n, Len(s)})
    <3>1. PICK m \in 1 .. lim : got = SubSeq(s, 1, m)
      BY <2>1 DEF Reads
    <3>2. lim \in {n, Len(s)} /\ lim <= n /\ lim <= Len(s)
      <4>1. CASE n <= Len(s)
        BY <1>1, <4>1 DEF Min
      <4>2. CASE Len(s) <= n
        BY <1>1, <4>2 DEF Min
      <4> QED
        BY <1>1, <4>1, <4>2
    <3> HIDE DEF lim
    <3>3. m \in 1 .. Len(s) /\ m <= n
      BY <1>1, <3>2
    <3> QED
      BY <2>1, <3>1, <3>3
  <2>2. CASE ~ShortReads
    <3>1. n <= Len(s) /\ got = SubSeq(s, 1, n)
      BY <2>2 DEF Reads
    <3> QED
      BY <1>1, <3>1
  <2> QED
    BY <2>1, <2>2
<1>3. m \in 0 .. Len(s) /\ m \in Nat
  BY <1>1
<1>4. got \in Seq(Unit) /\ Len(got) = m /\ \A k \in 1 .. m : got[k] = s[k]
  BY <1>2, <1>3, TakeFacts
<1>5. /\ After(s, got) \in Seq(Unit) /\ Len(After(s, got)) = Len(s) - m
      /\ \A k \in 1 .. Len(s) - m : After(s, got)[k] = s[k + m]
  BY <1>3, <1>4, DropFacts DEF After
<1> QED
  BY <1>1, <1>2, <1>3, <1>4, <1>5

\* The units there are.
LEMMA UnitFacts ==
    ASSUME NEW c \in Call
    PROVE  /\ \A part \in {"wrt", "opn", "rea", "odr", "rdr", "ret", "zeros", "data1", "data2",
                           "hashes", "result", "rest", "name", "mark", "end"} :
                 U(c, part) \in Unit
           /\ \A more \in BOOLEAN :
                 /\ Result(c, more) \in Seq(Unit) /\ Len(Result(c, more)) = 2
                 /\ Result(c, more)[1] = [call |-> c, more |-> more, part |-> "result"]
                 /\ Result(c, more)[2] = U(c, "rest")
<1>1. ASSUME NEW more \in BOOLEAN
      PROVE  [U(c, "result") EXCEPT !.more = more]
                = [call |-> c, more |-> more, part |-> "result"]
  BY DEF U
<1> QED
  BY <1>1 DEF U, Unit, Result

LEMMA PairFacts ==
    ASSUME NEW c, NEW first, NEW second, U(c, first) \in Unit, U(c, second) \in Unit
    PROVE  /\ Pair(c, first, second) \in Seq(Unit) /\ Len(Pair(c, first, second)) = 2
           /\ Pair(c, first, second)[1] = U(c, first)
           /\ Pair(c, first, second)[2] = U(c, second)
BY DEF Pair

\* Two streams in a row.
LEMMA JoinFacts ==
    ASSUME NEW T, NEW s \in Seq(T), NEW t \in Seq(T)
    PROVE  /\ s \o t \in Seq(T) /\ Len(s \o t) = Len(s) + Len(t)
           /\ Len(s) \in Nat /\ Len(t) \in Nat
           /\ \A k \in 1 .. Len(s) : (s \o t)[k] = s[k]
           /\ \A k \in 1 .. Len(t) : (s \o t)[Len(s) + k] = t[k]
<1>1. /\ s \o t \in Seq(T) /\ Len(s \o t) = Len(s) + Len(t)
      /\ \A k \in 1 .. Len(s) + Len(t) :
            (s \o t)[k] = IF k <= Len(s) THEN s[k] ELSE t[k - Len(s)]
      /\ Len(s) \in Nat /\ Len(t) \in Nat
  BY ConcatProperties
<1>2. \A k \in 1 .. Len(s) : (s \o t)[k] = s[k]
  BY <1>1
<1>3. ASSUME NEW k \in 1 .. Len(t) PROVE (s \o t)[Len(s) + k] = t[k]
  <2>1. Len(s) + k \in 1 .. Len(s) + Len(t) /\ ~(Len(s) + k <= Len(s))
        /\ (Len(s) + k) - Len(s) = k
    BY <1>1
  <2> QED
    BY <1>1, <2>1
<1> QED
  BY <1>1, <1>2, <1>3

-----------------------------------------------------------------------------
(***************************************************************************)
(* What the server answers.                                                *)
(***************************************************************************)
\* The directory listing of call c: names, the last of them with the end mark.
Listing(s, c) ==
    /\ s \in Seq(Unit)
    /\ \E n \in Nat :
          /\ Len(s) = 2 * n + 2
          /\ \A i \in 0 .. n :
                /\ s[2 * i + 1] = U(c, "name")
                /\ s[2 * i + 2] = U(c, IF i = n THEN "end" ELSE "mark")

LEMMA ListingFacts ==
    ASSUME NEW c \in Call, NEW n \in 0 .. MaxEntries
    PROVE  Listing(Entries(c, n, "mark") \o Pair(c, "name", "end"), c)
<1> DEFINE e == Entries(c, n, "mark")
           p == Pair(c, "name", "end")
           s == e \o p
<1>1. n \in Nat /\ 2 * n \in Nat
  BY ChannelAssumption
<1>2. U(c, "name") \in Unit /\ U(c, "mark") \in Unit /\ U(c, "end") \in Unit
  BY UnitFacts
<1>3. /\ e \in Seq(Unit) /\ Len(e) = 2 * n
      /\ \A k \in 1 .. 2 * n : e[k] = U(c, IF k % 2 = 1 THEN "name" ELSE "mark")
  <2>1. e = [k \in 1 .. 2 * n |-> U(c, IF k % 2 = 1 THEN "name" ELSE "mark")]
    BY DEF Entries
  <2>2. \A k \in 1 .. 2 * n : U(c, IF k % 2 = 1 THEN "name" ELSE "mark") \in Unit
    BY <1>2
  <2> QED
    BY <1>1, <2>1, <2>2
<1>4. p \in Seq(Unit) /\ Len(p) = 2 /\ p[1] = U(c, "name") /\ p[2] = U(c, "end")
  BY <1>2, PairFacts
<1> HIDE DEF e, p
<1>5. /\ s \in Seq(Unit) /\ Len(s) = 2 * n + 2
      /\ \A k \in 1 .. 2 * n : s[k] = e[k]
      /\ \A k \in 1 .. 2 : s[2 * n + k] = p[k]
  <2>1. /\ s \in Seq(Unit) /\ Len(s) = Len(e) + Len(p)
        /\ \A k \in 1 .. Len(e) : s[k] = e[k]
        /\ \A k \in 1 .. Len(p) : s[Len(e) + k] = p[k]
    <3>1. /\ e \o p \in Seq(Unit) /\ Len(e \o p) = Len(e) + Len(p)
          /\ \A k \in 1 .. Len(e) : (e \o p)[k] = e[k]
          /\ \A k \in 1 .. Len(p) : (e \o p)[Len(e) + k] = p[k]
      <4>1. e \in Seq(Unit) /\ p \in Seq(Unit)
        BY <1>3, <1>4
      <4> QED
        BY <4>1, JoinFacts
    <3> QED
      BY <3>1
  <2> HIDE DEF s
  <2> QED
    BY <1>1, <1>3, <1>4, <2>1
<1> HIDE DEF s
<1>6. ASSUME NEW i \in 0 .. n
      PROVE  /\ s[2 * i + 1] = U(c, "name")
             /\ s[2 * i + 2] = U(c, IF i = n THEN "end" ELSE "mark")
  <2>1. CASE i = n
    BY <1>4, <1>5, <2>1
  <2>2. CASE i # n
    <3>1. /\ 2 * i + 1 \in 1 .. 2 * n /\ 2 * i + 2 \in 1 .. 2 * n
          /\ (2 * i + 1) % 2 = 1 /\ (2 * i + 2) % 2 = 0
      BY <1>1, <2>2
    <3> QED
      BY <1>3, <1>5, <2>2, <3>1
  <2> QED
    BY <2>1, <2>2
<1> QED
  BY <1>1, <1>5, <1>6 DEF Listing, s, e, p

\* A listing whose blocks all carry the end mark ends early, unless it is one
\* block long.
LEMMA StaleFacts ==
    ASSUME NEW c \in Call, NEW n \in 0 .. MaxEntries, NEW a,
           a = Entries(c, n, "end") \o Pair(c, "name", "end")
    PROVE  a \in Seq(Unit) /\ (EndsEarly(a) \/ Listing(a, c))
<1> DEFINE e == Entries(c, n, "end")
           p == Pair(c, "name", "end")
           s == e \o p
<1>1. n \in Nat /\ 2 * n \in Nat
  BY ChannelAssumption
<1>2. U(c, "name") \in Unit /\ U(c, "end") \in Unit
  BY UnitFacts
<1>3. /\ e \in Seq(Unit) /\ Len(e) = 2 * n
      /\ \A k \in 1 .. 2 * n : e[k] = U(c, IF k % 2 = 1 THEN "name" ELSE "end")
  <2>1. e = [k \in 1 .. 2 * n |-> U(c, IF k % 2 = 1 THEN "name" ELSE "end")]
    BY DEF Entries
  <2>2. \A k \in 1 .. 2 * n : U(c, IF k % 2 = 1 THEN "name" ELSE "end") \in Unit
    BY <1>2
  <2> HIDE DEF e
  <2> QED
    BY <1>1, <2>1, <2>2
<1>4. p \in Seq(Unit) /\ Len(p) = 2
  BY <1>2, PairFacts
<1>5. a = s
  OBVIOUS
<1>6. CASE n = 0
  <2>1. e = Entries(c, n, "mark")
    <3>1. 2 * n = 0 /\ 1 .. 2 * n = {}
      BY <1>6
    <3> QED
      BY <3>1 DEF Entries
  <2>2. a = Entries(c, n, "mark") \o p
    BY <1>5, <2>1
  <2>3. Listing(a, c)
    BY <2>2, ListingFacts
  <2> QED
    BY <2>3 DEF Listing
<1>7. CASE n # 0
  <2> HIDE DEF e, p
  <2>1. /\ e \o p \in Seq(Unit) /\ Len(e \o p) = Len(e) + Len(p)
        /\ \A k \in 1 .. Len(e) : (e \o p)[k] = e[k]
    <3>1. e \in Seq(Unit) /\ p \in Seq(Unit)
      BY <1>3, <1>4
    <3> QED
      BY <3>1, JoinFacts
  <2> HIDE DEF s
  <2>2. s \in Seq(Unit) /\ Len(s) = 2 * n + 2 /\ \A k \in 1 .. 2 * n : s[k] = e[k]
    BY <1>1, <1>3, <1>4, <2>1 DEF s
  <2>3. 2 \in 1 .. 2 * n /\ 2 \in 1 .. Len(s) - 1 /\ 2 % 2 # 1
    BY <1>1, <1>7, <2>2
  <2>4. s[2] = U(c, "end")
    BY <1>3, <2>2, <2>3
  <2>5. s[2].part = "end"
    BY <2>4 DEF U
  <2>6. EndsEarly(s)
    BY <2>3, <2>5 DEF EndsEarly
  <2> QED
    BY <1>5, <2>2, <2>6
<1> HIDE DEF s
<1> QED
  BY <1>6, <1>7

\* Streams of two, three or four units
Two(s, a, b) == s \in Seq(Unit) /\ Len(s) = 2 /\ s[1] = a /\ s[2] = b
Three(s, a, b, c) ==
    s \in Seq(Unit) /\ Len(s) = 3 /\ s[1] = a /\ s[2] = b /\ s[3] = c
Four(s, a, b, c, d) ==
    s \in Seq(Unit) /\ Len(s) = 4 /\ s[1] = a /\ s[2] = b /\ s[3] = c /\ s[4] = d

R(c, more) == [call |-> c, more |-> more, part |-> "result"]

LEMMA ResultIs ==
    ASSUME NEW c \in Call, NEW more \in BOOLEAN
    PROVE  Two(Result(c, more), R(c, more), U(c, "rest"))
BY UnitFacts DEF Two, R

\* What the server answers to a command.
LEMMA AnswersFacts ==
    ASSUME NEW c \in Call, NEW cmd \in Command \ {"wrt"}, NEW a \in Answers(c, cmd)
    PROVE  /\ a \in Seq(Unit)
           /\ cmd = "ret" => Two(a, R(c, FALSE), U(c, "rest"))
           /\ cmd = "opn" => Three(a, U(c, "hashes"), R(c, FALSE), U(c, "rest"))
           /\ cmd = "rea" => \/ Two(a, R(c, FALSE), U(c, "rest"))
                             \/ Four(a, R(c, TRUE), U(c, "rest"), U(c, "data1"), U(c, "data2"))
           /\ cmd = "odr" => a = <<>>
           /\ cmd = "rdr" => EndsEarly(a) \/ Listing(a, c)
<1>1. CASE cmd = "ret"
  BY <1>1, ResultIs DEF Answers, Two
<1>2. CASE cmd = "opn"
  <2> DEFINE h == <<U(c, "hashes")>>
             r == Result(c, FALSE)
  <2>1. h \in Seq(Unit) /\ Len(h) = 1 /\ h[1] = U(c, "hashes")
    BY UnitFacts
  <2>2. Two(r, R(c, FALSE), U(c, "rest")) /\ r \in Seq(Unit)
    BY ResultIs DEF Two
  <2>3. a = h \o r
    BY <1>2 DEF Answers
  <2> HIDE DEF h, r
  <2>4. /\ a \in Seq(Unit) /\ Len(a) = 1 + Len(r)
        /\ \A k \in 1 .. 1 : a[k] = h[k]
        /\ \A k \in 1 .. Len(r) : a[1 + k] = r[k]
    <3>1. /\ h \o r \in Seq(Unit) /\ Len(h \o r) = Len(h) + Len(r)
          /\ \A k \in 1 .. Len(h) : (h \o r)[k] = h[k]
          /\ \A k \in 1 .. Len(r) : (h \o r)[Len(h) + k] = r[k]
      BY <2>1, <2>2, JoinFacts
    <3> QED
      BY <2>1, <2>3, <3>1
  <2>5. a[1] = h[1] /\ a[1 + 1] = r[1] /\ a[1 + 2] = r[2] /\ Len(a) = 3
    <3>1. Len(r) = 2
      BY <2>2 DEF Two
    <3> QED
      BY <2>4, <3>1
  <2>6. a[2] = r[1] /\ a[3] = r[2]
    BY <2>5
  <2> QED
    BY <1>2, <2>1, <2>2, <2>4, <2>5, <2>6 DEF Two, Three
<1>3. CASE cmd = "rea"
  <2> DEFINE r == Result(c, TRUE)
             d == Pair(c, "data1", "data2")
  <2>1. Two(r, R(c, TRUE), U(c, "rest")) /\ r \in Seq(Unit)
    BY ResultIs DEF Two
  <2>2. d \in Seq(Unit) /\ Len(d) = 2 /\ d[1] = U(c, "data1") /\ d[2] = U(c, "data2")
    BY UnitFacts, PairFacts
  <2>3. a = Result(c, FALSE) \/ a = r \o d
    BY <1>3 DEF Answers
  <2> HIDE DEF r, d
  <2>4. CASE a = Result(c, FALSE)
    BY <1>3, <2>4, ResultIs DEF Two
  <2>5. CASE a = r \o d
    <3>1. /\ a \in Seq(Unit) /\ Len(a) = Len(r) + Len(d)
          /\ \A k \in 1 .. Len(r) : a[k] = r[k]
          /\ \A k \in 1 .. Len(d) : a[Len(r) + k] = d[k]
      <4>1. /\ r \o d \in Seq(Unit) /\ Len(r \o d) = Len(r) + Len(d)
            /\ \A k \in 1 .. Len(r) : (r \o d)[k] = r[k]
            /\ \A k \in 1 .. Len(d) : (r \o d)[Len(r) + k] = d[k]
        BY <2>1, <2>2, JoinFacts
      <4> QED
        BY <2>5, <4>1
    <3>2. Len(r) = 2
      BY <2>1 DEF Two
    <3>3. a[2 + 1] = d[1] /\ a[2 + 2] = d[2] /\ a[1] = r[1] /\ a[2] = r[2] /\ Len(a) = 4
      BY <2>2, <3>1, <3>2
    <3>4. a[3] = d[1] /\ a[4] = d[2]
      BY <3>3
    <3> QED
      BY <1>3, <2>1, <2>2, <3>1, <3>3, <3>4 DEF Two, Four
  <2> QED
    BY <2>3, <2>4, <2>5
<1>4. CASE cmd = "odr"
  BY <1>4 DEF Answers
<1>5. CASE cmd = "rdr"
  <2>1. PICK n \in 0 .. MaxEntries, last \in {"mark", "end"} :
             a = Entries(c, n, last) \o Pair(c, "name", "end")
    BY <1>5 DEF Answers, Listings
  <2>2. CASE last = "mark"
    <3>1. Listing(a, c)
      BY <2>1, <2>2, ListingFacts
    <3> QED
      BY <1>5, <3>1 DEF Listing
  <2>3. CASE last = "end"
    <3>1. a \in Seq(Unit) /\ (EndsEarly(a) \/ Listing(a, c))
      BY <2>1, <2>3, StaleFacts
    <3> QED
      BY <1>5, <3>1
  <2> QED
    BY <2>2, <2>3
<1> QED
  BY <1>1, <1>2, <1>3, <1>4, <1>5 DEF Command

-----------------------------------------------------------------------------
(***************************************************************************)
(* Types.                                                                  *)
(***************************************************************************)
Handler == [call : Call \cup {NoCall}, cmd : Command, pc : {"idle", "data", "read"},
            reads : Seq(Expected)]

\* A handler that runs has its number; one that reads has something left to read.
Running(h) ==
    /\ h \in Handler
    /\ h.pc # "idle" => h.call \in Call
    /\ h.pc = "read" => h.reads # <<>>

TypeInv == TypeOK /\ \A w \in Worker : Running(worker[w])

LEMMA NewHandler ==
    ASSUME NEW c, NEW cmd
    PROVE  [Idle EXCEPT !.call = c, !.cmd = cmd]
              = [call |-> c, cmd |-> cmd, pc |-> "idle", reads |-> <<>>]
<1>1. [Idle EXCEPT !.call = c] = [call |-> c, cmd |-> "ret", pc |-> "idle", reads |-> <<>>]
  BY DEF Idle
<1>2. [[call |-> c, cmd |-> "ret", pc |-> "idle", reads |-> <<>>] EXCEPT !.cmd = cmd]
         = [call |-> c, cmd |-> cmd, pc |-> "idle", reads |-> <<>>]
  OBVIOUS
<1>3. [Idle EXCEPT !.call = c, !.cmd = cmd] = [[Idle EXCEPT !.call = c] EXCEPT !.cmd = cmd]
  OBVIOUS
<1> QED
  BY <1>1, <1>2, <1>3

LEMMA IdleType == Running(Idle) /\ Idle.pc = "idle"
BY DEF Idle, Handler, Command, Running

LEMMA ContinueType ==
    ASSUME NEW h \in Handler, h.call \in Call, NEW left \in Seq(Expected)
    PROVE  /\ Running(Continue(h, left))
           /\ left = <<>> => Continue(h, left) = Idle
           /\ left # <<>> => Continue(h, left)
                                = [call |-> h.call, cmd |-> h.cmd, pc |-> "read", reads |-> left]
<1>1. CASE left = <<>>
  BY <1>1, IdleType DEF Continue
<1>2. CASE left # <<>>
  <2>1. Continue(h, left) = [h EXCEPT !.pc = "read", !.reads = left]
    BY <1>2 DEF Continue
  <2>2. Continue(h, left) = [call |-> h.call, cmd |-> h.cmd, pc |-> "read", reads |-> left]
    BY <2>1 DEF Handler
  <2> QED
    BY <1>2, <2>2 DEF Handler, Running
<1> QED
  BY <1>1, <1>2

LEMMA FirstReadsType ==
    ASSUME NEW cmd \in Command PROVE FirstReads(cmd) \in Seq(Expected)
<1>1. <<"hashes", "result">> \in Seq(Expected) /\ <<>> \in Seq(Expected)
      /\ <<"entry">> \in Seq(Expected) /\ <<"result">> \in Seq(Expected)
  BY DEF Expected
<1>2. FirstReads(cmd) \in {<<"hashes", "result">>, <<>>, <<"entry">>, <<"result">>}
  BY DEF FirstReads
<1> QED
  BY <1>1, <1>2

LEMMA NextReadsType ==
    ASSUME NEW h \in Handler, h.reads # <<>>, NEW got, NEW left \in NextReads(h, got)
    PROVE  left \in Seq(Expected)
<1>1. <<"chunk">> \in Seq(Expected) /\ <<>> \in Seq(Expected) /\ <<"entry">> \in Seq(Expected)
      /\ <<"chunk", "chunk">> \in Seq(Expected)
  BY DEF Expected
<1>2. left \in {<<"chunk">>, <<>>, <<"entry">>, <<"chunk", "chunk">>, Tail(h.reads)}
  BY DEF NextReads
<1>3. Tail(h.reads) \in Seq(Expected)
  BY DEF Handler
<1> QED
  BY <1>1, <1>2, <1>3

\* The history only grows, and knows no other slips.
LEMMA SlipsGrow ==
    ASSUME TypeInv, [Next]_vars
    PROVE  slips \subseteq slips' /\ slips' \subseteq Slip
<1>1. slips \subseteq Slip
  BY DEF TypeInv, TypeOK
<1>2. ASSUME NEW w \in Worker, NEW cmd \in Command, SendCommand(w, cmd)
      PROVE  slips \subseteq slips' /\ slips' \subseteq Slip
  BY <1>1, <1>2 DEF SendCommand, Slip
<1>3. ASSUME NEW w \in Worker, SendData(w) \/ Receive(w)
      PROVE  slips \subseteq slips' /\ slips' \subseteq Slip
  <2>1. CASE SendData(w)
    BY <1>1, <2>1 DEF SendData
  <2>2. CASE Receive(w)
    <3>1. PICK got : Note("shortReply", Len(got) < SizeOf(Head(worker[w].reads)))
      BY <2>2 DEF Receive
    <3> QED
      BY <1>1, <3>1 DEF Note, Slip
  <2> QED
    BY <1>3, <2>1, <2>2
<1>4. CASE ServeCommand
  <2>1. PICK t \in SUBSET {"shortRequest", "staleEnd"} : slips' = slips \cup t
    <3>1. PICK got \in Reads(toServer, Block) :
             LET short == {s \in {"shortRequest"} : Len(got) < Block} IN
             \/ slips' = slips \cup short
             \/ \E a : slips' = slips \cup short \cup {s \in {"staleEnd"} : EndsEarly(a)}
      BY <1>4 DEF ServeCommand
    <3> DEFINE short == {s \in {"shortRequest"} : Len(got) < Block}
    <3>2. CASE slips' = slips \cup short
      BY <3>2
    <3>3. ASSUME NEW a, slips' = slips \cup short \cup {s \in {"staleEnd"} : EndsEarly(a)}
          PROVE  \E t \in SUBSET {"shortRequest", "staleEnd"} : slips' = slips \cup t
      <4>1. slips' = slips \cup (short \cup {s \in {"staleEnd"} : EndsEarly(a)})
        BY <3>3
      <4> QED
        BY <4>1
    <3> QED
      BY <3>1, <3>2, <3>3
  <2> QED
    BY <1>1, <2>1 DEF Slip
<1>5. CASE ServeData
  <2>1. PICK got : Note("shortRequest", Len(got) < Block)
    BY <1>5 DEF ServeData
  <2> QED
    BY <1>1, <2>1 DEF Note, Slip
<1>6. CASE UNCHANGED vars
  BY <1>1, <1>6 DEF vars
<1> QED
  BY <1>2, <1>3, <1>4, <1>5, <1>6 DEF Next, Handlers

\* One thread's handler changes, and nothing but the streams besides.
LEMMA WorkerStep ==
    ASSUME TypeInv, NEW w \in Worker, NEW h, Running(h),
           worker' = [worker EXCEPT ![w] = h],
           toServer' \in Seq(Unit), toClient' \in Seq(Unit), calls' \in 0 .. MaxCalls,
           UNCHANGED <<server, stored>>, slips' \subseteq Slip
    PROVE  TypeInv'
<1>1. worker \in [Worker -> Handler] /\ \A v \in Worker : Running(worker[v])
  BY DEF TypeInv, TypeOK, Handler
<1>2. worker' \in [Worker -> Handler] /\ \A v \in Worker : Running(worker'[v])
  BY <1>1 DEF Running
<1>3. TypeOK'
  BY <1>2 DEF TypeInv, TypeOK, Handler
<1> QED
  BY <1>2, <1>3 DEF TypeInv, Running

LEMMA ReplyType ==
    ASSUME TypeInv, UNCHANGED <<worker, calls>>,
           toServer' \in Seq(Unit), toClient' \in Seq(Unit),
           server' \in [pc : {"command", "data"}, call : Call \cup {NoCall}],
           server'.pc = "command" <=> server'.call = NoCall,
           stored' \in [call : Call \cup {NoCall}, data : Seq(Unit)],
           slips' \subseteq Slip
    PROVE  TypeInv'
BY DEF TypeInv, TypeOK, Running

LEMMA SendCommandType ==
    ASSUME TypeInv, NEW w \in Worker, NEW cmd \in Command, SendCommand(w, cmd)
    PROVE  TypeInv'
<1> DEFINE h == [Idle EXCEPT !.call = calls', !.cmd = cmd]
           g == IF cmd = "wrt" THEN [h EXCEPT !.pc = "data"] ELSE Continue(h, FirstReads(cmd))
<1>1. calls' = calls + 1 /\ calls' \in Call /\ calls' \in 0 .. MaxCalls
  BY ChannelAssumption DEF SendCommand, TypeInv, TypeOK, Call
<1>2. h = [call |-> calls', cmd |-> cmd, pc |-> "idle", reads |-> <<>>]
  BY NewHandler
<1>3. worker' = [worker EXCEPT ![w] = g] /\ UNCHANGED <<toClient, server, stored>>
      /\ toServer' = toServer \o Pair(calls', cmd, "zeros")
  BY DEF SendCommand
<1> HIDE DEF h
<1>4. h \in Handler /\ h.call \in Call
  BY <1>1, <1>2 DEF Handler
<1>5. Running(g)
  <2>1. CASE cmd = "wrt"
    <3>1. g = [call |-> calls', cmd |-> cmd, pc |-> "data", reads |-> <<>>]
      BY <1>2, <2>1
    <3>2. <<>> \in Seq(Expected)
      OBVIOUS
    <3> HIDE DEF g
    <3> QED
      BY <1>1, <3>1, <3>2 DEF Handler, Running
  <2>2. CASE cmd # "wrt"
    <3>1. FirstReads(cmd) \in Seq(Expected)
      BY FirstReadsType
    <3>2. Running(Continue(h, FirstReads(cmd)))
      BY <1>4, <3>1, ContinueType
    <3>3. g = Continue(h, FirstReads(cmd))
      BY <2>2
    <3> HIDE DEF g
    <3> QED
      BY <3>2, <3>3
  <2> QED
    BY <2>1, <2>2
<1>6. toServer' \in Seq(Unit)
  <2>1. U(calls', cmd) \in Unit /\ U(calls', "zeros") \in Unit
    BY <1>1, UnitFacts DEF Command
  <2>2. Pair(calls', cmd, "zeros") \in Seq(Unit) /\ toServer \in Seq(Unit)
    BY <2>1, PairFacts DEF TypeInv, TypeOK
  <2> QED
    BY <1>3, <2>2, ConcatProperties
<1>7. toClient' \in Seq(Unit) /\ UNCHANGED <<server, stored>>
  BY <1>3 DEF TypeInv, TypeOK
<1>8. slips' \subseteq Slip
  BY SlipsGrow DEF Next, Handlers
<1> HIDE DEF g
<1> QED
  BY <1>1, <1>3, <1>5, <1>6, <1>7, <1>8, WorkerStep

LEMMA SendDataType ==
    ASSUME TypeInv, NEW w \in Worker, SendData(w)
    PROVE  TypeInv'
<1> DEFINE c == worker[w].call
           g == Continue(worker[w], FirstReads("wrt"))
<1>1. worker[w] \in Handler /\ worker[w].pc = "data" /\ c \in Call
  BY DEF SendData, TypeInv, Running
<1>2. /\ worker' = [worker EXCEPT ![w] = g] /\ UNCHANGED <<toClient, server, stored, calls>>
      /\ toServer' = toServer \o Pair(c, "data1", "data2")
  BY DEF SendData, TypeInv, TypeOK
<1>3. Running(g)
  BY <1>1, ContinueType, FirstReadsType DEF Command
<1>4. toServer' \in Seq(Unit)
  <2>1. U(c, "data1") \in Unit /\ U(c, "data2") \in Unit
    BY <1>1, UnitFacts
  <2>2. Pair(c, "data1", "data2") \in Seq(Unit) /\ toServer \in Seq(Unit)
    BY <2>1, PairFacts DEF TypeInv, TypeOK
  <2> QED
    BY <1>2, <2>2, ConcatProperties
<1>5. toClient' \in Seq(Unit) /\ calls' \in 0 .. MaxCalls /\ UNCHANGED <<server, stored>>
  BY <1>2 DEF TypeInv, TypeOK
<1>6. slips' \subseteq Slip
  BY SlipsGrow DEF Next, Handlers
<1> HIDE DEF g
<1> QED
  BY <1>2, <1>3, <1>4, <1>5, <1>6, WorkerStep

LEMMA ReceiveType ==
    ASSUME TypeInv, NEW w \in Worker, Receive(w)
    PROVE  TypeInv'
<1> DEFINE h == worker[w]
           n == SizeOf(Head(h.reads))
<1>1. h \in Handler /\ h.pc = "read" /\ h.call \in Call /\ h.reads # <<>>
  BY DEF Receive, TypeInv, Running
<1>2. n \in 1 .. 2 /\ toClient \in Seq(Unit)
  BY DEF SizeOf, TypeInv, TypeOK
<1>3. PICK got \in Reads(toClient, n) :
           /\ toClient' = After(toClient, got)
           /\ \E left \in NextReads(h, got) :
                 worker' = [worker EXCEPT ![w] = Continue(h, left)]
           /\ UNCHANGED <<toServer, server, stored, calls>>
  BY DEF Receive, TypeInv, TypeOK
<1> HIDE DEF h, n
<1>4. PICK left \in NextReads(h, got) : worker' = [worker EXCEPT ![w] = Continue(h, left)]
  BY <1>3
<1>5. Running(Continue(h, left))
  BY <1>1, NextReadsType, ContinueType
<1>6. toClient' \in Seq(Unit)
  BY <1>2, <1>3, ReadsFacts
<1>7. toServer' \in Seq(Unit) /\ calls' \in 0 .. MaxCalls /\ UNCHANGED <<server, stored>>
  BY <1>3 DEF TypeInv, TypeOK
<1>8. slips' \subseteq Slip
  BY SlipsGrow DEF Next, Handlers
<1> QED
  BY <1>3, <1>4, <1>5, <1>6, <1>7, <1>8, WorkerStep

LEMMA ServeCommandType ==
    ASSUME TypeInv, ServeCommand
    PROVE  TypeInv'
<1>1. PICK got \in Reads(toServer, Block) :
           /\ toServer' = After(toServer, got)
           /\ LET u == Head(got)
                  short == {s \in {"shortRequest"} : Len(got) < Block}
              IN
              CASE u.part = "wrt" ->
                      /\ server' = [pc |-> "data", call |-> u.call]
                      /\ slips' = slips \cup short
                      /\ UNCHANGED toClient
                [] u.part \in Command \ {"wrt"} ->
                      /\ \E a \in Answers(u.call, u.part) :
                            /\ toClient' = toClient \o a
                            /\ slips' = slips \cup short \cup
                                  {s \in {"staleEnd"} : EndsEarly(a)}
                      /\ UNCHANGED server
                [] OTHER ->
                      /\ slips' = slips \cup short
                      /\ UNCHANGED <<server, toClient>>
  BY DEF ServeCommand
<1>2. UNCHANGED <<worker, stored, calls>> /\ toServer \in Seq(Unit) /\ toClient \in Seq(Unit)
      /\ Block \in 1 .. 2
  BY DEF ServeCommand, TypeInv, TypeOK, Block
<1>3. got \in Seq(Unit) /\ Len(got) >= 1 /\ toServer' \in Seq(Unit)
  BY <1>1, <1>2, ReadsFacts
<1> DEFINE u == Head(got)
<1>4. u \in Unit /\ u.call \in Call
  <2>1. 1 \in 1 .. Len(got)
    BY <1>3
  <2>2. got[1] \in Unit /\ u = got[1]
    BY <1>3, <2>1
  <2> QED
    BY <2>2 DEF Unit
<1>5. \/ server' = [pc |-> "data", call |-> u.call] /\ toClient' = toClient
      \/ /\ u.part \in Command \ {"wrt"} /\ server' = server
         /\ \E a \in Answers(u.call, u.part) : toClient' = toClient \o a
      \/ server' = server /\ toClient' = toClient
  BY <1>1
<1> HIDE DEF u
<1>6. toClient' \in Seq(Unit)
  <2> SUFFICES ASSUME u.part \in Command \ {"wrt"},
                      NEW a \in Answers(u.call, u.part), toClient' = toClient \o a
               PROVE  toClient' \in Seq(Unit)
    BY <1>2, <1>5
  <2>1. a \in Seq(Unit)
    BY <1>4, AnswersFacts
  <2> QED
    BY <1>2, <2>1, ConcatProperties
<1>7. /\ server' \in [pc : {"command", "data"}, call : Call \cup {NoCall}]
      /\ server'.pc = "command" <=> server'.call = NoCall
  <2>1. CASE server' = [pc |-> "data", call |-> u.call]
    BY <1>4, <2>1 DEF Call, NoCall
  <2>2. CASE server' = server
    BY <2>2 DEF TypeInv, TypeOK
  <2> QED
    BY <1>5, <2>1, <2>2
<1>8. stored' \in [call : Call \cup {NoCall}, data : Seq(Unit)]
  BY <1>2 DEF TypeInv, TypeOK
<1>9. slips' \subseteq Slip
  BY SlipsGrow DEF Next
<1> QED
  BY <1>2, <1>3, <1>6, <1>7, <1>8, <1>9, ReplyType

LEMMA ServeDataType ==
    ASSUME TypeInv, ServeData
    PROVE  TypeInv'
<1>1. PICK got \in Reads(toServer, Block) :
           /\ toServer' = After(toServer, got)
           /\ stored' = [call |-> server.call, data |-> got]
           /\ toClient' = toClient \o Result(server.call, FALSE)
  BY DEF ServeData
<1>2. /\ server.pc = "data" /\ server' = Waiting /\ UNCHANGED <<worker, calls>>
      /\ server.call \in Call /\ toServer \in Seq(Unit) /\ toClient \in Seq(Unit)
      /\ Block \in 1 .. 2
  BY DEF ServeData, TypeInv, TypeOK, Block
<1>3. got \in Seq(Unit) /\ toServer' \in Seq(Unit)
  BY <1>1, <1>2, ReadsFacts
<1>4. Result(server.call, FALSE) \in Seq(Unit)
  BY <1>2, UnitFacts
<1>5. toClient' \in Seq(Unit)
  BY <1>1, <1>2, <1>4, ConcatProperties
<1>6. /\ server' \in [pc : {"command", "data"}, call : Call \cup {NoCall}]
      /\ server'.pc = "command" <=> server'.call = NoCall
  BY <1>2 DEF Waiting
<1>7. stored' \in [call : Call \cup {NoCall}, data : Seq(Unit)]
  BY <1>1, <1>2, <1>3
<1>8. slips' \subseteq Slip
  BY SlipsGrow DEF Next
<1> QED
  BY <1>2, <1>3, <1>5, <1>6, <1>7, <1>8, ReplyType

LEMMA TypeInit == Init => TypeInv
<1> SUFFICES ASSUME Init PROVE TypeInv
  OBVIOUS
<1>1. worker \in [Worker -> Handler] /\ \A w \in Worker : Running(worker[w])
  BY IdleType DEF Init, Running
<1>2. server \in [pc : {"command", "data"}, call : Call \cup {NoCall}]
      /\ (server.pc = "command" <=> server.call = NoCall)
      /\ stored \in [call : Call \cup {NoCall}, data : Seq(Unit)]
  BY DEF Init, Waiting, Nothing
<1>3. calls \in 0 .. MaxCalls /\ toServer \in Seq(Unit) /\ toClient \in Seq(Unit)
      /\ slips \subseteq Slip
  BY ChannelAssumption DEF Init
<1> QED
  BY <1>1, <1>2, <1>3 DEF TypeInv, TypeOK, Handler

LEMMA TypeNext == TypeInv /\ [Next]_vars => TypeInv'
<1> SUFFICES ASSUME TypeInv, [Next]_vars PROVE TypeInv'
  OBVIOUS
<1>1. CASE UNCHANGED vars
  BY <1>1 DEF vars, TypeInv, TypeOK, Running
<1> QED
  BY <1>1, SendCommandType, SendDataType, ReceiveType, ServeCommandType, ServeDataType
     DEF Next, Handlers

LEMMA TypeInvariance == Spec => []TypeInv
BY TypeInit, TypeNext, PTL DEF Spec

\* Type correctness, for any number of threads and with short reads too.
THEOREM TypeCorrect == Spec => []TypeOK
<1>1. TypeInv => TypeOK
  BY DEF TypeInv
<1> QED
  BY <1>1, TypeInvariance, PTL

-----------------------------------------------------------------------------
(***************************************************************************)
(* What the client has sent: the commands of handlers that wait for no     *)
(* answer (r1_opendir), as many as there were, and then tail.              *)
(***************************************************************************)
Queue(s, tail) ==
    /\ s \in Seq(Unit)
    /\ \E n \in Nat :
          /\ Len(s) = 2 * n + Len(tail)
          /\ \A i \in 0 .. n - 1 : s[2 * i + 1].part = "odr"
          /\ \A k \in 1 .. Len(tail) : s[2 * n + k] = tail[k]

LEMMA QueueAppend ==
    ASSUME NEW s, NEW tail \in Seq(Unit), Queue(s, tail), NEW x \in Seq(Unit)
    PROVE  Queue(s \o x, tail \o x)
<1>1. PICK n \in Nat : /\ Len(s) = 2 * n + Len(tail)
                       /\ \A i \in 0 .. n - 1 : s[2 * i + 1].part = "odr"
                       /\ \A k \in 1 .. Len(tail) : s[2 * n + k] = tail[k]
  BY DEF Queue
<1> DEFINE t == tail \o x
           r == s \o x
<1>2. /\ r \in Seq(Unit) /\ Len(r) = Len(s) + Len(x) /\ Len(s) \in Nat /\ Len(x) \in Nat
      /\ \A k \in 1 .. Len(s) : r[k] = s[k]
      /\ \A k \in 1 .. Len(x) : r[Len(s) + k] = x[k]
  <2>1. s \in Seq(Unit)
    BY DEF Queue
  <2> QED
    BY <2>1, JoinFacts
<1>3. /\ t \in Seq(Unit) /\ Len(t) = Len(tail) + Len(x) /\ Len(tail) \in Nat
      /\ \A k \in 1 .. Len(tail) : t[k] = tail[k]
      /\ \A k \in 1 .. Len(x) : t[Len(tail) + k] = x[k]
  BY JoinFacts
<1> HIDE DEF t, r
<1>4. Len(r) = 2 * n + Len(t)
  BY <1>1, <1>2, <1>3
<1>5. ASSUME NEW i \in 0 .. n - 1 PROVE r[2 * i + 1].part = "odr"
  <2>1. 2 * i + 1 \in 1 .. Len(s)
    BY <1>1, <1>3
  <2> QED
    BY <1>1, <1>2, <2>1
<1>6. ASSUME NEW k \in 1 .. Len(t) PROVE r[2 * n + k] = t[k]
  <2>1. CASE k <= Len(tail)
    <3>1. k \in 1 .. Len(tail) /\ 2 * n + k \in 1 .. Len(s)
      BY <1>1, <1>2, <1>3, <2>1
    <3> QED
      BY <1>1, <1>2, <1>3, <3>1
  <2>2. CASE ~(k <= Len(tail))
    <3>1. /\ k - Len(tail) \in 1 .. Len(x)
          /\ Len(tail) + (k - Len(tail)) = k
          /\ Len(s) + (k - Len(tail)) = 2 * n + k
      BY <1>1, <1>2, <1>3, <2>2
    <3>2. t[k] = x[k - Len(tail)] /\ r[2 * n + k] = x[k - Len(tail)]
      BY <1>2, <1>3, <3>1
    <3> QED
      BY <3>2
  <2> QED
    BY <2>1, <2>2
<1> QED
  BY <1>2, <1>4, <1>5, <1>6 DEF Queue, t, r

\* One more command of the kind.
LEMMA QueueOne ==
    ASSUME NEW s, Queue(s, <<>>), NEW x, NEW c, Two(x, U(c, "odr"), U(c, "zeros"))
    PROVE  Queue(s \o x, <<>>)
<1>1. PICK n \in Nat : Len(s) = 2 * n /\ \A i \in 0 .. n - 1 : s[2 * i + 1].part = "odr"
  <2>1. PICK n \in Nat : /\ Len(s) = 2 * n + Len(<<>>)
                         /\ \A i \in 0 .. n - 1 : s[2 * i + 1].part = "odr"
    BY DEF Queue
  <2>2. Len(s) = 2 * n
    BY <2>1
  <2> QED
    BY <2>1, <2>2
<1> DEFINE r == s \o x
<1>2. x \in Seq(Unit) /\ Len(x) = 2 /\ x[1].part = "odr" /\ s \in Seq(Unit)
  BY DEF Two, U, Queue
<1>3. /\ r \in Seq(Unit) /\ Len(r) = Len(s) + Len(x)
      /\ \A k \in 1 .. Len(s) : r[k] = s[k]
      /\ \A k \in 1 .. Len(x) : r[Len(s) + k] = x[k]
  <2>1. s \in Seq(Unit) /\ x \in Seq(Unit)
    BY <1>2
  <2> QED
    BY <2>1, JoinFacts
<1> HIDE DEF r
<1>4. n + 1 \in Nat /\ Len(r) = 2 * (n + 1) + 0 /\ (n + 1) - 1 = n
  BY <1>1, <1>2, <1>3
<1>5. ASSUME NEW i \in 0 .. n PROVE r[2 * i + 1].part = "odr"
  <2>1. CASE i = n
    <3>1. 1 \in 1 .. Len(x) /\ 2 * i + 1 = Len(s) + 1
      BY <1>1, <1>2, <2>1
    <3> QED
      BY <1>2, <1>3, <3>1
  <2>2. CASE i # n
    <3>1. i \in 0 .. n - 1 /\ 2 * i + 1 \in 1 .. Len(s)
      BY <1>1, <2>2
    <3> QED
      BY <1>1, <1>3, <3>1
  <2> QED
    BY <2>1, <2>2
<1>6. Len(r) = 2 * (n + 1) + Len(<<>>)
  BY <1>4
<1>7. \A k \in 1 .. Len(<<>>) : r[2 * (n + 1) + k] = <<>>[k]
  OBVIOUS
<1>8. \A i \in 0 .. (n + 1) - 1 : r[2 * i + 1].part = "odr"
  BY <1>4, <1>5
<1>9. Queue(r, <<>>)
  BY <1>3, <1>4, <1>6, <1>7, <1>8 DEF Queue
<1> QED
  BY <1>9 DEF r

\* The server reads the first block: one of those commands, or tail begins.
LEMMA QueueTake ==
    ASSUME NEW s, NEW tail \in Seq(Unit), Queue(s, tail),
           NEW got \in Reads(s, Block), Len(got) = Block
    PROVE  \/ Head(got).part = "odr" /\ Queue(After(s, got), tail)
           \/ /\ Len(tail) >= 2 /\ Head(got) = tail[1]
              /\ Two(got, tail[1], tail[2])
              /\ After(s, got) \in Seq(Unit) /\ Len(After(s, got)) = Len(tail) - 2
              /\ \A k \in 1 .. Len(tail) - 2 : After(s, got)[k] = tail[k + 2]
<1>1. PICK n \in Nat : /\ Len(s) = 2 * n + Len(tail)
                       /\ \A i \in 0 .. n - 1 : s[2 * i + 1].part = "odr"
                       /\ \A k \in 1 .. Len(tail) : s[2 * n + k] = tail[k]
  BY DEF Queue
<1> DEFINE r == After(s, got)
<1>2. /\ got \in Seq(Unit) /\ Len(got) = 2 /\ 2 \in 1 .. Len(s)
      /\ \A k \in 1 .. 2 : got[k] = s[k]
      /\ r \in Seq(Unit) /\ Len(r) = Len(s) - 2
      /\ \A k \in 1 .. Len(s) - 2 : r[k] = s[k + 2]
  <2>1. s \in Seq(Unit) /\ 2 \in 1 .. 2 /\ got \in Reads(s, 2)
    BY DEF Queue, Block
  <2>2. /\ Len(got) \in 1 .. Len(s) /\ got \in Seq(Unit) /\ Len(got) = 2
        /\ \A k \in 1 .. Len(got) : got[k] = s[k]
        /\ r \in Seq(Unit) /\ Len(r) = Len(s) - Len(got)
        /\ \A k \in 1 .. Len(s) - Len(got) : r[k] = s[k + Len(got)]
    BY <2>1, ReadsFacts DEF Block
  <2> HIDE DEF r
  <2> QED
    BY <2>2
<1> HIDE DEF r
<1>3. Head(got) = s[1] /\ Len(tail) \in Nat /\ Len(s) \in Nat /\ 2 <= Len(s)
      /\ got[1] = s[1] /\ got[2] = s[2]
  <2>1. Head(got) = got[1]
    BY <1>2
  <2>2. 1 \in 1 .. 2 /\ 2 \in 1 .. 2
    OBVIOUS
  <2> QED
    BY <1>1, <1>2, <2>1, <2>2
<1>4. CASE n > 0
  <2>1. Head(got).part = "odr"
    <3>1. 0 \in 0 .. n - 1 /\ 2 * 0 + 1 = 1
      BY <1>4
    <3> QED
      BY <1>1, <1>3, <3>1
  <2>2. n - 1 \in Nat /\ Len(r) = 2 * (n - 1) + Len(tail)
    BY <1>1, <1>2, <1>3, <1>4
  <2>3. ASSUME NEW i \in 0 .. (n - 1) - 1 PROVE r[2 * i + 1].part = "odr"
    <3>1. /\ 2 * i + 1 \in 1 .. Len(s) - 2 /\ (2 * i + 1) + 2 = 2 * (i + 1) + 1
          /\ i + 1 \in 0 .. n - 1
      BY <1>1, <1>3, <1>4
    <3>2. r[2 * i + 1] = s[2 * (i + 1) + 1]
      BY <1>2, <3>1
    <3> QED
      BY <1>1, <3>1, <3>2
  <2>4. ASSUME NEW k \in 1 .. Len(tail) PROVE r[2 * (n - 1) + k] = tail[k]
    <3>1. /\ 2 * (n - 1) + k \in 1 .. Len(s) - 2
          /\ (2 * (n - 1) + k) + 2 = 2 * n + k
      BY <1>1, <1>3, <1>4
    <3>2. r[2 * (n - 1) + k] = s[2 * n + k]
      BY <1>2, <3>1
    <3> QED
      BY <1>1, <3>2
  <2>5. Queue(r, tail)
    BY <1>2, <2>2, <2>3, <2>4 DEF Queue
  <2> QED
    BY <2>1, <2>5 DEF r
<1>5. CASE n = 0
  <2>1. Len(s) = Len(tail) /\ \A k \in 1 .. Len(tail) : s[k] = tail[k]
    <3>1. ASSUME NEW k \in 1 .. Len(tail) PROVE s[k] = tail[k]
      <4>1. 2 * n + k = k
        BY <1>3, <1>5
      <4> QED
        BY <1>1, <4>1
    <3> QED
      BY <1>1, <1>3, <1>5, <3>1
  <2>2. Len(tail) >= 2 /\ s[1] = tail[1] /\ s[2] = tail[2]
    BY <1>3, <2>1
  <2>3. ASSUME NEW k \in 1 .. Len(tail) - 2 PROVE r[k] = tail[k + 2]
    <3>1. k \in 1 .. Len(s) - 2 /\ k + 2 \in 1 .. Len(tail)
      BY <1>3, <2>1
    <3> QED
      BY <1>2, <2>1, <3>1
  <2> QED
    BY <1>2, <1>3, <2>1, <2>2, <2>3 DEF Two, r
<1> QED
  BY <1>4, <1>5

-----------------------------------------------------------------------------
(***************************************************************************)
(* The phases of the exchange with one thread, whose handler is h.         *)
(***************************************************************************)
\* No handler runs; the server may have commands of r1_opendir to read.
Resting(h) ==
    h = Idle /\ server = Waiting /\ Queue(toServer, <<>>) /\ toClient = <<>>

\* The command is on its way.
Asked(h) ==
    /\ h.pc = "read" /\ h.cmd \in {"ret", "opn", "rea", "rdr"}
    /\ h.reads = FirstReads(h.cmd)
    /\ server = Waiting /\ Queue(toServer, Pair(h.call, h.cmd, "zeros"))
    /\ toClient = <<>>

\* What is still to read of the answer is all there is on the way back.
Pending(h, s) ==
    \/ h.reads = <<"result">> /\ h.cmd # "rea" /\ Two(s, R(h.call, FALSE), U(h.call, "rest"))
    \/ /\ h.reads = <<"hashes", "result">> /\ h.cmd = "opn"
       /\ Three(s, U(h.call, "hashes"), R(h.call, FALSE), U(h.call, "rest"))
    \/ /\ h.reads = <<"result">> /\ h.cmd = "rea"
       /\ \/ Two(s, R(h.call, FALSE), U(h.call, "rest"))
          \/ Four(s, R(h.call, TRUE), U(h.call, "rest"),
                  U(h.call, "data1"), U(h.call, "data2"))
    \/ h.reads = <<"chunk">> /\ h.cmd = "rea" /\ Two(s, U(h.call, "data1"), U(h.call, "data2"))
    \/ h.reads = <<"entry">> /\ h.cmd = "rdr" /\ Listing(s, h.call)

Answered(h) ==
    h.pc = "read" /\ server = Waiting /\ toServer = <<>> /\ Pending(h, toClient)

\* A "wrt": its command is sent, and then its chunk.
Receiving(h) == server = [pc |-> "data", call |-> h.call]

Sending(h) ==
    /\ h.pc = "data" /\ h.cmd = "wrt" /\ toClient = <<>>
    /\ \/ server = Waiting /\ Queue(toServer, Pair(h.call, "wrt", "zeros"))
       \/ Receiving(h) /\ toServer = <<>>

Sent(h) ==
    /\ h.pc = "read" /\ h.cmd = "wrt" /\ h.reads = <<"result">> /\ toClient = <<>>
    /\ \/ /\ server = Waiting
          /\ Queue(toServer, Pair(h.call, "wrt", "zeros") \o Pair(h.call, "data1", "data2"))
       \/ Receiving(h) /\ toServer = Pair(h.call, "data1", "data2")

Phase(h) == Resting(h) \/ Asked(h) \/ Answered(h) \/ Sending(h) \/ Sent(h)

\* No handler runs but, perhaps, that of w.
InStep(w) == Phase(worker[w]) /\ \A u \in Worker \ {w} : worker[u] = Idle

\* Until the first slip
Kept == TypeInv /\ (slips = {} => \E w \in Worker : InStep(w))

LEMMA EmptyFacts ==
    /\ <<>> \in Seq(Unit) /\ Len(<<>>) = 0
    /\ \A s \in Seq(Unit) : Len(s) = 0 => s = <<>>
    /\ \A s \in Seq(Unit) : <<>> \o s = s
OBVIOUS

\* Nothing to read: a whole read() blocks.
LEMMA Blocked == \A n \in {1, 2} : Reads(<<>>, n) = {}
<1> SUFFICES ASSUME NEW n \in {1, 2}, NEW got \in Reads(<<>>, n) PROVE FALSE
  OBVIOUS
<1>1. <<>> \in Seq(Unit) /\ n \in 1 .. 2
  OBVIOUS
<1>2. Len(got) \in 1 .. Len(<<>>)
  BY <1>1, ReadsFacts
<1> QED
  BY <1>2

LEMMA QueueEmpty == Queue(<<>>, <<>>)
<1>1. \A i \in 0 .. 0 - 1 : FALSE
  OBVIOUS
<1>2. \A k \in 1 .. Len(<<>>) : FALSE
  OBVIOUS
<1>3. 0 \in Nat /\ Len(<<>>) = 2 * 0 + Len(<<>>)
  OBVIOUS
<1>4. <<>> \in Seq(Unit)
  OBVIOUS
<1> QED
  BY <1>1, <1>2, <1>3, <1>4 DEF Queue

\* Two streams of the same two units are the same.
LEMMA TwoEqual ==
    ASSUME NEW s, NEW a, NEW b, Two(s, a, b)
    PROVE  s = <<a, b>>
BY DEF Two

\* The command of a handler, on top of the queue.
LEMMA QueuePair ==
    ASSUME Queue(toServer, <<>>), NEW c \in Call, NEW cmd \in Command
    PROVE  Queue(toServer \o Pair(c, cmd, "zeros"), Pair(c, cmd, "zeros"))
<1> DEFINE x == Pair(c, cmd, "zeros")
<1>1. x \in Seq(Unit)
  BY UnitFacts, PairFacts DEF Command
<1> HIDE DEF x
<1>2. Queue(toServer \o x, <<>> \o x) /\ <<>> \o x = x
  BY <1>1, EmptyFacts, QueueAppend
<1> QED
  BY <1>2 DEF x

\* When the one handler there may be has returned, another may start.
LEMMA AllIdle ==
    ASSUME NEW v \in Worker, InStep(v), worker[v].pc = "idle"
    PROVE  \A w \in Worker : worker[w] = Idle /\ InStep(w)
<1>1. Resting(worker[v])
  BY DEF InStep, Phase, Asked, Answered, Sending, Sent
<1> QED
  BY <1>1 DEF InStep, Phase, Resting

LEMMA SendCommandStep ==
    ASSUME TypeInv, NEW w \in Worker, InStep(w), NEW cmd \in Command, SendCommand(w, cmd)
    PROVE  Phase(worker[w])'
<1> DEFINE c == calls'
           h == [Idle EXCEPT !.call = calls', !.cmd = cmd]
           g == IF cmd = "wrt" THEN [h EXCEPT !.pc = "data"] ELSE Continue(h, FirstReads(cmd))
<1>1. w \in Worker /\ worker[w].pc = "idle" /\ c \in Call
  BY ChannelAssumption DEF SendCommand, TypeInv, TypeOK, Call
<1>2. h = [call |-> c, cmd |-> cmd, pc |-> "idle", reads |-> <<>>]
  BY NewHandler
<1>3. worker'[w] = g /\ UNCHANGED <<toClient, server, stored>>
      /\ toServer' = toServer \o Pair(c, cmd, "zeros")
  BY <1>1 DEF SendCommand, TypeInv, TypeOK
<1>4. server = Waiting /\ Queue(toServer, <<>>) /\ toClient = <<>>
  BY <1>1 DEF InStep, Phase, Resting, Asked, Answered, Sending, Sent
<1> HIDE DEF c, h
<1>6. h \in Handler /\ h.call = c
  BY <1>1, <1>2 DEF Handler
<1>7. Queue(toServer', Pair(c, cmd, "zeros"))
  BY <1>1, <1>3, <1>4, QueuePair
<1>8. CASE cmd = "wrt"
  <2>1. g = [call |-> c, cmd |-> cmd, pc |-> "data", reads |-> <<>>]
    BY <1>2, <1>8
  <2> HIDE DEF g
  <2>2. Sending(worker[w])'
    BY <1>3, <1>4, <1>7, <1>8, <2>1 DEF Sending
  <2> QED
    BY <2>2 DEF Phase
<1>9. CASE cmd = "odr"
  <2>1. g = Idle
    BY <1>9 DEF Continue, FirstReads
  <2>2. Two(Pair(c, cmd, "zeros"), U(c, "odr"), U(c, "zeros"))
    <3>1. U(c, "odr") \in Unit /\ U(c, "zeros") \in Unit
      BY <1>1, UnitFacts
    <3> QED
      BY <1>9, <3>1, PairFacts DEF Two
  <2>3. Queue(toServer', <<>>)
    BY <1>3, <1>4, <2>2, QueueOne
  <2> HIDE DEF g
  <2>4. Resting(worker[w])'
    BY <1>3, <1>4, <2>1, <2>3 DEF Resting
  <2> QED
    BY <2>4 DEF Phase
<1>10. CASE cmd \notin {"wrt", "odr"}
  <2>1. FirstReads(cmd) \in Seq(Expected) /\ FirstReads(cmd) # <<>>
    <3>1. FirstReads(cmd) # <<>>
      BY <1>10 DEF FirstReads
    <3> QED
      BY <3>1, FirstReadsType
  <2>2. Continue(h, FirstReads(cmd))
           = [call |-> h.call, cmd |-> h.cmd, pc |-> "read", reads |-> FirstReads(cmd)]
    BY <1>1, <1>6, <2>1, ContinueType
  <2>3. g = [call |-> c, cmd |-> cmd, pc |-> "read", reads |-> FirstReads(cmd)]
    BY <1>2, <1>10, <2>2
  <2> HIDE DEF g
  <2>4. Asked(worker[w])'
    BY <1>3, <1>4, <1>7, <1>10, <2>3 DEF Asked, Command
  <2> QED
    BY <2>4 DEF Phase
<1> QED
  BY <1>8, <1>9, <1>10

LEMMA SendDataStep ==
    ASSUME TypeInv, NEW w \in Worker, InStep(w), SendData(w)
    PROVE  Phase(worker[w])'
<1> DEFINE h == worker[w]
           p == Pair(h.call, "wrt", "zeros")
           d == Pair(h.call, "data1", "data2")
<1>1. w \in Worker /\ h \in Handler /\ h.pc = "data" /\ h.call \in Call
  BY DEF SendData, TypeInv, Running
<1>2. worker'[w] = Continue(h, <<"result">>) /\ UNCHANGED <<toClient, server, stored>>
      /\ toServer' = toServer \o d
  BY <1>1 DEF SendData, TypeInv, TypeOK, FirstReads
<1>3. Sending(h)
  BY <1>1 DEF InStep, Phase, Resting, Asked, Answered, Sending, Sent, Idle
<1>5. p \in Seq(Unit) /\ d \in Seq(Unit)
  BY <1>1, UnitFacts, PairFacts
<1>6. worker'[w] = [call |-> h.call, cmd |-> h.cmd, pc |-> "read", reads |-> <<"result">>]
  <2>1. <<"result">> \in Seq(Expected) /\ <<"result">> # <<>>
    BY DEF Expected
  <2> HIDE DEF h
  <2> QED
    BY <1>1, <1>2, <2>1, ContinueType
<1>7. CASE server = Waiting /\ Queue(toServer, p)
  <2> HIDE DEF p, d
  <2>1. Queue(toServer', p \o d)
    BY <1>2, <1>5, <1>7, QueueAppend
  <2>2. Sent(worker[w])'
    BY <1>2, <1>3, <1>6, <1>7, <2>1 DEF Sent, Sending, p, d
  <2> QED
    BY <2>2 DEF Phase
<1>8. CASE Receiving(h) /\ toServer = <<>>
  <2> HIDE DEF d
  <2>1. toServer' = d
    BY <1>2, <1>5, <1>8, EmptyFacts
  <2>2. Sent(worker[w])'
    BY <1>2, <1>3, <1>6, <1>8, <2>1 DEF Sent, Sending, Receiving, d
  <2> QED
    BY <2>2 DEF Phase
<1> QED
  BY <1>3, <1>7, <1>8 DEF Sending

\* One unit is read, or two.
LEMMA TookOne ==
    ASSUME NEW s \in Seq(Unit), NEW got \in Reads(s, 1), Len(got) = 1
    PROVE  /\ Len(s) \in Nat /\ Len(s) >= 1 /\ got[1] = s[1]
           /\ got = SubSeq(s, 1, 1)
           /\ After(s, got) \in Seq(Unit) /\ Len(After(s, got)) = Len(s) - 1
           /\ \A k \in 1 .. Len(s) - 1 : After(s, got)[k] = s[k + 1]
           /\ DOMAIN got = {1} /\ [i \in DOMAIN got |-> got[i].part] = <<s[1].part>>
<1> DEFINE r == After(s, got)
<1>1. 1 \in 1 .. 2
  OBVIOUS
<1>2. /\ Len(got) \in 1 .. Len(s) /\ got \in Seq(Unit) /\ Len(got) = 1
      /\ \A k \in 1 .. Len(got) : got[k] = s[k]
      /\ got = SubSeq(s, 1, Len(got))
      /\ r \in Seq(Unit) /\ Len(r) = Len(s) - Len(got)
      /\ \A k \in 1 .. Len(s) - Len(got) : r[k] = s[k + Len(got)]
  BY <1>1, ReadsFacts
<1> HIDE DEF r
<1>3. Len(s) \in Nat /\ Len(s) >= 1 /\ got[1] = s[1] /\ DOMAIN got = {1}
  BY <1>2
<1>4. [i \in DOMAIN got |-> got[i].part] = <<s[1].part>>
  BY <1>3
<1> QED
  BY <1>2, <1>3, <1>4 DEF r

LEMMA TookTwo ==
    ASSUME NEW s \in Seq(Unit), NEW got \in Reads(s, 2), Len(got) = 2
    PROVE  /\ Len(s) \in Nat /\ Len(s) >= 2 /\ got[1] = s[1] /\ got[2] = s[2]
           /\ got = SubSeq(s, 1, 2) /\ Head(got) = s[1] /\ Last(got) = s[2]
           /\ After(s, got) \in Seq(Unit) /\ Len(After(s, got)) = Len(s) - 2
           /\ \A k \in 1 .. Len(s) - 2 : After(s, got)[k] = s[k + 2]
           /\ DOMAIN got = {1, 2}
           /\ [i \in DOMAIN got |-> got[i].part] = <<s[1].part, s[2].part>>
<1> DEFINE r == After(s, got)
<1>1. 2 \in 1 .. 2
  OBVIOUS
<1>2. /\ Len(got) \in 1 .. Len(s) /\ got \in Seq(Unit) /\ Len(got) = 2
      /\ \A k \in 1 .. Len(got) : got[k] = s[k]
      /\ got = SubSeq(s, 1, Len(got))
      /\ r \in Seq(Unit) /\ Len(r) = Len(s) - Len(got)
      /\ \A k \in 1 .. Len(s) - Len(got) : r[k] = s[k + Len(got)]
  BY <1>1, ReadsFacts
<1> HIDE DEF r
<1>3. Len(s) \in Nat /\ Len(s) >= 2 /\ got[1] = s[1] /\ got[2] = s[2] /\ DOMAIN got = {1, 2}
  BY <1>2
<1>4. Head(got) = s[1] /\ Last(got) = s[2]
  BY <1>2, <1>3 DEF Last
<1>5. [i \in DOMAIN got |-> got[i].part] = <<s[1].part, s[2].part>>
  BY <1>3
<1> QED
  BY <1>2, <1>3, <1>4, <1>5 DEF r

\* Units that are what their reader takes them for.
LEMMA ReplyIs ==
    ASSUME NEW s \in Seq(Unit), NEW what, NEW got \in Reads(s, SizeOf(what)),
           Len(got) = SizeOf(what),
           NEW c, s[1].call = c,
           \/ what = "hashes" /\ s[1].part = "hashes"
           \/ /\ s[2].call = c
              /\ \/ what = "result" /\ s[1].part = "result" /\ s[2].part = "rest"
                 \/ what = "chunk" /\ s[1].part = "data1" /\ s[2].part = "data2"
                 \/ what = "entry" /\ s[1].part = "name" /\ s[2].part \in {"mark", "end"}
    PROVE  IsReply(got, c, what)
<1> DEFINE parts == [i \in DOMAIN got |-> got[i].part]
<1>1. CASE what = "hashes"
  <2>1. DOMAIN got = {1} /\ got[1] = s[1] /\ parts = <<s[1].part>>
    BY <1>1, TookOne DEF SizeOf
  <2> HIDE DEF parts
  <2>2. (\A i \in DOMAIN got : got[i].call = c) /\ parts = <<"hashes">>
    BY <1>1, <2>1
  <2> QED
    BY <1>1, <2>2 DEF IsReply, parts
<1>2. CASE what \in {"result", "chunk", "entry"}
  <2>1. /\ DOMAIN got = {1, 2} /\ got[1] = s[1] /\ got[2] = s[2]
        /\ parts = <<s[1].part, s[2].part>>
    BY <1>2, TookTwo DEF SizeOf
  <2> HIDE DEF parts
  <2>2. /\ \A i \in DOMAIN got : got[i].call = c
        /\ what = "result" => parts = <<"result", "rest">>
        /\ what = "chunk" => parts = <<"data1", "data2">>
        /\ what = "entry" => parts \in {<<"name", "mark">>, <<"name", "end">>}
    BY <1>2, <2>1
  <2> QED
    BY <1>2, <2>2 DEF IsReply, parts
<1> QED
  BY <1>1, <1>2

\* A handler's read() returns the next part of its answer, whole, and leaves the
\* parts it is still to read.
LEMMA PendingTake ==
    ASSUME NEW h \in Handler, NEW s \in Seq(Unit), Pending(h, s),
           NEW got \in Reads(s, SizeOf(Head(h.reads))),
           Len(got) = SizeOf(Head(h.reads)), NEW left \in NextReads(h, got)
    PROVE  /\ IsReply(got, h.call, Head(h.reads))
           /\ got = SubSeq(s, 1, Len(s) - Len(After(s, got)))
           /\ \/ left = <<>> /\ After(s, got) = <<>>
              \/ /\ left # <<>>
                 /\ \A g : g.call = h.call /\ g.cmd = h.cmd /\ g.reads = left
                              => Pending(g, After(s, got))
<1> DEFINE c == h.call
           r == After(s, got)
<1>1. got \in Reads(s, 1) /\ Len(got) = 1 =>
             /\ got = SubSeq(s, 1, Len(s) - Len(r))
             /\ r \in Seq(Unit) /\ Len(r) = Len(s) - 1
             /\ \A k \in 1 .. Len(s) - 1 : r[k] = s[k + 1]
  <2> SUFFICES ASSUME got \in Reads(s, 1), Len(got) = 1
               PROVE  /\ got = SubSeq(s, 1, Len(s) - Len(r))
                      /\ r \in Seq(Unit) /\ Len(r) = Len(s) - 1
                      /\ \A k \in 1 .. Len(s) - 1 : r[k] = s[k + 1]
    OBVIOUS
  <2>1. /\ Len(s) \in Nat /\ got = SubSeq(s, 1, 1)
        /\ r \in Seq(Unit) /\ Len(r) = Len(s) - 1
        /\ \A k \in 1 .. Len(s) - 1 : r[k] = s[k + 1]
    BY TookOne
  <2> HIDE DEF r
  <2>2. Len(s) - Len(r) = 1
    BY <2>1
  <2> QED
    BY <2>1, <2>2
<1>2. got \in Reads(s, 2) /\ Len(got) = 2 =>
             /\ got = SubSeq(s, 1, Len(s) - Len(r))
             /\ r \in Seq(Unit) /\ Len(r) = Len(s) - 2
             /\ \A k \in 1 .. Len(s) - 2 : r[k] = s[k + 2]
  <2> SUFFICES ASSUME got \in Reads(s, 2), Len(got) = 2
               PROVE  /\ got = SubSeq(s, 1, Len(s) - Len(r))
                      /\ r \in Seq(Unit) /\ Len(r) = Len(s) - 2
                      /\ \A k \in 1 .. Len(s) - 2 : r[k] = s[k + 2]
    OBVIOUS
  <2>1. /\ Len(s) \in Nat /\ got = SubSeq(s, 1, 2)
        /\ r \in Seq(Unit) /\ Len(r) = Len(s) - 2
        /\ \A k \in 1 .. Len(s) - 2 : r[k] = s[k + 2]
    BY TookTwo
  <2> HIDE DEF r
  <2>2. Len(s) - Len(r) = 2
    BY <2>1
  <2> QED
    BY <2>1, <2>2
<1> HIDE DEF r
<1>3. CASE /\ h.reads = <<"result">> /\ h.cmd # "rea"
           /\ Two(s, R(c, FALSE), U(c, "rest"))
  <2>1. Head(h.reads) = "result" /\ SizeOf("result") = 2 /\ left = <<>>
    BY <1>3 DEF SizeOf, NextReads
  <2>2. got \in Reads(s, 2) /\ Len(got) = 2
    BY <2>1
  <2>3. s[1] = R(c, FALSE) /\ s[2] = U(c, "rest") /\ Len(s) = 2
    BY <1>3 DEF Two
  <2>4. IsReply(got, c, "result")
    BY <2>1, <2>2, <2>3, ReplyIs DEF R, U
  <2>5. Len(r) = 0 /\ r \in Seq(Unit)
    <3>1. /\ r \in Seq(Unit) /\ Len(r) = Len(s) - 2
          /\ \A k \in 1 .. Len(s) - 2 : r[k] = s[k + 2]
      BY ONLY <1>2, <2>2
    <3> QED
      BY ONLY <2>3, <3>1
  <2> QED
    BY <1>2, <2>1, <2>2, <2>4, <2>5, EmptyFacts DEF r
<1>4. CASE /\ h.reads = <<"hashes", "result">> /\ h.cmd = "opn"
           /\ Three(s, U(c, "hashes"), R(c, FALSE), U(c, "rest"))
  <2>1. Head(h.reads) = "hashes" /\ SizeOf("hashes") = 1 /\ left = <<"result">>
    BY <1>4 DEF SizeOf, NextReads
  <2>2. got \in Reads(s, 1) /\ Len(got) = 1
    BY <2>1
  <2>3. s[1] = U(c, "hashes") /\ s[2] = R(c, FALSE) /\ s[3] = U(c, "rest") /\ Len(s) = 3
    BY <1>4 DEF Three
  <2>4. IsReply(got, c, "hashes")
    BY <2>1, <2>2, <2>3, ReplyIs DEF U
  <2>5. r \in Seq(Unit) /\ Len(r) = 2 /\ r[1] = s[1 + 1] /\ r[2] = s[2 + 1]
    <3>1. /\ r \in Seq(Unit) /\ Len(r) = Len(s) - 1
          /\ \A k \in 1 .. Len(s) - 1 : r[k] = s[k + 1]
      BY ONLY <1>1, <2>2
    <3> QED
      BY ONLY <2>3, <3>1
  <2>6. r[1] = s[2] /\ r[2] = s[3]
    BY <2>5
  <2>7. Two(r, R(c, FALSE), U(c, "rest"))
    BY <2>3, <2>5, <2>6 DEF Two
  <2>8. \A g : g.call = h.call /\ g.cmd = h.cmd /\ g.reads = left => Pending(g, r)
    BY <1>4, <2>1, <2>7 DEF Pending
  <2> QED
    BY <1>1, <2>1, <2>2, <2>4, <2>8 DEF r
<1>5. CASE h.reads = <<"result">> /\ h.cmd = "rea" /\ Two(s, R(c, FALSE), U(c, "rest"))
  <2>1. Head(h.reads) = "result" /\ SizeOf("result") = 2
    BY <1>5 DEF SizeOf
  <2>2. got \in Reads(s, 2) /\ Len(got) = 2
    BY <2>1
  <2>3. s[1] = R(c, FALSE) /\ s[2] = U(c, "rest") /\ Len(s) = 2
    BY <1>5 DEF Two
  <2>4. IsReply(got, c, "result")
    BY <2>1, <2>2, <2>3, ReplyIs DEF R, U
  <2>5. Len(r) = 0 /\ r \in Seq(Unit)
    <3>1. /\ r \in Seq(Unit) /\ Len(r) = Len(s) - 2
          /\ \A k \in 1 .. Len(s) - 2 : r[k] = s[k + 2]
      BY ONLY <1>2, <2>2
    <3> QED
      BY ONLY <2>3, <3>1
  <2>6. Head(got) = R(c, FALSE)
    BY <2>2, <2>3, TookTwo
  <2>7. left = <<>>
    BY <1>5, <2>1, <2>6 DEF NextReads, R
  <2> QED
    BY <1>2, <2>1, <2>2, <2>4, <2>5, <2>7, EmptyFacts DEF r
<1>6. CASE /\ h.reads = <<"result">> /\ h.cmd = "rea"
           /\ Four(s, R(c, TRUE), U(c, "rest"), U(c, "data1"), U(c, "data2"))
  <2>1. Head(h.reads) = "result" /\ SizeOf("result") = 2
    BY <1>6 DEF SizeOf
  <2>2. got \in Reads(s, 2) /\ Len(got) = 2
    BY <2>1
  <2>3. /\ s[1] = R(c, TRUE) /\ s[2] = U(c, "rest")
        /\ s[3] = U(c, "data1") /\ s[4] = U(c, "data2") /\ Len(s) = 4
    BY <1>6 DEF Four
  <2>4. IsReply(got, c, "result")
    <3>1. /\ s[1].call = c /\ s[1].part = "result"
          /\ s[2].call = c /\ s[2].part = "rest"
      BY <2>3 DEF R, U
    <3> QED
      BY <2>1, <2>2, <3>1, ReplyIs
  <2>5. r \in Seq(Unit) /\ Len(r) = 2 /\ r[1] = s[1 + 2] /\ r[2] = s[2 + 2]
    <3>1. /\ r \in Seq(Unit) /\ Len(r) = Len(s) - 2
          /\ \A k \in 1 .. Len(s) - 2 : r[k] = s[k + 2]
      BY ONLY <1>2, <2>2
    <3> QED
      BY ONLY <2>3, <3>1
  <2>6. r[1] = s[3] /\ r[2] = s[4]
    BY <2>5
  <2>7. Two(r, U(c, "data1"), U(c, "data2"))
    BY <2>3, <2>5, <2>6 DEF Two
  <2>8. Head(got) = R(c, TRUE)
    BY <2>2, <2>3, TookTwo
  <2>9. left = <<"chunk">>
    BY <1>6, <2>1, <2>8 DEF NextReads, R
  <2>10. \A g : g.call = h.call /\ g.cmd = h.cmd /\ g.reads = left => Pending(g, r)
    BY <1>6, <2>7, <2>9 DEF Pending
  <2> QED
    BY <1>2, <2>1, <2>2, <2>4, <2>9, <2>10 DEF r
<1>7. CASE h.reads = <<"chunk">> /\ h.cmd = "rea" /\ Two(s, U(c, "data1"), U(c, "data2"))
  <2>1. Head(h.reads) = "chunk" /\ SizeOf("chunk") = 2 /\ left = <<>>
    BY <1>7 DEF SizeOf, NextReads
  <2>2. got \in Reads(s, 2) /\ Len(got) = 2
    BY <2>1
  <2>3. s[1] = U(c, "data1") /\ s[2] = U(c, "data2") /\ Len(s) = 2
    BY <1>7 DEF Two
  <2>4. IsReply(got, c, "chunk")
    BY <2>1, <2>2, <2>3, ReplyIs DEF U
  <2>5. Len(r) = 0 /\ r \in Seq(Unit)
    <3>1. /\ r \in Seq(Unit) /\ Len(r) = Len(s) - 2
          /\ \A k \in 1 .. Len(s) - 2 : r[k] = s[k + 2]
      BY ONLY <1>2, <2>2
    <3> QED
      BY ONLY <2>3, <3>1
  <2> QED
    BY <1>2, <2>1, <2>2, <2>4, <2>5, EmptyFacts DEF r
<1>8. CASE h.reads = <<"entry">> /\ h.cmd = "rdr" /\ Listing(s, c)
  <2>1. Head(h.reads) = "entry" /\ SizeOf("entry") = 2
    BY <1>8 DEF SizeOf
  <2>2. got \in Reads(s, 2) /\ Len(got) = 2
    BY <2>1
  <2>3. PICK m \in Nat :
             /\ Len(s) = 2 * m + 2
             /\ \A i \in 0 .. m :
                   /\ s[2 * i + 1] = U(c, "name")
                   /\ s[2 * i + 2] = U(c, IF i = m THEN "end" ELSE "mark")
    BY <1>8 DEF Listing
  <2>4. s[1] = U(c, "name") /\ s[2] = U(c, IF m = 0 THEN "end" ELSE "mark")
    <3>1. 0 \in 0 .. m /\ 2 * 0 + 1 = 1 /\ 2 * 0 + 2 = 2
      OBVIOUS
    <3>2. /\ s[2 * 0 + 1] = U(c, "name")
          /\ s[2 * 0 + 2] = U(c, IF 0 = m THEN "end" ELSE "mark")
      BY <2>3, <3>1
    <3> QED
      BY <3>1, <3>2
  <2>5. IsReply(got, c, "entry")
    BY <2>1, <2>2, <2>4, ReplyIs DEF U
  <2>6. Last(got).part = IF m = 0 THEN "end" ELSE "mark"
    <3>1. Last(got) = s[2]
      BY <2>2, TookTwo
    <3> QED
      BY <2>4, <3>1 DEF U
  <2>7. /\ r \in Seq(Unit) /\ Len(r) = 2 * m
        /\ \A k \in 1 .. Len(s) - 2 : r[k] = s[k + 2]
    <3>1. /\ r \in Seq(Unit) /\ Len(r) = Len(s) - 2
          /\ \A k \in 1 .. Len(s) - 2 : r[k] = s[k + 2]
      BY ONLY <1>2, <2>2
    <3> QED
      BY ONLY <2>3, <3>1
  <2>8. CASE m = 0
    <3>1. left = <<>>
      BY <1>8, <2>1, <2>6, <2>8 DEF NextReads
    <3>2. Len(r) = 0
      BY <2>7, <2>8
    <3> QED
      BY <1>2, <2>1, <2>2, <2>5, <2>7, <3>1, <3>2, EmptyFacts DEF r
  <2>9. CASE m # 0
    <3>1. left = <<"entry">>
      BY <1>8, <2>1, <2>6, <2>9 DEF NextReads
    <3>2. m - 1 \in Nat /\ Len(r) = 2 * (m - 1) + 2
      BY <2>7, <2>9
    <3>3. ASSUME NEW i \in 0 .. m - 1
          PROVE  /\ r[2 * i + 1] = U(c, "name")
                 /\ r[2 * i + 2] = U(c, IF i = m - 1 THEN "end" ELSE "mark")
      <4>1. /\ 2 * i + 1 \in 1 .. Len(s) - 2 /\ 2 * i + 2 \in 1 .. Len(s) - 2
            /\ (2 * i + 1) + 2 = 2 * (i + 1) + 1 /\ (2 * i + 2) + 2 = 2 * (i + 1) + 2
            /\ i + 1 \in 0 .. m /\ (i + 1 = m <=> i = m - 1)
        BY <2>3, <2>9
      <4>2. r[2 * i + 1] = s[2 * (i + 1) + 1] /\ r[2 * i + 2] = s[2 * (i + 1) + 2]
        BY <2>7, <4>1
      <4> QED
        BY <2>3, <4>1, <4>2
    <3>4. Listing(r, c)
      BY <2>7, <3>2, <3>3 DEF Listing
    <3>5. \A g : g.call = h.call /\ g.cmd = h.cmd /\ g.reads = left => Pending(g, r)
      BY <1>8, <3>1, <3>4 DEF Pending
    <3> QED
      BY <1>2, <2>1, <2>2, <2>5, <3>1, <3>5 DEF r
  <2> QED
    BY <2>8, <2>9
<1> QED
  BY <1>3, <1>4, <1>5, <1>6, <1>7, <1>8 DEF Pending

LEMMA ReceiveStep ==
    ASSUME TypeInv, NEW w \in Worker, InStep(w), Receive(w), slips' = {}
    PROVE  /\ Phase(worker[w])'
           /\ IsReply(SubSeq(toClient, 1, Len(toClient) - Len(toClient')),
                      worker[w].call, Head(worker[w].reads))
<1> DEFINE h == worker[w]
           n == SizeOf(Head(h.reads))
<1>1. w \in Worker /\ h \in Handler /\ h.pc = "read" /\ h.call \in Call /\ h.reads # <<>>
      /\ toClient \in Seq(Unit) /\ n \in {1, 2}
  BY DEF Receive, TypeInv, TypeOK, Running, SizeOf
<1>2. PICK got \in Reads(toClient, n) :
           /\ toClient' = After(toClient, got)
           /\ \E left \in NextReads(h, got) : worker'[w] = Continue(h, left)
           /\ Note("shortReply", Len(got) < n)
           /\ UNCHANGED <<toServer, server, stored, calls>>
  BY <1>1 DEF Receive, TypeInv, TypeOK
<1>3. PICK left \in NextReads(h, got) : worker'[w] = Continue(h, left)
  BY <1>2
<1>4. toClient # <<>>
  BY <1>1, <1>2, Blocked
<1>5. Answered(h)
  BY <1>1, <1>4 DEF InStep, Phase, Resting, Asked, Answered, Sending, Sent, Idle
<1>6. Len(got) = n
  <2>1. ~(Len(got) < n)
    BY <1>2 DEF Note
  <2>2. Len(got) \in Nat /\ Len(got) <= n
    BY <1>1, <1>2, ReadsFacts
  <2> QED
    BY <1>1, <2>1, <2>2
<1>7. server' = Waiting /\ toServer' = <<>> /\ Pending(h, toClient)
  BY <1>2, <1>5 DEF Answered
<1> HIDE DEF h, n
<1>8. left \in Seq(Expected)
  BY <1>1, NextReadsType
<1>9. /\ left = <<>> => worker'[w] = Idle
      /\ left # <<>> => worker'[w]
                           = [call |-> h.call, cmd |-> h.cmd, pc |-> "read", reads |-> left]
  BY <1>1, <1>3, <1>8, ContinueType
<1>10. /\ IsReply(got, h.call, Head(h.reads))
       /\ got = SubSeq(toClient, 1, Len(toClient) - Len(toClient'))
       /\ \/ left = <<>> /\ toClient' = <<>>
          \/ /\ left # <<>>
             /\ \A g : g.call = h.call /\ g.cmd = h.cmd /\ g.reads = left
                          => Pending(g, toClient')
  BY <1>1, <1>2, <1>6, <1>7, PendingTake DEF n
<1>11. CASE left = <<>> /\ toClient' = <<>>
  <2>1. Resting(worker[w])'
    BY <1>7, <1>9, <1>11, QueueEmpty DEF Resting
  <2> QED
    BY <1>10, <2>1 DEF Phase, h
<1>12. CASE left # <<>> /\ Pending(worker'[w], toClient')
  <2>1. Answered(worker[w])'
    BY <1>7, <1>9, <1>12 DEF Answered
  <2> QED
    BY <1>10, <2>1 DEF Phase, h
<1> QED
  BY <1>9, <1>10, <1>11, <1>12

\* The server reads a command of r1_opendir, or the one that is waited for.
LEMMA ServeOne ==
    ASSUME TypeInv, ServeCommand, slips' = {}, toClient = <<>>,
           NEW tail \in Seq(Unit), Queue(toServer, tail)
    PROVE  \/ Queue(toServer', tail) /\ UNCHANGED <<server, toClient>>
           \/ /\ Len(tail) >= 2
              /\ toServer' \in Seq(Unit) /\ Len(toServer') = Len(tail) - 2
              /\ \A k \in 1 .. Len(tail) - 2 : toServer'[k] = tail[k + 2]
              /\ tail[1].part = "wrt" =>
                    server' = [pc |-> "data", call |-> tail[1].call] /\ UNCHANGED toClient
              /\ tail[1].part \in Command \ {"wrt"} =>
                    /\ server' = server /\ ~EndsEarly(toClient')
                    /\ toClient' \in Answers(tail[1].call, tail[1].part)
<1>1. PICK got \in Reads(toServer, Block) :
           /\ toServer' = After(toServer, got)
           /\ LET u == Head(got)
                  short == {s \in {"shortRequest"} : Len(got) < Block}
              IN
              CASE u.part = "wrt" ->
                      /\ server' = [pc |-> "data", call |-> u.call]
                      /\ slips' = slips \cup short
                      /\ UNCHANGED toClient
                [] u.part \in Command \ {"wrt"} ->
                      /\ \E a \in Answers(u.call, u.part) :
                            /\ toClient' = toClient \o a
                            /\ slips' = slips \cup short \cup
                                  {s \in {"staleEnd"} : EndsEarly(a)}
                      /\ UNCHANGED server
                [] OTHER ->
                      /\ slips' = slips \cup short
                      /\ UNCHANGED <<server, toClient>>
  BY DEF ServeCommand
<1> DEFINE u == Head(got)
<1>2. /\ u.part = "wrt" =>
            server' = [pc |-> "data", call |-> u.call] /\ toClient' = toClient
      /\ u.part \in Command \ {"wrt"} =>
            /\ server' = server
            /\ \E a \in Answers(u.call, u.part) : ~EndsEarly(a) /\ toClient' = toClient \o a
      /\ ~(Len(got) < Block)
  BY <1>1
<1>3. \/ u.part = "odr" /\ Queue(toServer', tail)
      \/ /\ Len(tail) >= 2 /\ u = tail[1]
         /\ toServer' \in Seq(Unit) /\ Len(toServer') = Len(tail) - 2
         /\ \A k \in 1 .. Len(tail) - 2 : toServer'[k] = tail[k + 2]
  <2>1. Len(got) = Block
    <3>1. toServer \in Seq(Unit) /\ Block \in 1 .. 2
      BY DEF TypeInv, TypeOK, Block
    <3>2. Len(got) \in Nat /\ Len(got) <= Block
      BY <1>1, <3>1, ReadsFacts
    <3> QED
      BY <1>2, <3>1, <3>2
  <2> QED
    BY <1>1, <2>1, QueueTake
<1>4. u.call \in Call
  <2>1. got \in Seq(Unit) /\ Len(got) >= 1
    <3>1. toServer \in Seq(Unit) /\ Block \in 1 .. 2
      BY DEF TypeInv, TypeOK, Block
    <3> QED
      BY <3>1, ReadsFacts
  <2>2. u \in Unit
    BY <2>1
  <2> QED
    BY <2>2 DEF Unit
<1> HIDE DEF u
<1>5. ASSUME u.part \in Command \ {"wrt"}
      PROVE  server' = server /\ ~EndsEarly(toClient') /\ toClient' \in Answers(u.call, u.part)
  <2>1. PICK a \in Answers(u.call, u.part) : ~EndsEarly(a) /\ toClient' = toClient \o a
    BY <1>2, <1>5
  <2>2. a \in Seq(Unit)
    BY <1>4, <1>5, AnswersFacts
  <2> QED
    BY <1>2, <1>5, <2>1, <2>2, EmptyFacts
<1>6. CASE u.part = "odr" /\ Queue(toServer', tail)
  <2>1. server' = server /\ toClient' \in Answers(u.call, "odr")
    BY <1>5, <1>6 DEF Command
  <2> QED
    BY <1>6, <2>1 DEF Answers
<1>7. CASE u = tail[1]
  BY <1>2, <1>3, <1>5, <1>6, <1>7
<1> QED
  BY <1>3, <1>6, <1>7

LEMMA ServeCommandStep ==
    ASSUME TypeInv, NEW w \in Worker, InStep(w), ServeCommand, slips' = {}
    PROVE  Phase(worker[w])'
<1> DEFINE h == worker[w]
           c == h.call
           p == Pair(c, h.cmd, "zeros")
           d == Pair(c, "data1", "data2")
<1>1. w \in Worker /\ h \in Handler /\ Running(h) /\ TypeInv /\ worker'[w] = h
      /\ server.pc = "command" /\ toServer \in Seq(Unit)
  BY DEF ServeCommand, TypeInv, TypeOK, Running
<1>2. toServer # <<>>
  BY <1>1, Blocked DEF ServeCommand, Block
<1>4. Resting(h) \/ Asked(h) \/ Sending(h) \/ Sent(h)
  BY <1>2 DEF InStep, Phase, Answered
<1>5. server = Waiting /\ toClient = <<>>
  BY <1>1, <1>4 DEF Resting, Asked, Sending, Sent, Receiving
<1>6. ASSUME h.pc # "idle"
      PROVE  /\ p \in Seq(Unit) /\ Len(p) = 2 /\ p[1].part = h.cmd /\ p[1].call = c
             /\ d \in Seq(Unit) /\ Len(d) = 2
             /\ p \o d \in Seq(Unit) /\ Len(p \o d) = 4 /\ (p \o d)[1] = p[1]
             /\ \A k \in 1 .. 2 : (p \o d)[k + 2] = d[k]
  <2>1. c \in Call /\ h.cmd \in Command
    BY <1>1, <1>6 DEF Running, Handler
  <2>2. U(c, h.cmd) \in Unit /\ U(c, "zeros") \in Unit /\ U(c, "data1") \in Unit
        /\ U(c, "data2") \in Unit
    BY <2>1, UnitFacts DEF Command
  <2>3. /\ p \in Seq(Unit) /\ Len(p) = 2 /\ p[1] = U(c, h.cmd)
        /\ d \in Seq(Unit) /\ Len(d) = 2
    BY <2>2, PairFacts
  <2>4. p[1].part = h.cmd /\ p[1].call = c
    BY <2>3 DEF U
  <2> HIDE DEF p, d
  <2>5. /\ p \o d \in Seq(Unit) /\ Len(p \o d) = Len(p) + Len(d)
        /\ \A k \in 1 .. Len(p) : (p \o d)[k] = p[k]
        /\ \A k \in 1 .. Len(d) : (p \o d)[Len(p) + k] = d[k]
    <3>1. p \in Seq(Unit) /\ d \in Seq(Unit)
      BY <2>3
    <3> QED
      BY <3>1, JoinFacts
  <2>6. \A k \in 1 .. 2 : (p \o d)[k + 2] = d[k]
    BY <2>3, <2>5
  <2> QED
    BY <2>3, <2>4, <2>5, <2>6
<1> HIDE DEF h, c, p, d
<1>7. CASE Resting(h)
  <2>1. Queue(toServer', <<>>) /\ UNCHANGED <<server, toClient>>
    <3>1. <<>> \in Seq(Unit) /\ ~(Len(<<>>) >= 2) /\ Queue(toServer, <<>>)
      BY <1>7 DEF Resting
    <3> QED
      BY <1>1, <1>5, <3>1, ServeOne
  <2>2. Resting(worker[w])'
    BY <1>1, <1>5, <1>7, <2>1 DEF Resting
  <2> QED
    BY <2>2 DEF Phase
<1>8. CASE Asked(h)
  <2>1. /\ h.pc = "read" /\ h.cmd \in {"ret", "opn", "rea", "rdr"} /\ Queue(toServer, p)
        /\ h.reads = FirstReads(h.cmd)
    BY <1>8 DEF Asked, p, c
  <2>2. CASE Queue(toServer', p) /\ UNCHANGED <<server, toClient>>
    <3>1. Asked(worker[w])'
      BY <1>1, <1>5, <2>1, <2>2 DEF Asked, p, c
    <3> QED
      BY <3>1 DEF Phase
  <2>3. CASE /\ toServer' \in Seq(Unit) /\ Len(toServer') = Len(p) - 2
             /\ server' = server /\ toClient' \in Answers(c, h.cmd)
             /\ ~EndsEarly(toClient')
    <3>1. toServer' = <<>>
      BY <1>6, <2>1, <2>3, EmptyFacts
    <3>2. c \in Call /\ h.cmd \in Command \ {"wrt"}
      BY <1>1, <2>1 DEF Running, Command, c
    <3>3. Pending(h, toClient')
      BY <2>1, <2>3, <3>2, AnswersFacts DEF Pending, FirstReads, c
    <3>4. Answered(worker[w])'
      BY <1>1, <1>5, <2>1, <2>3, <3>1, <3>3 DEF Answered
    <3> QED
      BY <3>4 DEF Phase
  <2>4. p[1].part \in Command \ {"wrt"} /\ p[1].call = c /\ p[1].part = h.cmd
    BY <1>6, <2>1 DEF Command
  <2>5. \/ Queue(toServer', p) /\ UNCHANGED <<server, toClient>>
        \/ /\ toServer' \in Seq(Unit) /\ Len(toServer') = Len(p) - 2
           /\ server' = server /\ toClient' \in Answers(p[1].call, p[1].part)
           /\ ~EndsEarly(toClient')
    BY <1>1, <1>5, <1>6, <2>1, <2>4, ServeOne
  <2> QED
    BY <2>2, <2>3, <2>4, <2>5
<1>9. CASE Sending(h)
  <2>1. h.pc = "data" /\ h.cmd = "wrt" /\ Queue(toServer, p)
    BY <1>5, <1>9 DEF Sending, Receiving, Waiting, p, c
  <2>2. p[1].part = "wrt" /\ p[1].call = c /\ Len(p) = 2 /\ p \in Seq(Unit)
    BY <1>6, <2>1
  <2>3. \/ Queue(toServer', p) /\ UNCHANGED <<server, toClient>>
        \/ /\ toServer' \in Seq(Unit) /\ Len(toServer') = Len(p) - 2
           /\ server' = [pc |-> "data", call |-> p[1].call] /\ UNCHANGED toClient
    BY <1>1, <1>5, <2>1, <2>2, ServeOne
  <2>4. \/ Queue(toServer', p) /\ UNCHANGED <<server, toClient>>
        \/ toServer' = <<>> /\ server' = [pc |-> "data", call |-> c] /\ UNCHANGED toClient
    BY <2>2, <2>3, EmptyFacts
  <2>5. Sending(worker[w])'
    BY <1>1, <1>5, <2>1, <2>4 DEF Sending, Receiving, p, c
  <2> QED
    BY <2>5 DEF Phase
<1>10. CASE Sent(h)
  <2>1. /\ h.pc = "read" /\ h.cmd = "wrt" /\ h.reads = <<"result">>
        /\ Queue(toServer, p \o d)
    BY <1>5, <1>10 DEF Sent, Receiving, Waiting, p, d, c
  <2>2. /\ (p \o d)[1].part = "wrt" /\ (p \o d)[1].call = c /\ Len(p \o d) = 4
        /\ p \o d \in Seq(Unit) /\ d \in Seq(Unit) /\ Len(d) = 2
        /\ \A k \in 1 .. 2 : (p \o d)[k + 2] = d[k]
    BY <1>6, <2>1
  <2>3. \/ Queue(toServer', p \o d) /\ UNCHANGED <<server, toClient>>
        \/ /\ toServer' \in Seq(Unit) /\ Len(toServer') = Len(p \o d) - 2
           /\ \A k \in 1 .. Len(p \o d) - 2 : toServer'[k] = (p \o d)[k + 2]
           /\ server' = [pc |-> "data", call |-> (p \o d)[1].call] /\ UNCHANGED toClient
    BY <1>1, <1>5, <2>1, <2>2, ServeOne
  <2>4. \/ Queue(toServer', p \o d) /\ UNCHANGED <<server, toClient>>
        \/ toServer' = d /\ server' = [pc |-> "data", call |-> c] /\ UNCHANGED toClient
    <3>1. ASSUME toServer' \in Seq(Unit), Len(toServer') = 2,
                 \A k \in 1 .. 2 : toServer'[k] = d[k]
          PROVE  toServer' = d
      BY <2>2, <3>1
    <3>2. Len(p \o d) - 2 = 2
      BY <2>2
    <3> QED
      BY <2>2, <2>3, <3>1, <3>2
  <2>5. Sent(worker[w])'
    BY <1>1, <1>5, <2>1, <2>4 DEF Sent, Receiving, p, d, c
  <2> QED
    BY <2>5 DEF Phase
<1> QED
  BY <1>4, <1>7, <1>8, <1>9, <1>10

LEMMA ServeDataStep ==
    ASSUME TypeInv, NEW w \in Worker, InStep(w), ServeData, slips' = {}
    PROVE  Phase(worker[w])'
<1> DEFINE h == worker[w]
           c == h.call
           d == Pair(c, "data1", "data2")
<1>1. h \in Handler /\ Running(h) /\ worker'[w] = h /\ server.pc = "data" /\ server' = Waiting
  BY DEF ServeData, TypeInv, TypeOK, Running
<1>2. toServer # <<>>
  BY <1>1, Blocked DEF ServeData, Block
<1>3. /\ h.pc = "read" /\ h.cmd = "wrt" /\ h.reads = <<"result">> /\ toClient = <<>>
      /\ Receiving(h) /\ toServer = d
  BY <1>1, <1>2 DEF InStep, Phase, Resting, Asked, Answered, Sending, Sent, Waiting
<1>4. PICK got \in Reads(toServer, 2) :
           /\ toServer' = After(toServer, got)
           /\ toClient' = toClient \o Result(c, FALSE)
           /\ Note("shortRequest", Len(got) < 2)
  BY <1>3 DEF ServeData, Receiving, Block
<1>5. c \in Call /\ d \in Seq(Unit) /\ Len(d) = 2
  <2>1. c \in Call
    BY <1>1, <1>3 DEF Running
  <2> QED
    BY <2>1, UnitFacts, PairFacts
<1> HIDE DEF h, c, d
<1>6. toServer' = <<>>
  <2>1. Len(got) = 2
    <3>1. ~(Len(got) < 2)
      BY <1>4 DEF Note
    <3>2. Len(got) \in Nat /\ Len(got) <= 2
      BY <1>3, <1>4, <1>5, ReadsFacts
    <3>3. \A m \in Nat : ~(m < 2) /\ m <= 2 => m = 2
      OBVIOUS
    <3> QED
      BY ONLY <3>1, <3>2, <3>3
  <2>2. After(d, got) \in Seq(Unit) /\ Len(After(d, got)) = Len(d) - 2
    BY <1>3, <1>4, <1>5, <2>1, TookTwo
  <2> QED
    BY <1>3, <1>4, <1>5, <2>2, EmptyFacts
<1>7. Two(toClient', R(c, FALSE), U(c, "rest"))
  <2>1. Two(Result(c, FALSE), R(c, FALSE), U(c, "rest"))
    BY <1>5, ResultIs
  <2>2. toClient' = Result(c, FALSE)
    BY <1>3, <1>4, <2>1, EmptyFacts DEF Two
  <2> QED
    BY <2>1, <2>2
<1>8. Answered(worker[w])'
  BY <1>1, <1>3, <1>6, <1>7 DEF Answered, Pending, c
<1> QED
  BY <1>8 DEF Phase

\* The handler that moves is the one that may run.
LEMMA StepMover ==
    ASSUME TypeInv, NEW v \in Worker, InStep(v), NEW w \in Worker, slips' = {},
           \/ \E cmd \in Command : SendCommand(w, cmd)
           \/ SendData(w) \/ Receive(w)
    PROVE  InStep(w)
<1>1. CASE worker[v].pc = "idle"
  BY <1>1, AllIdle
<1>2. CASE worker[v].pc # "idle"
  <2>1. w = v
    <3>1. ASSUME w # v PROVE worker[w].pc = "idle"
      BY <3>1 DEF InStep, Idle
    <3>2. ASSUME NEW cmd \in Command, SendCommand(w, cmd) PROVE FALSE
      <4>1. "overlap" \in {s \in {"overlap"} : \E u \in Worker : worker[u].pc # "idle"}
        BY <1>2
      <4> QED
        BY <3>2, <4>1 DEF SendCommand
    <3> QED
      BY <3>1, <3>2 DEF SendData, Receive
  <2> QED
    BY <2>1
<1> QED
  BY <1>1, <1>2

LEMMA StepInit == Init => Kept
<1> SUFFICES ASSUME Init PROVE Kept
  OBVIOUS
<1>1. PICK w : w \in Worker
  BY ChannelAssumption
<1>2. \A u \in Worker : worker[u] = Idle
  BY DEF Init
<1>3. server = Waiting /\ toServer = <<>> /\ toClient = <<>>
  BY DEF Init
<1>4. Resting(worker[w])
  BY <1>1, <1>2, <1>3, QueueEmpty DEF Resting
<1> QED
  BY <1>1, <1>2, <1>4, TypeInit DEF Kept, InStep, Phase

LEMMA StepNext == Kept /\ [Next]_vars => Kept'
<1> SUFFICES ASSUME Kept, [Next]_vars, slips' = {} PROVE \E w \in Worker : InStep(w)'
  BY TypeNext DEF Kept
<1>1. TypeInv
  BY DEF Kept
<1>2. PICK v \in Worker : InStep(v)
  BY <1>1, SlipsGrow DEF Kept
<1>3. CASE UNCHANGED vars
  <2>1. InStep(v)'
    BY <1>2, <1>3 DEF vars, InStep, Phase, Resting, Asked, Answered, Sending, Sent, Receiving
  <2> QED
    BY <2>1
<1>4. ASSUME NEW w \in Worker,
             \/ \E cmd \in Command : SendCommand(w, cmd)
             \/ SendData(w) \/ Receive(w)
      PROVE  InStep(w)'
  <2>1. InStep(w)
    BY <1>1, <1>2, <1>4, StepMover
  <2>2. Phase(worker[w])'
    BY <1>1, <1>4, <2>1, SendCommandStep, SendDataStep, ReceiveStep
  <2>3. \A u \in Worker \ {w} : worker'[u] = worker[u]
    BY <1>1, <1>4 DEF SendCommand, SendData, Receive, TypeInv, TypeOK
  <2> QED
    BY <2>1, <2>2, <2>3 DEF InStep
<1>5. CASE ServeCommand \/ ServeData
  <2>1. Phase(worker[v])'
    BY <1>1, <1>2, <1>5, ServeCommandStep, ServeDataStep
  <2>2. worker' = worker
    BY <1>5 DEF ServeCommand, ServeData
  <2>3. InStep(v)'
    BY <1>2, <2>1, <2>2 DEF InStep
  <2> QED
    BY <2>3
<1> QED
  BY <1>3, <1>4, <1>5 DEF Next, Handlers

\* Until the first slip client and server go through the exchange in step,
\* whichever threads the handlers run in and however many calls there are.
THEOREM StaysInStep == Spec => []Kept
BY StepInit, StepNext, PTL DEF Spec

\* When no handler runs, nothing of an answer is left, up to the first slip.
THEOREM LeavesNothing == Spec => []NothingLeft
<1>1. Kept => NothingLeft
  <2> SUFFICES ASSUME Kept, slips = {}, \A w \in Worker : worker[w] = Idle
               PROVE  toClient = <<>>
    BY DEF NothingLeft
  <2>1. PICK w \in Worker : InStep(w)
    BY DEF Kept
  <2> QED
    BY <2>1 DEF InStep, Phase, Resting, Asked, Answered, Sending, Sent, Idle
<1> QED
  BY <1>1, StaysInStep, PTL

\* A read() of a handler returns anything but the whole of the next part of the
\* answer to its own request only after a slip, or by one.
THEOREM Causes == Spec => MismatchHasCause
<1>1. Kept /\ [Next]_vars => [slips' = {} => ReadsOwnReply]_vars
  <2> SUFFICES ASSUME Kept, [Next]_vars, slips' = {}, NEW w \in Worker, Receive(w)
               PROVE  IsReply(SubSeq(toClient, 1, Len(toClient) - Len(toClient')),
                              worker[w].call, Head(worker[w].reads))
    BY DEF ReadsOwnReply
  <2>1. TypeInv /\ \E v \in Worker : InStep(v)
    BY SlipsGrow DEF Kept
  <2>2. InStep(w)
    BY <2>1, StepMover
  <2> QED
    BY <2>1, <2>2, ReceiveStep
<1> QED
  BY <1>1, StaysInStep, PTL DEF Spec, MismatchHasCause

-----------------------------------------------------------------------------
(***************************************************************************)
(* What the server stores, whatever the threads and their reads do, as     *)
(* long as no command was sent between a "wrt" and its chunk and the       *)
(* server's reads were whole.                                              *)
(***************************************************************************)
Even(s) == \E n \in Nat : Len(s) = 2 * n

\* The two units of s from i on are the chunk of call c.
ChunkOf(s, i, c) == s[i] = U(c, "data1") /\ s[i + 1] = U(c, "data2")

\* A thread is about to send the chunk of call c.
Sends(c) == \E w \in Worker : worker[w].pc = "data" /\ worker[w].call = c

\* The block that begins at 2 * k + 1, if a "wrt", is followed by its chunk or
\* is the last one sent.
Followed(k) ==
    2 * k + 1 <= Len(toServer) /\ toServer[2 * k + 1].part = "wrt" =>
        IF 2 * k + 2 = Len(toServer) THEN Sends(toServer[2 * k + 1].call)
        ELSE ChunkOf(toServer, 2 * k + 3, toServer[2 * k + 1].call)

\* So it is for all of the stream, and the chunk that the server waits for is
\* the next block to come.
Lined ==
    /\ Even(toServer)
    /\ \A k \in Nat : Followed(k)
    /\ server.pc = "data" =>
          IF toServer = <<>> THEN Sends(server.call)
          ELSE ChunkOf(toServer, 1, server.call)
    /\ \A u, w \in Worker : worker[u].pc = "data" /\ worker[w].pc = "data" => u = w
    /\ stored = Nothing \/ stored.data = Pair(stored.call, "data1", "data2")

Harmless == slips \cap {"split", "shortRequest"} = {}

KeptLined == TypeInv /\ (Harmless => Lined)

LEMMA BlockAppend ==
    ASSUME NEW s \in Seq(Unit), Even(s), NEW t \in Seq(Unit), Len(t) = 2
    PROVE  /\ Even(s \o t) /\ Len(s \o t) = Len(s) + 2 /\ Len(s) \in Nat
           /\ \A k \in Nat : 2 * k + 1 <= Len(s) =>
                 /\ 2 * k + 2 <= Len(s)
                 /\ (s \o t)[2 * k + 1] = s[2 * k + 1]
                 /\ (s \o t)[2 * k + 2] = s[2 * k + 2]
           /\ (s \o t)[Len(s) + 1] = t[1] /\ (s \o t)[Len(s) + 2] = t[2]
           /\ \A k \in Nat : 2 * k + 1 <= Len(s) + 2 =>
                 2 * k + 1 <= Len(s) \/ 2 * k + 1 = Len(s) + 1
<1> DEFINE r == s \o t
<1>1. /\ r \in Seq(Unit) /\ Len(r) = Len(s) + 2 /\ Len(s) \in Nat
      /\ \A k \in 1 .. Len(s) : r[k] = s[k]
      /\ \A k \in 1 .. 2 : r[Len(s) + k] = t[k]
  BY JoinFacts
<1>2. PICK n \in Nat : Len(s) = 2 * n
  BY DEF Even
<1> HIDE DEF r
<1>3. Even(r)
  <2>1. n + 1 \in Nat /\ Len(r) = 2 * (n + 1)
    BY <1>1, <1>2
  <2> QED
    BY <2>1 DEF Even
<1>4. ASSUME NEW k \in Nat, 2 * k + 1 <= Len(s)
      PROVE  2 * k + 2 <= Len(s) /\ r[2 * k + 1] = s[2 * k + 1] /\ r[2 * k + 2] = s[2 * k + 2]
  <2>1. 2 * k + 2 <= Len(s)
    BY <1>2, <1>4
  <2>2. 2 * k + 1 \in 1 .. Len(s) /\ 2 * k + 2 \in 1 .. Len(s)
    BY <1>1, <1>4, <2>1
  <2> QED
    BY <1>1, <2>1, <2>2
<1>5. ASSUME NEW k \in Nat, 2 * k + 1 <= Len(s) + 2
      PROVE  2 * k + 1 <= Len(s) \/ 2 * k + 1 = Len(s) + 1
  BY <1>2, <1>5
<1> QED
  BY <1>1, <1>3, <1>4, <1>5 DEF r

LEMMA BlockTake ==
    ASSUME NEW s \in Seq(Unit), Even(s), NEW got \in Reads(s, 2), ~(Len(got) < 2)
    PROVE  /\ s # <<>> /\ got = SubSeq(s, 1, 2) /\ got[1] = s[1] /\ got[2] = s[2]
           /\ Head(got) = s[1] /\ Len(got) = 2
           /\ Even(After(s, got)) /\ After(s, got) \in Seq(Unit)
           /\ Len(After(s, got)) = Len(s) - 2 /\ Len(s) \in Nat /\ Len(s) >= 2
           /\ \A k \in 1 .. Len(s) - 2 : After(s, got)[k] = s[k + 2]
<1> DEFINE r == After(s, got)
<1>1. Len(got) = 2
  <2>1. Len(got) \in Nat /\ Len(got) <= 2
    BY ReadsFacts
  <2>2. \A m \in Nat : ~(m < 2) /\ m <= 2 => m = 2
    OBVIOUS
  <2> QED
    BY ONLY ~(Len(got) < 2), <2>1, <2>2
<1>2. /\ Len(s) \in Nat /\ Len(s) >= 2 /\ got[1] = s[1] /\ got[2] = s[2]
      /\ got = SubSeq(s, 1, 2) /\ Head(got) = s[1]
      /\ r \in Seq(Unit) /\ Len(r) = Len(s) - 2
      /\ \A k \in 1 .. Len(s) - 2 : r[k] = s[k + 2]
  BY <1>1, TookTwo
<1> HIDE DEF r
<1>3. PICK n \in Nat : Len(s) = 2 * n
  BY DEF Even
<1>4. n - 1 \in Nat /\ Len(r) = 2 * (n - 1)
  BY <1>2, <1>3
<1>5. Even(r)
  BY <1>4 DEF Even
<1>6. s # <<>>
  BY <1>2
<1> QED
  BY <1>1, <1>2, <1>5, <1>6 DEF r

\* The stream's condition after a block has been taken.
LEMMA TakenLined ==
    ASSUME TypeInv, Lined, NEW got \in Reads(toServer, 2), ~(Len(got) < 2),
           toServer' = After(toServer, got), UNCHANGED worker, NEW k \in Nat
    PROVE  Followed(k)'
<1> DEFINE T == toServer
           r == toServer'
<1>1. T \in Seq(Unit) /\ Even(T)
  BY DEF TypeInv, TypeOK, Lined
<1>2. /\ r \in Seq(Unit) /\ Len(r) = Len(T) - 2 /\ Len(T) \in Nat /\ Len(T) >= 2 /\ Even(r)
      /\ \A i \in 1 .. Len(T) - 2 : r[i] = T[i + 2]
  BY <1>1, BlockTake
<1>3. \A i \in Nat :
          2 * i + 1 <= Len(T) /\ T[2 * i + 1].part = "wrt" =>
              IF 2 * i + 2 = Len(T) THEN Sends(T[2 * i + 1].call)
              ELSE ChunkOf(T, 2 * i + 3, T[2 * i + 1].call)
  BY DEF Lined, Followed
<1> HIDE DEF T, r
<1> SUFFICES ASSUME 2 * k + 1 <= Len(r), r[2 * k + 1].part = "wrt"
             PROVE  IF 2 * k + 2 = Len(r) THEN Sends(r[2 * k + 1].call)
                    ELSE ChunkOf(r, 2 * k + 3, r[2 * k + 1].call)
  BY DEF Followed, Sends, r
<1>4. 2 * k + 1 <= Len(r) /\ r[2 * k + 1].part = "wrt"
  OBVIOUS
<1>5. PICK n \in Nat : Len(r) = 2 * n
  BY <1>2 DEF Even
<1>50. Len(T) = 2 * n + 2 /\ Len(T) = Len(r) + 2
  <2>1. Len(r) = Len(T) - 2 /\ Len(T) \in Nat
    BY <1>2
  <2> QED
    BY ONLY <2>1, <1>5, n \in Nat
<1>6. 2 * k + 1 \in 1 .. Len(T) - 2 /\ (2 * k + 1) + 2 = 2 * (k + 1) + 1 /\ k + 1 \in Nat
  BY <1>2, <1>4
<1>7. r[2 * k + 1] = T[2 * (k + 1) + 1]
  BY <1>2, <1>6
<1>8. IF 2 * (k + 1) + 2 = Len(T) THEN Sends(r[2 * k + 1].call)
      ELSE ChunkOf(T, 2 * (k + 1) + 3, r[2 * k + 1].call)
  <2>1. 2 * (k + 1) + 1 <= Len(T) /\ T[2 * (k + 1) + 1].part = "wrt"
    BY <1>2, <1>4, <1>6, <1>7
  <2> QED
    BY <1>3, <1>6, <1>7, <2>1
<1>9. CASE 2 * k + 2 = Len(r)
  <2>1. 2 * (k + 1) + 2 = Len(T)
    BY <1>9, <1>50
  <2>2. Sends(r[2 * k + 1].call)
    BY <1>8, <2>1
  <2> QED
    BY <1>9, <2>2
<1>10. CASE 2 * k + 2 # Len(r)
  <2>1. /\ 2 * (k + 1) + 2 # Len(T)
        /\ 2 * k + 3 \in 1 .. Len(T) - 2 /\ (2 * k + 3) + 1 \in 1 .. Len(T) - 2
        /\ (2 * k + 3) + 2 = 2 * (k + 1) + 3
        /\ ((2 * k + 3) + 1) + 2 = (2 * (k + 1) + 3) + 1
    <3>1. k + 1 < n
      BY <1>4, <1>5, <1>10
    <3> QED
      BY <1>50, <3>1
  <2>2. /\ r[2 * k + 3] = T[2 * (k + 1) + 3]
        /\ r[(2 * k + 3) + 1] = T[(2 * (k + 1) + 3) + 1]
    BY <1>2, <2>1
  <2>3. ChunkOf(T, 2 * (k + 1) + 3, r[2 * k + 1].call)
    BY <1>8, <2>1
  <2>4. ChunkOf(r, 2 * k + 3, r[2 * k + 1].call)
    BY <2>2, <2>3 DEF ChunkOf
  <2> QED
    BY <1>10, <2>4
<1> QED
  BY <1>9, <1>10

LEMMA SendCommandLined ==
    ASSUME TypeInv, Lined, NEW w \in Worker, NEW cmd \in Command,
           SendCommand(w, cmd), Harmless'
    PROVE  Lined'
<1> DEFINE T == toServer
           t == Pair(calls', cmd, "zeros")
<1>1. \A u \in Worker : worker[u].pc # "data"
  <2>1. SUFFICES ASSUME NEW u \in Worker, worker[u].pc = "data" PROVE FALSE
    OBVIOUS
  <2>2. "split" \in {s \in {"split"} : \E v \in Worker : worker[v].pc = "data"}
    BY <2>1
  <2>3. "split" \in slips'
    BY <2>2 DEF SendCommand
  <2> QED
    BY <2>3 DEF Harmless
<1>2. T \in Seq(Unit) /\ Even(T)
  BY DEF TypeInv, TypeOK, Lined
<1>3. calls' \in Call
  BY ChannelAssumption DEF SendCommand, TypeInv, TypeOK, Call
<1>4. /\ t \in Seq(Unit) /\ Len(t) = 2 /\ t[1] = U(calls', cmd) /\ t[2] = U(calls', "zeros")
  <2>1. U(calls', cmd) \in Unit /\ U(calls', "zeros") \in Unit
    BY <1>3, UnitFacts DEF Command
  <2> QED
    BY <2>1, PairFacts
<1>5. /\ toServer' = T \o t /\ UNCHANGED <<server, stored>>
      /\ \A u \in Worker : u # w => worker'[u] = worker[u]
      /\ cmd = "wrt" => worker'[w].pc = "data" /\ worker'[w].call = calls'
  <2>1. toServer' = T \o t /\ UNCHANGED <<server, stored>>
    BY DEF SendCommand
  <2>2. \A u \in Worker : u # w => worker'[u] = worker[u]
    BY DEF SendCommand, TypeInv, TypeOK
  <2>3. ASSUME cmd = "wrt" PROVE worker'[w].pc = "data" /\ worker'[w].call = calls'
    <3>1. worker'[w] = [[Idle EXCEPT !.call = calls', !.cmd = cmd] EXCEPT !.pc = "data"]
      BY <2>3 DEF SendCommand, TypeInv, TypeOK
    <3> QED
      BY <3>1 DEF Idle
  <2> QED
    BY <2>1, <2>2, <2>3
<1> HIDE DEF t
<1>6. /\ Even(toServer') /\ Len(toServer') = Len(T) + 2 /\ Len(T) \in Nat
      /\ \A k \in Nat : 2 * k + 1 <= Len(T) =>
            /\ 2 * k + 2 <= Len(T)
            /\ toServer'[2 * k + 1] = T[2 * k + 1]
            /\ toServer'[2 * k + 2] = T[2 * k + 2]
      /\ toServer'[Len(T) + 1] = t[1] /\ toServer'[Len(T) + 2] = t[2]
      /\ \A k \in Nat : 2 * k + 1 <= Len(T) + 2 =>
            2 * k + 1 <= Len(T) \/ 2 * k + 1 = Len(T) + 1
  BY <1>2, <1>4, <1>5, BlockAppend
<1>7. ASSUME NEW k \in Nat PROVE Followed(k)'
  <2> DEFINE i == 2 * k + 1
  <2> SUFFICES ASSUME i <= Len(toServer'), toServer'[i].part = "wrt"
               PROVE  IF 2 * k + 2 = Len(toServer')
                      THEN \E u \in Worker : /\ worker'[u].pc = "data"
                                              /\ worker'[u].call = toServer'[i].call
                      ELSE ChunkOf(toServer', 2 * k + 3, toServer'[i].call)
    BY DEF Followed, Sends
  <2>1. CASE i <= Len(T)
    <3>1. 2 * k + 2 <= Len(T) /\ toServer'[i] = T[i]
      BY <1>6, <2>1
    <3>2. Followed(k)
      BY DEF Lined
    <3>3. 2 * k + 2 # Len(T) /\ ChunkOf(T, 2 * k + 3, T[i].call)
      BY <1>1, <2>1, <3>1, <3>2 DEF Followed, Sends
    <3>4. k + 1 \in Nat /\ 2 * (k + 1) + 1 <= Len(T) /\ 2 * (k + 1) + 1 = 2 * k + 3
          /\ 2 * (k + 1) + 2 = (2 * k + 3) + 1
      BY <1>6, <3>1, <3>3
    <3>5. toServer'[2 * k + 3] = T[2 * k + 3] /\ toServer'[(2 * k + 3) + 1] = T[(2 * k + 3) + 1]
      BY <1>6, <3>4
    <3>6. ChunkOf(toServer', 2 * k + 3, toServer'[i].call)
      BY <3>1, <3>3, <3>5 DEF ChunkOf
    <3>7. 2 * k + 2 # Len(toServer')
      BY <1>6, <3>1
    <3> QED
      BY <3>6, <3>7
  <2>2. CASE i = Len(T) + 1
    <3>1. toServer'[i] = U(calls', cmd) /\ 2 * k + 2 = Len(toServer')
      BY <1>4, <1>6, <2>2
    <3>2. cmd = "wrt" /\ toServer'[i].call = calls'
      BY <3>1 DEF U
    <3> QED
      BY <1>5, <3>1, <3>2
  <2>3. i <= Len(T) + 2
    BY <1>6
  <2> QED
    BY <1>6, <2>1, <2>2, <2>3
<1>8. server'.pc = "data" =>
         IF toServer' = <<>> THEN Sends(server.call)' ELSE ChunkOf(toServer', 1, server'.call)
  <2> SUFFICES ASSUME server.pc = "data" PROVE ChunkOf(toServer', 1, server'.call)
    BY <1>5, <1>6 DEF Sends
  <2>1. T # <<>> /\ ChunkOf(T, 1, server.call)
    BY <1>1 DEF Lined, Sends
  <2>2. 0 \in Nat /\ 2 * 0 + 1 = 1 /\ 2 * 0 + 2 = 1 + 1 /\ 1 <= Len(T)
    BY <1>2, <2>1, EmptyFacts
  <2>3. toServer'[1] = T[1] /\ toServer'[1 + 1] = T[1 + 1]
    BY <1>6, <2>2
  <2> QED
    BY <1>5, <2>1, <2>3 DEF ChunkOf
<1>9. \A u, v \in Worker : worker'[u].pc = "data" /\ worker'[v].pc = "data" => u = v
  BY <1>1, <1>5
<1>10. stored' = Nothing \/ stored'.data = Pair(stored'.call, "data1", "data2")
  BY <1>5 DEF Lined
<1> QED
  BY <1>6, <1>7, <1>8, <1>9, <1>10 DEF Lined, Sends

LEMMA SendDataLined ==
    ASSUME TypeInv, Lined, NEW w \in Worker, SendData(w)
    PROVE  Lined'
<1> DEFINE T == toServer
           c == worker[w].call
           t == Pair(c, "data1", "data2")
<1>1. worker[w].pc = "data" /\ c \in Call
  BY DEF SendData, TypeInv, Running
<1>2. T \in Seq(Unit) /\ Even(T)
  BY DEF TypeInv, TypeOK, Lined
<1>3. /\ t \in Seq(Unit) /\ Len(t) = 2 /\ t[1] = U(c, "data1") /\ t[2] = U(c, "data2")
  <2>1. U(c, "data1") \in Unit /\ U(c, "data2") \in Unit
    BY <1>1, UnitFacts
  <2> QED
    BY <2>1, PairFacts
<1>4. /\ toServer' = T \o t /\ UNCHANGED <<server, stored>>
      /\ \A u \in Worker : worker'[u].pc # "data"
  <2>1. toServer' = T \o t /\ UNCHANGED <<server, stored>>
    BY DEF SendData
  <2>2. \A u \in Worker : u # w => worker'[u] = worker[u]
    BY DEF SendData, TypeInv, TypeOK
  <2>3. worker'[w].pc = "read"
    <3>1. worker'[w] = Continue(worker[w], FirstReads("wrt"))
      BY DEF SendData, TypeInv, TypeOK
    <3>2. worker'[w] = [worker[w] EXCEPT !.pc = "read", !.reads = <<"result">>]
      BY <3>1 DEF Continue, FirstReads
    <3>3. worker[w] \in Handler
      BY DEF TypeInv, TypeOK, Handler
    <3> QED
      BY <3>2, <3>3 DEF Handler
  <2>4. \A u \in Worker : worker[u].pc = "data" => u = w
    BY <1>1 DEF Lined
  <2> QED
    BY <2>1, <2>2, <2>3, <2>4
<1>5. \A u \in Worker : worker[u].pc = "data" => worker[u].call = c
  BY <1>1 DEF Lined
<1> HIDE DEF t, c
<1>6. /\ Even(toServer') /\ Len(toServer') = Len(T) + 2 /\ Len(T) \in Nat
      /\ \A k \in Nat : 2 * k + 1 <= Len(T) =>
            /\ 2 * k + 2 <= Len(T)
            /\ toServer'[2 * k + 1] = T[2 * k + 1]
            /\ toServer'[2 * k + 2] = T[2 * k + 2]
      /\ toServer'[Len(T) + 1] = t[1] /\ toServer'[Len(T) + 2] = t[2]
      /\ \A k \in Nat : 2 * k + 1 <= Len(T) + 2 =>
            2 * k + 1 <= Len(T) \/ 2 * k + 1 = Len(T) + 1
  BY <1>2, <1>3, <1>4, BlockAppend
<1>7. ASSUME NEW k \in Nat PROVE Followed(k)'
  <2> DEFINE i == 2 * k + 1
  <2> SUFFICES ASSUME i <= Len(toServer'), toServer'[i].part = "wrt"
               PROVE  /\ 2 * k + 2 # Len(toServer')
                      /\ ChunkOf(toServer', 2 * k + 3, toServer'[i].call)
    BY DEF Followed, Sends
  <2>1. i <= Len(T)
    <3>1. CASE i = Len(T) + 1
      <4>1. toServer'[i] = U(c, "data1")
        BY <1>3, <1>6, <3>1
      <4> QED
        BY <4>1 DEF U
    <3>2. i <= Len(T) + 2
      BY <1>6
    <3> QED
      BY <1>6, <3>1, <3>2
  <2>2. 2 * k + 2 <= Len(T) /\ toServer'[i] = T[i] /\ Followed(k)
    BY <1>6, <2>1 DEF Lined
  <2>3. CASE 2 * k + 2 = Len(T)
    <3>1. Sends(T[i].call)
      BY <2>1, <2>2, <2>3 DEF Followed
    <3>2. T[i].call = c
      BY <1>5, <3>1 DEF Sends
    <3>3. 2 * k + 3 = Len(T) + 1 /\ (2 * k + 3) + 1 = Len(T) + 2 /\ 2 * k + 2 # Len(toServer')
      BY <1>6, <2>3
    <3>4. toServer'[2 * k + 3] = t[1] /\ toServer'[(2 * k + 3) + 1] = t[2]
      BY <1>6, <3>3
    <3> QED
      BY <1>3, <2>2, <3>2, <3>3, <3>4 DEF ChunkOf
  <2>4. CASE 2 * k + 2 # Len(T)
    <3>1. ChunkOf(T, 2 * k + 3, T[i].call)
      BY <2>1, <2>2, <2>4 DEF Followed
    <3>2. k + 1 \in Nat /\ 2 * (k + 1) + 1 <= Len(T) /\ 2 * (k + 1) + 1 = 2 * k + 3
          /\ 2 * (k + 1) + 2 = (2 * k + 3) + 1 /\ 2 * k + 2 # Len(toServer')
      BY <1>6, <2>2, <2>4
    <3>3. toServer'[2 * k + 3] = T[2 * k + 3] /\ toServer'[(2 * k + 3) + 1] = T[(2 * k + 3) + 1]
      <4>1. /\ toServer'[2 * (k + 1) + 1] = T[2 * (k + 1) + 1]
            /\ toServer'[2 * (k + 1) + 2] = T[2 * (k + 1) + 2]
        BY <1>6, <3>2
      <4> QED
        BY <3>2, <4>1
    <3> QED
      BY <2>2, <3>1, <3>2, <3>3 DEF ChunkOf
  <2> QED
    BY <2>3, <2>4
<1>8. server'.pc = "data" =>
         IF toServer' = <<>> THEN Sends(server.call)' ELSE ChunkOf(toServer', 1, server'.call)
  <2> SUFFICES ASSUME server.pc = "data" PROVE ChunkOf(toServer', 1, server'.call)
    <3>1. toServer' # <<>>
      BY <1>6
    <3> QED
      BY <1>4, <3>1
  <2>1. CASE T = <<>>
    <3>1. Sends(server.call) /\ Len(T) = 0
      BY <2>1, EmptyFacts DEF Lined
    <3>2. server.call = c
      BY <1>5, <3>1 DEF Sends
    <3>3. toServer'[1] = t[1] /\ toServer'[1 + 1] = t[2]
      BY <1>6, <3>1
    <3> QED
      BY <1>3, <1>4, <3>2, <3>3 DEF ChunkOf
  <2>2. CASE T # <<>>
    <3>1. ChunkOf(T, 1, server.call)
      BY <2>2 DEF Lined
    <3>2. 0 \in Nat /\ 2 * 0 + 1 = 1 /\ 2 * 0 + 2 = 1 + 1 /\ 1 <= Len(T)
      BY <1>2, <2>2, EmptyFacts
    <3>3. toServer'[1] = T[1] /\ toServer'[1 + 1] = T[1 + 1]
      BY <1>6, <3>2
    <3> QED
      BY <1>4, <3>1, <3>3 DEF ChunkOf
  <2> QED
    BY <2>1, <2>2
<1>9. stored' = Nothing \/ stored'.data = Pair(stored'.call, "data1", "data2")
  BY <1>4 DEF Lined
<1> QED
  BY <1>4, <1>6, <1>7, <1>8, <1>9 DEF Lined, Sends

LEMMA ReceiveLined ==
    ASSUME TypeInv, Lined, NEW w \in Worker, Receive(w)
    PROVE  Lined'
<1>1. UNCHANGED <<toServer, server, stored>>
  BY DEF Receive
<1>2. /\ \A u \in Worker : u # w => worker'[u] = worker[u]
      /\ worker[w].pc = "read" /\ worker'[w].pc # "data"
  <2>1. PICK left : worker' = [worker EXCEPT ![w] = Continue(@, left)]
    BY DEF Receive
  <2>2. worker[w] \in Handler /\ worker[w].pc = "read"
    BY DEF Receive, TypeInv, TypeOK, Handler
  <2>3. worker'[w] = Continue(worker[w], left)
    BY <2>1 DEF TypeInv, TypeOK
  <2>4. Continue(worker[w], left).pc # "data"
    BY <2>2 DEF Continue, Idle, Handler
  <2> QED
    BY <2>1, <2>2, <2>3, <2>4 DEF TypeInv, TypeOK
<1>3. \A c : Sends(c)' <=> Sends(c)
  BY <1>2 DEF Sends
<1>4. \A k \in Nat : Followed(k)'
  BY <1>1, <1>3 DEF Lined, Followed
<1>5. \A u, v \in Worker : worker'[u].pc = "data" /\ worker'[v].pc = "data" => u = v
  BY <1>2 DEF Lined
<1> QED
  BY <1>1, <1>3, <1>4, <1>5 DEF Lined

LEMMA ServeCommandLined ==
    ASSUME TypeInv, Lined, ServeCommand, Harmless'
    PROVE  Lined'
<1> DEFINE T == toServer
<1>1. PICK got \in Reads(T, 2) :
           /\ toServer' = After(T, got)
           /\ {s \in {"shortRequest"} : Len(got) < 2} \subseteq slips'
           /\ IF Head(got).part = "wrt"
              THEN server' = [pc |-> "data", call |-> Head(got).call]
              ELSE server' = server
  BY DEF ServeCommand, Block
<1>2. T \in Seq(Unit) /\ Even(T)
  BY DEF TypeInv, TypeOK, Lined
<1>3. ~(Len(got) < 2)
  <2>1. SUFFICES ASSUME Len(got) < 2 PROVE FALSE
    OBVIOUS
  <2>2. "shortRequest" \in slips'
    BY <1>1, <2>1
  <2> QED
    BY <2>2 DEF Harmless
<1>4. UNCHANGED <<worker, stored>> /\ server.pc = "command"
  BY DEF ServeCommand
<1>5. /\ Head(got) = T[1] /\ Even(toServer') /\ toServer' \in Seq(Unit)
      /\ Len(toServer') = Len(T) - 2 /\ Len(T) \in Nat /\ Len(T) >= 2
      /\ \A k \in 1 .. Len(T) - 2 : toServer'[k] = T[k + 2]
  BY <1>1, <1>2, <1>3, BlockTake
<1>6. \A k \in Nat : Followed(k)'
  BY <1>1, <1>3, <1>4, TakenLined
<1>7. ASSUME server'.pc = "data"
      PROVE  IF toServer' = <<>> THEN Sends(server.call)' ELSE ChunkOf(toServer', 1, server'.call)
  <2>1. T[1].part = "wrt" /\ server'.call = T[1].call
    BY <1>1, <1>4, <1>5, <1>7
  <2>2. 0 \in Nat /\ 2 * 0 + 1 = 1 /\ 2 * 0 + 2 = 2 /\ 2 * 0 + 3 = 3 /\ Followed(0)
    BY DEF Lined
  <2>3. IF 2 = Len(T) THEN Sends(T[1].call) ELSE ChunkOf(T, 3, T[1].call)
    BY <1>5, <2>1, <2>2 DEF Followed
  <2>4. CASE Len(T) = 2
    <3>1. toServer' = <<>>
      BY <1>5, <2>4, EmptyFacts
    <3> QED
      BY <1>4, <2>1, <2>3, <2>4, <3>1 DEF Sends
  <2>5. CASE Len(T) # 2
    <3>1. PICK n \in Nat : Len(T) = 2 * n
      BY <1>2 DEF Even
    <3>2. 1 \in 1 .. Len(T) - 2 /\ 2 \in 1 .. Len(T) - 2 /\ 1 + 2 = 3 /\ 2 + 2 = 4 /\ 3 + 1 = 4
      BY <1>5, <2>5, <3>1
    <3>3. toServer'[1] = T[3] /\ toServer'[2] = T[4]
      BY <1>5, <3>2
    <3>4. T[3] = U(T[1].call, "data1") /\ T[4] = U(T[1].call, "data2")
      BY <2>3, <2>5, <3>2 DEF ChunkOf
    <3>5. ChunkOf(toServer', 1, server'.call)
      BY <2>1, <3>3, <3>4 DEF ChunkOf
    <3>6. toServer' # <<>>
      BY <1>5, <2>5, <3>2, EmptyFacts
    <3> QED
      BY <3>5, <3>6
  <2> QED
    BY <2>4, <2>5
<1>8. \A u, v \in Worker : worker'[u].pc = "data" /\ worker'[v].pc = "data" => u = v
  BY <1>4 DEF Lined
<1>9. stored' = Nothing \/ stored'.data = Pair(stored'.call, "data1", "data2")
  BY <1>4 DEF Lined
<1> QED
  BY <1>5, <1>6, <1>7, <1>8, <1>9 DEF Lined

LEMMA ServeDataLined ==
    ASSUME TypeInv, Lined, ServeData, Harmless'
    PROVE  Lined'
<1> DEFINE T == toServer
           c == server.call
<1>1. PICK got \in Reads(T, 2) :
           /\ toServer' = After(T, got)
           /\ stored' = [call |-> c, data |-> got]
           /\ Note("shortRequest", Len(got) < 2)
  BY DEF ServeData, Block
<1>2. T \in Seq(Unit) /\ Even(T)
  BY DEF TypeInv, TypeOK, Lined
<1>3. ~(Len(got) < 2)
  BY <1>1 DEF Note, Harmless
<1>4. UNCHANGED worker /\ server.pc = "data" /\ server' = Waiting
  BY DEF ServeData
<1>5. /\ Even(toServer') /\ toServer' \in Seq(Unit) /\ T # <<>>
      /\ got[1] = T[1] /\ got[2] = T[2] /\ Len(got) = 2
  BY <1>1, <1>2, <1>3, BlockTake
<1>6. \A k \in Nat : Followed(k)'
  BY <1>1, <1>3, <1>4, TakenLined
<1>7. stored'.data = Pair(stored'.call, "data1", "data2")
  <2>1. T[1] = U(c, "data1") /\ T[2] = U(c, "data2")
    <3>1. ChunkOf(T, 1, c) /\ 1 + 1 = 2
      BY <1>4, <1>5 DEF Lined
    <3> QED
      BY <3>1 DEF ChunkOf
  <2>2. got \in Seq(Unit)
    BY <1>1, <1>2, ReadsFacts
  <2>3. got = <<U(c, "data1"), U(c, "data2")>>
    BY <1>5, <2>1, <2>2, TwoEqual
  <2> QED
    BY <1>1, <2>3 DEF Pair
<1>8. \A u, v \in Worker : worker'[u].pc = "data" /\ worker'[v].pc = "data" => u = v
  BY <1>4 DEF Lined
<1> QED
  BY <1>4, <1>5, <1>6, <1>7, <1>8 DEF Lined, Waiting

LEMMA LinedInit == Init => KeptLined
<1> SUFFICES ASSUME Init PROVE KeptLined
  OBVIOUS
<1>1. TypeInv
  BY TypeInit
<1>2. toServer = <<>> /\ Len(toServer) = 0 /\ 2 * 0 = 0 /\ 0 \in Nat
  BY EmptyFacts DEF Init
<1>3. Even(toServer)
  BY <1>2 DEF Even
<1>4. ASSUME NEW k \in Nat PROVE Followed(k)
  BY <1>2 DEF Followed
<1> QED
  BY <1>1, <1>3, <1>4 DEF Init, KeptLined, Lined, Waiting, Idle

LEMMA LinedNext == KeptLined /\ [Next]_vars => KeptLined'
<1> SUFFICES ASSUME KeptLined, [Next]_vars PROVE KeptLined'
  OBVIOUS
<1>1. TypeInv /\ TypeInv'
  BY TypeNext DEF KeptLined
<1>2. Harmless' => Harmless
  BY <1>1, SlipsGrow DEF Harmless
<1>3. ASSUME Lined, Harmless' PROVE Lined'
  <2>1. ASSUME NEW w \in Worker, NEW cmd \in Command, SendCommand(w, cmd) PROVE Lined'
    BY <1>1, <1>3, <2>1, SendCommandLined
  <2>2. ASSUME NEW w \in Worker, SendData(w) PROVE Lined'
    BY <1>1, <1>3, <2>2, SendDataLined
  <2>3. ASSUME NEW w \in Worker, Receive(w) PROVE Lined'
    BY <1>1, <1>3, <2>3, ReceiveLined
  <2>4. CASE ServeCommand
    BY <1>1, <1>3, <2>4, ServeCommandLined
  <2>5. CASE ServeData
    BY <1>1, <1>3, <2>5, ServeDataLined
  <2>6. CASE UNCHANGED vars
    BY <1>3, <2>6 DEF vars, Lined, Followed, Sends
  <2> QED
    BY <2>1, <2>2, <2>3, <2>4, <2>5, <2>6 DEF Next, Handlers
<1> QED
  BY <1>1, <1>2, <1>3 DEF KeptLined

\* What the server has stored is the chunk its handler sent, for any threads and
\* any reads of theirs, unless a command was sent between a "wrt" and its chunk
\* or the server's own read() was short.
THEOREM StoresWhatIsSent == Spec => []StoredIsSent
<1>1. KeptLined => StoredIsSent
  BY DEF KeptLined, Harmless, Lined, StoredIsSent
<1> QED
  BY <1>1, LinedInit, LinedNext, PTL DEF Spec
=============================================================================
