-------------------------- MODULE DescriptorsProofs --------------------------
(***************************************************************************)
(* Proofs of the properties of module Descriptors, for any number of       *)
(* servers, handles and descriptors: none of them is inductive by itself,  *)
(* their conjunction with what the numbers kept stand for is.              *)
(***************************************************************************)
EXTENDS Descriptors, WellFoundedInduction, TLAPS

\* The numbers that must never be closed
Reserved == {1, 4}

\* What FUSE's numbers and dr stand for
KeptNumbers ==
    /\ \A h \in Handle : fh[h] \notin Reserved
    /\ dr \notin Reserved

\* As long as directories are opened one at a time, dr is the one that is
\* open, or has been closed.
OneDirectory ==
    ~overlap =>
        /\ dirs <= 1
        /\ dirs # 0 => ~closed /\ (dr = NoFd \/ table[1][dr] = "dir")

\* Descriptor n of server s is one the process began with, or one that some
\* release will close.
Accounted(s, n) ==
    \/ table[s][n] = Fresh[n]
    \/ Fresh[n] = "free" /\ \E h \in Handle : fh[h] = n /\ table[s][n] = h
    \/ Fresh[n] = "free" /\ s = 1 /\ dirs # 0 /\ dr = n /\ table[s][n] = "dir"

AllAccounted ==
    ~leaky /\ ~uneven /\ ~overlap => \A s \in Server, n \in Fd : Accounted(s, n)

Inv ==
    /\ TypeOK
    /\ ConnectionStays
    /\ KeptNumbers
    /\ OneDirectory
    /\ OwnDescriptor
    /\ AllAccounted
    /\ CrashHasCause

-----------------------------------------------------------------------------
(***************************************************************************)
(* Descriptor tables.                                                      *)
(***************************************************************************)
\* The lowest free number exists whenever some number is free.
LEMMA LowestIsFree ==
    ASSUME NEW t, ~Full(t)
    PROVE  Lowest(t) \in Fd /\ t[Lowest(t)] = "free"
<1> DEFINE T == {n \in Fd : t[n] = "free"}
<1>1. T # {} /\ T \subseteq Nat /\ Fd \subseteq Nat
  BY DescriptorsAssumption DEF Full, Fd
<1>2. PICK n \in T : \A m \in T : ~(<<m, n>> \in OpToRel(<, Nat))
  <2> HIDE DEF T
  <2> QED
    BY <1>1, NatLessThanWellFounded, WFMin
<1>3. ASSUME NEW m \in T PROVE n <= m
  <2>1. n \in Nat /\ m \in Nat
    BY <1>1
  <2>2. <<m, n>> \notin OpToRel(<, Nat)
    BY <1>2
  <2> QED
    BY <2>1, <2>2 DEF OpToRel
<1> QED
  BY <1>2, <1>3 DEF Lowest

\* What an open does to a table.
LEMMA OpenedFacts ==
    ASSUME NEW t \in [Fd -> What], ~Full(t), NEW w \in What
    PROVE  /\ Opened(t, w) \in [Fd -> What]
           /\ Lowest(t) \in Fd /\ t[Lowest(t)] = "free"
           /\ \A n \in Fd : Opened(t, w)[n] = IF n = Lowest(t) THEN w ELSE t[n]
BY LowestIsFree DEF Opened

\* What a close does to a table.
LEMMA ClosedFacts ==
    ASSUME NEW t \in [Fd -> What], NEW k \in Fd
    PROVE  /\ Closed(t, k) \in [Fd -> What]
           /\ \A n \in Fd : Closed(t, k)[n] = IF n = k THEN "free" ELSE t[n]
BY DEF Closed, What

\* The faults are counted.
LEMMA FaultsType ==
    ASSUME faults \in 0 .. MaxFaults, NEW t, Fails(t)
    PROVE  faults' \in 0 .. MaxFaults
BY DescriptorsAssumption DEF Fails

\* The kinds of descriptor are told apart, and the table a process begins with.
LEMMA Kinds ==
    /\ \A h \in Handle : h \in What /\ h \notin {"free", "std", "conn", "dir", "lost"}
    /\ 1 \in Fd /\ 4 \in Fd /\ 1 \in Server
    /\ Fresh \in [Fd -> What] /\ Fresh[1] = "std" /\ Fresh[4] = "conn"
    /\ \A n \in Fd : Fresh[n] \in {"free", "std", "conn"}
BY DescriptorsAssumption DEF Fd, Fresh, What, Server

-----------------------------------------------------------------------------
\* Before the first call.
LEMMA InitInv == Init => Inv
<1> SUFFICES ASSUME Init PROVE Inv
  OBVIOUS
<1> USE DEF Init
<1>1. TypeOK
  <2>1. table \in [Server -> [Fd -> What]] /\ fh \in [Handle -> Fd \cup {NoFd}]
    BY Kinds
  <2>2. dirs \in 0 .. MaxDirs /\ faults \in 0 .. MaxFaults
    BY DescriptorsAssumption
  <2> QED
    BY <2>1, <2>2 DEF TypeOK
<1>2. NoFd \notin Reserved
  BY Kinds, DescriptorsAssumption DEF Reserved
<1>3. ConnectionStays /\ KeptNumbers /\ OneDirectory
  BY <1>2, Kinds DEF ConnectionStays, KeptNumbers, OneDirectory
<1>4. OwnDescriptor /\ AllAccounted /\ CrashHasCause
  BY DEF OwnDescriptor, AllAccounted, Accounted, CrashHasCause
<1> QED
  BY <1>1, <1>3, <1>4 DEF Inv

\* Every server opens the file.
LEMMA OpenInv ==
    ASSUME Inv, NEW h \in Handle, Open(h)
    PROVE  Inv'
<1> DEFINE low(s) == Lowest(table[s])
<1>1. \A s \in Server :
        /\ table'[s] \in [Fd -> What]
        /\ low(s) \in Fd /\ table[s][low(s)] = "free"
        /\ \A n \in Fd : table'[s][n] = IF n = low(s) THEN h ELSE table[s][n]
  BY OpenedFacts, Kinds DEF Inv, TypeOK, Open
<1>2. /\ fh' = [fh EXCEPT ![h] = low(1)]
      /\ fh[h] = NoFd
      /\ uneven' = (uneven \/ \E s \in Server : low(s) # low(1))
      /\ table' \in [Server -> [Fd -> What]]
      /\ UNCHANGED <<dr, closed, dirs, dead, faults, overlap, refused, leaky>>
  BY <1>1, Kinds DEF Open, KeptNumber
<1> HIDE DEF low
<1>3. TypeOK'
  BY <1>1, <1>2, Kinds DEF Inv, TypeOK
<1>4. \A s \in Server : low(s) \notin Reserved
  BY <1>1 DEF Inv, ConnectionStays, Reserved
<1>5. ConnectionStays' /\ KeptNumbers'
  BY <1>1, <1>2, <1>4, Kinds
  DEF Inv, TypeOK, ConnectionStays, KeptNumbers, Reserved
<1>6. OneDirectory'
  BY <1>1, <1>2, Kinds DEF Inv, TypeOK, OneDirectory
<1>7. OwnDescriptor'
  <2> SUFFICES ASSUME NEW g \in Handle, fh'[g] # NoFd, ~overlap
               PROVE  /\ table'[1][fh'[g]] = g
                      /\ ~uneven' => \A s \in Server : table'[s][fh'[g]] = g
    BY <1>2 DEF OwnDescriptor
  <2>1. CASE g = h
    <3>1. fh'[g] = low(1)
      BY <1>2, <2>1 DEF Inv, TypeOK
    <3>2. ~uneven' => \A s \in Server : low(s) = low(1)
      BY <1>2
    <3> QED
      BY <1>1, <2>1, <3>1, <3>2, Kinds
  <2>2. CASE g # h
    <3>1. fh'[g] = fh[g] /\ fh[g] \in Fd
      BY <1>2, <2>2 DEF Inv, TypeOK
    <3>2. table[1][fh[g]] = g /\ (~uneven => \A s \in Server : table[s][fh[g]] = g)
      BY <3>1 DEF Inv, OwnDescriptor
    <3>3. \A s \in Server : table[s][fh[g]] = g => table'[s][fh[g]] = g
      BY <1>1, <3>1, Kinds
    <3>4. ~uneven' => ~uneven
      BY <1>2
    <3> QED
      BY <3>1, <3>2, <3>3, <3>4, Kinds
  <2> QED
    BY <2>1, <2>2
<1>8. AllAccounted'
  <2> SUFFICES ASSUME ~leaky, ~uneven', ~overlap, NEW s \in Server, NEW n \in Fd
               PROVE  Accounted(s, n)'
    BY <1>2 DEF AllAccounted
  <2>1. Accounted(s, n) /\ Accounted(s, low(s)) /\ low(s) = low(1)
    BY <1>1, <1>2, Kinds DEF Inv, AllAccounted
  <2>2. CASE n = low(s)
    <3>1. Fresh[n] = "free"
      BY <1>1, <2>1, <2>2, Kinds DEF Accounted
    <3> QED
      BY <1>1, <1>2, <2>1, <2>2, <3>1 DEF Accounted, Inv, TypeOK
  <2>3. CASE n # low(s)
    <3>1. \A g \in Handle : fh[g] = n => fh'[g] = n
      BY <1>2, <2>3, DescriptorsAssumption DEF Inv, TypeOK
    <3> QED
      BY <1>1, <1>2, <2>1, <2>3, <3>1 DEF Accounted
  <2> QED
    BY <2>2, <2>3
<1>9. CrashHasCause'
  BY <1>2 DEF Open, Inv, CrashHasCause
<1> QED
  BY <1>3, <1>5, <1>6, <1>7, <1>8, <1>9 DEF Inv

\* A server fails, and the descriptors of those before it are lost.
LEMMA OpenFailsInv ==
    ASSUME Inv, NEW f \in Server, OpenFails(f)
    PROVE  Inv'
<1>1. \A s \in Server :
        /\ table'[s] \in [Fd -> What]
        /\ \A n \in Fd :
              \/ table'[s][n] = table[s][n]
              \/ table[s][n] = "free" /\ table'[s][n] = "lost"
  <2> TAKE s \in Server
  <2>1. CASE s > f
    <3>1. ~Full(table[s]) /\ "lost" \in What /\ table[s] \in [Fd -> What]
      BY <2>1, DescriptorsAssumption DEF OpenFails, Server, What, Inv, TypeOK
    <3>2. table'[s] = Opened(table[s], "lost")
      BY <2>1 DEF OpenFails
    <3> QED
      BY <3>1, <3>2, OpenedFacts
  <2>2. CASE ~(s > f)
    BY <2>2 DEF OpenFails, Inv, TypeOK
  <2> QED
    BY <2>1, <2>2
<1>2. /\ UNCHANGED <<fh, dr, closed, dirs, dead, uneven, overlap, refused>>
      /\ leaky' = TRUE
      /\ table' \in [Server -> [Fd -> What]]
      /\ faults' \in 0 .. MaxFaults
  <2>1. table' \in [Server -> [Fd -> What]]
    BY <1>1 DEF OpenFails
  <2>2. faults' \in 0 .. MaxFaults
    BY FaultsType DEF OpenFails, Inv, TypeOK
  <2> QED
    BY <2>1, <2>2 DEF OpenFails
<1>3. TypeOK'
  BY <1>2 DEF Inv, TypeOK
<1>4. ConnectionStays' /\ KeptNumbers'
  BY <1>1, <1>2, Kinds DEF Inv, ConnectionStays, KeptNumbers
<1>5. OneDirectory'
  BY <1>1, <1>2, Kinds DEF Inv, TypeOK, OneDirectory
<1>6. OwnDescriptor'
  <2>1. \A h \in Handle, s \in Server :
          fh[h] # NoFd /\ table[s][fh[h]] = h => table'[s][fh[h]] = h
    BY <1>1, Kinds DEF Inv, TypeOK
  <2> QED
    BY <1>2, <2>1, Kinds DEF Inv, OwnDescriptor
<1>7. AllAccounted' /\ CrashHasCause'
  BY <1>2 DEF AllAccounted, CrashHasCause, OpenFails
<1> QED
  BY <1>3, <1>4, <1>5, <1>6, <1>7 DEF Inv

\* Every server closes the number, and nobody knows the file's others.
LEMMA ReleaseInv ==
    ASSUME Inv, NEW h \in Handle, Release(h)
    PROVE  Inv'
<1>1. /\ fh[h] \in Fd /\ fh[h] \notin Reserved
      /\ fh' = [fh EXCEPT ![h] = NoFd]
      /\ UNCHANGED <<dr, closed, dirs, dead, faults, uneven, overlap, refused, leaky>>
  BY DEF Inv, TypeOK, KeptNumbers, Release
<1>2. \A s \in Server :
        /\ table'[s] \in [Fd -> What]
        /\ \A n \in Fd :
              table'[s][n] = IF n = fh[h] THEN "free"
                             ELSE IF table[s][n] = h THEN "lost" ELSE table[s][n]
  <2> TAKE s \in Server
  <2>1. /\ Closed(table[s], fh[h]) \in [Fd -> What]
        /\ \A n \in Fd : Closed(table[s], fh[h])[n] =
                            IF n = fh[h] THEN "free" ELSE table[s][n]
    BY <1>1, ClosedFacts DEF Inv, TypeOK
  <2>2. table'[s] = Forgotten(Closed(table[s], fh[h]), h) /\ "lost" \in What
    BY DEF Release, Released, What
  <2> QED
    BY <2>1, <2>2, Kinds DEF Forgotten
<1>3. table' \in [Server -> [Fd -> What]]
  BY <1>2 DEF Release
<1>4. TypeOK'
  BY <1>1, <1>3 DEF Inv, TypeOK
<1>5. ConnectionStays'
  <2>1. \A s \in Server : table'[s][4] = table[s][4] /\ table'[s][1] = table[s][1]
    BY <1>1, <1>2, Kinds DEF Inv, ConnectionStays, Reserved
  <2> QED
    BY <2>1 DEF Inv, ConnectionStays
<1>6. KeptNumbers'
  BY <1>1, Kinds, DescriptorsAssumption DEF Inv, TypeOK, KeptNumbers, Reserved
<1>7. ~overlap => table[1][fh[h]] = h /\ (~uneven => \A s \in Server : table[s][fh[h]] = h)
  BY <1>1, DescriptorsAssumption DEF Inv, OwnDescriptor
<1>8. OneDirectory'
  BY <1>1, <1>2, <1>7, Kinds DEF Inv, TypeOK, OneDirectory
<1>9. OwnDescriptor'
  <2> SUFFICES ASSUME NEW g \in Handle, fh'[g] # NoFd, ~overlap
               PROVE  /\ table'[1][fh'[g]] = g
                      /\ ~uneven => \A s \in Server : table'[s][fh'[g]] = g
    BY <1>1 DEF OwnDescriptor
  <2>1. g # h /\ fh'[g] = fh[g] /\ fh[g] \in Fd
    BY <1>1 DEF Inv, TypeOK
  <2>2. table[1][fh[g]] = g /\ (~uneven => \A s \in Server : table[s][fh[g]] = g)
    BY <2>1 DEF Inv, OwnDescriptor
  <2>3. fh[g] # fh[h]
    BY <1>7, <2>1, <2>2
  <2>4. \A s \in Server : table[s][fh[g]] = g => table'[s][fh[g]] = g
    BY <1>2, <2>1, <2>3
  <2> QED
    BY <2>1, <2>2, <2>4, Kinds
<1>10. AllAccounted'
  <2> SUFFICES ASSUME ~leaky, ~uneven, ~overlap, NEW s \in Server, NEW n \in Fd
               PROVE  Accounted(s, n)'
    BY <1>1 DEF AllAccounted
  <2>1. Accounted(s, n) /\ table[s][fh[h]] = h
    BY <1>7 DEF Inv, AllAccounted
  <2>2. CASE n = fh[h]
    <3>1. Fresh[n] = "free"
      BY <2>1, <2>2, Kinds DEF Accounted
    <3> QED
      BY <1>2, <2>2, <3>1 DEF Accounted
  <2>3. CASE n # fh[h]
    <3>1. table[s][n] # h
      BY <2>1, <2>3, Kinds DEF Accounted
    <3>2. table'[s][n] = table[s][n]
      BY <1>2, <2>3, <3>1
    <3>3. \A g \in Handle : fh[g] = n => fh'[g] = n
      BY <1>1, <2>3 DEF Inv, TypeOK
    <3> QED
      BY <1>1, <2>1, <3>2, <3>3 DEF Accounted
  <2> QED
    BY <2>2, <2>3
<1>11. CrashHasCause'
  BY <1>1 DEF Release, Inv, CrashHasCause
<1> QED
  BY <1>4, <1>5, <1>6, <1>8, <1>9, <1>10, <1>11 DEF Inv

-----------------------------------------------------------------------------
\* dr is the new directory's; the one before, if it was open, is lost.
LEMMA OpendirInv ==
    ASSUME Inv, Opendir
    PROVE  Inv'
<1> DEFINE t == WithoutDir
<1>1. /\ t \in [Fd -> What]
      /\ \A n \in Fd : t[n] = IF table[1][n] = "dir" THEN "lost" ELSE table[1][n]
  BY Kinds DEF Inv, TypeOK, What, WithoutDir
<1>2. /\ dirs' = dirs + 1 /\ dirs' \in 0 .. MaxDirs
      /\ overlap' = (overlap \/ dirs > 0)
      /\ closed' = FALSE
      /\ UNCHANGED <<fh, dead, uneven, refused, leaky>>
      /\ faults' \in 0 .. MaxFaults
      /\ \/ OnOne(t) /\ dr' = NoFd
         \/ ~Full(t) /\ OnOne(Opened(t, "dir")) /\ dr' = Lowest(t)
  <2>1. dirs \in 0 .. MaxDirs /\ dirs < MaxDirs /\ dirs' = dirs + 1
    BY DEF Opendir, Inv, TypeOK
  <2>2. faults' \in 0 .. MaxFaults
    BY FaultsType DEF Opendir, Inv, TypeOK
  <2> QED
    BY <2>1, <2>2, DescriptorsAssumption DEF Opendir
<1> HIDE DEF t
<1>3. \A s \in Server \ {1} : table'[s] = table[s]
  BY <1>2 DEF OnOne, Inv, TypeOK
<1>4. /\ table' \in [Server -> [Fd -> What]]
      /\ \/ dr' = NoFd /\ table'[1] = t
         \/ /\ dr' \in Fd /\ t[dr'] = "free"
            /\ \A n \in Fd : table'[1][n] = IF n = dr' THEN "dir" ELSE t[n]
  <2>1. CASE OnOne(t) /\ dr' = NoFd
    BY <1>1, <2>1, Kinds DEF OnOne, Inv, TypeOK
  <2>2. CASE ~Full(t) /\ OnOne(Opened(t, "dir")) /\ dr' = Lowest(t)
    <3>1. /\ Opened(t, "dir") \in [Fd -> What]
          /\ Lowest(t) \in Fd /\ t[Lowest(t)] = "free"
          /\ \A n \in Fd : Opened(t, "dir")[n] = IF n = Lowest(t) THEN "dir" ELSE t[n]
      BY <1>1, <2>2, OpenedFacts DEF What
    <3>2. table' = [table EXCEPT ![1] = Opened(t, "dir")] /\ dr' = Lowest(t)
      BY <2>2 DEF OnOne
    <3> QED
      BY <3>1, <3>2, Kinds DEF Inv, TypeOK
  <2> QED
    BY <1>2, <2>1, <2>2
<1>5. TypeOK'
  BY <1>2, <1>4 DEF Inv, TypeOK
<1>6. \A s \in Server, n \in Fd :
        table[s][n] \notin {"free", "dir"} => table'[s][n] = table[s][n]
  BY <1>1, <1>3, <1>4
<1>7. dr' \notin Reserved
  BY <1>1, <1>4, Kinds, DescriptorsAssumption DEF Inv, ConnectionStays, Reserved
<1>8. ConnectionStays' /\ KeptNumbers'
  BY <1>2, <1>6, <1>7, Kinds DEF Inv, ConnectionStays, KeptNumbers
<1>9. ~overlap' => ~overlap /\ dirs = 0
  <2>1. ~(dirs > 0) => dirs = 0
    BY DescriptorsAssumption DEF Inv, TypeOK
  <2>2. ~overlap' => ~overlap /\ ~(dirs > 0)
    BY <1>2, Zenon
  <2> QED
    BY <2>1, <2>2
<1>10. OneDirectory'
  BY <1>2, <1>4, <1>9 DEF OneDirectory
<1>11. OwnDescriptor'
  <2>1. \A h \in Handle, s \in Server :
          fh[h] # NoFd /\ table[s][fh[h]] = h => table'[s][fh[h]] = h
    BY <1>6, Kinds DEF Inv, TypeOK
  <2> QED
    BY <1>2, <1>9, <2>1, Kinds DEF Inv, OwnDescriptor
<1>12. AllAccounted'
  <2> SUFFICES ASSUME ~leaky, ~uneven, ~overlap', NEW s \in Server, NEW n \in Fd
               PROVE  Accounted(s, n)'
    BY <1>2 DEF AllAccounted
  <2>1. Accounted(s, n) /\ dirs = 0 /\ table[s][n] # "dir"
    BY <1>9, Kinds DEF Inv, AllAccounted, Accounted
  <2>2. dirs' # 0
    BY <1>2, <2>1
  <2>3. CASE s = 1 /\ n = dr' /\ table'[1][n] = "dir"
    <3>1. Fresh[n] = "free"
      BY <1>1, <1>4, <2>1, <2>3, Kinds, DescriptorsAssumption DEF Accounted
    <3> QED
      BY <2>2, <2>3, <3>1 DEF Accounted
  <2>4. CASE table'[s][n] = table[s][n]
    BY <1>2, <2>1, <2>4 DEF Accounted
  <2> QED
    BY <1>1, <1>3, <1>4, <2>1, <2>3, <2>4
<1>13. CrashHasCause'
  BY <1>2 DEF Opendir, Inv, CrashHasCause
<1> QED
  BY <1>5, <1>8, <1>10, <1>11, <1>12, <1>13 DEF Inv

\* The descriptor of the listing is lost, or there is none.
LEMMA ReaddirInv ==
    ASSUME Inv, Readdir
    PROVE  Inv'
<1>1. /\ UNCHANGED <<fh, dr, closed, dirs, uneven, overlap>>
      /\ leaky' = TRUE
      /\ faults' \in 0 .. MaxFaults
  BY FaultsType DEF Readdir, Inv, TypeOK
<1>2. CASE /\ dead' = TRUE /\ UNCHANGED table
           /\ refused' = (refused \/ ~Full(table[1]))
  <2>1. CrashHasCause' /\ refused' \in BOOLEAN
    BY <1>2 DEF CrashHasCause, Full
  <2> QED
    BY <1>1, <1>2, <2>1
    DEF Inv, TypeOK, ConnectionStays, KeptNumbers, OneDirectory, OwnDescriptor,
        AllAccounted
<1>3. CASE /\ ~Full(table[1])
           /\ OnOne(Opened(table[1], "lost"))
           /\ UNCHANGED <<dead, faults, refused>>
  <2>1. /\ table' = [table EXCEPT ![1] = Opened(table[1], "lost")]
        /\ UNCHANGED <<dead, faults, refused>>
    BY <1>3 DEF OnOne
  <2>2. /\ Opened(table[1], "lost") \in [Fd -> What]
        /\ \A n \in Fd : \/ Opened(table[1], "lost")[n] = table[1][n]
                         \/ table[1][n] = "free"
    <3>1. table[1] \in [Fd -> What] /\ "lost" \in What
      BY Kinds DEF Inv, TypeOK, What
    <3> QED
      BY <1>3, <3>1, OpenedFacts
  <2>3. /\ table' \in [Server -> [Fd -> What]]
        /\ \A s \in Server, n \in Fd :
              table[s][n] # "free" => table'[s][n] = table[s][n]
    BY <2>1, <2>2, Kinds DEF Inv, TypeOK
  <2>4. TypeOK'
    BY <1>1, <2>1, <2>3 DEF Inv, TypeOK
  <2>5. ConnectionStays' /\ KeptNumbers'
    BY <1>1, <2>3, Kinds DEF Inv, ConnectionStays, KeptNumbers
  <2>6. OneDirectory'
    BY <1>1, <2>3, Kinds DEF Inv, TypeOK, OneDirectory
  <2>7. OwnDescriptor'
    <3>1. \A h \in Handle, s \in Server :
            fh[h] # NoFd /\ table[s][fh[h]] = h => table'[s][fh[h]] = h
      BY <2>3, Kinds DEF Inv, TypeOK
    <3> QED
      BY <1>1, <3>1, Kinds DEF Inv, OwnDescriptor
  <2>8. AllAccounted' /\ CrashHasCause'
    BY <1>1, <2>1 DEF AllAccounted, CrashHasCause, Readdir
  <2> QED
    BY <2>4, <2>5, <2>6, <2>7, <2>8 DEF Inv
<1> QED
  BY <1>2, <1>3 DEF Readdir

\* dr is closed, for the first time as long as directories do not overlap.
LEMMA ReleasedirInv ==
    ASSUME Inv, Releasedir
    PROVE  Inv'
<1>1. /\ UNCHANGED <<fh, dr, faults, uneven, overlap, refused, leaky>>
      /\ dirs' = dirs - 1 /\ dirs > 0 /\ dirs' \in 0 .. MaxDirs
      /\ ~dead
  BY DescriptorsAssumption DEF Releasedir, Inv, TypeOK
<1>2. ~overlap => dirs = 1 /\ dirs' = 0 /\ ~closed /\ (dr = NoFd \/ table[1][dr] = "dir")
  BY <1>1 DEF Inv, TypeOK, OneDirectory
<1>3. CASE closed /\ dead' = TRUE /\ UNCHANGED <<table, closed>>
  <2>1. overlap
    BY <1>2, <1>3
  <2> QED
    BY <1>1, <1>3, <2>1
    DEF Inv, TypeOK, ConnectionStays, KeptNumbers, OneDirectory, OwnDescriptor,
        AllAccounted, CrashHasCause
<1>4. CASE dr = NoFd /\ UNCHANGED <<table, closed, dead>>
  <2>1. AllAccounted'
    <3> SUFFICES ASSUME ~leaky, ~uneven, ~overlap, NEW s \in Server, NEW n \in Fd
                 PROVE  Accounted(s, n)'
      BY <1>1 DEF AllAccounted
    <3>1. Accounted(s, n) /\ dr # n
      BY <1>4, DescriptorsAssumption DEF Inv, AllAccounted
    <3> QED
      BY <1>1, <1>4, <3>1 DEF Accounted
  <2> QED
    BY <1>1, <1>2, <1>4, <2>1
    DEF Inv, TypeOK, ConnectionStays, KeptNumbers, OneDirectory, OwnDescriptor,
        CrashHasCause
<1>5. CASE dr # NoFd /\ OnOne(Closed(table[1], dr)) /\ closed' = TRUE /\ UNCHANGED dead
  <2>1. dr \in Fd /\ dr \notin Reserved /\ table[1] \in [Fd -> What]
    BY <1>5, Kinds DEF Inv, TypeOK, KeptNumbers
  <2>2. /\ table' \in [Server -> [Fd -> What]]
        /\ table'[1][dr] = "free"
        /\ \A s \in Server, n \in Fd :
              s # 1 \/ n # dr => table'[s][n] = table[s][n]
    BY <1>5, <2>1, ClosedFacts, Kinds DEF OnOne, Inv, TypeOK
  <2>3. TypeOK'
    BY <1>1, <1>5, <2>2 DEF Inv, TypeOK
  <2>4. ConnectionStays' /\ KeptNumbers'
    BY <1>1, <2>1, <2>2, Kinds DEF Inv, ConnectionStays, KeptNumbers, Reserved
  <2>5. OneDirectory'
    BY <1>1, <1>2 DEF OneDirectory
  <2>6. OwnDescriptor'
    <3> SUFFICES ASSUME NEW h \in Handle, fh[h] # NoFd, ~overlap
                 PROVE  /\ table'[1][fh[h]] = h
                        /\ ~uneven => \A s \in Server : table'[s][fh[h]] = h
      BY <1>1 DEF OwnDescriptor
    <3>1. /\ fh[h] \in Fd /\ table[1][fh[h]] = h
          /\ ~uneven => \A s \in Server : table[s][fh[h]] = h
      BY DEF Inv, TypeOK, OwnDescriptor
    <3>2. fh[h] # dr
      BY <1>2, <1>5, <3>1, Kinds
    <3> QED
      BY <2>2, <3>1, <3>2, Kinds
  <2>7. AllAccounted'
    <3> SUFFICES ASSUME ~leaky, ~uneven, ~overlap, NEW s \in Server, NEW n \in Fd
                 PROVE  Accounted(s, n)'
      BY <1>1 DEF AllAccounted
    <3>1. Accounted(s, n) /\ (s = 1 /\ n = dr => table[s][n] = "dir")
      BY <1>2, <1>5 DEF Inv, AllAccounted
    <3>2. CASE s = 1 /\ n = dr
      BY <2>2, <3>1, <3>2, Kinds DEF Accounted
    <3>3. CASE ~(s = 1 /\ n = dr)
      BY <1>1, <2>2, <3>1, <3>3 DEF Accounted
    <3> QED
      BY <3>2, <3>3
  <2>8. CrashHasCause'
    BY <1>1, <1>5 DEF CrashHasCause
  <2> QED
    BY <2>3, <2>4, <2>5, <2>6, <2>7, <2>8 DEF Inv
<1> QED
  BY <1>3, <1>4, <1>5 DEF Releasedir, Fatal

-----------------------------------------------------------------------------
\* Every step.
LEMMA NextInv == Inv /\ [Next]_vars => Inv'
<1> SUFFICES ASSUME Inv, [Next]_vars PROVE Inv'
  OBVIOUS
<1>1. CASE UNCHANGED vars
  BY <1>1 DEF vars, Inv, TypeOK, ConnectionStays, KeptNumbers, OneDirectory,
              OwnDescriptor, AllAccounted, Accounted, CrashHasCause, Full
<1>2. CASE Next
  BY <1>2, OpenInv, ReleaseInv, OpenFailsInv, OpendirInv, ReaddirInv, ReleasedirInv
  DEF Next
<1> QED
  BY <1>1, <1>2

\* Inv is an invariant of the servers' processes.
THEOREM Invariance == Spec => []Inv
BY InitInv, NextInv, PTL DEF Spec

\* Type correctness.
THEOREM TypeCorrect == Spec => []TypeOK
<1>1. Inv => TypeOK
  BY DEF Inv
<1> QED
  BY <1>1, Invariance, PTL

\* No number that rel or rld closes is ever the connection's (fi->fh and dr,
\* net_raid_server.c, are closed without a look at what they are).
THEOREM ConnectionKept == Spec => []ConnectionStays
<1>1. Inv => ConnectionStays
  BY DEF Inv
<1> QED
  BY <1>1, Invariance, PTL

\* The number a handle keeps is its file's, under the two conditions.
THEOREM HandleOwnsNumber == Spec => []OwnDescriptor
<1>1. Inv => OwnDescriptor
  BY DEF Inv
<1> QED
  BY <1>1, Invariance, PTL

\* With everything released the tables are as the processes began.
LEMMA AccountedIsFresh == Inv => NothingLeft
<1> SUFFICES ASSUME Inv, \A h \in Handle : fh[h] = NoFd, dirs = 0,
                    ~leaky, ~uneven, ~overlap
             PROVE  table = [s \in Server |-> Fresh]
  BY DEF NothingLeft
<1>1. \A s \in Server, n \in Fd : table[s][n] = Fresh[n]
  BY DescriptorsAssumption DEF Inv, AllAccounted, Accounted
<1>2. table \in [Server -> [Fd -> What]]
  BY DEF Inv, TypeOK
<1>3. \A s \in Server : table[s] = Fresh
  BY <1>1, <1>2, Kinds
<1> QED
  BY <1>2, <1>3

\* A mount that lists nothing, fails nothing and opens directories one at a
\* time leaves no descriptor behind.
THEOREM NoLeak == Spec => []NothingLeft
BY AccountedIsFresh, Invariance, PTL

\* Server 1's process ends only by the release of a directory after two were
\* open at a time, or by a listing that could not open its directory.
THEOREM CrashCauses == Spec => []CrashHasCause
<1>1. Inv => CrashHasCause
  BY DEF Inv
<1> QED
  BY <1>1, Invariance, PTL
=============================================================================
