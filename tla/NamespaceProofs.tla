--------------------------- MODULE NamespaceProofs ---------------------------
(***************************************************************************)
(* Proofs of the properties of module Namespace, for any number of servers,*)
(* names, files and faults. The calls work on trees that are the same only *)
(* outside the tainted paths; the invariant says what a server that has    *)
(* answered makes of what server 1 had when the call began.                *)
(***************************************************************************)
EXTENDS Namespace, SequenceTheorems, TLAPS

\* The entries above an entry are directories.
WellFormed(t) ==
    \A p, q \in Path : Under(p, q) /\ p # q /\ t[q] # NoEntry =>
        t[p] # NoEntry /\ t[p].node = Dir

\* What a call makes of server 1's tree as it was when the call began
Removed(t, p) == [r \in Path |-> IF Under(p, r) THEN NoEntry ELSE t[r]]

Result ==
    CASE op.kind = "create" ->
             Put(shown, op.path, [node |-> op.file, mode |-> Idle.mode])
      [] op.kind \in {"unlink", "rmdir"} -> Removed(shown, op.path)
      [] op.kind = "mkdir" ->
             Put(Removed(shown, op.path), op.path, [node |-> Dir, mode |-> op.mode])
      [] op.kind = "chmod" -> [shown EXCEPT ![op.path].mode = op.mode]
      [] op.kind = "rename" -> Renamed(shown, op.path, op.to)
      [] OTHER -> shown

\* Where the servers may differ after the call
Unsure == (tainted \ Healed(op)) \cup Carried(op)

\* Servers that have answered
Past(s) == IF Descending(op.kind) THEN s > op.serv ELSE s < op.serv

\* What the kernel found out before it made the call
Called ==
    /\ op.path \in Path
    /\ op.kind = "create" => shown[op.path] = NoEntry /\ op.file \in File
    /\ op.kind = "open" => \A s \in Server : Past(s) => IsFile(tree[s], op.path)
    /\ op.kind = "chmod" => shown[op.path] # NoEntry
    /\ op.kind = "rename" <=> op.to # NoPath
    /\ op.kind = "rename" => ~Under(op.path, op.to) /\ ~Under(op.to, op.path)

Answered ==
    \A s \in Server :
        IF Past(s) THEN \A r \in Path \ Unsure : tree[s][r] = Result[r]
                   ELSE \A r \in Path \ tainted : tree[s][r] = shown[r]

InRequest == op.pc = "request" =>
    /\ Called
    /\ Answered
    /\ ~Past(1) => tree[1] = shown

\* The trees, and the call in progress
TreeInv ==
    /\ tree \in [Server -> Tree]
    /\ op \in Op
    /\ faults \in 0 .. MaxFaults
    /\ shown \in Tree
    /\ tainted \subseteq Path
    /\ \A s \in Server : WellFormed(tree[s])
    /\ InRequest
    /\ Agreement
    /\ FailedFileCallInvisible

\* What a handler may do to the cache: nothing, or what deletePath does
Kept == UNCHANGED cache /\ excused' \in BOOLEAN /\ (excused => excused')
Forgotten ==
    \/ cache' = EmptyCache /\ excused' = FALSE
    \/ cache' \in Cached /\ cache'.path \in Path /\ excused' = TRUE

\* The cache
CacheInv ==
    /\ cache \in Cached
    /\ excused \in BOOLEAN
    /\ cache # EmptyCache =>
          /\ cache.path \in Path
          /\ ~excused => /\ IsFile(tree[1], cache.path)
                         /\ cache.path \notin tainted => cache.files = {tree[1][cache.path].node}

Inv == TreeInv /\ CacheInv

-----------------------------------------------------------------------------
(***************************************************************************)
(* Paths.                                                                  *)
(***************************************************************************)
\* A path and what is known of it without looking at Path again.
LEMMA PathFacts ==
    ASSUME NEW p \in Path
    PROVE  /\ p \in Seq(Name) /\ Len(p) \in Nat /\ Len(p) >= 1
           /\ \A n \in 1 .. Len(p) : SubSeq(p, 1, n) \in Path
<1>1. p \in Seq(Name) /\ p # <<>> /\ \A n \in 1 .. Len(p) : SubSeq(p, 1, n) \in Path
  BY NamespaceAssumption DEF Root
<1> QED
  BY <1>1

\* A sequence is above another if it is its beginning.
LEMMA UnderIndex ==
    ASSUME NEW p \in Seq(Name), NEW q \in Seq(Name)
    PROVE  Under(p, q) <=> Len(q) >= Len(p) /\ \A i \in 1 .. Len(p) : q[i] = p[i]
<1>1. CASE Len(q) >= Len(p)
  <2>1. /\ SubSeq(q, 1, Len(p)) \in Seq(Name) /\ Len(SubSeq(q, 1, Len(p))) = Len(p)
        /\ \A i \in 1 .. Len(p) : SubSeq(q, 1, Len(p))[i] = q[i]
    BY <1>1
  <2>2. SubSeq(q, 1, Len(p)) = p <=> \A i \in 1 .. Len(p) : q[i] = p[i]
    BY <2>1
  <2> QED
    BY <1>1, <2>2 DEF Under
<1> QED
  BY <1>1 DEF Under

\* Under is an order, and the paths above one path are a chain.
LEMMA UnderOrder ==
    ASSUME NEW p \in Seq(Name), NEW q \in Seq(Name), NEW r \in Seq(Name)
    PROVE  /\ Under(p, p)
           /\ Under(p, q) /\ Under(q, r) => Under(p, r)
           /\ Under(p, q) /\ Under(q, p) => p = q
           /\ Under(p, r) /\ Under(q, r) => Under(p, q) \/ Under(q, p)
<1>1. Under(p, p)
  BY UnderIndex
<1>2. Under(p, q) /\ Under(q, r) => Under(p, r)
  BY UnderIndex
<1>3. Under(p, q) /\ Under(q, p) => p = q
  <2> SUFFICES ASSUME Under(p, q), Under(q, p) PROVE p = q
    OBVIOUS
  <2>1. Len(p) = Len(q) /\ \A i \in 1 .. Len(p) : q[i] = p[i]
    BY UnderIndex
  <2> QED
    BY <2>1
<1>4. Under(p, r) /\ Under(q, r) => Under(p, q) \/ Under(q, p)
  BY UnderIndex
<1> QED
  BY <1>1, <1>2, <1>3, <1>4

\* What is above a path, and is not the path, is above its parent.
LEMMA AboveParent ==
    ASSUME NEW a \in Path, NEW p \in Path, Under(a, p), a # p
    PROVE  Parent(p) \in Path /\ Parent(p) # Root /\ Under(a, Parent(p))
<1>1. /\ a \in Seq(Name) /\ p \in Seq(Name) /\ Len(a) >= 1
      /\ \A n \in 1 .. Len(p) : SubSeq(p, 1, n) \in Path
  BY PathFacts
<1>2. Len(p) >= Len(a) /\ \A i \in 1 .. Len(a) : p[i] = a[i]
  BY <1>1, UnderIndex
<1>3. Len(p) # Len(a)
  BY <1>1, <1>2
<1>4. Len(p) - 1 \in 1 .. Len(p) /\ Len(p) - 1 >= Len(a)
  BY <1>1, <1>2, <1>3
<1>5. /\ Parent(p) \in Path /\ Parent(p) \in Seq(Name) /\ Len(Parent(p)) = Len(p) - 1
      /\ \A i \in 1 .. Len(p) - 1 : Parent(p)[i] = p[i]
  BY <1>1, <1>4 DEF Parent
<1>6. Under(a, Parent(p))
  BY <1>1, <1>2, <1>4, <1>5, UnderIndex
<1> QED
  BY <1>4, <1>5, <1>6, NamespaceAssumption

\* o is r with its beginning q replaced by p.
Replaced(p, q, r, o) ==
    /\ o \in Seq(Name) /\ Len(o) = Len(p) + (Len(r) - Len(q))
    /\ \A i \in 1 .. Len(p) : o[i] = p[i]
    /\ \A i \in 1 .. Len(r) - Len(q) : o[Len(p) + i] = r[Len(q) + i]

\* Origin replaces the beginning q by p.
LEMMA OriginFacts ==
    ASSUME NEW p \in Seq(Name), NEW q \in Seq(Name), NEW r \in Seq(Name), Under(q, r)
    PROVE  Replaced(p, q, r, Origin(p, q, r)) /\ Under(p, Origin(p, q, r))
<1> DEFINE e == SubSeq(r, Len(q) + 1, Len(r))
<1>1. Len(r) >= Len(q)
  BY UnderIndex
<1>2. /\ e \in Seq(Name) /\ Len(e) = Len(r) - Len(q)
      /\ \A i \in 1 .. Len(r) - Len(q) : e[i] = r[Len(q) + i]
  BY <1>1
<1> HIDE DEF e
<1>3. /\ p \o e \in Seq(Name) /\ Len(p \o e) = Len(p) + Len(e)
      /\ \A i \in 1 .. Len(p) : (p \o e)[i] = p[i]
      /\ \A i \in 1 .. Len(e) : (p \o e)[Len(p) + i] = e[i]
  <2>1. /\ p \o e \in Seq(Name) /\ Len(p \o e) = Len(p) + Len(e)
        /\ \A i \in 1 .. Len(p) + Len(e) :
              (p \o e)[i] = IF i <= Len(p) THEN p[i] ELSE e[i - Len(p)]
    BY <1>2, ConcatProperties
  <2>2. Len(p) \in Nat /\ Len(e) \in Nat
    BY <1>2
  <2> QED
    BY <2>1, <2>2
<1>4. Under(p, p \o e)
  <2>1. Len(p) \in Nat /\ Len(e) \in Nat
    BY <1>2
  <2>2. Len(p \o e) >= Len(p)
    BY <1>3, <2>1
  <2> DEFINE x == p \o e
  <2>3. x \in Seq(Name) /\ Len(x) >= Len(p) /\ \A i \in 1 .. Len(p) : x[i] = p[i]
    BY <1>3, <2>2
  <2> HIDE DEF x
  <2>4. Under(p, x)
    BY <2>3, UnderIndex
  <2> QED
    BY <2>4 DEF x
<1>5. Origin(p, q, r) = p \o e
  BY DEF Origin, e
<1>6. Replaced(p, q, r, p \o e)
  BY <1>2, <1>3 DEF Replaced
<1> QED
  BY <1>4, <1>5, <1>6

\* It keeps the order below q.
LEMMA OriginOrder ==
    ASSUME NEW p \in Path, NEW q \in Path, NEW a \in Path, NEW r \in Path,
           Under(q, a), Under(a, r)
    PROVE  /\ Under(Origin(p, q, a), Origin(p, q, r))
           /\ a # r => Origin(p, q, a) # Origin(p, q, r)
           /\ Origin(p, q, r) \in Path => Origin(p, q, a) \in Path
<1> DEFINE oa == Origin(p, q, a)
           or == Origin(p, q, r)
<1>1. p \in Seq(Name) /\ q \in Seq(Name) /\ a \in Seq(Name) /\ r \in Seq(Name) /\ Len(p) >= 1
  BY PathFacts
<1>2. Under(q, r)
  BY <1>1, UnderOrder
<1>3. Replaced(p, q, a, oa) /\ Replaced(p, q, r, or)
  BY <1>1, <1>2, OriginFacts
<1>4. /\ Len(r) >= Len(a) /\ \A i \in 1 .. Len(a) : r[i] = a[i]
      /\ Len(a) >= Len(q) /\ Len(r) >= Len(q)
  BY <1>1, <1>2, UnderIndex
<1> HIDE DEF oa, or
<1>5. /\ oa \in Seq(Name) /\ Len(oa) = Len(p) + (Len(a) - Len(q))
      /\ \A i \in 1 .. Len(p) : oa[i] = p[i]
      /\ \A i \in 1 .. Len(a) - Len(q) : oa[Len(p) + i] = a[Len(q) + i]
  BY <1>3 DEF Replaced
<1>6. /\ or \in Seq(Name) /\ Len(or) = Len(p) + (Len(r) - Len(q))
      /\ \A i \in 1 .. Len(p) : or[i] = p[i]
      /\ \A i \in 1 .. Len(r) - Len(q) : or[Len(p) + i] = r[Len(q) + i]
  BY <1>3 DEF Replaced
<1>7. \A i \in 1 .. Len(oa) : or[i] = oa[i]
  <2> TAKE i \in 1 .. Len(oa)
  <2>1. CASE i <= Len(p)
    BY <1>1, <1>5, <1>6, <2>1
  <2>2. CASE i > Len(p)
    <3> DEFINE k == i - Len(p)
    <3>1. k \in 1 .. Len(a) - Len(q) /\ k \in 1 .. Len(r) - Len(q) /\ i = Len(p) + k
      BY <1>1, <1>5, <1>4, <2>2
    <3>2. Len(q) + k \in 1 .. Len(a)
      BY <1>1, <3>1
    <3> QED
      BY <1>5, <1>6, <1>4, <3>1, <3>2
  <2> QED
    BY <1>1, <2>1, <2>2
<1>8. Under(oa, or)
  BY <1>1, <1>5, <1>6, <1>4, <1>7, UnderIndex
<1>9. a # r => oa # or
  <2> SUFFICES ASSUME oa = or PROVE a = r
    OBVIOUS
  <2>1. Len(a) = Len(r)
    BY <1>1, <1>5, <1>6
  <2> QED
    BY <1>1, <1>4, <2>1
<1>10. or \in Path => oa \in Path
  <2> SUFFICES ASSUME or \in Path PROVE oa \in Path
    OBVIOUS
  <2>1. SubSeq(or, 1, Len(oa)) = oa
    BY <1>8 DEF Under
  <2>2. Len(oa) \in 1 .. Len(or)
    BY <1>1, <1>5, <1>6, <1>4
  <2> QED
    BY <2>1, <2>2, PathFacts
<1> QED
  BY <1>8, <1>9, <1>10 DEF oa, or

-----------------------------------------------------------------------------
(***************************************************************************)
(* Trees.                                                                  *)
(***************************************************************************)
\* Entries are told apart from nothing, and directories from files.
LEMMA EntryFacts ==
    ASSUME NEW t \in Tree, NEW p \in Path, t[p] # NoEntry
    PROVE  /\ t[p] \in Entry /\ t[p].node \in File \cup {Dir} /\ t[p].mode \in Mode
           /\ t[p] = [node |-> t[p].node, mode |-> t[p].mode]
<1>1. t[p] \in Entry
  BY DEF Tree
<1> QED
  BY <1>1 DEF Entry

\* A new entry.
LEMMA NewEntry ==
    /\ \A f \in File, m \in Mode : [node |-> f, mode |-> m] \in Entry \ {NoEntry}
    /\ \A m \in Mode : [node |-> Dir, mode |-> m] \in Entry \ {NoEntry}
    /\ Idle.mode \in Mode
BY NamespaceAssumption DEF Entry, Idle

\* Nothing is below a file, or below nothing.
LEMMA NothingBelow ==
    ASSUME NEW t \in Tree, WellFormed(t), NEW p \in Path,
           t[p] = NoEntry \/ t[p].node # Dir
    PROVE  \A q \in Path : Under(p, q) /\ p # q => t[q] = NoEntry
BY DEF WellFormed

\* Putting an entry where nothing is, in a directory.
LEMMA PutNew ==
    ASSUME NEW t \in Tree, WellFormed(t), NEW p \in Path, t[p] = NoEntry,
           IsDir(t, Parent(p)), NEW e \in Entry, e # NoEntry
    PROVE  Put(t, p, e) \in Tree /\ WellFormed(Put(t, p, e))
<1> DEFINE u == Put(t, p, e)
<1>1. u \in Tree /\ \A r \in Path : u[r] = IF r = p THEN e ELSE t[r]
  BY DEF Put, Tree
<1> HIDE DEF u
<1>2. ASSUME NEW a \in Path, NEW q \in Path, Under(a, q), a # q, u[q] # NoEntry
      PROVE  u[a] # NoEntry /\ u[a].node = Dir
  <2>1. CASE q = p
    <3>1. Parent(p) \in Path /\ Parent(p) # Root /\ Under(a, Parent(p))
      BY <1>2, <2>1, AboveParent
    <3>2. t[Parent(p)] # NoEntry /\ t[Parent(p)].node = Dir
      BY <3>1 DEF IsDir
    <3>3. t[a] # NoEntry /\ t[a].node = Dir
      BY <3>1, <3>2 DEF WellFormed
    <3> QED
      BY <1>1, <1>2, <2>1, <3>3
  <2>2. CASE q # p
    <3>1. t[q] # NoEntry
      BY <1>1, <1>2, <2>2
    <3>2. t[a] # NoEntry /\ t[a].node = Dir
      BY <1>2, <3>1 DEF WellFormed
    <3> QED
      BY <1>1, <3>2
  <2> QED
    BY <2>1, <2>2
<1>3. WellFormed(u)
  BY <1>2 DEF WellFormed
<1> QED
  BY <1>1, <1>3 DEF u

\* Taking away an entry nothing is below of.
LEMMA PutNothing ==
    ASSUME NEW t \in Tree, WellFormed(t), NEW p \in Path,
           \A q \in Path : Under(p, q) /\ p # q => t[q] = NoEntry
    PROVE  Put(t, p, NoEntry) \in Tree /\ WellFormed(Put(t, p, NoEntry))
<1> DEFINE u == Put(t, p, NoEntry)
<1>1. u \in Tree /\ \A r \in Path : u[r] = IF r = p THEN NoEntry ELSE t[r]
  BY DEF Put, Tree
<1> HIDE DEF u
<1>2. WellFormed(u)
  BY <1>1 DEF WellFormed
<1> QED
  BY <1>1, <1>2 DEF u

\* Changing an entry, but not whether it is a directory.
LEMMA SameKind ==
    ASSUME NEW t \in Tree, WellFormed(t), NEW u \in Tree,
           \A r \in Path : /\ u[r] = NoEntry <=> t[r] = NoEntry
                           /\ u[r] # NoEntry => (u[r].node = Dir <=> t[r].node = Dir)
    PROVE  WellFormed(u)
BY DEF WellFormed

\* What a rename does to a path.
LEMMA RenamedFacts ==
    ASSUME NEW t \in Tree, NEW p \in Path, NEW q \in Path, ~Under(p, q), ~Under(q, p)
    PROVE  /\ Renamed(t, p, q) \in Tree
           /\ \A r \in Path :
                 /\ Under(q, r) => ~Under(p, r)
                 /\ Renamed(t, p, q)[r] =
                       IF Under(q, r)
                       THEN IF Origin(p, q, r) \in Path THEN t[Origin(p, q, r)] ELSE NoEntry
                       ELSE IF Under(p, r) THEN NoEntry ELSE t[r]
<1>1. ASSUME NEW r \in Path, Under(q, r) PROVE ~Under(p, r)
  BY <1>1, PathFacts, UnderOrder
<1> QED
  BY <1>1 DEF Renamed, Tree

\* The tree after a rename that was allowed.
LEMMA RenamedWellFormed ==
    ASSUME NEW t \in Tree, WellFormed(t), NEW p \in Path, NEW q \in Path,
           CanRename(t, p, q), ~Under(q, p)
    PROVE  WellFormed(Renamed(t, p, q))
<1> DEFINE u == Renamed(t, p, q)
<1>1. ~Under(p, q) /\ t[p] # NoEntry /\ IsDir(t, Parent(q))
  BY DEF CanRename
<1>2. \A r \in Path :
        /\ Under(q, r) => ~Under(p, r)
        /\ u[r] = IF Under(q, r)
                  THEN IF Origin(p, q, r) \in Path THEN t[Origin(p, q, r)] ELSE NoEntry
                  ELSE IF Under(p, r) THEN NoEntry ELSE t[r]
  BY <1>1, RenamedFacts
<1> HIDE DEF u
<1>3. ASSUME NEW a \in Path, NEW r \in Path, Under(a, r), a # r, u[r] # NoEntry
      PROVE  u[a] # NoEntry /\ u[a].node = Dir
  <2>1. CASE Under(q, r) /\ Under(q, a)
    <3>1. Origin(p, q, r) \in Path /\ t[Origin(p, q, r)] # NoEntry
      BY <1>2, <1>3, <2>1
    <3>2. /\ Origin(p, q, a) \in Path
          /\ Under(Origin(p, q, a), Origin(p, q, r)) /\ Origin(p, q, a) # Origin(p, q, r)
      BY <1>3, <2>1, <3>1, OriginOrder
    <3>3. t[Origin(p, q, a)] # NoEntry /\ t[Origin(p, q, a)].node = Dir
      BY <3>1, <3>2 DEF WellFormed
    <3> QED
      BY <1>2, <2>1, <3>2, <3>3
  <2>2. CASE Under(q, r) /\ ~Under(q, a)
    <3>1. Under(a, q) /\ a # q
      BY <1>3, <2>2, PathFacts, UnderOrder
    <3>2. Parent(q) \in Path /\ Parent(q) # Root /\ Under(a, Parent(q))
      BY <3>1, AboveParent
    <3>3. t[Parent(q)] # NoEntry /\ t[Parent(q)].node = Dir
      BY <1>1, <3>2 DEF IsDir
    <3>4. t[a] # NoEntry /\ t[a].node = Dir
      BY <3>2, <3>3 DEF WellFormed
    <3>5. ~Under(p, a)
      BY <1>1, <3>1, PathFacts, UnderOrder
    <3> QED
      BY <1>2, <2>2, <3>4, <3>5
  <2>3. CASE ~Under(q, r)
    <3>1. ~Under(p, r) /\ t[r] # NoEntry
      BY <1>2, <1>3, <2>3
    <3>2. ~Under(q, a) /\ ~Under(p, a)
      BY <1>3, <2>3, <3>1, PathFacts, UnderOrder
    <3>3. t[a] # NoEntry /\ t[a].node = Dir
      BY <1>3, <3>1 DEF WellFormed
    <3> QED
      BY <1>2, <3>2, <3>3
  <2> QED
    BY <2>1, <2>2, <2>3
<1>4. WellFormed(u)
  BY <1>3 DEF WellFormed
<1> QED
  BY <1>4 DEF u

-----------------------------------------------------------------------------
(***************************************************************************)
(* The loop over the servers.                                              *)
(***************************************************************************)
\* Server 1 and the ends of the loop.
LEMMA ServerFacts ==
    /\ Server \subseteq Nat /\ 1 \in Server /\ 2 \in Server /\ NServers \in Server
    /\ \A k \in Kind : First(k) \in Server /\ Last(k) \in Server /\ First(k) # Last(k)
    /\ \A k \in Kind, s \in Server : s # Last(k) => NextServ(k, s) \in Server
BY NamespaceAssumption DEF Server, First, Last, NextServ

\* Who has answered, at the first server, at the last, and after one more.
LEMMA PastFacts ==
    ASSUME op \in Op
    PROVE  /\ op.serv = First(op.kind) => \A s \in Server : ~Past(s)
           /\ op.serv = Last(op.kind) => \A s \in Server : Past(s) \/ s = op.serv
           /\ ~Past(op.serv)
           /\ \A s \in Server :
                (IF Descending(op.kind) THEN s > NextServ(op.kind, op.serv)
                                        ELSE s < NextServ(op.kind, op.serv))
                <=> Past(s) \/ s = op.serv
           /\ Descending(op.kind) => ~Past(1)
<1>1. op.serv \in Server /\ op.kind \in Kind
  BY DEF Op
<1>2. Server = 1 .. NServers /\ NServers \in Nat
  BY NamespaceAssumption DEF Server
<1> QED
  BY <1>1, <1>2 DEF Past, First, Last, NextServ

\* The call's result, kind by kind.
LEMMA ResultFacts ==
    /\ op.kind = "create" => Result = Put(shown, op.path, [node |-> op.file, mode |-> Idle.mode])
    /\ op.kind \in {"unlink", "rmdir"} => Result = Removed(shown, op.path)
    /\ op.kind = "mkdir" =>
          Result = Put(Removed(shown, op.path), op.path, [node |-> Dir, mode |-> op.mode])
    /\ op.kind = "chmod" => Result = [shown EXCEPT ![op.path].mode = op.mode]
    /\ op.kind = "rename" => Result = Renamed(shown, op.path, op.to)
    /\ op.kind = "open" => Result = shown
BY DEF Result

\* Where a call changes nothing, and what it heals.
LEMMA TouchedFacts ==
    ASSUME op \in Op, Called, tainted \subseteq Path, shown \in Tree
    PROVE  /\ Touched(op) \subseteq Path /\ Unsure \subseteq Path
           /\ Unsure \subseteq tainted \cup Touched(op)
           /\ \A r \in Path \ Touched(op) : Result[r] = shown[r]
           /\ op.kind # "rename" => Carried(op) = {} /\ Touched(op) = Subtree(op.path)
           /\ op.kind = "rename" => Touched(op) = Subtree(op.path) \cup Subtree(op.to)
           /\ op.path \in Touched(op)
<1>1. op.path \in Path /\ op.kind \in Kind /\ (op.kind = "rename" <=> op.to # NoPath)
  BY DEF Called, Op
<1>2. op.path \in Subtree(op.path)
  BY <1>1, PathFacts, UnderOrder DEF Subtree
<1>3. /\ op.kind # "rename" => Carried(op) = {} /\ Touched(op) = Subtree(op.path)
      /\ op.kind = "rename" => Touched(op) = Subtree(op.path) \cup Subtree(op.to)
  BY <1>1 DEF Carried, Touched
<1>4. /\ Touched(op) \subseteq Path /\ Unsure \subseteq Path
      /\ Unsure \subseteq tainted \cup Touched(op)
  BY <1>3 DEF Touched, Subtree, Unsure, Carried
<1>5. ASSUME NEW r \in Path \ Touched(op) PROVE Result[r] = shown[r]
  <2>1. r # op.path /\ ~Under(op.path, r)
    BY <1>2, <1>3, <1>5 DEF Subtree
  <2>2. CASE op.kind = "rename"
    <3>1. ~Under(op.to, r) /\ op.to \in Path
      BY <1>1, <1>3, <1>5, <2>2 DEF Subtree, Op
    <3> QED
      BY <2>1, <2>2, <3>1, ResultFacts DEF Renamed
  <2>3. CASE op.kind = "create"
    BY <2>1, <2>3, ResultFacts DEF Put, Tree
  <2>4. CASE op.kind \in {"unlink", "rmdir"}
    BY <2>1, <2>4, ResultFacts DEF Removed
  <2>5. CASE op.kind = "mkdir"
    BY <2>1, <2>5, ResultFacts DEF Removed, Put
  <2>6. CASE op.kind = "chmod"
    BY <2>1, <2>6, ResultFacts DEF Tree
  <2>7. CASE op.kind = "open"
    BY <2>7, ResultFacts
  <2> QED
    BY <1>1, <2>2, <2>3, <2>4, <2>5, <2>6, <2>7 DEF Kind
<1> QED
  BY <1>2, <1>3, <1>4, <1>5

\* The call stays the same from request to request.
LEMMA SameCall ==
    ASSUME op \in Op, op' \in Op, UNCHANGED shown,
           op'.kind = op.kind, op'.path = op.path, op'.to = op.to,
           op'.file = op.file, op'.mode = op.mode
    PROVE  /\ Result' = Result
           /\ UNCHANGED tainted => Unsure' = Unsure
BY DEF Result, Put, Removed, Renamed, Idle, Unsure, Healed, Carried, Touched

\* A server that does what the call makes of the tree.
LEMMA DoneKeeps ==
    ASSUME TreeInv, op.pc = "request", NEW u \in Tree, Done(u), WellFormed(u),
           \A r \in Path \ Unsure : u[r] = Result[r],
           op.kind = "open" => IsFile(u, op.path),
           UNCHANGED <<faults, shown>>
    PROVE  TreeInv'
<1>1. /\ tree \in [Server -> Tree] /\ op \in Op /\ op.serv \in Server /\ op.kind \in Kind
      /\ tainted \subseteq Path /\ shown \in Tree
  BY DEF TreeInv, Op
<1>2. Called /\ Answered /\ (~Past(1) => tree[1] = shown)
  BY DEF TreeInv, InRequest
<1>3. /\ tree' \in [Server -> Tree] /\ tree'[op.serv] = u
      /\ \A s \in Server : s # op.serv => tree'[s] = tree[s]
  BY <1>1 DEF Done
<1>4. \A s \in Server : WellFormed(tree'[s])
  BY <1>3 DEF TreeInv
<1>5. \A s \in Server : Past(s) \/ s = op.serv =>
         \A r \in Path \ Unsure : tree'[s][r] = Result[r]
  BY <1>2, <1>3 DEF Answered
<1>6. CASE Finished
  <2>1. op' = [op EXCEPT !.pc = "return", !.ok = TRUE] /\ tainted' = Unsure
    BY <1>6 DEF Done, Return, Unsure
  <2>2. op' \in Op /\ op'.pc = "return" /\ op'.ok
    BY <1>1, <2>1 DEF Op, PC
  <2>3. tainted' \subseteq Path
    BY <1>1, <1>2, <2>1, TouchedFacts
  <2>4. Agreement'
    <3>1. \A s \in Server, r \in Path \ tainted' : tree'[s][r] = Result[r]
      BY <1>1, <1>5, <1>6, <2>1, PastFacts DEF Finished
    <3> QED
      BY <3>1, ServerFacts DEF Agreement
  <2> QED
    BY <1>3, <1>4, <2>2, <2>3, <2>4
    DEF TreeInv, InRequest, FailedFileCallInvisible
<1>7. CASE ~Finished
  <2>1. op' = [op EXCEPT !.serv = NextServ(op.kind, op.serv)] /\ tainted' = tainted
    BY <1>7 DEF Done
  <2>2. /\ op' \in Op /\ op'.pc = "request" /\ op'.serv = NextServ(op.kind, op.serv)
        /\ op'.kind = op.kind /\ op'.path = op.path /\ op'.to = op.to
        /\ op'.file = op.file /\ op'.mode = op.mode
    BY <1>1, <1>7, <2>1, ServerFacts DEF Op, Finished
  <2>3. Result' = Result /\ Unsure' = Unsure
    BY <1>1, <2>1, <2>2, SameCall
  <2>4. \A s \in Server : Past(s)' <=> Past(s) \/ s = op.serv
    BY <1>1, <2>2, PastFacts DEF Past
  <2>5. Called'
    BY <1>2, <1>3, <2>2, <2>4 DEF Called
  <2>6. Answered'
    BY <1>2, <1>3, <1>5, <2>1, <2>3, <2>4 DEF Answered
  <2>7. ~Past(1)' => tree'[1] = shown
    BY <1>2, <1>3, <2>4, ServerFacts
  <2> QED
    BY <1>1, <1>3, <1>4, <2>1, <2>2, <2>5, <2>6, <2>7
    DEF TreeInv, InRequest, Agreement, FailedFileCallInvisible
<1> QED
  BY <1>6, <1>7

\* A server that fails.
LEMMA FailedKeeps ==
    ASSUME TreeInv, op.pc = "request", Failed, faults' \in 0 .. MaxFaults,
           UNCHANGED shown
    PROVE  TreeInv' /\ tainted \subseteq tainted' /\ UNCHANGED tree
<1>1. /\ tree \in [Server -> Tree] /\ op \in Op /\ op.kind \in Kind
      /\ tainted \subseteq Path /\ shown \in Tree
  BY DEF TreeInv, Op
<1>2. Called /\ Answered /\ (~Past(1) => tree[1] = shown)
  BY DEF TreeInv, InRequest
<1>3. /\ op' \in Op /\ op'.pc = "return" /\ op'.kind = op.kind
      /\ UNCHANGED tree
      /\ tainted' = IF op.serv = First(op.kind) THEN tainted ELSE tainted \cup Touched(op)
  BY <1>1 DEF Failed, Return, Op, PC
<1>4. tainted' \subseteq Path /\ tainted \subseteq tainted'
  BY <1>1, <1>2, <1>3, TouchedFacts
<1>5. Agreement'
  <2>1. \A s \in Server, r \in Path \ tainted' : tree[s][r] = shown[r]
    <3>1. CASE op.serv = First(op.kind)
      BY <1>1, <1>2, <1>3, <3>1, PastFacts DEF Answered
    <3>2. CASE op.serv # First(op.kind)
      BY <1>1, <1>2, <1>3, <3>2, TouchedFacts DEF Answered
    <3> QED
      BY <3>1, <3>2
  <2> QED
    BY <1>3, <2>1, ServerFacts DEF Agreement
<1>6. FailedFileCallInvisible'
  BY <1>1, <1>2, <1>3, PastFacts DEF FailedFileCallInvisible, Descending
<1> QED
  BY <1>1, <1>3, <1>4, <1>5, <1>6 DEF TreeInv, InRequest

-----------------------------------------------------------------------------
(***************************************************************************)
(* The cache, when a server answers.                                       *)
(***************************************************************************)
\* After a call that succeeded, no file is at the paths it healed.
LEMMA HealedIsNoFile ==
    ASSUME TreeInv, op.pc = "request", op.kind # "rename",
           NEW r \in Healed(op)
    PROVE  r \in Path /\ r \notin Unsure /\ ~IsFile(Result, r)
<1>1. op \in Op /\ Called /\ tainted \subseteq Path /\ shown \in Tree
  BY DEF TreeInv, InRequest
<1>2. /\ op.kind \in {"unlink", "mkdir", "rmdir"}
      /\ r \in Subtree(op.path) /\ r \in Path /\ Under(op.path, r)
      /\ r \notin Unsure /\ op.path \in Path
  BY <1>1, TouchedFacts DEF Healed, Subtree, Unsure, Called
<1>3. CASE op.kind = "mkdir"
  <2>1. Result = Put(Removed(shown, op.path), op.path, [node |-> Dir, mode |-> op.mode])
    BY <1>3, ResultFacts
  <2>2. Result[r] = NoEntry \/ Result[r] = [node |-> Dir, mode |-> op.mode]
    BY <1>2, <2>1 DEF Put, Removed
  <2> QED
    BY <1>2, <2>2 DEF IsFile
<1>4. CASE op.kind \in {"unlink", "rmdir"}
  <2>1. Result[r] = NoEntry
    BY <1>2, <1>4, ResultFacts DEF Removed
  <2> QED
    BY <1>2, <2>1 DEF IsFile
<1> QED
  BY <1>2, <1>3, <1>4

\* A server that does what it is asked: if it is server 1, the file that is
\* cached must still be there.
LEMMA DoneKeepsCache ==
    ASSUME Inv, op.pc = "request", NEW u \in Tree, Done(u),
           \A r \in Path \ Unsure : u[r] = Result[r],
           Kept \/ Forgotten,
           op.kind = "rename" /\ cache.path \in Touched(op) => excused',
           op.serv = 1 /\ cache' # EmptyCache /\ ~excused' =>
               /\ IsFile(u, cache.path)
               /\ cache.path \notin tainted => u[cache.path].node = tree[1][cache.path].node
    PROVE  CacheInv'
<1>1. /\ tree \in [Server -> Tree] /\ op \in Op /\ op.serv \in Server
      /\ tainted \subseteq Path /\ shown \in Tree
      /\ Called /\ Answered
      /\ EmptyCache \in Cached
  BY DEF Inv, TreeInv, InRequest, Op, EmptyCache, Cached
<1>2. tree'[1] = IF op.serv = 1 THEN u ELSE tree[1]
  BY <1>1, ServerFacts DEF Done
<1>3. cache' \in Cached /\ excused' \in BOOLEAN
  BY <1>1 DEF Inv, CacheInv, Kept, Forgotten
<1>4. ASSUME cache' # EmptyCache
      PROVE  /\ cache'.path \in Path
             /\ ~excused' => /\ IsFile(tree'[1], cache'.path)
                             /\ cache'.path \notin tainted' =>
                                   cache'.files = {tree'[1][cache'.path].node}
  <2> SUFFICES ASSUME ~(Forgotten /\ excused')
               PROVE  /\ cache'.path \in Path
                      /\ ~excused' => /\ IsFile(tree'[1], cache'.path)
                                      /\ cache'.path \notin tainted' =>
                                            cache'.files = {tree'[1][cache'.path].node}
    BY <1>4 DEF Forgotten
  <2>1. cache' = cache /\ cache.path \in Path /\ (excused => excused')
    BY <1>4 DEF Inv, CacheInv, Kept, Forgotten
  <2> DEFINE p == cache.path
  <2>2. ASSUME ~excused'
        PROVE  /\ IsFile(tree'[1], p)
               /\ p \notin tainted => cache.files = {tree'[1][p].node}
    <3>1. IsFile(tree[1], p) /\ (p \notin tainted => cache.files = {tree[1][p].node})
      BY <1>4, <2>1, <2>2 DEF Inv, CacheInv
    <3> QED
      BY <1>2, <1>4, <2>1, <2>2, <3>1
  <2>3. ASSUME ~excused', p \notin tainted'
        PROVE  p \notin tainted
    <3>1. SUFFICES ASSUME p \in tainted PROVE FALSE
      OBVIOUS
    <3>2. Finished /\ tainted' = Unsure
      BY <2>3, <3>1 DEF Done, Unsure
    <3>3. p \in Healed(op)
      BY <2>3, <3>1, <3>2 DEF Unsure
    <3>4. op.kind # "rename"
      BY <2>3, <3>3 DEF Healed
    <3>5. ~IsFile(Result, p) /\ p \notin Unsure /\ p \in Path
      BY <3>3, <3>4, HealedIsNoFile DEF Inv
    <3>6. Past(1) \/ op.serv = 1
      BY <1>1, <3>2, PastFacts, ServerFacts DEF Finished
    <3>7. tree'[1][p] = Result[p]
      BY <1>1, <1>2, <3>5, <3>6, ServerFacts DEF Answered
    <3> QED
      BY <2>2, <2>3, <3>5, <3>7 DEF IsFile
  <2> QED
    BY <2>1, <2>2, <2>3
<1> QED
  BY <1>3, <1>4 DEF CacheInv

\* A server that fails.
LEMMA FailedKeepsCache ==
    ASSUME CacheInv, UNCHANGED <<tree, cache>>, tainted \subseteq tainted',
           excused' \in BOOLEAN, excused => excused'
    PROVE  CacheInv'
BY DEF CacheInv, EmptyCache

\* A request that is refused, whatever it asks for.
LEMMA RefusedKeeps ==
    ASSUME Inv, op.pc = "request", NEW allowed,
           Refused(allowed), UNCHANGED <<cache, shown>>,
           excused' \in BOOLEAN, excused => excused'
    PROVE  Inv'
<1>1. Failed
  BY DEF Refused
<1>2. faults' \in 0 .. MaxFaults
  BY NamespaceAssumption DEF Inv, TreeInv, Inject, Refused
<1>3. TreeInv' /\ tainted \subseteq tainted' /\ UNCHANGED tree
  BY <1>1, <1>2, FailedKeeps DEF Inv
<1> QED
  BY <1>3, FailedKeepsCache DEF Inv

-----------------------------------------------------------------------------
(***************************************************************************)
(* The requests.                                                           *)
(***************************************************************************)
\* What every request begins with.
LEMMA RequestFacts ==
    ASSUME Inv, op.pc = "request"
    PROVE  /\ op \in Op /\ op.serv \in Server /\ op.path \in Path /\ op.mode \in Mode
           /\ tree \in [Server -> Tree]
           /\ tree[op.serv] \in Tree /\ WellFormed(tree[op.serv])
           /\ shown \in Tree /\ tainted \subseteq Path
           /\ Called
           /\ \A r \in Path \ tainted : tree[op.serv][r] = shown[r]
           /\ op.serv = 1 => tree[1] = shown
           /\ Unsure \subseteq Path /\ excused \in BOOLEAN
           /\ op.kind # "rename" => Carried(op) = {} /\ Touched(op) = Subtree(op.path)
           /\ \A r \in Path \ Touched(op) : Result[r] = shown[r]
           /\ cache # EmptyCache => cache.path \in Path
           /\ cache # EmptyCache /\ ~excused => IsFile(tree[1], cache.path)
<1>1. /\ op \in Op /\ op.serv \in Server /\ op.mode \in Mode /\ tree \in [Server -> Tree]
      /\ shown \in Tree /\ tainted \subseteq Path
      /\ Called /\ Answered /\ (~Past(1) => tree[1] = shown)
  BY DEF Inv, TreeInv, InRequest, Op
<1>2. ~Past(op.serv)
  BY <1>1, PastFacts
<1>3. op.path \in Path
  BY <1>1 DEF Called
<1>4. tree[op.serv] \in Tree /\ WellFormed(tree[op.serv])
  BY <1>1 DEF Inv, TreeInv
<1>5. \A r \in Path \ tainted : tree[op.serv][r] = shown[r]
  BY <1>1, <1>2 DEF Answered
<1> QED
  BY <1>1, <1>2, <1>3, <1>4, <1>5, TouchedFacts DEF Inv, CacheInv

\* create
LEMMA CreateInv ==
    ASSUME Inv, CreateRpc
    PROVE  Inv'
<1> DEFINE t == tree[op.serv]
           new == Put(t, op.path, [node |-> op.file, mode |-> Idle.mode])
<1>1. /\ op.pc = "request" /\ op.kind = "create" /\ UNCHANGED <<cache, shown, excused>>
      /\ \/ /\ CanCreate(t, op.path, op.excl)
            /\ Done(new) \/ (IsFile(t, op.path) /\ Done(t))
            /\ UNCHANGED faults
         \/ Refused(CanCreate(t, op.path, op.excl))
  BY DEF CreateRpc, Requested
<1>2. /\ op.path \in Path /\ op.serv \in Server /\ t \in Tree /\ WellFormed(t)
      /\ shown[op.path] = NoEntry /\ shown \in Tree /\ op.file \in File
      /\ \A r \in Path \ tainted : t[r] = shown[r]
      /\ Unsure = tainted /\ excused \in BOOLEAN
      /\ op.serv = 1 => t = shown
      /\ op.serv = 1 /\ cache # EmptyCache /\ ~excused =>
            IsFile(t, cache.path) /\ cache.path \in Path
  BY <1>1, RequestFacts DEF Called, Unsure, Healed
<1>3. CASE Refused(CanCreate(t, op.path, op.excl))
  <2> DEFINE allowed == CanCreate(t, op.path, op.excl)
  <2> HIDE DEF allowed, t
  <2>1. Refused(allowed)
    BY <1>3 DEF allowed
  <2> QED
    BY <1>1, <1>2, <2>1, RefusedKeeps
<1>4. ASSUME NEW u \in {new, t}, CanCreate(t, op.path, op.excl), Done(u), UNCHANGED faults,
             u = t => IsFile(t, op.path)
      PROVE  Inv'
  <2>1. Result = Put(shown, op.path, [node |-> op.file, mode |-> Idle.mode])
    BY <1>1, ResultFacts
  <2>2. u \in Tree /\ WellFormed(u)
    <3>1. CASE u = t
      BY <1>2, <3>1
    <3>2. CASE u = new /\ t[op.path] = NoEntry
      BY <1>2, <1>4, <3>2, PutNew, NewEntry DEF CanCreate
    <3>3. CASE u = new /\ t[op.path] # NoEntry
      <4>1. IsFile(t, op.path) /\ u \in Tree
        BY <1>2, <1>4, <3>3, NewEntry DEF CanCreate, Put, Tree
      <4>2. \A r \in Path : /\ u[r] = NoEntry <=> t[r] = NoEntry
                            /\ u[r] # NoEntry => (u[r].node = Dir <=> t[r].node = Dir)
        <5>1. /\ [node |-> op.file, mode |-> Idle.mode] # NoEntry
              /\ op.file # Dir
          BY <1>2, NewEntry, NamespaceAssumption
        <5>2. \A r \in Path : u[r] = IF r = op.path THEN [node |-> op.file, mode |-> Idle.mode]
                                     ELSE t[r]
          BY <1>2, <3>3 DEF Put, Tree
        <5> QED
          BY <4>1, <5>1, <5>2 DEF IsFile
      <4> QED
        BY <1>2, <4>1, <4>2, SameKind
    <3> QED
      BY <1>4, <3>1, <3>2, <3>3
  <2>3. \A r \in Path \ Unsure : u[r] = Result[r]
    <3> TAKE r \in Path \ Unsure
    <3>1. CASE r = op.path
      <4>1. t[r] = NoEntry
        BY <1>2, <3>1
      <4>2. u = new
        BY <1>4, <3>1, <4>1 DEF IsFile
      <4> QED
        BY <1>2, <2>1, <3>1, <4>2 DEF Put, Tree
    <3>2. CASE r # op.path
      BY <1>2, <1>4, <2>1, <3>2 DEF Put, Tree
    <3> QED
      BY <3>1, <3>2
  <2>4. op.serv = 1 /\ cache # EmptyCache /\ ~excused =>
           IsFile(u, cache.path) /\ u[cache.path] = tree[1][cache.path]
    <3> SUFFICES ASSUME op.serv = 1, cache # EmptyCache, ~excused
                 PROVE  IsFile(u, cache.path) /\ u[cache.path] = t[cache.path]
      OBVIOUS
    <3>1. IsFile(t, cache.path) /\ cache.path \in Path /\ t[op.path] = NoEntry
      BY <1>2
    <3>2. cache.path # op.path
      BY <3>1 DEF IsFile
    <3>3. u[cache.path] = t[cache.path]
      BY <1>2, <1>4, <3>1, <3>2 DEF Put, Tree
    <3> QED
      BY <3>1, <3>3 DEF IsFile
  <2> HIDE DEF t, new
  <2>5. TreeInv'
    BY <1>1, <1>4, <2>2, <2>3, DoneKeeps DEF Inv
  <2>6. CacheInv'
    BY <1>1, <1>2, <1>4, <2>2, <2>3, <2>4, DoneKeepsCache DEF Kept
  <2> QED
    BY <2>5, <2>6 DEF Inv
<1>5. ASSUME CanCreate(t, op.path, op.excl), new = t PROVE IsFile(t, op.path)
  <2>1. new[op.path] # NoEntry
    BY <1>2, NewEntry DEF Put, Tree
  <2> QED
    BY <1>5, <2>1 DEF CanCreate
<1>6. CASE CanCreate(t, op.path, op.excl) /\ Done(new) /\ UNCHANGED faults
  BY <1>4, <1>5, <1>6
<1>7. CASE /\ CanCreate(t, op.path, op.excl) /\ IsFile(t, op.path)
           /\ Done(t) /\ UNCHANGED faults
  BY <1>4, <1>7
<1> QED
  BY <1>1, <1>3, <1>6, <1>7

\* open
LEMMA OpenInv ==
    ASSUME Inv, OpenRpc
    PROVE  Inv'
<1> DEFINE t == tree[op.serv]
           p == op.path
           healed == [t EXCEPT ![p].node = tree[2][p].node]
<1>1. /\ op.pc = "request" /\ op.kind = "open" /\ UNCHANGED <<cache, shown, excused>>
      /\ \/ /\ IsFile(t, p)
            /\ Done(t) \/ (Finished /\ Done(healed))
            /\ UNCHANGED faults
         \/ Refused(IsFile(t, p))
  BY DEF OpenRpc, Requested
<1>2. /\ p \in Path /\ op.serv \in Server /\ t \in Tree /\ WellFormed(t)
      /\ tree \in [Server -> Tree] /\ tainted \subseteq Path /\ op \in Op
      /\ \A r \in Path \ tainted : t[r] = shown[r]
      /\ Unsure = tainted /\ excused \in BOOLEAN /\ Result = shown
      /\ cache # EmptyCache => cache.path \in Path
      /\ cache # EmptyCache /\ ~excused => IsFile(tree[1], cache.path)
  BY <1>1, RequestFacts, ResultFacts DEF Unsure, Healed
<1>3. CASE Refused(IsFile(t, p))
  <2> DEFINE allowed == IsFile(t, p)
  <2> HIDE DEF allowed
  <2>1. Refused(allowed)
    BY <1>3 DEF allowed
  <2> QED
    BY <1>1, <1>2, <2>1, RefusedKeeps
<1>4. ASSUME IsFile(t, p), NEW u \in Tree, Done(u), UNCHANGED faults,
             \A r \in Path \ {p} : u[r] = t[r],
             IsFile(u, p), p \notin tainted => u[p] = t[p]
      PROVE  Inv'
  <2> HIDE DEF t, p
  <2>1. WellFormed(u)
    <3>1. \A r \in Path : /\ u[r] = NoEntry <=> t[r] = NoEntry
                          /\ u[r] # NoEntry => (u[r].node = Dir <=> t[r].node = Dir)
      BY <1>4 DEF IsFile
    <3> QED
      BY <1>2, <3>1, SameKind
  <2>2. \A r \in Path \ Unsure : u[r] = Result[r]
    BY <1>2, <1>4
  <2>3. op.serv = 1 /\ cache # EmptyCache /\ ~excused =>
           /\ IsFile(u, cache.path)
           /\ cache.path \notin tainted => u[cache.path].node = tree[1][cache.path].node
    BY <1>2, <1>4 DEF IsFile, t
  <2>4. TreeInv'
    BY <1>1, <1>4, <2>1, <2>2, DoneKeeps DEF Inv, p
  <2>5. CacheInv'
    BY <1>1, <1>2, <1>4, <2>2, <2>3, DoneKeepsCache DEF Kept
  <2> QED
    BY <2>4, <2>5 DEF Inv
<1>5. CASE IsFile(t, p) /\ Done(t) /\ UNCHANGED faults
  <2> HIDE DEF t, p
  <2> QED
    BY <1>2, <1>4, <1>5
<1>6. CASE IsFile(t, p) /\ Finished /\ Done(healed) /\ UNCHANGED faults
  <2>1. op.serv = 1 /\ Past(2)
    BY <1>1, <1>2, <1>6, ServerFacts DEF Finished, Last, Descending, Past
  <2>2. IsFile(tree[2], p) /\ (p \notin tainted => tree[2][p] = shown[p])
    BY <1>1, <1>2, <2>1, ServerFacts DEF Inv, TreeInv, InRequest, Called, Answered
  <2>3. /\ tree[2][p].node \in File /\ tree[2] \in Tree
        /\ t[p] = [node |-> t[p].node, mode |-> t[p].mode] /\ t[p].mode \in Mode
    BY <1>2, <1>6, <2>2, ServerFacts, EntryFacts DEF IsFile
  <2>4. /\ healed[p] = [node |-> tree[2][p].node, mode |-> t[p].mode]
        /\ \A r \in Path \ {p} : healed[r] = t[r]
    BY <1>2, <2>3 DEF Tree
  <2>5. healed[p] \in Entry \ {NoEntry} /\ healed[p].node # Dir
    BY <2>3, <2>4, NewEntry, NamespaceAssumption
  <2>6. healed \in Tree /\ IsFile(healed, p)
    BY <1>2, <2>5 DEF Tree, IsFile
  <2>7. p \notin tainted => healed[p] = t[p]
    BY <1>2, <2>2, <2>3, <2>4
  <2> HIDE DEF healed, t, p
  <2> QED
    BY <1>4, <1>6, <2>4, <2>6, <2>7
<1> QED
  BY <1>1, <1>3, <1>5, <1>6

\* unlink and rmdir: what is taken away had nothing below it.
LEMMA RemoveKeeps ==
    ASSUME Inv, op.pc = "request", op.kind \in {"unlink", "rmdir"},
           \A q \in Path : Under(op.path, q) /\ op.path # q => tree[op.serv][q] = NoEntry,
           op.kind = "rmdir" => tree[op.serv][op.path].node = Dir,
           Done(Put(tree[op.serv], op.path, NoEntry)),
           UNCHANGED <<faults, shown>>,
           IF op.kind = "unlink" /\ Finished /\ cache.path = op.path
           THEN Forgotten ELSE UNCHANGED <<cache, excused>>
    PROVE  Inv'
<1> DEFINE t == tree[op.serv]
           u == Put(t, op.path, NoEntry)
<1>1. /\ op.path \in Path /\ op.serv \in Server /\ t \in Tree /\ WellFormed(t)
      /\ \A r \in Path \ tainted : t[r] = shown[r]
      /\ excused \in BOOLEAN /\ Result = Removed(shown, op.path)
      /\ Unsure = tainted \ Subtree(op.path)
      /\ op.serv = 1 /\ cache # EmptyCache /\ ~excused =>
            IsFile(t, cache.path) /\ cache.path \in Path
  BY RequestFacts, ResultFacts DEF Unsure, Healed
<1>2. u \in Tree /\ WellFormed(u)
  BY <1>1, PutNothing
<1>3. \A r \in Path : u[r] = IF r = op.path THEN NoEntry ELSE t[r]
  BY <1>1 DEF Put, Tree
<1>4. Done(u)
  OBVIOUS
<1>5. \A r \in Path \ Unsure : u[r] = Result[r]
  <2> TAKE r \in Path \ Unsure
  <2>1. CASE Under(op.path, r)
    BY <1>1, <1>3, <2>1 DEF Removed
  <2>2. CASE ~Under(op.path, r)
    <3>1. r \notin tainted /\ r # op.path
      BY <1>1, <2>2, PathFacts, UnderOrder DEF Subtree
    <3> QED
      BY <1>1, <1>3, <2>2, <3>1 DEF Removed
  <2> QED
    BY <2>1, <2>2
<1>6. op.serv = 1 /\ cache' # EmptyCache /\ ~excused' =>
         IsFile(u, cache.path) /\ u[cache.path] = tree[1][cache.path]
  <2> SUFFICES ASSUME op.serv = 1, cache' # EmptyCache, ~excused'
               PROVE  IsFile(u, cache.path) /\ u[cache.path] = t[cache.path]
    OBVIOUS
  <2>0. ~(op.kind = "unlink" /\ Finished /\ cache.path = op.path)
    BY DEF Forgotten
  <2>1. cache # EmptyCache /\ IsFile(t, cache.path) /\ cache.path \in Path
    BY <1>1, <2>0
  <2>2. cache.path # op.path
    <3>1. CASE op.kind = "unlink"
      <4>1. Finished
        BY <3>1 DEF Finished, Last, Descending
      <4> QED
        BY <2>0, <3>1, <4>1
    <3>2. CASE op.kind = "rmdir"
      BY <2>1, <3>2 DEF IsFile
    <3> QED
      BY <3>1, <3>2
  <2> QED
    BY <1>3, <2>1, <2>2 DEF IsFile
<1> HIDE DEF t, u
<1>7. TreeInv'
  BY <1>2, <1>4, <1>5, DoneKeeps DEF Inv
<1>8. CacheInv'
  <2>1. Kept \/ Forgotten
    BY <1>1 DEF Kept
  <2>2. op.kind # "rename"
    OBVIOUS
  <2>3. op.serv = 1 /\ cache' # EmptyCache /\ ~excused' =>
           /\ IsFile(u, cache.path)
           /\ cache.path \notin tainted => u[cache.path].node = tree[1][cache.path].node
    BY <1>6
  <2> QED
    BY ONLY Inv, op.pc = "request", <1>2, <1>4, <1>5, <2>1, <2>2, <2>3, DoneKeepsCache
<1> QED
  BY <1>7, <1>8 DEF Inv

\* unlink
LEMMA UnlinkInv ==
    ASSUME Inv, UnlinkRpc
    PROVE  Inv'
<1> DEFINE t == tree[op.serv]
           allowed == CanUnlink(t, op.path)
<1>1. /\ op.pc = "request" /\ op.kind = "unlink" /\ UNCHANGED shown
      /\ \/ allowed /\ Done(Put(t, op.path, NoEntry)) /\ UNCHANGED faults
         \/ Refused(allowed)
      /\ UnlinkForgets
  BY DEF UnlinkRpc, Requested
<1>2. t \in Tree /\ WellFormed(t) /\ op.path \in Path /\ excused \in BOOLEAN /\ op \in Op
  BY <1>1, RequestFacts
<1>3. CASE Refused(allowed)
  <2> HIDE DEF allowed
  <2>1. ~op'.ok
    BY <1>2, <1>3 DEF Refused, Failed, Return, Op
  <2>2. UNCHANGED <<cache, excused>>
    BY <1>1, <2>1 DEF UnlinkForgets
  <2> QED
    BY <1>1, <1>2, <1>3, <2>2, RefusedKeeps
<1>4. CASE allowed /\ Done(Put(t, op.path, NoEntry)) /\ UNCHANGED faults
  <2>1. \A q \in Path : Under(op.path, q) /\ op.path # q => t[q] = NoEntry
    BY <1>2, <1>4, NothingBelow DEF CanUnlink, IsFile
  <2>2. op'.pc = "return" /\ op'.ok <=> Finished
    <3>1. CASE Finished
      BY <1>2, <1>4, <3>1 DEF Done, Return, Op
    <3>2. CASE ~Finished
      BY <1>1, <1>2, <1>4, <3>2 DEF Done, Op
    <3> QED
      BY <3>1, <3>2
  <2>3. IF op.kind = "unlink" /\ Finished /\ cache.path = op.path
        THEN Forgotten ELSE UNCHANGED <<cache, excused>>
    <3>1. ASSUME NEW left \in SUBSET cache.files
          PROVE  /\ [cache EXCEPT !.files = left] \in Cached
                 /\ [cache EXCEPT !.files = left].path = cache.path
      BY DEF Inv, CacheInv, Cached
    <3> QED
      BY <1>1, <1>2, <2>2, <3>1 DEF UnlinkForgets, Forgotten
  <2> QED
    BY <1>1, <1>4, <2>1, <2>3, RemoveKeeps
<1> QED
  BY <1>1, <1>3, <1>4

\* rmdir
LEMMA RmdirInv ==
    ASSUME Inv, RmdirRpc
    PROVE  Inv'
<1> DEFINE t == tree[op.serv]
           allowed == CanRmdir(t, op.path)
<1>1. /\ op.pc = "request" /\ op.kind = "rmdir" /\ UNCHANGED <<cache, shown, excused>>
      /\ \/ allowed /\ Done(Put(t, op.path, NoEntry)) /\ UNCHANGED faults
         \/ Refused(allowed)
  BY DEF RmdirRpc, Requested
<1>2. op.path \in Path /\ excused \in BOOLEAN
  BY <1>1, RequestFacts
<1>3. CASE Refused(allowed)
  <2> HIDE DEF allowed
  <2> QED
    BY <1>1, <1>2, <1>3, RefusedKeeps
<1>4. CASE allowed /\ Done(Put(t, op.path, NoEntry)) /\ UNCHANGED faults
  <2>1. /\ \A q \in Path : Under(op.path, q) /\ op.path # q => t[q] = NoEntry
        /\ t[op.path].node = Dir
    BY <1>2, <1>4, NamespaceAssumption DEF CanRmdir, IsEmpty, IsDir, Subtree
  <2> QED
    BY <1>1, <1>4, <2>1, RemoveKeeps
<1> QED
  BY <1>1, <1>3, <1>4

\* mkdir
LEMMA MkdirInv ==
    ASSUME Inv, MkdirRpc
    PROVE  Inv'
<1> DEFINE t == tree[op.serv]
           e == [node |-> Dir, mode |-> op.mode]
           u == Put(t, op.path, e)
           allowed == CanMkdir(t, op.path)
<1>1. /\ op.pc = "request" /\ op.kind = "mkdir" /\ UNCHANGED <<cache, shown, excused>>
      /\ \/ allowed /\ Done(u) /\ UNCHANGED faults
         \/ Refused(allowed)
  BY DEF MkdirRpc, Requested
<1>2. /\ op.path \in Path /\ op.serv \in Server /\ t \in Tree /\ WellFormed(t)
      /\ op.mode \in Mode /\ excused \in BOOLEAN
      /\ \A r \in Path \ tainted : t[r] = shown[r]
      /\ Unsure = tainted \ Subtree(op.path)
      /\ Result = Put(Removed(shown, op.path), op.path, e)
      /\ op.serv = 1 /\ cache # EmptyCache /\ ~excused =>
            IsFile(t, cache.path) /\ cache.path \in Path
  BY <1>1, RequestFacts, ResultFacts DEF Unsure, Healed
<1>3. CASE Refused(allowed)
  <2> HIDE DEF allowed
  <2> QED
    BY <1>1, <1>2, <1>3, RefusedKeeps
<1>4. CASE allowed /\ Done(u) /\ UNCHANGED faults
  <2>1. t[op.path] = NoEntry /\ IsDir(t, Parent(op.path)) /\ e \in Entry /\ e # NoEntry
    BY <1>2, <1>4, NewEntry DEF CanMkdir
  <2>2. u \in Tree /\ WellFormed(u)
    BY <1>2, <2>1, PutNew
  <2>3. \A r \in Path : u[r] = IF r = op.path THEN e ELSE t[r]
    BY <1>2 DEF Put, Tree
  <2>4. \A r \in Path : Under(op.path, r) /\ r # op.path => t[r] = NoEntry
    BY <1>2, <2>1, NothingBelow
  <2>5. \A r \in Path \ Unsure : u[r] = Result[r]
    <3> TAKE r \in Path \ Unsure
    <3>1. Result[r] = IF r = op.path THEN e ELSE IF Under(op.path, r) THEN NoEntry ELSE shown[r]
      BY <1>2 DEF Put, Removed
    <3>2. ~Under(op.path, r) => r \notin tainted
      BY <1>2 DEF Subtree
    <3> QED
      BY <1>2, <2>3, <2>4, <3>1, <3>2
  <2>6. op.serv = 1 /\ cache # EmptyCache /\ ~excused =>
           IsFile(u, cache.path) /\ u[cache.path] = tree[1][cache.path]
    BY <1>2, <2>1, <2>3 DEF IsFile
  <2> HIDE DEF t, u, e
  <2>7. TreeInv'
    BY <1>1, <1>4, <2>2, <2>5, DoneKeeps DEF Inv
  <2>8. CacheInv'
    BY <1>1, <1>2, <1>4, <2>2, <2>5, <2>6, DoneKeepsCache DEF Kept
  <2> QED
    BY <2>7, <2>8 DEF Inv
<1> QED
  BY <1>1, <1>3, <1>4

\* chmod
LEMMA ChmodInv ==
    ASSUME Inv, ChmodRpc
    PROVE  Inv'
<1> DEFINE t == tree[op.serv]
           p == op.path
           u == [t EXCEPT ![p].mode = op.mode]
           allowed == CanChmod(t, p)
<1>1. /\ op.pc = "request" /\ op.kind = "chmod" /\ UNCHANGED <<cache, shown, excused>>
      /\ \/ allowed /\ Done(u) /\ UNCHANGED faults
         \/ Refused(allowed)
  BY DEF ChmodRpc, Requested
<1>2. /\ p \in Path /\ op.serv \in Server /\ t \in Tree /\ WellFormed(t)
      /\ op.mode \in Mode /\ excused \in BOOLEAN /\ shown \in Tree /\ shown[p] # NoEntry
      /\ \A r \in Path \ tainted : t[r] = shown[r]
      /\ Unsure = tainted /\ Result = [shown EXCEPT ![p].mode = op.mode]
      /\ op.serv = 1 /\ cache # EmptyCache /\ ~excused =>
            IsFile(t, cache.path) /\ cache.path \in Path
  BY <1>1, RequestFacts, ResultFacts DEF Unsure, Healed, Called
<1>3. CASE Refused(allowed)
  <2> HIDE DEF allowed
  <2> QED
    BY <1>1, <1>2, <1>3, RefusedKeeps
<1>4. CASE allowed /\ Done(u) /\ UNCHANGED faults
  <2>1. t[p] # NoEntry /\ t[p].node \in File \cup {Dir} /\ t[p] = [node |-> t[p].node, mode |-> t[p].mode]
    BY <1>2, <1>4, EntryFacts DEF CanChmod
  <2>2. /\ u[p] = [node |-> t[p].node, mode |-> op.mode]
        /\ \A r \in Path \ {p} : u[r] = t[r]
    BY <1>2, <2>1 DEF Tree
  <2>3. u[p] \in Entry \ {NoEntry}
    BY <1>2, <2>1, <2>2, NewEntry
  <2>4. u \in Tree
    BY <1>2, <2>3 DEF Tree
  <2>5. WellFormed(u)
    <3>1. \A r \in Path : /\ u[r] = NoEntry <=> t[r] = NoEntry
                          /\ u[r] # NoEntry => (u[r].node = Dir <=> t[r].node = Dir)
      BY <2>1, <2>2, <2>3
    <3> QED
      BY <1>2, <2>4, <3>1, SameKind
  <2>6. \A r \in Path \ Unsure : u[r] = Result[r]
    <3> TAKE r \in Path \ Unsure
    <3>1. t[r] = shown[r]
      BY <1>2
    <3>2. CASE r = p
      BY <1>2, <3>1, <3>2 DEF Tree
    <3>3. CASE r # p
      BY <1>2, <2>2, <3>1, <3>3 DEF Tree
    <3> QED
      BY <3>2, <3>3
  <2>7. op.serv = 1 /\ cache # EmptyCache /\ ~excused =>
           IsFile(u, cache.path) /\ u[cache.path].node = tree[1][cache.path].node
    <3> SUFFICES ASSUME op.serv = 1, cache # EmptyCache, ~excused
                 PROVE  IsFile(u, cache.path) /\ u[cache.path].node = t[cache.path].node
      OBVIOUS
    <3>1. IsFile(t, cache.path) /\ cache.path \in Path
      BY <1>2
    <3>2. u[p] # NoEntry /\ u[p].node = t[p].node
      BY <2>2, <2>3
    <3> HIDE DEF u, t
    <3> QED
      BY <2>2, <3>1, <3>2 DEF IsFile
  <2> HIDE DEF t, u, p
  <2>8. TreeInv'
    BY <1>1, <1>4, <2>4, <2>5, <2>6, DoneKeeps DEF Inv
  <2>9. CacheInv'
    BY <1>1, <1>2, <1>4, <2>4, <2>6, <2>7, DoneKeepsCache DEF Kept
  <2> QED
    BY <2>8, <2>9 DEF Inv
<1> QED
  BY <1>1, <1>3, <1>4

\* rename
LEMMA RenameInv ==
    ASSUME Inv, RenameRpc
    PROVE  Inv'
<1> DEFINE t == tree[op.serv]
           p == op.path
           q == op.to
           u == Renamed(t, p, q)
           allowed == CanRename(t, p, q)
<1>1. /\ op.pc = "request" /\ op.kind = "rename" /\ UNCHANGED <<cache, shown>>
      /\ excused' = (excused \/ cache.path \in Touched(op))
      /\ \/ allowed /\ Done(u) /\ UNCHANGED faults
         \/ Refused(allowed)
  BY DEF RenameRpc, Requested
<1>2. /\ p \in Path /\ q \in Path /\ op.serv \in Server /\ t \in Tree /\ WellFormed(t)
      /\ shown \in Tree /\ op \in Op
      /\ ~Under(p, q) /\ ~Under(q, p)
      /\ \A r \in Path \ tainted : t[r] = shown[r]
      /\ Result = Renamed(shown, p, q)
      /\ op.serv = 1 /\ cache # EmptyCache /\ ~excused =>
            IsFile(t, cache.path) /\ cache.path \in Path
  BY <1>1, RequestFacts, ResultFacts DEF Called, Op
<1>3. /\ Touched(op) = Subtree(p) \cup Subtree(q)
      /\ Unsure = (tainted \ Touched(op))
                  \cup {r \in Subtree(q) : Origin(p, q, r) \in tainted}
  BY <1>1, <1>2, NamespaceAssumption DEF Touched, Unsure, Healed, Carried
<1>4. excused' \in BOOLEAN /\ (excused => excused') /\ (cache.path \in Touched(op) => excused')
  BY <1>1
<1>5. CASE Refused(allowed)
  <2> HIDE DEF allowed
  <2> QED
    BY <1>1, <1>4, <1>5, RefusedKeeps
<1>6. CASE allowed /\ Done(u) /\ UNCHANGED faults
  <2>1. u \in Tree /\ WellFormed(u)
    BY <1>2, <1>6, RenamedFacts, RenamedWellFormed
  <2>2. \A r \in Path :
          /\ u[r] = IF Under(q, r)
                    THEN IF Origin(p, q, r) \in Path THEN t[Origin(p, q, r)] ELSE NoEntry
                    ELSE IF Under(p, r) THEN NoEntry ELSE t[r]
          /\ Result[r] = IF Under(q, r)
                         THEN IF Origin(p, q, r) \in Path THEN shown[Origin(p, q, r)]
                              ELSE NoEntry
                         ELSE IF Under(p, r) THEN NoEntry ELSE shown[r]
    BY <1>2, RenamedFacts
  <2>3. \A r \in Path \ Unsure : u[r] = Result[r]
    <3> TAKE r \in Path \ Unsure
    <3>1. CASE Under(q, r) /\ Origin(p, q, r) \in Path
      <4>1. Origin(p, q, r) \notin tainted
        BY <1>3, <3>1 DEF Subtree
      <4> QED
        BY <1>2, <2>2, <3>1, <4>1
    <3>2. CASE ~Under(q, r) /\ ~Under(p, r)
      <4>1. r \notin tainted
        BY <1>3, <3>2 DEF Subtree
      <4> QED
        BY <1>2, <2>2, <3>2, <4>1
    <3>3. CASE (Under(q, r) /\ Origin(p, q, r) \notin Path) \/ (~Under(q, r) /\ Under(p, r))
      BY <2>2, <3>3
    <3> QED
      BY <3>1, <3>2, <3>3
  <2>4. op.serv = 1 /\ cache # EmptyCache /\ ~excused' =>
           IsFile(u, cache.path) /\ u[cache.path] = tree[1][cache.path]
    <3> SUFFICES ASSUME op.serv = 1, cache # EmptyCache, ~excused'
                 PROVE  IsFile(u, cache.path) /\ u[cache.path] = t[cache.path]
      OBVIOUS
    <3>1. IsFile(t, cache.path) /\ cache.path \in Path /\ cache.path \notin Touched(op)
      BY <1>2, <1>4
    <3>2. u[cache.path] = t[cache.path]
      BY <1>3, <2>2, <3>1 DEF Subtree
    <3> QED
      BY <3>1, <3>2 DEF IsFile
  <2> HIDE DEF t, u, p, q
  <2>5. TreeInv'
    BY <1>1, <1>6, <2>1, <2>3, DoneKeeps DEF Inv
  <2>6. CacheInv'
    BY <1>1, <1>4, <1>6, <2>1, <2>3, <2>4, DoneKeepsCache DEF Kept
  <2> QED
    BY <2>5, <2>6 DEF Inv
<1> QED
  BY <1>1, <1>5, <1>6

-----------------------------------------------------------------------------
(***************************************************************************)
(* The rest of the steps.                                                  *)
(***************************************************************************)
\* The parts of the invariant that do not look at op's place in the loop.
LEMMA NoRequest ==
    ASSUME Inv, op.pc # "request", op' \in Op, op'.pc # "request",
           op'.pc = "return" => op'.ok,
           UNCHANGED <<tree, faults, tainted>>, shown' \in Tree
    PROVE  TreeInv'
BY DEF Inv, TreeInv, InRequest, Agreement, FailedFileCallInvisible

\* The handler's locals when no call is in progress.
LEMMA IdleIsOp == Idle \in Op /\ Down \in Op
<1>1. 1 \in Server /\ Idle.mode \in Mode
  BY ServerFacts, NewEntry
<1> QED
  BY <1>1 DEF Idle, Down, Op, PC, Kind

\* A call begins at a server nobody has asked, with the trees in agreement.
LEMMA BeginInv ==
    ASSUME Inv, op = Idle, NEW o \in Op, Begin(o),
           o.path \in Path,
           o.kind = "create" => tree[1][o.path] = NoEntry /\ o.file \in File,
           o.kind = "chmod" => tree[1][o.path] # NoEntry,
           o.kind = "rename" <=> o.to # NoPath,
           o.kind = "rename" => ~Under(o.path, o.to) /\ ~Under(o.to, o.path)
    PROVE  Inv'
<1>1. /\ op = Idle /\ op.pc = "idle" /\ shown' = tree[1]
      /\ op' = [o EXCEPT !.pc = "request", !.serv = First(o.kind)]
      /\ UNCHANGED <<tree, cache, faults, tainted, excused>>
  BY DEF Begin, Idle
<1>2. o.kind \in Kind /\ First(o.kind) \in Server
  BY ServerFacts DEF Op
<1>3. /\ op' \in Op /\ op'.pc = "request" /\ op'.serv = First(o.kind)
      /\ op'.kind = o.kind /\ op'.path = o.path /\ op'.to = o.to /\ op'.file = o.file
  BY <1>1, <1>2 DEF Op, PC
<1>4. \A s \in Server : ~Past(s)'
  BY <1>2, <1>3, NamespaceAssumption DEF Past, First, Server
<1>5. \A s \in Server, r \in Path \ tainted : tree[s][r] = tree[1][r]
  BY <1>1 DEF Inv, TreeInv, Agreement
<1>6. Called'
  BY <1>1, <1>3, <1>4 DEF Called
<1>7. Answered'
  BY <1>1, <1>4, <1>5 DEF Answered
<1>8. shown' \in Tree /\ tree'[1] = shown'
  BY <1>1, ServerFacts DEF Inv, TreeInv
<1>9. TreeInv'
  BY <1>1, <1>3, <1>6, <1>7, <1>8
  DEF Inv, TreeInv, InRequest, Agreement, FailedFileCallInvisible
<1>10. CacheInv'
  BY <1>1 DEF Inv, CacheInv, EmptyCache
<1> QED
  BY <1>9, <1>10 DEF Inv

\* The calls.
LEMMA CallInv ==
    ASSUME Inv, Call
    PROVE  Inv'
<1> USE IdleIsOp
<1>1. ASSUME NEW p \in Path, NEW f \in File, NEW excl \in BOOLEAN, CallCreate(p, f, excl)
      PROVE  Inv'
  <2> DEFINE o == [Idle EXCEPT !.kind = "create", !.path = p, !.file = f, !.excl = excl]
  <2>1. /\ o \in Op /\ o.path = p /\ o.kind = "create" /\ o.to = NoPath /\ o.file = f
    BY DEF Op, Kind, Idle
  <2>2. op = Idle /\ Begin(o) /\ tree[1][p] = NoEntry
    BY <1>1 DEF CallCreate, Free, Lookup
  <2> HIDE DEF o
  <2> QED
    BY <2>1, <2>2, BeginInv
<1>2. ASSUME NEW p \in Path, CallOpen(p) PROVE Inv'
  <2> DEFINE o == [Idle EXCEPT !.kind = "open", !.path = p]
  <2>1. o \in Op /\ o.path = p /\ o.kind = "open" /\ o.to = NoPath
    BY DEF Op, Kind, Idle
  <2>2. op = Idle /\ Begin(o)
    BY <1>2 DEF CallOpen
  <2> HIDE DEF o
  <2> QED
    BY <2>1, <2>2, BeginInv
<1>3. ASSUME NEW p \in Path, CallUnlink(p) PROVE Inv'
  <2> DEFINE o == [Idle EXCEPT !.kind = "unlink", !.path = p]
  <2>1. o \in Op /\ o.path = p /\ o.kind = "unlink" /\ o.to = NoPath
    BY DEF Op, Kind, Idle
  <2>2. op = Idle /\ Begin(o)
    BY <1>3 DEF CallUnlink
  <2> HIDE DEF o
  <2> QED
    BY <2>1, <2>2, BeginInv
<1>4. ASSUME NEW p \in Path, CallRmdir(p) PROVE Inv'
  <2> DEFINE o == [Idle EXCEPT !.kind = "rmdir", !.path = p]
  <2>1. o \in Op /\ o.path = p /\ o.kind = "rmdir" /\ o.to = NoPath
    BY DEF Op, Kind, Idle
  <2>2. op = Idle /\ Begin(o)
    BY <1>4 DEF CallRmdir
  <2> HIDE DEF o
  <2> QED
    BY <2>1, <2>2, BeginInv
<1>5. ASSUME NEW p \in Path, NEW m \in Mode, CallMkdir(p, m) PROVE Inv'
  <2> DEFINE o == [Idle EXCEPT !.kind = "mkdir", !.path = p, !.mode = m]
  <2>1. o \in Op /\ o.path = p /\ o.kind = "mkdir" /\ o.to = NoPath
    BY DEF Op, Kind, Idle
  <2>2. op = Idle /\ Begin(o)
    BY <1>5 DEF CallMkdir
  <2> HIDE DEF o
  <2> QED
    BY <2>1, <2>2, BeginInv
<1>6. ASSUME NEW p \in Path, NEW m \in Mode, CallChmod(p, m) PROVE Inv'
  <2> DEFINE o == [Idle EXCEPT !.kind = "chmod", !.path = p, !.mode = m]
  <2>1. o \in Op /\ o.path = p /\ o.kind = "chmod" /\ o.to = NoPath
    BY DEF Op, Kind, Idle
  <2>2. op = Idle /\ Begin(o) /\ tree[1][p] # NoEntry
    BY <1>6 DEF CallChmod, Lookup
  <2> HIDE DEF o
  <2> QED
    BY <2>1, <2>2, BeginInv
<1>7. ASSUME NEW p \in Path, NEW q \in Path, CallRename(p, q) PROVE Inv'
  <2> DEFINE o == [Idle EXCEPT !.kind = "rename", !.path = p, !.to = q]
  <2>1. o \in Op /\ o.path = p /\ o.kind = "rename" /\ o.to = q /\ q # NoPath
    BY NamespaceAssumption DEF Op, Kind, Idle
  <2>2. op = Idle /\ Begin(o) /\ ~Under(p, q) /\ ~Under(q, p)
    BY <1>7 DEF CallRename
  <2> HIDE DEF o
  <2> QED
    BY <2>1, <2>2, BeginInv
<1>8. ASSUME NEW p \in Path, Read(p) PROVE Inv'
  <2>1. /\ IsFile(tree[1], p)
        /\ IF cache.path = p
           THEN cache' = [cache EXCEPT !.files = @ \cup {tree[1][p].node}] /\ UNCHANGED excused
           ELSE cache' = [path |-> p, files |-> {tree[1][p].node}] /\ excused' = FALSE
        /\ UNCHANGED <<tree, op, faults, shown, tainted>>
    BY <1>8 DEF Read
  <2>2. tree[1] \in Tree
    BY ServerFacts DEF Inv, TreeInv
  <2>3. tree[1][p].node \in File
    BY <2>1, <2>2, EntryFacts DEF IsFile
  <2>4. CacheInv'
    <3> DEFINE n == tree[1][p].node
    <3>1. cache \in Cached /\ excused \in BOOLEAN
      BY DEF Inv, CacheInv
    <3>2. cache' \in Cached /\ excused' \in BOOLEAN /\ cache'.path = p
      <4>1. [cache EXCEPT !.files = @ \cup {n}] \in Cached
        BY <2>3, <3>1 DEF Cached
      <4>2. [cache EXCEPT !.files = @ \cup {n}].path = cache.path
        BY <3>1 DEF Cached
      <4>3. [path |-> p, files |-> {n}] \in Cached
        BY <2>3 DEF Cached
      <4>5. CASE cache.path = p
        <5>1. cache' = [cache EXCEPT !.files = @ \cup {n}] /\ excused' = excused
          BY <2>1, <4>5
        <5> QED
          BY ONLY <3>1, <4>1, <4>2, <4>5, <5>1
      <4>6. CASE cache.path # p
        <5>1. cache' = [path |-> p, files |-> {n}] /\ excused' = FALSE
          BY <2>1, <4>6
        <5> QED
          BY <4>3, <5>1
      <4> QED
        BY <4>5, <4>6
    <3>3. ~excused' /\ p \notin tainted => cache'.files = {n}
      <4>1. CASE cache.path = p
        <5>1. cache # EmptyCache
          BY <4>1, NamespaceAssumption DEF EmptyCache
        <5>2. ~excused' /\ p \notin tainted => cache.files = {n}
          BY <2>1, <4>1, <5>1 DEF Inv, CacheInv
        <5>3. cache'.files = cache.files \cup {n}
          BY <2>1, <3>1, <4>1 DEF Cached
        <5> QED
          BY <5>2, <5>3
      <4>2. CASE cache.path # p
        BY <2>1, <4>2
      <4> QED
        BY <4>1, <4>2
    <3> QED
      BY <2>1, <3>2, <3>3 DEF CacheInv
  <2>5. op = Idle
    BY <1>8 DEF Read
  <2>6. TreeInv'
    BY <2>1, <2>5, NoRequest DEF Inv, TreeInv, Idle
  <2> QED
    BY <2>4, <2>6 DEF Inv
<1> QED
  BY <1>1, <1>2, <1>3, <1>4, <1>5, <1>6, <1>7, <1>8 DEF Call

\* The call's result goes to FUSE.
LEMMA ReturnedInv ==
    ASSUME Inv, Returned
    PROVE  Inv'
<1>1. /\ op.pc = "return" /\ op' = Idle /\ shown' = tree[1]
      /\ UNCHANGED <<tree, cache, faults, tainted, excused>>
  BY DEF Returned
<1>2. tree[1] \in Tree /\ Idle.pc = "idle"
  BY ServerFacts DEF Inv, TreeInv, Idle
<1>3. TreeInv'
  BY <1>1, <1>2, IdleIsOp, NoRequest
<1>4. CacheInv'
  BY <1>1 DEF Inv, CacheInv, EmptyCache
<1> QED
  BY <1>3, <1>4 DEF Inv

\* The mount's process dies.
LEMMA ClientCrashInv ==
    ASSUME Inv, ClientCrash
    PROVE  Inv'
<1>1. /\ op' = Down /\ Down.pc = "down" /\ shown' = tree[1] /\ UNCHANGED tree
      /\ tainted' = IF op.pc = "request" /\ op.serv # First(op.kind)
                    THEN tainted \cup Touched(op) ELSE tainted
      /\ cache' = EmptyCache /\ excused' = FALSE
  BY DEF ClientCrash, Down, Idle
<1>2. faults' \in 0 .. MaxFaults
  BY NamespaceAssumption DEF ClientCrash, Inject, Inv, TreeInv
<1>3. tree[1] \in Tree /\ tainted \subseteq Path /\ op \in Op
  BY ServerFacts DEF Inv, TreeInv
<1>4. tainted' \subseteq Path /\ \A s \in Server, r \in Path \ tainted' : tree[s][r] = tree[1][r]
  <2>1. CASE op.pc # "request"
    BY <1>1, <1>3, <2>1 DEF Inv, TreeInv, Agreement
  <2>2. CASE op.pc = "request"
    <3>1. Called /\ Answered /\ shown \in Tree
      BY <2>2 DEF Inv, TreeInv, InRequest
    <3>2. CASE op.serv = First(op.kind)
      BY <1>1, <1>3, <3>1, <3>2, PastFacts, ServerFacts DEF Answered
    <3>3. CASE op.serv # First(op.kind)
      <4>1. tainted' = tainted \cup Touched(op)
        BY <1>1, <2>2, <3>3
      <4>2. \A s \in Server, r \in Path \ tainted' : tree[s][r] = shown[r]
        BY <1>3, <3>1, <4>1, TouchedFacts DEF Answered
      <4> QED
        BY <1>3, <3>1, <4>1, <4>2, TouchedFacts, ServerFacts
    <3> QED
      BY <3>2, <3>3
  <2> QED
    BY <2>1, <2>2
<1>5. TreeInv'
  BY <1>1, <1>2, <1>3, <1>4, IdleIsOp
  DEF Inv, TreeInv, InRequest, Agreement, FailedFileCallInvisible
<1>6. CacheInv'
  BY <1>1 DEF CacheInv, EmptyCache, Cached
<1> QED
  BY <1>5, <1>6 DEF Inv

\* The disk is mounted again.
LEMMA RemountInv ==
    ASSUME Inv, Remount
    PROVE  Inv'
<1>1. op.pc = "down" /\ op' = Idle /\ UNCHANGED <<tree, cache, faults, shown, tainted, excused>>
  BY DEF Remount
<1>2. TreeInv'
  BY <1>1, IdleIsOp, NoRequest DEF Inv, TreeInv, Idle
<1>3. CacheInv'
  BY <1>1 DEF Inv, CacheInv, EmptyCache
<1> QED
  BY <1>2, <1>3 DEF Inv

\* Before the first call.
LEMMA InitInv == Init => Inv
<1> SUFFICES ASSUME Init PROVE Inv
  OBVIOUS
<1> USE DEF Init
<1>1. EmptyTree \in Tree /\ WellFormed(EmptyTree)
  BY DEF EmptyTree, Tree, WellFormed
<1>2. op.pc = "idle" /\ op \in Op
  BY IdleIsOp DEF Idle
<1>3. Agreement
  BY ServerFacts DEF Agreement
<1>4. TreeInv
  BY <1>1, <1>2, <1>3, NamespaceAssumption
  DEF TreeInv, InRequest, FailedFileCallInvisible
<1>5. CacheInv
  BY DEF CacheInv, EmptyCache, Cached
<1> QED
  BY <1>4, <1>5 DEF Inv

\* Steps that change nothing.
LEMMA StutterInv ==
    ASSUME Inv, UNCHANGED vars
    PROVE  Inv'
<1>1. UNCHANGED <<tree, op, cache, faults, shown, tainted, excused>>
  BY DEF vars
<1>2. CacheInv'
  BY <1>1 DEF Inv, CacheInv, EmptyCache
<1>3. InRequest'
  BY <1>1
  DEF Inv, TreeInv, InRequest, Called, Answered, Past, Unsure, Healed, Carried, Touched,
      Result, Put, Removed, Renamed, Idle
<1>4. TreeInv'
  BY <1>1, <1>3 DEF Inv, TreeInv, Agreement, FailedFileCallInvisible
<1> QED
  BY <1>2, <1>4 DEF Inv

\* Every step.
LEMMA NextInv == Inv /\ [Next]_vars => Inv'
<1> SUFFICES ASSUME Inv, [Next]_vars PROVE Inv'
  OBVIOUS
<1>1. CASE Handler
  BY <1>1, CreateInv, OpenInv, UnlinkInv, MkdirInv, RmdirInv, ChmodInv, RenameInv, ReturnedInv
  DEF Handler
<1> QED
  BY <1>1, CallInv, ClientCrashInv, RemountInv, StutterInv DEF Next

\* Inv is an invariant of the mount and its servers.
THEOREM Invariance == Spec => []Inv
BY InitInv, NextInv, PTL DEF Spec

\* Type correctness.
THEOREM TypeCorrect == Spec => []TypeOK
<1>1. Inv => TypeOK
  BY DEF Inv, TreeInv, CacheInv, TypeOK
<1> QED
  BY <1>1, Invariance, PTL

\* The servers' trees differ only where a call was done by some servers and
\* not by others, and calls that succeed there heal them (the handlers of
\* mountRaid1.c that stop at the first failure and undo nothing).
THEOREM TreesAgree == Spec => []Agreement
<1>1. Inv => Agreement
  BY DEF Inv, TreeInv
<1> QED
  BY <1>1, Invariance, PTL

\* A create or an unlink that returns an error has changed nothing on server 1,
\* which getattr and readdir ask: it is the last one asked. (Not so for open,
\* and for the calls that go up.)
THEOREM FailureInvisible == Spec => []FailedFileCallInvisible
<1>1. Inv => FailedFileCallInvisible
  BY DEF Inv, TreeInv
<1> QED
  BY <1>1, Invariance, PTL

\* What the cache answers with is another file's only after a rename of the
\* path, after an unlink that met several chunks of it (deletePath leaves the
\* second linked), or at a path where the servers differ.
THEOREM StalenessCause == Spec => []StaleHasCause
<1>1. Inv => StaleHasCause
  BY DEF Inv, CacheInv, StaleHasCause
<1> QED
  BY <1>1, Invariance, PTL
=============================================================================
