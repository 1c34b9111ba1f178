------------------------------ MODULE ChunkCache ------------------------------
(***************************************************************************)
(* The client's chunk cache (utilz/utilz.c): a linked list of chunks, the  *)
(* count logLen of the bytes it is taken to hold, and the four operations  *)
(* on it, as r1_read and r1_unlink call them.                              *)
(*                                                                         *)
(* A node is freed while it is still linked when deletePath meets a second *)
(* match. Its fields keep their values (free() overwrites only the first   *)
(* two words), until a later walk follows its name pointer: from there on  *)
(* anything may happen, and the model stops.                               *)
(***************************************************************************)
EXTENDS Integers, Sequences, SequencesExt

CONSTANTS
    Path,       \* paths of files
    NameBytes,  \* strlen(path) + 1, the same for every path
    NodeBytes,  \* sizeof(struct cache_t)
    MaxLen,     \* maxLen, the configured size of the cache
    SizeMod,    \* 2^w for the w bits of size_t
    Offsets,    \* the offsets chunks are read at
    Sizes,      \* the sizes of the chunks a server returns
    MaxClock,   \* bound: the times the clock can show
    MaxLogLen   \* bound: the logLen no read goes on from

ASSUME CacheAssumption ==
    /\ NameBytes \in Nat \ {0} /\ NodeBytes \in Nat \ {0}
    /\ MaxLen \in Nat \ {0} /\ SizeMod \in Nat
    /\ Offsets \subseteq Nat /\ Sizes \subseteq 1 .. MaxLen
    /\ MaxClock \in Nat /\ MaxLogLen \in Nat
    /\ MaxLen <= MaxLogLen
    /\ SizeMod > 2 * (MaxLogLen + MaxLen + NodeBytes + NameBytes)

VARIABLES
    list,       \* the nodes, from cacheStart along next
    logLen,
    clock,      \* time(NULL)
    status      \* "ok", or the error that ended the process

vars == <<list, logLen, clock, status>>

Node == [name : Path, offset : Offsets, size : 0 .. MaxLen,
         lastUse : 0 .. MaxClock, freed : BOOLEAN]

TypeOK ==
    /\ list \in Seq(Node)
    /\ logLen \in 0 .. MaxLogLen + NodeBytes + NameBytes + MaxLen
    /\ clock \in 0 .. MaxClock
    /\ status \in {"ok", "useAfterFree", "nullPointer"}

Init == list = <<>> /\ logLen = 0 /\ clock = 0 /\ status = "ok"

Covers(node, p, o) ==
    /\ node.name = p
    /\ node.offset <= o /\ o < node.offset + node.size

SameKey(node, p, o) == node.name = p /\ node.offset = o

Bytes(node) == NodeBytes + NameBytes + node.size

\* The sum of a sequence of numbers
Total(w) ==
    LET sum[n \in 0 .. Len(w)] == IF n = 0 THEN 0 ELSE sum[n - 1] + w[n]
    IN  sum[Len(w)]

-----------------------------------------------------------------------------
\* checkInCache: the first node of the path whose chunk holds the offset, 0
\* for none. The walk follows the name of every node up to it.
CheckInCache(p, o) == SelectInSeq(list, LAMBDA n : Covers(n, p, o))
Walked(hit) == IF hit = 0 THEN DOMAIN list ELSE 1 .. hit

\* Variant with a bug: of several nodes entered in one second the last goes.
LeastLast(l) ==
    CHOOSE i \in DOMAIN l : \A j \in DOMAIN l :
        \/ l[i].lastUse < l[j].lastUse
        \/ l[i].lastUse = l[j].lastUse /\ j <= i

\* deleteLRUNode: the node with the smallest lastUse, the first of several.
Least(l) ==
    CHOOSE i \in DOMAIN l : \A j \in DOMAIN l :
        \/ l[i].lastUse < l[j].lastUse
        \/ l[i].lastUse = l[j].lastUse /\ i <= j

\* Variant with a bug: the node's size is subtracted from logLen twice.
DeleteLRUNodeTwice(c) ==
    IF c.list = <<>> THEN [c EXCEPT !.crashed = TRUE]
    ELSE LET i == Least(c.list) IN
         [c EXCEPT !.list = RemoveAt(@, i),
                   !.log = (@ - 2 * Bytes(c.list[i])) % SizeMod]

DeleteLRUNode(c) ==
    IF c.list = <<>> THEN [c EXCEPT !.crashed = TRUE]
    ELSE LET i == Least(c.list) IN
         [c EXCEPT !.list = RemoveAt(@, i),
                   !.log = (@ - Bytes(c.list[i])) % SizeMod]

\* addInCache's loop: nodes are deleted until size fits or logLen is 0. One
\* round per node and one more: the last finds no node, or has nothing to do.
Round(c, size) ==
    IF c.log + size > MaxLen /\ c.log > 0 /\ ~c.crashed THEN DeleteLRUNode(c) ELSE c

MakeRoom(size) ==
    LET after[n \in 0 .. Len(list) + 1] ==
            IF n = 0 THEN [list |-> list, log |-> logLen, crashed |-> FALSE]
            ELSE Round(after[n - 1], size)
    IN  after[Len(list) + 1]

\* Variant with a bug: the offset is not stored.
NewNodeUnplaced(p, size, o) ==
    [name |-> p, offset |-> 0, size |-> size, lastUse |-> clock,
     freed |-> FALSE]

NewNode(p, size, o) ==
    [name |-> p, offset |-> o, size |-> size, lastUse |-> clock,
     freed |-> FALSE]

\* Room for the chunk beside its header, computed in size_t
Room(log) == (MaxLen - log - (NodeBytes + NameBytes)) % SizeMod

\* Variant with a bug: the name's bytes are not counted.
AppendNodeUncounted(l, log, p, size, o, linked) ==
    IF size > Room(log)
    THEN /\ list' = <<NewNode(p, Room(log), o)>>
         /\ logLen' = MaxLen
    ELSE /\ list' = IF linked THEN Append(l, NewNode(p, size, o)) ELSE l
         /\ logLen' = log + NodeBytes + size

\* The node is built and linked. If its chunk must be cut it becomes the whole
\* list; if the tail it is to follow has been deleted, the link is written to
\* freed memory and the node is in no list.
AppendNode(l, log, p, size, o, linked) ==
    IF size > Room(log)
    THEN /\ list' = <<NewNode(p, Room(log), o)>>
         /\ logLen' = MaxLen
    ELSE /\ list' = IF linked THEN Append(l, NewNode(p, size, o)) ELSE l
         /\ logLen' = log + NodeBytes + NameBytes + size

AddInCache(p, size, o) ==
    IF list = <<>>
    THEN AppendNode(list, logLen, p, size, o, TRUE) /\ UNCHANGED status
    ELSE IF \E i \in DOMAIN list : SameKey(list[i], p, o)
    THEN UNCHANGED <<list, logLen, status>>
    ELSE LET c == MakeRoom(size)
             tailLinked == c.list # <<>> /\ Last(c.list) = Last(list)
         IN  IF c.crashed
             THEN status' = "nullPointer" /\ UNCHANGED <<list, logLen>>
             ELSE /\ AppendNode(c.list, c.log, p, size, o, tailLinked)
                  /\ UNCHANGED status

-----------------------------------------------------------------------------
\* r1_read of path p at offset o, where the server has size bytes.
Read(p, o, size) ==
    /\ status = "ok" /\ logLen <= MaxLogLen
    /\ LET hit == CheckInCache(p, o) IN
       IF \E i \in Walked(hit) : list[i].freed
       THEN status' = "useAfterFree" /\ UNCHANGED <<list, logLen>>
       ELSE IF hit # 0
       THEN UNCHANGED <<list, logLen, status>>
       ELSE AddInCache(p, size, o)
    /\ UNCHANGED clock

\* The list with the nodes of the path freed, and what each of them is taken to
\* have held
Marked(p) == [i \in DOMAIN list |-> [list[i] EXCEPT !.freed = list[i].name = p]]
Taken(p) == [i \in DOMAIN list |-> IF list[i].name = p THEN NameBytes + list[i].size ELSE 0]

\* Variant with a bug: the head of the list stays when others follow it.
DeletePathKeepsHead(p) ==
    /\ status = "ok"
    /\ LET first == SelectInSeq(list, LAMBDA n : n.name = p)
       IN  /\ list' = IF first = 0 THEN list
                      ELSE IF first = 1 /\ Len(list) > 1 THEN Marked(p)
                      ELSE RemoveAt(Marked(p), first)
           /\ logLen' = logLen - Total(Taken(p))
           /\ UNCHANGED status
    /\ UNCHANGED clock

\* deletePath, at the end of r1_unlink. It frees every node of the path but
\* unlinks the first only: from there on prev is the node it looks at.
\* logLen keeps the sizeof of each.
DeletePath(p) ==
    /\ status = "ok"
    /\ IF \E i \in DOMAIN list : list[i].freed
       THEN status' = "useAfterFree" /\ UNCHANGED <<list, logLen>>
       ELSE LET first == SelectInSeq(list, LAMBDA n : n.name = p)
            IN  /\ list' = IF first = 0 THEN list ELSE RemoveAt(Marked(p), first)
                /\ logLen' = logLen - Total(Taken(p))
                /\ UNCHANGED status
    /\ UNCHANGED clock

\* Time passes, or the machine's clock is set (README: ntpdate).
SetClock(t) ==
    /\ status = "ok" /\ t # clock
    /\ clock' = t
    /\ UNCHANGED <<list, logLen, status>>

Next ==
    \/ \E p \in Path, o \in Offsets, size \in Sizes : Read(p, o, size)
    \/ \E p \in Path : DeletePath(p)
    \/ \E t \in 0 .. MaxClock : SetClock(t)

Spec == Init /\ [][Next]_vars

-----------------------------------------------------------------------------
(***************************************************************************)
(* Properties.                                                             *)
(***************************************************************************)
Live == {i \in DOMAIN list : ~list[i].freed}

\* What each node of a list holds, a freed one nothing
Weights(l) == [i \in DOMAIN l |-> IF l[i].freed THEN 0 ELSE Bytes(l[i])]

\* The nodes in the list never hold more than logLen says: the subtraction in
\* deleteLRUNode and deletePath cannot wrap round, so the eviction loop sees
\* the cache at least as full as it is.
LogLenCoversList == Total(Weights(list)) <= logLen

\* No two nodes hold the same chunk, so a chunk that was forgotten is not
\* still answered from an older node.
NoDoubleEntry ==
    \A i, j \in Live : i # j => ~SameKey(list[i], list[j].name, list[j].offset)

\* Each node entered the cache no later than those behind it: so it is until
\* the clock is set back.
InOrder(l) ==
    \A j, k \in DOMAIN l : j <= k => l[j].lastUse <= l[k].lastUse

\* The chunk that a read brings is in the cache afterwards: making room for it
\* does not take the tail it is linked to while another node stays, as long as
\* the nodes are in the order they came in. (When every node has to go the new
\* one is linked to freed memory, and the list is empty.)
ReadIsKept ==
    [][\A p \in Path, o \in Offsets, size \in Sizes :
          Read(p, o, size) /\ InOrder(list) /\ status' = "ok" /\ list' # <<>> =>
              \E i \in DOMAIN list' :
                 Covers(list'[i], p, o) \/ SameKey(list'[i], p, o)]_vars

NodesOf(p) == {i \in DOMAIN list : list[i].name = p}

\* An unlinked file is forgotten, and only the unlink of a file with several
\* chunks in the cache leaves a freed node where a later search reads it.
UnlinkForgets ==
    [][\A p \in Path :
          DeletePath(p) /\ status' = "ok" /\ Cardinality(NodesOf(p)) <= 1 =>
              \A i \in DOMAIN list' : list'[i].name # p /\ ~list'[i].freed]_vars
=============================================================================
