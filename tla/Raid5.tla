-------------------------------- MODULE Raid5 --------------------------------
(***************************************************************************)
(* One file of a RAID-5 mount: r5_write, r5_read and r5_getattr of         *)
(* nrfs_mount/mountRaid5.c, with the servers' copies of the file. (How the *)
(* file comes to be on every server is module Namespace.)                  *)
(*                                                                         *)
(* A write is cut or padded to one stripe, the stripe into NServers - 1    *)
(* chunks; they and their parity go to the servers one after the other,    *)
(* all at the same offset. Covered: a system call that fails on a server,  *)
(* or a pwrite that writes less than it is given, and the client's death,  *)
(* between two requests or in the middle of one.                           *)
(* A unit stands for a run of bytes; xor is the symmetric difference of    *)
(* sets of bits.                                                           *)
(***************************************************************************)
EXTENDS Integers, Sequences, FiniteSets

CONSTANTS
    NServers,   \* servers, n_servers - 1 in the code
    PageSz,     \* units in 4096 bytes, the most FUSE passes to a write
    Bit,        \* the bits of a unit
    Junk,       \* what a unit of a buffer nobody filled holds
    Offset,     \* bound: the offsets of reads and writes
    Size,       \* bound: the sizes of writes
    Errno,      \* error numbers of failing system calls
    Faults,     \* the kinds of fault that may happen
    MaxFaults   \* bound: faults in one behaviour

Unit == SUBSET Bit
Zero == {}

ASSUME Raid5Assumption ==
    /\ NServers \in Nat /\ NServers >= 2
    /\ PageSz \in Nat /\ PageSz >= NServers - 1
    /\ IsFiniteSet(Bit)
    /\ Junk \notin Unit
    /\ Offset \subseteq Nat
    /\ Size \subseteq 1 .. PageSz
    /\ Errno \subseteq Nat \ {0}
    /\ Faults \subseteq {"ioError", "shortWrite", "clientCrash", "cutTransfer"}
    /\ MaxFaults \in Nat

VARIABLES
    disk,       \* disk[s]: what server s keeps of the file
    op,         \* the handler in progress and its local variables
    cache,      \* the chunk cache, with room for one node: which bytes it has
    faults,     \* faults so far
    torn,       \* history: units some servers got of a write and others did not
    written,    \* history: written[o]: the stripe last written at o, if it
                \* is still whole
    acked       \* history: end of the furthest write that lost nothing

vars == <<disk, op, cache, faults, torn, written, acked>>

Server == 1 .. NServers

\* (n_servers - 2) chunks of chunkSz5
K == NServers - 1
ChunkSz == PageSz \div K
StripeSz == K * ChunkSz

ChunkOfUnits == [1 .. ChunkSz -> Unit]
Stripe == [1 .. StripeSz -> Unit]
NoStripe == <<>>
NoNode == [off |-> 0, len |-> 0]

\* The units of a server's file that hold chunk data of a stripe at o, and all
Span(o) == o + 1 .. o + ChunkSz
Place == UNION {Span(o) : o \in Offset}

-----------------------------------------------------------------------------
(***************************************************************************)
(* Placement.                                                              *)
(***************************************************************************)
\* % of C: the remainder has the sign of the dividend
CMod(a, n) == IF a >= 0 THEN a % n ELSE 0 - ((0 - a) % n)

\* Variant with a bug: 0 does not stand for the last server.
NextServUnwrapped(s) == CMod(s + 1, NServers)

NextServ(s) == LET t == CMod(s + 1, NServers) IN IF t = 0 THEN NServers ELSE t

XorServ(o) == NServers - ((o \div StripeSz) % NServers)

Chunk(buf, j) == SubSeq(buf, j * ChunkSz + 1, (j + 1) * ChunkSz)

\* The bits set in an odd number of the values of f
Xor(f) == {b \in Bit : Cardinality({j \in DOMAIN f : b \in f[j]}) % 2 = 1}

\* Variant with a bug: the last chunk is left out.
ParityShort(buf) ==
    [k \in 1 .. ChunkSz |-> Xor([j \in 0 .. K - 2 |-> buf[j * ChunkSz + k]])]

Parity(buf) ==
    [k \in 1 .. ChunkSz |-> Xor([j \in 0 .. K - 1 |-> buf[j * ChunkSz + k]])]

\* pwrite of x at o into a file d; a hole reads as zeros
PwriteAt(d, o, x) ==
    LET end == o + Len(x) IN
    [k \in 1 .. (IF Len(d) > end THEN Len(d) ELSE end) |->
        IF o < k /\ k <= end THEN x[k - o] ELSE IF k <= Len(d) THEN d[k] ELSE Zero]

\* pread of one chunk at o: shorter, or empty, at the end of the file
PreadAt(d, o) == SubSeq(d, o + 1, IF Len(d) < o + ChunkSz THEN Len(d) ELSE o + ChunkSz)

UnitOf(d, k) == IF k <= Len(d) THEN d[k] ELSE Zero

-----------------------------------------------------------------------------
(***************************************************************************)
(* The handler's locals. serv, i: as in the loops; sum: resSum, then what  *)
(* r5_write returns; failed, lost: history, the requests that failed, and  *)
(* the units that pwrites which were too short did not write; got: what    *)
(* the read has put into buf; last: res.                                   *)
(***************************************************************************)
WriteOp == [pc : {"write", "wrote"}, off : Offset, buf : Stripe,
            real : 1 .. StripeSz, i : 0 .. NServers - 1, serv : Server,
            sum : Int, failed : 0 .. NServers, lost : Nat]

ReadOp == [pc : {"read", "reply"}, off : Offset, i : 0 .. NServers, start : Int,
           serv : Int, got : Seq(Unit \cup {Junk}), last : 0 .. ChunkSz]

Idle == [pc |-> "idle"]
Down == [pc |-> "down"]

TypeOK ==
    /\ disk \in [Server -> Seq(Unit)]
    /\ op \in WriteOp \cup ReadOp \cup {Idle, Down}
    /\ cache \in [off : Offset, len : 1 .. ChunkSz] \cup {NoNode}
    /\ faults \in 0 .. MaxFaults
    /\ torn \subseteq Place
    /\ written \in [Offset -> Stripe \cup {NoStripe}]
    /\ acked \in Nat

Init ==
    /\ disk = [s \in Server |-> <<>>]
    /\ op = Idle
    /\ cache = NoNode
    /\ faults = 0
    /\ torn = {}
    /\ written = [o \in Offset |-> NoStripe]
    /\ acked = 0

Inject(kind) ==
    /\ kind \in Faults
    /\ faults < MaxFaults
    /\ faults' = faults + 1

-----------------------------------------------------------------------------
(***************************************************************************)
(* History: what has become of the write in progress.                      *)
(***************************************************************************)
Overlap(o, q) == Span(o) \cap Span(q) # {}

Whole ==
    /\ torn' = torn \ Span(op.off)
    /\ written' = [q \in Offset |-> IF q = op.off THEN op.buf
                                    ELSE IF Overlap(op.off, q) THEN NoStripe
                                    ELSE written[q]]
    /\ acked' = IF acked < op.off + op.real THEN op.off + op.real ELSE acked

Torn ==
    /\ torn' = torn \cup Span(op.off)
    /\ written' = [q \in Offset |-> IF Overlap(op.off, q) THEN NoStripe
                                    ELSE written[q]]
    /\ UNCHANGED acked

-----------------------------------------------------------------------------
(***************************************************************************)
(* r5_write. The buffer is filled with zeros, or cut, to one stripe.       *)
(***************************************************************************)
Padded(data) ==
    [k \in 1 .. StripeSz |-> IF k <= Len(data) THEN data[k] ELSE Zero]

CallWrite(o, data) ==
    /\ op = Idle
    /\ op' = [pc |-> "write", off |-> o, buf |-> Padded(data),
              real |-> IF Len(data) < StripeSz THEN Len(data) ELSE StripeSz,
              i |-> 0, serv |-> NextServ(XorServ(o)), sum |-> 0, failed |-> 0, lost |-> 0]
    /\ UNCHANGED <<disk, cache, faults, torn, written, acked>>

\* What writeHelper5 is called with for server serv
Sent == IF op.serv = XorServ(op.off) THEN Parity(op.buf) ELSE Chunk(op.buf, op.i)

Stored(x) == disk' = [disk EXCEPT ![op.serv] = PwriteAt(@, op.off, x)]

\* The first n units of it
Part(n) == SubSeq(Sent, 1, n)

\* Variant with a bug: any positive sum passes for success.
ReportedIfAny(sum, real) == IF sum > 0 THEN real ELSE sum

\* What r5_write returns: an int compared with a size_t, so that a negative sum
\* is a large one
Reported(sum, real) == IF sum < 0 \/ sum >= real THEN real ELSE sum

WriteReturns(sum, failed, lost) ==
    /\ op' = [op EXCEPT !.pc = "wrote", !.sum = sum, !.failed = failed, !.lost = lost]
    /\ IF failed > 0 \/ lost > 0 THEN Torn ELSE Whole

\* The loop goes on with the next server, or r5_write returns.
WriteReplied(res, failed, lost) ==
    LET sum == op.sum + res IN
    IF op.i + 1 < NServers
    THEN /\ op' = [op EXCEPT !.i = @ + 1, !.serv = NextServ(@),
                             !.sum = sum, !.failed = failed, !.lost = lost]
         /\ UNCHANGED <<torn, written, acked>>
    ELSE WriteReturns(Reported(sum, op.real), failed, lost)

WriteRpc ==
    /\ op.pc = "write"
    /\ Stored(Sent)
    /\ WriteReplied(ChunkSz, op.failed, op.lost)
    /\ UNCHANGED <<cache, faults>>

\* The server's pwrite writes n units only, and their number is its answer.
WriteShort(n) ==
    /\ op.pc = "write"
    /\ Inject("shortWrite")
    /\ Stored(Part(n))
    /\ WriteReplied(n, op.failed, op.lost + (ChunkSz - n))
    /\ UNCHANGED cache

\* The pwrite, or the setXhash after it, fails. writeHelper5 returns -errno, and
\* r5_write, which tests for -1, goes on unless errno is EPERM.
WriteFails(e) ==
    /\ op.pc = "write"
    /\ Inject("ioError")
    /\ UNCHANGED disk \/ \E n \in 1 .. ChunkSz : Stored(Part(n))
    /\ IF e = 1 THEN WriteReturns(-1, op.failed + 1, op.lost)
                ELSE WriteReplied(0 - e, op.failed + 1, op.lost)
    /\ UNCHANGED cache

-----------------------------------------------------------------------------
(***************************************************************************)
(* r5_read: the cache, or one chunk from every server but the parity's.    *)
(* serv is not initialised; every int behaves like one of Uninitialised.   *)
(***************************************************************************)
Uninitialised == ((0 - NServers) .. -2) \cup Server

Cached(o) == cache.off <= o /\ o < cache.off + cache.len

\* A hit returns what the node has from o on, and nothing else changes.
CallRead(o, start) ==
    /\ op = Idle /\ ~Cached(o)
    /\ op' = [pc |-> "read", off |-> o, i |-> 0, start |-> start,
              serv |-> NextServ(start), got |-> <<>>, last |-> 0]
    /\ UNCHANGED <<disk, cache, faults, torn, written, acked>>

\* The bytes that came, and the rest of the chunk in buf as it was
Received(x) == [k \in 1 .. ChunkSz |-> IF k <= Len(x) THEN x[k] ELSE Junk]

\* The next server or, after the last, the return: as many units of buf are
\* cached as the last server sent. (What they hold is left out.)
ReadNext(got, last) ==
    LET o == [op EXCEPT !.i = @ + 1, !.serv = NextServ(@), !.got = got, !.last = last]
    IN
    IF o.i < NServers
    THEN op' = o /\ UNCHANGED cache
    ELSE /\ op' = [o EXCEPT !.pc = "reply", !.serv = 0]
         /\ cache' = IF last = 0 THEN cache
                     ELSE [off |-> op.off, len |-> last]

\* Variant with a bug: the parity's server is the last one at every offset.
SkipsLast == op.serv = NServers

SkipsServer == op.serv = XorServ(op.off)

\* What the server asked sends; a number below 1 names no server, and the
\* buffers stay as they were.
Sends == IF op.serv \in Server THEN {PreadAt(disk[op.serv], op.off)}
         ELSE {[k \in 1 .. n |-> Junk] : n \in 0 .. ChunkSz}

ReadRpc ==
    /\ op.pc = "read"
    /\ IF SkipsServer
       THEN ReadNext(op.got, op.last)
       ELSE \E x \in Sends : ReadNext(op.got \o Received(x), Len(x))
    /\ UNCHANGED <<disk, faults, torn, written, acked>>

\* A failure is noticed here: r5_read returns at once.
ReadFails ==
    /\ op.pc = "read" /\ ~SkipsServer
    /\ IF op.serv \in Server THEN Inject("ioError") ELSE UNCHANGED faults
    /\ op' = Idle
    /\ UNCHANGED <<disk, cache, torn, written, acked>>

\* FUSE has the handler's result.
Return ==
    /\ op.pc \in {"wrote", "reply"}
    /\ op' = Idle
    /\ UNCHANGED <<disk, cache, faults, torn, written, acked>>

\* Variant with a bug: the size is server 1's.
ReportedSizeOne == Len(disk[1])

\* st_size as r5_getattr fills it in
ReportedSize == K * Len(disk[1])

-----------------------------------------------------------------------------
Die == op' = Down /\ cache' = NoNode

\* The client dies between two requests.
ClientCrash ==
    /\ op # Down
    /\ Inject("clientCrash")
    /\ Die
    /\ IF op.pc = "write" /\ op.i > 0 THEN Torn ELSE UNCHANGED <<torn, written, acked>>
    /\ UNCHANGED disk

\* It dies after the command of a "wrt" and before its data: the server writes
\* a buffer nobody filled.
CutTransfer ==
    /\ op.pc = "write"
    /\ Inject("cutTransfer")
    /\ \E x \in ChunkOfUnits : Stored(x)
    /\ Die
    /\ Torn

\* Nothing is compared and nothing restored when the disk is mounted again.
Remount ==
    /\ op = Down
    /\ op' = Idle
    /\ UNCHANGED <<disk, cache, faults, torn, written, acked>>

Data == UNION {[1 .. n -> Unit] : n \in Size}

Handler ==
    \/ WriteRpc
    \/ \E n \in 1 .. ChunkSz - 1 : WriteShort(n)
    \/ \E e \in Errno : WriteFails(e)
    \/ ReadRpc
    \/ ReadFails
    \/ Return

Next ==
    \/ \E o \in Offset, data \in Data : CallWrite(o, data)
    \/ \E o \in Offset, start \in Uninitialised : CallRead(o, start)
    \/ Handler
    \/ ClientCrash
    \/ CutTransfer
    \/ Remount

Spec == Init /\ [][Next]_vars

-----------------------------------------------------------------------------
(***************************************************************************)
(* Properties.                                                             *)
(***************************************************************************)
\* Units the write in progress is changing
InWrite == IF op.pc = "write" THEN Span(op.off) ELSE {}

\* Whatever one server kept can be computed from the others, at any offset, in
\* any order of overlapping writes, except where a write was lost halfway.
Recoverable ==
    \A k \in Place \ (torn \cup InWrite), s \in Server :
        UnitOf(disk[s], k) = Xor([t \in Server \ {s} |-> UnitOf(disk[t], k)])

\* If serv, which nobody initialised, holds the number of the parity's server, a
\* read that asks the servers for a stripe no later write has touched returns
\* it, its chunks glued in their order: r5_read passes over the server r5_write
\* gave the parity to. For any other value they come turned round, or not at all.
ReadReturnsStripe ==
    op.pc = "reply" /\ written[op.off] # NoStripe /\ op.start = XorServ(op.off) =>
        SubSeq(op.got, 1, StripeSz) = written[op.off]

\* No byte of a write that lost nothing lies beyond the size getattr reports.
SizeCovers == op.pc # "write" => acked <= ReportedSize

\* What the caller of a write of a whole stripe is told: of one request that
\* failed, if no other was cut short; of requests cut short, only when they lost
\* more than a chunk together, for the parity's chunk makes up in the sum for
\* what is missing of the others.
OneFailureReported ==
    op.pc = "wrote" /\ op.real = StripeSz =>
        /\ op.failed = 0 => (op.sum = op.real <=> op.lost <= ChunkSz)
        /\ op.failed = 1 /\ op.lost = 0 => op.sum # op.real
=============================================================================
