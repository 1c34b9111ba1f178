-------------------------------- MODULE Raid1 --------------------------------
(***************************************************************************)
(* One file of a RAID-1 mount: the FUSE handlers of                        *)
(* nrfs_mount/mountRaid1.c that create, open, read, write, release and     *)
(* unlink it, the two storage servers of net_raid_server.c that keep its   *)
(* copies, and the faults that can happen between two of their steps.      *)
(*                                                                         *)
(* A file is a sequence of 4096-byte chunks; a chunk is one value.         *)
(* Handlers run one at a time. Every request/reply exchange is one step,   *)
(* except "wrt", whose two effects on the server's disk (the bytes, then   *)
(* their hash) are two steps.                                              *)
(***************************************************************************)
EXTENDS FileData

CONSTANTS
    MaxOpens,   \* bound: handles open at once
    Faults,     \* the kinds of fault that may happen
    MaxFaults   \* bound: faults in one behaviour

FaultKinds == {"clientCrash", "cutTransfer", "serverCrash", "systemCrash",
               "ioError", "damage", "damageAtRest"}

ASSUME BoundsAssumption ==
    /\ MaxOpens \in Nat \ {0}
    /\ MaxFaults \in Nat
    /\ Faults \subseteq FaultKinds

VARIABLES
    disk,       \* disk[s]: the copy on server s, [data, xattr], or NoFile
    up,         \* up[s]: s answers on the connection the mount opened to it
    job,        \* job[s]: "hash" after the pwrite of a wrt, until its setXhash
    cache,      \* cache[k][o]: the cached chunk at o of path k (see Key)
    op,         \* the handler in progress and its local variables
    opens,      \* handles the application has open
    faults      \* faults so far

vars == <<disk, up, job, cache, op, opens, faults>>

Server == {1, 2}
Other(s) == 3 - s

(***************************************************************************)
(* The paths r1_read is called with: 0 is the file's own path, s the path  *)
(* whose first character r1_open replaced by the digit of server s.        *)
(***************************************************************************)
Key == 0 .. 2

(***************************************************************************)
(* The 41-byte hash string. SHA-1 is taken to be injective; an empty file  *)
(* has the all-zero string, as has one whose xattr cannot be read.         *)
(***************************************************************************)
NoHash == <<>>
Sha1(data) == IF data = <<>> THEN NoHash ELSE <<data>>

Hash == {Sha1(d) : d \in Contents}
Copy == [data : Contents, xattr : Hash]

ASSUME NoFileAssumption == NoFile \notin Copy \cup Contents

Sound(s) == disk[s].xattr = Sha1(disk[s].data)

-----------------------------------------------------------------------------
(***************************************************************************)
(* The handler's locals. serv: the server the current request goes to (in  *)
(* restore: the one being repaired); off, val: the chunk read or written   *)
(* (in restore: bytesSend and buf); rd: bytesRead; size: st_size; seen:    *)
(* the two hashes server 2 answered to "opn".                              *)
(***************************************************************************)
PC == {"down", "idle", "create", "open", "stat", "rread", "rsend",
       "read", "reply", "write", "unlink"}

Op == [pc : PC, serv : Server, off : 0 .. MaxChunks,
       val : Chunk \cup {NoChunk}, rd : 0 .. MaxChunks, size : 0 .. MaxChunks,
       seen : [stored : Hash, computed : Hash]]

Idle == [pc |-> "idle", serv |-> 1, off |-> 0, val |-> NoChunk, rd |-> 0,
         size |-> 0, seen |-> [stored |-> NoHash, computed |-> NoHash]]
Down == [Idle EXCEPT !.pc = "down"]
Restoring == op.pc \in {"stat", "rread", "rsend"}

EmptyCache == [k \in Key |-> [o \in Offset |-> NoChunk]]

\* addInCache: an entry of the same path and offset is left as it is
AddInCache(k, o, v) ==
    IF cache[k][o] = NoChunk THEN [cache EXCEPT ![k][o] = v] ELSE cache

TypeOK ==
    /\ disk \in [Server -> Copy \cup {NoFile}]
    /\ up \in [Server -> BOOLEAN]
    /\ job \in [Server -> {"none", "hash"}]
    /\ cache \in [Key -> [Offset -> Chunk \cup {NoChunk}]]
    /\ op \in Op
    /\ opens \in 0 .. MaxOpens
    /\ faults \in 0 .. MaxFaults

Init ==
    /\ disk = [s \in Server |-> NoFile]
    /\ up = [s \in Server |-> TRUE]
    /\ job = [s \in Server |-> "none"]
    /\ cache = EmptyCache
    /\ op = Idle
    /\ opens = 0
    /\ faults = 0

-----------------------------------------------------------------------------
(***************************************************************************)
(* Requests. A connection whose server died is never noticed: writing to   *)
(* it fails, read returns at once, and handleRetVal takes the result from  *)
(* a buffer nobody filled, so every outcome is possible.                   *)
(***************************************************************************)
Inject(kind) ==
    /\ kind \in Faults
    /\ faults < MaxFaults
    /\ faults' = faults + 1

\* The reply of server s is non-negative; the server, if alive, has made its
\* copy c.
Answers(s, c) ==
    /\ disk' = IF up[s] THEN [disk EXCEPT ![s] = c] ELSE disk
    /\ UNCHANGED faults

\* The reply of server s is negative, and its copy is unchanged.
Refuses(s) ==
    /\ IF up[s] THEN Inject("ioError") ELSE UNCHANGED faults
    /\ UNCHANGED disk

Return == op' = Idle /\ UNCHANGED opens
ReturnHandle == op' = Idle /\ opens' = opens + 1

(***************************************************************************)
(* r1_create. The kernel calls it when getattr, which asks server 1 only,  *)
(* has found no file, or a dead server 1 has answered nothing. Server 2    *)
(* first. An existing file is kept, or with O_TRUNC cut but not its hash,  *)
(* or with O_EXCL refused.                                                 *)
(***************************************************************************)
Created(c) == IF c = NoFile THEN {[data |-> <<>>, xattr |-> NoHash]}
                            ELSE {c, [c EXCEPT !.data = <<>>]}

CallCreate ==
    /\ op = Idle /\ opens < MaxOpens
    /\ up[1] => disk[1] = NoFile
    /\ op' = [Idle EXCEPT !.pc = "create", !.serv = 2]
    /\ UNCHANGED <<disk, up, job, cache, opens, faults>>

CreateRpc ==
    /\ op.pc = "create"
    /\ \/ /\ \E c \in Created(disk[op.serv]) : Answers(op.serv, c)
          /\ IF op.serv = 2 THEN op' = [op EXCEPT !.serv = 1] /\ UNCHANGED opens
                            ELSE ReturnHandle
       \/ Refuses(op.serv) /\ Return
       \/ /\ up[op.serv] /\ disk[op.serv] # NoFile
          /\ Return
          /\ UNCHANGED <<disk, faults>>
    /\ UNCHANGED <<up, job, cache>>

-----------------------------------------------------------------------------
(***************************************************************************)
(* r1_open: ask server 2 then server 1 for the stored and the computed     *)
(* hash, compare, and copy the file from the one to the other if they      *)
(* differ. RestoreFrom is the server the copy is read from, 0 for none.    *)
(***************************************************************************)
\* Variants of RestoreFrom with a bug, for the mutation runs: server 1 wins;
\* only server 1's copy is checked; server 2's copy always wins.
RestoreFromFirst(h1, h2) ==
    IF h2.stored # h2.computed \/ h1.stored # h2.stored THEN 1
    ELSE IF h1.stored # h1.computed THEN 2
    ELSE 0
RestoreFromUnchecked(h1, h2) ==
    IF h1.stored # h1.computed \/ h1.stored # h2.stored THEN 2 ELSE 0
RestoreFromSecond(h1, h2) ==
    IF h1 = h2 /\ h1.stored = h1.computed THEN 0 ELSE 2

RestoreFrom(h1, h2) ==
    IF h1.stored # h1.computed \/ h1.stored # h2.stored THEN 2
    ELSE IF h2.stored # h2.computed THEN 1
    ELSE 0

\* What a buffer that read() left alone may hold: nothing, junk, an old reply
StaleHash == {NoHash, Sha1(<<Junk>>)} \cup
             {disk[t].xattr : t \in {u \in Server : disk[u] # NoFile}}

\* What server s answers: a hash it cannot get is the all-zero string.
Hashes(s) ==
    IF up[s]
    THEN {[stored |-> disk[s].xattr, computed |-> Sha1(disk[s].data)]}
    ELSE [stored : StaleHash, computed : StaleHash]

\* The file opens, but its xattr, or its data, cannot be read.
HashesLost(s) ==
    {[stored |-> NoHash, computed |-> Sha1(disk[s].data)],
     [stored |-> disk[s].xattr, computed |-> NoHash],
     [stored |-> NoHash, computed |-> NoHash]}

CallOpen ==
    /\ op = Idle /\ opens < MaxOpens
    /\ up[1] => disk[1] # NoFile
    /\ op' = [Idle EXCEPT !.pc = "open", !.serv = 2]
    /\ UNCHANGED <<disk, up, job, cache, opens, faults>>

\* Both servers have answered: return, or start the restore.
OpenDecided(from) ==
    IF from = 0 THEN ReturnHandle
    ELSE /\ op' = [Idle EXCEPT !.pc = "stat", !.serv = Other(from)]
         /\ UNCHANGED opens

OpenAnswered(h) ==
    IF op.serv = 2 THEN op' = [op EXCEPT !.serv = 1, !.seen = h] /\ UNCHANGED opens
                   ELSE OpenDecided(RestoreFrom(h, op.seen))

OpenRpc ==
    /\ op.pc = "open"
    /\ \/ /\ up[op.serv] => disk[op.serv] # NoFile
          /\ \/ \E h \in Hashes(op.serv) : OpenAnswered(h) /\ UNCHANGED faults
             \/ /\ up[op.serv] /\ Inject("ioError")
                /\ \E h \in HashesLost(op.serv) : OpenAnswered(h)
          /\ UNCHANGED disk
       \/ Refuses(op.serv) /\ Return
       \/ /\ up[op.serv] /\ disk[op.serv] = NoFile
          /\ Return
          /\ UNCHANGED <<disk, faults>>
    /\ UNCHANGED <<up, job, cache>>

\* Variant with a bug: the loop ends one chunk short.
RestoreLoopShort(o) ==
    IF o.rd < o.size /\ o.off + 1 < o.size
    THEN op' = [o EXCEPT !.pc = "rread"] /\ UNCHANGED opens
    ELSE ReturnHandle

\* The head of the restore loop; when it ends open returns 0, whatever failed.
RestoreLoop(o) ==
    IF o.rd < o.size /\ o.off < o.size
    THEN op' = [o EXCEPT !.pc = "rread"] /\ UNCHANGED opens
    ELSE ReturnHandle

\* A getattr that fails leaves st_size to chance and is not noticed.
StatRpc ==
    /\ op.pc = "stat"
    /\ \E n \in 0 .. MaxChunks :
          /\ RestoreLoop([op EXCEPT !.size = n, !.val = Junk])
          /\ LET src == Other(op.serv) IN
             \/ (up[src] => n = Len(disk[src].data)) /\ UNCHANGED faults
             \/ up[src] /\ Inject("ioError")
    /\ UNCHANGED <<disk, up, job, cache>>

(***************************************************************************)
(* r1_read of chunk o under path k, from server s, returns v: a cached     *)
(* chunk wins; otherwise the server's chunk is read and cached.            *)
(***************************************************************************)
ReadChunk(k, s, o, v) ==
    /\ \/ cache[k][o] # NoChunk /\ v = cache[k][o] /\ UNCHANGED cache
       \/ /\ cache[k][o] = NoChunk
          /\ v \in IF up[s] THEN {ChunkAt(disk[s].data, o)} ELSE {Junk, NoChunk}
          /\ cache' = IF v = NoChunk THEN cache ELSE AddInCache(k, o, v)
    /\ UNCHANGED <<disk, faults>>

\* r1_read returns a negative result.
ReadFails(k, s, o) ==
    /\ cache[k][o] = NoChunk
    /\ Refuses(s)
    /\ UNCHANGED cache

\* Variant with a bug: bytesRead is not counted.
RestoreGotUncounted(v) ==
    IF v = NoChunk THEN [op EXCEPT !.pc = "rsend"]
    ELSE [op EXCEPT !.pc = "rsend", !.val = v]

\* At end of file r1_read returns 0, and buf and bytesRead stay as they are.
RestoreGot(v) ==
    IF v = NoChunk THEN [op EXCEPT !.pc = "rsend"]
    ELSE [op EXCEPT !.pc = "rsend", !.val = v, !.rd = @ + 1]

RestoreReadFrom(k, s) ==
    /\ op.pc = "rread"
    /\ \/ \E v \in Chunk \cup {NoChunk} :
             ReadChunk(k, s, op.rd, v) /\ op' = RestoreGot(v)
       \/ ReadFails(k, s, op.rd) /\ op' = [op EXCEPT !.pc = "rsend"]
    /\ UNCHANGED <<up, job, opens>>

\* Variant with a bug: the path keeps its '/', and server 1 is read.
RestoreReadOwnPath == RestoreReadFrom(0, 1)

RestoreRead == RestoreReadFrom(Other(op.serv), Other(op.serv))

-----------------------------------------------------------------------------
(***************************************************************************)
(* "wrt": writeHelper and the server's branch. A path that does not start  *)
(* with '/' (restore's) also cuts the file at the end of the written chunk.*)
(***************************************************************************)
Written(s, v) ==
    LET d == Pwrite(disk[s].data, op.off, v) IN
    [disk EXCEPT ![s].data =
        IF op.pc = "rsend" THEN SubSeq(d, 1, op.off + 1) ELSE d]

\* pwrite failed with -1: if the file was open at all, restore's
\* ftruncate(offset - 1) still runs, and eats the last byte of the chunk before
\* (offset - 1 < 0 does nothing).
CutBefore(s) ==
    IF op.pc = "rsend" /\ op.off > 0
    THEN [disk EXCEPT ![s].data =
             [i \in 1 .. op.off |-> IF i = op.off THEN Junk ELSE disk[s].data[i]]]
    ELSE disk

\* Variant with a bug: the loop over the servers does not end at server 1.
WriteRepliedToZero(ok) ==
    IF op.pc = "write"
    THEN /\ op' = IF op.serv > 0 THEN [op EXCEPT !.serv = @ - 1] ELSE Idle
         /\ UNCHANGED opens
    ELSE RestoreLoop(IF ok THEN [op EXCEPT !.off = @ + 1] ELSE op)

\* Variant with a bug: bytesSend is not counted.
WriteRepliedUncounted(ok) ==
    IF op.pc = "write"
    THEN /\ op' = IF op.serv = 2 THEN [op EXCEPT !.serv = 1] ELSE Idle
         /\ UNCHANGED opens
    ELSE RestoreLoop(op)

\* The handler's next step after the reply to "wrt". writeHelper turns a
\* failure into -errno, so r1_write's test for -1 lets it pass.
WriteReplied(ok) ==
    IF op.pc = "write"
    THEN /\ op' = IF op.serv = 2 THEN [op EXCEPT !.serv = 1] ELSE Idle
         /\ UNCHANGED opens
    ELSE RestoreLoop(IF ok THEN [op EXCEPT !.off = @ + 1] ELSE op)

AwaitsWrite == op.pc \in {"write", "rsend"}

\* The server has received the chunk and called pwrite.
WritePwrite ==
    /\ AwaitsWrite /\ up[op.serv] /\ job[op.serv] = "none"
    /\ \/ /\ disk' = Written(op.serv, op.val)
          /\ job' = [job EXCEPT ![op.serv] = "hash"]
          /\ UNCHANGED <<op, opens, faults>>
       \/ /\ Inject("ioError")
          /\ disk' \in {disk, CutBefore(op.serv)}
          /\ WriteReplied(FALSE)
          /\ UNCHANGED job
    /\ UNCHANGED <<up, cache>>

\* The server stores the hash of the whole file and replies. The client may
\* be gone by then.
WriteSetXhash(s) ==
    /\ job[s] = "hash"
    /\ job' = [job EXCEPT ![s] = "none"]
    /\ \E ok \in BOOLEAN :
          /\ IF ok
             THEN /\ disk' = [disk EXCEPT ![s].xattr = Sha1(disk[s].data)]
                  /\ UNCHANGED faults
             ELSE Inject("ioError") /\ UNCHANGED disk
          /\ IF AwaitsWrite /\ op.serv = s
             THEN WriteReplied(ok)
             ELSE UNCHANGED <<op, opens>>
    /\ UNCHANGED <<up, cache>>

\* No server at the other end of the connection.
WriteUnanswered ==
    /\ AwaitsWrite /\ ~up[op.serv]
    /\ \E ok \in BOOLEAN : WriteReplied(ok)
    /\ UNCHANGED <<disk, up, job, cache, faults>>

CallWrite(o, v) ==
    /\ op = Idle /\ opens > 0
    /\ op' = [Idle EXCEPT !.pc = "write", !.serv = 2, !.off = o, !.val = v]
    /\ UNCHANGED <<disk, up, job, cache, opens, faults>>

-----------------------------------------------------------------------------
(***************************************************************************)
(* r1_read for the application: server 1 only. "reply" is the handler's    *)
(* return with the chunk read (NoChunk at end of file).                    *)
(***************************************************************************)
CallRead(o) ==
    /\ op = Idle /\ opens > 0
    /\ op' = [Idle EXCEPT !.pc = "read", !.off = o]
    /\ UNCHANGED <<disk, up, job, cache, opens, faults>>

ReadRpc ==
    /\ op.pc = "read"
    /\ \/ \E v \in Chunk \cup {NoChunk} :
             /\ ReadChunk(0, 1, op.off, v)
             /\ op' = [op EXCEPT !.pc = "reply", !.val = v]
       \/ ReadFails(0, 1, op.off) /\ op' = Idle
    /\ UNCHANGED <<up, job, opens>>

ReadReturn ==
    /\ op.pc = "reply"
    /\ Return
    /\ UNCHANGED <<disk, up, job, cache, faults>>

\* r1_release: the results of both "rel" are ignored.
Release ==
    /\ op = Idle /\ opens > 0
    /\ opens' = opens - 1
    /\ UNCHANGED <<disk, up, job, cache, op, faults>>

(***************************************************************************)
(* r1_unlink: server 2 then server 1, stopping at the first failure; then  *)
(* deletePath. libfuse renames a file that is still open instead of        *)
(* unlinking it.                                                           *)
(***************************************************************************)
\* deletePath unlinks the first node of the file's own path. Any further one
\* it frees and leaves in the list (module ChunkCache): a later look-up may
\* still find it there or not.
DeletePath ==
    LET old == {o \in Offset : cache[0][o] # NoChunk} IN
    \E kept \in SUBSET old :
        /\ kept # old \/ old = {}
        /\ cache' = [cache EXCEPT ![0] =
               [o \in Offset |-> IF o \in kept THEN cache[0][o] ELSE NoChunk]]

CallUnlink ==
    /\ op = Idle /\ opens = 0
    /\ up[1] => disk[1] # NoFile
    /\ op' = [Idle EXCEPT !.pc = "unlink", !.serv = 2]
    /\ UNCHANGED <<disk, up, job, cache, opens, faults>>

UnlinkRpc ==
    /\ op.pc = "unlink"
    /\ \/ /\ up[op.serv] => disk[op.serv] # NoFile
          /\ Answers(op.serv, NoFile)
          /\ IF op.serv = 2
             THEN op' = [op EXCEPT !.serv = 1] /\ UNCHANGED cache
             ELSE op' = Idle /\ DeletePath
       \/ Refuses(op.serv) /\ op' = Idle /\ UNCHANGED cache
       \/ /\ up[op.serv] /\ disk[op.serv] = NoFile
          /\ op' = Idle
          /\ UNCHANGED <<disk, cache, faults>>
    /\ UNCHANGED <<up, job, opens>>

-----------------------------------------------------------------------------
(***************************************************************************)
(* Faults and recovery.                                                    *)
(***************************************************************************)
Die == op' = Down /\ opens' = 0 /\ cache' = EmptyCache

\* The client process dies; the servers finish what they have received.
ClientCrash ==
    /\ op.pc # "down"
    /\ Inject("clientCrash")
    /\ Die
    /\ UNCHANGED <<disk, up, job>>

\* The client dies after the command of a "wrt" and before its data: the
\* server's reads return 0, are counted as full, and the buffer it then
\* writes was never filled.
CutTransfer ==
    /\ AwaitsWrite /\ up[op.serv] /\ job[op.serv] = "none"
    /\ Inject("cutTransfer")
    /\ disk' = Written(op.serv, Junk)
    /\ job' = [job EXCEPT ![op.serv] = "hash"]
    /\ Die
    /\ UNCHANGED up

\* The process that serves this mount on server s dies.
ServerCrash(s) ==
    /\ up[s] /\ op.pc # "down"
    /\ Inject("serverCrash")
    /\ up' = [up EXCEPT ![s] = FALSE]
    /\ job' = [job EXCEPT ![s] = "none"]
    /\ UNCHANGED <<disk, cache, op, opens>>

\* Client and servers die together (README runs them all on 127.0.0.1).
SystemCrash ==
    /\ op.pc # "down"
    /\ Inject("systemCrash")
    /\ job' = [s \in Server |-> "none"]
    /\ Die
    /\ UNCHANGED <<disk, up>>

\* The only fault of its behaviour
InjectAlone(kind) ==
    /\ kind \in Faults
    /\ faults = 0 /\ MaxFaults > 0
    /\ faults' = MaxFaults

\* Between two handlers a chunk of the copy on server s goes bad; the xattr
\* does not. "damageAtRest" is that of a closed file, and no other fault.
Damage(s, i) ==
    /\ op = Idle
    /\ disk[s] # NoFile /\ i \in DOMAIN disk[s].data
    /\ disk[s].data[i] # Junk
    /\ \/ Inject("damage")
       \/ opens = 0 /\ InjectAlone("damageAtRest")
    /\ disk' = [disk EXCEPT ![s].data[i] = Junk]
    /\ UNCHANGED <<up, job, cache, op, opens>>

\* The servers are started, those that hold unfinished work have finished it,
\* and the client mounts again.
Remount ==
    /\ op.pc = "down"
    /\ \A s \in Server : job[s] = "none"
    /\ up' = [s \in Server |-> TRUE]
    /\ op' = Idle
    /\ UNCHANGED <<disk, job, cache, opens, faults>>

-----------------------------------------------------------------------------
Call ==
    \/ CallCreate
    \/ CallOpen
    \/ \E o \in Offset : CallRead(o)
    \/ \E o \in Offset, v \in Val : CallWrite(o, v)
    \/ CallUnlink
    \/ Release

Handler ==
    \/ CreateRpc
    \/ OpenRpc
    \/ StatRpc
    \/ RestoreRead
    \/ WritePwrite
    \/ \E s \in Server : WriteSetXhash(s)
    \/ WriteUnanswered
    \/ ReadRpc
    \/ ReadReturn
    \/ UnlinkRpc

Fault ==
    \/ ClientCrash
    \/ CutTransfer
    \/ \E s \in Server : ServerCrash(s)
    \/ SystemCrash
    \/ \E s \in Server, i \in 1 .. MaxChunks : Damage(s, i)

Next == Call \/ Handler \/ Fault \/ Remount

Spec == Init /\ [][Next]_vars

\* A handler never waits for anything but a server's reply, and a server's
\* loop takes the next request as soon as it has answered the last.
FairSpec == Spec /\ WF_vars(Handler)

-----------------------------------------------------------------------------
(***************************************************************************)
(* Properties.                                                             *)
(***************************************************************************)
Mirrored ==
    /\ \A s \in Server : disk[s] # NoFile /\ Sound(s)
    /\ disk[1].data = disk[2].data

\* While the application holds a handle and no write is under way, the two
\* copies are there, are equal, and each carries the hash of its data: the
\* ground on which r1_read asks server 1 alone.
MirrorWhenOpen == opens > 0 /\ op.pc # "write" => Mirrored

\* The content of the file the two copies stand for: that of server 2, which
\* is written first, once its hash is stored; until then server 1's. While a
\* restore runs it is the copy being read.
Content ==
    IF disk[2] = NoFile THEN NoFile
    ELSE IF Restoring THEN disk[Other(op.serv)].data
    ELSE IF Sound(2) \/ disk[1] = NoFile THEN disk[2].data
    ELSE disk[1].data

Store == INSTANCE StableStore WITH content <- Content

\* The pair of servers behaves as one file that only create, write and unlink
\* change.
ImplementsStableStore == Store!Spec

\* Every handler returns, unless the client dies under it.
HandlersReturn == op.pc \notin {"idle", "down"} ~> op.pc \in {"idle", "down"}

\* A restore that has begun ends with equal copies, unless the client dies.
RestoreHeals == Restoring ~> Mirrored \/ op.pc = "down"

\* What the copy a restore reads from has at chunk o
SourceChunk(o) ==
    LET src == disk[Other(op.serv)] IN
    IF src = NoFile THEN NoChunk ELSE ChunkAt(src.data, o)

\* A chunk that a restore stores is the chunk the copy it reads from has there.
RestoreCopiesSource ==
    [][op.pc = "rsend" /\ op'.pc # "down" /\ disk' # disk =>
          ChunkAt(disk'[op.serv].data, op.off) = SourceChunk(op.off)]_vars

\* A read returns what pread of server 1's copy returns.
ReadIsPread ==
    [][op.pc = "read" /\ op'.pc = "reply" =>
          op'.val = ChunkAt(disk[1].data, op.off)]_vars
=============================================================================
