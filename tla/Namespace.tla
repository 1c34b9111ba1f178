------------------------------ MODULE Namespace ------------------------------
(***************************************************************************)
(* The directory trees of a mount's servers: create, unlink, mkdir, rmdir, *)
(* rename and chmod of nrfs_mount/mountRaid1.c (mountRaid5.c has the same  *)
(* handlers over more servers), the server's side of them, and the chunk   *)
(* cache as far as the names in it go.                                     *)
(*                                                                         *)
(* Every call is one request to each server, in ascending or descending    *)
(* order, and ends at the first that fails: nothing is undone. Covered:    *)
(* a system call that fails on one server, and the client's death between  *)
(* two requests. The bytes of files are not here (module Raid1): a file is *)
(* the identity of its content.                                            *)
(***************************************************************************)
EXTENDS Naturals, Sequences, FiniteSets

CONSTANTS
    NServers,   \* servers, 1 .. NServers
    Name,       \* names of files and directories
    Path,       \* bound: the paths that may exist, sequences of names
    File,       \* identities of file contents
    Mode,       \* permission bits
    Dir,        \* what a directory is instead of a file
    NoEntry,    \* nothing at a path
    NoFile,     \* no file, for a call that makes none
    NoPath,     \* the second path of a call that has one
    Faults,     \* the kinds of fault that may happen
    MaxEntries, \* bound: entries of server 1's tree that calls create
    MaxFaults   \* bound: faults in one behaviour

Root == <<>>
Parent(p) == SubSeq(p, 1, Len(p) - 1)

\* q is p or a path below it
Under(p, q) == Len(q) >= Len(p) /\ SubSeq(q, 1, Len(p)) = p
Subtree(p) == {q \in Path : Under(p, q)}

Entry == [node : File \cup {Dir}, mode : Mode]
Tree == [Path -> Entry \cup {NoEntry}]

ASSUME NamespaceAssumption ==
    /\ NServers \in Nat /\ NServers >= 2
    /\ Path \subseteq Seq(Name)
    /\ \A p \in Path : p # Root /\ \A n \in 1 .. Len(p) : SubSeq(p, 1, n) \in Path
    /\ Mode # {}
    /\ Dir \notin File /\ NoFile \notin File
    /\ NoEntry \notin Entry /\ NoPath \notin Path
    /\ Faults \subseteq {"ioError", "clientCrash"}
    /\ MaxFaults \in Nat /\ MaxEntries \in Nat

VARIABLES
    tree,       \* tree[s]: server s's directory
    op,         \* the call in progress: what libfuse passed, and the loop's serv
    cache,      \* the cache, with room for one path: the path, and the files
                \* its chunks are from
    faults,     \* faults so far
    shown,      \* history: server 1's tree when the call began
    tainted,    \* history: paths where a call was done by some servers only
    excused     \* history: a rename or an unlink left chunks of another file in
                \* the cache

vars == <<tree, op, cache, faults, shown, tainted, excused>>

Server == 1 .. NServers

-----------------------------------------------------------------------------
(***************************************************************************)
(* The system calls the server makes for a command, on one tree: when they *)
(* succeed, and what they leave.                                           *)
(***************************************************************************)
IsDir(t, p) == p # Root => t[p] # NoEntry /\ t[p].node = Dir
IsFile(t, p) == t[p] # NoEntry /\ t[p].node # Dir
IsEmpty(t, p) == \A q \in Subtree(p) : q # p => t[q] = NoEntry

CanMkdir(t, p) == t[p] = NoEntry /\ IsDir(t, Parent(p))
CanRmdir(t, p) == IsDir(t, p) /\ IsEmpty(t, p)
CanUnlink(t, p) == IsFile(t, p)
CanChmod(t, p) == t[p] # NoEntry
CanCreate(t, p, excl) ==
    IF t[p] = NoEntry THEN IsDir(t, Parent(p)) ELSE IsFile(t, p) /\ ~excl
CanRename(t, p, q) ==
    /\ t[p] # NoEntry /\ IsDir(t, Parent(q))
    /\ ~Under(p, q)
    /\ t[q] # NoEntry => (IsDir(t, p) <=> IsDir(t, q)) /\ IsEmpty(t, q)

Put(t, p, e) == [t EXCEPT ![p] = e]

\* The path that becomes r when p is renamed to q
Origin(p, q, r) == p \o SubSeq(r, Len(q) + 1, Len(r))
Renamed(t, p, q) ==
    [r \in Path |->
        IF Under(q, r)
        THEN IF Origin(p, q, r) \in Path THEN t[Origin(p, q, r)] ELSE NoEntry
        ELSE IF Under(p, r) THEN NoEntry ELSE t[r]]

-----------------------------------------------------------------------------
(***************************************************************************)
(* The call in progress.                                                   *)
(***************************************************************************)
Kind == {"create", "unlink", "mkdir", "rmdir", "rename", "chmod", "open"}
PC == {"idle", "down", "request", "return"}

Op == [pc : PC, kind : Kind, path : Path \cup {NoPath}, to : Path \cup {NoPath},
       file : File \cup {NoFile}, mode : Mode, excl : BOOLEAN,
       serv : Server, ok : BOOLEAN]

Idle == [pc |-> "idle", kind |-> "open", path |-> NoPath, to |-> NoPath,
         file |-> NoFile, mode |-> CHOOSE m \in Mode : TRUE, excl |-> FALSE,
         serv |-> 1, ok |-> TRUE]
Down == [Idle EXCEPT !.pc = "down"]

Cached == [path : Path \cup {NoPath}, files : SUBSET File]

TypeOK ==
    /\ tree \in [Server -> Tree]
    /\ op \in Op
    /\ cache \in Cached
    /\ faults \in 0 .. MaxFaults
    /\ shown \in Tree
    /\ tainted \subseteq Path
    /\ excused \in BOOLEAN

EmptyTree == [p \in Path |-> NoEntry]
EmptyCache == [path |-> NoPath, files |-> {}]

Init ==
    /\ tree = [s \in Server |-> EmptyTree]
    /\ op = Idle
    /\ cache = EmptyCache
    /\ faults = 0
    /\ shown = EmptyTree
    /\ tainted = {}
    /\ excused = FALSE

Inject(kind) ==
    /\ kind \in Faults
    /\ faults < MaxFaults
    /\ faults' = faults + 1

\* Variant with a bug: create goes up as well.
DescendingNotCreate(kind) == kind \in {"open", "unlink"}

\* The file handlers go from the last server down, the others up.
Descending(kind) == kind \in {"create", "open", "unlink"}

\* Variant with a bug: the loop starts at n_servers.
FirstPastEnd(kind) == IF Descending(kind) THEN NServers + 1 ELSE 1

First(kind) == IF Descending(kind) THEN NServers ELSE 1
Last(kind) == IF Descending(kind) THEN 1 ELSE NServers
NextServ(kind, s) == IF Descending(kind) THEN s - 1 ELSE s + 1

-----------------------------------------------------------------------------
(***************************************************************************)
(* Calls. The kernel looks every name up with getattr, which asks server 1 *)
(* only, and calls a handler when the names it finds allow it.             *)
(***************************************************************************)
Lookup(p) == tree[1][p]
Free(p) ==
    /\ Lookup(p) = NoEntry
    /\ Cardinality({q \in Path : Lookup(q) # NoEntry}) < MaxEntries

\* The paths a call changes something at or below
Touched(o) == Subtree(o.path) \cup (IF o.to = NoPath THEN {} ELSE Subtree(o.to))

Begin(o) ==
    /\ op' = [o EXCEPT !.pc = "request", !.serv = First(o.kind)]
    /\ shown' = tree[1]
    /\ UNCHANGED <<tree, cache, faults, tainted, excused>>

\* A new file is unlike any other: no tree has it, nor the cache.
Fresh(f) ==
    /\ \A s \in Server, p \in Path : tree[s][p] # NoEntry => tree[s][p].node # f
    /\ f \notin cache.files

CallCreate(p, f, excl) ==
    /\ op = Idle
    /\ Free(p) /\ Fresh(f)
    /\ Begin([Idle EXCEPT !.kind = "create", !.path = p, !.file = f, !.excl = excl])

CallOpen(p) ==
    /\ op = Idle
    /\ IsFile(tree[1], p)
    /\ Begin([Idle EXCEPT !.kind = "open", !.path = p])

CallUnlink(p) ==
    /\ op = Idle
    /\ IsFile(tree[1], p)
    /\ Begin([Idle EXCEPT !.kind = "unlink", !.path = p])

CallMkdir(p, m) ==
    /\ op = Idle
    /\ Free(p)
    /\ Begin([Idle EXCEPT !.kind = "mkdir", !.path = p, !.mode = m])

CallRmdir(p) ==
    /\ op = Idle
    /\ IsDir(tree[1], p)
    /\ Begin([Idle EXCEPT !.kind = "rmdir", !.path = p])

CallChmod(p, m) ==
    /\ op = Idle
    /\ Lookup(p) # NoEntry
    /\ Begin([Idle EXCEPT !.kind = "chmod", !.path = p, !.mode = m])

\* What is below p must have a path of the model below q.
CallRename(p, q) ==
    /\ op = Idle
    /\ Lookup(p) # NoEntry
    /\ p # q /\ ~Under(p, q) /\ ~Under(q, p)
    /\ Lookup(q) # NoEntry => (IsDir(tree[1], p) <=> IsDir(tree[1], q))
    /\ \A s \in Server, r \in Subtree(p) :
          tree[s][r] # NoEntry => Origin(q, p, r) \in Path
    /\ Begin([Idle EXCEPT !.kind = "rename", !.path = p, !.to = q])

-----------------------------------------------------------------------------
(***************************************************************************)
(* Requests. Done: the server did it; the loop goes to the next server or  *)
(* the call returns 0. Failed: the loop ends, and the call returns a       *)
(* negative number whatever the servers before did.                        *)
(***************************************************************************)
\* Paths at which all servers have the same after call o succeeded on all
Healed(o) == IF o.kind \in {"unlink", "mkdir", "rmdir", "rename"}
             THEN Touched(o) ELSE {}

\* Where a renamed path carries its taint
Carried(o) == IF o.kind = "rename"
              THEN {r \in Subtree(o.to) : Origin(o.path, o.to, r) \in tainted}
              ELSE {}

Return(ok) == op' = [op EXCEPT !.pc = "return", !.ok = ok]

\* Variant with a bug: the loop ends before the last server.
FinishedEarly == op.serv = Last(op.kind) \/ op.kind = "chmod"

Finished == op.serv = Last(op.kind)

Done(t) ==
    /\ tree' = [tree EXCEPT ![op.serv] = t]
    /\ IF Finished
       THEN /\ Return(TRUE)
            /\ tainted' = (tainted \ Healed(op)) \cup Carried(op)
       ELSE /\ op' = [op EXCEPT !.serv = NextServ(op.kind, @)]
            /\ UNCHANGED tainted

Failed ==
    /\ Return(FALSE)
    /\ tainted' = IF op.serv = First(op.kind) THEN tainted
                  ELSE tainted \cup Touched(op)
    /\ UNCHANGED tree

\* The system call, if allowed is what it needs, and the disk's own failures.
Refused(allowed) ==
    \/ ~allowed /\ Failed /\ UNCHANGED faults
    \/ Inject("ioError") /\ Failed

Requested(kind) == op.pc = "request" /\ op.kind = kind

\* open(2) with the flags of the application: an existing file is kept or,
\* with O_TRUNC, is a new one.
CreateRpc ==
    LET t == tree[op.serv]
        ok == CanCreate(t, op.path, op.excl)
        new == Put(t, op.path, [node |-> op.file, mode |-> Idle.mode])
    IN
    /\ Requested("create")
    /\ \/ /\ ok
          /\ \/ Done(new)
             \/ IsFile(t, op.path) /\ Done(t)
          /\ UNCHANGED faults
       \/ Refused(ok)
    /\ UNCHANGED <<cache, shown, excused>>

\* When the two files differ r1_open copies server 2's over server 1's,
\* unless it is empty or the copying fails (module Raid1).
OpenRpc ==
    LET t == tree[op.serv]
        p == op.path
    IN
    /\ Requested("open")
    /\ \/ /\ IsFile(t, p)
          /\ \/ Done(t)
             \/ Finished /\ Done([t EXCEPT ![p].node = tree[2][p].node])
          /\ UNCHANGED faults
       \/ Refused(IsFile(t, p))
    /\ UNCHANGED <<cache, shown, excused>>

\* Variant with a bug: the cache is left as it is.
UnlinkForgetsNot == UNCHANGED <<cache, excused>>

\* deletePath runs only when every server has unlinked the file. Of several
\* chunks it unlinks the first; the others it frees and leaves in the list,
\* where a later look-up may find some of them (module ChunkCache).
UnlinkForgets ==
    IF op'.pc = "return" /\ op'.ok /\ cache.path = op.path
    THEN \/ cache' = EmptyCache /\ excused' = FALSE
         \/ /\ \E left \in SUBSET cache.files \ {{}} :
                  cache' = [cache EXCEPT !.files = left]
            /\ excused' = TRUE
    ELSE UNCHANGED <<cache, excused>>

UnlinkRpc ==
    LET ok == CanUnlink(tree[op.serv], op.path) IN
    /\ Requested("unlink")
    /\ \/ /\ ok
          /\ Done(Put(tree[op.serv], op.path, NoEntry))
          /\ UNCHANGED faults
       \/ Refused(ok)
    /\ UnlinkForgets
    /\ UNCHANGED shown

MkdirRpc ==
    LET ok == CanMkdir(tree[op.serv], op.path) IN
    /\ Requested("mkdir")
    /\ \/ /\ ok
          /\ Done(Put(tree[op.serv], op.path, [node |-> Dir, mode |-> op.mode]))
          /\ UNCHANGED faults
       \/ Refused(ok)
    /\ UNCHANGED <<cache, shown, excused>>

RmdirRpc ==
    LET ok == CanRmdir(tree[op.serv], op.path) IN
    /\ Requested("rmdir")
    /\ \/ /\ ok
          /\ Done(Put(tree[op.serv], op.path, NoEntry))
          /\ UNCHANGED faults
       \/ Refused(ok)
    /\ UNCHANGED <<cache, shown, excused>>

ChmodRpc ==
    LET t == tree[op.serv]
        ok == CanChmod(t, op.path)
    IN
    /\ Requested("chmod")
    /\ \/ /\ ok
          /\ Done([t EXCEPT ![op.path].mode = op.mode])
          /\ UNCHANGED faults
       \/ Refused(ok)
    /\ UNCHANGED <<cache, shown, excused>>

\* No server's rename changes anything in the cache.
RenameRpc ==
    LET ok == CanRename(tree[op.serv], op.path, op.to) IN
    /\ Requested("rename")
    /\ \/ /\ ok
          /\ Done(Renamed(tree[op.serv], op.path, op.to))
          /\ UNCHANGED faults
       \/ Refused(ok)
    /\ excused' = (excused \/ cache.path \in Touched(op))
    /\ UNCHANGED <<cache, shown>>

Returned ==
    /\ op.pc = "return"
    /\ op' = Idle
    /\ shown' = tree[1]
    /\ UNCHANGED <<tree, cache, faults, tainted, excused>>

\* r1_read, at one offset or at several, where the cache has no chunk of the
\* path for them: chunks of server 1's file, beside the path's others if any.
Read(p) ==
    /\ op = Idle
    /\ IsFile(tree[1], p)
    /\ IF cache.path = p
       THEN cache' = [cache EXCEPT !.files = @ \cup {tree[1][p].node}] /\ UNCHANGED excused
       ELSE cache' = [path |-> p, files |-> {tree[1][p].node}] /\ excused' = FALSE
    /\ UNCHANGED <<tree, op, faults, shown, tainted>>

-----------------------------------------------------------------------------
\* The mount's process dies, its cache with it. What it had sent is done.
ClientCrash ==
    /\ op.pc # "down"
    /\ Inject("clientCrash")
    /\ op' = Down
    /\ tainted' = IF op.pc = "request" /\ op.serv # First(op.kind)
                  THEN tainted \cup Touched(op) ELSE tainted
    /\ cache' = EmptyCache /\ excused' = FALSE
    /\ shown' = tree[1]
    /\ UNCHANGED tree

Remount ==
    /\ op.pc = "down"
    /\ op' = Idle
    /\ UNCHANGED <<tree, cache, faults, shown, tainted, excused>>

Call ==
    \/ \E p \in Path, f \in File, excl \in BOOLEAN : CallCreate(p, f, excl)
    \/ \E p \in Path : CallOpen(p) \/ CallUnlink(p) \/ CallRmdir(p) \/ Read(p)
    \/ \E p \in Path, m \in Mode : CallMkdir(p, m) \/ CallChmod(p, m)
    \/ \E p, q \in Path : CallRename(p, q)

Handler ==
    \/ CreateRpc
    \/ OpenRpc
    \/ UnlinkRpc
    \/ MkdirRpc
    \/ RmdirRpc
    \/ ChmodRpc
    \/ RenameRpc
    \/ Returned

Next == Call \/ Handler \/ ClientCrash \/ Remount

Spec == Init /\ [][Next]_vars

-----------------------------------------------------------------------------
(***************************************************************************)
(* Properties.                                                             *)
(***************************************************************************)
\* Between two calls the servers' trees are equal everywhere but where a call
\* was done by some servers only; and a later mkdir, rmdir, unlink or rename
\* that succeeds at such a path makes them equal there again.
Agreement ==
    op.pc # "request" =>
        \A p \in Path \ tainted : \A s \in Server : tree[s][p] = tree[1][p]

\* A create or an unlink that returns an error has changed nothing the
\* application can see: server 1, which getattr and readdir ask, is last. The
\* calls that go up (mkdir, rmdir, rename, chmod) do not have this, nor open,
\* which may copy server 2's file over server 1's.
FailedFileCallInvisible ==
    op.pc = "return" /\ ~op.ok /\ op.kind \in {"create", "unlink"} =>
        tree[1] = shown

\* Every chunk the cache holds is of the file now at its path, unless a rename
\* took that file away or put another there (r1_rename leaves the cache as it
\* is), an unlink met several chunks (deletePath leaves the second linked), or
\* the servers differ there: nothing else makes a read answer with another file.
StaleHasCause ==
    op.pc # "request" /\ cache # EmptyCache /\ ~excused /\ cache.path \notin tainted =>
        /\ IsFile(tree[1], cache.path)
        /\ cache.files = {tree[1][cache.path].node}
=============================================================================
