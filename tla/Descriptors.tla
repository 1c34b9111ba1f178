----------------------------- MODULE Descriptors -----------------------------
(***************************************************************************)
(* The file descriptors a mount's server processes keep: "cre", "opn",     *)
(* "rel", "odr", "rdr" and "rld" of net_raid_server.c, and the handlers of *)
(* nrfs_mount/mountRaid1.c that ask for them (mountRaid5.c has the same).  *)
(*                                                                         *)
(* A file handle of FUSE has one descriptor on every server, but keeps one *)
(* number only, that of the server asked last, server 1; the release sends *)
(* it to all. Directories are opened on server 1 only, and one variable,   *)
(* dr, stands for all of them. The reads and writes of files open and      *)
(* close a descriptor of their own and leave nothing behind. The handlers  *)
(* run one at a time. Covered: opens of files and of directories that fail *)
(* on one server, and the limit of open descriptors.                       *)
(***************************************************************************)
EXTENDS Naturals, FiniteSets

CONSTANTS
    NServers,   \* servers, 1 .. NServers
    Handle,     \* FUSE's open files
    Limit,      \* descriptors of a process (RLIMIT_NOFILE)
    NoFd,       \* no descriptor; a null DIR
    MaxDirs,    \* bound: directories open at a time
    MaxFaults   \* bound: opens that fail before the limit is reached

Server == 1 .. NServers
Fd == 0 .. Limit - 1

\* What a number stands for in a server process: the standard streams, the
\* connection, the file of a handle, a directory, or something that no handler
\* knows of any more.
What == {"free", "std", "conn", "dir", "lost"} \cup Handle

ASSUME DescriptorsAssumption ==
    /\ NServers \in Nat \ {0}
    /\ Limit \in Nat /\ Limit >= 5
    /\ NoFd \notin Fd
    /\ Handle \cap {"free", "std", "conn", "dir", "lost"} = {}
    /\ MaxDirs \in Nat /\ MaxFaults \in Nat

VARIABLES
    table,      \* table[s][n]: what n is in server s's process
    fh,         \* fh[h]: fi->fh of a handle, or NoFd if it is not open
    dr,         \* dr of server 1's process: the number of the DIR, or NoFd
    closed,     \* the DIR dr points to has been closed
    dirs,       \* directories FUSE has open
    dead,       \* server 1's process has crashed
    faults,     \* failed opens so far
    uneven,     \* history: the servers gave one file different numbers
    overlap,    \* history: two directories were open at a time
    refused,    \* history: server 1 could not open a directory to list it
    leaky       \* history: a directory was listed, or an open failed

vars == <<table, fh, dr, closed, dirs, dead, faults, uneven, overlap, refused, leaky>>

\* Variant with a bug: the child keeps the listening socket.
FreshListening ==
    [n \in Fd |-> IF n <= 2 THEN "std" ELSE IF n = 3 THEN "sfd"
                  ELSE IF n = 4 THEN "conn" ELSE "free"]

\* 0, 1 and 2; the listening socket, 3, is closed after the fork.
Fresh == [n \in Fd |-> IF n <= 2 THEN "std" ELSE IF n = 4 THEN "conn" ELSE "free"]

Init ==
    /\ table = [s \in Server |-> Fresh]
    /\ fh = [h \in Handle |-> NoFd]
    /\ dr = NoFd
    /\ closed = FALSE
    /\ dirs = 0
    /\ dead = FALSE
    /\ faults = 0
    /\ uneven = FALSE
    /\ overlap = FALSE
    /\ refused = FALSE
    /\ leaky = FALSE

-----------------------------------------------------------------------------
Full(t) == \A n \in Fd : t[n] # "free"

\* The number an open gets
Lowest(t) == CHOOSE n \in Fd : t[n] = "free" /\ \A m \in Fd : t[m] = "free" => n <= m

Opened(t, w) == [t EXCEPT ![Lowest(t)] = w]

\* Variant with a bug: the number kept is that of the server asked first.
KeptFirst(nums) == nums[NServers]

\* fi->fh, overwritten with every answer
KeptNumber(nums) == nums[1]

\* Variant with a bug: the release closes the number after the handle's.
ClosedNext(t, n) == IF n + 1 \in Fd THEN [t EXCEPT ![n + 1] = "free"] ELSE t

\* close(n): EBADF, which nobody looks at, if n is not open
Closed(t, n) == [t EXCEPT ![n] = "free"]

\* An open fails: at the limit, or for a reason of the file's or directory's own
\* (the mode chmod gave it, a name that is gone).
Fails(t) ==
    IF Full(t) THEN UNCHANGED faults ELSE faults < MaxFaults /\ faults' = faults + 1

\* No handler will close the descriptors of h that are still open.
Forgotten(t, h) == [n \in Fd |-> IF t[n] = h THEN "lost" ELSE t[n]]

-----------------------------------------------------------------------------
(***************************************************************************)
(* Files.                                                                  *)
(***************************************************************************)
\* r1_create and r1_open with every server opening the file
Open(h) ==
    /\ ~dead
    /\ fh[h] = NoFd
    /\ \A s \in Server : ~Full(table[s])
    /\ LET nums == [s \in Server |-> Lowest(table[s])]
       IN /\ fh' = [fh EXCEPT ![h] = KeptNumber(nums)]
          /\ uneven' = (uneven \/ \E s \in Server : nums[s] # nums[1])
    /\ table' = [s \in Server |-> Opened(table[s], h)]
    /\ UNCHANGED <<dr, closed, dirs, dead, faults, overlap, refused, leaky>>

\* Server f, asked after those above it, fails: the handler returns -1, and
\* what they opened stays open.
OpenFails(f) ==
    /\ ~dead
    /\ \A s \in f + 1 .. NServers : ~Full(table[s])
    /\ Fails(table[f])
    /\ table' = [s \in Server |-> IF s > f THEN Opened(table[s], "lost") ELSE table[s]]
    /\ leaky' = TRUE
    /\ UNCHANGED <<fh, dr, closed, dirs, dead, uneven, overlap, refused>>

\* Variant with a bug: only server 1 is told.
ReleasedOne(s, h) ==
    Forgotten(IF s = 1 THEN Closed(table[s], fh[h]) ELSE table[s], h)

Released(s, h) == Forgotten(Closed(table[s], fh[h]), h)

\* r1_release
Release(h) ==
    /\ ~dead
    /\ fh[h] # NoFd
    /\ table' = [s \in Server |-> Released(s, h)]
    /\ fh' = [fh EXCEPT ![h] = NoFd]
    /\ UNCHANGED <<dr, closed, dirs, dead, faults, uneven, overlap, refused, leaky>>

-----------------------------------------------------------------------------
(***************************************************************************)
(* Directories, on server 1.                                               *)
(***************************************************************************)
OnOne(t) == table' = [table EXCEPT ![1] = t]

\* dr is overwritten: the DIR it pointed to is no longer known.
WithoutDir == [n \in Fd |-> IF table[1][n] = "dir" THEN "lost" ELSE table[1][n]]

\* Nothing is answered, and FUSE takes the directory for open even if dr is null.
Opendir ==
    /\ ~dead
    /\ dirs < MaxDirs
    /\ dirs' = dirs + 1
    /\ overlap' = (overlap \/ dirs > 0)
    /\ closed' = FALSE
    /\ \/ /\ ~Full(WithoutDir)
          /\ OnOne(Opened(WithoutDir, "dir"))
          /\ dr' = Lowest(WithoutDir)
          /\ UNCHANGED faults
       \/ /\ Fails(WithoutDir)
          /\ OnOne(WithoutDir)
          /\ dr' = NoFd
    /\ UNCHANGED <<fh, dead, uneven, refused, leaky>>

\* "rdr" opens the directory a second time and does not close it. If that fails
\* it goes through a null DIR, and the process ends.
Readdir ==
    /\ ~dead
    /\ dirs > 0
    /\ \/ /\ ~Full(table[1])
          /\ OnOne(Opened(table[1], "lost"))
          /\ UNCHANGED <<dead, faults, refused>>
       \/ /\ Fails(table[1])
          /\ dead' = TRUE
          /\ refused' = (refused \/ ~Full(table[1]))
          /\ UNCHANGED table
    /\ leaky' = TRUE
    /\ UNCHANGED <<fh, dr, closed, dirs, uneven, overlap>>

\* Variant with a bug: the process does not survive a null DIR.
FatalNull == closed \/ dr = NoFd

\* closedir of a DIR that has been closed is undefined: the process may end.
\* closedir of a null one is an error.
Fatal == closed

\* ... or the number is closed once more, whatever it stands for now.
Releasedir ==
    /\ ~dead
    /\ dirs > 0
    /\ dirs' = dirs - 1
    /\ \/ /\ Fatal
          /\ dead' = TRUE
          /\ UNCHANGED <<table, closed>>
       \/ /\ IF dr = NoFd THEN UNCHANGED <<table, closed>>
             ELSE OnOne(Closed(table[1], dr)) /\ closed' = TRUE
          /\ UNCHANGED dead
    /\ UNCHANGED <<fh, dr, faults, uneven, overlap, refused, leaky>>

Next ==
    \/ \E h \in Handle : Open(h) \/ Release(h)
    \/ \E f \in Server : OpenFails(f)
    \/ Opendir \/ Readdir \/ Releasedir

Spec == Init /\ [][Next]_vars

-----------------------------------------------------------------------------
(***************************************************************************)
(* Properties.                                                             *)
(***************************************************************************)
TypeOK ==
    /\ table \in [Server -> [Fd -> What]]
    /\ fh \in [Handle -> Fd \cup {NoFd}]
    /\ dr \in Fd \cup {NoFd}
    /\ dirs \in 0 .. MaxDirs
    /\ faults \in 0 .. MaxFaults
    /\ {closed, dead, uneven, overlap, refused, leaky} \subseteq BOOLEAN

\* No release, of a file or of a directory, ever closes the connection: not
\* with the number of another server's descriptor, nor with a stale dr.
ConnectionStays == \A s \in Server : table[s][4] = "conn" /\ table[s][1] = "std"

\* The number of a handle is its own file's on server 1 as long as directories
\* are opened one at a time, and on every server as long as the servers also
\* gave each file the same number.
OwnDescriptor ==
    \A h \in Handle :
        fh[h] # NoFd /\ ~overlap =>
            /\ table[1][fh[h]] = h
            /\ ~uneven => \A s \in Server : table[s][fh[h]] = h

\* Nothing but a listing, a failed open, a file with different numbers and
\* overlapping directories leaves a descriptor behind.
NothingLeft ==
    /\ \A h \in Handle : fh[h] = NoFd
    /\ dirs = 0
    /\ ~leaky /\ ~uneven /\ ~overlap
    => table = [s \in Server |-> Fresh]

\* Server 1's process, which serves everything but the other copies, ends only
\* after directories overlapped, or by a listing it could not open the directory
\* for: at the limit, or because it was refused. A directory whose first open
\* failed, as nobody is told, can still be released.
CrashHasCause == dead => overlap \/ refused \/ Full(table[1])
=============================================================================
