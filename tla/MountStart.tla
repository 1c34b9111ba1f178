------------------------------ MODULE MountStart ------------------------------
(***************************************************************************)
(* net_raid_client from its start to its mounts: main and mountHandler of  *)
(* net_raid_client.c, the parser nrfs_parse/configParser.c, clientConnect  *)
(* of utilz/utilz.c and the beginnings of mainRunRaid1 and mainRunRaid5.   *)
(*                                                                         *)
(* The parser goes through the configuration file line by line; lines that *)
(* start with a newline separate blocks, and every block after the first   *)
(* is a disk. Then the process forks a child per disk; a child connects to *)
(* its disk's servers one after the other and mounts. Covered: a file that *)
(* is not in the agreed style (keys missing, repeated or unknown, several  *)
(* blank lines, a last line without its newline), a fork that fails, and   *)
(* servers that do not answer.                                             *)
(***************************************************************************)
EXTENDS Naturals, Sequences, FiniteSets

CONSTANTS
    File,       \* bound: the configuration files, sequences of lines
    Text,       \* values of the keys that keep text
    Address,    \* ip:port
    Uninit,     \* a field nobody set
    MaxDisks,   \* bound: blank lines of a file
    MaxFaults   \* bound: forks that fail

BasicKey == {"errorlog", "cache_size", "cache_replacment", "timeout"}
DiskKey == {"diskname", "mountpoint", "raid", "servers", "hotswap"}

\* One entry of a server list: glued if no space follows the comma before it
Listed == [addr : Address, glued : BOOLEAN]

ValueOf(key) == CASE key = "raid" -> 0 .. 9
                  [] key = "servers" -> Seq(Listed)
                  [] key = "hotswap" -> Address
                  [] OTHER -> Text

\* A line is blank, holds a key's value, or is anything else; nl: it ends in a
\* newline, as every line but the last does.
IsLine(l) ==
    \/ l \in [key : {"blank", "other"}, nl : BOOLEAN]
    \/ /\ l.key \in BasicKey \cup DiskKey
       /\ l.val \in ValueOf(l.key)
       /\ l.nl \in BOOLEAN

ASSUME MountStartAssumption ==
    /\ \A f \in File : f \in Seq({f[i] : i \in DOMAIN f})
    /\ \A f \in File : \A i \in 1 .. Len(f) :
          /\ IsLine(f[i])
          /\ i < Len(f) \/ f[i].key = "blank" => f[i].nl
          /\ f[i].key = "servers" => f[i].val # <<>>
    /\ \A f \in File : Cardinality({i \in DOMAIN f : f[i].key = "blank"}) <= MaxDisks
    /\ MaxDisks \in Nat \ {0}
    /\ MaxFaults \in Nat
    /\ Uninit \notin 0 .. 9

VARIABLES
    file,       \* the configuration file
    pc,         \* "parse", "mount", "exited", or "crashed"
    pos,        \* the next line
    nblock,     \* blockcounter
    basic,      \* basicInfo
    disks,      \* dList: logLen is its length
    mountN,     \* the argument of mountHandler
    child,      \* the processes forked, in order
    faults,     \* forks that have failed
    missed      \* history: disks whose fork failed

vars == <<file, pc, pos, nblock, basic, disks, mountN, child, faults, missed>>

NewDisk == [key \in DiskKey |-> Uninit]

Init ==
    /\ file \in File
    /\ pc = "parse"
    /\ pos = 1
    /\ nblock = 0
    /\ basic = [key \in BasicKey |-> Uninit]
    /\ disks = <<NewDisk>>
    /\ mountN = 0
    /\ child = <<>>
    /\ faults = 0
    /\ missed = {}

-----------------------------------------------------------------------------
(***************************************************************************)
(* The values. The last character of the line is taken for its newline and *)
(* dropped, whatever it is.                                                *)
(***************************************************************************)
\* getValuePart, manageCopying: the text, and whether its end is missing
Kept(v, nl) == [text |-> v, cut |-> ~nl]

\* getIntValuePart for a number of one digit: strtol of nothing is 0
IntKept(v, nl) == IF nl THEN v ELSE 0

\* parseAdressList goes on two characters after every comma.
ServersKept(list, nl) ==
    [n \in DOMAIN list |->
        [addr |-> list[n].addr, head |-> n > 1 /\ list[n].glued,
         tail |-> n = Len(list) /\ ~nl]]

FieldOf(l) == CASE l.key = "raid" -> IntKept(l.val, l.nl)
                [] l.key = "servers" -> ServersKept(l.val, l.nl)
                [] OTHER -> Kept(l.val, l.nl)

-----------------------------------------------------------------------------
(***************************************************************************)
(* parseConfig.                                                            *)
(***************************************************************************)
HandleBasic(l) ==
    IF l.key \in BasicKey THEN [basic EXCEPT ![l.key] = FieldOf(l)] ELSE basic

\* Variant with a bug: the list grows one line too early.
RoomEarly == IF nblock >= Len(disks) THEN Append(disks, NewDisk) ELSE disks

\* realloc leaves the new disk as it is; nblock is at most logLen + 1.
Room == IF nblock > Len(disks) THEN Append(disks, NewDisk) ELSE disks

\* A line in a disk's block, a blank one among them
HandleDisks(l) ==
    IF l.key \in DiskKey THEN [Room EXCEPT ![nblock][l.key] = FieldOf(l)] ELSE Room

ReadLine ==
    /\ pc = "parse" /\ pos <= Len(file)
    /\ LET l == file[pos] IN
       /\ IF nblock = 0
          THEN basic' = HandleBasic(l) /\ UNCHANGED disks
          ELSE disks' = HandleDisks(l) /\ UNCHANGED basic
       /\ nblock' = IF l.key = "blank" THEN nblock + 1 ELSE nblock
    /\ pos' = pos + 1
    /\ UNCHANGED <<file, pc, mountN, child, faults, missed>>

\* The end of the file. (A file that cannot be opened is like an empty one:
\* main ignores what parseConfig returns.)
ParseEnd ==
    /\ pc = "parse" /\ pos > Len(file)
    /\ pc' = "mount"
    /\ UNCHANGED <<file, pos, nblock, basic, disks, mountN, child, faults, missed>>

-----------------------------------------------------------------------------
(***************************************************************************)
(* mountHandler: one child per disk.                                       *)
(***************************************************************************)
\* Variants with a bug: the child is given the disk after its own, and the
\* first disk.
NewChildNext(k) == [disk |-> k + 1, at |-> "start", raid |-> Uninit, sfd |-> <<>>]
NewChildFirst(k) == [disk |-> 1, at |-> "start", raid |-> Uninit, sfd |-> <<>>]

NewChild(k) == [disk |-> k, at |-> "start", raid |-> Uninit, sfd |-> <<>>]

Fork ==
    /\ pc = "mount" /\ mountN < Len(disks)
    /\ child' = Append(child, NewChild(mountN + 1))
    /\ mountN' = mountN + 1
    /\ UNCHANGED <<file, pc, pos, nblock, basic, disks, faults, missed>>

\* fork returns -1, and mountHandler goes on as the parent does.
ForkFails ==
    /\ pc = "mount" /\ mountN < Len(disks)
    /\ faults < MaxFaults
    /\ faults' = faults + 1
    /\ missed' = missed \cup {mountN + 1}
    /\ mountN' = mountN + 1
    /\ UNCHANGED <<file, pc, pos, nblock, basic, disks, child>>

\* main frees the lists: pointers nobody set among them.
Outcomes == IF \A k \in 1 .. Len(disks) :
                   \A key \in DiskKey \ {"raid"} : disks[k][key] # Uninit
            THEN {"exited"} ELSE {"exited", "crashed"}

ParentEnd ==
    /\ pc = "mount" /\ mountN = Len(disks)
    /\ pc' \in Outcomes
    /\ UNCHANGED <<file, pos, nblock, basic, disks, mountN, child, faults, missed>>

-----------------------------------------------------------------------------
(***************************************************************************)
(* A child.                                                                *)
(***************************************************************************)
Disk(c) == disks[child[c].disk]

ChildGoes(c, new) ==
    /\ child' = [child EXCEPT ![c] = new]
    /\ UNCHANGED <<file, pc, pos, nblock, basic, disks, mountN, faults, missed>>

\* A raid nobody set is any number.
RaidOf(d) == IF d.raid = Uninit THEN {0, 1, 5} ELSE {d.raid}

\* Neither 1 nor 5: the child frees the lists and exits. 5 with one server:
\* chunkSz5 is a division by zero.
ChildStart(c) ==
    /\ child[c].at = "start"
    /\ \E r \in RaidOf(Disk(c)) :
          LET at == IF r \notin {1, 5} THEN "done"
                    ELSE IF Disk(c).servers = Uninit THEN "crashed"
                    ELSE IF r = 5 /\ Len(Disk(c).servers) = 1 THEN "crashed"
                    ELSE "connect"
          IN ChildGoes(c, [child[c] EXCEPT !.at = at, !.raid = r])

\* Variant with a bug: the list is walked from its end.
NextServerBackwards(c) == Len(Disk(c).servers) - Len(child[c].sfd)

NextServer(c) == Len(child[c].sfd) + 1

\* The room of allSFD, the first of which is not used: N_SERVERS in RAID-1,
\* whatever the disk's list says
SfdInts(c) == IF child[c].raid = 1 THEN 3 ELSE Len(Disk(c).servers) + 1

\* allSFD has room for the socket, and the log line has a name.
ConnectsSafely(c) == NextServer(c) < SfdInts(c) /\ Disk(c).diskname # Uninit

\* What connect returns is ignored. The socket goes into allSFD, and a line with
\* diskname into the log: past the end of the one, or through a pointer nobody
\* set, the process ends or goes on as if nothing had happened.
Connect(c) ==
    /\ child[c].at = "connect"
    /\ Len(child[c].sfd) < Len(Disk(c).servers)
    /\ \E up \in BOOLEAN,
          at \in IF ConnectsSafely(c) THEN {"connect"} ELSE {"connect", "crashed"} :
          ChildGoes(c, [child[c] EXCEPT !.at = at, !.sfd =
              Append(@, [addr |-> Disk(c).servers[NextServer(c)], up |-> up])])

\* Variant with a bug: every server must have answered.
ConnectedAll(c) ==
    /\ Len(child[c].sfd) = Len(Disk(c).servers)
    /\ \A n \in 1 .. Len(child[c].sfd) : child[c].sfd[n].up

Connected(c) == Len(child[c].sfd) = Len(Disk(c).servers)

\* fuse_main: it may refuse the mountpoint, and does not survive a pointer
\* nobody set.
Mount(c) ==
    /\ child[c].at = "connect"
    /\ Connected(c)
    /\ \E at \in IF Disk(c).mountpoint = Uninit THEN {"crashed", "failed"}
                                                 ELSE {"mounted", "failed"} :
          ChildGoes(c, [child[c] EXCEPT !.at = at])

ChildStep(c) == ChildStart(c) \/ Connect(c) \/ Mount(c)
ParentStep == ReadLine \/ ParseEnd \/ Fork \/ ForkFails \/ ParentEnd

Next == ParentStep \/ \E c \in 1 .. Len(child) : ChildStep(c)

\* Every process is scheduled; connect comes back at some time.
Spec ==
    /\ Init /\ [][Next]_vars
    /\ WF_vars(ParentStep)
    /\ \A c \in 1 .. MaxDisks : WF_vars(c <= Len(child) /\ ChildStep(c))

-----------------------------------------------------------------------------
(***************************************************************************)
(* Properties.                                                             *)
(***************************************************************************)
Kepts(V) == [text : V, cut : BOOLEAN]
Endpoint == [addr : Address, head : BOOLEAN, tail : BOOLEAN]

TypeOK ==
    /\ file \in File
    /\ pc \in {"parse", "mount", "exited", "crashed"}
    /\ pos \in 1 .. Len(file) + 1
    /\ nblock \in 0 .. Len(disks) + 1
    /\ basic \in [BasicKey -> Kepts(Text) \cup {Uninit}]
    /\ \A k \in 1 .. Len(disks) :
          /\ DOMAIN disks[k] = DiskKey
          /\ disks[k].raid \in 0 .. 9 \cup {Uninit}
          /\ disks[k].servers \in Seq(Endpoint) \cup {Uninit}
          /\ disks[k].hotswap \in Kepts(Address) \cup {Uninit}
          /\ {disks[k].diskname, disks[k].mountpoint} \subseteq Kepts(Text) \cup {Uninit}
    /\ mountN \in 0 .. Len(disks)
    /\ \A c \in 1 .. Len(child) :
          /\ child[c].disk \in 1 .. mountN
          /\ child[c].at \in {"start", "connect", "mounted", "failed", "done", "crashed"}
          /\ child[c].raid \in 0 .. 9 \cup {Uninit}
          /\ child[c].sfd \in Seq([addr : Endpoint, up : BOOLEAN])
    /\ faults \in 0 .. MaxFaults
    /\ missed \subseteq 1 .. mountN

\* What the agreed style says a file means: line i belongs to the block of as
\* many blank lines as come before it.
BlockOf(f, i) == Cardinality({j \in 1 .. i - 1 : f[j].key = "blank"})

LinesOf(f, k, key) == {i \in DOMAIN f : BlockOf(f, i) = k /\ f[i].key = key}

Meant(f, k, key) ==
    LET is == LinesOf(f, k, key)
    IN IF is = {} THEN Uninit
       ELSE FieldOf(f[CHOOSE i \in is : \A j \in is : j <= i])

\* After any line, the parser has exactly the disks of the blocks read so far,
\* each with the values of its own block, the last one where a key is repeated;
\* the first disk is there before its block is.
ParsedBlocks ==
    LET f == SubSeq(file, 1, pos - 1)
        last == IF f = <<>> THEN 0 ELSE BlockOf(f, Len(f))
    IN /\ Len(disks) = IF last = 0 THEN 1 ELSE last
       /\ \A k \in 1 .. Len(disks), key \in DiskKey : disks[k][key] = Meant(f, k, key)
       /\ \A key \in BasicKey : basic[key] = Meant(f, 0, key)

\* No disk is mounted by two processes.
NoDiskTwice ==
    \A c, d \in 1 .. Len(child) : c # d => child[c].disk # child[d].disk

\* A mounted process is of the raid its block of the file gives, and its n-th
\* socket, of those allSFD has room for, is of the n-th server listed there,
\* nothing cut off if the file is in the agreed style.
ServersInOrder ==
    \A c \in 1 .. Len(child) :
        child[c].at = "mounted" =>
            LET k == child[c].disk
                list == file[CHOOSE i \in LinesOf(file, k, "servers") :
                                 \A j \in LinesOf(file, k, "servers") : j <= i]
            IN /\ Len(child[c].sfd) = Len(list.val)
               /\ \A n \in 1 .. Len(list.val) : n < SfdInts(c) =>
                     /\ child[c].sfd[n].addr.addr = list.val[n].addr
                     /\ list.nl /\ ~list.val[n].glued =>
                           ~child[c].sfd[n].addr.head /\ ~child[c].sfd[n].addr.tail
               /\ \A i \in LinesOf(file, k, "raid") :
                     /\ \A j \in LinesOf(file, k, "raid") : j <= i
                     => file[i].val = child[c].raid

\* Disks with all a mount needs, and no more servers than it has room for
Complete(k) ==
    /\ k <= Len(disks)
    /\ disks[k].raid \in {1, 5}
    /\ \A key \in {"diskname", "mountpoint", "servers"} : disks[k][key] # Uninit
    /\ IF disks[k].raid = 1 THEN Len(disks[k].servers) <= 2
                            ELSE Len(disks[k].servers) >= 2

\* Every complete disk comes to fuse_main, which mounts it or refuses to,
\* whatever becomes of the others and of its servers, unless its fork failed.
EveryDiskMounted ==
    \A k \in 1 .. MaxDisks :
        (pc = "mount" /\ Complete(k)) ~>
            \/ k \in missed
            \/ \E c \in 1 .. Len(child) :
                  child[c].disk = k /\ child[c].at \in {"mounted", "failed"}
=============================================================================
