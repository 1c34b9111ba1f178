----------------------------- MODULE Raid1Proofs -----------------------------
(***************************************************************************)
(* Proofs that Inv (module Raid1Inv) is inductive, for every set of values,*)
(* file length, number of handles and number of faults, when the only      *)
(* faults are deaths of the client; and of what follows from it: the two   *)
(* copies mirror each other whenever a handle is open (r1_read relies on   *)
(* it), and a restore copies its source. When no chunk is cut short either *)
(* (the only fault is clientCrash), Raid1 implements StableStore.          *)
(***************************************************************************)
EXTENDS Raid1Inv, FileDataProofs

\* Requests to a server that is up are never refused.
LEMMA NotRefused ==
    ASSUME Faults \subseteq ClientFaults, Jobs
    PROVE  \A s \in Server : up[s] /\ ~Refuses(s)
BY DEF ClientFaults, Jobs, Refuses, Inject

\* The hash of an empty file, the all-zero string.
LEMMA EmptyHash == Sha1(<<>>) = NoHash /\ NoHash \in Hash
BY EmptyIsContents DEF Sha1, NoHash, Hash

\* Hashes of contents are hashes.
LEMMA HashType == \A d \in Contents : Sha1(d) \in Hash
BY DEF Hash

\* Files with the same hash have the same data, as r1_open takes for granted.
LEMMA Sha1Injective ==
    ASSUME NEW d \in Contents, NEW e \in Contents, Sha1(d) = Sha1(e)
    PROVE  d = e
BY DEF Sha1, NoHash

\* The parts of a copy that exists.
LEMMA CopyFacts ==
    ASSUME NEW c \in Copy
    PROVE  c # NoFile /\ c.data \in Contents /\ c.xattr \in Hash
BY NoFileAssumption DEF Copy

\* The offsets a handler passes stay within the file's bound.
LEMMA OffsetFacts ==
    /\ Offset \subseteq Nat /\ Offset \subseteq 0 .. MaxChunks
    /\ 0 \in 0 .. MaxChunks
    /\ \A o \in Offset : o + 1 \in 0 .. MaxChunks
BY DataAssumption DEF Offset

\* The handler's locals when no handler runs.
LEMMA IdleIsOp == Idle \in Op /\ Down \in Op
BY EmptyHash, OffsetFacts DEF Idle, Down, Op, PC, Server

\* Before the first create.
LEMMA InitInv == Init => Inv
<1> SUFFICES ASSUME Init PROVE Inv
  OBVIOUS
<1> USE DEF Init, Idle
<1>1. TypeOK
  BY EmptyHash, BoundsAssumption, DataAssumption DEF TypeOK, Op, EmptyCache, Key, PC, Server
<1>2. Jobs /\ Hashed /\ SecondFirst
  BY DEF Jobs, Hashed, SecondFirst, BothExist, Server
<1>3. InWrite /\ InCreate /\ InOpen /\ InRestore /\ InUnlink
  BY DEF InWrite, InCreate, InOpen, InRestore, InUnlink, Restoring
<1>4. Equal /\ AtRest
  BY DEF Equal, AtRest, BothExist, Server
<1> QED
  BY <1>1, <1>2, <1>3, <1>4 DEF Inv

\* Entering r1_create: no handle is open on a file that is not there.
LEMMA CallCreateInv ==
    ASSUME Inv, CallCreate PROVE Inv'
<1> USE DEF Inv, CallCreate, Idle
<1>0. disk[1] = NoFile
  BY DEF Jobs, Server
<1>1. TypeOK'
  BY EmptyHash, BoundsAssumption, DataAssumption DEF TypeOK, Op, PC, Server
<1>2. (Jobs /\ Hashed /\ SecondFirst)'
  BY DEF Jobs, Hashed, SecondFirst, BothExist, Server, Sound, Data, AwaitsWrite
<1>3. opens = 0
  BY <1>0 DEF Equal, BothExist, Restoring, Server, TypeOK, Op
<1>4. (InWrite /\ InCreate /\ InOpen /\ InRestore /\ InUnlink)'
  BY <1>0, <1>3 DEF InWrite, InCreate, InOpen, InRestore, InUnlink, Restoring
<1>5. (Equal /\ AtRest)'
  BY DEF Equal, AtRest, BothExist, Server, Restoring, Data, EmptyCache
<1> QED
  BY <1>1, <1>2, <1>4, <1>5

\* Entering r1_open.
LEMMA CallOpenInv ==
    ASSUME Inv, CallOpen PROVE Inv'
<1> USE DEF Inv, CallOpen, Idle
<1>0. disk[1] # NoFile
  BY DEF Jobs, Server
<1>1. TypeOK'
  BY EmptyHash, BoundsAssumption, DataAssumption DEF TypeOK, Op, PC, Server
<1>2. (Jobs /\ Hashed /\ SecondFirst)'
  BY DEF Jobs, Hashed, SecondFirst, BothExist, Server, Sound, Data, AwaitsWrite
<1>3. (InWrite /\ InCreate /\ InOpen /\ InRestore /\ InUnlink)'
  BY <1>0 DEF InWrite, InCreate, InOpen, InRestore, InUnlink, Restoring
<1>4. (Equal /\ AtRest)'
  BY DEF Equal, AtRest, BothExist, Server, Restoring, Data, EmptyCache
<1> QED
  BY <1>1, <1>2, <1>3, <1>4

\* Entering r1_read: the copies are not touched.
LEMMA CallReadInv ==
    ASSUME Inv, NEW o \in Offset, CallRead(o) PROVE Inv'
<1> USE DEF Inv, CallRead, Idle
<1>1. TypeOK'
  BY EmptyHash, OffsetFacts DEF TypeOK, Op, PC, Server
<1>2. (Jobs /\ Hashed /\ SecondFirst)'
  BY DEF Jobs, Hashed, SecondFirst, BothExist, Server, Sound, Data, AwaitsWrite
<1>3. (InWrite /\ InCreate /\ InOpen /\ InRestore /\ InUnlink)'
  BY DEF InWrite, InCreate, InOpen, InRestore, InUnlink, Restoring
<1>4. (Equal /\ AtRest)'
  BY DEF Equal, AtRest, BothExist, Server, Restoring, Data, EmptyCache
<1> QED
  BY <1>1, <1>2, <1>3, <1>4

\* Entering r1_write: the copies are equal, since a handle is open.
LEMMA CallWriteInv ==
    ASSUME Inv, NEW o \in Offset, NEW v \in Val, CallWrite(o, v) PROVE Inv'
<1> USE DEF Inv, CallWrite, Idle
<1>1. TypeOK'
  <2>1. op' \in Op
    BY EmptyHash, OffsetFacts DEF TypeOK, Op, PC, Server, Chunk
  <2> QED
    BY <2>1 DEF TypeOK
<1>2. (Jobs /\ Hashed /\ SecondFirst)'
  BY DEF Jobs, Hashed, SecondFirst, BothExist, Server, Sound, Data, AwaitsWrite
<1>3. BothExist /\ Data(1) = Data(2) /\ job[2] = "none"
  BY DEF Equal, Restoring, Jobs, AwaitsWrite, TypeOK, Op, Server
<1>4. (InWrite /\ InCreate /\ InOpen /\ InRestore /\ InUnlink)'
  BY <1>3 DEF InWrite, InCreate, InOpen, InRestore, InUnlink, Restoring,
              BothExist, Data, Server
<1>5. (Equal /\ AtRest)'
  BY DEF Equal, AtRest
<1> QED
  BY <1>1, <1>2, <1>4, <1>5

\* Entering r1_unlink: no handle is open.
LEMMA CallUnlinkInv ==
    ASSUME Inv, CallUnlink PROVE Inv'
<1> USE DEF Inv, CallUnlink, Idle
<1>0. disk[1] # NoFile
  BY DEF Jobs, Server
<1>1. TypeOK'
  BY EmptyHash, BoundsAssumption, DataAssumption DEF TypeOK, Op, PC, Server
<1>2. (Jobs /\ Hashed /\ SecondFirst)'
  BY DEF Jobs, Hashed, SecondFirst, BothExist, Server, Sound, Data, AwaitsWrite
<1>3. (InWrite /\ InCreate /\ InOpen /\ InRestore /\ InUnlink)'
  BY <1>0 DEF InWrite, InCreate, InOpen, InRestore, InUnlink, Restoring
<1>4. (Equal /\ AtRest)'
  BY DEF Equal, AtRest, BothExist, Server, Restoring, Data, EmptyCache
<1> QED
  BY <1>1, <1>2, <1>3, <1>4

\* r1_release changes no copy.
LEMMA ReleaseInv ==
    ASSUME Inv, Release PROVE Inv'
<1> USE DEF Inv, Release, Idle
<1>1. TypeOK'
  BY BoundsAssumption DEF TypeOK, Op
<1>2. (Jobs /\ Hashed /\ SecondFirst)'
  BY DEF Jobs, Hashed, SecondFirst, BothExist, Server, Sound, Data, AwaitsWrite
<1>3. (InWrite /\ InCreate /\ InOpen /\ InRestore /\ InUnlink)'
  BY DEF InWrite, InCreate, InOpen, InRestore, InUnlink, Restoring
<1>4. (Equal /\ AtRest)'
  BY BoundsAssumption
  DEF Equal, AtRest, BothExist, Server, Restoring, Data, EmptyCache, TypeOK, Op
<1> QED
  BY <1>1, <1>2, <1>3, <1>4

\* No server has work left while the handler waits for neither.
LEMMA NoWork ==
    ASSUME Inv, op.pc # "down", ~AwaitsWrite
    PROVE  /\ \A s \in Server : job[s] = "none"
           /\ \A s \in Server : disk[s] # NoFile => Sound(s)
BY DEF Inv, Jobs, Hashed, TypeOK, Op, Server

\* A copy that "cre" answers for is empty and sound: it is new, or an empty one
\* that a death between two "cre" left on server 2.
LEMMA CreatedFacts ==
    ASSUME Inv, op.pc = "create", NEW c \in Created(disk[op.serv])
    PROVE  c \in Copy /\ c # NoFile /\ c.data = <<>> /\ c.xattr = Sha1(c.data)
<1>1. disk[1] = NoFile /\ op.serv \in Server /\ \A s \in Server : job[s] = "none"
  BY NoWork DEF Inv, InCreate, TypeOK, Op, AwaitsWrite
<1>2. CASE disk[op.serv] = NoFile
  <2>1. c = [data |-> <<>>, xattr |-> NoHash]
    BY <1>2 DEF Created
  <2> QED
    BY <2>1, EmptyHash, EmptyIsContents, NoFileAssumption DEF Copy
<1>3. CASE disk[op.serv] # NoFile
  <2> DEFINE d == disk[op.serv]
  <2>1. d \in Copy /\ d.data = <<>> /\ d.xattr = Sha1(d.data)
    BY <1>1, <1>3 DEF Inv, TypeOK, Hashed, Sound, SecondFirst, Data, Server
  <2>2. c = d \/ c = [d EXCEPT !.data = <<>>]
    BY <1>3 DEF Created
  <2> HIDE DEF d
  <2>3. c = d
    BY <2>1, <2>2 DEF Copy
  <2> QED
    BY <2>1, <2>3, CopyFacts
<1> QED
  BY <1>2, <1>3

\* One "cre" of r1_create: the copy it leaves is empty, and after server 1's
\* both are. With O_EXCL it may also change nothing.
LEMMA CreateRpcInv ==
    ASSUME Faults \subseteq ClientFaults, Inv, CreateRpc PROVE Inv'
<1> USE DEF Inv
<1>1. op.pc = "create" /\ opens = 0 /\ disk[1] = NoFile /\ op.serv \in Server
  BY DEF CreateRpc, InCreate, TypeOK, Op
<1>2. \A s \in Server : job[s] = "none"
  BY <1>1, NoWork DEF AwaitsWrite
<1>3. CASE Return /\ UNCHANGED <<disk, up, job, cache, faults>>
  <2> USE <1>1, <1>2, <1>3 DEF Return
  <2>1. TypeOK'
    BY IdleIsOp DEF TypeOK
  <2>2. (Jobs /\ Hashed /\ SecondFirst)'
    BY DEF Jobs, Hashed, SecondFirst, BothExist, Server, Sound, Data
  <2>3. (InWrite /\ InCreate /\ InOpen /\ InRestore /\ InUnlink)'
    BY DEF InWrite, InCreate, InOpen, InRestore, InUnlink, Restoring, Idle
  <2>4. (Equal /\ AtRest)'
    BY DEF Equal, AtRest, BothExist, Server, Idle
  <2> QED
    BY <2>1, <2>2, <2>3, <2>4
<1>4. CASE \E c \in Created(disk[op.serv]) :
              /\ disk' = [disk EXCEPT ![op.serv] = c]
              /\ faults' = faults /\ UNCHANGED <<up, job, cache>>
              /\ IF op.serv = 2 THEN op' = [op EXCEPT !.serv = 1] /\ opens' = opens
                                ELSE op' = Idle /\ opens' = opens + 1
  <2>1. PICK c \in Created(disk[op.serv]) :
              /\ disk' = [disk EXCEPT ![op.serv] = c]
              /\ faults' = faults /\ UNCHANGED <<up, job, cache>>
              /\ IF op.serv = 2 THEN op' = [op EXCEPT !.serv = 1] /\ opens' = opens
                                ELSE op' = Idle /\ opens' = opens + 1
    BY <1>4
  <2>2. c \in Copy /\ c # NoFile /\ c.data = <<>> /\ c.xattr = Sha1(c.data)
    BY <1>1, CreatedFacts
  <2>3. TypeOK'
    BY <1>1, <2>1, <2>2, EmptyHash, BoundsAssumption, DataAssumption
    DEF TypeOK, Op, Idle, PC, Server
  <2>4. (Jobs /\ Hashed /\ SecondFirst)'
    BY <1>1, <1>2, <2>1, <2>2
    DEF TypeOK, Op, Jobs, Hashed, SecondFirst, BothExist, Server, Sound, Data
  <2>5. (InWrite /\ InCreate /\ InOpen /\ InRestore /\ InUnlink)'
    BY <1>1, <2>1, <2>2
    DEF InWrite, InCreate, InOpen, InRestore, InUnlink, Restoring, Idle, TypeOK, Op, Server
  <2>6. CASE op.serv = 2
    <3>1. (Equal /\ AtRest)'
      BY <1>1, <2>1, <2>6 DEF Equal, AtRest, BothExist, Server, Restoring, TypeOK, Op
    <3> QED
      BY <2>3, <2>4, <2>5, <3>1
  <2>7. CASE op.serv = 1
    <3>1. disk[2] # NoFile /\ Data(2) = <<>>
      BY <1>1, <2>7 DEF InCreate, SecondFirst
    <3>2. BothExist' /\ Data(1)' = Data(2)'
      BY <1>1, <2>1, <2>2, <2>7, <3>1 DEF BothExist, Data, Server, TypeOK, Op
    <3>3. (Equal /\ AtRest)'
      BY <2>1, <2>7, <3>2 DEF Equal, AtRest, Idle
    <3> QED
      BY <2>3, <2>4, <2>5, <3>3
  <2> QED
    BY <1>1, <2>6, <2>7 DEF Server
<1> QED
  BY <1>1, <1>3, <1>4, NotRefused DEF CreateRpc, Answers, ReturnHandle

\* What a server that is up answers to "opn" when its copy is sound.
LEMMA SoundHashes ==
    ASSUME Inv, NEW s \in Server, disk[s] # NoFile, Sound(s)
    PROVE  Hashes(s) = {[stored |-> Sha1(Data(s)), computed |-> Sha1(Data(s))]}
BY DEF Inv, Jobs, Hashes, Sound, Data

\* One "opn" of r1_open: when both have answered, either the copies are equal
\* and the handle is opened, or server 2's is copied to server 1.
LEMMA OpenRpcInv ==
    ASSUME Faults \subseteq ClientFaults, Inv, OpenRpc PROVE Inv'
<1> USE DEF Inv
<1>1. op.pc = "open" /\ opens < MaxOpens /\ disk[1] # NoFile /\ op.serv \in Server
  BY DEF OpenRpc, InOpen, TypeOK, Op
<1>2. /\ \A s \in Server : job[s] = "none"
      /\ \A s \in Server : disk[s] # NoFile => Sound(s)
  BY <1>1, NoWork DEF AwaitsWrite
<1>12. ~Inject("ioError")
  BY DEF ClientFaults, Inject
<1>3. UNCHANGED <<disk, up, job, cache, faults>>
  BY <1>1, <1>12, NotRefused DEF OpenRpc
<1>4. \A s \in Server : disk[s] # NoFile => Data(s) \in Contents /\ disk[s].xattr \in Hash
  BY CopyFacts DEF TypeOK, Op, Data
<1>5. (Jobs /\ Hashed /\ SecondFirst)'
  BY <1>2, <1>3 DEF Jobs, Hashed, SecondFirst, BothExist, Server, Sound, Data
<1>6. CASE op' = Idle /\ opens' = opens
  <2>1. TypeOK'
    BY <1>3, <1>6, EmptyHash, OffsetFacts DEF TypeOK, Op, Idle, PC, Server
  <2>2. (InWrite /\ InCreate /\ InOpen /\ InRestore /\ InUnlink)'
    BY <1>6 DEF InWrite, InCreate, InOpen, InRestore, InUnlink, Restoring, Idle
  <2>3. (Equal /\ AtRest)'
    BY <1>1, <1>3, <1>6
    DEF Equal, AtRest, BothExist, Server, Restoring, Data, EmptyCache, Idle
  <2> QED
    BY <1>5, <2>1, <2>2, <2>3
<1>7. CASE /\ op.serv = 2 /\ disk[2] # NoFile /\ opens' = opens
           /\ op' = [op EXCEPT !.serv = 1,
                               !.seen = [stored |-> Sha1(Data(2)),
                                         computed |-> Sha1(Data(2))]]
  <2>1. Sha1(Data(2)) \in Hash
    BY <1>4, <1>7, HashType DEF Server
  <2>2. TypeOK'
    BY <1>3, <1>7, <2>1 DEF TypeOK, Op, Server
  <2>3. (InWrite /\ InCreate /\ InOpen /\ InRestore /\ InUnlink)'
    BY <1>1, <1>2, <1>3, <1>7
    DEF InWrite, InCreate, InOpen, InRestore, InUnlink, Restoring, TypeOK, Op,
        Server, Data, Sound
  <2>4. (Equal /\ AtRest)'
    BY <1>1, <1>3, <1>7
    DEF Equal, AtRest, BothExist, Server, Restoring, Data, EmptyCache, TypeOK, Op
  <2> QED
    BY <1>5, <2>2, <2>3, <2>4
<1>8. CASE /\ op.serv = 1 /\ disk[2] # NoFile /\ Data(1) = Data(2)
           /\ op' = Idle /\ opens' = opens + 1
  <2>1. TypeOK'
    BY <1>1, <1>3, <1>8, EmptyHash, OffsetFacts, BoundsAssumption
    DEF TypeOK, Op, Idle, PC, Server
  <2>2. (InWrite /\ InCreate /\ InOpen /\ InRestore /\ InUnlink)'
    BY <1>8 DEF InWrite, InCreate, InOpen, InRestore, InUnlink, Restoring, Idle
  <2>3. (Equal /\ AtRest)'
    BY <1>1, <1>3, <1>8 DEF Equal, AtRest, BothExist, Server, Data, Idle
  <2> QED
    BY <1>5, <2>1, <2>2, <2>3
<1>9. CASE /\ op.serv = 1 /\ disk[2] # NoFile /\ Data(1) # Data(2)
           /\ op' = [Idle EXCEPT !.pc = "stat", !.serv = 1] /\ opens' = opens
  <2>1. TypeOK'
    BY <1>3, <1>9, EmptyHash, OffsetFacts DEF TypeOK, Op, Idle, PC, Server
  <2>2. BothExist /\ opens = 0 /\ cache[2] = EmptyCache[2]
    BY <1>1, <1>9, BoundsAssumption
    DEF Equal, Restoring, BothExist, Server, Data, TypeOK, Op
  <2>3. Data(2) # <<>>
    BY <1>9, <2>2 DEF SecondFirst
  <2>4. (InWrite /\ InCreate /\ InOpen /\ InRestore /\ InUnlink)'
    BY <1>3, <1>9, <2>2, <2>3
    DEF InWrite, InCreate, InOpen, InRestore, InUnlink, Restoring, Idle, Data,
        BothExist, Server, EmptyCache, Key
  <2>5. (Equal /\ AtRest)'
    BY <1>9 DEF Equal, AtRest, Restoring, Idle
  <2> QED
    BY <1>5, <2>1, <2>4, <2>5
<1>10. CASE op.serv = 2 /\ ~(op' = Idle /\ opens' = opens)
  <2>1. disk[2] # NoFile
    BY <1>1, <1>10, NotRefused DEF OpenRpc, Return
  <2>2. /\ op' = [op EXCEPT !.serv = 1,
                            !.seen = [stored |-> Sha1(Data(2)),
                                      computed |-> Sha1(Data(2))]]
        /\ opens' = opens
    <3>1. Hashes(2) = {[stored |-> Sha1(Data(2)), computed |-> Sha1(Data(2))]}
      BY <1>2, <2>1, SoundHashes DEF Server
    <3>2. \E h \in Hashes(2) : OpenAnswered(h)
      BY <1>1, <1>10, <1>12, <2>1, NotRefused DEF OpenRpc, Return
    <3> QED
      BY <1>10, <3>1, <3>2 DEF OpenAnswered
  <2> QED
    BY <1>7, <1>10, <2>1, <2>2
<1>11. CASE op.serv = 1 /\ ~(op' = Idle /\ opens' = opens)
  <2> DEFINE h == [stored |-> Sha1(Data(1)), computed |-> Sha1(Data(1))]
             from == RestoreFrom(h, op.seen)
  <2>1. /\ disk[2] # NoFile
        /\ op.seen = [stored |-> Sha1(Data(2)), computed |-> Sha1(Data(2))]
    BY <1>1, <1>2, <1>11 DEF InOpen, Sound, Data, Server
  <2>2. Hashes(1) = {h}
    BY <1>1, <1>2, SoundHashes DEF Server
  <2>3. OpenDecided(from)
    <3>1. ~Refuses(op.serv)
      BY <1>1, NotRefused
    <3>2. ~ (Return /\ UNCHANGED <<disk, faults>>)
      BY <1>11 DEF Return
    <3>3. \E g \in Hashes(op.serv) : OpenAnswered(g)
      BY <1>12, <3>1, <3>2 DEF OpenRpc
    <3> QED
      BY <1>11, <2>2, <3>3 DEF OpenAnswered
  <2>4. from = IF Sha1(Data(1)) = Sha1(Data(2)) THEN 0 ELSE 2
    BY <2>1 DEF RestoreFrom
  <2>5. Sha1(Data(1)) = Sha1(Data(2)) <=> Data(1) = Data(2)
    BY <1>1, <1>4, <2>1, Sha1Injective DEF Server
  <2>6. CASE Data(1) = Data(2)
    <3>1. op' = Idle /\ opens' = opens + 1
      BY <2>3, <2>4, <2>5, <2>6 DEF OpenDecided, ReturnHandle
    <3> QED
      BY <1>8, <1>11, <2>1, <2>6, <3>1
  <2>7. CASE Data(1) # Data(2)
    <3>1. op' = [Idle EXCEPT !.pc = "stat", !.serv = 1] /\ opens' = opens
      <4>1. from = 2 /\ Other(from) = 1
        BY <2>4, <2>5, <2>7 DEF Other
      <4>2. op' = [Idle EXCEPT !.pc = "stat", !.serv = Other(from)] /\ opens' = opens
        BY <2>3, <4>1 DEF OpenDecided
      <4> QED
        BY <4>1, <4>2
    <3> QED
      BY <1>9, <1>11, <2>1, <2>7, <3>1
  <2> QED
    BY <2>6, <2>7
<1> QED
  BY <1>1, <1>6, <1>10, <1>11 DEF Server

\* What Inv says while a restore runs.
LEMMA RestoreFacts ==
    ASSUME Inv, Restoring
    PROVE  /\ BothExist /\ opens = 0 /\ op.serv = 1
           /\ Data(1) \in Contents /\ Data(2) \in Contents /\ Data(2) # <<>>
           /\ Len(Data(2)) \in 1 .. MaxChunks
           /\ up[1] /\ up[2] /\ Other(op.serv) = 2
           /\ job[2] = "none"
<1>1. BothExist /\ opens = 0 /\ op.serv = 1 /\ Data(2) # <<>>
  BY DEF Inv, InRestore
<1>2. Data(1) \in Contents /\ Data(2) \in Contents
  BY <1>1, CopyFacts DEF Inv, TypeOK, Op, BothExist, Data, Server
<1>3. Len(Data(2)) \in 1 .. MaxChunks
  BY <1>1, <1>2, ContentsAreSequences, EmptySeq, DataAssumption
<1>4. up[1] /\ up[2] /\ Other(op.serv) = 2 /\ job[2] = "none"
  BY <1>1 DEF Inv, Jobs, Server, Other, Restoring, AwaitsWrite, TypeOK, Op
<1> QED
  BY <1>1, <1>2, <1>3, <1>4

\* The restore learns the length of server 2's copy, which is not empty, so that
\* its loop is entered.
LEMMA StatRpcInv ==
    ASSUME Faults \subseteq ClientFaults, Inv, StatRpc PROVE Inv'
<1>1. op.pc = "stat" /\ Restoring
  BY DEF StatRpc, Restoring
<1> DEFINE n == Len(Data(2))
<1>2. /\ BothExist /\ opens = 0 /\ op.serv = 1 /\ op.off = 0 /\ op.rd = 0
      /\ n \in 1 .. MaxChunks /\ up[2] /\ Other(op.serv) = 2
  BY <1>1, RestoreFacts DEF Inv, InRestore
<1>3. /\ op' = [op EXCEPT !.size = n, !.val = Junk, !.pc = "rread"]
      /\ UNCHANGED <<disk, up, job, cache, faults, opens>>
  <2>1. op \in Op
    BY DEF Inv, TypeOK, Op
  <2>2. RestoreLoop([op EXCEPT !.size = n, !.val = Junk])
    BY <1>2 DEF StatRpc, Data, Inject, ClientFaults
  <2>3. UNCHANGED <<disk, up, job, cache, faults>>
    BY <1>2 DEF StatRpc, Inject, ClientFaults
  <2> QED
    BY <1>2, <2>1, <2>2, <2>3, DataAssumption DEF RestoreLoop
<1> USE DEF Inv
<1>4. TypeOK'
  <2>1. n \in 0 .. MaxChunks /\ Junk \in Chunk /\ "rread" \in PC
    BY <1>2, DataAssumption DEF PC, Chunk
  <2> QED
    BY <1>3, <2>1 DEF TypeOK, Op
<1>5. (Jobs /\ Hashed /\ SecondFirst)'
  BY <1>1, <1>3
  DEF Jobs, Hashed, SecondFirst, BothExist, Server, Sound, Data, AwaitsWrite, TypeOK, Op
<1>6. (InWrite /\ InCreate /\ InOpen /\ InRestore /\ InUnlink)'
  BY <1>1, <1>2, <1>3, DataAssumption
  DEF InWrite, InCreate, InOpen, InRestore, InUnlink, Restoring, TypeOK, Op,
      Data, BothExist, Server, Restored
<1>7. (Equal /\ AtRest)'
  BY <1>3 DEF Equal, AtRest, Restoring, TypeOK, Op
<1> QED
  BY <1>4, <1>5, <1>6, <1>7

\* r1_read inside the restore returns server 2's chunk, from the server or from
\* the entries this restore cached.
LEMMA RestoreReadInv ==
    ASSUME Faults \subseteq ClientFaults, Inv, RestoreRead PROVE Inv'
<1>1. op.pc = "rread" /\ Restoring
  BY DEF RestoreRead, RestoreReadFrom, Restoring
<1> DEFINE v == Data(2)[op.off + 1]
<1>2. /\ BothExist /\ opens = 0 /\ op.serv = 1 /\ op.rd = op.off
      /\ op.size = Len(Data(2)) /\ op.off < op.size /\ Restored(op.off)
      /\ Data(2) \in Contents /\ Len(Data(2)) \in 1 .. MaxChunks
      /\ up[2] /\ Other(op.serv) = 2 /\ op.off \in 0 .. MaxChunks
      /\ job[1] = "none" /\ job[2] = "none"
  BY <1>1, RestoreFacts, NoWork DEF Inv, InRestore, TypeOK, Op, AwaitsWrite, Server
<1>3. /\ op.off \in Offset /\ op.off + 1 \in 0 .. MaxChunks
      /\ ChunkAt(Data(2), op.off) = v /\ v \in Chunk /\ v # NoChunk
  BY <1>2, ContentsAreSequences, DataAssumption DEF Offset, ChunkAt, Chunk
<1>4. cache[2][op.off] \in {NoChunk, v}
  BY <1>1, <1>3 DEF Inv, InRestore
<1>5. /\ op' = [op EXCEPT !.pc = "rsend", !.val = v, !.rd = op.off + 1]
      /\ cache' \in {cache, [cache EXCEPT ![2][op.off] = v]}
      /\ UNCHANGED <<disk, faults, up, job, opens>>
  <2>1. ~Refuses(2) /\ Jobs
    BY NotRefused DEF Inv, Server
  <2>2. PICK x \in Chunk \cup {NoChunk} :
           ReadChunk(2, 2, op.off, x) /\ op' = RestoreGot(x)
    BY <1>2, <2>1 DEF RestoreRead, RestoreReadFrom, ReadFails
  <2>3. x = v
    BY <1>2, <1>3, <1>4, <2>2 DEF ReadChunk, Data
  <2> QED
    BY <1>2, <1>3, <2>2, <2>3
    DEF ReadChunk, RestoreGot, AddInCache, RestoreRead, RestoreReadFrom
<1> USE DEF Inv
<1>6. TypeOK'
  <2>1. cache' \in [Key -> [Offset -> Chunk \cup {NoChunk}]]
    BY <1>3, <1>5 DEF TypeOK, Op, Key
  <2>2. "rsend" \in PC
    BY DEF PC
  <2> QED
    BY <1>3, <1>5, <2>1, <2>2 DEF TypeOK, Op
<1>7. (Jobs /\ Hashed /\ SecondFirst)'
  BY <1>2, <1>5
  DEF Jobs, Hashed, SecondFirst, BothExist, Server, Sound, Data
<1>8. \A o \in Offset : cache'[2][o] \in {NoChunk, ChunkAt(Data(2), o)}
  BY <1>1, <1>3, <1>5 DEF InRestore, TypeOK, Op, Key
<1>9. (InWrite /\ InCreate /\ InOpen /\ InRestore /\ InUnlink)'
  BY <1>1, <1>2, <1>5, <1>8
  DEF InWrite, InCreate, InOpen, InRestore, InUnlink, Restoring, TypeOK, Op,
      Data, BothExist, Server, Restored
<1>10. (Equal /\ AtRest)'
  BY <1>5 DEF Equal, AtRest, Restoring, TypeOK, Op
<1> QED
  BY <1>6, <1>7, <1>9, <1>10

\* The disks after pwrite or ftruncate on one of them.
LEMMA DiskFacts ==
    ASSUME TypeOK, NEW s \in Server, disk[s] # NoFile,
           NEW d \in Contents
    PROVE  LET new == [disk EXCEPT ![s].data = d] IN
           /\ new \in [Server -> Copy \cup {NoFile}]
           /\ new[s] # NoFile /\ new[s].data = d
           /\ \A t \in Server \ {s} : new[t] = disk[t]
<1>1. disk \in [Server -> Copy \cup {NoFile}] /\ disk[s] \in Copy
  BY DEF TypeOK, Op
<1>2. [disk[s] EXCEPT !.data = d] \in Copy /\ [disk[s] EXCEPT !.data = d].data = d
  BY <1>1 DEF Copy
<1> QED
  BY <1>1, <1>2, CopyFacts

\* The disks after setXhash on one of them.
LEMMA XattrFacts ==
    ASSUME TypeOK, NEW s \in Server, disk[s] # NoFile,
           NEW x \in Hash
    PROVE  LET new == [disk EXCEPT ![s].xattr = x] IN
           /\ new \in [Server -> Copy \cup {NoFile}]
           /\ new[s] # NoFile /\ new[s].xattr = x /\ new[s].data = disk[s].data
           /\ \A t \in Server \ {s} : new[t] = disk[t]
<1>1. disk \in [Server -> Copy \cup {NoFile}] /\ disk[s] \in Copy
  BY DEF TypeOK, Op
<1>2. /\ [disk[s] EXCEPT !.xattr = x] \in Copy
      /\ [disk[s] EXCEPT !.xattr = x].xattr = x
      /\ [disk[s] EXCEPT !.xattr = x].data = disk[s].data
  BY <1>1 DEF Copy
<1> QED
  BY <1>1, <1>2, CopyFacts

\* The pwrite of the application's chunk on server 2, then on server 1.
LEMMA WritePwriteInv ==
    ASSUME Faults \subseteq ClientFaults, Inv, WritePwrite, op.pc = "write"
    PROVE  Inv'
<1> USE DEF Inv
<1> DEFINE s == op.serv
           d == Pwrite(Data(s), op.off, op.val)
<1>1. /\ s \in Server /\ BothExist /\ opens > 0
      /\ op.off \in Offset /\ op.val \in Chunk
      /\ job[s] = "none" /\ Data(s) \in Contents /\ disk[s] # NoFile
  BY CopyFacts DEF TypeOK, Op, InWrite, WritePwrite, BothExist, Data, Chunk
<1>2. d \in Contents /\ d # <<>>
  BY <1>1, PwriteIsContents
<1>3. /\ disk' = [disk EXCEPT ![s].data = d]
      /\ job' = [job EXCEPT ![s] = "hash"]
      /\ UNCHANGED <<op, opens, faults, up, cache>>
  BY DEF WritePwrite, Written, Inject, ClientFaults, Data
<1>4. /\ disk' \in [Server -> Copy \cup {NoFile}]
      /\ disk'[s] # NoFile /\ Data(s)' = d
      /\ \A t \in Server \ {s} : disk'[t] = disk[t]
  BY <1>1, <1>2, <1>3, DiskFacts DEF Data
<1> HIDE DEF s, d
<1>5. TypeOK'
  BY <1>3, <1>4 DEF TypeOK, Op
<1>6. BothExist'
  BY <1>1, <1>4 DEF BothExist, Server
<1>7. (Jobs /\ Hashed)'
  BY <1>1, <1>3, <1>4, <1>6
  DEF Jobs, Hashed, Server, Sound, TypeOK, Op, AwaitsWrite, BothExist, s
<1>8. SecondFirst'
  <2>1. Data(2)' # <<>>
    <3>1. CASE s = 2
      BY <1>2, <1>3, <1>4, <3>1 DEF s
    <3>2. CASE s = 1
      <4>1. Data(2) = Pwrite(Data(1), op.off, op.val)
        BY <1>1, <3>2 DEF InWrite, s
      <4>2. Data(2)' = Data(2)
        BY <1>4, <3>2 DEF Data, Server
      <4> QED
        BY <1>2, <3>2, <4>1, <4>2 DEF d, s
    <3> QED
      BY <1>1, <3>1, <3>2 DEF Server
  <2> QED
    BY <1>6, <2>1 DEF SecondFirst, BothExist, Server
<1>9. InWrite'
  BY <1>1, <1>3, <1>4, <1>6 DEF InWrite, Data, Server, TypeOK, Op, s, d
<1>10. (InCreate /\ InOpen /\ InRestore /\ InUnlink)'
  BY <1>3 DEF InCreate, InOpen, InRestore, InUnlink, Restoring
<1>11. (Equal /\ AtRest)'
  BY <1>3 DEF Equal, AtRest
<1> QED
  BY <1>5, <1>7, <1>8, <1>9, <1>10, <1>11

\* The pwrite and ftruncate of a restored chunk on server 1.
LEMMA RestorePwriteInv ==
    ASSUME Faults \subseteq ClientFaults, Inv, WritePwrite, op.pc = "rsend"
    PROVE  Inv'
<1> USE DEF Inv
<1> DEFINE v == Data(2)[op.off + 1]
           d == SubSeq(Pwrite(Data(1), op.off, v), 1, op.off + 1)
<1>1. /\ BothExist /\ opens = 0 /\ op.serv = 1 /\ op.rd = op.off + 1
      /\ op.size = Len(Data(2)) /\ op.off < op.size /\ job[1] = "none"
      /\ Restored(op.off) /\ op.val = v
      /\ Data(1) \in Contents /\ Data(2) \in Contents /\ Data(2) # <<>>
      /\ Len(Data(2)) \in 1 .. MaxChunks /\ disk[1] # NoFile
  BY RestoreFacts DEF InRestore, Restoring, WritePwrite, BothExist, Server
<1>2. op.off \in Offset /\ v \in Chunk /\ op.off + 1 \in 0 .. Len(Data(2))
  <2>1. op.off \in 0 .. MaxChunks /\ MaxChunks \in Nat
    BY DataAssumption DEF TypeOK, Op
  <2>2. op.off \in Offset /\ op.off + 1 \in 1 .. Len(Data(2))
    BY <1>1, <2>1 DEF Offset
  <2> QED
    BY <1>1, <2>2, ContentsAreSequences
<1>3. d = SubSeq(Data(2), 1, op.off + 1)
  BY <1>1, <1>2, RestoreExtends DEF Restored
<1>4. d \in Contents
  <2> HIDE DEF d, v
  <2> QED
    BY <1>1, <1>2, <1>3, PrefixIsContents
<1>5. /\ disk' = [disk EXCEPT ![1].data = d]
      /\ job' = [job EXCEPT ![1] = "hash"]
      /\ UNCHANGED <<op, opens, faults, up, cache>>
  BY <1>1 DEF WritePwrite, Written, Inject, ClientFaults, Data
<1>6. /\ disk' \in [Server -> Copy \cup {NoFile}]
      /\ disk'[1] # NoFile /\ disk'[1].data = d
      /\ disk'[2] = disk[2]
  <2> HIDE DEF d
  <2> QED
    BY <1>1, <1>4, <1>5, DiskFacts DEF Server
<1> HIDE DEF v, d
<1>7. TypeOK'
  BY <1>5, <1>6 DEF TypeOK, Op
<1>8. BothExist' /\ Data(1)' = d /\ Data(2)' = Data(2)
  BY <1>1, <1>6 DEF BothExist, Server, Data
<1>9. (Jobs /\ Hashed)'
  BY <1>1, <1>5, <1>6, <1>8
  DEF Jobs, Hashed, Server, Sound, TypeOK, Op, AwaitsWrite, BothExist
<1>10. SecondFirst'
  BY <1>1, <1>8 DEF SecondFirst, BothExist, Server
<1>11. InRestore'
  BY <1>1, <1>3, <1>5, <1>8
  DEF InRestore, Restoring, Restored, TypeOK, Op, Server, v
<1>12. (InWrite /\ InCreate /\ InOpen /\ InUnlink)'
  BY <1>5 DEF InWrite, InCreate, InOpen, InUnlink
<1>13. (Equal /\ AtRest)'
  BY <1>5 DEF Equal, AtRest, Restoring
<1> QED
  BY <1>7, <1>9, <1>10, <1>11, <1>12, <1>13

\* setXhash, whoever waits for it.
LEMMA SetXhashFacts ==
    ASSUME Faults \subseteq ClientFaults, Inv, NEW s \in Server, WriteSetXhash(s)
    PROVE  /\ BothExist /\ job[s] = "hash"
           /\ UNCHANGED <<faults, up, cache>>
           /\ job' = [job EXCEPT ![s] = "none"]
           /\ disk' \in [Server -> Copy \cup {NoFile}]
           /\ BothExist' /\ Data(1)' = Data(1) /\ Data(2)' = Data(2)
           /\ IF op.pc = "down" THEN UNCHANGED <<op, opens>>
              ELSE AwaitsWrite /\ op.serv = s /\ WriteReplied(TRUE)
           /\ (Jobs /\ Hashed /\ SecondFirst)'
<1> USE DEF Inv
<1>1. BothExist /\ job[s] = "hash" /\ disk[s] # NoFile /\ Data(s) \in Contents
  BY CopyFacts DEF WriteSetXhash, Jobs, BothExist, TypeOK, Op, Data
<1>2. /\ job' = [job EXCEPT ![s] = "none"]
      /\ disk' = [disk EXCEPT ![s].xattr = Sha1(Data(s))]
      /\ UNCHANGED <<faults, up, cache>>
  BY DEF WriteSetXhash, Inject, ClientFaults, Data
<1>3. IF op.pc = "down" THEN UNCHANGED <<op, opens>>
      ELSE AwaitsWrite /\ op.serv = s /\ WriteReplied(TRUE)
  BY <1>1 DEF WriteSetXhash, Inject, ClientFaults, Jobs, AwaitsWrite
<1>4. /\ disk' \in [Server -> Copy \cup {NoFile}]
      /\ disk'[s] # NoFile /\ disk'[s].xattr = Sha1(Data(s))
      /\ disk'[s].data = Data(s)
      /\ \A t \in Server \ {s} : disk'[t] = disk[t]
  <2>1. Sha1(Data(s)) \in Hash
    BY <1>1, HashType
  <2> QED
    BY <1>1, <1>2, <2>1, XattrFacts DEF Data
<1>5. BothExist' /\ Data(1)' = Data(1) /\ Data(2)' = Data(2)
  BY <1>1, <1>4 DEF BothExist, Data, Server
<1>6. Hashed'
  BY <1>1, <1>2, <1>4 DEF Hashed, Sound, TypeOK, Op, Data
<1>7. Jobs'
  BY <1>1, <1>2, <1>3, <1>5 DEF Jobs, TypeOK, Op
<1>8. SecondFirst'
  BY <1>1, <1>5 DEF SecondFirst, BothExist, Server
<1> QED
  BY <1>1, <1>2, <1>3, <1>4, <1>5, <1>6, <1>7, <1>8

\* setXhash ends a write on server 2, a write, a chunk of a restore or the whole
\* restore; with no client left it only makes the copy sound.
LEMMA WriteSetXhashInv ==
    ASSUME Faults \subseteq ClientFaults, Inv, NEW s \in Server, WriteSetXhash(s)
    PROVE  Inv'
<1> USE DEF Inv
<1>1. /\ BothExist /\ job[s] = "hash"
      /\ UNCHANGED <<faults, up, cache>>
      /\ job' = [job EXCEPT ![s] = "none"]
      /\ disk' \in [Server -> Copy \cup {NoFile}]
      /\ BothExist' /\ Data(1)' = Data(1) /\ Data(2)' = Data(2)
      /\ (Jobs /\ Hashed /\ SecondFirst)'
  BY SetXhashFacts
<1>2. CASE op.pc = "down"
  <2>1. op' = op /\ opens' = opens
    BY <1>2, SetXhashFacts
  <2>2. TypeOK'
    BY <1>1, <2>1 DEF TypeOK, Op
  <2>3. (InWrite /\ InCreate /\ InOpen /\ InRestore /\ InUnlink)'
    BY <1>2, <2>1 DEF InWrite, InCreate, InOpen, InRestore, InUnlink, Restoring
  <2>4. (Equal /\ AtRest)'
    BY <1>1, <1>2, <2>1 DEF Equal, AtRest, Restoring, EmptyCache
  <2> QED
    BY <1>1, <2>2, <2>3, <2>4
<1>3. CASE op.pc = "write"
  <2>1. /\ op.serv = s /\ opens' = opens
        /\ op' = IF s = 2 THEN [op EXCEPT !.serv = 1] ELSE Idle
    BY <1>3, SetXhashFacts DEF WriteReplied
  <2>2. /\ opens > 0 /\ op.off \in Offset /\ op.val \in Val
        /\ s = 2 => Data(2) = Pwrite(Data(1), op.off, op.val) /\ job[1] = "none"
        /\ s = 1 => Data(2) = Data(1)
    BY <1>1, <1>3, <2>1 DEF InWrite, Jobs, Server, TypeOK, Op
  <2>3. TypeOK'
    BY <1>1, <2>1, EmptyHash, OffsetFacts DEF TypeOK, Op, Idle, PC, Server
  <2>4. InWrite'
    BY <1>1, <1>3, <2>1, <2>2 DEF InWrite, Idle, TypeOK, Op, Server
  <2>5. (InCreate /\ InOpen /\ InRestore /\ InUnlink)'
    BY <1>3, <2>1
    DEF InCreate, InOpen, InRestore, InUnlink, Restoring, Idle, TypeOK, Op
  <2>6. (Equal /\ AtRest)'
    BY <1>1, <1>3, <2>1, <2>2 DEF Equal, AtRest, Restoring, Idle, TypeOK, Op, Server
  <2> QED
    BY <1>1, <2>3, <2>4, <2>5, <2>6
<1>4. CASE op.pc = "rsend"
  <2> DEFINE n == op.off + 1
  <2>1. /\ op.serv = 1 /\ s = 1 /\ Restoring /\ WriteReplied(TRUE)
        /\ opens = 0 /\ op.rd = n /\ op.size = Len(Data(2)) /\ op.off < op.size
        /\ Data(1) = SubSeq(Data(2), 1, n)
        /\ Data(2) \in Contents /\ Data(2) # <<>>
        /\ op.off \in 0 .. MaxChunks /\ op.size \in 0 .. MaxChunks /\ MaxChunks \in Nat
    <3>1. op.serv = s /\ WriteReplied(TRUE) /\ Restoring
      BY <1>4, SetXhashFacts DEF Restoring
    <3>2. /\ op.serv = 1 /\ s = 1 /\ opens = 0 /\ Data(2) \in Contents /\ Data(2) # <<>>
      BY <3>1, RestoreFacts
    <3>3. /\ op.size = Len(Data(2)) /\ op.off < op.size /\ op.rd = n
          /\ Restored(n)
      BY <1>1, <1>4, <3>1, <3>2 DEF InRestore
    <3>4. /\ op.off \in 0 .. MaxChunks /\ op.size \in 0 .. MaxChunks
          /\ MaxChunks \in Nat
      BY DataAssumption DEF TypeOK, Op
    <3>5. Data(1) = SubSeq(Data(2), 1, n)
      BY <3>3, <3>4 DEF Restored
    <3> HIDE DEF n
    <3> QED
      BY <3>1, <3>2, <3>3, <3>4, <3>5
  <2>2. n \in 0 .. MaxChunks /\ n \in Nat /\ op.size \in Nat /\ n <= op.size
    BY <2>1
  <2>3. RestoreLoop([op EXCEPT !.off = n])
    BY <1>4, <2>1 DEF WriteReplied
  <2>4. CASE n < op.size
    <3>1. op' = [op EXCEPT !.off = n, !.pc = "rread"] /\ opens' = opens
      BY <2>1, <2>3, <2>4 DEF RestoreLoop, TypeOK, Op
    <3>2. TypeOK'
      BY <1>1, <2>2, <3>1 DEF TypeOK, Op, PC
    <3>3. InRestore'
      BY <1>1, <1>4, <2>1, <2>4, <3>1 DEF InRestore, Restoring, Restored, TypeOK, Op
    <3>4. (InWrite /\ InCreate /\ InOpen /\ InUnlink /\ Equal /\ AtRest)'
      BY <3>1 DEF InWrite, InCreate, InOpen, InUnlink, Equal, AtRest, Restoring, TypeOK, Op
    <3> QED
      BY <1>1, <3>2, <3>3, <3>4
  <2>5. CASE n = op.size
    <3>1. op' = Idle /\ opens' = opens + 1
      BY <2>1, <2>3, <2>5 DEF RestoreLoop, TypeOK, Op, ReturnHandle
    <3>2. Data(1) = Data(2)
      BY <2>1, <2>5, WholePrefix
    <3>3. TypeOK'
      BY <1>1, <2>1, <3>1, EmptyHash, OffsetFacts, BoundsAssumption
      DEF TypeOK, Op, Idle, PC, Server
    <3>4. (InWrite /\ InCreate /\ InOpen /\ InRestore /\ InUnlink)'
      BY <3>1 DEF InWrite, InCreate, InOpen, InRestore, InUnlink, Restoring, Idle
    <3>5. (Equal /\ AtRest)'
      BY <1>1, <3>1, <3>2 DEF Equal, AtRest, Idle
    <3> QED
      BY <1>1, <3>3, <3>4, <3>5
  <2> QED
    BY <2>2, <2>4, <2>5
<1> QED
  BY <1>2, <1>3, <1>4, SetXhashFacts DEF AwaitsWrite

\* r1_read for the application may cache a chunk and changes no copy.
LEMMA ReadRpcInv ==
    ASSUME Faults \subseteq ClientFaults, Inv, ReadRpc PROVE Inv'
<1> USE DEF Inv
<1>1. /\ op.pc = "read" /\ opens > 0 /\ op.off \in Offset
      /\ \A s \in Server : job[s] = "none"
  BY NoWork DEF ReadRpc, AtRest, AwaitsWrite
<1>2. UNCHANGED <<disk, faults, up, job, opens>>
  BY NotRefused DEF ReadRpc, ReadChunk, ReadFails, Server
<1>3. PICK v \in Chunk \cup {NoChunk} :
         /\ cache' \in {cache, [cache EXCEPT ![0][op.off] = v]}
         /\ op' = [op EXCEPT !.pc = "reply", !.val = v]
  BY <1>1, NotRefused DEF ReadRpc, ReadChunk, ReadFails, AddInCache, Server
<1>4. TypeOK'
  <2>1. cache' \in [Key -> [Offset -> Chunk \cup {NoChunk}]]
    BY <1>1, <1>3 DEF TypeOK, Op, Key
  <2>2. op' \in Op
    BY <1>3 DEF TypeOK, Op, PC
  <2> QED
    BY <1>2, <2>1, <2>2 DEF TypeOK, Op
<1>5. (Jobs /\ Hashed /\ SecondFirst)'
  BY <1>1, <1>2 DEF Jobs, Hashed, SecondFirst, BothExist, Server, Sound, Data
<1>6. (InWrite /\ InCreate /\ InOpen /\ InRestore /\ InUnlink)'
  BY <1>3 DEF InWrite, InCreate, InOpen, InRestore, InUnlink, Restoring, TypeOK, Op
<1>7. (Equal /\ AtRest)'
  BY <1>1, <1>2, <1>3
  DEF Equal, AtRest, Restoring, TypeOK, Op, BothExist, Server, Data
<1> QED
  BY <1>4, <1>5, <1>6, <1>7

\* r1_read returns.
LEMMA ReadReturnInv ==
    ASSUME Inv, ReadReturn PROVE Inv'
<1> USE DEF Inv, ReadReturn, Return, Idle
<1>1. TypeOK'
  BY EmptyHash, OffsetFacts DEF TypeOK, Op, PC, Server
<1>2. (Jobs /\ Hashed /\ SecondFirst)'
  BY DEF Jobs, Hashed, SecondFirst, BothExist, Server, Sound, Data, AwaitsWrite
<1>3. (InWrite /\ InCreate /\ InOpen /\ InRestore /\ InUnlink)'
  BY DEF InWrite, InCreate, InOpen, InRestore, InUnlink, Restoring
<1>4. (Equal /\ AtRest)'
  BY DEF Equal, AtRest, BothExist, Server, Restoring, Data, EmptyCache
<1> QED
  BY <1>1, <1>2, <1>3, <1>4

\* One "unl" of r1_unlink: the copy on server 2 goes first, and no handle is
\* open.
LEMMA UnlinkRpcInv ==
    ASSUME Faults \subseteq ClientFaults, Inv, UnlinkRpc PROVE Inv'
<1> USE DEF Inv
<1>1. /\ op.pc = "unlink" /\ opens = 0 /\ disk[1] # NoFile /\ op.serv \in Server
      /\ op.serv = 1 => disk[2] = NoFile
      /\ \A s \in Server : job[s] = "none"
  BY NoWork DEF UnlinkRpc, InUnlink, TypeOK, Op, AwaitsWrite
<1>2. UNCHANGED <<faults, up, job, opens>>
  BY <1>1, NotRefused DEF UnlinkRpc, Answers
<1>3. \/ /\ disk' = [disk EXCEPT ![op.serv] = NoFile]
         /\ \/ op.serv = 2 /\ op' = [op EXCEPT !.serv = 1] /\ cache' = cache
            \/ op.serv = 1 /\ op' = Idle /\ DeletePath
      \/ op' = Idle /\ disk' = disk /\ cache' = cache
  BY <1>1, NotRefused DEF UnlinkRpc, Answers, Server
<1>4. /\ cache' \in [Key -> [Offset -> Chunk \cup {NoChunk}]]
      /\ cache'[2] = cache[2]
  BY <1>3 DEF DeletePath, TypeOK, Op, Key
<1>5. TypeOK'
  <2>1. disk' \in [Server -> Copy \cup {NoFile}]
    BY <1>3 DEF TypeOK, Op
  <2>2. op' \in Op
    BY <1>3, IdleIsOp DEF TypeOK, Op, Server
  <2> QED
    BY <1>2, <1>4, <2>1, <2>2 DEF TypeOK, Op
<1>6. (Jobs /\ Hashed /\ SecondFirst)'
  BY <1>1, <1>2, <1>3
  DEF TypeOK, Op, Jobs, Hashed, SecondFirst, BothExist, Server, Sound, Data
<1>7. (InWrite /\ InCreate /\ InOpen /\ InRestore /\ InUnlink)'
  BY <1>1, <1>2, <1>3
  DEF InWrite, InCreate, InOpen, InRestore, InUnlink, Restoring, Idle, TypeOK, Op, Server
<1>8. (Equal /\ AtRest)'
  BY <1>1, <1>2, <1>3, <1>4
  DEF Equal, AtRest, BothExist, Server, Restoring, Idle, TypeOK, Op, Data, EmptyCache, Key
<1> QED
  BY <1>5, <1>6, <1>7, <1>8

\* The client dies between two requests; a server may still have to store the
\* hash of what it has written.
LEMMA DieInv ==
    ASSUME Inv, Die, faults' \in 0 .. MaxFaults,
           UNCHANGED <<disk, up, job>>, op.pc # "down"
    PROVE  Inv'
<1> USE DEF Inv, Die
<1>1. TypeOK'
  BY IdleIsOp, BoundsAssumption DEF TypeOK, EmptyCache
<1> USE DEF Down, Idle
<1>2. (Jobs /\ Hashed /\ SecondFirst)'
  BY DEF Jobs, Hashed, SecondFirst, BothExist, Server, Sound, Data, AwaitsWrite
<1>3. (InWrite /\ InCreate /\ InOpen /\ InRestore /\ InUnlink)'
  BY DEF InWrite, InCreate, InOpen, InRestore, InUnlink, Restoring
<1>4. (Equal /\ AtRest)'
  BY DEF Equal, AtRest, BothExist, Server, Restoring, Data, EmptyCache
<1> QED
  BY <1>1, <1>2, <1>3, <1>4

\* The client dies between two requests.
LEMMA ClientCrashInv ==
    ASSUME Inv, ClientCrash PROVE Inv'
<1>1. faults' \in 0 .. MaxFaults
  BY BoundsAssumption DEF ClientCrash, Inject, Inv, TypeOK, Op
<1> QED
  BY <1>1, DieInv DEF ClientCrash

\* The client dies in the middle of a chunk: the server stores junk, of a length
\* that leaves server 2 non-empty where server 1 is.
LEMMA CutTransferInv ==
    ASSUME Inv, CutTransfer PROVE Inv'
<1> USE DEF Inv
<1> DEFINE s == op.serv
           w == Pwrite(Data(s), op.off, Junk)
           d == IF op.pc = "rsend" THEN SubSeq(w, 1, op.off + 1) ELSE w
<1>1. /\ s \in Server /\ BothExist /\ disk[s] # NoFile /\ job[s] = "none"
      /\ op.off \in Offset /\ Data(1) \in Contents /\ Data(2) \in Contents
      /\ AwaitsWrite
  <2>1. s \in Server /\ job[s] = "none" /\ AwaitsWrite
    BY DEF CutTransfer, TypeOK, Op
  <2>2. BothExist
    BY <2>1 DEF AwaitsWrite, InWrite, InRestore, Restoring
  <2>3. op.off \in Offset
    <3>1. CASE op.pc = "write"
      BY <3>1 DEF InWrite
    <3>2. CASE op.pc = "rsend"
      <4>1. op.off < Len(Data(2)) /\ Len(Data(2)) \in 1 .. MaxChunks
        BY <3>2, RestoreFacts DEF InRestore, Restoring
      <4> QED
        BY <4>1, DataAssumption DEF TypeOK, Op, Offset
    <3> QED
      BY <2>1, <3>1, <3>2 DEF AwaitsWrite
  <2> QED
    BY <2>1, <2>2, <2>3, CopyFacts DEF BothExist, TypeOK, Data, Server
<1>2. d \in Contents /\ d # <<>>
  <2>1. /\ w \in Contents /\ w # <<>> /\ Len(w) \in Nat
        /\ op.off + 1 \in 1 .. Len(w)
    <3>1. /\ w \in Contents /\ w # <<>>
          /\ Len(w) = IF op.off < Len(Data(s)) THEN Len(Data(s)) ELSE op.off + 1
      BY <1>1, PwriteIsContents DEF Chunk, Server
    <3>2. op.off \in Nat /\ Len(Data(s)) \in Nat
      <4>1. Data(s) \in Contents
        BY <1>1 DEF Server
      <4>2. Len(Data(s)) \in 0 .. MaxChunks
        BY <4>1, ContentsAreSequences
      <4>3. op.off \in Nat
        BY <1>1, OffsetFacts
      <4> HIDE DEF s
      <4> QED
        BY <4>2, <4>3, DataAssumption
    <3> QED
      BY <3>1, <3>2
  <2>2. /\ SubSeq(w, 1, op.off + 1) \in Contents
        /\ Len(SubSeq(w, 1, op.off + 1)) = op.off + 1
    <3> HIDE DEF w
    <3> QED
      BY <2>1, PrefixIsContents
  <2>3. SubSeq(w, 1, op.off + 1) # <<>>
    <3> HIDE DEF w
    <3>1. op.off + 1 # 0
      BY <2>1
    <3> QED
      BY <2>2, <3>1
  <2> QED
    BY <2>1, <2>2, <2>3
<1>10. s = 1 => Data(2) # <<>>
  <2>1. CASE op.pc = "write"
    BY <1>1, <2>1, PwriteIsContents DEF InWrite, Chunk
  <2>2. CASE op.pc = "rsend"
    BY <2>2 DEF InRestore, Restoring
  <2> QED
    BY <1>1, <2>1, <2>2 DEF AwaitsWrite
<1>3. /\ disk' = [disk EXCEPT ![s].data = d]
      /\ job' = [job EXCEPT ![s] = "hash"]
      /\ op' = Down /\ opens' = 0 /\ cache' = EmptyCache /\ up' = up
      /\ faults' \in 0 .. MaxFaults
  BY BoundsAssumption DEF CutTransfer, Written, Die, Inject, TypeOK, Op, Data
<1>4. /\ disk' \in [Server -> Copy \cup {NoFile}]
      /\ disk'[s] # NoFile /\ disk'[s].data = d
      /\ \A t \in Server \ {s} : disk'[t] = disk[t]
  <2> HIDE DEF s, d
  <2> QED
    BY <1>1, <1>2, <1>3, DiskFacts
<1> HIDE DEF s, w, d
<1>5. TypeOK'
  BY <1>3, <1>4, IdleIsOp, BoundsAssumption DEF TypeOK, Server, EmptyCache
<1>6. BothExist'
  BY <1>1, <1>4 DEF BothExist, Server
<1>7. (Jobs /\ Hashed)'
  BY <1>1, <1>3, <1>4, <1>6
  DEF Jobs, Hashed, Server, Sound, TypeOK, Op, AwaitsWrite, BothExist, Down, Idle, s
<1>8. SecondFirst'
  BY <1>1, <1>2, <1>4, <1>6, <1>10 DEF SecondFirst, BothExist, Data, Server
<1>9. (InWrite /\ InCreate /\ InOpen /\ InRestore /\ InUnlink)'
  BY <1>3 DEF InWrite, InCreate, InOpen, InRestore, InUnlink, Restoring, Down, Idle
<1>11. (Equal /\ AtRest)'
  BY <1>3 DEF Equal, AtRest, Restoring, Down, Idle, EmptyCache
<1> QED
  BY <1>5, <1>7, <1>8, <1>9, <1>11

\* The mount starts again with the copies as they are and an empty cache.
LEMMA RemountInv ==
    ASSUME Inv, Remount PROVE Inv'
<1> USE DEF Inv, Remount, Idle
<1>1. TypeOK'
  BY EmptyHash, OffsetFacts DEF TypeOK, Op, PC, Server
<1>2. (Jobs /\ Hashed /\ SecondFirst)'
  BY DEF Jobs, Hashed, SecondFirst, BothExist, Server, Sound, Data, AwaitsWrite
<1>3. (InWrite /\ InCreate /\ InOpen /\ InRestore /\ InUnlink)'
  BY DEF InWrite, InCreate, InOpen, InRestore, InUnlink, Restoring
<1>4. (Equal /\ AtRest)'
  BY DEF Equal, AtRest, BothExist, Server, Restoring, Data, EmptyCache
<1> QED
  BY <1>1, <1>2, <1>3, <1>4

\* Nothing changes.
LEMMA StutterInv ==
    ASSUME Inv, UNCHANGED vars PROVE Inv'
<1> USE DEF Inv, vars
<1>1. TypeOK'
  BY DEF TypeOK, Op
<1>2. (Jobs /\ Hashed /\ SecondFirst)'
  BY DEF Jobs, Hashed, SecondFirst, BothExist, Sound, Data, AwaitsWrite
<1>3. (InWrite /\ InCreate /\ InOpen /\ InRestore /\ InUnlink)'
  BY DEF InWrite, InCreate, InOpen, InRestore, InUnlink, Restoring, Restored,
         BothExist, Data
<1>4. (Equal /\ AtRest)'
  BY DEF Equal, AtRest, BothExist, Restoring, Data
<1> QED
  BY <1>1, <1>2, <1>3, <1>4

\* Every step of a mount with client faults only preserves Inv.
LEMMA NextInv ==
    ASSUME Faults \subseteq ClientFaults, Inv, [Next]_vars PROVE Inv'
<1>1. CASE Call
  BY <1>1, CallCreateInv, CallOpenInv, CallReadInv, CallWriteInv, CallUnlinkInv,
     ReleaseInv DEF Call
<1>2. CASE WritePwrite
  BY <1>2, WritePwriteInv, RestorePwriteInv DEF WritePwrite, AwaitsWrite
<1>3. CASE Handler /\ ~WritePwrite
  <2>1. ~WriteUnanswered
    BY DEF WriteUnanswered, Inv, Jobs, TypeOK, Op
  <2> QED
    BY <1>3, <2>1, CreateRpcInv, OpenRpcInv, StatRpcInv, RestoreReadInv,
       WriteSetXhashInv, ReadRpcInv, ReadReturnInv, UnlinkRpcInv DEF Handler
<1>4. CASE Fault
  <2>1. /\ \A s \in Server : ~ServerCrash(s)
        /\ ~SystemCrash
        /\ \A s \in Server, i \in 1 .. MaxChunks : ~Damage(s, i)
    BY DEF ServerCrash, SystemCrash, Damage, Inject, InjectAlone, ClientFaults
  <2> QED
    BY <1>4, <2>1, ClientCrashInv, CutTransferInv DEF Fault
<1>5. CASE Remount
  BY <1>5, RemountInv
<1>6. CASE UNCHANGED vars
  BY <1>6, StutterInv
<1> QED
  BY <1>1, <1>2, <1>3, <1>4, <1>5, <1>6 DEF Next

\* Inv holds in every reachable state.
THEOREM Invariance ==
    ASSUME Faults \subseteq ClientFaults PROVE Spec => []Inv
<1>1. Inv /\ [Next]_vars => Inv'
  BY NextInv
<1> QED
  BY <1>1, InitInv, PTL DEF Spec

\* Type correctness.
THEOREM TypeCorrect ==
    ASSUME Faults \subseteq ClientFaults PROVE Spec => []TypeOK
<1>1. Inv => TypeOK
  BY DEF Inv
<1> QED
  BY <1>1, Invariance, PTL

\* Inv says what r1_read relies on.
LEMMA InvImpliesMirror == Inv => MirrorWhenOpen
<1> SUFFICES ASSUME Inv, opens > 0, op.pc # "write" PROVE Mirrored
  BY DEF MirrorWhenOpen
<1>1. BothExist /\ Data(1) = Data(2) /\ op.pc # "down" /\ ~AwaitsWrite
  BY DEF Inv, Equal, InRestore, Restoring, AtRest, AwaitsWrite
<1> QED
  BY <1>1, NoWork DEF Mirrored, BothExist, Data

\* While a handle is open and no write is under way, the copies are equal and
\* carry their hashes.
THEOREM Mirroring ==
    ASSUME Faults \subseteq ClientFaults PROVE Spec => []MirrorWhenOpen
BY Invariance, InvImpliesMirror, PTL

\* What a step that changes the disk during a restore leaves there.
LEMMA RestoreStep ==
    ASSUME Faults \subseteq ClientFaults, Inv, [Next]_vars,
           op.pc = "rsend", op'.pc # "down", disk' # disk
    PROVE  ChunkAt(disk'[op.serv].data, op.off) =
               ChunkAt(disk[Other(op.serv)].data, op.off)
<1> DEFINE n == op.off + 1
           src == Data(2)
<1>1. /\ BothExist /\ op.serv = 1 /\ Other(op.serv) = 2 /\ op.rd = n
      /\ op.off < Len(src) /\ src \in Contents /\ Data(1) \in Contents
      /\ op.val = src[n] /\ Restored(IF job[1] = "none" THEN op.off ELSE n)
  BY RestoreFacts DEF Inv, InRestore, Restoring
<1>2. op.off \in Offset /\ op.off \in Nat /\ n \in 0 .. Len(src) /\ n > 0
  <2>1. op.off \in 0 .. MaxChunks /\ MaxChunks \in Nat /\ Len(src) \in 1 .. MaxChunks
    BY RestoreFacts, DataAssumption DEF Inv, TypeOK, Op, Restoring
  <2> QED
    BY <1>1, <2>1 DEF Offset
<1>3. disk'[1].data = SubSeq(src, 1, n)
  <2>1. CASE WritePwrite
    <3>1. disk' = [disk EXCEPT ![1].data = SubSeq(Pwrite(Data(1), op.off, src[n]), 1, n)]
      BY <1>1, <2>1 DEF WritePwrite, Written, Inject, ClientFaults, Data
    <3>2. SubSeq(Pwrite(Data(1), op.off, src[n]), 1, n) = SubSeq(src, 1, n)
      BY <1>1, <1>2, <2>1, RestoreExtends DEF WritePwrite, Restored
    <3>3. SubSeq(src, 1, n) \in Contents
      BY <1>1, <1>2, PrefixIsContents
    <3> DEFINE e == SubSeq(src, 1, n)
    <3>4. disk' = [disk EXCEPT ![1].data = e] /\ disk[1] # NoFile /\ 1 \in Server
      BY <1>1, <3>1, <3>2 DEF BothExist, Server
    <3>5. e \in Contents /\ TypeOK
      BY <3>3 DEF Inv
    <3> HIDE DEF e
    <3>6. disk'[1].data = e
      BY <3>4, <3>5, DiskFacts
    <3> QED
      BY <3>6 DEF e
  <2>2. CASE \E s \in Server : WriteSetXhash(s)
    <3>1. PICK s \in Server : WriteSetXhash(s)
      BY <2>2
    <3>2. s = 1 /\ job[s] = "hash" /\ Data(1)' = Data(1)
      BY <1>1, <3>1, SetXhashFacts
    <3> QED
      BY <1>1, <1>2, <3>2 DEF Restored, Data
  <2>3. ~Call /\ ~Remount /\ ~UNCHANGED vars
    BY DEF Call, CallCreate, CallOpen, CallRead, CallWrite, CallUnlink, Release,
           Idle, Remount, vars
  <2>4. ~Fault
    BY DEF Fault, ClientCrash, CutTransfer, ServerCrash, SystemCrash, Damage,
           Inject, InjectAlone, ClientFaults, Die, Down, Idle
  <2>5. Handler => WritePwrite \/ \E s \in Server : WriteSetXhash(s)
    BY DEF Handler, CreateRpc, OpenRpc, StatRpc, RestoreRead, RestoreReadFrom,
           WriteUnanswered, ReadRpc, ReadReturn, UnlinkRpc
  <2> QED
    BY <2>1, <2>2, <2>3, <2>4, <2>5 DEF Next
<1>4. Len(SubSeq(src, 1, n)) = n /\ SubSeq(src, 1, n)[n] = src[n]
  <2> HIDE DEF n, src
  <2> QED
    BY <1>1, <1>2, PrefixIsContents
<1> QED
  BY <1>1, <1>2, <1>3, <1>4 DEF ChunkAt, Data

\* What a restore stores is what the copy it reads has at that offset.
THEOREM RestoreCopies ==
    ASSUME Faults \subseteq ClientFaults PROVE Spec => RestoreCopiesSource
<1>1. Inv /\ [Next]_vars =>
         [op.pc = "rsend" /\ op'.pc # "down" /\ disk' # disk =>
             ChunkAt(disk'[op.serv].data, op.off) = SourceChunk(op.off)]_vars
  <2> SUFFICES ASSUME Inv, [Next]_vars,
                      op.pc = "rsend", op'.pc # "down", disk' # disk
               PROVE  ChunkAt(disk'[op.serv].data, op.off) = SourceChunk(op.off)
    OBVIOUS
  <2>1. disk[Other(op.serv)] # NoFile
    BY DEF Inv, InRestore, Restoring, BothExist, Server, Other
  <2> QED
    BY <2>1, RestoreStep DEF SourceChunk
<1> QED
  BY <1>1, Invariance, PTL DEF Spec, RestoreCopiesSource

-----------------------------------------------------------------------------
(***************************************************************************)
(* The pair of servers implements the one file of StableStore when the     *)
(* only faults are deaths of the client between two requests.              *)
(***************************************************************************)
\* Server 2 has the bytes of an application's write and not yet their hash:
\* the stored one is still that of the data server 1 has.
HalfWritten ==
    job[2] = "hash" =>
        /\ disk[2].xattr = Sha1(Data(1))
        /\ \E o \in Offset, v \in Val : Data(2) = Pwrite(Data(1), o, v)

StoreInv == Inv /\ HalfWritten

\* The data the pair stands for
Stands == IF disk[2] = NoFile THEN NoFile
          ELSE IF job[2] = "hash" THEN Data(1) ELSE Data(2)

\* What the next handler makes of the hashes is what the pair stands for.
LEMMA ContentStands == StoreInv => Content = Stands
<1> SUFFICES ASSUME StoreInv, disk[2] # NoFile PROVE Content = Stands
  BY DEF Content, Stands
<1>1. CASE Restoring
  BY <1>1, RestoreFacts DEF StoreInv, Content, Stands, Data
<1>2. CASE ~Restoring /\ job[2] = "none"
  <2>1. Sound(2)
    BY <1>2 DEF StoreInv, Inv, Hashed, Server
  <2> QED
    BY <1>2, <2>1 DEF Content, Stands, Data
<1>3. CASE ~Restoring /\ job[2] = "hash"
  <2>1. BothExist /\ disk[1] # NoFile
    BY <1>3 DEF StoreInv, Inv, Jobs, BothExist, Server
  <2>2. Data(1) \in Contents /\ Data(2) \in Contents
    BY <2>1, CopyFacts DEF StoreInv, Inv, TypeOK, BothExist, Data, Server
  <2>3. Sound(2) => Data(2) = Data(1)
    <3>1. disk[2].xattr = Sha1(Data(1))
      BY <1>3 DEF StoreInv, HalfWritten
    <3> QED
      BY <2>2, <3>1, Sha1Injective DEF Sound, Data
  <2> QED
    BY <1>3, <2>1, <2>3 DEF Content, Stands, Data
<1> QED
  BY <1>1, <1>2, <1>3 DEF StoreInv, Inv, TypeOK, Server

\* The steps that change a copy or what a server still has to do.
LEMMA QuietStep ==
    ASSUME Faults \subseteq {"clientCrash"}, Inv, [Next]_vars
    PROVE  \/ UNCHANGED <<disk, job>>
           \/ CreateRpc \/ UnlinkRpc \/ WritePwrite
           \/ \E s \in Server : WriteSetXhash(s)
<1>1. Faults \subseteq ClientFaults
  BY DEF ClientFaults
<1>2. Call \/ Remount \/ UNCHANGED vars => UNCHANGED <<disk, job>>
  BY DEF Call, CallCreate, CallOpen, CallRead, CallWrite, CallUnlink, Release,
         Remount, vars
<1>3. Fault => UNCHANGED <<disk, job>>
  BY DEF Fault, ClientCrash, CutTransfer, ServerCrash, SystemCrash, Damage,
         Inject, InjectAlone
<1>4. OpenRpc \/ StatRpc \/ RestoreRead \/ ReadRpc \/ ReadReturn => UNCHANGED <<disk, job>>
  BY <1>1, NotRefused
  DEF OpenRpc, StatRpc, RestoreRead, RestoreReadFrom, ReadRpc, ReadReturn, ReadChunk,
      ReadFails, Refuses
<1>5. ~WriteUnanswered
  BY DEF WriteUnanswered, Inv, Jobs, TypeOK, Op
<1> QED
  BY <1>2, <1>3, <1>4, <1>5 DEF Next, Handler

\* The pwrite on server 2 is that of an application's write, and the copies
\* were equal before it.
LEMMA FirstPwrite ==
    ASSUME Faults \subseteq {"clientCrash"}, Inv, WritePwrite
    PROVE  /\ op.serv \in Server /\ disk[op.serv] # NoFile
           /\ job' = [job EXCEPT ![op.serv] = "hash"] /\ job[op.serv] = "none"
           /\ \A s \in Server : s # op.serv => disk'[s] = disk[s]
           /\ op.serv = 2 =>
                 /\ disk'[2] # NoFile /\ BothExist /\ Data(1) = Data(2) /\ Sound(2)
                 /\ op.off \in Offset /\ op.val \in Val
                 /\ Data(2)' = Pwrite(Data(2), op.off, op.val)
                 /\ disk'[2].xattr = disk[2].xattr
           /\ op.serv = 1 => job[2] = "none"
<1> USE DEF Inv
<1>1. /\ AwaitsWrite /\ op.serv \in Server /\ job[op.serv] = "none" /\ BothExist
      /\ disk[op.serv] \in Copy
  BY DEF WritePwrite, AwaitsWrite, InWrite, InRestore, Restoring, BothExist, TypeOK, Op
<1>2. disk' = Written(op.serv, op.val) /\ job' = [job EXCEPT ![op.serv] = "hash"]
  BY DEF WritePwrite, Inject
<1>3. disk \in [Server -> Copy \cup {NoFile}] /\ job \in [Server -> {"none", "hash"}]
  BY DEF TypeOK
<1>4. \A s \in Server : s # op.serv => disk'[s] = disk[s]
  BY <1>1, <1>2, <1>3 DEF Written
<1>5. op.serv = 2 => op.pc = "write"
  BY <1>1 DEF AwaitsWrite, InRestore, Restoring
<1>6. op.serv = 1 => job[2] = "none"
  BY <1>1, <1>3 DEF Jobs, AwaitsWrite, Server
<1>7. CASE op.serv = 2
  <2>1. /\ op.off \in Offset /\ op.val \in Val /\ Data(2) = Data(1) /\ Sound(2)
    BY <1>1, <1>5, <1>7 DEF InWrite, Hashed, BothExist
  <2>2. disk' = [disk EXCEPT ![2].data = Pwrite(disk[2].data, op.off, op.val)]
    BY <1>2, <1>5, <1>7 DEF Written
  <2>3. /\ disk'[2].data = Pwrite(Data(2), op.off, op.val)
        /\ disk'[2].xattr = disk[2].xattr
    BY <1>1, <1>3, <1>7, <2>2 DEF Copy, Data
  <2>4. disk'[2] # NoFile
    <3>1. op.val \in Chunk /\ Data(2) \in Contents
      BY <1>1, <1>7, <2>1 DEF Chunk, Copy, Data
    <3>2. Pwrite(disk[2].data, op.off, op.val) \in Contents
      BY <2>1, <3>1, PwriteIsContents DEF Data
    <3> QED
      BY <1>1, <1>7, <2>2, <3>2, DiskFacts DEF BothExist
  <2> QED
    BY <1>1, <1>2, <1>4, <1>6, <1>7, <2>1, <2>3, <2>4 DEF Data, BothExist
<1>8. CASE op.serv = 1
  BY <1>1, <1>2, <1>4, <1>6, <1>8 DEF BothExist
<1> QED
  BY <1>1, <1>7, <1>8 DEF Server

\* HalfWritten begins with server 2's pwrite, and holds until setXhash ends it.
LEMMA HalfWrittenStep ==
    ASSUME Faults \subseteq {"clientCrash"}, StoreInv, [Next]_vars PROVE HalfWritten'
<1> USE DEF StoreInv
<1>0. Faults \subseteq ClientFaults
  BY DEF ClientFaults
<1>1. CASE UNCHANGED <<disk, job>>
  BY <1>1 DEF HalfWritten, Data
<1>2. CASE CreateRpc \/ UnlinkRpc
  <2>1. job' = job /\ op.pc \in {"create", "unlink"}
    BY <1>2 DEF CreateRpc, UnlinkRpc
  <2>2. job[2] = "none"
    BY <2>1, NoWork DEF AwaitsWrite, Server
  <2> QED
    BY <2>1, <2>2 DEF HalfWritten
<1>3. CASE WritePwrite
  <2>1. CASE op.serv = 2
    <3>1. /\ disk'[1] = disk[1] /\ Sound(2) /\ disk'[2].xattr = disk[2].xattr
          /\ Data(1) = Data(2) /\ op.off \in Offset /\ op.val \in Val
          /\ Data(2)' = Pwrite(Data(2), op.off, op.val)
      BY <1>3, <2>1, FirstPwrite DEF Server
    <3>2. Data(1)' = Data(1) /\ disk'[2].xattr = Sha1(Data(1))
      BY <3>1 DEF Data, Sound
    <3> QED
      BY <3>1, <3>2 DEF HalfWritten
  <2>2. CASE op.serv = 1
    <3>1. job'[2] = "none"
      BY <1>3, <2>2, FirstPwrite DEF Inv, TypeOK, Server
    <3> QED
      BY <3>1 DEF HalfWritten
  <2> QED
    BY <1>3, <2>1, <2>2, FirstPwrite DEF Server
<1>4. CASE \E s \in Server : WriteSetXhash(s)
  <2>1. PICK s \in Server : WriteSetXhash(s)
    BY <1>4
  <2>2. job' = [job EXCEPT ![s] = "none"] /\ Data(1)' = Data(1) /\ Data(2)' = Data(2)
    BY <1>0, <2>1, SetXhashFacts
  <2>3. CASE s = 2
    BY <2>2, <2>3 DEF HalfWritten, Inv, TypeOK, Server
  <2>4. CASE s = 1
    <3>1. disk'[2] = disk[2] /\ job'[2] = job[2]
      BY <2>1, <2>2, <2>4 DEF WriteSetXhash, Inject, Inv, TypeOK, Server
    <3> QED
      BY <2>2, <3>1 DEF HalfWritten
  <2> QED
    BY <2>3, <2>4 DEF Server
<1> QED
  BY <1>1, <1>2, <1>3, <1>4, QuietStep

\* A step leaves what the pair stands for alone, or is a step of StableStore:
\* create is done when server 2 has created the file, a write when server 2 has
\* stored its hash, unlink when server 2 has removed the file.
LEMMA StoreStep ==
    ASSUME Faults \subseteq {"clientCrash"}, StoreInv, [Next]_vars
    PROVE  \/ Stands' = Stands
           \/ Stands = NoFile /\ Stands' = <<>>
           \/ /\ Stands # NoFile
              /\ \E o \in Offset, v \in Val : Stands' = Pwrite(Stands, o, v)
           \/ Stands # NoFile /\ Stands' = NoFile
<1> USE DEF StoreInv
<1>0. Faults \subseteq ClientFaults
  BY DEF ClientFaults
<1>1. CASE UNCHANGED <<disk, job>>
  BY <1>1 DEF Stands, Data
<1>2. CASE CreateRpc
  <2>1. /\ job' = job /\ op.pc = "create" /\ op.serv \in Server /\ job[2] = "none"
        /\ disk[1] = NoFile
    BY <1>2, NoWork DEF CreateRpc, AwaitsWrite, Inv, InCreate, TypeOK, Op, Server
  <2>2. CASE disk' = disk
    BY <2>1, <2>2 DEF Stands, Data
  <2>3. CASE \E c \in Created(disk[op.serv]) : disk' = [disk EXCEPT ![op.serv] = c]
    <3>1. PICK c \in Created(disk[op.serv]) : disk' = [disk EXCEPT ![op.serv] = c]
      BY <2>3
    <3>2. c # NoFile /\ c.data = <<>>
      BY <2>1, CreatedFacts
    <3>3. disk \in [Server -> Copy \cup {NoFile}]
      BY DEF Inv, TypeOK
    <3>4. CASE op.serv = 2
      <4>1. Stands' = <<>>
        BY <2>1, <3>1, <3>2, <3>3, <3>4 DEF Stands, Data, Server
      <4>2. Stands \in {NoFile, <<>>}
        BY <2>1 DEF Stands, Inv, SecondFirst
      <4> QED
        BY <4>1, <4>2
    <3>5. CASE op.serv = 1
      BY <2>1, <3>1, <3>3, <3>5 DEF Stands, Data, Server
    <3> QED
      BY <2>1, <3>4, <3>5 DEF Server
  <2> QED
    BY <1>0, <1>2, <2>1, <2>2, <2>3, NotRefused DEF CreateRpc, Answers, Inv
<1>3. CASE UnlinkRpc
  <2>1. /\ job' = job /\ op.pc = "unlink" /\ op.serv \in Server /\ job[2] = "none"
    BY <1>3, NoWork DEF UnlinkRpc, AwaitsWrite, Inv, TypeOK, Op, Server
  <2>2. disk' = disk \/ disk' = [disk EXCEPT ![op.serv] = NoFile]
    BY <1>0, <1>3, <2>1, NotRefused DEF UnlinkRpc, Answers, Inv, Server
  <2>3. disk \in [Server -> Copy \cup {NoFile}]
    BY DEF Inv, TypeOK
  <2>4. CASE disk'[2] = disk[2]
    BY <2>1, <2>4 DEF Stands, Data
  <2>5. CASE disk'[2] # disk[2]
    <3>1. disk'[2] = NoFile /\ disk[2] \in Copy
      BY <2>1, <2>2, <2>3, <2>5 DEF Server
    <3>2. Stands' = NoFile /\ Stands = Data(2) /\ Data(2) \in Contents
      BY <2>1, <3>1, CopyFacts DEF Stands, Data
    <3> QED
      BY <3>2, NoFileAssumption
  <2> QED
    BY <2>4, <2>5
<1>4. CASE WritePwrite
  <2>1. CASE op.serv = 2
    <3>1. /\ disk'[1] = disk[1] /\ disk'[2] # NoFile /\ disk[2] # NoFile
          /\ Data(1) = Data(2) /\ job[2] = "none" /\ job' = [job EXCEPT ![2] = "hash"]
      BY <1>4, <2>1, FirstPwrite DEF Server, BothExist
    <3>2. job'[2] = "hash"
      BY <3>1 DEF Inv, TypeOK, Server
    <3> QED
      BY <3>1, <3>2 DEF Stands, Data
  <2>2. CASE op.serv = 1
    <3>1. job'[2] = "none" /\ job[2] = "none" /\ disk'[2] = disk[2]
      BY <1>4, <2>2, FirstPwrite DEF Inv, TypeOK, Server
    <3> QED
      BY <3>1 DEF Stands, Data
  <2> QED
    BY <1>4, <2>1, <2>2, FirstPwrite DEF Server
<1>5. CASE \E s \in Server : WriteSetXhash(s)
  <2>1. PICK s \in Server : WriteSetXhash(s)
    BY <1>5
  <2>2. /\ job' = [job EXCEPT ![s] = "none"] /\ job[s] = "hash"
        /\ Data(1)' = Data(1) /\ Data(2)' = Data(2) /\ BothExist /\ BothExist'
    BY <1>0, <2>1, SetXhashFacts
  <2>3. disk[2] # NoFile /\ disk'[2] # NoFile /\ disk[1] # NoFile
    BY <2>2 DEF BothExist, Server
  <2>4. CASE s = 2
    <3>1. Stands = Data(1) /\ Stands' = Data(2)
      BY <2>2, <2>3, <2>4 DEF Stands, Inv, TypeOK, Server
    <3>2. \E o \in Offset, v \in Val : Data(2) = Pwrite(Data(1), o, v)
      BY <2>2, <2>4 DEF HalfWritten
    <3>3. Data(1) \in Contents
      BY <2>3, CopyFacts DEF Inv, TypeOK, Server, Data
    <3> QED
      BY <3>1, <3>2, <3>3, NoFileAssumption
  <2>5. CASE s = 1
    <3>1. job'[2] = job[2]
      BY <2>2, <2>5 DEF Inv, TypeOK, Server
    <3> QED
      BY <2>2, <2>3, <3>1 DEF Stands
  <2> QED
    BY <2>4, <2>5 DEF Server
<1> QED
  BY <1>1, <1>2, <1>3, <1>4, <1>5, QuietStep

\* StoreInv holds in every reachable state.
LEMMA StoreInvariance ==
    ASSUME Faults \subseteq {"clientCrash"} PROVE Spec => []StoreInv
<1>1. Faults \subseteq ClientFaults
  BY DEF ClientFaults
<1>2. Init => HalfWritten
  BY DEF Init, HalfWritten, Server
<1>3. StoreInv /\ [Next]_vars => HalfWritten'
  BY HalfWrittenStep
<1>4. StoreInv <=> Inv /\ HalfWritten
  BY DEF StoreInv
<1> QED
  BY <1>1, <1>2, <1>3, <1>4, Invariance, PTL DEF Spec

\* The two copies, the repairs of r1_open and the hashes they rest on behave as
\* one file: no death of the client between two requests, at whatever point of
\* whatever handler, changes its content or undoes a write.
THEOREM Implementation ==
    ASSUME Faults \subseteq {"clientCrash"} PROVE Spec => ImplementsStableStore
<1>1. Init => Store!Init
  BY DEF Init, Store!Init, Content, Server
<1>2. StoreInv /\ StoreInv' /\ [Next]_vars /\ (Content = Stands) /\ (Content = Stands)'
        => [Store!Next]_Content
  <2> SUFFICES ASSUME StoreInv, [Next]_vars, Content = Stands, Content' = Stands'
               PROVE  [Store!Next]_Content
    OBVIOUS
  <2>1. \A d, o, v : Store!Pwrite(d, o, v) = Pwrite(d, o, v)
    BY DEF Store!Pwrite, Pwrite
  <2>2. Store!Offset = Offset
    BY DEF Store!Offset, Offset
  <2> QED
    BY <2>1, <2>2, StoreStep DEF Store!Next, Store!Create, Store!Write, Store!Unlink
<1>3. StoreInv => Content = Stands
  BY ContentStands
<1> QED
  BY <1>1, <1>2, <1>3, StoreInvariance, PTL DEF Spec, ImplementsStableStore, Store!Spec
=============================================================================
