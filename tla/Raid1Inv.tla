------------------------------- MODULE Raid1Inv -------------------------------
(***************************************************************************)
(* The inductive invariant behind MirrorWhenOpen, for mounts whose only    *)
(* faults are the client's death between two of its requests (clientCrash) *)
(* or in the middle of sending a chunk (cutTransfer).                      *)
(***************************************************************************)
EXTENDS Raid1

ClientFaults == {"clientCrash", "cutTransfer"}

Data(s) == disk[s].data
BothExist == \A s \in Server : disk[s] # NoFile

\* The servers are up, and a server's work is that of the handler in progress,
\* unless the client is down.
Jobs ==
    /\ \A s \in Server : up[s]
    /\ \A s \in Server : job[s] = "hash" =>
          /\ BothExist
          /\ op.pc = "down" \/ (AwaitsWrite /\ op.serv = s)

\* A copy whose hash is not being stored carries the hash of its data.
Hashed == \A s \in Server : job[s] = "none" /\ disk[s] # NoFile => Sound(s)

\* Server 2 is the first to be created and to be written: it is never empty
\* where server 1 is not.
SecondFirst ==
    /\ disk[1] = NoFile /\ disk[2] # NoFile => Data(2) = <<>>
    /\ BothExist /\ Data(2) = <<>> => Data(1) = <<>>

\* What each handler knows about the copies while it runs.
InWrite ==
    op.pc = "write" =>
        /\ BothExist /\ opens > 0 /\ op.off \in Offset /\ op.val \in Val
        /\ Data(2) = IF (op.serv = 2) = (job[op.serv] = "none")
                     THEN Data(1) ELSE Pwrite(Data(1), op.off, op.val)

InCreate ==
    op.pc = "create" =>
        /\ opens = 0 /\ disk[1] = NoFile
        /\ op.serv = 1 => disk[2] # NoFile

InOpen ==
    op.pc = "open" =>
        /\ opens < MaxOpens /\ disk[1] # NoFile
        /\ op.serv = 1 =>
              /\ disk[2] # NoFile
              /\ op.seen = [stored |-> disk[2].xattr, computed |-> Sha1(Data(2))]

\* The part of server 1's copy that a restore has written
Restored(n) == n > 0 => Data(1) = SubSeq(Data(2), 1, n)

InRestore ==
    Restoring =>
        /\ BothExist /\ opens = 0 /\ op.serv = 1 /\ Data(2) # <<>>
        /\ \A o \in Offset : cache[2][o] \in {NoChunk, ChunkAt(Data(2), o)}
        /\ op.pc = "stat" => op.off = 0 /\ op.rd = 0
        /\ op.pc # "stat" => op.size = Len(Data(2)) /\ op.off < op.size
        /\ op.pc = "rread" => op.rd = op.off /\ Restored(op.off)
        /\ op.pc = "rsend" =>
              /\ op.rd = op.off + 1 /\ op.val = Data(2)[op.off + 1]
              /\ Restored(IF job[1] = "none" THEN op.off ELSE op.off + 1)

InUnlink ==
    op.pc = "unlink" =>
        /\ opens = 0 /\ disk[1] # NoFile
        /\ op.serv = 1 => disk[2] = NoFile

\* The copies differ only after the client has died, until a restore is over,
\* and no restore has been run, and cached its chunks, before that one.
Equal ==
    op.pc # "write" /\ ~Restoring =>
        /\ opens > 0 => BothExist /\ Data(1) = Data(2)
        /\ BothExist /\ Data(1) # Data(2) => cache[2] = EmptyCache[2]

AtRest ==
    /\ op.pc = "down" => opens = 0 /\ cache = EmptyCache
    /\ op.pc \in {"read", "reply"} => opens > 0 /\ op.off \in Offset

Inv ==
    /\ TypeOK
    /\ Jobs
    /\ Hashed
    /\ SecondFirst
    /\ InWrite
    /\ InCreate
    /\ InOpen
    /\ InRestore
    /\ InUnlink
    /\ Equal
    /\ AtRest
=============================================================================
