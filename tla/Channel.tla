------------------------------- MODULE Channel -------------------------------
(***************************************************************************)
(* One TCP connection of a mount: the client's FUSE handlers on one end    *)
(* (sendCommandPathChunk, handleRetVal and the reads and writes beside     *)
(* them), the process net_raid_server forked for it on the other. Nothing  *)
(* on the wire says where a message ends or which request it answers, no   *)
(* read() is retried, and no lock guards the socket, which the handlers of *)
(* all of libfuse's worker threads share.                                  *)
(*                                                                         *)
(* A stream is a sequence of units. A 4096-byte block is two units, so a   *)
(* read() of a block can be short; the 82 bytes of hashes are one.         *)
(***************************************************************************)
EXTENDS Integers, Sequences, SequencesExt, FiniteSetsExt

CONSTANTS
    Worker,     \* threads of the client that run handlers
    ShortReads, \* may read() return fewer bytes than asked for?
    MaxCalls,   \* bound: handlers run
    MaxEntries  \* bound: names in a directory

ASSUME ChannelAssumption ==
    /\ Worker # {}
    /\ ShortReads \in BOOLEAN
    /\ MaxCalls \in Nat \ {0} /\ MaxEntries \in Nat

VARIABLES
    worker,     \* worker[w]: the handler w runs, and what it last read
    toServer,   \* units sent by the client and not yet read
    toClient,   \* units sent by the server and not yet read
    server,     \* what the server process waits for
    stored,     \* the last chunk the server wrote to its disk
    calls,      \* handlers started
    slips       \* history: what has happened that the protocol is not made for

vars == <<worker, toServer, toClient, server, stored, calls, slips>>

(***************************************************************************)
(* What nothing in the code prevents, and nothing detects: a handler       *)
(* starts beside another ("overlap"), or between another's command and its *)
(* chunk ("split"); a read() of the server ("shortRequest") or of a        *)
(* handler ("shortReply") returns a part of what it asked for; the blocks  *)
(* of a listing carry the end mark of an earlier one ("staleEnd").         *)
(***************************************************************************)
Slip == {"overlap", "split", "shortRequest", "shortReply", "staleEnd"}

\* The commands, by the shape of their exchange: "ret" stands for those that
\* are answered by one block (cre, rel, unl, mkd, rld, rmd, gat, rnm, chm).
Command == {"ret", "opn", "rea", "wrt", "odr", "rdr"}

\* What a handler's read() is for, and how many units it asks for
Expected == {"hashes", "result", "chunk", "entry"}
SizeOf(what) == IF what = "hashes" THEN 1 ELSE 2
Block == 2

Call == 1 .. MaxCalls
NoCall == 0

Unit == [call : Call, more : BOOLEAN,
         part : {"wrt", "opn", "rea", "odr", "rdr", "ret", "zeros",
                 "data1", "data2", "hashes", "result", "rest",
                 "name", "mark", "end"}]

\* A worker's handler: what it is still to read, in order.
Idle == [call |-> NoCall, cmd |-> "ret", pc |-> "idle", reads |-> <<>>]
Waiting == [pc |-> "command", call |-> NoCall]
Nothing == [call |-> NoCall, data |-> <<>>]

TypeOK ==
    /\ worker \in [Worker -> [call : Call \cup {NoCall}, cmd : Command,
                              pc : {"idle", "data", "read"},
                              reads : Seq(Expected)]]
    /\ toServer \in Seq(Unit) /\ toClient \in Seq(Unit)
    /\ server \in [pc : {"command", "data"}, call : Call \cup {NoCall}]
    /\ server.pc = "command" <=> server.call = NoCall
    /\ stored \in [call : Call \cup {NoCall}, data : Seq(Unit)]
    /\ calls \in 0 .. MaxCalls
    /\ slips \subseteq Slip

Init ==
    /\ worker = [w \in Worker |-> Idle]
    /\ toServer = <<>> /\ toClient = <<>>
    /\ server = Waiting
    /\ stored = Nothing
    /\ calls = 0
    /\ slips = {}

U(c, part) == [call |-> c, more |-> FALSE, part |-> part]
Pair(c, first, second) == <<U(c, first), U(c, second)>>

\* What one read() of n units may return from a stream: all of them or, where
\* reads may be short, any that have arrived. It blocks on an empty stream.
Reads(stream, n) ==
    IF ShortReads
    THEN {SubSeq(stream, 1, m) : m \in 1 .. Min({n, Len(stream)})}
    ELSE IF n <= Len(stream) THEN {SubSeq(stream, 1, n)} ELSE {}

After(stream, got) == SubSeq(stream, Len(got) + 1, Len(stream))

\* The history takes slip s down, if it has happened.
Note(s, happened) == slips' = slips \cup (IF happened THEN {s} ELSE {})

-----------------------------------------------------------------------------
(***************************************************************************)
(* The client.                                                             *)
(***************************************************************************)
\* Variant with a bug: r1_opendir waits for a result.
FirstReadsOpendir(cmd) ==
    CASE cmd = "opn" -> <<"hashes", "result">>
      [] cmd = "rdr" -> <<"entry">>
      [] OTHER -> <<"result">>

\* What a handler reads first. r1_opendir reads nothing.
FirstReads(cmd) ==
    CASE cmd = "opn" -> <<"hashes", "result">>
      [] cmd = "odr" -> <<>>
      [] cmd = "rdr" -> <<"entry">>
      [] OTHER -> <<"result">>

\* The handler goes on with the reads that are left, or returns.
Continue(h, left) ==
    IF left = <<>> THEN Idle ELSE [h EXCEPT !.pc = "read", !.reads = left]

\* A handler starts: it sends its command.
SendCommand(w, cmd) ==
    /\ worker[w].pc = "idle" /\ calls < MaxCalls
    /\ calls' = calls + 1
    /\ LET h == [Idle EXCEPT !.call = calls', !.cmd = cmd] IN
       worker' = [worker EXCEPT ![w] =
           IF cmd = "wrt" THEN [h EXCEPT !.pc = "data"]
                          ELSE Continue(h, FirstReads(cmd))]
    /\ toServer' = toServer \o Pair(calls', cmd, "zeros")
    /\ slips' = slips \cup
          {s \in {"overlap"} : \E u \in Worker : worker[u].pc # "idle"} \cup
          {s \in {"split"} : \E u \in Worker : worker[u].pc = "data"}
    /\ UNCHANGED <<toClient, server, stored>>

\* writeHelper sends the chunk after the command.
SendData(w) ==
    /\ worker[w].pc = "data"
    /\ worker' = [worker EXCEPT ![w] = Continue(@, FirstReads("wrt"))]
    /\ toServer' = toServer \o Pair(worker[w].call, "data1", "data2")
    /\ UNCHANGED <<toClient, server, stored, calls, slips>>

\* Variant with a bug: r1_read leaves the data where it is.
NextReadsNoData(h, got) ==
    IF Head(h.reads) = "entry" /\ Last(got).part # "end" THEN {<<"entry">>}
    ELSE {Tail(h.reads)}

\* The reads left to handler h after one that returned got. r1_read reads the
\* data a result announces; r1_readdir reads blocks until one ends in the end
\* mark. Units that are not what the handler takes them for may say anything:
\* two chunks stand for a length that is too large.
NextReads(h, got) ==
    CASE h.cmd = "rea" /\ Head(h.reads) = "result" ->
            IF Head(got).part = "result"
            THEN {IF Head(got).more THEN <<"chunk">> ELSE <<>>}
            ELSE {<<>>, <<"chunk">>, <<"chunk", "chunk">>}
      [] Head(h.reads) = "entry" ->
            CASE Last(got).part = "mark" -> {<<"entry">>}
              [] Last(got).part = "end" -> {<<>>}
              [] OTHER -> {<<"entry">>, <<>>}
      [] OTHER -> {Tail(h.reads)}

\* A handler's read() returns.
Receive(w) ==
    /\ worker[w].pc = "read"
    /\ \E got \in Reads(toClient, SizeOf(Head(worker[w].reads))) :
          /\ toClient' = After(toClient, got)
          /\ \E left \in NextReads(worker[w], got) :
                worker' = [worker EXCEPT ![w] = Continue(@, left)]
          /\ Note("shortReply", Len(got) < SizeOf(Head(worker[w].reads)))
    /\ UNCHANGED <<toServer, server, stored, calls>>

-----------------------------------------------------------------------------
(***************************************************************************)
(* The server: client_handler's loop, and handleR1.                        *)
(***************************************************************************)
Result(c, more) == <<[U(c, "result") EXCEPT !.more = more], U(c, "rest")>>

\* The n blocks before the last one of a listing. Their last byte is that of
\* the buffer malloc returned, which may have served an earlier listing.
Entries(c, n, last) ==
    [i \in 1 .. 2 * n |-> U(c, IF i % 2 = 1 THEN "name" ELSE last)]

Listings(c) == {Entries(c, n, last) \o Pair(c, "name", "end") :
                    n \in 0 .. MaxEntries, last \in {"mark", "end"}}

\* What the server may answer to command cmd of call c ("wrt" answers later)
Answers(c, cmd) ==
    CASE cmd = "ret" -> {Result(c, FALSE)}
      [] cmd = "opn" -> {<<U(c, "hashes")>> \o Result(c, FALSE)}
      [] cmd = "rea" -> {Result(c, FALSE),
                         Result(c, TRUE) \o Pair(c, "data1", "data2")}
      [] cmd = "odr" -> {<<>>}
      [] cmd = "rdr" -> Listings(c)

\* The answer is a listing that seems to end before its last block.
EndsEarly(a) == \E i \in 1 .. Len(a) - 1 : a[i].part = "end"

\* A read() of a command. What does not begin like one is dropped.
ServeCommand ==
    /\ server.pc = "command"
    /\ \E got \in Reads(toServer, Block) :
          /\ toServer' = After(toServer, got)
          /\ LET u == Head(got)
                 short == {s \in {"shortRequest"} : Len(got) < Block}
             IN
             CASE u.part = "wrt" ->
                     /\ server' = [pc |-> "data", call |-> u.call]
                     /\ slips' = slips \cup short
                     /\ UNCHANGED toClient
               [] u.part \in Command \ {"wrt"} ->
                     /\ \E a \in Answers(u.call, u.part) :
                           /\ toClient' = toClient \o a
                           /\ slips' = slips \cup short \cup
                                 {s \in {"staleEnd"} : EndsEarly(a)}
                     /\ UNCHANGED server
               [] OTHER ->
                     /\ slips' = slips \cup short
                     /\ UNCHANGED <<server, toClient>>
    /\ UNCHANGED <<worker, stored, calls>>

\* Variants with a bug: the result is sent twice; half a chunk is read; the
\* call is not forgotten.
ServeDataTwice ==
    /\ server.pc = "data"
    /\ \E got \in Reads(toServer, Block) :
          /\ toServer' = After(toServer, got)
          /\ stored' = [call |-> server.call, data |-> got]
          /\ toClient' = toClient \o Result(server.call, FALSE)
                                  \o Result(server.call, FALSE)
          /\ Note("shortRequest", Len(got) < Block)
    /\ server' = Waiting
    /\ UNCHANGED <<worker, calls>>
ServeDataHalf ==
    /\ server.pc = "data"
    /\ \E got \in Reads(toServer, Block - 1) :
          /\ toServer' = After(toServer, got)
          /\ stored' = [call |-> server.call, data |-> got]
          /\ toClient' = toClient \o Result(server.call, FALSE)
          /\ Note("shortRequest", Len(got) < Block - 1)
    /\ server' = Waiting
    /\ UNCHANGED <<worker, calls>>
ServeDataStale ==
    /\ server.pc = "data"
    /\ \E got \in Reads(toServer, Block) :
          /\ toServer' = After(toServer, got)
          /\ stored' = [call |-> server.call, data |-> got]
          /\ toClient' = toClient \o Result(server.call, FALSE)
          /\ Note("shortRequest", Len(got) < Block)
    /\ server' = [server EXCEPT !.pc = "command"]
    /\ UNCHANGED <<worker, calls>>

\* The read() of a "wrt"'s chunk; however much it returned, the chunk is
\* written.
ServeData ==
    /\ server.pc = "data"
    /\ \E got \in Reads(toServer, Block) :
          /\ toServer' = After(toServer, got)
          /\ stored' = [call |-> server.call, data |-> got]
          /\ toClient' = toClient \o Result(server.call, FALSE)
          /\ Note("shortRequest", Len(got) < Block)
    /\ server' = Waiting
    /\ UNCHANGED <<worker, calls>>

-----------------------------------------------------------------------------
Handlers ==
    \E w \in Worker :
        \/ \E cmd \in Command : SendCommand(w, cmd)
        \/ SendData(w)
        \/ Receive(w)

Next == Handlers \/ ServeCommand \/ ServeData

Spec == Init /\ [][Next]_vars

\* A thread that can send or has something to read goes on; so does the server.
FairSpec ==
    /\ Spec
    /\ \A w \in Worker : WF_vars(SendData(w)) /\ WF_vars(Receive(w))
    /\ WF_vars(ServeCommand) /\ WF_vars(ServeData)

-----------------------------------------------------------------------------
(***************************************************************************)
(* Properties.                                                             *)
(***************************************************************************)
\* The units a handler that reads `what` for call c must find.
IsReply(got, c, what) ==
    /\ \A i \in DOMAIN got : got[i].call = c
    /\ CASE what = "hashes" -> [i \in DOMAIN got |-> got[i].part] = <<"hashes">>
         [] what = "result" ->
                [i \in DOMAIN got |-> got[i].part] = <<"result", "rest">>
         [] what = "chunk" ->
                [i \in DOMAIN got |-> got[i].part] = <<"data1", "data2">>
         [] what = "entry" ->
                [i \in DOMAIN got |-> got[i].part] \in
                    {<<"name", "mark">>, <<"name", "end">>}

\* Every read() of a handler returns what the server sent for it: the whole
\* of the next part of the answer to its own request.
ReadsOwnReply ==
    \A w \in Worker : Receive(w) =>
        IsReply(SubSeq(toClient, 1, Len(toClient) - Len(toClient')),
                worker[w].call, Head(worker[w].reads))
RepliesMatch == [][ReadsOwnReply]_vars

\* The same, up to the first slip: a handler reads what was not sent for it
\* only after two handlers have run at once, a read() was short, or a listing
\* carried an old end mark. Nothing else puts requests and answers out of step.
MismatchHasCause == [][slips' = {} => ReadsOwnReply]_vars

\* The chunk a "wrt" writes to the disk is the chunk its handler sent, whatever
\* the threads do and read, unless a command was sent between the command and
\* the chunk of another, or a read() of the server was short.
StoredIsSent ==
    slips \cap {"split", "shortRequest"} = {} =>
        stored = Nothing \/ stored.data = Pair(stored.call, "data1", "data2")

\* When no handler runs, no part of an answer is left for the next one to find,
\* unless there was a slip.
NothingLeft ==
    slips = {} /\ (\A w \in Worker : worker[w] = Idle) => toClient = <<>>

\* Every handler returns, unless there was a slip: then it may wait for an
\* answer that another has read, or for one that was never to come.
HandlersReturn ==
    \A w \in Worker :
        worker[w].pc # "idle" ~> worker[w].pc = "idle" \/ slips # {}
=============================================================================
