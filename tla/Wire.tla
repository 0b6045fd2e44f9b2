--------------------------------- MODULE Wire ---------------------------------
(***************************************************************************)
(* One request of a publisher, unit by unit: publisher.cpp encodes and     *)
(* frames it, the socket carries it in pieces, handle_connection reads and *)
(* dispatches it, the handler appends a record to the journal, and the     *)
(* reply travels back.  The connection can close and the coordinator can   *)
(* die between any two units.  The journal holds the record written when   *)
(* the coordinator started, then the record of this request.               *)
(*                                                                         *)
(* What the engine does with a request is the subject of Service: here the *)
(* handler appends some record its kind of request can append, or none,    *)
(* and answers with some reply of its type.  Compaction, and a write that  *)
(* fails, are the subject of Repository.                                   *)
(***************************************************************************)
EXTENDS Codec, FiniteSets

CONSTANTS
    Calls,      \* the requests made: records of a type and a shape
    Shapes,     \* the shapes of replies and of records
    Values,     \* what each of them holds, and each call
    MaxAppends, \* how many records one request appends
    Buffer      \* how many units the kernel holds in each direction

(***************************************************************************)
(* Messages.  A message is named by its type and its shape, which says how *)
(* much of it there is.  Some shapes matter to who sends it:               *)
(*   "newer"      made by a publisher of a later protocol version          *)
(*   "crowded"    with more path shares than the bound for one demand: the *)
(*                policy sets no path limit                                *)
(*   "unknown"    a query reply about a plan that does not exist           *)
(*   "refused"    a default-constructed response with an error code        *)
(***************************************************************************)
Nothing == [type |-> "nothing"]
Failure == [type |-> "failure"]

WireVersion == 1        \* kWireProtocolVersion

Named(type, shape) == [type |-> type, shape |-> shape]

(***************************************************************************)
(* Frames (net.cpp): magic, version, type, flags, length and checksum of   *)
(* the payload, then the payload.                                          *)
(***************************************************************************)
Magic == 1413826097     \* kFrameMagic
HeaderSize == 6

\* Stands for crc32c and for SHA-256: it tells apart what the model puts into it.
Checksum(units) ==
    LET weigh[x \in Nat \X Nat] ==      \* the units x[1] .. x[2], each with its place
            LET middle == (x[1] + x[2]) \div 2 IN
            IF x[1] > x[2] THEN 7
            ELSE IF x[1] = x[2] THEN (x[1] * (units[x[1]] % 9973)) % 65521
            ELSE (weigh[<<x[1], middle>>] + weigh[<<middle + 1, x[2]>>]) % 65521
    IN  weigh[<<1, Len(units)>>]

EncodeFrame(version, message) ==
    LET payload == Encode(message.type, message.value) IN
    <<Magic, version, message.type, 0, Len(payload), Checksum(payload)>> \o payload

Payload(frame) == SubSeq(frame, HeaderSize + 1, Len(frame))

DecodeFrameHeader(frame) ==
    /\ frame[1] = Magic
    /\ frame[2] # 0 /\ frame[2] <= WireVersion
    /\ frame[5] <= MaxPayload

\* Mutant: the payload is taken to be one unit longer.
WantedOneMore(frame) ==
    CASE Len(frame) < HeaderSize -> HeaderSize - Len(frame)
      [] Len(frame) >= HeaderSize /\ ~DecodeFrameHeader(frame) -> 0
      [] OTHER -> HeaderSize + frame[5] + 1 - Len(frame)

\* read_frame asks for the rest of the header, then for the rest of the payload.
Wanted(frame) ==
    CASE Len(frame) < HeaderSize -> HeaderSize - Len(frame)
      [] Len(frame) >= HeaderSize /\ ~DecodeFrameHeader(frame) -> 0
      [] OTHER -> HeaderSize + frame[5] - Len(frame)

FrameRead(frame) == Len(frame) >= HeaderSize /\ Wanted(frame) = 0
FrameSound(frame) == DecodeFrameHeader(frame) /\ Checksum(Payload(frame)) = frame[6]

(***************************************************************************)
(* Journal records (persist.cpp)                                           *)
(***************************************************************************)
RecordMagic == 1413829970
RecordHeaderSize == 7
RecordCode == [plan |-> 1, fence |-> 4, coordinator_epoch |-> 5]    \* RecordType

RecordImage(record, sequence, previous) ==
    LET payload == Encode(record.type, record.value)
        body == <<RecordMagic, FormatVersion, RecordCode[record.type], Len(payload),
                  sequence, previous, Checksum(payload)>> \o payload
    IN  Append(body, Checksum(body))

\* What is found at an offset: the record, if it is sound and the next of the chain.
RecordTotal(file, at) == RecordHeaderSize + file[at + 4] + 1
RecordPayload(file, at) ==
    SubSeq(file, at + RecordHeaderSize + 1, at + RecordTotal(file, at) - 1)
RecordSound(file, at, sequence, previous) ==
    /\ Len(file) - at >= RecordHeaderSize + 1
    /\ file[at + 1] = RecordMagic /\ file[at + 2] = FormatVersion
    /\ file[at + 3] \in 1 .. 6          \* RecordType::plan .. RecordType::audit
    /\ file[at + 4] <= MaxPayload
    /\ RecordTotal(file, at) <= Len(file) - at
    /\ Checksum(RecordPayload(file, at)) = file[at + 7]
    /\ Checksum(SubSeq(file, at + 1, at + RecordTotal(file, at) - 1))
            = file[at + RecordTotal(file, at)]
    /\ file[at + 6] = previous
    /\ file[at + 5] = sequence

\* The records of the journal, up to the first unsound one.
Scan(file) ==
    LET scan[n \in 0 .. Len(file) \div (RecordHeaderSize + 1)] ==
            IF n = 0 THEN [at |-> 0, previous |-> 0, records |-> << >>]
            ELSE LET s == scan[n - 1]
                     next == s.at + RecordTotal(file, s.at)
                 IN  IF ~RecordSound(file, s.at, Len(s.records) + 1, s.previous) THEN s
                     ELSE [at |-> next, previous |-> file[next],
                           records |-> Append(s.records,
                                              [code |-> file[s.at + 3],
                                               payload |-> RecordPayload(file, s.at)])]
    IN  scan[Len(file) \div (RecordHeaderSize + 1)].records

\* What recovery makes of the journal.  A record it cannot decode is skipped.
Kept(reads) ==
    LET kept[n \in 0 .. Len(reads)] ==
            IF n = 0 THEN << >>
            ELSE IF ~reads[n].read.ok THEN kept[n - 1]
            ELSE Append(kept[n - 1], [type |-> reads[n].type, value |-> reads[n].read.value])
    IN  kept[Len(reads)]
ReadRecord(record) ==
    LET type == CHOOSE t \in DOMAIN RecordCode : RecordCode[t] = record.code
    IN  [type |-> type, read |-> Decode(type, record.payload)]
Recovered(file) == LET records == Scan(file)
                   IN  Kept([i \in DOMAIN records |-> ReadRecord(records[i])])

(***************************************************************************)
(* What can be sent and stored, encoded once                               *)
(***************************************************************************)
Requests == {"hello_request", "register_publisher_request", "plan_request", "commit_request",
             "supersede_request", "retire_request", "query_request"}
Response(type) ==
    CASE type = "hello_request" -> "hello_response"
      [] type = "register_publisher_request" -> "register_publisher_response"
      [] type = "plan_request" -> "plan_response"
      [] type = "commit_request" -> "commit_response"
      [] type = "supersede_request" -> "supersede_response"
      [] type = "retire_request" -> "retire_response"
      [] type = "query_request" -> "query_response"

\* The replies to a request that does not decode: an error frame, or the
\* response of its type with nothing but an error code in it.  A plan request may
\* fail at its own fields or at the blobs in it.
Refusals(type) ==
    {Named("error_response", "some") :
        t \in {type} \cap {"hello_request", "register_publisher_request", "plan_request",
                           "commit_request"}}
    \cup {Named(Response(t), "refused") :
            t \in {type} \cap {"plan_request", "supersede_request", "retire_request",
                               "query_request"}}

\* The replies to a request that does.
Replies(type) ==
    {Named(Response(type), shape) :
        shape \in IF type = "query_request" THEN Shapes ELSE Shapes \ {"crowded", "unknown"}}

\* The records a request of a type can have the coordinator append.
Records(type) ==
    LET of(record) == {Named(record, shape) : shape \in Shapes \ {"unknown"}} IN
    CASE type = "register_publisher_request" -> of("fence")
      [] type \in {"plan_request", "commit_request", "supersede_request", "retire_request"} ->
            of("plan")
      [] OTHER -> {}

Started == Named("coordinator_epoch", "some")

Sent == Calls \cup UNION {Refusals(call.type) \cup Replies(call.type) : call \in Calls}
Stored == {Started} \cup UNION {Records(call.type) : call \in Calls}

Messages == [m \in Sent \cup Stored |-> [type |-> m.type, value |-> Values[m]]]

Frames == [m \in Sent |->
              EncodeFrame(IF m.shape = "newer" THEN WireVersion + 1 ELSE WireVersion, Messages[m])]

\* A value is one the types of the program can hold, and the coordinator started:
\* the record of its epoch is in the journal.
ASSUME WireAssumption ==
    /\ Buffer \in Nat \ {0} /\ MaxAppends \in Nat
    /\ \A call \in Calls : call.type \in Requests
    /\ \A m \in Sent \cup Stored : HasType(Written[m.type], Values[m])
    /\ Len(Encode(Started.type, Values[Started])) <= MaxPayload

\* What the reader of a whole frame makes of it.
Sound == [m \in Sent |-> FrameSound(Frames[m])]
Understood == [m \in Sent |-> Decode(Frames[m][3], Payload(Frames[m]))]

\* Both ends of the handshake insist on their own version.
Accepted(type, read) ==
    read.ok /\ (type \in {"hello_request", "hello_response"} =>
                    read.value.protocol_version = WireVersion)

Size == [m \in Stored |-> Len(RecordImage(Messages[m], 1, 0))]

\* The journal with these records in it, for all it can hold.
File(records) ==
    LET file[n \in 0 .. Len(records)] ==
            IF n = 0 THEN << >>
            ELSE file[n - 1] \o RecordImage(Messages[records[n]], n,
                                            IF n = 1 THEN 0 ELSE Last(file[n - 1]))
    IN  file[Len(records)]
Journals == [records \in {<<Started>> \o more : more \in BoundedSeq(Stored, MaxAppends)} |->
                File(records)]

(***************************************************************************)
(* The publisher, the coordinator's thread and what lies between them.     *)
(* TCP delivers the units in order, so a place in the frame says which     *)
(* units were sent and received.                                           *)
(***************************************************************************)
VARIABLES
    link,                   \* "open" or "closed"
    toServer, toClient,     \* how many units are on their way
    client,                 \* the publisher: pc, the request, units sent and received
    server,                 \* the thread: pc, units received, whether the request was
                            \* handled, the reply and how much of it was sent
    journal                 \* the records appended, and the one being appended, with its units

vars == <<link, toServer, toClient, client, server, journal>>

Init ==
    /\ link = "open" /\ toServer = 0 /\ toClient = 0
    /\ \E call \in Calls : client = [pc |-> "idle", call |-> call, sent |-> 0, got |-> 0]
    /\ server = [pc |-> "reading", got |-> 0, handled |-> FALSE, reply |-> Nothing, sent |-> 0]
    /\ journal = [records |-> <<Started>>, adding |-> Nothing, units |-> 0]

Request == Frames[client.call]
Reply == Frames[server.reply]
ServerHolds == SubSeq(Request, 1, server.got)
ClientHolds == SubSeq(Reply, 1, client.got)

Room(pipe) == Buffer - pipe
Least(a, b) == IF a < b THEN a ELSE b

(***************************************************************************)
(* Publisher                                                               *)
(***************************************************************************)
\* write_frame refuses a payload above the bound and sends nothing.
Ask ==
    /\ client.pc = "idle"
    /\ client' = [client EXCEPT
                     !.pc = IF Len(Payload(Request)) > MaxPayload THEN "failed" ELSE "sending"]
    /\ UNCHANGED <<link, toServer, toClient, server, journal>>

ClientSend ==
    /\ client.pc = "sending" /\ link = "open"
    /\ \E n \in 1 .. Least(Len(Request) - client.sent, Room(toServer)) :
         /\ toServer' = toServer + n
         /\ client' = [client EXCEPT
                          !.sent = client.sent + n,
                          !.pc = IF client.sent + n = Len(Request) THEN "receiving" ELSE "sending"]
    /\ UNCHANGED <<link, toClient, server, journal>>

ClientReceive ==
    /\ client.pc = "receiving" /\ toClient > 0
    /\ \E n \in 1 .. Least(Wanted(ClientHolds), toClient) :
         /\ client' = [client EXCEPT !.got = client.got + n]
         /\ toClient' = toClient - n
    /\ UNCHANGED <<link, toServer, server, journal>>

ReplyIsHere == server.reply # Nothing /\ FrameRead(ClientHolds)

\* expect_frame and the decoder of the response.
ClientReturn ==
    /\ client.pc = "receiving" /\ ReplyIsHere
    /\ LET type == Reply[3]
           good == /\ Sound[server.reply]
                   /\ type \in {"error_response", Response(client.call.type)}
                   /\ Accepted(type, Understood[server.reply])
       IN  client' = [client EXCEPT !.pc = IF good THEN "returned" ELSE "failed"]
    /\ UNCHANGED <<link, toServer, toClient, server, journal>>

\* A write to, or a read from, a connection that is closed.
ClientFail ==
    /\ link = "closed"
    /\ \/ client.pc = "sending"
       \/ client.pc = "receiving" /\ toClient = 0 /\ ~ReplyIsHere
    /\ client' = [client EXCEPT !.pc = "failed"]
    /\ UNCHANGED <<link, toServer, toClient, server, journal>>

\* The publisher has its result and goes away.
Hangup ==
    /\ client.pc \in {"returned", "failed"} /\ link = "open"
    /\ link' = "closed" /\ toClient' = 0
    /\ UNCHANGED <<toServer, client, server, journal>>

Client == Ask \/ ClientSend \/ ClientReceive \/ ClientReturn \/ ClientFail \/ Hangup

(***************************************************************************)
(* Coordinator                                                             *)
(***************************************************************************)
ServerReceive ==
    /\ server.pc = "reading" /\ toServer > 0
    /\ \E n \in 1 .. Least(Wanted(ServerHolds), toServer) :
         /\ server' = [server EXCEPT !.got = server.got + n]
         /\ toServer' = toServer - n
    /\ UNCHANGED <<link, toClient, client, journal>>

\* handle_connection drops a connection whose frame is not sound.
Drop ==
    /\ server.pc = "reading" /\ FrameRead(ServerHolds)
    /\ ~Sound[client.call]
    /\ server' = [server EXCEPT !.pc = "closed"]
    /\ link' = "closed" /\ toServer' = 0
    /\ UNCHANGED <<toClient, client, journal>>

\* dispatch, up to the decoded request.
Dispatch ==
    /\ server.pc = "reading" /\ server.reply = Nothing
    /\ FrameRead(ServerHolds) /\ Sound[client.call]
    /\ IF Accepted(Request[3], Understood[client.call])
       THEN server' = [server EXCEPT !.pc = "handling", !.handled = TRUE]
       ELSE \E reply \in Refusals(Request[3]) :
                server' = [server EXCEPT !.pc = "replying", !.reply = reply]
    /\ UNCHANGED <<link, toServer, toClient, client, journal>>

\* The handler appends a record.  append refuses a payload above the bound.
AppendRecord ==
    /\ server.pc = "handling" /\ journal.adding = Nothing
    /\ Len(journal.records) <= MaxAppends
    /\ \E record \in Records(client.call.type) :
         /\ Size[record] - RecordHeaderSize - 1 <= MaxPayload
         /\ journal' = [journal EXCEPT !.adding = record]
    /\ UNCHANGED <<link, toServer, toClient, client, server>>

\* append writes the image of the record; the write is not atomic.
Store ==
    /\ server.pc = "handling" /\ journal.adding # Nothing
    /\ journal' = IF journal.units + 1 < Size[journal.adding]
                  THEN [journal EXCEPT !.units = journal.units + 1]
                  ELSE [records |-> Append(journal.records, journal.adding),
                        adding |-> Nothing, units |-> 0]
    /\ UNCHANGED <<link, toServer, toClient, client, server>>

\* The handler returns.  write_frame refuses a payload above the bound, and
\* handle_connection then drops the connection.
Respond ==
    /\ server.pc = "handling" /\ journal.adding = Nothing
    /\ \E reply \in Replies(client.call.type) :
         LET sent == Len(Payload(Frames[reply])) <= MaxPayload IN
         /\ server' = [server EXCEPT !.pc = IF sent THEN "replying" ELSE "closed",
                                     !.reply = reply]
         /\ link' = IF sent THEN link ELSE "closed"
    /\ UNCHANGED <<toServer, toClient, client, journal>>

ServerSend ==
    /\ server.pc = "replying" /\ link = "open"
    /\ \E n \in 1 .. Least(Len(Reply) - server.sent, Room(toClient)) :
         /\ toClient' = toClient + n
         /\ server' = [server EXCEPT
                          !.sent = server.sent + n,
                          !.pc = IF server.sent + n = Len(Reply) THEN "waiting" ELSE "replying"]
    /\ UNCHANGED <<link, toServer, client, journal>>

\* The session ends; a thread that waits for the next frame finds none.
ServerFail ==
    /\ link = "closed"
    /\ \/ server.pc \in {"replying", "waiting"}
       \/ server.pc = "reading" /\ toServer = 0 /\ ~FrameRead(ServerHolds)
    /\ server' = [server EXCEPT !.pc = "closed"]
    /\ UNCHANGED <<link, toServer, toClient, client, journal>>

Server == ServerReceive \/ Drop \/ Dispatch \/ AppendRecord \/ Store \/ Respond \/ ServerSend \/ ServerFail

(***************************************************************************)
(* What neither of them does                                               *)
(***************************************************************************)
\* stop interrupts the session.  What is on its way to the publisher may be lost.
Interrupt ==
    /\ link = "open"
    /\ link' = "closed" /\ toServer' = 0 /\ toClient' \in {toClient, 0}
    /\ UNCHANGED <<client, server, journal>>

\* The coordinator dies.
Crash ==
    /\ server.pc \notin {"closed", "down"}
    /\ link' = "closed" /\ server' = [server EXCEPT !.pc = "down"]
    /\ toServer' = 0 /\ toClient' \in {toClient, 0}
    /\ UNCHANGED <<client, journal>>

Next == Client \/ Server \/ Interrupt \/ Crash

\* Each thread runs while it has something to do: the sockets are polled, and no
\* lock of another thread is held meanwhile.
Spec == Init /\ [][Next]_vars /\ WF_vars(Client) /\ WF_vars(Server)

(***************************************************************************)
(* Properties                                                              *)
(***************************************************************************)
\* However the stream is cut into pieces, and wherever it ends, the coordinator
\* handles the request it was sent and nothing else, the publisher is told what
\* the coordinator answered, or that the call failed: encoders, framing and
\* decoders together are a call.
As(m) == [type |-> Frames[m][3], value |-> Understood[m].value]
Carried == INSTANCE Call WITH
    made <- Messages[client.call],
    handled <- IF server.handled THEN As(client.call) ELSE Nothing,
    answer <- IF server.reply = Nothing THEN Nothing ELSE Messages[server.reply],
    told <- CASE client.pc = "returned" -> As(server.reply)
              [] client.pc = "failed" -> Failure
              [] OTHER -> Nothing
ImplementsCall == Carried!Spec

\* No decoder accepts the beginning of a message, or a message with something
\* after it: what a reader holds decodes only when it is the whole payload.
Delimited(frame) ==
    Len(frame) >= HeaderSize /\ DecodeFrameHeader(frame) =>
        ~Decode(frame[3], Payload(IF Wanted(frame) > 0 THEN frame ELSE Append(frame, 0))).ok
SelfDelimiting ==
    /\ server.pc = "reading" => Delimited(ServerHolds)
    /\ client.pc = "receiving" /\ server.reply # Nothing => Delimited(ClientHolds)

\* Wherever the coordinator dies, recovery reads the records whose append
\* returned, each with the values it was written with, and nothing of a record
\* that is only partly there.
RecoveryReadsWhatWasWritten ==
    server.pc = "down" =>
        LET growing == IF journal.adding = Nothing THEN journal.records
                       ELSE Append(journal.records, journal.adding)
            left == Len(Journals[journal.records]) + journal.units
        IN  Recovered(SubSeq(Journals[growing], 1, left))
                = [i \in DOMAIN journal.records |-> Messages[journal.records[i]]]

\* A reply that arrived whole is one the publisher can read: a call fails only
\* when the connection does.
RepliesAreReadable == link = "open" => client.pc # "failed"

\* A call ends: neither side waits for units the other will not send.
CallEnds == <>(client.pc \in {"returned", "failed"})
===============================================================================
