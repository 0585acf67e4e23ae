------------------------------ MODULE KafkaWire ------------------------------
(***************************************************************************)
(* The bytes of one kafka.Client.Produce: the request that the codec       *)
(* writes, what the readers of the same package make of it on the broker's *)
(* side, and how Produce reads the bytes that come back.                   *)
(*                                                                         *)
(* The encoding is KafkaCodec's.  Locks, connections and calls that        *)
(* overlap are KafkaClient's.                                              *)
(***************************************************************************)
EXTENDS KafkaCodec, SequencesExt

CONSTANTS
  ClientID,     \* "iomesh-kafka-client", as bytes
  Calls,        \* arguments of Produce: topic, partition, key and value
  Listings      \* what the broker may list in a reply

ASSUME ClientAssumption == ClientID \in Seq(Int) /\ Len(ClientID) <= MaxInt(2)

ASSUME CallsAssumption ==
  \A c \in Calls : /\ c.topic \in Seq(Int) /\ c.partition \in Ints(4)
                  /\ c.value \in Seq(Int) \cup {Null}

VARIABLES
  stage,        \* how far the call is
  args,         \* the arguments of Produce
  sent,         \* the bytes on their way to the broker
  stored,       \* what the broker read in them
  listing,      \* what the broker replies: entries by topic and partition
  meant,        \* the correlation id it replies with
  whole,        \* its reply is as long as it says, and arrives whole
  arrived,      \* the bytes on their way back
  reader,       \* Produce's reader: the frame and the place in it
  topics,       \* topics of the reply still to be read
  parts,        \* partitions of the topic at hand still to be read
  returned      \* what Produce returned

wireVars ==
  <<stage, args, sent, stored, listing, meant, whole, arrived, reader, topics, parts, returned>>

Corr == 1     \* the correlation id of the call

-----------------------------------------------------------------------------
(* The call. *)

NoRecord == [topic |-> <<>>, partition |-> 0, values |-> <<>>, header |-> <<>>]

Nothing == [kind |-> "none", offset |-> 0]

WireInit ==
  /\ stage = "idle"
  /\ args = [topic |-> <<>>, partition |-> 0, key |-> Null, value |-> Null]
  /\ sent = <<>> /\ stored = NoRecord
  /\ listing = <<>> /\ meant = Corr /\ whole = TRUE /\ arrived = <<>>
  /\ reader = Reader(<<>>) /\ topics = 0 /\ parts = 0
  /\ returned = Nothing

\* The body of a produce request, version 1: acks 1, a timeout of 5 (5000 in
\* the code), one topic, one partition.  The key is not written.
RequestBody(c) ==
  WriteInt(0, 2) \o WriteInt(1, 2) \o WriteInt(Corr, 4) \o WriteString(ClientID)
    \o WriteInt(1, 2) \o WriteInt(5, 4)
    \o WriteInt(1, 4) \o WriteString(c.topic)
    \o WriteInt(1, 4) \o WriteInt(c.partition, 4)
    \o WriteBytes(encodeMessageSetV1(c.value))

Finish(kind, offset) == stage' = "done" /\ returned' = [kind |-> kind, offset |-> offset]

\* c.Close() with the mutex held: the call does not return (see KafkaClient).
CloseAndFail == stage' = "closing" /\ UNCHANGED returned

\* Produce up to WriteFrame.
WriteProduce(c) ==
  /\ stage = "idle"
  /\ args' = c
  /\ IF TooLarge(RequestBody(c))
     THEN CloseAndFail /\ UNCHANGED sent
     ELSE stage' = "written" /\ sent' = WriteFrame(RequestBody(c)) /\ UNCHANGED returned
  /\ UNCHANGED <<stored, listing, meant, whole, arrived, reader, topics, parts>>

\* What a broker reads in a produce request with the readers of this package:
\* the first topic and partition, and the records for it.
Received(body) ==
  LET header    == parseRequestHeader(body)
      acks      == readInt(Reader(header.rest), 2)
      timeout   == readInt(acks.r, 4)
      nTopics   == readInt(timeout.r, 4)
      topic     == readString(nTopics.r)
      nParts    == readInt(topic.r, 4)
      partition == readInt(nParts.r, 4)
      set       == readBytes(partition.r)
      records   == decodeMessageSetV1(set.v)
  IN  IF /\ header.ok /\ nTopics.ok /\ nTopics.v > 0
         /\ topic.ok /\ nParts.ok /\ nParts.v > 0
         /\ partition.ok /\ set.ok /\ set.v # Null
         /\ records.ok /\ records.v # <<>>
      THEN [topic |-> topic.v, partition |-> partition.v, values |-> records.v,
            header |-> header.v]
      ELSE NoRecord

BrokerReads ==
  /\ stage = "written"
  /\ stored' = Received(ReadFrame(sent).v)
  /\ sent' = <<>>
  /\ stage' = "read"
  /\ UNCHANGED <<args, listing, meant, whole, arrived, reader, topics, parts, returned>>

\* The reply that lists l: per topic its partitions, each with an error code and
\* an offset; at the end the throttle time, which Produce does not read.
ListedPart(p) == WriteInt(p.partition, 4) \o WriteInt(p.code, 2) \o WriteInt(p.offset, 8)

ListedTopic(t) ==
  WriteString(t.topic) \o WriteInt(Len(t.parts), 4)
    \o FlattenSeq([k \in 1 .. Len(t.parts) |-> ListedPart(t.parts[k])])

Listed(l) ==
  WriteInt(Len(l), 4) \o FlattenSeq([k \in 1 .. Len(l) |-> ListedTopic(l[k])]) \o WriteInt(0, 4)

\* What the broker lists fits the fields that it is written to.
ASSUME ListingsAssumption ==
  \A l \in Listings :
    /\ l \in Seq([topic: Seq(Int),
                  parts: Seq([partition: Ints(4), code: Ints(2), offset: Ints(8)])])
    /\ \A k \in 1 .. Len(l) : Len(l[k].topic) <= MaxInt(2)
    /\ ~TooLarge(encodeResponse(Corr, Listed(l)))

Replies(l, id, bytes, intact) ==
  /\ stage = "read"
  /\ listing' = l /\ meant' = id /\ whole' = intact
  /\ arrived' = bytes
  /\ stage' = "replied"
  /\ UNCHANGED <<args, sent, stored, reader, topics, parts, returned>>

ReplyWhole(l, id) == Replies(l, id, encodeResponse(id, Listed(l)), TRUE)

\* The connection ends within the reply.
ReplyCut(l) ==
  LET bytes == encodeResponse(Corr, Listed(l)) IN
  \E n \in 0 .. Len(bytes) - 1 : Replies(l, Corr, SubSeq(bytes, 1, n), FALSE)

\* The frame itself ends before what it lists does.
ReplyShort(l) ==
  LET payload == Listed(l) IN
  \E n \in 0 .. Len(payload) - 1 :
    Replies(l, Corr, encodeResponse(Corr, SubSeq(payload, 1, n)), FALSE)

ReceiveReply ==
  /\ stage = "replied"
  /\ LET f == ReadFrame(arrived) IN
     IF f.ok THEN reader' = Reader(f.v) /\ stage' = "head" /\ UNCHANGED returned
             ELSE CloseAndFail /\ UNCHANGED reader
  /\ arrived' = <<>>
  /\ UNCHANGED <<args, sent, stored, listing, meant, whole, topics, parts>>

\* The correlation id and the number of topics.
ReadHead ==
  /\ stage = "head"
  /\ LET corr  == readInt(reader, 4)
         count == readInt(corr.r, 4)
     IN  IF ~corr.ok \/ corr.v # Corr \/ ~count.ok
         THEN Finish("error", 0) /\ UNCHANGED <<reader, topics>>
         ELSE stage' = "topic" /\ reader' = count.r /\ topics' = count.v /\ UNCHANGED returned
  /\ UNCHANGED <<args, sent, stored, listing, meant, whole, arrived, parts>>

\* The next topic and the number of its partitions.  For a topic not asked for
\* a count that cannot be read is taken for 0.
ReadTopic ==
  /\ stage = "topic" /\ topics > 0
  /\ topics' = topics - 1
  /\ LET topic == readString(reader)
         own   == topic.v = args.topic
         count == readInt(topic.r, 4)
     IN  IF ~topic.ok \/ (own /\ ~count.ok)
         THEN Finish("error", 0) /\ UNCHANGED <<reader, parts>>
         ELSE /\ stage' = IF own THEN "part" ELSE "skip"
              /\ reader' = count.r /\ parts' = count.v
              /\ UNCHANGED returned
  /\ UNCHANGED <<args, sent, stored, listing, meant, whole, arrived>>

\* A partition, a code and an offset are read over; what cannot be read is left.
AfterSkipped(rd) == readInt(readInt(readInt(rd, 4).r, 2).r, 8).r

SkipPart ==
  /\ stage = "skip" /\ parts > 0
  /\ reader' = AfterSkipped(reader)
  /\ parts' = parts - 1
  /\ UNCHANGED <<stage, args, sent, stored, listing, meant, whole, arrived, topics, returned>>

\* Mutation: an offset that cannot be read is taken for 0.
PartFailsUnlessOffset(part, code, offset) == ~part.ok \/ ~code.ok

PartFails(part, code, offset) == ~part.ok \/ ~code.ok \/ ~offset.ok

ReadPart ==
  /\ stage = "part" /\ parts > 0
  /\ parts' = parts - 1
  /\ LET part   == readInt(reader, 4)
         code   == readInt(part.r, 2)
         offset == readInt(code.r, 8)
     IN  IF PartFails(part, code, offset) THEN Finish("error", 0) /\ UNCHANGED reader
         ELSE IF part.v # args.partition THEN reader' = offset.r /\ UNCHANGED <<stage, returned>>
         ELSE IF code.v # 0 THEN Finish("error", 0) /\ UNCHANGED reader
         ELSE Finish("offset", offset.v) /\ UNCHANGED reader
  /\ UNCHANGED <<args, sent, stored, listing, meant, whole, arrived, topics>>

\* The partitions of a topic are over.
TopicEnds ==
  /\ stage \in {"skip", "part"} /\ parts <= 0
  /\ stage' = "topic"
  /\ UNCHANGED <<args, sent, stored, listing, meant, whole, arrived, reader, topics, parts, returned>>

\* The topics are over: "missing from response".
Missing ==
  /\ stage = "topic" /\ topics <= 0
  /\ Finish("error", 0)
  /\ UNCHANGED <<args, sent, stored, listing, meant, whole, arrived, reader, topics, parts>>

WireNext ==
  \/ \E c \in Calls : WriteProduce(c)
  \/ BrokerReads
  \/ \E l \in Listings, id \in {Corr, Corr + 1} : ReplyWhole(l, id)
  \/ \E l \in Listings : ReplyCut(l) \/ ReplyShort(l)
  \/ ReceiveReply \/ ReadHead \/ ReadTopic \/ SkipPart \/ ReadPart \/ TopicEnds \/ Missing

WireSpec == WireInit /\ [][WireNext]_wireVars
-----------------------------------------------------------------------------
(* Properties. *)

\* What the broker reads in a request is the record of the call: its topic, its
\* partition and its value, under the header the client wrote.  Only a topic too
\* long for its length field, which WriteString drops from the request, is read
\* as the empty topic, and never as another one; the record set is then read two
\* bytes late, and as nothing at all unless it takes B^2 bytes.
RecordIntact ==
  stage \notin {"idle", "written", "closing"} =>
    \/ /\ stored.topic = args.topic /\ stored.partition = args.partition
       /\ stored.values = <<args.value>>
       /\ stored.header = [apiKey |-> 0, apiVersion |-> 1,
                           correlationID |-> Corr, clientID |-> ClientID]
    \/ /\ Len(args.topic) > MaxInt(2) /\ stored.topic = <<>>
       /\ Len(encodeMessageSetV1(args.value)) < Pow[2] => stored = NoRecord

\* The package reads a frame in two ways, from a stream (codec.go) and in place
\* (wire.go).  At every place of every request they agree.
ReadersAgree ==
  stage = "written" =>
    LET body == ReadFrame(sent).v IN \A i \in 0 .. Len(body) : AgreeAt(body, i)

\* The answer of a listing to a call: the first entry of its topic and partition.
Own ==
  {e \in UNION {{k} \X (1 .. Len(listing[k].parts)) : k \in 1 .. Len(listing)} :
     /\ listing[e[1]].topic = args.topic
     /\ listing[e[1]].parts[e[2]].partition = args.partition}

Meant ==
  LET first == CHOOSE e \in Own : \A f \in Own : e[1] < f[1] \/ (e[1] = f[1] /\ e[2] <= f[2])
      entry == listing[first[1]].parts[first[2]]
  IN  IF meant = Corr /\ Own # {} /\ entry.code = 0
      THEN [kind |-> "offset", offset |-> entry.offset]
      ELSE [kind |-> "error", offset |-> 0]

\* Produce returns an offset exactly when the reply lists one, without an error,
\* for its topic and partition, however many topics and partitions it has to
\* read over; and a reply cut short anywhere is that answer or an error, never
\* another offset.
ReplyReadAsMeant ==
  stage = "done" => \/ returned = Meant
                    \/ ~whole /\ returned.kind = "error"
-----------------------------------------------------------------------------
(* The inductive invariant. *)

\* The frame of the reply as the broker means it, and where its topics begin and end.
Frame == WriteInt(meant, 4) \o Listed(listing)

Places(l) ==
  LET at[k \in 0 .. Len(l)] == IF k = 0 THEN 8 ELSE at[k - 1] + Len(ListedTopic(l[k]))
  IN  at

\* Where partition n of topic k ends.
PartPlace(l, k, n) == Places(l)[k - 1] + 6 + Len(l[k].topic) + 14 * n

\* The entry of the call comes after partition n of topic k.
OwnAfter(k, n) == \A e \in Own : e[1] > k \/ (e[1] = k /\ e[2] > n)

\* The frame that arrived begins as the one that was meant, and is it when it is whole.
FrameRead ==
  /\ reader \in [b: Seq(Int), i: Nat] /\ reader.i <= Len(reader.b)
  /\ Len(reader.b) <= Len(Frame) /\ \A k \in 1 .. Len(reader.b) : reader.b[k] = Frame[k]
  /\ IF whole THEN reader.b = Frame ELSE meant = Corr

\* In a frame cut short the reader may lose its place, with too little left for an
\* offset.
Lost == ~whole /\ Remaining(reader) < 8

AtTopic(k) ==
  /\ k \in 0 .. Len(listing) /\ reader.i = Places(listing)[k]
  /\ OwnAfter(k + 1, 0)

AtPart(k, n) ==
  /\ k \in 1 .. Len(listing) /\ n \in 0 .. Len(listing[k].parts)
  /\ reader.i = PartPlace(listing, k, n)
  /\ stage = "part" <=> listing[k].topic = args.topic
  /\ OwnAfter(k, n)

\* The reply, on its way back.
Replied ==
  \/ whole /\ arrived = WriteFrame(Frame)
  \/ /\ ~whole /\ meant = Corr
     /\ \/ \E n \in 0 .. Len(WriteFrame(Frame)) - 1 : arrived = SubSeq(WriteFrame(Frame), 1, n)
        \/ \E n \in 0 .. Len(Listed(listing)) - 1 :
             arrived = WriteFrame(WriteInt(meant, 4) \o SubSeq(Listed(listing), 1, n))

WireInv ==
  /\ stage = "written" => /\ args \in Calls /\ ~TooLarge(RequestBody(args))
                          /\ sent = WriteFrame(RequestBody(args))
  /\ stage \in {"replied", "head", "topic", "skip", "part"} =>
       listing \in Listings /\ meant \in {Corr, Corr + 1} /\ whole \in BOOLEAN
  /\ stage = "replied" => Replied
  /\ stage \in {"head", "topic", "skip", "part"} => FrameRead
  /\ stage = "head" => reader.i = 0
  /\ stage \in {"topic", "skip", "part"} => meant = Corr /\ topics \in Int
  /\ stage \in {"skip", "part"} => parts \in Int
  /\ stage = "topic" => Lost \/ AtTopic(Len(listing) - topics)
  /\ stage \in {"skip", "part"} =>
       LET k == Len(listing) - topics IN Lost \/ AtPart(k, Len(listing[k].parts) - parts)
  /\ RecordIntact
  /\ ReplyReadAsMeant
=============================================================================
