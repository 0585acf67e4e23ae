----------------------------- MODULE KafkaCodec -----------------------------
(***************************************************************************)
(* The encoding of package kafka: integers, strings, byte fields, frames   *)
(* and messages (codec.go), and the readers that keep a place in a frame   *)
(* (wire.go).                                                              *)
(*                                                                         *)
(* A byte has B values (256 in the code) and the integers keep their       *)
(* widths of 2, 4 and 8 bytes, so that with a small B a topic, a value or a *)
(* frame reaches the limit of its length field.                            *)
(***************************************************************************)
EXTENDS Integers, Sequences

CONSTANTS
  B,            \* values of a byte
  Null          \* a nil []byte

ASSUME ByteAssumption == B \in Nat /\ B > 1

\* nil is no sequence of bytes.
ASSUME NullAssumption == Null \notin Seq(Int)

(* codec.go: integers, strings and byte fields of a stream. *)

\* How many values n bytes have.
Pow[n \in 0 .. 8] == IF n = 0 THEN 1 ELSE Pow[n - 1] * B

MaxInt(width) == Pow[width] \div 2 - 1

\* The integers of a width, in two's complement.
Ints(width) == MaxInt(width) + 1 - Pow[width] .. MaxInt(width)

\* PutUint of the value's low bytes: a length that does not fit wraps.
WriteInt(v, width) == [k \in 1 .. width |-> (v \div Pow[width - k]) % B]

Unsigned(bytes) ==
  LET upTo[k \in 0 .. Len(bytes)] == IF k = 0 THEN 0 ELSE upTo[k - 1] * B + bytes[k]
  IN  upTo[Len(bytes)]

Signed(bytes) ==
  LET u == Unsigned(bytes)
  IN  IF u > MaxInt(Len(bytes)) THEN u - Pow[Len(bytes)] ELSE u

\* A reader of a stream yields a value and what is left of the stream.
Got(v, rest) == [ok |-> TRUE, v |-> v, rest |-> rest]
Failed == [ok |-> FALSE, v |-> 0, rest |-> <<>>]

\* io.ReadFull of the next n bytes.
ReadFull(s, n) ==
  IF Len(s) < n THEN Failed ELSE Got(SubSeq(s, 1, n), SubSeq(s, n + 1, Len(s)))

ReadInt(s, width) ==
  LET b == ReadFull(s, width) IN IF b.ok THEN Got(Signed(b.v), b.rest) ELSE Failed

\* A string whose length is negative is an error here.
ReadString(s) ==
  LET n == ReadInt(s, 2) IN IF n.ok /\ n.v >= 0 THEN ReadFull(n.rest, n.v) ELSE Failed

\* Mutation: a string too long for its length field is cut to fit.
WriteStringCut(s) ==
  LET fit == IF Len(s) > MaxInt(2) THEN SubSeq(s, 1, MaxInt(2)) ELSE s
  IN  WriteInt(Len(fit), 2) \o fit

\* A string too long for its length field is an error, which Produce ignores:
\* nothing is written.
WriteString(s) ==
  IF Len(s) > MaxInt(2) THEN <<>> ELSE WriteInt(Len(s), 2) \o s

\* nil has the length -1.
ReadBytes(s) ==
  LET n == ReadInt(s, 4) IN
  IF ~n.ok THEN Failed ELSE IF n.v < 0 THEN Got(Null, n.rest) ELSE ReadFull(n.rest, n.v)

WriteBytes(b) == IF b = Null THEN WriteInt(-1, 4) ELSE WriteInt(Len(b), 4) \o b

ReadFrame(s) ==
  LET n == ReadInt(s, 4) IN IF n.ok /\ n.v >= 0 THEN ReadFull(n.rest, n.v) ELSE Failed

TooLarge(payload) == Len(payload) > MaxInt(4)

WriteFrame(payload) == WriteInt(Len(payload), 4) \o payload

ReadRequestHeader(s) ==
  LET key     == ReadInt(s, 2)
      version == ReadInt(key.rest, 2)
      corr    == ReadInt(version.rest, 4)
      client  == ReadString(corr.rest)
  IN  IF client.ok
      THEN Got([apiKey |-> key.v, apiVersion |-> version.v,
                correlationID |-> corr.v, clientID |-> client.v], client.rest)
      ELSE Failed
-----------------------------------------------------------------------------
(* codec.go: messages of magic 1, and of magic 0 when read. *)

\* A checksum of four bytes, each of every fourth byte of the body, that tells the
\* bodies apart that occur here (crc32 in the code).
Checksum(body) ==
  LET sum[k \in 1 .. Len(body)] == (IF k > 4 THEN sum[k - 4] ELSE 0) + k * body[k]
  IN  [j \in 1 .. 4 |-> sum[Len(body) - 4 + j] % B]

\* A nil field and an empty one differ: their lengths are -1 and 0.
appendNullableBytes(dst, b) ==
  dst \o (IF b = Null THEN WriteInt(-1, 4) ELSE WriteInt(Len(b), 4) \o b)

\* The field of `data` at `off`, and the bytes it takes.
readNullableBytesAt(data, off) ==
  LET n == Signed(SubSeq(data, off + 1, off + 4)) IN
  IF off + 4 > Len(data) THEN Failed
  ELSE IF n < 0 THEN Got(Null, 4)
  ELSE IF off + 4 + n > Len(data) THEN Failed
  ELSE Got(SubSeq(data, off + 5, off + 4 + n), 4 + n)

EncodeMessage(key, value) ==
  LET body == appendNullableBytes(appendNullableBytes(<<1, 0>> \o WriteInt(0, 8), key), value)
  IN  Checksum(body) \o body

\* Magic, attributes, the timestamp of magic 1, key and value, nothing after
\* them, and a checksum of all that follows it.
DecodeMessage(data) ==
  LET magic == data[5]
      off   == IF magic = 1 THEN 14 ELSE 6
      key   == readNullableBytesAt(data, off)
      value == readNullableBytesAt(data, off + key.rest)
  IN  IF /\ Len(data) >= 14
         /\ magic \in {0, 1}
         /\ key.ok /\ value.ok
         /\ off + key.rest + value.rest = Len(data)
         /\ SubSeq(data, 1, 4) = Checksum(SubSeq(data, 5, Len(data)))
      THEN Got([key |-> key.v, value |-> value.v], <<>>)
      ELSE Failed
-----------------------------------------------------------------------------
(* wire.go: readers that keep their place in a frame, and do not move when  *)
(* a field is cut short.                                                    *)

Reader(frame) == [b |-> frame, i |-> 0]

Remaining(rd) == Len(rd.b) - rd.i

Read(rd, v, n) == [ok |-> TRUE, v |-> v, r |-> [rd EXCEPT !.i = @ + n]]
Short(rd)      == [ok |-> FALSE, v |-> 0, r |-> rd]

NextBytes(rd, n) == SubSeq(rd.b, rd.i + 1, rd.i + n)

readInt(rd, width) ==
  IF Remaining(rd) < width THEN Short(rd) ELSE Read(rd, Signed(NextBytes(rd, width)), width)

\* Mutation: an empty field is read as nil.
readBytesEmptyIsNull(rd) ==
  LET n == readInt(rd, 4) IN
  IF ~n.ok THEN Short(n.r)
  ELSE IF n.v <= 0 THEN Read(n.r, Null, 0)
  ELSE IF n.v > Remaining(n.r) THEN Short(n.r)
  ELSE Read(n.r, NextBytes(n.r, n.v), n.v)

readBytes(rd) ==
  LET n == readInt(rd, 4) IN
  IF ~n.ok THEN Short(n.r)
  ELSE IF n.v < 0 THEN Read(n.r, Null, 0)
  ELSE IF n.v > Remaining(n.r) THEN Short(n.r)
  ELSE Read(n.r, NextBytes(n.r, n.v), n.v)

\* A string whose length is negative is empty here.
readString(rd) ==
  LET n == readInt(rd, 2) IN
  IF ~n.ok THEN Short(n.r)
  ELSE IF n.v < 0 THEN Read(n.r, <<>>, 0)
  ELSE IF n.v > Remaining(n.r) THEN Short(n.r)
  ELSE Read(n.r, NextBytes(n.r, n.v), n.v)

parseRequestHeader(body) ==
  LET key     == readInt(Reader(body), 2)
      version == readInt(key.r, 2)
      corr    == readInt(version.r, 4)
      client  == readString(corr.r)
  IN  IF key.ok /\ version.ok /\ corr.ok /\ client.ok
      THEN Got([apiKey |-> key.v, apiVersion |-> version.v,
                correlationID |-> corr.v, clientID |-> client.v],
               NextBytes(client.r, Remaining(client.r)))
      ELSE Failed

encodeResponse(correlationID, payload) ==
  WriteInt(4 + Len(payload), 4) \o WriteInt(correlationID, 4) \o payload

\* The values of the records of a message set: an offset, a size and a message
\* each.  (A negative size panics in the code; it is a failure here.)
decodeMessageSetV1(set) ==
  LET from[i \in 0 .. Len(set)] ==
        LET offset == readInt([b |-> set, i |-> i], 8)
            size   == readInt(offset.r, 4)
            end    == i + 12 + size.v
            msg    == DecodeMessage(NextBytes(size.r, size.v))
        IN  IF i = Len(set) THEN Got(<<>>, <<>>)
            ELSE IF offset.ok /\ size.ok /\ size.v >= 0 /\ end <= Len(set) /\ msg.ok
                      /\ from[end].ok
                 THEN Got(<<msg.v.value>> \o from[end].v, <<>>)
                 ELSE Failed
  IN  from[0]

encodeMessageSetV1(value) ==
  LET raw == EncodeMessage(Null, value)
  IN  WriteInt(0, 8) \o WriteInt(Len(raw), 4) \o raw
-----------------------------------------------------------------------------
\* What a reader of a stream returned and what a reader of a frame did: the same
\* value, and as much left to read.
Same(s, p) == s.ok = p.ok /\ (s.ok => s.v = p.v /\ Len(s.rest) = Remaining(p.r))

\* The two kinds of readers on what follows place i of a frame: the same header,
\* bytes and string, and a stop at the same fields, but for a string of negative
\* length, which is an error in the one and empty in the other.
AgreeAt(body, i) ==
  LET stream == SubSeq(body, i + 1, Len(body))
      place  == [b |-> body, i |-> i]
  IN  /\ ReadRequestHeader(stream).ok => ReadRequestHeader(stream) = parseRequestHeader(stream)
      /\ Same(ReadBytes(stream), readBytes(place))
      /\ Same(ReadString(stream), readString(place)) \/ readInt(place, 2).v < 0
=============================================================================
