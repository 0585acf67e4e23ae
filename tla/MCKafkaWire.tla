----------------------------- MODULE MCKafkaWire -----------------------------
(* KafkaWire with bytes of six values: a string takes at most 17 bytes, a     *)
(* frame at most 647.                                                         *)
EXTENDS KafkaWire

Bytes(n) == [k \in 1 .. n |-> k % B]

MCClientID == Bytes(3)

\* Topics up to and over the limit; values that are nil, empty, short, of a
\* length whose low bytes are 0, and too long for a frame.
Call(n, p, k, v) == [topic |-> Bytes(n), partition |-> p, key |-> k, value |-> v]

\* The record set of a value of n bytes takes 34 + n of them.
MCCalls ==
  {Call(2, p, Null, Bytes(1)) : p \in {0, 1}}
    \cup {Call(17, 0, Bytes(1), v) : v \in {Null, <<>>}}
    \cup {Call(18, p, Null, Bytes(1)) : p \in {-1, 1}}
    \cup {Call(18, 0, Null, v) : v \in {Null} \cup {Bytes(n) : n \in {0, 1, 2, 3, 39}}}
    \cup {Call(2, 1, Null, Bytes(600))}

\* Up to two topics with up to two partitions; the offsets tell the entries
\* apart.
Parts(n, kinds, at) ==
  {[k \in 1 .. n |-> [partition |-> e[k][1], code |-> e[k][2], offset |-> at + k]] :
     e \in [1 .. n -> kinds]}

Kinds == {<<0, 0>>, <<1, 0>>}

Entries(n, kinds, at) == [topic: {Bytes(2), Bytes(1)}, parts: Parts(n, kinds, at)]

MCListings ==
  {<<>>} \cup UNION {{<<e>> : e \in Entries(n, Kinds \cup {<<0, 3>>}, 10)} : n \in 0 .. 2}
    \cup {<<e, f>> : e \in Entries(1, Kinds, 10), f \in Entries(1, Kinds, 300)}
==============================================================================
