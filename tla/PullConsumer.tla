---------------------------- MODULE PullConsumer ----------------------------
(***************************************************************************)
(* Durable pull consumers of package iomeshclient: Publish, Pub,           *)
(* CreateConsumer / PullSubscribe, ConsumerFetch, ConsumerAck,             *)
(* ConsumerNack and DeleteConsumer, each one HTTP round trip made by       *)
(* doJSON, called by concurrent goroutines that share one durable consumer *)
(* on one stream.                                                          *)
(*                                                                         *)
(* A call of the SDK is a row of `calls`: the caller opens it (the code    *)
(* before doJSON), the broker serves its request, and the caller closes it *)
(* (the code after doJSON).  Requests and replies can be lost or late; a   *)
(* caller whose deadline fires closes its row while the request is still   *)
(* on its way, so the broker may serve a call nobody waits for.            *)
(*                                                                         *)
(* The broker is not part of the repository.  It is modelled from the      *)
(* requests the SDK sends and the replies it reads: a stream is a          *)
(* sequence, a consumer hands out what is neither acknowledged nor in      *)
(* flight, up to max_deliver times, and takes a message back when ack_wait *)
(* runs out.                                                               *)
(***************************************************************************)
EXTENDS Naturals, Sequences, FiniteSets

CONSTANTS
  Workers,      \* goroutines that call the SDK
  Closed,       \* the workers whose client has RequireOrg set and no org
  Subjects,     \* subjects of published messages and of consumer filters
  Tickets,      \* one per call of the SDK that a behaviour can contain
  Uses,         \* the operations the workers call
  Batches,      \* batch sizes passed to ConsumerFetch
  MaxDeliver,   \* max_deliver of the consumer; 0 is no limit
  MaxLog,       \* bound: messages in the stream
  MaxGen        \* bound: times the consumer is created

Ops == {"publish", "pub", "create", "fetch", "ack", "nack", "delete"}

ASSUME ParamAssumption ==
  /\ Closed \subseteq Workers
  /\ Uses \subseteq Ops
  /\ Batches \subseteq Nat
  /\ MaxDeliver \in Nat
  /\ MaxLog \in Nat
  /\ MaxGen \in Nat

VARIABLES
  log,       \* broker: the stream, a sequence of messages
  cons,      \* broker: the durable consumer
  stored,    \* broker: every <<generation, seq>> ever acknowledged
  calls      \* the calls of the SDK, by ticket

vars == <<log, cons, stored, calls>>

Seqs == 1 .. MaxLog

Message == [subject: Subjects, by: SUBSET Tickets, good: BOOLEAN]

Consumer == [live: BOOLEAN, gen: Nat, filter: SUBSET Subjects,
             done: SUBSET Seqs, out: SUBSET Seqs, tries: [Seqs -> Nat]]

\* `before` and `gen` are history: what was acknowledged when the call began
\* and the generation of the consumer that served it.
Row == [op: Ops \cup {"unused"}, w: SUBSET Workers, filter: SUBSET Subjects,
        n: Nat, seqs: SUBSET Seqs, before: SUBSET (Nat \X Seqs),
        net: {"none", "request", "reply"}, status: {"ok", "conflict", "failed"},
        gen: Nat, got: SUBSET Seqs,
        outcome: {"idle", "pending", "ok", "name_only", "error"}]

UnusedRow == [op |-> "unused", w |-> {}, filter |-> {}, n |-> 0, seqs |-> {},
              before |-> {}, net |-> "none", status |-> "failed", gen |-> 0,
              got |-> {}, outcome |-> "idle"]

\* A call that returned an error and has no request on its way.
FailedRow == [UnusedRow EXCEPT !.outcome = "error"]
-----------------------------------------------------------------------------
\* Reading the call table.

Returned(t) == calls[t].outcome \in {"ok", "name_only"}

Busy(w) == \E t \in Tickets : calls[t].w = {w} /\ calls[t].outcome = "pending"

\* The Msg values a worker holds: those of its fetches that returned no error.
HandedBy(t) == calls[t].op = "fetch" /\ Returned(t)

Handed(w) == {s \in Seqs : \E t \in Tickets :
                HandedBy(t) /\ calls[t].w = {w} /\ s \in calls[t].got}

\* What the callers know to be acknowledged: their ConsumerAck returned nil.
AckReturned(t) == calls[t].op = "ack" /\ Returned(t)

Settled == UNION {{calls[t].gen} \X calls[t].seqs :
                    t \in {u \in Tickets : AckReturned(u)}}

\* The messages of the stream that a publish put there.
Copies(t) == {s \in 1 .. Len(log) : log[s].by = {t}}
-----------------------------------------------------------------------------
Fresh(gen, filter) == [live |-> TRUE, gen |-> gen, filter |-> filter,
                       done |-> {}, out |-> {}, tries |-> [s \in Seqs |-> 0]]

Filters == {Subjects} \cup {{s} : s \in Subjects}

\* The durable consumer may be there from an earlier process.
Init ==
  /\ log = <<>>
  /\ cons \in {[Fresh(0, {}) EXCEPT !.live = FALSE]}
            \cup {Fresh(0, filter) : filter \in Filters}
  /\ stored = {}
  /\ calls = [t \in Tickets |-> UnusedRow]

(***************************************************************************)
(* The caller's side before doJSON.  A call that a check turns down        *)
(* returns its error without a request.                                    *)
(***************************************************************************)
GateRefuses(w) == w \in Closed     \* ensureOrgForIsolation

Sent(w, op, filter, n, seqs) ==
  [op |-> op, w |-> {w}, filter |-> filter, n |-> n, seqs |-> seqs,
   before |-> Settled, net |-> "request", status |-> "failed", gen |-> 0,
   got |-> {}, outcome |-> "pending"]

Open(t, w, op, filter, n, seqs, refused) ==
  /\ op \in Uses
  /\ calls[t] = UnusedRow
  /\ ~Busy(w)
  /\ calls' = [calls EXCEPT ![t] =
       IF refused THEN FailedRow ELSE Sent(w, op, filter, n, seqs)]
  /\ UNCHANGED <<log, cons, stored>>

\* Mutation: Publish without ensureOrgForIsolation.
PublishUngated(t, w) == \E subject \in Subjects :
  Open(t, w, "publish", {subject}, 0, {}, FALSE)

Publish(t, w) == \E subject \in Subjects :
  Open(t, w, "publish", {subject}, 0, {}, GateRefuses(w))

\* Pub asks for no org.
Pub(t, w) == \E subject \in Subjects :
  Open(t, w, "pub", {subject}, 0, {}, FALSE)

CreateConsumer(t, w) ==
  \E filter \in Filters :
    Open(t, w, "create", filter, 0, {}, GateRefuses(w))

ConsumerFetch(t, w) == \E batch \in Batches :
  Open(t, w, "fetch", {}, batch, {}, GateRefuses(w) \/ batch = 0)

\* Mutation: a worker acks everything up to the largest sequence it holds.
ConsumerAckUpTo(t, w) == \E seqs \in SUBSET Handed(w) :
  Open(t, w, "ack", {}, 0, {s \in Seqs : \E r \in seqs : s <= r},
       GateRefuses(w) \/ seqs = {})

ConsumerAck(t, w) == \E seqs \in SUBSET Handed(w) :
  Open(t, w, "ack", {}, 0, seqs, GateRefuses(w) \/ seqs = {})

ConsumerNack(t, w) == \E seqs \in SUBSET Handed(w) :
  Open(t, w, "nack", {}, 0, seqs, GateRefuses(w) \/ seqs = {})

\* DeleteConsumer asks for no org.
DeleteConsumer(t, w) == Open(t, w, "delete", {}, 0, {}, FALSE)
-----------------------------------------------------------------------------
(***************************************************************************)
(* The broker.  Serving a request changes the stream or the consumer and   *)
(* puts the reply on its way, if the caller still waits for it.            *)
(***************************************************************************)
Reply(t, status, got) ==
  calls' = [calls EXCEPT ![t] =
    IF calls[t].outcome = "pending"
    THEN [calls[t] EXCEPT !.net = "reply", !.status = status,
                          !.gen = cons.gen', !.got = got]
    ELSE FailedRow]

Request(t, op) == calls[t].net = "request" /\ calls[t].op = op

Appended(subject, by, good) ==
  /\ Len(log) < MaxLog
  /\ log' = Append(log, [subject |-> subject, by |-> by, good |-> good])
  /\ UNCHANGED <<cons, stored>>

ServePublish(t) ==
  /\ Request(t, "publish")
  /\ \E subject \in calls[t].filter : Appended(subject, {t}, TRUE)
  /\ Reply(t, "ok", {Len(log) + 1})

ServePub(t) ==
  /\ Request(t, "pub")
  /\ UNCHANGED <<log, cons, stored>>
  /\ Reply(t, "ok", {})

ServeCreate(t) ==
  /\ Request(t, "create")
  /\ IF cons.live
     THEN UNCHANGED cons /\ Reply(t, "conflict", {})
     ELSE /\ cons.gen < MaxGen
          /\ cons' = Fresh(cons.gen + 1, calls[t].filter)
          /\ Reply(t, "ok", {})
  /\ UNCHANGED <<log, stored>>

Deliverable == {s \in Seqs : /\ s \in 1 .. Len(log)
                             /\ log[s].subject \in cons.filter
                             /\ s \notin cons.done \cup cons.out
                             /\ MaxDeliver = 0 \/ cons.tries[s] < MaxDeliver}

Oldest(n) == {s \in Deliverable :
                Cardinality({r \in Deliverable : r < s}) < n}

ServeFetch(t) ==
  /\ Request(t, "fetch")
  /\ cons.live
  /\ LET got == Oldest(calls[t].n) IN
       /\ cons' = [cons EXCEPT !.out = @ \cup got,
                               !.tries = [s \in Seqs |-> IF s \in got
                                            THEN cons.tries[s] + 1
                                            ELSE cons.tries[s]]]
       /\ Reply(t, "ok", got)
  /\ UNCHANGED <<log, stored>>

ServeAck(t) ==
  /\ Request(t, "ack")
  /\ cons.live
  /\ cons' = [cons EXCEPT !.done = @ \cup calls[t].seqs,
                          !.out = @ \ calls[t].seqs]
  /\ stored' = stored \cup ({cons.gen} \X calls[t].seqs)
  /\ Reply(t, "ok", {})
  /\ UNCHANGED log

ServeNack(t) ==
  /\ Request(t, "nack")
  /\ cons.live
  /\ cons' = [cons EXCEPT !.out = @ \ calls[t].seqs]
  /\ Reply(t, "ok", {})
  /\ UNCHANGED <<log, stored>>

ServeDelete(t) ==
  /\ Request(t, "delete")
  /\ cons.live
  /\ cons' = [cons EXCEPT !.live = FALSE]
  /\ Reply(t, "ok", {})
  /\ UNCHANGED <<log, stored>>

\* Any status outside 2xx and 409: no such consumer, route not served, 5xx.
Refuse(t) ==
  /\ calls[t].net = "request"
  /\ UNCHANGED <<log, cons, stored>>
  /\ Reply(t, "failed", {})

\* ack_wait runs out.
Expire(s) ==
  /\ s \in cons.out
  /\ cons' = [cons EXCEPT !.out = @ \ {s}]
  /\ UNCHANGED <<log, stored, calls>>

\* Another producer, which may write a payload that is not base64.
ForeignPublish(subject) ==
  /\ \E good \in BOOLEAN : Appended(subject, {}, good)
  /\ UNCHANGED calls

-----------------------------------------------------------------------------
(***************************************************************************)
(* The caller's side after the request: doJSON, then the code of each      *)
(* operation on what it returned.                                          *)
(***************************************************************************)
Bodies == {"full", "empty", "garbled"}

\* Mutation: only a 409 is an error.
DoJSONAnyStatus(r, body) == IF r.status = "conflict" THEN "conflict" ELSE "nil"

\* What doJSON makes of a reply: "nil" may leave the result at its zero value.
DoJSON(r, body) ==
  IF r.status = "conflict" THEN "conflict"
  ELSE IF r.status # "ok" THEN "failed"
  ELSE IF r.op # "delete" /\ body = "garbled" THEN "failed"
  ELSE "nil"

\* What is left of the reply in the result.
Received(r, body) == IF body = "full" THEN r.got ELSE {}

AllDecodable(S) == \A s \in S : log[s].good

\* Mutation: a 409 returns what a 201 returns.
CreateConflictIsFull(r, body) ==
  IF DoJSON(r, body) \in {"nil", "conflict"} THEN "ok" ELSE "error"

\* CreateConsumer: a 409 is a success that knows the name only.
CreateOutcome(r, body) ==
  CASE DoJSON(r, body) = "nil" -> "ok"
    [] DoJSON(r, body) = "conflict" -> "name_only"
    [] OTHER -> "error"

\* Mutation: messages are handed over without looking at their payloads.
FetchUndecoded(r, body) == IF DoJSON(r, body) = "nil" THEN "ok" ELSE "error"

\* ConsumerFetch: one payload that does not decode fails the whole batch.
FetchOutcome(r, body) ==
  IF DoJSON(r, body) = "nil" /\ AllDecodable(Received(r, body)) THEN "ok"
  ELSE "error"

Outcome(r, body) ==
  CASE r.op = "create" -> CreateOutcome(r, body)
    [] r.op = "fetch"  -> FetchOutcome(r, body)
    [] OTHER -> IF DoJSON(r, body) = "nil" THEN "ok" ELSE "error"

Return(t, body) ==
  /\ calls[t].net = "reply"
  /\ calls[t].outcome = "pending"
  /\ calls' = [calls EXCEPT ![t] =
       LET outcome == Outcome(calls[t], body) IN
       IF outcome = "error" THEN FailedRow
       ELSE [calls[t] EXCEPT !.net = "none", !.outcome = outcome,
                             !.got = Received(calls[t], body)]]
  /\ UNCHANGED <<log, cons, stored>>

\* The context ends or the transport fails before the reply is read.  A
\* request on its way is not called back: it may be lost, or served later.
GiveUp(t) ==
  /\ calls[t].outcome = "pending"
  /\ calls' = [calls EXCEPT ![t] =
       IF calls[t].net = "request" THEN [calls[t] EXCEPT !.outcome = "error"]
       ELSE FailedRow]
  /\ UNCHANGED <<log, cons, stored>>
-----------------------------------------------------------------------------
Begin(t, w) ==
  \/ Publish(t, w) \/ Pub(t, w) \/ CreateConsumer(t, w) \/ ConsumerFetch(t, w)
  \/ ConsumerAck(t, w) \/ ConsumerNack(t, w) \/ DeleteConsumer(t, w)

Serve(t) ==
  \/ ServePublish(t) \/ ServePub(t) \/ ServeCreate(t) \/ ServeFetch(t)
  \/ ServeAck(t) \/ ServeNack(t) \/ ServeDelete(t) \/ Refuse(t)

End(t) == GiveUp(t) \/ \E body \in Bodies : Return(t, body)

Next ==
  \/ \E t \in Tickets, w \in Workers : Begin(t, w)
  \/ \E t \in Tickets : Serve(t) \/ End(t)
  \/ \E s \in Seqs : Expire(s)
  \/ \E subject \in Subjects : ForeignPublish(subject)

Spec == Init /\ [][Next]_vars
-----------------------------------------------------------------------------
\* Every variable stays in the set of values the code and the broker give it.
TypeOK ==
  /\ log \in Seq(Message) /\ Len(log) <= MaxLog
  /\ cons \in Consumer
  /\ stored \in SUBSET (Nat \X Seqs)
  /\ calls \in [Tickets -> Row]

\* A nil error from ConsumerAck means the broker recorded every sequence it
\* named, whatever was lost, late or recreated meanwhile.
AckMeansStored == Settled \subseteq stored

\* A nil error from Publish means exactly one copy of the call's message is in
\* the stream, and the Seq of the PubAck, if the 2xx body had one, is its place.
PublishedOnce ==
  \A t \in Tickets : calls[t].op = "publish" /\ Returned(t) =>
    \E s \in 1 .. Len(log) : Copies(t) = {s} /\ calls[t].got \subseteq {s}

\* A fetch never hands over what the callers already knew to be acknowledged
\* when it began, unless the consumer was created anew in between.
NoRedeliveryAfterAck ==
  \A t \in Tickets : HandedBy(t) =>
    ({calls[t].gen} \X calls[t].got) \cap calls[t].before = {}

\* Every Msg handed over is a message of the stream with a decoded payload:
\* ConsumerFetch returns a whole batch or an error.
HandedDecodable ==
  \A t \in Tickets : HandedBy(t) =>
    \A s \in calls[t].got : s \in 1 .. Len(log) /\ log[s].good

\* Nothing is acknowledged on the broker that no worker was handed.
StoredWasHanded ==
  \A p \in stored : \E t \in Tickets : HandedBy(t) /\ p[2] \in calls[t].got

\* Full ConsumerInfo (no error, not the name-only one of a 409) means the
\* consumer filters as asked for as long as it is not created anew.
FullInfoFilters ==
  \A c, t \in Tickets :
    /\ calls[c].op = "create" /\ calls[c].outcome = "ok"
    /\ HandedBy(t) /\ calls[t].gen = calls[c].gen
    => \A s \in calls[t].got : log[s].subject \in calls[c].filter

\* What WithRequireOrg documents: with the flag set and no org, no publish,
\* consume or catalog call reaches the broker.
FailClosed ==
  \A t \in Tickets : calls[t].w \cap Closed # {} => calls[t].net = "none"

\* The calls that do ask for an org keep to it.
GateHolds ==
  \A t \in Tickets :
    calls[t].w \cap Closed # {} /\ calls[t].net # "none"
    => calls[t].op \in {"pub", "delete"}
-----------------------------------------------------------------------------
AllHanded == {s \in Seqs : \E t \in Tickets : HandedBy(t) /\ s \in calls[t].got}

\* The calls, the network and the broker together are a work queue.
Queue == INSTANCE WorkQueue
  WITH stream <- log, handed <- AllHanded, acked <- stored, confirmed <- Settled

\* Every step of the system is a step of the work queue or leaves it alone:
\* no lost, late or half-read reply hands over, records or confirms a message
\* the work queue would not.
ImplementsWorkQueue == Queue!WQSpec
-----------------------------------------------------------------------------
(***************************************************************************)
(* The inductive invariant behind the properties above: what a row says of *)
(* the broker, from its request to its return, and what the broker's       *)
(* record of acknowledgements says of the consumer and of the workers.     *)
(***************************************************************************)
Answered(t) == calls[t].status = "ok" /\ (calls[t].net = "reply" \/ Returned(t))

RowInv(t) ==
  /\ calls[t].net = "request" => ~Returned(t)
  /\ Returned(t) => calls[t].status = "ok" \/ calls[t].op = "create"
  /\ calls[t].before \subseteq stored
  /\ calls[t].op = "ack" => calls[t].seqs \subseteq AllHanded
  /\ calls[t].op = "ack" /\ Answered(t)
     => {calls[t].gen} \X calls[t].seqs \subseteq stored
  /\ calls[t].op = "fetch" /\ Answered(t)
     => /\ calls[t].got \subseteq 1 .. Len(log)
        /\ ({calls[t].gen} \X calls[t].got) \cap calls[t].before = {}
  /\ HandedBy(t) => AllDecodable(calls[t].got)
  /\ calls[t].w \cap Closed # {} => calls[t].op \in {"pub", "delete"}

StoredInv ==
  \A p \in stored : /\ p[1] <= cons.gen
                    /\ p[1] = cons.gen => p[2] \in cons.done
                    /\ p[2] \in AllHanded

IInv == TypeOK /\ StoredInv /\ \A t \in Tickets : RowInv(t)

\* A publish puts its message into the stream when it is served, not before.
PubInv(t) ==
  /\ calls[t] = UnusedRow \/ calls[t].net = "request" => Copies(t) = {}
  /\ calls[t].op = "publish" /\ Answered(t)
     => \E s \in 1 .. Len(log) : Copies(t) = {s} /\ calls[t].got \subseteq {s}

\* What the answered creates and fetches of one consumer say of its filter.
FilteredAs(t, filter) ==
  /\ calls[t].op = "create" => calls[t].filter = filter
  /\ calls[t].op = "fetch" => \A s \in calls[t].got : log[s].subject \in filter

FullIsAnswered == \A t \in Tickets : calls[t].outcome = "ok" => calls[t].status = "ok"

FilterInv ==
  /\ \A t \in Tickets : Answered(t) =>
       /\ calls[t].gen <= cons.gen
       /\ calls[t].gen = cons.gen => FilteredAs(t, cons.filter)
  /\ \A c, t \in Tickets :
       /\ Answered(c) /\ calls[c].op = "create"
       /\ Answered(t) /\ calls[t].gen = calls[c].gen
       => FilteredAs(t, calls[c].filter)
=============================================================================
