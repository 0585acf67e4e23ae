------------------------------ MODULE Registry ------------------------------
(***************************************************************************)
(* Named things the broker keeps for the SDK: streams (streams.go), key-   *)
(* value buckets and keys (kv.go), and registrations of memory products,   *)
(* processors and Iceberg refs, which share one form ("entry").            *)
(*                                                                         *)
(* Every operation is one request made by doJSON, but for CreateStream: a  *)
(* 409 sends it on to GET what it conflicted with, and by then another     *)
(* caller may have deleted or replaced it.  As everywhere in the SDK, a    *)
(* caller that gives up does not take its request back.                    *)
(*                                                                         *)
(* What is stored under a name is told apart by the call that wrote it:    *)
(* the ticket stands for the content, and for a key also for its revision. *)
(***************************************************************************)
EXTENDS Naturals, FiniteSets

CONSTANTS
  Callers,      \* goroutines that call the SDK
  Closed,       \* the callers whose client has RequireOrg set and no org
  Tickets,      \* one per call of the SDK that a behaviour can contain
  Earlier,      \* the writer of what is stored when a behaviour starts
  Uses          \* the operations the callers use

Kinds == {"stream", "bucket", "key", "entry"}

Op(verb, kind) == [verb |-> verb, kind |-> kind]

Ops == {Op("create", k) : k \in {"stream", "bucket", "entry"}}
  \cup {Op("get", k) : k \in {"stream", "key"}}
  \cup {Op("list", k) : k \in {"stream", "key", "entry"}}
  \cup {Op("delete", k) : k \in {"stream", "key"}}
  \cup {Op("put", "key")}

ASSUME ParamAssumption ==
  Closed \subseteq Callers /\ Earlier \notin Tickets /\ Uses \subseteq Ops

VARIABLES
  store,     \* broker: by kind, the writer of what is there, or nothing
  calls      \* the calls of the SDK, by ticket

vars == <<store, calls>>

Contents == {{}} \cup {{t} : t \in Tickets \cup {Earlier}}

\* `seen` is history: what was stored while the call was under way.  `readback`
\* holds for a CreateStream that got its 409 and asks for the stream.
Row == [op: SUBSET Ops, by: SUBSET Callers, readback: BOOLEAN,
        net: {"none", "request", "reply"}, status: {"ok", "conflict", "failed"},
        got: Contents, seen: SUBSET Contents, info: Contents,
        outcome: {"idle", "pending", "full", "name_only", "zero", "nothing",
                  "error"}]

UnusedRow == [op |-> {}, by |-> {}, readback |-> FALSE, net |-> "none",
              status |-> "failed", got |-> {}, seen |-> {}, info |-> {},
              outcome |-> "idle"]

FailedRow == [UnusedRow EXCEPT !.outcome = "error"]

\* A kind that no call uses is empty.
Init ==
  /\ store \in [Kinds -> {{}, {Earlier}}]
  /\ \A k \in Kinds : (\A op \in Uses : op.kind # k) => store[k] = {}
  /\ calls = [t \in Tickets |-> UnusedRow]
-----------------------------------------------------------------------------
\* Reading the call table.
Pending(t) == calls[t].outcome = "pending"

Busy(c) == \E t \in Tickets : calls[t].by = {c} /\ Pending(t)

Is(t, verb, kind) == calls[t].op = {Op(verb, kind)}

Returned(t) == calls[t].outcome \notin {"idle", "pending", "error"}
-----------------------------------------------------------------------------
(***************************************************************************)
(* The caller's side before doJSON.                                        *)
(***************************************************************************)
\* ensureOrgForIsolation, asked by the stream operations only.
GateRefuses(c, op) == c \in Closed /\ op.kind = "stream"

Sent(c, op) ==
  [UnusedRow EXCEPT !.op = {op}, !.by = {c}, !.net = "request",
                    !.seen = {store[op.kind]}, !.outcome = "pending"]

Call(t, c, op) ==
  /\ op \in Uses
  /\ calls[t] = UnusedRow /\ ~Busy(c)
  /\ calls' = [calls EXCEPT ![t] =
       IF GateRefuses(c, op) THEN FailedRow ELSE Sent(c, op)]
  /\ UNCHANGED store
-----------------------------------------------------------------------------
(***************************************************************************)
(* The broker.                                                             *)
(***************************************************************************)
\* A reply is for a caller that waits; callers of the kind see what is stored.
Replied(u, t, status, got) ==
  IF u # t THEN calls[u]
  ELSE IF Pending(t)
  THEN [calls[t] EXCEPT !.net = "reply", !.status = status, !.got = got]
  ELSE FailedRow

Watching(row, kind) ==
  row.outcome = "pending" /\ \E op \in row.op : op.kind = kind

Reply(t, kind, status, got) ==
  calls' = [u \in Tickets |->
    LET row == Replied(u, t, status, got) IN
      IF Watching(row, kind)
      THEN [row EXCEPT !.seen = @ \cup {store'[kind]}] ELSE row]

Request(t, verb, kind) ==
  /\ calls[t].net = "request"
  /\ IF calls[t].readback THEN verb = "get" /\ Is(t, "create", kind)
     ELSE Is(t, verb, kind)

ServeCreate(t, kind) ==
  /\ Request(t, "create", kind)
  /\ IF store[kind] = {}
     THEN store' = [store EXCEPT ![kind] = {t}] /\ Reply(t, kind, "ok", {t})
     ELSE UNCHANGED store /\ Reply(t, kind, "conflict", {})

ServePut(t, kind) ==
  /\ Request(t, "put", kind)
  /\ store' = [store EXCEPT ![kind] = {t}]
  /\ Reply(t, kind, "ok", {t})

ServeGet(t, kind) ==
  /\ Request(t, "get", kind)
  /\ store[kind] # {}
  /\ UNCHANGED store
  /\ Reply(t, kind, "ok", store[kind])

ServeList(t, kind) ==
  /\ Request(t, "list", kind)
  /\ UNCHANGED store
  /\ Reply(t, kind, "ok", store[kind])

ServeDelete(t, kind) ==
  /\ Request(t, "delete", kind)
  /\ store[kind] # {}
  /\ store' = [store EXCEPT ![kind] = {}]
  /\ Reply(t, kind, "ok", {})

\* Any status outside 2xx and 409.
Refuse(t, kind) ==
  /\ \E verb \in {"create", "put", "get", "list", "delete"} : Request(t, verb, kind)
  /\ UNCHANGED store
  /\ Reply(t, kind, "failed", {})
-----------------------------------------------------------------------------
(***************************************************************************)
(* The caller's side after the request.                                    *)
(***************************************************************************)
Bodies == {"full", "empty", "garbled"}

\* Mutation: only a 409 is an error.
DoJSONAnyStatus(r, body) == IF r.status = "conflict" THEN "conflict" ELSE "nil"

\* What doJSON returns; "nil" may leave the result at its zero value.  A delete
\* has no result to decode.
DoJSON(r, body) ==
  IF r.status = "conflict" THEN "conflict"
  ELSE IF r.status = "failed" THEN "failed"
  ELSE IF body = "garbled" /\ \A op \in r.op : op.verb # "delete" THEN "failed"
  ELSE "nil"

\* Mutation: CreateBucket too reads back what it conflicted with.
ReadsBackBuckets(op) == op.verb = "create" /\ op.kind \in {"stream", "bucket"}

\* CreateStream GETs the stream after a 409.
ReadsBack(op) == op = Op("create", "stream")

\* A 409 to CreateBucket is a success that knows the name; to a registration,
\* a success that returns nothing; to any other call, an error.
ConflictOutcome(op) ==
  CASE op = Op("create", "bucket") -> "name_only"
    [] op = Op("create", "entry") -> "nothing"
    [] OTHER -> "error"

\* A result that names itself although the body was empty, or does not.
EmptyOutcome(op) == IF op.verb \in {"create", "put"} THEN "name_only" ELSE "zero"

\* Registrations and deletes return no more than an error.
NilOutcome(op, body) ==
  IF op.verb = "delete" \/ op = Op("create", "entry") THEN "nothing"
  ELSE IF body = "full" THEN "full" ELSE EmptyOutcome(op)

\* The GET of a CreateStream: whatever becomes of it, CreateStream succeeds.
ReadBackOutcome(r, body) ==
  IF DoJSON(r, body) # "nil" THEN "nothing"
  ELSE IF body = "full" THEN "full" ELSE "zero"

OutcomeOf(op, r, body) ==
  IF r.readback THEN ReadBackOutcome(r, body)
  ELSE CASE DoJSON(r, body) = "nil" -> NilOutcome(op, body)
         [] DoJSON(r, body) = "conflict" -> ConflictOutcome(op)
         [] OTHER -> "error"

\* Mutation: a call that succeeds returns what it asked for.
InfoFromRequest(t, r, outcome) == IF outcome # "error" THEN {t} ELSE {}

InfoOf(t, r, outcome) == IF outcome = "full" THEN r.got ELSE {}

Closing(t, outcome) ==
  IF outcome = "error" THEN FailedRow
  ELSE [calls[t] EXCEPT !.net = "none", !.outcome = outcome,
                        !.info = InfoOf(t, calls[t], outcome)]

Return(t) ==
  /\ Pending(t) /\ calls[t].net = "reply"
  /\ \E op \in calls[t].op, body \in Bodies :
       calls' = [calls EXCEPT ![t] =
         IF ReadsBack(op) /\ ~calls[t].readback /\ calls[t].status = "conflict"
         THEN [calls[t] EXCEPT !.net = "request", !.readback = TRUE]
         ELSE Closing(t, OutcomeOf(op, calls[t], body))]
  /\ UNCHANGED store

\* The deadline fires or the transport fails.  The request may be served yet;
\* a reply that was on its way, or the GET of a CreateStream, is lost.
GiveUp(t) ==
  /\ Pending(t)
  /\ calls' = [calls EXCEPT ![t] =
       IF calls[t].readback THEN Closing(t, "nothing")
       ELSE IF calls[t].net = "request"
       THEN [calls[t] EXCEPT !.outcome = "error"] ELSE FailedRow]
  /\ UNCHANGED store

\* A request whose caller gave up is lost.
Lose(t) ==
  /\ calls[t].net = "request" /\ ~Pending(t)
  /\ calls' = [calls EXCEPT ![t] = FailedRow]
  /\ UNCHANGED store
-----------------------------------------------------------------------------
Next == \E t \in Tickets :
  \/ \E c \in Callers, op \in Ops : Call(t, c, op)
  \/ \E kind \in Kinds :
       \/ ServeCreate(t, kind) \/ ServePut(t, kind) \/ ServeGet(t, kind)
       \/ ServeList(t, kind) \/ ServeDelete(t, kind) \/ Refuse(t, kind)
  \/ Return(t) \/ GiveUp(t) \/ Lose(t)

Spec == Init /\ [][Next]_vars
-----------------------------------------------------------------------------
\* Every variable stays in the set of values the code gives it.
TypeOK == store \in [Kinds -> Contents] /\ calls \in [Tickets -> Row]

\* What a call returns was stored under the name while the call was under way,
\* although CreateStream reads it in a second request.
InfoExisted == \A t \in Tickets :
  Returned(t) /\ calls[t].info # {} => calls[t].info \in calls[t].seen

\* A nil error is no empty word: what was to be created was there, what was put
\* was stored, and what was deleted was gone, at some moment of the call.
NilMeansDone == \A t \in Tickets : Returned(t) =>
  /\ \A k \in Kinds : Is(t, "create", k) => \E s \in calls[t].seen : s # {}
  /\ Is(t, "put", "key") => {t} \in calls[t].seen
  /\ \A k \in Kinds : Is(t, "delete", k) => {} \in calls[t].seen

\* Of the callers that ensure one bucket, those that get more than its name back
\* created it, with their own settings; a PutResult has the revision of its own
\* put, whatever else writes the key.
FullInfoIsMine == \A t \in Tickets :
  /\ calls[t].outcome = "full"
  /\ Is(t, "create", "bucket") \/ Is(t, "put", "key")
  => calls[t].info = {t}

\* WithRequireOrg: no stream operation of a client without an org leaves it.
GateHolds == \A t \in Tickets :
  calls[t].net # "none" /\ (\E op \in calls[t].op : op.kind = "stream")
    => calls[t].by \cap Closed = {}
-----------------------------------------------------------------------------
(***************************************************************************)
(* The inductive invariant: what a row says of the broker, from its        *)
(* request to its return.                                                  *)
(***************************************************************************)
SawOne(r) == \E s \in r.seen : s # {}

\* A call under way has seen what is stored; a readback saw what it conflicted
\* with.
PendingOK(r, op, st) ==
  /\ st[op.kind] \in r.seen
  /\ r.readback => op = Op("create", "stream") /\ SawOne(r)

\* A reply tells what was stored while the call was under way.
ReplyOK(t, r, op) ==
  /\ r.status = "ok" /\ (r.readback \/ op.verb \in {"get", "list"}) => r.got \in r.seen
  /\ r.status = "ok" /\ ~r.readback /\ op.verb \in {"create", "put"} =>
       r.got = {t} /\ {t} \in r.seen
  /\ r.status = "ok" /\ op.verb = "delete" => {} \in r.seen
  /\ r.status = "conflict" => op.verb = "create" /\ ~r.readback /\ SawOne(r)

ReturnOK(t, r, op) ==
  /\ r.info # {} => r.info \in r.seen
  /\ op.verb = "create" => SawOne(r)
  /\ op.verb = "put" => {t} \in r.seen
  /\ op.verb = "delete" => {} \in r.seen
  /\ r.outcome = "full" /\ op \in {Op("create", "bucket"), Op("put", "key")} =>
       r.info = {t}

RowOK(t, r, st) ==
  /\ r \in Row
  /\ r.outcome \in {"idle", "pending"} \/ r.net # "reply"
  /\ r.outcome # "error" /\ r.op = {} => r = UnusedRow
  /\ \A op1, op2 \in r.op : op1 = op2
  /\ \A op \in r.op :
       /\ r.outcome = "pending" => PendingOK(r, op, st)
       /\ r.net = "reply" => ReplyOK(t, r, op)
       /\ r.outcome \notin {"idle", "pending", "error"} => ReturnOK(t, r, op)
       /\ r.net # "none" /\ op.kind = "stream" => r.by \cap Closed = {}

IInv ==
  /\ store \in [Kinds -> Contents]
  /\ DOMAIN calls = Tickets /\ calls = [t \in Tickets |-> calls[t]]
  /\ \A t \in Tickets : RowOK(t, calls[t], store)
=============================================================================
