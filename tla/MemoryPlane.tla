----------------------------- MODULE MemoryPlane -----------------------------
(***************************************************************************)
(* The memory plane of package iomeshclient: PublishMemoryIngest,          *)
(* IngestMemoryTurn, DualWriteMemoryTurn, RequestMemoryRecallFull and the  *)
(* synchronous reads (RetrieveMemory, RetrieveMemoryRelated,               *)
(* ExportOpsDigest).                                                       *)
(*                                                                         *)
(* A turn goes to two systems: the broker's stream MEMORY_INGEST and the   *)
(* sidecar's palace.  The sidecar is asked on /v1 and, if that was no      *)
(* answer, on /v5; each request may be lost, answered by something that is *)
(* not the sidecar, or served after the caller stopped waiting for it.     *)
(*                                                                         *)
(* Broker and sidecar are not part of the repository: the stream is the    *)
(* set of calls whose publish was stored, the palace the set of            *)
(* <<call, path>> whose ingest was written.                                *)
(***************************************************************************)
CONSTANTS
  Calls,    \* one per call that a behaviour can contain
  Uses      \* the operations that are called

Ops == {"publish", "recall", "ingest", "dual", "read"}

ASSUME ParamAssumption == Uses \subseteq Ops

VARIABLES
  calls,      \* what each call is at and what it has learnt
  requests,   \* <<call, path>> on their way
  stream,     \* broker: calls whose turn, or request, is in its stream
  palace      \* sidecar: <<call, path>> whose turn is in the palace

vars == <<calls, requests, stream, palace>>

Paths == {"publish", "v1", "v5"}

\* The kinds of answer doJSON tells apart, and what an ingest finds in a 2xx:
\* a palace write, the broker's plan-gate stub, or nothing.  "transport" is an
\* error instead of an answer; "redirect" stands for 1xx and 3xx.
Answers == {"full", "stub", "empty", "garbled",
            "notfound", "client", "server", "redirect"}

Row == [op: Ops \cup {"unused"}, at: Paths \cup {"start", "end"}, live: BOOLEAN,
        reply: Answers \cup {"none"}, v1: Answers \cup {"none", "transport"},
        response: Answers \cup {"none"}, path: Paths \cup {"none"},
        err: BOOLEAN, syncErr: BOOLEAN]

Unused == [op |-> "unused", at |-> "start", live |-> TRUE, reply |-> "none",
           v1 |-> "none", response |-> "none", path |-> "none",
           err |-> FALSE, syncErr |-> FALSE]

Init ==
  /\ calls = [k \in Calls |-> Unused]
  /\ requests = {} /\ stream = {} /\ palace = {}
-----------------------------------------------------------------------------
(***************************************************************************)
(* The caller's side.                                                      *)
(***************************************************************************)
Waiting(k) == calls[k].at \in Paths

\* doJSON's request: nothing is sent once the context has ended.
Send(k, path) ==
  requests' = IF calls[k].live THEN requests \cup {<<k, path>>} ELSE requests

FirstPath(op) == IF op \in {"publish", "recall", "dual"} THEN "publish" ELSE "v1"

\* A call begins with its checks: tenant, content, query.
Begin(k, op) ==
  /\ op \in Uses
  /\ calls[k] = Unused
  /\ \/ /\ calls' = [calls EXCEPT ![k].op = op, ![k].at = FirstPath(op)]
        /\ Send(k, FirstPath(op))
     \/ /\ calls' = [calls EXCEPT ![k].op = op, ![k].at = "end", ![k].err = TRUE]
        /\ UNCHANGED requests
  /\ UNCHANGED <<stream, palace>>

\* The caller's context is cancelled or its deadline passes.
ContextEnds(k) ==
  /\ Waiting(k) /\ calls[k].live
  /\ calls' = [calls EXCEPT ![k].live = FALSE]
  /\ UNCHANGED <<requests, stream, palace>>

\* What doJSON returns: nil, an APIError by its status, or another error.
DoJSON(r) ==
  CASE r \in {"full", "stub", "empty"} -> "nil"
    [] r \in {"notfound", "client"}    -> r
    [] OTHER                           -> "other"

\* Mutation: any 2xx is a palace write.
PalaceWriteAny2xx(r) == DoJSON(r) = "nil"

PalaceWrite(r) == r = "full"

\* Mutation: only a palace write ends the cascade.
EndsWithResponseIfWritten(r) == PalaceWrite(r)

\* The cascade over the paths: what ends it with a response, what ends it with
\* an error at once, and where it goes otherwise.
EndsWithResponse(r) == DoJSON(r) = "nil"

FailsFast(r) == DoJSON(r) = "client"

\* Mutation: the paths are tried over and over.
PathAfterWraps(path) == IF path = "v1" THEN "v5" ELSE "v1"

PathAfter(path) == IF path = "v1" THEN "v5" ELSE "none"

\* Mutation: a failed sync half of a dual write fails the call.
SyncFailureClosed(row) == [row EXCEPT !.err = TRUE]

\* The error of the sync half of a dual write is SyncErr, not the call's.
SyncFailure(row) ==
  [row EXCEPT !.err = row.op # "dual", !.syncErr = row.op = "dual"]

\* Mutation: a dual write goes on whether or not the publish succeeded.
PublishFailsOpen(r, op) == op # "dual" /\ DoJSON(r) # "nil"

PublishFails(r, op) == DoJSON(r) # "nil"

Finish(k, row) ==
  /\ calls' = [calls EXCEPT ![k] = [row EXCEPT !.at = "end", !.reply = "none"]]
  /\ UNCHANGED requests

Ask(k, row, path) ==
  /\ calls' = [calls EXCEPT ![k] = [row EXCEPT !.at = path, !.reply = "none"]]
  /\ Send(k, path)

\* PublishMemoryIngest, RequestMemoryRecallFull and DualWriteMemoryTurn after Publish
\* returned.
PublishEnds(k, r) ==
  LET c == calls[k] IN
  /\ c.at = "publish"
  /\ \/ PublishFails(r, c.op) /\ Finish(k, [c EXCEPT !.err = TRUE])
     \/ ~PublishFails(r, c.op) /\ c.op # "dual" /\ Finish(k, c)
     \/ ~PublishFails(r, c.op) /\ c.op = "dual" /\ Ask(k, c, "v1")

\* IngestMemoryTurn and the reads after doJSON returned on one path.
CascadeEnds(k, r) ==
  LET c    == [calls[k] EXCEPT !.v1 = IF calls[k].at = "v1" THEN r ELSE @]
      next == PathAfter(c.at) IN
  /\ c.at \in {"v1", "v5"}
  /\ \/ /\ EndsWithResponse(r)
        /\ Finish(k, [c EXCEPT !.response = r, !.path = c.at])
     \/ /\ ~EndsWithResponse(r)
        /\ FailsFast(r) \/ next = "none"
        /\ Finish(k, SyncFailure(c))
     \/ /\ ~EndsWithResponse(r) /\ ~FailsFast(r) /\ next # "none"
        /\ Ask(k, c, next)

\* doJSON returns: with the answer, or with a transport error because the
\* context or the client's timeout ended, or the connection failed.
Return(k) ==
  /\ Waiting(k)
  /\ \E r \in {calls[k].reply, "transport"} \ {"none"} :
       PublishEnds(k, r) \/ CascadeEnds(k, r)
  /\ UNCHANGED <<stream, palace>>
-----------------------------------------------------------------------------
(***************************************************************************)
(* The other side.  A request is answered at most once, whether or not the *)
(* caller still waits on that path.                                        *)
(***************************************************************************)
Answer(k, path, r) ==
  /\ <<k, path>> \in requests
  /\ requests' = requests \ {<<k, path>>}
  /\ calls' = IF calls[k].at = path THEN [calls EXCEPT ![k].reply = r] ELSE calls

\* A 2xx means stored; after a 5xx nobody knows.
ServePublish(k) == \E r \in Answers \ {"stub"} :
  /\ Answer(k, "publish", r)
  /\ stream' \in CASE r \in {"full", "empty", "garbled"} -> {stream \cup {k}}
                   [] r = "server" -> {stream, stream \cup {k}}
                   [] OTHER -> {stream}
  /\ UNCHANGED palace

\* A 2xx means written only if it says so: the stub answers for the sidecar.
ServeIngest(k, path) == \E r \in Answers :
  /\ calls[k].op # "read"
  /\ Answer(k, path, r)
  /\ palace' \in CASE r = "full" -> {palace \cup {<<k, path>>}}
                   [] r \in {"empty", "garbled", "server"} ->
                        {palace, palace \cup {<<k, path>>}}
                   [] OTHER -> {palace}
  /\ UNCHANGED stream

ServeRead(k, path) == \E r \in Answers \ {"stub"} :
  /\ calls[k].op = "read"
  /\ Answer(k, path, r)
  /\ UNCHANGED <<stream, palace>>
-----------------------------------------------------------------------------
Serve(k) ==
  \/ ServePublish(k)
  \/ \E path \in {"v1", "v5"} : ServeIngest(k, path) \/ ServeRead(k, path)

Next == \E k \in Calls :
  \/ \E op \in Ops : Begin(k, op)
  \/ ContextEnds(k) \/ Return(k) \/ Serve(k)

Spec == Init /\ [][Next]_vars

\* Every request has a deadline (the client's timeout), so doJSON returns.
FairSpec == Spec /\ \A k \in Calls : WF_vars(Return(k))
-----------------------------------------------------------------------------
\* Every variable stays in the set of values the code gives it.
TypeOK ==
  /\ calls \in [Calls -> Row]
  /\ requests \subseteq Calls \X Paths
  /\ stream \subseteq Calls
  /\ palace \subseteq Calls \X {"v1", "v5"}

Copies(k) == {p \in palace : p[1] = k}

\* "Stream durable first": the sidecar never holds a dual-written turn that
\* the stream does not hold, however late its request is served.
StreamFirst ==
  \A k \in Calls : calls[k].op = "dual" /\ Copies(k) # {} => k \in stream

\* A dual write that returned an error left nothing in the palace and has
\* nothing on its way to it, so to repeat it cannot double the palace's copy.
ErrorWritesNothing ==
  \A k \in Calls : calls[k].op = "dual" /\ calls[k].err =>
    /\ Copies(k) = {}
    /\ requests \cap ({k} \X {"v1", "v5"}) = {}

\* A response that PalaceWrite() calls a palace write is one, on its Path.
ReportedWrite ==
  \A k \in Calls :
    calls[k].op \in {"ingest", "dual"} /\ PalaceWrite(calls[k].response)
    => <<k, calls[k].path>> \in palace

\* A turn is written on both paths only if the first left it open whether it
\* had written: not after a 404, a 4xx, a stub or a 2xx.
TwiceOnlyIfOpen ==
  \A k \in Calls : {<<k, "v1">>, <<k, "v5">>} \subseteq palace =>
    calls[k].v1 \in {"garbled", "server", "transport"}

\* A 4xx other than 404 on the first path is final: nothing is written.
RefusedWritesNothing ==
  \A k \in Calls : calls[k].v1 = "client" => Copies(k) = {}

\* Every call returns, after at most one exchange on each path.
EveryCallReturns == \A k \in Calls : Waiting(k) ~> calls[k].at = "end"
-----------------------------------------------------------------------------
\* What the caller of a call knows of it.
StateOf(c) ==
  IF c.at = "start" THEN "none"
  ELSE IF c.at # "end" THEN "open"
  ELSE IF c.err THEN "failed"
  ELSE IF c.op \in {"ingest", "dual"} /\ PalaceWrite(c.response) THEN "written" ELSE "returned"

Turns == [k \in Calls |-> [op |-> calls[k].op, state |-> StateOf(calls[k])]]

Stores == INSTANCE TwoStores WITH turn <- Turns

\* However late, lost or misleading the answers of broker and sidecar, every step
\* keeps the promise of the two stores: "stream durable first", nothing copied of
\* a turn that was reported as failed, nothing reported that is not so.
ImplementsTwoStores == Stores!TSSpec
-----------------------------------------------------------------------------
(***************************************************************************)
(* The inductive invariant: what a call's place in the cascade, the answer *)
(* at hand and the way /v1 ended say of the stream, of the palace and of   *)
(* the requests still on their way.                                        *)
(***************************************************************************)
Untouched(k, path) == <<k, path>> \notin requests \cup palace

Open == {"garbled", "server", "transport"}

\* Nothing has been asked of the sidecar.
SilentInv(k) ==
  LET c == calls[k] IN
  /\ c.at = "start" => c = Unused
  /\ c.at \in {"start", "publish"} \/ (c.op = "dual" /\ c.err) =>
       Untouched(k, "v1") /\ Untouched(k, "v5")
  /\ c.at \in {"start", "publish", "v1"} =>
       c.v1 = "none" /\ Untouched(k, "v5")
  /\ c.at # "end" => c.response = "none" /\ ~c.err

StreamInv(k) ==
  LET c == calls[k] IN
  /\ c.at = "publish" /\ DoJSON(c.reply) = "nil" => k \in stream
  /\ c.op = "dual" /\ c.at \in {"v1", "v5", "end"} /\ ~c.err => k \in stream

AnswerInv(k) ==
  LET c == calls[k] IN
  /\ c.reply # "none" => <<k, c.at>> \notin requests
  /\ c.reply \notin {"full", "empty"} \cup Open => <<k, c.at>> \notin palace
  /\ c.reply = "full" /\ c.op # "read" /\ c.at \in {"v1", "v5"} =>
       <<k, c.at>> \in palace
  /\ PalaceWrite(c.response) /\ c.op # "read" => <<k, c.path>> \in palace

FirstInv(k) ==
  LET c == calls[k] IN
  /\ c.at = "v5" => c.v1 \in Open \cup {"notfound", "redirect"}
  /\ c.at \in {"v5", "end"} =>
       /\ c.v1 \notin Open => <<k, "v1">> \notin requests
       /\ c.v1 \notin {"full", "empty"} \cup Open => <<k, "v1">> \notin palace
       /\ ~Untouched(k, "v5") => c.v1 \in Open \cup {"notfound", "redirect"}

CallInv(k) == SilentInv(k) /\ StreamInv(k) /\ AnswerInv(k) /\ FirstInv(k)

IInv == TypeOK /\ \A k \in Calls : CallInv(k)

(***************************************************************************)
(* What the refinement needs beside it.                                    *)
(***************************************************************************)
\* A call asks the broker or the sidecar, or one after the other.
OpInv(k) ==
  LET c == calls[k] IN
  /\ c.at = "publish" \/ <<k, "publish">> \in requests => c.op \in {"publish", "recall", "dual"}
  /\ c.at \in {"v1", "v5"} \/ <<k, "v1">> \in requests \/ <<k, "v5">> \in requests =>
       c.op \in {"ingest", "dual", "read"}

OpsInv == \A k \in Calls : OpInv(k)
=============================================================================
