----------------------------- MODULE KafkaClient -----------------------------
(***************************************************************************)
(* kafka.Client: goroutines that share one client call Produce and Close.  *)
(* A mutex covers a whole call; the connection is dialled on first use and *)
(* kept for later calls; a request carries the next correlation id and the *)
(* reply to it is the next frame on the connection.                        *)
(*                                                                         *)
(* The peer is not part of the repository: a connection is a pair of frame *)
(* queues that a fault can break, and a broker that answers the requests   *)
(* it reads in order, by appending the record or by an error code.         *)
(***************************************************************************)
EXTENDS Integers, Sequences

CONSTANTS
  Procs,        \* goroutines
  Free,         \* the holder of a mutex nobody holds
  CorrMod,      \* values of the correlation counter (2^32 for an int32)
  MaxCalls,     \* bound: calls of Produce and Close
  MaxConns,     \* bound: connections dialled
  MaxBreaks     \* bound: connections broken by the network or the broker

ASSUME ParamAssumption ==
  /\ Free \notin Procs
  /\ CorrMod \in Nat \ {0}
  /\ MaxCalls \in Nat /\ MaxConns \in Nat /\ MaxBreaks \in Nat

VARIABLES
  mu,         \* the holder of c.mu, or Free
  conn,       \* c.conn, or 0 for nil
  seq,        \* c.seq
  pc,         \* where each goroutine is
  call,       \* the number of the call each goroutine is in
  sock,       \* Produce's conn, or 0
  corr,       \* Produce's corr
  reply,      \* Produce's resp, once read
  result,     \* what each call returned
  made,       \* calls begun
  dialled,    \* connections made
  breaks,     \* faults so far
  up,         \* per connection: neither side has closed it
  requests,   \* per connection: frames on their way to the broker
  replies,    \* per connection: frames on their way back
  log         \* broker: the calls whose records it stored, in offset order

client == <<mu, conn, seq, pc, call, sock, corr, reply, result, made>>
peer   == <<dialled, breaks, up, requests, replies, log>>
vars   == <<client, peer>>

Conns   == 1 .. MaxConns
CallIds == 1 .. MaxCalls
Corrs   == 0 .. CorrMod - 1

Request == [corr: Corrs, call: CallIds]

\* `listed`: the reply has an entry for the topic and partition asked for.
Reply == [corr: Corrs, call: CallIds, listed: BOOLEAN, code: {0, 3}, offset: Nat]

NoReply == [corr |-> 0, call |-> 0, listed |-> FALSE, code |-> 0, offset |-> 0]

Locked == {"dial", "write", "read", "parse", "relock", "closing"}

Init ==
  /\ mu = Free /\ conn = 0 /\ seq = 0
  /\ pc = [p \in Procs |-> "idle"]
  /\ call = [p \in Procs |-> 0]
  /\ sock = [p \in Procs |-> 0]
  /\ corr = [p \in Procs |-> 0]
  /\ reply = [p \in Procs |-> NoReply]
  /\ result = [k \in CallIds |-> [kind |-> "none", offset |-> 0]]
  /\ made = 0 /\ dialled = 0 /\ breaks = 0
  /\ up = [c \in Conns |-> FALSE]
  /\ requests = [c \in Conns |-> <<>>]
  /\ replies = [c \in Conns |-> <<>>]
  /\ log = <<>>
-----------------------------------------------------------------------------
Begin(p, at) ==
  /\ pc[p] = "idle" /\ made < MaxCalls
  /\ made' = made + 1
  /\ call' = [call EXCEPT ![p] = made + 1]
  /\ pc' = [pc EXCEPT ![p] = at]
  /\ UNCHANGED <<mu, conn, seq, sock, corr, reply, result, peer>>

Produce(p) == Begin(p, "lock")
Close(p)   == Begin(p, "lock_close")

\* c.mu.Lock() of Produce and of Close.  At "relock" it is Produce itself that
\* called Close, with the mutex held: sync.Mutex is not reentrant, so mu is
\* never Free for it.
Lock(p) ==
  /\ pc[p] \in {"lock", "lock_close", "relock"}
  /\ mu = Free
  /\ mu' = p
  /\ pc' = [pc EXCEPT ![p] = IF @ = "lock" THEN "dial" ELSE "closing"]
  /\ UNCHANGED <<conn, seq, call, sock, corr, reply, result, made, peer>>

\* Return a result and run the deferred Unlock.
Return(p, kind, offset) ==
  /\ result' = [result EXCEPT ![call[p]] = [kind |-> kind, offset |-> offset]]
  /\ pc' = [pc EXCEPT ![p] = "idle"]
  /\ mu' = Free

\* connOrDial, with a connection at hand, with one to make, and failing
\* (the peer refuses, or ctx ends).
Reuse(p) ==
  /\ pc[p] = "dial" /\ conn # 0
  /\ sock' = [sock EXCEPT ![p] = conn]
  /\ pc' = [pc EXCEPT ![p] = "write"]
  /\ UNCHANGED <<mu, conn, seq, call, corr, reply, result, made, peer>>

Dial(p) ==
  /\ pc[p] = "dial" /\ conn = 0 /\ dialled < MaxConns
  /\ dialled' = dialled + 1
  /\ conn' = dialled + 1
  /\ sock' = [sock EXCEPT ![p] = dialled + 1]
  /\ up' = [up EXCEPT ![dialled + 1] = TRUE]
  /\ pc' = [pc EXCEPT ![p] = "write"]
  /\ UNCHANGED <<mu, seq, call, corr, reply, result, made,
                 breaks, requests, replies, log>>

DialFails(p) ==
  /\ pc[p] = "dial" /\ conn = 0
  /\ Return(p, "error", 0)
  /\ UNCHANGED <<conn, seq, call, sock, corr, reply, made, peer>>

NextCorr == (seq + 1) % CorrMod

\* Mutation: the lock covers the request but not the wait for its reply.
WriteUnlocks(p) ==
  /\ pc[p] = "write"
  /\ mu' = Free
  /\ seq' = NextCorr
  /\ corr' = [corr EXCEPT ![p] = NextCorr]
  /\ requests' = [requests EXCEPT ![sock[p]] =
                    Append(@, [corr |-> NextCorr, call |-> call[p]])]
  /\ pc' = [pc EXCEPT ![p] = "read"]
  /\ UNCHANGED <<conn, call, sock, reply, result, made,
                 dialled, breaks, up, replies, log>>

\* The next correlation id, then WriteFrame.  A write on a connection the
\* peer has closed may still be taken by the local socket.
Write(p) ==
  /\ pc[p] = "write"
  /\ seq' = NextCorr
  /\ corr' = [corr EXCEPT ![p] = NextCorr]
  /\ requests' = IF up[sock[p]]
                 THEN [requests EXCEPT ![sock[p]] =
                         Append(@, [corr |-> NextCorr, call |-> call[p]])]
                 ELSE requests
  /\ pc' = [pc EXCEPT ![p] = "read"]
  /\ UNCHANGED <<mu, conn, call, sock, reply, result, made,
                 dialled, breaks, up, replies, log>>

\* `_ = c.Close()` with c.mu held: the next step would be to lock c.mu again.
WriteFails(p) ==
  /\ pc[p] = "write" /\ ~up[sock[p]]
  /\ seq' = NextCorr
  /\ corr' = [corr EXCEPT ![p] = NextCorr]
  /\ pc' = [pc EXCEPT ![p] = "relock"]
  /\ UNCHANGED <<mu, conn, call, sock, reply, result, made, peer>>

ReadReply(p) ==
  /\ pc[p] = "read" /\ replies[sock[p]] # <<>>
  /\ reply' = [reply EXCEPT ![p] = Head(replies[sock[p]])]
  /\ replies' = [replies EXCEPT ![sock[p]] = Tail(@)]
  /\ pc' = [pc EXCEPT ![p] = "parse"]
  /\ UNCHANGED <<mu, conn, seq, call, sock, corr, result, made,
                 dialled, breaks, up, requests, log>>

ReadFails(p) ==
  /\ pc[p] = "read" /\ replies[sock[p]] = <<>> /\ ~up[sock[p]]
  /\ pc' = [pc EXCEPT ![p] = "relock"]
  /\ UNCHANGED <<mu, conn, seq, call, sock, corr, reply, result, made, peer>>

\* Mutation: the error code is not looked at.
AcceptsAnyCode(r, c) == r.corr = c /\ r.listed

\* What Produce makes of the frame it read.
Accepts(r, c) == r.corr = c /\ r.listed /\ r.code = 0

\* Mutation: a reply that is not accepted returns without unlocking.
ParseKeepsLock(p) ==
  /\ pc[p] = "parse"
  /\ IF Accepts(reply[p], corr[p])
     THEN Return(p, "offset", reply[p].offset)
     ELSE /\ result' = [result EXCEPT ![call[p]] = [kind |-> "error", offset |-> 0]]
          /\ pc' = [pc EXCEPT ![p] = "idle"]
          /\ UNCHANGED mu
  /\ reply' = [reply EXCEPT ![p] = NoReply]
  /\ sock' = [sock EXCEPT ![p] = 0]
  /\ UNCHANGED <<conn, seq, call, corr, made, peer>>

Parse(p) ==
  /\ pc[p] = "parse"
  /\ IF Accepts(reply[p], corr[p])
     THEN Return(p, "offset", reply[p].offset)
     ELSE Return(p, "error", 0)
  /\ reply' = [reply EXCEPT ![p] = NoReply]
  /\ sock' = [sock EXCEPT ![p] = 0]
  /\ UNCHANGED <<conn, seq, call, corr, made, peer>>

\* The body of Close once it has the lock.
Closing(p) ==
  /\ pc[p] = "closing"
  /\ up' = IF conn = 0 THEN up ELSE [up EXCEPT ![conn] = FALSE]
  /\ conn' = 0
  /\ Return(p, "closed", 0)
  /\ UNCHANGED <<seq, call, sock, corr, reply, made,
                 dialled, breaks, requests, replies, log>>
-----------------------------------------------------------------------------
\* The broker answers the first request it has; on a broken connection it may
\* still store the record, and the answer goes nowhere.
Answer(c, r) ==
  /\ requests[c] # <<>>
  /\ requests' = [requests EXCEPT ![c] = Tail(@)]
  /\ replies' = IF up[c] THEN [replies EXCEPT ![c] = Append(@, r)] ELSE replies
  /\ UNCHANGED <<client, dialled, breaks, up>>

\* The reply to q tells the offset, or an error code, or nothing of the partition.
ReplyTo(q, told, offset) ==
  [corr |-> q.corr, call |-> q.call, listed |-> told # "nothing",
   code |-> IF told = "code" THEN 3 ELSE 0, offset |-> offset]

\* A record may be stored and its reply not say so (a code for the time the
\* replicas took, a reply that is garbled).
Store(c) ==
  LET q == Head(requests[c]) IN
  /\ \E told \in {"offset", "code", "nothing"} : Answer(c, ReplyTo(q, told, Len(log) + 1))
  /\ log' = Append(log, q.call)

Reject(c) ==
  LET q == Head(requests[c]) IN
  /\ \E told \in {"code", "nothing"} : Answer(c, ReplyTo(q, told, 0))
  /\ UNCHANGED log

\* The connection breaks; what was on its way back may be lost with it.
Break(c) ==
  /\ up[c] /\ breaks < MaxBreaks
  /\ up' = [up EXCEPT ![c] = FALSE]
  /\ breaks' = breaks + 1
  /\ replies' \in {replies, [replies EXCEPT ![c] = <<>>]}
  /\ UNCHANGED <<client, dialled, requests, log>>
-----------------------------------------------------------------------------
Run(p) ==
  \/ Reuse(p) \/ Dial(p) \/ DialFails(p) \/ Write(p) \/ WriteFails(p)
  \/ ReadReply(p) \/ ReadFails(p) \/ Parse(p) \/ Closing(p)

Serve(c) == Store(c) \/ Reject(c)

Next ==
  \/ \E p \in Procs : Produce(p) \/ Close(p) \/ Lock(p) \/ Run(p)
  \/ \E c \in Conns : Serve(c) \/ Break(c)

Spec == Init /\ [][Next]_vars

\* A goroutine inside a call keeps running, a mutex is not denied for ever to
\* one that waits (sync.Mutex hands over in starvation mode), and the broker
\* answers what it reads.
Fairness ==
  /\ \A p \in Procs : WF_vars(Run(p)) /\ SF_vars(Lock(p))
  /\ \A c \in Conns : WF_vars(Serve(c))

FairSpec == Spec /\ Fairness
-----------------------------------------------------------------------------
Result == [kind: {"none", "offset", "error", "closed"}, offset: Nat]

PC == {"idle", "lock", "lock_close"} \cup Locked

\* Every variable stays in the set of values the code gives it; seq wraps.
TypeOK ==
  /\ mu \in Procs \cup {Free}
  /\ conn \in 0 .. MaxConns
  /\ seq \in Corrs
  /\ pc \in [Procs -> PC]
  /\ call \in [Procs -> 0 .. MaxCalls]
  /\ sock \in [Procs -> 0 .. MaxConns]
  /\ corr \in [Procs -> Corrs]
  /\ reply \in [Procs -> Reply \cup {NoReply}]
  /\ result \in [CallIds -> Result]
  /\ made \in 0 .. MaxCalls /\ dialled \in 0 .. MaxConns
  /\ breaks \in 0 .. MaxBreaks
  /\ up \in [Conns -> BOOLEAN]
  /\ requests \in [Conns -> Seq(Request)]
  /\ replies \in [Conns -> Seq(Reply)]
  /\ log \in Seq(CallIds)

\* Between two calls nothing is on its way on the kept connection: no request
\* and no reply of an earlier call that the next one could take for its own.
LockStep == mu = Free /\ conn # 0 => requests[conn] = <<>> /\ replies[conn] = <<>>

\* The frame a Produce reads answers its own request, even though correlation
\* ids repeat: the correlation check can only fail for a broker out of order.
OwnReply == \A p \in Procs :
  pc[p] = "parse" => reply[p].call = call[p] /\ reply[p].corr = corr[p]

\* The offset a Produce returns is where the broker put this call's record.
OffsetIsMine == \A k \in CallIds :
  result[k].kind = "offset" =>
    result[k].offset \in 1 .. Len(log) /\ log[result[k].offset] = k

\* A client that is wedged: a goroutine waits for the lock it holds.
Wedged == \E p \in Procs : pc[p] = "relock" /\ mu = p

\* Every call of Produce and Close returns, unless a write or a read failed
\* earlier; no reply, error code or failed dial leaves the mutex locked.
ReturnsUnlessWedged ==
  \A p \in Procs : pc[p] # "idle" ~> (pc[p] = "idle" \/ Wedged)

\* What the comments of Close and Produce promise: the call completes.
CloseCompletes ==
  \A p \in Procs : pc[p] \in {"lock_close", "closing"} ~> pc[p] = "idle"
-----------------------------------------------------------------------------
\* The goroutines, the connections and the broker together are a log of records.
Records == INSTANCE RecordLog WITH begun <- made, answer <- result

\* Every step is a step of that log or leaves it alone: no overlap of calls, kept
\* connection, fault or wrapped id stores a record twice, answers a call twice, or
\* returns the offset of another record.
ImplementsRecordLog == Records!RLSpec
-----------------------------------------------------------------------------
(***************************************************************************)
(* The inductive invariant behind LockStep, OwnReply and OffsetIsMine.     *)
(***************************************************************************)
Mutex == \A p \in Procs : pc[p] \in Locked <=> mu = p

Quiet(c) == requests[c] = <<>> /\ replies[c] = <<>>

Truthful(r) ==
  r.listed /\ r.code = 0 => r.offset \in 1 .. Len(log) /\ log[r.offset] = r.call

\* A reply to the call p is in.
AnswersTo(r, p) == r.call = call[p] /\ r.corr = corr[p] /\ Truthful(r)

Waiting(p) ==
  LET c == sock[p] IN
  \/ requests[c] = <<[corr |-> corr[p], call |-> call[p]]>> /\ replies[c] = <<>>
  \/ requests[c] = <<>> /\ Len(replies[c]) = 1 /\ AnswersTo(replies[c][1], p)
  \/ Quiet(c)

ConnInv ==
  /\ conn <= dialled
  /\ \A c \in Conns : c > dialled => Quiet(c) /\ ~up[c]
  /\ (\A p \in Procs : pc[p] \notin {"read", "relock"}) /\ conn # 0 => Quiet(conn)

ProcInv(p) ==
  /\ pc[p] \in {"write", "read", "parse"} => sock[p] = conn /\ conn # 0
  /\ pc[p] = "read" => Waiting(p)
  /\ pc[p] = "parse" => AnswersTo(reply[p], p)
  /\ pc[p] # "idle" => call[p] # 0

IInv ==
  /\ TypeOK /\ Mutex /\ ConnInv
  /\ \A p \in Procs : ProcInv(p)
  /\ OffsetIsMine

(***************************************************************************)
(* What the refinement needs beside it: who is open and what is stored.    *)
(***************************************************************************)
FreshInv == \A k \in CallIds : k > made => result[k].kind = "none" /\ ~Records!Stored(k)

OpenInv(p) ==
  pc[p] # "idle" =>
    /\ call[p] \in 1 .. made /\ result[call[p]].kind = "none"
    /\ \A q \in Procs \ {p} : pc[q] # "idle" => call[q] # call[p]
    /\ pc[p] \in {"lock", "lock_close", "dial", "write", "closing"} => ~Records!Stored(call[p])

\* A request on its way is the one of a goroutine that waits, or waited, for its
\* answer, and its record is not stored yet.
RequestInv ==
  \A c \in Conns : requests[c] # <<>> =>
    \E p \in Procs :
      /\ pc[p] \in {"read", "relock"} /\ sock[p] = c
      /\ requests[c] = <<[corr |-> corr[p], call |-> call[p]]>>
      /\ ~Records!Stored(call[p])

LogInv == FreshInv /\ (\A p \in Procs : OpenInv(p)) /\ RequestInv
=============================================================================
