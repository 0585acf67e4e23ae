------------------------------ MODULE PullLoop ------------------------------
(***************************************************************************)
(* examples/pull-loop: a program that probes the broker, ensures a stream, *)
(* subscribes, publishes, fetches and acknowledges in cycles, deletes its  *)
(* consumer and reports in an exit code what became of all that.           *)
(*                                                                         *)
(* The program is sequential.  What it races with are its own requests: a  *)
(* call that returned an error may have been served, may be served later,  *)
(* when the program is already stages further or gone, or never.           *)
(***************************************************************************)
EXTENDS Naturals, FiniteSets

CONSTANTS
  MaxLoops,    \* bound: IOMESH_LOOPS (100 in the code)
  Batch,       \* IOMESH_BATCH
  Backlog      \* messages in the stream when the program starts

ASSUME ParamAssumption ==
  MaxLoops \in Nat \ {0} /\ Batch \in Nat \ {0} /\ Backlog \in Nat

VARIABLES
  conf,       \* the settings read from the environment
  pc,         \* the stage the program is at
  cycle,      \* the number of the fetch cycle
  failed,     \* a stage has failed
  cycles,     \* cycles completed
  total,      \* messages fetched
  msgs,       \* the last batch
  exit,       \* the exit code, 2 while the program runs
  last,       \* broker: the last sequence of the stream
  own,        \* broker: the sequences this program published
  consumer,   \* broker: the durable consumer is there
  inflight,   \* broker: handed out and not acknowledged
  acked,      \* broker: acknowledged so far
  late        \* requests of failed calls that are still on their way

program == <<conf, pc, cycle, failed, cycles, total, msgs, exit>>
broker  == <<last, own, consumer, inflight, acked>>
vars    == <<program, broker, late>>

Seqs == 1 .. Backlog + MaxLoops

Settings == [loops: 1 .. MaxLoops, wait: BOOLEAN, ensure: BOOLEAN,
             publish: BOOLEAN, each: BOOLEAN, ack: BOOLEAN, del: BOOLEAN,
             strict: BOOLEAN]

Request == [op: {"create", "publish", "fetch", "ack", "delete"},
            cycle: 0 .. MaxLoops + 1, seqs: SUBSET Seqs]

\* The consumer may be there already, and others may hold messages of it.
Init ==
  /\ conf \in Settings
  /\ pc = "status" /\ cycle = 1
  /\ failed = FALSE /\ cycles = 0 /\ total = 0 /\ msgs = {} /\ exit = 2
  /\ last = Backlog /\ own = {} /\ acked = {}
  /\ consumer \in BOOLEAN
  /\ inflight \in IF consumer THEN SUBSET (1 .. Backlog) ELSE {{}}
  /\ late = {}
-----------------------------------------------------------------------------
(***************************************************************************)
(* The broker.                                                             *)
(***************************************************************************)
Deliverable == {s \in 1 .. last : s \notin acked \cup inflight}

\* Serving a request; got is what a fetch hands out.
Effect(req, got) ==
  CASE req.op = "create" ->
         consumer' = TRUE /\ UNCHANGED <<last, own, inflight, acked>>
    [] req.op = "publish" ->
         /\ last' = last + 1 /\ own' = own \cup {last + 1}
         /\ UNCHANGED <<consumer, inflight, acked>>
    [] req.op = "fetch" ->
         /\ consumer /\ got \subseteq Deliverable /\ Cardinality(got) <= Batch
         /\ inflight' = inflight \cup got
         /\ UNCHANGED <<last, own, consumer, acked>>
    [] req.op = "ack" ->
         /\ consumer
         /\ acked' = acked \cup req.seqs /\ inflight' = inflight \ req.seqs
         /\ UNCHANGED <<last, own, consumer>>
    [] OTHER ->
         /\ consumer /\ consumer' = FALSE /\ inflight' = {}
         /\ UNCHANGED <<last, own, acked>>

\* A call of the SDK that returns nil, and one that returns an error: its
\* request was served, is on its way, or is lost.
Succeeds(req, got) == Effect(req, got) /\ UNCHANGED late

Fails(req) ==
  \/ \E got \in SUBSET Seqs : Effect(req, got) /\ UNCHANGED late
  \/ late' = late \cup {req} /\ UNCHANGED broker
  \/ UNCHANGED <<broker, late>>

ServeLate == \E req \in late :
  /\ late' = late \ {req}
  /\ \E got \in SUBSET Seqs : Effect(req, got)
  /\ UNCHANGED program

\* ack_wait runs out.
Expire == \E s \in inflight :
  /\ inflight' = inflight \ {s}
  /\ UNCHANGED <<program, last, own, consumer, acked, late>>
-----------------------------------------------------------------------------
(***************************************************************************)
(* Where the program goes.                                                 *)
(***************************************************************************)
AfterWait == IF conf.ensure THEN "ensure" ELSE "subscribe"

AfterStatus == IF conf.wait THEN "wait" ELSE AfterWait

AfterLoop == IF conf.del THEN "delete" ELSE "finish"

CycleStart == IF conf.each THEN "each" ELSE "fetch"

\* The head of the loop, for the cycle after the n-th.
CycleAfter(n) == IF n < conf.loops THEN CycleStart ELSE AfterLoop

\* Mutation: the one-shot publish is not skipped for IOMESH_PUBLISH_EACH.
AfterSubscribeTwice == IF conf.publish THEN "publish" ELSE CycleStart

AfterSubscribe == IF conf.publish /\ ~conf.each THEN "publish" ELSE CycleStart

NewRequest(op, seqs) == [op |-> op, cycle |-> cycle, seqs |-> seqs]

Fail == failed' = TRUE
-----------------------------------------------------------------------------
(***************************************************************************)
(* The stages.  A probe, WaitReady and EnsureStream pass or fail; the rest *)
(* also change what is asserted of the broker.                             *)
(***************************************************************************)
Probe(stage, next) ==
  /\ pc = stage /\ pc' = next
  /\ failed' \in {failed, TRUE}
  /\ UNCHANGED <<conf, cycle, cycles, total, msgs, exit, broker, late>>

Status == Probe("status", AfterStatus)
Wait   == Probe("wait", AfterWait)
Ensure == Probe("ensure", "subscribe")

\* Mutation: a failed PullSubscribe ends the program without a word.
SubscribeQuietly ==
  /\ pc = "subscribe"
  /\ \/ Succeeds(NewRequest("create", {}), {}) /\ pc' = AfterSubscribe
     \/ Fails(NewRequest("create", {})) /\ pc' = "finish"
  /\ UNCHANGED <<conf, failed, cycle, cycles, total, msgs, exit>>

\* PullSubscribe; without a consumer the program is over.
Subscribe ==
  /\ pc = "subscribe"
  /\ \/ /\ Succeeds(NewRequest("create", {}), {})
        /\ pc' = AfterSubscribe /\ UNCHANGED failed
     \/ Fails(NewRequest("create", {})) /\ pc' = "finish" /\ Fail
  /\ UNCHANGED <<conf, cycle, cycles, total, msgs, exit>>

\* publishDemo, before the loop or in a cycle; a failure does not stop it.
Publish ==
  /\ \/ pc = "publish" /\ pc' = CycleStart
     \/ pc = "each" /\ pc' = "fetch"
  /\ \/ Succeeds(NewRequest("publish", {}), {}) /\ UNCHANGED failed
     \/ Fails(NewRequest("publish", {})) /\ Fail
  /\ UNCHANGED <<conf, cycle, cycles, total, msgs, exit>>

EndCycle == cycle' = cycle + 1 /\ pc' = CycleAfter(cycle)

FetchSucceeds == \E got \in SUBSET Seqs :
  /\ Succeeds(NewRequest("fetch", {}), got)
  /\ cycles' = cycles + 1
  /\ total' = total + Cardinality(got)
  /\ msgs' = got
  /\ IF conf.ack /\ got # {} THEN pc' = "ack" /\ UNCHANGED cycle ELSE EndCycle
  /\ UNCHANGED failed

\* Mutation: a failed fetch is tried again.
FetchFailsAgain ==
  /\ Fails(NewRequest("fetch", {}))
  /\ Fail
  /\ UNCHANGED <<pc, cycle, cycles, total, msgs>>

\* A failed fetch ends the loop.
FetchFails ==
  /\ Fails(NewRequest("fetch", {}))
  /\ Fail
  /\ pc' = AfterLoop
  /\ UNCHANGED <<cycle, cycles, total, msgs>>

Fetch ==
  /\ pc = "fetch"
  /\ FetchSucceeds \/ FetchFails
  /\ UNCHANGED <<conf, exit>>

\* Mutation: everything in flight is acknowledged.
AckSeqsInFlight == inflight

AckSeqs == msgs

\* A failed ack is logged, and nothing else.
Ack ==
  /\ pc = "ack" /\ EndCycle
  /\ Succeeds(NewRequest("ack", AckSeqs), {}) \/ Fails(NewRequest("ack", AckSeqs))
  /\ UNCHANGED <<conf, failed, cycles, total, msgs, exit>>

\* Mutation: a failed delete is logged, and nothing else.
DeleteBestEffort ==
  /\ pc = "delete" /\ pc' = "finish"
  /\ Succeeds(NewRequest("delete", {}), {}) \/ Fails(NewRequest("delete", {}))
  /\ UNCHANGED <<conf, failed, cycle, cycles, total, msgs, exit>>

Delete ==
  /\ pc = "delete" /\ pc' = "finish"
  /\ \/ Succeeds(NewRequest("delete", {}), {}) /\ UNCHANGED failed
     \/ Fails(NewRequest("delete", {})) /\ Fail
  /\ UNCHANGED <<conf, cycle, cycles, total, msgs, exit>>

\* finishPullLoop: summary, result, exit code.
Finish ==
  /\ pc = "finish" /\ pc' = "exited"
  /\ exit' = IF conf.strict /\ failed THEN 1 ELSE 0
  /\ UNCHANGED <<conf, cycle, failed, cycles, total, msgs, broker, late>>
-----------------------------------------------------------------------------
Run == \/ Status \/ Wait \/ Ensure \/ Subscribe \/ Publish
       \/ Fetch \/ Ack \/ Delete \/ Finish

Next == Run \/ ServeLate \/ Expire

Spec == Init /\ [][Next]_vars

\* The program runs, and its context has a deadline: every call returns.
FairSpec == Spec /\ WF_vars(Run)
-----------------------------------------------------------------------------
Stages == {"status", "wait", "ensure", "subscribe", "publish", "each", "fetch",
           "ack", "delete", "finish", "exited"}

\* Every variable stays in the set of values the code gives it.
TypeOK ==
  /\ conf \in Settings /\ pc \in Stages
  /\ cycle \in 1 .. conf.loops + 1
  /\ failed \in BOOLEAN /\ exit \in 0 .. 2
  /\ cycles \in 0 .. conf.loops /\ total \in 0 .. conf.loops * Batch
  /\ msgs \subseteq Seqs
  /\ last \in Backlog .. Backlog + MaxLoops
  /\ own \subseteq Seqs /\ inflight \subseteq Seqs /\ acked \subseteq Seqs
  /\ consumer \in BOOLEAN
  /\ late \subseteq Request

Planned == IF conf.each THEN conf.loops ELSE IF conf.publish THEN 1 ELSE 0

OnTheWay(op) == {req \in late : req.op = op}

\* Exit code 0 under IOMESH_STRICT means that the work is done: all cycles
\* completed, each planned message published exactly once, and the consumer
\* gone if it was to be deleted, with nothing on its way that undoes it.
StrictZeroMeansDone ==
  conf.strict /\ exit = 0 =>
    /\ cycles = conf.loops
    /\ Cardinality(own) = Planned /\ OnTheWay("publish") = {}
    /\ conf.del => ~consumer /\ OnTheWay("create") = {}

\* "So the first cycle is not double-published": counting what is still on
\* its way, no more messages are published than planned.
NoDoublePublish == Cardinality(own) + Cardinality(OnTheWay("publish")) <= Planned

\* Only what a fetch returned, and the summary counts, is ever acknowledged.
AckedWasCounted ==
  Cardinality(acked \cup UNION {req.seqs : req \in OnTheWay("ack")}) <= total

\* A consumer that outlives a program which was to delete it, or that a late
\* request will bring back, is reported as a failure.
LeftoverIsReported ==
  pc = "exited" /\ conf.del /\ (consumer \/ OnTheWay("create") # {}) => failed

\* Every run prints its summary and exits, whatever fails.
EveryRunExits == <>(pc = "exited")
-----------------------------------------------------------------------------
(***************************************************************************)
(* The inductive invariant (PullLoopProofs).                               *)
(***************************************************************************)
Early == {"status", "wait", "ensure", "subscribe"}
Over  == {"delete", "finish", "exited"}

\* The publishes that the stages so far may have made.
Made ==
  IF pc \in Early \cup {"publish"} THEN 0
  ELSE IF conf.each
       THEN IF pc = "each" THEN cycle - 1 ELSE IF pc \in {"fetch", "ack"} THEN cycle ELSE conf.loops
       ELSE Planned

\* Where a stage stands in the loop, and what it has counted.
Shape ==
  /\ pc \in Early \cup {"publish"} => cycle = 1 /\ cycles = 0
  /\ pc = "publish" => conf.publish /\ ~conf.each
  /\ pc = "each" => conf.each
  /\ pc \in {"each", "fetch"} => cycle <= conf.loops /\ cycles = cycle - 1
  /\ pc = "ack" => cycle <= conf.loops /\ cycles = cycle
  /\ total <= cycles * Batch
  /\ (pc = "exited") = (exit # 2)
  /\ exit = 0 /\ conf.strict => ~failed

\* What is published, or still on its way, was published by a stage.
Count ==
  /\ own = Backlog + 1 .. last
  /\ last - Backlog + Cardinality(OnTheWay("publish")) <= Made

\* Until a stage fails, everything it asked for was done.
Clean ==
  ~failed =>
    /\ OnTheWay("publish") = {} /\ OnTheWay("create") = {}
    /\ last - Backlog = Made
    /\ pc \in Over => cycles = conf.loops
    /\ pc \in {"finish", "exited"} /\ conf.del => ~consumer

\* What is acknowledged, or will be, is part of what was counted.
Asked == acked \cup UNION {req.seqs : req \in OnTheWay("ack")}

Settled ==
  /\ pc = "ack" => Cardinality(Asked \cup msgs) <= total
  /\ Cardinality(Asked) <= total

IInv == TypeOK /\ IsFiniteSet(late) /\ Shape /\ Count /\ Clean /\ Settled
=============================================================================
