------------------------------ MODULE WaitReady ------------------------------
(***************************************************************************)
(* Readiness of the broker as package iomeshclient sees it: one call of    *)
(* WaitReady (with its variants WaitReadyElapsed and WaitReadyAttempts) or *)
(* of ConnectionStatus, made of the probes Ready and Health, each one or   *)
(* two GETs.                                                               *)
(*                                                                         *)
(* The broker flaps: it becomes ready or healthy and stops being so at any *)
(* time, and serves /ready, /readyz, both or neither.  The context ends at *)
(* any time, in particular during a probe and while the poll timer fires.  *)
(***************************************************************************)
EXTENDS Naturals

CONSTANT MaxAttempts    \* bound: the attempt counter stops here

ASSUME ParamAssumption == MaxAttempts \in Nat \ {0}

VARIABLES
  op,         \* "wait", "wait_health" (RequireHealth) or "status"
  pc,         \* where the call is; at a path it waits for getStatus
  ctx,        \* the caller's context: "live" or "done"
  attempts,   \* probe cycles begun
  last,       \* a probe error is at hand
  outcome,    \* what the call returned
  get,        \* the GET at pc: not sent, sent, or the status that came back
  broker,     \* the broker's state now
  seen        \* history: the states the broker was in since the attempt began

call == <<op, pc, attempts, last, outcome>>
vars == <<call, ctx, get, broker, seen>>

Paths == {"/ready", "/readyz", "/health"}

\* getStatus: 200, 404, any other status.
Statuses == {"ok", "notfound", "other"}

States == [ready: BOOLEAN, healthy: BOOLEAN, routes: SUBSET {"/ready", "/readyz"}]

Init ==
  /\ op \in {"wait", "wait_health", "status"}
  /\ pc = "top" /\ ctx \in {"live", "done"}
  /\ attempts = 0 /\ last = FALSE /\ outcome = "none"
  /\ get = "none"
  /\ broker \in States /\ seen = {}
-----------------------------------------------------------------------------
\* A GET on a path; none leaves once the context has ended.
Ask(path) ==
  /\ pc' = path
  /\ get' = IF ctx = "live" THEN "sent" ELSE "none"

Finish(result) == pc' = "done" /\ outcome' = result /\ get' = "none"

\* Mutation: the loop leaves it to the select to notice the end of the context.
LoopGoesOnAlways == TRUE

LoopGoesOn == ctx = "live"

\* The head of WaitReadyAttempts' loop.
Loop ==
  /\ op # "status" /\ pc = "top"
  /\ IF LoopGoesOn
     THEN /\ attempts' = IF attempts < MaxAttempts THEN attempts + 1 ELSE attempts
          /\ Ask("/ready")
          /\ seen' = {broker}
          /\ UNCHANGED outcome
     ELSE /\ Finish("error")
          /\ UNCHANGED <<attempts, seen>>
  /\ UNCHANGED <<op, last, ctx, broker>>

\* ConnectionStatus probes Health, then Ready.
StartStatus ==
  /\ op = "status" /\ pc = "top"
  /\ Ask("/health")
  /\ seen' = {broker}
  /\ UNCHANGED <<op, attempts, last, outcome, ctx, broker>>

Result(failed) == IF failed THEN "error" ELSE "nil"

\* Mutation: only an answer outside 200 is worth another cycle.
CycleFailsAtOnce ==
  /\ last' = TRUE
  /\ IF op = "status" \/ get \notin Statuses THEN Finish("error")
     ELSE pc' = "sleep" /\ get' = "none" /\ UNCHANGED outcome

\* A failed probe cycle: WaitReady sleeps, ConnectionStatus reports.
CycleFails ==
  /\ last' = TRUE
  /\ IF op = "status" THEN Finish(Result(TRUE))
     ELSE pc' = "sleep" /\ get' = "none" /\ UNCHANGED outcome

\* Mutation: a broker that serves neither path counts as ready.
ReadyFailsUnlessMissing(status) == status \notin {"ok", "notfound"}

\* Ready's result once a path has answered or failed.
ReadyFails(status) == status # "ok"

\* Mutation: /readyz is not tried.
TriesReadyzNever(status) == FALSE

TriesReadyz(status) == pc = "/ready" /\ status = "notfound"

ReadyProbed(status) ==
  /\ pc \in {"/ready", "/readyz"}
  /\ \/ TriesReadyz(status) /\ Ask("/readyz") /\ UNCHANGED <<last, outcome>>
     \/ ~TriesReadyz(status) /\ ReadyFails(status) /\ CycleFails
     \/ /\ ~TriesReadyz(status) /\ ~ReadyFails(status)
        /\ UNCHANGED last
        /\ \/ op = "wait" /\ Finish("nil")
           \/ op = "wait_health" /\ Ask("/health") /\ UNCHANGED outcome
           \/ op = "status" /\ Finish(Result(last))

HealthProbed(status) ==
  /\ pc = "/health"
  /\ \/ /\ op = "status"
        /\ Ask("/ready") /\ last' = (status # "ok") /\ UNCHANGED outcome
     \/ op # "status" /\ status = "ok" /\ Finish("nil") /\ UNCHANGED last
     \/ op # "status" /\ status # "ok" /\ CycleFails

\* getStatus returns: the status, or a transport error (any time).
Probed(status) ==
  /\ pc \in Paths
  /\ ReadyProbed(status) \/ HealthProbed(status)
  /\ UNCHANGED <<op, attempts, ctx, broker, seen>>

Answered   == get \in Statuses /\ Probed(get)
Unanswered == Probed("failed")

\* The select after a failed cycle; with both cases ready Go picks either.
TimerFires ==
  /\ pc = "sleep" /\ pc' = "top"
  /\ UNCHANGED <<op, attempts, last, outcome, ctx, get, broker, seen>>

DoneFirst ==
  /\ pc = "sleep" /\ ctx = "done"
  /\ Finish("error")
  /\ UNCHANGED <<op, attempts, last, ctx, broker, seen>>
-----------------------------------------------------------------------------
ContextEnds ==
  /\ ctx = "live" /\ ctx' = "done"
  /\ UNCHANGED <<call, get, broker, seen>>

Serve ==
  /\ get = "sent"
  /\ get' = IF pc \notin broker.routes \cup {"/health"} THEN "notfound"
             ELSE IF (IF pc = "/health" THEN broker.healthy ELSE broker.ready)
                  THEN "ok" ELSE "other"
  /\ UNCHANGED <<call, ctx, broker, seen>>

Flap ==
  /\ \/ broker' = [broker EXCEPT !.ready = ~@]
     \/ broker' = [broker EXCEPT !.healthy = ~@]
  /\ seen' = IF pc \in Paths THEN seen \cup {broker'} ELSE seen
  /\ UNCHANGED <<call, ctx, get>>
-----------------------------------------------------------------------------
Run == Loop \/ StartStatus \/ Answered \/ Unanswered \/ TimerFires \/ DoneFirst

Next == Run \/ ContextEnds \/ Serve \/ Flap

Spec == Init /\ [][Next]_vars

\* The goroutine runs and each GET has a deadline; a broker that is asked over
\* and over answers some time before that deadline.
FairSpec == Spec /\ WF_vars(Run) /\ WF_vars(Serve)
                 /\ \A path \in Paths : /\ SF_vars(pc = path /\ Serve)
                                        /\ SF_vars(pc = path /\ Answered)
-----------------------------------------------------------------------------
\* Every variable stays in the set of values the code gives it.
TypeOK ==
  /\ op \in {"wait", "wait_health", "status"}
  /\ pc \in {"top", "sleep", "done"} \cup Paths
  /\ ctx \in {"live", "done"}
  /\ attempts \in 0 .. MaxAttempts
  /\ last \in BOOLEAN
  /\ outcome \in {"none", "nil", "error"}
  /\ get \in {"none", "sent"} \cup Statuses
  /\ broker \in States /\ seen \subseteq States

\* Success rests on evidence of one attempt: the broker was ready, and healthy
\* where that is required, at some time since that attempt began (not
\* necessarily at the same time, and not necessarily still).
SuccessIsFresh ==
  outcome = "nil" =>
    /\ \E b \in seen : b.ready
    /\ op # "wait" => \E b \in seen : b.healthy

\* WaitReady gives up only when its context has ended, and then names a probe
\* error exactly if it has made an attempt.
GivesUpOnlyWhenDone ==
  op # "status" /\ outcome = "error" => ctx = "done" /\ (last <=> attempts > 0)

\* No attempt begins after the context has ended.
NoAttemptAfterDone ==
  [][ctx = "done" => attempts' = attempts /\ ~(pc = "top" /\ pc' = "/ready")]_vars

\* A broker that is ready and healthy for good is noticed, on whichever of the
\* two paths it serves.
Good == broker.ready /\ broker.healthy /\ broker.routes # {}

ReadyIsNoticed == <>[]Good => <>(pc = "done")

\* The end of the context ends the call.
DoneReturns == ctx = "done" ~> pc = "done"
-----------------------------------------------------------------------------
(***************************************************************************)
(* The inductive invariant: what an answered GET and the place in the      *)
(* cycle say of the states the broker was in, and of the attempts made.    *)
(***************************************************************************)
WasReady   == \E b \in seen : b.ready
WasHealthy == \E b \in seen : b.healthy

Evidence ==
  /\ pc \in Paths => broker \in seen
  /\ pc \in {"/ready", "/readyz"} =>
       /\ get = "ok" => WasReady
       /\ op = "status" /\ ~last => WasHealthy
  /\ pc = "/health" =>
       /\ get = "ok" => WasHealthy
       /\ op = "wait_health" => WasReady
       /\ op # "wait"
  /\ pc # "done" => outcome = "none"

Progress ==
  op # "status" =>
    /\ pc \in Paths \cup {"sleep"} => attempts > 0
    /\ pc = "sleep" => last
    /\ pc = "top" => (last <=> attempts > 0)

IInv == TypeOK /\ Evidence /\ Progress /\ SuccessIsFresh /\ GivesUpOnlyWhenDone
=============================================================================
