--------------------------- MODULE WaitReadyProofs ---------------------------
(* Safety of WaitReady, for every bound on the counted attempts.            *)
EXTENDS WaitReady, TLAPS

LEMMA InitInv == Init => IInv
<1> SUFFICES ASSUME Init PROVE IInv
  OBVIOUS
<1>1. 0 \in 0 .. MaxAttempts
  BY ParamAssumption
<1>2. TypeOK
  BY <1>1 DEF Init, TypeOK
<1> QED
  BY <1>2 DEF Init, IInv, Evidence, Progress, SuccessIsFresh,
              GivesUpOnlyWhenDone, Paths

LEMMA LoopInv == ASSUME IInv, Loop PROVE IInv'
<1>1. CASE ctx = "live"
  <2>1. /\ pc = "top" /\ op # "status" /\ pc' = "/ready" /\ get' = "sent"
        /\ seen' = {broker} /\ attempts' \in 0 .. MaxAttempts /\ attempts' > 0
        /\ UNCHANGED <<op, last, outcome, ctx, broker>>
    BY <1>1, ParamAssumption DEF Loop, LoopGoesOn, Ask, IInv, TypeOK
  <2> QED
    BY <2>1 DEF IInv, TypeOK, Evidence, Progress, SuccessIsFresh,
                GivesUpOnlyWhenDone, WasReady, WasHealthy, Paths
<1>2. CASE ctx # "live"
  BY <1>2 DEF Loop, LoopGoesOn, Finish, IInv, TypeOK, Evidence, Progress,
              SuccessIsFresh, GivesUpOnlyWhenDone, WasReady, WasHealthy, Paths
<1> QED
  BY <1>1, <1>2

LEMMA StartInv == ASSUME IInv, StartStatus PROVE IInv'
<1>1. /\ op = "status" /\ pc' = "/health" /\ get' \in {"sent", "none"}
      /\ seen' = {broker}
      /\ UNCHANGED <<op, attempts, last, outcome, ctx, broker>>
      /\ outcome = "none"
  BY DEF StartStatus, Ask, IInv, Evidence
<1> QED
  BY <1>1 DEF IInv, TypeOK, Evidence, Progress, SuccessIsFresh,
              GivesUpOnlyWhenDone, WasReady, WasHealthy, Paths

\* What a returning GET may claim, if it is the answer of the broker.
Claim(status) ==
  /\ pc \in {"/ready", "/readyz"} /\ status = "ok" => WasReady
  /\ pc = "/health" /\ status = "ok" => WasHealthy

LEMMA ProbedInv ==
  ASSUME IInv, NEW status \in Statuses \cup {"failed"}, Claim(status),
         Probed(status)
  PROVE  IInv'
<1>1. /\ UNCHANGED <<op, attempts, ctx, broker, seen>>
      /\ pc \in Paths /\ outcome = "none" /\ broker \in seen
      /\ WasReady' = WasReady /\ WasHealthy' = WasHealthy
  BY DEF Probed, IInv, Evidence, WasReady, WasHealthy, Paths
<1>2. ASSUME CycleFails PROVE IInv'
  <2>1. /\ last' = TRUE
        /\ \/ op = "status" /\ pc' = "done" /\ outcome' = "error" /\ get' = "none"
           \/ op # "status" /\ pc' = "sleep" /\ outcome' = "none" /\ get' = "none"
    BY <1>1, <1>2 DEF CycleFails, Finish, Result
  <2> QED
    BY <1>1, <2>1 DEF IInv, TypeOK, Evidence, Progress, SuccessIsFresh,
                      GivesUpOnlyWhenDone, Paths
<1>3. ASSUME NEW path \in Paths, Ask(path), UNCHANGED outcome, last' \in BOOLEAN,
             path = "/health" => op = "wait_health" /\ WasReady /\ UNCHANGED last,
             path # "/health" /\ op = "status" /\ ~last' => WasHealthy
      PROVE  IInv'
  <2>1. pc' = path /\ get' \in {"sent", "none"}
    BY <1>3 DEF Ask
  <2> QED
    BY <1>1, <1>3, <2>1 DEF IInv, TypeOK, Evidence, Progress, SuccessIsFresh,
                            GivesUpOnlyWhenDone, Paths
<1>4. ASSUME Finish("nil"), UNCHANGED last, WasReady, op # "wait" => WasHealthy
      PROVE  IInv'
  BY <1>1, <1>4 DEF Finish, IInv, TypeOK, Evidence, Progress, SuccessIsFresh,
                    GivesUpOnlyWhenDone, WasReady, WasHealthy, Paths
<1>5. CASE ReadyProbed(status)
  <2>1. CASE TriesReadyz(status) /\ Ask("/readyz") /\ UNCHANGED <<last, outcome>>
    <3>1. op = "status" /\ ~last => WasHealthy
      BY <1>5 DEF ReadyProbed, IInv, Evidence
    <3> QED
      BY <1>3, <2>1, <3>1 DEF Paths, IInv, TypeOK
  <2>2. CASE CycleFails
    BY <1>2, <2>2
  <2>3. CASE /\ ~ReadyFails(status) /\ UNCHANGED last
             /\ \/ op = "wait" /\ Finish("nil")
                \/ op = "wait_health" /\ Ask("/health") /\ UNCHANGED outcome
                \/ op = "status" /\ Finish(Result(last))
    <3>1. WasReady /\ (op = "status" /\ ~last => WasHealthy)
      BY <1>5, <2>3 DEF ReadyProbed, ReadyFails, Claim, IInv, Evidence
    <3>2. CASE op = "wait"
      BY <1>4, <2>3, <3>1, <3>2
    <3>3. CASE op = "wait_health"
      BY <1>3, <2>3, <3>1, <3>3 DEF Paths, IInv, TypeOK
    <3>4. CASE op = "status" /\ ~last
      BY <1>4, <2>3, <3>1, <3>4 DEF Result
    <3>5. CASE op = "status" /\ last
      <4>1. pc' = "done" /\ outcome' = "error" /\ get' = "none" /\ UNCHANGED last
        BY <2>3, <3>5 DEF Result, Finish
      <4> QED
        BY <1>1, <3>5, <4>1 DEF IInv, TypeOK, Evidence, Progress, SuccessIsFresh,
                                GivesUpOnlyWhenDone, Paths
    <3> QED
      BY <3>2, <3>3, <3>4, <3>5 DEF IInv, TypeOK
  <2> QED
    BY <1>5, <2>1, <2>2, <2>3 DEF ReadyProbed
<1>6. CASE HealthProbed(status)
  <2>1. CASE op = "status"
    <3>1. /\ pc' = "/ready" /\ get' \in {"sent", "none"}
          /\ last' = (status # "ok") /\ UNCHANGED outcome
      BY <1>6, <2>1 DEF HealthProbed, Ask
    <3>2. ~last' => WasHealthy
      BY <1>6, <3>1 DEF HealthProbed, Claim
    <3> QED
      BY <1>1, <2>1, <3>1, <3>2 DEF IInv, TypeOK, Evidence, Progress,
                                    SuccessIsFresh, GivesUpOnlyWhenDone, Paths
  <2>2. CASE op # "status" /\ status = "ok"
    <3>1. Finish("nil") /\ UNCHANGED last
      BY <1>6, <2>2 DEF HealthProbed
    <3>2. WasReady /\ WasHealthy
      BY <1>6, <2>2 DEF HealthProbed, Claim, IInv, Evidence, TypeOK
    <3> QED
      BY <1>4, <3>1, <3>2
  <2>3. CASE op # "status" /\ status # "ok"
    BY <1>2, <1>6, <2>3 DEF HealthProbed
  <2> QED
    BY <2>1, <2>2, <2>3
<1> QED
  BY <1>5, <1>6 DEF Probed

LEMMA ServeInv == ASSUME IInv, Serve PROVE IInv'
<1>1. /\ get' \in Statuses
      /\ get' = "ok" /\ pc = "/health" => broker.healthy
      /\ get' = "ok" /\ pc # "/health" => broker.ready
      /\ UNCHANGED <<op, pc, attempts, last, outcome, ctx, broker, seen>>
  BY DEF Serve, call, Statuses
<1> QED
  BY <1>1 DEF IInv, TypeOK, Evidence, Progress, SuccessIsFresh,
              GivesUpOnlyWhenDone, WasReady, WasHealthy, Paths

LEMMA FlapInv == ASSUME IInv, Flap PROVE IInv'
<1>1. /\ broker' \in States
      /\ seen' = IF pc \in Paths THEN seen \cup {broker'} ELSE seen
      /\ UNCHANGED <<op, pc, attempts, last, outcome, ctx, get>>
  BY DEF Flap, call, IInv, TypeOK, States
<1>2. /\ seen' \subseteq States /\ seen \subseteq seen'
      /\ pc \in Paths => broker' \in seen'
  BY <1>1 DEF IInv, TypeOK
<1> QED
  BY <1>1, <1>2 DEF IInv, TypeOK, Evidence, Progress, SuccessIsFresh,
                    GivesUpOnlyWhenDone, WasReady, WasHealthy, Paths

LEMMA NextInv == ASSUME IInv, [Next]_vars PROVE IInv'
<1>1. CASE Answered
  <2>1. Claim(get) /\ get \in Statuses \cup {"failed"} /\ Probed(get)
    BY <1>1 DEF Answered, Claim, IInv, Evidence
  <2> QED
    BY <2>1, ProbedInv
<1>2. CASE Unanswered
  <2>1. Claim("failed") /\ Probed("failed")
    BY <1>2 DEF Unanswered, Claim
  <2> QED
    BY <2>1, ProbedInv
<1>3. CASE TimerFires
  BY <1>3 DEF TimerFires, IInv, TypeOK, Evidence, Progress, SuccessIsFresh,
              GivesUpOnlyWhenDone, WasReady, WasHealthy, Paths
<1>4. CASE DoneFirst
  BY <1>4 DEF DoneFirst, Finish, IInv, TypeOK, Evidence, Progress,
              SuccessIsFresh, GivesUpOnlyWhenDone, WasReady, WasHealthy, Paths
<1>5. CASE ContextEnds
  BY <1>5 DEF ContextEnds, call, IInv, TypeOK, Evidence, Progress,
              SuccessIsFresh, GivesUpOnlyWhenDone, WasReady, WasHealthy, Paths
<1>6. CASE UNCHANGED vars
  BY <1>6 DEF vars, call, IInv, TypeOK, Evidence, Progress, SuccessIsFresh,
              GivesUpOnlyWhenDone, WasReady, WasHealthy
<1> QED
  BY <1>1, <1>2, <1>3, <1>4, <1>5, <1>6, LoopInv, StartInv, ServeInv, FlapInv
     DEF Next, Run

\* The inductive invariant holds throughout, and with it its four conjuncts.
THEOREM InductiveInvariant == Spec => []IInv
  BY InitInv, NextInv, PTL DEF Spec

\* Every variable keeps its type.
THEOREM TypeCorrect == Spec => []TypeOK
<1>1. IInv => TypeOK
  BY DEF IInv
<1> QED
  BY <1>1, InductiveInvariant, PTL

\* A nil error rests on what the broker said during one and the same attempt.
THEOREM SuccessFresh == Spec => []SuccessIsFresh
<1>1. IInv => SuccessIsFresh
  BY DEF IInv
<1> QED
  BY <1>1, InductiveInvariant, PTL

\* An error of WaitReady means that its context has ended.
THEOREM GivesUpWhenDone == Spec => []GivesUpOnlyWhenDone
<1>1. IInv => GivesUpOnlyWhenDone
  BY DEF IInv
<1> QED
  BY <1>1, InductiveInvariant, PTL

\* The end of the context is noticed before another attempt begins.
THEOREM NoLateAttempt == Spec => NoAttemptAfterDone
<1> DEFINE Step == ctx = "done" => attempts' = attempts /\ ~(pc = "top" /\ pc' = "/ready")
<1>1. Next => Step
  BY DEF Next, Run, Loop, LoopGoesOn, Finish, StartStatus, Ask, Answered,
         Unanswered, Probed, Paths, TimerFires, DoneFirst, ContextEnds, Serve,
         Flap, call
<1>2. [Next]_vars => [Step]_vars
  BY <1>1
<1> QED
  BY <1>2, PTL DEF Spec, NoAttemptAfterDone
=============================================================================
