--------------------------- MODULE RegistryProofs ---------------------------
(* Safety of Registry, for every set of callers and tickets and whatever    *)
(* operations they use.                                                     *)
EXTENDS Registry, TLAPS

LEMMA RowsOK ==
  ASSUME NEW t, NEW st
  PROVE  RowOK(t, UnusedRow, st) /\ RowOK(t, FailedRow, st)
<1>1. UnusedRow \in Row /\ FailedRow \in Row
  BY DEF UnusedRow, FailedRow, Row, Contents
<1> QED
  BY <1>1 DEF UnusedRow, FailedRow, RowOK

LEMMA InitInv == Init => IInv
<1> SUFFICES ASSUME Init PROVE IInv
  OBVIOUS
<1>1. store \in [Kinds -> Contents]
  BY DEF Init, Contents
<1>2. \A t \in Tickets : RowOK(t, calls[t], store)
  BY RowsOK DEF Init
<1> QED
  BY <1>1, <1>2 DEF Init, IInv

\* A step that rewrites the row of one call and leaves the store alone.
LEMMA OneRow ==
  ASSUME IInv, NEW t \in Tickets, NEW row, UNCHANGED store,
         calls' = [calls EXCEPT ![t] = row], RowOK(t, row, store)
  PROVE  IInv'
<1>1. calls' = [u \in Tickets |-> calls'[u]]
  BY DEF IInv
<1>2. \A u \in Tickets : RowOK(u, calls'[u], store)
  BY DEF IInv
<1> QED
  BY <1>1, <1>2 DEF IInv, RowOK, PendingOK

LEMMA OpParts ==
  ASSUME NEW op \in Ops
  PROVE  /\ op.kind \in Kinds
         /\ op.verb \in {"create", "put", "get", "list", "delete"}
         /\ op = Op(op.verb, op.kind)
         /\ op.verb = "put" => op.kind = "key"
  BY DEF Ops, Op, Kinds

LEMMA CallInv ==
  ASSUME IInv, NEW t \in Tickets, NEW c \in Callers, NEW op \in Ops, Call(t, c, op)
  PROVE  IInv'
<1>1. CASE GateRefuses(c, op)
  BY <1>1, OneRow, RowsOK DEF Call
<1>2. CASE ~GateRefuses(c, op)
  <2>1. op.kind \in Kinds /\ store[op.kind] \in Contents
    BY OpParts DEF IInv
  <2>2. Sent(c, op) \in Row
    BY <2>1 DEF Sent, UnusedRow, Row, Contents
  <2>3. RowOK(t, Sent(c, op), store)
    BY <1>2, <2>2 DEF RowOK, Sent, UnusedRow, PendingOK, GateRefuses
  <2> QED
    BY <1>2, <2>3, OneRow DEF Call
<1> QED
  BY <1>1, <1>2

\* What a row becomes when the store changes at one kind.
Seeing(row, kind, st) ==
  IF Watching(row, kind) THEN [row EXCEPT !.seen = @ \cup {st[kind]}] ELSE row

\* The row of a served call, with the reply on its way.
ReplyRow(t, kind, status, got, st) ==
  Seeing([calls[t] EXCEPT !.net = "reply", !.status = status, !.got = got],
         kind, st)

LEMMA SeeingOK ==
  ASSUME NEW t, NEW row, NEW kind \in Kinds, NEW st \in [Kinds -> Contents],
         NEW new \in [Kinds -> Contents], RowOK(t, row, st),
         \A k \in Kinds \ {kind} : new[k] = st[k]
  PROVE  RowOK(t, Seeing(row, kind, new), new)
<1> DEFINE r == Seeing(row, kind, new)
<1>0. row \in Row /\ new[kind] \in Contents
  BY DEF RowOK
<1>1. CASE Watching(row, kind)
  <2>1. r = [row EXCEPT !.seen = row.seen \cup {new[kind]}]
    BY <1>1 DEF Seeing
  <2>2. r \in Row
    BY <1>0, <2>1 DEF Row
  <2>3. PICK op \in row.op : op.kind = kind /\ row.op = {op}
    BY <1>1 DEF Watching, RowOK
  <2>4. /\ row.outcome = "pending" /\ r.outcome = "pending" /\ r.op = {op}
        /\ r.seen = row.seen \cup {new[kind]} /\ r.net = row.net
        /\ r.readback = row.readback /\ r.status = row.status
        /\ r.got = row.got /\ r.by = row.by
    BY <1>0, <1>1, <2>1, <2>3 DEF Watching, Row
  <2>5. PendingOK(r, op, new)
    BY <2>3, <2>4 DEF RowOK, PendingOK, SawOne
  <2>6. r.net = "reply" => ReplyOK(t, r, op)
    BY <2>3, <2>4 DEF RowOK, ReplyOK, SawOne
  <2>7. r.net # "none" /\ op.kind = "stream" => r.by \cap Closed = {}
    BY <2>3, <2>4 DEF RowOK
  <2> QED
    BY <2>2, <2>3, <2>4, <2>5, <2>6, <2>7 DEF RowOK
<1>2. CASE ~Watching(row, kind)
  <2>1. r = row
    BY <1>2 DEF Seeing
  <2>2. \A op \in row.op : row.outcome = "pending" => new[op.kind] = st[op.kind]
    <3> SUFFICES ASSUME NEW op \in row.op, row.outcome = "pending"
                 PROVE  new[op.kind] = st[op.kind]
      OBVIOUS
    <3>1. op.kind \in Kinds \ {kind}
      BY <1>0, <1>2, OpParts DEF Watching, Row
    <3> QED
      BY <3>1
  <2> QED
    BY <2>1, <2>2 DEF RowOK, PendingOK
<1> QED
  BY <1>1, <1>2

\* Serving a request: it is enough that the row of the call served is right.
LEMMA ReplyInv ==
  ASSUME IInv, NEW t \in Tickets, NEW kind \in Kinds, NEW status, NEW got,
         store' \in [Kinds -> Contents],
         \A k \in Kinds \ {kind} : store'[k] = store[k],
         Reply(t, kind, status, got),
         Pending(t) => RowOK(t, ReplyRow(t, kind, status, got, store'), store')
  PROVE  IInv'
<1>1. calls' = [u \in Tickets |-> Seeing(Replied(u, t, status, got), kind, store')]
  BY DEF Reply, Seeing
<1>2. ASSUME NEW u \in Tickets
      PROVE  RowOK(u, Seeing(Replied(u, t, status, got), kind, store'), store')
  <2>1. CASE u # t
    <3>1. RowOK(u, calls[u], store) /\ store \in [Kinds -> Contents]
      BY DEF IInv
    <3> QED
      BY <2>1, <3>1, SeeingOK DEF Replied
  <2>2. CASE u = t /\ Pending(t)
    BY <2>2 DEF Replied, ReplyRow
  <2>3. CASE u = t /\ ~Pending(t)
    <3>1. Seeing(FailedRow, kind, store') = FailedRow
      BY DEF Seeing, Watching, FailedRow, UnusedRow
    <3> QED
      BY <2>3, <3>1, RowsOK DEF Replied
  <2> QED
    BY <2>1, <2>2, <2>3
<1>3. DOMAIN calls' = Tickets /\ calls' = [u \in Tickets |-> calls'[u]]
  BY <1>1
<1> QED
  BY <1>1, <1>2, <1>3 DEF IInv

\* The request that is served, and the row its reply makes.
LEMMA ServedRow ==
  ASSUME IInv, NEW t \in Tickets, NEW kind \in Kinds, NEW verb, NEW status,
         NEW got, status \in {"ok", "conflict", "failed"}, got \in Contents,
         store' \in [Kinds -> Contents], Request(t, verb, kind), Pending(t),
         status = "ok" /\ verb \in {"get", "list"} => got = store'[kind],
         status = "ok" /\ verb \in {"create", "put"} =>
           got = {t} /\ store'[kind] = {t},
         status = "ok" /\ verb = "delete" => store'[kind] = {},
         status = "conflict" => verb = "create" /\ store'[kind] # {}
  PROVE  RowOK(t, ReplyRow(t, kind, status, got, store'), store')
<1> DEFINE op == IF calls[t].readback THEN Op("create", kind) ELSE Op(verb, kind)
           r == ReplyRow(t, kind, status, got, store')
<1>1. /\ RowOK(t, calls[t], store) /\ calls[t] \in Row
      /\ calls[t].op = {op} /\ calls[t].net = "request" /\ op.kind = kind
      /\ calls[t].outcome = "pending"
      /\ calls[t].readback => verb = "get"
      /\ ~calls[t].readback => op.verb = verb
  BY DEF IInv, RowOK, Request, Is, Pending, Op
<1>2. r = [calls[t] EXCEPT !.net = "reply", !.status = status, !.got = got,
                           !.seen = calls[t].seen \cup {store'[kind]}]
  BY <1>1 DEF ReplyRow, Seeing, Watching, Row
<1>3. calls[t].seen \cup {store'[kind]} \in SUBSET Contents
  BY <1>1 DEF Row
<1>4. r \in Row
  BY <1>1, <1>2, <1>3 DEF Row
<1>5. /\ r.outcome = "pending" /\ r.op = {op} /\ r.net = "reply"
      /\ r.seen = calls[t].seen \cup {store'[kind]} /\ r.status = status
      /\ r.got = got /\ r.by = calls[t].by /\ r.readback = calls[t].readback
  BY <1>1, <1>2 DEF Row
<1>6. PendingOK(r, op, store')
  BY <1>1, <1>5 DEF RowOK, PendingOK, SawOne
<1>7. ReplyOK(t, r, op)
  <2>1. CASE calls[t].readback
    <3>1. op.verb = "create" /\ verb = "get"
      BY <1>1, <2>1 DEF Op
    <3> QED
      BY <1>5, <2>1, <3>1 DEF ReplyOK
  <2>2. CASE ~calls[t].readback
    <3>1. op.verb = verb
      BY <1>1, <2>2
    <3> QED
      BY <1>5, <2>2, <3>1 DEF ReplyOK, SawOne
  <2> QED
    BY <2>1, <2>2
<1>8. op.kind = "stream" => r.by \cap Closed = {}
  BY <1>1, <1>5 DEF RowOK
<1> QED
  BY <1>4, <1>5, <1>6, <1>7, <1>8 DEF RowOK

LEMMA Served ==
  ASSUME IInv, NEW t \in Tickets, NEW kind \in Kinds, NEW verb,
         NEW status \in {"ok", "conflict", "failed"}, NEW got \in Contents,
         store' \in [Kinds -> Contents],
         \A k \in Kinds \ {kind} : store'[k] = store[k],
         Request(t, verb, kind), Reply(t, kind, status, got),
         status = "ok" /\ verb \in {"get", "list"} => got = store'[kind],
         status = "ok" /\ verb \in {"create", "put"} =>
           got = {t} /\ store'[kind] = {t},
         status = "ok" /\ verb = "delete" => store'[kind] = {},
         status = "conflict" => verb = "create" /\ store'[kind] # {}
  PROVE  IInv'
<1>1. Pending(t) => RowOK(t, ReplyRow(t, kind, status, got, store'), store')
  BY ServedRow
<1> QED
  BY <1>1, ReplyInv

LEMMA ServeInv ==
  ASSUME IInv, NEW t \in Tickets, NEW kind \in Kinds,
         \/ ServeCreate(t, kind) \/ ServePut(t, kind) \/ ServeGet(t, kind)
         \/ ServeList(t, kind) \/ ServeDelete(t, kind) \/ Refuse(t, kind)
  PROVE  IInv'
<1>0. /\ {} \in Contents /\ {t} \in Contents /\ store[kind] \in Contents
      /\ store \in [Kinds -> Contents]
  BY DEF Contents, IInv
<1>1. ASSUME NEW c \in Contents, store' = [store EXCEPT ![kind] = c]
      PROVE  /\ store' \in [Kinds -> Contents] /\ store'[kind] = c
             /\ \A k \in Kinds \ {kind} : store'[k] = store[k]
  BY <1>0, <1>1
<1>2. CASE ServeCreate(t, kind)
  <2>1. CASE store[kind] = {}
    <3>1. /\ Request(t, "create", kind) /\ Reply(t, kind, "ok", {t})
          /\ store' = [store EXCEPT ![kind] = {t}]
      BY <1>2, <2>1 DEF ServeCreate
    <3> QED
      BY <1>0, <1>1, <3>1, Served
  <2>2. CASE store[kind] # {}
    <3>1. /\ Request(t, "create", kind) /\ Reply(t, kind, "conflict", {})
          /\ UNCHANGED store
      BY <1>2, <2>2 DEF ServeCreate
    <3> QED
      BY <1>0, <2>2, <3>1, Served
  <2> QED
    BY <2>1, <2>2
<1>3. CASE ServePut(t, kind)
  BY <1>0, <1>1, <1>3, Served DEF ServePut
<1>4. CASE ServeGet(t, kind)
  BY <1>0, <1>4, Served DEF ServeGet
<1>5. CASE ServeList(t, kind)
  BY <1>0, <1>5, Served DEF ServeList
<1>6. CASE ServeDelete(t, kind)
  BY <1>0, <1>1, <1>6, Served DEF ServeDelete
<1>7. CASE Refuse(t, kind)
  <2>1. PICK verb \in {"create", "put", "get", "list", "delete"} :
          Request(t, verb, kind)
    BY <1>7 DEF Refuse
  <2> QED
    BY <1>0, <1>7, <2>1, Served DEF Refuse
<1> QED
  BY <1>2, <1>3, <1>4, <1>5, <1>6, <1>7

\* What a call that ends without an error may end with.
LEMMA ClosingOK ==
  ASSUME IInv, NEW t \in Tickets, NEW op \in calls[t].op, Pending(t),
         NEW outcome \in {"full", "name_only", "zero", "nothing"},
         outcome = "full" => calls[t].got \in calls[t].seen,
         op.verb = "create" => SawOne(calls[t]),
         op.verb = "put" => {t} \in calls[t].seen,
         op.verb = "delete" => {} \in calls[t].seen,
         outcome = "full" /\ op \in {Op("create", "bucket"), Op("put", "key")} =>
           calls[t].got = {t}
  PROVE  RowOK(t, Closing(t, outcome), store)
<1> DEFINE r == Closing(t, outcome)
<1>1. /\ RowOK(t, calls[t], store) /\ calls[t] \in Row /\ calls[t].op = {op}
  BY DEF IInv, RowOK
<1>2. r = [calls[t] EXCEPT !.net = "none", !.outcome = outcome,
                           !.info = InfoOf(t, calls[t], outcome)]
  BY DEF Closing
<1>3. InfoOf(t, calls[t], outcome) \in Contents
  BY <1>1 DEF InfoOf, Row, Contents
<1>4. r \in Row
  BY <1>1, <1>2, <1>3 DEF Row
<1>5. /\ r.net = "none" /\ r.outcome = outcome /\ r.op = {op}
      /\ r.info = IF outcome = "full" THEN calls[t].got ELSE {}
      /\ r.seen = calls[t].seen
  BY <1>1, <1>2 DEF Row, InfoOf
<1>6. ReturnOK(t, r, op)
  BY <1>5 DEF ReturnOK, SawOne
<1> QED
  BY <1>4, <1>5, <1>6 DEF RowOK

LEMMA ReturnInv == ASSUME IInv, NEW t \in Tickets, Return(t) PROVE IInv'
<1>1. PICK op \in calls[t].op, body \in Bodies :
        calls' = [calls EXCEPT ![t] =
          IF ReadsBack(op) /\ ~calls[t].readback /\ calls[t].status = "conflict"
          THEN [calls[t] EXCEPT !.net = "request", !.readback = TRUE]
          ELSE Closing(t, OutcomeOf(op, calls[t], body))]
  BY DEF Return
<1>2. /\ RowOK(t, calls[t], store) /\ calls[t] \in Row /\ calls[t].op = {op}
      /\ calls[t].outcome = "pending" /\ calls[t].net = "reply" /\ Pending(t)
      /\ PendingOK(calls[t], op, store) /\ ReplyOK(t, calls[t], op)
      /\ UNCHANGED store
  BY DEF IInv, RowOK, Return, Pending
<1>3. op \in Ops /\ calls[t].status \in {"ok", "conflict", "failed"}
  BY <1>2 DEF Row
<1>4. CASE ReadsBack(op) /\ ~calls[t].readback /\ calls[t].status = "conflict"
  <2> DEFINE r == [calls[t] EXCEPT !.net = "request", !.readback = TRUE]
  <2>1. r \in Row
    BY <1>2 DEF Row
  <2>2. /\ r.op = {op} /\ r.outcome = "pending" /\ r.net = "request"
        /\ r.seen = calls[t].seen /\ r.by = calls[t].by /\ r.readback = TRUE
    BY <1>2 DEF Row
  <2>3. PendingOK(r, op, store)
    BY <1>2, <1>4, <2>2 DEF PendingOK, ReplyOK, ReadsBack, SawOne
  <2>4. RowOK(t, r, store)
    BY <1>2, <2>1, <2>2, <2>3 DEF RowOK
  <2> QED
    BY <1>1, <1>2, <1>4, <2>4, OneRow
<1>5. CASE ~(ReadsBack(op) /\ ~calls[t].readback /\ calls[t].status = "conflict")
  <2> DEFINE outcome == OutcomeOf(op, calls[t], body)
  <2>1. RowOK(t, Closing(t, outcome), store)
    <3>1. CASE outcome = "error"
      BY <3>1, RowsOK DEF Closing
    <3>2. CASE outcome # "error"
      <4>1. CASE calls[t].readback
        <5>1. op = Op("create", "stream") /\ SawOne(calls[t]) /\ op.verb = "create"
          BY <1>2, <4>1 DEF PendingOK, Op
        <5>2. /\ outcome \in {"full", "zero", "nothing"}
              /\ outcome = "full" => calls[t].status = "ok"
          BY <1>3, <4>1 DEF OutcomeOf, ReadBackOutcome, DoJSON
        <5>3. outcome = "full" => calls[t].got \in calls[t].seen
          BY <1>2, <4>1, <5>2 DEF ReplyOK
        <5>4. op \notin {Op("create", "bucket"), Op("put", "key")}
          BY <5>1 DEF Op
        <5> QED
          BY <1>2, <5>1, <5>2, <5>3, <5>4, ClosingOK
      <4>2. CASE ~calls[t].readback /\ calls[t].status = "conflict"
        <5>1. /\ outcome = ConflictOutcome(op)
              /\ outcome \in {"name_only", "nothing"}
          BY <3>2, <4>2 DEF OutcomeOf, DoJSON, ConflictOutcome
        <5>2. op.verb = "create" /\ SawOne(calls[t])
          BY <1>2, <4>2 DEF ReplyOK
        <5> QED
          BY <1>2, <5>1, <5>2, ClosingOK
      <4>3. CASE ~calls[t].readback /\ calls[t].status # "conflict"
        <5>1. /\ calls[t].status = "ok" /\ outcome = NilOutcome(op, body)
          BY <1>3, <3>2, <4>3 DEF OutcomeOf, DoJSON
        <5>2. outcome \in {"full", "name_only", "zero", "nothing"}
          BY <5>1 DEF NilOutcome, EmptyOutcome
        <5>3. /\ op.verb \in {"create", "put"} =>
                   calls[t].got = {t} /\ {t} \in calls[t].seen
              /\ op.verb \in {"get", "list"} => calls[t].got \in calls[t].seen
              /\ op.verb = "delete" => {} \in calls[t].seen
          BY <1>2, <4>3, <5>1 DEF ReplyOK
        <5>4. op.verb = "create" => SawOne(calls[t])
          BY <5>3 DEF SawOne
        <5>5. outcome = "full" => calls[t].got \in calls[t].seen
          BY <1>3, <5>1, <5>3, OpParts DEF NilOutcome
        <5>6. op \in {Op("create", "bucket"), Op("put", "key")} =>
                op.verb \in {"create", "put"}
          BY DEF Op
        <5> QED
          BY <1>2, <5>2, <5>3, <5>4, <5>5, <5>6, ClosingOK
      <4> QED
        BY <4>1, <4>2, <4>3
    <3> QED
      BY <3>1, <3>2
  <2> QED
    BY <1>1, <1>2, <1>5, <2>1, OneRow
<1> QED
  BY <1>4, <1>5

LEMMA GiveUpInv == ASSUME IInv, NEW t \in Tickets, GiveUp(t) PROVE IInv'
<1>1. RowOK(t, calls[t], store) /\ calls[t] \in Row /\ Pending(t) /\ UNCHANGED store
  BY DEF IInv, RowOK, GiveUp
<1>2. CASE calls[t].readback
  <2>1. PICK op \in calls[t].op : TRUE
    BY <1>1 DEF RowOK, Pending, UnusedRow
  <2>2. op = Op("create", "stream") /\ op.verb = "create" /\ SawOne(calls[t])
    BY <1>1, <1>2 DEF RowOK, PendingOK, Pending, Op
  <2>3. RowOK(t, Closing(t, "nothing"), store)
    BY <1>1, <2>2, ClosingOK
  <2> QED
    BY <1>1, <1>2, <2>3, OneRow DEF GiveUp
<1>3. CASE ~calls[t].readback /\ calls[t].net = "request"
  <2> DEFINE r == [calls[t] EXCEPT !.outcome = "error"]
  <2>1. r \in Row
    BY <1>1 DEF Row
  <2>2. /\ r.op = calls[t].op /\ r.outcome = "error" /\ r.net = "request"
        /\ r.by = calls[t].by
    BY <1>1, <1>3 DEF Row
  <2>3. RowOK(t, r, store)
    BY <1>1, <1>3, <2>1, <2>2 DEF RowOK
  <2> QED
    BY <1>1, <1>3, <2>3, OneRow DEF GiveUp
<1>4. CASE ~calls[t].readback /\ calls[t].net # "request"
  BY <1>1, <1>4, RowsOK, OneRow DEF GiveUp
<1> QED
  BY <1>2, <1>3, <1>4

LEMMA NextInv == ASSUME IInv, [Next]_vars PROVE IInv'
<1>1. ASSUME NEW t \in Tickets, NEW c \in Callers, NEW op \in Ops, Call(t, c, op)
      PROVE  IInv'
  BY <1>1, CallInv
<1>2. ASSUME NEW t \in Tickets, NEW kind \in Kinds,
             \/ ServeCreate(t, kind) \/ ServePut(t, kind) \/ ServeGet(t, kind)
             \/ ServeList(t, kind) \/ ServeDelete(t, kind) \/ Refuse(t, kind)
      PROVE  IInv'
  BY <1>2, ServeInv
<1>3. ASSUME NEW t \in Tickets, Return(t) \/ GiveUp(t)
      PROVE  IInv'
  BY <1>3, ReturnInv, GiveUpInv
<1>4. ASSUME NEW t \in Tickets, Lose(t)
      PROVE  IInv'
  BY <1>4, OneRow, RowsOK DEF Lose
<1>5. CASE UNCHANGED vars
  BY <1>5 DEF vars, IInv
<1> QED
  BY <1>1, <1>2, <1>3, <1>4, <1>5 DEF Next

\* The inductive invariant holds throughout.
THEOREM InductiveInvariant == Spec => []IInv
  BY InitInv, NextInv, PTL DEF Spec

\* Every variable keeps its type.
THEOREM TypeCorrect == Spec => []TypeOK
<1>1. IInv => TypeOK
  BY DEF IInv, RowOK, TypeOK
<1> QED
  BY <1>1, InductiveInvariant, PTL

\* A call that ended without an error left a row that ReturnOK describes.
LEMMA ReturnedRow ==
  ASSUME IInv, NEW t \in Tickets, Returned(t)
  PROVE  \E op \in Ops : calls[t].op = {op} /\ ReturnOK(t, calls[t], op)
<1>1. RowOK(t, calls[t], store) /\ calls[t] \in Row
  BY DEF IInv, RowOK
<1>2. PICK op \in calls[t].op : calls[t].op = {op}
  BY <1>1 DEF RowOK, Returned, UnusedRow
<1> QED
  BY <1>1, <1>2 DEF RowOK, Returned, Row

\* What a call returns existed while the call was under way.
THEOREM InfoTrue == Spec => []InfoExisted
<1>1. IInv => InfoExisted
  BY ReturnedRow DEF InfoExisted, ReturnOK
<1> QED
  BY <1>1, InductiveInvariant, PTL

\* A nil error says that what was asked for was so, at some moment of the call.
THEOREM NilTrue == Spec => []NilMeansDone
<1>1. ASSUME IInv PROVE NilMeansDone
  <2> SUFFICES ASSUME NEW t \in Tickets, Returned(t)
               PROVE  /\ \A k \in Kinds :
                           Is(t, "create", k) => \E s \in calls[t].seen : s # {}
                      /\ Is(t, "put", "key") => {t} \in calls[t].seen
                      /\ \A k \in Kinds :
                           Is(t, "delete", k) => {} \in calls[t].seen
    BY DEF NilMeansDone
  <2>1. PICK op \in Ops : calls[t].op = {op} /\ ReturnOK(t, calls[t], op)
    BY <1>1, ReturnedRow
  <2>2. ASSUME NEW verb, NEW k, Is(t, verb, k)
        PROVE  op.verb = verb
    BY <2>1, <2>2 DEF Is, Op
  <2> QED
    BY <2>1, <2>2 DEF ReturnOK, SawOne
<1> QED
  BY <1>1, InductiveInvariant, PTL

\* More than a name comes back only from the call that wrote it.
THEOREM FullIsMine == Spec => []FullInfoIsMine
<1>1. ASSUME IInv PROVE FullInfoIsMine
  <2> SUFFICES ASSUME NEW t \in Tickets, calls[t].outcome = "full",
                      Is(t, "create", "bucket") \/ Is(t, "put", "key")
               PROVE  calls[t].info = {t}
    BY DEF FullInfoIsMine
  <2>1. PICK op \in Ops : calls[t].op = {op} /\ ReturnOK(t, calls[t], op)
    BY <1>1, ReturnedRow DEF Returned
  <2> QED
    BY <2>1 DEF ReturnOK, Is
<1> QED
  BY <1>1, InductiveInvariant, PTL

\* No stream operation of a client without an org reaches the network.
THEOREM GateIsKept == Spec => []GateHolds
<1>1. IInv => GateHolds
  BY DEF IInv, RowOK, GateHolds
<1> QED
  BY <1>1, InductiveInvariant, PTL
=============================================================================
