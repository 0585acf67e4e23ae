------------------------- MODULE PullConsumerProofs -------------------------
(* Type correctness of PullConsumer and its safety properties, for every    *)
(* set of workers, tickets and subjects and every bound.                    *)
EXTENDS PullConsumer, TLAPS

LEMMA RowTypes == UnusedRow \in Row /\ FailedRow \in Row
  BY DEF UnusedRow, FailedRow, Row, Ops

LEMMA SettledType == ASSUME TypeOK PROVE Settled \in SUBSET (Nat \X Seqs)
  BY DEF TypeOK, Settled, AckReturned, Row

\* What opening a call writes: an error that needs no request, or a request
\* whose sequences, if it has any, were handed to the worker.
OpenedAs(t, w, op, filter, n, seqs) ==
  /\ op \in Ops /\ filter \in SUBSET Subjects /\ n \in Nat
  /\ seqs \in SUBSET Handed(w)
  /\ w \in Closed => op \in {"pub", "delete"}
  /\ calls' = [calls EXCEPT ![t] = Sent(w, op, filter, n, seqs)]

LEMMA BeginRow ==
  ASSUME NEW t \in Tickets, NEW w \in Workers, Begin(t, w)
  PROVE  /\ calls[t] = UnusedRow
         /\ UNCHANGED <<log, cons, stored>>
         /\ \/ calls' = [calls EXCEPT ![t] = FailedRow]
            \/ \E op, filter, n, seqs : OpenedAs(t, w, op, filter, n, seqs)
<1>1. CASE Publish(t, w)
  <2>1. PICK subject \in Subjects :
          Open(t, w, "publish", {subject}, 0, {}, GateRefuses(w))
    BY <1>1 DEF Publish
  <2>2. {subject} \in SUBSET Subjects /\ {} \in SUBSET Handed(w) /\ "publish" \in Ops
    BY DEF Ops
  <2> QED
    BY <2>1, <2>2 DEF Open, OpenedAs, GateRefuses
<1>2. CASE Pub(t, w)
  <2>1. PICK subject \in Subjects : Open(t, w, "pub", {subject}, 0, {}, FALSE)
    BY <1>2 DEF Pub
  <2>2. {subject} \in SUBSET Subjects /\ {} \in SUBSET Handed(w) /\ "pub" \in Ops
    BY DEF Ops
  <2> QED
    BY <2>1, <2>2 DEF Open, OpenedAs
<1>3. CASE CreateConsumer(t, w)
  <2>1. PICK filter \in Filters :
          Open(t, w, "create", filter, 0, {}, GateRefuses(w))
    BY <1>3 DEF CreateConsumer
  <2>2. filter \in SUBSET Subjects /\ {} \in SUBSET Handed(w) /\ "create" \in Ops
    BY DEF Ops, Filters
  <2> QED
    BY <2>1, <2>2 DEF Open, OpenedAs, GateRefuses
<1>4. CASE ConsumerFetch(t, w)
  <2>1. PICK batch \in Batches :
          Open(t, w, "fetch", {}, batch, {}, GateRefuses(w) \/ batch = 0)
    BY <1>4 DEF ConsumerFetch
  <2>2. /\ batch \in Nat /\ {} \in SUBSET Subjects /\ {} \in SUBSET Handed(w)
        /\ "fetch" \in Ops
    BY ParamAssumption DEF Ops
  <2> QED
    BY <2>1, <2>2 DEF Open, OpenedAs, GateRefuses
<1>5. CASE ConsumerAck(t, w)
  <2>1. PICK seqs \in SUBSET Handed(w) :
          Open(t, w, "ack", {}, 0, seqs, GateRefuses(w) \/ seqs = {})
    BY <1>5 DEF ConsumerAck
  <2>2. {} \in SUBSET Subjects /\ "ack" \in Ops
    BY DEF Ops
  <2> QED
    BY <2>1, <2>2 DEF Open, OpenedAs, GateRefuses
<1>6. CASE ConsumerNack(t, w)
  <2>1. PICK seqs \in SUBSET Handed(w) :
          Open(t, w, "nack", {}, 0, seqs, GateRefuses(w) \/ seqs = {})
    BY <1>6 DEF ConsumerNack
  <2>2. {} \in SUBSET Subjects /\ "nack" \in Ops
    BY DEF Ops
  <2> QED
    BY <2>1, <2>2 DEF Open, OpenedAs, GateRefuses
<1>7. CASE DeleteConsumer(t, w)
  <2>1. {} \in SUBSET Subjects /\ {} \in SUBSET Handed(w) /\ "delete" \in Ops
    BY DEF Ops
  <2> QED
    BY <1>7, <2>1 DEF DeleteConsumer, Open, OpenedAs
<1> QED
  BY <1>1, <1>2, <1>3, <1>4, <1>5, <1>6, <1>7 DEF Begin

LEMMA BeginType ==
  ASSUME TypeOK, NEW t \in Tickets, NEW w \in Workers, Begin(t, w)
  PROVE  TypeOK'
<1>1. calls' \in [Tickets -> Row]
  <2>1. CASE calls' = [calls EXCEPT ![t] = FailedRow]
    BY <2>1, RowTypes DEF TypeOK
  <2>2. ASSUME NEW op, NEW filter, NEW n, NEW seqs,
               OpenedAs(t, w, op, filter, n, seqs)
        PROVE  calls' \in [Tickets -> Row]
    <3>1. Sent(w, op, filter, n, seqs) \in Row
      BY <2>2, SettledType DEF OpenedAs, Sent, Row, Handed
    <3> QED
      BY <2>2, <3>1 DEF OpenedAs, TypeOK
  <2> QED
    BY <2>1, <2>2, BeginRow
<1> QED
  BY <1>1, BeginRow DEF TypeOK

\* A reply is one more row of the right type.
LEMMA ReplyType ==
  ASSUME TypeOK, NEW t \in Tickets, NEW status \in {"ok", "conflict", "failed"},
         NEW got \in SUBSET Seqs, cons'.gen \in Nat, Reply(t, status, got)
  PROVE  calls' \in [Tickets -> Row]
<1> DEFINE row == [calls[t] EXCEPT !.net = "reply", !.status = status,
                                   !.gen = cons'.gen, !.got = got]
<1>1. row \in Row
  <2>1. calls[t] \in Row
    BY DEF TypeOK
  <2>2. \A g \in Nat : [calls[t] EXCEPT !.net = "reply", !.status = status,
                                        !.gen = g, !.got = got] \in Row
    BY <2>1 DEF Row
  <2> QED
    BY <2>2
<1> QED
  BY <1>1, RowTypes DEF Reply, TypeOK

LEMMA AppendedType ==
  ASSUME TypeOK, NEW subject \in Subjects, NEW by \in SUBSET Tickets,
         NEW good \in BOOLEAN, Appended(subject, by, good)
  PROVE  /\ log' \in Seq(Message) /\ Len(log') <= MaxLog
         /\ Len(log) + 1 \in Seqs
         /\ UNCHANGED <<cons, stored>>
<1>1. [subject |-> subject, by |-> by, good |-> good] \in Message
  BY DEF Message
<1> QED
  BY <1>1, ParamAssumption DEF Appended, TypeOK, Seqs

LEMMA FreshType ==
  ASSUME NEW gen \in Nat, NEW filter \in SUBSET Subjects
  PROVE  Fresh(gen, filter) \in Consumer
  BY DEF Fresh, Consumer

LEMMA ServeType ==
  ASSUME TypeOK, NEW t \in Tickets, Serve(t)
  PROVE  TypeOK'
<1>1. calls[t] \in Row /\ cons.gen \in Nat /\ cons \in Consumer
  BY DEF TypeOK, Consumer
<1>2. CASE ServePublish(t)
  <2>1. PICK subject \in calls[t].filter : Appended(subject, {t}, TRUE)
    BY <1>2 DEF ServePublish
  <2>2. /\ log' \in Seq(Message) /\ Len(log') <= MaxLog
        /\ Len(log) + 1 \in Seqs /\ UNCHANGED <<cons, stored>>
    <3>1. subject \in Subjects /\ {t} \in SUBSET Tickets
      BY <1>1, <2>1 DEF Row
    <3> QED
      BY <2>1, <3>1, AppendedType
  <2>3. calls' \in [Tickets -> Row]
    BY <1>1, <1>2, <2>2, ReplyType DEF ServePublish
  <2> QED
    BY <2>2, <2>3 DEF TypeOK
<1>3. CASE ServePub(t)
  <2>1. calls' \in [Tickets -> Row]
    BY <1>1, <1>3, ReplyType DEF ServePub
  <2> QED
    BY <1>3, <2>1 DEF ServePub, TypeOK
<1>4. CASE ServeCreate(t)
  <2>1. CASE cons.live
    <3>1. UNCHANGED <<log, cons, stored>> /\ Reply(t, "conflict", {})
      BY <1>4, <2>1 DEF ServeCreate
    <3>2. calls' \in [Tickets -> Row]
      BY <1>1, <3>1, ReplyType
    <3> QED
      BY <3>1, <3>2 DEF TypeOK
  <2>2. CASE ~cons.live
    <3>1. /\ cons' = Fresh(cons.gen + 1, calls[t].filter)
          /\ Reply(t, "ok", {}) /\ UNCHANGED <<log, stored>>
      BY <1>4, <2>2 DEF ServeCreate
    <3>2. cons' \in Consumer
      BY <1>1, <3>1, FreshType DEF Row
    <3>3. calls' \in [Tickets -> Row]
      BY <3>1, <3>2, ReplyType DEF Consumer
    <3> QED
      BY <3>1, <3>2, <3>3 DEF TypeOK
  <2> QED
    BY <2>1, <2>2
<1>5. CASE ServeFetch(t)
  <2> DEFINE got == Oldest(calls[t].n)
  <2>1. got \in SUBSET Seqs
    BY DEF Oldest, Deliverable
  <2>2. /\ cons' = [cons EXCEPT !.out = @ \cup got,
                               !.tries = [s \in Seqs |-> IF s \in got
                                            THEN cons.tries[s] + 1
                                            ELSE cons.tries[s]]]
        /\ Reply(t, "ok", got) /\ UNCHANGED <<log, stored>>
    BY <1>5 DEF ServeFetch
  <2> HIDE DEF got
  <2>3. cons' \in Consumer
    <3> DEFINE tries == [s \in Seqs |-> IF s \in got THEN cons.tries[s] + 1
                                                   ELSE cons.tries[s]]
    <3>1. cons' = [cons EXCEPT !.out = @ \cup got, !.tries = tries]
      BY <2>2
    <3>2. tries \in [Seqs -> Nat]
      BY <1>1 DEF Consumer
    <3> HIDE DEF tries
    <3> QED
      BY <1>1, <2>1, <3>1, <3>2 DEF Consumer
  <2>4. calls' \in [Tickets -> Row]
    BY <2>1, <2>2, <2>3, ReplyType DEF Consumer
  <2> QED
    BY <2>2, <2>3, <2>4 DEF TypeOK
<1>6. CASE ServeAck(t)
  <2>1. cons' \in Consumer
    BY <1>1, <1>6 DEF ServeAck, Consumer, Row
  <2>2. calls' \in [Tickets -> Row]
    <3>1. Reply(t, "ok", {}) /\ cons'.gen \in Nat
      BY <1>6, <2>1 DEF ServeAck, Consumer
    <3> QED
      BY <3>1, ReplyType
  <2>3. stored' \in SUBSET (Nat \X Seqs)
    BY <1>1, <1>6 DEF ServeAck, TypeOK, Row
  <2> QED
    BY <1>6, <2>1, <2>2, <2>3 DEF ServeAck, TypeOK
<1>7. CASE ServeNack(t)
  <2>1. cons' \in Consumer
    BY <1>1, <1>7 DEF ServeNack, Consumer
  <2>2. calls' \in [Tickets -> Row]
    BY <1>7, <2>1, ReplyType DEF ServeNack, Consumer
  <2> QED
    BY <1>7, <2>1, <2>2 DEF ServeNack, TypeOK
<1>8. CASE ServeDelete(t)
  <2>1. cons' \in Consumer
    BY <1>1, <1>8 DEF ServeDelete, Consumer
  <2>2. calls' \in [Tickets -> Row]
    BY <1>8, <2>1, ReplyType DEF ServeDelete, Consumer
  <2> QED
    BY <1>8, <2>1, <2>2 DEF ServeDelete, TypeOK
<1>9. CASE Refuse(t)
  <2>1. calls' \in [Tickets -> Row]
    BY <1>1, <1>9, ReplyType DEF Refuse
  <2> QED
    BY <1>9, <2>1 DEF Refuse, TypeOK
<1> QED
  BY <1>2, <1>3, <1>4, <1>5, <1>6, <1>7, <1>8, <1>9 DEF Serve

LEMMA EndType ==
  ASSUME TypeOK, NEW t \in Tickets, End(t)
  PROVE  TypeOK'
<1>1. calls[t] \in Row
  BY DEF TypeOK
<1>2. CASE GiveUp(t)
  <2> DEFINE row == [calls[t] EXCEPT !.outcome = "error"]
  <2>1. row \in Row
    BY <1>1 DEF Row
  <2>2. /\ calls' = [calls EXCEPT ![t] = row] \/ calls' = [calls EXCEPT ![t] = FailedRow]
        /\ UNCHANGED <<log, cons, stored>>
    BY <1>2 DEF GiveUp
  <2> HIDE DEF row
  <2> QED
    BY <2>1, <2>2, RowTypes DEF TypeOK
<1>3. ASSUME NEW body \in Bodies, Return(t, body)
      PROVE  TypeOK'
  <2> DEFINE outcome == Outcome(calls[t], body)
             row == [calls[t] EXCEPT !.net = "none", !.outcome = outcome,
                                     !.got = Received(calls[t], body)]
  <2>1. outcome \in {"ok", "name_only", "error"}
    BY DEF Outcome, CreateOutcome, FetchOutcome
  <2>2. Received(calls[t], body) \in SUBSET Seqs
    BY <1>1 DEF Received, Row
  <2>3. row \in Row
    <3> HIDE DEF outcome
    <3> QED
      BY <1>1, <2>1, <2>2 DEF Row
  <2>4. /\ calls' = [calls EXCEPT ![t] = row] \/ calls' = [calls EXCEPT ![t] = FailedRow]
        /\ UNCHANGED <<log, cons, stored>>
    BY <1>3 DEF Return
  <2> HIDE DEF row
  <2> QED
    BY <2>3, <2>4, RowTypes DEF TypeOK
<1> QED
  BY <1>2, <1>3 DEF End

LEMMA InitType == Init => TypeOK
<1> SUFFICES ASSUME Init PROVE TypeOK
  OBVIOUS
<1>1. cons \in Consumer
  <2>1. \A filter \in Filters \cup {{}} : Fresh(0, filter) \in Consumer
    BY FreshType DEF Filters
  <2>2. [Fresh(0, {}) EXCEPT !.live = FALSE] \in Consumer
    BY <2>1 DEF Consumer
  <2> QED
    BY <2>1, <2>2 DEF Init
<1>2. log \in Seq(Message) /\ Len(log) <= MaxLog
  BY ParamAssumption DEF Init
<1> QED
  BY <1>1, <1>2, RowTypes DEF Init, TypeOK

LEMMA NextType ==
  ASSUME TypeOK, [Next]_vars
  PROVE  TypeOK'
<1>1. CASE \E t \in Tickets, w \in Workers : Begin(t, w)
  BY <1>1, BeginType
<1>2. CASE \E t \in Tickets : Serve(t) \/ End(t)
  BY <1>2, ServeType, EndType
<1>3. CASE \E s \in Seqs : Expire(s)
  BY <1>3 DEF Expire, TypeOK, Consumer
<1>4. CASE \E subject \in Subjects : ForeignPublish(subject)
  <2>1. PICK subject \in Subjects, good \in BOOLEAN :
          Appended(subject, {}, good) /\ UNCHANGED calls
    BY <1>4 DEF ForeignPublish
  <2>2. {} \in SUBSET Tickets
    OBVIOUS
  <2>3. /\ log' \in Seq(Message) /\ Len(log') <= MaxLog
        /\ UNCHANGED <<cons, stored>>
    BY <2>1, <2>2, AppendedType
  <2> QED
    BY <2>1, <2>3 DEF TypeOK
<1>5. CASE UNCHANGED vars
  BY <1>5 DEF vars, TypeOK
<1> QED
  BY <1>1, <1>2, <1>3, <1>4, <1>5 DEF Next

\* Type correctness: the stream, the consumer and the call table keep their
\* shape through every call, reply, timeout and expiry.
THEOREM TypeCorrect == Spec => []TypeOK
  BY InitType, NextType, PTL DEF Spec
-----------------------------------------------------------------------------
(***************************************************************************)
(* The inductive invariant.  A step writes at most one row; what the other *)
(* rows say of the broker survives because the broker only adds to the     *)
(* stream, to its record of acknowledgements, and to what was handed over. *)
(***************************************************************************)
Grows ==
  /\ Len(log) <= Len(log')
  /\ \A s \in 1 .. Len(log) : log'[s] = log[s]
  /\ stored \subseteq stored'
  /\ AllHanded \subseteq AllHanded'

OnlyRow(t) == \A u \in Tickets \ {t} : calls'[u] = calls[u]

LEMMA HandedGrows ==
  ASSUME NEW t \in Tickets, OnlyRow(t), ~HandedBy(t)
  PROVE  AllHanded \subseteq AllHanded'
  BY DEF OnlyRow, AllHanded, HandedBy, Returned

LEMMA UntouchedRow ==
  ASSUME TypeOK, Grows, NEW u \in Tickets, RowInv(u), calls'[u] = calls[u]
  PROVE  RowInv(u)'
<1>1. /\ HandedBy(u)' = HandedBy(u) /\ Answered(u)' = Answered(u)
      /\ Returned(u)' = Returned(u)
  BY DEF HandedBy, Answered, Returned
<1>2. Len(log) \in Nat /\ Len(log') >= Len(log)
  BY DEF TypeOK, Grows
<1>3. calls[u].op = "fetch" /\ Answered(u) => calls[u].got \subseteq 1 .. Len(log)
  BY DEF RowInv
<1>4. HandedBy(u) => Answered(u) /\ calls[u].op = "fetch"
  BY DEF RowInv, HandedBy, Answered
<1>5. HandedBy(u) => AllDecodable(calls[u].got)'
  BY <1>3, <1>4 DEF RowInv, AllDecodable, Grows
<1> QED
  BY <1>1, <1>2, <1>5 DEF RowInv, Grows

LEMMA SettledStored ==
  ASSUME \A t \in Tickets : RowInv(t)
  PROVE  Settled \subseteq stored
  BY DEF Settled, AckReturned, RowInv, Answered

LEMMA FailedRowInv ==
  ASSUME NEW t \in Tickets, calls'[t] = FailedRow
  PROVE  RowInv(t)'
  BY DEF RowInv, FailedRow, UnusedRow, Returned, HandedBy, Answered

LEMMA BeginInv ==
  ASSUME IInv, NEW t \in Tickets, NEW w \in Workers, Begin(t, w)
  PROVE  IInv'
<1>1. TypeOK' /\ calls[t] = UnusedRow /\ UNCHANGED <<log, cons, stored>>
  BY BeginType, BeginRow DEF IInv
<1>2. OnlyRow(t)
  BY BeginRow DEF OnlyRow, OpenedAs, IInv, TypeOK
<1>3. Grows
  <2>1. ~HandedBy(t)
    BY <1>1 DEF HandedBy, UnusedRow
  <2>2. Len(log) \in Nat
    BY DEF IInv, TypeOK
  <2> QED
    BY <1>1, <1>2, <2>1, <2>2, HandedGrows DEF Grows
<1>4. RowInv(t)'
  <2>1. CASE calls' = [calls EXCEPT ![t] = FailedRow]
    BY <2>1, FailedRowInv DEF IInv, TypeOK
  <2>2. ASSUME NEW op, NEW filter, NEW n, NEW seqs,
               OpenedAs(t, w, op, filter, n, seqs)
        PROVE  RowInv(t)'
    <3>1. calls'[t] = Sent(w, op, filter, n, seqs)
      BY <2>2 DEF OpenedAs, IInv, TypeOK
    <3>2. Settled \subseteq stored'
      BY <1>1, SettledStored DEF IInv
    <3>3. seqs \subseteq AllHanded'
      BY <1>3, <2>2 DEF OpenedAs, Handed, AllHanded, Grows
    <3>4. {w} \cap Closed # {} => op \in {"pub", "delete"}
      BY <2>2 DEF OpenedAs
    <3> QED
      BY <3>1, <3>2, <3>3, <3>4
         DEF RowInv, Sent, Returned, HandedBy, Answered
  <2> QED
    BY <2>1, <2>2, BeginRow
<1>5. \A u \in Tickets : RowInv(u)'
  BY <1>2, <1>3, <1>4, UntouchedRow DEF IInv, OnlyRow
<1>6. StoredInv'
  BY <1>1, <1>3 DEF IInv, StoredInv, Grows
<1> QED
  BY <1>1, <1>5, <1>6 DEF IInv

BrokerGrows ==
  /\ Len(log) <= Len(log')
  /\ \A s \in 1 .. Len(log) : log'[s] = log[s]
  /\ stored \subseteq stored'

LEMMA ReplyHanded ==
  ASSUME IInv, NEW t \in Tickets, NEW status, NEW got,
         calls[t].net = "request", Reply(t, status, got)
  PROVE  OnlyRow(t) /\ AllHanded \subseteq AllHanded'
<1>1. OnlyRow(t)
  BY DEF Reply, OnlyRow, IInv, TypeOK
<1>2. ~HandedBy(t)
  BY DEF HandedBy, IInv, RowInv
<1> QED
  BY <1>1, <1>2, HandedGrows

\* What is left to show of a served request: the reply tells the truth.
LEMMA ReplyInv ==
  ASSUME IInv, NEW t \in Tickets, NEW status, NEW got,
         calls[t].net = "request", Reply(t, status, got), BrokerGrows,
         calls[t].op = "ack" /\ status = "ok"
           => {cons'.gen} \X calls[t].seqs \subseteq stored',
         calls[t].op = "fetch" /\ status = "ok"
           => /\ got \subseteq 1 .. Len(log')
              /\ ({cons'.gen} \X got) \cap calls[t].before = {}
  PROVE  \A u \in Tickets : RowInv(u)'
<1>1. OnlyRow(t) /\ Grows
  BY ReplyHanded DEF Grows, BrokerGrows
<1>2. RowInv(t)'
  <2>1. CASE calls[t].outcome = "pending"
    <3> DEFINE row == [calls[t] EXCEPT !.net = "reply", !.status = status,
                                       !.gen = cons'.gen, !.got = got]
    <3>1. calls[t] \in Row /\ RowInv(t)
      BY DEF IInv, TypeOK
    <3>2. calls'[t] = row
      BY <2>1 DEF Reply, IInv, TypeOK
    <3>3. /\ row.op = calls[t].op /\ row.w = calls[t].w
          /\ row.seqs = calls[t].seqs /\ row.before = calls[t].before
          /\ row.net = "reply" /\ row.status = status /\ row.gen = cons'.gen
          /\ row.got = got /\ row.outcome = "pending"
      BY <2>1, <3>1 DEF Row
    <3>4. /\ calls[t].before \subseteq stored'
          /\ calls[t].op = "ack" => calls[t].seqs \subseteq AllHanded'
          /\ calls[t].w \cap Closed # {} => calls[t].op \in {"pub", "delete"}
      BY <1>1, <3>1 DEF RowInv, Grows
    <3> HIDE DEF row
    <3> QED
      BY <3>2, <3>3, <3>4 DEF RowInv, Returned, HandedBy, Answered
  <2>2. CASE calls[t].outcome # "pending"
    BY <2>2, FailedRowInv DEF Reply, IInv, TypeOK
  <2> QED
    BY <2>1, <2>2
<1> QED
  BY <1>1, <1>2, UntouchedRow DEF OnlyRow, IInv

LEMMA ServeInv ==
  ASSUME IInv, NEW t \in Tickets, Serve(t)
  PROVE  IInv'
<1>1. /\ TypeOK' /\ calls[t] \in Row /\ RowInv(t) /\ cons \in Consumer
      /\ Len(log) \in Nat
  BY ServeType DEF IInv, TypeOK
<1>2. CASE ServePublish(t)
  <2>1. PICK subject \in calls[t].filter : Appended(subject, {t}, TRUE)
    BY <1>2 DEF ServePublish
  <2>2. /\ Len(log') = Len(log) + 1
        /\ \A s \in 1 .. Len(log) : log'[s] = log[s]
        /\ log'[Len(log) + 1].by = {t}
        /\ UNCHANGED <<cons, stored>>
    BY <2>1 DEF Appended, IInv, TypeOK
  <2>3. BrokerGrows
    BY <1>1, <2>2 DEF BrokerGrows
  <2>4. calls[t].net = "request" /\ calls[t].op = "publish" /\ Reply(t, "ok", {Len(log) + 1})
    BY <1>2 DEF ServePublish, Request
  <2>5. \A u \in Tickets : RowInv(u)'
    BY <1>1, <2>2, <2>3, <2>4, ReplyInv
  <2>6. StoredInv'
    BY <2>2, <2>4, ReplyHanded DEF StoredInv, IInv
  <2> QED
    BY <1>1, <2>5, <2>6 DEF IInv
<1>3. CASE ServePub(t)
  <2>1. calls[t].net = "request" /\ calls[t].op = "pub" /\ Reply(t, "ok", {})
    BY <1>3 DEF ServePub, Request
  <2>2. BrokerGrows /\ UNCHANGED <<log, cons, stored>>
    BY <1>1, <1>3 DEF ServePub, BrokerGrows
  <2>3. \A u \in Tickets : RowInv(u)'
    BY <2>1, <2>2, ReplyInv
  <2>4. StoredInv'
    BY <2>1, <2>2, ReplyHanded DEF StoredInv, IInv
  <2> QED
    BY <1>1, <2>3, <2>4 DEF IInv
<1>4. CASE ServeCreate(t)
  <2>1. PICK status : /\ calls[t].net = "request" /\ calls[t].op = "create"
                      /\ Reply(t, status, {})
    BY <1>4 DEF ServeCreate, Request
  <2>2. BrokerGrows /\ UNCHANGED <<log, stored>>
    BY <1>1, <1>4 DEF ServeCreate, BrokerGrows
  <2>3. \A u \in Tickets : RowInv(u)'
    BY <2>1, <2>2, ReplyInv
  <2>4. UNCHANGED cons \/ cons'.gen = cons.gen + 1
    BY <1>4 DEF ServeCreate, Fresh
  <2>5. StoredInv'
    <3>1. cons.gen \in Nat /\ stored \in SUBSET (Nat \X Seqs)
      BY <1>1 DEF Consumer, IInv, TypeOK
    <3>2. \A p \in stored : p[1] \in Nat /\ p[1] <= cons.gen
      BY <3>1 DEF IInv, StoredInv
    <3> QED
      BY <2>1, <2>2, <2>4, <3>1, <3>2, ReplyHanded DEF StoredInv, IInv
  <2> QED
    BY <1>1, <2>3, <2>5 DEF IInv
<1>5. CASE ServeFetch(t)
  <2> DEFINE got == Oldest(calls[t].n)
  <2>1. /\ calls[t].net = "request" /\ calls[t].op = "fetch"
        /\ Reply(t, "ok", got)
    BY <1>5 DEF ServeFetch, Request
  <2>2. /\ BrokerGrows /\ UNCHANGED <<log, stored>>
        /\ cons'.gen = cons.gen /\ cons'.done = cons.done
    BY <1>1, <1>5 DEF ServeFetch, BrokerGrows, Consumer
  <2>3. got \subseteq 1 .. Len(log) /\ got \cap cons.done = {}
    BY DEF Oldest, Deliverable
  <2>4. ({cons.gen} \X got) \cap calls[t].before = {}
    <3> SUFFICES ASSUME NEW s \in got, <<cons.gen, s>> \in calls[t].before
                 PROVE  FALSE
      OBVIOUS
    <3>1. <<cons.gen, s>> \in stored
      BY <1>1 DEF RowInv
    <3>2. s \in cons.done
      BY <3>1 DEF IInv, StoredInv
    <3> QED
      BY <2>3, <3>2
  <2> HIDE DEF got
  <2>5. \A u \in Tickets : RowInv(u)'
    BY <2>1, <2>2, <2>3, <2>4, ReplyInv
  <2>6. StoredInv'
    BY <2>1, <2>2, ReplyHanded DEF StoredInv, IInv
  <2> QED
    BY <1>1, <2>5, <2>6 DEF IInv
<1>6. CASE ServeAck(t)
  <2>1. calls[t].net = "request" /\ calls[t].op = "ack" /\ Reply(t, "ok", {})
    BY <1>6 DEF ServeAck, Request
  <2>2. /\ BrokerGrows /\ UNCHANGED log
        /\ cons'.gen = cons.gen /\ cons'.done = cons.done \cup calls[t].seqs
        /\ stored' = stored \cup ({cons.gen} \X calls[t].seqs)
    BY <1>1, <1>6 DEF ServeAck, BrokerGrows, Consumer
  <2>3. \A u \in Tickets : RowInv(u)'
    BY <2>1, <2>2, ReplyInv
  <2>4. StoredInv'
    <3>1. calls[t].seqs \subseteq AllHanded'
      BY <1>1, <2>1, ReplyHanded DEF RowInv
    <3>2. cons.gen \in Nat
      BY <1>1 DEF Consumer
    <3> SUFFICES ASSUME NEW p \in stored'
                 PROVE  /\ p[1] <= cons'.gen
                        /\ p[1] = cons'.gen => p[2] \in cons'.done
                        /\ p[2] \in AllHanded'
      BY DEF StoredInv
    <3>3. CASE p \in stored
      BY <2>1, <2>2, <3>3, ReplyHanded DEF StoredInv, IInv
    <3>4. CASE p \in {cons.gen} \X calls[t].seqs
      BY <2>2, <3>1, <3>2, <3>4
    <3> QED
      BY <2>2, <3>3, <3>4
  <2> QED
    BY <1>1, <2>3, <2>4 DEF IInv
<1>7. CASE ServeNack(t)
  <2>1. calls[t].net = "request" /\ calls[t].op = "nack" /\ Reply(t, "ok", {})
    BY <1>7 DEF ServeNack, Request
  <2>2. /\ BrokerGrows /\ UNCHANGED <<log, stored>>
        /\ cons'.gen = cons.gen /\ cons'.done = cons.done
    BY <1>1, <1>7 DEF ServeNack, BrokerGrows, Consumer
  <2>3. \A u \in Tickets : RowInv(u)'
    BY <2>1, <2>2, ReplyInv
  <2>4. StoredInv'
    BY <2>1, <2>2, ReplyHanded DEF StoredInv, IInv
  <2> QED
    BY <1>1, <2>3, <2>4 DEF IInv
<1>8. CASE ServeDelete(t)
  <2>1. calls[t].net = "request" /\ calls[t].op = "delete" /\ Reply(t, "ok", {})
    BY <1>8 DEF ServeDelete, Request
  <2>2. /\ BrokerGrows /\ UNCHANGED <<log, stored>>
        /\ cons'.gen = cons.gen /\ cons'.done = cons.done
    BY <1>1, <1>8 DEF ServeDelete, BrokerGrows, Consumer
  <2>3. \A u \in Tickets : RowInv(u)'
    BY <2>1, <2>2, ReplyInv
  <2>4. StoredInv'
    BY <2>1, <2>2, ReplyHanded DEF StoredInv, IInv
  <2> QED
    BY <1>1, <2>3, <2>4 DEF IInv
<1>9. CASE Refuse(t)
  <2>1. calls[t].net = "request" /\ Reply(t, "failed", {})
    BY <1>9 DEF Refuse
  <2>2. BrokerGrows /\ UNCHANGED <<log, cons, stored>>
    BY <1>1, <1>9 DEF Refuse, BrokerGrows
  <2>3. \A u \in Tickets : RowInv(u)'
    BY <2>1, <2>2, ReplyInv
  <2>4. StoredInv'
    BY <2>1, <2>2, ReplyHanded DEF StoredInv, IInv
  <2> QED
    BY <1>1, <2>3, <2>4 DEF IInv
<1> QED
  BY <1>2, <1>3, <1>4, <1>5, <1>6, <1>7, <1>8, <1>9 DEF Serve

\* A call that ends keeps what its reply said, or becomes a failed call.
LEMMA EndRow ==
  ASSUME IInv, NEW t \in Tickets, End(t)
  PROVE  /\ UNCHANGED <<log, cons, stored>> /\ OnlyRow(t) /\ ~HandedBy(t)
         /\ RowInv(t)'
<1>1. calls[t].outcome = "pending" /\ calls[t] \in Row /\ RowInv(t)
  BY DEF End, GiveUp, Return, IInv, TypeOK
<1>2. UNCHANGED <<log, cons, stored>> /\ OnlyRow(t) /\ ~HandedBy(t)
  BY <1>1 DEF End, GiveUp, Return, OnlyRow, HandedBy, Returned, IInv, TypeOK
<1>3. AllHanded \subseteq AllHanded'
  BY <1>2, HandedGrows
<1>4. CASE GiveUp(t)
  <2> DEFINE row == [calls[t] EXCEPT !.outcome = "error"]
  <2>1. calls'[t] = row \/ calls'[t] = FailedRow
    BY <1>4 DEF GiveUp, IInv, TypeOK
  <2>2. /\ row.op = calls[t].op /\ row.w = calls[t].w
        /\ row.seqs = calls[t].seqs /\ row.before = calls[t].before
        /\ row.net = calls[t].net /\ row.status = calls[t].status
        /\ row.gen = calls[t].gen /\ row.got = calls[t].got
        /\ row.outcome = "error"
    BY <1>1 DEF Row
  <2> HIDE DEF row
  <2>3. CASE calls'[t] = row
    BY <1>1, <1>2, <1>3, <2>2, <2>3
       DEF RowInv, Returned, HandedBy, Answered
  <2> QED
    BY <1>2, <2>1, <2>3, FailedRowInv
<1>5. ASSUME NEW body \in Bodies, Return(t, body)
      PROVE  RowInv(t)'
  <2> DEFINE outcome == Outcome(calls[t], body)
             got == Received(calls[t], body)
             row == [calls[t] EXCEPT !.net = "none", !.outcome = outcome,
                                     !.got = got]
  <2>1. /\ calls[t].net = "reply"
        /\ outcome = "error" => calls'[t] = FailedRow
        /\ outcome # "error" => calls'[t] = row
    BY <1>5 DEF Return, IInv, TypeOK
  <2>2. got \subseteq calls[t].got
    BY DEF Received
  <2>3. /\ outcome = "name_only" => calls[t].op = "create"
        /\ outcome = "ok" => calls[t].status = "ok"
        /\ outcome = "ok" /\ calls[t].op = "fetch" => AllDecodable(got)
        /\ outcome \in {"ok", "name_only", "error"}
    BY DEF Outcome, CreateOutcome, FetchOutcome, DoJSON
  <2> HIDE DEF outcome, got
  <2>4. /\ row.op = calls[t].op /\ row.w = calls[t].w
        /\ row.seqs = calls[t].seqs /\ row.before = calls[t].before
        /\ row.net = "none" /\ row.status = calls[t].status
        /\ row.gen = calls[t].gen /\ row.got = got
        /\ row.outcome = outcome
    BY <1>1 DEF Row
  <2> HIDE DEF row
  <2>5. CASE outcome # "error"
    <3>1. calls[t].op = "fetch" => \A s \in got : log'[s].good
      BY <1>2, <2>3, <2>5 DEF AllDecodable
    <3>2. /\ calls[t].op = "fetch" /\ calls[t].status = "ok"
             => /\ calls[t].got \subseteq 1 .. Len(log)
                /\ ({calls[t].gen} \X calls[t].got) \cap calls[t].before = {}
          /\ calls[t].op = "ack" /\ calls[t].status = "ok"
             => {calls[t].gen} \X calls[t].seqs \subseteq stored
      BY <1>1, <2>1 DEF RowInv, Answered
    <3>3. calls[t].op = "fetch" /\ calls[t].status = "ok"
          => /\ got \subseteq 1 .. Len(log)
             /\ ({calls[t].gen} \X got) \cap calls[t].before = {}
      BY <2>2, <3>2
    <3> QED
      BY <1>1, <1>2, <1>3, <2>1, <2>2, <2>3, <2>4, <2>5, <3>1, <3>2, <3>3
         DEF RowInv, Returned, HandedBy, Answered, AllDecodable
  <2> QED
    BY <2>1, <2>5, FailedRowInv
<1> QED
  BY <1>2, <1>4, <1>5 DEF End

LEMMA EndInv ==
  ASSUME IInv, NEW t \in Tickets, End(t)
  PROVE  IInv'
<1>1. Len(log) \in Nat
  BY DEF IInv, TypeOK
<1>2. Grows
  BY <1>1, EndRow, HandedGrows DEF Grows
<1>3. \A u \in Tickets : RowInv(u)'
  BY <1>2, EndRow, UntouchedRow DEF OnlyRow, IInv
<1>4. StoredInv'
  BY <1>2, EndRow DEF StoredInv, Grows, IInv
<1> QED
  BY <1>3, <1>4, EndType DEF IInv

LEMMA InitInv == Init => IInv
<1> SUFFICES ASSUME Init PROVE IInv
  OBVIOUS
<1>1. \A t \in Tickets : RowInv(t)
  BY DEF Init, RowInv, UnusedRow, Returned, Answered, HandedBy
<1>2. StoredInv
  BY DEF Init, StoredInv
<1> QED
  BY <1>1, <1>2, InitType DEF IInv

LEMMA NextInv ==
  ASSUME IInv, [Next]_vars
  PROVE  IInv'
<1>1. TypeOK' /\ Len(log) \in Nat
  BY NextType DEF IInv, TypeOK
<1>2. CASE \E t \in Tickets, w \in Workers : Begin(t, w)
  BY <1>2, BeginInv
<1>3. CASE \E t \in Tickets : Serve(t) \/ End(t)
  BY <1>3, ServeInv, EndInv
<1>4. ASSUME UNCHANGED <<stored, calls>>, BrokerGrows,
             cons'.gen = cons.gen, cons'.done = cons.done
      PROVE  IInv'
  <2>1. AllHanded' = AllHanded
    BY <1>4 DEF AllHanded, HandedBy, Returned
  <2>2. Grows
    BY <1>4, <2>1 DEF Grows, BrokerGrows
  <2>3. \A u \in Tickets : RowInv(u)'
    BY <1>4, <2>2, UntouchedRow DEF IInv
  <2>4. StoredInv'
    BY <1>4, <2>1 DEF StoredInv, IInv
  <2> QED
    BY <1>1, <2>3, <2>4 DEF IInv
<1>5. CASE \E s \in Seqs : Expire(s)
  <2>1. /\ UNCHANGED <<log, stored, calls>>
        /\ cons'.gen = cons.gen /\ cons'.done = cons.done
    BY <1>5 DEF Expire, IInv, TypeOK, Consumer
  <2> QED
    BY <1>1, <1>4, <2>1 DEF BrokerGrows
<1>6. CASE \E subject \in Subjects : ForeignPublish(subject)
  <2>1. /\ Len(log') = Len(log) + 1
        /\ \A s \in 1 .. Len(log) : log'[s] = log[s]
        /\ UNCHANGED <<cons, stored, calls>>
    BY <1>6 DEF ForeignPublish, Appended, IInv, TypeOK
  <2> QED
    BY <1>1, <1>4, <2>1 DEF BrokerGrows
<1>7. CASE UNCHANGED vars
  BY <1>1, <1>4, <1>7 DEF vars, BrokerGrows
<1> QED
  BY <1>2, <1>3, <1>5, <1>6, <1>7 DEF Next

THEOREM InductiveInvariant == Spec => []IInv
  BY InitInv, NextInv, PTL DEF Spec

\* A nil error from ConsumerAck means the broker recorded the acknowledgement.
THEOREM AckIsStored == Spec => []AckMeansStored
<1>1. IInv => AckMeansStored
  BY SettledStored DEF IInv, AckMeansStored
<1> QED
  BY <1>1, InductiveInvariant, PTL

\* What a caller knew to be acknowledged does not come back in a later fetch.
THEOREM NoRedelivery == Spec => []NoRedeliveryAfterAck
<1>1. IInv => NoRedeliveryAfterAck
  BY DEF IInv, RowInv, NoRedeliveryAfterAck, HandedBy, Answered
<1> QED
  BY <1>1, InductiveInvariant, PTL

\* Only decoded messages of the stream are handed over.
THEOREM HandedAreDecoded == Spec => []HandedDecodable
<1>1. IInv => HandedDecodable
  <2> SUFFICES ASSUME IInv, NEW t \in Tickets, HandedBy(t)
               PROVE  \A s \in calls[t].got : s \in 1 .. Len(log) /\ log[s].good
    BY DEF HandedDecodable
  <2>1. RowInv(t)
    BY DEF IInv
  <2>2. Answered(t) /\ calls[t].op = "fetch"
    BY <2>1 DEF RowInv, Answered, HandedBy
  <2> QED
    BY <2>1, <2>2 DEF RowInv, AllDecodable
<1> QED
  BY <1>1, InductiveInvariant, PTL

\* Nothing is acknowledged that no worker was handed.
THEOREM StoredHanded == Spec => []StoredWasHanded
<1>1. IInv => StoredWasHanded
  BY DEF IInv, StoredInv, StoredWasHanded, AllHanded
<1> QED
  BY <1>1, InductiveInvariant, PTL

\* The calls that ask for an org send nothing without one.
THEOREM GateIsKept == Spec => []GateHolds
<1>1. IInv => GateHolds
  BY DEF IInv, RowInv, GateHolds
<1> QED
  BY <1>1, InductiveInvariant, PTL
-----------------------------------------------------------------------------
(***************************************************************************)
(* Publishing.  A call's message enters the stream in the one step that    *)
(* serves its request; every other step leaves the call's copies alone.    *)
(***************************************************************************)
LEMMA PubSame ==
  ASSUME NEW u \in Tickets, PubInv(u), Copies(u)' = Copies(u),
         Len(log) \in Nat, Len(log') >= Len(log), calls'[u] = calls[u]
  PROVE  PubInv(u)'
<1>1. Answered(u)' = Answered(u)
  BY DEF Answered, Returned
<1> QED
  BY <1>1 DEF PubInv

LEMMA PubFailed ==
  ASSUME NEW t \in Tickets, calls'[t] = FailedRow
  PROVE  PubInv(t)'
  BY DEF PubInv, FailedRow, UnusedRow, Answered, Returned

\* One more message is one more copy for the call it is from.
LEMMA AppendedCopies ==
  ASSUME TypeOK, NEW subject, NEW by, NEW good, Appended(subject, by, good),
         NEW u \in Tickets
  PROVE  /\ Len(log') = Len(log) + 1 /\ Len(log) \in Nat
         /\ by = {u} => Copies(u)' = Copies(u) \cup {Len(log) + 1}
         /\ by # {u} => Copies(u)' = Copies(u)
<1>1. /\ Len(log') = Len(log) + 1 /\ Len(log) \in Nat
      /\ \A s \in 1 .. Len(log) : log'[s] = log[s]
      /\ log'[Len(log) + 1].by = by
  BY DEF Appended, TypeOK
<1> QED
  BY <1>1 DEF Copies

LEMMA BeginPub ==
  ASSUME TypeOK, NEW t \in Tickets, PubInv(t), NEW w \in Workers, Begin(t, w)
  PROVE  PubInv(t)'
<1>1. calls[t] = UnusedRow /\ UNCHANGED log
  BY BeginRow
<1>2. Copies(t)' = {}
  BY <1>1 DEF PubInv, Copies
<1>3. ~Answered(t)'
  BY BeginRow DEF OpenedAs, Sent, FailedRow, UnusedRow, Answered, Returned, TypeOK
<1> QED
  BY <1>2, <1>3 DEF PubInv

LEMMA ReplyPub ==
  ASSUME IInv, NEW t \in Tickets, NEW status, NEW got,
         calls[t].net = "request", Reply(t, status, got),
         calls[t].op = "publish" /\ status = "ok"
           => \E s \in 1 .. Len(log') : Copies(t)' = {s} /\ got \subseteq {s}
  PROVE  PubInv(t)'
<1>1. CASE calls[t].outcome = "pending"
  <2> DEFINE row == [calls[t] EXCEPT !.net = "reply", !.status = status,
                                     !.gen = cons'.gen, !.got = got]
  <2>1. calls'[t] = row /\ calls[t] \in Row
    BY <1>1 DEF Reply, IInv, TypeOK
  <2>2. /\ row.op = calls[t].op /\ row.net = "reply" /\ row.status = status
        /\ row.got = got /\ row.outcome = "pending" /\ row # UnusedRow
    BY <1>1, <2>1 DEF Row, UnusedRow
  <2> HIDE DEF row
  <2> QED
    BY <2>1, <2>2 DEF PubInv, Answered, Returned
<1>2. CASE calls[t].outcome # "pending"
  BY <1>2, PubFailed DEF Reply, IInv, TypeOK
<1> QED
  BY <1>1, <1>2

LEMMA EndPub ==
  ASSUME IInv, NEW t \in Tickets, PubInv(t), End(t)
  PROVE  PubInv(t)'
<1>1. /\ calls[t].outcome = "pending" /\ calls[t] \in Row
      /\ Copies(t)' = Copies(t) /\ UNCHANGED log
  BY DEF End, GiveUp, Return, IInv, TypeOK, Copies
<1>2. CASE GiveUp(t)
  <2> DEFINE row == [calls[t] EXCEPT !.outcome = "error"]
  <2>1. \/ calls'[t] = row /\ calls[t].net = "request"
        \/ calls'[t] = FailedRow
    BY <1>2 DEF GiveUp, IInv, TypeOK
  <2>2. row.net = calls[t].net /\ row.outcome = "error"
    BY <1>1 DEF Row
  <2> HIDE DEF row
  <2> QED
    BY <1>1, <2>1, <2>2, PubFailed DEF PubInv, Answered, Returned
<1>3. ASSUME NEW body \in Bodies, Return(t, body)
      PROVE  PubInv(t)'
  <2> DEFINE outcome == Outcome(calls[t], body)
             got == Received(calls[t], body)
             row == [calls[t] EXCEPT !.net = "none", !.outcome = outcome,
                                     !.got = got]
  <2>1. /\ calls[t].net = "reply"
        /\ outcome = "error" => calls'[t] = FailedRow
        /\ outcome # "error" => calls'[t] = row
    BY <1>3 DEF Return, IInv, TypeOK
  <2>2. got \subseteq calls[t].got
    BY DEF Received
  <2>3. /\ outcome \in {"ok", "name_only", "error"}
        /\ outcome # "error" /\ calls[t].op = "publish" => calls[t].status = "ok"
    BY DEF Outcome, CreateOutcome, FetchOutcome, DoJSON
  <2> HIDE DEF outcome, got
  <2>4. /\ row.op = calls[t].op /\ row.net = "none" /\ row.got = got
        /\ row.status = calls[t].status /\ row.outcome = outcome
    BY <1>1 DEF Row
  <2>5. outcome # "error" => row # UnusedRow
    BY <2>3, <2>4 DEF UnusedRow
  <2> HIDE DEF row
  <2>6. CASE outcome # "error"
    <3>1. ~(calls'[t] = UnusedRow \/ calls'[t].net = "request")
      BY <2>1, <2>4, <2>5, <2>6
    <3>2. calls[t].op = "publish"
          => \E s \in 1 .. Len(log) : Copies(t) = {s} /\ calls[t].got \subseteq {s}
      BY <2>1, <2>3, <2>6 DEF PubInv, Answered
    <3> QED
      BY <1>1, <2>1, <2>2, <2>4, <2>6, <3>1, <3>2 DEF PubInv
  <2> QED
    BY <2>1, <2>6, PubFailed
<1> QED
  BY <1>2, <1>3 DEF End

LEMMA ServedPub ==
  ASSUME IInv, NEW t \in Tickets, PubInv(t), Serve(t)
  PROVE  PubInv(t)'
<1>1. CASE ServePublish(t)
  <2>1. PICK subject \in calls[t].filter : Appended(subject, {t}, TRUE)
    BY <1>1 DEF ServePublish
  <2>2. calls[t].net = "request" /\ Reply(t, "ok", {Len(log) + 1})
    BY <1>1 DEF ServePublish, Request
  <2>3. Copies(t) = {}
    BY <2>2 DEF PubInv
  <2>4. /\ Len(log') = Len(log) + 1 /\ Len(log) \in Nat
        /\ Copies(t)' = Copies(t) \cup {Len(log) + 1}
    BY <2>1, AppendedCopies DEF IInv
  <2>5. Copies(t)' = {Len(log) + 1} /\ Len(log) + 1 \in 1 .. Len(log')
    BY <2>3, <2>4
  <2> QED
    BY <2>2, <2>5, ReplyPub
<1>2. CASE ~ServePublish(t)
  <2>1. PICK status, got :
          /\ calls[t].net = "request" /\ Reply(t, status, got)
          /\ calls[t].op # "publish" \/ status # "ok"
    BY <1>2 DEF Serve, ServePub, ServeCreate, ServeFetch, ServeAck, ServeNack,
                ServeDelete, Refuse, Request
  <2> QED
    BY <2>1, ReplyPub
<1> QED
  BY <1>1, <1>2

\* The copies of a call are no business of the other calls.
LEMMA OthersPub ==
  ASSUME IInv, NEW t \in Tickets, NEW u \in Tickets \ {t}, PubInv(u),
         Serve(t) \/ End(t) \/ \E w \in Workers : Begin(t, w)
  PROVE  PubInv(u)'
<1>1. Len(log) \in Nat
  BY DEF IInv, TypeOK
<1>2. calls'[u] = calls[u]
  <2>1. CASE Serve(t)
    BY <2>1, ReplyHanded
       DEF Serve, ServePublish, ServePub, ServeCreate, ServeFetch, ServeAck,
           ServeNack, ServeDelete, Refuse, Request, OnlyRow
  <2>2. CASE End(t)
    BY <2>2, EndRow DEF OnlyRow
  <2>3. CASE \E w \in Workers : Begin(t, w)
    BY <2>3, BeginRow DEF OpenedAs, IInv, TypeOK
  <2> QED
    BY <2>1, <2>2, <2>3
<1>3. Copies(u)' = Copies(u) /\ Len(log') >= Len(log)
  <2>1. CASE UNCHANGED log
    BY <1>1, <2>1 DEF Copies
  <2>2. CASE ServePublish(t)
    <3>1. PICK subject \in calls[t].filter : Appended(subject, {t}, TRUE)
      BY <2>2 DEF ServePublish
    <3>2. Len(log') = Len(log) + 1 /\ Copies(u)' = Copies(u)
      BY <3>1, AppendedCopies DEF IInv
    <3> QED
      BY <1>1, <3>2
  <2>3. UNCHANGED log \/ ServePublish(t)
    BY BeginRow, EndRow
       DEF Serve, ServePub, ServeCreate, ServeFetch, ServeAck, ServeNack,
           ServeDelete, Refuse
  <2> QED
    BY <2>1, <2>2, <2>3
<1> QED
  BY <1>1, <1>2, <1>3, PubSame

\* A nil error from Publish means one copy in the stream, at the Seq reported.
THEOREM PublishTrue == Spec => []PublishedOnce
<1> DEFINE Inv == \A t \in Tickets : PubInv(t)
<1>1. Init => Inv
  BY DEF Init, PubInv, Copies, UnusedRow, Answered, Returned
<1>2. IInv /\ Inv /\ [Next]_vars => Inv'
  <2> SUFFICES ASSUME IInv, Inv, [Next]_vars, NEW u \in Tickets
               PROVE  PubInv(u)'
    OBVIOUS
  <2>1. Len(log) \in Nat /\ TypeOK
    BY DEF IInv, TypeOK
  <2>2. ASSUME NEW t \in Tickets, NEW w \in Workers, Begin(t, w)
        PROVE  PubInv(u)'
    BY <2>1, <2>2, BeginPub, OthersPub
  <2>3. ASSUME NEW t \in Tickets, Serve(t) \/ End(t)
        PROVE  PubInv(u)'
    BY <2>3, ServedPub, EndPub, OthersPub
  <2>4. CASE UNCHANGED <<log, calls>>
    BY <2>1, <2>4, PubSame DEF Copies
  <2>5. CASE \E subject \in Subjects : ForeignPublish(subject)
    <3>1. PICK subject, good : Appended(subject, {}, good) /\ UNCHANGED calls
      BY <2>5 DEF ForeignPublish
    <3>2. Copies(u)' = Copies(u) /\ Len(log') = Len(log) + 1
      BY <2>1, <3>1, AppendedCopies
    <3> QED
      BY <2>1, <3>1, <3>2, PubSame
  <2> QED
    BY <2>2, <2>3, <2>4, <2>5 DEF Next, Expire, vars
<1>3. IInv /\ Inv => PublishedOnce
  <2> SUFFICES ASSUME IInv, Inv, NEW t \in Tickets,
                      calls[t].op = "publish", Returned(t)
               PROVE  \E s \in 1 .. Len(log) :
                        Copies(t) = {s} /\ calls[t].got \subseteq {s}
    BY DEF PublishedOnce
  <2>1. RowInv(t) /\ PubInv(t)
    BY DEF IInv
  <2>2. Answered(t)
    BY <2>1 DEF RowInv, Answered
  <2> QED
    BY <2>1, <2>2 DEF PubInv
<1> QED
  BY <1>1, <1>2, <1>3, InductiveInvariant, PTL DEF Spec
-----------------------------------------------------------------------------
(***************************************************************************)
(* Filters.  An answered create or fetch speaks of the consumer that was   *)
(* there when it was served; a consumer keeps its filter until it is       *)
(* created anew, with a generation that no earlier answer has.             *)
(***************************************************************************)
\* A call that still says what it said, or less.
StillSays(u) ==
  Answered(u)' =>
    /\ Answered(u) /\ calls'[u].op = calls[u].op /\ calls'[u].gen = calls[u].gen
    /\ calls'[u].filter = calls[u].filter /\ calls'[u].got \subseteq calls[u].got

\* A call that is answered by the consumer that is there.
Joins(u) == calls'[u].gen = cons'.gen /\ FilteredAs(u, cons.filter)'

LogGrows == Len(log) <= Len(log') /\ \A s \in 1 .. Len(log) : log'[s] = log[s]

\* What a call says of a filter stays true.
LEMMA SaysStill ==
  ASSUME IInv, LogGrows, NEW u \in Tickets, StillSays(u), Answered(u)',
         NEW filter, FilteredAs(u, filter)
  PROVE  /\ calls'[u].op = "create" => calls'[u].filter = filter
         /\ calls'[u].op = "fetch" => \A s \in calls'[u].got : log'[s].subject \in filter
<1>1. Answered(u) /\ RowInv(u)
  BY DEF StillSays, IInv
<1>2. calls[u].op = "fetch" => calls[u].got \subseteq 1 .. Len(log)
  BY <1>1 DEF RowInv
<1> QED
  BY <1>1, <1>2 DEF StillSays, FilteredAs, LogGrows

\* A step that does not create the consumer anew.
LEMMA SameConsumer ==
  ASSUME IInv, FilterInv, LogGrows,
         cons'.gen = cons.gen, cons'.filter = cons.filter,
         \A u \in Tickets : StillSays(u) \/ Joins(u)
  PROVE  FilterInv'
<1>1. cons.gen \in Nat
  BY DEF IInv, TypeOK, Consumer
<1>2. ASSUME NEW u \in Tickets, Answered(u)'
      PROVE  /\ calls'[u].gen <= cons'.gen
             /\ calls'[u].gen = cons'.gen => FilteredAs(u, cons.filter)'
  <2>1. CASE Joins(u)
    BY <1>1, <2>1 DEF Joins
  <2>2. CASE StillSays(u)
    BY <1>2, <2>2, SaysStill DEF FilterInv, StillSays, FilteredAs
  <2> QED
    BY <2>1, <2>2
<1>3. ASSUME NEW c \in Tickets, NEW t \in Tickets,
             Answered(c)', calls'[c].op = "create",
             Answered(t)', calls'[t].gen = calls'[c].gen
      PROVE  FilteredAs(t, calls[c].filter)'
  <2>1. CASE calls'[c].gen = cons'.gen
    <3>1. FilteredAs(c, cons.filter)' /\ FilteredAs(t, cons.filter)'
      BY <1>2, <1>3, <2>1
    <3>2. calls'[c].filter = cons'.filter
      BY <1>3, <3>1 DEF FilteredAs
    <3> QED
      BY <3>1, <3>2 DEF FilteredAs
  <2>2. CASE calls'[c].gen # cons'.gen
    <3>1. StillSays(c) /\ StillSays(t)
      BY <1>3, <2>2 DEF Joins
    <3>2. FilteredAs(t, calls[c].filter) /\ calls'[c].filter = calls[c].filter
      BY <1>3, <3>1 DEF FilterInv, StillSays
    <3> QED
      BY <1>3, <3>1, <3>2, SaysStill DEF FilteredAs
  <2> QED
    BY <2>1, <2>2
<1> QED
  BY <1>2, <1>3 DEF FilterInv

\* A step that does.
LEMMA NewConsumer ==
  ASSUME IInv, FilterInv, UNCHANGED log, NEW t \in Tickets, OnlyRow(t),
         cons'.gen = cons.gen + 1,
         Answered(t)' => /\ calls'[t].gen = cons'.gen /\ calls'[t].op = "create"
                         /\ calls'[t].filter = cons'.filter
  PROVE  FilterInv'
<1>1. cons.gen \in Nat
  BY DEF IInv, TypeOK, Consumer
<1>2. ASSUME NEW u \in Tickets \ {t}
      PROVE  /\ Answered(u)' = Answered(u) /\ calls'[u] = calls[u]
             /\ Answered(u) => calls[u].gen <= cons.gen /\ calls[u].gen \in Nat
             /\ \A filter : FilteredAs(u, filter) =>
                  /\ calls'[u].op = "create" => calls'[u].filter = filter
                  /\ calls'[u].op = "fetch" =>
                       \A s \in calls'[u].got : log'[s].subject \in filter
  BY DEF OnlyRow, Answered, Returned, FilteredAs, FilterInv, IInv, TypeOK, Row
<1>3. Answered(t)' => FilteredAs(t, cons.filter)' /\ cons'.gen = cons.gen + 1
  BY DEF FilteredAs
<1>4. \A u \in Tickets : Answered(u)' =>
        /\ calls'[u].gen <= cons'.gen
        /\ calls'[u].gen = cons'.gen => u = t
  BY <1>1, <1>2
<1>5. ASSUME NEW c \in Tickets, NEW u \in Tickets,
             Answered(c)', calls'[c].op = "create",
             Answered(u)', calls'[u].gen = calls'[c].gen
      PROVE  FilteredAs(u, calls[c].filter)'
  <2>1. CASE c = t
    <3>1. u = t
      BY <1>4, <1>5, <2>1
    <3> QED
      BY <1>5, <2>1, <3>1 DEF FilteredAs
  <2>2. CASE c # t
    <3>1. u # t
      BY <1>4, <1>5, <2>2
    <3>2. FilteredAs(u, calls[c].filter) /\ calls'[c].filter = calls[c].filter
      BY <1>2, <1>5, <2>2, <3>1 DEF FilterInv
    <3> QED
      BY <1>2, <3>1, <3>2 DEF FilteredAs
  <2> QED
    BY <2>1, <2>2
<1> QED
  BY <1>3, <1>4, <1>5 DEF FilterInv

\* The rows of a step that answers a request.
LEMMA ReplySays ==
  ASSUME IInv, NEW t \in Tickets, NEW status, NEW got,
         calls[t].net = "request", Reply(t, status, got)
  PROVE  /\ OnlyRow(t) /\ \A u \in Tickets \ {t} : StillSays(u)
         /\ Answered(t)' => /\ status = "ok" /\ calls'[t].gen = cons'.gen
                            /\ calls'[t].op = calls[t].op /\ calls'[t].got = got
                            /\ calls'[t].filter = calls[t].filter
<1>1. OnlyRow(t)
  BY ReplyHanded
<1>2. \A u \in Tickets \ {t} : StillSays(u)
  BY <1>1 DEF OnlyRow, StillSays, Answered, Returned
<1>3. CASE calls[t].outcome = "pending"
  <2> DEFINE row == [calls[t] EXCEPT !.net = "reply", !.status = status,
                                     !.gen = cons'.gen, !.got = got]
  <2>1. calls'[t] = row /\ calls[t] \in Row
    BY <1>3 DEF Reply, IInv, TypeOK
  <2>2. /\ row.op = calls[t].op /\ row.status = status /\ row.gen = cons'.gen
        /\ row.got = got /\ row.filter = calls[t].filter
    BY <2>1 DEF Row
  <2> HIDE DEF row
  <2> QED
    BY <1>1, <1>2, <2>1, <2>2 DEF Answered
<1>4. CASE calls[t].outcome # "pending"
  BY <1>1, <1>2, <1>4 DEF Reply, Answered, FailedRow, UnusedRow, IInv, TypeOK
<1> QED
  BY <1>3, <1>4

LEMMA ServeFilter ==
  ASSUME IInv, FilterInv, NEW t \in Tickets, Serve(t)
  PROVE  FilterInv'
<1>1. cons \in Consumer /\ Len(log) \in Nat
  BY DEF IInv, TypeOK
<1>2. CASE ServeCreate(t) /\ ~cons.live
  <2>1. /\ calls[t].net = "request" /\ calls[t].op = "create" /\ Reply(t, "ok", {})
        /\ UNCHANGED log /\ cons'.gen = cons.gen + 1 /\ cons'.filter = calls[t].filter
    BY <1>2 DEF ServeCreate, Request, Fresh
  <2> QED
    BY <2>1, ReplySays, NewConsumer
<1>3. CASE ServeFetch(t)
  <2> DEFINE got == Oldest(calls[t].n)
  <2>1. /\ calls[t].net = "request" /\ calls[t].op = "fetch" /\ Reply(t, "ok", got)
        /\ UNCHANGED log /\ cons'.gen = cons.gen /\ cons'.filter = cons.filter
    BY <1>1, <1>3 DEF ServeFetch, Request, Consumer
  <2>2. \A s \in got : log[s].subject \in cons.filter
    BY DEF Oldest, Deliverable
  <2> HIDE DEF got
  <2>3. StillSays(t) \/ Joins(t)
    BY <2>1, <2>2, ReplySays DEF StillSays, Joins, FilteredAs
  <2> QED
    BY <1>1, <2>1, <2>3, ReplySays, SameConsumer DEF LogGrows
<1>4. CASE ServePublish(t)
  <2>1. PICK subject \in calls[t].filter : Appended(subject, {t}, TRUE)
    BY <1>4 DEF ServePublish
  <2>2. LogGrows /\ UNCHANGED cons
    BY <1>1, <2>1 DEF Appended, LogGrows, IInv, TypeOK
  <2>3. /\ calls[t].net = "request" /\ calls[t].op = "publish"
        /\ Reply(t, "ok", {Len(log) + 1})
    BY <1>4 DEF ServePublish, Request
  <2>4. StillSays(t) \/ Joins(t)
    BY <2>3, ReplySays DEF StillSays, Joins, FilteredAs
  <2> QED
    BY <2>2, <2>3, <2>4, ReplySays, SameConsumer
<1>5. CASE \/ (ServeCreate(t) /\ cons.live) \/ ServePub(t) \/ ServeAck(t)
           \/ ServeNack(t) \/ ServeDelete(t) \/ Refuse(t)
  <2>1. PICK status : /\ calls[t].net = "request" /\ Reply(t, status, {})
                      /\ calls[t].op \in {"create", "fetch"} => status # "ok"
    BY <1>5 DEF ServeCreate, ServePub, ServeAck, ServeNack, ServeDelete, Refuse, Request
  <2>2. UNCHANGED log /\ cons'.gen = cons.gen /\ cons'.filter = cons.filter
    BY <1>1, <1>5 DEF ServeCreate, ServePub, ServeAck, ServeNack, ServeDelete, Refuse,
                      Consumer
  <2>3. StillSays(t) \/ Joins(t)
    BY <2>1, ReplySays DEF StillSays, Joins, FilteredAs
  <2> QED
    BY <1>1, <2>1, <2>2, <2>3, ReplySays, SameConsumer DEF LogGrows
<1> QED
  BY <1>2, <1>3, <1>4, <1>5 DEF Serve

LEMMA EndFilter ==
  ASSUME IInv, FilterInv, NEW t \in Tickets, End(t)
  PROVE  FilterInv'
<1>1. UNCHANGED <<log, cons>> /\ OnlyRow(t) /\ Len(log) \in Nat /\ calls[t] \in Row
  BY EndRow DEF IInv, TypeOK
<1>2. \A u \in Tickets \ {t} : StillSays(u)
  BY <1>1 DEF OnlyRow, StillSays, Answered, Returned
<1>3. StillSays(t)
  <2>1. CASE GiveUp(t)
    BY <1>1, <2>1 DEF GiveUp, StillSays, Answered, Returned, FailedRow, UnusedRow,
                      IInv, TypeOK, Row
  <2>2. ASSUME NEW body \in Bodies, Return(t, body)
        PROVE  StillSays(t)
    <3> DEFINE got == Received(calls[t], body)
               outcome == Outcome(calls[t], body)
               row == [calls[t] EXCEPT !.net = "none", !.outcome = outcome, !.got = got]
    <3>1. /\ calls[t].net = "reply"
          /\ calls'[t] = row \/ calls'[t] = FailedRow
      BY <2>2 DEF Return, IInv, TypeOK
    <3>2. got \subseteq calls[t].got
      BY DEF Received
    <3> HIDE DEF got, outcome
    <3>3. /\ row.op = calls[t].op /\ row.gen = calls[t].gen /\ row.got = got
          /\ row.filter = calls[t].filter /\ row.status = calls[t].status
      BY <1>1 DEF Row
    <3> HIDE DEF row
    <3> QED
      BY <3>1, <3>2, <3>3 DEF StillSays, Answered, FailedRow, UnusedRow
  <2> QED
    BY <2>1, <2>2 DEF End
<1> QED
  BY <1>1, <1>2, <1>3, SameConsumer DEF LogGrows

LEMMA BeginFilter ==
  ASSUME IInv, FilterInv, NEW t \in Tickets, NEW w \in Workers, Begin(t, w)
  PROVE  FilterInv'
<1>1. UNCHANGED <<log, cons>> /\ Len(log) \in Nat
  BY BeginRow DEF IInv, TypeOK
<1>2. \A u \in Tickets \ {t} : calls'[u] = calls[u]
  BY BeginRow DEF OpenedAs, IInv, TypeOK
<1>3. ~Answered(t)'
  BY BeginRow DEF OpenedAs, Sent, FailedRow, UnusedRow, Answered, IInv, TypeOK
<1>4. \A u \in Tickets : StillSays(u)
  BY <1>2, <1>3 DEF StillSays, Answered, Returned
<1> QED
  BY <1>1, <1>4, SameConsumer DEF LogGrows

\* Nothing but a served request makes a call return in full.
LEMMA FullStep ==
  ASSUME IInv, FullIsAnswered, [Next]_vars
  PROVE  FullIsAnswered'
<1>1. ASSUME NEW t \in Tickets, OnlyRow(t),
             calls'[t].outcome = "ok" => calls'[t].status = "ok"
      PROVE  FullIsAnswered'
  BY <1>1 DEF OnlyRow, FullIsAnswered
<1>2. ASSUME NEW t \in Tickets, NEW w \in Workers, Begin(t, w)
      PROVE  FullIsAnswered'
  <2>1. OnlyRow(t) /\ calls'[t].outcome # "ok"
    BY <1>2, BeginRow DEF OnlyRow, OpenedAs, Sent, FailedRow, UnusedRow, IInv, TypeOK
  <2> QED
    BY <1>1, <2>1
<1>3. ASSUME NEW t \in Tickets, Serve(t)
      PROVE  FullIsAnswered'
  <2>1. PICK status, got : calls[t].net = "request" /\ Reply(t, status, got)
    BY <1>3 DEF Serve, ServePublish, ServePub, ServeCreate, ServeFetch, ServeAck,
                ServeNack, ServeDelete, Refuse, Request
  <2>2. OnlyRow(t) /\ calls[t] \in Row
    BY <2>1, ReplyHanded DEF IInv, TypeOK
  <2>3. calls'[t].outcome # "ok"
    <3> DEFINE row == [calls[t] EXCEPT !.net = "reply", !.status = status,
                                       !.gen = cons'.gen, !.got = got]
    <3>1. \/ calls[t].outcome = "pending" /\ calls'[t] = row
          \/ calls'[t] = FailedRow
      BY <2>1 DEF Reply, IInv, TypeOK
    <3>2. row.outcome = calls[t].outcome
      BY <2>2 DEF Row
    <3> HIDE DEF row
    <3> QED
      BY <3>1, <3>2 DEF FailedRow, UnusedRow
  <2> QED
    BY <1>1, <2>2, <2>3
<1>4. ASSUME NEW t \in Tickets, End(t)
      PROVE  FullIsAnswered'
  <2>1. OnlyRow(t) /\ calls[t] \in Row
    BY <1>4, EndRow DEF IInv, TypeOK
  <2>2. CASE GiveUp(t)
    <3>1. calls'[t].outcome = "error"
      BY <2>1, <2>2 DEF GiveUp, FailedRow, UnusedRow, IInv, TypeOK, Row
    <3> QED
      BY <1>1, <2>1, <3>1
  <2>3. ASSUME NEW body \in Bodies, Return(t, body)
        PROVE  FullIsAnswered'
    <3> DEFINE got == Received(calls[t], body)
               outcome == Outcome(calls[t], body)
               row == [calls[t] EXCEPT !.net = "none", !.outcome = outcome, !.got = got]
    <3>1. calls'[t] = row \/ calls'[t] = FailedRow
      BY <2>3 DEF Return, IInv, TypeOK
    <3>2. outcome = "ok" => calls[t].status = "ok"
      BY DEF Outcome, CreateOutcome, FetchOutcome, DoJSON
    <3> HIDE DEF got, outcome
    <3>3. row.outcome = outcome /\ row.status = calls[t].status
      BY <2>1 DEF Row
    <3> HIDE DEF row
    <3> QED
      BY <1>1, <2>1, <3>1, <3>2, <3>3 DEF FailedRow, UnusedRow
  <2> QED
    BY <1>4, <2>2, <2>3 DEF End
<1>5. CASE UNCHANGED calls
  BY <1>5 DEF FullIsAnswered
<1> QED
  BY <1>2, <1>3, <1>4, <1>5 DEF Next, Expire, ForeignPublish, vars

\* Full ConsumerInfo is true of every fetch from the consumer it describes.
THEOREM FilterTrue == Spec => []FullInfoFilters
<1>1. Init => FilterInv /\ FullIsAnswered
  BY DEF Init, FilterInv, FullIsAnswered, UnusedRow, Answered
<1>2. IInv /\ FilterInv /\ [Next]_vars => FilterInv'
  <2> SUFFICES ASSUME IInv, FilterInv, [Next]_vars PROVE FilterInv'
    OBVIOUS
  <2>1. Len(log) \in Nat /\ cons \in Consumer
    BY DEF IInv, TypeOK
  <2>2. CASE \E t \in Tickets, w \in Workers : Begin(t, w)
    BY <2>2, BeginFilter
  <2>3. CASE \E t \in Tickets : Serve(t) \/ End(t)
    BY <2>3, ServeFilter, EndFilter
  <2>4. ASSUME UNCHANGED calls, LogGrows,
               cons'.gen = cons.gen, cons'.filter = cons.filter
        PROVE  FilterInv'
    <3>1. \A u \in Tickets : StillSays(u)
      BY <2>4 DEF StillSays, Answered, Returned
    <3> QED
      BY <2>4, <3>1, SameConsumer
  <2>5. CASE \E s \in Seqs : Expire(s)
    BY <2>1, <2>4, <2>5 DEF Expire, Consumer, LogGrows
  <2>6. CASE \E subject \in Subjects : ForeignPublish(subject)
    BY <2>1, <2>4, <2>6 DEF ForeignPublish, Appended, LogGrows, IInv, TypeOK
  <2>7. CASE UNCHANGED vars
    BY <2>1, <2>4, <2>7 DEF vars, LogGrows
  <2> QED
    BY <2>2, <2>3, <2>5, <2>6, <2>7 DEF Next
<1>3. IInv /\ FullIsAnswered /\ [Next]_vars => FullIsAnswered'
  BY FullStep
<1>4. IInv /\ FilterInv /\ FullIsAnswered => FullInfoFilters
  <2> SUFFICES ASSUME IInv, FilterInv, FullIsAnswered, NEW c \in Tickets, NEW t \in Tickets,
                      calls[c].op = "create", calls[c].outcome = "ok",
                      HandedBy(t), calls[t].gen = calls[c].gen
               PROVE  \A s \in calls[t].got : log[s].subject \in calls[c].filter
    BY DEF FullInfoFilters
  <2>1. Answered(t) /\ calls[t].op = "fetch"
    BY DEF IInv, RowInv, HandedBy, Answered
  <2>2. Answered(c)
    BY DEF FullIsAnswered, Answered, Returned
  <2> QED
    BY <2>1, <2>2 DEF FilterInv, FilteredAs
<1> QED
  BY <1>1, <1>2, <1>3, <1>4, InductiveInvariant, PTL DEF Spec
-----------------------------------------------------------------------------
(***************************************************************************)
(* Refinement.  Opening a call and most of the broker's steps stutter;     *)
(* serving a publish accepts, serving an ack records, and the return of a  *)
(* fetch or of an ack hands over or confirms.                              *)
(***************************************************************************)
LEMMA HandedSame ==
  ASSUME NEW t \in Tickets, OnlyRow(t), ~HandedBy(t), ~HandedBy(t)'
  PROVE  AllHanded' = AllHanded
  BY DEF OnlyRow, AllHanded, HandedBy, Returned

LEMMA SettledSame ==
  ASSUME NEW t \in Tickets, OnlyRow(t), ~AckReturned(t), ~AckReturned(t)'
  PROVE  Settled' = Settled
<1>1. \A u \in Tickets : /\ AckReturned(u)' = AckReturned(u)
                         /\ AckReturned(u) => calls'[u] = calls[u]
  BY DEF OnlyRow, AckReturned, Returned
<1>2. {u \in Tickets : AckReturned(u)}' = {u \in Tickets : AckReturned(u)}
  BY <1>1
<1> QED
  BY <1>1, <1>2 DEF Settled

LEMMA SettledGrows ==
  ASSUME NEW t \in Tickets, OnlyRow(t), ~AckReturned(t)
  PROVE  Settled \subseteq Settled'
<1>1. \A u \in Tickets : AckReturned(u) => AckReturned(u)' /\ calls'[u] = calls[u]
  BY DEF OnlyRow, AckReturned, Returned
<1> QED
  BY <1>1 DEF Settled

LEMMA BeginStutters ==
  ASSUME IInv, NEW t \in Tickets, NEW w \in Workers, Begin(t, w)
  PROVE  UNCHANGED <<log, AllHanded, stored, Settled>>
<1>1. calls[t] = UnusedRow /\ UNCHANGED <<log, stored>>
  BY BeginRow
<1>2. OnlyRow(t) /\ ~Returned(t)'
  BY BeginRow DEF OnlyRow, OpenedAs, Sent, FailedRow, UnusedRow, Returned,
                  IInv, TypeOK
<1>3. ~Returned(t)
  BY <1>1 DEF Returned, UnusedRow
<1> QED
  BY <1>1, <1>2, <1>3, HandedSame, SettledSame DEF HandedBy, AckReturned

LEMMA ReplyStutters ==
  ASSUME IInv, NEW t \in Tickets, NEW status, NEW got,
         calls[t].net = "request", Reply(t, status, got)
  PROVE  UNCHANGED <<AllHanded, Settled>>
<1>1. OnlyRow(t) /\ ~Returned(t)
  BY ReplyHanded DEF IInv, RowInv
<1>2. ~Returned(t)'
  <2>1. CASE calls[t].outcome = "pending"
    <3> DEFINE row == [calls[t] EXCEPT !.net = "reply", !.status = status,
                                       !.gen = cons'.gen, !.got = got]
    <3>1. calls'[t] = row /\ calls[t] \in Row
      BY <2>1 DEF Reply, IInv, TypeOK
    <3>2. row.outcome = "pending"
      BY <2>1, <3>1 DEF Row
    <3> QED
      BY <3>1, <3>2 DEF Returned
  <2>2. CASE calls[t].outcome # "pending"
    BY <2>2 DEF Reply, Returned, FailedRow, UnusedRow, IInv, TypeOK
  <2> QED
    BY <2>1, <2>2
<1> QED
  BY <1>1, <1>2, HandedSame, SettledSame DEF HandedBy, AckReturned

LEMMA ServeRefines ==
  ASSUME IInv, IInv', NEW t \in Tickets, Serve(t)
  PROVE  \/ Queue!Accept \/ Queue!Record
         \/ UNCHANGED <<log, AllHanded, stored, Settled>>
<1>1. PICK status, got : calls[t].net = "request" /\ Reply(t, status, got)
  BY DEF Serve, ServePublish, ServePub, ServeCreate, ServeFetch, ServeAck,
         ServeNack, ServeDelete, Refuse, Request
<1>2. UNCHANGED <<AllHanded, Settled>>
  BY <1>1, ReplyStutters
<1>3. CASE ServePublish(t)
  <2>1. /\ Len(log') = Len(log) + 1
        /\ \A s \in 1 .. Len(log) : log'[s] = log[s]
        /\ UNCHANGED stored
    BY <1>3 DEF ServePublish, Appended, IInv, TypeOK
  <2> QED
    BY <1>2, <2>1 DEF Queue!Accept
<1>4. CASE ServeAck(t)
  <2>1. stored \subseteq stored' /\ UNCHANGED log
    BY <1>4 DEF ServeAck
  <2>2. \A p \in stored' : p[2] \in AllHanded
    BY <1>2 DEF IInv, StoredInv
  <2> QED
    BY <1>2, <2>1, <2>2 DEF Queue!Record
<1>5. CASE \/ ServePub(t) \/ ServeCreate(t) \/ ServeFetch(t) \/ ServeNack(t)
           \/ ServeDelete(t) \/ Refuse(t)
  BY <1>2, <1>5 DEF ServePub, ServeCreate, ServeFetch, ServeNack, ServeDelete,
                    Refuse
<1> QED
  BY <1>3, <1>4, <1>5 DEF Serve

LEMMA EndRefines ==
  ASSUME IInv, IInv', NEW t \in Tickets, End(t)
  PROVE  \/ Queue!Hand \/ Queue!Confirm
         \/ UNCHANGED <<log, AllHanded, stored, Settled>>
<1>1. UNCHANGED <<log, stored>> /\ OnlyRow(t) /\ ~HandedBy(t)
  BY EndRow
<1>2. ~AckReturned(t)
  BY DEF End, GiveUp, Return, AckReturned, Returned
<1>3. CASE HandedBy(t)'
  <2>1. UNCHANGED Settled
    BY <1>1, <1>2, <1>3, SettledSame DEF HandedBy, AckReturned
  <2>2. AllHanded \subseteq AllHanded'
    BY <1>1, HandedGrows
  <2>3. \A s \in AllHanded' : s \in 1 .. Len(log) /\ log[s].good
    <3> SUFFICES ASSUME NEW s \in AllHanded'
                 PROVE  s \in 1 .. Len(log) /\ log[s].good
      OBVIOUS
    <3>1. PICK u \in Tickets : HandedBy(u)' /\ s \in calls'[u].got
      BY DEF AllHanded
    <3>2. RowInv(u)'
      BY DEF IInv
    <3> QED
      BY <1>1, <3>1, <3>2 DEF RowInv, HandedBy, Answered, AllDecodable
  <2> QED
    BY <1>1, <2>1, <2>2, <2>3 DEF Queue!Hand
<1>4. CASE AckReturned(t)'
  <2>1. UNCHANGED AllHanded
    BY <1>1, <1>4, HandedSame DEF HandedBy, AckReturned
  <2>2. Settled' \subseteq stored'
    <3>1. \A u \in Tickets : RowInv(u)'
      BY DEF IInv
    <3> QED
      BY <3>1 DEF Settled, AckReturned, RowInv, Answered
  <2>3. Settled \subseteq Settled'
    BY <1>1, <1>2, SettledGrows
  <2> QED
    BY <1>1, <2>1, <2>2, <2>3 DEF Queue!Confirm
<1>5. CASE ~HandedBy(t)' /\ ~AckReturned(t)'
  BY <1>1, <1>2, <1>5, HandedSame, SettledSame
<1> QED
  BY <1>3, <1>4, <1>5

\* Publish, fetch, ack and their kin implement the at-least-once work queue,
\* whatever the network and the deadlines do.
THEOREM Refinement == Spec => ImplementsWorkQueue
<1>1. Init => Queue!WQInit
  BY DEF Init, Queue!WQInit, AllHanded, HandedBy, Settled, AckReturned,
         Returned, UnusedRow
<1>2. IInv /\ IInv' /\ [Next]_vars => [Queue!WQNext]_(Queue!wqVars)
  <2> SUFFICES ASSUME IInv, IInv', [Next]_vars
               PROVE  Queue!WQNext \/ UNCHANGED <<log, AllHanded, stored, Settled>>
    BY DEF Queue!wqVars
  <2>1. CASE \E t \in Tickets, w \in Workers : Begin(t, w)
    BY <2>1, BeginStutters
  <2>2. CASE \E t \in Tickets : Serve(t) \/ End(t)
    BY <2>2, ServeRefines, EndRefines DEF Queue!WQNext
  <2>3. CASE \E s \in Seqs : Expire(s)
    BY <2>3 DEF Expire, AllHanded, HandedBy, Settled, AckReturned, Returned
  <2>4. CASE \E subject \in Subjects : ForeignPublish(subject)
    <3>1. UNCHANGED <<calls, stored>> /\ Len(log') = Len(log) + 1
          /\ \A s \in 1 .. Len(log) : log'[s] = log[s]
      BY <2>4 DEF ForeignPublish, Appended, IInv, TypeOK
    <3>2. UNCHANGED <<AllHanded, Settled>>
      BY <3>1 DEF AllHanded, HandedBy, Settled, AckReturned, Returned
    <3> QED
      BY <3>1, <3>2 DEF Queue!WQNext, Queue!Accept
  <2>5. CASE UNCHANGED vars
    BY <2>5 DEF vars, AllHanded, HandedBy, Settled, AckReturned, Returned
  <2> QED
    BY <2>1, <2>2, <2>3, <2>4, <2>5 DEF Next
<1> QED
  BY <1>1, <1>2, InductiveInvariant, PTL
     DEF Spec, ImplementsWorkQueue, Queue!WQSpec
=============================================================================
