---------------------------- MODULE PullLoopProofs ----------------------------
(* Safety of PullLoop, for every bound on the cycles, every batch and every  *)
(* backlog.                                                                  *)
EXTENDS PullLoop, FiniteSetTheorems, TLAPS

Ops == {"create", "publish", "fetch", "ack", "delete"}

LEMMA SeqsFinite == IsFiniteSet(Seqs)
<1>1. 1 \in Int /\ Backlog + MaxLoops \in Int
  BY ParamAssumption
<1> QED
  BY <1>1, FS_Interval DEF Seqs

\* The bounds that Made keeps to.
LEMMA MadeBound ==
  ASSUME TypeOK, Shape
  PROVE  Made \in Nat /\ Made <= Planned /\ Planned \in Nat /\ Planned <= MaxLoops
<1>1. conf.loops \in Nat /\ conf.loops >= 1 /\ conf.loops <= MaxLoops /\ conf.each \in BOOLEAN
      /\ conf.publish \in BOOLEAN
  BY ParamAssumption DEF TypeOK, Settings
<1>2. cycle \in Nat /\ cycle >= 1
  BY <1>1 DEF TypeOK
<1>3. pc \in {"each", "fetch", "ack"} => cycle <= conf.loops
  BY DEF Shape
<1> QED
  BY <1>1, <1>2, <1>3, ParamAssumption DEF Made, Planned

LEMMA AskedTyped == ASSUME TypeOK PROVE Asked \subseteq Seqs
  BY DEF Asked, TypeOK, OnTheWay, Request

LEMMA AskedFinite ==
  ASSUME TypeOK, NEW S \in SUBSET Seqs PROVE IsFiniteSet(Asked \cup S)
<1>1. Asked \cup S \subseteq Seqs
  BY AskedTyped
<1> QED
  BY <1>1, SeqsFinite, FS_Subset

\* A request of the program is one of the requests.
LEMMA RequestTyped ==
  ASSUME TypeOK, NEW op \in Ops, NEW seqs \in SUBSET Seqs
  PROVE  /\ NewRequest(op, seqs) \in Request
         /\ NewRequest(op, seqs).op = op /\ NewRequest(op, seqs).seqs = seqs
<1>1. cycle \in 0 .. MaxLoops + 1
  BY ParamAssumption DEF TypeOK, Settings
<1> QED
  BY <1>1 DEF NewRequest, Request, Ops

LEMMA OnTheWayFinite ==
  ASSUME IsFiniteSet(late), NEW op
  PROVE  IsFiniteSet(OnTheWay(op)) /\ Cardinality(OnTheWay(op)) \in Nat
<1>1. OnTheWay(op) \subseteq late
  BY DEF OnTheWay
<1> QED
  BY <1>1, FS_Subset, FS_CardinalityType

\* What a request that is on its way, lost or served does to late.
LEMMA Sends ==
  ASSUME TypeOK, IsFiniteSet(late), NEW req \in Request,
         late' = late \/ late' = late \cup {req}
  PROVE  /\ late' \subseteq Request /\ IsFiniteSet(late')
         /\ \A op \in Ops : op # req.op => OnTheWay(op)' = OnTheWay(op)
         /\ \/ OnTheWay(req.op)' = OnTheWay(req.op)
            \/ OnTheWay(req.op)' = OnTheWay(req.op) \cup {req}
         /\ Cardinality(OnTheWay(req.op)') \in Nat
         /\ Cardinality(OnTheWay(req.op)') <= Cardinality(OnTheWay(req.op)) + 1
<1>1. late' \subseteq Request
  BY DEF TypeOK
<1>2. IsFiniteSet(late')
  BY FS_AddElement
<1>3. \A op \in Ops : op # req.op => OnTheWay(op)' = OnTheWay(op)
  BY DEF OnTheWay
<1>4. \/ OnTheWay(req.op)' = OnTheWay(req.op)
      \/ OnTheWay(req.op)' = OnTheWay(req.op) \cup {req}
  BY DEF OnTheWay
<1>5. IsFiniteSet(OnTheWay(req.op)) /\ Cardinality(OnTheWay(req.op)) \in Nat
  BY OnTheWayFinite
<1>6. /\ Cardinality(OnTheWay(req.op)') \in Nat
      /\ Cardinality(OnTheWay(req.op)') <= Cardinality(OnTheWay(req.op)) + 1
  BY <1>4, <1>5, FS_AddElement
<1> QED
  BY <1>1, <1>2, <1>3, <1>4, <1>6

\* What the program counts is not touched by a request of another kind.
KeepsPublished ==
  UNCHANGED <<last, own>> /\ OnTheWay("publish")' = OnTheWay("publish")
KeepsAsked == UNCHANGED acked /\ OnTheWay("ack")' = OnTheWay("ack")
KeepsCreated == OnTheWay("create")' = OnTheWay("create")
BrokerTyped ==
  /\ late' \subseteq Request /\ IsFiniteSet(late')
  /\ inflight' \subseteq Seqs /\ consumer' \in BOOLEAN

Calls(req, got) == Succeeds(req, got) \/ Fails(req)

LEMMA CreateSent ==
  ASSUME IInv, Calls(NewRequest("create", {}), {})
  PROVE  KeepsPublished /\ KeepsAsked /\ BrokerTyped
<1> DEFINE req == NewRequest("create", {})
<1>1. req \in Request /\ req.op = "create"
  BY RequestTyped DEF IInv, Ops
<1>2. /\ late' = late \/ late' = late \cup {req}
      /\ UNCHANGED <<last, own, inflight, acked>> /\ (consumer' = TRUE \/ consumer' = consumer)
  BY <1>1 DEF Calls, Succeeds, Fails, Effect, broker
<1> HIDE DEF req
<1>3. late' \subseteq Request /\ IsFiniteSet(late')
      /\ OnTheWay("publish")' = OnTheWay("publish") /\ OnTheWay("ack")' = OnTheWay("ack")
  BY <1>1, <1>2, Sends DEF IInv, Ops
<1> QED
  BY <1>2, <1>3 DEF KeepsPublished, KeepsAsked, BrokerTyped, IInv, TypeOK

LEMMA FetchSent ==
  ASSUME IInv, NEW got \in SUBSET Seqs, Calls(NewRequest("fetch", {}), got)
  PROVE  KeepsPublished /\ KeepsAsked /\ KeepsCreated /\ BrokerTyped /\ UNCHANGED consumer
<1> DEFINE req == NewRequest("fetch", {})
<1>1. req \in Request /\ req.op = "fetch"
  BY RequestTyped DEF IInv, Ops
<1>2. /\ late' = late \/ late' = late \cup {req}
      /\ UNCHANGED <<last, own, acked, consumer>>
      /\ \E g \in SUBSET Seqs : inflight' = inflight \cup g
  BY <1>1 DEF Calls, Succeeds, Fails, Effect, broker
<1> HIDE DEF req
<1>3. late' \subseteq Request /\ IsFiniteSet(late')
      /\ OnTheWay("publish")' = OnTheWay("publish") /\ OnTheWay("ack")' = OnTheWay("ack")
      /\ OnTheWay("create")' = OnTheWay("create")
  BY <1>1, <1>2, Sends DEF IInv, Ops
<1> QED
  BY <1>2, <1>3 DEF KeepsPublished, KeepsAsked, KeepsCreated, BrokerTyped, IInv, TypeOK

LEMMA DeleteSent ==
  ASSUME IInv, Calls(NewRequest("delete", {}), {})
  PROVE  KeepsPublished /\ KeepsAsked /\ KeepsCreated /\ BrokerTyped
<1> DEFINE req == NewRequest("delete", {})
<1>1. req \in Request /\ req.op = "delete"
  BY RequestTyped DEF IInv, Ops
<1>2. /\ late' = late \/ late' = late \cup {req}
      /\ UNCHANGED <<last, own, acked>>
      /\ consumer' \in {FALSE, consumer} /\ inflight' \in {{}, inflight}
  BY <1>1 DEF Calls, Succeeds, Fails, Effect, broker
<1> HIDE DEF req
<1>3. late' \subseteq Request /\ IsFiniteSet(late')
      /\ OnTheWay("publish")' = OnTheWay("publish") /\ OnTheWay("ack")' = OnTheWay("ack")
      /\ OnTheWay("create")' = OnTheWay("create")
  BY <1>1, <1>2, Sends DEF IInv, Ops
<1> QED
  BY <1>2, <1>3 DEF KeepsPublished, KeepsAsked, KeepsCreated, BrokerTyped, IInv, TypeOK

\* An acknowledgement asks for the last batch and nothing else.
LEMMA AckSent ==
  ASSUME IInv, Calls(NewRequest("ack", msgs), {})
  PROVE  /\ KeepsPublished /\ KeepsCreated /\ BrokerTyped /\ UNCHANGED consumer
         /\ acked' \subseteq Seqs /\ Asked' \subseteq Asked \cup msgs
<1> DEFINE req == NewRequest("ack", msgs)
<1>1. req \in Request /\ req.op = "ack" /\ req.seqs = msgs
  BY RequestTyped DEF IInv, Ops, TypeOK
<1>2. /\ late' = late \/ late' = late \cup {req}
      /\ UNCHANGED <<last, own, consumer>>
      /\ acked' \in {acked, acked \cup msgs} /\ inflight' \subseteq inflight
  BY <1>1 DEF Calls, Succeeds, Fails, Effect, broker
<1> HIDE DEF req
<1>3. /\ late' \subseteq Request /\ IsFiniteSet(late')
      /\ OnTheWay("publish")' = OnTheWay("publish") /\ OnTheWay("create")' = OnTheWay("create")
  BY <1>1, <1>2, Sends DEF IInv, Ops
<1>4. OnTheWay("ack")' \subseteq OnTheWay("ack") \cup {req}
  BY <1>2 DEF OnTheWay
<1>5. Asked' \subseteq Asked \cup msgs
  BY <1>1, <1>2, <1>4 DEF Asked
<1> QED
  BY <1>2, <1>3, <1>5 DEF KeepsPublished, KeepsCreated, BrokerTyped, IInv, TypeOK

\* A publish adds at most one message, in the stream or on its way to it.
LEMMA PublishSent ==
  ASSUME IInv, Calls(NewRequest("publish", {}), {})
  PROVE  /\ KeepsAsked /\ KeepsCreated /\ BrokerTyped /\ UNCHANGED consumer
         /\ last' \in Nat /\ own' = Backlog + 1 .. last' /\ last' >= last
         /\ Cardinality(OnTheWay("publish")') \in Nat
         /\ last' + Cardinality(OnTheWay("publish")')
              <= last + Cardinality(OnTheWay("publish")) + 1
         /\ Succeeds(NewRequest("publish", {}), {}) =>
              last' = last + 1 /\ OnTheWay("publish")' = OnTheWay("publish")
<1> DEFINE req == NewRequest("publish", {})
<1>1. req \in Request /\ req.op = "publish"
  BY RequestTyped DEF IInv, Ops
<1>2. /\ UNCHANGED <<consumer, inflight, acked>>
      /\ \/ last' = last + 1 /\ own' = own \cup {last + 1} /\ late' = late
         \/ UNCHANGED <<last, own>> /\ (late' = late \/ late' = late \cup {req})
  BY <1>1 DEF Calls, Succeeds, Fails, Effect, broker
<1>3. Succeeds(req, {}) => last' = last + 1 /\ late' = late
  BY <1>1 DEF Succeeds, Effect
<1> HIDE DEF req
<1>4. /\ late' \subseteq Request /\ IsFiniteSet(late')
      /\ OnTheWay("ack")' = OnTheWay("ack") /\ OnTheWay("create")' = OnTheWay("create")
      /\ Cardinality(OnTheWay("publish")') \in Nat
      /\ Cardinality(OnTheWay("publish")') <= Cardinality(OnTheWay("publish")) + 1
  BY <1>1, <1>2, Sends DEF IInv, Ops
<1>5. last \in Nat /\ last >= Backlog /\ own = Backlog + 1 .. last
      /\ Cardinality(OnTheWay("publish")) \in Nat
  BY ParamAssumption, OnTheWayFinite DEF IInv, TypeOK, Count
<1>6. last' \in Nat /\ own' = Backlog + 1 .. last' /\ last' >= last
  <2>1. CASE last' = last + 1 /\ own' = own \cup {last + 1}
    BY <2>1, <1>5, ParamAssumption
  <2>2. CASE UNCHANGED <<last, own>>
    BY <2>2, <1>5
  <2> QED
    BY <1>2, <2>1, <2>2
<1>7. late' = late => OnTheWay("publish")' = OnTheWay("publish")
  BY DEF OnTheWay
<1>8. last' + Cardinality(OnTheWay("publish")')
        <= last + Cardinality(OnTheWay("publish")) + 1
  BY <1>2, <1>4, <1>5, <1>7
<1> QED
  BY <1>2, <1>3, <1>4, <1>6, <1>7, <1>8
     DEF KeepsAsked, KeepsCreated, BrokerTyped, IInv, TypeOK, req
-----------------------------------------------------------------------------
(***************************************************************************)
(* The initial states, and the steps that are not the program's.           *)
(***************************************************************************)
LEMMA InitInv == Init => IInv
<1> SUFFICES ASSUME Init PROVE IInv
  OBVIOUS
<1>1. 1 .. Backlog \subseteq Seqs
  BY ParamAssumption DEF Seqs
<1>2. conf.loops \in Nat /\ conf.loops >= 1 /\ conf.loops * Batch \in Nat
  BY ParamAssumption DEF Init, Settings
<1>3. TypeOK
  <2>1. /\ cycle \in 1 .. conf.loops + 1 /\ cycles \in 0 .. conf.loops
        /\ total \in 0 .. conf.loops * Batch /\ last \in Backlog .. Backlog + MaxLoops
    BY <1>2, ParamAssumption DEF Init
  <2>2. inflight \subseteq Seqs /\ own \subseteq Seqs /\ acked \subseteq Seqs
        /\ msgs \subseteq Seqs /\ late \subseteq Request
    BY <1>1 DEF Init
  <2>3. pc \in Stages /\ exit \in 0 .. 2
    BY DEF Init, Stages
  <2>4. conf \in Settings /\ failed \in BOOLEAN /\ consumer \in BOOLEAN
    BY DEF Init
  <2> QED
    BY <2>1, <2>2, <2>3, <2>4 DEF TypeOK
<1>4. OnTheWay("publish") = {} /\ OnTheWay("create") = {} /\ OnTheWay("ack") = {} /\ IsFiniteSet(late)
  BY FS_EmptySet DEF Init, OnTheWay
<1>5. Cardinality({}) = 0
  BY FS_EmptySet
<1>6. Shape
  BY ParamAssumption DEF Init, Shape, Early
<1>7. Made = 0 /\ pc \notin Over /\ pc # "ack"
  BY DEF Init, Made, Early, Over
<1>8. own = Backlog + 1 .. last
  BY ParamAssumption DEF Init
<1>9. Count /\ Clean
  <2>1. last - Backlog = 0 /\ last - Backlog + Cardinality(OnTheWay("publish")) = 0
    BY <1>4, <1>5, ParamAssumption DEF Init
  <2>2. Count
    BY <1>7, <1>8, <2>1 DEF Count
  <2>3. pc \notin {"finish", "exited"}
    BY DEF Init
  <2> QED
    BY <1>4, <1>7, <2>1, <2>2, <2>3 DEF Clean
<1>10. Asked = {}
  BY <1>4 DEF Init, Asked
<1>11. Settled
  BY <1>5, <1>7, <1>10 DEF Init, Settled
<1> QED
  BY <1>3, <1>4, <1>6, <1>9, <1>11 DEF IInv

\* Asking for less, of the same batch, keeps the counts.
LEMMA SettledStays ==
  ASSUME TypeOK, Settled, Asked' \subseteq Asked, UNCHANGED program
  PROVE  Settled'
<1>1. Asked' \cup msgs' \subseteq Asked \cup msgs /\ msgs \in SUBSET Seqs /\ {} \in SUBSET Seqs
  BY DEF program, TypeOK
<1>2. IsFiniteSet(Asked) /\ IsFiniteSet(Asked \cup msgs)
  BY <1>1, AskedFinite
<1>3. Cardinality(Asked') <= Cardinality(Asked) /\ Cardinality(Asked') \in Nat
      /\ Cardinality(Asked) \in Nat
  BY <1>2, FS_Subset, FS_CardinalityType
<1>4. Cardinality(Asked' \cup msgs') <= Cardinality(Asked \cup msgs)
      /\ Cardinality(Asked' \cup msgs') \in Nat /\ Cardinality(Asked \cup msgs) \in Nat
  BY <1>1, <1>2, FS_Subset, FS_CardinalityType
<1>5. total \in Int
  BY ParamAssumption DEF TypeOK, Settings
<1> QED
  BY <1>3, <1>4, <1>5 DEF Settled, program

LEMMA ServeLateInv == ASSUME IInv, ServeLate PROVE IInv'
<1> PICK req \in late : /\ late' = late \ {req}
                        /\ \E got \in SUBSET Seqs : Effect(req, got)
                        /\ UNCHANGED program
  BY DEF ServeLate
<1> PICK got \in SUBSET Seqs : Effect(req, got)
  OBVIOUS
<1>1. req \in Request /\ req.op \in Ops /\ req.seqs \in SUBSET Seqs
  BY DEF IInv, TypeOK, Request, Ops
<1>2. late' \subseteq Request /\ IsFiniteSet(late')
  BY FS_Subset DEF IInv, TypeOK
<1>3. \A op : OnTheWay(op)' = OnTheWay(op) \ {req}
  BY DEF OnTheWay
<1>4. \A op \in Ops : op # req.op => OnTheWay(op)' = OnTheWay(op)
  BY DEF OnTheWay
<1>5. Made' = Made /\ Planned' = Planned /\ Shape'
  BY DEF program, Made, Planned, Shape, IInv
<1>6. last \in Nat /\ last >= Backlog /\ Backlog \in Nat /\ MaxLoops \in Nat
      /\ \A op : IsFiniteSet(OnTheWay(op)) /\ Cardinality(OnTheWay(op)) \in Nat
  BY ParamAssumption, OnTheWayFinite DEF IInv, TypeOK
<1>7. Made \in Nat /\ Made <= MaxLoops
  BY <1>6, MadeBound DEF IInv
<1>8. CASE req.op = "publish"
  <2>1. last' = last + 1 /\ own' = own \cup {last + 1}
        /\ UNCHANGED <<consumer, inflight, acked>>
    BY <1>8 DEF Effect
  <2>2. req \in OnTheWay("publish")
    BY <1>8 DEF OnTheWay
  <2>3. failed
    BY <2>2 DEF IInv, Clean, TypeOK
  <2>4. Cardinality(OnTheWay("publish")') = Cardinality(OnTheWay("publish")) - 1
        /\ Cardinality(OnTheWay("publish")') \in Nat
    BY <1>3, <1>6, <2>2, FS_RemoveElement, FS_CardinalityType
  <2>5. Count'
    <3>1. own' = Backlog + 1 .. last'
      BY <1>6, <2>1 DEF IInv, Count
    <3> QED
      BY <3>1, <1>5, <1>6, <1>7, <2>1, <2>4 DEF IInv, Count
  <2>6. last' \in Backlog .. Backlog + MaxLoops /\ own' \subseteq Seqs
    BY <2>5, <2>4, <2>1, <1>5, <1>6, <1>7 DEF Count, Seqs
  <2>7. TypeOK'
    BY <1>2, <2>1, <2>6 DEF IInv, TypeOK, program
  <2>8. Asked' = Asked
    BY <1>4, <1>8, <2>1 DEF Asked, Ops
  <2>9. Settled'
    BY <2>8, SettledStays DEF IInv
  <2>10. Clean'
    BY <2>3 DEF Clean, program
  <2> QED
    BY <1>2, <1>5, <2>5, <2>7, <2>9, <2>10 DEF IInv
<1>9. CASE req.op # "publish"
  <2>1. UNCHANGED <<last, own>> /\ OnTheWay("publish")' = OnTheWay("publish")
    BY <1>1, <1>4, <1>9 DEF Effect, Ops
  <2>2. Count'
    BY <1>5, <2>1 DEF IInv, Count
  <2>3. /\ acked' \subseteq Seqs /\ inflight' \subseteq Seqs /\ consumer' \in BOOLEAN
        /\ acked' \in {acked, acked \cup req.seqs}
        /\ req.op # "ack" => acked' = acked
    BY <1>1, <1>9 DEF Effect, IInv, TypeOK, Ops
  <2>4. TypeOK'
    BY <1>2, <2>1, <2>3 DEF IInv, TypeOK, program
  <2>5. Asked' \subseteq Asked
    <3>1. CASE req.op = "ack"
      <4>1. req \in OnTheWay("ack")
        BY <3>1 DEF OnTheWay
      <4> QED
        BY <4>1, <1>3, <2>3 DEF Asked
    <3>2. CASE req.op # "ack"
      BY <3>2, <1>3, <2>3 DEF Asked
    <3> QED
      BY <3>1, <3>2
  <2>6. Settled'
    BY <2>5, SettledStays DEF IInv
  <2>7. Clean'
    <3> SUFFICES ASSUME ~failed PROVE Clean'
      BY DEF Clean, program
    <3>1. req.op # "create"
      BY DEF IInv, Clean, OnTheWay
    <3>2. OnTheWay("create")' = OnTheWay("create") /\ (consumer' => consumer)
      BY <1>1, <1>4, <1>9, <3>1 DEF Effect, Ops
    <3> QED
      BY <1>5, <2>1, <3>2 DEF IInv, Clean, program
  <2> QED
    BY <1>2, <1>5, <2>2, <2>4, <2>6, <2>7 DEF IInv
<1> QED
  BY <1>8, <1>9

LEMMA ExpireInv == ASSUME IInv, Expire PROVE IInv'
<1>1. inflight' \subseteq inflight /\ UNCHANGED <<program, last, own, consumer, acked, late>>
  BY DEF Expire
<1>2. /\ TypeOK' /\ Shape' /\ Made' = Made
      /\ \A op : OnTheWay(op)' = OnTheWay(op)
  BY <1>1 DEF IInv, TypeOK, Shape, Made, Planned, program, OnTheWay
<1>3. Asked' = Asked
  BY <1>1, <1>2 DEF Asked
<1>4. Count' /\ Clean' /\ Settled' /\ IsFiniteSet(late')
  BY <1>1, <1>2, <1>3 DEF IInv, Count, Clean, Settled, program
<1> QED
  BY <1>2, <1>4 DEF IInv
-----------------------------------------------------------------------------
(***************************************************************************)
(* The stages of the program.                                              *)
(***************************************************************************)
\* A stage that leaves the summary alone keeps the record of acknowledgements.
LEMMA SettledKept ==
  ASSUME TypeOK, Settled, Asked' \subseteq Asked, UNCHANGED total, pc' # "ack"
  PROVE  Settled'
<1>1. IsFiniteSet(Asked)
  <2>1. Asked \cup {} = Asked /\ {} \in SUBSET Seqs
    OBVIOUS
  <2> QED
    BY <2>1, AskedFinite
<1>2. Cardinality(Asked') <= Cardinality(Asked) /\ Cardinality(Asked') \in Nat
      /\ Cardinality(Asked) \in Nat
  BY <1>1, FS_Subset, FS_CardinalityType
<1>3. total \in Int
  BY ParamAssumption DEF TypeOK, Settings
<1> QED
  BY <1>2, <1>3 DEF Settled

LEMMA KeepsAskedAsked == ASSUME KeepsAsked PROVE Asked' = Asked
  BY DEF KeepsAsked, Asked

LEMMA KeepsCount ==
  ASSUME IInv, KeepsPublished, Made' \in Nat, Made <= Made' PROVE Count'
<1>1. last \in Nat /\ Backlog \in Nat /\ Cardinality(OnTheWay("publish")) \in Nat
  BY ParamAssumption, OnTheWayFinite DEF IInv, TypeOK
<1>2. Made \in Nat
  BY MadeBound DEF IInv
<1> QED
  BY <1>1, <1>2 DEF IInv, Count, KeepsPublished

LEMMA ProbeInv ==
  ASSUME IInv, NEW stage \in Early, NEW next \in Early, Probe(stage, next)
  PROVE  IInv'
<1>1. /\ pc = stage /\ pc' = next /\ failed' \in {failed, TRUE}
      /\ UNCHANGED <<conf, cycle, cycles, total, msgs, exit, broker, late>>
  BY DEF Probe
<1>2. pc \notin {"publish", "each", "fetch", "ack", "delete", "finish", "exited"}
      /\ pc' \notin {"publish", "each", "fetch", "ack", "delete", "finish", "exited"}
      /\ pc' \in Stages /\ pc \in Early
  BY <1>1 DEF Early, Stages
<1>3. TypeOK'
  BY <1>1, <1>2 DEF IInv, TypeOK, broker
<1>4. Shape'
  BY <1>1, <1>2 DEF IInv, TypeOK, Shape
<1>5. Made = 0 /\ Made' = 0 /\ \A op : OnTheWay(op)' = OnTheWay(op)
  BY <1>1, <1>2 DEF Made, OnTheWay, Early
<1>6. Count'
  BY <1>1, <1>5 DEF IInv, Count, broker
<1>7. Clean'
  <2> SUFFICES ASSUME ~failed' PROVE Clean'
    BY DEF Clean
  <2>1. ~failed
    BY <1>1 DEF IInv, TypeOK
  <2> QED
    BY <1>1, <1>2, <1>5, <2>1 DEF IInv, Clean, broker, Over
<1>8. Asked' = Asked
  BY <1>1, <1>5 DEF Asked, broker
<1>9. Settled'
  BY <1>1, <1>2, <1>8, SettledKept DEF IInv
<1> QED
  BY <1>1, <1>3, <1>4, <1>6, <1>7, <1>9 DEF IInv

LEMMA SubscribeInv == ASSUME IInv, Subscribe PROVE IInv'
<1>1. /\ pc = "subscribe" /\ UNCHANGED <<conf, cycle, cycles, total, msgs, exit>>
      /\ Calls(NewRequest("create", {}), {})
      /\ \/ Succeeds(NewRequest("create", {}), {}) /\ pc' = AfterSubscribe /\ UNCHANGED failed
         \/ pc' = "finish" /\ failed' = TRUE
  BY DEF Subscribe, Calls, Fail
<1>2. KeepsPublished /\ KeepsAsked /\ BrokerTyped
  BY <1>1, CreateSent
<1>3. /\ conf.loops \in Nat /\ conf.loops >= 1 /\ conf.each \in BOOLEAN /\ conf.publish \in BOOLEAN
      /\ cycle = 1 /\ cycles = 0 /\ exit = 2
  BY <1>1, ParamAssumption DEF IInv, TypeOK, Settings, Shape, Early
<1>4. /\ pc' \in {"publish", "each", "fetch", "finish"} /\ pc' \in Stages
      /\ pc' = "publish" => conf.publish /\ ~conf.each
      /\ pc' = "each" => conf.each
      /\ pc' = "fetch" => ~conf.each /\ ~conf.publish
  BY <1>1, <1>3 DEF AfterSubscribe, CycleStart, Stages
<1>5. TypeOK'
  BY <1>1, <1>2, <1>4 DEF IInv, TypeOK, BrokerTyped, KeepsPublished, KeepsAsked
<1>6. Shape'
  BY <1>1, <1>3, <1>4 DEF IInv, Shape, Early
<1>7. Made = 0 /\ Made' \in Nat /\ (pc' # "finish" => Made' = 0)
  BY <1>1, <1>3, <1>4 DEF Made, Planned, Early
<1>8. Count'
  BY <1>2, <1>7, KeepsCount
<1>9. Clean'
  <2> SUFFICES ASSUME ~failed' PROVE Clean'
    BY DEF Clean
  <2>1. ~failed /\ Succeeds(NewRequest("create", {}), {}) /\ pc' = AfterSubscribe
    BY <1>1
  <2>2. pc' \in {"publish", "each", "fetch"}
    BY <1>3, <2>1 DEF AfterSubscribe, CycleStart
  <2>3. OnTheWay("create")' = OnTheWay("create")
    BY <2>1 DEF Succeeds, OnTheWay
  <2> QED
    BY <1>1, <1>2, <1>7, <2>1, <2>2, <2>3 DEF IInv, Clean, KeepsPublished, Over
<1>10. Settled'
  BY <1>1, <1>2, <1>4, KeepsAskedAsked, SettledKept DEF IInv
<1> QED
  BY <1>2, <1>5, <1>6, <1>8, <1>9, <1>10 DEF IInv, BrokerTyped

\* One more publish, counted: l events in the stream, w on their way, m asked for.
LEMMA OneMore ==
  ASSUME NEW k \in Nat, NEW l \in Nat, NEW w \in Nat, NEW m \in Nat, NEW n \in Nat,
         NEW l1 \in Nat, NEW w1 \in Nat,
         l - k + w <= m, l1 + w1 <= l + w + 1
  PROVE  /\ l1 - k + w1 <= m + 1
         /\ m + 1 <= n => l1 <= k + n
  OBVIOUS

LEMMA PublishInv == ASSUME IInv, Publish PROVE IInv'
<1>1. /\ \/ pc = "publish" /\ pc' = CycleStart
         \/ pc = "each" /\ pc' = "fetch"
      /\ UNCHANGED <<conf, cycle, cycles, total, msgs, exit>>
      /\ Calls(NewRequest("publish", {}), {})
      /\ \/ Succeeds(NewRequest("publish", {}), {}) /\ UNCHANGED failed
         \/ failed' = TRUE
  BY DEF Publish, Calls, Fail
<1>2. /\ KeepsAsked /\ KeepsCreated /\ BrokerTyped /\ UNCHANGED consumer
      /\ last' \in Nat /\ own' = Backlog + 1 .. last' /\ last' >= last
      /\ Cardinality(OnTheWay("publish")') \in Nat
      /\ last' + Cardinality(OnTheWay("publish")')
           <= last + Cardinality(OnTheWay("publish")) + 1
      /\ Succeeds(NewRequest("publish", {}), {}) =>
           last' = last + 1 /\ OnTheWay("publish")' = OnTheWay("publish")
  BY <1>1, PublishSent
<1>3. /\ conf.loops \in Nat /\ conf.loops >= 1 /\ conf.each \in BOOLEAN /\ conf.publish \in BOOLEAN
      /\ cycle \in Nat /\ cycle >= 1 /\ cycle <= conf.loops /\ cycles = cycle - 1 /\ exit = 2
      /\ pc = "publish" => conf.publish /\ ~conf.each
      /\ pc = "each" => conf.each
      /\ last \in Nat /\ last >= Backlog /\ Cardinality(OnTheWay("publish")) \in Nat
  BY <1>1, ParamAssumption, OnTheWayFinite DEF IInv, TypeOK, Settings, Shape, Early
<1>4. pc' = "fetch"
  BY <1>1, <1>3 DEF CycleStart
<1>5. Shape'
  BY <1>1, <1>3, <1>4 DEF IInv, Shape, Early
<1>6. Made' = Made + 1 /\ Made \in Nat
  BY <1>1, <1>3, <1>4 DEF Made, Planned, Early
<1> DEFINE way == Cardinality(OnTheWay("publish"))
<1>7. Count'
  <2>1. last - Backlog + way <= Made /\ Backlog \in Nat
    BY ParamAssumption DEF IInv, Count
  <2>2. last' + way' <= last + way + 1 /\ last \in Nat /\ last' \in Nat
        /\ way \in Nat /\ way' \in Nat
    BY <1>2, <1>3
  <2> HIDE DEF way
  <2>3. last' - Backlog + way' <= Made + 1
    BY <1>6, <2>1, <2>2, OneMore
  <2>4. last' - Backlog + way' <= Made'
    BY <1>6, <2>3
  <2> QED
    BY <1>2, <2>4 DEF Count, way
<1>8. Made' <= MaxLoops
  BY <1>1, <1>3, <1>4, ParamAssumption DEF Made, Planned, Early, IInv, TypeOK, Settings
<1>9. last' \in Backlog .. Backlog + MaxLoops /\ own' \subseteq Seqs
  <2>1. own' = Backlog + 1 .. last' /\ last - Backlog + way <= Made
    BY <1>2 DEF IInv, Count
  <2>2. last' + way' <= last + way + 1 /\ way \in Nat /\ way' \in Nat
    BY <1>2, <1>3
  <2>3. Backlog \in Nat /\ MaxLoops \in Nat /\ last \in Nat /\ last' \in Nat /\ last' >= Backlog
    BY <1>2, <1>3, ParamAssumption
  <2>4. Made + 1 <= MaxLoops /\ Made \in Nat
    BY <1>6, <1>8
  <2> HIDE DEF way
  <2>5. last' <= Backlog + MaxLoops
    BY <2>1, <2>2, <2>3, <2>4, OneMore
  <2>6. Backlog + 1 .. last' \subseteq 1 .. Backlog + MaxLoops
    BY <2>3, <2>5
  <2> QED
    BY <2>1, <2>3, <2>5, <2>6 DEF Seqs
<1>10. pc' \in Stages /\ failed' \in BOOLEAN /\ acked' \subseteq Seqs
  BY <1>1, <1>2, <1>4 DEF Stages, IInv, TypeOK, KeepsAsked
<1>11. TypeOK'
  BY <1>1, <1>2, <1>9, <1>10 DEF IInv, TypeOK, BrokerTyped
<1>12. Clean'
  <2> SUFFICES ASSUME ~failed' PROVE Clean'
    BY DEF Clean
  <2>1. ~failed /\ Succeeds(NewRequest("publish", {}), {})
    BY <1>1
  <2>2. last' - Backlog = Made'
    BY <1>2, <1>3, <1>6, <2>1, ParamAssumption DEF IInv, Clean
  <2> QED
    BY <1>2, <1>4, <2>1, <2>2 DEF IInv, Clean, KeepsCreated, Over
<1>13. Settled'
  BY <1>1, <1>2, <1>4, KeepsAskedAsked, SettledKept DEF IInv
<1> QED
  BY <1>2, <1>5, <1>7, <1>11, <1>12, <1>13 DEF IInv, BrokerTyped

\* Where the loop goes when a cycle, or the loop, ends.
LEMMA LoopHead ==
  ASSUME IInv, pc \in {"fetch", "ack"}, UNCHANGED conf, cycle' = cycle + 1,
         pc' = CycleAfter(cycle)
  PROVE  /\ pc' \in {"each", "fetch", "delete", "finish"} /\ pc' \in Stages
         /\ pc' = "each" => conf.each
         /\ pc' \in {"each", "fetch"} => cycle' <= conf.loops
         /\ pc' = "finish" => ~conf.del
         /\ pc' \in Over => cycle = conf.loops
         /\ cycle' \in 1 .. conf.loops + 1
         /\ Made' = Made
<1>1. /\ conf.loops \in Nat /\ conf.loops >= 1 /\ conf.each \in BOOLEAN /\ conf.publish \in BOOLEAN
      /\ conf.del \in BOOLEAN /\ cycle \in Nat /\ cycle >= 1 /\ cycle <= conf.loops
  BY ParamAssumption DEF IInv, TypeOK, Settings, Shape
<1>2. CASE cycle < conf.loops
  <2>1. pc' = CycleStart
    BY <1>2 DEF CycleAfter
  <2> QED
    BY <1>1, <1>2, <2>1 DEF CycleStart, Stages, Over, Made, Planned, Early
<1>3. CASE ~(cycle < conf.loops)
  <2>1. pc' = AfterLoop /\ cycle = conf.loops
    BY <1>1, <1>3 DEF CycleAfter
  <2> QED
    BY <1>1, <2>1 DEF AfterLoop, Stages, Over, Made, Planned, Early
<1> QED
  BY <1>2, <1>3

LEMMA FetchInv == ASSUME IInv, Fetch PROVE IInv'
<1>1. pc = "fetch" /\ UNCHANGED <<conf, exit>>
  BY DEF Fetch
<1>2. /\ conf.loops \in Nat /\ conf.loops >= 1 /\ conf.del \in BOOLEAN /\ conf.ack \in BOOLEAN
      /\ conf.each \in BOOLEAN /\ conf.publish \in BOOLEAN
      /\ cycle \in Nat /\ cycle >= 1 /\ cycle <= conf.loops /\ cycles = cycle - 1 /\ exit = 2
      /\ total \in Nat /\ total <= cycles * Batch /\ Batch \in Nat
  BY <1>1, ParamAssumption DEF IInv, TypeOK, Settings, Shape
<1>3. Made \in Nat /\ Made <= Planned
  BY MadeBound DEF IInv
<1>4. CASE FetchSucceeds
  <2> PICK got \in SUBSET Seqs :
        /\ Succeeds(NewRequest("fetch", {}), got)
        /\ cycles' = cycles + 1 /\ total' = total + Cardinality(got) /\ msgs' = got
        /\ IF conf.ack /\ got # {} THEN pc' = "ack" /\ UNCHANGED cycle ELSE EndCycle
        /\ UNCHANGED failed
    BY <1>4 DEF FetchSucceeds
  <2>1. KeepsPublished /\ KeepsAsked /\ KeepsCreated /\ BrokerTyped /\ UNCHANGED consumer
    BY FetchSent DEF Calls
  <2>2. IsFiniteSet(got) /\ Cardinality(got) \in Nat
    BY SeqsFinite, FS_Subset, FS_CardinalityType
  <2>3. Cardinality(got) <= Batch
    BY RequestTyped DEF Succeeds, Effect, IInv, Ops
  <2>4. /\ total' \in Nat /\ total' <= cycles' * Batch /\ cycles' \in 0 .. conf.loops
        /\ total' \in 0 .. conf.loops * Batch
    <3>1. cycles' = cycle
      BY <1>2
    <3>2. cycles \in Nat /\ (cycles + 1) * Batch = cycles * Batch + Batch
          /\ cycles * Batch \in Nat
      BY <1>2
    <3>3. cycle * Batch <= conf.loops * Batch
      BY <1>2
    <3> QED
      BY <1>2, <2>2, <2>3, <3>1, <3>2, <3>3
  <2>5. Asked' = Asked
    BY <2>1, KeepsAskedAsked
  <2>6. Cardinality(Asked \cup got) <= total' /\ Cardinality(Asked) <= total'
    <3>1. IsFiniteSet(Asked)
      <4>1. Asked \cup {} = Asked /\ {} \in SUBSET Seqs
        OBVIOUS
      <4> QED
        BY <4>1, AskedFinite DEF IInv
    <3>2. /\ Cardinality(Asked) \in Nat /\ Cardinality(Asked \cap got) \in Nat
      BY <3>1, FS_CardinalityType, FS_Intersection
    <3>3. Cardinality(Asked \cup got)
            = Cardinality(Asked) + Cardinality(got) - Cardinality(Asked \cap got)
      BY <3>1, <2>2, FS_Union
    <3> QED
      BY <3>2, <3>3, <2>2, <1>2 DEF IInv, Settled
  <2>7. Settled'
    BY <2>5, <2>6 DEF Settled
  <2>8. CASE conf.ack /\ got # {}
    <3>1. pc' = "ack" /\ UNCHANGED cycle
      BY <2>8
    <3>2. Shape'
      BY <1>1, <1>2, <2>4, <3>1 DEF Shape, Early
    <3>3. Made' = Made
      BY <1>1, <3>1 DEF Made, Planned, Early
    <3>4. Count'
      BY <1>3, <2>1, <3>3, KeepsCount
    <3>5. Clean'
      BY <2>1, <3>1, <3>3 DEF IInv, Clean, KeepsPublished, KeepsCreated, Over
    <3>6. TypeOK'
      BY <1>1, <2>1, <2>4, <3>1
         DEF IInv, TypeOK, Stages, KeepsPublished, KeepsAsked, BrokerTyped
    <3> QED
      BY <2>1, <2>7, <3>2, <3>4, <3>5, <3>6 DEF IInv, BrokerTyped
  <2>9. CASE ~(conf.ack /\ got # {})
    <3>1. cycle' = cycle + 1 /\ pc' = CycleAfter(cycle)
      BY <2>9 DEF EndCycle
    <3>2. /\ pc' \in {"each", "fetch", "delete", "finish"} /\ pc' \in Stages
          /\ pc' = "each" => conf.each
          /\ pc' \in {"each", "fetch"} => cycle' <= conf.loops
          /\ pc' = "finish" => ~conf.del
          /\ pc' \in Over => cycle = conf.loops
          /\ cycle' \in 1 .. conf.loops + 1
          /\ Made' = Made
      BY <1>1, <3>1, LoopHead
    <3>3. Shape'
      BY <1>1, <1>2, <2>4, <3>1, <3>2 DEF Shape, Early
    <3>4. Count'
      BY <1>3, <2>1, <3>2, KeepsCount
    <3>5. Clean'
      <4> SUFFICES ASSUME ~failed' PROVE Clean'
        BY DEF Clean
      <4>1. ~failed /\ (pc' \in Over => cycles' = conf.loops)
        BY <1>2, <3>2
      <4> QED
        BY <1>1, <2>1, <3>2, <4>1 DEF IInv, Clean, KeepsPublished, KeepsCreated
    <3>6. TypeOK'
      BY <1>1, <2>1, <2>4, <3>2
         DEF IInv, TypeOK, KeepsPublished, KeepsAsked, BrokerTyped
    <3> QED
      BY <2>1, <2>7, <3>3, <3>4, <3>5, <3>6 DEF IInv, BrokerTyped
  <2> QED
    BY <2>8, <2>9
<1>5. CASE FetchFails
  <2>1. /\ Fails(NewRequest("fetch", {})) /\ failed' = TRUE /\ pc' = AfterLoop
        /\ UNCHANGED <<cycle, cycles, total, msgs>>
    BY <1>5 DEF FetchFails, Fail
  <2>2. KeepsPublished /\ KeepsAsked /\ BrokerTyped
    <3>1. {} \in SUBSET Seqs
      OBVIOUS
    <3> QED
      BY <2>1, <3>1, FetchSent DEF Calls
  <2>3. pc' \in {"delete", "finish"} /\ pc' \in Stages
    BY <2>1 DEF AfterLoop, Stages
  <2>4. Shape'
    BY <1>1, <1>2, <2>1, <2>3 DEF IInv, Shape, Early
  <2>5. Made' \in Nat /\ Made <= Made'
    BY <1>1, <1>2, <2>3 DEF Made, Planned, Early
  <2>6. Count'
    BY <2>2, <2>5, KeepsCount
  <2>7. Clean'
    BY <2>1 DEF Clean
  <2>8. TypeOK'
    BY <1>1, <2>1, <2>2, <2>3 DEF IInv, TypeOK, KeepsPublished, KeepsAsked, BrokerTyped
  <2>9. Settled'
    BY <2>1, <2>2, <2>3, KeepsAskedAsked, SettledKept DEF IInv
  <2> QED
    BY <2>2, <2>4, <2>6, <2>7, <2>8, <2>9 DEF IInv, BrokerTyped
<1> QED
  BY <1>4, <1>5 DEF Fetch

LEMMA AckInv == ASSUME IInv, Ack PROVE IInv'
<1>1. /\ pc = "ack" /\ cycle' = cycle + 1 /\ pc' = CycleAfter(cycle)
      /\ Calls(NewRequest("ack", msgs), {})
      /\ UNCHANGED <<conf, failed, cycles, total, msgs, exit>>
  BY DEF Ack, EndCycle, AckSeqs, Calls
<1>2. /\ KeepsPublished /\ KeepsCreated /\ BrokerTyped /\ UNCHANGED consumer
      /\ acked' \subseteq Seqs /\ Asked' \subseteq Asked \cup msgs
  BY <1>1, AckSent
<1>3. /\ conf.loops \in Nat /\ cycle \in Nat /\ cycle >= 1 /\ cycle <= conf.loops
      /\ cycles = cycle /\ exit = 2 /\ total \in Nat
  BY <1>1, ParamAssumption DEF IInv, TypeOK, Settings, Shape
<1>4. /\ pc' \in {"each", "fetch", "delete", "finish"} /\ pc' \in Stages
      /\ pc' = "each" => conf.each
      /\ pc' \in {"each", "fetch"} => cycle' <= conf.loops
      /\ pc' = "finish" => ~conf.del
      /\ pc' \in Over => cycle = conf.loops
      /\ cycle' \in 1 .. conf.loops + 1
      /\ Made' = Made
  BY <1>1, LoopHead
<1>5. Shape'
  BY <1>1, <1>3, <1>4 DEF IInv, Shape, Early
<1>6. Made \in Nat
  BY MadeBound DEF IInv
<1>7. Count'
  BY <1>2, <1>4, <1>6, KeepsCount
<1>8. Clean'
  BY <1>1, <1>2, <1>3, <1>4 DEF IInv, Clean, KeepsPublished, KeepsCreated
<1>9. TypeOK'
  BY <1>1, <1>2, <1>4 DEF IInv, TypeOK, KeepsPublished, BrokerTyped
<1>10. Settled'
  <2>1. IsFiniteSet(Asked \cup msgs)
    BY AskedFinite DEF IInv, TypeOK
  <2>2. Cardinality(Asked') <= Cardinality(Asked \cup msgs) /\ Cardinality(Asked') \in Nat
        /\ Cardinality(Asked \cup msgs) \in Nat
    BY <1>2, <2>1, FS_Subset, FS_CardinalityType
  <2>3. Cardinality(Asked \cup msgs) <= total
    BY <1>1 DEF IInv, Settled
  <2> QED
    BY <1>1, <1>3, <1>4, <2>2, <2>3 DEF Settled
<1> QED
  BY <1>2, <1>5, <1>7, <1>8, <1>9, <1>10 DEF IInv, BrokerTyped

LEMMA DeleteInv == ASSUME IInv, Delete PROVE IInv'
<1>1. /\ pc = "delete" /\ pc' = "finish" /\ UNCHANGED <<conf, cycle, cycles, total, msgs, exit>>
      /\ Calls(NewRequest("delete", {}), {})
      /\ \/ Succeeds(NewRequest("delete", {}), {}) /\ UNCHANGED failed
         \/ failed' = TRUE
  BY DEF Delete, Calls, Fail
<1>2. KeepsPublished /\ KeepsAsked /\ KeepsCreated /\ BrokerTyped
  BY <1>1, DeleteSent
<1>3. exit = 2 /\ Shape'
  BY <1>1 DEF IInv, TypeOK, Shape, Early
<1>4. Made' = Made /\ Made \in Nat
  BY <1>1, MadeBound DEF Made, Planned, Early, IInv
<1>5. Count'
  BY <1>2, <1>4, KeepsCount
<1>6. pc' \in Stages /\ failed' \in BOOLEAN
  BY <1>1 DEF Stages, IInv, TypeOK
<1>7. TypeOK'
  BY <1>1, <1>2, <1>6 DEF IInv, TypeOK, KeepsPublished, KeepsAsked, BrokerTyped
<1>8. Clean'
  <2> SUFFICES ASSUME ~failed' PROVE Clean'
    BY DEF Clean
  <2>1. ~failed /\ Succeeds(NewRequest("delete", {}), {})
    BY <1>1
  <2>2. ~consumer'
    <3>1. NewRequest("delete", {}).op = "delete"
      BY DEF NewRequest
    <3> QED
      BY <2>1, <3>1 DEF Succeeds, Effect
  <2> QED
    BY <1>1, <1>2, <1>4, <2>1, <2>2 DEF IInv, Clean, KeepsPublished, KeepsCreated, Over
<1>9. Settled'
  BY <1>1, <1>2, KeepsAskedAsked, SettledKept DEF IInv
<1> QED
  BY <1>2, <1>3, <1>5, <1>7, <1>8, <1>9 DEF IInv, BrokerTyped

LEMMA FinishInv == ASSUME IInv, Finish PROVE IInv'
<1>1. /\ pc = "finish" /\ pc' = "exited"
      /\ exit' = IF conf.strict /\ failed THEN 1 ELSE 0
      /\ UNCHANGED <<conf, cycle, failed, cycles, total, msgs, broker, late>>
  BY DEF Finish
<1>2. TypeOK' /\ IsFiniteSet(late')
  BY <1>1 DEF IInv, TypeOK, broker, Stages
<1>3. Shape'
  BY <1>1 DEF IInv, TypeOK, Settings, Shape, Early
<1>4. Made' = Made /\ \A op : OnTheWay(op)' = OnTheWay(op)
  BY <1>1 DEF Made, Planned, Early, OnTheWay
<1>5. Count'
  BY <1>1, <1>4 DEF IInv, Count, broker
<1>6. Clean'
  BY <1>1, <1>4 DEF IInv, Clean, broker, Over
<1>7. Asked' = Asked
  BY <1>1, <1>4 DEF Asked, broker
<1>8. Settled'
  BY <1>1, <1>7, SettledKept DEF IInv
<1> QED
  BY <1>2, <1>3, <1>5, <1>6, <1>8 DEF IInv

LEMMA StepInv == ASSUME IInv, [Next]_vars PROVE IInv'
<1>1. CASE Status \/ Wait \/ Ensure
  <2>1. AfterStatus \in Early /\ AfterWait \in Early
        /\ {"status", "wait", "ensure", "subscribe"} \subseteq Early
    BY DEF AfterStatus, AfterWait, Early
  <2> QED
    BY <1>1, <2>1, ProbeInv DEF Status, Wait, Ensure
<1>2. CASE Subscribe
  BY <1>2, SubscribeInv
<1>3. CASE Publish
  BY <1>3, PublishInv
<1>4. CASE Fetch
  BY <1>4, FetchInv
<1>5. CASE Ack
  BY <1>5, AckInv
<1>6. CASE Delete
  BY <1>6, DeleteInv
<1>7. CASE Finish
  BY <1>7, FinishInv
<1>8. CASE ServeLate
  BY <1>8, ServeLateInv
<1>9. CASE Expire
  BY <1>9, ExpireInv
<1>10. CASE UNCHANGED vars
  <2>1. UNCHANGED <<conf, pc, cycle, failed, cycles, total, msgs, exit,
                    last, own, consumer, inflight, acked, late>>
    BY <1>10 DEF vars, program, broker
  <2>2. Made' = Made /\ Asked' = Asked /\ \A op : OnTheWay(op)' = OnTheWay(op)
    BY <2>1 DEF Made, Planned, Asked, OnTheWay
  <2> QED
    BY <2>1, <2>2 DEF IInv, TypeOK, Shape, Count, Clean, Settled
<1> QED
  BY <1>1, <1>2, <1>3, <1>4, <1>5, <1>6, <1>7, <1>8, <1>9, <1>10 DEF Next, Run

LEMMA Invariance == Spec => []IInv
<1>1. Init => IInv
  BY InitInv
<1>2. IInv /\ [Next]_vars => IInv'
  BY StepInv
<1> QED
  BY <1>1, <1>2, PTL DEF Spec
\* As many messages are published as the stream has grown.
LEMMA OwnCount == ASSUME IInv PROVE Cardinality(own) = last - Backlog
<1>1. Backlog \in Nat /\ last \in Nat /\ last >= Backlog
  BY ParamAssumption DEF IInv, TypeOK
<1>2. own = Backlog + 1 .. last
  BY DEF IInv, Count
<1>3. Backlog + 1 \in Int /\ last \in Int
  BY <1>1
<1>4. Cardinality(Backlog + 1 .. last)
        = IF Backlog + 1 > last THEN 0 ELSE last - (Backlog + 1) + 1
  BY <1>3, FS_Interval, Zenon
<1>5. (IF Backlog + 1 > last THEN 0 ELSE last - (Backlog + 1) + 1) = last - Backlog
  BY <1>1
<1> QED
  BY <1>2, <1>4, <1>5
-----------------------------------------------------------------------------
(* The theorems.                                                           *)

\* Every variable of the program and of the broker keeps its type; in particular no
\* run fetches more than loops batches or publishes more than loops messages.
THEOREM TypeCorrect == Spec => []TypeOK
<1>1. IInv => TypeOK
  BY DEF IInv
<1> QED
  BY <1>1, Invariance, PTL

\* Whatever fails, is lost or is served late, exit code 0 under IOMESH_STRICT means
\* that every cycle, every planned publish and the deletion were done.
THEOREM ZeroMeansDone == Spec => []StrictZeroMeansDone
<1>1. IInv => StrictZeroMeansDone
  <2> SUFFICES ASSUME IInv, conf.strict, exit = 0
               PROVE  /\ cycles = conf.loops
                      /\ Cardinality(own) = Planned /\ OnTheWay("publish") = {}
                      /\ conf.del => ~consumer /\ OnTheWay("create") = {}
    BY DEF StrictZeroMeansDone
  <2>1. pc = "exited" /\ ~failed
    BY DEF IInv, Shape
  <2>2. Made = Planned
    <3>1. conf.each \in BOOLEAN
      BY DEF IInv, TypeOK, Settings
    <3> QED
      BY <2>1, <3>1 DEF Made, Planned, Early
  <2>3. Cardinality(own) = last - Backlog
    BY OwnCount
  <2> QED
    BY <2>1, <2>2, <2>3 DEF IInv, Clean, Over
<1> QED
  BY <1>1, Invariance, PTL

\* The program never has more messages in the stream, or on their way to it, than it
\* was told to publish.
THEOREM NoneTwice == Spec => []NoDoublePublish
<1>1. IInv => NoDoublePublish
  <2> SUFFICES ASSUME IInv PROVE NoDoublePublish
    OBVIOUS
  <2>1. /\ Backlog \in Nat /\ last \in Nat /\ last >= Backlog
        /\ Cardinality(OnTheWay("publish")) \in Nat
    BY ParamAssumption, OnTheWayFinite DEF IInv, TypeOK
  <2>2. Cardinality(own) = last - Backlog
    BY OwnCount
  <2>3. Made \in Nat /\ Planned \in Nat /\ Made <= Planned
    BY MadeBound DEF IInv
  <2> QED
    BY <2>1, <2>2, <2>3 DEF NoDoublePublish, IInv, Count
<1> QED
  BY <1>1, Invariance, PTL

\* No more messages are acknowledged, now or by a late request, than the summary
\* counts as fetched.
THEOREM AckedCounted == Spec => []AckedWasCounted
<1>1. IInv => AckedWasCounted
  BY DEF IInv, Settled, Asked, AckedWasCounted
<1> QED
  BY <1>1, Invariance, PTL

\* A consumer that is still there, or that a late create will bring back, was reported.
THEOREM LeftoverReported == Spec => []LeftoverIsReported
<1>1. IInv => LeftoverIsReported
  BY DEF IInv, Clean, LeftoverIsReported, TypeOK, Settings
<1> QED
  BY <1>1, Invariance, PTL
===============================================================================
