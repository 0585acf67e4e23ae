----------------------------- MODULE KafkaProofs -----------------------------
(* The mutex of kafka.Client keeps requests and replies in lock step, and   *)
(* client and broker together are a log of records, for any number of       *)
(* goroutines, calls, connections and faults, and any width of the          *)
(* correlation counter.                                                     *)
(*                                                                         *)
(* The bytes of a call are read as they were meant on both sides, for any   *)
(* size of a byte, any topics, partitions and values, and any listing that  *)
(* the broker replies, whole or cut short.                                  *)
EXTENDS KafkaClient, KafkaWire, SequenceTheorems, NaturalsInduction, WellFoundedInduction,
        TLAPS

LEMMA Single ==
  ASSUME NEW S, NEW s \in Seq(S), Len(s) = 1
  PROVE  Head(s) = s[1] /\ s[1] \in S /\ Tail(s) = <<>>
<1>1. Head(s) = s[1] /\ s[1] \in S
  OBVIOUS
<1>2. Tail(s) \in Seq(S) /\ Len(Tail(s)) = 0
  OBVIOUS
<1> QED
  BY <1>1, <1>2, EmptySeq

LEMMA HeadType ==
  ASSUME NEW S, NEW s \in Seq(S), s # <<>>
  PROVE  Head(s) \in S /\ Tail(s) \in Seq(S)
<1>1. Len(s) \in Nat /\ Len(s) # 0
  BY EmptySeq
<1> QED
  BY <1>1

LEMMA Exclusive ==
  ASSUME IInv, NEW p \in Procs, pc[p] \in Locked, NEW q \in Procs \ {p}
  PROVE  pc[q] \notin Locked
  BY ParamAssumption DEF IInv, Mutex

LEMMA InitInv == Init => IInv
<1> SUFFICES ASSUME Init PROVE IInv
  OBVIOUS
<1>1. TypeOK
  BY ParamAssumption DEF Init, TypeOK, NoReply, Result, PC, Corrs, Conns, CallIds
<1>2. Mutex
  BY ParamAssumption DEF Init, Mutex, Locked
<1>3. ConnInv
  BY DEF Init, ConnInv, Quiet
<1>4. \A p \in Procs : ProcInv(p)
  BY DEF Init, ProcInv
<1>5. OffsetIsMine
  BY DEF Init, OffsetIsMine
<1> QED
  BY <1>1, <1>2, <1>3, <1>4, <1>5 DEF IInv

LEMMA BeginInv ==
  ASSUME IInv, NEW p \in Procs, NEW at \in {"lock", "lock_close"}, Begin(p, at)
  PROVE  IInv'
<1>1. TypeOK'
  BY ParamAssumption DEF Begin, IInv, TypeOK, peer, PC, CallIds
<1>2. Mutex'
  BY DEF Begin, IInv, TypeOK, Mutex, Locked
<1>3. ConnInv'
  BY DEF Begin, IInv, TypeOK, ConnInv, Quiet, peer
<1>4. ASSUME NEW q \in Procs PROVE ProcInv(q)'
  <2>1. CASE q = p
    BY <2>1, ParamAssumption DEF Begin, IInv, TypeOK, ProcInv
  <2>2. CASE q # p
    BY <2>2 DEF Begin, IInv, TypeOK, ProcInv, Waiting, AnswersTo, Truthful,
                Quiet, peer
  <2> QED
    BY <2>1, <2>2
<1>5. OffsetIsMine'
  BY DEF Begin, IInv, OffsetIsMine, peer
<1> QED
  BY <1>1, <1>2, <1>3, <1>4, <1>5 DEF IInv

LEMMA LockInv ==
  ASSUME IInv, NEW p \in Procs, Lock(p)
  PROVE  IInv'
<1>1. TypeOK'
  BY DEF Lock, IInv, TypeOK, peer, PC, Locked
<1>2. pc[p] # "relock" /\ \A q \in Procs : pc[q] \notin Locked
  BY ParamAssumption DEF Lock, IInv, Mutex, Locked
<1>3. Mutex'
  BY <1>2, ParamAssumption DEF Lock, IInv, TypeOK, Mutex, Locked
<1>4. ConnInv'
  BY <1>2 DEF Lock, IInv, TypeOK, ConnInv, Quiet, peer, Locked
<1>5. \A q \in Procs : ProcInv(q)'
  BY <1>2 DEF Lock, IInv, TypeOK, ProcInv, Locked, peer
<1>6. OffsetIsMine'
  BY DEF Lock, IInv, OffsetIsMine, peer
<1> QED
  BY <1>1, <1>3, <1>4, <1>5, <1>6 DEF IInv

\* The goroutines other than the one that runs are outside the lock, and stay
\* as they are.
LEMMA OthersInv ==
  ASSUME IInv, NEW p \in Procs, pc[p] \in Locked, NEW q \in Procs \ {p},
         pc'[q] = pc[q], call'[q] = call[q]
  PROVE  ProcInv(q)'
  BY Exclusive DEF ProcInv, IInv, Locked

\* Leaving the lock after a call.
LEMMA ReturnFacts ==
  ASSUME IInv, NEW p \in Procs, pc[p] \in Locked, pc[p] # "idle",
         NEW kind \in {"offset", "error", "closed"}, NEW offset \in Nat,
         kind = "offset" => offset \in 1 .. Len(log) /\ log[offset] = call[p],
         Return(p, kind, offset), UNCHANGED log
  PROVE  /\ mu' \in Procs \cup {Free} /\ pc' \in [Procs -> PC]
         /\ result' \in [CallIds -> Result]
         /\ Mutex' /\ OffsetIsMine'
         /\ \A q \in Procs : pc'[q] \notin Locked
<1>1. call[p] \in CallIds
  BY DEF IInv, ProcInv, TypeOK, CallIds
<1>2. pc' \in [Procs -> PC] /\ result' \in [CallIds -> Result] /\ mu' = Free
  BY <1>1 DEF Return, IInv, TypeOK, PC, Result
<1>3. \A q \in Procs : pc'[q] \notin Locked
  BY Exclusive DEF Return, IInv, TypeOK, Locked
<1>4. OffsetIsMine'
  <2> SUFFICES ASSUME NEW k \in CallIds, result'[k].kind = "offset"
               PROVE  result'[k].offset \in 1 .. Len(log) /\ log[result'[k].offset] = k
    BY DEF OffsetIsMine
  <2>1. CASE k = call[p]
    BY <1>1, <2>1 DEF Return, IInv, TypeOK
  <2>2. CASE k # call[p]
    BY <1>1, <2>2 DEF Return, IInv, TypeOK, OffsetIsMine
  <2> QED
    BY <2>1, <2>2
<1> QED
  BY <1>2, <1>3, <1>4, ParamAssumption DEF Mutex

LEMMA ReuseInv ==
  ASSUME IInv, NEW p \in Procs, Reuse(p)
  PROVE  IInv'
<1>1. pc[p] = "dial" /\ pc[p] \in Locked
  BY DEF Reuse, Locked
<1>2. TypeOK'
  BY DEF Reuse, IInv, TypeOK, peer, PC, Locked
<1>3. Mutex'
  BY <1>1 DEF Reuse, IInv, TypeOK, Mutex, Locked
<1>4. ConnInv'
  BY <1>1, Exclusive DEF Reuse, IInv, TypeOK, ConnInv, Quiet, peer, Locked
<1>5. ASSUME NEW q \in Procs PROVE ProcInv(q)'
  <2>1. CASE q = p
    BY <2>1 DEF Reuse, IInv, TypeOK, ProcInv
  <2>2. CASE q # p
    BY <1>1, <2>2, OthersInv DEF Reuse, IInv, TypeOK
  <2> QED
    BY <2>1, <2>2
<1>6. OffsetIsMine'
  BY DEF Reuse, IInv, OffsetIsMine, peer
<1> QED
  BY <1>2, <1>3, <1>4, <1>5, <1>6 DEF IInv

LEMMA DialInv ==
  ASSUME IInv, NEW p \in Procs, Dial(p)
  PROVE  IInv'
<1>1. pc[p] = "dial" /\ pc[p] \in Locked
  BY DEF Dial, Locked
<1>2. TypeOK'
  <2>1. dialled \in Nat /\ dialled + 1 \in 1 .. MaxConns
    BY ParamAssumption DEF Dial, IInv, TypeOK
  <2> DEFINE d == dialled + 1
  <2>2. d \in 0 .. MaxConns
    BY <2>1, ParamAssumption
  <2>3. /\ dialled' = d /\ conn' = d /\ sock' = [sock EXCEPT ![p] = d]
        /\ up' = [up EXCEPT ![d] = TRUE] /\ pc' = [pc EXCEPT ![p] = "write"]
        /\ UNCHANGED <<mu, seq, call, corr, reply, result, made,
                       breaks, requests, replies, log>>
    BY DEF Dial
  <2> HIDE DEF d
  <2> QED
    BY <2>2, <2>3 DEF IInv, TypeOK, PC, Locked
<1>3. Mutex'
  BY <1>1 DEF Dial, IInv, TypeOK, Mutex, Locked
<1>4. ConnInv'
  <2>1. dialled \in Nat /\ dialled + 1 \in Conns
    BY ParamAssumption DEF Dial, IInv, TypeOK, Conns
  <2>2. Quiet(dialled + 1)
    BY <2>1 DEF IInv, ConnInv
  <2>3. /\ conn' = dialled + 1 /\ dialled' = dialled + 1
        /\ UNCHANGED <<requests, replies>>
        /\ \A c \in Conns : c # dialled + 1 => up'[c] = up[c]
    <3>1. up \in [Conns -> BOOLEAN] /\ up' = [up EXCEPT ![dialled + 1] = TRUE]
      BY DEF Dial, IInv, TypeOK
    <3> QED
      BY <3>1 DEF Dial
  <2> QED
    BY <2>1, <2>2, <2>3 DEF IInv, ConnInv, Quiet, Conns
<1>5. ASSUME NEW q \in Procs PROVE ProcInv(q)'
  <2>1. CASE q = p
    BY <2>1 DEF Dial, IInv, TypeOK, ProcInv
  <2>2. CASE q # p
    BY <1>1, <2>2, OthersInv DEF Dial, IInv, TypeOK
  <2> QED
    BY <2>1, <2>2
<1>6. OffsetIsMine'
  BY DEF Dial, IInv, OffsetIsMine
<1> QED
  BY <1>2, <1>3, <1>4, <1>5, <1>6 DEF IInv

LEMMA DialFailsInv ==
  ASSUME IInv, NEW p \in Procs, DialFails(p)
  PROVE  IInv'
<1>1. pc[p] \in Locked /\ pc[p] # "idle" /\ Return(p, "error", 0) /\ UNCHANGED peer
  BY DEF DialFails, Locked
<1>2. /\ mu' \in Procs \cup {Free} /\ pc' \in [Procs -> PC]
      /\ result' \in [CallIds -> Result] /\ Mutex' /\ OffsetIsMine'
      /\ \A q \in Procs : pc'[q] \notin Locked
  BY <1>1, ReturnFacts DEF peer
<1>3. TypeOK'
  BY <1>2 DEF DialFails, IInv, TypeOK, peer
<1>4. ConnInv'
  BY DEF DialFails, IInv, ConnInv, Quiet, peer
<1>5. ASSUME NEW q \in Procs PROVE ProcInv(q)'
  <2>1. CASE q = p
    BY <2>1 DEF DialFails, Return, IInv, TypeOK, ProcInv
  <2>2. CASE q # p
    BY <1>1, <2>2, OthersInv DEF DialFails, Return, IInv, TypeOK
  <2> QED
    BY <2>1, <2>2
<1> QED
  BY <1>2, <1>3, <1>4, <1>5 DEF IInv

\* Facts common to Write and WriteFails.
LEMMA WriteFacts ==
  ASSUME IInv, NEW p \in Procs, pc[p] = "write"
  PROVE  /\ pc[p] \in Locked /\ conn \in Conns /\ sock[p] = conn
         /\ call[p] \in CallIds /\ NextCorr \in Corrs /\ Quiet(conn)
<1>1. pc[p] \in Locked
  BY DEF Locked
<1>2. conn \in Conns /\ sock[p] = conn /\ call[p] \in CallIds
  BY DEF IInv, ProcInv, TypeOK, Conns, CallIds
<1>3. NextCorr \in Corrs
  BY ParamAssumption DEF IInv, TypeOK, NextCorr, Corrs
<1>4. Quiet(conn)
  <2>1. \A q \in Procs : pc[q] \notin {"read", "relock"}
    BY <1>1, Exclusive DEF Locked
  <2> QED
    BY <1>2, <2>1 DEF IInv, ConnInv, Conns
<1> QED
  BY <1>1, <1>2, <1>3, <1>4

LEMMA WriteInv ==
  ASSUME IInv, NEW p \in Procs, Write(p)
  PROVE  IInv'
<1> DEFINE q0 == [corr |-> NextCorr, call |-> call[p]]
<1>1. /\ pc[p] \in Locked /\ conn \in Conns /\ sock[p] = conn
      /\ call[p] \in CallIds /\ NextCorr \in Corrs /\ Quiet(conn)
  BY WriteFacts DEF Write
<1>2. q0 \in Request
  BY <1>1 DEF Request
<1>3. /\ requests' \in [Conns -> Seq(Request)]
      /\ requests'[conn] = <<q0>> \/ requests'[conn] = <<>>
      /\ \A c \in Conns : c # conn => requests'[c] = requests[c]
  <2>1. Append(requests[conn], q0) = <<q0>> /\ <<q0>> \in Seq(Request)
    BY <1>1, <1>2 DEF Quiet
  <2> QED
    BY <1>1, <2>1 DEF Write, IInv, TypeOK, Quiet
<1>4. TypeOK'
  BY <1>1, <1>3 DEF Write, IInv, TypeOK, PC, Locked
<1>5. Mutex'
  BY <1>1 DEF Write, IInv, TypeOK, Mutex, Locked
<1>6. ConnInv'
  <2>1. pc'[p] = "read"
    BY DEF Write, IInv, TypeOK
  <2>2. conn <= dialled /\ dialled \in Nat /\ conn \in Nat
    BY <1>1 DEF IInv, ConnInv, TypeOK, Conns
  <2> QED
    BY <1>3, <2>1, <2>2 DEF Write, IInv, ConnInv, Quiet, Conns
<1>7. ASSUME NEW q \in Procs PROVE ProcInv(q)'
  <2>1. CASE q = p
    <3>1. /\ pc'[p] = "read" /\ sock'[p] = conn /\ conn' = conn
          /\ corr'[p] = NextCorr /\ call'[p] = call[p] /\ replies'[conn] = <<>>
      BY <1>1 DEF Write, IInv, TypeOK, Quiet
    <3>2. Waiting(p)'
      BY <1>3, <3>1 DEF Waiting, Quiet
    <3> QED
      BY <1>1, <2>1, <3>1, <3>2 DEF ProcInv, Conns, CallIds
  <2>2. CASE q # p
    BY <1>1, <2>2, OthersInv DEF Write, IInv, TypeOK
  <2> QED
    BY <2>1, <2>2
<1>8. OffsetIsMine'
  BY DEF Write, IInv, OffsetIsMine
<1> QED
  BY <1>4, <1>5, <1>6, <1>7, <1>8 DEF IInv

LEMMA WriteFailsInv ==
  ASSUME IInv, NEW p \in Procs, WriteFails(p)
  PROVE  IInv'
<1>1. /\ pc[p] \in Locked /\ conn \in Conns /\ sock[p] = conn
      /\ call[p] \in CallIds /\ NextCorr \in Corrs /\ Quiet(conn)
  BY WriteFacts DEF WriteFails
<1>2. TypeOK'
  BY <1>1 DEF WriteFails, IInv, TypeOK, PC, Locked, peer
<1>3. Mutex'
  BY <1>1 DEF WriteFails, IInv, TypeOK, Mutex, Locked
<1>4. ConnInv'
  BY <1>1 DEF WriteFails, IInv, TypeOK, ConnInv, Quiet, peer
<1>5. ASSUME NEW q \in Procs PROVE ProcInv(q)'
  <2>1. CASE q = p
    BY <1>1, <2>1 DEF WriteFails, IInv, TypeOK, ProcInv, CallIds
  <2>2. CASE q # p
    BY <1>1, <2>2, OthersInv DEF WriteFails, IInv, TypeOK
  <2> QED
    BY <2>1, <2>2
<1>6. OffsetIsMine'
  BY DEF WriteFails, IInv, OffsetIsMine, peer
<1> QED
  BY <1>2, <1>3, <1>4, <1>5, <1>6 DEF IInv

LEMMA ReadReplyInv ==
  ASSUME IInv, NEW p \in Procs, ReadReply(p)
  PROVE  IInv'
<1>1. /\ pc[p] = "read" /\ pc[p] \in Locked /\ conn \in Conns /\ sock[p] = conn
      /\ replies[conn] \in Seq(Reply) /\ replies[conn] # <<>>
  BY DEF ReadReply, Locked, IInv, ProcInv, TypeOK, Conns
<1>2. /\ requests[conn] = <<>> /\ Len(replies[conn]) = 1
      /\ AnswersTo(replies[conn][1], p)
  BY <1>1 DEF IInv, ProcInv, Waiting, Quiet
<1>3. /\ Head(replies[conn]) = replies[conn][1] /\ Head(replies[conn]) \in Reply
      /\ Tail(replies[conn]) = <<>>
  BY <1>1, <1>2, Single
<1>4. /\ reply' = [reply EXCEPT ![p] = replies[conn][1]]
      /\ replies' = [replies EXCEPT ![conn] = <<>>]
      /\ pc' = [pc EXCEPT ![p] = "parse"]
      /\ UNCHANGED <<mu, conn, seq, call, sock, corr, result, made,
                     dialled, breaks, up, requests, log>>
  BY <1>1, <1>3 DEF ReadReply
<1>5. TypeOK'
  <2>1. replies' \in [Conns -> Seq(Reply)]
    <3>1. replies \in [Conns -> Seq(Reply)] /\ <<>> \in Seq(Reply)
      BY DEF IInv, TypeOK
    <3> QED
      BY <1>1, <1>4, <3>1
  <2>2. /\ pc' \in [Procs -> PC] /\ reply' \in [Procs -> Reply \cup {NoReply}]
    <3>1. replies[conn][1] \in Reply /\ "parse" \in PC
      BY <1>3 DEF PC, Locked
    <3> QED
      BY <1>4, <3>1 DEF IInv, TypeOK
  <2> QED
    BY <1>4, <2>1, <2>2 DEF IInv, TypeOK
<1>6. Mutex'
  BY <1>1, <1>4 DEF IInv, TypeOK, Mutex, Locked
<1>7. ConnInv'
  BY <1>1, <1>2, <1>4 DEF IInv, TypeOK, ConnInv, Quiet
<1>8. ASSUME NEW q \in Procs PROVE ProcInv(q)'
  <2>1. CASE q = p
    BY <1>1, <1>2, <1>4, <2>1 DEF IInv, TypeOK, ProcInv, AnswersTo, Truthful
  <2>2. CASE q # p
    BY <1>1, <1>4, <2>2, OthersInv DEF IInv, TypeOK
  <2> QED
    BY <2>1, <2>2
<1>9. OffsetIsMine'
  BY <1>4 DEF IInv, OffsetIsMine
<1> QED
  BY <1>5, <1>6, <1>7, <1>8, <1>9 DEF IInv

LEMMA ReadFailsInv ==
  ASSUME IInv, NEW p \in Procs, ReadFails(p)
  PROVE  IInv'
<1>1. pc[p] = "read" /\ pc[p] \in Locked
  BY DEF ReadFails, Locked
<1>2. TypeOK'
  BY DEF ReadFails, IInv, TypeOK, PC, Locked, peer
<1>3. Mutex'
  BY <1>1 DEF ReadFails, IInv, TypeOK, Mutex, Locked
<1>4. ConnInv'
  BY <1>1 DEF ReadFails, IInv, TypeOK, ConnInv, Quiet, peer
<1>5. ASSUME NEW q \in Procs PROVE ProcInv(q)'
  <2>1. CASE q = p
    BY <1>1, <2>1 DEF ReadFails, IInv, TypeOK, ProcInv
  <2>2. CASE q # p
    BY <1>1, <2>2, OthersInv DEF ReadFails, IInv, TypeOK
  <2> QED
    BY <2>1, <2>2
<1>6. OffsetIsMine'
  BY DEF ReadFails, IInv, OffsetIsMine, peer
<1> QED
  BY <1>2, <1>3, <1>4, <1>5, <1>6 DEF IInv

LEMMA ParseInv ==
  ASSUME IInv, NEW p \in Procs, Parse(p)
  PROVE  IInv'
<1>1. /\ pc[p] = "parse" /\ pc[p] \in Locked /\ AnswersTo(reply[p], p)
      /\ reply[p].offset \in Nat /\ UNCHANGED peer
  BY DEF Parse, Locked, IInv, ProcInv, TypeOK, Reply, NoReply
<1>2. \A q \in Procs : pc[q] \notin {"read", "relock"}
  BY <1>1, Exclusive DEF Locked
<1>3. PICK kind \in {"offset", "error", "closed"}, offset \in Nat :
        /\ Return(p, kind, offset)
        /\ kind = "offset" => offset \in 1 .. Len(log) /\ log[offset] = call[p]
  <2>1. CASE Accepts(reply[p], corr[p])
    BY <1>1, <2>1 DEF Parse, Accepts, AnswersTo, Truthful
  <2>2. CASE ~Accepts(reply[p], corr[p])
    BY <2>2 DEF Parse
  <2> QED
    BY <2>1, <2>2
<1>4. /\ mu' \in Procs \cup {Free} /\ pc' \in [Procs -> PC]
      /\ result' \in [CallIds -> Result] /\ Mutex' /\ OffsetIsMine'
      /\ \A q \in Procs : pc'[q] \notin Locked
  BY <1>1, <1>3, ReturnFacts DEF peer
<1>5. TypeOK'
  <2>1. /\ reply' = [reply EXCEPT ![p] = NoReply]
        /\ sock' = [sock EXCEPT ![p] = 0]
        /\ UNCHANGED <<conn, seq, call, corr, made, peer>>
    BY DEF Parse
  <2>2. reply' \in [Procs -> Reply \cup {NoReply}]
    BY <2>1 DEF IInv, TypeOK
  <2>3. sock' \in [Procs -> 0 .. MaxConns]
    BY <2>1, ParamAssumption DEF IInv, TypeOK
  <2> QED
    BY <1>4, <2>1, <2>2, <2>3 DEF IInv, TypeOK, peer
<1>6. ConnInv'
  BY <1>1, <1>2 DEF Parse, IInv, ConnInv, Quiet, peer
<1>7. ASSUME NEW q \in Procs PROVE ProcInv(q)'
  <2>1. CASE q = p
    BY <1>3, <2>1 DEF Return, IInv, TypeOK, ProcInv
  <2>2. CASE q # p
    BY <1>1, <1>3, <2>2, OthersInv DEF Parse, Return, IInv, TypeOK
  <2> QED
    BY <2>1, <2>2
<1> QED
  BY <1>4, <1>5, <1>6, <1>7 DEF IInv

LEMMA ClosingInv ==
  ASSUME IInv, NEW p \in Procs, Closing(p)
  PROVE  IInv'
<1>1. /\ pc[p] \in Locked /\ pc[p] # "idle" /\ Return(p, "closed", 0)
      /\ UNCHANGED log
  BY DEF Closing, Locked
<1>2. /\ mu' \in Procs \cup {Free} /\ pc' \in [Procs -> PC]
      /\ result' \in [CallIds -> Result] /\ Mutex' /\ OffsetIsMine'
      /\ \A q \in Procs : pc'[q] \notin Locked
  BY <1>1, ReturnFacts
<1>3. TypeOK'
  <2>1. conn' \in 0 .. MaxConns
    BY ParamAssumption DEF Closing
  <2>2. up' \in [Conns -> BOOLEAN]
    <3>1. up \in [Conns -> BOOLEAN] /\ (up' = up \/ up' = [up EXCEPT ![conn] = FALSE])
      BY DEF Closing, IInv, TypeOK
    <3> QED
      BY <3>1
  <2> QED
    BY <1>2, <2>1, <2>2 DEF Closing, IInv, TypeOK
<1>4. ConnInv'
  BY DEF Closing, IInv, TypeOK, ConnInv, Quiet
<1>5. ASSUME NEW q \in Procs PROVE ProcInv(q)'
  <2>1. CASE q = p
    BY <2>1 DEF Closing, Return, IInv, TypeOK, ProcInv
  <2>2. CASE q # p
    BY <1>1, <2>2, OthersInv DEF Closing, Return, IInv, TypeOK
  <2> QED
    BY <2>1, <2>2
<1> QED
  BY <1>2, <1>3, <1>4, <1>5 DEF IInv
-----------------------------------------------------------------------------
LogGrows ==
  /\ log' \in Seq(CallIds) /\ Len(log) <= Len(log')
  /\ \A i \in 1 .. Len(log) : log'[i] = log[i]

LEMMA StaysTruthful ==
  ASSUME TypeOK, LogGrows, NEW r, Truthful(r)
  PROVE  /\ (r.listed /\ r.code = 0) =>
               r.offset \in 1 .. Len(log') /\ log'[r.offset] = r.call
  BY DEF TypeOK, LogGrows, Truthful

LEMMA OffsetsStay == ASSUME IInv, LogGrows, UNCHANGED result PROVE OffsetIsMine'
<1>1. Len(log) \in Nat /\ Len(log') \in Nat
  BY DEF IInv, TypeOK, LogGrows
<1> QED
  BY <1>1 DEF IInv, OffsetIsMine, LogGrows

\* The broker's step: one request becomes one truthful reply.
LEMMA AnswerInv ==
  ASSUME IInv, NEW c \in Conns, NEW r \in Reply, Answer(c, r), LogGrows,
         r.call = Head(requests[c]).call, r.corr = Head(requests[c]).corr,
         r.listed /\ r.code = 0 =>
           r.offset \in 1 .. Len(log') /\ log'[r.offset] = r.call
  PROVE  IInv'
<1>1. /\ requests \in [Conns -> Seq(Request)] /\ replies \in [Conns -> Seq(Reply)]
      /\ requests[c] # <<>> /\ conn \in 0 .. MaxConns /\ UNCHANGED client
      /\ UNCHANGED <<dialled, breaks, up>>
  BY DEF IInv, TypeOK, Answer
<1>2. /\ requests' = [requests EXCEPT ![c] = Tail(requests[c])]
      /\ \/ replies' = replies
         \/ replies' = [replies EXCEPT ![c] = Append(replies[c], r)]
  BY DEF Answer
<1>3. TypeOK'
  <2>1. Tail(requests[c]) \in Seq(Request) /\ Append(replies[c], r) \in Seq(Reply)
    BY <1>1
  <2>2. requests' \in [Conns -> Seq(Request)] /\ replies' \in [Conns -> Seq(Reply)]
    BY <1>1, <1>2, <2>1
  <2> QED
    BY <1>1, <2>2 DEF IInv, TypeOK, client, LogGrows
<1>4. Mutex'
  BY <1>1 DEF IInv, Mutex, client
<1>5. \A d \in Conns \ {c} : requests'[d] = requests[d] /\ replies'[d] = replies[d]
  BY <1>1, <1>2
<1>6. ConnInv'
  <2>1. ~Quiet(c)
    BY <1>1 DEF Quiet
  <2>2. ~(c > dialled)
    BY <2>1 DEF IInv, ConnInv
  <2>3. (\A p \in Procs : pc[p] \notin {"read", "relock"}) /\ conn # 0 => conn # c
    BY <2>1 DEF IInv, ConnInv
  <2> QED
    BY <1>1, <1>5, <2>2, <2>3 DEF IInv, ConnInv, Quiet, client, Conns
<1>7. ASSUME NEW q \in Procs PROVE ProcInv(q)'
  <2>1. ProcInv(q) /\ sock[q] \in 0 .. MaxConns
    BY DEF IInv, TypeOK
  <2>2. ASSUME pc[q] = "read" PROVE Waiting(q)'
    <3>1. sock[q] \in Conns /\ Waiting(q)
      BY <2>1, <2>2, <1>1 DEF ProcInv, Conns
    <3>2. CASE sock[q] # c
      <4>1. AnswersTo(replies[sock[q]][1], q)
            => AnswersTo(replies[sock[q]][1], q)'
        <5>1. /\ replies'[sock'[q]] = replies[sock[q]]
              /\ call'[q] = call[q] /\ corr'[q] = corr[q]
          BY <1>1, <1>5, <3>1, <3>2 DEF client
        <5>2. PICK x : x = replies[sock[q]][1]
          OBVIOUS
        <5>3. x = replies'[sock'[q]][1]
          BY <5>1, <5>2
        <5>4. Truthful(x) => Truthful(x)'
          BY StaysTruthful DEF Truthful, IInv
        <5> QED
          BY <5>1, <5>2, <5>3, <5>4 DEF AnswersTo, Truthful
      <4> QED
        BY <1>1, <1>5, <3>1, <3>2, <4>1 DEF Waiting, Quiet, client
    <3>3. CASE sock[q] = c
      <4>1. /\ requests[c] = <<[corr |-> corr[q], call |-> call[q]]>>
            /\ replies[c] = <<>>
        BY <1>1, <3>1, <3>3 DEF Waiting, Quiet
      <4>2. requests'[c] = <<>> /\ (replies'[c] = <<>> \/ replies'[c] = <<r>>)
        BY <1>1, <1>2, <4>1
      <4>3. r.call = call[q] /\ r.corr = corr[q]
        BY <4>1
      <4>4. sock'[q] = c /\ AnswersTo(r, q)'
        BY <1>1, <3>3, <4>3 DEF AnswersTo, Truthful, client
      <4>5. CASE replies'[c] = <<r>>
        <5>1. Len(replies'[c]) = 1 /\ replies'[c][1] = r
          BY <4>5
        <5> QED
          BY <4>2, <4>4, <5>1 DEF Waiting
      <4> QED
        BY <4>2, <4>4, <4>5 DEF Waiting, Quiet
    <3> QED
      BY <3>2, <3>3
  <2>3. AnswersTo(reply[q], q) => AnswersTo(reply[q], q)'
    BY <1>1, StaysTruthful DEF AnswersTo, Truthful, IInv, client
  <2> QED
    BY <1>1, <2>1, <2>2, <2>3 DEF ProcInv, client
<1>8. OffsetIsMine'
  BY <1>1, OffsetsStay DEF client
<1> QED
  BY <1>3, <1>4, <1>6, <1>7, <1>8 DEF IInv

LEMMA ReplyToFacts ==
  ASSUME NEW q \in Request, NEW told, NEW n \in Nat
  PROVE  LET r == ReplyTo(q, told, n) IN
         /\ r \in Reply /\ r.call = q.call /\ r.corr = q.corr /\ r.offset = n
         /\ r.listed /\ r.code = 0 => told \notin {"code", "nothing"}
<1> DEFINE r == ReplyTo(q, told, n)
<1>1. q.corr \in Corrs /\ q.call \in CallIds
  BY DEF Request
<1>2. CASE told = "code"
  <2>1. r = [corr |-> q.corr, call |-> q.call, listed |-> TRUE, code |-> 3, offset |-> n]
    BY <1>2 DEF ReplyTo
  <2> HIDE DEF r
  <2>2. r \in Reply /\ r.call = q.call /\ r.corr = q.corr /\ r.offset = n /\ r.code = 3
    BY <1>1, <2>1 DEF Reply
  <2> QED
    BY <2>2 DEF r
<1>3. CASE told = "nothing"
  <2>1. r = [corr |-> q.corr, call |-> q.call, listed |-> FALSE, code |-> 0, offset |-> n]
    BY <1>3 DEF ReplyTo
  <2> HIDE DEF r
  <2>2. r \in Reply /\ r.call = q.call /\ r.corr = q.corr /\ r.offset = n /\ ~r.listed
    BY <1>1, <2>1 DEF Reply
  <2> QED
    BY <2>2 DEF r
<1>4. CASE told \notin {"code", "nothing"}
  <2>1. r = [corr |-> q.corr, call |-> q.call, listed |-> TRUE, code |-> 0, offset |-> n]
    BY <1>4 DEF ReplyTo
  <2> HIDE DEF r
  <2>2. r \in Reply /\ r.call = q.call /\ r.corr = q.corr /\ r.offset = n
    BY <1>1, <2>1 DEF Reply
  <2> QED
    BY <1>4, <2>2 DEF r
<1> QED
  BY <1>2, <1>3, <1>4

LEMMA ServeInv ==
  ASSUME IInv, NEW c \in Conns, Serve(c)
  PROVE  IInv'
<1> DEFINE q == Head(requests[c])
<1>1. log \in Seq(CallIds) /\ requests[c] \in Seq(Request) /\ Len(log) + 1 \in Nat
  BY DEF IInv, TypeOK
<1>2. requests[c] # <<>>
  BY DEF Serve, Store, Reject, Answer
<1>3. q \in Request
  BY <1>1, <1>2, HeadType
<1>4. q.call \in CallIds
  BY <1>3 DEF Request
<1>5. CASE Store(c)
  <2>1. PICK told : Answer(c, ReplyTo(q, told, Len(log) + 1))
    BY <1>5 DEF Store
  <2> DEFINE r == ReplyTo(q, told, Len(log) + 1)
  <2> HIDE DEF q
  <2>2. log' = Append(log, q.call)
    BY <1>5 DEF Store, q
  <2>3. r \in Reply /\ r.call = q.call /\ r.corr = q.corr /\ r.offset = Len(log) + 1
    BY <1>1, <1>3, ReplyToFacts
  <2> HIDE DEF r
  <2>4. LogGrows /\ Len(log') = Len(log) + 1 /\ log'[Len(log) + 1] = q.call
    BY <1>1, <1>4, <2>2 DEF LogGrows
  <2>5. r.offset \in 1 .. Len(log') /\ log'[r.offset] = r.call
    BY <1>1, <2>3, <2>4
  <2>6. r.call = Head(requests[c]).call /\ r.corr = Head(requests[c]).corr
    BY <2>3 DEF q
  <2> QED
    BY <2>1, <2>3, <2>4, <2>5, <2>6, AnswerInv DEF r
<1>6. CASE Reject(c)
  <2>1. PICK told \in {"code", "nothing"} : Answer(c, ReplyTo(q, told, 0))
    BY <1>6 DEF Reject
  <2> DEFINE r == ReplyTo(q, told, 0)
  <2> HIDE DEF q
  <2>2. /\ r \in Reply /\ r.call = q.call /\ r.corr = q.corr
        /\ ~(r.listed /\ r.code = 0)
    BY <1>3, <2>1, ReplyToFacts
  <2> HIDE DEF r
  <2>3. LogGrows
    BY <1>1, <1>6 DEF Reject, LogGrows
  <2>4. r.call = Head(requests[c]).call /\ r.corr = Head(requests[c]).corr
    BY <2>2 DEF q
  <2> QED
    BY <2>1, <2>2, <2>3, <2>4, AnswerInv DEF r
<1> QED
  BY <1>5, <1>6 DEF Serve

\* A fault only takes replies away.
LEMMA BreakInv ==
  ASSUME IInv, NEW c \in Conns, Break(c)
  PROVE  IInv'
<1>1. /\ UNCHANGED <<client, dialled, requests, log>>
      /\ replies' = replies \/ replies' = [replies EXCEPT ![c] = <<>>]
      /\ up' = [up EXCEPT ![c] = FALSE]
      /\ breaks' = breaks + 1 /\ breaks < MaxBreaks
  BY DEF Break
<1>2. TypeOK'
  <2>1. breaks' \in 0 .. MaxBreaks
    BY <1>1, ParamAssumption DEF IInv, TypeOK
  <2>2. replies' \in [Conns -> Seq(Reply)] /\ up' \in [Conns -> BOOLEAN]
    <3>1. <<>> \in Seq(Reply)
      OBVIOUS
    <3>2. replies \in [Conns -> Seq(Reply)] /\ up \in [Conns -> BOOLEAN]
      BY DEF IInv, TypeOK
    <3> QED
      BY <1>1, <3>1, <3>2
  <2> QED
    BY <1>1, <2>1, <2>2 DEF IInv, TypeOK, client
<1>3. Mutex'
  BY <1>1 DEF IInv, Mutex, client
<1>4. \A d \in Conns : replies'[d] = replies[d] \/ replies'[d] = <<>>
  BY <1>1 DEF IInv, TypeOK
<1>5. ConnInv'
  BY <1>1, <1>4 DEF IInv, TypeOK, ConnInv, Quiet, client, Conns
<1>6. ASSUME NEW q \in Procs PROVE ProcInv(q)'
  <2>1. ProcInv(q) /\ sock[q] \in 0 .. MaxConns
    BY DEF IInv, TypeOK
  <2>2. ASSUME pc[q] = "read" PROVE Waiting(q)'
    <3>1. sock[q] \in Conns /\ Waiting(q)
      BY <2>1, <2>2 DEF ProcInv, Conns
    <3> QED
      BY <1>1, <1>4, <3>1 DEF Waiting, Quiet, AnswersTo, Truthful, client
  <2> QED
    BY <1>1, <2>1, <2>2 DEF ProcInv, AnswersTo, Truthful, client
<1>7. OffsetIsMine'
  BY <1>1 DEF IInv, OffsetIsMine, client
<1> QED
  BY <1>2, <1>3, <1>5, <1>6, <1>7 DEF IInv

LEMMA NextInv == IInv /\ [Next]_vars => IInv'
<1> SUFFICES ASSUME IInv, [Next]_vars PROVE IInv'
  OBVIOUS
<1>1. ASSUME NEW p \in Procs, Produce(p) \/ Close(p) PROVE IInv'
  BY <1>1, BeginInv DEF Produce, Close
<1>2. ASSUME NEW p \in Procs, Run(p) PROVE IInv'
  BY <1>2, ReuseInv, DialInv, DialFailsInv, WriteInv, WriteFailsInv,
     ReadReplyInv, ReadFailsInv, ParseInv, ClosingInv DEF Run
<1>3. CASE UNCHANGED vars
  BY <1>3 DEF vars, client, peer, IInv, TypeOK, Mutex, ConnInv, ProcInv,
              Quiet, Waiting, AnswersTo, Truthful, OffsetIsMine
<1> QED
  BY <1>1, <1>2, <1>3, LockInv, ServeInv, BreakInv DEF Next

THEOREM InductiveInvariant == Spec => []IInv
  BY InitInv, NextInv, PTL DEF Spec

\* Type correctness: the client's and the peer's variables keep their types.
THEOREM TypeCorrect == Spec => []TypeOK
<1>1. IInv => TypeOK
  BY DEF IInv
<1> QED
  BY <1>1, InductiveInvariant, PTL

\* Nothing is left on the kept connection between two calls.
THEOREM KeptInLockStep == Spec => []LockStep
<1>1. IInv => LockStep
  <2> SUFFICES ASSUME IInv, mu = Free, conn # 0
               PROVE  requests[conn] = <<>> /\ replies[conn] = <<>>
    BY DEF LockStep
  <2>1. \A p \in Procs : pc[p] \notin Locked
    BY ParamAssumption DEF IInv, Mutex
  <2>2. Quiet(conn)
    BY <2>1 DEF IInv, ConnInv, Locked
  <2> QED
    BY <2>2 DEF Quiet
<1> QED
  BY <1>1, InductiveInvariant, PTL

\* A Produce reads the answer to its own request, whatever the counter's width.
THEOREM ReadsOwnReply == Spec => []OwnReply
<1>1. IInv => OwnReply
  BY DEF IInv, ProcInv, AnswersTo, OwnReply
<1> QED
  BY <1>1, InductiveInvariant, PTL

\* A returned offset is the offset of the call's own record.
THEOREM OffsetTrue == Spec => []OffsetIsMine
<1>1. IInv => OffsetIsMine
  BY DEF IInv
<1> QED
  BY <1>1, InductiveInvariant, PTL
-----------------------------------------------------------------------------
(***************************************************************************)
(* The refinement of RecordLog: a call, its answer and the broker storing  *)
(* a record are steps of the log; the rest of the exchange stutters.       *)
(***************************************************************************)

Early == {"lock", "lock_close", "dial", "write", "closing"}

LEMMA LogInit == Init => LogInv
<1> SUFFICES ASSUME Init PROVE LogInv
  OBVIOUS
<1>1. FreshInv
  BY DEF Init, FreshInv, Records!Stored
<1>2. (\A p \in Procs : OpenInv(p)) /\ RequestInv
  BY DEF Init, OpenInv, RequestInv
<1> QED
  BY <1>1, <1>2 DEF LogInv

\* A step of a call that neither sends a request nor ends the call.
LEMMA LogMoves ==
  ASSUME LogInv, NEW p \in Procs, UNCHANGED <<log, result, made, call, requests>>,
         \A q \in Procs \ {p} : pc'[q] = pc[q] /\ sock'[q] = sock[q] /\ corr'[q] = corr[q],
         pc[p] # "idle", pc'[p] \in Early => pc[p] \in Early,
         pc[p] \in {"read", "relock"} =>
           \/ pc'[p] \in {"read", "relock"} /\ sock'[p] = sock[p] /\ corr'[p] = corr[p]
           \/ requests[sock[p]] = <<>>
  PROVE  LogInv'
<1>1. \A k : Records!Stored(k)' <=> Records!Stored(k)
  BY DEF Records!Stored
<1>2. FreshInv'
  BY <1>1 DEF LogInv, FreshInv, Records!Stored
<1>3. ASSUME NEW q \in Procs PROVE OpenInv(q)'
  <2>1. OpenInv(q)
    BY DEF LogInv
  <2>2. pc'[q] # "idle" => pc[q] # "idle" /\ (pc'[q] \in Early => pc[q] \in Early)
    OBVIOUS
  <2>3. \A o \in Procs : pc'[o] # "idle" => pc[o] # "idle"
    OBVIOUS
  <2> QED
    BY <2>1, <2>2, <2>3 DEF OpenInv, Records!Stored, Early
<1>4. RequestInv'
  <2> SUFFICES ASSUME NEW c \in Conns, requests[c] # <<>>
               PROVE  \E o \in Procs :
                        /\ pc'[o] \in {"read", "relock"} /\ sock'[o] = c
                        /\ requests[c] = <<[corr |-> corr'[o], call |-> call[o]]>>
                        /\ ~Records!Stored(call[o])
    BY <1>1 DEF RequestInv, Records!Stored
  <2>1. PICK o \in Procs : /\ pc[o] \in {"read", "relock"} /\ sock[o] = c
                           /\ requests[c] = <<[corr |-> corr[o], call |-> call[o]]>>
                           /\ ~Records!Stored(call[o])
    BY DEF LogInv, RequestInv
  <2>2. pc'[o] \in {"read", "relock"} /\ sock'[o] = c /\ corr'[o] = corr[o]
    BY <2>1
  <2> QED
    BY <2>1, <2>2
<1> QED
  BY <1>2, <1>3, <1>4 DEF LogInv

\* The end of a call.
LEMMA LogReturns ==
  ASSUME IInv, LogInv, NEW p \in Procs, UNCHANGED <<log, made, call, requests, corr>>,
         NEW kind \in {"offset", "error", "closed"}, NEW offset, Return(p, kind, offset),
         pc[p] \notin {"idle", "read", "relock"},
         \A q \in Procs \ {p} : sock'[q] = sock[q]
  PROVE  LogInv'
<1>1. /\ call[p] \in 1 .. made /\ call[p] \in CallIds
      /\ pc' = [pc EXCEPT ![p] = "idle"] /\ pc \in [Procs -> PC]
      /\ result \in [CallIds -> Result] /\ made \in Nat
      /\ result' = [result EXCEPT ![call[p]] = [kind |-> kind, offset |-> offset]]
  BY DEF Return, IInv, TypeOK, LogInv, OpenInv, CallIds
<1>2. FreshInv'
  <2> SUFFICES ASSUME NEW k \in CallIds, k > made
               PROVE  result'[k].kind = "none" /\ ~Records!Stored(k)
    BY DEF FreshInv, Records!Stored
  <2>1. k # call[p]
    BY <1>1 DEF CallIds
  <2> QED
    BY <1>1, <2>1 DEF LogInv, FreshInv
<1>3. ASSUME NEW q \in Procs, pc'[q] # "idle" PROVE OpenInv(q)'
  <2>1. q # p /\ pc'[q] = pc[q]
    BY <1>1, <1>3
  <2>2. OpenInv(q) /\ OpenInv(p)
    BY DEF LogInv
  <2>3. call[q] \in 1 .. made /\ call[q] # call[p] /\ result[call[q]].kind = "none"
    BY <1>3, <2>1, <2>2 DEF OpenInv
  <2>4. call[q] \in CallIds
    BY <1>1, <2>3, ParamAssumption DEF IInv, TypeOK, CallIds
  <2>5. result'[call[q]].kind = "none"
    BY <1>1, <2>3, <2>4
  <2>6. \A o \in Procs : pc'[o] # "idle" => pc[o] # "idle"
    BY <1>1
  <2> QED
    BY <2>1, <2>2, <2>3, <2>5, <2>6 DEF OpenInv, Records!Stored
<1>4. RequestInv'
  <2> SUFFICES ASSUME NEW c \in Conns, requests[c] # <<>>
               PROVE  \E o \in Procs :
                        /\ pc'[o] \in {"read", "relock"} /\ sock'[o] = c
                        /\ requests[c] = <<[corr |-> corr[o], call |-> call[o]]>>
                        /\ ~Records!Stored(call[o])
    BY DEF RequestInv, Records!Stored
  <2>1. PICK o \in Procs : /\ pc[o] \in {"read", "relock"} /\ sock[o] = c
                           /\ requests[c] = <<[corr |-> corr[o], call |-> call[o]]>>
                           /\ ~Records!Stored(call[o])
    BY DEF LogInv, RequestInv
  <2>2. o # p /\ pc'[o] = pc[o]
    BY <1>1, <2>1
  <2> QED
    BY <2>1, <2>2
<1> QED
  BY <1>2, <1>3, <1>4 DEF LogInv, OpenInv

LEMMA LogBegins ==
  ASSUME IInv, LogInv, NEW p \in Procs, NEW at \in {"lock", "lock_close"}, Begin(p, at)
  PROVE  LogInv' /\ Records!Call
<1>1. /\ pc[p] = "idle" /\ made \in Nat /\ made + 1 \in CallIds /\ made' = made + 1
      /\ call' = [call EXCEPT ![p] = made + 1] /\ call \in [Procs -> 0 .. MaxCalls]
      /\ pc' = [pc EXCEPT ![p] = at] /\ pc \in [Procs -> PC]
      /\ UNCHANGED <<log, result, requests, sock, corr>>
  BY ParamAssumption DEF Begin, peer, IInv, TypeOK, CallIds
<1>2. Records!Call
  BY <1>1 DEF Records!Call
<1>3. FreshInv'
  BY <1>1 DEF LogInv, FreshInv, Records!Stored, CallIds
<1>4. ASSUME NEW q \in Procs, pc'[q] # "idle" PROVE OpenInv(q)'
  <2>1. \A o \in Procs \ {p} : pc[o] # "idle" => call[o] \in 1 .. made
    BY DEF LogInv, OpenInv
  <2>2. CASE q = p
    <3>1. call'[p] = made + 1 /\ \A o \in Procs \ {p} : pc'[o] = pc[o] /\ call'[o] = call[o]
      BY <1>1
    <3>2. made + 1 > made /\ made + 1 \in 1 .. made + 1 /\ \A k \in 1 .. made : k # made + 1
      BY <1>1
    <3>3. result[made + 1].kind = "none" /\ ~Records!Stored(made + 1)
      BY <1>1, <3>2 DEF LogInv, FreshInv
    <3>4. \A o \in Procs \ {p} : pc'[o] # "idle" => call'[o] # call'[p]
      BY <2>1, <3>1, <3>2
    <3> QED
      BY <1>1, <2>2, <3>1, <3>2, <3>3, <3>4 DEF OpenInv, Records!Stored
  <2>3. CASE q # p
    <3>1. OpenInv(q) /\ pc'[q] = pc[q] /\ call'[q] = call[q] /\ call[q] \in 1 .. made
      BY <1>1, <1>4, <2>1, <2>3 DEF LogInv
    <3>2. call[q] \in 1 .. made' /\ call[q] # made + 1
      BY <1>1, <3>1
    <3>3. \A o \in Procs \ {q} : pc'[o] # "idle" => call'[o] # call[q]
      <4>1. call'[p] # call[q]
        BY <1>1, <3>2
      <4>2. \A o \in Procs \ {p} : pc'[o] = pc[o] /\ call'[o] = call[o]
        BY <1>1
      <4> QED
        BY <1>4, <3>1, <4>1, <4>2 DEF OpenInv
    <3> QED
      BY <1>1, <1>4, <3>1, <3>2, <3>3 DEF OpenInv, Records!Stored
  <2> QED
    BY <2>2, <2>3
<1>5. RequestInv'
  <2> SUFFICES ASSUME NEW c \in Conns, requests'[c] # <<>>
               PROVE  \E o \in Procs :
                        /\ pc'[o] \in {"read", "relock"} /\ sock'[o] = c
                        /\ requests'[c] = <<[corr |-> corr'[o], call |-> call'[o]]>>
                        /\ ~Records!Stored(call[o])'
    BY DEF RequestInv
  <2>1. PICK o \in Procs : /\ pc[o] \in {"read", "relock"} /\ sock[o] = c
                           /\ requests[c] = <<[corr |-> corr[o], call |-> call[o]]>>
                           /\ ~Records!Stored(call[o])
    BY <1>1 DEF LogInv, RequestInv
  <2>2. pc'[o] = pc[o] /\ call'[o] = call[o]
    BY <1>1, <2>1
  <2>3. ~Records!Stored(call[o])'
    BY <1>1, <2>1, <2>2 DEF Records!Stored
  <2> QED
    BY <1>1, <2>1, <2>2, <2>3
<1> QED
  BY <1>2, <1>3, <1>4, <1>5 DEF LogInv, OpenInv

\* Nothing is on its way but for the goroutine that holds the lock.
LEMMA OnlyHolders ==
  ASSUME IInv, LogInv, NEW p \in Procs, pc[p] \in Locked, NEW c \in Conns, requests[c] # <<>>
  PROVE  /\ pc[p] \in {"read", "relock"} /\ sock[p] = c
         /\ requests[c] = <<[corr |-> corr[p], call |-> call[p]]>> /\ ~Records!Stored(call[p])
  BY Exclusive DEF LogInv, RequestInv, Locked

LEMMA LogWrites == ASSUME IInv, LogInv, NEW p \in Procs, Write(p) PROVE LogInv'
<1>1. /\ pc[p] = "write" /\ pc[p] \in Locked /\ pc \in [Procs -> PC] /\ corr \in [Procs -> Corrs]
      /\ sock \in [Procs -> 0 .. MaxConns] /\ requests \in [Conns -> Seq(Request)]
      /\ pc' = [pc EXCEPT ![p] = "read"] /\ corr' = [corr EXCEPT ![p] = NextCorr]
      /\ UNCHANGED <<log, result, made, call, sock>>
  BY DEF Write, IInv, TypeOK, Locked
<1>2. sock[p] = conn /\ conn \in Conns /\ Quiet(conn)
  BY <1>1, WriteFacts
<1>3. \A c \in Conns : requests[c] = <<>>
  BY <1>1, OnlyHolders
<1>4. OpenInv(p) /\ ~Records!Stored(call[p])
  BY <1>1 DEF LogInv, OpenInv
<1>5. RequestInv'
  <2> SUFFICES ASSUME NEW c \in Conns, requests'[c] # <<>>
               PROVE  /\ pc'[p] = "read" /\ sock'[p] = c
                      /\ requests'[c] = <<[corr |-> corr'[p], call |-> call[p]]>>
    BY <1>1, <1>4 DEF RequestInv, Records!Stored
  <2>1. c = conn /\ requests'[c] = Append(<<>>, [corr |-> NextCorr, call |-> call[p]])
    BY <1>1, <1>2, <1>3 DEF Write
  <2>2. corr'[p] = NextCorr /\ pc'[p] = "read"
    BY <1>1
  <2> QED
    BY <1>1, <1>2, <2>1, <2>2
<1>6. FreshInv'
  BY <1>1 DEF LogInv, FreshInv, Records!Stored
<1>7. ASSUME NEW q \in Procs PROVE OpenInv(q)'
  <2>1. OpenInv(q)
    BY DEF LogInv
  <2>2. pc'[q] # "idle" => pc[q] # "idle" /\ (pc'[q] \in Early => pc[q] \in Early)
    BY <1>1 DEF Early
  <2>3. \A o \in Procs : pc'[o] # "idle" => pc[o] # "idle"
    BY <1>1
  <2> QED
    BY <1>1, <2>1, <2>2, <2>3 DEF OpenInv, Records!Stored, Early
<1> QED
  BY <1>5, <1>6, <1>7 DEF LogInv

\* The steps that move nothing of the log.
LEMMA QuietSteps ==
  ASSUME IInv, LogInv, NEW p \in Procs,
         Lock(p) \/ Reuse(p) \/ Dial(p) \/ WriteFails(p) \/ ReadReply(p) \/ ReadFails(p)
  PROVE  LogInv' /\ UNCHANGED Records!rlVars
<1> USE DEF Early
<1>0. /\ pc \in [Procs -> PC] /\ sock \in [Procs -> 0 .. MaxConns]
      /\ corr \in [Procs -> Corrs]
  BY DEF IInv, TypeOK
<1>1. CASE Lock(p)
  <2>1. pc[p] \in {"lock", "lock_close"}
    BY <1>1, ParamAssumption DEF Lock, IInv, Mutex, Locked
  <2> QED
    BY <1>0, <1>1, <2>1, LogMoves DEF Lock, peer, Records!rlVars
<1>2. CASE Reuse(p)
  BY <1>0, <1>2, LogMoves DEF Reuse, peer, Records!rlVars
<1>3. CASE Dial(p)
  BY <1>0, <1>3, LogMoves DEF Dial, Records!rlVars
<1>4. CASE WriteFails(p)
  BY <1>0, <1>4, LogMoves DEF WriteFails, peer, Records!rlVars
<1>5. CASE ReadReply(p)
  <2>1. pc[p] = "read" /\ ProcInv(p) /\ replies[sock[p]] # <<>>
    BY <1>5 DEF ReadReply, IInv
  <2>2. requests[sock[p]] = <<>>
    BY <2>1 DEF ProcInv, Waiting, Quiet
  <2> QED
    BY <1>0, <1>5, <2>1, <2>2, LogMoves DEF ReadReply, Records!rlVars
<1>6. CASE ReadFails(p)
  BY <1>0, <1>6, LogMoves DEF ReadFails, peer, Records!rlVars
<1> QED
  BY <1>1, <1>2, <1>3, <1>4, <1>5, <1>6

\* The end of a call answers it in the log.
LEMMA Answers ==
  ASSUME IInv, LogInv, NEW p \in Procs, pc[p] # "idle", UNCHANGED <<log, made>>,
         NEW kind, NEW offset, Return(p, kind, offset),
         kind = "offset" => offset \in 1 .. Len(log) /\ log[offset] = call[p],
         kind = "closed" => ~Records!Stored(call[p])
  PROVE  Records!Answer(call[p], kind, offset)
  BY DEF Return, LogInv, OpenInv, Records!Answer, Records!Open

LEMMA Ends ==
  ASSUME IInv, LogInv, NEW p \in Procs, DialFails(p) \/ Parse(p) \/ Closing(p)
  PROVE  LogInv' /\ Records!RLNext
<1>1. /\ pc[p] \notin {"idle", "read", "relock"}
      /\ UNCHANGED <<log, made, call, requests, corr>>
      /\ sock \in [Procs -> 0 .. MaxConns]
      /\ \A q \in Procs \ {p} : sock'[q] = sock[q]
  BY DEF DialFails, Parse, Closing, peer, IInv, TypeOK
<1>2. OpenInv(p) /\ call[p] \in CallIds /\ DOMAIN result = CallIds
  BY <1>1, ParamAssumption DEF LogInv, IInv, TypeOK, ProcInv, CallIds
<1>3. CASE Return(p, "error", 0)
  BY <1>1, <1>2, <1>3, LogReturns, Answers DEF Records!RLNext
<1>4. CASE Closing(p)
  <2>1. ~Records!Stored(call[p]) /\ Return(p, "closed", 0)
    BY <1>2, <1>4 DEF Closing, OpenInv
  <2> QED
    BY <1>1, <1>2, <2>1, LogReturns, Answers DEF Records!RLNext
<1>5. CASE Parse(p) /\ Accepts(reply[p], corr[p])
  <2>1. AnswersTo(reply[p], p)
    BY <1>5 DEF Parse, IInv, ProcInv
  <2>2. /\ reply[p].offset \in 1 .. Len(log) /\ log[reply[p].offset] = call[p]
        /\ Return(p, "offset", reply[p].offset)
    BY <1>5, <2>1 DEF Parse, Accepts, AnswersTo, Truthful
  <2>3. LogInv'
    BY <1>1, <2>2, LogReturns
  <2>4. Records!Answer(call[p], "offset", reply[p].offset)
    BY <1>1, <2>2, Answers
  <2> QED
    BY <1>2, <2>2, <2>3, <2>4 DEF Records!RLNext
<1> QED
  BY <1>3, <1>4, <1>5 DEF DialFails, Parse

\* The broker takes a request off a connection; it may store its record.
LEMMA LogServes ==
  ASSUME IInv, LogInv, NEW c \in Conns, Serve(c)
  PROVE  LogInv' /\ [Records!RLNext]_(Records!rlVars)
<1>1. PICK p \in Procs :
        /\ pc[p] \in {"read", "relock"} /\ sock[p] = c
        /\ requests[c] = <<[corr |-> corr[p], call |-> call[p]]>>
        /\ ~Records!Stored(call[p])
  BY DEF Serve, Store, Reject, Answer, LogInv, RequestInv
<1>2. /\ UNCHANGED <<pc, sock, corr, call, result, made>>
      /\ requests \in [Conns -> Seq(Request)] /\ log \in Seq(CallIds) /\ made \in Nat
      /\ requests' = [requests EXCEPT ![c] = Tail(requests[c])]
  <2>1. UNCHANGED client /\ requests' = [requests EXCEPT ![c] = Tail(requests[c])]
    BY DEF Serve, Store, Reject, Answer
  <2> QED
    BY <2>1, ParamAssumption DEF client, IInv, TypeOK
<1>3. requests'[c] = <<>> /\ \A d \in Conns \ {c} : requests'[d] = requests[d]
  BY <1>1, <1>2
<1>4. Head(requests[c]).call = call[p]
  BY <1>1
<1>5. call[p] \in 1 .. made /\ result[call[p]].kind = "none" /\ call[p] \in CallIds
  BY <1>1, ParamAssumption DEF LogInv, OpenInv, IInv, TypeOK, ProcInv, CallIds
<1>6. \A q \in Procs \ {p} : pc[q] # "idle" => call[q] # call[p]
  BY <1>1 DEF LogInv, OpenInv
<1>7. \A k : Records!Stored(k)' => Records!Stored(k) \/ k = call[p]
  <2>1. CASE log' = log
    BY <2>1 DEF Records!Stored
  <2>2. CASE log' = Append(log, call[p])
    <3> SUFFICES ASSUME NEW k, NEW n \in 1 .. Len(log'), log'[n] = k, k # call[p]
                 PROVE  \E m \in 1 .. Len(log) : log[m] = k
      BY DEF Records!Stored
    <3>1. n \in 1 .. Len(log) /\ log'[n] = log[n]
      BY <1>2, <1>5, <2>2
    <3> QED
      BY <3>1
  <2> QED
    BY <1>4, <2>1, <2>2 DEF Serve, Store, Reject
<1>8. FreshInv'
  BY <1>2, <1>5, <1>7 DEF LogInv, FreshInv
<1>9. ASSUME NEW q \in Procs PROVE OpenInv(q)'
  BY <1>1, <1>2, <1>6, <1>7 DEF LogInv, OpenInv
<1>10. RequestInv'
  <2> SUFFICES ASSUME NEW d \in Conns, requests'[d] # <<>>
               PROVE  \E o \in Procs :
                        /\ pc'[o] \in {"read", "relock"} /\ sock'[o] = d
                        /\ requests'[d] = <<[corr |-> corr'[o], call |-> call'[o]]>>
                        /\ ~Records!Stored(call[o])'
    BY <1>2 DEF RequestInv
  <2>1. d # c /\ requests'[d] = requests[d]
    BY <1>3
  <2>2. PICK o \in Procs : /\ pc[o] \in {"read", "relock"} /\ sock[o] = d
                           /\ requests[d] = <<[corr |-> corr[o], call |-> call[o]]>>
                           /\ ~Records!Stored(call[o])
    BY <2>1 DEF LogInv, RequestInv
  <2>3. call[o] # call[p]
    BY <1>1, <1>6, <2>1, <2>2
  <2> QED
    BY <1>2, <1>7, <2>1, <2>2, <2>3
<1>11. [Records!RLNext]_(Records!rlVars)
  <2>1. CASE Store(c)
    <3>1. log' = Append(log, call[p])
      BY <1>4, <2>1 DEF Store
    <3>2. Records!Store(call[p])
      BY <1>1, <1>2, <1>5, <3>1 DEF Records!Store
    <3>3. DOMAIN result = CallIds
      BY DEF IInv, TypeOK
    <3> QED
      BY <1>5, <3>2, <3>3 DEF Records!RLNext
  <2>2. CASE Reject(c)
    BY <1>2, <2>2 DEF Reject, Records!rlVars
  <2> QED
    BY <2>1, <2>2 DEF Serve
<1> QED
  BY <1>8, <1>9, <1>10, <1>11 DEF LogInv

LEMMA LogStays ==
  ASSUME LogInv, UNCHANGED <<pc, sock, corr, call, result, made, requests, log>>
  PROVE  LogInv'
<1>1. \A k : Records!Stored(k)' <=> Records!Stored(k)
  BY DEF Records!Stored
<1>2. FreshInv'
  BY <1>1 DEF LogInv, FreshInv
<1>3. \A p \in Procs : OpenInv(p)'
  BY <1>1 DEF LogInv, OpenInv
<1>4. RequestInv'
  BY <1>1 DEF LogInv, RequestInv
<1> QED
  BY <1>2, <1>3, <1>4 DEF LogInv

LEMMA LogNext ==
  IInv /\ LogInv /\ [Next]_vars => LogInv' /\ [Records!RLNext]_(Records!rlVars)
<1> SUFFICES ASSUME IInv, LogInv, [Next]_vars
             PROVE  LogInv' /\ [Records!RLNext]_(Records!rlVars)
  OBVIOUS
<1>1. ASSUME NEW p \in Procs, Produce(p) \/ Close(p)
      PROVE  LogInv' /\ [Records!RLNext]_(Records!rlVars)
  BY <1>1, LogBegins DEF Produce, Close, Records!RLNext
<1>2. ASSUME NEW p \in Procs, Lock(p) \/ Run(p)
      PROVE  LogInv' /\ [Records!RLNext]_(Records!rlVars)
  <2>1. CASE Write(p)
    BY <2>1, LogWrites DEF Write, Records!rlVars
  <2> QED
    BY <1>2, <2>1, QuietSteps, Ends DEF Run
<1>3. ASSUME NEW c \in Conns, Break(c)
      PROVE  LogInv' /\ UNCHANGED Records!rlVars
  BY <1>3, LogStays DEF Break, client, Records!rlVars
<1>4. CASE UNCHANGED vars
  BY <1>4, LogStays DEF vars, client, peer, Records!rlVars
<1> QED
  BY <1>1, <1>2, <1>3, <1>4, LogServes DEF Next

\* The client, its connections and the broker are the log of records: each call's
\* record is stored at most once, and a call is answered once and with the truth.
THEOREM LogRefinement == Spec => ImplementsRecordLog
<1>1. Init => Records!RLInit
  BY DEF Init, Records!RLInit
<1> QED
  BY <1>1, LogInit, LogNext, InductiveInvariant, PTL DEF Spec, ImplementsRecordLog, Records!RLSpec
-----------------------------------------------------------------------------
(***************************************************************************)
(* The codec: what is written is read back.  First, arithmetic, and recursion*)
(* on the numbers up to a bound.                                           *)
(***************************************************************************)

\* Quotient and remainder.
LEMMA DivMod ==
  ASSUME NEW v \in Int, NEW d \in Nat, d > 0
  PROVE  /\ v \div d \in Int /\ v % d \in Int
         /\ v = d * (v \div d) + (v % d) /\ 0 <= v % d /\ v % d < d
<1> DEFINE q == v \div d
           r == v % d
<1>1. q \in Int /\ r \in Int /\ 0 <= r /\ r < d
  OBVIOUS
<1>2. r = v - d * q
  OBVIOUS
<1>3. d * q \in Int
  BY <1>1
<1>4. v = d * q + r
  <2> HIDE DEF q, r
  <2> QED
    BY <1>1, <1>2, <1>3
<1> QED
  BY <1>1, <1>4, Zenon
\* There is one quotient and one remainder.
LEMMA Unique ==
  ASSUME NEW d \in Nat, d > 0, NEW q \in Int, NEW r \in Int, 0 <= r, r < d,
         NEW p \in Int, NEW s \in Int, 0 <= s, s < d, d * q + r = d * p + s
  PROVE q = p /\ r = s
<1>1. d * (q - p) = s - r
  BY SMT
<1>2. CASE q - p >= 1
  <2>1. d * (q - p) >= d
    BY <1>2, SMT
  <2> QED
    BY <1>1, <2>1, SMT
<1>3. CASE q - p <= -1
  <2>1. d * (q - p) <= -d
    BY <1>3, SMT
  <2> QED
    BY <1>1, <2>1, SMT
<1>4. q - p = 0 => r = s
  BY <1>1, SMT
<1> QED
  BY <1>2, <1>3, <1>4, SMT
\* Dividing by one number and then by another is dividing by their product.
LEMMA DivStep ==
  ASSUME NEW v \in Int, NEW d \in Nat, d > 0, NEW b \in Nat, b > 0
  PROVE /\ (v \div d) \div b = v \div (d * b)
        /\ ((v \div d) % b) * d + (v % d) = v % (d * b)
<1> DEFINE q == v \div d
           r == v % d
           x == q \div b
           y == q % b
<1>1. q \in Int /\ r \in Int /\ v = d * q + r /\ 0 <= r /\ r < d
  BY DivMod
<1>2. x \in Int /\ y \in Int /\ q = b * x + y /\ 0 <= y /\ y < b
  BY <1>1, DivMod
<1> DEFINE e == d * b
           z == y * d + r
<1>3. e \in Nat /\ e > 0
  BY SMT
<1> HIDE DEF q, r, x, y
<1>4. v = e * x + z
  BY <1>1, <1>2, SMT
<1>5. z \in Int /\ 0 <= z /\ z < e
  <2>1. y * d >= 0 /\ y * d <= (b - 1) * d
    BY <1>2, SMT
  <2>2. (b - 1) * d = e - d
    BY SMT
  <2> QED
    BY <1>1, <1>2, <2>1, <2>2, SMT
<1> HIDE DEF e, z
<1>6. v \div e \in Int /\ v % e \in Int /\ v = e * (v \div e) + (v % e) /\ 0 <= v % e /\ v % e < e
  BY <1>3, DivMod
<1>7. x = v \div e /\ z = v % e
  BY <1>2, <1>3, <1>4, <1>5, <1>6, Unique
<1>8. x = v \div (d * b) /\ z = v % (d * b)
  BY <1>7, Zenon DEF e
<1>9. q \div b = v \div (d * b) /\ (q % b) * d + r = v % (d * b)
  BY <1>8, Zenon DEF z, x, y
<1> QED
  BY <1>9, Zenon DEF q, r

\* The least number that is not in a set.
LEMMA LeastOutside ==
  ASSUME NEW N \in Nat, NEW S, NEW m \in 0 .. N, m \notin S
  PROVE  \E k \in 0 .. N : k \notin S /\ \A j \in 0 .. k - 1 : j \in S
<1> DEFINE Below == {p \in Nat \X Nat : p[1] < p[2]}
           Out   == {k \in 0 .. N : k \notin S}
<1>1. IsWellFoundedOn(Below, Nat)
  BY NatLessThanWellFounded, Zenon DEF OpToRel
<1>2. Out \subseteq Nat /\ m \in Out
  OBVIOUS
<1>3. PICK k \in Out : \A j \in Out : ~(<<j, k>> \in Below)
  BY <1>1, <1>2, WFMin, Zenon
<1>4. ASSUME NEW j \in 0 .. k - 1 PROVE j \in S
  <2>1. j \in Nat /\ k \in Nat /\ j < k /\ j \in 0 .. N
    OBVIOUS
  <2>2. <<j, k>> \in Below
    BY <2>1
  <2>3. j \notin Out
    BY <1>3, <2>2
  <2> QED
    BY <2>1, <2>3
<1> QED
  BY <1>3, <1>4

\* A set that holds 0, and with each number the next one, holds every number up to N.
LEMMA UpTo ==
  ASSUME NEW N \in Nat, NEW S, 0 \in S, \A k \in 1 .. N : k - 1 \in S => k \in S
  PROVE  \A k \in 0 .. N : k \in S
<1> SUFFICES ASSUME NEW m \in 0 .. N, m \notin S PROVE FALSE
  OBVIOUS
<1>1. PICK k \in 0 .. N : k \notin S /\ \A j \in 0 .. k - 1 : j \in S
  BY LeastOutside, Zenon
<1>2. k # 0 /\ k \in 1 .. N /\ k - 1 \in 0 .. k - 1
  BY <1>1
<1> QED
  BY <1>1, <1>2

\* A function given by its value at 0 and by how each value follows from the one
\* before it exists.
Definable(N, T, x, G) ==
  \E f \in [0 .. N -> T] : f[0] = x /\ \A k \in 1 .. N : f[k] = G[k][f[k - 1]]

\* What is defined from one number to the next exists.
LEMMA Recursion ==
  ASSUME NEW N \in Nat, NEW T, NEW x \in T, NEW G \in [1 .. N -> [T -> T]]
  PROVE  Definable(N, T, x, G)
<1> DEFINE Good == {n \in 0 .. N : \E f \in [0 .. n -> T] :
                                     f[0] = x /\ \A k \in 1 .. n : f[k] = G[k][f[k - 1]]}
<1>1. 0 \in Good
  <2> DEFINE g == [k \in 0 .. 0 |-> x]
  <2>1. g \in [0 .. 0 -> T] /\ g[0] = x /\ (\A k \in 1 .. 0 : g[k] = G[k][g[k - 1]]) /\ 0 \in 0 .. N
    OBVIOUS
  <2> HIDE DEF g
  <2> QED
    BY <2>1
<1>2. ASSUME NEW n \in 1 .. N, n - 1 \in Good PROVE n \in Good
  <2>1. PICK f \in [0 .. n - 1 -> T] : f[0] = x /\ \A k \in 1 .. n - 1 : f[k] = G[k][f[k - 1]]
    BY <1>2
  <2> DEFINE g == [k \in 0 .. n |-> IF k = n THEN G[n][f[n - 1]] ELSE f[k]]
  <2>2. n - 1 \in 0 .. n - 1 /\ f[n - 1] \in T /\ G[n][f[n - 1]] \in T
    <3>1. n - 1 \in 0 .. n - 1 /\ f[n - 1] \in T /\ G[n] \in [T -> T]
      OBVIOUS
    <3> QED
      BY <3>1
  <2>3. g \in [0 .. n -> T] /\ g[0] = x
    BY <2>1, <2>2
  <2>4. ASSUME NEW k \in 1 .. n PROVE g[k] = G[k][g[k - 1]]
    <3>1. k - 1 \in 0 .. n /\ k \in 0 .. n /\ k - 1 # n /\ g[k - 1] = f[k - 1]
      OBVIOUS
    <3>2. k # n => k \in 1 .. n - 1 /\ g[k] = f[k]
      OBVIOUS
    <3>3. k = n => g[k] = G[n][f[n - 1]]
      OBVIOUS
    <3> HIDE DEF g
    <3> QED
      BY <2>1, <3>1, <3>2, <3>3
  <2> HIDE DEF g
  <2> QED
    BY <2>3, <2>4
<1>3. N \in Good
  <2> HIDE DEF Good
  <2>1. \A k \in 0 .. N : k \in Good
    BY <1>1, <1>2, UpTo, Zenon
  <2> QED
    BY <2>1
<1> QED
  BY <1>3 DEF Definable
-----------------------------------------------------------------------------
(***************************************************************************)
(* Integers: the bytes of an integer stand for it.                         *)
(***************************************************************************)

\* The powers of the byte size, one after the other.
LEMMA PowFacts ==
  /\ Pow[0] = 1
  /\ \A k \in 1 .. 8 : Pow[k] = Pow[k - 1] * B
  /\ \A k \in 0 .. 8 : Pow[k] \in Nat /\ Pow[k] > 0
<1> DEFINE G == [k \in 1 .. 8 |-> [y \in Nat |-> y * B]]
           above == CHOOSE f : f = [n \in 0 .. 8 |-> IF n = 0 THEN 1 ELSE f[n - 1] * B]
<1>0. B \in Nat /\ B > 1
  BY ByteAssumption
<1>1. G \in [1 .. 8 -> [Nat -> Nat]]
  BY <1>0
<1>2. PICK f \in [0 .. 8 -> Nat] : f[0] = 1 /\ \A k \in 1 .. 8 : f[k] = G[k][f[k - 1]]
  <2> HIDE DEF G
  <2>1. Definable(8, Nat, 1, G)
    BY <1>1, Recursion
  <2> QED
    BY <2>1 DEF Definable
<1>3. f = [n \in 0 .. 8 |-> IF n = 0 THEN 1 ELSE f[n - 1] * B]
  <2>1. \A k \in 0 .. 8 : f[k] = IF k = 0 THEN 1 ELSE f[k - 1] * B
    BY <1>2
  <2> QED
    BY <2>1
<1>4. above = [n \in 0 .. 8 |-> IF n = 0 THEN 1 ELSE above[n - 1] * B]
  BY <1>3
<1>5. Pow = above
  BY DEF Pow
<1>6. Pow[0] = 1 /\ \A k \in 1 .. 8 : Pow[k] = Pow[k - 1] * B
  <2> HIDE DEF above
  <2>1. Pow = [n \in 0 .. 8 |-> IF n = 0 THEN 1 ELSE Pow[n - 1] * B]
    BY <1>4, <1>5
  <2> QED
    BY <2>1
<1>7. \A k \in 0 .. 8 : k \in {n \in 0 .. 8 : Pow[n] \in Nat /\ Pow[n] > 0}
  <2> DEFINE S == {n \in 0 .. 8 : Pow[n] \in Nat /\ Pow[n] > 0}
  <2>1. 0 \in S
    BY <1>6
  <2>2. ASSUME NEW k \in 1 .. 8, k - 1 \in S PROVE k \in S
    <3>1. Pow[k] = Pow[k - 1] * B
      BY <1>6
    <3> DEFINE p == Pow[k - 1]
    <3>2. p \in Nat /\ p > 0
      BY <2>2
    <3> HIDE DEF p
    <3>3. p * B \in Nat /\ p * B > 0
      BY <1>0, <3>2, SMT
    <3> QED
      BY <3>1, <3>3 DEF p
  <2> HIDE DEF S
  <2>3. 8 \in Nat
    OBVIOUS
  <2>4. \A k \in 0 .. 8 : k \in S
    BY <2>1, <2>2, <2>3, UpTo
  <2> QED
    BY <2>4 DEF S
<1> QED
  BY <1>6, <1>7

\* What bytes stand for, byte by byte.
LEMMA UnsignedSteps ==
  ASSUME NEW b \in Seq(Int)
  PROVE  \E u \in [0 .. Len(b) -> Int] :
           /\ u[0] = 0 /\ \A k \in 1 .. Len(b) : u[k] = u[k - 1] * B + b[k]
           /\ Unsigned(b) = u[Len(b)]
<1> DEFINE N == Len(b)
           G == [k \in 1 .. N |-> [y \in Int |-> y * B + b[k]]]
           above == CHOOSE f : f = [k \in 0 .. N |-> IF k = 0 THEN 0 ELSE f[k - 1] * B + b[k]]
<1>1. N \in Nat /\ B \in Int /\ \A k \in 1 .. N : b[k] \in Int
  BY ByteAssumption
<1>2. G \in [1 .. N -> [Int -> Int]]
  BY <1>1
<1>3. PICK f \in [0 .. N -> Int] : f[0] = 0 /\ \A k \in 1 .. N : f[k] = G[k][f[k - 1]]
  <2> HIDE DEF G, N
  <2>1. N \in Nat /\ 0 \in Int
    BY <1>1
  <2>2. Definable(N, Int, 0, G)
    BY <1>2, <2>1, Recursion, Zenon
  <2> QED
    BY <2>2 DEF Definable
<1>4. f = [k \in 0 .. N |-> IF k = 0 THEN 0 ELSE f[k - 1] * B + b[k]]
  <2>1. ASSUME NEW k \in 1 .. N PROVE f[k] = f[k - 1] * B + b[k]
    <3>1. k - 1 \in 0 .. N
      BY <1>1
    <3>2. f[k - 1] \in Int
      BY <3>1
    <3>3. G[k][f[k - 1]] = f[k - 1] * B + b[k]
      BY <3>2
    <3> HIDE DEF G
    <3> QED
      BY <1>3, <3>3
  <2>2. \A k \in 0 .. N : k = 0 \/ k \in 1 .. N
    BY <1>1
  <2> QED
    BY <1>3, <2>1, <2>2
<1>5. above = [k \in 0 .. N |-> IF k = 0 THEN 0 ELSE above[k - 1] * B + b[k]]
  BY <1>4
<1>6. Unsigned(b) = above[N]
  BY DEF Unsigned
<1>7. /\ DOMAIN above = 0 .. N /\ above[0] = 0
      /\ \A k \in 1 .. N : above[k] = above[k - 1] * B + b[k]
  <2> HIDE DEF above
  <2>1. 0 \in 0 .. N /\ \A k \in 1 .. N : k \in 0 .. N /\ k # 0
    BY <1>1
  <2> QED
    BY <1>5, <2>1
<1>8. \A k \in 0 .. N : k \in {n \in 0 .. N : above[n] \in Int}
  <2> DEFINE S == {n \in 0 .. N : above[n] \in Int}
  <2> HIDE DEF above
  <2>1. 0 \in S
    BY <1>1, <1>7
  <2>2. ASSUME NEW k \in 1 .. N, k - 1 \in S PROVE k \in S
    BY <1>1, <1>7, <2>2
  <2> HIDE DEF S, N
  <2>3. \A k \in 0 .. N : k \in S
    BY <1>1, <2>1, <2>2, UpTo
  <2> QED
    BY <2>3 DEF S
<1>9. above \in [0 .. N -> Int]
  <2> HIDE DEF above
  <2> QED
    BY <1>5, <1>8
<1> HIDE DEF above
<1> QED
  BY <1>6, <1>7, <1>9

\* An integer is written in as many bytes as its width.
LEMMA WriteIntType ==
  ASSUME NEW v \in Int, NEW w \in 0 .. 8
  PROVE  /\ WriteInt(v, w) \in Seq(Int) /\ Len(WriteInt(v, w)) = w
         /\ \A k \in 1 .. w : WriteInt(v, w)[k] = (v \div Pow[w - k]) % B
<1>1. ASSUME NEW k \in 1 .. w PROVE (v \div Pow[w - k]) % B \in Int
  <2> DEFINE p == Pow[w - k]
  <2>1. p \in Nat /\ p > 0
    BY PowFacts
  <2> HIDE DEF p
  <2>2. v \div p \in Int
    BY <2>1
  <2>3. (v \div p) % B \in Int
    BY <2>2, ByteAssumption
  <2> QED
    BY <2>3 DEF p
<1>2. w \in Nat
  OBVIOUS
<1> QED
  BY <1>1, <1>2, LenProperties DEF WriteInt

\* An integer read back from its bytes is the integer modulo the number of values.
LEMMA UnsignedOfInt ==
  ASSUME NEW v \in Int, NEW w \in 0 .. 8
  PROVE  Unsigned(WriteInt(v, w)) = v % Pow[w]
<1> DEFINE b == WriteInt(v, w)
           S == {k \in 0 .. w : \A u \in [0 .. w -> Int] :
                    (u[0] = 0 /\ \A j \in 1 .. w : u[j] = u[j - 1] * B + b[j])
                      => u[k] = (v \div Pow[w - k]) % Pow[k]}
<1>0. w \in Nat /\ B \in Nat /\ B > 0 /\ B > 1
  BY ByteAssumption
<1>1. b \in Seq(Int) /\ Len(b) = w /\ \A k \in 1 .. w : b[k] = (v \div Pow[w - k]) % B
  BY WriteIntType
<1> HIDE DEF b
<1>2. 0 \in S
  <2> DEFINE q == v \div Pow[w - 0]
  <2>1. Pow[w - 0] \in Nat /\ Pow[w - 0] > 0 /\ Pow[0] = 1
    BY <1>0, PowFacts
  <2>2. q \in Int
    BY <2>1
  <2> HIDE DEF q
  <2>3. q % 1 = 0
    BY <2>2
  <2>4. 0 = (v \div Pow[w - 0]) % Pow[0]
    BY <2>1, <2>3 DEF q
  <2> QED
    BY <2>4, <1>0
<1>3. ASSUME NEW k \in 1 .. w, k - 1 \in S PROVE k \in S
  <2> SUFFICES ASSUME NEW u \in [0 .. w -> Int], u[0] = 0,
                      \A j \in 1 .. w : u[j] = u[j - 1] * B + b[j]
               PROVE  u[k] = (v \div Pow[w - k]) % Pow[k]
    OBVIOUS
  <2> DEFINE d == Pow[w - k]
             p == Pow[k - 1]
             q == v \div d
  <2>1. d \in Nat /\ d > 0 /\ p \in Nat /\ p > 0 /\ Pow[w - (k - 1)] = d * B /\ Pow[k] = p * B
    <3>1. w - k \in 0 .. 8 /\ k - 1 \in 0 .. 8 /\ w - (k - 1) \in 1 .. 8 /\ k \in 1 .. 8
          /\ w - (k - 1) - 1 = w - k
      OBVIOUS
    <3> QED
      BY <3>1, PowFacts
  <2>2. u[k - 1] = (v \div (d * B)) % p
    BY <1>3, <2>1
  <2>3. u[k] = u[k - 1] * B + (q % B)
    BY <1>1
  <2>4. q \in Int
    BY <2>1
  <2> HIDE DEF d, p
  <2>5. q \div B = v \div (d * B)
    BY <1>0, <2>1, DivStep
  <2> HIDE DEF q
  <2>6. ((q \div B) % p) * B + (q % B) = q % (B * p)
    BY <1>0, <2>1, <2>4, DivStep
  <2>7. B * p = p * B
    BY <1>0, <2>1
  <2>8. u[k] = q % (p * B)
    BY <2>2, <2>3, <2>5, <2>6, <2>7
  <2>9. u[k] = q % Pow[k]
    BY <2>1, <2>8
  <2> QED
    BY <2>9 DEF q, d
<1>4. w \in S
  <2> HIDE DEF S
  <2>1. \A k \in 0 .. w : k \in S
    BY <1>0, <1>2, <1>3, UpTo
  <2> QED
    BY <1>0, <2>1
<1>5. PICK u \in [0 .. w -> Int] :
        /\ u[0] = 0 /\ \A k \in 1 .. w : u[k] = u[k - 1] * B + b[k]
        /\ Unsigned(b) = u[w]
  BY <1>1, UnsignedSteps
<1>6. u[w] = (v \div Pow[w - w]) % Pow[w]
  BY <1>4, <1>5
<1>7. v \div Pow[w - w] = v
  <2>1. w - w = 0 /\ v \div 1 = v
    BY <1>0
  <2> QED
    BY <2>1, PowFacts
<1> QED
  BY <1>5, <1>6, <1>7 DEF b

\* An integer of a width is read back as it was written.
LEMMA SignedOfInt ==
  ASSUME NEW w \in 1 .. 8, NEW v \in Ints(w)
  PROVE  Signed(WriteInt(v, w)) = v
<1> DEFINE p == Pow[w]
           h == p \div 2
           u == Unsigned(WriteInt(v, w))
<1>1. p \in Nat /\ p > 1
  <2> DEFINE r == Pow[w - 1]
  <2>1. p = r * B /\ r \in Nat /\ r > 0
    BY PowFacts
  <2> HIDE DEF p, r
  <2> QED
    BY <2>1, ByteAssumption, SMT
<1>2. h \in Int /\ 2 * h <= p /\ p <= 2 * h + 1
  <2> HIDE DEF p
  <2> QED
    BY <1>1
<1>3. v \in Int /\ h - p <= v /\ v <= h - 1
  BY <1>1, <1>2 DEF Ints, MaxInt
<1>4. u = v % p
  BY <1>3, UnsignedOfInt
<1>5. Signed(WriteInt(v, w)) = IF u > h - 1 THEN u - p ELSE u
  <2>1. Len(WriteInt(v, w)) = w
    <3>1. w \in 0 .. 8
      OBVIOUS
    <3> QED
      BY <1>3, <3>1, WriteIntType
  <2> QED
    BY <2>1 DEF Signed, MaxInt
<1> HIDE DEF u, h, p
<1>6. v \div p \in Int /\ v % p \in Int /\ v = p * (v \div p) + (v % p) /\ 0 <= v % p /\ v % p < p
  BY <1>1, <1>3, DivMod
<1>7. CASE v >= 0
  <2>1. v % p = v
    BY <1>1, <1>2, <1>3, <1>7
  <2> QED
    BY <1>2, <1>3, <1>4, <1>5, <2>1
<1>8. CASE v < 0
  <2> DEFINE q == v \div p
             r == v % p
  <2>1. q \in Int /\ r \in Int /\ v = p * q + r /\ 0 <= r /\ r < p
    BY <1>6
  <2>2. v = p * (-1) + (v + p) /\ 0 <= v + p /\ v + p < p /\ p > 0 /\ -1 \in Int /\ v + p \in Int
    BY <1>1, <1>2, <1>3, <1>8
  <2> DEFINE m == -1
             s == v + p
  <2> HIDE DEF q, r
  <2>3. p * q + r = p * m + s /\ m \in Int /\ s \in Int /\ 0 <= s /\ s < p
    BY <2>1, <2>2
  <2> HIDE DEF m, s
  <2>4. r = s
    BY <1>1, <2>1, <2>2, <2>3, Unique
  <2>5. v % p = v + p
    BY <2>4 DEF r, s
  <2> QED
    BY <1>1, <1>2, <1>3, <1>4, <1>5, <1>8, <2>5
<1> QED
  BY <1>3, <1>7, <1>8
-----------------------------------------------------------------------------
(***************************************************************************)
(* The two kinds of readers, of a stream (codec.go) and of a frame (wire.go),*)
(* read the same.                                                          *)
(***************************************************************************)

\* What bytes stand for, without a sign and with one, is an integer.
LEMMA UnsignedType == ASSUME NEW b \in Seq(Int) PROVE Unsigned(b) \in Int
<1>1. PICK u \in [0 .. Len(b) -> Int] :
        /\ u[0] = 0 /\ \A k \in 1 .. Len(b) : u[k] = u[k - 1] * B + b[k]
        /\ Unsigned(b) = u[Len(b)]
  BY UnsignedSteps
<1>2. Len(b) \in 0 .. Len(b)
  OBVIOUS
<1> QED
  BY <1>1, <1>2

LEMMA SignedType ==
  ASSUME NEW b \in Seq(Int), Len(b) \in 0 .. 8
  PROVE  Signed(b) \in Int
<1> DEFINE p == Pow[Len(b)]
<1>1. p \in Int
  <2> DEFINE w == Len(b)
  <2>1. w \in 0 .. 8
    OBVIOUS
  <2> HIDE DEF w
  <2>2. Pow[w] \in Nat
    BY <2>1, PowFacts
  <2> QED
    BY <2>2 DEF w
<1>2. Unsigned(b) \in Int
  BY UnsignedType
<1>3. Signed(b) = IF Unsigned(b) > MaxInt(Len(b)) THEN Unsigned(b) - p ELSE Unsigned(b)
  BY DEF Signed
<1> HIDE DEF p
<1> QED
  BY <1>1, <1>2, <1>3

(* The two kinds of readers. *)

\* What is left of a frame at place i, for a reader of a stream and one of a frame.
Rest(s, i)  == SubSeq(s, i + 1, Len(s))
Place(s, i) == [b |-> s, i |-> i]

\* A part of a sequence: its length and its elements.
LEMMA SubType ==
  ASSUME NEW s \in Seq(Int), NEW m \in Int, NEW n \in Int, 1 <= m, m <= n + 1, n <= Len(s)
  PROVE  /\ SubSeq(s, m, n) \in Seq(Int) /\ Len(SubSeq(s, m, n)) = n - m + 1
         /\ \A k \in 1 .. n - m + 1 : SubSeq(s, m, n)[k] = s[m + k - 1]
<1>1. \A k \in m .. n : s[k] \in Int
  OBVIOUS
<1>2. /\ SubSeq(s, m, n) \in Seq(Int)
      /\ Len(SubSeq(s, m, n)) = IF m <= n THEN n - m + 1 ELSE 0
      /\ \A k \in 1 .. n - m + 1 : SubSeq(s, m, n)[k] = s[m + k - 1]
  BY <1>1, SubSeqProperties, SMTT(30)
<1>3. Len(SubSeq(s, m, n)) = n - m + 1
  BY <1>2
<1> QED
  BY <1>2, <1>3

\* What is left of a frame.
LEMMA RestType ==
  ASSUME NEW s \in Seq(Int), NEW i \in 0 .. Len(s)
  PROVE  /\ Rest(s, i) \in Seq(Int) /\ Len(Rest(s, i)) = Len(s) - i
         /\ \A k \in 1 .. Len(s) - i : Rest(s, i)[k] = s[i + k]
<1> DEFINE m == i + 1
           n == Len(s)
<1>1. m \in Int /\ n \in Int /\ 1 <= m /\ m <= n + 1 /\ n <= Len(s)
  OBVIOUS
<1>2. Rest(s, i) = SubSeq(s, m, n)
  BY DEF Rest
<1>3. n - m + 1 = Len(s) - i /\ m = i + 1 /\ Len(s) \in Nat
  OBVIOUS
<1> HIDE DEF m, n
<1>4. /\ SubSeq(s, m, n) \in Seq(Int) /\ Len(SubSeq(s, m, n)) = n - m + 1
      /\ \A k \in 1 .. n - m + 1 : SubSeq(s, m, n)[k] = s[m + k - 1]
  BY <1>1, SubType
<1>5. ASSUME NEW k \in 1 .. Len(s) - i PROVE SubSeq(s, m, n)[k] = s[i + k]
  <2>1. k \in 1 .. n - m + 1 /\ m + k - 1 = i + k
    BY <1>3
  <2> QED
    BY <1>4, <2>1
<1>6. Len(SubSeq(s, m, n)) = Len(s) - i
  BY <1>3, <1>4
<1> QED
  BY <1>2, <1>4, <1>5, <1>6

\* The next n bytes of a frame.
LEMMA NextType ==
  ASSUME NEW s \in Seq(Int), NEW i \in 0 .. Len(s), NEW n \in Nat, n <= Len(s) - i
  PROVE  /\ SubSeq(s, i + 1, i + n) \in Seq(Int) /\ Len(SubSeq(s, i + 1, i + n)) = n
         /\ \A k \in 1 .. n : SubSeq(s, i + 1, i + n)[k] = s[i + k]
<1> DEFINE a == i + 1
           b == i + n
<1>1. a \in Int /\ b \in Int /\ 1 <= a /\ a <= b + 1 /\ b <= Len(s)
  OBVIOUS
<1>2. b - a + 1 = n /\ a = i + 1 /\ \A k \in Int : a + k - 1 = i + k
  OBVIOUS
<1>3. SubSeq(s, i + 1, i + n) = SubSeq(s, a, b)
  OBVIOUS
<1> HIDE DEF a, b
<1>4. /\ SubSeq(s, a, b) \in Seq(Int) /\ Len(SubSeq(s, a, b)) = b - a + 1
      /\ \A k \in 1 .. b - a + 1 : SubSeq(s, a, b)[k] = s[a + k - 1]
  BY <1>1, SubType
<1>5. ASSUME NEW k \in 1 .. n PROVE SubSeq(s, a, b)[k] = s[i + k]
  <2>1. k \in 1 .. b - a + 1 /\ a + k - 1 = i + k
    BY <1>2
  <2> QED
    BY <1>4, <2>1
<1>6. Len(SubSeq(s, a, b)) = n
  BY <1>2, <1>4
<1> QED
  BY <1>3, <1>4, <1>5, <1>6

\* Both readers take the same bytes and leave the same ones.
LEMMA SameBytes ==
  ASSUME NEW s \in Seq(Int), NEW i \in 0 .. Len(s), NEW n \in Nat, n <= Len(s) - i
  PROVE  /\ SubSeq(Rest(s, i), 1, n) = SubSeq(s, i + 1, i + n)
         /\ SubSeq(Rest(s, i), n + 1, Len(Rest(s, i))) = Rest(s, i + n)
<1> DEFINE t == Rest(s, i)
           j == i + n
<1>1. t \in Seq(Int) /\ Len(t) = Len(s) - i /\ \A k \in 1 .. Len(s) - i : t[k] = s[i + k]
  BY RestType
<1>2. n \in 0 .. Len(t) /\ j \in 0 .. Len(s) /\ Len(s) - j = Len(t) - n /\ Len(t) \in Nat
      /\ 1 <= n + 1 /\ n <= Len(t)
  BY <1>1
<1> HIDE DEF t
<1>3. SubSeq(t, 1, n) = SubSeq(s, i + 1, i + n)
  <2>1. /\ SubSeq(t, 1, n) \in Seq(Int) /\ Len(SubSeq(t, 1, n)) = n
        /\ \A k \in 1 .. n : SubSeq(t, 1, n)[k] = t[k]
    <3>1. n - 1 + 1 = n /\ \A k \in Int : 1 + k - 1 = k
      OBVIOUS
    <3>2. /\ SubSeq(t, 1, n) \in Seq(Int) /\ Len(SubSeq(t, 1, n)) = n - 1 + 1
          /\ \A k \in 1 .. n - 1 + 1 : SubSeq(t, 1, n)[k] = t[1 + k - 1]
      BY <1>1, <1>2, SubType
    <3> QED
      BY <3>1, <3>2
  <2>2. /\ SubSeq(s, i + 1, i + n) \in Seq(Int) /\ Len(SubSeq(s, i + 1, i + n)) = n
        /\ \A k \in 1 .. n : SubSeq(s, i + 1, i + n)[k] = s[i + k]
    BY NextType
  <2>3. \A k \in 1 .. n : SubSeq(t, 1, n)[k] = SubSeq(s, i + 1, i + n)[k]
    BY <1>1, <1>2, <2>1, <2>2
  <2> DEFINE u == SubSeq(t, 1, n)
             w == SubSeq(s, i + 1, i + n)
  <2>4. u \in Seq(Int) /\ w \in Seq(Int) /\ Len(u) = Len(w) /\ \A k \in 1 .. Len(u) : u[k] = w[k]
    BY <2>1, <2>2, <2>3
  <2> HIDE DEF u, w
  <2>5. u = w
    BY <2>4, SeqEqual, Zenon
  <2> QED
    BY <2>5 DEF u, w
<1>4. Rest(t, n) = Rest(s, j)
  <2> HIDE DEF j
  <2>1. /\ Rest(t, n) \in Seq(Int) /\ Len(Rest(t, n)) = Len(t) - n
        /\ \A k \in 1 .. Len(t) - n : Rest(t, n)[k] = t[n + k]
    BY <1>1, <1>2, RestType
  <2>2. /\ Rest(s, j) \in Seq(Int) /\ Len(Rest(s, j)) = Len(s) - j
        /\ \A k \in 1 .. Len(s) - j : Rest(s, j)[k] = s[j + k]
    BY <1>2, RestType
  <2>3. \A k \in 1 .. Len(t) - n : n + k \in 1 .. Len(s) - i /\ i + (n + k) = j + k
    BY <1>1, <1>2 DEF j
  <2>4. \A k \in 1 .. Len(t) - n : Rest(t, n)[k] = Rest(s, j)[k]
    BY <1>1, <1>2, <2>1, <2>2, <2>3
  <2> DEFINE u == Rest(t, n)
             w == Rest(s, j)
  <2>5. u \in Seq(Int) /\ w \in Seq(Int) /\ Len(u) = Len(w) /\ \A k \in 1 .. Len(u) : u[k] = w[k]
    BY <1>2, <2>1, <2>2, <2>4
  <2> HIDE DEF u, w
  <2>6. u = w
    BY <2>5, SeqEqual, Zenon
  <2> QED
    BY <2>6 DEF u, w
<1> QED
  BY <1>3, <1>4 DEF Rest, t

\* Moving on in a frame.
LEMMA PlaceMoves ==
  ASSUME NEW s \in Seq(Int), NEW i \in 0 .. Len(s), NEW n \in Int, NEW v
  PROVE  /\ Place(s, i).b = s /\ Place(s, i).i = i
         /\ Read(Place(s, i), v, n) = [ok |-> TRUE, v |-> v, r |-> Place(s, i + n)]
<1> DEFINE rd == Place(s, i)
<1>1. rd.b = s /\ rd.i = i /\ rd \in [b: Seq(Int), i: Int]
  BY DEF Place
<1> HIDE DEF rd
<1>2. [rd EXCEPT !.i = rd.i + n] = [b |-> s, i |-> i + n]
  BY <1>1
<1> QED
  BY <1>1, <1>2 DEF Read, Place, rd

\* One step of both readers: n bytes.
LEMMA FullSame ==
  ASSUME NEW s \in Seq(Int), NEW i \in 0 .. Len(s), NEW n \in Nat
  PROVE  /\ Len(s) - i < n => ReadFull(Rest(s, i), n) = Failed
         /\ n <= Len(s) - i =>
              ReadFull(Rest(s, i), n) = Got(NextBytes(Place(s, i), n), Rest(s, i + n))
         /\ Remaining(Place(s, i)) = Len(s) - i
<1>1. Len(Rest(s, i)) = Len(s) - i /\ Len(s) \in Nat
  BY RestType
<1>2. Place(s, i).b = s /\ Place(s, i).i = i
  BY DEF Place
<1>3. CASE n <= Len(s) - i
  <2>1. /\ SubSeq(Rest(s, i), 1, n) = SubSeq(s, i + 1, i + n)
        /\ SubSeq(Rest(s, i), n + 1, Len(Rest(s, i))) = Rest(s, i + n)
    BY <1>3, SameBytes
  <2>2. ~(Len(Rest(s, i)) < n) /\ ~(Len(s) - i < n)
    BY <1>1, <1>3
  <2>3. ReadFull(Rest(s, i), n)
          = Got(SubSeq(Rest(s, i), 1, n), SubSeq(Rest(s, i), n + 1, Len(Rest(s, i))))
    BY <2>2, Zenon DEF ReadFull
  <2>4. NextBytes(Place(s, i), n) = SubSeq(s, i + 1, i + n)
    BY <1>2, Zenon DEF NextBytes
  <2>5. ReadFull(Rest(s, i), n) = Got(NextBytes(Place(s, i), n), Rest(s, i + n))
    BY <2>1, <2>3, <2>4, Zenon
  <2> QED
    BY <1>2, <2>2, <2>5 DEF Remaining
<1>4. CASE ~(n <= Len(s) - i)
  <2>1. Len(Rest(s, i)) < n
    BY <1>1, <1>4
  <2> QED
    BY <1>2, <1>4, <2>1 DEF ReadFull, Remaining
<1> QED
  BY <1>3, <1>4

\* An integer, in both: there are too few bytes, or the same value is read.
LEMMA IntSame ==
  ASSUME NEW s \in Seq(Int), NEW i \in 0 .. Len(s), NEW w \in 0 .. 8
  PROVE  \/ /\ ReadInt(Rest(s, i), w) = Failed /\ Len(s) - i < w
            /\ readInt(Place(s, i), w) = Short(Place(s, i))
         \/ \E v \in Int :
              /\ ReadInt(Rest(s, i), w) = Got(v, Rest(s, i + w)) /\ i + w \in 0 .. Len(s)
              /\ readInt(Place(s, i), w) = [ok |-> TRUE, v |-> v, r |-> Place(s, i + w)]
<1>1. Remaining(Place(s, i)) = Len(s) - i /\ Len(s) \in Nat
  BY FullSame
<1>2. CASE Len(s) - i < w
  <2>1. ReadFull(Rest(s, i), w) = Failed
    BY <1>2, FullSame
  <2> QED
    BY <1>1, <1>2, <2>1 DEF ReadInt, readInt, Failed
<1>3. CASE w <= Len(s) - i
  <2> DEFINE v == Signed(NextBytes(Place(s, i), w))
  <2>1. ReadFull(Rest(s, i), w) = Got(NextBytes(Place(s, i), w), Rest(s, i + w))
    BY <1>3, FullSame
  <2>2. v \in Int
    <3> DEFINE b == SubSeq(s, i + 1, i + w)
    <3>1. NextBytes(Place(s, i), w) = b
      BY DEF NextBytes, Place
    <3>2. b \in Seq(Int) /\ Len(b) = w
      <4>1. w \in Nat
        OBVIOUS
      <4> QED
        BY <1>3, <4>1, NextType
    <3> HIDE DEF b
    <3>3. Signed(b) \in Int
      BY <3>2, SignedType
    <3> QED
      BY <3>1, <3>3
  <2>3. ReadInt(Rest(s, i), w) = Got(v, Rest(s, i + w)) /\ i + w \in 0 .. Len(s)
    BY <1>1, <1>3, <2>1 DEF ReadInt, Got
  <2>4. ~(Remaining(Place(s, i)) < w)
    BY <1>1, <1>3
  <2>5. readInt(Place(s, i), w) = Read(Place(s, i), v, w)
    BY <2>4 DEF readInt
  <2> HIDE DEF v
  <2>6. Read(Place(s, i), v, w) = [ok |-> TRUE, v |-> v, r |-> Place(s, i + w)]
    BY PlaceMoves
  <2> QED
    BY <2>2, <2>3, <2>5, <2>6
<1> QED
  BY <1>1, <1>2, <1>3

\* A field after its length: n bytes in both.
LEMMA FieldSame ==
  ASSUME NEW s \in Seq(Int), NEW i \in 0 .. Len(s), NEW n \in Nat
  PROVE  \/ /\ ReadFull(Rest(s, i), n) = Failed /\ n > Remaining(Place(s, i))
         \/ /\ ~(n > Remaining(Place(s, i))) /\ i + n \in 0 .. Len(s)
            /\ ReadFull(Rest(s, i), n) = Got(NextBytes(Place(s, i), n), Rest(s, i + n))
            /\ Read(Place(s, i), NextBytes(Place(s, i), n), n)
                 = [ok |-> TRUE, v |-> NextBytes(Place(s, i), n), r |-> Place(s, i + n)]
<1>1. Remaining(Place(s, i)) = Len(s) - i /\ Len(s) \in Nat
  BY FullSame
<1>2. CASE Len(s) - i < n
  BY <1>1, <1>2, FullSame
<1>3. CASE n <= Len(s) - i
  <2>1. ReadFull(Rest(s, i), n) = Got(NextBytes(Place(s, i), n), Rest(s, i + n))
    BY <1>3, FullSame
  <2>2. Read(Place(s, i), NextBytes(Place(s, i), n), n)
          = [ok |-> TRUE, v |-> NextBytes(Place(s, i), n), r |-> Place(s, i + n)]
    BY PlaceMoves
  <2> QED
    BY <1>1, <1>3, <2>1, <2>2
<1> QED
  BY <1>1, <1>2, <1>3

\* What both yield is the same.
LEMMA SameGot ==
  ASSUME NEW s \in Seq(Int), NEW i \in 0 .. Len(s), NEW v
  PROVE  Same(Got(v, Rest(s, i)), [ok |-> TRUE, v |-> v, r |-> Place(s, i)])
<1>1. Len(Rest(s, i)) = Len(s) - i /\ Remaining(Place(s, i)) = Len(s) - i
  BY RestType, FullSame
<1> QED
  BY <1>1 DEF Same, Got

LEMMA SameShort == ASSUME NEW rd PROVE Same(Failed, Short(rd))
  BY DEF Same, Failed, Short

\* A byte field, in both.
LEMMA BytesSame ==
  ASSUME NEW s \in Seq(Int), NEW i \in 0 .. Len(s)
  PROVE  Same(ReadBytes(Rest(s, i)), readBytes(Place(s, i)))
<1>1. CASE ReadInt(Rest(s, i), 4) = Failed /\ readInt(Place(s, i), 4) = Short(Place(s, i))
  <2>1. ReadBytes(Rest(s, i)) = Failed
    BY <1>1 DEF ReadBytes, Failed
  <2>2. readBytes(Place(s, i)) = Short(Place(s, i))
    <3>1. ~Short(Place(s, i)).ok /\ Short(Place(s, i)).r = Place(s, i)
      BY DEF Short
    <3> QED
      BY <1>1, <3>1, Zenon DEF readBytes
  <2> QED
    BY <2>1, <2>2, SameShort
<1>2. ASSUME NEW n \in Int, NEW j \in 0 .. Len(s),
             ReadInt(Rest(s, i), 4) = Got(n, Rest(s, j)),
             readInt(Place(s, i), 4) = [ok |-> TRUE, v |-> n, r |-> Place(s, j)]
      PROVE  Same(ReadBytes(Rest(s, i)), readBytes(Place(s, i)))
  <2>1. /\ ReadBytes(Rest(s, i))
             = IF n < 0 THEN Got(Null, Rest(s, j)) ELSE ReadFull(Rest(s, j), n)
        /\ readBytes(Place(s, i))
             = IF n < 0 THEN Read(Place(s, j), Null, 0)
               ELSE IF n > Remaining(Place(s, j)) THEN Short(Place(s, j))
               ELSE Read(Place(s, j), NextBytes(Place(s, j), n), n)
    <3> DEFINE a == Got(n, Rest(s, j))
               b == [ok |-> TRUE, v |-> n, r |-> Place(s, j)]
    <3>1. a.ok /\ a.v = n /\ a.rest = Rest(s, j) /\ b.ok /\ b.v = n /\ b.r = Place(s, j)
      BY DEF Got
    <3>2. ReadInt(Rest(s, i), 4) = a /\ readInt(Place(s, i), 4) = b
      BY <1>2
    <3> HIDE DEF a, b
    <3> QED
      BY <3>1, <3>2, Zenon DEF ReadBytes, readBytes
  <2>2. CASE n < 0
    <3>1. Read(Place(s, j), Null, 0) = [ok |-> TRUE, v |-> Null, r |-> Place(s, j)]
      <4>1. j + 0 = j
        OBVIOUS
      <4> QED
        BY <4>1, PlaceMoves
    <3> QED
      BY <2>1, <2>2, <3>1, SameGot
  <2>3. CASE n \in Nat
    <3>1. ~(n < 0)
      BY <2>3
    <3>2. CASE ReadFull(Rest(s, j), n) = Failed /\ n > Remaining(Place(s, j))
      BY <2>1, <3>1, <3>2, SameShort
    <3>3. CASE /\ ~(n > Remaining(Place(s, j))) /\ j + n \in 0 .. Len(s)
               /\ ReadFull(Rest(s, j), n) = Got(NextBytes(Place(s, j), n), Rest(s, j + n))
               /\ Read(Place(s, j), NextBytes(Place(s, j), n), n)
                    = [ok |-> TRUE, v |-> NextBytes(Place(s, j), n), r |-> Place(s, j + n)]
      BY <2>1, <3>1, <3>3, SameGot
    <3> QED
      BY <2>3, <3>2, <3>3, FieldSame
  <2> QED
    BY <2>2, <2>3
<1> QED
  BY <1>1, <1>2, IntSame

\* A string, in both, but for a negative length.
LEMMA StringSame ==
  ASSUME NEW s \in Seq(Int), NEW i \in 0 .. Len(s)
  PROVE  Same(ReadString(Rest(s, i)), readString(Place(s, i))) \/ readInt(Place(s, i), 2).v < 0
<1>1. CASE ReadInt(Rest(s, i), 2) = Failed /\ readInt(Place(s, i), 2) = Short(Place(s, i))
  <2>1. ReadString(Rest(s, i)) = Failed
    BY <1>1 DEF ReadString, Failed
  <2>2. readString(Place(s, i)) = Short(Place(s, i))
    <3>1. ~Short(Place(s, i)).ok /\ Short(Place(s, i)).r = Place(s, i)
      BY DEF Short
    <3> QED
      BY <1>1, <3>1, Zenon DEF readString
  <2> QED
    BY <2>1, <2>2, SameShort
<1>2. ASSUME NEW n \in Int, NEW j \in 0 .. Len(s), ~(n < 0),
             ReadInt(Rest(s, i), 2) = Got(n, Rest(s, j)),
             readInt(Place(s, i), 2) = [ok |-> TRUE, v |-> n, r |-> Place(s, j)]
      PROVE  Same(ReadString(Rest(s, i)), readString(Place(s, i)))
  <2>1. n \in Nat /\ n >= 0
    BY <1>2
  <2>2. /\ ReadString(Rest(s, i)) = ReadFull(Rest(s, j), n)
        /\ readString(Place(s, i))
             = IF n > Remaining(Place(s, j)) THEN Short(Place(s, j))
               ELSE Read(Place(s, j), NextBytes(Place(s, j), n), n)
    BY <1>2, <2>1 DEF ReadString, readString, Got
  <2>3. CASE ReadFull(Rest(s, j), n) = Failed /\ n > Remaining(Place(s, j))
    BY <2>2, <2>3, SameShort
  <2>4. CASE /\ ~(n > Remaining(Place(s, j))) /\ j + n \in 0 .. Len(s)
             /\ ReadFull(Rest(s, j), n) = Got(NextBytes(Place(s, j), n), Rest(s, j + n))
             /\ Read(Place(s, j), NextBytes(Place(s, j), n), n)
                  = [ok |-> TRUE, v |-> NextBytes(Place(s, j), n), r |-> Place(s, j + n)]
    BY <2>2, <2>4, SameGot
  <2> QED
    BY <2>1, <2>3, <2>4, FieldSame
<1>3. \A n, j : readInt(Place(s, i), 2) = [ok |-> TRUE, v |-> n, r |-> Place(s, j)]
                          => readInt(Place(s, i), 2).v = n
  OBVIOUS
<1> QED
  BY <1>1, <1>2, <1>3, IntSame

\* A reader of a stream that has failed fails again.
LEMMA StaysFailed ==
  ASSUME NEW n \in Nat, n > 0
  PROVE  ReadInt(<<>>, n) = Failed /\ ReadString(<<>>) = Failed
<1>1. ASSUME NEW w \in Nat, w > 0 PROVE ReadInt(<<>>, w) = Failed
  <2>1. Len(<<>>) < w
    BY <1>1
  <2>2. ReadFull(<<>>, w) = Failed
    BY <2>1 DEF ReadFull
  <2> QED
    BY <2>2 DEF ReadInt, Failed
<1> QED
  BY <1>1 DEF ReadString, Failed

\* An integer field of a header, read by both.
LEMMA FieldOfHeader ==
  ASSUME NEW s \in Seq(Int), NEW i \in 0 .. Len(s), NEW w \in 0 .. 8, ReadInt(Rest(s, i), w).ok
  PROVE  \E v \in Int :
           /\ ReadInt(Rest(s, i), w) = Got(v, Rest(s, i + w)) /\ i + w \in 0 .. Len(s)
           /\ readInt(Place(s, i), w) = [ok |-> TRUE, v |-> v, r |-> Place(s, i + w)]
<1>1. ~Failed.ok
  BY DEF Failed
<1> QED
  BY <1>1, IntSame

\* The header of a request, in both.
LEMMA HeaderSame ==
  ASSUME NEW s \in Seq(Int), ReadRequestHeader(s).ok
  PROVE  ReadRequestHeader(s) = parseRequestHeader(s)
<1> DEFINE key     == ReadInt(s, 2)
           version == ReadInt(key.rest, 2)
           ident   == ReadInt(version.rest, 4)
           agent   == ReadString(ident.rest)
           header  == [apiKey |-> key.v, apiVersion |-> version.v,
                       correlationID |-> ident.v, clientID |-> agent.v]
<1>1. Rest(s, 0) = s /\ Reader(s) = Place(s, 0) /\ 0 \in 0 .. Len(s)
  BY SubSeqFull DEF Rest, Reader, Place
<1>2. /\ ReadRequestHeader(s) = IF agent.ok THEN Got(header, agent.rest) ELSE Failed
      /\ agent.ok
  BY DEF ReadRequestHeader, Failed
<1>3. Failed.rest = <<>> /\ ~Failed.ok
  BY DEF Failed
<1>4. /\ key = Failed \/ key.ok
      /\ version = Failed \/ version.ok
      /\ ident = Failed \/ ident.ok
  BY DEF ReadInt, Got, Failed
<1>5. key.ok /\ version.ok /\ ident.ok
  <2> HIDE DEF agent
  <2>1. ident # Failed
    BY <1>2, <1>3, StaysFailed DEF agent
  <2>2. version # Failed
    BY <1>3, <2>1, StaysFailed
  <2>3. key # Failed
    BY <1>3, <2>2, StaysFailed
  <2> HIDE DEF key, version, ident
  <2> QED
    BY <1>4, <2>1, <2>2, <2>3
<1>6. PICK k \in Int :
        /\ key = Got(k, Rest(s, 2)) /\ 2 \in 0 .. Len(s)
        /\ readInt(Reader(s), 2) = [ok |-> TRUE, v |-> k, r |-> Place(s, 2)]
  <2>1. ReadInt(Rest(s, 0), 2).ok
    BY <1>1, <1>5
  <2>2. 0 + 2 = 2
    OBVIOUS
  <2> QED
    BY <1>1, <2>1, <2>2, FieldOfHeader
<1>7. PICK m \in Int :
        /\ version = Got(m, Rest(s, 4)) /\ 4 \in 0 .. Len(s)
        /\ readInt(Place(s, 2), 2) = [ok |-> TRUE, v |-> m, r |-> Place(s, 4)]
  <2>1. key.rest = Rest(s, 2)
    BY <1>6 DEF Got
  <2>2. ReadInt(Rest(s, 2), 2).ok
    BY <1>5, <2>1
  <2>3. 2 + 2 = 4
    OBVIOUS
  <2> QED
    BY <1>6, <2>1, <2>2, <2>3, FieldOfHeader
<1>8. PICK c \in Int :
        /\ ident = Got(c, Rest(s, 8)) /\ 8 \in 0 .. Len(s)
        /\ readInt(Place(s, 4), 4) = [ok |-> TRUE, v |-> c, r |-> Place(s, 8)]
  <2>1. version.rest = Rest(s, 4)
    BY <1>7 DEF Got
  <2>2. ReadInt(Rest(s, 4), 4).ok
    BY <1>5, <2>1
  <2>3. 4 + 4 = 8
    OBVIOUS
  <2> QED
    BY <1>7, <2>1, <2>2, <2>3, FieldOfHeader
<1>9. agent = ReadString(Rest(s, 8))
  BY <1>8 DEF Got
<1>10. PICK n \in Int :
        /\ ReadInt(Rest(s, 8), 2) = Got(n, Rest(s, 10)) /\ 10 \in 0 .. Len(s) /\ n >= 0
        /\ readInt(Place(s, 8), 2) = [ok |-> TRUE, v |-> n, r |-> Place(s, 10)]
  <2>1. ReadInt(Rest(s, 8), 2).ok /\ ReadInt(Rest(s, 8), 2).v >= 0
    <3> DEFINE p == ReadInt(Rest(s, 8), 2)
    <3>1. agent = IF p.ok /\ p.v >= 0 THEN ReadFull(p.rest, p.v) ELSE Failed
      <4> HIDE DEF agent
      <4> QED
        BY <1>9, Zenon DEF ReadString
    <3>2. agent.ok /\ ~Failed.ok
      BY <1>2, <1>3
    <3> HIDE DEF agent, p
    <3>3. p.ok /\ p.v >= 0
      BY <3>1, <3>2
    <3> QED
      BY <3>3 DEF p
  <2>2. 8 + 2 = 10
    OBVIOUS
  <2>3. PICK n \in Int :
          /\ ReadInt(Rest(s, 8), 2) = Got(n, Rest(s, 10)) /\ 10 \in 0 .. Len(s)
          /\ readInt(Place(s, 8), 2) = [ok |-> TRUE, v |-> n, r |-> Place(s, 10)]
    BY <1>8, <2>1, <2>2, FieldOfHeader
  <2>4. n >= 0
    BY <2>1, <2>3 DEF Got
  <2> QED
    BY <2>3, <2>4
<1> DEFINE x == NextBytes(Place(s, 10), n)
           j == 10 + n
<1>11. /\ agent = ReadFull(Rest(s, 10), n)
       /\ readString(Place(s, 8))
            = IF n > Remaining(Place(s, 10)) THEN Short(Place(s, 10))
              ELSE Read(Place(s, 10), x, n)
  <2> DEFINE a == Got(n, Rest(s, 10))
             b == [ok |-> TRUE, v |-> n, r |-> Place(s, 10)]
  <2>1. a.ok /\ a.v = n /\ a.rest = Rest(s, 10) /\ b.ok /\ b.v = n /\ b.r = Place(s, 10)
    BY DEF Got
  <2>2. ReadInt(Rest(s, 8), 2) = a /\ readInt(Place(s, 8), 2) = b /\ n >= 0 /\ ~(n < 0)
    BY <1>10
  <2> HIDE DEF a, b, agent
  <2> QED
    BY <1>9, <2>1, <2>2, Zenon DEF ReadString, readString
<1>12. /\ agent = Got(x, Rest(s, j)) /\ j \in 0 .. Len(s)
       /\ readString(Place(s, 8)) = [ok |-> TRUE, v |-> x, r |-> Place(s, j)]
  <2>1. n \in Nat
    BY <1>10
  <2>2. ReadFull(Rest(s, 10), n) # Failed
    BY <1>2, <1>3, <1>11
  <2> HIDE DEF agent
  <2> QED
    BY <1>10, <1>11, <2>1, <2>2, FieldSame
<1>13. NextBytes(Place(s, j), Remaining(Place(s, j))) = Rest(s, j)
  <2>1. j + Remaining(Place(s, j)) = Len(s) /\ Place(s, j).b = s /\ Place(s, j).i = j
    <3>1. j \in 0 .. Len(s) /\ Len(s) \in Nat
      BY <1>12
    <3> HIDE DEF j
    <3>2. Remaining(Place(s, j)) = Len(s) - j /\ Place(s, j).b = s /\ Place(s, j).i = j
      BY <3>1, FullSame, PlaceMoves
    <3> QED
      BY <3>1, <3>2
  <2> HIDE DEF j
  <2> QED
    BY <2>1 DEF NextBytes, Rest
<1>14. /\ key.v = k /\ version.v = m /\ ident.v = c /\ agent.v = x /\ agent.rest = Rest(s, j)
  BY <1>6, <1>7, <1>8, <1>12 DEF Got
<1> DEFINE read == [apiKey |-> k, apiVersion |-> m, correlationID |-> c, clientID |-> x]
<1>15. ReadRequestHeader(s) = Got(read, Rest(s, j))
  <2> HIDE DEF key, version, ident, agent
  <2> QED
    BY <1>2, <1>14
<1>16. parseRequestHeader(s) = Got(read, Rest(s, j))
  <2> DEFINE rk == readInt(Reader(s), 2)
             rm == readInt(rk.r, 2)
             rc == readInt(rm.r, 4)
             rx == readString(rc.r)
  <2>1. rk.ok /\ rk.v = k /\ rk.r = Place(s, 2)
    BY <1>6
  <2>2. rm.ok /\ rm.v = m /\ rm.r = Place(s, 4)
    BY <1>7, <2>1
  <2>3. rc.ok /\ rc.v = c /\ rc.r = Place(s, 8)
    BY <1>8, <2>2
  <2>4. rx.ok /\ rx.v = x /\ rx.r = Place(s, j)
    BY <1>12, <2>3
  <2>5. parseRequestHeader(s)
          = IF rk.ok /\ rm.ok /\ rc.ok /\ rx.ok
            THEN Got([apiKey |-> rk.v, apiVersion |-> rm.v,
                      correlationID |-> rc.v, clientID |-> rx.v],
                     NextBytes(rx.r, Remaining(rx.r)))
            ELSE Failed
    BY DEF parseRequestHeader
  <2> HIDE DEF rk, rm, rc, rx, x, j
  <2> QED
    BY <1>13, <2>1, <2>2, <2>3, <2>4, <2>5
<1> QED
  BY <1>15, <1>16

\* The readers of codec.go and of wire.go agree at every place of every frame,
\* whatever the number of values of a byte.
THEOREM ReadersAlwaysAgree ==
  \A body \in Seq(Int) : \A i \in 0 .. Len(body) : AgreeAt(body, i)
<1> SUFFICES ASSUME NEW body \in Seq(Int), NEW i \in 0 .. Len(body)
             PROVE  AgreeAt(body, i)
  OBVIOUS
<1>1. Rest(body, i) \in Seq(Int)
  BY RestType
<1>2. ReadRequestHeader(Rest(body, i)).ok
      => ReadRequestHeader(Rest(body, i)) = parseRequestHeader(Rest(body, i))
  BY <1>1, HeaderSame
<1>3. /\ Same(ReadBytes(Rest(body, i)), readBytes(Place(body, i)))
      /\ Same(ReadString(Rest(body, i)), readString(Place(body, i)))
         \/ readInt(Place(body, i), 2).v < 0
  BY BytesSame, StringSame
<1> QED
  BY <1>2, <1>3, Zenon DEF AgreeAt, Rest, Place
-----------------------------------------------------------------------------
(***************************************************************************)
(* Frames: what is at a place of a frame, and what is read there.          *)
(***************************************************************************)

\* A checksum has four bytes.
LEMMA ChecksumType ==
  ASSUME NEW b \in Seq(Int), Len(b) >= 4
  PROVE  Checksum(b) \in Seq(Int) /\ Len(Checksum(b)) = 4
<1> DEFINE N == Len(b)
           Step(f, k) == (IF k > 4 THEN f[k - 4] ELSE 0) + k * b[k]
           above == CHOOSE f : f = [k \in 1 .. N |-> Step(f, k)]
           Good == {n \in 0 .. N : \E f \in [1 .. n -> Int] : \A k \in 1 .. n : f[k] = Step(f, k)}
<1>1. N \in Nat /\ N >= 4 /\ B \in Int /\ B > 0 /\ \A k \in 1 .. N : b[k] \in Int /\ k * b[k] \in Int
  BY ByteAssumption
<1>2. 0 \in Good
  <2> DEFINE g == [k \in 1 .. 0 |-> 0]
  <2>1. 0 \in 0 .. N /\ g \in [1 .. 0 -> Int] /\ \A k \in 1 .. 0 : g[k] = Step(g, k)
    BY <1>1
  <2> HIDE DEF g, N
  <2> QED
    BY <2>1
<1>3. ASSUME NEW n \in 1 .. N, n - 1 \in Good PROVE n \in Good
  <2>1. PICK f \in [1 .. n - 1 -> Int] : \A k \in 1 .. n - 1 : f[k] = Step(f, k)
    BY <1>3
  <2> DEFINE x == Step(f, n)
             g == [k \in 1 .. n |-> IF k = n THEN x ELSE f[k]]
  <2>2. x \in Int
    <3>1. n > 4 => f[n - 4] \in Int
      OBVIOUS
    <3> QED
      BY <1>1, <3>1
  <2> HIDE DEF x
  <2>3. g \in [1 .. n -> Int]
    BY <2>2
  <2>4. ASSUME NEW k \in 1 .. n PROVE g[k] = Step(g, k)
    <3>1. k > 4 => g[k - 4] = f[k - 4]
      OBVIOUS
    <3>2. g[k] = IF k = n THEN x ELSE f[k]
      OBVIOUS
    <3>3. k # n => k \in 1 .. n - 1
      OBVIOUS
    <3> HIDE DEF g
    <3> QED
      BY <2>1, <3>1, <3>2, <3>3 DEF x
  <2> HIDE DEF g
  <2>5. \A k \in 1 .. n : g[k] = Step(g, k)
    BY <2>4
  <2> HIDE DEF N, Step
  <2>6. n \in 0 .. N
    BY <1>1
  <2> QED
    BY <2>3, <2>5, <2>6
<1>4. N \in Good
  <2> HIDE DEF Good, N
  <2>1. \A k \in 0 .. N : k \in Good
    BY <1>1, <1>2, <1>3, UpTo, Zenon
  <2> QED
    BY <1>1, <2>1
<1>5. PICK f \in [1 .. N -> Int] : \A k \in 1 .. N : f[k] = Step(f, k)
  BY <1>4
<1>6. above = [k \in 1 .. N |-> Step(above, k)]
  <2>1. f = [k \in 1 .. N |-> Step(f, k)]
    BY <1>5
  <2> QED
    BY <2>1
<1>7. ASSUME NEW k \in 0 .. N PROVE \A j \in 1 .. k : above[j] \in Int
  <2> DEFINE S == {n \in 0 .. N : \A j \in 1 .. n : above[j] \in Int}
  <2> HIDE DEF above
  <2>1. 0 \in S
    BY <1>1
  <2>2. ASSUME NEW n \in 1 .. N, n - 1 \in S PROVE n \in S
    <3>1. above[n] = Step(above, n)
      BY <1>6
    <3>2. n > 4 => n - 4 \in 1 .. n - 1
      OBVIOUS
    <3>3. n > 4 => above[n - 4] \in Int
      BY <2>2, <3>2
    <3>4. above[n] \in Int
      BY <1>1, <3>1, <3>3
    <3>5. \A j \in 1 .. n : j = n \/ j \in 1 .. n - 1
      OBVIOUS
    <3> QED
      BY <2>2, <3>4, <3>5
  <2> HIDE DEF S, N
  <2>3. \A n \in 0 .. N : n \in S
    BY <1>1, <2>1, <2>2, UpTo, Zenon
  <2> QED
    BY <2>3 DEF S
<1>8. ASSUME NEW j \in 1 .. 4 PROVE above[N - 4 + j] % B \in Int
  <2> HIDE DEF above
  <2>1. N - 4 + j \in 1 .. N /\ N \in 0 .. N
    BY <1>1
  <2> DEFINE y == above[N - 4 + j]
  <2>2. y \in Int
    BY <1>7, <2>1
  <2> HIDE DEF y
  <2>3. y % B \in Int
    BY <1>1, <2>2
  <2> QED
    BY <2>3 DEF y
<1>9. Checksum(b) = [j \in 1 .. 4 |-> above[N - 4 + j] % B]
  BY DEF Checksum
<1> DEFINE n == 4
<1>10. n \in Nat /\ \A j \in 1 .. n : above[N - 4 + j] % B \in Int
  BY <1>8
<1>11. Checksum(b) = [j \in 1 .. n |-> above[N - 4 + j] % B]
  BY <1>9
<1> HIDE DEF above, N, n
<1>12. Checksum(b) \in Seq(Int) /\ Len(Checksum(b)) = n
  BY <1>10, <1>11, LenProperties
<1> QED
  BY <1>12 DEF n

\* The bounds of the integers.
LEMMA IntsFacts ==
  /\ \A w \in 1 .. 8 : /\ MaxInt(w) \in Nat /\ 0 .. MaxInt(w) \subseteq Ints(w)
                       /\ Ints(w) \subseteq Int /\ -1 \in Ints(w)
  /\ MaxInt(2) >= 1 /\ MaxInt(4) >= 7
<1>1. ASSUME NEW w \in 1 .. 8
      PROVE  /\ MaxInt(w) \in Nat /\ 0 .. MaxInt(w) \subseteq Ints(w)
             /\ Ints(w) \subseteq Int /\ -1 \in Ints(w)
  <2> DEFINE p == Pow[w]
  <2>1. p \in Nat /\ p > 1
    <3> DEFINE r == Pow[w - 1]
    <3>1. p = r * B /\ r \in Nat /\ r > 0
      BY PowFacts
    <3> HIDE DEF p, r
    <3> QED
      BY <3>1, ByteAssumption, SMT
  <2> DEFINE h == p \div 2
  <2>2. MaxInt(w) = h - 1 /\ Ints(w) = h - 1 + 1 - p .. h - 1
    BY DEF MaxInt, Ints
  <2> HIDE DEF p
  <2>3. h \in Nat /\ h >= 1 /\ 2 * h <= p /\ p <= 2 * h + 1
    BY <2>1
  <2> HIDE DEF h
  <2> QED
    BY <2>1, <2>2, <2>3
<1>2. Pow[2] \in Nat /\ Pow[2] >= 4 /\ Pow[4] \in Nat /\ Pow[4] >= 16
  <2> DEFINE p1 == Pow[1]
             p2 == Pow[2]
             p3 == Pow[3]
             p4 == Pow[4]
  <2>1. p1 = 1 * B /\ p2 = p1 * B /\ p3 = p2 * B /\ p4 = p3 * B
    BY PowFacts
  <2>2. B \in Nat /\ B >= 2
    BY ByteAssumption
  <2> HIDE DEF p1, p2, p3, p4
  <2>3. p1 \in Nat /\ p1 >= 2
    BY <2>1, <2>2, SMT
  <2>4. p2 \in Nat /\ p2 >= 4
    BY <2>1, <2>2, <2>3, SMT
  <2>5. p3 \in Nat /\ p3 >= 8
    BY <2>1, <2>2, <2>4, SMT
  <2>6. p4 \in Nat /\ p4 >= 16
    BY <2>1, <2>2, <2>5, SMT
  <2> QED
    BY <2>4, <2>6 DEF p2, p4
<1>3. MaxInt(2) >= 1 /\ MaxInt(4) >= 7
  <2> DEFINE p == Pow[2]
             q == Pow[4]
  <2>1. MaxInt(2) = p \div 2 - 1 /\ MaxInt(4) = q \div 2 - 1
    BY DEF MaxInt
  <2>2. p \in Nat /\ p >= 4 /\ q \in Nat /\ q >= 16
    BY <1>2
  <2> HIDE DEF p, q
  <2>3. p \div 2 >= 2 /\ q \div 2 >= 8
    BY <2>2
  <2> QED
    BY <2>1, <2>2, <2>3
<1> QED
  BY <1>1, <1>3

\* The same of the widths in use.
LEMMA WidthFacts ==
  /\ MaxInt(2) \in Nat /\ 0 .. MaxInt(2) \subseteq Ints(2) /\ MaxInt(2) >= 1
  /\ MaxInt(4) \in Nat /\ 0 .. MaxInt(4) \subseteq Ints(4) /\ MaxInt(4) >= 7
  /\ Ints(2) \subseteq Int /\ Ints(4) \subseteq Int /\ Ints(8) \subseteq Int
  /\ -1 \in Ints(4)
<1>1. 2 \in 1 .. 8 /\ 4 \in 1 .. 8 /\ 8 \in 1 .. 8
  OBVIOUS
<1> QED
  BY <1>1, IntsFacts, Zenon

(* Bytes b lie in s from place i on. *)
At(s, i, b) == i + Len(b) <= Len(s) /\ \A k \in 1 .. Len(b) : s[i + k] = b[k]

\* Two sequences joined: where each is.
LEMMA Joined ==
  ASSUME NEW a \in Seq(Int), NEW b \in Seq(Int)
  PROVE  /\ a \o b \in Seq(Int) /\ Len(a \o b) = Len(a) + Len(b)
         /\ At(a \o b, 0, a) /\ At(a \o b, Len(a), b)
<1>1. a \o b \in Seq(Int) /\ Len(a \o b) = Len(a) + Len(b)
      /\ \A k \in 1 .. Len(a) + Len(b) : (a \o b)[k] = IF k <= Len(a) THEN a[k] ELSE b[k - Len(a)]
  OBVIOUS
<1>2. Len(a) \in Nat /\ Len(b) \in Nat
  OBVIOUS
<1> DEFINE c == a \o b
<1> HIDE DEF c
<1>3. c \in Seq(Int) /\ Len(c) = Len(a) + Len(b)
      /\ \A k \in 1 .. Len(a) + Len(b) : c[k] = IF k <= Len(a) THEN a[k] ELSE b[k - Len(a)]
  BY <1>1 DEF c
<1>4. ASSUME NEW k \in 1 .. Len(a) PROVE c[0 + k] = a[k]
  <2>1. 0 + k = k /\ k \in 1 .. Len(a) + Len(b) /\ k <= Len(a)
    BY <1>2
  <2> QED
    BY <1>3, <2>1
<1>5. ASSUME NEW k \in 1 .. Len(b) PROVE c[Len(a) + k] = b[k]
  <2>1. /\ Len(a) + k \in 1 .. Len(a) + Len(b) /\ ~(Len(a) + k <= Len(a))
        /\ Len(a) + k - Len(a) = k
    BY <1>2
  <2> QED
    BY <1>3, <2>1
<1>6. At(c, 0, a) /\ At(c, Len(a), b)
  BY <1>2, <1>3, <1>4, <1>5 DEF At
<1> QED
  BY <1>1, <1>6 DEF c

\* A part of a part.
LEMMA AtWithin ==
  ASSUME NEW s \in Seq(Int), NEW a \in Seq(Int), NEW b \in Seq(Int), NEW i \in Nat, NEW j \in Nat,
         At(s, i, a), At(a, j, b)
  PROVE  At(s, i + j, b)
<1>1. Len(s) \in Nat /\ Len(a) \in Nat /\ Len(b) \in Nat
  OBVIOUS
<1>2. i + Len(a) <= Len(s) /\ j + Len(b) <= Len(a)
  BY DEF At
<1>3. ASSUME NEW k \in 1 .. Len(b) PROVE s[(i + j) + k] = b[k]
  <2>1. j + k \in 1 .. Len(a) /\ (i + j) + k = i + (j + k)
    BY <1>1, <1>2
  <2>2. s[i + (j + k)] = a[j + k]
    BY <2>1 DEF At
  <2>3. a[j + k] = b[k]
    BY DEF At
  <2> QED
    BY <2>1, <2>2, <2>3
<1>4. (i + j) + Len(b) <= Len(s)
  BY <1>1, <1>2
<1> QED
  BY <1>3, <1>4 DEF At

\* What is written one after the other is found one after the other.
LEMMA AtJoined ==
  ASSUME NEW s \in Seq(Int), NEW a \in Seq(Int), NEW b \in Seq(Int), NEW i \in Nat, At(s, i, a \o b)
  PROVE  At(s, i, a) /\ At(s, i + Len(a), b)
<1> DEFINE c == a \o b
<1>1. c \in Seq(Int) /\ At(c, 0, a) /\ At(c, Len(a), b) /\ Len(a) \in Nat /\ At(s, i, c)
  BY Joined
<1> HIDE DEF c
<1>2. At(s, i + 0, a)
  BY <1>1, AtWithin
<1>3. At(s, i + Len(a), b)
  BY <1>1, AtWithin
<1>4. i + 0 = i
  OBVIOUS
<1> QED
  BY <1>2, <1>3, <1>4

LEMMA AtSelf == ASSUME NEW s \in Seq(Int) PROVE At(s, 0, s)
  BY DEF At

\* The bytes at a place are those that lie there.
LEMMA BytesAt ==
  ASSUME NEW s \in Seq(Int), NEW b \in Seq(Int), NEW i \in Nat, At(s, i, b)
  PROVE  /\ SubSeq(s, i + 1, i + Len(b)) = b
         /\ i \in 0 .. Len(s) /\ i + Len(b) \in 0 .. Len(s) /\ Len(b) <= Len(s) - i
<1>1. Len(s) \in Nat /\ Len(b) \in Nat /\ i + Len(b) <= Len(s)
  BY DEF At
<1>2. i \in 0 .. Len(s) /\ i + Len(b) \in 0 .. Len(s) /\ Len(b) <= Len(s) - i
  BY <1>1
<1> DEFINE n == Len(b)
           t == SubSeq(s, i + 1, i + n)
<1>3. n \in Nat /\ n <= Len(s) - i
  BY <1>1
<1>4. \A k \in 1 .. n : s[i + k] = b[k]
  BY DEF At
<1>5. t \in Seq(Int) /\ Len(t) = n /\ \A k \in 1 .. n : t[k] = s[i + k]
  <2> HIDE DEF n
  <2> QED
    BY <1>2, <1>3, NextType
<1>6. t \in Seq(Int) /\ b \in Seq(Int) /\ Len(t) = Len(b) /\ \A k \in 1 .. Len(t) : t[k] = b[k]
  BY <1>4, <1>5
<1> HIDE DEF t
<1>7. t = b
  BY <1>6, SeqEqual, Zenon
<1> QED
  BY <1>2, <1>7 DEF t

\* What a reader of a frame makes of what was written at its place: the value, and
\* the place after it.
ReadAs(v, s, i) == [ok |-> TRUE, v |-> v, r |-> Place(s, i)]

\* The bytes at a place are the next bytes there.
LEMMA NextAt ==
  ASSUME NEW s \in Seq(Int), NEW b \in Seq(Int), NEW i \in Nat, At(s, i, b)
  PROVE  /\ NextBytes(Place(s, i), Len(b)) = b
         /\ Remaining(Place(s, i)) = Len(s) - i /\ Len(b) <= Remaining(Place(s, i))
         /\ Read(Place(s, i), b, Len(b)) = ReadAs(b, s, i + Len(b))
<1>1. /\ SubSeq(s, i + 1, i + Len(b)) = b
      /\ i \in 0 .. Len(s) /\ Len(b) <= Len(s) - i /\ Len(b) \in Nat
  BY BytesAt
<1>2. Place(s, i).b = s /\ Place(s, i).i = i
  BY DEF Place
<1>3. NextBytes(Place(s, i), Len(b)) = b
  BY <1>1, <1>2 DEF NextBytes
<1>4. Remaining(Place(s, i)) = Len(s) - i
  BY <1>2 DEF Remaining
<1>5. Read(Place(s, i), b, Len(b)) = ReadAs(b, s, i + Len(b))
  BY <1>1, PlaceMoves DEF ReadAs
<1> QED
  BY <1>1, <1>3, <1>4, <1>5

\* An integer that was written at a place is read there.
LEMMA IntAt ==
  ASSUME NEW s \in Seq(Int), NEW i \in Nat, NEW w \in 1 .. 8, NEW v \in Ints(w),
         At(s, i, WriteInt(v, w))
  PROVE  readInt(Place(s, i), w) = ReadAs(v, s, i + w) /\ i + w \in 0 .. Len(s)
<1> DEFINE b == WriteInt(v, w)
<1>1. v \in Int /\ w \in 0 .. 8 /\ w \in Nat
  <2>1. Ints(w) \subseteq Int
    BY IntsFacts
  <2> QED
    BY <2>1
<1>2. b \in Seq(Int) /\ Len(b) = w
  BY <1>1, WriteIntType
<1>3. Signed(b) = v
  BY SignedOfInt
<1>4. At(s, i, b)
  OBVIOUS
<1> HIDE DEF b
<1>5. /\ NextBytes(Place(s, i), w) = b
      /\ Remaining(Place(s, i)) = Len(s) - i /\ w <= Remaining(Place(s, i))
  BY <1>2, <1>4, NextAt
<1>6. i \in 0 .. Len(s) /\ i + w \in 0 .. Len(s)
  BY <1>2, <1>4, BytesAt
<1>7. ~(Remaining(Place(s, i)) < w)
  BY <1>1, <1>5, <1>6
<1>8. readInt(Place(s, i), w) = Read(Place(s, i), v, w)
  BY <1>3, <1>5, <1>7 DEF readInt
<1>9. Read(Place(s, i), v, w) = ReadAs(v, s, i + w)
  BY <1>1, <1>6, PlaceMoves DEF ReadAs
<1> QED
  BY <1>6, <1>8, <1>9

\* Too few bytes are left for an integer.
LEMMA IntShort ==
  ASSUME NEW s \in Seq(Int), NEW i \in 0 .. Len(s), NEW w \in 0 .. 8
  PROVE  \/ Len(s) - i < w /\ readInt(Place(s, i), w) = Short(Place(s, i))
         \/ /\ w <= Len(s) - i
            /\ \E v \in Int : readInt(Place(s, i), w) = ReadAs(v, s, i + w)
<1>1. i \in Int /\ Len(s) \in Int
  OBVIOUS
<1>2. CASE Len(s) - i < w /\ readInt(Place(s, i), w) = Short(Place(s, i))
  BY <1>2
<1>3. CASE \E v \in Int :
             /\ ReadInt(Rest(s, i), w) = Got(v, Rest(s, i + w)) /\ i + w \in 0 .. Len(s)
             /\ readInt(Place(s, i), w) = [ok |-> TRUE, v |-> v, r |-> Place(s, i + w)]
  <2>1. PICK v \in Int :
          /\ i + w \in 0 .. Len(s)
          /\ readInt(Place(s, i), w) = ReadAs(v, s, i + w)
    BY <1>3 DEF ReadAs
  <2>2. w <= Len(s) - i
    BY <1>1, <2>1
  <2> QED
    BY <2>1, <2>2
<1> QED
  BY <1>2, <1>3, IntSame

LEMMA ReadAsFacts ==
  ASSUME NEW v, NEW s, NEW i
  PROVE  ReadAs(v, s, i).ok /\ ReadAs(v, s, i).v = v /\ ReadAs(v, s, i).r = Place(s, i)
  BY DEF ReadAs

\* Field: a length of w bytes, and the bytes.
LEMMA FieldAt ==
  ASSUME NEW s \in Seq(Int), NEW i \in Nat, NEW b \in Seq(Int), NEW w \in {2, 4},
         Len(b) <= MaxInt(w), At(s, i, WriteInt(Len(b), w) \o b)
  PROVE  /\ readInt(Place(s, i), w) = ReadAs(Len(b), s, i + w)
         /\ NextBytes(Place(s, i + w), Len(b)) = b
         /\ ~(Len(b) < 0) /\ ~(Len(b) > Remaining(Place(s, i + w)))
         /\ Read(Place(s, i + w), b, Len(b)) = ReadAs(b, s, i + w + Len(b))
         /\ i + w + Len(b) \in 0 .. Len(s)
<1> DEFINE n == Len(b)
           a == WriteInt(n, w)
<1>1. w \in 1 .. 8 /\ w \in 0 .. 8 /\ n \in Nat /\ n \in Int /\ n <= MaxInt(w) /\ w \in Nat
  OBVIOUS
<1>2. n \in Ints(w)
  <2>1. MaxInt(w) \in Nat /\ 0 .. MaxInt(w) \subseteq Ints(w)
    BY <1>1, IntsFacts
  <2> HIDE DEF n
  <2> QED
    BY <1>1, <2>1
<1>3. a \in Seq(Int) /\ Len(a) = w
  <2> HIDE DEF n
  <2> QED
    BY <1>1, WriteIntType
<1>4. At(s, i, a \o b)
  OBVIOUS
<1> HIDE DEF n
<1>5. At(s, i, a) /\ At(s, i + w, b)
  <2> HIDE DEF a
  <2> QED
    BY <1>3, <1>4, AtJoined
<1>6. readInt(Place(s, i), w) = ReadAs(n, s, i + w)
  BY <1>1, <1>2, <1>5, IntAt
<1>7. /\ NextBytes(Place(s, i + w), Len(b)) = b
      /\ Remaining(Place(s, i + w)) = Len(s) - (i + w) /\ Len(b) <= Remaining(Place(s, i + w))
      /\ Read(Place(s, i + w), b, Len(b)) = ReadAs(b, s, i + w + Len(b))
      /\ i + w + Len(b) \in 0 .. Len(s)
  <2>1. i + w \in Nat
    BY <1>1
  <2> QED
    BY <1>5, <2>1, NextAt, BytesAt
<1>8. ~(n < 0) /\ ~(n > Remaining(Place(s, i + w)))
  <2>1. Remaining(Place(s, i + w)) \in Int /\ n <= Remaining(Place(s, i + w))
    BY <1>1, <1>7 DEF n
  <2> QED
    BY <1>1, <2>1
<1> QED
  BY <1>6, <1>7, <1>8 DEF n

\* A string that was written at a place is read there.
LEMMA StringAt ==
  ASSUME NEW s \in Seq(Int), NEW i \in Nat, NEW t \in Seq(Int), Len(t) <= MaxInt(2),
         At(s, i, WriteString(t))
  PROVE  /\ readString(Place(s, i)) = ReadAs(t, s, i + 2 + Len(t))
         /\ i + 2 + Len(t) \in 0 .. Len(s)
<1>1. WriteString(t) = WriteInt(Len(t), 2) \o t
  <2>1. Len(t) \in Nat /\ MaxInt(2) \in Nat
    BY WidthFacts
  <2>2. ~(Len(t) > MaxInt(2))
    BY <2>1
  <2> QED
    BY <2>2, Zenon DEF WriteString
<1>2. /\ readInt(Place(s, i), 2) = ReadAs(Len(t), s, i + 2)
      /\ NextBytes(Place(s, i + 2), Len(t)) = t
      /\ ~(Len(t) < 0) /\ ~(Len(t) > Remaining(Place(s, i + 2)))
      /\ Read(Place(s, i + 2), t, Len(t)) = ReadAs(t, s, i + 2 + Len(t))
      /\ i + 2 + Len(t) \in 0 .. Len(s)
  BY <1>1, FieldAt
<1> DEFINE n == readInt(Place(s, i), 2)
<1>3. n.ok /\ n.v = Len(t) /\ n.r = Place(s, i + 2)
  BY <1>2, ReadAsFacts
<1>4. readString(Place(s, i))
        = IF ~n.ok THEN Short(n.r)
          ELSE IF n.v < 0 THEN Read(n.r, <<>>, 0)
          ELSE IF n.v > Remaining(n.r) THEN Short(n.r)
          ELSE Read(n.r, NextBytes(n.r, n.v), n.v)
  BY DEF readString
<1> HIDE DEF n
<1> QED
  BY <1>2, <1>3, <1>4, Zenon

\* So is a byte field.
LEMMA BytesFieldAt ==
  ASSUME NEW s \in Seq(Int), NEW i \in Nat, NEW b \in Seq(Int), Len(b) <= MaxInt(4),
         At(s, i, WriteInt(Len(b), 4) \o b)
  PROVE  readBytes(Place(s, i)) = ReadAs(b, s, i + 4 + Len(b)) /\ i + 4 + Len(b) \in 0 .. Len(s)
<1>1. /\ readInt(Place(s, i), 4) = ReadAs(Len(b), s, i + 4)
      /\ NextBytes(Place(s, i + 4), Len(b)) = b
      /\ ~(Len(b) < 0) /\ ~(Len(b) > Remaining(Place(s, i + 4)))
      /\ Read(Place(s, i + 4), b, Len(b)) = ReadAs(b, s, i + 4 + Len(b))
      /\ i + 4 + Len(b) \in 0 .. Len(s)
  BY FieldAt
<1> DEFINE n == readInt(Place(s, i), 4)
<1>2. n.ok /\ n.v = Len(b) /\ n.r = Place(s, i + 4)
  BY <1>1, ReadAsFacts
<1>3. readBytes(Place(s, i))
        = IF ~n.ok THEN Short(n.r)
          ELSE IF n.v < 0 THEN Read(n.r, Null, 0)
          ELSE IF n.v > Remaining(n.r) THEN Short(n.r)
          ELSE Read(n.r, NextBytes(n.r, n.v), n.v)
  BY DEF readBytes
<1> HIDE DEF n
<1> QED
  BY <1>1, <1>2, <1>3, Zenon

(* A frame, written and read. *)
LEMMA FrameReadBack ==
  ASSUME NEW b \in Seq(Int), ~TooLarge(b)
  PROVE  ReadFrame(WriteFrame(b)) = Got(b, <<>>)
<1> DEFINE n == Len(b)
           h == WriteInt(n, 4)
           s == h \o b
<1>1. n \in Nat /\ n <= MaxInt(4) /\ n \in Ints(4)
  <2>1. n \in Nat /\ MaxInt(4) \in Nat /\ 0 .. MaxInt(4) \subseteq Ints(4) /\ ~(n > MaxInt(4))
    BY WidthFacts DEF TooLarge
  <2> HIDE DEF n
  <2> QED
    BY <2>1
<1>2. h \in Seq(Int) /\ Len(h) = 4
  <2> HIDE DEF n
  <2> QED
    BY <1>1, WriteIntType
<1>3. s \in Seq(Int) /\ Len(s) = 4 + n /\ At(s, 0, h) /\ At(s, 4, b)
  <2> HIDE DEF h
  <2> QED
    BY <1>2, Joined
<1>4. SubSeq(s, 1, 4) = h
  <2> HIDE DEF h, s
  <2>1. SubSeq(s, 0 + 1, 0 + Len(h)) = h
    BY <1>2, <1>3, BytesAt
  <2> QED
    BY <1>2, <2>1
<1>5. Signed(h) = n
  <2> HIDE DEF n
  <2> QED
    BY <1>1, SignedOfInt
<1>6. SubSeq(s, 4 + 1, Len(s)) = b
  <2> HIDE DEF h, s
  <2>1. SubSeq(s, 4 + 1, 4 + Len(b)) = b
    BY <1>3, BytesAt
  <2> QED
    BY <1>3, <2>1
<1>7. ReadInt(s, 4) = Got(n, b)
  <2> HIDE DEF h, n
  <2> HIDE DEF s
  <2>1. ~(Len(s) < 4)
    BY <1>1, <1>3
  <2> DEFINE g == Got(h, b)
  <2>2. ReadFull(s, 4) = g
    BY <1>4, <1>6, <2>1, Zenon DEF ReadFull
  <2>3. g.ok /\ g.v = h /\ g.rest = b
    BY DEF Got
  <2> HIDE DEF g
  <2> QED
    BY <1>5, <2>2, <2>3, Zenon DEF ReadInt
<1>8. ReadFull(b, n) = Got(b, <<>>)
  <2>1. SubSeq(b, 1, n) = b
    BY SubSeqFull
  <2>2. SubSeq(b, n + 1, n) = <<>>
    BY <1>1, SubSeqEmpty
  <2>3. ~(Len(b) < n)
    BY <1>1
  <2> QED
    BY <2>1, <2>2, <2>3 DEF ReadFull
<1>9. ReadFrame(s) = Got(b, <<>>)
  <2> HIDE DEF n, s
  <2> DEFINE g == Got(n, b)
  <2>1. g.ok /\ g.v = n /\ g.rest = b /\ n >= 0
    BY <1>1 DEF Got
  <2>2. ReadInt(s, 4) = g
    BY <1>7
  <2> HIDE DEF g
  <2> QED
    BY <1>8, <2>1, <2>2, Zenon DEF ReadFrame
<1> QED
  BY <1>9 DEF WriteFrame
-----------------------------------------------------------------------------
(***************************************************************************)
(* Messages and message sets.                                              *)
(***************************************************************************)

\* The small constants of the encoding fit their widths.
LEMMA SmallInts ==
  /\ 0 \in Ints(2) /\ 1 \in Ints(2) /\ 0 \in Ints(8)
  /\ \A v \in 0 .. 7 : v \in Ints(4)
  /\ \A w \in 1 .. 8 : -1 \in Ints(w)
<1>1. \A w \in 1 .. 8 : MaxInt(w) \in Nat /\ 0 .. MaxInt(w) \subseteq Ints(w) /\ -1 \in Ints(w)
  BY IntsFacts
<1>2. MaxInt(2) >= 1 /\ MaxInt(4) >= 7
  BY IntsFacts
<1>3. 2 \in 1 .. 8 /\ 4 \in 1 .. 8 /\ 8 \in 1 .. 8
  OBVIOUS
<1>4. MaxInt(2) \in Nat /\ MaxInt(4) \in Nat /\ MaxInt(8) \in Nat
  BY <1>1, <1>3
<1>5. 0 \in 0 .. MaxInt(2) /\ 1 \in 0 .. MaxInt(2) /\ 0 \in 0 .. MaxInt(8)
      /\ \A v \in 0 .. 7 : v \in 0 .. MaxInt(4)
  BY <1>2, <1>4
<1> QED
  BY <1>1, <1>3, <1>5, Zenon

\* How many bytes a string takes: two for its length, or none at all.
LEMMA WriteStringType ==
  ASSUME NEW t \in Seq(Int)
  PROVE  /\ WriteString(t) \in Seq(Int)
         /\ Len(t) <= MaxInt(2) => Len(WriteString(t)) = 2 + Len(t)
         /\ Len(t) > MaxInt(2) => WriteString(t) = <<>>
<1> DEFINE n == Len(t)
           h == WriteInt(n, 2)
<1>1. n \in Int /\ 2 \in 0 .. 8 /\ MaxInt(2) \in Nat
  BY WidthFacts
<1>2. h \in Seq(Int) /\ Len(h) = 2
  <2> HIDE DEF n
  <2> QED
    BY <1>1, WriteIntType
<1>3. h \o t \in Seq(Int) /\ Len(h \o t) = 2 + n
  <2> HIDE DEF h
  <2> QED
    BY <1>2, Joined
<1>4. WriteString(t) = IF n > MaxInt(2) THEN <<>> ELSE h \o t
  BY DEF WriteString
<1>5. <<>> \in Seq(Int)
  OBVIOUS
<1> HIDE DEF h
<1> QED
  BY <1>1, <1>3, <1>4, <1>5

\* How many bytes a byte field takes.
LEMMA WriteBytesType ==
  ASSUME NEW v \in Seq(Int) \cup {Null}
  PROVE  /\ WriteBytes(v) \in Seq(Int) /\ Len(WriteBytes(v)) >= 4
         /\ v = Null => WriteBytes(v) = WriteInt(-1, 4) /\ Len(WriteBytes(v)) = 4
         /\ v # Null => /\ v \in Seq(Int) /\ WriteBytes(v) = WriteInt(Len(v), 4) \o v
                        /\ Len(WriteBytes(v)) = 4 + Len(v)
<1>1. CASE v = Null
  <2>1. WriteBytes(v) = WriteInt(-1, 4)
    BY <1>1, Zenon DEF WriteBytes
  <2>2. -1 \in Int /\ 4 \in 0 .. 8
    OBVIOUS
  <2> DEFINE m == -1
  <2>3. m \in Int /\ WriteBytes(v) = WriteInt(m, 4)
    BY <2>1, <2>2
  <2> HIDE DEF m
  <2>4. WriteBytes(v) \in Seq(Int) /\ Len(WriteBytes(v)) = 4
    BY <2>2, <2>3, WriteIntType
  <2>5. Len(WriteBytes(v)) >= 4
    BY <2>4
  <2> QED
    BY <1>1, <2>1, <2>4, <2>5, Zenon
<1>2. CASE v # Null
  <2> DEFINE n == Len(v)
             h == WriteInt(n, 4)
  <2>1. v \in Seq(Int) /\ WriteBytes(v) = h \o v
    BY <1>2, Zenon DEF WriteBytes
  <2>2. n \in Nat /\ n \in Int /\ 4 \in 0 .. 8
    BY <2>1
  <2>3. h \in Seq(Int) /\ Len(h) = 4
    <3> HIDE DEF n
    <3> QED
      BY <2>2, WriteIntType
  <2>4. h \o v \in Seq(Int) /\ Len(h \o v) = 4 + n
    <3> HIDE DEF h
    <3> QED
      BY <2>1, <2>3, Joined
  <2>5. Len(WriteBytes(v)) >= 4 /\ WriteBytes(v) \in Seq(Int)
    <3> HIDE DEF h, n
    <3> QED
      BY <2>1, <2>2, <2>4
  <2> QED
    BY <1>2, <2>1, <2>4, <2>5
<1> QED
  BY <1>1, <1>2

(* The message of a value: a checksum, and a body of magic, attributes,       *)
(* timestamp, a nil key and the value.                                        *)
MessageHead == <<1, 0>> \o WriteInt(0, 8)
MessageBody(v) == MessageHead \o WriteInt(-1, 4) \o WriteBytes(v)
Message(v) == Checksum(MessageBody(v)) \o MessageBody(v)

\* The parts of an encoded message.
LEMMA MessageType ==
  ASSUME NEW v \in Seq(Int) \cup {Null}
  PROVE  /\ EncodeMessage(Null, v) = Message(v)
         /\ MessageBody(v) \in Seq(Int) /\ Len(MessageBody(v)) = 14 + Len(WriteBytes(v))
         /\ Checksum(MessageBody(v)) \in Seq(Int) /\ Len(Checksum(MessageBody(v))) = 4
         /\ Message(v) \in Seq(Int) /\ Len(Message(v)) = 18 + Len(WriteBytes(v))
         /\ At(Message(v), 0, Checksum(MessageBody(v))) /\ At(Message(v), 4, MessageBody(v))
         /\ Message(v)[5] = 1 /\ At(Message(v), 14, WriteInt(-1, 4))
         /\ At(Message(v), 18, WriteBytes(v))
<1> DEFINE f == WriteBytes(v)
           a == <<1, 0>>
           b == WriteInt(0, 8)
           m == -1
           c == WriteInt(m, 4)
           hd == a \o b
           hc == hd \o c
           body == hc \o f
           sum == Checksum(body)
           msg == sum \o body
<1>1. EncodeMessage(Null, v) = msg /\ Message(v) = msg /\ MessageBody(v) = body
  BY Zenon DEF EncodeMessage, appendNullableBytes, WriteBytes, Message, MessageBody, MessageHead
<1>2. f \in Seq(Int) /\ Len(f) \in Nat
  BY WriteBytesType
<1>3. a \in Seq(Int) /\ Len(a) = 2 /\ a[1] = 1
  OBVIOUS
<1>4. 0 \in Int /\ m \in Int /\ 4 \in 0 .. 8 /\ 8 \in 0 .. 8
  OBVIOUS
<1>5. b \in Seq(Int) /\ Len(b) = 8
  BY <1>4, WriteIntType
<1> HIDE DEF m
<1>6. c \in Seq(Int) /\ Len(c) = 4
  BY <1>4, WriteIntType
<1> HIDE DEF a, b, c, f
<1>7. hd \in Seq(Int) /\ Len(hd) = 10 /\ At(hd, 0, a)
  <2>1. hd \in Seq(Int) /\ Len(hd) = Len(a) + Len(b) /\ At(hd, 0, a)
    BY <1>3, <1>5, Joined, Zenon
  <2> QED
    BY <1>3, <1>5, <2>1
<1> HIDE DEF hd
<1>8. hc \in Seq(Int) /\ Len(hc) = 14 /\ At(hc, 0, hd) /\ At(hc, 10, c)
  <2>1. hc \in Seq(Int) /\ Len(hc) = Len(hd) + Len(c) /\ At(hc, 0, hd) /\ At(hc, Len(hd), c)
    BY <1>6, <1>7, Joined, Zenon
  <2> QED
    BY <1>6, <1>7, <2>1
<1> HIDE DEF hc
<1>9. body \in Seq(Int) /\ Len(body) = 14 + Len(f) /\ At(body, 0, hc) /\ At(body, 14, f)
  BY <1>2, <1>8, Joined
<1> HIDE DEF body
<1>10. sum \in Seq(Int) /\ Len(sum) = 4
  BY <1>2, <1>9, ChecksumType
<1> HIDE DEF sum
<1>11. msg \in Seq(Int) /\ Len(msg) = 18 + Len(f) /\ At(msg, 0, sum) /\ At(msg, 4, body)
  <2>1. /\ msg \in Seq(Int) /\ Len(msg) = Len(sum) + Len(body)
        /\ At(msg, 0, sum) /\ At(msg, Len(sum), body)
    BY <1>9, <1>10, Joined, Zenon
  <2> QED
    BY <1>2, <1>9, <1>10, <2>1
<1> HIDE DEF msg
<1>12. At(msg, 4, hc) /\ At(msg, 18, f)
  <2>1. At(msg, 4 + 0, hc) /\ At(msg, 4 + 14, f)
    BY <1>2, <1>8, <1>9, <1>11, AtWithin
  <2> QED
    BY <2>1
<1>13. At(msg, 4, hd) /\ At(msg, 14, c)
  <2>1. At(msg, 4 + 0, hd) /\ At(msg, 4 + 10, c)
    BY <1>6, <1>7, <1>8, <1>11, <1>12, AtWithin
  <2> QED
    BY <2>1
<1>14. msg[5] = 1
  <2>1. At(msg, 4 + 0, a)
    BY <1>3, <1>7, <1>11, <1>13, AtWithin
  <2>2. At(msg, 4, a) /\ 1 \in 1 .. Len(a)
    BY <1>3, <2>1
  <2>3. msg[4 + 1] = a[1]
    BY <2>2 DEF At
  <2> QED
    BY <1>3, <2>3
<1>15. EncodeMessage(Null, v) = msg /\ Message(v) = msg /\ MessageBody(v) = body
  BY <1>1 DEF msg, sum, body, hc, hd, a, b, c, f
<1> QED
  BY <1>9, <1>10, <1>11, <1>12, <1>13, <1>14, <1>15 DEF sum, c, f, m

\* A nullable field that was written at a place is read there, nil as nil.
LEMMA NullableAt ==
  ASSUME NEW s \in Seq(Int), NEW i \in Nat, NEW v \in Seq(Int) \cup {Null},
         At(s, i, WriteBytes(v)), v # Null => Len(v) <= MaxInt(4)
  PROVE  readNullableBytesAt(s, i) = Got(v, Len(WriteBytes(v)))
<1> DEFINE m == IF v = Null THEN -1 ELSE Len(v)
           h == WriteInt(m, 4)
<1>1. m \in Ints(4)
  <2>1. MaxInt(4) \in Nat /\ 0 .. MaxInt(4) \subseteq Ints(4) /\ -1 \in Ints(4)
    BY WidthFacts
  <2>2. CASE v = Null
    BY <2>1, <2>2
  <2>3. CASE v # Null
    <3>1. m = Len(v) /\ m \in Nat /\ m <= MaxInt(4)
      BY <2>3
    <3> HIDE DEF m
    <3>2. m \in 0 .. MaxInt(4)
      BY <2>1, <3>1
    <3> QED
      BY <2>1, <3>2
  <2> QED
    BY <2>2, <2>3
<1>2. m \in Int /\ h \in Seq(Int) /\ Len(h) = 4
  <2> HIDE DEF m
  <2>1. Ints(4) \subseteq Int
    BY WidthFacts
  <2>2. m \in Int /\ 4 \in 0 .. 8
    BY <1>1, <2>1
  <2> QED
    BY <2>2, WriteIntType
<1>3. At(s, i, h) /\ (v # Null => At(s, i + 4, v))
  <2>1. CASE v = Null
    <3>1. h = WriteBytes(v)
      BY <2>1, WriteBytesType
    <3> HIDE DEF h
    <3> QED
      BY <2>1, <3>1
  <2>2. CASE v # Null
    <3>1. WriteBytes(v) = h \o v /\ v \in Seq(Int)
      BY <2>2, WriteBytesType
    <3> HIDE DEF h
    <3>2. At(s, i, h \o v)
      BY <3>1
    <3>3. At(s, i, h) /\ At(s, i + Len(h), v)
      BY <1>2, <3>1, <3>2, AtJoined, Zenon
    <3> QED
      BY <1>2, <3>3
  <2> QED
    BY <2>1, <2>2
<1>4. Signed(h) = m
  <2> HIDE DEF m
  <2> QED
    BY <1>1, SignedOfInt
<1>5. SubSeq(s, i + 1, i + 4) = h /\ i + 4 \in 0 .. Len(s)
  <2> HIDE DEF h
  <2> QED
    BY <1>2, <1>3, BytesAt
<1> DEFINE n == Signed(SubSeq(s, i + 1, i + 4))
<1>6. readNullableBytesAt(s, i)
        = IF i + 4 > Len(s) THEN Failed
          ELSE IF n < 0 THEN Got(Null, 4)
          ELSE IF i + 4 + n > Len(s) THEN Failed
          ELSE Got(SubSeq(s, i + 5, i + 4 + n), 4 + n)
  BY Zenon DEF readNullableBytesAt
<1>7. n = m
  BY <1>4, <1>5
<1>8. ~(i + 4 > Len(s))
  BY <1>5
<1> HIDE DEF n, h
<1>9. CASE v = Null
  <2>1. n < 0
    BY <1>7, <1>9
  <2>2. Len(WriteBytes(v)) = 4
    BY <1>9, WriteBytesType
  <2> QED
    BY <1>6, <1>8, <1>9, <2>1, <2>2, Zenon
<1>10. CASE v # Null
  <2>1. v \in Seq(Int) /\ n = Len(v) /\ n \in Nat /\ Len(WriteBytes(v)) = 4 + n
    BY <1>7, <1>10, WriteBytesType
  <2>2. ~(n < 0)
    BY <2>1
  <2>3. i + 4 \in Nat /\ At(s, i + 4, v)
    BY <1>3, <1>10
  <2>4. SubSeq(s, i + 4 + 1, i + 4 + Len(v)) = v /\ i + 4 + Len(v) \in 0 .. Len(s)
    BY <2>1, <2>3, BytesAt
  <2>5. i + 4 + 1 = i + 5 /\ ~(i + 4 + n > Len(s)) /\ i + 4 + Len(v) = i + 4 + n
    BY <2>1, <2>4
  <2>6. SubSeq(s, i + 5, i + 4 + n) = v
    BY <2>4, <2>5
  <2> HIDE DEF m
  <2> QED
    BY <1>6, <1>8, <2>1, <2>2, <2>5, <2>6, Zenon
<1> QED
  BY <1>9, <1>10

\* A message is read back as it was written.
LEMMA MessageRead ==
  ASSUME NEW v \in Seq(Int) \cup {Null}, v # Null => Len(v) <= MaxInt(4)
  PROVE  DecodeMessage(Message(v)) = Got([key |-> Null, value |-> v], <<>>)
<1> DEFINE d == Message(v)
           f == WriteBytes(v)
           sum == Checksum(MessageBody(v))
           body == MessageBody(v)
           c == WriteInt(-1, 4)
           magic == d[5]
           off   == IF magic = 1 THEN 14 ELSE 6
           key   == readNullableBytesAt(d, off)
           value == readNullableBytesAt(d, off + key.rest)
<1>1. /\ d \in Seq(Int) /\ Len(d) = 18 + Len(f) /\ f \in Seq(Int) /\ Len(f) >= 4 /\ Len(f) \in Nat
      /\ sum \in Seq(Int) /\ Len(sum) = 4 /\ body \in Seq(Int) /\ Len(body) = 14 + Len(f)
      /\ At(d, 0, sum) /\ At(d, 4, body) /\ d[5] = 1 /\ At(d, 14, c) /\ At(d, 18, f)
  <2>1. f \in Seq(Int) /\ Len(f) >= 4 /\ Len(f) \in Nat
    BY WriteBytesType
  <2>2. /\ d \in Seq(Int) /\ Len(d) = 18 + Len(f)
        /\ sum \in Seq(Int) /\ Len(sum) = 4 /\ body \in Seq(Int) /\ Len(body) = 14 + Len(f)
        /\ At(d, 0, sum) /\ At(d, 4, body) /\ d[5] = 1 /\ At(d, 14, c) /\ At(d, 18, f)
    BY MessageType, Zenon
  <2> QED
    BY <2>1, <2>2, Zenon
<1>2. DecodeMessage(d)
        = IF /\ Len(d) >= 14 /\ magic \in {0, 1} /\ key.ok /\ value.ok
             /\ off + key.rest + value.rest = Len(d)
             /\ SubSeq(d, 1, 4) = Checksum(SubSeq(d, 5, Len(d)))
          THEN Got([key |-> key.v, value |-> value.v], <<>>)
          ELSE Failed
  BY DEF DecodeMessage
<1>3. magic = 1 /\ off = 14
  BY <1>1
<1>4. key = Got(Null, 4)
  <2>1. Null \in Seq(Int) \cup {Null} /\ WriteBytes(Null) = c /\ Len(WriteBytes(Null)) = 4
    BY WriteBytesType
  <2>2. At(d, 14, WriteBytes(Null)) /\ 14 \in Nat
    BY <1>1, <2>1
  <2>3. readNullableBytesAt(d, 14) = Got(Null, Len(WriteBytes(Null)))
    <3> HIDE DEF d, c
    <3> QED
      BY <1>1, <2>1, <2>2, NullableAt
  <2> HIDE DEF d, c
  <2> QED
    BY <1>3, <2>1, <2>3
<1>5. key.ok /\ key.v = Null /\ key.rest = 4
  BY <1>4 DEF Got
<1>6. value = Got(v, Len(f))
  <2>1. off + key.rest = 18
    BY <1>3, <1>5
  <2>2. readNullableBytesAt(d, 18) = Got(v, Len(f))
    <3> HIDE DEF d
    <3> QED
      BY <1>1, NullableAt
  <2> HIDE DEF d, f
  <2> QED
    BY <2>1, <2>2
<1>7. value.ok /\ value.v = v /\ value.rest = Len(f)
  BY <1>6 DEF Got
<1>8. SubSeq(d, 1, 4) = sum /\ SubSeq(d, 5, Len(d)) = body
  <2> HIDE DEF d, sum, body, f
  <2>1. SubSeq(d, 0 + 1, 0 + Len(sum)) = sum /\ SubSeq(d, 4 + 1, 4 + Len(body)) = body
    BY <1>1, BytesAt
  <2>2. 0 + 1 = 1 /\ 0 + Len(sum) = 4 /\ 4 + 1 = 5 /\ 4 + Len(body) = Len(d)
    BY <1>1
  <2> QED
    BY <2>1, <2>2
<1>9. SubSeq(d, 1, 4) = Checksum(SubSeq(d, 5, Len(d)))
  BY <1>8
<1>10. off + key.rest + value.rest = Len(d) /\ Len(d) >= 14
  <2> HIDE DEF d, f, key, value, off
  <2> QED
    BY <1>1, <1>3, <1>5, <1>7
<1> HIDE DEF d, key, value, off, magic
<1> QED
  BY <1>2, <1>3, <1>5, <1>7, <1>9, <1>10, Zenon DEF d

(* A message set is read entry by entry: at each place an offset, a size and   *)
(* a message, and then what follows the message.                               *)
EntryOffset(set, i) == readInt([b |-> set, i |-> i], 8)
EntrySize(set, i)   == readInt(EntryOffset(set, i).r, 4)
EntryEnd(set, i)    == i + 12 + EntrySize(set, i).v
EntryMessage(set, i) == DecodeMessage(NextBytes(EntrySize(set, i).r, EntrySize(set, i).v))

EntryRead(set, i) ==
  /\ EntryOffset(set, i).ok /\ EntrySize(set, i).ok /\ EntrySize(set, i).v >= 0
  /\ EntryEnd(set, i) <= Len(set) /\ EntryMessage(set, i).ok

EntriesFrom(set, f, i) ==
  IF i = Len(set) THEN Got(<<>>, <<>>)
  ELSE IF EntryRead(set, i) /\ f[EntryEnd(set, i)].ok
       THEN Got(<<EntryMessage(set, i).v.value>> \o f[EntryEnd(set, i)].v, <<>>)
       ELSE Failed

\* An entry of a set that is read ends further on.
LEMMA EntryMoves ==
  ASSUME NEW s \in Seq(Int), NEW i \in 0 .. Len(s), EntryRead(s, i)
  PROVE  EntryEnd(s, i) \in i + 1 .. Len(s)
<1> DEFINE a == EntryOffset(s, i)
           b == EntrySize(s, i)
<1>1. a.ok /\ b.ok /\ b.v >= 0 /\ EntryEnd(s, i) <= Len(s) /\ EntryEnd(s, i) = i + 12 + b.v
  BY DEF EntryRead, EntryEnd
<1>2. a = readInt(Place(s, i), 8) /\ b = readInt(a.r, 4)
  BY Zenon DEF EntryOffset, EntrySize, Place
<1>3. ~Short(Place(s, i)).ok
  BY DEF Short
<1>4. /\ 8 <= Len(s) - i
      /\ \E v \in Int : readInt(Place(s, i), 8) = ReadAs(v, s, i + 8)
  <2>1. 8 \in 0 .. 8
    OBVIOUS
  <2> HIDE DEF a, b
  <2> QED
    BY <1>1, <1>2, <1>3, <2>1, IntShort
<1>5. a.r = Place(s, i + 8)
  BY <1>2, <1>4, ReadAsFacts
<1>6. i + 8 \in 0 .. Len(s) /\ 4 \in 0 .. 8
  BY <1>4
<1> DEFINE j == i + 8
<1>7. b = readInt(Place(s, j), 4) /\ j \in 0 .. Len(s)
  BY <1>2, <1>5, <1>6
<1>8. ~Short(Place(s, j)).ok
  BY DEF Short
<1> HIDE DEF a, b, j
<1>9. \E v \in Int : readInt(Place(s, j), 4) = ReadAs(v, s, j + 4)
  BY <1>1, <1>6, <1>7, <1>8, IntShort
<1>10. b.v \in Int
  BY <1>7, <1>9, ReadAsFacts
<1> QED
  BY <1>1, <1>10

\* Reading a set, entry by entry, is defined from its end backwards.
LEMMA EntriesDefined ==
  ASSUME NEW s \in Seq(Int)
  PROVE  \E f : /\ \A i \in 0 .. Len(s) : f[i] = EntriesFrom(s, f, i)
                /\ decodeMessageSetV1(s) = f[0]
<1> DEFINE N == Len(s)
           above == CHOOSE f : f = [i \in 0 .. N |-> EntriesFrom(s, f, i)]
           Good == {n \in 0 .. N : \E f : \A i \in N - n .. N : f[i] = EntriesFrom(s, f, i)}
<1>1. N \in Nat
  OBVIOUS
<1>2. 0 \in Good
  <2> DEFINE f == [i \in 0 .. N |-> Got(<<>>, <<>>)]
  <2>1. ASSUME NEW i \in N - 0 .. N PROVE f[i] = EntriesFrom(s, f, i)
    <3>1. i = Len(s) /\ i \in 0 .. N
      BY <1>1
    <3>2. f[i] = Got(<<>>, <<>>)
      BY <3>1
    <3> HIDE DEF f
    <3> QED
      BY <3>1, <3>2 DEF EntriesFrom
  <2>2. 0 \in 0 .. N
    BY <1>1
  <2> HIDE DEF f, N
  <2>3. \E g : \A i \in N - 0 .. N : g[i] = EntriesFrom(s, g, i)
    BY <2>1
  <2> QED
    BY <2>2, <2>3
<1>3. ASSUME NEW n \in 1 .. N, n - 1 \in Good PROVE n \in Good
  <2>1. PICK f : \A i \in N - (n - 1) .. N : f[i] = EntriesFrom(s, f, i)
    BY <1>3
  <2> DEFINE g == [i \in 0 .. N |-> IF i = N - n THEN EntriesFrom(s, f, N - n) ELSE f[i]]
  <2>2. \A i \in N - n + 1 .. N : g[i] = f[i]
    BY <1>1
  <2>3. g[N - n] = EntriesFrom(s, f, N - n)
    BY <1>1
  <2> HIDE DEF g
  <2>4. ASSUME NEW i \in N - n .. N PROVE g[i] = EntriesFrom(s, g, i)
    <3>0. i \in 0 .. N /\ i \in 0 .. Len(s)
      BY <1>1
    <3>1. EntriesFrom(s, g, i) = EntriesFrom(s, f, i)
      <4>1. CASE EntryRead(s, i)
        <5> DEFINE e == EntryEnd(s, i)
        <5>1. e \in i + 1 .. N
          BY <3>0, <4>1, EntryMoves
        <5> HIDE DEF e
        <5>2. e \in N - n + 1 .. N
          BY <1>1, <5>1
        <5>3. g[e] = f[e]
          BY <2>2, <5>2
        <5> QED
          BY <5>3, Zenon DEF EntriesFrom, e
      <4>2. CASE ~EntryRead(s, i)
        BY <4>2, Zenon DEF EntriesFrom
      <4> QED
        BY <4>1, <4>2
    <3>2. g[i] = EntriesFrom(s, f, i)
      <4>1. CASE i = N - n
        BY <2>3, <4>1
      <4>2. CASE i # N - n
        <5>1. i \in N - n + 1 .. N /\ i \in N - (n - 1) .. N
          BY <1>1, <4>2
        <5> QED
          BY <2>1, <2>2, <5>1
      <4> QED
        BY <4>1, <4>2
    <3> QED
      BY <3>1, <3>2
  <2>5. n \in 0 .. N
    BY <1>1
  <2>6. \E h : \A i \in N - n .. N : h[i] = EntriesFrom(s, h, i)
    BY <2>4
  <2> HIDE DEF N
  <2> QED
    BY <2>5, <2>6
<1>4. N \in Good
  <2> HIDE DEF Good, N
  <2>1. \A k \in 0 .. N : k \in Good
    BY <1>1, <1>2, <1>3, UpTo, Zenon
  <2> QED
    BY <1>1, <2>1
<1>5. PICK f : \A i \in N - N .. N : f[i] = EntriesFrom(s, f, i)
  BY <1>4
<1>6. above = [i \in 0 .. N |-> EntriesFrom(s, above, i)]
  <2> DEFINE g == [i \in 0 .. N |-> f[i]]
  <2>1. ASSUME NEW i \in 0 .. N PROVE g[i] = EntriesFrom(s, g, i)
    <3>1. i \in N - N .. N /\ g[i] = f[i]
      BY <1>1
    <3>2. EntriesFrom(s, g, i) = EntriesFrom(s, f, i)
      <4>1. CASE EntryRead(s, i)
        <5> DEFINE e == EntryEnd(s, i)
        <5>1. e \in i + 1 .. N
          BY <4>1, EntryMoves
        <5> HIDE DEF e
        <5>2. e \in 0 .. N
          BY <5>1
        <5>3. g[e] = f[e]
          BY <5>2
        <5> HIDE DEF g
        <5> QED
          BY <5>3, Zenon DEF EntriesFrom, e
      <4>2. CASE ~EntryRead(s, i)
        BY <4>2, Zenon DEF EntriesFrom
      <4> QED
        BY <4>1, <4>2
    <3> HIDE DEF g
    <3> QED
      BY <1>5, <3>1, <3>2
  <2>2. g = [i \in 0 .. N |-> EntriesFrom(s, g, i)]
    <3>1. g = [i \in 0 .. N |-> g[i]]
      OBVIOUS
    <3> HIDE DEF g, N
    <3> QED
      BY <2>1, <3>1
  <2> HIDE DEF g
  <2> QED
    BY <2>2
<1>7. decodeMessageSetV1(s) = above[0]
  BY SMT DEF decodeMessageSetV1, EntriesFrom, EntryRead, EntryMessage, EntryEnd, EntrySize,
               EntryOffset
<1> HIDE DEF above
<1>8. \A i \in 0 .. Len(s) : above[i] = EntriesFrom(s, above, i)
  <2> DEFINE F == [i \in 0 .. N |-> EntriesFrom(s, above, i)]
  <2>1. \A i \in 0 .. N : F[i] = EntriesFrom(s, above, i)
    OBVIOUS
  <2>2. above = F
    BY <1>6
  <2> HIDE DEF F
  <2> QED
    BY <2>1, <2>2
<1> QED
  BY <1>7, <1>8

\* The set of one message is read back as its value.
LEMMA SetRead ==
  ASSUME NEW v \in Seq(Int) \cup {Null}, Len(Message(v)) <= MaxInt(4)
  PROVE  decodeMessageSetV1(encodeMessageSetV1(v)) = Got(<<v>>, <<>>)
<1> DEFINE raw == Message(v)
           n == Len(raw)
           a == WriteInt(0, 8)
           b == WriteInt(n, 4)
           s == a \o b \o raw
<1>1. encodeMessageSetV1(v) = s
  BY MessageType, Zenon DEF encodeMessageSetV1
<1>2. raw \in Seq(Int) /\ n \in Nat /\ n \in Ints(4) /\ n \in Int /\ 0 \in Ints(8) /\ 0 \in Int
  <2>1. raw \in Seq(Int)
    BY MessageType
  <2> HIDE DEF raw
  <2>2. n \in Nat /\ n <= MaxInt(4)
    BY <2>1 DEF raw
  <2>3. MaxInt(4) \in Nat /\ 0 .. MaxInt(4) \subseteq Ints(4) /\ 0 \in Ints(8)
    BY WidthFacts, SmallInts
  <2> HIDE DEF n
  <2> QED
    BY <2>1, <2>2, <2>3
<1>3. v # Null => Len(v) <= MaxInt(4)
  <2>1. CASE v # Null
    <3>1. Len(raw) = 18 + Len(WriteBytes(v)) /\ Len(WriteBytes(v)) = 4 + Len(v) /\ v \in Seq(Int)
      BY <2>1, MessageType, WriteBytesType
    <3>2. Len(v) \in Nat /\ MaxInt(4) \in Nat
      BY <3>1, WidthFacts
    <3> DEFINE l == Len(v)
    <3>3. 18 + (4 + l) <= MaxInt(4)
      BY <3>1
    <3> HIDE DEF l, raw
    <3>4. l <= MaxInt(4)
      BY <3>2, <3>3 DEF l
    <3> QED
      BY <3>4 DEF l
  <2> QED
    BY <2>1
<1>4. a \in Seq(Int) /\ Len(a) = 8 /\ b \in Seq(Int) /\ Len(b) = 4
  <2>1. 8 \in 0 .. 8 /\ 4 \in 0 .. 8
    OBVIOUS
  <2> HIDE DEF n
  <2> QED
    BY <1>2, <2>1, WriteIntType
<1> HIDE DEF raw
<1>5. s \in Seq(Int) /\ Len(s) = 12 + n /\ At(s, 0, a) /\ At(s, 8, b) /\ At(s, 12, raw)
  <2> DEFINE ab == a \o b
  <2> HIDE DEF a, b, n
  <2>1. ab \in Seq(Int) /\ Len(ab) = Len(a) + Len(b) /\ At(ab, 0, a) /\ At(ab, Len(a), b)
    BY <1>4, Joined, Zenon
  <2>2. Len(ab) = 12 /\ At(ab, 8, b)
    BY <1>4, <2>1
  <2> HIDE DEF ab
  <2> DEFINE t == ab \o raw
  <2>3. t \in Seq(Int) /\ Len(t) = Len(ab) + Len(raw) /\ At(t, 0, ab) /\ At(t, Len(ab), raw)
    BY <1>2, <2>1, Joined, Zenon
  <2> HIDE DEF t
  <2>4. At(t, 0 + 0, a) /\ At(t, 0 + 8, b)
    BY <1>4, <2>1, <2>2, <2>3, AtWithin
  <2>5. t \in Seq(Int) /\ Len(t) = 12 + n /\ At(t, 0, a) /\ At(t, 8, b) /\ At(t, 12, raw)
    BY <1>2, <2>2, <2>3, <2>4 DEF n
  <2> QED
    BY <2>5 DEF t, ab
<1> HIDE DEF s
<1>6. EntryOffset(s, 0) = ReadAs(0, s, 8)
  <2>1. 8 \in 1 .. 8 /\ 0 \in Nat /\ 0 + 8 = 8
    OBVIOUS
  <2>2. readInt(Place(s, 0), 8) = ReadAs(0, s, 0 + 8)
    BY <1>2, <1>5, <2>1, IntAt DEF a
  <2> QED
    BY <2>1, <2>2 DEF EntryOffset, Place
<1>7. EntrySize(s, 0) = ReadAs(n, s, 12)
  <2>1. 4 \in 1 .. 8 /\ 8 \in Nat /\ 8 + 4 = 12
    OBVIOUS
  <2> HIDE DEF n
  <2>2. readInt(Place(s, 8), 4) = ReadAs(n, s, 8 + 4)
    BY <1>2, <1>5, <2>1, IntAt DEF b
  <2>3. EntryOffset(s, 0).r = Place(s, 8)
    BY <1>6, ReadAsFacts
  <2> QED
    BY <2>1, <2>2, <2>3 DEF EntrySize
<1>8. EntrySize(s, 0).ok /\ EntrySize(s, 0).v = n /\ EntrySize(s, 0).r = Place(s, 12)
      /\ EntryOffset(s, 0).ok
  BY <1>6, <1>7, ReadAsFacts
<1>9. EntryMessage(s, 0) = Got([key |-> Null, value |-> v], <<>>)
  <2>1. NextBytes(Place(s, 12), Len(raw)) = raw
    <3>1. 12 \in Nat
      OBVIOUS
    <3> QED
      BY <1>2, <1>5, <3>1, NextAt
  <2>2. EntryMessage(s, 0) = DecodeMessage(raw)
    BY <1>8, <2>1 DEF EntryMessage, n
  <2> QED
    BY <1>3, <2>2, MessageRead DEF raw
<1>10. EntryEnd(s, 0) = Len(s) /\ 0 # Len(s) /\ n >= 0 /\ Len(s) \in Nat
  <2> HIDE DEF n
  <2> QED
    BY <1>2, <1>5, <1>8 DEF EntryEnd
<1>11. PICK f : /\ \A i \in 0 .. Len(s) : f[i] = EntriesFrom(s, f, i)
                /\ decodeMessageSetV1(s) = f[0]
  <2>1. s \in Seq(Int)
    BY <1>5
  <2> QED
    BY <2>1, EntriesDefined, Zenon
<1>12. f[Len(s)] = Got(<<>>, <<>>)
  <2>1. Len(s) \in 0 .. Len(s)
    BY <1>10
  <2>2. f[Len(s)] = EntriesFrom(s, f, Len(s))
    BY <1>11, <2>1, Zenon
  <2> QED
    BY <2>2, Zenon DEF EntriesFrom
<1>13. f[0] = EntriesFrom(s, f, 0)
  <2>1. 0 \in 0 .. Len(s)
    BY <1>10
  <2> QED
    BY <1>11, <2>1, Zenon
<1>14. EntryMessage(s, 0).ok /\ EntryMessage(s, 0).v.value = v
       /\ f[EntryEnd(s, 0)].ok /\ f[EntryEnd(s, 0)].v = <<>>
  BY <1>9, <1>10, <1>12 DEF Got
<1>15. EntryRead(s, 0)
  <2>1. EntrySize(s, 0).v >= 0 /\ EntryEnd(s, 0) <= Len(s)
    <3> HIDE DEF n
    <3> QED
      BY <1>8, <1>10
  <2> QED
    BY <1>8, <1>14, <2>1 DEF EntryRead
<1>16. f[0] = Got(<<v>> \o <<>>, <<>>)
  BY <1>10, <1>13, <1>14, <1>15, Zenon DEF EntriesFrom
<1>17. <<v>> \o <<>> = <<v>>
  OBVIOUS
<1> QED
  BY <1>1, <1>11, <1>16, <1>17 DEF s
-----------------------------------------------------------------------------
(***************************************************************************)
(* The request: its fields, and what a broker reads in them.               *)
(***************************************************************************)

\* What follows two parts that are written one after the other, in a frame that
\* begins with them.
LEMMA Layout ==
  ASSUME NEW s \in Seq(Int), NEW a \in Seq(Int), NEW b \in Seq(Int), At(s, 0, a \o b)
  PROVE  At(s, 0, a) /\ At(s, Len(a), b)
<1>1. 0 \in Nat /\ 0 + Len(a) = Len(a)
  OBVIOUS
<1>2. At(s, 0, a) /\ At(s, 0 + Len(a), b)
  BY <1>1, AtJoined, Zenon
<1> QED
  BY <1>1, <1>2

\* What lies in the rest of a frame.
LEMMA AtRest ==
  ASSUME NEW s \in Seq(Int), NEW i \in 0 .. Len(s), NEW j \in Nat, NEW b \in Seq(Int),
         At(s, i + j, b)
  PROVE  At(Rest(s, i), j, b)
<1>1. /\ Rest(s, i) \in Seq(Int) /\ Len(Rest(s, i)) = Len(s) - i
      /\ \A k \in 1 .. Len(s) - i : Rest(s, i)[k] = s[i + k]
  BY RestType
<1>2. (i + j) + Len(b) <= Len(s) /\ Len(b) \in Nat /\ Len(s) \in Nat
  BY DEF At
<1>3. ASSUME NEW k \in 1 .. Len(b) PROVE Rest(s, i)[j + k] = b[k]
  <2>1. j + k \in 1 .. Len(s) - i /\ i + (j + k) = (i + j) + k
    BY <1>2
  <2>2. Rest(s, i)[j + k] = s[i + (j + k)]
    BY <1>1, <2>1
  <2>3. s[(i + j) + k] = b[k]
    BY DEF At
  <2> QED
    BY <2>1, <2>2, <2>3
<1>4. j + Len(b) <= Len(Rest(s, i))
  BY <1>1, <1>2
<1> QED
  BY <1>3, <1>4 DEF At

(* The parts of a request. *)
SetPart(c) == WriteBytes(encodeMessageSetV1(c.value))


\* The length of an encoded set, and its first bytes, those of the offset 0.
LEMMA SetType ==
  ASSUME NEW v \in Seq(Int) \cup {Null}
  PROVE  /\ encodeMessageSetV1(v) \in Seq(Int) /\ encodeMessageSetV1(v) # Null
         /\ Len(encodeMessageSetV1(v)) = 12 + Len(Message(v)) /\ Len(Message(v)) >= 22
         /\ At(encodeMessageSetV1(v), 0, WriteInt(0, 2))
<1> DEFINE raw == Message(v)
           n == Len(raw)
           z == 0
           a == WriteInt(z, 8)
           b == WriteInt(n, 4)
           ab == a \o b
           s == ab \o raw
<1>1. encodeMessageSetV1(v) = s
  BY MessageType, Zenon DEF encodeMessageSetV1
<1>2. raw \in Seq(Int) /\ n \in Nat /\ n >= 22
  <2>1. raw \in Seq(Int) /\ n = 18 + Len(WriteBytes(v)) /\ Len(WriteBytes(v)) >= 4
        /\ WriteBytes(v) \in Seq(Int)
    BY MessageType, WriteBytesType, Zenon
  <2> HIDE DEF raw
  <2>2. n \in Nat
    BY <2>1
  <2> HIDE DEF n
  <2> QED
    BY <2>1, <2>2
<1>3. a \in Seq(Int) /\ Len(a) = 8 /\ b \in Seq(Int) /\ Len(b) = 4
      /\ \A k \in 1 .. 8 : a[k] = (z \div Pow[8 - k]) % B
  <2>1. 8 \in 0 .. 8 /\ 4 \in 0 .. 8 /\ n \in Int /\ z \in Int
    BY <1>2
  <2> HIDE DEF n, z
  <2> QED
    BY <2>1, WriteIntType
<1> HIDE DEF raw, n, a, b
<1>4. ab \in Seq(Int) /\ Len(ab) = Len(a) + Len(b) /\ At(ab, 0, a)
  BY <1>3, Joined, Zenon
<1> HIDE DEF ab
<1>5. s \in Seq(Int) /\ Len(s) = Len(ab) + Len(raw) /\ At(s, 0, ab)
  BY <1>2, <1>4, Joined, Zenon
<1> HIDE DEF s
<1>6. Len(s) = 12 + n
  BY <1>2, <1>3, <1>4, <1>5 DEF n
<1>7. At(s, 0 + 0, a)
  BY <1>3, <1>4, <1>5, AtWithin
<1>8. At(s, 0, WriteInt(z, 2))
  <2> DEFINE c == WriteInt(z, 2)
  <2>1. z \in Int /\ 2 \in 0 .. 8
    OBVIOUS
  <2>2. c \in Seq(Int) /\ Len(c) = 2 /\ \A k \in 1 .. 2 : c[k] = (z \div Pow[2 - k]) % B
    <3> HIDE DEF z
    <3> QED
      BY <2>1, WriteIntType
  <2>3. ASSUME NEW j \in 0 .. 8 PROVE (z \div Pow[j]) % B = 0
    <3> DEFINE p == Pow[j]
    <3>0. p \in Nat /\ p > 0
      BY PowFacts
    <3> HIDE DEF p
    <3>1. p \in Nat /\ p > 0 /\ B \in Nat /\ B > 0
      BY <3>0, ByteAssumption
    <3>2. 0 \div p = 0 /\ 0 % B = 0
      BY <3>1
    <3> QED
      BY <3>2 DEF p
  <2>4. ASSUME NEW k \in 1 .. 2 PROVE s[0 + k] = c[k]
    <3>1. k \in 1 .. 8 /\ 8 - k \in 0 .. 8 /\ 2 - k \in 0 .. 8
      OBVIOUS
    <3>2. a[k] = 0 /\ c[k] = 0
      <4> HIDE DEF c, z
      <4> QED
        BY <1>3, <2>2, <2>3, <3>1
    <3>3. s[0 + 0 + k] = a[k]
      BY <1>3, <1>7, <3>1 DEF At
    <3> QED
      BY <3>2, <3>3
  <2>5. 0 + Len(c) <= Len(s)
    <3> HIDE DEF c
    <3> QED
      BY <1>2, <1>6, <2>2
  <2> HIDE DEF c
  <2> QED
    BY <2>2, <2>4, <2>5 DEF At, c
<1>9. s # Null
  BY <1>5, NullAssumption
<1> QED
  BY <1>1, <1>2, <1>5, <1>6, <1>8, <1>9 DEF s, n, raw, ab, a, b

(* Where the parts of a request begin. *)
HeaderLen     == 10 + Len(ClientID)
AfterTopic(c) == HeaderLen + 10 + Len(WriteString(c.topic))

\* Where the fields of a request are.
LEMMA RequestLayout ==
  ASSUME NEW c \in Calls
  PROVE  /\ RequestBody(c) \in Seq(Int) /\ HeaderLen \in Nat /\ AfterTopic(c) \in Nat
         /\ Len(RequestBody(c)) = AfterTopic(c) + 8 + Len(SetPart(c))
         /\ At(RequestBody(c), 0, WriteInt(0, 2)) /\ At(RequestBody(c), 2, WriteInt(1, 2))
         /\ At(RequestBody(c), 4, WriteInt(Corr, 4)) /\ At(RequestBody(c), 8, WriteString(ClientID))
         /\ At(RequestBody(c), HeaderLen, WriteInt(1, 2))
         /\ At(RequestBody(c), HeaderLen + 2, WriteInt(5, 4))
         /\ At(RequestBody(c), HeaderLen + 6, WriteInt(1, 4))
         /\ At(RequestBody(c), HeaderLen + 10, WriteString(c.topic))
         /\ At(RequestBody(c), AfterTopic(c), WriteInt(1, 4))
         /\ At(RequestBody(c), AfterTopic(c) + 4, WriteInt(c.partition, 4))
         /\ At(RequestBody(c), AfterTopic(c) + 8, SetPart(c))
<1> DEFINE w1 == WriteInt(0, 2)
           w2 == WriteInt(1, 2)
           w3 == WriteInt(Corr, 4)
           w4 == WriteString(ClientID)
           w5 == WriteInt(1, 2)
           w6 == WriteInt(5, 4)
           w7 == WriteInt(1, 4)
           w8 == WriteString(c.topic)
           w9 == WriteInt(1, 4)
           w10 == WriteInt(c.partition, 4)
           w11 == SetPart(c)
           p2 == w1 \o w2
           p3 == p2 \o w3
           p4 == p3 \o w4
           p5 == p4 \o w5
           p6 == p5 \o w6
           p7 == p6 \o w7
           p8 == p7 \o w8
           p9 == p8 \o w9
           p10 == p9 \o w10
           p11 == p10 \o w11
           s == p11
<1>1. RequestBody(c) = s
  BY Zenon DEF RequestBody, SetPart
<1>2. c.topic \in Seq(Int) /\ c.partition \in Int /\ c.value \in Seq(Int) \cup {Null}
  <2>1. Ints(4) \subseteq Int
    BY WidthFacts
  <2> QED
    BY <2>1, CallsAssumption
<1>3. /\ w1 \in Seq(Int) /\ Len(w1) = 2 /\ w2 \in Seq(Int) /\ Len(w2) = 2
      /\ w3 \in Seq(Int) /\ Len(w3) = 4 /\ w5 \in Seq(Int) /\ Len(w5) = 2
      /\ w6 \in Seq(Int) /\ Len(w6) = 4 /\ w7 \in Seq(Int) /\ Len(w7) = 4
      /\ w9 \in Seq(Int) /\ Len(w9) = 4 /\ w10 \in Seq(Int) /\ Len(w10) = 4
  <2>1. 0 \in Int /\ 1 \in Int /\ 5 \in Int /\ Corr \in Int /\ 2 \in 0 .. 8 /\ 4 \in 0 .. 8
    BY DEF Corr
  <2> QED
    BY <1>2, <2>1, WriteIntType, Zenon
<1>4. w4 \in Seq(Int) /\ Len(w4) = 2 + Len(ClientID) /\ Len(ClientID) \in Nat
  BY ClientAssumption, WriteStringType
<1>5. w8 \in Seq(Int) /\ w11 \in Seq(Int)
  <2>1. encodeMessageSetV1(c.value) \in Seq(Int) \cup {Null}
    BY <1>2, SetType
  <2> QED
    BY <1>2, <2>1, WriteStringType, WriteBytesType DEF SetPart
<1> HIDE DEF w1, w2, w3, w4, w5, w6, w7, w8, w9, w10, w11
<1>6. p2 \in Seq(Int) /\ Len(p2) = Len(w1) + Len(w2)
  BY <1>3, Joined, Zenon
<1> HIDE DEF p2
<1>7. p3 \in Seq(Int) /\ Len(p3) = Len(p2) + Len(w3)
  BY <1>3, <1>4, <1>5, <1>6, Joined, Zenon
<1> HIDE DEF p3
<1>8. p4 \in Seq(Int) /\ Len(p4) = Len(p3) + Len(w4)
  BY <1>3, <1>4, <1>5, <1>7, Joined, Zenon
<1> HIDE DEF p4
<1>9. p5 \in Seq(Int) /\ Len(p5) = Len(p4) + Len(w5)
  BY <1>3, <1>4, <1>5, <1>8, Joined, Zenon
<1> HIDE DEF p5
<1>10. p6 \in Seq(Int) /\ Len(p6) = Len(p5) + Len(w6)
  BY <1>3, <1>4, <1>5, <1>9, Joined, Zenon
<1> HIDE DEF p6
<1>11. p7 \in Seq(Int) /\ Len(p7) = Len(p6) + Len(w7)
  BY <1>3, <1>4, <1>5, <1>10, Joined, Zenon
<1> HIDE DEF p7
<1>12. p8 \in Seq(Int) /\ Len(p8) = Len(p7) + Len(w8)
  BY <1>3, <1>4, <1>5, <1>11, Joined, Zenon
<1> HIDE DEF p8
<1>13. p9 \in Seq(Int) /\ Len(p9) = Len(p8) + Len(w9)
  BY <1>3, <1>4, <1>5, <1>12, Joined, Zenon
<1> HIDE DEF p9
<1>14. p10 \in Seq(Int) /\ Len(p10) = Len(p9) + Len(w10)
  BY <1>3, <1>4, <1>5, <1>13, Joined, Zenon
<1> HIDE DEF p10
<1>15. p11 \in Seq(Int) /\ Len(p11) = Len(p10) + Len(w11)
  BY <1>3, <1>4, <1>5, <1>14, Joined, Zenon
<1> HIDE DEF p11
<1>16. At(s, 0, p11)
  BY <1>15, AtSelf
<1>17. At(s, 0, p10) /\ At(s, Len(p10), w11)
  <2>1. At(s, 0, p10 \o w11)
    BY <1>16 DEF p11
  <2> QED
    BY <1>3, <1>4, <1>5, <1>15, <1>14, <2>1, Layout, Zenon
<1>18. At(s, 0, p9) /\ At(s, Len(p9), w10)
  <2>1. At(s, 0, p9 \o w10)
    BY <1>17 DEF p10
  <2> QED
    BY <1>3, <1>4, <1>5, <1>15, <1>13, <2>1, Layout, Zenon
<1>19. At(s, 0, p8) /\ At(s, Len(p8), w9)
  <2>1. At(s, 0, p8 \o w9)
    BY <1>18 DEF p9
  <2> QED
    BY <1>3, <1>4, <1>5, <1>15, <1>12, <2>1, Layout, Zenon
<1>20. At(s, 0, p7) /\ At(s, Len(p7), w8)
  <2>1. At(s, 0, p7 \o w8)
    BY <1>19 DEF p8
  <2> QED
    BY <1>3, <1>4, <1>5, <1>15, <1>11, <2>1, Layout, Zenon
<1>21. At(s, 0, p6) /\ At(s, Len(p6), w7)
  <2>1. At(s, 0, p6 \o w7)
    BY <1>20 DEF p7
  <2> QED
    BY <1>3, <1>4, <1>5, <1>15, <1>10, <2>1, Layout, Zenon
<1>22. At(s, 0, p5) /\ At(s, Len(p5), w6)
  <2>1. At(s, 0, p5 \o w6)
    BY <1>21 DEF p6
  <2> QED
    BY <1>3, <1>4, <1>5, <1>15, <1>9, <2>1, Layout, Zenon
<1>23. At(s, 0, p4) /\ At(s, Len(p4), w5)
  <2>1. At(s, 0, p4 \o w5)
    BY <1>22 DEF p5
  <2> QED
    BY <1>3, <1>4, <1>5, <1>15, <1>8, <2>1, Layout, Zenon
<1>24. At(s, 0, p3) /\ At(s, Len(p3), w4)
  <2>1. At(s, 0, p3 \o w4)
    BY <1>23 DEF p4
  <2> QED
    BY <1>3, <1>4, <1>5, <1>15, <1>7, <2>1, Layout, Zenon
<1>25. At(s, 0, p2) /\ At(s, Len(p2), w3)
  <2>1. At(s, 0, p2 \o w3)
    BY <1>24 DEF p3
  <2> QED
    BY <1>3, <1>4, <1>5, <1>15, <1>6, <2>1, Layout, Zenon
<1>26. At(s, 0, w1) /\ At(s, Len(w1), w2)
  <2>1. At(s, 0, w1 \o w2)
    BY <1>25 DEF p2
  <2> QED
    BY <1>3, <1>15, <2>1, Layout, Zenon
<1>27. /\ Len(p2) = 4 /\ Len(p3) = 8 /\ Len(p4) = HeaderLen /\ Len(p5) = HeaderLen + 2
       /\ Len(p6) = HeaderLen + 6 /\ Len(p7) = HeaderLen + 10 /\ Len(p8) = AfterTopic(c)
       /\ Len(p9) = AfterTopic(c) + 4 /\ Len(p10) = AfterTopic(c) + 8
       /\ Len(s) = AfterTopic(c) + 8 + Len(w11)
       /\ HeaderLen \in Nat /\ AfterTopic(c) \in Nat
  <2>1. Len(w8) \in Nat /\ Len(w11) \in Nat
    BY <1>5
  <2>2. HeaderLen = 10 + Len(ClientID) /\ AfterTopic(c) = HeaderLen + 10 + Len(w8)
    BY DEF HeaderLen, AfterTopic, w8
  <2> DEFINE h == HeaderLen
             t == AfterTopic(c)
  <2> HIDE DEF h, t
  <2>3. h = 10 + Len(ClientID) /\ t = h + 10 + Len(w8)
    BY <2>2 DEF h, t
  <2> QED
    BY <1>3, <1>4, <1>6, <1>7, <1>8, <1>9, <1>10, <1>11, <1>12, <1>13, <1>14, <1>15, <2>1, <2>3
    DEF h, t
<1> HIDE DEF s
<1>28. /\ At(s, 0, w1) /\ At(s, 2, w2) /\ At(s, 4, w3) /\ At(s, 8, w4) /\ At(s, HeaderLen, w5)
       /\ At(s, HeaderLen + 2, w6) /\ At(s, HeaderLen + 6, w7) /\ At(s, HeaderLen + 10, w8)
       /\ At(s, AfterTopic(c), w9) /\ At(s, AfterTopic(c) + 4, w10)
       /\ At(s, AfterTopic(c) + 8, w11)
  BY <1>3, <1>17, <1>18, <1>19, <1>20, <1>21, <1>22, <1>23, <1>24, <1>25, <1>26, <1>27, Zenon
<1>29. s \in Seq(Int)
  BY <1>15 DEF s
<1>30. RequestBody(c) = s
  BY <1>1 DEF s, p11, p10, p9, p8, p7, p6, p5, p4, p3, p2, w1, w2, w3, w4, w5, w6, w7, w8, w9, w10, w11
<1> QED
  BY <1>27, <1>28, <1>29, <1>30 DEF w1, w2, w3, w4, w5, w6, w7, w8, w9, w10, w11

\* What a header leaves is the rest of the frame.
LEMMA RestBytes ==
  ASSUME NEW s \in Seq(Int), NEW i \in 0 .. Len(s)
  PROVE  NextBytes(Place(s, i), Remaining(Place(s, i))) = Rest(s, i)
<1>1. Remaining(Place(s, i)) = Len(s) - i /\ Place(s, i).b = s /\ Place(s, i).i = i
  BY DEF Remaining, Place
<1>2. i + (Len(s) - i) = Len(s)
  OBVIOUS
<1> QED
  BY <1>1, <1>2 DEF NextBytes, Rest

\* The header of a request is read as the client wrote it.
WrittenHeader == [apiKey |-> 0, apiVersion |-> 1, correlationID |-> Corr, clientID |-> ClientID]

\* The header is read as it was written.
LEMMA HeaderRead ==
  ASSUME NEW c \in Calls
  PROVE  /\ parseRequestHeader(RequestBody(c)) = Got(WrittenHeader, Rest(RequestBody(c), HeaderLen))
         /\ HeaderLen \in 0 .. Len(RequestBody(c))
<1> DEFINE s == RequestBody(c)
           kk == readInt(Reader(s), 2)
           vv == readInt(kk.r, 2)
           ii == readInt(vv.r, 4)
           cc == readString(ii.r)
<1>1. /\ s \in Seq(Int) /\ At(s, 0, WriteInt(0, 2)) /\ At(s, 2, WriteInt(1, 2))
      /\ At(s, 4, WriteInt(Corr, 4)) /\ At(s, 8, WriteString(ClientID))
  BY RequestLayout
<1>2. parseRequestHeader(s)
        = IF kk.ok /\ vv.ok /\ ii.ok /\ cc.ok
          THEN Got([apiKey |-> kk.v, apiVersion |-> vv.v, correlationID |-> ii.v, clientID |-> cc.v],
                   NextBytes(cc.r, Remaining(cc.r)))
          ELSE Failed
  BY DEF parseRequestHeader
<1> HIDE DEF s
<1>3. /\ 0 \in Ints(2) /\ 1 \in Ints(2) /\ Corr \in Ints(4) /\ 2 \in 1 .. 8 /\ 4 \in 1 .. 8
      /\ 0 \in Nat /\ 2 \in Nat /\ 4 \in Nat /\ 8 \in Nat /\ 0 + 2 = 2 /\ 2 + 2 = 4 /\ 4 + 4 = 8
  <2>1. Corr \in 0 .. 7
    BY DEF Corr
  <2>2. 0 \in Ints(2) /\ 1 \in Ints(2) /\ Corr \in Ints(4)
    BY <2>1, SmallInts, Zenon
  <2> QED
    BY <2>2
<1>4. kk.ok /\ kk.v = 0 /\ kk.r = Place(s, 2)
  <2>1. Reader(s) = Place(s, 0)
    BY DEF Reader, Place
  <2>2. readInt(Place(s, 0), 2) = ReadAs(0, s, 0 + 2)
    BY <1>1, <1>3, IntAt, Zenon
  <2> QED
    BY <1>3, <2>1, <2>2, ReadAsFacts
<1> HIDE DEF kk
<1>5. vv.ok /\ vv.v = 1 /\ vv.r = Place(s, 4)
  <2>1. readInt(Place(s, 2), 2) = ReadAs(1, s, 2 + 2)
    BY <1>1, <1>3, IntAt, Zenon
  <2> QED
    BY <1>3, <1>4, <2>1, ReadAsFacts
<1> HIDE DEF vv
<1>6. ii.ok /\ ii.v = Corr /\ ii.r = Place(s, 8)
  <2>1. readInt(Place(s, 4), 4) = ReadAs(Corr, s, 4 + 4)
    BY <1>1, <1>3, IntAt, Zenon
  <2> QED
    BY <1>3, <1>5, <2>1, ReadAsFacts
<1> HIDE DEF ii
<1>7. cc.ok /\ cc.v = ClientID /\ cc.r = Place(s, HeaderLen) /\ HeaderLen \in 0 .. Len(s)
  <2>1. ClientID \in Seq(Int) /\ Len(ClientID) <= MaxInt(2)
    BY ClientAssumption
  <2>2. /\ readString(Place(s, 8)) = ReadAs(ClientID, s, 8 + 2 + Len(ClientID))
        /\ 8 + 2 + Len(ClientID) \in 0 .. Len(s)
    BY <1>1, <1>3, <2>1, StringAt, Zenon
  <2>3. 8 + 2 + Len(ClientID) = HeaderLen
    BY <2>1 DEF HeaderLen
  <2> QED
    BY <1>6, <2>2, <2>3, ReadAsFacts
<1> HIDE DEF cc
<1>8. NextBytes(cc.r, Remaining(cc.r)) = Rest(s, HeaderLen)
  BY <1>1, <1>7, RestBytes
<1>9. [apiKey |-> kk.v, apiVersion |-> vv.v, correlationID |-> ii.v, clientID |-> cc.v] = WrittenHeader
  BY <1>4, <1>5, <1>6, <1>7 DEF WrittenHeader
<1>10. parseRequestHeader(s) = Got(WrittenHeader, Rest(s, HeaderLen))
  BY <1>2, <1>4, <1>5, <1>6, <1>7, <1>8, <1>9, Zenon
<1> QED
  BY <1>7, <1>10 DEF s

(* What follows the header. *)
Payload(c) == Rest(RequestBody(c), HeaderLen)
TopicEnd(c) == 10 + Len(WriteString(c.topic))

\* Where the fields are after the header.
LEMMA PayloadLayout ==
  ASSUME NEW c \in Calls
  PROVE  /\ Payload(c) \in Seq(Int) /\ TopicEnd(c) \in Nat
         /\ Len(Payload(c)) = TopicEnd(c) + 8 + Len(SetPart(c))
         /\ At(Payload(c), 0, WriteInt(1, 2)) /\ At(Payload(c), 2, WriteInt(5, 4))
         /\ At(Payload(c), 6, WriteInt(1, 4)) /\ At(Payload(c), 10, WriteString(c.topic))
         /\ At(Payload(c), TopicEnd(c), WriteInt(1, 4))
         /\ At(Payload(c), TopicEnd(c) + 4, WriteInt(c.partition, 4))
         /\ At(Payload(c), TopicEnd(c) + 8, SetPart(c))
         /\ c.topic \in Seq(Int) /\ c.partition \in Ints(4) /\ c.value \in Seq(Int) \cup {Null}
         /\ SetPart(c) \in Seq(Int)
<1> DEFINE s == RequestBody(c)
           h == HeaderLen
           t == TopicEnd(c)
<1>1. c.topic \in Seq(Int) /\ c.partition \in Ints(4) /\ c.value \in Seq(Int) \cup {Null}
      /\ c.partition \in Int
  <2>1. Ints(4) \subseteq Int
    BY WidthFacts
  <2> QED
    BY <2>1, CallsAssumption
<1>2. WriteString(c.topic) \in Seq(Int) /\ SetPart(c) \in Seq(Int)
  <2>1. encodeMessageSetV1(c.value) \in Seq(Int) \cup {Null}
    BY <1>1, SetType
  <2> QED
    BY <1>1, <2>1, WriteStringType, WriteBytesType DEF SetPart
<1>3. t \in Nat /\ t = 10 + Len(WriteString(c.topic)) /\ AfterTopic(c) = h + t
  <2> DEFINE l == Len(WriteString(c.topic))
  <2>1. l \in Nat /\ h \in Nat
    BY <1>2, RequestLayout
  <2>2. TopicEnd(c) = 10 + l /\ AfterTopic(c) = h + 10 + l
    BY DEF TopicEnd, AfterTopic
  <2> HIDE DEF l, h
  <2>3. t \in Nat /\ t = 10 + l /\ AfterTopic(c) = h + t
    BY <2>1, <2>2
  <2> QED
    BY <2>3 DEF l
<1>4. /\ s \in Seq(Int) /\ h \in Nat /\ h \in 0 .. Len(s)
      /\ Len(s) = AfterTopic(c) + 8 + Len(SetPart(c))
      /\ At(s, h, WriteInt(1, 2)) /\ At(s, h + 2, WriteInt(5, 4)) /\ At(s, h + 6, WriteInt(1, 4))
      /\ At(s, h + 10, WriteString(c.topic)) /\ At(s, AfterTopic(c), WriteInt(1, 4))
      /\ At(s, AfterTopic(c) + 4, WriteInt(c.partition, 4)) /\ At(s, AfterTopic(c) + 8, SetPart(c))
  BY RequestLayout, HeaderRead
<1>5. /\ WriteInt(1, 2) \in Seq(Int) /\ WriteInt(5, 4) \in Seq(Int) /\ WriteInt(1, 4) \in Seq(Int)
      /\ WriteInt(c.partition, 4) \in Seq(Int)
  <2>1. 1 \in Int /\ 5 \in Int /\ 2 \in 0 .. 8 /\ 4 \in 0 .. 8
    OBVIOUS
  <2> QED
    BY <1>1, <2>1, WriteIntType, Zenon
<1> HIDE DEF s, h, t
<1>6. /\ h = h + 0 /\ AfterTopic(c) = h + t /\ AfterTopic(c) + 4 = h + (t + 4)
      /\ AfterTopic(c) + 8 = h + (t + 8)
      /\ 0 \in Nat /\ 2 \in Nat /\ 6 \in Nat /\ 10 \in Nat /\ t + 4 \in Nat /\ t + 8 \in Nat
  <2> DEFINE a == AfterTopic(c)
  <2>1. h \in Nat /\ t \in Nat /\ a = h + t
    BY <1>3, <1>4, Zenon
  <2> HIDE DEF a
  <2>2. /\ h = h + 0 /\ a = h + t /\ a + 4 = h + (t + 4) /\ a + 8 = h + (t + 8)
        /\ t + 4 \in Nat /\ t + 8 \in Nat
    BY <2>1
  <2> QED
    BY <2>2 DEF a
<1>7. /\ At(Rest(s, h), 0, WriteInt(1, 2)) /\ At(Rest(s, h), 2, WriteInt(5, 4))
      /\ At(Rest(s, h), 6, WriteInt(1, 4)) /\ At(Rest(s, h), 10, WriteString(c.topic))
  <2>1. At(s, h + 0, WriteInt(1, 2))
    BY <1>4, <1>6
  <2> QED
    BY <1>2, <1>4, <1>5, <1>6, <2>1, AtRest, Zenon
<1>8. /\ At(Rest(s, h), t, WriteInt(1, 4)) /\ At(Rest(s, h), t + 4, WriteInt(c.partition, 4))
      /\ At(Rest(s, h), t + 8, SetPart(c))
  <2>1. /\ At(s, h + t, WriteInt(1, 4)) /\ At(s, h + (t + 4), WriteInt(c.partition, 4))
        /\ At(s, h + (t + 8), SetPart(c))
    BY <1>4, <1>6
  <2> QED
    BY <1>2, <1>3, <1>4, <1>5, <1>6, <2>1, AtRest, Zenon
<1>9. Rest(s, h) \in Seq(Int) /\ Len(Rest(s, h)) = Len(s) - h
  BY <1>4, RestType
<1>10. Len(Rest(s, h)) = t + 8 + Len(SetPart(c))
  <2>1. Len(SetPart(c)) \in Nat
    BY <1>2
  <2> QED
    BY <1>3, <1>4, <1>9, <2>1
<1> QED
  BY <1>1, <1>2, <1>3, <1>7, <1>8, <1>9, <1>10, Zenon DEF Payload, s, h, t

(* What a broker reads after the number of topics. *)
TopicOf(s)     == readString(Place(s, 10))
CountOf(s)     == readInt(TopicOf(s).r, 4)
PartitionOf(s) == readInt(CountOf(s).r, 4)
SetOf(s)       == readBytes(PartitionOf(s).r)
RecordsOf(s)   == decodeMessageSetV1(SetOf(s).v)

Readable(s) ==
  /\ TopicOf(s).ok /\ CountOf(s).ok /\ CountOf(s).v > 0
  /\ PartitionOf(s).ok /\ SetOf(s).ok /\ SetOf(s).v # Null
  /\ RecordsOf(s).ok /\ RecordsOf(s).v # <<>>

\* What a broker reads is decided by what follows the header.
LEMMA ReceivedTail ==
  ASSUME NEW c \in Calls
  PROVE  Received(RequestBody(c))
           = IF Readable(Payload(c))
             THEN [topic |-> TopicOf(Payload(c)).v, partition |-> PartitionOf(Payload(c)).v,
                   values |-> RecordsOf(Payload(c)).v, header |-> WrittenHeader]
             ELSE NoRecord
<1> DEFINE body == RequestBody(c)
           s == Payload(c)
           hd == parseRequestHeader(body)
           aa == readInt(Reader(hd.rest), 2)
           tt == readInt(aa.r, 4)
           nn == readInt(tt.r, 4)
           tn == readString(nn.r)
           cn == readInt(tn.r, 4)
           pn == readInt(cn.r, 4)
           sn == readBytes(pn.r)
           rn == decodeMessageSetV1(sn.v)
<1>1. hd.ok /\ hd.v = WrittenHeader /\ hd.rest = s
  BY HeaderRead DEF Got, Payload
<1>2. Received(body)
        = IF /\ hd.ok /\ nn.ok /\ nn.v > 0
             /\ tn.ok /\ cn.ok /\ cn.v > 0
             /\ pn.ok /\ sn.ok /\ sn.v # Null
             /\ rn.ok /\ rn.v # <<>>
          THEN [topic |-> tn.v, partition |-> pn.v, values |-> rn.v, header |-> hd.v]
          ELSE NoRecord
  BY DEF Received
<1> HIDE DEF hd
<1>3. /\ s \in Seq(Int) /\ At(s, 0, WriteInt(1, 2)) /\ At(s, 2, WriteInt(5, 4))
      /\ At(s, 6, WriteInt(1, 4))
  BY PayloadLayout
<1> HIDE DEF s
<1>4. /\ 1 \in Ints(2) /\ 5 \in Ints(4) /\ 1 \in Ints(4) /\ 2 \in 1 .. 8 /\ 4 \in 1 .. 8
      /\ 0 \in Nat /\ 2 \in Nat /\ 6 \in Nat /\ 0 + 2 = 2 /\ 2 + 4 = 6 /\ 6 + 4 = 10
  <2>1. 5 \in 0 .. 7 /\ 1 \in 0 .. 7
    OBVIOUS
  <2>2. 1 \in Ints(2) /\ 5 \in Ints(4) /\ 1 \in Ints(4)
    BY <2>1, SmallInts, Zenon
  <2> QED
    BY <2>2
<1>5. aa.r = Place(s, 2)
  <2>1. Reader(hd.rest) = Place(s, 0)
    BY <1>1 DEF Reader, Place
  <2>2. readInt(Place(s, 0), 2) = ReadAs(1, s, 0 + 2)
    BY <1>3, <1>4, IntAt, Zenon
  <2> QED
    BY <1>4, <2>1, <2>2, ReadAsFacts
<1> HIDE DEF aa
<1>6. tt.r = Place(s, 6)
  <2>1. readInt(Place(s, 2), 4) = ReadAs(5, s, 2 + 4)
    BY <1>3, <1>4, IntAt, Zenon
  <2> QED
    BY <1>4, <1>5, <2>1, ReadAsFacts
<1> HIDE DEF tt
<1>7. nn.ok /\ nn.v = 1 /\ nn.r = Place(s, 10)
  <2>1. readInt(Place(s, 6), 4) = ReadAs(1, s, 6 + 4)
    BY <1>3, <1>4, IntAt, Zenon
  <2> QED
    BY <1>4, <1>6, <2>1, ReadAsFacts
<1>8. nn.v > 0
  BY <1>7
<1> HIDE DEF nn
<1>9. tn = TopicOf(s)
  BY <1>7 DEF TopicOf
<1>10. cn = CountOf(s)
  BY <1>9 DEF CountOf
<1>11. pn = PartitionOf(s)
  BY <1>10 DEF PartitionOf
<1>12. sn = SetOf(s)
  BY <1>11 DEF SetOf
<1>13. rn = RecordsOf(s)
  BY <1>12 DEF RecordsOf
<1> HIDE DEF tn, cn, pn, sn, rn
<1>14. Received(body)
         = IF Readable(s)
           THEN [topic |-> TopicOf(s).v, partition |-> PartitionOf(s).v,
                 values |-> RecordsOf(s).v, header |-> WrittenHeader]
           ELSE NoRecord
  BY <1>1, <1>2, <1>7, <1>8, <1>9, <1>10, <1>11, <1>12, <1>13, Zenon DEF Readable
<1> QED
  BY <1>14 DEF s

\* The set of a request that fits a frame fits its length field, and so does its
\* message.
LEMMA SetFits ==
  ASSUME NEW c \in Calls, ~TooLarge(RequestBody(c))
  PROVE  /\ Len(encodeMessageSetV1(c.value)) <= MaxInt(4) /\ Len(Message(c.value)) <= MaxInt(4)
         /\ SetPart(c) = WriteInt(Len(encodeMessageSetV1(c.value)), 4) \o encodeMessageSetV1(c.value)
         /\ Len(SetPart(c)) = 4 + Len(encodeMessageSetV1(c.value))
<1> DEFINE set == encodeMessageSetV1(c.value)
           l == Len(set)
           m == Len(Message(c.value))
           b == Len(RequestBody(c))
           t == AfterTopic(c)
           p == Len(SetPart(c))
           x == MaxInt(4)
<1>1. c.value \in Seq(Int) \cup {Null}
  BY PayloadLayout
<1>2. set \in Seq(Int) /\ set # Null /\ l = 12 + m /\ m >= 22
  BY <1>1, SetType
<1>3. SetPart(c) = WriteInt(l, 4) \o set /\ p = 4 + l
  <2>1. set \in Seq(Int) \cup {Null}
    BY <1>2
  <2> HIDE DEF set
  <2> QED
    BY <1>2, <2>1, WriteBytesType DEF SetPart, set
<1>4. t \in Nat /\ b = t + 8 + p /\ ~(b > x) /\ x \in Nat /\ l \in Nat
  <2>1. RequestBody(c) \in Seq(Int) /\ t \in Nat /\ b = t + 8 + p
    BY RequestLayout
  <2>2. ~(b > x)
    BY DEF TooLarge
  <2>3. x \in Nat
    BY WidthFacts
  <2>4. l \in Nat
    BY <1>2
  <2> QED
    BY <2>1, <2>2, <2>3, <2>4
<1>5. m \in Nat
  BY <1>1, MessageType
<1> HIDE DEF l, m, b, t, p, x
<1>6. l <= x /\ m <= x
  BY <1>2, <1>3, <1>4, <1>5
<1> QED
  BY <1>3, <1>6 DEF l, m, p, x, set

\* A request with a topic that fits is read as the record of the call.
LEMMA ReceivedFits ==
  ASSUME NEW c \in Calls, ~TooLarge(RequestBody(c)), Len(c.topic) <= MaxInt(2)
  PROVE  Received(RequestBody(c))
           = [topic |-> c.topic, partition |-> c.partition, values |-> <<c.value>>,
              header |-> WrittenHeader]
<1> DEFINE s == Payload(c)
           t == TopicEnd(c)
           n == Len(c.topic)
           set == encodeMessageSetV1(c.value)
<1>1. /\ s \in Seq(Int) /\ t \in Nat
      /\ At(s, 10, WriteString(c.topic)) /\ At(s, t, WriteInt(1, 4))
      /\ At(s, t + 4, WriteInt(c.partition, 4)) /\ At(s, t + 8, SetPart(c))
      /\ c.topic \in Seq(Int) /\ c.partition \in Ints(4) /\ c.value \in Seq(Int) \cup {Null}
  BY PayloadLayout
<1>2. n \in Nat /\ n <= MaxInt(2) /\ t = 10 + 2 + n
  <2>1. Len(WriteString(c.topic)) = 2 + n /\ n \in Nat
    <3>1. Len(WriteString(c.topic)) = 2 + n
      BY <1>1, WriteStringType, Zenon
    <3> QED
      BY <1>1, <3>1
  <2>2. t = 10 + Len(WriteString(c.topic))
    BY DEF TopicEnd
  <2> HIDE DEF t, n
  <2>3. t = 10 + 2 + n
    BY <2>1, <2>2
  <2> QED
    BY <2>1, <2>3 DEF n
<1>3. /\ set \in Seq(Int) /\ set # Null /\ Len(set) <= MaxInt(4)
      /\ Len(Message(c.value)) <= MaxInt(4) /\ SetPart(c) = WriteInt(Len(set), 4) \o set
  BY <1>1, SetFits, SetType
<1> HIDE DEF s, t, set
<1>4. TopicOf(s).ok /\ TopicOf(s).v = c.topic /\ TopicOf(s).r = Place(s, t)
  <2>1. 10 \in Nat
    OBVIOUS
  <2>2. readString(Place(s, 10)) = ReadAs(c.topic, s, 10 + 2 + n)
    BY <1>1, <1>2, <2>1, StringAt
  <2>3. readString(Place(s, 10)) = ReadAs(c.topic, s, t)
    BY <1>2, <2>2
  <2> QED
    BY <2>3, ReadAsFacts DEF TopicOf
<1>5. 1 \in Ints(4) /\ 4 \in 1 .. 8 /\ t + 4 \in Nat /\ t + 8 \in Nat /\ t + 4 + 4 = t + 8
  <2>1. 1 \in 0 .. 7
    OBVIOUS
  <2>2. 1 \in Ints(4)
    BY <2>1, SmallInts, Zenon
  <2> QED
    BY <1>1, <2>2
<1>6. CountOf(s).ok /\ CountOf(s).v = 1 /\ CountOf(s).r = Place(s, t + 4)
  <2>1. readInt(Place(s, t), 4) = ReadAs(1, s, t + 4)
    BY <1>1, <1>5, IntAt, Zenon
  <2> QED
    BY <1>4, <2>1, ReadAsFacts DEF CountOf
<1>7. PartitionOf(s).ok /\ PartitionOf(s).v = c.partition /\ PartitionOf(s).r = Place(s, t + 8)
  <2>1. readInt(Place(s, t + 4), 4) = ReadAs(c.partition, s, t + 4 + 4)
    BY <1>1, <1>5, IntAt, Zenon
  <2> QED
    BY <1>5, <1>6, <2>1, ReadAsFacts DEF PartitionOf
<1>8. SetOf(s).ok /\ SetOf(s).v = set
  <2>1. At(s, t + 8, WriteInt(Len(set), 4) \o set)
    BY <1>1, <1>3
  <2>2. readBytes(Place(s, t + 8)) = ReadAs(set, s, t + 8 + 4 + Len(set))
    BY <1>1, <1>3, <1>5, <2>1, BytesFieldAt, Zenon
  <2> QED
    BY <1>7, <2>2, ReadAsFacts DEF SetOf
<1>9. RecordsOf(s).ok /\ RecordsOf(s).v = <<c.value>> /\ <<c.value>> # <<>>
  <2>1. decodeMessageSetV1(set) = Got(<<c.value>>, <<>>)
    BY <1>1, <1>3, SetRead DEF set
  <2>2. <<c.value>> # <<>>
    OBVIOUS
  <2> QED
    BY <1>8, <2>1, <2>2 DEF RecordsOf, Got
<1>10. Readable(s)
  <2>1. CountOf(s).v > 0
    BY <1>6
  <2> QED
    BY <1>3, <1>4, <1>6, <1>7, <1>8, <1>9, <2>1, Zenon DEF Readable
<1>11. Received(RequestBody(c))
         = IF Readable(s)
           THEN [topic |-> TopicOf(s).v, partition |-> PartitionOf(s).v,
                 values |-> RecordsOf(s).v, header |-> WrittenHeader]
           ELSE NoRecord
  BY ReceivedTail DEF s
<1> QED
  BY <1>4, <1>7, <1>9, <1>10, <1>11, Zenon
-----------------------------------------------------------------------------
(***************************************************************************)
(* A topic too long for its length field: the broker reads the request two bytes*)
(* late.  It finds an empty topic, and a size of the set that it cannot fill.*)
(***************************************************************************)

\* A multiple divides without a remainder.
LEMMA Exact ==
  ASSUME NEW a \in Int, NEW d \in Nat, d > 0
  PROVE  (a * d) \div d = a /\ (a * d) % d = 0
<1> DEFINE x == a * d
           q == x \div d
           r == x % d
           z == 0
<1>1. x \in Int
  OBVIOUS
<1> HIDE DEF x
<1>2. q \in Int /\ r \in Int /\ x = d * q + r /\ 0 <= r /\ r < d
  BY <1>1, DivMod
<1> HIDE DEF q, r
<1>3. x = d * a + z /\ z \in Int /\ 0 <= z /\ z < d
  BY SMT DEF x
<1>4. d * q + r = d * a + z
  BY <1>2, <1>3
<1> HIDE DEF z
<1>5. q = a /\ r = z
  BY <1>2, <1>3, <1>4, Unique, Zenon
<1> QED
  BY <1>5 DEF q, r, x, z

\* The powers that the widths of the encoding use.
LEMMA Powers ==
  /\ Pow[0] = 1 /\ Pow[1] = B /\ Pow[2] = B * B /\ Pow[3] = Pow[2] * B /\ Pow[4] = Pow[2] * Pow[2]
  /\ Pow[2] \in Nat /\ Pow[2] >= 4 /\ Pow[3] >= Pow[2] /\ Pow[3] \in Nat /\ Pow[4] \in Nat
<1> DEFINE p0 == Pow[0]
           p1 == Pow[1]
           p2 == Pow[2]
           p3 == Pow[3]
           p4 == Pow[4]
<1>1. p0 = 1 /\ p1 = p0 * B /\ p2 = p1 * B /\ p3 = p2 * B /\ p4 = p3 * B
  BY PowFacts
<1>2. B \in Nat /\ B >= 2
  BY ByteAssumption
<1> HIDE DEF p0, p1, p2, p3, p4
<1>3. p1 = B
  BY <1>1, <1>2, SMT
<1>4. p2 = B * B /\ p2 \in Nat /\ p2 >= 4
  BY <1>1, <1>2, <1>3, SMT
<1>5. p3 \in Nat /\ p3 >= p2
  BY <1>1, <1>2, <1>4, SMT
<1>6. p4 = p2 * p2
  <2>1. p4 = (p2 * B) * B
    BY <1>1
  <2>2. (p2 * B) * B = p2 * (B * B)
    BY <1>2, <1>4, SMT
  <2> QED
    BY <1>4, <2>1, <2>2
<1>7. p4 \in Nat
  BY <1>4, <1>6, SMT
<1> QED
  BY <1>1, <1>3, <1>4, <1>5, <1>6, <1>7, Zenon DEF p0, p1, p2, p3, p4

\* The bytes of 0.
LEMMA ZeroBytes ==
  /\ WriteInt(0, 2) \in Seq(Int) /\ Len(WriteInt(0, 2)) = 2
  /\ \A k \in 1 .. 2 : WriteInt(0, 2)[k] = 0
<1> DEFINE z == 0
           c == WriteInt(z, 2)
<1>1. z \in Int /\ 2 \in 0 .. 8
  OBVIOUS
<1>2. c \in Seq(Int) /\ Len(c) = 2 /\ \A k \in 1 .. 2 : c[k] = (z \div Pow[2 - k]) % B
  <2> HIDE DEF z
  <2> QED
    BY <1>1, WriteIntType
<1> HIDE DEF c
<1>3. ASSUME NEW k \in 1 .. 2 PROVE c[k] = 0
  <2> DEFINE p == Pow[2 - k]
  <2>1. 2 - k \in 0 .. 8
    OBVIOUS
  <2>2. p \in Nat /\ p > 0
    BY <2>1, PowFacts
  <2>3. c[k] = (0 \div p) % B
    BY <1>2
  <2> HIDE DEF p
  <2>4. 0 \div p = 0 /\ 0 % B = 0
    BY <2>2, ByteAssumption
  <2> QED
    BY <2>3, <2>4
<1> QED
  BY <1>2, <1>3 DEF c

\* Four bytes of a number that two bytes hold, and of that number shifted by two bytes.
LEMMA Halves ==
  ASSUME NEW v \in Nat, v < Pow[2]
  PROVE  \A k \in 1 .. 2 : /\ WriteInt(v, 4)[k] = 0
                           /\ WriteInt(v, 4)[2 + k] = WriteInt(v, 2)[k]
                           /\ WriteInt(v * Pow[2], 4)[k] = WriteInt(v, 2)[k]
                           /\ WriteInt(v * Pow[2], 4)[2 + k] = 0
<1> SUFFICES ASSUME NEW k \in 1 .. 2
             PROVE  /\ WriteInt(v, 4)[k] = 0
                    /\ WriteInt(v, 4)[2 + k] = WriteInt(v, 2)[k]
                    /\ WriteInt(v * Pow[2], 4)[k] = WriteInt(v, 2)[k]
                    /\ WriteInt(v * Pow[2], 4)[2 + k] = 0
  OBVIOUS
<1> DEFINE P == Pow[2]
           x == v * P
           d == Pow[2 - k]
           e == Pow[4 - k]
<1>1. /\ P \in Nat /\ P >= 4 /\ B \in Nat /\ B > 1 /\ d \in Nat /\ d > 0 /\ e \in Nat /\ e >= P
      /\ e = P * d /\ v < P /\ P = B * B
      /\ (k = 1 => d = B) /\ (k = 2 => d = 1)
  <2>1. P \in Nat /\ P >= 4 /\ P = B * B /\ Pow[3] = P * B /\ Pow[3] >= P /\ Pow[3] \in Nat
        /\ Pow[1] = B /\ Pow[0] = 1
    BY Powers, Zenon
  <2>2. CASE k = 1
    <3>1. d = B /\ e = P * B
      BY <2>1, <2>2
    <3> HIDE DEF P, d, e
    <3> QED
      BY <2>1, <2>2, <3>1, ByteAssumption DEF P
  <2>3. CASE k = 2
    <3>1. d = 1 /\ e = P
      BY <2>1, <2>3
    <3> HIDE DEF P, d, e
    <3> QED
      BY <2>1, <2>3, <3>1, ByteAssumption DEF P
  <2> QED
    BY <2>2, <2>3
<1>2. x \in Int
  <2> HIDE DEF P
  <2> QED
    BY <1>1, SMT
<1>3. /\ WriteInt(v, 4)[k] = (v \div e) % B /\ WriteInt(v, 4)[2 + k] = (v \div d) % B
      /\ WriteInt(v, 2)[k] = (v \div d) % B
      /\ WriteInt(x, 4)[k] = (x \div e) % B /\ WriteInt(x, 4)[2 + k] = (x \div d) % B
  <2>1. v \in Int /\ 4 \in 0 .. 8 /\ 2 \in 0 .. 8 /\ k \in 1 .. 4 /\ 2 + k \in 1 .. 4
        /\ 4 - (2 + k) = 2 - k
    OBVIOUS
  <2> HIDE DEF x
  <2>2. /\ \A j \in 1 .. 4 : WriteInt(v, 4)[j] = (v \div Pow[4 - j]) % B
        /\ \A j \in 1 .. 2 : WriteInt(v, 2)[j] = (v \div Pow[2 - j]) % B
        /\ \A j \in 1 .. 4 : WriteInt(x, 4)[j] = (x \div Pow[4 - j]) % B
    BY <1>2, <2>1, WriteIntType, Zenon
  <2> QED
    BY <2>1, <2>2
<1> HIDE DEF P, d, e
<1>4. (v \div e) % B = 0
  <2>1. v \div e = 0
    BY <1>1
  <2>2. 0 % B = 0
    BY <1>1
  <2> QED
    BY <2>1, <2>2
<1>5. x \div e = v \div d
  <2>1. P > 0
    BY <1>1
  <2>2. x \div P = v
    BY <1>1, <2>1, Exact
  <2> HIDE DEF x
  <2>3. (x \div P) \div d = x \div (P * d)
    BY <1>1, <1>2, <2>1, DivStep
  <2> QED
    BY <1>1, <2>2, <2>3
<1>6. (x \div d) % B = 0
  <2> DEFINE y == IF k = 1 THEN v ELSE v * B
  <2>1. y \in Int
    BY <1>1, SMT
  <2>2. x \div d = y * B
    <3>1. CASE k = 1
      <4>1. x = (v * B) * B /\ v * B \in Int
        BY <1>1, SMT
      <4>2. ((v * B) * B) \div B = v * B
        <5> DEFINE a == v * B
        <5> HIDE DEF a
        <5>1. a \in Int /\ B > 0
          BY <1>1, <4>1 DEF a
        <5>2. (a * B) \div B = a
          BY <1>1, <5>1, Exact
        <5> QED
          BY <5>2 DEF a
      <4> HIDE DEF x
      <4> QED
        BY <1>1, <3>1, <4>1, <4>2
    <3>2. CASE k # 1
      <4>1. d = 1
        BY <1>1, <3>2
      <4>2. x = (v * B) * B
        BY <1>1, SMT
      <4> HIDE DEF x
      <4>3. x \div 1 = x
        BY <1>2
      <4> QED
        BY <3>2, <4>1, <4>2, <4>3
    <3> QED
      BY <3>1, <3>2
  <2> HIDE DEF y, x
  <2>3. B > 0
    BY <1>1
  <2>4. (y * B) % B = 0
    BY <1>1, <2>1, <2>3, Exact
  <2> QED
    BY <2>2, <2>4
<1> QED
  BY <1>3, <1>4, <1>5, <1>6 DEF x, P

\* Any bytes are read as the integer that they stand for.
LEMMA BytesInt ==
  ASSUME NEW s \in Seq(Int), NEW b \in Seq(Int), NEW i \in Nat, Len(b) \in 0 .. 8, At(s, i, b)
  PROVE  /\ readInt(Place(s, i), Len(b)) = ReadAs(Signed(b), s, i + Len(b))
         /\ i + Len(b) \in 0 .. Len(s)
<1> DEFINE w == Len(b)
<1>1. /\ NextBytes(Place(s, i), w) = b
      /\ Remaining(Place(s, i)) = Len(s) - i /\ w <= Remaining(Place(s, i))
  BY NextAt
<1>2. i \in 0 .. Len(s) /\ i + w \in 0 .. Len(s) /\ w \in Int
  BY BytesAt
<1> HIDE DEF w
<1>3. ~(Remaining(Place(s, i)) < w)
  BY <1>1, <1>2
<1>4. readInt(Place(s, i), w) = Read(Place(s, i), Signed(b), w)
  BY <1>1, <1>3 DEF readInt
<1>5. Read(Place(s, i), Signed(b), w) = ReadAs(Signed(b), s, i + w)
  BY <1>2, PlaceMoves DEF ReadAs
<1> QED
  BY <1>2, <1>4, <1>5 DEF w

\* A request with a topic too long for its length field is read as the empty topic,
\* and the set after it two bytes late: as nothing, unless its length takes more
\* than two bytes.
LEMMA ReceivedLong ==
  ASSUME NEW c \in Calls, ~TooLarge(RequestBody(c)), Len(c.topic) > MaxInt(2)
  PROVE  /\ Received(RequestBody(c)).topic = <<>>
         /\ Len(encodeMessageSetV1(c.value)) < Pow[2] => Received(RequestBody(c)) = NoRecord
<1> DEFINE s == Payload(c)
           set == encodeMessageSetV1(c.value)
           l == Len(set)
           P == Pow[2]
           x == l * P
           one == WriteInt(1, 4)
           zero == WriteInt(0, 2)
           low == WriteInt(l, 2)
           len == WriteInt(l, 4)
           shifted == WriteInt(x, 4)
<1>1. c.topic \in Seq(Int) /\ c.partition \in Ints(4) /\ c.value \in Seq(Int) \cup {Null}
  BY PayloadLayout
<1>2. /\ set \in Seq(Int) /\ l \in Nat /\ l >= 22 /\ At(set, 0, zero)
      /\ SetPart(c) = len \o set /\ Len(SetPart(c)) = 4 + l
  <2>1. /\ set \in Seq(Int) /\ l = 12 + Len(Message(c.value)) /\ Len(Message(c.value)) >= 22
        /\ At(set, 0, zero)
    BY <1>1, SetType, Zenon
  <2>2. SetPart(c) = len \o set /\ Len(SetPart(c)) = 4 + l
    BY SetFits, Zenon
  <2>3. l \in Nat
    BY <2>1
  <2>4. Message(c.value) \in Seq(Int)
    BY <1>1, MessageType
  <2>5. Len(Message(c.value)) \in Nat
    BY <2>4
  <2> HIDE DEF l, set
  <2> QED
    BY <2>1, <2>2, <2>3, <2>5
<1>3. TopicEnd(c) = 10
  <2>1. WriteString(c.topic) = <<>>
    BY <1>1, WriteStringType, Zenon
  <2> QED
    BY <2>1 DEF TopicEnd
<1>4. /\ s \in Seq(Int) /\ Len(s) = 22 + l /\ At(s, 10, one) /\ At(s, 18, len \o set)
  <2>1. /\ s \in Seq(Int) /\ Len(s) = TopicEnd(c) + 8 + Len(SetPart(c))
        /\ At(s, TopicEnd(c), one) /\ At(s, TopicEnd(c) + 8, SetPart(c))
    BY PayloadLayout, Zenon
  <2>2. 10 + 8 = 18 /\ 10 + 8 + (4 + l) = 22 + l
    BY <1>2
  <2> HIDE DEF s, one, len, set, l
  <2> QED
    BY <1>2, <1>3, <2>1, <2>2
<1> HIDE DEF s
<1>5. /\ zero \in Seq(Int) /\ Len(zero) = 2 /\ \A k \in 1 .. 2 : zero[k] = 0
  BY ZeroBytes
<1>6. P \in Nat /\ P >= 4 /\ Pow[4] = P * P
  BY Powers
<1>7. one \in Seq(Int) /\ Len(one) = 4 /\ \A k \in 1 .. 2 : one[k] = 0
  <2>1. one \in Seq(Int) /\ Len(one) = 4
    <3>1. 1 \in Int /\ 4 \in 0 .. 8
      OBVIOUS
    <3> QED
      BY <3>1, WriteIntType, Zenon
  <2>2. 1 \in Nat /\ 1 < P
    BY <1>6
  <2>3. \A k \in 1 .. 2 : one[k] = 0
    BY <2>2, Halves, Zenon
  <2> QED
    BY <2>1, <2>3
<1> HIDE DEF one, zero
<1>8. At(s, 10, zero)
  <2>1. 10 + Len(one) <= Len(s) /\ \A k \in 1 .. Len(one) : s[10 + k] = one[k]
    BY <1>4 DEF At
  <2>2. \A k \in 1 .. 2 : s[10 + k] = zero[k]
    BY <1>5, <1>7, <2>1
  <2>3. 10 + Len(zero) <= Len(s)
    BY <1>2, <1>4, <1>5
  <2> QED
    BY <1>5, <2>2, <2>3 DEF At
<1>9. TopicOf(s).ok /\ TopicOf(s).v = <<>> /\ TopicOf(s).r = Place(s, 12)
  <2> DEFINE t == <<>>
  <2>1. t \in Seq(Int) /\ Len(t) = 0 /\ Len(t) <= MaxInt(2) /\ 10 \in Nat
    <3>1. MaxInt(2) >= 1 /\ MaxInt(2) \in Nat
      BY WidthFacts
    <3> QED
      BY <3>1
  <2>2. WriteString(t) = zero
    <3>1. ~(Len(t) > MaxInt(2))
      <4>1. MaxInt(2) \in Nat
        BY WidthFacts
      <4> QED
        BY <2>1, <4>1
    <3>2. WriteString(t) = WriteInt(Len(t), 2) \o t
      BY <3>1, Zenon DEF WriteString
    <3>3. WriteInt(Len(t), 2) = zero
      BY <2>1 DEF zero
    <3>4. zero \o t = zero
      BY <1>5
    <3> QED
      BY <3>2, <3>3, <3>4
  <2> HIDE DEF t
  <2>3. readString(Place(s, 10)) = ReadAs(t, s, 10 + 2 + Len(t))
    BY <1>4, <1>8, <2>1, <2>2, StringAt
  <2>4. readString(Place(s, 10)) = ReadAs(t, s, 12)
    BY <2>1, <2>3
  <2> QED
    BY <2>4, ReadAsFacts DEF TopicOf, t
<1>10. 12 \in 0 .. Len(s) /\ 16 \in 0 .. Len(s) /\ 20 \in 0 .. Len(s) /\ 4 \in 0 .. 8
       /\ ~(Len(s) - 12 < 4) /\ ~(Len(s) - 16 < 4) /\ 12 + 4 = 16 /\ 16 + 4 = 20
  <2> HIDE DEF l
  <2> QED
    BY <1>2, <1>4
<1>11. CountOf(s).r = Place(s, 16)
  <2>1. \E v \in Int : readInt(Place(s, 12), 4) = ReadAs(v, s, 12 + 4)
    BY <1>4, <1>10, IntShort, Zenon
  <2> QED
    BY <1>9, <1>10, <2>1, ReadAsFacts DEF CountOf
<1>12. PartitionOf(s).r = Place(s, 20)
  <2>1. \E v \in Int : readInt(Place(s, 16), 4) = ReadAs(v, s, 16 + 4)
    BY <1>4, <1>10, IntShort, Zenon
  <2> QED
    BY <1>10, <1>11, <2>1, ReadAsFacts DEF PartitionOf
<1>13. Received(RequestBody(c))
         = IF Readable(s)
           THEN [topic |-> TopicOf(s).v, partition |-> PartitionOf(s).v,
                 values |-> RecordsOf(s).v, header |-> WrittenHeader]
           ELSE NoRecord
  BY ReceivedTail DEF s
<1>14. Received(RequestBody(c)).topic = <<>>
  BY <1>9, <1>13 DEF NoRecord
<1>15. ASSUME l < P PROVE ~Readable(s)
  <2>1. x \in Nat /\ l <= x /\ x < P * P /\ x \in Int
    <3> HIDE DEF l, P
    <3>1. x \in Nat
      BY <1>2, <1>6, SMT
    <3>2. l <= x
      BY <1>2, <1>6, SMT
    <3>3. x < P * P
      <4>1. l <= P - 1
        BY <1>2, <1>6, <1>15
      <4>2. l * P <= (P - 1) * P
        BY <1>2, <1>6, <4>1, SMT
      <4>3. (P - 1) * P = P * P - P /\ P * P \in Int
        BY <1>6, SMT
      <4> DEFINE a == l * P
                 b == P * P
      <4>4. a <= b - P /\ a \in Int /\ b \in Int
        BY <3>1, <4>2, <4>3
      <4> HIDE DEF a, b
      <4>5. a < b
        BY <1>6, <4>4
      <4> QED
        BY <4>5 DEF a, b
    <3> QED
      BY <3>1, <3>2, <3>3
  <2>2. /\ len \in Seq(Int) /\ Len(len) = 4 /\ low \in Seq(Int) /\ Len(low) = 2
        /\ shifted \in Seq(Int) /\ Len(shifted) = 4
    <3>1. l \in Int /\ 4 \in 0 .. 8 /\ 2 \in 0 .. 8
      BY <1>2
    <3> HIDE DEF l, x
    <3> QED
      BY <2>1, <3>1, WriteIntType
  <2>3. \A k \in 1 .. 2 : /\ len[2 + k] = low[k]
                          /\ shifted[k] = low[k] /\ shifted[2 + k] = 0
    <3> HIDE DEF l
    <3> QED
      BY <1>2, <1>15, Halves, Zenon
  <2> HIDE DEF low, len, shifted, x, P, set
  <2>4. At(s, 18, len) /\ At(s, 22, set)
    <3>1. 18 \in Nat /\ 18 + Len(len) = 22
      BY <2>2
    <3>2. At(s, 18, len) /\ At(s, 18 + Len(len), set)
      BY <1>2, <1>4, <2>2, <3>1, AtJoined, Zenon
    <3> QED
      BY <3>1, <3>2
  <2>5. At(s, 22, zero)
    <3>1. 22 \in Nat /\ 0 \in Nat /\ 22 + 0 = 22
      OBVIOUS
    <3>2. At(s, 22 + 0, zero)
      BY <1>2, <1>4, <1>5, <2>4, <3>1, AtWithin, Zenon
    <3> QED
      BY <3>1, <3>2
  <2>6. At(s, 20, shifted)
    <3>1. ASSUME NEW k \in 1 .. 4 PROVE s[20 + k] = shifted[k]
      <4>1. CASE k \in 1 .. 2
        <5>1. s[18 + (2 + k)] = len[2 + k]
          <6>1. 2 + k \in 1 .. Len(len)
            BY <2>2, <4>1
          <6> QED
            BY <2>4, <6>1 DEF At
        <5>2. 18 + (2 + k) = 20 + k
          BY <4>1
        <5> QED
          BY <2>3, <4>1, <5>1, <5>2
      <4>2. CASE k \in 3 .. 4
        <5> DEFINE j == k - 2
        <5>1. j \in 1 .. 2 /\ 22 + j = 20 + k /\ 2 + j = k
          BY <4>2
        <5> HIDE DEF j
        <5>2. s[22 + j] = zero[j] /\ zero[j] = 0
          BY <1>5, <2>5, <5>1 DEF At
        <5>3. shifted[2 + j] = 0
          BY <2>3, <5>1
        <5> QED
          BY <5>1, <5>2, <5>3
      <4> QED
        BY <4>1, <4>2
    <3>2. 20 + Len(shifted) <= Len(s)
      <4> HIDE DEF l
      <4> QED
        BY <1>2, <1>4, <2>2
    <3> QED
      BY <2>2, <3>1, <3>2 DEF At
  <2> DEFINE g == Signed(shifted)
  <2>7. readInt(Place(s, 20), 4) = ReadAs(g, s, 24)
    <3>1. 20 \in Nat /\ Len(shifted) \in 0 .. 8 /\ 20 + Len(shifted) = 24
      BY <2>2
    <3>2. readInt(Place(s, 20), Len(shifted)) = ReadAs(Signed(shifted), s, 20 + Len(shifted))
      BY <1>4, <2>2, <2>6, <3>1, BytesInt, Zenon
    <3> QED
      BY <2>2, <3>1, <3>2
  <2>8. g = IF x > MaxInt(4) THEN x - Pow[4] ELSE x
    <3>1. Unsigned(shifted) = x % Pow[4]
      <4>1. 4 \in 0 .. 8
        OBVIOUS
      <4> QED
        BY <2>1, <4>1, UnsignedOfInt DEF shifted
    <3>2. x % Pow[4] = x
      <4> DEFINE p == Pow[4]
      <4>1. p \in Nat /\ 0 <= x /\ x < p
        BY <1>6, <2>1, Powers
      <4> HIDE DEF p
      <4>2. x % p = x
        BY <2>1, <4>1
      <4> QED
        BY <4>2 DEF p
    <3> QED
      BY <2>2, <3>1, <3>2 DEF Signed
  <2> HIDE DEF g
  <2>9. Remaining(Place(s, 24)) = l - 2
    <3>1. Remaining(Place(s, 24)) = Len(s) - 24
      BY DEF Remaining, Place
    <3> HIDE DEF l
    <3> QED
      BY <1>2, <1>4, <3>1
  <2> DEFINE n == readInt(Place(s, 20), 4)
  <2>10. n.ok /\ n.v = g /\ n.r = Place(s, 24)
    BY <2>7, ReadAsFacts
  <2>11. SetOf(s) = IF ~n.ok THEN Short(n.r)
                    ELSE IF n.v < 0 THEN Read(n.r, Null, 0)
                    ELSE IF n.v > Remaining(n.r) THEN Short(n.r)
                    ELSE Read(n.r, NextBytes(n.r, n.v), n.v)
    BY <1>12 DEF SetOf, readBytes
  <2> HIDE DEF n
  <2>12. CASE x > MaxInt(4)
    <3>1. g < 0
      <4> DEFINE p == Pow[4]
      <4>1. p = P * P /\ g = x - p /\ p \in Nat
        BY <1>6, <2>8, <2>12, Powers
      <4> HIDE DEF p
      <4>2. x < p
        BY <2>1, <4>1
      <4> QED
        BY <2>1, <4>1, <4>2
    <3>2. SetOf(s) = Read(Place(s, 24), Null, 0)
      BY <2>10, <2>11, <3>1, Zenon
    <3>3. SetOf(s).v = Null
      BY <3>2 DEF Read
    <3> QED
      BY <3>3 DEF Readable
  <2>13. CASE ~(x > MaxInt(4))
    <3>1. g = x
      BY <2>8, <2>13
    <3>2. ~(g < 0) /\ g > l - 2
      <4> HIDE DEF l
      <4> QED
        BY <1>2, <2>1, <3>1
    <3>3. SetOf(s) = Short(Place(s, 24))
      BY <2>9, <2>10, <2>11, <3>2, Zenon
    <3>4. ~SetOf(s).ok
      BY <3>3 DEF Short
    <3> QED
      BY <3>4 DEF Readable
  <2> QED
    BY <2>12, <2>13
<1>16. l < P => Received(RequestBody(c)) = NoRecord
  BY <1>13, <1>15
<1> QED
  BY <1>14, <1>16
-----------------------------------------------------------------------------
(***************************************************************************)
(* A reply cut short: the beginning of a frame is read as the frame is, or its*)
(* end is noticed.                                                         *)
(***************************************************************************)

(* A frame that is the beginning of another one. *)
Begins(b, s) == Len(b) <= Len(s) /\ \A k \in 1 .. Len(b) : b[k] = s[k]

\* What is at a place of a frame is there in the beginning of it, if it fits.
LEMMA BeginsAt ==
  ASSUME NEW b \in Seq(Int), NEW s \in Seq(Int), NEW x \in Seq(Int), NEW i \in Nat,
         Begins(b, s), At(s, i, x), i + Len(x) <= Len(b)
  PROVE  At(b, i, x)
<1>1. ASSUME NEW k \in 1 .. Len(x) PROVE b[i + k] = x[k]
  <2>1. i + k \in 1 .. Len(b)
    OBVIOUS
  <2>2. b[i + k] = s[i + k]
    BY <2>1 DEF Begins
  <2>3. s[i + k] = x[k]
    BY DEF At
  <2> QED
    BY <2>2, <2>3
<1> QED
  BY <1>1 DEF At

\* An integer of a frame, read in the beginning of it: itself, or too short.
LEMMA IntIn ==
  ASSUME NEW b \in Seq(Int), NEW s \in Seq(Int), Begins(b, s), NEW i \in 0 .. Len(b),
         NEW w \in 1 .. 8, NEW v \in Ints(w), At(s, i, WriteInt(v, w))
  PROVE  \/ Len(b) - i < w /\ readInt(Place(b, i), w) = Short(Place(b, i))
         \/ w <= Len(b) - i /\ i + w \in 0 .. Len(b) /\ readInt(Place(b, i), w) = ReadAs(v, b, i + w)
<1>1. i \in Nat /\ w \in 0 .. 8 /\ w \in Nat /\ Len(b) \in Nat
  OBVIOUS
<1>2. CASE w <= Len(b) - i
  <2>1. WriteInt(v, w) \in Seq(Int) /\ Len(WriteInt(v, w)) = w
    <3>1. Ints(w) \subseteq Int
      BY IntsFacts
    <3>2. v \in Int
      BY <3>1
    <3> QED
      BY <1>1, <3>2, WriteIntType
  <2>2. i + Len(WriteInt(v, w)) <= Len(b)
    BY <1>1, <1>2, <2>1
  <2>3. At(b, i, WriteInt(v, w))
    BY <1>1, <2>1, <2>2, BeginsAt
  <2>4. readInt(Place(b, i), w) = ReadAs(v, b, i + w) /\ i + w \in 0 .. Len(b)
    BY <1>1, <2>3, IntAt
  <2> QED
    BY <1>2, <2>4
<1>3. CASE ~(w <= Len(b) - i)
  <2>1. Len(b) - i < w
    BY <1>1, <1>3
  <2>2. readInt(Place(b, i), w) = Short(Place(b, i))
    BY <1>1, <1>3, IntShort, Zenon
  <2> QED
    BY <2>1, <2>2
<1> QED
  BY <1>2, <1>3

\* A string of a frame, read in the beginning of it: itself, or no string.
LEMMA StringIn ==
  ASSUME NEW b \in Seq(Int), NEW s \in Seq(Int), Begins(b, s), NEW i \in 0 .. Len(b),
         NEW t \in Seq(Int), Len(t) <= MaxInt(2), At(s, i, WriteString(t))
  PROVE  \/ Len(b) < i + 2 + Len(t) /\ ~readString(Place(b, i)).ok
         \/ /\ i + 2 + Len(t) <= Len(b)
            /\ readString(Place(b, i)) = ReadAs(t, b, i + 2 + Len(t))
<1>1. i \in Nat /\ Len(b) \in Nat /\ Len(t) \in Nat /\ MaxInt(2) \in Nat /\ 2 \in 1 .. 8
  <2>1. i \in Nat /\ Len(b) \in Nat /\ Len(t) \in Nat
    OBVIOUS
  <2>2. 2 \in 1 .. 8
    OBVIOUS
  <2>3. MaxInt(2) \in Nat
    BY <2>2, IntsFacts, Zenon
  <2> QED
    BY <2>1, <2>2, <2>3
<1>2. WriteString(t) \in Seq(Int) /\ Len(WriteString(t)) = 2 + Len(t)
      /\ WriteString(t) = WriteInt(Len(t), 2) \o t
  <2>1. ~(Len(t) > MaxInt(2))
    BY <1>1
  <2>2. WriteString(t) = WriteInt(Len(t), 2) \o t
    BY <2>1, Zenon DEF WriteString
  <2> QED
    BY <2>2, WriteStringType
<1>3. CASE i + 2 + Len(t) <= Len(b)
  <2>1. i + Len(WriteString(t)) <= Len(b)
    BY <1>1, <1>2, <1>3
  <2>2. At(b, i, WriteString(t))
    BY <1>1, <1>2, <2>1, BeginsAt
  <2> QED
    BY <1>1, <1>3, <2>2, StringAt
<1>4. CASE ~(i + 2 + Len(t) <= Len(b))
  <2> DEFINE h == WriteInt(Len(t), 2)
             n == readInt(Place(b, i), 2)
  <2>1. Len(t) \in Ints(2) /\ Len(t) \in Int
    <3>1. 0 .. MaxInt(2) \subseteq Ints(2)
      BY <1>1, WidthFacts
    <3> QED
      BY <1>1, <3>1
  <2>2. h \in Seq(Int) /\ Len(h) = 2
    <3>1. 2 \in 0 .. 8
      OBVIOUS
    <3> QED
      BY <2>1, <3>1, WriteIntType
  <2>3. At(s, i, h)
    <3>1. At(s, i, h \o t)
      BY <1>2
    <3> HIDE DEF h
    <3> QED
      BY <1>1, <2>2, <3>1, AtJoined
  <2>4. readString(Place(b, i))
          = IF ~n.ok THEN Short(n.r)
            ELSE IF n.v < 0 THEN Read(n.r, <<>>, 0)
            ELSE IF n.v > Remaining(n.r) THEN Short(n.r)
            ELSE Read(n.r, NextBytes(n.r, n.v), n.v)
    BY DEF readString
  <2>5. \A rd : ~Short(rd).ok
    BY DEF Short
  <2>6. CASE n = Short(Place(b, i))
    <3>1. ~n.ok
      BY <2>5, <2>6
    <3> HIDE DEF n
    <3> QED
      BY <1>1, <1>4, <2>4, <2>5, <3>1
  <2>7. CASE i + 2 \in 0 .. Len(b) /\ n = ReadAs(Len(t), b, i + 2)
    <3>1. n.ok /\ n.v = Len(t) /\ n.r = Place(b, i + 2)
      BY <2>7, ReadAsFacts
    <3>2. Remaining(Place(b, i + 2)) = Len(b) - (i + 2)
      BY DEF Remaining, Place
    <3> HIDE DEF n
    <3>3. ~(n.v < 0) /\ n.v > Remaining(n.r)
      BY <1>1, <1>4, <3>1, <3>2
    <3> QED
      BY <1>1, <1>4, <2>4, <2>5, <3>1, <3>3
  <2> QED
    BY <1>1, <2>1, <2>3, <2>6, <2>7, IntIn
<1> QED
  BY <1>3, <1>4

\* Whatever it finds, a reader stays within its frame and does not move back.
LEMMA IntMoves ==
  ASSUME NEW b \in Seq(Int), NEW i \in 0 .. Len(b), NEW w \in 0 .. 8
  PROVE  /\ readInt(Place(b, i), w).v \in Int
         /\ \E j \in i .. Len(b) : readInt(Place(b, i), w).r = Place(b, j)
         /\ readInt(Place(b, i), w).ok <=> w <= Len(b) - i
         /\ readInt(Place(b, i), w).r = Place(b, IF w <= Len(b) - i THEN i + w ELSE i)
<1>1. i \in i .. Len(b) /\ Len(b) \in Int
  OBVIOUS
<1>2. CASE Len(b) - i < w /\ readInt(Place(b, i), w) = Short(Place(b, i))
  <2>1. /\ Short(Place(b, i)).v = 0 /\ Short(Place(b, i)).r = Place(b, i)
        /\ ~Short(Place(b, i)).ok
    BY DEF Short
  <2>2. ~(w <= Len(b) - i)
    BY <1>1, <1>2
  <2> QED
    BY <1>1, <1>2, <2>1, <2>2
<1>3. CASE /\ w <= Len(b) - i
           /\ \E v \in Int : readInt(Place(b, i), w) = ReadAs(v, b, i + w)
  <2>1. PICK v \in Int : readInt(Place(b, i), w) = ReadAs(v, b, i + w)
    BY <1>3
  <2>2. i + w \in i .. Len(b)
    BY <1>1, <1>3
  <2> QED
    BY <1>3, <2>1, <2>2, ReadAsFacts
<1> QED
  BY <1>2, <1>3, IntShort

\* Reading a string never moves back.
LEMMA StringMoves ==
  ASSUME NEW b \in Seq(Int), NEW i \in 0 .. Len(b)
  PROVE  \E j \in i .. Len(b) : readString(Place(b, i)).r = Place(b, j)
<1> DEFINE n == readInt(Place(b, i), 2)
<1>1. n.v \in Int /\ \E j \in i .. Len(b) : n.r = Place(b, j)
  <2>1. 2 \in 0 .. 8
    OBVIOUS
  <2> QED
    BY <2>1, IntMoves
<1>2. PICK j \in i .. Len(b) : n.r = Place(b, j)
  BY <1>1
<1>3. readString(Place(b, i))
        = IF ~n.ok THEN Short(n.r)
          ELSE IF n.v < 0 THEN Read(n.r, <<>>, 0)
          ELSE IF n.v > Remaining(n.r) THEN Short(n.r)
          ELSE Read(n.r, NextBytes(n.r, n.v), n.v)
  BY DEF readString
<1> HIDE DEF n
<1> DEFINE v == n.v
<1>4. j \in 0 .. Len(b) /\ j + 0 = j /\ Remaining(Place(b, j)) = Len(b) - j /\ Len(b) \in Nat
  BY DEF Remaining, Place
<1>5. Short(Place(b, j)).r = Place(b, j)
  BY DEF Short
<1>6. \A x : Read(Place(b, j), x, 0).r = Place(b, j)
  BY <1>4, PlaceMoves
<1>7. CASE ~n.ok \/ v < 0 \/ v > Remaining(n.r)
  BY <1>2, <1>3, <1>5, <1>6, <1>7
<1>8. CASE ~(~n.ok \/ v < 0 \/ v > Remaining(n.r))
  <2>1. v \in Nat /\ j + v \in i .. Len(b)
    BY <1>1, <1>2, <1>4, <1>8
  <2>2. readString(Place(b, i)) = Read(Place(b, j), NextBytes(Place(b, j), v), v)
    BY <1>2, <1>3, <1>8, Zenon
  <2>3. Read(Place(b, j), NextBytes(Place(b, j), v), v).r = Place(b, j + v)
    <3>1. v \in Int
      BY <2>1
    <3> DEFINE x == NextBytes(Place(b, j), v)
    <3> HIDE DEF x, v
    <3>2. Read(Place(b, j), x, v) = [ok |-> TRUE, v |-> x, r |-> Place(b, j + v)]
      BY <1>4, <3>1, PlaceMoves
    <3> QED
      BY <3>2 DEF x
  <2> QED
    BY <2>1, <2>2, <2>3
<1> QED
  BY <1>7, <1>8
-----------------------------------------------------------------------------
(***************************************************************************)
(* The reply: where the entries of a listing are in its frame.             *)
(***************************************************************************)

\* Sequences joined one after the other: where each begins.
LEMMA Flattened ==
  ASSUME NEW ss \in Seq(Seq(Int))
  PROVE  /\ FlattenSeq(ss) \in Seq(Int)
         /\ \E at \in [0 .. Len(ss) -> Nat] :
              /\ at[0] = 0 /\ Len(FlattenSeq(ss)) = at[Len(ss)]
              /\ \A k \in 1 .. Len(ss) : /\ at[k] = at[k - 1] + Len(ss[k])
                                         /\ At(FlattenSeq(ss), at[k - 1], ss[k])
<1> DEFINE N == Len(ss)
           T == Seq(Int)
           G == [k \in 1 .. N |-> [y \in T |-> y \o ss[k]]]
           above == CHOOSE f : f = [i \in 1 .. N |-> IF i = 1 THEN ss[i] ELSE f[i - 1] \o ss[i]]
<1>1. N \in Nat /\ <<>> \in T /\ \A k \in 1 .. N : ss[k] \in T
  OBVIOUS
<1>2. G \in [1 .. N -> [T -> T]]
  <2>1. ASSUME NEW k \in 1 .. N, NEW y \in T PROVE y \o ss[k] \in T
    <3>1. ss[k] \in T
      BY <1>1
    <3> QED
      BY <3>1
  <2>2. \A k \in 1 .. N : [y \in T |-> y \o ss[k]] \in [T -> T]
    BY <2>1
  <2> HIDE DEF T, N
  <2> QED
    BY <2>2
<1>3. PICK f \in [0 .. N -> T] : f[0] = <<>> /\ \A k \in 1 .. N : f[k] = G[k][f[k - 1]]
  <2> HIDE DEF G, N, T
  <2>1. Definable(N, T, <<>>, G)
    BY <1>1, <1>2, Recursion, Zenon
  <2> QED
    BY <2>1 DEF Definable
<1>4. ASSUME NEW k \in 1 .. N
      PROVE  /\ f[k] = f[k - 1] \o ss[k] /\ f[k] \in T /\ f[k - 1] \in T /\ ss[k] \in T
             /\ Len(f[k]) = Len(f[k - 1]) + Len(ss[k])
             /\ At(f[k], 0, f[k - 1]) /\ At(f[k], Len(f[k - 1]), ss[k])
  <2>1. k \in 0 .. N /\ k - 1 \in 0 .. N
    BY <1>1
  <2>2. f[k] \in T /\ f[k - 1] \in T /\ ss[k] \in T
    <3> HIDE DEF T, N
    <3> QED
      BY <1>1, <1>3, <2>1
  <2>3. G[k][f[k - 1]] = f[k - 1] \o ss[k]
    <3> HIDE DEF T
    <3> QED
      BY <2>2
  <2>4. f[k] = f[k - 1] \o ss[k]
    <3> HIDE DEF G
    <3> QED
      BY <1>3, <2>3
  <2> DEFINE a == f[k - 1]
             b == ss[k]
  <2>5. a \o b \in Seq(Int) /\ Len(a \o b) = Len(a) + Len(b)
        /\ At(a \o b, 0, a) /\ At(a \o b, Len(a), b)
    <3> HIDE DEF a, b
    <3>1. a \in Seq(Int) /\ b \in Seq(Int)
      BY <2>2 DEF a, b, T
    <3> QED
      BY <3>1, Joined
  <2> QED
    BY <2>2, <2>4, <2>5
<1>5. CASE N = 0
  <2>1. FlattenSeq(ss) = ss /\ ss = <<>>
    BY <1>5 DEF FlattenSeq
  <2> DEFINE at == [k \in 0 .. 0 |-> 0]
  <2>2. at \in [0 .. 0 -> Nat] /\ at[0] = 0 /\ 1 .. 0 = {} /\ Len(<<>>) = 0 /\ <<>> \in Seq(Int)
    OBVIOUS
  <2> HIDE DEF at
  <2>3. /\ at \in [0 .. N -> Nat] /\ at[0] = 0 /\ Len(FlattenSeq(ss)) = at[N]
        /\ \A k \in 1 .. N : at[k] = at[k - 1] + Len(ss[k]) /\ At(FlattenSeq(ss), at[k - 1], ss[k])
    BY <1>5, <2>1, <2>2
  <2> QED
    BY <2>1, <2>2, <2>3
<1>6. CASE N # 0
  <2>0. N \in 1 .. N /\ 1 \in 1 .. N
    BY <1>1, <1>6
  <2>1. \A k \in 2 .. N : k \in 1 .. N /\ k - 1 \in 1 .. N /\ k # 1
    OBVIOUS
  <2> DEFINE g == [i \in 1 .. N |-> f[i]]
  <2>2. ASSUME NEW i \in 1 .. N PROVE g[i] = IF i = 1 THEN ss[i] ELSE g[i - 1] \o ss[i]
    <3>1. CASE i = 1
      <4>1. f[1] = f[0] \o ss[1] /\ f[0] = <<>> /\ ss[1] \in Seq(Int)
        <5>1. f[1] = f[1 - 1] \o ss[1] /\ ss[1] \in T
          <6> HIDE DEF N, T
          <6> QED
            BY <1>4, <2>0, Zenon
        <5>2. 1 - 1 = 0
          OBVIOUS
        <5>3. f[1 - 1] = f[0]
          BY <5>2
        <5> QED
          BY <1>3, <5>1, <5>3
      <4>2. f[1] = ss[1]
        BY <4>1
      <4> QED
        BY <3>1, <4>2
    <3>2. CASE i # 1
      <4>0. i - 1 \in 1 .. N
        BY <1>1, <3>2
      <4>1. f[i] = f[i - 1] \o ss[i]
        <5> HIDE DEF N, T
        <5> QED
          BY <1>4, Zenon
      <4>2. g[i] = f[i] /\ g[i - 1] = f[i - 1]
        <5> HIDE DEF N
        <5> QED
          BY <4>0
      <4> HIDE DEF g
      <4> QED
        BY <3>2, <4>1, <4>2
    <3> QED
      BY <3>1, <3>2
  <2>3. g = [i \in 1 .. N |-> IF i = 1 THEN ss[i] ELSE g[i - 1] \o ss[i]]
    <3>1. g = [i \in 1 .. N |-> g[i]]
      OBVIOUS
    <3> HIDE DEF g, N
    <3> QED
      BY <2>2, <3>1
  <2>4. above = [i \in 1 .. N |-> IF i = 1 THEN ss[i] ELSE above[i - 1] \o ss[i]]
    <3> HIDE DEF g
    <3> QED
      BY <2>3
  <2>5. FlattenSeq(ss) = above[N]
    BY <1>6 DEF FlattenSeq
  <2> HIDE DEF above
  <2>6. \A i \in 1 .. N : above[i] = IF i = 1 THEN ss[i] ELSE above[i - 1] \o ss[i]
    BY <2>4
  <2>7. \A i \in 1 .. N : f[i] = IF i = 1 THEN ss[i] ELSE f[i - 1] \o ss[i]
    <3>1. \A i \in 1 .. N : g[i] = f[i]
      OBVIOUS
    <3> HIDE DEF g
    <3>2. ASSUME NEW i \in 1 .. N PROVE f[i] = IF i = 1 THEN ss[i] ELSE f[i - 1] \o ss[i]
      <4>1. i # 1 => i \in 2 .. N
        BY <1>1
      <4> QED
        BY <2>1, <2>2, <3>1, <4>1
    <3> QED
      BY <3>2
  <2>8. above[N] = f[N]
    <3> DEFINE S == {k \in 0 .. N : k = 0 \/ above[k] = f[k]}
    <3>1. 0 \in S
      BY <1>1
    <3>2. ASSUME NEW k \in 1 .. N, k - 1 \in S PROVE k \in S
      <4>1. k = 1 \/ k - 1 # 0
        OBVIOUS
      <4> QED
        BY <2>6, <2>7, <3>2, <4>1
    <3> HIDE DEF S, N
    <3>3. \A k \in 0 .. N : k \in S
      BY <1>1, <3>1, <3>2, UpTo, Zenon
    <3> QED
      BY <1>1, <1>6, <3>3 DEF S
  <2> DEFINE at == [k \in 0 .. N |-> Len(f[k])]
  <2>9. at \in [0 .. N -> Nat] /\ at[0] = 0 /\ at[N] = Len(f[N])
        /\ \A k \in 1 .. N : at[k - 1] = Len(f[k - 1]) /\ at[k] = at[k - 1] + Len(ss[k])
    <3>1. \A k \in 0 .. N : f[k] \in Seq(Int)
      BY <1>3
    <3>2. \A k \in 0 .. N : Len(f[k]) \in Nat
      BY <3>1
    <3>3. Len(f[0]) = 0 /\ 0 \in 0 .. N /\ N \in 0 .. N
      BY <1>1, <1>3
    <3>4. \A k \in 1 .. N : k \in 0 .. N /\ k - 1 \in 0 .. N
      BY <1>1
    <3>5. \A k \in 1 .. N : Len(f[k]) = Len(f[k - 1]) + Len(ss[k])
      BY <1>4
    <3> HIDE DEF N
    <3> QED
      BY <3>2, <3>3, <3>4, <3>5
  <2>10. ASSUME NEW k \in 1 .. N PROVE At(f[N], Len(f[k - 1]), ss[k])
    <3> DEFINE S == {n \in 0 .. N : \A j \in 1 .. n : At(f[n], Len(f[j - 1]), ss[j])}
    <3>1. 0 \in S
      BY <1>1
    <3>2. ASSUME NEW n \in 1 .. N, n - 1 \in S PROVE n \in S
      <4>1. ASSUME NEW j \in 1 .. n PROVE At(f[n], Len(f[j - 1]), ss[j])
        <5>1. CASE j = n
          BY <1>4, <5>1
        <5>2. CASE j # n
          <6>1. j \in 1 .. n - 1 /\ j \in 1 .. N
            BY <1>1, <5>2
          <6>2. At(f[n - 1], Len(f[j - 1]), ss[j])
            BY <3>2, <6>1
          <6>3. /\ f[n] \in T /\ f[n - 1] \in T /\ At(f[n], 0, f[n - 1])
                /\ ss[j] \in T /\ f[j - 1] \in T
            BY <1>4, <6>1
          <6> DEFINE x == Len(f[j - 1])
          <6>4. x \in Nat /\ 0 \in Nat /\ 0 + x = x
            BY <6>3
          <6> HIDE DEF x
          <6>5. At(f[n], 0 + x, ss[j])
            BY <6>2, <6>3, <6>4, AtWithin DEF x
          <6> QED
            BY <6>4, <6>5 DEF x
        <5> QED
          BY <5>1, <5>2
      <4>2. n \in 0 .. N
        BY <1>1
      <4> QED
        BY <4>1, <4>2
    <3> HIDE DEF S, N
    <3>3. \A n \in 0 .. N : n \in S
      BY <1>1, <3>1, <3>2, UpTo, Zenon
    <3>4. N \in S
      BY <1>1, <3>3
    <3> QED
      BY <3>4 DEF S
  <2>11. FlattenSeq(ss) = f[N] /\ f[N] \in Seq(Int)
    BY <1>4, <2>0, <2>5, <2>8
  <2>12. /\ at \in [0 .. N -> Nat] /\ at[0] = 0 /\ Len(FlattenSeq(ss)) = at[N]
         /\ \A k \in 1 .. N : at[k] = at[k - 1] + Len(ss[k]) /\ At(FlattenSeq(ss), at[k - 1], ss[k])
    <3> HIDE DEF at, N
    <3> QED
      BY <2>9, <2>10, <2>11
  <2> HIDE DEF at
  <2> QED
    BY <2>11, <2>12
<1> QED
  BY <1>5, <1>6

\* What a reply may list of a partition and of a topic (ListingsAssumption).
ListedEntries == [partition: Ints(4), code: Ints(2), offset: Ints(8)]

ListedTopics == {t \in [topic: Seq(Int), parts: Seq(ListedEntries)] : Len(t.topic) <= MaxInt(2)}

\* The three fields of a listed partition.
LEMMA PartLayout ==
  ASSUME NEW p \in ListedEntries
  PROVE  /\ ListedPart(p) \in Seq(Int) /\ Len(ListedPart(p)) = 14
         /\ At(ListedPart(p), 0, WriteInt(p.partition, 4))
         /\ At(ListedPart(p), 4, WriteInt(p.code, 2)) /\ At(ListedPart(p), 6, WriteInt(p.offset, 8))
<1> DEFINE a == WriteInt(p.partition, 4)
           b == WriteInt(p.code, 2)
           c == WriteInt(p.offset, 8)
<1>1. ListedPart(p) = (a \o b) \o c
  BY DEF ListedPart
<1>2. /\ p.partition \in Int /\ p.code \in Int /\ p.offset \in Int
      /\ 2 \in 0 .. 8 /\ 4 \in 0 .. 8 /\ 8 \in 0 .. 8
  <2>1. Ints(4) \subseteq Int /\ Ints(2) \subseteq Int /\ Ints(8) \subseteq Int
    BY WidthFacts
  <2>2. p.partition \in Ints(4) /\ p.code \in Ints(2) /\ p.offset \in Ints(8)
    BY DEF ListedEntries
  <2> QED
    BY <2>1, <2>2
<1>3. a \in Seq(Int) /\ Len(a) = 4
  BY <1>2, WriteIntType, Zenon
<1>4. b \in Seq(Int) /\ Len(b) = 2
  BY <1>2, WriteIntType, Zenon
<1>5. c \in Seq(Int) /\ Len(c) = 8
  BY <1>2, WriteIntType, Zenon
<1> HIDE DEF a, b, c
<1> DEFINE ab == a \o b
<1>6. ab \in Seq(Int) /\ Len(ab) = Len(a) + Len(b) /\ At(ab, 0, a) /\ At(ab, Len(a), b)
  BY <1>3, <1>4, Joined
<1> HIDE DEF ab
<1>7. /\ ab \o c \in Seq(Int) /\ Len(ab \o c) = Len(ab) + Len(c)
      /\ At(ab \o c, 0, ab) /\ At(ab \o c, Len(ab), c)
  BY <1>5, <1>6, Joined
<1> DEFINE s == ab \o c
<1> HIDE DEF s
<1>8. s \in Seq(Int) /\ Len(s) = 14 /\ At(s, 0, ab) /\ At(s, 6, c)
  <2>1. Len(ab) = 6
    BY <1>3, <1>4, <1>6
  <2> QED
    BY <1>5, <1>7, <2>1 DEF s
<1>9. At(s, 0 + 0, a)
  BY <1>3, <1>6, <1>8, AtWithin
<1>10. At(s, 0 + 4, b)
  BY <1>3, <1>4, <1>6, <1>8, AtWithin
<1> QED
  BY <1>1, <1>8, <1>9, <1>10 DEF s, a, b, c, ab

\* A listed topic: its name, the number of its partitions, and the partitions, each
\* of 14 bytes.
LEMMA TopicLayout ==
  ASSUME NEW t \in ListedTopics
  PROVE  /\ ListedTopic(t) \in Seq(Int)
         /\ Len(ListedTopic(t)) = 6 + Len(t.topic) + 14 * Len(t.parts)
         /\ At(ListedTopic(t), 0, WriteString(t.topic))
         /\ At(ListedTopic(t), 2 + Len(t.topic), WriteInt(Len(t.parts), 4))
         /\ \A n \in 1 .. Len(t.parts) :
              At(ListedTopic(t), 6 + Len(t.topic) + 14 * (n - 1), ListedPart(t.parts[n]))
<1> DEFINE ss == [k \in 1 .. Len(t.parts) |-> ListedPart(t.parts[k])]
           N  == Len(t.parts)
           a  == WriteString(t.topic)
           b  == WriteInt(N, 4)
           c  == FlattenSeq(ss)
           M  == Len(t.topic)
<1>1. /\ t.topic \in Seq(Int) /\ M \in Nat /\ M <= MaxInt(2) /\ t.parts \in Seq(ListedEntries)
      /\ N \in Nat /\ \A k \in 1 .. N : t.parts[k] \in ListedEntries
  <2>1. t.topic \in Seq(Int) /\ M <= MaxInt(2) /\ t.parts \in Seq(ListedEntries)
    BY DEF ListedTopics
  <2> HIDE DEF ListedEntries
  <2> QED
    BY <2>1
<1>2. \A k \in 1 .. N : ListedPart(t.parts[k]) \in Seq(Int) /\ Len(ListedPart(t.parts[k])) = 14
  BY <1>1, PartLayout, Zenon
<1>3. /\ ss \in Seq(Seq(Int)) /\ Len(ss) = N
      /\ \A k \in 1 .. N : ss[k] = ListedPart(t.parts[k]) /\ Len(ss[k]) = 14
  <2>1. \A k \in 1 .. N : ss[k] = ListedPart(t.parts[k])
    OBVIOUS
  <2>2. ss \in [1 .. N -> Seq(Int)]
    BY <1>2
  <2> HIDE DEF ss, N
  <2>3. ss \in Seq(Seq(Int)) /\ Len(ss) = N
    BY <1>1, <2>2
  <2> QED
    BY <1>2, <2>1, <2>3
<1>4. ListedTopic(t) = (a \o b) \o c
  BY DEF ListedTopic
<1>5. a \in Seq(Int) /\ Len(a) = 2 + M
  BY <1>1, WriteStringType
<1>6. b \in Seq(Int) /\ Len(b) = 4
  <2>1. N \in Int /\ 4 \in 0 .. 8
    BY <1>1
  <2> QED
    BY <2>1, WriteIntType, Zenon
<1> HIDE DEF ss
<1>7. c \in Seq(Int) /\ \E at \in [0 .. Len(ss) -> Nat] :
              /\ at[0] = 0 /\ Len(FlattenSeq(ss)) = at[Len(ss)]
              /\ \A k \in 1 .. Len(ss) : /\ at[k] = at[k - 1] + Len(ss[k])
                                         /\ At(FlattenSeq(ss), at[k - 1], ss[k])
  BY <1>3, Flattened
<1>8. PICK at \in [0 .. N -> Nat] : 
              /\ at[0] = 0 /\ Len(c) = at[N]
              /\ \A k \in 1 .. N : /\ at[k] = at[k - 1] + 14
                                   /\ At(c, at[k - 1], ListedPart(t.parts[k]))
  <2>1. PICK at \in [0 .. Len(ss) -> Nat] :
              /\ at[0] = 0 /\ Len(FlattenSeq(ss)) = at[Len(ss)]
              /\ \A k \in 1 .. Len(ss) : /\ at[k] = at[k - 1] + Len(ss[k])
                                         /\ At(FlattenSeq(ss), at[k - 1], ss[k])
    BY <1>7
  <2>2. Len(ss) = N
    BY <1>3
  <2> HIDE DEF N
  <2>3. at \in [0 .. N -> Nat] /\ at[0] = 0 /\ Len(c) = at[N]
    BY <2>1, <2>2
  <2>4. ASSUME NEW k \in 1 .. N
        PROVE  at[k] = at[k - 1] + 14 /\ At(c, at[k - 1], ListedPart(t.parts[k]))
    <3>1. at[k] = at[k - 1] + Len(ss[k]) /\ At(c, at[k - 1], ss[k])
      BY <2>1, <2>2
    <3>2. ss[k] = ListedPart(t.parts[k]) /\ Len(ss[k]) = 14
      BY <1>3
    <3> HIDE DEF c
    <3> QED
      BY <3>1, <3>2
  <2> HIDE DEF c
  <2> QED
    BY <2>3, <2>4
<1> HIDE DEF a, b, c, N, M
<1>9. \A k \in 0 .. N : at[k] = 14 * k
  <2> DEFINE S == {k \in 0 .. N : at[k] = 14 * k}
  <2>1. 0 \in S
    BY <1>1, <1>8
  <2>2. ASSUME NEW k \in 1 .. N, k - 1 \in S PROVE k \in S
    <3>1. k \in 0 .. N /\ at[k] = at[k - 1] + 14 /\ at[k - 1] = 14 * (k - 1)
      BY <1>1, <1>8, <2>2
    <3> QED
      BY <3>1
  <2> HIDE DEF S
  <2>3. \A k \in 0 .. N : k \in S
    BY <1>1, <2>1, <2>2, UpTo, Zenon
  <2> QED
    BY <2>3 DEF S
<1> DEFINE ab == a \o b
           s == ab \o c
<1>10. ab \in Seq(Int) /\ Len(ab) = Len(a) + Len(b) /\ At(ab, 0, a) /\ At(ab, Len(a), b)
  BY <1>5, <1>6, Joined
<1> HIDE DEF ab
<1>11. s \in Seq(Int) /\ Len(s) = Len(ab) + Len(c) /\ At(s, 0, ab) /\ At(s, Len(ab), c)
  BY <1>7, <1>10, Joined
<1> HIDE DEF s
<1>12. Len(ab) = 6 + M
  BY <1>1, <1>5, <1>6, <1>10
<1>13. Len(s) = 6 + M + 14 * N
  <2>1. N \in 0 .. N
    BY <1>1
  <2> QED
    BY <1>8, <1>9, <1>11, <1>12, <2>1
<1>14. At(s, 0 + 0, a)
  BY <1>5, <1>10, <1>11, AtWithin
<1>15. At(s, 0 + (2 + M), b)
  <2>1. 2 + M \in Nat
    BY <1>1
  <2> QED
    BY <1>5, <1>6, <1>10, <1>11, <2>1, AtWithin
<1>16. ASSUME NEW n \in 1 .. N PROVE At(s, 6 + M + 14 * (n - 1), ListedPart(t.parts[n]))
  <2> DEFINE x == ListedPart(t.parts[n])
             i == 14 * (n - 1)
             j == 6 + M
  <2>1. x \in Seq(Int) /\ i \in Nat /\ j \in Nat
    BY <1>1, <1>2
  <2>2. At(c, i, x)
    <3>1. n - 1 \in 0 .. N
      BY <1>1
    <3>2. at[n - 1] = i
      BY <1>9, <3>1
    <3> HIDE DEF i
    <3> QED
      BY <1>8, <3>2
  <2>3. At(s, j, c)
    BY <1>11, <1>12
  <2> HIDE DEF x, i, j
  <2>4. At(s, j + i, x)
    BY <1>7, <1>11, <2>1, <2>2, <2>3, AtWithin
  <2> QED
    BY <2>4 DEF x, i, j
<1>17. 0 + 0 = 0 /\ 0 + (2 + M) = 2 + M
  BY <1>1
<1>18. ListedTopic(t) = s
  BY <1>4 DEF s, ab
<1> QED
  BY <1>11, <1>13, <1>14, <1>15, <1>16, <1>17, <1>18 DEF a, b, M, N

\* The lists that a broker may reply, as ListingsAssumption has them.
LEMMA ListingType ==
  ASSUME NEW l \in Listings
  PROVE  /\ l \in Seq(ListedTopics) /\ Len(l) \in Nat
         /\ \A k \in 1 .. Len(l) : l[k] \in ListedTopics
         /\ ~TooLarge(encodeResponse(Corr, Listed(l)))
<1> DEFINE T == [topic: Seq(Int), parts: Seq(ListedEntries)]
<1>1. /\ l \in Seq(T) /\ \A k \in 1 .. Len(l) : Len(l[k].topic) <= MaxInt(2)
      /\ ~TooLarge(encodeResponse(Corr, Listed(l)))
  BY ListingsAssumption, Zenon DEF ListedEntries
<1> HIDE DEF T
<1>2. Len(l) \in Nat /\ \A k \in 1 .. Len(l) : l[k] \in T
  BY <1>1
<1>3. \A k \in 1 .. Len(l) : l[k] \in ListedTopics
  BY <1>1, <1>2, Zenon DEF ListedTopics, T
<1>4. l \in Seq(ListedTopics)
  <2>1. l = [k \in 1 .. Len(l) |-> l[k]]
    BY <1>1
  <2> HIDE DEF ListedTopics
  <2> QED
    BY <1>1, <1>3, <2>1
<1> QED
  BY <1>1, <1>2, <1>3, <1>4

\* Where the topics of a listing are: Places gives the ends, from one to the next.
LEMMA ListedLayout ==
  ASSUME NEW l \in Listings
  PROVE  /\ Listed(l) \in Seq(Int) /\ Len(Listed(l)) = Places(l)[Len(l)]
         /\ Places(l)[0] = 8 /\ \A k \in 0 .. Len(l) : Places(l)[k] \in Nat /\ Places(l)[k] >= 8
         /\ \A k \in 1 .. Len(l) : Places(l)[k] = Places(l)[k - 1] + Len(ListedTopic(l[k]))
         /\ At(Listed(l), 0, WriteInt(Len(l), 4))
         /\ \A k \in 1 .. Len(l) : At(Listed(l), Places(l)[k - 1] - 4, ListedTopic(l[k]))
<1> DEFINE N  == Len(l)
           ss == [k \in 1 .. Len(l) |-> ListedTopic(l[k])]
           a  == WriteInt(N, 4)
           b  == FlattenSeq(ss)
           c  == WriteInt(0, 4)
           P  == CHOOSE f : f = [k \in 0 .. N |->
                                   IF k = 0 THEN 8 ELSE f[k - 1] + Len(ListedTopic(l[k]))]
<1>1. N \in Nat /\ \A k \in 1 .. N : l[k] \in ListedTopics
  BY ListingType
<1>2. \A k \in 1 .. N : ListedTopic(l[k]) \in Seq(Int) /\ Len(ListedTopic(l[k])) \in Nat
  <2>1. \A k \in 1 .. N : ListedTopic(l[k]) \in Seq(Int)
    <3> HIDE DEF N
    <3> QED
      BY <1>1, TopicLayout, Zenon
  <2> QED
    BY <2>1
<1>3. /\ ss \in Seq(Seq(Int)) /\ Len(ss) = N
      /\ \A k \in 1 .. N : ss[k] = ListedTopic(l[k])
  <2>1. \A k \in 1 .. N : ss[k] = ListedTopic(l[k])
    OBVIOUS
  <2>2. ss \in [1 .. N -> Seq(Int)]
    BY <1>2
  <2> HIDE DEF ss, N
  <2>3. ss \in Seq(Seq(Int)) /\ Len(ss) = N
    BY <1>1, <2>2
  <2> QED
    BY <1>2, <2>1, <2>3
<1>4. Listed(l) = (a \o b) \o c
  BY DEF Listed
<1>5. a \in Seq(Int) /\ Len(a) = 4 /\ c \in Seq(Int) /\ Len(c) = 4
  <2>1. N \in Int /\ 0 \in Int /\ 4 \in 0 .. 8
    BY <1>1
  <2> QED
    BY <2>1, WriteIntType, Zenon
<1>6. Places(l) = P
  BY DEF Places
<1> HIDE DEF ss, P
<1>7. b \in Seq(Int) /\ \E at \in [0 .. Len(ss) -> Nat] :
              /\ at[0] = 0 /\ Len(FlattenSeq(ss)) = at[Len(ss)]
              /\ \A k \in 1 .. Len(ss) : /\ at[k] = at[k - 1] + Len(ss[k])
                                         /\ At(FlattenSeq(ss), at[k - 1], ss[k])
  BY <1>3, Flattened
<1>8. PICK at \in [0 .. N -> Nat] :
              /\ at[0] = 0 /\ Len(b) = at[N]
              /\ \A k \in 1 .. N : /\ at[k] = at[k - 1] + Len(ListedTopic(l[k]))
                                   /\ At(b, at[k - 1], ListedTopic(l[k]))
  <2> HIDE DEF N
  <2> QED
    BY <1>3, <1>7
<1> HIDE DEF a, b, c, N
<1>9. \A k \in 0 .. N : P[k] = 8 + at[k]
  <2> DEFINE g == [k \in 0 .. N |-> 8 + at[k]]
  <2>1. ASSUME NEW k \in 0 .. N
        PROVE  g[k] = IF k = 0 THEN 8 ELSE g[k - 1] + Len(ListedTopic(l[k]))
    <3>1. CASE k = 0
      BY <1>8, <3>1
    <3>2. CASE k # 0
      <4>1. k \in 1 .. N /\ k - 1 \in 0 .. N
        BY <1>1, <3>2
      <4>2. g[k] = 8 + at[k] /\ g[k - 1] = 8 + at[k - 1] /\ at[k] \in Nat /\ at[k - 1] \in Nat
        BY <4>1
      <4> DEFINE n == Len(ListedTopic(l[k]))
      <4>3. at[k] = at[k - 1] + n /\ n \in Nat
        BY <1>2, <1>8, <4>1
      <4> HIDE DEF g, n
      <4>4. g[k] = g[k - 1] + n
        BY <4>2, <4>3
      <4> QED
        BY <3>2, <4>4 DEF n
    <3> QED
      BY <3>1, <3>2
  <2>2. g = [k \in 0 .. N |-> g[k]]
    OBVIOUS
  <2> HIDE DEF g
  <2>3. g = [k \in 0 .. N |-> IF k = 0 THEN 8 ELSE g[k - 1] + Len(ListedTopic(l[k]))]
    BY <2>1, <2>2
  <2>4. P = [k \in 0 .. N |-> IF k = 0 THEN 8 ELSE P[k - 1] + Len(ListedTopic(l[k]))]
    BY <2>3 DEF P
  <2>5. \A k \in 0 .. N : P[k] = IF k = 0 THEN 8 ELSE P[k - 1] + Len(ListedTopic(l[k]))
    BY <2>4
  <2> DEFINE S == {k \in 0 .. N : P[k] = g[k]}
  <2>6. 0 \in S
    BY <1>1, <2>1, <2>5
  <2>7. ASSUME NEW k \in 1 .. N, k - 1 \in S PROVE k \in S
    <3>1. k \in 0 .. N /\ k # 0 /\ P[k - 1] = g[k - 1]
      BY <1>1, <2>7
    <3> QED
      BY <2>1, <2>5, <3>1
  <2> HIDE DEF S
  <2>8. \A k \in 0 .. N : k \in S
    BY <1>1, <2>6, <2>7, UpTo, Zenon
  <2>9. \A k \in 0 .. N : P[k] = g[k]
    BY <2>8 DEF S
  <2> QED
    BY <2>9 DEF g
<1>10. /\ P[0] = 8 /\ \A k \in 0 .. N : P[k] \in Nat /\ P[k] >= 8
       /\ \A k \in 1 .. N : P[k] = P[k - 1] + Len(ListedTopic(l[k])) /\ P[k - 1] = 8 + at[k - 1]
  <2>1. 0 \in 0 .. N /\ \A k \in 0 .. N : at[k] \in Nat
    BY <1>1
  <2>2. ASSUME NEW k \in 1 .. N
        PROVE  P[k] = P[k - 1] + Len(ListedTopic(l[k])) /\ P[k - 1] = 8 + at[k - 1]
    <3>1. k \in 0 .. N /\ k - 1 \in 0 .. N
      BY <1>1
    <3> DEFINE n == Len(ListedTopic(l[k]))
    <3>2. n \in Nat /\ at[k] = at[k - 1] + n /\ at[k] \in Nat /\ at[k - 1] \in Nat
      BY <1>2, <1>8, <2>1, <3>1
    <3> HIDE DEF n
    <3>3. P[k] = 8 + at[k] /\ P[k - 1] = 8 + at[k - 1]
      BY <1>9, <3>1
    <3>4. P[k] = P[k - 1] + n
      BY <3>2, <3>3
    <3> QED
      BY <3>3, <3>4 DEF n
  <2>3. P[0] = 8
    BY <1>8, <1>9, <2>1
  <2>4. \A k \in 0 .. N : P[k] \in Nat /\ P[k] >= 8
    BY <1>9, <2>1
  <2> QED
    BY <2>2, <2>3, <2>4
<1> DEFINE ab == a \o b
           s == ab \o c
<1>11. ab \in Seq(Int) /\ Len(ab) = Len(a) + Len(b) /\ At(ab, 0, a) /\ At(ab, Len(a), b)
  BY <1>5, <1>7, Joined
<1> HIDE DEF ab
<1>12. s \in Seq(Int) /\ Len(s) = Len(ab) + Len(c) /\ At(s, 0, ab) /\ At(s, Len(ab), c)
  BY <1>5, <1>11, Joined
<1> HIDE DEF s
<1>13. At(s, 0 + 0, a)
  BY <1>5, <1>11, <1>12, AtWithin
<1>14. At(s, 0 + 4, b)
  BY <1>5, <1>7, <1>11, <1>12, AtWithin
<1>15. Len(s) = P[N]
  <2>1. N \in 0 .. N
    BY <1>1
  <2>2. P[N] = 8 + at[N] /\ at[N] \in Nat
    BY <1>9, <2>1
  <2> QED
    BY <1>5, <1>8, <1>11, <1>12, <2>2
<1>16. ASSUME NEW k \in 1 .. N PROVE At(s, P[k - 1] - 4, ListedTopic(l[k]))
  <2> DEFINE x == ListedTopic(l[k])
  <2>1. x \in Seq(Int) /\ At(b, at[k - 1], x)
    BY <1>2, <1>8
  <2>2. k - 1 \in 0 .. N
    BY <1>1
  <2>3. at[k - 1] \in Nat
    BY <2>2
  <2> HIDE DEF x
  <2>4. At(s, 4 + at[k - 1], x)
    BY <1>7, <1>12, <1>14, <2>1, <2>3, AtWithin
  <2>5. P[k - 1] - 4 = 4 + at[k - 1]
    BY <1>10, <2>3
  <2> QED
    BY <2>4, <2>5 DEF x
<1>17. Listed(l) = s
  BY <1>4 DEF s, ab
<1> QED
  BY <1>6, <1>10, <1>12, <1>13, <1>15, <1>16, <1>17 DEF a, N

\* encodeResponse writes a frame: its payload is the correlation id and the reply.
LEMMA ResponseFrame ==
  ASSUME NEW m \in Int, NEW p \in Seq(Int)
  PROVE  encodeResponse(m, p) = WriteFrame(WriteInt(m, 4) \o p)
<1> DEFINE a == WriteInt(m, 4)
           f == a \o p
           h == WriteInt(4 + Len(p), 4)
<1>1. 4 \in 0 .. 8 /\ Len(p) \in Nat /\ 4 + Len(p) \in Int
  OBVIOUS
<1>2. a \in Seq(Int) /\ Len(a) = 4 /\ h \in Seq(Int)
  BY <1>1, WriteIntType, Zenon
<1> HIDE DEF a
<1>3. Len(f) = Len(a) + Len(p)
  BY <1>2, Joined
<1>4. WriteFrame(f) = h \o (a \o p)
  <2>1. Len(f) = 4 + Len(p)
    BY <1>2, <1>3
  <2> QED
    BY <2>1, Zenon DEF WriteFrame
<1>5. encodeResponse(m, p) = (h \o a) \o p
  BY DEF encodeResponse, a
<1> HIDE DEF h
<1>6. (h \o a) \o p = h \o (a \o p)
  BY <1>2, ConcatAssociative
<1> QED
  BY <1>4, <1>5, <1>6 DEF a

\* The frame of a reply that lists l under the correlation id m.
FrameOf(l, m) == WriteInt(m, 4) \o Listed(l)

\* It fits the length fields of a frame; it is what encodeResponse sends.
LEMMA FrameLayout ==
  ASSUME NEW l \in Listings, NEW m \in {Corr, Corr + 1}
  PROVE  /\ FrameOf(l, m) \in Seq(Int) /\ Len(FrameOf(l, m)) = 4 + Len(Listed(l))
         /\ ~TooLarge(FrameOf(l, m)) /\ encodeResponse(m, Listed(l)) = WriteFrame(FrameOf(l, m))
         /\ m \in Ints(4) /\ Len(l) \in Ints(4)
         /\ At(FrameOf(l, m), 0, WriteInt(m, 4)) /\ At(FrameOf(l, m), 4, WriteInt(Len(l), 4))
         /\ At(FrameOf(l, m), 4, Listed(l))
<1> DEFINE a == WriteInt(m, 4)
           p == Listed(l)
           P == Places(l)
           N == Len(l)
<1>1. m \in Int /\ m \in 0 .. 7 /\ 4 \in 0 .. 8 /\ Corr \in Int
  BY DEF Corr
<1>2. a \in Seq(Int) /\ Len(a) = 4 /\ WriteInt(Corr, 4) \in Seq(Int) /\ Len(WriteInt(Corr, 4)) = 4
  BY <1>1, WriteIntType, Zenon
<1>3. /\ p \in Seq(Int) /\ Len(p) = P[N] /\ N \in Nat
      /\ P[0] = 8 /\ \A k \in 0 .. N : P[k] \in Nat /\ P[k] >= 8
      /\ \A k \in 1 .. N : P[k] = P[k - 1] + Len(ListedTopic(l[k]))
      /\ At(p, 0, WriteInt(N, 4)) /\ ~TooLarge(encodeResponse(Corr, p))
  BY ListedLayout, ListingType, Zenon
<1>4. \A k \in 1 .. N : Len(ListedTopic(l[k])) \in Nat /\ Len(ListedTopic(l[k])) >= 6
  <2>1. ASSUME NEW k \in 1 .. N PROVE Len(ListedTopic(l[k])) \in Nat /\ Len(ListedTopic(l[k])) >= 6
    <3>1. l[k] \in ListedTopics
      BY ListingType
    <3> DEFINE t == l[k]
    <3>2. t.topic \in Seq(Int) /\ t.parts \in Seq(ListedEntries)
      BY <3>1 DEF ListedTopics
    <3>3. Len(t.topic) \in Nat /\ Len(t.parts) \in Nat
      <4> HIDE DEF t, ListedEntries
      <4> QED
        BY <3>2
    <3> DEFINE x == Len(t.topic)
               y == Len(t.parts)
               z == Len(ListedTopic(t))
    <3>4. z = 6 + x + 14 * y
      BY <3>1, TopicLayout, Zenon
    <3> HIDE DEF x, y, z
    <3>5. x \in Nat /\ y \in Nat
      BY <3>3 DEF x, y
    <3>6. z \in Nat /\ z >= 6
      BY <3>4, <3>5
    <3> QED
      BY <3>6 DEF z
  <2> QED
    BY <2>1
<1> HIDE DEF a, p, P, N
<1>5. N <= P[N]
  <2> DEFINE S == {k \in 0 .. N : k <= P[k]}
  <2>1. 0 \in S
    BY <1>3
  <2>2. ASSUME NEW k \in 1 .. N, k - 1 \in S PROVE k \in S
    <3>1. k \in 0 .. N /\ k - 1 \in 0 .. N /\ k - 1 <= P[k - 1]
      BY <1>3, <2>2
    <3>2. P[k] = P[k - 1] + Len(ListedTopic(l[k])) /\ P[k - 1] \in Nat
      BY <1>3, <3>1
    <3>3. Len(ListedTopic(l[k])) \in Nat /\ Len(ListedTopic(l[k])) >= 6
      BY <1>4
    <3> DEFINE n == Len(ListedTopic(l[k]))
    <3> HIDE DEF n
    <3>4. k <= P[k]
      BY <3>1, <3>2, <3>3 DEF n
    <3> QED
      BY <3>1, <3>4
  <2> HIDE DEF S
  <2>3. \A k \in 0 .. N : k \in S
    BY <1>3, <2>1, <2>2, UpTo, Zenon
  <2>4. N \in 0 .. N
    BY <1>3
  <2> QED
    BY <2>3, <2>4 DEF S
<1> DEFINE f == a \o p
<1>6. f \in Seq(Int) /\ Len(f) = Len(a) + Len(p) /\ At(f, 0, a) /\ At(f, Len(a), p)
  BY <1>2, <1>3, Joined
<1>7. Len(p) \in Nat /\ 8 + Len(p) <= MaxInt(4) /\ MaxInt(4) \in Nat
  <2> DEFINE c == WriteInt(Corr, 4)
             h == WriteInt(4 + Len(p), 4)
  <2>1. encodeResponse(Corr, p) = (h \o c) \o p
    BY DEF encodeResponse
  <2>2. 4 + Len(p) \in Int /\ Len(p) \in Nat
    BY <1>3
  <2>3. h \in Seq(Int) /\ Len(h) = 4
    BY <1>1, <2>2, WriteIntType, Zenon
  <2>4. c \in Seq(Int) /\ Len(c) = 4
    BY <1>2
  <2> HIDE DEF c, h
  <2>5. h \o c \in Seq(Int) /\ Len(h \o c) = 8
    <3>1. h \o c \in Seq(Int) /\ Len(h \o c) = Len(h) + Len(c)
      BY <2>3, <2>4, Joined, Zenon
    <3> QED
      BY <2>3, <2>4, <3>1
  <2> DEFINE hc == h \o c
  <2> HIDE DEF hc
  <2>6. Len(hc \o p) = 8 + Len(p)
    <3>1. hc \in Seq(Int) /\ Len(hc) = 8
      BY <2>5 DEF hc
    <3> QED
      BY <1>3, <3>1, Joined
  <2>7. ~(Len(hc \o p) > MaxInt(4))
    BY <1>3, <2>1 DEF TooLarge, hc
  <2>8. MaxInt(4) \in Nat
    BY WidthFacts
  <2> QED
    BY <2>2, <2>6, <2>7, <2>8
<1>8. encodeResponse(m, p) = WriteFrame(f)
  BY <1>1, <1>3, ResponseFrame DEF a
<1> HIDE DEF f
<1>9. ~TooLarge(f) /\ Len(f) = 4 + Len(p)
  BY <1>2, <1>6, <1>7 DEF TooLarge
<1>10. N \in Ints(4) /\ m \in Ints(4)
  <2>1. N \in 0 .. MaxInt(4)
    BY <1>3, <1>5, <1>7
  <2>2. 0 .. MaxInt(4) \subseteq Ints(4)
    BY WidthFacts
  <2> QED
    BY <1>1, <2>1, <2>2, SmallInts
<1>11. At(f, 4, p)
  BY <1>2, <1>6
<1>12. At(f, 4 + 0, WriteInt(N, 4))
  <2> DEFINE x == WriteInt(N, 4)
  <2>1. x \in Seq(Int)
    <3>1. N \in Int
      BY <1>3
    <3> QED
      BY <1>1, <3>1, WriteIntType, Zenon
  <2> HIDE DEF x
  <2>2. At(p, 0, x)
    BY <1>3 DEF x
  <2>3. At(f, 4 + 0, x)
    BY <1>3, <1>6, <1>11, <2>1, <2>2, AtWithin
  <2> QED
    BY <2>3 DEF x
<1>13. 4 + 0 = 4 /\ FrameOf(l, m) = f
  BY DEF FrameOf, f, a, p
<1> QED
  BY <1>6, <1>8, <1>9, <1>10, <1>11, <1>12, <1>13 DEF a, p, N

\* Where the name and the count of topic k are in the frame, and where it ends.
LEMMA FrameTopic ==
  ASSUME NEW l \in Listings, NEW m \in {Corr, Corr + 1}, NEW k \in 1 .. Len(l)
  PROVE  /\ l[k].topic \in Seq(Int) /\ Len(l[k].topic) \in Nat /\ Len(l[k].topic) <= MaxInt(2)
         /\ Len(l[k].parts) \in Nat /\ Len(l[k].parts) \in Ints(4)
         /\ Places(l)[k - 1] \in Nat /\ Places(l)[k] \in Nat
         /\ At(FrameOf(l, m), Places(l)[k - 1], WriteString(l[k].topic))
         /\ At(FrameOf(l, m), Places(l)[k - 1] + 2 + Len(l[k].topic), WriteInt(Len(l[k].parts), 4))
         /\ PartPlace(l, k, 0) = Places(l)[k - 1] + 6 + Len(l[k].topic)
         /\ PartPlace(l, k, Len(l[k].parts)) = Places(l)[k]
         /\ At(FrameOf(l, m), Places(l)[k - 1], ListedTopic(l[k]))
<1> DEFINE t == l[k]
           x == Len(t.topic)
           y == Len(t.parts)
           P == Places(l)
           F == FrameOf(l, m)
           i == P[k - 1]
           T == ListedTopic(t)
<1>1. k \in 0 .. Len(l) /\ k - 1 \in 0 .. Len(l)
  BY ListingType
<1>2. /\ t \in ListedTopics /\ ~TooLarge(F) /\ F \in Seq(Int)
      /\ At(F, 4, Listed(l)) /\ Listed(l) \in Seq(Int)
  BY ListingType, FrameLayout, ListedLayout, Zenon
<1>3. i \in Nat /\ i >= 8 /\ P[k] \in Nat /\ P[k] = i + Len(T) /\ At(Listed(l), i - 4, T)
  BY <1>1, ListedLayout, Zenon
<1>4. /\ T \in Seq(Int) /\ Len(T) = 6 + x + 14 * y
      /\ At(T, 0, WriteString(t.topic)) /\ At(T, 2 + x, WriteInt(y, 4))
  BY <1>2, TopicLayout, Zenon
<1>5. t.topic \in Seq(Int) /\ x \in Nat /\ x <= MaxInt(2) /\ y \in Nat
  <2>1. t.topic \in Seq(Int) /\ t.parts \in Seq(ListedEntries) /\ x <= MaxInt(2)
    BY <1>2 DEF ListedTopics
  <2> HIDE DEF t, ListedEntries
  <2> QED
    BY <2>1
<1>6. At(F, i, T)
  <2> HIDE DEF F, i, T
  <2>1. 4 \in Nat /\ i - 4 \in Nat /\ 4 + (i - 4) = i
    BY <1>3
  <2> DEFINE j == i - 4
  <2> HIDE DEF j
  <2>2. j \in Nat /\ 4 + j = i /\ At(Listed(l), j, T)
    BY <1>3, <2>1 DEF j
  <2>3. At(F, 4 + j, T)
    BY <1>2, <1>4, <2>2, AtWithin
  <2> QED
    BY <2>2, <2>3
<1>7. y \in Ints(4)
  <2> HIDE DEF F, T, x, y, i
  <2>1. i + Len(T) <= Len(F) /\ Len(F) <= MaxInt(4) /\ Len(F) \in Nat
    <3>1. i + Len(T) <= Len(F)
      BY <1>6, Zenon DEF At
    <3>2. ~(Len(F) > MaxInt(4)) /\ Len(F) \in Nat
      BY <1>2 DEF TooLarge
    <3>3. MaxInt(4) \in Nat
      BY WidthFacts
    <3> QED
      BY <3>1, <3>2, <3>3
  <2>2. MaxInt(4) \in Nat /\ 0 .. MaxInt(4) \subseteq Ints(4)
    BY WidthFacts
  <2>3. y <= MaxInt(4)
    BY <1>3, <1>4, <1>5, <2>1, <2>2
  <2> QED
    BY <1>5, <2>2, <2>3
<1>8. WriteString(t.topic) \in Seq(Int) /\ WriteInt(y, 4) \in Seq(Int)
  <2>1. y \in Int /\ 4 \in 0 .. 8
    BY <1>5
  <2> QED
    BY <1>5, <2>1, WriteStringType, WriteIntType, Zenon
<1>9. At(F, i, WriteString(t.topic))
  <2> DEFINE a == WriteString(t.topic)
  <2> HIDE DEF F, i, T, a
  <2>1. At(T, 0, a) /\ a \in Seq(Int)
    BY <1>4, <1>8 DEF a
  <2>2. At(F, i + 0, a)
    BY <1>2, <1>3, <1>4, <1>6, <2>1, AtWithin
  <2>3. i + 0 = i
    BY <1>3
  <2> QED
    BY <2>2, <2>3 DEF a
<1>10. At(F, i + 2 + x, WriteInt(y, 4))
  <2> DEFINE a == WriteInt(y, 4)
             j == 2 + x
  <2>1. j \in Nat /\ i + j = i + 2 + x
    <3> HIDE DEF i, x
    <3> QED
      BY <1>3, <1>5
  <2> HIDE DEF F, i, T, a, x
  <2>2. At(T, j, a) /\ a \in Seq(Int)
    BY <1>4, <1>8 DEF a
  <2> HIDE DEF j
  <2>3. At(F, i + j, a)
    BY <1>2, <1>3, <1>4, <1>6, <2>1, <2>2, AtWithin
  <2> QED
    BY <2>1, <2>3 DEF a
<1>11. PartPlace(l, k, 0) = i + 6 + x + 14 * 0 /\ PartPlace(l, k, y) = i + 6 + x + 14 * y
  BY DEF PartPlace
<1>12. PartPlace(l, k, 0) = i + 6 + x /\ PartPlace(l, k, y) = P[k]
  <2> HIDE DEF i, x, y, P, T
  <2>1. P[k] = i + Len(T)
    BY <1>3
  <2> QED
    BY <1>3, <1>4, <1>5, <1>11, <2>1
<1> HIDE DEF t
<1> QED
  BY <1>3, <1>5, <1>6, <1>7, <1>9, <1>10, <1>12 DEF t

\* Where the fields of a partition are.
LEMMA FramePart ==
  ASSUME NEW l \in Listings, NEW m \in {Corr, Corr + 1}, NEW k \in 1 .. Len(l),
         NEW n \in 1 .. Len(l[k].parts)
  PROVE  /\ l[k].parts[n].partition \in Ints(4) /\ l[k].parts[n].code \in Ints(2)
         /\ l[k].parts[n].offset \in Ints(8)
         /\ PartPlace(l, k, n - 1) \in Nat /\ PartPlace(l, k, n) = PartPlace(l, k, n - 1) + 14
         /\ At(FrameOf(l, m), PartPlace(l, k, n - 1), WriteInt(l[k].parts[n].partition, 4))
         /\ At(FrameOf(l, m), PartPlace(l, k, n - 1) + 4, WriteInt(l[k].parts[n].code, 2))
         /\ At(FrameOf(l, m), PartPlace(l, k, n - 1) + 6, WriteInt(l[k].parts[n].offset, 8))
<1> DEFINE t == l[k]
           p == t.parts[n]
           x == Len(t.topic)
           P == Places(l)
           F == FrameOf(l, m)
           i == P[k - 1]
           j == 6 + x + 14 * (n - 1)
           T == ListedTopic(t)
           E == ListedPart(p)
<1>1. /\ t \in ListedTopics /\ x \in Nat /\ i \in Nat /\ F \in Seq(Int) /\ At(F, i, T)
  BY ListingType, FrameTopic, FrameLayout, Zenon
<1>2. n \in Nat /\ n >= 1 /\ p \in ListedEntries
  <2>1. t.parts \in Seq(ListedEntries)
    BY <1>1 DEF ListedTopics
  <2> HIDE DEF t, ListedEntries
  <2>2. n \in 1 .. Len(t.parts)
    BY DEF t
  <2> QED
    BY <2>1, <2>2
<1>3. T \in Seq(Int) /\ At(T, j, E)
  <2>1. n \in 1 .. Len(t.parts)
    OBVIOUS
  <2> QED
    BY <1>1, <2>1, TopicLayout, Zenon
<1>4. /\ E \in Seq(Int) /\ At(E, 0, WriteInt(p.partition, 4))
      /\ At(E, 4, WriteInt(p.code, 2)) /\ At(E, 6, WriteInt(p.offset, 8))
  BY <1>2, PartLayout, Zenon
<1>5. p.partition \in Ints(4) /\ p.code \in Ints(2) /\ p.offset \in Ints(8)
  BY <1>2 DEF ListedEntries
<1>6. PartPlace(l, k, n - 1) = i + 6 + x + 14 * (n - 1) /\ PartPlace(l, k, n) = i + 6 + x + 14 * n
  BY DEF PartPlace
<1>7. /\ j \in Nat /\ PartPlace(l, k, n - 1) = i + j
      /\ PartPlace(l, k, n) = PartPlace(l, k, n - 1) + 14
      /\ i + j \in Nat
  <2> DEFINE q == PartPlace(l, k, n - 1)
             r == PartPlace(l, k, n)
  <2>1. q = i + 6 + x + 14 * (n - 1) /\ r = i + 6 + x + 14 * n
    BY <1>6
  <2> HIDE DEF i, x, q, r
  <2>2. j \in Nat /\ q = i + j /\ r = q + 14 /\ i + j \in Nat
    BY <1>1, <1>2, <2>1
  <2> QED
    BY <2>2 DEF q, r
<1>8. At(F, i + j, E)
  <2> HIDE DEF F, i, j, T, E
  <2> QED
    BY <1>1, <1>3, <1>4, <1>7, AtWithin
<1> DEFINE h == i + j
           a == WriteInt(p.partition, 4)
           b == WriteInt(p.code, 2)
           c == WriteInt(p.offset, 8)
<1>9. a \in Seq(Int) /\ b \in Seq(Int) /\ c \in Seq(Int)
  <2>0. 2 \in 0 .. 8 /\ 4 \in 0 .. 8 /\ 8 \in 0 .. 8 /\ 2 \in 1 .. 8 /\ 4 \in 1 .. 8 /\ 8 \in 1 .. 8
    OBVIOUS
  <2>1. /\ Ints(4) \subseteq Int /\ Ints(2) \subseteq Int /\ Ints(8) \subseteq Int
        /\ 2 \in 0 .. 8 /\ 4 \in 0 .. 8 /\ 8 \in 0 .. 8
    BY <2>0, IntsFacts, Zenon
  <2>2. p.partition \in Int /\ p.code \in Int /\ p.offset \in Int
    BY <1>5, <2>1
  <2> QED
    BY <2>1, <2>2, WriteIntType, Zenon
<1>10. /\ PartPlace(l, k, n - 1) = h /\ h \in Nat /\ At(F, h, E)
       /\ At(E, 0, a) /\ At(E, 4, b) /\ At(E, 6, c)
  BY <1>4, <1>7, <1>8
<1> HIDE DEF h, a, b, c, F, E, p
<1>11. At(F, h + 0, a) /\ At(F, h + 4, b) /\ At(F, h + 6, c)
  <2>1. At(F, h + 0, a)
    BY <1>1, <1>4, <1>9, <1>10, AtWithin
  <2>2. At(F, h + 4, b)
    BY <1>1, <1>4, <1>9, <1>10, AtWithin
  <2>3. At(F, h + 6, c)
    BY <1>1, <1>4, <1>9, <1>10, AtWithin
  <2> QED
    BY <2>1, <2>2, <2>3
<1>12. h + 0 = h
  BY <1>10
<1> QED
  BY <1>5, <1>7, <1>10, <1>11, <1>12 DEF a, b, c, F, p

\* What is cut off is the end.
LEMMA CutBegins ==
  ASSUME NEW s \in Seq(Int), NEW n \in 0 .. Len(s)
  PROVE  SubSeq(s, 1, n) \in Seq(Int) /\ Len(SubSeq(s, 1, n)) = n /\ Begins(SubSeq(s, 1, n), s)
<1> DEFINE c == SubSeq(s, 1, n)
<1>1. n \in Int /\ 1 \in Int /\ 1 <= n + 1 /\ n <= Len(s)
  OBVIOUS
<1>2. c \in Seq(Int) /\ Len(c) = n - 1 + 1 /\ \A k \in 1 .. n - 1 + 1 : c[k] = s[1 + k - 1]
  BY <1>1, SubType
<1> HIDE DEF c
<1>3. Len(c) = n /\ \A k \in 1 .. n : c[k] = s[k]
  <2>1. n - 1 + 1 = n /\ \A k \in 1 .. n : 1 + k - 1 = k
    BY <1>1
  <2> QED
    BY <1>2, <2>1
<1>4. Begins(c, s)
  BY <1>1, <1>3 DEF Begins
<1> QED
  BY <1>2, <1>3, <1>4 DEF c

\* A stream that ends within a frame is no frame.
LEMMA FrameCut ==
  ASSUME NEW b \in Seq(Int), ~TooLarge(b), NEW n \in 0 .. Len(WriteFrame(b)) - 1
  PROVE  ~ReadFrame(SubSeq(WriteFrame(b), 1, n)).ok
<1> DEFINE N == Len(b)
           h == WriteInt(N, 4)
           w == h \o b
           s == SubSeq(w, 1, n)
           x == ReadInt(s, 4)
<1>1. N \in Nat /\ N \in Int /\ 4 \in 0 .. 8 /\ 4 \in 1 .. 8
  OBVIOUS
<1>2. h \in Seq(Int) /\ Len(h) = 4
  BY <1>1, WriteIntType, Zenon
<1>3. N \in Ints(4)
  <2>1. MaxInt(4) \in Nat /\ 0 .. MaxInt(4) \subseteq Ints(4)
    BY <1>1, WidthFacts
  <2>2. ~(N > MaxInt(4))
    BY DEF TooLarge
  <2> QED
    BY <1>1, <2>1, <2>2
<1> HIDE DEF h
<1>4. w \in Seq(Int) /\ Len(w) = Len(h) + N /\ At(w, 0, h)
  BY <1>2, Joined
<1>5. WriteFrame(b) = w
  BY DEF WriteFrame, h
<1> HIDE DEF w
<1>6. n \in 0 .. Len(w) /\ n < 4 + N /\ n \in Nat
  BY <1>1, <1>2, <1>4, <1>5
<1>7. s \in Seq(Int) /\ Len(s) = n /\ Begins(s, w)
  BY <1>4, <1>6, CutBegins
<1> HIDE DEF s
<1>8. 0 \in 0 .. Len(s) /\ Len(s) - 0 = n /\ 0 + 4 = 4
  BY <1>6, <1>7
<1>9. Rest(s, 0) = s
  BY <1>7 DEF Rest
<1> HIDE DEF N, x
<1>10. \/ Len(s) - 0 < 4
       \/ 4 <= n /\ readInt(Place(s, 0), 4) = ReadAs(N, s, 4)
  <2>1. At(w, 0, WriteInt(N, 4))
    BY <1>4 DEF h
  <2>2. \/ Len(s) - 0 < 4 /\ readInt(Place(s, 0), 4) = Short(Place(s, 0))
        \/ 4 <= Len(s) - 0 /\ 0 + 4 \in 0 .. Len(s) /\ readInt(Place(s, 0), 4) = ReadAs(N, s, 0 + 4)
    BY <1>1, <1>3, <1>4, <1>7, <1>8, <2>1, IntIn, Zenon
  <2> QED
    BY <1>8, <2>2
<1>11. \/ x = Failed /\ Len(s) - 0 < 4
       \/ \E v \in Int : /\ x = Got(v, Rest(s, 4))
                         /\ readInt(Place(s, 0), 4) = [ok |-> TRUE, v |-> v, r |-> Place(s, 4)]
  BY <1>1, <1>7, <1>8, <1>9, IntSame DEF x
<1>12. ReadFrame(s) = IF x.ok /\ x.v >= 0 THEN ReadFull(x.rest, x.v) ELSE Failed
  BY DEF ReadFrame, x
<1>13. CASE x = Failed
  BY <1>12, <1>13, <1>5 DEF Failed, s
<1>14. CASE x # Failed
  <2>1. x = Got(N, Rest(s, 4)) /\ 4 <= n
    <3>1. PICK v \in Int : /\ x = Got(v, Rest(s, 4))
                           /\ readInt(Place(s, 0), 4) = [ok |-> TRUE, v |-> v, r |-> Place(s, 4)]
      BY <1>11, <1>14
    <3>2. CASE n < 4
      <4>1. ReadFull(s, 4) = Failed
        BY <1>7, <3>2 DEF ReadFull
      <4>2. x = Failed
        BY <4>1 DEF x, ReadInt, Failed
      <4> QED
        BY <1>14, <4>2
    <3>3. CASE ~(n < 4)
      <4>1. readInt(Place(s, 0), 4) = ReadAs(N, s, 4)
        BY <1>8, <1>10, <3>3
      <4>2. v = N
        BY <3>1, <4>1 DEF ReadAs
      <4> QED
        BY <1>6, <3>1, <3>3, <4>2
    <3> QED
      BY <3>2, <3>3
  <2>2. x.ok /\ x.v = N /\ x.rest = Rest(s, 4)
    BY <2>1 DEF Got
  <2>3. ReadFull(Rest(s, 4), N) = Failed
    <3>1. 4 \in 0 .. Len(s) /\ Len(s) - 4 < N
      BY <1>1, <1>6, <1>7, <2>1 DEF N
    <3> QED
      BY <1>1, <1>7, <3>1, FullSame
  <2>4. ReadFrame(s) = Failed
    BY <1>1, <1>12, <2>2, <2>3
  <2> QED
    BY <2>4, <1>5 DEF Failed, s
<1> QED
  BY <1>13, <1>14
-----------------------------------------------------------------------------
(***************************************************************************)
(* WireInv holds in every step of the call.                                *)
(***************************************************************************)

\* What the call has written is read once; later steps leave it alone.
LEMMA RecordKept ==
  ASSUME RecordIntact, stage \notin {"idle", "written", "closing"}, UNCHANGED <<args, stored>>
  PROVE  RecordIntact'
<1>1. args' = args /\ stored' = stored
  OBVIOUS
<1> QED
  BY <1>1 DEF RecordIntact

\* What the listing says to the call does not change while it is read.
LEMMA MeantKept ==
  ASSUME UNCHANGED <<args, listing, meant>>
  PROVE  /\ Own' = Own /\ Meant' = Meant /\ Frame' = Frame
         /\ args' = args /\ listing' = listing /\ meant' = meant
<1>1. args' = args /\ listing' = listing /\ meant' = meant
  OBVIOUS
<1>2. Own' = Own
  BY <1>1 DEF Own
<1>3. Meant' = Meant
  BY <1>1, <1>2 DEF Meant
<1>4. Frame' = Frame
  BY <1>1 DEF Frame
<1> QED
  BY <1>1, <1>2, <1>3, <1>4

\* The steps that end the call.
LEMMA Ended ==
  ASSUME stage' \in {"done", "closing"}, RecordIntact', ReplyReadAsMeant'
  PROVE  WireInv'
<1> QED
  BY DEF WireInv

\* An entry of the call is one of the listing.
LEMMA OwnType ==
  ASSUME NEW e \in Own
  PROVE  /\ e[1] \in 1 .. Len(listing) /\ e[2] \in 1 .. Len(listing[e[1]].parts)
         /\ e = <<e[1], e[2]>>
         /\ listing[e[1]].topic = args.topic
         /\ listing[e[1]].parts[e[2]].partition = args.partition
<1>1. PICK k \in 1 .. Len(listing) : e \in {k} \X (1 .. Len(listing[k].parts))
  BY DEF Own
<1>2. e[1] = k /\ e[2] \in 1 .. Len(listing[k].parts) /\ e = <<e[1], e[2]>>
  BY <1>1
<1>3. listing[e[1]].topic = args.topic /\ listing[e[1]].parts[e[2]].partition = args.partition
  BY DEF Own
<1> QED
  BY <1>2, <1>3

\* An entry of the listing for the topic and partition of the call is its own.
LEMMA OwnHas ==
  ASSUME NEW k \in 1 .. Len(listing), NEW n \in 1 .. Len(listing[k].parts),
         listing[k].topic = args.topic, listing[k].parts[n].partition = args.partition
  PROVE  <<k, n>> \in Own
<1> DEFINE e == <<k, n>>
<1>1. e[1] = k /\ e[2] = n
  OBVIOUS
<1>2. e \in {k} \X (1 .. Len(listing[k].parts))
  OBVIOUS
<1> HIDE DEF e
<1>3. e \in UNION {{j} \X (1 .. Len(listing[j].parts)) : j \in 1 .. Len(listing)}
  BY <1>2
<1>4. listing[e[1]].topic = args.topic /\ listing[e[1]].parts[e[2]].partition = args.partition
  BY <1>1
<1>5. e \in Own
  BY <1>3, <1>4 DEF Own
<1> QED
  BY <1>5 DEF e

\* The first entry of the call is its answer.
LEMMA MeantIs ==
  ASSUME NEW k \in 1 .. Len(listing), NEW n \in 1 .. Len(listing[k].parts),
         listing[k].topic = args.topic, listing[k].parts[n].partition = args.partition,
         OwnAfter(k, n - 1), meant = Corr, Len(listing) \in Nat, Len(listing[k].parts) \in Nat,
         \A e \in Own : Len(listing[e[1]].parts) \in Nat
  PROVE  Meant = IF listing[k].parts[n].code = 0
                 THEN [kind |-> "offset", offset |-> listing[k].parts[n].offset]
                 ELSE [kind |-> "error", offset |-> 0]
<1> DEFINE e == <<k, n>>
           First(f) == \A g \in Own : f[1] < g[1] \/ (f[1] = g[1] /\ f[2] <= g[2])
           first == CHOOSE f \in Own : First(f)
<1>1. e \in Own /\ e[1] = k /\ e[2] = n /\ k \in Nat /\ n \in Nat
  <2>1. e \in Own
    BY OwnHas, Zenon
  <2> QED
    BY <2>1
<1>2. \A f \in Own : /\ f[1] \in Nat /\ f[2] \in Nat /\ f = <<f[1], f[2]>>
                     /\ f[1] > k \/ (f[1] = k /\ f[2] > n - 1)
  <2>1. ASSUME NEW f \in Own
        PROVE  f[1] \in Nat /\ f[2] \in Nat /\ f = <<f[1], f[2]>>
    BY OwnType
  <2>2. \A f \in Own : f[1] > k \/ (f[1] = k /\ f[2] > n - 1)
    BY DEF OwnAfter
  <2> QED
    BY <2>1, <2>2
<1>3. First(e)
  BY <1>1, <1>2
<1>4. ASSUME NEW f \in Own, First(f) PROVE f = e
  <2>1. f[1] < k \/ (f[1] = k /\ f[2] <= n)
    BY <1>1, <1>4
  <2>2. f[1] = k /\ f[2] = n
    BY <1>1, <1>2, <2>1
  <2> QED
    BY <1>2, <2>2
<1>5. first = e
  <2> HIDE DEF e, First
  <2> QED
    BY <1>1, <1>3, <1>4
<1>6. Meant = IF Corr = Corr /\ Own # {} /\ listing[first[1]].parts[first[2]].code = 0
              THEN [kind |-> "offset", offset |-> listing[first[1]].parts[first[2]].offset]
              ELSE [kind |-> "error", offset |-> 0]
  BY DEF Meant
<1>7. Own # {} /\ first[1] = k /\ first[2] = n
  <2> HIDE DEF first
  <2> QED
    BY <1>1, <1>5
<1> HIDE DEF first
<1> QED
  BY <1>6, <1>7

\* The reader in the frame of a reply.
LEMMA ReadingFacts ==
  ASSUME listing \in Listings, meant \in {Corr, Corr + 1}, FrameRead
  PROVE  /\ reader.b \in Seq(Int) /\ reader.i \in 0 .. Len(reader.b) /\ reader.i \in Nat
         /\ reader = Place(reader.b, reader.i) /\ Remaining(reader) = Len(reader.b) - reader.i
         /\ Frame = FrameOf(listing, meant) /\ Frame \in Seq(Int)
         /\ Begins(reader.b, Frame) /\ (whole => reader.b = Frame)
<1>1. reader \in [b: Seq(Int), i: Nat] /\ reader.i <= Len(reader.b)
  BY DEF FrameRead
<1>2. reader.b \in Seq(Int) /\ reader.i \in Nat /\ reader = [b |-> reader.b, i |-> reader.i]
  BY <1>1
<1>3. reader.i \in 0 .. Len(reader.b)
  <2>1. Len(reader.b) \in Nat
    BY <1>2
  <2> QED
    BY <1>1, <1>2, <2>1
<1>4. Frame = FrameOf(listing, meant)
  BY DEF Frame, FrameOf
<1>5. Frame \in Seq(Int)
  BY <1>4, FrameLayout
<1>6. Begins(reader.b, Frame) /\ (whole => reader.b = Frame)
  BY Zenon DEF FrameRead, Begins
<1> QED
  BY <1>2, <1>3, <1>4, <1>5, <1>6 DEF Place, Remaining

\* Moving on in the same frame.
LEMMA FrameKept ==
  ASSUME FrameRead, UNCHANGED <<args, listing, meant, whole>>,
         NEW j \in 0 .. Len(reader.b), reader' = Place(reader.b, j)
  PROVE  FrameRead' /\ reader'.b = reader.b /\ reader'.i = j
<1>1. reader'.b = reader.b /\ reader'.i = j
  BY DEF Place
<1>2. reader.b \in Seq(Int)
  BY DEF FrameRead
<1>3. reader' \in [b: Seq(Int), i: Nat] /\ reader'.i <= Len(reader'.b)
  <2>1. Len(reader.b) \in Nat
    BY <1>2
  <2>2. j \in Nat /\ j <= Len(reader.b)
    BY <2>1
  <2>3. reader' = [b |-> reader.b, i |-> j]
    BY DEF Place
  <2> QED
    BY <1>1, <1>2, <2>2, <2>3
<1>4. Frame' = Frame /\ whole' = whole /\ meant' = meant
  BY MeantKept
<1>5. /\ Len(reader.b) <= Len(Frame) /\ \A k \in 1 .. Len(reader.b) : reader.b[k] = Frame[k]
      /\ IF whole THEN reader.b = Frame ELSE meant = Corr
  BY Zenon DEF FrameRead
<1>6. /\ Len(reader'.b) <= Len(Frame') /\ \A k \in 1 .. Len(reader'.b) : reader'.b[k] = Frame'[k]
      /\ IF whole' THEN reader'.b = Frame' ELSE meant' = Corr
  BY <1>1, <1>4, <1>5
<1> QED
  BY <1>1, <1>3, <1>6, Zenon DEF FrameRead

\* A reader that has lost its place does not find it again.
LEMMA StaysLost ==
  ASSUME Lost, whole' = whole, NEW j \in Int, reader.i <= j, reader' = Place(reader.b, j),
         reader.i \in Int, Len(reader.b) \in Int
  PROVE  Lost'
<1>1. reader'.b = reader.b /\ reader'.i = j
  BY DEF Place
<1>2. ~whole /\ Len(reader.b) - reader.i < 8
  BY DEF Lost, Remaining
<1>3. Len(reader.b) - j < 8
  BY <1>2
<1>4. Len(reader'.b) - reader'.i < 8
  BY <1>1, <1>3
<1> QED
  BY <1>2, <1>4 DEF Lost, Remaining

\* An error that a reply cut short gives.
LEMMA CutShort ==
  ASSUME ~whole', stage' = "done", returned' = [kind |-> "error", offset |-> 0]
  PROVE  ReplyReadAsMeant'
<1> QED
  BY DEF ReplyReadAsMeant

\* The steps that read on.
LEMMA ReadsOn ==
  ASSUME WireInv, stage \in {"head", "topic", "skip", "part"}, stage' \in {"topic", "skip", "part"},
         UNCHANGED <<args, stored, listing, meant, whole>>,
         FrameRead', meant = Corr, topics' \in Int,
         stage' \in {"skip", "part"} => parts' \in Int,
         stage' = "topic" => (Lost \/ AtTopic(Len(listing) - topics))',
         stage' \in {"skip", "part"} =>
           (Lost \/ AtPart(Len(listing) - topics,
                           Len(listing[Len(listing) - topics].parts) - parts))'
  PROVE  WireInv'
<1>1. RecordIntact'
  <2>1. RecordIntact /\ stage \notin {"idle", "written", "closing"} /\ UNCHANGED <<args, stored>>
    BY DEF WireInv
  <2> QED
    BY <2>1, RecordKept
<1>2. ReplyReadAsMeant'
  BY DEF ReplyReadAsMeant
<1>3. listing' \in Listings /\ meant' \in {Corr, Corr + 1} /\ whole' \in BOOLEAN /\ meant' = Corr
  BY DEF WireInv
<1> QED
  BY <1>1, <1>2, <1>3 DEF WireInv

\* What every step of the reading relies on.
LEMMA ReadingState ==
  ASSUME WireInv, stage \in {"head", "topic", "skip", "part"}
  PROVE  /\ listing \in Listings /\ meant \in {Corr, Corr + 1} /\ whole \in BOOLEAN /\ FrameRead
         /\ RecordIntact /\ stage \notin {"idle", "written", "closing"}
BY Zenon DEF WireInv

\* An integer of the reply, at the reader.
LEMMA ReplyInt ==
  ASSUME listing \in Listings, meant \in {Corr, Corr + 1}, FrameRead,
         NEW i \in 0 .. Len(reader.b), NEW w \in 1 .. 8, NEW v \in Ints(w),
         At(Frame, i, WriteInt(v, w))
  PROVE  \/ /\ Len(reader.b) - i < w /\ ~whole
            /\ readInt(Place(reader.b, i), w) = Short(Place(reader.b, i))
         \/ /\ w <= Len(reader.b) - i /\ i + w \in 0 .. Len(reader.b)
            /\ readInt(Place(reader.b, i), w) = ReadAs(v, reader.b, i + w)
<1> DEFINE b == reader.b
           x == WriteInt(v, w)
<1>1. b \in Seq(Int) /\ Frame \in Seq(Int) /\ Begins(b, Frame) /\ (whole => b = Frame)
  BY ReadingFacts
<1>2. \/ Len(b) - i < w /\ readInt(Place(b, i), w) = Short(Place(b, i))
      \/ w <= Len(b) - i /\ i + w \in 0 .. Len(b) /\ readInt(Place(b, i), w) = ReadAs(v, b, i + w)
  <2> HIDE DEF b
  <2> QED
    BY <1>1, IntIn, Zenon DEF b
<1>3. CASE Len(b) - i < w
  <2>1. v \in Int /\ w \in 0 .. 8
    <3>1. Ints(w) \subseteq Int
      BY IntsFacts
    <3> QED
      BY <3>1
  <2>2. Len(x) = w
    BY <2>1, WriteIntType
  <2>3. i + Len(x) <= Len(Frame)
    BY Zenon DEF At
  <2>4. ~whole
    <3> HIDE DEF x
    <3>1. Len(Frame) \in Nat /\ i \in Nat
      BY <1>1
    <3>2. b # Frame
      <4> HIDE DEF b
      <4> QED
        BY <1>3, <2>2, <2>3, <3>1
    <3> QED
      BY <1>1, <3>2
  <2>5. ~(w <= Len(b) - i)
    <3>1. Len(b) \in Nat /\ i \in Nat /\ w \in Nat
      BY <1>1
    <3> HIDE DEF b
    <3> QED
      BY <1>3, <3>1
  <2> QED
    BY <1>2, <1>3, <2>4, <2>5
<1>4. CASE ~(Len(b) - i < w)
  BY <1>2, <1>4
<1> QED
  BY <1>3, <1>4

\* A reader that finds too little stays where it is.
LEMMA ShortFacts ==
  ASSUME NEW rd PROVE ~Short(rd).ok /\ Short(rd).r = rd /\ Short(rd).v = 0
BY DEF Short

\* The correlation id and the number of topics are read as they were written.
LEMMA ReadHeadKeeps ==
  ASSUME WireInv, ReadHead
  PROVE  WireInv'
<1> DEFINE b     == reader.b
           corr_ == readInt(reader, 4)
           count == readInt(corr_.r, 4)
           N     == Len(listing)
<1>1. /\ listing \in Listings /\ meant \in {Corr, Corr + 1} /\ whole \in BOOLEAN /\ FrameRead
      /\ RecordIntact /\ stage = "head" /\ stage \notin {"idle", "written", "closing"}
      /\ stage \in {"head", "topic", "skip", "part"}
  BY ReadingState DEF ReadHead
<1>2. reader.i = 0
  BY <1>1 DEF WireInv
<1>3. /\ UNCHANGED <<args, sent, stored, listing, meant, whole, arrived, parts>>
      /\ IF ~corr_.ok \/ corr_.v # Corr \/ ~count.ok
         THEN Finish("error", 0) /\ UNCHANGED <<reader, topics>>
         ELSE stage' = "topic" /\ reader' = count.r /\ topics' = count.v /\ UNCHANGED returned
  BY DEF ReadHead
<1>4. /\ b \in Seq(Int) /\ reader = Place(b, 0) /\ 0 \in 0 .. Len(b) /\ Len(b) \in Nat
      /\ Frame = FrameOf(listing, meant)
  BY <1>1, <1>2, ReadingFacts
<1>5. /\ At(Frame, 0, WriteInt(meant, 4)) /\ At(Frame, 4, WriteInt(N, 4))
      /\ meant \in Ints(4) /\ N \in Ints(4)
  BY <1>1, <1>4, FrameLayout
<1>6. RecordIntact'
  BY <1>1, <1>3, RecordKept
<1>7. Meant' = Meant /\ whole' = whole /\ listing' = listing /\ Own' = Own
  BY <1>3, MeantKept
<1>8. ASSUME Finish("error", 0), ~whole \/ meant # Corr PROVE WireInv'
  <2>1. stage' = "done" /\ returned' = [kind |-> "error", offset |-> 0]
    BY <1>8 DEF Finish
  <2>2. ReplyReadAsMeant'
    <3>1. CASE ~whole
      BY <1>7, <2>1, <3>1, CutShort
    <3>2. CASE meant # Corr
      <4>1. Meant = [kind |-> "error", offset |-> 0]
        BY <3>2 DEF Meant
      <4> QED
        BY <1>7, <2>1, <4>1 DEF ReplyReadAsMeant
    <3> QED
      BY <1>8, <3>1, <3>2
  <2> QED
    BY <1>6, <2>1, <2>2, Ended
<1>9. \/ ~whole /\ corr_ = Short(reader)
      \/ 4 \in 0 .. Len(b) /\ corr_ = ReadAs(meant, b, 4)
  <2> HIDE DEF b
  <2>1. 4 \in 1 .. 8 /\ 0 + 4 = 4
    OBVIOUS
  <2> QED
    BY <1>1, <1>4, <1>5, <2>1, ReplyInt, Zenon DEF b
<1>10. CASE corr_ = Short(reader) /\ ~whole
  <2>1. ~corr_.ok
    BY <1>10, ShortFacts
  <2> QED
    BY <1>3, <1>8, <1>10, <2>1
<1>11. CASE 4 \in 0 .. Len(b) /\ corr_ = ReadAs(meant, b, 4)
  <2>1. corr_.ok /\ corr_.v = meant /\ corr_.r = Place(b, 4)
    BY <1>11, ReadAsFacts
  <2>2. \/ ~whole /\ count = Short(Place(b, 4))
        \/ 8 \in 0 .. Len(b) /\ count = ReadAs(N, b, 8)
    <3>1. 4 \in 1 .. 8 /\ 4 + 4 = 8 /\ count = readInt(Place(b, 4), 4)
      BY <2>1
    <3> HIDE DEF b, count, corr_, N
    <3> QED
      BY <1>1, <1>5, <1>11, <3>1, ReplyInt, Zenon DEF b
  <2>3. CASE count = Short(Place(b, 4)) /\ ~whole
    <3>1. ~count.ok
      BY <2>3, ShortFacts
    <3> QED
      BY <1>3, <1>8, <2>3, <3>1
  <2>4. CASE 8 \in 0 .. Len(b) /\ count = ReadAs(N, b, 8) /\ meant # Corr
    BY <1>3, <1>8, <2>1, <2>4
  <2>5. CASE 8 \in 0 .. Len(b) /\ count = ReadAs(N, b, 8) /\ meant = Corr
    <3>1. count.ok /\ count.v = N /\ count.r = Place(b, 8)
      BY <2>5, ReadAsFacts
    <3>2. stage' = "topic" /\ reader' = Place(b, 8) /\ topics' = N
      BY <1>3, <2>1, <2>5, <3>1
    <3>3. FrameRead' /\ reader'.i = 8
      BY <1>1, <1>3, <2>5, <3>2, FrameKept
    <3>4. N \in Nat /\ Places(listing)[0] = 8
      BY <1>1, ListingType, ListedLayout
    <3>5. N - N = 0 /\ 0 \in 0 .. N /\ N \in Int
      BY <3>4
    <3>6. AtTopic(N - topics)'
      <4>1. \A e \in Own : e[1] > 1 \/ (e[1] = 1 /\ e[2] > 0)
        <5>1. ASSUME NEW e \in Own PROVE e[1] > 1 \/ (e[1] = 1 /\ e[2] > 0)
          <6>1. e[1] \in 1 .. N /\ e[2] \in 1 .. Len(listing[e[1]].parts)
            BY OwnType
          <6> QED
            BY <6>1
        <5> QED
          BY <5>1
      <4>2. OwnAfter(0 + 1, 0)'
        BY <1>7, <4>1 DEF OwnAfter
      <4>3. AtTopic(0)'
        BY <1>7, <3>3, <3>4, <3>5, <4>2 DEF AtTopic
      <4> QED
        BY <1>7, <3>2, <3>5, <4>3
    <3> QED
      BY <1>1, <1>3, <2>5, <3>2, <3>3, <3>5, <3>6, ReadsOn
  <2> QED
    BY <1>1, <2>2, <2>3, <2>4, <2>5
<1> QED
  BY <1>9, <1>10, <1>11

\* A string of the reply, at the reader.
LEMMA ReplyString ==
  ASSUME listing \in Listings, meant \in {Corr, Corr + 1}, FrameRead,
         NEW i \in 0 .. Len(reader.b), NEW t \in Seq(Int), Len(t) <= MaxInt(2),
         At(Frame, i, WriteString(t))
  PROVE  \/ ~whole /\ ~readString(Place(reader.b, i)).ok
         \/ /\ i + 2 + Len(t) \in 0 .. Len(reader.b)
            /\ readString(Place(reader.b, i)) = ReadAs(t, reader.b, i + 2 + Len(t))
<1> DEFINE b == reader.b
           x == WriteString(t)
           n == Len(t)
<1>1. b \in Seq(Int) /\ Frame \in Seq(Int) /\ Begins(b, Frame) /\ (whole => b = Frame)
  BY ReadingFacts
<1>2. \/ Len(b) < i + 2 + n /\ ~readString(Place(b, i)).ok
      \/ i + 2 + n <= Len(b) /\ readString(Place(b, i)) = ReadAs(t, b, i + 2 + n)
  <2> HIDE DEF b
  <2> QED
    BY <1>1, StringIn, Zenon DEF b
<1>3. n \in Nat /\ i \in Nat /\ Len(b) \in Nat
  BY <1>1
<1>4. CASE Len(b) < i + 2 + n
  <2>1. Len(x) = 2 + n
    BY WriteStringType
  <2>2. i + Len(x) <= Len(Frame)
    BY Zenon DEF At
  <2>3. ~whole
    <3> HIDE DEF x, n
    <3>1. Len(Frame) \in Nat
      BY <1>1
    <3>2. b # Frame
      <4> HIDE DEF b
      <4> QED
        BY <1>3, <1>4, <2>1, <2>2, <3>1
    <3> QED
      BY <1>1, <3>2
  <2>4. ~(i + 2 + n <= Len(b))
    <3> HIDE DEF b, n
    <3> QED
      BY <1>3, <1>4
  <2> QED
    BY <1>2, <1>4, <2>3, <2>4
<1>5. CASE ~(Len(b) < i + 2 + n)
  <2>1. i + 2 + n \in 0 .. Len(b)
    <3> HIDE DEF b, n
    <3> QED
      BY <1>3, <1>5
  <2> QED
    BY <1>2, <1>5, <2>1
<1> QED
  BY <1>4, <1>5

\* A topic and its count are read as they were written; in a reply cut short they
\* may not be, and the reader loses its place.
LEMMA ReadTopicKeeps ==
  ASSUME WireInv, ReadTopic
  PROVE  WireInv'
<1> DEFINE b     == reader.b
           i     == reader.i
           topic == readString(reader)
           own   == topic.v = args.topic
           count == readInt(topic.r, 4)
           N     == Len(listing)
           k     == N - topics
<1>1. /\ listing \in Listings /\ meant \in {Corr, Corr + 1} /\ whole \in BOOLEAN /\ FrameRead
      /\ RecordIntact /\ stage = "topic" /\ stage \notin {"idle", "written", "closing"}
      /\ stage \in {"head", "topic", "skip", "part"}
  BY ReadingState DEF ReadTopic
<1>2. meant = Corr /\ topics \in Int /\ (Lost \/ AtTopic(k)) /\ topics > 0
  BY <1>1 DEF WireInv, ReadTopic
<1>3. /\ UNCHANGED <<args, sent, stored, listing, meant, whole, arrived>>
      /\ topics' = topics - 1
      /\ IF ~topic.ok \/ (own /\ ~count.ok)
         THEN Finish("error", 0) /\ UNCHANGED <<reader, parts>>
         ELSE /\ stage' = IF own THEN "part" ELSE "skip"
              /\ reader' = count.r /\ parts' = count.v
              /\ UNCHANGED returned
  BY DEF ReadTopic
<1>4. /\ b \in Seq(Int) /\ reader = Place(b, i) /\ i \in 0 .. Len(b) /\ Len(b) \in Nat /\ i \in Nat
      /\ Frame = FrameOf(listing, meant)
  BY <1>1, ReadingFacts
<1>5. RecordIntact'
  BY <1>1, <1>3, RecordKept
<1>6. Meant' = Meant /\ whole' = whole /\ listing' = listing /\ Own' = Own /\ args' = args
  BY <1>3, MeantKept
<1>7. ASSUME Finish("error", 0), ~whole PROVE WireInv'
  <2>1. stage' = "done" /\ returned' = [kind |-> "error", offset |-> 0]
    BY <1>7 DEF Finish
  <2>2. ReplyReadAsMeant'
    BY <1>6, <1>7, <2>1, CutShort
  <2> QED
    BY <1>5, <2>1, <2>2, Ended
<1>8. topics' \in Int /\ N \in Nat /\ N - topics' = k + 1
  <2>1. N \in Nat
    BY <1>1, ListingType
  <2> HIDE DEF N
  <2> QED
    BY <1>2, <1>3, <2>1
<1>9. ASSUME Lost PROVE WireInv'
  <2>1. PICK j \in i .. Len(b) : topic.r = Place(b, j)
    BY <1>4, StringMoves
  <2>2. j \in 0 .. Len(b) /\ 4 \in 0 .. 8
    <3> HIDE DEF i, b
    <3> QED
      BY <1>4
  <2>3. count.v \in Int /\ \E h \in j .. Len(b) : count.r = Place(b, h)
    <3>1. count = readInt(Place(b, j), 4)
      BY <2>1
    <3> HIDE DEF b, count
    <3> QED
      BY <1>4, <2>2, <3>1, IntMoves, Zenon
  <2>4. PICK h \in j .. Len(b) : count.r = Place(b, h)
    BY <2>3
  <2>5. h \in 0 .. Len(b) /\ h \in Int /\ i <= h
    <3> HIDE DEF i, b
    <3> QED
      BY <1>4, <2>1
  <2>6. ~whole
    BY <1>9 DEF Lost
  <2>7. CASE Finish("error", 0)
    BY <1>7, <2>6, <2>7
  <2>8. CASE ~Finish("error", 0)
    <3>1. stage' \in {"part", "skip"} /\ reader' = Place(b, h) /\ parts' \in Int
      BY <1>3, <2>3, <2>4, <2>8
    <3>2. FrameRead'
      BY <1>1, <1>3, <2>5, <3>1, FrameKept
    <3>3. Lost'
      BY <1>4, <1>6, <1>9, <2>5, <3>1, StaysLost
    <3> QED
      BY <1>1, <1>2, <1>3, <1>8, <3>1, <3>2, <3>3, ReadsOn
  <2> QED
    BY <2>7, <2>8
<1>10. ASSUME AtTopic(k) PROVE WireInv'
  <2>0. PICK q \in Int : q = k + 1
    <3>1. k + 1 \in Int
      BY <1>2, <1>8
    <3> QED
      BY <3>1
  <2> DEFINE t == listing[q].topic
             M == Len(listing[q].parts)
             h == i + 2 + Len(t)
  <2>1. q \in 1 .. N /\ q - 1 = k /\ N - topics' = q
    <3>1. k \in 0 .. N
      BY <1>10, Zenon DEF AtTopic
    <3>2. k < N
      <4> HIDE DEF N
      <4> QED
        BY <1>2, <1>8
    <3>3. N - topics' = q
      BY <1>8, <2>0, Zenon
    <3>4. N \in Nat
      BY <1>8
    <3>5. q \in 1 .. N /\ q - 1 = k
      <4> HIDE DEF k, N
      <4> QED
        BY <2>0, <3>1, <3>2, <3>4
    <3> QED
      BY <3>3, <3>5
  <2>2. i = Places(listing)[k] /\ \A e \in Own : e[1] > q \/ (e[1] = q /\ e[2] > 0)
    <3>1. i = Places(listing)[k] /\ OwnAfter(k + 1, 0)
      BY <1>10, Zenon DEF AtTopic
    <3> HIDE DEF k
    <3> QED
      BY <2>0, <3>1 DEF OwnAfter
  <2> HIDE DEF k
  <2>3. /\ t \in Seq(Int) /\ Len(t) \in Nat /\ Len(t) <= MaxInt(2)
        /\ M \in Nat /\ M \in Ints(4)
        /\ At(Frame, i, WriteString(t)) /\ At(Frame, h, WriteInt(M, 4))
        /\ PartPlace(listing, q, 0) = i + 6 + Len(t)
    <3>1. i = Places(listing)[q - 1]
      BY <2>1, <2>2
    <3> QED
      BY <1>1, <1>4, <2>1, <3>1, FrameTopic
  <2>4. \/ ~whole /\ ~topic.ok
        \/ h \in 0 .. Len(b) /\ topic = ReadAs(t, b, h)
    <3> HIDE DEF b, t
    <3>1. \/ ~whole /\ ~readString(Place(b, i)).ok
          \/ i + 2 + Len(t) \in 0 .. Len(b) /\ readString(Place(b, i)) = ReadAs(t, b, i + 2 + Len(t))
      BY <1>1, <1>4, <2>3, ReplyString, Zenon DEF b
    <3> QED
      BY <1>4, <3>1
  <2>5. CASE ~whole /\ ~topic.ok
    BY <1>3, <1>7, <2>5
  <2>6. CASE h \in 0 .. Len(b) /\ topic = ReadAs(t, b, h)
    <3>1. topic.ok /\ topic.v = t /\ topic.r = Place(b, h)
      BY <2>6, ReadAsFacts
    <3>2. count = readInt(Place(b, h), 4)
      BY <3>1
    <3>3. \/ Len(b) - h < 4 /\ ~whole /\ count = Short(Place(b, h))
          \/ h + 4 \in 0 .. Len(b) /\ count = ReadAs(M, b, h + 4)
      <4>1. 4 \in 1 .. 8
        OBVIOUS
      <4> HIDE DEF b, h, M, count
      <4> QED
        BY <1>1, <2>3, <2>6, <3>2, <4>1, ReplyInt, Zenon DEF b
    <3>4. h \in Nat /\ i <= h /\ h \in Int /\ h + 4 = i + 6 + Len(t)
      <4> HIDE DEF i, t
      <4> QED
        BY <1>4, <2>3
    <3>5. CASE Len(b) - h < 4 /\ ~whole /\ count = Short(Place(b, h))
      <4>1. ~count.ok /\ count.r = Place(b, h) /\ count.v = 0
        BY <3>5, ShortFacts
      <4>2. CASE own
        BY <1>3, <1>7, <3>5, <4>1, <4>2
      <4>3. CASE ~own
        <5>1. stage' = "skip" /\ reader' = Place(b, h) /\ parts' = 0
          BY <1>3, <3>1, <4>1, <4>3
        <5>2. FrameRead' /\ reader'.b = b /\ reader'.i = h
          BY <1>1, <1>3, <2>6, <5>1, FrameKept
        <5>3. Lost'
          <6>1. Len(b) - h < 8
            <7> HIDE DEF b, h
            <7> QED
              BY <1>4, <3>4, <3>5
          <6>2. Len(reader'.b) - reader'.i < 8
            BY <5>2, <6>1
          <6> QED
            BY <1>6, <3>5, <6>2 DEF Lost, Remaining
        <5> QED
          BY <1>1, <1>2, <1>3, <1>8, <5>1, <5>2, <5>3, ReadsOn
      <4> QED
        BY <4>2, <4>3
    <3>6. CASE h + 4 \in 0 .. Len(b) /\ count = ReadAs(M, b, h + 4)
      <4>1. count.ok /\ count.v = M /\ count.r = Place(b, h + 4)
        BY <3>6, ReadAsFacts
      <4>2. /\ stage' = IF t = args.topic THEN "part" ELSE "skip"
            /\ reader' = Place(b, h + 4) /\ parts' = M
        BY <1>3, <3>1, <4>1
      <4>3. FrameRead' /\ reader'.i = h + 4
        BY <1>1, <1>3, <3>6, <4>2, FrameKept
      <4>4. M - M = 0 /\ 0 \in 0 .. M /\ M \in Int
        BY <2>3
      <4>5. AtPart(q, 0)'
        <5>1. stage' = "part" <=> listing'[q].topic = args'.topic
          BY <1>6, <4>2
        <5>2. reader'.i = PartPlace(listing', q, 0)
          BY <1>6, <2>3, <3>4, <4>3
        <5>3. OwnAfter(q, 0)'
          BY <1>6, <2>2 DEF OwnAfter
        <5>4. q \in 1 .. Len(listing') /\ 0 \in 0 .. Len(listing'[q].parts)
          BY <1>6, <2>1, <4>4
        <5> QED
          BY <5>1, <5>2, <5>3, <5>4, Zenon DEF AtPart
      <4>6. AtPart(N - topics, Len(listing[N - topics].parts) - parts)'
        <5>1. Len(listing') - topics' = q /\ Len(listing'[q].parts) - parts' = 0
          BY <1>6, <2>1, <4>2, <4>4
        <5> QED
          BY <4>5, <5>1
      <4>7. stage' \in {"skip", "part"}
        BY <4>2
      <4> QED
        BY <1>1, <1>2, <1>3, <1>8, <4>2, <4>3, <4>4, <4>6, <4>7, ReadsOn
    <3> QED
      BY <3>3, <3>5, <3>6
  <2> QED
    BY <2>4, <2>5, <2>6
<1> QED
  BY <1>2, <1>9, <1>10

\* A step that reads a partition over comes to the next one.
LEMMA NextPart ==
  ASSUME WireInv, stage \in {"skip", "part"}, stage' = stage,
         UNCHANGED <<args, stored, listing, meant, whole, topics>>,
         parts' = parts - 1, FrameRead',
         NEW k \in Int, NEW n \in Int, k = Len(listing) - topics,
         n = Len(listing[k].parts) - parts, parts > 0,
         Lost' \/ (/\ AtPart(k, n) /\ reader'.i = PartPlace(listing, k, n + 1)
                   /\ OwnAfter(k, n + 1))
  PROVE  WireInv'
<1>1. /\ listing \in Listings /\ stage \in {"head", "topic", "skip", "part"}
      /\ stage' \in {"topic", "skip", "part"} /\ stage' \in {"skip", "part"}
  BY ReadingState
<1>2. meant = Corr /\ topics \in Int /\ parts \in Int
  BY Zenon DEF WireInv
<1>3. /\ listing' = listing /\ topics' = topics /\ args' = args /\ Own' = Own /\ topics' \in Int
      /\ parts' \in Int
  BY <1>2, MeantKept
<1> DEFINE M == Len(listing[k].parts)
<1>4. (Lost \/ AtPart(Len(listing) - topics, Len(listing[Len(listing) - topics].parts) - parts))'
  <2>1. CASE Lost'
    BY <2>1
  <2>2. CASE /\ AtPart(k, n) /\ reader'.i = PartPlace(listing, k, n + 1) /\ OwnAfter(k, n + 1)
    <3>1. /\ k \in 1 .. Len(listing) /\ n \in 0 .. M
          /\ stage = "part" <=> listing[k].topic = args.topic
      BY <2>2, Zenon DEF AtPart
    <3>2. M \in Nat
      BY <1>1, <3>1, FrameTopic
    <3>3. M - parts' = n + 1 /\ n + 1 \in 0 .. M
      <4> HIDE DEF M
      <4>1. n = M - parts
        BY DEF M
      <4> QED
        BY <1>2, <3>1, <3>2, <4>1
    <3>4. OwnAfter(k, n + 1)'
      BY <1>3, <2>2 DEF OwnAfter
    <3>5. AtPart(k, n + 1)'
      <4>1. stage' = "part" <=> listing'[k].topic = args'.topic
        BY <1>3, <3>1
      <4>2. reader'.i = PartPlace(listing', k, n + 1)
        BY <1>3, <2>2
      <4>3. k \in 1 .. Len(listing') /\ n + 1 \in 0 .. Len(listing'[k].parts)
        BY <1>3, <3>1, <3>3
      <4> QED
        BY <3>4, <4>1, <4>2, <4>3, Zenon DEF AtPart
    <3>6. Len(listing') - topics' = k /\ Len(listing'[k].parts) - parts' = n + 1
      BY <1>3, <3>3
    <3> QED
      BY <3>5, <3>6
  <2> QED
    BY <2>1, <2>2
<1> QED
  BY <1>1, <1>2, <1>3, <1>4, ReadsOn

\* Where the fields of the partition at hand are.
LEMMA PartAhead ==
  ASSUME listing \in Listings, meant \in {Corr, Corr + 1}, FrameRead,
         NEW k \in Int, NEW n \in Int, AtPart(k, n), n < Len(listing[k].parts)
  PROVE  /\ k \in 1 .. Len(listing) /\ n + 1 \in 1 .. Len(listing[k].parts)
         /\ (n + 1) - 1 = n
         /\ PartPlace(listing, k, n + 1) = reader.i + 14
         /\ listing[k].parts[n + 1].partition \in Ints(4) /\ listing[k].parts[n + 1].code \in Ints(2)
         /\ listing[k].parts[n + 1].offset \in Ints(8)
         /\ At(Frame, reader.i, WriteInt(listing[k].parts[n + 1].partition, 4))
         /\ At(Frame, reader.i + 4, WriteInt(listing[k].parts[n + 1].code, 2))
         /\ At(Frame, reader.i + 6, WriteInt(listing[k].parts[n + 1].offset, 8))
<1> DEFINE M == Len(listing[k].parts)
<1>1. k \in 1 .. Len(listing) /\ n \in 0 .. M /\ reader.i = PartPlace(listing, k, n)
  BY Zenon DEF AtPart
<1>2. M \in Nat /\ Frame = FrameOf(listing, meant)
  BY <1>1, FrameTopic, ReadingFacts
<1>3. n + 1 \in 1 .. M /\ (n + 1) - 1 = n
  <2>1. n < M
    OBVIOUS
  <2> HIDE DEF M
  <2> QED
    BY <1>1, <1>2, <2>1
<1>4. PICK j \in 1 .. M : j = n + 1
  BY <1>3
<1>5. /\ listing[k].parts[j].partition \in Ints(4) /\ listing[k].parts[j].code \in Ints(2)
      /\ listing[k].parts[j].offset \in Ints(8)
      /\ PartPlace(listing, k, j - 1) \in Nat
      /\ PartPlace(listing, k, j) = PartPlace(listing, k, j - 1) + 14
      /\ At(Frame, PartPlace(listing, k, j - 1), WriteInt(listing[k].parts[j].partition, 4))
      /\ At(Frame, PartPlace(listing, k, j - 1) + 4, WriteInt(listing[k].parts[j].code, 2))
      /\ At(Frame, PartPlace(listing, k, j - 1) + 6, WriteInt(listing[k].parts[j].offset, 8))
  BY <1>1, <1>2, FramePart, Zenon
<1>6. j - 1 = n
  BY <1>3, <1>4
<1> QED
  BY <1>1, <1>3, <1>4, <1>5, <1>6

\* Reading over a partition moves 14 bytes, or leaves too little for an offset.
LEMMA SkipMoves ==
  ASSUME NEW b \in Seq(Int), NEW i \in 0 .. Len(b)
  PROVE  \E j \in i .. Len(b) : /\ AfterSkipped(Place(b, i)) = Place(b, j)
                                /\ j = i + 14 \/ (Len(b) - i < 14 /\ Len(b) - j < 8)
<1> DEFINE n  == Len(b)
           Step(h, w) == IF w <= n - h THEN h + w ELSE h
           x  == Step(i, 4)
           y  == Step(x, 2)
           z  == Step(y, 8)
<1>1. n \in Nat /\ i \in Nat /\ i <= n /\ 4 \in 0 .. 8 /\ 2 \in 0 .. 8 /\ 8 \in 0 .. 8
  OBVIOUS
<1>2. x \in 0 .. n /\ i <= x
  <2> HIDE DEF n
  <2> QED
    BY <1>1
<1>3. y \in 0 .. n /\ x <= y
  <2> HIDE DEF n, x
  <2> QED
    BY <1>1, <1>2
<1>4. z \in y .. n /\ y <= z
  <2> HIDE DEF n, x, y
  <2> QED
    BY <1>1, <1>3
<1>5. readInt(Place(b, i), 4).r = Place(b, x)
  BY <1>1, IntMoves
<1>6. readInt(Place(b, x), 2).r = Place(b, y)
  <2> HIDE DEF x
  <2> QED
    BY <1>1, <1>2, IntMoves
<1>7. readInt(Place(b, y), 8).r = Place(b, z)
  <2> HIDE DEF x, y
  <2> QED
    BY <1>1, <1>3, IntMoves
<1>8. AfterSkipped(Place(b, i)) = Place(b, z)
  <2> HIDE DEF x, y, z
  <2> QED
    BY <1>5, <1>6, <1>7 DEF AfterSkipped
<1>9. z \in i .. n
  <2> HIDE DEF n, x, y, z
  <2> QED
    BY <1>1, <1>2, <1>3, <1>4
<1>10. z = i + 14 \/ (n - i < 14 /\ n - z < 8)
  <2> HIDE DEF n
  <2>1. CASE n - i < 4
    <3>1. x = i
      BY <1>1, <2>1
    <3>2. n - x < 4
      BY <2>1, <3>1
    <3> HIDE DEF x
    <3>3. n - y < 4
      BY <1>1, <1>2, <1>3, <3>2
    <3> HIDE DEF y
    <3>4. z = y
      BY <1>1, <1>3, <3>3
    <3> QED
      BY <1>1, <1>3, <2>1, <3>3, <3>4
  <2>2. CASE 4 <= n - i /\ n - i < 6
    <3>1. x = i + 4
      BY <2>2
    <3> HIDE DEF x
    <3>2. y = x
      BY <1>1, <2>2, <3>1
    <3> HIDE DEF y
    <3>3. z = y
      BY <1>1, <2>2, <3>1, <3>2
    <3> QED
      BY <1>1, <2>2, <3>1, <3>2, <3>3
  <2>3. CASE 6 <= n - i
    <3>1. x = i + 4
      BY <1>1, <2>3
    <3> HIDE DEF x
    <3>2. y = i + 6
      BY <1>1, <2>3, <3>1
    <3> HIDE DEF y
    <3>3. z = IF 14 <= n - i THEN i + 14 ELSE i + 6
      BY <1>1, <2>3, <3>2
    <3> QED
      BY <1>1, <2>3, <3>3
  <2> QED
    BY <1>1, <2>1, <2>2, <2>3
<1> HIDE DEF z
<1> QED
  BY <1>8, <1>9, <1>10

\* A partition of another topic is read over to the place of the next one, or the
\* reader loses its place with too little left for an offset.
LEMMA SkipPartKeeps ==
  ASSUME WireInv, SkipPart
  PROVE  WireInv'
<1> DEFINE b == reader.b
           i == reader.i
<1>1. /\ listing \in Listings /\ meant \in {Corr, Corr + 1} /\ whole \in BOOLEAN /\ FrameRead
      /\ RecordIntact /\ stage = "skip" /\ stage \in {"skip", "part"}
  BY ReadingState DEF SkipPart
<1>2. /\ parts > 0 /\ reader' = AfterSkipped(reader) /\ parts' = parts - 1 /\ stage' = stage
      /\ UNCHANGED <<args, stored, listing, meant, whole, topics>>
  BY DEF SkipPart
<1>3. /\ topics \in Int /\ parts \in Int
      /\ Lost \/ AtPart(Len(listing) - topics, Len(listing[Len(listing) - topics].parts) - parts)
  BY <1>1, Zenon DEF WireInv
<1>4. /\ b \in Seq(Int) /\ reader = Place(b, i) /\ i \in 0 .. Len(b) /\ Len(b) \in Nat /\ i \in Nat
      /\ Frame = FrameOf(listing, meant) /\ Frame \in Seq(Int) /\ (whole => b = Frame)
  BY <1>1, ReadingFacts
<1>5. PICK j \in i .. Len(b) : /\ AfterSkipped(Place(b, i)) = Place(b, j)
                               /\ j = i + 14 \/ (Len(b) - i < 14 /\ Len(b) - j < 8)
  BY <1>4, SkipMoves
<1>6. j \in 0 .. Len(b) /\ j \in Int /\ i <= j
  <2> HIDE DEF b, i
  <2> QED
    BY <1>4
<1>7. reader' = Place(b, j)
  BY <1>2, <1>4, <1>5
<1>8. FrameRead' /\ reader'.b = b /\ reader'.i = j
  BY <1>1, <1>2, <1>6, <1>7, FrameKept
<1>9. Len(listing) - topics \in Int /\ Len(listing) \in Nat
  <2>1. Len(listing) \in Nat
    BY <1>1, ListingType
  <2> QED
    BY <1>3, <2>1
<1>10. PICK k \in Int : k = Len(listing) - topics
  BY <1>9
<1>11. CASE Lost
  <2>1. Lost'
    BY <1>2, <1>4, <1>6, <1>7, <1>11, StaysLost
  <2> DEFINE n == Len(listing[k].parts) - parts
  <2> QED
    <3>1. RecordIntact'
      BY <1>1, <1>2, RecordKept
    <3>2. meant = Corr /\ parts' \in Int /\ topics' \in Int
      BY <1>1, <1>2, <1>3 DEF WireInv
    <3> QED
      BY <1>1, <1>2, <1>8, <2>1, <3>2, ReadsOn
<1>12. CASE ~Lost
  <2>1. AtPart(k, Len(listing[k].parts) - parts)
    BY <1>3, <1>10, <1>12
  <2>2. k \in 1 .. Len(listing) /\ stage = "part" <=> listing[k].topic = args.topic
    BY <2>1, Zenon DEF AtPart
  <2>3. Len(listing[k].parts) \in Nat
    BY <1>1, <2>2, FrameTopic
  <2>4. Len(listing[k].parts) - parts \in Int
    BY <1>3, <2>3
  <2>5. PICK n \in Int : n = Len(listing[k].parts) - parts
    BY <2>4
  <2>6. AtPart(k, n) /\ n < Len(listing[k].parts)
    BY <1>2, <1>3, <2>1, <2>3, <2>5
  <2>7. PartPlace(listing, k, n + 1) = i + 14 /\ OwnAfter(k, n)
    BY <1>1, <2>6, PartAhead DEF AtPart
  <2>8. OwnAfter(k, n + 1)
    <3>1. ASSUME NEW e \in Own PROVE e[1] > k
      <4>1. e[1] > k \/ e[1] = k
        BY <2>7 DEF OwnAfter
      <4>2. listing[e[1]].topic = args.topic
        BY OwnType
      <4>3. listing[k].topic # args.topic
        BY <1>1, <2>2
      <4> QED
        BY <4>1, <4>2, <4>3
    <3> QED
      BY <3>1 DEF OwnAfter
  <2>9. CASE j = i + 14
    BY <1>1, <1>2, <1>8, <1>10, <2>5, <2>6, <2>7, <2>8, <2>9, NextPart
  <2>10. CASE Len(b) - i < 14 /\ Len(b) - j < 8
    <3>1. ~whole
      <4> DEFINE w == WriteInt(listing[k].parts[n + 1].offset, 8)
      <4>1. At(Frame, i + 6, w) /\ listing[k].parts[n + 1].offset \in Ints(8)
        BY <1>1, <2>6, PartAhead
      <4>2. Len(w) = 8
        <5>1. 8 \in 0 .. 8 /\ Ints(8) \subseteq Int
          BY WidthFacts
        <5> QED
          BY <4>1, <5>1, WriteIntType
      <4>3. i + 6 + Len(w) <= Len(Frame)
        BY <4>1, Zenon DEF At
      <4> HIDE DEF w
      <4>4. b # Frame
        <5> HIDE DEF b, i
        <5> QED
          BY <1>4, <2>10, <4>2, <4>3
      <4> QED
        BY <1>4, <4>4
    <3>2. Lost'
      <4>1. Len(reader'.b) - reader'.i < 8
        BY <1>8, <2>10
      <4> QED
        BY <1>2, <3>1, <4>1 DEF Lost, Remaining
    <3> QED
      BY <1>1, <1>2, <1>8, <1>10, <2>5, <3>2, NextPart
  <2> QED
    BY <1>5, <2>9, <2>10
<1> QED
  BY <1>11, <1>12

\* Of the topic asked for, the first partition that is the call's is its answer.
LEMMA ReadPartKeeps ==
  ASSUME WireInv, ReadPart
  PROVE  WireInv'
<1> DEFINE b      == reader.b
           i      == reader.i
           part   == readInt(reader, 4)
           code   == readInt(part.r, 2)
           offset == readInt(code.r, 8)
<1>1. /\ listing \in Listings /\ meant \in {Corr, Corr + 1} /\ whole \in BOOLEAN /\ FrameRead
      /\ RecordIntact /\ stage = "part" /\ stage \in {"skip", "part"}
      /\ stage \notin {"idle", "written", "closing"}
  BY ReadingState DEF ReadPart
<1>2. /\ parts > 0 /\ parts' = parts - 1
      /\ UNCHANGED <<args, stored, listing, meant, whole, topics>>
      /\ IF PartFails(part, code, offset) THEN Finish("error", 0) /\ UNCHANGED reader
         ELSE IF part.v # args.partition THEN reader' = offset.r /\ UNCHANGED <<stage, returned>>
         ELSE IF code.v # 0 THEN Finish("error", 0) /\ UNCHANGED reader
         ELSE Finish("offset", offset.v) /\ UNCHANGED reader
  BY DEF ReadPart
<1>3. /\ topics \in Int /\ parts \in Int /\ meant = Corr
      /\ Lost \/ AtPart(Len(listing) - topics, Len(listing[Len(listing) - topics].parts) - parts)
  BY <1>1, Zenon DEF WireInv
<1>4. /\ b \in Seq(Int) /\ reader = Place(b, i) /\ i \in 0 .. Len(b) /\ Len(b) \in Nat /\ i \in Nat
  BY <1>1, ReadingFacts
<1>5. RecordIntact'
  BY <1>1, <1>2, RecordKept
<1>6. Meant' = Meant /\ whole' = whole
  BY <1>2, MeantKept
<1>7. ASSUME PartFails(part, code, offset), ~whole PROVE WireInv'
  <2>1. stage' = "done" /\ returned' = [kind |-> "error", offset |-> 0]
    BY <1>2, <1>7 DEF Finish
  <2>2. ReplyReadAsMeant'
    BY <1>6, <1>7, <2>1, CutShort
  <2> QED
    BY <1>5, <2>1, <2>2, Ended
<1>8. CASE Lost
  <2> DEFINE n == Len(b)
             x == IF 4 <= n - i THEN i + 4 ELSE i
             y == IF 2 <= n - x THEN x + 2 ELSE x
  <2>1. ~whole /\ n - i < 8
    BY <1>4, <1>8, ReadingFacts, <1>1 DEF Lost
  <2>2. 4 \in 0 .. 8 /\ 2 \in 0 .. 8 /\ 8 \in 0 .. 8
    OBVIOUS
  <2>3. part.r = Place(b, x) /\ (part.ok <=> 4 <= n - i)
    <3>1. part = readInt(Place(b, i), 4)
      BY <1>4
    <3> HIDE DEF part, b, i
    <3> QED
      BY <1>4, <2>2, <3>1, IntMoves
  <2>4. x \in 0 .. n
    <3> HIDE DEF n, i
    <3> QED
      BY <1>4 DEF n
  <2>5. code.r = Place(b, y) /\ (code.ok <=> 2 <= n - x)
    <3>1. code = readInt(Place(b, x), 2)
      BY <2>3
    <3> HIDE DEF code, x, b
    <3> QED
      BY <1>4, <2>2, <2>4, <3>1, IntMoves
  <2>6. y \in 0 .. n
    <3>1. n \in Nat
      BY <1>4
    <3> HIDE DEF n, x
    <3> QED
      BY <2>4, <3>1
  <2>7. offset.ok <=> 8 <= n - y
    <3>1. offset = readInt(Place(b, y), 8)
      BY <2>5
    <3> HIDE DEF offset, y, b
    <3> QED
      BY <1>4, <2>2, <2>6, <3>1, IntMoves
  <2>8. ~(part.ok /\ code.ok /\ offset.ok)
    <3> SUFFICES ASSUME 4 <= n - i, 2 <= n - x, 8 <= n - y PROVE FALSE
      BY <2>3, <2>5, <2>7
    <3>1. n \in Nat /\ i \in Nat
      BY <1>4
    <3> HIDE DEF n, i
    <3> QED
      BY <2>1, <3>1
  <2> QED
    BY <1>7, <2>1, <2>8 DEF PartFails
<1>9. CASE ~Lost
  <2>1. Len(listing) - topics \in Int
    <3>1. Len(listing) \in Nat
      BY <1>1, ListingType
    <3> QED
      BY <1>3, <3>1
  <2>2. PICK k \in Int : k = Len(listing) - topics
    BY <2>1
  <2>3. AtPart(k, Len(listing[k].parts) - parts)
    BY <1>3, <1>9, <2>2
  <2>4. k \in 1 .. Len(listing) /\ listing[k].topic = args.topic
    BY <1>1, <2>3, Zenon DEF AtPart
  <2>5. Len(listing[k].parts) \in Nat /\ Len(listing) \in Nat
    BY <1>1, <2>4, FrameTopic, ListingType
  <2>6. Len(listing[k].parts) - parts \in Int
    BY <1>3, <2>5
  <2>7. PICK n \in Int : n = Len(listing[k].parts) - parts
    BY <2>6
  <2>8. AtPart(k, n) /\ n < Len(listing[k].parts)
    BY <1>2, <1>3, <2>3, <2>5, <2>7
  <2>9. PICK p : p = listing[k].parts[n + 1]
    OBVIOUS
  <2>10. /\ n + 1 \in 1 .. Len(listing[k].parts) /\ (n + 1) - 1 = n
         /\ PartPlace(listing, k, n + 1) = i + 14
         /\ p.partition \in Ints(4) /\ p.code \in Ints(2) /\ p.offset \in Ints(8)
         /\ At(Frame, i, WriteInt(p.partition, 4)) /\ At(Frame, i + 4, WriteInt(p.code, 2))
         /\ At(Frame, i + 6, WriteInt(p.offset, 8))
    BY <1>1, <2>8, <2>9, PartAhead
  <2>11. OwnAfter(k, n)
    BY <2>8, Zenon DEF AtPart
  <2>12. \/ ~whole /\ part = Short(reader)
         \/ i + 4 \in 0 .. Len(b) /\ part = ReadAs(p.partition, b, i + 4)
    <3>1. 4 \in 1 .. 8
      OBVIOUS
    <3> HIDE DEF b, i
    <3> QED
      BY <1>1, <1>4, <2>10, <3>1, ReplyInt, Zenon DEF b
  <2>13. CASE ~whole /\ part = Short(reader)
    BY <1>7, <2>13, ShortFacts DEF PartFails
  <2>14. CASE i + 4 \in 0 .. Len(b) /\ part = ReadAs(p.partition, b, i + 4)
    <3>1. part.ok /\ part.v = p.partition /\ code = readInt(Place(b, i + 4), 2)
      BY <2>14, ReadAsFacts
    <3>2. (i + 4) + 2 = i + 6 /\ (i + 6) + 8 = i + 14 /\ 2 \in 1 .. 8 /\ 8 \in 1 .. 8
      <4> HIDE DEF i
      <4> QED
        BY <1>4
    <3>3. \/ ~whole /\ code = Short(Place(b, i + 4))
          \/ i + 6 \in 0 .. Len(b) /\ code = ReadAs(p.code, b, i + 6)
      <4> DEFINE h == i + 4
      <4>1. \/ ~whole /\ readInt(Place(b, h), 2) = Short(Place(b, h))
            \/ h + 2 \in 0 .. Len(b) /\ readInt(Place(b, h), 2) = ReadAs(p.code, b, h + 2)
        <5>1. h \in 0 .. Len(reader.b) /\ At(Frame, h, WriteInt(p.code, 2)) /\ 2 \in 1 .. 8
          BY <2>10, <2>14, <3>2
        <5> HIDE DEF h
        <5> QED
          BY <1>1, <2>10, <5>1, ReplyInt, Zenon
      <4> QED
        BY <3>1, <3>2, <4>1
    <3>4. CASE ~whole /\ code = Short(Place(b, i + 4))
      BY <1>7, <3>4, ShortFacts DEF PartFails
    <3>5. CASE i + 6 \in 0 .. Len(b) /\ code = ReadAs(p.code, b, i + 6)
      <4>1. code.ok /\ code.v = p.code /\ offset = readInt(Place(b, i + 6), 8)
        BY <3>5, ReadAsFacts
      <4>2. \/ ~whole /\ offset = Short(Place(b, i + 6))
            \/ i + 14 \in 0 .. Len(b) /\ offset = ReadAs(p.offset, b, i + 14)
        <5> DEFINE h == i + 6
        <5>1. \/ ~whole /\ readInt(Place(b, h), 8) = Short(Place(b, h))
              \/ h + 8 \in 0 .. Len(b) /\ readInt(Place(b, h), 8) = ReadAs(p.offset, b, h + 8)
          <6>1. h \in 0 .. Len(reader.b) /\ At(Frame, h, WriteInt(p.offset, 8)) /\ 8 \in 1 .. 8
            BY <2>10, <3>5, <3>2
          <6> HIDE DEF h
          <6> QED
            BY <1>1, <2>10, <6>1, ReplyInt, Zenon
        <5> QED
          BY <3>2, <4>1, <5>1
      <4>3. CASE ~whole /\ offset = Short(Place(b, i + 6))
        BY <1>7, <4>3, ShortFacts DEF PartFails
      <4>4. CASE i + 14 \in 0 .. Len(b) /\ offset = ReadAs(p.offset, b, i + 14)
        <5>1. offset.ok /\ offset.v = p.offset /\ offset.r = Place(b, i + 14)
          BY <4>4, ReadAsFacts
        <5>2. IF p.partition # args.partition
              THEN reader' = Place(b, i + 14) /\ UNCHANGED <<stage, returned>>
              ELSE IF p.code # 0 THEN Finish("error", 0)
              ELSE Finish("offset", p.offset)
          BY <1>2, <3>1, <4>1, <5>1 DEF PartFails
        <5>3. CASE p.partition # args.partition
          <6>1. reader' = Place(b, i + 14) /\ stage' = stage
            BY <5>2, <5>3
          <6>2. FrameRead' /\ reader'.i = i + 14
            BY <1>1, <1>2, <4>4, <6>1, FrameKept
          <6>3. OwnAfter(k, n + 1)
            <7>1. ASSUME NEW e \in Own PROVE e[1] > k \/ (e[1] = k /\ e[2] > n + 1)
              <8>1. e[1] > k \/ (e[1] = k /\ e[2] > n)
                BY <2>11 DEF OwnAfter
              <8>2. /\ e[1] \in 1 .. Len(listing) /\ e[2] \in 1 .. Len(listing[e[1]].parts)
                    /\ listing[e[1]].parts[e[2]].partition = args.partition
                BY OwnType
              <8>3. CASE e[1] = k /\ e[2] > n
                <9>1. e[2] # n + 1
                  BY <2>9, <5>3, <8>2, <8>3
                <9>2. e[2] \in Int
                  BY <2>5, <8>2, <8>3
                <9> QED
                  BY <8>3, <9>1, <9>2
              <8> QED
                BY <8>1, <8>3
            <7> QED
              BY <7>1 DEF OwnAfter
          <6> QED
            BY <1>1, <1>2, <2>2, <2>7, <2>8, <2>10, <6>1, <6>2, <6>3, NextPart
        <5>4. CASE p.partition = args.partition
          <6>1. Meant = IF p.code = 0 THEN [kind |-> "offset", offset |-> p.offset]
                        ELSE [kind |-> "error", offset |-> 0]
            <7>1. PICK j \in 1 .. Len(listing[k].parts) : j = n + 1
              BY <2>10
            <7>2. OwnAfter(k, j - 1) /\ listing[k].parts[j].partition = args.partition
              BY <2>9, <2>10, <2>11, <5>4, <7>1
            <7>3. \A e \in Own : Len(listing[e[1]].parts) \in Nat
              <8>1. ASSUME NEW e \in Own PROVE Len(listing[e[1]].parts) \in Nat
                <9>1. e[1] \in 1 .. Len(listing)
                  BY OwnType
                <9> QED
                  BY <1>1, <9>1, FrameTopic
              <8> QED
                BY <8>1
            <7>4. Meant = IF listing[k].parts[j].code = 0
                          THEN [kind |-> "offset", offset |-> listing[k].parts[j].offset]
                          ELSE [kind |-> "error", offset |-> 0]
              BY <1>3, <2>4, <2>5, <7>2, <7>3, MeantIs
            <7> QED
              BY <2>9, <7>1, <7>4
          <6>2. stage' = "done" /\ returned' = Meant
            BY <5>2, <5>4, <6>1 DEF Finish
          <6>3. ReplyReadAsMeant'
            BY <1>6, <6>2 DEF ReplyReadAsMeant
          <6> QED
            BY <1>5, <6>2, <6>3, Ended
        <5> QED
          BY <5>3, <5>4
      <4> QED
        BY <4>2, <4>3, <4>4
    <3> QED
      BY <3>3, <3>4, <3>5
  <2> QED
    BY <2>12, <2>13, <2>14
<1> QED
  BY <1>8, <1>9

\* The last partition of a topic ends where the next topic begins.
LEMMA TopicEndsKeeps ==
  ASSUME WireInv, TopicEnds
  PROVE  WireInv'
<1>1. /\ listing \in Listings /\ meant \in {Corr, Corr + 1} /\ whole \in BOOLEAN /\ FrameRead
      /\ stage \in {"skip", "part"} /\ stage \in {"head", "topic", "skip", "part"}
  BY ReadingState DEF TopicEnds
<1>2. /\ parts <= 0 /\ stage' = "topic" /\ reader' = reader /\ parts' = parts /\ topics' = topics
      /\ UNCHANGED <<args, stored, listing, meant, whole>>
  BY DEF TopicEnds
<1>3. /\ topics \in Int /\ parts \in Int /\ meant = Corr
      /\ Lost \/ AtPart(Len(listing) - topics, Len(listing[Len(listing) - topics].parts) - parts)
  BY <1>1, Zenon DEF WireInv
<1>4. Own' = Own /\ listing' = listing /\ whole' = whole /\ Frame' = Frame /\ meant' = meant
  BY <1>2, MeantKept
<1>5. FrameRead'
  BY <1>1, <1>2, <1>4 DEF FrameRead
<1>6. (Lost \/ AtTopic(Len(listing) - topics))'
  <2>1. CASE Lost
    BY <1>2, <2>1 DEF Lost
  <2>2. CASE ~Lost
    <3>1. Len(listing) - topics \in Int /\ Len(listing) \in Nat
      <4>1. Len(listing) \in Nat
        BY <1>1, ListingType
      <4> QED
        BY <1>3, <4>1
    <3>2. PICK k \in Int : k = Len(listing) - topics
      BY <3>1
    <3> DEFINE M == Len(listing[k].parts)
    <3>3. AtPart(k, M - parts)
      BY <1>3, <2>2, <3>2
    <3>4. /\ k \in 1 .. Len(listing) /\ M - parts \in 0 .. M
          /\ reader.i = PartPlace(listing, k, M - parts) /\ OwnAfter(k, M - parts)
      BY <3>3, Zenon DEF AtPart
    <3>5. M \in Nat /\ PartPlace(listing, k, M) = Places(listing)[k]
      BY <1>1, <3>4, FrameTopic
    <3>6. M - parts = M
      <4> HIDE DEF M
      <4> QED
        BY <1>2, <1>3, <3>4, <3>5
    <3>7. ASSUME NEW e \in Own PROVE e[1] > k + 1 \/ (e[1] = k + 1 /\ e[2] > 0)
      <4>1. e[1] \in 1 .. Len(listing) /\ e[2] \in 1 .. Len(listing[e[1]].parts)
        BY OwnType
      <4>2. e[1] > k \/ (e[1] = k /\ e[2] > M)
        BY <3>4, <3>6 DEF OwnAfter
      <4>3. e[1] # k
        <5> SUFFICES ASSUME e[1] = k PROVE FALSE
          OBVIOUS
        <5>1. e[2] \in 1 .. M /\ e[2] > M
          BY <4>1, <4>2
        <5> HIDE DEF M
        <5> QED
          BY <3>5, <5>1
      <4>4. e[2] > 0
        BY <4>1
      <4> QED
        BY <3>1, <4>1, <4>2, <4>3, <4>4
    <3>8. OwnAfter(k + 1, 0)'
      BY <1>4, <3>7 DEF OwnAfter
    <3>9. AtTopic(k)'
      <4>1. k \in 0 .. Len(listing') /\ reader'.i = Places(listing')[k]
        BY <1>2, <1>4, <3>1, <3>4, <3>5, <3>6
      <4> QED
        BY <3>8, <4>1 DEF AtTopic
    <3>10. Len(listing') - topics' = k
      BY <1>2, <1>4, <3>2
    <3> QED
      BY <3>9, <3>10
  <2> QED
    BY <2>1, <2>2
<1> QED
  BY <1>1, <1>2, <1>3, <1>5, <1>6, ReadsOn

\* With no topic left, no entry of the call was in the reply.
LEMMA MissingKeeps ==
  ASSUME WireInv, Missing
  PROVE  WireInv'
<1>1. /\ listing \in Listings /\ RecordIntact /\ stage = "topic"
      /\ stage \notin {"idle", "written", "closing"} /\ stage \in {"head", "topic", "skip", "part"}
  BY ReadingState DEF Missing
<1>2. /\ topics <= 0 /\ stage' = "done" /\ returned' = [kind |-> "error", offset |-> 0]
      /\ UNCHANGED <<args, stored, listing, meant, whole>>
  BY DEF Missing, Finish
<1>3. topics \in Int /\ (Lost \/ AtTopic(Len(listing) - topics))
  BY <1>1, Zenon DEF WireInv
<1>4. RecordIntact'
  BY <1>1, <1>2, RecordKept
<1>5. Meant' = Meant /\ whole' = whole
  BY <1>2, MeantKept
<1>6. CASE Lost
  <2>1. ~whole'
    BY <1>5, <1>6 DEF Lost
  <2>2. ReplyReadAsMeant'
    BY <1>2, <2>1, CutShort
  <2> QED
    BY <1>2, <1>4, <2>2, Ended
<1>7. CASE ~Lost
  <2>1. Len(listing) \in Nat
    BY <1>1, ListingType
  <2> DEFINE N == Len(listing)
             k == N - topics
  <2>2. k \in 0 .. N /\ OwnAfter(k + 1, 0)
    BY <1>3, <1>7, Zenon DEF AtTopic
  <2>3. k + 1 > N
    <3> HIDE DEF N
    <3> QED
      BY <1>2, <1>3, <2>1 DEF N
  <2>4. Own = {}
    <3> SUFFICES ASSUME NEW e \in Own PROVE FALSE
      OBVIOUS
    <3>1. e[1] \in 1 .. N
      BY OwnType
    <3>2. e[1] > k + 1 \/ e[1] = k + 1
      BY <2>2 DEF OwnAfter
    <3>3. k \in Int /\ N \in Nat
      BY <2>1, <2>2
    <3> HIDE DEF k, N
    <3> QED
      BY <2>3, <3>1, <3>2, <3>3
  <2>5. Meant = [kind |-> "error", offset |-> 0]
    BY <2>4 DEF Meant
  <2>6. ReplyReadAsMeant'
    BY <1>2, <1>5, <2>5 DEF ReplyReadAsMeant
  <2> QED
    BY <1>2, <1>4, <2>6, Ended
<1> QED
  BY <1>6, <1>7

\* Before the call.
LEMMA WireInitHolds == WireInit => WireInv
BY DEF WireInit, WireInv, RecordIntact, ReplyReadAsMeant

\* The request is sent, or is too large to be.
LEMMA WriteProduceKeeps ==
  ASSUME WireInv, NEW c \in Calls, WriteProduce(c)
  PROVE  WireInv'
<1>1. args' = c /\ stored' = stored
  BY DEF WriteProduce
<1>2. CASE TooLarge(RequestBody(c))
  <2>1. stage' = "closing"
    BY <1>2 DEF WriteProduce, CloseAndFail
  <2> QED
    BY <2>1 DEF WireInv, RecordIntact, ReplyReadAsMeant
<1>3. CASE ~TooLarge(RequestBody(c))
  <2>1. stage' = "written" /\ sent' = WriteFrame(RequestBody(c))
    BY <1>3 DEF WriteProduce
  <2> QED
    BY <1>1, <1>3, <2>1 DEF WireInv, RecordIntact, ReplyReadAsMeant
<1> QED
  BY <1>2, <1>3

\* The broker reads the record of the call, or none of another topic.
LEMMA BrokerReadsKeeps ==
  ASSUME WireInv, BrokerReads
  PROVE  WireInv'
<1>1. /\ args \in Calls /\ ~TooLarge(RequestBody(args)) /\ sent = WriteFrame(RequestBody(args))
      /\ stage' = "read" /\ args' = args /\ stored' = Received(ReadFrame(sent).v)
  BY DEF WireInv, BrokerReads
<1>2. RequestBody(args) \in Seq(Int)
  BY <1>1, RequestLayout
<1>3. ReadFrame(sent) = Got(RequestBody(args), <<>>)
  BY <1>1, <1>2, FrameReadBack
<1>4. stored' = Received(RequestBody(args))
  BY <1>1, <1>3 DEF Got
<1> DEFINE n == Len(args.topic)
<1>5. n \in Nat /\ MaxInt(2) \in Nat
  <2>1. args.topic \in Seq(Int)
    BY <1>1, CallsAssumption
  <2> QED
    BY <2>1, WidthFacts
<1> DEFINE s == Received(RequestBody(args))
<1>6. \/ /\ s.topic = args.topic /\ s.partition = args.partition
         /\ s.values = <<args.value>> /\ s.header = WrittenHeader
      \/ /\ n > MaxInt(2) /\ s.topic = <<>>
         /\ Len(encodeMessageSetV1(args.value)) < Pow[2] => s = NoRecord
  <2>1. CASE n <= MaxInt(2)
    <3>1. s = [topic |-> args.topic, partition |-> args.partition, values |-> <<args.value>>,
               header |-> WrittenHeader]
      BY <1>1, <2>1, ReceivedFits
    <3> HIDE DEF s
    <3> QED
      BY <3>1
  <2>2. CASE n > MaxInt(2)
    BY <1>1, <2>2, ReceivedLong
  <2>3. n <= MaxInt(2) \/ n > MaxInt(2)
    <3> HIDE DEF n
    <3> QED
      BY <1>5
  <2> QED
    BY <2>1, <2>2, <2>3
<1> HIDE DEF s
<1>7. RecordIntact'
  <2>1. stored' = s
    BY <1>4 DEF s
  <2>2. \/ /\ stored'.topic = args'.topic /\ stored'.partition = args'.partition
           /\ stored'.values = <<args'.value>>
           /\ stored'.header = [apiKey |-> 0, apiVersion |-> 1,
                                correlationID |-> Corr, clientID |-> ClientID]
        \/ /\ Len(args'.topic) > MaxInt(2) /\ stored'.topic = <<>>
           /\ Len(encodeMessageSetV1(args'.value)) < Pow[2] => stored' = NoRecord
    BY <1>1, <1>6, <2>1 DEF WrittenHeader
  <2> QED
    BY <2>2 DEF RecordIntact
<1>8. ReplyReadAsMeant'
  BY <1>1 DEF ReplyReadAsMeant
<1> QED
  BY <1>1, <1>7, <1>8 DEF WireInv

\* A reply leaves what the broker stored alone.
LEMMA RepliesKeeps ==
  ASSUME WireInv, NEW l \in Listings, NEW id \in {Corr, Corr + 1}, NEW bytes,
         NEW intact \in BOOLEAN,
         Replies(l, id, bytes, intact),
         LET F == FrameOf(l, id) IN
           \/ intact /\ bytes = WriteFrame(F)
           \/ /\ ~intact /\ id = Corr
              /\ \/ \E n \in 0 .. Len(WriteFrame(F)) - 1 : bytes = SubSeq(WriteFrame(F), 1, n)
                 \/ \E n \in 0 .. Len(Listed(l)) - 1 :
                      bytes = WriteFrame(WriteInt(id, 4) \o SubSeq(Listed(l), 1, n))
  PROVE  WireInv'
<1>1. /\ stage = "read" /\ stage' = "replied" /\ listing' = l /\ meant' = id /\ whole' = intact
      /\ arrived' = bytes /\ args' = args /\ stored' = stored
  BY DEF Replies
<1>2. Frame' = FrameOf(l, id)
  BY <1>1 DEF Frame, FrameOf
<1>3. Replied'
  <2>1. \/ whole' /\ arrived' = WriteFrame(Frame')
        \/ /\ ~whole' /\ meant' = Corr
           /\ \/ \E n \in 0 .. Len(WriteFrame(Frame')) - 1 : arrived' = SubSeq(WriteFrame(Frame'), 1, n)
              \/ \E n \in 0 .. Len(Listed(listing')) - 1 :
                   arrived' = WriteFrame(WriteInt(meant', 4) \o SubSeq(Listed(listing'), 1, n))
    BY <1>1, <1>2
  <2> QED
    BY <2>1, Zenon DEF Replied
<1>4. RecordIntact'
  <2>1. RecordIntact /\ stage \notin {"idle", "written", "closing"}
    BY <1>1 DEF WireInv
  <2> QED
    BY <1>1, <2>1, RecordKept
<1>5. ReplyReadAsMeant'
  BY <1>1 DEF ReplyReadAsMeant
<1> QED
  BY <1>1, <1>3, <1>4, <1>5 DEF WireInv

\* The broker's replies: whole, cut by the connection, and too short a frame.
LEMMA ReplyKeeps ==
  ASSUME WireInv, NEW l \in Listings, NEW id \in {Corr, Corr + 1},
         ReplyWhole(l, id) \/ ReplyCut(l) \/ ReplyShort(l)
  PROVE  WireInv'
<1>0. Corr \in {Corr, Corr + 1} /\ Corr \in Int
  BY DEF Corr
<1>1. CASE ReplyWhole(l, id)
  <2>1. Replies(l, id, WriteFrame(FrameOf(l, id)), TRUE)
    BY <1>1, FrameLayout DEF ReplyWhole
  <2> QED
    BY <2>1, RepliesKeeps
<1>2. CASE ReplyCut(l)
  <2>1. encodeResponse(Corr, Listed(l)) = WriteFrame(FrameOf(l, Corr))
    BY <1>0, FrameLayout
  <2>2. PICK n \in 0 .. Len(WriteFrame(FrameOf(l, Corr))) - 1 :
          Replies(l, Corr, SubSeq(WriteFrame(FrameOf(l, Corr)), 1, n), FALSE)
    BY <1>2, <2>1, Zenon DEF ReplyCut
  <2> QED
    BY <1>0, <2>2, RepliesKeeps
<1>3. CASE ReplyShort(l)
  <2>1. PICK n \in 0 .. Len(Listed(l)) - 1 :
          Replies(l, Corr, encodeResponse(Corr, SubSeq(Listed(l), 1, n)), FALSE)
    BY <1>3, Zenon DEF ReplyShort
  <2>2. Listed(l) \in Seq(Int)
    BY ListedLayout
  <2>3. n \in 0 .. Len(Listed(l))
    BY <2>2
  <2>4. SubSeq(Listed(l), 1, n) \in Seq(Int)
    BY <2>2, <2>3, CutBegins
  <2>5. encodeResponse(Corr, SubSeq(Listed(l), 1, n))
          = WriteFrame(WriteInt(Corr, 4) \o SubSeq(Listed(l), 1, n))
    BY <1>0, <2>4, ResponseFrame, Zenon
  <2> QED
    BY <1>0, <2>1, <2>5, RepliesKeeps
<1> QED
  BY <1>1, <1>2, <1>3

\* A frame that ends within what it lists begins as the one that was meant.
LEMMA ShortFrame ==
  ASSUME NEW l \in Listings, NEW n \in 0 .. Len(Listed(l)) - 1
  PROVE  LET x == WriteInt(Corr, 4) \o SubSeq(Listed(l), 1, n) IN
         x \in Seq(Int) /\ ~TooLarge(x) /\ Begins(x, FrameOf(l, Corr))
<1> DEFINE p == Listed(l)
           q == SubSeq(p, 1, n)
           a == WriteInt(Corr, 4)
           x == a \o q
           F == FrameOf(l, Corr)
<1>1. Corr \in {Corr, Corr + 1} /\ Corr \in Int /\ 4 \in 0 .. 8
  BY DEF Corr
<1>2. p \in Seq(Int) /\ F \in Seq(Int) /\ Len(F) = 4 + Len(p) /\ ~TooLarge(F) /\ F = a \o p
  BY <1>1, ListedLayout, FrameLayout, Zenon DEF FrameOf
<1>3. n \in 0 .. Len(p) /\ n \in Nat /\ n < Len(p)
  BY <1>2
<1>4. q \in Seq(Int) /\ Len(q) = n /\ Begins(q, p)
  BY <1>2, <1>3, CutBegins
<1>5. a \in Seq(Int) /\ Len(a) = 4
  BY <1>1, WriteIntType, Zenon
<1> HIDE DEF p, q, a, F
<1>6. x \in Seq(Int) /\ Len(x) = Len(a) + Len(q) /\ At(x, 0, a) /\ At(x, Len(a), q)
  BY <1>4, <1>5, Joined
<1>7. a \o p \in Seq(Int) /\ At(a \o p, 0, a) /\ At(a \o p, Len(a), p)
  BY <1>2, <1>5, Joined
<1>8. At(F, 0, a) /\ At(F, 4, p)
  BY <1>2, <1>5, <1>7
<1> HIDE DEF x
<1>9. Len(x) = 4 + n /\ At(x, 4, q)
  BY <1>4, <1>5, <1>6
<1>10. ASSUME NEW k \in 1 .. Len(x) PROVE x[k] = F[k]
  <2>1. k \in 1 .. 4 + n
    BY <1>9
  <2>2. CASE k <= 4
    <3>1. k \in 1 .. Len(a) /\ 0 + k = k
      BY <1>5, <2>1, <2>2
    <3>2. x[0 + k] = a[k] /\ F[0 + k] = a[k]
      BY <1>6, <1>8, <3>1, Zenon DEF At
    <3> QED
      BY <3>1, <3>2
  <2>3. CASE k > 4
    <3>1. k - 4 \in 1 .. Len(q) /\ k - 4 \in 1 .. Len(p) /\ 4 + (k - 4) = k
      BY <1>2, <1>3, <1>4, <2>1, <2>3
    <3>2. x[4 + (k - 4)] = q[k - 4] /\ F[4 + (k - 4)] = p[k - 4]
      BY <1>8, <1>9, <3>1, Zenon DEF At
    <3>3. q[k - 4] = p[k - 4]
      BY <1>4, <3>1, Zenon DEF Begins
    <3> QED
      BY <3>1, <3>2, <3>3
  <2> QED
    BY <2>1, <2>2, <2>3
<1>11. Len(x) <= Len(F)
  BY <1>2, <1>3, <1>9
<1>12. Begins(x, F)
  BY <1>10, <1>11 DEF Begins
<1>13. ~TooLarge(x)
  <2>1. MaxInt(4) \in Nat /\ Len(F) \in Nat /\ Len(x) \in Nat
    BY <1>2, <1>6, WidthFacts
  <2> QED
    BY <1>2, <1>11, <2>1 DEF TooLarge
<1> QED
  BY <1>6, <1>12, <1>13 DEF x, a, q, p, F

\* The frame that is read is the one that was meant, or the beginning of it.
LEMMA ReceiveReplyKeeps ==
  ASSUME WireInv, ReceiveReply
  PROVE  WireInv'
<1> DEFINE f == ReadFrame(arrived)
<1>1. /\ stage = "replied" /\ listing \in Listings /\ meant \in {Corr, Corr + 1}
      /\ whole \in BOOLEAN /\ Replied /\ RecordIntact
  BY Zenon DEF ReceiveReply, WireInv
<1>2. /\ IF f.ok THEN reader' = Reader(f.v) /\ stage' = "head" /\ UNCHANGED returned
                 ELSE CloseAndFail /\ UNCHANGED reader
      /\ UNCHANGED <<args, sent, stored, listing, meant, whole, topics, parts>>
  BY DEF ReceiveReply
<1>3. stage' \in {"head", "closing"}
  BY <1>2 DEF CloseAndFail
<1>4. RecordIntact'
  <2>1. stage \notin {"idle", "written", "closing"}
    BY <1>1
  <2> QED
    BY <1>1, <1>2, <2>1, RecordKept
<1>5. ReplyReadAsMeant'
  BY <1>3 DEF ReplyReadAsMeant
<1>6. /\ Frame = FrameOf(listing, meant) /\ Frame \in Seq(Int) /\ ~TooLarge(Frame)
      /\ Frame' = Frame /\ whole' = whole /\ meant' = meant /\ listing' = listing
  <2>1. Frame = FrameOf(listing, meant)
    BY DEF Frame, FrameOf
  <2> QED
    BY <1>1, <1>2, <2>1, FrameLayout, MeantKept
<1>7. CASE stage' = "closing"
  BY <1>4, <1>5, <1>7, Ended
<1>8. CASE stage' = "head"
  <2>1. f.ok /\ reader' = Reader(f.v)
    BY <1>2, <1>8 DEF CloseAndFail
  <2>2. PICK x \in Seq(Int) : /\ ReadFrame(arrived) = Got(x, <<>>) /\ Begins(x, Frame)
                              /\ IF whole THEN x = Frame ELSE meant = Corr
    <3>1. CASE whole
      <4>1. ReadFrame(arrived) = Got(Frame, <<>>)
        BY <1>1, <1>6, <3>1, FrameReadBack DEF Replied
      <4>2. Begins(Frame, Frame)
        BY <1>6 DEF Begins
      <4> QED
        BY <1>6, <3>1, <4>1, <4>2
    <3>2. CASE ~whole
      <4>1. /\ meant = Corr
            /\ \/ \E n \in 0 .. Len(WriteFrame(Frame)) - 1 : arrived = SubSeq(WriteFrame(Frame), 1, n)
               \/ \E n \in 0 .. Len(Listed(listing)) - 1 :
                    arrived = WriteFrame(WriteInt(meant, 4) \o SubSeq(Listed(listing), 1, n))
        BY <1>1, <3>2, Zenon DEF Replied
      <4>2. ASSUME NEW n \in 0 .. Len(WriteFrame(Frame)) - 1, arrived = SubSeq(WriteFrame(Frame), 1, n)
            PROVE  FALSE
        <5>1. ~ReadFrame(SubSeq(WriteFrame(Frame), 1, n)).ok
          BY <1>6, FrameCut
        <5> QED
          BY <2>1, <4>2, <5>1
      <4>3. PICK n \in 0 .. Len(Listed(listing)) - 1 :
              arrived = WriteFrame(WriteInt(meant, 4) \o SubSeq(Listed(listing), 1, n))
        BY <4>1, <4>2
      <4> DEFINE x == WriteInt(Corr, 4) \o SubSeq(Listed(listing), 1, n)
      <4>4. x \in Seq(Int) /\ ~TooLarge(x) /\ Begins(x, Frame)
        BY <1>1, <1>6, <4>1, ShortFrame
      <4>5. arrived = WriteFrame(x)
        BY <4>1, <4>3
      <4> HIDE DEF x
      <4>6. ReadFrame(arrived) = Got(x, <<>>)
        BY <4>4, <4>5, FrameReadBack
      <4> QED
        BY <3>2, <4>1, <4>4, <4>6
    <3> QED
      BY <3>1, <3>2
  <2>3. reader' = Place(x, 0)
    BY <2>1, <2>2 DEF Got, Reader, Place
  <2>4. reader'.b = x /\ reader'.i = 0
    BY <2>3 DEF Place
  <2>5. FrameRead'
    <3>1. reader' \in [b: Seq(Int), i: Nat] /\ reader'.i <= Len(reader'.b)
      <4>1. 0 \in Nat /\ Len(x) \in Nat
        OBVIOUS
      <4> QED
        BY <2>3, <2>4, <4>1 DEF Place
    <3>2. /\ Len(reader'.b) <= Len(Frame') /\ \A k \in 1 .. Len(reader'.b) : reader'.b[k] = Frame'[k]
          /\ IF whole' THEN reader'.b = Frame' ELSE meant' = Corr
      BY <1>6, <2>2, <2>4 DEF Begins
    <3> QED
      BY <3>1, <3>2, Zenon DEF FrameRead
  <2>6. listing' \in Listings /\ meant' \in {Corr, Corr + 1} /\ whole' \in BOOLEAN
    BY <1>1, <1>6
  <2> QED
    BY <1>4, <1>5, <1>8, <2>4, <2>5, <2>6 DEF WireInv
<1> QED
  BY <1>3, <1>7, <1>8

\* Nothing changes.
LEMMA StutterKeeps ==
  ASSUME WireInv, UNCHANGED wireVars
  PROVE  WireInv'
<1>1. /\ stage' = stage /\ args' = args /\ sent' = sent /\ stored' = stored /\ listing' = listing
      /\ meant' = meant /\ whole' = whole /\ arrived' = arrived /\ reader' = reader
      /\ topics' = topics /\ parts' = parts /\ returned' = returned
  BY DEF wireVars
<1>2. Own' = Own /\ Meant' = Meant /\ Frame' = Frame
  BY <1>1, MeantKept
<1>3. RecordIntact => RecordIntact'
  BY <1>1 DEF RecordIntact
<1>4. ReplyReadAsMeant => ReplyReadAsMeant'
  BY <1>1, <1>2 DEF ReplyReadAsMeant
<1>5. Replied => Replied'
  BY <1>1, <1>2 DEF Replied
<1>6. FrameRead => FrameRead'
  BY <1>1, <1>2 DEF FrameRead
<1>7. Lost => Lost'
  BY <1>1 DEF Lost
<1>8. AtTopic(Len(listing) - topics) => AtTopic(Len(listing) - topics)'
  BY <1>1, <1>2 DEF AtTopic, OwnAfter
<1>9. AtPart(Len(listing) - topics, Len(listing[Len(listing) - topics].parts) - parts)
        => AtPart(Len(listing) - topics, Len(listing[Len(listing) - topics].parts) - parts)'
  BY <1>1, <1>2 DEF AtPart, OwnAfter
<1> QED
  BY <1>1, <1>3, <1>4, <1>5, <1>6, <1>7, <1>8, <1>9 DEF WireInv

\* A step of the call, or none.
LEMMA WireStep == WireInv /\ [WireNext]_wireVars => WireInv'
<1> SUFFICES ASSUME WireInv, [WireNext]_wireVars PROVE WireInv'
  OBVIOUS
<1>1. ASSUME NEW c \in Calls, WriteProduce(c) PROVE WireInv'
  BY <1>1, WriteProduceKeeps
<1>2. CASE BrokerReads
  BY <1>2, BrokerReadsKeeps
<1>3. ASSUME NEW l \in Listings, NEW id \in {Corr, Corr + 1}, ReplyWhole(l, id) PROVE WireInv'
  BY <1>3, ReplyKeeps
<1>4. ASSUME NEW l \in Listings, ReplyCut(l) \/ ReplyShort(l) PROVE WireInv'
  <2>1. Corr \in {Corr, Corr + 1}
    OBVIOUS
  <2> QED
    BY <1>4, <2>1, ReplyKeeps
<1>5. CASE ReceiveReply
  BY <1>5, ReceiveReplyKeeps
<1>6. CASE ReadHead
  BY <1>6, ReadHeadKeeps
<1>7. CASE ReadTopic
  BY <1>7, ReadTopicKeeps
<1>8. CASE SkipPart
  BY <1>8, SkipPartKeeps
<1>9. CASE ReadPart
  BY <1>9, ReadPartKeeps
<1>10. CASE TopicEnds
  BY <1>10, TopicEndsKeeps
<1>11. CASE Missing
  BY <1>11, MissingKeeps
<1>12. CASE UNCHANGED wireVars
  BY <1>12, StutterKeeps
<1> QED
  BY <1>1, <1>2, <1>3, <1>4, <1>5, <1>6, <1>7, <1>8, <1>9, <1>10, <1>11, <1>12 DEF WireNext

\* Wherever the call is, what was written is read as it was meant, and so is what
\* came back (WireInv).
THEOREM WireInvariant == WireSpec => []WireInv
<1>1. WireInit => WireInv
  BY WireInitHolds
<1>2. WireInv /\ [WireNext]_wireVars => WireInv'
  BY WireStep
<1> QED
  BY <1>1, <1>2, PTL DEF WireSpec

\* RecordIntact: a broker reads the record of the call in the request, for every
\* size of a byte and all topics, values and partitions.
THEOREM RecordStaysIntact == WireSpec => []RecordIntact
<1>1. WireInv => RecordIntact
  BY Zenon DEF WireInv
<1> QED
  BY <1>1, WireInvariant, PTL

\* ReplyReadAsMeant: however long the reply and wherever it is cut, Produce reads the
\* offset the broker lists for its record, or none.
THEOREM ReplyAlwaysReadAsMeant == WireSpec => []ReplyReadAsMeant
<1>1. WireInv => ReplyReadAsMeant
  BY Zenon DEF WireInv
<1> QED
  BY <1>1, WireInvariant, PTL

\* ReadersAgree: the two kinds of readers agree on every request.
THEOREM ReadersAgreeOnRequests == WireSpec => []ReadersAgree
<1>1. WireInv => ReadersAgree
  <2> SUFFICES ASSUME WireInv, stage = "written"
               PROVE  \A i \in 0 .. Len(ReadFrame(sent).v) : AgreeAt(ReadFrame(sent).v, i)
    BY DEF ReadersAgree
  <2>1. args \in Calls /\ ~TooLarge(RequestBody(args)) /\ sent = WriteFrame(RequestBody(args))
    BY DEF WireInv
  <2>2. RequestBody(args) \in Seq(Int)
    BY <2>1, RequestLayout
  <2>3. ReadFrame(sent) = Got(RequestBody(args), <<>>)
    BY <2>1, <2>2, FrameReadBack
  <2>4. ReadFrame(sent).v = RequestBody(args)
    BY <2>3 DEF Got
  <2> QED
    BY <2>2, <2>4, ReadersAlwaysAgree
<1> QED
  BY <1>1, WireInvariant, PTL
=============================================================================
