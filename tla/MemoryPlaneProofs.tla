-------------------------- MODULE MemoryPlaneProofs --------------------------
(* Safety of the memory plane, for every set of calls.                      *)
EXTENDS MemoryPlane, TLAPS

LEMMA UnusedType == Unused \in Row
  BY DEF Unused, Row, Ops, Paths, Answers

\* The row of a call after a step of that call.
Became(k, at, reply, v1, response, path, err) ==
  LET d == calls'[k] IN
  /\ d \in Row /\ d.op = calls[k].op
  /\ d.at = at /\ d.reply = reply /\ d.v1 = v1
  /\ d.response = response /\ d.path = path /\ d.err = err

\* A step concerns one call: the rows and the requests of the others stay, as
\* does what stream and palace hold of them.
Concerns(k) ==
  /\ calls' \in [Calls -> Row]
  /\ requests' \subseteq Calls \X Paths
  /\ \A j \in Calls \ {k} :
       /\ calls'[j] = calls[j]
       /\ j \in stream' <=> j \in stream
       /\ \A p : /\ <<j, p>> \in requests' <=> <<j, p>> \in requests
                 /\ <<j, p>> \in palace' <=> <<j, p>> \in palace

LEMMA OtherCalls ==
  ASSUME NEW k \in Calls, NEW j \in Calls \ {k}, CallInv(j), Concerns(k)
  PROVE  CallInv(j)'
  BY DEF Concerns, CallInv, SilentInv, StreamInv, AnswerInv, FirstInv, Untouched

LEMMA RowSet ==
  ASSUME TypeOK, NEW k \in Calls, NEW row \in Row,
         calls' = [calls EXCEPT ![k] = row]
  PROVE  calls' \in [Calls -> Row] /\ calls'[k] = row
         /\ \A j \in Calls \ {k} : calls'[j] = calls[j]
  BY DEF TypeOK

LEMMA FinishRow ==
  ASSUME TypeOK, NEW k \in Calls, NEW row \in Row, row.op = calls[k].op,
         Finish(k, row), UNCHANGED <<stream, palace>>
  PROVE  /\ Became(k, "end", "none", row.v1, row.response, row.path, row.err)
         /\ Concerns(k) /\ UNCHANGED <<requests, stream, palace>>
<1> DEFINE d == [row EXCEPT !.at = "end", !.reply = "none"]
<1>1. /\ d \in Row /\ d.op = row.op /\ d.at = "end" /\ d.reply = "none"
      /\ d.v1 = row.v1 /\ d.response = row.response /\ d.path = row.path
      /\ d.err = row.err
  BY DEF Row
<1>2. calls' = [calls EXCEPT ![k] = d]
  BY DEF Finish
<1> HIDE DEF d
<1>3. calls' \in [Calls -> Row] /\ calls'[k] = d
      /\ \A j \in Calls \ {k} : calls'[j] = calls[j]
  BY <1>1, <1>2, RowSet
<1> QED
  BY <1>1, <1>3 DEF Became, Concerns, Finish, TypeOK

LEMMA SendOne ==
  ASSUME TypeOK, NEW k \in Calls, NEW path \in Paths, Send(k, path)
  PROVE  /\ requests' \subseteq Calls \X Paths
         /\ \A j \in Calls : \A p : <<j, p>> # <<k, path>> =>
              (<<j, p>> \in requests' <=> <<j, p>> \in requests)
  BY DEF Send, TypeOK

LEMMA AskRow ==
  ASSUME TypeOK, NEW k \in Calls, NEW row \in Row, row.op = calls[k].op,
         NEW path \in Paths, Ask(k, row, path), UNCHANGED <<stream, palace>>
  PROVE  /\ Became(k, path, "none", row.v1, row.response, row.path, row.err)
         /\ Concerns(k) /\ UNCHANGED <<stream, palace>> /\ Send(k, path)
<1> DEFINE d == [row EXCEPT !.at = path, !.reply = "none"]
<1>1. /\ d \in Row /\ d.op = row.op /\ d.at = path /\ d.reply = "none"
      /\ d.v1 = row.v1 /\ d.response = row.response /\ d.path = row.path
      /\ d.err = row.err
  BY DEF Row
<1>2. calls' = [calls EXCEPT ![k] = d] /\ Send(k, path)
  BY DEF Ask
<1> HIDE DEF d
<1>3. calls' \in [Calls -> Row] /\ calls'[k] = d
      /\ \A j \in Calls \ {k} : calls'[j] = calls[j]
  BY <1>1, <1>2, RowSet
<1> QED
  BY <1>1, <1>2, <1>3, SendOne DEF Became, Concerns
-----------------------------------------------------------------------------
LEMMA BeginInv ==
  ASSUME IInv, NEW k \in Calls, NEW op \in Ops, Begin(k, op)
  PROVE  Concerns(k) /\ CallInv(k)'
<1>1. calls[k] = Unused /\ CallInv(k) /\ UNCHANGED <<stream, palace>> /\ TypeOK
  BY DEF Begin, IInv
<1>2. Untouched(k, "v1") /\ Untouched(k, "v5")
  BY <1>1 DEF CallInv, SilentInv, Unused
<1>3. CASE /\ calls' = [calls EXCEPT ![k].op = op, ![k].at = FirstPath(op)]
           /\ Send(k, FirstPath(op))
  <2> DEFINE d == [Unused EXCEPT !.op = op, !.at = FirstPath(op)]
  <2>1. /\ d \in Row /\ d.op = op /\ d.at = FirstPath(op) /\ d.reply = "none"
        /\ d.v1 = "none" /\ d.response = "none" /\ d.path = "none" /\ ~d.err
        /\ FirstPath(op) \in {"publish", "v1"} /\ FirstPath(op) \in Paths
        /\ op = "dual" => FirstPath(op) = "publish"
    BY DEF Unused, Row, Ops, Paths, Answers, FirstPath
  <2>2. calls' = [calls EXCEPT ![k] = d]
    BY <1>1, <1>3
  <2> HIDE DEF d
  <2>3. calls' \in [Calls -> Row] /\ calls'[k] = d
        /\ \A j \in Calls \ {k} : calls'[j] = calls[j]
    BY <1>1, <2>1, <2>2, RowSet
  <2>4. /\ requests' \subseteq Calls \X Paths
        /\ \A j \in Calls : \A p : <<j, p>> # <<k, FirstPath(op)>> =>
             (<<j, p>> \in requests' <=> <<j, p>> \in requests)
    BY <1>1, <1>3, <2>1, SendOne
  <2>5. Concerns(k)
    BY <1>1, <2>3, <2>4 DEF Concerns
  <2>6. /\ <<k, "v5">> \notin requests' \cup palace'
        /\ FirstPath(op) = "publish" => <<k, "v1">> \notin requests'
        /\ <<k, "v1">> \notin palace' /\ <<k, "publish">> \notin palace'
    BY <1>1, <1>2, <2>1, <2>4 DEF Untouched, TypeOK
  <2> QED
    BY <2>1, <2>3, <2>5, <2>6
       DEF CallInv, SilentInv, StreamInv, AnswerInv, FirstInv, Untouched,
           DoJSON, PalaceWrite, Open
<1>4. CASE /\ calls' = [calls EXCEPT ![k].op = op, ![k].at = "end", ![k].err = TRUE]
           /\ UNCHANGED requests
  <2> DEFINE d == [Unused EXCEPT !.op = op, !.at = "end", !.err = TRUE]
  <2>1. /\ d \in Row /\ d.op = op /\ d.at = "end" /\ d.reply = "none"
        /\ d.v1 = "none" /\ d.response = "none" /\ d.path = "none" /\ d.err
    BY DEF Unused, Row, Ops, Paths, Answers
  <2>2. calls' = [calls EXCEPT ![k] = d]
    BY <1>1, <1>4
  <2> HIDE DEF d
  <2>3. calls' \in [Calls -> Row] /\ calls'[k] = d
        /\ \A j \in Calls \ {k} : calls'[j] = calls[j]
    BY <1>1, <2>1, <2>2, RowSet
  <2>4. Concerns(k)
    BY <1>1, <1>4, <2>3 DEF Concerns, TypeOK
  <2>5. <<k, "end">> \notin palace'
    BY <1>1 DEF TypeOK
  <2>6. Untouched(k, "v1")' /\ Untouched(k, "v5")'
    BY <1>1, <1>2, <1>4 DEF Untouched
  <2> QED
    BY <2>1, <2>3, <2>4, <2>5, <2>6
       DEF CallInv, SilentInv, StreamInv, AnswerInv, FirstInv, Untouched,
           DoJSON, PalaceWrite, Open
<1> QED
  BY <1>3, <1>4 DEF Begin

LEMMA ContextInv ==
  ASSUME IInv, NEW k \in Calls, ContextEnds(k)
  PROVE  Concerns(k) /\ CallInv(k)'
<1> DEFINE d == [calls[k] EXCEPT !.live = FALSE]
<1>1. calls[k] \in Row /\ CallInv(k) /\ TypeOK /\ calls[k].at \in Paths
      /\ UNCHANGED <<requests, stream, palace>>
  BY DEF ContextEnds, Waiting, IInv, TypeOK
<1>2. /\ d \in Row /\ d.op = calls[k].op /\ d.at = calls[k].at
      /\ d.reply = calls[k].reply /\ d.v1 = calls[k].v1
      /\ d.response = calls[k].response /\ d.path = calls[k].path
      /\ d.err = calls[k].err
  BY <1>1 DEF Row
<1>3. calls' = [calls EXCEPT ![k] = d]
  BY DEF ContextEnds
<1> HIDE DEF d
<1>4. calls' \in [Calls -> Row] /\ calls'[k] = d
      /\ \A j \in Calls \ {k} : calls'[j] = calls[j]
  BY <1>1, <1>2, <1>3, RowSet
<1>5. Concerns(k)
  BY <1>1, <1>4 DEF Concerns, TypeOK
<1> QED
  BY <1>1, <1>2, <1>4, <1>5
     DEF CallInv, SilentInv, StreamInv, AnswerInv, FirstInv, Untouched, Paths

LEMMA PublishInv ==
  ASSUME IInv, NEW k \in Calls, NEW r \in Answers \cup {"transport"},
         r = calls[k].reply \/ r = "transport",
         PublishEnds(k, r), UNCHANGED <<stream, palace>>
  PROVE  Concerns(k) /\ CallInv(k)'
<1> DEFINE c == calls[k]
<1>1. c \in Row /\ CallInv(k) /\ TypeOK /\ c.at = "publish"
  BY DEF PublishEnds, IInv, TypeOK
<1>2. /\ Untouched(k, "v1") /\ Untouched(k, "v5")
      /\ c.v1 = "none" /\ c.response = "none" /\ ~c.err
      /\ DoJSON(r) = "nil" => k \in stream
      /\ \A p : p \notin {"v1", "v5"} => <<k, p>> \notin palace
  BY <1>1 DEF CallInv, SilentInv, StreamInv, DoJSON, TypeOK
<1>3. CASE PublishFails(r, c.op) /\ Finish(k, [c EXCEPT !.err = TRUE])
  <2> DEFINE row == [c EXCEPT !.err = TRUE]
  <2>1. /\ row \in Row /\ row.op = c.op /\ row.v1 = c.v1
        /\ row.response = c.response /\ row.path = c.path /\ row.err
    BY <1>1 DEF Row
  <2>2. Finish(k, row)
    BY <1>3
  <2> HIDE DEF row
  <2>3. /\ Became(k, "end", "none", row.v1, row.response, row.path, row.err)
        /\ Concerns(k) /\ UNCHANGED <<requests, stream, palace>>
    BY <1>1, <2>1, <2>2, FinishRow
  <2> QED
    BY <1>2, <2>1, <2>3 DEF Became, CallInv, SilentInv, StreamInv, AnswerInv,
                            FirstInv, Untouched, DoJSON, PalaceWrite, Open
<1>4. CASE ~PublishFails(r, c.op) /\ c.op # "dual" /\ Finish(k, c)
  <2>1. /\ Became(k, "end", "none", c.v1, c.response, c.path, c.err)
        /\ Concerns(k) /\ UNCHANGED <<requests, stream, palace>>
    BY <1>1, <1>4, FinishRow
  <2> QED
    BY <1>2, <1>4, <2>1 DEF Became, CallInv, SilentInv, StreamInv, AnswerInv,
                            FirstInv, Untouched, DoJSON, PalaceWrite, Open
<1>5. CASE ~PublishFails(r, c.op) /\ c.op = "dual" /\ Ask(k, c, "v1")
  <2>1. /\ Became(k, "v1", "none", c.v1, c.response, c.path, c.err)
        /\ Concerns(k) /\ Send(k, "v1")
    BY <1>1, <1>5, AskRow DEF Paths
  <2>2. <<k, "v5">> \in requests' <=> <<k, "v5">> \in requests
    BY <1>1, <2>1, SendOne DEF Paths
  <2>3. k \in stream
    BY <1>2, <1>5 DEF PublishFails
  <2> QED
    BY <1>2, <2>1, <2>2, <2>3
       DEF Became, CallInv, SilentInv, StreamInv, AnswerInv, FirstInv,
           Untouched, DoJSON, PalaceWrite, Open
<1> QED
  BY <1>3, <1>4, <1>5 DEF PublishEnds

LEMMA SyncRow ==
  ASSUME NEW row \in Row
  PROVE  LET d == SyncFailure(row) IN
         /\ d \in Row /\ d.op = row.op /\ d.v1 = row.v1
         /\ d.response = row.response /\ d.path = row.path
         /\ row.op = "dual" => d.err = FALSE
<1>1. CASE row.op = "dual"
  <2>1. SyncFailure(row) = [row EXCEPT !.err = FALSE, !.syncErr = TRUE]
    BY <1>1, Zenon DEF SyncFailure
  <2> QED
    BY <2>1 DEF Row
<1>2. CASE row.op # "dual"
  <2>1. SyncFailure(row) = [row EXCEPT !.err = TRUE, !.syncErr = FALSE]
    BY <1>2, Zenon DEF SyncFailure
  <2> QED
    BY <1>2, <2>1 DEF Row
<1> QED
  BY <1>1, <1>2

\* A call that has asked the sidecar and returns: what it has to know.
LEMMA EndInv ==
  ASSUME NEW k \in Calls, UNCHANGED <<requests, stream, palace>>,
         LET d == calls'[k] IN
         /\ d.at = "end" /\ d.reply = "none"
         /\ d.op = "dual" => ~d.err /\ k \in stream
         /\ PalaceWrite(d.response) /\ d.op # "read" => <<k, d.path>> \in palace
         /\ d.v1 \notin Open => <<k, "v1">> \notin requests
         /\ d.v1 \notin {"full", "empty"} \cup Open => <<k, "v1">> \notin palace
         /\ ~Untouched(k, "v5") => d.v1 \in Open \cup {"notfound", "redirect"},
         <<k, "end">> \notin palace
  PROVE  CallInv(k)'
<1>1. SilentInv(k)'
  BY DEF SilentInv, Untouched
<1>2. StreamInv(k)'
  BY DEF StreamInv
<1>3. AnswerInv(k)'
  BY DEF AnswerInv, PalaceWrite
<1>4. FirstInv(k)'
  BY DEF FirstInv, Untouched, Open
<1> QED
  BY <1>1, <1>2, <1>3, <1>4 DEF CallInv

LEMMA CascadeInv ==
  ASSUME IInv, NEW k \in Calls, NEW r \in Answers \cup {"transport"},
         r = calls[k].reply \/ r = "transport",
         CascadeEnds(k, r), UNCHANGED <<stream, palace>>
  PROVE  Concerns(k) /\ CallInv(k)'
<1> DEFINE v1 == IF calls[k].at = "v1" THEN r ELSE calls[k].v1
           c  == [calls[k] EXCEPT !.v1 = v1]
<1>1. /\ calls[k] \in Row /\ CallInv(k) /\ TypeOK
      /\ c \in Row /\ c.op = calls[k].op /\ c.at = calls[k].at /\ c.v1 = v1
      /\ c.response = calls[k].response /\ c.path = calls[k].path
      /\ c.err = calls[k].err
  BY DEF IInv, TypeOK, Row
<1>2. c.at \in {"v1", "v5"}
  BY DEF CascadeEnds
\* What the answer at hand says once it is not awaited any more.
<1>3. /\ v1 \notin Open => <<k, "v1">> \notin requests
      /\ v1 \notin {"full", "empty"} \cup Open => <<k, "v1">> \notin palace
      /\ c.at = "v5" => v1 \in Open \cup {"notfound", "redirect"}
      /\ c.at = "v1" => v1 = r /\ Untouched(k, "v5")
      /\ r = "full" /\ c.op # "read" => <<k, c.at>> \in palace
      /\ c.response = "none" /\ ~c.err
      /\ c.op = "dual" => k \in stream
      /\ <<k, "end">> \notin palace
  BY <1>1, <1>2 DEF CallInv, SilentInv, StreamInv, AnswerInv, FirstInv, Open,
                    Answers, Row, TypeOK
<1>4. CASE /\ EndsWithResponse(r)
           /\ Finish(k, [c EXCEPT !.response = r, !.path = c.at])
  <2> HIDE DEF c, v1
  <2> DEFINE row == [c EXCEPT !.response = r, !.path = c.at]
  <2>1. r \in Answers
    BY <1>4 DEF EndsWithResponse, DoJSON
  <2>2. /\ row \in Row /\ row.op = c.op /\ row.v1 = v1
        /\ row.response = r /\ row.path = c.at /\ row.err = c.err
    <3>1. c \in Row /\ c.at \in Paths
      BY <1>1, <1>2 DEF Paths
    <3>2. row \in Row
      BY <2>1, <3>1 DEF Row
    <3>3. /\ row.op = c.op /\ row.v1 = c.v1 /\ row.response = r
          /\ row.path = c.at /\ row.err = c.err
      BY <3>1 DEF Row
    <3>4. c.v1 = v1
      BY <1>1
    <3> QED
      BY <3>2, <3>3, <3>4
  <2>3. Finish(k, row)
    BY <1>4
  <2> HIDE DEF row
  <2>4. /\ Became(k, "end", "none", row.v1, row.response, row.path, row.err)
        /\ Concerns(k) /\ UNCHANGED <<requests, stream, palace>>
    BY <1>1, <2>2, <2>3, FinishRow
  <2>5. /\ calls'[k].at = "end" /\ calls'[k].reply = "none"
        /\ calls'[k].v1 = v1 /\ calls'[k].response = r /\ calls'[k].path = c.at
        /\ calls'[k].op = c.op /\ ~calls'[k].err
    BY <1>1, <1>3, <2>2, <2>4 DEF Became
  <2> QED
    BY <1>2, <1>3, <2>4, <2>5, EndInv DEF PalaceWrite
<1>5. CASE /\ ~EndsWithResponse(r)
           /\ Finish(k, SyncFailure(c))
  <2> HIDE DEF c, v1
  <2> DEFINE row == SyncFailure(c)
  <2>1. /\ row \in Row /\ row.op = c.op /\ row.v1 = v1
        /\ row.response = c.response /\ row.path = c.path
        /\ c.op = "dual" => row.err = FALSE
    BY <1>1, SyncRow
  <2>2. Finish(k, row)
    BY <1>5
  <2> HIDE DEF row
  <2>3. /\ Became(k, "end", "none", row.v1, row.response, row.path, row.err)
        /\ Concerns(k) /\ UNCHANGED <<requests, stream, palace>>
    BY <1>1, <2>1, <2>2, FinishRow
  <2>4. /\ calls'[k].at = "end" /\ calls'[k].reply = "none"
        /\ calls'[k].v1 = v1 /\ calls'[k].response = "none"
        /\ calls'[k].op = c.op
        /\ c.op = "dual" => ~calls'[k].err
    BY <1>1, <1>3, <2>1, <2>3 DEF Became
  <2> QED
    BY <1>2, <1>3, <2>3, <2>4, EndInv DEF PalaceWrite
<1>6. CASE /\ ~EndsWithResponse(r) /\ ~FailsFast(r) /\ PathAfter(c.at) # "none"
           /\ Ask(k, c, PathAfter(c.at))
  <2>1. c.at = "v1" /\ PathAfter(c.at) = "v5"
    BY <1>2, <1>6 DEF PathAfter
  <2>2. v1 \in Open \cup {"notfound", "redirect"}
    BY <1>3, <1>6, <2>1 DEF EndsWithResponse, FailsFast, DoJSON, Answers, Open
  <2>3. Ask(k, c, "v5")
    BY <1>6, <2>1
  <2> HIDE DEF c, v1
  <2>4. /\ Became(k, "v5", "none", c.v1, c.response, c.path, c.err)
        /\ Concerns(k) /\ Send(k, "v5") /\ UNCHANGED <<stream, palace>>
    BY <1>1, <2>3, AskRow DEF Paths
  <2>5. <<k, "v1">> \in requests' <=> <<k, "v1">> \in requests
    BY <1>1, <2>4, SendOne DEF Paths
  <2> QED
    BY <1>1, <1>3, <2>1, <2>2, <2>4, <2>5
       DEF Became, CallInv, SilentInv, StreamInv, AnswerInv, FirstInv,
           Untouched, DoJSON, PalaceWrite
<1> QED
  BY <1>4, <1>5, <1>6 DEF CascadeEnds

LEMMA ReturnInv ==
  ASSUME IInv, NEW k \in Calls, Return(k)
  PROVE  Concerns(k) /\ CallInv(k)'
<1>1. PICK r \in {calls[k].reply, "transport"} \ {"none"} :
        PublishEnds(k, r) \/ CascadeEnds(k, r)
  BY DEF Return
<1>2. /\ r \in Answers \cup {"transport"}
      /\ r = calls[k].reply \/ r = "transport"
      /\ UNCHANGED <<stream, palace>>
  BY <1>1 DEF Return, IInv, TypeOK, Row
<1> QED
  BY <1>1, <1>2, PublishInv, CascadeInv

\* An answer reaches the call if the call still waits on its path.
LEMMA AnswerRow ==
  ASSUME IInv, NEW k \in Calls, NEW path \in Paths, NEW r \in Answers,
         Answer(k, path, r)
  PROVE  LET c == calls[k] IN
         /\ calls' \in [Calls -> Row]
         /\ \A j \in Calls \ {k} : calls'[j] = calls[j]
         /\ <<k, path>> \in requests
         /\ requests' = requests \ {<<k, path>>}
         /\ Became(k, c.at, IF c.at = path THEN r ELSE c.reply, c.v1, c.response,
                   c.path, c.err)
         /\ c.at # path => calls'[k] = c
<1>1. calls[k] \in Row /\ TypeOK
  BY DEF IInv, TypeOK
<1>2. CASE calls[k].at = path
  <2> DEFINE d == [calls[k] EXCEPT !.reply = r]
  <2>1. /\ d \in Row /\ d.op = calls[k].op /\ d.at = path /\ d.reply = r
        /\ d.v1 = calls[k].v1 /\ d.response = calls[k].response
        /\ d.path = calls[k].path /\ d.err = calls[k].err
    BY <1>1, <1>2 DEF Row
  <2>2. calls' = [calls EXCEPT ![k] = d]
    BY <1>2 DEF Answer
  <2> HIDE DEF d
  <2>3. calls' \in [Calls -> Row] /\ calls'[k] = d
        /\ \A j \in Calls \ {k} : calls'[j] = calls[j]
    BY <1>1, <2>1, <2>2, RowSet
  <2> QED
    BY <1>2, <2>1, <2>3 DEF Became, Answer
<1>3. CASE calls[k].at # path
  BY <1>1, <1>3 DEF Became, Answer, TypeOK
<1> QED
  BY <1>2, <1>3

\* An answer on a path other than the one its call waits on changes requests
\* and, at most, what stream and palace hold of the call.
LEMMA AnswerStep ==
  ASSUME IInv, NEW k \in Calls, NEW path \in Paths, NEW r \in Answers,
         Answer(k, path, r),
         stream' \in {stream, stream \cup {k}},
         palace' \in {palace, palace \cup {<<k, path>>}},
         path = "publish" => palace' = palace,
         path = "publish" /\ DoJSON(r) = "nil" => k \in stream',
         path # "publish" /\ r \notin {"full", "empty"} \cup Open
           => palace' = palace,
         path # "publish" /\ r = "full" /\ calls[k].op # "read"
           => <<k, path>> \in palace'
  PROVE  Concerns(k) /\ CallInv(k)'
<1> DEFINE c == calls[k]
<1>1. SilentInv(k) /\ StreamInv(k) /\ AnswerInv(k) /\ FirstInv(k) /\ TypeOK
  BY DEF IInv, CallInv
<1>2. /\ calls' \in [Calls -> Row]
      /\ \A j \in Calls \ {k} : calls'[j] = calls[j]
      /\ <<k, path>> \in requests
      /\ requests' = requests \ {<<k, path>>}
      /\ Became(k, c.at, IF c.at = path THEN r ELSE c.reply, c.v1, c.response,
                c.path, c.err)
      /\ c.at # path => calls'[k] = c
  BY AnswerRow
<1>3. Concerns(k)
  BY <1>1, <1>2 DEF Concerns, TypeOK
<1>4. /\ requests' \subseteq requests /\ k \in stream => k \in stream'
      /\ \A p : <<k, p>> \in palace => <<k, p>> \in palace'
      /\ \A p : p # path => (<<k, p>> \in palace' <=> <<k, p>> \in palace)
      /\ <<k, path>> \notin requests'
      /\ path = "publish" => (<<k, path>> \in palace' <=> <<k, path>> \in palace)
  BY <1>2
<1> DEFINE d == calls'[k]
<1>5. /\ d.op = c.op /\ d.at = c.at /\ d.v1 = c.v1 /\ d.response = c.response
      /\ d.path = c.path /\ d.err = c.err
      /\ d.reply = (IF c.at = path THEN r ELSE c.reply)
  BY <1>2 DEF Became
<1>6. Untouched(k, "v1") => Untouched(k, "v1")'
  BY <1>2, <1>4 DEF Untouched
<1>7. Untouched(k, "v5") => Untouched(k, "v5")'
  BY <1>2, <1>4 DEF Untouched
<1>8. SilentInv(k)'
  BY <1>1, <1>2, <1>5, <1>6, <1>7 DEF SilentInv, Paths
<1>9. StreamInv(k)'
  BY <1>1, <1>4, <1>5 DEF StreamInv
<1>10. AnswerInv(k)'
  <2>1. CASE c.at # path
    BY <1>1, <1>2, <1>4, <2>1 DEF AnswerInv
  <2>2. CASE c.at = path
    <3>1. c.reply = "none" /\ <<k, path>> \notin palace
      BY <1>1, <1>2, <2>2 DEF AnswerInv, Open, Answers
    <3>2. d.reply = r /\ d.at = path
      BY <1>5, <2>2
    <3>3. r \notin {"full", "empty"} \cup Open => <<k, path>> \notin palace'
      BY <1>4, <3>1
    <3> HIDE DEF d
    <3>4. PalaceWrite(d.response) /\ d.op # "read" => <<k, d.path>> \in palace'
      BY <1>1, <1>4, <1>5 DEF AnswerInv, PalaceWrite
    <3>5. r = "full" /\ d.op # "read" /\ path \in {"v1", "v5"} => <<k, path>> \in palace'
      BY <1>5
    <3> QED
      BY <1>4, <3>2, <3>3, <3>4, <3>5 DEF AnswerInv, d
  <2> QED
    BY <2>1, <2>2
<1>11. FirstInv(k)'
  BY <1>1, <1>2, <1>4, <1>5 DEF FirstInv, Untouched
<1> QED
  BY <1>3, <1>8, <1>9, <1>10, <1>11 DEF CallInv

LEMMA ServeInv ==
  ASSUME IInv, NEW k \in Calls, Serve(k)
  PROVE  Concerns(k) /\ CallInv(k)' /\ TypeOK'
<1>1. TypeOK
  BY DEF IInv
<1>2. CASE ServePublish(k)
  <2>1. PICK r \in Answers \ {"stub"} :
          /\ Answer(k, "publish", r)
          /\ stream' \in CASE r \in {"full", "empty", "garbled"} -> {stream \cup {k}}
                           [] r = "server" -> {stream, stream \cup {k}}
                           [] OTHER -> {stream}
          /\ UNCHANGED palace
    BY <1>2 DEF ServePublish
  <2>2. /\ stream' \in {stream, stream \cup {k}}
        /\ DoJSON(r) = "nil" => k \in stream'
    BY <2>1 DEF DoJSON, Answers
  <2>3. Concerns(k) /\ CallInv(k)'
    BY <2>1, <2>2, AnswerStep DEF Paths
  <2> QED
    BY <1>1, <2>1, <2>2, <2>3 DEF TypeOK, Concerns
<1>3. ASSUME NEW path \in {"v1", "v5"}, ServeIngest(k, path)
      PROVE  Concerns(k) /\ CallInv(k)' /\ TypeOK'
  <2>1. PICK r \in Answers :
          /\ Answer(k, path, r)
          /\ palace' \in CASE r = "full" -> {palace \cup {<<k, path>>}}
                           [] r \in {"empty", "garbled", "server"} ->
                                {palace, palace \cup {<<k, path>>}}
                           [] OTHER -> {palace}
          /\ UNCHANGED stream
    BY <1>3 DEF ServeIngest
  <2>2. /\ palace' \in {palace, palace \cup {<<k, path>>}}
        /\ r = "full" => <<k, path>> \in palace'
        /\ r \notin {"full", "empty"} \cup Open => palace' = palace
    BY <2>1 DEF Open, Answers
  <2>3. Concerns(k) /\ CallInv(k)'
    BY <2>1, <2>2, AnswerStep DEF Paths
  <2> QED
    BY <1>1, <2>1, <2>2, <2>3 DEF TypeOK, Concerns
<1>4. ASSUME NEW path \in {"v1", "v5"}, ServeRead(k, path)
      PROVE  Concerns(k) /\ CallInv(k)' /\ TypeOK'
  <2>1. PICK r \in Answers \ {"stub"} : Answer(k, path, r)
    BY <1>4 DEF ServeRead
  <2>2. calls[k].op = "read" /\ UNCHANGED <<stream, palace>>
    BY <1>4 DEF ServeRead
  <2>3. Concerns(k) /\ CallInv(k)'
    BY <2>1, <2>2, AnswerStep DEF Paths
  <2> QED
    BY <1>1, <2>2, <2>3 DEF TypeOK, Concerns
<1> QED
  BY <1>2, <1>3, <1>4 DEF Serve
-----------------------------------------------------------------------------
LEMMA InitInv == Init => IInv
<1> SUFFICES ASSUME Init PROVE IInv
  OBVIOUS
<1>1. TypeOK
  BY UnusedType DEF Init, TypeOK
<1>2. ASSUME NEW k \in Calls PROVE CallInv(k)
  BY DEF Init, CallInv, SilentInv, StreamInv, AnswerInv, FirstInv, Untouched,
         Unused, DoJSON, PalaceWrite, Open
<1> QED
  BY <1>1, <1>2 DEF IInv

LEMMA NextInv == IInv /\ [Next]_vars => IInv'
<1> SUFFICES ASSUME IInv, [Next]_vars PROVE IInv'
  OBVIOUS
<1>1. ASSUME NEW k \in Calls, Concerns(k), CallInv(k)', TypeOK'
      PROVE  IInv'
  <2>1. ASSUME NEW j \in Calls PROVE CallInv(j)'
    <3>1. CASE j = k
      BY <1>1, <3>1
    <3>2. CASE j # k
      BY <1>1, <3>2, OtherCalls DEF IInv
    <3> QED
      BY <3>1, <3>2
  <2> QED
    BY <1>1, <2>1 DEF IInv
<1>2. ASSUME NEW k \in Calls, Concerns(k), UNCHANGED <<stream, palace>>
      PROVE  TypeOK'
  BY <1>2 DEF IInv, TypeOK, Concerns
<1>3. ASSUME NEW k \in Calls, NEW op \in Ops, Begin(k, op) PROVE IInv'
  BY <1>1, <1>2, <1>3, BeginInv DEF Begin
<1>4. ASSUME NEW k \in Calls, ContextEnds(k) PROVE IInv'
  BY <1>1, <1>2, <1>4, ContextInv DEF ContextEnds
<1>5. ASSUME NEW k \in Calls, Return(k) PROVE IInv'
  BY <1>1, <1>2, <1>5, ReturnInv DEF Return
<1>6. ASSUME NEW k \in Calls, Serve(k) PROVE IInv'
  BY <1>1, <1>6, ServeInv
<1>7. CASE UNCHANGED vars
  BY <1>7 DEF vars, IInv, TypeOK, CallInv, SilentInv, StreamInv, AnswerInv,
              FirstInv, Untouched
<1> QED
  BY <1>3, <1>4, <1>5, <1>6, <1>7 DEF Next

\* The inductive invariant of the memory plane's calls.
THEOREM InductiveInvariant == Spec => []IInv
  BY InitInv, NextInv, PTL DEF Spec

\* Every variable stays in its set, for every number of calls.
THEOREM TypeCorrect == Spec => []TypeOK
<1>1. IInv => TypeOK
  BY DEF IInv
<1> QED
  BY <1>1, InductiveInvariant, PTL

\* A dual write reaches the sidecar only after the stream has stored the turn
\* (DualWriteMemoryTurn returns on a failed publish).
THEOREM StreamIsFirst == Spec => []StreamFirst
<1>1. IInv => StreamFirst
  <2> SUFFICES ASSUME IInv, NEW k \in Calls, calls[k].op = "dual", k \notin stream
               PROVE  Copies(k) = {}
    BY DEF StreamFirst
  <2>1. TypeOK /\ SilentInv(k) /\ StreamInv(k)
    BY DEF IInv, CallInv
  <2>2. calls[k].at \in {"start", "publish"} \/ calls[k].err
    BY <2>1 DEF StreamInv, TypeOK, Row, Paths
  <2>3. Untouched(k, "v1") /\ Untouched(k, "v5")
    BY <2>1, <2>2 DEF SilentInv
  <2> QED
    BY <2>1, <2>3 DEF Copies, Untouched, TypeOK
<1> QED
  BY <1>1, InductiveInvariant, PTL

\* A dual write that fails has written nothing to the palace and never will:
\* its only error is that of the publish.
THEOREM ErrorIsClean == Spec => []ErrorWritesNothing
<1>1. IInv => ErrorWritesNothing
  <2> SUFFICES ASSUME IInv, NEW k \in Calls, calls[k].op = "dual", calls[k].err
               PROVE  /\ Copies(k) = {}
                      /\ requests \cap ({k} \X {"v1", "v5"}) = {}
    BY DEF ErrorWritesNothing
  <2>1. TypeOK /\ Untouched(k, "v1") /\ Untouched(k, "v5")
    BY DEF IInv, CallInv, SilentInv
  <2> QED
    BY <2>1 DEF Copies, Untouched, TypeOK
<1> QED
  BY <1>1, InductiveInvariant, PTL

\* What PalaceWrite() reports is in the palace, on the path the response names.
THEOREM ReportTrue == Spec => []ReportedWrite
<1>1. IInv => ReportedWrite
  BY DEF IInv, CallInv, AnswerInv, ReportedWrite
<1> QED
  BY <1>1, InductiveInvariant, PTL

\* The cascade doubles a turn in the palace only after a /v1 that may or may
\* not have written it.
THEOREM TwiceOnlyOpen == Spec => []TwiceOnlyIfOpen
<1>1. IInv => TwiceOnlyIfOpen
  <2> SUFFICES ASSUME IInv, NEW k \in Calls, {<<k, "v1">>, <<k, "v5">>} \subseteq palace
               PROVE  calls[k].v1 \in {"garbled", "server", "transport"}
    BY DEF TwiceOnlyIfOpen
  <2>1. TypeOK /\ SilentInv(k) /\ FirstInv(k) /\ ~Untouched(k, "v5")
    BY DEF IInv, CallInv, Untouched
  <2>2. calls[k].at \in {"v5", "end"}
    BY <2>1 DEF SilentInv, TypeOK, Row, Paths
  <2> QED
    BY <2>1, <2>2 DEF FirstInv, Open
<1> QED
  BY <1>1, InductiveInvariant, PTL

\* A 4xx other than 404 from /v1 ends the cascade with nothing written.
THEOREM RefusalFinal == Spec => []RefusedWritesNothing
<1>1. IInv => RefusedWritesNothing
  <2> SUFFICES ASSUME IInv, NEW k \in Calls, calls[k].v1 = "client"
               PROVE  Copies(k) = {}
    BY DEF RefusedWritesNothing
  <2>1. TypeOK /\ SilentInv(k) /\ FirstInv(k)
    BY DEF IInv, CallInv
  <2>2. calls[k].at \in {"v5", "end"}
    BY <2>1 DEF SilentInv, TypeOK, Row, Paths
  <2>3. <<k, "v1">> \notin palace /\ Untouched(k, "v5")
    BY <2>1, <2>2 DEF FirstInv, Open
  <2> QED
    BY <2>1, <2>3 DEF Copies, Untouched, TypeOK
<1> QED
  BY <1>1, InductiveInvariant, PTL
-----------------------------------------------------------------------------
(***************************************************************************)
(* The refinement: every step of the memory plane is a step of TwoStores,  *)
(* or none.  OpsInv says which operation a request on its way belongs to.  *)
(***************************************************************************)
LEMMA SameOp ==
  ASSUME NEW k \in Calls, NEW j \in Calls \ {k}, OpInv(j), Concerns(k)
  PROVE  OpInv(j)'
  BY DEF Concerns, OpInv

LEMMA SentOnly ==
  ASSUME NEW k \in Calls, NEW path, Send(k, path)
  PROVE  requests' \subseteq requests \cup {<<k, path>>}
  BY DEF Send

\* A step of call k keeps its operation; it asks where the call stands then.
LEMMA AsksAsBefore ==
  ASSUME NEW k \in Calls, OpInv(k), calls'[k].op = calls[k].op,
         requests' \subseteq requests \cup {<<k, calls'[k].at>>},
         calls'[k].at = "publish" => calls[k].at = "publish",
         calls'[k].at \in {"v1", "v5"} =>
           calls[k].at \in {"v1", "v5"} \/ calls[k].op = "dual"
  PROVE  OpInv(k)'
<1> DEFINE c == calls[k]
           d == calls'[k]
<1>1. <<k, "publish">> \in requests' => <<k, "publish">> \in requests \/ d.at = "publish"
  OBVIOUS
<1>2. <<k, "v1">> \in requests' => <<k, "v1">> \in requests \/ d.at = "v1"
  OBVIOUS
<1>3. <<k, "v5">> \in requests' => <<k, "v5">> \in requests \/ d.at = "v5"
  OBVIOUS
<1> QED
  BY <1>1, <1>2, <1>3 DEF OpInv

\* What a return does to the row and to the requests of its call.
LEMMA ReturnMoves ==
  ASSUME IInv, NEW k \in Calls, Return(k)
  PROVE  /\ calls'[k].op = calls[k].op /\ calls[k].at \in Paths
         /\ UNCHANGED <<stream, palace>>
         /\ \/ /\ calls'[k].at = "end" /\ UNCHANGED requests
               /\ calls[k].at = "publish" /\ ~calls'[k].err => k \in stream
            \/ /\ calls'[k].at \in {"v1", "v5"} /\ Send(k, calls'[k].at)
               /\ calls[k].at = "v1" \/ calls[k].op = "dual"
<1>1. PICK r \in {calls[k].reply, "transport"} \ {"none"} :
        PublishEnds(k, r) \/ CascadeEnds(k, r)
  BY DEF Return
<1>2. /\ r = calls[k].reply \/ r = "transport"
      /\ UNCHANGED <<stream, palace>> /\ TypeOK /\ calls[k] \in Row /\ calls[k].at \in Paths
  BY <1>1 DEF Return, IInv, TypeOK, Waiting
<1>3. CASE PublishEnds(k, r)
  <2> DEFINE c == calls[k]
             e == [c EXCEPT !.err = TRUE]
  <2>1. e \in Row /\ e.op = c.op /\ e.err = TRUE
    BY <1>2 DEF Row
  <2>2. c.at = "publish" /\ (DoJSON(r) = "nil" => k \in stream)
    BY <1>2, <1>3 DEF PublishEnds, IInv, CallInv, StreamInv, DoJSON
  <2>3. CASE Finish(k, e)
    <3> HIDE DEF e
    <3>1. Became(k, "end", "none", e.v1, e.response, e.path, e.err) /\ UNCHANGED requests
      BY <1>2, <2>1, <2>3, FinishRow
    <3> QED
      BY <1>2, <2>1, <3>1 DEF Became
  <2>4. CASE ~PublishFails(r, c.op) /\ Finish(k, c)
    <3>1. Became(k, "end", "none", c.v1, c.response, c.path, c.err) /\ UNCHANGED requests
      BY <1>2, <2>4, FinishRow
    <3> QED
      BY <1>2, <2>2, <2>4, <3>1 DEF Became, PublishFails
  <2>5. CASE c.op = "dual" /\ Ask(k, c, "v1")
    <3>1. Became(k, "v1", "none", c.v1, c.response, c.path, c.err) /\ Send(k, "v1")
      BY <1>2, <2>5, AskRow DEF Paths
    <3> QED
      BY <1>2, <2>5, <3>1 DEF Became
  <2> QED
    BY <1>3, <2>3, <2>4, <2>5 DEF PublishEnds
<1>4. CASE CascadeEnds(k, r)
  <2> DEFINE v1 == IF calls[k].at = "v1" THEN r ELSE calls[k].v1
             c  == [calls[k] EXCEPT !.v1 = v1]
  <2>1. /\ c \in Row /\ c.op = calls[k].op /\ c.at = calls[k].at
        /\ c.at \in {"v1", "v5"} /\ r \in Answers \cup {"transport"}
    <3>1. r \in Answers \cup {"transport"}
      BY <1>1, <1>2 DEF Row
    <3> QED
      BY <1>2, <1>4, <3>1 DEF Row, CascadeEnds
  <2>2. CASE EndsWithResponse(r) /\ Finish(k, [c EXCEPT !.response = r, !.path = c.at])
    <3> HIDE DEF c, v1
    <3> DEFINE row == [c EXCEPT !.response = r, !.path = c.at]
    <3>1. row \in Row /\ row.op = c.op
      <4>1. r \in Answers
        BY <2>1, <2>2 DEF EndsWithResponse, DoJSON
      <4>2. c \in Row /\ c.at \in Paths
        BY <2>1 DEF Paths
      <4> QED
        BY <4>1, <4>2 DEF Row
    <3>2. Finish(k, row)
      BY <2>2
    <3> HIDE DEF row
    <3>3. Became(k, "end", "none", row.v1, row.response, row.path, row.err) /\ UNCHANGED requests
      BY <1>2, <2>1, <3>1, <3>2, FinishRow
    <3> QED
      BY <1>2, <2>1, <3>3 DEF Became
  <2>3. CASE Finish(k, SyncFailure(c))
    <3> HIDE DEF c, v1
    <3> DEFINE row == SyncFailure(c)
    <3>1. row \in Row /\ row.op = c.op
      BY <2>1, SyncRow
    <3>2. Finish(k, row)
      BY <2>3
    <3> HIDE DEF row
    <3>3. Became(k, "end", "none", row.v1, row.response, row.path, row.err) /\ UNCHANGED requests
      BY <1>2, <2>1, <3>1, <3>2, FinishRow
    <3> QED
      BY <1>2, <2>1, <3>3 DEF Became
  <2>4. CASE PathAfter(c.at) # "none" /\ Ask(k, c, PathAfter(c.at))
    <3>1. c.at = "v1" /\ PathAfter(c.at) = "v5"
      BY <2>1, <2>4 DEF PathAfter
    <3>2. Ask(k, c, "v5")
      BY <2>4, <3>1
    <3> HIDE DEF c, v1
    <3>3. Became(k, "v5", "none", c.v1, c.response, c.path, c.err) /\ Send(k, "v5")
      BY <1>2, <2>1, <3>2, AskRow DEF Paths
    <3> QED
      BY <1>2, <2>1, <3>1, <3>3 DEF Became
  <2> QED
    BY <1>4, <2>2, <2>3, <2>4 DEF CascadeEnds
<1> QED
  BY <1>1, <1>3, <1>4

\* An answer leaves its call where it is, and takes its request away.
LEMMA ServeMoves ==
  ASSUME IInv, NEW k \in Calls, Serve(k)
  PROVE  /\ calls'[k].op = calls[k].op /\ calls'[k].at = calls[k].at
         /\ calls'[k].err = calls[k].err /\ calls'[k].response = calls[k].response
         /\ requests' \subseteq requests
         /\ \/ UNCHANGED <<stream, palace>>
            \/ /\ stream' = stream \cup {k} /\ UNCHANGED palace
               /\ <<k, "publish">> \in requests
            \/ \E path \in {"v1", "v5"} :
                 /\ palace' = palace \cup {<<k, path>>} /\ UNCHANGED stream
                 /\ <<k, path>> \in requests /\ calls[k].op # "read"
<1>1. ASSUME NEW path \in Paths, NEW r \in Answers, Answer(k, path, r)
      PROVE  /\ calls'[k].op = calls[k].op /\ calls'[k].at = calls[k].at
             /\ calls'[k].err = calls[k].err /\ calls'[k].response = calls[k].response
             /\ requests' \subseteq requests /\ <<k, path>> \in requests
  BY <1>1, AnswerRow DEF Became
<1>2. CASE ServePublish(k)
  <2>1. PICK r \in Answers \ {"stub"} :
          /\ Answer(k, "publish", r)
          /\ stream' \in CASE r \in {"full", "empty", "garbled"} -> {stream \cup {k}}
                           [] r = "server" -> {stream, stream \cup {k}}
                           [] OTHER -> {stream}
          /\ UNCHANGED palace
    BY <1>2 DEF ServePublish
  <2>2. stream' \in {stream, stream \cup {k}}
    BY <2>1 DEF Answers
  <2> QED
    BY <1>1, <2>1, <2>2 DEF Paths
<1>3. ASSUME NEW path \in {"v1", "v5"}, ServeIngest(k, path)
      PROVE  \E r \in Answers :
               /\ Answer(k, path, r) /\ UNCHANGED stream /\ calls[k].op # "read"
               /\ palace' \in {palace, palace \cup {<<k, path>>}}
  <2>1. PICK r \in Answers :
          /\ Answer(k, path, r) /\ calls[k].op # "read"
          /\ palace' \in CASE r = "full" -> {palace \cup {<<k, path>>}}
                           [] r \in {"empty", "garbled", "server"} ->
                                {palace, palace \cup {<<k, path>>}}
                           [] OTHER -> {palace}
          /\ UNCHANGED stream
    BY <1>3 DEF ServeIngest
  <2>2. palace' \in {palace, palace \cup {<<k, path>>}}
    BY <2>1 DEF Answers
  <2> QED
    BY <2>1, <2>2
<1>4. CASE \E path \in {"v1", "v5"} : ServeIngest(k, path)
  BY <1>1, <1>3, <1>4 DEF Paths
<1>5. CASE \E path \in {"v1", "v5"} : ServeRead(k, path)
  BY <1>1, <1>5 DEF ServeRead, Paths
<1> QED
  BY <1>2, <1>4, <1>5 DEF Serve

LEMMA OpsInit == Init => OpsInv
<1> SUFFICES ASSUME Init, NEW k \in Calls PROVE OpInv(k)
  BY DEF OpsInv
<1>1. calls[k] = Unused /\ requests = {}
  BY DEF Init
<1>2. Unused.at = "start"
  BY DEF Unused
<1> QED
  BY <1>1, <1>2 DEF OpInv

LEMMA OpsStays ==
  ASSUME OpsInv, NEW k \in Calls, Concerns(k), OpInv(k)'
  PROVE  OpsInv'
<1> SUFFICES ASSUME NEW j \in Calls PROVE OpInv(j)'
  BY DEF OpsInv
<1> QED
  BY SameOp DEF OpsInv

LEMMA TurnsStep ==
  ASSUME NEW k \in Calls, Concerns(k), NEW op, calls'[k].op = op,
         NEW state, StateOf(calls'[k]) = state
  PROVE  Turns' = [Turns EXCEPT ![k] = [op |-> op, state |-> state]]
<1>1. StateOf(calls[k])' = state
  BY DEF StateOf, PalaceWrite
<1>2. \A j \in Calls \ {k} : calls'[j] = calls[j]
  BY DEF Concerns
<1>3. \A j \in Calls \ {k} : StateOf(calls[j])' = StateOf(calls[j])
  BY <1>2 DEF StateOf, PalaceWrite
<1>4. \A j \in Calls : [op |-> calls[j].op, state |-> StateOf(calls[j])]'
                       = IF j = k THEN [op |-> op, state |-> state]
                                  ELSE [op |-> calls[j].op, state |-> StateOf(calls[j])]
  BY <1>1, <1>2, <1>3
<1> QED
  BY <1>4 DEF Turns

LEMMA TurnsStay ==
  ASSUME \A j \in Calls : calls'[j].op = calls[j].op /\ StateOf(calls'[j]) = StateOf(calls[j])
  PROVE  Turns' = Turns
  BY DEF Turns, StateOf, PalaceWrite

\* A call seen as a turn.
LEMMA TurnOf ==
  ASSUME NEW k \in Calls
  PROVE  /\ Turns[k].op = calls[k].op /\ Turns[k].state = StateOf(calls[k])
         /\ DOMAIN Turns = Calls
  BY DEF Turns

LEMMA Begins ==
  ASSUME IInv, OpsInv, NEW k \in Calls, NEW op \in Ops, Begin(k, op)
  PROVE  OpsInv' /\ Stores!TSNext
<1>1. calls[k] = Unused /\ Concerns(k) /\ UNCHANGED <<stream, palace>> /\ OpInv(k) /\ TypeOK
  BY BeginInv DEF Begin, OpsInv, IInv
<1>2. StateOf(calls[k]) = "none"
  BY <1>1 DEF StateOf, Unused
<1>3. /\ calls'[k].op = op
      /\ \/ /\ calls'[k].at = FirstPath(op) /\ Send(k, FirstPath(op))
         \/ calls'[k].at = "end" /\ calls'[k].err = TRUE /\ UNCHANGED requests
  <2>1. CASE /\ calls' = [calls EXCEPT ![k].op = op, ![k].at = FirstPath(op)]
             /\ Send(k, FirstPath(op))
    BY <1>1, <2>1 DEF TypeOK, Unused
  <2>2. CASE /\ calls' = [calls EXCEPT ![k].op = op, ![k].at = "end", ![k].err = TRUE]
             /\ UNCHANGED requests
    BY <1>1, <2>2 DEF TypeOK, Unused
  <2> QED
    BY <2>1, <2>2 DEF Begin
<1>4. ~(<<k, "publish">> \in requests) /\ ~(<<k, "v1">> \in requests) /\ ~(<<k, "v5">> \in requests)
  BY <1>1 DEF OpInv, Unused
<1>5. OpInv(k)'
  <2>1. CASE calls'[k].at = FirstPath(op) /\ Send(k, FirstPath(op))
    <3>1. requests' \subseteq requests \cup {<<k, FirstPath(op)>>}
      BY <2>1, SentOnly
    <3> QED
      BY <1>3, <1>4, <2>1, <3>1 DEF OpInv, FirstPath, Ops
  <2>2. CASE calls'[k].at = "end" /\ UNCHANGED requests
    BY <1>4, <2>2 DEF OpInv
  <2> QED
    BY <1>3, <2>1, <2>2
<1>6. PICK state \in {"open", "failed"} : StateOf(calls'[k]) = state
  <2>1. FirstPath(op) \notin {"start", "end"}
    BY DEF FirstPath
  <2> QED
    BY <1>3, <2>1 DEF StateOf
<1>7. Stores!Enter(k, op, state)
  BY <1>1, <1>2, <1>3, <1>6, TurnsStep, TurnOf DEF Stores!Enter
<1> QED
  BY <1>1, <1>5, <1>7, OpsStays, TurnOf DEF Stores!TSNext, Ops

LEMMA ContextStutters ==
  ASSUME IInv, OpsInv, NEW k \in Calls, ContextEnds(k)
  PROVE  OpsInv' /\ UNCHANGED Stores!tsVars
<1>1. Concerns(k) /\ UNCHANGED <<requests, stream, palace>> /\ OpInv(k) /\ calls[k] \in Row
  BY ContextInv DEF ContextEnds, OpsInv, IInv, TypeOK
<1>2. /\ calls'[k].op = calls[k].op /\ calls'[k].at = calls[k].at
      /\ calls'[k].err = calls[k].err /\ calls'[k].response = calls[k].response
  <2> DEFINE d == [calls[k] EXCEPT !.live = FALSE]
  <2>1. calls'[k] = d
    BY DEF ContextEnds, IInv, TypeOK
  <2> QED
    BY <1>1, <2>1 DEF Row
<1>3. OpInv(k)'
  BY <1>1, <1>2 DEF OpInv
<1>4. \A j \in Calls : calls'[j].op = calls[j].op /\ StateOf(calls'[j]) = StateOf(calls[j])
  BY <1>1, <1>2 DEF Concerns, StateOf, PalaceWrite
<1> QED
  BY <1>1, <1>3, <1>4, OpsStays, TurnsStay DEF Stores!tsVars

LEMMA Serves ==
  ASSUME IInv, OpsInv, NEW k \in Calls, Serve(k)
  PROVE  OpsInv' /\ [Stores!TSNext]_(Stores!tsVars)
<1>1. /\ calls'[k].op = calls[k].op /\ calls'[k].at = calls[k].at
      /\ calls'[k].err = calls[k].err /\ calls'[k].response = calls[k].response
      /\ requests' \subseteq requests
  BY ServeMoves
<1>2. Concerns(k) /\ OpInv(k) /\ SilentInv(k) /\ StreamInv(k) /\ calls[k].at \in Paths \cup {"start", "end"}
  BY ServeInv DEF OpsInv, IInv, CallInv, TypeOK, Row
<1>3. OpInv(k)'
  BY <1>1, <1>2 DEF OpInv
<1>4. Turns' = Turns
  <2>1. \A j \in Calls : calls'[j].op = calls[j].op /\ StateOf(calls'[j]) = StateOf(calls[j])
    BY <1>1, <1>2 DEF Concerns, StateOf, PalaceWrite
  <2> QED
    BY <2>1, TurnsStay
<1>5. calls[k].at = "start" => calls[k].op = "unused"
  BY <1>2 DEF SilentInv, Unused
<1>6. CASE UNCHANGED <<stream, palace>>
  <2>1. UNCHANGED Stores!tsVars
    BY <1>4, <1>6 DEF Stores!tsVars
  <2> QED
    BY <1>2, <1>3, <2>1, OpsStays
<1>7. CASE stream' = stream \cup {k} /\ UNCHANGED palace /\ <<k, "publish">> \in requests
  <2>1. calls[k].op \in {"publish", "recall", "dual"} /\ calls[k].at # "start"
    BY <1>2, <1>5, <1>7 DEF OpInv
  <2>2. StateOf(calls[k]) # "none"
    BY <2>1 DEF StateOf
  <2>3. Stores!Append(k)
    BY <1>4, <1>7, <2>1, <2>2, TurnOf DEF Stores!Append, Stores!Publishes
  <2>4. k \in DOMAIN Turns
    BY TurnOf
  <2>5. Stores!TSNext
    BY <2>3, <2>4 DEF Stores!TSNext
  <2> QED
    BY <1>2, <1>3, <2>5, OpsStays
<1>8. ASSUME NEW path \in {"v1", "v5"}, palace' = palace \cup {<<k, path>>}, UNCHANGED stream,
             <<k, path>> \in requests, calls[k].op # "read"
      PROVE  Stores!TSNext
  <2>1. calls[k].op \in {"ingest", "dual"} /\ calls[k].at # "start"
    BY <1>2, <1>5, <1>8 DEF OpInv
  <2>2. calls[k].op = "dual" => calls[k].at \in {"v1", "v5", "end"} /\ ~calls[k].err
    BY <1>2, <1>8 DEF SilentInv, Untouched, Paths
  <2>3. calls[k].op = "dual" => k \in stream
    BY <1>2, <2>2 DEF StreamInv
  <2>4. StateOf(calls[k]) # "none" /\ (calls[k].op = "dual" => StateOf(calls[k]) # "failed")
    BY <2>1, <2>2 DEF StateOf
  <2>5. Stores!Copy(k, path)
    BY <1>4, <1>8, <2>1, <2>3, <2>4, TurnOf DEF Stores!Copy
  <2> QED
    BY <2>5, TurnOf DEF Stores!TSNext
<1> QED
  BY <1>2, <1>3, <1>6, <1>7, <1>8, OpsStays, ServeMoves

LEMMA Returns ==
  ASSUME IInv, IInv', OpsInv, NEW k \in Calls, Return(k)
  PROVE  OpsInv' /\ [Stores!TSNext]_(Stores!tsVars)
<1>1. /\ calls'[k].op = calls[k].op /\ calls[k].at \in Paths
      /\ UNCHANGED <<stream, palace>>
  BY ReturnMoves
<1>2. Concerns(k) /\ OpInv(k) /\ SilentInv(k)' /\ StreamInv(k)' /\ AnswerInv(k)' /\ TypeOK'
  BY ReturnInv DEF OpsInv, IInv, CallInv
<1>3. StateOf(calls[k]) = "open"
  BY <1>1 DEF StateOf, Paths
<1>4. CASE /\ calls'[k].at = "end" /\ UNCHANGED requests
           /\ calls[k].at = "publish" /\ ~calls'[k].err => k \in stream
  <2>1. OpInv(k)'
    BY <1>1, <1>2, <1>4 DEF OpInv
  <2>2. PICK state \in {"failed", "returned", "written"} : StateOf(calls'[k]) = state
    BY <1>4 DEF StateOf
  <2>3. state = "failed" /\ calls[k].op = "dual" => ~Stores!Copied(k)
    <3>1. state = "failed" => calls'[k].err
      BY <1>4, <2>2 DEF StateOf
    <3>2. calls[k].op = "dual" /\ calls'[k].err => <<k, "v1">> \notin palace /\ <<k, "v5">> \notin palace
      BY <1>1, <1>2 DEF SilentInv, Untouched
    <3>3. \A p \in palace : p[1] = k => p = <<k, "v1">> \/ p = <<k, "v5">>
      BY <1>1, <1>2 DEF TypeOK
    <3> QED
      BY <3>1, <3>2, <3>3 DEF Stores!Copied
  <2>4. state # "failed" /\ calls[k].op \in {"publish", "recall", "dual"} => k \in stream
    <3>1. state # "failed" => ~calls'[k].err
      BY <1>4, <2>2 DEF StateOf
    <3>2. calls[k].op = "dual" /\ ~calls'[k].err => k \in stream
      BY <1>1, <1>2, <1>4 DEF StreamInv
    <3>3. calls[k].op \in {"publish", "recall"} => calls[k].at = "publish"
      BY <1>1, <1>2 DEF OpInv, Paths
    <3> QED
      BY <1>4, <3>1, <3>2, <3>3
  <2>5. state = "written" => Stores!Copied(k)
    <3>1. state = "written" => calls'[k].op # "read" /\ PalaceWrite(calls'[k].response)
      BY <1>4, <2>2 DEF StateOf
    <3>2. state = "written" => <<k, calls'[k].path>> \in palace
      BY <1>1, <1>2, <3>1 DEF AnswerInv, PalaceWrite
    <3> QED
      BY <3>2 DEF Stores!Copied
  <2>6. Turns' = [Turns EXCEPT ![k].state = state]
    <3>1. Turns' = [Turns EXCEPT ![k] = [op |-> calls[k].op, state |-> state]]
      BY <1>1, <1>2, <2>2, TurnsStep
    <3> QED
      BY <3>1 DEF Turns
  <2>7. Stores!Leave(k, state)
    BY <1>1, <1>3, <2>3, <2>4, <2>5, <2>6, TurnOf DEF Stores!Leave, Stores!Publishes
  <2> QED
    BY <1>2, <2>1, <2>7, OpsStays, TurnOf DEF Stores!TSNext
<1>5. CASE /\ calls'[k].at \in {"v1", "v5"} /\ Send(k, calls'[k].at)
           /\ calls[k].at = "v1" \/ calls[k].op = "dual"
  <2>1. requests' \subseteq requests \cup {<<k, calls'[k].at>>}
    BY <1>5, SentOnly
  <2>2. OpInv(k)'
    BY <1>1, <1>2, <1>5, <2>1, AsksAsBefore
  <2>3. StateOf(calls'[k]) = StateOf(calls[k])
    BY <1>3, <1>5 DEF StateOf
  <2>4. \A j \in Calls : calls'[j].op = calls[j].op /\ StateOf(calls'[j]) = StateOf(calls[j])
    BY <1>1, <1>2, <2>3 DEF Concerns, StateOf, PalaceWrite
  <2> QED
    BY <1>1, <1>2, <2>2, <2>4, OpsStays, TurnsStay DEF Stores!tsVars
<1> QED
  BY <1>4, <1>5, ReturnMoves

\* Whatever the calls, their overlap and the answers they get, the memory plane keeps
\* the promise of the two stores.
THEOREM StoresRefinement == Spec => ImplementsTwoStores
<1>1. Init => Stores!TSInit
  BY DEF Init, Stores!TSInit, Turns, StateOf, Unused
<1>2. IInv /\ IInv' /\ OpsInv /\ [Next]_vars => OpsInv' /\ [Stores!TSNext]_(Stores!tsVars)
  <2> SUFFICES ASSUME IInv, IInv', OpsInv, [Next]_vars
               PROVE  OpsInv' /\ [Stores!TSNext]_(Stores!tsVars)
    OBVIOUS
  <2>1. CASE UNCHANGED vars
    BY <2>1 DEF vars, OpsInv, OpInv, Stores!tsVars, Turns, StateOf, PalaceWrite
  <2> QED
    BY <2>1, Begins, ContextStutters, Serves, Returns DEF Next
<1> QED
  BY <1>1, <1>2, OpsInit, InductiveInvariant, PTL DEF Spec, ImplementsTwoStores, Stores!TSSpec
=============================================================================
