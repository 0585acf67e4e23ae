----------------------------- MODULE StreamReplay -----------------------------
(***************************************************************************)
(* ListStreamMessages (streams.go): a reader replays a range of the stream  *)
(* page by page while others append to it.  The paging is the caller's: it  *)
(* asks again from the message after the last one it has and stops at an    *)
(* empty page.                                                              *)
(***************************************************************************)
EXTENDS Identity, Sequences, SequencesExt

CONSTANTS
  Readers,       \* callers that replay the stream
  Ranges,        \* the options they ask with: from, to, limit; 0 is none
  DefaultLimit,  \* the limit of a request that names none (100)
  MaxLimit       \* the most a request asks for (1000)

VARIABLES
  stream,  \* the messages of the stream; a sequence number is an index
  client,  \* the client of each caller
  view     \* each reader: where it is, its range, its page, what it has

ReplayInit ==
  view \in [Readers -> {[pc |-> "ask", opts |-> o, first |-> o.from, query |-> <<>>,
                         page |-> <<>>, got |-> <<>>, asOf |-> 0] : o \in Ranges}]

\* Mutation: the end of the range is left out of the query.
QueryNoEnd(o) ==
  [from_seq |-> IF o.from = 0 THEN 1 ELSE o.from, to_seq |-> 0,
   limit |-> IF o.limit <= 0 THEN DefaultLimit ELSE IF o.limit > MaxLimit THEN MaxLimit ELSE o.limit]

\* The zero values of the options become the broker's defaults.
Query(o) ==
  [from_seq |-> IF o.from = 0 THEN 1 ELSE o.from, to_seq |-> o.to,
   limit |-> IF o.limit <= 0 THEN DefaultLimit ELSE IF o.limit > MaxLimit THEN MaxLimit ELSE o.limit]

ListStreamMessages(r) ==
  /\ view[r].pc = "ask"
  /\ view' = [view EXCEPT ![r] =
       IF ensureOrgForIsolation(client[r])
       THEN [@ EXCEPT !.pc = "sent", !.query = Query(view[r].opts)]
       ELSE [@ EXCEPT !.pc = "refused"]]
  /\ UNCHANGED <<stream, client>>

\* What the broker shows a client: with an organization only that one's messages,
\* without one everything.
MayRead(c, m) ==
  LET h == applyAuthHeaders(c)
  IN  "org" \in DOMAIN h => "org" \in DOMAIN m.headers /\ m.headers["org"] = h["org"]

\* The messages of the range that the broker shows a client.
Shown(c, q) ==
  {k \in 1 .. Len(stream) :
     q.from_seq <= k /\ (q.to_seq = 0 \/ k <= q.to_seq) /\ MayRead(c, stream[k])}

\* Its page: the first of them in order, as many as the limit allows.
IsPage(seqs, shown, limit) ==
  /\ \A i, j \in DOMAIN seqs : i < j => seqs[i] < seqs[j]
  /\ \A k \in shown :
       \/ \E i \in DOMAIN seqs : seqs[i] = k
       \/ Len(seqs) = limit /\ \A i \in DOMAIN seqs : seqs[i] < k

PageOf(c, q) ==
  {seqs \in SeqOf(Shown(c, q), q.limit) : IsPage(seqs, Shown(c, q), q.limit)}

\* The payload of a message travels as base64, or as it is if the broker does not
\* encode: a JSON object is never base64.
WireMessage(k, encoded) == [seq |-> k, payload |-> [base64 |-> encoded, of |-> stream[k].body]]

ServeMessages(r) ==
  /\ view[r].pc = "sent"
  /\ \E seqs \in PageOf(client[r], view[r].query), encoded \in BOOLEAN :
       view' = [view EXCEPT ![r] =
         [@ EXCEPT !.pc = "answered", !.asOf = Len(stream),
                   !.page = [k \in DOMAIN seqs |-> WireMessage(seqs[k], encoded)]]]
  /\ UNCHANGED <<stream, client>>

\* doJSON returns an error: the reader asks for the same page again.
ListFails(r) ==
  /\ view[r].pc = "sent"
  /\ view' = [view EXCEPT ![r].pc = "ask"]
  /\ UNCHANGED <<stream, client>>

\* The bytes of the base64 text, or the text if it is not base64.
decodeStreamPayload(s) == s.of

\* An absent list is an empty one.
TakeMessages(r) ==
  /\ view[r].pc = "answered"
  /\ LET msgs == [k \in DOMAIN view[r].page |->
                    [seq |-> view[r].page[k].seq, payload |-> decodeStreamPayload(view[r].page[k].payload)]]
     IN  view' = [view EXCEPT ![r] =
           IF msgs = <<>> THEN [view[r] EXCEPT !.pc = "done"]
           ELSE [view[r] EXCEPT !.pc = "ask", !.got = @ \o msgs, !.page = <<>>,
                                !.opts = [@ EXCEPT !.from = Last(msgs).seq + 1]]]
  /\ UNCHANGED <<stream, client>>

ReplayNext ==
  \E r \in Readers :
    ListStreamMessages(r) \/ ServeMessages(r) \/ ListFails(r) \/ TakeMessages(r)
-----------------------------------------------------------------------------
(* Properties. *)

\* A finished replay has every message of the range that the broker showed this
\* client when it served the last page, in order, once, and as it was published,
\* however the pages cut it, whatever was appended in between and however often a
\* page was asked for again.
ReplayExact ==
  \A r \in Readers : view[r].pc = "done" =>
    LET o == view[r].opts
        got == view[r].got
        wanted == {k \in 1 .. view[r].asOf :
                     /\ view[r].first <= k /\ (o.to = 0 \/ k <= o.to)
                     /\ MayRead(client[r], stream[k])}
    IN  /\ {got[i].seq : i \in DOMAIN got} = wanted
        /\ \A i, j \in DOMAIN got : i < j => got[i].seq < got[j].seq
        /\ \A i \in DOMAIN got : got[i].payload = stream[got[i].seq].body
-----------------------------------------------------------------------------
(* The inductive invariant behind it: what a reader has and what its page is   *)
(* of, as the stream was when that page was served.                            *)

\* The first message the reader has not asked for yet.
Pending(r) == IF view[r].opts.from = 0 THEN 1 ELSE view[r].opts.from

\* What the reader is to get of the stream that the last page showed.
Wants(r, k) ==
  /\ k \in 1 .. view[r].asOf /\ view[r].first <= k
  /\ view[r].opts.to = 0 \/ k <= view[r].opts.to
  /\ MayRead(client[r], stream[k])

IsSequence(s) == s \in Seq({s[i] : i \in DOMAIN s})

ViewShape(r) ==
  /\ DOMAIN view[r] = {"pc", "opts", "first", "query", "page", "got", "asOf"}
  /\ view[r].opts \in [from : Nat, to : Nat, limit : Int]
  /\ view[r].first \in Nat /\ view[r].first <= Pending(r)
  /\ view[r].asOf \in 0 .. Len(stream)
  /\ IsSequence(view[r].got)

\* The messages of a list are wanted ones in order, each with its payload.
Truthful(r, list) ==
  /\ \A i, j \in DOMAIN list : i < j => list[i].seq < list[j].seq
  /\ \A i \in DOMAIN list :
       Wants(r, list[i].seq) /\ list[i].payload = stream[list[i].seq].body

GotTrue(r) ==
  /\ Truthful(r, view[r].got)
  /\ \A i \in DOMAIN view[r].got : view[r].got[i].seq < Pending(r)
  /\ \A k \in 1 .. Pending(r) - 1 : view[r].first <= k =>
       /\ k <= view[r].asOf
       /\ Wants(r, k) => \E i \in DOMAIN view[r].got : view[r].got[i].seq = k

PageTrue(r) ==
  LET page == view[r].page IN
  /\ IsSequence(page)
  /\ \A i, j \in DOMAIN page : i < j => page[i].seq < page[j].seq
  /\ \A i \in DOMAIN page :
       /\ Wants(r, page[i].seq) /\ Pending(r) <= page[i].seq
       /\ page[i].payload.of = stream[page[i].seq].body
  /\ \A k \in Pending(r) .. view[r].asOf : Wants(r, k) =>
       \/ \E i \in DOMAIN page : page[i].seq = k
       \/ DOMAIN page # {} /\ \A i \in DOMAIN page : page[i].seq < k

ViewInv(r) ==
  /\ ViewShape(r) /\ GotTrue(r)
  /\ view[r].pc = "sent" => view[r].query = Query(view[r].opts)
  /\ view[r].pc = "answered" => PageTrue(r)
  /\ view[r].pc = "done" =>
       \A k \in 1 .. view[r].asOf : Wants(r, k) =>
         \E i \in DOMAIN view[r].got : view[r].got[i].seq = k
  /\ view[r].pc \notin {"ask", "refused"} \/ DOMAIN view[r].got # {} =>
       ensureOrgForIsolation(client[r])

ReplayInv == DOMAIN view = Readers /\ \A r \in Readers : ViewInv(r)
===============================================================================
