----------------------------- MODULE RecordLog ------------------------------
(***************************************************************************)
(* What kafka.Client promises the goroutines that share it: a log to which *)
(* the calls append.  Each record is of a call that was begun and is       *)
(* stored at most once.  A call is open until it returns: with the offset  *)
(* of its record; with an error, which leaves open whether the record is   *)
(* or will be stored; or, a Close, with nothing, and then stores nothing.  *)
(***************************************************************************)
EXTENDS Naturals, Sequences

VARIABLES
  log,      \* the calls whose records are stored, in offset order
  begun,    \* the calls begun: 1 .. begun
  answer    \* what each call returned

rlVars == <<log, begun, answer>>

RLInit == log = <<>> /\ begun = 0 /\ \A k \in DOMAIN answer : answer[k].kind = "none"

Open(k) == k \in 1 .. begun /\ answer[k].kind = "none"

Stored(k) == \E n \in 1 .. Len(log) : log[n] = k

Call == begun' = begun + 1 /\ UNCHANGED <<log, answer>>

Store(k) ==
  /\ k \in 1 .. begun /\ answer[k].kind \in {"none", "error"} /\ ~Stored(k)
  /\ log' = Append(log, k)
  /\ UNCHANGED <<begun, answer>>

Answer(k, kind, offset) ==
  /\ Open(k)
  /\ kind = "offset" => offset \in 1 .. Len(log) /\ log[offset] = k
  /\ kind = "closed" => ~Stored(k)
  /\ answer' = [answer EXCEPT ![k] = [kind |-> kind, offset |-> offset]]
  /\ UNCHANGED <<log, begun>>

RLNext ==
  \/ Call
  \/ \E k \in DOMAIN answer :
       \/ Store(k)
       \/ \E n \in 1 .. Len(log) : Answer(k, "offset", n)
       \/ Answer(k, "error", 0) \/ Answer(k, "closed", 0)

RLSpec == RLInit /\ [][RLNext]_rlVars
=============================================================================
