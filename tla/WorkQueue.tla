----------------------------- MODULE WorkQueue ------------------------------
(***************************************************************************)
(* What the pull-consumer calls of the SDK promise their callers together: *)
(* a work queue with at-least-once delivery.  Messages are accepted into a *)
(* stream; whole messages are handed to workers, some of them several      *)
(* times; only what was handed out is acknowledged; and a caller counts a  *)
(* message as done only when its acknowledgement is on record.             *)
(***************************************************************************)
EXTENDS Naturals, Sequences

VARIABLES
  stream,      \* the messages accepted, in order
  handed,      \* the positions some worker was handed
  acked,       \* acknowledgements on record, by consumer generation
  confirmed    \* acknowledgements the callers know of

wqVars == <<stream, handed, acked, confirmed>>

WQInit == stream = <<>> /\ handed = {} /\ acked = {} /\ confirmed = {}

Accept ==
  /\ Len(stream') = Len(stream) + 1
  /\ \A s \in 1 .. Len(stream) : stream'[s] = stream[s]
  /\ UNCHANGED <<handed, acked, confirmed>>

Hand ==
  /\ handed \subseteq handed'
  /\ \A s \in handed' : s \in 1 .. Len(stream) /\ stream[s].good
  /\ UNCHANGED <<stream, acked, confirmed>>

Record ==
  /\ acked \subseteq acked'
  /\ \A p \in acked' : p[2] \in handed
  /\ UNCHANGED <<stream, handed, confirmed>>

Confirm ==
  /\ confirmed \subseteq confirmed'
  /\ confirmed' \subseteq acked
  /\ UNCHANGED <<stream, handed, acked>>

WQNext == Accept \/ Hand \/ Record \/ Confirm

WQSpec == WQInit /\ [][WQNext]_wqVars
=============================================================================
