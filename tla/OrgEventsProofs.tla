---------------------------- MODULE OrgEventsProofs ----------------------------
(***************************************************************************)
(* For any number of goroutines, readers, maps, webhooks and events: no   *)
(* identity gets into an event from nowhere and no race without a shared  *)
(* payload, a webhook delivered again is recognised, a replay has what it *)
(* asked for, and organizations stay apart.                               *)
(***************************************************************************)
EXTENDS OrgEvents, TLAPS

StreamIsSequence == \E S : stream \in Seq(S)

IInv == Emit!EmitInv /\ StreamIsSequence

-----------------------------------------------------------------------------
(* Facts about sequences and functions. *)

LEMMA Appended ==
  ASSUME NEW S, NEW s \in Seq(S), NEW x
  PROVE  /\ Append(s, x) \in Seq(S \cup {x})
         /\ Len(Append(s, x)) = Len(s) + 1 /\ Len(s) \in Nat
         /\ Append(s, x)[Len(s) + 1] = x
         /\ \A i \in 1 .. Len(s) : Append(s, x)[i] = s[i]
OBVIOUS

LEMMA EmptyMap == DOMAIN <<>> = {}
OBVIOUS

\* Each value of a filled map is one of the two it was made of.
LEMMA FilledFrom ==
  ASSUME NEW base, NEW more, NEW k \in DOMAIN Emit!Filled(base, more)
  PROVE  \/ k \in DOMAIN base /\ Emit!Filled(base, more)[k] = base[k]
         \/ k \in DOMAIN more /\ Emit!Filled(base, more)[k] = more[k]
BY DEF Emit!Filled

-----------------------------------------------------------------------------
(* The sources of a value only grow. *)

Grows ==
  /\ client' = client /\ given' = given
  /\ \A m \in Maps : users[m] \subseteq users'[m]

LEMMA NamedKept ==
  ASSUME Grows
  PROVE  \A p, k : Emit!Named(p, k)' = Emit!Named(p, k)
BY DEF Grows, Emit!Named

LEMMA MapSourcesGrow ==
  ASSUME Grows, NEW m \in Maps, NEW k
  PROVE  Emit!MapSources(m, k) \subseteq Emit!MapSources(m, k)'
BY NamedKept DEF Grows, Emit!MapSources

LEMMA SourcesGrow ==
  ASSUME Grows, NEW p, NEW e, NEW k
  PROVE  Emit!Sources(p, e, k) \subseteq Emit!Sources(p, e, k)'
BY NamedKept, MapSourcesGrow DEF Emit!Sources
-----------------------------------------------------------------------------
(* What a step leaves of a goroutine that it does not concern. *)

\* Goroutine q is where it was, and so is its own map.
Kept(q) == pc'[q] = pc[q] /\ ev'[q] = ev[q] /\ maps'[q] = maps[q]

LEMMA UsersGrow ==
  ASSUME Grows, NEW p, NEW m \in Maps, p \in users[m]
  PROVE  p \in users'[m]
BY DEF Grows

LEMMA PayloadKept ==
  ASSUME Grows, NEW q \in Procs, pc'[q] = pc[q], ev'[q] = ev[q], Emit!PayloadInv(q)
  PROVE  Emit!PayloadInv(q)'
<1>1. pc[q] = "extra" => ev[q].payload = q
  BY DEF Emit!PayloadInv
<1>2. ev[q].extra \in Maps \cup {NoMap}
  BY DEF Emit!PayloadInv
<1>3. ev[q].payload # q => ev[q].payload \in Maps /\ q \in users'[ev[q].payload]
  BY UsersGrow DEF Emit!PayloadInv
<1>4. ev[q].tenant \in Emit!Named(q, "tenant")'
         \cup (IF ev[q].payload = q THEN Emit!At(ev[q].asked, "tenant") ELSE {})
  BY NamedKept DEF Emit!PayloadInv
<1> QED BY <1>1, <1>2, <1>3, <1>4 DEF Emit!PayloadInv, Emit!At

LEMMA EventKept ==
  ASSUME Grows, NEW q \in Procs, Kept(q), Emit!EventTraceable(q)
  PROVE  Emit!EventTraceable(q)'
<1>1. ASSUME ev[q].payload = q, NEW k \in DOMAIN maps[q] \cap Emit!Keys
      PROVE  maps[q][k] \in Emit!Sources(q, ev[q], k)'
  <2>1. maps[q][k] \in Emit!Sources(q, ev[q], k)
    BY <1>1 DEF Emit!EventTraceable
  <2> QED BY <2>1, SourcesGrow DEF Kept
<1>2. ASSUME pc[q] = "publish", NEW k \in DOMAIN ev[q].raw \cap Emit!Keys
      PROVE  ev[q].raw[k] \in Emit!Sources(q, ev[q], k)'
  <2>1. ev[q].raw[k] \in Emit!Sources(q, ev[q], k)
    BY <1>2 DEF Emit!EventTraceable
  <2> QED BY <2>1, SourcesGrow DEF Kept
<1> QED BY <1>1, <1>2 DEF Emit!EventTraceable, Kept

LEMMA MapKept ==
  ASSUME Grows, NEW m \in Maps, maps'[m] = maps[m], Emit!MapsTraceable
  PROVE  \A k \in DOMAIN maps'[m] \cap Emit!Keys : maps'[m][k] \in Emit!MapSources(m, k)'
BY MapSourcesGrow DEF Emit!MapsTraceable
\* A step of goroutine p keeps the invariant if it does for p.
LEMMA OneMoves ==
  ASSUME Emit!EmitInv, Grows, NEW p \in Procs,
         \A q \in Procs \ {p} : Kept(q),
         Emit!Shape', Emit!MapsTraceable',
         pc'[p] # "idle" => Emit!PayloadInv(p)' /\ Emit!EventTraceable(p)',
         Emit!IdentityIsTraceable', Emit!CrashNeedsSharedPayload'
  PROVE  Emit!EmitInv'
<1>1. ASSUME NEW q \in Procs, pc'[q] # "idle"
      PROVE  Emit!PayloadInv(q)' /\ Emit!EventTraceable(q)'
  <2>1. CASE q = p
    BY <1>1, <2>1
  <2>2. CASE q # p
    BY <1>1, <2>2, PayloadKept, EventKept DEF Emit!EmitInv, Kept
  <2> QED BY <2>1, <2>2
<1> QED BY <1>1 DEF Emit!EmitInv

LEMMA StreamKept ==
  ASSUME Grows, stream' = stream, Emit!IdentityIsTraceable
  PROVE  Emit!IdentityIsTraceable'
<1>1. ASSUME NEW i \in Emit!Emits', NEW k \in DOMAIN stream'[i].body \cap Emit!Keys
      PROVE  stream'[i].body[k] \in Emit!Sources(stream[i].by, stream[i], k)'
  <2>1. i \in Emit!Emits
    BY <1>1 DEF Emit!Emits
  <2>2. stream[i].body[k] \in Emit!Sources(stream[i].by, stream[i], k)
    BY <1>1, <2>1 DEF Emit!IdentityIsTraceable
  <2> QED BY <2>2, SourcesGrow
<1> QED BY <1>1 DEF Emit!IdentityIsTraceable

\* A new message is not of a goroutine or is traceable itself.
LEMMA StreamAppended ==
  ASSUME Grows, StreamIsSequence, Emit!IdentityIsTraceable,
         NEW x, stream' = Append(stream, x),
         x.by \in Procs =>
           \A k \in DOMAIN x.body \cap Emit!Keys : x.body[k] \in Emit!Sources(x.by, x, k)
  PROVE  Emit!IdentityIsTraceable' /\ StreamIsSequence'
<1>1. PICK S : stream \in Seq(S)
  BY DEF StreamIsSequence
<1>2. /\ stream' \in Seq(S \cup {x})
      /\ Len(stream') = Len(stream) + 1 /\ Len(stream) \in Nat
      /\ stream'[Len(stream) + 1] = x
      /\ \A i \in 1 .. Len(stream) : stream'[i] = stream[i]
  BY <1>1, Appended
<1>3. ASSUME NEW i \in Emit!Emits', NEW k \in DOMAIN stream'[i].body \cap Emit!Keys
      PROVE  stream'[i].body[k] \in Emit!Sources(stream[i].by, stream[i], k)'
  <2>1. stream'[i].by \in Procs /\ i \in 1 .. Len(stream')
    BY DEF Emit!Emits
  <2>2. CASE i = Len(stream) + 1
    <3>1. stream'[i].body[k] \in Emit!Sources(stream'[i].by, stream'[i], k)
      BY <1>2, <2>1, <2>2, <1>3
    <3> QED BY <3>1, SourcesGrow
  <2>3. CASE i \in 1 .. Len(stream)
    <3>1. i \in Emit!Emits /\ stream'[i] = stream[i]
      BY <1>2, <2>1, <2>3 DEF Emit!Emits
    <3>2. stream[i].body[k] \in Emit!Sources(stream[i].by, stream[i], k)
      BY <3>1, <1>3 DEF Emit!IdentityIsTraceable
    <3> QED BY <3>1, <3>2, SourcesGrow
  <2> QED BY <1>2, <2>1, <2>2, <2>3
<1> QED BY <1>2, <1>3 DEF Emit!IdentityIsTraceable, StreamIsSequence

-----------------------------------------------------------------------------
(* The actions that emit an event. *)

LEMMA Begun ==
  ASSUME NEW p \in Procs, NEW e, NEW at, DOMAIN e = DOMAIN Emit!NoEvent,
         Emit!Shape, Emit!Begin(p, e, at)
  PROVE  /\ ev'[p] = e /\ pc'[p] = at /\ stream' = stream /\ crashed' = crashed
         /\ \A q \in Procs \ {p} : pc'[q] = pc[q] /\ ev'[q] = ev[q]
         /\ Emit!IsFunction(pc, Procs)' /\ Emit!IsFunction(ev, Procs)'
         /\ \A q \in Procs : DOMAIN ev'[q] = DOMAIN Emit!NoEvent
BY DEF Emit!Begin, Emit!Shape, Emit!IsFunction

LEMMA TenantNamed ==
  ASSUME NEW p, NEW t
  PROVE  Emit!TenantOf(p, t) \in Emit!Named(p, "tenant") \cup {t}
BY DEF Emit!TenantOf, Emit!Named

LEMMA EmitDeptEventInv ==
  ASSUME IInv, NEW p \in Procs, NEW m \in Maps \cup {NoMap}, NEW t \in Tenants,
         Emit!EmitDeptEvent(p, m, t)
  PROVE  IInv'
<1> DEFINE e == [Emit!NoEvent EXCEPT !.payload = IF m = NoMap THEN p ELSE m,
                                     !.tenant = Emit!TenantOf(p, t)]
<1>0. Emit!EmitInv /\ Emit!Shape /\ p \notin Maps
  BY NamesAssumption DEF IInv, Emit!EmitInv
<1>1. Emit!Begin(p, e, "enrich")
  BY DEF Emit!EmitDeptEvent
<1>2. /\ e.payload = (IF m = NoMap THEN p ELSE m) /\ e.extra = NoMap
      /\ e.tenant = Emit!TenantOf(p, t) /\ e.asked = <<>>
      /\ DOMAIN e = DOMAIN Emit!NoEvent
  BY DEF Emit!NoEvent
<1>3. client' = client /\ given' = given
  BY <1>1 DEF Emit!Begin
<1> HIDE DEF e
<1>4. /\ ev'[p] = e /\ pc'[p] = "enrich" /\ stream' = stream /\ crashed' = crashed
      /\ \A q \in Procs \ {p} : pc'[q] = pc[q] /\ ev'[q] = ev[q]
      /\ Emit!IsFunction(pc, Procs)' /\ Emit!IsFunction(ev, Procs)'
      /\ \A q \in Procs : DOMAIN ev'[q] = DOMAIN Emit!NoEvent
  BY <1>0, <1>1, <1>2, Begun
<1>5. Grows /\ Emit!IsFunction(users, Maps)'
  BY <1>0, <1>3 DEF Emit!EmitDeptEvent, Grows, Emit!Shape, Emit!IsFunction
<1>6. /\ \A q \in (Maps \cup Procs) \ {p} : maps'[q] = maps[q]
      /\ Emit!IsFunction(maps, Maps \cup Procs)'
      /\ m = NoMap => maps'[p] = <<>>
  BY <1>0 DEF Emit!EmitDeptEvent, Emit!Shape, Emit!IsFunction
<1>7. Emit!MapsTraceable'
  BY <1>0, <1>5, <1>6, MapKept DEF Emit!EmitInv, Emit!MapsTraceable
<1>8. Emit!PayloadInv(p)'
  <2>1. m # NoMap => m \in Maps /\ p \in users'[m]
    BY <1>0 DEF Emit!EmitDeptEvent, Emit!Shape, Emit!IsFunction
  <2>2. e.tenant \in Emit!Named(p, "tenant")'
    <3>1. t \in Emit!Named(p, "tenant")
      BY DEF Emit!Named
    <3>2. Emit!TenantOf(p, t) \in Emit!Named(p, "tenant")
      BY <3>1, TenantNamed
    <3> QED BY <1>2, <1>5, <3>2, NamedKept
  <2> QED BY <1>2, <1>4, <2>1, <2>2, NamesAssumption DEF Emit!PayloadInv
<1>9. Emit!EventTraceable(p)'
  BY <1>0, <1>2, <1>4, <1>6, EmptyMap DEF Emit!EventTraceable
<1>10. Emit!IdentityIsTraceable'
  BY <1>0, <1>4, <1>5, StreamKept DEF Emit!EmitInv
<1>11. Emit!CrashNeedsSharedPayload' /\ StreamIsSequence'
  BY <1>1, <1>4, <1>5 DEF IInv, Emit!Begin, Emit!Running, Emit!CrashNeedsSharedPayload, StreamIsSequence
<1>12. \A q \in Procs \ {p} : Kept(q)
  BY <1>4, <1>6 DEF Kept
<1>13. Emit!Shape'
  BY <1>4, <1>5, <1>6 DEF Emit!Shape
<1>14. Emit!EmitInv'
  BY <1>0, <1>5, <1>7, <1>8, <1>9, <1>10, <1>11, <1>12, <1>13, OneMoves
<1> QED BY <1>11, <1>14 DEF IInv

LEMMA EmitLLMCallInv ==
  ASSUME IInv, NEW p \in Procs, NEW call \in LLMCalls, NEW extra \in Maps \cup {NoMap},
         Emit!EmitLLMCall(p, call, extra)
  PROVE  IInv'
<1> DEFINE t == IF "tenant" \in DOMAIN call THEN call["tenant"] ELSE ""
           e == [Emit!NoEvent EXCEPT !.payload = p, !.extra = extra, !.asked = call,
                                     !.tenant = Emit!TenantOf(p, t)]
<1>0. Emit!EmitInv /\ Emit!Shape /\ p \notin Maps
  BY NamesAssumption DEF IInv, Emit!EmitInv
<1>1. Emit!Begin(p, e, "extra")
  BY DEF Emit!EmitLLMCall
<1>2. /\ e.payload = p /\ e.extra = extra /\ e.asked = call
      /\ e.tenant = Emit!TenantOf(p, t)
      /\ DOMAIN e = DOMAIN Emit!NoEvent
  BY DEF Emit!NoEvent
<1>3. client' = client /\ given' = given
  BY <1>1 DEF Emit!Begin
<1>t. e.tenant \in Emit!Named(p, "tenant") \cup Emit!At(call, "tenant")
  <2>1. CASE "tenant" \in DOMAIN call
    BY <1>2, <2>1, TenantNamed DEF Emit!At
  <2>2. CASE "tenant" \notin DOMAIN call
    BY <1>2, <2>2 DEF Emit!TenantOf, Emit!Named
  <2> QED BY <2>1, <2>2
<1> HIDE DEF e
<1>4. /\ ev'[p] = e /\ pc'[p] = "extra" /\ stream' = stream /\ crashed' = crashed
      /\ \A q \in Procs \ {p} : pc'[q] = pc[q] /\ ev'[q] = ev[q]
      /\ Emit!IsFunction(pc, Procs)' /\ Emit!IsFunction(ev, Procs)'
      /\ \A q \in Procs : DOMAIN ev'[q] = DOMAIN Emit!NoEvent
  BY <1>0, <1>1, <1>2, Begun
<1>5. Grows /\ users' = users
  BY <1>3 DEF Emit!EmitLLMCall, Grows
<1>6. /\ \A q \in (Maps \cup Procs) \ {p} : maps'[q] = maps[q]
      /\ Emit!IsFunction(maps, Maps \cup Procs)'
      /\ maps'[p] = call
  BY <1>0 DEF Emit!EmitLLMCall, Emit!Shape, Emit!IsFunction
<1>7. Emit!MapsTraceable'
  BY <1>0, <1>5, <1>6, MapKept DEF Emit!EmitInv, Emit!MapsTraceable
<1>8. Emit!PayloadInv(p)'
  <2>1. e.tenant \in Emit!Named(p, "tenant")' \cup Emit!At(call, "tenant")
    BY <1>t, <1>5, NamedKept
  <2> QED BY <1>2, <1>4, <2>1 DEF Emit!PayloadInv, Emit!At
<1>9. Emit!EventTraceable(p)'
  <2>1. ASSUME NEW k \in DOMAIN call
        PROVE  call[k] \in Emit!Sources(p, ev[p], k)'
    BY <1>2, <1>4, <2>1 DEF Emit!Sources, Emit!At
  <2> QED BY <1>4, <1>6, <2>1 DEF Emit!EventTraceable
<1>10. Emit!IdentityIsTraceable'
  BY <1>0, <1>4, <1>5, StreamKept DEF Emit!EmitInv
<1>11. Emit!CrashNeedsSharedPayload' /\ StreamIsSequence'
  BY <1>1, <1>4, <1>5 DEF IInv, Emit!Begin, Emit!Running, Emit!CrashNeedsSharedPayload, StreamIsSequence
<1>12. \A q \in Procs \ {p} : Kept(q)
  BY <1>4, <1>6 DEF Kept
<1>13. Emit!Shape'
  BY <1>0, <1>4, <1>5, <1>6 DEF Emit!Shape, Emit!IsFunction
<1>14. Emit!EmitInv'
  BY <1>0, <1>5, <1>7, <1>8, <1>9, <1>10, <1>11, <1>12, <1>13, OneMoves
<1> QED BY <1>11, <1>14 DEF IInv

-----------------------------------------------------------------------------
(* The steps of an event that is under way. *)

\* What a step that leaves clients, callers and the stream alone keeps.
LEMMA QuietStep ==
  ASSUME IInv, UNCHANGED <<stream, client, crashed, users, given>>, Emit!Running
  PROVE  /\ Grows /\ Emit!IdentityIsTraceable' /\ StreamIsSequence'
         /\ Emit!CrashNeedsSharedPayload'
<1>1. Grows
  BY DEF Grows
<1>2. Emit!IdentityIsTraceable'
  BY <1>1, StreamKept DEF IInv, Emit!EmitInv
<1> QED BY <1>1, <1>2 DEF IInv, Emit!Running, Emit!CrashNeedsSharedPayload, StreamIsSequence

LEMMA CopyExtraInv ==
  ASSUME IInv, NEW p \in Procs, Emit!CopyExtra(p)
  PROVE  IInv'
<1>0. /\ Emit!EmitInv /\ Emit!Shape /\ p \notin Maps /\ pc[p] = "extra"
      /\ Emit!PayloadInv(p) /\ Emit!EventTraceable(p)
  BY NamesAssumption DEF IInv, Emit!EmitInv, Emit!CopyExtra
<1>1. /\ Grows /\ Emit!IdentityIsTraceable' /\ StreamIsSequence'
      /\ Emit!CrashNeedsSharedPayload'
  BY QuietStep DEF Emit!CopyExtra
<1>2. /\ ev' = ev /\ users' = users /\ pc'[p] = "enrich"
      /\ \A q \in Procs \ {p} : pc'[q] = pc[q]
      /\ Emit!IsFunction(pc, Procs)'
  BY <1>0 DEF Emit!CopyExtra, Emit!ExtraPayload, Emit!Shape, Emit!IsFunction
<1>3. /\ \A q \in (Maps \cup Procs) \ {p} : maps'[q] = maps[q]
      /\ Emit!IsFunction(maps, Maps \cup Procs)'
      /\ maps'[p] = IF ev[p].extra = NoMap THEN maps[p]
                    ELSE Emit!Filled(maps[ev[p].extra], maps[p])
  BY <1>0 DEF Emit!CopyExtra, Emit!ExtraPayload, Emit!Shape, Emit!IsFunction
<1>4. Emit!MapsTraceable'
  BY <1>0, <1>1, <1>3, MapKept DEF Emit!EmitInv, Emit!MapsTraceable
<1>5. Emit!PayloadInv(p)'
  <2>1. ev[p].payload = p /\ ev[p].extra \in Maps \cup {NoMap}
    BY <1>0 DEF Emit!PayloadInv
  <2>2. ev[p].tenant \in Emit!Named(p, "tenant")' \cup Emit!At(ev[p].asked, "tenant")
    BY <1>0, <1>1, <2>1, NamedKept DEF Emit!PayloadInv
  <2> QED BY <1>2, <2>1, <2>2 DEF Emit!PayloadInv, Emit!At
<1>6. Emit!EventTraceable(p)'
  <2>1. ASSUME NEW k \in DOMAIN maps'[p] \cap Emit!Keys
        PROVE  maps'[p][k] \in Emit!Sources(p, ev[p], k)
    <3>1. ASSUME k \in DOMAIN maps[p]
          PROVE  maps[p][k] \in Emit!Sources(p, ev[p], k)
      BY <1>0, <3>1, <2>1 DEF Emit!EventTraceable, Emit!PayloadInv
    <3>2. CASE ev[p].extra = NoMap
      BY <1>3, <2>1, <3>1, <3>2
    <3>3. CASE ev[p].extra # NoMap
      <4> DEFINE m == ev[p].extra
      <4>1. m \in Maps
        BY <1>0, <3>3 DEF Emit!PayloadInv
      <4>2. ASSUME k \in DOMAIN maps[m]
            PROVE  maps[m][k] \in Emit!Sources(p, ev[p], k)
        <5>1. maps[m][k] \in Emit!MapSources(m, k)
          BY <1>0, <2>1, <4>1, <4>2 DEF Emit!EmitInv, Emit!MapsTraceable
        <5> QED BY <4>1, <5>1 DEF Emit!Sources
      <4>3. maps'[p] = Emit!Filled(maps[m], maps[p])
        BY <1>3, <3>3
      <4> HIDE DEF m
      <4> QED BY <2>1, <3>1, <4>2, <4>3, FilledFrom
    <3> QED BY <3>2, <3>3
  <2> QED BY <1>1, <1>2, <2>1, SourcesGrow DEF Emit!EventTraceable
<1>7. \A q \in Procs \ {p} : Kept(q)
  BY <1>2, <1>3 DEF Kept
<1>8. Emit!Shape'
  BY <1>0, <1>2, <1>3 DEF Emit!Shape, Emit!IsFunction
<1>9. Emit!EmitInv'
  BY <1>0, <1>1, <1>2, <1>4, <1>5, <1>6, <1>7, <1>8, OneMoves
<1> QED BY <1>1, <1>9 DEF IInv

\* What the client adds is its own or the tenant of the event.
LEMMA OwnNamed ==
  ASSUME NEW p, NEW k \in DOMAIN Emit!Own(p)
  PROVE  /\ k \in Emit!Keys
         /\ Emit!Own(p)[k] \in Emit!Named(p, k) \/ (k = "tenant" /\ Emit!Own(p)[k] = ev[p].tenant)
<1>1. k \in {"org", "workspace", "tenant"}
  BY DEF Emit!Own, Emit!Keys
<1>2. CASE k = "org"
  BY <1>2 DEF Emit!Own, Emit!Named, Emit!Keys
<1>3. CASE k = "workspace"
  BY <1>3 DEF Emit!Own, Emit!Named, Emit!Keys
<1>4. CASE k = "tenant"
  BY <1>4 DEF Emit!Own, Emit!Keys
<1> QED BY <1>1, <1>2, <1>3, <1>4

LEMMA EnrichInv ==
  ASSUME IInv, NEW p \in Procs, Emit!Enrich(p)
  PROVE  IInv'
<1> DEFINE m == ev[p].payload
<1>0. /\ Emit!EmitInv /\ Emit!Shape /\ p \notin Maps /\ pc[p] = "enrich"
      /\ Emit!PayloadInv(p) /\ Emit!EventTraceable(p)
      /\ m = p \/ (m \in Maps /\ p \in users[m])
  BY NamesAssumption DEF IInv, Emit!EmitInv, Emit!Enrich, Emit!PayloadInv
<1>1. /\ Grows /\ Emit!IdentityIsTraceable' /\ StreamIsSequence'
      /\ Emit!CrashNeedsSharedPayload'
  BY QuietStep DEF Emit!Enrich
<1>2. /\ ev' = ev /\ users' = users /\ pc'[p] = "marshal"
      /\ \A q \in Procs \ {p} : pc'[q] = pc[q]
      /\ Emit!IsFunction(pc, Procs)'
  BY <1>0 DEF Emit!Enrich, Emit!Shape, Emit!IsFunction
<1>3. /\ \A q \in (Maps \cup Procs) \ {m} : maps'[q] = maps[q]
      /\ Emit!IsFunction(maps, Maps \cup Procs)'
      /\ maps'[m] = Emit!Filled(maps[m], Emit!Own(p))
  BY <1>0 DEF Emit!Enrich, Emit!Shape, Emit!IsFunction
<1>4. ASSUME m \in Maps, NEW k \in DOMAIN maps'[m] \cap Emit!Keys
      PROVE  maps'[m][k] \in Emit!MapSources(m, k)
  <2>1. ASSUME k \in DOMAIN maps[m]
        PROVE  maps[m][k] \in Emit!MapSources(m, k)
    BY <1>0, <1>4, <2>1 DEF Emit!EmitInv, Emit!MapsTraceable
  <2>2. ASSUME k \in DOMAIN Emit!Own(p)
        PROVE  Emit!Own(p)[k] \in Emit!MapSources(m, k)
    <3>1. ev[p].tenant \in Emit!Named(p, "tenant") /\ p \in users[m]
      BY <1>0, <1>4 DEF Emit!PayloadInv
    <3>2. Emit!Own(p)[k] \in Emit!Named(p, k)
      BY <2>2, <3>1, OwnNamed
    <3> QED BY <3>1, <3>2 DEF Emit!MapSources
  <2> HIDE DEF m
  <2> QED BY <1>3, <1>4, <2>1, <2>2, FilledFrom
<1>5. ASSUME m = p, NEW k \in DOMAIN maps'[p] \cap Emit!Keys
      PROVE  maps'[p][k] \in Emit!Sources(p, ev[p], k)
  <2>1. ASSUME k \in DOMAIN maps[p]
        PROVE  maps[p][k] \in Emit!Sources(p, ev[p], k)
    BY <1>0, <1>5, <2>1 DEF Emit!EventTraceable
  <2>2. ASSUME k \in DOMAIN Emit!Own(p)
        PROVE  Emit!Own(p)[k] \in Emit!Sources(p, ev[p], k)
    <3>1. ev[p].tenant \in Emit!Named(p, "tenant") \cup Emit!At(ev[p].asked, "tenant")
      BY <1>0, <1>5 DEF Emit!PayloadInv
    <3> QED BY <2>2, <3>1, OwnNamed DEF Emit!Sources
  <2>3. maps'[p] = Emit!Filled(maps[p], Emit!Own(p))
    BY <1>3, <1>5
  <2> QED BY <1>5, <2>1, <2>2, <2>3, FilledFrom
<1>6. Emit!MapsTraceable'
  <2>1. ASSUME NEW n \in Maps, NEW k \in DOMAIN maps'[n] \cap Emit!Keys
        PROVE  maps'[n][k] \in Emit!MapSources(n, k)'
    <3>1. CASE n = m
      BY <1>1, <1>4, <2>1, <3>1, MapSourcesGrow
    <3>2. CASE n # m
      BY <1>0, <1>1, <1>3, <2>1, <3>2, MapKept DEF Emit!EmitInv
    <3> QED BY <3>1, <3>2
  <2> QED BY <2>1 DEF Emit!MapsTraceable
<1>7. Emit!PayloadInv(p)'
  <2>1. /\ ev[p].payload # p => ev[p].payload \in Maps /\ p \in users[ev[p].payload]
        /\ ev[p].extra \in Maps \cup {NoMap}
    BY <1>0 DEF Emit!PayloadInv
  <2>2. ev[p].tenant \in Emit!Named(p, "tenant")'
          \cup (IF ev[p].payload = p THEN Emit!At(ev[p].asked, "tenant") ELSE {})
    BY <1>0, <1>1, NamedKept DEF Emit!PayloadInv
  <2> QED BY <1>2, <2>1, <2>2 DEF Emit!PayloadInv, Emit!At
<1>8. Emit!EventTraceable(p)'
  <2>1. ASSUME ev[p].payload = p, NEW k \in DOMAIN maps'[p] \cap Emit!Keys
        PROVE  maps'[p][k] \in Emit!Sources(p, ev[p], k)'
    BY <1>1, <1>2, <1>5, <2>1, SourcesGrow
  <2> QED BY <1>2, <2>1 DEF Emit!EventTraceable
<1>9. \A q \in Procs \ {p} : Kept(q)
  BY <1>0, <1>2, <1>3, NamesAssumption DEF Kept
<1>10. Emit!Shape'
  BY <1>0, <1>2, <1>3 DEF Emit!Shape, Emit!IsFunction
<1>11. Emit!EmitInv'
  BY <1>0, <1>1, <1>2, <1>6, <1>7, <1>8, <1>9, <1>10, OneMoves
<1> QED BY <1>1, <1>11 DEF IInv

LEMMA MarshalInv ==
  ASSUME IInv, NEW p \in Procs, Emit!Marshal(p)
  PROVE  IInv'
<1>0. /\ Emit!EmitInv /\ Emit!Shape /\ pc[p] = "marshal"
      /\ Emit!PayloadInv(p) /\ Emit!EventTraceable(p)
  BY DEF IInv, Emit!EmitInv, Emit!Marshal
<1>1. /\ Grows /\ Emit!IdentityIsTraceable' /\ StreamIsSequence'
      /\ Emit!CrashNeedsSharedPayload'
  BY QuietStep DEF Emit!Marshal
<1> DEFINE e == [ev[p] EXCEPT !.raw = maps[ev[p].payload]]
<1>2. /\ maps' = maps /\ users' = users /\ pc'[p] = "publish" /\ ev'[p] = e
      /\ \A q \in Procs \ {p} : pc'[q] = pc[q] /\ ev'[q] = ev[q]
      /\ Emit!IsFunction(pc, Procs)' /\ Emit!IsFunction(ev, Procs)'
  BY <1>0 DEF Emit!Marshal, Emit!Shape, Emit!IsFunction
<1>3. /\ e.payload = ev[p].payload /\ e.extra = ev[p].extra /\ e.tenant = ev[p].tenant
      /\ e.asked = ev[p].asked
      /\ \A k : Emit!Sources(p, e, k) = Emit!Sources(p, ev[p], k)
  <2>1. DOMAIN ev[p] = {"payload", "extra", "tenant", "asked", "raw"}
    BY <1>0 DEF Emit!Shape, Emit!NoEvent
  <2>2. /\ e.payload = ev[p].payload /\ e.extra = ev[p].extra /\ e.tenant = ev[p].tenant
        /\ e.asked = ev[p].asked
    BY <2>1
  <2> HIDE DEF e
  <2> QED BY <2>2 DEF Emit!Sources
<1>4. ASSUME NEW k \in DOMAIN maps[ev[p].payload] \cap Emit!Keys
      PROVE  maps[ev[p].payload][k] \in Emit!Sources(p, e, k)
  <2>1. CASE ev[p].payload = p
    BY <1>0, <1>3, <1>4, <2>1 DEF Emit!EventTraceable
  <2>2. CASE ev[p].payload # p
    <3>1. ev[p].payload \in Maps
      BY <1>0, <2>2 DEF Emit!PayloadInv
    <3>2. maps[ev[p].payload][k] \in Emit!MapSources(ev[p].payload, k)
      BY <1>0, <1>4, <3>1 DEF Emit!EmitInv, Emit!MapsTraceable
    <3> QED BY <1>3, <3>1, <3>2 DEF Emit!Sources
  <2> QED BY <2>1, <2>2
<1>5. e.raw = maps[ev[p].payload] /\ DOMAIN e = DOMAIN ev[p]
  <2>1. "raw" \in DOMAIN ev[p]
    BY <1>0 DEF Emit!Shape, Emit!NoEvent
  <2> QED BY <2>1
<1> HIDE DEF e
<1>6. Emit!PayloadInv(p)'
  <2>1. /\ e.payload # p => e.payload \in Maps /\ p \in users[e.payload]
        /\ e.extra \in Maps \cup {NoMap}
    BY <1>0, <1>3 DEF Emit!PayloadInv
  <2>2. e.tenant \in Emit!Named(p, "tenant")'
          \cup (IF e.payload = p THEN Emit!At(e.asked, "tenant") ELSE {})
    BY <1>0, <1>1, <1>3, NamedKept DEF Emit!PayloadInv
  <2> QED BY <1>2, <2>1, <2>2 DEF Emit!PayloadInv, Emit!At
<1>7. Emit!EventTraceable(p)'
  <2>1. ASSUME NEW k \in DOMAIN e.raw \cap Emit!Keys
        PROVE  e.raw[k] \in Emit!Sources(p, ev[p], k)'
    BY <1>1, <1>2, <1>4, <1>5, <2>1, SourcesGrow
  <2> QED BY <1>2, <1>3, <1>5, <2>1 DEF Emit!EventTraceable
<1>8. Emit!MapsTraceable'
  BY <1>0, <1>1, <1>2, MapKept DEF Emit!EmitInv, Emit!MapsTraceable
<1>9. \A q \in Procs \ {p} : Kept(q)
  BY <1>2 DEF Kept
<1>10. Emit!Shape'
  <2>1. \A q \in Procs : DOMAIN ev'[q] = DOMAIN Emit!NoEvent
    BY <1>0, <1>2, <1>5 DEF Emit!Shape
  <2> QED BY <1>0, <1>2, <2>1 DEF Emit!Shape, Emit!IsFunction
<1>11. Emit!EmitInv'
  BY <1>0, <1>1, <1>2, <1>6, <1>7, <1>8, <1>9, <1>10, OneMoves
<1> QED BY <1>1, <1>11 DEF IInv

LEMMA PublishEventInv ==
  ASSUME IInv, NEW p \in Procs, Emit!PublishEvent(p)
  PROVE  IInv'
<1>0. /\ Emit!EmitInv /\ Emit!Shape /\ pc[p] = "publish" /\ Emit!EventTraceable(p)
      /\ StreamIsSequence /\ Emit!IdentityIsTraceable
  BY DEF IInv, Emit!EmitInv, Emit!PublishEvent
<1>1. Grows
  BY DEF Grows, Emit!PublishEvent
<1>2. /\ maps' = maps /\ users' = users /\ pc'[p] = "idle"
      /\ \A q \in Procs \ {p} : Kept(q)
      /\ Emit!IsFunction(pc, Procs)' /\ Emit!IsFunction(ev, Procs)'
      /\ \A q \in Procs : DOMAIN ev'[q] = DOMAIN Emit!NoEvent
  BY <1>0 DEF Emit!PublishEvent, Emit!Shape, Emit!IsFunction, Kept
<1>3. Emit!IdentityIsTraceable' /\ StreamIsSequence'
  <2>1. CASE stream' = stream
    BY <1>0, <1>1, <2>1, StreamKept DEF StreamIsSequence
  <2>2. CASE stream' = Append(stream, Emit!Event(p))
    <3> DEFINE x == Emit!Event(p)
    <3>1. /\ x.by = p /\ x.body = ev[p].raw /\ x.asked = ev[p].asked
          /\ x.payload = ev[p].payload /\ x.extra = ev[p].extra
      BY DEF Emit!Event
    <3> HIDE DEF x
    <3>2. \A k : Emit!Sources(p, x, k) = Emit!Sources(p, ev[p], k)
      BY <3>1 DEF Emit!Sources
    <3>3. \A k \in DOMAIN x.body \cap Emit!Keys : x.body[k] \in Emit!Sources(x.by, x, k)
      BY <1>0, <3>1, <3>2 DEF Emit!EventTraceable
    <3>4. stream' = Append(stream, x)
      BY <2>2 DEF x
    <3> QED BY <1>0, <1>1, <3>3, <3>4, StreamAppended
  <2> QED BY <2>1, <2>2 DEF Emit!PublishEvent
<1>4. Emit!MapsTraceable'
  BY <1>0, <1>1, <1>2, MapKept DEF Emit!EmitInv, Emit!MapsTraceable
<1>5. Emit!CrashNeedsSharedPayload'
  BY DEF Emit!PublishEvent, Emit!Running, Emit!CrashNeedsSharedPayload
<1>6. Emit!Shape'
  BY <1>0, <1>2 DEF Emit!Shape, Emit!IsFunction
<1>7. Emit!EmitInv'
  BY <1>0, <1>1, <1>2, <1>3, <1>4, <1>5, <1>6, OneMoves
<1> QED BY <1>3, <1>7 DEF IInv

\* A step that leaves the emitters alone and appends only what is not theirs.
LEMMA EmittersKept ==
  ASSUME IInv, UNCHANGED <<client, emitters>>,
         \/ stream' = stream
         \/ \E x : stream' = Append(stream, x) /\ x.by \notin Procs
  PROVE  IInv'
<1>0. /\ Emit!EmitInv /\ StreamIsSequence /\ Emit!IdentityIsTraceable
  BY DEF IInv, Emit!EmitInv
<1>1. Grows /\ \A q : Kept(q)
  BY DEF Grows, Kept, emitters
<1>2. Emit!IdentityIsTraceable' /\ StreamIsSequence'
  <2>1. CASE stream' = stream
    BY <1>0, <1>1, <2>1, StreamKept DEF StreamIsSequence
  <2>2. CASE \E x : stream' = Append(stream, x) /\ x.by \notin Procs
    BY <1>0, <1>1, <2>2, StreamAppended
  <2> QED BY <2>1, <2>2
<1>3. Emit!MapsTraceable'
  BY <1>0, <1>1, MapKept DEF Emit!EmitInv, Emit!MapsTraceable, emitters
<1>4. \A q \in Procs : pc'[q] # "idle" => Emit!PayloadInv(q)' /\ Emit!EventTraceable(q)'
  BY <1>0, <1>1, PayloadKept, EventKept DEF Emit!EmitInv, Kept
<1>5. Emit!CrashNeedsSharedPayload' /\ Emit!Shape'
  BY <1>0 DEF Emit!EmitInv, Emit!CrashNeedsSharedPayload, Emit!Shape, Emit!IsFunction, emitters
<1> QED BY <1>2, <1>3, <1>4, <1>5 DEF IInv, Emit!EmitInv

\* The goroutine that writes the map has passed it as a payload.
LEMMA CrashInv ==
  ASSUME IInv, NEW m \in Maps, Emit!Crash(m)
  PROVE  IInv'
<1>0. /\ Emit!EmitInv /\ StreamIsSequence /\ Emit!IdentityIsTraceable
  BY DEF IInv, Emit!EmitInv
<1>1. Grows /\ \A q : Kept(q)
  BY DEF Grows, Kept, Emit!Crash
<1>2. Emit!IdentityIsTraceable' /\ StreamIsSequence'
  BY <1>0, <1>1, StreamKept DEF StreamIsSequence, Emit!Crash
<1>3. Emit!MapsTraceable'
  BY <1>0, <1>1, MapKept DEF Emit!EmitInv, Emit!MapsTraceable, Emit!Crash
<1>4. \A q \in Procs : pc'[q] # "idle" => Emit!PayloadInv(q)' /\ Emit!EventTraceable(q)'
  BY <1>0, <1>1, PayloadKept, EventKept DEF Emit!EmitInv, Kept
<1>5. Emit!CrashNeedsSharedPayload'
  <2>1. PICK p \in Procs : Emit!Writes(p, m)
    BY DEF Emit!Crash
  <2>2. p \in users[m]
    BY <1>0, <2>1, NamesAssumption DEF Emit!Writes, Emit!EmitInv, Emit!PayloadInv
  <2> QED BY <2>2 DEF Emit!Crash, Emit!CrashNeedsSharedPayload
<1>6. Emit!Shape'
  BY <1>0 DEF Emit!EmitInv, Emit!Shape, Emit!IsFunction, Emit!Crash
<1> QED BY <1>2, <1>3, <1>4, <1>5, <1>6 DEF IInv, Emit!EmitInv

-----------------------------------------------------------------------------
(* The invariant. *)

LEMMA InitInv == Init => IInv
<1> SUFFICES ASSUME Init PROVE IInv
  OBVIOUS
<1> USE DEF Init, Emit!EmitInit
<1>1. stream = <<>> /\ stream \in Seq({}) /\ Len(stream) = 0
  OBVIOUS
<1>2. StreamIsSequence /\ Emit!IdentityIsTraceable
  BY <1>1 DEF StreamIsSequence, Emit!IdentityIsTraceable, Emit!Emits
<1>3. Emit!Shape
  BY DEF Emit!Shape, Emit!IsFunction
<1>4. Emit!MapsTraceable
  BY DEF Emit!MapsTraceable, Emit!MapSources, Emit!At
<1>5. Emit!CrashNeedsSharedPayload /\ \A p \in Procs : pc[p] = "idle"
  BY DEF Emit!CrashNeedsSharedPayload
<1> QED BY <1>2, <1>3, <1>4, <1>5 DEF IInv, Emit!EmitInv

LEMMA NextInv == IInv /\ [Next]_vars => IInv'
<1> SUFFICES ASSUME IInv, [Next]_vars PROVE IInv'
  OBVIOUS
<1>1. CASE Emit!EmitNext
  BY <1>1, EmitDeptEventInv, EmitLLMCallInv, CopyExtraInv, EnrichInv, MarshalInv,
     PublishEventInv, CrashInv DEF Emit!EmitNext
<1>2. CASE Replay!ReplayNext /\ UNCHANGED <<emitters, adapter, begun>>
  <2>1. stream' = stream /\ client' = client
    BY <1>2 DEF Replay!ReplayNext, Replay!ListStreamMessages, Replay!ServeMessages,
                Replay!ListFails, Replay!TakeMessages
  <2> QED BY <1>2, <2>1, EmittersKept
<1>3. CASE Ingress!ConnectorNext /\ UNCHANGED <<client, emitters, view>>
  <2>1. CASE \/ Ingress!Receive
             \/ \E e \in Hooks : Ingress!Deliver(e)
    BY <1>3, <2>1, EmittersKept DEF Ingress!Receive, Ingress!Deliver
  <2>2. CASE Ingress!Post
    <3> DEFINE x == [by |-> "connector", headers |-> hook.headers, body |-> hook.body,
                     envelope |-> hook.envelope, of |-> hook.event]
    <3>1. stream' = stream \/ stream' = Append(stream, x)
      BY <2>2 DEF Ingress!Post
    <3>2. x.by \notin Procs
      BY NamesAssumption
    <3> HIDE DEF x
    <3> QED BY <1>3, <3>1, <3>2, EmittersKept
  <2> QED BY <1>3, <2>1, <2>2 DEF Ingress!ConnectorNext
<1>4. CASE UNCHANGED vars
  BY <1>4, EmittersKept DEF vars
<1> QED BY <1>1, <1>2, <1>3, <1>4 DEF Next

LEMMA Invariant == Spec => []IInv
BY InitInv, NextInv, PTL DEF Spec

\* The organization, workspace and tenant that an event names (EmitDeptEvent,
\* EmitLLMCall) come from its own client, its call, or a map that had been an
\* event's payload before.
THEOREM IdentityTrue == Spec => []IdentityIsTraceable
<1>1. IInv => IdentityIsTraceable
  BY DEF IInv, Emit!EmitInv, IdentityIsTraceable
<1> QED BY <1>1, Invariant, PTL

\* The program ends by a race on a map only if a caller passed that map as the
\* payload of EmitDeptEvent, never for an Extra that LLM calls share.
THEOREM CrashTrue == Spec => []CrashNeedsSharedPayload
<1>1. IInv => CrashNeedsSharedPayload
  BY DEF IInv, Emit!EmitInv, CrashNeedsSharedPayload
<1> QED BY <1>1, Invariant, PTL

-----------------------------------------------------------------------------
(* The stream only grows. *)

Longer ==
  /\ client' = client
  /\ Len(stream) \in Nat /\ Len(stream') \in Nat /\ Len(stream) <= Len(stream')
  /\ \A k \in 1 .. Len(stream) : stream'[k] = stream[k]

LEMMA StreamLonger ==
  ASSUME StreamIsSequence, client' = client,
         stream' = stream \/ \E x : stream' = Append(stream, x)
  PROVE  Longer
<1>1. PICK S : stream \in Seq(S)
  BY DEF StreamIsSequence
<1>2. CASE stream' = stream
  BY <1>1, <1>2 DEF Longer
<1>3. CASE \E x : stream' = Append(stream, x)
  <2>1. PICK x : stream' = Append(stream, x)
    BY <1>3
  <2>2. /\ stream' \in Seq(S \cup {x})
        /\ Len(stream') = Len(stream) + 1 /\ Len(stream) \in Nat
        /\ \A i \in 1 .. Len(stream) : stream'[i] = stream[i]
    BY <1>1, <2>1, Appended
  <2> QED BY <2>2 DEF Longer
<1> QED BY <1>2, <1>3

LEMMA EmitStep ==
  ASSUME Emit!EmitNext
  PROVE  /\ client' = client
         /\ \/ stream' = stream
            \/ \E p \in Procs : Emit!PublishEvent(p) /\ stream' = Append(stream, Emit!Event(p))
BY DEF Emit!EmitNext, Emit!EmitDeptEvent, Emit!EmitLLMCall, Emit!Begin, Emit!CopyExtra,
       Emit!Enrich, Emit!Marshal, Emit!PublishEvent, Emit!Crash

LEMMA ReplayStep ==
  ASSUME Replay!ReplayNext
  PROVE  client' = client /\ stream' = stream
BY DEF Replay!ReplayNext, Replay!ListStreamMessages, Replay!ServeMessages,
       Replay!ListFails, Replay!TakeMessages

Observation == [by |-> "connector", headers |-> hook.headers, body |-> hook.body,
                envelope |-> hook.envelope, of |-> hook.event]

LEMMA ConnectorStep ==
  ASSUME Ingress!ConnectorNext
  PROVE  \/ stream' = stream
         \/ Ingress!Post /\ stream' = Append(stream, Observation)
BY DEF Ingress!ConnectorNext, Ingress!Receive, Ingress!Deliver, Ingress!Post, Observation

LEMMA NextLonger ==
  ASSUME IInv, [Next]_vars
  PROVE  Longer
<1>0. StreamIsSequence
  BY DEF IInv
<1>1. CASE Emit!EmitNext
  BY <1>0, <1>1, EmitStep, StreamLonger
<1>2. CASE Replay!ReplayNext
  BY <1>0, <1>2, ReplayStep, StreamLonger
<1>3. CASE Ingress!ConnectorNext /\ UNCHANGED client
  BY <1>0, <1>3, ConnectorStep, StreamLonger
<1>4. CASE UNCHANGED vars
  BY <1>0, <1>4, StreamLonger DEF vars
<1> QED BY <1>1, <1>2, <1>3, <1>4 DEF Next

-----------------------------------------------------------------------------
(* What an envelope says of its webhook. *)

LEMMA IdsGrow ==
  ASSUME minted \in Nat, minted' \in Nat, minted <= minted'
  PROVE  Ingress!NewIds \subseteq Ingress!NewIds'
BY DEF Ingress!NewIds

LEMMA IdsKept == minted' = minted => Ingress!NewIds' = Ingress!NewIds
BY DEF Ingress!NewIds

LEMMA IdIsNew ==
  ASSUME minted \in Nat
  PROVE  /\ [new |-> minted + 1] \notin Ingress!NewIds
         /\ minted' = minted + 1 => [new |-> minted + 1] \in Ingress!NewIds'
BY DEF Ingress!NewIds

LEMMA NewIsNotGiven ==
  ASSUME NEW id
  PROVE  [given |-> id] \notin Ingress!NewIds /\ \A n : [given |-> id] # [new |-> n]
<1>1. DOMAIN [given |-> id] = {"given"} /\ \A n : DOMAIN [new |-> n] = {"new"}
  OBVIOUS
<1>2. \A c \in Ingress!NewIds : DOMAIN c = {"new"}
  BY DEF Ingress!NewIds
<1> QED BY <1>1, <1>2

LEMMA GivenDiffer ==
  \A m, n : [given |-> m] = [given |-> n] => m = n
<1> SUFFICES ASSUME NEW m, NEW n, [given |-> m] = [given |-> n] PROVE m = n
  OBVIOUS
<1>1. [given |-> m].given = m /\ [given |-> n].given = n
  OBVIOUS
<1> QED BY <1>1

LEMMA SameDigest ==
  ASSUME NEW a, NEW b, Ingress!VerifyHMAC(a, Ingress!ComputeHMACSHA256(b))
  PROVE  a = b
<1>1. [digest |-> a].digest = a /\ [digest |-> b].digest = b
  OBVIOUS
<1> QED BY <1>1 DEF Ingress!VerifyHMAC, Ingress!ComputeHMACSHA256

\* The fields of a webhook without the space around them.
LEMMA TrimmedFields ==
  ASSUME NEW e \in Hooks
  PROVE  /\ Ingress!Trimmed(e).connector = Ingress!TrimSpace(e.connector)
         /\ Ingress!Trimmed(e).id = Ingress!TrimSpace(e.id)
BY HooksAssumption DEF Ingress!Trimmed

LEMMA HeadersOf ==
  ASSUME NEW e
  PROVE  Ingress!IngressHeaders(e).external_id = e.id
<1> DEFINE more == Ingress!PublishHeaders(e)
<1>1. "external_id" \in DOMAIN more /\ more["external_id"] = e.id
  BY DEF Ingress!PublishHeaders
<1> HIDE DEF more
<1> QED BY <1>1 DEF Ingress!IngressHeaders, more

LEMMA EnvelopeOf ==
  ASSUME NEW e
  PROVE  /\ Ingress!NormalizeEnvelope(e).agent = <<"connector", e.connector>>
         /\ Ingress!NormalizeEnvelope(e).correlation = Ingress!Correlation(e.id)
BY DEF Ingress!NormalizeEnvelope

LEMMA SaysKept ==
  ASSUME NEW e, NEW envelope, NEW headers, Ingress!SaysOf(e, envelope, headers),
         minted \in Nat, minted' \in Nat, minted <= minted'
  PROVE  Ingress!SaysOf(e, envelope, headers)'
BY IdsGrow DEF Ingress!SaysOf, Ingress!TrimSpace

LEMMA DeliverKeeps ==
  ASSUME Ingress!ConnectorInv, NEW e \in Hooks, Ingress!Deliver(e)
  PROVE  Ingress!ConnectorInv'
<1>1. stream' = stream /\ minted' = minted /\ hook'.pc = "verify" /\ hook'.event = e
      /\ hook'.signature = Ingress!ComputeHMACSHA256(e)
  BY DEF Ingress!Deliver
<1>2. minted' \in Nat /\ Ingress!ObservationsTrue'
  <2>1. Ingress!NewIds' = Ingress!NewIds
    BY <1>1, IdsKept
  <2>2. minted' \in Nat /\ Ingress!ObservationsTrue
    BY <1>1 DEF Ingress!ConnectorInv
  <2> QED
    BY <1>1, <2>1, <2>2 DEF Ingress!ObservationsTrue, Ingress!Observations, Ingress!SaysOf
<1>3. Ingress!HookTrue'
  BY <1>1 DEF Ingress!HookTrue, Ingress!ComputeHMACSHA256
<1> QED BY <1>2, <1>3 DEF Ingress!ConnectorInv

LEMMA ReceiveKeeps ==
  ASSUME Ingress!ConnectorInv, Ingress!Receive
  PROVE  Ingress!ConnectorInv'
<1> DEFINE e == Ingress!Trimmed(hook.body)
<1>0. /\ minted \in Nat /\ Ingress!ObservationsTrue /\ stream' = stream
      /\ hook.event \in Hooks /\ hook.signature = Ingress!ComputeHMACSHA256(hook.event)
  BY DEF Ingress!Receive, Ingress!ConnectorInv, Ingress!HookTrue
<1>1. CASE hook' = Ingress!NoHook /\ minted' = minted
  <2>1. Ingress!ObservationsTrue'
    BY <1>0, <1>1, IdsKept DEF Ingress!ObservationsTrue, Ingress!Observations, Ingress!SaysOf
  <2>2. Ingress!HookTrue'
    BY <1>1 DEF Ingress!HookTrue, Ingress!NoHook
  <2> QED BY <1>0, <1>1, <2>1, <2>2 DEF Ingress!ConnectorInv
<1>2. CASE /\ Ingress!VerifyHMAC(hook.body, hook.signature)
           /\ hook'.pc = "post" /\ hook'.event = hook.event
           /\ hook'.headers = Ingress!IngressHeaders(e)
           /\ hook'.envelope = Ingress!NormalizeEnvelope(e)
           /\ minted' = IF e.id = "" THEN minted + 1 ELSE minted
  <2>1. hook.body = hook.event
    BY <1>0, <1>2, SameDigest
  <2>2. /\ e.connector = Ingress!TrimSpace(hook.event.connector)
        /\ e.id = Ingress!TrimSpace(hook.event.id)
    BY <1>0, <2>1, TrimmedFields
  <2> HIDE DEF e
  <2>3. minted' \in Nat /\ minted <= minted'
    <3>1. minted' = minted + 1 \/ minted' = minted
      BY <1>2
    <3> QED BY <1>0, <3>1
  <2>4. Ingress!ObservationsTrue'
    <3>1. \A k \in Ingress!Observations :
            Ingress!SaysOf(stream[k].of, stream[k].envelope, stream[k].headers)'
      BY <1>0, <2>3, IdsGrow DEF Ingress!ObservationsTrue, Ingress!SaysOf, Ingress!TrimSpace
    <3> QED BY <1>0, <3>1 DEF Ingress!ObservationsTrue, Ingress!Observations
  <2>5. /\ hook'.envelope.agent = <<"connector", e.connector>>
        /\ hook'.envelope.correlation = Ingress!Correlation(e.id)
        /\ hook'.headers.external_id = e.id
    BY <1>2, HeadersOf, EnvelopeOf
  <2>6. Ingress!SaysOf(hook.event, hook.envelope, hook.headers)'
    <3>1. e.id = "" => hook'.envelope.correlation \in Ingress!NewIds'
      BY <1>0, <1>2, <2>5, IdIsNew DEF Ingress!Correlation
    <3>2. e.id # "" => hook'.envelope.correlation = [given |-> e.id]
      BY <2>5 DEF Ingress!Correlation
    <3> QED BY <1>2, <2>2, <2>5, <3>1, <3>2 DEF Ingress!SaysOf, Ingress!TrimSpace
  <2>7. ASSUME e.id = "", NEW k \in Ingress!Observations
        PROVE  stream[k].envelope.correlation # hook'.envelope.correlation
    <3>1. hook'.envelope.correlation = [new |-> minted + 1]
      BY <2>5, <2>7 DEF Ingress!Correlation
    <3>2. Ingress!SaysOf(stream[k].of, stream[k].envelope, stream[k].headers)
      BY <1>0, <2>7 DEF Ingress!ObservationsTrue
    <3>3. \/ stream[k].envelope.correlation \in Ingress!NewIds
          \/ \E id : stream[k].envelope.correlation = [given |-> id]
      BY <3>2 DEF Ingress!SaysOf
    <3> QED BY <1>0, <3>1, <3>3, NewIsNotGiven, IdIsNew
  <2>8. Ingress!HookTrue'
    BY <1>0, <1>2, <2>2, <2>6, <2>7 DEF Ingress!HookTrue, Ingress!Observations
  <2> QED BY <2>3, <2>4, <2>8 DEF Ingress!ConnectorInv
<1>3. ASSUME NEW install,
             Ingress!VerifyHMAC(hook.body, hook.signature),
             hook' = [pc |-> "post", event |-> hook.event, body |-> hook.body,
                      path |-> Ingress!EventsPath(e.connector, install),
                      headers |-> Ingress!IngressHeaders(e),
                      envelope |-> Ingress!NormalizeEnvelope(e)],
             minted' = IF e.id = "" THEN minted + 1 ELSE minted
      PROVE  Ingress!ConnectorInv'
  <2> HIDE DEF e
  <2>1. /\ hook'.pc = "post" /\ hook'.event = hook.event
        /\ hook'.headers = Ingress!IngressHeaders(e)
        /\ hook'.envelope = Ingress!NormalizeEnvelope(e)
    BY <1>3
  <2> QED BY <1>2, <1>3, <2>1
<1> HIDE DEF e
<1> QED BY <1>1, <1>3 DEF Ingress!Receive, e

\* The webhook at hand becomes a new observation.
LEMMA PostKeeps ==
  ASSUME Ingress!ConnectorInv, StreamIsSequence, Ingress!Post
  PROVE  Ingress!ConnectorInv'
<1>0. /\ minted' = minted /\ hook' = Ingress!NoHook /\ minted \in Nat
      /\ Ingress!ObservationsTrue /\ Ingress!HookTrue /\ hook.pc = "post"
  BY DEF Ingress!Post, Ingress!ConnectorInv
<1>1. Ingress!HookTrue'
  BY <1>0 DEF Ingress!HookTrue, Ingress!NoHook
<1>2. stream' = stream \/ stream' = Append(stream, Observation)
  BY DEF Ingress!Post, Observation
<1>3. CASE stream' = stream
  <2>1. Ingress!ObservationsTrue'
    BY <1>0, <1>3, IdsKept DEF Ingress!ObservationsTrue, Ingress!Observations, Ingress!SaysOf
  <2> QED BY <1>0, <1>1, <2>1 DEF Ingress!ConnectorInv
<1>4. CASE stream' = Append(stream, Observation)
  <2>1. /\ Observation.of = hook.event /\ Observation.envelope = hook.envelope
        /\ Observation.headers = hook.headers
    BY DEF Observation
  <2>2. PICK S : stream \in Seq(S)
    BY DEF StreamIsSequence
  <2>3. /\ Len(stream') = Len(stream) + 1 /\ Len(stream) \in Nat
        /\ stream'[Len(stream) + 1] = Observation
        /\ \A i \in 1 .. Len(stream) : stream'[i] = stream[i]
    BY <1>4, <2>2, Appended
  <2>4. \A k \in Ingress!Observations' :
          \/ k = Len(stream) + 1
          \/ k \in Ingress!Observations /\ stream'[k] = stream[k]
    BY <2>3 DEF Ingress!Observations
  <2>5. \A k \in Ingress!Observations' :
          /\ stream'[k].of \in Hooks
          /\ Ingress!SaysOf(stream[k].of, stream[k].envelope, stream[k].headers)'
    <3>1. ASSUME NEW k \in Ingress!Observations'
          PROVE  /\ stream'[k].of \in Hooks
                 /\ Ingress!SaysOf(stream[k].of, stream[k].envelope, stream[k].headers)'
      <4>1. CASE k = Len(stream) + 1
        <5>1. /\ stream'[k].of = hook.event /\ stream'[k].envelope = hook.envelope
              /\ stream'[k].headers = hook.headers
          BY <2>1, <2>3, <4>1
        <5>2. hook.event \in Hooks /\ Ingress!SaysOf(hook.event, hook.envelope, hook.headers)
          BY <1>0 DEF Ingress!HookTrue
        <5> QED BY <1>0, <5>1, <5>2, IdsKept DEF Ingress!SaysOf, Ingress!TrimSpace
      <4>2. CASE k \in Ingress!Observations /\ stream'[k] = stream[k]
        <5>1. /\ stream[k].of \in Hooks
              /\ Ingress!SaysOf(stream[k].of, stream[k].envelope, stream[k].headers)
          BY <1>0, <4>2 DEF Ingress!ObservationsTrue
        <5> QED BY <1>0, <4>2, <5>1, IdsKept DEF Ingress!SaysOf, Ingress!TrimSpace
      <4> QED BY <2>4, <3>1, <4>1, <4>2
    <3> QED BY <3>1
  <2>6. ASSUME NEW i \in Ingress!Observations', NEW j \in Ingress!Observations',
               Ingress!TrimSpace(stream'[i].of.id) = "",
               stream'[i].envelope.correlation = stream'[j].envelope.correlation
        PROVE  i = j
    <3>1. CASE i = Len(stream) + 1 /\ j # Len(stream) + 1
      BY <1>0, <2>1, <2>3, <2>4, <2>6, <3>1 DEF Ingress!HookTrue
    <3>2. CASE i # Len(stream) + 1 /\ j = Len(stream) + 1
      <4>1. /\ i \in Ingress!Observations /\ stream'[i] = stream[i]
            /\ stream[i].envelope.correlation = hook.envelope.correlation
        BY <2>1, <2>3, <2>4, <2>6, <3>2
      <4>2. hook.envelope.correlation \in Ingress!NewIds
        BY <1>0, <2>6, <4>1 DEF Ingress!ObservationsTrue, Ingress!SaysOf
      <4>3. Ingress!TrimSpace(hook.event.id) = ""
        BY <1>0, <4>2, NewIsNotGiven DEF Ingress!HookTrue, Ingress!SaysOf
      <4> QED BY <1>0, <4>1, <4>3 DEF Ingress!HookTrue
    <3>3. CASE i # Len(stream) + 1 /\ j # Len(stream) + 1
      BY <1>0, <2>4, <2>6, <3>3 DEF Ingress!ObservationsTrue
    <3> QED BY <3>1, <3>2, <3>3
  <2>7. Ingress!ObservationsTrue'
    BY <2>5, <2>6 DEF Ingress!ObservationsTrue
  <2> QED BY <1>0, <1>1, <2>7 DEF Ingress!ConnectorInv
<1> QED BY <1>2, <1>3, <1>4

\* An event of a goroutine is no observation.
LEMMA OthersKeep ==
  ASSUME Ingress!ConnectorInv, StreamIsSequence, UNCHANGED <<hook, minted>>,
         \/ stream' = stream
         \/ \E x : stream' = Append(stream, x) /\ x.by # "connector"
  PROVE  Ingress!ConnectorInv'
<1>1. Ingress!Observations' = Ingress!Observations
      /\ \A k \in Ingress!Observations : stream'[k] = stream[k]
  <2>1. CASE stream' = stream
    BY <2>1 DEF Ingress!Observations
  <2>2. CASE \E x : stream' = Append(stream, x) /\ x.by # "connector"
    <3>1. PICK x : stream' = Append(stream, x) /\ x.by # "connector"
      BY <2>2
    <3>2. PICK S : stream \in Seq(S)
      BY DEF StreamIsSequence
    <3>3. /\ Len(stream') = Len(stream) + 1 /\ Len(stream) \in Nat
          /\ stream'[Len(stream) + 1] = x
          /\ \A i \in 1 .. Len(stream) : stream'[i] = stream[i]
      BY <3>1, <3>2, Appended
    <3> QED BY <3>1, <3>3 DEF Ingress!Observations
  <2> QED BY <2>1, <2>2
<1>2. Ingress!ObservationsTrue'
  <2>1. ASSUME NEW k \in Ingress!Observations
        PROVE  /\ stream'[k].of \in Hooks
               /\ Ingress!SaysOf(stream[k].of, stream[k].envelope, stream[k].headers)'
    <3>1. /\ stream[k].of \in Hooks
          /\ Ingress!SaysOf(stream[k].of, stream[k].envelope, stream[k].headers)
      BY <2>1 DEF Ingress!ConnectorInv, Ingress!ObservationsTrue
    <3>2. stream'[k] = stream[k]
      BY <1>1, <2>1
    <3> QED BY <3>1, <3>2, IdsKept DEF Ingress!SaysOf, Ingress!TrimSpace
  <2>2. ASSUME NEW i \in Ingress!Observations, NEW j \in Ingress!Observations,
               Ingress!TrimSpace(stream'[i].of.id) = "",
               stream'[i].envelope.correlation = stream'[j].envelope.correlation
        PROVE  i = j
    BY <1>1, <2>2 DEF Ingress!ConnectorInv, Ingress!ObservationsTrue
  <2> QED BY <1>1, <2>1, <2>2 DEF Ingress!ObservationsTrue
<1>3. Ingress!HookTrue'
  BY <1>1, IdsKept DEF Ingress!ConnectorInv, Ingress!HookTrue, Ingress!SaysOf, Ingress!ComputeHMACSHA256
<1> QED BY <1>2, <1>3 DEF Ingress!ConnectorInv

LEMMA ConnectorInvInit == Init => Ingress!ConnectorInv
BY DEF Init, Ingress!ConnectorInit, Ingress!ConnectorInv, Ingress!ObservationsTrue,
       Ingress!Observations, Ingress!HookTrue, Ingress!NoHook

LEMMA ConnectorInvNext == IInv /\ Ingress!ConnectorInv /\ [Next]_vars => Ingress!ConnectorInv'
<1> SUFFICES ASSUME IInv, Ingress!ConnectorInv, [Next]_vars PROVE Ingress!ConnectorInv'
  OBVIOUS
<1>0. StreamIsSequence
  BY DEF IInv
<1>1. CASE Emit!EmitNext /\ UNCHANGED adapter
  <2>1. \A p \in Procs : Emit!Event(p).by # "connector"
    BY NamesAssumption DEF Emit!Event
  <2>2. \/ stream' = stream
        \/ \E x : stream' = Append(stream, x) /\ x.by # "connector"
    BY <1>1, <2>1, EmitStep
  <2> QED BY <1>0, <1>1, <2>2, OthersKeep DEF adapter
<1>2. CASE Replay!ReplayNext /\ UNCHANGED adapter
  BY <1>0, <1>2, ReplayStep, OthersKeep DEF adapter
<1>3. CASE Ingress!ConnectorNext
  BY <1>0, <1>3, DeliverKeeps, ReceiveKeeps, PostKeeps DEF Ingress!ConnectorNext
<1>4. CASE UNCHANGED vars
  BY <1>0, <1>4, OthersKeep DEF vars, adapter
<1> QED BY <1>1, <1>2, <1>3, <1>4 DEF Next

\* A webhook that has an id carries it in each of its envelopes and headers, however
\* often it is delivered, no other webhook's envelope carries it, and an id that the
\* adapter made (NormalizeEnvelope) is of one envelope only.
THEOREM RedeliveryTrue == Spec => []RedeliveryRecognised
<1>1. ASSUME Ingress!ConnectorInv PROVE RedeliveryRecognised
  <2>1. SUFFICES ASSUME NEW i \in Ingress!Observations, NEW j \in Ingress!Observations
        PROVE  LET a == stream[i] b == stream[j] IN
               /\ (a.envelope.agent = b.envelope.agent
                    /\ a.envelope.correlation = b.envelope.correlation) => a.of = b.of
               /\ (a.of = b.of /\ Ingress!TrimSpace(a.of.id) # "") =>
                    /\ a.envelope.correlation = b.envelope.correlation
                    /\ a.headers.external_id = b.headers.external_id
    BY DEF RedeliveryRecognised, Ingress!RedeliveryRecognised
  <2> DEFINE a == stream[i]
             b == stream[j]
  <2>2. /\ a.of \in Hooks /\ Ingress!SaysOf(a.of, a.envelope, a.headers)
        /\ b.of \in Hooks /\ Ingress!SaysOf(b.of, b.envelope, b.headers)
        /\ (Ingress!TrimSpace(a.of.id) = "" /\ a.envelope.correlation = b.envelope.correlation) => i = j
    BY <1>1 DEF Ingress!ConnectorInv, Ingress!ObservationsTrue
  <2>3. ASSUME a.envelope.agent = b.envelope.agent, a.envelope.correlation = b.envelope.correlation
        PROVE  a.of = b.of
    <3>1. CASE Ingress!TrimSpace(a.of.id) = ""
      BY <2>2, <2>3, <3>1
    <3>2. CASE Ingress!TrimSpace(a.of.id) # ""
      <4> HIDE DEF a, b
      <4>1. a.envelope.correlation = [given |-> Ingress!TrimSpace(a.of.id)]
        BY <2>2, <3>2 DEF Ingress!SaysOf
      <4>2. Ingress!TrimSpace(b.of.id) # ""
        BY <2>2, <2>3, <4>1, NewIsNotGiven DEF Ingress!SaysOf
      <4>3. b.envelope.correlation = [given |-> Ingress!TrimSpace(b.of.id)]
        BY <2>2, <4>2 DEF Ingress!SaysOf
      <4>4. Ingress!TrimSpace(a.of.id) = Ingress!TrimSpace(b.of.id)
        BY <2>3, <4>1, <4>3, GivenDiffer
      <4>5. <<"connector", Ingress!TrimSpace(a.of.connector)>>
              = <<"connector", Ingress!TrimSpace(b.of.connector)>>
        BY <2>2, <2>3 DEF Ingress!SaysOf
      <4>6. Ingress!TrimSpace(a.of.connector) = Ingress!TrimSpace(b.of.connector)
        BY <4>5
      <4> QED BY <2>2, <3>2, <4>4, <4>6, HooksAssumption DEF Ingress!TrimSpace
    <3> QED BY <3>1, <3>2
  <2>4. ASSUME a.of = b.of, Ingress!TrimSpace(a.of.id) # ""
        PROVE  a.envelope.correlation = b.envelope.correlation
               /\ a.headers.external_id = b.headers.external_id
    BY <2>2, <2>4 DEF Ingress!SaysOf
  <2> QED BY <2>3, <2>4
<1>2. IInv /\ Ingress!ConnectorInv /\ [Next]_vars => Ingress!ConnectorInv'
  BY ConnectorInvNext
<1>3. Spec => []Ingress!ConnectorInv
  BY ConnectorInvInit, ConnectorInvNext, Invariant, PTL DEF Spec
<1> QED BY <1>1, <1>3, PTL

-----------------------------------------------------------------------------
(* The organization of an event. *)

LEMMA OrgIsSent ==
  ASSUME NEW c, Emit!ensureOrgForIsolation(c), c.requireOrg
  PROVE  "org" \in DOMAIN Emit!applyAuthHeaders(c) /\ Emit!applyAuthHeaders(c)["org"] = c.org
BY DEF Emit!ensureOrgForIsolation, Emit!applyAuthHeaders

LEMMA EmitsIsolatedNext == IInv /\ EmitsIsolated /\ [Next]_vars => EmitsIsolated'
<1> SUFFICES ASSUME IInv, EmitsIsolated, [Next]_vars, NEW k \in Emit!Emits',
                    client'[stream'[k].by].requireOrg
             PROVE  "org" \in DOMAIN stream'[k].headers
  BY DEF EmitsIsolated
<1>0. Longer /\ k \in 1 .. Len(stream')
  BY NextLonger DEF Emit!Emits
<1>1. CASE k \in 1 .. Len(stream)
  <2>1. stream'[k] = stream[k] /\ k \in Emit!Emits
    BY <1>0, <1>1 DEF Longer, Emit!Emits
  <2> QED BY <1>0, <2>1 DEF Longer, EmitsIsolated
<1>2. CASE k \notin 1 .. Len(stream)
  <2>1. stream' # stream
    BY <1>0, <1>2
  <2>2. PICK S : stream \in Seq(S)
    BY DEF IInv, StreamIsSequence
  <2>3. ASSUME NEW x, stream' = Append(stream, x)
        PROVE  stream'[k] = x
    <3>1. /\ Len(stream') = Len(stream) + 1 /\ Len(stream) \in Nat
          /\ stream'[Len(stream) + 1] = x
      BY <2>2, <2>3, Appended
    <3>2. k = Len(stream) + 1
      BY <1>0, <1>2, <3>1
    <3> QED BY <3>1, <3>2
  <2>4. CASE Emit!EmitNext
    <3>1. PICK p \in Procs : Emit!PublishEvent(p) /\ stream' = Append(stream, Emit!Event(p))
      BY <2>1, <2>4, EmitStep
    <3>2. Emit!ensureOrgForIsolation(client[p])
      BY <2>1, <3>1 DEF Emit!PublishEvent
    <3>3. stream'[k] = Emit!Event(p)
      BY <2>3, <3>1
    <3>4. stream'[k].by = p /\ stream'[k].headers = Emit!applyAuthHeaders(client[p])
      BY <3>3 DEF Emit!Event
    <3>5. client[p].requireOrg
      BY <1>0, <3>4 DEF Longer
    <3> QED BY <3>2, <3>4, <3>5, OrgIsSent
  <2>5. CASE Ingress!ConnectorNext
    <3>1. stream' = Append(stream, Observation)
      BY <2>1, <2>5, ConnectorStep
    <3>2. stream'[k].by = "connector"
      <4>1. Observation.by = "connector"
        BY DEF Observation
      <4> QED BY <2>3, <3>1, <4>1
    <3> QED BY <3>2, NamesAssumption DEF Emit!Emits
  <2>6. CASE Replay!ReplayNext \/ UNCHANGED vars
    BY <2>1, <2>6, ReplayStep DEF vars
  <2> QED BY <2>4, <2>5, <2>6 DEF Next
<1> QED BY <1>1, <1>2

LEMMA EmitsIsolatedInit == Init => EmitsIsolated
BY DEF Init, EmitsIsolated, Emit!Emits

-----------------------------------------------------------------------------
(* Facts about lists. *)

LEMMA SequenceFacts ==
  ASSUME NEW s, Replay!IsSequence(s)
  PROVE  Len(s) \in Nat /\ DOMAIN s = 1 .. Len(s)
BY DEF Replay!IsSequence

LEMMA ListIsSequence ==
  ASSUME NEW s, NEW n \in Nat, DOMAIN s = 1 .. n, s = [i \in 1 .. n |-> s[i]]
  PROVE  Replay!IsSequence(s) /\ Len(s) = n
<1> DEFINE T == {s[i] : i \in DOMAIN s}
<1>1. s \in [1 .. n -> T]
  OBVIOUS
<1>2. s \in Seq(T)
  BY <1>1
<1> QED BY <1>1, <1>2 DEF Replay!IsSequence

LEMMA SeqIsSequence ==
  ASSUME NEW S, NEW s \in Seq(S)
  PROVE  Replay!IsSequence(s)
<1>1. Len(s) \in Nat /\ DOMAIN s = 1 .. Len(s) /\ s = [i \in 1 .. Len(s) |-> s[i]]
  OBVIOUS
<1> QED BY <1>1, ListIsSequence

LEMMA Concat ==
  ASSUME NEW s, NEW t, Replay!IsSequence(s), Replay!IsSequence(t)
  PROVE  /\ Replay!IsSequence(s \o t) /\ Len(s \o t) = Len(s) + Len(t)
         /\ Len(s) \in Nat /\ Len(t) \in Nat
         /\ DOMAIN s = 1 .. Len(s) /\ DOMAIN t = 1 .. Len(t)
         /\ DOMAIN (s \o t) = 1 .. Len(s) + Len(t)
         /\ \A i \in 1 .. Len(s) : (s \o t)[i] = s[i]
         /\ \A i \in 1 .. Len(t) : (s \o t)[Len(s) + i] = t[i]
<1> DEFINE S == {s[i] : i \in DOMAIN s} \cup {t[i] : i \in DOMAIN t}
<1>1. s \in Seq(S) /\ t \in Seq(S)
  BY DEF Replay!IsSequence
<1>2. s \o t \in Seq(S)
  BY <1>1
<1> HIDE DEF S
<1>3. Replay!IsSequence(s \o t)
  BY <1>2, SeqIsSequence
<1> QED BY <1>1, <1>2, <1>3

-----------------------------------------------------------------------------
(* A reader. *)

LEMMA QueryFacts ==
  ASSUME NEW r \in Readers, Replay!ViewShape(r)
  PROVE  /\ Replay!Query(view[r].opts).from_seq = Replay!Pending(r)
         /\ Replay!Query(view[r].opts).to_seq = view[r].opts.to
         /\ Replay!Query(view[r].opts).limit \in Nat \ {0}
<1>1. view[r].opts.limit \in Int
  BY DEF Replay!ViewShape
<1>2. MaxLimit \in Nat /\ DefaultLimit \in Nat \ {0} /\ MaxLimit # 0
  BY LimitAssumption
<1>3. Replay!Query(view[r].opts).limit \in {DefaultLimit, MaxLimit, view[r].opts.limit}
      /\ (Replay!Query(view[r].opts).limit = view[r].opts.limit => view[r].opts.limit > 0)
  BY <1>1, <1>2 DEF Replay!Query
<1> QED BY <1>1, <1>2, <1>3 DEF Replay!Query, Replay!Pending

LEMMA ShapeFacts ==
  ASSUME NEW r \in Readers, Replay!ViewShape(r)
  PROVE  /\ DOMAIN view[r] = {"pc", "opts", "first", "query", "page", "got", "asOf"}
         /\ view[r].opts.from \in Nat /\ view[r].opts.to \in Nat
         /\ Replay!Pending(r) \in Nat \ {0} /\ view[r].first \in Nat
         /\ view[r].first <= Replay!Pending(r)
         /\ view[r].asOf \in Nat
         /\ Replay!IsSequence(view[r].got)
BY DEF Replay!ViewShape, Replay!Pending

\* What a step leaves of a reader that does not take or serve a page.
Same(r) ==
  /\ DOMAIN view'[r] = DOMAIN view[r] /\ view'[r].opts = view[r].opts
  /\ view'[r].first = view[r].first /\ view'[r].got = view[r].got

\* Everything wanted of a shorter stream is wanted of the longer one, which adds only
\* what came after it.
LEMMA WantsGrow ==
  ASSUME NEW r \in Readers, Longer, Replay!ViewShape(r), Same(r),
         view'[r].asOf \in Nat, view[r].asOf <= view'[r].asOf,
         NEW k \in 1 .. view[r].asOf
  PROVE  /\ Replay!Wants(r, k)' <=> Replay!Wants(r, k)
         /\ stream'[k] = stream[k]
<1>1. k \in 1 .. Len(stream) /\ k \in 1 .. view'[r].asOf
  BY DEF Replay!ViewShape, Longer
<1>2. stream'[k] = stream[k] /\ client' = client
  BY <1>1 DEF Longer
<1> QED BY <1>1, <1>2 DEF Replay!Wants, Replay!MayRead, Same

LEMMA ShapeKept ==
  ASSUME NEW r \in Readers, Longer, Replay!ViewShape(r), Same(r),
         view'[r].asOf \in 0 .. Len(stream)
  PROVE  Replay!ViewShape(r)' /\ Replay!Pending(r)' = Replay!Pending(r)
<1>1. Replay!Pending(r)' = Replay!Pending(r)
  BY DEF Replay!Pending, Same
<1>2. view'[r].asOf \in 0 .. Len(stream')
  BY DEF Longer
<1> QED BY <1>1, <1>2 DEF Replay!ViewShape, Same, Replay!IsSequence

LEMMA GotKept ==
  ASSUME NEW r \in Readers, Longer, Replay!ViewShape(r), Same(r), Replay!GotTrue(r),
         view'[r].asOf \in 0 .. Len(stream), view[r].asOf <= view'[r].asOf
  PROVE  Replay!GotTrue(r)'
<1>0. view'[r].asOf \in Nat /\ view[r].asOf \in Nat /\ Replay!Pending(r)' = Replay!Pending(r)
      /\ view'[r].got = view[r].got /\ view'[r].first = view[r].first
      /\ Replay!Pending(r) \in Nat
  BY ShapeKept, ShapeFacts DEF Longer, Same
<1>1. Replay!Truthful(r, view[r].got)'
  <2>1. ASSUME NEW i \in DOMAIN view[r].got
        PROVE  /\ Replay!Wants(r, view[r].got[i].seq)'
               /\ view'[r].got[i].payload = stream'[view'[r].got[i].seq].body
    <3>1. /\ Replay!Wants(r, view[r].got[i].seq)
          /\ view[r].got[i].payload = stream[view[r].got[i].seq].body
      BY <2>1 DEF Replay!GotTrue, Replay!Truthful
    <3> DEFINE k == view[r].got[i].seq
    <3>2. k \in 1 .. view[r].asOf
      BY <3>1 DEF Replay!Wants
    <3>3. k = view'[r].got[i].seq
      BY <1>0
    <3> HIDE DEF k
    <3>4. Replay!Wants(r, k)' /\ stream'[k] = stream[k]
      BY <1>0, <3>1, <3>2, WantsGrow DEF k
    <3> QED BY <1>0, <3>1, <3>3, <3>4 DEF k, Replay!Wants
  <2> QED BY <1>0, <2>1 DEF Replay!GotTrue, Replay!Truthful
<1>2. \A i \in DOMAIN view'[r].got : view'[r].got[i].seq < Replay!Pending(r)'
  BY <1>0 DEF Replay!GotTrue
<1>3. ASSUME NEW k \in 1 .. Replay!Pending(r) - 1, view[r].first <= k
      PROVE  /\ k <= view'[r].asOf
             /\ Replay!Wants(r, k)' => \E i \in DOMAIN view[r].got : view[r].got[i].seq = k
  <2>1. /\ k \in 1 .. view[r].asOf
        /\ Replay!Wants(r, k) => \E i \in DOMAIN view[r].got : view[r].got[i].seq = k
    BY <1>0, <1>3 DEF Replay!GotTrue
  <2>2. Replay!Wants(r, k)' <=> Replay!Wants(r, k)
    BY <1>0, <2>1, WantsGrow
  <2> QED BY <1>0, <2>1, <2>2
<1> QED BY <1>0, <1>1, <1>2, <1>3 DEF Replay!GotTrue

LEMMA PageKept ==
  ASSUME NEW r \in Readers, Longer, Replay!ViewShape(r), Replay!PageTrue(r),
         view'[r] = view[r]
  PROVE  Replay!PageTrue(r)'
<1>0. /\ Same(r) /\ view[r].asOf \in Nat /\ Replay!Pending(r)' = Replay!Pending(r)
      /\ Replay!Pending(r) \in Nat \ {0}
  BY ShapeFacts DEF Same, Replay!Pending
<1>1. \A k \in 1 .. view[r].asOf :
        (Replay!Wants(r, k)' <=> Replay!Wants(r, k)) /\ stream'[k] = stream[k]
  BY <1>0, WantsGrow
<1> DEFINE page == view[r].page
<1>2. Replay!IsSequence(page)'
  BY DEF Replay!PageTrue, Replay!IsSequence
<1>3. ASSUME NEW i \in DOMAIN page
      PROVE  /\ Replay!Wants(r, page[i].seq)' /\ Replay!Pending(r)' <= page[i].seq
             /\ page[i].payload.of = stream'[page[i].seq].body
  <2>1. /\ Replay!Wants(r, page[i].seq) /\ Replay!Pending(r) <= page[i].seq
        /\ page[i].payload.of = stream[page[i].seq].body
    BY <1>3 DEF Replay!PageTrue
  <2> DEFINE k == page[i].seq
  <2>2. k \in 1 .. view[r].asOf
    BY <2>1 DEF Replay!Wants
  <2>3. view'[r].page[i].seq = k
    OBVIOUS
  <2> HIDE DEF k
  <2>4. Replay!Wants(r, k)' /\ stream'[k] = stream[k]
    BY <1>1, <2>1, <2>2 DEF k
  <2> QED BY <1>0, <2>1, <2>3, <2>4 DEF k, Replay!Wants
<1>4. ASSUME NEW k \in Replay!Pending(r) .. view[r].asOf, Replay!Wants(r, k)'
      PROVE  \/ \E i \in DOMAIN page : page[i].seq = k
             \/ DOMAIN page # {} /\ \A i \in DOMAIN page : page[i].seq < k
  <2>1. k \in 1 .. view[r].asOf
    BY <1>0, <1>4
  <2> QED BY <1>1, <1>4, <2>1 DEF Replay!PageTrue
<1>5. \A i, j \in DOMAIN page : i < j => page[i].seq < page[j].seq
  BY DEF Replay!PageTrue
<1> QED BY <1>0, <1>2, <1>3, <1>4, <1>5 DEF Replay!PageTrue

LEMMA ViewKept ==
  ASSUME NEW r \in Readers, Longer, view'[r] = view[r], Replay!ViewInv(r)
  PROVE  Replay!ViewInv(r)'
<1>0. Replay!ViewShape(r) /\ Replay!GotTrue(r) /\ Same(r) /\ view[r].asOf \in 0 .. Len(stream)
      /\ view[r].asOf \in Nat
  BY ShapeFacts DEF Replay!ViewInv, Same, Replay!ViewShape
<1>1. Replay!ViewShape(r)' /\ Replay!GotTrue(r)'
  BY <1>0, ShapeKept, GotKept
<1>2. view'[r].pc = "sent" => view'[r].query = Replay!Query(view'[r].opts)
  BY DEF Replay!ViewInv
<1>3. view'[r].pc = "answered" => Replay!PageTrue(r)'
  BY <1>0, PageKept DEF Replay!ViewInv
<1>4. ASSUME view'[r].pc = "done", NEW k \in 1 .. view'[r].asOf, Replay!Wants(r, k)'
      PROVE  \E i \in DOMAIN view'[r].got : view'[r].got[i].seq = k
  <2>1. Replay!Wants(r, k)
    BY <1>0, <1>4, WantsGrow
  <2> QED BY <1>4, <2>1 DEF Replay!ViewInv
<1>5. client'[r] = client[r]
  BY DEF Longer
<1>6. view'[r].pc \notin {"ask", "refused"} \/ DOMAIN view'[r].got # {} =>
        Replay!ensureOrgForIsolation(client'[r])
  BY <1>5 DEF Replay!ViewInv
<1> QED BY <1>1, <1>2, <1>3, <1>4, <1>6
    DEF Replay!ViewInv, Replay!Query, Replay!ensureOrgForIsolation

-----------------------------------------------------------------------------
(* The steps of a reader. *)

LEMMA ListStreamMessagesKeeps ==
  ASSUME NEW r \in Readers, Longer, DOMAIN view = Readers, Replay!ViewInv(r),
         Replay!ListStreamMessages(r)
  PROVE  Replay!ViewInv(r)'
<1> DEFINE v == view[r]
           sent == [v EXCEPT !.pc = "sent", !.query = Replay!Query(v.opts)]
           refused == [v EXCEPT !.pc = "refused"]
<1>0. Replay!ViewShape(r) /\ Replay!GotTrue(r) /\ v.asOf \in 0 .. Len(stream)
      /\ v.asOf \in Nat /\ DOMAIN v = {"pc", "opts", "first", "query", "page", "got", "asOf"}
  BY ShapeFacts DEF Replay!ViewInv, Replay!ViewShape
<1>1. /\ client' = client
      /\ \/ Replay!ensureOrgForIsolation(client[r]) /\ view'[r] = sent
         \/ ~Replay!ensureOrgForIsolation(client[r]) /\ view'[r] = refused
  BY DEF Replay!ListStreamMessages
<1>2. /\ sent.pc = "sent" /\ sent.query = Replay!Query(v.opts)
      /\ sent.opts = v.opts /\ sent.first = v.first /\ sent.got = v.got /\ sent.asOf = v.asOf
      /\ DOMAIN sent = DOMAIN v
      /\ refused.pc = "refused"
      /\ refused.opts = v.opts /\ refused.first = v.first /\ refused.got = v.got
      /\ refused.asOf = v.asOf /\ DOMAIN refused = DOMAIN v
  BY <1>0
<1> HIDE DEF sent, refused
<1>3. Same(r) /\ view'[r].asOf = v.asOf
  BY <1>1, <1>2 DEF Same
<1>4. Replay!ViewShape(r)' /\ Replay!GotTrue(r)'
  BY <1>0, <1>3, ShapeKept, GotKept
<1>5. view'[r].pc = "sent" => view'[r].query = Replay!Query(view'[r].opts)
  BY <1>1, <1>2
<1>6. view'[r].pc \in {"sent", "refused"}
  BY <1>1, <1>2
<1>7. view'[r].pc \notin {"ask", "refused"} \/ DOMAIN view'[r].got # {} =>
        Replay!ensureOrgForIsolation(client'[r])
  BY <1>1, <1>2 DEF Replay!ViewInv
<1> QED BY <1>4, <1>5, <1>6, <1>7
    DEF Replay!ViewInv, Replay!Query, Replay!ensureOrgForIsolation

LEMMA ListFailsKeeps ==
  ASSUME NEW r \in Readers, Longer, DOMAIN view = Readers, Replay!ViewInv(r),
         Replay!ListFails(r)
  PROVE  Replay!ViewInv(r)'
<1> DEFINE v == view[r]
           ask == [v EXCEPT !.pc = "ask"]
<1>0. Replay!ViewShape(r) /\ Replay!GotTrue(r) /\ v.asOf \in 0 .. Len(stream)
      /\ v.asOf \in Nat /\ DOMAIN v = {"pc", "opts", "first", "query", "page", "got", "asOf"}
  BY ShapeFacts DEF Replay!ViewInv, Replay!ViewShape
<1>1. client' = client /\ view'[r] = ask
  BY <1>0 DEF Replay!ListFails
<1>2. /\ ask.pc = "ask" /\ ask.opts = v.opts /\ ask.first = v.first /\ ask.got = v.got
      /\ ask.asOf = v.asOf /\ DOMAIN ask = DOMAIN v
  BY <1>0
<1> HIDE DEF ask
<1>3. Same(r) /\ view'[r].asOf = v.asOf
  BY <1>1, <1>2 DEF Same
<1>4. Replay!ViewShape(r)' /\ Replay!GotTrue(r)'
  BY <1>0, <1>3, ShapeKept, GotKept
<1>5. DOMAIN view'[r].got # {} => Replay!ensureOrgForIsolation(client'[r])
  BY <1>1, <1>2 DEF Replay!ViewInv
<1> QED BY <1>1, <1>2, <1>4, <1>5 DEF Replay!ViewInv, Replay!ensureOrgForIsolation

LEMMA PageIsShown ==
  ASSUME NEW c, NEW q, q.limit \in Nat, NEW seqs \in Replay!PageOf(c, q)
  PROVE  /\ \E n \in Nat : DOMAIN seqs = 1 .. n
         /\ seqs = [i \in DOMAIN seqs |-> seqs[i]]
         /\ Len(seqs) \in Nat /\ DOMAIN seqs = 1 .. Len(seqs)
         /\ \A i \in DOMAIN seqs : seqs[i] \in Replay!Shown(c, q)
         /\ Replay!IsPage(seqs, Replay!Shown(c, q), q.limit)
BY DEF Replay!PageOf, Replay!SeqOf

\* What the broker shows of a reader's query is what the reader wants of the stream as
\* it is, from the first message on that it has not asked for.
LEMMA ShownIsWanted ==
  ASSUME NEW r \in Readers, Longer, Replay!ViewShape(r), Same(r), stream' = stream,
         view'[r].asOf = Len(stream), NEW k
  PROVE  k \in Replay!Shown(client[r], Replay!Query(view[r].opts))
           <=> Replay!Wants(r, k)' /\ Replay!Pending(r) <= k
<1> DEFINE q == Replay!Query(view[r].opts)
<1>1. q.from_seq = Replay!Pending(r) /\ q.to_seq = view[r].opts.to
  BY QueryFacts
<1>2. Replay!Pending(r) \in Nat /\ view[r].first \in Nat /\ view[r].first <= Replay!Pending(r)
      /\ Len(stream) \in Nat /\ client' = client
  BY ShapeFacts DEF Longer
<1> HIDE DEF q
<1>3. k \in Replay!Shown(client[r], q) <=>
        /\ k \in 1 .. Len(stream) /\ Replay!Pending(r) <= k
        /\ view[r].opts.to = 0 \/ k <= view[r].opts.to
        /\ Replay!MayRead(client[r], stream[k])
  BY <1>1 DEF Replay!Shown
<1>4. Replay!Wants(r, k)' <=>
        /\ k \in 1 .. Len(stream) /\ view[r].first <= k
        /\ view[r].opts.to = 0 \/ k <= view[r].opts.to
        /\ Replay!MayRead(client[r], stream[k])
  BY <1>2 DEF Replay!Wants, Replay!MayRead, Same
<1>5. k \in 1 .. Len(stream) /\ Replay!Pending(r) <= k => view[r].first <= k
  BY <1>2
<1> QED BY <1>3, <1>4, <1>5 DEF q

LEMMA ServeMessagesKeeps ==
  ASSUME NEW r \in Readers, Longer, DOMAIN view = Readers, Replay!ViewInv(r),
         Replay!ServeMessages(r)
  PROVE  Replay!ViewInv(r)'
<1> DEFINE v == view[r]
           q == Replay!Query(v.opts)
<1>0. /\ Replay!ViewShape(r) /\ Replay!GotTrue(r)
      /\ v.pc = "sent" /\ v.query = q /\ Replay!ensureOrgForIsolation(client[r])
      /\ v.asOf \in 0 .. Len(stream)
      /\ DOMAIN v = {"pc", "opts", "first", "query", "page", "got", "asOf"}
      /\ client' = client /\ stream' = stream /\ Len(stream) \in Nat
  BY DEF Replay!ViewInv, Replay!ViewShape, Replay!ServeMessages, Longer
<1>q. q.limit \in Nat \ {0}
  BY <1>0, QueryFacts
<1> HIDE DEF q
<1>1. PICK seqs \in Replay!PageOf(client[r], q), encoded \in BOOLEAN :
        view' = [view EXCEPT ![r] =
          [@ EXCEPT !.pc = "answered", !.asOf = Len(stream),
                    !.page = [k \in DOMAIN seqs |-> Replay!WireMessage(seqs[k], encoded)]]]
  BY <1>0 DEF Replay!ServeMessages
<1> DEFINE page == [k \in DOMAIN seqs |-> Replay!WireMessage(seqs[k], encoded)]
<1>2. /\ view'[r].pc = "answered" /\ view'[r].asOf = Len(stream) /\ view'[r].page = page
      /\ Same(r)
  BY <1>0, <1>1 DEF Same
<1>3. /\ Len(seqs) \in Nat /\ DOMAIN seqs = 1 .. Len(seqs)
      /\ \A i \in DOMAIN seqs : seqs[i] \in Replay!Shown(client[r], q)
      /\ Replay!IsPage(seqs, Replay!Shown(client[r], q), q.limit)
  BY <1>q, PageIsShown
<1>4. /\ DOMAIN page = 1 .. Len(seqs) /\ Replay!IsSequence(page)
      /\ \A i \in DOMAIN page : /\ page[i].seq = seqs[i]
                                /\ page[i].payload.of = stream[seqs[i]].body
  <2>1. DOMAIN page = 1 .. Len(seqs)
        /\ \A i \in DOMAIN page : page[i] = Replay!WireMessage(seqs[i], encoded)
    BY <1>3
  <2>2. \A k : Replay!WireMessage(k, encoded).seq = k
               /\ Replay!WireMessage(k, encoded).payload.of = stream[k].body
    BY DEF Replay!WireMessage
  <2>3. page = [i \in 1 .. Len(seqs) |-> page[i]]
    BY <1>3
  <2>4. Replay!IsSequence(page)
    BY <1>3, <2>1, <2>3, ListIsSequence
  <2> HIDE DEF page
  <2> QED BY <2>1, <2>2, <2>4
<1> HIDE DEF page
<1>5. Replay!ViewShape(r)' /\ Replay!GotTrue(r)' /\ Replay!Pending(r)' = Replay!Pending(r)
  BY <1>0, <1>2, ShapeKept, GotKept, ShapeFacts
<1>6. \A k : k \in Replay!Shown(client[r], q)
               <=> Replay!Wants(r, k)' /\ Replay!Pending(r) <= k
  BY <1>0, <1>2, ShownIsWanted DEF q
<1>7. Replay!PageTrue(r)'
  <2>1. Replay!IsSequence(view[r].page)'
    BY <1>2, <1>4 DEF Replay!IsSequence
  <2>2. \A i, j \in DOMAIN page : i < j => page[i].seq < page[j].seq
    BY <1>3, <1>4 DEF Replay!IsPage
  <2>3. ASSUME NEW i \in DOMAIN page
        PROVE  /\ Replay!Wants(r, view[r].page[i].seq)'
               /\ Replay!Pending(r)' <= page[i].seq
               /\ page[i].payload.of = stream'[page[i].seq].body
    <3>1. seqs[i] \in Replay!Shown(client[r], q) /\ page[i].seq = seqs[i]
          /\ page[i].payload.of = stream[seqs[i]].body
      BY <1>3, <1>4, <2>3
    <3>2. Replay!Wants(r, seqs[i])' /\ Replay!Pending(r) <= seqs[i]
      BY <1>6, <3>1
    <3>3. view'[r].page[i].seq = seqs[i]
      BY <1>2, <3>1
    <3> QED BY <1>0, <1>5, <3>1, <3>2, <3>3 DEF Replay!Wants
  <2>4. ASSUME NEW k \in Replay!Pending(r)' .. view'[r].asOf, Replay!Wants(r, k)'
        PROVE  \/ \E i \in DOMAIN page : page[i].seq = k
               \/ DOMAIN page # {} /\ \A i \in DOMAIN page : page[i].seq < k
    <3>1. k \in Replay!Shown(client[r], q)
      <4>1. Replay!Pending(r) <= k
        BY <1>5
      <4> QED BY <1>6, <2>4, <4>1
    <3>2. \/ \E i \in DOMAIN seqs : seqs[i] = k
          \/ Len(seqs) = q.limit /\ \A i \in DOMAIN seqs : seqs[i] < k
      BY <1>3, <3>1 DEF Replay!IsPage
    <3>3. Len(seqs) = q.limit => DOMAIN page # {}
      BY <1>q, <1>3, <1>4
    <3> QED BY <1>3, <1>4, <3>2, <3>3
  <2> QED BY <1>2, <2>1, <2>2, <2>3, <2>4 DEF Replay!PageTrue
<1> QED BY <1>0, <1>2, <1>5, <1>7 DEF Replay!ViewInv, Replay!ensureOrgForIsolation

LEMMA RangeSplit ==
  ASSUME NEW a \in Nat, NEW b \in Nat
  PROVE  /\ \A i \in 1 .. a + b : i \notin 1 .. a =>
              i - a \in 1 .. b /\ i > a /\ a + (i - a) = i
         /\ \A i \in 1 .. b : a + i \in 1 .. a + b
         /\ \A i \in 1 .. a : i \in 1 .. a + b
OBVIOUS

\* The messages of a page with their payloads decoded.
Message(m) == [seq |-> m.seq, payload |-> Replay!decodeStreamPayload(m.payload)]

Decoded(page) == [k \in DOMAIN page |-> Message(page[k])]

LEMMA MessageFields ==
  ASSUME NEW m
  PROVE  Message(m).seq = m.seq /\ Message(m).payload = m.payload.of
BY DEF Message, Replay!decodeStreamPayload

LEMMA DecodedFacts ==
  ASSUME NEW page, Replay!IsSequence(page)
  PROVE  /\ Replay!IsSequence(Decoded(page)) /\ Len(Decoded(page)) = Len(page)
         /\ Len(page) \in Nat /\ DOMAIN page = 1 .. Len(page)
         /\ DOMAIN Decoded(page) = 1 .. Len(page)
         /\ \A i \in DOMAIN page : /\ Decoded(page)[i].seq = page[i].seq
                                   /\ Decoded(page)[i].payload = page[i].payload.of
<1> DEFINE msgs == Decoded(page)
<1>1. Len(page) \in Nat /\ DOMAIN page = 1 .. Len(page)
  BY SequenceFacts
<1>2. DOMAIN msgs = 1 .. Len(page) /\ msgs = [i \in 1 .. Len(page) |-> msgs[i]]
  BY <1>1 DEF Decoded
<1>3. \A i \in DOMAIN page : msgs[i] = Message(page[i])
  BY DEF Decoded
<1> HIDE DEF msgs
<1>4. Replay!IsSequence(msgs) /\ Len(msgs) = Len(page)
  BY <1>1, <1>2, ListIsSequence
<1>5. \A i \in DOMAIN page : msgs[i].seq = page[i].seq /\ msgs[i].payload = page[i].payload.of
  BY <1>3, MessageFields
<1> QED BY <1>1, <1>2, <1>4, <1>5 DEF msgs

\* Nothing is left to ask for.
LEMMA TakeNothingKeeps ==
  ASSUME NEW r \in Readers, Longer, DOMAIN view = Readers, Replay!ViewInv(r),
         view[r].pc = "answered", view' = [view EXCEPT ![r] = [view[r] EXCEPT !.pc = "done"]],
         DOMAIN view[r].page = {}
  PROVE  Replay!ViewInv(r)'
<1> DEFINE v == view[r]
           done == [v EXCEPT !.pc = "done"]
<1>0. /\ Replay!ViewShape(r) /\ Replay!GotTrue(r) /\ Replay!PageTrue(r)
      /\ v.asOf \in 0 .. Len(stream) /\ v.asOf \in Nat
      /\ Replay!Pending(r) \in Nat /\ v.first \in Nat
      /\ DOMAIN v = {"pc", "opts", "first", "query", "page", "got", "asOf"}
      /\ client' = client
  BY ShapeFacts DEF Replay!ViewInv, Replay!ViewShape, Longer
<1>1. view'[r] = done
  OBVIOUS
<1>2. /\ done.pc = "done" /\ done.opts = v.opts /\ done.first = v.first /\ done.got = v.got
      /\ done.asOf = v.asOf /\ DOMAIN done = DOMAIN v
  BY <1>0
<1> HIDE DEF done
<1>3. Same(r) /\ view'[r].asOf = v.asOf
  BY <1>1, <1>2 DEF Same
<1>4. Replay!ViewShape(r)' /\ Replay!GotTrue(r)'
  BY <1>0, <1>3, ShapeKept, GotKept
<1>5. ASSUME NEW k \in 1 .. v.asOf, Replay!Wants(r, k)'
      PROVE  \E i \in DOMAIN v.got : v.got[i].seq = k
  <2>1. Replay!Wants(r, k)
    BY <1>0, <1>3, <1>5, WantsGrow
  <2>2. k < Replay!Pending(r)
    BY <1>0, <2>1 DEF Replay!PageTrue
  <2>3. k \in 1 .. Replay!Pending(r) - 1 /\ v.first <= k
    BY <1>0, <2>1, <2>2 DEF Replay!Wants
  <2> QED BY <2>1, <2>3, <1>0 DEF Replay!GotTrue
<1>6. Replay!ensureOrgForIsolation(client'[r])
  BY <1>0 DEF Replay!ViewInv
<1>7. view'[r].pc = "done" /\ view'[r].asOf = v.asOf /\ view'[r].got = v.got
  BY <1>1, <1>2
<1>8. \A k \in 1 .. view'[r].asOf : Replay!Wants(r, k)' =>
        \E i \in DOMAIN view'[r].got : view'[r].got[i].seq = k
  BY <1>5, <1>7
<1> QED BY <1>4, <1>6, <1>7, <1>8 DEF Replay!ViewInv, Replay!ensureOrgForIsolation

TakesPage(r, msgs) ==
  view' = [view EXCEPT ![r] =
             [view[r] EXCEPT !.pc = "ask", !.got = @ \o msgs, !.page = <<>>,
                             !.opts = [@ EXCEPT !.from = msgs[Len(msgs)].seq + 1]]]

\* The reader has the messages of the page and asks on from the last of them.
LEMMA TakePageKeeps ==
  ASSUME NEW r \in Readers, Longer, stream' = stream, DOMAIN view = Readers, Replay!ViewInv(r),
         view[r].pc = "answered", DOMAIN view[r].page # {},
         TakesPage(r, Decoded(view[r].page))
  PROVE  Replay!ViewInv(r)'
<1> DEFINE v == view[r]
           msgs == Decoded(v.page)
           next == msgs[Len(msgs)].seq + 1
           o == [v.opts EXCEPT !.from = next]
           w == [v EXCEPT !.pc = "ask", !.got = v.got \o msgs, !.page = <<>>, !.opts = o]
<1>0. /\ Replay!ViewShape(r) /\ Replay!GotTrue(r) /\ Replay!PageTrue(r)
      /\ v.asOf \in 0 .. Len(stream) /\ v.asOf \in Nat
      /\ Replay!Pending(r) \in Nat \ {0} /\ v.first \in Nat /\ v.first <= Replay!Pending(r)
      /\ v.opts \in [from : Nat, to : Nat, limit : Int]
      /\ Replay!IsSequence(v.got) /\ Replay!IsSequence(v.page)
      /\ DOMAIN v = {"pc", "opts", "first", "query", "page", "got", "asOf"}
      /\ client' = client /\ Replay!ensureOrgForIsolation(client[r])
  BY ShapeFacts DEF Replay!ViewInv, Replay!ViewShape, Replay!PageTrue, Longer
<1>1. view'[r] = w
  BY DEF TakesPage
<1>2. /\ w.pc = "ask" /\ w.opts = o /\ w.first = v.first /\ w.got = v.got \o msgs
      /\ w.asOf = v.asOf /\ DOMAIN w = DOMAIN v
  BY <1>0
<1> HIDE DEF w
<1>3. /\ Replay!IsSequence(msgs) /\ Len(msgs) = Len(v.page)
      /\ Len(msgs) \in Nat /\ DOMAIN v.page = 1 .. Len(msgs) /\ DOMAIN msgs = 1 .. Len(msgs)
      /\ Len(msgs) # 0 /\ Len(msgs) \in DOMAIN v.page
      /\ \A i \in DOMAIN v.page : /\ msgs[i].seq = v.page[i].seq
                                  /\ msgs[i].payload = v.page[i].payload.of
  BY <1>0, DecodedFacts
<1> HIDE DEF msgs
<1>4. \A i \in 1 .. Len(msgs) :
        /\ Replay!Wants(r, msgs[i].seq) /\ Replay!Pending(r) <= msgs[i].seq
        /\ msgs[i].payload = stream[msgs[i].seq].body
        /\ msgs[i].seq \in 1 .. v.asOf
  BY <1>0, <1>3 DEF Replay!PageTrue, Replay!Wants
<1>5. \A i, j \in 1 .. Len(msgs) : i < j => msgs[i].seq < msgs[j].seq
  BY <1>0, <1>3 DEF Replay!PageTrue
<1>6. /\ next \in Nat \ {0} /\ Replay!Pending(r) < next /\ next <= v.asOf + 1
      /\ \A i \in 1 .. Len(msgs) : msgs[i].seq < next
  <2>1. Len(msgs) \in 1 .. Len(msgs)
    BY <1>3
  <2> DEFINE last == msgs[Len(msgs)].seq
  <2>2. last \in 1 .. v.asOf /\ Replay!Pending(r) <= last
    BY <1>4, <2>1
  <2>3. \A i \in 1 .. Len(msgs) : i = Len(msgs) \/ i < Len(msgs)
    BY <1>3
  <2>4. \A i \in 1 .. Len(msgs) : msgs[i].seq = last \/ msgs[i].seq < last
    BY <1>5, <2>1, <2>3
  <2>5. \A i \in 1 .. Len(msgs) : msgs[i].seq \in Nat
    BY <1>4
  <2> HIDE DEF last
  <2>6. last + 1 \in Nat \ {0} /\ Replay!Pending(r) < last + 1 /\ last + 1 <= v.asOf + 1
        /\ \A i \in 1 .. Len(msgs) : msgs[i].seq < last + 1
    <3>1. v.asOf \in Nat /\ Replay!Pending(r) \in Nat /\ last \in Nat
      BY <1>0, <2>2
    <3> QED BY <2>2, <2>4, <2>5, <3>1
  <2> QED BY <2>6 DEF last
<1> HIDE DEF next
<1>7. o.from = next /\ o.to = v.opts.to /\ o \in [from : Nat, to : Nat, limit : Int]
  BY <1>0, <1>6
<1> HIDE DEF o
<1>8. Replay!Pending(r)' = next
  BY <1>1, <1>2, <1>6, <1>7 DEF Replay!Pending
<1>9. \A k : Replay!Wants(r, k)' <=> Replay!Wants(r, k)
  BY <1>0, <1>1, <1>2, <1>7 DEF Replay!Wants, Replay!MayRead
<1> DEFINE got == v.got \o msgs
<1>10. /\ Replay!IsSequence(got) /\ Len(v.got) \in Nat
       /\ DOMAIN v.got = 1 .. Len(v.got)
       /\ DOMAIN got = 1 .. Len(v.got) + Len(msgs)
       /\ \A i \in 1 .. Len(v.got) : got[i] = v.got[i]
       /\ \A i \in 1 .. Len(msgs) : got[Len(v.got) + i] = msgs[i]
  <2>1. Replay!IsSequence(v.got) /\ Replay!IsSequence(msgs)
    BY <1>0, <1>3
  <2> QED BY <2>1, Concat
<1> HIDE DEF got
<1>11. \A i \in DOMAIN got :
         \/ i \in 1 .. Len(v.got)
         \/ i - Len(v.got) \in 1 .. Len(msgs) /\ got[i] = msgs[i - Len(v.got)]
            /\ i > Len(v.got)
  <2>1. ASSUME NEW i \in DOMAIN got, i \notin 1 .. Len(v.got)
        PROVE  i - Len(v.got) \in 1 .. Len(msgs) /\ i > Len(v.got)
               /\ Len(v.got) + (i - Len(v.got)) = i
    BY <1>3, <1>10, <2>1, RangeSplit
  <2>2. ASSUME NEW i \in DOMAIN got, i \notin 1 .. Len(v.got)
        PROVE  got[i] = msgs[i - Len(v.got)]
    BY <1>10, <2>1, <2>2
  <2> QED BY <2>1, <2>2
<1>12. Replay!ViewShape(r)'
  <2>1. Replay!IsSequence(view[r].got)'
    <3>1. view'[r].got = got
      BY <1>1, <1>2 DEF got
    <3> QED BY <1>10, <3>1 DEF Replay!IsSequence
  <2>2. view'[r].first <= Replay!Pending(r)'
    BY <1>0, <1>1, <1>2, <1>6, <1>8
  <2> QED BY <1>0, <1>1, <1>2, <1>7, <2>1, <2>2 DEF Replay!ViewShape
<1>13. ASSUME NEW i \in DOMAIN got
       PROVE  /\ Replay!Wants(r, got[i].seq) /\ got[i].payload = stream[got[i].seq].body
              /\ got[i].seq < next
  <2>1. CASE i \in 1 .. Len(v.got)
    <3>1. /\ Replay!Wants(r, v.got[i].seq) /\ v.got[i].payload = stream[v.got[i].seq].body
          /\ v.got[i].seq < Replay!Pending(r)
      BY <1>0, <1>10, <2>1 DEF Replay!GotTrue, Replay!Truthful
    <3>2. v.got[i].seq \in Nat
      BY <1>0, <3>1 DEF Replay!Wants
    <3>3. v.got[i].seq < next
      BY <1>0, <1>6, <3>1, <3>2
    <3> QED BY <1>10, <2>1, <3>1, <3>3
  <2>2. CASE i \notin 1 .. Len(v.got)
    BY <1>4, <1>6, <1>11, <2>2
  <2> QED BY <2>1, <2>2
<1>14. ASSUME NEW i \in DOMAIN got, NEW j \in DOMAIN got, i < j
       PROVE  got[i].seq < got[j].seq
  <2>1. CASE i \in 1 .. Len(v.got) /\ j \in 1 .. Len(v.got)
    BY <1>0, <1>10, <1>14, <2>1 DEF Replay!GotTrue, Replay!Truthful
  <2>2. CASE i \in 1 .. Len(v.got) /\ j \notin 1 .. Len(v.got)
    <3>1. v.got[i].seq < Replay!Pending(r) /\ Replay!Wants(r, v.got[i].seq)
      BY <1>0, <1>10, <2>2 DEF Replay!GotTrue, Replay!Truthful
    <3>2. Replay!Pending(r) <= got[j].seq /\ got[j].seq \in Nat
      BY <1>4, <1>11, <2>2
    <3>3. v.got[i].seq \in Nat
      BY <1>0, <3>1 DEF Replay!Wants
    <3>4. v.got[i].seq < got[j].seq
      BY <1>0, <3>1, <3>2, <3>3
    <3> QED BY <1>10, <2>2, <3>4
  <2>3. CASE i \notin 1 .. Len(v.got)
    <3>1. i \in Int /\ j \in Int /\ Len(v.got) \in Int
      BY <1>3, <1>10
    <3>2. i > Len(v.got)
      BY <1>11, <2>3
    <3>3. j \notin 1 .. Len(v.got) /\ i - Len(v.got) < j - Len(v.got)
      BY <1>14, <3>1, <3>2
    <3> QED BY <1>5, <1>11, <2>3, <3>3
  <2> QED BY <2>1, <2>2, <2>3
<1>15. ASSUME NEW k \in 1 .. next - 1, v.first <= k
       PROVE  /\ k <= v.asOf
              /\ Replay!Wants(r, k) => \E i \in DOMAIN got : got[i].seq = k
  <2>1. k <= v.asOf
    BY <1>0, <1>6, <1>15
  <2>2. CASE k < Replay!Pending(r)
    <3>1. k \in 1 .. Replay!Pending(r) - 1
      BY <1>0, <1>6, <1>15, <2>2
    <3>2. Replay!Wants(r, k) => \E i \in DOMAIN v.got : v.got[i].seq = k
      BY <1>0, <1>15, <3>1 DEF Replay!GotTrue
    <3>3. \A i \in DOMAIN v.got : i \in DOMAIN got
      BY <1>3, <1>10, RangeSplit
    <3> QED BY <1>10, <2>1, <3>2, <3>3
  <2>3. CASE ~(k < Replay!Pending(r))
    <3>1. k \in Replay!Pending(r) .. v.asOf /\ k \in Nat
      BY <1>0, <1>6, <1>15, <2>1, <2>3
    <3>2. ASSUME Replay!Wants(r, k)
          PROVE  \E i \in 1 .. Len(msgs) : msgs[i].seq = k
      <4>1. ~(v.page[Len(msgs)].seq < k)
        <5>1. msgs[Len(msgs)].seq \in Nat /\ next = msgs[Len(msgs)].seq + 1
          BY <1>3, <1>4 DEF next
        <5>2. v.page[Len(msgs)].seq = msgs[Len(msgs)].seq /\ k \in 1 .. next - 1
          BY <1>3, <1>15
        <5> QED BY <5>1, <5>2
      <4>2. \E i \in DOMAIN v.page : v.page[i].seq = k
        BY <1>0, <1>3, <3>1, <3>2, <4>1 DEF Replay!PageTrue
      <4> QED BY <1>3, <4>2
    <3>3. \A i \in 1 .. Len(msgs) : Len(v.got) + i \in DOMAIN got
      BY <1>3, <1>10, RangeSplit
    <3> QED BY <1>10, <2>1, <3>2, <3>3
  <2> QED BY <2>2, <2>3
<1>16. Replay!GotTrue(r)'
  <2>1. view'[r].got = got /\ view'[r].first = v.first /\ view'[r].asOf = v.asOf
    BY <1>1, <1>2 DEF got
  <2>2. ASSUME NEW i \in DOMAIN got
        PROVE  /\ Replay!Wants(r, view[r].got[i].seq)'
               /\ view'[r].got[i].payload = stream'[view'[r].got[i].seq].body
    <3>1. Replay!Wants(r, view'[r].got[i].seq)
      BY <1>13, <2>1, <2>2
    <3>2. /\ view'[r].opts.to = v.opts.to /\ view'[r].first = v.first
          /\ view'[r].asOf = v.asOf /\ client' = client
      BY <1>0, <1>1, <1>2, <1>7
    <3>3. Replay!Wants(r, view[r].got[i].seq)'
      BY <3>1, <3>2 DEF Replay!Wants, Replay!MayRead
    <3>4. got[i].payload = stream[got[i].seq].body
      BY <1>13, <2>2
    <3> QED BY <2>1, <3>3, <3>4
  <2>3. Replay!Truthful(r, view[r].got)'
    BY <1>14, <2>1, <2>2 DEF Replay!Truthful
  <2>4. ASSUME NEW k \in 1 .. Replay!Pending(r)' - 1, view'[r].first <= k
        PROVE  /\ k <= view'[r].asOf
               /\ Replay!Wants(r, k)' =>
                    \E i \in DOMAIN view'[r].got : view'[r].got[i].seq = k
    <3>1. k \in 1 .. next - 1 /\ v.first <= k
      BY <1>8, <2>1, <2>4
    <3> QED BY <1>9, <1>15, <2>1, <3>1
  <2>5. \A i \in DOMAIN view'[r].got : view'[r].got[i].seq < Replay!Pending(r)'
    BY <1>8, <1>13, <2>1
  <2> QED BY <2>3, <2>4, <2>5 DEF Replay!GotTrue
<1> QED BY <1>0, <1>1, <1>2, <1>12, <1>16 DEF Replay!ViewInv, Replay!ensureOrgForIsolation

LEMMA TakeMessagesKeeps ==
  ASSUME NEW r \in Readers, Longer, DOMAIN view = Readers, Replay!ViewInv(r),
         Replay!TakeMessages(r)
  PROVE  Replay!ViewInv(r)'
<1> DEFINE page == view[r].page
           msgs == Decoded(page)
<1>1. view[r].pc = "answered" /\ stream' = stream /\ Replay!IsSequence(page)
  BY DEF Replay!TakeMessages, Replay!ViewInv, Replay!PageTrue
<1>2. /\ DOMAIN msgs = DOMAIN page /\ DOMAIN page = 1 .. Len(page)
      /\ Len(msgs) = Len(page) /\ Len(page) \in Nat
  BY <1>1, DecodedFacts
<1>3. \/ msgs = <<>> /\ view' = [view EXCEPT ![r] = [view[r] EXCEPT !.pc = "done"]]
      \/ msgs # <<>> /\ TakesPage(r, msgs)
  BY DEF Replay!TakeMessages, TakesPage, Decoded, Message, Replay!Last
<1>4. msgs # <<>> => DOMAIN page # {}
  <2>1. msgs = [i \in DOMAIN page |-> Message(page[i])]
    BY DEF Decoded
  <2> HIDE DEF msgs
  <2> QED BY <2>1
<1>5. msgs = <<>> => DOMAIN page = {}
  BY <1>2, EmptyMap
<1> HIDE DEF msgs
<1> QED BY <1>1, <1>3, <1>4, <1>5, TakeNothingKeeps, TakePageKeeps DEF msgs

LEMMA ReplayInvInit == Init => Replay!ReplayInv
<1> SUFFICES ASSUME Init PROVE Replay!ReplayInv
  OBVIOUS
<1>1. stream = <<>> /\ Len(stream) = 0 /\ DOMAIN view = Readers
  BY DEF Init, Replay!ReplayInit
<1>2. ASSUME NEW r \in Readers
      PROVE  Replay!ViewInv(r)
  <2>1. PICK o \in Ranges :
          view[r] = [pc |-> "ask", opts |-> o, first |-> o.from, query |-> <<>>,
                     page |-> <<>>, got |-> <<>>, asOf |-> 0]
    BY DEF Init, Replay!ReplayInit
  <2>2. o \in [from : Nat, to : Nat, limit : Int]
    BY RangesAssumption
  <2>3. /\ view[r].pc = "ask" /\ view[r].opts = o /\ view[r].first = o.from
        /\ view[r].got = <<>> /\ view[r].asOf = 0
        /\ DOMAIN view[r] = {"pc", "opts", "first", "query", "page", "got", "asOf"}
    BY <2>1
  <2>4. Replay!IsSequence(<<>>) /\ DOMAIN <<>> = {}
    BY DEF Replay!IsSequence
  <2>5. Replay!Pending(r) \in Nat \ {0} /\ view[r].first <= Replay!Pending(r)
        /\ \A k \in 1 .. Replay!Pending(r) - 1 : ~(view[r].first <= k)
    BY <2>2, <2>3 DEF Replay!Pending
  <2>6. Replay!ViewShape(r)
    BY <1>1, <2>2, <2>3, <2>4, <2>5 DEF Replay!ViewShape
  <2>7. Replay!GotTrue(r)
    BY <2>3, <2>4, <2>5 DEF Replay!GotTrue, Replay!Truthful
  <2> QED BY <2>3, <2>4, <2>6, <2>7 DEF Replay!ViewInv
<1> QED BY <1>1, <1>2 DEF Replay!ReplayInv

LEMMA ReplayInvNext == IInv /\ Replay!ReplayInv /\ [Next]_vars => Replay!ReplayInv'
<1> SUFFICES ASSUME IInv, Replay!ReplayInv, [Next]_vars PROVE Replay!ReplayInv'
  OBVIOUS
<1>0. Longer /\ DOMAIN view = Readers /\ \A r \in Readers : Replay!ViewInv(r)
  BY NextLonger DEF Replay!ReplayInv
<1>1. CASE view' = view
  BY <1>0, <1>1, ViewKept DEF Replay!ReplayInv
<1>2. CASE Replay!ReplayNext
  <2>1. PICK r \in Readers : \/ Replay!ListStreamMessages(r) \/ Replay!ServeMessages(r)
                             \/ Replay!ListFails(r) \/ Replay!TakeMessages(r)
    BY <1>2 DEF Replay!ReplayNext
  <2>2. DOMAIN view' = Readers /\ \A q \in Readers \ {r} : view'[q] = view[q]
    BY <1>0, <2>1 DEF Replay!ListStreamMessages, Replay!ServeMessages, Replay!ListFails,
                      Replay!TakeMessages
  <2>3. Replay!ViewInv(r)'
    BY <1>0, <2>1, ListStreamMessagesKeeps, ServeMessagesKeeps, ListFailsKeeps, TakeMessagesKeeps
  <2>4. \A q \in Readers \ {r} : Replay!ViewInv(q)'
    BY <1>0, <2>2, ViewKept
  <2> QED BY <2>2, <2>3, <2>4 DEF Replay!ReplayInv
<1> QED BY <1>1, <1>2 DEF Next, vars

LEMMA ReplayInvariant == Spec => []Replay!ReplayInv
<1>1. IInv /\ Replay!ReplayInv /\ [Next]_vars => Replay!ReplayInv'
  BY ReplayInvNext
<1> QED BY ReplayInvInit, <1>1, Invariant, PTL DEF Spec

\* A replay that stops at an empty page has exactly the messages of its range that
\* this client may read (ListStreamMessages), in order and as they were published,
\* for any limit, any appending in between and any number of failed pages.
THEOREM ReplayTrue == Spec => []ReplayExact
<1>1. ASSUME Replay!ReplayInv PROVE ReplayExact
  <2> SUFFICES ASSUME NEW r \in Readers, view[r].pc = "done"
      PROVE  LET o == view[r].opts
                 got == view[r].got
                 wanted == {k \in 1 .. view[r].asOf :
                              /\ view[r].first <= k /\ (o.to = 0 \/ k <= o.to)
                              /\ Replay!MayRead(client[r], stream[k])}
             IN  /\ {got[i].seq : i \in DOMAIN got} = wanted
                 /\ \A i, j \in DOMAIN got : i < j => got[i].seq < got[j].seq
                 /\ \A i \in DOMAIN got : got[i].payload = stream[got[i].seq].body
    BY DEF ReplayExact, Replay!ReplayExact
  <2>1. Replay!ViewInv(r)
    BY <1>1 DEF Replay!ReplayInv
  <2>2. Replay!Truthful(r, view[r].got)
    BY <2>1 DEF Replay!ViewInv, Replay!GotTrue
  <2>3. \A k \in 1 .. view[r].asOf : Replay!Wants(r, k) =>
          \E i \in DOMAIN view[r].got : view[r].got[i].seq = k
    BY <2>1 DEF Replay!ViewInv
  <2> QED BY <2>2, <2>3 DEF Replay!Truthful, Replay!Wants
<1> QED BY <1>1, ReplayInvariant, PTL

\* An organization that is required is in every event of the client, and every
\* message that a client which requires one has read is that organization's
\* (ensureOrgForIsolation, applyAuthHeaders).
THEOREM IsolationKept == Spec => []Isolated
<1>1. ASSUME Replay!ReplayInv PROVE ReadersIsolated
  <2> SUFFICES ASSUME NEW r \in Readers, client[r].requireOrg, NEW m \in 1 .. Len(view[r].got)
      PROVE  LET h == stream[view[r].got[m].seq].headers
             IN  "org" \in DOMAIN h /\ h["org"] = client[r].org
    BY DEF ReadersIsolated
  <2>1. Replay!ViewInv(r)
    BY <1>1 DEF Replay!ReplayInv
  <2>2. m \in DOMAIN view[r].got
    BY <2>1, ShapeFacts, SequenceFacts DEF Replay!ViewInv
  <2>3. Replay!MayRead(client[r], stream[view[r].got[m].seq])
    BY <2>1, <2>2 DEF Replay!ViewInv, Replay!GotTrue, Replay!Truthful, Replay!Wants
  <2>4. Replay!ensureOrgForIsolation(client[r])
    BY <2>1, <2>2 DEF Replay!ViewInv
  <2>5. "org" \in DOMAIN Replay!applyAuthHeaders(client[r])
        /\ Replay!applyAuthHeaders(client[r])["org"] = client[r].org
    BY <2>4 DEF Replay!ensureOrgForIsolation, Replay!applyAuthHeaders
  <2> QED BY <2>3, <2>5 DEF Replay!MayRead
<1>2. IInv /\ EmitsIsolated /\ [Next]_vars => EmitsIsolated'
  BY EmitsIsolatedNext
<1>3. Spec => []EmitsIsolated
  BY EmitsIsolatedInit, <1>2, Invariant, PTL DEF Spec
<1>4. EmitsIsolated /\ ReadersIsolated => Isolated
  BY DEF Isolated
<1> QED BY <1>1, <1>3, <1>4, ReplayInvariant, PTL
===============================================================================
