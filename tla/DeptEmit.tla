------------------------------- MODULE DeptEmit -------------------------------
(***************************************************************************)
(* EmitDeptEvent and EmitLLMCall (metering.go): goroutines publish events   *)
(* whose payload is a Go map, which may be the caller's own.  EmitDeptEvent *)
(* adds the client's identity to that very map; EmitLLMCall builds a map of *)
(* its own and copies the caller's Extra into it.                           *)
(*                                                                          *)
(* A map that one goroutine writes while another is at it is a data race:   *)
(* the runtime may end the program, or nothing shows.                       *)
(***************************************************************************)
EXTENDS Identity, Sequences

CONSTANTS
  Procs,      \* goroutines that emit
  Maps,       \* maps that callers hold and may pass more than once
  NoMap,      \* a nil map
  Contents,   \* what a caller may have put into a map
  Tenants,    \* the tenant a caller names, "" for none
  LLMCalls,   \* the identity fields a call of EmitLLMCall sets
  MaxEmits    \* bound: events emitted

VARIABLES
  stream,    \* the events of the stream dept, in order
  client,    \* each goroutine's client
  maps,      \* the contents of every map; a goroutine's own is under its name
  pc,        \* where each goroutine is
  ev,        \* the event each goroutine is at
  emitted,   \* events begun
  crashed,   \* the map whose race ended the program, or NoMap
  users,     \* history: the goroutines that passed each map as a payload
  given      \* history: what the callers put into each map

emitVars == <<client, maps, pc, ev, emitted, crashed, users, given>>

Keys == {"org", "workspace", "tenant"}

\* The fields of base, and those of more that base lacks.
Filled(base, more) ==
  [k \in DOMAIN base \cup DOMAIN more |-> IF k \in DOMAIN base THEN base[k] ELSE more[k]]

\* The caller's arguments and what becomes of them.
NoEvent == [payload |-> NoMap, extra |-> NoMap, tenant |-> "", asked |-> <<>>, raw |-> <<>>]

EmitInit ==
  /\ given \in [Maps -> Contents]
  /\ maps = [m \in Maps \cup Procs |-> IF m \in Maps THEN given[m] ELSE <<>>]
  /\ pc = [p \in Procs |-> "idle"]
  /\ ev = [p \in Procs |-> NoEvent]
  /\ emitted = 0 /\ crashed = NoMap
  /\ users = [m \in Maps |-> {}]

Running == crashed = NoMap

Begin(p, e, at) ==
  /\ Running /\ pc[p] = "idle" /\ emitted < MaxEmits
  /\ emitted' = emitted + 1
  /\ ev' = [ev EXCEPT ![p] = e]
  /\ pc' = [pc EXCEPT ![p] = at]
  /\ UNCHANGED <<stream, client, crashed, given>>

\* ev.Tenant defaults to the client's; ev is a copy, the caller's is not touched.
TenantOf(p, t) == IF t = "" THEN client[p].tenant ELSE t

\* The caller's payload, or a new map.  (An event without a type is refused
\* before anything else.)
EmitDeptEvent(p, m, t) ==
  /\ Begin(p, [NoEvent EXCEPT !.payload = IF m = NoMap THEN p ELSE m, !.tenant = TenantOf(p, t)],
           "enrich")
  /\ IF m = NoMap THEN maps' = [maps EXCEPT ![p] = <<>>] /\ UNCHANGED users
     ELSE users' = [users EXCEPT ![m] = @ \cup {p}] /\ UNCHANGED maps

\* The fields of the call that are set, which the payload starts from.
EmitLLMCall(p, call, extra) ==
  /\ Begin(p, [NoEvent EXCEPT !.payload = p, !.extra = extra, !.asked = call,
                              !.tenant = TenantOf(p, IF "tenant" \in DOMAIN call THEN call["tenant"] ELSE "")],
           "extra")
  /\ maps' = [maps EXCEPT ![p] = call]
  /\ UNCHANGED users

\* Mutation: Extra becomes the payload.
ExtraPayloadItself(p) ==
  /\ ev' = [ev EXCEPT ![p].payload = IF ev[p].extra = NoMap THEN p ELSE ev[p].extra]
  /\ maps' = IF ev[p].extra = NoMap THEN maps
             ELSE [maps EXCEPT ![ev[p].extra] = Filled(@, maps[p])]

\* Extra is copied over the payload, key by key.
ExtraPayload(p) ==
  /\ maps' = IF ev[p].extra = NoMap THEN maps
             ELSE [maps EXCEPT ![p] = Filled(maps[ev[p].extra], @)]
  /\ UNCHANGED ev

CopyExtra(p) ==
  /\ Running /\ pc[p] = "extra"
  /\ ExtraPayload(p)
  /\ pc' = [pc EXCEPT ![p] = "enrich"]
  /\ UNCHANGED <<stream, client, emitted, crashed, users, given>>

\* What the client adds to a payload that lacks it.
Own(p) ==
  LET all == [org |-> client[p].org, workspace |-> client[p].workspace, tenant |-> ev[p].tenant]
  IN  [k \in {h \in Keys : all[h] # ""} |-> all[k]]

Enrich(p) ==
  /\ Running /\ pc[p] = "enrich"
  /\ maps' = [maps EXCEPT ![ev[p].payload] = Filled(@, Own(p))]
  /\ pc' = [pc EXCEPT ![p] = "marshal"]
  /\ UNCHANGED <<stream, client, ev, emitted, crashed, users, given>>

Marshal(p) ==
  /\ Running /\ pc[p] = "marshal"
  /\ ev' = [ev EXCEPT ![p].raw = maps[ev[p].payload]]
  /\ pc' = [pc EXCEPT ![p] = "publish"]
  /\ UNCHANGED <<stream, client, maps, emitted, crashed, users, given>>

Event(p) ==
  [by |-> p, headers |-> applyAuthHeaders(client[p]), tenant |-> ev[p].tenant, body |-> ev[p].raw,
   payload |-> ev[p].payload, extra |-> ev[p].extra, asked |-> ev[p].asked]

\* Publish to dept: the organization gate, then a request that is served or
\* lost, whatever the caller hears of it.
PublishEvent(p) ==
  /\ Running /\ pc[p] = "publish"
  /\ \/ ensureOrgForIsolation(client[p]) /\ stream' = Append(stream, Event(p))
     \/ UNCHANGED stream
  /\ pc' = [pc EXCEPT ![p] = "idle"]
  /\ ev' = [ev EXCEPT ![p] = NoEvent]
  /\ UNCHANGED <<client, maps, emitted, crashed, users, given>>

\* The map a goroutine is at, and whether it writes it.
Reads(p, m) == \/ pc[p] = "extra" /\ ev[p].extra = m
               \/ pc[p] \in {"enrich", "marshal"} /\ ev[p].payload = m

Writes(p, m) == /\ pc[p] = "enrich" /\ ev[p].payload = m
                /\ DOMAIN Own(p) \ DOMAIN maps[m] # {}

\* fatal error: concurrent map writes.
Crash(m) ==
  /\ Running
  /\ \E p, q \in Procs : p # q /\ Writes(p, m) /\ Reads(q, m)
  /\ crashed' = m
  /\ UNCHANGED <<stream, client, maps, pc, ev, emitted, users, given>>

EmitNext ==
  \/ \E p \in Procs :
       \/ \E m \in Maps \cup {NoMap}, t \in Tenants : EmitDeptEvent(p, m, t)
       \/ \E call \in LLMCalls, m \in Maps \cup {NoMap} : EmitLLMCall(p, call, m)
       \/ CopyExtra(p) \/ Enrich(p) \/ Marshal(p) \/ PublishEvent(p)
  \/ \E m \in Maps : Crash(m)
-----------------------------------------------------------------------------
(* Properties. *)

Emits == {k \in 1 .. Len(stream) : stream[k].by \in Procs}

At(f, k) == IF k \in DOMAIN f THEN {f[k]} ELSE {}

\* What a client, or the caller that names a tenant for it, calls itself.
Named(p, k) == IF k = "tenant" THEN {client[p].tenant} \cup Tenants ELSE {client[p][k]}

\* What a map may name: what its owner put there, and the clients whose events went
\* out with it as their payload.
MapSources(m, k) == At(given[m], k) \cup UNION {Named(p, k) : p \in users[m]}

\* Where the value of an identity key in an event of p may come from: its client, the
\* call, the caller's maps.
Sources(p, e, k) ==
  Named(p, k) \cup At(e.asked, k)
    \cup UNION {MapSources(m, k) : m \in {e.payload, e.extra} \cap Maps}

\* The organization, workspace and tenant that a body names are the client's own or
\* were given to the call or came with a map that was an event's payload before
\* (EmitDeptEvent writes into the map it is given): emitting LLM calls, with an
\* Extra shared or not, never lets one client's identity into another's event.
IdentityIsTraceable ==
  \A i \in Emits : \A k \in DOMAIN stream[i].body \cap Keys :
    stream[i].body[k] \in Sources(stream[i].by, stream[i], k)

\* The program ends by a race only on a map that a caller passed as a payload: LLM
\* calls that share an Extra only read it.
CrashNeedsSharedPayload == crashed # NoMap => users[crashed] # {}
-----------------------------------------------------------------------------
(* The inductive invariant behind them: what the maps and the events that are  *)
(* under way name, and who has used which map.                                 *)

IsFunction(f, S) == f = [x \in S |-> f[x]]

Shape ==
  /\ IsFunction(maps, Maps \cup Procs)
  /\ IsFunction(pc, Procs) /\ IsFunction(ev, Procs) /\ IsFunction(users, Maps)
  /\ \A p \in Procs : DOMAIN ev[p] = DOMAIN NoEvent

MapsTraceable ==
  \A m \in Maps : \A k \in DOMAIN maps[m] \cap Keys : maps[m][k] \in MapSources(m, k)

\* The payload is the goroutine's own map or one that it is a user of.
PayloadInv(p) ==
  /\ pc[p] = "extra" => ev[p].payload = p
  /\ ev[p].extra \in Maps \cup {NoMap}
  /\ ev[p].payload # p => ev[p].payload \in Maps /\ p \in users[ev[p].payload]
  /\ ev[p].tenant \in Named(p, "tenant")
       \cup (IF ev[p].payload = p THEN At(ev[p].asked, "tenant") ELSE {})

EventTraceable(p) ==
  /\ ev[p].payload = p =>
       \A k \in DOMAIN maps[p] \cap Keys : maps[p][k] \in Sources(p, ev[p], k)
  /\ pc[p] = "publish" =>
       \A k \in DOMAIN ev[p].raw \cap Keys : ev[p].raw[k] \in Sources(p, ev[p], k)

EmitInv ==
  /\ Shape /\ MapsTraceable
  /\ \A p \in Procs : pc[p] # "idle" => PayloadInv(p) /\ EventTraceable(p)
  /\ IdentityIsTraceable /\ CrashNeedsSharedPayload
===============================================================================
