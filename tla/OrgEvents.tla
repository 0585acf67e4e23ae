------------------------------ MODULE OrgEvents ------------------------------
(***************************************************************************)
(* The events of an organization, end to end: programs connected from their *)
(* environment emit department events, a connector adapter turns webhooks   *)
(* into observations, and readers replay the one stream that holds both.    *)
(***************************************************************************)
EXTENDS Integers, Sequences

CONSTANTS
  Procs, Maps, NoMap, Contents, Tenants, LLMCalls,
  Readers, Ranges, DefaultLimit, MaxLimit,
  Hooks, Org, Installs,
  MaxBegun,     \* bound: events and deliveries begun
  Parsed, Seconds, DefaultTimeout,
  Envs          \* environments that a program may be started in

ASSUME LimitAssumption == MaxLimit \in Nat /\ DefaultLimit \in 1 .. MaxLimit

\* Sequence numbers are unsigned; a limit may be negative.
ASSUME RangesAssumption == Ranges \subseteq [from : Nat, to : Nat, limit : Int]

\* Goroutines, maps and the connector are different things.
ASSUME NamesAssumption ==
  /\ Procs \cap Maps = {} /\ NoMap \notin Maps
  /\ "connector" \notin Procs

\* The id that a partner gives a webhook is of no other webhook of the connector.
ASSUME HooksAssumption ==
  /\ \A e \in Hooks : DOMAIN e = {"connector", "department", "source", "id", "type"}
  /\ \A e, f \in Hooks :
       e.connector.text = f.connector.text /\ e.id.text = f.id.text /\ e.id.text # "" => e = f

VARIABLES
  stream, client,
  maps, pc, ev, crashed, users, given,
  view,
  hook, taken, minted,
  begun

Emit == INSTANCE DeptEmit WITH emitted <- begun, MaxEmits <- MaxBegun
Replay == INSTANCE StreamReplay
Ingress == INSTANCE Connector WITH delivered <- begun, MaxDeliveries <- MaxBegun

emitters == <<maps, pc, ev, crashed, users, given>>
adapter == <<hook, taken, minted>>
vars == <<stream, client, emitters, view, adapter, begun>>

\* The clients that ConnectFromEnv returns; a program without one ends at once.
Clients == {c \in {Emit!ConnectFromEnv(env) : env \in Envs} : c.ok}

Init ==
  /\ stream = <<>>
  /\ client \in [Procs \cup Readers -> Clients]
  /\ Emit!EmitInit /\ Replay!ReplayInit /\ Ingress!ConnectorInit

Next ==
  \/ Emit!EmitNext /\ UNCHANGED <<view, adapter>>
  \/ Replay!ReplayNext /\ UNCHANGED <<emitters, adapter, begun>>
  \/ Ingress!ConnectorNext /\ UNCHANGED <<client, emitters, view>>

Spec == Init /\ [][Next]_vars
-----------------------------------------------------------------------------
(* Properties. *)

IdentityIsTraceable == Emit!IdentityIsTraceable

CrashNeedsSharedPayload == Emit!CrashNeedsSharedPayload

ReplayExact == Replay!ReplayExact

RedeliveryRecognised == Ingress!RedeliveryRecognised

EmitsIsolated ==
  \A k \in Emit!Emits : client[stream[k].by].requireOrg => "org" \in DOMAIN stream[k].headers

ReadersIsolated ==
  \A r \in Readers : client[r].requireOrg =>
    \A m \in 1 .. Len(view[r].got) :
      LET h == stream[view[r].got[m].seq].headers
      IN  "org" \in DOMAIN h /\ h["org"] = client[r].org

\* Events of a client that requires an organization are never without one, and a
\* reader that requires one never has an event of another organization or of none,
\* whoever else writes the stream.
Isolated == EmitsIsolated /\ ReadersIsolated
==============================================================================
