------------------------------ MODULE Connector ------------------------------
(***************************************************************************)
(* The connector SDK as examples/connector-sdk-template uses it: a webhook  *)
(* of a partner is verified, normalized into an observation envelope (which *)
(* the template only logs) and posted to the connector ingress of the       *)
(* broker.  The partner delivers a webhook again until it hears that it was *)
(* taken.                                                                   *)
(***************************************************************************)
EXTENDS Integers, Sequences

CONSTANTS
  Hooks,          \* the partner's events: connector, department, source, id, type
  Org,            \* IOMESH_ORG of the adapter, or the template's placeholder
  Installs,       \* IOMESH_INSTALL_ID: none, or one of an installed connector
  MaxDeliveries   \* bound: deliveries of all webhooks

VARIABLES
  stream,     \* the messages of the stream the ingress publishes into
  hook,       \* the adapter: the webhook at hand and where it is with it
  delivered,  \* deliveries so far
  taken,      \* webhooks the partner heard to be taken
  minted      \* correlation ids made so far

connectorVars == <<hook, delivered, taken, minted>>

\* A text may have space around it; blank is the empty text.
TrimSpace(s) == s.text

NoHook == [pc |-> "idle"]

ConnectorInit ==
  hook = NoHook /\ delivered = 0 /\ taken = {} /\ minted = 0

Trimmed(e) == [k \in DOMAIN e |-> IF k = "type" THEN e[k] ELSE TrimSpace(e[k])]

\* The secret both sides know; a body that changed on the way has another digest.
ComputeHMACSHA256(body) == [digest |-> body]

VerifyHMAC(body, signature) == signature = ComputeHMACSHA256(body)

\* A signed body, which may be damaged on the way.
Deliver(e) ==
  /\ hook.pc = "idle" /\ e \notin taken /\ delivered < MaxDeliveries
  /\ delivered' = delivered + 1
  /\ \E body \in {e, [e EXCEPT !.type = "damaged"]} :
       hook' = [pc |-> "verify", event |-> e, body |-> body, signature |-> ComputeHMACSHA256(e)]
  /\ UNCHANGED <<stream, taken, minted>>

\* Mutation: the id of an envelope is always a new one.
CorrelationNew(id) == [new |-> minted + 1]

\* An event without an id gets a new one.
Correlation(id) == IF id = "" THEN [new |-> minted + 1] ELSE [given |-> id]

SubjectForDepartment(dept, src) == <<"dept", dept, "events", src>>

\* The connector, the department and the source have to be named.
Normalizes(e) == e.connector # "" /\ e.department # "" /\ e.source # ""

NormalizeEnvelope(e) ==
  [type |-> "observation", agent |-> <<"connector", e.connector>>,
   correlation |-> Correlation(e.id), event |-> e.type,
   subject |-> SubjectForDepartment(e.department, e.source)]

\* A blank department is left out.
PublishHeaders(e) ==
  LET named == [connector_id |-> e.connector, external_id |-> e.id, source |-> e.source,
                department |-> e.department]
  IN  [k \in {h \in DOMAIN named : h # "department" \/ named[h] # ""} |-> named[k]]

\* The organization, which the adapter adds.
IngressHeaders(e) ==
  LET more == PublishHeaders(e)
  IN  [k \in {"org"} \cup DOMAIN more |-> IF k = "org" THEN Org ELSE more[k]]

\* The org-wide ingress of the connector, or that of its installation on a mesh.
EventsPath(id, install) ==
  <<"connectors", id>> \o (IF install = "" THEN <<>> ELSE <<"i", install>>) \o <<"events">>

\* A webhook that does not verify or cannot be normalized is answered with an error.
Receive ==
  /\ hook.pc = "verify"
  /\ LET e == Trimmed(hook.body) IN
     IF VerifyHMAC(hook.body, hook.signature) /\ Normalizes(e)
     THEN /\ \E install \in Installs :
               hook' = [pc |-> "post", event |-> hook.event, body |-> hook.body, path |-> EventsPath(e.connector, install),
                        headers |-> IngressHeaders(e), envelope |-> NormalizeEnvelope(e)]
          /\ minted' = IF e.id = "" THEN minted + 1 ELSE minted
     ELSE hook' = NoHook /\ UNCHANGED minted
  /\ UNCHANGED <<stream, delivered, taken>>

\* signedPOST of the event as it came, signed anew; the envelope stays with the
\* adapter, which logs it.  The ingress publishes the event, knows no such connector
\* (404, which the template takes for a pass) or refuses, and the answer arrives or
\* is lost.
Post ==
  /\ hook.pc = "post"
  /\ \E answer \in {"published", "404", "refused"}, heard \in BOOLEAN :
       /\ stream' = IF answer = "published"
                    THEN Append(stream, [by |-> "connector", headers |-> hook.headers, body |-> hook.body,
                                         envelope |-> hook.envelope, of |-> hook.event])
                    ELSE stream
       /\ taken' = IF answer # "refused" /\ heard THEN taken \cup {hook.event} ELSE taken
  /\ hook' = NoHook
  /\ UNCHANGED <<delivered, minted>>

ConnectorNext == Receive \/ Post \/ \E e \in Hooks : Deliver(e)
-----------------------------------------------------------------------------
(* Properties. *)

Observations == {k \in 1 .. Len(stream) : stream[k].by = "connector"}

\* The envelopes of one connector with the same correlation id are those of one
\* webhook, delivered again, and every delivery of a webhook that has an id of its
\* own carries that id, in its envelope and in the headers of what is published.
\* A webhook without an id cannot be recognised: its envelopes all differ.
RedeliveryRecognised ==
  \A i, j \in Observations :
    LET a == stream[i] b == stream[j] IN
    /\ a.envelope.agent = b.envelope.agent /\ a.envelope.correlation = b.envelope.correlation
         => a.of = b.of
    /\ a.of = b.of /\ TrimSpace(a.of.id) # "" =>
         /\ a.envelope.correlation = b.envelope.correlation
         /\ a.headers.external_id = b.headers.external_id
-----------------------------------------------------------------------------
(* The inductive invariant behind it: what an envelope and its headers say of   *)
(* the webhook they were made of.                                               *)

\* The ids that were made.
NewIds == [new : 1 .. minted]

SaysOf(e, envelope, headers) ==
  /\ envelope.agent = <<"connector", TrimSpace(e.connector)>>
  /\ headers.external_id = TrimSpace(e.id)
  /\ TrimSpace(e.id) = "" => envelope.correlation \in NewIds
  /\ TrimSpace(e.id) # "" => envelope.correlation = [given |-> TrimSpace(e.id)]

ObservationsTrue ==
  /\ \A k \in Observations :
       stream[k].of \in Hooks /\ SaysOf(stream[k].of, stream[k].envelope, stream[k].headers)
  /\ \A i, j \in Observations :
       TrimSpace(stream[i].of.id) = ""
         /\ stream[i].envelope.correlation = stream[j].envelope.correlation => i = j

\* The webhook at hand; a new id is of no envelope yet.
HookTrue ==
  /\ hook.pc \in {"idle", "verify", "post"}
  /\ hook.pc # "idle" => hook.event \in Hooks
  /\ hook.pc = "verify" => hook.signature = ComputeHMACSHA256(hook.event)
  /\ hook.pc = "post" =>
       /\ SaysOf(hook.event, hook.envelope, hook.headers)
       /\ TrimSpace(hook.event.id) = "" =>
            \A k \in Observations : stream[k].envelope.correlation # hook.envelope.correlation

ConnectorInv == minted \in Nat /\ ObservationsTrue /\ HookTrue
==============================================================================
