------------------------------ MODULE Discovery ------------------------------
(***************************************************************************)
(* The fail-open reads of the SDK: ListCatalog and GetCatalogProduct       *)
(* (catalog.go), EvaluatePolicy (policy.go), QueryContext (context.go).    *)
(* None of them returns an error: a plane that is missing, slow or garbled *)
(* is an empty catalog, an allowed action or an empty context, and what    *)
(* tells the answers apart is where they say they come from.               *)
(*                                                                         *)
(* The servers are external: a mesh and a portal that list products by     *)
(* several routes, any of which may not exist, a policy and a context      *)
(* plane.  What they hold changes while a call is under way.               *)
(***************************************************************************)
EXTENDS Integers, Sequences, SequencesExt

CONSTANTS
  Catalogs,    \* what a plane may list: sequences of products [id, name]
  Ids,         \* what ListCatalog and GetCatalogProduct are asked for
  Acts,        \* the actions a policy may deny
  Contexts,    \* what the context plane may hold for a query: passages
  MaxChanges   \* bound: changes of what the servers hold

VARIABLES
  catalog,  \* what each plane lists
  denied,   \* the actions the policy denies
  context,  \* what the context plane holds
  changes,  \* changes so far
  call,     \* the call and its arguments
  stage,    \* the routes it tries: of a product, of the list, of one request
  at,       \* the route it is at
  reply,    \* what the route answered
  result,   \* what the call returned
  seen,     \* history: what the servers held while the call was under way
  failed    \* history: the routes that gave the call nothing it could read

ASSUME CatalogsAssumption == \A list \in Catalogs : list \in Seq([id : STRING, name : STRING])
ASSUME ContextsAssumption == \A passages \in Contexts : passages \in Seq(STRING)

server == <<catalog, denied, context, changes>>
vars   == <<server, call, stage, at, reply, result, seen, failed>>

Planes == {"mesh", "portal"}

Route(path, source) == [path |-> path, source |-> source]

defaultCatalogPaths ==
  << Route("/v1/catalog/data-products", "mesh"),
     Route("/v1/catalog/products", "mesh"),
     Route("/v17/portal/catalog/data-products", "portal"),
     Route("/v16/portal/catalog/marketing/data-products", "portal") >>

detailPaths ==
  << Route("/v17/portal/catalog/data-products/id", "portal"),
     Route("/v1/catalog/data-products/id", "mesh") >>

\* The routes a call tries in each stage.
Routes ==
  [detail  |-> detailPaths,
   list    |-> defaultCatalogPaths,
   policy  |-> <<Route("/v1/policy/evaluate", "mesh")>>,
   context |-> <<Route("/v1/context/query", "mesh")>>]

NoProduct == [id |-> "", name |-> ""]     \* the zero CatalogProduct

\* What a call returns; each kind of call sets some of it.
Answer == [source |-> "", products |-> <<>>, product |-> NoProduct, allow |-> TRUE, text |-> <<>>]

NoReply == [kind |-> "none", body |-> <<>>]
NoCall  == [op |-> "none", id |-> "", act |-> "", mode |-> "off"]

Init ==
  /\ catalog \in [Planes -> Catalogs]
  /\ denied \in SUBSET Acts
  /\ context \in Contexts
  /\ changes = 0
  /\ call = NoCall /\ stage = "idle" /\ at = 1 /\ reply = NoReply /\ result = Answer
  /\ seen = [catalog |-> {catalog}, denied |-> {denied}, context |-> {context}]
  /\ failed = {}

\* The servers, at any time.
Change ==
  /\ changes < MaxChanges /\ stage # "done"
  /\ changes' = changes + 1
  /\ \/ catalog' \in [Planes -> Catalogs] /\ UNCHANGED <<denied, context>>
     \/ denied' \in SUBSET Acts /\ UNCHANGED <<catalog, context>>
     \/ context' \in Contexts /\ UNCHANGED <<catalog, denied>>
  /\ seen' = IF stage = "idle"
             THEN [catalog |-> {catalog'}, denied |-> {denied'}, context |-> {context'}]
             ELSE [catalog |-> seen.catalog \cup {catalog'},
                   denied  |-> seen.denied \cup {denied'},
                   context |-> seen.context \cup {context'}]
  /\ UNCHANGED <<call, stage, at, reply, result, failed>>
-----------------------------------------------------------------------------
(* Bodies.  A JSON value is an object, with or without an id and a name of   *)
(* its own and with some of the list fields; an array; null; or else.        *)

Object(id, name, fields) == [kind |-> "object", id |-> id, name |-> name, fields |-> fields]
Array(elems)             == [kind |-> "array", elems |-> elems]
JSONNull                 == [kind |-> "null"]
Garbled                  == [kind |-> "garbled"]

Decoded(products) == [ok |-> TRUE, products |-> products]
NotDecoded        == [ok |-> FALSE, products |-> <<>>]

Field(doc, f) == IF f \in DOMAIN doc.fields THEN doc.fields[f] ELSE <<>>

\* Mutation: an envelope with a name of its own is taken for a product.
IsSingleNoProbe(doc) == doc.kind = "object" /\ (doc.id # "" \/ doc.name # "")

\* A product of its own, not an envelope of a list.
IsSingle(doc) ==
  /\ doc.kind = "object" /\ (doc.id # "" \/ doc.name # "")
  /\ DOMAIN doc.fields = {}

decodeCatalogBody(doc) ==
  CASE doc.kind = "garbled" -> NotDecoded
    [] doc.kind = "null"    -> Decoded(<<>>)
    [] doc.kind = "array"   -> Decoded(doc.elems)
    [] IsSingle(doc)        -> Decoded(<<[id |-> doc.id, name |-> doc.name]>>)
    [] OTHER ->
         Decoded(IF Field(doc, "products") # <<>> THEN Field(doc, "products")
                 ELSE IF Field(doc, "items") # <<>> THEN Field(doc, "items")
                 ELSE Field(doc, "data_products"))

readCatalogResponse(rep) ==
  IF rep.kind = "200" THEN decodeCatalogBody(rep.body) ELSE NotDecoded
-----------------------------------------------------------------------------
(* The calls, up to their first request. *)

Begin(c, st) ==
  /\ stage = "idle"
  /\ call' = c /\ stage' = st
  /\ UNCHANGED <<server, at, reply, result, seen, failed>>

\* A call that needs no request.
Early(c, ans) ==
  /\ stage = "idle"
  /\ call' = c /\ stage' = "done" /\ result' = ans
  /\ UNCHANGED <<server, at, reply, seen, failed>>

ListCatalog(query) == Begin([NoCall EXCEPT !.op = "list", !.id = query], "list")

GetCatalogProduct(id) ==
  LET c == [NoCall EXCEPT !.op = "get", !.id = id] IN
  IF id = "" THEN Early(c, [Answer EXCEPT !.source = "fail-open"]) ELSE Begin(c, "detail")

\* Upper case and space around a mode are left out; any other mode is off.
normalizePolicyMode(mode) == IF mode \in {"advisory", "enforce"} THEN mode ELSE "off"

EffectiveAction(act, tool) == IF act = "" /\ tool # "" THEN "tool." \o tool ELSE act

EvaluatePolicy(act, tool, mode) ==
  LET c == [NoCall EXCEPT !.op = "policy", !.act = EffectiveAction(act, tool),
                          !.mode = normalizePolicyMode(mode)] IN
  IF c.mode = "off" THEN Early(c, [Answer EXCEPT !.source = "off"]) ELSE Begin(c, "policy")

QueryContext == Begin([NoCall EXCEPT !.op = "context"], "context")

\* Any of them on a nil client; EvaluatePolicy looks at the mode first.
NilClient(op) ==
  Early([NoCall EXCEPT !.op = op],
        [Answer EXCEPT !.source = IF op = "policy" THEN "fail-open" ELSE "off"])
-----------------------------------------------------------------------------
(* The servers. *)

route == Routes[stage][at]

Asking == stage \in DOMAIN Routes /\ reply = NoReply

Serve(body) ==
  /\ reply' = [kind |-> "200", body |-> body]
  /\ UNCHANGED <<server, call, stage, at, result, seen, failed>>

\* 404; another status, no answer in time, no connection; a body cut short.
Fails ==
  /\ Asking
  /\ reply' \in {[kind |-> k, body |-> <<>>] : k \in {"404", "failed"}}
               \cup {[kind |-> "200", body |-> Garbled]}
  /\ UNCHANGED <<server, call, stage, at, result, seen, failed>>

Named(p, id) == p.id = id \/ p.name = id

\* The ways to write down a list of products.
Bodies(products) ==
  {Object("", "", [x \in {f} |-> products]) : f \in {"products", "items", "data_products"}}
    \cup {Array(products), Object("catalog", "v1", [products |-> products]),
          Object("", "", [products |-> <<>>, items |-> products])}
    \cup (IF products = <<>> THEN {JSONNull, Object("", "", <<>>)} ELSE {})

\* The part of a list that has that id or name, in the order of the list.
Found(list, id) ==
  LET hits == {k \in DOMAIN list : Named(list[k], id)}
      ks   == {f \in [1 .. Cardinality(hits) -> hits] : \A m, n \in DOMAIN f : m < n => f[m] < f[n]} IN
  {[n \in DOMAIN f |-> list[f[n]]] : f \in ks}

\* A list route searches what its plane lists, or ignores the query.
ListAnswers(list, id) == {list} \cup IF id = "" THEN {} ELSE Found(list, id)

ServeList ==
  /\ Asking /\ stage = "list"
  /\ \E products \in ListAnswers(catalog[route.source], call.id) :
       \E body \in Bodies(products) : Serve(body)

\* A detail route finds by id.
ServeDetail ==
  /\ Asking /\ stage = "detail"
  /\ LET hits == {p \in Range(catalog[route.source]) : p.id = call.id} IN
     \/ hits = {} /\ Serve(Object("", "", <<>>))
     \/ \E p \in hits : \/ Serve(Object(p.id, p.name, <<>>))
                        \/ Serve(Object("", "", [products |-> <<p>>]))

\* An optional field is the set of its values.
Verdict(allow, allowed, deny) == [kind |-> "verdict", allow |-> allow, allowed |-> allowed, deny |-> deny]

ServePolicy ==
  /\ Asking /\ stage = "policy"
  /\ LET v == call.act \notin denied IN
     \/ Serve(Verdict({v}, {}, FALSE)) \/ Serve(Verdict({v}, {}, ~v))
     \/ Serve(Verdict({}, {v}, FALSE)) \/ Serve(Verdict({}, {}, ~v))

\* Text without the items that are blank.
Nonblank(items) == SelectSeq(items, LAMBDA text : text # "")

\* The ways to write the passages down as items, a blank one among them.
Items ==
  {items \in UNION {[1 .. n -> Range(context) \cup {""}] : n \in Len(context) .. Len(context) + 1} :
     Nonblank(items) = context}

ServeContext ==
  /\ Asking /\ stage = "context"
  /\ \/ Serve([kind |-> "context", text |-> context, items |-> <<>>])
     \/ \E items \in Items, text \in {<<>>, context} :
          Serve([kind |-> "context", text |-> text, items |-> items])
-----------------------------------------------------------------------------
(* The calls, once a route has answered or failed. *)

Finish(ans) ==
  /\ stage' = "done" /\ result' = ans
  /\ UNCHANGED <<server, call, at, reply, seen, failed>>

\* The next route, or the list after the details, or the end.
AfterRoute ==
  IF at < Len(Routes[stage]) THEN <<stage, at + 1>>
  ELSE IF stage = "detail" THEN <<"list", 1>>
  ELSE <<"done", at>>

Continue ==
  /\ failed' = IF readCatalogResponse(reply).ok THEN failed ELSE failed \cup {route.path}
  /\ stage' = AfterRoute[1] /\ at' = AfterRoute[2]
  /\ reply' = NoReply
  /\ result' = IF stage' = "done" THEN [Answer EXCEPT !.source = "fail-open"] ELSE result
  /\ UNCHANGED <<server, call, seen>>

\* A detail that is empty is passed over, one that is not is taken.
TakeDetail ==
  /\ stage = "detail" /\ reply # NoReply
  /\ LET got == readCatalogResponse(reply) IN
     IF got.ok /\ got.products # <<>>
     THEN Finish([Answer EXCEPT !.source = route.source, !.products = got.products,
                                !.product = Head(got.products)])
     ELSE Continue

\* GetCatalogProduct picks the first of the list with that id or name.
FromList(got) ==
  LET hits == {k \in DOMAIN got.products : Named(got.products[k], call.id)}
      p    == got.products[Min(hits)] IN
  IF hits = {} THEN [Answer EXCEPT !.source = "fail-open"]
  ELSE [Answer EXCEPT !.source = route.source, !.products = <<p>>, !.product = p]

\* Mutation: an empty list is passed over.
ListUsableUnlessEmpty(got) == got.ok /\ got.products # <<>>

\* A list ends the search, the empty one too.
ListUsable(got) == got.ok

TakeList ==
  /\ stage = "list" /\ reply # NoReply
  /\ LET got == readCatalogResponse(reply) IN
     IF ~ListUsable(got) THEN Continue
     ELSE IF call.op = "get" THEN Finish(FromList(got))
     ELSE Finish([Answer EXCEPT !.source = route.source, !.products = got.products])

\* Mutation: "allowed" is not read.
AllowedNoAlias(v) == IF v.allow # {} THEN v.allow = {TRUE} ELSE ~v.deny

\* allow before allowed before deny; without any of them, allowed.
Allowed(v) ==
  IF v.allow # {} THEN v.allow = {TRUE}
  ELSE IF v.allowed # {} THEN v.allowed = {TRUE}
  ELSE ~v.deny

TakePolicy ==
  /\ stage = "policy" /\ reply # NoReply
  /\ Finish(CASE reply.kind = "404" -> [Answer EXCEPT !.source = "unavailable"]
             [] reply.kind = "200" /\ reply.body.kind = "verdict" ->
                  [Answer EXCEPT !.source = "mesh", !.allow = Allowed(reply.body)]
             [] OTHER -> [Answer EXCEPT !.source = "fail-open"])

\* The items stand in for a text that is empty, the blank ones left out.
ContextText(body) ==
  IF body.text = <<>> /\ body.items # <<>> THEN Nonblank(body.items) ELSE body.text

TakeContext ==
  /\ stage = "context" /\ reply # NoReply
  /\ Finish(IF reply.kind = "200" /\ reply.body.kind = "context"
            THEN [Answer EXCEPT !.text = ContextText(reply.body)]
            ELSE Answer)

Next ==
  \/ Change
  \/ \E id \in Ids : ListCatalog(id) \/ GetCatalogProduct(id)
  \/ \E act \in Acts \cup {""}, tool \in {"", "t"}, mode \in {"", "strict", "advisory", "enforce"} :
       EvaluatePolicy(act, tool, mode)
  \/ QueryContext
  \/ \E op \in {"list", "get", "policy", "context"} : NilClient(op)
  \/ Fails \/ ServeList \/ ServeDetail \/ ServePolicy \/ ServeContext
  \/ TakeDetail \/ TakeList \/ TakePolicy \/ TakeContext

Spec == Init /\ [][Next]_vars
-----------------------------------------------------------------------------
(* Properties. *)

\* ShouldBlockTool: the policy is enforced, the mesh answered, and it denied.
ShouldBlockTool == call.mode = "enforce" /\ ~result.allow /\ result.source = "mesh"

\* What a call says comes from a plane was there while the call was under way:
\* a catalog list is that plane's list, or the part of it that was searched for; a
\* product is listed by that plane under the id or the name asked for; a
\* context is what the context plane held, once.
SourceIsTruthful ==
  stage = "done" =>
    /\ result.source \in Planes /\ call.op = "list" =>
         \E c \in seen.catalog : result.products \in ListAnswers(c[result.source], call.id)
    /\ result.source \in Planes /\ call.op = "get" =>
         /\ Named(result.product, call.id)
         /\ \E c \in seen.catalog : result.product \in Range(c[result.source])
    /\ result.text # <<>> => result.text \in seen.context

\* A detail route could not be read, or its plane lacked the id some time during the
\* call.
Missing(k) ==
  \/ detailPaths[k].path \in failed
  \/ \E c \in seen.catalog : \A p \in Range(c[detailPaths[k].source]) : p.id # call.id

\* Discovery prefers the mesh and gives up last.  A list comes from the portal only
\* after both routes of the mesh gave nothing that could be read, and no list at all
\* only after every route did; "product not found" is true or the fault of a route: a
\* plane whose detail route could be read lacked the id at some time during the call.
FallsBackOnFailure ==
  LET paths(s) == {q.path : q \in {p \in Range(defaultCatalogPaths) : p.source = s}} IN
  /\ stage = "done" /\ call.op = "list" =>
       /\ result.source = "portal" => paths("mesh") \subseteq failed
       /\ result.source = "fail-open" => paths("mesh") \cup paths("portal") \subseteq failed
  /\ stage = "done" /\ call.op = "get" /\ call.id # "" /\ result.source = "fail-open" =>
       \A k \in 1 .. Len(detailPaths) : Missing(k)

\* A tool is blocked only if the mesh denied its action while the call was under
\* way, and a denial that arrives under enforce does block: every failure of the
\* policy plane allows.
OnlyDenialBlocks ==
  stage = "done" /\ call.op = "policy" =>
    /\ ShouldBlockTool => \E d \in seen.denied : call.act \in d
    /\ result.source = "mesh" /\ call.mode = "enforce" /\ ~ShouldBlockTool =>
         \E d \in seen.denied : call.act \notin d
    /\ result.source # "mesh" => result.allow
-----------------------------------------------------------------------------
(* The inductive invariant behind the last two: what a call knows at each    *)
(* route of a cascade.                                                       *)

SeenNow == catalog \in seen.catalog /\ denied \in seen.denied

\* An answer of a detail route that is empty tells that the id was missing.
DetailInv ==
  stage = "detail" =>
    /\ call.op = "get" /\ call.id # "" /\ at \in 1 .. 2
    /\ at = 2 => Missing(1)
    /\ reply # NoReply /\ readCatalogResponse(reply) = Decoded(<<>>) => Missing(at)

ListInv ==
  stage = "list" =>
    /\ call.op \in {"list", "get"} /\ at \in 1 .. 4
    /\ \A k \in 1 .. at - 1 : defaultCatalogPaths[k].path \in failed
    /\ call.op = "get" => Missing(1) /\ Missing(2)

PolicyInv ==
  stage = "policy" =>
    /\ call.op = "policy"
    /\ reply.kind = "200" /\ reply.body.kind = "verdict" =>
         \E d \in seen.denied : Allowed(reply.body) <=> call.act \notin d

IInv ==
  /\ stage \in {"idle", "detail", "list", "policy", "context", "done"}
  /\ stage = "idle" => at = 1 /\ reply = NoReply
  /\ stage = "context" => call.op = "context"
  /\ SeenNow /\ DetailInv /\ ListInv /\ PolicyInv
  /\ FallsBackOnFailure /\ OnlyDenialBlocks

(* The inductive invariant behind SourceIsTruthful: the reply that a call has  *)
(* in hand says what its plane held.                                           *)

Read == readCatalogResponse(reply)

Shown ==
  /\ catalog \in seen.catalog /\ seen.catalog \subseteq [Planes -> Catalogs]
  /\ context \in Contexts \cap seen.context

ListRead ==
  stage = "list" /\ Read.ok =>
    \E c \in seen.catalog : Read.products \in ListAnswers(c[route.source], call.id)

DetailRead ==
  stage = "detail" /\ Read.ok /\ Read.products # <<>> =>
    \E c \in seen.catalog :
      \E p \in Range(c[route.source]) : p.id = call.id /\ Read.products = <<p>>

ContextRead ==
  stage = "context" /\ reply.kind = "200" /\ reply.body.kind = "context" =>
    ContextText(reply.body) \in seen.context

TruthInv == Shown /\ ListRead /\ DetailRead /\ ContextRead /\ SourceIsTruthful
=============================================================================
