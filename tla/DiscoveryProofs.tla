---------------------------- MODULE DiscoveryProofs ----------------------------
(* What the fail-open reads of Discovery promise, for every catalog, policy and *)
(* number of changes.                                                           *)
EXTENDS Discovery, FiniteSetTheorems, WellFoundedInduction, TLAPS

LEMMA PathsOfMesh ==
  {q.path : q \in {p \in Range(defaultCatalogPaths) : p.source = "mesh"}}
    = {defaultCatalogPaths[1].path, defaultCatalogPaths[2].path}
  BY DEF defaultCatalogPaths, Range, Route

LEMMA PathsOfPortal ==
  {q.path : q \in {p \in Range(defaultCatalogPaths) : p.source = "portal"}}
    = {defaultCatalogPaths[3].path, defaultCatalogPaths[4].path}
  BY DEF defaultCatalogPaths, Range, Route

LEMMA Cascades ==
  /\ Len(detailPaths) = 2 /\ Len(defaultCatalogPaths) = 4
  /\ \A k \in 1 .. 4 : defaultCatalogPaths[k].source = "portal" => k >= 3
  BY DEF detailPaths, defaultCatalogPaths, Route

\* FallsBackOnFailure, route by route.
Fell ==
  /\ stage = "done" /\ call.op = "list" =>
       /\ result.source = "portal" =>
            \A k \in 1 .. 2 : defaultCatalogPaths[k].path \in failed
       /\ result.source = "fail-open" =>
            \A k \in 1 .. 4 : defaultCatalogPaths[k].path \in failed
  /\ stage = "done" /\ call.op = "get" /\ call.id # "" /\ result.source = "fail-open" =>
       Missing(1) /\ Missing(2)

LEMMA Fallback == FallsBackOnFailure <=> Fell
<1>1. 1 .. 2 = {1, 2} /\ 1 .. 4 = {1, 2, 3, 4}
  OBVIOUS
<1>2. (\A k \in 1 .. Len(detailPaths) : Missing(k)) <=> Missing(1) /\ Missing(2)
  BY <1>1, Cascades
<1> DEFINE paths(s) == {q.path : q \in {p \in Range(defaultCatalogPaths) : p.source = s}}
<1>3. paths("mesh") \subseteq failed <=>
        \A k \in 1 .. 2 : defaultCatalogPaths[k].path \in failed
  BY <1>1, PathsOfMesh
<1>4. paths("mesh") \cup paths("portal") \subseteq failed <=>
        \A k \in 1 .. 4 : defaultCatalogPaths[k].path \in failed
  BY <1>1, PathsOfMesh, PathsOfPortal
<1>5. FallsBackOnFailure <=>
        /\ stage = "done" /\ call.op = "list" =>
             /\ result.source = "portal" => paths("mesh") \subseteq failed
             /\ result.source = "fail-open" => paths("mesh") \cup paths("portal") \subseteq failed
        /\ stage = "done" /\ call.op = "get" /\ call.id # "" /\ result.source = "fail-open" =>
             \A k \in 1 .. Len(detailPaths) : Missing(k)
  BY DEF FallsBackOnFailure
<1> HIDE DEF paths
<1> QED
  BY <1>2, <1>3, <1>4, <1>5 DEF Fell

LEMMA FallbackNext == FallsBackOnFailure' <=> Fell'
  BY Fallback, PTL

LEMMA Places ==
  /\ 1 # 2 /\ 1 .. 1 - 1 = {} /\ 1 \in 1 .. 2 /\ 2 \in 1 .. 2 /\ 1 \in 1 .. 4
  /\ \A k \in 1 .. 2 : k \in {1, 2}
  /\ \A k \in 1 .. 4 : k \in {1, 2, 3, 4}
  OBVIOUS

\* A route that failed stays failed, and what was missing once was missing.
LEMMA MissingStays ==
  ASSUME NEW k, Missing(k), seen.catalog \subseteq seen'.catalog,
         failed \subseteq failed', call'.id = call.id
  PROVE  Missing(k)'
  BY DEF Missing

LEMMA InitInv == Init => IInv
<1> SUFFICES ASSUME Init PROVE IInv
  OBVIOUS
<1>1. stage = "idle" /\ at = 1 /\ reply = NoReply
  BY DEF Init
<1>2. SeenNow
  BY DEF Init, SeenNow
<1>3. FallsBackOnFailure /\ OnlyDenialBlocks
  BY <1>1, Fallback DEF Fell, OnlyDenialBlocks
<1> QED
  BY <1>1, <1>2, <1>3 DEF IInv, DetailInv, ListInv, PolicyInv

LEMMA ChangeInv == ASSUME IInv, Change PROVE IInv'
<1>1. /\ stage # "done" /\ UNCHANGED <<call, stage, at, reply, result, failed>>
      /\ SeenNow'
      /\ stage # "idle" => /\ seen.catalog \subseteq seen'.catalog
                           /\ seen.denied \subseteq seen'.denied
  BY DEF Change, SeenNow, IInv
<1>2. \A k : stage # "idle" /\ Missing(k) => Missing(k)'
  BY <1>1, MissingStays
<1>3. DetailInv'
  <2> SUFFICES ASSUME stage = "detail" PROVE DetailInv'
    BY <1>1 DEF DetailInv
  <2>1. DetailInv /\ (Missing(at) => Missing(at)') /\ (Missing(1) => Missing(1)')
    BY <1>1, <1>2 DEF IInv, Missing
  <2>2. readCatalogResponse(reply)' = readCatalogResponse(reply)
    BY <1>1 DEF readCatalogResponse
  <2> QED
    BY <1>1, <2>1, <2>2 DEF DetailInv
<1>4. ListInv' /\ PolicyInv'
  BY <1>1, <1>2 DEF IInv, ListInv, PolicyInv
<1>5. FallsBackOnFailure' /\ OnlyDenialBlocks'
  BY <1>1, FallbackNext DEF Fell, OnlyDenialBlocks
<1> QED
  BY <1>1, <1>3, <1>4, <1>5 DEF IInv

\* The start of a call, with or without a request to make.
LEMMA BeginInv ==
  ASSUME IInv, NEW c, NEW st \in {"detail", "list", "policy", "context"}, Begin(c, st),
         st = "detail" => c.op = "get" /\ c.id # "",
         st = "list" => c.op = "list",
         st \in {"policy", "context"} => c.op = st
  PROVE  IInv'
<1>1. /\ stage = "idle" /\ at' = 1 /\ reply' = NoReply /\ call' = c /\ stage' = st
      /\ SeenNow'
  BY DEF Begin, IInv, server, SeenNow
<1>2. reply'.kind # "200"
  BY <1>1 DEF NoReply
<1>3. DetailInv'
  <2> SUFFICES ASSUME stage' = "detail" PROVE DetailInv'
    BY DEF DetailInv
  <2>1. c.op = "get" /\ c.id # ""
    BY <1>1
  <2>2. call'.op = "get" /\ call'.id # ""
    BY <1>1, <2>1
  <2>3. at' \in 1 .. 2 /\ at' # 2
    BY <1>1, Places
  <2> QED
    BY <1>1, <2>2, <2>3 DEF DetailInv
<1>4. ListInv'
  <2> SUFFICES ASSUME stage' = "list" PROVE ListInv'
    BY DEF ListInv
  <2>1. call'.op = "list" /\ at' \in 1 .. 4 /\ 1 .. at' - 1 = {}
    BY <1>1, Places
  <2> QED
    BY <2>1 DEF ListInv
<1>5. PolicyInv'
  BY <1>1, <1>2 DEF PolicyInv
<1>6. FallsBackOnFailure' /\ OnlyDenialBlocks'
  BY <1>1, FallbackNext DEF Fell, OnlyDenialBlocks
<1> QED
  BY <1>1, <1>3, <1>4, <1>5, <1>6 DEF IInv

\* The end of a call, before or after a request.
LEMMA DoneInv ==
  ASSUME SeenNow, UNCHANGED <<server, seen>>, stage' = "done",
         FallsBackOnFailure', OnlyDenialBlocks'
  PROVE  IInv'
<1>1. SeenNow'
  BY DEF SeenNow, server
<1> QED
  BY <1>1 DEF IInv, DetailInv, ListInv, PolicyInv

LEMMA EarlyInv ==
  ASSUME IInv, NEW c, NEW ans, Early(c, ans), ans.allow = TRUE, ans.source # "mesh",
         c.op = "get" /\ c.id # "" => ans.source # "fail-open",
         c.op = "list" => ans.source \notin {"portal", "fail-open"}
  PROVE  IInv'
<1>1. SeenNow /\ UNCHANGED <<server, seen>> /\ stage' = "done" /\ call' = c /\ result' = ans
  BY DEF Early, IInv
<1>2. FallsBackOnFailure'
  BY <1>1, FallbackNext DEF Fell
<1>3. OnlyDenialBlocks'
  BY <1>1 DEF OnlyDenialBlocks, ShouldBlockTool
<1> QED
  BY <1>1, <1>2, <1>3, DoneInv

\* An answer of a route, or its failure.
LEMMA AnswerInv ==
  ASSUME IInv, stage \in {"detail", "list", "policy", "context"},
         UNCHANGED <<server, call, stage, at, result, seen, failed>>,
         stage = "detail" /\ readCatalogResponse(reply') = Decoded(<<>>) => Missing(at),
         stage = "policy" /\ reply'.kind = "200" /\ reply'.body.kind = "verdict" =>
           \E d \in seen.denied : Allowed(reply'.body) <=> call.act \notin d
  PROVE  IInv'
<1>1. SeenNow' /\ ListInv' /\ FallsBackOnFailure' /\ OnlyDenialBlocks'
  BY FallbackNext DEF IInv, SeenNow, ListInv, Missing, Fell, OnlyDenialBlocks, server
<1>2. DetailInv'
  <2>1. Missing(at)' = Missing(at) /\ Missing(1)' = Missing(1)
    BY DEF Missing
  <2> QED
    BY <2>1 DEF IInv, DetailInv
<1>3. PolicyInv'
  BY DEF IInv, PolicyInv
<1> QED
  BY <1>1, <1>2, <1>3 DEF IInv

\* A product, on its own or listed, is decoded as a product.
LEMMA NoFields == DOMAIN <<>> = {}
  OBVIOUS

LEMMA OneProduct == ASSUME NEW q PROVE Decoded(<<q>>) # Decoded(<<>>)
<1>1. <<q>> # <<>>
  OBVIOUS
<1>2. Decoded(<<q>>).products = <<q>> /\ Decoded(<<>>).products = <<>>
  BY DEF Decoded
<1> QED
  BY <1>1, <1>2

LEMMA ProductBody ==
  ASSUME NEW p, p.id # "",
         NEW body, body = Object(p.id, p.name, <<>>) \/ body = Object("", "", [products |-> <<p>>])
  PROVE  decodeCatalogBody(body) # Decoded(<<>>)
<1>1. CASE body = Object(p.id, p.name, <<>>)
  <2>1. body.kind = "object" /\ body.id = p.id /\ body.fields = <<>>
    BY <1>1 DEF Object
  <2>2. IsSingle(body)
    BY <2>1, NoFields DEF IsSingle
  <2>3. decodeCatalogBody(body) = Decoded(<<[id |-> body.id, name |-> body.name]>>)
    BY <2>1, <2>2 DEF decodeCatalogBody
  <2> QED
    BY <2>3, OneProduct
<1>2. CASE body = Object("", "", [products |-> <<p>>])
  <2>1. /\ body.kind = "object" /\ body.id = "" /\ body.name = ""
        /\ body.fields = [products |-> <<p>>]
    BY <1>2 DEF Object
  <2>2. Field(body, "products") = <<p>> /\ <<p>> # <<>>
    <3>1. <<p>> # <<>>
      OBVIOUS
    <3>2. /\ DOMAIN [products |-> <<p>>] = {"products"}
          /\ [products |-> <<p>>]["products"] = <<p>>
      OBVIOUS
    <3> QED
      BY <2>1, <3>1, <3>2 DEF Field
  <2>3. decodeCatalogBody(body) = Decoded(<<p>>)
    BY <2>1, <2>2 DEF decodeCatalogBody, IsSingle
  <2> QED
    BY <2>3, OneProduct
<1> QED
  BY <1>1, <1>2

LEMMA FailsInv == ASSUME IInv, Fails PROVE IInv'
<1>1. /\ stage \in {"detail", "list", "policy", "context"}
      /\ UNCHANGED <<server, call, stage, at, result, seen, failed>>
  BY DEF Fails, Asking, Routes
<1>2. reply'.kind # "200" \/ reply'.body = Garbled
  BY DEF Fails
<1>3. readCatalogResponse(reply') # Decoded(<<>>)
  BY <1>2 DEF readCatalogResponse, decodeCatalogBody, Garbled, NotDecoded, Decoded
<1>4. ~(reply'.kind = "200" /\ reply'.body.kind = "verdict")
  BY <1>2 DEF Garbled
<1> QED
  BY <1>1, <1>3, <1>4, AnswerInv

LEMMA ServeDetailInv == ASSUME IInv, ServeDetail PROVE IInv'
<1> DEFINE hits == {p \in Range(catalog[route.source]) : p.id = call.id}
<1>1. /\ stage = "detail" /\ reply = NoReply
      /\ UNCHANGED <<server, call, stage, at, result, seen, failed>>
  BY DEF ServeDetail, Asking, Serve
<1>2. call.id # "" /\ catalog \in seen.catalog
  BY <1>1 DEF IInv, DetailInv, SeenNow
<1>3. route.source = detailPaths[at].source
  BY <1>1 DEF route, Routes
<1>4. readCatalogResponse(reply') = Decoded(<<>>) => Missing(at)
  <2>1. PICK body : /\ reply' = [kind |-> "200", body |-> body]
                    /\ \/ hits = {} /\ body = Object("", "", <<>>)
                       \/ \E p \in hits : \/ body = Object(p.id, p.name, <<>>)
                                           \/ body = Object("", "", [products |-> <<p>>])
    BY DEF ServeDetail, Serve
  <2>2. readCatalogResponse(reply') = decodeCatalogBody(body)
    BY <2>1 DEF readCatalogResponse
  <2>3. CASE hits = {}
    BY <1>2, <1>3, <2>3 DEF Missing
  <2>4. ASSUME NEW p \in hits, \/ body = Object(p.id, p.name, <<>>)
                               \/ body = Object("", "", [products |-> <<p>>])
        PROVE  decodeCatalogBody(body) # Decoded(<<>>)
    BY <1>2, <2>4, ProductBody
  <2> QED
    BY <2>1, <2>2, <2>3, <2>4
<1> QED
  BY <1>1, <1>4, AnswerInv

LEMMA ServeOtherInv == ASSUME IInv, ServeList \/ ServeContext PROVE IInv'
<1>1. /\ stage \in {"list", "context"}
      /\ UNCHANGED <<server, call, stage, at, result, seen, failed>>
  BY DEF ServeList, ServeContext, Asking, Serve
<1> QED
  BY <1>1, AnswerInv

\* Whichever fields a verdict is written in, it is read as it was meant.
LEMMA Permits ==
  /\ Allowed(Verdict({TRUE}, {}, FALSE)) /\ Allowed(Verdict({}, {TRUE}, FALSE))
  /\ Allowed(Verdict({}, {}, FALSE))
  BY DEF Allowed, Verdict

LEMMA Denies ==
  /\ \A d : ~Allowed(Verdict({FALSE}, {}, d)) /\ ~Allowed(Verdict({}, {FALSE}, d))
  /\ ~Allowed(Verdict({}, {}, TRUE))
<1>1. {FALSE} # {TRUE} /\ {FALSE} # {}
  BY Zenon
<1>2. ASSUME NEW d PROVE ~Allowed(Verdict({FALSE}, {}, d))
  BY <1>1 DEF Allowed, Verdict
<1>3. ASSUME NEW d PROVE ~Allowed(Verdict({}, {FALSE}, d))
  BY <1>1 DEF Allowed, Verdict
<1>4. ~Allowed(Verdict({}, {}, TRUE))
  BY DEF Allowed, Verdict
<1> QED
  BY <1>2, <1>3, <1>4

LEMMA ServePolicyInv == ASSUME IInv, ServePolicy PROVE IInv'
<1> DEFINE v == call.act \notin denied
<1>1. /\ stage = "policy" /\ denied \in seen.denied
      /\ UNCHANGED <<server, call, stage, at, result, seen, failed>>
  BY DEF ServePolicy, Asking, Serve, IInv, SeenNow
<1>2. PICK body : /\ reply' = [kind |-> "200", body |-> body]
                  /\ \/ body = Verdict({v}, {}, FALSE) \/ body = Verdict({v}, {}, ~v)
                     \/ body = Verdict({}, {v}, FALSE) \/ body = Verdict({}, {}, ~v)
  BY DEF ServePolicy, Serve
<1>3. Allowed(body) <=> call.act \notin denied
  <2>1. CASE v = TRUE
    <3>1. \/ body = Verdict({TRUE}, {}, FALSE) \/ body = Verdict({}, {TRUE}, FALSE)
          \/ body = Verdict({}, {}, FALSE)
      <4> HIDE DEF v
      <4> QED
        BY <1>2, <2>1
    <3> QED
      BY <2>1, <3>1, Permits
  <2>2. CASE v = FALSE
    <3>1. \/ \E d : body = Verdict({FALSE}, {}, d)
          \/ \E d : body = Verdict({}, {FALSE}, d)
          \/ body = Verdict({}, {}, TRUE)
      <4> HIDE DEF v
      <4> QED
        BY <1>2, <2>2
    <3> QED
      BY <2>2, <3>1, Denies
  <2>3. v \in BOOLEAN
    OBVIOUS
  <2> QED
    BY <2>1, <2>2, <2>3
<1> QED
  BY <1>1, <1>2, <1>3, AnswerInv

\* Every body that can be read is a list of products.
LEMMA ReadShape ==
  readCatalogResponse(reply) = NotDecoded \/ \E ps : readCatalogResponse(reply) = Decoded(ps)
<1>1. ASSUME NEW doc
      PROVE  decodeCatalogBody(doc) = NotDecoded \/ \E ps : decodeCatalogBody(doc) = Decoded(ps)
  BY DEF decodeCatalogBody
<1> QED
  BY <1>1 DEF readCatalogResponse

\* The next route of a cascade, or its end.
LEMMA ContinueInv ==
  ASSUME IInv, Continue, stage \in {"detail", "list"}, reply # NoReply,
         stage = "detail" /\ readCatalogResponse(reply).ok =>
           readCatalogResponse(reply) = Decoded(<<>>),
         stage = "list" => ~readCatalogResponse(reply).ok
  PROVE  IInv'
<1> DEFINE ok == readCatalogResponse(reply).ok
<1>1. /\ failed' = IF ok THEN failed ELSE failed \cup {route.path}
      /\ reply' = NoReply /\ UNCHANGED <<call, seen>> /\ SeenNow' /\ SeenNow
      /\ UNCHANGED server
  BY DEF Continue, server, SeenNow, IInv
<1>2. reply'.kind # "200" /\ \A k : Missing(k) => Missing(k)'
  BY <1>1, MissingStays DEF NoReply
<1>3. CASE stage = "detail"
  <2>1. /\ call.op = "get" /\ call.id # "" /\ at \in 1 .. 2
        /\ at = 2 => Missing(1)
        /\ reply # NoReply /\ readCatalogResponse(reply) = Decoded(<<>>) => Missing(at)
    BY <1>3 DEF IInv, DetailInv
  <2>2. route = detailPaths[at] /\ Len(Routes[stage]) = 2
    BY <1>3, Cascades DEF route, Routes
  <2>3. \A k \in 1 .. 2 : k = at => Missing(k)'
    <3>1. CASE ok
      <4>1. Missing(at)
        BY <1>3, <2>1, <3>1
      <4> QED
        BY <1>2, <4>1
    <3>2. CASE ~ok
      BY <1>1, <2>2, <3>2 DEF Missing
    <3> QED
      BY <3>1, <3>2
  <2>4. CASE at = 1
    <3>1. stage' = "detail" /\ at' = 2
      BY <1>3, <2>2, <2>4 DEF Continue, AfterRoute
    <3>2. Missing(1)'
      BY <2>3, <2>4, Places
    <3>3. DetailInv'
      BY <1>1, <2>1, <3>1, <3>2, Places DEF DetailInv
    <3>4. ListInv' /\ PolicyInv' /\ FallsBackOnFailure' /\ OnlyDenialBlocks'
      BY <3>1, FallbackNext DEF ListInv, PolicyInv, Fell, OnlyDenialBlocks
    <3> QED
      BY <1>1, <3>1, <3>3, <3>4 DEF IInv
  <2>5. CASE at = 2
    <3>1. stage' = "list" /\ at' = 1
      BY <1>3, <2>2, <2>5 DEF Continue, AfterRoute
    <3>2. Missing(1)' /\ Missing(2)'
      <4>1. Missing(2)'
        BY <2>3, <2>5, Places
      <4> QED
        BY <1>2, <2>1, <2>5, <4>1
    <3>3. ListInv'
      <4>1. call'.op = "get" /\ at' \in 1 .. 4 /\ 1 .. at' - 1 = {}
        BY <1>1, <2>1, <3>1, Places
      <4> QED
        BY <3>2, <4>1 DEF ListInv
    <3>4. DetailInv' /\ PolicyInv' /\ FallsBackOnFailure' /\ OnlyDenialBlocks'
      BY <3>1, FallbackNext DEF DetailInv, PolicyInv, Fell, OnlyDenialBlocks
    <3> QED
      BY <1>1, <3>1, <3>3, <3>4 DEF IInv
  <2> QED
    BY <2>1, <2>4, <2>5, Places
<1>4. CASE stage = "list"
  <2>1. /\ call.op \in {"list", "get"} /\ at \in 1 .. 4
        /\ \A k \in 1 .. at - 1 : defaultCatalogPaths[k].path \in failed
        /\ call.op = "get" => Missing(1) /\ Missing(2)
    BY <1>4 DEF IInv, ListInv
  <2>2. route = defaultCatalogPaths[at] /\ Len(Routes[stage]) = 4
    BY <1>4, Cascades DEF route, Routes
  <2>3. \A k \in 1 .. at : defaultCatalogPaths[k].path \in failed'
    <3>1. \A k \in 1 .. at : k \in 1 .. at - 1 \/ k = at
      BY <2>1
    <3> QED
      BY <1>1, <1>4, <2>1, <2>2, <3>1
  <2>4. CASE at < 4
    <3>1. stage' = "list" /\ at' = at + 1
      BY <1>4, <2>2, <2>4 DEF Continue, AfterRoute
    <3>2. at' \in 1 .. 4 /\ at' - 1 = at
      BY <2>1, <2>4, <3>1
    <3>3. ListInv'
      BY <1>1, <1>2, <2>1, <2>3, <3>1, <3>2 DEF ListInv
    <3>4. DetailInv' /\ PolicyInv' /\ FallsBackOnFailure' /\ OnlyDenialBlocks'
      BY <3>1, FallbackNext DEF DetailInv, PolicyInv, Fell, OnlyDenialBlocks
    <3> QED
      BY <1>1, <3>1, <3>3, <3>4 DEF IInv
  <2>5. CASE at = 4
    <3>1. stage' = "done" /\ result' = [Answer EXCEPT !.source = "fail-open"]
      BY <1>4, <2>2, <2>5 DEF Continue, AfterRoute
    <3>2. result'.source = "fail-open"
      BY <3>1 DEF Answer
    <3>3. FallsBackOnFailure'
      <4>1. Fell'
        BY <1>1, <1>2, <2>1, <2>3, <2>5, <3>1, <3>2 DEF Fell
      <4> QED
        BY <4>1, FallbackNext
    <3>4. OnlyDenialBlocks'
      BY <1>1, <2>1 DEF OnlyDenialBlocks
    <3> QED
      BY <1>1, <3>1, <3>3, <3>4, DoneInv
  <2> QED
    BY <2>1, <2>4, <2>5, Places
<1> QED
  BY <1>3, <1>4

\* The end of a call that was answered.
LEMMA FinishInv ==
  ASSUME IInv, NEW ans, Finish(ans), stage \in {"detail", "list", "context"},
         stage = "detail" => ans.source # "fail-open",
         stage = "list" => ans.source \in {"fail-open", route.source},
         stage = "list" /\ call.op = "list" => ans.source # "fail-open"
  PROVE  IInv'
<1>1. SeenNow /\ stage' = "done" /\ result' = ans /\ UNCHANGED <<server, seen, call, failed>>
  BY DEF Finish, IInv
<1>2. call.op # "policy"
  BY DEF IInv, DetailInv, ListInv
<1>3. OnlyDenialBlocks'
  BY <1>1, <1>2 DEF OnlyDenialBlocks
<1>4. \A k : Missing(k)' = Missing(k)
  BY <1>1 DEF Missing
<1>5. Fell'
  <2>1. CASE stage \in {"detail", "context"}
    BY <1>1, <2>1 DEF Fell, IInv, DetailInv
  <2>2. CASE stage = "list"
    <3>1. /\ at \in 1 .. 4 /\ \A k \in 1 .. at - 1 : defaultCatalogPaths[k].path \in failed
          /\ call.op = "get" => Missing(1) /\ Missing(2)
      BY <2>2 DEF IInv, ListInv
    <3>2. route.source = defaultCatalogPaths[at].source
      BY <2>2 DEF route, Routes
    <3>3. call.op = "list" /\ ans.source = "portal" => 1 .. 2 \subseteq 1 .. at - 1
      BY <2>2, <3>1, <3>2, Cascades
    <3> QED
      BY <1>1, <1>4, <2>2, <3>1, <3>3 DEF Fell
  <2> QED
    BY <2>1, <2>2
<1> QED
  BY <1>1, <1>3, <1>5, FallbackNext, DoneInv

LEMMA TakeDetailInv == ASSUME IInv, TakeDetail PROVE IInv'
<1> DEFINE got == readCatalogResponse(reply)
<1>1. CASE got.ok /\ got.products # <<>>
  <2> DEFINE ans == [Answer EXCEPT !.source = route.source, !.products = got.products,
                                   !.product = Head(got.products)]
  <2>1. Finish(ans) /\ stage = "detail"
    BY <1>1 DEF TakeDetail
  <2>2. ans.source \in {"mesh", "portal"}
    <3>1. route = detailPaths[at] /\ at \in {1, 2}
      BY <2>1, Places DEF route, Routes, IInv, DetailInv
    <3>2. ans.source = route.source
      BY DEF Answer
    <3> QED
      BY <3>1, <3>2 DEF detailPaths, Route
  <2> HIDE DEF ans
  <2> QED
    BY <2>1, <2>2, FinishInv
<1>2. CASE ~(got.ok /\ got.products # <<>>)
  <2>1. Continue /\ stage = "detail" /\ reply # NoReply
    BY <1>2 DEF TakeDetail
  <2>2. got.ok => got = Decoded(<<>>)
    BY <1>2, ReadShape DEF Decoded, NotDecoded
  <2> QED
    BY <2>1, <2>2, ContinueInv
<1> QED
  BY <1>1, <1>2

LEMMA TakeListInv == ASSUME IInv, TakeList PROVE IInv'
<1> DEFINE got == readCatalogResponse(reply)
<1>1. stage = "list" /\ reply # NoReply
  BY DEF TakeList
<1>2. CASE ~got.ok
  BY <1>1, <1>2, ContinueInv DEF TakeList, ListUsable
<1>3. CASE got.ok /\ call.op = "get"
  <2>1. Finish(FromList(got))
    BY <1>3 DEF TakeList, ListUsable
  <2>2. FromList(got).source \in {"fail-open", route.source}
    BY DEF FromList, Answer
  <2> QED
    BY <1>1, <1>3, <2>1, <2>2, FinishInv
<1>4. CASE got.ok /\ call.op # "get"
  <2> DEFINE ans == [Answer EXCEPT !.source = route.source, !.products = got.products]
  <2>1. Finish(ans)
    BY <1>4 DEF TakeList, ListUsable
  <2>2. ans.source = route.source
    BY DEF Answer
  <2>3. route.source # "fail-open"
    <3>1. route = defaultCatalogPaths[at] /\ at \in {1, 2, 3, 4}
      BY <1>1, Places DEF route, Routes, IInv, ListInv
    <3> QED
      BY <3>1 DEF defaultCatalogPaths, Route
  <2> HIDE DEF ans
  <2> QED
    BY <1>1, <2>1, <2>2, <2>3, FinishInv
<1> QED
  BY <1>2, <1>3, <1>4

LEMMA TakePolicyInv == ASSUME IInv, TakePolicy PROVE IInv'
<1>1. stage = "policy" /\ call.op = "policy" /\ SeenNow
  BY DEF TakePolicy, IInv, PolicyInv
<1>2. /\ stage' = "done" /\ UNCHANGED <<server, call, seen, failed>>
  BY DEF TakePolicy, Finish
<1>3. \/ result'.source # "mesh" /\ result'.allow = TRUE
      \/ /\ result'.source = "mesh" /\ result'.allow = Allowed(reply.body)
         /\ reply.kind = "200" /\ reply.body.kind = "verdict"
  BY DEF TakePolicy, Finish, Answer
<1>4. OnlyDenialBlocks'
  <2>1. CASE result'.source # "mesh" /\ result'.allow = TRUE
    BY <2>1 DEF OnlyDenialBlocks, ShouldBlockTool
  <2>2. CASE /\ result'.source = "mesh" /\ result'.allow = Allowed(reply.body)
             /\ reply.kind = "200" /\ reply.body.kind = "verdict"
    <3>1. PICK d \in seen.denied : Allowed(reply.body) <=> call.act \notin d
      BY <1>1, <2>2 DEF IInv, PolicyInv
    <3> QED
      BY <1>2, <2>2, <3>1 DEF OnlyDenialBlocks, ShouldBlockTool
  <2> QED
    BY <1>3, <2>1, <2>2
<1>5. FallsBackOnFailure'
  BY <1>1, <1>2, FallbackNext DEF Fell
<1> QED
  BY <1>1, <1>2, <1>4, <1>5, DoneInv

LEMMA TakeContextInv == ASSUME IInv, TakeContext PROVE IInv'
<1>1. PICK ans : Finish(ans) /\ stage = "context"
  BY DEF TakeContext
<1> QED
  BY <1>1, FinishInv
-----------------------------------------------------------------------------
LEMMA CallInv ==
  ASSUME IInv,
         \/ \E id \in Ids : ListCatalog(id) \/ GetCatalogProduct(id)
         \/ \E act, tool, mode : EvaluatePolicy(act, tool, mode)
         \/ QueryContext
         \/ \E op \in {"list", "get", "policy", "context"} : NilClient(op)
  PROVE  IInv'
<1>1. ASSUME NEW id, ListCatalog(id) PROVE IInv'
  <2> DEFINE c == [NoCall EXCEPT !.op = "list", !.id = id]
  <2>1. Begin(c, "list") /\ c.op = "list"
    BY <1>1 DEF ListCatalog, NoCall
  <2> HIDE DEF c
  <2> QED
    BY <2>1, BeginInv
<1>2. ASSUME NEW id, GetCatalogProduct(id) PROVE IInv'
  <2> DEFINE c == [NoCall EXCEPT !.op = "get", !.id = id]
             ans == [Answer EXCEPT !.source = "fail-open"]
  <2>1. IF id = "" THEN Early(c, ans) ELSE Begin(c, "detail")
    BY <1>2 DEF GetCatalogProduct
  <2>2. c.op = "get" /\ c.id = id /\ ans.source = "fail-open" /\ ans.allow = TRUE
    BY DEF NoCall, Answer
  <2> HIDE DEF c, ans
  <2> QED
    BY <2>1, <2>2, BeginInv, EarlyInv
<1>3. ASSUME NEW act, NEW tool, NEW mode, EvaluatePolicy(act, tool, mode) PROVE IInv'
  <2> DEFINE c == [NoCall EXCEPT !.op = "policy", !.act = EffectiveAction(act, tool),
                                 !.mode = normalizePolicyMode(mode)]
             ans == [Answer EXCEPT !.source = "off"]
  <2>1. IF c.mode = "off" THEN Early(c, ans) ELSE Begin(c, "policy")
    BY <1>3 DEF EvaluatePolicy
  <2>2. c.op = "policy" /\ ans.source = "off" /\ ans.allow = TRUE
    BY DEF NoCall, Answer
  <2> HIDE DEF c, ans
  <2> QED
    BY <2>1, <2>2, BeginInv, EarlyInv
<1>4. CASE QueryContext
  <2> DEFINE c == [NoCall EXCEPT !.op = "context"]
  <2>1. Begin(c, "context") /\ c.op = "context"
    BY <1>4 DEF QueryContext, NoCall
  <2> HIDE DEF c
  <2> QED
    BY <2>1, BeginInv
<1>5. ASSUME NEW op \in {"list", "get", "policy", "context"}, NilClient(op) PROVE IInv'
  <2> DEFINE c == [NoCall EXCEPT !.op = op]
             ans == [Answer EXCEPT !.source = IF op = "policy" THEN "fail-open" ELSE "off"]
  <2>1. Early(c, ans)
    BY <1>5 DEF NilClient
  <2>2. /\ c.op = op /\ ans.allow = TRUE
        /\ ans.source = IF op = "policy" THEN "fail-open" ELSE "off"
    BY DEF NoCall, Answer
  <2> HIDE DEF c, ans
  <2> QED
    BY <2>1, <2>2, EarlyInv
<1> QED
  BY <1>1, <1>2, <1>3, <1>4, <1>5

LEMMA StepInv == ASSUME IInv, [Next]_vars PROVE IInv'
<1>1. CASE Change
  BY <1>1, ChangeInv
<1>2. CASE \/ \E id \in Ids : ListCatalog(id) \/ GetCatalogProduct(id)
           \/ \E act \in Acts \cup {""}, tool \in {"", "t"},
                 mode \in {"", "strict", "advisory", "enforce"} :
                EvaluatePolicy(act, tool, mode)
           \/ QueryContext
           \/ \E op \in {"list", "get", "policy", "context"} : NilClient(op)
  BY <1>2, CallInv
<1>3. CASE Fails \/ ServeList \/ ServeDetail \/ ServePolicy \/ ServeContext
  BY <1>3, FailsInv, ServeOtherInv, ServeDetailInv, ServePolicyInv
<1>4. CASE TakeDetail \/ TakeList \/ TakePolicy \/ TakeContext
  BY <1>4, TakeDetailInv, TakeListInv, TakePolicyInv, TakeContextInv
<1>5. CASE UNCHANGED vars
  <2>1. UNCHANGED <<catalog, denied, call, stage, at, reply, result, seen, failed>>
    BY <1>5 DEF vars, server
  <2>2. Missing(at)' = Missing(at) /\ Missing(1)' = Missing(1) /\ Missing(2)' = Missing(2)
        /\ readCatalogResponse(reply)' = readCatalogResponse(reply)
    BY <2>1 DEF Missing, readCatalogResponse
  <2>3. FallsBackOnFailure' /\ OnlyDenialBlocks'
    BY <2>1, <2>2, Fallback, FallbackNext DEF IInv, Fell, OnlyDenialBlocks, ShouldBlockTool
  <2> QED
    BY <2>1, <2>2, <2>3 DEF IInv, SeenNow, DetailInv, ListInv, PolicyInv
<1> QED
  BY <1>1, <1>2, <1>3, <1>4, <1>5 DEF Next

LEMMA Invariance == Spec => []IInv
  BY InitInv, StepInv, PTL DEF Spec

\* Discovery comes from the portal only after the mesh failed, and finds nothing only
\* after everything failed or because it was not there.
THEOREM FallbackTrue == Spec => []FallsBackOnFailure
<1>1. IInv => FallsBackOnFailure
  BY DEF IInv
<1> QED
  BY <1>1, Invariance, PTL

\* No failure of the policy plane blocks a tool, and no denial under enforce is lost.
THEOREM DenialTrue == Spec => []OnlyDenialBlocks
<1>1. IInv => OnlyDenialBlocks
  BY DEF IInv
<1> QED
  BY <1>1, Invariance, PTL
-----------------------------------------------------------------------------
(* What a plane writes down is read as it was meant. *)

\* An object that is no product is read by the first of its fields that lists any.
LEMMA Enveloped ==
  ASSUME NEW fields, NEW id, NEW name, \/ DOMAIN fields # {}
                                       \/ id = "" /\ name = ""
  PROVE  LET doc == Object(id, name, fields) IN
         decodeCatalogBody(doc) =
           Decoded(IF Field(doc, "products") # <<>> THEN Field(doc, "products")
                   ELSE IF Field(doc, "items") # <<>> THEN Field(doc, "items")
                   ELSE Field(doc, "data_products"))
<1> DEFINE doc == Object(id, name, fields)
<1>1. doc.kind = "object" /\ doc.id = id /\ doc.name = name /\ doc.fields = fields
  BY DEF Object
<1>2. ~IsSingle(doc)
  BY <1>1 DEF IsSingle
<1> HIDE DEF doc
<1>3. decodeCatalogBody(doc) =
           Decoded(IF Field(doc, "products") # <<>> THEN Field(doc, "products")
                   ELSE IF Field(doc, "items") # <<>> THEN Field(doc, "items")
                   ELSE Field(doc, "data_products"))
  BY <1>1, <1>2 DEF decodeCatalogBody
<1> QED
  BY <1>3 DEF doc

LEMMA FieldOf ==
  ASSUME NEW id, NEW name, NEW fields, NEW f
  PROVE  Field(Object(id, name, fields), f) = IF f \in DOMAIN fields THEN fields[f] ELSE <<>>
  BY DEF Field, Object

LEMMA OneFieldRead ==
  ASSUME NEW ps, NEW f \in {"products", "items", "data_products"}
  PROVE  decodeCatalogBody(Object("", "", [x \in {f} |-> ps])) = Decoded(ps)
<1> DEFINE fields == [x \in {f} |-> ps]
           doc    == Object("", "", fields)
<1>1. DOMAIN fields = {f} /\ fields[f] = ps
  OBVIOUS
<1>2. \A g : Field(doc, g) = IF g \in DOMAIN fields THEN fields[g] ELSE <<>>
  BY FieldOf
<1>3. \A g : Field(doc, g) = IF g = f THEN ps ELSE <<>>
  <2> HIDE DEF fields, doc
  <2> QED
    BY <1>1, <1>2
<1>4. decodeCatalogBody(doc) =
           Decoded(IF Field(doc, "products") # <<>> THEN Field(doc, "products")
                   ELSE IF Field(doc, "items") # <<>> THEN Field(doc, "items")
                   ELSE Field(doc, "data_products"))
  BY Enveloped
<1> HIDE DEF doc
<1>5. decodeCatalogBody(doc) = Decoded(ps)
  BY <1>3, <1>4
<1> QED
  BY <1>5 DEF doc

LEMMA NamedEnvelope ==
  ASSUME NEW id, NEW name, NEW ps
  PROVE  decodeCatalogBody(Object(id, name, [products |-> ps])) = Decoded(ps)
<1> DEFINE fields == [products |-> ps]
           doc    == Object(id, name, fields)
<1>1. DOMAIN fields = {"products"} /\ fields["products"] = ps
  OBVIOUS
<1>2. \A g : Field(doc, g) = IF g \in DOMAIN fields THEN fields[g] ELSE <<>>
  BY FieldOf
<1>3. \A g : Field(doc, g) = IF g = "products" THEN ps ELSE <<>>
  <2> HIDE DEF fields, doc
  <2> QED
    BY <1>1, <1>2
<1>4. decodeCatalogBody(doc) =
           Decoded(IF Field(doc, "products") # <<>> THEN Field(doc, "products")
                   ELSE IF Field(doc, "items") # <<>> THEN Field(doc, "items")
                   ELSE Field(doc, "data_products"))
  <2> HIDE DEF fields
  <2> QED
    BY <1>1, Enveloped
<1> HIDE DEF doc
<1>5. decodeCatalogBody(doc) = Decoded(ps)
  BY <1>3, <1>4
<1> QED
  BY <1>5 DEF doc

LEMMA EmptyFirst ==
  ASSUME NEW ps
  PROVE  decodeCatalogBody(Object("", "", [products |-> <<>>, items |-> ps])) = Decoded(ps)
<1> DEFINE fields == [products |-> <<>>, items |-> ps]
           doc    == Object("", "", fields)
<1>1. /\ DOMAIN fields = {"products", "items"}
      /\ fields["products"] = <<>> /\ fields["items"] = ps
  OBVIOUS
<1>2. \A g : Field(doc, g) = IF g \in DOMAIN fields THEN fields[g] ELSE <<>>
  BY FieldOf
<1>3. /\ Field(doc, "products") = <<>> /\ Field(doc, "items") = ps
      /\ Field(doc, "data_products") = <<>>
  <2> HIDE DEF fields, doc
  <2> QED
    BY <1>1, <1>2
<1>4. decodeCatalogBody(doc) =
           Decoded(IF Field(doc, "products") # <<>> THEN Field(doc, "products")
                   ELSE IF Field(doc, "items") # <<>> THEN Field(doc, "items")
                   ELSE Field(doc, "data_products"))
  BY Enveloped
<1> HIDE DEF doc
<1>5. decodeCatalogBody(doc) = Decoded(ps)
  BY <1>3, <1>4
<1> QED
  BY <1>5 DEF doc

LEMMA NothingRead == decodeCatalogBody(Object("", "", <<>>)) = Decoded(<<>>)
<1> DEFINE doc == Object("", "", <<>>)
<1>1. \A g : Field(doc, g) = <<>>
  BY FieldOf, NoFields
<1>4. decodeCatalogBody(doc) =
           Decoded(IF Field(doc, "products") # <<>> THEN Field(doc, "products")
                   ELSE IF Field(doc, "items") # <<>> THEN Field(doc, "items")
                   ELSE Field(doc, "data_products"))
  BY Enveloped
<1> HIDE DEF doc
<1>5. decodeCatalogBody(doc) = Decoded(<<>>)
  BY <1>1, <1>4
<1> QED
  BY <1>5 DEF doc

\* Every way to write down a list is read as that list.
LEMMA BodiesRead ==
  ASSUME NEW ps, NEW body \in Bodies(ps)
  PROVE  decodeCatalogBody(body) = Decoded(ps)
<1>1. \/ \E f \in {"products", "items", "data_products"} : body = Object("", "", [x \in {f} |-> ps])
      \/ body = Array(ps)
      \/ body = Object("catalog", "v1", [products |-> ps])
      \/ body = Object("", "", [products |-> <<>>, items |-> ps])
      \/ ps = <<>> /\ (body = JSONNull \/ body = Object("", "", <<>>))
  BY DEF Bodies
<1>2. CASE body = Array(ps)
  <2>1. body.kind = "array" /\ body.elems = ps /\ ~IsSingle(body)
    BY <1>2 DEF Array, IsSingle
  <2> QED
    BY <2>1 DEF decodeCatalogBody
<1>3. CASE ps = <<>> /\ body = JSONNull
  <2>1. body.kind = "null" /\ ~IsSingle(body)
    BY <1>3 DEF JSONNull, IsSingle
  <2> QED
    BY <1>3, <2>1 DEF decodeCatalogBody
<1>4. CASE \E f \in {"products", "items", "data_products"} : body = Object("", "", [x \in {f} |-> ps])
  BY <1>4, OneFieldRead
<1>5. CASE body = Object("catalog", "v1", [products |-> ps])
  BY <1>5, NamedEnvelope
<1>6. CASE body = Object("", "", [products |-> <<>>, items |-> ps])
  BY <1>6, EmptyFirst
<1>7. CASE ps = <<>> /\ body = Object("", "", <<>>)
  BY <1>7, NothingRead
<1> QED
  BY <1>1, <1>2, <1>3, <1>4, <1>5, <1>6, <1>7

\* A product is read as itself, with its own id and name or listed.
LEMMA ProductRead ==
  ASSUME NEW p \in [id : STRING, name : STRING], p.id # "",
         NEW body, body = Object(p.id, p.name, <<>>) \/ body = Object("", "", [products |-> <<p>>])
  PROVE  decodeCatalogBody(body) = Decoded(<<p>>)
<1>1. CASE body = Object(p.id, p.name, <<>>)
  <2>1. body.kind = "object" /\ body.id = p.id /\ body.name = p.name /\ body.fields = <<>>
    BY <1>1 DEF Object
  <2>2. IsSingle(body)
    BY <2>1, NoFields DEF IsSingle
  <2>3. decodeCatalogBody(body) = Decoded(<<[id |-> body.id, name |-> body.name]>>)
    BY <2>1, <2>2 DEF decodeCatalogBody
  <2>4. [id |-> body.id, name |-> body.name] = p
    BY <2>1
  <2> QED
    BY <2>3, <2>4
<1>2. CASE body = Object("", "", [products |-> <<p>>])
  <2> DEFINE q == <<p>>
  <2>1. body = Object("", "", [products |-> q])
    BY <1>2
  <2> HIDE DEF q
  <2>3. decodeCatalogBody(body) = Decoded(q)
    BY <2>1, NamedEnvelope
  <2> QED
    BY <2>3 DEF q
<1> QED
  BY <1>1, <1>2

LEMMA DecodedIs ==
  /\ \A ps : Decoded(ps).ok = TRUE /\ Decoded(ps).products = ps
  /\ NotDecoded.ok = FALSE /\ NotDecoded.products = <<>>
  BY DEF Decoded, NotDecoded
-----------------------------------------------------------------------------
(* SourceIsTruthful: what a call has in hand is what its plane held. *)

LEMMA SeqMember == ASSUME NEW S, NEW s \in Seq(S), NEW k \in DOMAIN s PROVE s[k] \in S
  OBVIOUS

LEMMA SeqLength == ASSUME NEW S, NEW s \in Seq(S) PROVE Len(s) \in Nat /\ (Len(s) = 0 => s = <<>>)
  OBVIOUS

\* The part found of a list is listed.
LEMMA FoundListed ==
  ASSUME NEW list, NEW id, NEW ps \in ListAnswers(list, id)
  PROVE  \A k \in DOMAIN ps : ps[k] \in Range(list)
<1>1. CASE ps = list
  BY <1>1 DEF Range
<1>2. CASE ps \in Found(list, id)
  <2> DEFINE hits == {k \in DOMAIN list : Named(list[k], id)}
             n    == Cardinality(hits)
  <2>1. PICK f \in [1 .. n -> hits] : ps = [k \in DOMAIN f |-> list[f[k]]]
    BY <1>2 DEF Found
  <2>2. DOMAIN f = 1 .. n /\ DOMAIN ps = 1 .. n /\ \A k \in 1 .. n : f[k] \in hits
    BY <2>1
  <2>3. ASSUME NEW k \in 1 .. n PROVE ps[k] \in Range(list)
    <3>1. ps[k] = list[f[k]] /\ f[k] \in DOMAIN list
      BY <2>1, <2>2
    <3> QED
      BY <3>1 DEF Range
  <2> QED
    BY <2>2, <2>3
<1> QED
  BY <1>1, <1>2 DEF ListAnswers

LEMMA NothingInHand == reply.kind # "200" => ~Read.ok
  BY DecodedIs DEF Read, readCatalogResponse

LEMMA NothingInHandNext == reply'.kind # "200" => ~Read'.ok
  BY DecodedIs DEF Read, readCatalogResponse

LEMMA ReadOf == reply.kind = "200" => Read = decodeCatalogBody(reply.body)
  BY DEF Read, readCatalogResponse

LEMMA ReadOfNext == reply'.kind = "200" => Read' = decodeCatalogBody(reply'.body)
  BY DEF Read, readCatalogResponse

LEMMA ReadSame == reply' = reply => Read' = Read
  BY DEF Read, readCatalogResponse

LEMMA TruthInit == Init => TruthInv
<1> SUFFICES ASSUME Init PROVE TruthInv
  OBVIOUS
<1>1. stage = "idle" /\ Shown
  BY DEF Init, Shown
<1> QED
  BY <1>1 DEF TruthInv, ListRead, DetailRead, ContextRead, SourceIsTruthful

LEMMA TruthChange == ASSUME TruthInv, IInv, Change PROVE TruthInv'
<1>1. /\ stage # "done" /\ UNCHANGED <<call, stage, at, reply, result>>
      /\ Shown'
      /\ stage # "idle" => /\ seen.catalog \subseteq seen'.catalog
                           /\ seen.context \subseteq seen'.context
  BY DEF Change, Shown, TruthInv
<1>2. route' = route /\ Read' = Read /\ ContextText(reply.body)' = ContextText(reply.body)
  BY <1>1, ReadSame DEF route, ContextText
<1>3. ListRead' /\ DetailRead' /\ ContextRead' /\ SourceIsTruthful'
  BY <1>1, <1>2 DEF TruthInv, ListRead, DetailRead, ContextRead, SourceIsTruthful
<1> QED
  BY <1>1, <1>3 DEF TruthInv

\* A call that has nothing in hand, before and after a request.
LEMMA TruthBegin ==
  ASSUME TruthInv, UNCHANGED <<server, seen>>, stage' # "done", reply'.kind # "200"
  PROVE  TruthInv'
<1>1. Shown'
  BY DEF TruthInv, Shown, server
<1>2. ~Read'.ok
  BY NothingInHandNext
<1> QED
  BY <1>1, <1>2 DEF TruthInv, ListRead, DetailRead, ContextRead, SourceIsTruthful

LEMMA TruthDone ==
  ASSUME TruthInv, UNCHANGED <<server, seen>>, stage' = "done", SourceIsTruthful'
  PROVE  TruthInv'
<1>1. Shown'
  BY DEF TruthInv, Shown, server
<1> QED
  BY <1>1 DEF TruthInv, ListRead, DetailRead, ContextRead

\* An answer that names no plane and has no text says nothing.
LEMMA TruthSilent ==
  ASSUME TruthInv, UNCHANGED <<server, seen>>, stage' = "done",
         result'.source \notin Planes \/ call'.op \notin {"list", "get"}, result'.text = <<>>
  PROVE  TruthInv'
<1>1. SourceIsTruthful'
  BY DEF SourceIsTruthful
<1> QED
  BY <1>1, TruthDone
-----------------------------------------------------------------------------
LEMMA TruthFails == ASSUME TruthInv, Fails PROVE TruthInv'
<1>1. /\ stage # "done" /\ UNCHANGED <<server, stage, seen>>
  BY DEF Fails, Asking, Routes
<1>2. CASE reply'.kind # "200"
  BY <1>1, <1>2, TruthBegin
<1>3. CASE reply'.kind = "200" /\ reply'.body = Garbled
  <2>1. ~Read'.ok
    <3>1. decodeCatalogBody(Garbled) = NotDecoded
      BY DEF decodeCatalogBody, Garbled, IsSingle
    <3> QED
      BY <1>3, <3>1, ReadOfNext, DecodedIs
  <2>2. reply'.body.kind # "context"
    BY <1>3 DEF Garbled
  <2>3. Shown'
    BY <1>1 DEF TruthInv, Shown, server
  <2> QED
    BY <1>1, <2>1, <2>2, <2>3 DEF TruthInv, ListRead, DetailRead, ContextRead, SourceIsTruthful
<1> QED
  BY <1>2, <1>3 DEF Fails

\* An answer that a route gives.
LEMMA TruthServe ==
  ASSUME TruthInv, NEW body, Serve(body), stage \in {"list", "detail", "policy", "context"},
         stage = "list" => \E ps \in ListAnswers(catalog[route.source], call.id) :
                             decodeCatalogBody(body) = Decoded(ps),
         stage = "detail" =>
           \/ decodeCatalogBody(body) = Decoded(<<>>)
           \/ \E p \in Range(catalog[route.source]) :
                p.id = call.id /\ decodeCatalogBody(body) = Decoded(<<p>>),
         stage = "context" => ContextText(body) = context
  PROVE  TruthInv'
<1>1. /\ UNCHANGED <<server, call, stage, at, seen>> /\ reply' = [kind |-> "200", body |-> body]
      /\ catalog \in seen.catalog /\ context \in seen.context
  BY DEF Serve, TruthInv, Shown
<1>2. Read' = decodeCatalogBody(body) /\ reply'.body = body /\ route' = route
  BY <1>1, ReadOfNext DEF route
<1>3. Shown'
  BY <1>1 DEF TruthInv, Shown, server
<1>4. ListRead'
  <2> SUFFICES ASSUME stage = "list"
               PROVE  \E c \in seen.catalog : Read'.products \in ListAnswers(c[route.source], call.id)
    BY <1>1, <1>2 DEF ListRead
  <2>1. Read'.products \in ListAnswers(catalog[route.source], call.id)
    BY <1>2, DecodedIs
  <2> QED
    BY <1>1, <2>1
<1>5. DetailRead'
  <2> SUFFICES ASSUME stage = "detail", Read'.products # <<>>
               PROVE  \E c \in seen.catalog : \E p \in Range(c[route.source]) :
                        p.id = call.id /\ Read'.products = <<p>>
    BY <1>1, <1>2 DEF DetailRead
  <2>1. PICK p \in Range(catalog[route.source]) :
          p.id = call.id /\ decodeCatalogBody(body) = Decoded(<<p>>)
    BY <1>2, DecodedIs
  <2>2. Read'.products = <<p>>
    BY <1>2, <2>1, DecodedIs
  <2> QED
    BY <1>1, <2>1, <2>2
<1>6. ContextRead'
  <2>1. ContextText(reply'.body) = ContextText(body) /\ ContextText(reply.body)' = ContextText(body)
    BY <1>2 DEF ContextText
  <2> QED
    BY <1>1, <2>1 DEF ContextRead
<1> QED
  BY <1>1, <1>3, <1>4, <1>5, <1>6 DEF TruthInv, SourceIsTruthful

LEMMA TruthServeList == ASSUME TruthInv, ServeList PROVE TruthInv'
<1>1. PICK ps \in ListAnswers(catalog[route.source], call.id) : \E body \in Bodies(ps) : Serve(body)
  BY DEF ServeList
<1>2. PICK body \in Bodies(ps) : Serve(body)
  BY <1>1
<1>3. stage = "list" /\ decodeCatalogBody(body) = Decoded(ps)
  BY BodiesRead DEF ServeList
<1> QED
  BY <1>2, <1>3, TruthServe

LEMMA TruthServeDetail == ASSUME TruthInv, IInv, ServeDetail PROVE TruthInv'
<1> DEFINE hits == {p \in Range(catalog[route.source]) : p.id = call.id}
<1>1. stage = "detail" /\ call.id # "" /\ at \in {1, 2}
  BY Places DEF ServeDetail, IInv, DetailInv
<1>2. route.source \in Planes
  <2>1. route = detailPaths[at]
    BY <1>1 DEF route, Routes
  <2>2. detailPaths[1].source = "portal" /\ detailPaths[2].source = "mesh"
    BY DEF detailPaths, Route
  <2> QED
    BY <1>1, <2>1, <2>2 DEF Planes
<1>3. catalog[route.source] \in Seq([id : STRING, name : STRING])
  <2>1. catalog \in [Planes -> Catalogs]
    BY DEF TruthInv, Shown
  <2> QED
    BY <1>2, <2>1, CatalogsAssumption
<1>4. ASSUME NEW p \in Range(catalog[route.source]) PROVE p \in [id : STRING, name : STRING]
  <2>1. PICK k \in DOMAIN catalog[route.source] : p = catalog[route.source][k]
    BY DEF Range
  <2> QED
    BY <1>3, <2>1, SeqMember
<1>5. CASE Serve(Object("", "", <<>>))
  BY <1>1, <1>5, NothingRead, TruthServe
<1>6. ASSUME NEW p \in hits, NEW body, Serve(body),
             body = Object(p.id, p.name, <<>>) \/ body = Object("", "", [products |-> <<p>>])
      PROVE  TruthInv'
  <2>1. p \in Range(catalog[route.source]) /\ p.id = call.id
    OBVIOUS
  <2>2. decodeCatalogBody(body) = Decoded(<<p>>)
    BY <1>1, <1>4, <1>6, <2>1, ProductRead
  <2> QED
    BY <1>1, <1>6, <2>1, <2>2, TruthServe
<1>7. \/ Serve(Object("", "", <<>>))
      \/ \E p \in hits : \/ Serve(Object(p.id, p.name, <<>>))
                         \/ Serve(Object("", "", [products |-> <<p>>]))
  BY DEF ServeDetail
<1> QED
  BY <1>5, <1>6, <1>7

LEMMA FromLength == \A m \in Nat : \A n \in m .. m + 1 : n \in Nat
  OBVIOUS

LEMMA EmptyRange == \A n \in Int : DOMAIN <<>> = 1 .. n /\ n >= 0 => n = 0
<1>1. DOMAIN <<>> = {} /\ \A n \in Int : n >= 1 => 1 \in 1 .. n
  OBVIOUS
<1> QED
  BY <1>1

LEMMA TruthServeContext == ASSUME TruthInv, ServeContext PROVE TruthInv'
<1>1. stage = "context"
  BY DEF ServeContext
<1>2. CASE Serve([kind |-> "context", text |-> context, items |-> <<>>])
  <2> DEFINE body == [kind |-> "context", text |-> context, items |-> <<>>]
  <2>1. ContextText(body) = context
    BY DEF ContextText
  <2> HIDE DEF body
  <2>2. Serve(body)
    BY <1>2 DEF body
  <2> QED
    BY <1>1, <2>1, <2>2, TruthServe
<1>3. ASSUME NEW items \in Items, NEW text \in {<<>>, context},
             Serve([kind |-> "context", text |-> text, items |-> items])
      PROVE  TruthInv'
  <2> DEFINE body == [kind |-> "context", text |-> text, items |-> items]
  <2>1. Nonblank(items) = context /\ (items = <<>> => context = <<>>)
    <3>1. PICK n \in Len(context) .. Len(context) + 1 : items \in [1 .. n -> Range(context) \cup {""}]
      BY DEF Items
    <3>2. context \in Seq(STRING)
      BY ContextsAssumption DEF TruthInv, Shown
    <3>3. items = <<>> => n = 0
      <4>1. n \in Nat /\ DOMAIN items = 1 .. n
        <5>1. n \in Nat
          BY <3>2, SeqLength, FromLength
        <5>2. DOMAIN items = 1 .. n
          BY <3>1
        <5> QED
          BY <5>1, <5>2
      <4> QED
        BY <4>1, EmptyRange
    <3>4. n = 0 => context = <<>>
      BY <3>1, <3>2, SeqLength
    <3> QED
      BY <3>3, <3>4 DEF Items
  <2>2. ContextText(body) = context
    BY <2>1 DEF ContextText
  <2>3. Serve(body)
    BY <1>3
  <2> HIDE DEF body
  <2> QED
    BY <1>1, <2>2, <2>3, TruthServe
<1> QED
  BY <1>2, <1>3 DEF ServeContext

LEMMA TruthServePolicy == ASSUME TruthInv, ServePolicy PROVE TruthInv'
<1>1. stage = "policy" /\ \E body : Serve(body)
  BY DEF ServePolicy
<1> QED
  BY <1>1, TruthServe
-----------------------------------------------------------------------------
LEMMA TruthContinue == ASSUME TruthInv, Continue PROVE TruthInv'
<1>1. UNCHANGED <<server, seen>> /\ reply' = NoReply
  BY DEF Continue
<1>2. CASE stage' = "done"
  <2>1. result' = [Answer EXCEPT !.source = "fail-open"]
    BY <1>2 DEF Continue
  <2>2. result'.source = "fail-open" /\ result'.text = <<>>
    BY <2>1 DEF Answer
  <2>3. result'.source \notin Planes
    BY <2>2 DEF Planes
  <2> QED
    BY <1>1, <1>2, <2>2, <2>3, TruthSilent
<1>3. CASE stage' # "done"
  BY <1>1, <1>3, TruthBegin DEF NoReply
<1> QED
  BY <1>2, <1>3

LEMMA SourceOfRoute ==
  ASSUME IInv, stage \in {"list", "detail"}
  PROVE  route.source \in Planes
<1>1. CASE stage = "detail"
  <2>1. route = detailPaths[at] /\ at \in {1, 2}
    BY <1>1, Places DEF route, Routes, IInv, DetailInv
  <2> QED
    BY <2>1 DEF detailPaths, Route, Planes
<1>2. CASE stage = "list"
  <2>1. route = defaultCatalogPaths[at] /\ at \in {1, 2, 3, 4}
    BY <1>2, Places DEF route, Routes, IInv, ListInv
  <2> QED
    BY <2>1 DEF defaultCatalogPaths, Route, Planes
<1> QED
  BY <1>1, <1>2

LEMMA TruthTakeDetail == ASSUME TruthInv, IInv, TakeDetail PROVE TruthInv'
<1>1. CASE Read.ok /\ Read.products # <<>>
  <2> DEFINE ans == [Answer EXCEPT !.source = route.source, !.products = Read.products,
                                   !.product = Head(Read.products)]
  <2>1. stage = "detail" /\ Finish(ans)
    BY <1>1 DEF TakeDetail, Read
  <2>2. PICK c \in seen.catalog :
          \E p \in Range(c[route.source]) : p.id = call.id /\ Read.products = <<p>>
    BY <1>1, <2>1 DEF TruthInv, DetailRead
  <2>3. PICK p \in Range(c[route.source]) : p.id = call.id /\ Read.products = <<p>>
    BY <2>2
  <2>4. ans.source = route.source /\ ans.product = p /\ ans.text = <<>>
    <3>1. Head(<<p>>) = p
      OBVIOUS
    <3> QED
      BY <2>3, <3>1 DEF Answer
  <2> HIDE DEF ans
  <2>5. call.op = "get"
    BY <2>1 DEF IInv, DetailInv
  <2>6. UNCHANGED <<server, call, seen>> /\ stage' = "done" /\ result' = ans
    BY <2>1 DEF Finish
  <2>7. SourceIsTruthful'
    BY <2>4, <2>5, <2>6, <2>3 DEF SourceIsTruthful, Named
  <2> QED
    BY <2>6, <2>7, TruthDone
<1>2. CASE ~(Read.ok /\ Read.products # <<>>)
  BY <1>2, TruthContinue DEF TakeDetail, Read
<1> QED
  BY <1>1, <1>2

\* The order of the naturals, as a relation.
Below == {p \in Nat \X Nat : p[1] < p[2]}

LEMMA BelowWellFounded == IsWellFoundedOn(Below, Nat)
  BY NatLessThanWellFounded, Zenon DEF OpToRel, Below

LEMMA Least ==
  ASSUME NEW T, T \subseteq Nat, T # {}
  PROVE  \E x \in T : \A y \in T : x <= y
<1>1. PICK x \in T : \A y \in T : ~(<<y, x>> \in Below)
  BY BelowWellFounded, WFMin
<1>2. ASSUME NEW y \in T PROVE x <= y
  <2>1. x \in Nat /\ y \in Nat /\ <<y, x>> \in Nat \X Nat
    OBVIOUS
  <2>2. ~(y < x)
    <3> SUFFICES ASSUME y < x PROVE FALSE
      OBVIOUS
    <3> DEFINE p == <<y, x>>
    <3>1. p \in Nat \X Nat /\ p[1] = y /\ p[2] = x
      BY <2>1
    <3>2. p \notin Below
      BY <1>1
    <3> HIDE DEF p
    <3> QED
      BY <3>1, <3>2 DEF Below
  <2> QED
    BY <2>1, <2>2
<1> QED
  BY <1>2

\* A set of positions that is not empty has a first one.
LEMMA First == ASSUME NEW T, T \subseteq Nat, T # {} PROVE Min(T) \in T
  BY Least DEF Min

\* What a list route answers has its products at positions.
LEMMA AnswerPlaces ==
  ASSUME NEW S, NEW list \in Seq(S), NEW id, NEW ps \in ListAnswers(list, id)
  PROVE  DOMAIN ps \subseteq Nat
<1>1. DOMAIN list = 1 .. Len(list) /\ Len(list) \in Nat
  OBVIOUS
<1>2. CASE ps = list
  BY <1>1, <1>2
<1>3. CASE ps \in Found(list, id)
  <2> DEFINE hits == {k \in DOMAIN list : Named(list[k], id)}
             n    == Cardinality(hits)
  <2>1. PICK f \in [1 .. n -> hits] : ps = [k \in DOMAIN f |-> list[f[k]]]
    BY <1>3 DEF Found
  <2>2. IsFiniteSet(1 .. Len(list)) /\ hits \subseteq 1 .. Len(list)
    BY <1>1, FS_Interval
  <2>3. n \in Nat
    <3> HIDE DEF hits
    <3> QED
      BY <2>2, FS_Subset, FS_CardinalityType
  <2>4. DOMAIN ps = 1 .. n
    BY <2>1
  <2> HIDE DEF n
  <2> QED
    BY <2>3, <2>4
<1> QED
  BY <1>2, <1>3 DEF ListAnswers

LEMMA TruthTakeList == ASSUME TruthInv, IInv, TakeList PROVE TruthInv'
<1>1. stage = "list" /\ call.op \in {"list", "get"}
  BY DEF TakeList, IInv, ListInv
<1>2. CASE ~Read.ok
  BY <1>2, TruthContinue DEF TakeList, Read, ListUsable
<1>3. ASSUME Read.ok
      PROVE  \E c \in seen.catalog : Read.products \in ListAnswers(c[route.source], call.id)
  BY <1>1, <1>3 DEF TruthInv, ListRead
<1>4. CASE Read.ok /\ call.op = "list"
  <2> DEFINE ans == [Answer EXCEPT !.source = route.source, !.products = Read.products]
  <2>1. Finish(ans)
    BY <1>4 DEF TakeList, Read, ListUsable
  <2>2. ans.source = route.source /\ ans.products = Read.products /\ ans.text = <<>>
    BY DEF Answer
  <2> HIDE DEF ans
  <2>3. UNCHANGED <<server, call, seen>> /\ stage' = "done" /\ result' = ans
    BY <2>1 DEF Finish
  <2>4. SourceIsTruthful'
    BY <1>3, <1>4, <2>2, <2>3 DEF SourceIsTruthful
  <2> QED
    BY <2>3, <2>4, TruthDone
<1>5. CASE Read.ok /\ call.op = "get"
  <2> DEFINE ans == FromList(Read)
  <2>1. Finish(ans)
    BY <1>5 DEF TakeList, Read, ListUsable
  <2>2. \/ ans.source = "fail-open" /\ ans.text = <<>>
        \/ /\ ans.source = route.source /\ ans.text = <<>>
           /\ \E k \in DOMAIN Read.products :
                ans.product = Read.products[k] /\ Named(Read.products[k], call.id)
    <3> DEFINE hits == {k \in DOMAIN Read.products : Named(Read.products[k], call.id)}
               p    == Read.products[Min(hits)]
    <3>1. CASE hits = {}
      <4>1. ans = [Answer EXCEPT !.source = "fail-open"]
        BY <3>1 DEF FromList
      <4> QED
        BY <4>1 DEF Answer
    <3>2. CASE hits # {}
      <4>1. hits \subseteq Nat
        <5>1. PICK c \in seen.catalog : Read.products \in ListAnswers(c[route.source], call.id)
          BY <1>3, <1>5
        <5>2. c[route.source] \in Seq([id : STRING, name : STRING])
          BY <1>1, SourceOfRoute, CatalogsAssumption DEF TruthInv, Shown
        <5> QED
          BY <5>1, <5>2, AnswerPlaces
      <4>2. Min(hits) \in hits
        BY <3>2, <4>1, First
      <4>3. ans = [Answer EXCEPT !.source = route.source, !.products = <<p>>, !.product = p]
        BY <3>2 DEF FromList
      <4>4. ans.source = route.source /\ ans.text = <<>> /\ ans.product = p
        BY <4>3 DEF Answer
      <4> QED
        BY <4>2, <4>4
    <3> QED
      BY <3>1, <3>2
  <2> HIDE DEF ans
  <2>3. UNCHANGED <<server, call, seen>> /\ stage' = "done" /\ result' = ans
    BY <2>1 DEF Finish
  <2>4. CASE ans.source = "fail-open" /\ ans.text = <<>>
    BY <2>3, <2>4, TruthSilent DEF Planes
  <2>5. ASSUME ans.source = route.source, ans.text = <<>>,
               NEW k \in DOMAIN Read.products,
               ans.product = Read.products[k], Named(Read.products[k], call.id)
        PROVE  TruthInv'
    <3>1. PICK c \in seen.catalog : Read.products \in ListAnswers(c[route.source], call.id)
      BY <1>3, <1>5
    <3>2. ans.product \in Range(c[route.source])
      BY <2>5, <3>1, FoundListed
    <3>3. SourceIsTruthful'
      BY <1>5, <2>3, <2>5, <3>2 DEF SourceIsTruthful, Named
    <3> QED
      BY <2>3, <3>3, TruthDone
  <2> QED
    BY <2>2, <2>4, <2>5
<1> QED
  BY <1>1, <1>2, <1>4, <1>5

LEMMA TruthTakeOther == ASSUME TruthInv, IInv, TakePolicy \/ TakeContext PROVE TruthInv'
<1>1. PICK ans : Finish(ans)
  BY DEF TakePolicy, TakeContext
<1>2. UNCHANGED <<server, call, seen>> /\ stage' = "done"
  BY <1>1 DEF Finish
<1>3. call.op \notin {"list", "get"}
  BY DEF TakePolicy, TakeContext, IInv, PolicyInv
<1>4. CASE TakePolicy
  <2>1. result'.text = <<>>
    BY <1>4 DEF TakePolicy, Finish, Answer
  <2> QED
    BY <1>2, <1>3, <2>1, TruthSilent
<1>5. CASE TakeContext
  <2>1. result'.text = <<>> \/ result'.text \in seen.context
    BY <1>5 DEF TakeContext, Finish, Answer, TruthInv, ContextRead
  <2>2. SourceIsTruthful'
    BY <1>2, <1>3, <2>1 DEF SourceIsTruthful
  <2> QED
    BY <1>2, <2>2, TruthDone
<1> QED
  BY <1>4, <1>5

LEMMA TruthEarly ==
  ASSUME TruthInv, NEW c, NEW ans, Early(c, ans), ans.source \notin Planes, ans.text = <<>>
  PROVE  TruthInv'
  BY TruthSilent DEF Early

LEMMA TruthStart ==
  ASSUME TruthInv, IInv, NEW c, NEW st \in {"detail", "list", "policy", "context"}, Begin(c, st)
  PROVE  TruthInv'
<1>1. UNCHANGED <<server, seen>> /\ stage' # "done" /\ reply' = NoReply
  BY DEF Begin, IInv
<1> QED
  BY <1>1, TruthBegin DEF NoReply

LEMMA TruthCall ==
  ASSUME TruthInv, IInv,
         \/ \E id \in Ids : ListCatalog(id) \/ GetCatalogProduct(id)
         \/ \E act, tool, mode : EvaluatePolicy(act, tool, mode)
         \/ QueryContext
         \/ \E op \in {"list", "get", "policy", "context"} : NilClient(op)
  PROVE  TruthInv'
<1>1. \/ \E c : \E st \in {"detail", "list", "policy", "context"} : Begin(c, st)
      \/ \E c : \E s \in {"off", "fail-open"} : Early(c, [Answer EXCEPT !.source = s])
  BY DEF ListCatalog, GetCatalogProduct, EvaluatePolicy, QueryContext, NilClient
<1>2. ASSUME NEW c, NEW s \in {"off", "fail-open"}, Early(c, [Answer EXCEPT !.source = s])
      PROVE  TruthInv'
  <2> DEFINE ans == [Answer EXCEPT !.source = s]
  <2>1. ans.source = s /\ ans.text = <<>> /\ s \notin Planes
    BY DEF Answer, Planes
  <2> HIDE DEF ans
  <2>2. Early(c, ans)
    BY <1>2 DEF ans
  <2> QED
    BY <2>1, <2>2, TruthEarly
<1> QED
  BY <1>1, <1>2, TruthStart

LEMMA TruthStep == ASSUME TruthInv, IInv, [Next]_vars PROVE TruthInv'
<1>1. CASE \/ \E id \in Ids : ListCatalog(id) \/ GetCatalogProduct(id)
           \/ \E act \in Acts \cup {""}, tool \in {"", "t"},
                 mode \in {"", "strict", "advisory", "enforce"} :
                EvaluatePolicy(act, tool, mode)
           \/ QueryContext
           \/ \E op \in {"list", "get", "policy", "context"} : NilClient(op)
  BY <1>1, TruthCall
<1>2. CASE Fails \/ ServeList \/ ServeDetail \/ ServePolicy \/ ServeContext
  BY <1>2, TruthFails, TruthServeList, TruthServeDetail, TruthServePolicy, TruthServeContext
<1>3. CASE TakeDetail \/ TakeList \/ TakePolicy \/ TakeContext
  BY <1>3, TruthTakeDetail, TruthTakeList, TruthTakeOther
<1>4. CASE UNCHANGED vars
  <2>1. UNCHANGED <<catalog, context, call, stage, at, reply, result, seen>>
    BY <1>4 DEF vars, server
  <2>2. Read' = Read /\ route' = route /\ ContextText(reply.body)' = ContextText(reply.body)
    BY <2>1, ReadSame DEF route, ContextText
  <2> QED
    BY <2>1, <2>2 DEF TruthInv, Shown, ListRead, DetailRead, ContextRead, SourceIsTruthful
<1> QED
  BY <1>1, <1>2, <1>3, <1>4, TruthChange DEF Next

\* What discovery or a context query says comes from a plane was there during the call.
THEOREM SourceTrue == Spec => []SourceIsTruthful
<1>1. Init => TruthInv
  BY TruthInit
<1>2. TruthInv /\ IInv /\ [Next]_vars => TruthInv'
  BY TruthStep
<1>3. TruthInv => SourceIsTruthful
  BY DEF TruthInv
<1> QED
  BY <1>1, <1>2, <1>3, Invariance, PTL DEF Spec
================================================================================
