# A verification project for the I/O Mesh client SDK (Go)

TLA+ models of the SDK in this repository, TLC configurations that check them
on small instances, and TLAPS proofs of the theorems that matter most. Source
paths below are relative to the repository (`src/` in `PROJECT.json`).

## 1. The system

The SDK is a library. Its calls run on the goroutines of the program that
imports it; nothing runs in the background. State is kept in three places:
the `Client` (configuration, never changed after `Connect`), the Kafka client
(a mutex, a connection, a counter) and the broker on the other side of HTTP or
TCP. What makes the code hard is therefore less its own state than the
exchange: a call is a request that may be lost, late, served after the caller
gave up, or answered by something other than what was asked.

| component | state | operations | what is hard | what makes it correct |
|---|---|---|---|---|
| pull consumers, `iomeshclient/client.go`, `Pub` in `streams.go` | none in the client; the stream, the durable consumer and its acknowledgements on the broker; `Msg` values in the caller's hands | Publish, Pub, CreateConsumer / EnsureConsumer / PullSubscribe, ConsumerFetch, ConsumerAck, ConsumerNack, DeleteConsumer; all through `doJSON` | concurrent workers on one consumer, late requests, leases that expire, a consumer replaced under its users, batches that do not decode | at-least-once delivery: nothing acknowledged is lost or handed out again, acknowledgements are truthful, only handed messages are acknowledged |
| Kafka client, `kafka/client.go` | `mu`, `conn`, `seq` | Produce, Close | one mutex over dial, write and read; a kept connection; ids that wrap; error paths that close | the offset returned is the caller's own record's; every call returns |
| Kafka codec, `kafka/codec.go`, `kafka/wire.go` | none | encode / decode of frames, strings, message sets; the reply read field by field | widths, lengths, replies cut short, two readers of the same bytes | the broker reads what the caller meant or nothing; an offset returned is the one the reply states for this record |
| memory plane, `memory.go` | the stream and the sidecar's palace | DualWriteMemoryTurn, PublishMemoryIngest, IngestMemoryTurn, RetrieveMemory, RetrieveMemoryRelated, ExportOpsDigest, RequestMemoryRecall, RegisterMemoryProduct, ListMemoryProducts | two systems written one after the other; two paths tried in turn; 2xx that is no write | stream first; a reported write is a write; duplicates bounded |
| readiness, `health.go`, `status.go` | attempts, last error | Health, Ready, WaitReady*, ConnectionStatus | a broker that flaps; timer against context | success only on evidence of the same attempt; returns |
| stream administration, `streams.go` | streams on the broker | CreateStream, GetStream, ListStreams, DeleteStream | 409 followed by a GET that races a delete | info returned is of a stream that existed |
| stream replay, `streams.go` | none; the caller's place in the stream | ListStreamMessages | pages with a cap, cut while the stream grows and calls fail | paging loses and repeats nothing the broker shows the client |
| connection, `client.go` | the client's identity | Connect, options, ConnectFromEnv, the organization gate, the identity headers | blank, padded and absent settings | a client that requires an organization never sends without one |
| key-value, `kv.go` | buckets and revisions on the broker | CreateBucket, Put, Get, Delete, ListKeys | last writer wins, lost replies | a revision returned is the caller's |
| metering, `metering.go` | the caller's payload map | EmitDeptEvent, EmitLLMCall | writes into a map the caller owns, and may share | the identity in an event can be accounted for; calls that only share an Extra do not race |
| catalog, policy, context | none | cascades of routes, fail-open decisions | what an absent, empty or unreadable answer means, while the planes change | an answer was true during the call; only an explicit denial blocks |
| connector SDK and envelope, `connectorsdk` | the adapter's webhook | VerifyHMAC, NormalizeEnvelope, PublishHeaders, EventsPath | webhooks delivered again, identifiers minted per delivery | a redelivery carries the identifier of the first |
| session palace, cuid, formatters, facade | none | pure functions, delegation | - | - |
| examples, `examples/pull-loop` | the loop's counters | publish, fetch, ack in cycles | one failed fetch ends the loop | exit code tells failures |

Components call each other downwards only: everything HTTP goes through
`doJSON` or a sibling of it, `MeshSDK` delegates to `Client` and `KafkaClient`,
the examples call the public API. They share no memory but the maps and slices
a caller passes in and the mutex of `kafka.Client`; what they do share is the
streams of the broker, into which emitters and connectors write and from which
readers replay. The full list with the
status of each part is `components` in `PROJECT.json`; what can go wrong, at its
line, with the properties that watch it, is `hazards`.

The behaviours a test hardly reaches are therefore of four kinds: requests that
take effect after their caller gave up; replies that are accepted although they
are not what was asked for (a 409, a stub, an empty or garbled body, another
call's frame); two systems or two requests that are not one step; and a mutex,
a deadline or a loop that decides whether a call ever returns.

## 2. Modules

| module | models | proofs |
|---|---|---|
| `WorkQueue` | abstract: what the pull-consumer calls promise together | refined by `PullConsumer` |
| `PullConsumer` | Publish, Pub, CreateConsumer, ConsumerFetch, ConsumerAck, ConsumerNack, DeleteConsumer over an unreliable exchange with the broker | `PullConsumerProofs` |
| `RecordLog` | abstract: the log that kafka.Client promises the goroutines sharing it | refined by `KafkaClient` |
| `KafkaClient` | kafka.Client: Produce and Close, mutex, kept connection, correlation ids | `KafkaProofs` |
| `KafkaCodec` | the codec and both kinds of readers, as operators; no state | `KafkaProofs` |
| `KafkaWire` | the bytes of one Produce and every step of reading its reply | `KafkaProofs` |
| `TwoStores` | abstract: what the memory plane promises of a turn, its stream and its palace | refined by `MemoryPlane` |
| `MemoryPlane` | dual write, stream publish, asynchronous recall, ingest and reads with the v1/v5 cascade | `MemoryPlaneProofs` |
| `WaitReady` | WaitReady*, Ready, Health, ConnectionStatus against a flapping broker | `WaitReadyProofs` |
| `Registry` | named things on the broker: streams, buckets, keys, registrations | `RegistryProofs` |
| `PullLoop` | examples/pull-loop: every stage, setting and exit path | `PullLoopProofs` |
| `Discovery` | ListCatalog, GetCatalogProduct, EvaluatePolicy, QueryContext against planes that change | `DiscoveryProofs` |
| `Identity` | Connect, ConnectFromEnv, the organization gate, the identity headers; no state | used by the next two |
| `DeptEmit` | EmitDeptEvent and EmitLLMCall over payload maps that goroutines share | `OrgEventsProofs` |
| `StreamReplay` | ListStreamMessages called page by page while the stream grows | `OrgEventsProofs` |
| `Connector` | the adapter of examples/connector-sdk-template under redelivery | `OrgEventsProofs` |
| `OrgEvents` | composes the last three on one stream, with clients from their environments | `OrgEventsProofs` |
| `MC...` | the TLC instance of each: model values and symmetry | - |

Most modules share no variables, as most components share no state: what they
share is `doJSON`, whose verdicts (`DoJSON` in `PullConsumer`, `MemoryPlane` and
`Registry`) are stated in each module for the answers it tells apart. `OrgEvents`
is the composition: it instantiates `DeptEmit`, `StreamReplay` and `Connector` on
the same `stream`, the first two on the same `client`, and the two writers on one
counter of what was begun, and interleaves their steps.

**PullConsumer.** A call of the SDK is a row of `calls`, indexed by a ticket
(one per call that a behaviour can contain). The caller opens it (`Publish` ..
`DeleteConsumer`: the code before `doJSON`, with the checks that return early),
the broker serves it (`ServePublish` .. `ServeDelete`, `Refuse`), and the caller
closes it (`Return`: `doJSON` and the code after it, by `Outcome`; or `GiveUp`:
deadline or transport error). A row whose caller gave up keeps its request, so a
request can be served when nobody waits any more. A result that the caller
holds (`Msg` values, `ConsumerInfo`) is the closed row itself. The broker is
external: a sequence and a consumer that hands out what is neither
acknowledged nor in flight; `Expire` is ack_wait, `ForeignPublish` another
producer, which may write what does not decode. `before` and `gen` are history.

**KafkaClient.** One action per statement that can interleave or fail: `Lock`,
`Reuse` / `Dial` / `DialFails` (connOrDial), `Write` / `WriteFails`,
`ReadReply` / `ReadFails`, `Parse`, `Closing`. `seq` counts modulo `CorrMod`,
which stands for 2^32, so that ids repeat on a kept connection. Connections are
pairs of frame queues that `Break` closes; whole frames stand for the byte codec.
`RecordLog` is what remains when mutex, connections and ids are hidden: calls that
begin, records stored once, answers. An error leaves open whether the record is
stored, or will be: a request that was written may be read by the broker after its
caller was told that the read failed.

**MemoryPlane.** `calls` holds each call's place in the cascade (`at`), the
answer at hand (`reply`), how /v1 ended (`v1`), and what it returned.
`requests` holds what is on its way, so a request that timed out can still be
served while the cascade is on its second path or over. `Answers` are the
classes `doJSON` and `PalaceWrite` tell apart. `TwoStores` hides paths, answers and
requests: a call is open, failed, returned or reported as written (`StateOf`), and
the two stores grow only as that allows, also after the call is over.

**WaitReady.** One call against one broker. `get` is the GET under way,
`broker` the broker's state, `seen` the states it was in since the attempt
began. `TimerFires` and `DoneFirst` are the two arms of the select, either of
which Go may take when both are ready.

**Registry.** The calls again are rows of `calls`. A name's content is told
apart by the ticket of the call that wrote it, which for a key also stands for
its revision. `seen` (history) collects what was stored while a call was under
way; `readback` marks a CreateStream on its second request. Streams, buckets,
keys and registrations differ in what a 409 and an empty body mean
(`ConflictOutcome`, `NilOutcome`, `EmptyOutcome`); that difference is the code.

**PullLoop.** One action per stage of `main`; `conf` is the environment it
read. A call of the SDK either returns nil and was served, or returns an error
and was served, is on its way (`late`) or is lost: what `PullConsumer` shows of
the calls, seen from a program that makes them one after the other.

**KafkaCodec, KafkaWire.** `KafkaCodec` is codec.go and the readers of wire.go as
operators over sequences of bytes. `KafkaWire` is one Produce, without locks:
`WriteProduce` builds the request with `WriteString`, `WriteBytes` and
`encodeMessageSetV1`, `BrokerReads` reads it with the readers of the package
(`Received`), `ReplyWhole`, `ReplyCut` and `ReplyShort` are a reply that is whole, cut
by the connection, or shorter than what it lists, and `ReceiveReply` .. `Missing` are
the statements that read it. A byte has `B` values, so that lengths wrap and reach
their limits early. The checksum is a weighted sum that tells the bodies apart which
occur; no proof looks into it.

**Discovery.** `stage` and `at` are the place in a cascade of routes, `reply` what
the route answered: not found, failed, garbled, or one of the shapes of a body
(`Bodies`, `ServeDetail`, `Verdict`). `TakeDetail` .. `TakeContext` are the code after
each answer. The planes are external and `Change` at any time; `seen` and `failed`
are history. Products are an id and a name, which is what lookups compare.

**Identity.** Operators only: a client never changes after `Connect`. A text is its
trimmed form and whether there was space around it, since that is all `TrimSpace`
tells apart.

**DeptEmit.** `maps` holds every payload map: those of callers, and one per
goroutine for the map that the code itself makes. A goroutine passes `extra` (the
loop over `Extra`), `enrich` (the three writes), `marshal` and `publish`. A data race
on a map is undefined in Go: `Crash` ends the program at any moment at which one
goroutine is about to write a map that another is reading or writing, and it may
as well not happen. `users` and `given` are history.

**StreamReplay.** `view` is a reader's place: the query of `Query` (defaults and
cap), the page the broker served, what it has so far. The paging itself is the
caller's, as in examples/github-stream-read but to the end of the stream.

**Connector.** `Deliver` is the partner, who delivers again until it hears of
success; `Receive` verifies and normalizes, `Post` sends to the ingress. The event
is posted as it came; the envelope stays with the adapter, which logs it, and is
kept in the message as history.

## 3. Runs

Every passing run explores the whole state space of its instance.

| run | instance | question | shows |
|---|---|---|---|
| `pull_deliver` | 2 workers, 4 calls, batches of 2, 2 messages, max_deliver 2 | at-least-once delivery under lost and late requests | `AckMeansStored`, `NoRedeliveryAfterAck`, `StoredWasHanded`, refinement of `WorkQueue` (`ImplementsWorkQueue`) |
| `pull_recreate` | 2 workers, one without an org, 2 subjects, 3 calls, the consumer deleted and created again, a duplicate producer | what a nil publish error means, 201 against 409, the org gate | `FullInfoFilters`, `PublishedOnce`, `GateHolds` |
| `pull_gate` | 1 worker without an org | the documented fail-closed flag | violated: `FailClosed` (finding 1) |
| `kafka_calls` | 2 goroutines, 4 calls, 2 connections, 1 fault, 2 ids | is an offset the caller's own, does every call return | `LockStep`, `OwnReply`, refinement of `RecordLog` (`ImplementsRecordLog`), `ReturnsUnlessWedged` |
| `kafka_wedge` | 2 goroutines, 2 calls, 1 fault | does Close return | violated: `CloseCompletes` (finding 2) |
| `kafka_wire` | bytes of 6 values (a string takes 17 bytes, a frame 647), topics and values up to and over the limits, up to 2 topics or 2 partitions in a reply, every cut | what the broker reads, whether the two readers agree, what a damaged reply yields | `RecordIntact`, `ReadersAgree`, `ReplyReadAsMeant` |
| `memory` | 1 call of any kind | what dual writes and cascades leave and report | refinement of `TwoStores` (`ImplementsTwoStores`), `ErrorWritesNothing`, `ReportedWrite`, `TwiceOnlyIfOpen`, `EveryCallReturns` |
| `ready` | 1 call, 3 attempts counted | what success and failure mean; does it notice, does it stop | `SuccessIsFresh`, `GivesUpOnlyWhenDone`, `NoAttemptAfterDone`, `ReadyIsNoticed`, `DoneReturns` |
| `pull_loop` | 2 cycles, batches of 2, every setting | does the exit code tell what became of the work, does every run exit | `StrictZeroMeansDone`, `NoDoublePublish`, `AckedWasCounted`, `LeftoverIsReported`, `EveryRunExits` |
| `registry` | 3 callers, one without an org, 3 calls on a stream, a bucket, a key and a registration | what CreateStream's 409 and GET may return; whose settings, whose revision | `InfoExisted`, `NilMeansDone`, `FullInfoIsMine` |
| `discovery` | 1 call of any kind, 2 products whose id and name clash, 2 actions, 1 change of the planes meanwhile | is an answer true, when does a lookup fall back or give up, what blocks a tool | `SourceIsTruthful`, `FallsBackOnFailure`, `OnlyDenialBlocks` |
| `org_events` | 2 goroutines and 1 reader from 4 environments (two organizations, one program without, one that does not connect), 1 shared map, 2 events or deliveries, 3 ranges | whose identity an event carries, what a race needs, what a replay returns, who sees whose events, how redeliveries are told | `IdentityIsTraceable`, `CrashNeedsSharedPayload`, `ReplayExact`, `RedeliveryRecognised`, `Isolated` |

The type invariants, and `HandedDecodable`, `RefusedWritesNothing`, `OffsetIsMine`,
`StreamFirst` and the `GateHolds` of `Registry`, are proved (section 4) and not run
again; the refinements imply the `OffsetIsMine` of the Kafka client and the
`StreamFirst` of the memory plane.

*Bounds.* In `PullConsumer` a violation needs at most one lost, one late and one
successful call on the same message, and a recreation needs a create and a delete
beside the call it disturbs: the tickets, one per call, allow each of these.
`MaxLog`, `MaxGen` and `MaxDeliver` bound the stream, the consumers created and
the deliveries. In `KafkaClient` two goroutines are enough for one to overtake
the other, two ids make ids repeat, and the second connection shows what a
broken first one leaves behind. In `MemoryPlane` calls do not depend on each
other: each has requests and answers of its own, so one call, of any kind, shows
what all do. In `WaitReady` the state
does not grow with the attempts but for their number. In `Registry` the
GET after a 409 can be overtaken by one delete and one create, which takes the
three calls; the constraint `OneStore` leaves out behaviours that mix calls on streams
with calls on buckets and keys, which touch nothing of each other. In `PullLoop` two cycles let a late request of the first
meet the second. In `KafkaWire` the limits of a length field are what lengths can
be wrong about, and a small byte puts them within reach; a second topic and
partition is what a misplaced reader would take for the first. In `Discovery` one
change lets two routes of a call see different planes; a second could only restore
the first. In `OrgEvents` two events are enough for one to be under way while the
other uses the same map, for a delivery to be repeated, and for a page to be cut
between them (the cap is 2). The safety properties of all runs are proved without
these bounds, so for them the runs are checks of the statements and of the models;
liveness rests on the runs alone.

`CHECK_DEADLOCK FALSE` is set because every instance can run out of calls.

*Fairness.* `KafkaClient`: a goroutine in a call keeps running (weak), a mutex is
not denied for ever to one that waits (strong: Go's mutex hands over to a
starved waiter), and the broker answers what it reads (weak), since `ReadFrame`
has no deadline and nothing could be promised without it. `MemoryPlane`: only
that `doJSON` returns (weak), which the client's timeout guarantees; nothing is
assumed of broker or sidecar. `WaitReady`: the goroutine runs (weak), and a
broker that is asked over and over answers some time before the deadline
(strong, per path); the second is used for `ReadyIsNoticed` only. `PullLoop`: the
program runs (weak); its context has a deadline, so every call returns.

## 4. What is proved

All theorems are checked by TLAPS for every value of the constants, from the
assumptions named in each module and nothing else. The steps are small
enough that all are found with an eighth of the default time limits
(`tlapm --stretch 0.12`), so a slow or busy machine finds them too. Beside the `ParamAssumption` of
most modules these are:

* `OrgEvents`: `LimitAssumption` (the default of a page is within its cap),
  `RangesAssumption` (sequence numbers are naturals; a limit may be any integer),
  `NamesAssumption` (goroutines, maps and the connector are different things) and
  `HooksAssumption` (a partner's external id names one webhook of its connector,
  which is what makes it an external id: the code relies on it to recognise a
  redelivery);
* `Discovery`: `CatalogsAssumption` and `ContextsAssumption` (a plane lists finitely
  many products, an answer finitely many passages);
* `KafkaCodec`: `ByteAssumption` (a byte has at least two values) and
  `NullAssumption` (nil is no sequence of bytes);
* `KafkaWire`: `ClientAssumption` (the client id, a literal in the code, fits its
  length field), `CallsAssumption` (a partition is an int32, a value is bytes or nil,
  of any length) and `ListingsAssumption` (what a broker lists fits the fields and the
  frame it is written to).

The theorems, by module:

* `PullConsumerProofs`: `TypeCorrect`, `AckIsStored`, `NoRedelivery`,
  `HandedAreDecoded`, `StoredHanded`, `GateIsKept`, `PublishTrue`, `FilterTrue` and
  `Refinement` (`Spec => ImplementsWorkQueue`). None of the properties is
  inductive: they speak of returned calls, and what a return does depends on the
  reply under way. `IInv` adds `RowInv`, what a row says of the broker from its
  request to its return (an answered ack is stored, an answered fetch is
  disjoint from what was acknowledged before it began), and `StoredInv`, which
  ties the record of acknowledgements to the consumer of the current generation
  and to the messages handed out. `PublishTrue` uses `PubInv`: a publish has no
  copy in the stream until it is served and one from then on. `FilterTrue` uses
  `FilterInv`: a row that is about an incarnation of the consumer, created or handed
  from, agrees with the filter that incarnation had while it lives, and rows about a
  past one agree with each other.
* `KafkaProofs`: `TypeCorrect`, `KeptInLockStep`, `ReadsOwnReply`,
  `OffsetTrue`. `IInv` says who holds the mutex (`Mutex`), that the kept
  connection is quiet unless a goroutine is reading (`ConnInv`), and that the
  connection of a reader carries its own request, its own reply or nothing
  (`ProcInv`, `Waiting`). This is why the wrapping id cannot confuse two calls:
  the check of the id is never the reason a reply is one's own. `LogRefinement`
  (`Spec => ImplementsRecordLog`) needs `LogInv` beside it: no two goroutines are in
  one call (`OpenInv`), a record is not stored before its request is written, and a
  request on its way, even one whose reader failed and is wedged, is of a call whose
  record is not stored yet (`RequestInv`), so that none is stored twice.
  `ReadersAlwaysAgree` is about the codec alone: in every frame, at every position,
  the readers of a stream and the readers of a frame return the same (`AgreeAt`),
  with the exceptions the code has: a header that only the reader of a frame takes,
  and a string of negative length. `ReadersAgreeOnRequests` is its instance in
  `KafkaWire`.

  `RecordStaysIntact` and `ReplyAlwaysReadAsMeant` are proved from `WireInvariant`.
  The invariant `WireInv` says where the reader of a reply is: at the place of the topic or
  partition that the statement is about to read (`AtTopic`, `AtPart`), with no entry before
  it that was the call's own (`OwnAfter`); or, in a reply that was cut, it is `Lost`, with
  fewer than 8 bytes left, which no offset fits in, so that the call can only end in an
  error. That is what makes it harmless that `Produce` ignores the errors of the reads
  over other topics. The proof goes in four parts:
  - *numbers*: recursive functions on numbers are defined once and for all
    (`LeastOutside`, `UpTo`, `Recursion`: a least counterexample, because induction
    theorems cannot be instantiated here); from them the powers of a byte
    (`PowFacts`), and that every integer is read as it was written (`UnsignedOfInt`,
    `SignedOfInt`);
  - *fields*: a field that lies in a frame at some place is read there whole, and the
    reader moves behind it (`IntAt`, `StringAt`, `BytesFieldAt`), a message is decoded to
    what was encoded (`MessageRead`), and so is a message set (`SetRead`);
  - *requests*: where the fields of a request lie (`RequestLayout`) and what a broker
    then reads (`ReceivedFits`); when the topic is too long and nothing is written for it,
    the reader takes the count of partitions for the topic and reads the record set two
    bytes late (`ReceivedLong`);
  - *replies*: where the entries of a listing lie (`ListedLayout`, `FrameTopic`,
    `FramePart`), what the reader of a prefix still reads right (`IntIn`, `StringIn`) and
    when it is lost (`StaysLost`), that a stream cut within a frame is no frame
    (`FrameCut`), and one lemma for each statement of `Produce` (`ReadHeadKeeps` ..
    `MissingKeeps`).
* `MemoryPlaneProofs`: `TypeCorrect`, `StreamIsFirst`, `ErrorIsClean`,
  `ReportTrue`, `TwiceOnlyOpen`, `RefusalFinal` and `StoresRefinement`
  (`Spec => ImplementsTwoStores`). `IInv` says for each call which
  paths are still untouched (no request on its way, nothing written) at each
  place of the cascade, and what an answer says of the palace. The refinement adds
  `OpsInv`, which operation a request on its way can be of, and has one lemma per
  action: what begins enters, what is served late is still an append or a copy that
  the outcome permits, and the end of a context is a stutter.
* `WaitReadyProofs`: `TypeCorrect`, `SuccessFresh`, `GivesUpWhenDone`,
  `NoLateAttempt`. `IInv` adds `Evidence`, what an answered GET says of the
  states the broker was in since the attempt began, and `Progress`, which ties
  the error at hand to the attempts made.
* `RegistryProofs`: `TypeCorrect`, `InfoTrue`, `NilTrue`, `FullIsMine`,
  `GateIsKept`. `IInv` says what a pending row has seen (`PendingOK`: what is
  stored now, and for a readback what it conflicted with), what a reply tells of
  that (`ReplyOK`), and what a returned row keeps of it (`ReturnOK`). The
  properties alone are not inductive, since they say nothing before the return.

* `PullLoopProofs`: `TypeCorrect`, `ZeroMeansDone`, `NoneTwice`, `AckedCounted`,
  `LeftoverReported`. `IInv` counts what each stage may have published (`Count`),
  says that until a stage fails everything it asked for was done and nothing is
  still on its way (`Clean`), and that what is acknowledged, or will be by a late
  request, is part of what was counted (`Settled`).
* `DiscoveryProofs`: `FallbackTrue`, `DenialTrue`, `SourceTrue`. `IInv` says what a call knows at
  each place of a cascade: every route before it failed or, for a detail, lacked the
  id at some time (`DetailInv`, `ListInv`), what an answer of the policy plane says
  of the actions denied (`PolicyInv`), and that the present state of the servers is
  in the history (`SeenNow`). `SourceTrue` uses `TruthInv`: an answer in hand that the
  code would accept is, after the six shapes of a body are undone, a list or a product
  of the plane that gave it as that plane was at some moment of the call.
* `OrgEventsProofs`: `IdentityTrue`, `CrashTrue`, `RedeliveryTrue`, `ReplayTrue`,
  `IsolationKept`, for the whole composition.
  `EmitInv` says of every map where what it names comes from (`MapsTraceable`), of
  every event under way that its payload is its goroutine's own map or one that it
  is recorded as a user of (`PayloadInv`), and that its body can be accounted for
  before it is published (`EventTraceable`). Sources only grow, and a step of one
  goroutine leaves the own map of every other alone; these two lemmas carry the
  proof. Connector and readers keep the invariant because they append nothing in a
  goroutine's name. `ConnectorInv` says what envelope and headers say of the webhook
  they were made of, at hand and in the stream, and that a new id is of one
  observation only. `ReplayInv` says of a reader that its list is ordered, holds the
  payloads of the stream, nothing at or beyond its place and everything before it
  that it asked for and may see. `EmitsIsolated` and `ReadersIsolated` are inductive
  with it, because the stream only grows and clients do not change.

Each `IInv`, and `WireInv`, was model-checked before it was proved. `WireInv` takes
six minutes on the instance of `kafka_wire`, where the properties take half a one, so
it is not among the invariants of that run. Only model-checked is liveness, because
the prover handles neither fairness nor ENABLED: `ReturnsUnlessWedged`,
`EveryCallReturns`, `ReadyIsNoticed`, `DoneReturns`, `EveryRunExits`.

## 5. Findings

1. `Pub` (streams.go:290) never asks `ensureOrgForIsolation`, nor do
   `DeleteConsumer` and the key-value and catalog calls, although
   `WithRequireOrg` is documented to fail closed on publish, consume and catalog
   (client.go:107). Run `pull_gate`.
2. `Produce` (kafka/client.go:83 and 88) calls `Close` with `c.mu` held when a
   write or a read fails; `Close` locks it again, and this call and every later
   one wait for ever. Run `kafka_wedge`; `kafka_calls` shows that nothing else
   keeps a call from returning.

## 6. Not modelled, and the plan

Left out for good:

* `SelectSessionPalace`: one pure function of three options that chooses or refuses
  a URL; `cuid`: random identifiers; `mesh_sdk.go`: delegation to calls that are
  modelled, with nil checks; formatting, URL building and the assembly of request
  bodies.
* The task and action envelopes and the other subject builders of the connector
  SDK: the same string building as the observation that is modelled.
* `Normalize` of a catalog product, lineage references, and the formatters of
  catalog and context: nothing the lookups decide on.
* The demonstrations other than pull-loop, the connector template and the replay:
  straight lines of calls that are modelled.

Left out inside modelled parts: partitions and headers of pulled messages, elapsed times, the order of messages inside a
batch, and the attributes of a Kafka message, which the codec stores and ignores. That a
negative `IOMESH_TIMEOUT` is accepted is in `Identity`, but there is no order of
steps to check; that `ReadFrame` has no deadline is the fairness assumed of the
broker. Both are hazards without a property.

### Order of the work

The order followed: the pull consumers first, since they are what the SDK is
for, then the one component with a lock and a connection of its own (Kafka), the
component that writes two systems (memory), the polling loop, the registries
with their 409, and the program that puts the calls together; then the bytes
under the Kafka client, the fail-open reads, and the events of an organization
end to end.

What is left is an abstract specification of the registries, of which `InfoExisted`
and `FullInfoIsMine` would be consequences.

Observations that are not properties: `WithPartition(0)` is dropped by
`omitempty` (client.go:741, 756-762); `CreateBucket` without settings sends
`null`; a `MaxWait` above the client timeout of 30 s can never be served; when
both memory paths fail, the error of /v5 hides that of /v1; the GET of
`CreateStream` does not fill in a missing name, as its POST does; a webhook
without an external id gets a new correlation id on every delivery and cannot be
recognised; an organization that EmitDeptEvent wrote into a map its caller reuses
stays there when the map is emitted by another client.
