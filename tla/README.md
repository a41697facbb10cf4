# Verification of the UDAL gateway

TLA+ models of the UDAL gateway (`src/code/gateway`) and of the Go SDK that
devices and clients use (`src/code/sdk/go`): what their goroutines do to each
other and to the devices, model-checked with TLC on small instances and, for
the central properties, proved with TLAPS for every size.

## The system and its parts

The gateway gives clients one gRPC/REST interface to devices that are reached
over MQTT, HTTP, CAN, a custom transport, or directly over gRPC.

An RPC handler of `DeviceService` authenticates the caller, looks the device
up in the registry and authorizes the operation. Then it talks to a transport
adapter or the in-memory store (`GetProperty`, `SetProperty`), to the command
router (`SendCommand`), or to the broker (`Subscribe`). Adapters push the
values they learn of into the broker. Whatever hears from a device calls
`Monitor.Touch`; the monitor's transitions go into the broker as status
updates and through a callback into the `udal_devices_online` gauge. `main`
starts all of this in a fixed order, reports ready, and takes it down again.

A device written with the Go SDK registers, keeps a command stream open and
registers again when it breaks; a client's `Subscribe` hands updates to the
application over a channel.

| Part | Source (under `code/gateway/internal/` unless given) | Module |
|---|---|---|
| Startup, shutdown, readiness | `cmd/gateway/main.go`, `health/` | `Gateway` |
| Configuration | `config/` | `Config` |
| Circuit breaker of the MQTT adapter | `adapters/mqtt/circuitbreaker.go` | `CircuitBreaker`, within `Gateway` |
| Subscription broker, `Subscribe` | `api/broker.go`, `service/device_service.go` | `Broker` |
| Go SDK, client side | `code/sdk/go/client.go` | `SdkClient`, on top of `Broker` |
| Command router, `SendCommand`, `StreamCommands` | `api/commandrouter.go`, `service/device_service.go` | `CommandRouter`, abstract: `CommandCall` |
| Heartbeat monitor, status, gauge | `heartbeat/monitor.go`, `cmd/gateway/main.go` | `Presence` |
| Go SDK, device side | `code/sdk/go/device.go` | `SdkDevice`, on top of `Presence` |
| MQTT adapter | `adapters/mqtt/` | `MqttAdapter`, `MqttTopics` |
| CAN adapter | `adapters/can/` | `CanAdapter`, `CanCodec` |
| HTTP adapter | `adapters/http/` | `HttpAdapter` |
| Authentication, roles, ACLs | `auth/` | `Auth` |
| Request path, registry, property store, routing | `service/device_service.go`, `registry/`, `api/property.go`, `adapter/` | `DeviceService` |
| Capability registry, `PublishSchema` | `capability/`, `service/capability_service.go` | `Capability`, `SchemaValidation`; their effect on requests: `DeviceService` |
| Signing keys of JWTs | `auth/jwt.go` | `JwksCache` |
| Metrics, logging, tracing | `metrics/`, `logging/`, `tracing/` | not modelled |
| Other SDKs (Python, Rust, TypeScript), CLI, dashboard | `code/sdk/`, `code/cli/`, `dashboard/` | not modelled |

`PROJECT.json` lists the parts with what is left out of each, the source lines
behind every definition, the hazards of the code, and the mutants: for every
checked property, a plausible bug in one mapped definition that breaks it.
Definitions that stand for such a bug come right before the definition they
imitate, and nothing else uses them.

## Modules

What a mutex protects, a registry transaction and a channel operation are one
step each. Everything that happens without a lock between two such steps is a
step of its own, so that others can come in between. Definitions keep the
names of the Go functions where there is one.

**Config, Gateway.** `Config` is where a setting comes from: the file, then
`ApplyEnv`, then the flat variables and the defaults. `Gateway` is `main`: one
step for each thing it starts, with its ways to fail, then `SetReady`, the
signal, `GracefulStop`, and the listeners and adapters one after the other. The
process may also die anywhere; the registry file survives it. `Gateway` is
composed with `CircuitBreaker`, whose callers are the requests that the
shutdown waits for and whose state a new process starts over with, and has the
handlers of `RegisterDevice` (which watches what startup did not) and of the
streams that keep `GracefulStop` waiting.

**CircuitBreaker.** `allow` (`Admit`, `Reject`), `recordSuccess` and
`recordFailure`, with any number of requests underway between them. Counters
and clock saturate where the code stops looking at them, so time is unbounded.

**Broker.** `Subscribe`, `unsubscribe` and `Publish`, and the handler loop of
the `Subscribe` RPC with its path filter. A channel is a bounded sequence of
numbered updates; the numbers are what the order property is about.

**SdkClient.** Some of `Broker`'s handlers serve `Client.Subscribe`: its
goroutine receives events, offers them to the application on an unbuffered
channel, and ends with an error or its context. The connection may break
unnoticed by either side.

**CommandRouter.** `Register` and its closure, `Dispatch`, `SubmitResult`, and
the two goroutines of a `StreamCommands` handler. Reconnects, lost streams,
repeated and late answers, commands that cannot be encoded and expiring
contexts all occur. A send on a closed channel sets `crashed`. `CommandCall`
is what a caller is promised, without channels or goroutines; the module maps
its state to it and implements it.

**Presence.** `Touch` and `Sweep` in their separate reads, writes and
notifications, the RPCs that change a status, the gauge callback, and
restarts. The model keeps `now - LastSeen` instead of the two.

**SdkDevice.** `Device.Run` and the handlers that serve it, as callers of
`Presence`: it registers, streams, waits and registers again, with an ID of its
own or with one the registry's sequence assigns, while another device, deletions
and restarts of the gateway go on. Calls and answers may be lost separately, so
a handler can outlive the device's interest in it.

**MqttAdapter, MqttTopics.** Concurrent `ReadProperty`, `WriteProperty` and
`WatchDevice` calls with `subscribeOnce`, the waiter lists and `dispatch`. The
backing arrays of the waiter slices are explicit, because `dispatch` walks
them without the lock while `append` and the shift in `cancel` change them in
place. Topics are sequences of levels; building, matching and parsing them is
modelled by what it does.

**CanAdapter, CanCodec.** The codec bit by bit (both byte orders, sign,
scaling, multiplexing), the frame and value caches, the read-modify-write of
`WriteProperty` under its per-message lock, the read loop, `WatchDevice` and
`Close`. A read may fail at any time, for a signal or a short read as well as
for an interface that is down: the loop ends in all cases. Signals have at least
one bit and fit into the payload, and a message has different signal names and
at most one multiplexor; `ParseDBC` checks neither.

Numbers in `CanCodec` are not ideal: an `int64` is a word of the payload's width
and wraps around, and a `float64` has `Precision` significant bits (53 in the
code) and rounds to even in every operation, as `decode` and `encode` perform
them one by one. So an unscaled signal is read exactly unless it is unsigned, 64
bits wide and in its upper half, which reads as a negative number; a scaled one
while raw value, product and sum are within 2^53; and a value is written exactly
if what is to be divided is within 2^52. `ReadsExactly`, `WritesExactly` and
`Representable` say this, and the properties claim exact values only there.
Factors and offsets are integers, so fractions such as 0.1, which `float64`
only approximates, are outside the model. An `int64` conversion of a number that
is too large is any constant, `TooHigh`, since Go leaves it to the processor.

**HttpAdapter.** The poll loop of each device, the webhook, `WatchDevice` and
`Close`. A label whose interval is not positive makes `time.NewTicker` panic,
which the model has as `panicked`.

**JwksCache.** Overlapping calls of `Validate`, each with the refresh of the
shared keys that comes first, an identity provider that rotates its keys, is
slow or out of reach, and the staleness window. A set of keys is the number of
the provider's document; the model keeps how long ago each was replaced.

**Capability, SchemaValidation.** `Publish` as the transaction it is, the order
of versions (three numerals in several spellings, some beyond the range of
`int`) and the warning about breaking changes; on top of it, `ValidateProperty`
with the resolution of references. Documents are in their parsed form. A range is
compared as `float64`: `NaN` passes, and an `int` is rounded first. `Float64` is a
constant of which only the order and the bounds of ranges are known to be kept;
finite numbers are whole.

**Auth, DeviceService.** Credentials in the order of the interceptor, API keys
and role claims, the role matrix and the ACL override; `GetDevice`,
`ListDevices`, `RegisterDevice`, `DeleteDevice`, `GetProperty` and
`SetProperty` in the separate transactions and adapter calls they consist of;
and a stop of the process at any point, followed by a start with another
configuration. The capability registry is the set of published references and
the values a schema accepts. What an adapter's device makes of a write is open:
an acknowledgement says that it was received, an error does not say that it was
not, and a read may bring any value.

## Runs

| Run | Instance | What it checks |
|---|---|---|
| `gateway` | 3 callers, threshold 5, period 2, 1 device, 1 stream, 9 deployments, 2 starts | `ReadyMeansServing`: while `/health` answers 200, every listener is bound, every configured adapter open and reported on, every stored device watched or about to be. `OrderlySteps`: nothing unlocked is set while requests read it, and no adapter goes away under a request. `StopsOnceClientsLeave`: a signal ends the process unless a client keeps a stream open. `ClosedIffFewErrors`: overlapping requests never leave the breaker open with a clean record or closed with a bad one. `Recovers`: it closes for good once requests succeed for good, although late failures restart the open period. |
| `subscription` | 2 devices, 2 handlers (1 of the SDK), 2 paths, channels of 2 | `RegisteredChannelsAreOpen`: `Publish` never meets a closed channel. `InOrderWithoutDuplicates`: clients see their device's updates in order and once. `AppSeesWhatWasForwarded`: so does the application, and it misses nothing that was sent before the last update it saw. `SubscriptionsEnd`: whoever cancels, leaves or loses the connection, handler and goroutine both end and the channel is given back. |
| `router` | 2 devices, 2 streams, 2 calls, channels of 1 | `SubmitNeverBlocks`, `ResultsAreCorrelated`, `PendingOnlyWhileWaiting`: results, timeouts and repeated answers race for `r.pending` and nothing blocks, leaks or goes to the wrong caller. `LatestStreamStaysRegistered`, `CommandsReachTheirAddressee`: so do reconnects. `KeepsItsPromise`: the router implements `CommandCall`. |
| `router_concurrent_use` | as `router` | Violated, see findings. |
| `device` | 2 devices (1 of the SDK), 1 handler, timeout 1, 1 restart | `OnlySilentGoOffline`: between the `List` of a `Sweep` and its last `UpdateStatus` time passes, devices speak, come and go, and the gateway restarts; still, whoever is declared offline has been silent for the timeout, except devices whose own records were written in between. For those it is wrong, see below. `DeletedStaysDeleted`: what `Touch` and `Sweep` looked up earlier brings no deleted device back. `SilentDeviceGoesOffline`: also across a restart. `ComesBackOnline`: an SDK device with an ID of its own is online again and again once connections hold, whatever restarts, deletions and lost calls came before. |
| `mqtt` | 2 requests, 1 watcher, 1 message, 1 lost connection | `WaitersAreTheRequests`, `SubscribedIsTruthful`, `RepliesMatchRequests`, `UpdatesAreAttributed`. |
| `mqtt_every_waiter` | 3 requests, 1 device, 1 message | Violated, see findings. |
| `can` | 2 writers, 2 bytes, 6 significant bits, two message databases | `CacheIsTheLastFrame`, `WriteTouchesOnlyItsSignal`: the caches and the written frames against a reference that reads the payload as one integer and does exact arithmetic, where numbers are exact. `WritesSurvive`: concurrent writes to one message. `HealthIsTruthful`, `CloseStopsReader`: `Close` races the read loop and failing reads, and the error it provokes itself is not reported. |
| `http` | 2 devices, 2 changes each | `LoopReportsForward`: polls are applied in order. `PollingKeepsUp`: subscribers catch up with a device that answers some of its polls. `CloseEndsLoops`: in whatever state `Close` finds them. |
| `jwks` | 3 calls, window 3, timeout 2, 2 rotations | `ChecksByRecentKeys`: the keys a token is checked against were replaced at most a timeout ago, or the window and a timeout when the refresh failed, although an older answer may overwrite a newer one. |
| `capability` | 3 publications out of 67 documents | `BreakingUpgradesAreWarned`: comparing with the latest version only misses no break between releases in ascending order. `ValidationIsExact`: which values are accepted, against the closure of the references and a type's range as a set, with the exceptions that `float64` makes. `PublishedSchemasAreImmutable`. |
| `service` | 2 calls, 1 device ID, 2 registrations, 1 restart | `AuthorizedEffects`: no read or write without permission by the ACL that the call found. `SchemaHolds`: every value sent fits the schema of the registration its call found, and breaks that of the one it meets only if the device was registered again in between. `ReadsSeeWrites`: reads of a registration are answered from where its writes went, and the in-memory store with the last of them. `RegisterNeverReplaces`. |

The type invariants (`TypeOK`, in some modules with a prefix), which state
channel capacities and index relations too, are part of
`WaitersAreTheRequests`, `CacheIsTheLastFrame`, `SchemaHolds` and
`LoopReportsForward`, and are proved for all of these and for `Broker`,
`CircuitBreaker`, `CommandRouter`, `Presence` and `JwksCache`.

### Bounds

Capacities of 32 and 8 become 2 and 1: a full channel is reached all the same,
and the code treats no other fill level specially. Two of a kind (handlers,
calls, writers, requests) are enough for the races between two parties; the
breaker has three callers because a late failure and a late success may both
overlap a probe. `MaxPublished`, `MaxMessages`, `MaxVersion`,
`MaxRegistrations`, `MaxRestarts`, `MaxStarts`, `MaxRotations` and `MaxLosses`
bound what happens arbitrarily often in the code. In `gateway` two starts are
enough for a process to find what another left in the registry file, and the
deployments are two that work and seven that go wrong in different ways. In
`subscription` only one device publishes, and the other one's subscribers must
hear nothing; two subscribers of one device filter by different paths, one that
is alone on its device takes everything. In `device` the one handler goroutine
serves one call, stream or heartbeat after the other, so a handler that lingers
delays what the device asks for next. In `service` the one device ID is also
the first one the gateway generates. The CAN payload has two bytes, which is
enough for a big-endian signal to cross a byte; with 6 significant bits, signals
of 8 and 16 bits reach the limits of `float64` and `int64`. In `jwks` an answer may be as
late as the timeout while two others overtake it, and the bound of
`ChecksByRecentKeys` is reached. `MaxInt` is 7, so that a version of 8 is out
of range, and `Float64` keeps two significant bits, so that 5 is taken for 4. Calls, streams, devices or requests are symmetric where only safety
is checked. `service` and `can` may stop, the one when its registrations are
used up and the other after `Close`, so these two do not check for deadlock.

### Fairness

Goroutines that can go on do (weak fairness for the steps of a handler, a call
or a loop); CAN writers need none, as `Close` waits for no write. Tickers tick, and a request with a timeout ends with an answer or
an error. `main` goes on with its startup and its shutdown. Nothing is assumed
of devices, clients, applications, signals and the network: `Recovers`,
`PollingKeepsUp`, `StopsOnceClientsLeave` and `ComesBackOnline` state what they
need as a premise. Strong fairness is assumed of the choice between two ready
cases of a `select` (`LoopEnds`; `HandlerEnds`, where the ticker of a stream
competes with the end of its context), of a contended mutex (`Lock`, starvation
mode of `sync.Mutex`), and of `Run` in `SdkDevice`: its calls need a free
handler goroutine, which the real server always has and the one of the instance
only now and then.

## Findings

Each is a run in which TLC violates what a comment in the repository says.

- `router_concurrent_use`: `Dispatch` sends on a channel it looked up before
  it released the lock; when the device's stream ends in between, the channel
  is closed and the send panics. `CommandRouter` is "Safe for concurrent use."
- `mqtt_every_waiter`: `dispatch` walks an array that `cancel` shifts at the
  same time, and skips a waiter. It "delivers payload to every waiter
  registered on topic".

Modelling showed more disagreements, most of them listed as hazards.

Of the SDK and the process: a device that registers again gets `AlreadyExists`
before `RegisterDevice` reaches the `Touch` that is to mark a
"(re-)registration" online (`service/device_service.go:416`), so it is the
command stream that brings it back. A device without an ID of its own gets
another ID with every reconnection, where a comment says "no-op otherwise"
(`sdk/go/device.go:174`). A device deleted while it streams does not notice and
stays absent until the connection breaks. `Client.Subscribe` hands status events
to the application as updates with an empty path. `GracefulStop` has no timeout
and waits for streams that only clients end (`main.go:613`). A port of 0 in a
`UDAL_*_PORT` variable replaces the port of the file by the default.
`DeleteDevice` leaves the adapters watching. A `SetProperty` stores and publishes
under no common lock, so subscribers and readers may end on different values.

Of presence: `Sweep` is to leave alone devices "never confirmed online"
(`heartbeat/monitor.go:103`) and to find those that have gone quiet, but checks
nothing again when it writes. A device that is touched after the `List`, or deleted
and registered again, becomes offline all the same, with the `LastSeen` of the list
instead of its own, until it is next heard of.

Of requests: `SetProperty` decides by the record it read. If the device is deleted
and registered again before the write, with another schema or ACL, the write goes
through against the new ones. `DeleteDevice` leaves the property store as it is, so a
device registered again under an old ID shows the old value, whatever its schema. A
write over HTTP "still falls through to DeviceService's in-memory PropertyStore"
(`adapters/http/adapter.go:31`) says the adapter, where `SetProperty` answers
`Unimplemented`; if it did fall through, `ReadsSeeWrites` would fail, since reads go
to the adapter.

Of numbers: a property's range accepts `NaN` (`capability/validate.go:80`) and ints
that `float64` rounds into it (`validate.go:46`), for instance 2^53+1 for a maximum of
2^53. "preserving exact integer precision" (`can/codec.go:102`) fails for unsigned
64-bit signals from 2^63 on.

Of the rest: the circuit breaker lets "exactly one call through as a half-open
probe" (`mqtt/circuitbreaker.go:36`), but `allow` admits every call while it is
half-open; `ClosedIffFewErrors` and `Recovers` hold with any number of probes. When a
client registered the ID that the sequence yields next,
every later registration without an ID fails, because the failed transaction
rolls the sequence back (`registry/bbolt.go:62`; "If d.ID is empty, a unique ID
is generated", `registry/registry.go:36`). A release of an older line, say 1.2
after 2.0, is compared with 2.0 only, so no warning is given within its own
major version (`capability/bbolt.go:98`). `Raw` is "the exact document as
published" (`capability/schema.go:21`), but the bbolt registry stores it inside
another JSON document, which compacts it. A CAN write that overlaps a received
frame reverts the sibling signals (`can/adapter.go:253`). An HTTP push that
arrives late leaves subscribers with an old value that the poller does not
correct (`http/poller.go:65`). A poll interval of `0s` stops the process
(`http/poller.go:20`).

## Proofs

Every safety property that holds in the runs is proved, for every value of the
constants that satisfies the modules' assumptions. They say that bounds are
natural numbers, that `None` and `Absent` are none of the values they stand
beside, and:

- `BrokerAssumption`: a path is none of the words for other kinds of updates;
- `PresenceAssumption`: there are finitely many devices;
- `PolicyAssumption`: ACLs are lists, and API keys have one of the roles;
- `MqttAssumption`: IDs and paths are non-empty lists of topic levels;
- `CapabilityAssumption`: a document that the meta-schema accepts has the shape
  of a schema: a version of three numerals, numbers as bounds, and finitely many
  definitions;
- `ValuesAssumption`: a value is of one kind, and numbers are in the range of
  `int`, or `NaN`;
- `FloatAssumption`: `float64` of an `int` keeps the order, and leaves the bounds
  of schemas, which are `float64`s, alone;
- `CodecAssumption`: a significand has at most as many bits as a word;
- `CanAssumption`: the messages are as described above, and frames are payloads.

A proof module holds the proofs of one or more components and extends their
modules. Where two components meet in one, the names of one of them have a
prefix (`JwksInit`, `HttpSpec`, `CapabilityNext`, `PresenceTypeOK`). The
proofs about the MQTT adapter are in two modules.

Some theorems have one more hypothesis, which the code does not enforce and the
theorem would not hold without: `PlainIds`, and `WellMultiplexed` or, for one
signal, `Selectable`, described below.

| Module | Theorem | Argument |
|---|---|---|
| `Gateway_proofs` | `ReadinessIsTruthful`, `StepsAreOrderly`, `BreakerSurvivesRestarts` | `LifeInv` says for every point of `main` what is bound, open, reported on and watched there, and that requests run only while a server does; the shutdown undoes it in the opposite order. The breaker's invariant is kept by every process and established by a new one. |
| `Gateway_proofs` | `BreakerStateMatchesErrors`: `[](TypeOK /\ ClosedIffFewErrors)` of `CircuitBreaker` | Inductive as a conjunction: the bound on the counter makes "not fewer" mean "exactly the threshold". |
| `Gateway_proofs` | `PollsGoForward` of `HttpAdapter` | A loop has one poll at a time (`OnePoll`), so what it compares is not newer than the device and not older than `last` (`Forward`). |
| `SdkClient_proofs` | `TypeCorrect`, `PublishOnlyToOpenChannels`, `UpdatesInOrder` of `Broker` | A channel in `subs` is open because its handler is still reading. For the order, what was read, what is queued and what is published next are numbered upwards, and a channel holds its own device's updates only. |
| `SdkClient_proofs` | `SdkImplementsBroker`: `ClientSpec => Spec`; `NothingIsLostAfterTheBroker` | Every step of the composition is one of `Broker` or leaves it alone, so the theorems about `Broker` hold of it. `HandedOver`: the application has everything forwarded up to the last event received, except what is on offer. |
| `CommandRouter_proofs` | `SubmitIsNonBlocking`, `ResultsReachTheirCalls`, `PendingIsReclaimed` | `Correlation`: of `r.pending`, the goroutines that hold a result and the result channel, at most one knows of a command. |
| `CommandRouter_proofs` | `ReconnectsStayRegistered`, `CommandsAreRouted` | `Routing` follows a command from the lookup to the device. |
| `CommandRouter_proofs` | `LookupsFindOpenChannels`, `PanicNeedsALostDevice` | What is right about `Dispatch`, next to the finding `router_concurrent_use`. `Closing`: a channel is closed only by a handler that has returned, and one that is still registered has not. So a send can only meet a closed channel if the device was lost after the lookup. |
| `CommandRouter_proofs` | `RouterKeepsItsPromise` | `Lifecycle`: a command is in one place of one channel, is not there once it was executed or garbled, and every result is vouched for by an answer. With these, each step of the router is a step of `CommandCall` or leaves its state alone. |
| `Registries_proofs` | `SweepDeclaresTheSilent`, `NoResurrection` of `Presence` | `ListedInv`: what `Sweep` has still to write is overdue, also now, or its record was written since: time only makes a silent device more overdue, and every writer of a record is one that the history `behind` knows. Both theorems are action properties from this invariant. |
| `Registries_proofs` | `SdkImplementsPresence`: `SdkSpec => PresenceSpec`; `SdkKeepsRecordsTruthful` | The device and its handlers only call the gateway in certain orders, with IDs they know, so each step is one of `Presence`; its theorems carry over. |
| `Registries_proofs` | `UpgradesAreWarned`, `SchemasAreImmutable` of `Capability` | Versions compare like the numbers they are the digits of, so `latestInTx` finds the newest release (`LatestIsARelease`). Comparing with it is enough: either it lacks something of an older release already, and there was a warning on the way to it, or the new document lacks something of it (`PublishWarns`). |
| `Registries_proofs` | `ValidationAcceptsTheDomain`: `[]ValidationIsExact` of `SchemaValidation` | `LoopInv`: what the loop of `ResolveType` has seen is what the references have led to so far. Each turn that goes on sees one more definition, so the loop is over within their number, at a type without a reference, at one already seen, or at nothing. What it saw is then the least set that holds the first reference and is closed under references (`LeadsTo`). Rounding takes no `int` out of a range, because the bounds are `float64`s and the order is kept (`RoundingStaysInRange`), so only values outside can be misjudged. |
| `DeviceService_proofs` | `EffectsAreAuthorized`, `ValuesFitTheSchema`, `RegistrationsLast`, `ReadsFindWrites` | What a call found stays true of the registration it found, because a new registration has a number no call has seen (`Tells`, `Knows`). So a call that goes on was permitted, a value that is sent fits the schema of the registration it was checked for, and it goes where that registration is read from (`SentOK`). |
| `DeviceService_proofs` | `AuthorizeFollowsThePolicy` | The matrix of the code against the table of the requirements, row by row, and the first matching ACL entry against all of them. That `Authorize` allows no more than the requirement holds for every ACL and is what `EffectsAreAuthorized` uses; that it refuses no more needs entries that agree about a subject. |
| `DeviceService_proofs` | `KeysAreRecent`: `[](JwksTypeOK /\ ChecksByRecentKeys)` of `JwksCache` | A document in an answer was current when the provider sent it, so it was replaced at most as long ago as the request has been under way. Installed keys are hence at most a timeout older than `lastFetched`. Between a refresh and its verdict no time passes, so what another call installs there is as recent. |
| `MqttAdapter_proofs` | `WaitersAreExact`, `SubscriptionsAreKept`, `RepliesAreForTheRequest` | `SliceOK` follows every place of the backing array of a waiter list, also behind the end of the slice, where `cancel` leaves old channels: it is unused, or holds a request that registered on the topic of the array at some time. So whatever `dispatch` finds in the array it walks, the channel it sends to was made for the message's topic. `FiltersOK` does the same for `a.subscribed` and the broker. |
| `MqttDispatch_proofs` | `UpdatesNameTheirOrigin` | A message that reaches `dispatch` passed a filter that a call asked for. From the filter and the topic the device and the path follow, unless a device ID has a level `props` behind its first: then its topics read like those of another device. `PlainIds` excludes such IDs, which nothing in the gateway does. |
| `MqttDispatch_proofs` | `ValueTopicsParseBack` | Under `PlainIds` the first level `props` of a topic is the one `topicProps` put there. |
| `MqttDispatch_proofs` | `SkippedOnlyAfterCancel` | What is right about `dispatch`, next to the finding `mqtt_every_waiter`. `ServedInv`: until one of the waiters it set out to serve is gone, these are the first entries of the array it walks, in their places, and those it has passed have something in their channels (`InPlace`); `append` only writes behind the end that `dispatch` read. |
| `CanAdapter_proofs` | `CacheIsExact` | The bits a signal occupies are consecutive in the integer that the payload is in the signal's byte order (`PositionsAreConsecutive`; for Motorola signals the walk over the bytes descends in the swapped payload), and consecutive digits are cut out by division and remainder (`Cut`). So `extractRaw` is `Field` for every payload (`ExtractIsField`), and the caches agree because each frame is decoded in the step that stores it. `Scaled` is exact arithmetic within the limits (`ScaledExact`). |
| `CanAdapter_proofs` | `EncodedFramesReadBack`, `EncodedValuesAreNearest` | `Encode` writes the raw value of the signal into its field and nothing else (`Wrote`), and `decode` reads that field; within the limits no operation on `float64` rounds (`FloatExact`, `QuotientExact`), and rounding to the nearest raw value (`RoundNearest`) is off by at most half a factor. |
| `CanAdapter_proofs` | `WritesAreLocal`, `WritesAreKept` | `packRaw` and `extractRaw` are inverse and touch no other bit (`ExtractPacked`, `ExtractLocal`), the conversions are exact on what is `Representable` (`EncodeExact`), and the lock of a message excludes writers from encoding to handling (`HoldsLock`). A multiplexed signal needs a multiplexor that can hold its number in bits of its own: `WellMultiplexed`, which `ParseDBC` does not check. |
| `CanAdapter_proofs` | `HealthReportsAreTrue` | `SocketInv`: a read loop that met an error met it on the open socket, or after `done` was closed, because `Close` announces itself before it closes the socket. |
| `CanAdapter_proofs` | `ReaderStopsAfterClose`: `CloseStopsReader` from `Spec` and one hypothesis | After `Close` each step of the read loop brings it nearer to its end (`ReaderGoesOn`), and nothing else moves it. That a loop which has not ended can take a step is a hypothesis, since the prover does not reason about `ENABLED`. |

Inductions over the bits of a payload are written over a set instead of a
predicate, because the provers cannot instantiate a predicate: `Induction` says
that a set that holds 0, and with every number below `n` the next one, holds
`0 .. n`. It follows from the well-founded order of the naturals. That a
recursive function satisfies its equation is proved in the same way, from the
functions on the initial segments. For these proofs `CanCodec` has powers of two
and sums as functions, and `SchemaValidation` the turns of a loop (`Turns`).

Only model-checked are the liveness properties: `Recovers`,
`StopsOnceClientsLeave`, `SubscriptionsEnd`, `SilentDeviceGoesOffline`,
`ComesBackOnline`, `PollingKeepsUp`, `CloseEndsLoops` and, without the
hypothesis above, `CloseStopsReader`. They follow from fairness, whose meaning
rests on `ENABLED`, and the prover has no rule for it. All but `CloseStopsReader`
also quantify over processes or devices, in the fairness or in the property,
or count down something unbounded; the prover cannot instantiate a quantifier
over a temporal formula or do induction over one.

## Not modelled

- Failures of the database file after startup, and TLS handshakes.
- A server that fails after its listener was bound: `Serve` is then only logged
  (`main.go:258`, `382`, `538`, `594`), the process goes on, and `/health` keeps
  answering 200. `ReadyMeansServing` says that listeners are bound, no more.
- Fractions in CAN scaling and in the ranges of schemas.
- The text of errors, DBC files, JSON and protobuf messages. Where it decides
  whether a step fails, the models have both outcomes.
- Generated code (protobuf messages, gRPC stubs, REST gateway), about a third of
  the Go lines: it translates calls one to one.
- Metrics, logs and traces: they observe calls and change no state. The gauge of
  online devices, which is computed from the registry, is in `Presence`.
- The in-memory registries of devices and schemas, which only tests use.
- The CLI, the TypeScript SDK and the dashboard: one request at a time and no
  state of their own. The Python SDK and the gRPC half of the Rust SDK follow the
  protocol of the Go SDK; the MQTT half of the Rust SDK is a packet codec and a
  loop around a socket that talk to a broker, not to the gateway.
- In the Go SDK, the goroutines that answer commands: `CommandRouter` lets a
  device answer in any order, more than once, or never. They share one stream
  for sending, which gRPC leaves undefined.
- What subscribers see against what readers see: `Broker` numbers updates and
  `DeviceService` keeps values, and no property relates the two.

`PROJECT.json` gives the reason for each component.
