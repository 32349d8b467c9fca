# A verification of the gRPC egress client

TLA+ models of `edge-transport-grpc-egress`, a Rust library through which a
program makes outbound gRPC calls; the TLC configurations that check the models
on small instances; and TLAPS proofs of the main results for every value of the
constants. Paths below are relative to `src/scm/main/`.

## The system

A client is a stack of decorators. Each one implements `Transport` (typed
calls) and `RawTransport` (calls in bytes), each with four shapes: unary, server
stream, client stream, bidirectional stream. A call goes down the stack, its
result comes up:

```
cancellation / context views          (optional, outermost)
  breaker                             GrpcBreakerClient
    retry                             GrpcRetryClient
      interceptors, lifecycle events  InterceptedTransport
        load balancing                EndpointTransport
          gRPC engine                 proto-svc (a dependency)
```

| component | state it keeps | operations | how it interacts | what is hard |
|---|---|---|---|---|
| breaker (`breaker-spi`) | a node (state and two counters) behind an async mutex, shared by all tasks | `admit`, `record`, `guard`, eight shapes, `state` | asks the library `DefaultBreakerTransition` for the next node; wraps any client | `admit` and `record` copy the node, unlock, compute, lock, store: stores of other tasks are lost or overwritten; futures are dropped between the two |
| retry (`retry-spi`, `retry-std`) | per call: loop index, one counter per track, last error, start instant | `run_with_retry`, eight shapes, the classifier | calls the wrapped client up to `max_attempts` times, sleeps between | two tracks with different limits, a budget that attempts and sleeps use up, which error surfaces |
| resilient (`resilient-api`, `-std`, `-spi`) | the policy on its way from a file or a builder to the two decorators | load, validate, split, `build` | composes the two above | rules written five times in three crates; what one call counts for after its retries |
| interceptors (`transport-spi`, `transport-std`) | per call: a pending call, whether the end of a stream was announced | before and after hooks, lifecycle events, the stream wrapper | hooks may fail; streams outlive the call | exactly one terminal event per call, also for streams that are dropped; hooks run again for every attempt |
| endpoints (`transport-spi`) | a pool of backends with their health, in a library | `pick`, `report` | wraps one engine client per backend | calls dropped before they report; late reports; all backends avoided |
| cancellation view (`transport-spi`) | a signal | races the signal with a call or a read | outermost | a call that ends and a signal that fires together |
| context view (`transport-spi`) | the caller's identity | adds headers | outermost | a header the caller set must not be replaced, one of the identity not lost |
| builder (`transport-spi`, `transport-api`) | the settings so far | setters, `with_channel_config`, `build` | makes the stack | order of setters, settings that contradict each other, plaintext by accident |
| bearer authentication (`auth-bearer-spi`) | its settings | a before hook that signs a token | an interceptor | a token that expires while attempts and pauses go on |
| health codec (`transport-api`) | none | encode, decode | used by the health check | bounds of the wire format, payloads that were cut |

What makes each correct: the breaker trips exactly when the policy says, stays
open as long as it says, and always lets calls through again; retry never
repeats a call that must not be repeated, asks the peer no more often and takes
no longer than allowed, and surfaces the truth; a call has one terminal event;
the pool puts aside the backends that fail and no other; a cancelled call is not
answered and leaves no mark; an identity does not overwrite the caller; a built
client has what was asked for, and no plaintext that was not; a message is read
as it was written.

## Modules

| module | models | |
|---|---|---|
| `CallResult` | results of calls, as far as any layer tells them apart | data |
| `FailureClassifier` | `StdFailureClassifier::classify_result` | pure |
| `BreakerNode` | `DefaultBreakerTransition` (external), the node | pure |
| `Breaker` | `GrpcBreakerClient`, any number of tasks | state machine |
| `AtomicBreaker` | the breaker as documented: atomic `admit` and `record` | abstract specification |
| `Retry` | `GrpcRetryClient::run_with_retry` and `StdRetryClassifier`, one call | state machine |
| `Lifecycle` | `InterceptedTransport` and `PatternResponseStream`, one call and its stream | state machine |
| `Endpoints` | `EndpointTransport` and its pool (external), any number of callers | state machine |
| `Cancellation` | `CancellableTransport`, `CancellableResponseStream`, over `Endpoints` | composition |
| `ResiliencePolicy` | `GrpcRetryConfig`, `GrpcBreakerConfig`, `ResilienceConfig`, their providers, builder and factories | state machine |
| `Resilient` | `StdGrpcResilientFactory`'s client: `ResiliencePolicy`, `BreakerNode` and `FailureClassifier` around `Retry` | composition |
| `Headers` | `ContextTransport`, `StdMetadataExtender`, the trace and bearer interceptors and their chain, over the attempts of a call | state machine |
| `ClientBuilder` | `GrpcEgressBuilderImpl` and the value objects its methods take | state machine |
| `HealthCodec` | `HealthProtoCodec`, the two health messages | algorithm, one step per field |
| `MC*` | instances for TLC | |
| `BreakerProofs`, `RetryProofs`, `LifecycleProofs`, `CancellationProofs`, `ResilientProofs`, `ClientBuilderProofs`, `HeadersProofs`, `HealthCodecProofs` | theorems and proofs | |

Operators whose comment begins with *Slip* are not part of a specification:
each is a definition with a plausible mistake in it. Replacing the definition by
the slip must make a property fail, which shows that the property depends on the
code being right.

### Breaker

The node is a record of the circuit's state and two counters, as in the code.
`Open` carries the instant the circuit opened; the model keeps the time since
then, up to the cool-down, beyond which nothing tells instants apart.

`admit` and `record` are three steps each, because each lets go of the lock
twice (`breaker_egress.rs`):

| | `admit` | `record` |
|---|---|---|
| lock, copy the node, unlock | `Call` (:42) | `Answer` (:79) |
| ask the state machine and read the clock, no lock held | `AdmitDecide` (:43-56) | `RecordDecide` (:80-86) |
| wait for the lock, store all three fields | `AdmitStore` (:57-71) | `RecordStore` (:87-97) |

Between any two steps of one task the others take theirs and time goes on: a
copy ages like the node. `Call` is the entry of any of the eight shapes, with
the test of `enabled`; `Answer` is the return of the wrapped client, with the
second test of `enabled` that the raw shapes make. A denied call stores its node
like an admitted one, then returns the refusal. `Drop` is the caller dropping
its future, which it can only do where the future awaits: at a lock or in the
wrapped client. The observer `state()` only reads the node and is not an action.

Four histories are used by properties only: `streak` and `failed` count the
failures recorded, in a row and in all; `stale` is the set of tasks whose
snapshot is no longer the node; `raced` says that a stale task has stored, since
the last success that was recorded from a snapshot that was not stale.

`DefaultBreakerTransition` is outside the repository. It is modelled from the
arguments the breaker hands it and the fields it stores, and from the three-state
machine that `breaker-spi/src/lib.rs` documents and its tests exercise. One
choice is an assumption: an outcome recorded while the circuit is open leaves
the node as it is. HalfOpen admits any number of calls at once, as nothing in
what the breaker stores counts admitted probes.

### Retry

A call through `GrpcRetryClient` shares nothing with other calls, so the model
is one call under any policy, shape, budget and sequence of answers. The
variables are the variables of `run_with_retry`, with its names. Each head of
the loop is one of `LoopEnds`, `DeadlinePassed`, `BeginAttempt`; each end of an
attempt is one of `AttemptReturns` (success or terminal), `StandardRetry`,
`RateLimitRetry`, which either begin a pause (`Pause`) or leave the loop
(`GiveUp`). Streams, and typed calls with one attempt, are forwarded
(`Forward`). A typed call encodes its message first (`EncodeFails`) and decodes
it again for every attempt after the first (`AttemptResults`).

A status message is the set of word groups it contains, because the classifier
looks for one group before another. An attempt takes any time in `Delays`, a
pause has any length in `Delays` (the backoff and its jitter are a library, the
hint comes from the peer) and may end late by any time in `Delays`.

Its properties are checked in the run `resilient`, which runs this loop under
the policies that can be built; `MCRetry` runs it alone, for the violated run.

### Lifecycle

One call through the interceptor chain, and the stream it may return. `kind`
tells shapes that end with a reply (unary, client stream; they run `after_call`)
from shapes that return a stream (server, bidirectional; wrapped in
`PatternResponseStream`). Typed and raw calls do the same. The chain is empty or
not (`watched`); with an empty chain nothing is copied and nobody is told.

`Refuse` and `Start` are `run_before`; `CallFails` is `on_error`; `Reply` is
`run_after`; `StreamOpens` is the construction of the stream with
`notify_opened`. On the stream, `BeginRead` is `read_message` or `read_trailers`
up to its await; `MessageRead`, `ReadFails`, `TrailersRead` are their ends, and
`ReadLeft` is the end of the messages or a read that was dropped: both leave the
stream as it was. `Observe` and `TellOpened` are `get_headers`, which takes the
stream by shared reference: between the swap of `opened` and the event another
thread may be in it. The exclusive reference of the reads is `Free`.
`DropStream` is the stream's `Drop`.

`events` is the history of what the chain was told. An event whose metadata
cannot be copied is not told, and `suppressed` remembers that this happened to a
`Completed`. Which reads give what is up to the engine and not restricted.

`RepliesToldTruly` leaves two cases open, where the documents and the code
disagree: a call that is dropped, and a reply whose metadata cannot be copied
(see below).

### Endpoints and Cancellation

`Endpoints` is one action per part of a call that runs without an await: `Pick`
or `Refuse` before it (`endpoint_transport.rs`, `pick`), `Return` with `report`
and `judge_outcome` after it. `Arrive` is the engine finishing; between it and
`Return` the caller has not been polled yet. `Abandon` is the future being
dropped, so that nothing after the await runs. The pool is a library; it is
modelled from what the endpoint tells it and asks of it: a reported failure puts
a backend aside, a reported success takes it back, and there is nothing to
select when all are aside. A backend in `sound` is reachable and in time; it may
still answer with any error status, and calls to it may fail on this side.

What happened to a call is kept apart from how `judge_outcome` judges it. A call
ends in one of `LostErrors` (the backend is gone or late), of `PeerErrors` (it
answered with an error) or of `LocalErrors` (the call failed on this side and
never got there). `EngineAssumption` has the codes the engine gives each; the
properties are about what happened, the code sees only the codes.

`Cancellation` adds a signal and the callers bound to it. Each poll of a race is
either the step the endpoint would take (`Begin`, `Finish`, `BeginRead`,
`FinishRead`) if the signal has not fired, or its cancelled form
(`BeginCancelled`, `FinishCancelled`, `ReadCancelled`), as the `biased` of
`select!` has it. A caller outside `Bound` uses the same client without a view.

### ResiliencePolicy and Resilient

`Write` is a key of a file or a method of the builder, `Load` the provider or
builder with its checks, `Build` the factory with the checks of the two
factories under it. Each of the five copies of the rules is an operator of its
own (`retry_try_new`, `retry_validate`, `breaker_try_new`, `breaker_validate`,
`validate`), because the copies differ. The conversions (`from_policies`,
`to_retry_config`, `to_breaker_config`) name their fields one by one, as the
code does, so that a field that is lost or crossed shows. A floating-point
setting is its class: negative, zero, within, infinite, not a number.

`Resilient` takes the policy that was built into use: `Begin` and `Reject` are
`guard` up to the call, `Attempt` is a step of `Retry`, `Finish` records the
result. Calls follow each other; overlapping ones are the subject of `Breaker`.
When a client is taken into use the settings it came from are forgotten, and
between calls so are the variables of the loop; both only save states.
`Policies` and `Circuits` are the policies of the clients that are used.

`Harmless` is the list of results that the breaker's documents say are not
counted (`std_failure_classifier.rs:12-22`, `breaker-spi/src/lib.rs:24-33`), and
not the classifier's own table. Errors that the retry loop makes itself are in
it or not as their kind says: an encoding error is, a decoding error is not.

### Headers

The metadata of one call, from the caller through `add_headers` and
`run_before` to what each attempt sends. A header is its key and who put it
there; metadata is a sequence, as a key may occur twice. The retry loop is
reduced to what it does with metadata: each attempt starts from a clone of the
call's. Time passes between attempts, up to the largest instant, where
`saturating_add` stops. A clock that stands before 1970 (-1 in the model) fails
the attempt with `InvalidSystemTime`, apart from a signature that cannot be made.

### ClientBuilder

One action per method, on a record with the builder's fields; `calls` is the
history of what was called, from which the properties compute what the client
should have. Constructors that may refuse are guards on their method (an
application has no value to pass). `Verdict` has the checks of `build` in
their order, with each pass over the targets that slices a URL and may panic
before a later check refuses; the pool, made last, is external and may refuse.
Of a URL it matters whether it is blank, plaintext, a URI, and whether a
character straddles its byte 7.

An option is what the last call to speak of it said (`LastWordCounts`). Two
options are left open after a channel config that leaves them out (`Unsettled`:
the request timeout and the send compression), and so is which encodings such a
config adds to those accepted: the documents and the code disagree there.

### HealthCodec

Integers of 64 bits are ten groups of seven bits, so nothing is narrowed. The
decoder takes one step per field. The reference definition does not use the
decoder's operators for reading: what a peer wrote is a sequence of fields, each
with its meaning, cut at any byte. A field is a `WireField` (a key and a value of
any of the four wire types, with varints of any length up to ten bytes) or a
`BrokenField` (a key that is none, or a varint or a length that is too long).
`HealthCodecAssumption` says that `Fields` are such fields and, with the bound
`PayloadBound`, that a payload is shorter than 2^28 bytes: in such a payload a
length that needs more than four groups is always past the end. `IsUtf8` is
UTF-8 itself, by position: every byte begins a character or belongs to one.

## Runs

| run | bounds | shows |
|---|---|---|
| `breaker` | 3 tasks, threshold 2, cool-down 1, 2 probes, fair | `TypeOK`, `CountersBelowLimits`, `CountsConsecutive`, `NeverTripsEarly`, `AtomicUnlessStale` (the refinement of `AtomicBreaker`) and `RecoveryAdmits` under every interleaving |
| `breaker_lost_failure` | 2 tasks, threshold 2 | **violated**: `TripsAtThreshold` |
| `breaker_early_close` | 2 tasks, threshold 2, fair | **violated**: `StaysOpen` |
| `resilient` | 3 settings changed, to the edges of every rule, from 3 sources; then clients with 1 to 3 attempts, 1 to 3 rate-limit retries and 3 circuits, call after call; budgets of 0, 2, 3 or none, delays of 0 to 2, 9 answers | of the loop: `TypeOK`, `AttemptsBounded`, `FinalIsFinal`, `SurfacesLastAttempt`, `WithinBudget`, `PausesLeadOn`; of the settings: `ObtainableBuilds`, `SettingsReachClients`, `SourcesAgree`; of the circuit: `CountsCalls`, `HarmlessNeverTrips` |
| `retry_rate_limit_one` | 3 attempts, rate limit 1 | **violated**: `NoRateLimitRetries` |
| `lifecycle` | 2 observers (symmetric), reads begin up to 6 events | `RepliesToldTruly`, `OpenedOnce`, `CancelledOnlyIfUnended`, `StreamEndIsTold` |
| `lifecycle_one_end` | as above, 3 events | **violated**: `OneTerminalEvent` |
| `calls` | 2 callers, one bound to the signal; 2 backends, any of them sound; each strategy and no pool; 4 errors of 3 kinds | `SoundIsServed`, `FaultsBounded`, `CancelledIsFinal`, `SignalEndsWaits`, `EndpointRules` |
| `calls_taken_back` | as above | **violated**: `AvoidedUntilAnswer` |
| `headers` | 3 keys of the caller, identities with up to 2 further headers, 6 chains, 8 bearer settings, 2 attempts, 6 instants | `OneCredential`, `IdentityIsSent`, `TokenIsFresh` |
| `builder` | any 3 methods, then `build` | `LastWordCounts`, `PlaintextIsAllowed`, `IdentityNeedsTls`, `PoolIsServed` |
| `health` | 2 of 18 fields, cut at every byte; 9 statuses and 5 names | `DecodesWholeFields`, `RoundTrip` |

Why the bounds are enough. Three tasks make a copy stale by two stores of two
others, the longest chain in which the stores differ; a threshold of 2 lets a
count be lost and still reach the limit; two probes let a probe be lost in
HalfOpen; with a cool-down of 1 there is an instant before it has passed and one
after. Nothing in the breaker compares anything but a counter with its limit and
the age with the cool-down. The histories `streak` and `failed` stop at the
threshold. For `resilient`, no rule reads more than two settings, so three edits
reach each edge with one to spare; 3 attempts have a first, a middle and a last
one, and both tracks can be entered, left and entered again; one answer stands
for each arm of the two classifiers; the three circuits are none, one that two
calls open and one probe closes, and one that two probes close. Time in the loop
stops at 4 (`Horizon`), past every budget. For `lifecycle`, two observers race
for one flag, and six events are an opening, a message, two ends and the reads
after them. For `calls`, two callers have reports that cross and one signal for
one of them; two backends are a sound one beside one that is gone, or none
sound. For `headers`, the two interceptors come in both orders. For `builder`,
three calls are a value, one that should override it, and one between or after;
no method looks at more than one field of another's. For `health`, a field of
each wire type, valid and not, is before or after the one that counts.

Deadlock is checked in every run: an idle task can always call, and a finished
call, build or decoding stutters (`Done`, `Gone`, `Over`, `Unused`).

Fairness. `FairSpec` of `Breaker` assumes that a task that can go on is polled
and that the wrapped client ends every call (`WF` of `Proceed`, by the runtime
and the client's timeout), and that time passes (`WF` of `Tick`). It does not
assume that anybody calls again, or that nobody drops a call; that calls fail no
more is the premise of `RecoveryAdmits` and not of the specification. `Spec` of
`Cancellation` assumes only that a task which was woken is polled (`WF` of
`Polls`): neither the peer's answer, nor the next message, nor the signal, nor
any decision of a caller has to come.

### What the violated runs show

1. *A failure is lost* (`breaker_lost_failure`). A store from a stale copy wipes
   out a failure that another call recorded, and the circuit is closed after
   `failure_threshold` failures in a row. `breaker-spi/src/lib.rs:13-15` says
   that it trips.
2. *An open circuit is closed at once* (`breaker_early_close`). `admit` copies a
   closed node, another call's failure opens the circuit, `admit` stores its copy
   back: no cool-down and no probe. `resilience_config.rs:58-59` says that the
   circuit stays open for `cool_down_seconds`.
3. *One rate-limit retry where the documentation says none*
   (`retry_rate_limit_one`).
4. *More than one end* (`lifecycle_one_end`). The stream tells of an end every
   time a read meets one; `terminal` is consulted by `Drop` only.
5. *A backend is taken back though it has not answered* (`calls_taken_back`).
   Two calls are out to one backend. The first is lost and the backend is put
   aside; the second fails on this side, which `judge_outcome` counts as a
   success. `loadbalancer_settings.rs:9` has the backend avoided until a call to
   it succeeds.

`breaker` and its theorems show the other side of 1 and 2. A race can also open
a circuit too soon: a failure, a success and a failure open a circuit of two,
though no two failures are in a row, when a store from a copy older than the
success brings the first failure back (`breaker-spi/src/lib.rs:13-15` and
`grpc_breaker_config.rs:41` speak of consecutive failures). This is why
`NeverTripsEarly` asks for consecutive failures only while no stale store is in
the count, and otherwise for that many failures in all. What no race can do is
count one failure twice (`NeverTripsEarly`), upset the count beyond the next
success recorded from a fresh copy (`CountsConsecutive`), leave a counter stuck
at its limit (`CountersBelowLimits`) or keep a circuit refusing
(`RecoveryAdmits`). And nothing but stale stores is to blame: every other step
is a step of the breaker as documented (`AtomicUnlessStale`).

### Other disagreements between code and documents

Met while modelling; the models behave as the code does, and no run is about
them. No property states any of them as right.

- On the last round of the loop the rate-limit track still pauses and then
  returns the error it had (`retry_transport.rs:309`); `PausesLeadOn` says what
  does hold: a call that met no rate limit never pauses after its last attempt.
- A call dropped before its reply or stream is there was announced by `Started`
  and nothing tells of its end (`intercepted_transport.rs:136`), and a reply
  whose metadata cannot be copied fails for the caller. `contract-mapping.md:23`
  has one terminal event and an unchanged result of the call, ADR-012 line 14
  an end for each start.
- `balancing_strategy.rs:15` speaks of the fewest calls in flight; the endpoint
  never tells the pool of a call that begins, so the strategy takes the first.
- A Transport error with code Internal is trouble of the peer for the breaker's
  classifier and a success for `judge_outcome`.
- The retry loop decodes the caller's message again for each attempt
  (`retry_transport.rs:56`); if that fails, the breaker counts a failure, though
  its documents speak of decoding a response.
- A half-open circuit is closed by a call that ends on this side and never
  reached the peer (`grpc_breaker_config.rs:125` speaks of successful probes).
- A channel config with compression `None` keeps the compression set before it
  (`grpc_egress_builder.rs:166-170` of `transport-spi`), while the trait says that the config's
  compression sets the send and the accepted compression
  (`transport-api/src/client/traits/grpc_egress_builder.rs:80-83`). A config
  without a timeout keeps the one set before, while `grpc_channel_config.rs:45-46`
  has a default of 30 s.
- `is_plaintext_endpoint` slices at byte 7 and panics when that is inside a
  character (`grpc_egress_builder.rs:322`), for the endpoint and, as the URI
  library accepts such characters in a path, for a backend too; the model's build
  then ends in `panicked`. `tonic_grpc_egress_builder_validation_int_test.rs:2`
  says "Nothing panics.", and `build` promises a `GrpcChannelConfigError`.
- `bearer_egress_config.rs:13` says tokens are refreshed when they expire; a
  token is signed for every attempt, which `TokenIsFresh` relies on.

With every backend avoided and no call out, the model's pool selects none.
Whether it would recover is decided in the load balancer, which is not in the
repository; what holds of this code is that the pool of a client with a sound
backend never empties (`SoundIsServed`).

## Proofs

Every theorem is checked by TLAPS for all values of the constants that satisfy
the assumptions: `PolicyAssumption` and `RetryAssumption` are what
`GrpcBreakerConfig::try_new` and `GrpcRetryConfig::try_new` accept,
`EnabledAssumption` is a type. `Tasks` is any set.

- `TypeCorrect`, `BoundedCounters`: `TypedAndBounded`, the type invariant and
  the bound on counters together, is inductive. Neither is by itself: the bound
  on the node after a store comes from the bound on the copy, and the type of a
  counter after an increment from the bound before it.
- `CountIsExact` (`CountsConsecutive`) and the consecutive half of `NoEarlyTrip`
  from `FreshCopies`: the snapshot of a task that is not stale equals the node,
  and what it decided on is what the state machine makes of the node as it was
  some ticks ago, both grown older since. So a store by such a task does what an
  atomic `admit` or `record` would.
- The other half of `NoEarlyTrip` from `FailuresEarned`: the count in the node
  *and in every copy* is at most the number of failures recorded, one more in
  a copy about to store a failure, and a node or copy that is not closed had
  all of them. A stale store keeps it, since the number of failures recorded
  never falls.
- `RefinesUnlessStale` (`AtomicUnlessStale`) from `FreshCopies` and
  `OutcomesInUse`, by which an outcome is held only where the abstract breaker
  holds it. For any number of tasks, `admit` takes effect when it stores.
- `SerialRefinesAtomic`, `SerialStaysOpen`, `SerialTrips` assume `Serial` (one
  task at a time). Then no store is ever stale (`NeverStale`), and the breaker
  implements `AtomicBreaker` without exception. Without `Serial` they are false:
  see the two violated runs.
- `DisabledStaysInert`: a disabled breaker forwards and never moves; its
  property is inductive together with the type invariant.
- `RetryTypeCorrect`, `RetryAttemptsBounded`, `RetrySurfacesLastAttempt`,
  `RetryWithinBudget` from `RetryInv`: at the head of the loop and in a pause,
  the number of attempts made is the loop index (plus one in a pause), the last
  error is the end of the last attempt, and each track's counter is within its
  limit and the loop index.
- `RetryFinalIsFinal` from `AllWorthRetrying`: while the loop goes on, every
  attempt so far ended in a failure that may be retried.
- `RetryPausesLeadOn` from `TracksInStep`: until a rate limit is met, the
  standard track counts every turn of the loop.
- `LifecycleOpenedOnce` from `OpenedInv`: until `opened` is set nothing was
  announced and nobody is about to; whoever set it is alone until it has told.
- `LifecycleCancelledOnlyIfUnended`, `LifecycleStreamEndIsTold` from `EndInv`:
  `terminal` is false only while no end was told, and true only if one was told
  or suppressed. These are the two directions `Drop` relies on.
- `LifecycleRepliesToldTruly` from `ReplyInv`, which says what was told at each
  point of a call (`ReplyHistory`); `LifecycleTypeCorrect`.
- `CallsTypeCorrect`, `CallsSoundIsServed`, `CallsFaultsBounded`,
  `CallsCancelledIsFinal`, `CallsEndpointRules` are about `Cancellation` over
  `Endpoints`, for any finite set of callers, any of them bound, and any
  backends. `PoolInv` says that an answer on its way could have come from the
  backend it will be reported for, and that the pool avoids exactly the backends
  with a failure on record. The first is what makes a sound backend safe from
  reports, with `JudgedByFate`: `judge_outcome` blames a backend exactly for the
  calls that were lost. The second keeps an avoided one from being picked.
  `ViewStep` is the refinement: a step of a view is a step of the endpoints or
  changes nothing of them but what a caller was given; every invariant of the
  endpoints is carried over by it.
- `ResilientObtainableBuilds`, `ResilientSettingsReachClients` from `PolicyInv`,
  for any settings in any number: a config that was loaded passed the rules of
  both policies and has, field by field, what was written. That the stages need
  no more than this is `ProviderIsNoStricter` and `RulesOfParts`, the comparison
  of the copies of the rules. `ResilientSourcesAgree` rests on the same and on
  `ProvidersRepeat`.
- `ResilientCountsCalls`, `ResilientHarmlessNeverTrips` from `CircuitInv`, for
  any policy: the circuit is untouched until the client is in use, being asked or
  growing older never changes a closed circuit, and a record adds one exactly
  when the classifier counts the result. `ClassifierSplits` compares the
  classifier with the documents' list.
- `BuilderLastWordCounts`, `BuilderPlaintextIsAllowed`,
  `BuilderIdentityNeedsTls`, `BuilderPoolIsServed` from `BuilderInv`, for any
  number of methods. Its core is `Words`: each option is as the last call that
  speaks of it left it, *and there is a last one*. With it go the encodings
  accepted, which only grow (`Accepting`), what is said of plaintext, which is
  one thing (`OneWord`), and the endpoint, which is implicit until a call names
  one (`Implicit`): the balancer's check reads the flag, the property the
  history. `Checked` carries what `build` looked at to the client.
- `HeadersOneCredential`, `HeadersIdentityIsSent`, `HeadersTokenIsFresh` from
  `HeadersInv`, for a chain of any length and order, any identity and any number
  of attempts. `Composed` says that the metadata is the caller's headers and,
  under other keys, all of the identity's; `MadeFromMetadata` that what an
  attempt sends is a run of the chain from that metadata at some instant.
- `CodecDecodesWholeFields`, `CodecRoundTrip` from `CodecInv`, for any sequence of
  fields cut anywhere, every i32 and every name. While decoding, the
  offset is at the end of some field, all fields up to there are valid, and the
  value is what they mean (`Reached`). The lemmas are about one field: a whole one is
  read to its end with its meaning (`FieldIsRead`), a broken one and a cut one
  are refused (`BrokenIsRefused`, `CutIsRefused`); and about writing:
  `VarintIsWritten`, `SignExtends`, `StatusIsEncoded`, `NameIsEncoded`.

The last two are inductions over the length of a chain or a payload. The
library's induction theorems have an operator for a parameter, which the provers
cannot instantiate, so `SetInduction` states induction up to a bound for a *set*
of numbers. It is proved by counting: were numbers missing from the set, taking
one from each would be an injection from a finite set into itself that misses
the largest. Loops are recursive functions with a bounded domain, and that each
exists is proved the same way.

`EndpointsAssumption` says that backends are numbered and callers finitely many,
`EngineAssumption` which codes the engine gives to a call that was lost, answered
with an error or not sent,
`CancellationAssumption` that those bound are callers,
`ResiliencePolicyAssumption` that a count is given a natural number,
`ClientBuilderAssumption` that a timeout is one, `HeadersAssumption` that
headers, chains and settings have their types, and `HealthCodecAssumption` what
is on the wire (see above).

Only model-checked. `RecoveryAdmits` and `SignalEndsWaits`: liveness under
fairness is out of the prover's reach. Every other property of a passing run is
a theorem. The type invariants of `Lifecycle` and of `Cancellation` are theorems
only.

## Plan

Every part of the library is modelled, and every invariant and action property
of the passing runs is proved. What could be added is that any bytes at all are a
beginning of `WireField`s and at most one `BrokenField`.
`CodecDecodesWholeFields` is about all such payloads; that there are no others
follows from reading the grammar and is not itself a theorem.

## Not modelled

The gRPC engine (`proto-svc`), the load balancer, the breaker's state machine,
the backoff scheduler and the JWT library are dependencies outside the
repository; the first gives the models their inputs, the next two are modelled
from how they are used, the length of a pause is any delay, and a signature
either can be made or not. The syntax of TOML and PEM files is a library's.
The examples, the composition root, the test support and the scripts have no
logic of the system. See `components` in `PROJECT.json`.
