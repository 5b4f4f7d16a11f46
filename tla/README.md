# Verification of godash

godash lets a Flutter/Dart application call services written in Go.  On native
platforms the Go code is a C archive in the same process and talks to Dart
isolates through native ports; on the web it is a wasm program in a Web Worker
and talks to the page through MessagePorts and, when the page is cross-origin
isolated, a ring in shared memory.  Both carry the same protobuf envelope: a
request names a port, responses are posted to that port, and a Done message ends
them.  Methods marked `hot` bypass the envelope with packed structs, and Go can
call back into Dart.  A command line creates, generates, builds and upgrades
projects.

This directory models these parts, checks them with TLC and proves the safety of
most of them with TLAPS: the gate, the dispatcher, the ring, reverse calls, both
bridges, hot calls, a whole stream from handler to application, and what the
command line guarantees of a project.  Paths below are relative to the repository.

## Inventory

### Flow control gate (`rpc/flow.go`)

- State: one `FlowGate` per stream (`bounded`, `credits`, `closed`, `waiters`:
  one channel per sleeping producer), the registry `flowGates` and the grants
  that arrived before their gate, `pendingFlowCredits`, both under `flowMu`.
- Operations: `registerFlowGate`, `unregisterFlowGate`, `receiveFlowCredit`,
  `Acquire`, `AddCredits`, `close`.
- Interaction: `Call` registers the gate before the handler starts and
  unregisters it after the handler returned; the client grants credit with a
  request of its own, handled by a goroutine of its own; the handler's
  goroutines call `Acquire` before each item.
- Hard: a grant racing the test that precedes a sleep; channels closed outside
  the lock; grants before, during and after registration; a cancelled waiter
  whose channel is being closed; the end of the stream while producers sleep.
- Correct when: no wakeup is lost, no channel is closed twice, no credit is lost
  or invented, sleeping producers are released by credit, cancel and close.

### Request dispatcher (`rpc/rpc.go`, the `RPC` export of `cmd/godash/wiring_gen.go`, `web/web.go`)

- State: `cancels`, `inflight`, `warnedSlow` (under `mu`), the contexts of the
  requests, three goroutines per request joined by unbuffered channels
  (application handler, `Call`, exporter) and a watchdog.
- Operations: the six request kinds of `Call`; the export loop that posts each
  response and then Done; `watchSlowRPCs`.
- Hard: Cancel before, during and after the target; the ten-second deadline that
  streams drop and others keep; a port that closes under the exporter; cleanup
  racing Cancel and the watchdog.
- Correct when: the maps hold the running requests exactly, Done closes the
  books, streams outlive the deadline and nothing else does, every request but a
  stream is answered (an Init when the application's entry point returns), a Cancel
  that found its target stops it, and only a response that could not be posted
  leaves a goroutine behind.

### Shared-memory ring (`web/shared.go`, `lib/bridge/shared_ring*.dart`, `rpcStream` of `lib/bridge/bridge_web.dart`)

- State: the slots and the counter of unread frames in shared memory, the
  worker's cursor, the page's read cursor, the port's queue, the views that
  `drain` returned and the page has not parsed.
- Operations: `sharedRing.write` and its fallback to an envelope, `drain`,
  `handle`, cancellation of the stream.
- Hard: two threads, no lock, one counter; frames on two paths; views of memory
  the other side may write.
- Correct when: unread frames are never overwritten, every frame in the ring is
  covered by a signal, nothing is lost or reordered.

### Reverse calls and push (`ReverseCall`, `receiveReverseResponse`, `Push` in `rpc/rpc.go`; the reverse services and push handlers of both generators)

- State: the counter and the map of pending calls with their channels of
  capacity one; the pusher and the push port; in Dart the broadcast stream of
  pushes, the current handler and its futures.
- Operations: register, push, wait, leave; receive an answer; create, replace and
  dispose handlers; answer, fail, retry.
- Hard: an answer racing the caller's context, an answer for a call that is
  gone, replacement of the handler while pushes are under way, a call made before
  the engine is ready, an isolate that ends.
- Correct when: a caller gets its own answer at most once, no answer blocks the
  dispatcher, every call that is served returns, pushes keep their order.

### Backpressure policies (`lib/bridge/backpressure.dart`)

- State: the pending items, the paused flags of both sides, the batch timer, the
  end of the source.
- Operations: `_onData`, `_onDone`, errors, the timer, `_pump`, cancellation.
- Interaction: between the stream controller of the bridge and the loop of
  `Transport.stream`; under `block` it grants credit to the gate in Go.
- Hard: data, Done, pause, resume, cancel and the timer in any order at the
  limit of the buffer; the window of the gate depending on what was drained.
- Correct when: `block` and `batch` lose nothing, every strategy keeps the order,
  what is buffered is delivered before Done, memory is bounded, nobody waits for
  the other forever.

### Native bridge (`lib/bridge/bridge_native.dart`, `native_bytes.dart`, `dart_api/`)

- State: readiness and the fatal error, open ports, C containers allocated by Go
  and owned by whoever received them.
- Hard: initialisation failing while callers wait; a port that closes before the
  last container arrives; a stream cancelled with messages queued.
- Correct when: bytes are not read after they are freed, what is not freed is
  known, nobody waits for readiness or for the answer to a unary call for ever.

### Web bridge (`lib/bridge/bridge_web.dart`, `cmd/godash/assets/web/worker.js`, `web/web.go`)

- State: readiness, the fatal error, pending unary requests and streams, the
  worker's reports on the global port.
- Hard: a worker that fails to load, or dies before, while and after a request is
  posted; a report racing readiness; a missing key.
- Correct when: whoever waits for the worker is failed when it dies, no call
  waits for a worker known to be dead, no caller is left behind.

### Protobuf codecs (`pb/core_lite.go`, `pb/core.pb.go`, `pb/marshal_std_gen.go`, `lib/pb`)

- Three generators produce the same envelope: the reflection-based Go code of
  native builds, the hand-unrolled Go code of wasm builds, the Dart code.
- Hard: varint lengths, negative numbers, oneofs, default values, unknown fields,
  buffers sized in advance and filled from the end, messages cut short.
- Correct when: what one writes another reads as the same message, and cut
  messages are refused alike.

### Hot path (`internal/hotlayout`, `cmd/protoc-gen-go-godash`, `cmd/protoc-gen-dart-godash`, `cmd/godash/wiring_gen.go`)

- Pure: the selection of hot methods in two generators; offsets, alignment and
  size of the layout that one language writes and the other reads.
- Correct when: both sides select the same methods, fields are aligned, disjoint
  and in order, and a call carries its values both ways.

### Command line (`cmd/godash`)

- State: the project's files (protos, generated code of three kinds, main and
  handlers, linker manifest, web assets, platform directories, libraries, apps),
  its git state, the checkout of a path dependency.
- Operations: `new`, `prepare`, `proto`, `web`, the app builds, `lib`, `clean`,
  `reset`, `upgrade`, each a sequence of steps in Go or in a shell script.
- Hard: a step that fails in the middle, an interruption, a retry of what was
  half done, edits of the developer between commands and while one runs.
- Correct when: a command that succeeds leaves a consistent project whatever came
  before it, `new` leaves all or nothing, the developer's work is kept.

### Other parts

`transport.dart` wraps the bridges.  `fetch` and the sqlite drivers adapt
platform libraries, the wasm test runner drives a browser.  `PROJECT.json` gives
the status of every part and lists the hazards at their lines.

## Modules

| module | what it is |
| --- | --- |
| `FlowGate` | the gate of one stream with its producers, granters and dispatcher |
| `CreditWindow` | what the gate promises: free items before the first grant, then one granted credit per item |
| `MCFlowGate`, `FlowGateProofs` | constants for TLC; types, inductive invariant, safety, refinement of `CreditWindow` |
| `Sums` | totals of functions over finite sets, for the accounts of credit in `FlowGateProofs` and `BlockStreamProofs` |
| `SharedRing` | the worker, the ring, the port and the page for one stream |
| `SharedRingProofs` | the invariant of the ring, that of ring and port together, and what they say of the frames |
| `RpcDispatch`, `MCRpcDispatch` | requests of all kinds with their goroutines, the client and the watchdog; mixes of requests for TLC |
| `RpcDispatchProofs` | its safety for any set of requests |
| `ReverseCall`, `MCReverseCall` | calls and pushes from Go to Dart; two scenarios for TLC |
| `ReverseCallProofs` | its safety for any callers, handlers and notes |
| `Backpressure` | the transformer of one stream between the bridge's controller and the application's loop |
| `BlockStream` | extends `Backpressure` with the handler, its gate as `CreditWindow` promises it, the port and the grants |
| `BlockStreamProofs` | its safety for any window, batch and length, under the four strategies |
| `BridgeCalls` | what the two clients have in common: the kinds of requests, and when a call is over |
| `NativeBridge`, `WebBridge`, `MCBridges` | the two clients; one run for both |
| `BridgeProofs` | their safety for any set of calls, each alone and as the run composes them; the exactness of hot calls |
| `Wire`, `CoreTables`, `CoreLite` | the protobuf wire format and table-driven codecs; the tables of the Go and Dart messages; the unrolled codec of wasm builds |
| `Envelope` | one message of the envelope from its writer to its reader |
| `HotLayout`, `HotCall` | the packed layout; one hot call there and back |
| `MCCodecs` | messages for `Envelope` and `HotCall` |
| `Project`, `MCProject` | the CLI's commands on a project |
| `ProjectProofs` | what they guarantee, for any platforms, protos and history of commands |

Composition: `BlockStream` uses the abstract `CreditWindow` in the place of
`FlowGate`, which `FlowGate` is shown, and proved, to implement; so the bound on
the client's buffers is a property of the real gate and the real transformer
together.  `MCBridges` and `MCCodecs` put alternatives into one run.

### FlowGate

One critical section is one action, and what the code does after the `Unlock` is
another: `ReceiveCredit` looks the gate up under `flowMu`, `GrantToGate` is
`AddCredits` on the gate it found, `Wake` closes one of the channels that were
swapped out of the list.  `Acquire` has one action per way out of its critical
section, then a `select`: `Recheck` when the channel was closed,
`ChooseContext` when the context is done, and either when both are ready.
`Leave` is the second critical section of the cancelled waiter.  A channel is
identified with the producer that made it: a producer makes a new one only after
the previous one was closed and received, or after it left.

Ports are never reused by the clients (native ports are unique in the process,
the web bridge counts), so the model has one stream, one port and one gate; the
test `flowGates[port] == g` of `unregisterFlowGate` is then always true.  The
decoding of the 12-byte payload is the choice of an amount.  Grants of zero or
less are ignored by the code and would be stuttering steps.  `granted`, `added`,
`taken` and `passes` are history variables.

### SharedRing

`Send`/`SendDone` cover the choice between the ring and an envelope, made when
the counter is loaded; `BeginWrite` marks the slot as not whole, `Publish` is the
`Atomics.add` with the move of the cursor, `PostSignal` the message on the port.
On the page `OnSignal` loads the counter, `ReadSlot` takes one frame and gives
the slot back, and `ParseView` reads the bytes *as they are then*, since
`readBytes` returns a view of the shared memory.  The worker runs between any two
of these.  What an overwritten view reads as is a choice: the other frame, a
garbled message, or an exception that ends the batch (`ParseFails`).  Frames are
numbers in the order they were sent.  `overlapped` is a history variable: it
records that a slot was overwritten under a view, and separates what holds
regardless from what holds as long as that does not happen.

A frame that carries an error is logged by `handle` and not added to the
controller; the model counts it as delivered, since its place in the sequence is
what matters.  The choice of the sink by the message descriptor is left out: a
stream that does not use the ring is a stream of envelopes only.

### RpcDispatch

A request has an exporter, a `Call` goroutine and, for RPC requests, a handler.
Sends on the unbuffered channels are rendezvous: `Forward` (handler to `Call`)
and `Deliver` (`Call` to exporter).  `Register`, `HandleCancel` and `Cleanup`
are the critical sections under `mu`; `PostResponse` is a post that fails on a
closed port and leaves the loop, as `break` does in the export; `PostDone` is
what follows the loop whatever ended it.  `Deadline` is the expiry of
`context.WithTimeout`, or the deferred `cancel`.  `Init` calls the application's
entry point, without a context, before it answers (`RunEntryPoint`); when that
returns (`EntryPointReturns`), there is no response or one that carries its error,
and nothing says that it does return.  Errors that `Call` itself sends, since no
handler or entry point is set or the request is of no known kind, are
`ReplyError`; the error responses a handler produces are responses.  The
application handler is external: it sends up to `MaxItems` responses and returns
when it likes.  Left out are the failures to marshal an
envelope, which log and skip, and requests that cannot be unmarshalled, which
neither client builds and which never reach `Call`.  On the web a post on a
closed port is dropped instead of failing; the model has the native exporter,
whose early exit is the harder case.

### ReverseCall

`Register`, `PushSucceeds`/`PushFails`, `TakeAnswer`, `ChooseContext` and `Leave`
are `rpc.ReverseCall` between its critical sections; `Receive` and `SendAnswer`
are `receiveReverseResponse`, which looks up under the lock and sends outside.
A call is made by a goroutine of the application or, for `EntryCalls`, by the
entry point while `Init` is handled.  On the Dart side one event-loop callback is
one action: `OnPush` hands a push to every subscribed listener (a broadcast
stream keeps nothing for nobody), `Dispatch` starts the future of the generated
handler, `NewHandler` disposes the one before it, `WaitReadyTimesOut` covers both
attempts of the `catchError` chain.  `pusher` and the push port are read without
the lock that protects their writes; the model reads either value.  Payloads are
the identity of the call they answer, or empty.

### Backpressure and BlockStream

The two subscriptions of dart:async are modelled by what the code relies on: they
hold their events while paused, deliver one per turn, and report `isPaused` until
the queue has been emptied after a resume, when `onResume` (`_pump`) runs.
`FromSource` is `_onData`, `_onDone` or `onError`; `TimerFires` the batch timer;
`Consume`, `Resume`, `EndOfStream` and `Cancel` the loop of `Transport.stream`.
Messages from the port arrive only when no microtask is left (`Quiet`).  A batch
is delivered as its items.

`BlockStream` adds the handler that acquires a credit per item, the grants, each
in a request of its own and so in any order, the port (one message, or as many as
a signal drains), and the death of a web worker, which fails the stream.

### NativeBridge, WebBridge

`BridgeCalls` declares the requests of both and assumes that a call has one
request, and a stream one Cancel of its own.  Per request: the call on the Dart side, its port, and the goroutine or worker
that answers.  `Send` is the part shared by `rpc` and `rpcStream`; `OnUnary` and
`OnStream` are the listeners of the two kinds of port.  In `NativeBridge` each
message is a container that is queued, freed or lost.  Done is never the first
message of a unary port: left out is the request whose ten seconds are over before
`Call` has begun, which returns a closed channel (`rpc.go:175`).  In `WebBridge` the worker
loads, runs and dies, with a report on the global port, with two (`worker.js`
reports a script that failed, and goes on), or with an error event only.  Pages
run microtasks before events (`MicrotaskQueued`): the future that `Init`
completes makes the bridge ready before another message is handled.  `MarkFatal`
is `_markFatal` with everything it completes.

### Wire, CoreTables, CoreLite, Envelope

`Wire` has varints, tags and skipping of unknown fields on sequences of bytes,
and an encoder and decoder driven by a table, for the code that is itself driven
by descriptors.  `CoreTables` has the tables of the Go and the Dart messages,
each from its own file.  `CoreLite` has one operator per method of
`core_lite.go`, written the way the method works: `SizeVT` computed on its own,
`MarshalToSizedBufferVT` filling a buffer of that size from the end and panicking
when it is short, `UnmarshalVT` deciding per field number and wire type.
`Envelope` has one message written by one side and read by the other.  Integers
are of 32 bits (TLC's), groups do not occur, and `CloneVT` is left out, since
nothing calls it.

### HotLayout, HotCall

`Compute` is `hotlayout.Compute`: the fields in the order of their numbers
(`ByNumber`) and the offset behind each (`Ends`, the loop).  The selection
of hot methods is modelled twice, from both generators.  `HotCall` packs a
request on the Dart side, unpacks it in the export, lets a handler answer or
fail, packs the response into the caller's buffer and unpacks it; a byte
remembers which field, value and position it is, so that a byte read by the wrong
field or in the wrong place is seen.  The generated Dart must compile first:
`ClientCompiles` compares the type of each field in the Dart class with the one that
`dartAccessor`'s method takes and returns.  They differ for 64-bit integers (see
Findings), whose methods have no client, and so no call (`HotInit`); 8-byte fields
are there as `double`.

### Project

A command is a list of steps, `Hard` (the command stops when it fails: Go code, or
the last command of a script) or `Soft` (a command in the middle of a script: the
scripts have no `set -e`, so the next one runs).  The definitions `Prepare`,
`WebBuild`, `Upgrade`, `New` and so on are these lists, each step is one action.
Generated code is identified with the protos it was generated from, which are
identified with their hot methods; a manifest with the symbols it keeps.  Any step
may fail (`StepFails`), any command may be interrupted, the developer edits and
commits.  Tools (protoc, flutter, go, git) are modelled by what the steps need of
them.  A library is made by two steps, `go build` and the copy of what it wrote
(`cp` or xcodebuild), so the copy may take an older `archive` when the compiler
failed.  A step that fails or is cut short leaves the files as they were or, where a
later step would look at it, a part of its work (`PartlyDone`): a half-made
directory of `flutter create`, which the test `[ ! -d p ]` then skips, or no
framework where the script removed the old one.  `TypeOK` names every step and
command there is, and what each file can hold.

## Checks

Every run switches TLC's deadlock check off: streams, requests and commands end,
and the bounds stop the rest.  Liveness is stated as properties instead.

| run | bounds | what it shows |
| --- | --- | --- |
| `flow_gate` | 2 producers, 2 granters, amounts 1 and 2, `MaxGranted` 3, `MaxItems` 4 | all safety of the gate, the inductive invariant, refinement of `CreditWindow`, and that sleepers are released by credit, cancel and close |
| `shared_ring` | 2 slots, 5 frames and Done | unread frames are protected, the inductive invariant of ring and port; only an envelope is ever overtaken or lost, unless a view was overwritten; the ring drains, the stream ends |
| `dispatch` | a stream and its Cancel, or a unary call and a control request, or an Init; 2 items | the registry, the completeness of Done, the life of a stream beyond its deadline, the effect of a Cancel that found its target, an answer for every other request unless an Init waits for its entry point, at most one report per hang, and that a goroutine stays behind only where a post failed |
| `reverse_calls` | an entry-point call and another, 2 handlers, or 3 notes; native | a caller gets its own answer, once; abandoned calls leave nothing behind; pushes stay in order; a served call returns; an entry-point call is never answered |
| `block_stream` | buffer and batch of 2, 6 items, the four strategies | the inductive invariant of the whole path, with order and losslessness (`StreamIntact`) and the account of credits; Done after the items, the bound of the client's buffers, and that the stream ends |
| `bridges` | one unary call, one stream with 2 items and its Cancel, Init; native or web | outcomes, freed containers, exact pending sets, and that no caller is left behind: not by an Init that fails or never returns, nor by a worker that dies |
| `codecs` | integers 0, 1, 300, -1 and those where a varint grows; texts of 0, 2, 127, 128 and 256 bytes; with and without an unknown field; messages of at most 3 fields in every order of numbers | codecs interoperate, cut messages are refused, hot calls of clients that compile are exact |
| `cli` | 2 platforms, protos without or with one hot method, 3 commands, 1 accident, 2 edits | what a command without a failed step guarantees, all or nothing of `new`, the developer's work |
| `late_credit` | as `flow_gate`, `MaxItems` 2 | a grant that arrives after the stream ended stays in `pendingFlowCredits` |
| `ring_reorder` | 2 slots, 4 frames | a signal drains frames past an envelope still queued |
| `ring_view` | 2 slots, 4 frames | a view is overwritten before it is parsed |
| `lost_cancel` | a stream and its Cancel, 1 item | a Cancel dispatched before its target registered is dropped |

Why the bounds are enough.  Two producers and two granters are the least that
let two waiters sleep, two swaps overlap and one waiter leave while another's
channel is closed; `MaxGranted` 3 lets a grant of two wake two producers and a
second grant follow, and makes a buffered grant meet a direct one.  Two slots
make the ring wrap, fill and fall back; five frames go around it more than
twice with an envelope in between.  Requests interact only through a Cancel and
its target and through the set the watchdog scans, so one pair of each kind
covers the interactions; two items let a response be in flight while another is
waiting.  Two reverse calls are the least in which an answer could reach the wrong
caller, two handlers the least in which one replaces the other with a push
queued; three notes can be reordered around a lost one.  Six items are three
times the buffer: a full window, grants of one and of two that overtake each
other, and a batch that only its timer completes.  The bridges' requests are independent but for readiness
and the fatal state, so one of each kind suffices.  Field numbers of the envelope
are below 16, so tags are one byte; the integers and lengths include the values
before and after one more byte, and the negative ones, which take ten.  Three
fields of sizes 1, 4 and 8 in every order have padding between fields and at the
end.  Three commands and one accident are a command that fails, one that leaves
something else, and the retry.

### Findings

The four violation runs are listed in `PROJECT.json` with the sentence of the
code or the documentation that each contradicts.  In short:

- `pendingFlowCredits` also collects grants of streams that have ended, and keeps them.
- The mixed framing of the ring does reorder: `drain` takes every published frame,
  also those sent after an envelope that is still queued; when Done is among them
  the envelope is lost.
- `readBytes` does not copy, so a drained frame can be overwritten before it is parsed.
- A Cancel can be handled before its target has registered, and then has no effect.

`SharedRing` states the properties that remain true beside the second and third:
`OnlyFallbacksOvertaken`, `LossOnlyOfFallbacks`, `StreamEnds`.

Met while modelling, and built into the models as the code has them, so that the
passing properties are exact about them:

- Dispatcher: a response that cannot be posted makes the exporter leave its loop
  while `Call` still sends to it (`wiring_gen.go:544`): the goroutine and its entries
  in `cancels` and `inflight` stay for the life of the process.
  `StrandedByLostResponse` says that nothing else strands a request.
- Reverse calls: a call made by the entry point waits for an answer that waits
  for the engine to be ready, which waits for the entry point
  (`EntryCallUnanswered`; `rpc/rpc.go:245`).  A handler that fails answers with
  no bytes, which decode as the default message.
- Backpressure: `block` with `bufferSize` 0 pauses the source at its first item
  and nothing resumes it (`backpressure.dart:159`); `BlockStream` assumes a
  positive size.  Errors overtake pending items.  Items sent before the first
  grant enlarge the window (`free` in `ClientBounded`).
- Native bridge: the branch that marks the bridge fatal after a failed Init is
  dead, since an error response completes `rpc` with an error
  (`bridge_native.dart:133`), so callers wait for their whole timeout although the
  comment at line 80 says otherwise.  The Done of a unary call is never freed
  (`OnlyLateDoneLost`).  `onCancel` also runs after Done and sends a Cancel that
  finds nothing.
- Codecs: `EqualVT` takes a missing oneof message for an empty one.  A hot method
  with a 64-bit integer generates Dart that does not compile: the class of the
  message has `Int64` where `ByteData.setInt64` takes, and `getInt64` returns, an
  `int` (`protoc-gen-dart-godash/main.go:439` and 453), although `README.md:233`
  of the repository lists `int64` and `uint64` as eligible.  `HotCallExact` is about
  the clients that compile.
- Command line:
  - A failed command in the middle of a script goes unreported (`shell.go:14`).
    With no generated code the wiring is that of no services, and a stale library
    may be bundled (`build.go:126`).
  - `godash proto` does not set `GODASH_MODULE_DIR`, which hot protos need, after
    it removed the generated code (`generate.go:14`).
  - `lib`, and the last step of `new`, copy the plugin again and leave its linker
    manifest unpatched (`build.go:212`); that of a path dependency is never
    patched (`wiring_gen.go:271`), so `SoundRunRepairs` has that premise.
  - A failure of `flutter create`, or in the block after it, leaves a platform that
    later runs skip, half made or unpatched (`build_scripts.go:365`), though the
    help calls `prepare` safe to re-run; a failed checkout leaves a clone that later runs accept
    (`provision.go:78`).  `WholeOrNothing` says these need an accident.
  - `upgrade` looks at the working tree only when it starts, so its commit takes
    edits made meanwhile (`upgrade.go:120`); when it fails, the changed `go.mod`
    makes it refuse the retry, as does a web build, which stamps the tracked
    `web/worker.js` (`build_scripts.go:295`).
  - After `reset`, the assets make `web/` exist, so `flutter create` skips it
    (`prepare.go:18`); bundle id and name are not applied again.
  - A failure of the template step of `new` leaves the directory (`scaffold.go:71`),
    and an interruption of a later step leaves one that looks like a project, since
    only errors are cleaned up after (`scaffold.go:67`).  No property excludes the
    latter; the commands that follow run on it.
  - The library of a failed `go build` is the one before: the script copies it
    all the same, and `godash lib` then succeeds (`build_scripts.go:199`).

### Fairness

Weak fairness of a goroutine's next step is Go's scheduling of runnable
goroutines; of the page's and the isolate's actions it is the event loop; of
`Deadline` it is a timer that fires.  Nothing is assumed of the client: it need
not grant, cancel or close.

- `FlowGate`: closing, waking and the select; none for `Acquire`, registration and
  the end of the handler.
- `SharedRing`: a write that has begun, and the page; none for the handler.
- `RpcDispatch`: nothing is assumed of the application's handler except that it
  returns when its context is done, the contract of a Go context, on which `Call`
  depends to end a request; and nothing of the entry point, which gets no context
  and may not return (`EntryCallUnanswered` shows a way).
- `ReverseCall`: the engine's start once begun, the return of a call whose answer
  or context is there, the futures of the handlers.  Contexts need not end and
  handlers need not be created.
- `BlockStream`: the handler sends or returns when it may, messages and grants
  arrive, microtasks and timers run, and the application comes back for the next
  item.  The last is what `StreamTerminates` is about: a listener that reads on.
- `NativeBridge`: start, timeouts, listeners, and that Go answers unary calls and
  Cancels, which is `RequestsAnswered` of `RpcDispatch`.  A stream may stay open
  (`rpc.go:183`: long-lived by design) and Init may wait for its entry point.
- `WebBridge`: the page's events, and that a running worker answers unary calls and
  Cancels; the worker need not start, and may die.
- `Project`, `Envelope` and `HotCall` have only safety properties.

## Proofs

Nine components are proved safe for every value of their constants.  Each proof
module has lemmas, one per action, which show that the action preserves the
inductive invariant of its component conjunct by conjunct, a theorem
`Invariance`, and one theorem per property that follows from it.  The invariant
is called `IInv`, and TLC checks it in the component's run (those of the two
bridges as `PendingExact` of `MCBridges`).  That of `Project` is stated with its
proof, in `ProjectProofs`; TLC found no violation of it on the instance of the run
`cli`, but it is not one of the run's properties.  That of hot calls (`HotInv`) is
stated with its proof as well, and is little more than the property.

What the constants are assumed to be is stated in the modules and checked by TLC
in every run:

- requests of different kinds are different, a Cancel names a call
  (`RpcDispatchAssumption`); on the client, each call has a request of its own and
  each stream a Cancel of its own (`RequestsDistinct`): in the code each opens
  its own port;
- callers are finitely many and not named like the words that stand for results
  (`ReverseCallAssumption`), which is about the model's encoding;
- granters are finitely many and amounts positive (`FlowGateAssumption`): the
  code ignores others;
- no two fields of a message of a hot method have the same number
  (`MethodsAssumption`), which protoc refuses;
- the ring has a slot; `bufferSize` and the batch size are positive
  (`BackpressureAssumption`; zero is the hazard listed at `backpressure.dart:159`);
- platforms are finitely many, those of Apple among them, and no set of hot methods
  is one of the two contents that stand for a missing file and for an empty
  manifest (`ProjectAssumption`), which is about the model's encoding.

The bounds `MaxItems`, `MaxFrames`, `MaxGranted` and `MaxNotes` are any natural
number, so each theorem holds of behaviours of any length.

### `FlowGateProofs`

- `TypeCorrect`: types, hence `credits` never negative.  Types are inductive.
- `Invariance`.  `NoLostWakeup` is not inductive by itself.  That a sleeper stays
  reachable across a swap needs to know that the actor's own list of swapped-out
  channels was empty (`OneSwapAtATime`), and that a channel is closed once needs
  to know who can hold the channel of a producer in each state
  (`ChannelOwners`).
- `NoLostWakeupHolds` and `ClosedOnceHolds` follow from it.
- `NoCreditLostHolds`: what was granted is buffered, in a granter's hands, in the
  gate or used.  It needs `BufferedOnce` (grants that were buffered are applied at
  most once), and that a total changes by as much as one of its values
  (`TotalChanges` of `Sums`).
- `WindowImplemented`: the gate implements `CreditWindow`.  The step that needs
  the invariant is `Use`, which takes a credit that was received and not yet used
  (`CreditAccount`).

### `Sums`

`MapThenSumSet` is recursive, and the induction theorems of the library cannot be
used here, so the induction is an argument about a smallest subset for which the
statement fails; it exists because the strict subsets of a finite set are
well-founded.  `SumsAgree` shows in this way that the recursion has one solution,
and the rest follows from the equation it satisfies.

### `RpcDispatchProofs`

`RegistryExact` is inductive beside the types.  `DoneIsComplete` needs two more
conjuncts: how the three goroutines of a request stand to each other
(`GoroutinesAligned`: `Call` outlives its handler, the exporter ranges over the
channel of a `Call` that began) and where a response is that the handler has sent
and the exporter has not posted (`ResponsesAccounted`), which holds until a post
fails.  `StreamKeepsContext` needs `CancelledBy`: a cancelled context has a Cancel
past its lookup, or its own `Call` past its cleanup.  `ReportedOnce` needs that a
report outlives its mark only when the request is at its end (`ReportsMarked`).
`StrandedHolds` follows from the accounts of responses: an exporter that is past its
loop while its `Call` is not closed has lost one.

### `ReverseCallProofs`

A caller gets its own answer because a port is given out once (`PortsGivenOut`),
a push that carries a port is of the call that has it (`PushesNameCalls`), and a
future answers the call it was started for (`AnswersOwnCall`).  At most once,
because a push is at one place (`OneCopy`), which in turn needs that at most one
handler listens, the current one (`CurrentListens`): `NewHandler` disposes the
one before it while pushes are queued.  `EntryCallUnanswered` needs the order of
the start (`ReadyAfterEntry`).  `NotesInOrder` needs that what is on its way to
the listener follows what it has seen, without a gap (`NotesFollow`).

### `SharedRingProofs`

- `RingInvariance`, `TypeCorrect`, `UnreadProtectedHolds` are about the ring
  alone.  The writer is at most one lap ahead of the reader, so `%` wraps at most
  once (lemma `Wraps`), different unread positions are different slots
  (`PositionsDiffer`) and moving either cursor shifts the positions by one
  (`PositionShifts`).  The protection of unread frames needs that a write in
  progress had room when it began (`LatestInSlot`), which no later step of the
  page can take away, and that frames are numbered below `next`
  (`FramesNumbered`).
- `Invariance` adds the port.  As long as no slot was overwritten under a view,
  the ring is read in the order it was written (`RingInOrder`), envelopes travel
  in order among themselves (`EnvelopesInOrder`), the signal of a frame in the
  ring is on the port ahead of every later envelope (`Signalled`), and every
  frame sent is somewhere (`NothingLost`).  `OnlyFallbacksOvertakenHolds` uses the
  first three: an envelope cannot overtake a frame whose signal is ahead of it.
  `LossOnlyOfFallbacksHolds` uses the last, at the delivery of Done.

### `BridgeProofs`

- Native: the containers of a stream are freed from the front (`Listened`), and
  that of any other call at its first message, when it leaves the port; Done is
  the last message, and of a unary call never the first (`DoneIsLast`).  Hence
  `OutcomeIsFirstHolds` and `OnlyLateDoneLostHolds`.  `NeverFatalHolds` proves that the branch after a failed `Init` is dead code.
- Web (names with `Web!`): `PendingExactHolds` is inductive once it is known that
  the worker starts the page once (`StartedOnce`), although it may report twice and
  die at any time, and that nothing goes out before the page is ready (`Phases`).
  `WebOutcomesFinalHolds` follows from the exact sets: `_markFatal` fails what is in
  them, which is what has not ended.
- Both: which bridge an application loads never changes, so that each step of
  `MCSpec` is a step of that bridge and leaves the other alone (`OneOfTwo`).
  `BothInvariant` is therefore what the run `bridges` checks, for any set of calls,
  from the steps shown for each bridge.
- Hot calls, for messages of any number of fields.  Fields of different numbers can
  be put in their order (`OrderExists`: the place of a field is how many numbers
  are not above its own) and the order has each once (`ByNumberFacts`).  The loop
  over the fields has one offset for each (`EndsExist`, by a smallest number of
  fields for which it had none), so that the layout is that of a C struct
  (`ComputeCStruct`), its fields do not overlap and lie within the buffer
  (`Disjoint`), and what is packed is read back (`PackedKept`).
  `HotCallExactHolds` follows by way of what is in the two buffers between writer
  and reader (`HotInvariance`).

### `BlockStreamProofs`

The proof looks at the *line*: what the application has got, followed by all that
is in flight (transformer, controllers, port, wire).  A step appends to the line,
cuts its end off (the worker dies), moves the borders between its parts, or is
one of two exceptions: a strategy that drops, and the Error that overtakes.  One
lemma for each says what becomes of the line, and order, ends and numbers follow
from that, instead of from the six queues.

- `Invariance`.  `StreamIntact` needs that under the strategies that lose nothing
  the line has no gap (`NoGap`): then the head of the line is the number after the
  last consumed, and what a death cuts off is an end.  That a queue is refilled
  only when it is empty needs that what is held is held by a pause
  (`HeldWhilePaused`) and a bound of what a pump moved (`OutBounded`).
- `StreamIntactHolds` and `DoneAfterItemsHolds` follow from the line.
- `ClientBoundedHolds`: under `block` the client holds at most two windows and
  what passed before the first grant.  It follows from `CreditAccount`: what the
  gate received and what is under way to it make one window and what was drained,
  so that late and reordered grants never add up to more.  The grants under way
  are a total over amounts, again by `Sums`.  Here the gate is `CreditWindow`, so
  with `WindowImplemented` the bound holds of the gate of `flow.go`.

### `ProjectProofs`

A command may run after any other has failed anywhere, so nothing can be said of
the files it finds.  What can be said is about the steps it still has to do.

- The lists.  Steps are laid out in an order that what is left of a list keeps
  (`Laid`, `LaidTail`): the code that `rm go/pb` takes away is generated behind it
  (`Followed`), no step that changes the manifest's symbols comes after the step
  that reads them and, in an app build, none that writes what `go build` or the copy
  of the library reads comes after these (`Behind`), a clone is followed at once by
  its checkout (`Paired`), and `upgrade` commits at its end (`Ends`).  A whole list
  also has a step for everything the command promises (`Complete`).  No proof looks
  at a list otherwise.  The lists are shown to be so from what concatenation does to
  each of these (`HasCat`, `FollowedCat` and so on); the steps of `flutter create`,
  one block per platform in an order that is left open, by a smallest
  counterexample.
- `Changes` and `Stepped` say what each step does to each file, once, so that the
  lemmas on preservation go through the files and not through the steps.
- `Invariance`.  `SoundRunRepairs` speaks of the end of a command and
  `WholeOrNothing` of the time between commands; neither is inductive.  `IInv`
  says of every moment: as long as no step failed, an artefact is right when no
  step that makes it is ahead (`Generated`, `Patched`, `Created`, `Built`).
  Before the first step everything is ahead; at the end nothing is.  `Committed`
  says the same of the commit, which follows all that changes tracked files, and
  `HalfDone` that, without an accident, a half-made platform or checkout is what
  the next step completes.
- `SoundRunRepairsHolds`, `WholeOrNothingHolds` follow.  `UserWorkKeptHolds` is
  about steps: only a template, where there is no project, writes over an
  entrypoint, and `upgrade` commits what was not committed only if it appeared
  while it ran: it started on committed files (`Committed`) and commits last.

### Model-checked only

- All liveness, which is out of the prover's reach: `SleeperWakes`,
  `CancelReleases`, `CloseReleases`, `RingDrains`, `StreamEnds`, `CancelStops`,
  `RequestsAnswered`, `ServedCallReturns`, `StreamTerminates`, `CallersReturn`.
- `Wire`, `CoreLite` and `Envelope` (`Interoperates`, `CutRefused`): what a
  recursive codec computes for every input needs induction over data, and their
  RECURSIVE operators are out of the prover's reach.

## Not modelled, and why

- Codecs: 64-bit integers beyond 32 bits, groups, JSON and reflection, `CloneVT`,
  which nothing calls.
- The generators' text: names, imports, formatting.  Logging and wording.
- Command line: `doctor` and `version` change nothing; the `run` commands are
  builds followed by a tool; downloads of sqlite, licence files and version
  stamps of the app decide nothing else.
- `fetch` and the sqlite drivers are thin adapters of the browser's and database
  interfaces, the wasm test runner drives a browser; neither keeps state of the
  system.
- Templates, examples and benchmarks.

## Plan

What remains is proof: a common abstract specification of the two bridges, in which a
call that was posted ends at most once, and a proof that the steps of both map to
its steps.
