# streammux in TLA+

streammux multiplexes framed, bidirectional messages over one byte stream
(`src/*.go`) and runs terminal sessions on top of it (`src/pty`). It is almost
entirely concurrent code: goroutines that share a mutex, channels that are
closed and replaced as condition variables, bounded queues, and shutdown that
may come at any point. This directory models that concurrency in TLA+, checks
it on small instances with TLC, and proves the safety of every component but
the process backends with TLAPS, for every configuration.

Run from this directory: `tlc -config PeerOutbound.cfg MCPeerOutbound`,
`tlapm PeerOutboundProofs.tla`, and so on; each `X.cfg` belongs to `MCX` or,
where there is none, to `X`, and each proof module checks from nothing in one
to five minutes. `PROJECT.json` lists every run, the source lines of every
definition, the hazards and the theorems.

## The system and its parts

    application
      pty.Protocol   one per connection: requests -> Manager, output -> Peer   Protocol
      pty.Bridge     one process of the v0.1 API on one stream                 Bridge
      pty.Manager    sessions, attachments, history, observers                 Sessions, Attachment,
                                                                               ManagerOutput (History,
                                                                               Subscription)
        ManagedProcess  a child on a pseudo terminal                           ManagedProcess: UnixProcess,
                                                                               WindowsProcess
      Peer           calls, handlers, fair outbound queues                     PeerOutbound, PeerCalls,
                                                                               PeerInbound
      Conn           one writer goroutine over a byte stream, Decoder          Conn

| Part | State | Operations | Hard behaviour |
|---|---|---|---|
| Peer outbound (`peer.go`: `send`, `schedule`, `takeLocked`, `fail`, `Close`) | per-stream queues, their round-robin order, byte and frame counters, the scheduler's class, credit and cursor | enqueue, wait for room, cancel, select, write, answer, shut down | wake-ups through `p.changed`; a stream leaves the order while the cursor points into it; shutdown against a request in flight |
| Peer calls (`Call`, `reservePending`, `abandonPending`, `resolve`) | pending entries, tombstones and their order, the id counter | reserve, fill in, send, await, abandon, resolve | late responses, tombstone eviction, ids that wrap, shutdown between two critical sections |
| Peer inbound (`Serve`, `dispatch`, `runInbound`, `RegisterHandlers`) | worker and queue per active stream, handlers | register, read, dispatch, park, handle, fail, close | a worker retiring while a frame arrives; the only reader parked by back-pressure; `Add` against `Wait` |
| Conn (`conn.go`, `codec.go`) | write queue, first error, done | `Send`, `writeLoop`, `ReadFrame`, `Close` | frames cut in the middle, a Write nobody drains, who records the error |
| Sessions (`pty/manager.go`: `Open`, `Session.run`, `Kill`, `Remove`, `Close`) | registry, admission counters, retention list, generation | reserve, start, register, reap, drain, retain, evict, remove, close | five critical sections per `Open`; exits, evictions, removals and `Close` at once |
| Attachments (`Attach`, `publish`, `finish`, `Attachment.run`) | replay, live queue, closing flags | attach, activate, publish, hand over, overflow, drain, close | replay meets live output; exit event last; a sink that blocks |
| History (`appendHistoryLocked`, `removeHistoryLocked`) | chunks and three byte counters | publish, trim one session, trim across sessions, remove | two limits and one oversized chunk |
| Observers (`Subscribe`, `emitLocked`, `Subscription.run`) | queue per observer | subscribe, emit, deliver, overflow, close | slow receivers; joining a worker nobody receives from |
| Protocol (`pty/protocol.go`) | map of attachments, the handler's place, watchers | attach, detach, kill, input, the other requests, `sink.Send`, `watchAttachment`, `Close` | an attachment that fails or is closed while it is announced; frames after a detach; closing from inside |
| Listings (`ListSnapshot`, `handleList`) | generation, cursor | snapshot, page, continue | sessions come and go between pages |
| Processes (`pty/unixpty`, `pty/windowspty`, `pty.go`) | running, killed, the open handles | start, signal, wait, close | signals against reaping; handles against `Close`; a pseudoconsole whose closing blocks |
| Bridge (`pty/bridge.go`) | context, process, terminal | `RunOutput`, `Close`, `Kill`, `Wait` | cancellation inside a read or a send; two closers |
| Input and resize of a session, frame and codec rules, sizes | see *Not modelled* | | |

## Modules

A step is one critical section of the component's mutex, or one channel
operation or blocking call outside it; this is exactly the granularity at
which the Go code can interleave. Comments in each module say which field a
variable stands for. Identities (requests, frames, workers, attachments) are
reused once nothing in the program refers to them, so they bound what is alive
at a time and not the length of a behaviour.

**PeerOutbound.** `SendBegin`, `Enqueue`, `EnqueueRefused`, `Cancel` and
`Return` are the pieces of `send`; `Scheduler` is the body of `schedule`, with
`takeLocked` as `Take` and its empty result as `Rest`; `Fail` is `fail` and
`Close`/`CloseJoin` are `Close`. A caller parked on `p.changed` is
`"blocked"`, and `signalLocked` moves every parked caller and the scheduler
on. The Conn below is external: a write succeeds or fails.
`PeerOutboundLimits` adds the property that sums over queues. `OrderedStreams` is the abstract
promise: one FIFO channel per stream.

**PeerCalls.** `Reserve`, `Fill`, `Queue`, `Abandon` and `Return` are `Call`
in its critical sections, including the second lookup of `p.pending`, which
may find nothing; the call is then `"panicked"` and holds the mutex for good.
`send` appears only through what PeerOutbound shows of it: a request is sent
later even if its caller has gone, or dropped by `fail`. Correlation ids are
`0..IDs-1`, with 0 skipped, in place of 64 bits.

**PeerInbound.** `Dispatch` under both queue policies (`policy` is chosen in
the initial state and never changes), `RunInbound` with handlers that return,
fail, panic or call the remote over the same Peer.
`OrderedHandling` is the promise: handlers of a stream run one at a time, in
order of arrival.

**Conn.** `Send`, `writeLoop`, the watcher, `ReadFrame` and `Close` over an
external stream of bounded capacity that may break between any two parts of a
frame. The channel `writes` holds up to `WriteQueue` requests, and hands one
over directly when the loop is ready (`SendTaken`). `FrameChannel` is the promise: the remote decoder gets a prefix.

**Sessions.** `Open` in its critical sections, `Session.run`, `Remove`,
retention, `Kill` and `Close` with the snapshot of sessions it waits for.
`Close` waits for the starts, then for every `Terminate` it has called
(`TerminatesReturn`), then for the grace period, kills what remains, and joins. The
process is external: it dies when killed and may exit at any time. An
attachment is here a map entry and a worker that disappear in either order.
A client of `handleList` reads pages of any size and starts again when it
is told that the generation has changed; `All` is the sorted listing its pages
are cut from.

**Attachment.** One session's output to its attachments. A chunk is its
sequence number and one byte. `OutputLog` is the promise: consecutive output,
once and in order, then one exit event.

**ManagerOutput.** What `publish` and the removal of a session do, composed
from two halves. **History** has chunks with sizes, both trimming loops one
drop at a time while the mutex is held, and the replay that `Attach` collects
from the history, a loop that is written as a recursive function. **Subscription** has `Subscribe`, `emitLocked`, the worker that feeds
the unbuffered channel, overflow, `Close` and `Manager.Close`. Appending,
trimming and emitting are one critical section: while `trim` is not `"none"`
nothing else that needs `Manager.mu` happens, and its last step emits.

**Protocol.** One connection on the stream of one session. The handler is
sequential (`PeerInbound`), so it is one program counter; every call that can
block or fail is a step. An attachment below is what `OutputLog` promises, a
send what `OrderedStreams` and shutdown promise. `Done` forgets the frames of
an attachment that has ended, which keeps the state space finite; they have
been checked in every state before.

**ManagedProcess** is the contract of `pty.ManagedProcess`. **UnixProcess**
and **WindowsProcess** are the two `managedProcess` types over
**ProcessTree**, the operating system's root process and one descendant.
Windows methods are places `pc` between critical sections, with the handles
that are open as a set. **Bridge** has `RunOutput` and the closers of a v0.1
Unix process, and two contexts: the one of `RunOutput`, which its goroutine
watches, and the one given to `Factory.Start`, which os/exec watches. **ProcessBackends** puts the three into one specification whose
behaviours pick one of them, and states their properties.

**Slices** has Go's slice deletion. Each `*Proofs` module extends the component
it is about. The `MC*` modules give sets of offers and symmetry to TLC where the constants
are more than numbers and model values. Definitions commented
`Mutant:` are plausible bugs that stand next to the definition they would
replace; each property is violated by at least one of them.

## What the runs check

| Run | Bounds | States | Shows |
|---|---|---|---|
| `outbound` | 3 sends, 2 streams, 2 classes, 2 bytes a stream, 3 bytes and 2 frames in all | 90,503 | order list, map, queues and cursor agree; every request is in one place and answered once; no lost wake-up; counters exact and limits kept; implements `OrderedStreams`; each traffic class is served while the transport makes progress; after shutdown all callers and `Close` return |
| `outbound_starved` | 3 sends, 3 streams | stops early | refuted: see below |
| `calls_safety` | 3 calls, 2 usable ids that wrap, 1 tombstone, stray responses | 990,441 | responses reach their own call; late ones are absorbed; tombstones and ids stay exact under reuse; no response channel ever blocks |
| `calls_unblocked` | 2 calls, 2 usable ids | stops early | refuted: see below |
| `inbound` | 3 frames, 3 streams of which 2 may be active, 2 workers, both policies | 100,732 | one worker per stream; implements `OrderedHandling`; nothing runs after `Close`, which returns; the parked reader resumes, except in the circular wait with a handler |
| `conn` | 3 sends, queue of 1, stream of 1 part | 270,320 | a failure is never masked; implements `FrameChannel`; cancellation releases senders and `Close`, though the remote never reads |
| `sessions` | 2 at a time, 1 retained; 3 sessions and 1 attachment, 2 and 2, or 2 and a client that lists | 604,832 | counters, retention list, ownership of processes and attachments exact; `Close` leaves nothing, and returns if every `Terminate` does; paging neither misses nor repeats a session |
| `attachment` | 1 attachment at a time, queue and history of 2, 4 chunks | 72,860 | replay and live output meet exactly; "exited" means all was handed over; implements `OutputLog`; the exit drain ends |
| `output` | 2 sessions, chunks of 1..4 bytes, limits 3 and 4, queue of 1; 4 chunks unobserved, 3 other events and 2 observers, or 2 chunks and 1 observer | 325,646 | byte counters exact, limits kept, a replay has no hole and shows when chunks are missing before it; observers see no gaps; their workers end though nobody receives |
| `protocol` | 2 attachments that overlap, 1 with replay and live output, or 1 with every kind of request | 145,247 | frames of an attachment in their order, at most one event after a detach; the map exact; closing detaches for good; a failed attachment closes the Peer; `Peer.Close` from the watcher returns |
| `protocol_close` | 1 attachment, nothing breaks | stops early | refuted: see below |
| `backends` | one process with at most one descendant, every method at any time | 53,221 | both backends implement `ManagedProcess`; no handle is used after it is closed; `Kill` ends whatever hangs, and with `Close` leaves no handle open; a canceled `RunOutput` returns, and it closes the process unless it has returned first; a `Close` or the end of the start context ends the process |

**Why the bounds are enough to be interesting.** Two streams or sessions are
the least that can disturb each other, and three requests let two wait while
one is being written. Queues and histories are small enough to be empty, full
and one too many, offers include an item that is larger than a limit, and
identifiers are few enough to be used up or to wrap round. In `outbound` the
limits that refuse a request are a stream's bytes and the frames in all; the
total of the bytes is reached but never refuses alone, and the frames of one
stream and `MaxActiveStreams` do not bind: that these limits are kept too is
what `CountersCorrect` proves.
All actions, and all their disjuncts, are taken in some run. Where one
instance of everything would be too large (`sessions`, `output`, `protocol`),
the initial state picks one of three smaller ones (`Bounds`, `Limits`), each
with enough of two things that can disturb each other. Symmetry is used
for the calls of `calls_safety` only, which checks no liveness. One
attachment suffices for `attachment` because attachments of a session meet
only in `attachments`, `awaited` and `failing`, sets whose members are treated
alike; Sessions checks what two of them can do to the counts, and Protocol
what two of them can do to the map of a connection.
`MaxOutput`, `Bounds`, `Limits` and the session ids bound the length of a
behaviour; everywhere else behaviours are unbounded.
Deadlock checking is off where the modelled system may properly stop: when a
Manager or Peer is closed, a process has ended, all ids are used, or a panicked
call holds the lock.

**Fairness.** Weak fairness says that a goroutine that can run does run. It is
never assumed of callers, of cancellation, of shutdown or of the remote. What
is assumed of code outside the component is what its contract says: a write on
a closed Conn fails; a handler and an `OutputSink.Send` "must honor" their
context (`src/README.md:55`, `:92`), so they return once it is canceled, and
until then may block for ever; a killed process dies; a pseudoconsole whose
clients are gone finishes closing; a read of a closed terminal returns; os/exec
kills when the context it was given has ended; timers fire. Nobody need call a method of a process, the remote of a
Protocol need not read, and the child need not read its input.
`QueueEmpty` of Protocol is strongly fair because a closed Peer handles a
finite number of queued frames before its worker ends.
Four properties assume more, as a hypothesis in their statement.
`ReaderResumes` (`Prompt`): that handlers return and that the remote answers,
with strong fairness, since each answer may queue behind other frames; without
that, back-pressure may rightly last for ever. `ClassServed` and
`BulkNotStarved` (`TransportProgress`): that `SendOwned` returns on an open
Peer, which it does not if the remote never reads. `CloseReturns` of Sessions
(`Prompt`): that every `Terminate` called by `Manager.Close` returns.

## Where code and its promises differ

Three runs are expected to be refuted; their counterexamples are behaviours of
the code as it stands.

1. `outbound_starved`: one round-robin cursor serves all three classes and the
   order list shrinks and grows around it. With three streams, two of which
   keep emptying and returning, the third stays behind the cursor and its bulk
   frame is never sent (`src/peer.go:689`), although a *class* is always served
   (`ClassServed`). `peer_internal_test.go:96` promises "WithoutStarvingBulk".
2. `calls_unblocked`: `Call` looks its pending entry up again in a second
   critical section; a shutdown in between has cleared the map and the nil
   entry is dereferenced with the mutex locked (`src/peer.go:297`).
3. `protocol_close`: a `Protocol.Close` between `session.Attach` and
   `Activate` closes the new attachment; `Activate` fails, `handleAttach`
   returns the error (`src/pty/protocol.go:467`), and a handler error closes
   the Peer, although the comment at `:277` says that `Close` detaches
   "without stopping their Sessions or closing the Peer".

Some smaller differences are visible in the models, without a run of their
own. An abandoned `Open` gives its place back before its process is dead
(`OpenCanceled`, then `OpenReaps`), so more than `MaxSessions` processes may
live for a while (`src/pty/manager.go:391`, against the comment at `:34`).
`Remove` waits for the workers of the attachments it finds in the map, and one
that was just closed has left the map while its worker still runs (`:1014`,
against `:486`). `finish` publishes `closed` before it records the closure, so
`Done` may close first (`:1284`, against `:1207`). Two concurrent `Resize`
calls may resize the process in one order and record their sizes in the other
(`:738`), so `Info` may show a size the terminal does not have; this one is
seen in the code only. `Manager.Close` "terminates then force-kills remaining
sessions" (`:531`), but it waits for every `Terminate` first (`:558`, `:614`),
and on Windows `Terminate` closes the pseudoconsole, which blocks as long as a
client ignores the request (`src/pty/windowspty/factory_windows.go:411`): the
kill that would end the client then never comes. When the context of
`RunOutput` ends while it is sending, it may return before its goroutine looks
at the context; the goroutine then leaves, and nobody closes the process
(`src/pty/bridge.go:73`, against the comment at `:61`).

Some properties carry their exceptions in their statement. `Correlated` holds
until a tombstone was evicted and 64-bit ids have wrapped round, and with a
remote that invents no responses; `ReaderResumes` excludes the circular wait
of a handler that calls its own Peer while the reader is parked on that
handler's queue; `PeerCloseEnds` excludes a handler that is writing input
which the child does not read, since `Session.Input` looks at its context only
between writes; `HandlesExact` allows a Unix group id to be used between the
reaping of the process and the publication of its status
(`src/pty/unixpty/factory_unix.go:229`), when it may name another group;
`ReplayHonest` lets a chunk larger than `HistoryBytes` lose its first bytes
without `Truncated` (`src/pty/manager.go:1118`), and lets the flag be false
when all of the history has been evicted, where only `NextLive` shows the gap;
`CloseReturns` of Sessions supposes that every `Terminate` returns; and
`BridgeEnds` excludes the process that `RunOutput` left behind as described
above. `KillEnds` starts from a call of `Kill` and does not say that somebody
makes it.

## What is proved

The theorems hold for every value of the constants, that is for any number of
streams, callers, sessions, attachments and frames, and for every limit. Each
proof module starts from the assumptions that its component's module names.
They say that the limits are positive or natural numbers as
`PeerConfig.withDefaults` and `ManagerConfig.validate` ensure, that the
offers have the shape of requests, that `None`, `NoSend` and the like are not
members of the sets they stand outside of, and that a bound picked in the
initial state names things that exist. Where a counter is compared with a sum,
`StreamID` and `Session` are finite. TLC evaluates the same assumptions in the
runs.

| Module | Theorem | Statement |
|---|---|---|
| `PeerOutboundProofs` | `TypeCorrect` | `Spec => []TypeOK` |
| | `OrderCorrect` | `Spec => []OrderMatchesMap` |
| | `AnswerCorrect` | `Spec => []AnsweredOnce` |
| | `WakeupCorrect` | `Spec => []NoLostWakeup` |
| | `ShutdownCorrect` | `Spec => [](NobodyForgotten /\ ShutDownIsEmpty)` |
| | `CountersCorrect` | `Spec => []CountersExact` |
| | `Refinement` | `Spec => PerStreamOrder` |
| `PeerCallsProofs` | `TypeCorrect` | `Spec => []TypeOK` |
| | `IDsNeverShared` | `Spec => []IDsExclusive` |
| | `CallsAreToldOnce` | `Spec => []ToldOnce` |
| | `ResponsesReachTheirCall` | `Spec => []Correlated` |
| | `LateResponsesAreAbsorbed` | `Spec => []LateResponseAbsorbed` |
| `PeerInboundProofs` | `StreamsHaveOneWorker` | `Spec => []OneWorkerPerStream` |
| | `FramesAreNotDuplicated` | `Spec => []FramesInOnePlace` |
| | `InboundQueuesBounded` | `Spec => []QueuesBounded` |
| | `HandlingIsOrdered` | `Spec => PerStreamHandling` |
| `ConnProofs` | `FailureIsNotMasked` | `Spec => []FailureNotMasked` |
| | `PrefixIsDelivered` | `Spec => DeliversPrefix` |
| `SessionsProofs` | `RegistryIsExact` | `Spec => []RegistryExact` |
| | `NoProcessIsOrphaned` | `Spec => []NoOrphans` |
| | `AttachmentsAreExact` | `Spec => []AttachmentsExact` |
| | `SessionIDsAreFresh` | `Spec => [][IDsFresh]_vars` |
| | `PagesAreExact` | `Spec => []PagesExact` |
| `AttachmentProofs` | `OutputIsNotLost` | `Spec => []NothingMissing` |
| | `ExitReportsAreTrue` | `Spec => []ExitedMeansComplete` |
| | `AttachmentQueuesBounded` | `Spec => []QueuesBounded` |
| | `SinksSeeTheLog` | `Spec => OrderedDelivery` |
| `ManagerOutputProofs` | `SubscriptionsHaveNoGaps` | `Spec => []NoGaps` |
| | `HistoryCountersCorrect` | `Spec => []HistoryExact` |
| | `ReplayIsComplete` | `Spec => []ReplayHonest` |
| `ProtocolProofs` | `MapIsExact` | `Spec => []MapExact` |
| | `FramesAreInOrder` | `Spec => []FramesInOrder` |

`TypeOK`, `NobodyForgotten`, `ShutDownIsEmpty`, `FramesInOnePlace`, both
`QueuesBounded` and `IDsFresh` are proved only; every other statement is also a
property of a run.

None of the properties is inductive as the runs check it. The invariants that
are, and what they add:

- **PeerOutbound**: that a queued request is unanswered needs that a caller who
  has not queued its request is the only one to hold it, and that the scheduler
  holds a request exactly while it is sending (`Allocated`). That the scheduler
  is parked only with nothing to send needs that the order list and the queues
  agree. `Inv` is the conjunction; each conjunct has its lemma, with one step
  per action, over `TakeFacts`, which says that `takeLocked` removes the head of
  some backlogged stream. The refinement maps a stream's queue to its channel
  and the request in flight to the wire. The counters are followed beside `Inv`
  as `CountersAreSums` and `WithinLimits`.
- **PeerCalls**: four layers, each proved with the ones before it: types; who
  holds which id and how far its request has come (`IDsInv`); who has been told
  (`ToldInv`); and what a response on its way says about the tables
  (`OriginInv`): as long as neither an eviction nor a stray response has
  disturbed them, a call whose response is to come has its entry or tombstone.
- **PeerInbound**: `WorkerInv` ties the place of a goroutine to what it holds;
  `FramesInOnePlace` is needed for the refinement, since a frame in two queues
  would be handled twice; `BoundInv` adds what a new worker owes.
- **Conn**: `Blame` says who may have recorded which error before and after a
  cancellation. `Paired` says that the parts in the stream are headers each
  followed by its payload, except the last; `Fresh` that an offered frame is
  nowhere else yet. The refinement appends what is decoded, in the stream, in
  the loop's hand and in `writes`.
- **Sessions**: `Lifecycle` follows one session from its `Open` to the end of
  its goroutine; `Counted` and `Listed` relate the counters and the retention
  list to it, `Shutdown` says what `Close` has ruled out at each of its places,
  and `Sinks` who owns an attachment. For the pages, `Paged` keeps a cursor
  behind the registry, and `Sortable` says that the registered ids can be put
  in order, which is shown by induction over the calls of `Open`.
- **Attachment**: `Good(a)` says that what a sink has, its replay and its queue
  are together the promised interval, except for the one chunk that an
  attachment `publish` is about to close could not take, and what may be
  reported at each place of the worker.
- **ManagerOutput**: `Served(o)` splits `NoGaps` into three runs of consecutive
  numbers, each starting where the one before ends. `HistoryInv` says that the
  chunks of a session are consecutive up to `lastSequence`, each whole or cut to
  `HistoryBytes`; `SumsInv` and `LimitsInv` follow the counters through both
  trimming loops; the replay loop is followed position by position (`Replays`,
  `Keeps`).
- **Protocol**: `MapInv` says for every place of the handler who holds the
  attachment and who will take it from the map (`Held`). `FrameInv` says of each
  attachment that its frames are the first `Position(a)` of its script, by
  position, and `OrderFromPositions` turns that into `FramesInOrder`.

*Sums and cardinalities.* `CountersExact` and `HistoryExact` compare a counter
with `SumFunction` of the community module `Functions`, a fold over the domain.
`IsSum(S, f, n)` says that the partial sums of `f` over subsets of `S` exist and
end in `n`; adding, removing or changing one element changes `n` by as much.
`SumFunctionIsSum` shows that the fold computes it, by taking a smallest finite
set where it does not: well-foundedness of strict inclusion comes from the
library's `FiniteSetTheorems`. The proofs state the facts they need of it
(`FiniteFacts`, `Counting`) as assumptions of their lemmas and discharge them
at the end, where the library is instantiated.

*Layout.* The provers' default in every proof module is Zenon (`USE Zenon`);
steps with arithmetic, sequences or records cite SMT. Steps that mix them are
split.

**Only model-checked.** All liveness (`ClassServed`, `ShutdownReleases`,
`CloseReturns`, `ReaderResumes`, `DrainEnds`, `WorkersEnd`, `CloseDetaches`,
`FailureClosesPeer`, `PeerCloseEnds`, `KillEnds`, `BridgeEnds`), since TLAPS
does not reason about fairness and `ENABLED`; and the process backends
(`HandlesExact`, `ManagedContract`), a finite system without parameters, of
which TLC visits every state.

## Not modelled

- **`Session.Input` and `Resize`**: the writes of one `Input` and the size that
  `Resize` records. Protocol has `Input` as a call that may block, and the
  backends have the handles that `Resize` and `ProcessID` use.
- **JSON payloads, authorization, error codes** of the protocol: a request is
  granted or refused. `handleOpen`, `handleInspect` and `handleResize` touch no
  state of the Protocol and are one action, `Asks`, together with every refusal.
- **Frame and header validation, codec layout, `size_codec.go`**: pure
  functions without shared state. Conn has a frame as a header and a payload.
- **Statistics and configuration**: counters and copies under the mutex, and
  defaults. Where a count decides something (limits, generation, history
  bytes) it is modelled.
- **The operating system.** Unix: a group of zombies takes a signal or refuses
  it. Windows: waiting on a Job Object succeeds at most when the job is empty,
  `TerminateJobObject` does not fail, and handles wrapped by `os.NewFile` are
  closed by `Close` alone. Command lines, environment blocks and exit codes are
  data. The v0.1 Windows process only calls the managed one; the start of the
  v0.1 Unix process and `Bridge.HandleInput`, a loop of writes, are left out.
- **Data races**: `m.closing` read without the mutex (`manager.go:408`) picks
  an error value only. `a.stopParent`, which `newAttachment` may still be
  assigning while `finish` reads it, leaves the same state whichever value is
  read: the callback it would stop is the one already running.

## Plan

1. *Frame rules.* `Header.validate` and the encoding limits as operators,
   checked against a reference over bounded headers.
2. *Session operations.* `Input` and `Resize` against exit, with the recorded
   size.
3. *Proofs* of liveness, once the prover handles fairness and `ENABLED`; first
   `ClassServed` and `ShutdownReleases`, whose invariants are already there.
