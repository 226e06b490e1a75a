# GhostView: specifications, model checking and proofs

GhostView shares a screen: a host opens a session at a signaling server and gets a
six-digit PIN, a viewer joins with the PIN, the server relays the WebRTC handshake
between the two, and media then flows between them directly. This directory models the
parts of it that keep state and can get their order wrong.

## 1. Inventory

| Component | State | Operations | Hard behaviour | What makes it correct |
|---|---|---|---|---|
| Session registry (`server/session-manager.js`) | `sessions` PIN -> session, `hostToPin` ws -> PIN | create, join, relay, disconnect, `_cleanup` | two maps that must agree; three events end a socket; expiry found in two places | sessions go with their sockets, survivors are told, a PIN is used once |
| Signaling server (`server/server.js`) | per socket: misses, pong mark; `shuttingDown` | connection, message, pong, close, error, keepalive timer, shutdown | frames after `close()`, silent peers, shutdown amid requests | lockout holds, silent peers release their session, nobody gets in during shutdown |
| Rate limiter (`server/server.js`) | per kind and IP: count, start of window | check, sweep | window ends; records swept | the sweep is invisible; a bound on what gets through |
| Host signaling loop (`session.rs`, `signaling.rs`, `webrtc_host.rs`) | candidate buffer, two flags, four channels, peer connection | loop arms, forwarder, pumps | tasks interleave at every `.await`, bounded channels | candidates in order, nothing lost or stuck |
| Host session lifecycle (`session.rs`, `lib.rs`) | slot, AppState mutex, resources of a session | start, stop, supervisor, teardown, partial initialisation | stop against supervisor against next start; failure half way | each session torn down once, nothing left behind |
| Opening a session (`signaling.rs`) | one-shot slot, channel to the socket and its senders | `connect`, `create_session`, `close`, pumps | a late answer against the time limit; a socket closed by the last sender dropped | no slot left armed, no session left at the server |
| Connection-state watcher (`session.rs`) | deadline of the grace window | state changes, timeout | recovery against the deadline | teardown after, and only after, a failed recovery |
| Capture and encoder (`capture.rs`, `codec.rs`, `session.rs`) | stop flag, two channels, encoder size | frame, encode, push, stop | back-pressure, resolution change, panic, join of an OS thread | pipeline drains and stops |
| Browser host (`ghostview-host-lite.js`) | socket, peer connection, stream, `closed` | start, stop, message handlers | handlers interleave at awaits | stop leaves nothing running |
| Browser viewer (`ghostview-viewer.js`) | socket, peer connection, pending candidates | connect, close, message handlers | handlers interleave at awaits | candidates applied after the description |
| Pages, desktop UI, deployment, CI | - | - | - | not modelled |

Interaction: both clients talk to the server over WebSockets (JSON messages); the server's
handlers call the registry synchronously; inside the desktop host, tasks talk over bounded
mpsc channels and share the slot; the Tauri commands call start and stop under a mutex.

## 2. Plan

Done, in this order: `SessionManager`, its proofs, `PinRegistry` and the refinement,
`SignalingServer`, `HostSignaling`, `SessionLifecycle`, `RateLimiter`, `BrowserHandshake`,
`StateWatcher`, `EncoderPipeline`, `SessionCreation`, and `DesktopSession`, which joins the last
three to `SessionLifecycle` and is shown to implement it.

Then the proofs, in the order in which they build on each other: `SessionManager` and its
refinement, `SignalingServer` (which uses them), `SessionLifecycle`, `StateWatcher`, `DesktopSession`
with `EncoderPipeline` and `SessionCreation` (which uses the two before), `RateLimiter`,
`HostSignaling`, `BrowserHandshake`. Every invariant and action property a passing run checks is
proved, and two of the three refinements with the safety half of the third; section 6 says how, and
what stays with TLC.

Next: the step properties inside the liveness ones, which liveness under fairness rests on and which
can be proved where it cannot. That a local candidate taken from the agent is on its way or on the
wire (`LocalCandidatesReachWire` of `HostSignaling`); that a socket marked silent never gets its mark
back, so that the second sweep ends it (`SilentPeerReleased` of `SignalingServer`); that a pending
candidate stays pending or is added (`CandidatesApplied` of `BrowserHandshake`).

## 3. Modules and how they correspond to the code

`PROJECT.json` maps every definition to its lines.

**SessionManager** is the registry together with the calls `server.js` makes into it. `sessions`
and `hostToPin` are the two maps. Node runs a handler to its end, so an action is a whole
handler with all it sends; `out` is what the last handler put on each socket, and a send to a
socket that is not open is dropped, as the `readyState === 1` guards do. `ready` is the state of
the `ws` object, with the one distinction the API does not name: the server may have called
`close()` while frames still arrive ("closing"), or the input has ended and only the 'close'
event is due ("concluded"). `created` becomes an age that stops counting just past the TTL.
`_cleanup` may run at any time, which includes every sixty seconds. Where `_findPinByViewer`
could return one of several sessions the model leaves the choice open.
The constant `Disciplined` separates two kinds of environment: clients that ask for one session
per socket, which all shipped clients do, and clients that send anything.

**PinRegistry** is what the registry promises, without maps and lookups: parties arrive and
depart, and when a party departs every session it is an end of is gone. `SessionManager`
implements it under the mapping in `Registry`.

**SignalingServer** extends `SessionManager`: its actions are conjunctions of the registry's
actions and what `server.js` adds: misses and lockout, pong mark and sweep, shutdown. Whether a
request is over its rate limit is left open there. `silent` says that a peer's path is gone; such
a peer sends nothing, not even a close frame. After `Shutdown` sockets still end one by one; the
forced exit after five seconds is left out.

**RateLimiter** is `checkRateLimit` with the timer that sweeps its maps; `Keys` are pairs of kind
and IP. `recent` is a history variable: how long ago each of the last `2 * Limit + 1` admitted
requests was, so that two allowances in a window length means that the oldest of them is past it. **RateWindow** is the abstract limiter that never forgets
and never sweeps.

**HostSignaling** is the desktop host's signaling task, the candidate forwarder and the two pumps.
`loop` says at which `.await` the task is; flags and buffer have the source's names. Channels are
sequences with their capacity; a `send().await` is enabled when there is room, or fails when the
receiver is gone. `localDesc`, `haveOffer`, `remoteDesc` and `pcOpen` are what the calls into the
peer connection depend on. `ServerMessage::ViewerLeft` has an arm in the loop but is no variant of
the enum in `signaling.rs`, so that arm is left out; the loop's own element type is also not the
one the enum carries, so this commit does not compile, and the model follows the evident meaning.
`RelayOrder` chooses between a server that sends what `server.js` can send and one that sends
events in any order.

**SessionLifecycle** is the ownership of sessions. `stage` follows `init_running`, the time a
session is up, and the steps of `teardown()` (or `PartialInit::cleanup`, whose order is the same);
`alive` is the set of resources and tasks that exist; `command` stands for the AppState mutex,
held by start or stop from beginning to end; `supervisor` is the task of each session that waits
for a reason or for both senders to be gone. A start with an occupied slot and a stop with an
empty one return an error and change nothing, so they are no actions.

**BrowserHandshake** is the lite host, the viewer and, in outline, the server between them.
Operators that take an end `e` are the methods the two files share almost word for word; the map
names one of the two. `task` is the await a negotiation handler is at; the handler of a candidate
has nothing after its await and is one step. The connection object is external: it works off its
operations in the order of the calls, `described` is its view of the description where
`remoteDescSet` is the client's. Closing the connection ends a suspended handler (`Throws`).
`up` and `down` are the sockets, in order; "gone" is the end of a socket as the server sees it.
The host page shows its stop button only with a PIN, so `stop()` cannot run while the screen picker
is open: then `start()` would go on after it.

**StateWatcher** is the task that watches the peer connection's state. `peer` is the connection, an
external automaton; its callback puts each state into `stateRx` and waits when that is full.
`watcher` says which of the two loops the task is in, `left` is the time to the deadline. Time
passes in ticks, and only while the watcher has nothing to read: on the scale of the grace window
the runtime is prompt. A state that is in the channel at the deadline still counts, because
`timeout()` polls the channel first. `lost`, `outage` and `longest` are history.

**EncoderPipeline** is the capture thread, the encoder thread and the forwarder with the two bounded
channels between them. A frame is its time and one dimension. `encSize` is the size of the libvpx
encoder, 0 while there is none, beside `curSize`, which the code keeps separately. Frames have
different times, so the `max(1)` and the saturating subtraction on durations are never at work and
left out; `firstPts` and `mediaTime` are history.

**SessionCreation** is the socket from the desktop host's side: `create_session()` with its slot, its
time limit and its error paths, the two pumps, and the channel to the outbound pump, which ends
when its last sender goes: `clientTx` is the client's own, the argument of `PumpEnds` stands for
those of the signaling loop and the forwarder. The server's half is as `server.js` has it, with
one session.

**DesktopSession** composes the three with one session of `SessionLifecycle`. Its actions are
conjunctions: a step of the lifecycle together with what that step does to threads, channels and
connections. `TeardownStep` at `stopCapture`, which the lifecycle takes to return, happens here only
when the capture thread has been joined, and at `reap` only when the tasks have ended or been
aborted. What the outside world does (frames, changes of the connection, lost sockets, messages,
reasons from the signaling loop) is counted in `happenings` and bounded by `MaxHappenings`.
`CaptureHandle`'s own `Drop` is not modelled: every path stops the capture before.

Modules that begin with `MC` give the constants their values. Definitions marked "Faulty variant"
are deliberate errors: each property of a passing run is shown to fail with one of them in place of
the definition it varies.

## 4. Runs

| Run | Bounds | Shows |
|---|---|---|
| registry | 4 sockets, 2 PINs, TTL 2, symmetric | with disciplined clients: types, `NoDeadEnds`, `DisciplinedLookup`, `SurvivorNotified`, refinement of `PinRegistry` |
| registry_any_client | 3 sockets, 2 PINs, TTL 1, symmetric | with any client: `MappingCurrent`, `PinSingleUse`, `RelayWithinSession` |
| registry_expired_join | 3 sockets | violated: `EndNotified` |
| server | 2 sockets, 2 PINs, TTL 1, 2 misses | `LockoutHolds`, `ShutdownCloses`, `SilentPeerReleased`, `WaitingResolved` |
| host_signaling | 1 local and 2 remote candidates, buffer of 2, channels of 1, 4 events, any order | buffered candidates after the offer, phases, no loss to back-pressure, no deadlock of the loop |
| host_incoming_applied | the same, relay order | violated: `IncomingApplied` |
| lifecycle | 3 sessions | ownership, one teardown, remote end |
| lifecycle_own_session | 2 sessions | violated: `SupervisorTakesOwn` |
| rate_limiter | 2 clients, window 3, limit 2 | `TwoAllowances`, refinement of `RateWindow` |
| browser_handshake | 2 host candidates, 1 viewer candidate | no candidate refused or lost, the handshake completes, closing releases everything at both ends |
| desktop_session | 1 session, 3 happenings, grace 2, sizes 1 and 5, initial size 2, 3 frames, channels of 1 (states: 2) | `OutageBounded`, `GraceKept`, `TimelineKept`, `EncodedAtItsSize`, `SlotDisarmed`, `FailedLeavesNoSession`, `CommandsReturn`, `StopReleasesAll`, refinement of `SessionLifecycle` with its fairness |
| encoder_panic | 1 session, 1 happening, 1 frame | violated: `EncoderPanicSignals` |

Why the bounds are enough. Four sockets form two pairs at once, so that a confusion of sessions
shows; two PINs let one socket host two sessions in the undisciplined run. The TTL only
separates expired from not expired. Two misses distinguish the last one from the others. Channels
of one element are full most of the time, which is the case that blocks; a buffer of two overflows
with three candidates and can be left half drained. Three sessions let the supervisor of the first
meet both of its successors. A window of three ticks has a beginning, an inside and an end.
With two candidates from the host one can be buffered and the other arrive during the drain.
Three happenings are a loss, a recovery and a second loss of the connection, or three frames, or a
broken socket next to two of anything else. Sizes 1 and 5 round to none and to another size than
the initial one, so every branch of the encoder's re-initialisation is taken.

Deadlock is checked in the registry, server and limiter runs. In the host and browser runs the system
stops: the loop has ended and nobody calls, the bound on events or sessions is used up, or both
pages are done.

### What the violated runs show

* `EndNotified`: a PIN found expired by a join is destroyed without `session-expired` to its host
  (`session-manager.js:50`); the host goes on showing a dead PIN.
* `IncomingApplied`: the viewer's buffered candidates are sent back to the viewer
  (`session.rs:608`, `649`) instead of being applied.
* `SupervisorTakesOwn`: a late supervisor tears down the next session (`session.rs:209`).
* `EncoderPanicSignals`: the doc comment of `spawn_encoder_pair` (`session.rs:425-431`) says a panic
  sends the shutdown signal; the handler (`session.rs:553`) only logs it, and the session stays up
  without video.

Two that need no run of their own: the forwarder is not gated by `offer_sent` (`session.rs:792`), so
a candidate of the host can reach the wire before the offer, against I1 of
`H4_REVISED_FINAL_v4.md:378`, and `browser_handshake` shows that the viewer holds it back; and
fixed windows admit up to twice the limit within one window length (`server.js:165`), which
`TwoAllowances` states as the bound.

One more, smaller: when the drain after the answer fails half way, `answer_received` is set with
candidates left in the buffer (`session.rs:652-660`); the outbound pump is gone by then, so
`PhasesInOrder` excepts that case.

## 5. Fairness

* Server: the timers fire (`setInterval`), time passes, and a socket whose input has ended gets its
  'close' event, which the `ws` library guarantees. Nothing is assumed of clients.
* Host signaling: the runtime polls each task that can go on, the agent goes on gathering once it
  has a local description, and the outbound pump writes. The server sends or not, the socket and
  the peer connection close or not.
* Lifecycle: a session that is built is installed, supervisors and teardown steps go on. The last
  assumes that each await of `teardown()` returns; two of them have no time limit in the code (the
  `EndSession` send and the join of the capture thread). `ImplementsLifecycle` of `desktop_session`
  discharges that assumption.
* Desktop session: each task and thread goes on when it can, timers fire, the server handles what
  it gets and notices what is gone, and frames keep coming once the stop flag is set. The last is
  what the join of the capture thread rests on: a still screen that delivers none would hold it up.
  `push_frame` need not return; the user, the network and the peer connection owe nothing.
* Browser: each event loop handles what has arrived and resumes what has settled, the agents
  surface what they gathered, the server handles frames. Users and sockets owe nothing.

## 6. Proofs

TLAPS checks what follows for every value of the constants: any set of clients, PINs and candidates,
any capacity, limit, window and number of sessions. Every inductive invariant below was first checked
by TLC on the bounds of section 4. The assumptions are the named ones of the modules: numbers are
numbers (capacities and limits positive), sentinels differ from the values they stand beside, the
candidates of the two ends differ from each other, and a candidate is no type of a frame
(`FrameAssumption`). `DesktopSession` composes one session, so `MaxSessions = 1` there; what is proved
of `SessionLifecycle` is not limited to it.

Proofs of a module are in the module of its name with `Proofs` added; those of the modules of the
desktop session are in `DesktopSessionProofs`, except the watcher's.

**SessionManagerProofs**

* `TypeCorrect`: the type of the registry is inductive without the messages, which no guard reads.
  `DestroyFacts`, on what `destroySession` leaves, is the lemma most steps use.
* `MappingAlwaysCurrent`, `OneSessionEach`, `LookupTotal`, `NoSurvivorStranded`: none is inductive.
  That a host's lookup finds its session needs that it hosts no second one; that no session outlives a
  socket's close needs that the lookup of a closing socket yields the one session it is in.
  `LookupInv` joins them with the facts that a session has a viewer exactly when it is paired and that
  no socket is in two sessions; it is inductive.
* `OneViewerPerPin`: an action property, by cases on the actions that change `sessions`.
* `SurvivorAlwaysNotified`, `RelayedWithinSession`: action properties about what the handlers send.
  Both rest on the lookup yielding a session its socket is an end of (`LookupSound`, from
  `LookupInv`), for clients of either kind; the second on a session with two ends being paired.
* `SessionManagerImplementsRegistry`: the initial state maps to the abstract one and every step to
  a step of `PinRegistry` or a stutter. The disconnect handlers are the interesting case: the code
  removes the session one lookup finds, the abstract registry all sessions of the party, and
  `LookupInv` makes the two sets equal. It assumes `Disciplined`; the runs show why it must.

**SignalingServerProofs**

* `RegistryHoldsInServer`, `OneViewerPerPinInServer`, `SessionsHandledInServer`: what holds of the registry alone holds of it
  inside the server. `ServerProjection` is the reason: a step of the server is one of the registry or
  one that only withdraws sockets (`Withdraws`: lockout, keepalive sweep, shutdown, a silent peer), and
  withdrawing sockets keeps each invariant, ends no session and relays nothing.
* `ServerTypeCorrect`, `LockoutAlwaysHolds`, `ShutdownAlwaysCloses`: by `ConnInv`, the type of the
  connections with the two properties; a socket opens only while the server is not shutting down and
  with no misses counted, and its counter moves only while it is open.

**SessionLifecycleProofs**: `LifecycleTypeCorrect`, `SlotAlwaysHoldsTheOneUp`, `NothingEverOrphaned`,
`TornDownOnce`, for any number of sessions. The slot alone is not inductive: a start could install a
second session while the first is up. `LifecycleInv` adds that the mutex is held exactly while a start
or a stop is under way (`CommandHeld`), that a session in teardown has one owner (`OwnedInTeardown`),
and that its resources are released in the order of the stages (`ReleasedInOrder`); nothing orphaned
then follows, and the owner can be handed over once.

**StateWatcherProofs**: `WatcherTypeCorrect`, `OutageAlwaysBounded`, `GraceAlwaysKept`, for any grace
window and channel capacity. The invariant has to say what the channel knows that the task does not:
if the connection is lost, either the watcher is in its grace window with no more than the rest of it
left, or the state that will put it there is still unread; if it is back, every loss still unread, and
the one a window runs for, is followed by an unread recovery. `WindowMeasured` ties the deadline to the outage.

**DesktopSessionProofs**

* `DesktopFollowsLifecycle`, `DesktopFollowsWatcher`, `DesktopFollowsPipeline`: by projection, step by
  step. The last needs that the threads follow the stage of the session (`ThreadsFollow`, inductive
  together with `LifecycleInv`): the capture thread is started once and joined before the connection
  is closed. `DesktopFollowsLifecycle` is the safety half of `ImplementsLifecycle`.
* `TimelineAlwaysKept`, `AlwaysEncodedAtItsSize`: of `EncoderPipeline`, for any frames and capacities.
  `PipelineInv` orders the frames in the channel behind the last one encoded, and ties the size of the
  encoder to `curSize`.
* `SlotAlwaysDisarmed`, by `CreationInv`; `DesktopTypeCorrect`, which joins the types of the parts;
  `DesktopKeepsItsParts`, which carries the theorems on the parts to the composition.

**RateLimiterProofs**

* `NeverMoreThanTwoAllowances`: `WindowInv` places the admitted requests by their rank. Those the
  record counts were admitted within its window; what came before is older than the window; and what
  is more than another allowance back was past when the window began. A record is swept only when all
  of them are past.
* `LimiterImplementsWindows`: the mapping reads a missing record as a window that is over; a sweep
  then is a stutter, and the other steps map one to one.

**HostSignalingProofs**

* `HostTypeCorrect`: with the capacities of all channels and of the buffer.
* `BufferedAlwaysAfterOffer`: the property speaks of what is on the wire followed by what is queued
  (`Outgoing`), which moving a message from the channel to the wire leaves the same. `OfferLeads` adds
  that the loop is at a drain, or past the offer, only with an offer in it, or with the pump gone.
* `PhasesAlwaysInOrder`: `PhasesLead` adds that the flags never run ahead of the loop's own position.

**BrowserHandshakeProofs**

* `BrowserTypeCorrect`: a frame reaches only the role it is addressed to.
* `StoppedAlwaysReleased`: `LifeInv` ties socket, connection and capture to how far the opening came,
  at every await a close can come between.
* `NoCandidateEverRefused`: a candidate is refused if the connection has no description, and
  `remoteDescSet` is what the client goes by. That it never goes wrong rests on there being one
  handshake: a second offer or answer would call `setRemoteDescription` anew, and if that one were
  rejected the flag would stay set without a description. So `OneHandshake` follows a token:
  `create-session`, `viewer-joined`, `offer`, `answer` each exist at most once, in a queue or in the
  task that turns one into the next, and while one exists nothing that follows it has begun.
  `Gains` and `NoNewToken` are what a step can do to the tokens in the queues.

Model-checked only:

* All liveness: `WaitingResolved`, `SilentPeerReleased`, `LocalCandidatesReachWire`, `LoopReturns`,
  `RemoteEndTearsDown`, `CandidatesApplied`, `HandshakeCompletes`, `EndReachesOther`,
  `CommandsReturn`, `StopReleasesAll`, `FailedLeavesNoSession`, and the fairness `ImplementsLifecycle`
  asks for: fairness and ENABLED are beyond the prover.

## 7. Not modelled

Static files, `/health`, TLS and origin checks; the five-second forced exit; SDP and JSON texts;
pixel conversion and libvpx; the `ws`, tungstenite and webrtc-rs libraries, which appear only as the
code uses them; synchronous throws of `ws.send`; the pages, the desktop UI, containers, TURN, CI.
Of the browser clients: the status shown, codec preference, the media element. Of the
pipeline: what is in a frame (an odd width leaves rows one pixel longer than the encoder reads them,
`session.rs:498`), and durations of frames with equal times.
