--------------------------- MODULE DesktopSession ---------------------------
(***************************************************************************)
(* One session of the desktop host with everything that runs in it: the    *)
(* steps of SessionLifecycle are joined to what they do to the socket, the *)
(* capture and encoder threads, the peer connection and its watcher.       *)
(* Where SessionLifecycle assumes that each await of a teardown returns,   *)
(* here it has to be shown.                                                *)
(***************************************************************************)
EXTENDS SessionLifecycle, StateWatcher, EncoderPipeline, SessionCreation

CONSTANT MaxHappenings  \* bound of the model: steps the outside world takes

ASSUME OneSessionAssumption == MaxSessions = 1 /\ MaxHappenings \in Nat

VARIABLE happenings     \* steps of the outside world so far

lifecycleVars == vars
desktopVars == <<lifecycleVars, watcherVars, pipelineVars, creationVars, happenings>>

Session == 1

DesktopTypeOK ==
    /\ TypeOK /\ WatcherTypeOK /\ PipelineTypeOK /\ CreationTypeOK
    /\ happenings \in 0..MaxHappenings

DesktopInit ==
    /\ Init /\ WatcherInit /\ PipelineInit /\ CreationInit /\ happenings = 0

(* What a step leaves alone. *)
NotLifecycle == UNCHANGED lifecycleVars
NotWatcher == UNCHANGED watcherVars
NotPipeline == UNCHANGED pipelineVars
NotCreation == UNCHANGED creationVars
InLifecycle == NotWatcher /\ NotPipeline /\ NotCreation /\ UNCHANGED happenings
InWatcher == NotLifecycle /\ NotPipeline /\ NotCreation
InPipeline == NotLifecycle /\ NotWatcher /\ NotCreation
InCreation == NotLifecycle /\ NotWatcher /\ NotPipeline

Happens == happenings < MaxHappenings /\ happenings' = happenings + 1
Quiet == UNCHANGED happenings

Spawned == owner[Session] # "init" /\ stage[Session] \in {"built", "up"} \cup TeardownStages

-----------------------------------------------------------------------------
(* start() and stop(), called by the page under the AppState mutex. *)

StartCommand == Start /\ InLifecycle
StopCommand == Stop /\ InLifecycle

InitStepAt(st) == stage[Session] = st /\ InitStep(Session)

ConnectStep == InitStepAt("connect") /\ Connect /\ NotWatcher /\ NotPipeline /\ Quiet
CreateReturns ==
    /\ createCall = "created"
    /\ InitStepAt("create") /\ InLifecycle
WebRtcStep == InitStepAt("webrtc") /\ NewPeer /\ NotPipeline /\ NotCreation /\ Quiet
CaptureStep == InitStepAt("capture") /\ StartCapture /\ NotWatcher /\ NotCreation /\ Quiet
SpawnStep == /\ InitStepAt("spawn")
             /\ StartEncoderPair /\ SpawnWatcher
             /\ NotCreation /\ Quiet
InstallStep == Install(Session) /\ InLifecycle

StartFails ==
    /\ stage[Session] = "create" => createCall = "failed"
    /\ InitFails(Session) /\ InLifecycle

StartStep == ConnectStep \/ CreateReturns \/ WebRtcStep \/ CaptureStep \/ SpawnStep
             \/ InstallStep \/ StartFails

CreateSession == stage[Session] = "create" /\ CreateStep /\ InCreation /\ Quiet

-----------------------------------------------------------------------------
(* The tasks. *)

Ends(t) == alive' = [alive EXCEPT ![Session] = @ \ {t}]

(* The watcher's last step is its signal. *)
WatcherStepHere ==
    /\ WatcherStep
    /\ IF watcher' = "done" /\ "stateTask" \in alive[Session]
         THEN TaskSignals(Session) /\ Ends("stateTask")
         ELSE NotLifecycle
    /\ NotPipeline /\ NotCreation /\ Quiet

TickHere == Tick /\ InWatcher /\ Quiet

(* peer_disconnected, session_expired, a hard error, a failed step. *)
SignalingSignals ==
    /\ TaskSignals(Session) /\ Ends("signalingTask")
    /\ NotWatcher /\ NotPipeline /\ NotCreation /\ Happens

(* The events end with the inbound pump. *)
SignalingEnds ==
    /\ ~pumpIn
    /\ TaskEndsQuietly(Session) /\ Ends("signalingTask")
    /\ InLifecycle

TaskMessages == Spawned /\ TaskSends /\ InCreation /\ Happens

EncoderStepHere == EncoderStep /\ InPipeline /\ Quiet
ForwarderStep == (ForwarderTakes \/ ForwarderEnds) /\ InPipeline /\ Quiet
PushReturns == ForwarderPushed /\ InPipeline /\ Quiet

(* Who takes the events: the signaling loop, before it the client. *)
Taker == IF Spawned THEN "signalingTask" \in alive[Session] ELSE clientTx

PumpStep == /\ PumpWrites \/ PumpFails \/ PumpEnds(Spawned) \/ InboundReads(Taker) \/ InboundEnds
            /\ InCreation /\ Quiet

-----------------------------------------------------------------------------
(* The supervisor, and the steps of a teardown. *)

SupervisorStep == (Wake(Session) \/ SupervisorTakes(Session)) /\ InLifecycle

TeardownAt(st) == stage[Session] = st /\ TeardownStep(Session)

EndSessionStep == TeardownAt("endSession") /\ EndSession /\ NotWatcher /\ NotPipeline /\ Quiet

(* Handle::stop: the flag first, then the join. *)
CaptureToldToStop == stage[Session] = "stopCapture" /\ StopFlag /\ InPipeline /\ Quiet
CaptureJoinStep == CaptureJoined /\ TeardownAt("stopCapture") /\ InLifecycle

ClosePeerStep == TeardownAt("closePeer") /\ ClosePeer /\ NotPipeline /\ NotCreation /\ Quiet

(* abort_after: a task that does not end in its time is aborted. *)
AbortForwarder == stage[Session] = "reap" /\ ForwarderAborted /\ InPipeline /\ Quiet
AbortWatcher == stage[Session] = "reap" /\ WatcherAborted /\ InWatcher /\ Quiet

(* The encoder thread gets a second and is then left to itself. *)
ReapStep ==
    /\ forwarder \in {"off", "done"} /\ watcher \in {"absent", "done"}
    /\ TeardownAt("reap") /\ InLifecycle

UnwindStep == EndSessionStep \/ CaptureToldToStop \/ CaptureJoinStep \/ ClosePeerStep
              \/ AbortForwarder \/ AbortWatcher \/ ReapStep

-----------------------------------------------------------------------------
(* The world outside. *)

FrameComes == FrameArrives /\ InPipeline /\ Happens
CaptureBreaks == CaptureFails /\ InPipeline /\ Happens
PeerMoves == "peer" \in alive[Session] /\ PeerChanges /\ InWatcher /\ Happens
SocketLost == (SocketBreaks \/ ServerShutsDown) /\ InCreation /\ Happens

(* A frame after the stop flag was set. *)
LastFrame == CaptureStops /\ InPipeline /\ Quiet
ServerStep == (ServerHandles \/ ServerNotices) /\ InCreation /\ Quiet

DesktopNext ==
    \/ StartCommand \/ StopCommand
    \/ StartStep \/ CreateSession
    \/ WatcherStepHere \/ TickHere
    \/ SignalingSignals \/ SignalingEnds \/ TaskMessages
    \/ EncoderStepHere \/ ForwarderStep \/ PushReturns \/ PumpStep
    \/ SupervisorStep \/ UnwindStep
    \/ FrameComes \/ CaptureBreaks \/ PeerMoves \/ SocketLost
    \/ LastFrame \/ ServerStep

(* Each task and thread goes on when it can, timers fire, the server       *)
(* handles what it gets and notices what is gone, and frames keep coming.  *)
(* push_frame need not return, nor the user, the peer or the network act.  *)
Fairness ==
    /\ WF_desktopVars(StartStep \/ CreateSession)
    /\ WF_desktopVars(WatcherStepHere \/ TickHere)
    /\ WF_desktopVars(SignalingEnds)
    /\ WF_desktopVars(EncoderStepHere)
    /\ WF_desktopVars(ForwarderStep)
    /\ WF_desktopVars(PumpStep)
    /\ WF_desktopVars(SupervisorStep) /\ WF_desktopVars(UnwindStep)
    /\ WF_desktopVars(LastFrame) /\ WF_desktopVars(ServerStep)

DesktopSpec == DesktopInit /\ [][DesktopNext]_desktopVars /\ Fairness

-----------------------------------------------------------------------------

(* start() and stop() return: no channel, thread or server that they wait  *)
(* for keeps the AppState mutex, and with it every later command.          *)
CommandsReturn == command # "idle" ~> command = "idle"

(* A teardown, by whomever, ends every thread and task of the session,     *)
(* closes the socket's pumps, and the server forgets the session, though   *)
(* a push may hang and the encoder be stuck behind it.                     *)
Released ==
    /\ capture \in {"off", "ended"}
    /\ encoder \in {"off", "done"} /\ forwarder \in {"off", "done"}
    /\ watcher \in {"absent", "done"}
    /\ ~pumpOut /\ ~pumpIn
    /\ serverSession # "open"
StopReleasesAll == owner[Session] # "nobody" ~> []Released

(* The whole behaves as SessionLifecycle says, with the progress it takes  *)
(* for granted.                                                            *)
ImplementsLifecycle == Spec

(* "On panic, sends shutdown_tx signal" (spawn_encoder_pair): a session    *)
(* whose encoder panicked does not stay up.                                *)
EncoderPanicSignals == panicked ~> signalled[Session] \/ stage[Session] # "up"
=============================================================================
