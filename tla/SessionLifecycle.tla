-------------------------- MODULE SessionLifecycle --------------------------
(***************************************************************************)
(* Who owns a session of the desktop host, from start() to the end of its  *)
(* teardown (tauri-host, session.rs).  start() and stop() run under the    *)
(* AppState mutex, one at a time; each session has a supervisor task that  *)
(* takes no part in that mutex and shares only the slot with them.  Every  *)
(* `.await' that can let another task run ends a step.                     *)
(***************************************************************************)
EXTENDS Naturals

CONSTANT MaxSessions   \* bound of the model: calls of start()

ASSUME MaxSessionsAssumption == MaxSessions \in Nat \ {0}

Ids == 1..MaxSessions
None == 0

VARIABLES
    slot,        \* AppState.slot: the running session, or None
    command,     \* what holds the AppState mutex
    started,     \* sessions started so far
    stage,       \* how far each session got, see Stages
    alive,       \* resources and tasks of each session that still exist
    signalled,   \* a reason is in the session's shutdown channel
    supervisor,  \* the session's supervisor task
    owner,       \* who tears the session down
    taken        \* the session that this session's supervisor tore down

vars == <<slot, command, started, stage, alive, signalled, supervisor, owner, taken>>

InitStages == {"connect", "create", "webrtc", "capture", "spawn", "built"}
TeardownStages == {"endSession", "stopCapture", "closePeer", "reap"}
Stages == {"unused", "up", "gone"} \cup InitStages \cup TeardownStages

Tasks == {"signalingTask", "stateTask"}
Resources == {"socket", "peer", "capture"} \cup Tasks

TypeOK ==
    /\ slot \in Ids \cup {None}
    /\ command \in {"idle", "start", "stop"}
    /\ started \in 0..MaxSessions
    /\ stage \in [Ids -> Stages]
    /\ alive \in [Ids -> SUBSET Resources]
    /\ signalled \in [Ids -> BOOLEAN]
    /\ supervisor \in [Ids -> {"none", "waiting", "woken", "done"}]
    /\ owner \in [Ids -> {"nobody", "init", "stop", "supervisor"}]
    /\ taken \in [Ids -> Ids \cup {None}]

Init ==
    /\ slot = None
    /\ command = "idle"
    /\ started = 0
    /\ stage = [s \in Ids |-> "unused"]
    /\ alive = [s \in Ids |-> {}]
    /\ signalled = [s \in Ids |-> FALSE]
    /\ supervisor = [s \in Ids |-> "none"]
    /\ owner = [s \in Ids |-> "nobody"]
    /\ taken = [s \in Ids |-> None]

-----------------------------------------------------------------------------
(* start() *)

(* An occupied slot is refused with AlreadyRunning. *)
Start ==
    /\ command = "idle"
    /\ slot = None
    /\ started < MaxSessions
    /\ command' = "start"
    /\ started' = started + 1
    /\ stage' = [stage EXCEPT ![started + 1] = "connect"]
    /\ UNCHANGED <<slot, alive, signalled, supervisor, owner, taken>>

(* init_running, step by step: what a step adds, and the one after it. *)
Acquires == [connect |-> {"socket"}, create |-> {}, webrtc |-> {"peer"},
             capture |-> {"capture"}, spawn |-> Tasks]
Following == [connect |-> "create", create |-> "webrtc", webrtc |-> "capture",
              capture |-> "spawn", spawn |-> "built"]

InitStep(s) ==
    /\ stage[s] \in DOMAIN Acquires
    /\ stage' = [stage EXCEPT ![s] = Following[@]]
    /\ alive' = [alive EXCEPT ![s] = @ \cup Acquires[stage[s]]]
    /\ UNCHANGED <<slot, command, started, signalled, supervisor, owner, taken>>

(* Faulty variant: start() returns the error and forgets what it built. *)
InitFailsEarly(s) ==
    /\ stage[s] \in {"connect", "create", "webrtc", "capture"}
    /\ stage' = [stage EXCEPT ![s] = "gone"]
    /\ command' = "idle"
    /\ UNCHANGED <<slot, started, alive, signalled, supervisor, owner, taken>>

(* A step fails.  Up to create_session the client is a local that is       *)
(* dropped; after it PartialInit::cleanup unwinds what was built.          *)
InitFails(s) ==
    /\ \/ /\ stage[s] \in {"connect", "create"}
          /\ stage' = [stage EXCEPT ![s] = "gone"]
          /\ alive' = [alive EXCEPT ![s] = {}]
          /\ command' = "idle"
          /\ UNCHANGED owner
       \/ /\ stage[s] \in {"webrtc", "capture"}
          /\ stage' = [stage EXCEPT ![s] = "endSession"]
          /\ owner' = [owner EXCEPT ![s] = "init"]
          /\ UNCHANGED <<alive, command>>
    /\ UNCHANGED <<slot, started, signalled, supervisor, taken>>

(* The session goes into the slot and its supervisor is spawned. *)
Install(s) ==
    /\ stage[s] = "built"
    /\ stage' = [stage EXCEPT ![s] = "up"]
    /\ slot' = s
    /\ supervisor' = [supervisor EXCEPT ![s] = "waiting"]
    /\ command' = "idle"
    /\ UNCHANGED <<started, alive, signalled, owner, taken>>

-----------------------------------------------------------------------------
(* The tasks of a session. *)

(* The signaling loop or the state watcher sends a reason and ends. *)
TaskSignals(s) ==
    \E t \in Tasks \cap alive[s] :
      /\ alive' = [alive EXCEPT ![s] = @ \ {t}]
      /\ signalled' = [signalled EXCEPT ![s] = TRUE]
      /\ UNCHANGED <<slot, command, started, stage, supervisor, owner, taken>>

(* The loop ends without a reason when the socket closes, the watcher when *)
(* the peer connection is gone.                                            *)
TaskEndsQuietly(s) ==
    \E t \in Tasks \cap alive[s] :
      /\ t = "stateTask" => "peer" \notin alive[s]
      /\ alive' = [alive EXCEPT ![s] = @ \ {t}]
      /\ UNCHANGED <<slot, command, started, stage, signalled, supervisor,
                     owner, taken>>

-----------------------------------------------------------------------------
(* The supervisor task and stop(). *)

(* Faulty variant: a reason is not enough, both tasks must have ended. *)
WakeOnClosed(s) ==
    /\ supervisor[s] = "waiting"
    /\ Tasks \cap alive[s] = {}
    /\ supervisor' = [supervisor EXCEPT ![s] = "woken"]
    /\ UNCHANGED <<slot, command, started, stage, alive, signalled, owner, taken>>

(* recv() returns: a reason, or None once both senders are dropped. *)
Wake(s) ==
    /\ supervisor[s] = "waiting"
    /\ signalled[s] \/ Tasks \cap alive[s] = {}
    /\ supervisor' = [supervisor EXCEPT ![s] = "woken"]
    /\ UNCHANGED <<slot, command, started, stage, alive, signalled, owner, taken>>

(* Faulty variant: the supervisor uses the session but leaves it there. *)
SupervisorLeavesSlot(s) ==
    /\ supervisor[s] = "woken"
    /\ supervisor' = [supervisor EXCEPT ![s] = "done"]
    /\ slot # None
    /\ taken' = [taken EXCEPT ![s] = slot]
    /\ stage' = [stage EXCEPT ![slot] = "endSession"]
    /\ owner' = [owner EXCEPT ![slot] = "supervisor"]
    /\ UNCHANGED <<slot, command, started, alive, signalled>>

(* It takes whatever session the slot holds by then, if any. *)
SupervisorTakes(s) ==
    /\ supervisor[s] = "woken"
    /\ supervisor' = [supervisor EXCEPT ![s] = "done"]
    /\ \/ /\ slot # None
          /\ slot' = None
          /\ taken' = [taken EXCEPT ![s] = slot]
          /\ stage' = [stage EXCEPT ![slot] = "endSession"]
          /\ owner' = [owner EXCEPT ![slot] = "supervisor"]
       \/ /\ slot = None
          /\ UNCHANGED <<slot, taken, stage, owner>>
    /\ UNCHANGED <<command, started, alive, signalled>>

(* Faulty variant: the session stays in the slot while it is torn down. *)
StopLeavesSlot ==
    /\ command = "idle"
    /\ slot # None
    /\ command' = "stop"
    /\ stage' = [stage EXCEPT ![slot] = "endSession"]
    /\ owner' = [owner EXCEPT ![slot] = "stop"]
    /\ UNCHANGED <<slot, started, alive, signalled, supervisor, taken>>

(* An empty slot is refused with NotRunning. *)
Stop ==
    /\ command = "idle"
    /\ slot # None
    /\ slot' = None
    /\ command' = "stop"
    /\ stage' = [stage EXCEPT ![slot] = "endSession"]
    /\ owner' = [owner EXCEPT ![slot] = "stop"]
    /\ UNCHANGED <<started, alive, signalled, supervisor, taken>>

(* teardown() and cleanup(), step by step.  close() only drops the         *)
(* client's own sender: the socket lives on until the tasks, which hold    *)
(* the others, are reaped.                                                 *)
Releases == [endSession |-> {}, stopCapture |-> {"capture"},
             closePeer |-> {"peer"}, reap |-> {"socket"} \cup Tasks]
NextTeardown == [endSession |-> "stopCapture", stopCapture |-> "closePeer",
                 closePeer |-> "reap", reap |-> "gone"]

TeardownStep(s) ==
    /\ stage[s] \in TeardownStages
    /\ stage' = [stage EXCEPT ![s] = NextTeardown[@]]
    /\ alive' = [alive EXCEPT ![s] = @ \ Releases[stage[s]]]
    /\ command' = IF stage[s] = "reap" /\ owner[s] # "supervisor"
                    THEN "idle" ELSE command
    /\ UNCHANGED <<slot, started, signalled, supervisor, owner, taken>>

-----------------------------------------------------------------------------

SessionStep(s) ==
    \/ InitStep(s) \/ InitFails(s) \/ Install(s)
    \/ TaskSignals(s) \/ TaskEndsQuietly(s)
    \/ Wake(s) \/ SupervisorTakes(s) \/ TeardownStep(s)

Next == Start \/ Stop \/ \E s \in Ids : SessionStep(s)

(* The runtime runs the tasks that can go on, and each await of a teardown *)
(* returns.  Neither the user, nor the server, nor the network is assumed  *)
(* to do anything.                                                         *)
Spec ==
    /\ Init /\ [][Next]_vars
    /\ \A s \in Ids : /\ WF_vars(Install(s))
                      /\ WF_vars(Wake(s))
                      /\ WF_vars(SupervisorTakes(s))
                      /\ WF_vars(TeardownStep(s))

-----------------------------------------------------------------------------
(* Safety. *)

(* The slot holds the one session that is up: neither stop() nor a         *)
(* supervisor leaves a session there that is being torn down, and none     *)
(* that is up is out of stop()'s reach.                                    *)
SlotHoldsTheOneUp == \A s \in Ids : stage[s] = "up" <=> slot = s

(* "We never leak a background task" (start): whatever a session holds,    *)
(* the slot, a start() in progress or a teardown in progress owns it.      *)
NothingOrphaned ==
    \A s \in Ids : alive[s] # {} =>
      \/ slot = s
      \/ command = "start" /\ stage[s] \in InitStages
      \/ owner[s] # "nobody" /\ stage[s] \in TeardownStages

(* teardown() "runs the unwind exactly once": stop() and the supervisors   *)
(* never tear one session down twice, whichever comes first.               *)
OneTeardown ==
    [][\A s \in Ids : owner[s] # "nobody" =>
         /\ owner'[s] = owner[s]
         /\ stage[s] # "endSession" => stage'[s] # "endSession"]_vars

(* A supervisor that finds its session gone has "nothing to do": it tears  *)
(* down its own session or none (comment in start).                        *)
SupervisorTakesOwn == \A s \in Ids : taken[s] \in {None, s}

(* Liveness. *)

(* When the peer or the server ends a session, or the connection fails,    *)
(* the host gets rid of it without the user, whether the news comes before *)
(* the supervisor exists, during stop(), or next to other sessions.        *)
RemoteEndTearsDown == \A s \in Ids : signalled[s] ~> stage[s] = "gone"

=============================================================================
