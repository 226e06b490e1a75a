--------------------------- MODULE SignalingServer ---------------------------
(***************************************************************************)
(* The signaling server around the session registry (server/server.js):    *)
(* the connection handler with its wrong-PIN lockout, the keepalive sweep  *)
(* that finds peers that went silent, and the graceful shutdown.  Calls    *)
(* into the registry are the actions of SessionManager.  Whether a request *)
(* is over its rate limit is left open here.                               *)
(***************************************************************************)
EXTENDS SessionManager

CONSTANT MaxWrongPins   \* MAX_WRONG_PINS

ASSUME MaxWrongPinsAssumption == MaxWrongPins \in Nat \ {0}

VARIABLES
    wrongPins,     \* ws._wrongPins, saturated at MaxWrongPins
    isAlive,       \* ws._isAlive: a pong (or the connect) since the last sweep
    silent,        \* the peer vanished without a close frame
    shuttingDown   \* a termination signal was handled

connVars == <<wrongPins, isAlive, silent>>
serverVars == <<vars, connVars, shuttingDown>>

ServerMessages == Messages \cup {Msg("rate_limited"), Msg("server_shutdown")}

ServerTypeOK ==
    /\ sessions \in [Pins -> Session \cup {NoSession}]
    /\ hostToPin \in [Sockets -> Pins \cup {NoPin}]
    /\ ready \in [Sockets -> ReadyStates]
    /\ out \in [Sockets -> SUBSET ServerMessages]
    /\ wrongPins \in [Sockets -> 0..MaxWrongPins]
    /\ isAlive \in [Sockets -> BOOLEAN]
    /\ silent \in [Sockets -> BOOLEAN]
    /\ shuttingDown \in BOOLEAN

ServerInit ==
    /\ Init
    /\ wrongPins = [c \in Sockets |-> 0]
    /\ isAlive = [c \in Sockets |-> TRUE]
    /\ silent = [c \in Sockets |-> FALSE]
    /\ shuttingDown = FALSE

(* Faulty variant: connections are accepted during the shutdown. *)
OnConnectionAlways(c) ==
    /\ Connect(c)
    /\ wrongPins' = [wrongPins EXCEPT ![c] = 0]
    /\ isAlive' = [isAlive EXCEPT ![c] = TRUE]
    /\ silent' = [silent EXCEPT ![c] = FALSE]
    /\ UNCHANGED shuttingDown

(* wss.on('connection'); wss.close() in shutdown stops accepting. *)
OnConnection(c) ==
    /\ ~shuttingDown
    /\ Connect(c)
    /\ wrongPins' = [wrongPins EXCEPT ![c] = 0]
    /\ isAlive' = [isAlive EXCEPT ![c] = TRUE]
    /\ silent' = [silent EXCEPT ![c] = FALSE]
    /\ UNCHANGED shuttingDown

(* Requests over the limit are answered before anything else is done. *)
OnRateLimited(c) ==
    /\ Receives(c)
    /\ MayAsk(c)
    /\ Deliver(Only(c, "rate_limited"))
    /\ UNCHANGED <<registry, ready, connVars>>

(* A malformed PIN is refused without counting as a wrong one. *)
OnMalformedPin(c) ==
    /\ Receives(c)
    /\ MayAsk(c)
    /\ Deliver(Only(c, "invalid_pin"))
    /\ UNCHANGED <<registry, ready, connVars>>

(* Faulty variant: one miss too many. *)
LocksOutLate(misses) == misses > MaxWrongPins

(* The last miss the lockout allows closes the socket. *)
LocksOut(misses) == misses >= MaxWrongPins

(* A refused join is a miss; the socket stays open below the limit. *)
OnWrongPin(c, p) ==
    LET misses == IF wrongPins[c] < MaxWrongPins
                    THEN wrongPins[c] + 1 ELSE MaxWrongPins
    IN  /\ JoinRefused(c, p)
        /\ wrongPins' = [wrongPins EXCEPT ![c] = misses]
        /\ ready' = IF LocksOut(misses)
                      THEN [ready EXCEPT ![c] = "closing"] ELSE ready
        /\ UNCHANGED <<isAlive, silent>>

OnMessage(c) ==
    /\ ~silent[c]
    /\ UNCHANGED shuttingDown
    /\ \/ OnRateLimited(c)
       \/ OnMalformedPin(c)
       \/ \E p \in Pins : OnWrongPin(c, p)
       \/ /\ \/ CreateSession(c)
             \/ CreateSessionFails(c)
             \/ \E p \in Pins : JoinSession(c, p)
             \/ Relay(c)
             \/ EndSession(c)
          /\ UNCHANGED connVars

OnPong(c) ==
    /\ Receives(c)
    /\ ~silent[c]
    /\ isAlive' = [isAlive EXCEPT ![c] = TRUE]
    /\ out' = Nothing
    /\ UNCHANGED <<registry, ready, wrongPins, silent, shuttingDown>>

OnError(c) == SocketError(c) /\ UNCHANGED <<connVars, shuttingDown>>

OnClose(c) == CloseEvent(c) /\ UNCHANGED <<connVars, shuttingDown>>

(* The client closes, or answers the server's close frame. *)
ClientCloses(c) ==
    /\ ~silent[c]
    /\ Conclude(c)
    /\ UNCHANGED <<connVars, shuttingDown>>

(* The network path or the client's machine is gone. *)
GoSilent(c) ==
    /\ Receives(c)
    /\ ~silent[c]
    /\ silent' = [silent EXCEPT ![c] = TRUE]
    /\ out' = Nothing
    /\ UNCHANGED <<registry, ready, wrongPins, isAlive, shuttingDown>>

(* Which sockets the sweep terminates: those without a pong since the last. *)
Stale(c) == ready[c] # "closed" /\ ~isAlive[c]

(* Faulty variant: the mark of a pong is never taken back. *)
SweepKeepsMark ==
    /\ ready' = [c \in Sockets |-> IF Stale(c) THEN "concluded" ELSE ready[c]]
    /\ out' = Nothing
    /\ UNCHANGED <<registry, isAlive, wrongPins, silent, shuttingDown>>

(* The keepalive timer: terminate the stale sockets, ping the others. *)
Sweep ==
    /\ ready' = [c \in Sockets |-> IF Stale(c) THEN "concluded" ELSE ready[c]]
    /\ isAlive' = [c \in Sockets |->
                     IF ready[c] # "closed" THEN FALSE ELSE isAlive[c]]
    /\ out' = Nothing
    /\ UNCHANGED <<registry, wrongPins, silent, shuttingDown>>

(* SIGTERM or SIGINT: tell every client, then close its socket. *)
Shutdown ==
    /\ ~shuttingDown
    /\ shuttingDown' = TRUE
    /\ Deliver([c \in Sockets |-> {Msg("server_shutdown")}])
    /\ ready' = [c \in Sockets |-> IF ready[c] = "open" THEN "closing" ELSE ready[c]]
    /\ UNCHANGED <<registry, connVars>>

(* The PIN_TTL timer of the registry, and the time it measures. *)
Timers == (Cleanup \/ Tick) /\ UNCHANGED <<connVars, shuttingDown>>

ServerNext ==
    \/ Timers
    \/ Sweep
    \/ Shutdown
    \/ \E c \in Sockets :
         \/ OnConnection(c) \/ OnMessage(c) \/ OnPong(c) \/ OnError(c)
         \/ OnClose(c) \/ ClientCloses(c) \/ GoSilent(c)

(***************************************************************************)
(* Timers fire, and a socket whose input has ended gets its 'close' event. *)
(* Nothing is assumed of the clients.                                      *)
(***************************************************************************)
ServerSpec ==
    /\ ServerInit
    /\ [][ServerNext]_serverVars
    /\ WF_serverVars(Sweep)
    /\ WF_serverVars(Cleanup /\ UNCHANGED <<connVars, shuttingDown>>)
    /\ WF_serverVars(Tick /\ UNCHANGED <<connVars, shuttingDown>>)
    /\ \A c \in Sockets : WF_serverVars(OnClose(c))

-----------------------------------------------------------------------------

(* Misses are counted across refused joins of every kind, so no socket is  *)
(* open with its allowance used up (the lockout of server.js).             *)
LockoutHolds == \A c \in Sockets : ready[c] = "open" => wrongPins[c] < MaxWrongPins

(* Nobody is left open by a shutdown, and nobody new gets in.              *)
ShutdownCloses == shuttingDown => \A c \in Sockets : ready[c] # "open"

InSession(c) == \E p \in Pins : Live(p) /\ c \in Ends(p)

(* A peer that vanishes without a close frame does not keep its session:   *)
(* two sweeps terminate the socket, and its 'close' handler frees the PIN  *)
(* and tells the other end.                                                *)
SilentPeerReleased ==
    \A c \in Sockets : silent[c] /\ InSession(c) ~> ~InSession(c)

=============================================================================
