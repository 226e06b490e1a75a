----------------------- MODULE SignalingServerProofs -----------------------
(***************************************************************************)
(* Proofs about SignalingServer: the lockout and the shutdown, and that    *)
(* the keepalive sweep, the lockout and the shutdown, which close sockets  *)
(* at times the registry does not choose, break none of its invariants.    *)
(***************************************************************************)
EXTENDS SignalingServer, SessionManagerProofs

(* A step outside the registry: sockets are closed at most, and their      *)
(* 'close' events are still to come; nothing is relayed.                   *)
Withdraws ==
    /\ UNCHANGED registry
    /\ \A c \in Sockets : ready'[c] \in {ready[c], "closing", "concluded"}
    /\ ready' \in [Sockets -> ReadyStates]
    /\ \A c, d \in Sockets : Relayed(c) \notin out'[d]

(* A message of the server itself is no relayed one.                       *)
LEMMA OwnOutput ==
  ASSUME NEW t, t # "relay",
         \/ out' = Nothing
         \/ \E target : Deliver(Only(target, t))
         \/ Deliver([c \in Sockets |-> {Msg(t)}])
  PROVE  \A c, d \in Sockets : Relayed(c) \notin out'[d]
  BY NoRelay DEF Nothing, Deliver, Only

(* What a step of the server does to the registry, the sockets and what is *)
(* sent to them.                                                           *)
LEMMA ServerProjection ==
  ASSUME RegistryTypeOK, [ServerNext]_serverVars
  PROVE  [Next]_vars \/ Withdraws
  <1>1. CASE Timers
    BY <1>1 DEF Timers, Next
  <1>2. CASE Sweep \/ Shutdown
    <2>1. \A c, d \in Sockets : Relayed(c) \notin out'[d]
      BY <1>2, OwnOutput DEF Sweep, Shutdown
    <2>2. QED
      BY <1>2, <2>1 DEF Sweep, Shutdown, Withdraws, RegistryTypeOK, ReadyStates
  <1>3. ASSUME NEW c \in Sockets, OnConnection(c) \/ OnError(c) \/ OnClose(c) \/ ClientCloses(c)
        PROVE  Next
    BY <1>3 DEF OnConnection, OnError, OnClose, ClientCloses, Next, SocketStep
  <1>4. ASSUME NEW c \in Sockets, OnMessage(c) PROVE Next \/ Withdraws
    <2>1. CASE OnRateLimited(c) \/ OnMalformedPin(c)
      <3>1. PICK t \in {"rate_limited", "invalid_pin"} : Deliver(Only(c, t))
        BY <2>1 DEF OnRateLimited, OnMalformedPin
      <3>2. t # "relay"
        OBVIOUS
      <3>3. \A w, d \in Sockets : Relayed(w) \notin out'[d]
        BY <3>1, <3>2, OwnOutput, Zenon
      <3>4. QED
        BY <2>1, <3>3 DEF OnRateLimited, OnMalformedPin, Withdraws, RegistryTypeOK
    <2>2. ASSUME NEW p \in Pins, OnWrongPin(c, p) PROVE Next
      BY <2>2 DEF OnWrongPin, Next, SocketStep
    <2>3. QED
      BY <1>4, <2>1, <2>2 DEF OnMessage, Next, SocketStep
  <1>5. ASSUME NEW c \in Sockets, OnPong(c) \/ GoSilent(c) PROVE Withdraws
    <2>1. \A w, d \in Sockets : Relayed(w) \notin out'[d]
      BY <1>5 DEF OnPong, GoSilent, Nothing
    <2>2. QED
      BY <1>5, <2>1 DEF OnPong, GoSilent, Withdraws, RegistryTypeOK
  <1>6. CASE UNCHANGED serverVars
    BY <1>6 DEF serverVars
  <1>7. QED
    BY <1>1, <1>2, <1>3, <1>4, <1>5, <1>6 DEF ServerNext

-----------------------------------------------------------------------------
(* The registry in the server. *)

ServerRegistryInv == RegistryTypeOK /\ LookupInv /\ NoDeadEnds

(* ServerRegistryInv is inductive over the steps of the server.            *)
LEMMA ServerRegistryStep ==
  ASSUME ServerRegistryInv, [ServerNext]_serverVars
  PROVE  ServerRegistryInv'
  <1> USE DEF ServerRegistryInv
  <1>1. CASE [Next]_vars
    BY <1>1, RegistryTypeStep, LookupStep, NoDeadEndsStep
  <1>2. CASE Withdraws
    <2>1. RegistryTypeOK'
      BY <1>2 DEF Withdraws, RegistryTypeOK, registry
    <2>2. LookupInv'
      BY <1>2 DEF Withdraws, registry, LookupInv, PairedHasViewer, MappingCurrent,
                  DisciplinedLookup, ReverseLookup, OneSessionPerSocket, Ends, Live
    <2>3. NoDeadEnds'
      <3>1. \A c \in Sockets : ready'[c] = "closed" => ready[c] = "closed"
        BY <1>2 DEF Withdraws
      <3>2. QED
        BY <1>2, <3>1 DEF Withdraws, registry, NoDeadEnds, Ends, Live
    <2>4. QED
      BY <2>1, <2>2, <2>3
  <1>3. QED
    BY <1>1, <1>2, ServerProjection

(* ServerRegistryInv holds along every behaviour of the server.            *)
LEMMA ServerRegistryInvariant == ServerSpec => []ServerRegistryInv
  <1>1. ServerInit => ServerRegistryInv
    BY RegistryTypeInit, LookupInit DEF ServerInit, ServerRegistryInv, Init, NoDeadEnds, Live
  <1>2. QED
    BY <1>1, ServerRegistryStep, PTL DEF ServerSpec

(* Whatever sockets the server closes, the lookup of the registry stays    *)
(* current and, for clients that ask for one session at a time, exact, and *)
(* no session outlives the 'close' event of one of its ends.               *)
THEOREM RegistryHoldsInServer ==
  ServerSpec => [](MappingCurrent /\ DisciplinedLookup /\ OneSessionPerSocket /\ NoDeadEnds)
  <1>1. ServerRegistryInv
          => MappingCurrent /\ DisciplinedLookup /\ OneSessionPerSocket /\ NoDeadEnds
    BY DEF ServerRegistryInv, LookupInv
  <1>2. QED
    BY <1>1, ServerRegistryInvariant, PTL

(* A PIN of the server serves one viewer, too.                             *)
THEOREM OneViewerPerPinInServer == ServerSpec => PinSingleUse
  <1>1. RegistryTypeOK /\ [ServerNext]_serverVars => [KeepsEnds]_vars
    <2> SUFFICES ASSUME RegistryTypeOK, [ServerNext]_serverVars PROVE KeepsEnds
      OBVIOUS
    <2>1. CASE Withdraws
      BY <2>1 DEF Withdraws, registry, KeepsEnds, Ends
    <2>2. QED
      BY <2>1, KeepsEndsStep, ServerProjection
  <1>2. ServerRegistryInv => RegistryTypeOK
    BY DEF ServerRegistryInv
  <1>3. QED
    BY <1>1, <1>2, ServerRegistryInvariant, PTL DEF ServerSpec, PinSingleUse, KeepsEnds

(* Nor does a step of the server's own end a session or relay anything:    *)
(* survivors are told and messages stay in their session there, too.       *)
THEOREM SessionsHandledInServer == ServerSpec => SurvivorNotified /\ RelayWithinSession
  <1>1. ServerRegistryInv /\ [ServerNext]_serverVars => [TellsSurvivors /\ RelaysWithin]_vars
    <2> SUFFICES ASSUME ServerRegistryInv, [ServerNext]_serverVars
                 PROVE  [TellsSurvivors /\ RelaysWithin]_vars
      OBVIOUS
    <2>1. RegistryTypeOK /\ LookupInv
      BY DEF ServerRegistryInv
    <2>2. CASE Withdraws
      BY <2>2 DEF Withdraws, registry, TellsSurvivors, Live, Paired, RelaysWithin
    <2>3. CASE Next
      BY <2>1, <2>3, SurvivorStep, RelayStep
    <2>4. QED
      BY <2>1, <2>2, <2>3, ServerProjection
  <1>2. QED
    BY <1>1, ServerRegistryInvariant, PTL
       DEF ServerSpec, SurvivorNotified, RelayWithinSession, TellsSurvivors, RelaysWithin

-----------------------------------------------------------------------------
(* The connections. *)

(* A step of the server puts only server messages on the sockets.          *)
LEMMA ServerOutput ==
  ASSUME RegistryTypeOK, ServerNext
  PROVE  out' \in [Sockets -> SUBSET ServerMessages]
  <1>1. ASSUME Next PROVE out' \in [Sockets -> SUBSET ServerMessages]
    <2>1. out' \in [Sockets -> SUBSET Messages]
      BY <1>1, OutputStep
    <2>2. QED
      BY <2>1 DEF ServerMessages
  <1>2. ASSUME NEW f \in [Sockets -> SUBSET ServerMessages], Deliver(f)
        PROVE  out' \in [Sockets -> SUBSET ServerMessages]
    BY <1>2 DEF Deliver
  <1>3. CASE Timers
    BY <1>1, <1>3 DEF Timers, Next
  <1>4. CASE Sweep
    BY <1>4 DEF Sweep, Nothing
  <1>5. CASE Shutdown
    <2>1. [c \in Sockets |-> {Msg("server_shutdown")}] \in [Sockets -> SUBSET ServerMessages]
      BY DEF ServerMessages
    <2>2. QED
      BY <1>2, <1>5, <2>1 DEF Shutdown
  <1>6. ASSUME NEW c \in Sockets, OnConnection(c) \/ OnError(c) \/ OnClose(c) \/ ClientCloses(c)
        PROVE  Next
    BY <1>6 DEF OnConnection, OnError, OnClose, ClientCloses, Next, SocketStep
  <1>7. ASSUME NEW c \in Sockets, OnMessage(c) PROVE out' \in [Sockets -> SUBSET ServerMessages]
    <2>1. CASE OnRateLimited(c)
      <3>1. Only(c, "rate_limited") \in [Sockets -> SUBSET ServerMessages]
        BY DEF Only, ServerMessages
      <3>2. QED
        BY <1>2, <2>1, <3>1 DEF OnRateLimited
    <2>2. CASE OnMalformedPin(c)
      <3>1. Only(c, "invalid_pin") \in [Sockets -> SUBSET ServerMessages]
        BY DEF Only, ServerMessages, Messages
      <3>2. QED
        BY <1>2, <2>2, <3>1 DEF OnMalformedPin
    <2>3. ASSUME NEW p \in Pins, OnWrongPin(c, p) PROVE Next
      BY <2>3 DEF OnWrongPin, Next, SocketStep
    <2>4. QED
      BY <1>1, <1>7, <2>1, <2>2, <2>3 DEF OnMessage, Next, SocketStep
  <1>8. ASSUME NEW c \in Sockets, OnPong(c) \/ GoSilent(c)
        PROVE  out' \in [Sockets -> SUBSET ServerMessages]
    BY <1>8 DEF OnPong, GoSilent, Nothing
  <1>9. QED
    BY <1>1, <1>3, <1>4, <1>5, <1>6, <1>7, <1>8 DEF ServerNext

(* The marks that the connection handlers keep on each socket.             *)
ConnTypeOK ==
    /\ wrongPins \in [Sockets -> 0..MaxWrongPins]
    /\ isAlive \in [Sockets -> BOOLEAN]
    /\ silent \in [Sockets -> BOOLEAN]
    /\ shuttingDown \in BOOLEAN

(* The connections have their types initially.                             *)
LEMMA ConnTypeInit == ServerInit => ConnTypeOK
  <1> SUFFICES ASSUME ServerInit PROVE ConnTypeOK
    OBVIOUS
  <1>1. /\ wrongPins = [c \in Sockets |-> 0]
        /\ isAlive = [c \in Sockets |-> TRUE]
        /\ silent = [c \in Sockets |-> FALSE]
        /\ shuttingDown = FALSE
    BY DEF ServerInit
  <1>2. wrongPins \in [Sockets -> 0..MaxWrongPins]
    BY <1>1, MaxWrongPinsAssumption
  <1>3. isAlive \in [Sockets -> BOOLEAN]
    BY <1>1, Zenon
  <1>4. silent \in [Sockets -> BOOLEAN]
    BY <1>1, Zenon
  <1>5. shuttingDown \in BOOLEAN
    BY <1>1, Zenon
  <1>6. QED
    BY <1>2, <1>3, <1>4, <1>5, Zenon DEF ConnTypeOK

(* A miss is counted in the step that may close the socket, and no step    *)
(* opens one again.                                                        *)
ConnInv == ConnTypeOK /\ LockoutHolds /\ ShutdownCloses

(* ConnInv is inductive.                                                   *)
LEMMA ConnStep ==
  ASSUME RegistryTypeOK, ConnInv, [ServerNext]_serverVars
  PROVE  ConnInv'
  <1> USE MaxWrongPinsAssumption DEF ConnInv, ConnTypeOK
  <1>1. ASSUME \A c \in Sockets : ready'[c] = "open" => ready[c] = "open",
               wrongPins' = wrongPins,
               isAlive' \in [Sockets -> BOOLEAN], silent' \in [Sockets -> BOOLEAN],
               shuttingDown' = shuttingDown
        PROVE  ConnInv'
    BY <1>1 DEF LockoutHolds, ShutdownCloses
  <1>2. CASE Timers
    BY <1>1, <1>2 DEF Timers, Cleanup, Tick, connVars
  <1>3. CASE Sweep
    BY <1>1, <1>3 DEF Sweep
  <1>4. CASE Shutdown
    <2>1. UNCHANGED connVars /\ shuttingDown' /\ \A c \in Sockets : ready'[c] # "open"
      BY <1>4 DEF Shutdown
    <2>2. QED
      BY <2>1 DEF connVars, LockoutHolds, ShutdownCloses
  <1>5. ASSUME NEW c \in Sockets, OnConnection(c) PROVE ConnInv'
    <2>1. ConnTypeOK'
      BY <1>5 DEF OnConnection
    <2>2. LockoutHolds'
      BY <1>5 DEF OnConnection, Connect, LockoutHolds, RegistryTypeOK
    <2>3. QED
      BY <1>5, <2>1, <2>2 DEF OnConnection, ShutdownCloses
  <1>6. ASSUME NEW c \in Sockets, NEW p \in Pins, OnWrongPin(c, p), shuttingDown' = shuttingDown
        PROVE  ConnInv'
    <2>1. ConnTypeOK'
      BY <1>6 DEF OnWrongPin
    <2>2. \A d \in Sockets : ready'[d] = "open" => ready[d] = "open"
      BY <1>6 DEF OnWrongPin, RegistryTypeOK
    <2>3. ready'[c] = "open" => wrongPins'[c] < MaxWrongPins
      BY <1>6 DEF OnWrongPin, LocksOut, RegistryTypeOK
    <2>4. LockoutHolds'
      BY <1>6, <2>2, <2>3 DEF OnWrongPin, LockoutHolds
    <2>5. QED
      BY <1>6, <2>1, <2>2, <2>4 DEF ShutdownCloses
  <1>7. ASSUME NEW c \in Sockets, OnMessage(c) PROVE ConnInv'
    <2>1. shuttingDown' = shuttingDown
      BY <1>7 DEF OnMessage
    <2>2. \/ \E p \in Pins : OnWrongPin(c, p)
          \/ ready' = ready /\ UNCHANGED connVars
      BY <1>7 DEF OnMessage, OnRateLimited, OnMalformedPin, CreateSession, CreateSessionFails,
                  JoinSession, Relay, EndSession
    <2>3. QED
      BY <1>1, <1>6, <2>1, <2>2 DEF connVars
  <1>8. ASSUME NEW c \in Sockets,
               OnPong(c) \/ GoSilent(c) \/ OnError(c) \/ OnClose(c) \/ ClientCloses(c)
        PROVE  ConnInv'
    <2>1. \A d \in Sockets : ready'[d] = "open" => ready[d] = "open"
      BY <1>8 DEF OnPong, GoSilent, OnError, SocketError, OnClose, CloseEvent, ClientCloses,
                  Conclude, RegistryTypeOK
    <2>2. /\ wrongPins' = wrongPins /\ shuttingDown' = shuttingDown
          /\ isAlive' \in [Sockets -> BOOLEAN] /\ silent' \in [Sockets -> BOOLEAN]
      BY <1>8 DEF OnPong, GoSilent, OnError, OnClose, ClientCloses, connVars
    <2>3. QED
      BY <1>1, <2>1, <2>2
  <1>9. CASE UNCHANGED serverVars
    BY <1>1, <1>9 DEF serverVars, vars, connVars
  <1>10. QED
    BY <1>2, <1>3, <1>4, <1>5, <1>7, <1>8, <1>9 DEF ServerNext

(* ConnInv holds along every behaviour of the server.                      *)
LEMMA ConnInvariant == ServerSpec => []ConnInv
  <1>1. ServerInit => ConnInv
    <2> SUFFICES ASSUME ServerInit PROVE ConnInv
      OBVIOUS
    <2>1. ConnTypeOK
      BY ConnTypeInit
    <2>2. \A c \in Sockets : ready[c] = "closed"
      BY DEF ServerInit, Init
    <2>3. QED
      BY <2>1, <2>2 DEF ConnInv, LockoutHolds, ShutdownCloses
  <1>2. ServerRegistryInv => RegistryTypeOK
    BY DEF ServerRegistryInv
  <1>3. QED
    BY <1>1, <1>2, ConnStep, ServerRegistryInvariant, PTL DEF ServerSpec

(* Every variable keeps its type.                                          *)
THEOREM ServerTypeCorrect == ServerSpec => []ServerTypeOK
  <1>1. ServerInit => ServerTypeOK
    <2> SUFFICES ASSUME ServerInit PROVE ServerTypeOK
      OBVIOUS
    <2>1. RegistryTypeOK
      BY RegistryTypeInit DEF ServerInit
    <2>2. out \in [Sockets -> SUBSET ServerMessages]
      BY DEF ServerInit, Init, Nothing
    <2>3. ConnTypeOK
      BY ConnTypeInit
    <2>4. QED
      BY <2>1, <2>2, <2>3 DEF ServerTypeOK, RegistryTypeOK, ConnTypeOK
  <1>2. ServerTypeOK /\ RegistryTypeOK /\ RegistryTypeOK' /\ ConnInv' /\ [ServerNext]_serverVars
          => ServerTypeOK'
    <2> SUFFICES ASSUME ServerTypeOK, RegistryTypeOK, RegistryTypeOK', ConnInv',
                        [ServerNext]_serverVars
                 PROVE  ServerTypeOK'
      OBVIOUS
    <2>1. out' \in [Sockets -> SUBSET ServerMessages]
      BY ServerOutput DEF ServerTypeOK, serverVars, vars
    <2>2. QED
      BY <2>1 DEF ServerTypeOK, RegistryTypeOK, ConnInv, ConnTypeOK
  <1>3. ServerRegistryInv => RegistryTypeOK
    BY DEF ServerRegistryInv
  <1>4. QED
    BY <1>1, <1>2, <1>3, ConnInvariant, ServerRegistryInvariant, PTL DEF ServerSpec

(* No socket is open with all its wrong PINs used up, for every limit.     *)
THEOREM LockoutAlwaysHolds == ServerSpec => []LockoutHolds
  <1>1. ConnInv => LockoutHolds
    BY DEF ConnInv
  <1>2. QED
    BY <1>1, ConnInvariant, PTL

(* After the signal nobody is open, and stays so.                          *)
THEOREM ShutdownAlwaysCloses == ServerSpec => []ShutdownCloses
  <1>1. ConnInv => ShutdownCloses
    BY DEF ConnInv
  <1>2. QED
    BY <1>1, ConnInvariant, PTL

=============================================================================
