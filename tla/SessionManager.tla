--------------------------- MODULE SessionManager ---------------------------
(***************************************************************************)
(* The signaling server's session registry (server/session-manager.js) and *)
(* the calls server/server.js makes into it.  A session is named by a PIN; *)
(* a host opens it, one viewer joins it, and messages are relayed between  *)
(* the two sockets until one of them leaves or the PIN expires.            *)
(*                                                                         *)
(* Node runs one handler at a time, so a handler is one step.  `out' holds *)
(* what the handler that ran last put on each socket: it is the output of  *)
(* the step, not a queue.                                                  *)
(***************************************************************************)
EXTENDS Naturals

CONSTANTS
    Sockets,      \* ws objects of the connected clients
    Pins,         \* the PIN space, 100000..999999 in the code
    TTL,          \* PIN_TTL, in ticks of the abstract clock
    Disciplined,  \* TRUE: a socket opens or joins one session at a time,
                  \* as the shipped clients do (one socket per attempt)
    NoSocket,     \* `null' in the viewer field
    NoPin,        \* `undefined' in hostToPin
    NoSession     \* `undefined' in sessions

ASSUME TTLAssumption == TTL \in Nat
ASSUME DisciplinedAssumption == Disciplined \in BOOLEAN
ASSUME SentinelAssumption ==
    /\ NoSocket \notin Sockets
    /\ NoPin \notin Pins

VARIABLES
    sessions,   \* Map PIN -> { host, viewer, created, state }
    hostToPin,  \* Map ws -> PIN
    ready,      \* readyState of each ws object, see ReadyStates
    out         \* messages the last handler sent on each socket

vars == <<sessions, hostToPin, ready, out>>
registry == <<sessions, hostToPin>>

(***************************************************************************)
(* "closing": the server called ws.close(), frames of the client still     *)
(* arrive.  "concluded": the client's close frame, a transport error or    *)
(* ws.terminate() ended the input; the 'close' event has not fired yet.    *)
(* "closed": it has.                                                       *)
(***************************************************************************)
ReadyStates == {"open", "closing", "concluded", "closed"}

(* `age' is Date.now() - created, saturated just past the TTL: the code    *)
(* only asks whether it exceeds the TTL.                                   *)
Session == [host   : Sockets,
            viewer : Sockets \cup {NoSocket},
            age    : 0..TTL + 1,
            state  : {"waiting", "paired"}]

ASSUME NoSessionAssumption ==
    /\ NoSession \notin Session
    /\ NoSession \notin [host : Sockets, viewer : Sockets \cup {NoSocket}]

Msg(type) == [type |-> type]
Relayed(sender) == [type |-> "relay", from |-> sender]

Messages ==
    {Msg(t) : t \in {"session-created", "session-joined", "viewer-joined",
                     "invalid_pin", "server_error", "peer-disconnected",
                     "session-expired"}}
    \cup {Relayed(s) : s \in Sockets}

TypeOK ==
    /\ sessions \in [Pins -> Session \cup {NoSession}]
    /\ hostToPin \in [Sockets -> Pins \cup {NoPin}]
    /\ ready \in [Sockets -> ReadyStates]
    /\ out \in [Sockets -> SUBSET Messages]

-----------------------------------------------------------------------------

Live(p) == sessions[p] # NoSession
(* Faulty variant: a session that is in use can be joined again. *)
WaitingWhenUsed(p) == Live(p)

Waiting(p) == Live(p) /\ sessions[p].state = "waiting"
Paired(p) == Live(p) /\ sessions[p].state = "paired"

(* Faulty variant: the time limit applies to sessions in use, too. *)
ExpiredWhenUsed(p) == Live(p) /\ sessions[p].age > TTL

Expired(p) == Waiting(p) /\ sessions[p].age > TTL
Ends(p) == {sessions[p].host, sessions[p].viewer}

(* The socket takes part in some session, as host or viewer. *)
Engaged(c) == hostToPin[c] # NoPin \/ \E p \in Pins : Live(p) /\ c \in Ends(p)

(* Which sockets ask for a session: any, or those that have none. *)
MayAsk(c) == Disciplined => ~Engaged(c)

(* A frame of the client can still reach its message handler. *)
Receives(c) == ready[c] \in {"open", "closing"}

(* ws.send: a socket that is not open drops the message. *)
Deliver(f) == out' = [c \in Sockets |-> IF ready[c] = "open" THEN f[c] ELSE {}]
Nothing == [c \in Sockets |-> {}]
Only(target, type) ==
    [c \in Sockets |-> IF c = target THEN {Msg(type)} ELSE {}]

(* Faulty variant: the viewer's side of the lookup is missing. *)
PinsOfHostOnly(c) == IF hostToPin[c] # NoPin THEN {hostToPin[c]} ELSE {}

(***************************************************************************)
(* hostToPin.get(ws) || _findPinByViewer(ws).  A viewer found in several   *)
(* sessions yields the first one in insertion order, an order the model    *)
(* leaves open.                                                            *)
(***************************************************************************)
PinsOf(c) ==
    IF hostToPin[c] # NoPin
      THEN {hostToPin[c]}
      ELSE {p \in Pins : Live(p) /\ sessions[p].viewer = c}

(* Faulty variant: the two ends are swapped. *)
OtherSwapped(p, c) ==
    IF c = sessions[p].host THEN sessions[p].host ELSE sessions[p].viewer

(* The end of session p that socket c is not: `null' before a join. *)
Other(p, c) ==
    IF c = sessions[p].host THEN sessions[p].viewer ELSE sessions[p].host

(* destroySession deletes the reverse lookup of the host. *)
HostLeft(ps) ==
    hostToPin' = [c \in Sockets |->
                    IF \E p \in ps : Live(p) /\ sessions[p].host = c
                      THEN NoPin ELSE hostToPin[c]]

(* Faulty variants of destroySession: the session is kept with its host    *)
(* cleared; only the reverse lookup is deleted; only the session is.       *)
DestroyAllClearsHost(ps) ==
    /\ sessions' = [p \in Pins |->
                      IF p \in ps /\ Live(p)
                        THEN [sessions[p] EXCEPT !.host = NoSocket] ELSE sessions[p]]
    /\ HostLeft(ps)

DestroyAllKeepsSession(ps) == UNCHANGED sessions /\ HostLeft(ps)

DestroyAllKeepsLookup(ps) ==
    /\ sessions' = [p \in Pins |-> IF p \in ps THEN NoSession ELSE sessions[p]]
    /\ UNCHANGED hostToPin

(* destroySession for every PIN of a set. *)
DestroyAll(ps) ==
    /\ sessions' = [p \in Pins |-> IF p \in ps THEN NoSession ELSE sessions[p]]
    /\ HostLeft(ps)

DestroySession(p) == DestroyAll({p})

-----------------------------------------------------------------------------

Init ==
    /\ sessions = [p \in Pins |-> NoSession]
    /\ hostToPin = [c \in Sockets |-> NoPin]
    /\ ready = [c \in Sockets |-> "closed"]
    /\ out = Nothing

(* A new connection: a name no session mentions stands for a new object. *)
Connect(c) ==
    /\ ready[c] = "closed"
    /\ ~Engaged(c)
    /\ ready' = [ready EXCEPT ![c] = "open"]
    /\ out' = Nothing
    /\ UNCHANGED registry

(* create-session: a PIN not in use; the map entry of ws is overwritten. *)
CreateSession(c) ==
    /\ Receives(c)
    /\ MayAsk(c)
    /\ \E p \in Pins :
         /\ ~Live(p)
         /\ sessions' = [sessions EXCEPT ![p] =
                [host |-> c, viewer |-> NoSocket, age |-> 0, state |-> "waiting"]]
         /\ hostToPin' = [hostToPin EXCEPT ![c] = p]
    /\ Deliver(Only(c, "session-created"))
    /\ UNCHANGED ready

(* generatePin throws after 100 draws of PINs in use: some PIN is taken. *)
CreateSessionFails(c) ==
    /\ Receives(c)
    /\ MayAsk(c)
    /\ \E p \in Pins : Live(p)
    /\ Deliver(Only(c, "server_error"))
    /\ UNCHANGED <<registry, ready>>

(* join-session of a PIN that waits and has not expired. *)
JoinSession(c, p) ==
    /\ Receives(c)
    /\ MayAsk(c)
    /\ Waiting(p)
    /\ ~Expired(p)
    /\ sessions' = [sessions EXCEPT ![p].viewer = c, ![p].state = "paired"]
    /\ Deliver([w \in Sockets |->
                  (IF w = c THEN {Msg("session-joined")} ELSE {})
                  \cup (IF w = sessions[p].host THEN {Msg("viewer-joined")} ELSE {})])
    /\ UNCHANGED <<hostToPin, ready>>

(***************************************************************************)
(* join-session refused: unknown PIN, session in use, or a PIN found       *)
(* expired, which is destroyed on the spot.  The answer is invalid_pin in  *)
(* each case, and the server may close a socket that guesses too often.    *)
(***************************************************************************)
JoinRefused(c, p) ==
    /\ Receives(c)
    /\ MayAsk(c)
    /\ \/ ~Waiting(p) /\ UNCHANGED registry
       \/ Expired(p) /\ DestroySession(p)
    /\ Deliver(Only(c, "invalid_pin"))
    /\ ready' \in {ready, [ready EXCEPT ![c] = "closing"]}

(* offer, answer or ice-candidate of c goes to the other end, if open. *)
Relay(c) ==
    /\ Receives(c)
    /\ \E p \in PinsOf(c) :
         Deliver([w \in Sockets |-> IF w = Other(p, c) THEN {Relayed(c)} ELSE {}])
    /\ UNCHANGED <<registry, ready>>

(* handleDisconnect: tell the other end, destroy the session. *)
HandleDisconnect(c) ==
    \/ /\ PinsOf(c) = {}
       /\ out' = Nothing
       /\ UNCHANGED registry
    \/ \E p \in PinsOf(c) :
         /\ Deliver(Only(Other(p, c), "peer-disconnected"))
         /\ DestroySession(p)

EndSession(c) ==
    /\ Receives(c)
    /\ HandleDisconnect(c)
    /\ UNCHANGED ready

(* 'error' on the socket; its 'close' event follows. *)
SocketError(c) ==
    /\ Receives(c)
    /\ ready' = [ready EXCEPT ![c] = "concluded"]
    /\ HandleDisconnect(c)

(* The server closes the socket; frames in flight are still handled. *)
ServerCloses(c) ==
    /\ ready[c] = "open"
    /\ ready' = [ready EXCEPT ![c] = "closing"]
    /\ out' = Nothing
    /\ UNCHANGED registry

(* The client's close frame arrived, or the socket was terminated. *)
Conclude(c) ==
    /\ Receives(c)
    /\ ready' = [ready EXCEPT ![c] = "concluded"]
    /\ out' = Nothing
    /\ UNCHANGED registry

(* 'close' event. *)
CloseEvent(c) ==
    /\ ready[c] = "concluded"
    /\ ready' = [ready EXCEPT ![c] = "closed"]
    /\ HandleDisconnect(c)

(* Faulty variant: a PIN whose host cannot be told is not reclaimed. *)
CleanupOpenHosts ==
    LET gone == {p \in Pins : Expired(p) /\ ready[sessions[p].host] = "open"} IN
    /\ Deliver([c \in Sockets |->
                  IF \E p \in gone : sessions[p].host = c
                    THEN {Msg("session-expired")} ELSE {}])
    /\ DestroyAll(gone)
    /\ UNCHANGED ready

(* _cleanup, every CLEANUP_INTERVAL: expired PINs are reclaimed. *)
Cleanup ==
    LET gone == {p \in Pins : Expired(p)} IN
    /\ Deliver([c \in Sockets |->
                  IF \E p \in gone : sessions[p].host = c
                    THEN {Msg("session-expired")} ELSE {}])
    /\ DestroyAll(gone)
    /\ UNCHANGED ready

(* Time passes. *)
Tick ==
    /\ sessions' = [p \in Pins |->
                      IF Live(p) /\ sessions[p].age <= TTL
                        THEN [sessions[p] EXCEPT !.age = @ + 1] ELSE sessions[p]]
    /\ out' = Nothing
    /\ UNCHANGED <<hostToPin, ready>>

SocketStep(c) ==
    \/ Connect(c)
    \/ CreateSession(c)
    \/ CreateSessionFails(c)
    \/ \E p \in Pins : JoinSession(c, p) \/ JoinRefused(c, p)
    \/ Relay(c)
    \/ EndSession(c)
    \/ SocketError(c)
    \/ ServerCloses(c)
    \/ Conclude(c)
    \/ CloseEvent(c)

Next == Cleanup \/ Tick \/ \E c \in Sockets : SocketStep(c)

Spec == Init /\ [][Next]_vars

(* The clock advances and the cleanup timer fires; nothing else is assumed. *)
FairSpec == Spec /\ WF_vars(Tick) /\ WF_vars(Cleanup)

-----------------------------------------------------------------------------
(* Safety. *)

(* The reverse lookup hostToPin never points at a session that is gone or  *)
(* at one of another host, whatever the clients send (createSession,       *)
(* destroySession).                                                        *)
MappingCurrent ==
    \A c \in Sockets :
      hostToPin[c] # NoPin =>
        /\ Live(hostToPin[c])
        /\ sessions[hostToPin[c]].host = c

(* Every session can be found from its host's socket: hostToPin is the     *)
(* reverse of sessions (constructor comment), so that a host that leaves   *)
(* takes its session along.                                                *)
ReverseLookup ==
    \A p \in Pins : Live(p) => hostToPin[sessions[p].host] = p

(* With clients that ask for one session at a time, no socket is in two    *)
(* sessions or on both ends of one, so the `host || viewer' lookup of      *)
(* relay and handleDisconnect has a single answer.                         *)
OneSessionPerSocket ==
    Disciplined =>
      \A p, q \in Pins :
        Live(p) /\ Live(q) =>
          /\ p # q => Ends(p) \cap Ends(q) \subseteq {NoSocket}
          /\ sessions[p].host # sessions[p].viewer

(* No session survives the 'close' event of one of its ends: nobody waits  *)
(* for a peer that is gone (handleDisconnect on 'close' and 'error').      *)
NoDeadEnds ==
    Disciplined =>
      \A p \in Pins : Live(p) =>
        \A c \in Ends(p) \cap Sockets : ready[c] # "closed"

(* With such clients the lookup is total, and a host takes its session     *)
(* along when it leaves.                                                   *)
DisciplinedLookup == Disciplined => ReverseLookup

(* A PIN is single-use (README): a session that has a viewer keeps both    *)
(* its ends until it is destroyed, however many joins race for it.         *)
PinSingleUse ==
    [][\A p \in Pins : Paired(p) /\ Live(p)' => Ends(p)' = Ends(p)]_vars

(* A message is relayed only between the two ends of one session.          *)
RelayWithinSession ==
    [][\A c, d \in Sockets : Relayed(c) \in out'[d] =>
         \E p \in Pins : Paired(p) /\ {c, d} = Ends(p)]_vars

(* Sockets that leave by their own doing in this step. *)
Departs(c) == EndSession(c) \/ SocketError(c) \/ CloseEvent(c)

Notified(c) ==
    {Msg("peer-disconnected"), Msg("session-expired")} \cap out'[c] # {}

(* When a session ends under an open socket, that socket is told, unless   *)
(* it is the one that left.  What session.rs relies on to tear down when   *)
(* the server expires the session.                                         *)
EndNotified ==
    [][\A p \in Pins : Live(p) /\ ~Live(p)' =>
         \A c \in Ends(p) \cap Sockets :
           ready[c] = "open" => Notified(c) \/ Departs(c)]_vars

(* The same for sessions that have both ends: the survivor is always told. *)
SurvivorNotified ==
    [][\A p \in Pins : Paired(p) /\ ~Live(p)' =>
         \A c \in Ends(p) \cap Sockets :
           ready[c] = "open" => Notified(c) \/ Departs(c)]_vars

(* The abstract registry, with the sessions reduced to their ends. *)
Registry == INSTANCE PinRegistry
    WITH Parties <- Sockets,
         Nobody  <- NoSocket,
         Free    <- NoSession,
         present <- {c \in Sockets : ready[c] # "closed"},
         ends    <- [p \in Pins |->
                       IF Live(p)
                         THEN [host |-> sessions[p].host,
                               viewer |-> sessions[p].viewer]
                         ELSE NoSession]

(* With disciplined clients the code does what the abstract registry       *)
(* promises: the single lookup of handleDisconnect finds every session of  *)
(* the party that departs.                                                 *)
ImplementsRegistry == Registry!Spec

(* Liveness. *)

(* A PIN does not wait for ever: it is joined, given up or reclaimed       *)
(* (_cleanup: "expired sessions MUST be reclaimed regardless").            *)
WaitingResolved == \A p \in Pins : Waiting(p) ~> ~Waiting(p)

=============================================================================
