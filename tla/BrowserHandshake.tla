-------------------------- MODULE BrowserHandshake --------------------------
(***************************************************************************)
(* The two browser clients, the lite host (ghostview-host-lite.js) and the *)
(* viewer (ghostview-viewer.js), with the server between them.  JavaScript *)
(* runs a handler up to its next `await', so a handler with awaits is a    *)
(* chain of actions and `task' says at which await it is.                  *)
(*                                                                         *)
(* A peer connection works off its operations in the order of the calls:   *)
(* a call has its effect when it is made, the await ends later.            *)
(*                                                                         *)
(* Each page makes a fresh object for each press of its button, so one     *)
(* start and one connect are the whole life of an object.  The status      *)
(* shown to the user and media are left out.                               *)
(***************************************************************************)
EXTENDS Naturals, Sequences

CONSTANTS
    HostCandidates,    \* ICE candidates the host's browser gathers
    ViewerCandidates   \* ICE candidates the viewer's browser gathers

ASSUME DisjointAssumption == HostCandidates \cap ViewerCandidates = {}

VARIABLES
    opening,            \* where start() and connect() are, see OpeningStates
    ws,                 \* "none", "connecting", "open" or "lost"
    pc,                 \* this.pc is not null
    stream,             \* the host's this.stream is not null
    pinShown,           \* the host page shows the PIN and its stop button
    closed,             \* this.closed
    remoteDescSet,      \* this.remoteDescSet
    pendingCandidates,  \* this.pendingCandidates
    task,               \* the negotiation handler, see TaskStates
    described,          \* setRemoteDescription was accepted by the connection
    gathering,          \* candidates of this end still to be surfaced,
                        \* {} until setLocalDescription is called
    surfaced,           \* candidates handed to the icecandidate handler
    applied,            \* candidates addIceCandidate accepted
    refused,            \* candidates it refused for want of a description
    up,                 \* frames on their way to the server
    down,               \* frames on their way from the server
    served              \* the session at the server

pageVars == <<opening, ws, pc, stream, pinShown, closed>>
iceVars == <<described, gathering, surfaced, applied, refused>>
handlerVars == <<remoteDescSet, pendingCandidates, task>>
vars == <<pageVars, iceVars, handlerVars, up, down, served>>

Ends == {"host", "viewer"}
Other(e) == IF e = "host" THEN "viewer" ELSE "host"
Own(e) == IF e = "host" THEN HostCandidates ELSE ViewerCandidates
Candidates == HostCandidates \cup ViewerCandidates

FrameTypes == {"create-session", "session-created", "join-session", "session-joined",
               "viewer-joined", "offer", "answer", "peer-disconnected", "session-expired",
               "error", "end-session", "gone"}

(* A candidate is data of a frame, never the type of one.                  *)
ASSUME FrameAssumption == Candidates \cap FrameTypes = {}

OpeningStates == {"new", "picker", "socket", "done", "failed"}
TaskStates == {"idle", "createOffer", "setLocal", "setRemote", "drain",
               "createAnswer", "failed"}

Relayed(e) == Own(e) \cup (IF e = "host" THEN {"offer"} ELSE {"answer"})
Requests(e) == Relayed(e) \cup {"end-session", "gone"}
               \cup (IF e = "host" THEN {"create-session"} ELSE {"join-session"})
Notices(e) == Relayed(Other(e)) \cup {"peer-disconnected", "error"}
              \cup (IF e = "host" THEN {"session-created", "viewer-joined", "session-expired"}
                    ELSE {"session-joined"})

-----------------------------------------------------------------------------
(* Both files. *)

(* _send: dropped unless the socket is open. *)
Send(e, m) == up' = IF ws[e] = "open" THEN [up EXCEPT ![e] = Append(@, m)] ELSE up

(* A message event: none is delivered once the socket is not open. *)
Arrives(e, m) == ws[e] = "open" /\ down[e] # <<>> /\ Head(down[e]) = m
Take(e) == down' = [down EXCEPT ![e] = Tail(@)]

(* stop() and close(); the server sees `end-session' and then the close.   *)
CloseEnd(e) ==
    /\ closed' = [closed EXCEPT ![e] = TRUE]
    /\ up' = IF ws[e] = "open" /\ ~closed[e]
             THEN [up EXCEPT ![e] = @ \o <<"end-session", "gone">>] ELSE up
    /\ IF closed[e] THEN UNCHANGED <<ws, pc, stream, pinShown>>
       ELSE /\ ws' = [ws EXCEPT ![e] = "none"]
            /\ pc' = [pc EXCEPT ![e] = FALSE]
            /\ stream' = (stream /\ e # "host")
            /\ pinShown' = (pinShown /\ e # "host")
    /\ UNCHANGED <<opening, served>>

(* pc.addIceCandidate(c) *)
AddIce(e, c) ==
    IF described[e]
    THEN applied' = [applied EXCEPT ![e] = @ \cup {c}] /\ UNCHANGED refused
    ELSE refused' = [refused EXCEPT ![e] = @ \cup {c}] /\ UNCHANGED applied

(* Faulty variant of RemoteIce: a connection is enough. *)
RemoteIceAtOnce(e) == \E c \in Own(Other(e)) :
    /\ Arrives(e, c) /\ Take(e)
    /\ IF pc[e]
       THEN AddIce(e, c) /\ UNCHANGED pendingCandidates
       ELSE /\ pendingCandidates' = [pendingCandidates EXCEPT ![e] = Append(@, c)]
            /\ UNCHANGED <<applied, refused>>
    /\ UNCHANGED <<pageVars, described, gathering, surfaced, remoteDescSet, task, up, served>>

(* _handleRemoteIce: nothing follows its await. *)
RemoteIce(e) == \E c \in Own(Other(e)) :
    /\ Arrives(e, c) /\ Take(e)
    /\ IF pc[e] /\ remoteDescSet[e]
       THEN AddIce(e, c) /\ UNCHANGED pendingCandidates
       ELSE /\ pendingCandidates' = [pendingCandidates EXCEPT ![e] = Append(@, c)]
            /\ UNCHANGED <<applied, refused>>
    /\ UNCHANGED <<pageVars, described, gathering, surfaced, remoteDescSet, task, up, served>>

(* The description of the other end arrives: setRemoteDescription is       *)
(* called; it may be rejected, which shows when the await ends.            *)
CallSetRemote(e) ==
    /\ pc' = [pc EXCEPT ![e] = TRUE]
    /\ \E ok \in BOOLEAN : described' = [described EXCEPT ![e] = ok]
    /\ task' = [task EXCEPT ![e] = "setRemote"]
    /\ UNCHANGED <<opening, ws, stream, pinShown, closed, gathering, surfaced, applied,
                   refused, remoteDescSet, pendingCandidates, up, served>>

(* setLocalDescription is called.  A browser surfaces candidates after the *)
(* await, the desktop host may do so before (HostSignaling); the viewer    *)
(* serves both, so here they can surface from the call on.                 *)
CallSetLocal(e) ==
    /\ task' = [task EXCEPT ![e] = "setLocal"]
    /\ gathering' = [gathering EXCEPT ![e] = Own(e)]

(* An await throws, or never ends because the connection was closed. *)
HandlerEnds(e) ==
    /\ task' = [task EXCEPT ![e] = "failed"]
    /\ pendingCandidates' = [pendingCandidates EXCEPT ![e] = IF task[e] = "drain" THEN <<>> ELSE @]
    /\ UNCHANGED <<remoteDescSet, iceVars, up>>

(* Faulty variant: the buffer is emptied before it is gone through. *)
RemoteSetForgets(e) ==
    /\ task[e] = "setRemote" /\ pc[e] /\ described[e]
    /\ remoteDescSet' = [remoteDescSet EXCEPT ![e] = TRUE]
    /\ pendingCandidates' = [pendingCandidates EXCEPT ![e] = <<>>]
    /\ task' = [task EXCEPT ![e] = "drain"]
    /\ UNCHANGED <<iceVars, up>>

(* setRemoteDescription is over; the buffer is gone through next. *)
RemoteSet(e) ==
    /\ task[e] = "setRemote" /\ pc[e] /\ described[e]
    /\ remoteDescSet' = [remoteDescSet EXCEPT ![e] = TRUE]
    /\ task' = [task EXCEPT ![e] = "drain"]
    /\ UNCHANGED <<pendingCandidates, iceVars, up>>

(* One turn of `for (const c of this.pendingCandidates)', or its end. *)
Undrained(e) ==
    {i \in 1..Len(pendingCandidates[e]) : pendingCandidates[e][i] \notin applied[e] \cup refused[e]}

DrainOne(e) ==
    /\ task[e] = "drain" /\ pc[e]
    /\ \E i \in Undrained(e) :
         /\ \A j \in Undrained(e) : i <= j
         /\ AddIce(e, pendingCandidates[e][i])
    /\ UNCHANGED <<handlerVars, described, gathering, surfaced, up>>

(* Faulty variant: the viewer's handler ends where the host's does. *)
AfterDrainNothing(e) == "idle"
AfterDrain(e) == IF e = "viewer" THEN "createAnswer" ELSE "idle"

DrainEnds(e) ==
    /\ task[e] = "drain" /\ pc[e]
    /\ Undrained(e) = {}
    /\ pendingCandidates' = [pendingCandidates EXCEPT ![e] = <<>>]
    /\ task' = [task EXCEPT ![e] = AfterDrain(e)]
    /\ UNCHANGED <<remoteDescSet, iceVars, up>>

(* createOffer or createAnswer is over; setLocalDescription is over and    *)
(* what it describes is sent.                                              *)
Created(e) ==
    /\ task[e] \in {"createOffer", "createAnswer"} /\ pc[e]
    /\ CallSetLocal(e)
    /\ UNCHANGED <<remoteDescSet, pendingCandidates, described, surfaced, applied, refused, up>>

LocalSet(e) ==
    /\ task[e] = "setLocal" /\ pc[e]
    /\ Send(e, IF e = "host" THEN "offer" ELSE "answer")
    /\ task' = [task EXCEPT ![e] = "idle"]
    /\ UNCHANGED <<remoteDescSet, pendingCandidates, iceVars>>

(* setLocalDescription takes what createOffer or createAnswer just made; a *)
(* failure of either sends nothing, so one of them stands for both.        *)
Throws(e) ==
    /\ \/ task[e] \in {"createOffer", "createAnswer"}
       \/ task[e] = "setRemote" /\ ~(pc[e] /\ described[e])
       \/ task[e] \in {"setLocal", "drain"} /\ ~pc[e]
    /\ HandlerEnds(e)

(* An await of a negotiation handler ends. *)
Resume(e) ==
    /\ \/ RemoteSet(e) \/ DrainOne(e) \/ DrainEnds(e)
       \/ Created(e) \/ LocalSet(e) \/ Throws(e)
    /\ UNCHANGED <<pageVars, down, served>>

(* The icecandidate event. *)
Surface(e) == \E c \in gathering[e] :
    /\ pc[e]
    /\ gathering' = [gathering EXCEPT ![e] = @ \ {c}]
    /\ surfaced' = [surfaced EXCEPT ![e] = @ \cup {c}]
    /\ Send(e, c)
    /\ UNCHANGED <<pageVars, handlerVars, described, applied, refused, down, served>>

-----------------------------------------------------------------------------
(* _openSocket *)
Connecting(e) == ws' = [ws EXCEPT ![e] = "connecting"] /\ opening' = [opening EXCEPT ![e] = "socket"]

SocketOpens(e) ==
    /\ ws[e] = "connecting"
    /\ ws' = [ws EXCEPT ![e] = "open"]
    /\ opening' = [opening EXCEPT ![e] = "done"]
    /\ up' = [up EXCEPT ![e] = Append(@, IF e = "host" THEN "create-session" ELSE "join-session")]
    /\ UNCHANGED <<pc, stream, pinShown, closed, iceVars, handlerVars, down, served>>

(* Faulty variant: the catch of start() leaves the screen captured. *)
SocketFailsKeepsStream(e) ==
    /\ opening[e] = "socket"
    /\ ws' = [ws EXCEPT ![e] = IF @ = "connecting" THEN "lost" ELSE @]
    /\ opening' = [opening EXCEPT ![e] = "failed"]
    /\ UNCHANGED <<pc, stream, pinShown, closed, iceVars, handlerVars, up, down, served>>

(* The socket fails to open, or stop() or close() closed it before it did. *)
SocketFails(e) ==
    /\ opening[e] = "socket"
    /\ ws' = [ws EXCEPT ![e] = IF @ = "connecting" THEN "lost" ELSE @]
    /\ opening' = [opening EXCEPT ![e] = "failed"]
    /\ stream' = (stream /\ e # "host")
    /\ UNCHANGED <<pc, pinShown, closed, iceVars, handlerVars, up, down, served>>

(* The network or the server drops an open socket: the client only shows   *)
(* a status, the server learns of it after the frames that got through.    *)
SocketLost(e) ==
    /\ ws[e] = "open"
    /\ ws' = [ws EXCEPT ![e] = "lost"]
    /\ up' = [up EXCEPT ![e] = Append(@, "gone")]
    /\ UNCHANGED <<opening, pc, stream, pinShown, closed, iceVars, handlerVars, down, served>>

-----------------------------------------------------------------------------
(* ghostview-host-lite.js *)

HostStarts ==
    /\ opening["host"] = "new"
    /\ opening' = [opening EXCEPT !["host"] = "picker"]
    /\ UNCHANGED <<ws, pc, stream, pinShown, closed, iceVars, handlerVars, up, down, served>>

PickerAnswered ==
    /\ opening["host"] = "picker"
    /\ \/ stream' = TRUE /\ Connecting("host")
       \/ opening' = [opening EXCEPT !["host"] = "failed"] /\ UNCHANGED <<ws, stream>>
    /\ UNCHANGED <<pc, pinShown, closed, iceVars, handlerVars, up, down, served>>

(* The browser's own `stop sharing' ends the track, or the stop button of  *)
(* the page, which is there once a PIN was shown.                          *)
HostStops ==
    /\ stream \/ pinShown
    /\ ~closed["host"]
    /\ CloseEnd("host")
    /\ UNCHANGED <<iceVars, handlerVars, down>>

HostSessionCreated ==
    /\ Arrives("host", "session-created") /\ Take("host")
    /\ pinShown' = TRUE
    /\ UNCHANGED <<opening, ws, pc, stream, closed, iceVars, handlerVars, up, served>>

(* viewer-joined: _createOffer up to its first await. *)
HostViewerJoined ==
    /\ Arrives("host", "viewer-joined") /\ Take("host")
    /\ pc' = [pc EXCEPT !["host"] = TRUE]
    /\ task' = [task EXCEPT !["host"] = "createOffer"]
    /\ UNCHANGED <<opening, ws, stream, pinShown, closed, iceVars, remoteDescSet,
                   pendingCandidates, up, served>>

(* The early return without a connection is never taken: viewer-joined     *)
(* comes first, and after stop() there are no events.                      *)
HostAnswer ==
    /\ Arrives("host", "answer") /\ Take("host")
    /\ pc["host"]
    /\ CallSetRemote("host")

HostRemoteIce == RemoteIce("host")

(* Faulty variant: peer-disconnected only changes the status. *)
HostPeerDisconnectedStays ==
    /\ \E m \in {"peer-disconnected", "session-expired"} : Arrives("host", m)
    /\ Take("host")
    /\ UNCHANGED <<pageVars, iceVars, handlerVars, up, served>>

HostPeerDisconnected ==
    /\ \E m \in {"peer-disconnected", "session-expired"} : Arrives("host", m)
    /\ Take("host")
    /\ CloseEnd("host")
    /\ UNCHANGED <<iceVars, handlerVars>>

(* error: shown, and nothing else. *)
HostError ==
    /\ Arrives("host", "error") /\ Take("host")
    /\ UNCHANGED <<pageVars, iceVars, handlerVars, up, served>>

HostEvent == HostSessionCreated \/ HostViewerJoined \/ HostAnswer \/ HostRemoteIce
             \/ HostPeerDisconnected \/ HostError

-----------------------------------------------------------------------------
(* ghostview-viewer.js *)

(* The user types a PIN the host page has shown. *)
ViewerConnects ==
    /\ opening["viewer"] = "new"
    /\ served # "none"
    /\ Connecting("viewer")
    /\ UNCHANGED <<pc, stream, pinShown, closed, iceVars, handlerVars, up, down, served>>

ViewerCloses ==
    /\ opening["viewer"] # "new" /\ ~closed["viewer"]
    /\ CloseEnd("viewer")
    /\ UNCHANGED <<iceVars, handlerVars, down>>

ViewerSessionJoined ==
    /\ Arrives("viewer", "session-joined") /\ Take("viewer")
    /\ pc' = [pc EXCEPT !["viewer"] = TRUE]
    /\ UNCHANGED <<opening, ws, stream, pinShown, closed, iceVars, handlerVars, up, served>>

ViewerOffer ==
    /\ Arrives("viewer", "offer") /\ Take("viewer")
    /\ CallSetRemote("viewer")

ViewerRemoteIce == RemoteIce("viewer")

ViewerPeerDisconnected ==
    /\ \E m \in {"peer-disconnected", "error"} : Arrives("viewer", m)
    /\ Take("viewer")
    /\ CloseEnd("viewer")
    /\ UNCHANGED <<iceVars, handlerVars>>

ViewerEvent == ViewerSessionJoined \/ ViewerOffer \/ ViewerRemoteIce \/ ViewerPeerDisconnected

-----------------------------------------------------------------------------
(* server.js with session-manager.js, in the outline SessionManager gives  *)
(* in full.  A frame to a socket that is not open reaches nobody.          *)
Request(e, m) == up[e] # <<>> /\ Head(up[e]) = m
Handled(e) == up' = [up EXCEPT ![e] = Tail(@)]
ToEnd(e, m) == down' = IF ws[e] = "open" THEN [down EXCEPT ![e] = Append(@, m)] ELSE down

ServerCreate ==
    /\ Request("host", "create-session") /\ Handled("host")
    /\ \/ served' = "waiting" /\ ToEnd("host", "session-created")
       \/ served' = served /\ ToEnd("host", "error")
    /\ UNCHANGED <<pageVars, iceVars, handlerVars>>

(* Refused: over the rate limit, gone, or found expired and destroyed. *)
ServerJoin ==
    /\ Request("viewer", "join-session") /\ Handled("viewer")
    /\ \/ /\ served = "waiting" /\ served' = "paired"
          /\ down' = [e \in Ends |->
                        IF ws[e] # "open" THEN down[e]
                        ELSE Append(down[e], IF e = "host" THEN "viewer-joined"
                                                           ELSE "session-joined")]
       \/ ToEnd("viewer", "error")
          /\ served' \in {served} \cup (IF served = "waiting" THEN {"over"} ELSE {})
    /\ UNCHANGED <<pageVars, iceVars, handlerVars>>

(* Faulty variant: the target is the sender. *)
RelayTargetSelf(e) == e
RelayTarget(e) == Other(e)

ServerRelay(e) == \E m \in Relayed(e) :
    /\ Request(e, m) /\ Handled(e)
    /\ IF served = "paired" THEN ToEnd(RelayTarget(e), m) ELSE UNCHANGED down
    /\ UNCHANGED <<pageVars, iceVars, handlerVars, served>>

(* handleDisconnect, for end-session and for a socket that has ended; a    *)
(* viewer has part in the session once it is paired.                       *)
ServerDisconnect(e) ==
    /\ \E m \in {"end-session", "gone"} : Request(e, m)
    /\ Handled(e)
    /\ IF served = "paired" \/ (served = "waiting" /\ e = "host")
       THEN /\ served' = "over"
            /\ IF served = "paired" THEN ToEnd(Other(e), "peer-disconnected") ELSE UNCHANGED down
       ELSE UNCHANGED <<served, down>>
    /\ UNCHANGED <<pageVars, iceVars, handlerVars>>

(* _cleanup *)
ServerExpires ==
    /\ served = "waiting" /\ served' = "over"
    /\ ToEnd("host", "session-expired")
    /\ UNCHANGED <<pageVars, iceVars, handlerVars, up>>

ServerHandles == ServerCreate \/ ServerJoin
                 \/ \E e \in Ends : ServerRelay(e) \/ ServerDisconnect(e)

-----------------------------------------------------------------------------
Init ==
    /\ opening = [e \in Ends |-> "new"]
    /\ ws = [e \in Ends |-> "none"]
    /\ pc = [e \in Ends |-> FALSE]
    /\ closed = [e \in Ends |-> FALSE]
    /\ stream = FALSE /\ pinShown = FALSE
    /\ remoteDescSet = [e \in Ends |-> FALSE]
    /\ pendingCandidates = [e \in Ends |-> <<>>]
    /\ task = [e \in Ends |-> "idle"]
    /\ described = [e \in Ends |-> FALSE]
    /\ gathering = [e \in Ends |-> {}]
    /\ surfaced = [e \in Ends |-> {}]
    /\ applied = [e \in Ends |-> {}]
    /\ refused = [e \in Ends |-> {}]
    /\ up = [e \in Ends |-> <<>>]
    /\ down = [e \in Ends |-> <<>>]
    /\ served = "none"

Users == HostStarts \/ PickerAnswered \/ HostStops \/ ViewerConnects \/ ViewerCloses
Network == \E e \in Ends : SocketOpens(e) \/ SocketFails(e) \/ SocketLost(e)
Handlers == HostEvent \/ ViewerEvent \/ \E e \in Ends : Resume(e) \/ Surface(e)

Next == Users \/ Network \/ Handlers \/ ServerHandles \/ ServerExpires

(* Each event loop goes on with what is due and the agents surface what    *)
(* they gathered; frames that were sent arrive.  Users and the network's   *)
(* mishaps owe nothing.                                                    *)
Fairness ==
    /\ WF_vars(HostEvent) /\ WF_vars(ViewerEvent) /\ WF_vars(ServerHandles)
    /\ \A e \in Ends : WF_vars(Resume(e)) /\ WF_vars(Surface(e))

Spec == Init /\ [][Next]_vars /\ Fairness

-----------------------------------------------------------------------------
TypeOK ==
    /\ opening \in [Ends -> OpeningStates]
    /\ ws \in [Ends -> {"none", "connecting", "open", "lost"}]
    /\ {pc, closed, described, remoteDescSet} \subseteq [Ends -> BOOLEAN]
    /\ {stream, pinShown} \subseteq BOOLEAN
    /\ task \in [Ends -> TaskStates]
    /\ \A e \in Ends :
          /\ gathering[e] \cup surfaced[e] \subseteq Own(e)
          /\ applied[e] \cup refused[e] \subseteq Own(Other(e))
          /\ pendingCandidates[e] \in Seq(Own(Other(e)))
          /\ up[e] \in Seq(Requests(e))
          /\ down[e] \in Seq(Notices(e))
    /\ served \in {"none", "waiting", "paired", "over"}

(* No candidate is given to a connection that has no description yet: such *)
(* a candidate is refused, the handlers ignore that, and it is lost.       *)
(* Candidates can overtake the offer and the answer, and arrive while      *)
(* setRemoteDescription is awaited.                                        *)
NoCandidateRefused == \A e \in Ends : refused[e] = {}

(* A client that has closed, or that failed to start, captures nothing and *)
(* holds no connection, at whichever await it was when that happened.      *)
StoppedMeansReleased ==
    /\ \A e \in Ends : closed[e] => ws[e] = "none" /\ ~pc[e]
    /\ closed["host"] \/ opening["host"] = "failed" => ~stream

(* Something ended the handshake early: an end closed, lost its socket or  *)
(* failed in the negotiation.                                              *)
Interrupted == \E e \in Ends : closed[e] \/ ws[e] = "lost" \/ task[e] = "failed"

(* Every candidate an end surfaces reaches the connection of the other,    *)
(* whether it comes before, during or after the handling of the            *)
(* description, unless the handshake is interrupted.                       *)
CandidatesApplied == \A e \in Ends : \A c \in Own(e) :
    c \in surfaced[e] ~> c \in applied[Other(e)] \/ Interrupted

(* Two ends that were paired have each other's description in the end.     *)
HandshakeCompletes ==
    served = "paired" ~> (\A e \in Ends : remoteDescSet[e]) \/ Interrupted

(* When one end of a pair closes, the other does not keep its connection,  *)
(* unless it lost the socket over which it would be told.                  *)
EndReachesOther == \A e \in Ends :
    closed[e] /\ pc[Other(e)] ~> ~pc[Other(e)] \/ ws[Other(e)] = "lost"
=============================================================================
