----------------------- MODULE BrowserHandshakeProofs -----------------------
(***************************************************************************)
(* What is proved of the browser clients, for all sets of candidates.      *)
(***************************************************************************)
EXTENDS BrowserHandshake, SequenceTheorems, TLAPS

Frames == Candidates \cup FrameTypes

-----------------------------------------------------------------------------
(* The invariants. *)

PageTypeOK ==
    /\ opening \in [Ends -> OpeningStates]
    /\ ws \in [Ends -> {"none", "connecting", "open", "lost"}]
    /\ task \in [Ends -> TaskStates]
    /\ served \in {"none", "waiting", "paired", "over"}

FlagTypeOK ==
    /\ pc \in [Ends -> BOOLEAN] /\ closed \in [Ends -> BOOLEAN]
    /\ described \in [Ends -> BOOLEAN] /\ remoteDescSet \in [Ends -> BOOLEAN]
    /\ stream \in BOOLEAN /\ pinShown \in BOOLEAN

IceTypeOK ==
    /\ gathering \in [Ends -> SUBSET Candidates] /\ surfaced \in [Ends -> SUBSET Candidates]
    /\ applied \in [Ends -> SUBSET Candidates] /\ refused \in [Ends -> SUBSET Candidates]
    /\ pendingCandidates \in [Ends -> Seq(Candidates)]
    /\ \A e \in Ends :
          /\ gathering[e] \cup surfaced[e] \subseteq Own(e)
          /\ applied[e] \cup refused[e] \subseteq Own(Other(e))
          /\ pendingCandidates[e] \in Seq(Own(Other(e)))

UpTypeOK ==
    up \in [Ends -> Seq(Frames)] /\ \A e \in Ends : up[e] \in Seq(Requests(e))

DownTypeOK ==
    down \in [Ends -> Seq(Frames)] /\ \A e \in Ends : down[e] \in Seq(Notices(e))

(* Where an object is in its life: the socket belongs to one opening, the  *)
(* PIN is shown only once it is there, and what was closed stays closed.   *)
LifeInv ==
    /\ \A e \in Ends :
         /\ ws[e] = "connecting" => opening[e] = "socket"
         /\ ws[e] = "open" => opening[e] = "done"
         /\ ws[e] = "lost" => opening[e] \in {"done", "failed"}
         /\ opening[e] \in {"new", "picker"} => ws[e] = "none" /\ ~pc[e] /\ ~closed[e]
    /\ opening["viewer"] # "picker"
    /\ stream => opening["host"] \in {"socket", "done"}
    /\ pinShown => opening["host"] = "done"
    /\ StoppedMeansReleased

Has(queue, frame) == \E i \in 1..Len(queue) : queue[i] = frame
Once(queue, frame) == \A i, j \in 1..Len(queue) : queue[i] = frame /\ queue[j] = frame => i = j

(* The frames the handshake passes on from step to step.                   *)
Tokens == {"create-session", "viewer-joined", "offer", "answer"}

NothingTwice == \A e \in Ends, t \in Tokens : Once(up[e], t) /\ Once(down[e], t)

HostWaits == ~remoteDescSet["host"] /\ task["host"] \notin {"setRemote", "drain"}
ViewerWaits == ~remoteDescSet["viewer"] /\ task["viewer"] = "idle"

(* Nothing of the answer, of the offer, of the whole handshake yet.        *)
NoAnswerYet == HostWaits /\ ~Has(up["viewer"], "answer") /\ ~Has(down["host"], "answer")
NoOfferYet == /\ ViewerWaits /\ NoAnswerYet
              /\ ~Has(up["host"], "offer") /\ ~Has(down["viewer"], "offer")
NothingYet == NoOfferYet /\ task["host"] = "idle" /\ ~Has(down["host"], "viewer-joined")

(* Each step of the handshake is taken once: what precedes it is over, and *)
(* of what follows there is nothing yet.                                   *)
OneHandshake ==
    /\ opening["host"] \in {"new", "picker", "socket"}
         => served = "none" /\ ~Has(up["host"], "create-session")
    /\ served # "none" => ~Has(up["host"], "create-session")
    /\ served \in {"none", "waiting"} => NothingYet
    /\ Has(down["host"], "viewer-joined") => NoOfferYet /\ task["host"] = "idle"
    /\ task["host"] \in {"createOffer", "setLocal"}
         => NoOfferYet /\ ~Has(down["host"], "viewer-joined")
    /\ Has(up["host"], "offer")
         => ViewerWaits /\ NoAnswerYet /\ ~Has(down["viewer"], "offer")
    /\ Has(down["viewer"], "offer") => ViewerWaits /\ NoAnswerYet
    /\ task["viewer"] \in {"setRemote", "drain", "createAnswer", "setLocal"} => NoAnswerYet
    /\ Has(up["viewer"], "answer") => HostWaits /\ ~Has(down["host"], "answer")
    /\ Has(down["host"], "answer") => HostWaits

(* A description that counts as set was accepted by the connection.        *)
DescribedFirst ==
    \A e \in Ends :
      /\ remoteDescSet[e] => described[e]
      /\ task[e] = "drain" => remoteDescSet[e]

(* Offers are the host's, answers the viewer's.                            *)
OwnTasks == task["host"] # "createAnswer" /\ task["viewer"] # "createOffer"

HandshakeInv == NothingTwice /\ OneHandshake /\ DescribedFirst /\ OwnTasks

-----------------------------------------------------------------------------
(* Types. *)

(* The parts of the type invariant make it up.                             *)
LEMMA TypeParts ==
  PageTypeOK /\ FlagTypeOK /\ IceTypeOK /\ UpTypeOK /\ DownTypeOK => TypeOK
  <1> SUFFICES ASSUME PageTypeOK, FlagTypeOK, IceTypeOK, UpTypeOK, DownTypeOK PROVE TypeOK
    OBVIOUS
  <1>1. {pc, closed, described, remoteDescSet} \subseteq [Ends -> BOOLEAN]
    BY Zenon DEF FlagTypeOK
  <1>2. {stream, pinShown} \subseteq BOOLEAN
    BY Zenon DEF FlagTypeOK
  <1>3. QED
    BY <1>1, <1>2 DEF TypeOK, PageTypeOK, IceTypeOK, UpTypeOK, DownTypeOK

(* Every frame is in the alphabet of its end.                              *)
LEMMA Alphabets ==
  ASSUME NEW e \in Ends
  PROVE  /\ Requests(e) \subseteq Frames /\ Notices(e) \subseteq Frames
         /\ Own(e) \subseteq Requests(e) /\ Own(e) \subseteq Notices(Other(e))
         /\ Relayed(e) \subseteq Requests(e) /\ Relayed(e) \subseteq Notices(Other(e))
         /\ Own(e) \subseteq Candidates /\ Other(e) \in Ends
         /\ {"end-session", "gone"} \subseteq Requests(e)
         /\ {"peer-disconnected", "error"} \subseteq Notices(e)
  BY DEF Ends, Requests, Notices, Relayed, Own, Other, Frames, FrameTypes, Candidates

(* What a client sends is a request of its role.                           *)
LEMMA SendTypes ==
  ASSUME UpTypeOK, NEW e \in Ends, NEW m \in Requests(e), Send(e, m)
  PROVE  UpTypeOK'
  BY Alphabets DEF UpTypeOK, Send

(* Handling the request at the head leaves requests.                       *)
LEMMA HandledTypes ==
  ASSUME UpTypeOK, NEW e \in Ends, NEW m, Request(e, m), Handled(e)
  PROVE  UpTypeOK'
  BY DEF UpTypeOK, Request, Handled

(* A close empties the queue of the socket or leaves it.                   *)
LEMMA CloseTypes ==
  ASSUME UpTypeOK, NEW e \in Ends, CloseEnd(e)
  PROVE  UpTypeOK'
  <1>1. <<"end-session", "gone">> \in Seq(Requests(e))
    BY Alphabets
  <1>2. up[e] \o <<"end-session", "gone">> \in Seq(Requests(e))
    BY <1>1, ConcatProperties DEF UpTypeOK
  <1>3. up[e] \o <<"end-session", "gone">> \in Seq(Frames)
    BY <1>2, Alphabets, SeqMonotonic
  <1>4. CASE up' = [up EXCEPT ![e] = @ \o <<"end-session", "gone">>]
    BY <1>2, <1>3, <1>4 DEF UpTypeOK
  <1>5. CASE up' = up
    BY <1>5 DEF UpTypeOK
  <1>6. QED
    BY <1>4, <1>5 DEF CloseEnd

(* Taking the frame at the head leaves frames.                             *)
LEMMA TakeTypes ==
  ASSUME DownTypeOK, NEW e \in Ends, NEW m, Arrives(e, m), Take(e)
  PROVE  DownTypeOK'
  BY DEF DownTypeOK, Arrives, Take

(* What the server puts on a socket is a frame for that role.              *)
LEMMA ToEndTypes ==
  ASSUME DownTypeOK, NEW e \in Ends, NEW m \in Notices(e), ToEnd(e, m)
  PROVE  DownTypeOK'
  BY Alphabets DEF DownTypeOK, ToEnd

(* The parts of Next, one by one.                                          *)
LEMMA NextCases ==
  ASSUME [Next]_vars
  PROVE  \/ Users
         \/ \E e \in Ends : SocketOpens(e) \/ SocketFails(e) \/ SocketLost(e)
         \/ HostSessionCreated \/ HostViewerJoined \/ HostAnswer
         \/ HostPeerDisconnected \/ HostError
         \/ ViewerSessionJoined \/ ViewerOffer \/ ViewerPeerDisconnected
         \/ \E e \in Ends : RemoteIce(e) \/ Resume(e) \/ Surface(e)
         \/ ServerCreate \/ ServerJoin \/ ServerExpires
         \/ \E e \in Ends : ServerRelay(e) \/ ServerDisconnect(e)
         \/ UNCHANGED vars
  BY DEF Next, Network, Handlers, HostEvent, ViewerEvent, HostRemoteIce, ViewerRemoteIce,
         ServerHandles, Ends

(* What the page itself keeps (socket, connection, tasks) keeps its type.  *)
LEMMA PageStep ==
  ASSUME PageTypeOK, [Next]_vars
  PROVE  PageTypeOK'
  <1> USE DEF PageTypeOK, OpeningStates, TaskStates, Ends
  <1>1. CASE Users
    BY <1>1 DEF Users, HostStarts, PickerAnswered, HostStops, ViewerConnects, ViewerCloses,
                CloseEnd, Connecting, handlerVars
  <1>2. ASSUME NEW e \in Ends, SocketOpens(e) \/ SocketFails(e) \/ SocketLost(e)
        PROVE  PageTypeOK'
    BY <1>2 DEF SocketOpens, SocketFails, SocketLost, handlerVars
  <1>3. CASE HostSessionCreated \/ HostViewerJoined \/ HostAnswer \/ HostError
             \/ ViewerSessionJoined \/ ViewerOffer
    BY <1>3 DEF HostSessionCreated, HostViewerJoined, HostAnswer, HostError,
                ViewerSessionJoined, ViewerOffer, CallSetRemote, handlerVars, pageVars
  <1>4. CASE HostPeerDisconnected \/ ViewerPeerDisconnected
    BY <1>4 DEF HostPeerDisconnected, ViewerPeerDisconnected, CloseEnd, handlerVars
  <1>5. ASSUME NEW e \in Ends, RemoteIce(e) \/ Surface(e)
        PROVE  PageTypeOK'
    BY <1>5 DEF RemoteIce, Surface, handlerVars, pageVars
  <1>6. ASSUME NEW e \in Ends, Resume(e)
        PROVE  PageTypeOK'
    <2>1. task' \in [Ends -> TaskStates]
      BY <1>6 DEF Resume, RemoteSet, DrainOne, DrainEnds, Created, CallSetLocal, LocalSet,
                  Throws, HandlerEnds, AfterDrain, handlerVars
    <2>2. QED
      BY <1>6, <2>1 DEF Resume, pageVars
  <1>7. CASE ServerCreate \/ ServerJoin \/ ServerExpires
    BY <1>7 DEF ServerCreate, ServerJoin, ServerExpires, handlerVars, pageVars
  <1>8. ASSUME NEW e \in Ends, ServerRelay(e) \/ ServerDisconnect(e)
        PROVE  PageTypeOK'
    BY <1>8 DEF ServerRelay, ServerDisconnect, handlerVars, pageVars
  <1>9. CASE UNCHANGED vars
    BY <1>9 DEF vars, handlerVars, pageVars
  <1>10. QED
    BY <1>1, <1>2, <1>3, <1>4, <1>5, <1>6, <1>7, <1>8, <1>9, NextCases

(* The flags keep their types.                                             *)
LEMMA FlagStep ==
  ASSUME FlagTypeOK, [Next]_vars
  PROVE  FlagTypeOK'
  <1> USE DEF FlagTypeOK, Ends
  <1>1. CASE Users
    BY <1>1 DEF Users, HostStarts, PickerAnswered, HostStops, ViewerConnects, ViewerCloses,
                CloseEnd, Connecting, handlerVars, iceVars
  <1>2. ASSUME NEW e \in Ends, SocketOpens(e) \/ SocketFails(e) \/ SocketLost(e)
        PROVE  FlagTypeOK'
    BY <1>2 DEF SocketOpens, SocketFails, SocketLost, handlerVars, iceVars
  <1>3. CASE HostSessionCreated \/ HostViewerJoined \/ HostAnswer \/ HostError
             \/ ViewerSessionJoined \/ ViewerOffer
    BY <1>3 DEF HostSessionCreated, HostViewerJoined, HostAnswer, HostError,
                ViewerSessionJoined, ViewerOffer, CallSetRemote, handlerVars, pageVars, iceVars
  <1>4. CASE HostPeerDisconnected \/ ViewerPeerDisconnected
    BY <1>4 DEF HostPeerDisconnected, ViewerPeerDisconnected, CloseEnd, handlerVars, iceVars
  <1>5. ASSUME NEW e \in Ends, RemoteIce(e) \/ Surface(e)
        PROVE  FlagTypeOK'
    BY <1>5 DEF RemoteIce, Surface, handlerVars, pageVars
  <1>6. ASSUME NEW e \in Ends, Resume(e)
        PROVE  FlagTypeOK'
    <2>1. described' = described /\ remoteDescSet' \in [Ends -> BOOLEAN]
      BY <1>6 DEF Resume, RemoteSet, DrainOne, DrainEnds, Created, CallSetLocal, LocalSet,
                  Throws, HandlerEnds, handlerVars, iceVars
    <2>2. QED
      BY <1>6, <2>1 DEF Resume, pageVars
  <1>7. CASE ServerCreate \/ ServerJoin \/ ServerExpires
    BY <1>7 DEF ServerCreate, ServerJoin, ServerExpires, handlerVars, pageVars, iceVars
  <1>8. ASSUME NEW e \in Ends, ServerRelay(e) \/ ServerDisconnect(e)
        PROVE  FlagTypeOK'
    BY <1>8 DEF ServerRelay, ServerDisconnect, handlerVars, pageVars, iceVars
  <1>9. CASE UNCHANGED vars
    BY <1>9 DEF vars, handlerVars, pageVars, iceVars
  <1>10. QED
    BY <1>1, <1>2, <1>3, <1>4, <1>5, <1>6, <1>7, <1>8, <1>9, NextCases

(* The queues to the server hold requests.                                 *)
LEMMA UpStep ==
  ASSUME UpTypeOK, IceTypeOK, [Next]_vars
  PROVE  UpTypeOK'
  <1>1. CASE Users
    <2>1. up' = up \/ \E e \in Ends : CloseEnd(e)
      BY <1>1 DEF Users, HostStarts, PickerAnswered, HostStops, ViewerConnects, ViewerCloses, Ends
    <2>2. QED
      BY <2>1, CloseTypes DEF UpTypeOK
  <1>2. ASSUME NEW e \in Ends, SocketOpens(e) \/ SocketFails(e) \/ SocketLost(e)
        PROVE  UpTypeOK'
    <2>1. \/ up' = up
          \/ \E m \in Requests(e) : up' = [up EXCEPT ![e] = Append(@, m)]
      <3>1. CASE SocketOpens(e)
        <4>1. (IF e = "host" THEN "create-session" ELSE "join-session") \in Requests(e)
          BY DEF Requests
        <4>2. QED
          BY <3>1, <4>1 DEF SocketOpens
      <3>2. CASE SocketFails(e)
        BY <3>2 DEF SocketFails
      <3>3. CASE SocketLost(e)
        BY <3>3, Alphabets DEF SocketLost
      <3>4. QED
        BY <1>2, <3>1, <3>2, <3>3
    <2>2. ASSUME NEW m \in Requests(e), up' = [up EXCEPT ![e] = Append(@, m)]
          PROVE  UpTypeOK'
      <3>1. m \in Frames
        BY Alphabets
      <3>2. QED
        BY <2>2, <3>1 DEF UpTypeOK
    <2>3. QED
      BY <2>1, <2>2 DEF UpTypeOK
  <1>3. CASE HostSessionCreated \/ HostViewerJoined \/ HostAnswer \/ HostError
             \/ ViewerSessionJoined \/ ViewerOffer
    BY <1>3 DEF HostSessionCreated, HostViewerJoined, HostAnswer, HostError,
                ViewerSessionJoined, ViewerOffer, CallSetRemote, UpTypeOK
  <1>4. CASE HostPeerDisconnected \/ ViewerPeerDisconnected
    BY <1>4, CloseTypes DEF HostPeerDisconnected, ViewerPeerDisconnected, Ends
  <1>5. ASSUME NEW e \in Ends, RemoteIce(e)
        PROVE  UpTypeOK'
    BY <1>5 DEF RemoteIce, UpTypeOK
  <1>6. ASSUME NEW e \in Ends, Surface(e)
        PROVE  UpTypeOK'
    <2>1. PICK c \in gathering[e] : Send(e, c)
      BY <1>6 DEF Surface
    <2>2. c \in Requests(e)
      BY Alphabets DEF IceTypeOK
    <2>3. QED
      BY <2>1, <2>2, SendTypes
  <1>7. ASSUME NEW e \in Ends, Resume(e)
        PROVE  UpTypeOK'
    <2>1. up' = up \/ \E m \in Requests(e) : Send(e, m)
      <3>1. CASE LocalSet(e)
        BY <3>1 DEF LocalSet, Requests, Relayed, Ends
      <3>2. CASE ~LocalSet(e)
        BY <1>7, <3>2 DEF Resume, RemoteSet, DrainOne, DrainEnds, Created, Throws, HandlerEnds
      <3>3. QED
        BY <3>1, <3>2
    <2>2. QED
      BY <2>1, SendTypes DEF UpTypeOK
  <1>8. CASE ServerCreate \/ ServerJoin
    BY <1>8, HandledTypes DEF ServerCreate, ServerJoin, Ends
  <1>9. ASSUME NEW e \in Ends, ServerRelay(e) \/ ServerDisconnect(e)
        PROVE  UpTypeOK'
    BY <1>9, HandledTypes DEF ServerRelay, ServerDisconnect
  <1>10. CASE ServerExpires \/ UNCHANGED vars
    BY <1>10 DEF ServerExpires, vars, UpTypeOK
  <1>11. QED
    BY <1>1, <1>2, <1>3, <1>4, <1>5, <1>6, <1>7, <1>8, <1>9, <1>10, NextCases

(* The queues to the clients hold frames for their role.                   *)
LEMMA DownStep ==
  ASSUME DownTypeOK, [Next]_vars
  PROVE  DownTypeOK'
  <1>1. CASE Users
    BY <1>1 DEF Users, HostStarts, PickerAnswered, HostStops, ViewerConnects, ViewerCloses,
                DownTypeOK
  <1>2. ASSUME NEW e \in Ends, SocketOpens(e) \/ SocketFails(e) \/ SocketLost(e)
                               \/ Resume(e) \/ Surface(e)
        PROVE  DownTypeOK'
    BY <1>2 DEF SocketOpens, SocketFails, SocketLost, Resume, Surface, DownTypeOK
  <1>3. CASE HostSessionCreated \/ HostViewerJoined \/ HostAnswer \/ HostError
             \/ HostPeerDisconnected \/ ViewerSessionJoined \/ ViewerOffer
             \/ ViewerPeerDisconnected
    <2>1. \E e \in Ends, m \in FrameTypes : Arrives(e, m) /\ Take(e)
      BY <1>3 DEF HostSessionCreated, HostViewerJoined, HostAnswer, HostError,
                  HostPeerDisconnected, ViewerSessionJoined, ViewerOffer,
                  ViewerPeerDisconnected, Ends, FrameTypes
    <2>2. QED
      BY <2>1, TakeTypes
  <1>4. ASSUME NEW e \in Ends, RemoteIce(e)
        PROVE  DownTypeOK'
    BY <1>4, TakeTypes DEF RemoteIce
  <1>5. CASE ServerCreate
    <2>1. \E m \in Notices("host") : ToEnd("host", m)
      BY <1>5 DEF ServerCreate, Notices
    <2>2. QED
      BY <2>1, ToEndTypes DEF Ends
  <1>6. CASE ServerJoin
    <2>1. CASE ToEnd("viewer", "error")
      BY <2>1, ToEndTypes, Alphabets DEF Ends
    <2>2. CASE down' = [e \in Ends |->
                          IF ws[e] # "open" THEN down[e]
                          ELSE Append(down[e], IF e = "host" THEN "viewer-joined"
                                                             ELSE "session-joined")]
      <3>1. ASSUME NEW e \in Ends
            PROVE  down'[e] \in Seq(Notices(e)) /\ down'[e] \in Seq(Frames)
        <4> DEFINE m == IF e = "host" THEN "viewer-joined" ELSE "session-joined"
        <4>1. m \in Notices(e) /\ m \in Frames
          BY Alphabets DEF Notices
        <4>2. down'[e] = down[e] \/ down'[e] = Append(down[e], m)
          BY <2>2
        <4> HIDE DEF m
        <4>3. down[e] \in Seq(Notices(e)) /\ down[e] \in Seq(Frames)
          BY DEF DownTypeOK
        <4>4. QED
          BY <4>1, <4>2, <4>3
      <3>2. QED
        BY <2>2, <3>1 DEF DownTypeOK
    <2>3. QED
      BY <1>6, <2>1, <2>2 DEF ServerJoin
  <1>7. ASSUME NEW e \in Ends, ServerRelay(e)
        PROVE  DownTypeOK'
    <2>1. PICK m \in Relayed(e) : ToEnd(Other(e), m) \/ down' = down
      BY <1>7 DEF ServerRelay, RelayTarget
    <2>2. m \in Notices(Other(e)) /\ Other(e) \in Ends
      BY Alphabets
    <2>3. QED
      BY <2>1, <2>2, ToEndTypes DEF DownTypeOK
  <1>8. ASSUME NEW e \in Ends, ServerDisconnect(e)
        PROVE  DownTypeOK'
    <2>1. ToEnd(Other(e), "peer-disconnected") \/ down' = down
      BY <1>8 DEF ServerDisconnect
    <2>2. "peer-disconnected" \in Notices(Other(e)) /\ Other(e) \in Ends
      BY Alphabets
    <2>3. QED
      BY <2>1, <2>2, ToEndTypes DEF DownTypeOK
  <1>9. CASE ServerExpires
    <2>1. "session-expired" \in Notices("host")
      BY DEF Notices
    <2>2. QED
      BY <1>9, <2>1, ToEndTypes DEF ServerExpires, Ends
  <1>10. CASE UNCHANGED vars
    BY <1>10 DEF vars, DownTypeOK
  <1>11. QED
    BY <1>1, <1>2, <1>3, <1>4, <1>5, <1>6, <1>7, <1>8, <1>9, <1>10, NextCases

(* addIceCandidate, or the buffer in front of it, keeps the types.         *)
LEMMA AddIceTypes ==
  ASSUME IceTypeOK, NEW e \in Ends, NEW c \in Own(Other(e)), AddIce(e, c),
         UNCHANGED <<gathering, surfaced, pendingCandidates>>
  PROVE  IceTypeOK'
  <1>1. c \in Candidates
    BY Alphabets
  <1>2. CASE applied' = [applied EXCEPT ![e] = @ \cup {c}] /\ refused' = refused
    BY <1>1, <1>2 DEF IceTypeOK
  <1>3. CASE refused' = [refused EXCEPT ![e] = @ \cup {c}] /\ applied' = applied
    BY <1>1, <1>3 DEF IceTypeOK
  <1>4. QED
    BY <1>2, <1>3 DEF AddIce

(* What is gathered, announced, buffered and added are candidates.         *)
LEMMA IceStep ==
  ASSUME IceTypeOK, [Next]_vars
  PROVE  IceTypeOK'
  <1>1. CASE Users \/ HostSessionCreated \/ HostViewerJoined \/ HostAnswer \/ HostError
             \/ HostPeerDisconnected \/ ViewerSessionJoined \/ ViewerOffer
             \/ ViewerPeerDisconnected
    <2>1. UNCHANGED <<gathering, surfaced, applied, refused, pendingCandidates>>
      BY <1>1 DEF Users, HostStarts, PickerAnswered, HostStops, ViewerConnects, ViewerCloses,
                  HostSessionCreated, HostViewerJoined, HostAnswer, HostError,
                  HostPeerDisconnected, ViewerSessionJoined, ViewerOffer,
                  ViewerPeerDisconnected, CallSetRemote, iceVars, handlerVars
    <2>2. QED
      BY <2>1 DEF IceTypeOK
  <1>2. ASSUME NEW e \in Ends, \/ SocketOpens(e) \/ SocketFails(e) \/ SocketLost(e)
                               \/ ServerRelay(e) \/ ServerDisconnect(e)
        PROVE  IceTypeOK'
    BY <1>2 DEF SocketOpens, SocketFails, SocketLost, ServerRelay, ServerDisconnect,
                iceVars, handlerVars, IceTypeOK
  <1>3. ASSUME NEW e \in Ends, RemoteIce(e)
        PROVE  IceTypeOK'
    <2>1. PICK c \in Own(Other(e)) :
            \/ AddIce(e, c) /\ UNCHANGED pendingCandidates
            \/ /\ pendingCandidates' = [pendingCandidates EXCEPT ![e] = Append(@, c)]
               /\ UNCHANGED <<applied, refused>>
      BY <1>3 DEF RemoteIce
    <2>2. UNCHANGED <<gathering, surfaced>>
      BY <1>3 DEF RemoteIce
    <2>3. CASE AddIce(e, c) /\ UNCHANGED pendingCandidates
      BY <2>2, <2>3, AddIceTypes
    <2>4. CASE /\ pendingCandidates' = [pendingCandidates EXCEPT ![e] = Append(@, c)]
               /\ UNCHANGED <<applied, refused>>
      <3>1. c \in Candidates
        BY Alphabets
      <3>2. QED
        BY <2>2, <2>4, <3>1 DEF IceTypeOK
    <2>5. QED
      BY <2>1, <2>3, <2>4
  <1>4. ASSUME NEW e \in Ends, Surface(e)
        PROVE  IceTypeOK'
    BY <1>4 DEF Surface, IceTypeOK, handlerVars
  <1>5. ASSUME NEW e \in Ends, Resume(e)
        PROVE  IceTypeOK'
    <2>1. CASE DrainOne(e)
      <3>1. PICK i \in Undrained(e) : AddIce(e, pendingCandidates[e][i])
        BY <2>1 DEF DrainOne
      <3>2. pendingCandidates[e][i] \in Own(Other(e))
        BY DEF Undrained, IceTypeOK
      <3>3. QED
        BY <2>1, <3>1, <3>2, AddIceTypes DEF DrainOne, handlerVars
    <2>2. CASE Created(e)
      BY <2>2, Alphabets DEF Created, CallSetLocal, IceTypeOK
    <2>3. CASE RemoteSet(e) \/ LocalSet(e)
      BY <2>3 DEF RemoteSet, LocalSet, iceVars, IceTypeOK
    <2>4. CASE DrainEnds(e) \/ Throws(e)
      <3>1. UNCHANGED iceVars
        BY <2>4 DEF DrainEnds, Throws, HandlerEnds
      <3>2. pendingCandidates' \in {pendingCandidates, [pendingCandidates EXCEPT ![e] = <<>>]}
        BY <2>4 DEF DrainEnds, Throws, HandlerEnds, IceTypeOK
      <3>3. \A S : <<>> \in Seq(S)
        BY EmptySeq
      <3>4. QED
        BY <3>1, <3>2, <3>3 DEF iceVars, IceTypeOK
    <2>5. QED
      BY <1>5, <2>1, <2>2, <2>3, <2>4 DEF Resume
  <1>6. CASE ServerCreate \/ ServerJoin \/ ServerExpires \/ UNCHANGED vars
    BY <1>6 DEF ServerCreate, ServerJoin, ServerExpires, vars, iceVars, handlerVars, IceTypeOK
  <1>7. QED
    BY <1>1, <1>2, <1>3, <1>4, <1>5, <1>6, NextCases

(* The initial state has its types.                                        *)
LEMMA InitTypes == Init => PageTypeOK /\ FlagTypeOK /\ IceTypeOK /\ UpTypeOK /\ DownTypeOK
  <1> SUFFICES ASSUME Init
               PROVE  PageTypeOK /\ FlagTypeOK /\ IceTypeOK /\ UpTypeOK /\ DownTypeOK
    OBVIOUS
  <1>1. PageTypeOK
    BY DEF Init, PageTypeOK, OpeningStates, TaskStates
  <1>2. FlagTypeOK
    BY Zenon DEF Init, FlagTypeOK
  <1>3. \A S : <<>> \in Seq(S)
    BY EmptySeq
  <1>4. IceTypeOK
    BY <1>3 DEF Init, IceTypeOK
  <1>5. UpTypeOK /\ DownTypeOK
    BY <1>3 DEF Init, UpTypeOK, DownTypeOK
  <1>6. QED
    BY <1>1, <1>2, <1>4, <1>5

Typed == PageTypeOK /\ FlagTypeOK /\ IceTypeOK /\ UpTypeOK /\ DownTypeOK

(* All the types together, along every behaviour.                          *)
LEMMA TypesInvariant == Init /\ [][Next]_vars => []Typed
  <1>1. Init => Typed
    BY InitTypes DEF Typed
  <1>2. Typed /\ [Next]_vars => Typed'
    BY PageStep, FlagStep, IceStep, UpStep, DownStep DEF Typed
  <1>3. QED
    BY <1>1, <1>2, PTL

(* Every variable keeps its type: in particular no client ever receives a  *)
(* frame that is not addressed to its role.                                *)
THEOREM BrowserTypeCorrect == Spec => []TypeOK
  <1>1. Typed => TypeOK
    BY TypeParts DEF Typed
  <1>2. QED
    BY <1>1, TypesInvariant, PTL DEF Spec

-----------------------------------------------------------------------------
(* What a closed client holds. *)

(* A close, at whichever await it comes, releases all the client holds.    *)
LEMMA CloseReleases ==
  ASSUME PageTypeOK, FlagTypeOK, LifeInv, NEW e \in Ends, CloseEnd(e),
         opening[e] \notin {"new", "picker"}
  PROVE  LifeInv'
  <1> USE DEF LifeInv, StoppedMeansReleased, PageTypeOK, FlagTypeOK
  <1>1. CASE closed[e]
    <2>1. /\ UNCHANGED <<opening, ws, pc, stream, pinShown>>
          /\ \A d \in Ends : closed'[d] <=> closed[d]
      BY <1>1 DEF CloseEnd
    <2>2. QED
      BY <2>1 DEF Ends
  <1>2. CASE ~closed[e]
    <2>1. /\ opening' = opening
          /\ ws' = [ws EXCEPT ![e] = "none"]
          /\ pc' = [pc EXCEPT ![e] = FALSE]
          /\ closed' = [closed EXCEPT ![e] = TRUE]
      BY <1>2 DEF CloseEnd
    <2>2. (stream' => stream /\ e # "host") /\ (pinShown' => pinShown /\ e # "host")
      BY <1>2 DEF CloseEnd
    <2>3. QED
      BY <2>1, <2>2 DEF Ends
  <1>3. QED
    BY <1>1, <1>2

(* LifeInv is inductive.                                                   *)
LEMMA LifeStep ==
  ASSUME PageTypeOK, FlagTypeOK, LifeInv, [Next]_vars
  PROVE  LifeInv'
  <1> USE DEF LifeInv, StoppedMeansReleased, PageTypeOK, FlagTypeOK, Ends
  <1>1. CASE HostStarts \/ PickerAnswered \/ ViewerConnects
    <2>1. CASE HostStarts
      BY <2>1 DEF HostStarts
    <2>2. CASE PickerAnswered
      <3>1. CASE stream' = TRUE /\ Connecting("host")
        BY <2>2, <3>1 DEF PickerAnswered, Connecting
      <3>2. CASE opening' = [opening EXCEPT !["host"] = "failed"] /\ UNCHANGED <<ws, stream>>
        BY <2>2, <3>2 DEF PickerAnswered
      <3>3. QED
        BY <2>2, <3>1, <3>2 DEF PickerAnswered
    <2>3. CASE ViewerConnects
      BY <2>3 DEF ViewerConnects, Connecting
    <2>4. QED
      BY <1>1, <2>1, <2>2, <2>3
  <1>2. CASE HostStops \/ ViewerCloses
    <2>1. CASE HostStops
      <3>1. opening["host"] \notin {"new", "picker"} /\ CloseEnd("host")
        BY <2>1 DEF HostStops
      <3>2. QED
        BY <3>1, CloseReleases
    <2>2. CASE ViewerCloses
      <3>1. opening["viewer"] \notin {"new", "picker"} /\ CloseEnd("viewer")
        BY <2>2 DEF ViewerCloses
      <3>2. QED
        BY <3>1, CloseReleases
    <2>3. QED
      BY <1>2, <2>1, <2>2
  <1>3. ASSUME NEW e \in Ends, SocketOpens(e) \/ SocketFails(e) \/ SocketLost(e)
        PROVE  LifeInv'
    BY <1>3 DEF SocketOpens, SocketFails, SocketLost
  <1>4. CASE HostSessionCreated
    BY <1>4 DEF HostSessionCreated, Arrives
  <1>5. CASE HostViewerJoined \/ HostAnswer \/ ViewerSessionJoined \/ ViewerOffer
    <2>1. PICK e \in Ends : ws[e] = "open" /\ pc' = [pc EXCEPT ![e] = TRUE]
      BY <1>5 DEF HostViewerJoined, HostAnswer, ViewerSessionJoined, ViewerOffer, CallSetRemote,
                  Arrives
    <2>2. UNCHANGED <<opening, ws, stream, pinShown, closed>>
      BY <1>5 DEF HostViewerJoined, HostAnswer, ViewerSessionJoined, ViewerOffer, CallSetRemote
    <2>3. QED
      BY <2>1, <2>2
  <1>6. CASE HostPeerDisconnected \/ ViewerPeerDisconnected
    BY <1>6, CloseReleases DEF HostPeerDisconnected, ViewerPeerDisconnected, Arrives
  <1>7. CASE UNCHANGED pageVars
    BY <1>7 DEF pageVars
  <1>8. CASE HostError \/ ServerCreate \/ ServerJoin \/ ServerExpires \/ UNCHANGED vars
    BY <1>7, <1>8 DEF HostError, ServerCreate, ServerJoin, ServerExpires, vars
  <1>9. ASSUME NEW e \in Ends, RemoteIce(e) \/ Resume(e) \/ Surface(e)
                               \/ ServerRelay(e) \/ ServerDisconnect(e)
        PROVE  LifeInv'
    BY <1>7, <1>9 DEF RemoteIce, Resume, Surface, ServerRelay, ServerDisconnect
  <1>10. QED
    BY <1>1, <1>2, <1>3, <1>4, <1>5, <1>6, <1>8, <1>9, NextCases DEF Users

(* A client that was closed has no socket, no connection and no screen     *)
(* capture, and gets none any more, at whichever await the close found it: *)
(* stop() and close() leave nothing for a later step to bring back.        *)
THEOREM StoppedAlwaysReleased == Spec => []StoppedMeansReleased
  <1>1. Init => LifeInv
    BY DEF Init, LifeInv, StoppedMeansReleased, Ends
  <1>2. Typed /\ LifeInv /\ [Next]_vars => LifeInv'
    BY LifeStep DEF Typed
  <1>3. LifeInv => StoppedMeansReleased
    BY DEF LifeInv
  <1>4. QED
    BY <1>1, <1>2, <1>3, TypesInvariant, PTL DEF Spec

-----------------------------------------------------------------------------
(* Queues. *)

(* What a queue holds after one more frame.                                *)
LEMMA AppendToken ==
  ASSUME NEW S, NEW q \in Seq(S), NEW m \in S, NEW t
  PROVE  /\ Has(Append(q, m), t) <=> Has(q, t) \/ m = t
         /\ Once(q, t) /\ (m # t \/ ~Has(q, t)) => Once(Append(q, m), t)
  <1> DEFINE n == Len(q)  r == Append(q, m)
  <1>1. /\ n \in Nat /\ Len(r) = n + 1 /\ r[n + 1] = m
        /\ \A i \in 1..n : r[i] = q[i]
    BY AppendProperties, LenProperties
  <1> HIDE DEF n, r
  <1>2. Has(r, t) <=> Has(q, t) \/ m = t
    <2>1. Has(q, t) => Has(r, t)
      BY <1>1 DEF Has, n
    <2>2. m = t => Has(r, t)
      BY <1>1 DEF Has
    <2>3. Has(r, t) => Has(q, t) \/ m = t
      BY <1>1 DEF Has, n
    <2>4. QED
      BY <2>1, <2>2, <2>3
  <1>3. ASSUME Once(q, t), m # t \/ ~Has(q, t) PROVE Once(r, t)
    <2>1. SUFFICES ASSUME NEW i \in 1..n + 1, NEW j \in 1..n + 1, r[i] = t, r[j] = t
                   PROVE  i = j
      BY <1>1 DEF Once
    <2>2. CASE i \in 1..n /\ j \in 1..n
      BY <1>1, <1>3, <2>1, <2>2 DEF Once, n
    <2>3. CASE i = n + 1 /\ j = n + 1
      BY <2>3
    <2>4. CASE (i \in 1..n /\ j = n + 1) \/ (i = n + 1 /\ j \in 1..n)
      BY <1>1, <1>3, <2>1, <2>4 DEF Has, n
    <2>5. QED
      BY <1>1, <2>1, <2>2, <2>3, <2>4
  <1>4. QED
    BY <1>2, <1>3 DEF r

(* What a queue holds after its head was taken.                            *)
LEMMA TailToken ==
  ASSUME NEW S, NEW q \in Seq(S), q # <<>>, NEW t
  PROVE  /\ Has(Tail(q), t) => Has(q, t)
         /\ Once(q, t) => Once(Tail(q), t)
         /\ Once(q, t) /\ Head(q) = t => ~Has(Tail(q), t)
         /\ Head(q) = t => Has(q, t)
  <1> DEFINE n == Len(q)  r == Tail(q)
  <1>1. /\ n \in Nat \ {0} /\ Len(r) = n - 1 /\ Head(q) = q[1]
        /\ \A i \in 1..n - 1 : r[i] = q[i + 1]
    BY HeadTailProperties, EmptySeq, LenProperties
  <1> HIDE DEF n, r
  <1>2. ASSUME NEW i \in 1..n - 1
        PROVE  i + 1 \in 1..n /\ i + 1 # 1 /\ r[i] = q[i + 1]
    BY <1>1
  <1>3. Has(r, t) => Has(q, t)
    BY <1>1, <1>2 DEF Has, n
  <1>4. ASSUME Once(q, t) PROVE Once(r, t)
    <2>1. SUFFICES ASSUME NEW i \in 1..n - 1, NEW j \in 1..n - 1, r[i] = t, r[j] = t
                   PROVE  i = j
      BY <1>1 DEF Once
    <2>2. i + 1 = j + 1
      BY <1>2, <1>4, <2>1 DEF Once, n
    <2>3. QED
      BY <1>1, <2>2
  <1>5. ASSUME Once(q, t), Head(q) = t PROVE ~Has(r, t)
    <2>1. SUFFICES ASSUME NEW i \in 1..n - 1, r[i] = t PROVE FALSE
      BY <1>1 DEF Has
    <2>2. i + 1 = 1
      BY <1>1, <1>2, <1>5, <2>1 DEF Once, n
    <2>3. QED
      BY <1>2, <2>2
  <1>6. Head(q) = t => Has(q, t)
    BY <1>1 DEF Has, n
  <1>7. QED
    BY <1>3, <1>4, <1>5, <1>6 DEF r

(* A queue that lost frames, or gained some that are no tokens.            *)
NoNewToken(q, r) ==
    \A t \in Tokens : (Has(r, t) => Has(q, t)) /\ (Once(q, t) => Once(r, t))

(* A frame that is no token brings no token.                               *)
LEMMA OtherFrame ==
  ASSUME NEW q \in Seq(Frames), NEW m \in Frames \ Tokens
  PROVE  NoNewToken(q, q) /\ NoNewToken(q, Append(q, m))
  <1>1. NoNewToken(q, q)
    BY DEF NoNewToken
  <1>2. \A t \in Tokens : m # t
    OBVIOUS
  <1>3. ASSUME NEW t \in Tokens
        PROVE  /\ Has(Append(q, m), t) => Has(q, t)
               /\ Once(q, t) => Once(Append(q, m), t)
    BY <1>2, AppendToken
  <1>4. QED
    BY <1>1, <1>3 DEF NoNewToken

UpCalm == \A e \in Ends : NoNewToken(up[e], up'[e])
DownCalm == \A e \in Ends : NoNewToken(down[e], down'[e])

(* Queues of the other ends stay as they are; frames that are no token.    *)
LEMMA SendCalm ==
  ASSUME UpTypeOK, NEW e \in Ends, NEW m \in Frames \ Tokens, Send(e, m)
  PROVE  UpCalm
  <1>1. SUFFICES ASSUME NEW d \in Ends PROVE NoNewToken(up[d], up'[d])
    BY DEF UpCalm
  <1>2. up[d] \in Seq(Frames)
    BY DEF UpTypeOK
  <1>3. up'[d] \in {up[d], Append(up[d], m)}
    BY DEF UpTypeOK, Send
  <1>4. QED
    BY <1>2, <1>3, OtherFrame

(* Handling a request takes its token off the queue.                       *)
LEMMA HandledCalm ==
  ASSUME UpTypeOK, NEW e \in Ends, NEW m, Request(e, m), Handled(e)
  PROVE  /\ UpCalm
         /\ Has(up[e], m)
         /\ Once(up[e], m) => ~Has(up'[e], m)
  <1>1. /\ up[e] \in Seq(Frames) /\ up[e] # <<>> /\ Head(up[e]) = m
        /\ up'[e] = Tail(up[e])
        /\ \A d \in Ends : d # e => up'[d] = up[d]
    BY DEF UpTypeOK, Request, Handled
  <1>2. UpCalm
    BY <1>1, TailToken DEF UpCalm, NoNewToken
  <1>3. QED
    BY <1>1, <1>2, TailToken

(* Taking a frame takes its token off the queue.                           *)
LEMMA TakeCalm ==
  ASSUME DownTypeOK, NEW e \in Ends, NEW m, Arrives(e, m), Take(e)
  PROVE  /\ DownCalm
         /\ Has(down[e], m)
         /\ Once(down[e], m) => ~Has(down'[e], m)
  <1>1. /\ down[e] \in Seq(Frames) /\ down[e] # <<>> /\ Head(down[e]) = m
        /\ down'[e] = Tail(down[e])
        /\ \A d \in Ends : d # e => down'[d] = down[d]
    BY DEF DownTypeOK, Arrives, Take
  <1>2. DownCalm
    BY <1>1, TailToken DEF DownCalm, NoNewToken
  <1>3. QED
    BY <1>1, <1>2, TailToken

(* A notice of the server that is no token brings none.                    *)
LEMMA ToEndCalm ==
  ASSUME DownTypeOK, NEW e \in Ends, NEW m \in Frames \ Tokens, ToEnd(e, m)
  PROVE  DownCalm
  <1>1. SUFFICES ASSUME NEW d \in Ends PROVE NoNewToken(down[d], down'[d])
    BY DEF DownCalm
  <1>2. down[d] \in Seq(Frames)
    BY DEF DownTypeOK
  <1>3. down'[d] \in {down[d], Append(down[d], m)}
    BY DEF DownTypeOK, ToEnd
  <1>4. QED
    BY <1>2, <1>3, OtherFrame

(* A close brings no token.                                                *)
LEMMA CloseCalm ==
  ASSUME UpTypeOK, NEW e \in Ends, CloseEnd(e)
  PROVE  UpCalm
  <1>1. SUFFICES ASSUME NEW d \in Ends PROVE NoNewToken(up[d], up'[d])
    BY DEF UpCalm
  <1>2. up[d] \in Seq(Frames)
    BY DEF UpTypeOK
  <1>3. {"end-session", "gone"} \subseteq Frames \ Tokens
    BY DEF Frames, FrameTypes, Tokens
  <1> DEFINE q == Append(up[d], "end-session")
  <1>4. q \in Seq(Frames)
    BY <1>2, <1>3
  <1>5. Append(q, "gone") = up[d] \o <<"end-session", "gone">>
    BY <1>2, <1>3, <1>4, AppendIsConcat, ConcatAssociative
  <1>6. up'[d] = up[d] \/ up'[d] = Append(q, "gone")
    BY <1>5 DEF UpTypeOK, CloseEnd
  <1>7. NoNewToken(up[d], Append(q, "gone"))
    <2>1. NoNewToken(up[d], q)
      BY <1>2, <1>3, AppendToken DEF NoNewToken
    <2>2. NoNewToken(q, Append(q, "gone"))
      BY <1>3, <1>4, AppendToken DEF NoNewToken
    <2>3. QED
      BY <2>1, <2>2 DEF NoNewToken
  <1>8. QED
    BY <1>6, <1>7 DEF NoNewToken

(* A queue that stays as it is gets no token.                              *)
LEMMA SameCalm == (up' = up => UpCalm) /\ (down' = down => DownCalm)
  BY DEF UpCalm, DownCalm, NoNewToken

(* A token joins the queue of one end, where there was none of its kind.   *)
Gains(e, token, q, r) ==
    \A d \in Ends, t \in Tokens :
      /\ Has(r[d], t) => Has(q[d], t) \/ (d = e /\ t = token)
      /\ Once(q[d], t) => Once(r[d], t)

(* Appending a token that is not there is such a gain.                     *)
LEMMA TokenJoins ==
  ASSUME NEW q \in [Ends -> Seq(Frames)], NEW e \in Ends, NEW token \in Tokens,
         ~Has(q[e], token)
  PROVE  /\ Gains(e, token, q, [q EXCEPT ![e] = Append(@, token)])
         /\ Gains(e, token, q, q)
  <1>1. token \in Frames
    BY DEF Tokens, Frames, FrameTypes
  <1>2. Gains(e, token, q, q)
    BY DEF Gains
  <1>3. ASSUME NEW d \in Ends, NEW t \in Tokens
        PROVE  LET r == [q EXCEPT ![e] = Append(@, token)] IN
                 /\ Has(r[d], t) => Has(q[d], t) \/ (d = e /\ t = token)
                 /\ Once(q[d], t) => Once(r[d], t)
    <2>1. CASE d = e
      <3>1. /\ Has(Append(q[e], token), t) <=> Has(q[e], t) \/ token = t
            /\ Once(q[e], t) /\ (token # t \/ ~Has(q[e], t)) => Once(Append(q[e], token), t)
        BY <1>1, AppendToken
      <3>2. QED
        BY <2>1, <3>1
    <2>2. CASE d # e
      BY <2>2
    <2>3. QED
      BY <2>1, <2>2
  <1>4. QED
    BY <1>2, <1>3 DEF Gains

-----------------------------------------------------------------------------
(* The handshake. *)

(* The opening of the host goes on, a session ends: nothing of the         *)
(* handshake moves.                                                        *)
LEMMA CalmKeeps ==
  ASSUME HandshakeInv, UpCalm, DownCalm,
         task' = task, remoteDescSet' = remoteDescSet, described' = described,
         \/ served' = served
         \/ served # "none" /\ served' = "over",
         opening'["host"] \in {"new", "picker", "socket"}
           => opening["host"] \in {"new", "picker", "socket"}
  PROVE  HandshakeInv'
  <1>1. NothingTwice'
    BY DEF HandshakeInv, NothingTwice, UpCalm, DownCalm, NoNewToken
  <1>2. \A e \in Ends, t \in Tokens :
          (Has(up[e], t)' => Has(up[e], t)) /\ (Has(down[e], t)' => Has(down[e], t))
    BY DEF UpCalm, DownCalm, NoNewToken, Has
  <1>3. OneHandshake'
    BY <1>2 DEF HandshakeInv, OneHandshake, NothingYet, NoOfferYet, NoAnswerYet, HostWaits,
                ViewerWaits, Ends, Tokens
  <1>4. DescribedFirst' /\ OwnTasks'
    BY DEF HandshakeInv, DescribedFirst, OwnTasks
  <1>5. QED
    BY <1>1, <1>3, <1>4 DEF HandshakeInv

(* A page event that is no part of the negotiation.                        *)
LEMMA PagesKeep ==
  ASSUME Typed, LifeInv, HandshakeInv,
         \/ Users \/ HostSessionCreated \/ HostPeerDisconnected \/ HostError
         \/ ViewerSessionJoined \/ ViewerPeerDisconnected
         \/ \E e \in Ends : SocketFails(e) \/ SocketLost(e) \/ RemoteIce(e) \/ Surface(e)
  PROVE  HandshakeInv'
  <1>1. UpTypeOK /\ DownTypeOK /\ IceTypeOK /\ PageTypeOK
    BY DEF Typed
  <1>2. task' = task /\ remoteDescSet' = remoteDescSet /\ described' = described
    BY DEF Users, HostStarts, PickerAnswered, HostStops, ViewerConnects, ViewerCloses,
           HostSessionCreated, HostPeerDisconnected, HostError, ViewerSessionJoined,
           ViewerPeerDisconnected, SocketFails, SocketLost, RemoteIce, Surface,
           handlerVars, iceVars
  <1>3. served' = served
    BY DEF Users, HostStarts, PickerAnswered, HostStops, ViewerConnects, ViewerCloses,
           HostSessionCreated, HostPeerDisconnected, HostError, ViewerSessionJoined,
           ViewerPeerDisconnected, SocketFails, SocketLost, RemoteIce, Surface, CloseEnd
  <1>4. opening'["host"] \in {"new", "picker", "socket"}
          => opening["host"] \in {"new", "picker", "socket"}
    BY <1>1 DEF Users, HostStarts, PickerAnswered, HostStops, ViewerConnects, ViewerCloses,
           HostSessionCreated, HostPeerDisconnected, HostError, ViewerSessionJoined, Connecting,
           ViewerPeerDisconnected, SocketFails, SocketLost, RemoteIce, Surface, CloseEnd,
           pageVars, PageTypeOK, Ends
  <1>5. UpCalm
    <2>1. CASE \E e \in Ends : CloseEnd(e)
      BY <1>1, <2>1, CloseCalm
    <2>2. CASE \E e \in Ends : SocketLost(e) \/ Surface(e)
      <3>1. PICK e \in Ends : SocketLost(e) \/ Surface(e)
        BY <2>2
      <3>2. \E m \in Frames \ Tokens : Send(e, m)
        <4>1. "gone" \in Frames \ Tokens
          BY DEF Frames, FrameTypes, Tokens
        <4>2. CASE SocketLost(e)
          BY <4>1, <4>2 DEF SocketLost, Send
        <4>3. CASE Surface(e)
          <5>1. PICK c \in gathering[e] : Send(e, c)
            BY <4>3 DEF Surface
          <5>2. c \in Candidates
            BY <1>1 DEF IceTypeOK
          <5>3. c \in Frames \ Tokens
            BY <5>2, FrameAssumption DEF Frames, FrameTypes, Tokens
          <5>4. QED
            BY <5>1, <5>3
        <4>4. QED
          BY <3>1, <4>2, <4>3
      <3>3. QED
        BY <1>1, <3>2, SendCalm
    <2>3. CASE up' = up
      BY <2>3, SameCalm
    <2>4. QED
      BY <2>1, <2>2, <2>3
         DEF Users, HostStarts, PickerAnswered, HostStops, ViewerConnects, ViewerCloses,
             HostSessionCreated, HostPeerDisconnected, HostError, ViewerSessionJoined,
             ViewerPeerDisconnected, SocketFails, RemoteIce, Ends
  <1>6. DownCalm
    <2>1. down' = down \/ \E e \in Ends, m \in Frames : Arrives(e, m) /\ Take(e)
      <3>1. CASE \E e \in Ends : RemoteIce(e)
        BY <3>1, Alphabets DEF RemoteIce, Frames
      <3>2. CASE ~\E e \in Ends : RemoteIce(e)
        BY <3>2 DEF Users, HostStarts, PickerAnswered, HostStops, ViewerConnects, ViewerCloses,
             HostSessionCreated, HostPeerDisconnected, HostError, ViewerSessionJoined,
             ViewerPeerDisconnected, SocketFails, SocketLost, Surface, Ends, Frames, FrameTypes
      <3>3. QED
        BY <3>1, <3>2
    <2>2. QED
      BY <1>1, <2>1, SameCalm, TakeCalm
  <1>7. QED
    BY <1>2, <1>3, <1>4, <1>5, <1>6, CalmKeeps

(* The host's socket opens: the one request for a session leaves.          *)
LEMMA OpensKeeps ==
  ASSUME Typed, LifeInv, HandshakeInv, NEW e \in Ends, SocketOpens(e)
  PROVE  HandshakeInv'
  <1>1. UpTypeOK /\ PageTypeOK
    BY DEF Typed
  <1>2. DownCalm /\ task' = task /\ remoteDescSet' = remoteDescSet /\ described' = described
        /\ served' = served
    BY SameCalm DEF SocketOpens, handlerVars, iceVars
  <1>3. CASE e = "viewer"
    <2>1. "join-session" \in Frames \ Tokens
      BY DEF Frames, FrameTypes, Tokens
    <2>2. \A d \in Ends : up'[d] \in {up[d], Append(up[d], "join-session")}
      BY <1>1, <1>3 DEF SocketOpens, UpTypeOK
    <2>3. UpCalm
      BY <1>1, <2>1, <2>2, OtherFrame DEF UpCalm, UpTypeOK
    <2>4. opening'["host"] = opening["host"]
      BY <1>1, <1>3 DEF SocketOpens, PageTypeOK, Ends
    <2>5. QED
      BY <1>2, <2>3, <2>4, CalmKeeps
  <1>4. CASE e = "host"
    <2>1. opening["host"] = "socket" /\ opening'["host"] = "done"
      BY <1>1, <1>4 DEF SocketOpens, LifeInv, PageTypeOK
    <2>2. served = "none" /\ ~Has(up["host"], "create-session")
      BY <2>1 DEF HandshakeInv, OneHandshake
    <2>3. Gains("host", "create-session", up, up')
      BY <1>1, <1>4, <2>2, TokenJoins DEF SocketOpens, UpTypeOK, Tokens
    <2>4. NothingTwice'
      BY <1>2, <2>3 DEF HandshakeInv, NothingTwice, Gains, DownCalm, NoNewToken
    <2>5. /\ \A d \in Ends, t \in Tokens \ {"create-session"} : Has(up[d], t)' => Has(up[d], t)
          /\ \A d \in Ends, t \in Tokens : Has(down[d], t)' => Has(down[d], t)
      BY <1>2, <2>3 DEF Gains, DownCalm, NoNewToken, Has
    <2>6. OneHandshake'
      BY <1>2, <2>1, <2>2, <2>5 DEF HandshakeInv, OneHandshake, NothingYet, NoOfferYet,
                NoAnswerYet, HostWaits, ViewerWaits, Ends, Tokens
    <2>7. QED
      BY <1>2, <2>4, <2>6 DEF HandshakeInv, DescribedFirst, OwnTasks
  <1>5. QED
    BY <1>3, <1>4 DEF Ends

(* What a calm step says of the frames the handshake speaks of.            *)
LEMMA CalmAtoms ==
  /\ UpCalm => \A e \in Ends, t \in Tokens : Has(up[e], t)' => Has(up[e], t)
  /\ DownCalm => \A e \in Ends, t \in Tokens : Has(down[e], t)' => Has(down[e], t)
  /\ UpCalm /\ DownCalm /\ NothingTwice => NothingTwice'
  <1>1. UpCalm => \A e \in Ends, t \in Tokens : Has(up[e], t)' => Has(up[e], t)
    BY DEF UpCalm, NoNewToken, Has
  <1>2. DownCalm => \A e \in Ends, t \in Tokens : Has(down[e], t)' => Has(down[e], t)
    BY DEF DownCalm, NoNewToken, Has
  <1>3. UpCalm /\ DownCalm /\ NothingTwice => NothingTwice'
    BY DEF UpCalm, DownCalm, NoNewToken, NothingTwice
  <1>4. QED
    BY <1>1, <1>2, <1>3

(* viewer-joined, answer, offer: a token is taken from the queue and its   *)
(* handler begins.                                                         *)
LEMMA EventsKeep ==
  ASSUME Typed, HandshakeInv, HostViewerJoined \/ HostAnswer \/ ViewerOffer
  PROVE  HandshakeInv'
  <1> USE DEF Ends, Tokens
  <1>1. DownTypeOK /\ PageTypeOK /\ FlagTypeOK
    BY DEF Typed
  <1>2. UpCalm /\ remoteDescSet' = remoteDescSet /\ served' = served
        /\ opening' = opening
    BY SameCalm DEF HostViewerJoined, HostAnswer, ViewerOffer, CallSetRemote, handlerVars
  <1>3. CASE HostViewerJoined
    <2>1. /\ DownCalm /\ Has(down["host"], "viewer-joined")
          /\ Once(down["host"], "viewer-joined") => ~Has(down'["host"], "viewer-joined")
      BY <1>1, <1>3, TakeCalm DEF HostViewerJoined
    <2>2. ~Has(down["host"], "viewer-joined")'
      BY <2>1 DEF HandshakeInv, NothingTwice, Has
    <2>3. task' = [task EXCEPT !["host"] = "createOffer"] /\ described' = described
      BY <1>3 DEF HostViewerJoined, iceVars
    <2>4. OneHandshake'
      BY <1>1, <1>2, <2>1, <2>2, <2>3, CalmAtoms
         DEF HandshakeInv, PageTypeOK, OneHandshake, NothingYet, NoOfferYet, NoAnswerYet,
             HostWaits, ViewerWaits
    <2>5. DescribedFirst' /\ OwnTasks'
      BY <1>1, <1>2, <2>3 DEF HandshakeInv, DescribedFirst, OwnTasks, PageTypeOK
    <2>6. QED
      BY <1>2, <2>1, <2>4, <2>5, CalmAtoms DEF HandshakeInv
  <1>4. CASE HostAnswer
    <2>1. /\ DownCalm /\ Has(down["host"], "answer")
          /\ Once(down["host"], "answer") => ~Has(down'["host"], "answer")
      BY <1>1, <1>4, TakeCalm DEF HostAnswer
    <2>2. ~Has(down["host"], "answer")'
      BY <2>1 DEF HandshakeInv, NothingTwice, Has
    <2>3. /\ task' = [task EXCEPT !["host"] = "setRemote"]
          /\ described'["viewer"] = described["viewer"]
      BY <1>1, <1>4 DEF HostAnswer, CallSetRemote, FlagTypeOK
    <2>4. OneHandshake'
      BY <1>1, <1>2, <2>1, <2>2, <2>3, CalmAtoms
         DEF HandshakeInv, PageTypeOK, OneHandshake, NothingYet, NoOfferYet, NoAnswerYet,
             HostWaits, ViewerWaits
    <2>5. HostWaits
      BY <2>1 DEF HandshakeInv, OneHandshake
    <2>6. DescribedFirst' /\ OwnTasks'
      BY <1>1, <1>2, <2>3, <2>5
         DEF HandshakeInv, DescribedFirst, OwnTasks, PageTypeOK, HostWaits
    <2>7. QED
      BY <1>2, <2>1, <2>4, <2>6, CalmAtoms DEF HandshakeInv
  <1>5. CASE ViewerOffer
    <2>1. /\ DownCalm /\ Has(down["viewer"], "offer")
          /\ Once(down["viewer"], "offer") => ~Has(down'["viewer"], "offer")
      BY <1>1, <1>5, TakeCalm DEF ViewerOffer
    <2>2. ~Has(down["viewer"], "offer")'
      BY <2>1 DEF HandshakeInv, NothingTwice, Has
    <2>3. /\ task' = [task EXCEPT !["viewer"] = "setRemote"]
          /\ described'["host"] = described["host"]
      BY <1>1, <1>5 DEF ViewerOffer, CallSetRemote, FlagTypeOK
    <2>4. OneHandshake'
      BY <1>1, <1>2, <2>1, <2>2, <2>3, CalmAtoms
         DEF HandshakeInv, PageTypeOK, OneHandshake, NothingYet, NoOfferYet, NoAnswerYet,
             HostWaits, ViewerWaits
    <2>5. ViewerWaits
      BY <2>1 DEF HandshakeInv, OneHandshake
    <2>6. DescribedFirst' /\ OwnTasks'
      BY <1>1, <1>2, <2>3, <2>5
         DEF HandshakeInv, DescribedFirst, OwnTasks, PageTypeOK, ViewerWaits
    <2>7. QED
      BY <1>2, <2>1, <2>4, <2>6, CalmAtoms DEF HandshakeInv
  <1>6. QED
    BY <1>3, <1>4, <1>5

(* An await ends.                                                          *)
LEMMA ResumeKeeps ==
  ASSUME Typed, HandshakeInv, NEW e \in Ends, Resume(e)
  PROVE  HandshakeInv'
  <1> USE DEF Ends, Tokens
  <1>1. UpTypeOK /\ PageTypeOK /\ FlagTypeOK
    BY DEF Typed
  <1>2. DownCalm /\ served' = served /\ opening' = opening
    BY SameCalm DEF Resume, pageVars
  <1>3. CASE ~LocalSet(e)
    <2>1. UpCalm /\ described' = described
      BY <1>3, SameCalm DEF Resume, RemoteSet, DrainOne, DrainEnds, Created, Throws, HandlerEnds,
                  iceVars
    <2>2. CASE RemoteSet(e)
      <3>1. /\ task[e] = "setRemote" /\ described[e]
            /\ remoteDescSet' = [remoteDescSet EXCEPT ![e] = TRUE]
            /\ task' = [task EXCEPT ![e] = "drain"]
        BY <2>2 DEF RemoteSet
      <3>2. OneHandshake'
        BY <1>1, <1>2, <2>1, <3>1, CalmAtoms
           DEF HandshakeInv, PageTypeOK, FlagTypeOK, OneHandshake, NothingYet, NoOfferYet,
               NoAnswerYet, HostWaits, ViewerWaits
      <3>3. DescribedFirst' /\ OwnTasks'
        BY <1>1, <2>1, <3>1
           DEF HandshakeInv, DescribedFirst, OwnTasks, PageTypeOK, FlagTypeOK
      <3>4. QED
        BY <1>2, <2>1, <3>2, <3>3, CalmAtoms DEF HandshakeInv
    <2>3. CASE DrainOne(e)
      BY <1>2, <2>1, <2>3, CalmKeeps DEF DrainOne, handlerVars
    <2>4. CASE DrainEnds(e) \/ Created(e) \/ Throws(e)
      <3>1. remoteDescSet' = remoteDescSet
        BY <2>4 DEF DrainEnds, Created, Throws, HandlerEnds
      <3>2. \/ task[e] = "drain" /\ task' = [task EXCEPT ![e] = AfterDrain(e)]
            \/ /\ task[e] \in {"createOffer", "createAnswer"}
               /\ task' = [task EXCEPT ![e] = "setLocal"]
            \/ task[e] # "idle" /\ task' = [task EXCEPT ![e] = "failed"]
        BY <2>4 DEF DrainEnds, Created, CallSetLocal, Throws, HandlerEnds
      <3>3. OneHandshake'
        BY <1>1, <1>2, <2>1, <3>1, <3>2, CalmAtoms
           DEF HandshakeInv, PageTypeOK, AfterDrain, OwnTasks, OneHandshake, NothingYet,
               NoOfferYet, NoAnswerYet, HostWaits, ViewerWaits
      <3>4. DescribedFirst' /\ OwnTasks'
        BY <1>1, <2>1, <3>1, <3>2
           DEF HandshakeInv, DescribedFirst, OwnTasks, PageTypeOK, AfterDrain
      <3>5. QED
        BY <1>2, <2>1, <3>3, <3>4, CalmAtoms DEF HandshakeInv
    <2>5. QED
      BY <1>3, <2>2, <2>3, <2>4 DEF Resume
  <1>4. CASE LocalSet(e)
    <2> DEFINE token == IF e = "host" THEN "offer" ELSE "answer"
    <2>1. /\ task[e] = "setLocal" /\ task' = [task EXCEPT ![e] = "idle"]
          /\ remoteDescSet' = remoteDescSet /\ described' = described
      BY <1>4 DEF LocalSet, iceVars
    <2>2. ~Has(up[e], token)
      BY <2>1 DEF HandshakeInv, OneHandshake, NothingYet, NoOfferYet, NoAnswerYet, HostWaits,
                  ViewerWaits
    <2>3. Gains(e, token, up, up')
      BY <1>1, <1>4, <2>2, TokenJoins DEF LocalSet, Send, UpTypeOK
    <2>4. NothingTwice'
      BY <1>2, <2>3 DEF HandshakeInv, NothingTwice, Gains, DownCalm, NoNewToken
    <2>5. /\ \A d \in Ends, t \in Tokens : Has(up[d], t)' => Has(up[d], t) \/ (d = e /\ t = token)
          /\ \A d \in Ends, t \in Tokens : Has(down[d], t)' => Has(down[d], t)
      <3> HIDE DEF Ends, Tokens, token
      <3>1. \A d \in Ends, t \in Tokens : Has(up[d], t)' => Has(up[d], t) \/ (d = e /\ t = token)
        BY <2>3 DEF Gains, Has
      <3>2. QED
        BY <1>2, <3>1, CalmAtoms
    <2>6. OneHandshake'
      BY <1>1, <1>2, <2>1, <2>5
         DEF HandshakeInv, PageTypeOK, OwnTasks, OneHandshake, NothingYet, NoOfferYet,
             NoAnswerYet, HostWaits, ViewerWaits
    <2>7. DescribedFirst' /\ OwnTasks'
      BY <1>1, <2>1 DEF HandshakeInv, DescribedFirst, OwnTasks, PageTypeOK
    <2>8. QED
      BY <2>4, <2>6, <2>7 DEF HandshakeInv
  <1>5. QED
    BY <1>3, <1>4

(* The server takes a request, or expires the session.                     *)
LEMMA ServerKeeps ==
  ASSUME Typed, HandshakeInv,
         \/ ServerCreate \/ ServerJoin \/ ServerExpires
         \/ \E e \in Ends : ServerRelay(e) \/ ServerDisconnect(e)
  PROVE  HandshakeInv'
  <1>1. UpTypeOK /\ DownTypeOK /\ PageTypeOK
    BY DEF Typed
  <1>2. /\ task' = task /\ remoteDescSet' = remoteDescSet /\ described' = described
        /\ opening' = opening
    BY DEF ServerCreate, ServerJoin, ServerExpires, ServerRelay, ServerDisconnect,
           pageVars, iceVars, handlerVars
  <1>3. DescribedFirst' /\ OwnTasks'
    BY <1>2 DEF HandshakeInv, DescribedFirst, OwnTasks
  <1>4. "error" \in Frames \ Tokens /\ "session-created" \in Frames \ Tokens
        /\ "peer-disconnected" \in Frames \ Tokens /\ "session-expired" \in Frames \ Tokens
        /\ "session-joined" \in Frames \ Tokens
    BY DEF Frames, FrameTypes, Tokens
  <1>5. "host" \in Ends /\ "viewer" \in Ends
    BY DEF Ends
  <1>6. CASE ServerCreate
    <2>1. /\ UpCalm /\ Has(up["host"], "create-session")
          /\ Once(up["host"], "create-session") => ~Has(up'["host"], "create-session")
      BY <1>1, <1>5, <1>6, HandledCalm DEF ServerCreate
    <2>2. DownCalm
      BY <1>1, <1>4, <1>5, <1>6, ToEndCalm DEF ServerCreate
    <2>3. ~Has(up["host"], "create-session")'
      BY <1>5, <2>1 DEF HandshakeInv, NothingTwice, Has, Tokens
    <2>4. served' \in {"waiting", served}
      BY <1>6 DEF ServerCreate
    <2>5. OneHandshake'
      BY <1>2, <2>1, <2>2, <2>3, <2>4, CalmAtoms
         DEF HandshakeInv, Ends, Tokens, OneHandshake, NothingYet, NoOfferYet, NoAnswerYet,
             HostWaits, ViewerWaits
    <2>6. QED
      BY <1>3, <2>1, <2>2, <2>5, CalmAtoms DEF HandshakeInv
  <1>7. CASE ServerJoin
    <2>1. UpCalm
      BY <1>1, <1>5, <1>7, HandledCalm DEF ServerJoin
    <2>2. CASE /\ ToEnd("viewer", "error")
               /\ served' \in {served} \cup (IF served = "waiting" THEN {"over"} ELSE {})
      <3>1. DownCalm
        BY <1>1, <1>4, <1>5, <2>2, ToEndCalm
      <3>2. served' = served \/ (served # "none" /\ served' = "over")
        BY <2>2
      <3>3. QED
        BY <1>2, <2>1, <3>1, <3>2, CalmKeeps
    <2>3. CASE /\ served = "waiting" /\ served' = "paired"
               /\ down' = [e \in Ends |->
                             IF ws[e] # "open" THEN down[e]
                             ELSE Append(down[e], IF e = "host" THEN "viewer-joined"
                                                                ELSE "session-joined")]
      <3>1. NothingYet
        BY <2>3 DEF HandshakeInv, OneHandshake
      <3>2. ~Has(down["host"], "viewer-joined")
        BY <3>1 DEF NothingYet
      <3>3. NoNewToken(down["viewer"], down'["viewer"])
        BY <1>1, <1>4, <1>5, <2>3, OtherFrame DEF DownTypeOK
      <3>4. /\ "viewer-joined" \in Frames /\ down["host"] \in Seq(Frames)
            /\ down'["host"] \in {down["host"], Append(down["host"], "viewer-joined")}
        BY <1>1, <1>5, <2>3 DEF DownTypeOK, Frames, FrameTypes
      <3>5. \A t \in Tokens :
              /\ Has(down'["host"], t) => Has(down["host"], t) \/ t = "viewer-joined"
              /\ Once(down["host"], t) => Once(down'["host"], t)
        <4>1. CASE down'["host"] = down["host"]
          BY <4>1
        <4>2. CASE down'["host"] = Append(down["host"], "viewer-joined")
          <5>1. ASSUME NEW t \in Tokens
                PROVE  LET q == down["host"] IN
                       /\ Has(Append(q, "viewer-joined"), t) => Has(q, t) \/ t = "viewer-joined"
                       /\ Once(q, t) => Once(Append(q, "viewer-joined"), t)
            BY <3>2, <3>4, AppendToken
          <5>2. QED
            BY <4>2, <5>1
        <4>3. QED
          BY <3>4, <4>1, <4>2
      <3>6. NothingTwice'
        BY <2>1, <3>3, <3>5
           DEF HandshakeInv, NothingTwice, UpCalm, NoNewToken, Ends
      <3>7. \A e \in Ends, t \in Tokens :
              Has(down[e], t)' => Has(down[e], t) \/ (e = "host" /\ t = "viewer-joined")
        BY <3>3, <3>5 DEF NoNewToken, Ends, Has
      <3>8. OneHandshake'
        BY <1>2, <2>1, <2>3, <3>1, <3>7, CalmAtoms
           DEF HandshakeInv, Ends, Tokens, OneHandshake, NothingYet, NoOfferYet, NoAnswerYet,
               HostWaits, ViewerWaits
      <3>9. QED
        BY <1>3, <3>6, <3>8 DEF HandshakeInv
    <2>4. QED
      BY <1>7, <2>2, <2>3 DEF ServerJoin
  <1>8. CASE ServerExpires
    <2>1. UpCalm /\ DownCalm
      BY <1>1, <1>4, <1>5, <1>8, SameCalm, ToEndCalm DEF ServerExpires
    <2>2. QED
      BY <1>2, <1>8, <2>1, CalmKeeps DEF ServerExpires
  <1>9. ASSUME NEW e \in Ends, ServerDisconnect(e)
        PROVE  HandshakeInv'
    <2>1. UpCalm
      BY <1>1, <1>9, HandledCalm DEF ServerDisconnect
    <2>2. DownCalm
      BY <1>1, <1>4, <1>9, SameCalm, ToEndCalm, Alphabets DEF ServerDisconnect
    <2>3. served' = served \/ (served # "none" /\ served' = "over")
      BY <1>9 DEF ServerDisconnect
    <2>4. QED
      BY <1>2, <2>1, <2>2, <2>3, CalmKeeps
  <1>10. ASSUME NEW e \in Ends, ServerRelay(e)
         PROVE  HandshakeInv'
    <2>1. PICK m \in Relayed(e) : /\ Request(e, m) /\ Handled(e)
                                  /\ ToEnd(Other(e), m) \/ down' = down
      BY <1>10 DEF ServerRelay, RelayTarget
    <2>2. /\ UpCalm /\ Has(up[e], m)
          /\ Once(up[e], m) => ~Has(up'[e], m)
      BY <1>1, <2>1, HandledCalm
    <2>3. served' = served
      BY <1>10 DEF ServerRelay
    <2>4. CASE m \in Own(e)
      <3>1. m \in Frames \ Tokens
        BY <2>4, Alphabets, FrameAssumption DEF Frames, FrameTypes, Tokens
      <3>2. DownCalm
        BY <1>1, <2>1, <3>1, SameCalm, ToEndCalm, Alphabets
      <3>3. QED
        BY <1>2, <2>2, <2>3, <3>2, CalmKeeps
    <2>5. CASE m = (IF e = "host" THEN "offer" ELSE "answer")
      <3>1. m \in Tokens /\ Other(e) \in Ends
        BY <2>5, Alphabets DEF Tokens
      <3>2. ~Has(up[e], m)'
        BY <2>2, <3>1 DEF HandshakeInv, NothingTwice, Has
      <3>3. ~Has(down[Other(e)], m)
        BY <2>2, <2>5 DEF HandshakeInv, Ends, Other, OneHandshake, NothingYet, NoOfferYet,
                          NoAnswerYet, HostWaits, ViewerWaits
      <3>4. Gains(Other(e), m, down, down')
        BY <1>1, <2>1, <3>1, <3>3, TokenJoins DEF ToEnd, DownTypeOK
      <3>5. NothingTwice'
        BY <2>2, <3>4 DEF HandshakeInv, NothingTwice, Gains, UpCalm, NoNewToken
      <3>6. \A d \in Ends, t \in Tokens :
              Has(down[d], t)' => Has(down[d], t) \/ (d = Other(e) /\ t = m)
        BY <3>4 DEF Gains, Has
      <3>7. OneHandshake'
        <4>1. CASE e = "host"
          BY <1>2, <2>2, <2>3, <2>5, <3>2, <3>6, <4>1, CalmAtoms
             DEF HandshakeInv, Ends, Tokens, Other, OneHandshake, NothingYet, NoOfferYet,
                 NoAnswerYet, HostWaits, ViewerWaits
        <4>2. CASE e = "viewer"
          BY <1>2, <2>2, <2>3, <2>5, <3>2, <3>6, <4>2, CalmAtoms
             DEF HandshakeInv, Ends, Tokens, Other, OneHandshake, NothingYet, NoOfferYet,
                 NoAnswerYet, HostWaits, ViewerWaits
        <4>3. QED
          BY <4>1, <4>2 DEF Ends
      <3>8. QED
        BY <1>3, <3>5, <3>7 DEF HandshakeInv
    <2>6. QED
      BY <2>4, <2>5 DEF Relayed
  <1>11. QED
    BY <1>6, <1>7, <1>8, <1>9, <1>10

(* HandshakeInv holds along every behaviour.                               *)
LEMMA HandshakeInvariant == Init /\ [][Next]_vars => []HandshakeInv
  <1>1. Init => HandshakeInv
    <2> SUFFICES ASSUME Init PROVE HandshakeInv
      OBVIOUS
    <2>1. \A e \in Ends : up[e] = <<>> /\ down[e] = <<>>
      BY DEF Init
    <2>2. \A e \in Ends, t \in Tokens :
            /\ ~Has(up[e], t) /\ ~Has(down[e], t)
            /\ Once(up[e], t) /\ Once(down[e], t)
      BY <2>1, EmptySeq DEF Has, Once
    <2>3. OneHandshake
      BY <2>2 DEF Init, Ends, Tokens, OneHandshake, NothingYet, NoOfferYet, NoAnswerYet,
                  HostWaits, ViewerWaits
    <2>4. QED
      BY <2>2, <2>3 DEF Init, HandshakeInv, NothingTwice, DescribedFirst, OwnTasks, Ends
  <1>2. Init => LifeInv
    BY DEF Init, LifeInv, StoppedMeansReleased, Ends
  <1>3. Typed /\ LifeInv /\ [Next]_vars => LifeInv'
    BY LifeStep DEF Typed
  <1>4. Typed /\ LifeInv /\ HandshakeInv /\ [Next]_vars => HandshakeInv'
    <2> SUFFICES ASSUME Typed, LifeInv, HandshakeInv, [Next]_vars PROVE HandshakeInv'
      OBVIOUS
    <2>1. CASE UNCHANGED vars
      BY <2>1, SameCalm, CalmKeeps DEF vars, pageVars, iceVars, handlerVars
    <2>2. QED
      BY <2>1, NextCases, PagesKeep, OpensKeeps, EventsKeep, ResumeKeeps, ServerKeeps
  <1>5. QED
    BY <1>1, <1>2, <1>3, <1>4, TypesInvariant, PTL

(* A candidate meets a connection only with its description in place: it   *)
(* was handed on by RemoteIce behind remoteDescSet, or by the drain.       *)
LEMMA RefusesNone ==
  ASSUME Typed, HandshakeInv, NoCandidateRefused, [Next]_vars
  PROVE  NoCandidateRefused'
  <1> USE DEF NoCandidateRefused
  <1>1. CASE refused' = refused
    BY <1>1
  <1>2. ASSUME NEW e \in Ends, RemoteIce(e)
        PROVE  refused' = refused
    BY <1>2 DEF RemoteIce, AddIce, HandshakeInv, DescribedFirst
  <1>3. ASSUME NEW e \in Ends, Resume(e)
        PROVE  refused' = refused
    <2>1. CASE DrainOne(e)
      BY <2>1 DEF DrainOne, AddIce, HandshakeInv, DescribedFirst
    <2>2. CASE ~DrainOne(e)
      BY <1>3, <2>2 DEF Resume, RemoteSet, DrainEnds, Created, LocalSet, Throws, HandlerEnds,
                        iceVars
    <2>3. QED
      BY <2>1, <2>2
  <1>4. ASSUME NEW e \in Ends, \/ SocketOpens(e) \/ SocketFails(e) \/ SocketLost(e)
                               \/ Surface(e) \/ ServerRelay(e) \/ ServerDisconnect(e)
        PROVE  refused' = refused
    BY <1>4 DEF SocketOpens, SocketFails, SocketLost, Surface, ServerRelay, ServerDisconnect,
                iceVars
  <1>5. CASE \/ Users \/ HostSessionCreated \/ HostViewerJoined \/ HostAnswer \/ HostError
             \/ HostPeerDisconnected \/ ViewerSessionJoined \/ ViewerOffer
             \/ ViewerPeerDisconnected \/ ServerCreate \/ ServerJoin \/ ServerExpires
             \/ UNCHANGED vars
    BY <1>1, <1>5 DEF Users, HostStarts, PickerAnswered, HostStops, ViewerConnects, ViewerCloses,
                HostSessionCreated, HostViewerJoined, HostAnswer, HostError,
                HostPeerDisconnected, ViewerSessionJoined, ViewerOffer,
                ViewerPeerDisconnected, CallSetRemote, ServerCreate, ServerJoin,
                ServerExpires, iceVars, vars
  <1>6. QED
    BY <1>1, <1>2, <1>3, <1>4, <1>5, NextCases

(* No ICE candidate reaches a connection that would refuse it, in whatever *)
(* order candidates, offer and answer arrive and await each other.         *)
THEOREM NoCandidateEverRefused == Spec => []NoCandidateRefused
  <1>1. Init => NoCandidateRefused
    BY DEF Init, NoCandidateRefused
  <1>2. QED
    BY <1>1, RefusesNone, TypesInvariant, HandshakeInvariant, PTL DEF Spec

=============================================================================
