---------------------------- MODULE HostSignaling ----------------------------
(***************************************************************************)
(* The desktop host's side of the handshake (tauri-host, session.rs,       *)
(* signaling.rs, webrtc_host.rs): the signaling loop with its three-phase  *)
(* candidate buffer, the forwarder of local candidates, and the outbound   *)
(* pump, which share the client channel.  Each `.await' ends a step, so    *)
(* the tasks interleave wherever the code can be suspended.                *)
(*                                                                         *)
(* The server and the viewer behind it are the environment.                *)
(***************************************************************************)
EXTENDS Naturals, Sequences

CONSTANTS
    LocalCandidates,   \* ICE candidates the host's peer connection gathers
    RemoteCandidates,  \* ICE candidates the viewer sends
    MaxPendingIce,     \* MAX_PENDING_ICE, bound of the candidate buffer
    ClientCap,         \* capacity of the client message channel
    EventCap,          \* capacity of the server event channel
    IceCap,            \* capacity of the local candidate channel
    MaxEvents,         \* bound of the model: events the server sends
    RelayOrder         \* TRUE: events come in an order server.js produces,
                       \* FALSE: in any order

ASSUME CapAssumption ==
    /\ MaxPendingIce \in Nat \ {0}
    /\ {ClientCap, EventCap, IceCap} \subseteq Nat \ {0}
    /\ MaxEvents \in Nat
    /\ RelayOrder \in BOOLEAN
ASSUME CandidateAssumption == LocalCandidates \cap RemoteCandidates = {}

VARIABLES
    events,          \* inbound channel, filled by the inbound pump
    inbound,         \* TRUE while the inbound pump holds its sender
    sentEvents,      \* events the server has sent, for MaxEvents
    served,          \* the session at the server, if RelayOrder
    loop,            \* where the signaling loop is, see LoopStates
    icePending,      \* ice_pending
    offerSent,       \* offer_sent
    answerReceived,  \* answer_received
    localDesc,       \* set_local_description was applied: gathering runs
    haveOffer,       \* the peer connection waits for an answer
    remoteDesc,      \* set_remote_description was applied
    applied,         \* candidates passed to webrtc.add_ice_candidate
    ungathered,      \* local candidates the agent has not surfaced yet
    iceStream,       \* channel from on_ice_candidate to the forwarder
    pcOpen,          \* FALSE once the peer connection was closed
    forwarder,       \* "recv", "final" (the last null is due) or "done"
    clientTx,        \* client message channel to the outbound pump
    outbound,        \* TRUE while the outbound pump runs
    wire,            \* messages written to the socket, in order
    shutdown         \* reasons sent to the supervisor

loopVars == <<loop, icePending, offerSent, answerReceived>>
webrtcVars == <<localDesc, haveOffer, remoteDesc, applied, ungathered, iceStream, pcOpen>>
pumpVars == <<events, inbound, sentEvents, served, outbound, wire>>
vars == <<loopVars, webrtcVars, pumpVars, forwarder, clientTx, shutdown>>

LoopStates == {"recv", "createOffer", "sendOffer", "drainOffer",
               "setAnswer", "drainAnswer", "done"}

Msg(type) == [type |-> type]
Ice(c) == [type |-> "ice-candidate", candidate |-> c]
EndOfCandidates == Msg("end-of-candidates")   \* { candidate: null }

Candidates == LocalCandidates \cup RemoteCandidates

ServerMessages ==
    {Msg(t) : t \in {"viewer-joined", "answer", "ignored",
                     "peer-disconnected", "hard-error"}}
    \cup {Ice(c) : c \in RemoteCandidates}

ClientMessages == {Msg("offer"), EndOfCandidates} \cup {Ice(c) : c \in Candidates}

Reasons == {"offer_send_failed", "create_offer_failed", "set_answer_failed",
            "peer_disconnected", "server_error"}

TypeOK ==
    /\ events \in Seq(ServerMessages) /\ Len(events) <= EventCap
    /\ inbound \in BOOLEAN /\ outbound \in BOOLEAN
    /\ sentEvents \in 0..MaxEvents
    /\ served \in {"waiting", "paired", "ended"}
    /\ loop \in LoopStates
    /\ icePending \in Seq(RemoteCandidates) /\ Len(icePending) <= MaxPendingIce
    /\ offerSent \in BOOLEAN /\ answerReceived \in BOOLEAN
    /\ localDesc \in BOOLEAN /\ haveOffer \in BOOLEAN
    /\ remoteDesc \in BOOLEAN /\ pcOpen \in BOOLEAN
    /\ applied \subseteq RemoteCandidates
    /\ ungathered \subseteq LocalCandidates \cup {EndOfCandidates}
    /\ iceStream \in Seq(LocalCandidates \cup {EndOfCandidates})
    /\ Len(iceStream) <= IceCap
    /\ forwarder \in {"recv", "final", "done"}
    /\ clientTx \in Seq(ClientMessages) /\ Len(clientTx) <= ClientCap
    /\ wire \in Seq(ClientMessages)
    /\ shutdown \subseteq Reasons

Init ==
    /\ events = <<>> /\ inbound = TRUE /\ sentEvents = 0 /\ served = "waiting"
    /\ loop = "recv" /\ icePending = <<>>
    /\ offerSent = FALSE /\ answerReceived = FALSE
    /\ localDesc = FALSE /\ haveOffer = FALSE
    /\ remoteDesc = FALSE /\ pcOpen = TRUE
    /\ applied = {}
    /\ ungathered = LocalCandidates \cup {EndOfCandidates}
    /\ iceStream = <<>>
    /\ forwarder = "recv"
    /\ clientTx = <<>> /\ outbound = TRUE /\ wire = <<>>
    /\ shutdown = {}

-----------------------------------------------------------------------------
(* Channels. *)

(* Faulty variant: try_send, which loses the message when there is no room. *)
PushOrLose(m) ==
    /\ outbound
    /\ clientTx' = IF Len(clientTx) < ClientCap THEN Append(clientTx, m) ELSE clientTx

(* client_tx.send(m): waits for room; the send fails once the outbound     *)
(* pump has dropped the receiver.                                          *)
CanSend == outbound /\ Len(clientTx) < ClientCap
Push(m) == CanSend /\ clientTx' = Append(clientTx, m)
SendFails == ~outbound

(* The next event, if it is of this type. *)
Next1(type) == loop = "recv" /\ events # <<>> /\ Head(events).type = type
Take == events' = Tail(events) /\ UNCHANGED <<inbound, sentEvents, served, outbound, wire>>

-----------------------------------------------------------------------------
(* The signaling loop, spawn_signaling_loop. *)

ResetFlags == icePending' = <<>> /\ offerSent' = FALSE /\ answerReceived' = FALSE

(* The loop breaks after telling the supervisor why. *)
Exit(reason) == loop' = "done" /\ shutdown' = shutdown \cup {reason}

RecvViewerJoined ==
    /\ Next1("viewer-joined") /\ Take
    /\ loop' = "createOffer"
    /\ UNCHANGED <<icePending, offerSent, answerReceived, webrtcVars,
                   forwarder, clientTx, shutdown>>

(* Faulty variant: the error of create_offer does not end the loop. *)
CreateOfferGoesOn ==
    /\ loop = "createOffer"
    /\ \/ /\ pcOpen
          /\ localDesc' = TRUE /\ haveOffer' = TRUE
          /\ loop' = "sendOffer"
       \/ /\ loop' = "drainOffer"
          /\ UNCHANGED <<localDesc, haveOffer>>
    /\ UNCHANGED <<icePending, offerSent, answerReceived, remoteDesc, applied,
                   ungathered, iceStream, pcOpen, pumpVars, forwarder,
                   clientTx, shutdown>>

(* create_offer sets the local description, which starts gathering. *)
CreateOffer ==
    /\ loop = "createOffer"
    /\ \/ /\ pcOpen
          /\ localDesc' = TRUE /\ haveOffer' = TRUE
          /\ loop' = "sendOffer"
          /\ UNCHANGED shutdown
       \/ /\ Exit("create_offer_failed")
          /\ UNCHANGED <<localDesc, haveOffer>>
    /\ UNCHANGED <<icePending, offerSent, answerReceived, remoteDesc, applied,
                   ungathered, iceStream, pcOpen, pumpVars, forwarder,
                   clientTx>>

(* Send the offer, then set the flag; a failed send ends the loop. *)
SendOffer ==
    /\ loop = "sendOffer"
    /\ \/ Push(Msg("offer")) /\ offerSent' = TRUE /\ loop' = "drainOffer"
          /\ UNCHANGED shutdown
       \/ SendFails /\ offerSent' = FALSE /\ Exit("offer_send_failed")
          /\ UNCHANGED clientTx
    /\ UNCHANGED <<icePending, answerReceived, webrtcVars, pumpVars,
                   forwarder>>

(* One turn of a drain: the oldest buffered candidate goes to client_tx.   *)
(* A failed send loses it and stops the drain.                             *)
DrainOne ==
    /\ loop \in {"drainOffer", "drainAnswer"}
    /\ icePending # <<>>
    /\ icePending' = Tail(icePending)
    /\ \/ /\ Push(Ice(Head(icePending)))
          /\ UNCHANGED <<loop, answerReceived>>
       \/ /\ SendFails
          /\ loop' = "recv"
          /\ answerReceived' = (answerReceived \/ loop = "drainAnswer")
          /\ UNCHANGED clientTx
    /\ UNCHANGED <<offerSent, webrtcVars, pumpVars, forwarder, shutdown>>

(* The answer counts as received only once the buffer is drained. *)
DrainEnds ==
    /\ loop \in {"drainOffer", "drainAnswer"}
    /\ icePending = <<>>
    /\ loop' = "recv"
    /\ answerReceived' = (answerReceived \/ loop = "drainAnswer")
    /\ UNCHANGED <<icePending, offerSent, webrtcVars, pumpVars, forwarder,
                   clientTx, shutdown>>

(* Faulty variant: the answer counts as received when it arrives. *)
RecvAnswerEarly ==
    /\ Next1("answer") /\ Take
    /\ loop' = "setAnswer"
    /\ answerReceived' = TRUE
    /\ UNCHANGED <<icePending, offerSent, webrtcVars, forwarder, clientTx, shutdown>>

RecvAnswer ==
    /\ Next1("answer") /\ Take
    /\ loop' = "setAnswer"
    /\ UNCHANGED <<icePending, offerSent, answerReceived, webrtcVars,
                   forwarder, clientTx, shutdown>>

(* set_answer fails without a pending offer, and on a bad description. *)
SetAnswer ==
    /\ loop = "setAnswer"
    /\ \/ /\ haveOffer /\ pcOpen
          /\ remoteDesc' = TRUE /\ haveOffer' = FALSE
          /\ loop' = "drainAnswer"
          /\ UNCHANGED shutdown
       \/ /\ Exit("set_answer_failed")
          /\ UNCHANGED <<haveOffer, remoteDesc>>
    /\ UNCHANGED <<icePending, offerSent, answerReceived, localDesc, applied,
                   ungathered, iceStream, pcOpen, pumpVars, forwarder,
                   clientTx>>

(* Faulty variant: one candidate too many. *)
RoomForOneMore == Len(icePending) <= MaxPendingIce

(* Candidates are buffered until the answer was received. *)
Buffering == ~offerSent \/ ~answerReceived

BufferHasRoom == Len(icePending) < MaxPendingIce

(* A candidate is buffered, dropped when the buffer is full, or passed to  *)
(* the peer connection; an error of add_ice_candidate is only logged.      *)
RecvCandidate ==
    /\ Next1("ice-candidate") /\ Take
    /\ LET c == Head(events).candidate IN
         \/ /\ Buffering /\ BufferHasRoom
            /\ icePending' = Append(icePending, c)
            /\ UNCHANGED applied
         \/ /\ Buffering /\ ~BufferHasRoom
            /\ UNCHANGED <<icePending, applied>>
         \/ /\ ~Buffering
            /\ applied' = applied \cup {c}
            /\ UNCHANGED icePending
    /\ UNCHANGED <<loop, offerSent, answerReceived, localDesc, haveOffer, remoteDesc,
                   ungathered, iceStream, pcOpen, forwarder, clientTx, shutdown>>

(* session-created, session-joined, a stray offer, a soft error, a null. *)
RecvIgnored ==
    /\ Next1("ignored") /\ Take
    /\ UNCHANGED <<loopVars, webrtcVars, forwarder, clientTx, shutdown>>

(* peer-disconnected and session-expired; server_shutdown, rate_limited. *)
RecvEnd ==
    /\ \/ Next1("peer-disconnected") /\ Exit("peer_disconnected")
       \/ Next1("hard-error") /\ Exit("server_error")
    /\ Take
    /\ ResetFlags
    /\ UNCHANGED <<webrtcVars, forwarder, clientTx>>

(* The events channel is closed and empty: the loop ends without a word. *)
EventsClosed ==
    /\ loop = "recv"
    /\ events = <<>> /\ ~inbound
    /\ loop' = "done"
    /\ UNCHANGED <<icePending, offerSent, answerReceived, webrtcVars, pumpVars,
                   forwarder, clientTx, shutdown>>

LoopStep ==
    \/ RecvViewerJoined \/ CreateOffer \/ SendOffer \/ DrainOne \/ DrainEnds
    \/ RecvAnswer \/ SetAnswer \/ RecvCandidate \/ RecvIgnored
    \/ RecvEnd \/ EventsClosed

-----------------------------------------------------------------------------
(* The ICE agent, the forwarder of local candidates, the pumps. *)

othersThanIce == <<loopVars, localDesc, haveOffer, remoteDesc, applied, pumpVars,
                   shutdown>>

(* on_ice_candidate: any order, the end-of-candidates sentinel last. *)
Gather ==
    /\ localDesc /\ pcOpen
    /\ Len(iceStream) < IceCap
    /\ \E c \in ungathered :
         /\ c = EndOfCandidates => ungathered = {EndOfCandidates}
         /\ ungathered' = ungathered \ {c}
         /\ iceStream' = Append(iceStream, c)
    /\ UNCHANGED <<othersThanIce, pcOpen, forwarder, clientTx>>

(* spawn_ice_forwarder: each candidate goes to client_tx as it comes. *)
WireForm(c) == IF c = EndOfCandidates THEN EndOfCandidates ELSE Ice(c)

ForwardOne ==
    /\ forwarder = "recv"
    /\ iceStream # <<>>
    /\ iceStream' = Tail(iceStream)
    /\ \/ Push(WireForm(Head(iceStream))) /\ UNCHANGED forwarder
       \/ SendFails /\ forwarder' = "final" /\ UNCHANGED clientTx
    /\ UNCHANGED <<othersThanIce, ungathered, pcOpen>>

StreamClosed ==
    /\ forwarder = "recv"
    /\ iceStream = <<>> /\ ~pcOpen
    /\ forwarder' = "final"
    /\ UNCHANGED <<othersThanIce, ungathered, iceStream, pcOpen, clientTx>>

(* One last null, so that the viewer does not wait for more. *)
ForwardFinal ==
    /\ forwarder = "final"
    /\ forwarder' = "done"
    /\ \/ Push(EndOfCandidates)
       \/ SendFails /\ UNCHANGED clientTx
    /\ UNCHANGED <<othersThanIce, ungathered, iceStream, pcOpen>>

ForwarderStep == ForwardOne \/ StreamClosed \/ ForwardFinal

(* Faulty variant: one task serves the loop and the socket in turn. *)
PumpOutInTurn ==
    /\ outbound /\ loop = "recv"
    /\ clientTx # <<>>
    /\ wire' = Append(wire, Head(clientTx))
    /\ clientTx' = Tail(clientTx)
    /\ UNCHANGED <<loopVars, webrtcVars, events, inbound, sentEvents, served,
                   outbound, forwarder, shutdown>>

(* The outbound pump writes the oldest client message to the socket. *)
PumpOut ==
    /\ outbound
    /\ clientTx # <<>>
    /\ wire' = Append(wire, Head(clientTx))
    /\ clientTx' = Tail(clientTx)
    /\ UNCHANGED <<loopVars, webrtcVars, events, inbound, sentEvents, served, outbound,
                   forwarder, shutdown>>

(* What server.js can send to a host that holds one session: one join, the *)
(* viewer's messages only after it, nothing of the session once it ended.  *)
Servable ==
    {m \in ServerMessages :
       CASE m.type = "viewer-joined" -> served = "waiting"
         [] m.type \in {"answer", "ice-candidate"} -> served = "paired"
         [] m.type = "peer-disconnected" -> served # "ended"
         [] OTHER -> TRUE}

(* The environment: the server sends an event; the socket closes under     *)
(* the inbound pump; a write fails and the outbound pump gives up; the     *)
(* peer connection is closed.                                              *)
ServerSends ==
    /\ inbound
    /\ sentEvents < MaxEvents
    /\ Len(events) < EventCap
    /\ \E m \in ServerMessages :
         /\ RelayOrder => m \in Servable
         /\ events' = Append(events, m)
         /\ served' = IF ~RelayOrder THEN served
                      ELSE CASE m.type = "viewer-joined" -> "paired"
                             [] m.type = "peer-disconnected" -> "ended"
                             [] OTHER -> served
    /\ sentEvents' = sentEvents + 1
    /\ UNCHANGED <<loopVars, webrtcVars, inbound, outbound, wire, forwarder,
                   clientTx, shutdown>>

SocketCloses ==
    /\ inbound
    /\ inbound' = FALSE
    /\ UNCHANGED <<loopVars, webrtcVars, events, sentEvents, served, outbound, wire,
                   forwarder, clientTx, shutdown>>

WriteFails ==
    /\ outbound
    /\ outbound' = FALSE
    /\ clientTx' = <<>>
    /\ UNCHANGED <<loopVars, webrtcVars, events, inbound, sentEvents, served, wire,
                   forwarder, shutdown>>

ClosePeerConnection ==
    /\ pcOpen
    /\ pcOpen' = FALSE
    /\ UNCHANGED <<loopVars, localDesc, haveOffer, remoteDesc, applied, ungathered,
                   iceStream, pumpVars, forwarder, clientTx, shutdown>>

Next ==
    \/ LoopStep \/ ForwarderStep \/ Gather \/ PumpOut
    \/ ServerSends \/ SocketCloses \/ WriteFails \/ ClosePeerConnection

(* The runtime polls every task that can make progress, and the agent goes *)
(* on gathering; the environment owes nothing.                             *)
Spec ==
    /\ Init /\ [][Next]_vars
    /\ WF_vars(LoopStep) /\ WF_vars(ForwarderStep)
    /\ WF_vars(Gather) /\ WF_vars(PumpOut)

-----------------------------------------------------------------------------
(* Safety. *)

(* Everything that went to the socket or is on its way there. *)
Outgoing == wire \o clientTx

After(offer, i) == \E j \in 1..i : Outgoing[j] = offer

(* What the candidate buffer can hold back it does hold back: no buffered  *)
(* candidate leaves before the offer, whatever order events come in.       *)
BufferedAfterOffer ==
    \A i \in 1..Len(Outgoing), c \in RemoteCandidates :
      Outgoing[i] = Ice(c) => After(Msg("offer"), i)

(* Phase 3 starts only after an answer was applied and with nothing left   *)
(* in the buffer, save what a drain gave up on when the socket was gone.   *)
PhasesInOrder == answerReceived => remoteDesc /\ (icePending = <<>> \/ ~outbound)

(* "Apply incoming ICE candidates" (session.rs, step 4): once the answer   *)
(* is applied and the buffer is drained, every candidate that came before  *)
(* it was handed to the peer connection: none was sent back on the wire.   *)
IncomingApplied ==
    \A c \in RemoteCandidates, i \in 1..Len(wire) : wire[i] = Ice(c) => c \in applied

(* Liveness. *)

(* A candidate that was gathered is not lost to back-pressure on the       *)
(* channels: it reaches the wire unless the socket is gone.                *)
LocalCandidatesReachWire ==
    \A c \in LocalCandidates :
      (\E i \in 1..Len(iceStream) : iceStream[i] = c)
        ~> (~outbound \/ \E i \in 1..Len(wire) : wire[i] = Ice(c))

(* The loop never stays blocked on a full channel: it comes back to its    *)
(* receive, or ends.                                                       *)
LoopReturns == loop # "recv" ~> loop \in {"recv", "done"}

=============================================================================
