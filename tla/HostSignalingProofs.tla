------------------------- MODULE HostSignalingProofs -------------------------
(***************************************************************************)
(* What is proved of the desktop host's signaling, for every set of        *)
(* candidates, every channel and buffer size, and events in any order.     *)
(***************************************************************************)
EXTENDS HostSignaling, SequenceTheorems, TLAPS

(* The channels, and everything else.                                      *)
ChannelTypeOK ==
    /\ events \in Seq(ServerMessages) /\ Len(events) <= EventCap
    /\ icePending \in Seq(RemoteCandidates) /\ Len(icePending) <= MaxPendingIce
    /\ iceStream \in Seq(LocalCandidates \cup {EndOfCandidates})
    /\ Len(iceStream) <= IceCap
    /\ clientTx \in Seq(ClientMessages) /\ Len(clientTx) <= ClientCap
    /\ wire \in Seq(ClientMessages)

FlagTypeOK ==
    /\ inbound \in BOOLEAN /\ outbound \in BOOLEAN
    /\ offerSent \in BOOLEAN /\ answerReceived \in BOOLEAN
    /\ localDesc \in BOOLEAN /\ haveOffer \in BOOLEAN
    /\ remoteDesc \in BOOLEAN /\ pcOpen \in BOOLEAN

PlaceTypeOK ==
    /\ sentEvents \in 0..MaxEvents
    /\ served \in {"waiting", "paired", "ended"}
    /\ loop \in LoopStates
    /\ applied \subseteq RemoteCandidates
    /\ ungathered \subseteq LocalCandidates \cup {EndOfCandidates}
    /\ forwarder \in {"recv", "final", "done"}
    /\ shutdown \subseteq Reasons

(* An offer left, or is in the channel to the socket.                      *)
OfferOut == \E i \in 1..Len(Outgoing) : Outgoing[i] = Msg("offer")

(* The loop drains its buffer, or waits for an answer, only behind an      *)
(* offer, unless the outbound pump is gone and nothing can leave any more. *)
OfferLeads ==
    /\ loop \in {"drainOffer", "drainAnswer"} => OfferOut \/ ~outbound
    /\ haveOffer /\ loop \notin {"sendOffer", "done"} => OfferOut \/ ~outbound

OfferInv == OfferLeads /\ BufferedAfterOffer

(* While the loop runs, the phase is never ahead of the offer.             *)
PhasesLead ==
    /\ loop # "done" /\ (answerReceived \/ loop = "drainAnswer") => offerSent
    /\ loop \notin {"sendOffer", "done"} /\ haveOffer => offerSent
    /\ loop = "drainAnswer" => remoteDesc

PhaseInv == PhasesLead /\ PhasesInOrder

-----------------------------------------------------------------------------
(* Types. *)

(* The parts of the type invariant make it up.                             *)
LEMMA TypeParts == TypeOK <=> ChannelTypeOK /\ FlagTypeOK /\ PlaceTypeOK
  BY DEF TypeOK, ChannelTypeOK, FlagTypeOK, PlaceTypeOK

(* The messages the actions build are messages of their channel.           *)
LEMMA MessageKinds ==
  /\ \A m \in ServerMessages : m.type = "ice-candidate" => m.candidate \in RemoteCandidates
  /\ Msg("offer") \in ClientMessages
  /\ \A c \in Candidates : Ice(c) \in ClientMessages
  /\ \A c \in LocalCandidates \cup {EndOfCandidates} : WireForm(c) \in ClientMessages
  <1>1. ASSUME NEW m \in ServerMessages, m.type = "ice-candidate"
        PROVE  m.candidate \in RemoteCandidates
    <2>1. CASE \E c \in RemoteCandidates : m = Ice(c)
      BY <2>1 DEF Ice
    <2>2. CASE \E t \in {"viewer-joined", "answer", "ignored", "peer-disconnected", "hard-error"} :
                 m = Msg(t)
      BY <1>1, <2>2 DEF Msg
    <2>3. QED
      BY <2>1, <2>2 DEF ServerMessages
  <1>2. Msg("offer") \in ClientMessages /\ EndOfCandidates \in ClientMessages
    BY DEF ClientMessages
  <1>3. ASSUME NEW c \in Candidates PROVE Ice(c) \in ClientMessages
    BY DEF ClientMessages
  <1>4. ASSUME NEW c \in LocalCandidates \cup {EndOfCandidates}
        PROVE  WireForm(c) \in ClientMessages
    <2>1. CASE c = EndOfCandidates
      BY <1>2, <2>1 DEF WireForm
    <2>2. CASE c # EndOfCandidates
      BY <1>3, <2>2 DEF WireForm, Candidates
    <2>3. QED
      BY <2>1, <2>2
  <1>5. QED
    BY <1>1, <1>2, <1>3, <1>4

(* client_tx never holds more than its capacity.                           *)
LEMMA PushTypes ==
  ASSUME ChannelTypeOK, NEW m \in ClientMessages, Push(m)
  PROVE  clientTx' \in Seq(ClientMessages) /\ Len(clientTx') <= ClientCap
  BY CapAssumption DEF ChannelTypeOK, Push, CanSend

(* Nor does the event channel after an event was taken.                    *)
LEMMA TakeTypes ==
  ASSUME ChannelTypeOK, events # <<>>, Take
  PROVE  events' \in Seq(ServerMessages) /\ Len(events') <= EventCap /\ wire' = wire
  BY CapAssumption DEF ChannelTypeOK, Take

(* The initial state has its types.                                        *)
LEMMA InitTypes == Init => ChannelTypeOK /\ FlagTypeOK /\ PlaceTypeOK
  <1> SUFFICES ASSUME Init PROVE ChannelTypeOK /\ FlagTypeOK /\ PlaceTypeOK
    OBVIOUS
  <1>1. ChannelTypeOK
    BY CapAssumption DEF Init, ChannelTypeOK
  <1>2. FlagTypeOK
    BY DEF Init, FlagTypeOK
  <1>3. PlaceTypeOK
    BY CapAssumption DEF Init, PlaceTypeOK, LoopStates, Reasons
  <1>4. QED
    BY <1>1, <1>2, <1>3

(* The channels keep their types and capacities.                           *)
LEMMA ChannelStep ==
  ASSUME ChannelTypeOK, PlaceTypeOK, [Next]_vars
  PROVE  ChannelTypeOK'
  <1> USE CapAssumption DEF ChannelTypeOK
  <1>1. CASE RecvViewerJoined \/ RecvAnswer \/ RecvIgnored
    BY <1>1, TakeTypes DEF RecvViewerJoined, RecvAnswer, RecvIgnored, Next1, loopVars, webrtcVars
  <1>2. CASE CreateOffer \/ SetAnswer
    BY <1>2 DEF CreateOffer, SetAnswer, pumpVars
  <1>3. CASE SendOffer
    BY <1>3, PushTypes, MessageKinds DEF SendOffer, webrtcVars, pumpVars
  <1>4. CASE DrainOne
    <2>1. Head(icePending) \in Candidates /\ icePending' = Tail(icePending) /\ icePending # <<>>
      BY <1>4 DEF DrainOne, Candidates
    <2>2. clientTx' \in Seq(ClientMessages) /\ Len(clientTx') <= ClientCap
      BY <1>4, <2>1, PushTypes, MessageKinds DEF DrainOne
    <2>3. QED
      BY <1>4, <2>1, <2>2 DEF DrainOne, webrtcVars, pumpVars
  <1>5. CASE DrainEnds \/ EventsClosed
    BY <1>5 DEF DrainEnds, EventsClosed, webrtcVars, pumpVars
  <1>6. CASE RecvCandidate
    <2>1. events # <<>> /\ Head(events) \in ServerMessages
      BY <1>6 DEF RecvCandidate, Next1
    <2>2. Head(events).candidate \in RemoteCandidates
      BY <1>6, <2>1, MessageKinds DEF RecvCandidate, Next1
    <2>3. icePending' \in Seq(RemoteCandidates) /\ Len(icePending') <= MaxPendingIce
      <3> DEFINE c == Head(events).candidate
      <3>1. CASE icePending' = icePending
        BY <3>1
      <3>2. CASE Len(icePending) < MaxPendingIce /\ icePending' = Append(icePending, c)
        <4> HIDE DEF c
        <4>1. QED
          BY <2>2, <3>2 DEF c
      <3>3. QED
        BY <1>6, <3>1, <3>2 DEF RecvCandidate, BufferHasRoom
    <2>4. QED
      BY <1>6, <2>1, <2>3, TakeTypes DEF RecvCandidate
  <1>7. CASE RecvEnd
    BY <1>7, TakeTypes DEF RecvEnd, Next1, Exit, ResetFlags, webrtcVars
  <1>8. CASE Gather
    <2>1. PICK c \in ungathered : iceStream' = Append(iceStream, c)
      BY <1>8 DEF Gather
    <2>2. c \in LocalCandidates \cup {EndOfCandidates}
      BY DEF PlaceTypeOK
    <2>3. QED
      BY <1>8, <2>1, <2>2 DEF Gather, othersThanIce, loopVars, pumpVars
  <1>9. CASE ForwardOne
    <2>1. Head(iceStream) \in LocalCandidates \cup {EndOfCandidates}
      BY <1>9 DEF ForwardOne
    <2>2. clientTx' \in Seq(ClientMessages) /\ Len(clientTx') <= ClientCap
      BY <1>9, <2>1, PushTypes, MessageKinds DEF ForwardOne
    <2>3. QED
      BY <1>9, <2>2 DEF ForwardOne, othersThanIce, loopVars, pumpVars
  <1>10. CASE StreamClosed
    BY <1>10 DEF StreamClosed, othersThanIce, loopVars, pumpVars
  <1>11. CASE ForwardFinal
    <2>1. EndOfCandidates \in ClientMessages
      BY DEF ClientMessages
    <2>2. clientTx' \in Seq(ClientMessages) /\ Len(clientTx') <= ClientCap
      BY <1>11, <2>1, PushTypes DEF ForwardFinal
    <2>3. QED
      BY <1>11, <2>2 DEF ForwardFinal, othersThanIce, loopVars, pumpVars
  <1>12. CASE PumpOut
    BY <1>12 DEF PumpOut, loopVars, webrtcVars
  <1>13. CASE ServerSends
    BY <1>13 DEF ServerSends, loopVars, webrtcVars
  <1>14. CASE SocketCloses \/ WriteFails \/ ClosePeerConnection
    <2>1. clientTx' \in {clientTx, <<>>}
      BY <1>14 DEF SocketCloses, WriteFails, ClosePeerConnection
    <2>2. <<>> \in Seq(ClientMessages) /\ Len(<<>>) <= ClientCap
      BY EmptySeq
    <2>3. clientTx' \in Seq(ClientMessages) /\ Len(clientTx') <= ClientCap
      BY <2>1, <2>2
    <2>4. QED
      BY <1>14, <2>3 DEF SocketCloses, WriteFails, ClosePeerConnection, loopVars, webrtcVars,
                         pumpVars
  <1>15. CASE UNCHANGED vars
    BY <1>15 DEF vars, loopVars, webrtcVars, pumpVars
  <1>16. QED
    BY <1>1, <1>2, <1>3, <1>4, <1>5, <1>6, <1>7, <1>8, <1>9, <1>10, <1>11, <1>12,
       <1>13, <1>14, <1>15 DEF Next, LoopStep, ForwarderStep

(* The flags keep their types.                                             *)
LEMMA FlagStep ==
  ASSUME FlagTypeOK, [Next]_vars
  PROVE  FlagTypeOK'
  <1> USE DEF FlagTypeOK
  <1>1. CASE LoopStep
    BY <1>1 DEF LoopStep, RecvViewerJoined, CreateOffer, SendOffer, DrainOne, DrainEnds,
                RecvAnswer, SetAnswer, RecvCandidate, RecvIgnored, RecvEnd, EventsClosed,
                Take, ResetFlags, loopVars, webrtcVars, pumpVars
  <1>2. CASE ForwarderStep \/ Gather
    BY <1>2 DEF ForwarderStep, ForwardOne, StreamClosed, ForwardFinal, Gather,
                othersThanIce, loopVars, pumpVars
  <1>3. CASE PumpOut \/ ServerSends \/ SocketCloses \/ WriteFails \/ ClosePeerConnection
    BY <1>3 DEF PumpOut, ServerSends, SocketCloses, WriteFails, ClosePeerConnection,
                loopVars, webrtcVars, pumpVars
  <1>4. CASE UNCHANGED vars
    BY <1>4 DEF vars, loopVars, webrtcVars, pumpVars
  <1>5. QED
    BY <1>1, <1>2, <1>3, <1>4 DEF Next

(* So do the candidates and the places they are at.                        *)
LEMMA PlaceStep ==
  ASSUME ChannelTypeOK, PlaceTypeOK, [Next]_vars
  PROVE  PlaceTypeOK'
  <1> USE DEF PlaceTypeOK, LoopStates, Reasons
  <1>1. CASE RecvCandidate
    <2>1. Head(events).candidate \in RemoteCandidates
      BY <1>1, MessageKinds DEF RecvCandidate, Next1, ChannelTypeOK
    <2>2. QED
      BY <1>1, <2>1 DEF RecvCandidate, Take
  <1>2. CASE LoopStep /\ ~RecvCandidate
    BY <1>2 DEF LoopStep, RecvViewerJoined, CreateOffer, SendOffer, DrainOne, DrainEnds,
                RecvAnswer, SetAnswer, RecvIgnored, RecvEnd, EventsClosed,
                Take, Exit, loopVars, webrtcVars, pumpVars
  <1>3. CASE ForwarderStep \/ Gather
    BY <1>3 DEF ForwarderStep, ForwardOne, StreamClosed, ForwardFinal, Gather,
                othersThanIce, loopVars, pumpVars
  <1>4. CASE PumpOut \/ SocketCloses \/ WriteFails \/ ClosePeerConnection
    BY <1>4 DEF PumpOut, SocketCloses, WriteFails, ClosePeerConnection,
                loopVars, webrtcVars, pumpVars
  <1>5. CASE ServerSends
    <2>1. sentEvents' \in 0..MaxEvents
      BY <1>5, CapAssumption DEF ServerSends
    <2>2. QED
      BY <1>5, <2>1 DEF ServerSends, loopVars, webrtcVars
  <1>6. CASE UNCHANGED vars
    BY <1>6 DEF vars, loopVars, webrtcVars, pumpVars
  <1>7. QED
    BY <1>1, <1>2, <1>3, <1>4, <1>5, <1>6 DEF Next

(* All the types together, along every behaviour.                          *)
LEMMA TypesInvariant == Init /\ [][Next]_vars => [](ChannelTypeOK /\ FlagTypeOK /\ PlaceTypeOK)
  BY InitTypes, ChannelStep, FlagStep, PlaceStep, PTL

(* No channel and no buffer ever holds more than its capacity, and every   *)
(* variable keeps its type, for every capacity.                            *)
THEOREM HostTypeCorrect == Spec => []TypeOK
  BY TypesInvariant, TypeParts, PTL DEF Spec

-----------------------------------------------------------------------------
(* What goes out. *)

Typed == ChannelTypeOK /\ FlagTypeOK /\ PlaceTypeOK

(* What is sent or queued, seen as one sequence.                           *)
LEMMA OutgoingType ==
  ASSUME ChannelTypeOK
  PROVE  /\ Outgoing \in Seq(ClientMessages)
         /\ Len(Outgoing) = Len(wire) + Len(clientTx)
         /\ \A i \in 1..Len(wire) : Outgoing[i] = wire[i]
         /\ \A i \in 1..Len(clientTx) : Outgoing[Len(wire) + i] = clientTx[i]
  BY ConcatProperties DEF ChannelTypeOK, Outgoing

(* A message that is pushed goes out last.                                 *)
LEMMA PushGoesLast ==
  ASSUME ChannelTypeOK, NEW m \in ClientMessages, Push(m), wire' = wire
  PROVE  Outgoing' = Append(Outgoing, m)
  <1>1. wire \in Seq(ClientMessages) /\ clientTx \in Seq(ClientMessages)
        /\ <<m>> \in Seq(ClientMessages)
    BY DEF ChannelTypeOK
  <1>2. Outgoing' = wire \o (clientTx \o <<m>>)
    BY <1>1, AppendIsConcat DEF Push, Outgoing
  <1>3. (wire \o clientTx) \o <<m>> = wire \o (clientTx \o <<m>>)
    BY <1>1, ConcatAssociative
  <1>4. QED
    BY <1>2, <1>3, OutgoingType, AppendIsConcat DEF Outgoing

(* The outbound pump changes nothing of what goes out and in which order.  *)
LEMMA PumpKeepsOrder ==
  ASSUME ChannelTypeOK, PumpOut
  PROVE  Outgoing' = Outgoing
  <1> DEFINE m == Head(clientTx)  rest == Tail(clientTx)
  <1>1. wire \in Seq(ClientMessages) /\ clientTx \in Seq(ClientMessages) /\ clientTx # <<>>
    BY DEF ChannelTypeOK, PumpOut
  <1>2. m \in ClientMessages /\ rest \in Seq(ClientMessages) /\ <<m>> \in Seq(ClientMessages)
    BY <1>1
  <1>3. clientTx = <<m>> \o rest
    <2>1. /\ Len(<<m>> \o rest) = Len(clientTx)
          /\ \A i \in 1..Len(clientTx) : (<<m>> \o rest)[i] = clientTx[i]
      BY <1>1, <1>2, ConcatProperties, HeadTailProperties
    <2>2. <<m>> \o rest \in Seq(ClientMessages)
      BY <1>2, ConcatProperties
    <2>3. QED
      BY <1>1, <2>1, <2>2, SeqEqual
  <1>4. Outgoing' = (wire \o <<m>>) \o rest
    BY <1>1, <1>2, AppendIsConcat DEF PumpOut, Outgoing
  <1>5. (wire \o <<m>>) \o rest = wire \o (<<m>> \o rest)
    BY <1>1, <1>2, ConcatAssociative
  <1>6. QED
    BY <1>3, <1>4, <1>5 DEF Outgoing

(* The invariant survives a message that is no buffered candidate, or that *)
(* an offer precedes.                                                      *)
LEMMA GrowsInOrder ==
  ASSUME ChannelTypeOK, BufferedAfterOffer, NEW m \in ClientMessages,
         Outgoing' = Append(Outgoing, m),
         OfferOut \/ \A c \in RemoteCandidates : m # Ice(c)
  PROVE  /\ BufferedAfterOffer'
         /\ OfferOut => OfferOut'
         /\ m = Msg("offer") => OfferOut'
  <1> DEFINE n == Len(Outgoing)
  <1>1. /\ n \in Nat /\ Len(Outgoing') = n + 1 /\ Outgoing'[n + 1] = m
        /\ \A i \in 1..n : Outgoing'[i] = Outgoing[i]
    BY OutgoingType, AppendProperties, LenProperties
  <1>2. OfferOut => OfferOut'
    BY <1>1 DEF OfferOut
  <1>3. m = Msg("offer") => OfferOut'
    <2>1. n + 1 \in 1..Len(Outgoing')
      BY <1>1
    <2>2. QED
      BY <1>1, <2>1 DEF OfferOut
  <1>4. ASSUME NEW i \in 1..Len(Outgoing'), NEW c \in RemoteCandidates, Outgoing'[i] = Ice(c)
        PROVE  \E j \in 1..i : Outgoing'[j] = Msg("offer")
    <2>1. CASE i \in 1..n
      <3>1. PICK j \in 1..i : Outgoing[j] = Msg("offer")
        BY <1>1, <1>4, <2>1 DEF BufferedAfterOffer, After
      <3>2. QED
        BY <1>1, <2>1, <3>1
    <2>2. CASE i = n + 1
      <3>1. PICK j \in 1..n : Outgoing[j] = Msg("offer")
        BY <1>1, <1>4, <2>2 DEF OfferOut
      <3>2. QED
        BY <1>1, <2>2, <3>1
    <2>3. QED
      BY <1>1, <2>1, <2>2
  <1>5. BufferedAfterOffer'
    BY <1>4 DEF BufferedAfterOffer, After
  <1>6. QED
    BY <1>2, <1>3, <1>5

(* It survives that the channel is dropped with what it held.              *)
LEMMA CutInOrder ==
  ASSUME ChannelTypeOK, BufferedAfterOffer, wire' = wire, clientTx' = <<>>
  PROVE  BufferedAfterOffer'
  <1>1. Outgoing' = wire
    BY ConcatEmptySeq DEF Outgoing, ChannelTypeOK
  <1>2. Len(wire) \in Nat /\ Len(clientTx) \in Nat
    BY LenProperties DEF ChannelTypeOK
  <1>3. ASSUME NEW i \in 1..Len(wire), NEW c \in RemoteCandidates, wire[i] = Ice(c)
        PROVE  \E j \in 1..i : wire[j] = Msg("offer")
    <2>1. i \in 1..Len(Outgoing) /\ Outgoing[i] = Ice(c)
      BY <1>2, <1>3, OutgoingType
    <2>2. PICK j \in 1..i : Outgoing[j] = Msg("offer")
      BY <2>1 DEF BufferedAfterOffer, After
    <2>3. j \in 1..Len(wire)
      BY <1>2
    <2>4. wire[j] = Msg("offer")
      BY <2>2, <2>3, OutgoingType
    <2>5. QED
      BY <2>4
  <1>4. QED
    BY <1>1, <1>3 DEF BufferedAfterOffer, After

(* An offer and a local candidate are no remote candidate.                 *)
LEMMA OwnMessages ==
  /\ \A c \in RemoteCandidates : Msg("offer") # Ice(c) /\ EndOfCandidates # Ice(c)
  /\ \A d \in LocalCandidates \cup {EndOfCandidates}, c \in RemoteCandidates : WireForm(d) # Ice(c)
  <1>1. ASSUME NEW c \in RemoteCandidates
        PROVE  Msg("offer") # Ice(c) /\ EndOfCandidates # Ice(c)
    BY DEF Msg, Ice, EndOfCandidates
  <1>2. ASSUME NEW d \in LocalCandidates, NEW c \in RemoteCandidates
        PROVE  Ice(d) # Ice(c)
    <2>1. Ice(d).candidate = d /\ Ice(c).candidate = c
      BY DEF Ice
    <2>2. QED
      BY <2>1, CandidateAssumption
  <1>3. QED
    BY <1>1, <1>2 DEF WireForm

(* A step that leaves the loop's place and what goes out alone.            *)
LEMMA OfferInvKept ==
  ASSUME OfferInv, Outgoing' = Outgoing,
         \/ loop' \in {loop, "done"}
         \/ loop' \in {"recv", "setAnswer", "createOffer"} /\ loop \notin {"sendOffer", "done"},
         haveOffer' = haveOffer, outbound' = outbound
  PROVE  OfferInv'
  BY DEF OfferInv, OfferLeads, BufferedAfterOffer, After, OfferOut

(* OfferInv is inductive.                                                  *)
LEMMA OfferStep ==
  ASSUME Typed, OfferInv, [Next]_vars
  PROVE  OfferInv'
  <1> USE DEF Typed
  <1>1. CASE RecvViewerJoined \/ RecvAnswer \/ RecvIgnored \/ RecvCandidate \/ RecvEnd
    <2>1. /\ loop = "recv" /\ loop' \in {"recv", "createOffer", "setAnswer", "done"}
          /\ Outgoing' = Outgoing /\ haveOffer' = haveOffer /\ outbound' = outbound
      BY <1>1 DEF RecvViewerJoined, RecvAnswer, RecvIgnored, RecvCandidate, RecvEnd, Next1,
                  Take, Exit, Outgoing, loopVars, webrtcVars
    <2>2. QED
      BY <2>1, OfferInvKept
  <1>2. CASE CreateOffer
    BY <1>2 DEF CreateOffer, Exit, pumpVars, Outgoing, OfferInv, OfferLeads,
                BufferedAfterOffer, After
  <1>3. CASE SendOffer
    <2>1. CASE Push(Msg("offer")) /\ loop' = "drainOffer"
      <3>1. wire' = wire
        BY <1>3 DEF SendOffer, pumpVars
      <3>2. Outgoing' = Append(Outgoing, Msg("offer"))
        BY <2>1, <3>1, PushGoesLast, MessageKinds
      <3>3. BufferedAfterOffer' /\ OfferOut'
        BY <3>2, GrowsInOrder, MessageKinds, OwnMessages DEF OfferInv
      <3>4. QED
        BY <3>3 DEF OfferInv, OfferLeads
    <2>2. CASE clientTx' = clientTx /\ loop' = "done"
      BY <1>3, <2>2 DEF SendOffer, webrtcVars, pumpVars, Outgoing, OfferInv, OfferLeads,
                  BufferedAfterOffer, After
    <2>3. QED
      BY <1>3, <2>1, <2>2 DEF SendOffer, Exit
  <1>4. CASE DrainOne
    <2>1. /\ wire' = wire /\ outbound' = outbound /\ haveOffer' = haveOffer
          /\ loop \in {"drainOffer", "drainAnswer"} /\ loop' \in {loop, "recv"}
      BY <1>4 DEF DrainOne, webrtcVars, pumpVars
    <2>2. CASE Push(Ice(Head(icePending)))
      <3>1. Ice(Head(icePending)) \in ClientMessages
        BY <1>4, MessageKinds DEF DrainOne, ChannelTypeOK, Candidates
      <3>2. Outgoing' = Append(Outgoing, Ice(Head(icePending)))
        BY <2>1, <2>2, <3>1, PushGoesLast
      <3>3. OfferOut
        BY <2>1, <2>2 DEF OfferInv, OfferLeads, Push, CanSend
      <3>4. BufferedAfterOffer' /\ OfferOut'
        BY <3>1, <3>2, <3>3, GrowsInOrder DEF OfferInv
      <3>5. QED
        BY <3>4 DEF OfferInv, OfferLeads
    <2>3. CASE clientTx' = clientTx
      BY <2>1, <2>3, OfferInvKept DEF Outgoing
    <2>4. QED
      BY <1>4, <2>2, <2>3 DEF DrainOne
  <1>5. CASE DrainEnds \/ EventsClosed
    <2>1. /\ loop \notin {"sendOffer", "done"} /\ loop' \in {"recv", "done"}
          /\ Outgoing' = Outgoing /\ haveOffer' = haveOffer /\ outbound' = outbound
      BY <1>5 DEF DrainEnds, EventsClosed, webrtcVars, pumpVars, Outgoing
    <2>2. QED
      BY <2>1, OfferInvKept
  <1>6. CASE SetAnswer
    BY <1>6 DEF SetAnswer, Exit, pumpVars, Outgoing, OfferInv, OfferLeads, OfferOut,
                BufferedAfterOffer, After
  <1>7. CASE ForwardOne \/ ForwardFinal
    <2>1. wire' = wire /\ outbound' = outbound /\ haveOffer' = haveOffer /\ loop' = loop
      BY <1>7 DEF ForwardOne, ForwardFinal, othersThanIce, loopVars, pumpVars
    <2>2. PICK d \in LocalCandidates \cup {EndOfCandidates} :
                 Push(WireForm(d)) \/ clientTx' = clientTx
      <3>1. CASE ForwardOne
        <4>1. Head(iceStream) \in LocalCandidates \cup {EndOfCandidates}
          BY <3>1 DEF ForwardOne, ChannelTypeOK
        <4>2. QED
          BY <3>1, <4>1 DEF ForwardOne
      <3>2. CASE ForwardFinal
        BY <3>2 DEF ForwardFinal, WireForm
      <3>3. QED
        BY <1>7, <3>1, <3>2
    <2>3. CASE Push(WireForm(d))
      <3>1. Outgoing' = Append(Outgoing, WireForm(d))
        BY <2>1, <2>3, PushGoesLast, MessageKinds
      <3>2. BufferedAfterOffer' /\ (OfferOut => OfferOut')
        BY <3>1, GrowsInOrder, MessageKinds, OwnMessages DEF OfferInv
      <3>3. QED
        BY <2>1, <3>2 DEF OfferInv, OfferLeads
    <2>4. CASE clientTx' = clientTx
      BY <2>1, <2>4, OfferInvKept DEF Outgoing
    <2>5. QED
      BY <2>2, <2>3, <2>4
  <1>8. CASE PumpOut
    BY <1>8, PumpKeepsOrder, OfferInvKept DEF PumpOut, loopVars, webrtcVars
  <1>9. CASE WriteFails
    <2>1. BufferedAfterOffer'
      BY <1>9, CutInOrder DEF WriteFails, OfferInv
    <2>2. QED
      BY <1>9, <2>1 DEF WriteFails, OfferInv, OfferLeads
  <1>10. CASE Gather \/ StreamClosed \/ ServerSends \/ SocketCloses \/ ClosePeerConnection
              \/ UNCHANGED vars
    <2>1. /\ loop' = loop /\ haveOffer' = haveOffer /\ outbound' = outbound
          /\ Outgoing' = Outgoing
      BY <1>10 DEF Gather, StreamClosed, ServerSends, SocketCloses, ClosePeerConnection,
                   vars, othersThanIce, loopVars, webrtcVars, pumpVars, Outgoing
    <2>2. QED
      BY <2>1, OfferInvKept
  <1>11. QED
    BY <1>1, <1>2, <1>3, <1>4, <1>5, <1>6, <1>7, <1>8, <1>9, <1>10
       DEF Next, LoopStep, ForwarderStep

(* OfferInv holds before anything is sent.                                 *)
LEMMA OfferInit == Init => OfferInv
  <1> SUFFICES ASSUME Init PROVE OfferInv
    OBVIOUS
  <1>1. Outgoing = <<>>
    BY ConcatEmptySeq, EmptySeq DEF Init, Outgoing
  <1>2. Len(Outgoing) = 0
    BY <1>1, EmptySeq
  <1>3. BufferedAfterOffer
    BY <1>2 DEF BufferedAfterOffer
  <1>4. QED
    BY <1>3 DEF Init, OfferInv, OfferLeads

(* No candidate that the loop buffered goes out before an offer does,      *)
(* whatever order the server's events come in and whichever of the tasks   *)
(* is served first.                                                        *)
THEOREM BufferedAlwaysAfterOffer == Spec => []BufferedAfterOffer
  <1>1. ChannelTypeOK /\ FlagTypeOK /\ PlaceTypeOK => Typed
    BY DEF Typed
  <1>2. OfferInv => BufferedAfterOffer
    BY DEF OfferInv
  <1>3. QED
    BY <1>1, <1>2, TypesInvariant, OfferInit, OfferStep, PTL DEF Spec

-----------------------------------------------------------------------------
(* The phases of the candidate buffer. *)

(* PhaseInv is inductive.                                                  *)
LEMMA PhaseStep ==
  ASSUME Typed, PhaseInv, [Next]_vars
  PROVE  PhaseInv'
  <1> USE DEF PhaseInv, PhasesLead, PhasesInOrder
  <1>1. CASE LoopStep
    <2>1. CASE RecvViewerJoined \/ RecvAnswer \/ RecvIgnored \/ RecvEnd \/ EventsClosed
      BY <2>1 DEF RecvViewerJoined, RecvAnswer, RecvIgnored, RecvEnd, EventsClosed, Next1,
                  Take, Exit, ResetFlags, loopVars, webrtcVars, pumpVars
    <2>2. CASE CreateOffer
      BY <2>2 DEF CreateOffer, Exit, pumpVars
    <2>3. CASE SendOffer
      BY <2>3 DEF SendOffer, Exit, SendFails, webrtcVars, pumpVars
    <2>4. CASE DrainOne
      <3>1. CASE Push(Ice(Head(icePending)))
        BY <2>4, <3>1 DEF DrainOne, Push, CanSend, SendFails, webrtcVars, pumpVars
      <3>2. CASE SendFails
        BY <2>4, <3>2 DEF DrainOne, Push, CanSend, SendFails, webrtcVars, pumpVars
      <3>3. QED
        BY <2>4, <3>1, <3>2 DEF DrainOne
    <2>5. CASE DrainEnds
      BY <2>5 DEF DrainEnds, webrtcVars, pumpVars
    <2>6. CASE SetAnswer
      BY <2>6 DEF SetAnswer, Exit, pumpVars
    <2>7. CASE RecvCandidate
      BY <2>7 DEF RecvCandidate, Next1, Take, Buffering
    <2>8. QED
      BY <1>1, <2>1, <2>2, <2>3, <2>4, <2>5, <2>6, <2>7 DEF LoopStep
  <1>2. CASE ForwarderStep \/ Gather
    BY <1>2 DEF ForwarderStep, ForwardOne, StreamClosed, ForwardFinal, Gather,
                othersThanIce, loopVars, pumpVars
  <1>3. CASE PumpOut \/ ServerSends \/ SocketCloses \/ WriteFails \/ ClosePeerConnection
    BY <1>3 DEF PumpOut, ServerSends, SocketCloses, WriteFails, ClosePeerConnection,
                loopVars, webrtcVars, pumpVars
  <1>4. CASE UNCHANGED vars
    BY <1>4 DEF vars, loopVars, webrtcVars, pumpVars
  <1>5. QED
    BY <1>1, <1>2, <1>3, <1>4 DEF Next

(* Phase 3 of the candidate buffer begins only after an answer was applied *)
(* and with the buffer drained, save what a drain gave up on.              *)
THEOREM PhasesAlwaysInOrder == Spec => []PhasesInOrder
  <1>1. ChannelTypeOK /\ FlagTypeOK /\ PlaceTypeOK => Typed
    BY DEF Typed
  <1>2. Init => PhaseInv
    BY DEF Init, PhaseInv, PhasesLead, PhasesInOrder
  <1>3. PhaseInv => PhasesInOrder
    BY DEF PhaseInv
  <1>4. QED
    BY <1>1, <1>2, <1>3, TypesInvariant, PhaseStep, PTL DEF Spec

=============================================================================
