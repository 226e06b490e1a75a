------------------------ MODULE DesktopSessionProofs ------------------------
(***************************************************************************)
(* Proofs about the desktop session: the encoder pipeline by itself, for   *)
(* all sizes and channel capacities, then the composition.  Each step of   *)
(* DesktopSession is shown to be a step, or none, of each of its parts, so *)
(* that what holds of a part holds of the whole.                           *)
(***************************************************************************)
EXTENDS DesktopSession, SessionLifecycleProofs, StateWatcherProofs

-----------------------------------------------------------------------------
(* The encoder pipeline. *)

(* Frames reach the encoder in the order of their times, each later than   *)
(* the last packet.                                                        *)
FramesInOrder ==
    /\ lastPts <= captured
    /\ \A i \in 1..Len(frameCh) : lastPts < frameCh[i].pts /\ frameCh[i].pts <= captured
    /\ \A i, j \in 1..Len(frameCh) : i < j => frameCh[i].pts < frameCh[j].pts

(* The durations of the packets so far.                                    *)
Timed == lastPts # 0 => firstPts <= lastPts /\ mediaTime = lastPts - firstPts

PipelineInv ==
    /\ PipelineTypeOK
    /\ FramesInOrder
    /\ Timed
    /\ encSize \in {0, curSize}
    /\ encoder = "off" => curSize = InitialSize

-----------------------------------------------------------------------------
(* The channel of frames, once one is put in and once one is taken out.    *)

(* A frame queue after one more frame.                                     *)
LEMMA FramesAppended ==
  ASSUME NEW q \in Seq(Frames), NEW f \in Frames
  PROVE  /\ Append(q, f) \in Seq(Frames)
         /\ Len(q) \in Nat /\ Len(Append(q, f)) = Len(q) + 1
         /\ \A i \in 1..Len(q) : Append(q, f)[i] = q[i]
         /\ Append(q, f)[Len(q) + 1] = f
  OBVIOUS

(* A frame queue after its head was taken.                                 *)
LEMMA FramesTaken ==
  ASSUME NEW q \in Seq(Frames), q # <<>>
  PROVE  /\ Tail(q) \in Seq(Frames)
         /\ Len(q) \in Nat /\ Len(q) >= 1 /\ Len(Tail(q)) = Len(q) - 1
         /\ \A i \in 1..Len(Tail(q)) : Tail(q)[i] = q[i + 1]
         /\ Head(q) = q[1] /\ Head(q) \in Frames
  OBVIOUS

(* The empty frame queue.                                                  *)
LEMMA NoFrames == <<>> \in Seq(Frames) /\ Len(<<>>) = 0
  OBVIOUS

(* even() returns a size.                                                  *)
LEMMA EvenSize ==
  ASSUME NEW v \in Nat, NEW fallback \in Nat
  PROVE  Even(v, fallback) \in Nat
  BY DEF Even

-----------------------------------------------------------------------------

(* Times are numbers, those of the frames under way too.                   *)
LEMMA TimesAreNumbers ==
  ASSUME PipelineTypeOK
  PROVE  /\ MaxFrames \in Nat /\ Len(frameCh) \in Nat
         /\ captured \in 0..MaxFrames /\ lastPts \in 0..MaxFrames
         /\ firstPts \in 0..MaxFrames /\ mediaTime \in 0..MaxFrames
         /\ \A i \in 1..Len(frameCh) : frameCh[i].pts \in 1..MaxFrames
  <1>1. frameCh \in Seq(Frames) /\ MaxFrames \in Nat
    BY PipelineAssumption DEF PipelineTypeOK
  <1>2. \A i \in 1..Len(frameCh) : frameCh[i] \in Frames
    BY <1>1
  <1>3. \A i \in 1..Len(frameCh) : frameCh[i].pts \in 1..MaxFrames
    BY <1>2 DEF Frames
  <1>4. QED
    BY <1>1, <1>3 DEF PipelineTypeOK

(* PipelineInv holds before the first frame.                               *)
LEMMA PipelineInvInit == PipelineInit => PipelineInv
  <1> SUFFICES ASSUME PipelineInit PROVE PipelineInv
    OBVIOUS
  <1>1. PipelineTypeOK
    <2>1. frameCh \in Seq(Frames) /\ Len(frameCh) <= FrameCap
      BY NoFrames, PipelineAssumption DEF PipelineInit
    <2>2. 0 \in 0..MaxFrames /\ 0 \in 0..PacketCap /\ InitialSize \in Nat
      BY PipelineAssumption
    <2>3. stopping \in BOOLEAN /\ panicked \in BOOLEAN
      BY DEF PipelineInit
    <2>4. {encSize, curSize} \subseteq Nat
      BY <2>2 DEF PipelineInit
    <2>5. /\ {captured, lastPts, firstPts, mediaTime} \subseteq 0..MaxFrames
          /\ packets \in 0..PacketCap
      BY <2>2 DEF PipelineInit
    <2>6. capture = "off" /\ encoder = "off" /\ forwarder = "off"
      BY DEF PipelineInit
    <2>7. QED
      BY <2>1, <2>3, <2>4, <2>5, <2>6 DEF PipelineTypeOK
  <1>2. FramesInOrder
    BY NoFrames DEF PipelineInit, FramesInOrder
  <1>3. QED
    BY <1>1, <1>2 DEF PipelineInit, PipelineInv, Timed

(* A new frame is later than all before it.                                *)
LEMMA ArrivalKeepsInv ==
  ASSUME PipelineInv, FrameArrives
  PROVE  PipelineInv'
  <1> USE DEF PipelineInv
  <1>1. /\ frameCh \in Seq(Frames) /\ Len(frameCh) \in Nat /\ Len(frameCh) <= FrameCap
        /\ captured \in Nat /\ captured < MaxFrames /\ captured' = captured + 1
        /\ UNCHANGED <<stopping, encoder, encSize, curSize, lastPts, firstPts, mediaTime, panicked,
                       packets, forwarder>>
    BY DEF PipelineTypeOK, FrameArrives, encoderVars, timeVars
  <1>2. PICK size \in Sizes : TrySend([pts |-> captured', size |-> size])
    BY DEF FrameArrives
  <1> DEFINE f == [pts |-> captured', size |-> size]
  <1>3. f \in Frames
    BY <1>1, PipelineAssumption DEF Frames
  <1>4. capture' \in {capture, "ended"}
    BY <1>2 DEF TrySend
  <1>5. CASE Len(frameCh) < FrameCap /\ frameCh' = Append(frameCh, f)
    <2>1. Append(frameCh, f)[Len(frameCh) + 1].pts = captured + 1
      BY <1>1, <1>3, FramesAppended
    <2>2. PipelineTypeOK'
      BY <1>1, <1>3, <1>4, <1>5, FramesAppended, PipelineAssumption DEF PipelineTypeOK
    <2>3. FramesInOrder'
      <3>1. lastPts \in Nat /\ \A i \in 1..Len(frameCh) : frameCh[i].pts \in Nat
        BY TimesAreNumbers
      <3>2. \A i \in 1..Len(frameCh') :
              \/ i \in 1..Len(frameCh) /\ frameCh'[i] = frameCh[i]
              \/ i = Len(frameCh) + 1 /\ frameCh'[i].pts = captured + 1
        BY <1>1, <1>3, <1>5, <2>1, FramesAppended
      <3>3. \A i \in 1..Len(frameCh) :
              /\ lastPts < frameCh[i].pts /\ frameCh[i].pts <= captured
              /\ \A j \in 1..Len(frameCh) : i < j => frameCh[i].pts < frameCh[j].pts
        BY DEF FramesInOrder
      <3>4. lastPts' <= captured' /\ Len(frameCh') = Len(frameCh) + 1
        BY <1>1, <1>3, <1>5, <3>1, FramesAppended DEF FramesInOrder
      <3>5. \A i \in 1..Len(frameCh') : lastPts' < frameCh'[i].pts /\ frameCh'[i].pts <= captured'
        BY <1>1, <3>1, <3>2, <3>3 DEF FramesInOrder
      <3>6. \A i, j \in 1..Len(frameCh') : i < j => frameCh'[i].pts < frameCh'[j].pts
        BY <1>1, <3>1, <3>2, <3>3, <3>4
      <3>7. QED
        BY <3>4, <3>5, <3>6 DEF FramesInOrder
    <2>4. QED
      BY <1>1, <2>2, <2>3 DEF Timed
  <1>6. CASE UNCHANGED frameCh
    <2>1. PipelineTypeOK'
      <3>1. captured' \in 0..MaxFrames
        BY <1>1, TimesAreNumbers
      <3>2. QED
        BY <1>1, <1>4, <1>6, <3>1 DEF PipelineTypeOK
    <2>2. FramesInOrder'
      BY <1>1, <1>6, TimesAreNumbers DEF FramesInOrder
    <2>3. QED
      BY <1>1, <2>1, <2>2 DEF Timed
  <1>7. QED
    BY <1>2, <1>5, <1>6 DEF TrySend

(* The encoder ends: channel, encoder and times are gone.                  *)
LEMMA DoneKeepsInv ==
  ASSUME PipelineInv, EncoderDone, UNCHANGED <<captureVars, forwarder>>,
         packets' \in 0..PacketCap, panicked' \in BOOLEAN
  PROVE  PipelineInv'
  <1>1. frameCh' \in Seq(Frames) /\ Len(frameCh') = 0
    BY NoFrames DEF EncoderDone
  <1>2. 0 \in 0..MaxFrames /\ InitialSize \in Nat /\ 0 <= FrameCap
    BY PipelineAssumption
  <1>3. PipelineTypeOK'
    BY <1>1, <1>2 DEF PipelineInv, PipelineTypeOK, EncoderDone, captureVars
  <1>4. FramesInOrder'
    BY <1>1, TimesAreNumbers DEF PipelineInv, EncoderDone, captureVars, FramesInOrder
  <1>5. QED
    BY <1>3, <1>4 DEF PipelineInv, EncoderDone, Timed

(* A frame is taken from the channel and encoded or skipped.               *)
LEMMA EncodeKeepsInv ==
  ASSUME PipelineInv, EncodeFrame
  PROVE  PipelineInv'
  <1> USE DEF PipelineInv
  <1> DEFINE f == Head(frameCh)
             size == Even(f.size, curSize)
  <1>1. /\ frameCh \in Seq(Frames) /\ frameCh # <<>> /\ frameCh' = Tail(frameCh)
        /\ UNCHANGED <<stopping, capture, captured, packets, forwarder, panicked>>
        /\ encoder' \in {"recv", "send"}
    BY DEF PipelineTypeOK, EncodeFrame, SkipsFrame, MakesPacket, captureVars
  <1>2. /\ f \in Frames /\ f.pts \in 1..MaxFrames /\ f.size \in Nat
        /\ lastPts < f.pts /\ f.pts <= captured
        /\ \A i \in 1..Len(frameCh') :
             /\ f.pts < frameCh'[i].pts /\ frameCh'[i].pts <= captured
             /\ frameCh'[i].pts \in Nat
        /\ \A i, j \in 1..Len(frameCh') : i < j => frameCh'[i].pts < frameCh'[j].pts
    <2>1. /\ Len(frameCh) \in Nat /\ Len(frameCh) >= 1 /\ Len(frameCh') = Len(frameCh) - 1
          /\ \A i \in 1..Len(frameCh') : frameCh'[i] = frameCh[i + 1]
          /\ f = frameCh[1] /\ f \in Frames
      BY <1>1, FramesTaken
    <2>2. f.pts \in 1..MaxFrames /\ f.size \in Nat
      BY <2>1, PipelineAssumption DEF Frames
    <2>3. lastPts < f.pts /\ f.pts <= captured
      BY <2>1 DEF FramesInOrder
    <2>4. \A i \in 1..Len(frameCh') :
             /\ f.pts < frameCh'[i].pts /\ frameCh'[i].pts <= captured
             /\ frameCh'[i].pts \in Nat
      <3>1. SUFFICES ASSUME NEW i \in 1..Len(frameCh')
                     PROVE  /\ frameCh[1].pts < frameCh[i + 1].pts
                            /\ frameCh[i + 1].pts <= captured
                            /\ frameCh[i + 1].pts \in Nat
        BY <2>1
      <3>2. 1 \in 1..Len(frameCh) /\ i + 1 \in 1..Len(frameCh) /\ 1 < i + 1
        BY <2>1
      <3>3. QED
        BY <3>2, TimesAreNumbers DEF FramesInOrder
    <2>5. \A i, j \in 1..Len(frameCh') : i < j => frameCh'[i].pts < frameCh'[j].pts
      BY <2>1 DEF FramesInOrder
    <2>6. QED
      BY <2>1, <2>2, <2>3, <2>4, <2>5
  <1>3. {captured, lastPts, firstPts, mediaTime} \subseteq 0..MaxFrames /\ MaxFrames \in Nat
    BY TimesAreNumbers
  <1>4. size \in Nat /\ encSize' \in {0, curSize'} /\ curSize' \in Nat
    <2>1. size \in Nat
      BY <1>2, EvenSize DEF PipelineTypeOK
    <2>2. QED
      BY <2>1 DEF EncodeFrame, Prepares, ReinitFails, PipelineTypeOK
  <1>5. /\ lastPts' \in {lastPts, f.pts}
        /\ {lastPts', firstPts', mediaTime'} \subseteq 0..MaxFrames
        /\ Timed'
    <2>1. CASE UNCHANGED timeVars
      BY <1>3, <2>1 DEF timeVars, Timed
    <2>2. CASE MakesPacket(f)
      <3>1. CASE lastPts = 0
        BY <1>2, <1>3, <2>2, <3>1 DEF MakesPacket, Timed
      <3>2. CASE lastPts # 0
        BY <1>2, <1>3, <2>2, <3>2 DEF MakesPacket, Timed
      <3>3. QED
        BY <3>1, <3>2
    <2>3. QED
      BY <2>1, <2>2 DEF EncodeFrame, SkipsFrame
  <1>6. FramesInOrder'
    <2>1. lastPts' < f.pts \/ lastPts' = f.pts
      BY <1>2, <1>5
    <2>2. QED
      BY <1>1, <1>2, <1>3, <1>5, <2>1 DEF FramesInOrder
  <1>7. PipelineTypeOK'
    <2>1. frameCh' \in Seq(Frames) /\ Len(frameCh') <= FrameCap
      BY <1>1, FramesTaken, PipelineAssumption DEF PipelineTypeOK
    <2>2. {encSize', curSize'} \subseteq Nat
      BY <1>4
    <2>3. {stopping', panicked'} \subseteq BOOLEAN
      BY <1>1 DEF PipelineTypeOK
    <2>4. {captured', lastPts', firstPts', mediaTime'} \subseteq 0..MaxFrames
      BY <1>1, <1>3, <1>5
    <2>5. QED
      BY <1>1, <1>4, <1>5, <2>1, <2>2, <2>3, <2>4 DEF PipelineTypeOK
  <1>8. QED
    BY <1>1, <1>4, <1>5, <1>6, <1>7

(* The steps that neither touch the frames nor the times.                  *)
LEMMA OthersKeepInv ==
  ASSUME PipelineInv,
         UNCHANGED <<captured, frameCh, timeVars, curSize, panicked>>,
         encSize' \in {0, curSize},
         encoder' = "off" => encoder = "off",
         stopping' \in BOOLEAN,
         capture' \in {"off", "running", "ended"},
         encoder' \in {"off", "recv", "send", "tail", "done"},
         packets' \in 0..PacketCap,
         forwarder' \in {"off", "recv", "push", "done"}
  PROVE  PipelineInv'
  BY DEF PipelineInv, PipelineTypeOK, timeVars, FramesInOrder, Timed

(* Whatever the encoder does with a frame keeps it.                        *)
LEMMA EncoderKeepsInv ==
  ASSUME PipelineInv, EncoderStep
  PROVE  PipelineInv'
  <1> USE PipelineAssumption
  <1>1. CASE EncodeFrame
    BY <1>1, EncodeKeepsInv
  <1>2. CASE EncoderPanics
    BY <1>2, DoneKeepsInv DEF EncoderPanics, PipelineInv, PipelineTypeOK
  <1>3. CASE EncoderSends
    <2>1. packets' \in 0..PacketCap
      BY <1>3 DEF EncoderSends, PipelineInv, PipelineTypeOK
    <2>2. QED
      BY <1>3, <2>1, DoneKeepsInv, OthersKeepInv
      DEF EncoderSends, PipelineInv, PipelineTypeOK, captureVars
  <1>4. CASE EncoderBreaks
    BY <1>4, DoneKeepsInv DEF EncoderBreaks, PipelineInv, PipelineTypeOK
  <1>5. CASE EncoderDrains
    BY <1>5, DoneKeepsInv, OthersKeepInv
    DEF EncoderDrains, PipelineInv, PipelineTypeOK, captureVars
  <1>6. QED
    BY <1>1, <1>2, <1>3, <1>4, <1>5 DEF EncoderStep

(* PipelineInv is inductive.                                               *)
LEMMA PipelineInvStep == PipelineInv /\ [PipelineNext]_pipelineVars => PipelineInv'
  <1> SUFFICES ASSUME PipelineInv, [PipelineNext]_pipelineVars PROVE PipelineInv'
    OBVIOUS
  <1>1. CASE FrameArrives
    BY <1>1, ArrivalKeepsInv
  <1>2. CASE EncoderStep
    BY <1>2, EncoderKeepsInv
  <1>3. CASE StartCapture \/ CaptureEnds \/ StopFlag
    BY <1>3, OthersKeepInv
    DEF StartCapture, CaptureEnds, StopFlag, PipelineInv, PipelineTypeOK, encoderVars, timeVars
  <1>4. CASE encoder = "off" /\ StartEncoderPair
    <2>1. encSize' \in {0, curSize}
      BY <1>4 DEF StartEncoderPair, PipelineInv
    <2>2. QED
      BY <1>4, <2>1, OthersKeepInv
      DEF StartEncoderPair, PipelineInv, PipelineTypeOK, captureVars
  <1>5. CASE ForwarderTakes \/ ForwarderPushed \/ ForwarderEnds \/ ForwarderAborted
    <2>1. packets' \in 0..PacketCap
      BY <1>5, PipelineAssumption
      DEF ForwarderTakes, ForwarderPushed, ForwarderEnds, ForwarderAborted, PipelineInv,
          PipelineTypeOK
    <2>2. QED
      BY <1>5, <2>1, OthersKeepInv
      DEF ForwarderTakes, ForwarderPushed, ForwarderEnds, ForwarderAborted, ForwarderTo,
          PipelineInv, PipelineTypeOK, captureVars, encoderVars
  <1>6. CASE UNCHANGED pipelineVars
    BY <1>6, OthersKeepInv
    DEF pipelineVars, captureVars, encoderVars, PipelineInv, PipelineTypeOK
  <1>7. QED
    BY <1>1, <1>2, <1>3, <1>4, <1>5, <1>6 DEF PipelineNext, PipelineStep, CaptureStops, CaptureFails

(* PipelineInv holds along every behaviour of the threads.                 *)
LEMMA PipelineInvariant == PipelineSpec => []PipelineInv
  BY PipelineInvInit, PipelineInvStep, PTL DEF PipelineSpec

-----------------------------------------------------------------------------

(* The durations of the packets add up to the time between the first one   *)
(* and the last, whatever frames the channel drops or the encoder skips.   *)
THEOREM TimelineAlwaysKept == PipelineSpec => []TimelineKept
  <1>1. PipelineInv => TimelineKept
    BY DEF PipelineInv, Timed, TimelineKept
  <1>2. QED
    BY <1>1, PipelineInvariant, PTL

(* A packet only ever comes from an encoder of the size of its frame.      *)
THEOREM AlwaysEncodedAtItsSize == PipelineSpec => EncodedAtItsSize
  <1>1. PipelineInv /\ [PipelineNext]_pipelineVars
          => [encoder = "recv" /\ encoder' = "send" =>
                encSize' = Even(Head(frameCh).size, curSize)]_pipelineVars
    <2> SUFFICES ASSUME PipelineInv, PipelineNext, encoder = "recv", encoder' = "send"
                 PROVE  encSize' = Even(Head(frameCh).size, curSize)
      OBVIOUS
    <2>1. EncodeFrame /\ MakesPacket(Head(frameCh))
      BY DEF PipelineNext, PipelineStep, StartCapture, FrameArrives, CaptureStops, CaptureFails,
             CaptureEnds, EncoderStep, EncodeFrame, SkipsFrame, EncoderPanics, EncoderSends,
             EncoderBreaks, EncoderDrains, EncoderDone, StopFlag, ForwarderTakes, ForwarderPushed,
             ForwarderEnds, ForwarderAborted, ForwarderTo, encoderVars, StartEncoderPair
    <2>2. Prepares(Even(Head(frameCh).size, curSize))
      BY <2>1 DEF EncodeFrame
    <2>3. QED
      BY <2>2 DEF Prepares, Fits, PipelineInv
  <1>2. QED
    BY <1>1, PipelineInvariant, PTL DEF PipelineSpec, EncodedAtItsSize

-----------------------------------------------------------------------------
(* The session as a whole. *)

(* The composition has one session.                                        *)
LEMMA OneSession == Ids = {Session} /\ Session \in Ids /\ Session = 1
  BY OneSessionAssumption DEF Ids, Session

(* What happens to the session is a step of SessionLifecycle.              *)
LEMMA LifecycleProjection == [DesktopNext]_desktopVars => [Next]_vars
  <1> SUFFICES ASSUME [DesktopNext]_desktopVars PROVE Next \/ UNCHANGED vars
    OBVIOUS
  <1>1. \A s \in {Session} : SessionStep(s) => Next
    BY OneSession DEF Next
  <1> USE DEF NotLifecycle, lifecycleVars, InWatcher, InPipeline, InCreation
  <1>2. CASE StartCommand \/ StopCommand
    BY <1>2 DEF StartCommand, StopCommand, Next
  <1>3. CASE StartStep
    BY <1>1, <1>3
    DEF StartStep, ConnectStep, CreateReturns, WebRtcStep, CaptureStep, SpawnStep, InstallStep,
        StartFails, InitStepAt, SessionStep
  <1>4. CASE WatcherStepHere \/ SignalingSignals \/ SignalingEnds
    BY <1>1, <1>4 DEF WatcherStepHere, SignalingSignals, SignalingEnds, SessionStep
  <1>5. CASE SupervisorStep
    BY <1>1, <1>5 DEF SupervisorStep, SessionStep
  <1>6. CASE UnwindStep
    BY <1>1, <1>6
    DEF UnwindStep, EndSessionStep, CaptureToldToStop, CaptureJoinStep, ClosePeerStep,
        AbortForwarder, AbortWatcher, ReapStep, TeardownAt, SessionStep
  <1>7. CASE \/ CreateSession \/ TickHere \/ TaskMessages \/ EncoderStepHere \/ ForwarderStep
             \/ PushReturns \/ PumpStep \/ FrameComes \/ CaptureBreaks \/ PeerMoves
             \/ SocketLost \/ LastFrame \/ ServerStep
    BY <1>7
    DEF CreateSession, TickHere, TaskMessages, EncoderStepHere, ForwarderStep, PushReturns,
        PumpStep, FrameComes, CaptureBreaks, PeerMoves, SocketLost, LastFrame, ServerStep
  <1>8. CASE UNCHANGED desktopVars
    BY <1>8 DEF desktopVars
  <1>9. QED
    BY <1>2, <1>3, <1>4, <1>5, <1>6, <1>7, <1>8 DEF DesktopNext

(* What happens to the connection is a step of StateWatcher.               *)
LEMMA WatcherProjection == [DesktopNext]_desktopVars => [WatcherNext]_watcherVars
  <1> SUFFICES ASSUME [DesktopNext]_desktopVars PROVE WatcherNext \/ UNCHANGED watcherVars
    OBVIOUS
  <1> USE DEF NotWatcher, InLifecycle, InPipeline, InCreation, WatcherNext
  <1>1. CASE StartCommand \/ StopCommand
    BY <1>1 DEF StartCommand, StopCommand
  <1>2. CASE StartStep
    BY <1>2
    DEF StartStep, ConnectStep, CreateReturns, WebRtcStep, CaptureStep, SpawnStep, InstallStep,
        StartFails
  <1>3. CASE WatcherStepHere \/ TickHere \/ SignalingSignals \/ SignalingEnds
    BY <1>3 DEF WatcherStepHere, TickHere, SignalingSignals, SignalingEnds
  <1>4. CASE SupervisorStep
    BY <1>4 DEF SupervisorStep
  <1>5. CASE UnwindStep
    BY <1>5
    DEF UnwindStep, EndSessionStep, CaptureToldToStop, CaptureJoinStep, ClosePeerStep,
        AbortForwarder, AbortWatcher, ReapStep
  <1>6. CASE \/ CreateSession \/ TaskMessages \/ EncoderStepHere \/ ForwarderStep
             \/ PushReturns \/ PumpStep \/ FrameComes \/ CaptureBreaks \/ PeerMoves
             \/ SocketLost \/ LastFrame \/ ServerStep
    BY <1>6
    DEF CreateSession, TaskMessages, EncoderStepHere, ForwarderStep, PushReturns,
        PumpStep, FrameComes, CaptureBreaks, PeerMoves, SocketLost, LastFrame, ServerStep
  <1>7. CASE UNCHANGED desktopVars
    BY <1>7 DEF desktopVars
  <1>8. QED
    BY <1>1, <1>2, <1>3, <1>4, <1>5, <1>6, <1>7 DEF DesktopNext

-----------------------------------------------------------------------------
(* The threads follow the stage of the session. *)

BeforeCapture == {"unused", "connect", "create", "webrtc", "capture"}
AfterJoin == {"closePeer", "reap", "gone"}

ThreadsFollow ==
    /\ stage[Session] \in BeforeCapture => capture = "off"
    /\ stage[Session] \in BeforeCapture \cup {"spawn"} => encoder = "off" /\ forwarder = "off"
    /\ stage[Session] = "spawn" => capture # "off"
    /\ forwarder # "off" => capture # "off"
    /\ stage[Session] \in AfterJoin => CaptureJoined

(* How a step moves the stage.                                             *)
LEMMA StageMoves ==
  ASSUME LifecycleInv
  PROVE  /\ Start => stage[Session] = "unused" /\ stage'[Session] = "connect"
         /\ Stop => stage'[Session] = "endSession"
         /\ InitStep(Session) => /\ stage[Session] \in DOMAIN Acquires
                                 /\ stage'[Session] = Following[stage[Session]]
         /\ InitFails(Session) =>
              \/ stage[Session] \in {"connect", "create"} /\ stage'[Session] = "gone"
              \/ stage'[Session] = "endSession"
         /\ Install(Session) => stage'[Session] = "up"
         /\ TaskSignals(Session) => stage' = stage
         /\ TaskEndsQuietly(Session) => stage' = stage
         /\ Wake(Session) => stage' = stage
         /\ SupervisorTakes(Session) => stage' = stage \/ stage'[Session] = "endSession"
         /\ TeardownStep(Session) => stage'[Session] = NextTeardown[stage[Session]]
  <1> USE OneSession DEF LifecycleInv, TypeOK
  <1>1. Start => stage[Session] = "unused" /\ stage'[Session] = "connect"
    BY OneSessionAssumption DEF Start, ReleasedInOrder
  <1>2. Stop => stage'[Session] = "endSession"
    BY DEF Stop, None
  <1>3. InitStep(Session) => /\ stage[Session] \in DOMAIN Acquires
                             /\ stage'[Session] = Following[stage[Session]]
    BY DEF InitStep
  <1>4. InitFails(Session) =>
              \/ stage[Session] \in {"connect", "create"} /\ stage'[Session] = "gone"
              \/ stage'[Session] = "endSession"
    BY DEF InitFails
  <1>5. Install(Session) => stage'[Session] = "up"
    BY DEF Install
  <1>6. /\ TaskSignals(Session) => stage' = stage
        /\ TaskEndsQuietly(Session) => stage' = stage
        /\ Wake(Session) => stage' = stage
    BY DEF TaskSignals, TaskEndsQuietly, Wake
  <1>7. SupervisorTakes(Session) => stage' = stage \/ stage'[Session] = "endSession"
    BY DEF SupervisorTakes, None
  <1>8. TeardownStep(Session) => stage'[Session] = NextTeardown[stage[Session]]
    BY DEF TeardownStep
  <1>9. QED
    BY <1>1, <1>2, <1>3, <1>4, <1>5, <1>6, <1>7, <1>8

(* ThreadsFollow is inductive, given what is proved of the lifecycle.      *)
LEMMA ThreadsFollowStep ==
  LifecycleInv /\ ThreadsFollow /\ [DesktopNext]_desktopVars => ThreadsFollow'
  <1> SUFFICES ASSUME LifecycleInv, ThreadsFollow, [DesktopNext]_desktopVars PROVE ThreadsFollow'
    OBVIOUS
  <1> USE DEF BeforeCapture, AfterJoin, pipelineVars, captureVars, encoderVars
  <1>1. CASE NotPipeline /\ UNCHANGED stage
    BY <1>1 DEF NotPipeline, ThreadsFollow, CaptureJoined
  <1>2. CASE StartCommand \/ StopCommand \/ SignalingSignals \/ SignalingEnds \/ SupervisorStep
    <2>1. NotPipeline
      BY <1>2 DEF StartCommand, StopCommand, SignalingSignals, SignalingEnds, SupervisorStep,
                  InLifecycle
    <2>2. \/ stage' = stage
          \/ stage[Session] = "unused" /\ stage'[Session] = "connect"
          \/ stage'[Session] = "endSession"
      BY <1>2, StageMoves
      DEF StartCommand, StopCommand, SignalingSignals, SignalingEnds, SupervisorStep
    <2>3. QED
      BY <2>1, <2>2 DEF NotPipeline, ThreadsFollow, CaptureJoined
  <1>3. CASE StartStep
    <2>1. CASE ConnectStep \/ CreateReturns \/ WebRtcStep
      <3>1. /\ NotPipeline
            /\ stage[Session] \in {"connect", "create", "webrtc"}
            /\ stage'[Session] \in {"create", "webrtc", "capture"}
        BY <2>1, StageMoves, InitTables
        DEF ConnectStep, CreateReturns, WebRtcStep, InitStepAt, InLifecycle
      <3>2. QED
        BY <3>1 DEF NotPipeline, ThreadsFollow
    <2>2. CASE CaptureStep
      <3>1. stage[Session] = "capture" /\ stage'[Session] = "spawn"
        BY <2>2, StageMoves, InitTables DEF CaptureStep, InitStepAt
      <3>2. QED
        BY <2>2, <3>1 DEF CaptureStep, StartCapture, ThreadsFollow
    <2>3. CASE SpawnStep
      <3>1. stage[Session] = "spawn" /\ stage'[Session] = "built"
        BY <2>3, StageMoves, InitTables DEF SpawnStep, InitStepAt
      <3>2. QED
        BY <2>3, <3>1 DEF SpawnStep, StartEncoderPair, ThreadsFollow
    <2>4. CASE InstallStep
      BY <2>4, StageMoves DEF InstallStep, InLifecycle, NotPipeline, ThreadsFollow
    <2>5. CASE StartFails
      BY <2>5, StageMoves DEF StartFails, InLifecycle, NotPipeline, ThreadsFollow, CaptureJoined
    <2>6. QED
      BY <1>3, <2>1, <2>2, <2>3, <2>4, <2>5 DEF StartStep
  <1>4. CASE UnwindStep
    <2>1. CASE EndSessionStep
      BY <2>1, StageMoves, TeardownTables
      DEF EndSessionStep, TeardownAt, NotPipeline, ThreadsFollow, CaptureJoined
    <2>2. CASE CaptureToldToStop
      BY <2>2
      DEF CaptureToldToStop, StopFlag, InPipeline, NotLifecycle, lifecycleVars, vars, ThreadsFollow,
          CaptureJoined
    <2>3. CASE CaptureJoinStep
      BY <2>3, StageMoves, TeardownTables
      DEF CaptureJoinStep, TeardownAt, InLifecycle, NotPipeline, ThreadsFollow, CaptureJoined
    <2>4. CASE ClosePeerStep
      BY <2>4, StageMoves, TeardownTables
      DEF ClosePeerStep, TeardownAt, NotPipeline, ThreadsFollow, CaptureJoined
    <2>5. CASE AbortForwarder
      BY <2>5
      DEF AbortForwarder, ForwarderAborted, ForwarderTo, InPipeline, NotLifecycle, lifecycleVars,
          vars, ThreadsFollow, CaptureJoined
    <2>6. CASE AbortWatcher
      BY <1>1, <2>6 DEF AbortWatcher, InWatcher, NotLifecycle, lifecycleVars, vars
    <2>7. CASE ReapStep
      BY <2>7, StageMoves, TeardownTables
      DEF ReapStep, TeardownAt, InLifecycle, NotPipeline, ThreadsFollow, CaptureJoined
    <2>8. QED
      BY <1>4, <2>1, <2>2, <2>3, <2>4, <2>5, <2>6, <2>7 DEF UnwindStep
  <1>5. CASE WatcherStepHere
    <2>1. NotPipeline /\ stage' = stage
      BY <1>5, StageMoves DEF WatcherStepHere, NotLifecycle, lifecycleVars, vars
    <2>2. QED
      BY <1>1, <2>1
  <1>6. CASE \/ CreateSession \/ TickHere \/ TaskMessages \/ PumpStep \/ PeerMoves \/ SocketLost
             \/ ServerStep
    <2>1. NotPipeline /\ stage' = stage
      BY <1>6
      DEF CreateSession, TickHere, TaskMessages, PumpStep, PeerMoves, SocketLost, ServerStep,
          InWatcher, InCreation, NotLifecycle, lifecycleVars, vars
    <2>2. QED
      BY <1>1, <2>1
  <1>7. CASE FrameComes \/ CaptureBreaks \/ LastFrame
    <2>1. /\ stage' = stage /\ UNCHANGED <<stopping, encoder, forwarder>>
          /\ capture = "running" /\ capture' \in {"running", "ended"}
      BY <1>7
      DEF FrameComes, FrameArrives, TrySend, CaptureBreaks, CaptureFails, LastFrame, CaptureStops,
          CaptureEnds, InPipeline, NotLifecycle, lifecycleVars, vars
    <2>2. QED
      BY <2>1 DEF ThreadsFollow, CaptureJoined
  <1>8. CASE EncoderStepHere
    <2>1. /\ stage' = stage /\ UNCHANGED <<stopping, capture, forwarder>>
          /\ encoder # "off"
      BY <1>8
      DEF EncoderStepHere, EncoderStep, EncodeFrame, EncoderPanics, EncoderSends, EncoderBreaks,
          EncoderDrains, InPipeline, NotLifecycle, lifecycleVars, vars
    <2>2. QED
      BY <2>1 DEF ThreadsFollow, CaptureJoined
  <1>9. CASE ForwarderStep \/ PushReturns
    <2>1. /\ stage' = stage /\ UNCHANGED <<stopping, capture, encoder>>
          /\ forwarder # "off"
      BY <1>9
      DEF ForwarderStep, PushReturns, ForwarderTakes, ForwarderPushed, ForwarderEnds, ForwarderTo,
          InPipeline, NotLifecycle, lifecycleVars, vars
    <2>2. QED
      BY <2>1 DEF ThreadsFollow, CaptureJoined
  <1>10. CASE UNCHANGED desktopVars
    BY <1>1, <1>10 DEF desktopVars, NotPipeline, lifecycleVars, vars
  <1>11. QED
    BY <1>2, <1>3, <1>4, <1>5, <1>6, <1>7, <1>8, <1>9, <1>10 DEF DesktopNext

(* What happens to the threads is a step of EncoderPipeline.               *)
LEMMA PipelineProjection ==
  ThreadsFollow /\ [DesktopNext]_desktopVars => [PipelineNext]_pipelineVars
  <1> SUFFICES ASSUME ThreadsFollow, [DesktopNext]_desktopVars
               PROVE  PipelineNext \/ UNCHANGED pipelineVars
    OBVIOUS
  <1> USE DEF NotPipeline, InLifecycle, InWatcher, InCreation
  <1>1. CASE StartStep
    <2>1. CASE CaptureStep
      BY <2>1 DEF CaptureStep, InitStepAt, ThreadsFollow, BeforeCapture, PipelineNext
    <2>2. CASE SpawnStep
      BY <2>2 DEF SpawnStep, InitStepAt, ThreadsFollow, PipelineNext
    <2>3. QED
      BY <1>1, <2>1, <2>2
      DEF StartStep, ConnectStep, CreateReturns, WebRtcStep, InstallStep, StartFails
  <1>2. CASE UnwindStep
    <2>1. CASE CaptureToldToStop
      BY <2>1 DEF CaptureToldToStop, PipelineNext
    <2>2. CASE AbortForwarder
      BY <2>2
      DEF AbortForwarder, ForwarderAborted, ThreadsFollow, AfterJoin, PipelineNext
    <2>3. QED
      BY <1>2, <2>1, <2>2
      DEF UnwindStep, EndSessionStep, CaptureJoinStep, ClosePeerStep, AbortWatcher, ReapStep
  <1>3. CASE \/ EncoderStepHere \/ ForwarderStep \/ PushReturns
             \/ FrameComes \/ CaptureBreaks \/ LastFrame
    BY <1>3
    DEF EncoderStepHere, ForwarderStep, PushReturns, FrameComes, CaptureBreaks, LastFrame,
        PipelineNext, PipelineStep
  <1>4. CASE \/ StartCommand \/ StopCommand \/ CreateSession \/ WatcherStepHere \/ TickHere
             \/ SignalingSignals \/ SignalingEnds \/ TaskMessages \/ PumpStep
             \/ SupervisorStep \/ PeerMoves \/ SocketLost \/ ServerStep
    BY <1>4
    DEF StartCommand, StopCommand, CreateSession, WatcherStepHere, TickHere, SignalingSignals,
        SignalingEnds, TaskMessages, PumpStep, SupervisorStep, PeerMoves, SocketLost, ServerStep
  <1>5. CASE UNCHANGED desktopVars
    BY <1>5 DEF desktopVars
  <1>6. QED
    BY <1>1, <1>2, <1>3, <1>4, <1>5 DEF DesktopNext

-----------------------------------------------------------------------------
(* create_session(): an answer taken from the slot leaves it empty. *)

SlotInv ==
    /\ createCall = "none" => ~createdSlot /\ oneshot = "empty"
    /\ createCall \in {"created", "failed"} => ~createdSlot
    /\ oneshot # "empty" => ~createdSlot

CreationInv == CreationTypeOK /\ SlotInv

(* CreationInv holds before create_session() is called.                    *)
LEMMA CreationInvInit == CreationInit => CreationInv
  <1> SUFFICES ASSUME CreationInit PROVE CreationInv
    OBVIOUS
  <1>1. /\ clientCh = <<>> /\ up = <<>> /\ down = <<>>
        /\ createCall = "none" /\ oneshot = "empty" /\ serverSession = "none"
        /\ ~createdSlot
    BY DEF CreationInit
  <1>2. /\ createdSlot \in BOOLEAN /\ clientTx \in BOOLEAN /\ pumpOut \in BOOLEAN
        /\ pumpIn \in BOOLEAN /\ connected \in BOOLEAN
    BY DEF CreationInit
  <1>3. /\ clientCh \in Seq(Requests) /\ Len(clientCh) <= ClientCap
        /\ up \in Seq(Requests \cup {"close"}) /\ Len(up) <= WireCap
        /\ down \in Seq(Answers)
    BY <1>1, CreationAssumption
  <1>4. CreationTypeOK
    BY <1>1, <1>2, <1>3 DEF CreationTypeOK, CallStates
  <1>5. QED
    BY <1>1, <1>4 DEF CreationInv, SlotInv

(* What each step of the channels leaves in them.                          *)
LEMMA ChannelsTyped ==
  ASSUME CreationTypeOK
  PROVE  /\ <<>> \in Seq(Requests) /\ <<>> \in Seq(Answers)
         /\ <<>> \in Seq(Requests \cup {"close"}) /\ Len(<<>>) = 0
         /\ 0 <= ClientCap /\ 0 <= WireCap
         /\ \A m \in Requests : Len(clientCh) < ClientCap =>
              /\ Append(clientCh, m) \in Seq(Requests)
              /\ Len(Append(clientCh, m)) <= ClientCap
         /\ clientCh # <<>> =>
              /\ Tail(clientCh) \in Seq(Requests) /\ Len(Tail(clientCh)) <= ClientCap
              /\ Head(clientCh) \in Requests
         /\ \A m \in Requests \cup {"close"} : Len(up) < WireCap =>
              /\ Append(up, m) \in Seq(Requests \cup {"close"})
              /\ Len(Append(up, m)) <= WireCap
         /\ up # <<>> =>
              Tail(up) \in Seq(Requests \cup {"close"}) /\ Len(Tail(up)) <= WireCap
         /\ \A a \in Answers : Append(down, a) \in Seq(Answers)
         /\ down # <<>> => Tail(down) \in Seq(Answers) /\ Head(down) \in Answers
  <1>1. /\ clientCh \in Seq(Requests) /\ Len(clientCh) <= ClientCap
        /\ up \in Seq(Requests \cup {"close"}) /\ Len(up) <= WireCap
        /\ down \in Seq(Answers)
        /\ ClientCap \in Nat /\ WireCap \in Nat
    BY CreationAssumption DEF CreationTypeOK
  <1>2. /\ <<>> \in Seq(Requests) /\ <<>> \in Seq(Answers)
        /\ <<>> \in Seq(Requests \cup {"close"}) /\ Len(<<>>) = 0
        /\ 0 <= ClientCap /\ 0 <= WireCap
    BY <1>1
  <1>3. /\ \A m \in Requests : Len(clientCh) < ClientCap =>
              /\ Append(clientCh, m) \in Seq(Requests)
              /\ Len(Append(clientCh, m)) <= ClientCap
        /\ clientCh # <<>> =>
              /\ Tail(clientCh) \in Seq(Requests) /\ Len(Tail(clientCh)) <= ClientCap
              /\ Head(clientCh) \in Requests
    BY <1>1
  <1>4. /\ \A m \in Requests \cup {"close"} : Len(up) < WireCap =>
              /\ Append(up, m) \in Seq(Requests \cup {"close"})
              /\ Len(Append(up, m)) <= WireCap
        /\ up # <<>> =>
              Tail(up) \in Seq(Requests \cup {"close"}) /\ Len(Tail(up)) <= WireCap
    BY <1>1
  <1>5. /\ \A a \in Answers : Append(down, a) \in Seq(Answers)
        /\ down # <<>> => Tail(down) \in Seq(Answers) /\ Head(down) \in Answers
    BY <1>1
  <1>6. QED
    BY <1>2, <1>3, <1>4, <1>5

(* What happens to the socket and the call, within one session.            *)
CreationMoves ==
    \/ Connect \/ CreateStep \/ TaskSends \/ EndSession
    \/ PumpWrites \/ PumpFails \/ PumpEnds(Spawned) \/ InboundReads(Taker) \/ InboundEnds
    \/ ServerHandles \/ ServerNotices \/ SocketBreaks \/ ServerShutsDown

(* A step of the composition is one of create_session() or leaves it be.   *)
LEMMA CreationProjection == [DesktopNext]_desktopVars => CreationMoves \/ UNCHANGED creationVars
  <1> SUFFICES ASSUME [DesktopNext]_desktopVars PROVE CreationMoves \/ UNCHANGED creationVars
    OBVIOUS
  <1> USE DEF NotCreation, InLifecycle, InWatcher, InPipeline, CreationMoves
  <1>1. CASE StartStep
    BY <1>1
    DEF StartStep, ConnectStep, CreateReturns, WebRtcStep, CaptureStep, SpawnStep, InstallStep,
        StartFails
  <1>2. CASE UnwindStep
    BY <1>2
    DEF UnwindStep, EndSessionStep, CaptureToldToStop, CaptureJoinStep, ClosePeerStep,
        AbortForwarder, AbortWatcher, ReapStep
  <1>3. CASE CreateSession \/ TaskMessages \/ PumpStep \/ SocketLost \/ ServerStep
    BY <1>3 DEF CreateSession, TaskMessages, PumpStep, SocketLost, ServerStep
  <1>4. CASE \/ StartCommand \/ StopCommand \/ WatcherStepHere \/ TickHere \/ SignalingSignals
             \/ SignalingEnds \/ EncoderStepHere \/ ForwarderStep \/ PushReturns
             \/ SupervisorStep \/ FrameComes \/ CaptureBreaks \/ PeerMoves \/ LastFrame
    BY <1>4
    DEF StartCommand, StopCommand, WatcherStepHere, TickHere, SignalingSignals, SignalingEnds,
        EncoderStepHere, ForwarderStep, PushReturns, SupervisorStep, FrameComes, CaptureBreaks,
        PeerMoves, LastFrame
  <1>5. CASE UNCHANGED desktopVars
    BY <1>5 DEF desktopVars
  <1>6. QED
    BY <1>1, <1>2, <1>3, <1>4, <1>5 DEF DesktopNext

(* CreationInv is inductive over those steps.                              *)
LEMMA CreationInvStep ==
  CreationInv /\ (CreationMoves \/ UNCHANGED creationVars) => CreationInv'
  <1> SUFFICES ASSUME CreationInv, CreationMoves \/ UNCHANGED creationVars PROVE CreationInv'
    OBVIOUS
  <1>1. CreationTypeOK /\ SlotInv
    BY DEF CreationInv
  <1>2. /\ createdSlot \in BOOLEAN /\ clientTx \in BOOLEAN /\ pumpOut \in BOOLEAN
        /\ pumpIn \in BOOLEAN /\ connected \in BOOLEAN
    BY <1>1 DEF CreationTypeOK
  <1> USE DEF callVars, wireVars, creationVars
  <1>3. CreationTypeOK'
    <2>1. CASE Connect
      BY <1>1, <2>1 DEF Connect, CreationTypeOK
    <2>2. CASE CreateStep
      <3>1. /\ clientCh' \in Seq(Requests) /\ Len(clientCh') <= ClientCap
            /\ createCall' \in CallStates
            /\ createdSlot' \in BOOLEAN /\ clientTx' \in BOOLEAN
            /\ UNCHANGED <<oneshot, pumpOut, pumpIn, wireVars>>
        BY <1>1, <1>2, <2>2, ChannelsTyped
        DEF CreateStep, Arm, SendCreate, Answered, Expires, Disarm, Fails, Send, CanSend, SendFails,
            CreationTypeOK, CallStates, Requests
      <3>2. QED
        BY <1>1, <3>1 DEF CreationTypeOK
    <2>3. CASE TaskSends \/ EndSession
      <3>1. /\ clientCh' \in Seq(Requests) /\ Len(clientCh') <= ClientCap
            /\ clientTx' \in BOOLEAN
            /\ UNCHANGED <<callVars, pumpOut, pumpIn, wireVars>>
        BY <1>1, <1>2, <2>3, ChannelsTyped
        DEF TaskSends, EndSession, Send, CanSend, SendFails, CreationTypeOK, Requests
      <3>2. QED
        BY <1>1, <3>1 DEF CreationTypeOK
    <2>4. CASE PumpWrites \/ PumpFails \/ PumpEnds(Spawned)
      <3>1. /\ clientCh' \in Seq(Requests) /\ Len(clientCh') <= ClientCap
            /\ up' \in Seq(Requests \cup {"close"}) /\ Len(up') <= WireCap
            /\ pumpOut' \in BOOLEAN
            /\ UNCHANGED <<callVars, clientTx, pumpIn, connected, down, serverSession>>
        BY <1>1, <1>2, <2>4, ChannelsTyped
        DEF PumpWrites, PumpFails, PumpEnds, CreationTypeOK
      <3>2. QED
        BY <1>1, <3>1 DEF CreationTypeOK
    <2>5. CASE InboundReads(Taker) \/ InboundEnds
      <3>1. Taker \in BOOLEAN
        <4>1. CASE Spawned
          BY <4>1 DEF Taker
        <4>2. CASE ~Spawned
          BY <1>2, <4>2, Zenon DEF Taker
        <4>3. QED
          BY <4>1, <4>2
      <3>2. /\ down' \in Seq(Answers) /\ oneshot' \in {"empty"} \cup Answers
            /\ createdSlot' \in BOOLEAN /\ pumpIn' \in BOOLEAN
            /\ UNCHANGED <<createCall, clientTx, clientCh, pumpOut, connected, up, serverSession>>
        BY <1>1, <1>2, <2>5, <3>1, ChannelsTyped DEF InboundReads, InboundEnds, CreationTypeOK
      <3>3. QED
        BY <1>1, <3>2 DEF CreationTypeOK
    <2>6. CASE ServerHandles \/ ServerNotices \/ SocketBreaks \/ ServerShutsDown
      <3>1. /\ up' \in Seq(Requests \cup {"close"}) /\ Len(up') <= WireCap
            /\ down' \in Seq(Answers)
            /\ connected' \in BOOLEAN /\ serverSession' \in {"none", "open", "ended"}
            /\ UNCHANGED <<callVars, clientTx, clientCh, pumpOut, pumpIn>>
        BY <1>1, <1>2, <2>6, ChannelsTyped
        DEF ServerHandles, ServerNotices, SocketBreaks, ServerShutsDown, ServerEnds,
            CreationTypeOK, Answers
      <3>2. QED
        BY <1>1, <3>1 DEF CreationTypeOK
    <2>7. CASE UNCHANGED creationVars
      BY <1>1, <2>7 DEF CreationTypeOK
    <2>8. QED
      BY <2>1, <2>2, <2>3, <2>4, <2>5, <2>6, <2>7 DEF CreationMoves
  <1>4. SlotInv'
    <2>1. CASE CreateStep
      BY <1>1, <2>1
      DEF CreateStep, Arm, SendCreate, Answered, Expires, Disarm, Fails, SlotInv
    <2>2. CASE InboundReads(Taker)
      BY <1>1, <2>2 DEF InboundReads, SlotInv
    <2>3. CASE UNCHANGED callVars
      BY <1>1, <2>3 DEF SlotInv
    <2>4. QED
      BY <2>1, <2>2, <2>3
      DEF CreationMoves, Connect, TaskSends, EndSession, PumpWrites, PumpFails, PumpEnds,
          InboundEnds, ServerHandles, ServerNotices, SocketBreaks, ServerShutsDown
  <1>5. QED
    BY <1>3, <1>4 DEF CreationInv

-----------------------------------------------------------------------------
(* The whole. *)

HappeningsOK == happenings \in 0..MaxHappenings

(* The bounded counters of the environment keep their ranges.              *)
LEMMA HappeningsCounted == HappeningsOK /\ [DesktopNext]_desktopVars => HappeningsOK'
  <1> SUFFICES ASSUME HappeningsOK, [DesktopNext]_desktopVars PROVE HappeningsOK'
    OBVIOUS
  <1>1. UNCHANGED happenings \/ Happens
    BY DEF DesktopNext, desktopVars, Quiet, InLifecycle, StartCommand, StopCommand,
           StartStep, ConnectStep, CreateReturns, WebRtcStep, CaptureStep, SpawnStep, InstallStep,
           StartFails, CreateSession, WatcherStepHere, TickHere, SignalingSignals, SignalingEnds,
           TaskMessages, EncoderStepHere, ForwarderStep, PushReturns, PumpStep, SupervisorStep,
           UnwindStep, EndSessionStep, CaptureToldToStop, CaptureJoinStep, ClosePeerStep,
           AbortForwarder, AbortWatcher, ReapStep, FrameComes, CaptureBreaks, PeerMoves, SocketLost,
           LastFrame, ServerStep
  <1>2. QED
    BY <1>1, OneSessionAssumption DEF Happens, HappeningsOK

(* The safety half of ImplementsLifecycle: seen without its threads and    *)
(* sockets, the desktop host behaves as SessionLifecycle allows.           *)
THEOREM DesktopFollowsLifecycle == DesktopSpec => Init /\ [][Next]_vars
  BY LifecycleProjection, PTL DEF DesktopSpec, DesktopInit

(* Its watcher behaves as StateWatcher allows...                           *)
THEOREM DesktopFollowsWatcher == DesktopSpec => WatcherSpec
  BY WatcherProjection, PTL DEF DesktopSpec, DesktopInit, WatcherSpec

(* No thread runs before the session does.                                 *)
LEMMA ThreadsFollowInit == DesktopInit => ThreadsFollow
  BY OneSession DEF DesktopInit, PipelineInit, Init, ThreadsFollow, AfterJoin, CaptureJoined

(* The threads follow the lifecycle along every behaviour.                 *)
LEMMA ThreadsAlwaysFollow == DesktopSpec => [](LifecycleInv /\ ThreadsFollow)
  <1>1. DesktopSpec => []LifecycleInv
    BY DesktopFollowsLifecycle, LifecycleInvariant, PTL
  <1>2. QED
    BY <1>1, ThreadsFollowInit, ThreadsFollowStep, PTL DEF DesktopSpec

(* ... and its threads as EncoderPipeline does, stopped in a teardown.     *)
THEOREM DesktopFollowsPipeline == DesktopSpec => PipelineSpec
  BY ThreadsAlwaysFollow, PipelineProjection, PTL DEF DesktopSpec, DesktopInit, PipelineSpec

(* CreationInv holds along every behaviour of the composition.             *)
LEMMA CreationInvariant == DesktopSpec => []CreationInv
  <1>1. CreationInv /\ [DesktopNext]_desktopVars => CreationInv'
    BY CreationProjection, CreationInvStep
  <1>2. QED
    BY <1>1, CreationInvInit, PTL DEF DesktopSpec, DesktopInit

(* Every variable keeps its type.                                          *)
THEOREM DesktopTypeCorrect == DesktopSpec => []DesktopTypeOK
  <1>1. LifecycleInv => TypeOK
    BY DEF LifecycleInv
  <1>2. WatcherInv => WatcherTypeOK
    BY DEF WatcherInv
  <1>3. PipelineInv => PipelineTypeOK
    BY DEF PipelineInv
  <1>4. CreationInv => CreationTypeOK
    BY DEF CreationInv
  <1>5. DesktopInit => HappeningsOK
    BY OneSessionAssumption DEF DesktopInit, HappeningsOK
  <1>6. DesktopSpec => []HappeningsOK
    BY <1>5, HappeningsCounted, PTL DEF DesktopSpec
  <1>7. QED
    BY <1>1, <1>2, <1>3, <1>4, <1>6, ThreadsAlwaysFollow, DesktopFollowsWatcher, WatcherInvariant,
       DesktopFollowsPipeline, PipelineInvariant, CreationInvariant, PTL
       DEF DesktopTypeOK, HappeningsOK

(* Once create_session() has returned the slot for its answer is empty.    *)
THEOREM SlotAlwaysDisarmed == DesktopSpec => []SlotDisarmed
  <1>1. CreationInv => SlotDisarmed
    BY DEF CreationInv, SlotInv, SlotDisarmed
  <1>2. QED
    BY <1>1, CreationInvariant, PTL

(* What is proved of the parts holds of the desktop session: the slot and  *)
(* what a session holds, the grace window, the media time.                 *)
THEOREM DesktopKeepsItsParts ==
  DesktopSpec => /\ [](SlotHoldsTheOneUp /\ NothingOrphaned)
                 /\ [](OutageBounded /\ GraceKept)
                 /\ []TimelineKept /\ EncodedAtItsSize
                 /\ OneTeardown
  <1>1. LifecycleInv => SlotHoldsTheOneUp /\ NothingOrphaned
    BY InvNothingOrphaned DEF LifecycleInv
  <1>2. DesktopSpec => [](SlotHoldsTheOneUp /\ NothingOrphaned)
    BY <1>1, ThreadsAlwaysFollow, PTL
  <1>3. DesktopSpec => [](OutageBounded /\ GraceKept)
    BY DesktopFollowsWatcher, OutageAlwaysBounded, GraceAlwaysKept, PTL
  <1>4. DesktopSpec => []TimelineKept /\ EncodedAtItsSize
    BY DesktopFollowsPipeline, TimelineAlwaysKept, AlwaysEncodedAtItsSize, PTL
  <1>5. DesktopSpec => OneTeardown
    BY DesktopFollowsLifecycle, LifecycleOnce, PTL
  <1>6. QED
    BY <1>2, <1>3, <1>4, <1>5, PTL

=============================================================================
