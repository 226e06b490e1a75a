--------------------------- MODULE EncoderPipeline ---------------------------
(***************************************************************************)
(* From the screen to the track (capture.rs, codec.rs and the encoder pair *)
(* of session.rs): an OS thread that captures, a blocking thread that      *)
(* encodes and an async task that pushes packets, with a bounded channel   *)
(* between each two.  Encoding a frame touches nothing shared, so it is    *)
(* one step with the receive before it.                                    *)
(*                                                                         *)
(* A frame is its time (its number) and one of its two dimensions; what is *)
(* in a packet is left out.                                                *)
(***************************************************************************)
EXTENDS Naturals, Sequences

CONSTANTS
    Sizes,        \* sizes the capture delivers
    InitialSize,  \* size the encoder is created with
    FrameCap,     \* capacity of the channel from capture to encoder
    PacketCap,    \* capacity of the channel from encoder to forwarder
    MaxFrames     \* bound of the model: frames delivered

ASSUME PipelineAssumption ==
    /\ Sizes \subseteq Nat
    /\ InitialSize \in Nat \ {0} /\ InitialSize % 2 = 0
    /\ {FrameCap, PacketCap} \subseteq Nat \ {0}
    /\ MaxFrames \in Nat

VARIABLES
    stopping,   \* the stop flag shared with the capture thread
    capture,    \* the capture thread: "off", "running" or "ended"
    captured,   \* frames delivered so far: the time of the last one
    frameCh,    \* frames on their way to the encoder
    encoder,    \* the encoder thread: "off", "recv", "send", "tail", "done"
    encSize,    \* size of the libvpx encoder, 0 while there is none
    curSize,    \* cur_w, cur_h
    lastPts,    \* last_pts, 0 for None
    packets,    \* packets on their way to the forwarder
    forwarder,  \* the forwarder task: "off", "recv", "push" or "done"
    firstPts,   \* time of the first packet (history)
    mediaTime,  \* durations given to the packets after it (history)
    panicked    \* the encoder thread panicked

captureVars == <<stopping, capture, captured>>
timeVars == <<lastPts, firstPts, mediaTime>>
encoderVars == <<encoder, encSize, curSize, timeVars, panicked>>
pipelineVars == <<captureVars, frameCh, encoderVars, packets, forwarder>>

Frames == [pts : 1..MaxFrames, size : Sizes]

PipelineTypeOK ==
    /\ {stopping, panicked} \subseteq BOOLEAN
    /\ capture \in {"off", "running", "ended"}
    /\ {captured, lastPts, firstPts, mediaTime} \subseteq 0..MaxFrames
    /\ frameCh \in Seq(Frames) /\ Len(frameCh) <= FrameCap
    /\ encoder \in {"off", "recv", "send", "tail", "done"}
    /\ {encSize, curSize} \subseteq Nat
    /\ packets \in 0..PacketCap
    /\ forwarder \in {"off", "recv", "push", "done"}

PipelineInit ==
    /\ stopping = FALSE /\ capture = "off" /\ captured = 0 /\ frameCh = <<>>
    /\ encoder = "off" /\ encSize = 0 /\ curSize = InitialSize
    /\ lastPts = 0 /\ firstPts = 0 /\ mediaTime = 0 /\ panicked = FALSE
    /\ packets = 0 /\ forwarder = "off"

-----------------------------------------------------------------------------
(* Capture. *)

StartCapture ==
    /\ capture' = "running"
    /\ UNCHANGED <<stopping, captured, frameCh, encoderVars, packets, forwarder>>

(* Faulty variant: the channel has no bound. *)
TrySendAlways(f) ==
    \/ encoder # "done" /\ frameCh' = Append(frameCh, f) /\ UNCHANGED capture
    \/ encoder = "done" /\ capture' = "ended" /\ UNCHANGED frameCh

(* try_send: a frame for which there is no room is dropped; without a      *)
(* receiver the capture stops.                                             *)
TrySend(f) ==
    \/ /\ encoder # "done" /\ Len(frameCh) < FrameCap
       /\ frameCh' = Append(frameCh, f) /\ UNCHANGED capture
    \/ encoder # "done" /\ Len(frameCh) = FrameCap /\ UNCHANGED <<frameCh, capture>>
    \/ encoder = "done" /\ capture' = "ended" /\ UNCHANGED frameCh

(* on_frame_arrived *)
FrameArrives ==
    /\ capture = "running" /\ ~stopping
    /\ captured < MaxFrames
    /\ captured' = captured + 1
    /\ \E size \in Sizes : TrySend([pts |-> captured', size |-> size])
    /\ UNCHANGED <<stopping, encoderVars, packets, forwarder>>

CaptureEnds ==
    /\ capture = "running" /\ capture' = "ended"
    /\ UNCHANGED <<stopping, captured, frameCh, encoderVars, packets, forwarder>>

(* Faulty variant: the capture stops only for want of a receiver. *)
CaptureStopsUnheard == stopping /\ encoder = "done" /\ CaptureEnds

(* The frame after the flag was set: the handler sees the flag and stops. *)
CaptureStops == stopping /\ CaptureEnds

(* A frame without a buffer, or the session closed by the system. *)
CaptureFails == ~stopping /\ CaptureEnds

(* Handle::stop sets the flag; the join that follows waits for the thread. *)
StopFlag ==
    /\ capture # "off" /\ ~stopping /\ stopping' = TRUE
    /\ UNCHANGED <<capture, captured, frameCh, encoderVars, packets, forwarder>>
CaptureJoined == capture # "off" => stopping /\ capture = "ended"

-----------------------------------------------------------------------------
(* The encoder thread. *)

(* spawn_encoder_pair; the first libvpx encoder may fail, the thread then  *)
(* tries again with each frame.                                            *)
StartEncoderPair ==
    /\ encoder' = "recv" /\ forwarder' = "recv"
    /\ encSize' \in {0, InitialSize}
    /\ UNCHANGED <<captureVars, frameCh, curSize, timeVars, packets, panicked>>

(* libvpx takes even sizes only, and none that is zero. *)
Even(v, fallback) == IF v = 0 THEN fallback ELSE v - (v % 2)

(* The receiver and the locals are dropped with the thread. *)
EncoderDone ==
    /\ encoder' = "done" /\ frameCh' = <<>>
    /\ encSize' = 0 /\ curSize' = InitialSize
    /\ lastPts' = 0 /\ firstPts' = 0 /\ mediaTime' = 0

(* Faulty variant: last_pts is updated with each frame, packet or none. *)
SkipsFrameTimed(f) == encoder' = "recv" /\ lastPts' = f.pts /\ UNCHANGED <<firstPts, mediaTime>>

(* encode() yields nothing: an empty packet or an error... *)
SkipsFrame(f) == encoder' = "recv" /\ UNCHANGED timeVars

(* ... or a packet, whose duration is the time since the last packet. *)
MakesPacket(f) ==
    /\ encoder' = "send"
    /\ lastPts' = f.pts
    /\ firstPts' = IF lastPts = 0 THEN f.pts ELSE firstPts
    /\ mediaTime' = IF lastPts = 0 THEN 0 ELSE mediaTime + (f.pts - lastPts)

(* Vp9Encoder::new refuses other sizes: one pixel rounds to none. *)
Acceptable(size) == size # 0 /\ size % 2 = 0

(* The frame fits the encoder, or a new one of its size is made. *)
Fits(size) == size = curSize /\ encSize # 0
Prepares(size) ==
    \/ Fits(size) /\ UNCHANGED <<encSize, curSize>>
    \/ ~Fits(size) /\ Acceptable(size) /\ encSize' = size /\ curSize' = size

(* Faulty variant: cur_w and cur_h are set before the new encoder is made, *)
(* which fails with the old one still in place.                            *)
ReinitFailsLate(size) == ~Fits(size) /\ curSize' = size /\ UNCHANGED encSize

(* The old encoder is dropped first; no new one: the frame is skipped. *)
ReinitFails(size) == ~Fits(size) /\ encSize' = 0 /\ UNCHANGED curSize

EncodeFrame ==
    /\ encoder = "recv" /\ frameCh # <<>>
    /\ LET f == Head(frameCh)
           size == Even(f.size, curSize)
       IN \/ /\ Prepares(size)
             /\ SkipsFrame(f) \/ MakesPacket(f)
             /\ frameCh' = Tail(frameCh)
          \/ /\ ReinitFails(size)
             /\ frameCh' = Tail(frameCh)
             /\ UNCHANGED <<encoder, timeVars>>
    /\ UNCHANGED <<captureVars, packets, forwarder, panicked>>

(* A panic while a frame is encoded is caught and logged. *)
EncoderPanics ==
    /\ encoder = "recv" /\ frameCh # <<>>
    /\ EncoderDone /\ panicked' = TRUE
    /\ UNCHANGED <<captureVars, packets, forwarder>>

(* blocking_send: waits for room... *)
EncoderSends ==
    /\ encoder \in {"send", "tail"} /\ forwarder # "done"
    /\ packets < PacketCap /\ packets' = packets + 1
    /\ \/ encoder = "send" /\ encoder' = "recv"
          /\ UNCHANGED <<frameCh, encSize, curSize, timeVars>>
       \/ encoder = "tail" /\ EncoderDone
    /\ UNCHANGED <<captureVars, forwarder, panicked>>

(* ... and fails without a receiver; what finish() yields then goes nowhere. *)
EncoderBreaks ==
    /\ encoder \in {"send", "tail"} /\ forwarder = "done"
    /\ EncoderDone
    /\ UNCHANGED <<captureVars, packets, forwarder, panicked>>

(* No more frames, the capture is over: finish() may yield a last packet. *)
EncoderDrains ==
    /\ encoder = "recv" /\ frameCh = <<>> /\ capture = "ended"
    /\ \/ encSize # 0 /\ encoder' = "tail"
          /\ UNCHANGED <<frameCh, encSize, curSize, timeVars>>
       \/ EncoderDone
    /\ UNCHANGED <<captureVars, packets, forwarder, panicked>>

EncoderStep == EncodeFrame \/ EncoderPanics \/ EncoderSends \/ EncoderBreaks \/ EncoderDrains

-----------------------------------------------------------------------------
(* The forwarder task. *)

ForwarderTo(to) == forwarder' = to /\ UNCHANGED <<captureVars, frameCh, encoderVars>>

ForwarderTakes == /\ forwarder = "recv" /\ packets > 0
                  /\ packets' = packets - 1
                  /\ ForwarderTo("push")

(* push_frame returns, with an error or without. *)
ForwarderPushed == forwarder = "push" /\ ForwarderTo("recv") /\ UNCHANGED packets

ForwarderEnds == /\ forwarder = "recv" /\ packets = 0 /\ encoder = "done"
                 /\ ForwarderTo("done") /\ UNCHANGED packets

(* abort_after: the forwarder did not end in time. *)
ForwarderAborted == /\ forwarder \in {"recv", "push"}
                    /\ packets' = 0 /\ ForwarderTo("done")

-----------------------------------------------------------------------------

PipelineStep == FrameArrives \/ CaptureStops \/ CaptureFails \/ EncoderStep
                \/ ForwarderTakes \/ ForwarderPushed \/ ForwarderEnds

(* The pipeline alone, stopped at any time. *)
PipelineNext ==
    \/ capture = "off" /\ StartCapture
    \/ capture # "off" /\ encoder = "off" /\ StartEncoderPair
    \/ PipelineStep
    \/ StopFlag
    \/ capture # "off" /\ CaptureJoined /\ ForwarderAborted

PipelineSpec == PipelineInit /\ [][PipelineNext]_pipelineVars

(* A frame is only ever given to an encoder of its own (even) size, across *)
(* changes of resolution, failed re-initialisations and dropped frames:    *)
(* encode() would read the rows at the wrong length.                       *)
EncodedAtItsSize ==
    [][encoder = "recv" /\ encoder' = "send" =>
         encSize' = Even(Head(frameCh).size, curSize)]_pipelineVars

(* The durations add up to the time that passed, whatever is dropped for   *)
(* back-pressure or yields no packet: the track does not drift.            *)
TimelineKept == lastPts # 0 => mediaTime = lastPts - firstPts
=============================================================================
