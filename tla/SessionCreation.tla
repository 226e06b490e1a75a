--------------------------- MODULE SessionCreation ---------------------------
(***************************************************************************)
(* How the desktop host gets its session from the server and lets it go    *)
(* again (signaling.rs): create_session() with its one-shot slot and its   *)
(* time limit, the two pumps of the socket, and the channel to them that   *)
(* ends with its last sender.  The server's end is as server.js has it.    *)
(***************************************************************************)
EXTENDS Naturals, Sequences

CONSTANTS
    ClientCap,  \* capacity of the channel to the outbound pump
    WireCap     \* frames the socket takes before a write waits

ASSUME CreationAssumption == {ClientCap, WireCap} \subseteq Nat \ {0}

VARIABLES
    createCall,     \* where create_session() is, see CallStates
    createdSlot,    \* a sender is in created_slot
    oneshot,        \* what was sent to the waiting call
    clientTx,       \* the client still has its sender (tx is Some)
    clientCh,       \* messages for the outbound pump
    pumpOut,        \* the outbound pump runs
    pumpIn,         \* the inbound pump runs
    connected,      \* the socket is open
    up,             \* frames to the server
    down,           \* frames from it
    serverSession   \* the session at the server

creationVars == <<createCall, createdSlot, oneshot, clientTx, clientCh, pumpOut, pumpIn,
                  connected, up, down, serverSession>>
callVars == <<createCall, createdSlot, oneshot>>
wireVars == <<connected, up, down, serverSession>>

CallStates == {"none", "armed", "waiting", "expired", "created", "failed"}
Answers == {"pin", "error"}
Requests == {"create", "msg", "end"}

CreationTypeOK ==
    /\ createCall \in CallStates
    /\ oneshot \in {"empty"} \cup Answers
    /\ {createdSlot, clientTx, pumpOut, pumpIn, connected} \subseteq BOOLEAN
    /\ clientCh \in Seq(Requests) /\ Len(clientCh) <= ClientCap
    /\ up \in Seq(Requests \cup {"close"}) /\ Len(up) <= WireCap
    /\ down \in Seq(Answers)
    /\ serverSession \in {"none", "open", "ended"}

CreationInit ==
    /\ createCall = "none" /\ createdSlot = FALSE /\ oneshot = "empty"
    /\ clientTx = FALSE /\ clientCh = <<>>
    /\ pumpOut = FALSE /\ pumpIn = FALSE
    /\ connected = FALSE /\ up = <<>> /\ down = <<>> /\ serverSession = "none"

-----------------------------------------------------------------------------
(* The client. *)

Connect ==
    /\ clientTx' = TRUE /\ pumpOut' = TRUE /\ pumpIn' = TRUE /\ connected' = TRUE
    /\ UNCHANGED <<callVars, clientCh, up, down, serverSession>>

(* send().await: waits for room, fails once the pump has gone. *)
CanSend == pumpOut /\ Len(clientCh) < ClientCap
Send(m) == CanSend /\ clientCh' = Append(clientCh, m)
SendFails == ~pumpOut /\ UNCHANGED clientCh

(* create_session(): the slot is armed before anything is sent. *)
Arm ==
    /\ clientTx /\ createCall = "none"
    /\ createCall' = "armed" /\ createdSlot' = TRUE
    /\ UNCHANGED <<oneshot, clientTx, clientCh, pumpOut, pumpIn, wireVars>>

(* With an error the client goes out of scope, its sender with it. *)
Fails == createCall' = "failed" /\ clientTx' = FALSE

(* Faulty variant: the slot stays armed when the request cannot be sent. *)
SendCreateStaysArmed ==
    /\ createCall = "armed"
    /\ \/ Send("create") /\ createCall' = "waiting" /\ UNCHANGED clientTx
       \/ SendFails /\ Fails
    /\ UNCHANGED <<createdSlot, oneshot, pumpOut, pumpIn, wireVars>>

SendCreate ==
    /\ createCall = "armed"
    /\ \/ Send("create") /\ createCall' = "waiting" /\ UNCHANGED <<createdSlot, clientTx>>
       \/ SendFails /\ createdSlot' = FALSE /\ Fails
    /\ UNCHANGED <<oneshot, pumpOut, pumpIn, wireVars>>

Answered ==
    /\ createCall = "waiting" /\ oneshot # "empty"
    /\ \/ oneshot = "pin" /\ createCall' = "created" /\ UNCHANGED clientTx
       \/ oneshot = "error" /\ Fails
    /\ UNCHANGED <<createdSlot, oneshot, clientCh, pumpOut, pumpIn, wireVars>>

(* Faulty variant: no time limit; the wait is to end with the pump, but    *)
(* the sender of the one-shot is in the client's own slot.                 *)
ExpiresWithSender ==
    /\ createCall = "waiting" /\ oneshot = "empty"
    /\ ~pumpIn /\ ~createdSlot
    /\ createCall' = "expired"
    /\ UNCHANGED <<createdSlot, oneshot, clientTx, clientCh, pumpOut, pumpIn, wireVars>>

(* Ten seconds without an answer; the receiver is dropped. *)
Expires ==
    /\ createCall = "waiting" /\ oneshot = "empty"
    /\ createCall' = "expired"
    /\ UNCHANGED <<createdSlot, oneshot, clientTx, clientCh, pumpOut, pumpIn, wireVars>>

(* Faulty variant: the client outlives its failed call. *)
DisarmKeepsClient ==
    /\ createCall = "expired"
    /\ createdSlot' = FALSE /\ createCall' = "failed"
    /\ UNCHANGED <<oneshot, clientTx, clientCh, pumpOut, pumpIn, wireVars>>

(* The call disarms the slot, if an answer has not just done so. *)
Disarm ==
    /\ createCall = "expired"
    /\ createdSlot' = FALSE /\ Fails
    /\ UNCHANGED <<oneshot, clientCh, pumpOut, pumpIn, wireVars>>

CreateStep == Arm \/ SendCreate \/ Answered \/ Expires \/ Disarm

(* A task of the session sends something to the other end. *)
TaskSends ==
    /\ Send("msg")
    /\ UNCHANGED <<callVars, clientTx, pumpOut, pumpIn, wireVars>>

(* Faulty variant: close() forgets the client's own sender. *)
EndSessionKeepsSender ==
    /\ Send("end") \/ SendFails
    /\ UNCHANGED <<callVars, clientTx, pumpOut, pumpIn, wireVars>>

(* The end-session of a teardown, sent or not, and close(). *)
EndSession ==
    /\ Send("end") \/ SendFails
    /\ clientTx' = FALSE
    /\ UNCHANGED <<callVars, pumpOut, pumpIn, wireVars>>

-----------------------------------------------------------------------------
(* The pumps. *)

PumpWrites ==
    /\ pumpOut /\ connected /\ clientCh # <<>>
    /\ Len(up) < WireCap
    /\ up' = Append(up, Head(clientCh)) /\ clientCh' = Tail(clientCh)
    /\ UNCHANGED <<callVars, clientTx, pumpOut, pumpIn, connected, down, serverSession>>

(* A write or the keepalive ping fails: what was queued is lost. *)
PumpFails ==
    /\ pumpOut /\ ~connected
    /\ pumpOut' = FALSE /\ clientCh' = <<>>
    /\ UNCHANGED <<callVars, clientTx, pumpIn, wireVars>>

(* The last sender is dropped; what is queued has been written by then. *)
PumpEnds(others) ==
    /\ pumpOut /\ connected /\ clientCh = <<>>
    /\ ~clientTx /\ ~others
    /\ Len(up) < WireCap
    /\ pumpOut' = FALSE /\ up' = Append(up, "close")
    /\ UNCHANGED <<callVars, clientTx, clientCh, pumpIn, connected, down, serverSession>>

(* An answer takes the sender out of the slot, if there is one; then it    *)
(* goes to the events, and the pump ends when nobody takes these.          *)
InboundReads(taker) ==
    /\ pumpIn /\ down # <<>>
    /\ down' = Tail(down)
    /\ createdSlot' = FALSE
    /\ oneshot' = IF createdSlot /\ createCall # "expired" THEN Head(down) ELSE oneshot
    /\ pumpIn' = taker
    /\ UNCHANGED <<createCall, clientTx, clientCh, pumpOut, connected, up, serverSession>>

InboundEnds ==
    /\ pumpIn /\ ~connected /\ down = <<>>
    /\ pumpIn' = FALSE
    /\ UNCHANGED <<callVars, clientTx, clientCh, pumpOut, wireVars>>

-----------------------------------------------------------------------------
(* The server and the network. *)

ServerEnds == serverSession' = IF serverSession = "open" THEN "ended" ELSE serverSession

ServerHandles ==
    /\ connected /\ up # <<>>
    /\ LET m == Head(up) IN
         \/ /\ m = "create"
            /\ \/ serverSession' = "open" /\ down' = Append(down, "pin")
               \/ UNCHANGED serverSession /\ down' = Append(down, "error")
            /\ UNCHANGED connected
         \/ m = "msg" /\ UNCHANGED <<serverSession, down, connected>>
         \/ m = "end" /\ ServerEnds /\ UNCHANGED <<down, connected>>
         \/ m = "close" /\ ServerEnds /\ connected' = FALSE /\ UNCHANGED down
    /\ up' = Tail(up)
    /\ UNCHANGED <<callVars, clientTx, clientCh, pumpOut, pumpIn>>

SocketBreaks ==
    /\ connected
    /\ connected' = FALSE /\ up' = <<>> /\ down' = <<>>
    /\ UNCHANGED <<callVars, clientTx, clientCh, pumpOut, pumpIn, serverSession>>

(* shutdown(): every client is told, then its socket is closed. *)
ServerShutsDown ==
    /\ connected
    /\ connected' = FALSE /\ up' = <<>> /\ down' = Append(down, "error")
    /\ ServerEnds
    /\ UNCHANGED <<callVars, clientTx, clientCh, pumpOut, pumpIn>>

(* The server finds the socket closed, or its keepalive unanswered. *)
ServerNotices ==
    /\ ~connected /\ serverSession = "open"
    /\ serverSession' = "ended"
    /\ UNCHANGED <<callVars, clientTx, clientCh, pumpOut, pumpIn, connected, up, down>>

-----------------------------------------------------------------------------

(* Once create_session() has returned, by whatever way, no answer that     *)
(* comes late or unasked finds a slot to fill.                             *)
SlotDisarmed == createCall \in {"none", "created", "failed"} => ~createdSlot

(* A start() that failed for want of a PIN leaves no session open at the   *)
(* server, not even when the answer was under way as the time ran out.     *)
FailedLeavesNoSession == createCall = "failed" ~> [](serverSession # "open")
=============================================================================
