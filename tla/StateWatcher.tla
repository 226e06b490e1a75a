---------------------------- MODULE StateWatcher ----------------------------
(***************************************************************************)
(* The connection-state watcher of a desktop session (spawn_state_watcher  *)
(* in session.rs): it reads the states of the peer connection from a       *)
(* channel and tells the supervisor when the session is over.  A lost      *)
(* connection gets DISCONNECT_GRACE to recover.                            *)
(*                                                                         *)
(* Time passes in ticks and only while the watcher has nothing to do: the  *)
(* runtime is prompt on the scale of the grace window.                     *)
(***************************************************************************)
EXTENDS Naturals, Sequences

CONSTANTS
    Grace,      \* DISCONNECT_GRACE in ticks
    StateCap    \* capacity of the state channel

ASSUME WatcherAssumption == {Grace, StateCap} \subseteq Nat \ {0}

VARIABLES
    peer,       \* state of the peer connection, "absent" until it is made
    stateRx,    \* channel from on_peer_connection_state_change
    watcher,    \* "absent", "recv" (outer loop), "grace" or "done"
    left,       \* ticks to the deadline while in "grace"
    reason,     \* what the watcher put into the shutdown channel, or "none"
    lost,       \* disconnected, and not connected since (history)
    outage,     \* length of the current or the last outage (history)
    longest     \* length of the longest (history)

outageVars == <<lost, outage, longest>>
watcherVars == <<peer, stateRx, watcher, left, reason, outageVars>>

ConnState == {"new", "connecting", "connected", "disconnected", "failed", "closed"}
Reasons == {"ice_failed", "ice_closed", "ice_disconnected_terminal",
            "ice_disconnected_timeout"}

WatcherTypeOK ==
    /\ peer \in ConnState \cup {"absent"}
    /\ stateRx \in Seq(ConnState) /\ Len(stateRx) <= StateCap
    /\ watcher \in {"absent", "recv", "grace", "done"}
    /\ left \in 0..Grace
    /\ reason \in Reasons \cup {"none"}
    /\ lost \in BOOLEAN
    /\ {outage, longest} \subseteq 0..(Grace + 1)

WatcherInit ==
    /\ peer = "absent" /\ stateRx = <<>> /\ watcher = "absent"
    /\ left = 0 /\ reason = "none"
    /\ lost = FALSE /\ outage = 0 /\ longest = 0

-----------------------------------------------------------------------------
(* The peer connection. *)

NewPeer == /\ peer = "absent" /\ peer' = "new"
           /\ UNCHANGED <<stateRx, watcher, left, reason, outageVars>>

(* What the connection goes through by itself; it closes when the other    *)
(* end does, or by close().                                                *)
Transitions ==
    {<<"new", "connecting">>, <<"connecting", "connected">>,
     <<"connecting", "disconnected">>, <<"connecting", "failed">>,
     <<"connected", "disconnected">>, <<"disconnected", "connecting">>,
     <<"disconnected", "connected">>, <<"disconnected", "failed">>}
    \cup {<<s, "closed">> : s \in ConnState \ {"closed"}}

(* The callback forwards the state; it waits for room, and sends to nobody *)
(* once the watcher has dropped the receiver.                              *)
Becomes(s) ==
    /\ peer' = s
    /\ \/ watcher = "done" /\ UNCHANGED stateRx
       \/ watcher # "done" /\ Len(stateRx) < StateCap /\ stateRx' = Append(stateRx, s)
    /\ lost' = (s # "connected" /\ (lost \/ s = "disconnected"))
    /\ outage' = IF s = "disconnected" /\ ~lost THEN 0 ELSE outage
    /\ UNCHANGED <<watcher, left, reason, longest>>

(* Its states matter while the watcher is there to see them. *)
PeerChanges == watcher \in {"recv", "grace"} /\ \E s \in ConnState :
                 <<peer, s>> \in Transitions /\ Becomes(s)

(* pc.close(); closing again does nothing. *)
ClosePeer == IF peer \in {"absent", "closed"} THEN UNCHANGED watcherVars ELSE Becomes("closed")

-----------------------------------------------------------------------------
(* The watcher. *)

SpawnWatcher == /\ watcher = "absent" /\ watcher' = "recv"
                /\ UNCHANGED <<peer, stateRx, left, reason, outageVars>>

Signal(r) == watcher' = "done" /\ reason' = r /\ stateRx' = <<>>
Goes(w) == watcher' = w /\ stateRx' = Tail(stateRx) /\ UNCHANGED reason

Terminal == {"failed", "closed"}
TerminalReason(s) == IF s = "failed" THEN "ice_failed" ELSE "ice_closed"

(* The outer loop takes a state: over, lost, or nothing to do. *)
WatcherRecv ==
    /\ watcher = "recv" /\ stateRx # <<>>
    /\ LET s == Head(stateRx) IN
         \/ s \in Terminal /\ Signal(TerminalReason(s)) /\ UNCHANGED left
         \/ s = "disconnected" /\ Goes("grace") /\ left' = Grace
         \/ s \notin Terminal \cup {"disconnected"} /\ Goes("recv") /\ UNCHANGED left
    /\ UNCHANGED <<peer, outageVars>>

(* Faulty variant: each state that comes in starts the window anew. *)
StillLostAnew == Goes("grace") /\ left' = Grace

(* Neither recovered nor over: wait on, unless the window has just closed. *)
StillLost ==
    \/ left > 0 /\ Goes("grace") /\ UNCHANGED left
    \/ left = 0 /\ Signal("ice_disconnected_timeout") /\ UNCHANGED left

(* A state within the window.  timeout() looks at the channel first, so a  *)
(* state that is there at the deadline still counts.                       *)
GraceRecv ==
    /\ watcher = "grace" /\ stateRx # <<>>
    /\ LET s == Head(stateRx) IN
         \/ s = "connected" /\ Goes("recv") /\ UNCHANGED left
         \/ s \in Terminal /\ Signal("ice_disconnected_terminal") /\ UNCHANGED left
         \/ s \notin Terminal \cup {"connected"} /\ StillLost
    /\ UNCHANGED <<peer, outageVars>>

(* Faulty variant: the window closes at the tick before its last. *)
DeadlinePassedEarly == left <= 1
DeadlinePassed == left = 0

GraceExpires ==
    /\ watcher = "grace" /\ stateRx = <<>>
    /\ DeadlinePassed
    /\ Signal("ice_disconnected_timeout")
    /\ UNCHANGED <<peer, left, outageVars>>

(* abort_after: the watcher did not end in time. *)
WatcherAborted == /\ watcher \in {"recv", "grace"}
                  /\ watcher' = "done" /\ stateRx' = <<>>
                  /\ UNCHANGED <<peer, left, reason, outageVars>>

WatcherStep == WatcherRecv \/ GraceRecv \/ GraceExpires

Idle == /\ watcher \in {"recv", "grace"} /\ stateRx = <<>>
        /\ watcher = "grace" => left > 0

Tick ==
    /\ Idle
    /\ lost \/ watcher = "grace"
    /\ outage <= Grace
    /\ left' = IF watcher = "grace" THEN left - 1 ELSE left
    /\ outage' = IF lost THEN outage + 1 ELSE outage
    /\ longest' = IF outage' > longest THEN outage' ELSE longest
    /\ UNCHANGED <<peer, stateRx, watcher, reason, lost>>

-----------------------------------------------------------------------------
(* The watcher with a peer connection and nothing else. *)

WatcherNext ==
    \/ NewPeer \/ PeerChanges \/ ClosePeer
    \/ SpawnWatcher \/ WatcherStep \/ WatcherAborted
    \/ Tick

WatcherSpec == WatcherInit /\ [][WatcherNext]_watcherVars

(* No outage is borne past the grace window, whatever states come in       *)
(* meanwhile and however often it is lost: one deadline for each outage.   *)
OutageBounded == watcher \in {"recv", "grace"} => longest <= Grace

(* And none is given up before it: the timeout is reported only if the     *)
(* connection stayed away for a whole window.                              *)
GraceKept == reason = "ice_disconnected_timeout" => longest >= Grace
=============================================================================
