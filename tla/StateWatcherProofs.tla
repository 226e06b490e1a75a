------------------------- MODULE StateWatcherProofs -------------------------
(***************************************************************************)
(* Proofs about StateWatcher: the grace window, for every length of the    *)
(* window and every capacity of the state channel.                         *)
(*                                                                         *)
(* The watcher learns of the connection's state through the channel, so    *)
(* the invariant says where in the channel an outage or a recovery is that *)
(* the watcher has not read.                                               *)
(***************************************************************************)
EXTENDS StateWatcher, TLAPS

Alive == watcher \in {"recv", "grace"}

Holds(q, s) == \E i \in 1..Len(q) : q[i] = s

(* The present outage is timed by the window set for it...                 *)
Tracked ==
    /\ watcher = "grace" /\ left + outage = Grace
    /\ ~Holds(stateRx, "connected")

(* ... or its beginning is still to be read, and before it, if the window  *)
(* is that of an earlier outage, the recovery that ends that one.          *)
Unread ==
    /\ outage = 0
    /\ \E i \in 1..Len(stateRx) :
         /\ stateRx[i] = "disconnected"
         /\ \A j \in i..Len(stateRx) : stateRx[j] # "connected"
         /\ watcher = "grace" => \E k \in 1..(i - 1) : stateRx[k] = "connected"

(* The connection is not lost: each loss that is still to be read is       *)
(* followed by a recovery, and so is the one that the window is for.       *)
Recovered ==
    /\ \A i \in 1..Len(stateRx) : stateRx[i] = "disconnected" =>
         \E k \in (i + 1)..Len(stateRx) : stateRx[k] = "connected"
    /\ watcher = "grace" => Holds(stateRx, "connected")

(* Before the watcher is there, the connection can only be closed.         *)
BeforeSpawn == ~lost /\ longest = 0 /\ ~Holds(stateRx, "disconnected")

(* The window is never shorter than the outage it is for, nor longer.      *)
WindowMeasured ==
    /\ watcher = "grace" => longest + left >= Grace
    /\ Alive => longest <= Grace
    /\ reason = "ice_disconnected_timeout" => longest >= Grace

WatcherInv ==
    /\ WatcherTypeOK
    /\ watcher = "absent" => BeforeSpawn
    /\ Alive /\ lost => Tracked \/ Unread
    /\ Alive /\ ~lost => Recovered
    /\ WindowMeasured

-----------------------------------------------------------------------------
(* The channel. *)

(* The empty state channel.                                                *)
LEMMA EmptyFacts ==
  /\ <<>> \in Seq(ConnState) /\ Len(<<>>) = 0
  /\ \A s : ~Holds(<<>>, s)
  BY DEF Holds

(* What is held before and after a state is taken, or put in.              *)
LEMMA HoldsTail ==
  ASSUME NEW q \in Seq(ConnState), q # <<>>, NEW s
  PROVE  Holds(q, s) <=> Head(q) = s \/ Holds(Tail(q), s)
  <1>1. ASSUME Holds(Tail(q), s) PROVE Holds(q, s)
    <2>1. PICK i \in 1..Len(Tail(q)) : Tail(q)[i] = s
      BY <1>1 DEF Holds
    <2>2. i + 1 \in 1..Len(q) /\ q[i + 1] = s
      BY <2>1
    <2>3. QED
      BY <2>2 DEF Holds
  <1>2. ASSUME Holds(q, s), Head(q) # s PROVE Holds(Tail(q), s)
    <2>1. PICK i \in 1..Len(q) : q[i] = s
      BY <1>2 DEF Holds
    <2>2. i - 1 \in 1..Len(Tail(q)) /\ Tail(q)[i - 1] = s
      BY <1>2, <2>1
    <2>3. QED
      BY <2>2 DEF Holds
  <1>3. Head(q) = s => Holds(q, s)
    BY DEF Holds
  <1>4. QED
    BY <1>1, <1>2, <1>3

(* What the state channel holds after one more state.                      *)
LEMMA HoldsAppend ==
  ASSUME NEW q \in Seq(ConnState), NEW s \in ConnState, NEW t
  PROVE  Holds(Append(q, s), t) <=> Holds(q, t) \/ s = t
  BY DEF Holds

-----------------------------------------------------------------------------
(* The invariant. *)

(* WatcherInv holds before the watcher runs.                               *)
LEMMA WatcherInvInit == WatcherInit => WatcherInv
  <1> SUFFICES ASSUME WatcherInit PROVE WatcherInv
    OBVIOUS
  <1>1. WatcherTypeOK
    <2>1. Grace \in Nat /\ StateCap \in Nat
      BY WatcherAssumption
    <2>2. stateRx \in Seq(ConnState) /\ Len(stateRx) <= StateCap
      BY <2>1 DEF WatcherInit
    <2>3. /\ peer = "absent" /\ watcher = "absent" /\ left = 0
          /\ reason = "none" /\ lost = FALSE /\ outage = 0 /\ longest = 0
      BY DEF WatcherInit
    <2>4. left \in 0..Grace /\ {outage, longest} \subseteq 0..(Grace + 1)
      BY <2>1, <2>3
    <2>5. QED
      BY <2>2, <2>3, <2>4 DEF WatcherTypeOK
  <1>2. watcher = "absent" /\ BeforeSpawn /\ reason = "none"
    BY EmptyFacts DEF WatcherInit, BeforeSpawn
  <1>3. QED
    BY <1>1, <1>2 DEF WatcherInv, Alive, WindowMeasured

(* A state of the connection is put into the channel.                      *)
LEMMA BecomesKeepsInv ==
  ASSUME WatcherInv, NEW s \in ConnState, Becomes(s), Alive
  PROVE  WatcherInv'
  <1> USE DEF WatcherInv, WatcherTypeOK
  <1>1. /\ stateRx' = Append(stateRx, s) /\ Len(stateRx) < StateCap
        /\ UNCHANGED <<watcher, left, reason, longest>>
        /\ peer' = s
    BY DEF Becomes, Alive
  <1>2. WatcherTypeOK'
    BY <1>1, WatcherAssumption DEF Becomes
  <1>3. CASE s = "connected"
    <2>1. ~lost'
      BY <1>3 DEF Becomes
    <2>2. Recovered'
      BY <1>1, <1>3, HoldsAppend DEF Recovered
    <2>3. QED
      BY <1>1, <1>2, <2>1, <2>2 DEF Alive, WindowMeasured
  <1>4. CASE s # "connected" /\ lost
    <2>1. lost' /\ outage' = outage
      BY <1>4 DEF Becomes
    <2>2. Tracked => Tracked'
      BY <1>1, <1>4, <2>1, HoldsAppend DEF Tracked
    <2>3. Unread => Unread'
      <3>1. SUFFICES ASSUME Unread PROVE Unread'
        OBVIOUS
      <3>2. PICK i \in 1..Len(stateRx) :
              /\ stateRx[i] = "disconnected"
              /\ \A j \in i..Len(stateRx) : stateRx[j] # "connected"
              /\ watcher = "grace" => \E k \in 1..(i - 1) : stateRx[k] = "connected"
        BY <3>1 DEF Unread
      <3>3. /\ i \in 1..Len(stateRx') /\ stateRx'[i] = "disconnected"
            /\ \A j \in i..Len(stateRx') : stateRx'[j] # "connected"
            /\ watcher' = "grace" => \E k \in 1..(i - 1) : stateRx'[k] = "connected"
        BY <1>1, <1>4, <3>2
      <3>4. QED
        BY <2>1, <3>1, <3>3 DEF Unread
    <2>4. QED
      BY <1>1, <1>2, <2>1, <2>2, <2>3, <1>4 DEF Alive, WindowMeasured
  <1>5. CASE s = "disconnected" /\ ~lost
    <2>1. lost' /\ outage' = 0
      BY <1>5 DEF Becomes
    <2>2. Len(stateRx') \in 1..Len(stateRx') /\ stateRx'[Len(stateRx')] = "disconnected"
      BY <1>1, <1>5
    <2>3. watcher' = "grace" =>
            \E k \in 1..(Len(stateRx') - 1) : stateRx'[k] = "connected"
      BY <1>1, <1>5 DEF Recovered, Holds
    <2>4. Unread'
      BY <2>1, <2>2, <2>3 DEF Unread
    <2>5. QED
      BY <1>1, <1>2, <2>1, <2>4 DEF Alive, WindowMeasured
  <1>6. CASE s \notin {"connected", "disconnected"} /\ ~lost
    <2>1. ~lost'
      BY <1>6 DEF Becomes
    <2>2. Recovered'
      BY <1>1, <1>6, HoldsAppend DEF Recovered
    <2>3. QED
      BY <1>1, <1>2, <2>1, <2>2 DEF Alive, WindowMeasured
  <1>7. QED
    BY <1>3, <1>4, <1>5, <1>6

(* The watcher takes the oldest state and goes on.                         *)
LEMMA GoesKeepsType ==
  ASSUME WatcherTypeOK, stateRx # <<>>, NEW w \in {"recv", "grace"}, Goes(w),
         left' \in 0..Grace, UNCHANGED <<peer, outageVars>>
  PROVE  WatcherTypeOK'
  <1>1. stateRx' \in Seq(ConnState) /\ Len(stateRx') <= StateCap
    BY WatcherAssumption DEF WatcherTypeOK, Goes
  <1>2. QED
    BY <1>1 DEF WatcherTypeOK, Goes, outageVars

(* An unread outage stays unread, unless the state taken was its           *)
(* beginning.                                                              *)
LEMMA UnreadGoesOn ==
  ASSUME WatcherTypeOK, Unread, stateRx # <<>>, outage' = outage,
         stateRx' = Tail(stateRx),
         Head(stateRx) # "disconnected" \/ Holds(Tail(stateRx), "connected"),
         watcher' = "grace" => Holds(Tail(stateRx), "connected")
  PROVE  Unread'
  <1> DEFINE q == Tail(stateRx)
  <1>1. PICK i \in 1..Len(stateRx) :
          /\ stateRx[i] = "disconnected"
          /\ \A j \in i..Len(stateRx) : stateRx[j] # "connected"
    BY DEF Unread
  <1>2. /\ Len(stateRx) \in Nat /\ Len(q) = Len(stateRx) - 1
        /\ \A k \in 1..Len(q) : q[k] = stateRx[k + 1]
        /\ Head(stateRx) = stateRx[1]
    OBVIOUS
  <1>3. \A k \in 1..Len(q) : q[k] = "connected" => k < i - 1
    BY <1>1, <1>2
  <1>4. i - 1 \in 1..Len(q) /\ q[i - 1] = "disconnected"
    <2>1. i # 1
      BY <1>1 DEF Holds
    <2>2. QED
      BY <1>1, <2>1
  <1>5. \A j \in (i - 1)..Len(q) : q[j] # "connected"
    BY <1>1, <1>4
  <1>6. watcher' = "grace" => \E k \in 1..((i - 1) - 1) : q[k] = "connected"
    BY <1>3 DEF Holds
  <1>7. QED
    BY <1>4, <1>5, <1>6 DEF Unread

(* Nor does a recovery get lost.                                           *)
LEMMA RecoveredGoesOn ==
  ASSUME WatcherTypeOK, Recovered, stateRx # <<>>, stateRx' = Tail(stateRx),
         watcher' = "grace" => \/ Head(stateRx) = "disconnected"
                               \/ watcher = "grace" /\ Head(stateRx) # "connected"
  PROVE  Recovered'
  <1> DEFINE q == Tail(stateRx)
  <1>1. /\ Len(stateRx) \in Nat /\ Len(stateRx) >= 1 /\ Len(q) = Len(stateRx) - 1
        /\ \A k \in 1..Len(q) : q[k] = stateRx[k + 1]
        /\ Head(stateRx) = stateRx[1]
    OBVIOUS
  <1>2. ASSUME NEW i \in 1..Len(q), q[i] = "disconnected"
        PROVE  \E k \in (i + 1)..Len(q) : q[k] = "connected"
    <2>1. PICK k \in (i + 2)..Len(stateRx) : stateRx[k] = "connected"
      BY <1>1, <1>2 DEF Recovered
    <2>2. k - 1 \in (i + 1)..Len(q) /\ q[k - 1] = "connected"
      BY <2>1
    <2>3. QED
      BY <2>2
  <1>3. ASSUME watcher' = "grace" PROVE Holds(q, "connected")
    <2>1. CASE Head(stateRx) = "disconnected"
      <3>1. PICK k \in 2..Len(stateRx) : stateRx[k] = "connected"
        BY <2>1 DEF Recovered
      <3>2. k - 1 \in 1..Len(q) /\ q[k - 1] = "connected"
        BY <3>1
      <3>3. QED
        BY <3>2 DEF Holds
    <2>2. CASE watcher = "grace" /\ Head(stateRx) # "connected"
      BY <2>2, HoldsTail DEF Recovered, WatcherTypeOK
    <2>3. QED
      BY <1>3, <2>1, <2>2
  <1>4. QED
    BY <1>3 DEF Recovered

-----------------------------------------------------------------------------

(* A state received outside the grace window keeps WatcherInv.             *)
LEMMA ReceivesKeepsInv ==
  ASSUME WatcherInv, WatcherRecv
  PROVE  WatcherInv'
  <1> USE DEF WatcherInv
  <1>1. /\ watcher = "recv" /\ stateRx # <<>> /\ stateRx \in Seq(ConnState)
        /\ UNCHANGED <<peer, lost, outage, longest>>
    BY DEF WatcherRecv, WatcherTypeOK, outageVars
  <1>2. Grace \in Nat \ {0}
    BY WatcherAssumption
  <1>3. ~Tracked
    BY <1>1 DEF Tracked
  <1>4. CASE \E r \in {"ice_failed", "ice_closed"} : Signal(r) /\ UNCHANGED left
    BY <1>1, <1>4, WatcherAssumption
    DEF WatcherTypeOK, Signal, Reasons, Alive, WindowMeasured
  <1>5. CASE Head(stateRx) = "disconnected" /\ Goes("grace") /\ left' = Grace
    <2>1. WatcherTypeOK'
      BY <1>1, <1>2, <1>5, GoesKeepsType DEF outageVars
    <2>2. WindowMeasured'
      BY <1>1, <1>2, <1>5 DEF WatcherTypeOK, WindowMeasured, Alive, Goes
    <2>3. ASSUME lost PROVE (Tracked \/ Unread)'
      <3>1. Unread
        BY <1>1, <1>3, <2>3 DEF Alive
      <3>2. CASE Holds(Tail(stateRx), "connected")
        BY <1>1, <1>5, <3>1, <3>2, UnreadGoesOn DEF Goes
      <3>3. CASE ~Holds(Tail(stateRx), "connected")
        BY <1>1, <1>2, <1>5, <3>1, <3>3 DEF Goes, Tracked, Unread
      <3>4. QED
        BY <3>2, <3>3
    <2>4. ASSUME ~lost PROVE Recovered'
      BY <1>1, <1>5, <2>4, RecoveredGoesOn DEF Goes, Alive
    <2>5. QED
      BY <1>1, <1>5, <2>1, <2>2, <2>3, <2>4 DEF Goes
  <1>6. CASE /\ Head(stateRx) \notin Terminal \cup {"disconnected"}
             /\ Goes("recv") /\ UNCHANGED left
    <2>1. WatcherTypeOK'
      BY <1>1, <1>6, GoesKeepsType DEF WatcherTypeOK, outageVars
    <2>2. WindowMeasured'
      BY <1>1, <1>6 DEF WindowMeasured, Alive, Goes
    <2>3. ASSUME lost PROVE Unread'
      BY <1>1, <1>3, <1>6, <2>3, UnreadGoesOn DEF Goes, Alive
    <2>4. ASSUME ~lost PROVE Recovered'
      BY <1>1, <1>6, <2>4, RecoveredGoesOn DEF Goes, Alive
    <2>5. QED
      BY <1>1, <1>6, <2>1, <2>2, <2>3, <2>4 DEF Goes
  <1>7. QED
    BY <1>4, <1>5, <1>6 DEF WatcherRecv, TerminalReason

(* So does one received within it.                                         *)
LEMMA GraceKeepsInv ==
  ASSUME WatcherInv, GraceRecv
  PROVE  WatcherInv'
  <1> USE DEF WatcherInv
  <1>1. /\ watcher = "grace" /\ stateRx # <<>> /\ stateRx \in Seq(ConnState)
        /\ left \in 0..Grace
        /\ UNCHANGED <<peer, lost, outage, longest, left>>
    BY DEF GraceRecv, StillLost, WatcherTypeOK, outageVars
  <1>2. Grace \in Nat \ {0}
    BY WatcherAssumption
  <1>3. CASE Signal("ice_disconnected_terminal")
    BY <1>1, <1>3, WatcherAssumption
    DEF WatcherTypeOK, Signal, Reasons, Alive, WindowMeasured
  <1>4. CASE left = 0 /\ Signal("ice_disconnected_timeout")
    BY <1>1, <1>4, WatcherAssumption
    DEF WatcherTypeOK, Signal, Reasons, Alive, WindowMeasured
  <1>5. CASE Head(stateRx) = "connected" /\ Goes("recv")
    <2>1. WatcherTypeOK'
      BY <1>1, <1>5, GoesKeepsType DEF outageVars
    <2>2. WindowMeasured'
      BY <1>1, <1>5 DEF WindowMeasured, Alive, Goes
    <2>3. ~Tracked
      BY <1>1, <1>5, HoldsTail DEF Tracked
    <2>4. ASSUME lost PROVE Unread'
      BY <1>1, <1>5, <2>3, <2>4, UnreadGoesOn DEF Goes, Alive
    <2>5. ASSUME ~lost PROVE Recovered'
      BY <1>1, <1>5, <2>5, RecoveredGoesOn DEF Goes, Alive
    <2>6. QED
      BY <1>1, <1>5, <2>1, <2>2, <2>4, <2>5 DEF Goes
  <1>6. CASE Head(stateRx) # "connected" /\ Goes("grace")
    <2>1. WatcherTypeOK'
      BY <1>1, <1>6, GoesKeepsType DEF outageVars
    <2>2. WindowMeasured'
      BY <1>1, <1>6 DEF WindowMeasured, Alive, Goes
    <2>3. Tracked => Tracked'
      BY <1>1, <1>6, HoldsTail DEF Tracked, Goes
    <2>4. Unread => Unread'
      <3>1. Unread => Holds(stateRx, "connected")
        BY <1>1 DEF Unread, Holds
      <3>2. QED
        BY <1>1, <1>6, <3>1, HoldsTail, UnreadGoesOn DEF Goes
    <2>5. ASSUME ~lost PROVE Recovered'
      BY <1>1, <1>6, <2>5, RecoveredGoesOn DEF Goes, Alive
    <2>6. QED
      BY <1>1, <1>6, <2>1, <2>2, <2>3, <2>4, <2>5 DEF Goes, Alive
  <1>7. QED
    BY <1>3, <1>4, <1>5, <1>6 DEF GraceRecv, StillLost

(* Time passes while the channel is empty: then an outage is tracked.      *)
LEMMA TickKeepsInv ==
  ASSUME WatcherInv, Tick
  PROVE  WatcherInv'
  <1> USE DEF WatcherInv, WatcherTypeOK
  <1>1. Alive /\ stateRx = <<>> /\ UNCHANGED <<peer, stateRx, watcher, reason, lost>>
    BY DEF Tick, Idle, Alive
  <1>2. Grace \in Nat \ {0}
    BY WatcherAssumption
  <1>3. ~Unread
    BY <1>1 DEF Unread
  <1>4. Recovered => watcher # "grace"
    BY <1>1, EmptyFacts DEF Recovered
  <1>5. lost /\ watcher = "grace" /\ left + outage = Grace /\ left > 0
    BY <1>1, <1>3, <1>4 DEF Tick, Idle, Tracked
  <1>6. /\ left' = left - 1 /\ outage' = outage + 1
        /\ longest' = IF outage' > longest THEN outage' ELSE longest
    BY <1>5 DEF Tick
  <1>7. WatcherTypeOK'
    BY <1>1, <1>5, <1>6
  <1>8. WindowMeasured'
    BY <1>1, <1>5, <1>6 DEF WindowMeasured
  <1>9. Tracked'
    BY <1>1, <1>3, <1>5, <1>6 DEF Tracked
  <1>10. QED
    BY <1>1, <1>5, <1>7, <1>8, <1>9

(* WatcherInv is inductive.                                                *)
LEMMA WatcherInvStep == WatcherInv /\ [WatcherNext]_watcherVars => WatcherInv'
  <1> SUFFICES ASSUME WatcherInv, [WatcherNext]_watcherVars PROVE WatcherInv'
    OBVIOUS
  <1>1. CASE NewPeer
    BY <1>1
    DEF NewPeer, WatcherInv, WatcherTypeOK, ConnState, outageVars, BeforeSpawn,
        Alive, Tracked, Unread, Recovered, WindowMeasured
  <1>2. CASE PeerChanges
    BY <1>2, BecomesKeepsInv DEF PeerChanges, Alive
  <1>3. CASE ClosePeer
    <2>1. CASE peer \notin {"absent", "closed"} /\ Becomes("closed")
      <3>1. CASE Alive
        BY <2>1, <3>1, BecomesKeepsInv DEF ConnState
      <3>2. CASE watcher = "absent"
        <4>1. /\ stateRx' = Append(stateRx, "closed") /\ Len(stateRx) < StateCap
              /\ UNCHANGED <<watcher, left, reason, longest>>
              /\ peer' = "closed" /\ lost' \in BOOLEAN /\ ~lost' /\ outage' = outage
          BY <2>1, <3>2 DEF Becomes, WatcherInv, BeforeSpawn
        <4>2. /\ stateRx \in Seq(ConnState) /\ "closed" \in ConnState
          BY DEF WatcherInv, WatcherTypeOK, ConnState
        <4>3. stateRx' \in Seq(ConnState) /\ Len(stateRx') <= StateCap
          BY <4>1, <4>2, WatcherAssumption
        <4>4. WatcherTypeOK'
          BY <4>1, <4>3 DEF WatcherInv, WatcherTypeOK
        <4>5. BeforeSpawn'
          BY <3>2, <4>1, <4>2, HoldsAppend DEF WatcherInv, BeforeSpawn
        <4>6. QED
          BY <3>2, <4>1, <4>4, <4>5 DEF WatcherInv, Alive, WindowMeasured
      <3>3. CASE watcher = "done"
        <4>1. /\ UNCHANGED <<stateRx, watcher, left, reason, longest>>
              /\ peer' = "closed" /\ lost' \in BOOLEAN /\ outage' \in {0, outage}
          BY <2>1, <3>3 DEF Becomes
        <4>2. WatcherTypeOK'
          BY <4>1, WatcherAssumption DEF WatcherInv, WatcherTypeOK, ConnState
        <4>3. QED
          BY <3>3, <4>1, <4>2 DEF WatcherInv, Alive, WindowMeasured
      <3>4. QED
        BY <3>1, <3>2, <3>3 DEF WatcherInv, WatcherTypeOK, Alive
    <2>2. CASE UNCHANGED watcherVars
      BY <2>2
      DEF watcherVars, outageVars, WatcherInv, WatcherTypeOK, BeforeSpawn,
          Alive, Tracked, Unread, Recovered, WindowMeasured
    <2>3. QED
      BY <1>3, <2>1, <2>2 DEF ClosePeer
  <1>4. CASE SpawnWatcher
    BY <1>4, WatcherAssumption
    DEF SpawnWatcher, WatcherInv, WatcherTypeOK, outageVars, BeforeSpawn,
        Holds, Recovered, WindowMeasured
  <1>5. CASE WatcherRecv
    BY <1>5, ReceivesKeepsInv
  <1>6. CASE GraceRecv
    BY <1>6, GraceKeepsInv
  <1>7. CASE GraceExpires
    BY <1>7
    DEF GraceExpires, DeadlinePassed, Signal, WatcherInv, WatcherTypeOK,
        Reasons, outageVars, Alive, WindowMeasured
  <1>8. CASE WatcherAborted
    BY <1>8, WatcherAssumption
    DEF WatcherAborted, WatcherInv, WatcherTypeOK, outageVars, Alive,
        WindowMeasured
  <1>9. CASE Tick
    BY <1>9, TickKeepsInv
  <1>10. CASE UNCHANGED watcherVars
    BY <1>10
    DEF watcherVars, outageVars, WatcherInv, WatcherTypeOK, BeforeSpawn, Alive,
        Tracked, Unread, Recovered, WindowMeasured
  <1>11. QED
    BY <1>1, <1>2, <1>3, <1>4, <1>5, <1>6, <1>7, <1>8, <1>9, <1>10
    DEF WatcherNext, WatcherStep

(* WatcherInv holds along every behaviour of the watcher.                  *)
LEMMA WatcherInvariant == WatcherSpec => []WatcherInv
  BY WatcherInvInit, WatcherInvStep, PTL DEF WatcherSpec

-----------------------------------------------------------------------------

(* Every variable keeps its type.                                          *)
THEOREM WatcherTypeCorrect == WatcherSpec => []WatcherTypeOK
  <1>1. WatcherInv => WatcherTypeOK
    BY DEF WatcherInv
  <1>2. QED
    BY <1>1, WatcherInvariant, PTL

(* While the watcher lives no outage lasts longer than the grace window,   *)
(* whatever the states in the channel and however many it holds.           *)
THEOREM OutageAlwaysBounded == WatcherSpec => []OutageBounded
  <1>1. WatcherInv => OutageBounded
    BY DEF WatcherInv, WindowMeasured, Alive, OutageBounded
  <1>2. QED
    BY <1>1, WatcherInvariant, PTL

(* A timeout is reported only after an outage of the whole window.         *)
THEOREM GraceAlwaysKept == WatcherSpec => []GraceKept
  <1>1. WatcherInv => GraceKept
    BY DEF WatcherInv, WindowMeasured, GraceKept
  <1>2. QED
    BY <1>1, WatcherInvariant, PTL

=============================================================================
