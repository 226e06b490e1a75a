----------------------- MODULE SessionLifecycleProofs -----------------------
(***************************************************************************)
(* Proofs about SessionLifecycle: the ownership of sessions, for every     *)
(* number of sessions.                                                     *)
(***************************************************************************)
EXTENDS SessionLifecycle, TLAPS

(* The session for which start() or stop() holds the AppState mutex: it is *)
(* being built, or torn down by the command itself.                        *)
HoldsCommand(s) ==
    \/ stage[s] \in InitStages
    \/ stage[s] \in TeardownStages /\ owner[s] \in {"init", "stop"}

(* One command at a time, and it is the right one.  A session is built     *)
(* only while the slot is empty.                                           *)
CommandHeld ==
    /\ \A s \in Ids : HoldsCommand(s) => command # "idle"
    /\ \A s, t \in Ids : HoldsCommand(s) /\ HoldsCommand(t) => s = t
    /\ \A s \in Ids : stage[s] \in InitStages => command = "start" /\ slot = None

(* A session has an owner from the beginning of its teardown.              *)
OwnedInTeardown ==
    \A s \in Ids : /\ stage[s] \in TeardownStages => owner[s] # "nobody"
                   /\ owner[s] # "nobody" => stage[s] \in TeardownStages \cup {"gone"}

(* What a teardown released stays released; the numbers not yet given out  *)
(* are unused.                                                             *)
ReleasedInOrder ==
    \A s \in Ids :
      /\ stage[s] \in {"unused", "gone"} => alive[s] = {}
      /\ stage[s] \in {"closePeer", "reap"} => "capture" \notin alive[s]
      /\ stage[s] = "reap" => "peer" \notin alive[s]
      /\ s > started => stage[s] = "unused"

LifecycleInv ==
    /\ TypeOK
    /\ SlotHoldsTheOneUp
    /\ CommandHeld
    /\ OwnedInTeardown
    /\ ReleasedInOrder

(* The tables of the code's sequences, entry by entry.                     *)
LEMMA InitTables ==
  /\ DOMAIN Acquires = {"connect", "create", "webrtc", "capture", "spawn"}
  /\ Following["connect"] = "create" /\ Following["create"] = "webrtc"
  /\ Following["webrtc"] = "capture" /\ Following["capture"] = "spawn"
  /\ Following["spawn"] = "built"
  /\ \A st \in DOMAIN Acquires : Acquires[st] \subseteq Resources
  BY DEF Acquires, Following, Resources

(* The stages of a teardown, one by one.                                   *)
LEMMA TeardownTables ==
  /\ NextTeardown["endSession"] = "stopCapture"
  /\ NextTeardown["stopCapture"] = "closePeer"
  /\ NextTeardown["closePeer"] = "reap" /\ NextTeardown["reap"] = "gone"
  /\ Releases["stopCapture"] = {"capture"} /\ Releases["closePeer"] = {"peer"}
  /\ Releases["reap"] = {"socket"} \cup Tasks
  BY DEF NextTeardown, Releases

-----------------------------------------------------------------------------

(* LifecycleInv holds before the first start().                            *)
LEMMA LifecycleInit == Init => LifecycleInv
  BY MaxSessionsAssumption
  DEF Init, LifecycleInv, TypeOK, Stages, SlotHoldsTheOneUp, CommandHeld,
      HoldsCommand, InitStages, TeardownStages, OwnedInTeardown,
      ReleasedInOrder, Ids, None

(* One step per action; under each, one for every part of the invariant.   *)
LEMMA LifecycleStep == LifecycleInv /\ [Next]_vars => LifecycleInv'
  <1> SUFFICES ASSUME LifecycleInv, [Next]_vars PROVE LifecycleInv'
    OBVIOUS
  <1> USE MaxSessionsAssumption DEF LifecycleInv, TypeOK, Ids, None
  <1>1. ASSUME Start PROVE LifecycleInv'
    <2>1. TypeOK'
      BY <1>1 DEF Start, Stages, InitStages
    <2>2. SlotHoldsTheOneUp'
      BY <1>1 DEF Start, SlotHoldsTheOneUp
    <2>3. CommandHeld'
      BY <1>1 DEF Start, CommandHeld, HoldsCommand
    <2>4. OwnedInTeardown'
      BY <1>1 DEF Start, OwnedInTeardown, ReleasedInOrder, TeardownStages
    <2>5. ReleasedInOrder'
      BY <1>1 DEF Start, ReleasedInOrder
    <2>6. QED
      BY <2>1, <2>2, <2>3, <2>4, <2>5
  <1>2. ASSUME Stop PROVE LifecycleInv'
    <2>1. TypeOK'
      BY <1>2 DEF Stop, Stages, TeardownStages
    <2>2. SlotHoldsTheOneUp'
      BY <1>2 DEF Stop, SlotHoldsTheOneUp
    <2>3. CommandHeld'
      BY <1>2 DEF Stop, CommandHeld, HoldsCommand, InitStages
    <2>4. OwnedInTeardown'
      BY <1>2 DEF Stop, OwnedInTeardown, TeardownStages
    <2>5. ReleasedInOrder'
      BY <1>2 DEF Stop, SlotHoldsTheOneUp, ReleasedInOrder
    <2>6. QED
      BY <2>1, <2>2, <2>3, <2>4, <2>5
  <1>3. ASSUME NEW s \in Ids, InitStep(s) PROVE LifecycleInv'
    <2>1. TypeOK'
      BY <1>3, InitTables DEF InitStep, Stages, InitStages
    <2>2. SlotHoldsTheOneUp'
      BY <1>3, InitTables DEF InitStep, SlotHoldsTheOneUp
    <2>3. CommandHeld'
      BY <1>3, InitTables DEF InitStep, CommandHeld, HoldsCommand, InitStages
    <2>4. OwnedInTeardown'
      BY <1>3, InitTables DEF InitStep, OwnedInTeardown, TeardownStages
    <2>5. ReleasedInOrder'
      BY <1>3, InitTables DEF InitStep, ReleasedInOrder
    <2>6. QED
      BY <2>1, <2>2, <2>3, <2>4, <2>5
  <1>4. ASSUME NEW s \in Ids, InitFails(s) PROVE LifecycleInv'
    <2>1. TypeOK'
      BY <1>4 DEF InitFails, Stages, TeardownStages
    <2>2. SlotHoldsTheOneUp'
      BY <1>4 DEF InitFails, SlotHoldsTheOneUp
    <2>3. CommandHeld'
      <3>1. command = "start" /\ \A t \in Ids : HoldsCommand(t) => t = s
        BY <1>4 DEF InitFails, CommandHeld, HoldsCommand, InitStages
      <3>2. CASE stage[s] \in {"connect", "create"}
        BY <1>4, <3>1, <3>2 DEF InitFails, CommandHeld, HoldsCommand, InitStages, TeardownStages
      <3>3. CASE stage[s] \in {"webrtc", "capture"}
        BY <1>4, <3>1, <3>3 DEF InitFails, CommandHeld, HoldsCommand, InitStages
      <3>4. QED
        BY <1>4, <3>2, <3>3 DEF InitFails
    <2>4. OwnedInTeardown'
      BY <1>4 DEF InitFails, OwnedInTeardown, TeardownStages
    <2>5. ReleasedInOrder'
      BY <1>4 DEF InitFails, ReleasedInOrder
    <2>6. QED
      BY <2>1, <2>2, <2>3, <2>4, <2>5
  <1>5. ASSUME NEW s \in Ids, Install(s) PROVE LifecycleInv'
    <2>1. TypeOK'
      BY <1>5 DEF Install, Stages
    <2>2. SlotHoldsTheOneUp'
      BY <1>5 DEF Install, SlotHoldsTheOneUp, CommandHeld, InitStages
    <2>3. CommandHeld'
      BY <1>5 DEF Install, CommandHeld, HoldsCommand, InitStages, TeardownStages
    <2>4. OwnedInTeardown'
      BY <1>5 DEF Install, OwnedInTeardown, TeardownStages
    <2>5. ReleasedInOrder'
      BY <1>5 DEF Install, ReleasedInOrder
    <2>6. QED
      BY <2>1, <2>2, <2>3, <2>4, <2>5
  <1>6. ASSUME NEW s \in Ids, TaskSignals(s) \/ TaskEndsQuietly(s) PROVE LifecycleInv'
    <2>1. TypeOK'
      <3>1. alive[s] \subseteq Resources
        OBVIOUS
      <3>2. alive' \in [Ids -> SUBSET Resources] /\ signalled' \in [Ids -> BOOLEAN]
        <4>1. PICK t : alive' = [alive EXCEPT ![s] = @ \ {t}]
          BY <1>6 DEF TaskSignals, TaskEndsQuietly
        <4>2. alive[s] \ {t} \in SUBSET Resources
          BY <3>1
        <4>3. QED
          BY <1>6, <4>1 DEF TaskSignals, TaskEndsQuietly
      <3>3. QED
        BY <1>6, <3>2 DEF TaskSignals, TaskEndsQuietly
    <2>2. ReleasedInOrder'
      BY <1>6 DEF TaskSignals, TaskEndsQuietly, ReleasedInOrder
    <2>3. QED
      BY <1>6, <2>1, <2>2
      DEF TaskSignals, TaskEndsQuietly, SlotHoldsTheOneUp, CommandHeld,
          HoldsCommand, OwnedInTeardown
  <1>7. ASSUME NEW s \in Ids, Wake(s) PROVE LifecycleInv'
    BY <1>7
    DEF Wake, SlotHoldsTheOneUp, CommandHeld, HoldsCommand, OwnedInTeardown,
        ReleasedInOrder
  <1>8. ASSUME NEW s \in Ids, SupervisorTakes(s) PROVE LifecycleInv'
    <2>1. TypeOK'
      BY <1>8 DEF SupervisorTakes, Stages, InitStages, TeardownStages
    <2>2. SlotHoldsTheOneUp'
      BY <1>8 DEF SupervisorTakes, SlotHoldsTheOneUp
    <2>3. CommandHeld'
      BY <1>8
      DEF SupervisorTakes, CommandHeld, HoldsCommand, ReleasedInOrder,
          InitStages
    <2>4. OwnedInTeardown'
      BY <1>8 DEF SupervisorTakes, OwnedInTeardown, TeardownStages
    <2>5. ReleasedInOrder'
      BY <1>8 DEF SupervisorTakes, SlotHoldsTheOneUp, ReleasedInOrder
    <2>6. QED
      BY <2>1, <2>2, <2>3, <2>4, <2>5
  <1>9. ASSUME NEW s \in Ids, TeardownStep(s) PROVE LifecycleInv'
    <2>1. TypeOK'
      BY <1>9, TeardownTables DEF TeardownStep, Stages, TeardownStages
    <2>2. SlotHoldsTheOneUp'
      BY <1>9, TeardownTables
      DEF TeardownStep, SlotHoldsTheOneUp, TeardownStages
    <2>3. CommandHeld'
      BY <1>9, TeardownTables
      DEF TeardownStep, CommandHeld, HoldsCommand, OwnedInTeardown, InitStages,
          TeardownStages
    <2>4. OwnedInTeardown'
      BY <1>9, TeardownTables DEF TeardownStep, OwnedInTeardown, TeardownStages
    <2>5. ReleasedInOrder'
      BY <1>9, TeardownTables
      DEF TeardownStep, SlotHoldsTheOneUp, ReleasedInOrder, TeardownStages,
          Resources
    <2>6. QED
      BY <2>1, <2>2, <2>3, <2>4, <2>5
  <1>10. CASE UNCHANGED vars
    BY <1>10
    DEF vars, SlotHoldsTheOneUp, CommandHeld, HoldsCommand, OwnedInTeardown,
        ReleasedInOrder
  <1>11. QED
    BY <1>1, <1>2, <1>3, <1>4, <1>5, <1>6, <1>7, <1>8, <1>9, <1>10
    DEF Next, SessionStep

(* LifecycleInv holds along every behaviour.                               *)
LEMMA LifecycleInvariant == Init /\ [][Next]_vars => []LifecycleInv
  BY LifecycleInit, LifecycleStep, PTL

-----------------------------------------------------------------------------

(* Every variable keeps its type. *)
THEOREM LifecycleTypeCorrect == Spec => []TypeOK
  <1>1. LifecycleInv => TypeOK
    BY DEF LifecycleInv
  <1>2. QED
    BY <1>1, LifecycleInvariant, PTL DEF Spec

(* The slot holds exactly the session that is up, for any number of calls  *)
(* of start(), however stop() and the supervisors interleave.              *)
THEOREM SlotAlwaysHoldsTheOneUp == Spec => []SlotHoldsTheOneUp
  <1>1. LifecycleInv => SlotHoldsTheOneUp
    BY DEF LifecycleInv
  <1>2. QED
    BY <1>1, LifecycleInvariant, PTL DEF Spec

(* LifecycleInv leaves nothing without an owner.                           *)
LEMMA InvNothingOrphaned == LifecycleInv => NothingOrphaned
  BY DEF LifecycleInv, TypeOK, Stages, SlotHoldsTheOneUp, CommandHeld,
         OwnedInTeardown, ReleasedInOrder, NothingOrphaned

(* What a session holds is always owned: by the slot, by the start() that  *)
(* builds it or by whoever tears it down.                                  *)
THEOREM NothingEverOrphaned == Spec => []NothingOrphaned
  BY InvNothingOrphaned, LifecycleInvariant, PTL DEF Spec

(* The same of the steps alone, without their fairness.                    *)
LEMMA LifecycleOnce == Init /\ [][Next]_vars => OneTeardown
  <1> DEFINE Once == \A s \in Ids : owner[s] # "nobody" =>
                        /\ owner'[s] = owner[s]
                        /\ stage[s] # "endSession" => stage'[s] # "endSession"
  <1>1. LifecycleInv /\ [Next]_vars => [Once]_vars
    <2> SUFFICES ASSUME LifecycleInv, Next,
                        NEW t \in Ids, owner[t] # "nobody"
                 PROVE  /\ owner'[t] = owner[t]
                        /\ stage[t] # "endSession" => stage'[t] # "endSession"
      OBVIOUS
    <2> USE DEF LifecycleInv, TypeOK
    <2>1. stage[t] \in TeardownStages \cup {"gone"}
      BY DEF OwnedInTeardown
    <2>2. slot # t
      BY <2>1 DEF SlotHoldsTheOneUp, TeardownStages
    <2>3. CASE Start
      <3>1. started + 1 # t
        BY <2>1 DEF ReleasedInOrder, TeardownStages
      <3>2. QED
        BY <2>3 DEF Start
    <2>4. CASE Stop
      BY <2>2, <2>4 DEF Stop
    <2>5. ASSUME NEW s \in Ids, SupervisorTakes(s)
          PROVE  /\ owner'[t] = owner[t]
                 /\ stage[t] # "endSession" => stage'[t] # "endSession"
      BY <2>2, <2>5 DEF SupervisorTakes
    <2>6. ASSUME NEW s \in Ids, TeardownStep(s)
          PROVE  /\ owner'[t] = owner[t]
                 /\ stage[t] # "endSession" => stage'[t] # "endSession"
      BY <2>6, TeardownTables DEF TeardownStep, TeardownStages
    <2>7. ASSUME NEW s \in Ids, InitStep(s) \/ InitFails(s) \/ Install(s)
          PROVE  /\ owner'[t] = owner[t]
                 /\ stage[t] # "endSession" => stage'[t] # "endSession"
      <3>1. s # t
        BY <2>1, <2>7, InitTables
        DEF InitStep, InitFails, Install, TeardownStages
      <3>2. QED
        BY <2>7, <3>1 DEF InitStep, InitFails, Install
    <2>8. ASSUME NEW s \in Ids, TaskSignals(s) \/ TaskEndsQuietly(s) \/ Wake(s)
          PROVE  UNCHANGED <<owner, stage>>
      BY <2>8 DEF TaskSignals, TaskEndsQuietly, Wake
    <2>9. QED
      BY <2>3, <2>4, <2>5, <2>6, <2>7, <2>8 DEF Next, SessionStep
  <1>2. QED
    BY <1>1, LifecycleInvariant, PTL DEF OneTeardown

(* A session that has an owner keeps it and is not torn down again: what   *)
(* stop() or a supervisor takes out of the slot has no owner yet.          *)
THEOREM TornDownOnce == Spec => OneTeardown
  BY LifecycleOnce, PTL DEF Spec

=============================================================================
