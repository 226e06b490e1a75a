-------------------------- MODULE RateLimiterProofs --------------------------
(***************************************************************************)
(* What is proved of the rate limiter, for every set of clients, window    *)
(* length and limit.                                                       *)
(***************************************************************************)
EXTENDS RateLimiter, TLAPS

(* A record's count and age stay in their ranges.                          *)
BucketTypeOK == bucket \in [Keys -> Record \cup {NoRecord}]

(* The history holds an age for each of the last admitted requests.        *)
HistoryTypeOK == recent \in [Keys -> [Last -> 0..Window + 1]]

(* Requests of the window of the record, all of them among the newest.     *)
Counted(k) == IF bucket[k].count > Limit THEN Limit ELSE bucket[k].count

(* The window before it had at most one allowance, and what was admitted   *)
(* before that is out of reach.                                            *)
TwoWindowsReach(k) ==
    \A i \in Last : i >= Counted(k) + Limit => recent[k][i] > Window

(* What the record does not count is older than its window.                *)
OlderUncounted(k) ==
    \A i \in Last : i >= Counted(k)
      => recent[k][i] >= bucket[k].age \/ recent[k][i] > Window

(* What it counts was admitted before its window was over.                 *)
CountedInWindow(k) ==
    \A i \in Last : i < Counted(k)
      => recent[k][i] >= bucket[k].age - Window \/ recent[k][i] > Window

(* A record is swept only when nothing it counts can matter any more.      *)
AllPast(k) == \A i \in Last : recent[k][i] > Window

WindowInv == \A k \in Keys :
    IF bucket[k] = NoRecord THEN AllPast(k)
    ELSE TwoWindowsReach(k) /\ OlderUncounted(k) /\ CountedInWindow(k)

(* The window the mapping shows for a key.                                 *)
Left(k) == IF Over(k) THEN Limit
           ELSE IF bucket[k].count > Limit THEN 0
           ELSE Limit - bucket[k].count

Elapsed(k) == IF Over(k) THEN Window + 1 ELSE bucket[k].age

(* The records keep their type.                                            *)
LEMMA BucketTypeStep ==
  ASSUME BucketTypeOK, [Next]_vars
  PROVE  BucketTypeOK'
  <1> USE LimitAssumption, NoRecordAssumption DEF BucketTypeOK, Record
  <1>1. CASE Tick
    BY <1>1 DEF Tick
  <1>2. CASE SweepBuckets
    BY <1>2 DEF SweepBuckets
  <1>3. ASSUME NEW k \in Keys, CheckRateLimit(k) PROVE BucketTypeOK'
    BY <1>3 DEF CheckRateLimit, Current
  <1>4. CASE UNCHANGED vars
    BY <1>4 DEF vars
  <1>5. QED
    BY <1>1, <1>2, <1>3, <1>4 DEF Next

(* The records have their type along every behaviour.                      *)
LEMMA BucketTypeCorrect == Spec => []BucketTypeOK
  <1>1. Init => BucketTypeOK
    BY DEF Init, BucketTypeOK
  <1>2. QED
    BY <1>1, BucketTypeStep, PTL DEF Spec

(* The history keeps its type.                                             *)
LEMMA HistoryTypeStep ==
  ASSUME BucketTypeOK, HistoryTypeOK, [Next]_vars
  PROVE  HistoryTypeOK'
  <1> USE LimitAssumption DEF HistoryTypeOK, Last
  <1>1. CASE Tick
    BY <1>1 DEF Tick
  <1>2. CASE SweepBuckets
    BY <1>2 DEF SweepBuckets
  <1>3. ASSUME NEW k \in Keys, CheckRateLimit(k) PROVE HistoryTypeOK'
    <2>1. ASSUME NEW i \in Last
          PROVE  (IF i = 0 THEN 0 ELSE recent[k][i - 1]) \in 0..Window + 1
      <3>1. CASE i = 0
        BY <3>1
      <3>2. CASE i # 0
        <4>1. i - 1 \in Last
          BY <3>2
        <4>2. QED
          BY <3>2, <4>1
      <3>3. QED
        BY <3>1, <3>2
    <2>2. QED
      BY <1>3, <2>1 DEF CheckRateLimit
  <1>4. CASE UNCHANGED vars
    BY <1>4 DEF vars
  <1>5. QED
    BY <1>1, <1>2, <1>3, <1>4 DEF Next

(* Time passes for a record and for what it counts alike.                  *)
LEMMA WindowInvTick ==
  ASSUME BucketTypeOK, HistoryTypeOK, WindowInv, Tick
  PROVE  WindowInv'
  <1> USE LimitAssumption, NoRecordAssumption
  <1> SUFFICES ASSUME NEW k \in Keys
               PROVE  IF bucket'[k] = NoRecord THEN AllPast(k)'
                      ELSE TwoWindowsReach(k)' /\ OlderUncounted(k)' /\ CountedInWindow(k)'
    BY DEF WindowInv
  <1>1. \A i \in Last :
          /\ recent[k][i] \in 0..Window + 1
          /\ recent'[k][i] = IF recent[k][i] <= Window THEN recent[k][i] + 1 ELSE recent[k][i]
    BY DEF Tick, HistoryTypeOK
  <1>2. CASE bucket[k] = NoRecord
    <2>1. bucket'[k] = NoRecord
      BY <1>2 DEF Tick
    <2>2. AllPast(k)
      BY <1>2 DEF WindowInv
    <2>3. QED
      BY <1>1, <2>1, <2>2 DEF AllPast
  <1>3. CASE bucket[k] # NoRecord
    <2>1. bucket[k] \in Record
      BY <1>3 DEF BucketTypeOK
    <2>2. /\ bucket[k].count \in 0..Limit + 1 /\ bucket[k].age \in 0..2 * Window + 1
          /\ TwoWindowsReach(k) /\ OlderUncounted(k) /\ CountedInWindow(k)
      BY <1>3, <2>1 DEF WindowInv, Record
    <2>3. /\ bucket'[k] # NoRecord
          /\ bucket'[k].count = bucket[k].count
          /\ bucket'[k].age = IF bucket[k].age <= 2 * Window
                                THEN bucket[k].age + 1 ELSE bucket[k].age
      BY <1>3, <2>1 DEF Tick, Record, BucketTypeOK
    <2>4. Counted(k)' = Counted(k)
      BY <2>3 DEF Counted
    <2>5. TwoWindowsReach(k)'
      BY <1>1, <2>2, <2>4 DEF TwoWindowsReach
    <2>6. OlderUncounted(k)'
      BY <1>1, <2>2, <2>3, <2>4 DEF OlderUncounted
    <2>7. CountedInWindow(k)'
      BY <1>1, <2>2, <2>3, <2>4 DEF CountedInWindow
    <2>8. QED
      BY <2>3, <2>5, <2>6, <2>7
  <1>4. QED
    BY <1>2, <1>3

(* A record that is swept counts nothing a window length still holds.      *)
LEMMA WindowInvSweep ==
  ASSUME BucketTypeOK, HistoryTypeOK, WindowInv, SweepBuckets
  PROVE  WindowInv'
  <1> USE LimitAssumption, NoRecordAssumption
  <1> SUFFICES ASSUME NEW k \in Keys
               PROVE  IF bucket'[k] = NoRecord THEN AllPast(k)'
                      ELSE TwoWindowsReach(k)' /\ OlderUncounted(k)' /\ CountedInWindow(k)'
    BY DEF WindowInv
  <1>1. recent' = recent /\ bucket'[k] = IF Forgotten(k) THEN NoRecord ELSE bucket[k]
    BY DEF SweepBuckets
  <1>2. CASE Forgotten(k)
    <2>1. bucket[k] \in Record /\ bucket[k].age > 2 * Window
      BY <1>2 DEF Forgotten, BucketTypeOK
    <2>2. OlderUncounted(k) /\ CountedInWindow(k)
      BY <2>1 DEF WindowInv
    <2>3. /\ bucket[k].count \in 0..Limit + 1 /\ bucket[k].age \in 0..2 * Window + 1
          /\ \A i \in Last : recent[k][i] \in 0..Window + 1
      BY <2>1 DEF Record, HistoryTypeOK
    <2>4. Counted(k) \in 0..Limit
      BY <2>3 DEF Counted
    <2>5. AllPast(k)
      BY <2>1, <2>2, <2>3, <2>4 DEF OlderUncounted, CountedInWindow, AllPast, Last
    <2>6. QED
      BY <1>1, <1>2, <2>5 DEF AllPast
  <1>3. CASE ~Forgotten(k)
    BY <1>1, <1>3 DEF WindowInv, AllPast, TwoWindowsReach, OlderUncounted, CountedInWindow,
                      Counted
  <1>4. QED
    BY <1>2, <1>3

(* An admitted request moves the earlier ones back by one and is counted;  *)
(* a new window starts when what the old one counted is past it.           *)
LEMMA WindowInvCheck ==
  ASSUME BucketTypeOK, HistoryTypeOK, WindowInv, NEW j \in Keys, CheckRateLimit(j)
  PROVE  WindowInv'
  <1> USE LimitAssumption, NoRecordAssumption
  <1> SUFFICES ASSUME NEW k \in Keys
               PROVE  IF bucket'[k] = NoRecord THEN AllPast(k)'
                      ELSE TwoWindowsReach(k)' /\ OlderUncounted(k)' /\ CountedInWindow(k)'
    BY DEF WindowInv
  <1> DEFINE cur == Current(k)
  <1>1. CASE k # j
    <2>1. recent'[k] = recent[k] /\ bucket'[k] = bucket[k]
      BY <1>1 DEF CheckRateLimit, HistoryTypeOK, BucketTypeOK
    <2>2. QED
      BY <2>1 DEF WindowInv, AllPast, TwoWindowsReach, OlderUncounted, CountedInWindow,
                  Counted
  <1>2. CASE k = j
    <2>1. cur.count \in 0..Limit + 1 /\ cur.age \in 0..Window
      BY DEF Current, BucketTypeOK, Record
    <2>2. /\ bucket'[k] \in Record
          /\ bucket'[k].count = IF cur.count + 1 > Limit THEN Limit + 1 ELSE cur.count + 1
          /\ bucket'[k].age = cur.age
      BY <1>2, <2>1 DEF CheckRateLimit, BucketTypeOK, Record
    <2>3. ASSUME NEW i \in Last PROVE recent[k][i] \in 0..Window + 1
      BY DEF HistoryTypeOK
    <2>4. ASSUME NEW i \in Last, i # 0 PROVE i - 1 \in Last
      BY <2>4 DEF Last
    <2>5. recent'[k] = IF cur.count < Limit
                        THEN [i \in Last |-> IF i = 0 THEN 0 ELSE recent[k][i - 1]]
                        ELSE recent[k]
      BY <1>2, <2>1 DEF CheckRateLimit, Within, HistoryTypeOK
    <2> DEFINE m == IF cur.count > Limit THEN Limit ELSE cur.count
    <2>6. /\ \A i \in Last : i >= m + Limit => recent[k][i] > Window
          /\ \A i \in Last : i >= m => recent[k][i] >= cur.age \/ recent[k][i] > Window
      <3>1. CASE bucket[k] = NoRecord
        BY <3>1 DEF WindowInv, AllPast
      <3>2. CASE bucket[k] \in Record /\ bucket[k].age > Window
        <4>1. cur.count = 0 /\ cur.age = 0 /\ m = 0
          BY <3>2 DEF Current
        <4>2. OlderUncounted(k)
          BY <3>2 DEF WindowInv
        <4>3. Counted(k) \in 0..Limit /\ bucket[k].age \in Nat
          BY <3>2 DEF Counted, Record
        <4>4. QED
          BY <2>3, <3>2, <4>1, <4>2, <4>3 DEF OlderUncounted, Last
      <3>3. CASE bucket[k] \in Record /\ bucket[k].age <= Window
        <4>1. cur = bucket[k]
          BY <3>3 DEF Current, Record
        <4>2. TwoWindowsReach(k) /\ OlderUncounted(k)
          BY <3>3 DEF WindowInv
        <4>3. QED
          BY <4>1, <4>2 DEF TwoWindowsReach, OlderUncounted, Counted
      <3>4. QED
        BY <3>1, <3>2, <3>3 DEF BucketTypeOK, Record
    <2>7. Counted(k)' = IF cur.count < Limit THEN m + 1 ELSE m
      BY <2>1, <2>2 DEF Counted
    <2>8. CountedInWindow(k)'
      <3>1. ASSUME NEW i \in Last PROVE recent'[k][i] \in 0..Window + 1
        BY <2>3, <2>4, <2>5
      <3>2. QED
        BY <2>1, <2>2, <3>1 DEF CountedInWindow
    <2>9. TwoWindowsReach(k)' /\ OlderUncounted(k)'
      <3>1. CASE cur.count < Limit
        <4>1. ASSUME NEW i \in Last, i >= m + 1
              PROVE  /\ i - 1 \in Last /\ i - 1 >= m
                     /\ recent'[k][i] = recent[k][i - 1]
          BY <2>1, <2>4, <2>5, <3>1, <4>1 DEF Last
        <4>2. OlderUncounted(k)'
          BY <2>1, <2>2, <2>6, <2>7, <3>1, <4>1 DEF OlderUncounted, Last
        <4>3. ASSUME NEW i \in Last, i >= m + 1 + Limit
              PROVE  recent'[k][i] > Window
          <5>1. i >= m + 1 /\ i - 1 >= m + Limit
            BY <2>1, <4>3 DEF Last
          <5>2. QED
            BY <2>6, <4>1, <5>1
        <4>4. QED
          BY <2>7, <3>1, <4>2, <4>3 DEF TwoWindowsReach
      <3>2. CASE cur.count >= Limit
        BY <2>1, <2>2, <2>5, <2>6, <2>7, <3>2 DEF TwoWindowsReach, OlderUncounted
      <3>3. QED
        BY <2>1, <3>1, <3>2
    <2>10. QED
      BY <2>2, <2>8, <2>9
  <1>3. QED
    BY <1>1, <1>2

(* However a client times its requests, and whenever the maps are swept,   *)
(* two allowances are all it gets through in any window length             *)
(* (checkRateLimit, server.js).                                            *)
THEOREM NeverMoreThanTwoAllowances == Spec => []TwoAllowances
  <1>1. Init => HistoryTypeOK /\ WindowInv
    BY LimitAssumption DEF Init, HistoryTypeOK, WindowInv, AllPast, Last
  <1>2. BucketTypeOK /\ HistoryTypeOK /\ WindowInv /\ [Next]_vars
          => HistoryTypeOK' /\ WindowInv'
    <2> SUFFICES ASSUME BucketTypeOK, HistoryTypeOK, WindowInv, [Next]_vars
                 PROVE  WindowInv'
      BY HistoryTypeStep
    <2>1. CASE UNCHANGED vars
      BY <2>1 DEF vars, WindowInv, AllPast, TwoWindowsReach, OlderUncounted,
                  CountedInWindow, Counted
    <2>2. QED
      BY <2>1, WindowInvTick, WindowInvSweep, WindowInvCheck DEF Next
  <1>3. BucketTypeOK /\ WindowInv => TwoAllowances
    <2> SUFFICES ASSUME BucketTypeOK, WindowInv, NEW k \in Keys
                 PROVE  recent[k][2 * Limit] > Window
      BY DEF TwoAllowances
    <2>1. 2 * Limit \in Last
      BY LimitAssumption DEF Last
    <2>2. CASE bucket[k] = NoRecord
      BY <2>1, <2>2 DEF WindowInv, AllPast
    <2>3. CASE bucket[k] # NoRecord
      <3>1. Counted(k) \in 0..Limit
        BY <2>3, LimitAssumption DEF BucketTypeOK, Record, Counted
      <3>2. QED
        BY <2>1, <2>3, <3>1, LimitAssumption DEF WindowInv, TwoWindowsReach
    <2>4. QED
      BY <2>2, <2>3
  <1>4. QED
    BY <1>1, <1>2, <1>3, BucketTypeCorrect, PTL DEF Spec

(* A tick is a tick of every window.                                       *)
LEMMA TickPasses ==
  ASSUME BucketTypeOK, Tick
  PROVE  Windows!TimePasses
  <1> USE LimitAssumption, NoRecordAssumption DEF BucketTypeOK, Record
  <1>1. \A k \in Keys : Elapsed(k)' = IF Elapsed(k) <= Window THEN Elapsed(k) + 1 ELSE Elapsed(k)
    <2>1. bucket' = [k \in Keys |->
                       IF bucket[k] # NoRecord /\ bucket[k].age <= 2 * Window
                         THEN [bucket[k] EXCEPT !.age = @ + 1] ELSE bucket[k]]
      BY DEF Tick
    <2>2. QED
      BY <2>1 DEF Elapsed, Over
  <1>2. ASSUME NEW k \in Keys
        PROVE  Left(k)' = IF Elapsed(k) >= Window THEN Limit ELSE Left(k)
    <2>1. CASE bucket[k] = NoRecord
      BY <2>1 DEF Tick, Elapsed, Left, Over
    <2>2. CASE bucket[k] \in Record /\ bucket[k].age <= 2 * Window
      <3>1. /\ bucket'[k] # NoRecord
            /\ bucket'[k].count = bucket[k].count /\ bucket'[k].age = bucket[k].age + 1
        BY <2>2 DEF Tick
      <3>2. QED
        BY <2>2, <3>1 DEF Elapsed, Left, Over
    <2>3. CASE bucket[k] \in Record /\ bucket[k].age > 2 * Window
      BY <2>3 DEF Tick, Elapsed, Left, Over
    <2>4. QED
      BY <2>1, <2>2, <2>3
  <1>3. granted' = {}
    BY DEF Tick
  <1>4. QED
    BY <1>1, <1>2, <1>3 DEF Windows!TimePasses, Elapsed, Left

(* A sweep forgets only windows that were over.                            *)
LEMMA SweepIsIdle ==
  ASSUME BucketTypeOK, SweepBuckets
  PROVE  Windows!Idle
  <1> USE LimitAssumption, NoRecordAssumption DEF BucketTypeOK, Record
  <1>1. \A k \in Keys : Elapsed(k)' = Elapsed(k) /\ Left(k)' = Left(k)
    BY DEF SweepBuckets, Forgotten, Elapsed, Left, Over
  <1>2. granted' = {}
    BY DEF SweepBuckets
  <1>3. QED
    BY <1>1, <1>2 DEF Windows!Idle, Elapsed, Left

(* A request asks its own window.                                          *)
LEMMA CheckAsks ==
  ASSUME BucketTypeOK, NEW k \in Keys, CheckRateLimit(k)
  PROVE  Windows!Ask(k)
  <1> USE LimitAssumption, NoRecordAssumption DEF BucketTypeOK, Record
  <1>1. \A j \in Keys \ {k} : Elapsed(j)' = Elapsed(j) /\ Left(j)' = Left(j)
    BY DEF CheckRateLimit, Elapsed, Left, Over
  <1>2. CASE Elapsed(k) > Window
    <2>1. Elapsed(k)' = 0 /\ Left(k)' = Limit - 1 /\ granted' = {k}
      BY <1>2 DEF CheckRateLimit, Current, Within, Elapsed, Left, Over
    <2>2. QED
      BY <1>1, <1>2, <2>1 DEF Windows!Ask, Elapsed, Left
  <1>3. CASE Elapsed(k) <= Window /\ Left(k) > 0
    <2>1. Elapsed(k)' = Elapsed(k) /\ Left(k)' = Left(k) - 1 /\ granted' = {k}
      BY <1>3 DEF CheckRateLimit, Current, Within, Elapsed, Left, Over
    <2>2. QED
      BY <1>1, <1>3, <2>1 DEF Windows!Ask, Elapsed, Left
  <1>4. CASE Elapsed(k) <= Window /\ Left(k) = 0
    <2>1. Elapsed(k)' = Elapsed(k) /\ Left(k)' = 0 /\ granted' = {}
      BY <1>4 DEF CheckRateLimit, Current, Within, Elapsed, Left, Over
    <2>2. QED
      BY <1>1, <1>4, <2>1 DEF Windows!Ask, Elapsed, Left
  <1>5. (Elapsed(k) > Window \/ Elapsed(k) <= Window) /\ (Left(k) > 0 \/ Left(k) = 0)
    BY DEF Elapsed, Left, Over
  <1>6. QED
    BY <1>2, <1>3, <1>4, <1>5

(* Sweeping the maps is invisible: a client sees one fixed window per kind *)
(* of request, which is never forgotten while it lasts (checkRateLimit and *)
(* the timer that prunes its maps, server.js).                             *)
THEOREM LimiterImplementsWindows == Spec => ImplementsWindows
  <1>1. Init => Windows!Init
    BY DEF Init, Windows!Init, Over
  <1>2. BucketTypeOK /\ [Next]_vars
          => [Windows!Next]_<<[k \in Keys |->
                                 IF Over(k) THEN Limit
                                 ELSE IF bucket[k].count > Limit THEN 0
                                 ELSE Limit - bucket[k].count],
                              [k \in Keys |-> IF Over(k) THEN Window + 1 ELSE bucket[k].age],
                              granted>>
    <2> SUFFICES ASSUME BucketTypeOK, [Next]_vars
                 PROVE  Windows!Next \/ UNCHANGED vars
      BY DEF vars, Over
    <2>1. QED
      BY TickPasses, SweepIsIdle, CheckAsks DEF Next, Windows!Next
  <1>3. QED
    BY <1>1, <1>2, BucketTypeCorrect, PTL DEF Spec, ImplementsWindows, Windows!Spec

=============================================================================
