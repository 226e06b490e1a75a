---------------------------- MODULE RateLimiter ----------------------------
(***************************************************************************)
(* The per-IP limits on create-session and join-session (server/server.js, *)
(* checkRateLimit and the timer that sweeps its maps).  Time is relative:  *)
(* a record carries the age of its window, saturated past twice the window *)
(* length, which is all the code asks of it.                               *)
(***************************************************************************)
EXTENDS Integers

CONSTANTS
    Keys,       \* <<kind, ip>>: one bucket entry each
    Window,     \* RATE_WINDOW, in ticks
    Limit,      \* LIMITS[kind]
    NoRecord    \* `undefined' in the bucket

ASSUME LimitAssumption == Window \in Nat \ {0} /\ Limit \in Nat \ {0}

VARIABLES
    bucket,     \* the record of each key, or NoRecord
    granted,    \* keys whose request the last step admitted
    recent      \* history: ages of the last admitted requests, newest first

vars == <<bucket, granted, recent>>

(* `count' saturates where the code can no longer tell it apart. *)
Record == [count : 0..Limit + 1, age : 0..2 * Window + 1]

ASSUME NoRecordAssumption == NoRecord \notin Record

(* One request more than two allowances, counted back from the newest; an  *)
(* age past the window length stands for every greater one and for a       *)
(* request that was never made.                                            *)
Last == 0..2 * Limit

TypeOK ==
    /\ bucket \in [Keys -> Record \cup {NoRecord}]
    /\ granted \subseteq Keys
    /\ recent \in [Keys -> [Last -> 0..Window + 1]]

Init ==
    /\ bucket = [k \in Keys |-> NoRecord]
    /\ granted = {}
    /\ recent = [k \in Keys |-> [i \in Last |-> Window + 1]]

(* The record a request finds: a window that is over starts anew. *)
Current(k) ==
    IF bucket[k] = NoRecord \/ bucket[k].age > Window
      THEN [count |-> 0, age |-> 0] ELSE bucket[k]

(* Faulty variant: the count is compared before this request is added. *)
WithinLate(count) == count <= Limit + 1

Within(count) == count <= Limit

(* checkRateLimit: every request counts, admitted or not. *)
CheckRateLimit(k) ==
    LET count == Current(k).count + 1
        kept  == IF count > Limit THEN Limit + 1 ELSE count
    IN  /\ bucket' = [bucket EXCEPT ![k] = [count |-> kept, age |-> Current(k).age]]
        /\ granted' = IF Within(count) THEN {k} ELSE {}
        /\ recent' = IF Within(count)
                       THEN [recent EXCEPT ![k] =
                               [i \in Last |-> IF i = 0 THEN 0 ELSE recent[k][i - 1]]]
                       ELSE recent

(* Faulty variant: records are swept while they still count. *)
ForgottenEarly(k) == bucket[k] # NoRecord /\ 2 * bucket[k].age > Window

Forgotten(k) == bucket[k] # NoRecord /\ bucket[k].age > 2 * Window

(* The sweep of the maps, whenever its timer fires. *)
SweepBuckets ==
    /\ bucket' = [k \in Keys |-> IF Forgotten(k) THEN NoRecord ELSE bucket[k]]
    /\ granted' = {}
    /\ UNCHANGED recent

Tick ==
    /\ bucket' = [k \in Keys |->
                    IF bucket[k] # NoRecord /\ bucket[k].age <= 2 * Window
                      THEN [bucket[k] EXCEPT !.age = @ + 1] ELSE bucket[k]]
    /\ recent' = [k \in Keys |->
                    [i \in Last |-> IF recent[k][i] <= Window
                                      THEN recent[k][i] + 1 ELSE recent[k][i]]]
    /\ granted' = {}

Next == Tick \/ SweepBuckets \/ \E k \in Keys : CheckRateLimit(k)

Spec == Init /\ [][Next]_vars

-----------------------------------------------------------------------------

(* What a client can get through at most, however it times its requests    *)
(* and whenever the maps are swept: two allowances in any window length.   *)
(* The request admitted 2 * Limit before the newest one is past it.        *)
TwoAllowances == \A k \in Keys : recent[k][2 * Limit] > Window

Over(k) == bucket[k] = NoRecord \/ bucket[k].age > Window

Windows == INSTANCE RateWindow
    WITH allowance <- [k \in Keys |->
                         IF Over(k) THEN Limit
                         ELSE IF bucket[k].count > Limit THEN 0
                         ELSE Limit - bucket[k].count],
         elapsed   <- [k \in Keys |-> IF Over(k) THEN Window + 1 ELSE bucket[k].age]

(* Sweeping the maps is invisible: the limiter does what a window per      *)
(* client does that is never forgotten (the setInterval of server.js).     *)
ImplementsWindows == Windows!Spec

=============================================================================
