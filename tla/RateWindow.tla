----------------------------- MODULE RateWindow -----------------------------
(***************************************************************************)
(* What the rate limiter promises a client: an allowance per fixed window  *)
(* that its first request opens, and a fresh one when the window is over.  *)
(* Nothing is ever forgotten here, and nothing is swept.                   *)
(***************************************************************************)
EXTENDS Naturals

CONSTANTS Keys,      \* the clients, per kind of request
          Window,    \* length of a window, in ticks
          Limit      \* requests admitted in one window

VARIABLES allowance, \* requests a client has left in its window
          elapsed,   \* age of the window, Window + 1 when it is over
          granted    \* requests the last step admitted

Init ==
    /\ allowance = [k \in Keys |-> Limit]
    /\ elapsed = [k \in Keys |-> Window + 1]
    /\ granted = {}

Ask(k) ==
    /\ \/ /\ elapsed[k] > Window
          /\ allowance' = [allowance EXCEPT ![k] = Limit - 1]
          /\ elapsed' = [elapsed EXCEPT ![k] = 0]
          /\ granted' = {k}
       \/ /\ elapsed[k] <= Window
          /\ allowance[k] > 0
          /\ allowance' = [allowance EXCEPT ![k] = @ - 1]
          /\ granted' = {k}
          /\ UNCHANGED elapsed
       \/ /\ elapsed[k] <= Window
          /\ allowance[k] = 0
          /\ granted' = {}
          /\ UNCHANGED <<allowance, elapsed>>

TimePasses ==
    /\ elapsed' = [k \in Keys |-> IF elapsed[k] <= Window THEN elapsed[k] + 1 ELSE elapsed[k]]
    /\ allowance' = [k \in Keys |-> IF elapsed[k] >= Window THEN Limit ELSE allowance[k]]
    /\ granted' = {}

Idle == granted' = {} /\ UNCHANGED <<allowance, elapsed>>

Next == TimePasses \/ Idle \/ \E k \in Keys : Ask(k)

Spec == Init /\ [][Next]_<<allowance, elapsed, granted>>

=============================================================================
