----------------------------- MODULE PinRegistry -----------------------------
(***************************************************************************)
(* What the session registry promises, without sockets' states, reverse    *)
(* lookups or timers: a PIN is free, offered by a present party, or taken  *)
(* by a host and one viewer; a party that departs ends every session it is *)
(* in, in the same step.                                                   *)
(***************************************************************************)
CONSTANTS
    Parties,   \* those who can host or view
    Pins,      \* names of sessions
    Nobody,    \* the viewer of a session nobody joined yet
    Free       \* a PIN that names no session

VARIABLES
    present,   \* parties that are connected
    ends       \* PIN -> Free, or the host and viewer of its session

vars == <<present, ends>>

Init == present = {} /\ ends = [p \in Pins |-> Free]

Held(p) == ends[p] # Free
Offered(p) == Held(p) /\ ends[p].viewer = Nobody
In(c, p) == Held(p) /\ c \in {ends[p].host, ends[p].viewer}

Release(ps) == ends' = [p \in Pins |-> IF p \in ps THEN Free ELSE ends[p]]

Arrive(c) ==
    /\ c \notin present
    /\ present' = present \cup {c}
    /\ UNCHANGED ends

Offer(c, p) ==
    /\ c \in present
    /\ \A q \in Pins : ~In(c, q)
    /\ ~Held(p)
    /\ ends' = [ends EXCEPT ![p] = [host |-> c, viewer |-> Nobody]]
    /\ UNCHANGED present

Accept(c, p) ==
    /\ c \in present
    /\ \A q \in Pins : ~In(c, q)
    /\ Offered(p)
    /\ ends' = [ends EXCEPT ![p].viewer = c]
    /\ UNCHANGED present

(* Leave every session, and perhaps the server as well. *)
Leave(c) ==
    /\ Release({p \in Pins : In(c, p)})
    /\ UNCHANGED present

Depart(c) ==
    /\ c \in present
    /\ present' = present \ {c}
    /\ Release({p \in Pins : In(c, p)})

(* Only offers lapse; a session with both its ends does not. *)
Lapse ==
    \E ps \in SUBSET {p \in Pins : Offered(p)} : Release(ps) /\ UNCHANGED present

Next ==
    \/ Lapse
    \/ \E c \in Parties :
         \/ Arrive(c) \/ Leave(c) \/ Depart(c)
         \/ \E p \in Pins : Offer(c, p) \/ Accept(c, p)

Spec == Init /\ [][Next]_vars

=============================================================================
