------------------------ MODULE SessionManagerProofs ------------------------
(***************************************************************************)
(* Proofs about SessionManager, for every set of sockets and PINs, every   *)
(* TTL, and clients of either kind.                                        *)
(***************************************************************************)
EXTENDS SessionManager, TLAPS

(* The registry and the states of its sockets, without what was sent: all  *)
(* that the invariants below depend on.                                    *)
RegistryTypeOK ==
    /\ sessions \in [Pins -> Session \cup {NoSession}]
    /\ hostToPin \in [Sockets -> Pins \cup {NoPin}]
    /\ ready \in [Sockets -> ReadyStates]

(* What a destroySession of a set of PINs leaves behind. *)
LEMMA DestroyFacts ==
  ASSUME RegistryTypeOK, NEW ps \in SUBSET Pins, DestroyAll(ps)
  PROVE  /\ sessions' \in [Pins -> Session \cup {NoSession}]
         /\ hostToPin' \in [Sockets -> Pins \cup {NoPin}]
         /\ \A p \in Pins : Live(p)' <=> Live(p) /\ p \notin ps
         /\ \A p \in Pins : Live(p)' => sessions'[p] = sessions[p]
         /\ \A c \in Sockets :
              hostToPin'[c] # NoPin =>
                /\ hostToPin'[c] = hostToPin[c]
                /\ \A p \in ps : Live(p) => sessions[p].host # c
         /\ \A c \in Sockets :
              (\A p \in ps : Live(p) => sessions[p].host # c)
                => hostToPin'[c] = hostToPin[c]
  BY SentinelAssumption DEF DestroyAll, HostLeft, RegistryTypeOK, Live

(* The PINs handleDisconnect looks up are PINs. *)
LEMMA PinsOfType ==
  ASSUME RegistryTypeOK, NEW c \in Sockets
  PROVE  PinsOf(c) \subseteq Pins
  BY DEF PinsOf, RegistryTypeOK

(* Messages put on sockets are messages. *)
LEMMA DeliverType ==
  ASSUME NEW f \in [Sockets -> SUBSET Messages], Deliver(f)
  PROVE  out' \in [Sockets -> SUBSET Messages]
  BY DEF Deliver

(* One message to one socket is a map of messages.                         *)
LEMMA OnlyType ==
  ASSUME NEW t \in {"session-created", "session-joined", "viewer-joined",
                    "invalid_pin", "server_error", "peer-disconnected",
                    "session-expired"},
         NEW target
  PROVE  Only(target, t) \in [Sockets -> SUBSET Messages]
  BY DEF Only, Messages

(* So is no message at all.                                                *)
LEMMA NothingType == Nothing \in [Sockets -> SUBSET Messages]
  BY DEF Nothing

(* What handleDisconnect does to the registry, as one destroyed set. *)
LEMMA DisconnectFacts ==
  ASSUME RegistryTypeOK, NEW c \in Sockets, HandleDisconnect(c)
  PROVE  /\ out' \in [Sockets -> SUBSET Messages]
         /\ \/ PinsOf(c) = {} /\ UNCHANGED registry
            \/ \E p \in PinsOf(c) : p \in Pins /\ DestroyAll({p})
  <1>1. CASE PinsOf(c) = {} /\ out' = Nothing /\ UNCHANGED registry
    BY <1>1, NothingType
  <1>2. CASE \E p \in PinsOf(c) :
               /\ Deliver(Only(Other(p, c), "peer-disconnected"))
               /\ DestroySession(p)
    <2>1. PICK p \in PinsOf(c) :
               /\ Deliver(Only(Other(p, c), "peer-disconnected"))
               /\ DestroySession(p)
      BY <1>2
    <2>2. p \in Pins
      BY <2>1, PinsOfType
    <2>3. out' \in [Sockets -> SUBSET Messages]
      BY <2>1, OnlyType, DeliverType
    <2>4. QED
      BY <2>1, <2>2, <2>3 DEF DestroySession
  <1>3. QED
    BY <1>1, <1>2 DEF HandleDisconnect

-----------------------------------------------------------------------------

(* The empty registry has its type.                                        *)
LEMMA RegistryTypeInit == Init => RegistryTypeOK
  BY DEF Init, RegistryTypeOK, ReadyStates

(* Every step keeps the type of the registry.                              *)
LEMMA RegistryTypeStep ==
  ASSUME RegistryTypeOK, [Next]_vars
  PROVE  RegistryTypeOK'
  <1> USE TTLAssumption
  <1>1. ASSUME UNCHANGED registry, ready' \in [Sockets -> ReadyStates]
        PROVE  RegistryTypeOK'
    BY <1>1 DEF registry, RegistryTypeOK
  <1>2. ASSUME NEW c \in Sockets,
               \/ Connect(c) \/ CreateSessionFails(c) \/ Relay(c)
               \/ ServerCloses(c) \/ Conclude(c)
        PROVE  RegistryTypeOK'
    <2>1. UNCHANGED registry
      BY <1>2 DEF Connect, CreateSessionFails, Relay, ServerCloses, Conclude, registry
    <2>2. ready' \in [Sockets -> ReadyStates]
      BY <1>2 DEF Connect, CreateSessionFails, Relay, ServerCloses, Conclude, RegistryTypeOK,
         ReadyStates
    <2>3. QED
      BY <1>1, <2>1, <2>2
  <1>3. ASSUME NEW c \in Sockets, CreateSession(c) PROVE RegistryTypeOK'
    <2>1. \A p \in Pins :
            [host |-> c, viewer |-> NoSocket, age |-> 0, state |-> "waiting"] \in Session
      BY DEF Session
    <2>2. QED
      BY <1>3, <2>1 DEF CreateSession, RegistryTypeOK
  <1>4. ASSUME NEW c \in Sockets, NEW p \in Pins, JoinSession(c, p)
        PROVE  RegistryTypeOK'
    <2>1. sessions[p] \in Session
      BY <1>4 DEF JoinSession, Waiting, Live, RegistryTypeOK
    <2>2. [sessions[p] EXCEPT !.viewer = c, !.state = "paired"] \in Session
      BY <2>1 DEF Session
    <2>3. QED
      BY <1>4, <2>2 DEF JoinSession, RegistryTypeOK
  <1>5. ASSUME NEW c \in Sockets, NEW p \in Pins, JoinRefused(c, p)
        PROVE  RegistryTypeOK'
    <2>1. ready' \in [Sockets -> ReadyStates]
      BY <1>5 DEF JoinRefused, RegistryTypeOK, ReadyStates
    <2>2. UNCHANGED registry \/ DestroyAll({p})
      BY <1>5 DEF JoinRefused, DestroySession
    <2>3. QED
      BY <2>1, <2>2, DestroyFacts DEF RegistryTypeOK, registry
  <1>6. ASSUME NEW c \in Sockets, EndSession(c) \/ SocketError(c) \/ CloseEvent(c)
        PROVE  RegistryTypeOK'
    <2>1. ready' \in [Sockets -> ReadyStates] /\ HandleDisconnect(c)
      BY <1>6 DEF EndSession, SocketError, CloseEvent, RegistryTypeOK, ReadyStates
    <2>2. UNCHANGED registry \/ \E p \in Pins : DestroyAll({p})
      BY <2>1, DisconnectFacts
    <2>3. QED
      BY <2>1, <2>2, DestroyFacts DEF RegistryTypeOK, registry
  <1>7. CASE Cleanup
    <2>1. \E gone \in SUBSET Pins : DestroyAll(gone)
      BY <1>7 DEF Cleanup
    <2>2. QED
      BY <1>7, <2>1, DestroyFacts DEF Cleanup, RegistryTypeOK
  <1>8. CASE Tick
    <2>1. ASSUME NEW p \in Pins, Live(p), sessions[p].age <= TTL
          PROVE  [sessions[p] EXCEPT !.age = @ + 1] \in Session
      <3>1. sessions[p] \in Session
        BY <2>1 DEF Live, RegistryTypeOK
      <3>2. sessions[p].age + 1 \in 0..TTL + 1
        BY <2>1, <3>1 DEF Session
      <3>3. QED
        BY <3>1, <3>2 DEF Session
    <2>2. sessions' \in [Pins -> Session \cup {NoSession}]
      BY <1>8, <2>1 DEF Tick, RegistryTypeOK
    <2>3. QED
      BY <1>8, <2>2 DEF Tick, RegistryTypeOK
  <1>9. CASE UNCHANGED vars
    BY <1>9 DEF vars, RegistryTypeOK
  <1>10. QED
    BY <1>2, <1>3, <1>4, <1>5, <1>6, <1>7, <1>8, <1>9 DEF Next, SocketStep

(* The registry has its type along every behaviour.                        *)
LEMMA RegistryTypeCorrect == Spec => []RegistryTypeOK
  BY RegistryTypeInit, RegistryTypeStep, PTL DEF Spec

(* A step puts messages of the registry on the sockets, and nothing else.  *)
LEMMA OutputStep ==
  ASSUME RegistryTypeOK, Next
  PROVE  out' \in [Sockets -> SUBSET Messages]
  <1>1. ASSUME NEW c \in Sockets, CreateSession(c) \/ CreateSessionFails(c)
        PROVE  out' \in [Sockets -> SUBSET Messages]
    BY <1>1, OnlyType, DeliverType DEF CreateSession, CreateSessionFails
  <1>2. ASSUME NEW c \in Sockets, NEW p \in Pins, JoinSession(c, p)
        PROVE  out' \in [Sockets -> SUBSET Messages]
    <2> DEFINE f == [w \in Sockets |->
              (IF w = c THEN {Msg("session-joined")} ELSE {})
              \cup (IF w = sessions[p].host THEN {Msg("viewer-joined")} ELSE {})]
    <2>1. f \in [Sockets -> SUBSET Messages]
      BY DEF Messages
    <2>2. QED
      BY <1>2, <2>1, DeliverType DEF JoinSession
  <1>3. ASSUME NEW c \in Sockets, NEW p \in Pins, JoinRefused(c, p)
        PROVE  out' \in [Sockets -> SUBSET Messages]
    BY <1>3, OnlyType, DeliverType DEF JoinRefused
  <1>4. ASSUME NEW c \in Sockets, Relay(c) PROVE out' \in [Sockets -> SUBSET Messages]
    <2>1. PICK p \in PinsOf(c) :
            Deliver([w \in Sockets |-> IF w = Other(p, c) THEN {Relayed(c)} ELSE {}])
      BY <1>4 DEF Relay
    <2>2. [w \in Sockets |-> IF w = Other(p, c) THEN {Relayed(c)} ELSE {}]
            \in [Sockets -> SUBSET Messages]
      BY DEF Messages
    <2>3. QED
      BY <2>1, <2>2, DeliverType
  <1>5. ASSUME NEW c \in Sockets, EndSession(c) \/ SocketError(c) \/ CloseEvent(c)
        PROVE  out' \in [Sockets -> SUBSET Messages]
    BY <1>5, DisconnectFacts DEF EndSession, SocketError, CloseEvent
  <1>6. CASE Cleanup
    <2> DEFINE gone == {p \in Pins : Expired(p)}
               f == [c \in Sockets |->
                       IF \E p \in gone : sessions[p].host = c
                         THEN {Msg("session-expired")} ELSE {}]
    <2>1. f \in [Sockets -> SUBSET Messages]
      BY DEF Messages
    <2>2. QED
      BY <1>6, <2>1, DeliverType DEF Cleanup
  <1>7. ASSUME \/ Tick
               \/ \E c \in Sockets : Connect(c) \/ ServerCloses(c) \/ Conclude(c)
        PROVE  out' \in [Sockets -> SUBSET Messages]
    BY <1>7, NothingType DEF Tick, Connect, ServerCloses, Conclude
  <1>8. QED
    BY <1>1, <1>2, <1>3, <1>4, <1>5, <1>6, <1>7 DEF Next, SocketStep

(* Every field keeps its type: TypeOK of the registry run.                 *)
THEOREM TypeCorrect == Spec => []TypeOK
  <1>1. Init => TypeOK
    BY NothingType DEF Init, TypeOK, ReadyStates
  <1>2. RegistryTypeOK /\ RegistryTypeOK' /\ TypeOK /\ [Next]_vars => TypeOK'
    BY OutputStep DEF RegistryTypeOK, TypeOK, vars
  <1>3. QED
    BY <1>1, <1>2, RegistryTypeCorrect, PTL DEF Spec

-----------------------------------------------------------------------------

(***************************************************************************)
(* How each step changes what the abstract registry sees: the live PINs,   *)
(* their ends, and which sockets are closed.                               *)
(***************************************************************************)
SameSessions ==
    \A p \in Pins :
      /\ Live(p)' <=> Live(p)
      /\ Live(p) => /\ sessions'[p].host = sessions[p].host
                    /\ sessions'[p].viewer = sessions[p].viewer
                    /\ sessions'[p].state = sessions[p].state

Removed(ps) ==
    \A p \in Pins :
      /\ Live(p)' <=> Live(p) /\ p \notin ps
      /\ Live(p)' => /\ sessions'[p].host = sessions[p].host
                     /\ sessions'[p].viewer = sessions[p].viewer

(* A tick changes no session.                                              *)
LEMMA TickSame == ASSUME RegistryTypeOK, Tick PROVE SameSessions
  <1> SUFFICES ASSUME NEW p \in Pins
               PROVE /\ Live(p)' <=> Live(p)
                     /\ Live(p) => /\ sessions'[p].host = sessions[p].host
                                   /\ sessions'[p].viewer = sessions[p].viewer
                                   /\ sessions'[p].state = sessions[p].state
    BY DEF SameSessions
  <1>1. CASE Live(p) /\ sessions[p].age <= TTL
    <2>1. sessions[p] \in Session
      BY <1>1 DEF Live, RegistryTypeOK
    <2>2. sessions'[p] = [sessions[p] EXCEPT !.age = @ + 1]
      BY <1>1 DEF Tick
    <2>3. sessions[p].age + 1 \in 0..TTL + 1
      BY <1>1, <2>1, TTLAssumption DEF Session
    <2>4. /\ sessions'[p] \in Session
          /\ sessions'[p].host = sessions[p].host
          /\ sessions'[p].viewer = sessions[p].viewer
          /\ sessions'[p].state = sessions[p].state
      BY <2>1, <2>2, <2>3 DEF Session
    <2>5. QED
      BY <1>1, <2>4, NoSessionAssumption DEF Live
  <1>2. CASE ~(Live(p) /\ sessions[p].age <= TTL)
    BY <1>2 DEF Tick, Live
  <1>3. QED
    BY <1>1, <1>2

(* What a successful join changes.                                         *)
LEMMA JoinChanges ==
  ASSUME RegistryTypeOK, NEW c \in Sockets, NEW p \in Pins, JoinSession(c, p)
  PROVE  /\ Live(p) /\ Live(p)'
         /\ sessions[p].state = "waiting"
         /\ sessions'[p].host = sessions[p].host
         /\ sessions'[p].viewer = c
         /\ sessions'[p].state = "paired"
         /\ \A q \in Pins \ {p} : sessions'[q] = sessions[q] /\ (Live(q)' <=> Live(q))
  <1>1. Live(p) /\ sessions[p] \in Session /\ sessions[p].state = "waiting"
    BY DEF JoinSession, Waiting, Live, RegistryTypeOK
  <1>2. sessions'[p] = [sessions[p] EXCEPT !.viewer = c, !.state = "paired"]
    BY DEF JoinSession, RegistryTypeOK
  <1>3. /\ sessions'[p] \in Session
        /\ sessions'[p].host = sessions[p].host
        /\ sessions'[p].viewer = c
        /\ sessions'[p].state = "paired"
    BY <1>1, <1>2 DEF Session
  <1>4. QED
    BY <1>1, <1>3, NoSessionAssumption DEF JoinSession, RegistryTypeOK, Live

(* What a successful create changes.                                       *)
LEMMA CreateChanges ==
  ASSUME RegistryTypeOK, NEW c \in Sockets, CreateSession(c)
  PROVE  \E p \in Pins :
           /\ ~Live(p) /\ Live(p)'
           /\ sessions'[p].host = c
           /\ sessions'[p].viewer = NoSocket
           /\ sessions'[p].state = "waiting"
           /\ \A q \in Pins \ {p} : sessions'[q] = sessions[q] /\ (Live(q)' <=> Live(q))
           /\ hostToPin' = [hostToPin EXCEPT ![c] = p]
  <1> DEFINE fresh ==
        [host |-> c, viewer |-> NoSocket, age |-> 0, state |-> "waiting"]
  <1>1. fresh \in Session
    BY TTLAssumption DEF Session
  <1>2. PICK p \in Pins :
          /\ ~Live(p)
          /\ sessions' = [sessions EXCEPT ![p] = fresh]
          /\ hostToPin' = [hostToPin EXCEPT ![c] = p]
    BY DEF CreateSession
  <1>3. sessions'[p] = fresh /\ \A q \in Pins \ {p} : sessions'[q] = sessions[q]
    BY <1>2 DEF RegistryTypeOK
  <1>4. Live(p)'
    BY <1>1, <1>3, NoSessionAssumption DEF Live
  <1>5. \A q \in Pins \ {p} : sessions'[q] = sessions[q] /\ (Live(q)' <=> Live(q))
    BY <1>3 DEF Live
  <1>6. /\ sessions'[p].host = c
        /\ sessions'[p].viewer = NoSocket
        /\ sessions'[p].state = "waiting"
    BY <1>3
  <1>7. QED
    BY <1>2, <1>4, <1>5, <1>6

(* Destroying a set of PINs removes exactly these sessions.                *)
LEMMA DestroyRemoves ==
  ASSUME RegistryTypeOK, NEW ps \in SUBSET Pins, DestroyAll(ps) PROVE Removed(ps)
  BY DestroyFacts DEF Removed

-----------------------------------------------------------------------------
(***************************************************************************)
(* The lookup invariant.  None of its parts is inductive by itself: that a *)
(* host's lookup finds its session needs that it hosts no other one, and   *)
(* that no end outlives its socket (NoDeadEnds) needs that the lookup of a *)
(* closing socket yields the one session it is in.                         *)
(***************************************************************************)

(* A session has a viewer exactly when it is paired (joinSession).         *)
PairedHasViewer ==
    \A p \in Pins :
      Live(p) => (sessions[p].state = "paired" <=> sessions[p].viewer # NoSocket)

LookupInv ==
    /\ PairedHasViewer
    /\ MappingCurrent
    /\ DisciplinedLookup
    /\ OneSessionPerSocket

(* The handleDisconnect lookup is exact for a disciplined socket. *)
LEMMA LookupExact ==
  ASSUME RegistryTypeOK, LookupInv, Disciplined, NEW c \in Sockets, NEW p \in Pins,
         Live(p), c \in Ends(p)
  PROVE  PinsOf(c) = {p}
  <1>0. c # NoSocket
    BY SentinelAssumption
  <1>1. \A q \in Pins : Live(q) /\ c \in Ends(q) => q = p
    BY <1>0 DEF LookupInv, OneSessionPerSocket
  <1>2. CASE c = sessions[p].host
    <2>1. hostToPin[c] = p
      BY <1>2 DEF LookupInv, DisciplinedLookup, ReverseLookup
    <2>2. p # NoPin
      BY SentinelAssumption
    <2>3. QED
      BY <2>1, <2>2 DEF PinsOf
  <1>3. CASE c # sessions[p].host
    <2>1. c = sessions[p].viewer
      BY <1>3 DEF Ends
    <2>2. ASSUME hostToPin[c] # NoPin PROVE FALSE
      <3>1. /\ hostToPin[c] \in Pins
            /\ Live(hostToPin[c])
            /\ sessions[hostToPin[c]].host = c
        BY <2>2 DEF LookupInv, MappingCurrent, RegistryTypeOK
      <3>2. hostToPin[c] = p
        BY <1>1, <3>1 DEF Ends
      <3>3. QED
        BY <1>3, <3>1, <3>2
    <2>3. PinsOf(c) = {q \in Pins : Live(q) /\ sessions[q].viewer = c}
      BY <2>2 DEF PinsOf
    <2>4. QED
      BY <1>1, <2>1, <2>3 DEF Ends
  <1>4. QED
    BY <1>2, <1>3

(* Destroying sessions disturbs no part of the lookup invariant. *)
LEMMA DestroyKeepsLookup ==
  ASSUME RegistryTypeOK, LookupInv, NEW ps \in SUBSET Pins, DestroyAll(ps)
  PROVE  LookupInv'
  <1> USE DestroyFacts
  <1>1. PairedHasViewer'
    BY DEF LookupInv, PairedHasViewer
  <1>2. MappingCurrent'
    <2> SUFFICES ASSUME NEW c \in Sockets, hostToPin'[c] # NoPin
                 PROVE  Live(hostToPin[c])' /\ sessions'[hostToPin'[c]].host = c
      BY DEF MappingCurrent, Live
    <2>1. /\ hostToPin[c] \in Pins
          /\ Live(hostToPin[c])
          /\ sessions[hostToPin[c]].host = c
          /\ hostToPin'[c] = hostToPin[c]
      BY DEF LookupInv, MappingCurrent, RegistryTypeOK
    <2>2. hostToPin[c] \notin ps
      BY <2>1
    <2>3. sessions'[hostToPin[c]] = sessions[hostToPin[c]]
      BY <2>1, <2>2 DEF DestroyAll, HostLeft
    <2>4. QED
      BY <2>1, <2>3 DEF Live
  <1>3. DisciplinedLookup'
    <2> SUFFICES ASSUME Disciplined, NEW p \in Pins, Live(p)'
                 PROVE  hostToPin'[sessions'[p].host] = p
      BY DEF DisciplinedLookup, ReverseLookup
    <2>1. /\ Live(p) /\ p \notin ps /\ sessions'[p] = sessions[p]
          /\ sessions[p].host \in Sockets
      BY DEF Live, RegistryTypeOK, Session
    <2>2. hostToPin[sessions[p].host] = p
      BY <2>1 DEF LookupInv, DisciplinedLookup, ReverseLookup
    <2>3. \A q \in ps : Live(q) => sessions[q].host # sessions[p].host
      BY <2>1, <2>2 DEF LookupInv, DisciplinedLookup, ReverseLookup
    <2>4. QED
      BY <2>1, <2>2, <2>3
  <1>4. OneSessionPerSocket'
    BY DEF LookupInv, OneSessionPerSocket, Ends
  <1>5. QED
    BY <1>1, <1>2, <1>3, <1>4 DEF LookupInv

(* A departure keeps the lookup correct.                                   *)
LEMMA DisconnectKeepsLookup ==
  ASSUME RegistryTypeOK, LookupInv, NEW c \in Sockets, HandleDisconnect(c)
  PROVE  LookupInv'
  <1>1. CASE UNCHANGED registry
    BY <1>1 DEF registry, LookupInv, PairedHasViewer, MappingCurrent,
       DisciplinedLookup, ReverseLookup, OneSessionPerSocket, Ends, Live
  <1>2. CASE \E p \in Pins : DestroyAll({p})
    BY <1>2, DestroyKeepsLookup
  <1>3. QED
    BY <1>1, <1>2, DisconnectFacts

(* The lookup invariant is inductive. *)
LEMMA LookupStep ==
  ASSUME RegistryTypeOK, LookupInv, [Next]_vars
  PROVE  LookupInv'
  <1> USE SentinelAssumption, NoSessionAssumption
  <1>1. ASSUME UNCHANGED registry PROVE LookupInv'
    BY <1>1 DEF registry, LookupInv, PairedHasViewer, MappingCurrent,
       DisciplinedLookup, ReverseLookup, OneSessionPerSocket, Ends, Live
  <1>2. ASSUME NEW c \in Sockets, CreateSession(c) PROVE LookupInv'
    <2>1. PICK p \in Pins :
            /\ ~Live(p) /\ Live(p)'
            /\ sessions'[p].host = c
            /\ sessions'[p].viewer = NoSocket
            /\ sessions'[p].state = "waiting"
            /\ \A q \in Pins \ {p} : sessions'[q] = sessions[q] /\ (Live(q)' <=> Live(q))
            /\ hostToPin' = [hostToPin EXCEPT ![c] = p]
      BY <1>2, CreateChanges
    <2>2. Disciplined => ~Engaged(c)
      BY <1>2 DEF CreateSession, MayAsk
    <2>4. hostToPin'[c] = p /\ \A d \in Sockets \ {c} : hostToPin'[d] = hostToPin[d]
      BY <2>1 DEF RegistryTypeOK
    <2>5. PairedHasViewer'
      BY <2>1 DEF LookupInv, PairedHasViewer
    <2>6. MappingCurrent'
      <3> SUFFICES ASSUME NEW d \in Sockets, hostToPin'[d] # NoPin
                   PROVE  Live(hostToPin[d])' /\ sessions'[hostToPin'[d]].host = d
        BY DEF MappingCurrent, Live
      <3> QED
        BY <2>1, <2>4 DEF LookupInv, MappingCurrent, RegistryTypeOK, Live
    <2>7. DisciplinedLookup'
      <3> SUFFICES ASSUME Disciplined, NEW q \in Pins, Live(q)'
                   PROVE  hostToPin'[sessions'[q].host] = q
        BY DEF DisciplinedLookup, ReverseLookup
      <3>1. CASE q = p
        BY <3>1, <2>1, <2>4
      <3>2. CASE q # p
        <4>1. Live(q) /\ sessions'[q] = sessions[q] /\ sessions[q].host \in Sockets
          BY <3>2, <2>1 DEF Live, RegistryTypeOK, Session
        <4>2. sessions[q].host # c
          BY <4>1, <2>2 DEF Engaged, Ends
        <4>3. QED
          BY <4>1, <4>2, <2>4 DEF LookupInv, DisciplinedLookup, ReverseLookup
      <3>3. QED
        BY <3>1, <3>2
    <2>8. OneSessionPerSocket'
      BY <2>1, <2>2 DEF LookupInv, OneSessionPerSocket, Ends, Engaged
    <2>9. QED
      BY <2>5, <2>6, <2>7, <2>8 DEF LookupInv
  <1>3. ASSUME NEW c \in Sockets, NEW p \in Pins, JoinSession(c, p)
        PROVE  LookupInv'
    <2>1. /\ Live(p) /\ Live(p)'
          /\ sessions'[p].host = sessions[p].host
          /\ sessions'[p].viewer = c
          /\ sessions'[p].state = "paired"
          /\ \A q \in Pins \ {p} : sessions'[q] = sessions[q] /\ (Live(q)' <=> Live(q))
      BY <1>3, JoinChanges
    <2>2. sessions[p] \in Session /\ hostToPin' = hostToPin
      BY <1>3, <2>1 DEF JoinSession, Live, RegistryTypeOK
    <2>3. c # NoSocket
      OBVIOUS
    <2>5. Disciplined => ~Engaged(c)
      BY <1>3 DEF JoinSession, MayAsk
    <2>6. PairedHasViewer'
      BY <2>1, <2>3 DEF LookupInv, PairedHasViewer
    <2>7. MappingCurrent'
      <3> SUFFICES ASSUME NEW d \in Sockets, hostToPin'[d] # NoPin
                   PROVE  Live(hostToPin[d])' /\ sessions'[hostToPin'[d]].host = d
        BY DEF MappingCurrent, Live
      <3> QED
        BY <2>1, <2>2 DEF LookupInv, MappingCurrent, RegistryTypeOK, Live
    <2>8. DisciplinedLookup'
      BY <2>1, <2>2 DEF LookupInv, DisciplinedLookup, ReverseLookup
    <2>9. OneSessionPerSocket'
      BY <2>1, <2>2, <2>3, <2>5 DEF LookupInv, OneSessionPerSocket, Ends, Engaged
    <2>10. QED
      BY <2>6, <2>7, <2>8, <2>9 DEF LookupInv
  <1>4. ASSUME NEW c \in Sockets, NEW p \in Pins, JoinRefused(c, p)
        PROVE  LookupInv'
    BY <1>1, <1>4, DestroyKeepsLookup DEF JoinRefused, DestroySession
  <1>5. ASSUME NEW c \in Sockets, EndSession(c) \/ SocketError(c) \/ CloseEvent(c)
        PROVE  LookupInv'
    BY <1>5, DisconnectKeepsLookup DEF EndSession, SocketError, CloseEvent
  <1>6. CASE Cleanup
    BY <1>6, DestroyKeepsLookup DEF Cleanup
  <1>7. CASE Tick
    <2>1. SameSessions
      BY <1>7, TickSame
    <2>2. hostToPin' = hostToPin
      BY <1>7 DEF Tick
    <2>3. MappingCurrent'
      <3> SUFFICES ASSUME NEW d \in Sockets, hostToPin'[d] # NoPin
                   PROVE  Live(hostToPin[d])' /\ sessions'[hostToPin'[d]].host = d
        BY DEF MappingCurrent, Live
      <3> QED
        BY <2>1, <2>2 DEF SameSessions, LookupInv, MappingCurrent, RegistryTypeOK
    <2>4. PairedHasViewer'
      BY <2>1 DEF SameSessions, LookupInv, PairedHasViewer
    <2>5. DisciplinedLookup'
      BY <2>1, <2>2 DEF SameSessions, LookupInv, DisciplinedLookup, ReverseLookup
    <2>6. OneSessionPerSocket'
      BY <2>1 DEF SameSessions, LookupInv, OneSessionPerSocket, Ends
    <2>7. QED
      BY <2>3, <2>4, <2>5, <2>6 DEF LookupInv
  <1>8. ASSUME NEW c \in Sockets,
               \/ Connect(c) \/ CreateSessionFails(c) \/ Relay(c)
               \/ ServerCloses(c) \/ Conclude(c)
        PROVE  LookupInv'
    BY <1>1, <1>8 DEF Connect, CreateSessionFails, Relay, ServerCloses, Conclude,
       registry
  <1>9. CASE UNCHANGED vars
    BY <1>1, <1>9 DEF vars, registry
  <1>10. QED
    BY <1>2, <1>3, <1>4, <1>5, <1>6, <1>7, <1>8, <1>9 DEF Next, SocketStep

(* LookupInv holds of the empty registry.                                  *)
LEMMA LookupInit == Init => LookupInv
  BY SentinelAssumption DEF Init, LookupInv, PairedHasViewer, MappingCurrent,
     DisciplinedLookup, ReverseLookup, OneSessionPerSocket, Live

(* LookupInv holds along every behaviour.                                  *)
LEMMA LookupCorrect == Spec => []LookupInv
  BY LookupInit, LookupStep, RegistryTypeCorrect, PTL DEF Spec

(* hostToPin never points at a dead or foreign session, for any client.    *)
THEOREM MappingAlwaysCurrent == Spec => []MappingCurrent
  BY LookupCorrect, PTL DEF LookupInv

(* With disciplined clients no socket is in two sessions.                  *)
THEOREM OneSessionEach == Spec => []OneSessionPerSocket
  BY LookupCorrect, PTL DEF LookupInv

(* With disciplined clients hostToPin is the reverse of sessions.          *)
THEOREM LookupTotal == Spec => []DisciplinedLookup
  BY LookupCorrect, PTL DEF LookupInv

-----------------------------------------------------------------------------

(* handleDisconnect of a disciplined socket removes every session it is in. *)
LEMMA DisconnectRemoves ==
  ASSUME RegistryTypeOK, LookupInv, Disciplined, NEW c \in Sockets, HandleDisconnect(c)
  PROVE  Removed({p \in Pins : Live(p) /\ c \in Ends(p)})
  <1> DEFINE mine == {p \in Pins : Live(p) /\ c \in Ends(p)}
  <1>1. CASE PinsOf(c) = {} /\ UNCHANGED registry
    <2>1. mine = {}
      BY <1>1, LookupExact
    <2>2. QED
      BY <1>1, <2>1 DEF Removed, registry, Live
  <1>2. ASSUME NEW p \in PinsOf(c), p \in Pins, DestroyAll({p})
        PROVE  Removed(mine)
    <2>1. Live(p) /\ c \in Ends(p)
      BY <1>2 DEF PinsOf, LookupInv, MappingCurrent, Ends
    <2>2. mine = {p}
      BY <1>2, <2>1, LookupExact
    <2>3. QED
      BY <1>2, <2>2, DestroyRemoves
  <1>3. QED
    BY <1>1, <1>2, DisconnectFacts

-----------------------------------------------------------------------------

(* No session outlives the 'close' event of one of its ends. *)
LEMMA NoDeadEndsStep ==
  ASSUME RegistryTypeOK, LookupInv, NoDeadEnds, [Next]_vars
  PROVE  NoDeadEnds'
  <1> SUFFICES ASSUME Disciplined PROVE NoDeadEnds'
    BY DEF NoDeadEnds
  <1>1. ASSUME NEW ps, Removed(ps),
               \A c \in Sockets : ready'[c] = "closed" => ready[c] = "closed"
        PROVE  NoDeadEnds'
    BY <1>1 DEF NoDeadEnds, Removed, Ends
  <1>2. ASSUME SameSessions,
               \A c \in Sockets : ready'[c] = "closed" => ready[c] = "closed"
        PROVE  NoDeadEnds'
    BY <1>2 DEF NoDeadEnds, SameSessions, Ends
  <1>3. ASSUME UNCHANGED registry PROVE SameSessions
    BY <1>3 DEF SameSessions, registry, Live
  <1>4. ASSUME NEW c \in Sockets,
               \/ Connect(c) \/ CreateSessionFails(c) \/ Relay(c)
               \/ ServerCloses(c) \/ Conclude(c)
        PROVE  NoDeadEnds'
    <2>1. UNCHANGED registry
      BY <1>4 DEF Connect, CreateSessionFails, Relay, ServerCloses, Conclude,
         registry
    <2>2. \A d \in Sockets : ready'[d] = "closed" => ready[d] = "closed"
      BY <1>4 DEF Connect, CreateSessionFails, Relay, ServerCloses, Conclude,
         RegistryTypeOK
    <2>3. QED
      BY <1>2, <1>3, <2>1, <2>2
  <1>5. ASSUME NEW c \in Sockets, CreateSession(c) PROVE NoDeadEnds'
    <2>1. ready' = ready /\ ready[c] # "closed"
      BY <1>5 DEF CreateSession, Receives
    <2>2. QED
      BY <1>5, <2>1, CreateChanges, SentinelAssumption DEF NoDeadEnds, Ends
  <1>6. ASSUME NEW c \in Sockets, NEW p \in Pins, JoinSession(c, p)
        PROVE  NoDeadEnds'
    <2>1. ready' = ready /\ ready[c] # "closed"
      BY <1>6 DEF JoinSession, Receives
    <2>2. QED
      BY <1>6, <2>1, JoinChanges DEF NoDeadEnds, Ends
  <1>7. ASSUME NEW c \in Sockets, NEW p \in Pins, JoinRefused(c, p)
        PROVE  NoDeadEnds'
    <2>1. \A d \in Sockets : ready'[d] = "closed" => ready[d] = "closed"
      BY <1>7 DEF JoinRefused, RegistryTypeOK
    <2>2. UNCHANGED registry \/ DestroyAll({p})
      BY <1>7 DEF JoinRefused, DestroySession
    <2>3. QED
      BY <1>1, <1>2, <1>3, <2>1, <2>2, DestroyRemoves
  <1>8. ASSUME NEW c \in Sockets, EndSession(c) \/ SocketError(c) PROVE NoDeadEnds'
    <2>1. HandleDisconnect(c)
      BY <1>8 DEF EndSession, SocketError
    <2>2. \A d \in Sockets : ready'[d] = "closed" => ready[d] = "closed"
      BY <1>8 DEF EndSession, SocketError, RegistryTypeOK
    <2>3. QED
      BY <1>1, <2>1, <2>2, DisconnectRemoves
  <1>9. ASSUME NEW c \in Sockets, CloseEvent(c) PROVE NoDeadEnds'
    <2>1. \A d \in Sockets \ {c} : ready'[d] = ready[d]
      BY <1>9 DEF CloseEvent, RegistryTypeOK
    <2>2. Removed({p \in Pins : Live(p) /\ c \in Ends(p)})
      BY <1>9, DisconnectRemoves DEF CloseEvent
    <2>3. QED
      BY <2>1, <2>2 DEF NoDeadEnds, Removed, Ends
  <1>10. CASE Cleanup
    <2>1. ready' = ready
      BY <1>10 DEF Cleanup
    <2>2. QED
      BY <1>1, <1>10, <2>1, DestroyRemoves DEF Cleanup
  <1>11. CASE Tick
    <2>1. ready' = ready
      BY <1>11 DEF Tick
    <2>2. QED
      BY <1>2, <1>11, <2>1, TickSame
  <1>12. CASE UNCHANGED vars
    BY <1>2, <1>3, <1>12 DEF vars, registry
  <1>13. QED
    BY <1>4, <1>5, <1>6, <1>7, <1>8, <1>9, <1>10, <1>11, <1>12
       DEF Next, SocketStep

(* With disciplined clients nobody is left in a session whose other end has *)
(* closed: the 'close' handler of either end destroys the session.          *)
THEOREM NoSurvivorStranded == Spec => []NoDeadEnds
  <1>1. Init => NoDeadEnds
    BY DEF Init, NoDeadEnds, Live
  <1>2. RegistryTypeOK /\ LookupInv /\ NoDeadEnds /\ [Next]_vars => NoDeadEnds'
    BY NoDeadEndsStep
  <1>3. QED
    BY <1>1, <1>2, RegistryTypeCorrect, LookupCorrect, PTL DEF Spec

(* A session that is paired keeps its ends, in every step that it survives. *)
KeepsEnds == \A p \in Pins : Paired(p) /\ Live(p)' => Ends(p)' = Ends(p)

(* No step changes the ends of a paired session that survives it.          *)
LEMMA KeepsEndsStep ==
  ASSUME RegistryTypeOK, [Next]_vars
  PROVE  KeepsEnds
  <1> SUFFICES ASSUME NEW p \in Pins, Paired(p), Live(p)'
               PROVE  Ends(p)' = Ends(p)
    BY DEF KeepsEnds
  <1>1. ASSUME UNCHANGED registry PROVE Ends(p)' = Ends(p)
    BY <1>1 DEF registry, Ends
  <1>2. ASSUME NEW ps \in SUBSET Pins, DestroyAll(ps) PROVE Ends(p)' = Ends(p)
    BY <1>2, DestroyFacts DEF Ends
  <1>3. ASSUME NEW c \in Sockets, CreateSession(c) PROVE Ends(p)' = Ends(p)
    BY <1>3, CreateChanges DEF Ends, Paired
  <1>4. ASSUME NEW c \in Sockets, NEW q \in Pins, JoinSession(c, q)
        PROVE  Ends(p)' = Ends(p)
    BY <1>4, JoinChanges DEF Ends, Paired
  <1>5. ASSUME NEW c \in Sockets, NEW q \in Pins, JoinRefused(c, q)
        PROVE  Ends(p)' = Ends(p)
    BY <1>1, <1>2, <1>5 DEF JoinRefused, DestroySession
  <1>6. ASSUME NEW c \in Sockets, EndSession(c) \/ SocketError(c) \/ CloseEvent(c)
        PROVE  Ends(p)' = Ends(p)
    <2>1. HandleDisconnect(c)
      BY <1>6 DEF EndSession, SocketError, CloseEvent
    <2>2. QED
      BY <1>1, <1>2, <2>1, DisconnectFacts
  <1>7. CASE Cleanup
    BY <1>2, <1>7 DEF Cleanup
  <1>8. CASE Tick
    BY <1>8, TickSame DEF SameSessions, Ends, Paired
  <1>9. ASSUME NEW c \in Sockets,
               \/ Connect(c) \/ CreateSessionFails(c) \/ Relay(c)
               \/ ServerCloses(c) \/ Conclude(c)
        PROVE  Ends(p)' = Ends(p)
    BY <1>1, <1>9 DEF Connect, CreateSessionFails, Relay, ServerCloses,
       Conclude, registry
  <1>10. QED
    BY <1>1, <1>3, <1>4, <1>5, <1>6, <1>7, <1>8, <1>9
       DEF Next, SocketStep, vars, registry

(* A PIN serves one viewer: a paired session keeps its ends while it lives, *)
(* for clients of either kind.                                              *)
THEOREM OneViewerPerPin == Spec => PinSingleUse
  BY KeepsEndsStep, RegistryTypeCorrect, PTL DEF Spec, PinSingleUse, KeepsEnds

-----------------------------------------------------------------------------
(* What the handlers send. *)

(* The lookup of a socket yields a session it is an end of.                *)
LEMMA LookupSound ==
  ASSUME RegistryTypeOK, LookupInv, NEW c \in Sockets, NEW p \in PinsOf(c)
  PROVE  p \in Pins /\ Live(p) /\ c \in Ends(p) /\ Ends(p) = {c, Other(p, c)}
  <1>1. p \in Pins
    BY PinsOfType
  <1>2. CASE hostToPin[c] # NoPin
    <2>1. p = hostToPin[c] /\ Live(p) /\ sessions[p].host = c
      BY <1>2 DEF PinsOf, LookupInv, MappingCurrent
    <2>2. QED
      BY <1>1, <2>1 DEF Ends, Other
  <1>3. CASE hostToPin[c] = NoPin
    <2>1. Live(p) /\ sessions[p].viewer = c
      BY <1>3 DEF PinsOf
    <2>2. QED
      BY <1>1, <2>1 DEF Ends, Other
  <1>4. QED
    BY <1>2, <1>3

(* In every step, who survives a paired session is told.                   *)
TellsSurvivors ==
    \A p \in Pins : Paired(p) /\ ~Live(p)' =>
      \A c \in Ends(p) \cap Sockets : ready[c] = "open" => Notified(c) \/ Departs(c)

(* A paired session ends only in a handler that tells the other end: one   *)
(* that has expired still waits.                                           *)
LEMMA SurvivorStep ==
  ASSUME RegistryTypeOK, LookupInv, [Next]_vars
  PROVE  TellsSurvivors
  <1> SUFFICES ASSUME NEW p \in Pins, Paired(p), ~Live(p)',
                      NEW d \in Sockets, d \in Ends(p), ready[d] = "open"
               PROVE  Notified(d) \/ Departs(d)
    BY DEF TellsSurvivors
  <1>1. Live(p) /\ sessions[p].state = "paired"
    BY DEF Paired
  <1>2. ASSUME UNCHANGED registry PROVE FALSE
    BY <1>1, <1>2 DEF registry, Live
  <1>3. ASSUME NEW ps \in SUBSET Pins, DestroyAll(ps) PROVE p \in ps
    BY <1>1, <1>3, DestroyFacts
  <1>4. ASSUME NEW c \in Sockets, EndSession(c) \/ SocketError(c) \/ CloseEvent(c)
        PROVE  Notified(d) \/ Departs(d)
    <2>1. HandleDisconnect(c)
      BY <1>4 DEF EndSession, SocketError, CloseEvent
    <2>2. PICK q \in PinsOf(c) :
                 Deliver(Only(Other(q, c), "peer-disconnected")) /\ DestroySession(q)
      BY <1>2, <2>1 DEF HandleDisconnect
    <2>3. q = p
      BY <1>3, <2>2, LookupSound DEF DestroySession
    <2>4. d \in {c, Other(p, c)}
      BY <2>2, <2>3, LookupSound
    <2>5. CASE d = c
      BY <1>4, <2>5 DEF Departs
    <2>6. CASE d = Other(p, c)
      BY <2>2, <2>3, <2>6 DEF Deliver, Only, Notified
    <2>7. QED
      BY <2>4, <2>5, <2>6
  <1>5. ASSUME NEW c \in Sockets, NEW q \in Pins, JoinRefused(c, q) PROVE FALSE
    <2>1. Expired(q) /\ DestroyAll({q})
      BY <1>2, <1>5 DEF JoinRefused, DestroySession
    <2>2. QED
      BY <1>1, <1>3, <2>1 DEF Expired, Waiting
  <1>6. CASE Cleanup
    BY <1>1, <1>3, <1>6 DEF Cleanup, Expired, Waiting
  <1>7. ASSUME \/ Tick
               \/ \E c \in Sockets : CreateSession(c) \/ \E q \in Pins : JoinSession(c, q)
        PROVE  FALSE
    BY <1>1, <1>7, TickSame, CreateChanges, JoinChanges DEF SameSessions
  <1>8. ASSUME NEW c \in Sockets,
               \/ Connect(c) \/ CreateSessionFails(c) \/ Relay(c)
               \/ ServerCloses(c) \/ Conclude(c)
        PROVE  FALSE
    BY <1>2, <1>8 DEF Connect, CreateSessionFails, Relay, ServerCloses, Conclude, registry
  <1>9. CASE UNCHANGED vars
    BY <1>2, <1>9 DEF vars, registry
  <1>10. QED
    BY <1>4, <1>5, <1>6, <1>7, <1>8, <1>9 DEF Next, SocketStep

(* Whoever is left in a session with both ends is told when it goes, for   *)
(* clients of either kind (handleDisconnect).                              *)
THEOREM SurvivorAlwaysNotified == Spec => SurvivorNotified
  BY SurvivorStep, RegistryTypeCorrect, LookupCorrect, PTL
     DEF Spec, SurvivorNotified, TellsSurvivors

(* In every step, what is relayed stays in its session.                    *)
RelaysWithin ==
    \A c, d \in Sockets : Relayed(c) \in out'[d] =>
      \E p \in Pins : Paired(p) /\ {c, d} = Ends(p)

(* No other handler sends what a relay sends.                              *)
LEMMA NoRelay ==
  ASSUME NEW c, NEW t, t # "relay"
  PROVE  Relayed(c) # Msg(t)
  BY DEF Relayed, Msg

(* A relay goes to the other end of a session, and there is one only when  *)
(* it is paired.                                                           *)
LEMMA RelayStep ==
  ASSUME RegistryTypeOK, LookupInv, Next
  PROVE  RelaysWithin
  <1> SUFFICES ASSUME NEW c \in Sockets, NEW d \in Sockets, Relayed(c) \in out'[d]
               PROVE  \E p \in Pins : Paired(p) /\ {c, d} = Ends(p)
    BY DEF RelaysWithin
  <1>1. ASSUME out' = Nothing PROVE FALSE
    BY <1>1 DEF Nothing
  <1>2. ASSUME NEW f, Deliver(f), Relayed(c) \notin f[d] PROVE FALSE
    BY <1>2 DEF Deliver
  <1>3. ASSUME NEW target, NEW t, t # "relay", Deliver(Only(target, t)) PROVE FALSE
    BY <1>2, <1>3, NoRelay DEF Only
  <1>4. ASSUME NEW a \in Sockets, Relay(a)
        PROVE  \E p \in Pins : Paired(p) /\ {c, d} = Ends(p)
    <2>1. PICK p \in PinsOf(a) :
                 Deliver([w \in Sockets |-> IF w = Other(p, a) THEN {Relayed(a)} ELSE {}])
      BY <1>4 DEF Relay
    <2>2. Relayed(c) = Relayed(a) /\ d = Other(p, a)
      BY <2>1 DEF Deliver
    <2>3. c = a
      BY <2>2 DEF Relayed
    <2>4. p \in Pins /\ Live(p) /\ {c, d} = Ends(p)
      BY <2>1, <2>2, <2>3, LookupSound
    <2>5. sessions[p].viewer # NoSocket /\ sessions[p].state = "paired"
      BY <2>4, SentinelAssumption DEF Ends, LookupInv, PairedHasViewer
    <2>6. QED
      BY <2>4, <2>5 DEF Paired
  <1>5. ASSUME NEW a \in Sockets, EndSession(a) \/ SocketError(a) \/ CloseEvent(a) PROVE FALSE
    <2>1. HandleDisconnect(a)
      BY <1>5 DEF EndSession, SocketError, CloseEvent
    <2>2. QED
      BY <1>1, <1>3, <2>1 DEF HandleDisconnect
  <1>6. ASSUME NEW a \in Sockets, NEW p \in Pins, JoinSession(a, p) PROVE FALSE
    <2> DEFINE f == [w \in Sockets |->
                       (IF w = a THEN {Msg("session-joined")} ELSE {})
                       \cup (IF w = sessions[p].host THEN {Msg("viewer-joined")} ELSE {})]
    <2>1. Deliver(f)
      BY <1>6 DEF JoinSession
    <2>2. Relayed(c) \notin f[d]
      BY NoRelay
    <2>3. QED
      BY <1>2, <2>1, <2>2
  <1>7. ASSUME Cleanup PROVE FALSE
    <2> DEFINE f == [w \in Sockets |->
                       IF \E p \in {q \in Pins : Expired(q)} : sessions[p].host = w
                         THEN {Msg("session-expired")} ELSE {}]
    <2>1. Deliver(f)
      BY <1>7 DEF Cleanup
    <2>2. Relayed(c) \notin f[d]
      BY NoRelay
    <2>3. QED
      BY <1>2, <2>1, <2>2
  <1>8. ASSUME NEW a \in Sockets,
               \/ CreateSession(a) \/ CreateSessionFails(a)
               \/ \E p \in Pins : JoinRefused(a, p)
        PROVE  FALSE
    BY <1>3, <1>8 DEF CreateSession, CreateSessionFails, JoinRefused
  <1>9. ASSUME Tick \/ \E a \in Sockets : Connect(a) \/ ServerCloses(a) \/ Conclude(a)
        PROVE  FALSE
    BY <1>1, <1>9 DEF Tick, Connect, ServerCloses, Conclude
  <1>10. QED
    BY <1>4, <1>5, <1>6, <1>7, <1>8, <1>9 DEF Next, SocketStep

(* What one end sends is relayed to the other end of its session and to    *)
(* nobody else, for clients of either kind (relay).                        *)
THEOREM RelayedWithinSession == Spec => RelayWithinSession
  BY RelayStep, RegistryTypeCorrect, LookupCorrect, PTL
     DEF Spec, RelayWithinSession, RelaysWithin

-----------------------------------------------------------------------------
(* The session manager, used by disciplined clients, implements the        *)
(* abstract registry PinRegistry.                                          *)

(* The refinement mapping of SessionManager, under names of its own. *)
Present == {c \in Sockets : ready[c] # "closed"}
EndsOf(p) ==
    IF Live(p)
      THEN [host |-> sessions[p].host, viewer |-> sessions[p].viewer]
      ELSE NoSession
AbsEnds == [p \in Pins |-> EndsOf(p)]

(* What the abstract registry holds of a session.                          *)
LEMMA MappedHeld ==
  ASSUME RegistryTypeOK, NEW p \in Pins
  PROVE  /\ AbsEnds[p] # NoSession <=> Live(p)
         /\ Live(p) => /\ AbsEnds[p].host = sessions[p].host
                       /\ AbsEnds[p].viewer = sessions[p].viewer
  <1>1. ASSUME Live(p)
        PROVE  [host |-> sessions[p].host, viewer |-> sessions[p].viewer] # NoSession
    <2>1. sessions[p] \in Session
      BY <1>1 DEF Live, RegistryTypeOK
    <2>2. [host |-> sessions[p].host, viewer |-> sessions[p].viewer]
            \in [host : Sockets, viewer : Sockets \cup {NoSocket}]
      BY <2>1 DEF Session
    <2>3. QED
      BY <2>2, NoSessionAssumption
  <1>2. QED
    BY <1>1 DEF AbsEnds, EndsOf

(* A step that changes neither the ends of a session nor who is present. *)
LEMMA SameStutters ==
  ASSUME RegistryTypeOK, SameSessions, Present' = Present
  PROVE  AbsEnds' = AbsEnds
  BY DEF AbsEnds, EndsOf, SameSessions

(* A step that removes sessions is a Release of the abstract registry. *)
LEMMA RemovedReleases ==
  ASSUME RegistryTypeOK, NEW ps \in SUBSET Pins, Removed(ps)
  PROVE  AbsEnds' = [p \in Pins |-> IF p \in ps THEN NoSession ELSE AbsEnds[p]]
  BY DEF AbsEnds, EndsOf, Removed

(* Removing sessions that wait is a lapse.                                 *)
LEMMA RemovedLapses ==
  ASSUME RegistryTypeOK, RegistryTypeOK', LookupInv, NEW ps \in SUBSET Pins, Removed(ps),
         \A p \in ps : Waiting(p),
         Present' = Present
  PROVE  Registry!Lapse
  <1>1. ps \in SUBSET {p \in Pins : Live(p) /\ sessions[p].viewer = NoSocket}
    BY DEF Waiting, LookupInv, PairedHasViewer
  <1>2. \A p \in ps : Live(p) /\ sessions[p].viewer = NoSocket
    BY <1>1
  <1>3. \A p \in ps : Registry!Offered(p)
    BY <1>2, MappedHeld DEF Registry!Offered, Registry!Held, AbsEnds, EndsOf
  <1>4. Registry!Release(ps)
    BY RemovedReleases DEF Registry!Release, AbsEnds, EndsOf
  <1>5. QED
    BY <1>3, <1>4 DEF Registry!Lapse, Present

(* Who is in a session, there and here.                                    *)
LEMMA MappedIn ==
  ASSUME RegistryTypeOK, NEW c \in Sockets, NEW p \in Pins
  PROVE  Registry!In(c, p) <=> Live(p) /\ c \in Ends(p)
  BY MappedHeld DEF Registry!In, Registry!Held, AbsEnds, EndsOf, Ends

(* Removing all the sessions of a party is its release.                    *)
LEMMA RemovedMine ==
  ASSUME RegistryTypeOK, NEW c \in Sockets,
         Removed({p \in Pins : Live(p) /\ c \in Ends(p)})
  PROVE  Registry!Release({p \in Pins : Registry!In(c, p)})
  <1>1. {p \in Pins : Live(p) /\ c \in Ends(p)} = {p \in Pins : Registry!In(c, p)}
    BY MappedIn
  <1>2. QED
    BY <1>1, RemovedReleases DEF Registry!Release, AbsEnds, EndsOf

-----------------------------------------------------------------------------

(* Every step maps to a step of the abstract registry or to a stutter.     *)
LEMMA RefinementStep ==
  ASSUME RegistryTypeOK, RegistryTypeOK', LookupInv, Disciplined, [Next]_vars
  PROVE  [Registry!Next]_(Registry!vars)
  <1> DEFINE Sim == [Registry!Next]_(Registry!vars)
  <1>1. ASSUME SameSessions, Present' = Present PROVE Sim
    BY <1>1, SameStutters DEF Registry!vars, AbsEnds, EndsOf, Present
  <1>2. ASSUME UNCHANGED registry PROVE SameSessions
    BY <1>2 DEF SameSessions, registry, Live
  <1>3. ASSUME NEW c \in Sockets, Connect(c) PROVE Sim
    <2>1. SameSessions
      BY <1>2, <1>3 DEF Connect
    <2>2. c \notin Present /\ Present' = Present \cup {c}
      BY <1>3 DEF Connect, Present, RegistryTypeOK
    <2>3. AbsEnds' = AbsEnds
      BY <2>1 DEF AbsEnds, EndsOf, SameSessions
    <2>4. Registry!Arrive(c)
      BY <2>2, <2>3 DEF Registry!Arrive, Present, AbsEnds, EndsOf
    <2>5. QED
      BY <2>4 DEF Registry!Next
  <1>4. ASSUME NEW c \in Sockets, CreateSession(c) PROVE Sim
    <2>1. PICK p \in Pins :
            /\ ~Live(p) /\ Live(p)'
            /\ sessions'[p].host = c
            /\ sessions'[p].viewer = NoSocket
            /\ \A q \in Pins \ {p} : sessions'[q] = sessions[q] /\ (Live(q)' <=> Live(q))
      BY <1>4, CreateChanges
    <2>2. \A q \in Pins : ~Registry!In(c, q)
      BY <1>4, MappedIn DEF CreateSession, MayAsk, Engaged
    <2>3. c \in Present /\ Present' = Present
      BY <1>4 DEF CreateSession, Receives, Present
    <2>4. AbsEnds' = [AbsEnds EXCEPT ![p] = [host |-> c, viewer |-> NoSocket]]
      BY <2>1 DEF AbsEnds, EndsOf
    <2>5. AbsEnds[p] = NoSession
      BY <2>1 DEF AbsEnds, EndsOf
    <2>6. Registry!Offer(c, p)
      BY <2>2, <2>3, <2>4, <2>5
         DEF Registry!Offer, Registry!Held, Present, AbsEnds, EndsOf
    <2>7. QED
      BY <2>6 DEF Registry!Next
  <1>5. ASSUME NEW c \in Sockets, NEW p \in Pins, JoinSession(c, p) PROVE Sim
    <2>1. /\ Live(p) /\ Live(p)'
          /\ sessions[p].state = "waiting"
          /\ sessions'[p].host = sessions[p].host
          /\ sessions'[p].viewer = c
          /\ \A q \in Pins \ {p} : sessions'[q] = sessions[q] /\ (Live(q)' <=> Live(q))
      BY <1>5, JoinChanges
    <2>2. \A q \in Pins : ~Registry!In(c, q)
      BY <1>5, MappedIn DEF JoinSession, MayAsk, Engaged
    <2>3. c \in Present /\ Present' = Present
      BY <1>5 DEF JoinSession, Receives, Present
    <2>4. sessions[p].viewer = NoSocket
      BY <2>1 DEF LookupInv, PairedHasViewer
    <2>5. Registry!Offered(p)
      BY <2>1, <2>4, MappedHeld DEF Registry!Offered, Registry!Held, AbsEnds, EndsOf
    <2>6. AbsEnds[p] = [host |-> sessions[p].host, viewer |-> NoSocket]
      BY <2>1, <2>4 DEF AbsEnds, EndsOf
    <2>7. AbsEnds' = [q \in Pins |->
                        IF q = p THEN [host |-> sessions[p].host, viewer |-> c]
                                 ELSE AbsEnds[q]]
      BY <2>1 DEF AbsEnds, EndsOf
    <2>8. [AbsEnds[p] EXCEPT !.viewer = c] = [host |-> sessions[p].host, viewer |-> c]
      BY <2>6
    <2>9. AbsEnds' = [AbsEnds EXCEPT ![p].viewer = c]
      BY <2>7, <2>8 DEF AbsEnds
    <2>10. Registry!Accept(c, p)
      BY <2>2, <2>3, <2>5, <2>9 DEF Registry!Accept, Present, AbsEnds, EndsOf
    <2>11. QED
      BY <2>10 DEF Registry!Next
  <1>6. ASSUME NEW c \in Sockets, NEW p \in Pins, JoinRefused(c, p) PROVE Sim
    <2>1. Present' = Present
      BY <1>6 DEF JoinRefused, Receives, Present, RegistryTypeOK
    <2>2. CASE UNCHANGED registry
      BY <1>1, <1>2, <2>1, <2>2
    <2>3. CASE Expired(p) /\ DestroyAll({p})
      <3>1. Removed({p}) /\ \A q \in {p} : Waiting(q)
        BY <2>3, DestroyRemoves DEF Expired
      <3>2. Registry!Lapse
        BY <2>1, <3>1, RemovedLapses
      <3>3. QED
        BY <3>2 DEF Registry!Next
    <2>4. QED
      BY <1>6, <2>2, <2>3 DEF JoinRefused, DestroySession
  <1>7. ASSUME NEW c \in Sockets, EndSession(c) \/ SocketError(c) PROVE Sim
    <2>1. HandleDisconnect(c) /\ Present' = Present
      BY <1>7 DEF EndSession, SocketError, Receives, Present, RegistryTypeOK
    <2>2. Registry!Leave(c)
      BY <2>1, DisconnectRemoves, RemovedMine DEF Registry!Leave, Present
    <2>3. QED
      BY <2>2 DEF Registry!Next
  <1>8. ASSUME NEW c \in Sockets, CloseEvent(c) PROVE Sim
    <2>1. HandleDisconnect(c) /\ c \in Present /\ Present' = Present \ {c}
      BY <1>8 DEF CloseEvent, Present, RegistryTypeOK
    <2>2. Registry!Depart(c)
      BY <2>1, DisconnectRemoves, RemovedMine DEF Registry!Depart, Present
    <2>3. QED
      BY <2>2 DEF Registry!Next
  <1>9. CASE Cleanup
    <2> DEFINE gone == {p \in Pins : Expired(p)}
    <2>1. Removed(gone)
      BY <1>9, DestroyRemoves DEF Cleanup
    <2>2. \A p \in gone : Waiting(p)
      BY DEF Expired
    <2>3. Present' = Present
      BY <1>9 DEF Cleanup, Present
    <2>4. Registry!Lapse
      BY <2>1, <2>2, <2>3, RemovedLapses
    <2>5. QED
      BY <2>4 DEF Registry!Next
  <1>10. CASE Tick
    <2>1. Present' = Present
      BY <1>10 DEF Tick, Present
    <2>2. QED
      BY <1>1, <1>10, <2>1, TickSame
  <1>11. ASSUME NEW c \in Sockets,
                \/ CreateSessionFails(c) \/ Relay(c)
                \/ ServerCloses(c) \/ Conclude(c)
         PROVE  Sim
    <2>1. UNCHANGED registry /\ Present' = Present
      BY <1>11 DEF CreateSessionFails, Relay, ServerCloses, Conclude, Receives,
         registry, Present, RegistryTypeOK
    <2>2. QED
      BY <1>1, <1>2, <2>1
  <1>12. CASE UNCHANGED vars
    <2>1. UNCHANGED registry /\ Present' = Present
      BY <1>12 DEF vars, registry, Present
    <2>2. QED
      BY <1>1, <1>2, <2>1
  <1>13. QED
    BY <1>3, <1>4, <1>5, <1>6, <1>7, <1>8, <1>9, <1>10, <1>11, <1>12
       DEF Next, SocketStep

(* Used by disciplined clients, server/session-manager.js is a registry     *)
(* that ends every session of a party in the very step the party departs.   *)
THEOREM SessionManagerImplementsRegistry ==
  ASSUME Disciplined
  PROVE  Spec => ImplementsRegistry
  <1>1. Init => Registry!Init
    BY DEF Init, Registry!Init, Live
  <1>2. RegistryTypeOK /\ RegistryTypeOK' /\ LookupInv /\ [Next]_vars
          => [Registry!Next]_(Registry!vars)
    BY RefinementStep
  <1>3. QED
    BY <1>1, <1>2, RegistryTypeCorrect, LookupCorrect, PTL
       DEF Spec, ImplementsRegistry, Registry!Spec

=============================================================================
