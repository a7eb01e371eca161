--------------------------- MODULE Sessions_proofs ---------------------------
(***************************************************************************)
(* Proofs about Sessions.tla for any number of clients, users, messages,   *)
(* socket numbers and SubReactors.                                         *)
(***************************************************************************)
EXTENDS Sessions, Queues, SequenceTheorems, TLAPS

(***************************************************************************)
(* A number and the client that holds it name each other, and an open      *)
(* client's number is registered.                                          *)
(***************************************************************************)
Sockets ==
  /\ \A c \in Clients : link[c] = "new" => fdOf[c] = None
  /\ \A f \in Fds : holder[f] # None =>
       fdOf[holder[f]] = f /\ link[holder[f]] \in {"up", "hungup"}
  /\ \A c \in Clients : link[c] \in {"up", "hungup"} =>
       fdOf[c] \in Fds /\ holder[fdOf[c]] = c /\ reg[fdOf[c]] # None

Base == TypeOK /\ Sockets

\* What a sequence of requests holds after one or many are added, and without
\* its first one.
LEMMA AddFacts ==
  ASSUME NEW S, NEW s \in Seq(S)
  PROVE  /\ \A x \in S : /\ Append(s, x) \in Seq(S)
                         /\ \A y : In(Append(s, x), y) <=> In(s, y) \/ y = x
         /\ \A t \in Seq(S) : /\ s \o t \in Seq(S)
                              /\ \A y : In(s \o t, y) => In(s, y) \/ In(t, y)
<1>1. ASSUME NEW x \in S
      PROVE  /\ Append(s, x) \in Seq(S)
             /\ \A y : In(Append(s, x), y) <=> In(s, y) \/ y = x
  <2> DEFINE t == Append(s, x)
  <2>1. /\ t \in Seq(S) /\ Len(s) \in Nat /\ Len(t) = Len(s) + 1 /\ t[Len(s) + 1] = x
        /\ \A i \in 1..Len(s) : t[i] = s[i]
    BY AppendProperties, LenProperties
  <2>2. /\ \A i \in 1..Len(t) : i \in 1..Len(s) \/ i = Len(s) + 1
        /\ Len(s) + 1 \in 1..Len(t) /\ \A i \in 1..Len(s) : i \in 1..Len(t)
    BY <2>1
  <2> HIDE DEF t
  <2> QED
    BY <2>1, <2>2 DEF In, t
<1>2. ASSUME NEW t \in Seq(S)
      PROVE  /\ s \o t \in Seq(S)
             /\ \A y : In(s \o t, y) => In(s, y) \/ In(t, y)
  <2> DEFINE u == s \o t
  <2>1. /\ u \in Seq(S) /\ Len(s) \in Nat /\ Len(t) \in Nat /\ Len(u) = Len(s) + Len(t)
        /\ \A i \in 1..Len(u) : u[i] = IF i <= Len(s) THEN s[i] ELSE t[i - Len(s)]
    BY ConcatProperties, LenProperties
  <2>2. \A i \in 1..Len(u) :
          IF i <= Len(s) THEN i \in 1..Len(s) ELSE i - Len(s) \in 1..Len(t)
    BY <2>1
  <2> HIDE DEF u
  <2> QED
    BY <2>1, <2>2 DEF In, u
<1> QED
  BY <1>1, <1>2

LEMMA JoinFacts ==
  ASSUME NEW S, NEW s \in Seq(S), NEW t \in Seq(S), NEW u \in Seq(S)
  PROVE  /\ s \o t \o u \in Seq(S)
         /\ \A y : In(s \o t \o u, y) => In(s, y) \/ In(t, y) \/ In(u, y)
<1> DEFINE v == s \o t
<1>1. v \in Seq(S) /\ \A y : In(v, y) => In(s, y) \/ In(t, y)
  BY AddFacts
<1> HIDE DEF v
<1>2. v \o u \in Seq(S) /\ \A y : In(v \o u, y) => In(v, y) \/ In(u, y)
  BY <1>1, AddFacts
<1> QED
  BY <1>1, <1>2 DEF v

LEMMA TakeFirst ==
  ASSUME NEW S, NEW s \in Seq(S), s # <<>>
  PROVE  /\ Head(s) \in S /\ In(s, Head(s)) /\ Tail(s) \in Seq(S)
         /\ \A y : In(Tail(s), y) => In(s, y)
<1> DEFINE t == Tail(s)
<1>1. /\ Head(s) \in S /\ Head(s) = s[1] /\ t \in Seq(S) /\ Len(s) \in Nat
      /\ Len(s) > 0 /\ Len(t) = Len(s) - 1
      /\ \A i \in 1..Len(t) : t[i] = s[i + 1]
  BY HeadTailProperties, LenProperties, EmptySeq
<1>2. 1 \in 1..Len(s) /\ \A i \in 1..Len(t) : i + 1 \in 1..Len(s)
  BY <1>1
<1> HIDE DEF t
<1> QED
  BY <1>1, <1>2 DEF In, t

LEMMA ExceptIn ==
  ASSUME NEW S, NEW T, NEW g \in [S -> T], NEW x \in S, NEW y \in T
  PROVE  [g EXCEPT ![x] = y] \in [S -> T]
OBVIOUS

\* What epoll keeps of a socket number.
LEMMA EntryFacts ==
  /\ \A r \in Reactors, c \in Clients, ev \in Interests :
       /\ Entry(r, c, ev) \in Registrations /\ Entry(r, c, ev) # None
       /\ Entry(r, c, ev).epoll = r /\ Entry(r, c, ev).ptr = c /\ Entry(r, c, ev).ev = ev
  /\ \A e \in Registrations :
       /\ e.epoll \in Reactors /\ e.ptr \in Clients /\ e.ev \in Interests
       /\ e = Entry(e.epoll, e.ptr, e.ev)
  BY SessionsAssumption DEF Entry, Registrations

\* Every registration is still with the same epoll instance, and still names the
\* same chat_conn unless it is one of c's number.
SameRegistrations(c) ==
  /\ reg' \in [Fds -> Registrations \cup {None}]
  /\ \A f \in Fds : reg'[f] # None <=> reg[f] # None
  /\ \A f \in Fds : reg[f] # None =>
       /\ reg'[f].epoll = reg[f].epoll
       /\ reg'[f] = reg[f] \/ (f = fdOf[c] /\ reg'[f].ptr = c /\ reactor[c] = reg[f].epoll)

LEMMA ModfdFacts ==
  ASSUME Base, NEW c \in Clients, NEW ev \in Interests, reg' = Modfd(c, ev)
  PROVE  SameRegistrations(c)
<1> DEFINE n == fdOf[c]
           new == Entry(reactor[c], c, ev)
<1>1. reg \in [Fds -> Registrations \cup {None}]
  BY DEF Base, TypeOK
<1>2. CASE n \in Fds /\ reg[n] # None /\ reg[n].epoll = reactor[c]
  <2>1. reg[n] \in Registrations /\ reactor[c] \in Reactors
    BY <1>1, <1>2, EntryFacts
  <2>2. new \in Registrations /\ new # None /\ new.epoll = reg[n].epoll /\ new.ptr = c
    BY <1>2, <2>1, EntryFacts
  <2>3. reg' = [reg EXCEPT ![n] = new]
    BY <1>2 DEF Modfd
  <2> HIDE DEF n, new
  <2>4. \A f \in Fds : reg'[f] = IF f = n THEN new ELSE reg[f]
    BY <1>1, <1>2, <2>3
  <2> QED
    BY <1>1, <1>2, <2>2, <2>3, <2>4 DEF n, SameRegistrations
<1>3. CASE ~(n \in Fds /\ reg[n] # None /\ reg[n].epoll = reactor[c])
  <2>1. reg' = reg
    BY <1>1, <1>3 DEF Modfd
  <2> QED
    BY <1>1, <2>1 DEF SameRegistrations
<1> QED
  BY <1>2, <1>3

\* What an event tells of its number.
LEMMA EventFacts ==
  ASSUME Base, NEW f \in Fds, event[f] # None
  PROVE  /\ event[f].ptr \in Clients /\ event[f].kind \in {"in", "out", "hup"}
         /\ fdOf[event[f].ptr] = f /\ reactor[event[f].ptr] = reg[f].epoll
         /\ reg[f] \in Registrations /\ reg[f] # None
         /\ holder[f] \in Clients /\ fdOf[holder[f]] = f
         /\ link[holder[f]] \in {"up", "hungup"}
<1>1. event[f] \in Events /\ reg[f] # None /\ reg[f] \in Registrations
  BY DEF Base, TypeOK
<1>2. holder[f] # None
  BY <1>1 DEF Base, TypeOK
<1> QED
  BY <1>1, <1>2 DEF Base, TypeOK, Sockets, Events

\* Events are only handled, none is reported.
EventsLess ==
  /\ event' \in [Fds -> Events \cup {None}]
  /\ \A f \in Fds : event'[f] # None => event'[f] = event[f]

LEMMA HandledFacts ==
  ASSUME Base, NEW f \in Fds, NEW kind, Handles(f, kind)
  PROVE  /\ event[f] # None /\ event[f].kind = kind
         /\ event' = [event EXCEPT ![f] = None]
         /\ EventsLess
BY DEF Base, TypeOK, Handles, EventsLess

\* What epoll_wait does to the numbers F it reports.
Reports(F) ==
  /\ event' \in [Fds -> Events \cup {None}]
  /\ reg' \in [Fds -> Registrations \cup {None}]
  /\ \A f \in Fds \ F : event'[f] = event[f] /\ reg'[f] = reg[f]
  /\ \A f \in F :
       /\ Reported(f)
       /\ reg'[f] # None /\ reg'[f].epoll = reg[f].epoll
       /\ reg'[f].ptr = reg[f].ptr /\ reg'[f].ev = "off"
       /\ event'[f] # None /\ event'[f].ptr = reg[f].ptr
       /\ \/ event'[f].kind = "hup"
          \/ event'[f].kind = "out" /\ reg[f].ev = "out"
          \/ event'[f].kind = "in" /\ unread[holder[f]] # <<>>

LEMMA PollFacts ==
  ASSUME Base, NEW r \in Reactors, Poll(r)
  PROVE  \E F \in SUBSET Fds : Reports(F)
<1>1. PICK F \in SUBSET Ready(r) :
        /\ event' = [f \in Fds |-> IF f \in F THEN EventAt(f) ELSE event[f]]
        /\ reg' = [f \in Fds |-> IF f \in F THEN Entry(r, reg[f].ptr, "off") ELSE reg[f]]
  BY DEF Poll
<1>2. F \in SUBSET Fds
  BY DEF Ready
<1>3. event \in [Fds -> Events \cup {None}] /\ reg \in [Fds -> Registrations \cup {None}]
  BY DEF Base, TypeOK
<1>4. ASSUME NEW f \in F
      PROVE  /\ Reported(f) /\ EventAt(f) \in Events /\ EventAt(f) # None
             /\ EventAt(f).ptr = reg[f].ptr
             /\ Entry(r, reg[f].ptr, "off") \in Registrations
             /\ Entry(r, reg[f].ptr, "off") # None
             /\ Entry(r, reg[f].ptr, "off").epoll = reg[f].epoll
             /\ Entry(r, reg[f].ptr, "off").ptr = reg[f].ptr
             /\ Entry(r, reg[f].ptr, "off").ev = "off"
             /\ \/ EventAt(f).kind = "hup"
                \/ EventAt(f).kind = "out" /\ reg[f].ev = "out"
                \/ EventAt(f).kind = "in" /\ unread[holder[f]] # <<>>
  <2>1. /\ f \in Fds /\ Reported(f) /\ reg[f].epoll = r
        /\ link[holder[f]] = "hungup" \/ unread[holder[f]] # <<>> \/ reg[f].ev = "out"
    BY <1>4 DEF Ready
  <2>2. reg[f] \in Registrations /\ reg[f].ptr \in Clients /\ reg[f].ev \in {"in", "out"}
    BY <1>3, <2>1, EntryFacts DEF Reported, Interests
  <2>3. EventAt(f) \in Events /\ EventAt(f).ptr = reg[f].ptr
    BY <2>2 DEF EventAt, Events
  <2>4. EventAt(f) # None
    BY <2>3, SessionsAssumption
  <2>5. \/ EventAt(f).kind = "hup"
        \/ EventAt(f).kind = "out" /\ reg[f].ev = "out"
        \/ EventAt(f).kind = "in" /\ unread[holder[f]] # <<>>
    BY <2>1, <2>2 DEF EventAt
  <2> QED
    BY <2>1, <2>2, <2>3, <2>4, <2>5, EntryFacts DEF Interests
<1>5. Reports(F)
  BY <1>1, <1>2, <1>3, <1>4 DEF Reports
<1> QED
  BY <1>2, <1>5

\* The worker of c's strand has taken a request, and added none.
TakenFrom(c) ==
  /\ Head(queue[c]) \in Requests /\ In(queue[c], Head(queue[c]))
  /\ Head(queue[c]).from \in Clients /\ Head(queue[c]).user \in Users
  /\ queue' \in [Clients -> Seq(Requests)]
  /\ \A d \in Clients : \A q : In(queue'[d], q) => In(queue[d], q)

LEMMA TakenFacts ==
  ASSUME Base, NEW c \in Clients, TakeLogin(c)
  PROVE  TakenFrom(c)
<1>1. queue[c] \in Seq(Requests) /\ queue[c] # <<>>
      /\ queue \in [Clients -> Seq(Requests)] /\ queue' = [queue EXCEPT ![c] = Tail(@)]
  BY DEF Base, TypeOK, TakeLogin
<1>2. /\ Head(queue[c]) \in Requests /\ In(queue[c], Head(queue[c]))
      /\ Tail(queue[c]) \in Seq(Requests)
      /\ \A y : In(Tail(queue[c]), y) => In(queue[c], y)
  BY <1>1, TakeFirst
<1>3. Head(queue[c]).from \in Clients /\ Head(queue[c]).user \in Users
  BY <1>2 DEF Requests
<1>4. /\ queue' \in [Clients -> Seq(Requests)]
      /\ \A d \in Clients : \A q : In(queue'[d], q) => In(queue[d], q)
  BY <1>1, <1>2
<1> QED
  BY <1>2, <1>3, <1>4 DEF TakenFrom

\* A step that only changes registrations and events that way, and what no part of
\* Base relates to another, keeps Base.
LEMMA KeepsBase ==
  ASSUME Base, NEW c \in Clients, SameRegistrations(c), EventsLess,
         UNCHANGED <<fdOf, reactor, conn_count, holder>>,
         UNCHANGED <<clientVars, userId, map, to, loggedIn, lastLogin>>,
         unread' \in [Clients -> Seq(Requests)], readBuf' \in [Clients -> Seq(Requests)],
         queue' \in [Clients -> Seq(Requests)], awaiting' \subseteq Clients,
         replying' \subseteq Clients, unsent' \subseteq Msgs, leaked' \subseteq Clients,
         buf' \in [Clients -> Msgs \cup {Answer, None}],
         got' \in [Clients -> SUBSET Msgs],
         pushing' \in [Msgs -> Clients \cup {None}]
  PROVE  Base'
<1>1. Sockets'
  BY DEF Base, Sockets, SameRegistrations, clientVars
<1>2. ASSUME NEW f \in Fds, reg'[f] # None
      PROVE  holder'[f] # None /\ fdOf'[reg'[f].ptr] = f /\ reactor'[reg'[f].ptr] = reg'[f].epoll
  <2>1. reg[f] # None /\ holder[f] # None /\ fdOf[reg[f].ptr] = f
        /\ reactor[reg[f].ptr] = reg[f].epoll
    BY <1>2 DEF Base, TypeOK, SameRegistrations
  <2> QED
    BY <2>1 DEF SameRegistrations
<1>3. ASSUME NEW f \in Fds, event'[f] # None
      PROVE  reg'[f] # None /\ fdOf'[event'[f].ptr] = f /\ reactor'[event'[f].ptr] = reg'[f].epoll
  <2>1. event'[f] = event[f] /\ event[f] # None
    BY <1>3 DEF EventsLess
  <2>2. reg[f] # None /\ fdOf[event[f].ptr] = f /\ reactor[event[f].ptr] = reg[f].epoll
    BY <2>1, EventFacts
  <2> QED
    BY <2>1, <2>2 DEF SameRegistrations
<1> QED
  BY <1>1, <1>2, <1>3 DEF Base, TypeOK, SameRegistrations, EventsLess, clientVars

LEMMA BaseInit == Init => Base
<1> SUFFICES ASSUME Init PROVE Base
  OBVIOUS
<1>1. <<>> \in Seq(Requests)
  BY EmptySeq
<1>2. Sockets
  BY SessionsAssumption DEF Init, Sockets
<1>3. \A f \in Fds : reg[f] = None /\ event[f] = None
  BY DEF Init
<1>4. TypeOK
  BY <1>1, <1>3 DEF Init, TypeOK, Keys
<1> QED
  BY <1>2, <1>4 DEF Base

-----------------------------------------------------------------------------
\* What the two outcomes of an EPOLLIN share.
LEMMA ReceiveFacts ==
  ASSUME NEW f \in Fds, Receive(f) \/ ReceiveCut(f)
  PROVE  Handles(f, "in") /\ ReceiveKeeps
<1>1. CASE Receive(f)
  BY <1>1 DEF Receive
<1>2. CASE ReceiveCut(f)
  BY <1>2 DEF ReceiveCut
<1> QED
  BY <1>1, <1>2

LEMMA ReceivedFacts ==
  ASSUME Base, NEW f \in Fds, Receive(f) \/ ReceiveCut(f)
  PROVE  /\ unread' \in [Clients -> Seq(Requests)]
         /\ readBuf' \in [Clients -> Seq(Requests)]
         /\ queue' \in [Clients -> Seq(Requests)]
<1> DEFINE h == holder[f]
           p == event[f].ptr
           cut == readBuf[p] \o unread[h]
           whole == queue[p] \o readBuf[p] \o unread[h]
<1>1. h \in Clients /\ p \in Clients
  <2>1. Handles(f, "in")
    BY ReceiveFacts
  <2> QED
    BY <2>1, EventFacts DEF Handles
<1>2. /\ unread \in [Clients -> Seq(Requests)] /\ readBuf \in [Clients -> Seq(Requests)]
      /\ queue \in [Clients -> Seq(Requests)]
  BY DEF Base, TypeOK
<1>3. cut \in Seq(Requests) /\ <<>> \in Seq(Requests)
  BY <1>1, <1>2, AddFacts, EmptySeq
<1>4. whole \in Seq(Requests)
  <2>1. queue[p] \in Seq(Requests) /\ readBuf[p] \in Seq(Requests) /\ unread[h] \in Seq(Requests)
    BY <1>1, <1>2
  <2> QED
    BY <2>1, JoinFacts
<1>5. /\ unread' = [unread EXCEPT ![h] = <<>>]
      /\ readBuf' = [readBuf EXCEPT ![p] = <<>>] \/ readBuf' = [readBuf EXCEPT ![p] = cut]
      /\ queue' = queue \/ queue' = [queue EXCEPT ![p] = whole]
  <2>1. CASE Receive(f)
    BY <2>1 DEF Receive
  <2>2. CASE ReceiveCut(f)
    BY <2>2 DEF ReceiveCut
  <2> QED
    BY <2>1, <2>2
<1> HIDE DEF h, p, cut, whole
<1>6. unread' \in [Clients -> Seq(Requests)]
  BY <1>1, <1>2, <1>3, <1>5
<1>7. readBuf' \in [Clients -> Seq(Requests)]
  BY <1>1, <1>2, <1>3, <1>4, <1>5
<1>8. queue' \in [Clients -> Seq(Requests)]
  BY <1>1, <1>2, <1>4, <1>5
<1> QED
  BY <1>6, <1>7, <1>8

LEMMA BaseStep == Base /\ [Next]_vars => Base'
<1> SUFFICES ASSUME Base, [Next]_vars PROVE Base'
  OBVIOUS
<1> USE SessionsAssumption DEF Base, TypeOK, Sockets
<1>1. ASSUME NEW c \in Clients, SendLogin(c) PROVE Base'
  <2>1. unread' \in [Clients -> Seq(Requests)]
    <3>1. PICK q \in Requests : unread' = [unread EXCEPT ![c] = Append(unread[c], q)]
      BY <1>1 DEF SendLogin
    <3>2. Append(unread[c], q) \in Seq(Requests)
      BY AddFacts
    <3> QED
      BY <3>1, <3>2
  <2> QED
    BY <1>1, <2>1 DEF SendLogin, connVars, reactorVars, userVars, msgVars
<1>2. ASSUME NEW c \in Clients, HangUp(c) PROVE Base'
  BY <1>2 DEF HangUp, requestVars, reactorVars, connVars, userVars, msgVars
<1>3. ASSUME NEW c \in Clients, NEW f \in Fds, NEW r \in Reactors, Accept(c, f, r)
      PROVE Base'
  <2> DEFINE new == Entry(r, c, "in")
  <2>1. new \in Registrations /\ new # None /\ new.epoll = r /\ new.ptr = c
    BY EntryFacts DEF Interests
  <2>2. reg' = [reg EXCEPT ![f] = new]
    BY <1>3 DEF Accept
  <2>3. event[f] = None
    BY <1>3, EventFacts DEF Accept
  <2> HIDE DEF new
  <2>4. \A d \in Clients : fdOf[d] \in Fds => d # c
    BY <1>3 DEF Accept
  <2>5. \A g \in Fds : event'[g] # None =>
          reg'[g] # None /\ fdOf'[event'[g].ptr] = g /\ reactor'[event'[g].ptr] = reg'[g].epoll
    <3> SUFFICES ASSUME NEW g \in Fds, event'[g] # None
                 PROVE  reg'[g] # None /\ fdOf'[event'[g].ptr] = g
                        /\ reactor'[event'[g].ptr] = reg'[g].epoll
      OBVIOUS
    <3>1. event'[g] = event[g] /\ g # f
      BY <1>3, <2>3 DEF Accept, reactorVars
    <3>2. /\ event[g].ptr \in Clients /\ fdOf[event[g].ptr] = g
          /\ reactor[event[g].ptr] = reg[g].epoll /\ reg[g] # None
      BY <3>1, EventFacts
    <3> QED
      BY <1>3, <2>2, <2>4, <3>1, <3>2 DEF Accept
  <2>6. \A g \in Fds : reg'[g] # None =>
          holder'[g] # None /\ fdOf'[reg'[g].ptr] = g /\ reactor'[reg'[g].ptr] = reg'[g].epoll
    <3> SUFFICES ASSUME NEW g \in Fds, reg'[g] # None
                 PROVE  holder'[g] # None /\ fdOf'[reg'[g].ptr] = g
                        /\ reactor'[reg'[g].ptr] = reg'[g].epoll
      OBVIOUS
    <3>1. CASE g = f
      BY <1>3, <2>1, <2>2, <3>1 DEF Accept
    <3>2. CASE g # f
      <4>1. reg'[g] = reg[g] /\ reg[g].ptr \in Clients
        BY <2>2, <3>2, EntryFacts
      <4> QED
        BY <1>3, <2>4, <3>2, <4>1 DEF Accept
    <3> QED
      BY <3>1, <3>2
  <2>7. Sockets'
    BY <1>3, <2>1, <2>2 DEF Accept
  <2>8. TypeOK'
    BY <1>3, <2>1, <2>2, <2>5, <2>6 DEF Accept, requestVars, reactorVars, userVars, msgVars
  <2> QED
    BY <2>7, <2>8
<1>4. ASSUME NEW f \in Fds, Remove(f) PROVE Base'
  <2> DEFINE h == holder[f]
             p == event[f].ptr
  <2>1. Handles(f, "hup") /\ event[f] # None
    BY <1>4 DEF Remove, Handles
  <2>2. h \in Clients /\ p \in Clients /\ fdOf[h] = f
    BY <2>1, EventFacts
  <2>3. map' \in [Keys -> Clients \cup {None}]
    BY <1>4 DEF Remove
  <2>4. /\ event' = [event EXCEPT ![f] = None]
        /\ reg' = [reg EXCEPT ![f] = None]
        /\ holder' = [holder EXCEPT ![f] = None]
        /\ link' = [link EXCEPT ![h] = "closed"]
        /\ fdOf' = fdOf /\ reactor' = reactor /\ queue' = queue
    BY <1>4 DEF Remove, Handles, connVars
  <2> HIDE DEF h, p
  <2>5. Sockets'
    BY <2>2, <2>4 DEF h
  <2>7. \A g \in Fds : event'[g] # None \/ reg'[g] # None =>
          g # f /\ event'[g] = event[g] /\ reg'[g] = reg[g] /\ holder'[g] = holder[g]
    BY <2>4, EventFacts
  <2>8. \A g \in Fds : event'[g] # None =>
          reg'[g] # None /\ fdOf'[event'[g].ptr] = g /\ reactor'[event'[g].ptr] = reg'[g].epoll
    BY <2>4, <2>7, EventFacts
  <2>9. \A g \in Fds : reg'[g] # None =>
          holder'[g] # None /\ fdOf'[reg'[g].ptr] = g /\ reactor'[reg'[g].ptr] = reg'[g].epoll
    BY <2>4, <2>7
  <2>10. /\ link' \in [Clients -> {"new", "up", "hungup", "closed"}]
         /\ event' \in [Fds -> Events \cup {None}]
         /\ reg' \in [Fds -> Registrations \cup {None}]
         /\ holder' \in [Fds -> Clients \cup {None}]
    BY <2>2, <2>4, ExceptIn
  <2>11. /\ UNCHANGED <<unread, logins, awaiting, pipelined, fdOf, reactor, conn_count, readBuf>>
         /\ UNCHANGED <<queue, replying, userId, buf, leaked, to, unsent, pushing, got>>
         /\ UNCHANGED <<loggedIn, lastLogin>>
    BY <1>4 DEF Remove, requestVars, connVars, msgVars
  <2>6. TypeOK'
    BY <2>3, <2>8, <2>9, <2>10, <2>11
  <2> QED
    BY <2>5, <2>6
<1>5. ASSUME NEW f \in Fds, Receive(f) \/ ReceiveCut(f) PROVE Base'
  <2> DEFINE h == holder[f]
  <2>1. Handles(f, "in") /\ ReceiveKeeps
    BY <1>5, ReceiveFacts
  <2>2. h \in Clients
    BY <2>1, EventFacts, HandledFacts
  <2>6. /\ unread' \in [Clients -> Seq(Requests)] /\ readBuf' \in [Clients -> Seq(Requests)]
        /\ queue' \in [Clients -> Seq(Requests)]
    BY <1>5, ReceivedFacts
  <2> HIDE DEF h
  <2>7. SameRegistrations(h) /\ EventsLess
    <3>1. reg' = reg
      BY <2>1 DEF ReceiveKeeps
    <3> QED
      BY <2>1, <3>1, HandledFacts DEF SameRegistrations
  <2>8. /\ UNCHANGED <<clientVars, awaiting, fdOf, reactor, conn_count, holder, leaked, replying>>
        /\ UNCHANGED <<userId, map, loggedIn, lastLogin, buf, to, unsent, pushing, got>>
    BY <2>1 DEF ReceiveKeeps, connVars, userVars, msgVars
  <2> QED
    BY <2>2, <2>6, <2>7, <2>8, KeepsBase
<1>6. ASSUME NEW f \in Fds, Write(f) \/ SendBlocks(f) \/ SendFails(f) PROVE Base'
  <2> DEFINE h == holder[f]
             p == event[f].ptr
  <2>1. Handles(f, "out")
    BY <1>6 DEF Write, SendBlocks, SendFails, WriteBegins
  <2>2. h \in Clients /\ p \in Clients
    BY <2>1, EventFacts, HandledFacts
  <2>3. reg' = reg \/ reg' = Modfd(p, "in") \/ reg' = Modfd(p, "out")
    BY <1>6 DEF Write, SendBlocks, SendFails
  <2>4. /\ got' \in [Clients -> SUBSET Msgs] /\ buf' \in [Clients -> Msgs \cup {Answer, None}]
        /\ awaiting' \subseteq Clients /\ leaked' \subseteq Clients
    <3>1. CASE Write(f)
      BY <2>2, <3>1 DEF Write, WriteKeeps
    <3>2. CASE SendBlocks(f) \/ SendFails(f)
      BY <2>2, <3>2 DEF SendBlocks, SendFails
    <3> QED
      BY <1>6, <3>1, <3>2
  <2>5. /\ UNCHANGED <<clientVars, unread, readBuf, fdOf, reactor, conn_count, holder, queue>>
        /\ UNCHANGED <<replying, userId, map, loggedIn, lastLogin, to, unsent, pushing>>
    BY <1>6 DEF Write, SendBlocks, SendFails, WriteKeeps, connVars, userVars, msgVars
  <2> HIDE DEF h, p
  <2>6. SameRegistrations(p)
    <3>1. reg' = reg => SameRegistrations(p)
      BY DEF SameRegistrations
    <3>2. "in" \in Interests /\ "out" \in Interests
      BY DEF Interests
    <3> QED
      BY <2>2, <2>3, <3>1, <3>2, ModfdFacts
  <2>7. EventsLess
    BY <2>1, HandledFacts
  <2> QED
    BY <2>2, <2>4, <2>5, <2>6, <2>7, KeepsBase
<1>7. ASSUME NEW c \in Clients, Login(c) PROVE Base'
  <2>1. TakenFrom(c)
    BY <1>7, TakenFacts DEF Login
  <2> QED
    BY <1>7, <2>1 DEF TakenFrom, Login, TakeLogin, clientVars, requestVars, reactorVars, connVars,
                      msgVars, Keys
<1>8. ASSUME NEW c \in Clients, LoginRefused(c) PROVE Base'
  <2>1. TakenFrom(c)
    BY <1>8, TakenFacts DEF LoginRefused
  <2> QED
    BY <1>8, <2>1 DEF TakenFrom, LoginRefused, TakeLogin, clientVars, requestVars, reactorVars,
                      connVars, userVars, msgVars
<1>9. ASSUME NEW c \in Clients, AnswerLogin(c) PROVE Base'
  <2>1. SameRegistrations(c) /\ EventsLess
    BY <1>9, ModfdFacts DEF AnswerLogin, Interests, EventsLess, reactorVars
  <2> QED
    BY <1>9, <2>1, KeepsBase
       DEF AnswerLogin, clientVars, requestVars, reactorVars, connVars, userVars, msgVars
<1>10. ASSUME NEW m \in Msgs, LookUp(m) PROVE Base'
  BY <1>10 DEF LookUp, clientVars, requestVars, reactorVars, connVars, userVars, msgVars, Keys
<1>11. ASSUME NEW m \in Msgs, Push(m) PROVE Base'
  <2> DEFINE c == pushing[m]
  <2>1. c \in Clients /\ reg' = Modfd(c, "out")
    BY <1>11 DEF Push
  <2> HIDE DEF c
  <2>2. SameRegistrations(c) /\ EventsLess
    BY <1>11, <2>1, ModfdFacts DEF Interests, Push, EventsLess, reactorVars
  <2> QED
    BY <1>11, <2>1, <2>2, KeepsBase
       DEF Push, clientVars, requestVars, reactorVars, connVars, userVars, msgVars, c
<1>12. ASSUME NEW c \in Clients, SetActive(c) PROVE Base'
  BY <1>12 DEF SetActive, clientVars, requestVars, reactorVars, connVars, msgVars, Keys
<1>13. ASSUME NEW r \in Reactors, Poll(r) PROVE Base'
  <2>1. PICK F \in SUBSET Fds : Reports(F)
    BY <1>13, PollFacts
  <2>2. /\ UNCHANGED <<clientVars, requestVars, connVars, holder, leaked, queue, replying>>
        /\ UNCHANGED <<userVars, buf, msgVars, got>>
    BY <1>13 DEF Poll
  <2>3. \A f \in Fds : /\ reg'[f] # None <=> reg[f] # None
                       /\ reg[f] # None => reg'[f].epoll = reg[f].epoll /\ reg'[f].ptr = reg[f].ptr
                       /\ event'[f] # None =>
                            event'[f] = event[f] \/ (event'[f].ptr = reg[f].ptr /\ reg[f] # None)
    BY <2>1 DEF Reports, Reported
  <2>4. Sockets'
    BY <2>2, <2>3 DEF clientVars, connVars
  <2>5. \A f \in Fds : reg'[f] # None =>
          holder'[f] # None /\ fdOf'[reg'[f].ptr] = f /\ reactor'[reg'[f].ptr] = reg'[f].epoll
    <3> SUFFICES ASSUME NEW f \in Fds, reg'[f] # None
                 PROVE  holder'[f] # None /\ fdOf'[reg'[f].ptr] = f
                        /\ reactor'[reg'[f].ptr] = reg'[f].epoll
      OBVIOUS
    <3>1. /\ reg[f] # None /\ holder[f] # None /\ fdOf[reg[f].ptr] = f
          /\ reactor[reg[f].ptr] = reg[f].epoll
      BY <2>3
    <3> QED
      BY <2>2, <2>3, <3>1 DEF connVars
  <2>6. \A f \in Fds : event'[f] # None =>
          reg'[f] # None /\ fdOf'[event'[f].ptr] = f /\ reactor'[event'[f].ptr] = reg'[f].epoll
    <3> SUFFICES ASSUME NEW f \in Fds, event'[f] # None
                 PROVE  reg'[f] # None /\ fdOf'[event'[f].ptr] = f
                        /\ reactor'[event'[f].ptr] = reg'[f].epoll
      OBVIOUS
    <3>1. CASE event'[f] = event[f]
      BY <2>2, <2>3, <3>1, EventFacts DEF connVars
    <3>2. CASE event'[f].ptr = reg[f].ptr /\ reg[f] # None
      BY <2>2, <2>3, <3>2 DEF connVars
    <3> QED
      BY <2>3, <3>1, <3>2
  <2>7. TypeOK'
    BY <2>1, <2>2, <2>5, <2>6 DEF Reports, clientVars, requestVars, connVars, userVars, msgVars
  <2> QED
    BY <2>4, <2>7
<1>14. CASE UNCHANGED vars
  BY <1>14 DEF vars, clientVars, requestVars, reactorVars, connVars, userVars, msgVars
<1> QED
  BY <1>1, <1>2, <1>3, <1>4, <1>5, <1>6, <1>7, <1>8, <1>9, <1>10, <1>11, <1>12, <1>13, <1>14
     DEF Next, StrandStep, EventOn

(***************************************************************************)
(* Type correctness: every reachable state is well typed, and epoll's      *)
(* events always go to a chat_conn of that number and that SubReactor.     *)
(***************************************************************************)
THEOREM TypeCorrect == Spec => []TypeOK
<1>1. Spec => []Base
  BY BaseInit, BaseStep, PTL DEF Spec
<1> QED
  BY <1>1, PTL DEF Base
-----------------------------------------------------------------------------
\* Only Accept changes the counts, and only Login, SetActive and Remove what the
\* directory and User hold.
LEMMA FewWriters ==
  ASSUME [Next]_vars
  PROVE  /\ \/ UNCHANGED conn_count
            \/ \E c \in Clients, f \in Fds, r \in Reactors : Accept(c, f, r)
         /\ \/ UNCHANGED userVars
            \/ \E c \in Clients : Login(c) \/ SetActive(c)
            \/ \E f \in Fds : Remove(f)
<1>1. ASSUME NEW c \in Clients, SendLogin(c) \/ HangUp(c) \/ LoginRefused(c) \/ AnswerLogin(c)
      PROVE  UNCHANGED conn_count /\ UNCHANGED userVars
  BY <1>1 DEF SendLogin, HangUp, LoginRefused, TakeLogin, AnswerLogin, connVars
<1>2. ASSUME NEW f \in Fds,
             Receive(f) \/ ReceiveCut(f) \/ Write(f) \/ SendBlocks(f) \/ SendFails(f)
      PROVE  UNCHANGED conn_count /\ UNCHANGED userVars
  BY <1>2 DEF Receive, ReceiveCut, ReceiveKeeps, Write, SendBlocks, SendFails, WriteKeeps, connVars
<1>8. ASSUME NEW r \in Reactors, Poll(r) PROVE UNCHANGED conn_count /\ UNCHANGED userVars
  BY <1>8 DEF Poll, connVars
<1>3. ASSUME NEW m \in Msgs, LookUp(m) \/ Push(m)
      PROVE  UNCHANGED conn_count /\ UNCHANGED userVars
  BY <1>3 DEF LookUp, Push, connVars
<1>4. ASSUME NEW c \in Clients, Login(c) \/ SetActive(c) PROVE UNCHANGED conn_count
  BY <1>4 DEF Login, TakeLogin, SetActive, connVars
<1>5. ASSUME NEW f \in Fds, Remove(f) PROVE UNCHANGED conn_count
  BY <1>5 DEF Remove, connVars
<1>6. ASSUME NEW c \in Clients, NEW f \in Fds, NEW r \in Reactors, Accept(c, f, r)
      PROVE  UNCHANGED userVars
  BY <1>6 DEF Accept
<1>7. CASE UNCHANGED vars
  BY <1>7 DEF vars, connVars
<1> QED
  BY <1>1, <1>2, <1>3, <1>4, <1>5, <1>6, <1>7, <1>8 DEF Next, StrandStep, EventOn

LEMMA SpreadStep == TypeOK /\ EvenlySpread /\ [Next]_vars => EvenlySpread'
<1> SUFFICES ASSUME TypeOK, EvenlySpread, [Next]_vars PROVE EvenlySpread'
  OBVIOUS
<1>1. conn_count \in [Reactors -> Nat]
  BY DEF TypeOK
<1>2. ASSUME NEW c \in Clients, NEW f \in Fds, NEW r \in Reactors, Accept(c, f, r)
      PROVE  EvenlySpread'
  <2>1. conn_count' = [conn_count EXCEPT ![r] = conn_count[r] + 1]
    BY <1>2 DEF Accept
  <2>2. \A s \in Reactors : conn_count[r] <= conn_count[s]
    BY <1>1, <1>2 DEF Accept, IsLeastLoaded
  <2>3. \A s \in Reactors : conn_count'[s] = IF s = r THEN conn_count[s] + 1 ELSE conn_count[s]
    BY <1>1, <2>1
  <2> QED
    BY <1>1, <2>2, <2>3 DEF EvenlySpread
<1>3. CASE UNCHANGED conn_count
  BY <1>3 DEF EvenlySpread
<1> QED
  BY <1>2, <1>3, FewWriters

(***************************************************************************)
(* For any number of connections and SubReactors, the dispatch keeps the   *)
(* counts of two SubReactors within one of each other.                     *)
(***************************************************************************)
THEOREM SpreadEvenly == Spec => []EvenlySpread
<1>1. Init => EvenlySpread
  BY DEF Init, EvenlySpread
<1> QED
  BY <1>1, SpreadStep, TypeCorrect, PTL DEF Spec
-----------------------------------------------------------------------------
(***************************************************************************)
(* While no socket number has been handed out twice, the pointer of an     *)
(* event is the chat_conn of the socket, so that a job, an entry of the    *)
(* directory, a push under way and a buffer all belong to a client of that *)
(* user.                                                                   *)
(***************************************************************************)
RightClients ==
  /\ \A c \in Clients : \A q \in Requests :
       In(unread[c], q) \/ In(readBuf[c], q) \/ In(queue[c], q) => q.from = c
  /\ \A u \in Users : map[u] # None => u \in loggedIn[map[u]]
  /\ \A m \in Msgs : pushing[m] # None => to[m] \in loggedIn[pushing[m]]
  /\ \A c \in Clients : buf[c] \in Msgs => to[buf[c]] \in loggedIn[c]
  /\ OnlyToReceiver

Routing == NumbersFresh => RightClients

\* A socket number that has been handed out twice stays so.
LEMMA FreshBack == ASSUME Base, [Next]_vars, NumbersFresh' PROVE NumbersFresh
<1>1. ASSUME NEW c \in Clients, NEW f \in Fds, NEW r \in Reactors, Accept(c, f, r)
      PROVE  NumbersFresh
  <2>1. fdOf[c] = None
    BY <1>1 DEF Accept, Base, Sockets
  <2>2. \A d \in Clients : d # c => fdOf'[d] = fdOf[d]
    BY <1>1 DEF Accept, Base, TypeOK
  <2> QED
    BY <2>1, <2>2 DEF NumbersFresh
<1>2. CASE UNCHANGED fdOf
  BY <1>2 DEF NumbersFresh
<1>3. ASSUME NEW c \in Clients, SendLogin(c) \/ HangUp(c) \/ StrandStep(c)
      PROVE  UNCHANGED fdOf
  BY <1>3 DEF SendLogin, HangUp, StrandStep, Login, SetActive, LoginRefused, TakeLogin,
              AnswerLogin, connVars
<1>4. ASSUME NEW f \in Fds, EventOn(f) PROVE UNCHANGED fdOf
  BY <1>4, ReceiveFacts DEF EventOn, Remove, ReceiveKeeps, Write, SendBlocks, SendFails,
                            WriteKeeps, connVars
<1>8. ASSUME NEW r \in Reactors, Poll(r) PROVE UNCHANGED fdOf
  BY <1>8 DEF Poll, connVars
<1>5. ASSUME NEW m \in Msgs, LookUp(m) \/ Push(m) PROVE UNCHANGED fdOf
  BY <1>5 DEF LookUp, Push, connVars
<1>6. ASSUME UNCHANGED vars PROVE UNCHANGED fdOf
  BY <1>6 DEF vars, connVars
<1>7. \/ UNCHANGED fdOf
      \/ \E c \in Clients, f \in Fds, r \in Reactors : Accept(c, f, r)
  BY <1>3, <1>4, <1>5, <1>6, <1>8 DEF Next
<1> QED
  BY <1>1, <1>2, <1>7

LEMMA OwnPointer ==
  ASSUME Base, NumbersFresh, NEW f \in Fds, event[f] # None
  PROVE  event[f].ptr \in Clients /\ holder[f] = event[f].ptr
<1>1. /\ event[f].ptr \in Clients /\ fdOf[event[f].ptr] = f
      /\ holder[f] \in Clients /\ fdOf[holder[f]] = f
  BY EventFacts
<1>2. f # None
  BY SessionsAssumption
<1> QED
  BY <1>1, <1>2 DEF NumbersFresh

LEMMA RoutingStep == Base /\ Routing /\ [Next]_vars => Routing'
<1> SUFFICES ASSUME Base, RightClients, NumbersFresh, [Next]_vars PROVE RightClients'
  BY FreshBack DEF Routing
<1> USE SessionsAssumption
<1>0. /\ map \in [Keys -> Clients \cup {None}] /\ userId \in [Clients -> Keys]
      /\ pushing \in [Msgs -> Clients \cup {None}] /\ to \in [Msgs -> Users]
      /\ loggedIn \in [Clients -> SUBSET Users] /\ got \in [Clients -> SUBSET Msgs]
      /\ buf \in [Clients -> Msgs \cup {Answer, None}]
      /\ queue \in [Clients -> Seq(Requests)] /\ unread \in [Clients -> Seq(Requests)]
      /\ readBuf \in [Clients -> Seq(Requests)] /\ Users \subseteq Keys
  BY DEF Base, TypeOK, Keys
<1>1. ASSUME NEW c \in Clients, SendLogin(c) PROVE RightClients'
  <2>1. PICK q \in Requests : q.from = c /\ unread' = [unread EXCEPT ![c] = Append(unread[c], q)]
    BY <1>1 DEF SendLogin
  <2>2. \A y : In(Append(unread[c], q), y) <=> In(unread[c], y) \/ y = q
    BY <1>0, AddFacts
  <2>3. \A d \in Clients : \A y \in Requests : In(unread'[d], y) => y.from = d
    BY <1>0, <2>1, <2>2 DEF RightClients
  <2> QED
    BY <1>1, <2>3 DEF SendLogin, userVars, msgVars, RightClients, OnlyToReceiver
<1>13. ASSUME NEW c \in Clients, HangUp(c) PROVE RightClients'
  BY <1>13 DEF HangUp, requestVars, userVars, msgVars, RightClients, OnlyToReceiver
<1>2. ASSUME NEW c \in Clients, NEW f \in Fds, NEW r \in Reactors, Accept(c, f, r)
      PROVE  RightClients'
  BY <1>2 DEF Accept, requestVars, userVars, msgVars, RightClients, OnlyToReceiver
<1>3. ASSUME NEW f \in Fds, Remove(f) PROVE RightClients'
  <2>1. \A u \in Users : map'[u] = map[u] \/ map'[u] = None
    BY <1>0, <1>3 DEF Remove
  <2> QED
    BY <1>3, <2>1 DEF Remove, requestVars, msgVars, RightClients, OnlyToReceiver
<1>4. ASSUME NEW f \in Fds, Receive(f) \/ ReceiveCut(f) PROVE RightClients'
  <2> DEFINE h == holder[f]
             cut == readBuf[h] \o unread[h]
             whole == queue[h] \o readBuf[h] \o unread[h]
  <2>0. Handles(f, "in") /\ ReceiveKeeps
    BY <1>4, ReceiveFacts
  <2>1. h \in Clients /\ event[f].ptr = h
    BY <2>0, OwnPointer DEF Handles
  <2>2. /\ unread' = [unread EXCEPT ![h] = <<>>]
        /\ readBuf' = [readBuf EXCEPT ![h] = <<>>] \/ readBuf' = [readBuf EXCEPT ![h] = cut]
        /\ queue' = queue \/ queue' = [queue EXCEPT ![h] = whole]
    <3>1. CASE Receive(f)
      BY <2>1, <3>1 DEF Receive
    <3>2. CASE ReceiveCut(f)
      BY <2>1, <3>2 DEF ReceiveCut
    <3> QED
      BY <1>4, <3>1, <3>2
  <2>3. /\ \A y : In(cut, y) => In(readBuf[h], y) \/ In(unread[h], y)
        /\ \A y : ~In(<<>>, y)
    BY <1>0, <2>1, AddFacts, EmptySeq DEF In
  <2>4. \A y : In(whole, y) => In(queue[h], y) \/ In(readBuf[h], y) \/ In(unread[h], y)
    <3>1. queue[h] \in Seq(Requests) /\ readBuf[h] \in Seq(Requests) /\ unread[h] \in Seq(Requests)
      BY <1>0, <2>1
    <3> QED
      BY <3>1, JoinFacts
  <2> HIDE DEF h, cut, whole
  <2>5. \A q \in Requests :
          In(cut, q) \/ In(whole, q) \/ In(unread[h], q) \/ In(readBuf[h], q) \/ In(queue[h], q)
            => q.from = h
    BY <2>1, <2>3, <2>4 DEF RightClients, cut
  <2>6. \A c \in Clients : \A q \in Requests : In(queue'[c], q) => q.from = c
    BY <1>0, <2>1, <2>2, <2>5 DEF RightClients
  <2>7. \A c \in Clients : \A q \in Requests : In(unread'[c], q) => q.from = c
    BY <1>0, <2>2, <2>3 DEF RightClients
  <2>8. \A c \in Clients : \A q \in Requests : In(readBuf'[c], q) => q.from = c
    <3>1. \A c \in Clients : c # h => readBuf'[c] = readBuf[c]
      BY <1>0, <2>2
    <3>2. readBuf'[h] = <<>> \/ readBuf'[h] = cut
      BY <1>0, <2>1, <2>2
    <3> QED
      BY <2>3, <2>5, <3>1, <3>2 DEF RightClients
  <2>9. UNCHANGED <<userVars, buf, msgVars, got>>
    BY <2>0 DEF ReceiveKeeps
  <2> QED
    BY <2>6, <2>7, <2>8, <2>9 DEF userVars, msgVars, RightClients, OnlyToReceiver
<1>5. ASSUME NEW f \in Fds, Write(f) PROVE RightClients'
  <2> DEFINE h == holder[f]
  <2>1. h \in Clients /\ event[f].ptr = h
    BY <1>5, OwnPointer DEF Write, WriteBegins, Handles
  <2>2. /\ got' = [got EXCEPT ![h] = got[h] \cup ({buf[h]} \cap Msgs)]
        /\ buf' = [buf EXCEPT ![h] = None]
        /\ UNCHANGED <<queue, unread, readBuf, map, pushing, to, loggedIn>>
    BY <1>5, <2>1 DEF Write, WriteKeeps, userVars, msgVars
  <2> HIDE DEF h
  <2>3. OnlyToReceiver'
    BY <1>0, <2>1, <2>2 DEF RightClients, OnlyToReceiver
  <2>4. \A c \in Clients : buf'[c] \in Msgs => buf'[c] = buf[c]
    BY <1>0, <2>1, <2>2
  <2> QED
    BY <2>2, <2>3, <2>4 DEF RightClients
<1>14. ASSUME NEW f \in Fds, SendBlocks(f) \/ SendFails(f) PROVE RightClients'
  BY <1>14 DEF SendBlocks, SendFails, WriteKeeps, userVars, msgVars, RightClients, OnlyToReceiver
<1>15. ASSUME NEW r \in Reactors, Poll(r) PROVE RightClients'
  BY <1>15 DEF Poll, requestVars, userVars, msgVars, RightClients, OnlyToReceiver
<1>6. ASSUME NEW c \in Clients, Login(c) PROVE RightClients'
  <2> DEFINE u == Head(queue[c]).user
  <2>1. Head(queue[c]).from = c /\ u \in Users
        /\ \A d \in Clients : \A q : In(queue'[d], q) => In(queue[d], q)
    BY <1>6, TakenFacts DEF RightClients, Login, TakenFrom
  <2>2. UNCHANGED <<unread, readBuf>>
    BY <1>6 DEF Login, TakeLogin, requestVars
  <2>3. /\ map' = [map EXCEPT ![u] = c]
        /\ loggedIn' = [loggedIn EXCEPT ![c] = loggedIn[c] \cup {u}]
        /\ UNCHANGED <<pushing, to, buf, got>>
    BY <1>6, <2>1 DEF Login, TakeLogin, msgVars
  <2> HIDE DEF u
  <2>4. \A d \in Clients : loggedIn[d] \subseteq loggedIn'[d]
    BY <1>0, <2>3
  <2>5. \A v \in Users : map'[v] # None => v \in loggedIn'[map'[v]]
    BY <1>0, <2>1, <2>3, <2>4 DEF RightClients
  <2>6. \A m \in Msgs : pushing'[m] # None => to'[m] \in loggedIn'[pushing'[m]]
    BY <1>0, <2>3, <2>4 DEF RightClients
  <2>7. /\ \A d \in Clients : buf'[d] \in Msgs => to'[buf'[d]] \in loggedIn'[d]
        /\ OnlyToReceiver'
    BY <1>0, <2>3, <2>4 DEF RightClients, OnlyToReceiver
  <2> QED
    BY <2>1, <2>2, <2>5, <2>6, <2>7 DEF RightClients
<1>7. ASSUME NEW c \in Clients, LoginRefused(c) PROVE RightClients'
  <2>1. \A d \in Clients : \A q : In(queue'[d], q) => In(queue[d], q)
    BY <1>7, TakenFacts DEF LoginRefused, TakenFrom
  <2> QED
    BY <1>7, <2>1 DEF LoginRefused, TakeLogin, requestVars, userVars, msgVars, RightClients,
                      OnlyToReceiver
<1>8. ASSUME NEW c \in Clients, AnswerLogin(c) PROVE RightClients'
  <2>1. \A d \in Clients : buf'[d] \in Msgs => buf'[d] = buf[d]
    BY <1>0, <1>8 DEF AnswerLogin
  <2> QED
    BY <1>8, <2>1 DEF AnswerLogin, requestVars, userVars, msgVars, RightClients, OnlyToReceiver
<1>9. ASSUME NEW m \in Msgs, LookUp(m) PROVE RightClients'
  <2>1. pushing' = [pushing EXCEPT ![m] = map[to[m]]] /\ to[m] \in Users
    BY <1>0, <1>9 DEF LookUp
  <2>2. \A n \in Msgs : pushing'[n] # None => to[n] \in loggedIn[pushing'[n]]
    BY <1>0, <2>1 DEF RightClients
  <2> QED
    BY <1>9, <2>2 DEF LookUp, requestVars, userVars, RightClients, OnlyToReceiver
<1>10. ASSUME NEW m \in Msgs, Push(m) PROVE RightClients'
  <2>1. /\ pushing[m] \in Clients /\ pushing' = [pushing EXCEPT ![m] = None]
        /\ buf' = [buf EXCEPT ![pushing[m]] = m]
        /\ UNCHANGED <<queue, unread, readBuf, map, to, loggedIn, got>>
    BY <1>0, <1>10 DEF Push, requestVars, userVars
  <2>2. \A c \in Clients : buf'[c] \in Msgs => to[buf'[c]] \in loggedIn[c]
    BY <1>0, <2>1 DEF RightClients
  <2>3. \A n \in Msgs : pushing'[n] # None => pushing'[n] = pushing[n]
    BY <1>0, <2>1
  <2> QED
    BY <2>1, <2>2, <2>3 DEF RightClients, OnlyToReceiver
<1>11. ASSUME NEW c \in Clients, SetActive(c) PROVE RightClients'
  BY <1>11 DEF SetActive, requestVars, msgVars, RightClients, OnlyToReceiver
<1>12. CASE UNCHANGED vars
  BY <1>12 DEF vars, requestVars, userVars, msgVars, RightClients, OnlyToReceiver
<1> QED
  BY <1>1, <1>2, <1>3, <1>4, <1>5, <1>6, <1>7, <1>8, <1>9, <1>10, <1>11, <1>12,
     <1>13, <1>14, <1>15 DEF Next, StrandStep, EventOn

(***************************************************************************)
(* Until a socket number is handed out a second time, every chat message   *)
(* reaches only clients that gave the password of its receiver, for any    *)
(* number of clients, users and messages.                                  *)
(***************************************************************************)
THEOREM FreshNumbersRoute == Spec => []FreshNumbersRouteRight
<1>1. Init => Routing
  BY EmptySeq, SessionsAssumption DEF Init, Routing, RightClients, OnlyToReceiver, In, Keys
<1>2. Spec => []Base
  BY BaseInit, BaseStep, PTL DEF Spec
<1>3. Routing => FreshNumbersRouteRight
  BY DEF Routing, RightClients, FreshNumbersRouteRight
<1> QED
  BY <1>1, <1>2, <1>3, RoutingStep, PTL DEF Spec
-----------------------------------------------------------------------------
Busy(c) == queue[c] # <<>> \/ c \in replying
Open(c) == link[c] \in {"up", "hungup"}
Interest(c) == reg[fdOf[c]].ev
EventOf(c) == event[fdOf[c]]
Pending(c) == EventOf(c) # None
OutDue(c) == Open(c) /\ (Interest(c) = "out" \/ (Pending(c) /\ EventOf(c).kind = "out"))

(***************************************************************************)
(* Undisturbed, a request of an open connection is in one place: in the    *)
(* socket, in the queue, on a worker, or answered in the buffer; and the   *)
(* one-shot interest is off exactly while there is an event or a job,      *)
(* never both, unless a hang-up or a failed send() has stopped it all.     *)
(***************************************************************************)
OneTurn(c) ==
  /\ Busy(c) => Open(c) /\ Interest(c) = "off" /\ ~Pending(c) /\ unread[c] = <<>>
  /\ Open(c) /\ Pending(c) => Interest(c) = "off"
  /\ Open(c) /\ Pending(c) /\ EventOf(c).kind = "in" => unread[c] # <<>>
  /\ leaked = {} /\ Open(c) /\ Interest(c) = "off" /\ readBuf[c] = <<>> => Busy(c) \/ Pending(c)
  /\ queue[c] # <<>> => Tail(queue[c]) = <<>> /\ c \notin replying
  /\ unread[c] # <<>> => Tail(unread[c]) = <<>>
  /\ link[c] \in {"new", "up"} => readBuf[c] = <<>>
  /\ OutDue(c) => buf[c] = Answer /\ unread[c] = <<>>
  /\ c \notin awaiting => unread[c] = <<>> /\ ~Busy(c) /\ ~OutDue(c)

PointersRight ==
  \A f \in Fds : /\ reg[f] # None => reg[f].ptr = holder[f]
                 /\ event[f] # None => event[f].ptr = holder[f]

OneJobOrInterest ==
  /\ \A m \in Msgs : pushing[m] = None
  /\ PointersRight
  /\ \A c \in Clients : OneTurn(c)

Armed == Undisturbed => OneJobOrInterest

\* What a step leaves alone of a connection it is not about.
Untouched(c) ==
  /\ link'[c] = link[c]
  /\ Open(c) => Interest(c)' = Interest(c) /\ EventOf(c)' = EventOf(c)
  /\ queue'[c] = queue[c] /\ (c \in replying' <=> c \in replying)
  /\ unread'[c] = unread[c] /\ readBuf'[c] = readBuf[c] /\ buf'[c] = buf[c]
  /\ c \in awaiting' <=> c \in awaiting
  /\ leaked \subseteq leaked'

LEMMA UntouchedTurn ==
  ASSUME NEW c \in Clients, OneTurn(c), Untouched(c)
  PROVE  OneTurn(c)'
BY DEF OneTurn, Untouched, Busy, Open, Pending, OutDue

LEMMA OneJob == \A S : \A x \in S : Append(<<>>, x) # <<>> /\ Tail(Append(<<>>, x)) = <<>>
<1> SUFFICES ASSUME NEW S, NEW x \in S
             PROVE  Append(<<>>, x) # <<>> /\ Tail(Append(<<>>, x)) = <<>>
  OBVIOUS
<1> DEFINE t == Append(<<>>, x)
<1>1. <<>> \in Seq(S) /\ Len(<<>>) = 0
  BY EmptySeq
<1>2. t \in Seq(S) /\ Len(t) = 1 /\ t # <<>>
  BY <1>1, AppendProperties, LenProperties
<1> HIDE DEF t
<1>3. Tail(t) \in Seq(S) /\ Len(Tail(t)) = 0
  BY <1>2, HeadTailProperties, LenProperties, EmptySeq
<1> QED
  BY <1>2, <1>3, EmptySeq DEF t

\* What disturbed once stays disturbed, and the steps that disturb.
LEMMA UndisturbedBack ==
  ASSUME TypeOK, [Next]_vars, Undisturbed'
  PROVE  /\ Undisturbed
         /\ ~\E m \in Msgs : LookUp(m)
         /\ \A c \in Clients : SendLogin(c) => c \notin awaiting
<1>1. ASSUME NEW c \in Clients, HangUp(c) \/ StrandStep(c)
      PROVE  UNCHANGED <<unsent, pipelined>>
  BY <1>1 DEF HangUp, StrandStep, Login, SetActive, LoginRefused, TakeLogin,
              AnswerLogin, clientVars, msgVars
<1>2. ASSUME NEW c \in Clients, NEW f \in Fds, NEW r \in Reactors, Accept(c, f, r)
      PROVE  UNCHANGED <<unsent, pipelined>>
  BY <1>2 DEF Accept, clientVars, msgVars
<1>3. ASSUME NEW f \in Fds, EventOn(f) PROVE UNCHANGED <<unsent, pipelined>>
  BY <1>3, ReceiveFacts DEF EventOn, Remove, ReceiveKeeps, Write, SendBlocks, SendFails, WriteKeeps,
                            clientVars, msgVars
<1>9. ASSUME NEW r \in Reactors, Poll(r) PROVE UNCHANGED <<unsent, pipelined>>
  BY <1>9 DEF Poll, clientVars, msgVars
<1>4. ASSUME NEW m \in Msgs, Push(m) PROVE UNCHANGED <<unsent, pipelined>>
  BY <1>4 DEF Push, clientVars
<1>5. ASSUME UNCHANGED vars PROVE UNCHANGED <<unsent, pipelined>>
  BY <1>5 DEF vars, clientVars, msgVars
<1>6. ASSUME NEW m \in Msgs, LookUp(m) PROVE FALSE
  BY <1>6 DEF LookUp, Undisturbed
<1>7. ASSUME NEW c \in Clients, SendLogin(c)
      PROVE  UNCHANGED unsent /\ ~pipelined /\ c \notin awaiting
  BY <1>7 DEF SendLogin, Undisturbed, msgVars
<1>8. \/ UNCHANGED <<unsent, pipelined>>
      \/ UNCHANGED unsent /\ ~pipelined
  BY <1>1, <1>2, <1>3, <1>4, <1>5, <1>6, <1>7, <1>9 DEF Next
<1> QED
  BY <1>6, <1>7, <1>8 DEF Undisturbed

\* Who is who on an undisturbed system.
Known ==
  /\ reg \in [Fds -> Registrations \cup {None}] /\ event \in [Fds -> Events \cup {None}]
  /\ link \in [Clients -> {"new", "up", "hungup", "closed"}]
  /\ holder \in [Fds -> Clients \cup {None}] /\ fdOf \in [Clients -> Fds \cup {None}]
  /\ queue \in [Clients -> Seq(Requests)] /\ unread \in [Clients -> Seq(Requests)]
  /\ readBuf \in [Clients -> Seq(Requests)] /\ buf \in [Clients -> Msgs \cup {Answer, None}]
  /\ awaiting \subseteq Clients /\ leaked \subseteq Clients /\ replying \subseteq Clients
  /\ \A c \in Clients : Open(c) =>
       fdOf[c] \in Fds /\ holder[fdOf[c]] = c /\ reg[fdOf[c]] # None
  /\ \A f \in Fds : reg[f] # None =>
       holder[f] \in Clients /\ Open(holder[f]) /\ fdOf[holder[f]] = f
  /\ \A f \in Fds : event[f] # None => reg[f] # None

LEMMA KnownFacts == Base => Known
BY DEF Base, TypeOK, Sockets, Open, Known

\* The event of number f, about its holder h, is handled: nobody else is touched by
\* what becomes of the number and of h.
LEMMA HandledOne ==
  ASSUME Base, OneJobOrInterest, NEW f \in Fds, NEW kind, Handles(f, kind)
  PROVE  \E h \in Clients :
           /\ h = holder[f] /\ h = event[f].ptr
           /\ Open(h) /\ fdOf[h] = f /\ reg[f] \in Registrations /\ reg[f] # None
           /\ reg[f].ptr = h /\ reg[f].epoll = reactor[h]
           /\ Pending(h) /\ EventOf(h).kind = kind /\ Interest(h) = "off" /\ ~Busy(h)
           /\ fdOf' = fdOf => ~Pending(h)'
           /\ \A d \in Clients : d # h /\ Open(d) => fdOf[d] # f
           /\ fdOf' = fdOf => \A d \in Clients : d # h /\ Open(d) => EventOf(d)' = EventOf(d)
<1>1. /\ event[f] # None /\ event[f].kind = kind
      /\ event' = [event EXCEPT ![f] = None]
  BY HandledFacts
<1>2. /\ holder[f] \in Clients /\ fdOf[holder[f]] = f /\ link[holder[f]] \in {"up", "hungup"}
      /\ reg[f] \in Registrations /\ reg[f] # None /\ reactor[event[f].ptr] = reg[f].epoll
  BY <1>1, EventFacts
<1>3. event[f].ptr = holder[f] /\ reg[f].ptr = holder[f]
  BY <1>1, <1>2 DEF OneJobOrInterest, PointersRight
<1>4. PICK h \in Clients : h = holder[f]
  BY <1>2
<1>5. Open(h) /\ Pending(h) /\ EventOf(h).kind = kind
  BY <1>1, <1>2, <1>4 DEF Open, Pending, EventOf
<1>6. Interest(h) = "off" /\ ~Busy(h)
  BY <1>5 DEF OneJobOrInterest, OneTurn
<1>7. \A d \in Clients : d # h /\ Open(d) => fdOf[d] # f /\ fdOf[d] \in Fds
  BY <1>4, KnownFacts DEF Known
<1>8. event \in [Fds -> Events \cup {None}]
  BY DEF Base, TypeOK
<1>9. fdOf' = fdOf => ~Pending(h)'
  BY <1>1, <1>2, <1>4, <1>8 DEF Pending, EventOf
<1>10. fdOf' = fdOf => \A d \in Clients : d # h /\ Open(d) => EventOf(d)' = EventOf(d)
  BY <1>1, <1>7, <1>8 DEF EventOf
<1> QED
  BY <1>2, <1>3, <1>4, <1>5, <1>6, <1>7, <1>9, <1>10

\* The one-shot interest of c's number is set, and nobody else's is touched.
LEMMA ModfdOne ==
  ASSUME Base, PointersRight, NEW c \in Clients, Open(c), NEW ev \in Interests,
         reg[fdOf[c]].epoll = reactor[c], reg' = Modfd(c, ev), fdOf' = fdOf
  PROVE  /\ Interest(c)' = ev
         /\ \A d \in Clients : d # c /\ Open(d) => Interest(d)' = Interest(d)
         /\ \A g \in Fds : reg'[g] # None => reg'[g].ptr = holder[g]
<1> DEFINE f == fdOf[c]
           new == Entry(reactor[c], c, ev)
<1>1. Known
  BY KnownFacts
<1>2. f \in Fds /\ holder[f] = c /\ reg[f] # None /\ reg[f] \in Registrations
  BY <1>1 DEF Known
<1>3. new.ptr = c /\ new.ev = ev
  BY <1>2, EntryFacts
<1>4. reg' = [reg EXCEPT ![f] = new]
  BY <1>2 DEF Modfd
<1>5. reg \in [Fds -> Registrations \cup {None}]
  BY <1>1 DEF Known
<1>6. \A d \in Clients : d # c /\ Open(d) => fdOf[d] # f
  BY <1>1, <1>2 DEF Known
<1> HIDE DEF new
<1>7. reg'[f] = new /\ \A g \in Fds : g # f => reg'[g] = reg[g]
  BY <1>2, <1>4, <1>5
<1>8. Interest(c)' = ev
  BY <1>3, <1>7 DEF Interest
<1>9. \A d \in Clients : d # c /\ Open(d) => Interest(d)' = Interest(d)
  BY <1>1, <1>6, <1>7 DEF Interest, Known
<1>10. \A g \in Fds : reg'[g] # None => reg'[g].ptr = holder[g]
  BY <1>2, <1>3, <1>7 DEF PointersRight
<1> QED
  BY <1>8, <1>9, <1>10

LEMMA ArmedStep == Base /\ Armed /\ [Next]_vars => Armed'
<1> SUFFICES ASSUME Base, OneJobOrInterest, [Next]_vars, ~\E m \in Msgs : LookUp(m),
                    \A c \in Clients : SendLogin(c) => c \notin awaiting
             PROVE  OneJobOrInterest'
  BY UndisturbedBack DEF Armed, Base
<1> USE SessionsAssumption
<1>0. Known /\ PointersRight /\ \A c \in Clients : OneTurn(c)
  BY KnownFacts DEF OneJobOrInterest
\* It is enough to look at the connection a step is about.
<1>a. ASSUME NEW c \in Clients, OneTurn(c)', \A d \in Clients : d # c => Untouched(d),
             PointersRight', UNCHANGED pushing
      PROVE  OneJobOrInterest'
  BY <1>0, <1>a, UntouchedTurn DEF OneJobOrInterest
<1>1. ASSUME NEW c \in Clients, SendLogin(c) PROVE OneJobOrInterest'
  <2>1. link[c] = "up" /\ unread[c] = <<>> /\ ~Busy(c) /\ ~OutDue(c)
    BY <1>0, <1>1 DEF SendLogin, OneTurn
  <2>2. PICK q \in Requests : unread' = [unread EXCEPT ![c] = Append(<<>>, q)]
    BY <1>1, <2>1 DEF SendLogin
  <2>3. Tail(unread'[c]) = <<>> /\ unread'[c] # <<>> /\ \A d \in Clients : d # c => unread'[d] = unread[d]
    BY <1>0, <2>2, OneJob DEF Known
  <2>4. /\ awaiting' = awaiting \cup {c}
        /\ UNCHANGED <<link, fdOf, holder, reg, event, leaked, readBuf, queue, replying, buf, pushing>>
    BY <1>1 DEF SendLogin, connVars, reactorVars, msgVars
  <2>5. OneTurn(c)'
    BY <1>0, <2>1, <2>3, <2>4 DEF OneTurn, Busy, Open, Interest, Pending, EventOf, OutDue
  <2>6. \A d \in Clients : d # c => Untouched(d)
    BY <2>3, <2>4 DEF Untouched, Interest, EventOf
  <2>7. PointersRight'
    BY <1>0, <2>4 DEF PointersRight
  <2> QED
    BY <1>a, <2>4, <2>5, <2>6, <2>7
<1>2. ASSUME NEW c \in Clients, HangUp(c) PROVE OneJobOrInterest'
  <2>1. /\ link[c] = "up" /\ link'[c] = "hungup" /\ \A d \in Clients : d # c => link'[d] = link[d]
        /\ UNCHANGED <<awaiting, fdOf, holder, reg, event, leaked, readBuf, unread>>
        /\ UNCHANGED <<queue, replying, buf, pushing>>
    BY <1>0, <1>2 DEF Known, HangUp, requestVars, connVars, reactorVars, msgVars
  <2>2. OneTurn(c)'
    BY <1>0, <2>1 DEF OneTurn, Busy, Open, Interest, Pending, EventOf, OutDue
  <2>3. \A d \in Clients : d # c => Untouched(d)
    BY <2>1 DEF Untouched, Interest, EventOf
  <2>4. PointersRight'
    BY <1>0, <2>1 DEF PointersRight
  <2> QED
    BY <1>a, <2>1, <2>2, <2>3, <2>4
<1>3. ASSUME NEW c \in Clients, NEW f \in Fds, NEW r \in Reactors, Accept(c, f, r)
      PROVE  OneJobOrInterest'
  <2> DEFINE new == Entry(r, c, "in")
  <2>1. new.ptr = c /\ new.ev = "in"
    BY EntryFacts DEF Interests
  <2>2. /\ reg' = [reg EXCEPT ![f] = new]
        /\ holder' = [holder EXCEPT ![f] = c]
        /\ fdOf' = [fdOf EXCEPT ![c] = f]
        /\ link' = [link EXCEPT ![c] = "up"]
        /\ link[c] = "new" /\ ~Open(c) /\ holder[f] = None
        /\ UNCHANGED <<queue, replying, buf, pushing, unread, readBuf, awaiting, event, leaked>>
    BY <1>3 DEF Accept, requestVars, reactorVars, msgVars, Open
  <2> HIDE DEF new
  <2>3. reg[f] = None /\ event[f] = None
    BY <1>0, <2>2 DEF Known
  <2>4. link'[c] = "up" /\ Open(c)' /\ Interest(c)' = "in" /\ ~Pending(c)'
    BY <1>0, <2>1, <2>2, <2>3 DEF Known, Open, Interest, Pending, EventOf
  <2>5. OneTurn(c)'
    BY <1>0, <2>2, <2>4 DEF OneTurn, Busy, OutDue
  <2>6. ASSUME NEW d \in Clients, d # c PROVE Untouched(d)
    <3>1. Open(d) => fdOf[d] # f
      BY <1>0, <2>2 DEF Known
    <3> QED
      BY <1>0, <2>2, <2>6, <3>1 DEF Known, Untouched, Interest, EventOf
  <2>7. PointersRight'
    BY <1>0, <2>1, <2>2, <2>3 DEF Known, PointersRight
  <2> QED
    BY <1>a, <2>2, <2>5, <2>6, <2>7
<1>4. ASSUME NEW f \in Fds, Remove(f) PROVE OneJobOrInterest'
  <2>0. Handles(f, "hup")
    BY <1>4 DEF Remove
  <2>1. PICK h \in Clients :
          /\ h = holder[f] /\ Open(h) /\ ~Busy(h)
          /\ \A d \in Clients : d # h /\ Open(d) => fdOf[d] # f
          /\ fdOf' = fdOf => \A d \in Clients : d # h /\ Open(d) => EventOf(d)' = EventOf(d)
    BY <2>0, HandledOne
  <2>2. /\ reg' = [reg EXCEPT ![f] = None]
        /\ event' = [event EXCEPT ![f] = None]
        /\ holder' = [holder EXCEPT ![f] = None]
        /\ link' = [link EXCEPT ![h] = "closed"]
        /\ UNCHANGED <<fdOf, queue, replying, buf, pushing, unread, readBuf, awaiting, leaked>>
    BY <1>4, <2>0, <2>1 DEF Remove, Handles, requestVars, connVars, msgVars
  <2>3. link'[h] = "closed" /\ ~Open(h)'
    BY <1>0, <2>2 DEF Known, Open
  <2>4. OneTurn(h)'
    BY <1>0, <2>1, <2>2, <2>3 DEF OneTurn, Busy, OutDue
  <2>5. ASSUME NEW d \in Clients, d # h PROVE Untouched(d)
    <3>1. Open(d) => Interest(d)' = Interest(d)
      BY <1>0, <2>1, <2>2, <2>5 DEF Known, Interest
    <3> QED
      BY <1>0, <2>1, <2>2, <2>5, <3>1 DEF Known, Untouched
  <2>6. PointersRight'
    BY <1>0, <2>2 DEF Known, PointersRight
  <2> QED
    BY <1>a, <2>2, <2>4, <2>5, <2>6
<1>5. ASSUME NEW f \in Fds, Receive(f) \/ ReceiveCut(f) PROVE OneJobOrInterest'
  <2>0. Handles(f, "in") /\ ReceiveKeeps
    BY <1>5, ReceiveFacts
  <2>1. PICK h \in Clients :
          /\ h = holder[f] /\ h = event[f].ptr /\ Open(h)
          /\ Pending(h) /\ EventOf(h).kind = "in" /\ Interest(h) = "off" /\ ~Busy(h)
          /\ fdOf' = fdOf => ~Pending(h)'
          /\ fdOf' = fdOf => \A d \in Clients : d # h /\ Open(d) => EventOf(d)' = EventOf(d)
    BY <2>0, HandledOne
  <2>2. /\ UNCHANGED <<link, awaiting, fdOf, holder, reg, leaked, replying, buf, pushing>>
        /\ event' = [event EXCEPT ![f] = None]
    BY <2>0 DEF ReceiveKeeps, Handles, clientVars, connVars, msgVars
  <2>3. /\ queue[h] = <<>> /\ h \notin replying /\ h \in awaiting
        /\ unread[h] # <<>> /\ Tail(unread[h]) = <<>>
        /\ unread[h] \in Seq(Requests) /\ readBuf[h] \in Seq(Requests)
    BY <1>0, <2>1 DEF Known, OneTurn, Busy
  <2>4. unread'[h] = <<>> /\ \A d \in Clients : d # h => unread'[d] = unread[d]
    <3>1. unread' = [unread EXCEPT ![h] = <<>>]
      BY <1>5, <2>1 DEF Receive, ReceiveCut
    <3> QED
      BY <1>0, <3>1 DEF Known
  <2>5. Open(h)' /\ Interest(h)' = "off" /\ ~Pending(h)' /\ ~OutDue(h)'
    BY <2>1, <2>2 DEF Open, Interest, OutDue
  <2>6. CASE Receive(f)
    <3>1. link[h] = "up" /\ readBuf[h] = <<>>
      BY <1>0, <2>1, <2>6 DEF Receive, OneTurn
    <3>2. queue[h] \o readBuf[h] \o unread[h] = unread[h]
      <4>1. <<>> \o readBuf[h] = readBuf[h] /\ <<>> \o unread[h] = unread[h]
        BY <2>3, ConcatEmptySeq
      <4> QED
        BY <2>3, <3>1, <4>1
    <3>3. /\ queue' = [queue EXCEPT ![h] = unread[h]]
          /\ readBuf' = [readBuf EXCEPT ![h] = <<>>]
      BY <2>1, <2>6, <3>2 DEF Receive
    <3>4. /\ queue'[h] = unread[h] /\ readBuf'[h] = <<>>
          /\ \A d \in Clients : d # h => queue'[d] = queue[d] /\ readBuf'[d] = readBuf[d]
      BY <1>0, <3>3 DEF Known
    <3>5. OneTurn(h)'
      BY <1>0, <2>2, <2>3, <2>4, <2>5, <3>4 DEF OneTurn, Busy
    <3>6. \A d \in Clients : d # h => Untouched(d)
      BY <2>1, <2>2, <2>4, <3>4 DEF Untouched, Interest
    <3>7. PointersRight'
      BY <1>0, <2>2 DEF Known, PointersRight
    <3> QED
      BY <1>a, <2>2, <3>5, <3>6, <3>7
  <2>7. CASE ReceiveCut(f)
    <3>1. link[h] = "hungup" /\ UNCHANGED queue
      BY <2>1, <2>7 DEF ReceiveCut
    <3> DEFINE cut == readBuf[h] \o unread[h]
    <3>2. readBuf' = [readBuf EXCEPT ![h] = cut]
      BY <2>1, <2>7 DEF ReceiveCut
    <3>3. cut # <<>>
      <4>1. Len(cut) = Len(readBuf[h]) + Len(unread[h]) /\ cut \in Seq(Requests)
        BY <2>3, ConcatProperties
      <4>2. Len(readBuf[h]) \in Nat /\ Len(unread[h]) \in Nat /\ Len(unread[h]) # 0
        BY <2>3, LenProperties, EmptySeq
      <4> QED
        BY <4>1, <4>2, EmptySeq
    <3> HIDE DEF cut
    <3>4. readBuf'[h] # <<>> /\ \A d \in Clients : d # h => readBuf'[d] = readBuf[d]
      BY <1>0, <3>2, <3>3 DEF Known
    <3>5. OneTurn(h)'
      BY <1>0, <2>1, <2>2, <2>3, <2>4, <2>5, <3>1, <3>4 DEF OneTurn, Busy
    <3>6. \A d \in Clients : d # h => Untouched(d)
      BY <2>1, <2>2, <2>4, <3>1, <3>4 DEF Untouched, Interest
    <3>7. PointersRight'
      BY <1>0, <2>2 DEF Known, PointersRight
    <3> QED
      BY <1>a, <2>2, <3>5, <3>6, <3>7
  <2> QED
    BY <1>5, <2>6, <2>7
<1>6. ASSUME NEW f \in Fds, Write(f) \/ SendBlocks(f) \/ SendFails(f) PROVE OneJobOrInterest'
  <2>0. Handles(f, "out") /\ WriteKeeps
    BY <1>6 DEF Write, SendBlocks, SendFails, WriteBegins
  <2>1. PICK h \in Clients :
          /\ h = holder[f] /\ h = event[f].ptr /\ Open(h) /\ fdOf[h] = f
          /\ reg[f] # None /\ reg[f].epoll = reactor[h]
          /\ Pending(h) /\ EventOf(h).kind = "out" /\ Interest(h) = "off" /\ ~Busy(h)
          /\ fdOf' = fdOf => ~Pending(h)'
          /\ fdOf' = fdOf => \A d \in Clients : d # h /\ Open(d) => EventOf(d)' = EventOf(d)
    BY <2>0, HandledOne
  <2>2. /\ UNCHANGED <<link, unread, readBuf, fdOf, holder, queue, replying, pushing>>
        /\ event' = [event EXCEPT ![f] = None]
    BY <2>0 DEF WriteKeeps, Handles, clientVars, connVars, msgVars
  <2>3. /\ buf[h] = Answer /\ buf[h] # None /\ unread[h] = <<>> /\ h \in awaiting
        /\ queue[h] = <<>> /\ h \notin replying
    BY <1>0, <2>1 DEF OneTurn, OutDue, Busy
  <2>4. Open(h)' /\ ~Pending(h)' /\ ~Busy(h)'
    BY <2>1, <2>2, <2>3 DEF Open, Busy
  <2>5. \A g \in Fds : event'[g] # None => event'[g].ptr = holder'[g]
    BY <1>0, <2>2 DEF Known, PointersRight
  <2>6. CASE Write(f)
    <3>1. /\ reg' = Modfd(h, "in")
          /\ buf' = [buf EXCEPT ![h] = None]
          /\ awaiting' = awaiting \ {h} /\ leaked' = leaked
      BY <2>1, <2>3, <2>6 DEF Write
    <3>2. /\ Interest(h)' = "in"
          /\ \A d \in Clients : d # h /\ Open(d) => Interest(d)' = Interest(d)
          /\ \A g \in Fds : reg'[g] # None => reg'[g].ptr = holder[g]
      BY <1>0, <2>1, <2>2, <3>1, ModfdOne DEF Interests
    <3>3. OneTurn(h)'
      BY <1>0, <2>2, <2>3, <2>4, <3>1, <3>2 DEF OneTurn, OutDue
    <3>4. \A d \in Clients : d # h => Untouched(d)
      BY <1>0, <2>1, <2>2, <3>1, <3>2 DEF Known, Untouched
    <3>5. PointersRight'
      BY <2>2, <2>5, <3>2 DEF PointersRight
    <3> QED
      BY <1>a, <2>2, <3>3, <3>4, <3>5
  <2>7. CASE SendBlocks(f)
    <3>1. /\ reg' = Modfd(h, "out") /\ leaked' = leaked \cup {h}
          /\ UNCHANGED <<awaiting, buf>>
      BY <2>1, <2>7 DEF SendBlocks
    <3>2. /\ Interest(h)' = "out"
          /\ \A d \in Clients : d # h /\ Open(d) => Interest(d)' = Interest(d)
          /\ \A g \in Fds : reg'[g] # None => reg'[g].ptr = holder[g]
      BY <1>0, <2>1, <2>2, <3>1, ModfdOne DEF Interests
    <3>3. OneTurn(h)'
      BY <1>0, <2>2, <2>3, <2>4, <3>1, <3>2 DEF OneTurn, OutDue
    <3>4. \A d \in Clients : d # h => Untouched(d)
      BY <2>1, <2>2, <3>1, <3>2 DEF Untouched
    <3>5. PointersRight'
      BY <2>2, <2>5, <3>2 DEF PointersRight
    <3> QED
      BY <1>a, <2>2, <3>3, <3>4, <3>5
  <2>8. CASE SendFails(f)
    <3>1. leaked' = leaked \cup {h} /\ UNCHANGED <<reg, awaiting, buf>>
      BY <2>1, <2>8 DEF SendFails
    <3>2. \A d \in Clients : Interest(d)' = Interest(d)
      BY <2>2, <3>1 DEF Interest
    <3>3. OneTurn(h)'
      BY <1>0, <2>1, <2>2, <2>3, <2>4, <3>1, <3>2 DEF OneTurn, OutDue
    <3>4. \A d \in Clients : d # h => Untouched(d)
      BY <2>1, <2>2, <3>1, <3>2 DEF Untouched
    <3>5. PointersRight'
      BY <1>0, <2>2, <2>5, <3>1 DEF PointersRight
    <3> QED
      BY <1>a, <2>2, <3>3, <3>4, <3>5
  <2> QED
    BY <1>6, <2>6, <2>7, <2>8
<1>7. ASSUME NEW c \in Clients, TakeLogin(c), UNCHANGED pushing PROVE OneJobOrInterest'
  <2>1. /\ queue[c] # <<>> /\ Tail(queue[c]) = <<>>
        /\ queue' = [queue EXCEPT ![c] = Tail(queue[c])]
        /\ replying' = replying \cup {c}
        /\ UNCHANGED <<link, fdOf, holder, reg, event, leaked, buf, unread, readBuf, awaiting>>
    BY <1>0, <1>7 DEF TakeLogin, OneTurn, clientVars, requestVars, reactorVars, connVars
  <2>2. queue'[c] = <<>> /\ \A d \in Clients : d # c => queue'[d] = queue[d]
    BY <1>0, <2>1 DEF Known
  <2>3. OneTurn(c)'
    BY <1>0, <2>1, <2>2 DEF OneTurn, Busy, Open, Interest, Pending, EventOf, OutDue
  <2>4. \A d \in Clients : d # c => Untouched(d)
    BY <2>1, <2>2 DEF Untouched, Interest, EventOf
  <2>5. PointersRight'
    BY <1>0, <2>1 DEF PointersRight
  <2> QED
    BY <1>a, <1>7, <2>3, <2>4, <2>5
<1>8. ASSUME NEW c \in Clients, AnswerLogin(c) PROVE OneJobOrInterest'
  <2>1. /\ c \in replying /\ Busy(c) /\ Open(c) /\ ~Pending(c) /\ unread[c] = <<>> /\ queue[c] = <<>>
        /\ c \in awaiting
    BY <1>0, <1>8 DEF AnswerLogin, OneTurn, Busy
  <2>2. /\ reg' = Modfd(c, "out")
        /\ buf' = [buf EXCEPT ![c] = Answer]
        /\ replying' = replying \ {c}
        /\ UNCHANGED <<link, fdOf, holder, queue, pushing, unread, readBuf, awaiting, event, leaked>>
    BY <1>8 DEF AnswerLogin, clientVars, requestVars, reactorVars, connVars, msgVars
  <2>3. fdOf[c] \in Fds /\ holder[fdOf[c]] = c /\ reg[fdOf[c]] # None /\ reg[fdOf[c]].ptr = c
    BY <1>0, <2>1 DEF Known, PointersRight
  <2>4. reg[fdOf[c]].epoll = reactor[c]
    BY <2>3 DEF Base, TypeOK
  <2>5. /\ Interest(c)' = "out"
        /\ \A d \in Clients : d # c /\ Open(d) => Interest(d)' = Interest(d)
        /\ \A g \in Fds : reg'[g] # None => reg'[g].ptr = holder[g]
    BY <1>0, <2>1, <2>2, <2>4, ModfdOne DEF Interests
  <2>6. ~Busy(c)' /\ Open(c)' /\ ~Pending(c)' /\ buf'[c] = Answer
    BY <1>0, <2>1, <2>2 DEF Known, Busy, Open, Pending, EventOf
  <2>7. OneTurn(c)'
    BY <1>0, <2>1, <2>2, <2>5, <2>6 DEF OneTurn, OutDue
  <2>8. \A d \in Clients : d # c => Untouched(d)
    BY <1>0, <2>2, <2>5 DEF Known, Untouched, EventOf
  <2>9. PointersRight'
    BY <1>0, <2>2, <2>5 DEF PointersRight
  <2> QED
    BY <1>a, <2>2, <2>7, <2>8, <2>9
<1>9. ASSUME NEW m \in Msgs, Push(m) PROVE OneJobOrInterest'
  BY <1>9 DEF Push, OneJobOrInterest
<1>10. ASSUME UNCHANGED <<link, fdOf, holder, reg, event, leaked, queue, replying>>,
              UNCHANGED <<unread, readBuf, awaiting, buf, pushing>>
       PROVE  OneJobOrInterest'
  <2>1. \A c \in Clients : Untouched(c)
    BY <1>10 DEF Untouched, Interest, EventOf
  <2>2. PointersRight'
    BY <1>0, <1>10 DEF PointersRight
  <2> QED
    BY <1>0, <1>10, <2>1, <2>2, UntouchedTurn DEF OneJobOrInterest
<1>11. ASSUME NEW c \in Clients, SetActive(c) PROVE OneJobOrInterest'
  BY <1>10, <1>11 DEF SetActive, clientVars, requestVars, reactorVars, connVars, msgVars
<1>12. ASSUME NEW r \in Reactors, Poll(r) PROVE OneJobOrInterest'
  <2>1. PICK F \in SUBSET Fds : Reports(F)
    BY <1>12, PollFacts
  <2>2. /\ UNCHANGED <<link, unread, readBuf, awaiting, fdOf, holder, leaked, queue, replying>>
        /\ UNCHANGED <<buf, pushing>>
    BY <1>12 DEF Poll, clientVars, requestVars, connVars, msgVars
  <2>3. PointersRight'
    <3> SUFFICES ASSUME NEW f \in Fds
                 PROVE  /\ reg'[f] # None => reg'[f].ptr = holder[f]
                        /\ event'[f] # None => event'[f].ptr = holder[f]
      BY <2>2 DEF PointersRight
    <3>1. CASE f \in F
      BY <1>0, <2>1, <3>1 DEF Reports, Reported, PointersRight
    <3>2. CASE f \notin F
      BY <1>0, <2>1, <3>2 DEF Reports, PointersRight
    <3> QED
      BY <3>1, <3>2
  <2>4. ASSUME NEW c \in Clients PROVE OneTurn(c)'
    <3>1. CASE Open(c) /\ fdOf[c] \in F
      <4>1. fdOf[c] \in Fds /\ holder[fdOf[c]] = c /\ Interest(c) # "off"
        BY <1>0, <2>1, <3>1 DEF Known, Reports, Reported, Interest
      <4>2. ~Busy(c) /\ ~Busy(c)' /\ Open(c)'
        BY <1>0, <2>2, <3>1, <4>1 DEF OneTurn, Busy, Open
      <4>3. /\ Interest(c)' = "off" /\ Pending(c)'
            /\ EventOf(c)'.kind = "in" => unread[c] # <<>>
            /\ EventOf(c)'.kind = "out" => Interest(c) = "out"
        BY <2>1, <2>2, <3>1, <4>1 DEF Reports, Interest, Pending, EventOf
      <4>4. OutDue(c)' => OutDue(c)
        BY <3>1, <4>3 DEF OutDue
      <4> QED
        BY <1>0, <2>2, <3>1, <4>2, <4>3, <4>4 DEF OneTurn
    <3>2. CASE ~(Open(c) /\ fdOf[c] \in F)
      <4>1. Open(c) => Interest(c)' = Interest(c) /\ EventOf(c)' = EventOf(c)
        BY <1>0, <2>1, <2>2, <3>2 DEF Known, Reports, Interest, EventOf
      <4>2. Untouched(c)
        BY <2>2, <4>1 DEF Untouched
      <4> QED
        BY <1>0, <4>2, UntouchedTurn
    <3> QED
      BY <3>1, <3>2
  <2> QED
    BY <2>2, <2>3, <2>4 DEF OneJobOrInterest
<1>13. CASE UNCHANGED vars
  BY <1>10, <1>13 DEF vars, clientVars, requestVars, reactorVars, connVars, msgVars
<1> QED
  BY <1>1, <1>2, <1>3, <1>4, <1>5, <1>6, <1>7, <1>8, <1>9, <1>11, <1>12, <1>13
     DEF Next, StrandStep, EventOn, Login, LoginRefused, TakeLogin, msgVars

(***************************************************************************)
(* Undisturbed and with no failed send(), a hang-up is lost only between   *)
(* the report and the reading of a request, for any number of clients and  *)
(* SubReactors and any interleaving with their logins.                     *)
(***************************************************************************)
THEOREM HangUpsAreNoticed == Spec => []HangUpsNoticed
<1>1. Init => Armed
  BY SessionsAssumption
     DEF Init, Armed, OneJobOrInterest, OneTurn, PointersRight, Busy, Open, OutDue
<1>2. Spec => []Base
  BY BaseInit, BaseStep, PTL DEF Spec
<1>3. Base /\ Armed => HangUpsNoticed
  BY DEF Base, Sockets, Armed, OneJobOrInterest, OneTurn, HangUpsNoticed, Attended, Busy, Open,
         Interest, Pending, EventOf, Reported
<1> QED
  BY <1>1, <1>2, <1>3, ArmedStep, PTL DEF Spec
-----------------------------------------------------------------------------
(***************************************************************************)
(* User holds a user's id only while a login is under way, and then no     *)
(* removal can read it while nobody is sent a message: so what removeUser  *)
(* erases is no user's key, and a user's entry is the last login's.        *)
(***************************************************************************)
Directory ==
  /\ \A c \in Clients : userId[c] \in Users => c \in replying
  /\ Undisturbed => \A u \in Users : lastLogin[u] # None => map[u] = lastLogin[u]

LEMMA DirectoryStep == Base /\ Armed /\ Directory /\ [Next]_vars => Directory'
<1> SUFFICES ASSUME Base, Armed, Directory, [Next]_vars PROVE Directory'
  OBVIOUS
<1> DEFINE Entries == \A u \in Users : lastLogin[u] # None => map[u] = lastLogin[u]
<1>1. /\ map \in [Keys -> Clients \cup {None}] /\ userId \in [Clients -> Keys]
      /\ lastLogin \in [Users -> Clients \cup {None}] /\ Users \subseteq Keys
      /\ NoId \notin Users /\ Active \notin Users
  BY SessionsAssumption DEF Base, TypeOK, Keys
<1>2. Undisturbed' => Undisturbed
  BY UndisturbedBack DEF Base
<1>3. ASSUME NEW c \in Clients, Login(c) PROVE Directory'
  <2> DEFINE u == Head(queue[c]).user
  <2>1. u \in Users
    BY <1>3, TakenFacts DEF Login, TakenFrom
  <2>2. /\ map' = [map EXCEPT ![u] = c]
        /\ userId' = [userId EXCEPT ![c] = u]
        /\ lastLogin' = [lastLogin EXCEPT ![u] = c]
        /\ replying' = replying \cup {c}
    BY <1>3 DEF Login, TakeLogin
  <2> HIDE DEF u
  <2>3. Entries => Entries'
    BY <1>1, <2>1, <2>2
  <2>4. \A d \in Clients : userId'[d] \in Users => d \in replying'
    BY <1>1, <2>2 DEF Directory
  <2> QED
    BY <1>2, <2>3, <2>4 DEF Directory
<1>4. ASSUME NEW c \in Clients, SetActive(c) PROVE Directory'
  BY <1>1, <1>2, <1>4 DEF SetActive, Directory
<1>5. ASSUME NEW f \in Fds, Remove(f) PROVE Directory'
  <2>0. Handles(f, "hup")
    BY <1>5 DEF Remove
  <2>1. PICK p \in Clients : p = event[f].ptr
    BY <2>0, EventFacts DEF Handles
  <2>2. /\ map' = [map EXCEPT ![userId[p]] = None]
        /\ UNCHANGED <<userId, lastLogin, replying>>
    BY <1>5, <2>1 DEF Remove
  <2>3. Undisturbed => userId[p] \notin Users
    <3>1. Undisturbed => ~Busy(p)
      BY <2>0, <2>1, HandledOne DEF Armed
    <3> QED
      BY <3>1 DEF Directory, Busy
  <2>4. Undisturbed /\ Entries => Entries'
    BY <1>1, <2>2, <2>3
  <2> QED
    BY <1>2, <2>2, <2>4 DEF Directory
<1>6. CASE UNCHANGED userVars
  <2>1. \A c \in Clients : c \in replying /\ c \notin replying' => userId[c] \notin Users
    <3>1. ASSUME NEW c \in Clients, SendLogin(c) \/ HangUp(c) \/ SetActive(c)
          PROVE  UNCHANGED replying
      BY <3>1 DEF SendLogin, HangUp, SetActive
    <3>2. ASSUME NEW c \in Clients, Login(c) \/ LoginRefused(c) PROVE replying \subseteq replying'
      BY <3>2 DEF Login, LoginRefused, TakeLogin
    <3>3. ASSUME NEW c \in Clients, NEW f \in Fds, NEW r \in Reactors, Accept(c, f, r)
          PROVE  UNCHANGED replying
      BY <3>3 DEF Accept
    <3>4. ASSUME NEW f \in Fds, EventOn(f) PROVE UNCHANGED replying
      BY <3>4, ReceiveFacts DEF EventOn, Remove, ReceiveKeeps, Write, SendBlocks, SendFails, WriteKeeps
    <3>8. ASSUME NEW r \in Reactors, Poll(r) PROVE UNCHANGED replying
      BY <3>8 DEF Poll
    <3>5. ASSUME NEW m \in Msgs, LookUp(m) \/ Push(m) PROVE UNCHANGED replying
      BY <3>5 DEF LookUp, Push
    <3>6. ASSUME NEW c \in Clients, AnswerLogin(c)
          PROVE  replying' = replying \ {c} /\ userId[c] \notin Users
      BY <3>6 DEF AnswerLogin
    <3>7. ASSUME UNCHANGED vars PROVE UNCHANGED replying
      BY <3>7 DEF vars
    <3> QED
      BY <3>1, <3>2, <3>3, <3>4, <3>5, <3>6, <3>7, <3>8 DEF Next, StrandStep
  <2> QED
    BY <1>2, <1>6, <2>1 DEF Directory, userVars
<1> QED
  BY <1>3, <1>4, <1>5, <1>6, FewWriters

(***************************************************************************)
(* While nobody is sent a message, a user stays reachable on the           *)
(* connection of the last login, whatever connections are removed.         *)
(***************************************************************************)
THEOREM LastLoginIsReachable == Spec => []LastLoginReachable
<1>1. Init => Armed /\ Directory
  BY SessionsAssumption
     DEF Init, Armed, OneJobOrInterest, OneTurn, PointersRight, Busy, Open, OutDue, Directory
<1>2. Spec => []Base
  BY BaseInit, BaseStep, PTL DEF Spec
<1>3. Directory => LastLoginReachable
  BY DEF Directory, LastLoginReachable
<1> QED
  BY <1>1, <1>2, <1>3, ArmedStep, DirectoryStep, PTL DEF Spec
=============================================================================
