------------------------------ MODULE Sessions ------------------------------
(***************************************************************************)
(* Connections from accept() to close(), and the directory ChatMapping     *)
(* that routes a chat message to its receiver: MainReactor's dispatch, the *)
(* event loops of the SubReactors, login, the push of sendMessage_Mysql    *)
(* and removeUser.                                                         *)
(*                                                                         *)
(* The kernel names a socket by a number and hands out the lowest number   *)
(* that is free; a chat_conn keeps its number after close().  holder is    *)
(* what a number stands for now, and reg what epoll knows of it: which     *)
(* epoll instance, which chat_conn its events go to, and the one-shot      *)
(* interest.  epoll_wait reports a batch of events, which takes their      *)
(* interest; what becomes of a client between report and handling is seen  *)
(* only by recv() and send().  One chat_conn is made for each client, so   *)
(* that clients name both.  Logins stand for the requests of a client.     *)
(* receive(), write() and the end of process_write are one step each here; *)
(* FrameReceiver.tla and ConnIO.tla look inside them.                      *)
(***************************************************************************)
EXTENDS Naturals, Sequences

CONSTANTS
  NumClients,   \* bound: connections that are made, numbered as they are accepted
  Users,        \* user ids
  NumFds,       \* bound: socket numbers the kernel hands out
  NumReactors,  \* num_reactors
  MaxLogins,    \* bound: login requests that clients send
  Msgs,         \* chat messages that users send
  None

Clients == 1..NumClients
Fds == 1..NumFds
Reactors == 1..NumReactors

NoId == "noid"      \* User::userId before the first login
Active == "active"  \* what a login leaves in User::userId at its end
Keys == Users \cup {NoId, Active}
Answer == "answer"  \* the reply to a login, in m_write_buf
\* A login request; good says that the password is right.
Requests == [from : Clients, user : Users, good : BOOLEAN]

\* An entry of an epoll instance: its owner, data.ptr, and the one-shot interest.
Interests == {"in", "out", "off"}
Registrations == [epoll : Reactors, ptr : Clients, ev : Interests]
Entry(r, c, ev) == [epoll |-> r, ptr |-> c, ev |-> ev]
\* An event in the array of epoll_wait.
Events == [ptr : Clients, kind : {"in", "out", "hup"}]

ASSUME SessionsAssumption ==
  /\ NumClients \in Nat
  /\ NumFds \in Nat
  /\ NumReactors \in Nat \ {0}
  /\ MaxLogins \in Nat
  /\ Users \cap {NoId, Active} = {}
  /\ Answer \notin Msgs
  /\ None \notin Clients /\ None \notin Fds /\ None \notin Keys
  /\ None \notin Registrations /\ None \notin Events /\ None \notin Msgs /\ None # Answer

VARIABLES
  link,       \* the client's end: "new", "up", "hungup", or "closed" by the server
  unread,     \* requests in each client's socket
  logins,     \* number of requests sent
  awaiting,   \* history: clients that have had no answer since their last request
  pipelined,  \* history: some client has sent a request while awaiting an answer
  fdOf,       \* m_sockfd
  reactor,    \* m_epollfd
  conn_count, \* per SubReactor
  holder,     \* the client whose socket a number is
  reg,        \* epoll's registration of a number
  event,      \* the event reported of a number that its reactor has yet to handle
  readBuf,    \* requests that receive() has left unparsed in m_read_buf
  queue,      \* msg_queue of each connection
  replying,   \* connections whose worker is about to answer
  userId,     \* user->getUserId() of each connection
  map,        \* userSocketMap
  buf,        \* m_write_buf: a message, an answer, or None
  leaked,     \* connections whose write_lock a write() has returned with
  to,         \* the receiver of each message
  unsent,     \* messages whose sender has not asked for them to be sent
  pushing,    \* the connection a sender's worker is about to push a message to
  got,        \* history: messages sent on a client's socket
  loggedIn,   \* history: users a client has given the password of
  lastLogin   \* history: the connection of a user's last login

connVars == <<fdOf, reactor, conn_count>>
clientVars == <<link, logins, pipelined>>
requestVars == <<unread, readBuf, awaiting>>
reactorVars == <<event, leaked>>
msgVars == <<to, unsent, pushing>>
userVars == <<userId, map, loggedIn, lastLogin>>
vars == <<clientVars, requestVars, connVars, holder, reg, reactorVars, queue, replying,
          userVars, buf, msgVars, got>>

TypeOK ==
  /\ link \in [Clients -> {"new", "up", "hungup", "closed"}]
  /\ unread \in [Clients -> Seq(Requests)]
  /\ logins \in Nat
  /\ awaiting \subseteq Clients
  /\ pipelined \in BOOLEAN
  /\ fdOf \in [Clients -> Fds \cup {None}]
  /\ reactor \in [Clients -> Reactors \cup {None}]
  /\ conn_count \in [Reactors -> Nat]
  /\ holder \in [Fds -> Clients \cup {None}]
  /\ reg \in [Fds -> Registrations \cup {None}]
  /\ event \in [Fds -> Events \cup {None}]
  /\ readBuf \in [Clients -> Seq(Requests)]
  /\ queue \in [Clients -> Seq(Requests)]
  /\ replying \subseteq Clients
  /\ userId \in [Clients -> Keys]
  /\ map \in [Keys -> Clients \cup {None}]
  /\ buf \in [Clients -> Msgs \cup {Answer, None}]
  /\ leaked \subseteq Clients
  /\ to \in [Msgs -> Users]
  /\ unsent \subseteq Msgs
  /\ pushing \in [Msgs -> Clients \cup {None}]
  /\ got \in [Clients -> SUBSET Msgs]
  /\ loggedIn \in [Clients -> SUBSET Users]
  /\ lastLogin \in [Users -> Clients \cup {None}]
  \* A registration belongs to an open socket and to a chat_conn of its number.
  /\ \A f \in Fds : reg[f] # None =>
       /\ holder[f] # None
       /\ fdOf[reg[f].ptr] = f
       /\ reactor[reg[f].ptr] = reg[f].epoll
  \* So does an event.
  /\ \A f \in Fds : event[f] # None =>
       /\ reg[f] # None
       /\ fdOf[event[f].ptr] = f
       /\ reactor[event[f].ptr] = reg[f].epoll
-----------------------------------------------------------------------------
Init ==
  /\ link = [c \in Clients |-> "new"]
  /\ unread = [c \in Clients |-> <<>>]
  /\ logins = 0
  /\ awaiting = {}
  /\ pipelined = FALSE
  /\ fdOf = [c \in Clients |-> None]
  /\ reactor = [c \in Clients |-> None]
  /\ conn_count = [r \in Reactors |-> 0]
  /\ holder = [f \in Fds |-> None]
  /\ reg = [f \in Fds |-> None]
  /\ event = [f \in Fds |-> None]
  /\ readBuf = [c \in Clients |-> <<>>]
  /\ queue = [c \in Clients |-> <<>>]
  /\ replying = {}
  /\ userId = [c \in Clients |-> NoId]
  /\ map = [k \in Keys |-> None]
  /\ buf = [c \in Clients |-> None]
  /\ leaked = {}
  /\ to \in [Msgs -> Users]
  /\ unsent = Msgs
  /\ pushing = [m \in Msgs |-> None]
  /\ got = [c \in Clients |-> {}]
  /\ loggedIn = [c \in Clients |-> {}]
  /\ lastLogin = [u \in Users |-> None]

\* epoll_ctl(m_epollfd, EPOLL_CTL_MOD, m_sockfd): an error when the number is
\* not, or no longer, registered with this epoll instance.
Modfd(c, ev) ==
  LET f == fdOf[c]
  IN  IF reg[f] # None /\ reg[f].epoll = reactor[c]
      THEN [reg EXCEPT ![f] = Entry(reactor[c], c, ev)]
      ELSE reg
-----------------------------------------------------------------------------
(* Clients.                                                                *)

SendLogin(c) ==
  /\ link[c] = "up" /\ logins < MaxLogins
  /\ \E q \in Requests : q.from = c /\ unread' = [unread EXCEPT ![c] = Append(@, q)]
  /\ logins' = logins + 1
  /\ awaiting' = awaiting \cup {c}
  /\ pipelined' = (pipelined \/ c \in awaiting)
  /\ UNCHANGED <<link, readBuf, connVars, holder, reg, reactorVars, queue, replying,
                 userVars, buf, msgVars, got>>

HangUp(c) ==
  /\ link[c] = "up"
  /\ link' = [link EXCEPT ![c] = "hungup"]
  /\ UNCHANGED <<logins, pipelined, requestVars, connVars, holder, reg, reactorVars,
                 queue, replying, userVars, buf, msgVars, got>>
-----------------------------------------------------------------------------
(* MainReactor.                                                            *)

\* r is the first SubReactor with the smallest count.
IsLeastLoaded(r) ==
  \A s \in Reactors :
    conn_count[r] < conn_count[s] \/ (conn_count[r] = conn_count[s] /\ r <= s)

\* Mutation: the chat_conn is given the first SubReactor's epoll instance.
AcceptOnFirst(c, f, r) ==
  /\ link[c] = "new" /\ \A d \in 1..(c - 1) : link[d] # "new"
  /\ holder[f] = None /\ \A g \in 1..(f - 1) : holder[g] # None
  /\ IsLeastLoaded(r)
  /\ link' = [link EXCEPT ![c] = "up"]
  /\ holder' = [holder EXCEPT ![f] = c]
  /\ fdOf' = [fdOf EXCEPT ![c] = f]
  /\ reactor' = [reactor EXCEPT ![c] = 1]
  /\ reg' = [reg EXCEPT ![f] = Entry(r, c, "in")]
  /\ conn_count' = [conn_count EXCEPT ![r] = @ + 1]
  /\ UNCHANGED <<logins, pipelined, requestVars, reactorVars, queue, replying, userVars,
                 buf, msgVars, got>>

\* accept(), which takes the lowest free number, and assign_connection.
Accept(c, f, r) ==
  /\ link[c] = "new" /\ \A d \in 1..(c - 1) : link[d] # "new"
  /\ holder[f] = None /\ \A g \in 1..(f - 1) : holder[g] # None
  /\ IsLeastLoaded(r)
  /\ link' = [link EXCEPT ![c] = "up"]
  /\ holder' = [holder EXCEPT ![f] = c]
  /\ fdOf' = [fdOf EXCEPT ![c] = f]
  /\ reactor' = [reactor EXCEPT ![c] = r]
  /\ reg' = [reg EXCEPT ![f] = Entry(r, c, "in")]
  /\ conn_count' = [conn_count EXCEPT ![r] = @ + 1]
  /\ UNCHANGED <<logins, pipelined, requestVars, reactorVars, queue, replying, userVars,
                 buf, msgVars, got>>
-----------------------------------------------------------------------------
(* A SubReactor.                                                           *)

Reported(f) == reg[f] # None /\ reg[f].ev # "off"

\* The numbers epoll has something to say of: a hang-up, something to read, or
\* room to write.
Ready(r) ==
  {f \in Fds : /\ Reported(f) /\ reg[f].epoll = r
               /\ \/ link[holder[f]] = "hungup"
                  \/ unread[holder[f]] # <<>>
                  \/ reg[f].ev = "out"}

\* A hang-up that is there at the report is handled as one, before all else.
EventAt(f) ==
  [ptr |-> reg[f].ptr,
   kind |-> IF link[holder[f]] = "hungup" THEN "hup" ELSE reg[f].ev]

\* epoll_wait: reactor r has handled its last batch and gets another one; the
\* one-shot interest of what is reported is used up.
Poll(r) ==
  /\ \A f \in Fds : event[f] # None => reg[f].epoll # r
  /\ \E F \in (SUBSET Ready(r)) \ {{}} :
       /\ event' = [f \in Fds |-> IF f \in F THEN EventAt(f) ELSE event[f]]
       /\ reg' = [f \in Fds |-> IF f \in F THEN Entry(r, reg[f].ptr, "off") ELSE reg[f]]
  /\ UNCHANGED <<clientVars, requestVars, connVars, holder, leaked, queue, replying,
                 userVars, buf, msgVars, got>>

\* The event of number f is handled.
Handles(f, kind) ==
  /\ event[f] # None /\ event[f].kind = kind
  /\ event' = [event EXCEPT ![f] = None]

\* Mutation: login leaves the user's id in User, which removeUser then erases.
RemoveByUser(f) ==
  LET h == holder[f]
      p == event[f].ptr
  IN  /\ Handles(f, "hup")
      /\ map' = [k \in Keys |-> IF k = userId[p] \/ k \in loggedIn[p] THEN None
                                ELSE map[k]]
      /\ reg' = [reg EXCEPT ![f] = None]
      /\ holder' = [holder EXCEPT ![f] = None]
      /\ link' = [link EXCEPT ![h] = "closed"]
      /\ UNCHANGED <<logins, pipelined, requestVars, connVars, leaked, queue, replying,
                     userId, loggedIn, lastLogin, buf, msgVars, got>>

\* EPOLLRDHUP: removeUser erases the key User has, and closes the number.
Remove(f) ==
  LET h == holder[f]
      p == event[f].ptr
  IN  /\ Handles(f, "hup")
      /\ map' = [map EXCEPT ![userId[p]] = None]
      /\ reg' = [reg EXCEPT ![f] = None]
      /\ holder' = [holder EXCEPT ![f] = None]
      /\ link' = [link EXCEPT ![h] = "closed"]
      /\ UNCHANGED <<logins, pipelined, requestVars, connVars, leaked, queue, replying,
                     userId, loggedIn, lastLogin, buf, msgVars, got>>

ReceiveKeeps ==
  UNCHANGED <<clientVars, awaiting, connVars, holder, reg, leaked, replying, userVars,
              buf, msgVars, got>>

\* EPOLLIN: what the buffer and the socket hold goes to the strand of the
\* chat_conn epoll has named.
Receive(f) ==
  LET h == holder[f]
      p == event[f].ptr
  IN  /\ Handles(f, "in") /\ link[h] = "up"
      /\ unread' = [unread EXCEPT ![h] = <<>>]
      /\ readBuf' = [readBuf EXCEPT ![p] = <<>>]
      /\ queue' = [queue EXCEPT ![p] = @ \o readBuf[p] \o unread[h]]
      /\ ReceiveKeeps

\* The client has hung up since the report: recv() ends with 0 or an error, and
\* receive() returns before it parses anything, with the interest off.
ReceiveCut(f) ==
  LET h == holder[f]
      p == event[f].ptr
  IN  /\ Handles(f, "in") /\ link[h] = "hungup"
      /\ unread' = [unread EXCEPT ![h] = <<>>]
      /\ readBuf' = [readBuf EXCEPT ![p] = @ \o unread[h]]
      /\ UNCHANGED queue
      /\ ReceiveKeeps

\* write() goes for write_lock first, and waits for ever if it has leaked; with
\* it the reactor and the rest of its batch.
WriteBegins(f) == Handles(f, "out") /\ event[f].ptr \notin leaked

WriteKeeps ==
  UNCHANGED <<clientVars, unread, readBuf, connVars, holder, queue, replying, userVars,
              msgVars>>

\* EPOLLOUT: write() sends what the chat_conn's buffer holds and listens again;
\* with an empty buffer it returns at once.
Write(f) ==
  LET h == holder[f]
      p == event[f].ptr
  IN  /\ WriteBegins(f)
      /\ got' = [got EXCEPT ![h] = @ \cup ({buf[p]} \cap Msgs)]
      /\ awaiting' = IF buf[p] = Answer THEN awaiting \ {h} ELSE awaiting
      /\ buf' = [buf EXCEPT ![p] = None]
      /\ reg' = IF buf[p] = None THEN reg ELSE Modfd(p, "in")
      /\ UNCHANGED leaked
      /\ WriteKeeps

\* The socket takes no more: write() waits for the next EPOLLOUT, and returns
\* with the lock.
SendBlocks(f) ==
  LET p == event[f].ptr
  IN  /\ WriteBegins(f) /\ buf[p] # None
      /\ reg' = Modfd(p, "out")
      /\ leaked' = leaked \cup {p}
      /\ UNCHANGED <<awaiting, buf, got>>
      /\ WriteKeeps

\* The client has hung up and send() fails: write() returns with the lock, and
\* without turning the interest on again.
SendFails(f) ==
  LET p == event[f].ptr
  IN  /\ WriteBegins(f) /\ buf[p] # None /\ link[holder[f]] = "hungup"
      /\ leaked' = leaked \cup {p}
      /\ UNCHANGED <<reg, awaiting, buf, got>>
      /\ WriteKeeps

EventOn(f) ==
  Remove(f) \/ Receive(f) \/ ReceiveCut(f) \/ Write(f) \/ SendBlocks(f) \/ SendFails(f)
-----------------------------------------------------------------------------
(* Workers.                                                                *)

TakeLogin(c) ==
  /\ queue[c] # <<>> /\ c \notin replying
  /\ queue' = [queue EXCEPT ![c] = Tail(@)]
  /\ replying' = replying \cup {c}
  /\ UNCHANGED <<clientVars, requestVars, connVars, holder, reg, reactorVars, buf, msgVars,
                 got>>

\* Mutation: the mapping is made before the password is checked.
LoginBeforeCheck(c) ==
  LET q == Head(queue[c])
  IN  /\ TakeLogin(c)
      /\ map' = [map EXCEPT ![q.user] = c]
      /\ userId' = [userId EXCEPT ![c] = q.user]
      /\ loggedIn' = [loggedIn EXCEPT ![q.from] = IF q.good THEN @ \cup {q.user}
                                                     ELSE @]
      /\ lastLogin' = [lastLogin EXCEPT ![q.user] = IF q.good THEN c ELSE @]

\* getMysql_UserResult found the user: addUserSocket, and setUserId(row[0]).
Login(c) ==
  LET q == Head(queue[c])
  IN  /\ TakeLogin(c)
      /\ q.good
      /\ map' = [map EXCEPT ![q.user] = c]
      /\ userId' = [userId EXCEPT ![c] = q.user]
      /\ loggedIn' = [loggedIn EXCEPT ![q.from] = @ \cup {q.user}]
      /\ lastLogin' = [lastLogin EXCEPT ![q.user] = c]

\* setUserId("active"), a few statements later.
SetActive(c) ==
  /\ c \in replying /\ userId[c] \in Users
  /\ userId' = [userId EXCEPT ![c] = Active]
  /\ UNCHANGED <<clientVars, requestVars, connVars, holder, reg, reactorVars, queue,
                 replying, map, loggedIn, lastLogin, buf, msgVars, got>>

\* It found no row, or the query failed.
LoginRefused(c) ==
  /\ TakeLogin(c)
  /\ ~Head(queue[c]).good
  /\ UNCHANGED userVars

\* Mutation: handle_message ends without the modfd.
AnswerUnarmed(c) ==
  /\ c \in replying /\ userId[c] \notin Users /\ c \notin leaked
  /\ replying' = replying \ {c}
  /\ buf' = [buf EXCEPT ![c] = Answer]
  /\ UNCHANGED <<clientVars, requestVars, connVars, holder, reg, reactorVars, queue,
                 userVars, msgVars, got>>

\* The answer is in the buffer, modfd(EPOLLOUT); without the lock it never gets
\* there.
AnswerLogin(c) ==
  /\ c \in replying /\ userId[c] \notin Users /\ c \notin leaked
  /\ replying' = replying \ {c}
  /\ buf' = [buf EXCEPT ![c] = Answer]
  /\ reg' = Modfd(c, "out")
  /\ UNCHANGED <<clientVars, requestVars, connVars, holder, reactorVars, queue, userVars,
                 msgVars, got>>

\* sendMessage_Mysql of some connection: getSocketByUserId.
LookUp(m) ==
  /\ m \in unsent
  /\ unsent' = unsent \ {m}
  /\ pushing' = [pushing EXCEPT ![m] = map[to[m]]]
  /\ UNCHANGED <<clientVars, requestVars, connVars, holder, reg, reactorVars, queue,
                 replying, userVars, buf, to, got>>

\* The receiver's buffer is written and its interest switched, by pointer.
Push(m) ==
  LET c == pushing[m]
  IN  /\ c # None /\ c \notin leaked
      /\ pushing' = [pushing EXCEPT ![m] = None]
      /\ buf' = [buf EXCEPT ![c] = m]
      /\ reg' = Modfd(c, "out")
      /\ UNCHANGED <<clientVars, requestVars, connVars, holder, reactorVars, queue,
                     replying, userVars, to, unsent, got>>
-----------------------------------------------------------------------------
StrandStep(c) == Login(c) \/ SetActive(c) \/ LoginRefused(c) \/ AnswerLogin(c)

Next ==
  \/ \E c \in Clients : SendLogin(c) \/ HangUp(c) \/ StrandStep(c)
  \/ \E c \in Clients, f \in Fds, r \in Reactors : Accept(c, f, r)
  \/ \E r \in Reactors : Poll(r)
  \/ \E f \in Fds : EventOn(f)
  \/ \E m \in Msgs : LookUp(m) \/ Push(m)

Spec == Init /\ [][Next]_vars
-----------------------------------------------------------------------------
(***************************************************************************)
(* A chat message is only ever received by a client that gave the          *)
(* password of the user it is for: the directory locates "the connection   *)
(* of a user" and pushes "to a specific user".                             *)
(***************************************************************************)
OnlyToReceiver == \A c \in Clients : \A m \in got[c] : to[m] \in loggedIn[c]

\* No socket number is handed out twice.
NumbersFresh ==
  \A c, d \in Clients : c # d /\ fdOf[c] = fdOf[d] => fdOf[c] = None

(***************************************************************************)
(* What does hold of it: until a socket number is handed out a second      *)
(* time, no message goes astray, whatever logins, hang-ups and pushes      *)
(* interleave.                                                             *)
(***************************************************************************)
FreshNumbersRouteRight == NumbersFresh => OnlyToReceiver

\* Nobody has been sent a message, and every client awaits each of its answers.
Undisturbed == unsent = Msgs /\ ~pipelined

(***************************************************************************)
(* While it is so, a user who has logged in again stays reachable on the   *)
(* new connection, also when the old one is removed afterwards.  (A push   *)
(* or an earlier answer can turn on the interest of a connection whose     *)
(* login is under way; a removal then erases the key it finds in User.)    *)
(***************************************************************************)
LastLoginReachable ==
  \A u \in Users :
    Undisturbed /\ lastLogin[u] # None /\ link[lastLogin[u]] = "up"
      => map[u] = lastLogin[u]

(***************************************************************************)
(* The dispatch spreads connections evenly: the counts of two SubReactors  *)
(* never differ by more than one.                                          *)
(***************************************************************************)
EvenlySpread == \A r, s \in Reactors : conn_count[r] <= conn_count[s] + 1

\* Something will look at the connection of c again: epoll, its reactor, or a
\* worker that turns the interest on.
Attended(c) ==
  Reported(fdOf[c]) \/ event[fdOf[c]] # None \/ queue[c] # <<>> \/ c \in replying

(***************************************************************************)
(* A client that hangs up is not forgotten, also in the middle of a login: *)
(* a SubReactor is in charge of closing its connections, and a forgotten   *)
(* socket stays open for good.  It is so undisturbed, with every send()    *)
(* gone well, and for every client but one that hung up between the report *)
(* and the reading of its last request, which receive() then leaves in the *)
(* buffer.                                                                 *)
(***************************************************************************)
HangUpsNoticed ==
  \A c \in Clients :
    Undisturbed /\ leaked = {} /\ link[c] = "hungup" /\ readBuf[c] = <<>> => Attended(c)
=============================================================================
