------------------------------ MODULE ChatStore ------------------------------
(***************************************************************************)
(* The database as the server uses it: the requests that write to it       *)
(* (REGISTER, ADD_FRIEND, ACCEPT_FRIEND, DELETE_FRIEND, SEND_MESSAGE,      *)
(* UPDATE_CHAT of process_write), each run by a worker through a stored    *)
(* procedure of animalchat.sql or as plain statements.                     *)
(*                                                                         *)
(* Nothing opens a transaction, so MySQL commits every statement by itself *)
(* and each is one action here.  A statement fails on a duplicate key, on  *)
(* a missing user, or for a reason of the database's own (Fail); the       *)
(* procedure then stops where it is.  Requests name any two users: the     *)
(* server checks neither who asks nor whether the two are friends.         *)
(***************************************************************************)
EXTENDS Integers, Sequences, FiniteSets

CONSTANTS
  User,         \* those who may register; user_id is the phone number
  Workers,      \* threads that run a request, each with a connection
  MaxRequests,  \* bound: requests made
  Faults        \* whether statements may fail for reasons of the database

ASSUME ChatStoreAssumption == MaxRequests \in Nat /\ Faults \in BOOLEAN

VARIABLES
  users,     \* m_user
  relation,  \* m_friends_relation: friend_relation of a row, "none" without
  chat,      \* m_chatlist: unread_count of a row, NoRow without
  messages,  \* m_friends_message: message_status by the request that sent it
  made,      \* the requests, in the order they were begun
  job,       \* the request each worker is at, 0 for none
  step,      \* the statement it executes next
  outcome,   \* what each request was answered
  pending,   \* client side: whom a user's last friend list showed as pending
  torn,      \* history: pairs whose friendship requests collided
  slipped    \* history: pairs whose unread count was written in between

tables == <<users, relation, chat, messages>>
history == <<made, pending, torn, slipped>>
vars == <<tables, history, job, step, outcome>>

Pair == {p \in User \X User : p[1] # p[2]}
Back(p) == <<p[2], p[1]>>
Both(p) == {p, Back(p)}
NoRow == -1
Keys == 1..MaxRequests

Friendship == {"add", "accept", "delete"}
Ops == Friendship \cup {"register", "send", "update"}
\* A registration names one user; pair[1] is the one who asks.
Request == [op : Ops, pair : Pair, online : BOOLEAN]

TypeOK ==
  /\ users \subseteq User
  /\ relation \in [Pair -> {"none", "pending", "accepted"}]
  /\ chat \in [Pair -> Nat \cup {NoRow}]
  /\ messages \in [Keys -> {"none", "send", "received", "read", "delete"}]
  /\ made \in Seq(Request) /\ Len(made) <= MaxRequests
  /\ job \in [Workers -> 0..Len(made)]
  /\ step \in [Workers -> 1..6]
  /\ outcome \in [Keys -> {"none", "success", "null", "error", "unsaid"}]
  /\ pending \in [User -> SUBSET User]
  /\ torn \subseteq Pair
  /\ slipped \subseteq Pair
  /\ \A v, w \in Workers : job[v] = job[w] /\ job[v] # 0 => v = w
-----------------------------------------------------------------------------
\* The database of an earlier run: before anybody made friends, or when all
\* are friends and have read everything.
Init ==
  /\ users \in SUBSET User
  /\ \/ /\ relation = [p \in Pair |-> "none"]
        /\ chat = [p \in Pair |-> NoRow]
     \/ /\ users = User
        /\ relation = [p \in Pair |-> "accepted"]
        /\ chat = [p \in Pair |-> 0]
  /\ messages = [k \in Keys |-> "none"]
  /\ made = <<>>
  /\ job = [w \in Workers |-> 0]
  /\ step = [w \in Workers |-> 1]
  /\ outcome = [k \in Keys |-> "none"]
  /\ pending = [u \in User |-> {}]
  /\ torn = {}
  /\ slipped = {}

Op(w) == made[job[w]].op
Of(w) == made[job[w]].pair
Busy(w) == job[w] # 0
\* The requests on pair p that other workers are at.
Meets(p, ops) ==
  \E w \in Workers : Busy(w) /\ Of(w) \in Both(p) /\ Op(w) \in ops

(***************************************************************************)
(* A worker takes up a request.  send_message first looks the receiver up  *)
(* (Sessions.tla) and, if he is online, writes to his connection; only     *)
(* then does it call the procedure.  A client accepts what its friend list *)
(* showed as pending.  The histories note which requests on one pair ran   *)
(* into each other.                                                        *)
(***************************************************************************)
Collide(op, p) ==
  op \in Friendship /\ Meets(p, Friendship \ {op})

CountsCollide(op, p) ==
  \/ op \in {"send", "accept"} /\ Meets(p, {"update", "delete"})
  \/ op \in {"update", "delete"} /\ Meets(p, {"send", "accept"})

Begin(w) ==
  \E r \in Request :
    /\ ~Busy(w) /\ Len(made) < MaxRequests
    /\ r.op = "accept" => r.pair[2] \in pending[r.pair[1]]
    /\ r.online => r.op = "send"
    /\ made' = Append(made, r)
    /\ job' = [job EXCEPT ![w] = Len(made')]
    /\ step' = [step EXCEPT ![w] = IF r.op = "send" THEN 4 ELSE 1]
    /\ torn' = IF Collide(r.op, r.pair) THEN torn \cup Both(r.pair) ELSE torn
    /\ slipped' = IF CountsCollide(r.op, r.pair)
                  THEN slipped \cup Both(r.pair) ELSE slipped
    /\ UNCHANGED <<tables, pending, outcome>>

\* The next statement of worker w is statement n of op.
At(w, op, n) == Busy(w) /\ Op(w) = op /\ step[w] = n

(***************************************************************************)
(* The answer.  After a push the sender's own flag sendMessage is up, and  *)
(* process_write leaves the answer out, unless the reactor has cleared the *)
(* flag meanwhile (ConnIO.tla).                                            *)
(***************************************************************************)
Tell(w, what) ==
  /\ job' = [job EXCEPT ![w] = 0]
  /\ step' = [step EXCEPT ![w] = 1]
  /\ \E said \in {what} \cup (IF made[job[w]].online THEN {"unsaid"} ELSE {}) :
       outcome' = [outcome EXCEPT ![job[w]] = said]

Continue(w) ==
  /\ step' = [step EXCEPT ![w] = @ + 1]
  /\ UNCHANGED <<history, job, outcome>>

Answer(w, what) == Tell(w, what) /\ UNCHANGED history

\* A statement fails for reasons of the database: the rest is not executed.
Fail(w) ==
  /\ Faults /\ Busy(w)
  /\ Tell(w, "error")
  /\ torn' = IF Op(w) \in Friendship /\ step[w] > 1
             THEN torn \cup Both(Of(w)) ELSE torn
  /\ UNCHANGED <<tables, made, pending, slipped>>

\* get friends: a SELECT.
ListFriends(u) ==
  /\ pending' = [pending EXCEPT ![u] =
       {f \in User : <<u, f>> \in Pair /\ relation[<<u, f>>] = "pending"}]
  /\ UNCHANGED <<tables, made, torn, slipped, job, step, outcome>>
-----------------------------------------------------------------------------
(* Register, and SELECT @new_user_id on the same connection.               *)

NewUser(w) == Of(w)[1]

RegisterCheck(w) ==
  /\ At(w, "register", 1)
  /\ IF NewUser(w) \in users THEN Answer(w, "error") ELSE Continue(w)
  /\ UNCHANGED tables

\* Mutation: the table has no key to refuse a second row.
RegisterInsertUnchecked(w) ==
  /\ At(w, "register", 2)
  /\ Continue(w) /\ users' = users \cup {NewUser(w)}
  /\ UNCHANGED <<relation, chat, messages>>

RegisterInsert(w) ==
  /\ At(w, "register", 2)
  /\ IF NewUser(w) \in users
     THEN Answer(w, "error") /\ UNCHANGED users
     ELSE Continue(w) /\ users' = users \cup {NewUser(w)}
  /\ UNCHANGED <<relation, chat, messages>>

RegisterAnswer(w) ==
  /\ At(w, "register", 3)
  /\ Answer(w, "success")
  /\ UNCHANGED tables
-----------------------------------------------------------------------------
(* AddFriend: two INSERTs.                                                 *)

CanRelate(p) == relation[p] = "none" /\ {p[1], p[2]} \subseteq users

AddFirst(w) ==
  /\ At(w, "add", 1)
  /\ IF CanRelate(Of(w))
     THEN Continue(w) /\ relation' = [relation EXCEPT ![Of(w)] = "pending"]
     ELSE Answer(w, "error") /\ UNCHANGED relation
  /\ UNCHANGED <<users, chat, messages>>

AddSecond(w) ==
  /\ At(w, "add", 2)
  /\ IF CanRelate(Back(Of(w)))
     THEN Answer(w, "success") /\ relation' = [relation EXCEPT ![Back(Of(w))] = "pending"]
     ELSE Answer(w, "error") /\ UNCHANGED relation
  /\ UNCHANGED <<users, chat, messages>>
-----------------------------------------------------------------------------
(* UpdateFriend(u, f, 'accepted'), up to its call of AddFriendMessage.     *)

AcceptRelation(w) ==
  LET rows == {p \in Both(Of(w)) : relation[p] # "none"} IN
  /\ At(w, "accept", 1)
  /\ relation' = [p \in Pair |-> IF p \in rows THEN "accepted" ELSE relation[p]]
  /\ step' = [step EXCEPT ![w] = 2]
  /\ torn' = IF rows = {} THEN torn \cup Both(Of(w)) ELSE torn
  /\ UNCHANGED <<users, chat, messages, made, pending, slipped, job, outcome>>

\* The two INSERTs into m_chatlist, the own row first.
AcceptChat(w) ==
  LET row == IF step[w] = 2 THEN Of(w) ELSE Back(Of(w)) IN
  /\ At(w, "accept", 2) \/ At(w, "accept", 3)
  /\ IF chat[row] = NoRow /\ row[1] \in users
     THEN Continue(w) /\ chat' = [chat EXCEPT ![row] = 0]
     ELSE Answer(w, "error") /\ UNCHANGED chat
  /\ UNCHANGED <<users, relation, messages>>
-----------------------------------------------------------------------------
(* AddFriendMessage, called by send_message and by UpdateFriend.           *)

Sending(w, n) == At(w, "send", n) \/ At(w, "accept", n)

\* Mutation: the result of the CALL is not looked at.
MessageInsertUnseen(w) ==
  LET p == Of(w)
      status == IF made[job[w]].online THEN "received" ELSE "send"
  IN
  /\ Sending(w, 4)
  /\ IF {p[1], p[2]} \subseteq users
     THEN Continue(w) /\ messages' = [messages EXCEPT ![job[w]] = status]
     ELSE Answer(w, "success") /\ UNCHANGED messages
  /\ UNCHANGED <<users, relation, chat>>

MessageInsert(w) ==
  LET p == Of(w)
      status == IF made[job[w]].online THEN "received" ELSE "send"
  IN
  /\ Sending(w, 4)
  /\ IF {p[1], p[2]} \subseteq users
     THEN Continue(w) /\ messages' = [messages EXCEPT ![job[w]] = status]
     ELSE Answer(w, "error") /\ UNCHANGED messages
  /\ UNCHANGED <<users, relation, chat>>

\* The sender's row: he has nothing unread.
MessageOwnRow(w) ==
  /\ Sending(w, 5)
  /\ chat' = [chat EXCEPT ![Of(w)] = IF @ = NoRow THEN NoRow ELSE 0]
  /\ Continue(w)
  /\ UNCHANGED <<users, relation, messages>>

\* Mutation: the worker goes on after the last statement.
MessagePeerRowGoesOn(w) ==
  LET row == Back(Of(w)) IN
  /\ Sending(w, 6)
  /\ chat' = [chat EXCEPT ![row] = IF @ = NoRow THEN NoRow ELSE @ + 1]
  /\ Continue(w)
  /\ UNCHANGED <<users, relation, messages>>

\* The receiver's row.  A friend request is answered by the rows it changed.
MessagePeerRow(w) ==
  LET row == Back(Of(w)) IN
  /\ Sending(w, 6)
  /\ chat' = [chat EXCEPT ![row] = IF @ = NoRow THEN NoRow ELSE @ + 1]
  /\ Answer(w, IF Op(w) = "send" \/ chat[row] # NoRow THEN "success" ELSE "null")
  /\ UNCHANGED <<users, relation, messages>>
-----------------------------------------------------------------------------
(* DeleteFriend: both rows of each table in one statement.                 *)

\* The messages between the two.
Between(w) == {k \in 1..Len(made) : messages[k] # "none" /\ made[k].pair \in Both(Of(w))}

DeleteRelation(w) ==
  /\ At(w, "delete", 1)
  /\ relation' = [p \in Pair |-> IF p \in Both(Of(w)) THEN "none" ELSE relation[p]]
  /\ Continue(w)
  /\ UNCHANGED <<users, chat, messages>>

\* Mutation: only the row of the one who asks is deleted.
DeleteOwnChat(w) ==
  /\ At(w, "delete", 2)
  /\ chat' = [chat EXCEPT ![Of(w)] = NoRow]
  /\ Continue(w)
  /\ UNCHANGED <<users, relation, messages>>

DeleteChat(w) ==
  /\ At(w, "delete", 2)
  /\ chat' = [p \in Pair |-> IF p \in Both(Of(w)) THEN NoRow ELSE chat[p]]
  /\ Continue(w)
  /\ UNCHANGED <<users, relation, messages>>

\* The answer counts the rows this last statement changed.
DeleteMessages(w) ==
  /\ At(w, "delete", 3)
  /\ messages' = [k \in Keys |-> IF k \in Between(w) THEN "delete" ELSE messages[k]]
  /\ Answer(w, IF messages' # messages THEN "success" ELSE "null")
  /\ UNCHANGED <<users, relation, chat>>
-----------------------------------------------------------------------------
(* update_chat of a client that opens the chat: it sends unread_count 0.   *)

\* Mutation: the count is left as it was.
UpdateRowKept(w) ==
  /\ At(w, "update", 1)
  /\ chat' = chat
  /\ Continue(w)
  /\ UNCHANGED <<users, relation, messages>>

UpdateRow(w) ==
  /\ At(w, "update", 1)
  /\ chat' = [chat EXCEPT ![Of(w)] = IF @ = NoRow THEN NoRow ELSE 0]
  /\ Continue(w)
  /\ UNCHANGED <<users, relation, messages>>

\* Everything the other one ever sent becomes read, deleted or not.
Received(p) == {k \in 1..Len(made) : messages[k] # "none" /\ made[k].pair = Back(p)}

UpdateMessages(w) ==
  /\ At(w, "update", 2)
  /\ messages' = [k \in Keys |-> IF k \in Received(Of(w)) THEN "read" ELSE messages[k]]
  /\ Answer(w, "success")
  /\ UNCHANGED <<users, relation, chat>>
-----------------------------------------------------------------------------
Statement(w) ==
  \/ RegisterCheck(w) \/ RegisterInsert(w) \/ RegisterAnswer(w)
  \/ AddFirst(w) \/ AddSecond(w)
  \/ AcceptRelation(w) \/ AcceptChat(w)
  \/ MessageInsert(w) \/ MessageOwnRow(w) \/ MessagePeerRow(w)
  \/ DeleteRelation(w) \/ DeleteChat(w) \/ DeleteMessages(w)
  \/ UpdateRow(w) \/ UpdateMessages(w)

Next ==
  \/ \E w \in Workers : Begin(w) \/ Statement(w) \/ Fail(w)
  \/ \E u \in User : ListFriends(u)

Spec == Init /\ [][Next]_vars
-----------------------------------------------------------------------------
(***************************************************************************)
(* A friendship is one thing to its two users: whenever no friend request  *)
(* of theirs is being executed, both relation rows say the same, and the   *)
(* two chat rows are there exactly when it is accepted.  The procedures    *)
(* keep this statement by statement as long as no add, accept and delete   *)
(* of one pair overlap, none is cut off by a failure, and nobody accepts   *)
(* what has been deleted meanwhile.  Two adds, two accepts, and sends and  *)
(* updates at any moment do no harm.                                       *)
(***************************************************************************)
FriendshipWhole ==
  \A p \in Pair \ torn :
    ~Meets(p, Friendship) =>
      \A q \in Both(p) :
        /\ relation[q] = relation[p]
        /\ chat[q] # NoRow <=> relation[p] = "accepted"

(***************************************************************************)
(* The unread count shown to a user is backed by stored messages he has    *)
(* not read, at every moment, unless update_chat or a deletion ran into a  *)
(* message of the same pair (AddFriendMessage stores, then counts).        *)
(***************************************************************************)
Unread(p) == {k \in Received(p) : messages[k] \in {"send", "received"}}

UnreadBacked ==
  \A p \in Pair \ slipped : chat[p] <= Cardinality(Unread(p))

(***************************************************************************)
(* Who is told "success" can rely on it, although a request may fail       *)
(* between its statements and the answer of a CALL counts the rows of its  *)
(* last statement only: the user exists, the message is stored, and the    *)
(* friendship of the pair is what was asked for, unless other requests     *)
(* tore it.                                                                *)
(***************************************************************************)
Befriended(p, state, whole) ==
  p \in torn \/ \A q \in Both(p) : relation[q] = state /\ (chat[q] # NoRow <=> whole)

Done(k) ==
  LET p == made[k].pair IN
  CASE made[k].op = "register" -> p[1] \in users
    [] made[k].op = "send"     -> messages[k] # "none"
    [] made[k].op = "add"      -> Befriended(p, "pending", FALSE)
    [] made[k].op = "accept"   -> Befriended(p, "accepted", TRUE) /\ messages[k] # "none"
    [] made[k].op = "delete"   -> Befriended(p, "none", FALSE)
    [] made[k].op = "update"   -> TRUE

AnswersAreTrue ==
  [][\A k \in Keys : outcome[k] # "success" /\ outcome'[k] = "success" => Done(k)']_vars

(***************************************************************************)
(* Register and UpdateFriend look before they insert, in statements of     *)
(* their own.  Still only one of several registrations of a phone number   *)
(* succeeds, and of several acceptances of a friendship that was never     *)
(* deleted: the primary keys decide.                                       *)
(***************************************************************************)
Won(k) == k <= Len(made) /\ outcome[k] = "success"

OneWinner ==
  \A j, k \in Keys :
    Won(j) /\ Won(k) /\ j # k =>
      /\ ~(/\ made[j].op = "register" /\ made[k].op = "register"
           /\ made[j].pair[1] = made[k].pair[1])
      /\ made[j].op = "accept" /\ made[k].op = "accept" /\ made[j].pair \in Both(made[k].pair)
         => \E d \in 1..Len(made) : made[d].op = "delete" /\ made[d].pair \in Both(made[k].pair)
=============================================================================
