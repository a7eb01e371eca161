--------------------------- MODULE ChatStore_proofs ---------------------------
(***************************************************************************)
(* Proofs about ChatStore.tla for any users, any number of workers and of  *)
(* requests, with or without failing statements.                           *)
(***************************************************************************)
EXTENDS ChatStore, SequenceTheorems, FiniteSetTheorems, TLAPS

(***************************************************************************)
(* Pairs of users and their reverse.                                       *)
(***************************************************************************)
LEMMA BackFacts ==
  ASSUME NEW p \in Pair
  PROVE  /\ Back(p) \in Pair
         /\ Back(p) # p
         /\ Back(Back(p)) = p
         /\ p[1] \in User /\ p[2] \in User
         /\ Back(p)[1] = p[2] /\ Back(p)[2] = p[1]
<1>1. PICK u \in User, f \in User : p = <<u, f>> /\ u # f
  BY DEF Pair
<1> QED
  BY <1>1 DEF Pair, Back

LEMMA BothFacts ==
  ASSUME NEW p \in Pair, NEW q \in Both(p)
  PROVE  /\ q \in Pair /\ Back(q) \in Both(p)
         /\ q = p \/ q = Back(p)
         /\ Both(q) = Both(p)
         /\ p \in Both(q) /\ p \in Both(p) /\ Back(p) \in Both(p)
         /\ {q[1], q[2]} = {p[1], p[2]}
<1>1. q = p \/ q = Back(p)
  BY DEF Both
<1> QED
  BY <1>1, BackFacts DEF Both
-----------------------------------------------------------------------------
(***************************************************************************)
(* What a request does to the workers: the one that executes a statement   *)
(* goes on or leaves, the others stay where they are.                      *)
(***************************************************************************)
LEMMA BusyFacts ==
  ASSUME TypeOK, NEW w \in Workers, Busy(w)
  PROVE  /\ job[w] \in 1..Len(made) /\ job[w] \in Keys /\ job[w] # 0
         /\ made[job[w]] \in Request
         /\ Op(w) \in Ops
         /\ Of(w) \in Pair
         /\ step[w] \in 1..6
         /\ Len(made) \in Nat
<1>1. Len(made) \in Nat /\ made \in Seq(Request) /\ Len(made) <= MaxRequests
  BY LenProperties DEF TypeOK
<1>2. job[w] \in 1..Len(made)
  BY <1>1 DEF TypeOK, Busy
<1>3. made[job[w]] \in Request
  BY <1>1, <1>2
<1> QED
  BY <1>1, <1>2, <1>3, ChatStoreAssumption DEF TypeOK, Keys, Request, Op, Of

\* A worker whose job stays sees the same request.
LEMMA SameView ==
  ASSUME TypeOK, NEW v \in Workers, job'[v] = job[v],
         \/ made' = made
         \/ \E r \in Request : made' = Append(made, r)
  PROVE  /\ Busy(v)' <=> Busy(v)
         /\ Busy(v) => Op(v)' = Op(v) /\ Of(v)' = Of(v) /\ made'[job'[v]] = made[job[v]]
<1>1. ASSUME Busy(v) PROVE made'[job'[v]] = made[job[v]]
  <2>1. job[v] \in 1..Len(made) /\ made \in Seq(Request)
    BY <1>1, BusyFacts DEF TypeOK
  <2>2. ASSUME NEW r \in Request, made' = Append(made, r) PROVE made'[job[v]] = made[job[v]]
    BY <2>1, <2>2, AppendProperties
  <2> QED
    BY <2>1, <2>2
<1> QED
  BY <1>1 DEF Busy, Op, Of

LEMMA OthersStay ==
  ASSUME TypeOK, NEW w \in Workers, NEW v \in Workers, v # w,
         NEW j, NEW s, job' = [job EXCEPT ![w] = j], step' = [step EXCEPT ![w] = s],
         \/ made' = made
         \/ \E r \in Request : made' = Append(made, r)
  PROVE  /\ job'[v] = job[v] /\ step'[v] = step[v]
         /\ Busy(v)' <=> Busy(v)
         /\ Busy(v) => Op(v)' = Op(v) /\ Of(v)' = Of(v)
<1>1. job'[v] = job[v] /\ step'[v] = step[v]
  BY DEF TypeOK
<1> QED
  BY <1>1, SameView

\* Worker w goes on to its next statement.
LEMMA GoesOn ==
  ASSUME TypeOK, NEW w \in Workers, Busy(w), Continue(w)
  PROVE  /\ made' = made /\ job' = job /\ outcome' = outcome
         /\ pending' = pending /\ torn' = torn /\ slipped' = slipped
         /\ step'[w] = step[w] + 1
         /\ \A v \in Workers : v # w => step'[v] = step[v]
         /\ \A v \in Workers :
              /\ Busy(v)' <=> Busy(v)
              /\ Busy(v) => Op(v)' = Op(v) /\ Of(v)' = Of(v)
<1>1. /\ made' = made /\ job' = job /\ outcome' = outcome
      /\ pending' = pending /\ torn' = torn /\ slipped' = slipped
      /\ step' = [step EXCEPT ![w] = @ + 1]
  BY DEF Continue, history
<1>2. step \in [Workers -> 1..6]
  BY DEF TypeOK
<1> QED
  BY <1>1, <1>2, SameView

\* Worker w has answered its request and leaves it.
LEMMA Leaves ==
  ASSUME TypeOK, NEW w \in Workers, Busy(w), NEW what, Tell(w, what), made' = made
  PROVE  /\ job'[w] = 0 /\ ~Busy(w)' /\ step'[w] = 1
         /\ job' = [job EXCEPT ![w] = 0] /\ step' = [step EXCEPT ![w] = 1]
         /\ \A v \in Workers : v # w =>
              /\ job'[v] = job[v] /\ step'[v] = step[v]
              /\ Busy(v)' <=> Busy(v)
              /\ Busy(v) => Op(v)' = Op(v) /\ Of(v)' = Of(v)
         /\ outcome'[job[w]] \in {what, "unsaid"}
         /\ outcome' = [outcome EXCEPT ![job[w]] = outcome'[job[w]]]
         /\ \A k \in Keys : k # job[w] => outcome'[k] = outcome[k]
<1>1. job' = [job EXCEPT ![w] = 0] /\ step' = [step EXCEPT ![w] = 1]
  BY DEF Tell
<1>2. PICK said \in {what, "unsaid"} : outcome' = [outcome EXCEPT ![job[w]] = said]
  BY DEF Tell
<1>3. outcome \in [Keys -> {"none", "success", "null", "error", "unsaid"}] /\ job[w] \in Keys
  BY BusyFacts DEF TypeOK
<1>4. job'[w] = 0 /\ step'[w] = 1
  BY <1>1 DEF TypeOK
<1> QED
  BY <1>1, <1>2, <1>3, <1>4, OthersStay DEF Busy
-----------------------------------------------------------------------------
(* Type correctness, of the workers and of the tables.                     *)

WorkersTyped ==
  /\ made \in Seq(Request) /\ Len(made) <= MaxRequests
  /\ job \in [Workers -> 0..Len(made)]
  /\ step \in [Workers -> 1..6]
  /\ outcome \in [Keys -> {"none", "success", "null", "error", "unsaid"}]
  /\ pending \in [User -> SUBSET User]
  /\ torn \subseteq Pair
  /\ slipped \subseteq Pair
  /\ \A v, w \in Workers : job[v] = job[w] /\ job[v] # 0 => v = w

TablesTyped ==
  /\ users \subseteq User
  /\ relation \in [Pair -> {"none", "pending", "accepted"}]
  /\ chat \in [Pair -> Nat \cup {NoRow}]
  /\ messages \in [Keys -> {"none", "send", "received", "read", "delete"}]

LEMMA TypeParts == TypeOK <=> WorkersTyped /\ TablesTyped
  BY DEF TypeOK, WorkersTyped, TablesTyped

LEMMA GoesOnTyped ==
  ASSUME TypeOK, NEW w \in Workers, Busy(w), Continue(w), step[w] <= 5
  PROVE  WorkersTyped'
<1>1. step[w] + 1 \in 1..6
  <2>1. step[w] \in 1..6
    BY BusyFacts
  <2> QED
    BY <2>1
<1>2. step \in [Workers -> 1..6]
  BY DEF TypeOK
<1>3. step' \in [Workers -> 1..6]
  BY <1>1, <1>2 DEF Continue
<1> QED
  BY <1>3, GoesOn DEF TypeOK, WorkersTyped

LEMMA LeavesTyped ==
  ASSUME TypeOK, NEW w \in Workers, Busy(w),
         NEW what \in {"success", "null", "error"}, Tell(w, what),
         made' = made, pending' = pending, torn' \subseteq Pair, slipped' \subseteq Pair
  PROVE  WorkersTyped'
<1>1. job' = [job EXCEPT ![w] = 0] /\ step' = [step EXCEPT ![w] = 1]
  BY DEF Tell
<1>2. job' \in [Workers -> 0..Len(made)] /\ step' \in [Workers -> 1..6]
  BY <1>1, BusyFacts DEF TypeOK
<1>3. outcome' \in [Keys -> {"none", "success", "null", "error", "unsaid"}]
  <2>1. outcome'[job[w]] \in {what, "unsaid"}
        /\ outcome' = [outcome EXCEPT ![job[w]] = outcome'[job[w]]]
    BY Leaves
  <2> QED
    BY <2>1 DEF TypeOK
<1>4. \A u, v \in Workers : job'[u] = job'[v] /\ job'[u] # 0 => u = v
  BY <1>1 DEF TypeOK
<1> QED
  BY <1>2, <1>3, <1>4 DEF TypeOK, WorkersTyped

LEMMA BeginTyped ==
  ASSUME TypeOK, NEW w \in Workers, Begin(w)
  PROVE  WorkersTyped'
<1>1. PICK r \in Request :
        /\ ~Busy(w) /\ Len(made) < MaxRequests
        /\ made' = Append(made, r)
        /\ job' = [job EXCEPT ![w] = Len(made')]
        /\ step' = [step EXCEPT ![w] = IF r.op = "send" THEN 4 ELSE 1]
        /\ torn' = IF Collide(r.op, r.pair) THEN torn \cup Both(r.pair) ELSE torn
        /\ slipped' = IF CountsCollide(r.op, r.pair)
                      THEN slipped \cup Both(r.pair) ELSE slipped
        /\ UNCHANGED <<pending, outcome>>
  BY DEF Begin
<1>2. /\ Len(made) \in Nat /\ Len(made') = Len(made) + 1
      /\ made' \in Seq(Request) /\ Len(made') <= MaxRequests
  BY <1>1, AppendProperties, LenProperties, ChatStoreAssumption DEF TypeOK
<1>3. job' \in [Workers -> 0..Len(made')]
  BY <1>1, <1>2 DEF TypeOK
<1>4. \A u, v \in Workers : job'[u] = job'[v] /\ job'[u] # 0 => u = v
  BY <1>1, <1>2 DEF TypeOK
<1>5. Both(r.pair) \subseteq Pair
  BY BothFacts DEF Request
<1>6. torn' \subseteq Pair /\ slipped' \subseteq Pair
  BY <1>1, <1>5 DEF TypeOK
<1>7. step' \in [Workers -> 1..6] /\ outcome' = outcome /\ pending' = pending
  BY <1>1 DEF TypeOK
<1> QED
  BY <1>2, <1>3, <1>4, <1>6, <1>7 DEF TypeOK, WorkersTyped

\* No statement is the sixth and goes on.
LEMMA StatementWorkers ==
  ASSUME TypeOK, NEW w \in Workers, Statement(w)
  PROVE  WorkersTyped'
<1> USE DEF At, Sending
<1>1. ASSUME NEW what \in {"success", "null", "error"}, Busy(w), Answer(w, what)
      PROVE  WorkersTyped'
  BY <1>1, LeavesTyped DEF Answer, history, TypeOK
<1>2. ASSUME Busy(w), Continue(w), step[w] <= 5
      PROVE  WorkersTyped'
  BY <1>2, GoesOnTyped
<1>3. CASE RegisterCheck(w) \/ RegisterInsert(w) \/ RegisterAnswer(w)
  BY <1>1, <1>2, <1>3 DEF RegisterCheck, RegisterInsert, RegisterAnswer
<1>4. CASE AddFirst(w) \/ AddSecond(w)
  BY <1>1, <1>2, <1>4 DEF AddFirst, AddSecond
<1>5. CASE AcceptRelation(w)
  <2>1. Both(Of(w)) \subseteq Pair
    BY <1>5, BusyFacts, BothFacts DEF AcceptRelation
  <2> QED
    BY <1>5, <2>1 DEF AcceptRelation, TypeOK, WorkersTyped
<1>6. CASE AcceptChat(w)
  BY <1>1, <1>2, <1>6 DEF AcceptChat
<1>7. CASE MessageInsert(w) \/ MessageOwnRow(w)
  BY <1>1, <1>2, <1>7 DEF MessageInsert, MessageOwnRow
<1>8. CASE MessagePeerRow(w)
  <2>1. PICK what \in {"success", "null"} : Busy(w) /\ Answer(w, what)
    BY <1>8 DEF MessagePeerRow
  <2> QED
    BY <1>1, <2>1
<1>9. CASE DeleteRelation(w) \/ DeleteChat(w)
  BY <1>2, <1>9 DEF DeleteRelation, DeleteChat
<1>10. CASE DeleteMessages(w)
  <2>1. PICK what \in {"success", "null"} : Busy(w) /\ Answer(w, what)
    BY <1>10 DEF DeleteMessages
  <2> QED
    BY <1>1, <2>1
<1>11. CASE UpdateRow(w) \/ UpdateMessages(w)
  BY <1>1, <1>2, <1>11 DEF UpdateRow, UpdateMessages
<1> QED
  BY <1>3, <1>4, <1>5, <1>6, <1>7, <1>8, <1>9, <1>10, <1>11 DEF Statement

LEMMA StatementTables ==
  ASSUME TypeOK, NEW w \in Workers, Statement(w)
  PROVE  TablesTyped'
<1>1. Busy(w)
  BY DEF Statement, At, Sending, RegisterCheck, RegisterInsert, RegisterAnswer, AddFirst, AddSecond,
         AcceptRelation, AcceptChat, MessageInsert, MessageOwnRow, MessagePeerRow,
         DeleteRelation, DeleteChat, DeleteMessages, UpdateRow, UpdateMessages
<1>2. Of(w) \in Pair /\ Back(Of(w)) \in Pair /\ Of(w)[1] \in User /\ job[w] \in Keys
  BY <1>1, BusyFacts, BackFacts
<1> USE DEF TypeOK, TablesTyped
<1>3. CASE RegisterCheck(w) \/ RegisterInsert(w) \/ RegisterAnswer(w)
  BY <1>2, <1>3 DEF RegisterCheck, RegisterInsert, RegisterAnswer, NewUser, tables
<1>4. CASE AddFirst(w) \/ AddSecond(w)
  BY <1>2, <1>4 DEF AddFirst, AddSecond
<1>5. CASE AcceptRelation(w)
  BY <1>2, <1>5 DEF AcceptRelation
<1>6. CASE AcceptChat(w)
  BY <1>2, <1>6 DEF AcceptChat
<1>7. CASE MessageInsert(w)
  BY <1>2, <1>7 DEF MessageInsert
<1>8. CASE MessageOwnRow(w) \/ MessagePeerRow(w) \/ UpdateRow(w)
  <2>1. PICK p \in Pair, n \in Nat \cup {NoRow} : chat' = [chat EXCEPT ![p] = n]
    BY <1>2, <1>8 DEF MessageOwnRow, MessagePeerRow, UpdateRow, NoRow
  <2> QED
    BY <1>8, <2>1 DEF MessageOwnRow, MessagePeerRow, UpdateRow
<1>9. CASE DeleteRelation(w)
  BY <1>9 DEF DeleteRelation
<1>10. CASE DeleteChat(w)
  BY <1>10 DEF DeleteChat
<1>11. CASE DeleteMessages(w)
  BY <1>11 DEF DeleteMessages
<1>12. CASE UpdateMessages(w)
  BY <1>12 DEF UpdateMessages
<1> QED
  BY <1>3, <1>4, <1>5, <1>6, <1>7, <1>8, <1>9, <1>10, <1>11, <1>12 DEF Statement

LEMMA InitTyped == Init => TypeOK
<1> SUFFICES ASSUME Init PROVE TypeOK
  OBVIOUS
<1>1. <<>> \in Seq(Request) /\ Len(<<>>) = 0
  BY EmptySeq
<1>2. WorkersTyped
  BY <1>1, ChatStoreAssumption DEF Init, WorkersTyped
<1>3. TablesTyped
  BY DEF Init, TablesTyped, NoRow
<1> QED
  BY <1>2, <1>3, TypeParts

(***************************************************************************)
(* Type correctness: the tables hold what their columns allow, no two      *)
(* workers are at one request, and no procedure runs beyond its end.       *)
(***************************************************************************)
THEOREM TypeCorrect == Spec => []TypeOK
<1>1. Init => TypeOK
  BY InitTyped
<1>2. TypeOK /\ [Next]_vars => TypeOK'
  <2> SUFFICES ASSUME TypeOK, [Next]_vars PROVE WorkersTyped' /\ TablesTyped'
    BY DEF TypeOK, WorkersTyped, TablesTyped
  <2>1. ASSUME NEW w \in Workers, Begin(w) PROVE WorkersTyped' /\ TablesTyped'
    <3>1. TablesTyped'
      BY <2>1 DEF Begin, tables, TypeOK, TablesTyped
    <3> QED
      BY <2>1, <3>1, BeginTyped
  <2>2. ASSUME NEW w \in Workers, Statement(w) PROVE WorkersTyped' /\ TablesTyped'
    BY <2>2, StatementWorkers, StatementTables
  <2>3. ASSUME NEW w \in Workers, Fail(w) PROVE WorkersTyped' /\ TablesTyped'
    <3>1. Both(Of(w)) \subseteq Pair
      BY <2>3, BusyFacts, BothFacts DEF Fail
    <3>2. /\ Busy(w) /\ Tell(w, "error") /\ made' = made /\ pending' = pending
          /\ torn' \subseteq Pair /\ slipped' \subseteq Pair
      BY <2>3, <3>1 DEF Fail, TypeOK
    <3>3. TablesTyped'
      BY <2>3 DEF Fail, tables, TypeOK, TablesTyped
    <3> QED
      BY <3>2, <3>3, LeavesTyped
  <2>4. ASSUME NEW u \in User, ListFriends(u) PROVE WorkersTyped' /\ TablesTyped'
    BY <2>4 DEF ListFriends, tables, TypeOK, WorkersTyped, TablesTyped
  <2>5. CASE UNCHANGED vars
    BY <2>5 DEF vars, tables, history, TypeOK, WorkersTyped, TablesTyped
  <2> QED
    BY <2>1, <2>2, <2>3, <2>4, <2>5 DEF Next
<1> QED
  BY <1>1, <1>2, PTL DEF Spec
-----------------------------------------------------------------------------
(***************************************************************************)
(* Every statement, and a failing one, moves one worker: to its next       *)
(* statement, or out of its request.                                       *)
(***************************************************************************)
Stays(v) ==
  /\ job'[v] = job[v] /\ step'[v] = step[v]
  /\ Busy(v)' <=> Busy(v)
  /\ Busy(v) => Op(v)' = Op(v) /\ Of(v)' = Of(v)

Moves(w) ==
  /\ Busy(w) /\ Busy(w)' /\ job'[w] = job[w] /\ step'[w] = step[w] + 1
  /\ Op(w)' = Op(w) /\ Of(w)' = Of(w)
  /\ outcome' = outcome

Quits(w) ==
  /\ Busy(w) /\ ~Busy(w)' /\ job'[w] = 0 /\ step'[w] = 1
  /\ \A k \in Keys : k # job[w] => outcome'[k] = outcome[k]

LEMMA StatementMoves ==
  ASSUME TypeOK, NEW w \in Workers, Statement(w)
  PROVE  /\ made' = made /\ pending' = pending /\ slipped' = slipped
         /\ Moves(w) \/ Quits(w)
         /\ \A v \in Workers : v # w => Stays(v)
<1> USE DEF At, Sending
<1> DEFINE Goal == /\ made' = made /\ pending' = pending /\ slipped' = slipped
                   /\ Moves(w) \/ Quits(w)
                   /\ \A v \in Workers : v # w => Stays(v)
<1>1. ASSUME Busy(w), Continue(w) PROVE Goal
  BY <1>1, GoesOn DEF Moves, Stays
<1>2. ASSUME NEW what, Busy(w), Answer(w, what) PROVE Goal
  <2>1. Tell(w, what) /\ made' = made /\ pending' = pending /\ slipped' = slipped
    BY <1>2 DEF Answer, history
  <2> QED
    BY <1>2, <2>1, Leaves DEF Quits, Stays
<1>3. CASE AcceptRelation(w)
  <2>1. /\ Busy(w) /\ step[w] = 1 /\ made' = made /\ job' = job /\ outcome' = outcome
        /\ step' = [step EXCEPT ![w] = 2]
        /\ pending' = pending /\ slipped' = slipped
    BY <1>3 DEF AcceptRelation
  <2>2. step'[w] = 2 /\ \A v \in Workers : v # w => step'[v] = step[v]
    BY <2>1 DEF TypeOK
  <2> QED
    BY <2>1, <2>2, SameView DEF Moves, Stays
<1>4. CASE Busy(w) /\ Continue(w)
  BY <1>1, <1>4
<1>5. CASE \E what : Busy(w) /\ Answer(w, what)
  BY <1>2, <1>5
<1>6. AcceptRelation(w) \/ (Busy(w) /\ Continue(w)) \/ \E what : Busy(w) /\ Answer(w, what)
  BY DEF Statement, RegisterCheck, RegisterInsert, RegisterAnswer, AddFirst, AddSecond,
         AcceptChat, MessageInsert, MessageOwnRow, MessagePeerRow,
         DeleteRelation, DeleteChat, DeleteMessages, UpdateRow, UpdateMessages
<1> QED
  BY <1>3, <1>4, <1>5, <1>6

LEMMA FailMoves ==
  ASSUME TypeOK, NEW w \in Workers, Fail(w)
  PROVE  /\ made' = made /\ pending' = pending /\ slipped' = slipped
         /\ Quits(w) /\ outcome'[job[w]] \in {"error", "unsaid"}
         /\ \A v \in Workers : v # w => Stays(v)
<1>1. Busy(w) /\ Tell(w, "error") /\ made' = made /\ pending' = pending /\ slipped' = slipped
  BY DEF Fail
<1> QED
  BY <1>1, Leaves DEF Quits, Stays

\* What Begin does, with the request it begins.
Begins(w, r) ==
  /\ ~Busy(w) /\ Busy(w)' /\ Op(w)' = r.op /\ Of(w)' = r.pair
  /\ job'[w] = Len(made) + 1 /\ Len(made) + 1 \in Keys
  /\ made' = Append(made, r) /\ made'[Len(made) + 1] = r
  /\ Len(made) \in Nat /\ Len(made') = Len(made) + 1
  /\ \A k \in 1..Len(made) : made'[k] = made[k] /\ k \in 1..Len(made')
  /\ step'[w] = IF r.op = "send" THEN 4 ELSE 1
  /\ torn' = IF Collide(r.op, r.pair) THEN torn \cup Both(r.pair) ELSE torn
  /\ slipped' = IF CountsCollide(r.op, r.pair) THEN slipped \cup Both(r.pair) ELSE slipped
  /\ UNCHANGED <<tables, outcome>>

LEMMA BeginMoves ==
  ASSUME TypeOK, NEW w \in Workers, Begin(w)
  PROVE  /\ \E r \in Request : Begins(w, r)
         /\ \A v \in Workers : v # w => Stays(v)
<1>1. PICK r \in Request :
        /\ ~Busy(w) /\ Len(made) < MaxRequests
        /\ made' = Append(made, r)
        /\ job' = [job EXCEPT ![w] = Len(made')]
        /\ step' = [step EXCEPT ![w] = IF r.op = "send" THEN 4 ELSE 1]
        /\ torn' = IF Collide(r.op, r.pair) THEN torn \cup Both(r.pair) ELSE torn
        /\ slipped' = IF CountsCollide(r.op, r.pair)
                      THEN slipped \cup Both(r.pair) ELSE slipped
        /\ UNCHANGED <<tables, outcome>>
  BY DEF Begin
<1>2. /\ Len(made) \in Nat /\ Len(made') = Len(made) + 1
      /\ made'[Len(made) + 1] = r
      /\ \A k \in 1..Len(made) : made'[k] = made[k]
  BY <1>1, AppendProperties, LenProperties DEF TypeOK
<1>3. Len(made) + 1 \in Keys /\ \A k \in 1..Len(made) : k \in 1..Len(made')
  BY <1>1, <1>2, ChatStoreAssumption DEF Keys
<1>4. job'[w] = Len(made) + 1 /\ step'[w] = IF r.op = "send" THEN 4 ELSE 1
  BY <1>1, <1>2 DEF TypeOK
<1>5. Busy(w)' /\ Op(w)' = r.op /\ Of(w)' = r.pair
  BY <1>2, <1>4 DEF Busy, Op, Of
<1>6. Begins(w, r)
  BY <1>1, <1>2, <1>3, <1>4, <1>5 DEF Begins
<1>7. ASSUME NEW v \in Workers, v # w PROVE Stays(v)
  BY <1>1, <1>7, OthersStay DEF Stays
<1> QED
  BY <1>6, <1>7
-----------------------------------------------------------------------------
(***************************************************************************)
(* Friendships.  UsersRelated is the foreign key of m_friends_relation.    *)
(***************************************************************************)
UsersRelated == \A p \in Pair : relation[p] # "none" => {p[1], p[2]} \subseteq users

LEMMA RelatedKept ==
  ASSUME TypeOK, UsersRelated, [Next]_vars
  PROVE  UsersRelated'
<1>0. ASSUME users \subseteq users',
             \A p \in Pair : relation'[p] # "none" =>
               relation[p] # "none" \/ {p[1], p[2]} \subseteq users
      PROVE  UsersRelated'
  BY <1>0 DEF UsersRelated
<1>1. ASSUME NEW w \in Workers, Statement(w) PROVE UsersRelated'
  <2> USE DEF TypeOK
  <2>1. CASE AddFirst(w) \/ AddSecond(w)
    <3>1. users' = users /\ \E q \in Pair :
            relation' = relation \/ (CanRelate(q) /\ relation' = [relation EXCEPT ![q] = "pending"])
      BY <2>1, BusyFacts, BackFacts DEF AddFirst, AddSecond, At
    <3> QED
      BY <1>0, <3>1 DEF CanRelate
  <2>2. CASE AcceptRelation(w)
    BY <1>0, <2>2 DEF AcceptRelation
  <2>3. CASE DeleteRelation(w)
    BY <1>0, <2>3 DEF DeleteRelation
  <2>4. ASSUME relation' = relation, users \subseteq users' PROVE UsersRelated'
    BY <1>0, <2>4
  <2>5. CASE RegisterCheck(w) \/ RegisterInsert(w) \/ RegisterAnswer(w)
    BY <2>4, <2>5 DEF RegisterCheck, RegisterInsert, RegisterAnswer, tables
  <2>6. CASE AcceptChat(w) \/ MessageInsert(w) \/ MessageOwnRow(w) \/ MessagePeerRow(w)
    BY <2>4, <2>6 DEF AcceptChat, MessageInsert, MessageOwnRow, MessagePeerRow
  <2>7. CASE DeleteChat(w) \/ DeleteMessages(w) \/ UpdateRow(w) \/ UpdateMessages(w)
    BY <2>4, <2>7 DEF DeleteChat, DeleteMessages, UpdateRow, UpdateMessages
  <2> QED
    BY <1>1, <2>1, <2>2, <2>3, <2>5, <2>6, <2>7 DEF Statement
<1>2. ASSUME UNCHANGED tables PROVE UsersRelated'
  BY <1>0, <1>2 DEF tables
<1> QED
  BY <1>1, <1>2 DEF Next, Begin, Fail, ListFriends, vars

(***************************************************************************)
(* What holds of a pair that is not torn.  Its friendship requests are of  *)
(* one kind (OneKind).  Rows that differ have somebody who will make them  *)
(* agree: a half-made request of friendship its AddSecond, a missing chat  *)
(* row its AcceptChat, an orphaned one its DeleteChat (PairSound).         *)
(***************************************************************************)
Friend(w, p) == Busy(w) /\ Op(w) \in Friendship /\ Of(w) \in Both(p)
On(w, p, op, n) == Friend(w, p) /\ Op(w) = op /\ step[w] = n

OneKind(p) == \A v, w \in Workers : Friend(v, p) /\ Friend(w, p) => Op(v) = Op(w)

Adding(p) ==
  /\ \A w \in Workers : On(w, p, "add", 2) =>
       relation[Of(w)] = "pending" /\ relation[Back(Of(w))] # "accepted"
  /\ relation[p] # relation[Back(p)] => \E w \in Workers : On(w, p, "add", 2)

Accepting(p) ==
  /\ \A w \in Workers : Friend(w, p) /\ Op(w) = "accept" =>
       /\ step[w] >= 2 => \A q \in Both(p) : relation[q] = "accepted"
       /\ step[w] >= 3 => chat[Of(w)] # NoRow
       /\ step[w] >= 4 => chat[Back(Of(w))] # NoRow
  /\ \A q \in Both(p) :
       relation[q] = "accepted" /\ chat[q] = NoRow =>
         IF chat[Back(q)] = NoRow
         THEN \E w \in Workers : On(w, p, "accept", 2)
         ELSE \E w \in Workers : On(w, p, "accept", 3) /\ Of(w) = Back(q)

Deleting(p) ==
  /\ \A w \in Workers : Friend(w, p) /\ Op(w) = "delete" =>
       \A q \in Both(p) :
         /\ step[w] >= 2 => relation[q] = "none"
         /\ step[w] >= 3 => chat[q] = NoRow
  /\ \A q \in Both(p) :
       relation[q] # "accepted" /\ chat[q] # NoRow =>
         \E w \in Workers : On(w, p, "delete", 2)

PairSound(p) == Adding(p) /\ Accepting(p) /\ Deleting(p)

FriendsInv == \A p \in Pair \ torn : OneKind(p) /\ PairSound(p)

\* Somebody waits for what this worker does next.
Needed(w) == step[w] = 2 \/ (step[w] = 3 /\ Op(w) = "accept")

RowsKept(p) ==
  \A q \in Both(p) : relation'[q] = relation[q] /\ (chat'[q] = NoRow <=> chat[q] = NoRow)

\* Who arrives is at his first statement; who is needed stays at his.
WorkersKept(p) ==
  /\ \A v \in Workers : Friend(v, p)' =>
       \/ step'[v] = 1
       \/ /\ Friend(v, p) /\ Op(v)' = Op(v) /\ Of(v)' = Of(v)
          /\ \/ step'[v] = step[v]
             \/ step[v] >= 4 /\ step'[v] >= 4 /\ Op(v) = "accept"
  /\ \A v \in Workers : Friend(v, p) /\ Needed(v) =>
       /\ Friend(v, p)' /\ Op(v)' = Op(v) /\ Of(v)' = Of(v)
       /\ step'[v] = step[v]

\* The pair stays sound when its rows stay, and those who are needed.
LEMMA PairKept ==
  ASSUME TypeOK, TypeOK', NEW p \in Pair, PairSound(p), RowsKept(p), WorkersKept(p)
  PROVE  PairSound(p)'
<1>1. \A v \in Workers : Friend(v, p) => Of(v) \in Both(p) /\ Back(Of(v)) \in Both(p)
  BY BothFacts DEF Friend
<1>2. \A q \in Both(p) : q \in Pair /\ Back(q) \in Both(p)
  BY BothFacts
<1>3. p \in Both(p) /\ Back(p) \in Both(p)
  BY BothFacts DEF Both
<1>4. \A v \in Workers : step[v] \in 1..6 /\ step'[v] \in 1..6
  BY DEF TypeOK
<1>5. ASSUME NEW v \in Workers, NEW op \in {"add", "accept", "delete"}, NEW n \in {2, 3},
             n = 3 => op = "accept"
      PROVE  On(v, p, op, n)' <=> On(v, p, op, n)
  BY <1>4, <1>5 DEF On, Needed, WorkersKept
<1>6. \A v \in Workers : On(v, p, "add", 2) \/ On(v, p, "accept", 3) => Of(v)' = Of(v)
  BY DEF On, Needed, WorkersKept
<1>7. Adding(p)'
  BY <1>1, <1>3, <1>5, <1>6 DEF PairSound, Adding, RowsKept, On
<1>8. Accepting(p)'
  <2>1. ASSUME NEW v \in Workers, Friend(v, p)', Op(v)' = "accept", step'[v] >= 2
        PROVE  /\ Friend(v, p) /\ Op(v) = "accept" /\ Of(v)' = Of(v)
               /\ step'[v] = step[v] \/ step[v] >= 4
    BY <2>1, <1>4 DEF WorkersKept
  <2>2. ASSUME NEW v \in Workers, Friend(v, p)', Op(v)' = "accept"
        PROVE  /\ step'[v] >= 2 => \A q \in Both(p) : relation'[q] = "accepted"
               /\ step'[v] >= 3 => chat'[Of(v)'] # NoRow
               /\ step'[v] >= 4 => chat'[Back(Of(v)')] # NoRow
    <3> SUFFICES ASSUME step'[v] >= 2
                 PROVE  /\ \A q \in Both(p) : relation'[q] = "accepted"
                        /\ step'[v] >= 3 => chat'[Of(v)'] # NoRow
                        /\ step'[v] >= 4 => chat'[Back(Of(v)')] # NoRow
      BY <1>4
    <3> QED
      BY <1>1, <1>4, <2>1, <2>2 DEF PairSound, Accepting, RowsKept
  <2>3. ASSUME NEW q \in Both(p), relation'[q] = "accepted", chat'[q] = NoRow
        PROVE  IF chat'[Back(q)] = NoRow
               THEN \E w \in Workers : On(w, p, "accept", 2)'
               ELSE \E w \in Workers : On(w, p, "accept", 3)' /\ Of(w)' = Back(q)
    <3>1. /\ relation[q] = "accepted" /\ chat[q] = NoRow
          /\ chat'[Back(q)] = NoRow <=> chat[Back(q)] = NoRow
      BY <2>3, <1>2 DEF RowsKept
    <3> QED
      BY <3>1, <1>5, <1>6 DEF PairSound, Accepting
  <2> QED
    BY <2>2, <2>3 DEF Accepting
<1>9. Deleting(p)'
  <2>1. ASSUME NEW v \in Workers, Friend(v, p)', Op(v)' = "delete", step'[v] >= 2
        PROVE  Friend(v, p) /\ Op(v) = "delete" /\ step'[v] = step[v]
    BY <2>1, <1>4 DEF WorkersKept
  <2>2. ASSUME NEW v \in Workers, Friend(v, p)', Op(v)' = "delete", NEW q \in Both(p)
        PROVE  /\ step'[v] >= 2 => relation'[q] = "none"
               /\ step'[v] >= 3 => chat'[q] = NoRow
    BY <1>4, <2>1, <2>2 DEF PairSound, Deleting, RowsKept
  <2>3. ASSUME NEW q \in Both(p), relation'[q] # "accepted", chat'[q] # NoRow
        PROVE  \E w \in Workers : On(w, p, "delete", 2)'
    BY <1>5, <2>3 DEF PairSound, Deleting, RowsKept
  <2> QED
    BY <2>2, <2>3 DEF Deleting
<1> QED
  BY <1>7, <1>8, <1>9 DEF PairSound

\* One worker moves, and nobody waits for him.
LEMMA OneMoves ==
  ASSUME TypeOK, NEW p \in Pair, NEW w \in Workers,
         \A v \in Workers : v # w => Stays(v),
         Friend(w, p) => ~Needed(w),
         Friend(w, p)' =>
           \/ step'[w] = 1
           \/ /\ Friend(w, p) /\ Op(w)' = Op(w) /\ Of(w)' = Of(w)
              /\ step[w] >= 4 /\ step'[w] >= 4 /\ Op(w) = "accept"
  PROVE  WorkersKept(p)
<1>1. ASSUME NEW v \in Workers, v # w
      PROVE  /\ Friend(v, p)' <=> Friend(v, p)
             /\ Friend(v, p) => Op(v)' = Op(v) /\ Of(v)' = Of(v) /\ step'[v] = step[v]
  BY <1>1 DEF Stays, Friend
<1> QED
  BY <1>1 DEF WorkersKept

\* Workers that execute a statement or fail arrive nowhere.
LEMMA NobodyArrives ==
  ASSUME NEW p \in Pair, NEW w \in Workers, Moves(w) \/ Quits(w),
         \A v \in Workers : v # w => Stays(v), OneKind(p)
  PROVE  /\ OneKind(p)'
         /\ \A v \in Workers : Friend(v, p)' => Friend(v, p) /\ Op(v)' = Op(v) /\ Of(v)' = Of(v)
<1>1. \A v \in Workers : Friend(v, p)' => Friend(v, p) /\ Op(v)' = Op(v) /\ Of(v)' = Of(v)
  BY DEF Moves, Quits, Stays, Friend
<1> QED
  BY <1>1 DEF OneKind

\* Which statement a worker is at.
LEMMA StatementAt ==
  ASSUME TypeOK, NEW w \in Workers, Statement(w), Op(w) \in Friendship
  PROVE  /\ step[w] = 1 => /\ Op(w) = "add" => AddFirst(w)
                           /\ Op(w) = "accept" => AcceptRelation(w)
                           /\ Op(w) = "delete" => DeleteRelation(w)
         /\ step[w] = 2 => /\ Op(w) = "add" => AddSecond(w)
                           /\ Op(w) = "accept" => AcceptChat(w)
                           /\ Op(w) = "delete" => DeleteChat(w)
         /\ step[w] = 3 => \/ Op(w) = "accept" /\ AcceptChat(w)
                           \/ Op(w) = "delete" /\ DeleteMessages(w)
         /\ step[w] >= 4 => /\ Op(w) = "accept"
                            /\ MessageInsert(w) \/ MessageOwnRow(w) \/ MessagePeerRow(w)
<1>1. step[w] \in 1..6
  BY DEF TypeOK
<1>2. CASE RegisterCheck(w) \/ RegisterInsert(w) \/ RegisterAnswer(w)
  BY <1>2 DEF RegisterCheck, RegisterInsert, RegisterAnswer, At, Friendship
<1>3. CASE AddFirst(w)
  BY <1>3 DEF AddFirst, At
<1>4. CASE AddSecond(w)
  BY <1>4 DEF AddSecond, At
<1>5. CASE AcceptRelation(w)
  BY <1>5 DEF AcceptRelation, At
<1>6. CASE AcceptChat(w)
  <2>1. Op(w) = "accept" /\ step[w] \in {2, 3}
    BY <1>6 DEF AcceptChat, At
  <2> QED
    BY <1>6, <2>1
<1>7. CASE MessageInsert(w) \/ MessageOwnRow(w) \/ MessagePeerRow(w)
  <2>1. Sending(w, 4) \/ Sending(w, 5) \/ Sending(w, 6)
    BY <1>7 DEF MessageInsert, MessageOwnRow, MessagePeerRow
  <2>2. Op(w) = "accept" /\ step[w] \in {4, 5, 6}
    BY <2>1 DEF Sending, At, Friendship
  <2> QED
    BY <1>7, <2>2
<1>8. CASE DeleteRelation(w)
  BY <1>8 DEF DeleteRelation, At
<1>9. CASE DeleteChat(w)
  BY <1>9 DEF DeleteChat, At
<1>10. CASE DeleteMessages(w)
  BY <1>10 DEF DeleteMessages, At
<1>11. CASE UpdateRow(w) \/ UpdateMessages(w)
  BY <1>11 DEF UpdateRow, UpdateMessages, At, Friendship
<1> QED
  BY <1>2, <1>3, <1>4, <1>5, <1>6, <1>7, <1>8, <1>9, <1>10, <1>11 DEF Statement

\* Rows come, go and change only by the first statement of a friendship
\* request and by those that somebody waits for.
LEMMA RowsTouched ==
  ASSUME TypeOK, NEW w \in Workers, Statement(w), NEW p \in Pair,
         Friend(w, p) => step[w] # 1 /\ ~Needed(w)
  PROVE  RowsKept(p)
<1>1. \A q \in Both(p) : q \in Pair
  BY BothFacts
<1>2. ASSUME relation' = relation, chat' = chat PROVE RowsKept(p)
  BY <1>2 DEF RowsKept
<1>3. CASE Op(w) \in Friendship /\ Busy(w) /\ ~Friend(w, p)
  <2>1. Of(w) \in Pair /\ Back(Of(w)) \in Pair /\ \A q \in Both(p) : q \notin Both(Of(w))
    BY <1>3, BusyFacts, BackFacts, BothFacts DEF Friend
  <2>2. \A q \in Both(p) : q # Of(w) /\ q # Back(Of(w))
    BY <2>1 DEF Both
  <2>3. CASE AddFirst(w) \/ AddSecond(w)
    BY <1>1, <2>2, <2>3 DEF AddFirst, AddSecond, RowsKept, TypeOK
  <2>4. CASE AcceptRelation(w)
    BY <1>1, <2>1, <2>4 DEF AcceptRelation, RowsKept
  <2>5. CASE AcceptChat(w)
    BY <1>1, <2>2, <2>5 DEF AcceptChat, RowsKept, TypeOK
  <2>6. CASE DeleteRelation(w)
    BY <1>1, <2>1, <2>6 DEF DeleteRelation, RowsKept
  <2>7. CASE DeleteChat(w)
    BY <1>1, <2>1, <2>7 DEF DeleteChat, RowsKept
  <2>8. CASE DeleteMessages(w)
    BY <1>2, <2>8 DEF DeleteMessages
  <2>9. CASE MessageInsert(w)
    BY <1>2, <2>9 DEF MessageInsert
  <2>10. CASE MessageOwnRow(w) \/ MessagePeerRow(w)
    BY <1>1, <2>2, <2>10 DEF MessageOwnRow, MessagePeerRow, RowsKept, TypeOK
  <2>11. step[w] \in 1..6
    BY DEF TypeOK
  <2> QED
    BY <1>3, <2>3, <2>4, <2>5, <2>6, <2>7, <2>8, <2>9, <2>10, <2>11, StatementAt DEF Friendship
<1>4. CASE RegisterCheck(w) \/ RegisterInsert(w) \/ RegisterAnswer(w)
  BY <1>2, <1>4 DEF RegisterCheck, RegisterInsert, RegisterAnswer, tables
<1>5. CASE MessageInsert(w) \/ DeleteMessages(w) \/ UpdateMessages(w)
  BY <1>2, <1>5 DEF MessageInsert, DeleteMessages, UpdateMessages
<1>6. CASE MessageOwnRow(w) \/ MessagePeerRow(w) \/ UpdateRow(w)
  <2>1. PICK q \in Pair, n \in Nat :
          chat' = [chat EXCEPT ![q] = IF chat[q] = NoRow THEN NoRow ELSE n]
    <3>1. Of(w) \in Pair /\ Back(Of(w)) \in Pair
      BY <1>6, BusyFacts, BackFacts
         DEF MessageOwnRow, MessagePeerRow, UpdateRow, Sending, At
    <3>2. CASE MessageOwnRow(w) \/ UpdateRow(w)
      BY <3>1, <3>2 DEF MessageOwnRow, UpdateRow
    <3>3. CASE MessagePeerRow(w)
      <4> DEFINE n == IF chat[Back(Of(w))] = NoRow THEN 0 ELSE chat[Back(Of(w))] + 1
      <4>1. n \in Nat
        BY <3>1 DEF TypeOK
      <4>2. chat' = [chat EXCEPT ![Back(Of(w))] = IF chat[Back(Of(w))] = NoRow THEN NoRow ELSE n]
        BY <3>1, <3>3 DEF MessagePeerRow
      <4> QED
        BY <3>1, <4>1, <4>2
    <3> QED
      BY <1>6, <3>2, <3>3
  <2>2. \A r \in Pair : chat'[r] = NoRow <=> chat[r] = NoRow
    BY <2>1 DEF TypeOK, NoRow
  <2> QED
    BY <1>1, <1>6, <2>2 DEF MessageOwnRow, MessagePeerRow, UpdateRow, RowsKept
<1>7. Friend(w, p) => step[w] # 1 /\ step[w] # 2 /\ (step[w] = 3 => Op(w) # "accept")
  BY DEF Needed
<1>8. CASE AddFirst(w) \/ AddSecond(w) \/ AcceptRelation(w) \/ AcceptChat(w)
           \/ DeleteRelation(w) \/ DeleteChat(w)
  <2>1. Op(w) \in Friendship /\ Busy(w) /\ ~Friend(w, p)
    BY <1>7, <1>8 DEF AddFirst, AddSecond, AcceptRelation, AcceptChat, DeleteRelation, DeleteChat,
                      At, Friendship
  <2> QED
    BY <1>3, <2>1
<1> QED
  BY <1>4, <1>5, <1>6, <1>8 DEF Statement

(***************************************************************************)
(* The statements of a pair's own friendship requests.  Sound(p) is what   *)
(* each of them finds.                                                     *)
(***************************************************************************)
Sound(p) == TypeOK /\ TypeOK' /\ UsersRelated /\ OneKind(p) /\ PairSound(p)

\* The other friendship requests on the pair stay, and are of w's kind.
LEMMA Company ==
  ASSUME NEW p \in Pair, NEW w \in Workers, Sound(p), Friend(w, p), Statement(w)
  PROVE  /\ Of(w) \in Pair /\ Back(Of(w)) \in Pair
         /\ Both(p) = {Of(w), Back(Of(w))} /\ Of(w) # Back(Of(w)) /\ Back(Back(Of(w))) = Of(w)
         /\ p \in Both(p) /\ Back(p) \in Both(p) /\ Back(p) # p
         /\ \A v \in Workers : Friend(v, p) => Op(v) = Op(w)
         /\ \A v \in Workers : Friend(v, p)' => Friend(v, p) /\ Op(v)' = Op(w) /\ Of(v)' = Of(v)
         /\ \A v \in Workers : v # w => (Friend(v, p)' <=> Friend(v, p)) /\ step'[v] = step[v]
         /\ Moves(w) => Friend(w, p)'
<1>1. Of(w) \in Both(p) /\ Of(w) \in Pair
  BY BusyFacts DEF Friend, Sound
<1>2. /\ Back(Of(w)) \in Pair /\ Of(w) # Back(Of(w)) /\ Back(Back(Of(w))) = Of(w)
      /\ Both(p) = {Of(w), Back(Of(w))}
      /\ p \in Both(p) /\ Back(p) \in Both(p) /\ Back(p) # p
  BY <1>1, BackFacts, BothFacts DEF Both
<1>3. /\ Moves(w) \/ Quits(w)
      /\ \A v \in Workers : v # w => Stays(v)
  BY StatementMoves DEF Sound
<1>4. \A v \in Workers : Friend(v, p)' => Friend(v, p) /\ Op(v)' = Op(v) /\ Of(v)' = Of(v)
  BY <1>3, NobodyArrives DEF Sound
<1>5. \A v \in Workers : Friend(v, p) => Op(v) = Op(w)
  BY DEF Sound, OneKind
<1>6. \A v \in Workers : v # w => (Friend(v, p)' <=> Friend(v, p)) /\ step'[v] = step[v]
  BY <1>3 DEF Stays, Friend
<1>7. Moves(w) => Friend(w, p)'
  BY DEF Moves, Friend
<1> QED
  BY <1>1, <1>2, <1>4, <1>5, <1>6, <1>7

LEMMA AddFirstSound ==
  ASSUME NEW p \in Pair, NEW w \in Workers, Sound(p), Friend(w, p), Statement(w), AddFirst(w)
  PROVE  PairSound(p)'
<1> DEFINE q == Of(w)
           b == Back(Of(w))
<1>0. Op(w) = "add" /\ step[w] = 1 /\ chat' = chat
  BY DEF AddFirst, At
<1> HIDE DEF q, b
<1>1. /\ q \in Pair /\ b \in Pair /\ Both(p) = {q, b} /\ q # b /\ Back(q) = b /\ Back(b) = q
      /\ p \in {q, b} /\ Back(p) \in {q, b} /\ Back(p) # p
      /\ relation \in [Pair -> {"none", "pending", "accepted"}]
  <2>1. relation \in [Pair -> {"none", "pending", "accepted"}]
    BY DEF Sound, TypeOK
  <2> QED
    BY <2>1, Company DEF q, b
<1>2. CASE ~CanRelate(q)
  <2>1. relation' = relation /\ Answer(w, "error")
    BY <1>2 DEF AddFirst, q
  <2>2. RowsKept(p)
    BY <1>0, <2>1 DEF RowsKept
  <2>3. step'[w] = 1 /\ ~Needed(w) /\ \A v \in Workers : v # w => Stays(v)
    BY <1>0, <2>1, StatementMoves, Leaves DEF Needed, Answer, history, Friend, Sound
  <2> QED
    BY <2>2, <2>3, OneMoves, PairKept DEF Sound
<1>3. CASE CanRelate(q)
  <2>1. /\ relation[q] = "none" /\ relation' = [relation EXCEPT ![q] = "pending"]
        /\ Continue(w)
    BY <1>3 DEF AddFirst, q, CanRelate
  <2>2. relation'[q] = "pending" /\ relation'[b] = relation[b]
    BY <1>1, <2>1
  <2>3. \A v \in Workers : On(v, p, "add", 2) => Of(v) = b /\ relation[b] = "pending"
    BY <1>1, <2>1 DEF Sound, PairSound, Adding, On, Friend
  <2>4. relation[b] # "accepted"
    BY <1>1, <2>1, <2>3 DEF Sound, PairSound, Adding
  <2>5. step'[w] = 2 /\ Friend(w, p)' /\ Of(w)' = q /\ Op(w)' = "add"
    BY <1>0, <2>1, GoesOn, Company DEF Friend, Sound, q
  <2>6. \A v \in Workers : Friend(v, p)' => Op(v)' = "add"
    BY <1>0, Company
  <2>7. Adding(p)'
    <3>1. ASSUME NEW v \in Workers, On(v, p, "add", 2)'
          PROVE  relation'[Of(v)'] = "pending" /\ relation'[Back(Of(v)')] # "accepted"
      <4>1. v # w => On(v, p, "add", 2) /\ Of(v)' = Of(v)
        BY <3>1, <1>0, Company DEF On
      <4> QED
        BY <1>1, <2>2, <2>3, <2>4, <2>5, <4>1
    <3>2. On(w, p, "add", 2)'
      BY <2>5 DEF On
    <3> QED
      BY <3>1, <3>2 DEF Adding
  <2>8. Accepting(p)'
    BY <1>1, <2>2, <2>4, <2>6 DEF Accepting
  <2>9. Deleting(p)'
    <3>1. \A r \in Both(p) : relation[r] # "accepted" => chat[r] = NoRow
      BY <1>0, Company DEF Sound, PairSound, Deleting, On
    <3> QED
      BY <1>0, <1>1, <2>1, <2>4, <2>6, <3>1 DEF Deleting
  <2> QED
    BY <2>7, <2>8, <2>9 DEF PairSound
<1> QED
  BY <1>2, <1>3

\* Whether it inserts or finds the row: both are pending, without a chat.
LEMMA AddSecondBoth ==
  ASSUME NEW p \in Pair, NEW w \in Workers, Sound(p), Friend(w, p), Statement(w), AddSecond(w)
  PROVE  \A r \in Both(p) : relation'[r] = "pending" /\ chat'[r] = NoRow
<1> DEFINE q == Of(w)
           b == Back(Of(w))
<1>0. Op(w) = "add" /\ step[w] = 2 /\ chat' = chat
  BY DEF AddSecond, At
<1> HIDE DEF q, b
<1>1. /\ q \in Pair /\ b \in Pair /\ Both(p) = {q, b} /\ q # b /\ Back(q) = b /\ Back(b) = q
      /\ p \in {q, b} /\ Back(p) \in {q, b} /\ Back(p) # p
      /\ relation \in [Pair -> {"none", "pending", "accepted"}]
  <2>1. relation \in [Pair -> {"none", "pending", "accepted"}]
    BY DEF Sound, TypeOK
  <2> QED
    BY <2>1, Company DEF q, b
<1>2. relation[q] = "pending" /\ relation[b] # "accepted"
  BY <1>0 DEF Sound, PairSound, Adding, On, q, b
<1>3. {b[1], b[2]} \subseteq users
  BY <1>1, <1>2, BackFacts DEF Sound, UsersRelated
<1>4. \A r \in Both(p) : relation'[r] = "pending"
  <2>1. CASE relation[b] = "none"
    <3>1. relation' = [relation EXCEPT ![b] = "pending"]
      BY <1>3, <2>1 DEF AddSecond, CanRelate, b
    <3> QED
      BY <1>1, <1>2, <3>1
  <2>2. CASE relation[b] = "pending"
    <3>1. relation' = relation
      BY <1>3, <2>2 DEF AddSecond, CanRelate, b
    <3> QED
      BY <1>1, <1>2, <2>2, <3>1
  <2> QED
    BY <1>1, <1>2, <2>1, <2>2
<1>5. \A r \in Both(p) : chat[r] = NoRow
  BY <1>0, <1>1, <1>2, Company DEF Sound, PairSound, Deleting, On
<1> QED
  BY <1>0, <1>4, <1>5

LEMMA AddSecondSound ==
  ASSUME NEW p \in Pair, NEW w \in Workers, Sound(p), Friend(w, p), Statement(w), AddSecond(w)
  PROVE  PairSound(p)'
<1>1. \A r \in Both(p) : relation'[r] = "pending" /\ chat'[r] = NoRow
  BY AddSecondBoth
<1>2. p \in Both(p) /\ Back(p) \in Both(p)
  BY Company
<1>3. \A v \in Workers : Friend(v, p)' => /\ Op(v)' = "add"
                                          /\ Of(v)' \in Both(p) /\ Back(Of(v)') \in Both(p)
  BY Company DEF AddSecond, At, Friend, Both
<1> QED
  BY <1>1, <1>2, <1>3 DEF PairSound, Adding, Accepting, Deleting, On

LEMMA AcceptRelationSound ==
  ASSUME NEW p \in Pair, NEW w \in Workers, Sound(p), Friend(w, p), Statement(w),
         AcceptRelation(w), p \notin torn'
  PROVE  PairSound(p)'
<1>0. /\ Op(w) = "accept" /\ step[w] = 1 /\ chat' = chat /\ step' = [step EXCEPT ![w] = 2]
      /\ relation' = [r \in Pair |-> IF r \in Both(Of(w)) /\ relation[r] # "none"
                                     THEN "accepted" ELSE relation[r]]
  BY DEF AcceptRelation, At
<1>1. /\ Of(w) \in Pair /\ \A r \in Both(p) : r \in Pair /\ Back(r) \in Both(p)
      /\ p \in Both(p) /\ Back(p) \in Both(p) /\ Both(Of(w)) = Both(p)
      /\ \A r \in Both(p) : r = p \/ r = Back(p)
  BY Company, BothFacts DEF Friend
<1>2. \E r \in Both(p) : relation[r] # "none"
  BY <1>1 DEF AcceptRelation
<1>3. relation[p] = relation[Back(p)]
  BY <1>0, Company DEF Sound, PairSound, Adding, On
<1>4. \A r \in Both(p) : relation[r] # "none" /\ relation'[r] = "accepted"
  BY <1>0, <1>1, <1>2, <1>3
<1>5. step'[w] = 2 /\ On(w, p, "accept", 2)'
  <2>1. step'[w] = 2 /\ Moves(w)
    BY <1>0, StatementMoves DEF Sound, TypeOK, Quits
  <2> QED
    BY <1>0, <2>1, Company DEF On
<1>6. \A v \in Workers : Friend(v, p)' => Op(v)' = "accept" /\ Friend(v, p) /\ Op(v) = "accept" /\ Of(v)' = Of(v)
  BY <1>0, Company
<1>7. Adding(p)'
  BY <1>1, <1>4, <1>6 DEF Adding, On
<1>8. Accepting(p)'
  <2>1. ASSUME NEW v \in Workers, Friend(v, p)'
        PROVE  /\ step'[v] >= 3 => chat'[Of(v)'] # NoRow
               /\ step'[v] >= 4 => chat'[Back(Of(v)')] # NoRow
    <3>1. CASE v = w
      BY <1>5, <3>1
    <3>2. CASE v # w
      BY <1>0, <1>6, <2>1, <3>2, Company DEF Sound, PairSound, Accepting
    <3> QED
      BY <3>1, <3>2
  <2>2. ASSUME NEW r \in Both(p), chat'[r] = NoRow, chat'[Back(r)] # NoRow
        PROVE  \E v \in Workers : On(v, p, "accept", 3)' /\ Of(v)' = Back(r)
    <3>1. relation[r] = "accepted"
      <4>1. relation[Back(r)] = "accepted"
        BY <1>0, <1>1, <2>2, Company DEF Sound, PairSound, Deleting, On
      <4>2. relation[r] = relation[Back(r)]
        BY <1>1, <1>3, Company
      <4> QED
        BY <4>1, <4>2
    <3>2. PICK v \in Workers : On(v, p, "accept", 3) /\ Of(v) = Back(r)
      BY <1>0, <2>2, <3>1 DEF Sound, PairSound, Accepting
    <3>3. v # w
      BY <1>0, <3>2 DEF On
    <3> QED
      BY <1>6, <3>2, <3>3, Company DEF On
  <2> QED
    BY <1>4, <1>5, <2>1, <2>2 DEF Accepting
<1>9. Deleting(p)'
  BY <1>4, <1>6 DEF Deleting
<1> QED
  BY <1>7, <1>8, <1>9 DEF PairSound

LEMMA AcceptChatSound ==
  ASSUME NEW p \in Pair, NEW w \in Workers, Sound(p), Friend(w, p), Statement(w), AcceptChat(w)
  PROVE  PairSound(p)'
<1> DEFINE q == Of(w)
           b == Back(Of(w))
           row == IF step[w] = 2 THEN q ELSE b
<1>0. /\ Op(w) = "accept" /\ step[w] \in {2, 3} /\ relation' = relation
      /\ IF chat[row] = NoRow /\ row[1] \in users
         THEN Continue(w) /\ chat' = [chat EXCEPT ![row] = 0]
         ELSE Answer(w, "error") /\ UNCHANGED chat
  BY DEF AcceptChat, At
<1> HIDE DEF q, b
<1>1. /\ q \in Pair /\ b \in Pair /\ Both(p) = {q, b} /\ q # b /\ Back(q) = b /\ Back(b) = q
      /\ p \in {q, b} /\ Back(p) \in {q, b} /\ Back(p) # p
      /\ chat \in [Pair -> Nat \cup {NoRow}]
  <2>1. chat \in [Pair -> Nat \cup {NoRow}]
    BY DEF Sound, TypeOK
  <2> QED
    BY <2>1, Company DEF q, b
<1>2. /\ relation[q] = "accepted" /\ relation[b] = "accepted"
      /\ step[w] = 3 => chat[q] # NoRow
  BY <1>0, <1>1 DEF Sound, PairSound, Accepting, q
<1>3. row \in Both(p) /\ row[1] \in users
  BY <1>0, <1>1, <1>2, BackFacts DEF Sound, UsersRelated
<1>4. /\ \A r \in Both(p) : chat[r] # NoRow => chat'[r] # NoRow
      /\ chat'[q] # NoRow
      /\ step[w] = 3 => chat'[b] # NoRow
  <2>1. CASE chat[row] = NoRow
    <3>1. chat' = [chat EXCEPT ![row] = 0]
      BY <1>0, <1>3, <2>1
    <3> QED
      BY <1>0, <1>1, <1>2, <3>1 DEF NoRow
  <2>2. CASE chat[row] # NoRow
    BY <1>0, <1>1, <1>2, <2>2
  <2> QED
    BY <2>1, <2>2
<1>5. \A v \in Workers : Friend(v, p)' =>
        Op(v)' = "accept" /\ Friend(v, p) /\ Op(v) = "accept" /\ Of(v)' = Of(v)
        /\ Of(v) \in Both(p) /\ Back(Of(v)) \in Both(p)
  BY <1>0, <1>1, Company DEF Friend
<1>6. Adding(p)'
  BY <1>0, <1>1, <1>2, <1>5 DEF Adding, On
<1>7. Accepting(p)'
  <2>1. ASSUME NEW v \in Workers, Friend(v, p)'
        PROVE  /\ step'[v] >= 3 => chat'[Of(v)'] # NoRow
               /\ step'[v] >= 4 => chat'[Back(Of(v)')] # NoRow
    <3>1. CASE v = w
      <4>1. step'[w] = step[w] + 1
        BY <2>1, <3>1, StatementMoves DEF Sound, Quits, Moves, Friend
      <4>2. Of(w)' = q /\ Back(Of(w)') = b
        BY <1>5, <2>1, <3>1 DEF q, b
      <4> QED
        BY <1>0, <1>4, <3>1, <4>1, <4>2
    <3>2. CASE v # w
      BY <1>4, <1>5, <2>1, <3>2, Company DEF Sound, PairSound, Accepting
    <3> QED
      BY <3>1, <3>2
  <2>2. ASSUME NEW r \in Both(p), chat'[r] = NoRow
        PROVE  /\ chat'[Back(r)] # NoRow
               /\ \E v \in Workers : On(v, p, "accept", 3)' /\ Of(v)' = Back(r)
    <3>1. r = b /\ Back(r) = q /\ chat'[Back(r)] # NoRow /\ step[w] = 2
      BY <1>0, <1>1, <1>4, <2>2
    <3>2. CASE chat[q] = NoRow
      <4>1. Continue(w)
        BY <1>0, <1>3, <3>1, <3>2
      <4>2. Friend(w, p)' /\ step'[w] = 3 /\ Op(w)' = "accept" /\ Of(w)' = q
        BY <1>0, <3>1, <4>1, GoesOn DEF Friend, Sound, q
      <4> QED
        BY <3>1, <4>2 DEF On
    <3>3. CASE chat[q] # NoRow
      <4>1. chat[b] = NoRow
        BY <1>1, <1>4, <2>2, <3>1
      <4>2. PICK v \in Workers : On(v, p, "accept", 3) /\ Of(v) = q
        BY <1>1, <1>2, <3>3, <4>1 DEF Sound, PairSound, Accepting
      <4>3. v # w
        BY <3>1, <4>2 DEF On
      <4> QED
        BY <1>0, <1>5, <3>1, <4>2, <4>3, Company DEF On
    <3> QED
      BY <3>2, <3>3
  <2> QED
    BY <1>0, <1>1, <1>2, <2>1, <2>2 DEF Accepting
<1>8. Deleting(p)'
  BY <1>0, <1>1, <1>2, <1>5 DEF Deleting
<1> QED
  BY <1>6, <1>7, <1>8 DEF PairSound

LEMMA DeleteSound ==
  ASSUME NEW p \in Pair, NEW w \in Workers, Sound(p), Friend(w, p), Statement(w),
         DeleteRelation(w) \/ DeleteChat(w)
  PROVE  PairSound(p)'
<1>0. Op(w) = "delete" /\ step[w] \in {1, 2} /\ Continue(w)
  BY DEF DeleteRelation, DeleteChat, At
<1>1. /\ \A r \in Both(p) : r \in Pair
      /\ p \in Both(p) /\ Back(p) \in Both(p) /\ Both(Of(w)) = Both(p)
  BY Company, BothFacts DEF Friend
<1>2. /\ \A v \in Workers : Friend(v, p)' => Op(v)' = "delete" /\ Friend(v, p) /\ Op(v) = "delete"
      /\ \A v \in Workers : v # w => step'[v] = step[v]
  BY <1>0, Company
<1>3. step'[w] = step[w] + 1 /\ Friend(w, p)' /\ Op(w)' = "delete"
  BY <1>0, GoesOn DEF Friend, Sound
<1>4. \A r \in Both(p) : relation'[r] = "none"
  <2>1. CASE DeleteRelation(w)
    BY <1>1, <2>1 DEF DeleteRelation
  <2>2. CASE DeleteChat(w)
    BY <1>0, <1>1, <2>2 DEF DeleteChat, At, Sound, PairSound, Deleting
  <2> QED
    BY <2>1, <2>2
<1>5. /\ step[w] = 1 => chat' = chat
      /\ step[w] = 2 => \A r \in Both(p) : chat'[r] = NoRow
      /\ \A r \in Both(p) : chat'[r] = chat[r] \/ chat'[r] = NoRow
  BY <1>1 DEF DeleteRelation, DeleteChat, At
<1>6. Adding(p)' /\ Accepting(p)'
  BY <1>1, <1>2, <1>4 DEF Adding, Accepting, On
<1>7. Deleting(p)'
  <2>1. ASSUME NEW v \in Workers, Friend(v, p)', step'[v] >= 3, NEW r \in Both(p)
        PROVE  chat'[r] = NoRow
    <3>1. CASE v = w
      BY <1>0, <1>3, <1>5, <2>1, <3>1
    <3>2. CASE v # w
      BY <1>2, <1>5, <2>1, <3>2 DEF Sound, PairSound, Deleting
    <3> QED
      BY <3>1, <3>2
  <2>2. ASSUME NEW r \in Both(p), chat'[r] # NoRow
        PROVE  \E v \in Workers : On(v, p, "delete", 2)'
    BY <1>0, <1>3, <1>5, <2>2 DEF On
  <2> QED
    BY <1>4, <2>1, <2>2 DEF Deleting
<1> QED
  BY <1>6, <1>7 DEF PairSound

\* Every statement keeps every pair that is not torn.
LEMMA StatementSound ==
  ASSUME NEW p \in Pair, NEW w \in Workers, Sound(p), Statement(w), p \notin torn'
  PROVE  PairSound(p)' /\ OneKind(p)'
<1>1. /\ Moves(w) \/ Quits(w)
      /\ \A v \in Workers : v # w => Stays(v)
      /\ step[w] \in 1..6
  BY StatementMoves DEF Sound, TypeOK
<1>2. OneKind(p)'
  BY <1>1, NobodyArrives DEF Sound
<1>3. CASE Friend(w, p) => step[w] # 1 /\ ~Needed(w)
  <2>1. RowsKept(p)
    BY <1>3, RowsTouched DEF Sound
  <2>2. ASSUME Friend(w, p)', Moves(w)
        PROVE  /\ Friend(w, p) /\ Op(w)' = Op(w) /\ Of(w)' = Of(w)
               /\ step[w] >= 4 /\ step'[w] >= 4 /\ Op(w) = "accept"
    <3>1. Friend(w, p) /\ Op(w)' = Op(w) /\ Of(w)' = Of(w) /\ step'[w] = step[w] + 1
      BY <2>2 DEF Moves, Friend
    <3>2. step[w] # 3
      <4> SUFFICES ASSUME step[w] = 3 PROVE FALSE
        OBVIOUS
      <4>1. DeleteMessages(w)
        BY <1>3, <3>1, StatementAt DEF Needed, Friend, Sound
      <4> QED
        BY <2>2, <3>1, <4>1, Leaves DEF DeleteMessages, Answer, history, Moves, Friend, Sound
    <3>3. step[w] >= 4
      BY <1>1, <1>3, <3>1, <3>2 DEF Needed
    <3> QED
      BY <1>1, <3>1, <3>3, StatementAt DEF Friend, Sound
  <2>3. Quits(w) => ~Friend(w, p)'
    BY DEF Quits, Friend
  <2> QED
    BY <1>1, <1>2, <1>3, <2>1, <2>2, <2>3, OneMoves, PairKept DEF Sound
<1>4. CASE Friend(w, p) /\ (step[w] = 1 \/ Needed(w))
  <2>1. \/ AddFirst(w) \/ AddSecond(w) \/ AcceptRelation(w) \/ AcceptChat(w)
        \/ DeleteRelation(w) \/ DeleteChat(w)
    BY <1>4, StatementAt DEF Needed, Friend, Friendship, Sound
  <2> QED
    BY <1>2, <1>4, <2>1, AddFirstSound, AddSecondSound, AcceptRelationSound, AcceptChatSound,
       DeleteSound
<1> QED
  BY <1>3, <1>4

\* A request that would be of another kind tears the pair.
LEMMA BeginSound ==
  ASSUME NEW p \in Pair, NEW w \in Workers, Sound(p), Begin(w), p \notin torn'
  PROVE  PairSound(p)' /\ OneKind(p)'
<1>1. PICK r \in Request : Begins(w, r)
  BY BeginMoves DEF Sound
<1>2. \A v \in Workers : v # w => Stays(v)
  BY BeginMoves DEF Sound
<1>3. /\ ~Friend(w, p)
      /\ Friend(w, p)' => step'[w] = 1 /\ r.pair \in Both(p) /\ r.op \in Friendship /\ Op(w)' = r.op
  BY <1>1 DEF Begins, Friend, Friendship
<1>4. RowsKept(p)
  BY <1>1 DEF Begins, tables, RowsKept
<1>5. PairSound(p)'
  BY <1>2, <1>3, <1>4, OneMoves, PairKept DEF Sound
<1>6. \A v \in Workers : v # w /\ Friend(v, p)' => Friend(v, p) /\ Op(v)' = Op(v)
  BY <1>2 DEF Stays, Friend
<1>7. ASSUME NEW v \in Workers, v # w, Friend(v, p)', Friend(w, p)'
      PROVE  Op(v)' = Op(w)'
  <2>1. Both(r.pair) = Both(p) /\ p \in Both(p)
    BY <1>3, <1>7, BothFacts DEF Both
  <2>2. ~Collide(r.op, r.pair)
    BY <1>1, <2>1 DEF Begins
  <2>3. Busy(v) /\ Of(v) \in Both(r.pair) /\ Op(v) \in Friendship /\ Op(v)' = Op(v)
    BY <1>6, <1>7, <2>1 DEF Friend
  <2> QED
    BY <1>3, <1>7, <2>2, <2>3 DEF Collide, Meets
<1>8. OneKind(p)'
  BY <1>3, <1>6, <1>7 DEF OneKind, Sound
<1> QED
  BY <1>5, <1>8

\* A request that fails after its first statement tears the pair.
LEMMA FailSound ==
  ASSUME NEW p \in Pair, NEW w \in Workers, Sound(p), Fail(w), p \notin torn'
  PROVE  PairSound(p)' /\ OneKind(p)'
<1>1. Quits(w) /\ \A v \in Workers : v # w => Stays(v)
  BY FailMoves DEF Sound
<1>2. Friend(w, p) => ~Needed(w)
  <2> SUFFICES ASSUME Friend(w, p), step[w] > 1 PROVE FALSE
    BY DEF Needed
  <2>1. p \in Both(Of(w))
    BY BothFacts DEF Friend
  <2> QED
    BY <2>1 DEF Fail, Friend
<1>3. ~Friend(w, p)'
  BY <1>1 DEF Quits, Friend
<1>4. RowsKept(p)
  BY DEF Fail, tables, RowsKept
<1> QED
  BY <1>1, <1>2, <1>3, <1>4, OneMoves, PairKept, NobodyArrives DEF Sound

LEMMA FriendsStep ==
  ASSUME TypeOK, TypeOK', UsersRelated, FriendsInv, [Next]_vars
  PROVE  FriendsInv'
<1> SUFFICES ASSUME NEW p \in Pair, p \notin torn' PROVE OneKind(p)' /\ PairSound(p)'
  BY DEF FriendsInv
<1>1. torn \subseteq torn'
  <2>1. ASSUME NEW w \in Workers, Statement(w) PROVE torn \subseteq torn'
    BY <2>1 DEF Statement, RegisterCheck, RegisterInsert, RegisterAnswer, AddFirst, AddSecond,
         AcceptRelation, AcceptChat, MessageInsert, MessageOwnRow, MessagePeerRow,
         DeleteRelation, DeleteChat, DeleteMessages, UpdateRow, UpdateMessages,
         Continue, Answer, history
  <2> QED
    BY <2>1 DEF Next, Begin, Fail, ListFriends, vars, history
<1>2. Sound(p)
  BY <1>1 DEF FriendsInv, Sound
<1>3. ASSUME UNCHANGED <<relation, chat, made, job, step>> PROVE OneKind(p)' /\ PairSound(p)'
  <2>1. \A v \in Workers : (Friend(v, p)' <=> Friend(v, p)) /\ Op(v)' = Op(v) /\ Of(v)' = Of(v)
    BY <1>3 DEF Friend, Busy, Op, Of
  <2>2. RowsKept(p) /\ WorkersKept(p)
    BY <1>3, <2>1 DEF RowsKept, WorkersKept
  <2> QED
    BY <1>2, <2>1, <2>2, PairKept DEF Sound, OneKind
<1>4. CASE \E u \in User : ListFriends(u)
  BY <1>3, <1>4 DEF ListFriends, tables
<1>5. CASE UNCHANGED vars
  BY <1>3, <1>5 DEF vars, tables, history
<1> QED
  BY <1>2, <1>4, <1>5, StatementSound, BeginSound, FailSound DEF Next

LEMMA InitFriends == Init => UsersRelated /\ FriendsInv
<1> SUFFICES ASSUME Init PROVE UsersRelated /\ FriendsInv
  OBVIOUS
<1>1. \A w \in Workers, p \in Pair : ~Friend(w, p)
  BY DEF Init, Friend, Busy
<1>2. \A p \in Pair : /\ \A q \in Both(p) : q \in Pair
                      /\ Back(p) \in Pair /\ p[1] \in User /\ p[2] \in User
  BY BothFacts, BackFacts
<1>3. CASE relation = [p \in Pair |-> "none"] /\ chat = [p \in Pair |-> NoRow]
  <2>1. \A p \in Pair : relation[p] = "none" /\ chat[p] = NoRow
    BY <1>3
  <2> QED
    BY <1>1, <1>2, <2>1 DEF UsersRelated, FriendsInv, OneKind, PairSound, Adding, Accepting,
                           Deleting, On
<1>4. CASE users = User /\ relation = [p \in Pair |-> "accepted"] /\ chat = [p \in Pair |-> 0]
  <2>1. \A p \in Pair : relation[p] = "accepted" /\ chat[p] # NoRow
    BY <1>4 DEF NoRow
  <2> QED
    BY <1>1, <1>2, <1>4, <2>1 DEF UsersRelated, FriendsInv, OneKind, PairSound, Adding, Accepting,
                                 Deleting, On
<1> QED
  BY <1>3, <1>4 DEF Init

(***************************************************************************)
(* For any users and workers: while no friend request of theirs is being   *)
(* executed, two users whose requests have not torn the pair see one       *)
(* friendship, and chat with each other exactly if it is accepted.         *)
(***************************************************************************)
THEOREM FriendshipIsWhole == Spec => []FriendshipWhole
<1>1. Init => UsersRelated /\ FriendsInv
  BY InitFriends
<1>2. TypeOK /\ TypeOK' /\ UsersRelated /\ FriendsInv /\ [Next]_vars => UsersRelated' /\ FriendsInv'
  BY RelatedKept, FriendsStep
<1>3. FriendsInv => FriendshipWhole
  <2> SUFFICES ASSUME FriendsInv, NEW p \in Pair \ torn, ~Meets(p, Friendship), NEW q \in Both(p)
               PROVE  relation[q] = relation[p] /\ (chat[q] # NoRow <=> relation[p] = "accepted")
    BY DEF FriendshipWhole
  <2>1. \A w \in Workers : ~Friend(w, p)
    BY DEF Meets, Friend
  <2>2. PairSound(p) /\ (q = p \/ q = Back(p))
    BY DEF FriendsInv, Both
  <2>3. relation[q] = relation[p]
    BY <2>1, <2>2 DEF PairSound, Adding, On
  <2> QED
    BY <2>1, <2>2, <2>3 DEF PairSound, Accepting, Deleting, On
<1> QED
  BY <1>1, <1>2, <1>3, TypeCorrect, PTL DEF Spec
-----------------------------------------------------------------------------
(***************************************************************************)
(* What a request can rely on that is past a statement: the registered     *)
(* user is there from its insertion on, the message from its own.          *)
(***************************************************************************)
Carried ==
  \A w \in Workers : Busy(w) =>
    /\ Op(w) = "register" /\ step[w] >= 3 => NewUser(w) \in users
    /\ Op(w) \in {"send", "accept"} /\ step[w] >= 5 => messages[job[w]] # "none"

\* Users and messages stay (messages are only marked as deleted).
LEMMA NothingRemoved ==
  ASSUME TypeOK, [Next]_vars
  PROVE  /\ users \subseteq users'
         /\ \A k \in Keys : messages[k] # "none" => messages'[k] # "none"
<1>1. ASSUME NEW w \in Workers, Statement(w)
      PROVE  /\ users \subseteq users'
             /\ \A k \in Keys : messages[k] # "none" => messages'[k] # "none"
  <2>1. users \subseteq users'
    BY <1>1 DEF Statement, RegisterCheck, RegisterInsert, RegisterAnswer, AddFirst, AddSecond,
         AcceptRelation, AcceptChat, MessageInsert, MessageOwnRow, MessagePeerRow,
         DeleteRelation, DeleteChat, DeleteMessages, UpdateRow, UpdateMessages, tables
  <2>2. CASE MessageInsert(w)
    <3>1. PICK j \in Keys, s \in {"send", "received"} :
            messages' = messages \/ messages' = [messages EXCEPT ![j] = s]
      BY <2>2, BusyFacts DEF MessageInsert, Sending, At
    <3> QED
      BY <2>1, <3>1 DEF TypeOK
  <2>3. CASE DeleteMessages(w)
    BY <2>1, <2>3 DEF DeleteMessages
  <2>4. CASE UpdateMessages(w)
    BY <2>1, <2>4 DEF UpdateMessages
  <2>5. CASE messages' = messages
    BY <2>1, <2>5
  <2> QED
    BY <1>1, <2>2, <2>3, <2>4, <2>5
       DEF Statement, RegisterCheck, RegisterInsert, RegisterAnswer, AddFirst, AddSecond,
         AcceptRelation, AcceptChat, MessageOwnRow, MessagePeerRow,
         DeleteRelation, DeleteChat, UpdateRow, tables
<1>2. ASSUME UNCHANGED tables
      PROVE  /\ users \subseteq users'
             /\ \A k \in Keys : messages[k] # "none" => messages'[k] # "none"
  BY <1>2 DEF tables
<1> QED
  BY <1>1, <1>2 DEF Next, Begin, Fail, ListFriends, vars

\* A worker's step only ever goes up by one, and past these two statements
\* only by executing them.
LEMMA CarriedKept ==
  ASSUME TypeOK, TypeOK', Carried, [Next]_vars
  PROVE  Carried'
<1> USE DEF NewUser
<1>1. ASSUME NEW v \in Workers, Busy(v)', Busy(v), job'[v] = job[v], step'[v] = step[v],
             Op(v)' = Op(v), Of(v)' = Of(v)
      PROVE  /\ Op(v)' = "register" /\ step'[v] >= 3 => Of(v)'[1] \in users'
             /\ Op(v)' \in {"send", "accept"} /\ step'[v] >= 5 => messages'[job'[v]] # "none"
  BY <1>1, NothingRemoved, BusyFacts DEF Carried
<1>2. ASSUME NEW w \in Workers, Statement(w), Moves(w)
      PROVE  /\ Op(w)' = "register" /\ step'[w] >= 3 => Of(w)'[1] \in users'
             /\ Op(w)' \in {"send", "accept"} /\ step'[w] >= 5 => messages'[job'[w]] # "none"
  <2>1. /\ job[w] \in Keys /\ job'[w] = job[w] /\ Busy(w)
        /\ Op(w)' = Op(w) /\ Of(w)' = Of(w)
        /\ step[w] \in 1..6 /\ step'[w] = step[w] + 1
    BY <1>2, BusyFacts DEF Moves
  <2>2. ASSUME Op(w) = "register" /\ step[w] = 2 PROVE Of(w)[1] \in users'
    <3>1. RegisterInsert(w)
      BY <1>2, <2>2 DEF Statement, RegisterCheck, RegisterAnswer, AddFirst, AddSecond,
         AcceptRelation, AcceptChat, MessageInsert, MessageOwnRow, MessagePeerRow,
         DeleteRelation, DeleteChat, DeleteMessages, UpdateRow, UpdateMessages, Sending, At
    <3> QED
      BY <3>1 DEF RegisterInsert
  <2>3. ASSUME Op(w) \in {"send", "accept"} /\ step[w] = 4 PROVE messages'[job[w]] # "none"
    <3>1. MessageInsert(w)
      BY <1>2, <2>3 DEF Statement, RegisterCheck, RegisterInsert, RegisterAnswer, AddFirst, AddSecond,
         AcceptRelation, AcceptChat, MessageOwnRow, MessagePeerRow,
         DeleteRelation, DeleteChat, DeleteMessages, UpdateRow, UpdateMessages, Sending, At
    <3>2. ~Answer(w, "error")
      BY <1>2, <2>1, Leaves DEF Answer, history, Moves
    <3>3. PICK s \in {"send", "received"} : messages' = [messages EXCEPT ![job[w]] = s]
      BY <3>1, <3>2 DEF MessageInsert
    <3> QED
      BY <2>1, <3>3 DEF TypeOK
  <2> QED
    BY <2>1, <2>2, <2>3, NothingRemoved DEF Carried
<1>3. ASSUME NEW w \in Workers, Statement(w) PROVE Carried'
  BY <1>1, <1>2, <1>3, StatementMoves DEF Carried, Stays, Quits
<1>4. ASSUME NEW w \in Workers, Begin(w) PROVE Carried'
  <2>1. PICK r \in Request : Begins(w, r)
    BY <1>4, BeginMoves
  <2>2. (Op(w)' = "send" /\ step'[w] = 4) \/ (Op(w)' # "send" /\ step'[w] = 1)
    BY <2>1 DEF Begins
  <2>3. \A v \in Workers : v # w => Stays(v)
    BY <1>4, BeginMoves
  <2> QED
    BY <1>1, <2>2, <2>3 DEF Carried, Stays
<1>5. ASSUME NEW w \in Workers, Fail(w) PROVE Carried'
  BY <1>1, <1>5, FailMoves DEF Carried, Stays, Quits
<1>6. ASSUME UNCHANGED <<made, job, step>> PROVE Carried'
  BY <1>1, <1>6 DEF Carried, Busy, Op, Of
<1> QED
  BY <1>3, <1>4, <1>5, <1>6 DEF Next, ListFriends, vars, history

\* Who is told "success", and by which statement.
LEMMA SuccessBy ==
  ASSUME TypeOK, [Next]_vars, NEW k \in Keys, outcome[k] # "success", outcome'[k] = "success"
  PROVE  \E w \in Workers :
           /\ Statement(w) /\ Quits(w) /\ k = job[w] /\ made' = made /\ torn' = torn
           /\ \/ RegisterAnswer(w) \/ AddSecond(w) \/ MessagePeerRow(w) \/ DeleteMessages(w)
              \/ UpdateMessages(w)
<1>1. PICK w \in Workers : Statement(w)
  <2>1. ASSUME NEW w \in Workers, Fail(w) PROVE FALSE
    BY <2>1, FailMoves DEF Quits
  <2> QED
    BY <2>1 DEF Next, Begin, ListFriends, vars
<1>2. Quits(w) /\ k = job[w] /\ made' = made
  BY <1>1, StatementMoves DEF Moves, Quits
<1>3. Busy(w)
  BY <1>2 DEF Quits
<1>4. ~Continue(w)
  BY DEF Continue
<1>5. ~Answer(w, "error")
  BY <1>2, <1>3, Leaves DEF Answer, history
<1>6. CASE RegisterAnswer(w)
  BY <1>1, <1>2, <1>6 DEF RegisterAnswer, Answer, history
<1>7. CASE AddSecond(w)
  BY <1>1, <1>2, <1>5, <1>7 DEF AddSecond, Answer, history
<1>8. CASE MessagePeerRow(w)
  <2>1. torn' = torn
    BY <1>8 DEF MessagePeerRow, Answer, history
  <2> QED
    BY <1>1, <1>2, <1>8, <2>1
<1>9. CASE DeleteMessages(w)
  <2>1. torn' = torn
    BY <1>9 DEF DeleteMessages, Answer, history
  <2> QED
    BY <1>1, <1>2, <1>9, <2>1
<1>10. CASE UpdateMessages(w)
  <2>1. torn' = torn
    BY <1>10 DEF UpdateMessages, Answer, history
  <2> QED
    BY <1>1, <1>2, <1>10, <2>1
<1>11. ~AcceptRelation(w)
  BY DEF AcceptRelation
<1> QED
  BY <1>1, <1>4, <1>5, <1>6, <1>7, <1>8, <1>9, <1>10, <1>11
     DEF Statement, RegisterCheck, RegisterInsert, AddFirst, AcceptChat, MessageInsert,
         MessageOwnRow, DeleteRelation, DeleteChat, UpdateRow

LEMMA AnswersStep ==
  ASSUME TypeOK, TypeOK', UsersRelated, FriendsInv, Carried, [Next]_vars,
         NEW k \in Keys, outcome[k] # "success", outcome'[k] = "success"
  PROVE  Done(k)'
<1>1. PICK w \in Workers :
        /\ Statement(w) /\ Quits(w) /\ k = job[w] /\ made' = made /\ torn' = torn
        /\ \/ RegisterAnswer(w) \/ AddSecond(w) \/ MessagePeerRow(w) \/ DeleteMessages(w)
           \/ UpdateMessages(w)
  BY SuccessBy
<1> DEFINE p == Of(w)
<1>2. /\ made'[k].pair = p /\ made'[k].op = Op(w) /\ made[k].pair = p /\ made[k].op = Op(w)
      /\ p \in Pair /\ Busy(w) /\ \A q \in Both(p) : q \in Pair
  BY <1>1, BusyFacts, BothFacts DEF Op, Of, Quits
<1>3. Op(w) \in Friendship => Friend(w, p)
  BY <1>2, BothFacts DEF Friend, Both
<1>4. p \notin torn' => Sound(p)
  BY <1>1, <1>2 DEF FriendsInv, Sound
<1>5. Friend(w, p) /\ step[w] # 1 /\ ~Needed(w) => RowsKept(p)
  BY <1>1, <1>2, RowsTouched
<1> HIDE DEF p
<1>6. CASE RegisterAnswer(w)
  <2>1. p[1] \in users' /\ Op(w) = "register"
    BY <1>1, <1>2, <1>6, NothingRemoved DEF RegisterAnswer, At, Carried, NewUser, p
  <2> QED
    BY <1>2, <2>1 DEF Done
<1>7. CASE AddSecond(w)
  <2>1. Op(w) = "add"
    BY <1>7 DEF AddSecond, At
  <2>2. p \notin torn' => \A r \in Both(p) : relation'[r] = "pending" /\ chat'[r] = NoRow
    BY <1>1, <1>2, <1>3, <1>4, <1>7, <2>1, AddSecondBoth DEF Friendship
  <2> QED
    BY <1>2, <2>1, <2>2 DEF Done, Befriended
<1>8. CASE MessagePeerRow(w)
  <2>1. step[w] = 6 /\ Op(w) \in {"send", "accept"}
    BY <1>8 DEF MessagePeerRow, Sending, At
  <2>2. messages'[k] # "none"
    BY <1>1, <1>2, <2>1, NothingRemoved DEF Carried
  <2>3. ASSUME Op(w) = "accept", p \notin torn', NEW q \in Both(p)
        PROVE  relation'[q] = "accepted" /\ chat'[q] # NoRow
    <3>1. relation[q] = "accepted" /\ chat[q] # NoRow
      BY <1>2, <1>3, <1>4, <2>1, <2>3 DEF Sound, PairSound, Accepting, Friendship, Both, p
    <3>2. RowsKept(p)
      BY <1>3, <1>5, <2>1, <2>3 DEF Needed, Friendship
    <3> QED
      BY <3>1, <3>2 DEF RowsKept
  <2> QED
    BY <1>2, <2>1, <2>2, <2>3 DEF Done, Befriended
<1>9. CASE DeleteMessages(w)
  <2>1. step[w] = 3 /\ Op(w) = "delete"
    BY <1>9 DEF DeleteMessages, At
  <2>2. ASSUME p \notin torn', NEW q \in Both(p)
        PROVE  relation'[q] = "none" /\ chat'[q] = NoRow
    <3>1. relation[q] = "none" /\ chat[q] = NoRow
      BY <1>3, <1>4, <2>1, <2>2 DEF Sound, PairSound, Deleting, Friendship
    <3> QED
      BY <1>9, <3>1 DEF DeleteMessages
  <2> QED
    BY <1>2, <2>1, <2>2 DEF Done, Befriended
<1>10. CASE UpdateMessages(w)
  <2>1. Op(w) = "update"
    BY <1>10 DEF UpdateMessages, At
  <2> QED
    BY <1>2, <2>1 DEF Done
<1> QED
  BY <1>1, <1>6, <1>7, <1>8, <1>9, <1>10

LEMMA CarriedAlways == Spec => [](UsersRelated /\ FriendsInv /\ Carried)
<1>1. Init => UsersRelated /\ FriendsInv /\ Carried
  BY InitFriends DEF Init, Carried, Busy
<1>2. TypeOK /\ TypeOK' /\ UsersRelated /\ FriendsInv /\ Carried /\ [Next]_vars
      => UsersRelated' /\ FriendsInv' /\ Carried'
  BY RelatedKept, FriendsStep, CarriedKept
<1> QED
  BY <1>1, <1>2, TypeCorrect, PTL DEF Spec

(***************************************************************************)
(* For any users and workers: a step that answers "success" leaves what    *)
(* the answer says, a user, a stored message, or the pair as asked for.    *)
(***************************************************************************)
THEOREM AnswersAreAlwaysTrue == Spec => AnswersAreTrue
<1>1. TypeOK /\ TypeOK' /\ UsersRelated /\ FriendsInv /\ Carried /\ [Next]_vars =>
        [\A k \in Keys : outcome[k] # "success" /\ outcome'[k] = "success" => Done(k)']_vars
  BY AnswersStep
<1> QED
  BY <1>1, TypeCorrect, CarriedAlways, PTL DEF Spec, AnswersAreTrue
-----------------------------------------------------------------------------
(***************************************************************************)
(* Who has inserted his row stays the one who has, until he is answered    *)
(* and after: Reached(k, n) says that request k has come to statement n.   *)
(***************************************************************************)
Reached(k, n) ==
  \/ outcome[k] = "success"
  \/ \E w \in Workers : job[w] = k /\ step[w] >= n

Undeleted(p) ==
  \A d \in 1..Len(made) : ~(made[d].op = "delete" /\ made[d].pair \in Both(p))

Unanswered == \A k \in Keys : k > Len(made) => outcome[k] = "none"

\* One request has registered a phone number, and the row is there.
Registered ==
  \A j \in 1..Len(made) : made[j].op = "register" /\ Reached(j, 3) =>
    /\ made[j].pair[1] \in users
    /\ \A k \in 1..Len(made) :
         made[k].op = "register" /\ Reached(k, 3) /\ made[k].pair[1] = made[j].pair[1] => j = k

\* One request has inserted the second chat row of a pair, and both stay.
Accepted ==
  \A j \in 1..Len(made) : made[j].op = "accept" /\ Undeleted(made[j].pair) =>
    /\ Reached(j, 3) => chat[made[j].pair] # NoRow
    /\ Reached(j, 4) => chat[Back(made[j].pair)] # NoRow
    /\ \A k \in 1..Len(made) :
         made[k].op = "accept" /\ made[k].pair \in Both(made[j].pair)
           /\ Reached(k, 4) /\ Reached(j, 4) => j = k

LEMMA UnansweredKept ==
  ASSUME TypeOK, Unanswered, [Next]_vars
  PROVE  Unanswered'
<1>1. ASSUME NEW w \in Workers, Busy(w), made' = made,
             \A k \in Keys : k # job[w] => outcome'[k] = outcome[k]
      PROVE  Unanswered'
  <2>1. job[w] \in 1..Len(made) /\ Len(made) \in Nat
    BY <1>1, BusyFacts
  <2> QED
    BY <1>1, <2>1 DEF Unanswered, Keys
<1>2. ASSUME NEW w \in Workers, Statement(w) PROVE Unanswered'
  <2>1. made' = made /\ (Moves(w) \/ Quits(w))
    BY <1>2, StatementMoves
  <2> QED
    BY <1>1, <2>1 DEF Moves, Quits
<1>3. ASSUME NEW w \in Workers, Fail(w) PROVE Unanswered'
  <2>1. made' = made /\ Quits(w)
    BY <1>3, FailMoves
  <2> QED
    BY <1>1, <2>1 DEF Quits
<1>4. ASSUME NEW w \in Workers, Begin(w) PROVE Unanswered'
  <2>1. outcome' = outcome /\ Len(made) \in Nat /\ Len(made') = Len(made) + 1
    BY <1>4, BeginMoves DEF Begins
  <2> QED
    BY <2>1 DEF Unanswered, Keys
<1>5. ASSUME UNCHANGED <<made, outcome>> PROVE Unanswered'
  BY <1>5 DEF Unanswered
<1> QED
  BY <1>2, <1>3, <1>4, <1>5 DEF Next, ListFriends, vars, history

\* The requests made stay as they are.
LEMMA MadeStays ==
  ASSUME TypeOK, TypeOK', [Next]_vars
  PROVE  /\ \A k \in 1..Len(made) : k \in 1..Len(made') /\ made'[k] = made[k]
         /\ \A k \in 1..Len(made) : k \in Keys /\ made[k] \in Request
         /\ \A p \in Pair : Undeleted(p)' => Undeleted(p)
<1>1. \A k \in 1..Len(made) : k \in 1..Len(made') /\ made'[k] = made[k]
  <2>1. ASSUME NEW w \in Workers, Statement(w) PROVE made' = made
    BY <2>1, StatementMoves
  <2>2. ASSUME NEW w \in Workers, Fail(w) PROVE made' = made
    BY <2>2, FailMoves
  <2>3. ASSUME NEW w \in Workers, Begin(w)
        PROVE  \A k \in 1..Len(made) : k \in 1..Len(made') /\ made'[k] = made[k]
    BY <2>3, BeginMoves DEF Begins
  <2> QED
    BY <2>1, <2>2, <2>3 DEF Next, ListFriends, vars, history
<1>2. \A k \in 1..Len(made) : k \in Keys /\ made[k] \in Request
  <2>1. Len(made) \in Nat /\ Len(made) <= MaxRequests /\ made \in Seq(Request)
    BY LenProperties DEF TypeOK
  <2> QED
    BY <2>1, ChatStoreAssumption DEF Keys
<1>3. \A p \in Pair : Undeleted(p)' => Undeleted(p)
  BY <1>1 DEF Undeleted
<1> QED
  BY <1>1, <1>2, <1>3

\* A request comes to statement n by its worker's statement before.
LEMMA ReachedBy ==
  ASSUME TypeOK, TypeOK', Unanswered, [Next]_vars,
         NEW k \in 1..Len(made'), NEW n \in {3, 4}, Reached(k, n)',
         made'[k].op = "accept" \/ (made'[k].op = "register" /\ n = 3)
  PROVE  /\ k \in 1..Len(made)
         /\ \/ Reached(k, n)
            \/ \E w \in Workers : /\ Statement(w) /\ Moves(w) /\ \A v \in Workers : v # w => Stays(v)
                                  /\ job[w] = k /\ step[w] = n - 1
<1>0. Len(made) \in Nat /\ Len(made') \in Nat
  BY LenProperties DEF TypeOK
<1>1. ASSUME NEW w \in Workers, NEW r \in Request, Begins(w, r), \A v \in Workers : v # w => Stays(v)
      PROVE  k \in 1..Len(made) /\ Reached(k, n)
  <2>1. \A v \in Workers : v # w => job'[v] = job[v] /\ step'[v] = step[v] /\ job[v] <= Len(made)
    BY <1>0, <1>1 DEF Stays, TypeOK
  <2>2. /\ job'[w] = Len(made) + 1 /\ outcome' = outcome /\ Len(made') = Len(made) + 1
        /\ made'[Len(made) + 1] = r /\ Len(made) + 1 \in Keys
        /\ r.op # "send" => step'[w] = 1
    BY <1>1 DEF Begins
  <2>3. k # Len(made) + 1
    <3> SUFFICES ASSUME k = Len(made) + 1 PROVE FALSE
      OBVIOUS
    <3>1. outcome'[k] = "none" /\ step'[w] = 1
      BY <1>0, <2>2 DEF Unanswered
    <3>2. PICK v \in Workers : job'[v] = k /\ step'[v] >= n
      BY <3>1 DEF Reached
    <3> QED
      BY <1>0, <2>1, <3>1, <3>2
  <2> QED
    BY <1>0, <2>1, <2>2, <2>3 DEF Reached
<1>2. ASSUME made' = made, outcome'[k] = "success" PROVE Reached(k, n)
  <2>1. CASE outcome[k] = "success"
    BY <2>1 DEF Reached
  <2>2. CASE outcome[k] # "success"
    <3>1. k \in Keys
      BY <1>2, MadeStays
    <3>2. PICK w \in Workers :
            /\ k = job[w]
            /\ \/ RegisterAnswer(w) \/ AddSecond(w) \/ MessagePeerRow(w) \/ DeleteMessages(w)
               \/ UpdateMessages(w)
      BY <1>2, <2>2, <3>1, SuccessBy
    <3>3. Op(w) = made'[k].op
      BY <1>2, <3>2 DEF Op
    <3>4. step[w] >= n
      BY <3>2, <3>3 DEF RegisterAnswer, AddSecond, MessagePeerRow, DeleteMessages, UpdateMessages,
                       Sending, At
    <3> QED
      BY <3>2, <3>4 DEF Reached
  <2> QED
    BY <2>1, <2>2
<1>3. ASSUME NEW w \in Workers, Statement(w)
      PROVE  Reached(k, n) \/ (Moves(w) /\ job[w] = k /\ step[w] = n - 1)
  <2>1. /\ made' = made /\ (Moves(w) \/ Quits(w))
        /\ \A v \in Workers : v # w => Stays(v)
        /\ step[w] \in 1..6
    BY <1>3, StatementMoves DEF TypeOK
  <2>2. CASE outcome'[k] = "success"
    BY <1>2, <1>3, <2>2, StatementMoves
  <2>3. CASE outcome'[k] # "success"
    <3>1. PICK v \in Workers : job'[v] = k /\ step'[v] >= n
      BY <2>3 DEF Reached
    <3>2. CASE v = w
      <4>1. Moves(w)
        BY <1>3, <3>1, <3>2, StatementMoves DEF Quits
      <4>2. job[w] = k /\ step[w] + 1 >= n
        BY <3>1, <3>2, <4>1 DEF Moves
      <4> QED
        BY <2>1, <4>1, <4>2 DEF Reached
    <3>3. CASE v # w
      BY <2>1, <3>1, <3>3 DEF Stays, Reached
    <3> QED
      BY <3>2, <3>3
  <2> QED
    BY <2>2, <2>3
<1>4. ASSUME NEW w \in Workers, Fail(w) PROVE Reached(k, n)
  <2>1. /\ made' = made /\ Quits(w) /\ outcome'[job[w]] # "success"
        /\ \A v \in Workers : v # w => Stays(v)
    BY <1>4, FailMoves
  <2>2. CASE outcome'[k] = "success"
    BY <1>2, <2>1, <2>2
  <2>3. CASE outcome'[k] # "success"
    <3>1. PICK v \in Workers : job'[v] = k /\ step'[v] >= n
      BY <2>3 DEF Reached
    <3>2. v # w
      BY <2>1, <3>1 DEF Quits
    <3> QED
      BY <2>1, <3>1, <3>2 DEF Stays, Reached
  <2> QED
    BY <2>2, <2>3
<1>5. ASSUME UNCHANGED <<made, job, step, outcome>> PROVE Reached(k, n)
  BY <1>5 DEF Reached
<1>6. ASSUME NEW w \in Workers, Begin(w) PROVE k \in 1..Len(made) /\ Reached(k, n)
  BY <1>1, <1>6, BeginMoves
<1>7. CASE \E w \in Workers : Statement(w)
  <2>1. PICK w \in Workers : Statement(w)
    BY <1>7
  <2>2. made' = made /\ \A v \in Workers : v # w => Stays(v)
    BY <2>1, StatementMoves
  <2> QED
    BY <1>3, <2>1, <2>2
<1>8. CASE \E w \in Workers : Fail(w)
  BY <1>4, <1>8, FailMoves
<1> QED
  BY <1>5, <1>6, <1>7, <1>8 DEF Next, ListFriends, vars, history

LEMMA RegisteredKept ==
  ASSUME TypeOK, TypeOK', Unanswered, Registered, [Next]_vars
  PROVE  Registered'
<1> DEFINE Inserts(w, k) ==
             /\ Statement(w) /\ Moves(w) /\ (\A v \in Workers : v # w => Stays(v))
             /\ job[w] = k /\ step[w] = 2
<1>1. ASSUME NEW k \in 1..Len(made'), made'[k].op = "register", Reached(k, 3)'
      PROVE  /\ k \in 1..Len(made) /\ made[k] = made'[k] /\ k \in Keys
             /\ Reached(k, 3) \/ \E w \in Workers : Inserts(w, k)
  BY <1>1, ReachedBy, MadeStays
<1>2. ASSUME NEW k \in 1..Len(made), made[k].op = "register", NEW w \in Workers, Inserts(w, k)
      PROVE  made[k].pair[1] \notin users /\ made[k].pair[1] \in users'
  <2>1. At(w, "register", 2) /\ made[k].pair[1] = NewUser(w)
    BY <1>2 DEF Moves, Op, Of, NewUser, At
  <2>2. RegisterInsert(w)
    BY <1>2, <2>1 DEF Statement, RegisterCheck, RegisterAnswer, AddFirst, AddSecond,
       AcceptRelation, AcceptChat, MessageInsert, MessageOwnRow, MessagePeerRow,
       DeleteRelation, DeleteChat, DeleteMessages, UpdateRow, UpdateMessages, Sending, At
  <2>3. ~Answer(w, "error")
    BY <1>2, <2>1, Leaves DEF Answer, history, Moves
  <2> QED
    BY <2>1, <2>2, <2>3 DEF RegisterInsert
<1> HIDE DEF Inserts
<1>3. ASSUME NEW j \in 1..Len(made'), made'[j].op = "register", Reached(j, 3)'
      PROVE  made'[j].pair[1] \in users'
  BY <1>1, <1>2, <1>3, NothingRemoved DEF Registered
<1>4. ASSUME NEW j \in 1..Len(made'), made'[j].op = "register", Reached(j, 3)',
             NEW k \in 1..Len(made'), made'[k].op = "register", Reached(k, 3)',
             made'[k].pair[1] = made'[j].pair[1]
      PROVE  j = k
  <2>1. CASE Reached(j, 3) /\ Reached(k, 3)
    BY <1>1, <1>4, <2>1 DEF Registered
  <2>2. CASE (Reached(j, 3) /\ ~Reached(k, 3)) \/ (~Reached(j, 3) /\ Reached(k, 3))
    BY <1>1, <1>2, <1>4, <2>2 DEF Registered
  <2>3. CASE ~Reached(j, 3) /\ ~Reached(k, 3)
    <3>1. PICK w \in Workers : Inserts(w, j)
      BY <1>1, <1>4, <2>3
    <3>2. PICK v \in Workers : Inserts(v, k)
      BY <1>1, <1>4, <2>3
    <3>3. v = w
      BY <3>1, <3>2 DEF Inserts, Moves, Stays
    <3> QED
      BY <3>1, <3>2, <3>3 DEF Inserts
  <2> QED
    BY <2>1, <2>2, <2>3
<1> QED
  BY <1>3, <1>4 DEF Registered

\* A chat row goes only by a deletion of its pair.
LEMMA ChatStays ==
  ASSUME TypeOK, TypeOK', [Next]_vars, NEW p \in Pair, Undeleted(p), NEW q \in Both(p), chat[q] # NoRow
  PROVE  chat'[q] # NoRow
<1>1. q \in Pair /\ chat \in [Pair -> Nat \cup {NoRow}]
  BY BothFacts DEF TypeOK
<1>2. ASSUME NEW w \in Workers, Statement(w) PROVE chat'[q] # NoRow
  <2>1. CASE Friend(w, p) => step[w] # 1 /\ ~Needed(w)
    BY <1>2, <2>1, RowsTouched DEF RowsKept
  <2>2. CASE Friend(w, p) /\ Op(w) = "delete"
    BY <2>2, BusyFacts DEF Friend, Undeleted, Op, Of
  <2>3. CASE Friend(w, p) /\ Op(w) # "delete" /\ (step[w] = 1 \/ Needed(w))
    <3>1. AddFirst(w) \/ AddSecond(w) \/ AcceptRelation(w) \/ AcceptChat(w)
      BY <1>2, <2>3, StatementAt DEF Needed, Friend, Friendship
    <3>2. CASE AddFirst(w) \/ AddSecond(w) \/ AcceptRelation(w)
      BY <3>2 DEF AddFirst, AddSecond, AcceptRelation
    <3>3. CASE AcceptChat(w)
      <4>1. chat' = chat \/ \E row \in Pair : chat' = [chat EXCEPT ![row] = 0]
        BY <2>3, <3>3, BusyFacts, BackFacts DEF AcceptChat, Friend
      <4> QED
        BY <1>1, <4>1 DEF NoRow
    <3> QED
      BY <3>1, <3>2, <3>3
  <2> QED
    BY <2>1, <2>2, <2>3
<1>3. ASSUME UNCHANGED chat PROVE chat'[q] # NoRow
  BY <1>3
<1> QED
  BY <1>2, <1>3 DEF Next, Begin, Fail, ListFriends, vars, tables

LEMMA AcceptedKept ==
  ASSUME TypeOK, TypeOK', Unanswered, Accepted, [Next]_vars
  PROVE  Accepted'
<1> DEFINE Inserts(w, k, n) ==
             /\ Statement(w) /\ Moves(w) /\ (\A v \in Workers : v # w => Stays(v))
             /\ job[w] = k /\ step[w] = n
<1>1. ASSUME NEW k \in 1..Len(made'), made'[k].op = "accept", NEW n \in {3, 4}, Reached(k, n)'
      PROVE  /\ k \in 1..Len(made) /\ made[k] = made'[k]
             /\ made[k].pair \in Pair /\ Back(made[k].pair) \in Pair
             /\ made[k].pair \in Both(made[k].pair) /\ Back(made[k].pair) \in Both(made[k].pair)
             /\ Reached(k, n) \/ \E w \in Workers : Inserts(w, k, n - 1)
  <2>1. /\ k \in 1..Len(made) /\ made[k] = made'[k] /\ made[k] \in Request
        /\ Reached(k, n) \/ \E w \in Workers : Inserts(w, k, n - 1)
    BY <1>1, ReachedBy, MadeStays
  <2> QED
    BY <2>1, BackFacts DEF Request, Both
<1>2. ASSUME NEW k \in 1..Len(made), made[k].op = "accept", NEW n \in {2, 3}, NEW w \in Workers,
             Inserts(w, k, n)
      PROVE  /\ n = 2 => chat'[made[k].pair] # NoRow
             /\ n = 3 => chat[Back(made[k].pair)] = NoRow /\ chat'[Back(made[k].pair)] # NoRow
  <2>1. /\ Busy(w) /\ Op(w) = "accept" /\ step[w] = n /\ Of(w) = made[k].pair
        /\ Of(w) \in Pair /\ Back(Of(w)) \in Pair
    BY <1>2, BusyFacts, BackFacts DEF Moves, Op, Of
  <2>2. AcceptChat(w)
    BY <1>2, <2>1, StatementAt DEF Friendship
  <2>3. ~Answer(w, "error")
    BY <1>2, <2>1, Leaves DEF Answer, history, Moves
  <2>4. /\ n = 2 => chat' = [chat EXCEPT ![Of(w)] = 0]
        /\ n = 3 => chat[Back(Of(w))] = NoRow /\ chat' = [chat EXCEPT ![Back(Of(w))] = 0]
    BY <2>1, <2>2, <2>3 DEF AcceptChat
  <2> QED
    BY <2>1, <2>4 DEF NoRow, TypeOK
<1> HIDE DEF Inserts
<1>3. ASSUME NEW k \in 1..Len(made), Reached(k, 4) PROVE Reached(k, 3)
  <2>1. \A w \in Workers : step[w] \in 1..6
    BY DEF TypeOK
  <2> QED
    BY <1>3, <2>1 DEF Reached
<1>4. ASSUME NEW j \in 1..Len(made'), made'[j].op = "accept",
             NEW p \in Pair, p = made'[j].pair, Undeleted(p)'
      PROVE  /\ Reached(j, 3)' => chat'[p] # NoRow
             /\ Reached(j, 4)' => chat'[Back(p)] # NoRow
  <2>0. Undeleted(p)
    BY <1>4, MadeStays
  <2>1. ASSUME Reached(j, 3)' PROVE chat'[p] # NoRow
    <3>1. /\ j \in 1..Len(made) /\ made[j] = made'[j] /\ p \in Both(p)
          /\ Reached(j, 3) \/ \E w \in Workers : Inserts(w, j, 2)
      BY <1>1, <1>4, <2>1
    <3>2. ASSUME Reached(j, 3) PROVE chat[p] # NoRow
      BY <1>4, <2>0, <3>1, <3>2 DEF Accepted
    <3> QED
      BY <1>2, <1>4, <2>0, <3>1, <3>2, ChatStays
  <2>2. ASSUME Reached(j, 4)' PROVE chat'[Back(p)] # NoRow
    <3>1. /\ j \in 1..Len(made) /\ made[j] = made'[j] /\ Back(p) \in Both(p)
          /\ Reached(j, 4) \/ \E w \in Workers : Inserts(w, j, 3)
      BY <1>1, <1>4, <2>2
    <3>2. ASSUME Reached(j, 4) PROVE chat[Back(p)] # NoRow
      BY <1>4, <2>0, <3>1, <3>2 DEF Accepted
    <3> QED
      BY <1>2, <1>4, <2>0, <3>1, <3>2, ChatStays
  <2> QED
    BY <2>1, <2>2
<1>5. ASSUME NEW j \in 1..Len(made'), made'[j].op = "accept",
             NEW p \in Pair, p = made'[j].pair, Undeleted(p)',
             NEW k \in 1..Len(made'), made'[k].op = "accept", made'[k].pair \in Both(made'[j].pair),
             Reached(k, 4)', Reached(j, 4)'
      PROVE  j = k
  <2>1. /\ j \in 1..Len(made) /\ made[j] = made'[j] /\ made[j].pair \in Pair
        /\ Reached(j, 4) \/ \E w \in Workers : Inserts(w, j, 3)
    BY <1>1, <1>5
  <2>2. /\ k \in 1..Len(made) /\ made[k] = made'[k] /\ made[k].pair \in Pair
        /\ Reached(k, 4) \/ \E w \in Workers : Inserts(w, k, 3)
    BY <1>1, <1>5
  <2>3. Both(made[k].pair) = Both(made[j].pair)
    BY <1>5, <2>1, <2>2, BothFacts
  <2>4. Undeleted(made[j].pair) /\ Undeleted(made[k].pair)
    <3>1. Undeleted(made[j].pair)
      BY <1>5, <2>1, MadeStays
    <3> QED
      BY <2>3, <3>1 DEF Undeleted
  <2>5. ASSUME NEW i \in {j, k}, Reached(i, 4)
        PROVE  \A q \in Both(made[j].pair) : chat[q] # NoRow
    BY <1>3, <1>5, <2>1, <2>2, <2>3, <2>4, <2>5 DEF Accepted, Both
  <2>6. ASSUME NEW i \in {j, k}, NEW w \in Workers, Inserts(w, i, 3)
        PROVE  \E q \in Both(made[j].pair) : chat[q] = NoRow
    <3>1. chat[Back(made[i].pair)] = NoRow /\ Back(made[i].pair) \in Both(made[i].pair)
      BY <1>2, <1>5, <2>1, <2>2, <2>6 DEF Both
    <3> QED
      BY <2>3, <2>6, <3>1
  <2>7. CASE Reached(j, 4) /\ Reached(k, 4)
    BY <1>5, <2>1, <2>2, <2>4, <2>7 DEF Accepted
  <2>8. CASE ~Reached(j, 4) /\ ~Reached(k, 4)
    <3>1. PICK w \in Workers : Inserts(w, j, 3)
      BY <2>1, <2>8
    <3>2. PICK v \in Workers : Inserts(v, k, 3)
      BY <2>2, <2>8
    <3>3. v = w
      BY <3>1, <3>2 DEF Inserts, Moves, Stays
    <3> QED
      BY <3>1, <3>2, <3>3 DEF Inserts
  <2> QED
    BY <2>1, <2>2, <2>5, <2>6, <2>7, <2>8
<1>6. \A j \in 1..Len(made') : made'[j].pair \in Pair
  <2>1. made' \in Seq(Request) /\ Len(made') \in Nat
    BY LenProperties DEF TypeOK
  <2>2. \A j \in 1..Len(made') : made'[j] \in Request
    BY <2>1
  <2> QED
    BY <2>2 DEF Request
<1> QED
  BY <1>4, <1>5, <1>6 DEF Accepted, Undeleted

(***************************************************************************)
(* For any users and workers: of the requests told "success" at most one   *)
(* registered a phone number, and at most one accepted a friendship that   *)
(* was never deleted.                                                      *)
(***************************************************************************)
THEOREM AlwaysOneWinner == Spec => []OneWinner
<1> DEFINE Inv == Unanswered /\ Registered /\ Accepted
<1>1. Init => Inv
  <2> SUFFICES ASSUME Init PROVE Inv
    OBVIOUS
  <2>1. Len(made) = 0
    BY EmptySeq DEF Init
  <2> QED
    BY <2>1 DEF Init, Unanswered, Registered, Accepted
<1>2. TypeOK /\ TypeOK' /\ Inv /\ [Next]_vars => Inv'
  BY UnansweredKept, RegisteredKept, AcceptedKept
<1>3. TypeOK /\ Inv => OneWinner
  <2> SUFFICES ASSUME TypeOK, Inv, NEW j \in Keys, NEW k \in Keys, Won(j), Won(k), j # k
               PROVE  /\ ~(/\ made[j].op = "register" /\ made[k].op = "register"
                           /\ made[j].pair[1] = made[k].pair[1])
                      /\ made[j].op = "accept" /\ made[k].op = "accept"
                           /\ made[j].pair \in Both(made[k].pair)
                         => \E d \in 1..Len(made) : /\ made[d].op = "delete"
                                                    /\ made[d].pair \in Both(made[k].pair)
    BY DEF OneWinner
  <2>1. j \in 1..Len(made) /\ k \in 1..Len(made)
    BY LenProperties DEF Won, Keys, TypeOK
  <2>2. Reached(j, 3) /\ Reached(k, 3) /\ Reached(j, 4) /\ Reached(k, 4)
    BY DEF Won, Reached
  <2> QED
    BY <2>1, <2>2 DEF Registered, Accepted, Undeleted
<1> HIDE DEF Inv
<1> QED
  BY <1>1, <1>2, <1>3, TypeCorrect, PTL DEF Spec
-----------------------------------------------------------------------------
(***************************************************************************)
(* Unread counts.  A message in flight is stored and not counted yet; the  *)
(* count of a pair is backed by the other unread ones (Settled).  Whoever  *)
(* clears a count has set it to nothing before it clears the messages, and *)
(* meets nobody who writes.                                                *)
(***************************************************************************)
Writes(w, p) == Busy(w) /\ Of(w) \in Both(p) /\ Op(w) \in {"send", "accept"}
Clears(w, p) == Busy(w) /\ Of(w) \in Both(p) /\ Op(w) \in {"update", "delete"}
Flying(w, p) == Writes(w, p) /\ Of(w) = Back(p) /\ step[w] \in {5, 6}
Clearing(w, p) ==
  /\ Clears(w, p)
  /\ \/ Op(w) = "update" /\ Of(w) = p /\ step[w] = 2
     \/ Op(w) = "delete" /\ step[w] = 3

InFlight(p) == {job[w] : w \in {v \in Workers : Flying(v, p)}}
Settled(p) == Unread(p) \ InFlight(p)

Apart(p) == \A v, w \in Workers : ~(Writes(v, p) /\ Clears(w, p))
Cleared(p) == \A w \in Workers : Clearing(w, p) => chat[p] <= 0

CountSound(p) ==
  /\ Apart(p)
  /\ Cleared(p)
  /\ InFlight(p) \subseteq Unread(p)
  /\ chat[p] <= Cardinality(Settled(p))

CountInv == \A p \in Pair \ slipped : CountSound(p)

\* A message is stored by its request's own MessageInsert, not before.
Unsent ==
  /\ \A k \in Keys : k > Len(made) => messages[k] = "none"
  /\ \A w \in Workers : Busy(w) /\ Op(w) \in {"send", "accept"} /\ step[w] <= 4 =>
       messages[job[w]] = "none"

LEMMA SmallSets ==
  ASSUME NEW m \in Nat, NEW n \in Nat, NEW S \in SUBSET (1..m), NEW T \in SUBSET (1..n)
  PROVE  /\ Cardinality(S) \in Nat /\ Cardinality(T) \in Nat
         /\ S \subseteq T => Cardinality(S) <= Cardinality(T)
         /\ \A x \in T : x \notin S /\ S \subseteq T => Cardinality(S) + 1 <= Cardinality(T)
<1>1. IsFiniteSet(S) /\ IsFiniteSet(T) /\ Cardinality(S) \in Nat /\ Cardinality(T) \in Nat
  <2>1. IsFiniteSet(1..m) /\ IsFiniteSet(1..n)
    BY FS_Interval
  <2>2. IsFiniteSet(S) /\ IsFiniteSet(T)
    BY <2>1, FS_Subset
  <2> QED
    BY <2>2, FS_CardinalityType
<1>2. S \subseteq T => Cardinality(S) <= Cardinality(T)
  BY <1>1, FS_Subset
<1>3. ASSUME NEW x \in T, x \notin S, S \subseteq T PROVE Cardinality(S) + 1 <= Cardinality(T)
  <2>1. S \cup {x} \subseteq T
    BY <1>3
  <2>2. Cardinality(S \cup {x}) = Cardinality(S) + 1
    BY <1>1, <1>3, FS_AddElement
  <2> QED
    BY <1>1, <2>1, <2>2, FS_Subset
<1> QED
  BY <1>1, <1>2, <1>3

LEMMA UnreadSmall ==
  /\ TypeOK => Len(made) \in Nat /\ \A p \in Pair : Settled(p) \in SUBSET (1..Len(made))
  /\ TypeOK' => Len(made') \in Nat /\ \A p \in Pair : Settled(p)' \in SUBSET (1..Len(made'))
<1>1. TypeOK => Len(made) \in Nat
  BY LenProperties DEF TypeOK
<1>2. TypeOK' => Len(made') \in Nat
  BY LenProperties DEF TypeOK
<1> QED
  BY <1>1, <1>2 DEF Settled, Unread, Received

\* A count that does not grow stays backed; by one if a message settles.
LEMMA CountKept ==
  ASSUME TypeOK, TypeOK', NEW p \in Pair, CountSound(p),
         \/ chat'[p] <= 0
         \/ chat'[p] <= chat[p] /\ Settled(p) \subseteq Settled(p)'
         \/ /\ chat'[p] <= chat[p] + 1 /\ Settled(p) \subseteq Settled(p)'
            /\ \E k \in Settled(p)' : k \notin Settled(p)
  PROVE  chat'[p] <= Cardinality(Settled(p)')
<1> DEFINE S == Settled(p)
           T == Settled(p)'
<1>1. /\ chat[p] \in Int /\ chat'[p] \in Int
      /\ chat[p] <= Cardinality(S)
  BY DEF TypeOK, NoRow, CountSound
<1>2. /\ Len(made) \in Nat /\ S \in SUBSET (1..Len(made))
      /\ Len(made') \in Nat /\ T \in SUBSET (1..Len(made'))
  BY UnreadSmall
<1> HIDE DEF S, T
<1>3. /\ Cardinality(S) \in Nat /\ Cardinality(T) \in Nat
      /\ S \subseteq T => Cardinality(S) <= Cardinality(T)
      /\ \A x \in T : x \notin S /\ S \subseteq T => Cardinality(S) + 1 <= Cardinality(T)
  BY <1>2, SmallSets
<1>4. \/ chat'[p] <= 0
      \/ chat'[p] <= chat[p] /\ S \subseteq T
      \/ /\ chat'[p] <= chat[p] + 1 /\ S \subseteq T
         /\ \E k \in T : k \notin S
  BY DEF S, T
<1>5. chat'[p] <= Cardinality(T)
  BY <1>1, <1>3, <1>4
<1> QED
  BY <1>5 DEF T

\* Most steps store no message and let none take off or start to clear.
LEMMA CountQuiet ==
  ASSUME TypeOK, TypeOK', NEW p \in Pair, CountSound(p), Apart(p)',
         Unread(p) \subseteq Unread(p)', chat'[p] <= 0 \/ chat'[p] = chat[p],
         \A v \in Workers : Flying(v, p)' => Flying(v, p) /\ job'[v] = job[v],
         \A v \in Workers : Clearing(v, p)' => Clearing(v, p) \/ chat'[p] <= 0
  PROVE  CountSound(p)'
<1>1. InFlight(p)' \subseteq InFlight(p)
  BY DEF InFlight
<1>2. InFlight(p)' \subseteq Unread(p)' /\ Settled(p) \subseteq Settled(p)'
  BY <1>1 DEF CountSound, Settled
<1>3. chat[p] \in Int /\ chat'[p] \in Int
  BY DEF TypeOK, NoRow
<1>4. Cleared(p)'
  BY DEF Cleared, CountSound
<1> QED
  BY <1>2, <1>3, <1>4, CountKept DEF CountSound

\* A worker that moves or leaves ends no pair's peace.
LEMMA ApartKept ==
  ASSUME NEW p \in Pair, NEW w \in Workers, Moves(w) \/ Quits(w),
         \A v \in Workers : v # w => Stays(v), Apart(p)
  PROVE  /\ Apart(p)'
         /\ \A v \in Workers : Writes(v, p)' => Writes(v, p) /\ job'[v] = job[v] /\ Of(v)' = Of(v)
         /\ \A v \in Workers : Clears(v, p)' => Clears(v, p) /\ Op(v)' = Op(v) /\ Of(v)' = Of(v)
<1>1. \A v \in Workers : Busy(v)' => Busy(v) /\ job'[v] = job[v] /\ Op(v)' = Op(v) /\ Of(v)' = Of(v)
  BY DEF Moves, Quits, Stays
<1>2. /\ \A v \in Workers : Writes(v, p)' => Writes(v, p) /\ job'[v] = job[v] /\ Of(v)' = Of(v)
      /\ \A v \in Workers : Clears(v, p)' => Clears(v, p) /\ Op(v)' = Op(v) /\ Of(v)' = Of(v)
  BY <1>1 DEF Writes, Clears
<1>3. Apart(p)'
  BY <1>2 DEF Apart
<1> QED
  BY <1>2, <1>3

\* Every statement but those that handle messages.
LEMMA OtherCounts ==
  ASSUME TypeOK, TypeOK', NEW p \in Pair, CountSound(p), NEW w \in Workers, Busy(w),
         Moves(w) \/ Quits(w), \A v \in Workers : v # w => Stays(v),
         Unread(p) \subseteq Unread(p)', chat'[p] <= 0 \/ chat'[p] = chat[p],
         Moves(w) /\ Writes(w, p) => step[w] # 4,
         Moves(w) /\ Op(w) = "update" /\ Of(w) = p => chat'[p] <= 0,
         Moves(w) /\ Op(w) = "delete" /\ Of(w) \in Both(p) /\ step[w] = 2 => chat'[p] <= 0
  PROVE  CountSound(p)'
<1>1. /\ Apart(p)'
      /\ \A v \in Workers : Writes(v, p)' => Writes(v, p) /\ job'[v] = job[v] /\ Of(v)' = Of(v)
      /\ \A v \in Workers : Clears(v, p)' => Clears(v, p) /\ Op(v)' = Op(v) /\ Of(v)' = Of(v)
  BY ApartKept DEF CountSound
<1>2. step[w] \in 1..6
  BY DEF TypeOK
<1>3. \A v \in Workers : v # w => step'[v] = step[v]
  BY DEF Stays
<1>4. (~Writes(w, p)' /\ ~Clears(w, p)') \/ Moves(w)
  BY DEF Quits, Writes, Clears
<1>5. ASSUME NEW v \in Workers, Flying(v, p)' PROVE Flying(v, p) /\ job'[v] = job[v]
  <2>1. Writes(v, p) /\ job'[v] = job[v] /\ Of(v) = Back(p) /\ step'[v] \in {5, 6} /\ Writes(v, p)'
    BY <1>1, <1>5 DEF Flying
  <2>2. CASE v = w
    <3>1. step'[w] = step[w] + 1 /\ step[w] # 4
      BY <1>4, <2>1, <2>2 DEF Moves
    <3> QED
      BY <1>2, <2>1, <2>2, <3>1 DEF Flying
  <2>3. CASE v # w
    BY <1>3, <2>1, <2>3 DEF Flying
  <2> QED
    BY <2>2, <2>3
<1>6. ASSUME NEW v \in Workers, Clearing(v, p)' PROVE Clearing(v, p) \/ chat'[p] <= 0
  <2>1. /\ Clears(v, p) /\ Op(v)' = Op(v) /\ Of(v)' = Of(v) /\ Clears(v, p)'
        /\ \/ Op(v) = "update" /\ Of(v) = p /\ step'[v] = 2
           \/ Op(v) = "delete" /\ step'[v] = 3
    BY <1>1, <1>6 DEF Clearing
  <2>2. CASE v = w
    <3>1. Moves(w) /\ step'[w] = step[w] + 1 /\ Of(w) \in Both(p)
      BY <1>4, <2>1, <2>2 DEF Moves, Clears
    <3>2. step[w] = 2 \/ Op(w) = "update"
      BY <1>2, <2>1, <2>2, <3>1
    <3> QED
      BY <2>1, <2>2, <3>1, <3>2
  <2>3. CASE v # w
    BY <1>3, <2>1, <2>3 DEF Clearing
  <2> QED
    BY <2>2, <2>3
<1> QED
  BY <1>1, <1>5, <1>6, CountQuiet

\* What the statements of the tables do to the count of one pair.
LEMMA StoresOther ==
  ASSUME TypeOK, TypeOK', NEW p \in Pair, CountSound(p), NEW w \in Workers, Statement(w),
         ~MessageInsert(w), ~MessagePeerRow(w), ~DeleteMessages(w), ~UpdateMessages(w)
  PROVE  CountSound(p)'
<1>1. /\ made' = made /\ (Moves(w) \/ Quits(w)) /\ Busy(w)
      /\ \A v \in Workers : v # w => Stays(v)
  BY StatementMoves DEF Moves, Quits
<1>2. /\ Of(w) \in Pair /\ Back(Of(w)) \in Pair /\ (Of(w) \in Both(p) => Both(Of(w)) = Both(p))
      /\ p \in Both(p) /\ chat \in [Pair -> Nat \cup {NoRow}]
  BY <1>1, BusyFacts, BackFacts, BothFacts DEF TypeOK, Both
<1>3. messages' = messages => Unread(p)' = Unread(p)
  BY <1>1 DEF Unread, Received
<1>4. CASE \/ RegisterCheck(w) \/ RegisterInsert(w) \/ RegisterAnswer(w)
           \/ AddFirst(w) \/ AddSecond(w) \/ AcceptRelation(w) \/ DeleteRelation(w)
  <2>1. /\ messages' = messages /\ chat' = chat
        /\ Op(w) \in {"register", "add"} \/ (Op(w) \in {"accept", "delete"} /\ step[w] = 1)
    BY <1>4 DEF RegisterCheck, RegisterInsert, RegisterAnswer, AddFirst, AddSecond, AcceptRelation,
                DeleteRelation, At, tables
  <2> QED
    BY <1>1, <1>3, <2>1, OtherCounts DEF Writes
<1>5. CASE AcceptChat(w)
  <2>1. /\ messages' = messages /\ Op(w) = "accept" /\ step[w] \in {2, 3}
        /\ chat' = chat \/ \E row \in Pair : chat' = [chat EXCEPT ![row] = 0]
    BY <1>2, <1>5 DEF AcceptChat, At
  <2>2. chat'[p] <= 0 \/ chat'[p] = chat[p]
    BY <1>2, <2>1
  <2> QED
    BY <1>1, <1>3, <2>1, <2>2, OtherCounts
<1>6. CASE MessageOwnRow(w) \/ UpdateRow(w)
  <2>1. /\ messages' = messages
        /\ \/ Op(w) \in {"send", "accept"} /\ step[w] = 5
           \/ Op(w) = "update"
        /\ chat' = [chat EXCEPT ![Of(w)] = IF chat[Of(w)] = NoRow THEN NoRow ELSE 0]
    BY <1>6 DEF MessageOwnRow, UpdateRow, Sending, At
  <2>2. /\ chat'[p] <= 0 \/ chat'[p] = chat[p]
        /\ Of(w) = p => chat'[p] <= 0
    BY <1>2, <2>1 DEF NoRow
  <2> QED
    BY <1>1, <1>3, <2>1, <2>2, OtherCounts DEF Writes
<1>7. CASE DeleteChat(w)
  <2>1. /\ messages' = messages /\ Op(w) = "delete"
        /\ chat' = [r \in Pair |-> IF r \in Both(Of(w)) THEN NoRow ELSE chat[r]]
    BY <1>7 DEF DeleteChat, At
  <2>2. /\ chat'[p] <= 0 \/ chat'[p] = chat[p]
        /\ Of(w) \in Both(p) => chat'[p] <= 0
    BY <1>2, <2>1 DEF NoRow
  <2> QED
    BY <1>1, <1>3, <2>1, <2>2, OtherCounts DEF Writes
<1> QED
  BY <1>4, <1>5, <1>6, <1>7 DEF Statement

LEMMA InsertCounts ==
  ASSUME TypeOK, TypeOK', Unsent, NEW p \in Pair, CountSound(p), NEW w \in Workers,
         Statement(w), MessageInsert(w)
  PROVE  CountSound(p)'
<1>1. /\ made' = made /\ (Moves(w) \/ Quits(w)) /\ Busy(w)
      /\ \A v \in Workers : v # w => Stays(v)
  BY StatementMoves DEF Moves, Quits
<1>2. /\ chat' = chat /\ step[w] = 4 /\ Op(w) \in {"send", "accept"}
      /\ job[w] \in Keys /\ made[job[w]].pair = Of(w)
      /\ messages[job[w]] = "none"
  BY <1>1, BusyFacts DEF MessageInsert, Sending, At, Unsent, Of
<1>3. CASE messages' = messages /\ Quits(w)
  <2>1. Unread(p)' = Unread(p)
    BY <1>1, <1>3 DEF Unread, Received
  <2> QED
    BY <1>1, <1>2, <1>3, <2>1, OtherCounts DEF Moves, Quits
<1>4. CASE Continue(w) /\ \E s \in {"send", "received"} : messages' = [messages EXCEPT ![job[w]] = s]
  <2>1. /\ \A k \in Keys : k # job[w] => messages'[k] = messages[k]
        /\ messages'[job[w]] \in {"send", "received"}
    BY <1>2, <1>4 DEF TypeOK
  <2>2. /\ \A k \in 1..Len(made) : k \in Keys
        /\ job[w] \in 1..Len(made)
    <3>1. job[w] \in 1..Len(made) /\ Len(made) \in Nat /\ Len(made) <= MaxRequests
      BY <1>1, BusyFacts DEF TypeOK
    <3> QED
      BY <3>1, ChatStoreAssumption DEF Keys
  <2>3. job[w] \notin Unread(p)
    BY <1>2 DEF Unread
  <2>4. \A k : k # job[w] => (k \in Unread(p)' <=> k \in Unread(p))
    BY <1>1, <2>1, <2>2 DEF Unread, Received
  <2>5. Of(w) = Back(p) => job[w] \in Unread(p)'
    BY <1>1, <1>2, <2>1, <2>2 DEF Unread, Received
  <2>6. /\ Apart(p)'
        /\ \A v \in Workers : Writes(v, p)' => Writes(v, p) /\ job'[v] = job[v] /\ Of(v)' = Of(v)
        /\ \A v \in Workers : Clears(v, p)' => Clears(v, p) /\ Op(v)' = Op(v) /\ Of(v)' = Of(v)
    BY <1>1, ApartKept DEF CountSound
  <2>7. \A k \in InFlight(p)' : k \in InFlight(p) \/ (k = job[w] /\ Of(w) = Back(p))
    <3> SUFFICES ASSUME NEW v \in Workers, Flying(v, p)'
                 PROVE  job'[v] = job[v] /\ (Flying(v, p) \/ (v = w /\ Of(w) = Back(p)))
      BY DEF InFlight
    <3>1. v # w => step'[v] = step[v]
      BY <1>1 DEF Stays
    <3> QED
      BY <2>6, <3>1 DEF Flying
  <2>8. InFlight(p)' \subseteq Unread(p)'
    BY <2>3, <2>4, <2>5, <2>7 DEF CountSound
  <2>9. Settled(p) \subseteq Settled(p)'
    BY <2>3, <2>4, <2>7 DEF Settled
  <2>10. Cleared(p)'
    <3> SUFFICES ASSUME NEW v \in Workers, Clearing(v, p)' PROVE Clearing(v, p)
      BY <1>2 DEF Cleared, CountSound
    <3>1. v # w
      BY <1>2, <2>6 DEF Clearing, Clears
    <3> QED
      BY <1>1, <2>6, <3>1 DEF Clearing, Stays
  <2>11. chat'[p] = chat[p] /\ chat[p] \in Int
    BY <1>2 DEF TypeOK, NoRow
  <2> QED
    BY <2>6, <2>8, <2>9, <2>10, <2>11, CountKept DEF CountSound
<1> QED
  <2>1. \/ Answer(w, "error") /\ messages' = messages
        \/ Continue(w) /\ \E s \in {"send", "received"} : messages' = [messages EXCEPT ![job[w]] = s]
    BY DEF MessageInsert
  <2>2. Answer(w, "error") => Quits(w)
    BY <1>1, Leaves DEF Answer, history, Moves
  <2> QED
    BY <1>3, <1>4, <2>1, <2>2

\* The count goes up when a message in flight settles.
LEMMA PeerCounts ==
  ASSUME TypeOK, TypeOK', NEW p \in Pair, CountSound(p), NEW w \in Workers,
         Statement(w), MessagePeerRow(w)
  PROVE  CountSound(p)'
<1>1. /\ made' = made /\ (Moves(w) \/ Quits(w)) /\ Busy(w)
      /\ \A v \in Workers : v # w => Stays(v)
  BY StatementMoves DEF Moves, Quits
<1>2. /\ messages' = messages /\ step[w] = 6 /\ Op(w) \in {"send", "accept"}
      /\ chat' = [chat EXCEPT ![Back(Of(w))] = IF @ = NoRow THEN NoRow ELSE @ + 1]
      /\ job' = [job EXCEPT ![w] = 0] /\ step' = [step EXCEPT ![w] = 1]
  BY DEF MessagePeerRow, Answer, Tell, Sending, At
<1>3. Unread(p)' = Unread(p)
  BY <1>1, <1>2 DEF Unread, Received
<1>4. Of(w) \in Pair /\ Back(Of(w)) \in Pair /\ (Back(Of(w)) = p => Of(w) = Back(p))
  BY <1>1, BusyFacts, BackFacts
<1>5. chat \in [Pair -> Nat \cup {NoRow}] /\ chat[p] \in Int /\ chat'[p] \in Int
  BY DEF TypeOK, NoRow
<1>6. Quits(w)
  BY <1>1, <1>2, BusyFacts DEF Moves, TypeOK
<1>7. CASE Back(Of(w)) # p \/ chat[p] = NoRow
  <2>1. chat'[p] <= 0 \/ chat'[p] = chat[p]
    BY <1>2, <1>4, <1>5, <1>7 DEF NoRow
  <2> QED
    BY <1>1, <1>2, <1>3, <1>6, <2>1, OtherCounts DEF Moves, Quits
<1>8. CASE Back(Of(w)) = p /\ chat[p] # NoRow
  <2>1. chat'[p] = chat[p] + 1
    BY <1>2, <1>5, <1>8
  <2>2. Flying(w, p) /\ Writes(w, p)
    BY <1>1, <1>2, <1>4, <1>8, BackFacts DEF Flying, Writes, Both
  <2>3. job[w] \in InFlight(p) /\ job[w] \in Unread(p)
    BY <2>2 DEF InFlight, CountSound
  <2>4. /\ Apart(p)'
        /\ \A v \in Workers : Writes(v, p)' => Writes(v, p) /\ job'[v] = job[v] /\ Of(v)' = Of(v)
        /\ \A v \in Workers : Clears(v, p)' => Clears(v, p) /\ Op(v)' = Op(v) /\ Of(v)' = Of(v)
    BY <1>1, ApartKept DEF CountSound
  <2>5. InFlight(p)' \subseteq InFlight(p) /\ job[w] \notin InFlight(p)'
    <3> SUFFICES ASSUME NEW v \in Workers, Flying(v, p)'
                 PROVE  Flying(v, p) /\ job'[v] = job[v] /\ job'[v] # job[w]
      BY DEF InFlight
    <3>1. v # w
      BY <1>6 DEF Flying, Writes, Quits
    <3>2. Flying(v, p) /\ job'[v] = job[v]
      BY <1>1, <2>4, <3>1 DEF Flying, Stays
    <3>3. job[v] # job[w]
      BY <1>1, <3>1, BusyFacts DEF TypeOK
    <3> QED
      BY <3>2, <3>3
  <2>6. InFlight(p)' \subseteq Unread(p)'
    BY <1>3, <2>5 DEF CountSound
  <2>7. Settled(p) \subseteq Settled(p)' /\ job[w] \in Settled(p)' /\ job[w] \notin Settled(p)
    BY <1>3, <2>3, <2>5 DEF Settled
  <2>8. Cleared(p)'
    BY <2>2, <2>4 DEF Cleared, Clearing, CountSound, Apart
  <2>9. chat'[p] <= Cardinality(Settled(p)')
    BY <1>5, <2>1, <2>7, CountKept
  <2> QED
    BY <2>4, <2>6, <2>8, <2>9 DEF CountSound
<1> QED
  BY <1>7, <1>8

\* Messages are cleared of a pair whose count is nothing already.
LEMMA ClearedCounts ==
  ASSUME TypeOK, TypeOK', NEW p \in Pair, CountSound(p), NEW w \in Workers,
         Statement(w), DeleteMessages(w) \/ UpdateMessages(w)
  PROVE  CountSound(p)'
<1>1. /\ made' = made /\ (Moves(w) \/ Quits(w)) /\ Busy(w)
      /\ \A v \in Workers : v # w => Stays(v)
      /\ chat' = chat
  BY StatementMoves DEF Moves, Quits, DeleteMessages, UpdateMessages
<1>2. Quits(w)
  <2>1. \E what : Answer(w, what)
    BY DEF DeleteMessages, UpdateMessages
  <2> QED
    BY <1>1, <2>1, Leaves DEF Answer, history, Moves
<1>3. Of(w) \in Pair /\ \A k \in 1..Len(made) : k \in Keys
  <2>1. Of(w) \in Pair /\ Len(made) \in Nat /\ Len(made) <= MaxRequests
    BY <1>1, BusyFacts DEF TypeOK
  <2> QED
    BY <2>1, ChatStoreAssumption DEF Keys
<1>4. chat[p] \in Int
  BY DEF TypeOK, NoRow
<1>5. CASE Clearing(w, p)
  <2>1. chat'[p] <= 0
    BY <1>1, <1>5 DEF CountSound, Cleared
  <2>2. /\ Apart(p)'
        /\ \A v \in Workers : Writes(v, p)' => Writes(v, p)
    BY <1>1, ApartKept DEF CountSound
  <2>3. InFlight(p)' = {}
    BY <1>5, <2>2 DEF InFlight, Flying, Clearing, CountSound, Apart
  <2>4. chat'[p] <= Cardinality(Settled(p)')
    BY <2>1, CountKept
  <2> QED
    BY <2>1, <2>2, <2>3, <2>4 DEF CountSound, Cleared
<1>6. CASE ~Clearing(w, p)
  <2>1. Unread(p)' = Unread(p)
    <3>1. CASE DeleteMessages(w)
      <4>1. /\ messages' = [k \in Keys |-> IF k \in Between(w) THEN "delete" ELSE messages[k]]
            /\ Op(w) = "delete" /\ step[w] = 3
        BY <3>1 DEF DeleteMessages, At
      <4>2. Of(w) \notin Both(p)
        BY <1>1, <1>6, <4>1 DEF Clearing, Clears
      <4>3. Back(p) \notin Both(Of(w))
        BY <1>3, <4>2, BothFacts, BackFacts DEF Both
      <4>4. \A k \in 1..Len(made) : made[k].pair = Back(p) => messages'[k] = messages[k]
        BY <1>3, <4>1, <4>3 DEF Between
      <4> QED
        BY <1>1, <4>4 DEF Unread, Received
    <3>2. CASE UpdateMessages(w)
      <4>1. /\ messages' = [k \in Keys |-> IF k \in Received(Of(w)) THEN "read" ELSE messages[k]]
            /\ Op(w) = "update" /\ step[w] = 2
        BY <3>2 DEF UpdateMessages, At
      <4>2. Of(w) # p
        BY <1>1, <1>6, <4>1 DEF Clearing, Clears, Both
      <4>3. Back(p) # Back(Of(w))
        BY <1>3, <4>2, BackFacts
      <4>4. \A k \in 1..Len(made) : made[k].pair = Back(p) => messages'[k] = messages[k]
        BY <1>3, <4>1, <4>3 DEF Received
      <4> QED
        BY <1>1, <4>4 DEF Unread, Received
    <3> QED
      BY <3>1, <3>2
  <2> QED
    BY <1>1, <1>2, <2>1, OtherCounts DEF Moves, Quits
<1> QED
  BY <1>5, <1>6

\* Who would write to a count that is being cleared slips, and conversely.
LEMMA BeginCounts ==
  ASSUME TypeOK, TypeOK', Unsent, NEW p \in Pair, CountSound(p), NEW w \in Workers, Begin(w),
         p \notin slipped'
  PROVE  CountSound(p)'
<1>1. PICK r \in Request : Begins(w, r)
  BY BeginMoves
<1>2. \A v \in Workers : v # w => Stays(v)
  BY BeginMoves
<1>3. /\ ~Writes(w, p) /\ ~Clears(w, p)
      /\ Op(w)' = r.op /\ Of(w)' = r.pair
      /\ (step'[w] = 4 \/ step'[w] = 1)
      /\ slipped' = IF CountsCollide(r.op, r.pair) THEN slipped \cup Both(r.pair) ELSE slipped
      /\ UNCHANGED <<chat, messages>>
  BY <1>1 DEF Begins, Writes, Clears, tables
<1>4. \A v \in Workers : v # w => /\ Writes(v, p)' <=> Writes(v, p)
                                  /\ Clears(v, p)' <=> Clears(v, p)
                                  /\ Flying(v, p)' <=> Flying(v, p)
                                  /\ Clearing(v, p)' <=> Clearing(v, p)
                                  /\ job'[v] = job[v]
  BY <1>2 DEF Stays, Writes, Clears, Flying, Clearing
<1>5. ~Flying(w, p)' /\ ~Clearing(w, p)'
  BY <1>3 DEF Flying, Clearing
<1>6. Apart(p)'
  <2>1. ASSUME r.pair \in Both(p)
        PROVE  ~CountsCollide(r.op, r.pair) /\ Both(r.pair) = Both(p)
    <3>1. Both(r.pair) = Both(p) /\ p \in Both(p)
      BY <2>1, BothFacts DEF Both
    <3> QED
      BY <1>3, <3>1
  <2>2. ASSUME NEW v \in Workers, v # w, Writes(w, p)', Clears(v, p) PROVE FALSE
    <3>1. r.pair \in Both(p) /\ r.op \in {"send", "accept"}
      BY <1>3, <2>2 DEF Writes
    <3>2. Meets(r.pair, {"update", "delete"})
      BY <2>1, <2>2, <3>1 DEF Meets, Clears
    <3> QED
      BY <2>1, <3>1, <3>2 DEF CountsCollide
  <2>3. ASSUME NEW v \in Workers, v # w, Clears(w, p)', Writes(v, p) PROVE FALSE
    <3>1. r.pair \in Both(p) /\ r.op \in {"update", "delete"}
      BY <1>3, <2>3 DEF Clears
    <3>2. Meets(r.pair, {"send", "accept"})
      BY <2>1, <2>3, <3>1 DEF Meets, Writes
    <3> QED
      BY <2>1, <3>1, <3>2 DEF CountsCollide
  <2>4. ~(Writes(w, p)' /\ Clears(w, p)')
    BY DEF Writes, Clears
  <2> QED
    BY <1>4, <2>2, <2>3, <2>4 DEF Apart, CountSound
<1>7. Unread(p) \subseteq Unread(p)'
  BY <1>1, <1>3 DEF Begins, Unread, Received
<1> QED
  BY <1>3, <1>4, <1>5, <1>6, <1>7, CountQuiet

LEMMA UnsentKept ==
  ASSUME TypeOK, TypeOK', Unsent, [Next]_vars
  PROVE  Unsent'
<1>0. Len(made) \in Nat /\ \A v \in Workers : step[v] \in 1..6 /\ (Busy(v) => job[v] \in 1..Len(made))
  BY LenProperties, BusyFacts DEF TypeOK
<1>1. ASSUME NEW w \in Workers, Statement(w) PROVE Unsent'
  <2>1. /\ made' = made /\ (Moves(w) \/ Quits(w)) /\ Busy(w)
        /\ \A v \in Workers : v # w => Stays(v)
    BY <1>1, StatementMoves DEF Moves, Quits
  <2>2. ASSUME NEW k \in Keys, messages[k] = "none"
        PROVE  messages'[k] = "none" \/ (k = job[w] /\ step[w] = 4)
    <3>1. CASE MessageInsert(w)
      <4>1. step[w] = 4 /\ (messages' = messages \/ \E s \in {"send", "received"} :
                              messages' = [messages EXCEPT ![job[w]] = s])
        BY <3>1 DEF MessageInsert, Sending, At
      <4> QED
        BY <2>2, <4>1 DEF TypeOK
    <3>2. CASE DeleteMessages(w)
      BY <2>2, <3>2 DEF DeleteMessages, Between
    <3>3. CASE UpdateMessages(w)
      BY <2>2, <3>3 DEF UpdateMessages, Received
    <3>4. CASE messages' = messages
      BY <2>2, <3>4
    <3> QED
      BY <1>1, <3>1, <3>2, <3>3, <3>4
         DEF Statement, RegisterCheck, RegisterInsert, RegisterAnswer, AddFirst, AddSecond,
           AcceptRelation, AcceptChat, MessageOwnRow, MessagePeerRow,
           DeleteRelation, DeleteChat, UpdateRow, tables
  <2>3. \A k \in Keys : k > Len(made') => messages'[k] = "none"
    BY <1>0, <2>1, <2>2 DEF Unsent
  <2>4. ASSUME NEW v \in Workers, Busy(v)', Op(v)' \in {"send", "accept"}, step'[v] <= 4
        PROVE  messages'[job'[v]] = "none"
    <3>1. CASE v = w
      <4>1. /\ step[w] <= 3 /\ job'[w] = job[w] /\ Busy(w) /\ Op(w) \in {"send", "accept"}
            /\ job[w] \in Keys
        BY <1>0, <2>1, <2>4, <3>1, BusyFacts DEF Moves, Quits
      <4> QED
        BY <1>0, <2>2, <3>1, <4>1 DEF Unsent
    <3>2. CASE v # w
      <4>1. /\ step[v] <= 4 /\ job'[v] = job[v] /\ Busy(v) /\ Op(v) \in {"send", "accept"}
            /\ job[v] \in Keys /\ job[v] # job[w]
        BY <2>1, <2>4, <3>2, BusyFacts DEF Stays, TypeOK
      <4> QED
        BY <2>2, <4>1 DEF Unsent
    <3> QED
      BY <3>1, <3>2
  <2> QED
    BY <2>3, <2>4 DEF Unsent
<1>2. ASSUME NEW w \in Workers, Begin(w) PROVE Unsent'
  <2>1. PICK r \in Request : Begins(w, r)
    BY <1>2, BeginMoves
  <2>2. /\ messages' = messages /\ Len(made') = Len(made) + 1 /\ job'[w] = Len(made) + 1
        /\ Len(made) + 1 \in Keys
    BY <2>1 DEF Begins, tables
  <2>3. \A v \in Workers : v # w => Stays(v)
    BY <1>2, BeginMoves
  <2> QED
    BY <1>0, <2>2, <2>3 DEF Unsent, Stays, Keys
<1>3. ASSUME NEW w \in Workers, Fail(w) PROVE Unsent'
  <2>1. made' = made /\ messages' = messages /\ Quits(w) /\ \A v \in Workers : v # w => Stays(v)
    BY <1>3, FailMoves DEF Fail, tables
  <2> QED
    BY <2>1 DEF Unsent, Quits, Stays
<1>4. ASSUME UNCHANGED <<messages, made, job, step>> PROVE Unsent'
  BY <1>4 DEF Unsent, Busy, Op
<1> QED
  BY <1>1, <1>2, <1>3, <1>4 DEF Next, ListFriends, vars, tables, history

LEMMA CountStep ==
  ASSUME TypeOK, TypeOK', Unsent, CountInv, [Next]_vars
  PROVE  CountInv'
<1> SUFFICES ASSUME NEW p \in Pair, p \notin slipped' PROVE CountSound(p)'
  BY DEF CountInv
<1>1. slipped \subseteq slipped'
  <2>1. ASSUME NEW w \in Workers, Statement(w) PROVE slipped' = slipped
    BY <2>1, StatementMoves
  <2> QED
    BY <2>1 DEF Next, Begin, Fail, ListFriends, vars, history
<1>2. CountSound(p)
  BY <1>1 DEF CountInv
<1>3. ASSUME NEW w \in Workers, Statement(w) PROVE CountSound(p)'
  BY <1>2, <1>3, StoresOther, InsertCounts, PeerCounts, ClearedCounts
<1>4. ASSUME NEW w \in Workers, Fail(w) PROVE CountSound(p)'
  <2>1. /\ UNCHANGED <<chat, messages, made>> /\ Quits(w) /\ Busy(w)
        /\ \A v \in Workers : v # w => Stays(v)
    BY <1>4, FailMoves DEF Fail, tables
  <2>2. Unread(p)' = Unread(p)
    BY <2>1 DEF Unread, Received
  <2> QED
    BY <1>2, <2>1, <2>2, OtherCounts DEF Moves, Quits
<1>5. ASSUME UNCHANGED <<chat, messages, made, job, step>> PROVE CountSound(p)'
  BY <1>2, <1>5 DEF CountSound, Apart, Cleared, Settled, InFlight, Unread, Received, Writes, Clears,
                    Flying, Clearing, Busy, Op, Of
<1> QED
  BY <1>2, <1>3, <1>4, <1>5, BeginCounts DEF Next, ListFriends, vars, tables, history

(***************************************************************************)
(* For any users and workers: an unread count never exceeds the stored     *)
(* messages not read yet, unless a clearing request met a writing one.     *)
(***************************************************************************)
THEOREM UnreadIsBacked == Spec => []UnreadBacked
<1>1. Init => TypeOK
  BY InitTyped
<1>2. Init => Unsent /\ CountInv
  <2> SUFFICES ASSUME Init PROVE Unsent /\ CountInv
    OBVIOUS
  <2>1. \A w \in Workers : ~Busy(w)
    BY DEF Init, Busy
  <2>2. Unsent
    BY <2>1 DEF Init, Unsent
  <2>3. ASSUME NEW p \in Pair PROVE CountSound(p)
    <3>1. InFlight(p) = {} /\ Apart(p) /\ Cleared(p)
      BY <2>1 DEF InFlight, Flying, Apart, Cleared, Clearing, Writes, Clears
    <3>2. chat[p] <= 0 /\ chat[p] \in Int
      BY DEF Init, NoRow
    <3>3. Cardinality(Settled(p)) \in Nat
      BY <1>1, UnreadSmall, SmallSets
    <3> QED
      BY <3>1, <3>2, <3>3 DEF CountSound
  <2> QED
    BY <2>2, <2>3 DEF CountInv
<1>3. TypeOK /\ TypeOK' /\ Unsent /\ CountInv /\ [Next]_vars => Unsent' /\ CountInv'
  BY UnsentKept, CountStep
<1>4. TypeOK /\ CountInv => UnreadBacked
  <2> SUFFICES ASSUME TypeOK, NEW p \in Pair, CountSound(p) PROVE chat[p] <= Cardinality(Unread(p))
    BY DEF CountInv, UnreadBacked
  <2>1. /\ Len(made) \in Nat /\ Settled(p) \in SUBSET (1..Len(made))
        /\ Unread(p) \in SUBSET (1..Len(made)) /\ Settled(p) \subseteq Unread(p)
    BY UnreadSmall DEF Settled, Unread, Received
  <2>2. /\ Cardinality(Settled(p)) \in Nat /\ Cardinality(Unread(p)) \in Nat
        /\ Cardinality(Settled(p)) <= Cardinality(Unread(p))
    BY <2>1, SmallSets
  <2>3. chat[p] \in Int /\ chat[p] <= Cardinality(Settled(p))
    BY DEF TypeOK, NoRow, CountSound
  <2> QED
    BY <2>2, <2>3
<1> QED
  BY <1>2, <1>3, <1>4, TypeCorrect, PTL DEF Spec
=============================================================================
