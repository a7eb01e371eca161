# A TLA+ model of ChatSystem-Server

This directory holds TLA+ modules that model the chat server of this repository
(`src/MyChatServer`), the TLC configurations that check them on small instances,
and theorems about nine components that TLAPS checks for every value of the
constants. Paths below are relative to `src/MyChatServer` unless they begin with
`src/`.

## 1. The system

The process (`main.cpp`) is one MainReactor thread, three SubReactor threads,
and for every SubReactor a pool of 150 workers. What the makefile builds:

| Component | State | Operations | Talks to |
|---|---|---|---|
| MainReactor (`MainReactor/`) | listening socket, the SubReactors | constructor, `run`, `assign_connection` | creates SubReactors and `chat_conn`s |
| SubReactor (`SubReactor/`) | epoll instance, `conn_count`, its pool | `init`, `startServer`, `stopServer` | calls `receive`, `write`, `removeUser` of the connection an event is about |
| ThreadPool (`ThreadPool/ThreadPool.h`) | task queue, `stop`, workers | `submit`, worker loop, destructor | runs the strand's lambdas |
| chat_conn, the strand (`ChatConn/`) | `msg_queue`, `is_processing` | `push_message`, `submit_next` | called by the reactor and by workers |
| chat_conn, receiving | `m_read_buf`, `m_read_idx` | `receive`, `parse_messages` | pushes messages into the strand |
| chat_conn, answering | `m_write_buf`, `sendMessage`, `write_lock`, epoll interest | `handle_message`, `process_write`, `write`, `writeInit`, `sendMessage_Mysql` | shared by the reactor, its own worker and workers of other connections |
| connection_pool (`MysqlConnectPool/`) | list, counters, semaphore, mutex | `init`, `GetConnection`, `ReleaseConnection`, `DestroyPool` | all workers of all SubReactors |
| ChatMapping (`ChatMapping/`) | user id to connection | add, look up, remove | login, `sendMessage_Mysql`, `removeUser` |
| Log, block_queue (`log/`) | bounded ring, file | `write_log`, the writer thread | everybody |
| DBTaskQueue, `dbWriterLoop` | queue of SQL | `push`, `popBatch` | its threads are commented out |
| stored procedures (`src/sql`) | tables | `AddFriend`, `UpdateFriend`, ... | the database functions of chat_conn |

Not built: `ChatServer/`, `ThreadPool/threadpool*`, `LockFreeThreadPool.h`,
`lock/LockFreeQueue.h`, `MySqlTaskQueue.*`, `ChatConn/Conn.*`. `timer/lst_timer.h`
is included and not used; `json.hpp` is vendored.

Life of a request: epoll reports EPOLLIN once (EPOLLONESHOT); the SubReactor
runs `receive`, which reads all there is, cuts it into frames and pushes each
into the strand; a worker pops it, runs `handle_message`, which asks the database
with a pooled connection, writes the answer into the one write buffer and arms
EPOLLOUT; the SubReactor runs `write`, which sends the buffer and arms EPOLLIN
again. A `send_message` to a user who is online writes into the *receiver's*
buffer and arms the receiver's EPOLLOUT, from the sender's worker.

What is hard: four kinds of threads meet in one `chat_conn`, under two mutexes
that protect less than a whole operation; the epoll interest is one-shot and
overwritten by each `modfd`; the strand hands a connection from worker to worker
by a flag; a semaphore, a list and two counters must agree across three `init`
calls; and the process ends while workers run. `hazards` in `PROJECT.json` lists
each such place with its line and the property that covers it.

What makes each component correct, in one sentence:

- **ThreadPool**: every submitted task runs exactly once, none is slept through, and the destructor drains and returns.
- **strand**: messages of a connection are handled one at a time, in order, and none is left behind.
- **connection_pool**: a worker past the semaphore finds a connection, nobody shares one, capacity is never lost.
- **receiving**: the buffer always begins at a frame; a pushed message is exactly one frame; every frame is pushed, also when the client closes behind its last one.
- **answering**: every request is heard, gets its own answer once and in order; a pushed message reaches the user; the reactor never blocks.
- **routing**: a message goes to the connection its receiver is logged in on, never to a closed or reused one.
- **dispatch**: a new socket is non-blocking before it is read; the load is spread; a hang-up is noticed.
- **log**: every line logged is written once, in order, to the file of its time.
- **store**: a friendship looks the same from both sides, unread counts are backed by messages, an answer says what happened.
- **database writer**: a statement pushed is applied, once, and in order.

## 2. Modules

```
TaskPool  <--implements--  ThreadPool         (ThreadPool_proofs)
   ^
   | INSTANCE
ConnStrand --implements--> SerialQueue        (ConnStrand_proofs)

AsyncLog  --implements-->  LineQueue          (AsyncLog_proofs, MCAsyncLog)

Sessions                                      (Sessions_proofs, MCSessions)
ConnPool                                      (ConnPool_proofs)
FrameReceiver, ConnIO                         (Connection_proofs)
ChatStore                                     (ChatStore_proofs, MCChatStore)
DbWriter                                      (DbWriter_proofs)
```

**ThreadPool.tla** models `ThreadPool.h`. What `mtx` protects is read and
written inside one critical section, so a critical section is one step;
`notify_one` after a push, `notify_all` after `stop`, and the task itself are
outside the lock and are steps of their own. `cv.wait` with its predicate is
`EnterWait`, `TakeTask` and `Exit`, all from "ready": a woken worker tests again.
`SpuriousWake` is allowed. Tasks may submit tasks (`NestedSubmit`), as the strand's
lambda does. `wtask` is the local `task`. **TaskPool.tla** is what callers may
rely on: append, take the oldest, finish.

**ConnStrand.tla** models `push_message`, `submit_next` and its lambda for all
connections of a SubReactor, over `TaskPool` (INSTANCE), so that it rests on what
`ThreadPool` is shown to implement. `reactor` is the connection between the
locked part of `push_message` and its call of `submit_next`; a worker goes
"entered" (before the lambda's critical section), "handling", "resubmit",
"leaving". `birth` remembers what `is_processing` held in a fresh object: the
constructor does not assign it. **SerialQueue.tla** is the promise: a queue per
connection, one message in service.

**ConnPool.tla** models the singleton `connection_pool`. `sem_wait`, the locked
section and `sem_post` are separate steps. `init` runs once per SubReactor and
holds the mutex while it opens connections one by one; `mysql_real_connect` may
fail, and `exit(1)` then leaves the mutex held (`lock`). The static destructor is
`DestroyPool`; `MainReactor::run` can return only if `epoll_wait` fails
(`LeaveRun`). Using an empty `std::list` is undefined and taken as a crash
(`PopEmpty`). Counters are unsigned (`UIntMod`).

**FrameReceiver.tla** models `receive` and `parse_messages`. Bytes are positions
in the client's stream: no byte values, since only lengths decide. `stream` is what
this client sends, as the positions where its frames end; it is chosen at the start
and never changes. One `recv`
and one turn of the parsing loop are one step each. The worker is reduced to
`Answer`: at some time after the push EPOLLIN is armed again. `add_fd` registers the
socket with epoll and makes it non-blocking only then, on the main thread
(`SetNonblocking`): a SubReactor that is faster finds `recv` blocking once the data
is read (`RecvBlocks`), and stays in it, with every connection it serves, until this
client sends more. The client may close or reset the connection at any moment (`HangUp`;
`link`). If its interest is on when the reactor gets to it, the hang-up is tested before
EPOLLIN and the connection removed (`RemoveOnHangUp`). If `receive` is already under way,
`recv` ends with 0 or an error (`RecvClosed`, `RecvFails`) instead of EAGAIN, and `receive`
returns before `parse_messages`: complete frames stay in the buffer, with the interest off.

**ConnIO.tla** models `write`, `writeInit`, the control of `handle_message`,
`process_read` and `process_write`, and the part of `sendMessage_Mysql` that
touches the peer. Each locked section of `write_lock` and each `modfd` is a step.
A buffer holds a whole message or nothing; requests are whole frames (see
FrameReceiver), handled in order by one worker (see ConnStrand: `HandlingIsSerial`
and `HandlingIsInOrder` are why one worker counter is enough). `leaked` says that
`write` has returned without unlocking.

**Sessions.tla** models a connection from `accept` to `close` and the directory
that routes chat messages: `assign_connection`, the dispatch of a SubReactor's
events by epoll's pointer, the login of `getMysql_UserResult`, `getSocketByUserId`
and the push, and `removeUser`. The kernel names a socket by the lowest free
number; `holder` is what a number stands for now, `fdOf` (`m_sockfd`) what a
`chat_conn` believes, and `reg` what epoll keeps of the number: the instance, the
pointer, the one-shot interest. The three part when a number is handed out again,
and then a message can go astray. `epoll_wait` and the handling of what it reports are separate steps: `Poll` hands a reactor
a batch of events (`event`) and turns their one-shot interest off; until an event is
handled, its client may go on sending or hang up, and workers may switch the interest.
`Receive` then reads what there is. If the client has hung up since the report,
`receive` returns before it parses (`ReceiveCut`): the requests stay in `readBuf`. `Write`,
`SendBlocks` and `SendFails` are the ways through `write`; the latter two return with
`write_lock` held (`leaked`), and whoever needs the lock afterwards waits for ever.
`receive`, `write`, and the end of `process_write` with its
`modfd`, are one step each (FrameReceiver and ConnIO look inside them), as are `accept` and
`add_fd`.
A login stores the user's id in `User` and a few statements later "active"
(`Login`, `SetActive`), because `removeUser` on the reactor's thread may read it in
between. `awaiting`, `pipelined`, `loggedIn`, `lastLogin` and `got` are history.

**AsyncLog.tla** models the singleton `Log` with its `block_queue`, asynchronous as
MainReactor sets it up. `write_log` is a sequence of locked sections: `CountLine`
(count the line, change files at midnight or after `m_split_lines`), `TestFull`, then
`Push`, `PushRefused` or `WriteDirect`. The log thread is `LogWait`, `LogPop`,
`LogWrite`, with spurious wake-ups (`LogWakes`). The ring keeps its array and indices.
A file is a day and a number. `m_today` is not a day: it keeps `tm_mday`, the day of the
month (`MonthDay`), and so `CountLine` may take a day of another month for today. What a file's name is built from is left out (`init` without
a directory leaves `dir_name` and `log_name` unset). `Exit` is the static destructor.
`raced`, `late`, `monthApart`, `written` and `dropped` are history. **LineQueue.tla** is the promise:
a bounded FIFO that lines of a full queue bypass.

**ChatStore.tla** models the requests that write to the database, through
`setMysql_UserResult`, `modifyFriend_Mysql`, `sendMessage_Mysql` and `updateChat_Mysql`,
and the stored procedures of `src/sql/animalchat.sql`. Nothing opens a
transaction, so a statement is a step and the requests of two workers interleave
between statements. The tables keep what the properties need: who exists, the
relation of an ordered pair, its chat row with the unread count, the status of every
message. A statement fails on a primary or foreign key, or for the database's own
reasons (`Fail`), and the request ends there. `Tell` is the answer: `modifyFriend_Mysql`
counts the rows of a procedure's last statement, and after a push to an online user
the sender's answer may be left out (outcome "unsaid"; ConnIO has the flag). Requests name
any pair, except that a client accepts what its friend list showed (`ListFriends`).
`torn` and `slipped` are history: pairs on which requests ran into each other.

**DbWriter.tla** models `DBTaskQueue` and `SubReactor::dbWriterLoop`: batches,
repetition of failed statements at the end of the queue, and a failure that may
come after the statement was applied. The threads that would run the loop are
commented out and nothing pushes yet; the module is about the loop as it is written.

**Queues.tla** has two definitions about the entries of a `std::queue` that several
proofs share. A `_proofs` module extends the module it is about; *Connection_proofs* is
about both halves of a `chat_conn`'s traffic and extends both, which is why the
definitions of FrameReceiver that every specification has carry `Receiver` in their
names (`ReceiverInit`, `ReceiverNext`, `ReceiverSpec`, `FairReceiverSpec`).

## 3. Runs

All bounds are constants in the `.cfg` files. Deadlock is not reported in any
run: a server with nothing to do may stop, and the bounds stop every model.

| Run | Instance | Question and result |
|---|---|---|
| ThreadPool | 3 workers, 3 tasks | `NoSleepWithWork`, `DrainedAtJoin`, `NothingHangs`, and that it implements TaskPool: hold |
| ConnStrand | 2 connections of either birth flag, 3 workers, 3 messages each | `FlagAndPermission`, `PushedIsHandled`, and that it implements SerialQueue: hold |
| ConnPool | 3 workers, 2 inits of 2 connections, 2 requests each | `PoolIntact`, `HandlesSafe`, `RequestServed`: hold |
| FrameReceiver | 3 frames, body shorter than, longer than the header, or too long for the buffer; header 2, buffer 9; the client may hang up at any byte | `BufferSound`, `SplitExactly`, `TurnsAreServed`, `TurnsAreAttended`: hold |
| FrameDeaf | 2 frames, buffer larger than both | `FrameArrives` fails: after half a frame nobody arms EPOLLIN |
| ConnIO | 3 requests of any of 5 kinds, 1 push, failing send | `WireSound`, `NeverWedged`, `HeardAndAnswered`: hold |
| ConnIOBlocked | 2 requests, send may block | `ReactorReturns` fails: `write_lock` is never unlocked |
| Sessions | 4 clients, 2 logins, 2 socket numbers, 2 SubReactors, 2 users, 1 message, sends that block or fail | `FreshNumbersRouteRight`, `LastLoginReachable`, `HangUpsNoticed`: hold |
| SessionsStale | 2 clients, 2 logins, 2 numbers, 1 SubReactor | `OnlyToReceiver` fails: the message goes to the client that has the number now |
| AsyncLog | 3 threads, 3 lines, queue of 2, a new file every 2 lines, 3 days of a calendar with two-day months | `FilesInOrder`, `EachLineHasItsFate`, `LinesComeOut`, and that it implements LineQueue: hold |
| ChatStore | 2 users, 2 workers, 3 requests of any kind, failing statements | `FriendshipWhole`, `UnreadBacked`, `OneWinner`, `AnswersAreTrue`: hold |
| DbWriter | 2 writers, batches of 2, 4 statements, 2 failures | `RepeatedOnlyUnanswered`, `InOrderOfOneWriter`, `EveryPushApplied`: hold |

A name in the table may stand for several conjuncts: `FlagAndPermission` is one lambda
per connection and a truthful flag; `PoolIntact` is list, counters and permits
agreeing; `HandlesSafe` no handle shared or closed in use; `BufferSound` an aligned
buffer with nothing complete left in it while the client is there; `NothingHangs` that tasks run
(`TaskEventuallyRuns`) and that the destructor returns (`ShutdownCompletes`); `HeardAndAnswered`
the two of its name; `EachLineHasItsFate` includes `RefusedOnlyByRace`; `WireSound` replies sent once, in order, and
never empty.

Why the bounds are enough. *ThreadPool*: three workers allow one asleep, one
running and one between; three tasks allow a queue, a nested submit and an
outside one at the same time. *ConnStrand*: two connections compete for
workers, a third worker is free to take a second lambda of either if there were
one, and the third message arrives in the window where the flag is about to
fall. *ConnPool*: three workers compete for two permits while the list holds
four connections; the second request of a worker follows a release. *Frame-
Receiver*: only the order of header length, body length and buffer size matters
to the code's tests, so 2 and 9 stand for 4 and 2048; bodies of 1, 4 and 8 give a
frame that ends inside the header of the next, a frame that spans a full buffer,
and one that never fits, and with `StreamLen` 30 no combination of three is left out.
*ConnIO*: two requests and one push meet in the one
buffer, the third request shows what state they leave. *Sessions*: with two
numbers the third and fourth client get one that a closed `chat_conn` still
believes its own, while the other belongs to a client of another SubReactor or the
same; two logins are enough for a user to come back on a second connection, for
two users to share one, and for a client to send the second before the first is
answered; events of both numbers are in one batch or in two; one message is in flight
between look-up and push while any of this happens. Users are symmetric (`MCSessions`): nothing tells them apart. *AsyncLog*:
threads race between `full` and `push` for the last of two slots, or at midnight, while a
third is between any two steps; with three lines the ring wraps around, a line is written
directly, and a second file of the day is opened. In `TwoDayMonths` the third day is the
first of the month, as day 1 was; a line of day 2 tells a server that logged in between from
one that did not. *ChatStore*: what the procedures do concerns one
pair, so two users are enough; two workers collide, and the third request comes
before, beside or after both; it starts with no friendships or with the two as
friends, which stands for the requests that made them so. *DbWriter*: two batches of
two are in hand at once, and two failures repeat a statement twice or two of them.

In most of these models part of what one would like to hold does not. There the
passing run states a hypothesis under which it does, as a formula over the behaviour
and not as a setting of the model: `SplitExactly` for
streams never split in the last bytes of a frame, `TurnsAreServed` and `TurnsAreAttended`
for a client that waits for each answer and does not hang up before the last one, `Heard`
and `Answered` for one that waits while nobody else writes to it,
`FreshNumbersRouteRight` until a socket number is handed out twice, and
`LastLoginReachable` and `HangUpsNoticed` until somebody is sent a message or a
client sends a request before its last one is answered (`Undisturbed`). Both
really break them. They turn on the interest of a connection whose login is on a
worker: `removeUser` can then find the user's id in `User` and erase the entry of
that user's newer connection, and it can close a number that the worker's `modfd`
afterwards takes from the next client. A push through a stale entry hands the
events of a new client to the old `chat_conn`. Undisturbed, no worker touches a
connection whose interest is on, which is also why `write` and the end of
`process_write` may be one step each there; otherwise `write` can meet an empty
buffer between those steps and leave the socket unwatched, which is ConnIO's
subject (`Heard`).

`HangUpsNoticed` needs two more: that no `write` has returned with `write_lock` held
(`leaked`), for then the worker with the next answer never turns the interest on, nor does
a `write` whose `send` failed; and that `receive` has left no request unparsed (`readBuf`).
The latter is the hang-up that comes after the report and before the end of `recv`'s loop.
Then no job exists and nothing turns the interest on, so that the socket, the `chat_conn`
and a directory entry stay for good, and the request, though complete, is not handled. For the same reason
`NothingLeftUnparsed`, in `BufferSound`, speaks of clients that are there, and `TakesTurns` of ones that wait for their last answer.

Four safety properties are what a liveness property needs besides fairness: that the
next step is always possible. `HangUpsNoticed` is that part of "a socket whose client
hung up is closed", under its hypotheses. `TurnsAreAttended` is that part of
`TurnsAreServed`: a reactor that turns to other work has emptied the buffer, and the interest is on or an answer that
turns it on is due. `NeverWedged` is that part of `Heard` and `Answered`: when both
threads are done with an undisturbed connection, epoll will report the next request, or
will report that the last reply can be sent. `EachLineHasItsFate` is that part of
`LinesComeOut`: no line is lost between two places, and the log thread does not sleep
while one waits. Being safety properties they can be proved.

`PushedIsHandled` is about connections born with `is_processing` down: the constructor
does not assign the flag, and a connection born with it up queues its messages and
never handles one. `FrameArrives`, and with it `TurnsAreServed`, leaves out a receiver that is
blocked in `recv`. `FilesInOrder` needs that no caller is `late`: one that entered
`write_log` before midnight and counts its line after one that entered later reopens
yesterday's file for everybody. It also needs that no line is `monthApart`: counted on a
day that is not the open file's and yet has its day of the month, which takes a month
without a line, or with late ones only; such a line goes to the old file.
`FriendshipWhole` leaves out pairs that are `torn`: add
against accept or delete at the same time, a request cut off by a failure, or the
acceptance of a request that was withdrawn meanwhile, which makes two chat rows without
a friendship. `UnreadBacked` leaves out pairs that are `slipped`: `update_chat` between
the two statements of `AddFriendMessage`, or the other way round, leaves a message that
is counted and read.

The findings in `PROJECT.json` show what happens without it. The models show
more losses that have no run of their own: a client that hangs up before `recv` has read the
request epoll reported keeps its socket for ever, and the request is lost (what
`HangUpsNoticed` and `TakesTurns` exclude); a line logged exactly a month after the last one
goes to the old file, against the comment at `log/log.cpp:128` (what `FilesInOrder`
excludes); a frame whose last one to four bytes are
late is pushed without them (what `SplitExactly` excludes); a pushed chat message is
overwritten in the receiver's buffer by an answer, or wiped by `writeInit`, before it is sent, and with
pipelined requests an answer is; a message to a user who is not online is stored as
'send' and `get_unread_messages` asks for 'received' only; after a `send_message` to an
online user `write` finds nothing to send and returns without arming EPOLLIN;
frames that fill the buffer exactly make `recv` return 0 for want of room; a
process whose `mysql_real_connect` fails in `init` hangs in `exit`, because the
pool's destructor waits for the mutex `init` holds (`OpenFails`); a
worker that outlives `DestroyPool` passes the semaphore and finds no connection
(`PopEmpty`); three `init` calls open three times `MaxConn` connections, and the
counters know of a third of them.

Fairness (`FairSpec`): a thread that can run does run (weak fairness of each
worker's and the reactor's steps, per thread, as a preemptive scheduler gives), and a
task or query returns. The log thread and the threads in `write_log` run on in the same
way, and so do the database writers; `MaxFails` says that the database recovers, without which a statement
would be repeated for ever. Nothing is assumed of the network, of clients (who may
stop sending, or hang up, at any byte), of other users, of submitters, of spurious wake-ups, of `send` failing,
or of the process ending. No fairness is assumed of the semaphore: requests are
finite in number, so weak fairness of each waiting worker suffices.

## 4. Proofs

TLAPS checks the following for all values of the constants that satisfy the
`ASSUME`s (`PoolAssumption`: the pool has a worker; `StrandAssumption`: `NoConn` is no
connection, the bound is a natural number; `SessionsAssumption`: there is a
SubReactor, the bounds are naturals, and ids, messages and `None` are different
things; `ConnPoolAssumption`: at least one connection and one `init`, finitely many
workers, and counters wide enough for `MaxConn`; `ConnIOAssumption`: pushes differ
from requests and from the empty buffer; `AsyncLogAssumption`: the queue has a slot,
`m_split_lines` is positive, `MonthDay` gives every day one from 1 to 31, `NoLine` is no line; `DbWriterAssumption`: `batchSize` is
positive, the bounds are naturals, and "nobody" is no writer; `FrameAssumption`: a header has at least
one byte, and the lengths and the buffer's size are naturals; `ChatStoreAssumption`: the
number of requests is a natural number). No fairness is used: the theorems are about `Spec`.

*ThreadPool_proofs*: `TypeCorrect`, `NoLostWakeup`, `TasksRunOnce` (`ExactlyOnce`, which no run
lists), `DestructorDrains`, `PoolImplementsTaskPool`. `NoSleepWithWork` is not inductive: an
exiting worker could be the last one awake. `WakeInv` adds what `stop` says about the owner
(`StopInv`): once `stop` is set and notified nobody waits, and a worker exits only
with an empty queue. A worker that takes a task stays awake itself, and a
push leaves either the submitter owing a notify or a busy worker: that is the
argument for calling `notify_one` outside the lock. `TasksRunOnce` and
`DestructorDrains` rest on `PlaceInv`: a submitted task is in the queue, with a
worker, or in the past, and in one of them only.

*ConnStrand_proofs*: `TypeCorrect`, `FlagIsTruthful`, `HandlingIsSerial`, `NothingIsStranded`, `HandlingIsInOrder`,
`StrandImplementsSerialQueue`. The idea is a permission per connection that is
in one place: the pool's queue, a worker that will resubmit or lower the flag, or
the reactor between the flag and the submit. `PermissionInv` says that it is in
one place (`OnePermission`), that the flag is up exactly while it exists
(`FlagMeansPermission`), and that a nonempty queue keeps the flag up
(`QueueRaisesFlag`), which is the conjunct that induction needs and the run does
not list. `OrderInv` then says that history, message in hand and queue together
are 1, 2, 3, ...; order and the refinement follow.

*Sessions_proofs*: `TypeCorrect`, `SpreadEvenly`, `FreshNumbersRoute`,
`HangUpsAreNoticed`, `LastLoginIsReachable`: every property of the passing run, and
that the dispatch keeps the SubReactors within one connection of each other (`EvenlySpread`).
`Sockets` says that a number and the open client that has it name each other, and
that an open client's number is registered; with it `TypeOK` is inductive (`Base`), the part
included that says an event waiting to be handled is about a socket that is still open.
Routing: while no number was handed out twice, epoll's pointer, in registration and event, is
the `chat_conn` of the socket (`OwnPointer`), so that jobs, directory entries, pushes under way
and buffers all belong to a client of the right user (`RightClients`); and a state
in which the numbers are fresh has only such states behind it (`FreshBack`).
Hang-ups: undisturbed, events and interests are a connection's own (`PointersRight`), and
each connection is at one point of its turn (`OneTurn`): a worker has its request, the
interest is off and no event is under way; or an event is under way and the interest is off;
or the interest is on. That the interest is off with neither job nor event needs a leaked
lock or a request left in `readBuf`, and there the claim ends. A step is about one
connection and leaves the others `Untouched`, so that the proof goes connection by connection
(`OneJobOrInterest`). From the same invariant, a removal never meets a login under way, so that what it
erases is no user's key (`Directory`).

*ConnPool_proofs*: `TypeCorrect`, `HandlesAreSafe`, `PoolStaysIntact`: every safety
property of the run. `NeverPopsEmpty` is not inductive: `sem_post` would break it if
the worker that is about to post had not already pushed its connection. `ListInv`
counts such a worker in (`Promised`); that is the argument for releasing the lock
before the semaphore. `StartInv` says that `init` has the pool to itself, so that
restarting counters and semaphore for every SubReactor leaves them equal to what the
last call opened. Numbers of workers are cardinalities, and with them the counters
stay between 0 and `MaxConn`, where the unsigned arithmetic is exact (`CountersExact`).
`HandleInv` adds to `HandlesSafe` that nothing in the list is closed.

*AsyncLog_proofs*: `TypeCorrect`, `RefusalNeedsARace`, `LogImplementsLineQueue`,
`LinesHaveOneFate`, `FilesFillInOrder`: every safety property of the run, for any size of the queue and any calendar. `RingInv`
is that the slot `push` writes next is the one behind the `m_size` lines that wait,
modulo the size; from it `push` appends to the sequence of waiting lines and `pop` takes
its head (`PushAppends`, `PopTakes`). `FreshInv` says that a thread's own line has not
been seen in queue, log thread or file, which makes each push a new line for
LineQueue. `FateInv` adds where every line ever logged is, and that the log thread sleeps
only beside an empty ring: `push` is the one step that makes it nonempty, and its broadcast
is under the same mutex. `FileInv` says, while nothing was `late` or `monthApart`, that lines behind `CountLine` are of
the day of the open file or earlier and that this file comes after all that were written to.
`TypeOK` holds its bridge to the code's test: `m_today` is the day of the month of the open
file, so that a line that is not `monthApart` is of the same day exactly if the test says so.

*Connection_proofs*, receiving: `ReceiverTypeCorrect`, `BufferIsSound`, `SplitIsExact`,
`TurnsAreAlwaysAttended`: every safety property of the run, for any number of frames and any sizes
of header, body and buffer. Typing and alignment need each other (`Aligned`): no message is
pushed beyond the last frame because the buffer holds no bytes beyond it. `SplitExactly` is
`[]NoLateTail => []PushedIsWhole`; its hypothesis is about the socket and its conclusion
about the buffer. They meet at `RecvDone`, the one place where `parse_messages` is
reached, and there the socket is empty: what is parsed ends where the stream then ended
(`ParsesWholeFrames`). So the length test that forgets the header is right for such
streams, and the memmove of a huge size is not reached. `TurnInv` says, for a client that
takes turns, that while `receive` runs every message pushed has been answered, so that what
the client has sent ends with the next frame, all of it; such a client waits for the
answer and has not hung up yet, so that `recv` ends with EAGAIN and the parser is reached. It compares ends of frames any
distance apart: `EndsInOrder`, that they increase, is carried along the steps as a part
of the invariant.

*Connection_proofs*, answering: `TypeCorrect`, `WireIsSound`, `NeverIsWedged`: every safety
property of the run. What `send` appends must be a message for the state to stay typed, so
type correctness is proved together with `NeverSendsNothing`. `WireInv` says that a
message is put into the buffer once (`Written`), that what is in the buffer is newer than
what was sent until `write` has sent it, and that `write` then goes on to wipe it and
nothing else. This holds although answers and pushes overwrite each other: a message may
be lost, and is never doubled or out of order. `NeverIsWedged` is about undisturbed
behaviours, in which the reactor and the worker take turns: `CalmInv` says that at any
moment either the worker has a request or the interest is on for the next (`WorkerTurn`),
or a reply waits for `write` or is with it (`AnswerWaits`), or `write` has sent it and is on
its way to listen again (`Wiped`), and what buffer, flag and interest are in each.

*ChatStore_proofs*: `TypeCorrect`, `FriendshipIsWhole`, `AnswersAreAlwaysTrue`,
`AlwaysOneWinner`, `UnreadIsBacked`: every property of the run, for any users, workers and
requests, with and without failing statements.
- `FriendshipWhole` speaks of moments without a request, so what it needs is what holds in
  between. On a pair that is not torn all friend requests under way are of one kind
  (`OneKind`), and two rows that differ have a worker at a statement that will make them
  agree (`Adding`, `Accepting`, `Deleting`, together `PairSound`); the last such worker
  leaves them equal. A worker that fails before it has changed anything is not needed
  (`Needed`), and one that is needed tears the pair when it fails: this is where the
  definition of `torn` is used. Rows name registered users only (`UsersRelated`, the
  foreign keys); without it the second statement of `AddFriend` could fail by itself.
- `AnswersAreTrue` is an action property: what "success" claims holds in the state that
  answers. Most of it is `FriendsInv`, and that a request's own effects stay until it
  answers (`Carried`).
- `OneWinner` follows from what the winner leaves behind. A phone number that was
  registered stays in `m_user` (`Registered`). The chat row that an acceptance inserted
  stays, and its primary key stops the next one, until a deletion, whose number is then
  below `Len(made)` (`Accepted`, `Undeleted`).
- `UnreadBacked` compares a counter with a set. `CountInv` says more than it: the count is
  at most the number of unread messages *that are not on their way to be counted*
  (`Settled`), so that `AddFriendMessage` may store first and count later. The set can
  lose members only by `update_chat` and deletions, which have cleared the count before
  (`Cleared`), and on a pair that has not slipped no writer is under way with them
  (`Apart`).

*DbWriter_proofs*: `TypeCorrect`, `RepeatsOnlyUnanswered`, `OvertakenForAReason`: every safety
property of the run, for any number of writers, statements and failures.
- A statement is in one place, once (`OnePlace`): the queue, or the batch of one writer, or
  neither. Without it a statement that waits twice would be applied twice.
- `RepeatedOnlyUnanswered` is a count over a sequence that grows. `Counted` is the property
  itself; a step that appends changes one count by one (`OccursAppend`), and whether the
  statement still waits is what `OnePlace` decides.
- `InOrderOfOneWriter` needs what holds before a statement is applied (`OrderInv`).
  Statements are first taken in the order they were pushed, although failed ones come back
  to the queue behind them (`TakenInOrder`); a writer keeps a statement that has not failed
  until it is applied (`Served`); and of two that one writer took, the older is applied
  first or still ahead of the other in its batch (`Ordered`). A failure takes the statement
  out of the claim for good, because `refused` never shrinks.

Only model-checked: all liveness, that is `NothingHangs`, `HeardAndAnswered`,
`PushedIsHandled`, `RequestServed`, `LinesComeOut`, `EveryPushApplied` and
`TurnsAreServed`; and the implication from `ThreadPool` with its condition variable to the
strand's liveness. Liveness and ENABLED are out of the prover's reach. The properties of
the three runs that fail are disproved, not left open. Induction over data is out of reach as well;
no theorem needs it: what would be an induction over a sequence is carried along the
steps that build the sequence.

## 5. Not modelled

Everything marked so in `PROJECT.json`, with its reason: what the makefile does not
build (the earlier single-reactor server, the lock-free queue, two older pools), the
timer list, which no code uses, the start-up configuration, and `json.hpp`, which is
vendored and makes up 22 091 of the tree's lines. In the models above:

- byte values and JSON; what a login query returns beyond found or not found; a user who sends to himself; sizes of pushed messages;
- a client that hangs up, in ConnIO; FrameReceiver and Sessions have it;
- partial sends (`write` holds the lock over its loop, so a partial send matters only before a failing one, after which nothing more is sent);
- memory order of `sendMessage`, which is read and written without a lock and is taken as sequentially consistent;
- in the store: requests that only read (chat list, unread messages, user search), text columns (`last_message` and the like), a pair of a user with himself, an `update_chat` whose client sends a count other than 0, and the branch 'refused' of `UpdateFriend`, which no request reaches;
- in the log: `flush`, and a file that cannot be opened;
- in the database writer: the time it sleeps, the connection it takes from the pool (ConnPool's subject), and `running_`, which nothing clears.

## 6. Plan

Done: every component the makefile builds has a module. Left:

1. Composition: the sender's flag of `ConnIO` with the outcome "unsaid" of `ChatStore`,
   and a removed connection in `ConnIO`.
