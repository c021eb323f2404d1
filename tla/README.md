# ChatServer2: TLA+ models, model checking and proofs

ChatServer2 is the chat node of an instant messenger (C++, boost.asio, gRPC,
hiredis, MySQL Connector). Clients hold a TCP connection to one of several
nodes; the nodes share one Redis and one MySQL and call each other by gRPC.
This directory models the parts of it where threads, connections and nodes
meet, checks them with TLC on small instances, and proves the central facts
about the read and send paths, the logic queue, presence, messaging, the life of a
node, the profile cache and the two pools for all sizes with TLAPS.

Paths below are relative to `src/src/` (the repository's own `src` directory).

## 1. Inventory

| Part | State | Operations | Talks to |
|---|---|---|---|
| `net/CServer` | `_sessions`, acceptor | `StartAccept`, `HandleAccept`, `ClearSession` | creates `CSession`s |
| `net/CSession`, read path | `_b_close`, `_user_uid`, receive nodes | `AsyncReadHead`, `AsyncReadBody`, `asyncReadLen`, `close` | posts to `LogicSystem`; `UserMgr`, Redis in `close` |
| `net/CSession`, send path | `_send_que`, `_send_lock` | `send`, `handleWrite` | called by the worker and by gRPC threads |
| `application/LogicSystem`, queue | `_msg_que`, `_mutex`, `_consume`, `_b_stop` | `postMsgToQue`, `dealMsg`, destructor | runs the handlers on one worker thread |
| `LogicSystem::loginHandler` | - | token check, lists, login count, `uip_<uid>`, binding | Redis, MySQL, `UserMgr` |
| `addFriendHandler`, `authFriendHandler`, `chatTextMsgHandler` | - | write, look up the other user, notify or call | MySQL, Redis, `UserMgr`, `ChatGrpcClient` |
| `searchUserHandler`, `getBaseInfo`, `getUserByUid`, `getUserByName`, `ChatServiceImpl::getBaseInfo` | `ubaseinfo_<uid>`, `unameinfo_<name>` in Redis | look up, read the row, set both keys or one | Redis, MySQL |
| `application/UserMgr` | `_uid_to_session` | `getSession`, `setUserSession`, `RemoveUserSession` | shared by worker, I/O and gRPC threads |
| `application/ChatServiceImpl` | - | `NotifyAddFriend`, `NotifyAuthFriend`, `NotifyTextChatMsg` | gRPC threads; `UserMgr`, `CSession::send` |
| `infra/grpc/ChatGrpcClient`, `ChatConPool` | stubs | the same three calls, synchronous | the other nodes |
| `infra/redis/RedisConPool`, `RedisMgr` | `_connections`, `_fail_count`, check thread | get, return, check, reconnect, close; commands | Redis |
| `infra/mysql/MySqlPool`, `MySqlDao` | `_pool`, `_fail_count`, check thread | get, return, check, reconnect; statements | MySQL |
| `net/AsioIOServicePool` | I/O contexts and threads | `getIOService`, `stop` | no session uses its contexts |
| `app/ChatServer.cpp` | login count of the node in Redis | start, signal, shutdown | everything |
| `infra/grpc/Status*` | stubs | - | called by no handler |
| `ConfigMgr`, `Singleton`, `utils`, `const.h` | read-only | - | - |

Threads of a node: *main* runs the `io_context` and with it every read,
completed write and `close()`; the *worker* runs every handler, one at a time,
**holding the lock of the queue**; *gRPC threads* serve the other nodes; two
*check threads* look after the pools.

What is hard, and what makes each part correct:

* **Logic queue.** `notify_one` only when the length becomes 1 and after the
  unlock, a lock held during handlers, a plain `bool` for the stop. Correct: no
  message waits beside a sleeping worker; each is handled once and in order; a
  stop handles what is queued, and ends unless the worker missed its
  notification (which the code permits).
* **Send path.** Two threads send while a third completes a write. Correct:
  never two `async_write`s, frames in order, lengths right although cast to
  `short`, nothing stuck in the queue unless a write failed.
* **Presence.** Four records of who is where (`_sessions`, `_uid_to_session`,
  login count, uip key), written by two threads per node and by all nodes,
  without a common lock. Correct: a logged-in user is found, a gone one is not,
  the count counts.
* **Messaging.** Database, key, binding and session are read one after the
  other while the other user logs in, moves or leaves; calls between nodes fail
  or come late. Correct: whoever is logged in knows what the database says;
  texts arrive once, in order, and if the recipient is there; handlers end.
* **Read path.** TCP cuts frames anywhere; header and body share one buffer
  scheme with the frames that wait for the worker; ids and lengths are signed
  and held against an upper bound only. Correct: the handlers get the frames as
  they were written, and a refused connection comes to an end. The code is not
  correct for negative lengths (section 5).
* **Life of a node.** Redis keys outlive the process that wrote them; the
  worker outlives the Redis pool at a stop. Correct: a restart starts over, a
  user who moved is found, a stop leaves no count behind, and has no way to
  hang but the two joins in which the code can.
* **Profile cache.** No expiry, and threads of all nodes fill it without a
  lock. Correct: two keys that agree, never an older profile than before, a
  login brings changes in.
* **Pools.** Users, a check thread and (Redis) a closing main thread. Correct:
  a connection has one owner, none is lost, and nobody waits for ever in a pool
  that was built with enough connections.

`PROJECT.json` lists the hazards one by one, with their lines.

## 2. Modules

| Module | Models | Composes with |
|---|---|---|
| `Mailbox` | what the logic queue promises: an abstract FIFO that accepts, handles, and closes | refined by `LogicSystem` and by `CSessionRead` with the worker |
| `LogicSystem` | `postMsgToQue`, `dealMsg`, `~LogicSystem` | `INSTANCE Mailbox` |
| `CSessionRead` | `AsyncReadHead`, `AsyncReadBody`, `asyncReadLen`, the buffers, the life of a session object | `INSTANCE Mailbox` |
| `CSessionSend` | `send`, `handleWrite`, the socket | |
| `Presence` | accept, login, close on several nodes; UserMgr; Redis keys | its worker stands for `LogicSystem` |
| `ServerLife` | start, stop, crash, restart of the nodes | extends `Presence`, whose two threads run while the node does |
| `UserCache` | the cached profiles, filled by workers and gRPC threads | its `refresh` is the `getBaseInfo` of the handlers of `Presence` and `Messaging` |
| `Messaging` | the friend and text handlers, the gRPC service, the tables | assumes of a login what `Presence` shows |
| `RedisConPool` | the Redis pool with users, checker and close | |
| `MySqlPool` | the MySQL pool with users, of which one nests, and checker | |
| `LogicSystemProofs`, `CSessionReadProofs`, `CSessionSendProofs`, `MessagingProofs`, `UserCacheProofs`, `RedisConPoolProofs`, `MySqlPoolProofs` | theorems | each extends its component |
| `PresenceProofs` | theorems on `Presence`, then on `ServerLife` | extends `ServerLife`, which extends `Presence`: the second part uses the step lemmas of the first |
| `MC*` | instances for TLC | |

Program points that hold shared state between two accesses are separate steps;
what happens inside one critical section is one step. Definitions marked
*Variant* are the bugs the properties must be able to see (the mutants of
`PROJECT.json`); no specification uses them.

### LogicSystem

`worker_pc` and `main_pc` are the program counters of `dealMsg` and of the main
thread, `mutex` and `sleeping` the lock and the wait set. `Post` is the
critical section of `postMsgToQue`, `NotifyOne` what follows the unlock;
`Lock`, `DecideWait`, `Wait`, `Wakeup` are the loop around `_consume.wait`, with
spurious wake-ups; `BeginCall`/`EndCall` a callback under the lock; `SeeStop`,
`Drain*`, `Exit` the end. `SetStop`, `NotifyAll`, `Join` are the destructor,
which main runs after `io_context.run()` has returned, so after the last post.
A callback is one step: what handlers do is in the other modules.

### CSessionRead

The stream is a sequence of cells, two for a header and one for each unit of a
body. `ReadSome` delivers any part of what has arrived at the place
`asyncReadLen` computes, `Completes` is its test for the full length, `ReadHead`
and `ReadBody` are the two handlers. Buffers are named: what a queued
`RecvNode` holds is read when the worker gets to it (`HandleFront`), so a buffer
used again too early would show. `Referenced` collects who holds the session by
a shared pointer (`_sessions`, `UserMgr`, the outstanding read, queued frames).

A header may announce any signed short. `RefuseHead` is for those above
`MAX_LENGTH`. Those below zero pass the test: the `RecvNode` of a length below
-1 throws, and the `catch` of `AsyncReadHead` swallows that (`ThrowHead`: `step` is
`"thrown"`, the session stays in `_sessions`, and is neither read nor closed); a
length of -1 makes a node without memory for its body and a read of
`size_t(-1)` bytes into `_data` (`Overread`), after which the process may die
(`ProcessDies`) or the read be refused (`ReadIsRefused`).

### CSessionSend

A frame is a record of call number, size of the string and stored `body_len`
(after the cast). `writes` is the set of outstanding `async_write`s, so that two
at once are possible in the model; each ends well (`Transmit`) or not
(`WriteFails`) and is followed by `handleWrite`.

### Presence

`io[v]` and `worker[v]` say where `close()` and `loginHandler` are between two
accesses to shared state, with the login count they have read. A connection is
accepted by the node `Home` gives it. A connection that is no longer read is
`"dead"` after a failed read or a refused header (`RejectHeader`), `"thrown"` after
the swallowed exception (`ThrowHeader`). `hasty`, `contested` and `overlapped` are
history: they say exactly in which circumstances the properties do not hold.

### ServerLife

`phase[v]` says how far `main` is. While it serves, the I/O thread of `Presence`
runs, which is the main thread; `Signal` stops it between two handlers, then
come `HDel`, `CloseRedis` and `ProcessEnds`, while the worker goes on, at the end
without Redis (`WorkerDrains`). A stop can end in the phase `"hung"`: `CloseHangs`
is the join of the check thread in `RedisConPool::close`, which holds the lock
that thread may be waiting for, `StopUnnoticed` the join of a worker that was
about to wait when the destructor of `LogicSystem` notified it. When exactly
that happens is the subject of `RedisConPool` and `LogicSystem`; here it may at
any stop. `Crash` takes everything in memory at any
moment. `Observe` derives from a step of `Presence` what it did to the field of
the hash and which of its commands failed (`lost`, `lost_uip`), so that the
properties can say what a failure excuses and what it does not.

### UserCache

A profile is its version; other programs raise it (`ChangeRow`). `thread[t].op`
is which of the four lookups thread `t` executes, `pc` before which access. `alone`
and `sure` are history: a fill that no other fill of the user met, and whose
commands succeeded, makes the content of both keys certain until the next
disturbance.

### Messaging

One request per worker at a time, with the statement, lookup, notification or
call it is at; `rpcs` holds the calls under way, including those whose caller
has given up. `known` is what each client has been told, `missed`, `unsaved`,
`failed`, `steady`, `gone` are history. Clients use one connection at a time
and wait for the answer of a login; `Presence` deals with those that do not.
An acceptance reads a profile for its answer and one for its notification; if
one cannot be read, that client gets `UID_INVALID` without the friend, although
the rows are written (`Tell`). What is in profiles and aliases, and the
`LIMIT 10` of the list of applications, are left out.

### RedisConPool, MySqlPool

One step per critical section. `close()` of the Redis pool holds the mutex
while it joins the checker, so it is two steps with the mutex held between.
Redis connections have identities (raw pointers can be shared or used after
`redisFree`); MySQL connections are `unique_ptr`s, so only their number counts.

## 3. Runs

| Run | Configuration | Shows |
|---|---|---|
| `logic_queue` | 2 sessions, known and unknown ids, 3 posts, stop at any time | no lost wake-up, FIFO exactly once, stop drains and completes, posting is not starved, the queue implements `Mailbox` |
| `send_queue` | queue of 2, 5 calls, sizes around every limit | the send path's properties |
| `presence` | 3 connections to 2 nodes, 3 logins | bindings, login count, and uip keys that lead to the right node, outside the exceptions each property names |
| `server_life` | 2 nodes with a connection each, 2 logins of a user; one node stops or crashes, restarts once, and has a failed command | bindings do not depend on Redis; login count and uip key fit the present life of the node; a stop takes the node out of the list |
| `server_stop` | a node with 2 connections and 2 logins that stops, crashes, restarts once, and has a failed command | a close removes the binding for good; a stop ends unless it hangs in one of the two joins |
| `user_cache` | 2 workers, a gRPC thread, a row that is added and changed, any command may fail | the keys agree and do not go back unless fills met, a login brings changes in; a user a search has missed is then under both keys, unless a command failed |
| `binding_lost` | 2 connections | **violated**: the close of an older session removes the binding of the newer one of the same user |
| `redis_pool` | 3 users, up to 2 connections | one owner, none lost, no endless wait if the constructor made a connection, when `close()` completes |
| `read_path` | 3 frames with empty, header-like, refused and ordinary contents and with negative ids and lengths, cut in every way | the handlers get the frames that were written, once and in order (`Mailbox`); reading goes on; a refused connection ends, one whose header threw does not |
| `messaging` | 2 users on 2 nodes, of which one logs in twice, 2 requests of any kind, 1 failure | clients know what the database says, or have missed it for a reason listed at the property, until their next login; three statements without a transaction; texts arrive in order, at most once, between users of whom no call failed; calls in both directions at once do not block each other |
| `text_as_response` | 1 text | **violated**: a text on one node arrives as a response |
| `mysql_pool` | worker and 2 gRPC threads, up to 3 connections | none lost; nesting does not block as long as the pool was built with more connections than threads that nest |

Bounds. Each counter that could grow for ever has a bound in a guard: posts
(`MaxPosts`), calls of `send` (`MaxCalls`), logins (`MaxLogins`), requests
(`MaxRequests`), failures (`MaxFailures`, `MaxLost`), friends (`MaxFriends`),
frames (`MaxFrames`), restarts (`MaxRestarts`), versions of a row
(`MaxVersion`). They are
chosen so that the interesting case happens and one more of it as well: three
posts give an empty, a one-element and a longer queue (the notification looks
at length 1); five sends fill a queue of two and overflow it before and after a
failure; three connections on two nodes give a takeover on a node and one
between nodes, and three logins a second and a third login over a connection;
two logins let a user of a text move while it is under way; two requests let
an application and its acceptance, or a text in each direction, meet; three
frames put a refused, a throwing or an empty one between ordinary ones; one restart and
two logins let a user of the crashed node return on the other; two versions
of a row are an old and a new one. What the
exceptions of a property exclude is reachable: the corresponding run without the
exception is violated (`binding_lost`), or the history
variable that grants it is set in the run.

`presence` uses the symmetry of users and of the two connections to the same
node, and checks invariants only. Deadlock is not checked where the bounds, a shutdown or a
documented hang end a behaviour; every such configuration says why.

### Fairness

* Threads run: each step of a thread that is enabled is taken (WF), and a
  thread that keeps finding a mutex free gets it sometime (SF).
* A callback, a command and a statement return; a write ends with success or
  error; a call is served or fails. The code sets no deadline on a call, so a
  peer that does neither stops the worker; that is outside the model.
* A close, a lookup and a stop that have begun go on (`ServerLife`,
  `UserCache`): the worker, the gRPC threads and main are scheduled. A stop may
  hang instead in one of its two joins, and nothing gets it out of there.
  Nobody is obliged to restart a node.
* Redis and MySQL are not down for ever (SF of a good ping and of a connect),
  in the pools only.
* Nothing is assumed of clients, of operators, of failures or of spurious
  wake-ups.

## 4. Proofs

All for arbitrary constants that satisfy the modules' assumptions.

**`LogicSystemProofs`.** The invariant `Inv` adds to `TypeOK` and the history
equation `posted = taken \o msg_que` that a worker about to wait or asleep has
an empty queue unless a notification is due (`WaitsOnEmpty`), that a callback
runs only beside a message (`CallHasMessage`), and that no post follows the
stop (`StopAfterPosts`). Without the second the first is not inductive: `Post`
with a non-empty queue does not notify. From `Invariance` follow `TypeCorrect`,
`NoWakeupLost`, `FifoDelivery`, `StopDrainsQueue`, and `RefinesMailbox`: each
step of the two threads is a step of the abstract mailbox or a stutter.

**`CSessionSendProofs`.** `Inv` has the four safety properties and
`BrokenOrWriting`: a queue with frames has an outstanding write unless one has
failed, and after a failure the queue is never empty, so that `send` starts
nothing. That is why the properties hold together: order needs one write at a
time, which needs to know that the queue is non-empty while a write is under
way. Theorems `TypeCorrect`, `WritesDoNotOverlap`, `OrderPreserved`,
`LengthsPreserved`, and the action property `FailureIsFinal`; and
`NoFrameIsStuck`, the safety core of `DeliveredOrBroken`: whenever no write is
outstanding and none has failed, the peer has all that was accepted.

**`CSessionReadProofs`.** The handlers get what the client wrote, although what
lies in `_data` and in the stream is a run of bytes without a mark where a frame
begins. `Carries(s, q, i)` says that the bytes `s` are exactly the frames of `q`
from the `i`-th on; it is stated by what is left after each frame, since a
recursive definition is out of the prover's reach. `Inv` then has one fact per
thing that could slip: between two reads `data \o wire` carries the frames not
yet posted, with the front one's header still in it (`AtHead`) or already taken
off and understood (`AtBody`: `total_len` is the length the client wrote, and the
new buffer has its id); the buffers of queued frames hold those frames
(`PostedAsSent`) and are queued in the order of their numbers (`QueuedInOrder`);
a reset, and nothing else, loses bytes (`LostAtReset`). `CarriesMore` and
`CarriesFront` say what a written and a parsed frame do to such a run (a short
comes out of the two bytes as it went in, negative ones too);
`MoveBytes`, that cutting it anywhere does nothing. Theorems `TypeCorrect`;
`ReadPathIsMailbox`, each step is a step of `Mailbox` or a stutter, for any
frames; and `NothingIsLeft`, the safety core of `FramesDelivered`: when the
stream is read up and the queue is empty all frames have been handled, so
`asyncReadLen` never waits for a byte nobody will write.

**`PresenceProofs`.** `NoStaleBinding` and `ReachableWhenLoggedIn` speak of the
moment after a close or a login; neither is inductive. `Inv` follows a binding
through its life: it comes from a login that was queued and therefore sent
(`QueuedWasSent`, `UidWasSent`, `BoundWasSent`); a dead connection has a login
queued only if its client was hasty (`DeadIsHasty`); the session has the uid when
it is bound, or has died (`UidSetBeforeBinding`); from then until `close()`
removes it, a session bound to the only uid it used keeps that uid
(`BindingLasts`); `close()` works on a dead session of its own server
(`IoOwnsSession`). For the second property, two connections of a server that
can still take or remove the binding of one uid were open together when the
later login was sent, so the uid is contested (`RivalsAreContested`): the I/O
thread posts no login while it closes another session. Theorems `TypeCorrect`,
`NoBindingOutlivesItsSession`, `LoggedInIsReachable`, whether or not Redis
fails. `LoggedInIsRoutable` is for a Redis that does not fail, the only case in
which it is true: a login between its key and its binding has its key
(`UipBeforeBinding`), and a login on another node that could write the key
again was sent while this one lived, so that the uid is contested across the
nodes (`AcrossIsCrossed`). The route invariant has a parameter, the set of users
it makes no claim about: empty here, those whose key could not be written in
the second part.

`CountIsExact` is about a number computed by two threads that read it, change it
and write it back. Its invariant says what the number is while they are at it
(`CountRight`): unless the node is *spoiled*, i.e. one of the exceptions of
`CountExact` has happened, the count is the number of logged-in sessions
(`Counted`), and a thread between its read and its write has read the present
value, because another one at that point would be an overlap (`OverlapIsSeen`).
That a spoiled node stays spoiled (`SpoiledForGood`), and that a client which
logs in once has its login in the queue once, and not after it has been counted
(`QueuedOnce`, `QueuedIsNew`), make this inductive. It assumes `~RedisMayFail`,
since a command that fails changes the count, and `IsFiniteSet(Sessions)`: a
process has had finitely many connections at any time, and an infinite set has
no cardinality to compare with.

**`MessagingProofs`.** Three invariants over common types (`TypeInv`). For
`AcceptedAreFriends`: between the two INSERTs of a handler its first row is in
the table (`BetweenInserts`). For `ToldIsStored`: what a list, a handler past its
statements or a call is going to tell is in the database already, or its pair in
`unsaved` (`ToldInv`), which needs that a handler at a statement has the kind of
request the statement is for (`KindFits`). For `InformedOrMissed`, which is about
who is online: a fact such a user does not know is with a handler that has not
looked the user up, or on its way to the very server that has the session
(`InformOnline`) - the server the key names, since who is online is bound where
the key leads (`OnlineFits`) - and a login that has read its lists has the fact
in them or can rely on such a handler, which misses it at the lookup otherwise
(`InformLogin`). Theorems `AcceptedBecomeFriends`, `OnlyStoredIsTold`,
`OnlineAreInformed`, for any failures.

The two theorems on texts follow a request on its way. `TextsArriveInOrder`: the
requests under way and received have numbers that their senders have given out
(`Numbered`), a new request is handled by the node its connection leads to
(`OwnConnection`), so that two nodes never work at requests of one connection
(`OneHandler`); a call under way belongs to the
request its worker waits for, or it has failed (`Awaited`), and there is one at
most for each request (`OneCall`). So whatever is still to come from a sender is
later than what the recipient has (`ToCome`), wherever the two are by then; a
call given up by its caller can be served after a later text, which is what
`failed` excuses. `TextsAreDelivered` is about a recipient who stays online from the beginning
of the handler on (`SteadyOnline`): such a one has the session on the node where
the handler delivers or where its call goes, and has the text once the call has
been served or the handler is at its answer (`SteadyRoute`).

`NobodyWaitsInVain` is the safety core of `HandlersEnd`: a worker that waits has
a call under way that waits for no worker. A call served keeps its answer if its
caller still waits, and no other worker's return or failure takes it.

**`PresenceProofs`, the life of a server.** A step of a node that lives is a step
of `Presence` or one of `main`, `Crash` or `Start`, so the step lemmas of the first
part do most of the work; what is new is that a crash or an end of the process empties the
memory of one node in one step. `LifeInv` is the invariant of `Presence` with the
phases: when `main` has left `io_context.run()` the I/O thread is idle
(`StoppedIsIdle`); on a node that is down nobody is logged in and no handler
runs (`DownIsEmpty`), so that its restart disturbs nothing; and once the count
is deleted no new login arrives, so that only one that was queued then can write
it again (`UnlistedIsOver`). `SinceStart` says
that `CountRight` holds of a node that serves unless a command for its count has
failed in this life (`lost`); the start writes 0 and has no sessions. Theorems `BindingsAlwaysFit`,
`StoppedServerIsUnlisted`, `CountRightSinceStart` (with `IsFiniteSet(Sessions)`),
and `RoutableThroughout`, all with Redis failing as it likes: what a failure
excuses is in the properties themselves.

The attempt to prove `CountRightSinceStart` showed a gap in the history
variable that no instance of a size TLC can check would have: a failed `hGet`
reads 0, and the step was noted as a failure only if no count read by a thread
of the node differed from the key. With four sessions the other thread can hold
such a count from an earlier read. `CountReadStep` is therefore the set of the
counts read in the very step.

**`UserCacheProofs`.** What `CacheAsFilled` says of a moment depends on fills that
are under way. `Inv` adds that versions only grow, so that a fill never brings
anything older than what the cache is sure to have (`VersionsGrow`); that two
fills of one user which meet both know it, and that nothing is sure then
(`MeetingDisturbs`); and that the first key an undisturbed fill has set is still
what it set when it sets the second (`BaseSet`). Theorems `TypeCorrect`, `CacheFollowsFills`, and the action property
`RefreshEffective`.

**`RedisConPoolProofs`.** `Inv` says of each connection at which one place it is,
with the queue taken as the set of its elements, which has no repetition, and
that `_fail_count` is the number of freed connections, plus one between a
connect of the checker and its push. Theorems `ConnectionsOwnedOnce`
and `NoConnectionLost`. Two more are what the liveness of the pool rests on.
`WaitersAreServed`: nobody sleeps in a stopped pool, and whenever somebody sleeps
a connection is queued, in use, or to be replaced. `JoinStaysPossible`: once the
checker can leave its round without the lock that `close()` holds, nothing takes
that away while `close()` joins; the only other case is the hang that
`CloseCompletes` excludes.

**`MySqlPoolProofs`.** Connections have no identity here, so the invariant is an
equation: those in the queue, being pinged, or with the users, plus
`_fail_count`, are those the constructor made (`AllCounted`). The users' part is
the cardinality of two sets, the users with one connection and those with two,
and `CountOne` says how it changes with a step of one user. The equation counts
a connection twice between the push of `reconnect` and the decrement of
`_fail_count`; that the pool is not too large then either needs `FailureKnown`:
only what was counted is replaced. Theorems `NoConnectionLost`, which includes the
types and the bound, and `SomeoneReturns`, the safety core of `NoEndlessWait`: if
the constructor made more connections than threads nest, the waiters never hold
all of them, because only a call of `getFriendList` holds one and waits
(`OnlyNesters`).

Only model-checked: liveness (`PostNotStarved`, `StopCompletes`, the
fairness of `Mailbox`, `FramesDelivered`, `RefusedIsClosed`, `MissedOnce`,
`ShutdownCompletes`, `DeliveredOrBroken`, `ClosedUserUnbound`, `HandlersEnd`,
`NoEndlessWait`, `CloseCompletes`), which the prover does not cover: it has no
rules for fairness and ENABLED. Every invariant, action property and refinement
that a passing run checks is also a theorem. The type invariants of
`LogicSystem`, `Messaging` and `UserCache`, and that the queue is FIFO
and drained at the end, are proved and not checked by a run of their own: the
refinement of `Mailbox` shows the latter on the instance.

## 5. Findings

Shown by a run that violates what a comment says:

1. `CSession::close` erases the binding of its uid whichever session it leads
   to: a user who logged in again over a second connection is unreachable when
   the first one closes (`binding_lost`).
2. `chatTextMsgHandler` sends a text to a recipient on the same node with the
   id of a response and the uids exchanged; on another node it is a
   notification (`text_as_response`).

Plain from the code, without a run:

3. `const.h` documents a longest receive queue of 10000; no code uses it.
4. `MySqlPool`'s constructor swallows a failed connect before the check thread
   is started: the pool stays short. If it was built with one connection, the
   first login of a user with a friend waits for a second connection for ever,
   with the lock of the logic queue held (the exception in `NoEndlessWait`).
5. `StartAccept` picks an I/O context of the pool and then gives the session the
   one of `main`: the threads of the pool have nothing to do.
6. The lookup in `LogicSystem::getBaseInfo` is commented out, so every login and
   friend request reads MySQL, while `ChatServiceImpl::getBaseInfo` trusts a cache
   that never expires. If it were put back, nothing would ever bring a changed
   profile into the cache (the mutant of `RefreshBringsChanges`).
7. A header that is refused ends the reading but not the connection if
   `UserMgr` holds the session: the exception of `RefusedIsClosed`.
8. The length of a header is a signed short that is only held against an upper
   bound. One below -1 leaves a session in `_sessions` that nobody reads or
   closes (the exceptions of `TypeOK` in `Presence` and of `RefusedIsClosed`); -1
   passes as a read of `size_t(-1)` bytes (the exception of `TypeOK` in
   `CSessionRead`).
9. The login count is read, changed and written back by two threads without a
   lock. When the two overlap one of the updates is lost (the exception
   `overlapped` of `CountExact`).
10. When the profile of an applicant or accepter cannot be read,
   `authFriendHandler` and `NotifyAuthFriend` send `UID_INVALID`, although the
   friendship is stored: the client learns of it at its next login.

The exceptions named in the properties are behaviours a reader should know too:
a client that disconnects with a login queued leaves a stale binding
(`NoStaleBinding`); a notification sent while the recipient's login is between
its lists and its binding is lost until the next login (`InformedOrMissed`);
`RedisConPool::close` hangs when the checker is about to lock
(`CloseCompletes`), and a stop with it (`ShutdownCompletes`); `NotifyAuthFriend` fills
one key of a profile, so that a search by name misses once more (`MissedOnce`); a session is mute after a failed write
(`MuteAfterFailure`); of two fills of one profile the slower may set the older
version, which then stays until the next login (`CacheAsFilled`); a node that is
stopped with a login to handle may stay in the list of StatusServer, with the
count that login wrote and nobody behind it (`StoppedIsUnlisted`).

## 6. Not modelled

* `AsioIOServicePool`, the status client, configuration: no state that any
  behaviour depends on.
* `ChatConPool`: its only user is the worker, with one of five stubs.
* Plain fields used by two threads (`_user_uid`, `_b_close`, `_b_stop`) are read
  and written atomically in the models; the order of the accesses is free, a
  torn value is not considered.
* What a read beyond `_data` writes into memory: `CSessionRead` lets the process
  die of it at any moment, or the session go on as if nothing had happened.
* Destructors of statics after `main`, except that of `LogicSystem`. The worker
  drains its queue while main's `io_context` is gone and singletons first used
  after `LogicSystem` are destroyed; the models take both as alive.
* That a login which the worker begins after the Redis pool is closed is refused
  for lack of its token: `ServerLife` lets it go on as well.
* The limit of ten applications at a login, spellings of a name that MySQL takes
  for the same, users without a name.

## 7. Plan

Order: the logic queue and the send path (everything goes through them), then
presence, then what relies on presence, then the pools, the read path, the
life of a node and the cache; these are done. Proved: every safety property of
every module, for all values of the constants, and for most of the liveness the
safety fact it rests on. What could follow:

1. The parts of `MySqlDao` that only read (aliases, the limit of ten
   applications), which would give `Messaging` the contents it leaves out.
2. The gRPC server's own start and stop in `main`, with calls that arrive
   while the node goes down.
3. A deadline on calls, if the code gets one: `CallFails` would then be due
   sometime, and `HandlersEnd` would not need the peer to answer.
