----------------------------- MODULE RedisConPool -----------------------------
(***************************************************************************)
(* The pool of Redis connections (src/src/infra/redis/RedisConPool.cpp)    *)
(* and its three kinds of threads:                                         *)
(*                                                                         *)
(*   the users    run RedisMgr commands: getConnection, a command,         *)
(*                returnConnection (the logic worker, the gRPC threads,    *)
(*                the I/O thread);                                         *)
(*   the checker  every 60 s pings the idle connections, frees those that  *)
(*                do not answer and connects again as often as it freed;   *)
(*   main         calls close() once, when io_context.run() has returned.  *)
(*                                                                         *)
(* Every critical section under _mutex is one step, except close(), which  *)
(* holds the mutex while it joins the checker.                             *)
(***************************************************************************)
EXTENDS Naturals, Sequences, FiniteSets

CONSTANTS
  Users,       \* the threads that run commands
  PoolSize,    \* _pool_size
  NoContext    \* no connection in hand

ASSUME PoolAssumption ==
  /\ IsFiniteSet(Users)
  /\ PoolSize \in Nat
  /\ NoContext \notin Nat

VARIABLES
  connections, \* _connections
  held,        \* the connection each user has
  waiting,     \* the users inside _cond.wait
  asleep,      \* those of them that have not been woken
  mutex,       \* _mutex: "free", or "close" while close() holds it
  b_stop,      \* _b_stop
  fail_count,  \* _fail_count
  checker,     \* where the check thread is, its loop count, its connection
  main_pc,     \* "run", "join" (in close), "closed"
  built,       \* history: how many connections the constructor made
  freed,       \* history: connections freed and not replaced yet
  leaked       \* history: connections returned to a stopped pool

pool == <<connections, held, waiting, asleep>>

vars == <<connections, held, waiting, asleep, mutex, b_stop, fail_count,
          checker, main_pc, built, freed, leaked>>

Contexts == 1 .. built

\* The constructor tries PoolSize times to connect; a failed try is not
\* counted in _fail_count.
Init ==
  /\ built \in 0 .. PoolSize
  /\ connections = [i \in 1 .. built |-> i]
  /\ held = [u \in Users |-> NoContext]
  /\ waiting = {}
  /\ asleep = {}
  /\ mutex = "free"
  /\ b_stop = FALSE
  /\ fail_count = 0
  /\ checker = [pc |-> "sleep", left |-> 0, context |-> NoContext]
  /\ main_pc = "run"
  /\ freed = {}
  /\ leaked = {}

-----------------------------------------------------------------------------
\* Variant: nobody is notified.
ReturnSilently(c) ==
  IF b_stop
    THEN leaked' = leaked \cup {c} /\ UNCHANGED <<connections, asleep>>
    ELSE /\ connections' = Append(connections, c)
         /\ UNCHANGED <<asleep, leaked>>

\* returnConnection: back into the queue, one waiter is notified.  A stopped
\* pool does not take the connection back, and does not free it either.
ReturnConnection(c) ==
  IF b_stop
    THEN leaked' = leaked \cup {c} /\ UNCHANGED <<connections, asleep>>
    ELSE /\ connections' = Append(connections, c)
         /\ IF asleep = {} THEN UNCHANGED asleep
                           ELSE \E u \in asleep : asleep' = asleep \ {u}
         /\ UNCHANGED leaked

(***************************************************************************)
(* The users.                                                              *)
(***************************************************************************)

\* A user that calls getConnection, or evaluates its predicate again.
Calling(u) ==
  /\ mutex = "free"
  /\ held[u] = NoContext
  /\ u \notin asleep

\* Variant: the front connection is handed out and stays in the queue.
GetConnectionNoPop(u) ==
  /\ Calling(u)
  /\ ~b_stop
  /\ connections # << >>
  /\ held' = [held EXCEPT ![u] = Head(connections)]
  /\ waiting' = waiting \ {u}
  /\ UNCHANGED <<connections, asleep, mutex, b_stop, fail_count, checker,
                 main_pc, built, freed, leaked>>

\* There is a connection: take the front one.
GetConnection(u) ==
  /\ Calling(u)
  /\ ~b_stop
  /\ connections # << >>
  /\ held' = [held EXCEPT ![u] = Head(connections)]
  /\ connections' = Tail(connections)
  /\ waiting' = waiting \ {u}
  /\ UNCHANGED <<asleep, mutex, b_stop, fail_count, checker, main_pc, built,
                 freed, leaked>>

\* There is none: wait.
WaitForConnection(u) ==
  /\ Calling(u)
  /\ ~b_stop
  /\ connections = << >>
  /\ waiting' = waiting \cup {u}
  /\ asleep' = asleep \cup {u}
  /\ UNCHANGED <<connections, held, mutex, b_stop, fail_count, checker,
                 main_pc, built, freed, leaked>>

\* The pool has been closed: a waiter gets nullptr.
GetNull(u) ==
  /\ Calling(u)
  /\ b_stop
  /\ u \in waiting
  /\ waiting' = waiting \ {u}
  /\ UNCHANGED <<connections, held, asleep, mutex, b_stop, fail_count,
                 checker, main_pc, built, freed, leaked>>

SpuriousWakeup(u) ==
  /\ u \in asleep
  /\ asleep' = asleep \ {u}
  /\ UNCHANGED <<connections, held, waiting, mutex, b_stop, fail_count,
                 checker, main_pc, built, freed, leaked>>

\* The command is done.
Return(u) ==
  /\ mutex = "free"
  /\ held[u] # NoContext
  /\ ReturnConnection(held[u])
  /\ held' = [held EXCEPT ![u] = NoContext]
  /\ UNCHANGED <<waiting, mutex, b_stop, fail_count, checker, main_pc, built,
                 freed>>

-----------------------------------------------------------------------------
(***************************************************************************)
(* The check thread.  checker.pc:                                          *)
(*   "sleep"   between two rounds, in the loop of the constructor's lambda *)
(*   "size"    before the size of the queue is read                        *)
(*   "loop"    at the test of the for loop                                 *)
(*   "take"    before getConNonBlock                                       *)
(*   "ping"    a PING is sent on checker.context                           *)
(*   "return"  before returnConnection                                     *)
(*   "refill"  at the test of the while loop                               *)
(*   "push"    has connected, before the lock of reconnect                 *)
(*   "exited"  the thread has ended                                        *)
(***************************************************************************)
RoundBegin ==
  /\ checker.pc = "sleep"
  /\ ~b_stop
  /\ checker' = [checker EXCEPT !.pc = "size"]
  /\ UNCHANGED <<pool, mutex, b_stop, fail_count, main_pc, built, freed,
                 leaked>>

\* Variant: the lambda locks _mutex to read _b_stop.
CheckerExitLocks ==
  /\ checker.pc = "sleep"
  /\ b_stop
  /\ mutex = "free"
  /\ checker' = [checker EXCEPT !.pc = "exited"]
  /\ UNCHANGED <<pool, mutex, b_stop, fail_count, main_pc, built, freed,
                 leaked>>

CheckerExit ==
  /\ checker.pc = "sleep"
  /\ b_stop
  /\ checker' = [checker EXCEPT !.pc = "exited"]
  /\ UNCHANGED <<pool, mutex, b_stop, fail_count, main_pc, built, freed,
                 leaked>>

ReadSize ==
  /\ checker.pc = "size"
  /\ mutex = "free"
  /\ checker' = [checker EXCEPT !.pc = "loop", !.left = Len(connections)]
  /\ UNCHANGED <<pool, mutex, b_stop, fail_count, main_pc, built, freed,
                 leaked>>

NextPing ==
  /\ checker.pc = "loop"
  /\ checker' = IF checker.left = 0 \/ b_stop
                  THEN [checker EXCEPT !.pc = "refill", !.left = 0]
                  ELSE [checker EXCEPT !.pc = "take", !.left = @ - 1]
  /\ UNCHANGED <<pool, mutex, b_stop, fail_count, main_pc, built, freed,
                 leaked>>

\* getConNonBlock finds a connection ...
TakeIdle ==
  /\ checker.pc = "take"
  /\ mutex = "free"
  /\ ~b_stop
  /\ connections # << >>
  /\ connections' = Tail(connections)
  /\ checker' = [checker EXCEPT !.pc = "ping", !.context = Head(connections)]
  /\ UNCHANGED <<held, waiting, asleep, mutex, b_stop, fail_count, main_pc,
                 built, freed, leaked>>

\* ... or the users have taken them all: the loop is left.
TakeNothing ==
  /\ checker.pc = "take"
  /\ mutex = "free"
  /\ b_stop \/ connections = << >>
  /\ checker' = [checker EXCEPT !.pc = "refill", !.left = 0]
  /\ UNCHANGED <<pool, mutex, b_stop, fail_count, main_pc, built, freed,
                 leaked>>

PingAnswered ==
  /\ checker.pc = "ping"
  /\ checker' = [checker EXCEPT !.pc = "return"]
  /\ UNCHANGED <<pool, mutex, b_stop, fail_count, main_pc, built, freed,
                 leaked>>

\* No answer, or an error: redisFree, ++_fail_count.
PingFailed ==
  /\ checker.pc = "ping"
  /\ freed' = freed \cup {checker.context}
  /\ fail_count' = fail_count + 1
  /\ checker' = [checker EXCEPT !.pc = "loop", !.context = NoContext]
  /\ UNCHANGED <<pool, mutex, b_stop, main_pc, built, leaked>>

ReturnPinged ==
  /\ checker.pc = "return"
  /\ mutex = "free"
  /\ ReturnConnection(checker.context)
  /\ checker' = [checker EXCEPT !.pc = "loop", !.context = NoContext]
  /\ UNCHANGED <<held, waiting, mutex, b_stop, fail_count, main_pc, built,
                 freed>>

\* reconnect: a new connection takes the place of a freed one.
ReconnectConnects ==
  /\ checker.pc = "refill"
  /\ fail_count > 0
  /\ \E c \in freed :
       /\ freed' = freed \ {c}
       /\ checker' = [checker EXCEPT !.pc = "push", !.context = c]
  /\ UNCHANGED <<pool, mutex, b_stop, fail_count, main_pc, built, leaked>>

\* Nothing to replace, or reconnect fails: the round is over.
RoundEnd ==
  /\ checker.pc = "refill"
  /\ checker' = [checker EXCEPT !.pc = "sleep"]
  /\ UNCHANGED <<pool, mutex, b_stop, fail_count, main_pc, built, freed,
                 leaked>>

\* Variant: _fail_count is not decreased.
ReconnectPushesNoCount ==
  /\ checker.pc = "push"
  /\ mutex = "free"
  /\ connections' = Append(connections, checker.context)
  /\ checker' = [checker EXCEPT !.pc = "refill", !.context = NoContext]
  /\ UNCHANGED <<held, waiting, asleep, mutex, b_stop, fail_count, main_pc,
                 built, freed, leaked>>

\* reconnect pushes under the lock, without a notification.
ReconnectPushes ==
  /\ checker.pc = "push"
  /\ mutex = "free"
  /\ connections' = Append(connections, checker.context)
  /\ fail_count' = fail_count - 1
  /\ checker' = [checker EXCEPT !.pc = "refill", !.context = NoContext]
  /\ UNCHANGED <<held, waiting, asleep, mutex, b_stop, main_pc, built, freed,
                 leaked>>

-----------------------------------------------------------------------------
(***************************************************************************)
(* main.                                                                   *)
(***************************************************************************)

\* close(): lock, stop, wake everybody, and join with the lock held ...
Close ==
  /\ main_pc = "run"
  /\ mutex = "free"
  /\ mutex' = "close"
  /\ b_stop' = TRUE
  /\ asleep' = {}
  /\ main_pc' = "join"
  /\ UNCHANGED <<connections, held, waiting, fail_count, checker, built,
                 freed, leaked>>

\* ... until the check thread has ended.
CloseJoined ==
  /\ main_pc = "join"
  /\ checker.pc = "exited"
  /\ mutex' = "free"
  /\ main_pc' = "closed"
  /\ UNCHANGED <<pool, b_stop, fail_count, checker, built, freed, leaked>>

-----------------------------------------------------------------------------
User(u) ==
  \/ GetConnection(u) \/ WaitForConnection(u) \/ GetNull(u) \/ Return(u)

Checker ==
  \/ RoundBegin \/ CheckerExit \/ ReadSize \/ NextPing
  \/ TakeIdle \/ TakeNothing \/ PingAnswered \/ PingFailed \/ ReturnPinged
  \/ ReconnectConnects \/ RoundEnd \/ ReconnectPushes

Next ==
  \/ \E u \in Users : User(u) \/ SpuriousWakeup(u)
  \/ Checker
  \/ Close \/ CloseJoined

(***************************************************************************)
(* A woken waiter and a user whose command is done go on; the checker      *)
(* runs; Redis is not down for ever (a PING and a connect that are tried   *)
(* again and again succeed again and again).  Nobody has to start a        *)
(* command, and main need not close the pool.                              *)
(***************************************************************************)
Fairness ==
  /\ \A u \in Users : /\ WF_vars(Return(u))
                      /\ WF_vars(u \in waiting /\ User(u))
  /\ WF_vars(Checker)
  /\ SF_vars(PingAnswered) /\ SF_vars(ReconnectConnects)
  /\ WF_vars(CloseJoined)

Spec == Init /\ [][Next]_vars

FairSpec == Spec /\ Fairness

-----------------------------------------------------------------------------
(***************************************************************************)
(* Properties.                                                             *)
(***************************************************************************)

CheckerPcs == {"sleep", "size", "loop", "take", "ping", "return", "refill",
               "push", "exited"}

\* Types; who sleeps is waiting and has no connection; the mutex is held
\* over several steps only by close().
TypeOK ==
  /\ built \in 0 .. PoolSize
  /\ connections \in Seq(Contexts)
  /\ held \in [Users -> Contexts \cup {NoContext}]
  /\ waiting \subseteq {u \in Users : held[u] = NoContext}
  /\ asleep \subseteq waiting
  /\ mutex = IF main_pc = "join" THEN "close" ELSE "free"
  /\ b_stop = (main_pc # "run")
  /\ fail_count \in Nat
  /\ checker \in [pc : CheckerPcs, left : Nat,
                  context : Contexts \cup {NoContext}]
  /\ checker.context # NoContext <=> checker.pc \in {"ping", "return", "push"}
  /\ main_pc \in {"run", "join", "closed"}
  /\ freed \subseteq Contexts
  /\ leaked \subseteq Contexts

Queued(c) == \E i \in 1 .. Len(connections) : connections[i] = c

\* A redisContext must not be used by two threads, nor after redisFree: a
\* connection is at one place only - once in the queue, with one user, with
\* the checker, freed, or dropped by a stopped pool.
OwnedOnce ==
  /\ TypeOK
  /\ \A i, j \in 1 .. Len(connections) :
       connections[i] = connections[j] => i = j
  /\ \A u \in Users : held[u] # NoContext =>
       /\ \A w \in Users : held[w] = held[u] => w = u
       /\ ~Queued(held[u])
       /\ held[u] # checker.context
       /\ held[u] \notin freed \cup leaked
  /\ checker.context # NoContext =>
       ~Queued(checker.context) /\ checker.context \notin freed \cup leaked
  /\ \A c \in freed \cup leaked : ~Queued(c)
  /\ freed \cap leaked = {}

\* No connection is lost: each one the constructor made is in the queue, in
\* somebody's hands, or counted in _fail_count as one to be replaced; only a
\* stopped pool drops any.
NoneLost ==
  /\ \A c \in Contexts :
       \/ Queued(c) \/ c \in freed \/ c \in leaked
       \/ checker.context = c
       \/ \E u \in Users : held[u] = c
  /\ leaked # {} => b_stop
  /\ fail_count = Cardinality(freed) + (IF checker.pc = "push" THEN 1 ELSE 0)

\* reconnect does not notify.  Even so a set of waiters does not sleep for
\* ever while Redis is up: the next round of the checker takes and returns
\* connections, and that notifies.  A pool whose constructor made no
\* connection at all is the exception: nothing ever replaces those.
NoEndlessWait ==
  built > 0 => \A S \in SUBSET Users \ {{}} : []<>(asleep # S)

\* close() comes to its end if the checker is between two rounds, or in a
\* round it can leave without the lock.  (Otherwise the checker waits for
\* the mutex close() holds, and close() for the checker.)
CloseCompletes ==
  ( /\ main_pc = "join"
    /\ \/ checker.pc = "sleep"
       \/ checker.pc \in {"loop", "refill"} /\ fail_count = 0 )
  ~> main_pc = "closed"
=============================================================================
