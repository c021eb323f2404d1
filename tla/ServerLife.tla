------------------------------ MODULE ServerLife ------------------------------
(***************************************************************************)
(* The life of the servers around the sessions of Presence: start, orderly *)
(* stop, crash and restart (main in ChatServer.cpp).                       *)
(*                                                                         *)
(*   start   writes the login count 0, then accepts connections            *)
(*   stop    the signal handler stops the I/O thread; main then deletes    *)
(*           the login count, closes the Redis pool and returns; the       *)
(*           destructor of LogicSystem lets the worker finish its queue,   *)
(*           without Redis                                                 *)
(*   hang    a stop may hang in two places: main joins the check thread of *)
(*           the pool with the lock held that this thread may wait for,    *)
(*           and it joins a worker that may have missed the stop           *)
(*   crash   everything in memory is lost, Redis keeps what it has         *)
(*                                                                         *)
(* The worker runs on throughout the stop.  When the check thread waits    *)
(* for the lock is the subject of RedisConPool, when the worker misses the *)
(* stop that of LogicSystem; here either may happen at any stop.           *)
(***************************************************************************)
EXTENDS Presence

CONSTANTS
  Unstable,    \* bound: the servers that stop, crash or lose Redis
  MaxRestarts, \* bound: restarts of all servers
  MaxLost      \* bound: servers and users with a failed command

ASSUME ServerLifeAssumption ==
  Unstable \subseteq Servers /\ MaxRestarts \in Nat /\ MaxLost \in Nat

VARIABLES
  phase,    \* how far main is: "down", "serving", "stopping" (the I/O thread
            \* has stopped), "deleted" (hDel), "closed" (RedisMgr::close),
            \* "hung" (in a join that does not return)
  listed,   \* the servers that have a field in the hash "logincount"
  restarts, \* how often a server was started again
  \* history
  backlog,  \* servers that had a login to handle at their hDel
  unlisted, \* servers that stopped in order and did not fail at their hDel
  lost,     \* servers that had a failed count command since their start
  lost_uip  \* users whose uip key could not be written at their last login

life == <<phase, restarts>>

lvars == <<reading, b_close, user_uid, sessions, uid_session, inbox, worker,
           io, login_count, uip, logins, hasty, contested, overlapped,
           phase, listed, restarts, backlog, unlisted, lost, lost_uip>>

\* Every server has started once.
LifeInit ==
  /\ Init
  /\ phase = [v \in Servers |-> "serving"]
  /\ listed = Servers
  /\ restarts = 0
  /\ backlog = {} /\ unlisted = {} /\ lost = {} /\ lost_uip = {}

-----------------------------------------------------------------------------
(***************************************************************************)
(* What the steps of the two threads do to the field and to the history.   *)
(***************************************************************************)

\* The counts that the threads of v read in this step.
CountReadStep(v) ==
  {n \in {worker'[v].count} : worker[v].pc = "idle" /\ worker'[v].pc = "hset"}
    \cup
  {n \in {io'[v].count} : io[v].pc = "idle" /\ io'[v].pc = "hset"}

\* The counts that the threads of v write in this step.
CountWriteStep(v) ==
  {n \in {worker[v].count + 1} : worker[v].pc = "hset" /\ worker'[v].pc = "set_uid"}
    \cup
  {n \in {IF io[v].count > 0 THEN io[v].count - 1 ELSE 0} :
     io[v].pc = "hset" /\ io'[v].pc = "remove"}

Written(v) == login_count'[v] \in CountWriteStep(v)

CountCommandFails(v) ==
  \/ \E n \in CountReadStep(v) : n # login_count[v]
  \/ CountWriteStep(v) # {} /\ ~Written(v)

IpUser(v) ==
  {u \in Uids : /\ worker[v].pc = "set_ip" /\ worker'[v].pc = "bind"
                /\ Head(inbox[v]).uid = u}

Observe(v) ==
  /\ listed' = listed \cup (IF Written(v) THEN {v} ELSE {})
  /\ lost' = lost \cup (IF CountCommandFails(v) THEN {v} ELSE {})
  /\ lost_uip' = {u \in lost_uip : u \notin IpUser(v)}
                   \cup {u \in IpUser(v) : uip'[u] # v}
  /\ UNCHANGED <<life, backlog, unlisted>>

-----------------------------------------------------------------------------
(***************************************************************************)
(* The threads of Presence, while they run.                                *)
(***************************************************************************)

\* Bound: commands fail on the servers that may stop, and of the failures
\* the first MaxLost are of interest.
FewFailures(v) ==
  \/ lost' \subseteq lost /\ lost_uip' \subseteq lost_uip
  \/ v \in Unstable /\ Cardinality(lost') + Cardinality(lost_uip') <= MaxLost

IoStep(v) ==
  /\ phase[v] = "serving"
  /\ IoThread(v)
  /\ Observe(v)
  /\ FewFailures(v)

WorkerStep(v) ==
  /\ phase[v] \in {"serving", "stopping", "deleted"}
  /\ Worker(v)
  /\ Observe(v)
  /\ FewFailures(v)

\* Variant: a command of a closed pool does not return.
CommandHangs(v) == FALSE

\* Variant: a login whose "uip_" key cannot be written ends there.
CommandGivesUp(v) ==
  /\ \/ /\ worker[v].pc = "idle" /\ inbox[v] # << >>
        /\ worker' = [worker EXCEPT ![v] = [pc |-> "hset", count |-> 0]]
        /\ UNCHANGED inbox
     \/ /\ worker[v].pc = "hset"
        /\ worker' = [worker EXCEPT ![v].pc = "set_uid"]
        /\ UNCHANGED inbox
     \/ /\ worker[v].pc = "set_ip"
        /\ worker' = [worker EXCEPT ![v] = WorkerIdle]
        /\ inbox' = [inbox EXCEPT ![v] = Tail(@)]
  /\ UNCHANGED <<connection, sessions, uid_session, io, redis, history>>

\* getConnection answers nullptr once the pool is closed: hGet reads as 0,
\* hSet and set do nothing.  (The first case is a login whose token was read
\* before.  Later ones find no token and are rejected; here they may go on.)
CommandWithoutRedis(v) ==
  /\ \/ /\ worker[v].pc = "idle" /\ inbox[v] # << >>
        /\ worker' = [worker EXCEPT ![v] = [pc |-> "hset", count |-> 0]]
     \/ /\ worker[v].pc = "hset"
        /\ worker' = [worker EXCEPT ![v].pc = "set_uid"]
     \/ /\ worker[v].pc = "set_ip"
        /\ worker' = [worker EXCEPT ![v].pc = "bind"]
  /\ UNCHANGED <<connection, sessions, uid_session, inbox, io, redis, history>>

\* The worker finishes its queue after the pool has been closed.  If close()
\* hangs, it gets as far as its next Redis command, which waits for the lock;
\* that a login is rejected belongs to a token read before.
WorkerDrains(v) ==
  /\ phase[v] \in {"closed", "hung"}
  /\ \/ LoginRejected(v) \/ LoginSetUserId(v) \/ LoginSetUserSession(v)
     \/ phase[v] = "closed" /\ CommandWithoutRedis(v)
  /\ Observe(v)

-----------------------------------------------------------------------------
(***************************************************************************)
(* main.                                                                   *)
(***************************************************************************)

\* Variant: the count of an earlier run is kept.
StartKeepsCount(v) ==
  /\ phase[v] = "down"
  /\ restarts < MaxRestarts
  /\ phase' = [phase EXCEPT ![v] = "serving"]
  /\ restarts' = restarts + 1
  /\ listed' = listed \cup {v}
  /\ lost' = lost \ {v}
  /\ backlog' = backlog \ {v} /\ unlisted' = unlisted \ {v}
  /\ UNCHANGED <<connection, sessions, uid_session, inbox, worker, io, redis,
                 history, lost_uip>>

\* main up to io_context.run(): the login count is set to 0, unless Redis
\* fails, which main does not look at.
Start(v) ==
  /\ phase[v] = "down"
  /\ restarts < MaxRestarts
  /\ phase' = [phase EXCEPT ![v] = "serving"]
  /\ restarts' = restarts + 1
  /\ \/ /\ login_count' = [login_count EXCEPT ![v] = 0]
        /\ listed' = listed \cup {v}
        /\ lost' = lost \ {v}
     \/ /\ RedisMayFail
        /\ lost' = lost \cup {v} /\ Cardinality(lost') <= MaxLost
        /\ UNCHANGED <<login_count, listed>>
  /\ backlog' = backlog \ {v} /\ unlisted' = unlisted \ {v}
  /\ UNCHANGED <<connection, sessions, uid_session, inbox, worker, io, uip,
                 history, lost_uip>>

\* main gets to p, and nothing else happens.
GoesTo(v, p) ==
  /\ phase' = [phase EXCEPT ![v] = p]
  /\ UNCHANGED <<vars, listed, restarts, backlog, unlisted, lost, lost_uip>>

\* The signal handler runs on the I/O thread, between two handlers of it,
\* and stops it.  Connections are not closed, the worker is not told.
Signal(v) ==
  /\ v \in Unstable
  /\ phase[v] = "serving" /\ io[v].pc = "idle"
  /\ GoesTo(v, "stopping")

\* RedisMgr::hDel: the field is deleted, or Redis fails.
DeleteCount(v) ==
  /\ backlog' = IF inbox[v] # << >> THEN backlog \cup {v} ELSE backlog
  /\ \/ /\ login_count' = [login_count EXCEPT ![v] = 0]
        /\ listed' = listed \ {v}
        /\ unlisted' = unlisted \cup {v}
     \/ RedisMayFail /\ UNCHANGED <<login_count, listed, unlisted>>
  /\ UNCHANGED <<connection, sessions, uid_session, inbox, worker, io, uip,
                 history, restarts, lost, lost_uip>>

\* Variant: the signal handler deletes the count and leaves the I/O thread
\* running.
HDelFirst(v) ==
  /\ v \in Unstable
  /\ phase[v] = "serving"
  /\ v \notin unlisted
  /\ UNCHANGED phase
  /\ DeleteCount(v)

\* main deletes the count when the I/O thread has stopped.
HDel(v) ==
  /\ phase[v] = "stopping"
  /\ phase' = [phase EXCEPT ![v] = "deleted"]
  /\ DeleteCount(v)

\* main closes the Redis pool.  A command that is under way counts as done
\* before; one that comes while close() joins the check thread waits for the
\* lock and then finds the pool closed.
CloseRedis(v) == phase[v] = "deleted" /\ GoesTo(v, "closed")

\* The check thread is in a round and waits for the lock that close() holds
\* while it joins the check thread.
CloseHangs(v) == phase[v] = "deleted" /\ GoesTo(v, "hung")

\* The worker has found its queue empty and _b_stop not set, and begins to
\* wait when the destructor of LogicSystem has notified it already: the join
\* does not return.
StopUnnoticed(v) ==
  /\ phase[v] = "closed"
  /\ worker[v].pc = "idle" /\ inbox[v] = << >>
  /\ GoesTo(v, "hung")

OfServer(v) == {s \in Sessions : Home[s] = v}

\* The process ends: its connections break, its memory is gone.  The history
\* of its connections is closed.
Ends(v) ==
  /\ phase' = [phase EXCEPT ![v] = "down"]
  /\ reading' = [s \in Sessions |->
       IF s \in OfServer(v) /\ reading[s] # "new" THEN "dead" ELSE reading[s]]
  /\ b_close' = [s \in Sessions |->
       b_close[s] \/ (s \in OfServer(v) /\ reading[s] # "new")]
  /\ user_uid' = [s \in Sessions |->
       IF s \in OfServer(v) THEN NoUid ELSE user_uid[s]]
  /\ sessions' = [sessions EXCEPT ![v] = {}]
  /\ uid_session' = [uid_session EXCEPT ![v] = [u \in Uids |-> NoSession]]
  /\ inbox' = [inbox EXCEPT ![v] = << >>]
  /\ worker' = [worker EXCEPT ![v] = WorkerIdle]
  /\ io' = [io EXCEPT ![v] = IoIdle]
  /\ logins' = [s \in Sessions |->
       IF s \in OfServer(v) THEN << >> ELSE logins[s]]
  /\ hasty' = hasty \ OfServer(v)
  /\ contested' = {c \in contested : <<c[2], c[3]>> # <<v, v>>}
  /\ overlapped' = overlapped \ {v}
  /\ UNCHANGED <<redis, listed, restarts, backlog, lost, lost_uip>>

\* main has returned, and the worker has finished its queue.
ProcessEnds(v) ==
  /\ phase[v] = "closed"
  /\ worker[v].pc = "idle" /\ inbox[v] = << >>
  /\ Ends(v)
  /\ UNCHANGED unlisted

\* The process ends at any other moment.
Crash(v) ==
  /\ v \in Unstable
  /\ phase[v] # "down"
  /\ Ends(v)
  /\ unlisted' = unlisted \ {v}

Main(v) ==
  \/ Start(v) \/ Signal(v) \/ HDel(v) \/ CloseRedis(v) \/ CloseHangs(v)
  \/ StopUnnoticed(v) \/ ProcessEnds(v)

LifeNext ==
  \E v \in Servers :
    IoStep(v) \/ WorkerStep(v) \/ WorkerDrains(v) \/ Main(v) \/ Crash(v)

LifeSpec == LifeInit /\ [][LifeNext]_lvars

\* The worker goes on; so does the main thread, which is the I/O thread as
\* long as the server serves, once it has begun a close or a stop, unless it
\* hangs.  (The calls a handler makes end, and there is a Redis connection
\* for hDel: with none at all main waits before it serves.)
LifeFairness ==
  \A v \in Servers :
    /\ WF_lvars(WorkerStep(v) \/ WorkerDrains(v))
    /\ WF_lvars(\/ io[v].pc # "idle" /\ IoStep(v)
                \/ HDel(v) \/ CloseRedis(v) \/ ProcessEnds(v))

FairLifeSpec == LifeSpec /\ LifeFairness

-----------------------------------------------------------------------------
(***************************************************************************)
(* Properties.  ClosedUserUnbound of Presence is checked here as well: the *)
(* commands of Redis fail and servers come and go.                         *)
(***************************************************************************)

Phases == {"down", "serving", "stopping", "deleted", "closed", "hung"}

\* Types; and a server without a field in the hash has no count.
LifeTypeOK ==
  /\ TypeOK
  /\ phase \in [Servers -> Phases]
  /\ restarts \in 0 .. MaxRestarts
  /\ listed \subseteq Servers /\ backlog \subseteq Servers
  /\ unlisted \subseteq Servers /\ lost \subseteq Servers
  /\ lost_uip \subseteq Uids
  /\ \A v \in Servers : v \notin listed => login_count[v] = 0

\* UserMgr fits the sessions, as Presence says it, whatever Redis does, also
\* while the worker finishes its queue without Redis, and after a restart.
BindingsFitSessions == LifeTypeOK /\ NoStaleBinding /\ ReachableWhenLoggedIn

\* The count of a running server counts its own sessions and none of an
\* earlier life, as in LoginCountExact, unless a count command failed: an
\* hGet that fails reads as 0, and the count starts over from there.
CountSinceStart ==
  \A v \in Servers : phase[v] = "serving" => v \in lost \/ CountExact(v)

\* The uip key of a user who is logged in names the server, as in
\* RoutableByUip, whatever keys crashed servers have left behind, unless the
\* key could not be written.
RoutableAfterCrash ==
  \A s \in Sessions, u \in Uids : u \in lost_uip \/ Routable(s, u)

\* A server that is stopped in order offers itself no longer: its count is
\* gone from Redis, unless a login was still to be handled when main deleted
\* it (the worker writes the count again until the pool is closed), or the
\* deletion failed.
StoppedIsUnlisted ==
  \A v \in Servers : v \in unlisted /\ v \in listed => v \in backlog

\* A stop comes to its end although the worker has logins to handle and no
\* Redis any more, unless it hangs in one of the two joins: of the check
\* thread that waits for the lock close() holds, or of the worker that missed
\* the stop notification.  A login without Redis is no third way to hang.
ShutdownCompletes ==
  \A v \in Servers : phase[v] = "stopping" ~> phase[v] \in {"down", "hung"}
=============================================================================
