------------------------------ MODULE MySqlPool ------------------------------
(***************************************************************************)
(* The pool of MySQL connections (src/src/infra/mysql/MySqlPool.cpp) and   *)
(* the calls of MySqlDao that use it.  Each call takes a connection and    *)
(* returns it at its end.  One, getFriendList, calls getUserInfo for every *)
(* friend while it holds its own connection, and so takes a second one; it *)
(* runs on the logic worker only.  A thread pings the idle connections and *)
(* replaces those that fail.                                               *)
(*                                                                         *)
(* The connections are owned by unique_ptr, so that only their number      *)
(* matters here.  The pool is closed by a destructor after main, which is  *)
(* left out.                                                               *)
(***************************************************************************)
EXTENDS Naturals, FiniteSets

CONSTANTS
  Users,     \* the threads that call MySqlDao
  Nesters,   \* those of them that call getFriendList
  PoolSize,  \* _pool_size
  MaxFriends \* bound: the friends of a user

ASSUME MySqlPoolAssumption ==
  /\ IsFiniteSet(Users) /\ Nesters \subseteq Users
  /\ PoolSize \in Nat /\ MaxFriends \in Nat

VARIABLES
  idle,       \* the length of _pool
  asleep,     \* the users asleep in _cond.wait
  user,       \* where each user is, and how many friends it has to read yet
  fail_count, \* _fail_count
  checker,    \* where the check thread is, and its loop count
  built       \* history: how many connections the constructor made

vars == <<idle, asleep, user, fail_count, checker, built>>

\* The constructor connects until it fails.  A failure ends it: the check
\* thread is not started, and nothing is counted in _fail_count.
Init ==
  /\ built \in 0 .. PoolSize
  /\ idle = built
  /\ asleep = {}
  /\ user = [u \in Users |-> [pc |-> "out", friends |-> 0]]
  /\ fail_count = 0
  /\ checker = [pc |-> IF built = PoolSize THEN "sleep" ELSE "none", left |-> 0]

-----------------------------------------------------------------------------
(***************************************************************************)
(* The users.  user[u].pc:                                                 *)
(*   "out"     not in a call                                               *)
(*   "get"     in getConnection                                            *)
(*   "query"   has a connection                                            *)
(*   "get_2"   has one, and is in the getConnection of getUserInfo         *)
(*   "query_2" has two                                                     *)
(***************************************************************************)

\* A call of MySqlDao begins.
Call(u) ==
  /\ user[u].pc = "out"
  /\ \E n \in IF u \in Nesters THEN 0 .. MaxFriends ELSE {0} :
       user' = [user EXCEPT ![u] = [pc |-> "get", friends |-> n]]
  /\ UNCHANGED <<idle, asleep, fail_count, checker, built>>

Getting(u) == user[u].pc \in {"get", "get_2"} /\ u \notin asleep

\* getConnection: there is a connection ...
GetConnection(u) ==
  /\ Getting(u)
  /\ idle > 0
  /\ idle' = idle - 1
  /\ user' = [user EXCEPT ![u].pc = IF @ = "get" THEN "query" ELSE "query_2"]
  /\ UNCHANGED <<asleep, fail_count, checker, built>>

\* ... or there is none, and the user waits.
WaitForConnection(u) ==
  /\ Getting(u)
  /\ idle = 0
  /\ asleep' = asleep \cup {u}
  /\ UNCHANGED <<idle, user, fail_count, checker, built>>

SpuriousWakeup(u) ==
  /\ u \in asleep
  /\ asleep' = asleep \ {u}
  /\ UNCHANGED <<idle, user, fail_count, checker, built>>

\* getFriendList comes to the next row of its result.
NextFriend(u) ==
  /\ user[u].pc = "query" /\ user[u].friends > 0
  /\ user' = [user EXCEPT ![u] = [pc |-> "get_2", friends |-> @.friends - 1]]
  /\ UNCHANGED <<idle, asleep, fail_count, checker, built>>

\* Variant: nobody is notified.
PushSilently ==
  /\ idle' = idle + 1
  /\ UNCHANGED asleep

\* Push a connection and notify one waiter.
Push ==
  /\ idle' = idle + 1
  /\ IF asleep = {} THEN UNCHANGED asleep
                    ELSE \E u \in asleep : asleep' = asleep \ {u}

\* The Defer of a call returns its connection.  (An SQLException cuts the
\* rows short.)
Return(u) ==
  /\ \/ /\ user[u].pc = "query_2"
        /\ user' = [user EXCEPT ![u].pc = "query"]
     \/ /\ user[u].pc = "query"
        /\ user' = [user EXCEPT ![u] = [pc |-> "out", friends |-> 0]]
  /\ Push
  /\ UNCHANGED <<fail_count, checker, built>>

-----------------------------------------------------------------------------
(***************************************************************************)
(* The check thread.  checker.pc:                                          *)
(*   "none"    it was never started                                        *)
(*   "sleep"   between two rounds                                          *)
(*   "loop"    at the test of the for loop                                 *)
(*   "ping"    has taken a connection                                      *)
(*   "refill"  at the test of the while loop                               *)
(*   "pushed"  reconnect has pushed a connection and returned true         *)
(***************************************************************************)

\* A round begins with the length of the queue.
RoundBegin ==
  /\ checker.pc = "sleep"
  /\ checker' = [pc |-> "loop", left |-> idle]
  /\ UNCHANGED <<idle, asleep, user, fail_count, built>>

\* Take the front connection ...
TakeIdle ==
  /\ checker.pc = "loop" /\ checker.left > 0
  /\ idle > 0
  /\ idle' = idle - 1
  /\ checker' = [pc |-> "ping", left |-> checker.left - 1]
  /\ UNCHANGED <<asleep, user, fail_count, built>>

\* ... until the loop ends, or the users have taken them all.
LoopEnd ==
  /\ checker.pc = "loop"
  /\ checker.left = 0 \/ idle = 0
  /\ checker' = [pc |-> "refill", left |-> 0]
  /\ UNCHANGED <<idle, asleep, user, fail_count, built>>

\* The connection was used a moment ago, or answers: the Defer returns it.
PingAnswered ==
  /\ checker.pc = "ping"
  /\ Push
  /\ checker' = [checker EXCEPT !.pc = "loop"]
  /\ UNCHANGED <<user, fail_count, built>>

\* It does not: it is destroyed and counted.
PingFailed ==
  /\ checker.pc = "ping"
  /\ fail_count' = fail_count + 1
  /\ checker' = [checker EXCEPT !.pc = "loop"]
  /\ UNCHANGED <<idle, asleep, user, built>>

\* reconnect connects and pushes, without a notification.
Reconnect ==
  /\ checker.pc = "refill" /\ fail_count > 0
  /\ idle' = idle + 1
  /\ checker' = [checker EXCEPT !.pc = "pushed"]
  /\ UNCHANGED <<asleep, user, fail_count, built>>

\* Variant: the decrement is left out.
ReconnectedNoCount ==
  /\ checker.pc = "pushed"
  /\ checker' = [checker EXCEPT !.pc = "refill"]
  /\ UNCHANGED <<idle, asleep, user, fail_count, built>>

Reconnected ==
  /\ checker.pc = "pushed"
  /\ fail_count' = fail_count - 1
  /\ checker' = [checker EXCEPT !.pc = "refill"]
  /\ UNCHANGED <<idle, asleep, user, built>>

\* Nothing to replace, or MySQL cannot be reached.
RoundEnd ==
  /\ checker.pc = "refill"
  /\ checker' = [checker EXCEPT !.pc = "sleep"]
  /\ UNCHANGED <<idle, asleep, user, fail_count, built>>

-----------------------------------------------------------------------------
InCall(u) ==
  GetConnection(u) \/ WaitForConnection(u) \/ NextFriend(u) \/ Return(u)

Checker ==
  \/ RoundBegin \/ TakeIdle \/ LoopEnd \/ PingAnswered \/ PingFailed
  \/ Reconnect \/ Reconnected \/ RoundEnd

Next ==
  \/ \E u \in Users : Call(u) \/ InCall(u) \/ SpuriousWakeup(u)
  \/ Checker

\* A call goes on once it has begun; the check thread runs; MySQL is not
\* down for ever.
Fairness ==
  /\ \A u \in Users : WF_vars(InCall(u))
  /\ WF_vars(Checker)
  /\ SF_vars(PingAnswered) /\ SF_vars(Reconnect)

Spec == Init /\ [][Next]_vars

FairSpec == Spec /\ Fairness

-----------------------------------------------------------------------------
(***************************************************************************)
(* Properties.                                                             *)
(***************************************************************************)

HasConnection == {u \in Users : user[u].pc \in {"query", "get_2", "query_2"}}

HasTwo == {u \in Users : user[u].pc = "query_2"}

\* The connections there are: in the queue, with the users, being pinged.
Present ==
  idle + (IF checker.pc = "ping" THEN 1 ELSE 0)
       + Cardinality(HasConnection) + Cardinality(HasTwo)

\* Types; the pool never has more connections than its size.
TypeOK ==
  /\ idle \in Nat
  /\ asleep \subseteq {u \in Users : user[u].pc \in {"get", "get_2"}}
  /\ user \in [Users -> [pc : {"out", "get", "query", "get_2", "query_2"},
                         friends : 0 .. MaxFriends]]
  /\ fail_count \in Nat
  /\ checker \in [pc : {"none", "sleep", "loop", "ping", "refill", "pushed"},
                  left : 0 .. PoolSize]
  /\ built \in 0 .. PoolSize
  /\ Present <= PoolSize

\* Every connection the constructor made is there, or is counted as one to
\* be replaced, whatever the users and the check thread do meanwhile.
NoneLost ==
  /\ TypeOK
  /\ Present + fail_count = built + (IF checker.pc = "pushed" THEN 1 ELSE 0)

\* No set of waiters sleeps for ever, although getFriendList waits for a
\* second connection while it holds one, and reconnect notifies nobody: as
\* long as the constructor made more connections than threads may hold one
\* and wait for another.
NoEndlessWait ==
  built > Cardinality(Nesters) =>
    \A S \in SUBSET Users \ {{}} : []<>(asleep # S)
=============================================================================
