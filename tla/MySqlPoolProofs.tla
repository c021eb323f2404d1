--------------------------- MODULE MySqlPoolProofs ---------------------------
(***************************************************************************)
(* Proofs about MySqlPool: no connection is lost, the pool never has more  *)
(* connections than its size, and whenever threads sleep somebody is there *)
(* who can push the connection they wait for.                              *)
(***************************************************************************)
EXTENDS MySqlPool, FiniteSetTheorems, TLAPS

\* As long as the constructor made more connections than threads may hold
\* one and wait for another, one of the connections is about to be free: it
\* is in the queue, it is to be replaced, it is being pinged, or it is with a
\* user who does not wait.
SomeoneGoesOn ==
  built > Cardinality(Nesters) =>
    \/ idle > 0 \/ fail_count > 0 \/ checker.pc = "ping"
    \/ \E u \in Users : user[u].pc \in {"query", "query_2"}

-----------------------------------------------------------------------------
(***************************************************************************)
(* The inductive invariant.                                                *)
(***************************************************************************)

Waiting == {u \in Users : user[u].pc \in {"get", "get_2"}}

\* TypeOK, but for the bound on the connections.
Types ==
  /\ idle \in Nat
  /\ asleep \subseteq Waiting
  /\ user \in [Users -> [pc : {"out", "get", "query", "get_2", "query_2"},
                         friends : 0 .. MaxFriends]]
  /\ fail_count \in Nat
  /\ checker \in [pc : {"none", "sleep", "loop", "ping", "refill", "pushed"},
                  left : 0 .. PoolSize]
  /\ built \in 0 .. PoolSize

\* The connections that are there and those to be replaced are those the
\* constructor made; between the push of reconnect and the decrement of
\* _fail_count one is counted twice.
AllCounted ==
  Present + fail_count = built + (IF checker.pc = "pushed" THEN 1 ELSE 0)

\* reconnect pushes only what was counted as failed.
FailureKnown == checker.pc = "pushed" => fail_count > 0

\* Only a call of getFriendList has rows to read, and waits for a second
\* connection.
OnlyNesters ==
  \A u \in Users :
    user[u].friends > 0 \/ user[u].pc \in {"get_2", "query_2"} => u \in Nesters

Inv == Types /\ AllCounted /\ FailureKnown /\ OnlyNesters

-----------------------------------------------------------------------------
(***************************************************************************)
(* Counting the connections of the users.                                  *)
(***************************************************************************)

\* How the cardinality of a set differs after a step of u alone.
CountedWith(A, B, u) ==
  /\ (u \in A <=> u \in B) => Cardinality(B) = Cardinality(A)
  /\ u \in A \ B => Cardinality(B) = Cardinality(A) - 1
  /\ u \in B \ A => Cardinality(B) = Cardinality(A) + 1

LEMMA CountOne ==
  ASSUME NEW A \in SUBSET Users, NEW B \in SUBSET Users, NEW u \in Users,
         \A w \in Users \ {u} : w \in A <=> w \in B
  PROVE  CountedWith(A, B, u)
<1>1. IsFiniteSet(A)
  BY FS_Subset, MySqlPoolAssumption
<1>2. ASSUME u \in A <=> u \in B PROVE Cardinality(B) = Cardinality(A)
  <2>1. A = B
    BY <1>2
  <2> QED
    BY <2>1
<1>3. ASSUME u \in A \ B PROVE Cardinality(B) = Cardinality(A) - 1
  <2>1. B = A \ {u}
    BY <1>3
  <2> QED
    BY <1>1, <1>3, <2>1, FS_RemoveElement
<1>4. ASSUME u \in B \ A PROVE Cardinality(B) = Cardinality(A) + 1
  <2>1. B = A \cup {u}
    BY <1>4
  <2> QED
    BY <1>1, <1>4, <2>1, FS_AddElement
<1> QED
  BY <1>2, <1>3, <1>4 DEF CountedWith

\* The counts of Present are natural numbers.
LEMMA Counted ==
  Cardinality(HasConnection) \in Nat /\ Cardinality(HasTwo) \in Nat
<1>1. HasConnection \in SUBSET Users /\ HasTwo \in SUBSET Users
  BY DEF HasConnection, HasTwo
<1>2. IsFiniteSet(HasConnection) /\ IsFiniteSet(HasTwo)
  BY <1>1, FS_Subset, MySqlPoolAssumption
<1> QED
  BY <1>2, FS_CardinalityType

\* A step that leaves every pc alone leaves them alone.
LEMMA CountsUnchanged ==
  ASSUME \A u \in Users : user'[u].pc = user[u].pc
  PROVE  /\ Cardinality(HasConnection') = Cardinality(HasConnection)
         /\ Cardinality(HasTwo') = Cardinality(HasTwo)
<1>1. HasConnection' = HasConnection /\ HasTwo' = HasTwo
  BY DEF HasConnection, HasTwo
<1> QED
  BY <1>1

\* A step of user u changes them by what u has.
LEMMA CountsOfUser ==
  ASSUME NEW u \in Users, \A w \in Users \ {u} : user'[w] = user[w]
  PROVE  /\ CountedWith(HasConnection, HasConnection', u)
         /\ CountedWith(HasTwo, HasTwo', u)
<1>1. /\ HasConnection \in SUBSET Users /\ HasConnection' \in SUBSET Users
      /\ \A w \in Users \ {u} : w \in HasConnection <=> w \in HasConnection'
  BY DEF HasConnection
<1>2. /\ HasTwo \in SUBSET Users /\ HasTwo' \in SUBSET Users
      /\ \A w \in Users \ {u} : w \in HasTwo <=> w \in HasTwo'
  BY DEF HasTwo
<1> QED
  BY <1>1, <1>2, CountOne

-----------------------------------------------------------------------------
(***************************************************************************)
(* The invariant holds initially, and every step keeps it.                 *)
(***************************************************************************)

LEMMA InitInv == Init => Inv
<1> SUFFICES ASSUME Init PROVE Inv
  OBVIOUS
<1>1. Types /\ FailureKnown /\ OnlyNesters
  BY MySqlPoolAssumption
     DEF Init, Types, Waiting, FailureKnown, OnlyNesters
<1>2. HasConnection = {} /\ HasTwo = {}
  BY DEF Init, HasConnection, HasTwo
<1>3. Cardinality(HasConnection) = 0 /\ Cardinality(HasTwo) = 0
  BY <1>2, FS_EmptySet
<1>4. AllCounted
  BY <1>3, MySqlPoolAssumption DEF Init, AllCounted, Present
<1> QED
  BY <1>1, <1>4 DEF Inv

\* Fewer connections are counted than the pool may have.
LEMMA Bounded == Inv => Present \in 0 .. PoolSize /\ idle <= PoolSize
<1> SUFFICES ASSUME Inv PROVE Present \in 0 .. PoolSize /\ idle <= PoolSize
  OBVIOUS
<1>1. /\ idle \in Nat /\ fail_count \in Nat /\ built \in 0 .. PoolSize
      /\ PoolSize \in Nat
  BY MySqlPoolAssumption DEF Inv, Types
<1> QED
  BY <1>1, Counted DEF Inv, AllCounted, FailureKnown, Present

\* Steps that change no pc of a user: one part per kind.
LEMMA WaitersInv ==
  ASSUME Inv, NEW u \in Users, WaitForConnection(u) \/ SpuriousWakeup(u)
  PROVE  Inv'
<1>1. UNCHANGED <<idle, user, fail_count, checker, built>>
  BY DEF WaitForConnection, SpuriousWakeup
<1>2. asleep' \subseteq Waiting
  BY DEF WaitForConnection, SpuriousWakeup, Getting, Waiting, Inv, Types
<1>3. Types' /\ FailureKnown' /\ OnlyNesters'
  BY <1>1, <1>2 DEF Inv, Types, Waiting, FailureKnown, OnlyNesters
<1>4. AllCounted'
  BY <1>1, CountsUnchanged DEF Inv, AllCounted, Present
<1> QED
  BY <1>3, <1>4 DEF Inv

\* A call begins, or comes to its next row: what the user has stays.
LEMMA CallInv ==
  ASSUME Inv, NEW u \in Users, Call(u) \/ NextFriend(u)
  PROVE  Inv'
<1>1. UNCHANGED <<idle, asleep, fail_count, checker, built>>
  BY DEF Call, NextFriend
<1>2. PICK p \in {"get", "get_2"}, n \in 0 .. MaxFriends :
        /\ user' = [user EXCEPT ![u] = [pc |-> p, friends |-> n]]
        /\ p = "get" <=> user[u].pc = "out"
        /\ p = "get_2" <=> user[u].pc = "query"
        /\ n > 0 \/ p = "get_2" => u \in Nesters
  <2>1. CASE Call(u)
    <3>1. PICK n \in IF u \in Nesters THEN 0 .. MaxFriends ELSE {0} :
            user' = [user EXCEPT ![u] = [pc |-> "get", friends |-> n]]
      BY <2>1 DEF Call
    <3>2. n \in 0 .. MaxFriends /\ (n > 0 => u \in Nesters)
      BY <3>1, MySqlPoolAssumption
    <3> QED
      BY <2>1, <3>1, <3>2 DEF Call
  <2>2. CASE NextFriend(u)
    <3>1. user[u].friends \in 0 .. MaxFriends /\ u \in Nesters
      BY <2>2 DEF NextFriend, Inv, Types, OnlyNesters
    <3>2. user[u].friends - 1 \in 0 .. MaxFriends
      BY <2>2, <3>1, MySqlPoolAssumption DEF NextFriend
    <3> QED
      BY <2>2, <3>1, <3>2 DEF NextFriend
  <2> QED
    BY <2>1, <2>2
<1>3. /\ user'[u] = [pc |-> p, friends |-> n]
      /\ \A w \in Users \ {u} : user'[w] = user[w]
  BY <1>2 DEF Inv, Types
<1>4. Types'
  <2>1. asleep \subseteq Waiting'
    BY <1>3, <1>2 DEF Waiting, Inv, Types
  <2> QED
    BY <1>1, <1>2, <2>1 DEF Inv, Types
<1>5. AllCounted'
  <2>1. /\ u \in HasConnection <=> u \in HasConnection'
        /\ u \notin HasTwo /\ u \notin HasTwo'
    BY <1>2, <1>3 DEF HasConnection, HasTwo
  <2> QED
    BY <1>1, <1>3, <2>1, CountsOfUser
       DEF CountedWith, Inv, AllCounted, Present
<1>6. FailureKnown' /\ OnlyNesters'
  BY <1>1, <1>2, <1>3 DEF Inv, FailureKnown, OnlyNesters
<1> QED
  BY <1>4, <1>5, <1>6 DEF Inv

\* getConnection takes a connection out of the queue.
LEMMA GetConnectionInv ==
  ASSUME Inv, NEW u \in Users, GetConnection(u)
  PROVE  Inv'
<1>1. /\ UNCHANGED <<asleep, fail_count, checker, built>>
      /\ idle' = idle - 1 /\ idle \in Nat /\ idle > 0 /\ u \notin asleep
  BY DEF GetConnection, Getting, Inv, Types
<1>2. /\ user[u].pc \in {"get", "get_2"}
      /\ user'[u].pc = (IF user[u].pc = "get" THEN "query" ELSE "query_2")
      /\ user'[u].friends = user[u].friends
      /\ \A w \in Users \ {u} : user'[w] = user[w]
  BY DEF GetConnection, Getting, Inv, Types
<1>3. Types'
  <2>1. asleep \subseteq Waiting'
    BY <1>1, <1>2 DEF Waiting, Inv, Types
  <2>2. user' \in [Users -> [pc : {"out", "get", "query", "get_2", "query_2"},
                             friends : 0 .. MaxFriends]]
    BY DEF GetConnection, Inv, Types
  <2> QED
    BY <1>1, <2>1, <2>2 DEF Inv, Types
<1>4. AllCounted'
  <2>1. CASE user[u].pc = "get"
    <3>1. /\ u \in HasConnection' \ HasConnection
          /\ u \notin HasTwo /\ u \notin HasTwo'
      BY <1>2, <2>1 DEF HasConnection, HasTwo
    <3> QED
      BY <1>1, <1>2, <3>1, Counted, CountsOfUser
         DEF CountedWith, Inv, AllCounted, Present
  <2>2. CASE user[u].pc = "get_2"
    <3>1. /\ u \in HasConnection /\ u \in HasConnection'
          /\ u \in HasTwo' \ HasTwo
      BY <1>2, <2>2 DEF HasConnection, HasTwo
    <3> QED
      BY <1>1, <1>2, <3>1, Counted, CountsOfUser
         DEF CountedWith, Inv, AllCounted, Present
  <2> QED
    BY <1>2, <2>1, <2>2
<1>5. FailureKnown' /\ OnlyNesters'
  BY <1>1, <1>2 DEF Inv, FailureKnown, OnlyNesters
<1> QED
  BY <1>3, <1>4, <1>5 DEF Inv

\* A push and its notification: one more in the queue, and none falls asleep.
LEMMA PushEffect ==
  ASSUME Inv, Push
  PROVE  idle' = idle + 1 /\ idle \in Nat /\ asleep' \subseteq asleep
BY DEF Push, Inv, Types

\* returnConnection puts the last connection the user took back.
LEMMA ReturnInv ==
  ASSUME Inv, NEW u \in Users, Return(u)
  PROVE  Inv'
<1>1. /\ UNCHANGED <<fail_count, checker, built>>
      /\ idle' = idle + 1 /\ idle \in Nat /\ asleep' \subseteq asleep
  BY PushEffect DEF Return
<1>2. /\ user[u].pc \in {"query", "query_2"}
      /\ user'[u].pc = (IF user[u].pc = "query_2" THEN "query" ELSE "out")
      /\ user'[u].friends \in {0, user[u].friends}
      /\ \A w \in Users \ {u} : user'[w] = user[w]
  BY DEF Return, Inv, Types
<1>3. Types'
  <2>1. asleep' \subseteq Waiting'
    BY <1>1, <1>2 DEF Waiting, Inv, Types
  <2>2. user' \in [Users -> [pc : {"out", "get", "query", "get_2", "query_2"},
                             friends : 0 .. MaxFriends]]
    <3>1. 0 \in 0 .. MaxFriends
      BY MySqlPoolAssumption
    <3> QED
      BY <3>1 DEF Return, Inv, Types
  <2> QED
    BY <1>1, <2>1, <2>2 DEF Inv, Types
<1>4. AllCounted'
  <2>1. CASE user[u].pc = "query_2"
    <3>1. /\ u \in HasConnection /\ u \in HasConnection'
          /\ u \in HasTwo \ HasTwo'
      BY <1>2, <2>1 DEF HasConnection, HasTwo
    <3> QED
      BY <1>1, <1>2, <3>1, Counted, CountsOfUser
         DEF CountedWith, Inv, AllCounted, Present
  <2>2. CASE user[u].pc = "query"
    <3>1. /\ u \in HasConnection \ HasConnection'
          /\ u \notin HasTwo /\ u \notin HasTwo'
      BY <1>2, <2>2 DEF HasConnection, HasTwo
    <3> QED
      BY <1>1, <1>2, <3>1, Counted, CountsOfUser
         DEF CountedWith, Inv, AllCounted, Present
  <2> QED
    BY <1>2, <2>1, <2>2
<1>5. FailureKnown' /\ OnlyNesters'
  BY <1>1, <1>2 DEF Inv, FailureKnown, OnlyNesters
<1> QED
  BY <1>3, <1>4, <1>5 DEF Inv

\* What a step of the check thread does to the queue, to _fail_count and to
\* itself.  Only while it pings has it a connection, only a push of its own
\* wakes anybody, and only a round that begins copies the length of the queue.
LEMMA CheckerEffect ==
  ASSUME Inv, Checker
  PROVE  /\ UNCHANGED <<user, built>>
         /\ asleep' \subseteq asleep
         /\ idle' \in Nat /\ fail_count' \in Nat
         /\ checker'.pc \in {"sleep", "loop", "ping", "refill", "pushed"}
         /\ checker'.left \in {0, idle, checker.left, checker.left - 1}
         /\ checker'.left = checker.left - 1 => checker.left > 0
         /\ checker' = [pc |-> checker'.pc, left |-> checker'.left]
         /\ idle' + fail_count' + (IF checker'.pc = "ping" THEN 1 ELSE 0)
              = idle + fail_count + (IF checker.pc = "ping" THEN 1 ELSE 0)
                + (IF checker'.pc = "pushed" THEN 1 ELSE 0)
                - (IF checker.pc = "pushed" THEN 1 ELSE 0)
         /\ FailureKnown'
<1>1. /\ idle \in Nat /\ fail_count \in Nat /\ checker.left \in Nat
      /\ checker = [pc |-> checker.pc, left |-> checker.left]
  BY MySqlPoolAssumption DEF Inv, Types
<1>2. CASE RoundBegin
  BY <1>1, <1>2 DEF RoundBegin, FailureKnown
<1>3. CASE TakeIdle
  BY <1>1, <1>3 DEF TakeIdle, FailureKnown
<1>4. CASE LoopEnd
  BY <1>1, <1>4 DEF LoopEnd, FailureKnown
<1>5. CASE PingAnswered
  BY <1>1, <1>5, PushEffect DEF PingAnswered, FailureKnown
<1>6. CASE PingFailed
  BY <1>1, <1>6 DEF PingFailed, FailureKnown
<1>7. CASE Reconnect
  BY <1>1, <1>7 DEF Reconnect, FailureKnown
<1>8. CASE Reconnected
  BY <1>1, <1>8 DEF Reconnected, FailureKnown, Inv
<1>9. CASE RoundEnd
  BY <1>1, <1>9 DEF RoundEnd, FailureKnown
<1> QED
  BY <1>2, <1>3, <1>4, <1>5, <1>6, <1>7, <1>8, <1>9 DEF Checker

LEMMA CheckerInv == ASSUME Inv, Checker PROVE Inv'
<1>1. checker'.left \in 0 .. PoolSize
  <2>1. /\ checker.left \in 0 .. PoolSize /\ idle \in 0 .. PoolSize
        /\ 0 \in 0 .. PoolSize
    BY Bounded, MySqlPoolAssumption DEF Inv, Types
  <2> QED
    BY <2>1, CheckerEffect, MySqlPoolAssumption
<1>2. Types'
  <2>1. asleep' \subseteq Waiting'
    BY CheckerEffect DEF Waiting, Inv, Types
  <2>2. checker' \in [pc : {"none", "sleep", "loop", "ping", "refill",
                            "pushed"},
                      left : 0 .. PoolSize]
    BY <1>1, CheckerEffect
  <2> QED
    BY <2>1, <2>2, CheckerEffect DEF Inv, Types
<1>3. AllCounted'
  <2>1. /\ Cardinality(HasConnection') = Cardinality(HasConnection)
        /\ Cardinality(HasTwo') = Cardinality(HasTwo)
    BY CheckerEffect, CountsUnchanged
  <2>2. idle \in Nat /\ fail_count \in Nat /\ built \in Nat
    BY MySqlPoolAssumption DEF Inv, Types
  <2> QED
    BY <2>1, <2>2, Counted, CheckerEffect DEF Inv, AllCounted, Present
<1>4. FailureKnown' /\ OnlyNesters'
  BY CheckerEffect DEF Inv, OnlyNesters
<1> QED
  BY <1>2, <1>3, <1>4 DEF Inv

LEMMA NextInv == Inv /\ [Next]_vars => Inv'
<1> SUFFICES ASSUME Inv, [Next]_vars PROVE Inv'
  OBVIOUS
<1>1. ASSUME NEW u \in Users, Call(u) \/ InCall(u) \/ SpuriousWakeup(u)
      PROVE  Inv'
  BY <1>1, CallInv, GetConnectionInv, WaitersInv, ReturnInv DEF InCall
<1>2. CASE Checker
  BY <1>2, CheckerInv
<1>3. CASE UNCHANGED vars
  <2>1. AllCounted'
    BY <1>3, CountsUnchanged DEF vars, Inv, AllCounted, Present
  <2> QED
    BY <1>3, <2>1 DEF vars, Inv, Types, Waiting, FailureKnown, OnlyNesters
<1> QED
  BY <1>1, <1>2, <1>3 DEF Next

LEMMA Invariance == Spec => []Inv
BY InitInv, NextInv, PTL DEF Spec

-----------------------------------------------------------------------------
(***************************************************************************)
(* The theorems.                                                           *)
(***************************************************************************)

\* getConnection, returnConnection, checkConnection and reconnect, in any
\* order and by any number of threads, lose no connection and make none too
\* many: each is in the queue, with a user, being pinged, or counted in
\* _fail_count.
THEOREM NoConnectionLost == Spec => []NoneLost
<1>1. Inv => NoneLost
  BY Bounded DEF Inv, Types, Waiting, AllCounted, NoneLost, TypeOK
<1> QED
  BY <1>1, Invariance, PTL

\* getFriendList holds one connection while it waits for a second.  The
\* threads that do so cannot have all of them, as long as there are more
\* connections than such threads: whoever waits, one is in the queue, counted
\* in _fail_count, being pinged, or with a call that does not wait.
THEOREM SomeoneReturns == Spec => []SomeoneGoesOn
<1>1. Inv => SomeoneGoesOn
  <2> SUFFICES ASSUME Inv, built > Cardinality(Nesters),
                      ~(idle > 0), ~(fail_count > 0), checker.pc # "ping",
                      \A u \in Users : user[u].pc \notin {"query", "query_2"}
               PROVE  FALSE
    BY DEF SomeoneGoesOn
  <2>1. /\ idle = 0 /\ fail_count = 0 /\ checker.pc # "pushed"
        /\ built \in Nat
    BY MySqlPoolAssumption DEF Inv, Types, FailureKnown
  <2>2. HasTwo = {} /\ HasConnection \subseteq Nesters
    BY DEF HasTwo, HasConnection, Inv, OnlyNesters
  <2>3. Cardinality(HasTwo) = 0
    BY <2>2, FS_EmptySet
  <2>4. /\ Cardinality(HasConnection) <= Cardinality(Nesters)
        /\ Cardinality(Nesters) \in Nat
    <3>1. IsFiniteSet(Nesters)
      BY FS_Subset, MySqlPoolAssumption
    <3> QED
      BY <2>2, <3>1, FS_Subset, FS_CardinalityType
  <2>5. Cardinality(HasConnection) = built
    BY <2>1, <2>3, Counted DEF Inv, AllCounted, Present
  <2> QED
    BY <2>1, <2>4, <2>5
<1> QED
  BY <1>1, Invariance, PTL
=============================================================================
