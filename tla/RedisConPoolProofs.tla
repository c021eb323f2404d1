-------------------------- MODULE RedisConPoolProofs --------------------------
(***************************************************************************)
(* Theorems about RedisConPool, for any number of threads and any size of  *)
(* the pool: no connection is shared, used after it was freed, or lost.    *)
(***************************************************************************)
EXTENDS RedisConPool, FiniteSetTheorems, TLAPS

(***************************************************************************)
(* Queues in which nothing is queued twice.                                *)
(***************************************************************************)

\* The elements of a queue.
Elements(q) == {q[i] : i \in 1 .. Len(q)}

Distinct(q) == \A i, j \in 1 .. Len(q) : q[i] = q[j] => i = j

\* Removing the front of such a queue removes that element.
LEMMA DistinctTail ==
  ASSUME NEW S, NEW q \in Seq(S), q # << >>, Distinct(q)
  PROVE  /\ Distinct(Tail(q)) /\ Tail(q) \in Seq(S)
         /\ Head(q) \in S /\ Head(q) \in Elements(q)
         /\ Elements(Tail(q)) = Elements(q) \ {Head(q)}
<1>1. /\ Len(q) \in Nat \ {0} /\ Head(q) = q[1] /\ Tail(q) \in Seq(S)
      /\ Len(Tail(q)) = Len(q) - 1
      /\ \A i \in 1 .. Len(q) - 1 : Tail(q)[i] = q[i + 1]
  OBVIOUS
<1>2. Distinct(Tail(q)) /\ Head(q) \in S /\ Head(q) \in Elements(q)
  BY <1>1 DEF Distinct, Elements
<1>3. ASSUME NEW e \in Elements(Tail(q)) PROVE e \in Elements(q) \ {Head(q)}
  <2>1. PICK i \in 1 .. Len(q) - 1 : e = q[i + 1]
    BY <1>1, <1>3 DEF Elements
  <2>2. i + 1 \in 1 .. Len(q) /\ 1 \in 1 .. Len(q) /\ i + 1 # 1
    BY <1>1
  <2>3. q[i + 1] # q[1]
    BY <2>2 DEF Distinct
  <2> QED
    BY <1>1, <2>1, <2>2, <2>3 DEF Elements
<1>4. ASSUME NEW e \in Elements(q) \ {Head(q)} PROVE e \in Elements(Tail(q))
  <2>1. PICK i \in 1 .. Len(q) : e = q[i]
    BY <1>4 DEF Elements
  <2>2. i - 1 \in 1 .. Len(q) - 1 /\ Tail(q)[i - 1] = q[i]
    BY <1>1, <1>4, <2>1
  <2> QED
    BY <1>1, <2>1, <2>2 DEF Elements
<1> QED
  BY <1>1, <1>2, <1>3, <1>4

\* A push of an element that is not queued keeps the queue such.
LEMMA DistinctAppend ==
  ASSUME NEW S, NEW q \in Seq(S), NEW e \in S, Distinct(q), e \notin Elements(q)
  PROVE  /\ Distinct(Append(q, e)) /\ Append(q, e) \in Seq(S)
         /\ Elements(Append(q, e)) = Elements(q) \cup {e}
BY DEF Distinct, Elements

-----------------------------------------------------------------------------
(***************************************************************************)
(* The inductive invariant: TypeOK, OwnedOnce and NoneLost, with the queue *)
(* as a set of connections, none of which is queued twice.                 *)
(***************************************************************************)
Idle == Elements(connections)

\* The connection of a user is nowhere else.
UsersApart ==
  \A u \in Users : held[u] # NoContext =>
    /\ \A w \in Users : held[w] = held[u] => w = u
    /\ held[u] # checker.context
    /\ held[u] \notin Idle \cup freed \cup leaked

\* Nor is that of the checker.
CheckerApart ==
  checker.context # NoContext => checker.context \notin Idle \cup freed \cup leaked

\* What is freed or dropped is not queued, and not both.
GoneApart == Idle \cap (freed \cup leaked) = {} /\ freed \cap leaked = {}

\* Every connection is somewhere.
AllSomewhere ==
  \A c \in Contexts :
    \/ c \in Idle \cup freed \cup leaked
    \/ checker.context = c
    \/ \E u \in Users : held[u] = c

Places ==
  /\ Distinct(connections)
  /\ UsersApart /\ CheckerApart /\ GoneApart /\ AllSomewhere

\* Only a stopped pool drops connections; those freed are counted.
Counted ==
  /\ leaked # {} => b_stop
  /\ fail_count = Cardinality(freed) + (IF checker.pc = "push" THEN 1 ELSE 0)

Inv == TypeOK /\ Places /\ Counted

-----------------------------------------------------------------------------
\* The queue, seen as a set.
LEMMA QueuedIdle ==
  ASSUME NEW c
  PROVE  Queued(c) <=> c \in Idle
BY DEF Queued, Idle, Elements

\* The invariant says what the two properties say.
LEMMA InvImplies == Inv => OwnedOnce /\ NoneLost
<1> SUFFICES ASSUME Inv PROVE OwnedOnce /\ NoneLost
  OBVIOUS
<1>1. OwnedOnce
  BY QueuedIdle DEF Inv, Places, UsersApart, CheckerApart, GoneApart, Distinct,
                    OwnedOnce
<1>2. NoneLost
  BY QueuedIdle DEF Inv, Places, AllSomewhere, Counted, NoneLost
<1> QED
  BY <1>1, <1>2

\* A connection returned goes to the queue, or is dropped.
LEMMA ReturnEffect ==
  ASSUME Inv, NEW c \in Contexts, ReturnConnection(c), c \notin Idle
  PROVE  /\ asleep' \subseteq asleep
         /\ connections' \in Seq(Contexts) /\ Distinct(connections')
         /\ IF b_stop THEN /\ Idle' = Idle /\ leaked' = leaked \cup {c}
                      ELSE /\ Idle' = Idle \cup {c} /\ leaked' = leaked
<1>1. CASE b_stop
  BY <1>1 DEF ReturnConnection, Inv, TypeOK, Places, Idle
<1>2. CASE ~b_stop
  <2>1. /\ connections' = Append(connections, c) /\ leaked' = leaked
        /\ asleep' \subseteq asleep
    BY <1>2 DEF ReturnConnection
  <2>2. connections \in Seq(Contexts) /\ Distinct(connections)
    BY DEF Inv, TypeOK, Places
  <2> QED
    BY <1>2, <2>1, <2>2, DistinctAppend DEF Idle
<1> QED
  BY <1>1, <1>2

\* The front connection leaves the queue.
LEMMA PopEffect ==
  ASSUME Inv, connections # << >>, connections' = Tail(connections)
  PROVE  /\ Head(connections) \in Contexts /\ Head(connections) \in Idle
         /\ connections' \in Seq(Contexts) /\ Distinct(connections')
         /\ Idle' = Idle \ {Head(connections)}
<1>1. connections \in Seq(Contexts) /\ Distinct(connections)
  BY DEF Inv, TypeOK, Places
<1> QED
  BY <1>1, DistinctTail DEF Idle

\* Connections are numbers, and NoContext is none.
LEMMA ContextIsNumber == TypeOK => NoContext \notin Contexts /\ Contexts \subseteq Nat
BY PoolAssumption DEF TypeOK, Contexts

\* There are finitely many connections.
LEMMA FreedFinite ==
  TypeOK => IsFiniteSet(freed) /\ Cardinality(freed) \in Nat
<1> SUFFICES ASSUME TypeOK
             PROVE  IsFiniteSet(freed) /\ Cardinality(freed) \in Nat
  OBVIOUS
<1>1. 1 \in Int /\ built \in Int /\ freed \in SUBSET (1 .. built)
  BY PoolAssumption DEF TypeOK, Contexts
<1>2. IsFiniteSet(1 .. built)
  BY <1>1, FS_Interval
<1>3. IsFiniteSet(freed)
  BY <1>1, <1>2, FS_Subset
<1> QED
  BY <1>3, FS_CardinalityType

\* A step that moves no connection.
LEMMA PlacesKept ==
  ASSUME Inv, UNCHANGED <<connections, held, freed, leaked, built>>,
         checker'.context = checker.context
  PROVE  Places'
BY DEF Inv, Places, UsersApart, CheckerApart, GoneApart, AllSomewhere, Idle,
       Contexts

-----------------------------------------------------------------------------
(***************************************************************************)
(* The steps that move a connection keep every connection at one place.    *)
(***************************************************************************)

\* From the queue to a user.
LEMMA GetMoves ==
  ASSUME Inv, NEW u \in Users, GetConnection(u)
  PROVE  Places'
<1> DEFINE h == Head(connections)
<1>1. /\ held[u] = NoContext /\ connections # << >>
      /\ held' = [held EXCEPT ![u] = h] /\ connections' = Tail(connections)
      /\ UNCHANGED <<checker, freed, leaked, built>>
  BY DEF GetConnection, Calling
<1>2. /\ h \in Contexts /\ h \in Idle /\ h # NoContext
      /\ Distinct(connections') /\ Idle' = Idle \ {h}
  BY <1>1, PopEffect, ContextIsNumber DEF Inv
<1>3. held'[u] = h /\ \A w \in Users : w # u => held'[w] = held[w]
  BY <1>1 DEF Inv, TypeOK
<1>4. \A w \in Users : held[w] # h
  BY <1>2 DEF Inv, Places, UsersApart
<1>5. UsersApart'
  BY <1>1, <1>2, <1>3, <1>4 DEF Inv, Places, UsersApart, CheckerApart, GoneApart
<1>6. CheckerApart' /\ GoneApart'
  BY <1>1, <1>2 DEF Inv, Places, CheckerApart, GoneApart
<1>7. AllSomewhere'
  <2> SUFFICES ASSUME NEW c \in Contexts
               PROVE  \/ c \in Idle' \cup freed \cup leaked
                      \/ checker.context = c
                      \/ \E w \in Users : held'[w] = c
    BY <1>1 DEF AllSomewhere, Contexts
  <2>1. CASE c = h
    BY <1>3, <2>1
  <2>2. CASE c # h
    <3>1. \A w \in Users : held[w] = c => held'[w] = c
      BY <1>1, <1>3, ContextIsNumber DEF Inv
    <3> QED
      BY <1>2, <2>2, <3>1 DEF Inv, Places, AllSomewhere
  <2> QED
    BY <2>1, <2>2
<1> QED
  BY <1>2, <1>5, <1>6, <1>7 DEF Places

\* From a user to the queue, or dropped.
LEMMA ReturnMoves ==
  ASSUME Inv, NEW u \in Users, Return(u)
  PROVE  Places'
<1> DEFINE c == held[u]
<1>1. /\ c # NoContext /\ ReturnConnection(c)
      /\ held' = [held EXCEPT ![u] = NoContext]
      /\ UNCHANGED <<checker, freed, built>>
  BY DEF Return
<1>2. /\ c \in Contexts /\ c \notin Idle \cup freed \cup leaked
      /\ c # checker.context /\ \A w \in Users : held[w] = c => w = u
  BY <1>1 DEF Inv, Places, UsersApart, TypeOK
<1>3. /\ Distinct(connections')
      /\ \/ Idle' = Idle /\ leaked' = leaked \cup {c}
         \/ Idle' = Idle \cup {c} /\ leaked' = leaked
  BY <1>1, <1>2, ReturnEffect
<1>4. held'[u] = NoContext /\ \A w \in Users : w # u => held'[w] = held[w]
  BY <1>1 DEF Inv, TypeOK
<1>5. UsersApart'
  BY <1>1, <1>2, <1>3, <1>4 DEF Inv, Places, UsersApart
<1>6. CheckerApart' /\ GoneApart'
  BY <1>1, <1>2, <1>3 DEF Inv, Places, CheckerApart, GoneApart
<1>7. AllSomewhere'
  BY <1>1, <1>2, <1>3, <1>4 DEF Inv, Places, AllSomewhere, Contexts
<1> QED
  BY <1>3, <1>5, <1>6, <1>7 DEF Places

\* From the queue to the checker.
LEMMA TakeMoves ==
  ASSUME Inv, TakeIdle
  PROVE  Places'
<1> DEFINE h == Head(connections)
<1>1. /\ connections # << >> /\ connections' = Tail(connections)
      /\ checker.context = NoContext /\ checker'.context = h
      /\ UNCHANGED <<held, freed, leaked, built>>
  BY DEF TakeIdle, Inv, TypeOK
<1>2. /\ h \in Contexts /\ h \in Idle /\ h # NoContext
      /\ Distinct(connections') /\ Idle' = Idle \ {h}
  BY <1>1, PopEffect, ContextIsNumber DEF Inv
<1>3. UsersApart'
  BY <1>1, <1>2 DEF Inv, Places, UsersApart
<1>4. CheckerApart' /\ GoneApart'
  BY <1>1, <1>2 DEF Inv, Places, CheckerApart, GoneApart
<1>5. AllSomewhere'
  BY <1>1, <1>2, ContextIsNumber DEF Inv, Places, AllSomewhere, Contexts
<1> QED
  BY <1>2, <1>3, <1>4, <1>5 DEF Places

\* From the checker to the freed ones.
LEMMA FailMoves ==
  ASSUME Inv, PingFailed
  PROVE  Places'
<1> DEFINE c == checker.context
<1>1. /\ freed' = freed \cup {c} /\ checker'.context = NoContext
      /\ UNCHANGED <<connections, held, leaked, built>>
  BY DEF PingFailed, pool, Inv, TypeOK
<1>2. c # NoContext /\ c \notin Idle \cup freed \cup leaked
  BY DEF PingFailed, Inv, TypeOK, Places, CheckerApart
<1>3. Idle' = Idle
  BY <1>1 DEF Idle
<1> QED
  BY <1>1, <1>2, <1>3 DEF Inv, Places, UsersApart, CheckerApart, GoneApart,
                          AllSomewhere, Contexts

\* From the checker to the queue, or dropped.
LEMMA ReturnPingedMoves ==
  ASSUME Inv, ReturnPinged
  PROVE  Places'
<1> DEFINE c == checker.context
<1>1. /\ ReturnConnection(c) /\ checker'.context = NoContext
      /\ UNCHANGED <<held, freed, built>>
  BY DEF ReturnPinged, Inv, TypeOK
<1>2. c \in Contexts /\ c # NoContext /\ c \notin Idle \cup freed \cup leaked
  BY DEF ReturnPinged, Inv, TypeOK, Places, CheckerApart
<1>3. /\ Distinct(connections')
      /\ \/ Idle' = Idle /\ leaked' = leaked \cup {c}
         \/ Idle' = Idle \cup {c} /\ leaked' = leaked
  BY <1>1, <1>2, ReturnEffect
<1> QED
  BY <1>1, <1>2, <1>3 DEF Inv, Places, UsersApart, CheckerApart, GoneApart,
                          AllSomewhere, Contexts

\* From the freed ones to the checker.
LEMMA ConnectMoves ==
  ASSUME Inv, ReconnectConnects
  PROVE  Places'
<1>1. PICK c \in freed : freed' = freed \ {c} /\ checker'.context = c
  BY DEF ReconnectConnects, Inv, TypeOK
<1>2. /\ checker.context = NoContext
      /\ UNCHANGED <<connections, held, leaked, built>>
  BY DEF ReconnectConnects, pool, Inv, TypeOK
<1>3. Idle' = Idle
  BY <1>2 DEF Idle
<1>4. c # NoContext
  BY ContextIsNumber DEF Inv, TypeOK
<1> QED
  BY <1>1, <1>2, <1>3, <1>4, ContextIsNumber
     DEF Inv, Places, UsersApart, CheckerApart, GoneApart, AllSomewhere, Contexts

\* From the checker to the queue.
LEMMA PushMoves ==
  ASSUME Inv, ReconnectPushes
  PROVE  Places'
<1> DEFINE c == checker.context
<1>1. /\ connections' = Append(connections, c)
      /\ checker'.context = NoContext
      /\ UNCHANGED <<held, freed, leaked, built>>
  BY DEF ReconnectPushes, Inv, TypeOK
<1>2. c \in Contexts /\ c # NoContext /\ c \notin Idle \cup freed \cup leaked
  BY DEF ReconnectPushes, Inv, TypeOK, Places, CheckerApart
<1>3. connections \in Seq(Contexts) /\ Distinct(connections)
  BY DEF Inv, TypeOK, Places
<1>4. Distinct(connections') /\ Idle' = Idle \cup {c}
  BY <1>1, <1>2, <1>3, DistinctAppend DEF Idle
<1> QED
  BY <1>1, <1>2, <1>4 DEF Inv, Places, UsersApart, CheckerApart, GoneApart,
                          AllSomewhere, Contexts

-----------------------------------------------------------------------------
\* The constructor has made its connections.
LEMMA InitInv == Init => Inv
<1> SUFFICES ASSUME Init PROVE Inv
  OBVIOUS
<1> USE PoolAssumption
<1>1. built \in Nat /\ connections = [i \in 1 .. built |-> i]
  BY DEF Init
<1>2. /\ connections \in Seq(Contexts) /\ Distinct(connections)
      /\ Idle = Contexts
  BY <1>1 DEF Distinct, Idle, Elements, Contexts
<1>3. TypeOK
  BY <1>2 DEF Init, TypeOK, CheckerPcs
<1>4. Places
  BY <1>2 DEF Init, Places, UsersApart, CheckerApart, GoneApart, AllSomewhere
<1>5. Counted
  BY FS_EmptySet DEF Init, Counted
<1> QED
  BY <1>3, <1>4, <1>5 DEF Inv

\* The types are preserved by every step.
LEMMA NextTypes == Inv /\ [Next]_vars => TypeOK'
<1> SUFFICES ASSUME Inv, [Next]_vars PROVE TypeOK'
  OBVIOUS
<1>1. TypeOK
  BY DEF Inv
<1>2. ASSUME NEW u \in Users, GetConnection(u) PROVE TypeOK'
  <2>1. /\ Head(connections) \in Contexts /\ connections' \in Seq(Contexts)
    BY <1>2, PopEffect DEF GetConnection
  <2> QED
    BY <1>1, <1>2, <2>1 DEF GetConnection, Calling, TypeOK, Contexts
<1>3. ASSUME NEW u \in Users, WaitForConnection(u) PROVE TypeOK'
  BY <1>1, <1>3 DEF WaitForConnection, Calling, TypeOK, Contexts
<1>4. ASSUME NEW u \in Users, GetNull(u) PROVE TypeOK'
  BY <1>1, <1>4 DEF GetNull, Calling, TypeOK, Contexts
<1>5. ASSUME NEW u \in Users, SpuriousWakeup(u) PROVE TypeOK'
  BY <1>1, <1>5 DEF SpuriousWakeup, TypeOK, Contexts
<1>6. ASSUME NEW u \in Users, Return(u) PROVE TypeOK'
  <2>1. held[u] \in Contexts /\ held[u] \notin Idle
    BY <1>6 DEF Return, Inv, TypeOK, Places, UsersApart
  <2>2. /\ asleep' \subseteq asleep /\ connections' \in Seq(Contexts)
        /\ leaked' \subseteq leaked \cup {held[u]}
    BY <1>6, <2>1, ReturnEffect DEF Return
  <2>3. /\ held' = [held EXCEPT ![u] = NoContext]
        /\ UNCHANGED <<waiting, mutex, b_stop, fail_count, checker, main_pc,
                       built, freed>>
    BY <1>6 DEF Return
  <2> QED
    BY <1>1, <2>1, <2>2, <2>3 DEF TypeOK, Contexts
<1>7. CASE \/ RoundBegin \/ CheckerExit \/ ReadSize \/ NextPing \/ TakeNothing
           \/ PingAnswered \/ RoundEnd
  <2>1. Len(connections) \in Nat
    BY <1>1 DEF TypeOK
  <2>2. checker.left \in Nat /\ (checker.left # 0 => checker.left - 1 \in Nat)
    BY <1>1 DEF TypeOK
  <2>3. /\ checker' \in [pc : CheckerPcs, left : Nat,
                         context : Contexts \cup {NoContext}]
        /\ checker'.context = checker.context
        /\ checker'.pc \in {"ping", "return", "push"} <=>
             checker.pc \in {"ping", "return", "push"}
    <3>1. checker \in [pc : CheckerPcs, left : Nat,
                       context : Contexts \cup {NoContext}]
      BY <1>1 DEF TypeOK
    <3>2. CASE RoundBegin \/ CheckerExit \/ RoundEnd
      BY <3>1, <3>2 DEF RoundBegin, CheckerExit, RoundEnd, CheckerPcs
    <3>3. CASE ReadSize
      BY <2>1, <3>1, <3>3 DEF ReadSize, CheckerPcs
    <3>4. CASE NextPing
      BY <2>2, <3>1, <3>4 DEF NextPing, CheckerPcs
    <3>5. CASE TakeNothing
      BY <3>1, <3>5 DEF TakeNothing, CheckerPcs
    <3>6. CASE PingAnswered
      BY <3>1, <3>6 DEF PingAnswered, CheckerPcs
    <3> QED
      BY <1>7, <3>2, <3>3, <3>4, <3>5, <3>6
  <2>4. UNCHANGED <<connections, held, waiting, asleep, mutex, b_stop,
                    fail_count, main_pc, built, freed, leaked>>
    BY <1>7 DEF RoundBegin, CheckerExit, ReadSize, NextPing, TakeNothing,
                PingAnswered, RoundEnd, pool
  <2> QED
    BY <1>1, <2>3, <2>4 DEF TypeOK, Contexts
<1>8. CASE TakeIdle
  <2>1. /\ Head(connections) \in Contexts /\ connections' \in Seq(Contexts)
    BY <1>8, PopEffect DEF TakeIdle
  <2>2. Head(connections) # NoContext
    BY <1>1, <2>1, ContextIsNumber
  <2> QED
    BY <1>1, <1>8, <2>1, <2>2 DEF TakeIdle, TypeOK, Contexts, CheckerPcs
<1>9. CASE PingFailed
  <2>1. checker.context \in Contexts /\ fail_count + 1 \in Nat
    BY <1>1, <1>9 DEF PingFailed, TypeOK
  <2>2. /\ freed' = freed \cup {checker.context}
        /\ fail_count' = fail_count + 1
        /\ checker' = [checker EXCEPT !.pc = "loop", !.context = NoContext]
        /\ UNCHANGED <<connections, held, waiting, asleep, mutex, b_stop,
                       main_pc, built, leaked>>
    BY <1>9 DEF PingFailed, pool
  <2> QED
    BY <1>1, <2>1, <2>2 DEF TypeOK, Contexts, CheckerPcs
<1>10. CASE ReturnPinged
  <2>1. checker.context \in Contexts /\ checker.context \notin Idle
    BY <1>10 DEF ReturnPinged, Inv, TypeOK, Places, CheckerApart
  <2>2. /\ asleep' \subseteq asleep /\ connections' \in Seq(Contexts)
        /\ leaked' \subseteq leaked \cup {checker.context}
    BY <1>10, <2>1, ReturnEffect DEF ReturnPinged
  <2>3. /\ checker' = [checker EXCEPT !.pc = "loop", !.context = NoContext]
        /\ UNCHANGED <<held, waiting, mutex, b_stop, fail_count, main_pc,
                       built, freed>>
    BY <1>10 DEF ReturnPinged
  <2> QED
    BY <1>1, <2>1, <2>2, <2>3 DEF TypeOK, Contexts, CheckerPcs
<1>11. CASE ReconnectConnects
  <2>1. PICK c \in freed :
          /\ freed' = freed \ {c}
          /\ checker' = [checker EXCEPT !.pc = "push", !.context = c]
    BY <1>11 DEF ReconnectConnects
  <2>2. c \in Contexts /\ c # NoContext
    BY <1>1, ContextIsNumber DEF TypeOK
  <2>3. UNCHANGED <<connections, held, waiting, asleep, mutex, b_stop,
                    fail_count, main_pc, built, leaked>>
    BY <1>11 DEF ReconnectConnects, pool
  <2> QED
    BY <1>1, <2>1, <2>2, <2>3 DEF TypeOK, Contexts, CheckerPcs
<1>12. CASE ReconnectPushes
  <2>1. checker.context \in Contexts /\ checker.pc = "push"
    BY <1>1, <1>12 DEF ReconnectPushes, TypeOK
  <2>2. fail_count - 1 \in Nat
    <3>1. fail_count = Cardinality(freed) + 1
      BY <2>1 DEF Inv, Counted
    <3> QED
      BY <1>1, <3>1, FreedFinite
  <2>3. connections' \in Seq(Contexts)
    BY <1>1, <1>12, <2>1 DEF ReconnectPushes, TypeOK
  <2> QED
    BY <1>1, <1>12, <2>2, <2>3 DEF ReconnectPushes, TypeOK, Contexts, CheckerPcs
<1>13. CASE Close
  BY <1>1, <1>13 DEF Close, TypeOK, Contexts
<1>14. CASE CloseJoined
  BY <1>1, <1>14 DEF CloseJoined, pool, TypeOK, Contexts
<1>15. CASE UNCHANGED vars
  BY <1>1, <1>15 DEF vars, TypeOK, Contexts
<1> QED
  BY <1>2, <1>3, <1>4, <1>5, <1>6, <1>7, <1>8, <1>9, <1>10, <1>11, <1>12,
     <1>13, <1>14, <1>15 DEF Next, User, Checker

\* Every step keeps each connection at one place.
LEMMA NextPlaces == Inv /\ [Next]_vars => Places'
<1> SUFFICES ASSUME Inv, [Next]_vars PROVE Places'
  OBVIOUS
<1>1. ASSUME NEW u \in Users,
             WaitForConnection(u) \/ GetNull(u) \/ SpuriousWakeup(u)
      PROVE Places'
  BY <1>1, PlacesKept DEF WaitForConnection, GetNull, SpuriousWakeup
<1>2. CASE \/ RoundBegin \/ CheckerExit \/ ReadSize \/ NextPing \/ TakeNothing
           \/ PingAnswered \/ RoundEnd
  <2>1. checker'.context = checker.context
    BY <1>2 DEF RoundBegin, CheckerExit, ReadSize, NextPing, TakeNothing,
                PingAnswered, RoundEnd, Inv, TypeOK
  <2>2. UNCHANGED <<connections, held, freed, leaked, built>>
    BY <1>2 DEF RoundBegin, CheckerExit, ReadSize, NextPing, TakeNothing,
                PingAnswered, RoundEnd, pool
  <2> QED
    BY <2>1, <2>2, PlacesKept
<1>3. CASE Close \/ CloseJoined \/ UNCHANGED vars
  BY <1>3, PlacesKept DEF Close, CloseJoined, pool, vars
<1> QED
  BY <1>1, <1>2, <1>3, GetMoves, ReturnMoves, TakeMoves, FailMoves,
     ReturnPingedMoves, ConnectMoves, PushMoves DEF Next, User, Checker

\* Every step keeps the count of the freed connections.
LEMMA NextCounted == Inv /\ [Next]_vars => Counted'
<1> SUFFICES ASSUME Inv, [Next]_vars PROVE Counted'
  OBVIOUS
<1>1. IsFiniteSet(freed) /\ Cardinality(freed) \in Nat /\ fail_count \in Nat
  BY FreedFinite DEF Inv, TypeOK
<1>2. CASE UNCHANGED <<fail_count, freed, leaked>>
           /\ (b_stop => b_stop') /\ (checker'.pc = "push" <=> checker.pc = "push")
  BY <1>2 DEF Inv, Counted
<1>3. ASSUME NEW c, ReturnConnection(c),
             UNCHANGED <<fail_count, freed, b_stop>>,
             checker'.pc = "push" <=> checker.pc = "push"
      PROVE Counted'
  BY <1>3 DEF ReturnConnection, Inv, Counted
<1>4. CASE PingFailed
  <2>1. /\ checker.context \notin freed /\ checker.pc = "ping"
        /\ freed' = freed \cup {checker.context}
        /\ fail_count' = fail_count + 1 /\ checker'.pc = "loop"
        /\ UNCHANGED <<leaked, b_stop>>
    BY <1>4 DEF PingFailed, Inv, TypeOK, Places, CheckerApart
  <2>2. Cardinality(freed') = Cardinality(freed) + 1
    BY <1>1, <2>1, FS_AddElement
  <2> QED
    BY <1>1, <2>1, <2>2 DEF Inv, Counted
<1>5. CASE ReconnectConnects
  <2>1. PICK c \in freed : freed' = freed \ {c} /\ checker'.pc = "push"
    BY <1>5 DEF ReconnectConnects, Inv, TypeOK
  <2>2. /\ checker.pc = "refill"
        /\ UNCHANGED <<fail_count, leaked, b_stop>>
    BY <1>5 DEF ReconnectConnects
  <2>3. Cardinality(freed') = Cardinality(freed) - 1
    BY <1>1, <2>1, FS_RemoveElement
  <2> QED
    BY <1>1, <2>1, <2>2, <2>3 DEF Inv, Counted
<1>6. CASE ReconnectPushes
  <2>1. /\ checker.pc = "push" /\ checker'.pc = "refill"
        /\ fail_count' = fail_count - 1
        /\ UNCHANGED <<leaked, freed, b_stop>>
    BY <1>6 DEF ReconnectPushes, Inv, TypeOK
  <2> QED
    BY <1>1, <2>1 DEF Inv, Counted
<1>7. ASSUME NEW u \in Users, Return(u) PROVE Counted'
  BY <1>3, <1>7 DEF Return
<1>8. CASE ReturnPinged
  <2>1. /\ ReturnConnection(checker.context)
        /\ UNCHANGED <<fail_count, freed, b_stop>>
        /\ checker.pc = "return" /\ checker'.pc = "loop"
    BY <1>8 DEF ReturnPinged, Inv, TypeOK
  <2> QED
    BY <1>3, <2>1
<1>9. ASSUME NEW u \in Users,
             \/ GetConnection(u) \/ WaitForConnection(u) \/ GetNull(u)
             \/ SpuriousWakeup(u)
      PROVE Counted'
  BY <1>2, <1>9 DEF GetConnection, WaitForConnection, GetNull, SpuriousWakeup
<1>10. CASE \/ RoundBegin \/ CheckerExit \/ ReadSize \/ NextPing \/ TakeIdle
            \/ TakeNothing \/ PingAnswered \/ RoundEnd
  <2>1. checker.pc # "push" /\ checker'.pc # "push"
    BY <1>10 DEF RoundBegin, CheckerExit, ReadSize, NextPing, TakeIdle,
                 TakeNothing, PingAnswered, RoundEnd, Inv, TypeOK
  <2>2. UNCHANGED <<fail_count, freed, leaked, b_stop>>
    BY <1>10 DEF RoundBegin, CheckerExit, ReadSize, NextPing, TakeIdle,
                 TakeNothing, PingAnswered, RoundEnd
  <2> QED
    BY <1>2, <2>1, <2>2
<1>11. CASE Close \/ CloseJoined \/ UNCHANGED vars
  BY <1>2, <1>11 DEF Close, CloseJoined, vars
<1> QED
  BY <1>4, <1>5, <1>6, <1>7, <1>8, <1>9, <1>10, <1>11
     DEF Next, User, Checker

-----------------------------------------------------------------------------
\* The invariant always holds.
LEMMA Invariance == Spec => []Inv
<1>1. Inv /\ [Next]_vars => Inv'
  BY NextTypes, NextPlaces, NextCounted DEF Inv
<1> QED
  BY <1>1, InitInv, PTL DEF Spec

\* A redisContext is never used by two threads, nor after redisFree, for any
\* number of threads, whether or not the checker frees connections and while
\* the pool is closed: getConnection, returnConnection, the two halves of
\* checkThreadPro.
THEOREM ConnectionsOwnedOnce == Spec => []OwnedOnce
<1> QED
  BY InvImplies, Invariance, PTL

\* No connection is lost before the pool is stopped, and _fail_count is the
\* number of those to be replaced.
THEOREM NoConnectionLost == Spec => []NoneLost
<1> QED
  BY InvImplies, Invariance, PTL

-----------------------------------------------------------------------------
(***************************************************************************)
(* Waiting and closing: what NoEndlessWait and CloseCompletes rest on.     *)
(***************************************************************************)

\* Whoever sleeps in getConnection sleeps in a pool that is not stopped, and
\* there is a connection that can be handed to it: one in the queue, with a
\* user, with the check thread, or one that is to be replaced.
SleeperHasHope ==
  asleep # {} =>
    /\ ~b_stop
    /\ built > 0 =>
         \/ connections # << >> \/ fail_count > 0
         \/ checker.context # NoContext
         \/ \E u \in Users : held[u] # NoContext

\* The check thread can end its round without the lock.
LeavesUnlocked ==
  \/ checker.pc \in {"sleep", "exited"}
  \/ checker.pc \in {"loop", "refill"} /\ fail_count = 0

\* close() wakes everybody, and a stopped pool lets nobody sleep.
LEMMA StopWakes ==
  Inv /\ (b_stop => asleep = {}) /\ [Next]_vars => (b_stop => asleep = {})'
<1> SUFFICES ASSUME Inv, b_stop => asleep = {}, [Next]_vars, b_stop'
             PROVE  asleep' = {}
  OBVIOUS
<1>1. CASE Close
  BY <1>1 DEF Close
<1>2. ASSUME NEW u \in Users, WaitForConnection(u) PROVE FALSE
  BY <1>2 DEF WaitForConnection
<1>3. ASSUME asleep' \subseteq asleep, b_stop' = b_stop PROVE asleep' = {}
  BY <1>3
<1>4. ASSUME NEW u \in Users,
             GetConnection(u) \/ GetNull(u) \/ Return(u) \/ SpuriousWakeup(u)
      PROVE  asleep' \subseteq asleep /\ b_stop' = b_stop
  BY <1>4 DEF GetConnection, GetNull, Return, ReturnConnection, SpuriousWakeup
<1>5. CASE Checker
  <2>1. CASE ReturnPinged
    BY <1>3, <2>1 DEF ReturnPinged, ReturnConnection
  <2>2. CASE ~ReturnPinged
    BY <1>3, <1>5, <2>2
       DEF Checker, pool, RoundBegin, CheckerExit, ReadSize, NextPing,
           TakeIdle, TakeNothing, PingAnswered, PingFailed,
           ReconnectConnects, RoundEnd, ReconnectPushes
  <2> QED
    BY <2>1, <2>2
<1>6. CASE CloseJoined \/ UNCHANGED vars
  BY <1>3, <1>6 DEF CloseJoined, pool, vars
<1> QED
  BY <1>1, <1>2, <1>3, <1>4, <1>5, <1>6 DEF Next, User

\* A waiter is never asleep without a connection that can come to it, unless
\* the constructor made none; and close() leaves no waiter asleep, although
\* one may come to getConnection while it runs.
THEOREM WaitersAreServed == Spec => []SleeperHasHope
<1>1. Init => (b_stop => asleep = {})
  BY DEF Init
<1>2. Inv /\ (b_stop => asleep = {}) => SleeperHasHope
  <2> SUFFICES ASSUME Inv, ~b_stop, built > 0, connections = << >>,
                      ~(fail_count > 0), checker.context = NoContext,
                      \A u \in Users : held[u] = NoContext
               PROVE  FALSE
    BY DEF SleeperHasHope
  <2>1. built \in Nat /\ fail_count \in Nat /\ 1 \in Contexts
    BY PoolAssumption DEF Inv, TypeOK, Contexts
  <2>2. Idle = {} /\ leaked = {} /\ 1 # NoContext
    BY <2>1, ContextIsNumber DEF Idle, Elements, Inv, Counted
  <2>3. 1 \in freed
    BY <2>1, <2>2 DEF Inv, Places, AllSomewhere
  <2>4. Cardinality(freed) = 0
    BY <2>1, FreedFinite DEF Inv, Counted
  <2> QED
    BY <2>3, <2>4, FreedFinite, FS_EmptySet DEF Inv
<1> QED
  BY <1>1, <1>2, StopWakes, Invariance, PTL DEF Spec

\* Once the check thread can leave without the lock, nothing that happens
\* while close() holds it and joins takes that away: the users cannot fail a
\* connection, and reconnect is not tried for want of a failed one.
THEOREM JoinStaysPossible ==
  Spec => [][main_pc = "join" /\ LeavesUnlocked => LeavesUnlocked']_vars
<1>1. Inv /\ [Next]_vars
        => [main_pc = "join" /\ LeavesUnlocked => LeavesUnlocked']_vars
  <2> SUFFICES ASSUME Inv, Next, main_pc = "join", LeavesUnlocked
               PROVE  LeavesUnlocked'
    OBVIOUS
  <2>1. mutex = "close" /\ b_stop /\ fail_count \in Nat
    BY DEF Inv, TypeOK
  <2>2. CASE Checker
    <3>1. CASE CheckerExit
      BY <3>1 DEF CheckerExit, LeavesUnlocked, Inv, TypeOK
    <3>2. CASE NextPing
      BY <2>1, <3>2 DEF NextPing, LeavesUnlocked, Inv, TypeOK
    <3>3. CASE RoundEnd
      BY <3>3 DEF RoundEnd, LeavesUnlocked, Inv, TypeOK
    <3>4. CASE ReconnectConnects
      BY <2>1, <3>4 DEF ReconnectConnects, LeavesUnlocked
    <3>5. CASE \/ RoundBegin \/ ReadSize \/ TakeIdle \/ TakeNothing
               \/ PingAnswered \/ PingFailed \/ ReturnPinged \/ ReconnectPushes
      BY <2>1, <3>5
         DEF RoundBegin, ReadSize, TakeIdle, TakeNothing, PingAnswered,
             PingFailed, ReturnPinged, ReconnectPushes, LeavesUnlocked
    <3> QED
      BY <2>2, <3>1, <3>2, <3>3, <3>4, <3>5 DEF Checker
  <2>3. ASSUME NEW u \in Users, User(u) \/ SpuriousWakeup(u)
        PROVE  UNCHANGED <<checker, fail_count>>
    BY <2>3 DEF User, GetConnection, WaitForConnection, GetNull, Return,
                SpuriousWakeup
  <2>4. CASE Close \/ CloseJoined
    BY <2>4 DEF Close, CloseJoined, LeavesUnlocked
  <2> QED
    BY <2>2, <2>3, <2>4 DEF Next, LeavesUnlocked
<1> QED
  BY <1>1, Invariance, PTL DEF Spec
=============================================================================
