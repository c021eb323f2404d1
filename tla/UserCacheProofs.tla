--------------------------- MODULE UserCacheProofs ---------------------------
(***************************************************************************)
(* Theorems about UserCache, for any users, servers and gRPC threads, and  *)
(* whether or not commands fail.                                           *)
(***************************************************************************)
EXTENDS UserCache, TLAPS

(***************************************************************************)
(* The inductive invariant.  Beside the types it follows a fill from the   *)
(* row it reads to the keys it sets.                                       *)
(***************************************************************************)

\* Versions are read from rows, and rows only grow: a fill brings nothing
\* older than what the cache is sure to have, or than the row was when a
\* refresh began.
VersionsGrow ==
  /\ \A u \in Users : sure[u] <= row[u]
  /\ \A t \in Threads :
       /\ thread[t].version <= row[thread[t].user]
       /\ thread[t].op = "refresh" => thread[t].since <= row[thread[t].user]
       /\ thread[t].pc \in {"base", "name"} =>
            /\ sure[thread[t].user] <= thread[t].version
            /\ thread[t].op = "refresh" => thread[t].since <= thread[t].version

\* A thread that has no call has no operation; a refresh never hits; a gRPC
\* thread does not set the name key.
OperationFits ==
  \A t \in Threads :
    /\ thread[t].pc = "idle" => thread[t].op = "none"
    /\ thread[t].pc = "hit" => thread[t].op # "refresh"
    /\ thread[t].pc = "name" => thread[t].op # "rpc"

\* Two threads that fill for one user know that they are not alone, and
\* the cache is sure of nothing then.
MeetingDisturbs ==
  \A t, x \in Threads :
    t # x /\ {t, x} \subseteq Filling(thread[t].user) =>
      ~thread[t].alone /\ sure[thread[t].user] = 0

\* What an undisturbed fill has set under the base key is still there.
BaseSet ==
  \A t \in Threads :
    thread[t].pc = "name" /\ thread[t].alone =>
      base_info[thread[t].user] = thread[t].version

Inv ==
  /\ TypeOK
  /\ VersionsGrow
  /\ OperationFits
  /\ MeetingDisturbs
  /\ BaseSet
  /\ CacheAsFilled

-----------------------------------------------------------------------------
\* A thread without a call.
LEMMA IdleState ==
  ASSUME NEW u \in Users
  PROVE  /\ Idle(u) \in CallState
         /\ Idle(u).pc = "idle" /\ Idle(u).op = "none" /\ Idle(u).user = u
         /\ Idle(u).version = 0 /\ Idle(u).since = 0
BY UserCacheAssumption DEF Idle, CallState, Version

\* That a fill is disturbed changes nothing else of the call.
LEMMA AloneChanges ==
  ASSUME NEW c \in CallState, NEW b \in BOOLEAN
  PROVE  /\ [c EXCEPT !.alone = b] \in CallState
         /\ [c EXCEPT !.alone = b].alone = b
         /\ [c EXCEPT !.alone = b].pc = c.pc
         /\ [c EXCEPT !.alone = b].op = c.op
         /\ [c EXCEPT !.alone = b].user = c.user
         /\ [c EXCEPT !.alone = b].version = c.version
         /\ [c EXCEPT !.alone = b].since = c.since
BY DEF CallState

-----------------------------------------------------------------------------
(***************************************************************************)
(* What each step does to the calls, field by field.                       *)
(***************************************************************************)

\* Only thread t moves.
Moves(t) ==
  /\ thread' \in [Threads -> CallState]
  /\ \A x \in Threads \ {t} : thread'[x] = thread[x]

\* A call begins with a hit or a miss.
LEMMA BeginEffect ==
  ASSUME TypeOK, NEW t \in Threads, NEW op \in Calls(t), NEW u \in Users,
         Begin(t, op, u)
  PROVE  /\ thread[t].pc = "idle" /\ Moves(t)
         /\ thread'[t].op = op /\ thread'[t].user = u
         /\ thread'[t].version \in Lookup(op, u)
         /\ thread'[t].since = Since(op, u)
         /\ thread'[t].pc = IF thread'[t].version = 0 THEN "row" ELSE "hit"
<1>1. PICK found \in Lookup(op, u) :
        thread' = [thread EXCEPT ![t] =
          [pc |-> IF found = 0 THEN "row" ELSE "hit", op |-> op, user |-> u,
           version |-> found, since |-> Since(op, u), alone |-> TRUE]]
  BY DEF Begin
<1>2. found \in Version /\ Since(op, u) \in Version
  BY UserCacheAssumption DEF Lookup, Since, TypeOK, Version
<1>3. op \in {"refresh", "uid", "name", "rpc"}
  BY DEF Calls
<1> DEFINE c == [pc |-> IF found = 0 THEN "row" ELSE "hit", op |-> op,
                 user |-> u, version |-> found, since |-> Since(op, u),
                 alone |-> TRUE]
<1>4. /\ c \in CallState /\ c.op = op /\ c.user = u /\ c.version = found
      /\ c.since = Since(op, u)
      /\ c.pc = IF found = 0 THEN "row" ELSE "hit"
  BY <1>2, <1>3 DEF CallState
<1> HIDE DEF c
<1>5. thread' = [thread EXCEPT ![t] = c]
  BY <1>1 DEF c
<1>6. thread[t].pc = "idle"
  BY DEF Begin
<1> QED
  BY <1>4, <1>5, <1>6 DEF Moves, TypeOK

\* A call ends.
LEMMA EndEffect ==
  ASSUME TypeOK, NEW t \in Threads,
         thread' = [thread EXCEPT ![t] = Idle(@.user)]
  PROVE  /\ Moves(t)
         /\ thread'[t].pc = "idle" /\ thread'[t].op = "none"
         /\ thread'[t].version = 0 /\ thread'[t].since = 0
         /\ thread'[t].user = thread[t].user
<1>1. thread[t].user \in Users
  BY DEF TypeOK, CallState
<1>2. thread' = [thread EXCEPT ![t] = Idle(thread[t].user)]
  OBVIOUS
<1> QED
  BY <1>1, <1>2, IdleState DEF Moves, TypeOK

\* A fill begins; the fills of the same user are disturbed, and nothing
\* else about the other threads changes.
LEMMA RowFoundEffect ==
  ASSUME TypeOK, NEW t \in Threads, RowFound(t)
  PROVE  /\ thread' \in [Threads -> CallState]
         /\ thread[t].pc = "row" /\ thread'[t].pc = "base"
         /\ thread'[t].version = row[thread[t].user]
         /\ thread'[t].alone <=> Filling(thread[t].user) = {}
         /\ \A x \in Threads :
              /\ thread'[x].op = thread[x].op
              /\ thread'[x].user = thread[x].user
              /\ thread'[x].since = thread[x].since
              /\ x # t =>
                   /\ thread'[x].pc = thread[x].pc
                   /\ thread'[x].version = thread[x].version
                   /\ thread'[x].alone <=>
                        thread[x].alone /\ x \notin Filling(thread[t].user)
<1> DEFINE u == thread[t].user
           others == Filling(u)
           c == [pc |-> "base", op |-> thread[t].op, user |-> u,
                 version |-> row[u], since |-> thread[t].since,
                 alone |-> others = {}]
           d(x) == [thread[x] EXCEPT !.alone = @ /\ x \notin others]
<1>1. thread[t] \in CallState /\ u \in Users /\ row[u] \in Version
  BY DEF TypeOK, CallState
<1>2. (others = {}) \in BOOLEAN
  OBVIOUS
<1> HIDE DEF others
<1>3. /\ c \in CallState /\ c.pc = "base" /\ c.op = thread[t].op
      /\ c.user = u /\ c.version = row[u] /\ c.since = thread[t].since
      /\ c.alone <=> others = {}
  BY <1>1, <1>2 DEF CallState
<1>4. ASSUME NEW x \in Threads
      PROVE  /\ d(x) \in CallState /\ d(x).pc = thread[x].pc
             /\ d(x).op = thread[x].op /\ d(x).user = thread[x].user
             /\ d(x).version = thread[x].version
             /\ d(x).since = thread[x].since
             /\ d(x).alone <=> thread[x].alone /\ x \notin others
  <2>1. thread[x] \in CallState
    BY DEF TypeOK
  <2> DEFINE b == thread[x].alone /\ x \notin others
             e == [thread[x] EXCEPT !.alone = b]
  <2>2. b \in BOOLEAN
    OBVIOUS
  <2>3. d(x) = e
    OBVIOUS
  <2> HIDE DEF b, d
  <2>4. /\ e \in CallState /\ e.alone = b
        /\ e.pc = thread[x].pc /\ e.op = thread[x].op /\ e.user = thread[x].user
        /\ e.version = thread[x].version /\ e.since = thread[x].since
    BY <2>1, <2>2, AloneChanges
  <2>5. e.alone <=> thread[x].alone /\ x \notin others
    BY <2>4 DEF b
  <2> HIDE DEF e
  <2> QED
    BY <2>3, <2>4, <2>5
<1>5. /\ thread' = [x \in Threads |-> IF x = t THEN c ELSE d(x)]
      /\ thread[t].pc = "row"
  BY DEF RowFound, others
<1> HIDE DEF c, d
<1>6. thread'[t] = c /\ \A x \in Threads : x # t => thread'[x] = d(x)
  BY <1>5
<1> QED
  BY <1>3, <1>4, <1>5, <1>6 DEF others

\* What SetBase does, where ok says whether Redis took the command.
BaseStep(t, ok) ==
  /\ Moves(t) /\ thread[t].pc = "base"
  /\ thread'[t].user = thread[t].user
  /\ base_info' = IF ok
       THEN [base_info EXCEPT ![thread[t].user] = thread[t].version]
       ELSE base_info
  /\ failed' = IF ok THEN failed ELSE failed \cup {<<"base", thread[t].user>>}
  /\ sure' = IF ok /\ thread[t].op # "rpc" THEN sure
             ELSE [sure EXCEPT ![thread[t].user] = 0]
  /\ thread[t].op = "rpc" =>
       /\ thread'[t].pc = "idle" /\ thread'[t].op = "none"
       /\ thread'[t].version = 0 /\ thread'[t].since = 0
  /\ thread[t].op # "rpc" =>
       /\ thread'[t].pc = "name" /\ thread'[t].op = thread[t].op
       /\ thread'[t].version = thread[t].version
       /\ thread'[t].since = thread[t].since
       /\ thread'[t].alone => ok /\ thread[t].alone

\* The service ends with the base key, the others go on to the name key.
LEMMA SetBaseEffect ==
  ASSUME TypeOK, NEW t \in Threads, SetBase(t)
  PROVE  \E ok \in {TRUE, ~MayFail} : BaseStep(t, ok)
<1> DEFINE u == thread[t].user
<1>1. thread[t] \in CallState /\ u \in Users
  BY DEF TypeOK, CallState
<1>2. PICK ok \in {TRUE, ~MayFail} :
        /\ base_info' = IF ok
             THEN [base_info EXCEPT ![u] = thread[t].version] ELSE base_info
        /\ failed' = IF ok THEN failed ELSE failed \cup {<<"base", u>>}
        /\ thread' = [thread EXCEPT ![t] =
             IF @.op = "rpc" THEN Idle(u)
             ELSE [pc |-> "name", op |-> @.op, user |-> u,
                   version |-> @.version, since |-> @.since,
                   alone |-> @.alone /\ ok]]
        /\ sure' = IF ok /\ thread[t].op # "rpc" THEN sure
                   ELSE [sure EXCEPT ![u] = 0]
  BY DEF SetBase
<1>3. thread[t].pc = "base"
  BY DEF SetBase
<1> DEFINE c == [pc |-> "name", op |-> thread[t].op, user |-> u,
                 version |-> thread[t].version, since |-> thread[t].since,
                 alone |-> thread[t].alone /\ ok]
<1>5. /\ c \in CallState /\ c.pc = "name" /\ c.op = thread[t].op
      /\ c.user = u /\ c.version = thread[t].version
      /\ c.since = thread[t].since /\ c.alone => ok /\ thread[t].alone
  BY <1>1 DEF CallState
<1>6. thread' = [thread EXCEPT ![t] =
                   IF thread[t].op = "rpc" THEN Idle(u) ELSE c]
  BY <1>2
<1> HIDE DEF c
<1>7. CASE thread[t].op = "rpc"
  <2>1. thread' = [thread EXCEPT ![t] = Idle(u)]
    BY <1>6, <1>7
  <2>2. /\ Moves(t) /\ thread'[t].pc = "idle" /\ thread'[t].op = "none"
        /\ thread'[t].version = 0 /\ thread'[t].since = 0
        /\ thread'[t].user = u
    BY <1>1, <2>1, IdleState DEF Moves, TypeOK
  <2>3. BaseStep(t, ok)
    BY <1>2, <1>3, <1>7, <2>2 DEF BaseStep
  <2> QED
    BY <2>3
<1>8. CASE thread[t].op # "rpc"
  <2>1. thread' = [thread EXCEPT ![t] = c]
    BY <1>6, <1>8
  <2>2. Moves(t) /\ thread'[t] = c
    BY <1>5, <2>1 DEF Moves, TypeOK
  <2>3. BaseStep(t, ok)
    BY <1>2, <1>3, <1>5, <1>8, <2>2 DEF BaseStep
  <2> QED
    BY <2>3
<1> QED
  BY <1>7, <1>8

-----------------------------------------------------------------------------
\* The invariant holds when nothing is cached and nothing under way.
LEMMA InitInv == Init => Inv
<1> SUFFICES ASSUME Init PROVE Inv
  OBVIOUS
<1> USE UserCacheAssumption
<1>1. /\ thread \in [Threads -> CallState]
      /\ \A t \in Threads :
           /\ thread[t].pc = "idle" /\ thread[t].op = "none"
           /\ thread[t].version = 0 /\ thread[t].user \in Users
  <2>1. thread \in [Threads -> {Idle(u) : u \in Users}]
    BY DEF Init
  <2>2. \A t \in Threads : \E u \in Users : thread[t] = Idle(u)
    BY <2>1
  <2> QED
    BY <2>1, <2>2, IdleState
<1>2. TypeOK
  BY <1>1 DEF Init, TypeOK, Version
<1>3. VersionsGrow /\ OperationFits /\ MeetingDisturbs /\ BaseSet
  BY <1>1 DEF Init, VersionsGrow, OperationFits, MeetingDisturbs, BaseSet, Filling
<1>4. CacheAsFilled
  BY DEF Init, CacheAsFilled
<1> QED
  BY <1>2, <1>3, <1>4 DEF Inv

\* A step of one thread that touches neither rows nor keys.
LEMMA OneMoves ==
  ASSUME TypeOK, NEW t \in Threads, Moves(t),
         UNCHANGED <<row, base_info, name_info, sure, failed>>,
         thread'[t].op \in Calls(t) \cup {"none"},
         thread'[t].version > 0 <=> thread'[t].pc \in {"hit", "base", "name"}
  PROVE  TypeOK'
BY DEF Moves, TypeOK

\* The types are preserved by every step.
LEMMA NextTypes == Inv /\ [Next]_vars => TypeOK'
<1> SUFFICES ASSUME Inv, [Next]_vars PROVE TypeOK'
  OBVIOUS
<1> USE UserCacheAssumption DEF Inv
<1>1. ASSUME NEW u \in Users, ChangeRow(u) PROVE TypeOK'
  BY <1>1 DEF ChangeRow, TypeOK, Version
<1>2. ASSUME NEW t \in Threads, NEW op \in Calls(t), NEW u \in Users,
             Begin(t, op, u)
      PROVE TypeOK'
  <2>1. \A n \in Lookup(op, u) : n \in Nat
    BY DEF Lookup, TypeOK, Version
  <2>2. UNCHANGED <<row, base_info, name_info, sure, failed>>
    BY <1>2 DEF Begin
  <2>3. /\ Moves(t) /\ thread'[t].op \in Calls(t)
        /\ thread'[t].version \in Nat
        /\ thread'[t].pc = IF thread'[t].version = 0 THEN "row" ELSE "hit"
    BY <1>2, <2>1, BeginEffect
  <2> QED
    BY <2>2, <2>3, OneMoves
<1>3. ASSUME NEW t \in Threads, AnswerHit(t) PROVE TypeOK'
  <2>1. /\ thread' = [thread EXCEPT ![t] = Idle(@.user)]
        /\ UNCHANGED <<row, base_info, name_info, sure, failed>>
    BY <1>3 DEF AnswerHit
  <2>2. /\ Moves(t) /\ thread'[t].op = "none" /\ thread'[t].version = 0
        /\ thread'[t].pc = "idle"
    BY <2>1, EndEffect
  <2> QED
    BY <2>1, <2>2, OneMoves
<1>4. ASSUME NEW t \in Threads, RowNotFound(t) PROVE TypeOK'
  <2>1. /\ thread' = [thread EXCEPT ![t] = Idle(@.user)]
        /\ UNCHANGED <<row, base_info, name_info, sure, failed>>
    BY <1>4 DEF RowNotFound
  <2>2. /\ Moves(t) /\ thread'[t].op = "none" /\ thread'[t].version = 0
        /\ thread'[t].pc = "idle"
    BY <2>1, EndEffect
  <2> QED
    BY <2>1, <2>2, OneMoves
<1>5. ASSUME NEW t \in Threads, RowFound(t) PROVE TypeOK'
  <2>1. /\ sure' = sure \/ sure' = [sure EXCEPT ![thread[t].user] = 0]
        /\ row[thread[t].user] # 0
        /\ UNCHANGED <<row, base_info, name_info, failed>>
    BY <1>5 DEF RowFound
  <2>2. row[thread[t].user] \in Nat /\ sure' \in [Users -> Version]
    BY <2>1 DEF TypeOK, CallState, Version
  <2>3. \A x \in Threads :
          /\ thread'[x].op \in Calls(x) \cup {"none"}
          /\ thread'[x].version > 0 <=>
               thread'[x].pc \in {"hit", "base", "name"}
    BY <1>5, <2>1, <2>2, RowFoundEffect DEF TypeOK
  <2>4. thread' \in [Threads -> CallState]
    BY <1>5, RowFoundEffect
  <2> QED
    BY <2>1, <2>2, <2>3, <2>4 DEF TypeOK
<1>6. ASSUME NEW t \in Threads, SetBase(t) PROVE TypeOK'
  <2>1. /\ thread[t].user \in Users /\ thread[t].version \in Version
        /\ thread[t].version <= row[thread[t].user]
    BY DEF TypeOK, CallState, VersionsGrow
  <2>2. UNCHANGED <<row, name_info>>
    BY <1>6 DEF SetBase
  <2>3. PICK ok \in {TRUE, ~MayFail} : BaseStep(t, ok)
    BY <1>6, SetBaseEffect
  <2>4. /\ base_info' \in [Users -> Version] /\ sure' \in [Users -> Version]
        /\ failed' \subseteq {"base", "name"} \X Users
        /\ \A u \in Users : base_info'[u] <= row[u]
    BY <2>1, <2>3 DEF BaseStep, TypeOK, Version
  <2>5. /\ Moves(t) /\ thread'[t].op \in Calls(t) \cup {"none"}
        /\ thread'[t].version > 0 <=>
             thread'[t].pc \in {"hit", "base", "name"}
    BY <2>3 DEF BaseStep, TypeOK
  <2> QED
    BY <2>2, <2>4, <2>5 DEF Moves, TypeOK
<1>7. ASSUME NEW t \in Threads, SetName(t) PROVE TypeOK'
  <2>1. /\ thread[t].user \in Users /\ thread[t].version \in Version
        /\ thread[t].version <= row[thread[t].user]
    BY DEF TypeOK, CallState, VersionsGrow
  <2>2. /\ thread' = [thread EXCEPT ![t] = Idle(@.user)]
        /\ UNCHANGED <<row, base_info>>
    BY <1>7 DEF SetName
  <2>3. /\ failed' \subseteq {"base", "name"} \X Users
        /\ sure' \in [Users -> Version] /\ name_info' \in [Users -> Version]
        /\ \A u \in Users : name_info'[u] <= row[u]
    BY <1>7, <2>1 DEF SetName, TypeOK, Version
  <2>4. /\ Moves(t) /\ thread'[t].op = "none" /\ thread'[t].version = 0
        /\ thread'[t].pc = "idle"
    BY <2>2, EndEffect
  <2> QED
    BY <2>2, <2>3, <2>4 DEF Moves, TypeOK
<1>8. CASE UNCHANGED vars
  BY <1>8 DEF vars, TypeOK
<1> QED
  BY <1>1, <1>2, <1>3, <1>4, <1>5, <1>6, <1>7, <1>8 DEF Next, Call

\* A step of a thread that is not filling, and does not begin to, disturbs
\* nothing.
LEMMA QuietStep ==
  ASSUME Inv, TypeOK', NEW t \in Threads, Moves(t),
         UNCHANGED <<row, base_info, name_info, sure, failed>>,
         thread[t].pc \notin {"base", "name"},
         thread'[t].pc \notin {"base", "name"},
         thread'[t].version <= row[thread'[t].user],
         thread'[t].op = "refresh" => thread'[t].since <= row[thread'[t].user],
         thread'[t].pc = "idle" => thread'[t].op = "none",
         thread'[t].pc = "hit" => thread'[t].op # "refresh"
  PROVE  Inv'
<1>1. \A u \in Users : Filling(u)' = Filling(u)
  BY DEF Filling, Moves
<1>2. VersionsGrow'
  BY DEF Inv, VersionsGrow, Moves
<1>3. OperationFits'
  BY DEF Inv, OperationFits, Moves
<1>4. MeetingDisturbs'
  BY DEF Inv, MeetingDisturbs, Filling, Moves
<1>5. BaseSet'
  BY DEF Inv, BaseSet, Moves
<1>6. CacheAsFilled'
  <2>1. \A u \in Users : \A x \in Filling(u) : x # t
    BY DEF Filling
  <2> QED
    BY <1>1, <2>1 DEF Inv, CacheAsFilled, Moves, Filling
<1> QED
  BY <1>2, <1>3, <1>4, <1>5, <1>6 DEF Inv

\* A fill begins: it reads the newest version, and who met is disturbed.
LEMMA RowFoundKeeps ==
  ASSUME Inv, TypeOK', NEW t \in Threads, RowFound(t)
  PROVE  Inv'
<1> DEFINE u == thread[t].user
<1>1. /\ UNCHANGED <<row, base_info, name_info, failed>>
      /\ sure' = IF Filling(u) = {} THEN sure ELSE [sure EXCEPT ![u] = 0]
  BY DEF RowFound
<1>2. /\ thread[t].pc = "row" /\ thread'[t].pc = "base"
      /\ thread'[t].version = row[u]
      /\ thread'[t].alone <=> Filling(u) = {}
      /\ \A x \in Threads :
           /\ thread'[x].op = thread[x].op
           /\ thread'[x].user = thread[x].user
           /\ thread'[x].since = thread[x].since
           /\ x # t =>
                /\ thread'[x].pc = thread[x].pc
                /\ thread'[x].version = thread[x].version
                /\ thread'[x].alone <=> thread[x].alone /\ x \notin Filling(u)
  BY RowFoundEffect DEF Inv
<1>3. u \in Users /\ \A x \in Threads : thread[x].user \in Users
  BY DEF Inv, TypeOK, CallState
<1>4. \A w \in Users : sure'[w] = sure[w] \/ sure'[w] = 0
  BY <1>1, <1>3 DEF Inv, TypeOK
<1>5. \A w \in Users : sure[w] \in Nat /\ row[w] \in Nat
  BY DEF Inv, TypeOK, Version
<1>6. VersionsGrow'
  <2>1. \A w \in Users : sure'[w] <= row'[w]
    BY <1>1, <1>4, <1>5 DEF Inv, VersionsGrow
  <2>2. \A x \in Threads : /\ thread[x].version \in Nat
                           /\ thread[x].since \in Nat
    BY DEF Inv, TypeOK, CallState, Version
  <2>3. ASSUME NEW x \in Threads
        PROVE  /\ thread'[x].version <= row[thread[x].user]
               /\ thread[x].op = "refresh" =>
                    thread[x].since <= row[thread[x].user]
               /\ thread'[x].pc \in {"base", "name"} =>
                    /\ sure'[thread[x].user] <= thread'[x].version
                    /\ thread[x].op = "refresh" =>
                         thread[x].since <= thread'[x].version
    <3>1. CASE x = t
      BY <1>1, <1>2, <1>3, <1>5, <2>1, <3>1 DEF Inv, VersionsGrow
    <3>2. CASE x # t
      BY <1>2, <1>3, <1>4, <1>5, <2>2, <3>2 DEF Inv, VersionsGrow
    <3> QED
      BY <3>1, <3>2
  <2> QED
    BY <1>1, <1>2, <2>1, <2>3 DEF VersionsGrow
<1>7. OperationFits'
  BY <1>2 DEF Inv, OperationFits
<1>8. MeetingDisturbs'
  <2> SUFFICES ASSUME NEW a \in Threads, NEW x \in Threads, a # x,
                      {a, x} \subseteq Filling(thread[a].user)'
               PROVE  ~thread'[a].alone /\ sure'[thread'[a].user] = 0
    BY DEF MeetingDisturbs
  <2>1. /\ thread[x].user = thread[a].user
        /\ thread'[a].user = thread[a].user
        /\ a # t => a \in Filling(thread[a].user)
        /\ x # t => x \in Filling(thread[a].user)
    BY <1>2 DEF Filling
  <2>2. CASE a = t \/ x = t
    <3>1. Filling(u) # {} /\ (x = t => a \in Filling(u))
      BY <2>1, <2>2
    <3>2. ~thread'[a].alone
      BY <1>2, <2>2, <3>1
    <3>3. sure'[u] = 0 /\ thread[a].user = u
      BY <1>1, <1>3, <2>1, <2>2, <3>1 DEF Inv, TypeOK
    <3> QED
      BY <2>1, <3>2, <3>3
  <2>3. CASE a # t /\ x # t
    <3>1. ~thread[a].alone /\ sure[thread[a].user] = 0
      BY <2>1, <2>3 DEF Inv, MeetingDisturbs
    <3> QED
      BY <1>2, <1>3, <1>4, <2>1, <2>3, <3>1
  <2> QED
    BY <2>2, <2>3
<1>9. BaseSet'
  BY <1>1, <1>2 DEF Inv, BaseSet
<1>10. CacheAsFilled'
  <2>1. \A w \in Users : \A x \in Filling(w) :
          x \in Filling(w)' /\ thread'[x].version = thread[x].version
    BY <1>2 DEF Filling
  <2> QED
    BY <1>1, <1>4, <2>1 DEF Inv, CacheAsFilled
<1> QED
  BY <1>6, <1>7, <1>8, <1>9, <1>10 DEF Inv

\* The base key is set.
LEMMA SetBaseKeeps ==
  ASSUME Inv, TypeOK', NEW t \in Threads, SetBase(t)
  PROVE  Inv'
<1> DEFINE u == thread[t].user
<1>1. UNCHANGED <<row, name_info>>
  BY DEF SetBase
<1>2. PICK ok \in {TRUE, ~MayFail} : BaseStep(t, ok)
  BY SetBaseEffect DEF Inv
<1>3. /\ u \in Users /\ \A x \in Threads : thread[x].user \in Users
      /\ \A w \in Users : sure[w] \in Nat /\ row[w] \in Nat
      /\ thread[t].version \in Nat
  BY DEF Inv, TypeOK, CallState, Version
<1>4. \A w \in Users : sure'[w] = sure[w] \/ sure'[w] = 0
  BY <1>2, <1>3 DEF BaseStep, Inv, TypeOK
<1>5. \A x \in Threads :
        /\ thread'[x].user = thread[x].user
        /\ x # t => thread'[x] = thread[x]
  BY <1>2 DEF BaseStep, Moves
<1>6. /\ thread[t].pc = "base"
      /\ thread[t].op = "rpc" =>
           /\ thread'[t].pc = "idle" /\ thread'[t].op = "none"
           /\ thread'[t].version = 0 /\ thread'[t].since = 0
      /\ thread[t].op # "rpc" =>
           /\ thread'[t].pc = "name" /\ thread'[t].op = thread[t].op
           /\ thread'[t].version = thread[t].version
           /\ thread'[t].since = thread[t].since
           /\ thread'[t].alone => ok /\ thread[t].alone
  BY <1>2 DEF BaseStep
<1>7. VersionsGrow'
  <2>1. \A w \in Users : sure'[w] <= row'[w]
    BY <1>1, <1>3, <1>4 DEF Inv, VersionsGrow
  <2>2. \A x \in Threads :
          /\ thread'[x].version <= row[thread[x].user]
          /\ thread'[x].op = "refresh" =>
               thread'[x].since <= row[thread[x].user]
    BY <1>3, <1>5, <1>6 DEF Inv, VersionsGrow
  <2>3. \A x \in Threads : thread'[x].pc \in {"base", "name"} =>
          /\ thread[x].pc \in {"base", "name"}
          /\ thread'[x].op = thread[x].op
          /\ thread'[x].version = thread[x].version
          /\ thread'[x].since = thread[x].since
    BY <1>5, <1>6
  <2>4. \A x \in Threads : thread'[x].pc \in {"base", "name"} =>
          sure'[thread[x].user] <= thread'[x].version
    <3>1. \A x \in Threads : thread[x].version \in Nat
      BY DEF Inv, TypeOK, CallState, Version
    <3> QED
      BY <1>3, <1>4, <2>3, <3>1 DEF Inv, VersionsGrow
  <2>5. \A x \in Threads : thread'[x].pc \in {"base", "name"} =>
          (thread'[x].op = "refresh" => thread'[x].since <= thread'[x].version)
    BY <2>3 DEF Inv, VersionsGrow
  <2> QED
    BY <1>1, <1>5, <2>1, <2>2, <2>4, <2>5 DEF VersionsGrow
<1>8. OperationFits'
  BY <1>5, <1>6 DEF Inv, OperationFits
<1>9. \A w \in Users : Filling(w)' \subseteq Filling(w)
  BY <1>5, <1>6 DEF Filling
<1>10. MeetingDisturbs'
  <2> SUFFICES ASSUME NEW a \in Threads, NEW x \in Threads, a # x,
                      {a, x} \subseteq Filling(thread[a].user)'
               PROVE  ~thread'[a].alone /\ sure'[thread'[a].user] = 0
    BY DEF MeetingDisturbs
  <2>1. {a, x} \subseteq Filling(thread[a].user)
    BY <1>3, <1>5, <1>9
  <2>2. ~thread[a].alone /\ sure[thread[a].user] = 0
    BY <2>1 DEF Inv, MeetingDisturbs
  <2>3. a = t => thread[t].op # "rpc"
    BY <1>6 DEF Filling
  <2> QED
    BY <1>3, <1>4, <1>5, <1>6, <2>2, <2>3
<1>11. BaseSet'
  <2> SUFFICES ASSUME NEW x \in Threads, thread'[x].pc = "name",
                      thread'[x].alone
               PROVE  base_info'[thread'[x].user] = thread'[x].version
    BY DEF BaseSet
  <2>1. CASE x = t
    BY <1>2, <1>3, <1>6, <2>1 DEF BaseStep, Inv, TypeOK
  <2>2. CASE x # t
    <3>1. thread[x].pc = "name" /\ thread[x].alone
      BY <1>5, <2>2
    <3>2. thread[x].user # u
      BY <1>6, <2>2, <3>1 DEF Inv, MeetingDisturbs, Filling
    <3>3. base_info'[thread[x].user] = base_info[thread[x].user]
      BY <1>2, <1>3, <3>2 DEF BaseStep, Inv, TypeOK
    <3> QED
      BY <1>5, <2>2, <3>1, <3>3 DEF Inv, BaseSet
  <2> QED
    BY <2>1, <2>2
<1>12. CacheAsFilled'
  <2> SUFFICES ASSUME NEW w \in Users, sure'[w] # 0,
                      NEW v \in {base_info'[w], name_info'[w]}
               PROVE  \/ v = sure'[w]
                      \/ v > sure'[w]
                           /\ \E x \in Filling(w)' : v = thread'[x].version
    BY DEF CacheAsFilled
  <2>1. sure'[w] = sure[w]
    BY <1>4
  <2>2. w = u => ok /\ thread[t].op # "rpc"
    BY <1>2, <1>3 DEF BaseStep, Inv, TypeOK
  <2>3. \A x \in Filling(w) :
          x \in Filling(w)' /\ thread'[x].version = thread[x].version
    BY <1>5, <1>6, <2>2 DEF Filling
  <2>4. CASE w = u /\ v = base_info'[w]
    <3>1. v = thread[t].version /\ t \in Filling(w)
      BY <1>2, <1>3, <1>6, <2>2, <2>4 DEF BaseStep, Filling, Inv, TypeOK
    <3>2. sure[w] <= v
      BY <1>6, <2>4, <3>1 DEF Inv, VersionsGrow
    <3>3. v = sure[w] \/ v > sure[w]
      BY <1>3, <3>1, <3>2
    <3> QED
      BY <2>1, <2>3, <3>1, <3>3
  <2>5. CASE v \in {base_info[w], name_info[w]}
    BY <2>1, <2>3, <2>5 DEF Inv, CacheAsFilled
  <2>6. w # u => base_info'[w] = base_info[w]
    BY <1>2, <1>3 DEF BaseStep, Inv, TypeOK
  <2> QED
    BY <1>1, <2>4, <2>5, <2>6
<1> QED
  BY <1>7, <1>8, <1>10, <1>11, <1>12 DEF Inv

\* The name key is set, and the call is done.
LEMMA SetNameKeeps ==
  ASSUME Inv, TypeOK', NEW t \in Threads, SetName(t)
  PROVE  Inv'
<1> DEFINE u == thread[t].user
<1>1. /\ UNCHANGED <<row, base_info>>
      /\ thread' = [thread EXCEPT ![t] = Idle(@.user)]
      /\ thread[t].pc = "name"
  BY DEF SetName
<1>2. PICK ok \in {TRUE, ~MayFail} :
        /\ name_info' = IF ok
             THEN [name_info EXCEPT ![u] = thread[t].version] ELSE name_info
        /\ sure' = [sure EXCEPT ![u] =
             IF ok /\ thread[t].alone THEN thread[t].version ELSE 0]
  BY DEF SetName
<1>3. /\ u \in Users /\ \A x \in Threads : thread[x].user \in Users
      /\ \A w \in Users : sure[w] \in Nat /\ row[w] \in Nat
  BY DEF Inv, TypeOK, CallState, Version
<1>4. /\ \A x \in Threads :
           /\ thread'[x].user = thread[x].user
           /\ x # t => thread'[x] = thread[x]
      /\ thread'[t].pc = "idle" /\ thread'[t].op = "none"
      /\ thread'[t].version = 0
  BY <1>1, EndEffect DEF Inv, Moves
<1>5. /\ \A w \in Users : w # u => sure'[w] = sure[w]
      /\ sure'[u] = IF ok /\ thread[t].alone THEN thread[t].version ELSE 0
  BY <1>2, <1>3 DEF Inv, TypeOK
<1>6. \A x \in Threads \ {t} : thread[x].pc \in {"base", "name"} =>
        thread[x].user # u \/ ~thread[t].alone
  BY <1>1 DEF Inv, MeetingDisturbs, Filling
<1>7. VersionsGrow'
  <2>1. \A w \in Users : sure'[w] <= row'[w]
    BY <1>1, <1>3, <1>5 DEF Inv, VersionsGrow
  <2>2. \A x \in Threads :
          /\ thread'[x].version <= row[thread[x].user]
          /\ thread'[x].op = "refresh" =>
               thread'[x].since <= row[thread[x].user]
    BY <1>3, <1>4 DEF Inv, VersionsGrow
  <2>3. \A x \in Threads : thread'[x].pc \in {"base", "name"} =>
          /\ sure'[thread[x].user] <= thread'[x].version
          /\ thread'[x].op = "refresh" => thread'[x].since <= thread'[x].version
    <3>1. \A x \in Threads : thread[x].version \in Nat
      BY DEF Inv, TypeOK, CallState, Version
    <3> QED
      BY <1>3, <1>4, <1>5, <1>6, <3>1 DEF Inv, VersionsGrow
  <2> QED
    BY <1>1, <1>4, <2>1, <2>2, <2>3 DEF VersionsGrow
<1>8. OperationFits'
  BY <1>4 DEF Inv, OperationFits
<1>9. \A w \in Users : Filling(w)' = Filling(w) \ {t}
  BY <1>4 DEF Filling
<1>10. MeetingDisturbs'
  <2> SUFFICES ASSUME NEW a \in Threads, NEW x \in Threads, a # x,
                      {a, x} \subseteq Filling(thread[a].user)'
               PROVE  ~thread'[a].alone /\ sure'[thread'[a].user] = 0
    BY DEF MeetingDisturbs
  <2>1. a # t /\ {a, x} \subseteq Filling(thread[a].user)
    BY <1>4 DEF Filling
  <2>2. ~thread[a].alone /\ sure[thread[a].user] = 0
    BY <2>1 DEF Inv, MeetingDisturbs
  <2>3. sure'[thread[a].user] = 0
    <3>1. CASE thread[a].user = u
      <4>1. thread[a].pc \in {"base", "name"} /\ a \in Threads \ {t}
        BY <2>1 DEF Filling
      <4> QED
        BY <1>5, <1>6, <3>1, <4>1
    <3>2. CASE thread[a].user # u
      BY <1>3, <1>5, <2>2, <3>2
    <3> QED
      BY <3>1, <3>2
  <2> QED
    BY <1>4, <2>1, <2>2, <2>3
<1>11. BaseSet'
  BY <1>1, <1>4 DEF Inv, BaseSet
<1>12. CacheAsFilled'
  <2> SUFFICES ASSUME NEW w \in Users, sure'[w] # 0,
                      NEW v \in {base_info'[w], name_info'[w]}
               PROVE  \/ v = sure'[w]
                      \/ v > sure'[w]
                           /\ \E x \in Filling(w)' : v = thread'[x].version
    BY DEF CacheAsFilled
  <2>1. CASE w = u
    <3>1. ok /\ thread[t].alone /\ sure'[u] = thread[t].version
      BY <1>5, <2>1
    <3>2. base_info'[u] = thread[t].version
      BY <1>1, <3>1 DEF Inv, BaseSet
    <3>3. name_info'[u] = thread[t].version
      BY <1>2, <1>3, <3>1 DEF Inv, TypeOK
    <3> QED
      BY <2>1, <3>1, <3>2, <3>3
  <2>2. CASE w # u
    <3>1. v \in {base_info[w], name_info[w]} /\ sure'[w] = sure[w]
      BY <1>1, <1>2, <1>3, <1>5, <2>2 DEF Inv, TypeOK
    <3>2. \A x \in Filling(w) : x # t
      BY <2>2 DEF Filling
    <3>3. \A x \in Filling(w) : thread'[x].version = thread[x].version
      BY <1>4, <3>2 DEF Filling
    <3> QED
      BY <1>9, <3>1, <3>2, <3>3 DEF Inv, CacheAsFilled
  <2> QED
    BY <2>1, <2>2
<1> QED
  BY <1>7, <1>8, <1>10, <1>11, <1>12 DEF Inv

-----------------------------------------------------------------------------
\* Every step preserves the invariant.
LEMMA NextInv == Inv /\ [Next]_vars => Inv'
<1> SUFFICES ASSUME Inv, [Next]_vars PROVE Inv'
  OBVIOUS
<1>1. TypeOK'
  BY NextTypes
<1>2. ASSUME NEW u \in Users, ChangeRow(u) PROVE Inv'
  <2>1. /\ UNCHANGED <<base_info, name_info, thread, sure, failed>>
        /\ row' = [row EXCEPT ![u] = @ + 1]
    BY <1>2 DEF ChangeRow
  <2>2. \A w \in Users : row[w] \in Nat /\ sure[w] \in Nat
                           /\ (row'[w] = row[w] \/ row'[w] = row[w] + 1)
    BY <2>1 DEF Inv, TypeOK, Version
  <2>3. \A x \in Threads : /\ thread[x].user \in Users
                           /\ thread[x].version \in Nat
                           /\ thread[x].since \in Nat
    BY DEF Inv, TypeOK, CallState, Version
  <2>4. VersionsGrow'
    BY <2>1, <2>2, <2>3 DEF Inv, VersionsGrow
  <2>5. OperationFits' /\ MeetingDisturbs' /\ BaseSet' /\ CacheAsFilled'
    BY <2>1 DEF Inv, OperationFits, MeetingDisturbs, BaseSet, CacheAsFilled,
                Filling
  <2> QED
    BY <1>1, <2>4, <2>5 DEF Inv
<1>3. ASSUME NEW t \in Threads, NEW op \in Calls(t), NEW u \in Users,
             Begin(t, op, u)
      PROVE Inv'
  <2>1. UNCHANGED <<row, base_info, name_info, sure, failed>>
    BY <1>3 DEF Begin
  <2>2. /\ thread[t].pc = "idle" /\ Moves(t)
        /\ thread'[t].op = op /\ thread'[t].user = u
        /\ thread'[t].version \in Lookup(op, u)
        /\ thread'[t].since = Since(op, u)
        /\ thread'[t].pc = IF thread'[t].version = 0 THEN "row" ELSE "hit"
    BY <1>3, BeginEffect DEF Inv
  <2>3. thread'[t].version <= row[u]
        /\ (op = "refresh" => thread'[t].version = 0)
    BY <2>2 DEF Lookup, Inv, TypeOK, Version
  <2>4. op = "refresh" => thread'[t].since <= row[u]
    BY <2>2 DEF Since, Inv, TypeOK, Version
  <2> QED
    BY <1>1, <2>1, <2>2, <2>3, <2>4, QuietStep
<1>4. ASSUME NEW t \in Threads, AnswerHit(t) \/ RowNotFound(t) PROVE Inv'
  <2>1. /\ thread' = [thread EXCEPT ![t] = Idle(@.user)]
        /\ UNCHANGED <<row, base_info, name_info, sure, failed>>
        /\ thread[t].pc \in {"hit", "row"}
    BY <1>4 DEF AnswerHit, RowNotFound
  <2>2. /\ Moves(t) /\ thread'[t].op = "none" /\ thread'[t].version = 0
        /\ thread'[t].pc = "idle" /\ thread'[t].user = thread[t].user
    BY <2>1, EndEffect DEF Inv
  <2>3. 0 <= row[thread[t].user]
    BY DEF Inv, TypeOK, CallState, Version
  <2> QED
    BY <1>1, <2>1, <2>2, <2>3, QuietStep
<1>5. CASE UNCHANGED vars
  BY <1>1, <1>5 DEF vars, Inv, VersionsGrow, OperationFits, MeetingDisturbs,
                    BaseSet, CacheAsFilled, Filling
<1> QED
  BY <1>1, <1>2, <1>3, <1>4, <1>5, RowFoundKeeps, SetBaseKeeps, SetNameKeeps
     DEF Next, Call

\* The invariant always holds.
THEOREM Invariance == Spec => []Inv
<1> QED
  BY InitInv, NextInv, PTL DEF Spec

\* Rows, keys, calls and what is known of them have their types; and no key
\* of the cache is ahead of the row it was read from.
THEOREM TypeCorrect == Spec => []TypeOK
<1>1. Inv => TypeOK
  BY DEF Inv
<1> QED
  BY <1>1, Invariance, PTL

\* Both keys of a user hold what the last undisturbed fill read, or what a
\* fill in progress has read: setBaseInfo and setNameInfo of RedisMgr, in the
\* order of getBaseInfo, getUserByUid and getUserByName, whatever the chat
\* servers and the gRPC threads do at the same time.
THEOREM CacheFollowsFills == Spec => []CacheAsFilled
<1>1. Inv => CacheAsFilled
  BY DEF Inv
<1> QED
  BY <1>1, Invariance, PTL

\* When a refresh that found the row is done, undisturbed, the keys are new.
LEMMA RefreshStep ==
  ASSUME Inv, Next, NEW t \in Workers,
         thread[t].op = "refresh", thread'[t].pc = "idle",
         thread[t].version # 0, sure'[thread[t].user] # 0
  PROVE  /\ base_info'[thread[t].user] >= thread[t].since
         /\ name_info'[thread[t].user] >= thread[t].since
<1> DEFINE u == thread[t].user
<1>1. /\ t \in Threads /\ u \in Users
      /\ thread[t].version \in Nat /\ thread[t].since \in Nat
  BY DEF Inv, TypeOK, CallState, Threads, Version
<1>2. thread[t].pc \in {"base", "name"}
  <2>1. thread[t].pc \in {"hit", "base", "name"}
    BY <1>1 DEF Inv, TypeOK
  <2> QED
    BY <1>1, <2>1 DEF Inv, OperationFits
<1>3. SetName(t)
  <2>1. \A x \in Threads : Moves(x) /\ thread'[t].pc # thread[t].pc => x = t
    BY <1>1 DEF Moves
  <2>2. ASSUME NEW y \in Users, ChangeRow(y) PROVE FALSE
    BY <1>2, <2>2 DEF ChangeRow
  <2>3. ASSUME NEW x \in Threads, NEW op \in Calls(x), NEW y \in Users,
               Begin(x, op, y)
        PROVE FALSE
    BY <1>2, <2>1, <2>3, BeginEffect DEF Inv
  <2>4. ASSUME NEW x \in Threads, AnswerHit(x) \/ RowNotFound(x) PROVE FALSE
    <3>1. /\ thread' = [thread EXCEPT ![x] = Idle(@.user)]
          /\ thread[x].pc \in {"hit", "row"}
      BY <2>4 DEF AnswerHit, RowNotFound
    <3>2. Moves(x)
      BY <3>1, EndEffect DEF Inv
    <3> QED
      BY <1>2, <2>1, <3>1, <3>2
  <2>5. ASSUME NEW x \in Threads, RowFound(x) PROVE FALSE
    <3>1. thread'[t].pc \in {thread[t].pc, "base"}
      BY <1>1, <2>5, RowFoundEffect DEF Inv
    <3> QED
      BY <1>2, <3>1
  <2>6. ASSUME NEW x \in Threads, SetBase(x) PROVE FALSE
    <3>1. PICK ok \in {TRUE, ~MayFail} : BaseStep(x, ok)
      BY <2>6, SetBaseEffect DEF Inv
    <3>2. x = t
      BY <1>2, <2>1, <3>1 DEF BaseStep
    <3> QED
      BY <3>1, <3>2 DEF BaseStep
  <2>7. ASSUME NEW x \in Threads, SetName(x) PROVE x = t
    <3>1. thread' = [thread EXCEPT ![x] = Idle(@.user)]
      BY <2>7 DEF SetName
    <3>2. Moves(x)
      BY <3>1, EndEffect DEF Inv
    <3> QED
      BY <1>2, <2>1, <3>2
  <2> QED
    BY <2>2, <2>3, <2>4, <2>5, <2>6, <2>7 DEF Next, Call
<1>4. PICK ok \in {TRUE, ~MayFail} :
        /\ name_info' = IF ok
             THEN [name_info EXCEPT ![u] = thread[t].version] ELSE name_info
        /\ sure' = [sure EXCEPT ![u] =
             IF ok /\ thread[t].alone THEN thread[t].version ELSE 0]
  BY <1>3 DEF SetName
<1>5. ok /\ thread[t].alone
  BY <1>1, <1>4 DEF Inv, TypeOK
<1>6. thread[t].pc = "name" /\ base_info' = base_info
  BY <1>3 DEF SetName
<1>7. base_info'[u] = thread[t].version /\ name_info'[u] = thread[t].version
  BY <1>1, <1>4, <1>5, <1>6 DEF Inv, TypeOK, BaseSet
<1>8. thread[t].since <= thread[t].version
  BY <1>1, <1>6 DEF Inv, VersionsGrow
<1> QED
  BY <1>1, <1>7, <1>8

\* A refresh that was not disturbed leaves both keys as new as the row was
\* when it began: LogicSystem::getBaseInfo passes the lookup and sets both.
THEOREM RefreshEffective == Spec => RefreshBringsChanges
<1>1. Inv /\ [Next]_vars =>
        [\A t \in Workers :
           LET u == thread[t].user
           IN /\ thread[t].op = "refresh" /\ thread'[t].pc = "idle"
              /\ thread[t].version # 0 /\ sure'[u] # 0
              => base_info'[u] >= thread[t].since /\ name_info'[u] >= thread[t].since
        ]_vars
  BY RefreshStep
<1> QED
  BY <1>1, Invariance, PTL DEF Spec, RefreshBringsChanges
=============================================================================
