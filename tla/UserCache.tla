------------------------------- MODULE UserCache -------------------------------
(***************************************************************************)
(* The profiles of the users: rows of the MySQL table "user", cached in    *)
(* Redis under two keys, "ubaseinfo_<uid>" and "unameinfo_<name>".         *)
(*                                                                         *)
(* Other programs add rows and change them; they do not know the cache,    *)
(* whose keys never expire.  The chat servers fill it, each from the one   *)
(* worker of its LogicSystem and from the threads of its gRPC service:     *)
(*                                                                         *)
(*   refresh  LogicSystem::getBaseInfo, at a login and in the friend       *)
(*            handlers, reads the row whatever is cached, sets both keys   *)
(*   uid      getUserByUid, for searchUserHandler, reads the base key, and *)
(*            the row only on a miss; sets both keys                       *)
(*   name     getUserByName, the same with the name key                    *)
(*   rpc      ChatServiceImpl::getBaseInfo, for NotifyAuthFriend, reads    *)
(*            the base key, and the row on a miss; sets the base key only  *)
(*                                                                         *)
(* Each access to Redis and to MySQL is a step.  A row is its version;     *)
(* that nick is filled in when it is empty is left out.  Every user has a  *)
(* name of its own, which does not change.                                 *)
(***************************************************************************)
EXTENDS Naturals

CONSTANTS
  Users,
  Workers,    \* the workers, one per server
  RpcThreads, \* the gRPC threads of all servers
  MaxVersion, \* bound: changes of a row
  MayFail     \* whether commands and statements may fail

ASSUME UserCacheAssumption ==
  /\ Workers \cap RpcThreads = {}
  /\ MaxVersion \in Nat
  /\ MayFail \in BOOLEAN

VARIABLES
  row,       \* version of the row of each user, 0 when there is none
  base_info, \* version under "ubaseinfo_", 0 when there is no key
  name_info, \* version under "unameinfo_"
  thread,    \* what each thread does: before which access (pc), of which
             \* operation (op), for which user, with which version found; and
             \* (history) the version there was when a refresh began (since),
             \* and whether it has filled undisturbed so far (alone)
  \* history
  sure,      \* the version set by the last fill, if it was undisturbed, or 0
  failed     \* pairs of a key and a user of whom a SET of that key failed

vars == <<row, base_info, name_info, thread, sure, failed>>

Threads == Workers \cup RpcThreads
Version == 0 .. MaxVersion

\* What getBaseInfo, getUserByUid and getUserByName are called for.
Calls(t) == IF t \in Workers THEN {"refresh", "uid", "name"} ELSE {"rpc"}

\* A thread without a call; its last one was for u.
Idle(u) == [pc |-> "idle", op |-> "none", user |-> u, version |-> 0,
            since |-> 0, alone |-> TRUE]

Init ==
  /\ row = [u \in Users |-> 0]
  /\ base_info = [u \in Users |-> 0]
  /\ name_info = [u \in Users |-> 0]
  /\ thread \in [Threads -> {Idle(u) : u \in Users}]
  /\ sure = [u \in Users |-> 0]
  /\ failed = {}

\* The threads that have read the row of u and not yet set the keys.
Filling(u) == {t \in Threads : thread[t].pc \in {"base", "name"}
                                 /\ thread[t].user = u}

-----------------------------------------------------------------------------
\* Another program registers u, or changes the profile.
ChangeRow(u) ==
  /\ row[u] < MaxVersion
  /\ row' = [row EXCEPT ![u] = @ + 1]
  /\ UNCHANGED <<base_info, name_info, thread, sure, failed>>

\* Variant: the lookup that is commented out in LogicSystem::getBaseInfo.
LookupAlways(op, u) ==
  {IF op = "name" THEN name_info[u] ELSE base_info[u]}
    \cup (IF MayFail THEN {0} ELSE {})

\* The value found under the key that op looks at first, or 0: no key, or an
\* error, which RedisMgr::get does not tell from it.  A refresh has the
\* lookup commented out.
Lookup(op, u) ==
  IF op = "refresh" THEN {0}
  ELSE {IF op = "name" THEN name_info[u] ELSE base_info[u]}
         \cup (IF MayFail THEN {0} ELSE {})

\* What a refresh is held to.
Since(op, u) == IF op = "refresh" THEN row[u] ELSE 0

\* A call begins; on a miss the row is read.
Begin(t, op, u) ==
  /\ thread[t].pc = "idle"
  /\ \E found \in Lookup(op, u) :
       thread' = [thread EXCEPT ![t] =
         [pc |-> IF found = 0 THEN "row" ELSE "hit", op |-> op, user |-> u,
          version |-> found, since |-> Since(op, u), alone |-> TRUE]]
  /\ UNCHANGED <<row, base_info, name_info, sure, failed>>

\* A hit is answered from the cache.
AnswerHit(t) ==
  /\ thread[t].pc = "hit"
  /\ thread' = [thread EXCEPT ![t] = Idle(@.user)]
  /\ UNCHANGED <<row, base_info, name_info, sure, failed>>

\* MySqlDao::getUserInfo finds no row, or fails: UID_INVALID, and nothing is
\* cached.
RowNotFound(t) ==
  /\ thread[t].pc = "row"
  /\ row[thread[t].user] = 0 \/ MayFail
  /\ thread' = [thread EXCEPT ![t] = Idle(@.user)]
  /\ UNCHANGED <<row, base_info, name_info, sure, failed>>

\* getUserInfo answers the row.  Two threads that fill for one user disturb
\* each other.
RowFound(t) ==
  LET u == thread[t].user
      others == Filling(u)
  IN /\ thread[t].pc = "row"
     /\ row[u] # 0
     /\ thread' = [x \in Threads |->
          IF x = t
            THEN [pc |-> "base", op |-> thread[t].op, user |-> u,
                  version |-> row[u], since |-> thread[t].since,
                  alone |-> others = {}]
            ELSE [thread[x] EXCEPT !.alone = @ /\ x \notin others]]
     /\ sure' = IF others = {} THEN sure ELSE [sure EXCEPT ![u] = 0]
     /\ UNCHANGED <<row, base_info, name_info, failed>>

\* The base key is set, or Redis fails, which nobody looks at.  The service
\* is done then.
SetBase(t) ==
  LET u == thread[t].user
  IN /\ thread[t].pc = "base"
     /\ \E ok \in {TRUE, ~MayFail} :
          /\ base_info' = IF ok
               THEN [base_info EXCEPT ![u] = thread[t].version] ELSE base_info
          /\ failed' = IF ok THEN failed ELSE failed \cup {<<"base", u>>}
          /\ thread' = [thread EXCEPT ![t] =
               IF @.op = "rpc" THEN Idle(u)
               ELSE [pc |-> "name", op |-> @.op, user |-> u,
                     version |-> @.version, since |-> @.since,
                     alone |-> @.alone /\ ok]]
          /\ sure' = IF ok /\ thread[t].op # "rpc" THEN sure
                     ELSE [sure EXCEPT ![u] = 0]
     /\ UNCHANGED <<row, name_info>>

\* Variant: the name key is set once.
SetNameOnce(t) ==
  LET u == thread[t].user
  IN /\ thread[t].pc = "name"
     /\ name_info' = [name_info EXCEPT ![u] =
          IF @ = 0 THEN thread[t].version ELSE @]
     /\ thread' = [thread EXCEPT ![t] = Idle(@.user)]
     /\ sure' = [sure EXCEPT ![u] =
          IF thread[t].alone THEN thread[t].version ELSE 0]
     /\ UNCHANGED <<row, base_info, failed>>

\* Variant: a search by uid sets the base key only, as the service does.
SetNameNotByUid(t) ==
  /\ thread[t].pc = "name"
  /\ name_info' = IF thread[t].op = "uid" THEN name_info
       ELSE [name_info EXCEPT ![thread[t].user] = thread[t].version]
  /\ thread' = [thread EXCEPT ![t] = Idle(@.user)]
  /\ UNCHANGED <<row, base_info, sure, failed>>

\* The name key is set, or Redis fails; the call is done.
SetName(t) ==
  LET u == thread[t].user
  IN /\ thread[t].pc = "name"
     /\ \E ok \in {TRUE, ~MayFail} :
          /\ name_info' = IF ok
               THEN [name_info EXCEPT ![u] = thread[t].version] ELSE name_info
          /\ sure' = [sure EXCEPT ![u] =
               IF ok /\ thread[t].alone THEN thread[t].version ELSE 0]
          /\ failed' = IF ok THEN failed ELSE failed \cup {<<"name", u>>}
     /\ thread' = [thread EXCEPT ![t] = Idle(@.user)]
     /\ UNCHANGED <<row, base_info>>

-----------------------------------------------------------------------------
Call(t) ==
  \/ AnswerHit(t)
  \/ RowNotFound(t) \/ RowFound(t) \/ SetBase(t) \/ SetName(t)

Next ==
  \/ \E u \in Users : ChangeRow(u)
  \/ \E t \in Threads :
       \/ \E op \in Calls(t), u \in Users : Begin(t, op, u)
       \/ Call(t)

\* A call that has begun comes to its end.
Fairness == \A t \in Threads : WF_vars(Call(t))

Spec == Init /\ [][Next]_vars

FairSpec == Spec /\ Fairness

-----------------------------------------------------------------------------
CallState == [pc : {"idle", "hit", "row", "base", "name"},
              op : {"none", "refresh", "uid", "name", "rpc"},
              user : Users, version : Version, since : Version,
              alone : BOOLEAN]

\* Types; and versions are read from rows.
TypeOK ==
  /\ row \in [Users -> Version] /\ sure \in [Users -> Version]
  /\ base_info \in [Users -> Version] /\ name_info \in [Users -> Version]
  /\ thread \in [Threads -> CallState]
  /\ failed \subseteq {"base", "name"} \X Users
  /\ \A u \in Users : base_info[u] <= row[u] /\ name_info[u] <= row[u]
  /\ \A t \in Threads :
       /\ thread[t].op \in Calls(t) \cup {"none"}
       /\ thread[t].version > 0 <=> thread[t].pc \in {"hit", "base", "name"}

\* Both keys of a user hold what the last fill read, or what a fill in
\* progress has read: a search by uid and one by name show the same profile,
\* and never an older one than before.  Not so after two threads filled at
\* once (the slower one may set an old version, or the keys differ) or a
\* command failed, until the next fill undisturbed.
CacheAsFilled ==
  \A u \in Users : sure[u] # 0 =>
    \A v \in {base_info[u], name_info[u]} :
      \/ v = sure[u]
      \/ v > sure[u] /\ \E t \in Filling(u) : v = thread[t].version

\* There being no expiry, a login (or a friend handler) is what brings a
\* changed profile into the cache: when its getBaseInfo is done, both keys
\* are as new as the row was when it began, unless it was disturbed, or a
\* command of it failed.
RefreshBringsChanges ==
  [][\A t \in Workers :
       LET u == thread[t].user
       IN /\ thread[t].op = "refresh" /\ thread'[t].pc = "idle"
          /\ thread[t].version # 0 /\ sure'[u] # 0
          => base_info'[u] >= thread[t].since /\ name_info'[u] >= thread[t].since
    ]_vars

\* The search that is answered SUCCESS without the fields, because it missed,
\* puts the user under both keys for good: later searches by uid and by name
\* find the key they look at.  The friend handlers and logins of any server
\* do so too, but not NotifyAuthFriend: the gRPC service fills the base key
\* only, and the next search by name misses.  Nor is it so when a SET of the
\* key failed; and a lookup that fails is answered as a miss at any time.
MissedOnce ==
  \A u \in Users :
    /\ Filling(u) # {} ~>
         [](base_info[u] # 0 \/ <<"base", u>> \in failed)
    /\ Filling(u) \cap Workers # {} ~>
         [](name_info[u] # 0 \/ <<"name", u>> \in failed)
=============================================================================
