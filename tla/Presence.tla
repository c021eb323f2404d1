------------------------------- MODULE Presence -------------------------------
(***************************************************************************)
(* Who is logged in where: the life of the connections of the chat         *)
(* servers and the four records of it,                                     *)
(*                                                                         *)
(*   CServer::_sessions        per server, the accepted connections        *)
(*   UserMgr::_uid_to_session  per server, the session bound to a uid      *)
(*   Redis "logincount"        per server, the number of logins            *)
(*   Redis "uip_<uid>"         the server a uid logged in on last          *)
(*                                                                         *)
(* On every server two threads write them without a common lock:           *)
(*                                                                         *)
(*   the I/O thread  accepts, reads, and runs CSession::close when a read  *)
(*                   fails (CServer.cpp, CSession.cpp),                    *)
(*   the worker      runs LogicSystem::loginHandler for the queued logins  *)
(*                   (the queue itself is the module LogicSystem).         *)
(*                                                                         *)
(* Each access to Redis, to UserMgr and to _user_uid is a step of its own. *)
(* Clients log in, log in again, send bad headers and disconnect whenever  *)
(* they like.                                                              *)
(***************************************************************************)
EXTENDS Naturals, Sequences, FiniteSets, FiniteSetsExt

CONSTANTS
  Sessions,     \* the connections
  Servers,      \* the chat servers
  Home,         \* the server that accepts each connection
  Uids,         \* the users
  NoUid,        \* _user_uid of a session that is not logged in, 0
  NoSession,    \* no entry in _uid_to_session
  NoServer,     \* no "uip_" key
  MaxLogins,    \* bound: login messages of all connections
  RedisMayFail  \* whether Redis commands may fail

ASSUME PresenceAssumption ==
  /\ Home \in [Sessions -> Servers]
  /\ NoUid \notin Uids
  /\ NoSession \notin Sessions
  /\ NoServer \notin Servers
  /\ MaxLogins \in Nat
  /\ RedisMayFail \in BOOLEAN

VARIABLES
  \* the connections
  reading,     \* "new", "open" (a read is outstanding), "dead", or "thrown"
               \* (no read is outstanding, an exception was swallowed)
  b_close,     \* _b_close
  user_uid,    \* _user_uid
  \* the servers
  sessions,    \* _sessions
  uid_session, \* _uid_to_session
  inbox,       \* the login messages in _msg_que, the one being handled first
  worker,      \* where loginHandler is, and its local variable count
  io,          \* where close() is, for which session, and its local count
  \* Redis
  login_count, \* hash "logincount"
  uip,         \* keys "uip_<uid>"
  \* history
  logins,      \* the uids each connection has sent logins for
  hasty,       \* connections that ended while a login of theirs was queued
  contested,   \* <<uid, server, server>>: a login as uid was sent to the
               \* first server when a session of the second was using uid
  overlapped   \* servers on which close() and loginHandler were between
               \* their hGet and their hSet at the same time

connection == <<reading, b_close, user_uid>>
redis      == <<login_count, uip>>
history    == <<logins, hasty, contested, overlapped>>

vars == <<reading, b_close, user_uid, sessions, uid_session, inbox, worker,
          io, login_count, uip, logins, hasty, contested, overlapped>>

Login == [session : Sessions, uid : Uids]

WorkerIdle == [pc |-> "idle", count |-> 0]
IoIdle     == [pc |-> "idle", count |-> 0, session |-> NoSession]

\* main() writes the login count 0 before it accepts connections.
Init ==
  /\ reading = [s \in Sessions |-> "new"]
  /\ b_close = [s \in Sessions |-> FALSE]
  /\ user_uid = [s \in Sessions |-> NoUid]
  /\ sessions = [v \in Servers |-> {}]
  /\ uid_session = [v \in Servers |-> [u \in Uids |-> NoSession]]
  /\ inbox = [v \in Servers |-> << >>]
  /\ worker = [v \in Servers |-> WorkerIdle]
  /\ io = [v \in Servers |-> IoIdle]
  /\ login_count = [v \in Servers |-> 0]
  /\ uip = [u \in Uids |-> NoServer]
  /\ logins = [s \in Sessions |-> << >>]
  /\ hasty = {}
  /\ contested = {}
  /\ overlapped = {}

LoginQueued(s) ==
  \E i \in 1 .. Len(inbox[Home[s]]) : inbox[Home[s]][i].session = s

SentLogin(s, u) == \E i \in 1 .. Len(logins[s]) : logins[s][i] = u

\* The other connections over which u is logged in or about to be.
Rivals(s, u) ==
  {t \in Sessions \ {s} :
     SentLogin(t, u) /\ (reading[t] = "open" \/ LoginQueued(t))}

\* RedisMgr::hGet of the login count: an error reads as the empty string,
\* which both callers take for 0.
CountRead(v) ==
  {login_count[v]} \cup (IF RedisMayFail THEN {0} ELSE {})

\* RedisMgr::hSet of the login count: an error leaves the old value, and
\* neither caller looks at the result.
CountWritten(v, n) ==
  {n} \cup (IF RedisMayFail THEN {login_count[v]} ELSE {})

-----------------------------------------------------------------------------
(***************************************************************************)
(* The I/O thread of the server of s.                                      *)
(***************************************************************************)

\* HandleAccept: start the first read, enter the session in _sessions.
HandleAccept(s) ==
  /\ io[Home[s]].pc = "idle"
  /\ reading[s] = "new"
  /\ reading' = [reading EXCEPT ![s] = "open"]
  /\ sessions' = [sessions EXCEPT ![Home[s]] = @ \cup {s}]
  /\ UNCHANGED <<b_close, user_uid, uid_session, inbox, worker, io, redis,
                 history>>

LoginsSent == MapThenSumSet(LAMBDA s : Len(logins[s]), Sessions)

\* AsyncReadBody: a complete MSG_CHAT_LOGIN is posted.  postMsgToQue waits
\* for the lock that the worker holds during a handler.
PostLogin(s, u) ==
  /\ io[Home[s]].pc = "idle"
  /\ reading[s] = "open"
  /\ worker[Home[s]].pc = "idle"
  /\ LoginsSent < MaxLogins
  /\ inbox' = [inbox EXCEPT ![Home[s]] = Append(@, [session |-> s, uid |-> u])]
  /\ logins' = [logins EXCEPT ![s] = Append(@, u)]
  /\ contested' = contested \cup
                    {<<u, Home[s], Home[t]>> : t \in Rivals(s, u)}
  /\ UNCHANGED <<connection, sessions, uid_session, worker, io, redis, hasty,
                 overlapped>>

\* A connection stops being read.
EndOfReading(s) ==
  /\ io[Home[s]].pc = "idle"
  /\ reading[s] = "open"
  /\ reading' = [reading EXCEPT ![s] = "dead"]
  /\ hasty' = IF LoginQueued(s) THEN hasty \cup {s} ELSE hasty

\* AsyncReadHead: msg_id or msg_len is too large.  The session leaves
\* _sessions and is read no more, but close() is not called.
RejectHeader(s) ==
  /\ EndOfReading(s)
  /\ sessions' = [sessions EXCEPT ![Home[s]] = @ \ {s}]
  /\ UNCHANGED <<b_close, user_uid, uid_session, inbox, worker, io, redis,
                 logins, contested, overlapped>>

\* AsyncReadHead: the RecvNode of a length below -1 throws.  The exception is
\* swallowed: the session is read no more, stays in _sessions, and nobody
\* closes it, not even when the client is gone.
ThrowHeader(s) ==
  /\ io[Home[s]].pc = "idle"
  /\ reading[s] = "open"
  /\ reading' = [reading EXCEPT ![s] = "thrown"]
  /\ UNCHANGED <<b_close, user_uid, sessions, uid_session, inbox, worker, io,
                 redis, history>>

\* Variant: the caller of close() does not call ClearSession.
MarkClosedOnly(s) ==
  /\ b_close' = [b_close EXCEPT ![s] = TRUE]
  /\ UNCHANGED sessions

\* The part of close() every caller reaches, and the ClearSession after it.
MarkClosed(s) ==
  /\ b_close' = [b_close EXCEPT ![s] = TRUE]
  /\ sessions' = [sessions EXCEPT ![Home[s]] = @ \ {s}]

\* A read fails on a session that is not logged in.
CloseAnonymous(s) ==
  /\ EndOfReading(s)
  /\ user_uid[s] = NoUid
  /\ MarkClosed(s)
  /\ UNCHANGED <<user_uid, uid_session, inbox, worker, io, redis, logins,
                 contested, overlapped>>

\* A read fails on a session that is logged in: close() reads the count ...
CloseHGet(s) ==
  /\ EndOfReading(s)
  /\ user_uid[s] # NoUid
  /\ \E n \in CountRead(Home[s]) :
       io' = [io EXCEPT ![Home[s]] =
                [pc |-> "hset", count |-> n, session |-> s]]
  /\ overlapped' = IF worker[Home[s]].pc = "hset"
                     THEN overlapped \cup {Home[s]} ELSE overlapped
  /\ UNCHANGED <<b_close, user_uid, sessions, uid_session, inbox, worker,
                 redis, logins, contested>>

\* ... writes it back, less one unless it was 0 ...
CloseHSet(v) ==
  /\ io[v].pc = "hset"
  /\ \E n \in CountWritten(v, IF io[v].count > 0 THEN io[v].count - 1 ELSE 0) :
       login_count' = [login_count EXCEPT ![v] = n]
  /\ io' = [io EXCEPT ![v].pc = "remove"]
  /\ UNCHANGED <<connection, sessions, uid_session, inbox, worker, uip,
                 history>>

\* Variant: the binding is not removed.
CloseForgetsBinding(v) ==
  /\ io[v].pc = "remove"
  /\ io' = [io EXCEPT ![v].pc = "finish"]
  /\ UNCHANGED <<connection, sessions, uid_session, inbox, worker, redis,
                 history>>

\* Variant: the "uip_" key is deleted together with the binding.
CloseDeletesUip(v) ==
  /\ io[v].pc = "remove"
  /\ uid_session' = [uid_session EXCEPT ![v][user_uid[io[v].session]] =
                       NoSession]
  /\ uip' = [uip EXCEPT ![user_uid[io[v].session]] = NoServer]
  /\ io' = [io EXCEPT ![v].pc = "finish"]
  /\ UNCHANGED <<connection, sessions, inbox, worker, login_count, history>>

\* ... removes the binding of the uid the session has now, whichever
\* session it is bound to ...
CloseRemoveUserSession(v) ==
  /\ io[v].pc = "remove"
  /\ uid_session' = [uid_session EXCEPT ![v][user_uid[io[v].session]] =
                       NoSession]
  /\ io' = [io EXCEPT ![v].pc = "finish"]
  /\ UNCHANGED <<connection, sessions, inbox, worker, redis, history>>

\* ... and ends the session.
CloseFinish(v) ==
  /\ io[v].pc = "finish"
  /\ user_uid' = [user_uid EXCEPT ![io[v].session] = NoUid]
  /\ MarkClosed(io[v].session)
  /\ io' = [io EXCEPT ![v] = IoIdle]
  /\ UNCHANGED <<reading, uid_session, inbox, worker, redis, history>>

-----------------------------------------------------------------------------
(***************************************************************************)
(* The worker of server v: loginHandler for the front message.             *)
(***************************************************************************)

\* The token is wrong or the user unknown: an error is the only effect.
LoginRejected(v) ==
  /\ worker[v].pc = "idle"
  /\ inbox[v] # << >>
  /\ inbox' = [inbox EXCEPT ![v] = Tail(@)]
  /\ UNCHANGED <<connection, sessions, uid_session, worker, io, redis,
                 history>>

\* The token is right; the lists have been read.  The handler reads the
\* count.  It does not look whether the connection is still there.
LoginHGet(v) ==
  /\ worker[v].pc = "idle"
  /\ inbox[v] # << >>
  /\ \E n \in CountRead(v) :
       worker' = [worker EXCEPT ![v] = [pc |-> "hset", count |-> n]]
  /\ overlapped' = IF io[v].pc = "hset" THEN overlapped \cup {v}
                                        ELSE overlapped
  /\ UNCHANGED <<connection, sessions, uid_session, inbox, io, redis, logins,
                 hasty, contested>>

\* Variant: the count is written back as it was read.
LoginHSetUnchanged(v) ==
  /\ worker[v].pc = "hset"
  /\ login_count' = [login_count EXCEPT ![v] = worker[v].count]
  /\ worker' = [worker EXCEPT ![v].pc = "set_uid"]
  /\ UNCHANGED <<connection, sessions, uid_session, inbox, io, uip, history>>

LoginHSet(v) ==
  /\ worker[v].pc = "hset"
  /\ \E n \in CountWritten(v, worker[v].count + 1) :
       login_count' = [login_count EXCEPT ![v] = n]
  /\ worker' = [worker EXCEPT ![v].pc = "set_uid"]
  /\ UNCHANGED <<connection, sessions, uid_session, inbox, io, uip, history>>

LoginSetUserId(v) ==
  /\ worker[v].pc = "set_uid"
  /\ user_uid' = [user_uid EXCEPT ![Head(inbox[v]).session] =
                    Head(inbox[v]).uid]
  /\ worker' = [worker EXCEPT ![v].pc = "set_ip"]
  /\ UNCHANGED <<reading, b_close, sessions, uid_session, inbox, io, redis,
                 history>>

\* Variant: the first server a user logs in on is kept.
LoginSetIpOnce(v) ==
  /\ worker[v].pc = "set_ip"
  /\ uip' = IF uip[Head(inbox[v]).uid] = NoServer
              THEN [uip EXCEPT ![Head(inbox[v]).uid] = v] ELSE uip
  /\ worker' = [worker EXCEPT ![v].pc = "bind"]
  /\ UNCHANGED <<connection, sessions, uid_session, inbox, io, login_count,
                 history>>

\* RedisMgr::set of "uip_<uid>"; its result is not looked at.
LoginSetIp(v) ==
  /\ worker[v].pc = "set_ip"
  /\ uip' \in {[uip EXCEPT ![Head(inbox[v]).uid] = v]}
                \cup (IF RedisMayFail THEN {uip} ELSE {})
  /\ worker' = [worker EXCEPT ![v].pc = "bind"]
  /\ UNCHANGED <<connection, sessions, uid_session, inbox, io, login_count,
                 history>>

\* Variant: a uid that is bound already is not bound again.
LoginKeepsOldBinding(v) ==
  /\ worker[v].pc = "bind"
  /\ uid_session' = IF uid_session[v][Head(inbox[v]).uid] = NoSession
                      THEN [uid_session EXCEPT ![v][Head(inbox[v]).uid] =
                              Head(inbox[v]).session]
                      ELSE uid_session
  /\ inbox' = [inbox EXCEPT ![v] = Tail(@)]
  /\ worker' = [worker EXCEPT ![v] = WorkerIdle]
  /\ UNCHANGED <<connection, sessions, io, redis, history>>

\* setUserSession; the handler returns and dealMsg pops the message.
LoginSetUserSession(v) ==
  /\ worker[v].pc = "bind"
  /\ uid_session' = [uid_session EXCEPT ![v][Head(inbox[v]).uid] =
                       Head(inbox[v]).session]
  /\ inbox' = [inbox EXCEPT ![v] = Tail(@)]
  /\ worker' = [worker EXCEPT ![v] = WorkerIdle]
  /\ UNCHANGED <<connection, sessions, io, redis, history>>

-----------------------------------------------------------------------------
IoThread(v) ==
  \/ \E s \in Sessions :
       /\ Home[s] = v
       /\ \/ HandleAccept(s) \/ RejectHeader(s) \/ ThrowHeader(s)
          \/ CloseAnonymous(s) \/ CloseHGet(s)
          \/ \E u \in Uids : PostLogin(s, u)
  \/ CloseHSet(v) \/ CloseRemoveUserSession(v) \/ CloseFinish(v)

Worker(v) ==
  \/ LoginRejected(v) \/ LoginHGet(v) \/ LoginHSet(v) \/ LoginSetUserId(v)
  \/ LoginSetIp(v) \/ LoginSetUserSession(v)

Next == \E v \in Servers : IoThread(v) \/ Worker(v)

\* A handler and a close that have begun come to their end.
Fairness ==
  \A v \in Servers :
    /\ WF_vars(Worker(v))
    /\ WF_vars(CloseHSet(v) \/ CloseRemoveUserSession(v) \/ CloseFinish(v))

Spec == Init /\ [][Next]_vars

FairSpec == Spec /\ Fairness

-----------------------------------------------------------------------------
(***************************************************************************)
(* Properties.                                                             *)
(***************************************************************************)

\* _sessions holds exactly the connections that are read, those that are being
\* closed, and those whose reading an exception ended.  The last are leaked;
\* none is when a read fails or a header is refused.
SessionsAreRead ==
  \A v \in Servers, s \in Sessions :
    s \in sessions[v] <=>
      Home[s] = v /\ (reading[s] \in {"open", "thrown"} \/ io[v].session = s)

\* Types, and _sessions.
TypeOK ==
  /\ reading \in [Sessions -> {"new", "open", "dead", "thrown"}]
  /\ b_close \in [Sessions -> BOOLEAN]
  /\ user_uid \in [Sessions -> Uids \cup {NoUid}]
  /\ uid_session \in [Servers -> [Uids -> Sessions \cup {NoSession}]]
  /\ inbox \in [Servers -> Seq(Login)]
  /\ worker \in [Servers -> [pc : {"idle", "hset", "set_uid", "set_ip", "bind"},
                             count : Nat]]
  /\ io \in [Servers -> [pc : {"idle", "hset", "remove", "finish"},
                         count : Nat, session : Sessions \cup {NoSession}]]
  /\ login_count \in [Servers -> Nat]
  /\ uip \in [Uids -> Servers \cup {NoServer}]
  /\ logins \in [Sessions -> Seq(Uids)]
  /\ hasty \subseteq Sessions
  /\ contested \subseteq Uids \X Servers \X Servers
  /\ overlapped \subseteq Servers
  /\ sessions \in [Servers -> SUBSET Sessions]
  /\ SessionsAreRead

OnlyLogin(s, u) == \A i \in 1 .. Len(logins[s]) : logins[s][i] = u

\* The worker is past setUserId and before setUserSession for s.
Binding(s) ==
  /\ worker[Home[s]].pc \in {"set_ip", "bind"}
  /\ Head(inbox[Home[s]]).session = s

LoggedInAs(s, u) ==
  reading[s] = "open" /\ user_uid[s] = u /\ ~Binding(s)

\* close() removes the binding of its session, so UserMgr does not hand out
\* a closed session, with two exceptions: a client that disconnects while a
\* login of it is queued (loginHandler binds it afterwards, and nobody
\* undoes that), and one that has logged in under two uids (close() removes
\* the binding of the last).
NoStaleBinding ==
  \A v \in Servers, u \in Uids, s \in Sessions :
    uid_session[v][u] = s /\ b_close[s] => s \in hasty \/ ~OnlyLogin(s, u)

\* A user who is logged in can be reached: UserMgr has the session, unless
\* the uid was used over two connections of the server at the same time (the
\* later login takes the binding over, and the close of either removes it).
ReachableWhenLoggedIn ==
  \A s \in Sessions, u \in Uids :
    LoggedInAs(s, u) =>
      \/ uid_session[Home[s]][u] = s
      \/ <<u, Home[s], Home[s]>> \in contested

\* A server that wants to reach a user logged in elsewhere finds the right
\* server under "uip_<uid>", unless the uid was used on two servers at the
\* same time: the key is written before the binding, replaced by the next
\* login, and never deleted.  (If Redis fails, LoginSetIp may do nothing.)
Routable(s, u) ==
  LoggedInAs(s, u) =>
    \/ uip[u] = Home[s]
    \/ \E v, w \in Servers : v # w /\ <<u, v, w>> \in contested

RoutableByUip == \A s \in Sessions, u \in Uids : Routable(s, u)

\* Sessions of v whose login has been counted and whose close has not.
Counted(v) ==
  {s \in Sessions :
     /\ Home[s] = v
     /\ \/ /\ user_uid[s] # NoUid
           /\ ~(io[v].session = s /\ io[v].pc \in {"remove", "finish"})
        \/ /\ worker[v].pc = "set_uid"
           /\ Head(inbox[v]).session = s}

\* The count StatusServer balances the load by is the number of sessions
\* logged in, provided close() and loginHandler never overlapped in their
\* unlocked read-modify-write of it, no session logged in twice, none
\* disconnected with a login queued, and none was dropped for a bad header
\* (which skips close()).  A session whose reading threw stays logged in, and
\* counted.
CountExact(v) ==
  \/ v \in overlapped
  \/ \E s \in Sessions :
       /\ Home[s] = v
       /\ \/ Len(logins[s]) > 1
          \/ s \in hasty
          \/ reading[s] = "dead" /\ ~b_close[s] /\ io[v].session # s
  \/ login_count[v] = Cardinality(Counted(v))

LoginCountExact == \A v \in Servers : CountExact(v)

\* The close of a connection that logged in at most as one user, and waited
\* for the answer, leaves UserMgr without the session for good.
ClosedUserUnbound ==
  \A s \in Sessions :
    (io[Home[s]].session = s /\ s \notin hasty)
      ~> [](\A u \in Uids : OnlyLogin(s, u) => uid_session[Home[s]][u] # s)

\* LogicSystem.cpp:224 binds the uid to the session so that the user can be
\* found (and kicked) later: a uid that is logged in has a binding.
LoggedInIsBound ==
  \A s \in Sessions, u \in Uids :
    LoggedInAs(s, u) => uid_session[Home[s]][u] # NoSession
=============================================================================
