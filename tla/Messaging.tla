------------------------------ MODULE Messaging ------------------------------
(***************************************************************************)
(* Friend requests, their acceptance, and text messages between users who  *)
(* may be on different chat servers.                                       *)
(*                                                                         *)
(*   The worker of each server runs addFriendHandler, authFriendHandler    *)
(*   and chatTextMsgHandler: write to MySQL, look up "uip_<uid>" of the    *)
(*   other user, then either hand a notification to the session UserMgr    *)
(*   has, or call the other server and wait (ChatGrpcClient).              *)
(*                                                                         *)
(*   The gRPC threads of each server run the calls (ChatServiceImpl).      *)
(*                                                                         *)
(* A user learns of applications and friends from the lists in the login   *)
(* reply and from notifications; the login handler reads the lists first   *)
(* and makes the user reachable last.                                      *)
(*                                                                         *)
(* The clients here use one connection at a time and wait for the answer   *)
(* of a login before they leave it; what happens otherwise is the subject  *)
(* of the module Presence.  Profiles and aliases are left out, except that *)
(* getBaseInfo may not find a profile.  A user has fewer than 10           *)
(* applications, so that the LIMIT of getApplyList does not matter, and    *)
(* every server is configured as a peer of every other.                    *)
(***************************************************************************)
EXTENDS Naturals, Sequences, FiniteSets, FiniteSetsExt

CONSTANTS
  Users,
  Servers,
  NoServer,    \* no "uip_" key, no connection
  Kinds,       \* the kinds of requests sent: "add", "auth", "text"
  MaxLogins,   \* bound: logins of each user
  MaxRequests, \* bound: requests of all users
  MaxFailures  \* bound: failed statements, profiles, commands and calls

ASSUME MessagingAssumption ==
  /\ NoServer \notin Servers
  /\ Kinds \subseteq {"add", "auth", "text"}
  /\ MaxLogins \in [Users -> Nat]
  /\ MaxRequests \in Nat /\ MaxFailures \in Nat

VARIABLES
  \* the clients
  conn,         \* the connection of each user: server, number and state
  known,        \* the facts the clients have been told
  received,     \* the texts each user received
  answered,     \* how many MSG_TEXT_CHAT_MSG_RSP each user received
  requests,     \* how many requests each user made
  \* the servers
  uid_session,  \* the users bound in UserMgr
  worker,       \* what the worker of each server does
  rpcs,         \* the calls between the servers
  \* Redis and MySQL
  uip,          \* keys "uip_<uid>"
  friend_apply, \* table friend_apply: <<from_uid, to_uid>>
  accepted,     \* its rows with status 1
  friend,       \* table friend: <<self_id, friend_id>>
  \* history
  failures,     \* how many failures there were
  steady,       \* servers whose recipient has been on since the request began
  gone,         \* servers whose requester has left since
  missed,       \* facts whose notification was lost for a reason given below
  unsaved,      \* <<applicant, accepter>> with a failed statement
  failed        \* <<from, to>> with a failed lookup or call

clients   == <<conn, known, received, answered, requests>>
bindings  == <<uid_session, uip>>
tables    == <<friend_apply, accepted, friend>>
history   == <<failures, steady, gone, missed, unsaved, failed>>

vars == <<conn, known, received, answered, requests, uid_session, worker, rpcs,
          uip, friend_apply, accepted, friend, failures, steady, gone, missed,
          unsaved, failed>>

Request == [kind : {"add", "auth", "text"}, from : Users, to : Users,
            conn : Nat, no : Nat]

Idle == [pc |-> "idle"]

\* A fact: "apply", about has applied to be a friend of to; "friend", about
\* is a friend of to.  It is to who should know.
Fact == [kind : {"apply", "friend"}, about : Users, to : Users]

Applied(from, to)  == [kind |-> "apply", about |-> from, to |-> to]
Befriended(u, who) == [kind |-> "friend", about |-> who, to |-> u]

\* The facts in the database.
Stored == {Applied(p[1], p[2]) : p \in friend_apply}
            \cup {Befriended(p[1], p[2]) : p \in friend}

\* What the notification of a request tells its recipient, and what the
\* answer tells its sender.
Notice(r) == CASE r.kind = "add"  -> {Applied(r.from, r.to)}
               [] r.kind = "auth" -> {Befriended(r.to, r.from)}
               [] r.kind = "text" -> {}
Answer(r) == IF r.kind = "auth" THEN {Befriended(r.from, r.to)} ELSE {}

Busy(v)    == worker[v].pc \notin {"idle", "friend_list", "set_ip", "bind"}
Online(u)  == conn[u].state = "on"
Off        == [server |-> NoServer, n |-> 0, state |-> "off"]

\* The login handler has read lists for u, and u is not bound yet.
LoggingIn(u) ==
  \E v \in Servers :
    worker[v].pc \in {"friend_list", "set_ip", "bind"} /\ worker[v].uid = u

Init ==
  /\ conn = [u \in Users |-> Off]
  /\ known = {}
  /\ received = [u \in Users |-> << >>]
  /\ answered = [u \in Users |-> 0]
  /\ requests = [u \in Users |-> 0]
  /\ uid_session = [v \in Servers |-> {}]
  /\ worker = [v \in Servers |-> Idle]
  /\ rpcs = {}
  /\ uip = [u \in Users |-> NoServer]
  /\ friend_apply = {} /\ accepted = {} /\ friend = {}
  /\ failures = 0
  /\ steady = {} /\ gone = {} /\ missed = {} /\ unsaved = {} /\ failed = {}

-----------------------------------------------------------------------------
(***************************************************************************)
(* Logging in and leaving.                                                 *)
(***************************************************************************)

\* A client connects and sends MSG_CHAT_LOGIN.
SendLogin(u, v) ==
  /\ conn[u].state = "off"
  /\ conn[u].n < MaxLogins[u]
  /\ conn' = [conn EXCEPT ![u] =
                [server |-> v, n |-> @.n + 1, state |-> "login"]]
  /\ UNCHANGED <<known, received, answered, requests, bindings, worker, rpcs,
                 tables, history>>

\* What of one kind u should know.
ListOf(kind, u) == {f \in Stored : f.kind = kind /\ f.to = u}

\* getApplyList or getFriendList: the rows, or none if the statement fails.
\* loginHandler answers SUCCESS in both cases.
ReadList(kind, u, list) ==
  \/ /\ list = ListOf(kind, u)
     /\ missed' = {f \in missed : ~(f.kind = kind /\ f.to = u)}
     /\ UNCHANGED failures
  \/ /\ failures < MaxFailures /\ failures' = failures + 1
     /\ list = {}
     /\ missed' = missed \cup ListOf(kind, u)

\* loginHandler reads the applications ...
LoginApplyList(v, u) ==
  /\ worker[v].pc = "idle"
  /\ conn[u].state = "login" /\ conn[u].server = v
  /\ \E list \in {ListOf("apply", u), {}} :
       /\ ReadList("apply", u, list)
       /\ worker' = [worker EXCEPT ![v] =
                       [pc |-> "friend_list", uid |-> u, list |-> list]]
  /\ UNCHANGED <<clients, bindings, rpcs, tables, steady, gone, unsaved, failed>>

\* ... and the friends ...
LoginFriendList(v) ==
  /\ worker[v].pc = "friend_list"
  /\ \E list \in {ListOf("friend", worker[v].uid), {}} :
       /\ ReadList("friend", worker[v].uid, list)
       /\ worker' = [worker EXCEPT ![v].pc = "set_ip", ![v].list = @ \cup list]
  /\ UNCHANGED <<clients, bindings, rpcs, tables, steady, gone, unsaved, failed>>

\* ... publishes the server of the user ...
LoginSetIp(v) ==
  /\ worker[v].pc = "set_ip"
  /\ uip' = [uip EXCEPT ![worker[v].uid] = v]
  /\ worker' = [worker EXCEPT ![v].pc = "bind"]
  /\ UNCHANGED <<clients, uid_session, rpcs, tables, history>>

\* ... binds the user, and answers with the lists.
LoginBind(v) ==
  /\ worker[v].pc = "bind"
  /\ uid_session' = [uid_session EXCEPT ![v] = @ \cup {worker[v].uid}]
  /\ conn' = [conn EXCEPT ![worker[v].uid].state = "on"]
  /\ known' = known \cup worker[v].list
  /\ worker' = [worker EXCEPT ![v] = Idle]
  /\ UNCHANGED <<received, answered, requests, uip, rpcs, tables, history>>

\* The part of leaving that a client and the history see.
Leave(u) ==
  /\ conn' = [conn EXCEPT ![u].state = "off"]
  /\ known' = {f \in known : f.to # u}
  /\ steady' = {v \in steady : ~(Busy(v) /\ worker[v].req.to = u)}
  /\ gone' = gone \cup {v \in Servers : Busy(v) /\ worker[v].req.from = u}
  /\ UNCHANGED <<received, answered, requests, uip, worker, rpcs, tables,
                 failures, missed, unsaved, failed>>

\* The client disconnects, and CSession::close unbinds the user.  The uip
\* key stays.
Disconnect(u) ==
  /\ Online(u)
  /\ Leave(u)
  /\ uid_session' = [uid_session EXCEPT ![conn[u].server] = @ \ {u}]

-----------------------------------------------------------------------------
(***************************************************************************)
(* The handlers of the requests.                                           *)
(***************************************************************************)

\* Variant: the handlers do not write to MySQL before they notify.
FirstStepNotifies(kind) == "lookup"

FirstStep(kind) ==
  CASE kind = "add"  -> "insert_apply"
    [] kind = "auth" -> "accept"
    [] kind = "text" -> "lookup"

RequestsMade == MapThenSumSet(LAMBDA u : requests[u], Users)

\* The worker takes a request of u.
BeginRequest(v, u) ==
  /\ worker[v].pc = "idle"
  /\ Online(u) /\ conn[u].server = v
  /\ RequestsMade < MaxRequests
  /\ requests' = [requests EXCEPT ![u] = @ + 1]
  /\ \E kind \in Kinds, to \in Users \ {u} :
       /\ worker' = [worker EXCEPT ![v] =
            [pc |-> FirstStep(kind),
             req |-> [kind |-> kind, from |-> u, to |-> to,
                      conn |-> conn[u].n, no |-> requests[u] + 1]]]
       /\ steady' = IF Online(to) THEN steady \cup {v} ELSE steady
  /\ UNCHANGED <<conn, known, received, answered, bindings, rpcs, tables,
                 failures, gone, missed, unsaved, failed>>

\* Step from one program counter to the next, within a handler.
Goto(v, here, next) ==
  /\ worker[v].pc = here
  /\ worker' = [worker EXCEPT ![v].pc = next]

\* <<applicant, accepter>> of the request that v handles.
Pair(v) == IF worker[v].req.kind = "add"
             THEN <<worker[v].req.from, worker[v].req.to>>
             ELSE <<worker[v].req.to, worker[v].req.from>>

\* addFriendApply: a row with status 0, unless there is one already.
InsertApply(v) ==
  /\ Goto(v, "insert_apply", "lookup")
  /\ friend_apply' = friend_apply \cup {Pair(v)}
  /\ UNCHANGED <<clients, bindings, rpcs, accepted, friend, history>>

\* authFriendApply: status 1, if there is a row.
AcceptApply(v) ==
  /\ Goto(v, "accept", "insert_first")
  /\ accepted' = accepted \cup ({Pair(v)} \cap friend_apply)
  /\ UNCHANGED <<clients, bindings, rpcs, friend_apply, friend, history>>

\* addFriend: the row of the applicant ...
InsertFirst(v) ==
  /\ Goto(v, "insert_first", "insert_second")
  /\ friend' = friend \cup {Pair(v)}
  /\ UNCHANGED <<clients, bindings, rpcs, friend_apply, accepted, history>>

\* Variant: the second INSERT has the arguments of the first.
InsertSecondSwapped(v) ==
  /\ Goto(v, "insert_second", "lookup")
  /\ friend' = friend \cup {Pair(v)}
  /\ UNCHANGED <<clients, bindings, rpcs, friend_apply, accepted, history>>

\* ... and the row of the accepter, in a statement of its own.
InsertSecond(v) ==
  /\ Goto(v, "insert_second", "lookup")
  /\ friend' = friend \cup {<<Pair(v)[2], Pair(v)[1]>>}
  /\ UNCHANGED <<clients, bindings, rpcs, friend_apply, accepted, history>>

\* A statement fails: the handlers go on (an exception in the first INSERT
\* of addFriend skips the second).
StatementFails(v) ==
  /\ failures < MaxFailures
  /\ \/ Goto(v, "insert_apply", "lookup")
     \/ Goto(v, "accept", "insert_first")
     \/ Goto(v, "insert_first", "lookup")
     \/ Goto(v, "insert_second", "lookup")
  /\ failures' = failures + 1
  /\ unsaved' = unsaved \cup {Pair(v)}
  /\ UNCHANGED <<clients, bindings, rpcs, tables, steady, gone, missed, failed>>

\* A notification goes amiss while the recipient is logging in, after the
\* lists were read and before the binding.
MissedBy(r) == IF LoggingIn(r.to) THEN Notice(r) ELSE {}

Call(v, r) == [src |-> v, dest |-> uip[r.to], req |-> r, state |-> "sent"]

\* Variant: the handlers ask only their own UserMgr.
LookupAlwaysLocal(v) ==
  /\ Goto(v, "lookup", "local")
  /\ missed' = missed \cup MissedBy(worker[v].req)
  /\ UNCHANGED <<clients, bindings, rpcs, tables, failures, steady, gone,
                 unsaved, failed>>

\* Variant: the worker does not wait for the call to return.
LookupCallsAsync(v) ==
  LET r == worker[v].req IN
  /\ worker[v].pc = "lookup"
  /\ \/ uip[r.to] = NoServer /\ Goto(v, "lookup", "reply") /\ UNCHANGED rpcs
     \/ uip[r.to] = v /\ Goto(v, "lookup", "local") /\ UNCHANGED rpcs
     \/ /\ uip[r.to] \in Servers \ {v} /\ Goto(v, "lookup", "reply")
        /\ rpcs' = rpcs \cup {Call(v, r)}
  /\ missed' = missed \cup MissedBy(r)
  /\ UNCHANGED <<clients, bindings, tables, failures, steady, gone, unsaved,
                 failed>>

\* RedisMgr::get of the uip key: no key, this server, or another one, which
\* is called.
Lookup(v) ==
  LET r == worker[v].req IN
  /\ worker[v].pc = "lookup"
  /\ \/ uip[r.to] = NoServer /\ Goto(v, "lookup", "reply") /\ UNCHANGED rpcs
     \/ uip[r.to] = v /\ Goto(v, "lookup", "local") /\ UNCHANGED rpcs
     \/ /\ uip[r.to] \in Servers \ {v} /\ Goto(v, "lookup", "rpc")
        /\ rpcs' = rpcs \cup {Call(v, r)}
  /\ missed' = missed \cup MissedBy(r)
  /\ UNCHANGED <<clients, bindings, tables, failures, steady, gone, unsaved,
                 failed>>

\* The history of a lookup or a call that fails.
Fails(r) ==
  /\ failures < MaxFailures
  /\ failures' = failures + 1
  /\ missed' = missed \cup Notice(r)
  /\ failed' = failed \cup {<<r.from, r.to>>}
  /\ UNCHANGED <<clients, bindings, tables, steady, gone, unsaved>>

\* The key cannot be read: that is taken for no key.
LookupFails(v) ==
  /\ Goto(v, "lookup", "reply")
  /\ Fails(worker[v].req)
  /\ UNCHANGED rpcs

\* A message tells a client facts.  One about a friendship has a profile in
\* it: if getBaseInfo fails, it has the error UID_INVALID and no friend.
Tell(kind, facts) ==
  \/ known' = known \cup facts /\ UNCHANGED <<failures, missed>>
  \/ /\ kind = "auth"
     /\ failures < MaxFailures /\ failures' = failures + 1
     /\ missed' = missed \cup facts
     /\ UNCHANGED known

\* The session UserMgr has on v, if any, gets the notification.
Deliver(v, r) ==
  IF r.to \in uid_session[v]
    THEN /\ Tell(r.kind, Notice(r))
         /\ received' = IF r.kind = "text"
                          THEN [received EXCEPT ![r.to] = Append(@, r)]
                          ELSE received
    ELSE UNCHANGED <<known, received, failures, missed>>

\* The recipient is on this server.  A text reaches it with the id of an
\* answer, MSG_TEXT_CHAT_MSG_RSP.
NotifyLocal(v) ==
  LET r == worker[v].req IN
  /\ Goto(v, "local", "reply")
  /\ Deliver(v, r)
  /\ answered' = IF r.kind = "text" /\ r.to \in uid_session[v]
                   THEN [answered EXCEPT ![r.to] = @ + 1] ELSE answered
  /\ UNCHANGED <<conn, requests, bindings, rpcs, tables, steady, gone, unsaved,
                 failed>>

WaitsFor(v, c) ==
  worker[v].pc = "rpc" /\ c.src = v /\ c.req = worker[v].req

\* The end of a call at the server: the answer goes back, if anybody waits.
CallServed(c) ==
  rpcs' = (rpcs \ {c}) \cup
            {[d EXCEPT !.state = "done"] : d \in {e \in {c} : WaitsFor(e.src, e)}}

\* Variant: the call is left to the worker of the server.
ServeOnWorker(v) ==
  \E c \in rpcs :
    /\ c.dest = v /\ c.state = "sent"
    /\ worker[v].pc = "idle"
    /\ Deliver(v, c.req)
    /\ CallServed(c)
    /\ UNCHANGED <<conn, answered, requests, bindings, worker, tables, steady,
                   gone, unsaved, failed>>

\* A gRPC thread of v runs NotifyAddFriend, NotifyAuthFriend or
\* NotifyTextChatMsg.  It needs neither the worker nor its lock.
Serve(v) ==
  \E c \in rpcs :
    /\ c.dest = v /\ c.state = "sent"
    /\ Deliver(v, c.req)
    /\ CallServed(c)
    /\ UNCHANGED <<conn, answered, requests, bindings, worker, tables, steady,
                   gone, unsaved, failed>>

\* The answer arrives; none of the handlers looks at it.
CallReturns(v) ==
  /\ Goto(v, "rpc", "reply")
  /\ \E c \in rpcs : c.state = "done" /\ WaitsFor(v, c) /\ rpcs' = rpcs \ {c}
  /\ UNCHANGED <<clients, bindings, tables, history>>

\* The call fails.  It may have been served, be lost, or be served later.
\* The code RPCFAILED goes no further than ChatGrpcClient.
CallFails(v) ==
  /\ Goto(v, "rpc", "reply")
  /\ Fails(worker[v].req)
  /\ \/ rpcs' = {c \in rpcs : ~WaitsFor(v, c)}
     \/ UNCHANGED rpcs /\ \E c \in rpcs : WaitsFor(v, c) /\ c.state = "sent"

\* The Defer of the handler sends the answer, over the connection on which
\* the request came.  (The profile in it was read when the handler began;
\* whether that failed matters only now: the handler went on.)
Reply(v) ==
  LET r == worker[v].req IN
  /\ worker[v].pc = "reply"
  /\ worker' = [worker EXCEPT ![v] = Idle]
  /\ IF v \in gone
       THEN /\ missed' = missed \cup Answer(r)
            /\ UNCHANGED <<known, answered, failures>>
       ELSE /\ Tell(r.kind, Answer(r))
            /\ answered' = IF r.kind = "text"
                             THEN [answered EXCEPT ![r.from] = @ + 1]
                             ELSE answered
  /\ steady' = steady \ {v}
  /\ gone' = gone \ {v}
  /\ UNCHANGED <<conn, received, requests, bindings, rpcs, tables, unsaved,
                 failed>>

-----------------------------------------------------------------------------
Client(u) == Disconnect(u) \/ \E v \in Servers : SendLogin(u, v)

Worker(v) ==
  \/ \E u \in Users : LoginApplyList(v, u) \/ BeginRequest(v, u)
  \/ LoginFriendList(v) \/ LoginSetIp(v) \/ LoginBind(v)
  \/ InsertApply(v) \/ AcceptApply(v) \/ InsertFirst(v) \/ InsertSecond(v)
  \/ StatementFails(v) \/ Lookup(v) \/ LookupFails(v) \/ NotifyLocal(v)
  \/ CallReturns(v) \/ CallFails(v) \/ Reply(v)

Next == (\E u \in Users : Client(u)) \/ \E v \in Servers : Worker(v) \/ Serve(v)

\* The threads of the servers run; failures are never due, and neither is
\* anything the clients do.
Fairness ==
  \A v \in Servers :
    WF_vars(Worker(v) /\ worker[v].pc # "idle") /\ WF_vars(Serve(v))

Spec == Init /\ [][Next]_vars

FairSpec == Spec /\ Fairness

-----------------------------------------------------------------------------
(***************************************************************************)
(* Properties.                                                             *)
(***************************************************************************)

\* A handler or a call is still to tell f.
Pending(f) ==
  \/ \E v \in Servers :
       Busy(v) /\ f \in Notice(worker[v].req) \cup Answer(worker[v].req)
  \/ \E c \in rpcs : c.state = "sent" /\ f \in Notice(c.req)

\* Nobody who is logged in stays ignorant of an application or a friend in
\* the database, on whatever server it was written, except if the lookup of
\* the user fell between the reading of the lists and the binding of the
\* user's login, if a lookup, a call or the reading of a list failed, if the
\* profile of the friend could not be read (the message then is an error,
\* though the rows are written), or if the user left while an acceptance of
\* the user was handled.  The next login cures all of them.
InformedOrMissed ==
  \A f \in Stored :
    Online(f.to) => f \in known \/ f \in missed \/ Pending(f)

\* What a client is told is in the database, unless a statement failed.
ToldIsStored ==
  \A f \in known :
    \/ f \in Stored
    \/ <<f.about, f.to>> \in unsaved \/ <<f.to, f.about>> \in unsaved

\* An accepted application makes friends of both, although three statements
\* without a transaction write it: unless one failed, or the handler is
\* between them.
AcceptedAreFriends ==
  \A p \in accepted :
    \/ p \in friend /\ <<p[2], p[1]>> \in friend
    \/ p \in unsaved
    \/ \E v \in Servers :
         Busy(v) /\ worker[v].pc \in {"insert_first", "insert_second"}
                 /\ Pair(v) = p

\* The texts sent over one connection reach a user in the order of sending
\* and once each, even if the user moves between servers, unless a call
\* between the two failed (it may be served after the next one).
TextsInOrder ==
  \A u \in Users : \A i, j \in 1 .. Len(received[u]) :
    LET a == received[u][i]
        b == received[u][j] IN
    i < j /\ a.from = b.from /\ a.conn = b.conn =>
      a.no < b.no \/ <<a.from, u>> \in failed

\* A text to a user who was on, on any server, while it was handled has
\* been received when it is answered, unless a lookup or call failed.
TextDelivered ==
  \A v \in Servers :
    worker[v].pc = "reply" /\ worker[v].req.kind = "text" /\ v \in steady =>
      LET r == worker[v].req IN
      \/ \E i \in 1 .. Len(received[r.to]) : received[r.to][i] = r
      \/ <<r.from, r.to>> \in failed

\* A handler comes to its end, even if the workers of two servers wait for
\* each other's calls.
HandlersEnd == \A v \in Servers : worker[v].pc # "idle" ~> worker[v].pc = "idle"

\* const.h:46 names MSG_TEXT_CHAT_MSG_RSP the response to a text chat
\* request: nobody receives more of them than requests were sent.
RspAnswersRequest == \A u \in Users : answered[u] <= requests[u]
=============================================================================
