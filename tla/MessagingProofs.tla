-------------------------- MODULE MessagingProofs --------------------------
(***************************************************************************)
(* Theorems about Messaging, for any users and servers, any numbers of     *)
(* logins and requests, and any failures.                                  *)
(***************************************************************************)
EXTENDS Messaging, TLAPS

(***************************************************************************)
(* Types.  A worker is idle, handles a login, or handles a request.        *)
(***************************************************************************)
LoginPcs   == {"friend_list", "set_ip", "bind"}
EarlyPcs   == {"insert_apply", "accept", "insert_first", "insert_second", "lookup"}
LatePcs    == {"local", "rpc", "reply"}
HandlerPcs == EarlyPcs \cup LatePcs

LoginState   == [pc : LoginPcs, uid : Users, list : SUBSET Fact]
HandlerState == [pc : HandlerPcs, req : Request]
WorkerState  == {Idle} \cup LoginState \cup HandlerState

Connection == [server : Servers \cup {NoServer}, n : Nat,
               state : {"off", "login", "on"}]

CallState == [src : Servers, dest : Servers, req : Request,
              state : {"sent", "done"}]

TypeInv ==
  /\ conn \in [Users -> Connection]
  /\ known \subseteq Fact
  /\ requests \in [Users -> Nat]
  /\ uid_session \in [Servers -> SUBSET Users]
  /\ worker \in [Servers -> WorkerState]
  /\ rpcs \subseteq CallState
  /\ uip \in [Users -> Servers \cup {NoServer}]
  /\ friend_apply \subseteq Users \X Users
  /\ friend \subseteq Users \X Users

-----------------------------------------------------------------------------
\* The three shapes of a worker's state.
LEMMA WorkerShape ==
  ASSUME TypeInv, NEW v \in Servers
  PROVE  /\ worker[v] \in WorkerState
         /\ worker[v].pc \in {"idle"} \cup LoginPcs \cup HandlerPcs
         /\ worker[v].pc \in LoginPcs => worker[v] \in LoginState
         /\ worker[v].pc \in HandlerPcs => worker[v] \in HandlerState
         /\ Busy(v) <=> worker[v].pc \in HandlerPcs
<1>1. worker[v] \in WorkerState
  BY DEF TypeInv
<1>2. CASE worker[v] = Idle
  BY <1>1, <1>2 DEF Idle, Busy, LoginPcs, HandlerPcs, EarlyPcs, LatePcs
<1>3. CASE worker[v] \in LoginState
  BY <1>1, <1>3 DEF LoginState, Busy, LoginPcs, HandlerPcs, EarlyPcs, LatePcs
<1>4. CASE worker[v] \in HandlerState
  BY <1>1, <1>4 DEF HandlerState, Busy, LoginPcs, HandlerPcs, EarlyPcs, LatePcs
<1> QED
  BY <1>1, <1>2, <1>3, <1>4 DEF WorkerState

\* A step within a handler changes nothing but the program counter.
LEMMA GotoEffect ==
  ASSUME TypeInv, NEW v \in Servers, NEW here \in HandlerPcs,
         NEW next \in HandlerPcs, Goto(v, here, next)
  PROVE  /\ worker[v].pc = here /\ worker[v] \in HandlerState
         /\ worker' \in [Servers -> WorkerState]
         /\ worker'[v] \in HandlerState
         /\ worker'[v].pc = next /\ worker'[v].req = worker[v].req
         /\ \A x \in Servers \ {v} : worker'[x] = worker[x]
<1>1. worker[v].pc = here /\ worker[v] \in HandlerState
  BY WorkerShape DEF Goto
<1>2. worker' = [worker EXCEPT ![v].pc = next]
  BY DEF Goto
<1>3. worker'[v] = [worker[v] EXCEPT !.pc = next]
  BY <1>2 DEF TypeInv
<1>4. /\ worker'[v] \in HandlerState
      /\ worker'[v].pc = next /\ worker'[v].req = worker[v].req
  BY <1>1, <1>3 DEF HandlerState
<1>5. \A x \in Servers \ {v} : worker'[x] = worker[x]
  BY <1>2 DEF TypeInv
<1>6. worker' \in [Servers -> WorkerState]
  BY <1>2, <1>3, <1>4 DEF TypeInv, WorkerState
<1> QED
  BY <1>1, <1>4, <1>5, <1>6

\* A worker becomes idle.
LEMMA IdleEffect ==
  ASSUME TypeInv, NEW v \in Servers, worker' = [worker EXCEPT ![v] = Idle]
  PROVE  /\ worker' \in [Servers -> WorkerState]
         /\ worker'[v] = Idle /\ worker'[v].pc = "idle"
         /\ \A x \in Servers \ {v} : worker'[x] = worker[x]
BY DEF TypeInv, WorkerState, Idle

\* A client that is told facts knows them, or has missed them.
LEMMA TellEffect ==
  ASSUME NEW kind, NEW facts, Tell(kind, facts)
  PROVE  /\ known \subseteq known' /\ missed \subseteq missed'
         /\ known' \subseteq known \cup facts
         /\ \A f \in facts : f \in known' \/ f \in missed'
BY DEF Tell

LEMMA DeliverEffect ==
  ASSUME NEW v, NEW q, Deliver(v, q)
  PROVE  /\ known \subseteq known' /\ missed \subseteq missed'
         /\ known' \subseteq known \cup Notice(q)
         /\ q.to \in uid_session[v] =>
              \A f \in Notice(q) : f \in known' \/ f \in missed'
<1>1. CASE q.to \in uid_session[v]
  BY <1>1, TellEffect DEF Deliver
<1>2. CASE q.to \notin uid_session[v]
  BY <1>2 DEF Deliver
<1> QED
  BY <1>1, <1>2

\* What is told, and what is stored, are facts.
LEMMA FactTypes ==
  /\ \A r \in Request : Notice(r) \subseteq Fact /\ Answer(r) \subseteq Fact
  /\ \A r \in Request : \A f \in Notice(r) : f.to = r.to
  /\ TypeInv => Stored \subseteq Fact
<1>1. ASSUME NEW r \in Request
      PROVE  Notice(r) \subseteq Fact /\ Answer(r) \subseteq Fact
  BY DEF Request, Fact, Notice, Answer, Applied, Befriended
<1>2. ASSUME NEW r \in Request, NEW f \in Notice(r)
      PROVE  f.to = r.to
  BY DEF Request, Notice, Applied, Befriended
<1>3. ASSUME TypeInv PROVE Stored \subseteq Fact
  BY <1>3 DEF TypeInv, Stored, Fact, Applied, Befriended
<1> QED
  BY <1>1, <1>2, <1>3

-----------------------------------------------------------------------------
(***************************************************************************)
(* What the steps do to the workers.                                       *)
(***************************************************************************)

\* The lists of a user are facts for that user.
LEMMA Lists ==
  ASSUME TypeInv, NEW kind, NEW u \in Users, NEW list,
         list \in {ListOf(kind, u), {}}
  PROVE  list \subseteq Stored /\ list \subseteq Fact
BY FactTypes DEF ListOf

LEMMA ApplyListEffect ==
  ASSUME TypeInv, NEW v \in Servers, NEW u \in Users, NEW list,
         list \in SUBSET Fact,
         worker' = [worker EXCEPT ![v] =
                      [pc |-> "friend_list", uid |-> u, list |-> list]]
  PROVE  /\ worker' \in [Servers -> WorkerState]
         /\ worker'[v].pc = "friend_list" /\ worker'[v].uid = u
         /\ worker'[v].list = list
         /\ \A x \in Servers \ {v} : worker'[x] = worker[x]
<1>1. [pc |-> "friend_list", uid |-> u, list |-> list] \in WorkerState
  BY DEF WorkerState, LoginState, LoginPcs
<1> QED
  BY <1>1 DEF TypeInv

LEMMA FriendListEffect ==
  ASSUME TypeInv, NEW v \in Servers, worker[v].pc = "friend_list",
         NEW rows \in SUBSET Fact,
         worker' = [worker EXCEPT ![v].pc = "set_ip", ![v].list = @ \cup rows]
  PROVE  /\ worker' \in [Servers -> WorkerState]
         /\ worker'[v].pc = "set_ip" /\ worker'[v].uid = worker[v].uid
         /\ worker'[v].list = worker[v].list \cup rows
         /\ \A x \in Servers \ {v} : worker'[x] = worker[x]
<1> DEFINE w == worker[v]
           longer == w.list \cup rows
<1>1. /\ w = [pc |-> w.pc, uid |-> w.uid, list |-> w.list]
      /\ w.uid \in Users /\ longer \in SUBSET Fact
  BY WorkerShape DEF LoginPcs, LoginState
<1>2. /\ worker'[v] = [[w EXCEPT !.pc = "set_ip"] EXCEPT !.list = longer]
      /\ \A x \in Servers \ {v} : worker'[x] = worker[x]
  BY DEF TypeInv
<1> HIDE DEF w, longer
<1>3. worker'[v] = [pc |-> "set_ip", uid |-> w.uid, list |-> longer]
  <2>1. PICK p, u, l : w = [pc |-> p, uid |-> u, list |-> l]
    BY <1>1
  <2>2. [w EXCEPT !.pc = "set_ip"] = [pc |-> "set_ip", uid |-> u, list |-> l]
    BY <2>1
  <2>3. worker'[v] = [[pc |-> "set_ip", uid |-> u, list |-> l]
                        EXCEPT !.list = longer]
    BY <1>2, <2>2
  <2>4. w.uid = u
    BY <2>1
  <2> QED
    BY <2>3, <2>4
<1>4. worker'[v] \in LoginState
  <2>1. w.uid \in Users /\ longer \in SUBSET Fact /\ "set_ip" \in LoginPcs
    BY <1>1 DEF LoginPcs
  <2>2. [pc |-> "set_ip", uid |-> w.uid, list |-> longer] \in LoginState
    BY <2>1 DEF LoginState
  <2> QED
    BY <1>3, <2>2
<1>5. worker' \in [Servers -> WorkerState]
  BY <1>2, <1>4 DEF TypeInv, WorkerState
<1> QED
  BY <1>2, <1>3, <1>5 DEF w, longer

LEMMA SetIpEffect ==
  ASSUME TypeInv, NEW v \in Servers, LoginSetIp(v)
  PROVE  /\ worker' \in [Servers -> WorkerState]
         /\ worker'[v].pc = "bind" /\ worker'[v].uid = worker[v].uid
         /\ worker'[v].list = worker[v].list
         /\ \A x \in Servers \ {v} : worker'[x] = worker[x]
<1>1. worker[v] \in LoginState
  BY WorkerShape DEF LoginSetIp, LoginPcs
<1>2. /\ worker'[v] = [worker[v] EXCEPT !.pc = "bind"]
      /\ \A x \in Servers \ {v} : worker'[x] = worker[x]
  BY DEF LoginSetIp, TypeInv
<1>3. /\ worker'[v] \in LoginState
      /\ worker'[v].pc = "bind" /\ worker'[v].uid = worker[v].uid
      /\ worker'[v].list = worker[v].list
  BY <1>1, <1>2 DEF LoginState, LoginPcs
<1>4. worker' \in [Servers -> WorkerState]
  BY <1>2, <1>3 DEF TypeInv, WorkerState, LoginSetIp
<1> QED
  BY <1>2, <1>3, <1>4

\* A new request, of a user who is online.
LEMMA BeginEffect ==
  ASSUME TypeInv, NEW v \in Servers, NEW u \in Users, BeginRequest(v, u)
  PROVE  /\ worker' \in [Servers -> WorkerState]
         /\ worker'[v] \in HandlerState
         /\ worker'[v].req.kind \in {"add", "auth", "text"}
         /\ worker'[v].pc = FirstStep(worker'[v].req.kind)
         /\ worker[v].pc = "idle"
         /\ \A x \in Servers \ {v} : worker'[x] = worker[x]
<1>1. PICK kind \in Kinds, to \in Users :
        worker' = [worker EXCEPT ![v] =
            [pc |-> FirstStep(kind),
             req |-> [kind |-> kind, from |-> u, to |-> to,
                      conn |-> conn[u].n, no |-> requests[u] + 1]]]
  BY DEF BeginRequest
<1>2. kind \in {"add", "auth", "text"}
  BY MessagingAssumption
<1>3. FirstStep(kind) \in HandlerPcs
  BY <1>2 DEF FirstStep, HandlerPcs, EarlyPcs
<1>4. conn[u].n \in Nat /\ requests[u] + 1 \in Nat
  BY DEF TypeInv, Connection
<1>5. [kind |-> kind, from |-> u, to |-> to,
       conn |-> conn[u].n, no |-> requests[u] + 1] \in Request
  BY <1>2, <1>4 DEF Request
<1>6. /\ worker'[v] = [pc |-> FirstStep(kind),
                       req |-> [kind |-> kind, from |-> u, to |-> to,
                                conn |-> conn[u].n, no |-> requests[u] + 1]]
      /\ \A x \in Servers \ {v} : worker'[x] = worker[x]
  BY <1>1 DEF TypeInv
<1>7. /\ worker'[v] \in HandlerState
      /\ worker'[v].req.kind = kind /\ worker'[v].pc = FirstStep(kind)
  BY <1>3, <1>5, <1>6 DEF HandlerState
<1>8. worker' \in [Servers -> WorkerState]
  BY <1>1, <1>6, <1>7 DEF TypeInv, WorkerState
<1>9. worker[v].pc = "idle"
  BY DEF BeginRequest
<1> QED
  BY <1>2, <1>6, <1>7, <1>8, <1>9

\* A statement that fails moves the handler on.
LEMMA StatementFailsEffect ==
  ASSUME NEW v \in Servers, StatementFails(v)
  PROVE  \E here \in {"insert_apply", "accept", "insert_first", "insert_second"},
            next \in {"insert_first", "lookup"} :
           /\ Goto(v, here, next)
           /\ next = "insert_first" => here = "accept"
BY DEF StatementFails

\* A lookup finds nothing, this server, or another one, which is called.
LEMMA LookupEffect ==
  ASSUME TypeInv, NEW v \in Servers, Lookup(v)
  PROVE  LET r == worker[v].req IN
         \/ uip[r.to] = NoServer /\ Goto(v, "lookup", "reply") /\ rpcs' = rpcs
         \/ uip[r.to] = v /\ Goto(v, "lookup", "local") /\ rpcs' = rpcs
         \/ /\ uip[r.to] \in Servers /\ Goto(v, "lookup", "rpc")
            /\ rpcs' = rpcs \cup {Call(v, r)}
            /\ Call(v, r) \in CallState
            /\ Call(v, r).dest = uip[r.to] /\ Call(v, r).req = r
            /\ Call(v, r).state = "sent"
<1>1. CASE uip[worker[v].req.to] \in Servers \ {v} /\ Goto(v, "lookup", "rpc")
                  /\ rpcs' = rpcs \cup {Call(v, worker[v].req)}
  <2>1. worker[v].req \in Request
    BY <1>1, GotoEffect DEF HandlerState, HandlerPcs, EarlyPcs, LatePcs
  <2> QED
    BY <1>1, <2>1 DEF Call, CallState
<1> QED
  BY <1>1 DEF Lookup

\* A call that has been served is done, or forgotten.
LEMMA ServedEffect ==
  ASSUME TypeInv, NEW c \in rpcs, CallServed(c)
  PROVE  /\ rpcs' \subseteq CallState
         /\ \A d \in rpcs' : \E e \in rpcs : d.req = e.req
         /\ \A d \in rpcs : d.state = "sent" /\ d # c => d \in rpcs'
<1>1. c \in CallState
  BY DEF TypeInv
<1>2. rpcs' \subseteq rpcs \cup {[c EXCEPT !.state = "done"]}
  BY DEF CallServed
<1>3. [c EXCEPT !.state = "done"] \in CallState
      /\ [c EXCEPT !.state = "done"].req = c.req
  BY <1>1 DEF CallState
<1>4. \A d \in rpcs : d # c => d \in rpcs'
  BY DEF CallServed
<1> QED
  BY <1>2, <1>3, <1>4 DEF TypeInv

-----------------------------------------------------------------------------
(***************************************************************************)
(* The types are preserved.                                                *)
(***************************************************************************)
LEMMA InitTypes == Init => TypeInv
<1> SUFFICES ASSUME Init PROVE TypeInv
  OBVIOUS
<1>1. Off \in Connection
  BY DEF Off, Connection
<1> QED
  BY <1>1 DEF Init, TypeInv, WorkerState

\* Everything but the workers, for the actions of the clients and the logins.
LEMMA LoginTypes ==
  ASSUME TypeInv,
         \/ \E u \in Users, v \in Servers : SendLogin(u, v)
         \/ \E u \in Users : Disconnect(u)
         \/ \E v \in Servers, u \in Users : LoginApplyList(v, u)
         \/ \E v \in Servers : LoginFriendList(v) \/ LoginSetIp(v) \/ LoginBind(v)
  PROVE  TypeInv'
<1>1. ASSUME NEW u \in Users, NEW v \in Servers, SendLogin(u, v) PROVE TypeInv'
  <2>1. [server |-> v, n |-> conn[u].n + 1, state |-> "login"] \in Connection
    BY DEF TypeInv, Connection
  <2>2. conn' = [conn EXCEPT ![u] =
                   [server |-> v, n |-> conn[u].n + 1, state |-> "login"]]
    BY <1>1 DEF SendLogin, TypeInv
  <2>3. conn' \in [Users -> Connection]
    BY <2>1, <2>2 DEF TypeInv
  <2> QED
    BY <1>1, <2>3 DEF SendLogin, TypeInv, bindings, tables, history
<1>2. ASSUME NEW u \in Users, Disconnect(u) PROVE TypeInv'
  <2>1. conn'[u] = [conn[u] EXCEPT !.state = "off"] /\ conn[u] \in Connection
    BY <1>2 DEF Disconnect, Leave, TypeInv
  <2>2. conn'[u] \in Connection
    BY <2>1 DEF Connection
  <2>3. conn' \in [Users -> Connection]
    BY <1>2, <2>2 DEF Disconnect, Leave, TypeInv
  <2>4. uid_session' \in [Servers -> SUBSET Users]
    BY <1>2 DEF Disconnect, TypeInv
  <2> QED
    BY <1>2, <2>3, <2>4 DEF Disconnect, Leave, TypeInv, tables
<1>3. ASSUME NEW v \in Servers, NEW u \in Users, LoginApplyList(v, u)
      PROVE  TypeInv'
  <2>1. PICK rows \in {ListOf("apply", u), {}} :
          worker' = [worker EXCEPT ![v] =
                       [pc |-> "friend_list", uid |-> u, list |-> rows]]
    BY <1>3 DEF LoginApplyList
  <2>2. rows \in SUBSET Fact
    BY Lists
  <2>3. worker' \in [Servers -> WorkerState]
    BY <2>1, <2>2, ApplyListEffect
  <2> QED
    BY <1>3, <2>3 DEF LoginApplyList, TypeInv, clients, bindings, tables
<1>4. ASSUME NEW v \in Servers, LoginFriendList(v) PROVE TypeInv'
  <2>1. PICK rows \in {ListOf("friend", worker[v].uid), {}} :
          worker' = [worker EXCEPT ![v].pc = "set_ip", ![v].list = @ \cup rows]
    BY <1>4 DEF LoginFriendList
  <2>2. worker[v].uid \in Users /\ worker[v].pc = "friend_list"
    BY <1>4, WorkerShape DEF LoginFriendList, LoginPcs, LoginState
  <2>3. rows \in SUBSET Fact
    BY <2>2, Lists
  <2>4. worker' \in [Servers -> WorkerState]
    BY <2>1, <2>2, <2>3, FriendListEffect
  <2> QED
    BY <1>4, <2>4 DEF LoginFriendList, TypeInv, clients, bindings, tables
<1>5. ASSUME NEW v \in Servers, LoginSetIp(v) PROVE TypeInv'
  <2>1. worker' \in [Servers -> WorkerState]
    BY <1>5, SetIpEffect
  <2>2. uip' \in [Users -> Servers \cup {NoServer}]
    BY <1>5 DEF LoginSetIp, TypeInv
  <2> QED
    BY <1>5, <2>1, <2>2 DEF LoginSetIp, TypeInv, clients, tables
<1>6. ASSUME NEW v \in Servers, LoginBind(v) PROVE TypeInv'
  <2> DEFINE u == worker[v].uid
  <2>1. u \in Users /\ worker[v].list \subseteq Fact
    BY <1>6, WorkerShape DEF LoginBind, LoginPcs, LoginState
  <2>2. worker' \in [Servers -> WorkerState]
    BY <1>6, IdleEffect DEF LoginBind
  <2> HIDE DEF u
  <2>3. conn' = [conn EXCEPT ![u].state = "on"]
    BY <1>6 DEF LoginBind, u
  <2>4. conn'[u] = [conn[u] EXCEPT !.state = "on"] /\ conn[u] \in Connection
    BY <2>1, <2>3 DEF TypeInv
  <2>5. conn'[u] \in Connection
    BY <2>4 DEF Connection
  <2>6. conn' \in [Users -> Connection]
    BY <2>1, <2>3, <2>5 DEF TypeInv
  <2>7. uid_session' \in [Servers -> SUBSET Users] /\ known' \subseteq Fact
    BY <1>6, <2>1 DEF LoginBind, TypeInv, u
  <2> QED
    BY <1>6, <2>2, <2>6, <2>7 DEF LoginBind, TypeInv, tables
<1> QED
  BY <1>1, <1>2, <1>3, <1>4, <1>5, <1>6

\* The pair of a handler's request, and what it tells.
LEMMA RequestTypes ==
  ASSUME TypeInv, NEW v \in Servers, worker[v] \in HandlerState
  PROVE  /\ worker[v].req \in Request
         /\ Pair(v) \in Users \X Users
         /\ <<Pair(v)[2], Pair(v)[1]>> \in Users \X Users
         /\ Notice(worker[v].req) \subseteq Fact
         /\ Answer(worker[v].req) \subseteq Fact
<1>1. worker[v].req \in Request
  BY DEF HandlerState
<1> QED
  BY <1>1, FactTypes DEF Request, Pair

LEMMA HandlerTypes ==
  ASSUME TypeInv, NEW v \in Servers,
         \/ \E u \in Users : BeginRequest(v, u)
         \/ InsertApply(v) \/ AcceptApply(v) \/ InsertFirst(v)
         \/ InsertSecond(v) \/ StatementFails(v)
         \/ Lookup(v) \/ LookupFails(v) \/ NotifyLocal(v)
         \/ CallReturns(v) \/ CallFails(v) \/ Reply(v)
  PROVE  TypeInv'
<1> USE DEF HandlerPcs, EarlyPcs, LatePcs
<1>1. ASSUME NEW u \in Users, BeginRequest(v, u) PROVE TypeInv'
  <2>1. worker' \in [Servers -> WorkerState]
    BY <1>1, BeginEffect
  <2>2. requests' \in [Users -> Nat]
    BY <1>1 DEF BeginRequest, TypeInv
  <2> QED
    BY <1>1, <2>1, <2>2 DEF BeginRequest, TypeInv, bindings, tables
<1>2. CASE InsertApply(v)
  <2>1. worker' \in [Servers -> WorkerState] /\ worker[v] \in HandlerState
    BY <1>2, GotoEffect DEF InsertApply
  <2> QED
    BY <1>2, <2>1, RequestTypes DEF InsertApply, TypeInv, clients, bindings, tables
<1>3. CASE AcceptApply(v)
  <2>1. worker' \in [Servers -> WorkerState]
    BY <1>3, GotoEffect DEF AcceptApply
  <2> QED
    BY <1>3, <2>1 DEF AcceptApply, TypeInv, clients, bindings, tables
<1>4. CASE InsertFirst(v)
  <2>1. worker' \in [Servers -> WorkerState] /\ worker[v] \in HandlerState
    BY <1>4, GotoEffect DEF InsertFirst
  <2> QED
    BY <1>4, <2>1, RequestTypes DEF InsertFirst, TypeInv, clients, bindings, tables
<1>5. CASE InsertSecond(v)
  <2>1. worker' \in [Servers -> WorkerState] /\ worker[v] \in HandlerState
    BY <1>5, GotoEffect DEF InsertSecond
  <2> QED
    BY <1>5, <2>1, RequestTypes DEF InsertSecond, TypeInv, clients, bindings, tables
<1>6. CASE StatementFails(v)
  <2>1. worker' \in [Servers -> WorkerState]
    BY <1>6, GotoEffect, StatementFailsEffect
  <2> QED
    BY <1>6, <2>1 DEF StatementFails, TypeInv, clients, bindings, tables
<1>7. CASE Lookup(v)
  <2>1. worker' \in [Servers -> WorkerState] /\ rpcs' \subseteq CallState
    BY <1>7, GotoEffect, LookupEffect DEF TypeInv
  <2> QED
    BY <1>7, <2>1 DEF Lookup, TypeInv, clients, bindings, tables
<1>8. CASE LookupFails(v)
  <2>1. worker' \in [Servers -> WorkerState]
    BY <1>8, GotoEffect DEF LookupFails
  <2> QED
    BY <1>8, <2>1 DEF LookupFails, Fails, TypeInv, clients, bindings, tables
<1>9. CASE NotifyLocal(v)
  <2>1. worker' \in [Servers -> WorkerState] /\ worker[v] \in HandlerState
    BY <1>9, GotoEffect DEF NotifyLocal
  <2>2. known' \subseteq known \cup Notice(worker[v].req)
    BY <1>9, DeliverEffect DEF NotifyLocal
  <2>3. known' \subseteq Fact
    BY <2>1, <2>2, RequestTypes DEF TypeInv
  <2> QED
    BY <1>9, <2>1, <2>3 DEF NotifyLocal, TypeInv, bindings, tables
<1>10. CASE CallReturns(v)
  <2>1. worker' \in [Servers -> WorkerState] /\ rpcs' \subseteq rpcs
    BY <1>10, GotoEffect DEF CallReturns
  <2> QED
    BY <1>10, <2>1 DEF CallReturns, TypeInv, clients, bindings, tables
<1>11. CASE CallFails(v)
  <2>1. worker' \in [Servers -> WorkerState] /\ rpcs' \subseteq rpcs
    BY <1>11, GotoEffect DEF CallFails
  <2> QED
    BY <1>11, <2>1 DEF CallFails, Fails, TypeInv, clients, bindings, tables
<1>12. CASE Reply(v)
  <2>1. worker' \in [Servers -> WorkerState] /\ worker[v] \in HandlerState
    BY <1>12, IdleEffect, WorkerShape DEF Reply
  <2>2. known' \subseteq known \cup Answer(worker[v].req)
    BY <1>12, TellEffect DEF Reply
  <2>3. known' \subseteq Fact
    BY <2>1, <2>2, RequestTypes DEF TypeInv
  <2> QED
    BY <1>12, <2>1, <2>3 DEF Reply, TypeInv, bindings, tables
<1> QED
  BY <1>1, <1>2, <1>3, <1>4, <1>5, <1>6, <1>7, <1>8, <1>9, <1>10, <1>11, <1>12

LEMMA ServeTypes ==
  ASSUME TypeInv, NEW v \in Servers, Serve(v)
  PROVE  TypeInv'
<1>1. PICK c \in rpcs : Deliver(v, c.req) /\ CallServed(c)
  BY DEF Serve
<1>2. rpcs' \subseteq CallState
  BY <1>1, ServedEffect
<1>3. c.req \in Request
  BY DEF TypeInv, CallState
<1>4. known' \subseteq known \cup Notice(c.req)
  BY <1>1, DeliverEffect
<1>5. known' \subseteq Fact
  BY <1>3, <1>4, FactTypes DEF TypeInv
<1> QED
  BY <1>2, <1>5 DEF Serve, TypeInv, bindings, tables

LEMMA TypesPreserved == TypeInv /\ [Next]_vars => TypeInv'
<1> SUFFICES ASSUME TypeInv, [Next]_vars PROVE TypeInv'
  OBVIOUS
<1>1. CASE UNCHANGED vars
  BY <1>1 DEF vars, TypeInv
<1>2. ASSUME NEW u \in Users, Client(u) PROVE TypeInv'
  BY <1>2, LoginTypes DEF Client
<1>3. ASSUME NEW v \in Servers, Worker(v) \/ Serve(v) PROVE TypeInv'
  <2>1. CASE \E u \in Users : LoginApplyList(v, u)
    BY <2>1, LoginTypes
  <2>2. CASE LoginFriendList(v) \/ LoginSetIp(v) \/ LoginBind(v)
    BY <2>2, LoginTypes
  <2>3. CASE Serve(v)
    BY <2>3, ServeTypes
  <2> QED
    BY <1>3, <2>1, <2>2, <2>3, HandlerTypes DEF Worker
<1> QED
  BY <1>1, <1>2, <1>3 DEF Next

THEOREM TypesInvariant == Spec => []TypeInv
BY InitTypes, TypesPreserved, PTL DEF Spec

\* A login, and the end of a handler.
LEMMA LoginMoves ==
  ASSUME TypeInv, NEW v \in Servers,
         \/ \E u \in Users : LoginApplyList(v, u)
         \/ LoginFriendList(v) \/ LoginSetIp(v) \/ LoginBind(v) \/ Reply(v)
  PROVE  /\ worker'[v].pc \in {"idle"} \cup LoginPcs
         /\ \A x \in Servers \ {v} : worker'[x] = worker[x]
<1> USE DEF LoginPcs
<1>1. ASSUME NEW u \in Users, LoginApplyList(v, u)
      PROVE  /\ worker'[v].pc = "friend_list"
             /\ \A x \in Servers \ {v} : worker'[x] = worker[x]
  <2>1. PICK rows \in {ListOf("apply", u), {}} :
          worker' = [worker EXCEPT ![v] =
                       [pc |-> "friend_list", uid |-> u, list |-> rows]]
    BY <1>1 DEF LoginApplyList
  <2> QED
    BY <2>1, Lists, ApplyListEffect
<1>2. ASSUME LoginFriendList(v)
      PROVE  /\ worker'[v].pc = "set_ip"
             /\ \A x \in Servers \ {v} : worker'[x] = worker[x]
  <2>1. PICK rows \in {ListOf("friend", worker[v].uid), {}} :
          worker' = [worker EXCEPT ![v].pc = "set_ip", ![v].list = @ \cup rows]
    BY <1>2 DEF LoginFriendList
  <2>2. worker[v].uid \in Users /\ worker[v].pc = "friend_list"
    BY <1>2, WorkerShape DEF LoginFriendList, LoginState
  <2>3. rows \in SUBSET Fact
    BY <2>2, Lists
  <2> QED
    BY <2>1, <2>2, <2>3, FriendListEffect
<1>3. CASE LoginSetIp(v)
  BY <1>3, SetIpEffect
<1>4. CASE LoginBind(v) \/ Reply(v)
  <2>1. worker' = [worker EXCEPT ![v] = Idle]
    BY <1>4 DEF LoginBind, Reply
  <2> QED
    BY <2>1, IdleEffect
<1> QED
  BY <1>1, <1>2, <1>3, <1>4

\* From one point of a handler to the next.
LEMMA HandlerMoves ==
  ASSUME TypeInv, NEW v \in Servers,
         \/ InsertApply(v) \/ AcceptApply(v) \/ InsertFirst(v)
         \/ InsertSecond(v) \/ StatementFails(v)
         \/ Lookup(v) \/ LookupFails(v) \/ NotifyLocal(v)
         \/ CallReturns(v) \/ CallFails(v)
  PROVE  \E here, next \in HandlerPcs :
           /\ Goto(v, here, next)
           /\ next \notin {"insert_apply", "accept"}
           /\ next = "insert_first" => here = "accept"
           /\ next = "insert_second" => here = "insert_first"
<1> USE DEF HandlerPcs, EarlyPcs, LatePcs
<1>1. CASE StatementFails(v)
  BY <1>1, StatementFailsEffect
<1>2. CASE Lookup(v)
  BY <1>2, LookupEffect
<1>3. CASE InsertApply(v) \/ AcceptApply(v) \/ InsertFirst(v) \/ InsertSecond(v)
  BY <1>3 DEF InsertApply, AcceptApply, InsertFirst, InsertSecond
<1>4. CASE LookupFails(v) \/ NotifyLocal(v) \/ CallReturns(v) \/ CallFails(v)
  BY <1>4 DEF LookupFails, NotifyLocal, CallReturns, CallFails
<1> QED
  BY <1>1, <1>2, <1>3, <1>4

-----------------------------------------------------------------------------
(***************************************************************************)
(* An accepted application makes friends of both.  Between the two INSERTs *)
(* of a handler, its first row is in the table.                            *)
(***************************************************************************)
BetweenInserts ==
  \A v \in Servers : worker[v].pc = "insert_second" => Pair(v) \in friend

FriendInv == AcceptedAreFriends /\ BetweenInserts

\* A step that neither begins nor ends an INSERT, and accepts nothing.
LEMMA FriendQuiet ==
  ASSUME FriendInv, NEW v \in Servers,
         \A x \in Servers \ {v} : worker'[x] = worker[x],
         worker[v].pc \notin {"insert_first", "insert_second"},
         worker'[v].pc \notin {"insert_first", "insert_second"},
         accepted' = accepted, friend' = friend, unsaved' = unsaved
  PROVE  FriendInv'
<1>1. \A x \in Servers : worker[x].pc \in {"insert_first", "insert_second"}
        => worker'[x] = worker[x]
  OBVIOUS
<1>2. ASSUME NEW p \in accepted
      PROVE  \/ p \in friend /\ <<p[2], p[1]>> \in friend
             \/ p \in unsaved
             \/ \E x \in Servers :
                  /\ Busy(x)' /\ worker'[x].pc \in {"insert_first", "insert_second"}
                  /\ Pair(x)' = p
  BY <1>1 DEF FriendInv, AcceptedAreFriends, Busy, Pair
<1>3. AcceptedAreFriends'
  BY <1>2 DEF AcceptedAreFriends
<1>4. BetweenInserts'
  <2> SUFFICES ASSUME NEW x \in Servers, worker'[x].pc = "insert_second"
               PROVE  Pair(x)' \in friend
    BY DEF BetweenInserts
  <2>1. worker'[x] = worker[x]
    OBVIOUS
  <2> QED
    BY <2>1 DEF FriendInv, BetweenInserts, Pair
<1> QED
  BY <1>3, <1>4 DEF FriendInv

\* The statements of the handlers.
LEMMA FriendStatements ==
  ASSUME TypeInv, FriendInv, NEW v \in Servers,
         AcceptApply(v) \/ InsertFirst(v) \/ InsertSecond(v) \/ StatementFails(v)
  PROVE  FriendInv'
<1> USE DEF HandlerPcs, EarlyPcs, LatePcs
<1>1. PICK here \in {"insert_apply", "accept", "insert_first", "insert_second"},
           next \in {"insert_first", "insert_second", "lookup"} :
        Goto(v, here, next)
  <2>1. CASE StatementFails(v)
    BY <2>1, StatementFailsEffect
  <2> QED
    BY <2>1 DEF AcceptApply, InsertFirst, InsertSecond
<1>2. /\ worker[v].pc = here /\ worker'[v].pc = next
      /\ Pair(v)' = Pair(v)
      /\ worker[v] \in HandlerState
      /\ \A x \in Servers \ {v} : worker'[x] = worker[x] /\ Pair(x)' = Pair(x)
  BY <1>1, GotoEffect DEF Pair
<1>3. /\ friend \subseteq friend' /\ unsaved \subseteq unsaved'
      /\ next = "insert_second" => Pair(v) \in friend'
      /\ accepted' \subseteq accepted \cup {Pair(v)}
      /\ \/ accepted' = accepted
         \/ next = "insert_first"
      /\ \/ Pair(v) \in unsaved'
         \/ here \in {"insert_apply", "accept"} /\ next = "insert_first"
         \/ here = "insert_first" /\ next = "insert_second"
         \/ /\ here = "insert_second"
            /\ Pair(v) \in friend' /\ <<Pair(v)[2], Pair(v)[1]>> \in friend'
  <2>1. CASE AcceptApply(v)
    <3>1. here = "accept" /\ next = "insert_first"
      BY <1>2, <2>1, GotoEffect DEF AcceptApply
    <3> QED
      BY <2>1, <3>1 DEF AcceptApply, history
  <2>2. CASE InsertFirst(v)
    <3>1. here = "insert_first" /\ next = "insert_second"
      BY <1>2, <2>2, GotoEffect DEF InsertFirst
    <3> QED
      BY <2>2, <3>1 DEF InsertFirst, history
  <2>3. CASE InsertSecond(v)
    <3>1. here = "insert_second" /\ next = "lookup"
      BY <1>2, <2>3, GotoEffect DEF InsertSecond
    <3>2. Pair(v) \in friend
      BY <1>2, <3>1 DEF FriendInv, BetweenInserts
    <3> QED
      BY <2>3, <3>1, <3>2 DEF InsertSecond, history
  <2>4. CASE StatementFails(v)
    <3>1. next # "insert_second"
      <4>1. PICK h \in {"insert_apply", "accept", "insert_first", "insert_second"},
                 n \in {"insert_first", "lookup"} : Goto(v, h, n)
        BY <2>4, StatementFailsEffect
      <4>2. worker'[v].pc = n
        BY <4>1, GotoEffect
      <4> QED
        BY <1>2, <4>2
    <3> QED
      BY <2>4, <3>1 DEF StatementFails, tables
  <2> QED
    BY <2>1, <2>2, <2>3, <2>4
<1>4. ASSUME NEW p \in accepted'
      PROVE  \/ p \in friend' /\ <<p[2], p[1]>> \in friend'
             \/ p \in unsaved'
             \/ \E x \in Servers :
                  /\ Busy(x)' /\ worker'[x].pc \in {"insert_first", "insert_second"}
                  /\ Pair(x)' = p
  <2>1. CASE p = Pair(v)
    <3>1. CASE next \in {"insert_first", "insert_second"}
      BY <1>2, <2>1, <3>1 DEF Busy
    <3> QED
      BY <1>2, <1>3, <2>1, <3>1
  <2>2. CASE p # Pair(v)
    <3>1. \/ p \in friend /\ <<p[2], p[1]>> \in friend
          \/ p \in unsaved
          \/ \E x \in Servers :
               /\ worker[x].pc \in {"insert_first", "insert_second"}
               /\ Pair(x) = p
      BY <1>3, <2>2 DEF FriendInv, AcceptedAreFriends
    <3>2. ASSUME NEW x \in Servers, Pair(x) = p,
                 worker[x].pc \in {"insert_first", "insert_second"}
          PROVE  /\ Busy(x)' /\ worker'[x].pc \in {"insert_first", "insert_second"}
                 /\ Pair(x)' = p
      BY <1>2, <2>2, <3>2 DEF Busy
    <3> QED
      BY <1>3, <3>1, <3>2
  <2> QED
    BY <2>1, <2>2
<1>5. AcceptedAreFriends'
  BY <1>4 DEF AcceptedAreFriends
<1>6. BetweenInserts'
  <2> SUFFICES ASSUME NEW x \in Servers, worker'[x].pc = "insert_second"
               PROVE  Pair(x)' \in friend'
    BY DEF BetweenInserts
  <2> QED
    BY <1>2, <1>3 DEF FriendInv, BetweenInserts
<1> QED
  BY <1>5, <1>6 DEF FriendInv

\* All other steps are quiet.
LEMMA FriendOthers ==
  ASSUME TypeInv, FriendInv, NEW v \in Servers,
         \/ \E u \in Users : LoginApplyList(v, u) \/ BeginRequest(v, u)
         \/ LoginFriendList(v) \/ LoginSetIp(v) \/ LoginBind(v)
         \/ InsertApply(v) \/ Lookup(v) \/ LookupFails(v) \/ NotifyLocal(v)
         \/ CallReturns(v) \/ CallFails(v) \/ Reply(v)
  PROVE  FriendInv'
<1> USE DEF HandlerPcs, EarlyPcs, LatePcs, LoginPcs
<1>1. CASE \/ \E u \in Users : LoginApplyList(v, u)
           \/ LoginFriendList(v) \/ LoginSetIp(v) \/ LoginBind(v) \/ Reply(v)
  <2>1. worker[v].pc \in {"idle", "friend_list", "set_ip", "bind", "reply"}
    BY <1>1 DEF LoginApplyList, LoginFriendList, LoginSetIp, LoginBind, Reply
  <2>2. UNCHANGED <<accepted, friend, unsaved>>
    BY <1>1 DEF LoginApplyList, LoginFriendList, LoginSetIp, LoginBind, Reply,
                tables, history
  <2> QED
    BY <1>1, <2>1, <2>2, LoginMoves, FriendQuiet
<1>2. ASSUME NEW u \in Users, BeginRequest(v, u) PROVE FriendInv'
  <2>1. /\ worker[v].pc = "idle"
        /\ worker'[v].pc \in {"insert_apply", "accept", "lookup"}
        /\ \A x \in Servers \ {v} : worker'[x] = worker[x]
    BY <1>2, BeginEffect DEF FirstStep
  <2>2. UNCHANGED <<accepted, friend, unsaved>>
    BY <1>2 DEF BeginRequest, tables
  <2> QED
    BY <2>1, <2>2, FriendQuiet
<1>3. CASE InsertApply(v) \/ Lookup(v) \/ LookupFails(v) \/ NotifyLocal(v)
             \/ CallReturns(v) \/ CallFails(v)
  <2>1. PICK here \in {"insert_apply", "lookup", "local", "rpc"},
             next \in {"lookup", "local", "rpc", "reply"} : Goto(v, here, next)
    <3>1. CASE Lookup(v)
      BY <3>1, LookupEffect
    <3> QED
      BY <1>3, <3>1 DEF InsertApply, LookupFails, NotifyLocal, CallReturns, CallFails
  <2>2. UNCHANGED <<accepted, friend, unsaved>>
    BY <1>3 DEF InsertApply, Lookup, LookupFails, NotifyLocal, CallReturns,
                CallFails, Fails, tables, history
  <2>3. /\ worker[v].pc = here /\ worker'[v].pc = next
        /\ \A x \in Servers \ {v} : worker'[x] = worker[x]
    BY <2>1, GotoEffect
  <2> QED
    BY <2>2, <2>3, FriendQuiet
<1> QED
  BY <1>1, <1>2, <1>3

\* A step of a client, or of a gRPC thread, leaves the workers alone.
LEMMA OutsideSteps ==
  ASSUME \/ \E u \in Users : Client(u)
         \/ \E v \in Servers : Serve(v)
         \/ UNCHANGED vars
  PROVE  UNCHANGED <<worker, friend_apply, accepted, friend, unsaved>>
BY DEF Client, SendLogin, Disconnect, Leave, Serve, tables, history, vars

\* An accepted application makes friends of both, unless a statement failed:
\* the three statements of authFriendApply and addFriend have no transaction.
THEOREM AcceptedBecomeFriends == Spec => []AcceptedAreFriends
<1>1. Init => FriendInv
  BY DEF Init, Idle, FriendInv, AcceptedAreFriends, BetweenInserts
<1>2. TypeInv /\ FriendInv /\ [Next]_vars => FriendInv'
  <2> SUFFICES ASSUME TypeInv, FriendInv, [Next]_vars PROVE FriendInv'
    OBVIOUS
  <2>1. CASE \/ \E u \in Users : Client(u)
             \/ \E v \in Servers : Serve(v)
             \/ UNCHANGED vars
    BY <2>1, OutsideSteps
       DEF FriendInv, AcceptedAreFriends, BetweenInserts, Busy, Pair
  <2>2. ASSUME NEW v \in Servers, Worker(v) PROVE FriendInv'
    BY <2>2, FriendStatements, FriendOthers DEF Worker
  <2> QED
    BY <2>1, <2>2 DEF Next
<1>3. FriendInv => AcceptedAreFriends
  BY DEF FriendInv
<1> QED
  BY <1>1, <1>2, <1>3, TypesInvariant, PTL DEF Spec

-----------------------------------------------------------------------------
(***************************************************************************)
(* Which kind of request a handler has at which point.                     *)
(***************************************************************************)
KindFits ==
  \A v \in Servers :
    /\ worker[v].pc = "insert_apply" => worker[v].req.kind = "add"
    /\ worker[v].pc \in {"accept", "insert_first", "insert_second"} =>
         worker[v].req.kind = "auth"

LEMMA KindsPreserved == TypeInv /\ KindFits /\ [Next]_vars => KindFits'
<1> SUFFICES ASSUME TypeInv, KindFits, [Next]_vars PROVE KindFits'
  OBVIOUS
<1> USE DEF HandlerPcs, EarlyPcs, LatePcs
<1>1. CASE \/ \E u \in Users : Client(u)
           \/ \E v \in Servers : Serve(v)
           \/ UNCHANGED vars
  BY <1>1, OutsideSteps DEF KindFits
<1>2. ASSUME NEW v \in Servers, Worker(v) PROVE KindFits'
  <2>1. CASE \/ \E u \in Users : LoginApplyList(v, u)
             \/ LoginFriendList(v) \/ LoginSetIp(v) \/ LoginBind(v) \/ Reply(v)
    BY <2>1, LoginMoves DEF KindFits, LoginPcs
  <2>2. CASE \E u \in Users : BeginRequest(v, u)
    BY <2>2, BeginEffect DEF KindFits, FirstStep
  <2>3. CASE \/ InsertApply(v) \/ AcceptApply(v) \/ InsertFirst(v)
             \/ InsertSecond(v) \/ StatementFails(v)
             \/ Lookup(v) \/ LookupFails(v) \/ NotifyLocal(v)
             \/ CallReturns(v) \/ CallFails(v)
    <3>1. PICK here, next \in HandlerPcs :
            /\ Goto(v, here, next)
            /\ next \notin {"insert_apply", "accept"}
            /\ next = "insert_first" => here = "accept"
            /\ next = "insert_second" => here = "insert_first"
      BY <2>3, HandlerMoves
    <3>2. /\ worker[v].pc = here /\ worker'[v].pc = next
          /\ worker'[v].req = worker[v].req
          /\ \A x \in Servers \ {v} : worker'[x] = worker[x]
      BY <3>1, GotoEffect
    <3> QED
      BY <3>1, <3>2 DEF KindFits
  <2> QED
    BY <1>2, <2>1, <2>2, <2>3 DEF Worker
<1> QED
  BY <1>1, <1>2 DEF Next

-----------------------------------------------------------------------------
(***************************************************************************)
(* What a client is told is in the database.  The facts on their way to a  *)
(* client, in a list, a handler or a call, are there already.              *)
(***************************************************************************)
Backed(f) ==
  \/ f \in Stored
  \/ <<f.about, f.to>> \in unsaved \/ <<f.to, f.about>> \in unsaved

\* What the worker of v is going to tell.
ToldBy(v) ==
  /\ worker[v].pc \in LoginPcs => \A f \in worker[v].list : Backed(f)
  /\ worker[v].pc \in {"insert_second", "lookup"} \cup LatePcs =>
       \A f \in Notice(worker[v].req) : Backed(f)
  /\ worker[v].pc \in {"lookup"} \cup LatePcs =>
       \A f \in Answer(worker[v].req) : Backed(f)

CallsBacked == \A c \in rpcs : \A f \in Notice(c.req) : Backed(f)

ToldInv ==
  /\ \A f \in known : Backed(f)
  /\ \A v \in Servers : ToldBy(v)
  /\ CallsBacked

\* Nothing is ever deleted from the database.
LEMMA TablesGrow ==
  ASSUME [Next]_vars
  PROVE  /\ friend_apply \subseteq friend_apply' /\ friend \subseteq friend'
         /\ unsaved \subseteq unsaved'
<1>1. CASE \/ \E u \in Users : Client(u)
           \/ \E v \in Servers : Serve(v)
           \/ UNCHANGED vars
  BY <1>1, OutsideSteps
<1>2. ASSUME NEW v \in Servers, Worker(v)
      PROVE  /\ friend_apply \subseteq friend_apply' /\ friend \subseteq friend'
             /\ unsaved \subseteq unsaved'
  <2>1. CASE \/ \E u \in Users : LoginApplyList(v, u) \/ BeginRequest(v, u)
             \/ LoginFriendList(v) \/ LoginSetIp(v) \/ LoginBind(v) \/ Reply(v)
    BY <2>1 DEF LoginApplyList, BeginRequest, LoginFriendList, LoginSetIp,
                LoginBind, Reply, tables, history
  <2>2. CASE InsertApply(v) \/ AcceptApply(v) \/ InsertFirst(v) \/ InsertSecond(v)
               \/ StatementFails(v)
    BY <2>2 DEF InsertApply, AcceptApply, InsertFirst, InsertSecond,
                StatementFails, tables, history
  <2>3. CASE Lookup(v) \/ LookupFails(v) \/ NotifyLocal(v) \/ CallReturns(v)
               \/ CallFails(v)
    BY <2>3 DEF Lookup, LookupFails, NotifyLocal, CallReturns, CallFails, Fails,
                tables, history
  <2> QED
    BY <1>2, <2>1, <2>2, <2>3 DEF Worker
<1> QED
  BY <1>1, <1>2 DEF Next

LEMMA BackedStays ==
  ASSUME [Next]_vars, NEW f, Backed(f)
  PROVE  Backed(f)'
BY TablesGrow DEF Backed, Stored

\* A step preserves the invariant if what it adds is backed.
LEMMA ToldStep ==
  ASSUME [Next]_vars, ToldInv,
         \A f \in known' : f \in known \/ Backed(f)',
         \A x \in Servers : worker'[x] = worker[x] \/ ToldBy(x)',
         \A c \in rpcs' : \/ \E d \in rpcs : c.req = d.req
                          \/ \A f \in Notice(c.req) : Backed(f)'
  PROVE  ToldInv'
<1>1. \A f : Backed(f) => Backed(f)'
  BY BackedStays
<1>2. \A f \in known' : Backed(f)'
  BY <1>1 DEF ToldInv
<1>3. ASSUME NEW x \in Servers, worker'[x] = worker[x] PROVE ToldBy(x)'
  BY <1>1, <1>3 DEF ToldInv, ToldBy
<1>4. CallsBacked'
  BY <1>1 DEF ToldInv, CallsBacked
<1> QED
  BY <1>2, <1>3, <1>4 DEF ToldInv

\* A row, or the failure to write it, backs the facts about its users.
LEMMA BackedNow ==
  ASSUME NEW a, NEW b
  PROVE  /\ <<a, b>> \in friend_apply' => Backed(Applied(a, b))'
         /\ <<a, b>> \in friend' => Backed(Befriended(a, b))'
         /\ <<a, b>> \in unsaved' => /\ Backed(Applied(a, b))'
                                    /\ Backed(Befriended(a, b))'
                                    /\ Backed(Befriended(b, a))'
<1>1. ASSUME <<a, b>> \in friend_apply' PROVE Backed(Applied(a, b))'
  <2>1. Applied(<<a, b>>[1], <<a, b>>[2]) = Applied(a, b)
    BY DEF Applied
  <2> QED
    BY <1>1, <2>1 DEF Backed, Stored
<1>2. ASSUME <<a, b>> \in friend' PROVE Backed(Befriended(a, b))'
  <2>1. Befriended(<<a, b>>[1], <<a, b>>[2]) = Befriended(a, b)
    BY DEF Befriended
  <2> QED
    BY <1>2, <2>1 DEF Backed, Stored
<1>3. ASSUME <<a, b>> \in unsaved'
      PROVE  /\ Backed(Applied(a, b))'
             /\ Backed(Befriended(a, b))' /\ Backed(Befriended(b, a))'
  BY <1>3 DEF Backed, Applied, Befriended
<1> QED
  BY <1>1, <1>2, <1>3

\* The lists of a login come from the database, and the request of a handler
\* is backed when its statements are done or have failed.
LEMMA ToldWorker ==
  ASSUME TypeInv, KindFits, ToldInv, [Next]_vars, NEW v \in Servers, Worker(v)
  PROVE  ToldBy(v)'
<1> USE DEF HandlerPcs, EarlyPcs, LatePcs, LoginPcs
<1>1. \A f : Backed(f) => Backed(f)'
  BY BackedStays
<1>2. \A f \in Stored : Backed(f)'
  BY <1>1 DEF Backed
<1>3. ASSUME NEW u \in Users, LoginApplyList(v, u) PROVE ToldBy(v)'
  <2>1. PICK rows \in {ListOf("apply", u), {}} :
          worker' = [worker EXCEPT ![v] =
                       [pc |-> "friend_list", uid |-> u, list |-> rows]]
    BY <1>3 DEF LoginApplyList
  <2>2. rows \subseteq Stored /\ rows \in SUBSET Fact
    BY Lists
  <2>3. worker'[v].pc = "friend_list" /\ worker'[v].list = rows
    BY <2>1, <2>2, ApplyListEffect
  <2> QED
    BY <1>2, <2>2, <2>3 DEF ToldBy
<1>4. CASE LoginFriendList(v)
  <2>1. PICK rows \in {ListOf("friend", worker[v].uid), {}} :
          worker' = [worker EXCEPT ![v].pc = "set_ip", ![v].list = @ \cup rows]
    BY <1>4 DEF LoginFriendList
  <2>2. worker[v].uid \in Users /\ worker[v].pc = "friend_list"
    BY <1>4, WorkerShape DEF LoginFriendList, LoginState
  <2>3. rows \subseteq Stored /\ rows \in SUBSET Fact
    BY <2>2, Lists
  <2>4. /\ worker'[v].pc = "set_ip"
        /\ worker'[v].list = worker[v].list \cup rows
    BY <2>1, <2>2, <2>3, FriendListEffect
  <2>5. \A f \in worker[v].list : Backed(f)
    BY <2>2 DEF ToldInv, ToldBy
  <2> QED
    BY <1>1, <1>2, <2>3, <2>4, <2>5 DEF ToldBy
<1>5. CASE LoginSetIp(v)
  <2>1. worker[v].pc = "set_ip"
    BY <1>5 DEF LoginSetIp
  <2>2. worker'[v].pc = "bind" /\ worker'[v].list = worker[v].list
    BY <1>5, SetIpEffect
  <2> QED
    BY <1>1, <2>1, <2>2 DEF ToldInv, ToldBy
<1>6. CASE LoginBind(v) \/ Reply(v)
  <2>1. worker' = [worker EXCEPT ![v] = Idle]
    BY <1>6 DEF LoginBind, Reply
  <2> QED
    BY <2>1, IdleEffect DEF ToldBy
<1>7. ASSUME NEW u \in Users, BeginRequest(v, u) PROVE ToldBy(v)'
  <2>1. /\ worker'[v].req.kind \in {"add", "auth", "text"}
        /\ worker'[v].pc = FirstStep(worker'[v].req.kind)
    BY <1>7, BeginEffect
  <2>2. CASE worker'[v].pc = "lookup"
    <3>1. worker'[v].req.kind = "text"
      BY <2>1, <2>2 DEF FirstStep
    <3>2. Notice(worker'[v].req) = {} /\ Answer(worker'[v].req) = {}
      BY <3>1 DEF Notice, Answer
    <3> QED
      BY <2>2, <3>2 DEF ToldBy
  <2>3. CASE worker'[v].pc \in {"insert_apply", "accept"}
    BY <2>3 DEF ToldBy
  <2> QED
    BY <2>1, <2>2, <2>3 DEF FirstStep
<1>8. CASE \/ InsertApply(v) \/ AcceptApply(v) \/ InsertFirst(v)
           \/ InsertSecond(v) \/ StatementFails(v)
           \/ Lookup(v) \/ LookupFails(v) \/ NotifyLocal(v)
           \/ CallReturns(v) \/ CallFails(v)
  <2>1. PICK here, next \in HandlerPcs :
          /\ Goto(v, here, next)
          /\ next \notin {"insert_apply", "accept"}
          /\ next = "insert_first" => here = "accept"
          /\ next = "insert_second" => here = "insert_first"
    BY <1>8, HandlerMoves
  <2>2. PICK r \in Request :
          /\ worker[v].pc = here /\ worker'[v].pc = next
          /\ worker[v].req = r /\ worker'[v].req = r
    <3>1. /\ worker[v].pc = here /\ worker'[v].pc = next
          /\ worker'[v].req = worker[v].req /\ worker[v] \in HandlerState
      BY <2>1, GotoEffect
    <3> QED
      BY <3>1 DEF HandlerState
  <2>3. CASE here \in {"lookup"} \cup LatePcs
    <3>1. \A f \in Notice(r) \cup Answer(r) : Backed(f)
      BY <2>2, <2>3 DEF ToldInv, ToldBy
    <3> QED
      BY <1>1, <2>1, <2>2, <2>3, <3>1 DEF ToldBy
  <2>4. CASE here = "insert_apply"
    <3>1. r.kind = "add"
      BY <2>2, <2>4 DEF KindFits
    <3>2. InsertApply(v) \/ StatementFails(v)
      BY <1>8, <2>2, <2>4
         DEF AcceptApply, InsertFirst, InsertSecond, Lookup, LookupFails,
             NotifyLocal, CallReturns, CallFails, Goto
    <3>3. Pair(v) \in friend_apply' \/ Pair(v) \in unsaved'
      BY <3>2 DEF InsertApply, StatementFails
    <3>4. Pair(v) = <<r.from, r.to>> /\ Notice(r) = {Applied(r.from, r.to)}
          /\ Answer(r) = {}
      BY <2>2, <3>1 DEF Pair, Notice, Answer
    <3>5. Backed(Applied(r.from, r.to))'
      BY <3>3, <3>4, BackedNow
    <3> QED
      BY <2>1, <2>2, <2>4, <3>4, <3>5 DEF ToldBy
  <2>5. CASE here \in {"accept", "insert_first", "insert_second"}
    <3>1. /\ r.kind = "auth" /\ Pair(v) = <<r.to, r.from>>
          /\ Notice(r) = {Befriended(r.to, r.from)}
          /\ Answer(r) = {Befriended(r.from, r.to)}
      BY <2>2, <2>5 DEF KindFits, Pair, Notice, Answer
    <3>2. CASE StatementFails(v)
      <4>1. <<r.to, r.from>> \in unsaved'
        BY <2>2, <3>1, <3>2 DEF StatementFails
      <4>2. Backed(Befriended(r.to, r.from))' /\ Backed(Befriended(r.from, r.to))'
        BY <4>1, BackedNow
      <4> QED
        BY <2>2, <3>1, <4>2 DEF ToldBy
    <3>3. CASE AcceptApply(v)
      <4>1. next = "insert_first"
        BY <2>2, <3>3, GotoEffect DEF AcceptApply
      <4> QED
        BY <2>2, <4>1 DEF ToldBy
    <3>4. CASE InsertFirst(v)
      <4>1. next = "insert_second"
        BY <2>2, <3>4, GotoEffect DEF InsertFirst
      <4>2. <<r.to, r.from>> \in friend'
        BY <3>1, <3>4 DEF InsertFirst
      <4>3. Backed(Befriended(r.to, r.from))'
        BY <4>2, BackedNow
      <4> QED
        BY <2>2, <3>1, <4>1, <4>3 DEF ToldBy
    <3>5. CASE InsertSecond(v)
      <4>1. here = "insert_second"
        BY <2>2, <3>5 DEF InsertSecond, Goto
      <4>2. Backed(Befriended(r.to, r.from))
        BY <2>2, <3>1, <4>1 DEF ToldInv, ToldBy
      <4>3. <<r.from, r.to>> \in friend'
        BY <3>1, <3>5 DEF InsertSecond
      <4>4. Backed(Befriended(r.from, r.to))'
        BY <4>3, BackedNow
      <4> QED
        BY <1>1, <2>2, <3>1, <4>2, <4>4 DEF ToldBy
    <3> QED
      BY <1>8, <2>2, <2>5, <3>2, <3>3, <3>4, <3>5
         DEF InsertApply, Lookup, LookupFails, NotifyLocal, CallReturns,
             CallFails, Goto
  <2> QED
    BY <2>3, <2>4, <2>5
<1> QED
  BY <1>3, <1>4, <1>5, <1>6, <1>7, <1>8 DEF Worker

\* What a worker tells a client, and what it hands to a call.
LEMMA ToldByWorker ==
  ASSUME TypeInv, ToldInv, NEW v \in Servers, Worker(v)
  PROVE  /\ \A f \in known' : f \in known \/ Backed(f)
         /\ \A c \in rpcs' : \/ \E d \in rpcs : c.req = d.req
                             \/ \A f \in Notice(c.req) : Backed(f)
<1> USE DEF HandlerPcs, EarlyPcs, LatePcs, LoginPcs
<1>1. CASE \/ \E u \in Users : LoginApplyList(v, u) \/ BeginRequest(v, u)
           \/ LoginFriendList(v) \/ LoginSetIp(v)
           \/ InsertApply(v) \/ AcceptApply(v) \/ InsertFirst(v)
           \/ InsertSecond(v) \/ StatementFails(v) \/ LookupFails(v)
  BY <1>1 DEF LoginApplyList, BeginRequest, LoginFriendList, LoginSetIp,
              InsertApply, AcceptApply, InsertFirst, InsertSecond,
              StatementFails, LookupFails, Fails, clients
<1>2. CASE LoginBind(v)
  <2>1. worker[v].pc = "bind" /\ known' = known \cup worker[v].list /\ rpcs' = rpcs
    BY <1>2 DEF LoginBind
  <2> QED
    BY <2>1 DEF ToldInv, ToldBy
<1>3. CASE Lookup(v)
  <2>1. /\ worker[v].pc = "lookup" /\ known' = known
        /\ rpcs' = rpcs \/ rpcs' = rpcs \cup {Call(v, worker[v].req)}
    BY <1>3 DEF Lookup, clients
  <2>2. \A f \in Notice(worker[v].req) : Backed(f)
    BY <2>1 DEF ToldInv, ToldBy
  <2>3. Call(v, worker[v].req).req = worker[v].req
    BY DEF Call
  <2> QED
    BY <2>1, <2>2, <2>3
<1>4. CASE NotifyLocal(v) \/ Reply(v)
  <2>1. /\ worker[v].pc \in {"local", "reply"} /\ rpcs' = rpcs
        /\ known' \subseteq known \cup Notice(worker[v].req)
                                  \cup Answer(worker[v].req)
    BY <1>4, DeliverEffect, TellEffect DEF NotifyLocal, Reply, Goto
  <2> QED
    BY <2>1 DEF ToldInv, ToldBy
<1>5. CASE CallReturns(v) \/ CallFails(v)
  BY <1>5 DEF CallReturns, CallFails, Fails, clients
<1> QED
  BY <1>1, <1>2, <1>3, <1>4, <1>5 DEF Worker

\* Whatever a client is told, in a login reply, a notification or an answer,
\* and by whatever server, is in the database or was refused by it.
THEOREM OnlyStoredIsTold == Spec => []ToldIsStored
<1>1. Init => KindFits /\ ToldInv
  BY DEF Init, Idle, KindFits, ToldInv, ToldBy, CallsBacked, LoginPcs, LatePcs
<1>2. TypeInv /\ KindFits /\ ToldInv /\ [Next]_vars => ToldInv'
  <2> SUFFICES ASSUME TypeInv, KindFits, ToldInv, [Next]_vars PROVE ToldInv'
    OBVIOUS
  <2>1. ASSUME \/ \E u \in Users : Client(u)
               \/ UNCHANGED vars
        PROVE  ToldInv'
    <3>1. known' \subseteq known /\ rpcs' = rpcs /\ worker' = worker
      BY <2>1 DEF Client, SendLogin, Disconnect, Leave, vars
    <3> QED
      BY <3>1, ToldStep
  <2>2. ASSUME NEW v \in Servers, Serve(v) PROVE ToldInv'
    <3>1. PICK c \in rpcs : Deliver(v, c.req) /\ CallServed(c)
      BY <2>2 DEF Serve
    <3>2. known' \subseteq known \cup Notice(c.req) /\ worker' = worker
      BY <2>2, <3>1, DeliverEffect DEF Serve
    <3>3. \A d \in rpcs' : \E e \in rpcs : d.req = e.req
      BY <3>1, ServedEffect
    <3>4. \A f \in Notice(c.req) : Backed(f)'
      BY <3>1, BackedStays DEF ToldInv, CallsBacked
    <3> QED
      BY <3>2, <3>3, <3>4, ToldStep
  <2>3. ASSUME NEW v \in Servers, Worker(v) PROVE ToldInv'
    <3>1. ToldBy(v)'
      BY <2>3, ToldWorker
    <3>2. \A x \in Servers \ {v} : worker'[x] = worker[x]
      <4>1. CASE \/ \E u \in Users : LoginApplyList(v, u)
                 \/ LoginFriendList(v) \/ LoginSetIp(v) \/ LoginBind(v) \/ Reply(v)
        BY <4>1, LoginMoves
      <4>2. CASE \E u \in Users : BeginRequest(v, u)
        BY <4>2, BeginEffect
      <4> QED
        BY <2>3, <4>1, <4>2, HandlerMoves, GotoEffect DEF Worker
    <3>3. /\ \A f \in known' : f \in known \/ Backed(f)'
          /\ \A c \in rpcs' : \/ \E d \in rpcs : c.req = d.req
                              \/ \A f \in Notice(c.req) : Backed(f)'
      BY <2>3, ToldByWorker, BackedStays
    <3> QED
      BY <3>1, <3>2, <3>3, ToldStep
  <2> QED
    BY <2>1, <2>2, <2>3 DEF Next
<1>3. ToldInv => ToldIsStored
  BY DEF ToldInv, ToldIsStored, Backed
<1> QED
  BY <1>1, <1>2, <1>3, KindsPreserved, TypesInvariant, PTL DEF Spec

-----------------------------------------------------------------------------
(***************************************************************************)
(* Logins, keys and bindings.  A login that is handled is that of the      *)
(* connection; who is online is bound where the key says.                  *)
(***************************************************************************)
LoginFits ==
  \A v \in Servers :
    /\ worker[v].pc \in LoginPcs =>
         /\ conn[worker[v].uid].state = "login"
         /\ conn[worker[v].uid].server = v
    /\ worker[v].pc = "bind" => uip[worker[v].uid] = v

OnlineFits ==
  \A u \in Users : Online(u) =>
    /\ conn[u].server \in Servers
    /\ u \in uid_session[conn[u].server]
    /\ uip[u] = conn[u].server

SessionFits == LoginFits /\ OnlineFits

\* A step that begins no login, and changes no key and no binding.
LEMMA FitsQuiet ==
  ASSUME SessionFits, UNCHANGED <<conn, uid_session, uip>>,
         \A x \in Servers : worker'[x] = worker[x] \/ worker'[x].pc \notin LoginPcs
  PROVE  SessionFits'
<1>1. OnlineFits'
  BY DEF SessionFits, OnlineFits, Online
<1>2. LoginFits'
  BY DEF SessionFits, LoginFits, LoginPcs
<1> QED
  BY <1>1, <1>2 DEF SessionFits

LEMMA FitsClient ==
  ASSUME TypeInv, SessionFits, NEW u \in Users, Client(u)
  PROVE  SessionFits'
<1>1. \A v \in Servers : worker[v].pc \in LoginPcs => worker[v].uid \in Users
  BY WorkerShape DEF LoginState
<1>2. ASSUME NEW v \in Servers, SendLogin(u, v) PROVE SessionFits'
  <2>1. /\ conn[u].state = "off" /\ conn'[u].state = "login"
        /\ \A w \in Users \ {u} : conn'[w] = conn[w]
        /\ UNCHANGED <<uid_session, uip, worker>>
    BY <1>2 DEF SendLogin, TypeInv, bindings
  <2>2. OnlineFits'
    BY <2>1 DEF SessionFits, OnlineFits, Online
  <2>3. LoginFits'
    BY <1>1, <2>1 DEF SessionFits, LoginFits, LoginPcs
  <2> QED
    BY <2>2, <2>3 DEF SessionFits
<1>3. CASE Disconnect(u)
  <2>1. /\ conn[u].state = "on" /\ conn'[u].state = "off"
        /\ \A w \in Users \ {u} : conn'[w] = conn[w]
        /\ UNCHANGED <<uip, worker>>
    <3>1. conn'[u] = [conn[u] EXCEPT !.state = "off"] /\ conn[u] \in Connection
      BY <1>3 DEF Disconnect, Leave, TypeInv
    <3> QED
      BY <1>3, <3>1 DEF Disconnect, Leave, Online, TypeInv, Connection
  <2>2. \A v \in Servers, w \in Users \ {u} :
          w \in uid_session[v] => w \in uid_session'[v]
    BY <1>3 DEF Disconnect, TypeInv
  <2>3. OnlineFits'
    BY <2>1, <2>2 DEF SessionFits, OnlineFits, Online
  <2>4. LoginFits'
    BY <1>1, <2>1 DEF SessionFits, LoginFits, LoginPcs
  <2> QED
    BY <2>3, <2>4 DEF SessionFits
<1> QED
  BY <1>2, <1>3 DEF Client

LEMMA FitsLogin ==
  ASSUME TypeInv, SessionFits, NEW v \in Servers,
         \/ \E u \in Users : LoginApplyList(v, u)
         \/ LoginFriendList(v) \/ LoginSetIp(v) \/ LoginBind(v)
  PROVE  SessionFits'
<1> USE DEF LoginPcs
<1>1. ASSUME NEW u \in Users, LoginApplyList(v, u) PROVE SessionFits'
  <2>1. PICK rows \in {ListOf("apply", u), {}} :
          worker' = [worker EXCEPT ![v] =
                       [pc |-> "friend_list", uid |-> u, list |-> rows]]
    BY <1>1 DEF LoginApplyList
  <2>2. rows \in SUBSET Fact
    BY Lists
  <2>3. /\ worker'[v].pc = "friend_list" /\ worker'[v].uid = u
        /\ \A x \in Servers \ {v} : worker'[x] = worker[x]
    BY <2>1, <2>2, ApplyListEffect
  <2>4. /\ conn[u].state = "login" /\ conn[u].server = v
        /\ UNCHANGED <<conn, uid_session, uip>>
    BY <1>1 DEF LoginApplyList, clients, bindings
  <2>5. OnlineFits' /\ LoginFits'
    BY <2>3, <2>4 DEF SessionFits, OnlineFits, LoginFits, Online
  <2> QED
    BY <2>5 DEF SessionFits
<1>2. CASE LoginFriendList(v)
  <2>1. PICK rows \in {ListOf("friend", worker[v].uid), {}} :
          worker' = [worker EXCEPT ![v].pc = "set_ip", ![v].list = @ \cup rows]
    BY <1>2 DEF LoginFriendList
  <2>2. worker[v].uid \in Users /\ worker[v].pc = "friend_list"
    BY <1>2, WorkerShape DEF LoginFriendList, LoginState
  <2>3. rows \in SUBSET Fact
    BY <2>2, Lists
  <2>4. /\ worker'[v].pc = "set_ip" /\ worker'[v].uid = worker[v].uid
        /\ \A x \in Servers \ {v} : worker'[x] = worker[x]
    BY <2>1, <2>2, <2>3, FriendListEffect
  <2>5. UNCHANGED <<conn, uid_session, uip>>
    BY <1>2 DEF LoginFriendList, clients, bindings
  <2>6. OnlineFits' /\ LoginFits'
    BY <2>2, <2>4, <2>5 DEF SessionFits, OnlineFits, LoginFits, Online
  <2> QED
    BY <2>6 DEF SessionFits
<1>3. \A x \in Servers : worker[x].pc \in LoginPcs =>
        /\ worker[x].uid \in Users
        /\ conn[worker[x].uid].state = "login" /\ conn[worker[x].uid].server = x
  BY WorkerShape DEF LoginState, SessionFits, LoginFits
<1>4. CASE LoginSetIp(v)
  <2> DEFINE u == worker[v].uid
  <2>1. worker[v].pc = "set_ip" /\ u \in Users
    BY <1>3, <1>4 DEF LoginSetIp
  <2>2. /\ uip'[u] = v
        /\ \A w \in Users \ {u} : uip'[w] = uip[w]
        /\ UNCHANGED <<conn, uid_session>>
    BY <1>4, <2>1 DEF LoginSetIp, clients, TypeInv
  <2>3. /\ worker'[v].pc = "bind" /\ worker'[v].uid = u
        /\ \A x \in Servers \ {v} : worker'[x] = worker[x]
    BY <1>4, SetIpEffect
  <2>4. conn[u].state = "login" /\ conn[u].server = v
    BY <1>3, <2>1
  <2> HIDE DEF u
  <2>5. OnlineFits'
    BY <2>2, <2>4 DEF SessionFits, OnlineFits, Online
  <2>6. LoginFits'
    <3> SUFFICES ASSUME NEW x \in Servers, worker'[x].pc \in LoginPcs
                 PROVE  /\ conn[worker'[x].uid].state = "login"
                        /\ conn[worker'[x].uid].server = x
                        /\ worker'[x].pc = "bind" => uip'[worker'[x].uid] = x
      BY <2>2 DEF LoginFits
    <3>1. CASE x = v
      BY <2>2, <2>3, <2>4, <3>1
    <3>2. CASE x # v
      <4>1. worker'[x] = worker[x] /\ worker[x].uid # u
        BY <1>3, <2>3, <2>4, <3>2
      <4> QED
        BY <1>3, <2>2, <4>1 DEF SessionFits, LoginFits
    <3> QED
      BY <3>1, <3>2
  <2> QED
    BY <2>5, <2>6 DEF SessionFits
<1>5. CASE LoginBind(v)
  <2> DEFINE u == worker[v].uid
  <2>1. worker[v].pc = "bind" /\ u \in Users
    BY <1>3, <1>5 DEF LoginBind
  <2>2. /\ conn[u].state = "login" /\ conn[u].server = v /\ uip[u] = v
    BY <1>3, <2>1 DEF SessionFits, LoginFits
  <2>3. /\ conn' = [conn EXCEPT ![u].state = "on"]
        /\ uid_session' = [uid_session EXCEPT ![v] = @ \cup {u}]
        /\ worker' = [worker EXCEPT ![v] = Idle]
        /\ uip' = uip
    BY <1>5 DEF LoginBind
  <2> HIDE DEF u
  <2>4. /\ conn'[u].server = v
        /\ \A w \in Users \ {u} : conn'[w] = conn[w]
        /\ u \in uid_session'[v]
        /\ \A x \in Servers : uid_session[x] \subseteq uid_session'[x]
    <3>1. conn'[u] = [conn[u] EXCEPT !.state = "on"] /\ conn[u] \in Connection
      BY <2>1, <2>3 DEF TypeInv
    <3>2. conn'[u].server = v
      BY <2>2, <3>1 DEF Connection
    <3> QED
      BY <2>3, <3>2 DEF TypeInv
  <2>5. /\ worker'[v].pc = "idle"
        /\ \A x \in Servers \ {v} : worker'[x] = worker[x]
    BY <2>3, IdleEffect
  <2>6. OnlineFits'
    BY <2>2, <2>3, <2>4 DEF SessionFits, OnlineFits, Online
  <2>7. ASSUME NEW x \in Servers, worker'[x].pc \in LoginPcs
        PROVE  /\ worker'[x] = worker[x]
               /\ conn'[worker'[x].uid] = conn[worker[x].uid]
    <3>1. x # v
      BY <2>5, <2>7
    <3>2. worker'[x] = worker[x] /\ worker[x].uid \in Users \ {u}
      BY <1>3, <2>2, <2>5, <2>7, <3>1
    <3> QED
      BY <2>4, <3>2
  <2>8. LoginFits'
    <3> SUFFICES ASSUME NEW x \in Servers, worker'[x].pc \in LoginPcs
                 PROVE  /\ conn'[worker'[x].uid].state = "login"
                        /\ conn'[worker'[x].uid].server = x
                        /\ worker'[x].pc = "bind" => uip'[worker'[x].uid] = x
      BY DEF LoginFits
    <3>1. /\ worker'[x] = worker[x]
          /\ conn'[worker'[x].uid] = conn[worker[x].uid]
      BY <2>7
    <3>2. uip' = uip
      BY <2>3
    <3> QED
      BY <3>1, <3>2 DEF SessionFits, LoginFits
  <2> QED
    BY <2>6, <2>8 DEF SessionFits
<1> QED
  BY <1>1, <1>2, <1>4, <1>5

\* The handlers touch no connection, key or binding.
LEMMA HandlerFrame ==
  ASSUME TypeInv, NEW v \in Servers,
         \/ \E u \in Users : BeginRequest(v, u)
         \/ InsertApply(v) \/ AcceptApply(v) \/ InsertFirst(v)
         \/ InsertSecond(v) \/ StatementFails(v)
         \/ Lookup(v) \/ LookupFails(v) \/ NotifyLocal(v)
         \/ CallReturns(v) \/ CallFails(v) \/ Reply(v)
  PROVE  /\ UNCHANGED <<conn, uid_session, uip>>
         /\ worker[v].pc \notin LoginPcs /\ worker'[v].pc \notin LoginPcs
         /\ \A x \in Servers \ {v} : worker'[x] = worker[x]
<1> USE DEF HandlerPcs, EarlyPcs, LatePcs, LoginPcs
<1>1. CASE \E u \in Users : BeginRequest(v, u)
  BY <1>1, BeginEffect DEF BeginRequest, FirstStep, bindings
<1>2. CASE Reply(v)
  <2>1. worker[v].pc = "reply" /\ worker' = [worker EXCEPT ![v] = Idle]
        /\ UNCHANGED <<conn, uid_session, uip>>
    BY <1>2 DEF Reply, bindings
  <2> QED
    BY <2>1, IdleEffect
<1>3. CASE \/ InsertApply(v) \/ AcceptApply(v) \/ InsertFirst(v)
           \/ InsertSecond(v) \/ StatementFails(v)
           \/ Lookup(v) \/ LookupFails(v) \/ NotifyLocal(v)
           \/ CallReturns(v) \/ CallFails(v)
  <2>1. UNCHANGED <<conn, uid_session, uip>>
    BY <1>3 DEF InsertApply, AcceptApply, InsertFirst, InsertSecond,
                StatementFails, Lookup, LookupFails, NotifyLocal, CallReturns,
                CallFails, Fails, clients, bindings
  <2>2. PICK here, next \in HandlerPcs : Goto(v, here, next)
    BY <1>3, HandlerMoves
  <2> QED
    BY <2>1, <2>2, GotoEffect
<1> QED
  BY <1>1, <1>2, <1>3

LEMMA FitsPreserved == TypeInv /\ SessionFits /\ [Next]_vars => SessionFits'
<1> SUFFICES ASSUME TypeInv, SessionFits, [Next]_vars PROVE SessionFits'
  OBVIOUS
<1>1. CASE UNCHANGED vars
  BY <1>1, FitsQuiet DEF vars
<1>2. ASSUME NEW v \in Servers, Serve(v) PROVE SessionFits'
  BY <1>2, FitsQuiet DEF Serve, bindings
<1>3. ASSUME NEW v \in Servers, Worker(v) PROVE SessionFits'
  <2>1. CASE \/ \E u \in Users : LoginApplyList(v, u)
             \/ LoginFriendList(v) \/ LoginSetIp(v) \/ LoginBind(v)
    BY <2>1, FitsLogin
  <2> QED
    BY <1>3, <2>1, HandlerFrame, FitsQuiet DEF Worker
<1> QED
  BY <1>1, <1>2, <1>3, FitsClient DEF Next

-----------------------------------------------------------------------------
(***************************************************************************)
(* Who is online knows what is in the database.  A fact whose recipient    *)
(* may have to be told is with a handler that has not yet looked the       *)
(* recipient up (or is to answer it), or on its way to the server of the   *)
(* recipient; and a login that has read its lists has it in them, or has   *)
(* such a handler to rely on.                                              *)
(***************************************************************************)
CarriedBy(v, f) ==
  \/ worker[v].pc \in EarlyPcs /\ f \in Notice(worker[v].req)
  \/ worker[v].pc \in HandlerPcs /\ f \in Answer(worker[v].req)

Safe(f) == f \in known \/ f \in missed \/ \E v \in Servers : CarriedBy(v, f)

HandedOver(v, f) ==
  worker[v].pc = "local" /\ v = conn[f.to].server /\ f \in Notice(worker[v].req)

InCall(c, f) ==
  c.state = "sent" /\ c.dest = conn[f.to].server /\ f \in Notice(c.req)

OnWay(f) ==
  (\E v \in Servers : HandedOver(v, f)) \/ \E c \in rpcs : InCall(c, f)

InformOnline == \A f \in Stored : Online(f.to) => Safe(f) \/ OnWay(f)

InformLogin ==
  \A v \in Servers : \A f \in Stored :
    /\ worker[v].pc \in LoginPcs /\ f.to = worker[v].uid
    /\ f.kind = "apply" \/ worker[v].pc # "friend_list"
    => f \in worker[v].list \/ Safe(f)

InformInv == InformOnline /\ InformLogin

\* A fact stays safe if the worker that moves still carries it, or has told
\* it, or the history says why not.
LEMMA SafeStays ==
  ASSUME NEW v \in Servers, \A x \in Servers \ {v} : worker'[x] = worker[x],
         NEW f, f \in known => f \in known', f \in missed => f \in missed',
         CarriedBy(v, f) => CarriedBy(v, f)' \/ f \in known' \/ f \in missed'
  PROVE  Safe(f) => Safe(f)'
<1>1. \A x \in Servers \ {v} : CarriedBy(x, f) => CarriedBy(x, f)'
  BY DEF CarriedBy
<1> QED
  BY <1>1 DEF Safe

\* A fact stays on its way, if it is not with what moves.
LEMMA OnWayStays ==
  ASSUME NEW v \in Servers, \A x \in Servers \ {v} : worker'[x] = worker[x],
         NEW f, conn'[f.to] = conn[f.to], ~HandedOver(v, f),
         \A c \in rpcs : InCall(c, f) => c \in rpcs'
  PROVE  OnWay(f) => OnWay(f)'
<1>1. \A x \in Servers \ {v} : HandedOver(x, f) => HandedOver(x, f)'
  BY DEF HandedOver
<1>2. \A c \in rpcs : InCall(c, f) => c \in rpcs' /\ InCall(c, f)'
  BY DEF InCall
<1> QED
  BY <1>1, <1>2 DEF OnWay

\* A step of a handler or a gRPC thread.
LEMMA InformHandler ==
  ASSUME TypeInv, InformInv, conn' = conn,
         \A x \in Servers :
           \/ worker'[x] = worker[x]
           \/ worker[x].pc \notin LoginPcs /\ worker'[x].pc \notin LoginPcs,
         \A f \in Stored' : f \in Stored \/ Safe(f)',
         \A f \in Stored : LoggingIn(f.to) /\ Safe(f) => Safe(f)',
         \A f \in Stored : Online(f.to) /\ (Safe(f) \/ OnWay(f)) =>
           Safe(f)' \/ OnWay(f)'
  PROVE  InformInv'
<1>1. InformOnline'
  <2> SUFFICES ASSUME NEW f \in Stored', Online(f.to)
               PROVE  Safe(f)' \/ OnWay(f)'
    BY DEF InformOnline, Online
  <2> QED
    BY DEF InformInv, InformOnline
<1>2. InformLogin'
  <2> SUFFICES ASSUME NEW v \in Servers, NEW f \in Stored',
                      worker'[v].pc \in LoginPcs, f.to = worker'[v].uid,
                      f.kind = "apply" \/ worker'[v].pc # "friend_list"
               PROVE  f \in worker'[v].list \/ Safe(f)'
    BY DEF InformLogin
  <2>1. worker'[v] = worker[v]
    OBVIOUS
  <2>2. LoggingIn(f.to)
    BY <2>1 DEF LoggingIn, LoginPcs
  <2> QED
    BY <2>1, <2>2 DEF InformInv, InformLogin
<1> QED
  BY <1>1, <1>2 DEF InformInv

\* The logins stay as they are when a handler moves.
LEMMA SameLogins ==
  ASSUME NEW v \in Servers, \A x \in Servers \ {v} : worker'[x] = worker[x],
         worker[v].pc \notin LoginPcs, worker'[v].pc \notin LoginPcs
  PROVE  \A x \in Servers :
           \/ worker'[x] = worker[x]
           \/ worker[x].pc \notin LoginPcs /\ worker'[x].pc \notin LoginPcs
<1> TAKE x \in Servers
<1>1. CASE x = v
  BY <1>1
<1>2. CASE x # v
  BY <1>2
<1> QED
  BY <1>1, <1>2

\* The statements: a row that is written is with the handler that wrote it.
LEMMA InformStatements ==
  ASSUME TypeInv, KindFits, InformInv, NEW v \in Servers,
         \/ InsertApply(v) \/ AcceptApply(v) \/ InsertFirst(v)
         \/ InsertSecond(v) \/ StatementFails(v)
  PROVE  InformInv'
<1> USE DEF HandlerPcs, EarlyPcs, LatePcs
<1>1. PICK here, next \in EarlyPcs : Goto(v, here, next)
  <2>1. CASE StatementFails(v)
    BY <2>1, StatementFailsEffect
  <2> QED
    BY <2>1 DEF InsertApply, AcceptApply, InsertFirst, InsertSecond
<1>2. PICK r \in Request :
        /\ worker[v].pc = here /\ worker'[v].pc = next
        /\ worker[v].req = r /\ worker'[v].req = r
        /\ \A x \in Servers \ {v} : worker'[x] = worker[x]
  BY <1>1, GotoEffect DEF HandlerState
<1>3. UNCHANGED <<conn, known, missed, rpcs>>
  BY DEF InsertApply, AcceptApply, InsertFirst, InsertSecond, StatementFails,
         clients, history
<1>4. \A f : f \in Notice(r) \cup Answer(r) => CarriedBy(v, f)'
  BY <1>2 DEF CarriedBy
<1>5. \A f : Safe(f) => Safe(f)'
  <2> TAKE f
  <2>1. CarriedBy(v, f) => CarriedBy(v, f)'
    BY <1>2, <1>4 DEF CarriedBy
  <2> QED
    BY <1>2, <1>3, <2>1, SafeStays
<1>6. \A f : OnWay(f) => OnWay(f)'
  <2> TAKE f
  <2>1. ~HandedOver(v, f)
    BY <1>2 DEF HandedOver
  <2> QED
    BY <1>2, <1>3, <2>1, OnWayStays
<1>7. ASSUME NEW f \in Stored', f \notin Stored
      PROVE  f \in Notice(r) \cup Answer(r)
  <2>1. CASE InsertApply(v)
    <3>1. friend_apply' = friend_apply \cup {Pair(v)} /\ friend' = friend
      BY <2>1 DEF InsertApply
    <3>2. r.kind = "add"
      BY <1>2, <2>1 DEF InsertApply, Goto, KindFits
    <3>3. Pair(v) = <<r.from, r.to>> /\ Notice(r) = {Applied(r.from, r.to)}
      BY <1>2, <3>2 DEF Pair, Notice
    <3>4. f = Applied(Pair(v)[1], Pair(v)[2])
      BY <1>7, <3>1 DEF Stored
    <3> QED
      BY <3>3, <3>4
  <2>2. CASE InsertFirst(v)
    <3>1. friend' = friend \cup {Pair(v)} /\ friend_apply' = friend_apply
      BY <2>2 DEF InsertFirst
    <3>2. r.kind = "auth"
      BY <1>2, <2>2 DEF InsertFirst, Goto, KindFits
    <3>3. Pair(v) = <<r.to, r.from>> /\ Notice(r) = {Befriended(r.to, r.from)}
      BY <1>2, <3>2 DEF Pair, Notice
    <3>4. f = Befriended(Pair(v)[1], Pair(v)[2])
      BY <1>7, <3>1 DEF Stored
    <3> QED
      BY <3>3, <3>4
  <2>3. CASE InsertSecond(v)
    <3>1. friend' = friend \cup {<<Pair(v)[2], Pair(v)[1]>>}
          /\ friend_apply' = friend_apply
      BY <2>3 DEF InsertSecond
    <3>2. r.kind = "auth"
      BY <1>2, <2>3 DEF InsertSecond, Goto, KindFits
    <3>3. Pair(v) = <<r.to, r.from>> /\ Answer(r) = {Befriended(r.from, r.to)}
      BY <1>2, <3>2 DEF Pair, Answer
    <3>4. f = Befriended(Pair(v)[2], Pair(v)[1])
      BY <1>7, <3>1 DEF Stored
    <3> QED
      BY <3>3, <3>4
  <2>4. CASE AcceptApply(v) \/ StatementFails(v)
    <3>1. UNCHANGED <<friend, friend_apply>>
      BY <2>4 DEF AcceptApply, StatementFails, tables
    <3> QED
      BY <1>7, <3>1 DEF Stored
  <2> QED
    BY <2>1, <2>2, <2>3, <2>4
<1>8. \A f \in Stored' : f \in Stored \/ Safe(f)'
  <2> SUFFICES ASSUME NEW f \in Stored', f \notin Stored PROVE Safe(f)'
    OBVIOUS
  <2>1. CarriedBy(v, f)'
    BY <1>4, <1>7
  <2> QED
    BY <2>1 DEF Safe
<1>9. \A x \in Servers :
        \/ worker'[x] = worker[x]
        \/ worker[x].pc \notin LoginPcs /\ worker'[x].pc \notin LoginPcs
  <2>1. worker[v].pc \notin LoginPcs /\ worker'[v].pc \notin LoginPcs
    BY <1>2 DEF LoginPcs
  <2> QED
    BY <1>2, <2>1, SameLogins
<1> QED
  BY <1>3, <1>5, <1>6, <1>8, <1>9, InformHandler

\* The other steps of the handlers.
LEMMA InformMoves ==
  ASSUME TypeInv, SessionFits, InformInv, NEW v \in Servers,
         \/ Lookup(v) \/ LookupFails(v) \/ NotifyLocal(v)
         \/ CallReturns(v) \/ CallFails(v)
  PROVE  InformInv'
<1> USE DEF HandlerPcs, EarlyPcs, LatePcs
<1>1. PICK here \in {"lookup", "local", "rpc"}, next \in LatePcs : Goto(v, here, next)
  <2>1. CASE Lookup(v)
    BY <2>1, LookupEffect
  <2> QED
    BY <2>1 DEF LookupFails, NotifyLocal, CallReturns, CallFails
<1>2. PICK r \in Request :
        /\ worker[v].pc = here /\ worker'[v].pc = next
        /\ worker[v].req = r /\ worker'[v].req = r
        /\ \A x \in Servers \ {v} : worker'[x] = worker[x]
  BY <1>1, GotoEffect DEF HandlerState
<1>3. /\ UNCHANGED <<conn, friend, friend_apply>>
      /\ known \subseteq known' /\ missed \subseteq missed'
  <2>1. CASE NotifyLocal(v)
    BY <2>1, DeliverEffect DEF NotifyLocal, tables
  <2> QED
    BY <2>1 DEF Lookup, LookupFails, CallReturns, CallFails, Fails, clients,
                tables, history
<1>4. Stored' = Stored
  BY <1>3 DEF Stored
<1>5. \A f : f \in Answer(r) => CarriedBy(v, f)'
  BY <1>2 DEF CarriedBy
<1>6. ASSUME NEW f, f \notin Notice(r) \/ f \in missed' \/ here # "lookup"
      PROVE  Safe(f) => Safe(f)'
  <2>1. CarriedBy(v, f) => CarriedBy(v, f)' \/ f \in missed'
    BY <1>2, <1>5, <1>6 DEF CarriedBy
  <2> QED
    BY <1>2, <1>3, <2>1, SafeStays
<1>7. ASSUME NEW f, here # "local" \/ f \notin Notice(r),
             \A c \in rpcs : InCall(c, f) => c \in rpcs'
      PROVE  OnWay(f) => OnWay(f)'
  <2>1. ~HandedOver(v, f)
    BY <1>2, <1>7 DEF HandedOver
  <2> QED
    BY <1>2, <1>3, <1>7, <2>1, OnWayStays
<1>8. \A x \in Servers :
        \/ worker'[x] = worker[x]
        \/ worker[x].pc \notin LoginPcs /\ worker'[x].pc \notin LoginPcs
  <2>1. worker[v].pc \notin LoginPcs /\ worker'[v].pc \notin LoginPcs
    BY <1>2 DEF LoginPcs
  <2> QED
    BY <1>2, <2>1, SameLogins
<1>9. \A f \in Notice(r) : f.to = r.to /\ r.to \in Users
  BY FactTypes DEF Request
<1>10. ASSUME Lookup(v) PROVE InformInv'
  <2>1. missed' = missed \cup MissedBy(r) /\ rpcs \subseteq rpcs' /\ here = "lookup"
    BY <1>2, <1>10 DEF Lookup
  <2>2. ASSUME NEW f \in Stored, LoggingIn(f.to) PROVE Safe(f) => Safe(f)'
    BY <1>6, <1>9, <2>1, <2>2 DEF MissedBy
  <2>3. ASSUME NEW f \in Stored, Online(f.to), Safe(f) \/ OnWay(f)
        PROVE  Safe(f)' \/ OnWay(f)'
    <3>1. CASE f \notin Notice(r)
      BY <1>6, <1>7, <2>1, <2>3, <3>1
    <3>2. CASE f \in Notice(r)
      <4>1. uip[r.to] = conn[f.to].server /\ uip[r.to] \in Servers
        BY <1>9, <2>3, <3>2 DEF SessionFits, OnlineFits
      <4>2. CASE uip[r.to] = v /\ Goto(v, "lookup", "local")
        <5>1. worker'[v].pc = "local"
          BY <4>2, GotoEffect
        <5>2. HandedOver(v, f)'
          BY <1>2, <1>3, <3>2, <4>1, <4>2, <5>1 DEF HandedOver
        <5> QED
          BY <5>2 DEF OnWay
      <4>3. CASE rpcs' = rpcs \cup {Call(v, r)} /\ Call(v, r).dest = uip[r.to]
                   /\ Call(v, r).req = r /\ Call(v, r).state = "sent"
        <5>1. PICK c \in rpcs' : c.dest = uip[r.to] /\ c.req = r /\ c.state = "sent"
          BY <4>3
        <5>2. InCall(c, f)'
          BY <1>3, <3>2, <4>1, <5>1 DEF InCall
        <5> QED
          BY <5>1, <5>2 DEF OnWay
      <4>4. uip[r.to] # NoServer
        BY <4>1, MessagingAssumption
      <4> QED
        BY <1>2, <1>10, <4>2, <4>3, <4>4, LookupEffect
    <3> QED
      BY <3>1, <3>2
  <2> QED
    BY <1>3, <1>4, <1>8, <2>2, <2>3, InformHandler
<1>11. ASSUME LookupFails(v) PROVE InformInv'
  <2>1. missed' = missed \cup Notice(r) /\ rpcs' = rpcs /\ here = "lookup"
    BY <1>2, <1>11 DEF LookupFails, Fails, Goto
  <2>2. \A f : (Safe(f) => Safe(f)') /\ (OnWay(f) => OnWay(f)')
    BY <1>6, <1>7, <2>1
  <2> QED
    BY <1>3, <1>4, <1>8, <2>2, InformHandler
<1>12. ASSUME NotifyLocal(v) PROVE InformInv'
  <2>1. Deliver(v, r) /\ rpcs' = rpcs /\ here = "local"
    BY <1>2, <1>12 DEF NotifyLocal, Goto
  <2>2. \A f : Safe(f) => Safe(f)'
    BY <1>6, <2>1
  <2>3. ASSUME NEW f \in Stored, Online(f.to), OnWay(f)
        PROVE  Safe(f)' \/ OnWay(f)'
    <3>1. CASE HandedOver(v, f)
      <4>1. v = conn[f.to].server /\ f \in Notice(r)
        BY <1>2, <3>1 DEF HandedOver
      <4>2. r.to \in uid_session[v]
        BY <1>9, <2>3, <4>1 DEF SessionFits, OnlineFits
      <4>3. f \in known' \/ f \in missed'
        BY <2>1, <4>1, <4>2, DeliverEffect
      <4> QED
        BY <4>3 DEF Safe
    <3>2. CASE ~HandedOver(v, f)
      BY <1>2, <1>3, <2>1, <2>3, <3>2, OnWayStays
    <3> QED
      BY <3>1, <3>2
  <2> QED
    BY <1>3, <1>4, <1>8, <2>2, <2>3, InformHandler
<1>13. ASSUME CallReturns(v) PROVE InformInv'
  <2>1. PICK c \in rpcs : c.state = "done" /\ rpcs' = rpcs \ {c}
    BY <1>13 DEF CallReturns
  <2>2. here = "rpc"
    BY <1>2, <1>13 DEF CallReturns, Goto
  <2>3. \A f : \A d \in rpcs : InCall(d, f) => d \in rpcs'
    BY <2>1 DEF InCall
  <2>4. \A f : (Safe(f) => Safe(f)') /\ (OnWay(f) => OnWay(f)')
    BY <1>6, <1>7, <2>2, <2>3
  <2> QED
    BY <1>3, <1>4, <1>8, <2>4, InformHandler
<1>14. ASSUME CallFails(v) PROVE InformInv'
  <2>1. /\ missed' = missed \cup Notice(r) /\ here = "rpc"
        /\ \A d \in rpcs : d \in rpcs' \/ d.req = r
    BY <1>2, <1>14 DEF CallFails, Fails, Goto, WaitsFor
  <2>2. \A f : Safe(f) => Safe(f)'
    BY <1>6, <2>1
  <2>3. ASSUME NEW f, OnWay(f) PROVE Safe(f)' \/ OnWay(f)'
    <3>1. CASE f \in Notice(r)
      BY <2>1, <3>1 DEF Safe
    <3>2. CASE f \notin Notice(r)
      <4>1. \A d \in rpcs : InCall(d, f) => d \in rpcs'
        BY <2>1, <3>2 DEF InCall
      <4> QED
        BY <1>7, <2>3, <3>2, <4>1
    <3> QED
      BY <3>1, <3>2
  <2> QED
    BY <1>3, <1>4, <1>8, <2>2, <2>3, InformHandler
<1> QED
  BY <1>10, <1>11, <1>12, <1>13, <1>14

\* The beginning and the end of a handler.
LEMMA InformEnds ==
  ASSUME TypeInv, InformInv, NEW v \in Servers,
         (\E u \in Users : BeginRequest(v, u)) \/ Reply(v)
  PROVE  InformInv'
<1> USE DEF HandlerPcs, EarlyPcs, LatePcs
<1>1. /\ worker[v].pc \notin LoginPcs /\ worker'[v].pc \notin LoginPcs
      /\ conn' = conn
      /\ \A x \in Servers \ {v} : worker'[x] = worker[x]
  BY HandlerFrame
<1>2. /\ worker[v].pc \in {"idle", "reply"} /\ rpcs' = rpcs
      /\ UNCHANGED <<friend, friend_apply>>
      /\ known \subseteq known' /\ missed \subseteq missed'
      /\ worker[v].pc = "reply" =>
           \A f \in Answer(worker[v].req) : f \in known' \/ f \in missed'
  <2>1. CASE \E u \in Users : BeginRequest(v, u)
    BY <2>1 DEF BeginRequest, tables
  <2>2. CASE Reply(v)
    BY <2>2, TellEffect DEF Reply, tables
  <2> QED
    BY <2>1, <2>2
<1>3. Stored' = Stored
  BY <1>2 DEF Stored
<1>4. \A f : Safe(f) => Safe(f)'
  <2> TAKE f
  <2>1. CarriedBy(v, f) => f \in known' \/ f \in missed'
    BY <1>2 DEF CarriedBy
  <2> QED
    BY <1>1, <1>2, <2>1, SafeStays
<1>5. \A f : OnWay(f) => OnWay(f)'
  <2> TAKE f
  <2>1. ~HandedOver(v, f)
    BY <1>2 DEF HandedOver
  <2> QED
    BY <1>1, <1>2, <2>1, OnWayStays
<1>6. \A x \in Servers :
        \/ worker'[x] = worker[x]
        \/ worker[x].pc \notin LoginPcs /\ worker'[x].pc \notin LoginPcs
  BY <1>1, SameLogins
<1> QED
  BY <1>1, <1>3, <1>4, <1>5, <1>6, InformHandler

\* A gRPC thread delivers what is in the call.
LEMMA InformServe ==
  ASSUME TypeInv, SessionFits, InformInv, NEW v \in Servers, Serve(v)
  PROVE  InformInv'
<1>1. PICK c \in rpcs : c.dest = v /\ Deliver(v, c.req) /\ CallServed(c)
  BY DEF Serve
<1>2. /\ UNCHANGED <<conn, worker, friend, friend_apply>>
      /\ known \subseteq known' /\ missed \subseteq missed'
  BY <1>1, DeliverEffect DEF Serve, tables
<1>3. Stored' = Stored
  BY <1>2 DEF Stored
<1>4. \A f : Safe(f) => Safe(f)'
  BY <1>2 DEF Safe, CarriedBy
<1>5. ASSUME NEW f \in Stored, Online(f.to), OnWay(f)
      PROVE  Safe(f)' \/ OnWay(f)'
  <2>1. CASE InCall(c, f)
    <3>1. v = conn[f.to].server /\ f \in Notice(c.req) /\ f.to \in Users
      BY <1>1, <2>1, FactTypes DEF InCall, Fact
    <3>2. f.to = c.req.to
      BY <3>1, FactTypes DEF TypeInv, CallState
    <3>3. c.req.to \in uid_session[v]
      BY <1>5, <3>1, <3>2 DEF SessionFits, OnlineFits
    <3>4. f \in known' \/ f \in missed'
      BY <1>1, <3>1, <3>3, DeliverEffect
    <3> QED
      BY <3>4 DEF Safe
  <2>2. CASE ~InCall(c, f)
    <3>1. \A d \in rpcs : InCall(d, f) => d \in rpcs'
      BY <1>1, <2>2, ServedEffect DEF InCall
    <3>2. \A d \in rpcs : InCall(d, f) => d \in rpcs' /\ InCall(d, f)'
      BY <1>2, <3>1 DEF InCall
    <3>3. \A x \in Servers : HandedOver(x, f) => HandedOver(x, f)'
      BY <1>2 DEF HandedOver
    <3> QED
      BY <1>5, <3>2, <3>3 DEF OnWay
  <2> QED
    BY <2>1, <2>2
<1>6. \A f \in Stored : Online(f.to) /\ (Safe(f) \/ OnWay(f)) =>
        Safe(f)' \/ OnWay(f)'
  BY <1>4, <1>5
<1>7. /\ conn' = conn
      /\ \A x \in Servers : worker'[x] = worker[x]
      /\ \A f \in Stored' : f \in Stored
  BY <1>2, <1>3
<1> QED
  BY <1>4, <1>6, <1>7, InformHandler

\* What a login or a client does to the facts of others: nothing.
LEMMA LoginKeeps ==
  ASSUME NEW v \in Servers, \A x \in Servers \ {v} : worker'[x] = worker[x],
         worker[v].pc \notin HandlerPcs, rpcs' = rpcs,
         NEW f, f \in known => f \in known', f \in missed => f \in missed'
  PROVE  /\ Safe(f) => Safe(f)'
         /\ conn'[f.to] = conn[f.to] => (OnWay(f) => OnWay(f)')
<1> USE DEF HandlerPcs, EarlyPcs, LatePcs
<1>1. ~CarriedBy(v, f) /\ ~HandedOver(v, f)
  BY DEF CarriedBy, HandedOver
<1> QED
  BY <1>1, SafeStays, OnWayStays

LEMMA InformClient ==
  ASSUME TypeInv, SessionFits, InformInv, NEW u \in Users, Client(u)
  PROVE  InformInv'
<1>1. /\ UNCHANGED <<worker, rpcs, friend, friend_apply, missed>>
      /\ conn'[u].state # "on"
      /\ \A w \in Users \ {u} : conn'[w] = conn[w]
      /\ \A f \in known : f.to # u => f \in known'
      /\ \/ known' = known
         \/ conn[u].state = "on"
  <2>1. ASSUME NEW v \in Servers, SendLogin(u, v)
        PROVE  /\ conn'[u].state = "login" /\ known' = known
               /\ \A w \in Users \ {u} : conn'[w] = conn[w]
               /\ UNCHANGED <<worker, rpcs, friend, friend_apply, missed>>
    BY <2>1 DEF SendLogin, TypeInv, tables, history
  <2>2. ASSUME Disconnect(u)
        PROVE  /\ conn'[u].state = "off" /\ conn[u].state = "on"
               /\ \A w \in Users \ {u} : conn'[w] = conn[w]
               /\ \A f \in known : f.to # u => f \in known'
               /\ UNCHANGED <<worker, rpcs, friend, friend_apply, missed>>
    <3>1. conn'[u] = [conn[u] EXCEPT !.state = "off"] /\ conn[u] \in Connection
      BY <2>2 DEF Disconnect, Leave, TypeInv
    <3>2. conn'[u].state = "off"
      BY <3>1 DEF Connection
    <3> QED
      BY <2>2, <3>2 DEF Disconnect, Leave, Online, TypeInv, tables
  <2> QED
    BY <2>1, <2>2 DEF Client
<1>2. Stored' = Stored /\ \A f \in Stored : f.to \in Users
  BY <1>1, FactTypes DEF Stored, Fact
<1>3. \A f : f.to # u \/ known' = known => (Safe(f) => Safe(f)')
  BY <1>1 DEF Safe, CarriedBy
<1>4. ASSUME NEW f, f.to \in Users \ {u} PROVE OnWay(f) => OnWay(f)'
  <2>1. conn'[f.to] = conn[f.to]
    BY <1>1, <1>4
  <2>2. \A v \in Servers : HandedOver(v, f) => HandedOver(v, f)'
    BY <1>1, <2>1 DEF HandedOver
  <2>3. \A c \in rpcs : InCall(c, f) => InCall(c, f)'
    BY <2>1 DEF InCall
  <2> QED
    BY <1>1, <2>2, <2>3 DEF OnWay
<1>5. InformOnline'
  <2> SUFFICES ASSUME NEW f \in Stored, conn'[f.to].state = "on"
               PROVE  Safe(f)' \/ OnWay(f)'
    BY <1>2 DEF InformOnline, Online
  <2>1. f.to \in Users \ {u} /\ Online(f.to)
    BY <1>1, <1>2 DEF Online
  <2> QED
    BY <1>3, <1>4, <2>1 DEF InformInv, InformOnline
<1>6. InformLogin'
  <2> SUFFICES ASSUME NEW v \in Servers, NEW f \in Stored,
                      worker[v].pc \in LoginPcs, f.to = worker[v].uid,
                      f.kind = "apply" \/ worker[v].pc # "friend_list"
               PROVE  f \in worker[v].list \/ Safe(f)'
    BY <1>1, <1>2 DEF InformLogin
  <2>1. conn[f.to].state = "login"
    BY DEF SessionFits, LoginFits
  <2>2. f.to # u \/ known' = known
    BY <1>1, <2>1
  <2> QED
    BY <1>3, <2>2 DEF InformInv, InformLogin
<1> QED
  BY <1>5, <1>6 DEF InformInv

\* Two workers do not handle logins of the same user.
LEMMA OneLogin ==
  ASSUME TypeInv, SessionFits, NEW x \in Servers, worker[x].pc \in LoginPcs
  PROVE  /\ worker[x].uid \in Users /\ ~Online(worker[x].uid)
         /\ conn[worker[x].uid].state = "login"
         /\ conn[worker[x].uid].server = x
BY WorkerShape DEF LoginState, SessionFits, LoginFits, Online

\* The reading of a list: what is in the database is in the list, or missed.
\* Only facts for the user who logs in cease to be missed.
LEMMA InformRead ==
  ASSUME TypeInv, SessionFits, InformInv, NEW v \in Servers, NEW u \in Users,
         NEW kind, NEW rows, ReadList(kind, u, rows),
         conn[u].state = "login", conn[u].server = v,
         UNCHANGED <<conn, known, rpcs, friend, friend_apply>>,
         worker[v].pc \notin HandlerPcs, worker'[v].uid = u,
         \A x \in Servers \ {v} : worker'[x] = worker[x],
         rows \subseteq worker'[v].list,
         \A f \in Stored :
           /\ f.to = u /\ f.kind # kind
           /\ f.kind = "apply" \/ worker'[v].pc # "friend_list"
           => f \in worker'[v].list \/ Safe(f)
  PROVE  InformInv'
<1>1. Stored' = Stored /\ \A f \in Stored : f.to \in Users
  BY FactTypes DEF Stored, Fact
<1>2. \A f : f \in missed => f \in missed' \/ (f.kind = kind /\ f.to = u)
  BY DEF ReadList
<1>3. \A f \in Stored : f.kind = kind /\ f.to = u => f \in rows \/ f \in missed'
  BY DEF ReadList, ListOf
<1>4. ASSUME NEW f, f.to # u \/ f.kind # kind
      PROVE  (Safe(f) => Safe(f)') /\ (OnWay(f) => OnWay(f)')
  BY <1>2, <1>4, LoginKeeps
<1>5. InformOnline'
  <2> SUFFICES ASSUME NEW f \in Stored, Online(f.to)
               PROVE  Safe(f)' \/ OnWay(f)'
    BY <1>1 DEF InformOnline, Online
  <2>1. f.to # u
    BY DEF Online
  <2> QED
    BY <1>4, <2>1 DEF InformInv, InformOnline
<1>6. InformLogin'
  <2> SUFFICES ASSUME NEW x \in Servers, NEW f \in Stored,
                      worker'[x].pc \in LoginPcs, f.to = worker'[x].uid,
                      f.kind = "apply" \/ worker'[x].pc # "friend_list"
               PROVE  f \in worker'[x].list \/ Safe(f)'
    BY <1>1 DEF InformLogin
  <2>1. CASE x = v /\ f.kind = kind
    <3>1. f \in rows \/ f \in missed'
      BY <1>3, <2>1
    <3> QED
      BY <2>1, <3>1 DEF Safe
  <2>2. CASE x = v /\ f.kind # kind
    BY <1>4, <2>2
  <2>3. CASE x # v
    <3>1. worker'[x] = worker[x]
      BY <2>3
    <3>2. f.to # u
      BY <2>3, <3>1, OneLogin
    <3> QED
      BY <1>4, <3>1, <3>2 DEF InformInv, InformLogin
  <2> QED
    BY <2>1, <2>2, <2>3
<1> QED
  BY <1>5, <1>6 DEF InformInv

LEMMA InformLists ==
  ASSUME TypeInv, SessionFits, InformInv, NEW v \in Servers,
         (\E u \in Users : LoginApplyList(v, u)) \/ LoginFriendList(v)
  PROVE  InformInv'
<1>1. ASSUME NEW u \in Users, LoginApplyList(v, u) PROVE InformInv'
  <2>1. PICK rows \in {ListOf("apply", u), {}} :
          /\ ReadList("apply", u, rows)
          /\ worker' = [worker EXCEPT ![v] =
                          [pc |-> "friend_list", uid |-> u, list |-> rows]]
    BY <1>1 DEF LoginApplyList
  <2>2. rows \in SUBSET Fact
    BY Lists
  <2>3. /\ worker'[v].pc = "friend_list" /\ worker'[v].uid = u
        /\ worker'[v].list = rows
        /\ \A x \in Servers \ {v} : worker'[x] = worker[x]
    BY <2>1, <2>2, ApplyListEffect
  <2>4. /\ conn[u].state = "login" /\ conn[u].server = v
        /\ UNCHANGED <<conn, known, rpcs, friend, friend_apply>>
        /\ worker[v].pc = "idle"
    BY <1>1 DEF LoginApplyList, clients, tables
  <2>5. worker[v].pc \notin HandlerPcs /\ rows \subseteq worker'[v].list
    BY <2>3, <2>4 DEF HandlerPcs, EarlyPcs, LatePcs
  <2> QED
    BY <2>1, <2>3, <2>4, <2>5, InformRead
<1>2. ASSUME LoginFriendList(v) PROVE InformInv'
  <2>1. worker[v].pc = "friend_list"
    BY <1>2 DEF LoginFriendList
  <2>2. PICK u \in Users :
          /\ u = worker[v].uid
          /\ conn[u].state = "login" /\ conn[u].server = v
    BY <2>1, OneLogin DEF LoginPcs
  <2>3. PICK rows \in {ListOf("friend", u), {}} :
          /\ ReadList("friend", u, rows)
          /\ worker' = [worker EXCEPT ![v].pc = "set_ip", ![v].list = @ \cup rows]
    BY <1>2, <2>2 DEF LoginFriendList
  <2>4. rows \in SUBSET Fact
    BY Lists
  <2>5. /\ worker'[v].pc = "set_ip" /\ worker'[v].uid = u
        /\ worker'[v].list = worker[v].list \cup rows
        /\ \A x \in Servers \ {v} : worker'[x] = worker[x]
    BY <2>1, <2>2, <2>3, <2>4, FriendListEffect
  <2>6. UNCHANGED <<conn, known, rpcs, friend, friend_apply>>
    BY <1>2 DEF LoginFriendList, clients, tables
  <2>7. \A f \in Stored : f.to = u /\ f.kind # "friend"
          => f \in worker'[v].list \/ Safe(f)
    <3> TAKE f \in Stored
    <3>1. f.kind \in {"apply", "friend"}
      BY FactTypes DEF Fact
    <3> QED
      BY <2>1, <2>2, <2>5, <3>1 DEF InformInv, InformLogin, LoginPcs
  <2>8. worker[v].pc \notin HandlerPcs /\ rows \subseteq worker'[v].list
    BY <2>1, <2>5 DEF HandlerPcs, EarlyPcs, LatePcs
  <2>9. ReadList("friend", u, rows)
    BY <2>3
  <2> QED
    BY <2>2, <2>5, <2>6, <2>7, <2>8, <2>9, InformRead
<1> QED
  BY <1>1, <1>2

LEMMA InformBind ==
  ASSUME TypeInv, SessionFits, InformInv, NEW v \in Servers,
         LoginSetIp(v) \/ LoginBind(v)
  PROVE  InformInv'
<1> USE DEF HandlerPcs, EarlyPcs, LatePcs, LoginPcs
<1> DEFINE u == worker[v].uid
<1>1. CASE LoginSetIp(v)
  <2>1. /\ worker[v].pc = "set_ip"
        /\ UNCHANGED <<conn, known, missed, rpcs, friend, friend_apply>>
    BY <1>1 DEF LoginSetIp, clients, tables, history
  <2>2. /\ worker'[v].pc = "bind" /\ worker'[v].uid = worker[v].uid
        /\ worker'[v].list = worker[v].list
        /\ \A x \in Servers \ {v} : worker'[x] = worker[x]
    BY <1>1, SetIpEffect
  <2>3. \A f : (Safe(f) => Safe(f)') /\ (OnWay(f) => OnWay(f)')
    BY <2>1, <2>2, LoginKeeps
  <2>4. Stored' = Stored
    BY <2>1 DEF Stored
  <2>5. InformOnline'
    BY <2>1, <2>3, <2>4 DEF InformInv, InformOnline, Online
  <2>6. InformLogin'
    <3> SUFFICES ASSUME NEW x \in Servers, NEW f \in Stored,
                        worker'[x].pc \in LoginPcs, f.to = worker'[x].uid,
                        f.kind = "apply" \/ worker'[x].pc # "friend_list"
                 PROVE  f \in worker'[x].list \/ Safe(f)'
      BY <2>4 DEF InformLogin
    <3>1. /\ worker'[x].uid = worker[x].uid /\ worker'[x].list = worker[x].list
          /\ worker[x].pc \in LoginPcs
          /\ f.kind = "apply" \/ worker[x].pc # "friend_list"
      BY <2>1, <2>2
    <3> QED
      BY <2>3, <3>1 DEF InformInv, InformLogin
  <2> QED
    BY <2>5, <2>6 DEF InformInv
<1>2. CASE LoginBind(v)
  <2>1. /\ worker[v].pc = "bind" /\ known' = known \cup worker[v].list
        /\ conn' = [conn EXCEPT ![u].state = "on"]
        /\ worker' = [worker EXCEPT ![v] = Idle]
        /\ UNCHANGED <<missed, rpcs, friend, friend_apply>>
    BY <1>2 DEF LoginBind, tables, history
  <2>2. u \in Users /\ ~Online(u)
    BY <2>1, OneLogin
  <2>3. /\ worker'[v].pc = "idle"
        /\ \A x \in Servers \ {v} : worker'[x] = worker[x]
    BY <2>1, IdleEffect
  <2>4. \A f : /\ Safe(f) => Safe(f)'
               /\ conn'[f.to] = conn[f.to] => (OnWay(f) => OnWay(f)')
    BY <2>1, <2>3, LoginKeeps
  <2>5. Stored' = Stored /\ \A f \in Stored : f.to \in Users
    BY <2>1, FactTypes DEF Stored, Fact
  <2>6. ASSUME NEW f \in Stored, f.to = u PROVE Safe(f)'
    <3>1. f \in worker[v].list \/ Safe(f)
      BY <2>1, <2>6 DEF InformInv, InformLogin
    <3>2. CASE f \in worker[v].list
      BY <2>1, <3>2 DEF Safe
    <3> QED
      BY <2>4, <3>1, <3>2
  <2> HIDE DEF u
  <2>7. InformOnline'
    <3> SUFFICES ASSUME NEW f \in Stored, conn'[f.to].state = "on"
                 PROVE  Safe(f)' \/ OnWay(f)'
      BY <2>5 DEF InformOnline, Online
    <3>1. CASE f.to = u
      BY <2>6, <3>1
    <3>2. CASE f.to # u
      <4>1. conn'[f.to] = conn[f.to]
        BY <2>1, <2>5, <3>2 DEF TypeInv
      <4> QED
        BY <2>4, <4>1 DEF InformInv, InformOnline, Online
    <3> QED
      BY <3>1, <3>2
  <2>8. InformLogin'
    <3> SUFFICES ASSUME NEW x \in Servers, NEW f \in Stored,
                        worker'[x].pc \in LoginPcs, f.to = worker'[x].uid,
                        f.kind = "apply" \/ worker'[x].pc # "friend_list"
                 PROVE  f \in worker'[x].list \/ Safe(f)'
      BY <2>5 DEF InformLogin
    <3>1. worker'[x] = worker[x]
      BY <2>3
    <3> QED
      BY <2>4, <3>1 DEF InformInv, InformLogin
  <2> QED
    BY <2>7, <2>8 DEF InformInv
<1> QED
  BY <1>1, <1>2

\* Nobody who is logged in stays ignorant of what the database says, but for
\* the reasons in missed: a login whose lists were read before and its binding
\* after the lookup, a failed lookup, call or list, a profile that could not
\* be read, a disconnect during the handling of an own acceptance.
THEOREM OnlineAreInformed == Spec => []InformedOrMissed
<1>1. Init => KindFits /\ SessionFits /\ InformInv
  BY DEF Init, Idle, Off, Online, KindFits, SessionFits, LoginFits, OnlineFits,
         InformInv, InformOnline, InformLogin, Stored, LoginPcs
<1>2. TypeInv /\ KindFits /\ SessionFits /\ InformInv /\ [Next]_vars => InformInv'
  <2> SUFFICES ASSUME TypeInv, KindFits, SessionFits, InformInv, [Next]_vars
               PROVE  InformInv'
    OBVIOUS
  <2>1. CASE UNCHANGED vars
    BY <2>1 DEF vars, InformInv, InformOnline, InformLogin, Stored, Online, Safe,
                OnWay, CarriedBy, HandedOver, InCall
  <2>2. ASSUME NEW v \in Servers, Worker(v) PROVE InformInv'
    BY <2>2, InformStatements, InformMoves, InformEnds, InformLists, InformBind
       DEF Worker
  <2> QED
    BY <2>1, <2>2, InformClient, InformServe DEF Next
<1>3. TypeInv /\ InformInv => InformedOrMissed
  <2> SUFFICES ASSUME TypeInv, InformInv, NEW f \in Stored, Online(f.to)
               PROVE  f \in known \/ f \in missed \/ Pending(f)
    BY DEF InformedOrMissed
  <2>1. ASSUME NEW v \in Servers, CarriedBy(v, f) \/ HandedOver(v, f)
        PROVE  Pending(f)
    <3>1. Busy(v) /\ f \in Notice(worker[v].req) \cup Answer(worker[v].req)
      BY <2>1, WorkerShape
         DEF CarriedBy, HandedOver, HandlerPcs, EarlyPcs, LatePcs
    <3> QED
      BY <3>1 DEF Pending
  <2>2. ASSUME NEW c \in rpcs, InCall(c, f) PROVE Pending(f)
    BY <2>2 DEF InCall, Pending
  <2> QED
    BY <2>1, <2>2 DEF InformInv, InformOnline, Safe, OnWay
<1> QED
  BY <1>1, <1>2, <1>3, KindsPreserved, FitsPreserved, TypesInvariant, PTL DEF Spec


-----------------------------------------------------------------------------
(***************************************************************************)
(* Texts arrive in order.  A request is with one handler, from its start   *)
(* to its answer, and in one call at most.  A call that is still to be     *)
(* served is waited for, or failed.  So at most one text of a connection   *)
(* is on its way, and it is newer than those that have arrived.            *)
(***************************************************************************)
ReceivedFits == received \in [Users -> Seq(Request)] /\ steady \subseteq Servers

\* Requests are numbered as they are made.
Numbered ==
  /\ \A v \in Servers :
       Busy(v) => worker[v].req.no <= requests[worker[v].req.from]
  /\ \A c \in rpcs : c.req.no <= requests[c.req.from]
  /\ \A u \in Users : \A i \in 1 .. Len(received[u]) :
       received[u][i].no <= requests[received[u][i].from]

\* A request comes from the user's present connection, or an earlier one.
OwnConnection ==
  \A v \in Servers : Busy(v) =>
    LET r == worker[v].req IN
    /\ r.conn <= conn[r.from].n
    /\ r.conn = conn[r.from].n => conn[r.from].server = v

\* Two workers never handle requests of the same connection.
OneHandler ==
  \A v, x \in Servers :
    /\ Busy(v) /\ Busy(x)
    /\ worker[v].req.from = worker[x].req.from
    /\ worker[v].req.conn = worker[x].req.conn
    => v = x

BeforeCall == EarlyPcs \cup {"local"}

\* A request is in one call at most, and in none before its lookup.
OneCall ==
  /\ \A v \in Servers :
       worker[v].pc \in BeforeCall => \A c \in rpcs : c.req # worker[v].req
  /\ \A c, d \in rpcs : c.req = d.req => c = d

Awaited ==
  \A c \in rpcs :
    c.state = "sent" => WaitsFor(c.src, c) \/ <<c.req.from, c.req.to>> \in failed

\* What the recipient has from the connection of r is older than r.
Later(r) ==
  \/ \A i \in 1 .. Len(received[r.to]) :
       LET a == received[r.to][i] IN
       a.from = r.from /\ a.conn = r.conn => a.no < r.no
  \/ <<r.from, r.to>> \in failed

ToCome ==
  /\ \A v \in Servers : worker[v].pc \in BeforeCall => Later(worker[v].req)
  /\ \A c \in rpcs : c.state = "sent" => Later(c.req)

HandlersApart == Numbered /\ OwnConnection /\ OneHandler

OrderInv ==
  ReceivedFits /\ HandlersApart /\ OneCall /\ Awaited /\ ToCome /\ TextsInOrder

-----------------------------------------------------------------------------
(***************************************************************************)
(* What the steps do to requests, calls and texts received.                *)
(***************************************************************************)
\* No connection returns to an earlier number, or changes its server.
ConnectionsGrow ==
  \A u \in Users :
    /\ conn[u].n <= conn'[u].n
    /\ conn'[u].n = conn[u].n => conn'[u].server = conn[u].server

ClientStep ==
  /\ UNCHANGED <<worker, rpcs, received, requests, failed>>
  /\ ConnectionsGrow

LoginStep(v) ==
  /\ ~Busy(v) /\ worker'[v].pc \in {"idle"} \cup LoginPcs
  /\ \A x \in Servers \ {v} : worker'[x] = worker[x]
  /\ UNCHANGED <<rpcs, received, requests, failed>>
  /\ ConnectionsGrow

\* The worker of v moves on, or is done; the others do nothing.
WorkerMoves(v, here, next) ==
  /\ worker[v].pc = here /\ worker[v] \in HandlerState
  /\ worker'[v].pc = next
  /\ next # "idle" => worker'[v].req = worker[v].req
  /\ \A x \in Servers \ {v} : worker'[x] = worker[x]
  /\ UNCHANGED <<conn, requests>>

\* A step before the call, or without one.
PlainStep(v) ==
  /\ \E here \in EarlyPcs, next \in BeforeCall \cup {"reply"} :
       WorkerMoves(v, here, next)
  /\ UNCHANGED <<rpcs, received>> /\ failed \subseteq failed'

CallStep(v) ==
  /\ WorkerMoves(v, "lookup", "rpc")
  /\ rpcs' = rpcs \cup {Call(v, worker[v].req)}
  /\ UNCHANGED <<received, failed>>

\* The recipient of r gets it, or nobody does.
Receives(r) ==
  received' = received \/ received' = [received EXCEPT ![r.to] = Append(@, r)]

LocalStep(v) ==
  /\ WorkerMoves(v, "local", "reply")
  /\ Receives(worker[v].req)
  /\ UNCHANGED <<rpcs, failed>>

\* A call that stays, nobody waits for any more.
EndStep(v) ==
  /\ WorkerMoves(v, "rpc", "reply")
  /\ rpcs' \subseteq rpcs /\ UNCHANGED received /\ failed \subseteq failed'
  /\ LET r == worker[v].req IN
     \A c \in rpcs' : c.req = r => <<r.from, r.to>> \in failed'

ReplyStep(v) ==
  /\ WorkerMoves(v, "reply", "idle")
  /\ UNCHANGED <<rpcs, received, failed>>
  /\ steady' = steady \ {v}

ServeStep(c) ==
  /\ c.state = "sent"
  /\ Receives(c.req)
  /\ rpcs' \subseteq (rpcs \ {c}) \cup {[c EXCEPT !.state = "done"]}
  /\ UNCHANGED <<conn, worker, requests, failed>>

OrderStep ==
  \/ ClientStep
  \/ \E v \in Servers :
       \/ LoginStep(v) \/ (\E u \in Users : BeginRequest(v, u))
       \/ PlainStep(v) \/ CallStep(v) \/ LocalStep(v) \/ EndStep(v) \/ ReplyStep(v)
  \/ \E c \in rpcs : ServeStep(c)

\* A step that leaves the number and the server of every connection alone.
LEMMA SameConnections ==
  ASSUME TypeInv, NEW u \in Users,
         \A w \in Users \ {u} : conn'[w] = conn[w],
         conn'[u].n = conn[u].n, conn'[u].server = conn[u].server
  PROVE  ConnectionsGrow
<1>1. \A w \in Users : conn[w].n \in Nat
  BY DEF TypeInv, Connection
<1>2. \A w \in Users : conn'[w].n = conn[w].n /\ conn'[w].server = conn[w].server
  OBVIOUS
<1> QED
  BY <1>1, <1>2 DEF ConnectionsGrow

LEMMA ClientSteps ==
  ASSUME TypeInv, NEW u \in Users, Client(u)
  PROVE  ClientStep
<1>1. ASSUME NEW v \in Servers, SendLogin(u, v) PROVE ClientStep
  <2>1. conn' = [conn EXCEPT ![u] =
                   [server |-> v, n |-> conn[u].n + 1, state |-> "login"]]
    BY <1>1 DEF SendLogin, TypeInv
  <2>2. conn'[u].n = conn[u].n + 1 /\ conn[u].n \in Nat
        /\ \A w \in Users \ {u} : conn'[w] = conn[w] /\ conn[w].n \in Nat
    BY <2>1 DEF TypeInv, Connection
  <2>3. ConnectionsGrow
    BY <2>2 DEF ConnectionsGrow
  <2> QED
    BY <1>1, <2>3 DEF SendLogin, ClientStep, history
<1>2. CASE Disconnect(u)
  <2>1. conn' = [conn EXCEPT ![u].state = "off"]
    BY <1>2 DEF Disconnect, Leave
  <2>2. conn'[u] = [conn[u] EXCEPT !.state = "off"] /\ conn[u] \in Connection
    BY <2>1 DEF TypeInv
  <2>3. conn'[u].n = conn[u].n /\ conn'[u].server = conn[u].server
    BY <2>2 DEF Connection
  <2>4. ConnectionsGrow
    BY <2>1, <2>3, SameConnections DEF TypeInv
  <2> QED
    BY <1>2, <2>4 DEF Disconnect, Leave, ClientStep
<1> QED
  BY <1>1, <1>2 DEF Client

LEMMA LoginSteps ==
  ASSUME TypeInv, NEW v \in Servers,
         \/ \E u \in Users : LoginApplyList(v, u)
         \/ LoginFriendList(v) \/ LoginSetIp(v) \/ LoginBind(v)
  PROVE  LoginStep(v) /\ steady' = steady
<1>1. /\ worker'[v].pc \in {"idle"} \cup LoginPcs
      /\ \A x \in Servers \ {v} : worker'[x] = worker[x]
  BY LoginMoves
<1>2. ~Busy(v)
  BY DEF LoginApplyList, LoginFriendList, LoginSetIp, LoginBind, Busy
<1>3. UNCHANGED <<rpcs, received, requests, failed, steady>>
  BY DEF LoginApplyList, LoginFriendList, LoginSetIp, LoginBind, clients, history
<1>4. ConnectionsGrow
  <2>1. CASE conn' = conn
    BY <2>1 DEF ConnectionsGrow, TypeInv, Connection
  <2>2. CASE LoginBind(v)
    <3>1. PICK u \in Users : conn' = [conn EXCEPT ![u].state = "on"]
      BY <2>2, WorkerShape DEF LoginBind, LoginPcs, LoginState
    <3>2. conn'[u] = [conn[u] EXCEPT !.state = "on"] /\ conn[u] \in Connection
      BY <3>1 DEF TypeInv
    <3>3. conn'[u].n = conn[u].n /\ conn'[u].server = conn[u].server
      BY <3>2 DEF Connection
    <3> QED
      BY <3>1, <3>3, SameConnections DEF TypeInv
  <2>3. conn' = conn \/ LoginBind(v)
    BY DEF LoginApplyList, LoginFriendList, LoginSetIp, clients
  <2> QED
    BY <2>1, <2>2, <2>3
<1> QED
  BY <1>1, <1>2, <1>3, <1>4 DEF LoginStep

\* A step of a handler, by its point of departure.
LEMMA GotoMoves ==
  ASSUME TypeInv, NEW v \in Servers, NEW here \in HandlerPcs,
         NEW next \in HandlerPcs, Goto(v, here, next),
         UNCHANGED <<conn, requests>>
  PROVE  WorkerMoves(v, here, next)
BY GotoEffect DEF WorkerMoves

LEMMA HandlerSteps ==
  ASSUME TypeInv, OneCall, NEW v \in Servers,
         \/ InsertApply(v) \/ AcceptApply(v) \/ InsertFirst(v)
         \/ InsertSecond(v) \/ StatementFails(v)
         \/ Lookup(v) \/ LookupFails(v) \/ NotifyLocal(v)
         \/ CallReturns(v) \/ CallFails(v) \/ Reply(v)
  PROVE  PlainStep(v) \/ CallStep(v) \/ LocalStep(v) \/ EndStep(v) \/ ReplyStep(v)
<1> USE DEF HandlerPcs, EarlyPcs, LatePcs, BeforeCall
<1>0. UNCHANGED <<conn, requests>>
  BY DEF InsertApply, AcceptApply, InsertFirst, InsertSecond, StatementFails,
         Lookup, LookupFails, NotifyLocal, CallReturns, CallFails, Fails, Reply,
         clients
<1>1. CASE InsertApply(v) \/ AcceptApply(v) \/ InsertFirst(v)
           \/ InsertSecond(v) \/ StatementFails(v)
  <2>1. \E here \in EarlyPcs, next \in EarlyPcs : Goto(v, here, next)
    BY <1>1 DEF InsertApply, AcceptApply, InsertFirst, InsertSecond, StatementFails
  <2>2. UNCHANGED <<rpcs, received, failed>>
    BY <1>1 DEF InsertApply, AcceptApply, InsertFirst, InsertSecond,
                StatementFails, clients, history
  <2>3. \E here \in EarlyPcs, next \in EarlyPcs : WorkerMoves(v, here, next)
    BY <1>0, <2>1, GotoMoves
  <2> QED
    BY <2>2, <2>3 DEF PlainStep
<1>2. CASE Lookup(v)
  <2>1. UNCHANGED <<received, failed>>
    BY <1>2 DEF Lookup, clients
  <2>2. \/ Goto(v, "lookup", "reply") /\ rpcs' = rpcs
        \/ Goto(v, "lookup", "local") /\ rpcs' = rpcs
        \/ Goto(v, "lookup", "rpc") /\ rpcs' = rpcs \cup {Call(v, worker[v].req)}
    BY <1>2 DEF Lookup
  <2>3. \/ WorkerMoves(v, "lookup", "reply") /\ rpcs' = rpcs
        \/ WorkerMoves(v, "lookup", "local") /\ rpcs' = rpcs
        \/ WorkerMoves(v, "lookup", "rpc")
           /\ rpcs' = rpcs \cup {Call(v, worker[v].req)}
    BY <1>0, <2>2, GotoMoves
  <2> QED
    BY <2>1, <2>3 DEF PlainStep, CallStep
<1>3. CASE LookupFails(v)
  <2>1. WorkerMoves(v, "lookup", "reply")
    BY <1>0, <1>3, GotoMoves DEF LookupFails
  <2>2. UNCHANGED <<rpcs, received>> /\ failed \subseteq failed'
    BY <1>3 DEF LookupFails, Fails, clients
  <2> QED
    BY <2>1, <2>2 DEF PlainStep
<1>4. CASE NotifyLocal(v)
  <2>1. WorkerMoves(v, "local", "reply")
    BY <1>0, <1>4, GotoMoves DEF NotifyLocal
  <2>2. UNCHANGED <<rpcs, failed>> /\ Receives(worker[v].req)
    BY <1>4 DEF NotifyLocal, Deliver, Receives, history
  <2> QED
    BY <2>1, <2>2 DEF LocalStep
<1>5. CASE CallReturns(v)
  <2>1. WorkerMoves(v, "rpc", "reply")
    BY <1>0, <1>5, GotoMoves DEF CallReturns
  <2>2. PICK c \in rpcs : WaitsFor(v, c) /\ rpcs' = rpcs \ {c}
    BY <1>5 DEF CallReturns
  <2>3. \A d \in rpcs' : d.req # worker[v].req
    BY <2>2 DEF OneCall, WaitsFor
  <2>4. rpcs' \subseteq rpcs /\ UNCHANGED <<received, failed>>
    BY <1>5, <2>2 DEF CallReturns, clients, history
  <2> QED
    BY <2>1, <2>3, <2>4 DEF EndStep
<1>6. CASE CallFails(v)
  <2>1. WorkerMoves(v, "rpc", "reply")
    BY <1>0, <1>6, GotoMoves DEF CallFails
  <2>2. /\ rpcs' \subseteq rpcs /\ UNCHANGED received
        /\ failed' = failed \cup {<<worker[v].req.from, worker[v].req.to>>}
    BY <1>6 DEF CallFails, Fails, clients
  <2> QED
    BY <2>1, <2>2 DEF EndStep
<1>7. CASE Reply(v)
  <2>1. worker[v].pc = "reply" /\ worker[v] \in HandlerState
    BY <1>7, WorkerShape DEF Reply
  <2>2. worker'[v].pc = "idle" /\ \A x \in Servers \ {v} : worker'[x] = worker[x]
    BY <1>7, IdleEffect DEF Reply
  <2>3. UNCHANGED <<rpcs, received, failed>> /\ steady' = steady \ {v}
    BY <1>7 DEF Reply
  <2> QED
    BY <1>0, <2>1, <2>2, <2>3 DEF ReplyStep, WorkerMoves
<1> QED
  BY <1>1, <1>2, <1>3, <1>4, <1>5, <1>6, <1>7

LEMMA ServeSteps ==
  ASSUME NEW v \in Servers, Serve(v)
  PROVE  \E c \in rpcs : ServeStep(c)
<1>1. PICK c \in rpcs :
        /\ c.state = "sent" /\ Deliver(v, c.req) /\ CallServed(c)
        /\ UNCHANGED <<conn, worker, requests, failed>>
  BY DEF Serve, history
<1>2. Receives(c.req)
  BY <1>1 DEF Deliver, Receives
<1>3. rpcs' \subseteq (rpcs \ {c}) \cup {[c EXCEPT !.state = "done"]}
  BY <1>1 DEF CallServed
<1>4. ServeStep(c)
  BY <1>1, <1>2, <1>3 DEF ServeStep
<1> QED
  BY <1>4

LEMMA OrderSteps ==
  ASSUME TypeInv, OneCall, Next
  PROVE  OrderStep
<1>1. ASSUME NEW u \in Users, Client(u) PROVE OrderStep
  BY <1>1, ClientSteps DEF OrderStep
<1>2. ASSUME NEW v \in Servers, Worker(v) PROVE OrderStep
  <2>1. CASE \/ \E u \in Users : LoginApplyList(v, u)
             \/ LoginFriendList(v) \/ LoginSetIp(v) \/ LoginBind(v)
    BY <2>1, LoginSteps DEF OrderStep
  <2>2. CASE \E u \in Users : BeginRequest(v, u)
    BY <2>2 DEF OrderStep
  <2>3. CASE \/ InsertApply(v) \/ AcceptApply(v) \/ InsertFirst(v)
             \/ InsertSecond(v) \/ StatementFails(v)
             \/ Lookup(v) \/ LookupFails(v) \/ NotifyLocal(v)
             \/ CallReturns(v) \/ CallFails(v) \/ Reply(v)
    BY <2>3, HandlerSteps DEF OrderStep
  <2> QED
    BY <1>2, <2>1, <2>2, <2>3 DEF Worker
<1>3. ASSUME NEW v \in Servers, Serve(v) PROVE OrderStep
  BY <1>3, ServeSteps DEF OrderStep
<1> QED
  BY <1>1, <1>2, <1>3 DEF Next

\* The request a handler begins with: the next of a user who is online here.
LEMMA BeginDetails ==
  ASSUME TypeInv, NEW v \in Servers, NEW u \in Users, BeginRequest(v, u)
  PROVE  /\ worker'[v].req \in Request
         /\ worker'[v].req.from = u /\ worker'[v].req.conn = conn[u].n
         /\ worker'[v].req.no = requests[u] + 1
         /\ requests' = [requests EXCEPT ![u] = @ + 1]
         /\ conn[u].server = v /\ ~Busy(v)
         /\ worker'[v].pc \in EarlyPcs
         /\ \A x \in Servers \ {v} : worker'[x] = worker[x]
         /\ UNCHANGED <<conn, rpcs, received, failed>>
         /\ steady' = IF Online(worker'[v].req.to) THEN steady \cup {v} ELSE steady
<1>1. PICK kind \in Kinds, to \in Users :
        /\ worker' = [worker EXCEPT ![v] =
            [pc |-> FirstStep(kind),
             req |-> [kind |-> kind, from |-> u, to |-> to,
                      conn |-> conn[u].n, no |-> requests[u] + 1]]]
        /\ steady' = IF Online(to) THEN steady \cup {v} ELSE steady
  BY DEF BeginRequest
<1>2. kind \in {"add", "auth", "text"}
  BY MessagingAssumption
<1>3. conn[u].n \in Nat /\ requests[u] + 1 \in Nat
  BY DEF TypeInv, Connection
<1>4. [kind |-> kind, from |-> u, to |-> to,
       conn |-> conn[u].n, no |-> requests[u] + 1] \in Request
  BY <1>2, <1>3 DEF Request
<1>5. /\ worker'[v] = [pc |-> FirstStep(kind),
                       req |-> [kind |-> kind, from |-> u, to |-> to,
                                conn |-> conn[u].n, no |-> requests[u] + 1]]
      /\ \A x \in Servers \ {v} : worker'[x] = worker[x]
  BY <1>1 DEF TypeInv
<1>6. /\ worker'[v].req \in Request
      /\ worker'[v].req.from = u /\ worker'[v].req.conn = conn[u].n
      /\ worker'[v].req.no = requests[u] + 1 /\ worker'[v].req.to = to
  BY <1>4, <1>5
<1>7. worker'[v].pc \in EarlyPcs
  BY <1>2, <1>5 DEF FirstStep, EarlyPcs
<1>8. /\ conn[u].server = v /\ ~Busy(v)
      /\ requests' = [requests EXCEPT ![u] = @ + 1]
      /\ UNCHANGED <<conn, rpcs, received, failed>>
  BY DEF BeginRequest, Busy
<1>9. steady' = IF Online(worker'[v].req.to) THEN steady \cup {v} ELSE steady
  BY <1>1, <1>6
<1> QED
  BY <1>5, <1>6, <1>7, <1>8, <1>9

\* A handler keeps its request, or has just begun.
LEMMA RequestsStay ==
  ASSUME TypeInv, OrderStep, NEW v \in Servers, worker'[v].pc \in HandlerPcs
  PROVE  \/ worker[v].pc \in HandlerPcs /\ worker'[v].req = worker[v].req
         \/ \E u \in Users : BeginRequest(v, u)
<1> USE DEF HandlerPcs, EarlyPcs, LatePcs, BeforeCall, LoginPcs
<1>1. CASE worker'[v] = worker[v]
  BY <1>1
<1>2. CASE worker'[v] # worker[v]
  <2>1. CASE ClientStep
    BY <1>2, <2>1 DEF ClientStep
  <2>2. ASSUME NEW x \in Servers, LoginStep(x)
        PROVE  FALSE
    BY <1>2, <2>2 DEF LoginStep
  <2>3. ASSUME NEW x \in Servers, \E u \in Users : BeginRequest(x, u)
        PROVE  \E u \in Users : BeginRequest(v, u)
    BY <1>2, <2>3, BeginEffect
  <2>4. ASSUME NEW x \in Servers, PlainStep(x) \/ CallStep(x) \/ LocalStep(x)
                                    \/ EndStep(x) \/ ReplyStep(x)
        PROVE  worker[v].pc \in HandlerPcs /\ worker'[v].req = worker[v].req
    <3>1. PICK here \in HandlerPcs, next \in HandlerPcs \cup {"idle"} :
            WorkerMoves(x, here, next)
      BY <2>4 DEF PlainStep, CallStep, LocalStep, EndStep, ReplyStep
    <3>2. x = v
      BY <1>2, <3>1 DEF WorkerMoves
    <3> QED
      BY <3>1, <3>2 DEF WorkerMoves
  <2>5. ASSUME NEW c \in rpcs, ServeStep(c) PROVE FALSE
    BY <1>2, <2>5 DEF ServeStep
  <2> QED
    BY <2>1, <2>2, <2>3, <2>4, <2>5 DEF OrderStep
<1> QED
  BY <1>1, <1>2

\* The requests made, and the connections, only grow.
LEMMA CountersGrow ==
  ASSUME TypeInv, OrderStep
  PROVE  /\ \A u \in Users : requests[u] \in Nat /\ requests[u] <= requests'[u]
         /\ ConnectionsGrow
<1>1. \A u \in Users : requests[u] \in Nat /\ conn[u].n \in Nat
  BY DEF TypeInv, Connection
<1>2. ASSUME conn' = conn, requests' = requests
      PROVE  /\ \A u \in Users : requests[u] <= requests'[u]
             /\ ConnectionsGrow
  BY <1>1, <1>2 DEF ConnectionsGrow
<1>3. ASSUME UNCHANGED requests
      PROVE  \A u \in Users : requests[u] <= requests'[u]
  BY <1>1, <1>3
<1>4. CASE ClientStep \/ \E v \in Servers : LoginStep(v)
  BY <1>1, <1>3, <1>4 DEF ClientStep, LoginStep
<1>5. ASSUME NEW v \in Servers, NEW u \in Users, BeginRequest(v, u)
      PROVE  /\ \A w \in Users : requests[w] <= requests'[w]
             /\ ConnectionsGrow
  <2>1. requests' = [requests EXCEPT ![u] = @ + 1] /\ conn' = conn
    BY <1>5 DEF BeginRequest
  <2>2. ConnectionsGrow
    BY <1>1, <2>1 DEF ConnectionsGrow
  <2>3. \A w \in Users : requests[w] <= requests'[w]
    BY <1>1, <2>1 DEF TypeInv
  <2> QED
    BY <2>2, <2>3
<1>6. CASE \/ \E v \in Servers : PlainStep(v) \/ CallStep(v) \/ LocalStep(v)
                                  \/ EndStep(v) \/ ReplyStep(v)
           \/ \E c \in rpcs : ServeStep(c)
  <2>1. conn' = conn /\ requests' = requests
    BY <1>6 DEF PlainStep, CallStep, LocalStep, EndStep, ReplyStep, ServeStep,
                WorkerMoves
  <2> QED
    BY <1>1, <1>2, <2>1
<1> QED
  BY <1>1, <1>4, <1>5, <1>6 DEF OrderStep

\* Every call is about the request of an earlier call, or of a handler that
\* looks its recipient up.
LEMMA CallsStay ==
  ASSUME TypeInv, OrderStep, NEW d \in rpcs'
  PROVE  \/ \E c \in rpcs : d.req = c.req
         \/ \E v \in Servers :
              /\ CallStep(v) /\ d = Call(v, worker[v].req)
              /\ d.req = worker[v].req
<1>1. CASE d \in rpcs
  BY <1>1
<1>2. CASE d \notin rpcs
  <2>1. CASE \/ ClientStep
             \/ \E v \in Servers :
                  \/ LoginStep(v) \/ (\E u \in Users : BeginRequest(v, u))
                  \/ PlainStep(v) \/ LocalStep(v) \/ EndStep(v) \/ ReplyStep(v)
    BY <1>2, <2>1 DEF ClientStep, LoginStep, BeginRequest, PlainStep, LocalStep,
                      EndStep, ReplyStep
  <2>2. ASSUME NEW v \in Servers, CallStep(v)
        PROVE  CallStep(v) /\ d = Call(v, worker[v].req) /\ d.req = worker[v].req
    <3>1. d = Call(v, worker[v].req)
      BY <1>2, <2>2 DEF CallStep
    <3> QED
      BY <2>2, <3>1 DEF Call
  <2>3. ASSUME NEW c \in rpcs, ServeStep(c) PROVE d.req = c.req
    <3>1. d = [c EXCEPT !.state = "done"]
      BY <1>2, <2>3 DEF ServeStep
    <3> QED
      BY <3>1 DEF TypeInv, CallState
  <2> QED
    BY <2>1, <2>2, <2>3 DEF OrderStep
<1> QED
  BY <1>1, <1>2

\* Every request received was received before, was with a handler that has
\* found its recipient on its own server, or in a call that is served now.
LEMMA ReceivedStays ==
  ASSUME TypeInv, ReceivedFits, OrderStep
  PROVE  \/ received' = received
         \/ \E r \in Request :
              /\ received' = [received EXCEPT ![r.to] = Append(@, r)]
              /\ \/ \E v \in Servers : LocalStep(v) /\ r = worker[v].req
                 \/ \E c \in rpcs : ServeStep(c) /\ r = c.req
<1>1. CASE \/ ClientStep
           \/ \E v \in Servers :
                \/ LoginStep(v) \/ (\E u \in Users : BeginRequest(v, u))
                \/ PlainStep(v) \/ CallStep(v) \/ EndStep(v) \/ ReplyStep(v)
  BY <1>1 DEF ClientStep, LoginStep, BeginRequest, PlainStep, CallStep, EndStep,
              ReplyStep
<1>2. ASSUME NEW v \in Servers, LocalStep(v), received' # received
      PROVE  /\ worker[v].req \in Request
             /\ received' = [received EXCEPT ![worker[v].req.to] =
                               Append(@, worker[v].req)]
  BY <1>2 DEF LocalStep, Receives, WorkerMoves, HandlerState
<1>3. ASSUME NEW c \in rpcs, ServeStep(c), received' # received
      PROVE  /\ c.req \in Request
             /\ received' = [received EXCEPT ![c.req.to] = Append(@, c.req)]
  BY <1>3 DEF ServeStep, Receives, TypeInv, CallState
<1> QED
  BY <1>1, <1>2, <1>3 DEF OrderStep

\* The shapes of a worker's state after a step.
LEMMA NextShape ==
  ASSUME TypeInv', NEW v \in Servers
  PROVE  /\ Busy(v)' <=> worker'[v].pc \in HandlerPcs
         /\ worker'[v].pc \in HandlerPcs => worker'[v].req \in Request
<1>1. worker'[v] \in WorkerState
  BY DEF TypeInv
<1>2. CASE worker'[v] = Idle
  BY <1>1, <1>2 DEF Idle, Busy, LoginPcs, HandlerPcs, EarlyPcs, LatePcs
<1>3. CASE worker'[v] \in LoginState
  BY <1>1, <1>3 DEF LoginState, Busy, LoginPcs, HandlerPcs, EarlyPcs, LatePcs
<1>4. CASE worker'[v] \in HandlerState
  BY <1>1, <1>4 DEF HandlerState, Busy, LoginPcs, HandlerPcs, EarlyPcs, LatePcs
<1> QED
  BY <1>1, <1>2, <1>3, <1>4 DEF WorkerState

\* The requests of handlers, calls and texts received are requests.
LEMMA RequestsTyped ==
  ASSUME TypeInv, ReceivedFits
  PROVE  /\ \A v \in Servers : worker[v].pc \in HandlerPcs =>
              Busy(v) /\ worker[v].req \in Request
         /\ \A c \in rpcs : c.req \in Request
         /\ \A u \in Users : \A i \in 1 .. Len(received[u]) :
              received[u][i] \in Request
<1>1. ASSUME NEW v \in Servers, worker[v].pc \in HandlerPcs
      PROVE  Busy(v) /\ worker[v].req \in Request
  BY <1>1, WorkerShape DEF HandlerState
<1>2. \A c \in rpcs : c.req \in Request
  BY DEF TypeInv, CallState
<1>3. ASSUME NEW u \in Users, NEW i \in 1 .. Len(received[u])
      PROVE  received[u][i] \in Request
  BY DEF ReceivedFits
<1> QED
  BY <1>1, <1>2, <1>3

\* The texts a user has, when one may be appended to those of one user.
LEMMA Appended ==
  ASSUME ReceivedFits, NEW r \in Request,
         received' = [received EXCEPT ![r.to] = Append(@, r)]
  PROVE  /\ received' \in [Users -> Seq(Request)]
         /\ \A u \in Users \ {r.to} : received'[u] = received[u]
         /\ Len(received'[r.to]) = Len(received[r.to]) + 1
         /\ Len(received[r.to]) \in Nat
         /\ received'[r.to][Len(received[r.to]) + 1] = r
         /\ \A i \in 1 .. Len(received[r.to]) :
              received'[r.to][i] = received[r.to][i]
<1>1. r.to \in Users /\ received[r.to] \in Seq(Request)
  BY DEF Request, ReceivedFits
<1>2. received'[r.to] = Append(received[r.to], r)
  BY <1>1 DEF ReceivedFits
<1> QED
  BY <1>1, <1>2 DEF ReceivedFits

LEMMA NumberedPreserved ==
  ASSUME TypeInv, TypeInv', ReceivedFits, Numbered, OrderStep
  PROVE  Numbered'
<1>1. \A r \in Request : r.from \in Users /\ r.to \in Users /\ r.no \in Nat
  BY DEF Request
<1>2. \A u \in Users : /\ requests[u] \in Nat /\ requests'[u] \in Nat
                       /\ requests[u] <= requests'[u]
  BY CountersGrow DEF TypeInv
<1>3. \A r \in Request : r.no <= requests[r.from] => r.no <= requests'[r.from]
  BY <1>1, <1>2
<1>4. ASSUME NEW v \in Servers, Busy(v)'
      PROVE  worker'[v].req.no <= requests'[worker'[v].req.from]
  <2>1. worker'[v].pc \in HandlerPcs
    BY <1>4, NextShape
  <2>2. CASE worker[v].pc \in HandlerPcs /\ worker'[v].req = worker[v].req
    BY <1>3, <2>2, RequestsTyped DEF Numbered
  <2>3. ASSUME NEW u \in Users, BeginRequest(v, u)
        PROVE  worker'[v].req.no <= requests'[worker'[v].req.from]
    <3>1. /\ worker'[v].req.from = u /\ worker'[v].req.no = requests[u] + 1
          /\ requests' = [requests EXCEPT ![u] = @ + 1]
      BY <2>3, BeginDetails
    <3>2. requests'[u] = requests[u] + 1
      BY <3>1 DEF TypeInv
    <3> QED
      BY <1>2, <3>1, <3>2
  <2> QED
    BY <2>1, <2>2, <2>3, RequestsStay
<1>5. ASSUME NEW d \in rpcs'
      PROVE  d.req.no <= requests'[d.req.from]
  <2>1. ASSUME NEW v \in Servers, CallStep(v) PROVE worker[v].pc \in HandlerPcs
    BY <2>1 DEF CallStep, WorkerMoves, HandlerPcs, EarlyPcs
  <2>2. d.req \in Request /\ d.req.no <= requests[d.req.from]
    BY <2>1, CallsStay, RequestsTyped DEF Numbered
  <2> QED
    BY <1>3, <2>2
<1>6. ASSUME NEW r \in Request, r.no <= requests[r.from],
             received' = [received EXCEPT ![r.to] = Append(@, r)],
             NEW u \in Users, NEW i \in 1 .. Len(received'[u])
      PROVE  received'[u][i].no <= requests'[received'[u][i].from]
  <2>1. CASE u # r.to
    BY <1>3, <1>6, <2>1, Appended, RequestsTyped DEF Numbered
  <2>2. CASE u = r.to /\ i # Len(received[u]) + 1
    <3>1. i \in 1 .. Len(received[u]) /\ received'[u][i] = received[u][i]
      BY <1>6, <2>2, Appended
    <3> QED
      BY <1>3, <3>1, RequestsTyped DEF Numbered
  <2>3. CASE u = r.to /\ i = Len(received[u]) + 1
    BY <1>3, <1>6, <2>3, Appended
  <2> QED
    BY <2>1, <2>2, <2>3
<1>7. ASSUME NEW u \in Users, NEW i \in 1 .. Len(received'[u])
      PROVE  received'[u][i].no <= requests'[received'[u][i].from]
  <2>1. CASE received' = received
    BY <1>3, <2>1, RequestsTyped DEF Numbered
  <2>2. ASSUME NEW v \in Servers, LocalStep(v)
        PROVE  worker[v].req.no <= requests[worker[v].req.from]
    <3>1. worker[v].pc \in HandlerPcs
      BY <2>2 DEF LocalStep, WorkerMoves, HandlerPcs, LatePcs
    <3> QED
      BY <3>1, RequestsTyped DEF Numbered
  <2>3. CASE received' # received
    <3>1. PICK r \in Request :
            /\ received' = [received EXCEPT ![r.to] = Append(@, r)]
            /\ r.no <= requests[r.from]
      BY <2>2, <2>3, ReceivedStays DEF Numbered
    <3> QED
      BY <1>6, <3>1
  <2> QED
    BY <2>1, <2>3
<1> QED
  BY <1>4, <1>5, <1>7 DEF Numbered

LEMMA OwnConnectionPreserved ==
  ASSUME TypeInv, TypeInv', ReceivedFits, OwnConnection, OrderStep
  PROVE  OwnConnection'
<1>1. \A u \in Users : conn[u].n \in Nat /\ conn'[u].n \in Nat
  BY DEF TypeInv, Connection
<1>2. ASSUME NEW v \in Servers, Busy(v)'
      PROVE  /\ worker'[v].req.conn <= conn'[worker'[v].req.from].n
             /\ worker'[v].req.conn = conn'[worker'[v].req.from].n =>
                  conn'[worker'[v].req.from].server = v
  <2>1. worker'[v].pc \in HandlerPcs
    BY <1>2, NextShape
  <2>2. CASE worker[v].pc \in HandlerPcs /\ worker'[v].req = worker[v].req
    <3>1. PICK r \in Request : worker[v].req = r
      BY <2>2, RequestsTyped
    <3>2. /\ r.conn <= conn[r.from].n
          /\ r.conn = conn[r.from].n => conn[r.from].server = v
      BY <2>2, <3>1, RequestsTyped DEF OwnConnection
    <3>3. /\ conn[r.from].n <= conn'[r.from].n
          /\ conn'[r.from].n = conn[r.from].n =>
               conn'[r.from].server = conn[r.from].server
      BY CountersGrow DEF ConnectionsGrow, Request
    <3>4. r.conn \in Nat /\ conn[r.from].n \in Nat /\ conn'[r.from].n \in Nat
      BY <1>1 DEF Request
    <3> QED
      BY <2>2, <3>1, <3>2, <3>3, <3>4
  <2>3. ASSUME NEW u \in Users, BeginRequest(v, u)
        PROVE  /\ worker'[v].req.conn <= conn'[worker'[v].req.from].n
               /\ conn'[worker'[v].req.from].server = v
    <3>1. /\ worker'[v].req.from = u /\ worker'[v].req.conn = conn[u].n
          /\ conn' = conn /\ conn[u].server = v
      BY <2>3, BeginDetails
    <3> QED
      BY <1>1, <3>1
  <2> QED
    BY <2>1, <2>2, <2>3, RequestsStay
<1> QED
  BY <1>2 DEF OwnConnection

LEMMA OneHandlerPreserved ==
  ASSUME TypeInv, TypeInv', ReceivedFits, OwnConnection, OneHandler, OrderStep
  PROVE  OneHandler'
<1>1. ASSUME NEW v \in Servers, NEW x \in Servers, NEW u \in Users,
             BeginRequest(v, u), x # v, worker'[x].pc \in HandlerPcs,
             worker'[x].req.from = worker'[v].req.from,
             worker'[x].req.conn = worker'[v].req.conn
      PROVE  FALSE
  <2>1. /\ worker'[v].req.from = u /\ worker'[v].req.conn = conn[u].n
        /\ conn[u].server = v /\ worker'[x] = worker[x]
    BY <1>1, BeginDetails
  <2>2. Busy(x) /\ worker[x].req.from = u /\ worker[x].req.conn = conn[u].n
    BY <1>1, <2>1, RequestsTyped
  <2> QED
    BY <1>1, <2>1, <2>2 DEF OwnConnection
<1>2. ASSUME NEW v \in Servers, NEW x \in Servers, Busy(v)', Busy(x)',
             worker'[v].req.from = worker'[x].req.from,
             worker'[v].req.conn = worker'[x].req.conn
      PROVE  v = x
  <2>1. worker'[v].pc \in HandlerPcs /\ worker'[x].pc \in HandlerPcs
    BY <1>2, NextShape
  <2>2. CASE \/ \E u \in Users : BeginRequest(v, u)
             \/ \E u \in Users : BeginRequest(x, u)
    BY <1>1, <1>2, <2>1, <2>2
  <2>3. CASE /\ worker[v].pc \in HandlerPcs /\ worker'[v].req = worker[v].req
             /\ worker[x].pc \in HandlerPcs /\ worker'[x].req = worker[x].req
    BY <1>2, <2>3, RequestsTyped DEF OneHandler
  <2> QED
    BY <2>1, <2>2, <2>3, RequestsStay
<1> QED
  BY <1>2 DEF OneHandler

\* A handler that has not called or notified anybody is where it was before,
\* with its request, or has just begun.
LEMMA BeforeStays ==
  ASSUME TypeInv, OrderStep, NEW v \in Servers, worker'[v].pc \in BeforeCall
  PROVE  \/ worker[v].pc \in BeforeCall /\ worker'[v].req = worker[v].req
         \/ \E u \in Users : BeginRequest(v, u)
<1> USE DEF HandlerPcs, EarlyPcs, LatePcs, BeforeCall
<1>1. CASE \E u \in Users : BeginRequest(v, u)
  BY <1>1
<1>2. CASE worker[v].pc \in HandlerPcs /\ worker'[v].req = worker[v].req
  <2>1. CASE worker'[v] = worker[v]
    BY <1>2, <2>1
  <2>2. CASE worker'[v] # worker[v]
    <3>1. ~ClientStep /\ ~\E c \in rpcs : ServeStep(c)
      BY <2>2 DEF ClientStep, ServeStep
    <3>2. ASSUME NEW x \in Servers, LoginStep(x) PROVE FALSE
      BY <2>2, <3>2 DEF LoginStep, LoginPcs
    <3>3. ASSUME NEW x \in Servers, NEW u \in Users, BeginRequest(x, u)
          PROVE  BeginRequest(v, u)
      BY <2>2, <3>3, BeginDetails
    <3>4. ASSUME NEW x \in Servers, PlainStep(x) \/ CallStep(x) \/ LocalStep(x)
                                      \/ EndStep(x) \/ ReplyStep(x)
          PROVE  worker[v].pc \in BeforeCall
      <4>1. PICK here \in HandlerPcs, next \in HandlerPcs \cup {"idle"} :
              /\ WorkerMoves(x, here, next)
              /\ here \in EarlyPcs \/ next \in {"reply", "idle"}
        BY <3>4 DEF PlainStep, CallStep, LocalStep, EndStep, ReplyStep
      <4>2. x = v
        BY <2>2, <4>1 DEF WorkerMoves
      <4> QED
        BY <4>1, <4>2 DEF WorkerMoves
    <3> QED
      BY <1>2, <3>1, <3>2, <3>3, <3>4 DEF OrderStep
  <2> QED
    BY <2>1, <2>2
<1> QED
  BY <1>1, <1>2, RequestsStay

LEMMA OneCallPreserved ==
  ASSUME TypeInv, TypeInv', ReceivedFits, Numbered, OneHandler, OneCall, OrderStep
  PROVE  OneCall'
<1>1. ASSUME NEW v \in Servers, CallStep(v)
      PROVE  /\ worker[v].pc = "lookup" /\ worker'[v].pc = "rpc" /\ Busy(v)
             /\ \A c \in rpcs : c.req # worker[v].req
  <2>1. worker[v].pc = "lookup" /\ worker'[v].pc = "rpc"
    BY <1>1 DEF CallStep, WorkerMoves
  <2> QED
    BY <2>1 DEF OneCall, Busy, BeforeCall, EarlyPcs
<1>2. ASSUME NEW v \in Servers, worker'[v].pc \in BeforeCall, NEW d \in rpcs'
      PROVE  d.req # worker'[v].req
  <2>1. CASE worker[v].pc \in BeforeCall /\ worker'[v].req = worker[v].req
    <3>1. CASE \E c \in rpcs : d.req = c.req
      BY <2>1, <3>1 DEF OneCall
    <3>2. ASSUME NEW x \in Servers, CallStep(x), d.req = worker[x].req
          PROVE  d.req # worker[v].req
      <4>1. Busy(x) /\ x # v
        BY <1>1, <1>2, <3>2 DEF BeforeCall, EarlyPcs
      <4>2. Busy(v)
        BY <2>1, RequestsTyped DEF BeforeCall, HandlerPcs, LatePcs
      <4> QED
        BY <3>2, <4>1, <4>2 DEF OneHandler
    <3> QED
      BY <2>1, <3>1, <3>2, CallsStay
  <2>2. ASSUME NEW u \in Users, BeginRequest(v, u)
        PROVE  d.req # worker'[v].req
    <3>1. /\ worker'[v].req.from = u /\ worker'[v].req.no = requests[u] + 1
          /\ d \in rpcs
      BY <2>2, BeginDetails
    <3>2. d.req.no <= requests[d.req.from] /\ requests[u] \in Nat
      BY <3>1, RequestsTyped DEF Numbered, TypeInv
    <3> QED
      BY <3>1, <3>2
  <2> QED
    BY <1>2, <2>1, <2>2, BeforeStays
<1>3. ASSUME NEW c \in rpcs', NEW d \in rpcs', c.req = d.req
      PROVE  c = d
  <2>1. CASE c \in rpcs /\ d \in rpcs
    BY <1>3, <2>1 DEF OneCall
  <2>2. ASSUME NEW v \in Servers, CallStep(v) PROVE c = d
    <3>1. rpcs' = rpcs \cup {Call(v, worker[v].req)}
      BY <2>2 DEF CallStep
    <3>2. Call(v, worker[v].req).req = worker[v].req
      BY DEF Call
    <3> QED
      BY <1>1, <1>3, <2>1, <2>2, <3>1, <3>2
  <2>3. ASSUME NEW b \in rpcs, ServeStep(b) PROVE c = d
    <3>1. rpcs' \subseteq (rpcs \ {b}) \cup {[b EXCEPT !.state = "done"]}
      BY <2>3 DEF ServeStep
    <3>2. [b EXCEPT !.state = "done"].req = b.req
      BY DEF TypeInv, CallState
    <3> QED
      BY <1>3, <3>1, <3>2 DEF OneCall
  <2>4. CASE rpcs' \subseteq rpcs
    BY <2>1, <2>4
  <2>5. \/ \E v \in Servers : CallStep(v)
        \/ \E b \in rpcs : ServeStep(b)
        \/ rpcs' \subseteq rpcs
    BY DEF OrderStep, ClientStep, LoginStep, BeginRequest, PlainStep, LocalStep,
           EndStep, ReplyStep
  <2> QED
    BY <2>2, <2>3, <2>4, <2>5
<1> QED
  BY <1>2, <1>3 DEF OneCall

LEMMA FailedGrows == OrderStep => failed \subseteq failed'
BY DEF OrderStep, ClientStep, LoginStep, BeginRequest, PlainStep, CallStep,
       LocalStep, EndStep, ReplyStep, ServeStep

LEMMA AwaitedPreserved ==
  ASSUME TypeInv, Awaited, OrderStep
  PROVE  Awaited'
<1> SUFFICES ASSUME NEW d \in rpcs', d.state = "sent",
                    <<d.req.from, d.req.to>> \notin failed'
             PROVE  WaitsFor(d.src, d)'
  BY DEF Awaited
<1>1. CASE d \in rpcs
  <2>1. WaitsFor(d.src, d) /\ d.src \in Servers
    BY <1>1, FailedGrows DEF Awaited, TypeInv, CallState
  <2>2. CASE worker'[d.src] = worker[d.src]
    BY <2>1, <2>2 DEF WaitsFor
  <2>3. CASE worker'[d.src] # worker[d.src]
    <3>1. ~ClientStep /\ ~\E c \in rpcs : ServeStep(c)
      BY <2>3 DEF ClientStep, ServeStep
    <3>2. ASSUME NEW v \in Servers, LoginStep(v) PROVE FALSE
      <4>1. v = d.src
        BY <2>1, <2>3, <3>2 DEF LoginStep
      <4> QED
        BY <2>1, <3>2, <4>1 DEF LoginStep, WaitsFor, Busy
    <3>3. ASSUME NEW v \in Servers, NEW u \in Users, BeginRequest(v, u) PROVE FALSE
      <4>1. v = d.src
        BY <2>1, <2>3, <3>3, BeginDetails
      <4> QED
        BY <2>1, <3>3, <4>1 DEF BeginRequest, WaitsFor
    <3>4. ASSUME NEW v \in Servers, PlainStep(v) \/ CallStep(v) \/ LocalStep(v)
                                      \/ ReplyStep(v)
          PROVE  FALSE
      <4>1. PICK here \in EarlyPcs \cup {"local", "reply"},
                 next \in HandlerPcs \cup {"idle"} : WorkerMoves(v, here, next)
        BY <3>4 DEF PlainStep, CallStep, LocalStep, ReplyStep, BeforeCall,
                    HandlerPcs, EarlyPcs, LatePcs
      <4>2. v = d.src
        BY <2>1, <2>3, <4>1 DEF WorkerMoves
      <4> QED
        BY <2>1, <4>1, <4>2 DEF WaitsFor, WorkerMoves, EarlyPcs
    <3>5. ASSUME NEW v \in Servers, EndStep(v) PROVE FALSE
      <4>1. v = d.src
        BY <2>1, <2>3, <3>5 DEF EndStep, WorkerMoves
      <4>2. d.req = worker[v].req
        BY <2>1, <4>1 DEF WaitsFor
      <4> QED
        BY <3>5, <4>2 DEF EndStep
    <3> QED
      BY <3>1, <3>2, <3>3, <3>4, <3>5 DEF OrderStep
  <2> QED
    BY <2>2, <2>3
<1>2. CASE d \notin rpcs
  <2>1. ASSUME NEW v \in Servers, CallStep(v) PROVE WaitsFor(d.src, d)'
    <3>1. d = Call(v, worker[v].req)
      BY <1>2, <2>1 DEF CallStep
    <3>2. d.src = v /\ d.req = worker[v].req
      BY <3>1 DEF Call
    <3>3. worker'[v].pc = "rpc" /\ worker'[v].req = worker[v].req
      BY <2>1 DEF CallStep, WorkerMoves
    <3> QED
      BY <3>2, <3>3 DEF WaitsFor
  <2>2. ASSUME NEW c \in rpcs, ServeStep(c) PROVE FALSE
    <3>1. d = [c EXCEPT !.state = "done"]
      BY <1>2, <2>2 DEF ServeStep
    <3>2. d.state = "done"
      BY <3>1 DEF TypeInv, CallState
    <3> QED
      BY <3>2
  <2> QED
    BY <1>2, <2>1, <2>2 DEF OrderStep, ClientStep, LoginStep, BeginRequest,
                            PlainStep, LocalStep, EndStep, ReplyStep
<1> QED
  BY <1>1, <1>2

\* A text from another connection leaves what is to come later than what is
\* there; so does one whose pair of users has a failure.
LEMMA LaterStays ==
  ASSUME ReceivedFits, NEW r \in Request, NEW s \in Request,
         failed \subseteq failed', Later(r),
         received' = [received EXCEPT ![s.to] = Append(@, s)],
         s.from = r.from /\ s.conn = r.conn => <<s.from, s.to>> \in failed
  PROVE  Later(r)'
<1>1. CASE <<r.from, r.to>> \in failed
  BY <1>1 DEF Later
<1>2. CASE r.to # s.to
  <2>1. received'[r.to] = received[r.to]
    BY <1>2, Appended DEF Request
  <2> QED
    BY <2>1 DEF Later
<1>3. CASE r.to = s.to /\ <<r.from, r.to>> \notin failed
  <2>1. ~(s.from = r.from /\ s.conn = r.conn)
    BY <1>3
  <2>2. ASSUME NEW i \in 1 .. Len(received'[r.to]),
               received'[r.to][i].from = r.from, received'[r.to][i].conn = r.conn
        PROVE  received'[r.to][i].no < r.no
    <3>1. i # Len(received[r.to]) + 1
      BY <1>3, <2>1, <2>2, Appended
    <3>2. i \in 1 .. Len(received[r.to]) /\ received'[r.to][i] = received[r.to][i]
      BY <1>3, <3>1, Appended
    <3> QED
      BY <1>3, <2>2, <3>2 DEF Later
  <2> QED
    BY <2>2 DEF Later
<1> QED
  BY <1>1, <1>2, <1>3

\* Who may have a text of the connection of r: nobody but its handler.
LEMMA OnlyItsHandler ==
  ASSUME TypeInv, ReceivedFits, OneHandler, Awaited, OrderStep, NEW v \in Servers,
         worker[v].pc \in HandlerPcs, NEW s \in Request,
         s.from = worker[v].req.from, s.conn = worker[v].req.conn,
         <<s.from, s.to>> \notin failed
  PROVE  /\ \A x \in Servers : LocalStep(x) /\ s = worker[x].req => x = v
         /\ \A c \in rpcs : c.state = "sent" /\ s = c.req => WaitsFor(v, c)
<1>1. Busy(v)
  BY RequestsTyped
<1>2. ASSUME NEW x \in Servers, LocalStep(x), s = worker[x].req
      PROVE  x = v
  <2>1. worker[x].pc \in HandlerPcs
    BY <1>2 DEF LocalStep, WorkerMoves, HandlerPcs, LatePcs
  <2>2. Busy(x)
    BY <2>1, RequestsTyped
  <2> QED
    BY <1>1, <1>2, <2>2 DEF OneHandler
<1>3. ASSUME NEW c \in rpcs, c.state = "sent", s = c.req
      PROVE  WaitsFor(v, c)
  <2>1. WaitsFor(c.src, c) /\ c.src \in Servers
    BY <1>3 DEF Awaited, TypeInv, CallState
  <2>2. Busy(c.src) /\ worker[c.src].req = s
    BY <1>3, <2>1 DEF WaitsFor, Busy
  <2> QED
    BY <1>1, <2>1, <2>2 DEF OneHandler
<1> QED
  BY <1>2, <1>3

\* A call or a handler that has the request still to come.
LEMMA LaterGrows ==
  ASSUME TypeInv, ReceivedFits, OneHandler, OneCall, Awaited, OrderStep,
         NEW v \in Servers, worker[v].pc \in HandlerPcs,
         NEW r \in Request, worker[v].req = r, Later(r),
         ~LocalStep(v), \A c \in rpcs : c.req = r => ~ServeStep(c)
  PROVE  Later(r)'
<1>1. CASE received' = received
  BY <1>1, FailedGrows DEF Later
<1>2. ASSUME NEW s \in Request,
             received' = [received EXCEPT ![s.to] = Append(@, s)],
             \/ \E x \in Servers : LocalStep(x) /\ s = worker[x].req
             \/ \E c \in rpcs : ServeStep(c) /\ s = c.req
      PROVE  Later(r)'
  <2>1. ASSUME s.from = r.from, s.conn = r.conn, <<s.from, s.to>> \notin failed
        PROVE  FALSE
    <3>1. /\ \A x \in Servers : LocalStep(x) /\ s = worker[x].req => x = v
          /\ \A c \in rpcs : c.state = "sent" /\ s = c.req => WaitsFor(v, c)
      BY <2>1, OnlyItsHandler
    <3>2. ASSUME NEW c \in rpcs, ServeStep(c), s = c.req PROVE FALSE
      <4>1. WaitsFor(v, c)
        BY <3>1, <3>2 DEF ServeStep
      <4> QED
        BY <3>2, <4>1 DEF WaitsFor
    <3> QED
      BY <1>2, <3>1, <3>2
  <2> QED
    BY <1>2, <2>1, FailedGrows, LaterStays
<1> QED
  BY <1>1, <1>2, ReceivedStays

LEMMA ToComePreserved ==
  ASSUME TypeInv, TypeInv', ReceivedFits, Numbered, OneHandler, OneCall, Awaited,
         ToCome, OrderStep
  PROVE  ToCome'
<1>1. ASSUME NEW v \in Servers, worker[v].pc \in BeforeCall,
             worker'[v].pc \in BeforeCall, NEW r \in Request, worker[v].req = r
      PROVE  Later(r)'
  <2>1. worker[v].pc \in HandlerPcs /\ Later(r)
    BY <1>1 DEF BeforeCall, HandlerPcs, LatePcs, ToCome
  <2>2. ~LocalStep(v)
    BY <1>1 DEF LocalStep, WorkerMoves, BeforeCall, EarlyPcs
  <2>3. \A c \in rpcs : c.req # r
    BY <1>1 DEF OneCall
  <2> QED
    BY <1>1, <2>1, <2>2, <2>3, LaterGrows
<1>2. ASSUME NEW v \in Servers, NEW u \in Users, BeginRequest(v, u),
             NEW r \in Request, worker'[v].req = r
      PROVE  Later(r)'
  <2>1. r.from = u /\ r.no = requests[u] + 1 /\ received' = received
    BY <1>2, BeginDetails
  <2>2. \A i \in 1 .. Len(received[r.to]) :
          received[r.to][i].from = r.from => received[r.to][i].no <= requests[u]
    BY <2>1 DEF Numbered, Request
  <2>3. \A i \in 1 .. Len(received[r.to]) :
          received[r.to][i].no \in Nat /\ requests[u] \in Nat
    BY RequestsTyped DEF Request, TypeInv
  <2>4. \A i \in 1 .. Len(received[r.to]) :
          received[r.to][i].from = r.from => received[r.to][i].no < r.no
    BY <2>1, <2>2, <2>3
  <2> QED
    BY <2>1, <2>4 DEF Later
<1>3. ASSUME NEW v \in Servers, worker'[v].pc \in BeforeCall
      PROVE  Later(worker[v].req)'
  <2>1. PICK r \in Request : worker'[v].req = r
    BY <1>3, NextShape DEF BeforeCall, HandlerPcs, LatePcs
  <2>2. Later(r)'
    BY <1>1, <1>2, <1>3, <2>1, BeforeStays
  <2> QED
    BY <2>1, <2>2 DEF Later
<1>4. ASSUME NEW d \in rpcs', d.state = "sent"
      PROVE  Later(d.req)'
  <2>1. CASE d \in rpcs
    <3>1. d.req \in Request /\ Later(d.req)
      BY <1>4, <2>1, RequestsTyped DEF ToCome
    <3>2. CASE <<d.req.from, d.req.to>> \in failed
      BY <3>2, FailedGrows DEF Later
    <3>3. CASE WaitsFor(d.src, d)
      <4> DEFINE v == d.src
                 r == d.req
      <4>1. /\ v \in Servers /\ worker[v].pc = "rpc" /\ worker[v].req = r
            /\ r \in Request /\ Later(r)
        BY <2>1, <3>1, <3>3 DEF WaitsFor, TypeInv, CallState
      <4>2. worker[v].pc \in HandlerPcs /\ ~LocalStep(v)
        BY <4>1 DEF LocalStep, WorkerMoves, HandlerPcs, LatePcs
      <4>3. ASSUME NEW c \in rpcs, c.req = r, ServeStep(c) PROVE FALSE
        <5>1. c = d
          BY <2>1, <4>3 DEF OneCall
        <5>2. d = [c EXCEPT !.state = "done"]
          BY <4>3, <5>1 DEF ServeStep
        <5>3. d.state = "done"
          BY <5>2 DEF TypeInv, CallState
        <5> QED
          BY <1>4, <5>3
      <4> HIDE DEF v, r
      <4>4. Later(r)'
        BY <4>1, <4>2, <4>3, LaterGrows
      <4> QED
        BY <4>4 DEF r
    <3> QED
      BY <1>4, <2>1, <3>2, <3>3 DEF Awaited
  <2>2. ASSUME NEW v \in Servers, CallStep(v), d = Call(v, worker[v].req)
        PROVE  Later(d.req)'
    <3>1. d.req = worker[v].req
      BY <2>2 DEF Call
    <3>2. worker[v].pc \in BeforeCall /\ UNCHANGED <<received, failed>>
      BY <2>2 DEF CallStep, WorkerMoves, BeforeCall, EarlyPcs
    <3>3. Later(d.req)
      BY <3>1, <3>2 DEF ToCome
    <3> QED
      BY <3>2, <3>3 DEF Later
  <2>3. CASE d \notin rpcs
    <3>1. ASSUME NEW c \in rpcs, ServeStep(c) PROVE FALSE
      <4>1. d = [c EXCEPT !.state = "done"]
        BY <2>3, <3>1 DEF ServeStep
      <4>2. d.state = "done"
        BY <4>1 DEF TypeInv, CallState
      <4> QED
        BY <1>4, <4>2
    <3>2. \E v \in Servers : CallStep(v) /\ d = Call(v, worker[v].req)
      BY <2>3, <3>1 DEF OrderStep, ClientStep, LoginStep, BeginRequest,
                        PlainStep, CallStep, LocalStep, EndStep, ReplyStep
    <3> QED
      BY <2>2, <3>2
  <2> QED
    BY <2>1, <2>3
<1> QED
  BY <1>3, <1>4 DEF ToCome

LEMMA InOrderPreserved ==
  ASSUME TypeInv, ReceivedFits, ToCome, TextsInOrder, OrderStep
  PROVE  TextsInOrder'
<1>1. CASE received' = received
  BY <1>1, FailedGrows DEF TextsInOrder
<1>2. ASSUME NEW s \in Request, Later(s),
             received' = [received EXCEPT ![s.to] = Append(@, s)]
      PROVE  TextsInOrder'
  <2>1. ASSUME NEW u \in Users, NEW i \in 1 .. Len(received'[u]),
               NEW j \in 1 .. Len(received'[u]), i < j,
               received'[u][i].from = received'[u][j].from,
               received'[u][i].conn = received'[u][j].conn
        PROVE  \/ received'[u][i].no < received'[u][j].no
               \/ <<received'[u][i].from, u>> \in failed'
    <3>1. CASE u # s.to
      BY <1>2, <2>1, <3>1, Appended, FailedGrows DEF TextsInOrder
    <3>2. CASE u = s.to
      <4>1. i \in 1 .. Len(received[u]) /\ received'[u][i] = received[u][i]
        BY <1>2, <2>1, <3>2, Appended
      <4>2. CASE j = Len(received[u]) + 1
        <5>1. received'[u][j] = s
          BY <1>2, <3>2, <4>2, Appended
        <5> QED
          BY <1>2, <2>1, <3>2, <4>1, <5>1, FailedGrows DEF Later
      <4>3. CASE j # Len(received[u]) + 1
        <5>1. j \in 1 .. Len(received[u]) /\ received'[u][j] = received[u][j]
          BY <1>2, <2>1, <3>2, <4>3, Appended
        <5> QED
          BY <2>1, <4>1, <5>1, FailedGrows DEF TextsInOrder
      <4> QED
        BY <4>2, <4>3
    <3> QED
      BY <3>1, <3>2
  <2> QED
    BY <2>1 DEF TextsInOrder
<1>3. ASSUME NEW v \in Servers, LocalStep(v) PROVE Later(worker[v].req)
  BY <1>3 DEF LocalStep, WorkerMoves, ToCome, BeforeCall
<1>4. ASSUME NEW c \in rpcs, ServeStep(c) PROVE Later(c.req)
  BY <1>4 DEF ServeStep, ToCome
<1> QED
  BY <1>1, <1>2, <1>3, <1>4, ReceivedStays

LEMMA ReceivedPreserved ==
  ASSUME TypeInv, ReceivedFits, [Next]_vars
  PROVE  ReceivedFits'
<1>1. CASE UNCHANGED vars
  BY <1>1 DEF vars, ReceivedFits
<1>2. CASE Next
  <2>1. steady' \subseteq Servers
    <3>1. ASSUME NEW u \in Users, Client(u) PROVE steady' \subseteq steady
      BY <3>1 DEF Client, Disconnect, Leave, SendLogin, history
    <3>2. ASSUME NEW v \in Servers, Worker(v) \/ Serve(v)
          PROVE  steady' \subseteq steady \cup {v}
      BY <3>2 DEF Worker, LoginApplyList, BeginRequest, LoginFriendList,
                  LoginSetIp, LoginBind, InsertApply, AcceptApply, InsertFirst,
                  InsertSecond, StatementFails, Lookup, LookupFails,
                  NotifyLocal, CallReturns, CallFails, Fails, Reply, Serve,
                  clients, history
    <3> QED
      BY <1>2, <3>1, <3>2 DEF Next, ReceivedFits
  <2>2. received' \in [Users -> Seq(Request)]
    <3>1. ASSUME NEW r \in Request, Receives(r)
          PROVE  received' \in [Users -> Seq(Request)]
      BY <3>1, Appended DEF Receives, ReceivedFits
    <3>2. CASE received' = received
      BY <3>2 DEF ReceivedFits
    <3>3. ASSUME NEW v \in Servers, NotifyLocal(v)
          PROVE  received' \in [Users -> Seq(Request)]
      <4>1. worker[v].req \in Request
        BY <3>3, RequestsTyped DEF NotifyLocal, Goto, HandlerPcs, LatePcs
      <4>2. Receives(worker[v].req)
        BY <3>3 DEF NotifyLocal, Deliver, Receives
      <4> QED
        BY <3>1, <4>1, <4>2
    <3>4. ASSUME NEW v \in Servers, Serve(v)
          PROVE  received' \in [Users -> Seq(Request)]
      BY <3>1, <3>4, ServeSteps, RequestsTyped DEF ServeStep
    <3>5. \/ received' = received
          \/ \E v \in Servers : NotifyLocal(v) \/ Serve(v)
      BY <1>2 DEF Next, Client, Disconnect, Leave, SendLogin,
                  Worker, LoginApplyList, BeginRequest, LoginFriendList,
                  LoginSetIp, LoginBind, InsertApply, AcceptApply, InsertFirst,
                  InsertSecond, StatementFails, Lookup, LookupFails,
                  CallReturns, CallFails, Fails, Reply, clients
    <3> QED
      BY <3>2, <3>3, <3>4, <3>5
  <2> QED
    BY <2>1, <2>2 DEF ReceivedFits
<1> QED
  BY <1>1, <1>2

LEMMA OrderPreserved ==
  ASSUME TypeInv, TypeInv', OrderInv, [Next]_vars
  PROVE  OrderInv'
<1>1. CASE UNCHANGED vars
  BY <1>1 DEF vars, OrderInv, ReceivedFits, HandlersApart, Numbered,
              OwnConnection, OneHandler, OneCall, Awaited, WaitsFor, ToCome,
              Later, TextsInOrder, Busy
<1>2. CASE Next
  <2>1. OrderStep
    BY <1>2, OrderSteps DEF OrderInv
  <2>2. HandlersApart'
    BY <2>1, NumberedPreserved, OwnConnectionPreserved, OneHandlerPreserved
       DEF OrderInv, HandlersApart
  <2>3. OneCall' /\ Awaited' /\ ToCome' /\ TextsInOrder'
    BY <2>1, OneCallPreserved, AwaitedPreserved, ToComePreserved,
       InOrderPreserved DEF OrderInv, HandlersApart
  <2>4. ReceivedFits'
    BY ReceivedPreserved DEF OrderInv
  <2> QED
    BY <2>2, <2>3, <2>4 DEF OrderInv
<1> QED
  BY <1>1, <1>2

LEMMA InitOrder == Init => OrderInv
<1> SUFFICES ASSUME Init PROVE OrderInv
  OBVIOUS
<1>1. /\ \A v \in Servers : worker[v].pc = "idle"
      /\ rpcs = {} /\ steady = {}
      /\ received = [u \in Users |-> << >>]
  BY DEF Init, Idle
<1>2. \A u \in Users : received[u] = << >> /\ Len(received[u]) = 0
  BY <1>1
<1>3. ReceivedFits
  BY <1>1 DEF ReceivedFits
<1>4. HandlersApart
  BY <1>1, <1>2 DEF HandlersApart, Numbered, OwnConnection, OneHandler, Busy
<1>5. OneCall /\ Awaited /\ ToCome
  BY <1>1 DEF OneCall, Awaited, ToCome, BeforeCall, EarlyPcs
<1>6. TextsInOrder
  BY <1>2 DEF TextsInOrder
<1> QED
  BY <1>3, <1>4, <1>5, <1>6 DEF OrderInv

\* The texts sent over one connection arrive in the order of sending, and
\* once each, for any numbers of users, servers and texts, although they may
\* go through UserMgr, through calls, and to several servers in turn.  It
\* claims nothing of two users between whom a call ever failed, nor of texts
\* the sender wrote over different connections.
THEOREM TextsArriveInOrder == Spec => []TextsInOrder
<1>1. TypeInv /\ TypeInv' /\ OrderInv /\ [Next]_vars => OrderInv'
  BY OrderPreserved
<1>2. OrderInv => TextsInOrder
  BY DEF OrderInv
<1> QED
  BY <1>1, <1>2, InitOrder, TypesInvariant, PTL DEF Spec

-----------------------------------------------------------------------------
(***************************************************************************)
(* Whoever waits for a call waits for one that exists.                     *)
(***************************************************************************)
Called(v) == \E c \in rpcs : WaitsFor(v, c)

CallUnderWay == \A v \in Servers : worker[v].pc = "rpc" => Called(v)

\* What happens to the calls while the worker of v goes on waiting.
LEMMA CalledStays ==
  ASSUME TypeInv, NEW v \in Servers, Called(v), worker'[v] = worker[v], Next
  PROVE  Called(v)'
<1>1. PICK c \in rpcs : WaitsFor(v, c)
  BY DEF Called
<1>2. \A d \in rpcs' : d.src = v /\ d.req = c.req => WaitsFor(v, d)'
  BY <1>1 DEF WaitsFor
<1>3. SUFFICES \E d \in rpcs' : d.src = v /\ d.req = c.req
  BY <1>2 DEF Called
<1>4. c.src = v /\ c.req = worker[v].req /\ worker[v].pc = "rpc"
  BY <1>1 DEF WaitsFor
<1>5. ASSUME NEW u \in Users, Client(u) PROVE rpcs' = rpcs
  BY <1>5 DEF Client, Disconnect, Leave, SendLogin
<1>6. ASSUME NEW x \in Servers, Serve(x)
      PROVE  \E d \in rpcs' : d.src = v /\ d.req = c.req
  <2>1. PICK e \in rpcs : CallServed(e)
    BY <1>6 DEF Serve
  <2>2. CASE e # c
    BY <1>4, <2>1, <2>2 DEF CallServed
  <2>3. CASE e = c
    <3>1. [c EXCEPT !.state = "done"] \in rpcs'
      BY <1>1, <1>4, <2>1, <2>3 DEF CallServed
    <3>2. /\ [c EXCEPT !.state = "done"].src = c.src
          /\ [c EXCEPT !.state = "done"].req = c.req
      BY DEF TypeInv, CallState
    <3> QED
      BY <1>4, <3>1, <3>2
  <2> QED
    BY <2>2, <2>3
<1>7. ASSUME NEW x \in Servers, CallReturns(x) \/ CallFails(x)
      PROVE  c \in rpcs'
  <2>1. x # v
    <3>1. worker'[x].pc = "reply" /\ Goto(x, "rpc", "reply")
      BY <1>7, GotoEffect
         DEF CallReturns, CallFails, HandlerPcs, EarlyPcs, LatePcs
    <3> QED
      BY <1>4, <3>1
  <2>2. ~WaitsFor(x, c)
    BY <1>4, <2>1 DEF WaitsFor
  <2> QED
    BY <1>7, <2>2 DEF CallReturns, CallFails
<1>8. ASSUME NEW x \in Servers, Worker(x), ~CallReturns(x), ~CallFails(x)
      PROVE  rpcs \subseteq rpcs'
  BY <1>8 DEF Worker, LoginApplyList, BeginRequest, LoginFriendList,
              LoginSetIp, LoginBind, InsertApply, AcceptApply, InsertFirst,
              InsertSecond, StatementFails, Lookup, LookupFails, NotifyLocal,
              Reply
<1> QED
  BY <1>4, <1>5, <1>6, <1>7, <1>8 DEF Next

\* A worker that begins to wait has just called.
LEMMA CallMade ==
  ASSUME TypeInv, OrderStep, NEW v \in Servers, worker'[v] # worker[v],
         worker'[v].pc = "rpc"
  PROVE  Called(v)'
<1>1. CallStep(v)
  <2>1. ~ClientStep /\ ~\E c \in rpcs : ServeStep(c)
    BY DEF ClientStep, ServeStep
  <2>2. ASSUME NEW x \in Servers, LoginStep(x) PROVE FALSE
    BY <2>2 DEF LoginStep, LoginPcs
  <2>3. ASSUME NEW x \in Servers, NEW u \in Users, BeginRequest(x, u) PROVE FALSE
    BY <2>3, BeginDetails DEF EarlyPcs
  <2>4. ASSUME NEW x \in Servers,
               PlainStep(x) \/ LocalStep(x) \/ EndStep(x) \/ ReplyStep(x)
        PROVE  FALSE
    BY <2>4 DEF PlainStep, LocalStep, EndStep, ReplyStep, WorkerMoves,
                BeforeCall, EarlyPcs
  <2>5. ASSUME NEW x \in Servers, CallStep(x) PROVE x = v
    BY <2>5 DEF CallStep, WorkerMoves
  <2> QED
    BY <2>1, <2>2, <2>3, <2>4, <2>5 DEF OrderStep
<1>2. \E d \in rpcs' : d.src = v /\ d.req = worker[v].req
  <2>1. Call(v, worker[v].req) \in rpcs'
    BY <1>1 DEF CallStep
  <2>2. /\ Call(v, worker[v].req).src = v
        /\ Call(v, worker[v].req).req = worker[v].req
    BY DEF Call
  <2> QED
    BY <2>1, <2>2
<1>3. worker'[v].req = worker[v].req
  BY <1>1 DEF CallStep, WorkerMoves
<1> QED
  BY <1>2, <1>3 DEF Called, WaitsFor

\* Every worker that waits in NotifyAddFriend, NotifyAuthFriend or
\* NotifyTextChatMsg of ChatGrpcClient has a call under way, to be served or
\* answered: also when calls go in both directions at once, are given up, or
\* are served after that, no answer goes to another handler or gets lost.
\* HandlersEnd rests on it.
THEOREM NobodyWaitsInVain == Spec => []CallUnderWay
<1>1. Init => CallUnderWay
  BY DEF Init, CallUnderWay, Idle
<1>2. TypeInv /\ OrderInv /\ CallUnderWay /\ [Next]_vars => CallUnderWay'
  <2> SUFFICES ASSUME TypeInv, OrderInv, CallUnderWay, [Next]_vars,
                      NEW v \in Servers, worker'[v].pc = "rpc"
               PROVE  Called(v)'
    BY DEF CallUnderWay
  <2>1. CASE UNCHANGED vars
    BY <2>1 DEF vars, CallUnderWay, Called, WaitsFor
  <2>2. CASE Next
    <3>1. OrderStep
      BY <2>2, OrderSteps DEF OrderInv
    <3>2. CASE worker'[v] = worker[v]
      BY <2>2, <3>2, CalledStays DEF CallUnderWay
    <3>3. CASE worker'[v] # worker[v]
      BY <3>1, <3>3, CallMade
    <3> QED
      BY <3>2, <3>3
  <2> QED
    BY <2>1, <2>2
<1>3. TypeInv /\ TypeInv' /\ OrderInv /\ [Next]_vars => OrderInv'
  BY OrderPreserved
<1> QED
  BY <1>1, <1>2, <1>3, InitOrder, TypesInvariant, PTL DEF Spec

-----------------------------------------------------------------------------
(***************************************************************************)
(* A text is received before it is answered, if its recipient stays.  The  *)
(* server looked up is that of the recipient's connection, a call is for   *)
(* that server until it is served, and it returns when it has been.        *)
(***************************************************************************)
Got(r) == \E i \in 1 .. Len(received[r.to]) : received[r.to][i] = r

Delivered(r) == r.kind = "text" => Got(r) \/ <<r.from, r.to>> \in failed

SteadyOnline == \A v \in steady : Busy(v) /\ Online(worker[v].req.to)

SteadyRoute ==
  \A v \in steady :
    LET r == worker[v].req IN
    /\ worker[v].pc = "local" => conn[r.to].server = v
    /\ worker[v].pc = "rpc" =>
         \A c \in rpcs : c.req = r =>
           /\ c.state = "sent" => c.dest = conn[r.to].server
           /\ c.state = "done" => Delivered(r)
    /\ worker[v].pc = "reply" => Delivered(r)

SteadyFits == SteadyOnline /\ SteadyRoute

\* The steps of a handler up to its answer leave the recipients alone.
LEMMA SteadyHandler ==
  ASSUME NEW v \in Servers,
         \/ InsertApply(v) \/ AcceptApply(v) \/ InsertFirst(v)
         \/ InsertSecond(v) \/ StatementFails(v)
         \/ Lookup(v) \/ LookupFails(v) \/ NotifyLocal(v)
         \/ CallReturns(v) \/ CallFails(v)
  PROVE  steady' = steady /\ conn' = conn
BY DEF InsertApply, AcceptApply, InsertFirst, InsertSecond, StatementFails,
       Lookup, LookupFails, NotifyLocal, CallReturns, CallFails, Fails,
       clients, history

\* Who was steady keeps its request, and the recipient its connection.
LEMMA RecipientStays ==
  ASSUME TypeInv, SessionFits, ReceivedFits, SteadyOnline, Next,
         NEW x \in steady, x \in steady'
  PROVE  conn'[worker[x].req.to] = conn[worker[x].req.to]
<1>1. /\ x \in Servers /\ Busy(x) /\ worker[x].pc \in HandlerPcs
      /\ worker[x].req.to \in Users /\ conn[worker[x].req.to].state = "on"
  <2>1. x \in Servers /\ Busy(x) /\ Online(worker[x].req.to)
    BY DEF SteadyOnline, ReceivedFits
  <2>2. worker[x].pc \in HandlerPcs
    BY <2>1, WorkerShape
  <2>3. worker[x].req \in Request
    BY <2>1, <2>2, RequestsTyped
  <2> QED
    BY <2>1, <2>2, <2>3 DEF Online, Request
<1>2. PICK to \in Users : to = worker[x].req.to /\ conn[to].state = "on"
  BY <1>1
<1>3. ASSUME NEW u \in Users, NEW v \in Servers, SendLogin(u, v)
      PROVE  conn'[to] = conn[to]
  BY <1>2, <1>3 DEF SendLogin, TypeInv
<1>4. ASSUME NEW u \in Users, Disconnect(u)
      PROVE  conn'[to] = conn[to]
  BY <1>1, <1>2, <1>4 DEF Disconnect, Leave, TypeInv
<1>5. ASSUME NEW v \in Servers, LoginBind(v)
      PROVE  conn'[to] = conn[to]
  <2>1. worker[v].uid \in Users /\ conn[worker[v].uid].state = "login"
    BY <1>5, WorkerShape DEF LoginBind, LoginPcs, LoginState, SessionFits, LoginFits
  <2> QED
    BY <1>2, <1>5, <2>1 DEF LoginBind, TypeInv
<1>6. ASSUME NEW v \in Servers,
             \/ \E u \in Users : LoginApplyList(v, u) \/ BeginRequest(v, u)
             \/ LoginFriendList(v) \/ LoginSetIp(v) \/ Reply(v) \/ Serve(v)
      PROVE  conn' = conn
  BY <1>6 DEF LoginApplyList, BeginRequest, LoginFriendList, LoginSetIp, Reply,
              Serve, clients
<1>7. conn'[to] = conn[to]
  BY <1>3, <1>4, <1>5, <1>6, SteadyHandler DEF Next, Client, Worker
<1> QED
  BY <1>2, <1>7

\* Who is steady was so before, or has just begun.
LEMMA SteadyStays ==
  ASSUME TypeInv, Next
  PROVE  \/ steady' \subseteq steady
         \/ \E v \in Servers, u \in Users : BeginRequest(v, u)
<1>1. ASSUME NEW u \in Users, Client(u) PROVE steady' \subseteq steady
  BY <1>1 DEF Client, Disconnect, Leave, SendLogin, history
<1>2. ASSUME NEW v \in Servers, Serve(v) \/ Reply(v) PROVE steady' \subseteq steady
  BY <1>2 DEF Serve, Reply, history
<1>3. ASSUME NEW v \in Servers, Worker(v)
      PROVE  steady' \subseteq steady \/ \E u \in Users : BeginRequest(v, u)
  BY <1>2, <1>3, SteadyHandler, LoginSteps DEF Worker
<1> QED
  BY <1>1, <1>2, <1>3 DEF Next

\* What is delivered stays so.
LEMMA DeliveredStays ==
  ASSUME TypeInv, ReceivedFits, OrderStep, NEW r \in Request, Delivered(r)
  PROVE  Delivered(r)'
<1>1. CASE received' = received
  BY <1>1, FailedGrows DEF Delivered, Got
<1>2. ASSUME NEW s \in Request,
             received' = [received EXCEPT ![s.to] = Append(@, s)]
      PROVE  Delivered(r)'
  <2>1. ASSUME NEW i \in 1 .. Len(received[r.to]), received[r.to][i] = r
        PROVE  i \in 1 .. Len(received'[r.to]) /\ received'[r.to][i] = r
    <3>1. CASE r.to = s.to
      BY <1>2, <2>1, <3>1, Appended
    <3>2. CASE r.to # s.to
      BY <1>2, <2>1, <3>2, Appended DEF Request
    <3> QED
      BY <3>1, <3>2
  <2> QED
    BY <2>1, FailedGrows DEF Delivered, Got
<1> QED
  BY <1>1, <1>2, ReceivedStays

\* A session that UserMgr has gets the text.
LEMMA DeliverDelivers ==
  ASSUME ReceivedFits, NEW v \in Servers, NEW r \in Request, Deliver(v, r),
         r.to \in uid_session[v]
  PROVE  Delivered(r)'
<1>1. CASE r.kind = "text"
  <2>1. received' = [received EXCEPT ![r.to] = Append(@, r)]
    BY <1>1 DEF Deliver
  <2>2. /\ Len(received'[r.to]) = Len(received[r.to]) + 1
        /\ Len(received[r.to]) \in Nat
        /\ received'[r.to][Len(received[r.to]) + 1] = r
    BY <2>1, Appended
  <2> QED
    BY <2>2 DEF Delivered, Got
<1>2. CASE r.kind # "text"
  BY <1>2 DEF Delivered
<1> QED
  BY <1>1, <1>2

\* A step that moves the worker of a server is a step of that worker.
LEMMA OwnStep ==
  ASSUME TypeInv, Next, NEW x \in Servers, worker'[x] # worker[x]
  PROVE  Worker(x)
<1>1. ASSUME NEW u \in Users, Client(u) PROVE FALSE
  BY <1>1, ClientSteps DEF ClientStep
<1>2. ASSUME NEW v \in Servers, Serve(v) PROVE FALSE
  BY <1>2 DEF Serve
<1>3. ASSUME NEW v \in Servers, Worker(v) PROVE Worker(x)
  <2>1. CASE \/ \E u \in Users : LoginApplyList(v, u)
             \/ LoginFriendList(v) \/ LoginSetIp(v) \/ LoginBind(v) \/ Reply(v)
    BY <1>3, <2>1, LoginMoves
  <2>2. CASE \/ \E u \in Users : BeginRequest(v, u)
             \/ InsertApply(v) \/ AcceptApply(v) \/ InsertFirst(v)
             \/ InsertSecond(v) \/ StatementFails(v)
             \/ Lookup(v) \/ LookupFails(v) \/ NotifyLocal(v)
             \/ CallReturns(v) \/ CallFails(v) \/ Reply(v)
    BY <1>3, <2>2, HandlerFrame
  <2> QED
    BY <1>3, <2>1, <2>2 DEF Worker
<1> QED
  BY <1>1, <1>2, <1>3 DEF Next

\* A handler whose recipient stays goes on, until it answers.
LEMMA SteadyGoesOn ==
  ASSUME TypeInv, ReceivedFits, SteadyOnline, OrderStep,
         NEW x \in steady, x \in steady'
  PROVE  /\ x \in Servers /\ worker[x].pc \in HandlerPcs
         /\ worker[x].req \in Request /\ Online(worker[x].req.to)
         /\ worker'[x].pc \in HandlerPcs /\ worker'[x].req = worker[x].req
<1>1. x \in Servers /\ Busy(x) /\ Online(worker[x].req.to)
  BY DEF SteadyOnline, ReceivedFits
<1>2. worker[x].pc \in HandlerPcs
  BY <1>1, WorkerShape
<1>3. worker[x].req \in Request
  BY <1>1, <1>2, RequestsTyped
<1>4. worker'[x].pc \in HandlerPcs /\ worker'[x].req = worker[x].req
  <2>1. CASE ClientStep \/ \E c \in rpcs : ServeStep(c)
    BY <1>2, <2>1 DEF ClientStep, ServeStep
  <2>2. ASSUME NEW v \in Servers, LoginStep(v) PROVE worker'[x] = worker[x]
    BY <1>1, <2>2 DEF LoginStep
  <2>3. ASSUME NEW v \in Servers, NEW u \in Users, BeginRequest(v, u)
        PROVE  worker'[x] = worker[x]
    BY <1>1, <2>3, BeginDetails
  <2>4. ASSUME NEW v \in Servers, PlainStep(v) \/ CallStep(v) \/ LocalStep(v)
                                    \/ EndStep(v)
        PROVE  worker'[x].pc \in HandlerPcs /\ worker'[x].req = worker[x].req
    <3>1. PICK here \in HandlerPcs, next \in HandlerPcs : WorkerMoves(v, here, next)
      BY <2>4 DEF PlainStep, CallStep, LocalStep, EndStep, BeforeCall,
                  HandlerPcs, EarlyPcs, LatePcs
    <3>2. next # "idle"
      BY DEF HandlerPcs, EarlyPcs, LatePcs
    <3>3. CASE x = v
      BY <3>1, <3>2, <3>3 DEF WorkerMoves
    <3>4. CASE x # v
      BY <1>1, <1>2, <3>1, <3>4 DEF WorkerMoves
    <3> QED
      BY <3>3, <3>4
  <2>5. ASSUME NEW v \in Servers, ReplyStep(v) PROVE worker'[x] = worker[x]
    BY <1>1, <2>5 DEF ReplyStep, WorkerMoves
  <2> QED
    BY <1>2, <2>1, <2>2, <2>3, <2>4, <2>5 DEF OrderStep
<1> QED
  BY <1>1, <1>2, <1>3, <1>4

LEMMA SteadyOnlinePreserved ==
  ASSUME TypeInv, TypeInv', SessionFits, ReceivedFits, SteadyOnline, Next, OrderStep
  PROVE  SteadyOnline'
<1>1. ASSUME NEW x \in steady', x \in steady
      PROVE  Busy(x)' /\ Online(worker[x].req.to)'
  <2>1. /\ x \in Servers /\ conn[worker[x].req.to].state = "on"
        /\ worker'[x].pc \in HandlerPcs /\ worker'[x].req = worker[x].req
    BY <1>1, SteadyGoesOn DEF Online
  <2>2. conn'[worker[x].req.to] = conn[worker[x].req.to]
    BY <1>1, RecipientStays
  <2> QED
    BY <2>1, <2>2, NextShape DEF Online
<1>2. ASSUME NEW v \in Servers, NEW u \in Users, BeginRequest(v, u),
             NEW x \in steady', x \notin steady
      PROVE  Busy(x)' /\ Online(worker[x].req.to)'
  <2>1. /\ x = v /\ Online(worker'[v].req.to) /\ conn' = conn
        /\ worker'[v].pc \in HandlerPcs
    BY <1>2, BeginDetails DEF HandlerPcs
  <2> QED
    BY <2>1, NextShape DEF Online
<1> QED
  BY <1>1, <1>2, SteadyStays DEF SteadyOnline

\* The steps of others.
LEMMA RouteFrame ==
  ASSUME TypeInv, OrderInv, SessionFits, SteadyFits, Next, OrderStep,
         NEW x \in steady, x \in steady', worker'[x] = worker[x],
         NEW r \in Request, worker[x].req = r
  PROVE  /\ worker[x].pc = "local" => conn'[r.to].server = x
         /\ worker[x].pc = "rpc" =>
              \A c \in rpcs' : c.req = r =>
                /\ c.state = "sent" => c.dest = conn'[r.to].server
                /\ c.state = "done" => Delivered(r)'
         /\ worker[x].pc = "reply" => Delivered(r)'
<1>1. ReceivedFits /\ SteadyOnline /\ OneHandler
  BY DEF OrderInv, HandlersApart, SteadyFits
<1>2. x \in Servers /\ Busy(x) /\ conn[r.to].state = "on" /\ r.to \in Users
  BY <1>1 DEF SteadyOnline, ReceivedFits, Online, Request
<1>3. conn'[r.to] = conn[r.to]
  BY <1>1, RecipientStays
<1>4. Delivered(r) => Delivered(r)'
  BY <1>1, DeliveredStays
<1>5. ASSUME worker[x].pc = "rpc", NEW d \in rpcs', d.req = r
      PROVE  /\ d.state = "sent" => d.dest = conn'[r.to].server
             /\ d.state = "done" => Delivered(r)'
  <2>1. CASE d \in rpcs
    BY <1>3, <1>4, <1>5, <2>1 DEF SteadyFits, SteadyRoute
  <2>2. CASE d \notin rpcs
    <3>1. ASSUME NEW v \in Servers, CallStep(v) PROVE FALSE
      <4>1. d = Call(v, worker[v].req)
        BY <2>2, <3>1 DEF CallStep
      <4>2. worker[v].pc = "lookup" /\ worker[v].req = r
        BY <1>5, <3>1, <4>1 DEF Call, CallStep, WorkerMoves
      <4>3. Busy(v)
        BY <4>2 DEF Busy
      <4>4. v = x
        BY <1>1, <1>2, <4>2, <4>3 DEF OneHandler
      <4> QED
        BY <1>5, <4>2, <4>4
    <3>2. \E v \in Servers : Serve(v)
      <4>1. \E c \in rpcs : ServeStep(c)
        BY <2>2, <3>1 DEF OrderStep, ClientStep, LoginStep, BeginRequest,
                          PlainStep, LocalStep, EndStep, ReplyStep
      <4>2. worker' = worker /\ ~(rpcs' \subseteq rpcs)
        BY <2>2, <4>1 DEF ServeStep
      <4>3. ASSUME NEW u \in Users, Client(u) PROVE FALSE
        BY <4>2, <4>3, ClientSteps DEF ClientStep
      <4>4. ASSUME NEW v \in Servers, Worker(v) PROVE FALSE
        <5>1. ~Lookup(v)
          BY <4>2, GotoEffect DEF Lookup, Goto, HandlerPcs, EarlyPcs, LatePcs
        <5> QED
          BY <4>2, <4>4, <5>1
             DEF Worker, LoginApplyList, BeginRequest, LoginFriendList,
                 LoginSetIp, LoginBind, InsertApply, AcceptApply, InsertFirst,
                 InsertSecond, StatementFails, LookupFails, NotifyLocal,
                 CallReturns, CallFails, Reply
      <4> QED
        BY <4>3, <4>4 DEF Next
    <3>3. PICK v \in Servers : Serve(v)
      BY <3>2
    <3>4. PICK c \in rpcs : /\ c.dest = v /\ c.state = "sent"
                            /\ Deliver(v, c.req) /\ CallServed(c)
      BY <3>3 DEF Serve
    <3>5. d = [c EXCEPT !.state = "done"]
      BY <2>2, <3>4 DEF CallServed
    <3>6. d.state = "done" /\ c.req = r
      BY <1>5, <3>5 DEF TypeInv, CallState
    <3>7. conn[r.to].server = v
      BY <1>5, <3>4, <3>6 DEF SteadyFits, SteadyRoute
    <3>8. r.to \in uid_session[v]
      BY <1>2, <3>7 DEF SessionFits, OnlineFits, Online
    <3>9. Delivered(r)'
      BY <1>1, <3>4, <3>6, <3>8, DeliverDelivers
    <3> QED
      BY <3>6, <3>9
  <2> QED
    BY <2>1, <2>2
<1> QED
  BY <1>3, <1>4, <1>5 DEF SteadyFits, SteadyRoute

\* The steps of the handler itself.
LEMMA RouteMoves ==
  ASSUME TypeInv, OrderInv, SessionFits, SteadyFits, Next, OrderStep,
         NEW x \in steady, x \in steady', worker'[x] # worker[x],
         NEW r \in Request, worker[x].req = r
  PROVE  /\ worker'[x].pc = "local" => conn'[r.to].server = x
         /\ worker'[x].pc = "rpc" =>
              \A c \in rpcs' : c.req = r =>
                /\ c.state = "sent" => c.dest = conn'[r.to].server
                /\ c.state = "done" => Delivered(r)'
         /\ worker'[x].pc = "reply" => Delivered(r)'
<1> USE DEF HandlerPcs, EarlyPcs, LatePcs
<1>1. ReceivedFits /\ SteadyOnline /\ OneCall
  BY DEF OrderInv, HandlersApart, SteadyFits
<1>2. x \in Servers /\ worker[x].pc \in HandlerPcs /\ Busy(x)
      /\ conn[r.to].state = "on" /\ r.to \in Users
  BY <1>1, SteadyGoesOn DEF SteadyOnline, Online, Request
<1>3. conn'[r.to] = conn[r.to]
  BY <1>1, RecipientStays
<1>4. /\ conn[r.to].server \in Servers /\ r.to \in uid_session[conn[r.to].server]
      /\ uip[r.to] = conn[r.to].server
  BY <1>2 DEF SessionFits, OnlineFits, Online
<1>5. Delivered(r) => Delivered(r)'
  BY <1>1, DeliveredStays
<1>6. CASE InsertApply(x) \/ AcceptApply(x) \/ InsertFirst(x)
           \/ InsertSecond(x) \/ StatementFails(x)
  <2>1. PICK here \in EarlyPcs, next \in EarlyPcs : Goto(x, here, next)
    BY <1>6 DEF InsertApply, AcceptApply, InsertFirst, InsertSecond, StatementFails
  <2>2. worker'[x].pc \in EarlyPcs
    BY <1>2, <2>1, GotoEffect
  <2> QED
    BY <2>2
<1>7. CASE Lookup(x)
  <2>1. \/ uip[r.to] = NoServer
        \/ uip[r.to] = x /\ Goto(x, "lookup", "local")
        \/ /\ Goto(x, "lookup", "rpc") /\ worker[x].pc = "lookup"
           /\ rpcs' = rpcs \cup {Call(x, r)}
    BY <1>7 DEF Lookup
  <2>2. uip[r.to] # NoServer
    BY <1>4, MessagingAssumption
  <2>3. CASE uip[r.to] = x /\ Goto(x, "lookup", "local")
    <3>1. worker'[x].pc = "local"
      BY <1>2, <2>3, GotoEffect
    <3> QED
      BY <1>3, <1>4, <2>3, <3>1
  <2>4. CASE /\ Goto(x, "lookup", "rpc") /\ worker[x].pc = "lookup"
             /\ rpcs' = rpcs \cup {Call(x, r)}
    <3>1. worker'[x].pc = "rpc"
      BY <1>2, <2>4, GotoEffect
    <3>2. \A c \in rpcs : c.req # r
      BY <1>1, <1>2, <2>4 DEF OneCall, BeforeCall
    <3>3. Call(x, r).state = "sent" /\ Call(x, r).dest = uip[r.to]
      BY DEF Call
    <3> QED
      BY <1>3, <1>4, <2>4, <3>1, <3>2, <3>3
  <2> QED
    BY <2>1, <2>2, <2>3, <2>4
<1>8. CASE LookupFails(x) \/ CallFails(x)
  <2>1. PICK here \in {"lookup", "rpc"} : Goto(x, here, "reply")
    BY <1>8 DEF LookupFails, CallFails
  <2>2. worker'[x].pc = "reply"
    BY <1>2, <2>1, GotoEffect
  <2>3. <<r.from, r.to>> \in failed'
    BY <1>8 DEF LookupFails, CallFails, Fails
  <2> QED
    BY <2>2, <2>3 DEF Delivered
<1>9. CASE NotifyLocal(x)
  <2>1. worker[x].pc = "local" /\ worker'[x].pc = "reply"
    BY <1>2, <1>9, GotoEffect DEF NotifyLocal
  <2>2. conn[r.to].server = x
    BY <2>1 DEF SteadyFits, SteadyRoute
  <2>3. Deliver(x, r)
    BY <1>9 DEF NotifyLocal
  <2>4. Delivered(r)'
    BY <1>1, <1>2, <1>4, <2>2, <2>3, DeliverDelivers
  <2> QED
    BY <2>1, <2>4
<1>10. CASE CallReturns(x)
  <2>1. worker[x].pc = "rpc" /\ worker'[x].pc = "reply"
    BY <1>2, <1>10, GotoEffect DEF CallReturns
  <2>2. PICK c \in rpcs : c.state = "done" /\ WaitsFor(x, c)
    BY <1>10 DEF CallReturns
  <2>3. Delivered(r)
    BY <2>1, <2>2 DEF SteadyFits, SteadyRoute, WaitsFor
  <2> QED
    BY <1>5, <2>1, <2>3
<1>11. CASE Reply(x)
  BY <1>11 DEF Reply
<1>12. CASE \/ \E u \in Users : LoginApplyList(x, u) \/ BeginRequest(x, u)
            \/ LoginFriendList(x) \/ LoginSetIp(x) \/ LoginBind(x)
  BY <1>2, <1>12 DEF LoginApplyList, BeginRequest, LoginFriendList, LoginSetIp,
                     LoginBind
<1>13. Worker(x)
  BY <1>2, OwnStep
<1> QED
  BY <1>6, <1>7, <1>8, <1>9, <1>10, <1>11, <1>12, <1>13 DEF Worker

LEMMA SteadyPreserved ==
  ASSUME TypeInv, TypeInv', OrderInv, SessionFits, SteadyFits, [Next]_vars
  PROVE  SteadyFits'
<1>1. CASE UNCHANGED vars
  BY <1>1 DEF vars, SteadyFits, SteadyOnline, SteadyRoute, Busy, Online,
              Delivered, Got
<1>2. CASE Next
  <2>1. OrderStep /\ ReceivedFits /\ SteadyOnline
    BY <1>2, OrderSteps DEF OrderInv, SteadyFits
  <2>2. SteadyOnline'
    BY <1>2, <2>1, SteadyOnlinePreserved
  <2>3. ASSUME NEW x \in steady', x \in steady, NEW r \in Request,
               worker'[x].req = r
        PROVE  /\ worker'[x].pc = "local" => conn'[r.to].server = x
               /\ worker'[x].pc = "rpc" =>
                    \A c \in rpcs' : c.req = r =>
                      /\ c.state = "sent" => c.dest = conn'[r.to].server
                      /\ c.state = "done" => Delivered(r)'
               /\ worker'[x].pc = "reply" => Delivered(r)'
    <3>1. worker[x].req = r
      BY <2>1, <2>3, SteadyGoesOn
    <3>2. CASE worker'[x] = worker[x]
      BY <1>2, <2>1, <2>3, <3>1, <3>2, RouteFrame
    <3>3. CASE worker'[x] # worker[x]
      BY <1>2, <2>1, <2>3, <3>1, <3>3, RouteMoves
    <3> QED
      BY <3>2, <3>3
  <2>4. ASSUME NEW x \in steady', x \notin steady
        PROVE  worker'[x].pc \in EarlyPcs
    BY <1>2, <2>4, SteadyStays, BeginDetails
  <2>5. ASSUME NEW x \in steady', x \in steady
        PROVE  worker'[x].req \in Request
    BY <2>1, <2>5, SteadyGoesOn
  <2>6. ASSUME NEW x \in steady'
        PROVE  LET r == worker'[x].req IN
               /\ worker'[x].pc = "local" => conn'[r.to].server = x
               /\ worker'[x].pc = "rpc" =>
                    \A c \in rpcs' : c.req = r =>
                      /\ c.state = "sent" => c.dest = conn'[r.to].server
                      /\ c.state = "done" => Delivered(worker[x].req)'
               /\ worker'[x].pc = "reply" => Delivered(worker[x].req)'
    <3>1. CASE x \in steady
      <4>1. PICK r \in Request : worker'[x].req = r
        BY <2>5, <3>1
      <4>2. Delivered(r)' => Delivered(worker[x].req)'
        BY <4>1 DEF Delivered, Got
      <4> QED
        BY <2>3, <3>1, <4>1, <4>2
    <3>2. CASE x \notin steady
      BY <2>4, <3>2 DEF EarlyPcs
    <3> QED
      BY <3>1, <3>2
  <2>7. SteadyRoute'
    BY <2>6 DEF SteadyRoute
  <2> QED
    BY <2>2, <2>7 DEF SteadyFits
<1> QED
  BY <1>1, <1>2

\* A text to a user who stays on, on whatever server, has been received when
\* its sender gets the answer, unless the lookup or the call failed: for any
\* numbers of users, servers and texts.
THEOREM TextsAreDelivered == Spec => []TextDelivered
<1>1. Init => SessionFits /\ SteadyFits
  <2>1. Init => SteadyFits
    BY DEF Init, SteadyFits, SteadyOnline, SteadyRoute
  <2>2. Init => SessionFits
    BY DEF Init, Idle, Off, SessionFits, LoginFits, OnlineFits, Online, LoginPcs
  <2> QED
    BY <2>1, <2>2
<1>2. /\ TypeInv /\ TypeInv' /\ OrderInv /\ SessionFits /\ SteadyFits
      /\ [Next]_vars
      => OrderInv' /\ SessionFits' /\ SteadyFits'
  BY OrderPreserved, FitsPreserved, SteadyPreserved
<1>3. SteadyFits => TextDelivered
  BY DEF SteadyFits, SteadyRoute, TextDelivered, Delivered, Got
<1> QED
  BY <1>1, <1>2, <1>3, InitOrder, TypesInvariant, PTL DEF Spec
=============================================================================
