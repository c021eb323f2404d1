---------------------------- MODULE PresenceProofs ----------------------------
(***************************************************************************)
(* Theorems about the bindings of users to sessions, the "uip_" keys and   *)
(* the login counts, for any numbers of servers, connections, users and    *)
(* logins; those about the bindings hold whether or not Redis fails.       *)
(*                                                                         *)
(* The first part is about Presence, the second about ServerLife, where    *)
(* servers stop, crash and restart as well.  Most steps of the second are  *)
(* steps of the first, whose lemmas are used as they are.                  *)
(***************************************************************************)
EXTENDS ServerLife, SequenceTheorems, FiniteSetTheorems, TLAPS

(***************************************************************************)
(* Queues, and their elements.                                             *)
(***************************************************************************)

Elements(q) == {q[i] : i \in 1 .. Len(q)}

\* A push adds the new element and no other.
LEMMA ElementsOfAppend ==
  ASSUME NEW S, NEW q \in Seq(S), NEW e \in S
  PROVE  Elements(Append(q, e)) = Elements(q) \cup {e}
BY DEF Elements

\* The front is an element, and removing it adds none.
LEMMA ElementsOfTail ==
  ASSUME NEW S, NEW q \in Seq(S), q # << >>
  PROVE  Head(q) \in Elements(q) /\ Elements(Tail(q)) \subseteq Elements(q)
BY DEF Elements

\* The elements are those of the set the queue is over; an empty queue has none.
LEMMA ElementsTyped ==
  ASSUME NEW S, NEW q \in Seq(S)
  PROVE  Elements(q) \subseteq S /\ Elements(<< >>) = {}
BY DEF Elements

-----------------------------------------------------------------------------
(***************************************************************************)
(* The inductive invariant.  A binding is made by a queued login, so it is *)
(* related to the logins sent over the connection; close() removes it only *)
(* if the connection still has the uid, so that relation has to last from  *)
(* the login to the close; and two sessions that use one uid must have     *)
(* been noticed when the second login was sent.                            *)
(***************************************************************************)

\* The uids sent over s, and the logins queued on v.
Sent(s)   == Elements(logins[s])
Queued(v) == Elements(inbox[v])

HasQueued(s) == \E m \in Queued(Home[s]) : m.session = s

\* close() works on a connection of its server that is read no more, is not
\* closed yet, and is logged in.
IoOwnsSession ==
  \A v \in Servers :
    IF io[v].pc = "idle" THEN io[v].session = NoSession
    ELSE /\ io[v].session \in Sessions
         /\ Home[io[v].session] = v
         /\ reading[io[v].session] = "dead"
         /\ ~b_close[io[v].session]
         /\ user_uid[io[v].session] # NoUid

ClosedIsDead == \A s \in Sessions : b_close[s] => reading[s] = "dead"

\* The login being handled is the front of the queue.
WorkerHasLogin == \A v \in Servers : worker[v].pc # "idle" => inbox[v] # << >>

\* Queued logins, _user_uid and bindings come from logins sent over the
\* connection, to its server; a connection that is new has sent none.
QueuedWasSent ==
  \A v \in Servers : \A m \in Queued(v) :
    Home[m.session] = v /\ m.uid \in Sent(m.session)

UidWasSent ==
  \A s \in Sessions : user_uid[s] # NoUid => user_uid[s] \in Sent(s)

BoundWasSent ==
  \A v \in Servers, u \in Uids, s \in Sessions :
    uid_session[v][u] = s => Home[s] = v /\ u \in Sent(s)

NewIsSilent == \A s \in Sessions : reading[s] = "new" => Sent(s) = {}

\* A login of a dead connection is queued only if the client was hasty.
DeadIsHasty ==
  \A s \in Sessions : reading[s] = "dead" /\ HasQueued(s) => s \in hasty

\* When a session is about to be bound to a uid it has it, unless it died.
UidSetBeforeBinding ==
  \A v \in Servers :
    worker[v].pc \in {"set_ip", "bind"} =>
      \/ reading[Head(inbox[v]).session] = "dead"
      \/ user_uid[Head(inbox[v]).session] = Head(inbox[v]).uid

\* A session bound to the only uid it has used, and not hasty, has the uid,
\* and is neither closed nor past the removal of its binding.
BindingLasts ==
  \A v \in Servers, u \in Uids, s \in Sessions :
    uid_session[v][u] = s /\ s \notin hasty /\ Sent(s) \subseteq {u} =>
      /\ user_uid[s] = u
      /\ ~b_close[s]
      /\ ~(io[v].pc = "finish" /\ io[v].session = s)

\* s may still take or remove a binding.
Involved(s) ==
  reading[s] = "open" \/ HasQueued(s) \/ io[Home[s]].session = s

\* Two connections to a server that can affect the binding of one uid.
RivalsAreContested ==
  \A s, t \in Sessions, u \in Uids :
    /\ s # t /\ Home[s] = Home[t]
    /\ Involved(s) /\ Involved(t)
    /\ u \in Sent(s) /\ u \in Sent(t)
    => <<u, Home[s], Home[s]>> \in contested

Inv ==
  /\ TypeOK
  /\ IoOwnsSession /\ ClosedIsDead /\ WorkerHasLogin
  /\ QueuedWasSent /\ UidWasSent /\ BoundWasSent /\ NewIsSilent
  /\ DeadIsHasty /\ UidSetBeforeBinding
  /\ BindingLasts
  /\ RivalsAreContested
  /\ ReachableWhenLoggedIn

-----------------------------------------------------------------------------
\* What is queued are logins; what was sent are uids.
LEMMA QueuedTyped ==
  ASSUME TypeOK
  PROVE  /\ \A v \in Servers : Queued(v) \subseteq Login
         /\ \A s \in Sessions : Sent(s) \subseteq Uids
<1>1. /\ \A v \in Servers : inbox[v] \in Seq(Login)
      /\ \A s \in Sessions : logins[s] \in Seq(Uids)
  BY DEF TypeOK
<1> QED
  BY <1>1, ElementsTyped DEF Queued, Sent

\* The front of a queue that is not empty.
LEMMA FrontFacts ==
  ASSUME TypeOK, QueuedWasSent, NEW v \in Servers, inbox[v] # << >>
  PROVE  /\ Head(inbox[v]) \in Login
         /\ Head(inbox[v]) \in Queued(v)
         /\ Home[Head(inbox[v]).session] = v
         /\ Head(inbox[v]).uid \in Sent(Head(inbox[v]).session)
         /\ HasQueued(Head(inbox[v]).session)
         /\ Tail(inbox[v]) \in Seq(Login)
         /\ Elements(Tail(inbox[v])) \subseteq Queued(v)
<1>1. inbox[v] \in Seq(Login)
  BY DEF TypeOK
<1>2. Head(inbox[v]) \in Login /\ Tail(inbox[v]) \in Seq(Login)
  BY <1>1, HeadTailProperties
<1>3. /\ Head(inbox[v]) \in Queued(v)
      /\ Elements(Tail(inbox[v])) \subseteq Queued(v)
  BY <1>1, ElementsOfTail DEF Queued
<1> QED
  BY <1>2, <1>3 DEF QueuedWasSent, HasQueued

\* Nobody has connected yet.
LEMMA InitInv == Init => Inv
<1> SUFFICES ASSUME Init PROVE Inv
  OBVIOUS
<1>1. /\ << >> \in Seq(Login) /\ << >> \in Seq(Uids)
      /\ Elements(<< >>) = {}
  BY EmptySeq, ElementsTyped
<1>2. \A s \in Sessions : Sent(s) = {} /\ ~HasQueued(s)
  BY <1>1, PresenceAssumption DEF Init, Sent, HasQueued, Queued
<1>3. \A v \in Servers : Queued(v) = {}
  BY <1>1 DEF Init, Queued
<1>4. TypeOK
  BY <1>1, PresenceAssumption
     DEF Init, TypeOK, SessionsAreRead, WorkerIdle, IoIdle
<1>5. /\ IoOwnsSession /\ ClosedIsDead /\ WorkerHasLogin /\ UidSetBeforeBinding
  BY DEF Init, IoOwnsSession, ClosedIsDead, WorkerHasLogin,
         UidSetBeforeBinding, WorkerIdle, IoIdle
<1>6. QueuedWasSent /\ UidWasSent /\ NewIsSilent /\ DeadIsHasty
  BY <1>2, <1>3 DEF Init, QueuedWasSent, UidWasSent, NewIsSilent, DeadIsHasty
<1>7. BoundWasSent /\ BindingLasts
  BY PresenceAssumption DEF Init, BoundWasSent, BindingLasts
<1>8. RivalsAreContested
  BY <1>2 DEF RivalsAreContested
<1>9. ReachableWhenLoggedIn
  BY DEF Init, ReachableWhenLoggedIn, LoggedInAs
<1> QED
  BY <1>4, <1>5, <1>6, <1>7, <1>8, <1>9 DEF Inv

\* close() moves on.
LEMMA CloseMoves ==
  ASSUME TypeOK, NEW v \in Servers, NEW pc \in {"idle", "hset", "remove", "finish"},
         io' = [io EXCEPT ![v].pc = pc]
  PROVE  /\ io' \in [Servers -> [pc : {"idle", "hset", "remove", "finish"},
                              count : Nat, session : Sessions \cup {NoSession}]]
         /\ \A w \in Servers :
              /\ io'[w].session = io[w].session
              /\ io'[w].pc = IF w = v THEN pc ELSE io[w].pc
<1> DEFINE Closing == [pc : {"idle", "hset", "remove", "finish"},
                       count : Nat, session : Sessions \cup {NoSession}]
<1>1. io \in [Servers -> Closing]
  BY DEF TypeOK
<1>2. /\ io'[v] = [io[v] EXCEPT !.pc = pc]
      /\ \A w \in Servers \ {v} : io'[w] = io[w]
  BY <1>1
<1>3. io'[v] \in Closing /\ io'[v].pc = pc /\ io'[v].session = io[v].session
  BY <1>1, <1>2
<1> HIDE DEF Closing
<1>4. io' \in [Servers -> Closing]
  BY <1>1, <1>2, <1>3
<1> QED
  BY <1>2, <1>3, <1>4 DEF Closing

\* A connection is accepted.
LEMMA AcceptInv ==
  ASSUME Inv, NEW s \in Sessions, HandleAccept(s)
  PROVE  Inv'
<1>1. /\ reading[s] = "new" /\ io[Home[s]].pc = "idle"
      /\ reading' = [reading EXCEPT ![s] = "open"]
      /\ sessions' = [sessions EXCEPT ![Home[s]] = @ \cup {s}]
      /\ UNCHANGED <<b_close, user_uid, uid_session, inbox, worker, io,
                     logins, hasty, contested, login_count, uip, overlapped>>
  BY DEF HandleAccept, redis, history
<1>2. \A t \in Sessions : Sent(t)' = Sent(t) /\ (HasQueued(t)' <=> HasQueued(t))
  BY <1>1 DEF Sent, HasQueued, Queued
<1>3. \A v \in Servers : Queued(v)' = Queued(v)
  BY <1>1 DEF Queued
<1>4. Sent(s) = {} /\ user_uid[s] = NoUid
  BY <1>1 DEF Inv, NewIsSilent, UidWasSent
<1>5. TypeOK'
  <2>1. SessionsAreRead'
    <3> SUFFICES ASSUME NEW v \in Servers, NEW t \in Sessions
                 PROVE  t \in sessions'[v] <=>
                          Home[t] = v /\ (reading'[t] \in {"open", "thrown"} \/ io'[v].session = t)
      BY DEF SessionsAreRead
    <3>1. t \in sessions[v] <=>
            Home[t] = v /\ (reading[t] \in {"open", "thrown"} \/ io[v].session = t)
      BY DEF Inv, TypeOK, SessionsAreRead
    <3>2. /\ t \in sessions'[v] <=> t \in sessions[v] \/ (t = s /\ v = Home[s])
          /\ reading'[t] = IF t = s THEN "open" ELSE reading[t]
          /\ io' = io
      BY <1>1, PresenceAssumption DEF Inv, TypeOK
    <3> QED
      BY <3>1, <3>2
  <2> QED
    BY <1>1, <2>1, PresenceAssumption DEF Inv, TypeOK
<1>6. IoOwnsSession' /\ ClosedIsDead' /\ WorkerHasLogin' /\ UidSetBeforeBinding'
  BY <1>1 DEF Inv, TypeOK, IoOwnsSession, ClosedIsDead, WorkerHasLogin,
               UidSetBeforeBinding
<1>7. /\ QueuedWasSent' /\ UidWasSent' /\ BoundWasSent' /\ NewIsSilent'
      /\ DeadIsHasty' /\ BindingLasts'
  <2>1. QueuedWasSent'
    BY <1>1, <1>2, <1>3, QueuedTyped DEF Inv, QueuedWasSent, Login
  <2>2. UidWasSent'
    BY <1>1, <1>2 DEF Inv, UidWasSent
  <2>3. BoundWasSent'
    BY <1>1, <1>2 DEF Inv, BoundWasSent
  <2>4. NewIsSilent'
    BY <1>1, <1>2 DEF Inv, TypeOK, NewIsSilent
  <2>5. DeadIsHasty'
    BY <1>1, <1>2 DEF Inv, TypeOK, DeadIsHasty
  <2>6. BindingLasts'
    BY <1>1, <1>2 DEF Inv, BindingLasts
  <2> QED
    BY <2>1, <2>2, <2>3, <2>4, <2>5, <2>6
<1>8. RivalsAreContested'
  BY <1>1, <1>2, <1>4 DEF Inv, TypeOK, RivalsAreContested, Involved
<1>9. ReachableWhenLoggedIn'
  BY <1>1, <1>4, PresenceAssumption
     DEF Inv, TypeOK, ReachableWhenLoggedIn, LoggedInAs, Binding
<1> QED
  BY <1>5, <1>6, <1>7, <1>8, <1>9 DEF Inv

\* A login arrives.
LEMMA PostInv ==
  ASSUME Inv, NEW s \in Sessions, NEW u \in Uids, PostLogin(s, u)
  PROVE  Inv'
<1> DEFINE v == Home[s]
           m == [session |-> s, uid |-> u]
<1>1. /\ reading[s] = "open" /\ io[v].pc = "idle" /\ worker[v].pc = "idle"
      /\ inbox' = [inbox EXCEPT ![v] = Append(@, m)]
      /\ logins' = [logins EXCEPT ![s] = Append(@, u)]
      /\ contested' = contested \cup {<<u, v, Home[t]>> : t \in Rivals(s, u)}
      /\ UNCHANGED <<reading, b_close, user_uid, sessions, uid_session, worker,
                     io, login_count, uip, hasty, overlapped>>
  BY DEF PostLogin, connection, redis
<1>2. v \in Servers /\ m \in Login /\ m.session = s /\ m.uid = u
  BY PresenceAssumption DEF Login
<1>3. /\ inbox[v] \in Seq(Login) /\ Append(inbox[v], m) \in Seq(Login)
      /\ Append(inbox[v], m) # << >>
      /\ logins[s] \in Seq(Uids) /\ Append(logins[s], u) \in Seq(Uids)
  <2>1. inbox[v] \in Seq(Login) /\ logins[s] \in Seq(Uids)
    BY <1>2 DEF Inv, TypeOK
  <2>2. Append(inbox[v], m) \in Seq(Login) /\ Append(inbox[v], m) # << >>
    BY <1>2, <2>1, AppendProperties
  <2>3. Append(logins[s], u) \in Seq(Uids)
    BY <2>1, AppendProperties
  <2> QED
    BY <2>1, <2>2, <2>3
<1>4. /\ Queued(v)' = Queued(v) \cup {m}
      /\ \A w \in Servers \ {v} : Queued(w)' = Queued(w)
  <2>1. Elements(Append(inbox[v], m)) = Elements(inbox[v]) \cup {m}
    BY <1>2, <1>3, ElementsOfAppend
  <2> QED
    BY <1>1, <1>2, <2>1 DEF Inv, TypeOK, Queued
<1>5. /\ Sent(s)' = Sent(s) \cup {u}
      /\ \A t \in Sessions \ {s} : Sent(t)' = Sent(t)
  <2>1. Elements(Append(logins[s], u)) = Elements(logins[s]) \cup {u}
    BY <1>3, ElementsOfAppend
  <2> QED
    BY <1>1, <2>1 DEF Inv, TypeOK, Sent
<1> HIDE DEF m
<1>6. \A t \in Sessions \ {s} : HasQueued(t)' <=> HasQueued(t)
  BY <1>2, <1>4, PresenceAssumption DEF HasQueued
<1>7. TypeOK'
  <2>1. {<<u, v, Home[t]>> : t \in Rivals(s, u)} \subseteq Uids \X Servers \X Servers
    BY <1>2, PresenceAssumption DEF Rivals
  <2>2. SessionsAreRead'
    BY <1>1 DEF Inv, TypeOK, SessionsAreRead
  <2>3. inbox' \in [Servers -> Seq(Login)] /\ logins' \in [Sessions -> Seq(Uids)]
    BY <1>1, <1>3 DEF Inv, TypeOK
  <2>4. contested' \subseteq Uids \X Servers \X Servers
    BY <1>1, <2>1 DEF Inv, TypeOK
  <2> QED
    BY <1>1, <2>2, <2>3, <2>4 DEF Inv, TypeOK
<1>8. IoOwnsSession' /\ ClosedIsDead'
  BY <1>1 DEF Inv, IoOwnsSession, ClosedIsDead
<1>9. WorkerHasLogin' /\ UidSetBeforeBinding'
  BY <1>1, <1>2, <1>3 DEF Inv, TypeOK, WorkerHasLogin, UidSetBeforeBinding
<1>10. QueuedWasSent'
  BY <1>2, <1>4, <1>5, QueuedTyped DEF Inv, QueuedWasSent, Login
<1>11. UidWasSent' /\ BoundWasSent'
  BY <1>1, <1>5 DEF Inv, UidWasSent, BoundWasSent
<1>12. NewIsSilent' /\ DeadIsHasty'
  BY <1>1, <1>5, <1>6 DEF Inv, NewIsSilent, DeadIsHasty
<1>13. BindingLasts'
  BY <1>1, <1>5 DEF Inv, BindingLasts
<1>14. RivalsAreContested'
  <2> SUFFICES ASSUME NEW t1 \in Sessions, NEW t2 \in Sessions, NEW w \in Uids,
                      t1 # t2, Home[t1] = Home[t2],
                      Involved(t1)', Involved(t2)', w \in Sent(t1)', w \in Sent(t2)'
               PROVE  <<w, Home[t1], Home[t1]>> \in contested'
    BY DEF RivalsAreContested
  <2>1. Involved(s) /\ \A t \in Sessions \ {s} : Involved(t)' => Involved(t)
    BY <1>1, <1>6 DEF Involved
  <2>2. \A t \in Sessions \ {s} :
          Home[t] = v /\ Involved(t) /\ u \in Sent(t) => t \in Rivals(s, u)
    <3>1. \A t \in Sessions : u \in Sent(t) => SentLogin(t, u)
      BY DEF Sent, Elements, SentLogin
    <3>2. \A t \in Sessions : HasQueued(t) => LoginQueued(t)
      BY DEF HasQueued, Queued, Elements, LoginQueued
    <3>3. \A t \in Sessions : Home[t] = v => io[Home[t]].session # t
      BY <1>1, <1>2, PresenceAssumption DEF Inv, IoOwnsSession
    <3> QED
      BY <3>1, <3>2, <3>3 DEF Involved, Rivals
  <2>3. CASE t1 # s /\ t2 # s
    BY <1>1, <1>5, <2>1, <2>3 DEF Inv, RivalsAreContested
  <2>4. CASE (t1 = s \/ t2 = s) /\ w # u
    BY <1>1, <1>5, <2>1, <2>4 DEF Inv, RivalsAreContested
  <2>5. CASE t1 = s /\ w = u
    BY <1>1, <1>5, <2>1, <2>2, <2>5
  <2>6. CASE t2 = s /\ w = u
    BY <1>1, <1>5, <2>1, <2>2, <2>6
  <2> QED
    BY <2>3, <2>4, <2>5, <2>6
<1>15. ReachableWhenLoggedIn'
  <2>1. \A t \in Sessions : Binding(t)' <=> Binding(t)
    BY <1>1, <1>2, PresenceAssumption DEF Inv, TypeOK, Binding
  <2> QED
    BY <1>1, <2>1 DEF Inv, ReachableWhenLoggedIn, LoggedInAs
<1> QED
  BY <1>7, <1>8, <1>9, <1>10, <1>11, <1>12, <1>13, <1>14, <1>15 DEF Inv

\* A connection is read no more: what the three ways that happens keep.
LEMMA EndOfReadingKeeps ==
  ASSUME Inv, NEW s \in Sessions, EndOfReading(s),
         \/ user_uid[s] = NoUid /\ UNCHANGED io
            /\ b_close' = [b_close EXCEPT ![s] = TRUE]
         \/ UNCHANGED <<io, b_close>>
         \/ /\ user_uid[s] # NoUid
            /\ UNCHANGED b_close
            /\ \E n \in Nat :
                 io' = [io EXCEPT ![Home[s]] =
                          [pc |-> "hset", count |-> n, session |-> s]],
         UNCHANGED <<user_uid, uid_session, inbox, worker, logins, contested>>
  PROVE  /\ IoOwnsSession' /\ ClosedIsDead' /\ WorkerHasLogin'
         /\ QueuedWasSent' /\ UidWasSent' /\ BoundWasSent' /\ NewIsSilent'
         /\ DeadIsHasty' /\ UidSetBeforeBinding'
         /\ BindingLasts'
         /\ RivalsAreContested'
         /\ ReachableWhenLoggedIn'
<1> DEFINE v == Home[s]
<1>1. /\ v \in Servers /\ io[v].pc = "idle" /\ reading[s] = "open"
      /\ reading' = [reading EXCEPT ![s] = "dead"]
      /\ hasty' = IF LoginQueued(s) THEN hasty \cup {s} ELSE hasty
  BY PresenceAssumption DEF EndOfReading
<1>2. /\ \A t \in Sessions : Sent(t)' = Sent(t) /\ (HasQueued(t)' <=> HasQueued(t))
      /\ \A w \in Servers : Queued(w)' = Queued(w)
  BY DEF Sent, HasQueued, Queued
<1>3. hasty \subseteq hasty' /\ (HasQueued(s) => s \in hasty')
  BY <1>1 DEF HasQueued, Queued, Elements, LoginQueued
<1>0. /\ \A w \in Servers :
           \/ io'[w] = io[w]
           \/ /\ w = v /\ io'[w].pc = "hset" /\ io'[w].session = s
              /\ user_uid[s] # NoUid /\ UNCHANGED b_close
      /\ \A t \in Sessions :
           \/ b_close'[t] = b_close[t]
           \/ t = s /\ user_uid[s] = NoUid
  <2>1. CASE UNCHANGED io /\ b_close' = [b_close EXCEPT ![s] = TRUE]
             /\ user_uid[s] = NoUid
    BY <2>1 DEF Inv, TypeOK
  <2>2. CASE UNCHANGED <<io, b_close>>
    BY <2>2
  <2>3. CASE /\ user_uid[s] # NoUid
             /\ UNCHANGED b_close
             /\ \E n \in Nat :
                  io' = [io EXCEPT ![Home[s]] =
                           [pc |-> "hset", count |-> n, session |-> s]]
    BY <1>1, <2>3 DEF Inv, TypeOK
  <2> QED
    BY <2>1, <2>2, <2>3
<1>4. IoOwnsSession'
  <2> SUFFICES ASSUME NEW w \in Servers
               PROVE  IF io'[w].pc = "idle" THEN io'[w].session = NoSession
                      ELSE /\ io'[w].session \in Sessions
                           /\ Home[io'[w].session] = w
                           /\ reading'[io'[w].session] = "dead"
                           /\ ~b_close'[io'[w].session]
                           /\ user_uid'[io'[w].session] # NoUid
    BY DEF IoOwnsSession
  <2>1. io[w].pc # "idle" => io[w].session # s
    BY <1>1 DEF Inv, IoOwnsSession
  <2>2. CASE io'[w] = io[w]
    <3>1. CASE io[w].pc = "idle"
      BY <2>2, <3>1 DEF Inv, IoOwnsSession
    <3>2. CASE io[w].pc # "idle"
      BY <1>0, <1>1, <2>1, <2>2, <3>2 DEF Inv, TypeOK, IoOwnsSession
    <3> QED
      BY <3>1, <3>2
  <2>3. CASE io'[w] # io[w]
    <3>1. b_close[s] = FALSE
      BY <1>1 DEF Inv, TypeOK, ClosedIsDead
    <3> QED
      BY <1>0, <1>1, <2>3, <3>1 DEF Inv, TypeOK
  <2> QED
    BY <2>2, <2>3
<1>5. ClosedIsDead'
  BY <1>1 DEF Inv, TypeOK, ClosedIsDead
<1>6. WorkerHasLogin'
  BY DEF Inv, WorkerHasLogin
<1>7. QueuedWasSent'
  BY <1>2, QueuedTyped DEF Inv, QueuedWasSent, Login
<1>8. UidWasSent' /\ BoundWasSent'
  BY <1>2 DEF Inv, UidWasSent, BoundWasSent
<1>9. NewIsSilent' /\ DeadIsHasty'
  BY <1>1, <1>2, <1>3 DEF Inv, TypeOK, NewIsSilent, DeadIsHasty
<1>10. UidSetBeforeBinding'
  <2> SUFFICES ASSUME NEW w \in Servers, worker[w].pc \in {"set_ip", "bind"}
               PROVE  \/ reading'[Head(inbox[w]).session] = "dead"
                      \/ user_uid[Head(inbox[w]).session] = Head(inbox[w]).uid
    BY DEF UidSetBeforeBinding
  <2>1. Head(inbox[w]).session \in Sessions
    BY FrontFacts DEF Inv, WorkerHasLogin, Login
  <2> QED
    BY <1>1, <2>1 DEF Inv, TypeOK, UidSetBeforeBinding
<1>11. BindingLasts'
  <2> SUFFICES ASSUME NEW w \in Servers, NEW u \in Uids, NEW t \in Sessions,
                      uid_session[w][u] = t, t \notin hasty', Sent(t) \subseteq {u}
               PROVE  /\ user_uid[t] = u
                      /\ ~b_close'[t]
                      /\ ~(io'[w].pc = "finish" /\ io'[w].session = t)
    BY <1>2 DEF BindingLasts
  <2>1. /\ user_uid[t] = u /\ ~b_close[t] /\ u # NoUid
        /\ ~(io[w].pc = "finish" /\ io[w].session = t)
    BY <1>3, PresenceAssumption DEF Inv, BindingLasts
  <2> QED
    BY <1>0, <2>1
<1>12. RivalsAreContested'
  <2>1. \A t \in Sessions : Involved(t)' => Involved(t)
    BY <1>0, <1>1, <1>2, PresenceAssumption DEF Inv, TypeOK, Involved
  <2> QED
    BY <1>2, <2>1 DEF Inv, RivalsAreContested
<1>13. ReachableWhenLoggedIn'
  <2>1. \A t \in Sessions : Binding(t)' <=> Binding(t)
    BY DEF Binding
  <2> QED
    BY <1>1, <2>1 DEF Inv, TypeOK, ReachableWhenLoggedIn, LoggedInAs
<1> QED
  BY <1>4, <1>5, <1>6, <1>7, <1>8, <1>9, <1>10, <1>11, <1>12, <1>13

\* The types after a connection is read no more.
LEMMA EndOfReadingTypes ==
  ASSUME Inv, NEW s \in Sessions, EndOfReading(s),
         \/ /\ UNCHANGED io
            /\ sessions' = [sessions EXCEPT ![Home[s]] = @ \ {s}]
         \/ /\ UNCHANGED sessions
            /\ \E n \in Nat :
                 io' = [io EXCEPT ![Home[s]] =
                          [pc |-> "hset", count |-> n, session |-> s]],
         b_close' \in [Sessions -> BOOLEAN],
         overlapped' \subseteq Servers,
         UNCHANGED <<user_uid, uid_session, inbox, worker, logins, contested,
                     login_count, uip>>
  PROVE  TypeOK'
<1> DEFINE v == Home[s]
<1>1. /\ v \in Servers /\ io[v].pc = "idle" /\ reading[s] = "open"
      /\ reading' = [reading EXCEPT ![s] = "dead"]
      /\ hasty' \subseteq Sessions
  BY PresenceAssumption DEF EndOfReading, Inv, TypeOK
<1>2. \A w \in Servers : \A t \in Sessions : io[w].session = t => Home[t] = w
  BY PresenceAssumption DEF Inv, IoOwnsSession
<1>3. \A w \in Servers : io[w].session # s
  BY <1>1, PresenceAssumption DEF Inv, IoOwnsSession
<1>4. SessionsAreRead'
  <2> SUFFICES ASSUME NEW w \in Servers, NEW t \in Sessions
               PROVE  t \in sessions'[w] <=>
                        Home[t] = w /\ (reading'[t] \in {"open", "thrown"} \/ io'[w].session = t)
    BY DEF SessionsAreRead
  <2>1. t \in sessions[w] <=>
          Home[t] = w /\ (reading[t] \in {"open", "thrown"} \/ io[w].session = t)
    BY DEF Inv, TypeOK, SessionsAreRead
  <2>2. reading'[t] = IF t = s THEN "dead" ELSE reading[t]
    BY <1>1 DEF Inv, TypeOK
  <2>3. CASE UNCHANGED io /\ sessions' = [sessions EXCEPT ![Home[s]] = @ \ {s}]
    BY <1>1, <1>3, <2>1, <2>2, <2>3 DEF Inv, TypeOK
  <2>4. CASE /\ UNCHANGED sessions
             /\ \E n \in Nat :
                  io' = [io EXCEPT ![Home[s]] =
                           [pc |-> "hset", count |-> n, session |-> s]]
    <3>1. io[v].session = NoSession /\ NoSession # t
      BY <1>1, PresenceAssumption DEF Inv, IoOwnsSession
    <3>2. io'[w].session = IF w = v THEN s ELSE io[w].session
      BY <1>1, <2>4 DEF Inv, TypeOK
    <3> QED
      BY <1>1, <1>2, <2>1, <2>2, <2>4, <3>1, <3>2
  <2> QED
    BY <2>3, <2>4
<1>5. /\ io' \in [Servers -> [pc : {"idle", "hset", "remove", "finish"},
                             count : Nat, session : Sessions \cup {NoSession}]]
      /\ sessions' \in [Servers -> SUBSET Sessions]
  <2>1. CASE UNCHANGED io /\ sessions' = [sessions EXCEPT ![Home[s]] = @ \ {s}]
    BY <1>1, <2>1 DEF Inv, TypeOK
  <2>2. CASE /\ UNCHANGED sessions
             /\ \E n \in Nat :
                  io' = [io EXCEPT ![Home[s]] =
                           [pc |-> "hset", count |-> n, session |-> s]]
    BY <1>1, <2>2 DEF Inv, TypeOK
  <2> QED
    BY <2>1, <2>2
<1> QED
  BY <1>1, <1>4, <1>5 DEF Inv, TypeOK

\* The count that is read is a number.
LEMMA CountIsNat ==
  ASSUME TypeOK, NEW v \in Servers
  PROVE  /\ CountRead(v) \subseteq Nat
         /\ \A n \in Nat : CountWritten(v, n) \subseteq Nat
BY DEF TypeOK, CountRead, CountWritten

\* A header is refused, or a read fails.
LEMMA EndInv ==
  ASSUME Inv, NEW s \in Sessions,
         RejectHeader(s) \/ CloseAnonymous(s) \/ CloseHGet(s)
  PROVE  Inv'
<1>1. CASE RejectHeader(s)
  <2>1. TypeOK'
    BY <1>1, EndOfReadingTypes DEF RejectHeader, Inv, TypeOK, redis
  <2> QED
    BY <1>1, <2>1, EndOfReadingKeeps DEF RejectHeader, Inv
<1>2. CASE CloseAnonymous(s)
  <2>1. TypeOK'
    BY <1>2, EndOfReadingTypes DEF CloseAnonymous, MarkClosed, Inv, TypeOK, redis
  <2> QED
    BY <1>2, <2>1, EndOfReadingKeeps DEF CloseAnonymous, MarkClosed, Inv
<1>3. CASE CloseHGet(s)
  <2>1. Home[s] \in Servers
    BY PresenceAssumption
  <2>2. \E n \in Nat :
           io' = [io EXCEPT ![Home[s]] =
                    [pc |-> "hset", count |-> n, session |-> s]]
    BY <1>3, <2>1, CountIsNat DEF CloseHGet, Inv
  <2>3. overlapped' \subseteq Servers
    BY <1>3, <2>1 DEF CloseHGet, Inv, TypeOK
  <2>4. TypeOK'
    BY <1>3, <2>2, <2>3, EndOfReadingTypes DEF CloseHGet, Inv, TypeOK, redis
  <2> QED
    BY <1>3, <2>2, <2>4, EndOfReadingKeeps DEF CloseHGet, Inv
<1> QED
  BY <1>1, <1>2, <1>3

\* An exception ends the reading of a connection: it can do less than before.
LEMMA ThrowInv ==
  ASSUME Inv, NEW s \in Sessions, ThrowHeader(s)
  PROVE  Inv'
<1>1. /\ reading[s] = "open"
      /\ reading' = [reading EXCEPT ![s] = "thrown"]
      /\ UNCHANGED <<b_close, user_uid, sessions, uid_session, inbox, worker, io,
                     logins, hasty, contested, login_count, uip, overlapped>>
  BY DEF ThrowHeader, redis, history
<1>2. /\ reading'[s] = "thrown"
      /\ \A t \in Sessions \ {s} : reading'[t] = reading[t]
  BY <1>1 DEF Inv, TypeOK
<1>3. /\ \A t \in Sessions : Sent(t)' = Sent(t) /\ (HasQueued(t)' <=> HasQueued(t))
      /\ \A v \in Servers : Queued(v)' = Queued(v)
  BY <1>1 DEF Sent, HasQueued, Queued
<1>4. TypeOK'
  <2>1. SessionsAreRead'
    BY <1>1, <1>2 DEF Inv, TypeOK, SessionsAreRead
  <2>2. reading' \in [Sessions -> {"new", "open", "dead", "thrown"}]
    BY <1>1 DEF Inv, TypeOK
  <2> QED
    BY <1>1, <2>1, <2>2 DEF Inv, TypeOK
<1>5. \A t \in Sessions :
        /\ reading[t] = "dead" <=> reading'[t] = "dead"
        /\ reading'[t] = "new" => reading[t] = "new"
        /\ reading'[t] = "open" => reading[t] = "open"
  BY <1>1, <1>2
<1>6. IoOwnsSession' /\ ClosedIsDead' /\ WorkerHasLogin' /\ NewIsSilent'
  BY <1>1, <1>3, <1>5
     DEF Inv, IoOwnsSession, ClosedIsDead, WorkerHasLogin, NewIsSilent
<1>7. QueuedWasSent' /\ UidWasSent' /\ BoundWasSent' /\ DeadIsHasty'
  <2>1. QueuedWasSent'
    BY <1>3, QueuedTyped DEF Inv, QueuedWasSent, Login
  <2> QED
    BY <1>1, <1>3, <1>5, <2>1 DEF Inv, UidWasSent, BoundWasSent, DeadIsHasty
<1>8. UidSetBeforeBinding'
  <2> SUFFICES ASSUME NEW v \in Servers, worker[v].pc \in {"set_ip", "bind"}
               PROVE  \/ reading'[Head(inbox[v]).session] = "dead"
                      \/ user_uid[Head(inbox[v]).session] = Head(inbox[v]).uid
    BY <1>1 DEF UidSetBeforeBinding
  <2>1. Head(inbox[v]).session \in Sessions
    BY FrontFacts DEF Inv, WorkerHasLogin, Login
  <2> QED
    BY <1>5, <2>1 DEF Inv, UidSetBeforeBinding
<1>9. BindingLasts'
  BY <1>1, <1>3 DEF Inv, BindingLasts
<1>10. RivalsAreContested'
  BY <1>1, <1>3, <1>5 DEF Inv, RivalsAreContested, Involved
<1>11. ReachableWhenLoggedIn'
  BY <1>1, <1>5 DEF Inv, ReachableWhenLoggedIn, LoggedInAs, Binding
<1> QED
  BY <1>4, <1>6, <1>7, <1>8, <1>9, <1>10, <1>11 DEF Inv

-----------------------------------------------------------------------------
\* Steps that touch neither connections, bindings nor logins, and do not
\* cross the program points the invariant speaks of.
LEMMA QuietInv ==
  ASSUME Inv, TypeOK',
         UNCHANGED <<reading, b_close, user_uid, uid_session, inbox, logins,
                     hasty, contested>>,
         \A v \in Servers :
           /\ io'[v].session = io[v].session
           /\ io'[v].pc = "idle" <=> io[v].pc = "idle"
           /\ io'[v].pc = "finish" <=> io[v].pc = "finish"
           /\ worker'[v].pc # "idle" => inbox[v] # << >>
           /\ worker'[v].pc \in {"set_ip", "bind"} <=>
                worker[v].pc \in {"set_ip", "bind"}
  PROVE  Inv'
<1>1. /\ \A t \in Sessions : Sent(t)' = Sent(t) /\ (HasQueued(t)' <=> HasQueued(t))
      /\ \A w \in Servers : Queued(w)' = Queued(w)
  BY DEF Sent, HasQueued, Queued
<1>2. \A t \in Sessions : (Binding(t)' <=> Binding(t)) /\ (Involved(t)' <=> Involved(t))
  BY <1>1, PresenceAssumption DEF Binding, Involved
<1>3. IoOwnsSession' /\ ClosedIsDead' /\ WorkerHasLogin' /\ UidSetBeforeBinding'
  BY DEF Inv, IoOwnsSession, ClosedIsDead, WorkerHasLogin, UidSetBeforeBinding
<1>4. QueuedWasSent'
  BY <1>1, QueuedTyped DEF Inv, QueuedWasSent, Login
<1>5. UidWasSent' /\ BoundWasSent' /\ NewIsSilent' /\ DeadIsHasty'
  BY <1>1 DEF Inv, UidWasSent, BoundWasSent, NewIsSilent, DeadIsHasty
<1>6. BindingLasts'
  BY <1>1 DEF Inv, BindingLasts
<1>7. RivalsAreContested'
  BY <1>1, <1>2 DEF Inv, RivalsAreContested
<1>8. ReachableWhenLoggedIn'
  BY <1>2 DEF Inv, ReachableWhenLoggedIn, LoggedInAs
<1> QED
  BY <1>3, <1>4, <1>5, <1>6, <1>7, <1>8 DEF Inv

\* close() writes the count.
LEMMA CloseHSetInv ==
  ASSUME Inv, NEW v \in Servers, CloseHSet(v)
  PROVE  Inv'
<1>1. PICK n \in Nat : login_count' = [login_count EXCEPT ![v] = n]
  <2>1. (IF io[v].count > 0 THEN io[v].count - 1 ELSE 0) \in Nat
    BY DEF Inv, TypeOK
  <2> QED
    BY <2>1, CountIsNat DEF CloseHSet, Inv
<1>2. /\ io[v].pc = "hset" /\ io' = [io EXCEPT ![v].pc = "remove"]
      /\ UNCHANGED <<reading, b_close, user_uid, sessions, uid_session, inbox,
                     worker, uip, logins, hasty, contested, overlapped>>
  BY DEF CloseHSet, connection, history
<1>3. /\ io' \in [Servers -> [pc : {"idle", "hset", "remove", "finish"},
                             count : Nat, session : Sessions \cup {NoSession}]]
      /\ \A w \in Servers :
           /\ io'[w].session = io[w].session
           /\ io'[w].pc = IF w = v THEN "remove" ELSE io[w].pc
  BY <1>2, CloseMoves DEF Inv
<1>4. SessionsAreRead'
  BY <1>2, <1>3 DEF Inv, TypeOK, SessionsAreRead
<1>5. TypeOK'
  BY <1>1, <1>2, <1>3, <1>4 DEF Inv, TypeOK
<1>6. \A w \in Servers : worker[w].pc # "idle" => inbox[w] # << >>
  BY DEF Inv, WorkerHasLogin
<1> QED
  BY <1>2, <1>3, <1>5, <1>6, QuietInv

\* close() removes the binding of the uid of its session.
LEMMA CloseRemoveInv ==
  ASSUME Inv, NEW v \in Servers, CloseRemoveUserSession(v)
  PROVE  Inv'
<1> DEFINE x == io[v].session
<1>1. /\ io[v].pc = "remove" /\ io' = [io EXCEPT ![v].pc = "finish"]
      /\ uid_session' = [uid_session EXCEPT ![v][user_uid[x]] = NoSession]
      /\ UNCHANGED <<reading, b_close, user_uid, sessions, inbox, worker,
                     login_count, uip, logins, hasty, contested, overlapped>>
  BY DEF CloseRemoveUserSession, connection, history, redis
<1>2. /\ x \in Sessions /\ Home[x] = v /\ reading[x] = "dead"
      /\ user_uid[x] \in Uids
  BY <1>1 DEF Inv, IoOwnsSession, TypeOK
<1>3. /\ io' \in [Servers -> [pc : {"idle", "hset", "remove", "finish"},
                             count : Nat, session : Sessions \cup {NoSession}]]
      /\ \A w \in Servers :
           /\ io'[w].session = io[w].session
           /\ io'[w].pc = IF w = v THEN "finish" ELSE io[w].pc
  BY <1>1, CloseMoves DEF Inv
<1>4. /\ uid_session' \in [Servers -> [Uids -> Sessions \cup {NoSession}]]
      /\ \A w \in Servers, u \in Uids :
           uid_session'[w][u] = IF w = v /\ u = user_uid[x] THEN NoSession
                                                            ELSE uid_session[w][u]
  BY <1>1, <1>2 DEF Inv, TypeOK
<1>5. /\ \A t \in Sessions : Sent(t)' = Sent(t) /\ (HasQueued(t)' <=> HasQueued(t))
      /\ \A w \in Servers : Queued(w)' = Queued(w)
  BY <1>1 DEF Sent, HasQueued, Queued
<1>6. TypeOK'
  <2>1. SessionsAreRead'
    BY <1>1, <1>3 DEF Inv, TypeOK, SessionsAreRead
  <2> QED
    BY <1>1, <1>3, <1>4, <2>1 DEF Inv, TypeOK
<1>7. IoOwnsSession'
  BY <1>1, <1>3 DEF Inv, IoOwnsSession
<1>8. ClosedIsDead' /\ WorkerHasLogin' /\ UidSetBeforeBinding'
  BY <1>1 DEF Inv, ClosedIsDead, WorkerHasLogin, UidSetBeforeBinding
<1>9. QueuedWasSent'
  BY <1>5, QueuedTyped DEF Inv, QueuedWasSent, Login
<1>10. UidWasSent' /\ NewIsSilent' /\ DeadIsHasty'
  BY <1>1, <1>5 DEF Inv, UidWasSent, NewIsSilent, DeadIsHasty
<1>11. BoundWasSent'
  BY <1>4, <1>5, PresenceAssumption DEF Inv, BoundWasSent
<1>12. BindingLasts'
  <2> SUFFICES ASSUME NEW w \in Servers, NEW u \in Uids, NEW t \in Sessions,
                      uid_session'[w][u] = t, t \notin hasty, Sent(t) \subseteq {u}
               PROVE  /\ user_uid[t] = u
                      /\ ~b_close[t]
                      /\ ~(io'[w].pc = "finish" /\ io'[w].session = t)
    BY <1>1, <1>5 DEF BindingLasts
  <2>1. uid_session[w][u] = t /\ ~(w = v /\ u = user_uid[x])
    BY <1>4, PresenceAssumption
  <2>2. /\ user_uid[t] = u /\ ~b_close[t]
        /\ ~(io[w].pc = "finish" /\ io[w].session = t)
    BY <2>1 DEF Inv, BindingLasts
  <2> QED
    BY <1>3, <2>1, <2>2
<1>13. \A t \in Sessions : (Binding(t)' <=> Binding(t)) /\ (Involved(t)' <=> Involved(t))
  BY <1>1, <1>3, <1>5, PresenceAssumption DEF Binding, Involved
<1>14. RivalsAreContested'
  BY <1>1, <1>5, <1>13 DEF Inv, RivalsAreContested
<1>15. ReachableWhenLoggedIn'
  <2> SUFFICES ASSUME NEW t \in Sessions, NEW u \in Uids, LoggedInAs(t, u)'
               PROVE  \/ uid_session'[Home[t]][u] = t
                      \/ <<u, Home[t], Home[t]>> \in contested
    BY <1>1 DEF ReachableWhenLoggedIn
  <2>1. LoggedInAs(t, u) /\ reading[t] = "open" /\ user_uid[t] = u
    BY <1>1, <1>13 DEF LoggedInAs
  <2>2. \/ uid_session[Home[t]][u] = t
        \/ <<u, Home[t], Home[t]>> \in contested
    BY <2>1 DEF Inv, ReachableWhenLoggedIn
  <2>3. CASE Home[t] = v /\ u = user_uid[x]
    <3>1. t # x /\ Involved(t) /\ Involved(x)
      BY <1>2, <2>1 DEF Involved
    <3>2. u \in Sent(t) /\ u \in Sent(x)
      BY <1>2, <2>1, <2>3, PresenceAssumption DEF Inv, UidWasSent
    <3> QED
      BY <1>2, <2>3, <3>1, <3>2 DEF Inv, RivalsAreContested
  <2>4. CASE ~(Home[t] = v /\ u = user_uid[x])
    BY <1>4, <2>2, <2>4, PresenceAssumption
  <2> QED
    BY <2>3, <2>4
<1> QED
  BY <1>6, <1>7, <1>8, <1>9, <1>10, <1>11, <1>12, <1>14, <1>15 DEF Inv

\* close() ends the session.
LEMMA CloseFinishInv ==
  ASSUME Inv, NEW v \in Servers, CloseFinish(v)
  PROVE  Inv'
<1> DEFINE x == io[v].session
<1>1. /\ io[v].pc = "finish" /\ io' = [io EXCEPT ![v] = IoIdle]
      /\ user_uid' = [user_uid EXCEPT ![x] = NoUid]
      /\ b_close' = [b_close EXCEPT ![x] = TRUE]
      /\ sessions' = [sessions EXCEPT ![Home[x]] = @ \ {x}]
      /\ UNCHANGED <<reading, uid_session, inbox, worker,
                     login_count, uip, logins, hasty, contested, overlapped>>
  BY DEF CloseFinish, MarkClosed, history, redis
<1>2. x \in Sessions /\ Home[x] = v /\ reading[x] = "dead"
  BY <1>1 DEF Inv, IoOwnsSession
<1>3. /\ io' \in [Servers -> [pc : {"idle", "hset", "remove", "finish"},
                             count : Nat, session : Sessions \cup {NoSession}]]
      /\ \A w \in Servers : io'[w] = IF w = v THEN IoIdle ELSE io[w]
  BY <1>1 DEF Inv, TypeOK, IoIdle
<1>4. /\ user_uid' \in [Sessions -> Uids \cup {NoUid}]
      /\ b_close' \in [Sessions -> BOOLEAN]
      /\ \A t \in Sessions \ {x} : user_uid'[t] = user_uid[t] /\ b_close'[t] = b_close[t]
      /\ user_uid'[x] = NoUid
  BY <1>1, <1>2 DEF Inv, TypeOK
<1>5. /\ \A t \in Sessions : Sent(t)' = Sent(t) /\ (HasQueued(t)' <=> HasQueued(t))
      /\ \A w \in Servers : Queued(w)' = Queued(w)
  BY <1>1 DEF Sent, HasQueued, Queued
<1>6. \A w \in Servers \ {v} : io[w].session # x
  BY <1>2, PresenceAssumption DEF Inv, IoOwnsSession
<1>7. TypeOK'
  <2>1. SessionsAreRead'
    <3> SUFFICES ASSUME NEW w \in Servers, NEW t \in Sessions
                 PROVE  t \in sessions'[w] <=>
                          Home[t] = w /\ (reading[t] \in {"open", "thrown"} \/ io'[w].session = t)
      BY <1>1 DEF SessionsAreRead
    <3>1. t \in sessions[w] <=>
            Home[t] = w /\ (reading[t] \in {"open", "thrown"} \/ io[w].session = t)
      BY DEF Inv, TypeOK, SessionsAreRead
    <3>2. sessions'[w] = IF w = v THEN sessions[v] \ {x} ELSE sessions[w]
      BY <1>1, <1>2 DEF Inv, TypeOK
    <3>3. IoIdle.session = NoSession /\ NoSession # t
      BY PresenceAssumption DEF IoIdle
    <3> QED
      BY <1>2, <1>3, <3>1, <3>2, <3>3
  <2>2. sessions' \in [Servers -> SUBSET Sessions]
    BY <1>1, <1>2 DEF Inv, TypeOK
  <2> QED
    BY <1>1, <1>3, <1>4, <2>1, <2>2 DEF Inv, TypeOK
<1>8. IoOwnsSession'
  <2> SUFFICES ASSUME NEW w \in Servers
               PROVE  IF io'[w].pc = "idle" THEN io'[w].session = NoSession
                      ELSE /\ io'[w].session \in Sessions
                           /\ Home[io'[w].session] = w
                           /\ reading[io'[w].session] = "dead"
                           /\ ~b_close'[io'[w].session]
                           /\ user_uid'[io'[w].session] # NoUid
    BY <1>1 DEF IoOwnsSession
  <2>1. CASE w = v
    BY <1>3, <2>1 DEF IoIdle
  <2>2. CASE w # v
    <3>1. io'[w] = io[w] /\ io[w].session # x
      BY <1>3, <1>6, <2>2
    <3> QED
      BY <1>4, <3>1 DEF Inv, IoOwnsSession
  <2> QED
    BY <2>1, <2>2
<1>9. ClosedIsDead'
  BY <1>1, <1>2, <1>4 DEF Inv, ClosedIsDead
<1>10. WorkerHasLogin'
  BY <1>1 DEF Inv, WorkerHasLogin
<1>11. UidSetBeforeBinding'
  <2> SUFFICES ASSUME NEW w \in Servers, worker[w].pc \in {"set_ip", "bind"}
               PROVE  \/ reading[Head(inbox[w]).session] = "dead"
                      \/ user_uid'[Head(inbox[w]).session] = Head(inbox[w]).uid
    BY <1>1 DEF UidSetBeforeBinding
  <2>1. Head(inbox[w]).session \in Sessions
    BY FrontFacts DEF Inv, WorkerHasLogin, Login
  <2> QED
    BY <1>2, <1>4, <2>1 DEF Inv, UidSetBeforeBinding
<1>12. QueuedWasSent'
  BY <1>5, QueuedTyped DEF Inv, QueuedWasSent, Login
<1>13. UidWasSent' /\ BoundWasSent' /\ NewIsSilent' /\ DeadIsHasty'
  BY <1>1, <1>4, <1>5 DEF Inv, UidWasSent, BoundWasSent, NewIsSilent, DeadIsHasty
<1>14. BindingLasts'
  <2> SUFFICES ASSUME NEW w \in Servers, NEW u \in Uids, NEW t \in Sessions,
                      uid_session[w][u] = t, t \notin hasty, Sent(t) \subseteq {u}
               PROVE  /\ user_uid'[t] = u
                      /\ ~b_close'[t]
                      /\ ~(io'[w].pc = "finish" /\ io'[w].session = t)
    BY <1>1, <1>5 DEF BindingLasts
  <2>1. /\ user_uid[t] = u /\ ~b_close[t] /\ Home[t] = w
        /\ ~(io[w].pc = "finish" /\ io[w].session = t)
    BY DEF Inv, BindingLasts, BoundWasSent
  <2>2. t # x
    BY <1>1, <1>2, <2>1
  <2> QED
    BY <1>3, <1>4, <2>1, <2>2 DEF IoIdle
<1>15. \A t \in Sessions : (Binding(t)' <=> Binding(t)) /\ (Involved(t)' => Involved(t))
  BY <1>1, <1>3, <1>5, PresenceAssumption DEF Binding, Involved, IoIdle
<1>16. RivalsAreContested'
  BY <1>1, <1>5, <1>15 DEF Inv, RivalsAreContested
<1>17. ReachableWhenLoggedIn'
  BY <1>1, <1>4, <1>15, PresenceAssumption DEF Inv, ReachableWhenLoggedIn, LoggedInAs
<1> QED
  BY <1>7, <1>8, <1>9, <1>10, <1>11, <1>12, <1>13, <1>14, <1>16, <1>17 DEF Inv

-----------------------------------------------------------------------------
\* The login handler between two accesses the invariant does not see: it
\* reads the count, writes it, and publishes the server.
LEMMA LoginQuietInv ==
  ASSUME Inv, NEW v \in Servers, LoginHGet(v) \/ LoginHSet(v) \/ LoginSetIp(v)
  PROVE  Inv'
<1>1. inbox[v] # << >>
  BY DEF Inv, WorkerHasLogin, LoginHGet, LoginHSet, LoginSetIp
<1>2. UNCHANGED <<reading, b_close, user_uid, sessions, uid_session, inbox, io,
                  logins, hasty, contested>>
  BY DEF LoginHGet, LoginHSet, LoginSetIp, connection, history, redis
<1>3. CASE LoginHGet(v)
  <2>1. PICK n \in Nat : worker' = [worker EXCEPT ![v] = [pc |-> "hset", count |-> n]]
    BY <1>3, CountIsNat DEF LoginHGet, Inv
  <2>2. worker[v].pc = "idle" /\ overlapped' \subseteq Servers
        /\ UNCHANGED <<login_count, uip>>
    BY <1>3 DEF LoginHGet, Inv, TypeOK, redis
  <2>3. TypeOK'
    <3>1. SessionsAreRead'
      BY <1>2 DEF Inv, TypeOK, SessionsAreRead
    <3> QED
      BY <1>2, <2>1, <2>2, <3>1 DEF Inv, TypeOK
  <2>4. \A w \in Servers :
          /\ worker'[w].pc # "idle" => inbox[w] # << >>
          /\ worker'[w].pc \in {"set_ip", "bind"} <=>
               worker[w].pc \in {"set_ip", "bind"}
    BY <1>1, <2>1, <2>2 DEF Inv, TypeOK, WorkerHasLogin
  <2> QED
    BY <1>2, <2>3, <2>4, QuietInv
<1>4. CASE LoginHSet(v)
  <2>1. PICK n \in Nat : login_count' = [login_count EXCEPT ![v] = n]
    <3>1. worker[v].count + 1 \in Nat
      BY DEF Inv, TypeOK
    <3> QED
      BY <1>4, <3>1, CountIsNat DEF LoginHSet, Inv
  <2>2. /\ worker[v].pc = "hset" /\ worker' = [worker EXCEPT ![v].pc = "set_uid"]
        /\ UNCHANGED <<uip, overlapped>>
    BY <1>4 DEF LoginHSet, history
  <2>3. TypeOK'
    <3>1. SessionsAreRead'
      BY <1>2 DEF Inv, TypeOK, SessionsAreRead
    <3> QED
      BY <1>2, <2>1, <2>2, <3>1 DEF Inv, TypeOK
  <2>4. \A w \in Servers :
          /\ worker'[w].pc # "idle" => inbox[w] # << >>
          /\ worker'[w].pc \in {"set_ip", "bind"} <=>
               worker[w].pc \in {"set_ip", "bind"}
    BY <1>1, <2>2 DEF Inv, TypeOK, WorkerHasLogin
  <2> QED
    BY <1>2, <2>3, <2>4, QuietInv
<1>5. CASE LoginSetIp(v)
  <2>1. uip' \in [Uids -> Servers \cup {NoServer}]
    BY <1>5 DEF LoginSetIp, Inv, TypeOK
  <2>2. /\ worker[v].pc = "set_ip" /\ worker' = [worker EXCEPT ![v].pc = "bind"]
        /\ UNCHANGED <<login_count, overlapped>>
    BY <1>5 DEF LoginSetIp, history
  <2>3. TypeOK'
    <3>1. SessionsAreRead'
      BY <1>2 DEF Inv, TypeOK, SessionsAreRead
    <3> QED
      BY <1>2, <2>1, <2>2, <3>1 DEF Inv, TypeOK
  <2>4. \A w \in Servers :
          /\ worker'[w].pc # "idle" => inbox[w] # << >>
          /\ worker'[w].pc \in {"set_ip", "bind"} <=>
               worker[w].pc \in {"set_ip", "bind"}
    BY <1>1, <2>2 DEF Inv, TypeOK, WorkerHasLogin
  <2> QED
    BY <1>2, <2>3, <2>4, QuietInv
<1> QED
  BY <1>3, <1>4, <1>5

\* A login is refused.
LEMMA LoginRejectedInv ==
  ASSUME Inv, NEW v \in Servers, LoginRejected(v)
  PROVE  Inv'
<1>1. /\ worker[v].pc = "idle" /\ inbox[v] # << >>
      /\ inbox' = [inbox EXCEPT ![v] = Tail(@)]
      /\ UNCHANGED <<reading, b_close, user_uid, sessions, uid_session, worker, io,
                     login_count, uip, logins, hasty, contested, overlapped>>
  BY DEF LoginRejected, connection, history, redis
<1>2. /\ Tail(inbox[v]) \in Seq(Login)
      /\ Elements(Tail(inbox[v])) \subseteq Queued(v)
  BY <1>1, FrontFacts DEF Inv
<1>3. /\ inbox' \in [Servers -> Seq(Login)]
      /\ \A w \in Servers \ {v} : inbox'[w] = inbox[w]
      /\ inbox'[v] = Tail(inbox[v])
  BY <1>1, <1>2 DEF Inv, TypeOK
<1>4. /\ \A w \in Servers : Queued(w)' \subseteq Queued(w)
      /\ \A t \in Sessions : Sent(t)' = Sent(t)
  BY <1>1, <1>2, <1>3 DEF Queued, Sent
<1>5. \A t \in Sessions : HasQueued(t)' => HasQueued(t)
  BY <1>4, PresenceAssumption DEF HasQueued
<1>6. TypeOK'
  <2>1. SessionsAreRead'
    BY <1>1 DEF Inv, TypeOK, SessionsAreRead
  <2> QED
    BY <1>1, <1>3, <2>1 DEF Inv, TypeOK
<1>7. IoOwnsSession' /\ ClosedIsDead'
  BY <1>1 DEF Inv, IoOwnsSession, ClosedIsDead
<1>8. WorkerHasLogin' /\ UidSetBeforeBinding'
  BY <1>1, <1>3 DEF Inv, WorkerHasLogin, UidSetBeforeBinding
<1>9. QueuedWasSent'
  BY <1>4, QueuedTyped DEF Inv, QueuedWasSent, Login
<1>10. UidWasSent' /\ BoundWasSent' /\ NewIsSilent' /\ DeadIsHasty'
  BY <1>1, <1>4, <1>5 DEF Inv, UidWasSent, BoundWasSent, NewIsSilent, DeadIsHasty
<1>11. BindingLasts'
  BY <1>1, <1>4 DEF Inv, BindingLasts
<1>12. RivalsAreContested'
  <2>1. \A t \in Sessions : Involved(t)' => Involved(t)
    BY <1>1, <1>5 DEF Involved
  <2> QED
    BY <1>1, <1>4, <2>1 DEF Inv, RivalsAreContested
<1>13. ReachableWhenLoggedIn'
  <2>1. \A t \in Sessions : Binding(t)' <=> Binding(t)
    BY <1>1, <1>3, PresenceAssumption DEF Binding
  <2> QED
    BY <1>1, <2>1 DEF Inv, ReachableWhenLoggedIn, LoggedInAs
<1> QED
  BY <1>6, <1>7, <1>8, <1>9, <1>10, <1>11, <1>12, <1>13 DEF Inv

\* The session gets the uid.
LEMMA LoginSetUserIdInv ==
  ASSUME Inv, NEW v \in Servers, LoginSetUserId(v)
  PROVE  Inv'
<1> DEFINE h == Head(inbox[v])
           x == h.session
<1>1. /\ worker[v].pc = "set_uid"
      /\ user_uid' = [user_uid EXCEPT ![x] = h.uid]
      /\ worker' = [worker EXCEPT ![v].pc = "set_ip"]
      /\ UNCHANGED <<reading, b_close, sessions, uid_session, inbox, io,
                     login_count, uip, logins, hasty, contested, overlapped>>
  BY DEF LoginSetUserId, history, redis
<1>2. inbox[v] # << >>
  BY <1>1 DEF Inv, WorkerHasLogin
<1>3. /\ x \in Sessions /\ h.uid \in Uids /\ h.uid # NoUid
      /\ Home[x] = v /\ h.uid \in Sent(x)
  BY <1>2, FrontFacts, PresenceAssumption DEF Inv, Login
<1> HIDE DEF h
<1>4. /\ user_uid' \in [Sessions -> Uids \cup {NoUid}]
      /\ user_uid'[x] = h.uid
      /\ \A t \in Sessions \ {x} : user_uid'[t] = user_uid[t]
  BY <1>1, <1>3 DEF Inv, TypeOK
<1>5. /\ worker' \in [Servers -> [pc : {"idle", "hset", "set_uid", "set_ip", "bind"},
                                 count : Nat]]
      /\ worker'[v].pc = "set_ip"
      /\ \A w \in Servers \ {v} : worker'[w] = worker[w]
  BY <1>1 DEF Inv, TypeOK
<1>6. /\ \A t \in Sessions : Sent(t)' = Sent(t) /\ (HasQueued(t)' <=> HasQueued(t))
      /\ \A w \in Servers : Queued(w)' = Queued(w)
  BY <1>1 DEF Sent, HasQueued, Queued
<1>7. TypeOK'
  <2>1. SessionsAreRead'
    BY <1>1 DEF Inv, TypeOK, SessionsAreRead
  <2> QED
    BY <1>1, <1>4, <1>5, <2>1 DEF Inv, TypeOK
<1>8. IoOwnsSession'
  BY <1>1, <1>3, <1>4 DEF Inv, IoOwnsSession
<1>9. ClosedIsDead'
  BY <1>1 DEF Inv, ClosedIsDead
<1>10. WorkerHasLogin'
  BY <1>1, <1>2, <1>5 DEF Inv, WorkerHasLogin
<1>11. UidSetBeforeBinding'
  <2> SUFFICES ASSUME NEW w \in Servers, worker'[w].pc \in {"set_ip", "bind"}
               PROVE  \/ reading[Head(inbox[w]).session] = "dead"
                      \/ user_uid'[Head(inbox[w]).session] = Head(inbox[w]).uid
    BY <1>1 DEF UidSetBeforeBinding
  <2>1. CASE w = v
    BY <1>4, <2>1 DEF h
  <2>2. CASE w # v
    <3>1. worker[w].pc \in {"set_ip", "bind"} /\ inbox[w] # << >>
      BY <1>5, <2>2 DEF Inv, WorkerHasLogin
    <3>2. Head(inbox[w]).session \in Sessions /\ Home[Head(inbox[w]).session] = w
      BY <3>1, FrontFacts DEF Inv, Login
    <3> QED
      BY <1>3, <1>4, <2>2, <3>1, <3>2 DEF Inv, UidSetBeforeBinding
  <2> QED
    BY <2>1, <2>2
<1>12. QueuedWasSent'
  BY <1>6, QueuedTyped DEF Inv, QueuedWasSent, Login
<1>13. UidWasSent' /\ BoundWasSent' /\ NewIsSilent' /\ DeadIsHasty'
  BY <1>1, <1>3, <1>4, <1>6 DEF Inv, UidWasSent, BoundWasSent, NewIsSilent, DeadIsHasty
<1>14. BindingLasts'
  BY <1>1, <1>3, <1>4, <1>6 DEF Inv, BindingLasts
<1>15. RivalsAreContested'
  <2>1. \A t \in Sessions : Involved(t)' <=> Involved(t)
    BY <1>1, <1>6 DEF Involved
  <2> QED
    BY <1>1, <1>6, <2>1 DEF Inv, RivalsAreContested
<1>16. ReachableWhenLoggedIn'
  <2>1. \A t \in Sessions : t = x => Binding(t)'
    BY <1>1, <1>3, <1>5 DEF Binding, h
  <2>2. \A t \in Sessions \ {x} : Binding(t) => Binding(t)'
    BY <1>1, <1>5, PresenceAssumption DEF Binding
  <2>3. \A t \in Sessions \ {x} : Binding(t)' => Binding(t)
    BY <1>1, <1>5, PresenceAssumption DEF Binding, h
  <2> SUFFICES ASSUME NEW t \in Sessions, NEW u \in Uids,
                      reading[t] = "open", user_uid'[t] = u, ~Binding(t)'
               PROVE  \/ uid_session[Home[t]][u] = t
                      \/ <<u, Home[t], Home[t]>> \in contested
    BY <1>1 DEF ReachableWhenLoggedIn, LoggedInAs
  <2>4. t # x
    BY <2>1
  <2>5. user_uid[t] = u /\ ~Binding(t)
    BY <1>4, <2>2, <2>4
  <2> QED
    BY <2>5 DEF Inv, ReachableWhenLoggedIn, LoggedInAs
<1> QED
  BY <1>7, <1>8, <1>9, <1>10, <1>11, <1>12, <1>13, <1>14, <1>15, <1>16 DEF Inv

\* The session is bound to the uid, and the handler returns.
LEMMA LoginBindInv ==
  ASSUME Inv, NEW v \in Servers, LoginSetUserSession(v)
  PROVE  Inv'
<1> DEFINE h == Head(inbox[v])
           x == h.session
<1>1. /\ worker[v].pc = "bind"
      /\ uid_session' = [uid_session EXCEPT ![v][h.uid] = x]
      /\ inbox' = [inbox EXCEPT ![v] = Tail(@)]
      /\ worker' = [worker EXCEPT ![v] = WorkerIdle]
      /\ UNCHANGED <<reading, b_close, user_uid, sessions, io,
                     login_count, uip, logins, hasty, contested, overlapped>>
  BY DEF LoginSetUserSession, connection, history, redis
<1>2. inbox[v] # << >>
  BY <1>1 DEF Inv, WorkerHasLogin
<1>3. /\ x \in Sessions /\ h.uid \in Uids
      /\ Home[x] = v /\ h.uid \in Sent(x) /\ HasQueued(x)
      /\ Tail(inbox[v]) \in Seq(Login)
      /\ Elements(Tail(inbox[v])) \subseteq Queued(v)
  BY <1>2, FrontFacts DEF Inv, Login
<1>4. reading[x] = "dead" \/ user_uid[x] = h.uid
  BY <1>1 DEF Inv, UidSetBeforeBinding
<1>5. \A t \in Sessions : Binding(t) => Home[t] # v \/ t = x
  BY DEF Binding
<1> HIDE DEF h
<1>6. /\ uid_session' \in [Servers -> [Uids -> Sessions \cup {NoSession}]]
      /\ \A w \in Servers, u \in Uids :
           uid_session'[w][u] = IF w = v /\ u = h.uid THEN x ELSE uid_session[w][u]
  BY <1>1, <1>3 DEF Inv, TypeOK
<1>7. /\ inbox' \in [Servers -> Seq(Login)]
      /\ \A w \in Servers \ {v} : inbox'[w] = inbox[w]
      /\ inbox'[v] = Tail(inbox[v])
  BY <1>1, <1>3 DEF Inv, TypeOK
<1>8. /\ worker' \in [Servers -> [pc : {"idle", "hset", "set_uid", "set_ip", "bind"},
                                 count : Nat]]
      /\ worker'[v].pc = "idle"
      /\ \A w \in Servers \ {v} : worker'[w] = worker[w]
  BY <1>1 DEF Inv, TypeOK, WorkerIdle
<1>9. /\ \A w \in Servers : Queued(w)' \subseteq Queued(w)
      /\ \A t \in Sessions : Sent(t)' = Sent(t)
  BY <1>1, <1>3, <1>7 DEF Queued, Sent
<1>10. \A t \in Sessions : HasQueued(t)' => HasQueued(t)
  BY <1>9, PresenceAssumption DEF HasQueued
<1>11. TypeOK'
  <2>1. SessionsAreRead'
    BY <1>1 DEF Inv, TypeOK, SessionsAreRead
  <2> QED
    BY <1>1, <1>6, <1>7, <1>8, <2>1 DEF Inv, TypeOK
<1>12. IoOwnsSession' /\ ClosedIsDead'
  BY <1>1 DEF Inv, IoOwnsSession, ClosedIsDead
<1>13. WorkerHasLogin'
  BY <1>7, <1>8 DEF Inv, WorkerHasLogin
<1>14. UidSetBeforeBinding'
  BY <1>1, <1>7, <1>8 DEF Inv, UidSetBeforeBinding
<1>15. QueuedWasSent'
  BY <1>9, QueuedTyped DEF Inv, QueuedWasSent, Login
<1>16. UidWasSent' /\ NewIsSilent' /\ DeadIsHasty'
  BY <1>1, <1>9, <1>10 DEF Inv, UidWasSent, NewIsSilent, DeadIsHasty
<1>17. BoundWasSent'
  BY <1>3, <1>6, <1>9 DEF Inv, BoundWasSent
<1>18. BindingLasts'
  <2> SUFFICES ASSUME NEW w \in Servers, NEW u \in Uids, NEW t \in Sessions,
                      uid_session'[w][u] = t, t \notin hasty, Sent(t) \subseteq {u}
               PROVE  /\ user_uid[t] = u
                      /\ ~b_close[t]
                      /\ ~(io[w].pc = "finish" /\ io[w].session = t)
    BY <1>1, <1>9 DEF BindingLasts
  <2>1. CASE w = v /\ u = h.uid
    <3>1. t = x /\ reading[x] # "dead"
      BY <1>3, <1>6, <2>1 DEF Inv, DeadIsHasty
    <3> QED
      BY <1>4, <2>1, <3>1 DEF Inv, ClosedIsDead, IoOwnsSession
  <2>2. CASE ~(w = v /\ u = h.uid)
    BY <1>6, <2>2 DEF Inv, BindingLasts
  <2> QED
    BY <2>1, <2>2
<1>19. RivalsAreContested'
  <2>1. \A t \in Sessions : Involved(t)' => Involved(t)
    BY <1>1, <1>10 DEF Involved
  <2> QED
    BY <1>1, <1>9, <2>1 DEF Inv, RivalsAreContested
<1>20. ReachableWhenLoggedIn'
  <2> SUFFICES ASSUME NEW t \in Sessions, NEW u \in Uids,
                      reading[t] = "open", user_uid[t] = u, ~Binding(t)'
               PROVE  \/ uid_session'[Home[t]][u] = t
                      \/ <<u, Home[t], Home[t]>> \in contested
    BY <1>1 DEF ReachableWhenLoggedIn, LoggedInAs
  <2>1. CASE t = x
    BY <1>3, <1>4, <1>6, <2>1
  <2>2. CASE t # x /\ Home[t] = v /\ u = h.uid
    <3>1. Involved(t) /\ Involved(x)
      BY <1>3 DEF Involved
    <3>2. u \in Sent(t) /\ u \in Sent(x)
      BY <1>3, <2>2, PresenceAssumption DEF Inv, UidWasSent
    <3> QED
      BY <1>3, <2>2, <3>1, <3>2 DEF Inv, RivalsAreContested
  <2>3. CASE t # x /\ ~(Home[t] = v /\ u = h.uid)
    <3>1. ~Binding(t)
      <4>1. CASE Home[t] = v
        BY <1>5, <2>3, <4>1
      <4>2. CASE Home[t] # v
        BY <1>7, <1>8, <4>2, PresenceAssumption DEF Binding
      <4> QED
        BY <4>1, <4>2
    <3>2. \/ uid_session[Home[t]][u] = t
          \/ <<u, Home[t], Home[t]>> \in contested
      BY <3>1 DEF Inv, ReachableWhenLoggedIn, LoggedInAs
    <3> QED
      BY <1>6, <2>3, <3>2, PresenceAssumption
  <2> QED
    BY <2>1, <2>2, <2>3
<1> QED
  BY <1>11, <1>12, <1>13, <1>14, <1>15, <1>16, <1>17, <1>18, <1>19, <1>20 DEF Inv

-----------------------------------------------------------------------------
\* Every step preserves the invariant.
LEMMA NextInv == Inv /\ [Next]_vars => Inv'
<1> SUFFICES ASSUME Inv, [Next]_vars PROVE Inv'
  OBVIOUS
<1>1. CASE UNCHANGED vars
  <2>1. TypeOK'
    <3>1. SessionsAreRead'
      BY <1>1 DEF vars, Inv, TypeOK, SessionsAreRead
    <3> QED
      BY <1>1, <3>1 DEF vars, Inv, TypeOK
  <2>2. \A v \in Servers : worker'[v].pc # "idle" => inbox[v] # << >>
    BY <1>1 DEF vars, Inv, WorkerHasLogin
  <2> QED
    BY <1>1, <2>1, <2>2, QuietInv DEF vars
<1>2. ASSUME NEW v \in Servers, IoThread(v) PROVE Inv'
  BY <1>2, AcceptInv, EndInv, ThrowInv, PostInv, CloseHSetInv,
     CloseRemoveInv, CloseFinishInv DEF IoThread
<1>3. ASSUME NEW v \in Servers, Worker(v) PROVE Inv'
  BY <1>3, LoginRejectedInv, LoginQuietInv, LoginSetUserIdInv, LoginBindInv
     DEF Worker
<1> QED
  BY <1>1, <1>2, <1>3 DEF Next

\* A session bound to the only uid it has used is not closed.
LEMMA BoundIsNotClosed == Inv => NoStaleBinding
<1> SUFFICES ASSUME Inv, NEW v \in Servers, NEW u \in Uids, NEW s \in Sessions,
                    uid_session[v][u] = s, b_close[s], s \notin hasty,
                    OnlyLogin(s, u)
             PROVE  FALSE
  BY DEF NoStaleBinding
<1>1. Sent(s) \subseteq {u}
  BY DEF OnlyLogin, Sent, Elements
<1> QED
  BY <1>1 DEF Inv, BindingLasts

LEMMA Invariance == Spec => []Inv
BY InitInv, NextInv, PTL DEF Spec

-----------------------------------------------------------------------------
(***************************************************************************)
(* The "uip_" keys.  The key of u is overwritten by a login on another     *)
(* server.  If a connection that still uses u is left at the first one,    *)
(* both were in use when the later login was sent, so that u is crossed;   *)
(* this must already be known between the writing of the key and the       *)
(* binding.  The users of the set L are exempt: their key could not be     *)
(* written.                                                                *)
(***************************************************************************)
Crossed(u) == \E v, w \in Servers : v # w /\ <<u, v, w>> \in contested

\* s is read, or has a login queued.
Live(s) == reading[s] = "open" \/ HasQueued(s)

\* Two connections to different servers that are used for one uid.
AcrossIsCrossed ==
  \A s, t \in Sessions, u \in Uids :
    /\ Home[s] # Home[t] /\ Live(s) /\ Live(t)
    /\ u \in Sent(s) /\ u \in Sent(t)
    => Crossed(u)

\* The key leads to the server that is about to bind.
UipBeforeBinding(L) ==
  \A v \in Servers :
    worker[v].pc = "bind" =>
      \/ Head(inbox[v]).uid \in L
      \/ uip[Head(inbox[v]).uid] = v \/ Crossed(Head(inbox[v]).uid)

RoutableExcept(L) == \A s \in Sessions, u \in Uids : u \in L \/ Routable(s, u)

RouteInv(L) == AcrossIsCrossed /\ UipBeforeBinding(L) /\ RoutableExcept(L)

\* Steps that write no key, begin nothing, and log nobody in.
LEMMA RouteShrinks ==
  ASSUME NEW L, Inv, RouteInv(L), uip' = uip,
         \A u \in Uids : Crossed(u) => Crossed(u)',
         \A t \in Sessions : Sent(t)' \subseteq Sent(t) /\ (Live(t)' => Live(t)),
         \A t \in Sessions, u \in Uids : LoggedInAs(t, u)' => LoggedInAs(t, u),
         \A v \in Servers : worker'[v].pc = "bind" =>
           worker[v].pc = "bind" /\ inbox'[v] = inbox[v]
  PROVE  RouteInv(L)'
<1>1. AcrossIsCrossed'
  BY DEF RouteInv, AcrossIsCrossed
<1>2. UipBeforeBinding(L)'
  <2> SUFFICES ASSUME NEW v \in Servers, worker'[v].pc = "bind",
                      Head(inbox[v]).uid \notin L
               PROVE  \/ uip[Head(inbox[v]).uid] = v
                      \/ Crossed(Head(inbox[v]).uid)'
    BY DEF UipBeforeBinding
  <2>1. Head(inbox[v]).uid \in Uids
    BY FrontFacts DEF Inv, WorkerHasLogin, Login
  <2> QED
    BY <2>1 DEF RouteInv, UipBeforeBinding
<1>3. RoutableExcept(L)'
  <2> SUFFICES ASSUME NEW s \in Sessions, NEW u \in Uids, LoggedInAs(s, u)',
                      u \notin L
               PROVE  uip[u] = Home[s] \/ Crossed(u)'
    BY DEF RoutableExcept, Routable, Crossed
  <2>1. uip[u] = Home[s] \/ Crossed(u)
    BY DEF RouteInv, RoutableExcept, Routable, Crossed
  <2> QED
    BY <2>1
<1> QED
  BY <1>1, <1>2, <1>3 DEF RouteInv

LEMMA RouteKept ==
  ASSUME NEW L, Inv, RouteInv(L),
         contested' = contested, uip' = uip,
         \A t \in Sessions : Sent(t)' = Sent(t) /\ (Live(t)' => Live(t)),
         \A t \in Sessions, u \in Uids : LoggedInAs(t, u)' => LoggedInAs(t, u),
         \A v \in Servers : worker'[v].pc = "bind" =>
           worker[v].pc = "bind" /\ inbox'[v] = inbox[v]
  PROVE  RouteInv(L)'
<1>1. \A u \in Uids : Crossed(u) => Crossed(u)'
  BY DEF Crossed
<1> QED
  BY <1>1, RouteShrinks

\* A connection is accepted: it has sent nothing yet.
LEMMA AcceptRoute ==
  ASSUME NEW L, Inv, RouteInv(L), NEW s \in Sessions, HandleAccept(s)
  PROVE  RouteInv(L)'
<1>1. /\ reading[s] = "new" /\ reading' = [reading EXCEPT ![s] = "open"]
      /\ UNCHANGED <<user_uid, inbox, worker, logins, contested, uip>>
  BY DEF HandleAccept, redis, history
<1>2. \A t \in Sessions : Sent(t)' = Sent(t) /\ (HasQueued(t)' <=> HasQueued(t))
  BY <1>1 DEF Sent, HasQueued, Queued
<1>3. Sent(s) = {} /\ user_uid[s] = NoUid
  BY <1>1 DEF Inv, NewIsSilent, UidWasSent
<1>4. \A t \in Sessions \ {s} : reading'[t] = reading[t]
  BY <1>1 DEF Inv, TypeOK
<1>5. \A u \in Uids : Crossed(u)' <=> Crossed(u)
  BY <1>1 DEF Crossed
<1>6. AcrossIsCrossed'
  BY <1>2, <1>3, <1>4, <1>5 DEF RouteInv, AcrossIsCrossed, Live
<1>7. UipBeforeBinding(L)'
  BY <1>1 DEF RouteInv, UipBeforeBinding, Crossed
<1>8. RoutableExcept(L)'
  <2> SUFFICES ASSUME NEW t \in Sessions, NEW u \in Uids, LoggedInAs(t, u)',
                      u \notin L
               PROVE  uip[u] = Home[t] \/ Crossed(u)
    BY <1>1, <1>5 DEF RoutableExcept, Routable, Crossed
  <2>1. t # s
    BY <1>1, <1>3, PresenceAssumption DEF LoggedInAs
  <2>2. LoggedInAs(t, u)
    BY <1>1, <1>4, <2>1 DEF LoggedInAs, Binding
  <2> QED
    BY <2>2 DEF RouteInv, RoutableExcept, Routable, Crossed
<1> QED
  BY <1>6, <1>7, <1>8 DEF RouteInv

\* A login is posted: whoever else uses the uid elsewhere is a rival.
LEMMA PostRoute ==
  ASSUME NEW L, Inv, RouteInv(L), NEW s \in Sessions, NEW u \in Uids, PostLogin(s, u)
  PROVE  RouteInv(L)'
<1> DEFINE v == Home[s]
           m == [session |-> s, uid |-> u]
<1>1. /\ reading[s] = "open" /\ worker[v].pc = "idle"
      /\ inbox' = [inbox EXCEPT ![v] = Append(@, m)]
      /\ logins' = [logins EXCEPT ![s] = Append(@, u)]
      /\ contested' = contested \cup {<<u, v, Home[t]>> : t \in Rivals(s, u)}
      /\ UNCHANGED <<reading, user_uid, worker, uip>>
  BY DEF PostLogin, connection, redis
<1>2. v \in Servers /\ m \in Login /\ m.session = s
  BY PresenceAssumption DEF Login
<1>3. inbox[v] \in Seq(Login) /\ logins[s] \in Seq(Uids)
  BY <1>2 DEF Inv, TypeOK
<1>4. /\ Queued(v)' = Queued(v) \cup {m}
      /\ \A w \in Servers \ {v} : inbox'[w] = inbox[w] /\ Queued(w)' = Queued(w)
  <2>1. Elements(Append(inbox[v], m)) = Elements(inbox[v]) \cup {m}
    BY <1>2, <1>3, ElementsOfAppend
  <2> QED
    BY <1>1, <1>2, <2>1 DEF Inv, TypeOK, Queued
<1>5. /\ Sent(s)' = Sent(s) \cup {u}
      /\ \A t \in Sessions \ {s} : Sent(t)' = Sent(t)
  <2>1. Elements(Append(logins[s], u)) = Elements(logins[s]) \cup {u}
    BY <1>3, ElementsOfAppend
  <2> QED
    BY <1>1, <2>1 DEF Inv, TypeOK, Sent
<1> HIDE DEF m
<1>6. Live(s) /\ \A t \in Sessions : Live(t)' => Live(t)
  <2>1. \A t \in Sessions \ {s} : HasQueued(t)' => HasQueued(t)
    BY <1>2, <1>4, PresenceAssumption DEF HasQueued
  <2> QED
    BY <1>1, <2>1 DEF Live
<1>7. \A w \in Uids : Crossed(w) => Crossed(w)'
  BY <1>1 DEF Crossed
<1>8. \A t \in Sessions :
        Home[t] # v /\ Live(t) /\ u \in Sent(t) => Crossed(u)'
  <2> SUFFICES ASSUME NEW t \in Sessions, Home[t] # v, Live(t), u \in Sent(t)
               PROVE  Crossed(u)'
    OBVIOUS
  <2>1. SentLogin(t, u)
    BY DEF Sent, Elements, SentLogin
  <2>2. HasQueued(t) => LoginQueued(t)
    BY DEF HasQueued, Queued, Elements, LoginQueued
  <2>3. t \in Rivals(s, u)
    BY <2>1, <2>2 DEF Live, Rivals
  <2>4. <<u, v, Home[t]>> \in contested'
    BY <1>1, <2>3
  <2>5. Home[t] \in Servers
    BY PresenceAssumption
  <2> QED
    BY <1>2, <2>4, <2>5 DEF Crossed
<1>9. AcrossIsCrossed'
  <2> SUFFICES ASSUME NEW t1 \in Sessions, NEW t2 \in Sessions, NEW w \in Uids,
                      Home[t1] # Home[t2], Live(t1)', Live(t2)',
                      w \in Sent(t1)', w \in Sent(t2)'
               PROVE  Crossed(w)'
    BY DEF AcrossIsCrossed
  <2>1. Live(t1) /\ Live(t2)
    BY <1>6
  <2>2. CASE w \in Sent(t1) /\ w \in Sent(t2)
    BY <1>7, <2>1, <2>2 DEF RouteInv, AcrossIsCrossed
  <2>3. CASE w \notin Sent(t1)
    BY <1>5, <1>8, <2>1, <2>3
  <2>4. CASE w \notin Sent(t2)
    BY <1>5, <1>8, <2>1, <2>4
  <2> QED
    BY <2>2, <2>3, <2>4
<1>10. UipBeforeBinding(L)'
  <2> SUFFICES ASSUME NEW w \in Servers, worker[w].pc = "bind",
                      Head(inbox'[w]).uid \notin L
               PROVE  (uip[Head(inbox[w]).uid] = w
                         \/ Crossed(Head(inbox[w]).uid))'
    BY <1>1 DEF UipBeforeBinding
  <2>1. inbox'[w] = inbox[w]
    BY <1>1, <1>4
  <2>2. uip[Head(inbox[w]).uid] = w \/ Crossed(Head(inbox[w]).uid)
    BY <2>1 DEF RouteInv, UipBeforeBinding
  <2>3. contested \subseteq contested'
    BY <1>1
  <2> QED
    BY <1>1, <2>1, <2>2, <2>3 DEF Crossed
<1>11. RoutableExcept(L)'
  <2> SUFFICES ASSUME NEW t \in Sessions, NEW w \in Uids, LoggedInAs(t, w)',
                      w \notin L
               PROVE  uip[w] = Home[t] \/ Crossed(w)'
    BY <1>1 DEF RoutableExcept, Routable, Crossed
  <2>1. Binding(t) => Binding(t)'
    BY <1>1, <1>4, PresenceAssumption DEF Binding
  <2>2. LoggedInAs(t, w)
    BY <1>1, <2>1 DEF LoggedInAs
  <2>3. uip[w] = Home[t] \/ Crossed(w)
    BY <2>2 DEF RouteInv, RoutableExcept, Routable, Crossed
  <2> QED
    BY <1>7, <2>3
<1> QED
  BY <1>9, <1>10, <1>11 DEF RouteInv

\* What the I/O thread does with a connection that it reads no more.
LEMMA EndRoute ==
  ASSUME NEW L, Inv, RouteInv(L), NEW v \in Servers,
         \/ \E s \in Sessions :
              \/ RejectHeader(s) \/ ThrowHeader(s)
              \/ CloseAnonymous(s) \/ CloseHGet(s)
         \/ CloseHSet(v) \/ CloseRemoveUserSession(v) \/ CloseFinish(v)
  PROVE  RouteInv(L)'
<1>1. UNCHANGED <<inbox, worker, logins, contested, uip>>
  BY DEF RejectHeader, ThrowHeader, CloseAnonymous, CloseHGet, CloseHSet,
         CloseRemoveUserSession, CloseFinish, connection, redis, history
<1>2. \A t \in Sessions : /\ Sent(t)' = Sent(t)
                          /\ HasQueued(t)' <=> HasQueued(t)
                          /\ Binding(t)' <=> Binding(t)
  BY <1>1 DEF Sent, HasQueued, Queued, Binding
<1>3. \A t \in Sessions : reading'[t] = "open" => reading[t] = "open"
  BY DEF RejectHeader, ThrowHeader, CloseAnonymous, CloseHGet, EndOfReading, CloseHSet,
         CloseRemoveUserSession, CloseFinish, connection, Inv, TypeOK
<1>4. \A t \in Sessions : user_uid'[t] = user_uid[t] \/ user_uid'[t] = NoUid
  BY DEF RejectHeader, ThrowHeader, CloseAnonymous, CloseHGet, CloseHSet,
         CloseRemoveUserSession, CloseFinish, connection, Inv, TypeOK
<1>5. \A t \in Sessions, u \in Uids : LoggedInAs(t, u)' => LoggedInAs(t, u)
  BY <1>2, <1>3, <1>4, PresenceAssumption DEF LoggedInAs
<1> QED
  BY <1>1, <1>2, <1>3, <1>5, RouteKept DEF Live

\* The login handler up to the writing of the key.
LEMMA BeforeKeyRoute ==
  ASSUME NEW L, Inv, RouteInv(L), NEW v \in Servers,
         \/ LoginRejected(v) \/ LoginHGet(v) \/ LoginHSet(v)
         \/ LoginSetUserId(v)
  PROVE  RouteInv(L)'
<1>1. /\ UNCHANGED <<reading, logins, contested, uip>>
      /\ worker[v].pc \in {"idle", "hset", "set_uid"} /\ inbox[v] # << >>
      /\ \A w \in Servers : worker'[w].pc = "bind" =>
           worker[w].pc = "bind" /\ inbox'[w] = inbox[w]
  <2>1. /\ UNCHANGED <<reading, logins, contested, uip>>
        /\ worker[v].pc \in {"idle", "hset", "set_uid"}
    BY DEF LoginRejected, LoginHGet, LoginHSet, LoginSetUserId, connection,
           redis, history
  <2>2. inbox[v] # << >>
    BY DEF LoginRejected, LoginHGet, LoginHSet, LoginSetUserId, Inv,
           WorkerHasLogin
  <2>3. worker'[v].pc # "bind"
    BY DEF LoginRejected, LoginHGet, LoginHSet, LoginSetUserId, Inv, TypeOK
  <2>4. \A w \in Servers \ {v} : worker'[w] = worker[w] /\ inbox'[w] = inbox[w]
    BY DEF LoginRejected, LoginHGet, LoginHSet, LoginSetUserId, Inv, TypeOK
  <2> QED
    BY <2>1, <2>2, <2>3, <2>4
<1>2. \A t \in Sessions : Sent(t)' = Sent(t)
  BY <1>1 DEF Sent
<1>3. \A w \in Servers : Queued(w)' \subseteq Queued(w)
  <2>1. Elements(Tail(inbox[v])) \subseteq Queued(v)
    BY <1>1, FrontFacts DEF Inv
  <2>2. inbox' = inbox \/ inbox' = [inbox EXCEPT ![v] = Tail(@)]
    BY DEF LoginRejected, LoginHGet, LoginHSet, LoginSetUserId
  <2> QED
    BY <2>1, <2>2 DEF Queued, Inv, TypeOK
<1>4. \A t \in Sessions : Live(t)' => Live(t)
  BY <1>1, <1>3, PresenceAssumption DEF Live, HasQueued
<1>5. \A t \in Sessions, u \in Uids : LoggedInAs(t, u)' => LoggedInAs(t, u)
  <2>1. CASE LoginRejected(v)
    <3>1. \A t \in Sessions : Binding(t) => Binding(t)'
      <4>1. \A w \in Servers \ {v} : inbox'[w] = inbox[w]
        BY <2>1 DEF LoginRejected, Inv, TypeOK
      <4> QED
        BY <2>1, <4>1, PresenceAssumption DEF LoginRejected, Binding
    <3> QED
      BY <2>1, <3>1 DEF LoginRejected, connection, LoggedInAs
  <2>2. CASE LoginHGet(v) \/ LoginHSet(v)
    <3>1. \A w \in Servers : worker[w].pc \in {"set_ip", "bind"} =>
            worker'[w].pc \in {"set_ip", "bind"}
      BY <2>2 DEF LoginHGet, LoginHSet, Inv, TypeOK
    <3>2. UNCHANGED <<reading, user_uid, inbox>>
      BY <2>2 DEF LoginHGet, LoginHSet, connection
    <3>3. \A t \in Sessions : Binding(t) => Binding(t)'
      BY <3>1, <3>2, PresenceAssumption DEF Binding
    <3> QED
      BY <3>2, <3>3 DEF LoggedInAs
  <2>3. CASE LoginSetUserId(v)
    <3>1. /\ Head(inbox[v]).session \in Sessions
          /\ Home[Head(inbox[v]).session] = v
      BY <1>1, FrontFacts DEF Inv, Login
    <3>2. /\ worker'[v].pc = "set_ip" /\ inbox' = inbox
          /\ \A w \in Servers \ {v} : worker'[w] = worker[w]
          /\ \A t \in Sessions : t # Head(inbox[v]).session =>
               user_uid'[t] = user_uid[t]
      BY <2>3 DEF LoginSetUserId, Inv, TypeOK
    <3>3. Binding(Head(inbox[v]).session)'
      BY <3>1, <3>2 DEF Binding
    <3>4. \A t \in Sessions : Binding(t) => Binding(t)'
      BY <3>2, PresenceAssumption DEF Binding
    <3> QED
      BY <1>1, <3>2, <3>3, <3>4 DEF LoggedInAs
  <2> QED
    BY <2>1, <2>2, <2>3
<1> QED
  BY <1>1, <1>2, <1>4, <1>5, RouteKept

\* The key is written; who used the uid on another server is crossed.
LEMMA SetIpRoute ==
  ASSUME NEW L, Inv, RouteInv(L), NEW v \in Servers,
         worker[v].pc = "set_ip", worker' = [worker EXCEPT ![v].pc = "bind"],
         UNCHANGED <<reading, user_uid, inbox, logins, contested>>,
         uip' \in {[uip EXCEPT ![Head(inbox[v]).uid] = v], uip},
         NEW M,
         M = {u \in L : u # Head(inbox[v]).uid}
               \cup {u \in {Head(inbox[v]).uid} : uip'[u] # v}
  PROVE  RouteInv(M)'
<1> DEFINE h == Head(inbox[v])
<1>1. /\ worker[v].pc = "set_ip" /\ worker' = [worker EXCEPT ![v].pc = "bind"]
      /\ UNCHANGED <<reading, user_uid, inbox, logins, contested>>
  OBVIOUS
<1>2. /\ h.session \in Sessions /\ h.uid \in Uids /\ Home[h.session] = v
      /\ h.uid \in Sent(h.session) /\ Live(h.session)
  BY <1>1, FrontFacts DEF Inv, WorkerHasLogin, Login, Live
<1>3. /\ h.uid \notin M => uip'[h.uid] = v
      /\ \A u \in Uids \ {h.uid} : uip'[u] = uip[u] /\ (u \in L => u \in M)
  BY <1>1, <1>2 DEF Inv, TypeOK
<1>4. /\ \A u \in Uids : Crossed(u)' <=> Crossed(u)
      /\ \A t \in Sessions : Sent(t)' = Sent(t) /\ (Live(t)' <=> Live(t))
  BY <1>1 DEF Crossed, Sent, Live, HasQueued, Queued
<1>5. \A t \in Sessions : Home[t] # v /\ Live(t) /\ h.uid \in Sent(t) =>
        Crossed(h.uid)
  BY <1>2 DEF RouteInv, AcrossIsCrossed
<1> HIDE DEF h
<1>6. AcrossIsCrossed'
  BY <1>4 DEF RouteInv, AcrossIsCrossed
<1>7. UipBeforeBinding(M)'
  <2> SUFFICES ASSUME NEW w \in Servers, worker'[w].pc = "bind", w # v,
                      Head(inbox[w]).uid \notin M
               PROVE  \/ uip'[Head(inbox[w]).uid] = w
                      \/ Crossed(Head(inbox[w]).uid)
    <3>1. inbox' = inbox /\ contested' = contested
      BY <1>1
    <3>2. Head(inbox[v]).uid \in M \/ uip'[Head(inbox[v]).uid] = v
      BY <1>3 DEF h
    <3> QED
      BY <3>1, <3>2 DEF UipBeforeBinding, Crossed
  <2>1. worker[w].pc = "bind"
    BY <1>1 DEF Inv, TypeOK
  <2>2. /\ Head(inbox[w]).uid \in Uids /\ Head(inbox[w]).session \in Sessions
        /\ Home[Head(inbox[w]).session] = w
        /\ Head(inbox[w]).uid \in Sent(Head(inbox[w]).session)
        /\ Live(Head(inbox[w]).session)
    BY <2>1, FrontFacts DEF Inv, WorkerHasLogin, Login, Live
  <2>3. CASE Head(inbox[w]).uid = h.uid
    BY <1>5, <2>2, <2>3
  <2>4. CASE Head(inbox[w]).uid # h.uid
    BY <1>3, <2>1, <2>2, <2>4 DEF RouteInv, UipBeforeBinding
  <2> QED
    BY <2>3, <2>4
<1>8. RoutableExcept(M)'
  <2> SUFFICES ASSUME NEW t \in Sessions, NEW u \in Uids, LoggedInAs(t, u)',
                      u \notin M
               PROVE  uip'[u] = Home[t] \/ Crossed(u)
    BY <1>1 DEF RoutableExcept, Routable, Crossed
  <2>1. Binding(t) => Binding(t)'
    BY <1>1, PresenceAssumption DEF Binding, Inv, TypeOK
  <2>2. LoggedInAs(t, u) /\ reading[t] = "open" /\ user_uid[t] = u
    BY <1>1, <2>1 DEF LoggedInAs
  <2>3. Live(t) /\ u \in Sent(t)
    BY <2>2, PresenceAssumption DEF Live, Inv, UidWasSent
  <2>4. CASE u = h.uid
    BY <1>3, <1>5, <2>3, <2>4
  <2>5. CASE u # h.uid
    BY <1>3, <2>2, <2>5 DEF RouteInv, RoutableExcept, Routable, Crossed
  <2> QED
    BY <2>4, <2>5
<1> QED
  BY <1>6, <1>7, <1>8 DEF RouteInv

\* The session is bound: it is logged in, and the key has been written.
LEMMA BindRoute ==
  ASSUME NEW L, Inv, RouteInv(L), NEW v \in Servers, LoginSetUserSession(v)
  PROVE  RouteInv(L)'
<1> DEFINE h == Head(inbox[v])
<1>1. /\ worker[v].pc = "bind"
      /\ inbox' = [inbox EXCEPT ![v] = Tail(@)]
      /\ worker' = [worker EXCEPT ![v] = WorkerIdle]
      /\ UNCHANGED <<reading, user_uid, uip, logins, contested>>
  BY DEF LoginSetUserSession, connection, history, redis
<1>2. /\ h.session \in Sessions /\ h.uid \in Uids /\ Home[h.session] = v
      /\ Elements(Tail(inbox[v])) \subseteq Queued(v)
  BY <1>1, FrontFacts DEF Inv, WorkerHasLogin, Login
<1>3. reading[h.session] = "dead" \/ user_uid[h.session] = h.uid
  BY <1>1 DEF Inv, UidSetBeforeBinding
<1>4. h.uid \in L \/ uip[h.uid] = v \/ Crossed(h.uid)
  BY <1>1 DEF RouteInv, UipBeforeBinding
<1>5. \A t \in Sessions : Binding(t) => Home[t] # v \/ t = h.session
  BY DEF Binding
<1> HIDE DEF h
<1>6. /\ inbox'[v] = Tail(inbox[v]) /\ worker'[v].pc = "idle"
      /\ \A w \in Servers \ {v} : inbox'[w] = inbox[w] /\ worker'[w] = worker[w]
  BY <1>1 DEF Inv, TypeOK, WorkerIdle
<1>7. /\ \A u \in Uids : Crossed(u)' <=> Crossed(u)
      /\ \A t \in Sessions : Sent(t)' = Sent(t) /\ (Live(t)' => Live(t))
  <2>1. \A w \in Servers : Queued(w)' \subseteq Queued(w)
    BY <1>2, <1>6 DEF Queued
  <2>2. \A t \in Sessions : HasQueued(t)' => HasQueued(t)
    BY <2>1, PresenceAssumption DEF HasQueued
  <2> QED
    BY <1>1, <2>2 DEF Crossed, Sent, Live
<1>8. AcrossIsCrossed'
  BY <1>7 DEF RouteInv, AcrossIsCrossed
<1>9. UipBeforeBinding(L)'
  <2>1. ASSUME NEW w \in Servers, worker'[w].pc = "bind",
               Head(inbox'[w]).uid \notin L
        PROVE  \/ uip'[Head(inbox'[w]).uid] = w
               \/ \E x, y \in Servers :
                    x # y /\ <<Head(inbox'[w]).uid, x, y>> \in contested'
    <3>1. worker[w].pc = "bind" /\ inbox'[w] = inbox[w]
      BY <1>6, <2>1
    <3>2. uip[Head(inbox[w]).uid] = w \/ Crossed(Head(inbox[w]).uid)
      BY <2>1, <3>1 DEF RouteInv, UipBeforeBinding
    <3> DEFINE o == Head(inbox[w]).uid
    <3>3. Head(inbox'[w]).uid = o /\ uip' = uip /\ contested' = contested
      BY <1>1, <3>1
    <3> HIDE DEF o
    <3>4. uip[o] = w \/ \E x, y \in Servers : x # y /\ <<o, x, y>> \in contested
      BY <3>2 DEF o, Crossed
    <3> QED
      BY <3>3, <3>4
  <2> QED
    BY <2>1 DEF UipBeforeBinding, Crossed
<1>10. RoutableExcept(L)'
  <2> SUFFICES ASSUME NEW t \in Sessions, NEW u \in Uids, LoggedInAs(t, u)',
                      u \notin L
               PROVE  uip[u] = Home[t] \/ Crossed(u)
    BY <1>1 DEF RoutableExcept, Routable, Crossed
  <2>1. reading[t] = "open" /\ user_uid[t] = u
    BY <1>1 DEF LoggedInAs
  <2>2. CASE t = h.session
    BY <1>2, <1>3, <1>4, <2>1, <2>2
  <2>3. CASE t # h.session
    <3>1. ~Binding(t)
      BY <1>5, <1>6, <2>3, PresenceAssumption DEF LoggedInAs, Binding
    <3> QED
      BY <2>1, <3>1 DEF RouteInv, RoutableExcept, Routable, LoggedInAs, Crossed
  <2> QED
    BY <2>2, <2>3
<1> QED
  BY <1>8, <1>9, <1>10 DEF RouteInv

\* Every step keeps the keys right, if Redis does not fail.
LEMMA NextRoute ==
  ASSUME ~RedisMayFail
  PROVE  Inv /\ RouteInv({}) /\ [Next]_vars => RouteInv({})'
<1> SUFFICES ASSUME Inv, RouteInv({}), [Next]_vars PROVE RouteInv({})'
  OBVIOUS
<1>1. CASE UNCHANGED vars
  BY <1>1 DEF vars, RouteInv, AcrossIsCrossed, UipBeforeBinding, RoutableExcept,
              Routable, LoggedInAs, Binding, Crossed, Live, Sent, HasQueued,
              Queued
<1>2. ASSUME NEW v \in Servers, IoThread(v) PROVE RouteInv({})'
  BY <1>2, AcceptRoute, PostRoute, EndRoute DEF IoThread
<1>3. ASSUME NEW v \in Servers, LoginSetIp(v) PROVE RouteInv({})'
  <2> DEFINE h == Head(inbox[v])
             M == {u \in {} : u # h.uid} \cup {u \in {h.uid} : uip'[u] # v}
  <2>1. /\ worker[v].pc = "set_ip" /\ worker' = [worker EXCEPT ![v].pc = "bind"]
        /\ UNCHANGED <<reading, user_uid, inbox, logins, contested>>
        /\ uip' = [uip EXCEPT ![h.uid] = v]
    BY <1>3 DEF LoginSetIp, connection, history
  <2>2. h.uid \in Uids
    BY <2>1, FrontFacts DEF Inv, WorkerHasLogin, Login
  <2>3. {} = M
    BY <2>1, <2>2 DEF Inv, TypeOK
  <2> HIDE DEF M
  <2> QED
    BY <2>1, <2>3, SetIpRoute DEF M
<1>4. ASSUME NEW v \in Servers, Worker(v) PROVE RouteInv({})'
  BY <1>3, <1>4, BeforeKeyRoute, BindRoute DEF Worker
<1> QED
  BY <1>1, <1>2, <1>4 DEF Next

-----------------------------------------------------------------------------
(***************************************************************************)
(* The login count.  It is right as long as it is not spoiled by one of    *)
(* the cases that CountExact names; the counts that the handlers have read *)
(* and not yet written back must be right as well, and that the connection *)
(* whose login is counted was not counted before rests on its having sent  *)
(* one login only.                                                         *)
(***************************************************************************)

\* The first cases of CountExact.
Spoiled(v) ==
  \/ v \in overlapped
  \/ \E s \in Sessions :
       /\ Home[s] = v
       /\ \/ Len(logins[s]) > 1
          \/ s \in hasty
          \/ reading[s] = "dead" /\ ~b_close[s] /\ io[v].session # s

CountRight(v) ==
  \/ Spoiled(v)
  \/ /\ login_count[v] = Cardinality(Counted(v))
     /\ worker[v].pc = "hset" => worker[v].count = login_count[v]
     /\ io[v].pc = "hset" => io[v].count = login_count[v]

\* Two handlers in the middle of the update have been noticed.
OverlapIsSeen ==
  \A v \in Servers :
    worker[v].pc = "hset" /\ io[v].pc = "hset" => v \in overlapped

\* At most one login of s is in q.
Once(q, s) ==
  \A i, j \in 1 .. Len(q) : q[i].session = s /\ q[j].session = s => i = j

\* A connection that has sent one login has it in the queue once, and is not
\* logged in while it is there, unless the login is the one being handled.
QueuedOnce ==
  \A s \in Sessions : Len(logins[s]) <= 1 => Once(inbox[Home[s]], s)

QueuedIsNew ==
  \A s \in Sessions :
    Len(logins[s]) <= 1 /\ HasQueued(s) => user_uid[s] = NoUid \/ Binding(s)

LoginsInv == OverlapIsSeen /\ QueuedOnce /\ QueuedIsNew

\* A login is queued behind others: none of them, or not it, is of s.
LEMMA OnceAppend ==
  ASSUME NEW q \in Seq(Login), NEW m \in Login, NEW s, Once(q, s),
         m.session # s \/ \A i \in 1 .. Len(q) : q[i].session # s
  PROVE  Once(Append(q, m), s)
<1>1. /\ Len(q) \in Nat /\ Len(Append(q, m)) = Len(q) + 1
      /\ \A i \in 1 .. Len(q) : Append(q, m)[i] = q[i]
      /\ Append(q, m)[Len(q) + 1] = m
  BY AppendProperties, LenProperties
<1> SUFFICES ASSUME NEW i \in 1 .. Len(q) + 1, NEW j \in 1 .. Len(q) + 1,
                    Append(q, m)[i].session = s, Append(q, m)[j].session = s
             PROVE  i = j
  BY <1>1 DEF Once
<1>2. CASE i \in 1 .. Len(q) /\ j \in 1 .. Len(q)
  BY <1>1, <1>2 DEF Once
<1>3. CASE i = Len(q) + 1 /\ j = Len(q) + 1
  BY <1>3
<1>4. CASE i \in 1 .. Len(q) /\ j = Len(q) + 1
  BY <1>1, <1>4
<1>5. CASE i = Len(q) + 1 /\ j \in 1 .. Len(q)
  BY <1>1, <1>5
<1> QED
  BY <1>1, <1>2, <1>3, <1>4, <1>5

\* The front is removed: if it was of s, no other is.
LEMMA OnceTail ==
  ASSUME NEW q \in Seq(Login), q # << >>, NEW s, Once(q, s)
  PROVE  /\ Once(Tail(q), s)
         /\ Head(q).session = s => \A m \in Elements(Tail(q)) : m.session # s
<1>1. /\ Len(q) \in Nat \ {0} /\ Head(q) = q[1]
      /\ Len(Tail(q)) = Len(q) - 1
      /\ \A i \in 1 .. Len(q) - 1 : Tail(q)[i] = q[i + 1]
  OBVIOUS
<1>2. \A i \in 1 .. Len(q) - 1 : i + 1 \in 1 .. Len(q) /\ i + 1 # 1
  BY <1>1
<1>3. Once(Tail(q), s)
  <2> SUFFICES ASSUME NEW i \in 1 .. Len(q) - 1, NEW j \in 1 .. Len(q) - 1,
                      q[i + 1].session = s, q[j + 1].session = s
               PROVE  i = j
    BY <1>1 DEF Once
  <2>1. i + 1 = j + 1
    BY <1>2 DEF Once
  <2> QED
    BY <2>1
<1>4. ASSUME Head(q).session = s, NEW m \in Elements(Tail(q)), m.session = s
      PROVE  FALSE
  <2>1. PICK i \in 1 .. Len(q) - 1 : q[i + 1] = m
    BY <1>1 DEF Elements
  <2>2. 1 \in 1 .. Len(q)
    BY <1>1
  <2> QED
    BY <1>1, <1>2, <1>4, <2>1, <2>2 DEF Once
<1> QED
  BY <1>3, <1>4

\* Steps that neither queue nor remove a login, and log nobody in.
LEMMA LoginsKept ==
  ASSUME LoginsInv,
         inbox' = inbox, logins' = logins,
         \A t \in Sessions : user_uid'[t] = user_uid[t] \/ user_uid'[t] = NoUid,
         \A v \in Servers : worker[v].pc \in {"set_ip", "bind"} =>
           worker'[v].pc \in {"set_ip", "bind"},
         \A v \in Servers : worker'[v].pc = "hset" /\ io'[v].pc = "hset" =>
           v \in overlapped'
  PROVE  LoginsInv'
<1>1. \A t \in Sessions : /\ Binding(t) => Binding(t)'
                          /\ HasQueued(t)' <=> HasQueued(t)
  BY PresenceAssumption DEF Binding, HasQueued, Queued
<1>2. QueuedOnce' /\ QueuedIsNew'
  BY <1>1 DEF LoginsInv, QueuedOnce, QueuedIsNew, Once
<1> QED
  BY <1>2 DEF LoginsInv, OverlapIsSeen

\* A login is posted.  If it is the first of its connection, the queue has
\* no other of it, and the connection is not logged in.
LEMMA PostLogins ==
  ASSUME Inv, LoginsInv, NEW s \in Sessions, NEW u \in Uids, PostLogin(s, u)
  PROVE  LoginsInv'
<1> DEFINE v == Home[s]
           m == [session |-> s, uid |-> u]
<1>1. /\ worker[v].pc = "idle" /\ v \in Servers
      /\ inbox' = [inbox EXCEPT ![v] = Append(@, m)]
      /\ logins' = [logins EXCEPT ![s] = Append(@, u)]
      /\ UNCHANGED <<user_uid, worker, io, overlapped>>
  BY PresenceAssumption DEF PostLogin, connection, redis
<1>2. /\ inbox[v] \in Seq(Login) /\ m \in Login /\ m.session = s
      /\ logins[s] \in Seq(Uids)
  BY <1>1 DEF Inv, TypeOK, Login
<1>3. /\ inbox'[v] = Append(inbox[v], m)
      /\ \A w \in Servers \ {v} : inbox'[w] = inbox[w]
      /\ logins'[s] = Append(logins[s], u)
      /\ \A t \in Sessions \ {s} : logins'[t] = logins[t]
  BY <1>1 DEF Inv, TypeOK
<1>4. /\ Len(inbox[v]) \in Nat /\ Len(inbox'[v]) = Len(inbox[v]) + 1
      /\ \A i \in 1 .. Len(inbox[v]) : inbox'[v][i] = inbox[v][i]
      /\ inbox'[v][Len(inbox[v]) + 1] = m
      /\ Elements(inbox'[v]) = Elements(inbox[v]) \cup {m}
  BY <1>2, <1>3, AppendProperties, LenProperties, ElementsOfAppend
<1>5. Len(logins[s]) \in Nat /\ Len(logins'[s]) = Len(logins[s]) + 1
  BY <1>2, <1>3, AppendProperties, LenProperties
<1> HIDE DEF v, m
<1>6. Len(logins'[s]) <= 1 => ~HasQueued(s) /\ user_uid[s] = NoUid
  <2> SUFFICES ASSUME Len(logins'[s]) <= 1 PROVE ~HasQueued(s) /\ user_uid[s] = NoUid
    OBVIOUS
  <2>1. Len(logins[s]) = 0
    BY <1>5
  <2>2. Sent(s) = {}
    BY <2>1 DEF Sent, Elements
  <2> QED
    BY <2>2, PresenceAssumption, QueuedTyped
       DEF Inv, HasQueued, QueuedWasSent, UidWasSent, Login
<1>7. \A t \in Sessions \ {s} : HasQueued(t)' => HasQueued(t)
  BY <1>2, <1>3, <1>4, PresenceAssumption DEF HasQueued, Queued
<1>8. \A t \in Sessions : Binding(t) => Binding(t)'
  BY <1>1, <1>3, PresenceAssumption DEF Binding
<1>9. QueuedOnce'
  <2> SUFFICES ASSUME NEW t \in Sessions, Len(logins'[t]) <= 1
               PROVE  Once(inbox'[Home[t]], t)
    BY DEF QueuedOnce
  <2>1. CASE t = s
    <3>1. \A i \in 1 .. Len(inbox[v]) : inbox[v][i].session # s
      BY <1>6, <2>1 DEF HasQueued, Queued, Elements, v
    <3>2. Once(inbox[v], s)
      BY <3>1 DEF Once
    <3> QED
      BY <1>2, <1>3, <2>1, <3>1, <3>2, OnceAppend DEF v
  <2>2. CASE t # s
    <3>1. Once(inbox[Home[t]], t)
      BY <1>3, <2>2 DEF LoginsInv, QueuedOnce
    <3>2. CASE Home[t] = v
      BY <1>2, <1>3, <2>2, <3>1, <3>2, OnceAppend
    <3>3. CASE Home[t] # v
      BY <1>3, <3>1, <3>3, PresenceAssumption
    <3> QED
      BY <3>2, <3>3
  <2> QED
    BY <2>1, <2>2
<1>10. QueuedIsNew'
  <2> SUFFICES ASSUME NEW t \in Sessions, Len(logins'[t]) <= 1, HasQueued(t)'
               PROVE  user_uid[t] = NoUid \/ Binding(t)'
    BY <1>1 DEF QueuedIsNew
  <2>1. CASE t = s
    BY <1>6, <2>1
  <2>2. CASE t # s
    BY <1>3, <1>7, <1>8, <2>2 DEF LoginsInv, QueuedIsNew
  <2> QED
    BY <2>1, <2>2
<1>11. OverlapIsSeen'
  BY <1>1 DEF LoginsInv, OverlapIsSeen
<1> QED
  BY <1>9, <1>10, <1>11 DEF LoginsInv

\* The front login is done with: its connection has no other.
LEMMA PopLogins ==
  ASSUME Inv, LoginsInv, NEW v \in Servers,
         LoginRejected(v) \/ LoginSetUserSession(v)
  PROVE  LoginsInv'
<1>1. /\ inbox' = [inbox EXCEPT ![v] = Tail(@)] /\ inbox[v] # << >>
      /\ worker'[v].pc = "idle"
      /\ \A w \in Servers \ {v} : worker'[w] = worker[w]
      /\ UNCHANGED <<user_uid, io, logins, overlapped>>
  <2>1. /\ inbox' = [inbox EXCEPT ![v] = Tail(@)]
        /\ UNCHANGED <<user_uid, io, logins, overlapped>>
    BY DEF LoginRejected, LoginSetUserSession, connection, redis, history
  <2>2. inbox[v] # << >>
    BY DEF LoginRejected, LoginSetUserSession, Inv, WorkerHasLogin
  <2>3. /\ worker'[v].pc = "idle"
        /\ \A w \in Servers \ {v} : worker'[w] = worker[w]
    BY DEF LoginRejected, LoginSetUserSession, Inv, TypeOK, WorkerIdle
  <2> QED
    BY <2>1, <2>2, <2>3
<1>2. /\ inbox'[v] = Tail(inbox[v]) /\ inbox[v] \in Seq(Login)
      /\ \A w \in Servers \ {v} : inbox'[w] = inbox[w]
  BY <1>1 DEF Inv, TypeOK
<1>3. Elements(Tail(inbox[v])) \subseteq Queued(v)
  BY <1>1, FrontFacts DEF Inv
<1>4. QueuedOnce'
  <2> SUFFICES ASSUME NEW t \in Sessions, Len(logins[t]) <= 1
               PROVE  Once(inbox'[Home[t]], t)
    BY <1>1 DEF QueuedOnce
  <2>1. Once(inbox[Home[t]], t)
    BY DEF LoginsInv, QueuedOnce
  <2>2. CASE Home[t] = v
    BY <1>1, <1>2, <2>1, <2>2, OnceTail
  <2>3. CASE Home[t] # v
    BY <1>2, <2>1, <2>3, PresenceAssumption
  <2> QED
    BY <2>2, <2>3
<1>5. QueuedIsNew'
  <2> SUFFICES ASSUME NEW t \in Sessions, Len(logins[t]) <= 1, HasQueued(t)',
                      user_uid[t] # NoUid
               PROVE  Binding(t)'
    BY <1>1 DEF QueuedIsNew
  <2>1. PICK m \in Elements(inbox'[Home[t]]) : m.session = t
    BY DEF HasQueued, Queued
  <2>2. CASE Home[t] = v
    <3>1. m \in Elements(Tail(inbox[v]))
      BY <1>2, <2>1, <2>2
    <3>2. HasQueued(t)
      BY <1>3, <2>1, <2>2, <3>1 DEF HasQueued
    <3>3. Head(inbox[v]).session = t
      BY <2>2, <3>2 DEF LoginsInv, QueuedIsNew, Binding
    <3>4. Once(inbox[v], t)
      BY <2>2 DEF LoginsInv, QueuedOnce
    <3> QED
      BY <1>1, <1>2, <2>1, <3>1, <3>3, <3>4, OnceTail
  <2>3. CASE Home[t] # v
    <3>1. /\ inbox'[Home[t]] = inbox[Home[t]]
          /\ worker'[Home[t]] = worker[Home[t]]
      BY <1>1, <1>2, <2>3, PresenceAssumption
    <3>2. HasQueued(t)
      BY <2>1, <3>1 DEF HasQueued, Queued
    <3> QED
      BY <3>1, <3>2 DEF LoginsInv, QueuedIsNew, Binding
  <2> QED
    BY <2>2, <2>3
<1>6. OverlapIsSeen'
  BY <1>1 DEF LoginsInv, OverlapIsSeen
<1> QED
  BY <1>4, <1>5, <1>6 DEF LoginsInv

\* The session gets the uid: its login is the one being handled.
LEMMA SetUserIdLogins ==
  ASSUME Inv, LoginsInv, NEW v \in Servers, LoginSetUserId(v)
  PROVE  LoginsInv'
<1>1. /\ worker[v].pc = "set_uid" /\ worker'[v].pc = "set_ip"
      /\ \A w \in Servers \ {v} : worker'[w] = worker[w]
      /\ \A t \in Sessions : t # Head(inbox[v]).session =>
           user_uid'[t] = user_uid[t]
  BY DEF LoginSetUserId, Inv, TypeOK
<1>2. UNCHANGED <<inbox, io, logins, overlapped>>
  BY DEF LoginSetUserId, history
<1>3. Home[Head(inbox[v]).session] = v
  BY <1>1, FrontFacts DEF Inv, WorkerHasLogin
<1>4. /\ \A t \in Sessions : t = Head(inbox[v]).session => Binding(t)'
      /\ \A t \in Sessions : Binding(t) => Binding(t)'
  BY <1>1, <1>2, <1>3, PresenceAssumption DEF Binding
<1>5. \A t \in Sessions : HasQueued(t)' <=> HasQueued(t)
  BY <1>2 DEF HasQueued, Queued
<1>6. QueuedOnce' /\ OverlapIsSeen'
  BY <1>1, <1>2 DEF LoginsInv, QueuedOnce, Once, OverlapIsSeen
<1>7. QueuedIsNew'
  BY <1>1, <1>2, <1>4, <1>5 DEF LoginsInv, QueuedIsNew
<1> QED
  BY <1>6, <1>7 DEF LoginsInv

\* What every step of a thread of v leaves alone, and what it never undoes.
LEMMA OthersKept ==
  ASSUME Inv, NEW v \in Servers, IoThread(v) \/ Worker(v)
  PROVE  /\ \A w \in Servers \ {v} :
              /\ login_count'[w] = login_count[w]
              /\ worker'[w] = worker[w] /\ io'[w] = io[w]
              /\ inbox'[w] = inbox[w]
         /\ \A t \in Sessions : Home[t] # v =>
              /\ user_uid'[t] = user_uid[t] /\ reading'[t] = reading[t]
              /\ b_close'[t] = b_close[t] /\ logins'[t] = logins[t]
         /\ overlapped \subseteq overlapped' /\ hasty \subseteq hasty'
<1>1. CASE \E s \in Sessions :
             /\ Home[s] = v
             /\ \/ HandleAccept(s) \/ RejectHeader(s) \/ ThrowHeader(s)
                \/ CloseAnonymous(s)
  BY <1>1 DEF HandleAccept, RejectHeader, ThrowHeader, CloseAnonymous, EndOfReading,
              MarkClosed, Inv, TypeOK, redis, history
<1>2. CASE \E s \in Sessions : Home[s] = v /\ CloseHGet(s)
  BY <1>2 DEF CloseHGet, EndOfReading, Inv, TypeOK, redis
<1>3. CASE \E s \in Sessions : Home[s] = v /\ \E u \in Uids : PostLogin(s, u)
  BY <1>3 DEF PostLogin, Inv, TypeOK, connection, redis
<1>4. CASE CloseHSet(v) \/ CloseRemoveUserSession(v)
  BY <1>4 DEF CloseHSet, CloseRemoveUserSession, Inv, TypeOK, connection,
              redis, history
<1>5. CASE CloseFinish(v)
  <2>1. io[v].session \in Sessions /\ Home[io[v].session] = v
    BY <1>5 DEF CloseFinish, Inv, IoOwnsSession
  <2> QED
    BY <1>5, <2>1 DEF CloseFinish, MarkClosed, Inv, TypeOK, redis, history
<1>6. CASE LoginRejected(v) \/ LoginHGet(v) \/ LoginHSet(v)
  BY <1>6 DEF LoginRejected, LoginHGet, LoginHSet, Inv, TypeOK, connection,
              redis, history
<1>7. CASE LoginSetUserId(v)
  <2>1. Home[Head(inbox[v]).session] = v
    BY <1>7, FrontFacts DEF LoginSetUserId, Inv, WorkerHasLogin
  <2> QED
    BY <1>7, <2>1 DEF LoginSetUserId, Inv, TypeOK, redis, history
<1>8. CASE LoginSetIp(v) \/ LoginSetUserSession(v)
  BY <1>8 DEF LoginSetIp, LoginSetUserSession, Inv, TypeOK, connection,
              redis, history
<1> QED
  BY <1>1, <1>2, <1>3, <1>4, <1>5, <1>6, <1>7, <1>8 DEF IoThread, Worker

\* Every step of a thread.
LEMMA ThreadLogins ==
  ASSUME Inv, LoginsInv, NEW v \in Servers, IoThread(v) \/ Worker(v)
  PROVE  LoginsInv'
<1>1. CASE \E s \in Sessions :
             /\ Home[s] = v
             /\ \/ HandleAccept(s) \/ RejectHeader(s) \/ ThrowHeader(s)
                \/ CloseAnonymous(s)
  <2>1. UNCHANGED <<inbox, logins, user_uid, worker, io, overlapped>>
    BY <1>1 DEF HandleAccept, RejectHeader, ThrowHeader, CloseAnonymous, redis, history
  <2> QED
    BY <2>1, LoginsKept DEF LoginsInv, OverlapIsSeen
<1>2. CASE \E s \in Sessions : Home[s] = v /\ CloseHGet(s)
  <2>1. UNCHANGED <<inbox, logins, user_uid, worker>>
    BY <1>2 DEF CloseHGet, redis
  <2>2. worker[v].pc = "hset" => v \in overlapped'
    BY <1>2 DEF CloseHGet
  <2>3. \A w \in Servers : worker'[w].pc = "hset" /\ io'[w].pc = "hset" =>
          w \in overlapped'
    BY <1>2, <2>1, <2>2, OthersKept DEF LoginsInv, OverlapIsSeen, IoThread
  <2> QED
    BY <2>1, <2>3, LoginsKept
<1>3. CASE \E s \in Sessions : Home[s] = v /\ \E u \in Uids : PostLogin(s, u)
  BY <1>3, PostLogins
<1>4. CASE CloseHSet(v) \/ CloseRemoveUserSession(v) \/ CloseFinish(v)
  <2>1. UNCHANGED <<inbox, logins, worker, overlapped>>
    BY <1>4 DEF CloseHSet, CloseRemoveUserSession, CloseFinish, redis, history
  <2>2. io'[v].pc # "hset"
    BY <1>4 DEF CloseHSet, CloseRemoveUserSession, CloseFinish, Inv, TypeOK, IoIdle
  <2>3. \A t \in Sessions : user_uid'[t] = user_uid[t] \/ user_uid'[t] = NoUid
    BY <1>4 DEF CloseHSet, CloseRemoveUserSession, CloseFinish, connection,
                Inv, TypeOK
  <2>4. \A w \in Servers : worker'[w].pc = "hset" /\ io'[w].pc = "hset" =>
          w \in overlapped'
    BY <1>4, <2>1, <2>2, OthersKept DEF LoginsInv, OverlapIsSeen, IoThread
  <2> QED
    BY <2>1, <2>3, <2>4, LoginsKept
<1>5. CASE LoginHGet(v) \/ LoginHSet(v) \/ LoginSetIp(v)
  <2>1. UNCHANGED <<inbox, logins, user_uid, io>>
    BY <1>5 DEF LoginHGet, LoginHSet, LoginSetIp, connection, redis, history
  <2>2. worker'[v].pc = "hset" => (io[v].pc = "hset" => v \in overlapped')
    BY <1>5 DEF LoginHGet, LoginHSet, LoginSetIp, Inv, TypeOK
  <2>3. \A w \in Servers : worker'[w].pc = "hset" /\ io'[w].pc = "hset" =>
          w \in overlapped'
    BY <1>5, <2>1, <2>2, OthersKept DEF LoginsInv, OverlapIsSeen, Worker
  <2>4. \A w \in Servers : worker[w].pc \in {"set_ip", "bind"} =>
          worker'[w].pc \in {"set_ip", "bind"}
    <3>1. worker[v].pc \in {"set_ip", "bind"} => worker'[v].pc \in {"set_ip", "bind"}
      BY <1>5 DEF LoginHGet, LoginHSet, LoginSetIp, Inv, TypeOK
    <3> QED
      BY <1>5, <3>1, OthersKept DEF Worker
  <2> QED
    BY <2>1, <2>3, <2>4, LoginsKept
<1>6. CASE LoginRejected(v) \/ LoginSetUserSession(v)
  BY <1>6, PopLogins
<1>7. CASE LoginSetUserId(v)
  BY <1>7, SetUserIdLogins
<1> QED
  BY <1>1, <1>2, <1>3, <1>4, <1>5, <1>6, <1>7 DEF IoThread, Worker

\* The count commands of v do not fail in this step.
CountCommandsWork(v) ==
  /\ worker[v].pc = "idle" /\ worker'[v].pc = "hset" =>
       worker'[v].count = login_count[v]
  /\ io[v].pc = "idle" /\ io'[v].pc = "hset" => io'[v].count = login_count[v]
  /\ worker[v].pc = "hset" /\ worker'[v].pc = "set_uid" =>
       login_count'[v] = worker[v].count + 1
  /\ io[v].pc = "hset" /\ io'[v].pc = "remove" =>
       login_count'[v] = IF io[v].count > 0 THEN io[v].count - 1 ELSE 0

\* What spoils the count of a server is not undone while it runs: a session
\* that was dropped without a close is never closed.
LEMMA SpoiledForGood ==
  ASSUME Inv, NEW v \in Servers, IoThread(v) \/ Worker(v)
  PROVE  \A w \in Servers : Spoiled(w) => Spoiled(w)'
<1> SUFFICES ASSUME NEW w \in Servers, Spoiled(w) PROVE Spoiled(w)'
  OBVIOUS
<1>1. CASE w \in overlapped
  BY <1>1, OthersKept DEF Spoiled
<1>2. ASSUME NEW s \in Sessions, Home[s] = w, Len(logins[s]) > 1
      PROVE  Spoiled(w)'
  <2>1. Len(logins'[s]) > 1
    <3>1. CASE \E t \in Sessions : \E u \in Uids : PostLogin(t, u)
      <4>1. PICK t \in Sessions : \E u \in Uids : PostLogin(t, u)
        BY <3>1
      <4>2. PICK u \in Uids : logins' = [logins EXCEPT ![t] = Append(@, u)]
        BY <4>1 DEF PostLogin
      <4>3. logins[s] \in Seq(Uids) /\ logins \in [Sessions -> Seq(Uids)]
        BY DEF Inv, TypeOK
      <4>4. logins'[s] = logins[s] \/ logins'[s] = Append(logins[s], u)
        BY <4>2, <4>3
      <4>5. Len(Append(logins[s], u)) = Len(logins[s]) + 1 /\ Len(logins[s]) \in Nat
        BY <4>3
      <4> QED
        BY <1>2, <4>4, <4>5
    <3>2. CASE ~\E t \in Sessions : \E u \in Uids : PostLogin(t, u)
      <4>1. logins' = logins
        BY <3>2 DEF IoThread, Worker, HandleAccept, RejectHeader, ThrowHeader,
           CloseAnonymous, CloseHGet, CloseHSet, CloseRemoveUserSession,
           CloseFinish, LoginRejected, LoginHGet, LoginHSet, LoginSetUserId,
           LoginSetIp, LoginSetUserSession, history
      <4> QED
        BY <1>2, <4>1
    <3> QED
      BY <3>1, <3>2
  <2> QED
    BY <1>2, <2>1 DEF Spoiled
<1>3. ASSUME NEW s \in Sessions, Home[s] = w, s \in hasty
      PROVE  Spoiled(w)'
  BY <1>3, OthersKept DEF Spoiled
<1>4. ASSUME NEW s \in Sessions, Home[s] = w, reading[s] = "dead",
             ~b_close[s], io[w].session # s
      PROVE  Spoiled(w)'
  <2>1. s # NoSession
    BY PresenceAssumption
  <2>2. CASE w # v
    BY <1>4, <2>2, OthersKept DEF Spoiled
  <2>3. CASE w = v
    <3>1. reading'[s] = "dead" /\ ~b_close'[s] /\ io'[v].session # s
      <4>1. CASE \E t \in Sessions :
                   /\ Home[t] = v
                   /\ \/ HandleAccept(t) \/ RejectHeader(t) \/ ThrowHeader(t)
                      \/ CloseAnonymous(t)
        <5>1. PICK t \in Sessions :
                \/ HandleAccept(t) \/ RejectHeader(t) \/ ThrowHeader(t)
                \/ CloseAnonymous(t)
          BY <4>1
        <5>2. t # s
          BY <1>4, <5>1 DEF HandleAccept, RejectHeader, ThrowHeader,
             CloseAnonymous, EndOfReading
        <5>3. io' = io
          BY <5>1 DEF HandleAccept, RejectHeader, ThrowHeader, CloseAnonymous
        <5>4. reading'[s] = reading[s]
          BY <5>1, <5>2 DEF HandleAccept, RejectHeader, ThrowHeader,
             CloseAnonymous, EndOfReading, Inv, TypeOK
        <5>5. b_close'[s] = b_close[s]
          BY <5>1, <5>2 DEF HandleAccept, RejectHeader, ThrowHeader,
             CloseAnonymous, MarkClosed, Inv, TypeOK
        <5> QED
          BY <1>4, <2>3, <5>3, <5>4, <5>5
      <4>2. CASE \E t \in Sessions : Home[t] = v /\ CloseHGet(t)
        BY <1>4, <2>3, <4>2 DEF CloseHGet, EndOfReading, Inv, TypeOK
      <4>3. CASE \/ \E t \in Sessions : \E u \in Uids : PostLogin(t, u)
                 \/ LoginRejected(v) \/ LoginHGet(v) \/ LoginHSet(v)
                 \/ LoginSetUserId(v) \/ LoginSetIp(v) \/ LoginSetUserSession(v)
        BY <1>4, <2>3, <4>3 DEF PostLogin, LoginRejected, LoginHGet, LoginHSet,
           LoginSetUserId, LoginSetIp, LoginSetUserSession, connection
      <4>4. CASE CloseHSet(v) \/ CloseRemoveUserSession(v)
        <5>1. io'[v].session = io[v].session /\ UNCHANGED <<reading, b_close>>
          BY <4>4 DEF CloseHSet, CloseRemoveUserSession, connection, Inv, TypeOK
        <5> QED
          BY <1>4, <2>3, <5>1
      <4>5. CASE CloseFinish(v)
        <5>1. io'[v].session = NoSession
          BY <4>5 DEF CloseFinish, Inv, TypeOK, IoIdle
        <5>2. b_close'[s] = b_close[s] /\ reading' = reading
          BY <1>4, <2>3, <4>5 DEF CloseFinish, MarkClosed, Inv, TypeOK
        <5> QED
          BY <1>4, <2>1, <5>1, <5>2
      <4> QED
        BY <4>1, <4>2, <4>3, <4>4, <4>5 DEF IoThread, Worker
    <3> QED
      BY <1>4, <2>3, <3>1 DEF Spoiled
  <2> QED
    BY <2>2, <2>3
<1> QED
  BY <1>1, <1>2, <1>3, <1>4 DEF Spoiled

\* A set of sessions that are counted is finite.
LEMMA CountedFinite ==
  ASSUME IsFiniteSet(Sessions), NEW v \in Servers
  PROVE  IsFiniteSet(Counted(v)) /\ Cardinality(Counted(v)) \in Nat
<1>1. Counted(v) \subseteq Sessions
  BY DEF Counted
<1> QED
  BY <1>1, FS_Subset, FS_CardinalityType

\* Steps that count nobody and leave the count as it is.
LEMMA CountKept ==
  ASSUME NEW v \in Servers, CountRight(v),
         Spoiled(v) => Spoiled(v)',
         login_count'[v] = login_count[v],
         \A t \in Sessions : Home[t] = v =>
           (user_uid'[t] = NoUid <=> user_uid[t] = NoUid),
         \A t \in Sessions :
           (io'[v].session = t /\ io'[v].pc \in {"remove", "finish"}) <=>
             (io[v].session = t /\ io[v].pc \in {"remove", "finish"}),
         worker'[v].pc = "set_uid" <=> worker[v].pc = "set_uid",
         worker[v].pc = "set_uid" => Head(inbox'[v]) = Head(inbox[v]),
         worker'[v].pc = "hset" =>
           worker'[v].count = login_count[v] \/ worker'[v] = worker[v],
         io'[v].pc = "hset" =>
           io'[v].count = login_count[v] \/ io'[v] = io[v]
  PROVE  CountRight(v)'
<1>1. Counted(v)' = Counted(v)
  BY DEF Counted
<1> QED
  BY <1>1 DEF CountRight

\* close() writes the count back: its session was counted and is no more.
LEMMA CloseHSetCount ==
  ASSUME Inv, LoginsInv, IsFiniteSet(Sessions), NEW v \in Servers, CloseHSet(v),
         CountRight(v), CountCommandsWork(v), Spoiled(v) => Spoiled(v)'
  PROVE  CountRight(v)'
<1> SUFFICES ASSUME ~Spoiled(v), ~Spoiled(v)'
             PROVE  CountRight(v)'
  BY DEF CountRight
<1> DEFINE s == io[v].session
<1>1. /\ io[v].pc = "hset" /\ io'[v].pc = "remove" /\ io'[v].session = s
      /\ UNCHANGED <<reading, user_uid, inbox, worker>>
  BY DEF CloseHSet, connection, Inv, TypeOK
<1>2. /\ s \in Sessions /\ Home[s] = v /\ reading[s] = "dead"
      /\ user_uid[s] # NoUid
  BY <1>1 DEF Inv, IoOwnsSession
<1>3. /\ login_count[v] = Cardinality(Counted(v))
      /\ io[v].count = login_count[v]
      /\ worker[v].pc # "hset"
  BY <1>1 DEF CountRight, LoginsInv, OverlapIsSeen, Spoiled
<1>4. s \in Counted(v)
  BY <1>1, <1>2 DEF Counted
<1>5. ~(worker[v].pc = "set_uid" /\ Head(inbox[v]).session = s)
  <2> SUFFICES ASSUME worker[v].pc = "set_uid", Head(inbox[v]).session = s
               PROVE  FALSE
    OBVIOUS
  <2>1. HasQueued(s)
    BY FrontFacts DEF Inv, WorkerHasLogin
  <2> QED
    BY <1>2, <2>1 DEF Inv, DeadIsHasty, Spoiled
<1> HIDE DEF s
<1>6. Counted(v)' = Counted(v) \ {s}
  <2>1. s \notin Counted(v)'
    BY <1>1, <1>5 DEF Counted
  <2>2. \A t \in Sessions \ {s} : t \in Counted(v)' <=> t \in Counted(v)
    <3>1. io[v].session = s
      BY DEF s
    <3> QED
      BY <1>1, <3>1 DEF Counted
  <2>3. Counted(v)' \subseteq Sessions /\ Counted(v) \subseteq Sessions
    BY DEF Counted
  <2> QED
    BY <2>1, <2>2, <2>3
<1>7. Cardinality(Counted(v)') = Cardinality(Counted(v)) - 1
  BY <1>4, <1>6, CountedFinite, FS_RemoveElement
<1>8. Cardinality(Counted(v)) \in Nat /\ Cardinality(Counted(v)) # 0
  BY <1>4, CountedFinite, FS_EmptySet
<1>9. login_count'[v] = io[v].count - 1
  <2>1. login_count'[v] = IF io[v].count > 0 THEN io[v].count - 1 ELSE 0
    BY <1>1 DEF CountCommandsWork
  <2> QED
    BY <1>3, <1>8, <2>1
<1>10. login_count'[v] = Cardinality(Counted(v)')
  BY <1>3, <1>7, <1>9
<1> QED
  BY <1>1, <1>3, <1>10 DEF CountRight

\* loginHandler writes the count back: its session was not counted and is.
LEMMA LoginHSetCount ==
  ASSUME Inv, LoginsInv, IsFiniteSet(Sessions), NEW v \in Servers, LoginHSet(v),
         CountRight(v), CountCommandsWork(v), Spoiled(v) => Spoiled(v)'
  PROVE  CountRight(v)'
<1> SUFFICES ASSUME ~Spoiled(v), ~Spoiled(v)'
             PROVE  CountRight(v)'
  BY DEF CountRight
<1> DEFINE s == Head(inbox[v]).session
<1>1. /\ worker[v].pc = "hset" /\ worker'[v].pc = "set_uid"
      /\ UNCHANGED <<reading, user_uid, inbox, io>>
  BY DEF LoginHSet, connection, Inv, TypeOK
<1>2. s \in Sessions /\ Home[s] = v /\ HasQueued(s)
  BY <1>1, FrontFacts DEF Inv, WorkerHasLogin, Login
<1>3. /\ login_count[v] = Cardinality(Counted(v))
      /\ worker[v].count = login_count[v]
      /\ io[v].pc # "hset"
  BY <1>1 DEF CountRight, LoginsInv, OverlapIsSeen, Spoiled
<1>4. reading[s] # "dead"
  BY <1>2 DEF Inv, DeadIsHasty, Spoiled
<1>5. io[v].session # s
  BY <1>2, <1>4, PresenceAssumption DEF Inv, IoOwnsSession
<1>6. user_uid[s] = NoUid
  <2>1. Len(logins[s]) <= 1
    <3>1. ~(Len(logins[s]) > 1) /\ Len(logins[s]) \in Nat
      BY <1>2 DEF Spoiled, Inv, TypeOK
    <3> QED
      BY <3>1
  <2> QED
    BY <1>1, <1>2, <2>1 DEF LoginsInv, QueuedIsNew, Binding
<1>7. s \notin Counted(v) /\ s \in Counted(v)'
  BY <1>1, <1>2, <1>6 DEF Counted
<1>8. Counted(v)' = Counted(v) \cup {s}
  <2>1. \A t \in Sessions \ {s} : t \in Counted(v)' <=> t \in Counted(v)
    BY <1>1 DEF Counted
  <2>2. Counted(v)' \subseteq Sessions /\ Counted(v) \subseteq Sessions
    BY DEF Counted
  <2> QED
    BY <1>2, <1>7, <2>1, <2>2
<1> HIDE DEF s
<1>9. Cardinality(Counted(v)') = Cardinality(Counted(v)) + 1
  BY <1>7, <1>8, CountedFinite, FS_AddElement
<1>10. login_count'[v] = worker[v].count + 1
  BY <1>1 DEF CountCommandsWork
<1>11. login_count'[v] = Cardinality(Counted(v)')
  BY <1>3, <1>9, <1>10
<1> QED
  BY <1>1, <1>3, <1>11 DEF CountRight

\* The session that is counted because its login is past the count gets its
\* uid, and is counted for that.
LEMMA SetUserIdCount ==
  ASSUME Inv, NEW v \in Servers, LoginSetUserId(v),
         CountRight(v), Spoiled(v) => Spoiled(v)'
  PROVE  CountRight(v)'
<1> SUFFICES ASSUME ~Spoiled(v), ~Spoiled(v)'
             PROVE  CountRight(v)'
  BY DEF CountRight
<1> DEFINE s == Head(inbox[v]).session
<1>1. /\ worker[v].pc = "set_uid" /\ worker'[v].pc = "set_ip"
      /\ user_uid' = [user_uid EXCEPT ![s] = Head(inbox[v]).uid]
      /\ UNCHANGED <<inbox, io, login_count>>
  BY DEF LoginSetUserId, redis, Inv, TypeOK
<1>2. /\ s \in Sessions /\ Home[s] = v /\ HasQueued(s)
      /\ Head(inbox[v]).uid \in Uids
  BY <1>1, FrontFacts DEF Inv, WorkerHasLogin, Login
<1>3. reading[s] # "dead"
  BY <1>2 DEF Inv, DeadIsHasty, Spoiled
<1>4. io[v].session # s
  BY <1>2, <1>3, PresenceAssumption DEF Inv, IoOwnsSession
<1>5. /\ user_uid'[s] # NoUid
      /\ \A t \in Sessions \ {s} : user_uid'[t] = user_uid[t]
  BY <1>1, <1>2, PresenceAssumption DEF Inv, TypeOK
<1>6. s \in Counted(v) /\ s \in Counted(v)'
  BY <1>1, <1>2, <1>4, <1>5 DEF Counted
<1>7. Counted(v)' = Counted(v)
  <2>1. \A t \in Sessions \ {s} : t \in Counted(v)' <=> t \in Counted(v)
    BY <1>1, <1>5 DEF Counted
  <2>2. Counted(v)' \subseteq Sessions /\ Counted(v) \subseteq Sessions
    BY DEF Counted
  <2> QED
    BY <1>6, <2>1, <2>2
<1> HIDE DEF s
<1> QED
  BY <1>1, <1>7 DEF CountRight

\* The close comes to its end; its session is not counted any more.
LEMMA CloseFinishCount ==
  ASSUME Inv, NEW v \in Servers, CloseFinish(v),
         CountRight(v), Spoiled(v) => Spoiled(v)'
  PROVE  CountRight(v)'
<1> DEFINE s == io[v].session
<1>1. /\ io[v].pc = "finish" /\ io'[v].pc = "idle" /\ io'[v].session = NoSession
      /\ user_uid' = [user_uid EXCEPT ![s] = NoUid]
      /\ UNCHANGED <<inbox, worker, login_count>>
  BY DEF CloseFinish, MarkClosed, redis, Inv, TypeOK, IoIdle
<1>2. s \in Sessions
  BY <1>1 DEF Inv, IoOwnsSession
<1>3. /\ user_uid'[s] = NoUid
      /\ \A t \in Sessions \ {s} : user_uid'[t] = user_uid[t]
  BY <1>1, <1>2 DEF Inv, TypeOK
<1>4. Counted(v)' = Counted(v)
  <2>1. \A t \in Sessions \ {s} : t \in Counted(v)' <=> t \in Counted(v)
    BY <1>1, <1>3 DEF Counted
  <2>2. s \in Counted(v)' <=> s \in Counted(v)
    BY <1>1, <1>3 DEF Counted
  <2>3. Counted(v)' \subseteq Sessions /\ Counted(v) \subseteq Sessions
    BY DEF Counted
  <2> QED
    BY <1>2, <2>1, <2>2, <2>3
<1> HIDE DEF s
<1> QED
  BY <1>1, <1>4 DEF CountRight

\* Every step of a thread of w keeps the count of v right, unless a count
\* command of v fails in it.
LEMMA CountStep ==
  ASSUME Inv, LoginsInv, IsFiniteSet(Sessions), NEW v \in Servers,
         NEW w \in Servers, IoThread(w) \/ Worker(w),
         CountRight(v), CountCommandsWork(v)
  PROVE  CountRight(v)'
<1>1. Spoiled(v) => Spoiled(v)'
  BY SpoiledForGood
<1>2. CASE w # v
  <2>1. /\ login_count'[v] = login_count[v] /\ worker'[v] = worker[v]
        /\ io'[v] = io[v] /\ inbox'[v] = inbox[v]
        /\ \A t \in Sessions : Home[t] = v => user_uid'[t] = user_uid[t]
    BY <1>2, OthersKept
  <2> QED
    BY <1>1, <2>1, CountKept
<1>3. CASE w = v
  <2>1. ASSUME NEW s \in Sessions, Home[s] = v, RejectHeader(s)
        PROVE  CountRight(v)'
    <3>1. io[v].pc = "idle" /\ reading[s] = "open" /\ UNCHANGED <<io, b_close>>
      BY <2>1 DEF RejectHeader, EndOfReading
    <3>2. reading'[s] = "dead" /\ ~b_close[s] /\ io[v].session # s
      BY <2>1, <3>1, PresenceAssumption
         DEF RejectHeader, EndOfReading, Inv, TypeOK, ClosedIsDead, IoOwnsSession
    <3> QED
      BY <2>1, <3>1, <3>2 DEF CountRight, Spoiled
  <2>2. ASSUME NEW s \in Sessions, Home[s] = v, CloseHGet(s)
        PROVE  CountRight(v)'
    <3>1. /\ io[v].pc = "idle" /\ io'[v].pc = "hset"
          /\ UNCHANGED <<user_uid, inbox, worker, login_count>>
      BY <2>2 DEF CloseHGet, EndOfReading, redis, Inv, TypeOK
    <3>2. io'[v].count = login_count[v]
      BY <3>1 DEF CountCommandsWork
    <3> QED
      BY <1>1, <3>1, <3>2, CountKept
  <2>3. ASSUME NEW s \in Sessions,
               HandleAccept(s) \/ ThrowHeader(s) \/ CloseAnonymous(s)
        PROVE  CountRight(v)'
    <3>1. UNCHANGED <<user_uid, inbox, worker, io, login_count>>
      BY <2>3 DEF HandleAccept, ThrowHeader, CloseAnonymous, redis, history
    <3> QED
      BY <1>1, <3>1, CountKept
  <2>4. ASSUME NEW s \in Sessions, NEW u \in Uids, Home[s] = v, PostLogin(s, u)
        PROVE  CountRight(v)'
    <3>1. worker[v].pc = "idle" /\ UNCHANGED <<user_uid, worker, io, login_count>>
      BY <2>4 DEF PostLogin, connection, redis
    <3> QED
      BY <1>1, <3>1, CountKept
  <2>5. CASE CloseRemoveUserSession(v)
    <3>1. /\ io[v].pc = "remove" /\ io'[v].pc = "finish"
          /\ io'[v].session = io[v].session
          /\ UNCHANGED <<user_uid, inbox, worker, login_count>>
      BY <2>5 DEF CloseRemoveUserSession, connection, redis, Inv, TypeOK
    <3> QED
      BY <1>1, <3>1, CountKept
  <2>6. CASE LoginRejected(v)
    <3>1. worker[v].pc = "idle" /\ UNCHANGED <<user_uid, worker, io, login_count>>
      BY <2>6 DEF LoginRejected, connection, redis
    <3> QED
      BY <1>1, <3>1, CountKept
  <2>7. CASE LoginHGet(v)
    <3>1. /\ worker[v].pc = "idle" /\ worker'[v].pc = "hset"
          /\ UNCHANGED <<user_uid, inbox, io, login_count>>
      BY <2>7 DEF LoginHGet, connection, redis, Inv, TypeOK
    <3>2. worker'[v].count = login_count[v]
      BY <3>1 DEF CountCommandsWork
    <3> QED
      BY <1>1, <3>1, <3>2, CountKept
  <2>8. CASE LoginSetIp(v)
    <3>1. /\ worker[v].pc = "set_ip" /\ worker'[v].pc = "bind"
          /\ UNCHANGED <<user_uid, inbox, io, login_count>>
      BY <2>8 DEF LoginSetIp, connection, Inv, TypeOK
    <3> QED
      BY <1>1, <3>1, CountKept
  <2>9. CASE LoginSetUserSession(v)
    <3>1. /\ worker[v].pc = "bind" /\ worker'[v].pc = "idle"
          /\ UNCHANGED <<user_uid, io, login_count>>
      BY <2>9 DEF LoginSetUserSession, connection, redis, Inv, TypeOK, WorkerIdle
    <3> QED
      BY <1>1, <3>1, CountKept
  <2>10. CASE CloseHSet(v)
    BY <1>1, <2>10, CloseHSetCount
  <2>11. CASE CloseFinish(v)
    BY <1>1, <2>11, CloseFinishCount
  <2>12. CASE LoginHSet(v)
    BY <1>1, <2>12, LoginHSetCount
  <2>13. CASE LoginSetUserId(v)
    BY <1>1, <2>13, SetUserIdCount
  <2> QED
    BY <1>3, <2>1, <2>2, <2>3, <2>4, <2>5, <2>6, <2>7, <2>8, <2>9, <2>10,
       <2>11, <2>12, <2>13 DEF IoThread, Worker
<1> QED
  BY <1>2, <1>3

\* If Redis does not fail, no count command does.
LEMMA NoFailureWorks ==
  ASSUME Inv, ~RedisMayFail, NEW v \in Servers, NEW w \in Servers,
         IoThread(w) \/ Worker(w)
  PROVE  CountCommandsWork(v)
<1>1. CASE w # v
  BY <1>1, OthersKept DEF CountCommandsWork
<1>2. CASE w = v
  <2>1. ASSUME worker[v].pc = "idle", worker'[v].pc = "hset"
        PROVE  worker'[v].count = login_count[v]
    <3>1. LoginHGet(v)
      BY <1>2, <2>1 DEF IoThread, Worker, HandleAccept, RejectHeader, ThrowHeader,
         CloseAnonymous, CloseHGet, PostLogin, CloseHSet,
         CloseRemoveUserSession, CloseFinish, LoginRejected, LoginHSet,
         LoginSetUserId, LoginSetIp, LoginSetUserSession
    <3> QED
      BY <3>1 DEF LoginHGet, CountRead, Inv, TypeOK
  <2>2. ASSUME io[v].pc = "idle", io'[v].pc = "hset"
        PROVE  io'[v].count = login_count[v]
    <3>1. \E s \in Sessions : Home[s] = v /\ CloseHGet(s)
      BY <1>2, <2>2 DEF IoThread, Worker, HandleAccept, RejectHeader, ThrowHeader,
         CloseAnonymous, PostLogin, CloseHSet, CloseRemoveUserSession,
         CloseFinish, LoginRejected, LoginHGet, LoginHSet, LoginSetUserId,
         LoginSetIp, LoginSetUserSession
    <3> QED
      BY <3>1 DEF CloseHGet, CountRead, Inv, TypeOK
  <2>3. ASSUME worker[v].pc = "hset", worker'[v].pc = "set_uid"
        PROVE  login_count'[v] = worker[v].count + 1
    <3>1. LoginHSet(v)
      BY <1>2, <2>3 DEF IoThread, Worker, HandleAccept, RejectHeader, ThrowHeader,
         CloseAnonymous, CloseHGet, PostLogin, CloseHSet,
         CloseRemoveUserSession, CloseFinish, LoginRejected, LoginHGet,
         LoginSetUserId, LoginSetIp, LoginSetUserSession
    <3> QED
      BY <3>1 DEF LoginHSet, CountWritten, Inv, TypeOK
  <2>4. ASSUME io[v].pc = "hset", io'[v].pc = "remove"
        PROVE  login_count'[v] = IF io[v].count > 0 THEN io[v].count - 1 ELSE 0
    <3>1. CloseHSet(v)
      BY <1>2, <2>4 DEF IoThread, Worker, HandleAccept, RejectHeader, ThrowHeader,
         CloseAnonymous, CloseHGet, EndOfReading, PostLogin,
         CloseRemoveUserSession, CloseFinish, LoginRejected, LoginHGet,
         LoginHSet, LoginSetUserId, LoginSetIp, LoginSetUserSession
    <3> QED
      BY <3>1 DEF CloseHSet, CountWritten, Inv, TypeOK
  <2> QED
    BY <2>1, <2>2, <2>3, <2>4 DEF CountCommandsWork
<1> QED
  BY <1>1, <1>2

\* At the start nobody is logged in and nothing has been sent.
LEMMA InitCount ==
  ASSUME Init
  PROVE  LoginsInv /\ \A v \in Servers : CountRight(v)
<1>1. Len(<< >>) = 0 /\ 1 .. 0 = {}
  BY EmptySeq
<1>2. LoginsInv
  BY <1>1, PresenceAssumption
     DEF Init, LoginsInv, OverlapIsSeen, QueuedOnce, QueuedIsNew, Once,
         WorkerIdle
<1>3. \A v \in Servers : Counted(v) = {}
  BY DEF Init, Counted, WorkerIdle
<1>4. \A v \in Servers : CountRight(v)
  BY <1>3, FS_EmptySet DEF Init, CountRight, WorkerIdle, IoIdle
<1> QED
  BY <1>2, <1>4

LEMMA RightIsExact ==
  ASSUME NEW v \in Servers, CountRight(v)
  PROVE  CountExact(v)
BY DEF CountRight, Spoiled, CountExact

-----------------------------------------------------------------------------
(***************************************************************************)
(* The theorems.                                                           *)
(***************************************************************************)

\* Types; and _sessions has exactly the connections that are read, those being
\* closed, and those whose reading ended with the exception that AsyncReadHead
\* swallows (CServer::HandleAccept, ClearSession): those are leaked, the ones
\* that end in any other way are not.
THEOREM TypeCorrect == Spec => []TypeOK
<1>1. Inv => TypeOK
  BY DEF Inv
<1> QED
  BY <1>1, Invariance, PTL

\* UserMgr never has a session that CSession::close has closed, except for
\* a client that left with a login queued or used several uids.
THEOREM NoBindingOutlivesItsSession == Spec => []NoStaleBinding
<1>1. Inv => NoStaleBinding
  BY BoundIsNotClosed
<1> QED
  BY <1>1, Invariance, PTL

\* UserMgr has the session of every user who is logged in, unless the uid
\* was used over two connections of the server at the same time.
THEOREM LoggedInIsReachable == Spec => []ReachableWhenLoggedIn
<1>1. Inv => ReachableWhenLoggedIn
  BY DEF Inv
<1> QED
  BY <1>1, Invariance, PTL

\* "uip_<uid>" names the server of every user who is logged in, unless the
\* uid was used on two servers at the same time: loginHandler sets it before
\* setUserSession, and nothing deletes it.  Redis must not fail.
THEOREM LoggedInIsRoutable ==
  ASSUME ~RedisMayFail
  PROVE  Spec => []RoutableByUip
<1>1. Init => RouteInv({})
  <2> SUFFICES ASSUME Init PROVE RouteInv({})
    OBVIOUS
  <2>1. Elements(<< >>) = {}
    BY EmptySeq, ElementsTyped
  <2>2. \A s \in Sessions : Sent(s) = {}
    BY <2>1 DEF Init, Sent
  <2>3. AcrossIsCrossed
    BY <2>2 DEF AcrossIsCrossed
  <2>4. UipBeforeBinding({}) /\ RoutableExcept({})
    BY DEF Init, UipBeforeBinding, RoutableExcept, Routable, LoggedInAs,
           WorkerIdle
  <2> QED
    BY <2>3, <2>4 DEF RouteInv
<1>2. RouteInv({}) => RoutableByUip
  BY DEF RouteInv, RoutableExcept, RoutableByUip
<1> QED
  BY <1>1, <1>2, NextRoute, Invariance, PTL DEF Spec

\* The login count of a server is the number of its sessions that are logged
\* in (the hSet of loginHandler and of CSession::close), unless two updates of
\* it overlapped, or a session of the server has logged in twice, ended with a
\* login queued, or been dropped for a header that is too large.  Redis must
\* not fail, and a server has finitely many connections.
THEOREM CountIsExact ==
  ASSUME ~RedisMayFail, IsFiniteSet(Sessions)
  PROVE  Spec => []LoginCountExact
<1> DEFINE CInv == LoginsInv /\ \A v \in Servers : CountRight(v)
<1>1. Init => CInv
  BY InitCount
<1>2. Inv /\ CInv /\ [Next]_vars => CInv'
  <2> SUFFICES ASSUME Inv, CInv, [Next]_vars PROVE CInv'
    OBVIOUS
  <2>1. CASE UNCHANGED vars
    BY <2>1 DEF vars, LoginsInv, OverlapIsSeen, QueuedOnce, QueuedIsNew, Once,
       HasQueued, Queued, Binding, CountRight, Spoiled, Counted
  <2>2. ASSUME NEW w \in Servers, IoThread(w) \/ Worker(w)
        PROVE  CInv'
    BY <2>2, ThreadLogins, CountStep, NoFailureWorks
  <2> QED
    BY <2>1, <2>2 DEF Next
<1>3. CInv => LoginCountExact
  BY RightIsExact DEF LoginCountExact
<1> HIDE DEF CInv
<1> QED
  BY <1>1, <1>2, <1>3, Invariance, PTL DEF Spec

-----------------------------------------------------------------------------
(***************************************************************************)
(*                         The life of a server                            *)
(*                                                                         *)
(* Servers stop, crash and restart while the threads of Presence run and   *)
(* Redis commands fail, for any numbers of restarts and failures.  The     *)
(* invariant above is preserved by what main and a crash do as well; the   *)
(* counts and keys need what the history says of failed commands.          *)
(***************************************************************************)

\* A server whose I/O thread has stopped closes no connection.
StoppedIsIdle == \A v \in Servers : phase[v] # "serving" => io[v].pc = "idle"

\* A server that is down has no worker and nobody logged in.
DownIsEmpty ==
  \A v \in Servers :
    phase[v] = "down" =>
      /\ worker[v].pc = "idle"
      /\ \A s \in Sessions : Home[s] = v => user_uid[s] = NoUid

\* The count of a server is deleted when its I/O thread has stopped; from
\* then on no login arrives.
UnlistedIsOver ==
  \A v \in unlisted :
    /\ phase[v] \in {"deleted", "closed", "hung", "down"}
    /\ v \notin backlog => inbox[v] = << >>

LifeInv ==
  /\ Inv /\ LifeTypeOK
  /\ StoppedIsIdle /\ DownIsEmpty /\ UnlistedIsOver /\ StoppedIsUnlisted

\* A server and its connections have the same home.
LEMMA HomeOf ==
  ASSUME NEW v \in Servers, NEW s \in Sessions
  PROVE  /\ Home[s] \in Servers
         /\ s \in OfServer(v) <=> Home[s] = v
BY PresenceAssumption DEF OfServer

-----------------------------------------------------------------------------
(***************************************************************************)
(* The end of a process.                                                   *)
(***************************************************************************)

\* The memory of a server is gone, that of the others is not touched.
LEMMA EndsEffect ==
  ASSUME TypeOK, NEW v \in Servers, Ends(v)
  PROVE  /\ \A s \in Sessions :
              Home[s] = v =>
                /\ reading'[s] = IF reading[s] = "new" THEN "new" ELSE "dead"
                /\ b_close'[s] <=> b_close[s] \/ reading[s] # "new"
                /\ user_uid'[s] = NoUid /\ logins'[s] = << >>
         /\ \A s \in Sessions :
              Home[s] # v =>
                /\ reading'[s] = reading[s] /\ b_close'[s] = b_close[s]
                /\ user_uid'[s] = user_uid[s] /\ logins'[s] = logins[s]
                /\ s \in hasty' <=> s \in hasty
         /\ /\ sessions'[v] = {} /\ uid_session'[v] = [u \in Uids |-> NoSession]
            /\ inbox'[v] = << >> /\ worker'[v] = WorkerIdle /\ io'[v] = IoIdle
         /\ \A w \in Servers \ {v} :
              /\ sessions'[w] = sessions[w] /\ uid_session'[w] = uid_session[w]
              /\ inbox'[w] = inbox[w] /\ worker'[w] = worker[w] /\ io'[w] = io[w]
         /\ contested' \subseteq contested /\ hasty' \subseteq hasty
         /\ overlapped' \subseteq overlapped
         /\ login_count' = login_count /\ uip' = uip
<1>1. /\ reading' = [s \in Sessions |->
            IF s \in OfServer(v) /\ reading[s] # "new" THEN "dead" ELSE reading[s]]
      /\ b_close' = [s \in Sessions |->
            b_close[s] \/ (s \in OfServer(v) /\ reading[s] # "new")]
      /\ user_uid' = [s \in Sessions |->
            IF s \in OfServer(v) THEN NoUid ELSE user_uid[s]]
      /\ logins' = [s \in Sessions |->
            IF s \in OfServer(v) THEN << >> ELSE logins[s]]
      /\ hasty' = hasty \ OfServer(v)
  BY DEF Ends
<1>2. /\ sessions' = [sessions EXCEPT ![v] = {}]
      /\ uid_session' = [uid_session EXCEPT ![v] = [u \in Uids |-> NoSession]]
      /\ inbox' = [inbox EXCEPT ![v] = << >>]
      /\ worker' = [worker EXCEPT ![v] = WorkerIdle]
      /\ io' = [io EXCEPT ![v] = IoIdle]
      /\ contested' = {c \in contested : <<c[2], c[3]>> # <<v, v>>}
      /\ overlapped' = overlapped \ {v}
      /\ login_count' = login_count /\ uip' = uip
  BY DEF Ends, redis
<1>3. b_close \in [Sessions -> BOOLEAN]
  BY DEF TypeOK
<1>4. \A s \in Sessions :
        Home[s] = v =>
          /\ reading'[s] = IF reading[s] = "new" THEN "new" ELSE "dead"
          /\ b_close'[s] <=> b_close[s] \/ reading[s] # "new"
          /\ user_uid'[s] = NoUid /\ logins'[s] = << >>
  BY <1>1, HomeOf
<1>5. \A s \in Sessions :
        Home[s] # v =>
          /\ reading'[s] = reading[s] /\ b_close'[s] = b_close[s]
          /\ user_uid'[s] = user_uid[s] /\ logins'[s] = logins[s]
          /\ s \in hasty' <=> s \in hasty
  BY <1>1, <1>3, HomeOf
<1>6. /\ /\ sessions'[v] = {} /\ uid_session'[v] = [u \in Uids |-> NoSession]
         /\ inbox'[v] = << >> /\ worker'[v] = WorkerIdle /\ io'[v] = IoIdle
      /\ \A w \in Servers \ {v} :
           /\ sessions'[w] = sessions[w] /\ uid_session'[w] = uid_session[w]
           /\ inbox'[w] = inbox[w] /\ worker'[w] = worker[w] /\ io'[w] = io[w]
  BY <1>2 DEF TypeOK
<1>7. contested' \subseteq contested /\ hasty' \subseteq hasty
      /\ overlapped' \subseteq overlapped
  BY <1>1, <1>2
<1> QED
  BY <1>2, <1>4, <1>5, <1>6, <1>7

\* What remains contested: all that concerns another server.
LEMMA EndsContested ==
  ASSUME TypeOK, NEW v \in Servers, Ends(v), NEW u, NEW x, NEW y,
         x # v \/ y # v
  PROVE  <<u, x, y>> \in contested' <=> <<u, x, y>> \in contested
<1>1. contested' = {c \in contested : <<c[2], c[3]>> # <<v, v>>}
  BY DEF Ends
<1>2. <<u, x, y>>[2] = x /\ <<u, x, y>>[3] = y
  OBVIOUS
<1>3. <<x, y>> # <<v, v>>
  OBVIOUS
<1> QED
  BY <1>1, <1>2, <1>3

\* Types after the end of a process.
LEMMA EndsTypes ==
  ASSUME Inv, NEW v \in Servers, Ends(v)
  PROVE  TypeOK'
<1>1. TypeOK
  BY DEF Inv
<1>2. /\ reading' \in [Sessions -> {"new", "open", "dead", "thrown"}]
      /\ b_close' \in [Sessions -> BOOLEAN]
      /\ user_uid' \in [Sessions -> Uids \cup {NoUid}]
  BY <1>1 DEF Ends, TypeOK
<1>3. /\ uid_session' \in [Servers -> [Uids -> Sessions \cup {NoSession}]]
      /\ sessions' \in [Servers -> SUBSET Sessions]
  BY <1>1 DEF Ends, TypeOK
<1>4. inbox' \in [Servers -> Seq(Login)]
  <2>1. << >> \in Seq(Login)
    BY EmptySeq
  <2> QED
    BY <1>1, <2>1 DEF Ends, TypeOK
<1>5. logins' \in [Sessions -> Seq(Uids)]
  <2>1. << >> \in Seq(Uids)
    BY EmptySeq
  <2> QED
    BY <1>1, <2>1 DEF Ends, TypeOK
<1>6. /\ worker' \in [Servers -> [pc : {"idle", "hset", "set_uid", "set_ip", "bind"},
                                  count : Nat]]
      /\ io' \in [Servers -> [pc : {"idle", "hset", "remove", "finish"},
                              count : Nat, session : Sessions \cup {NoSession}]]
  BY <1>1 DEF Ends, TypeOK, WorkerIdle, IoIdle
<1>7. /\ login_count' \in [Servers -> Nat]
      /\ uip' \in [Uids -> Servers \cup {NoServer}]
      /\ hasty' \subseteq Sessions
      /\ contested' \subseteq Uids \X Servers \X Servers
      /\ overlapped' \subseteq Servers
  BY <1>1, EndsEffect DEF TypeOK
<1>8. SessionsAreRead'
  <2> SUFFICES ASSUME NEW w \in Servers, NEW s \in Sessions
               PROVE  s \in sessions'[w] <=>
                        Home[s] = w /\ (reading'[s] \in {"open", "thrown"} \/ io'[w].session = s)
    BY DEF SessionsAreRead
  <2>1. CASE w = v
    <3>1. sessions'[w] = {} /\ io'[w].session = NoSession /\ s # NoSession
      BY <1>1, <2>1, EndsEffect, PresenceAssumption DEF IoIdle
    <3>2. Home[s] = w => reading'[s] \notin {"open", "thrown"}
      BY <1>1, <2>1 DEF Ends, OfServer, TypeOK
    <3> QED
      BY <3>1, <3>2
  <2>2. CASE w # v
    <3>1. sessions'[w] = sessions[w] /\ io'[w] = io[w]
      BY <1>1, <2>2, EndsEffect
    <3>2. Home[s] = w => reading'[s] = reading[s]
      BY <1>1, <2>2, EndsEffect
    <3> QED
      BY <1>1, <3>1, <3>2 DEF TypeOK, SessionsAreRead
  <2> QED
    BY <2>1, <2>2
<1> QED
  BY <1>2, <1>3, <1>4, <1>5, <1>6, <1>7, <1>8 DEF TypeOK

\* The end of a process.  Its connections are closed and unbound; a login
\* that was queued is lost with the queue.
LEMMA EndsInv ==
  ASSUME Inv, NEW v \in Servers, Ends(v)
  PROVE  Inv'
<1>1. TypeOK /\ TypeOK'
  BY EndsTypes DEF Inv
<1>2. \A s \in Sessions :
        Home[s] = v =>
          /\ reading'[s] # "open" /\ user_uid'[s] = NoUid
          /\ Sent(s)' = {} /\ ~HasQueued(s)' /\ ~Involved(s)'
          /\ b_close'[s] => reading'[s] = "dead"
  <2> SUFFICES ASSUME NEW s \in Sessions, Home[s] = v
               PROVE  /\ reading'[s] # "open" /\ user_uid'[s] = NoUid
                      /\ Sent(s)' = {} /\ ~HasQueued(s)' /\ ~Involved(s)'
                      /\ b_close'[s] => reading'[s] = "dead"
    OBVIOUS
  <2>1. /\ reading'[s] = IF reading[s] = "new" THEN "new" ELSE "dead"
        /\ b_close'[s] <=> b_close[s] \/ reading[s] # "new"
        /\ user_uid'[s] = NoUid /\ logins'[s] = << >>
        /\ inbox'[v] = << >> /\ io'[v] = IoIdle
    BY <1>1, EndsEffect
  <2>2. Elements(<< >>) = {}
    BY ElementsTyped, EmptySeq
  <2>3. Sent(s)' = {} /\ ~HasQueued(s)'
    BY <2>1, <2>2 DEF Sent, HasQueued, Queued
  <2>4. io'[v].session # s
    BY <2>1, PresenceAssumption DEF IoIdle
  <2>5. b_close'[s] => reading'[s] = "dead"
    BY <2>1 DEF Inv, ClosedIsDead
  <2> QED
    BY <2>1, <2>3, <2>4, <2>5 DEF Involved
<1>3. \A s \in Sessions :
        Home[s] # v =>
          /\ reading'[s] = reading[s] /\ b_close'[s] = b_close[s]
          /\ user_uid'[s] = user_uid[s] /\ (s \in hasty' <=> s \in hasty)
          /\ Sent(s)' = Sent(s) /\ (HasQueued(s)' <=> HasQueued(s))
          /\ (Involved(s)' <=> Involved(s)) /\ (Binding(s)' <=> Binding(s))
  <2> SUFFICES ASSUME NEW s \in Sessions, Home[s] # v
               PROVE  /\ reading'[s] = reading[s] /\ b_close'[s] = b_close[s]
                      /\ user_uid'[s] = user_uid[s] /\ (s \in hasty' <=> s \in hasty)
                      /\ Sent(s)' = Sent(s) /\ (HasQueued(s)' <=> HasQueued(s))
                      /\ (Involved(s)' <=> Involved(s)) /\ (Binding(s)' <=> Binding(s))
    OBVIOUS
  <2>1. /\ reading'[s] = reading[s] /\ b_close'[s] = b_close[s]
        /\ user_uid'[s] = user_uid[s] /\ (s \in hasty' <=> s \in hasty)
        /\ logins'[s] = logins[s]
    BY <1>1, EndsEffect
  <2>2. /\ inbox'[Home[s]] = inbox[Home[s]] /\ worker'[Home[s]] = worker[Home[s]]
        /\ io'[Home[s]] = io[Home[s]]
    BY <1>1, EndsEffect, HomeOf
  <2>3. Sent(s)' = Sent(s) /\ (HasQueued(s)' <=> HasQueued(s))
    BY <2>1, <2>2 DEF Sent, HasQueued, Queued
  <2> QED
    BY <2>1, <2>2, <2>3 DEF Involved, Binding
<1>4. /\ inbox'[v] = << >> /\ worker'[v].pc = "idle" /\ io'[v].pc = "idle"
      /\ io'[v].session = NoSession /\ Queued(v)' = {}
      /\ \A u \in Uids, s \in Sessions : uid_session'[v][u] # s
  <2>1. /\ inbox'[v] = << >> /\ worker'[v] = WorkerIdle /\ io'[v] = IoIdle
        /\ uid_session'[v] = [u \in Uids |-> NoSession]
    BY <1>1, EndsEffect
  <2>2. Queued(v)' = {}
    BY <2>1, ElementsTyped, EmptySeq DEF Queued
  <2> QED
    BY <2>1, <2>2, PresenceAssumption DEF WorkerIdle, IoIdle
<1>5. \A w \in Servers \ {v} :
        /\ uid_session'[w] = uid_session[w] /\ inbox'[w] = inbox[w]
        /\ worker'[w] = worker[w] /\ io'[w] = io[w] /\ Queued(w)' = Queued(w)
  BY <1>1, EndsEffect DEF Queued
<1>6. IoOwnsSession'
  <2> SUFFICES ASSUME NEW w \in Servers
               PROVE  IF io'[w].pc = "idle" THEN io'[w].session = NoSession
                      ELSE /\ io'[w].session \in Sessions
                           /\ Home[io'[w].session] = w
                           /\ reading'[io'[w].session] = "dead"
                           /\ ~b_close'[io'[w].session]
                           /\ user_uid'[io'[w].session] # NoUid
    BY DEF IoOwnsSession
  <2>1. CASE w = v
    BY <1>4, <2>1
  <2>2. CASE w # v
    <3>1. io'[w] = io[w]
      BY <1>5, <2>2
    <3> QED
      BY <1>3, <2>2, <3>1 DEF Inv, IoOwnsSession
  <2> QED
    BY <2>1, <2>2
<1>7. ClosedIsDead' /\ UidWasSent' /\ NewIsSilent' /\ DeadIsHasty'
  <2>1. ClosedIsDead'
    BY <1>2, <1>3 DEF Inv, ClosedIsDead
  <2>2. UidWasSent'
    BY <1>2, <1>3 DEF Inv, UidWasSent
  <2>3. NewIsSilent' /\ DeadIsHasty'
    BY <1>2, <1>3 DEF Inv, NewIsSilent, DeadIsHasty
  <2> QED
    BY <2>1, <2>2, <2>3
<1>8. WorkerHasLogin'
  BY <1>4, <1>5 DEF Inv, WorkerHasLogin
<1>9. QueuedWasSent'
  <2> SUFFICES ASSUME NEW w \in Servers, NEW m \in Queued(w)'
               PROVE  Home[m.session] = w /\ m.uid \in Sent(m.session)'
    BY DEF QueuedWasSent
  <2>1. w # v /\ m \in Queued(w)
    BY <1>4, <1>5
  <2>2. m.session \in Sessions /\ Home[m.session] = w /\ m.uid \in Sent(m.session)
    BY <1>1, <2>1, QueuedTyped DEF Inv, QueuedWasSent, Login
  <2> QED
    BY <1>3, <2>1, <2>2
<1>10. BoundWasSent'
  <2> SUFFICES ASSUME NEW w \in Servers, NEW u \in Uids, NEW s \in Sessions,
                      uid_session'[w][u] = s
               PROVE  Home[s] = w /\ u \in Sent(s)'
    BY DEF BoundWasSent
  <2>1. w # v /\ uid_session[w][u] = s
    BY <1>4, <1>5
  <2> QED
    BY <1>3, <2>1 DEF Inv, BoundWasSent
<1>11. UidSetBeforeBinding'
  <2> SUFFICES ASSUME NEW w \in Servers, worker'[w].pc \in {"set_ip", "bind"}
               PROVE  \/ reading'[Head(inbox'[w]).session] = "dead"
                      \/ user_uid'[Head(inbox'[w]).session] = Head(inbox'[w]).uid
    BY DEF UidSetBeforeBinding
  <2>1. w # v /\ worker'[w] = worker[w] /\ inbox'[w] = inbox[w]
    BY <1>4, <1>5
  <2>2. Head(inbox[w]).session \in Sessions /\ Home[Head(inbox[w]).session] = w
    BY <1>1, <2>1, FrontFacts DEF Inv, WorkerHasLogin, Login
  <2> QED
    BY <1>3, <2>1, <2>2 DEF Inv, UidSetBeforeBinding
<1>12. BindingLasts'
  <2> SUFFICES ASSUME NEW w \in Servers, NEW u \in Uids, NEW s \in Sessions,
                      uid_session'[w][u] = s, s \notin hasty', Sent(s)' \subseteq {u}
               PROVE  /\ user_uid'[s] = u /\ ~b_close'[s]
                      /\ ~(io'[w].pc = "finish" /\ io'[w].session = s)
    BY DEF BindingLasts
  <2>1. w # v /\ uid_session[w][u] = s /\ io'[w] = io[w]
    BY <1>4, <1>5
  <2>2. Home[s] # v
    BY <2>1 DEF Inv, BoundWasSent
  <2> QED
    BY <1>3, <2>1, <2>2 DEF Inv, BindingLasts
<1>13. RivalsAreContested'
  <2> SUFFICES ASSUME NEW s \in Sessions, NEW t \in Sessions, NEW u \in Uids,
                      s # t, Home[s] = Home[t], Involved(s)', Involved(t)',
                      u \in Sent(s)', u \in Sent(t)'
               PROVE  <<u, Home[s], Home[s]>> \in contested'
    BY DEF RivalsAreContested
  <2>1. Home[s] # v
    BY <1>2
  <2>2. <<u, Home[s], Home[s]>> \in contested
    BY <1>3, <2>1 DEF Inv, RivalsAreContested
  <2> QED
    BY <1>1, <2>1, <2>2, EndsContested
<1>14. ReachableWhenLoggedIn'
  <2> SUFFICES ASSUME NEW s \in Sessions, NEW u \in Uids, LoggedInAs(s, u)'
               PROVE  \/ uid_session'[Home[s]][u] = s
                      \/ <<u, Home[s], Home[s]>> \in contested'
    BY DEF ReachableWhenLoggedIn
  <2>1. Home[s] # v
    BY <1>2 DEF LoggedInAs
  <2>2. LoggedInAs(s, u) /\ uid_session'[Home[s]] = uid_session[Home[s]]
    BY <1>3, <1>5, <2>1, HomeOf DEF LoggedInAs
  <2>3. uid_session[Home[s]][u] = s \/ <<u, Home[s], Home[s]>> \in contested
    BY <2>2 DEF Inv, ReachableWhenLoggedIn
  <2> QED
    BY <1>1, <2>1, <2>2, <2>3, EndsContested
<1> QED
  BY <1>1, <1>6, <1>7, <1>8, <1>9, <1>10, <1>11, <1>12, <1>13, <1>14 DEF Inv

-----------------------------------------------------------------------------
(***************************************************************************)
(* The other steps.                                                        *)
(***************************************************************************)

\* main changes the login count at most.
LEMMA CountOnlyInv ==
  ASSUME Inv, login_count' \in [Servers -> Nat],
         UNCHANGED <<connection, sessions, uid_session, inbox, worker, io, uip,
                     history>>
  PROVE  Inv'
<1>1. UNCHANGED <<reading, b_close, user_uid, uid_session, inbox, worker, io,
                  sessions, uip, logins, hasty, contested, overlapped>>
  BY DEF connection, history
<1>2. TypeOK'
  <2>1. SessionsAreRead'
    BY <1>1 DEF Inv, TypeOK, SessionsAreRead
  <2> QED
    BY <1>1, <2>1 DEF Inv, TypeOK
<1>3. \A v \in Servers : worker'[v].pc # "idle" => inbox[v] # << >>
  BY <1>1 DEF Inv, WorkerHasLogin
<1> QED
  BY <1>1, <1>2, <1>3, QuietInv

\* What a command without Redis does: the handler goes on.
LEMMA WithoutRedisEffect ==
  ASSUME TypeOK, NEW v \in Servers, CommandWithoutRedis(v)
  PROVE  /\ worker' \in [Servers -> [pc : {"idle", "hset", "set_uid", "set_ip", "bind"},
                                     count : Nat]]
         /\ \A w \in Servers \ {v} : worker'[w] = worker[w]
         /\ \/ worker[v].pc = "idle" /\ inbox[v] # << >> /\ worker'[v].pc = "hset"
            \/ worker[v].pc = "hset" /\ worker'[v].pc = "set_uid"
            \/ worker[v].pc = "set_ip" /\ worker'[v].pc = "bind"
         /\ UNCHANGED <<reading, b_close, user_uid, sessions, uid_session, inbox,
                        io, login_count, uip, logins, hasty, contested, overlapped>>
<1>1. UNCHANGED <<reading, b_close, user_uid, sessions, uid_session, inbox,
                  io, login_count, uip, logins, hasty, contested, overlapped>>
  BY DEF CommandWithoutRedis, connection, redis, history
<1>2. CASE worker[v].pc = "idle" /\ inbox[v] # << >>
           /\ worker' = [worker EXCEPT ![v] = [pc |-> "hset", count |-> 0]]
  BY <1>1, <1>2 DEF TypeOK
<1>3. CASE worker[v].pc = "hset" /\ worker' = [worker EXCEPT ![v].pc = "set_uid"]
  BY <1>1, <1>3 DEF TypeOK
<1>4. CASE worker[v].pc = "set_ip" /\ worker' = [worker EXCEPT ![v].pc = "bind"]
  BY <1>1, <1>4 DEF TypeOK
<1> QED
  BY <1>2, <1>3, <1>4 DEF CommandWithoutRedis

LEMMA WithoutRedisInv ==
  ASSUME Inv, NEW v \in Servers, CommandWithoutRedis(v)
  PROVE  Inv'
<1>1. /\ worker' \in [Servers -> [pc : {"idle", "hset", "set_uid", "set_ip", "bind"},
                                  count : Nat]]
      /\ \A w \in Servers \ {v} : worker'[w] = worker[w]
      /\ \/ worker[v].pc = "idle" /\ inbox[v] # << >> /\ worker'[v].pc = "hset"
         \/ worker[v].pc = "hset" /\ worker'[v].pc = "set_uid"
         \/ worker[v].pc = "set_ip" /\ worker'[v].pc = "bind"
      /\ UNCHANGED <<reading, b_close, user_uid, sessions, uid_session, inbox,
                     io, login_count, uip, logins, hasty, contested, overlapped>>
  BY WithoutRedisEffect DEF Inv
<1>2. TypeOK'
  BY <1>1 DEF Inv, TypeOK, SessionsAreRead
<1>3. \A w \in Servers :
        /\ worker'[w].pc # "idle" => inbox[w] # << >>
        /\ worker'[w].pc \in {"set_ip", "bind"} <=> worker[w].pc \in {"set_ip", "bind"}
  BY <1>1 DEF Inv, WorkerHasLogin
<1> QED
  BY <1>1, <1>2, <1>3, QuietInv

\* A step of a thread of v, with or without Redis.
ThreadStep(v) == IoStep(v) \/ WorkerStep(v) \/ WorkerDrains(v)

\* Where main is: between the steps of the threads.
StopGoesOn(v) == Signal(v) \/ CloseRedis(v) \/ CloseHangs(v) \/ StopUnnoticed(v)

MainQuiet(v) == Start(v) \/ HDel(v) \/ StopGoesOn(v)

LEMMA LifeSteps ==
  ASSUME LifeNext
  PROVE  \E v \in Servers :
           \/ ThreadStep(v) \/ MainQuiet(v)
           \/ Ends(v) /\ (ProcessEnds(v) \/ Crash(v))
BY DEF LifeNext, ThreadStep, MainQuiet, StopGoesOn, Main, ProcessEnds, Crash

\* What every step of a thread of v does to the other records and servers.
LEMMA ThreadEffect ==
  ASSUME Inv, StoppedIsIdle, NEW v \in Servers, ThreadStep(v)
  PROVE  /\ Inv'
         /\ phase' = phase /\ restarts' = restarts
         /\ backlog' = backlog /\ unlisted' = unlisted /\ Observe(v)
         /\ phase[v] # "down"
         /\ phase[v] # "serving" => io'[v] = io[v]
         /\ \A w \in Servers \ {v} :
              /\ login_count'[w] = login_count[w]
              /\ worker'[w] = worker[w] /\ io'[w] = io[w]
              /\ inbox'[w] = inbox[w]
         /\ \A t \in Sessions : Home[t] # v => user_uid'[t] = user_uid[t]
<1>1. /\ phase' = phase /\ restarts' = restarts
      /\ backlog' = backlog /\ unlisted' = unlisted /\ Observe(v)
  BY DEF ThreadStep, IoStep, WorkerStep, WorkerDrains, Observe, life
<1>2. ASSUME IoThread(v) \/ Worker(v)
      PROVE  /\ Inv'
             /\ \A w \in Servers \ {v} :
                  /\ login_count'[w] = login_count[w]
                  /\ worker'[w] = worker[w] /\ io'[w] = io[w]
                  /\ inbox'[w] = inbox[w]
             /\ \A t \in Sessions : Home[t] # v => user_uid'[t] = user_uid[t]
  <2>1. Inv'
    BY <1>2, NextInv DEF Next
  <2> QED
    BY <1>2, <2>1, OthersKept
<1>3. Worker(v) => io' = io
  BY DEF Worker, LoginRejected, LoginHGet, LoginHSet, LoginSetUserId,
         LoginSetIp, LoginSetUserSession
<1>4. CASE IoStep(v)
  BY <1>1, <1>2, <1>4 DEF IoStep
<1>5. CASE WorkerStep(v)
  BY <1>1, <1>2, <1>3, <1>5 DEF WorkerStep
<1>6. CASE WorkerDrains(v)
  <2>1. CASE LoginRejected(v) \/ LoginSetUserId(v) \/ LoginSetUserSession(v)
    BY <1>1, <1>2, <1>3, <1>6, <2>1 DEF WorkerDrains, Worker
  <2>2. CASE CommandWithoutRedis(v)
    <3>1. Inv'
      BY <2>2, WithoutRedisInv
    <3> QED
      BY <1>1, <1>6, <2>2, <3>1, WithoutRedisEffect DEF WorkerDrains, Inv
  <2> QED
    BY <1>6, <2>1, <2>2 DEF WorkerDrains
<1> QED
  BY <1>4, <1>5, <1>6 DEF ThreadStep

\* The login count of v changes only by a write of a thread of v.
LEMMA OnlyWritesCount ==
  ASSUME Inv, NEW v \in Servers, ThreadStep(v)
  PROVE  /\ Written(v) \/ login_count'[v] = login_count[v]
         /\ Written(v) => worker[v].pc = "hset" \/ io[v].pc = "hset"
<1>1. Written(v) => worker[v].pc = "hset" \/ io[v].pc = "hset"
  BY DEF Written, CountWriteStep
<1>2. ASSUME CloseHSet(v) PROVE Written(v) \/ login_count'[v] = login_count[v]
  <2>1. io[v].pc = "hset" /\ io'[v].pc = "remove"
    BY <1>2 DEF CloseHSet, Inv, TypeOK
  <2>2. PICK n \in CountWritten(v, IF io[v].count > 0 THEN io[v].count - 1 ELSE 0) :
           login_count' = [login_count EXCEPT ![v] = n]
    BY <1>2 DEF CloseHSet
  <2>3. login_count'[v] = n
    BY <2>2 DEF Inv, TypeOK
  <2> QED
    BY <2>1, <2>2, <2>3 DEF CountWritten, Written, CountWriteStep
<1>3. ASSUME LoginHSet(v) PROVE Written(v) \/ login_count'[v] = login_count[v]
  <2>1. worker[v].pc = "hset" /\ worker'[v].pc = "set_uid"
    BY <1>3 DEF LoginHSet, Inv, TypeOK
  <2>2. PICK n \in CountWritten(v, worker[v].count + 1) :
           login_count' = [login_count EXCEPT ![v] = n]
    BY <1>3 DEF LoginHSet
  <2>3. login_count'[v] = n
    BY <2>2 DEF Inv, TypeOK
  <2> QED
    BY <2>1, <2>2, <2>3 DEF CountWritten, Written, CountWriteStep
<1>4. \/ CloseHSet(v) \/ LoginHSet(v) \/ login_count' = login_count
  BY DEF ThreadStep, IoStep, WorkerStep, WorkerDrains, IoThread, Worker,
         HandleAccept, RejectHeader, ThrowHeader, CloseAnonymous, CloseHGet, PostLogin,
         CloseRemoveUserSession, CloseFinish, LoginRejected, LoginHGet,
         LoginSetUserId, LoginSetIp, LoginSetUserSession, CommandWithoutRedis,
         redis
<1> QED
  BY <1>1, <1>2, <1>3, <1>4

\* Only the I/O thread puts logins into the queue.
LEMMA QueueShrinks ==
  ASSUME Inv, NEW v \in Servers, ThreadStep(v), phase[v] # "serving",
         inbox[v] = << >>
  PROVE  inbox'[v] = << >>
<1>1. Worker(v) \/ CommandWithoutRedis(v)
  BY DEF ThreadStep, IoStep, WorkerStep, WorkerDrains, Worker
<1>2. worker[v].pc = "idle"
  BY DEF Inv, WorkerHasLogin
<1>3. inbox' = inbox
  BY <1>1, <1>2 DEF Worker, LoginRejected, LoginHGet, LoginHSet, LoginSetUserId,
     LoginSetIp, LoginSetUserSession, CommandWithoutRedis
<1> QED
  BY <1>3

\* A step of a thread.  A write of the count makes the server listed; it
\* comes from a login if the server has stopped, and then that login was in
\* the queue when the count was deleted.
LEMMA ThreadLife ==
  ASSUME LifeInv, NEW v \in Servers, ThreadStep(v)
  PROVE  LifeInv'
<1>1. /\ Inv'
      /\ phase' = phase /\ restarts' = restarts
      /\ backlog' = backlog /\ unlisted' = unlisted /\ Observe(v)
      /\ phase[v] # "down"
      /\ phase[v] # "serving" => io'[v] = io[v]
  BY ThreadEffect DEF LifeInv
<1>2. /\ \A w \in Servers \ {v} :
           /\ login_count'[w] = login_count[w]
           /\ worker'[w] = worker[w] /\ io'[w] = io[w]
           /\ inbox'[w] = inbox[w]
      /\ \A t \in Sessions : Home[t] # v => user_uid'[t] = user_uid[t]
  BY ThreadEffect DEF LifeInv
<1>3. /\ listed' = listed \cup (IF Written(v) THEN {v} ELSE {})
      /\ lost' \subseteq lost \cup {v}
      /\ lost_uip' \subseteq lost_uip \cup IpUser(v)
  BY <1>1 DEF Observe
<1>4. LifeTypeOK'
  <2>1. IpUser(v) \subseteq Uids
    BY DEF IpUser
  <2>2. /\ TypeOK'
        /\ phase' \in [Servers -> Phases]
        /\ restarts' \in 0 .. MaxRestarts
        /\ listed' \subseteq Servers /\ backlog' \subseteq Servers
        /\ unlisted' \subseteq Servers /\ lost' \subseteq Servers
        /\ lost_uip' \subseteq Uids
    BY <1>1, <1>3, <2>1 DEF LifeInv, LifeTypeOK, Inv
  <2>3. ASSUME NEW w \in Servers, w \notin listed' PROVE login_count'[w] = 0
    <3>1. w \notin listed /\ (w = v => ~Written(v))
      BY <1>3, <2>3
    <3>2. login_count'[w] = login_count[w]
      BY <1>2, <3>1, OnlyWritesCount DEF LifeInv
    <3> QED
      BY <3>1, <3>2 DEF LifeInv, LifeTypeOK
  <2> QED
    BY <2>2, <2>3 DEF LifeTypeOK
<1>5. StoppedIsIdle' /\ DownIsEmpty'
  <2>1. ASSUME NEW w \in Servers, phase[w] # "serving" PROVE io'[w].pc = "idle"
    BY <1>1, <1>2, <2>1 DEF LifeInv, StoppedIsIdle
  <2>2. ASSUME NEW w \in Servers, phase[w] = "down"
        PROVE  /\ worker'[w].pc = "idle"
               /\ \A s \in Sessions : Home[s] = w => user_uid'[s] = NoUid
    BY <1>1, <1>2, <2>2 DEF LifeInv, DownIsEmpty
  <2> QED
    BY <1>1, <2>1, <2>2 DEF StoppedIsIdle, DownIsEmpty
<1>6. UnlistedIsOver'
  <2> SUFFICES ASSUME NEW w \in unlisted
               PROVE  /\ phase[w] \in {"deleted", "closed", "hung", "down"}
                      /\ w \notin backlog => inbox'[w] = << >>
    BY <1>1 DEF UnlistedIsOver
  <2>1. /\ w \in Servers /\ phase[w] \in {"deleted", "closed", "hung", "down"}
        /\ w \notin backlog => inbox[w] = << >>
    BY DEF LifeInv, UnlistedIsOver, LifeTypeOK
  <2>2. CASE w = v
    BY <2>1, <2>2, QueueShrinks DEF LifeInv
  <2>3. CASE w # v
    BY <1>2, <2>1, <2>3
  <2> QED
    BY <2>1, <2>2, <2>3
<1>7. StoppedIsUnlisted'
  <2> SUFFICES ASSUME NEW w \in Servers, w \in unlisted, w \in listed', w \notin backlog
               PROVE  FALSE
    BY <1>1 DEF StoppedIsUnlisted
  <2>1. w \notin listed
    BY DEF LifeInv, StoppedIsUnlisted
  <2>2. w = v /\ Written(v)
    BY <1>3, <2>1
  <2>3. phase[v] # "serving" /\ inbox[v] = << >>
    BY <2>2 DEF LifeInv, UnlistedIsOver
  <2>4. io[v].pc = "idle" /\ worker[v].pc = "idle"
    BY <2>3 DEF LifeInv, StoppedIsIdle, Inv, WorkerHasLogin
  <2> QED
    BY <2>2, <2>4, OnlyWritesCount DEF LifeInv
<1> QED
  BY <1>1, <1>4, <1>5, <1>6, <1>7 DEF LifeInv

\* Steps of main.  The queue of a server whose count is deleted is either
\* empty or noted.
LEMMA MainLife ==
  ASSUME LifeInv, NEW v \in Servers, MainQuiet(v)
  PROVE  LifeInv'
<1>1. /\ UNCHANGED <<connection, sessions, uid_session, inbox, worker, io, uip,
                     history, lost_uip>>
      /\ login_count' = login_count \/ login_count' = [login_count EXCEPT ![v] = 0]
  <2>1. CASE Start(v)
    BY <2>1 DEF Start
  <2>2. CASE HDel(v)
    BY <2>2 DEF HDel, DeleteCount
  <2>3. CASE StopGoesOn(v)
    BY <2>3 DEF StopGoesOn, Signal, CloseRedis, CloseHangs, StopUnnoticed, GoesTo, vars, connection, history
  <2> QED
    BY <2>1, <2>2, <2>3 DEF MainQuiet
<1>2. Inv'
  <2>1. login_count \in [Servers -> Nat]
    BY DEF LifeInv, Inv, TypeOK
  <2>2. login_count' = login_count \/ login_count' = [login_count EXCEPT ![v] = 0]
    BY <1>1
  <2>3. login_count' \in [Servers -> Nat]
    BY <2>1, <2>2
  <2> QED
    BY <1>1, <2>3, CountOnlyInv DEF LifeInv
<1>3. UNCHANGED <<user_uid, inbox, worker, io, lost_uip>>
  BY <1>1 DEF connection
<1>4. phase \in [Servers -> Phases]
  BY DEF LifeInv, LifeTypeOK
<1>5. CASE Start(v)
  <2>1. /\ phase[v] = "down" /\ phase' = [phase EXCEPT ![v] = "serving"]
        /\ restarts < MaxRestarts /\ restarts' = restarts + 1
        /\ backlog' = backlog \ {v} /\ unlisted' = unlisted \ {v}
    BY <1>5 DEF Start
  <2>2. \/ /\ login_count' = [login_count EXCEPT ![v] = 0]
           /\ listed' = listed \cup {v} /\ lost' = lost \ {v}
        \/ /\ login_count' = login_count /\ listed' = listed
           /\ lost' = lost \cup {v}
    BY <1>5 DEF Start
  <2>3. /\ phase'[v] = "serving"
        /\ \A w \in Servers \ {v} : phase'[w] = phase[w]
    BY <1>4, <2>1
  <2>4. LifeTypeOK'
    <3>1. restarts' \in 0 .. MaxRestarts
      BY <2>1, ServerLifeAssumption DEF LifeInv, LifeTypeOK
    <3>2. \A w \in Servers : w \notin listed' => login_count'[w] = 0
      BY <2>2 DEF LifeInv, LifeTypeOK, TypeOK
    <3>3. /\ phase' \in [Servers -> Phases]
          /\ listed' \subseteq Servers /\ backlog' \subseteq Servers
          /\ unlisted' \subseteq Servers /\ lost' \subseteq Servers
          /\ lost_uip' \subseteq Uids
      BY <1>3, <2>1, <2>2 DEF LifeInv, LifeTypeOK, Phases
    <3> QED
      BY <1>2, <3>1, <3>2, <3>3 DEF LifeTypeOK, Inv
  <2>5. StoppedIsIdle' /\ DownIsEmpty'
    BY <1>3, <2>3 DEF LifeInv, StoppedIsIdle, DownIsEmpty
  <2>6. UnlistedIsOver'
    BY <1>3, <2>1, <2>3 DEF LifeInv, UnlistedIsOver, LifeTypeOK
  <2>7. StoppedIsUnlisted'
    BY <2>1, <2>2 DEF LifeInv, StoppedIsUnlisted
  <2> QED
    BY <1>2, <2>4, <2>5, <2>6, <2>7 DEF LifeInv
<1>6. CASE StopGoesOn(v)
  <2>1. /\ \/ /\ phase[v] = "serving" /\ io[v].pc = "idle"
              /\ phase' = [phase EXCEPT ![v] = "stopping"]
           \/ /\ phase[v] = "deleted"
              /\ phase' = [phase EXCEPT ![v] = "closed"]
           \/ /\ phase[v] \in {"deleted", "closed"}
              /\ phase' = [phase EXCEPT ![v] = "hung"]
        /\ UNCHANGED <<login_count, listed, restarts, backlog, unlisted, lost>>
    BY <1>6 DEF StopGoesOn, Signal, CloseRedis, CloseHangs, StopUnnoticed, GoesTo, vars
  <2>2. /\ \/ phase[v] = "serving" /\ io[v].pc = "idle" /\ phase'[v] = "stopping"
           \/ phase[v] = "deleted" /\ phase'[v] = "closed"
           \/ phase[v] \in {"deleted", "closed"} /\ phase'[v] = "hung"
        /\ \A w \in Servers \ {v} : phase'[w] = phase[w]
    BY <1>4, <2>1
  <2>3. LifeTypeOK'
    <3>1. phase' \in [Servers -> Phases]
      BY <1>4, <2>1 DEF Phases
    <3> QED
      BY <1>2, <1>3, <2>1, <3>1 DEF LifeInv, LifeTypeOK, Inv
  <2>4. StoppedIsIdle' /\ DownIsEmpty'
    BY <1>3, <2>2 DEF LifeInv, StoppedIsIdle, DownIsEmpty
  <2>5. UnlistedIsOver'
    BY <1>3, <2>1, <2>2 DEF LifeInv, UnlistedIsOver, LifeTypeOK
  <2>6. StoppedIsUnlisted'
    BY <2>1 DEF LifeInv, StoppedIsUnlisted
  <2> QED
    BY <1>2, <2>3, <2>4, <2>5, <2>6 DEF LifeInv
<1>7. CASE HDel(v)
  <2>1. /\ phase[v] = "stopping" /\ phase' = [phase EXCEPT ![v] = "deleted"]
        /\ backlog' = IF inbox[v] # << >> THEN backlog \cup {v} ELSE backlog
        /\ UNCHANGED <<restarts, lost>>
    BY <1>7 DEF HDel, DeleteCount
  <2>2. \/ /\ login_count' = [login_count EXCEPT ![v] = 0]
           /\ listed' = listed \ {v} /\ unlisted' = unlisted \cup {v}
        \/ UNCHANGED <<login_count, listed, unlisted>>
    BY <1>7 DEF HDel, DeleteCount
  <2>3. /\ phase'[v] = "deleted"
        /\ \A w \in Servers \ {v} : phase'[w] = phase[w]
    BY <1>4, <2>1
  <2>4. LifeTypeOK'
    <3>1. \A w \in Servers : w \notin listed' => login_count'[w] = 0
      BY <2>2 DEF LifeInv, LifeTypeOK, TypeOK
    <3>2. /\ phase' \in [Servers -> Phases]
          /\ listed' \subseteq Servers /\ backlog' \subseteq Servers
          /\ unlisted' \subseteq Servers /\ lost' \subseteq Servers
          /\ lost_uip' \subseteq Uids /\ restarts' \in 0 .. MaxRestarts
      BY <1>3, <2>1, <2>2 DEF LifeInv, LifeTypeOK, Phases
    <3> QED
      BY <1>2, <3>1, <3>2 DEF LifeTypeOK, Inv
  <2>5. StoppedIsIdle' /\ DownIsEmpty'
    BY <1>3, <2>1, <2>3 DEF LifeInv, StoppedIsIdle, DownIsEmpty
  <2>6. UnlistedIsOver'
    <3> SUFFICES ASSUME NEW w \in unlisted'
                 PROVE  /\ phase'[w] \in {"deleted", "closed", "hung", "down"}
                        /\ w \notin backlog' => inbox[w] = << >>
      BY <1>3 DEF UnlistedIsOver
    <3>1. CASE w = v
      BY <2>1, <2>3, <3>1
    <3>2. CASE w # v
      <4>1. w \in unlisted /\ w \in Servers
        BY <2>2, <3>2 DEF LifeInv, LifeTypeOK
      <4>2. w \notin backlog' => w \notin backlog
        BY <2>1
      <4> QED
        BY <2>3, <3>2, <4>1, <4>2 DEF LifeInv, UnlistedIsOver
    <3> QED
      BY <3>1, <3>2
  <2>7. StoppedIsUnlisted'
    BY <2>1, <2>2 DEF LifeInv, StoppedIsUnlisted
  <2> QED
    BY <1>2, <2>4, <2>5, <2>6, <2>7 DEF LifeInv
<1> QED
  BY <1>5, <1>6, <1>7 DEF MainQuiet

\* The end of a process.
LEMMA EndsLife ==
  ASSUME LifeInv, NEW v \in Servers, Ends(v), ProcessEnds(v) \/ Crash(v)
  PROVE  LifeInv'
<1>1. /\ phase' = [phase EXCEPT ![v] = "down"]
      /\ UNCHANGED <<login_count, listed, restarts, backlog, lost, lost_uip>>
  BY DEF Ends, redis
<1>2. unlisted' = unlisted \/ unlisted' = unlisted \ {v}
  BY DEF ProcessEnds, Crash
<1>3. phase'[v] = "down" /\ \A w \in Servers \ {v} : phase'[w] = phase[w]
  BY <1>1 DEF LifeInv, LifeTypeOK
<1>4. Inv'
  BY EndsInv DEF LifeInv
<1>5. /\ inbox'[v] = << >> /\ worker'[v].pc = "idle" /\ io'[v].pc = "idle"
      /\ \A w \in Servers \ {v} :
           inbox'[w] = inbox[w] /\ worker'[w] = worker[w] /\ io'[w] = io[w]
      /\ \A s \in Sessions : user_uid'[s] = IF Home[s] = v THEN NoUid ELSE user_uid[s]
  BY EndsEffect DEF LifeInv, Inv, WorkerIdle, IoIdle
<1>6. LifeTypeOK'
  <2>1. phase' \in [Servers -> Phases]
    BY <1>1 DEF LifeInv, LifeTypeOK, Phases
  <2> QED
    BY <1>1, <1>2, <1>4, <2>1 DEF LifeInv, LifeTypeOK, Inv
<1>7. StoppedIsIdle' /\ DownIsEmpty'
  BY <1>3, <1>5 DEF LifeInv, StoppedIsIdle, DownIsEmpty
<1>8. UnlistedIsOver'
  <2> SUFFICES ASSUME NEW w \in unlisted'
               PROVE  /\ phase'[w] \in {"deleted", "closed", "hung", "down"}
                      /\ w \notin backlog => inbox'[w] = << >>
    BY <1>1 DEF UnlistedIsOver
  <2>1. w \in unlisted /\ w \in Servers
    BY <1>2 DEF LifeInv, LifeTypeOK
  <2> QED
    BY <1>3, <1>5, <2>1 DEF LifeInv, UnlistedIsOver
<1>9. StoppedIsUnlisted'
  BY <1>1, <1>2 DEF LifeInv, StoppedIsUnlisted
<1> QED
  BY <1>4, <1>6, <1>7, <1>8, <1>9 DEF LifeInv

LEMMA InitLife == LifeInit => LifeInv
<1> SUFFICES ASSUME LifeInit PROVE LifeInv
  OBVIOUS
<1>1. Inv
  BY InitInv DEF LifeInit
<1>2. LifeTypeOK
  BY <1>1, ServerLifeAssumption DEF LifeInit, LifeTypeOK, Phases, Inv
<1>3. StoppedIsIdle /\ DownIsEmpty /\ UnlistedIsOver /\ StoppedIsUnlisted
  BY DEF LifeInit, StoppedIsIdle, DownIsEmpty, UnlistedIsOver, StoppedIsUnlisted
<1> QED
  BY <1>1, <1>2, <1>3 DEF LifeInv

\* A step that changes nothing.
LEMMA LifeStutter ==
  ASSUME LifeInv, UNCHANGED lvars
  PROVE  LifeInv'
<1>1. /\ UNCHANGED <<connection, sessions, uid_session, inbox, worker, io,
                     login_count, uip, history>>
      /\ UNCHANGED <<phase, listed, restarts, backlog, unlisted, lost, lost_uip>>
      /\ user_uid' = user_uid
  BY DEF lvars, connection, history
<1>2. Inv'
  BY <1>1, CountOnlyInv DEF LifeInv, Inv, TypeOK
<1>3. LifeTypeOK'
  BY <1>1, <1>2 DEF LifeInv, LifeTypeOK, Inv
<1>4. StoppedIsIdle' /\ DownIsEmpty' /\ UnlistedIsOver' /\ StoppedIsUnlisted'
  BY <1>1 DEF LifeInv, StoppedIsIdle, DownIsEmpty, UnlistedIsOver, StoppedIsUnlisted
<1> QED
  BY <1>2, <1>3, <1>4 DEF LifeInv

LEMMA LifeInvariance == LifeSpec => []LifeInv
<1>1. LifeInv /\ [LifeNext]_lvars => LifeInv'
  BY LifeSteps, ThreadLife, MainLife, EndsLife, LifeStutter
<1> QED
  BY <1>1, InitLife, PTL DEF LifeSpec

-----------------------------------------------------------------------------
(***************************************************************************)
(* The count since the start of a server.                                  *)
(***************************************************************************)
SinceStart ==
  \A v \in Servers : phase[v] = "serving" => v \in lost \/ CountRight(v)

\* A step of one thread of v leaves the other where it is.
LEMMA OneThread ==
  ASSUME NEW v \in Servers
  PROVE  /\ IoThread(v) => worker' = worker
         /\ Worker(v) => io' = io
BY DEF IoThread, Worker, HandleAccept, RejectHeader, ThrowHeader, CloseAnonymous, CloseHGet,
       PostLogin, CloseHSet, CloseRemoveUserSession, CloseFinish, LoginRejected,
       LoginHGet, LoginHSet, LoginSetUserId, LoginSetIp, LoginSetUserSession

\* What the history does not note as failed has worked.
LEMMA NotLostWorks ==
  ASSUME NEW v \in Servers, IoThread(v) \/ Worker(v), Observe(v), v \notin lost'
  PROVE  CountCommandsWork(v)
<1>1. ~CountCommandFails(v)
  BY DEF Observe
<1>2. \A n \in CountReadStep(v) : n = login_count[v]
  BY <1>1 DEF CountCommandFails
<1>3. CountWriteStep(v) # {} => login_count'[v] \in CountWriteStep(v)
  BY <1>1 DEF CountCommandFails, Written
<1>4. /\ worker[v].pc = "idle" /\ worker'[v].pc = "hset" =>
           worker'[v].count = login_count[v]
      /\ io[v].pc = "idle" /\ io'[v].pc = "hset" => io'[v].count = login_count[v]
  BY <1>2 DEF CountReadStep
<1>5. ASSUME worker[v].pc = "hset", worker'[v].pc = "set_uid"
      PROVE  login_count'[v] = worker[v].count + 1
  <2>1. io' = io
    BY <1>5, OneThread
  <2>2. CountWriteStep(v) = {worker[v].count + 1}
    BY <1>5, <2>1 DEF CountWriteStep
  <2> QED
    BY <1>3, <2>2
<1>6. ASSUME io[v].pc = "hset", io'[v].pc = "remove"
      PROVE  login_count'[v] = IF io[v].count > 0 THEN io[v].count - 1 ELSE 0
  <2>1. worker' = worker
    BY <1>6, OneThread
  <2>2. CountWriteStep(v) = {IF io[v].count > 0 THEN io[v].count - 1 ELSE 0}
    BY <1>6, <2>1 DEF CountWriteStep
  <2> QED
    BY <1>3, <2>2
<1> QED
  BY <1>4, <1>5, <1>6 DEF CountCommandsWork

\* Logins are seen by every step of a thread.
LEMMA LifeThreadLogins ==
  ASSUME LifeInv, LoginsInv, NEW v \in Servers, ThreadStep(v)
  PROVE  LoginsInv'
<1>1. CASE IoThread(v) \/ Worker(v)
  BY <1>1, ThreadLogins DEF LifeInv
<1>2. CASE phase[v] = "closed" /\ CommandWithoutRedis(v)
  <2>1. /\ \A w \in Servers \ {v} : worker'[w] = worker[w]
        /\ \/ worker[v].pc = "idle" /\ inbox[v] # << >> /\ worker'[v].pc = "hset"
           \/ worker[v].pc = "hset" /\ worker'[v].pc = "set_uid"
           \/ worker[v].pc = "set_ip" /\ worker'[v].pc = "bind"
        /\ UNCHANGED <<user_uid, inbox, io, logins, overlapped>>
    BY <1>2, WithoutRedisEffect DEF LifeInv, Inv
  <2>2. io[v].pc = "idle"
    BY <1>2 DEF LifeInv, StoppedIsIdle
  <2>3. \A w \in Servers : worker'[w].pc = "hset" /\ io'[w].pc = "hset" =>
          w \in overlapped'
    BY <2>1, <2>2 DEF LoginsInv, OverlapIsSeen
  <2>4. \A w \in Servers : worker[w].pc \in {"set_ip", "bind"} =>
          worker'[w].pc \in {"set_ip", "bind"}
    BY <2>1
  <2> QED
    BY <2>1, <2>3, <2>4, LoginsKept
<1> QED
  BY <1>1, <1>2 DEF ThreadStep, IoStep, WorkerStep, WorkerDrains, Worker

\* A step of a thread keeps the count of every server right that is right
\* and has not had a failure.
LEMMA ThreadSince ==
  ASSUME LifeInv, LoginsInv, SinceStart, IsFiniteSet(Sessions),
         NEW v \in Servers, ThreadStep(v)
  PROVE  SinceStart'
<1>1. phase' = phase /\ Observe(v) /\ lost \subseteq lost'
  BY ThreadEffect DEF LifeInv, Observe
<1> SUFFICES ASSUME NEW w \in Servers, phase[w] = "serving", w \notin lost'
             PROVE  CountRight(w)'
  BY <1>1 DEF SinceStart
<1>2. CountRight(w)
  BY <1>1 DEF SinceStart
<1>3. CASE IoThread(v) \/ Worker(v)
  <2>1. CountCommandsWork(w)
    <3>1. CASE w = v
      BY <1>1, <1>3, <3>1, NotLostWorks
    <3>2. CASE w # v
      BY <1>3, <3>2, OthersKept DEF LifeInv, CountCommandsWork
    <3> QED
      BY <3>1, <3>2
  <2> QED
    BY <1>2, <1>3, <2>1, CountStep DEF LifeInv
<1>4. CASE phase[v] = "closed" /\ CommandWithoutRedis(v)
  <2>1. w # v
    BY <1>4
  <2>2. /\ worker'[w] = worker[w]
        /\ UNCHANGED <<reading, b_close, user_uid, inbox, io, login_count, logins,
                       hasty, overlapped>>
    BY <1>4, <2>1, WithoutRedisEffect DEF LifeInv, Inv
  <2>3. Spoiled(w)' <=> Spoiled(w)
    BY <2>2 DEF Spoiled
  <2> QED
    BY <1>2, <2>2, <2>3, CountKept
<1> QED
  BY <1>3, <1>4 DEF ThreadStep, IoStep, WorkerStep, WorkerDrains, Worker

\* main: a server that starts has nobody logged in, and the count 0 unless
\* the hSet failed.
LEMMA MainSince ==
  ASSUME LifeInv, LoginsInv, SinceStart, NEW v \in Servers, MainQuiet(v)
  PROVE  LoginsInv' /\ SinceStart'
<1>1. UNCHANGED <<reading, b_close, user_uid, inbox, worker, io, logins, hasty,
                  overlapped>>
  BY DEF MainQuiet, StopGoesOn, Start, Signal, HDel, DeleteCount, CloseRedis,
         CloseHangs, StopUnnoticed, GoesTo, vars,
         connection, history
<1>2. LoginsInv'
  BY <1>1, LoginsKept DEF LoginsInv, OverlapIsSeen
<1>3. \A w \in Servers : Spoiled(w)' <=> Spoiled(w)
  BY <1>1 DEF Spoiled
<1>4. /\ phase \in [Servers -> Phases]
      /\ login_count \in [Servers -> Nat]
  BY DEF LifeInv, LifeTypeOK, TypeOK
<1>5. ASSUME NEW w \in Servers, w # v, phase'[w] = "serving", w \notin lost'
      PROVE  CountRight(w)'
  <2>1. phase[w] = "serving" /\ w \notin lost /\ login_count'[w] = login_count[w]
    <3>1. CASE Start(v)
      BY <1>4, <1>5, <3>1 DEF Start
    <3>2. CASE StopGoesOn(v)
      BY <1>4, <1>5, <3>2 DEF StopGoesOn, Signal, CloseRedis, CloseHangs, StopUnnoticed, GoesTo, vars
    <3>3. CASE HDel(v)
      BY <1>4, <1>5, <3>3 DEF HDel, DeleteCount
    <3> QED
      BY <3>1, <3>2, <3>3 DEF MainQuiet
  <2>2. CountRight(w)
    BY <2>1 DEF SinceStart
  <2> QED
    BY <1>1, <1>3, <2>1, <2>2, CountKept
<1>6. ASSUME phase'[v] = "serving", v \notin lost'
      PROVE  CountRight(v)'
  <2>1. Start(v)
    BY <1>4, <1>6 DEF MainQuiet, StopGoesOn, Signal, CloseRedis, CloseHangs,
       StopUnnoticed, GoesTo, HDel, Phases
  <2>2. phase[v] = "down" /\ login_count'[v] = 0
    BY <1>4, <1>6, <2>1 DEF Start
  <2>3. worker[v].pc = "idle" /\ \A s \in Sessions : Home[s] = v => user_uid[s] = NoUid
    BY <2>2 DEF LifeInv, DownIsEmpty
  <2>4. io[v].pc = "idle"
    BY <2>2 DEF LifeInv, StoppedIsIdle
  <2>5. Counted(v)' = {}
    BY <1>1, <2>3 DEF Counted
  <2>6. login_count'[v] = Cardinality(Counted(v)')
    BY <2>2, <2>5, FS_EmptySet
  <2> QED
    BY <1>1, <2>3, <2>4, <2>6 DEF CountRight
<1>7. SinceStart'
  BY <1>5, <1>6 DEF SinceStart
<1> QED
  BY <1>2, <1>7

\* The end of a process does not touch what another server counts.
LEMMA EndsSince ==
  ASSUME LifeInv, LoginsInv, SinceStart, NEW v \in Servers, Ends(v)
  PROVE  LoginsInv' /\ SinceStart'
<1>1. /\ inbox'[v] = << >> /\ worker'[v].pc = "idle" /\ io'[v].pc = "idle"
      /\ \A w \in Servers \ {v} :
           inbox'[w] = inbox[w] /\ worker'[w] = worker[w] /\ io'[w] = io[w]
      /\ login_count' = login_count
  BY EndsEffect DEF LifeInv, Inv, WorkerIdle, IoIdle
<1>2. \A s \in Sessions :
        Home[s] # v =>
          /\ reading'[s] = reading[s] /\ b_close'[s] = b_close[s]
          /\ user_uid'[s] = user_uid[s] /\ logins'[s] = logins[s]
          /\ s \in hasty' <=> s \in hasty
  BY EndsEffect DEF LifeInv, Inv
<1>3. /\ overlapped' = overlapped \ {v} /\ lost' = lost
      /\ phase' = [phase EXCEPT ![v] = "down"]
  BY DEF Ends
<1>4. phase'[v] = "down" /\ \A w \in Servers \ {v} : phase'[w] = phase[w]
  BY <1>3 DEF LifeInv, LifeTypeOK
<1>5. OverlapIsSeen'
  BY <1>1, <1>3 DEF LoginsInv, OverlapIsSeen
<1>6. QueuedOnce'
  <2> SUFFICES ASSUME NEW s \in Sessions, Len(logins'[s]) <= 1
               PROVE  Once(inbox'[Home[s]], s)
    BY DEF QueuedOnce
  <2>1. CASE Home[s] = v
    <3>1. Len(<< >>) = 0 /\ 1 .. 0 = {}
      BY EmptySeq
    <3> QED
      BY <1>1, <2>1, <3>1 DEF Once
  <2>2. CASE Home[s] # v
    BY <1>1, <1>2, <2>2, HomeOf DEF LoginsInv, QueuedOnce
  <2> QED
    BY <2>1, <2>2
<1>7. QueuedIsNew'
  <2> SUFFICES ASSUME NEW s \in Sessions, Len(logins'[s]) <= 1, HasQueued(s)'
               PROVE  user_uid'[s] = NoUid \/ Binding(s)'
    BY DEF QueuedIsNew
  <2>1. Home[s] # v
    BY <1>1, ElementsTyped, EmptySeq DEF HasQueued, Queued
  <2>2. HasQueued(s) /\ (Binding(s) => Binding(s)')
    BY <1>1, <2>1, HomeOf DEF HasQueued, Queued, Binding
  <2> QED
    BY <1>2, <2>1, <2>2 DEF LoginsInv, QueuedIsNew
<1>8. SinceStart'
  <2> SUFFICES ASSUME NEW w \in Servers, phase'[w] = "serving", w \notin lost
               PROVE  CountRight(w)'
    BY <1>3 DEF SinceStart
  <2>1. w # v /\ phase[w] = "serving"
    BY <1>4
  <2>2. CountRight(w)
    BY <2>1 DEF SinceStart
  <2>3. Spoiled(w) => Spoiled(w)'
    BY <1>1, <1>2, <1>3, <2>1 DEF Spoiled
  <2>4. \A t \in Sessions : Home[t] = w => user_uid'[t] = user_uid[t]
    BY <1>2, <2>1
  <2>5. /\ login_count'[w] = login_count[w] /\ worker'[w] = worker[w]
        /\ io'[w] = io[w] /\ inbox'[w] = inbox[w]
    BY <1>1, <2>1
  <2> QED
    BY <2>2, <2>3, <2>4, <2>5, CountKept
<1> QED
  BY <1>5, <1>6, <1>7, <1>8 DEF LoginsInv

-----------------------------------------------------------------------------
(***************************************************************************)
(* The "uip_" keys: the users whose key could not be written are exempt.   *)
(***************************************************************************)

\* The exempt users after a step.
LEMMA RouteAt ==
  ASSUME NEW L, lost_uip' = L, RouteInv(L)'
  PROVE  RouteInv(lost_uip)'
BY DEF RouteInv, UipBeforeBinding, RoutableExcept

LEMMA RouteBefore ==
  ASSUME NEW L, lost_uip = L, RouteInv(lost_uip)
  PROVE  RouteInv(L)
BY DEF RouteInv, UipBeforeBinding, RoutableExcept

\* Who is exempt changes only when a key should have been written.
LEMMA NoKeyNoChange ==
  ASSUME NEW v \in Servers, Observe(v),
         worker'[v].pc = "bind" => worker[v].pc # "set_ip"
  PROVE  lost_uip' = lost_uip
<1>1. IpUser(v) = {}
  BY DEF IpUser
<1> QED
  BY <1>1 DEF Observe

\* The step that should write the key.
LEMMA KeyRoute ==
  ASSUME LifeInv, RouteInv(lost_uip), NEW v \in Servers, Observe(v),
         worker[v].pc = "set_ip", worker' = [worker EXCEPT ![v].pc = "bind"],
         UNCHANGED <<reading, user_uid, inbox, logins, contested>>,
         uip' \in {[uip EXCEPT ![Head(inbox[v]).uid] = v], uip}
  PROVE  RouteInv(lost_uip)'
<1>1. PICK L : L = lost_uip
  OBVIOUS
<1>2. PICK M : M = lost_uip'
  OBVIOUS
<1>3. Head(inbox[v]).uid \in Uids
  BY FrontFacts DEF LifeInv, Inv, WorkerHasLogin, Login
<1>4. IpUser(v) = {Head(inbox[v]).uid}
  <2>1. worker'[v].pc = "bind"
    BY DEF LifeInv, Inv, TypeOK
  <2> QED
    BY <1>3, <2>1 DEF IpUser
<1>5. M = {u \in L : u # Head(inbox[v]).uid}
            \cup {u \in {Head(inbox[v]).uid} : uip'[u] # v}
  BY <1>1, <1>2, <1>4 DEF Observe
<1>6. RouteInv(L)
  BY <1>1, RouteBefore
<1>7. RouteInv(M)'
  BY <1>5, <1>6, SetIpRoute DEF LifeInv
<1> QED
  BY <1>2, <1>7, RouteAt

LEMMA ThreadRoute ==
  ASSUME LifeInv, RouteInv(lost_uip), NEW v \in Servers, ThreadStep(v)
  PROVE  RouteInv(lost_uip)'
<1>1. PICK L : L = lost_uip
  OBVIOUS
<1>2. RouteInv(L) /\ Inv /\ Observe(v)
  BY <1>1, RouteBefore, ThreadEffect DEF LifeInv
<1>3. CASE IoThread(v)
  <2>1. worker' = worker
    BY <1>3, OneThread
  <2>2. lost_uip' = L
    BY <1>1, <1>2, <2>1, NoKeyNoChange
  <2>3. RouteInv(L)'
    BY <1>2, <1>3, AcceptRoute, PostRoute, EndRoute DEF IoThread
  <2> QED
    BY <2>2, <2>3, RouteAt
<1>4. CASE \/ LoginRejected(v) \/ LoginHGet(v) \/ LoginHSet(v)
           \/ LoginSetUserId(v) \/ LoginSetUserSession(v)
  <2>1. worker[v].pc # "set_ip"
    BY <1>4 DEF LoginRejected, LoginHGet, LoginHSet, LoginSetUserId,
                LoginSetUserSession
  <2>2. lost_uip' = L
    BY <1>1, <1>2, <2>1, NoKeyNoChange
  <2>3. RouteInv(L)'
    BY <1>2, <1>4, BeforeKeyRoute, BindRoute
  <2> QED
    BY <2>2, <2>3, RouteAt
<1>5. CASE LoginSetIp(v)
  BY <1>2, <1>5, KeyRoute DEF LoginSetIp, connection, history
<1>6. CASE CommandWithoutRedis(v)
  <2>1. UNCHANGED <<reading, user_uid, inbox, logins, contested, uip>>
    BY <1>6 DEF CommandWithoutRedis, connection, history, redis
  <2>2. CASE worker[v].pc = "set_ip"
    <3>1. worker' = [worker EXCEPT ![v].pc = "bind"]
      BY <1>6, <2>2 DEF CommandWithoutRedis
    <3> QED
      BY <1>2, <2>1, <2>2, <3>1, KeyRoute
  <2>3. CASE worker[v].pc # "set_ip"
    <3>1. lost_uip' = L
      BY <1>1, <1>2, <2>3, NoKeyNoChange
    <3>2. /\ \A w \in Servers \ {v} : worker'[w] = worker[w]
          /\ worker[v].pc \in {"idle", "hset"} /\ worker'[v].pc \in {"hset", "set_uid"}
      BY <1>2, <1>6, <2>3, WithoutRedisEffect DEF Inv
    <3>3. \A t \in Sessions : /\ Sent(t)' = Sent(t) /\ (Live(t)' <=> Live(t))
                              /\ Binding(t) => Binding(t)'
      BY <2>1, <3>2, PresenceAssumption DEF Sent, Live, HasQueued, Queued, Binding
    <3>4. \A t \in Sessions, u \in Uids : LoggedInAs(t, u)' => LoggedInAs(t, u)
      BY <2>1, <3>3 DEF LoggedInAs
    <3>5. RouteInv(L)'
      BY <1>2, <2>1, <3>2, <3>3, <3>4, RouteKept
    <3> QED
      BY <3>1, <3>5, RouteAt
  <2> QED
    BY <2>2, <2>3
<1> QED
  BY <1>3, <1>4, <1>5, <1>6
     DEF ThreadStep, IoStep, WorkerStep, WorkerDrains, Worker

\* main does not touch keys, connections or logins.
LEMMA MainRoute ==
  ASSUME LifeInv, RouteInv(lost_uip), NEW v \in Servers, MainQuiet(v)
  PROVE  RouteInv(lost_uip)'
<1>1. UNCHANGED <<reading, user_uid, inbox, worker, uip, logins, contested, lost_uip>>
  <2>1. CASE Start(v)
    BY <2>1 DEF Start, connection, history
  <2>2. CASE HDel(v)
    BY <2>2 DEF HDel, DeleteCount, connection, history
  <2>3. CASE StopGoesOn(v)
    BY <2>3 DEF StopGoesOn, Signal, CloseRedis, CloseHangs, StopUnnoticed, GoesTo, vars
  <2> QED
    BY <2>1, <2>2, <2>3 DEF MainQuiet
<1> QED
  BY <1>1 DEF RouteInv, AcrossIsCrossed, UipBeforeBinding, RoutableExcept,
     Routable, LoggedInAs, Binding, Crossed, Live, Sent, HasQueued, Queued

\* The end of a process: its keys stay, and who is crossed stays so.
LEMMA EndsRoute ==
  ASSUME LifeInv, RouteInv(lost_uip), NEW v \in Servers, Ends(v)
  PROVE  RouteInv(lost_uip)'
<1>1. PICK L : L = lost_uip
  OBVIOUS
<1>2. RouteInv(L) /\ Inv /\ TypeOK
  BY <1>1, RouteBefore DEF LifeInv, Inv
<1>3. lost_uip' = L /\ uip' = uip
  BY <1>1 DEF Ends, redis
<1>4. \A u \in Uids : Crossed(u) => Crossed(u)'
  <2> SUFFICES ASSUME NEW u \in Uids, NEW x \in Servers, NEW y \in Servers,
                      x # y, <<u, x, y>> \in contested
               PROVE  <<u, x, y>> \in contested'
    BY DEF Crossed
  <2> QED
    BY <1>2, EndsContested
<1>5. /\ inbox'[v] = << >> /\ worker'[v].pc = "idle"
      /\ \A w \in Servers \ {v} : inbox'[w] = inbox[w] /\ worker'[w] = worker[w]
  BY <1>2, EndsEffect DEF WorkerIdle
<1>6. \A t \in Sessions :
        Home[t] = v => Sent(t)' = {} /\ ~Live(t)' /\ reading'[t] # "open"
  <2>1. Elements(<< >>) = {}
    BY ElementsTyped, EmptySeq
  <2> QED
    BY <1>2, <1>5, <2>1, EndsEffect DEF Sent, Live, HasQueued, Queued
<1>7. \A t \in Sessions :
        Home[t] # v =>
          /\ Sent(t)' = Sent(t) /\ (Live(t)' <=> Live(t))
          /\ reading'[t] = reading[t] /\ user_uid'[t] = user_uid[t]
          /\ Binding(t)' <=> Binding(t)
  BY <1>2, <1>5, EndsEffect, HomeOf DEF Sent, Live, HasQueued, Queued, Binding
<1>8. \A t \in Sessions : Sent(t)' \subseteq Sent(t) /\ (Live(t)' => Live(t))
  BY <1>6, <1>7
<1>9. \A t \in Sessions, u \in Uids : LoggedInAs(t, u)' => LoggedInAs(t, u)
  BY <1>6, <1>7 DEF LoggedInAs
<1>10. \A w \in Servers : worker'[w].pc = "bind" =>
         worker[w].pc = "bind" /\ inbox'[w] = inbox[w]
  BY <1>5
<1>11. RouteInv(L)'
  BY <1>2, <1>3, <1>4, <1>8, <1>9, <1>10, RouteShrinks
<1> QED
  BY <1>3, <1>11, RouteAt

-----------------------------------------------------------------------------
(***************************************************************************)
(* The theorems.                                                           *)
(***************************************************************************)

\* Types; no binding of UserMgr outlives its session, and whoever is logged
\* in is bound, with the exceptions of Presence: Redis commands fail, the
\* worker drains its queue after RedisMgr::close, servers crash and restart.
THEOREM BindingsAlwaysFit == LifeSpec => []BindingsFitSessions
<1>1. LifeInv => BindingsFitSessions
  BY BoundIsNotClosed DEF LifeInv, Inv, BindingsFitSessions
<1> QED
  BY <1>1, LifeInvariance, PTL

\* A server that was stopped in order, and whose hDel of the count worked,
\* is in the hash "logincount" again only if a login was queued at the hDel.
THEOREM StoppedServerIsUnlisted == LifeSpec => []StoppedIsUnlisted
<1>1. LifeInv => StoppedIsUnlisted
  BY DEF LifeInv
<1> QED
  BY <1>1, LifeInvariance, PTL

\* The count of a server that serves is the number of its sessions that are
\* logged in since main wrote 0, unless in this life a count command failed or
\* two updates overlapped, or a session of the server has logged in twice,
\* ended with a login queued, or been dropped for a header that is too large.
\* A server has finitely many connections.
THEOREM CountRightSinceStart ==
  ASSUME IsFiniteSet(Sessions)
  PROVE  LifeSpec => []CountSinceStart
<1>1. LifeInit => LoginsInv /\ SinceStart
  BY InitCount DEF LifeInit, SinceStart
<1>2. LifeInv /\ LoginsInv /\ SinceStart /\ [LifeNext]_lvars
        => (LoginsInv /\ SinceStart)'
  <2> SUFFICES ASSUME LifeInv, LoginsInv, SinceStart, [LifeNext]_lvars
               PROVE  LoginsInv' /\ SinceStart'
    OBVIOUS
  <2>1. CASE UNCHANGED lvars
    BY <2>1 DEF lvars, LoginsInv, OverlapIsSeen, QueuedOnce, QueuedIsNew, Once,
       HasQueued, Queued, Binding, SinceStart, CountRight, Spoiled, Counted
  <2>2. CASE LifeNext
    <3>1. PICK v \in Servers :
             \/ ThreadStep(v) \/ MainQuiet(v)
             \/ Ends(v) /\ (ProcessEnds(v) \/ Crash(v))
      BY <2>2, LifeSteps
    <3> QED
      BY <3>1, LifeThreadLogins, ThreadSince, MainSince, EndsSince
  <2> QED
    BY <2>1, <2>2
<1>3. SinceStart => CountSinceStart
  BY RightIsExact DEF SinceStart, CountSinceStart
<1> QED
  BY <1>1, <1>2, <1>3, LifeInvariance, PTL DEF LifeSpec

\* "uip_<uid>" names the server of every user who is logged in, unless the
\* uid was used on two servers at once or the key could not be written at
\* the last login: the keys of crashed servers are written over.
THEOREM RoutableThroughout == LifeSpec => []RoutableAfterCrash
<1>1. LifeInit => RouteInv(lost_uip)
  <2> SUFFICES ASSUME LifeInit PROVE RouteInv(lost_uip)
    OBVIOUS
  <2>1. Elements(<< >>) = {}
    BY EmptySeq, ElementsTyped
  <2>2. \A s \in Sessions : Sent(s) = {}
    BY <2>1 DEF LifeInit, Init, Sent
  <2>3. AcrossIsCrossed
    BY <2>2 DEF AcrossIsCrossed
  <2>4. UipBeforeBinding(lost_uip) /\ RoutableExcept(lost_uip)
    BY DEF LifeInit, Init, UipBeforeBinding, RoutableExcept, Routable,
           LoggedInAs, WorkerIdle
  <2> QED
    BY <2>3, <2>4 DEF RouteInv
<1>2. LifeInv /\ RouteInv(lost_uip) /\ [LifeNext]_lvars => RouteInv(lost_uip)'
  <2> SUFFICES ASSUME LifeInv, RouteInv(lost_uip), [LifeNext]_lvars
               PROVE  RouteInv(lost_uip)'
    OBVIOUS
  <2>1. CASE UNCHANGED lvars
    BY <2>1 DEF lvars, RouteInv, AcrossIsCrossed, UipBeforeBinding,
       RoutableExcept, Routable, LoggedInAs, Binding, Crossed, Live, Sent,
       HasQueued, Queued
  <2>2. CASE LifeNext
    <3>1. PICK v \in Servers :
             \/ ThreadStep(v) \/ MainQuiet(v)
             \/ Ends(v) /\ (ProcessEnds(v) \/ Crash(v))
      BY <2>2, LifeSteps
    <3> QED
      BY <3>1, ThreadRoute, MainRoute, EndsRoute
  <2> QED
    BY <2>1, <2>2
<1>3. RouteInv(lost_uip) => RoutableAfterCrash
  BY DEF RouteInv, RoutableExcept, RoutableAfterCrash
<1> QED
  BY <1>1, <1>2, <1>3, LifeInvariance, PTL DEF LifeSpec
=============================================================================
