-------------------------- MODULE LogicSystemProofs --------------------------
(***************************************************************************)
(* Theorems about LogicSystem, for any number of sessions and messages.    *)
(***************************************************************************)
EXTENDS LogicSystem, SequenceTheorems, TLAPS

(***************************************************************************)
(* The inductive invariant.  Beside the properties it says where a pending *)
(* notification comes from, that the queue is empty when the worker        *)
(* decides to wait, that it is not while a callback runs, and that nothing *)
(* is posted once _b_stop is set.                                          *)
(***************************************************************************)

\* A worker that waits, or is about to, has a notification on its way if
\* there is a message.  It holds the lock in "wait", so nothing was pushed.
WaitsOnEmpty ==
  /\ worker_pc = "wait" => msg_que = << >>
  /\ sleeping /\ msg_que # << >> => main_pc = "notify"

\* The front message stays at the front while its callback runs.
CallHasMessage ==
  worker_pc \in {"call", "drain_call"} => msg_que # << >>

\* _b_stop is set by the destructor, after the last post.
StopAfterPosts ==
  /\ b_stop => main_pc \in {"notify_all", "join", "gone"}
  /\ worker_pc \in {"drain", "drain_call", "exited"} => b_stop
  /\ worker_pc = "exited" => msg_que = << >>

Inv ==
  /\ TypeOK
  /\ FifoExactlyOnce
  /\ WaitsOnEmpty
  /\ CallHasMessage
  /\ StopAfterPosts

-----------------------------------------------------------------------------
\* The invariant holds before the first post.
LEMMA InitInv == Init => Inv
BY EmptySeq, ConcatEmptySeq
   DEF Init, Inv, TypeOK, FifoExactlyOnce, WaitsOnEmpty, CallHasMessage,
       StopAfterPosts, WorkerPcs, MainPcs, HoldingPcs

\* A push at the end of the queue is a push at the end of the history.
LEMMA PushKeepsOrder ==
  ASSUME NEW S, NEW t \in Seq(S), NEW q \in Seq(S), NEW e \in S
  PROVE  Append(t \o q, e) = t \o Append(q, e)
OBVIOUS

\* Moving the front element from the queue to what has left changes nothing.
LEMMA MoveKeepsOrder ==
  ASSUME NEW S, NEW t \in Seq(S), NEW q \in Seq(S), q # << >>
  PROVE  /\ Append(t, Head(q)) \o Tail(q) = t \o q
         /\ Tail(q) \in Seq(S)
         /\ Append(t, Head(q)) \in Seq(S)
OBVIOUS

\* Every step of either thread preserves it.
LEMMA NextInv == Inv /\ [Next]_vars => Inv'
<1> SUFFICES ASSUME Inv, [Next]_vars PROVE Inv'
  OBVIOUS
<1> USE DEF Inv, TypeOK, FifoExactlyOnce, WaitsOnEmpty, CallHasMessage,
            StopAfterPosts, WorkerPcs, MainPcs, HoldingPcs
<1>1. ASSUME NEW n \in LogicNode, ReadBody(n) PROVE Inv'
  BY <1>1 DEF ReadBody
<1>2. CASE Post
  <2>1. msg_que' = Append(msg_que, node) /\ posted' = Append(posted, node)
    BY <1>2 DEF Post
  <2>2. msg_que' \in Seq(LogicNode) /\ posted' \in Seq(LogicNode)
        /\ Len(msg_que') = Len(msg_que) + 1
    BY <2>1, AppendProperties
  <2>3. posted' = taken' \o msg_que'
    <3>1. Append(taken \o msg_que, node) = taken \o Append(msg_que, node)
      BY PushKeepsOrder
    <3> QED
      BY <1>2, <2>1, <3>1 DEF Post
  <2>4. WaitsOnEmpty'
    \* A push beside a sleeping worker makes the length 1.
    <3>1. ASSUME sleeping, main_pc = "post" PROVE Len(msg_que') = 1
      BY <2>2, <3>1, EmptySeq
    <3> QED
      BY <1>2, <3>1 DEF Post
  <2> QED
    BY <1>2, <2>2, <2>3, <2>4 DEF Post
<1>3. CASE NotifyOne
  BY <1>3 DEF NotifyOne
<1>4. CASE StopRun
  BY <1>4 DEF StopRun
<1>5. CASE SetStop
  BY <1>5 DEF SetStop
<1>6. CASE NotifyAll
  BY <1>6 DEF NotifyAll
<1>7. CASE Join
  BY <1>7 DEF Join
<1>8. CASE Lock
  BY <1>8 DEF Lock
<1>9. CASE DecideWait
  BY <1>9 DEF DecideWait
<1>10. CASE Wait
  BY <1>10 DEF Wait
<1>11. CASE Wakeup
  BY <1>11 DEF Wakeup
<1>12. CASE BeginCall
  BY <1>12 DEF BeginCall
<1>13. ASSUME Pop, msg_que # << >>
       PROVE  /\ msg_que' \in Seq(LogicNode) /\ taken' \in Seq(LogicNode)
              /\ taken' \o msg_que' = taken \o msg_que
  BY <1>13, MoveKeepsOrder DEF Pop
<1>14. CASE EndCall
  BY <1>13, <1>14 DEF EndCall
<1>15. CASE SkipUnknown
  BY <1>13, <1>15 DEF SkipUnknown
<1>16. CASE SeeStop
  BY <1>16 DEF SeeStop
<1>17. CASE DrainBeginCall
  BY <1>17 DEF DrainBeginCall
<1>18. CASE DrainEndCall
  BY <1>13, <1>18 DEF DrainEndCall
<1>19. CASE DrainSkipUnknown
  BY <1>13, <1>19 DEF DrainSkipUnknown
<1>20. CASE Exit
  BY <1>20 DEF Exit
<1>21. CASE SpuriousWakeup
  BY <1>21 DEF SpuriousWakeup
<1>22. CASE UNCHANGED vars
  BY <1>22 DEF vars
<1> QED
  BY <1>1, <1>2, <1>3, <1>4, <1>5, <1>6, <1>7, <1>8, <1>9, <1>10, <1>11,
     <1>12, <1>14, <1>15, <1>16, <1>17, <1>18, <1>19, <1>20, <1>21, <1>22
     DEF Next, MainThread, WorkerThread

THEOREM Invariance == Spec => []Inv
BY InitInv, NextInv, PTL DEF Spec

-----------------------------------------------------------------------------
\* Types, and the discipline of the lock in dealMsg.
THEOREM TypeCorrect == Spec => []TypeOK
<1>1. Inv => TypeOK
  BY DEF Inv
<1> QED
  BY <1>1, Invariance, PTL

\* A sleeping worker beside a message has a notification on its way: the
\* rule "notify when the length becomes 1" of postMsgToQue is enough.
THEOREM NoWakeupLost == Spec => []NoLostWakeup
<1>1. Inv => NoLostWakeup
  BY DEF Inv, WaitsOnEmpty, NoLostWakeup
<1> QED
  BY <1>1, Invariance, PTL

\* Every posted message is handled once, in order.
THEOREM FifoDelivery == Spec => []FifoExactlyOnce
<1>1. Inv => FifoExactlyOnce
  BY DEF Inv
<1> QED
  BY <1>1, Invariance, PTL

\* When dealMsg returns every posted message has been handled.
THEOREM StopDrainsQueue == Spec => []DrainedAtExit
<1>1. Inv => DrainedAtExit
  BY ConcatEmptySeq DEF Inv, TypeOK, StopAfterPosts, FifoExactlyOnce,
                        DrainedAtExit
<1> QED
  BY <1>1, Invariance, PTL

-----------------------------------------------------------------------------
\* LogicSystem implements the safety part of the abstract mailbox: a push
\* accepts, a pop handles the next message that is not handled, leaving
\* io_context.run closes, and every other step is a stutter.
THEOREM RefinesMailbox == Spec => Box!SafeSpec
<1>1. Init => Box!Init
  BY DEF Init, Box!Init, MailboxClosed
<1>2. Inv /\ [Next]_vars => [Box!Next]_(Box!mvars)
  <2> SUFFICES ASSUME Inv, [Next]_vars PROVE [Box!Next]_(Box!mvars)
    OBVIOUS
  <2> USE DEF Box!mvars, MailboxClosed
  <2>1. ASSUME NEW n \in LogicNode, ReadBody(n)
        PROVE  UNCHANGED Box!mvars
    BY <2>1 DEF ReadBody
  <2>2. CASE Post
    <3>1. Box!Accept(node)
      BY <2>2 DEF Post, Box!Accept
    <3> QED
      BY <3>1 DEF Box!Next, Inv, TypeOK
  <2>3. CASE StopRun
    BY <2>3 DEF StopRun, Box!Next, Box!Close
  <2>4. ASSUME Pop, msg_que # << >>, UNCHANGED <<posted, MailboxClosed>>
        PROVE  Box!Handle
    <3>1. /\ msg_que \in Seq(LogicNode) /\ taken \in Seq(LogicNode)
          /\ posted = taken \o msg_que
          /\ Len(msg_que) \in Nat /\ Len(msg_que) # 0 /\ Len(taken) \in Nat
      BY <2>4, EmptySeq, LenProperties DEF Inv, TypeOK, FifoExactlyOnce
    <3>2. Len(posted) = Len(taken) + Len(msg_que)
      BY <3>1, ConcatProperties
    <3>3. posted[Len(taken) + 1] = msg_que[1]
      BY <3>1, ConcatProperties
    <3>4. Head(msg_que) = msg_que[1]
      BY <3>1, HeadTailProperties
    <3> QED
      BY <2>4, <3>1, <3>2, <3>3, <3>4 DEF Pop, Box!Handle
  <2>5. CASE EndCall
    BY <2>4, <2>5 DEF EndCall, Box!Next, Inv, CallHasMessage
  <2>6. CASE SkipUnknown
    BY <2>4, <2>6 DEF SkipUnknown, Box!Next
  <2>7. CASE DrainEndCall
    BY <2>4, <2>7 DEF DrainEndCall, Box!Next, Inv, CallHasMessage
  <2>8. CASE DrainSkipUnknown
    BY <2>4, <2>8 DEF DrainSkipUnknown, Box!Next
  <2>9. CASE NotifyOne \/ SetStop \/ NotifyAll \/ Join
    BY <2>9 DEF NotifyOne, SetStop, NotifyAll, Join
  <2>10. CASE Lock \/ DecideWait \/ Wait \/ Wakeup \/ BeginCall
    BY <2>10 DEF Lock, DecideWait, Wait, Wakeup, BeginCall
  <2>11. CASE SeeStop \/ DrainBeginCall \/ Exit \/ SpuriousWakeup
    BY <2>11 DEF SeeStop, DrainBeginCall, Exit, SpuriousWakeup
  <2>12. CASE UNCHANGED vars
    BY <2>12 DEF vars
  <2> QED
    BY <2>1, <2>2, <2>3, <2>5, <2>6, <2>7, <2>8, <2>9, <2>10, <2>11, <2>12
       DEF Next, MainThread, WorkerThread
<1> QED
  BY <1>1, <1>2, Invariance, PTL DEF Spec, Box!SafeSpec
=============================================================================
