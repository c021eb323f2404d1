----------------------------- MODULE LogicSystem -----------------------------
(***************************************************************************)
(* The message queue between the network layer and the business logic:     *)
(* LogicSystem (src/src/application/LogicSystem.cpp, lines 19-92).         *)
(*                                                                         *)
(* Two threads share _msg_que, _mutex, the condition variable _consume and *)
(* the flag _b_stop.                                                       *)
(*                                                                         *)
(*   main    runs io_context.run(): every CSession callback, and therefore *)
(*           every postMsgToQue, runs there.  After main() has returned    *)
(*           the same thread destroys the singleton (~LogicSystem).        *)
(*   worker  runs dealMsg.                                                 *)
(*                                                                         *)
(* dealMsg keeps _mutex while a callback runs, so "mutex" is part of the   *)
(* state: the callback excludes postMsgToQue.                              *)
(***************************************************************************)
EXTENDS Naturals, Sequences

CONSTANTS
  Sessions,     \* the connections whose messages are queued
  Registered,   \* message ids with an entry in _fun_callbacks
  Unregistered, \* other message ids a client may send
  MaxPosts      \* bound: how many messages are posted in a behaviour

ASSUME LogicAssumption ==
  /\ Sessions # {}
  /\ Registered # {}
  /\ Registered \cap Unregistered = {}
  /\ MaxPosts \in Nat \ {0}

\* A LogicNode: who sent the message, and its id.
LogicNode == [session : Sessions, msg_id : Registered \cup Unregistered]

VARIABLES
  msg_que,   \* _msg_que
  mutex,     \* who owns _mutex: "free", "worker" (main holds it only inside
             \* the single step Post)
  b_stop,    \* _b_stop
  sleeping,  \* the worker is in the wait set of _consume
  worker_pc, \* where dealMsg is
  main_pc,   \* where the main thread is
  node,      \* the argument of the postMsgToQue call of the main thread
  posted,    \* history: every message pushed, in order
  taken      \* history: every message popped, in order

vars == <<msg_que, mutex, b_stop, sleeping, worker_pc, main_pc, node,
          posted, taken>>

(***************************************************************************)
(* worker_pc                                                               *)
(*   "lock"       before  std::unique_lock lock(_mutex)                    *)
(*   "test"       owns _mutex, evaluates the loop condition                *)
(*   "wait"       owns _mutex, the condition was true, calls wait(lock)    *)
(*   "blocked"    inside wait, _mutex released                             *)
(*   "call"       owns _mutex, the callback of the front message runs      *)
(*   "drain"      owns _mutex, _b_stop was seen: empties the queue         *)
(*   "drain_call" the same, and the callback of the front message runs     *)
(*   "exited"     dealMsg has returned                                     *)
(* main_pc                                                                 *)
(*   "run"        in io_context.run, between two callbacks                 *)
(*   "post"       in postMsgToQue, before it owns _mutex                   *)
(*   "notify"     the queue length became 1, _mutex released               *)
(*   "destruct", "notify_all", "join", "gone"   the lines of ~LogicSystem  *)
(***************************************************************************)
WorkerPcs == {"lock", "test", "wait", "blocked", "call", "drain",
              "drain_call", "exited"}
MainPcs   == {"run", "post", "notify", "destruct", "notify_all", "join",
              "gone"}

\* The worker is created by the first getInstance(), which the first
\* postMsgToQue call makes.
Init ==
  /\ msg_que = << >>
  /\ mutex = "free"
  /\ b_stop = FALSE
  /\ sleeping = FALSE
  /\ worker_pc = "lock"
  /\ main_pc = "post"
  /\ node \in LogicNode
  /\ posted = << >>
  /\ taken = << >>

-----------------------------------------------------------------------------
(***************************************************************************)
(* The main thread.                                                        *)
(***************************************************************************)

\* A complete body has arrived on some session; AsyncReadBody's handler
\* calls postMsgToQue.
ReadBody(n) ==
  /\ main_pc = "run"
  /\ Len(posted) < MaxPosts
  /\ main_pc' = "post"
  /\ node' = n
  /\ UNCHANGED <<msg_que, mutex, b_stop, sleeping, worker_pc, posted, taken>>

\* Variant: the size is tested before the push.
PostTestsOldSize ==
  /\ main_pc = "post"
  /\ mutex = "free"
  /\ msg_que' = Append(msg_que, node)
  /\ posted' = Append(posted, node)
  /\ main_pc' = IF Len(msg_que) = 1 THEN "notify" ELSE "run"
  /\ UNCHANGED <<mutex, b_stop, sleeping, worker_pc, node, taken>>

\* postMsgToQue under the lock: push, and decide from the new size whether
\* the worker must be notified.
Post ==
  /\ main_pc = "post"
  /\ mutex = "free"
  /\ msg_que' = Append(msg_que, node)
  /\ posted' = Append(posted, node)
  /\ main_pc' = IF Len(msg_que') = 1 THEN "notify" ELSE "run"
  /\ UNCHANGED <<mutex, b_stop, sleeping, worker_pc, node, taken>>

\* Variant of NotifyAll: the worker is not woken.
NotifyAllMissing ==
  /\ main_pc = "notify_all"
  /\ main_pc' = "join"
  /\ UNCHANGED <<msg_que, mutex, b_stop, sleeping, worker_pc, node, posted,
                 taken>>

\* _consume.notify_one(), after the unlock.
NotifyOne ==
  /\ main_pc = "notify"
  /\ sleeping' = FALSE
  /\ main_pc' = "run"
  /\ UNCHANGED <<msg_que, mutex, b_stop, worker_pc, node, posted, taken>>

\* The signal handler stops io_context; main() returns and static
\* destruction begins.
StopRun ==
  /\ main_pc = "run"
  /\ main_pc' = "destruct"
  /\ UNCHANGED <<msg_que, mutex, b_stop, sleeping, worker_pc, node, posted,
                 taken>>

\* ~LogicSystem writes _b_stop without owning _mutex ...
SetStop ==
  /\ main_pc = "destruct"
  /\ b_stop' = TRUE
  /\ main_pc' = "notify_all"
  /\ UNCHANGED <<msg_que, mutex, sleeping, worker_pc, node, posted, taken>>

\* ... wakes whoever is waiting at this moment ...
NotifyAll ==
  /\ main_pc = "notify_all"
  /\ sleeping' = FALSE
  /\ main_pc' = "join"
  /\ UNCHANGED <<msg_que, mutex, b_stop, worker_pc, node, posted, taken>>

\* ... and joins the worker.
Join ==
  /\ main_pc = "join"
  /\ worker_pc = "exited"
  /\ main_pc' = "gone"
  /\ UNCHANGED <<msg_que, mutex, b_stop, sleeping, worker_pc, node, posted,
                 taken>>

-----------------------------------------------------------------------------
(***************************************************************************)
(* The worker thread: dealMsg.                                             *)
(***************************************************************************)
HasCallback(n) == n.msg_id \in Registered

Pop ==
  /\ msg_que' = Tail(msg_que)
  /\ taken' = Append(taken, Head(msg_que))

Lock ==
  /\ worker_pc = "lock"
  /\ mutex = "free"
  /\ mutex' = "worker"
  /\ worker_pc' = "test"
  /\ UNCHANGED <<msg_que, b_stop, sleeping, main_pc, node, posted, taken>>

\* while (_msg_que.empty() && !_b_stop): the condition holds.
DecideWait ==
  /\ worker_pc = "test"
  /\ msg_que = << >>
  /\ ~b_stop
  /\ worker_pc' = "wait"
  /\ UNCHANGED <<msg_que, mutex, b_stop, sleeping, main_pc, node, posted,
                 taken>>

\* _consume.wait(lock) releases the mutex and blocks, atomically.
Wait ==
  /\ worker_pc = "wait"
  /\ sleeping' = TRUE
  /\ mutex' = "free"
  /\ worker_pc' = "blocked"
  /\ UNCHANGED <<msg_que, b_stop, main_pc, node, posted, taken>>

\* A condition variable may wake its waiter without a notification.
SpuriousWakeup ==
  /\ sleeping
  /\ sleeping' = FALSE
  /\ UNCHANGED <<msg_que, mutex, b_stop, worker_pc, main_pc, node, posted,
                 taken>>

\* A woken waiter owns the mutex again and re-evaluates the condition.
Wakeup ==
  /\ worker_pc = "blocked"
  /\ ~sleeping
  /\ mutex = "free"
  /\ mutex' = "worker"
  /\ worker_pc' = "test"
  /\ UNCHANGED <<msg_que, b_stop, sleeping, main_pc, node, posted, taken>>

\* The front message has a callback: it runs with the mutex held.
BeginCall ==
  /\ worker_pc = "test"
  /\ ~b_stop
  /\ msg_que # << >>
  /\ HasCallback(Head(msg_que))
  /\ worker_pc' = "call"
  /\ UNCHANGED <<msg_que, mutex, b_stop, sleeping, main_pc, node, posted,
                 taken>>

\* Variant: the handled message stays at the front of the queue.
EndCallNoPop ==
  /\ worker_pc = "call"
  /\ taken' = Append(taken, Head(msg_que))
  /\ mutex' = "free"
  /\ worker_pc' = "lock"
  /\ UNCHANGED <<msg_que, b_stop, sleeping, main_pc, node, posted>>

\* The callback has returned: pop, leave the scope of the lock, loop.
EndCall ==
  /\ worker_pc = "call"
  /\ Pop
  /\ mutex' = "free"
  /\ worker_pc' = "lock"
  /\ UNCHANGED <<b_stop, sleeping, main_pc, node, posted>>

\* Variant: continue with the lock held.
SkipUnknownKeepsLock ==
  /\ worker_pc = "test"
  /\ ~b_stop
  /\ msg_que # << >>
  /\ ~HasCallback(Head(msg_que))
  /\ Pop
  /\ worker_pc' = "lock"
  /\ UNCHANGED <<mutex, b_stop, sleeping, main_pc, node, posted>>

\* No callback for the id: pop and continue.
SkipUnknown ==
  /\ worker_pc = "test"
  /\ ~b_stop
  /\ msg_que # << >>
  /\ ~HasCallback(Head(msg_que))
  /\ Pop
  /\ mutex' = "free"
  /\ worker_pc' = "lock"
  /\ UNCHANGED <<b_stop, sleeping, main_pc, node, posted>>

\* _b_stop is seen: the rest of the queue is processed without unlocking.
SeeStop ==
  /\ worker_pc = "test"
  /\ b_stop
  /\ worker_pc' = "drain"
  /\ UNCHANGED <<msg_que, mutex, b_stop, sleeping, main_pc, node, posted,
                 taken>>

DrainBeginCall ==
  /\ worker_pc = "drain"
  /\ msg_que # << >>
  /\ HasCallback(Head(msg_que))
  /\ worker_pc' = "drain_call"
  /\ UNCHANGED <<msg_que, mutex, b_stop, sleeping, main_pc, node, posted,
                 taken>>

DrainEndCall ==
  /\ worker_pc = "drain_call"
  /\ Pop
  /\ worker_pc' = "drain"
  /\ UNCHANGED <<mutex, b_stop, sleeping, main_pc, node, posted>>

DrainSkipUnknown ==
  /\ worker_pc = "drain"
  /\ msg_que # << >>
  /\ ~HasCallback(Head(msg_que))
  /\ Pop
  /\ UNCHANGED <<mutex, b_stop, sleeping, worker_pc, main_pc, node, posted>>

\* The queue is empty: break out of the loop; the lock is released.
Exit ==
  /\ worker_pc = "drain"
  /\ msg_que = << >>
  /\ mutex' = "free"
  /\ worker_pc' = "exited"
  /\ UNCHANGED <<msg_que, b_stop, sleeping, main_pc, node, posted, taken>>

-----------------------------------------------------------------------------
MainThread ==
  \/ \E n \in LogicNode : ReadBody(n)
  \/ Post \/ NotifyOne \/ StopRun \/ SetStop \/ NotifyAll \/ Join

WorkerThread ==
  \/ Lock \/ DecideWait \/ Wait \/ Wakeup
  \/ BeginCall \/ EndCall \/ SkipUnknown
  \/ SeeStop \/ DrainBeginCall \/ DrainEndCall \/ DrainSkipUnknown \/ Exit

Next == MainThread \/ WorkerThread \/ SpuriousWakeup

(***************************************************************************)
(* Fairness.  A running thread takes its next step (WF); a thread that     *)
(* keeps finding _mutex free acquires it eventually (SF: the mutex does    *)
(* not starve a thread for ever).  WF on EndCall says that a callback      *)
(* returns.  Nothing forces a client to send (ReadBody), the operator to   *)
(* stop the server (StopRun), or the library to wake a waiter              *)
(* (SpuriousWakeup).                                                       *)
(***************************************************************************)
Fairness ==
  /\ SF_vars(Post)
  /\ WF_vars(NotifyOne) /\ WF_vars(SetStop) /\ WF_vars(NotifyAll)
  /\ WF_vars(Join)
  /\ SF_vars(Lock) /\ SF_vars(Wakeup)
  /\ WF_vars(DecideWait) /\ WF_vars(Wait)
  /\ WF_vars(BeginCall) /\ WF_vars(EndCall) /\ WF_vars(SkipUnknown)
  /\ WF_vars(SeeStop) /\ WF_vars(DrainBeginCall) /\ WF_vars(DrainEndCall)
  /\ WF_vars(DrainSkipUnknown) /\ WF_vars(Exit)

Spec == Init /\ [][Next]_vars

FairSpec == Spec /\ Fairness

-----------------------------------------------------------------------------
(***************************************************************************)
(* Properties.                                                             *)
(***************************************************************************)

\* The places of dealMsg at which the worker owns _mutex.
HoldingPcs == {"test", "wait", "call", "drain", "drain_call"}

\* Types, and the discipline of dealMsg's unique_lock: the worker owns
\* _mutex exactly between lock() and the end of the loop body, except while
\* it is inside _consume.wait; only a worker inside wait is in the wait set.
TypeOK ==
  /\ msg_que \in Seq(LogicNode)
  /\ posted \in Seq(LogicNode)
  /\ taken \in Seq(LogicNode)
  /\ node \in LogicNode
  /\ mutex \in {"free", "worker"}
  /\ b_stop \in BOOLEAN
  /\ sleeping \in BOOLEAN
  /\ worker_pc \in WorkerPcs
  /\ main_pc \in MainPcs
  /\ mutex = "worker" <=> worker_pc \in HoldingPcs
  /\ sleeping => worker_pc = "blocked"

\* postMsgToQue notifies only when the queue length becomes 1, and only
\* after the unlock.  That is enough: a worker asleep beside a non-empty
\* queue has a notification on its way.
NoLostWakeup ==
  sleeping /\ msg_que # << >> => main_pc = "notify"

\* dealMsg handles every posted message once and in the order of posting:
\* what was posted is what was popped followed by what is queued.
FifoExactlyOnce == posted = taken \o msg_que

\* When dealMsg has returned nothing that was posted is unhandled: the
\* branch for _b_stop empties the queue, and nothing is posted afterwards.
DrainedAtExit == worker_pc = "exited" => taken = posted

\* A read handler that calls postMsgToQue gets past the lock although the
\* worker holds it while it runs callbacks: the I/O thread is not stuck.
PostNotStarved == main_pc = "post" ~> main_pc # "post"

\* ~LogicSystem terminates unless the worker stands between its test of the
\* loop condition and the wait when notify_all is called.  (There it misses
\* the notification: _b_stop is set without _mutex.)
StopCompletes ==
  main_pc = "notify_all" /\ worker_pc # "wait" ~> main_pc = "gone"

\* LogicSystem implements the mailbox.  With fairness the missed stop
\* notification costs no message: it needs an empty queue.
MailboxClosed == main_pc \notin {"run", "post", "notify"}

Box == INSTANCE Mailbox WITH
         Message <- LogicNode, accepted <- posted, handled <- taken,
         closed <- MailboxClosed

ImplementsMailbox == Box!Spec
=============================================================================
