----------------------------- MODULE CSessionSend -----------------------------
(***************************************************************************)
(* The send side of one connection: CSession::send, handleWrite and the    *)
(* part of close() that touches the socket (src/src/net/CSession.cpp).     *)
(*                                                                         *)
(* send is called by the logic worker (replies, chat messages) and by the  *)
(* threads of the gRPC server (notifications); handleWrite runs on the     *)
(* I/O thread when asio completes an async_write.  Each of them does all   *)
(* its work on _send_que under _send_lock, so each is one step; what       *)
(* interleaves is send, the completion of a write and its handler.         *)
(***************************************************************************)
EXTENDS Integers, Sequences, FiniteSets

CONSTANTS
  Sizes,       \* the sizes of the strings callers pass to send
  MAX_LENGTH,  \* const.h: the longest body
  MAX_SENDQUE, \* const.h: the longest send queue
  MaxCalls     \* bound: calls of send in a behaviour

SHORT_MAX == 32767 \* std::numeric_limits<short>::max()

ASSUME SendAssumption ==
  /\ Sizes \subseteq Nat
  /\ MAX_LENGTH \in 1 .. SHORT_MAX
  /\ MAX_SENDQUE \in Nat \ {0}
  /\ MaxCalls \in Nat

\* static_cast<short>(n) of a size_t n.
Short(n) == ((n + 32768) % 65536) - 32768

\* A SendNode: the call that made it, the size of the string it was made
\* from, and the body length its header announces.
SendNode == [call : Nat, size : Sizes, body_len : Int]

\* An async_write handed to asio, and its result.
Write == [node : SendNode, result : {"pending", "ok", "error"}]

VARIABLES
  send_que, \* _send_que
  writes,   \* the async_write operations whose handler has not run yet
  socket,   \* "open" or "closed"
  calls,    \* history: number of calls of send
  accepted, \* history: the nodes pushed to _send_que, in order
  wire,     \* history: the nodes given to the peer, in order
  broken    \* history: a write has ended with an error

vars == <<send_que, writes, socket, calls, accepted, wire, broken>>

Init ==
  /\ send_que = << >>
  /\ writes = {}
  /\ socket = "open"
  /\ calls = 0
  /\ accepted = << >>
  /\ wire = << >>
  /\ broken = FALSE

-----------------------------------------------------------------------------
\* boost::asio::async_write of the buffer of a node of the queue.
Started(node) == [node |-> node, result |-> "pending"]

\* Variant: no limit on the size of the string.
FitsCastOnly(size) ==
  /\ Short(size) > 0
  /\ Short(size) <= MAX_LENGTH

\* The limits of the two overloads of send.
Fits(size) ==
  /\ size <= SHORT_MAX
  /\ Short(size) > 0
  /\ Short(size) <= MAX_LENGTH

\* Variant: the limit is tested as if the new node were not counted.
QueueFullOffByOne == Len(send_que) > MAX_SENDQUE

QueueFull == Len(send_que) >= MAX_SENDQUE

Push(node) ==
  /\ send_que' = Append(send_que, node)
  /\ accepted' = Append(accepted, node)

\* Variant: a write is started for every node.
SendAlwaysWrites(size) ==
  /\ calls < MaxCalls
  /\ Fits(size)
  /\ ~QueueFull
  /\ LET node == [call |-> calls + 1, size |-> size, body_len |-> Short(size)]
     IN  /\ Push(node)
         /\ writes' = writes \cup {Started(node)}
  /\ calls' = calls + 1
  /\ UNCHANGED <<socket, wire, broken>>

\* send: the node is pushed; only a node pushed to an empty queue starts a
\* write, the others wait for handleWrite.
Send(size) ==
  /\ calls < MaxCalls
  /\ Fits(size)
  /\ ~QueueFull
  /\ LET node == [call |-> calls + 1, size |-> size, body_len |-> Short(size)]
     IN  /\ Push(node)
         /\ writes' = IF send_que = << >> THEN writes \cup {Started(node)}
                                          ELSE writes
  /\ calls' = calls + 1
  /\ UNCHANGED <<socket, wire, broken>>

\* send: too long, empty, or the queue is full.  The message is dropped and
\* the caller, send being void, is not told.
SendDrops(size) ==
  /\ calls < MaxCalls
  /\ ~Fits(size) \/ QueueFull
  /\ calls' = calls + 1
  /\ UNCHANGED <<send_que, writes, socket, accepted, wire, broken>>

\* asio has given the whole node to the peer; the handler is queued.
Transmit ==
  /\ socket = "open"
  /\ \E w \in writes :
       /\ w.result = "pending"
       /\ writes' = (writes \ {w}) \cup {[w EXCEPT !.result = "ok"]}
       /\ wire' = Append(wire, w.node)
  /\ UNCHANGED <<send_que, socket, calls, accepted, broken>>

\* The write fails: the peer is gone, or close() has closed the socket.
WriteFails ==
  /\ \E w \in writes :
       /\ w.result = "pending"
       /\ writes' = (writes \ {w}) \cup {[w EXCEPT !.result = "error"]}
  /\ broken' = TRUE
  /\ UNCHANGED <<send_que, socket, calls, accepted, wire>>

\* Variant: the next write is started before the finished node is popped.
HandleWriteStartsBeforePop ==
  /\ \E w \in writes :
       /\ w.result = "ok"
       /\ send_que' = Tail(send_que)
       /\ writes' = (writes \ {w}) \cup
            (IF Tail(send_que) = << >> THEN {} ELSE {Started(Head(send_que))})
  /\ UNCHANGED <<socket, calls, accepted, wire, broken>>

\* Variant: nothing is started after the pop.
HandleWriteNoRestart ==
  /\ \E w \in writes :
       /\ w.result = "ok"
       /\ send_que' = Tail(send_que)
       /\ writes' = writes \ {w}
  /\ UNCHANGED <<socket, calls, accepted, wire, broken>>

\* handleWrite without an error: pop, start the write of the next node.
HandleWrite ==
  /\ \E w \in writes :
       /\ w.result = "ok"
       /\ send_que' = Tail(send_que)
       /\ writes' = (writes \ {w}) \cup
            (IF Tail(send_que) = << >> THEN {}
                                       ELSE {Started(Head(Tail(send_que)))})
  /\ UNCHANGED <<socket, calls, accepted, wire, broken>>

\* Variant: the failed node is popped and the next one is tried.
HandleWriteErrorGoesOn ==
  /\ \E w \in writes :
       /\ w.result = "error"
       /\ send_que' = Tail(send_que)
       /\ writes' = (writes \ {w}) \cup
            (IF Tail(send_que) = << >> THEN {}
                                       ELSE {Started(Head(Tail(send_que)))})
  /\ UNCHANGED <<socket, calls, accepted, wire, broken>>

\* handleWrite with an error: nothing is popped, nothing is started, the
\* session is not closed.
HandleWriteError ==
  /\ \E w \in writes :
       /\ w.result = "error"
       /\ writes' = writes \ {w}
  /\ UNCHANGED <<send_que, socket, calls, accepted, wire, broken>>

\* close(): _socket.close().  Only a failed read calls it; a write that is
\* pending then ends with an error.
CloseSocket ==
  /\ socket = "open"
  /\ socket' = "closed"
  /\ UNCHANGED <<send_que, writes, calls, accepted, wire, broken>>

Next ==
  \/ \E size \in Sizes : Send(size) \/ SendDrops(size)
  \/ Transmit \/ WriteFails \/ HandleWrite \/ HandleWriteError
  \/ CloseSocket

(***************************************************************************)
(* A write that was started ends, one way or the other (a peer that never  *)
(* reads again is the peer's failure, which TCP reports), and the I/O      *)
(* thread runs the handlers that are queued.                               *)
(***************************************************************************)
Fairness ==
  /\ WF_vars(Transmit \/ WriteFails)
  /\ WF_vars(HandleWrite)
  /\ WF_vars(HandleWriteError)

Spec == Init /\ [][Next]_vars

FairSpec == Spec /\ Fairness

-----------------------------------------------------------------------------
(***************************************************************************)
(* Properties.                                                             *)
(***************************************************************************)

\* Types, and the limits of const.h:21 and const.h:31 that send enforces:
\* the queue never holds more than MAX_SENDQUE nodes.
TypeOK ==
  /\ send_que \in Seq(SendNode)
  /\ Len(send_que) <= MAX_SENDQUE
  /\ writes \subseteq Write
  /\ socket \in {"open", "closed"}
  /\ calls \in Nat
  /\ accepted \in Seq(SendNode)
  /\ wire \in Seq(SendNode)
  /\ broken \in BOOLEAN

\* async_write must not be called again before the previous one is done, or
\* the frames of the two interleave; and its buffer is the memory of the
\* front node, which must stay in the queue until the handler has run.
OneWriteAtATime ==
  \A w \in writes : /\ writes = {w}
                    /\ send_que # << >>
                    /\ w.node = Head(send_que)

\* The part of the queue the peer has not received.
Unsent ==
  IF \E w \in writes : w.result = "ok" THEN Tail(send_que) ELSE send_que

\* No node is lost, duplicated or overtaken between send and the peer.
SentInOrder == accepted = wire \o Unsent

\* The header of every queued node announces the length of the string the
\* caller passed: no length is changed by the conversion to short.
LengthFaithful ==
  \A i \in 1 .. Len(accepted) :
    /\ accepted[i].body_len = accepted[i].size
    /\ accepted[i].size \in 1 .. MAX_LENGTH

\* handleWrite neither pops nor closes after an error.  From then on the
\* connection is mute for ever: nothing reaches the peer, and the queue only
\* fills up, to MAX_SENDQUE.
MuteAfterFailure ==
  [][broken => wire' = wire /\ Len(send_que') >= Len(send_que)]_vars

\* Every node that was queued reaches the peer unless a write has failed:
\* no node waits for a write nobody starts.
DeliveredOrBroken ==
  \A n \in 1 .. MaxCalls : Len(accepted) >= n ~> (Len(wire) >= n \/ broken)
=============================================================================
