-------------------------- MODULE CSessionSendProofs --------------------------
(***************************************************************************)
(* Theorems about the send side of a connection, for any sizes of strings, *)
(* any limits and any number of calls.                                     *)
(***************************************************************************)
EXTENDS CSessionSend, SequenceTheorems, TLAPS

(***************************************************************************)
(* The inductive invariant.  An outstanding write has the front node; a    *)
(* queue with nodes has a write unless one has failed; after a failure the *)
(* queue is not empty, so that send starts nothing; and what the peer has  *)
(* not got is the queue, less the front node if it has been transmitted.   *)
(***************************************************************************)

\* A failed write is the only way to have nodes and no write, and the only
\* way to have a write with an error.
BrokenOrWriting ==
  /\ send_que # << >> /\ writes = {} => broken
  /\ broken => send_que # << >> /\ \A w \in writes : w.result = "error"
  /\ \A w \in writes : w.result = "error" => broken

Inv ==
  /\ TypeOK
  /\ OneWriteAtATime
  /\ SentInOrder
  /\ LengthFaithful
  /\ BrokenOrWriting

-----------------------------------------------------------------------------
\* The conversion to short keeps what send lets through.
LEMMA ShortKeepsFitting ==
  ASSUME NEW size \in Nat, Fits(size)
  PROVE  Short(size) = size /\ size \in 1 .. MAX_LENGTH
BY SendAssumption DEF Fits, Short, SHORT_MAX

-----------------------------------------------------------------------------
\* The queue is empty when the connection is made.
LEMMA InitInv == Init => Inv
<1> SUFFICES ASSUME Init PROVE Inv
  OBVIOUS
<1>1. Unsent = << >> /\ << >> \o << >> = << >>
  BY DEF Init, Unsent
<1>2. TypeOK
  <2>1. << >> \in Seq(SendNode) /\ Len(<< >>) = 0
    BY EmptySeq
  <2>2. 0 <= MAX_SENDQUE
    BY SendAssumption
  <2> QED
    BY <2>1, <2>2 DEF Init, TypeOK
<1>3. LengthFaithful
  BY EmptySeq DEF Init, LengthFaithful
<1> QED
  BY <1>1, <1>2, <1>3
     DEF Init, Inv, OneWriteAtATime, SentInOrder, BrokenOrWriting

\* A push at the end of the queue is a push at the end of the history.
LEMMA PushUnsent ==
  ASSUME NEW t \in Seq(SendNode), NEW q \in Seq(SendNode), NEW e \in SendNode
  PROVE  Append(t \o q, e) = t \o Append(q, e)
OBVIOUS

\* A frame that moves from the queue to the wire leaves the history alone.
LEMMA MoveUnsent ==
  ASSUME NEW t \in Seq(SendNode), NEW q \in Seq(SendNode), q # << >>
  PROVE  /\ Append(t, Head(q)) \o Tail(q) = t \o q
         /\ Append(t, Head(q)) \in Seq(SendNode)
OBVIOUS

\* send preserves the invariant.
LEMMA SendInv ==
  ASSUME Inv, NEW size \in Sizes, Send(size)
  PROVE  Inv'
<1> DEFINE node == [call |-> calls + 1, size |-> size, body_len |-> Short(size)]
<1>1. Short(size) = size /\ size \in 1 .. MAX_LENGTH /\ size \in Nat
  BY ShortKeepsFitting, SendAssumption DEF Send
<1>2. node \in SendNode
  BY <1>1, SendAssumption DEF SendNode, Inv, TypeOK
<1>3. /\ send_que' = Append(send_que, node)
      /\ accepted' = Append(accepted, node)
      /\ calls' = calls + 1
      /\ writes' = IF send_que = << >> THEN writes \cup {Started(node)}
                                       ELSE writes
      /\ UNCHANGED <<socket, wire, broken>>
  BY DEF Send, Push
<1> HIDE DEF node
<1>4. /\ send_que' \in Seq(SendNode) /\ accepted' \in Seq(SendNode)
      /\ send_que' # << >>
      /\ Len(send_que') = Len(send_que) + 1
  BY <1>2, <1>3, AppendProperties DEF Inv, TypeOK
<1>5. /\ Head(send_que') = IF send_que = << >> THEN node ELSE Head(send_que)
      /\ Tail(send_que') = IF send_que = << >> THEN << >>
                                               ELSE Append(Tail(send_que), node)
  BY <1>3, HeadTailAppend DEF Inv, TypeOK
<1>6. send_que = << >> => writes = {} /\ writes' = {Started(node)}
  BY <1>3 DEF Inv, OneWriteAtATime
<1>7. TypeOK'
  BY <1>2, <1>3, <1>4, <1>6, SendAssumption
     DEF Inv, TypeOK, Started, Write, Send, QueueFull
<1>8. OneWriteAtATime'
  BY <1>3, <1>4, <1>5, <1>6 DEF Inv, OneWriteAtATime, Started
<1>9. SentInOrder'
  <2>1. CASE send_que = << >>
    <3>1. Unsent = send_que /\ Unsent' = send_que'
      BY <1>6, <2>1 DEF Unsent, Started
    <3>2. wire \in Seq(SendNode) /\ send_que \in Seq(SendNode)
      BY DEF Inv, TypeOK
    <3>3. Append(wire \o send_que, node) = wire \o Append(send_que, node)
      BY <1>2, <3>2, PushUnsent
    <3> QED
      BY <1>3, <3>1, <3>3 DEF Inv, SentInOrder
  <2>2. CASE send_que # << >>
    <3>1. Unsent \in Seq(SendNode)
      BY <2>2, HeadTailProperties DEF Unsent, Inv, TypeOK
    <3>2. Unsent' = Append(Unsent, node)
      BY <1>3, <1>5, <2>2 DEF Unsent
    <3>3. wire \in Seq(SendNode)
      BY DEF Inv, TypeOK
    <3>4. Append(wire \o Unsent, node) = wire \o Append(Unsent, node)
      BY <1>2, <3>1, <3>3, PushUnsent
    <3> QED
      BY <1>3, <3>2, <3>4 DEF Inv, SentInOrder
  <2> QED
    BY <2>1, <2>2
<1>10. node.size = size /\ node.body_len = Short(size)
  BY DEF node
<1>11. LengthFaithful'
  <2>1. /\ Len(accepted') = Len(accepted) + 1
        /\ \A i \in 1 .. Len(accepted) : accepted'[i] = accepted[i]
        /\ accepted'[Len(accepted) + 1] = node
        /\ Len(accepted) \in Nat
    BY <1>2, <1>3, AppendProperties, LenProperties DEF Inv, TypeOK
  <2> QED
    BY <1>1, <1>10, <2>1 DEF Inv, LengthFaithful
<1>12. BrokenOrWriting'
  <2>1. CASE send_que = << >>
    <3>1. ~broken /\ ~broken'
      BY <1>3, <2>1 DEF Inv, BrokenOrWriting
    <3>2. \A w \in writes' : w.result = "pending"
      BY <1>6, <2>1 DEF Started
    <3> QED
      BY <1>6, <2>1, <3>1, <3>2 DEF BrokenOrWriting
  <2>2. CASE send_que # << >>
    BY <1>3, <1>4, <2>2 DEF Inv, BrokenOrWriting
  <2> QED
    BY <2>1, <2>2
<1> QED
  BY <1>7, <1>8, <1>9, <1>11, <1>12 DEF Inv

\* The end of a write, good or bad, preserves it.
LEMMA CompletionInv ==
  ASSUME Inv, Transmit \/ WriteFails
  PROVE  Inv'
<1>1. PICK w \in writes : w.result = "pending" /\
        \/ /\ Transmit
           /\ writes' = (writes \ {w}) \cup {[w EXCEPT !.result = "ok"]}
           /\ wire' = Append(wire, w.node)
        \/ /\ WriteFails
           /\ writes' = (writes \ {w}) \cup {[w EXCEPT !.result = "error"]}
  BY DEF Transmit, WriteFails
<1>2. /\ writes = {w} /\ w \in Write
      /\ send_que # << >> /\ w.node = Head(send_que)
  BY <1>1 DEF Inv, TypeOK, OneWriteAtATime
<1>3. ~broken /\ Unsent = send_que
  BY <1>1, <1>2 DEF Inv, BrokenOrWriting, Unsent
<1>4. CASE Transmit
  <2>1. /\ writes' = {[node |-> w.node, result |-> "ok"]}
        /\ wire' = Append(wire, Head(send_que))
        /\ UNCHANGED <<send_que, socket, calls, accepted, broken>>
    BY <1>1, <1>2, <1>4 DEF Transmit, Write
  <2>2. /\ wire' \in Seq(SendNode)
        /\ wire' \o Tail(send_que) = wire \o send_que
    BY <1>2, <2>1, MoveUnsent DEF Inv, TypeOK
  <2>3. Unsent' = Tail(send_que)
    BY <2>1 DEF Unsent
  <2>4. TypeOK'
    BY <1>2, <2>1, <2>2 DEF Inv, TypeOK, Write
  <2>5. OneWriteAtATime'
    BY <1>2, <2>1 DEF OneWriteAtATime
  <2>6. SentInOrder'
    BY <1>3, <2>1, <2>2, <2>3 DEF Inv, SentInOrder
  <2>7. LengthFaithful'
    BY <2>1 DEF Inv, LengthFaithful
  <2>8. BrokenOrWriting'
    <3>1. ~broken'
      BY <1>3, <2>1
    <3>2. \A v \in writes' : v.result = "ok"
      BY <2>1
    <3> QED
      BY <2>1, <3>1, <3>2 DEF BrokenOrWriting
  <2> QED
    BY <2>4, <2>5, <2>6, <2>7, <2>8 DEF Inv
<1>5. CASE WriteFails
  <2>1. /\ writes' = {[node |-> w.node, result |-> "error"]}
        /\ broken' = TRUE
        /\ UNCHANGED <<send_que, socket, calls, accepted, wire>>
    BY <1>1, <1>2, <1>5 DEF WriteFails, Write
  <2>2. Unsent' = send_que
    BY <2>1 DEF Unsent
  <2> QED
    BY <1>2, <1>3, <2>1, <2>2
       DEF Inv, TypeOK, Write, OneWriteAtATime, SentInOrder, LengthFaithful,
           BrokenOrWriting
<1> QED
  BY <1>4, <1>5

\* handleWrite without an error preserves it.
LEMMA HandleWriteInv ==
  ASSUME Inv, HandleWrite
  PROVE  Inv'
<1>1. PICK w \in writes :
        /\ w.result = "ok"
        /\ writes' = (writes \ {w}) \cup
             (IF Tail(send_que) = << >> THEN {}
                                       ELSE {Started(Head(Tail(send_que)))})
  BY DEF HandleWrite
<1>2. writes = {w} /\ send_que # << >>
  BY <1>1 DEF Inv, OneWriteAtATime
<1>3. ~broken /\ Unsent = Tail(send_que)
  BY <1>1, <1>2 DEF Inv, BrokenOrWriting, Unsent
<1>4. send_que' = Tail(send_que) /\ UNCHANGED <<socket, calls, accepted, wire, broken>>
  BY DEF HandleWrite
<1>5. send_que' \in Seq(SendNode) /\ Len(send_que') <= MAX_SENDQUE
  BY <1>2, <1>4, HeadTailProperties, LenProperties, EmptySeq, SendAssumption
     DEF Inv, TypeOK
<1>6. writes' = IF send_que' = << >> THEN {} ELSE {Started(Head(send_que'))}
  BY <1>1, <1>2, <1>4
<1>7. send_que' # << >> => Head(send_que') \in SendNode
  BY <1>5, HeadTailProperties
<1>8. Unsent' = send_que'
  BY <1>6 DEF Unsent, Started
<1>9. TypeOK'
  BY <1>4, <1>5, <1>6, <1>7 DEF Inv, TypeOK, Write, Started
<1>10. OneWriteAtATime'
  BY <1>6 DEF OneWriteAtATime, Started
<1>11. SentInOrder'
  BY <1>3, <1>4, <1>8 DEF Inv, SentInOrder
<1>12. LengthFaithful'
  BY <1>4 DEF Inv, LengthFaithful
<1>13. BrokenOrWriting'
  <2>1. ~broken'
    BY <1>3, <1>4
  <2>2. \A v \in writes' : v.result = "pending"
    BY <1>6 DEF Started
  <2>3. send_que' # << >> => writes' # {}
    BY <1>6
  <2> QED
    BY <2>1, <2>2, <2>3 DEF BrokenOrWriting
<1> QED
  BY <1>9, <1>10, <1>11, <1>12, <1>13 DEF Inv

\* Every step preserves the invariant.
LEMMA NextInv == Inv /\ [Next]_vars => Inv'
<1> SUFFICES ASSUME Inv, [Next]_vars PROVE Inv'
  OBVIOUS
<1>1. ASSUME NEW size \in Sizes, Send(size) PROVE Inv'
  BY <1>1, SendInv
<1>2. ASSUME NEW size \in Sizes, SendDrops(size) PROVE Inv'
  BY <1>2 DEF SendDrops, Inv, TypeOK, OneWriteAtATime, SentInOrder, Unsent,
              LengthFaithful, BrokenOrWriting
<1>3. CASE Transmit \/ WriteFails
  BY <1>3, CompletionInv
<1>4. CASE HandleWrite
  BY <1>4, HandleWriteInv
<1>5. CASE HandleWriteError
  <2>1. PICK w \in writes : w.result = "error" /\ writes' = writes \ {w}
    BY <1>5 DEF HandleWriteError
  <2>2. writes = {w} /\ send_que # << >> /\ broken
    BY <2>1 DEF Inv, OneWriteAtATime, BrokenOrWriting
  <2>3. writes' = {} /\ Unsent = send_que /\ Unsent' = send_que'
    BY <1>5, <2>1, <2>2 DEF Unsent
  <2> QED
    BY <1>5, <2>2, <2>3
       DEF HandleWriteError, Inv, TypeOK, OneWriteAtATime, SentInOrder,
           LengthFaithful, BrokenOrWriting
<1>6. CASE CloseSocket
  BY <1>6 DEF CloseSocket, Inv, TypeOK, OneWriteAtATime, SentInOrder, Unsent,
              LengthFaithful, BrokenOrWriting
<1>7. CASE UNCHANGED vars
  BY <1>7 DEF vars, Inv, TypeOK, OneWriteAtATime, SentInOrder, Unsent,
              LengthFaithful, BrokenOrWriting
<1> QED
  BY <1>1, <1>2, <1>3, <1>4, <1>5, <1>6, <1>7 DEF Next

THEOREM Invariance == Spec => []Inv
BY InitInv, NextInv, PTL DEF Spec

-----------------------------------------------------------------------------
\* Types, and the limit MAX_SENDQUE on the queue.
THEOREM TypeCorrect == Spec => []TypeOK
<1>1. Inv => TypeOK
  BY DEF Inv
<1> QED
  BY <1>1, Invariance, PTL

\* async_write is never called while another one is outstanding, and the
\* node whose memory it uses is at the front of the queue.
THEOREM WritesDoNotOverlap == Spec => []OneWriteAtATime
<1>1. Inv => OneWriteAtATime
  BY DEF Inv
<1> QED
  BY <1>1, Invariance, PTL

\* The peer receives the accepted nodes in order, each once.
THEOREM OrderPreserved == Spec => []SentInOrder
<1>1. Inv => SentInOrder
  BY DEF Inv
<1> QED
  BY <1>1, Invariance, PTL

\* No header announces a length that was changed by the cast to short.
THEOREM LengthsPreserved == Spec => []LengthFaithful
<1>1. Inv => LengthFaithful
  BY DEF Inv
<1> QED
  BY <1>1, Invariance, PTL

\* After a failed write the connection is mute for ever.
THEOREM FailureIsFinal == Spec => MuteAfterFailure
<1>1. Inv /\ [Next]_vars =>
        [broken => wire' = wire /\ Len(send_que') >= Len(send_que)]_vars
  <2> SUFFICES ASSUME Inv, Next, broken
               PROVE  wire' = wire /\ Len(send_que') >= Len(send_que)
    BY DEF vars
  <2>1. Len(send_que) \in Nat
    BY LenProperties DEF Inv, TypeOK
  <2>2. ~Transmit /\ ~HandleWrite
    BY DEF Transmit, HandleWrite, Inv, BrokenOrWriting
  <2>3. ASSUME NEW size \in Sizes, Send(size)
        PROVE  wire' = wire /\ Len(send_que') >= Len(send_que)
    <3>1. PICK node : send_que' = Append(send_que, node)
      BY <2>3 DEF Send, Push
    <3>2. send_que' \in Seq(SendNode)
      BY <2>3, SendInv DEF Inv, TypeOK
    <3>3. Len(send_que') = Len(send_que) + 1
      BY <3>1, <3>2 DEF Inv, TypeOK
    <3> QED
      BY <2>1, <2>3, <3>3 DEF Send
  <2>4. ASSUME NEW size \in Sizes, SendDrops(size)
        PROVE  wire' = wire /\ Len(send_que') >= Len(send_que)
    BY <2>1, <2>4 DEF SendDrops
  <2>5. CASE WriteFails \/ HandleWriteError \/ CloseSocket
    <3>1. wire' = wire /\ send_que' = send_que
      BY <2>5 DEF WriteFails, HandleWriteError, CloseSocket
    <3> QED
      BY <2>1, <3>1
  <2> QED
    BY <2>2, <2>3, <2>4, <2>5 DEF Next
<1> QED
  BY <1>1, Invariance, PTL DEF Spec, MuteAfterFailure

\* As long as no write has failed, whenever none is outstanding the peer has
\* everything send accepted.
NothingStuck == writes = {} /\ ~broken => send_que = << >> /\ wire = accepted

\* send starts a write if and only if none is outstanding, and handleWrite
\* the next one as long as there is a node: none waits for a write nobody
\* starts, which is what DeliveredOrBroken rests on.
THEOREM NoFrameIsStuck == Spec => []NothingStuck
<1>1. Inv => NothingStuck
  <2> SUFFICES ASSUME Inv, writes = {}, ~broken
               PROVE  send_que = << >> /\ wire = accepted
    BY DEF NothingStuck
  <2>1. send_que = << >>
    BY DEF Inv, BrokenOrWriting
  <2>2. Unsent = << >> /\ wire \in Seq(SendNode)
    BY <2>1 DEF Unsent, Inv, TypeOK
  <2>3. wire \o << >> = wire
    BY <2>2, ConcatEmptySeq
  <2> QED
    BY <2>1, <2>2, <2>3 DEF Inv, SentInOrder
<1> QED
  BY <1>1, Invariance, PTL
=============================================================================
