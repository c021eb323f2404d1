----------------------------- MODULE CSessionRead -----------------------------
(***************************************************************************)
(* The read path of one connection: from the bytes a client writes to the  *)
(* messages the worker handles.                                            *)
(*                                                                         *)
(* A frame is a header (message id and body length, two bytes each, in     *)
(* network order) and a body.  TCP hands the bytes out in pieces of any    *)
(* size; CSession asks for the header, then for the body, and puts each    *)
(* together in _data from as many reads as it takes (asyncReadFull,        *)
(* asyncReadLen).  A complete frame becomes a RecvNode in _msg_que.        *)
(*                                                                         *)
(* Id and length are signed shorts, and only held against an upper bound:  *)
(* negative ones pass.  What comes of them is modelled as well.            *)
(*                                                                         *)
(* A session lives as long as someone holds a shared_ptr to it: _sessions, *)
(* the handler of the outstanding read, the queued messages, UserMgr.      *)
(* Reading and close() are on the I/O thread, handling is on the worker;   *)
(* the queue is the module LogicSystem, close() is told in Presence.       *)
(***************************************************************************)
EXTENDS Integers, Sequences

CONSTANTS
  Frames,         \* the frames clients send
  MAX_LENGTH,     \* the size of _data
  MSG_CHAT_LOGIN, \* the id of a login
  SIZE_MAX,       \* the largest size_t
  MaxFrames       \* bound: frames the client sends

HEAD_ID_LEN    == 2
HEAD_TOTAL_LEN == 4

Byte  == 0 .. 255
Short == -32768 .. 32767

\* A header may announce any short, above MAX_LENGTH or below zero too.
Frame == [msg_id : Short, len : Short, body : Seq(Byte)]

ASSUME CSessionReadAssumption ==
  /\ Frames \subseteq Frame
  /\ \A f \in Frames : f.len \in 0 .. MAX_LENGTH => Len(f.body) = f.len
  /\ MAX_LENGTH \in Nat /\ MAX_LENGTH >= HEAD_TOTAL_LEN
  /\ SIZE_MAX \in Nat /\ SIZE_MAX > 32767
  /\ MaxFrames \in Nat

VARIABLES
  \* the client and the stream
  sent,        \* the frames the client has written
  peer,        \* "open", "finished" (orderly end) or "reset"
  wire,        \* the bytes that have not been read
  \* the session
  step,        \* what is being read: "head", "body"; or, nothing any more:
               \* "none", or "thrown" if an exception ended it
  total_len,   \* how much of it is asked for
  data,        \* _data: what has been read of it (zero beyond)
  nodes,       \* the RecvNodes that were made, the last is _recv_msg_node
  in_sessions, \* CServer::_sessions holds the session
  b_close,     \* _b_close: the socket has been closed
  \* the worker
  msg_que,     \* the queued messages of the session, indices of nodes
  handled,     \* what the handlers have been given
  bound        \* the session is logged in, UserMgr holds it

client  == <<sent, peer>>
session == <<nodes, in_sessions, b_close>>
logic   == <<msg_que, handled, bound>>

vars == <<sent, peer, wire, step, total_len, data, nodes, in_sessions,
          b_close, msg_que, handled, bound>>

unsigned_short(n) == IF n < 0 THEN n + 65536 ELSE n

\* A short in network order, and back into a short, which is signed.
host_to_network_short(n) == <<unsigned_short(n) \div 256, unsigned_short(n) % 256>>

network_to_host_short(b) ==
  LET n == b[1] * 256 + b[2] IN IF n <= 32767 THEN n ELSE n - 65536

\* What a length becomes as the size of a read.
size_t(n) == IF n < 0 THEN SIZE_MAX + 1 + n ELSE n

Encode(f) ==
  host_to_network_short(f.msg_id) \o host_to_network_short(f.len) \o f.body

\* The constructor, then start(): a header is asked for.
Init ==
  /\ sent = << >> /\ peer = "open" /\ wire = << >>
  /\ step = "head" /\ total_len = HEAD_TOTAL_LEN /\ data = << >>
  /\ nodes = << >> /\ in_sessions = TRUE /\ b_close = FALSE
  /\ msg_que = << >> /\ handled = << >> /\ bound = FALSE

Reading == step \in {"head", "body"}

\* Someone holds the session; without anyone it is destructed, and the
\* socket closed with it.
Referenced == in_sessions \/ Reading \/ msg_que # << >> \/ bound

SocketOpen == ~b_close /\ Referenced

-----------------------------------------------------------------------------
(***************************************************************************)
(* The client and the network.                                             *)
(***************************************************************************)
SendFrame(f) ==
  /\ peer = "open" /\ SocketOpen
  /\ Len(sent) < MaxFrames
  /\ sent' = Append(sent, f)
  /\ wire' = wire \o Encode(f)
  /\ UNCHANGED <<peer, step, total_len, data, session, logic>>

\* The client ends in an orderly way: what it wrote can still be read.
Finish ==
  /\ peer = "open"
  /\ peer' = "finished"
  /\ UNCHANGED <<sent, wire, step, total_len, data, session, logic>>

\* The connection breaks: what was not read is lost.
Reset ==
  /\ peer = "open"
  /\ peer' = "reset"
  /\ wire' = << >>
  /\ UNCHANGED <<sent, step, total_len, data, session, logic>>

-----------------------------------------------------------------------------
(***************************************************************************)
(* The I/O thread.                                                         *)
(***************************************************************************)

\* asyncReadFull: _data is cleared and n bytes are asked for.
asyncReadFull(s, n) ==
  /\ step' = s
  /\ total_len' = n
  /\ data' = << >>

\* Variant: every read writes to the start of _data.
FillFromStart(n) ==
  [i \in 1 .. Len(data) + n |->
     IF i <= n THEN wire[i] ELSE IF i <= Len(data) THEN data[i] ELSE 0]

\* _data after a read of n bytes at _data + read_len.
Fill(n) == data \o SubSeq(wire, 1, n)

\* async_read_some completes with n of the bytes that are still asked for,
\* as many as happen to be there; with none if none is asked for.
ReadSome(n) ==
  /\ Reading
  /\ n <= Len(wire) /\ n <= total_len - Len(data)
  /\ n = 0 => total_len = 0
  /\ wire' = SubSeq(wire, n + 1, Len(wire))

\* Nobody ever writes SIZE_MAX bytes: a read of that many does not complete.
Completes(n) == total_len # SIZE_MAX /\ Len(data) + n >= total_len

\* asyncReadLen: not complete yet, the rest is asked for.
ReadPart(n) ==
  /\ ReadSome(n)
  /\ ~Completes(n)
  /\ data' = Fill(n)
  /\ UNCHANGED <<client, step, total_len, session, logic>>

\* memcpy of the n bytes after offset; what was not read is zero.
Memory(d, offset, n) ==
  [i \in 1 .. n |-> IF offset + i <= Len(d) THEN d[offset + i] ELSE 0]

HeadId(d)  == network_to_host_short(Memory(d, 0, HEAD_ID_LEN))
HeadLen(d) == network_to_host_short(Memory(d, HEAD_ID_LEN, HEAD_ID_LEN))

\* Variant: the length is not checked.
OnlyIdChecked(d) == HeadId(d) <= MAX_LENGTH

\* The id is held against the length limit, as the length is.
ValidHead(d) == HeadId(d) <= MAX_LENGTH /\ HeadLen(d) <= MAX_LENGTH

RecvNode(id, len) == [msg_id |-> id, len |-> len, body |-> << >>]

\* The node's memory is new char[len + 1]: a size below zero throws.
NodeThrows(len) == len + 1 < 0

\* AsyncReadHead: a new RecvNode is made, and the body asked for.  Of a
\* length of -1 it asks for SIZE_MAX bytes.
ReadHead(n) ==
  /\ step = "head"
  /\ ReadSome(n)
  /\ Completes(n)
  /\ ValidHead(Fill(n)) /\ ~NodeThrows(HeadLen(Fill(n)))
  /\ nodes' = Append(nodes, RecvNode(HeadId(Fill(n)), HeadLen(Fill(n))))
  /\ asyncReadFull("body", size_t(HeadLen(Fill(n))))
  /\ UNCHANGED <<client, in_sessions, b_close, logic>>

\* AsyncReadHead: the RecvNode throws.  The exception is swallowed: no
\* further read is started, close() and ClearSession are not called.
ThrowHead(n) ==
  /\ step = "head"
  /\ ReadSome(n)
  /\ Completes(n)
  /\ ValidHead(Fill(n)) /\ NodeThrows(HeadLen(Fill(n)))
  /\ step' = "thrown"
  /\ UNCHANGED <<client, total_len, data, session, logic>>

\* Variant: the session stays in _sessions.
RefuseQuietly(n) ==
  /\ step = "head"
  /\ ReadSome(n)
  /\ Completes(n)
  /\ ~ValidHead(Fill(n))
  /\ step' = "none"
  /\ UNCHANGED <<client, total_len, data, session, logic>>

\* AsyncReadHead: the header is refused.  ClearSession is called, close() is
\* not, and no further read is started.
RefuseHead(n) ==
  /\ step = "head"
  /\ ReadSome(n)
  /\ Completes(n)
  /\ ~ValidHead(Fill(n))
  /\ step' = "none"
  /\ in_sessions' = FALSE
  /\ UNCHANGED <<client, total_len, data, nodes, b_close, logic>>

\* Variant: after a frame no header is asked for.
ReadBodyAndStop(n) ==
  /\ step = "body"
  /\ ReadSome(n)
  /\ Completes(n)
  /\ nodes' = [nodes EXCEPT ![Len(nodes)].body = Memory(Fill(n), 0, total_len)]
  /\ msg_que' = Append(msg_que, Len(nodes))
  /\ asyncReadFull("none", 0)
  /\ UNCHANGED <<client, in_sessions, b_close, handled, bound>>

\* AsyncReadBody: the body is copied, the message posted, and the next
\* header asked for.
ReadBody(n) ==
  /\ step = "body"
  /\ ReadSome(n)
  /\ Completes(n)
  /\ nodes' = [nodes EXCEPT ![Len(nodes)].body = Memory(Fill(n), 0, total_len)]
  /\ msg_que' = Append(msg_que, Len(nodes))
  /\ asyncReadFull("head", HEAD_TOTAL_LEN)
  /\ UNCHANGED <<client, in_sessions, b_close, handled, bound>>

\* An error in the header or in the body: close() and ClearSession.
CloseAndClear ==
  /\ step' = "none"
  /\ b_close' = TRUE
  /\ in_sessions' = FALSE
  /\ bound' = FALSE

\* The end of the stream or its reset.  A read of no bytes does not fail.
ReadFails ==
  /\ Reading /\ total_len > 0
  /\ peer = "reset" \/ (peer = "finished" /\ wire = << >>)
  /\ CloseAndClear
  /\ UNCHANGED <<client, wire, total_len, data, nodes, msg_que, handled>>

\* After a length of -1 everything is open: the node's terminating zero was
\* written before its memory, and bytes may be read past the end of _data.
Overread == step = "body" /\ total_len = SIZE_MAX

\* The system may refuse to read SIZE_MAX bytes; or the process dies of what
\* was overwritten, and the connection and what was queued with it.
ReadIsRefused ==
  /\ Overread
  /\ CloseAndClear
  /\ UNCHANGED <<client, wire, total_len, data, nodes, msg_que, handled>>

ProcessDies ==
  /\ Overread
  /\ CloseAndClear
  /\ peer' = "reset" /\ wire' = << >> /\ msg_que' = << >>
  /\ UNCHANGED <<sent, total_len, data, nodes, handled>>

-----------------------------------------------------------------------------
(***************************************************************************)
(* The worker: the handler gets the id and the body of the front message   *)
(* (for an id nobody handles, a negative one say, that is all that         *)
(* happens).  A login may succeed, which binds the session.                *)
(***************************************************************************)
HandleFront ==
  /\ msg_que # << >>
  /\ LET node == nodes[Head(msg_que)] IN
       /\ handled' = Append(handled, node)
       /\ bound' \in {bound} \cup
                       (IF node.msg_id = MSG_CHAT_LOGIN THEN {TRUE} ELSE {})
  /\ msg_que' = Tail(msg_que)
  /\ UNCHANGED <<client, wire, step, total_len, data, session>>

-----------------------------------------------------------------------------
ReadSize == 0 .. Len(wire)

Read ==
  \/ \E n \in ReadSize :
       \/ ReadPart(n) \/ ReadHead(n) \/ RefuseHead(n) \/ ThrowHead(n)
       \/ ReadBody(n)
  \/ ReadFails

Next ==
  \/ \E f \in Frames : SendFrame(f)
  \/ Finish \/ Reset
  \/ Read \/ ReadIsRefused \/ ProcessDies
  \/ HandleFront

Spec == Init /\ [][Next]_vars

\* A read that has something to report completes; the worker goes on.
FairSpec == Spec /\ WF_vars(Read) /\ WF_vars(HandleFront)

-----------------------------------------------------------------------------
(***************************************************************************)
(* Properties.                                                             *)
(***************************************************************************)

\* Types; and nothing is asked for that _data could not hold, unless a header
\* announced a length of -1: body and header are read into the same buffer of
\* MAX_LENGTH bytes.
TypeOK ==
  /\ sent \in Seq(Frames)
  /\ peer \in {"open", "finished", "reset"}
  /\ wire \in Seq(Byte)
  /\ step \in {"head", "body", "none", "thrown"}
  /\ \/ total_len \in 0 .. MAX_LENGTH
     \/ /\ total_len = SIZE_MAX
        /\ nodes # << >> /\ nodes[Len(nodes)].len = -1
  /\ data \in Seq(Byte) /\ Len(data) <= total_len
  /\ nodes \in Seq(Frame)
  /\ in_sessions \in BOOLEAN /\ b_close \in BOOLEAN /\ bound \in BOOLEAN
  /\ msg_que \in Seq(1 .. Len(nodes))
  /\ handled \in Seq(Frame)

\* The client, the stream, the session and the queue together are a mailbox:
\* the handlers get the frames the client wrote, each once, in order, with
\* the id and the body they were written with, however the stream was cut.
Channel ==
  INSTANCE Mailbox WITH Message <- Frames, accepted <- sent,
                        handled <- handled, closed <- peer # "open"

ImplementsMailbox == Channel!SafeSpec

Good(i) ==
  \A j \in 1 .. i :
    sent[j].msg_id <= MAX_LENGTH /\ sent[j].len \in 0 .. MAX_LENGTH

\* Every frame a client wrote before it ended is handled, unless the
\* connection breaks (a process that dies breaks it too), or the header of
\* the frame or of an earlier one announces more than MAX_LENGTH or less than
\* nothing.
FramesDelivered ==
  \A i \in 1 .. MaxFrames :
    (Len(sent) >= i /\ Good(i)) ~> (Len(handled) >= i \/ peer = "reset")

\* A session whose reading ended with a refused header, or with the stream,
\* is not kept: the client sees its connection end once the messages before
\* it have been handled, unless it is logged in: then UserMgr keeps the
\* session.  It is not so when the RecvNode threw (step is "thrown"): that
\* session stays in _sessions, open and read by nobody.
RefusedIsClosed == (step = "none") ~> (~SocketOpen \/ bound)
=============================================================================
