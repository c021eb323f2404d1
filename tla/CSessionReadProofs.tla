-------------------------- MODULE CSessionReadProofs --------------------------
(***************************************************************************)
(* The read path hands the worker the frames the client wrote: proofs for  *)
(* any frames, any size of _data and any way the stream is cut.            *)
(***************************************************************************)
EXTENDS CSessionRead, SequenceTheorems, TLAPS

(***************************************************************************)
(* The invariant.                                                          *)
(***************************************************************************)

\* How many messages have been posted: nodes[1] to nodes[Posted] were.
Posted == Len(handled) + Len(msg_que)

QueuedInOrder ==
  /\ Posted <= Len(nodes)
  /\ \A i \in 1 .. Len(msg_que) : msg_que[i] = Len(handled) + i

\* What has been posted and handled is what was sent.
PostedAsSent ==
  /\ Posted <= Len(sent)
  /\ \A i \in 1 .. Posted : nodes[i] = sent[i]
  /\ \A i \in 1 .. Len(handled) : handled[i] = sent[i]

\* The bytes s are the frames of q from the i-th on, and nothing else:
\* rest[j] is what is left of s when the frames before the j-th are taken
\* away.
Carries(s, q, i) ==
  \E rest \in [1 .. Len(q) + 1 -> Seq(Byte)] :
    /\ rest[i] = s
    /\ \A j \in i .. Len(q) : rest[j] = Encode(q[j]) \o rest[j + 1]
    /\ rest[Len(q) + 1] = << >>

LostAtReset == peer = "reset" => wire = << >>

\* While a header is read, what has been read of it and what has not are the
\* frames that have not been posted.
AtHead ==
  step = "head" =>
    /\ Len(nodes) = Posted
    /\ total_len = HEAD_TOTAL_LEN /\ Len(data) < total_len
    /\ peer # "reset" => Carries(data \o wire, sent, Posted + 1)

\* While a body is read, the node has the header of the next frame, and the
\* bytes are its body and the frames after it.
AtBody ==
  step = "body" =>
    LET f == sent[Posted + 1] IN
    /\ Len(nodes) = Posted + 1 /\ Posted < Len(sent)
    /\ nodes[Posted + 1] = RecvNode(f.msg_id, f.len)
    /\ f.len \in -1 .. MAX_LENGTH /\ total_len = size_t(f.len)
    /\ total_len # SIZE_MAX => data = << >> \/ Len(data) < total_len
    /\ peer # "reset" =>
         \E r \in Seq(Byte) :
           data \o wire = f.body \o r /\ Carries(r, sent, Posted + 2)

Inv ==
  /\ TypeOK /\ QueuedInOrder /\ PostedAsSent
  /\ LostAtReset /\ AtHead /\ AtBody

\* When the stream has been read up and the queue is empty, while the session
\* still reads, the handlers have had everything the client wrote: no byte
\* waits in _data, and asyncReadLen never waits for more than a frame has.
\* This does not speak of a body announced with a length of -1, which is
\* waited for without end.
ReadUp ==
  /\ Reading /\ peer # "reset"
  /\ wire = << >> /\ msg_que = << >>
  /\ step = "body" => total_len > 0 /\ ~Overread

ReadUpIsHandled == ReadUp => handled = sent

-----------------------------------------------------------------------------
(***************************************************************************)
(* Sequences: a read moves bytes from the stream to the end of _data.      *)
(***************************************************************************)

LEMMA PrefixTyped ==
  ASSUME NEW w \in Seq(Byte), NEW n \in 0 .. Len(w)
  PROVE  /\ SubSeq(w, 1, n) \in Seq(Byte) /\ Len(SubSeq(w, 1, n)) = n
         /\ SubSeq(w, n + 1, Len(w)) \in Seq(Byte)
<1>1. Len(w) \in Nat /\ \A i \in 1 .. Len(w) : w[i] \in Byte
  BY LenProperties, ElementOfSeq
<1>2. \A i \in 1 .. n : w[i] \in Byte
  BY <1>1
<1>3. \A i \in n + 1 .. Len(w) : w[i] \in Byte
  BY <1>1
<1>4. SubSeq(w, 1, n) \in Seq(Byte) /\ Len(SubSeq(w, 1, n)) = n
  BY <1>1, <1>2, SubSeqProperties
<1> QED
  BY <1>1, <1>3, <1>4, SubSeqProperties

LEMMA Regroup == \A s, t, u \in Seq(Byte) : (s \o t) \o u = s \o (t \o u)
BY ConcatAssociative

\* Nothing gets lost or added.
LEMMA MoveBytes ==
  ASSUME NEW d \in Seq(Byte), NEW w \in Seq(Byte), NEW n \in 0 .. Len(w)
  PROVE  (d \o SubSeq(w, 1, n)) \o SubSeq(w, n + 1, Len(w)) = d \o w
<1>1. Len(w) \in Nat
  BY LenProperties
<1>2. SubSeq(w, 1, n) \o SubSeq(w, n + 1, Len(w)) = SubSeq(w, 1, Len(w))
  <2>1. 1 \in 1 .. Len(w) + 1 /\ n \in 1 - 1 .. Len(w) /\ Len(w) \in n .. Len(w)
    BY <1>1
  <2> QED
    BY <2>1, ConcatAdjacentSubSeq, Zenon
<1>3. SubSeq(w, 1, Len(w)) = w
  BY SubSeqFull
<1>4. SubSeq(w, 1, n) \in Seq(Byte) /\ SubSeq(w, n + 1, Len(w)) \in Seq(Byte)
  BY PrefixTyped
<1>5. (d \o SubSeq(w, 1, n)) \o SubSeq(w, n + 1, Len(w))
        = d \o (SubSeq(w, 1, n) \o SubSeq(w, n + 1, Len(w)))
  BY <1>4, Regroup
<1> QED
  BY <1>2, <1>3, <1>5

\* Two ways to cut the same bytes at one place have the same parts.
LEMMA SameCut ==
  ASSUME NEW a \in Seq(Byte), NEW b \in Seq(Byte), NEW c \in Seq(Byte),
         NEW d \in Seq(Byte), a \o b = c \o d, Len(a) = Len(c)
  PROVE  a = c /\ b = d
<1>1. a = c
  <2>1. \A i \in 1 .. Len(a) : a[i] = (a \o b)[i] /\ c[i] = (c \o d)[i]
    BY ConcatProperties, LenProperties
  <2> QED
    BY <2>1, SeqEqual
<1>2. \A s, t, v \in Seq(Byte) : s \o t = s \o v => t = v
  BY ConcatSimplifications
<1> QED
  BY <1>1, <1>2

-----------------------------------------------------------------------------
(***************************************************************************)
(* The format: a header has four bytes, and says what it was written with. *)
(***************************************************************************)
HeadOf(f) == host_to_network_short(f.msg_id) \o host_to_network_short(f.len)

\* What lies between two integers.
LEMMA IntervalRange ==
  \A a, b \in Int : \A n \in a .. b : n \in Int /\ a <= n /\ n <= b
OBVIOUS

\* The range of a short.
LEMMA ShortRange == \A n \in Short : n \in Int /\ -32768 <= n /\ n <= 32767
<1> DEFINE least == -32768
<1>1. least \in Int /\ Short = least .. 32767
  BY DEF Short
<1> HIDE DEF least
<1>2. \A n \in Short : n \in Int /\ least <= n /\ n <= 32767
  BY <1>1, IntervalRange
<1> QED
  BY <1>2 DEF least

\* A short in network order is two bytes, and is read back as it was.
LEMMA ShortBytes ==
  ASSUME NEW n \in Short
  PROVE  \E hi, lo \in Byte :
           /\ host_to_network_short(n) = <<hi, lo>>
           /\ network_to_host_short(<<hi, lo>>) = n
<1>1. n \in Int /\ n >= -32768 /\ n <= 32767
  BY ShortRange
<1> DEFINE u == unsigned_short(n)
           hi == u \div 256
           lo == u % 256
<1>2. u \in Nat /\ u <= 65535 /\ n = IF u <= 32767 THEN u ELSE u - 65536
  BY <1>1 DEF unsigned_short
<1>3. host_to_network_short(n) = <<hi, lo>>
  BY DEF host_to_network_short
<1> HIDE DEF u
<1>4. hi \in Byte
  BY <1>2 DEF Byte
<1>5. lo \in Byte
  BY <1>2 DEF Byte
<1>6. hi * 256 + lo = u
  BY <1>2
<1> HIDE DEF hi, lo
<1>7. network_to_host_short(<<hi, lo>>)
        = IF hi * 256 + lo <= 32767 THEN hi * 256 + lo
                                    ELSE (hi * 256 + lo) - 65536
  BY DEF network_to_host_short
<1>8. network_to_host_short(<<hi, lo>>) = n
  BY <1>2, <1>6, <1>7
<1> QED
  BY <1>3, <1>4, <1>5, <1>8

LEMMA HeadBytes ==
  ASSUME NEW f \in Frame
  PROVE  /\ HeadOf(f) \in Seq(Byte) /\ Len(HeadOf(f)) = HEAD_TOTAL_LEN
         /\ HeadId(HeadOf(f)) = f.msg_id /\ HeadLen(HeadOf(f)) = f.len
<1>1. f.msg_id \in Short /\ f.len \in Short
  BY DEF Frame
<1>2. PICK a, b \in Byte :
        /\ host_to_network_short(f.msg_id) = <<a, b>>
        /\ network_to_host_short(<<a, b>>) = f.msg_id
  BY <1>1, ShortBytes
<1>3. PICK c, d \in Byte :
        /\ host_to_network_short(f.len) = <<c, d>>
        /\ network_to_host_short(<<c, d>>) = f.len
  BY <1>1, ShortBytes
<1>4. HeadOf(f) = <<a, b>> \o <<c, d>>
  BY <1>2, <1>3 DEF HeadOf
<1>5. /\ <<a, b>> \in Seq(Byte) /\ <<c, d>> \in Seq(Byte)
      /\ Len(<<a, b>>) = 2 /\ Len(<<c, d>>) = 2
      /\ <<a, b>>[1] = a /\ <<a, b>>[2] = b /\ <<c, d>>[1] = c /\ <<c, d>>[2] = d
  OBVIOUS
<1> DEFINE h == HeadOf(f)
<1>6. /\ h \in Seq(Byte) /\ Len(h) = 4
      /\ \A i \in 1 .. 4 : h[i] = IF i <= 2 THEN <<a, b>>[i] ELSE <<c, d>>[i - 2]
  BY <1>4, <1>5, ConcatProperties
<1>7. h[1] = a /\ h[2] = b /\ h[3] = c /\ h[4] = d
  BY <1>5, <1>6
<1> HIDE DEF h
<1>8. /\ Memory(h, 0, 2) = [i \in 1 .. 2 |-> h[i]]
      /\ Memory(h, 2, 2) = [i \in 1 .. 2 |-> h[2 + i]]
  BY <1>6 DEF Memory
<1>9. Memory(h, 0, 2) = <<a, b>> /\ Memory(h, 2, 2) = <<c, d>>
  BY <1>7, <1>8
<1>10. HeadId(h) = f.msg_id /\ HeadLen(h) = f.len
  BY <1>2, <1>3, <1>9 DEF HeadId, HeadLen, HEAD_ID_LEN
<1> QED
  BY <1>6, <1>10 DEF h, HEAD_TOTAL_LEN

LEMMA EncodeTyped ==
  ASSUME NEW f \in Frame
  PROVE  /\ Encode(f) \in Seq(Byte) /\ f.body \in Seq(Byte)
         /\ Encode(f) = HeadOf(f) \o f.body
<1>1. f.body \in Seq(Byte)
  BY DEF Frame
<1>2. Encode(f) = HeadOf(f) \o f.body
  BY DEF Encode, HeadOf
<1>3. HeadOf(f) \in Seq(Byte)
  BY HeadBytes
<1> QED
  BY <1>1, <1>2, <1>3, ConcatProperties

-----------------------------------------------------------------------------
(***************************************************************************)
(* Carries: nothing carries no frame, a frame is added at the end, and     *)
(* taken from the front.                                                   *)
(***************************************************************************)
LEMMA CarriesNothing ==
  ASSUME NEW q \in Seq(Frame)
  PROVE  Carries(<< >>, q, Len(q) + 1)
<1> DEFINE rest == [j \in 1 .. Len(q) + 1 |-> << >>]
<1>1. Len(q) \in Nat /\ << >> \in Seq(Byte)
  BY LenProperties
<1>2. /\ rest \in [1 .. Len(q) + 1 -> Seq(Byte)]
      /\ rest[Len(q) + 1] = << >>
      /\ \A j \in Len(q) + 1 .. Len(q) : FALSE
  BY <1>1
<1> QED
  BY <1>2 DEF Carries

LEMMA CarriesMore ==
  ASSUME NEW q \in Seq(Frame), NEW i \in 1 .. Len(q) + 1, NEW f \in Frame,
         NEW s \in Seq(Byte), Carries(s, q, i)
  PROVE  Carries(s \o Encode(f), Append(q, f), i)
<1> DEFINE p == Append(q, f)
<1>1. /\ Len(q) \in Nat /\ Len(p) \in Nat
      /\ Len(p) = Len(q) + 1 /\ p[Len(q) + 1] = f
      /\ \A j \in 1 .. Len(q) : p[j] = q[j] /\ q[j] \in Frame
  BY AppendProperties, LenProperties, ElementOfSeq
<1>2. PICK rest \in [1 .. Len(q) + 1 -> Seq(Byte)] :
        /\ rest[i] = s /\ rest[Len(q) + 1] = << >>
        /\ \A j \in i .. Len(q) : rest[j] = Encode(q[j]) \o rest[j + 1]
  BY DEF Carries
<1> DEFINE more == [j \in 1 .. Len(p) + 1 |->
                      IF j = Len(p) + 1 THEN << >> ELSE rest[j] \o Encode(f)]
<1>3. Encode(f) \in Seq(Byte) /\ << >> \in Seq(Byte)
  BY EncodeTyped
<1>4. \A j \in 1 .. Len(q) + 1 : rest[j] \o Encode(f) \in Seq(Byte)
  BY <1>3, ConcatProperties
<1>5. more \in [1 .. Len(p) + 1 -> Seq(Byte)]
  BY <1>1, <1>3, <1>4
<1>6. more[i] = s \o Encode(f) /\ more[Len(p) + 1] = << >>
  BY <1>1, <1>2
<1>7. ASSUME NEW j \in i .. Len(p)
      PROVE  more[j] = Encode(p[j]) \o more[j + 1]
  <2>1. CASE j = Len(p)
    <3>1. j \in 1 .. Len(p) + 1 /\ j + 1 \in 1 .. Len(p) + 1
          /\ j # Len(p) + 1 /\ j + 1 = Len(p) + 1 /\ j = Len(q) + 1
      BY <1>1, <2>1
    <3>2. more[j] = << >> \o Encode(f) /\ more[j + 1] = << >>
      BY <1>2, <3>1
    <3>3. << >> \o Encode(f) = Encode(f) /\ Encode(f) \o << >> = Encode(f)
      BY <1>3, ConcatEmptySeq
    <3>4. p[j] = f
      BY <1>1, <3>1
    <3> QED
      BY <3>2, <3>3, <3>4
  <2>2. CASE j # Len(p)
    <3>1. j \in i .. Len(q) /\ j \in 1 .. Len(q) /\ j + 1 \in 1 .. Len(q) + 1
      BY <1>1, <2>2
    <3>2. more[j] = rest[j] \o Encode(f) /\ more[j + 1] = rest[j + 1] \o Encode(f)
      BY <1>1, <3>1
    <3>3. rest[j] = Encode(q[j]) \o rest[j + 1] /\ p[j] = q[j]
      BY <1>1, <1>2, <3>1
    <3>4. Encode(q[j]) \in Seq(Byte) /\ rest[j + 1] \in Seq(Byte)
      BY <1>1, <3>1, EncodeTyped
    <3>5. (Encode(q[j]) \o rest[j + 1]) \o Encode(f)
            = Encode(q[j]) \o (rest[j + 1] \o Encode(f))
      <4> DEFINE a == Encode(q[j])
                 b == rest[j + 1]
                 c == Encode(f)
      <4>1. a \in Seq(Byte) /\ b \in Seq(Byte) /\ c \in Seq(Byte)
        BY <1>3, <3>4
      <4> HIDE DEF a, b, c
      <4>2. (a \o b) \o c = a \o (b \o c)
        BY <4>1, Regroup
      <4> QED
        BY <4>2 DEF a, b, c
    <3> QED
      BY <3>2, <3>3, <3>5
  <2> QED
    BY <2>1, <2>2
<1> HIDE DEF more
<1> QED
  BY <1>5, <1>6, <1>7 DEF Carries

LEMMA CarriesFront ==
  ASSUME NEW q \in Seq(Frame), NEW i \in 1 .. Len(q) + 1,
         NEW s \in Seq(Byte), Carries(s, q, i)
  PROVE  /\ i = Len(q) + 1 => s = << >>
         /\ i \in 1 .. Len(q) =>
              \E r \in Seq(Byte) :
                s = HeadOf(q[i]) \o (q[i].body \o r) /\ Carries(r, q, i + 1)
<1>1. PICK rest \in [1 .. Len(q) + 1 -> Seq(Byte)] :
        /\ rest[i] = s /\ rest[Len(q) + 1] = << >>
        /\ \A j \in i .. Len(q) : rest[j] = Encode(q[j]) \o rest[j + 1]
  BY DEF Carries
<1>2. Len(q) \in Nat
  BY LenProperties
<1>3. ASSUME i \in 1 .. Len(q)
      PROVE  \E r \in Seq(Byte) :
               s = HeadOf(q[i]) \o (q[i].body \o r) /\ Carries(r, q, i + 1)
  <2> DEFINE r == rest[i + 1]
  <2>1. /\ i + 1 \in 1 .. Len(q) + 1 /\ i \in i .. Len(q)
        /\ \A j \in i + 1 .. Len(q) : j \in i .. Len(q)
    BY <1>2, <1>3
  <2>2. r \in Seq(Byte) /\ s = Encode(q[i]) \o r
    BY <1>1, <2>1
  <2>3. Carries(r, q, i + 1)
    BY <1>1, <2>1 DEF Carries
  <2>4. q[i] \in Frame
    BY <1>3, ElementOfSeq
  <2>5. HeadOf(q[i]) \in Seq(Byte) /\ q[i].body \in Seq(Byte)
    BY <2>4, EncodeTyped, HeadBytes
  <2>6. (HeadOf(q[i]) \o q[i].body) \o r = HeadOf(q[i]) \o (q[i].body \o r)
    <3> DEFINE a == HeadOf(q[i])
               b == q[i].body
    <3>1. a \in Seq(Byte) /\ b \in Seq(Byte) /\ r \in Seq(Byte)
      BY <2>2, <2>5
    <3> HIDE DEF a, b, r
    <3>2. (a \o b) \o r = a \o (b \o r)
      BY <3>1, Regroup
    <3> QED
      BY <3>2 DEF a, b
  <2> QED
    BY <2>2, <2>3, <2>4, <2>6, EncodeTyped
<1> QED
  BY <1>1, <1>3

-----------------------------------------------------------------------------
(***************************************************************************)
(* What a read does.                                                       *)
(***************************************************************************)
LEMMA Lengths ==
  ASSUME Inv
  PROVE  /\ Len(handled) \in Nat /\ Len(msg_que) \in Nat /\ Posted \in Nat
         /\ Len(nodes) \in Nat /\ Len(sent) \in Nat
         /\ Len(data) \in Nat /\ Len(wire) \in Nat
         /\ Frames \subseteq Frame /\ sent \in Seq(Frame)
         /\ \A i \in 1 .. Len(sent) :
              /\ sent[i] \in Frame
              /\ sent[i].len \in 0 .. MAX_LENGTH =>
                   Len(sent[i].body) = sent[i].len
<1>1. Frames \subseteq Frame
  BY CSessionReadAssumption
<1>2. \A i \in 1 .. Len(sent) : sent[i] \in Frames
  BY ElementOfSeq DEF Inv, TypeOK
<1>3. sent \in Seq(Frame)
  BY <1>1, SeqMonotonic DEF Inv, TypeOK
<1>4. /\ Len(handled) \in Nat /\ Len(msg_que) \in Nat
      /\ Len(nodes) \in Nat /\ Len(sent) \in Nat
      /\ Len(data) \in Nat /\ Len(wire) \in Nat
  BY LenProperties DEF Inv, TypeOK
<1> QED
  BY <1>1, <1>2, <1>3, <1>4, CSessionReadAssumption DEF Posted

\* A read of n bytes moves them from the stream to _data, as many as fit.
LEMMA ReadMoves ==
  ASSUME Inv, NEW n \in ReadSize, ReadSome(n)
  PROVE  /\ total_len \in Nat /\ n \in Nat /\ n <= Len(wire)
         /\ Fill(n) \in Seq(Byte) /\ Len(Fill(n)) = Len(data) + n
         /\ Len(Fill(n)) <= total_len
         /\ wire' \in Seq(Byte)
         /\ Fill(n) \o wire' = data \o wire
<1>1. /\ data \in Seq(Byte) /\ wire \in Seq(Byte) /\ n \in 0 .. Len(wire)
      /\ Len(wire) \in Nat /\ Len(data) \in Nat /\ total_len \in Nat
      /\ n <= total_len - Len(data)
  BY Lengths, CSessionReadAssumption DEF Inv, TypeOK, ReadSize, ReadSome
<1>2. /\ SubSeq(wire, 1, n) \in Seq(Byte) /\ Len(SubSeq(wire, 1, n)) = n
      /\ SubSeq(wire, n + 1, Len(wire)) \in Seq(Byte)
      /\ (data \o SubSeq(wire, 1, n)) \o SubSeq(wire, n + 1, Len(wire))
           = data \o wire
  BY <1>1, PrefixTyped, MoveBytes
<1>3. wire' = SubSeq(wire, n + 1, Len(wire))
  BY DEF ReadSome
<1>4. Fill(n) = data \o SubSeq(wire, 1, n)
  BY DEF Fill
<1>5. Fill(n) \in Seq(Byte) /\ Len(Fill(n)) = Len(data) + n
  BY <1>1, <1>2, <1>4, ConcatProperties
<1>6. Fill(n) \o wire' = data \o wire
  BY <1>2, <1>3, <1>4
<1>7. total_len \in Nat /\ n \in Nat /\ n <= Len(wire) /\ Len(data) + n <= total_len
  BY <1>1
<1> QED
  BY <1>2, <1>3, <1>5, <1>6, <1>7

\* After a reset only a read of nothing completes.
LEMMA ReadAfterReset ==
  ASSUME Inv, NEW n \in ReadSize, ReadSome(n), peer = "reset"
  PROVE  n = 0 /\ total_len = 0 /\ wire' = << >>
<1>1. wire = << >> /\ Len(wire) = 0
  BY EmptySeq DEF Inv, LostAtReset
<1>2. n = 0
  BY <1>1 DEF ReadSize
<1> QED
  BY <1>1, <1>2, SubSeqEmpty DEF ReadSome

\* A complete header is that of the next frame; its body and the frames
\* after it are to be read.
LEMMA HeadIsNext ==
  ASSUME Inv, NEW n \in ReadSize, ReadSome(n), step = "head", Completes(n)
  PROVE  /\ Posted < Len(sent) /\ peer # "reset"
         /\ Fill(n) = HeadOf(sent[Posted + 1])
         /\ \E r \in Seq(Byte) :
              /\ wire' = sent[Posted + 1].body \o r
              /\ Carries(r, sent, Posted + 2)
<1>1. /\ total_len = HEAD_TOTAL_LEN /\ HEAD_TOTAL_LEN = 4
      /\ Posted <= Len(sent)
  BY DEF Inv, AtHead, PostedAsSent, HEAD_TOTAL_LEN
<1>2. peer # "reset"
  BY <1>1, ReadAfterReset
<1>3. Carries(data \o wire, sent, Posted + 1)
  BY <1>2 DEF Inv, AtHead
<1>4. /\ Fill(n) \in Seq(Byte) /\ wire' \in Seq(Byte)
      /\ Fill(n) \o wire' = data \o wire
  BY ReadMoves
<1>5. Len(Fill(n)) = 4
  <2>1. /\ Len(Fill(n)) = Len(data) + n /\ Len(Fill(n)) <= 4
        /\ Len(data) + n >= 4 /\ Len(data) + n \in Nat
    BY <1>1, ReadMoves, Lengths DEF Completes
  <2> QED
    BY <2>1
<1>6. data \o wire \in Seq(Byte) /\ Len(data \o wire) = 4 + Len(wire')
  <2>1. /\ Fill(n) \o wire' \in Seq(Byte)
        /\ Len(Fill(n) \o wire') = Len(Fill(n)) + Len(wire')
    BY <1>4, ConcatProperties
  <2> QED
    BY <1>4, <1>5, <2>1
<1>7. data \o wire # << >>
  <2>1. Len(wire') \in Nat
    BY <1>4, LenProperties
  <2> QED
    BY <1>6, <2>1, EmptySeq
<1>8. /\ sent \in Seq(Frame) /\ Posted + 1 \in 1 .. Len(sent) + 1
      /\ Posted \in Nat /\ Len(sent) \in Nat
  BY <1>1, Lengths
<1>9. Posted + 1 # Len(sent) + 1
  BY <1>3, <1>6, <1>7, <1>8, CarriesFront
<1>10. Posted + 1 \in 1 .. Len(sent) /\ (Posted + 1) + 1 = Posted + 2
  BY <1>8, <1>9
<1> DEFINE f == sent[Posted + 1]
<1>11. PICK r \in Seq(Byte) :
        data \o wire = HeadOf(f) \o (f.body \o r) /\ Carries(r, sent, Posted + 2)
  BY <1>3, <1>6, <1>8, <1>10, CarriesFront
<1>12. /\ HeadOf(f) \in Seq(Byte) /\ Len(HeadOf(f)) = 4
       /\ f.body \in Seq(Byte)
  BY <1>1, <1>10, Lengths, HeadBytes, EncodeTyped
<1> DEFINE next == f.body \o r
<1>13. next \in Seq(Byte)
  BY <1>12, ConcatProperties
<1>14. Fill(n) \o wire' = HeadOf(f) \o next
  BY <1>4, <1>11
<1>15. Fill(n) = HeadOf(f) /\ wire' = next
  <2> HIDE DEF next
  <2>1. Len(Fill(n)) = Len(HeadOf(f))
    BY <1>5, <1>12
  <2> QED
    BY <1>4, <1>12, <1>13, <1>14, <2>1, SameCut
<1>16. Posted < Len(sent)
  BY <1>8, <1>9
<1> QED
  BY <1>2, <1>11, <1>15, <1>16

\* A complete body is that of the next frame; the frames after it are to be
\* read.
LEMMA BodyIsNext ==
  ASSUME Inv, NEW n \in ReadSize, ReadSome(n), step = "body", Completes(n)
  PROVE  /\ Fill(n) = sent[Posted + 1].body /\ Len(Fill(n)) = total_len
         /\ peer = "reset" => wire' = << >>
         /\ peer # "reset" => Carries(wire', sent, Posted + 2)
<1> DEFINE f == sent[Posted + 1]
<1>1. /\ Posted < Len(sent) /\ f.len \in 0 .. MAX_LENGTH /\ total_len = f.len
      /\ data = << >> \/ Len(data) < total_len
  <2>1. /\ Posted < Len(sent) /\ f.len \in -1 .. MAX_LENGTH
        /\ total_len = size_t(f.len) /\ total_len # SIZE_MAX
        /\ total_len # SIZE_MAX => data = << >> \/ Len(data) < total_len
    BY DEF Inv, AtBody, Completes
  <2>2. f.len \in 0 .. MAX_LENGTH /\ total_len = f.len
    BY <2>1, CSessionReadAssumption DEF size_t
  <2> QED
    BY <2>1, <2>2
<1>2. Posted + 1 \in 1 .. Len(sent)
  BY <1>1, Lengths
<1>3. f \in Frame /\ f.body \in Seq(Byte) /\ Len(f.body) = total_len
  BY <1>1, <1>2, Lengths, EncodeTyped
<1>4. /\ Fill(n) \in Seq(Byte) /\ wire' \in Seq(Byte)
      /\ Fill(n) \o wire' = data \o wire
  BY ReadMoves
<1>5. Len(Fill(n)) = total_len
  <2>1. /\ Len(Fill(n)) = Len(data) + n /\ Len(Fill(n)) <= total_len
        /\ Len(data) + n >= total_len
        /\ Len(data) + n \in Nat /\ total_len \in Nat
    BY <1>3, ReadMoves, Lengths, LenProperties DEF Completes
  <2> QED
    BY <2>1
<1>6. Fill(n) \o wire' = data \o wire /\ Len(Fill(n)) = total_len
  BY <1>4, <1>5
<1>7. CASE peer = "reset"
  <2>1. total_len = 0 /\ wire' = << >>
    BY <1>7, ReadAfterReset
  <2>2. Fill(n) = << >> /\ f.body = << >>
    BY <1>3, <1>4, <1>5, <2>1, EmptySeq
  <2> QED
    BY <1>6, <1>7, <2>1, <2>2
<1>8. CASE peer # "reset"
  <2>1. PICK r \in Seq(Byte) :
          data \o wire = f.body \o r /\ Carries(r, sent, Posted + 2)
    BY <1>8 DEF Inv, AtBody
  <2>2. Fill(n) \o wire' = f.body \o r /\ Len(Fill(n)) = Len(f.body)
    BY <1>3, <1>4, <1>5, <2>1
  <2>3. Fill(n) = f.body /\ wire' = r
    BY <1>3, <1>4, <2>2, SameCut
  <2> QED
    BY <1>6, <1>8, <2>1, <2>3
<1> QED
  BY <1>7, <1>8

\* memcpy of everything that was read.
LEMMA MemoryOfAll ==
  ASSUME NEW d \in Seq(Byte)
  PROVE  Memory(d, 0, Len(d)) = d
<1>1. Len(d) \in Nat /\ d = [i \in 1 .. Len(d) |-> d[i]]
  BY LenProperties
<1>2. \A i \in 1 .. Len(d) : 0 + i = i /\ i <= Len(d)
  BY <1>1
<1> QED
  BY <1>1, <1>2 DEF Memory

-----------------------------------------------------------------------------
(***************************************************************************)
(* The invariant holds at first, and every step keeps it.                  *)
(***************************************************************************)
LEMMA InitInv == Init => Inv
<1> SUFFICES ASSUME Init PROVE Inv
  OBVIOUS
<1>1. /\ << >> \in Seq(Frames) /\ << >> \in Seq(Byte) /\ << >> \in Seq(Frame)
      /\ << >> \in Seq(1 .. Len(nodes)) /\ Len(<< >>) = 0
  BY EmptySeq
<1>2. Posted = 0 /\ Len(sent) = 0 /\ Len(nodes) = 0 /\ Len(data) = 0
  BY <1>1 DEF Init, Posted
<1>3. TypeOK
  <2>1. total_len \in 0 .. MAX_LENGTH /\ Len(data) <= total_len
    BY <1>2, CSessionReadAssumption DEF Init, HEAD_TOTAL_LEN
  <2> QED
    BY <1>1, <2>1 DEF Init, TypeOK
<1>4. Carries(data \o wire, sent, Posted + 1)
  <2>1. Carries(<< >>, << >>, Len(<< >>) + 1)
    BY <1>1, CarriesNothing
  <2>2. << >> \o << >> = << >>
    BY <1>1, ConcatEmptySeq
  <2> QED
    BY <1>1, <1>2, <2>1, <2>2 DEF Init
<1>5. QueuedInOrder /\ PostedAsSent
  BY <1>1, <1>2 DEF Init, QueuedInOrder, PostedAsSent
<1>6. LostAtReset /\ AtHead /\ AtBody
  BY <1>2, <1>4 DEF Init, LostAtReset, AtHead, AtBody, HEAD_TOTAL_LEN
<1> QED
  BY <1>3, <1>5, <1>6 DEF Inv

\* The client writes a frame: the stream carries it after the others.
LEMMA SendFrameInv ==
  ASSUME Inv, NEW f \in Frames, SendFrame(f)
  PROVE  Inv'
<1>1. /\ peer = "open" /\ sent' = Append(sent, f) /\ wire' = wire \o Encode(f)
      /\ UNCHANGED <<peer, step, total_len, data, nodes, in_sessions, b_close,
                     msg_que, handled, bound>>
  BY DEF SendFrame, session, logic
<1>2. /\ f \in Frame /\ Encode(f) \in Seq(Byte)
      /\ data \in Seq(Byte) /\ wire \in Seq(Byte) /\ sent \in Seq(Frames)
      /\ Posted \in Nat /\ sent \in Seq(Frame)
  BY CSessionReadAssumption, EncodeTyped, Lengths DEF Inv, TypeOK
<1>3. /\ sent' \in Seq(Frames) /\ Len(sent') = Len(sent) + 1
      /\ \A i \in 1 .. Len(sent) : sent'[i] = sent[i]
  BY <1>1, <1>2, AppendProperties
<1>4. wire' \in Seq(Byte) /\ data \o wire \in Seq(Byte)
  BY <1>1, <1>2, ConcatProperties
<1>5. Posted' = Posted
  BY <1>1 DEF Posted
<1>6. TypeOK'
  BY <1>1, <1>3, <1>4 DEF Inv, TypeOK
<1>7. QueuedInOrder' /\ PostedAsSent'
  <2>1. Posted <= Len(sent) /\ Len(handled) <= Posted
    BY Lengths DEF Inv, PostedAsSent, Posted
  <2>2. \A i \in 1 .. Posted : i \in 1 .. Len(sent)
    BY <2>1, Lengths
  <2>3. \A i \in 1 .. Len(handled) : i \in 1 .. Len(sent)
    BY <2>1, Lengths
  <2>4. Posted <= Len(sent')
    BY <1>3, <2>1, Lengths
  <2>5. QueuedInOrder'
    BY <1>1, <1>5 DEF Inv, QueuedInOrder
  <2> QED
    BY <1>1, <1>3, <1>5, <2>2, <2>3, <2>4, <2>5 DEF Inv, PostedAsSent
<1>8. data' \o wire' = (data \o wire) \o Encode(f)
  BY <1>1, <1>2, Regroup
<1>9. AtHead'
  <2> SUFFICES ASSUME step = "head"
               PROVE  /\ Len(nodes) = Posted
                      /\ total_len = HEAD_TOTAL_LEN /\ Len(data) < total_len
                      /\ Carries(data' \o wire', sent', Posted + 1)
    BY <1>1, <1>5 DEF AtHead
  <2>1. Posted + 1 \in 1 .. Len(sent) + 1
    BY Lengths DEF Inv, PostedAsSent
  <2>2. Carries(data \o wire, sent, Posted + 1)
    BY <1>1 DEF Inv, AtHead
  <2>3. Carries((data \o wire) \o Encode(f), Append(sent, f), Posted + 1)
    BY <1>2, <1>4, <2>1, <2>2, CarriesMore
  <2> QED
    BY <1>1, <1>8, <2>3 DEF Inv, AtHead
<1>10. AtBody'
  <2> SUFFICES ASSUME step = "body" PROVE AtBody'
    BY <1>1 DEF AtBody
  <2> DEFINE g == sent[Posted + 1]
  <2>1. Posted < Len(sent) /\ Posted \in Nat /\ Len(sent) \in Nat
    <3>1. Posted < Len(sent)
      BY DEF Inv, AtBody
    <3> QED
      BY <3>1, Lengths
  <2>2. Posted + 1 \in 1 .. Len(sent) /\ Posted + 2 \in 1 .. Len(sent) + 1
    BY <2>1
  <2>3. sent'[Posted + 1] = g /\ g.body \in Seq(Byte) /\ Posted < Len(sent')
    <3>1. sent'[Posted + 1] = g /\ Posted < Len(sent')
      BY <1>3, <2>1, <2>2
    <3>2. g \in Frame
      BY <2>2, Lengths
    <3> QED
      BY <3>1, <3>2, EncodeTyped
  <2>4. PICK r \in Seq(Byte) :
          data \o wire = g.body \o r /\ Carries(r, sent, Posted + 2)
    BY <1>1 DEF Inv, AtBody
  <2>5. Carries(r \o Encode(f), sent', Posted + 2)
    BY <1>1, <1>2, <2>2, <2>4, CarriesMore
  <2>6. r \o Encode(f) \in Seq(Byte)
    BY <1>2, <2>4, ConcatProperties
  <2> DEFINE b == g.body
  <2>7. b \in Seq(Byte) /\ (b \o r) \o Encode(f) = b \o (r \o Encode(f))
    <3> DEFINE c == Encode(f)
    <3>1. b \in Seq(Byte) /\ r \in Seq(Byte) /\ c \in Seq(Byte)
      BY <1>2, <2>3, <2>4
    <3> HIDE DEF b, c
    <3>2. (b \o r) \o c = b \o (r \o c)
      BY <3>1, Regroup
    <3> QED
      BY <3>1, <3>2 DEF c
  <2>8. data' \o wire' = g.body \o (r \o Encode(f))
    BY <1>8, <2>4, <2>7
  <2>9. /\ Len(nodes) = Posted + 1
        /\ nodes[Posted + 1] = RecvNode(g.msg_id, g.len)
        /\ g.len \in -1 .. MAX_LENGTH /\ total_len = size_t(g.len)
        /\ total_len # SIZE_MAX => data = << >> \/ Len(data) < total_len
    BY DEF Inv, AtBody
  <2> QED
    BY <1>1, <1>5, <2>3, <2>5, <2>6, <2>8, <2>9 DEF AtBody
<1>11. LostAtReset'
  BY <1>1 DEF LostAtReset
<1> QED
  BY <1>6, <1>7, <1>9, <1>10, <1>11 DEF Inv

\* The client ends, in either way: only what was not read can get lost.
LEMMA EndInv ==
  ASSUME Inv, Finish \/ Reset
  PROVE  Inv'
<1>1. /\ peer = "open" /\ peer' \in {"finished", "reset"}
      /\ peer' = "reset" => wire' = << >>
      /\ peer' # "reset" => wire' = wire
      /\ UNCHANGED <<sent, step, total_len, data, nodes, in_sessions, b_close,
                     msg_que, handled, bound>>
  BY DEF Finish, Reset, session, logic
<1>2. wire' \in Seq(Byte)
  BY <1>1, EmptySeq DEF Inv, TypeOK
<1>3. Posted' = Posted
  BY <1>1 DEF Posted
<1>4. TypeOK'
  BY <1>1, <1>2 DEF Inv, TypeOK
<1>5. QueuedInOrder' /\ PostedAsSent' /\ LostAtReset'
  BY <1>1, <1>3 DEF Inv, QueuedInOrder, PostedAsSent, LostAtReset
<1>6. AtHead'
  BY <1>1, <1>3 DEF Inv, AtHead
<1>7. AtBody'
  BY <1>1, <1>3 DEF Inv, AtBody
<1> QED
  BY <1>4, <1>5, <1>6, <1>7 DEF Inv

\* A part of a header or body: nothing but bytes has moved.
LEMMA ReadPartInv ==
  ASSUME Inv, NEW n \in ReadSize, ReadPart(n)
  PROVE  Inv'
<1>1. /\ ReadSome(n) /\ ~Completes(n) /\ data' = Fill(n)
      /\ UNCHANGED <<sent, peer, step, total_len, nodes, in_sessions, b_close,
                     msg_que, handled, bound>>
  BY DEF ReadPart, client, session, logic
<1>2. /\ data' \in Seq(Byte) /\ wire' \in Seq(Byte)
      /\ data' \o wire' = data \o wire
  BY <1>1, ReadMoves
<1>3. /\ Len(data') <= total_len
      /\ total_len # SIZE_MAX => Len(data') < total_len
  <2>1. /\ Len(data') = Len(data) + n /\ Len(data') <= total_len
        /\ total_len # SIZE_MAX => ~(Len(data) + n >= total_len)
    BY <1>1, ReadMoves DEF Completes
  <2>2. Len(data) + n \in Nat /\ total_len \in Nat
    BY <1>1, ReadMoves, Lengths
  <2> QED
    BY <2>1, <2>2
<1>4. Posted' = Posted
  BY <1>1 DEF Posted
<1>5. Len(data') \in Nat /\ total_len \in Nat
  BY <1>1, <1>2, ReadMoves, LenProperties
<1>6. TypeOK'
  BY <1>1, <1>2, <1>3, <1>5 DEF Inv, TypeOK
<1>7. QueuedInOrder' /\ PostedAsSent'
  BY <1>1, <1>4 DEF Inv, QueuedInOrder, PostedAsSent
<1>8. LostAtReset'
  BY <1>1, ReadAfterReset DEF LostAtReset
<1>9. AtHead'
  <2>1. 4 # SIZE_MAX
    BY CSessionReadAssumption
  <2> QED
    BY <1>1, <1>2, <1>3, <1>4, <2>1 DEF Inv, AtHead, HEAD_TOTAL_LEN
<1>10. AtBody'
  BY <1>1, <1>2, <1>3, <1>4 DEF Inv, AtBody
<1> QED
  BY <1>6, <1>7, <1>8, <1>9, <1>10 DEF Inv

\* A header is accepted: the node has the id and the length of the next
\* frame.
LEMMA ReadHeadInv ==
  ASSUME Inv, NEW n \in ReadSize, ReadHead(n)
  PROVE  Inv'
<1> DEFINE f == sent[Posted + 1]
           node == RecvNode(f.msg_id, f.len)
<1>1. /\ step = "head" /\ ReadSome(n) /\ Completes(n)
      /\ ValidHead(Fill(n)) /\ ~NodeThrows(HeadLen(Fill(n)))
      /\ nodes' = Append(nodes, RecvNode(HeadId(Fill(n)), HeadLen(Fill(n))))
      /\ step' = "body" /\ total_len' = size_t(HeadLen(Fill(n)))
      /\ data' = << >>
      /\ UNCHANGED <<sent, peer, in_sessions, b_close, msg_que, handled, bound>>
  BY DEF ReadHead, asyncReadFull, client, logic
<1>2. Posted < Len(sent) /\ peer # "reset" /\ Fill(n) = HeadOf(f)
  BY <1>1, HeadIsNext
<1>3. PICK r \in Seq(Byte) : wire' = f.body \o r /\ Carries(r, sent, Posted + 2)
  BY <1>1, HeadIsNext
<1>4. f \in Frame
  <2>1. Posted + 1 \in 1 .. Len(sent)
    BY <1>2, Lengths
  <2> QED
    BY <2>1, Lengths
<1>5. HeadId(Fill(n)) = f.msg_id /\ HeadLen(Fill(n)) = f.len
  BY <1>2, <1>4, HeadBytes
<1>6. /\ nodes' = Append(nodes, node) /\ total_len' = size_t(f.len)
      /\ f.len <= MAX_LENGTH /\ ~(f.len + 1 < 0)
  BY <1>1, <1>5 DEF ValidHead, NodeThrows
<1>7. /\ node \in Frame /\ node.len = f.len
      /\ f.len \in -1 .. MAX_LENGTH /\ f.len <= 32767
  <2>1. f.msg_id \in Short /\ f.len \in Short
    BY <1>4 DEF Frame
  <2>2. << >> \in Seq(Byte)
    BY EmptySeq
  <2>3. node \in Frame /\ node.len = f.len
    BY <2>1, <2>2 DEF RecvNode, Frame
  <2>4. \A k \in Short : k \in Int /\ k <= 32767
    BY ShortRange
  <2>5. f.len \in Int /\ f.len <= 32767
    BY <2>1, <2>4
  <2>6. f.len \in -1 .. MAX_LENGTH
    BY <1>6, <2>5, CSessionReadAssumption
  <2> QED
    BY <2>3, <2>5, <2>6
<1> HIDE DEF node
<1>8. /\ nodes \in Seq(Frame) /\ nodes' \in Seq(Frame)
      /\ Len(nodes') = Len(nodes) + 1
      /\ \A i \in 1 .. Len(nodes) : nodes'[i] = nodes[i]
      /\ nodes'[Len(nodes) + 1] = node
  BY <1>6, <1>7, AppendProperties DEF Inv, TypeOK
<1>9. Posted' = Posted /\ Len(nodes) = Posted
  BY <1>1 DEF Inv, AtHead, Posted
<1>10. TypeOK'
  <2>1. 1 .. Len(nodes) \subseteq 1 .. Len(nodes')
    BY <1>8, Lengths
  <2>2. msg_que' \in Seq(1 .. Len(nodes'))
    BY <1>1, <2>1, SeqMonotonic DEF Inv, TypeOK
  <2>3. wire' \in Seq(Byte) /\ data' \in Seq(Byte) /\ Len(data') = 0
    BY <1>1, ReadMoves, EmptySeq
  <2>4. /\ total_len' \in Nat /\ Len(data') <= total_len'
        /\ \/ total_len' \in 0 .. MAX_LENGTH
           \/ total_len' = SIZE_MAX /\ f.len = -1
    BY <1>6, <1>7, <2>3, CSessionReadAssumption DEF size_t
  <2>5. nodes' # << >> /\ nodes'[Len(nodes')].len = f.len
    BY <1>7, <1>8, Lengths, EmptySeq
  <2> QED
    BY <1>1, <1>8, <2>2, <2>3, <2>4, <2>5 DEF Inv, TypeOK
<1>11. QueuedInOrder' /\ PostedAsSent'
  <2>1. \A i \in 1 .. Posted : nodes'[i] = nodes[i]
    BY <1>8, <1>9
  <2>2. Posted <= Len(nodes')
    BY <1>8, <1>9, Lengths
  <2> QED
    BY <1>1, <1>9, <2>1, <2>2 DEF Inv, QueuedInOrder, PostedAsSent
<1>12. LostAtReset' /\ AtHead'
  BY <1>1, <1>2 DEF LostAtReset, AtHead
<1>13. AtBody'
  <2>1. data' \o wire' = wire'
    BY <1>1, ReadMoves, ConcatEmptySeq
  <2>2. \E s \in Seq(Byte) :
          data' \o wire' = f.body \o s /\ Carries(s, sent, Posted + 2)
    BY <1>3, <2>1
  <2>3. /\ Len(nodes') = Posted + 1 /\ nodes'[Posted + 1] = node
        /\ f.len \in -1 .. MAX_LENGTH
    BY <1>7, <1>8, <1>9
  <2> HIDE DEF f
  <2> QED
    BY <1>1, <1>2, <1>6, <1>9, <2>2, <2>3 DEF AtBody, node, f
<1> QED
  BY <1>10, <1>11, <1>12, <1>13 DEF Inv

\* Reading ends, by a refused header, an exception, or by the end of the
\* stream: what was posted stays.
LEMMA StopInv ==
  ASSUME Inv,
         \/ ReadFails \/ ReadIsRefused
         \/ \E n \in ReadSize : RefuseHead(n) \/ ThrowHead(n)
  PROVE  Inv'
<1>1. /\ step' \in {"none", "thrown"} /\ in_sessions' \in BOOLEAN
      /\ b_close' \in BOOLEAN /\ bound' \in BOOLEAN
      /\ UNCHANGED <<sent, peer, total_len, data, nodes, msg_que, handled>>
  BY DEF Inv, TypeOK, ReadFails, ReadIsRefused, CloseAndClear, RefuseHead,
         ThrowHead, client, session, logic
<1>2. wire' \in Seq(Byte) /\ (peer = "reset" => wire' = << >>)
  BY ReadMoves, ReadAfterReset
     DEF ReadFails, ReadIsRefused, RefuseHead, ThrowHead, Inv, TypeOK, LostAtReset
<1>3. Posted' = Posted
  BY <1>1 DEF Posted
<1>4. TypeOK'
  BY <1>1, <1>2 DEF Inv, TypeOK
<1>5. QueuedInOrder' /\ PostedAsSent'
  BY <1>1, <1>3 DEF Inv, QueuedInOrder, PostedAsSent
<1>6. LostAtReset' /\ AtHead' /\ AtBody'
  BY <1>1, <1>2 DEF LostAtReset, AtHead, AtBody
<1> QED
  BY <1>4, <1>5, <1>6 DEF Inv

\* A body is complete: the node is the next frame, and is posted.
LEMMA ReadBodyInv ==
  ASSUME Inv, NEW n \in ReadSize, ReadBody(n)
  PROVE  Inv'
<1> DEFINE f == sent[Posted + 1]
<1>1. /\ step = "body" /\ ReadSome(n) /\ Completes(n)
      /\ nodes' = [nodes EXCEPT ![Len(nodes)].body = Memory(Fill(n), 0, total_len)]
      /\ msg_que' = Append(msg_que, Len(nodes))
      /\ step' = "head" /\ total_len' = HEAD_TOTAL_LEN /\ data' = << >>
      /\ UNCHANGED <<sent, peer, in_sessions, b_close, handled, bound>>
  BY DEF ReadBody, asyncReadFull, client
<1>2. /\ Fill(n) = f.body /\ Len(Fill(n)) = total_len
      /\ peer = "reset" => wire' = << >>
      /\ peer # "reset" => Carries(wire', sent, Posted + 2)
  BY <1>1, BodyIsNext
<1>3. /\ Posted < Len(sent) /\ Len(nodes) = Posted + 1
      /\ nodes[Posted + 1] = RecvNode(f.msg_id, f.len)
  BY <1>1 DEF Inv, AtBody
<1>4. /\ Posted \in Nat /\ Len(nodes) \in Nat /\ Len(sent) \in Nat
      /\ Len(nodes) \in 1 .. Len(nodes) /\ Posted + 1 \in 1 .. Len(sent)
  BY <1>3, Lengths
<1>5. f \in Frame /\ Fill(n) \in Seq(Byte) /\ wire' \in Seq(Byte)
  BY <1>1, <1>4, Lengths, ReadMoves
<1>6. Memory(Fill(n), 0, total_len) = f.body
  BY <1>2, <1>5, MemoryOfAll
<1>7. nodes' = [nodes EXCEPT ![Len(nodes)] = f]
  <2>1. nodes' = [nodes EXCEPT ![Len(nodes)].body = f.body]
    BY <1>1, <1>6
  <2>2. [RecvNode(f.msg_id, f.len) EXCEPT !.body = f.body] = f
    BY <1>5 DEF RecvNode, Frame
  <2>3. nodes[Len(nodes)] = RecvNode(f.msg_id, f.len)
    BY <1>3
  <2> HIDE DEF f
  <2> QED
    BY <2>1, <2>2, <2>3
<1>8. nodes \in Seq(Frame)
  BY DEF Inv, TypeOK
<1>9. /\ nodes' \in Seq(Frame) /\ Len(nodes') = Len(nodes)
      /\ \A i \in 1 .. Len(nodes) :
           nodes'[i] = IF i = Len(nodes) THEN f ELSE nodes[i]
  <2> HIDE DEF f
  <2> QED
    BY <1>4, <1>5, <1>7, <1>8, ExceptSeq
<1>10. /\ msg_que \in Seq(1 .. Len(nodes)) /\ msg_que' \in Seq(1 .. Len(nodes))
       /\ Len(msg_que') = Len(msg_que) + 1
       /\ \A i \in 1 .. Len(msg_que) : msg_que'[i] = msg_que[i]
       /\ msg_que'[Len(msg_que) + 1] = Len(nodes)
  <2>1. msg_que \in Seq(1 .. Len(nodes))
    BY DEF Inv, TypeOK
  <2> QED
    BY <1>1, <1>4, <2>1, AppendProperties
<1>11. Posted' = Posted + 1 /\ Len(nodes) = Len(handled) + Len(msg_que) + 1
  BY <1>1, <1>3, <1>10, Lengths DEF Posted
<1>12. TypeOK'
  <2>1. data' \in Seq(Byte) /\ Len(data') = 0
    BY <1>1, EmptySeq
  <2>2. total_len' \in 0 .. MAX_LENGTH /\ Len(data') <= total_len'
    BY <1>1, <2>1, CSessionReadAssumption DEF HEAD_TOTAL_LEN
  <2>3. msg_que' \in Seq(1 .. Len(nodes'))
    BY <1>9, <1>10
  <2> QED
    BY <1>1, <1>5, <1>9, <2>1, <2>2, <2>3 DEF Inv, TypeOK
<1>13. QueuedInOrder'
  <2>1. \A i \in 1 .. Len(msg_que) + 1 : i \in 1 .. Len(msg_que) \/ i = Len(msg_que) + 1
    BY Lengths
  <2>2. \A i \in 1 .. Len(msg_que') : msg_que'[i] = Len(handled) + i
    <3> SUFFICES ASSUME NEW i \in 1 .. Len(msg_que')
                 PROVE  msg_que'[i] = Len(handled) + i
      OBVIOUS
    <3>1. CASE i \in 1 .. Len(msg_que)
      BY <1>10, <3>1 DEF Inv, QueuedInOrder
    <3>2. CASE i = Len(msg_que) + 1
      BY <1>10, <1>11, <3>2, Lengths
    <3> QED
      BY <1>10, <2>1, <3>1, <3>2
  <2>3. Posted' <= Len(nodes')
    BY <1>3, <1>4, <1>9, <1>11
  <2> QED
    BY <1>1, <2>2, <2>3 DEF QueuedInOrder
<1>14. PostedAsSent'
  <2>1. \A i \in 1 .. Posted' : nodes'[i] = sent[i]
    <3> SUFFICES ASSUME NEW i \in 1 .. Posted' PROVE nodes'[i] = sent[i]
      OBVIOUS
    <3>1. CASE i = Posted + 1
      BY <1>3, <1>4, <1>9, <3>1
    <3>2. CASE i # Posted + 1
      <4>1. i \in 1 .. Posted /\ i \in 1 .. Len(nodes) /\ i # Len(nodes)
        BY <1>3, <1>4, <1>11, <3>2
      <4> QED
        BY <1>9, <4>1 DEF Inv, PostedAsSent
    <3> QED
      BY <3>1, <3>2
  <2>2. Posted' <= Len(sent)
    BY <1>3, <1>4, <1>11
  <2> QED
    BY <1>1, <2>1, <2>2 DEF Inv, PostedAsSent
<1>15. AtHead'
  <2>1. data' \o wire' = wire'
    BY <1>1, <1>5, ConcatEmptySeq
  <2>2. Posted' + 1 = Posted + 2 /\ Len(nodes') = Posted'
    BY <1>3, <1>4, <1>9, <1>11
  <2>3. Len(data') < total_len'
    BY <1>1, EmptySeq DEF HEAD_TOTAL_LEN
  <2> QED
    BY <1>1, <1>2, <2>1, <2>2, <2>3 DEF AtHead
<1>16. LostAtReset' /\ AtBody'
  BY <1>1, <1>2 DEF LostAtReset, AtBody
<1> QED
  BY <1>12, <1>13, <1>14, <1>15, <1>16 DEF Inv

\* The process dies: what was queued is lost with the connection.
LEMMA ProcessDiesInv ==
  ASSUME Inv, ProcessDies
  PROVE  Inv'
<1>1. /\ step' = "none" /\ in_sessions' = FALSE /\ b_close' = TRUE
      /\ bound' = FALSE /\ peer' = "reset" /\ wire' = << >> /\ msg_que' = << >>
      /\ UNCHANGED <<sent, total_len, data, nodes, handled>>
  BY DEF ProcessDies, CloseAndClear
<1>2. /\ << >> \in Seq(Byte) /\ << >> \in Seq(1 .. Len(nodes))
      /\ Len(<< >>) = 0
  BY EmptySeq
<1>3. TypeOK'
  BY <1>1, <1>2 DEF Inv, TypeOK
<1>4. Posted' = Len(handled) /\ Len(handled) <= Posted /\ Len(handled) \in Nat
  BY <1>1, <1>2, Lengths DEF Posted
<1>5. QueuedInOrder' /\ PostedAsSent'
  <2>1. Len(handled) <= Len(nodes) /\ Len(handled) <= Len(sent)
    BY <1>4, Lengths DEF Inv, QueuedInOrder, PostedAsSent
  <2>2. \A i \in 1 .. Len(handled) : nodes[i] = sent[i]
    BY <1>4, Lengths DEF Inv, PostedAsSent
  <2> QED
    BY <1>1, <1>2, <1>4, <2>1, <2>2 DEF Inv, QueuedInOrder, PostedAsSent
<1>6. LostAtReset' /\ AtHead' /\ AtBody'
  BY <1>1 DEF LostAtReset, AtHead, AtBody
<1> QED
  BY <1>3, <1>5, <1>6 DEF Inv

\* The front of the queue is the first frame that has not been handled.
LEMMA FrontIsNext ==
  ASSUME Inv, msg_que # << >>
  PROVE  /\ Len(handled) + 1 <= Posted
         /\ Head(msg_que) = Len(handled) + 1
         /\ nodes[Head(msg_que)] = sent[Len(handled) + 1]
         /\ nodes[Head(msg_que)] \in Frame
         /\ Tail(msg_que) \in Seq(1 .. Len(nodes))
         /\ Len(Tail(msg_que)) = Len(msg_que) - 1
         /\ \A i \in 1 .. Len(Tail(msg_que)) : Tail(msg_que)[i] = msg_que[i + 1]
<1>1. msg_que \in Seq(1 .. Len(nodes)) /\ nodes \in Seq(Frame)
  BY DEF Inv, TypeOK
<1>2. Len(msg_que) \in Nat \ {0} /\ Len(handled) \in Nat
  BY <1>1, Lengths, EmptySeq
<1>3. Len(handled) + 1 <= Posted /\ 1 \in 1 .. Len(msg_que)
  BY <1>2 DEF Posted
<1>4. Head(msg_que) = msg_que[1]
  BY <1>1, HeadTailProperties
<1>5. msg_que[1] = Len(handled) + 1
  BY <1>3 DEF Inv, QueuedInOrder
<1>6. Len(handled) + 1 \in 1 .. Posted /\ Len(handled) + 1 \in 1 .. Len(nodes)
  BY <1>2, <1>3, Lengths DEF Inv, QueuedInOrder
<1>7. nodes[Len(handled) + 1] = sent[Len(handled) + 1]
  BY <1>6 DEF Inv, PostedAsSent
<1>8. nodes[Len(handled) + 1] \in Frame
  BY <1>1, <1>6, ElementOfSeq
<1> QED
  BY <1>1, <1>3, <1>4, <1>5, <1>7, <1>8, HeadTailProperties

\* The worker handles the front message.
LEMMA HandleFrontInv ==
  ASSUME Inv, HandleFront
  PROVE  Inv'
<1> DEFINE node == nodes[Head(msg_que)]
<1>1. /\ msg_que # << >> /\ handled' = Append(handled, node)
      /\ bound' \in BOOLEAN /\ msg_que' = Tail(msg_que)
      /\ UNCHANGED <<sent, peer, wire, step, total_len, data, nodes,
                     in_sessions, b_close>>
  BY DEF HandleFront, client, session, Inv, TypeOK
<1>2. node \in Frame /\ node = sent[Len(handled) + 1]
  BY <1>1, FrontIsNext
<1>3. /\ handled' \in Seq(Frame) /\ Len(handled') = Len(handled) + 1
      /\ \A i \in 1 .. Len(handled) : handled'[i] = handled[i]
      /\ handled'[Len(handled) + 1] = node
  <2> HIDE DEF node
  <2> QED
    BY <1>1, <1>2, AppendProperties DEF Inv, TypeOK
<1>4. /\ msg_que' \in Seq(1 .. Len(nodes)) /\ Len(msg_que') = Len(msg_que) - 1
      /\ \A i \in 1 .. Len(msg_que') : msg_que'[i] = msg_que[i + 1]
  BY <1>1, FrontIsNext
<1>5. Len(handled) \in Nat /\ Len(msg_que) \in Nat /\ Posted' = Posted
  BY <1>3, <1>4, Lengths DEF Posted
<1>6. TypeOK'
  BY <1>1, <1>3, <1>4 DEF Inv, TypeOK
<1>7. QueuedInOrder'
  <2>1. ASSUME NEW i \in 1 .. Len(msg_que')
        PROVE  msg_que'[i] = Len(handled') + i
    <3>1. i + 1 \in 1 .. Len(msg_que)
      BY <1>4, <1>5
    <3>2. msg_que[i + 1] = Len(handled) + (i + 1)
      BY <3>1 DEF Inv, QueuedInOrder
    <3>3. msg_que'[i] = msg_que[i + 1] /\ Len(handled') = Len(handled) + 1
      BY <1>3, <1>4
    <3>4. i \in Nat
      BY <1>4, <1>5
    <3> QED
      BY <1>5, <3>2, <3>3, <3>4
  <2> QED
    BY <1>1, <1>5, <2>1 DEF Inv, QueuedInOrder
<1>8. PostedAsSent'
  <2>1. ASSUME NEW i \in 1 .. Len(handled')
        PROVE  handled'[i] = sent[i]
    <3>1. CASE i = Len(handled) + 1
      BY <1>2, <1>3, <3>1
    <3>2. CASE i # Len(handled) + 1
      <4>1. i \in 1 .. Len(handled)
        BY <1>3, <1>5, <3>2
      <4> QED
        BY <1>3, <4>1 DEF Inv, PostedAsSent
    <3> QED
      BY <3>1, <3>2
  <2> QED
    BY <1>1, <1>5, <2>1 DEF Inv, PostedAsSent
<1>9. LostAtReset' /\ AtHead'
  BY <1>1, <1>5 DEF Inv, LostAtReset, AtHead
<1>10. AtBody'
  BY <1>1, <1>5 DEF Inv, AtBody
<1> QED
  BY <1>6, <1>7, <1>8, <1>9, <1>10 DEF Inv

LEMMA NextInv == Inv /\ [Next]_vars => Inv'
<1> SUFFICES ASSUME Inv, [Next]_vars PROVE Inv'
  OBVIOUS
<1>1. ASSUME NEW f \in Frames, SendFrame(f) PROVE Inv'
  BY <1>1, SendFrameInv
<1>2. CASE Finish \/ Reset
  BY <1>2, EndInv
<1>3. CASE Read
  BY <1>3, ReadPartInv, ReadHeadInv, ReadBodyInv, StopInv DEF Read
<1>4. CASE HandleFront
  BY <1>4, HandleFrontInv
<1>6. CASE ReadIsRefused
  BY <1>6, StopInv
<1>7. CASE ProcessDies
  BY <1>7, ProcessDiesInv
<1>5. CASE UNCHANGED vars
  <2>1. Posted' = Posted
    BY <1>5 DEF vars, Posted
  <2>2. TypeOK'
    BY <1>5 DEF vars, Inv, TypeOK
  <2>3. QueuedInOrder' /\ PostedAsSent' /\ LostAtReset'
    BY <1>5, <2>1 DEF vars, Inv, QueuedInOrder, PostedAsSent, LostAtReset
  <2>4. AtHead' /\ AtBody'
    BY <1>5, <2>1 DEF vars, Inv, AtHead, AtBody
  <2> QED
    BY <2>2, <2>3, <2>4 DEF Inv
<1> QED
  BY <1>1, <1>2, <1>3, <1>4, <1>5, <1>6, <1>7 DEF Next

LEMMA Invariance == Spec => []Inv
BY InitInv, NextInv, PTL DEF Spec

-----------------------------------------------------------------------------
(***************************************************************************)
(* The theorems.                                                           *)
(***************************************************************************)

\* Types; and what is asked for fits into _data: the lengths in the headers
\* that are accepted are not above MAX_LENGTH, and a header's id and length
\* are read from bytes that were written as a header.  The one exception is
\* an announced length of -1, which msg_len > MAX_LENGTH lets pass and
\* AsyncReadBody makes SIZE_MAX.
THEOREM TypeCorrect == Spec => []TypeOK
<1>1. Inv => TypeOK
  BY DEF Inv
<1> QED
  BY <1>1, Invariance, PTL

\* However TCP cuts the stream, the handlers get the frames the client wrote,
\* each once and in order: AsyncReadHead, AsyncReadBody and the queue
\* implement the safety part of the abstract mailbox.
THEOREM ReadPathIsMailbox == Spec => ImplementsMailbox
<1>1. Init => Channel!Init
  BY DEF Init, Channel!Init
<1>2. Inv /\ [Next]_vars => [Channel!Next]_(Channel!mvars)
  <2> SUFFICES ASSUME Inv, [Next]_vars PROVE [Channel!Next]_(Channel!mvars)
    OBVIOUS
  <2> USE DEF Channel!mvars
  <2>1. ASSUME NEW f \in Frames, SendFrame(f) PROVE Channel!Next
    BY <2>1 DEF SendFrame, logic, Channel!Next, Channel!Accept
  <2>2. CASE Finish \/ Reset
    BY <2>2 DEF Finish, Reset, logic, Channel!Next, Channel!Close
  <2>3. CASE Read
    BY <2>3 DEF Read, ReadPart, ReadHead, RefuseHead, ThrowHead, ReadBody,
                ReadFails, client, logic
  <2>6. CASE ReadIsRefused \/ ProcessDies
    BY <2>6 DEF ReadIsRefused, ProcessDies, client, Channel!Next, Channel!Close
  <2>4. CASE HandleFront
    <3>1. /\ Len(handled) < Len(sent)
          /\ nodes[Head(msg_que)] = sent[Len(handled) + 1]
      <4>1. Len(handled) + 1 <= Posted /\ Posted <= Len(sent)
        BY <2>4, FrontIsNext DEF HandleFront, Inv, PostedAsSent
      <4> QED
        BY <2>4, <4>1, FrontIsNext, Lengths DEF HandleFront
    <3>2. Channel!Handle
      BY <2>4, <3>1 DEF HandleFront, client, Channel!Handle
    <3> QED
      BY <3>2 DEF Channel!Next
  <2>5. CASE UNCHANGED vars
    BY <2>5 DEF vars
  <2> QED
    BY <2>1, <2>2, <2>3, <2>4, <2>5, <2>6 DEF Next
<1> QED
  BY <1>1, <1>2, Invariance, PTL DEF Spec, ImplementsMailbox, Channel!SafeSpec

\* asyncReadLen does not wait for bytes nobody will write, and none are left
\* in _data: once the stream is read up and the queue is empty, everything
\* the client wrote has been handled.  FramesDelivered says that it comes to
\* that.  It says nothing of a body announced with a length of -1.
THEOREM NothingIsLeft == Spec => []ReadUpIsHandled
<1>1. Inv => ReadUpIsHandled
  <2> SUFFICES ASSUME Inv, ReadUp PROVE handled = sent
    BY DEF ReadUpIsHandled
  <2>1. /\ step \in {"head", "body"} /\ peer # "reset"
        /\ wire = << >> /\ msg_que = << >> /\ data \in Seq(Byte)
        /\ (step = "body" => total_len > 0 /\ total_len # SIZE_MAX)
    BY DEF ReadUp, Reading, Overread, Inv, TypeOK
  <2>2. data \o wire = data
    BY <2>1, ConcatEmptySeq
  <2>3. Posted = Len(handled) /\ Posted <= Len(sent)
    BY <2>1, Lengths, EmptySeq DEF Posted, Inv, PostedAsSent
  <2>4. ~(Posted < Len(sent))
    <3> SUFFICES ASSUME Posted < Len(sent) PROVE FALSE
      OBVIOUS
    <3>1. Posted + 1 \in 1 .. Len(sent) /\ sent \in Seq(Frame)
      BY Lengths
    <3> DEFINE f == sent[Posted + 1]
    <3>2. /\ f \in Frame /\ f.body \in Seq(Byte)
          /\ HeadOf(f) \in Seq(Byte) /\ Len(HeadOf(f)) = 4
      BY <3>1, Lengths, EncodeTyped, HeadBytes DEF HEAD_TOTAL_LEN
    <3>3. CASE step = "head"
      <4>1. Len(data) < 4 /\ Carries(data, sent, Posted + 1)
        <5>1. Len(data) < 4 /\ Carries(data \o wire, sent, Posted + 1)
          BY <3>3 DEF ReadUp, Inv, AtHead, HEAD_TOTAL_LEN
        <5> QED
          BY <2>2, <5>1
      <4>2. Posted + 1 \in 1 .. Len(sent) + 1 /\ data \in Seq(Byte)
        <5>1. Posted + 1 \in 1 .. Len(sent) + 1
          BY <2>3, Lengths
        <5> QED
          BY <5>1 DEF Inv, TypeOK
      <4>3. PICK r \in Seq(Byte) : data = HeadOf(f) \o (f.body \o r)
        <5>1. \E r \in Seq(Byte) :
                /\ data = HeadOf(f) \o (f.body \o r)
                /\ Carries(r, sent, (Posted + 1) + 1)
          BY <3>1, <4>1, <4>2, CarriesFront
        <5> QED
          BY <5>1
      <4> DEFINE more == f.body \o r
      <4>4. more \in Seq(Byte)
        BY <3>2, ConcatProperties
      <4>5. Len(data) = 4 + Len(more) /\ Len(more) \in Nat
        <5> HIDE DEF more
        <5>1. data = HeadOf(f) \o more
          BY <4>3 DEF more
        <5>2. Len(HeadOf(f) \o more) = Len(HeadOf(f)) + Len(more)
          BY <3>2, <4>4, ConcatProperties
        <5> QED
          BY <3>2, <4>4, <5>1, <5>2, LenProperties
      <4> QED
        BY <4>1, <4>5
    <3>4. CASE step = "body"
      <4>1. /\ f.len \in 0 .. MAX_LENGTH /\ total_len = f.len
            /\ data = << >> \/ Len(data) < total_len
        <5>1. /\ f.len \in -1 .. MAX_LENGTH /\ total_len = size_t(f.len)
              /\ total_len # SIZE_MAX
              /\ data = << >> \/ Len(data) < total_len
          BY <2>1, <3>4 DEF Inv, AtBody
        <5>2. f.len \in 0 .. MAX_LENGTH /\ total_len = f.len
          BY <5>1, CSessionReadAssumption DEF size_t
        <5> QED
          BY <5>1, <5>2
      <4>2. PICK r \in Seq(Byte) : data = f.body \o r
        BY <2>1, <2>2, <3>4 DEF Inv, AtBody
      <4>3. Len(f.body) = total_len /\ total_len \in Nat /\ total_len > 0
        BY <2>1, <3>1, <3>4, <4>1, Lengths, CSessionReadAssumption
           DEF Inv, TypeOK
      <4>4. Len(data) < total_len
        BY <4>1, <4>3, EmptySeq
      <4>5. Len(data) = Len(f.body) + Len(r) /\ Len(r) \in Nat
        BY <3>2, <4>2, ConcatProperties, LenProperties
      <4> QED
        BY <4>3, <4>4, <4>5
    <3> QED
      BY <2>1, <3>3, <3>4
  <2>5. Len(handled) = Len(sent)
    BY <2>3, <2>4, Lengths
  <2>6. \A i \in 1 .. Len(handled) : handled[i] = sent[i]
    BY DEF Inv, PostedAsSent
  <2>7. handled \in Seq(Frame) /\ sent \in Seq(Frame)
    BY Lengths DEF Inv, TypeOK
  <2> QED
    BY <2>5, <2>6, <2>7, SeqEqual
<1> QED
  BY <1>1, Invariance, PTL
=============================================================================
