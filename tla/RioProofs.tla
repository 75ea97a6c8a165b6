----------------------------- MODULE RioProofs ------------------------------
(***************************************************************************)
(* Proofs about Rio for every buffer size, every stream and every size of  *)
(* request: what is read is the stream, and the calls implement ByteStream.*)
(***************************************************************************)
EXTENDS Rio, SequenceTheorems, TLAPS

(* What a call knows of its request and of what it has copied. *)
Shape ==
    /\ conn > 0 \/ (peer = "closed" /\ pc = "closed")
    /\ pc \notin Calls => out = <<>>
    /\ pc = "readn" => mode = "raw" /\ n \in Sizes
    /\ pc = "readnb" => mode = "buffered" /\ n \in Sizes
    /\ pc = "readlineb" => mode = "buffered" /\ n \in LineSizes
    /\ pc \in {"readn", "readnb"} => Len(out) < n \/ (n = 0 /\ out = <<>>)
    /\ pc = "readlineb" => Len(out) + 2 <= n \/ (n = 1 /\ out = <<>>)

(* A line that is not finished holds no newline yet. *)
NoNewlineYet == pc = "readlineb" => \A i \in 1 .. Len(out) : Pos + i \notin Newlines

IInv == TypeOK /\ InOrder /\ InBounds /\ Written /\ Shape /\ NoNewlineYet

-----------------------------------------------------------------------------
(* A run of k consecutive bytes of connection c, from place p + 1 on. *)
Consecutive(s, c, p) == \A i \in 1 .. Len(s) : s[i] = <<c, p + i>>

LEMMA RunIsSeq ==
    ASSUME NEW c \in Nat, NEW p \in Nat, NEW k \in Nat, NEW f \in [1 .. k -> Byte],
           \A i \in 1 .. k : f[i] = <<c, p + i>>
    PROVE  f \in Seq(Byte) /\ Len(f) = k /\ Consecutive(f, c, p)
<1>1. f \in Seq(Byte)
  BY SeqDef
<1>2. Len(f) = k
  BY <1>1, LenProperties
<1> QED
  BY <1>1, <1>2 DEF Consecutive

(* Bytes that follow a run lengthen it. *)
LEMMA RunGrows ==
    ASSUME NEW c \in Nat, NEW p \in Nat, NEW k \in Nat,
           NEW s \in Seq(Byte), Consecutive(s, c, p),
           NEW f \in [1 .. k -> Byte], \A i \in 1 .. k : f[i] = <<c, p + Len(s) + i>>
    PROVE  /\ s \o f \in Seq(Byte) /\ Len(s \o f) = Len(s) + k
           /\ Consecutive(s \o f, c, p)
<1>1. Len(s) \in Nat /\ p + Len(s) \in Nat
  BY LenProperties
<1>2. f \in Seq(Byte) /\ Len(f) = k /\ Consecutive(f, c, p + Len(s))
  BY <1>1, RunIsSeq
<1>3. /\ s \o f \in Seq(Byte)
      /\ Len(s \o f) = Len(s) + k
      /\ \A i \in 1 .. Len(s) + k :
           (s \o f)[i] = IF i <= Len(s) THEN s[i] ELSE f[i - Len(s)]
  BY <1>2, ConcatProperties
<1>4. ASSUME NEW i \in 1 .. Len(s) + k PROVE (s \o f)[i] = <<c, p + i>>
  <2>1. CASE i <= Len(s)
    BY <1>1, <1>3, <2>1 DEF Consecutive
  <2>2. CASE i > Len(s)
    <3> DEFINE j == i - Len(s)
    <3>1. j \in 1 .. k /\ p + Len(s) + j = p + i
      BY <1>1, <2>2
    <3>2. (s \o f)[i] = f[j]
      BY <1>1, <1>3, <2>2
    <3>3. f[j] = <<c, p + Len(s) + j>>
      BY <1>2, <3>1 DEF Consecutive
    <3> QED
      BY <3>1, <3>2, <3>3
  <2>3. i <= Len(s) \/ i > Len(s)
    BY <1>1
  <2> QED
    BY <2>1, <2>2, <2>3, Zenon
<1> QED
  BY <1>3, <1>4 DEF Consecutive

(* A run is determined by its first place and its length. *)
LEMMA RunIsBytes ==
    ASSUME NEW c \in Nat, NEW p \in Nat, NEW s \in Seq(Byte), Consecutive(s, c, p)
    PROVE  s = [i \in 1 .. Len(s) |-> <<c, p + i>>]
<1> DEFINE f == [i \in 1 .. Len(s) |-> <<c, p + i>>]
<1>1. Len(s) \in Nat /\ f \in [1 .. Len(s) -> Byte]
  BY LenProperties DEF Byte
<1>2. f \in Seq(Byte) /\ Len(f) = Len(s) /\ Consecutive(f, c, p)
  BY <1>1, RunIsSeq
<1>3. \A i \in 1 .. Len(s) : s[i] = f[i]
  BY <1>2 DEF Consecutive
<1> HIDE DEF f
<1>4. s = f
  BY <1>2, <1>3, SeqEqual
<1> QED
  BY <1>4 DEF f

(* What the invariant says of a call in progress. *)
LEMMA Basics ==
    ASSUME IInv
    PROVE  /\ Len(out) \in Nat /\ Unread \in Nat /\ Pos \in Nat
           /\ Pos + Len(out) + Unread = taken
           /\ Consecutive(out, conn, Pos)
<1>1. Len(out) \in Nat
  BY LenProperties DEF IInv, TypeOK
<1> QED
  BY <1>1 DEF IInv, TypeOK, InOrder, Unread, Pos, Consecutive

-----------------------------------------------------------------------------
LEMMA InitIInv == Init => IInv
<1> SUFFICES ASSUME Init PROVE IInv
  OBVIOUS
<1>1. <<>> \in Seq(Byte) /\ Len(<<>>) = 0
  BY EmptySeq
<1>2. Junk \in Byte
  BY DEF Junk, Byte
<1>3. TypeOK
  BY <1>1, <1>2, BufAssumption, BoundsAssumption DEF Init, TypeOK, Calls, Buffered
<1>4. InOrder /\ InBounds /\ Written
  BY <1>1 DEF Init, InOrder, InBounds, Written, Pos, Unread
<1>5. Shape /\ NoNewlineYet
  BY DEF Init, Shape, NoNewlineYet, Calls, Buffered
<1> QED
  BY <1>3, <1>4, <1>5 DEF IInv

(* A step of the peer leaves the reader and its call alone. *)
LEMMA ReaderUnchanged ==
    ASSUME IInv, UNCHANGED <<conn, taken, pc, mode, cnt, ptr, buf, n, out, res>>
    PROVE  InOrder' /\ InBounds' /\ NoNewlineYet' /\ Unread' = Unread /\ Pos' = Pos
<1>1. Unread' = Unread /\ Pos' = Pos
  BY DEF Unread, Pos
<1>2. InOrder'
  BY <1>1 DEF IInv, InOrder
<1>3. InBounds' /\ NoNewlineYet'
  BY <1>1 DEF IInv, InBounds, NoNewlineYet
<1> QED
  BY <1>1, <1>2, <1>3

LEMMA PeerInv == ASSUME IInv, Writen \/ PeerClose \/ PeerReset PROVE IInv'
<1>0. TypeOK /\ Written /\ Shape
  BY DEF IInv
<1>1. CASE \E k \in Sizes : WriteCall(k)
  <2> PICK k \in Sizes : WriteCall(k)
    BY <1>1
  <2>1. TypeOK' /\ Written' /\ Shape'
    BY <1>0, SizesAssumption DEF TypeOK, Written, Shape, WriteCall, sock, rio, Calls
  <2> QED
    BY <2>1, ReaderUnchanged DEF WriteCall, sock, rio, IInv
<1>2. CASE \E k \in 1 .. Cap : WriteSome(k)
  <2> PICK k \in 1 .. Cap : WriteSome(k)
    BY <1>2
  <2>0. k \in Nat /\ k > 0
    BY BufAssumption
  <2>1. TypeOK' /\ Written' /\ Shape'
    BY <1>0, <2>0 DEF TypeOK, Written, Shape, WriteSome, sock, rio, Calls
  <2> QED
    BY <2>1, ReaderUnchanged DEF WriteSome, sock, rio, IInv
<1>3. CASE WriteIntr
  <2>1. TypeOK' /\ Written' /\ Shape'
    BY <1>0, <1>3, BoundsAssumption DEF TypeOK, Written, Shape, WriteIntr, sock, writer, rio, Calls
  <2> QED
    BY <1>3, <2>1, ReaderUnchanged DEF WriteIntr, sock, rio, IInv
<1>4. CASE WriteFails
  <2>1. TypeOK' /\ Written' /\ Shape'
    BY <1>0, <1>4 DEF TypeOK, Written, Shape, WriteFails, sock, rio, Calls
  <2> QED
    BY <1>4, <2>1, ReaderUnchanged DEF WriteFails, sock, rio, IInv
<1>5. CASE PeerClose
  <2>1. TypeOK' /\ Written' /\ Shape'
    BY <1>0, <1>5 DEF TypeOK, Written, Shape, PeerClose, writer, rio, Calls
  <2> QED
    BY <1>5, <2>1, ReaderUnchanged DEF PeerClose, rio, IInv
<1>6. CASE PeerReset
  <2>1. TypeOK' /\ Written' /\ Shape'
    BY <1>0, <1>6 DEF TypeOK, Written, Shape, PeerReset, writer, rio, Calls
  <2> QED
    BY <1>6, <2>1, ReaderUnchanged DEF PeerReset, rio, IInv
<1> QED
  BY <1>1, <1>2, <1>3, <1>4, <1>5, <1>6 DEF Writen

(* Connections come and go; the rio_t of the last one is kept. *)
LEMMA ConnInv == ASSUME IInv, Accept \/ Close \/ Readinitb PROVE IInv'
<1>0. TypeOK /\ Written /\ Shape /\ InOrder /\ InBounds /\ Len(<<>>) = 0
  BY EmptySeq DEF IInv
<1>1. CASE Accept
  <2>0. out = <<>> /\ out' = <<>> /\ taken' = 0 /\ mode' = "none"
    BY <1>0, <1>1 DEF Accept, Shape, Calls, Buffered
  <2>a. Len(out') = 0
    BY <1>0, <2>0, Zenon
  <2>b. Unread' = 0
    BY <2>0 DEF Unread
  <2>c. taken' = 0
    BY <2>0
  <2>d. Pos' = 0
    BY <2>a, <2>b, <2>c DEF Pos
  <2>1. out' = <<>> /\ Len(out') = 0 /\ Unread' = 0 /\ Pos' = 0
    BY <2>0, <2>a, <2>b, <2>d
  <2>2. TypeOK' /\ Written'
    BY <1>0, <1>1 DEF TypeOK, Written, Accept, writer, rio, Calls
  <2>3. InOrder' /\ InBounds'
    BY <1>0, <1>1, <2>1 DEF InOrder, InBounds, Accept
  <2>4. Shape' /\ NoNewlineYet'
    BY <1>0, <1>1, <2>1 DEF TypeOK, Shape, NoNewlineYet, Accept, Calls, Buffered
  <2> QED
    BY <2>2, <2>3, <2>4 DEF IInv
<1>2. CASE Close
  <2>1. Unread' = Unread /\ Pos' = Pos
    BY <1>2 DEF Close, Unread, Pos, rio
  <2>2. TypeOK' /\ Written'
    BY <1>0, <1>2 DEF TypeOK, Written, Close, sock, writer, rio
  <2>3. InOrder' /\ InBounds'
    BY <1>0, <1>2, <2>1 DEF InOrder, InBounds, Close, sock, rio
  <2>4. Shape' /\ NoNewlineYet'
    BY <1>0, <1>2 DEF Shape, NoNewlineYet, Close, sock, Calls, Buffered
  <2> QED
    BY <2>2, <2>3, <2>4 DEF IInv
<1>3. CASE Readinitb
  <2>1. Unread = 0 /\ Unread' = 0 /\ Pos' = Pos
    BY <1>3 DEF Readinitb, Unread, Pos
  <2>2. TypeOK' /\ Written'
    BY <1>0, <1>3, BufAssumption DEF TypeOK, Written, Readinitb, sock, writer
  <2>3. InOrder' /\ InBounds'
    BY <1>0, <1>3, <2>1 DEF InOrder, InBounds, Readinitb, sock
  <2>4. Shape' /\ NoNewlineYet'
    BY <1>0, <1>3 DEF Shape, NoNewlineYet, Readinitb, sock, Calls, Buffered
  <2> QED
    BY <2>2, <2>3, <2>4 DEF IInv
<1> QED
  BY <1>1, <1>2, <1>3

-----------------------------------------------------------------------------
(* The bytes rio_buf holds unread are the last ones read. *)
BufferExact == mode = "buffered" => \A i \in 0 .. cnt - 1 :
    ptr + i < BufSize /\ buf[ptr + i] = <<conn, taken - cnt + i + 1>>

(* What usrbuf may hold of a request; with done, when the call answers. *)
Allowed(bytes, done) ==
    /\ pc # "readlineb" => Len(bytes) <= n /\ (done \/ Len(bytes) < n)
    /\ pc = "readlineb" => /\ Len(bytes) + 1 <= n
                           /\ \A i \in 1 .. Len(bytes) - 1 : Pos + i \notin Newlines
                           /\ ~done => /\ Len(bytes) + 2 <= n
                                       /\ \A i \in 1 .. Len(bytes) : Pos + i \notin Newlines
    /\ done => \/ peer = "closed" /\ Pos + Len(bytes) = sent
               \/ pc # "readlineb" /\ Len(bytes) = n
               \/ /\ pc = "readlineb"
                  /\ Len(bytes) = n - 1 \/ (Len(bytes) > 0 /\ Pos + Len(bytes) \in Newlines)

(* A step of a call after which usrbuf holds bytes, and which answers if done. *)
Progress(bytes, done) ==
    /\ pc \in Calls /\ UNCHANGED <<conn, peer, sent, writer, mode, n>>
    /\ signals' \in 0 .. MaxSignals
    /\ bytes \in Seq(Byte) /\ Consecutive(bytes, conn, Pos)
    /\ done \in BOOLEAN /\ Took(bytes, done) /\ Allowed(bytes, done)
    /\ taken' \in Nat /\ taken' <= sent
    /\ cnt' \in -1 .. BufSize /\ ptr' \in 0 .. BufSize
    /\ buf' \in [0 .. BufSize - 1 -> Byte]
    /\ BufferExact' /\ taken' - Unread' = Pos + Len(bytes)

(* A call that has copied the next bytes of the stream keeps the invariant, *)
(* whether it goes on or answers.                                           *)
LEMMA ProgressInv == ASSUME IInv, NEW bytes, NEW done, Progress(bytes, done)
                     PROVE  IInv'
<1> USE DEF Progress
<1>0. TypeOK /\ Written /\ Shape /\ InBounds
  BY DEF IInv
<1>1. Pos \in Nat /\ Len(bytes) \in Nat /\ Len(<<>>) = 0 /\ <<>> \in Seq(Byte)
  BY Basics, LenProperties, EmptySeq
<1>2. Written'
  BY <1>0 DEF Written, writer
<1>3. CASE done
  <2>1. /\ pc' = "ready" /\ out' = <<>>
        /\ res' = [op |-> pc, n |-> n, val |-> Len(bytes), got |-> bytes]
    BY <1>1, <1>3 DEF Took, Answer
  <2>a. Len(out') = 0
    BY <1>1, <2>1, Zenon
  <2>2. Pos' = Pos + Len(bytes)
    BY <1>1, <2>a DEF Pos, Unread
  <2>3. TypeOK'
    BY <1>0, <1>1, <2>1 DEF TypeOK, sock, writer
  <2>4. InOrder'
    <3>1. Pos' >= 0
      BY <1>1, <2>2
    <3>2. \A i \in 1 .. Len(out') : out'[i] = <<conn', Pos' + i>>
      BY <2>a
    <3> QED
      BY <3>1, <3>2 DEF InOrder, BufferExact
  <2>5. InBounds'
    BY <1>0, <1>1, <1>3, <2>1 DEF InBounds, Allowed, Calls, Buffered
  <2>6. Shape' /\ NoNewlineYet'
    BY <1>0, <2>1 DEF Shape, NoNewlineYet, sock, Calls, Buffered
  <2> QED
    BY <1>2, <2>3, <2>4, <2>5, <2>6 DEF IInv
<1>4. CASE ~done
  <2>1. out' = bytes /\ pc' = pc /\ res' = res
    BY <1>4 DEF Took
  <2>2. Pos' = Pos
    BY <1>1, <2>1 DEF Pos, Unread
  <2>3. TypeOK'
    BY <1>0, <2>1 DEF TypeOK, sock, writer
  <2>4. InOrder'
    <3>1. Pos' >= 0
      BY <1>1, <2>2
    <3>2. \A i \in 1 .. Len(out') : out'[i] = <<conn', Pos' + i>>
      BY <2>1, <2>2 DEF Consecutive, sock
    <3> QED
      BY <3>1, <3>2 DEF InOrder, BufferExact
  <2>5. InBounds'
    BY <1>0, <1>4, <2>1 DEF InBounds, Allowed
  <2>6. Shape'
    BY <1>0, <1>1, <1>4, <2>1 DEF Shape, Allowed, sock, Calls, Buffered
  <2>7. NoNewlineYet'
    BY <1>4, <2>1, <2>2 DEF NoNewlineYet, Allowed
  <2> QED
    BY <1>2, <2>3, <2>4, <2>5, <2>6, <2>7 DEF IInv
<1> QED
  BY <1>3, <1>4

(* So does one that fails: what it had copied is dropped. *)
LEMMA FailsInv ==
    ASSUME IInv, pc \in Calls, Answer(-1, <<>>),
           UNCHANGED <<sock, taken, writer, signals, mode, ptr, buf, n>>,
           cnt' = cnt \/ (cnt <= 0 /\ cnt' = -1)
    PROVE  IInv'
<1>0. TypeOK /\ Written /\ Shape /\ InBounds /\ InOrder /\ <<>> \in Seq(Byte) /\ Len(<<>>) = 0
  BY EmptySeq DEF IInv
<1>1. /\ pc' = "exit" /\ out' = <<>>
      /\ res' = [op |-> pc, n |-> n, val |-> -1, got |-> <<>>]
  BY DEF Answer
<1>a. Len(out') = 0
  BY <1>0, <1>1, Zenon
<1>2. Unread' = Unread /\ Pos' = Pos + Len(out) /\ Pos' \in Nat
  BY <1>0, <1>a, Basics DEF Unread, Pos, TypeOK
<1>3. TypeOK' /\ Written'
  BY <1>0, <1>1, BufAssumption DEF TypeOK, Written, sock, writer
<1>4. InOrder'
  <2>1. mode = "buffered" => \A i \in 0 .. cnt' - 1 :
          ptr' + i < BufSize /\ buf'[ptr' + i] = <<conn', taken' - cnt' + i + 1>>
    <3>1. CASE cnt' = cnt
      BY <1>0, <3>1 DEF InOrder, sock
    <3>2. CASE cnt' = -1
      BY <3>2
    <3> QED
      BY <3>1, <3>2
  <2> QED
    BY <2>1, <1>a, <1>2 DEF InOrder
<1>5. InBounds'
  <2>1. pc = "readlineb" => n >= 1
    BY <1>0, Basics DEF Shape, TypeOK
  <2> QED
    BY <1>0, <1>1, <2>1 DEF InBounds, TypeOK, Calls, Buffered
<1>6. Shape' /\ NoNewlineYet'
  BY <1>0, <1>1 DEF Shape, NoNewlineYet, sock, Calls, Buffered
<1> QED
  BY <1>3, <1>4, <1>5, <1>6 DEF IInv

-----------------------------------------------------------------------------
(* Every step of a call is progress or a failure. *)
LEMMA Facts ==
    ASSUME IInv
    PROVE  /\ TypeOK /\ Shape /\ InOrder /\ InBounds
           /\ BufferExact /\ NoNewlineYet
           /\ <<>> \in Seq(Byte) /\ Len(<<>>) = 0
           /\ Len(out) \in Nat /\ Unread \in Nat /\ Pos \in Nat
           /\ Pos + Len(out) + Unread = taken
           /\ out \in Seq(Byte) /\ Consecutive(out, conn, Pos)
           /\ n \in Nat /\ taken \in Nat /\ taken <= sent
  BY Basics, EmptySeq DEF IInv, InOrder, BufferExact, TypeOK

(* Nothing is copied: the call answers with what it has. *)
LEMMA EndProgress ==
    ASSUME IInv, pc \in Calls, Answer(Len(out), out),
           UNCHANGED <<sock, taken, writer, signals, mode, ptr, buf, n>>,
           cnt' = cnt \/ (cnt <= 0 /\ cnt' = 0),
           Allowed(out, TRUE)
    PROVE  Progress(out, TRUE)
<1>1. Unread' = Unread
  BY Facts DEF Unread, TypeOK
<1>2. BufferExact'
  <2>1. CASE cnt' = cnt
    BY <2>1, Facts DEF BufferExact, sock
  <2>2. CASE cnt' = 0
    BY <2>2 DEF BufferExact
  <2> QED
    BY <2>1, <2>2
<1>3. cnt' \in -1 .. BufSize
  BY Facts, BufAssumption DEF TypeOK
<1>4. taken' - Unread' = Pos + Len(out)
  BY <1>1, Facts
<1> QED
  BY <1>2, <1>3, <1>4, Facts DEF Progress, Took, sock, TypeOK

LEMMA NothingProgress ==
    ASSUME IInv, ReadnNothing \/ ReadnbNothing \/ LineNothing
    PROVE  Progress(out, TRUE)
<1>1. pc \in Calls /\ Answer(0, <<>>)
  BY DEF ReadnNothing, ReadnbNothing, LineNothing, Calls, Buffered
<1>2. out = <<>>
  BY Facts DEF Shape, ReadnNothing, ReadnbNothing, LineNothing
<1>3. Len(out) = 0
  BY <1>2, Facts, Zenon
<1>4. Answer(Len(out), out)
  BY <1>1, <1>2, <1>3, Zenon
<1>5. Allowed(out, TRUE)
  BY <1>3, Facts DEF Allowed, ReadnNothing, ReadnbNothing, LineNothing
<1> QED
  BY <1>1, <1>4, <1>5, EndProgress DEF ReadnNothing, ReadnbNothing, LineNothing, rio

LEMMA EofProgress ==
    ASSUME IInv, ReadnEnd \/ RefillEnd
    PROVE  Progress(out, TRUE)
<1>1. pc \in Calls /\ Answer(Len(out), out)
  BY DEF ReadnEnd, RefillEnd, Reading, Calls, Buffered
<1>2. Unread = 0 /\ peer = "closed" /\ Avail = 0
  BY Facts DEF ReadnEnd, RefillEnd, Shape, Unread
<1>3. Pos + Len(out) = sent
  BY <1>2, Facts DEF Avail, TypeOK
<1>4. Allowed(out, TRUE)
  <2>1. Len(out) \in Nat /\ n \in Nat /\ InBounds /\ NoNewlineYet
    BY Facts
  <2>2. pc # "readlineb" => Len(out) <= n
    BY <1>1, <2>1 DEF InBounds, Calls, Buffered
  <2>3. pc = "readlineb" => /\ Len(out) + 1 <= n
                            /\ \A i \in 1 .. Len(out) - 1 : Pos + i \notin Newlines
    BY <2>1 DEF InBounds, NoNewlineYet
  <2> QED
    BY <1>2, <1>3, <2>2, <2>3 DEF Allowed
<1> QED
  BY <1>1, <1>4, EndProgress DEF ReadnEnd, RefillEnd, rio

(* read() has put bytes in usrbuf. *)
LEMMA ReadnProgress ==
    ASSUME IInv, NEW k \in 1 .. Cap, ReadnGets(k)
    PROVE  \E bytes, done : Progress(bytes, done)
<1> DEFINE f == [i \in 1 .. k |-> <<conn, taken + i>>]
           bytes == out \o f
<1>1. k \in Nat /\ pc = "readn" /\ mode = "raw" /\ Unread = 0 /\ Unread' = 0
  BY Facts, BufAssumption DEF ReadnGets, Shape, Unread
<1>2. Pos + Len(out) = taken
  BY <1>1, Facts
<1>3. f \in [1 .. k -> Byte] /\ \A i \in 1 .. k : f[i] = <<conn, Pos + Len(out) + i>>
  BY <1>1, <1>2, Facts DEF TypeOK, Byte
<1>4. bytes \in Seq(Byte) /\ Len(bytes) = Len(out) + k /\ Consecutive(bytes, conn, Pos)
  <2>1. conn \in Nat /\ Pos \in Nat /\ out \in Seq(Byte) /\ Consecutive(out, conn, Pos)
    BY Facts DEF TypeOK
  <2> HIDE DEF f
  <2> QED
    BY <1>1, <1>3, <2>1, RunGrows
<1>5. Took(bytes, Len(bytes) = n) /\ Len(bytes) <= n
  BY <1>4 DEF ReadnGets
<1>a. taken' = taken + k /\ k <= sent - taken /\ taken \in Nat /\ sent \in Nat
  BY Facts DEF ReadnGets, Avail, TypeOK
<1> HIDE DEF bytes
<1>6. Allowed(bytes, Len(bytes) = n)
  BY <1>1, <1>4, <1>5, Facts DEF Allowed
<1>7. BufferExact'
  BY <1>1 DEF ReadnGets, BufferExact
<1>8. taken' \in Nat /\ taken' <= sent /\ taken' - Unread' = Pos + Len(bytes)
  BY <1>1, <1>2, <1>4, <1>a, Facts
<1>9. Progress(bytes, Len(bytes) = n)
  BY <1>1, <1>4, <1>5, <1>6, <1>7, <1>8, Facts DEF Progress, ReadnGets, Calls, sock, rio, TypeOK
<1> QED
  BY <1>9

(* A call with room left goes on from what it has. *)
LEMMA GoesOn ==
    ASSUME IInv, Reading \/ (pc = "readn" /\ n > 0)
    PROVE  pc \in Calls /\ Allowed(out, FALSE)
<1>1. Len(out) \in Nat /\ n \in Nat /\ Shape /\ NoNewlineYet /\ pc \in Calls
  BY Facts DEF Reading, Calls, Buffered
<1>2. pc # "readlineb" => Len(out) <= n /\ Len(out) < n
  BY <1>1 DEF Shape, Reading, Calls, Buffered
<1>3. pc = "readlineb" => /\ Len(out) + 2 <= n
                          /\ \A i \in 1 .. Len(out) : Pos + i \notin Newlines
  BY <1>1 DEF Shape, Reading, NoNewlineYet
<1> QED
  BY <1>1, <1>2, <1>3 DEF Allowed

LEMMA IntrProgress ==
    ASSUME IInv, ReadnIntr \/ RefillIntr
    PROVE  Progress(out, FALSE)
<1>1. pc \in Calls /\ Allowed(out, FALSE)
  BY GoesOn DEF ReadnIntr, RefillIntr
<1>2. Took(out, FALSE)
  BY DEF Took, ReadnIntr, RefillIntr
<1>3. Unread' = Unread /\ cnt' \in -1 .. BufSize
  BY Facts, BufAssumption DEF ReadnIntr, RefillIntr, Unread, TypeOK, rio
<1>4. BufferExact'
  <2>1. CASE ReadnIntr
    BY <2>1, Facts DEF ReadnIntr, BufferExact, sock, rio
  <2>2. CASE RefillIntr
    BY <2>2 DEF RefillIntr, BufferExact
  <2> QED
    BY <2>1, <2>2
<1>5. signals' \in 0 .. MaxSignals
  BY Facts, BoundsAssumption DEF ReadnIntr, RefillIntr, TypeOK
<1>6. taken' = taken /\ taken' - Unread' = Pos + Len(out)
  BY <1>3, Facts DEF ReadnIntr, RefillIntr
<1> QED
  BY <1>1, <1>2, <1>3, <1>4, <1>5, <1>6, Facts
     DEF Progress, ReadnIntr, RefillIntr, sock, rio, TypeOK

(* rio_read has filled its empty buffer. *)
LEMMA RefillProgress ==
    ASSUME IInv, NEW k \in 1 .. Cap, Refill(k)
    PROVE  Progress(out, FALSE)
<1>0. k \in Nat /\ k > 0 /\ BufSize \in Nat
  BY BufAssumption
<1>1. pc \in Calls /\ Allowed(out, FALSE)
  BY GoesOn DEF Refill
<1>2. Took(out, FALSE)
  BY DEF Took, Refill
<1>3. mode = "buffered" /\ Unread = 0 /\ Unread' = k /\ cnt' = k /\ ptr' = 0 /\ k <= BufSize
  BY <1>0, Facts DEF Refill, Reading, Shape, Unread
<1>4. taken' = taken + k /\ k <= sent - taken /\ sent \in Nat /\ conn \in Nat
  BY Facts DEF Refill, Avail, TypeOK
<1>5. buf' \in [0 .. BufSize - 1 -> Byte]
  <2>1. buf \in [0 .. BufSize - 1 -> Byte] /\ taken \in Nat
    BY Facts DEF TypeOK
  <2>2. \A i \in 0 .. BufSize - 1 : <<conn, taken + i + 1>> \in Byte
    BY <1>4, <2>1 DEF Byte
  <2> QED
    BY <2>1, <2>2 DEF Refill
<1>6. BufferExact'
  <2> SUFFICES ASSUME NEW i \in 0 .. k - 1
               PROVE  i < BufSize /\ buf'[i] = <<conn, taken' - k + i + 1>>
    <3>1. conn' = conn /\ \A i \in 0 .. k - 1 : ptr' + i = i
      BY <1>0, <1>3 DEF Refill, sock
    <3> QED
      BY <1>3, <3>1 DEF BufferExact
  <2>1. buf'[i] = <<conn, taken + i + 1>>
    BY <1>0, <1>3 DEF Refill
  <2>2. taken' - k + i + 1 = taken + i + 1 /\ i < BufSize
    BY <1>0, <1>3, <1>4, Facts
  <2> QED
    BY <2>1, <2>2
<1>7. taken' - Unread' = Pos + Len(out) /\ taken' \in Nat /\ taken' <= sent
  BY <1>0, <1>3, <1>4, Facts
<1>8. /\ UNCHANGED <<conn, peer, sent, writer, mode, n>> /\ signals' \in 0 .. MaxSignals
      /\ cnt' \in -1 .. BufSize /\ ptr' \in 0 .. BufSize
  BY <1>0, <1>3, Facts DEF Refill, sock, TypeOK
<1> QED
  BY <1>1, <1>2, <1>5, <1>6, <1>7, <1>8, Facts DEF Progress

(* memcpy has moved k of the unread bytes to usrbuf. *)
LEMMA CopyProgress ==
    ASSUME IInv, Reading, NEW k \in Nat, k <= cnt, cnt > 0, Copy(k)
    PROVE  /\ Copied(k) \in Seq(Byte) /\ Len(Copied(k)) = Len(out) + k
           /\ Consecutive(Copied(k), conn, Pos)
           /\ BufferExact' /\ taken' - Unread' = Pos + Len(out) + k
           /\ cnt' \in -1 .. BufSize /\ ptr' \in 0 .. BufSize
           /\ k > 0 => Copied(k)[Len(out) + k] = buf[ptr + k - 1]
<1> DEFINE f == [i \in 1 .. k |-> buf[ptr + i - 1]]
<1>1. /\ mode = "buffered" /\ Unread = cnt /\ Pos + Len(out) = taken - cnt
      /\ cnt \in 1 .. BufSize /\ ptr \in 0 .. BufSize /\ BufSize \in Nat /\ conn \in Nat
  BY Facts, BufAssumption DEF Reading, Shape, Unread, TypeOK
<1>2. ASSUME NEW j \in 0 .. cnt - 1
      PROVE  ptr + j < BufSize /\ buf[ptr + j] = <<conn, Pos + Len(out) + j + 1>>
  <2>1. ptr + j < BufSize /\ buf[ptr + j] = <<conn, taken - cnt + j + 1>>
    BY <1>1, Facts DEF BufferExact
  <2> QED
    BY <1>1, <2>1
<1>3. ASSUME NEW i \in 1 .. k PROVE f[i] = <<conn, Pos + Len(out) + i>>
  <2>1. i - 1 \in 0 .. cnt - 1 /\ ptr + i - 1 = ptr + (i - 1)
    BY <1>1
  <2>2. buf[ptr + (i - 1)] = <<conn, Pos + Len(out) + (i - 1) + 1>>
    BY <1>2, <2>1
  <2>3. Pos + Len(out) + (i - 1) + 1 = Pos + Len(out) + i
    BY Facts
  <2> QED
    BY <2>1, <2>2, <2>3
<1>4. f \in [1 .. k -> Byte]
  <2>1. \A i \in 1 .. k : <<conn, Pos + Len(out) + i>> \in Byte
    BY <1>1, Facts DEF Byte
  <2> QED
    BY <1>3, <2>1
<1>5. /\ out \o f \in Seq(Byte) /\ Len(out \o f) = Len(out) + k
      /\ Consecutive(out \o f, conn, Pos)
  <2>1. conn \in Nat /\ Pos \in Nat /\ out \in Seq(Byte) /\ Consecutive(out, conn, Pos)
    BY <1>1, Facts
  <2> HIDE DEF f
  <2> QED
    BY <1>3, <1>4, <2>1, RunGrows
<1>6. ptr' = ptr + k /\ cnt' = cnt - k /\ buf' = buf /\ taken' = taken /\ mode' = mode /\ conn' = conn
  BY DEF Copy, sock
<1>7. BufferExact'
  <2> SUFFICES ASSUME NEW i \in 0 .. cnt - k - 1
               PROVE  ptr + k + i < BufSize /\ buf[ptr + k + i] = <<conn, taken - (cnt - k) + i + 1>>
    BY <1>6 DEF BufferExact
  <2>1. k + i \in 0 .. cnt - 1 /\ ptr + k + i = ptr + (k + i)
        /\ taken - (cnt - k) + i + 1 = Pos + Len(out) + (k + i) + 1
    BY <1>1, Facts
  <2> QED
    BY <1>2, <2>1
<1>8. taken' - Unread' = Pos + Len(out) + k
  BY <1>1, <1>6, Facts DEF Unread
<1>9. cnt' \in -1 .. BufSize /\ ptr' \in 0 .. BufSize
  <2>1. cnt - 1 \in 0 .. cnt - 1
    BY <1>1
  <2>2. ptr + (cnt - 1) < BufSize
    BY <1>2, <2>1
  <2> QED
    BY <1>1, <1>6, <2>2
<1>10. k > 0 => (out \o f)[Len(out) + k] = buf[ptr + k - 1]
  <2> SUFFICES ASSUME k > 0 PROVE (out \o f)[Len(out) + k] = f[k]
    OBVIOUS
  <2>1. Len(out) + k \in 1 .. Len(out \o f)
    BY <1>5, Facts
  <2>2. (out \o f)[Len(out) + k] = <<conn, Pos + (Len(out) + k)>>
    BY <1>5, <2>1 DEF Consecutive
  <2>3. k \in 1 .. k /\ Pos + (Len(out) + k) = Pos + Len(out) + k
    BY Facts
  <2> QED
    BY <1>3, <2>2, <2>3
<1> QED
  BY <1>5, <1>7, <1>8, <1>9, <1>10 DEF Copied

LEMMA ReadnbProgress ==
    ASSUME IInv, ReadnbCopy
    PROVE  \E bytes, done : Progress(bytes, done)
<1> DEFINE k == IF cnt < n - Len(out) THEN cnt ELSE n - Len(out)
           b == Copied(k)
<1>1. /\ pc = "readnb" /\ Reading /\ cnt > 0
      /\ Copy(k) /\ Took(b, Len(out) + k = n)
  BY DEF ReadnbCopy
<1>2. Len(out) \in Nat /\ n \in Nat /\ cnt \in Nat /\ Len(out) < n
  BY <1>1, Facts DEF TypeOK, Shape, Reading
<1>3. k \in Nat /\ k <= cnt /\ Len(out) + k <= n
  BY <1>2
<1> HIDE DEF k
<1>4. /\ b \in Seq(Byte) /\ Len(b) = Len(out) + k /\ Consecutive(b, conn, Pos)
      /\ BufferExact' /\ taken' - Unread' = Pos + Len(out) + k
      /\ cnt' \in -1 .. BufSize /\ ptr' \in 0 .. BufSize
  BY <1>1, <1>3, CopyProgress
<1> HIDE DEF b
<1>5. Allowed(b, Len(out) + k = n)
  BY <1>1, <1>2, <1>3, <1>4 DEF Allowed
<1>6. /\ UNCHANGED <<conn, peer, sent, writer, mode, n>> /\ signals' \in 0 .. MaxSignals
      /\ taken' \in Nat /\ taken' <= sent /\ buf' \in [0 .. BufSize - 1 -> Byte]
      /\ pc \in Calls
  BY <1>1, Facts DEF Copy, sock, TypeOK, Calls, Buffered
<1> DEFINE done == Len(out) + k = n
<1>7. Took(b, done) /\ Allowed(b, done) /\ done \in BOOLEAN
  BY <1>1, <1>5
<1> HIDE DEF done
<1>8. Progress(b, done)
  BY <1>3, <1>4, <1>6, <1>7, Facts DEF Progress
<1> QED
  BY <1>8

LEMMA LineProgress ==
    ASSUME IInv, LineCopy
    PROVE  \E bytes, done : Progress(bytes, done)
<1> DEFINE b    == Copied(1)
           done == Len(out) + 2 = n \/ IsNewline(buf[ptr])
<1>1. pc = "readlineb" /\ Reading /\ cnt > 0 /\ Copy(1) /\ Took(b, done)
  BY DEF LineCopy
<1>2. Len(out) \in Nat /\ n \in Nat /\ cnt \in Nat /\ Len(out) + 2 <= n /\ ptr \in Nat /\ Pos \in Nat
  BY <1>1, Facts, BufAssumption DEF TypeOK, Shape, Reading
<1>3. /\ b \in Seq(Byte) /\ Len(b) = Len(out) + 1 /\ Consecutive(b, conn, Pos)
      /\ BufferExact' /\ taken' - Unread' = Pos + Len(out) + 1
      /\ cnt' \in -1 .. BufSize /\ ptr' \in 0 .. BufSize
      /\ b[Len(out) + 1] = buf[ptr + 1 - 1]
  <2>1. 1 \in Nat /\ 1 <= cnt /\ 1 > 0
    BY <1>1, <1>2
  <2> QED
    BY <1>1, <2>1, CopyProgress
<1>4. IsNewline(buf[ptr]) <=> Pos + Len(out) + 1 \in Newlines
  <2>1. Len(out) + 1 \in 1 .. Len(b) /\ ptr + 1 - 1 = ptr
    BY <1>2, <1>3
  <2>2. b[Len(out) + 1] = <<conn, Pos + (Len(out) + 1)>>
    BY <1>3, <2>1 DEF Consecutive
  <2>3. buf[ptr] = <<conn, Pos + (Len(out) + 1)>> /\ Pos + (Len(out) + 1) = Pos + Len(out) + 1
    BY <1>2, <1>3, <2>1, <2>2
  <2> QED
    BY <2>3 DEF IsNewline
<1>5. \A i \in 1 .. Len(out) : Pos + i \notin Newlines
  BY <1>1, Facts DEF NoNewlineYet
<1>6. /\ UNCHANGED <<conn, peer, sent, writer, mode, n>> /\ signals' \in 0 .. MaxSignals
      /\ taken' \in Nat /\ taken' <= sent /\ buf' \in [0 .. BufSize - 1 -> Byte]
      /\ pc \in Calls
  BY <1>1, Facts DEF Copy, sock, TypeOK, Calls, Buffered
<1> HIDE DEF b
<1>7. Allowed(b, done) /\ done \in BOOLEAN
  <2>1. CASE IsNewline(buf[ptr])
    BY <1>1, <1>2, <1>3, <1>4, <1>5, <2>1 DEF Allowed
  <2>2. CASE ~IsNewline(buf[ptr])
    <3>1. \A i \in 1 .. Len(out) + 1 : Pos + i \notin Newlines
      BY <1>2, <1>4, <1>5, <2>2
    <3> QED
      BY <1>1, <1>2, <1>3, <2>2, <3>1 DEF Allowed
  <2> QED
    BY <2>1, <2>2
<1> HIDE DEF done
<1>8. Progress(b, done)
  BY <1>1, <1>2, <1>3, <1>6, <1>7, Facts DEF Progress
<1> QED
  BY <1>8

(* The steps of a call. *)
CallStep == \/ ReadnNothing \/ ReadnEnd \/ ReadnIntr \/ RefillEnd \/ RefillIntr
            \/ ReadnbNothing \/ ReadnbCopy \/ LineNothing \/ LineCopy
            \/ \E k \in 1 .. Cap : ReadnGets(k) \/ Refill(k)

LEMMA CallProgress == ASSUME IInv, CallStep PROVE \E bytes, done : Progress(bytes, done)
  BY NothingProgress, EofProgress, IntrProgress, ReadnbProgress, LineProgress,
     ReadnProgress, RefillProgress DEF CallStep

(* A call begins. *)
Begin == \/ \E k \in Sizes : ReadnCall(k) \/ ReadnbCall(k)
         \/ \E k \in LineSizes : LineCall(k)

LEMMA BeginInv == ASSUME IInv, Begin PROVE IInv' /\ Pos' = Pos /\ res' = res
<1>0. TypeOK /\ Written /\ Shape /\ InBounds /\ InOrder /\ Len(<<>>) = 0
  BY EmptySeq DEF IInv
<1>1. pc = "ready" /\ out = <<>> /\ UNCHANGED <<sock, taken, writer, signals, rio, out, res>>
  BY <1>0 DEF Begin, ReadnCall, ReadnbCall, LineCall, Call, Shape, Calls, Buffered
<1>2. Len(out) = 0
  BY <1>0, <1>1, Zenon
<1>3. /\ pc' \in Calls /\ n' \in Nat
      /\ pc' = "readn" => mode' = "raw" /\ mode # "buffered" /\ n' \in Sizes
      /\ pc' # "readn" => mode' = mode /\ mode = "buffered"
      /\ pc' = "readnb" => n' \in Sizes
      /\ pc' = "readlineb" => n' \in LineSizes /\ n' > 0
  BY SizesAssumption, LinesAssumption DEF Begin, ReadnCall, ReadnbCall, LineCall, Call, Calls, Buffered
<1>4. Unread' = Unread /\ Pos' = Pos
  <2>1. Unread' = Unread
    BY <1>1, <1>3 DEF Unread, rio
  <2> QED
    BY <1>1, <2>1 DEF Pos
<1>5. TypeOK' /\ Written'
  BY <1>0, <1>1, <1>3 DEF TypeOK, Written, sock, writer, rio
<1>6. InOrder'
  BY <1>0, <1>1, <1>3, <1>4 DEF InOrder, sock, rio
<1>7. InBounds'
  BY <1>0, <1>1, <1>2, <1>3 DEF InBounds
<1>8. Shape' /\ NoNewlineYet'
  BY <1>0, <1>1, <1>2, <1>3 DEF Shape, NoNewlineYet, sock, Calls, Buffered
<1> QED
  BY <1>1, <1>4, <1>5, <1>6, <1>7, <1>8 DEF IInv

(* A read fails. *)
LEMMA FailureInv ==
    ASSUME IInv, ReadnFails \/ RefillFails
    PROVE  IInv'
<1>1. pc \in Calls /\ Answer(-1, <<>>)
  BY DEF ReadnFails, RefillFails, Reading, Calls, Buffered
<1> QED
  BY <1>1, FailsInv DEF ReadnFails, RefillFails, rio

LEMMA NextCases ==
    ASSUME Next
    PROVE  \/ Writen \/ PeerClose \/ PeerReset
           \/ Accept \/ Close \/ Readinitb
           \/ Begin \/ CallStep \/ ReadnFails \/ RefillFails
  BY DEF Next, Readn, Rio_read, Readnb, Readline, Begin, CallStep

LEMMA StepIInv == IInv /\ [Next]_vars => IInv'
<1> SUFFICES ASSUME IInv, [Next]_vars PROVE IInv'
  OBVIOUS
<1>1. CASE Next
  BY <1>1, NextCases, PeerInv, ConnInv, BeginInv, CallProgress, ProgressInv, FailureInv
<1>2. CASE UNCHANGED vars
  <2>1. UNCHANGED <<conn, taken, pc, mode, cnt, ptr, buf, n, out, res>>
    BY <1>2 DEF vars, sock, rio
  <2>2. TypeOK' /\ Written' /\ Shape'
    BY <1>2 DEF IInv, TypeOK, Written, Shape, vars, sock, writer, rio
  <2> QED
    BY <2>1, <2>2, ReaderUnchanged DEF IInv
<1> QED
  BY <1>1, <1>2

-----------------------------------------------------------------------------
(* The inductive invariant holds of every behaviour: of the buffer, of usrbuf *)
(* and of the request in progress.                                           *)
THEOREM Invariance == Spec => []IInv
<1> QED
  BY InitIInv, StepIInv, PTL DEF Spec

(* Every variable of rio_t, of the calls and of the socket keeps its type: in *)
(* particular rio_cnt and rio_bufptr stay within rio_buf.                     *)
THEOREM TypeCorrect == Spec => []TypeOK
<1>1. IInv => TypeOK
  BY DEF IInv
<1> QED
  BY <1>1, Invariance, PTL

(* rio_read (lines 805-830), for every buffer size and every sequence of      *)
(* short, interrupted and failing reads: what rio_buf holds unread and what   *)
(* usrbuf holds are the next bytes of this connection.                        *)
THEOREM Ordered == Spec => []InOrder
<1>1. IInv => InOrder
  BY DEF IInv
<1> QED
  BY <1>1, Invariance, PTL

(* rio_readn, rio_readnb and rio_readlineb never write past the n or maxlen   *)
(* bytes of usrbuf.                                                           *)
THEOREM Bounded == Spec => []InBounds
<1>1. IInv => InBounds
  BY DEF IInv
<1> QED
  BY <1>1, Invariance, PTL

(* rio_writen (lines 775-792) returns only when every byte it was given is on *)
(* the connection.                                                            *)
THEOREM AllWritten == Spec => []Written
<1>1. IInv => Written
  BY DEF IInv
<1> QED
  BY <1>1, Invariance, PTL

-----------------------------------------------------------------------------
(* The refinement: what each step of Rio is to ByteStream. *)
Ended == peer = "closed" /\ conn > 0

LEMMA NoBytes == ASSUME conn \in Nat PROVE <<>> = Stream!Bytes(0, 0)
<1>1. <<>> \in Seq(Byte) /\ Len(<<>>) = 0
  BY EmptySeq
<1>2. <<>> = [i \in 1 .. Len(<<>>) |-> <<conn, 0 + i>>]
  BY <1>1, RunIsBytes DEF Consecutive
<1>3. <<>> = [i \in 1 .. 0 |-> <<conn, 0 + i>>]
  BY <1>1, <1>2, Zenon
<1> QED
  BY <1>3 DEF Stream!Bytes

LEMMA InitStream == Init => Stream!Init
<1> SUFFICES ASSUME Init PROVE Stream!Init
  OBVIOUS
<1>1. Pos = 0
  <2>1. out = <<>> /\ taken = 0
    BY DEF Init
  <2>2. Len(out) = 0
    BY <2>1, EmptySeq, Zenon
  <2>3. Unread = 0
    BY DEF Init, Unread
  <2>4. taken = 0
    BY <2>1
  <2> QED
    BY <2>2, <2>3, <2>4 DEF Pos
<1>2. <<>> = Stream!Bytes(0, 0)
  BY NoBytes DEF Init
<1> QED
  BY <1>1, <1>2 DEF Init, Stream!Init, Stream!NoAnswer

(* The writer's steps are those of the peer of ByteStream, or stutters. *)
LEMMA PeerStream ==
    ASSUME IInv, Writen \/ PeerClose \/ PeerReset
    PROVE  [Stream!Next]_Stream!vars
<1>1. UNCHANGED <<conn, taken, pc, mode, cnt, ptr, buf, n, out, res>>
  BY DEF Writen, WriteCall, WriteSome, WriteIntr, WriteFails, PeerClose, PeerReset, sock, rio
<1>2. Pos' = Pos /\ res' = res /\ conn' = conn
  BY <1>1, ReaderUnchanged
<1>3. CASE (\E k \in Sizes : WriteCall(k)) \/ WriteIntr \/ WriteFails
  BY <1>2, <1>3 DEF WriteCall, WriteIntr, WriteFails, sock, Stream!vars
<1>4. CASE \E k \in 1 .. Cap : WriteSome(k)
  <2> PICK k \in 1 .. Cap : WriteSome(k)
    BY <1>4
  <2>a. k > 0 /\ k \in Nat /\ sent \in Nat
    BY BufAssumption, Facts DEF TypeOK
  <2>1. sent' > sent /\ peer = "open" /\ peer' = peer
    BY <2>a DEF WriteSome
  <2>2. Stream!Send
    BY <1>2, <2>1 DEF Stream!Send
  <2> QED
    BY <2>2 DEF Stream!Next
<1>5. CASE PeerClose
  <2>1. sent' = sent /\ peer = "open" /\ peer' = "closed" /\ conn > 0
    BY <1>5, Facts DEF PeerClose, Shape
  <2>2. Stream!End
    BY <1>2, <2>1 DEF Stream!End
  <2> QED
    BY <2>2 DEF Stream!Next
<1>6. CASE PeerReset
  <2>1. sent' = sent /\ peer = "open" /\ peer' = "reset"
    BY <1>6 DEF PeerReset
  <2>2. Stream!Break
    BY <1>2, <2>1 DEF Stream!Break
  <2> QED
    BY <2>2 DEF Stream!Next
<1> QED
  BY <1>3, <1>4, <1>5, <1>6 DEF Writen

(* accept() opens a new stream, of which nothing has been taken. *)
LEMMA ConnStream ==
    ASSUME IInv, Accept \/ Close \/ Readinitb
    PROVE  [Stream!Next]_Stream!vars
<1>1. CASE Accept
  <2>1. /\ conn' = conn + 1 /\ sent' = 0 /\ peer' = "open" /\ res' = res
        /\ out' = out /\ mode' = "none" /\ taken' = 0
    BY <1>1 DEF Accept
  <2>2. out = <<>>
    BY <1>1, Facts DEF Accept, Shape, Calls, Buffered
  <2>3. Len(out') = 0
    BY <2>1, <2>2, EmptySeq, Zenon
  <2>4. Unread' = 0
    BY <2>1 DEF Unread
  <2>5. taken' = 0
    BY <2>1
  <2>6. Pos' = 0
    BY <2>3, <2>4, <2>5 DEF Pos
  <2>7. Stream!Connect
    BY <2>1, <2>6 DEF Stream!Connect
  <2> QED
    BY <2>7 DEF Stream!Next
<1>2. CASE Close \/ Readinitb
  <2>1. UNCHANGED <<conn, peer, sent, taken, out, res>>
    BY <1>2 DEF Close, Readinitb, sock
  <2>2. Unread' = Unread
    BY <1>2 DEF Close, Readinitb, Unread, rio
  <2>3. Pos' = Pos
    BY <2>1, <2>2 DEF Pos
  <2> QED
    BY <2>1, <2>3 DEF Stream!vars
<1> QED
  BY <1>1, <1>2

LEMMA BeginStream == ASSUME IInv, Begin PROVE [Stream!Next]_Stream!vars
<1>1. UNCHANGED <<conn, peer, sent>>
  BY DEF Begin, ReadnCall, ReadnbCall, LineCall, Call, sock
<1>2. Pos' = Pos /\ res' = res
  BY BeginInv
<1> QED
  BY <1>1, <1>2 DEF Stream!vars

(* A failing call loses what it had copied. *)
LEMMA FailureStream ==
    ASSUME IInv, ReadnFails \/ RefillFails
    PROVE  [Stream!Next]_Stream!vars
<1>1. /\ pc \in Calls /\ Answer(-1, <<>>) /\ peer = "reset"
      /\ UNCHANGED <<conn, peer, sent, taken, mode>>
      /\ cnt' = cnt \/ (cnt <= 0 /\ cnt' = -1)
  BY DEF ReadnFails, RefillFails, Reading, Calls, Buffered, sock, rio
<1>2. /\ out' = <<>>
      /\ res' = [op |-> pc, n |-> n, val |-> -1, got |-> <<>>]
  BY <1>1 DEF Answer
<1>3. Len(out') = 0
  BY <1>2, EmptySeq, Zenon
<1>4. Unread' = Unread
  BY <1>1, Facts DEF Unread, TypeOK
<1>5. Pos' = taken - Unread
  BY <1>1, <1>3, <1>4, Facts DEF Pos
<1>6. Pos' \in Pos .. sent
  BY <1>5, Facts DEF TypeOK
<1>7. <<>> = Stream!Bytes(0, 0)
  BY NoBytes, Facts DEF TypeOK
<1>8. Stream!Fail(pc, n)
  BY <1>1, <1>2, <1>6, <1>7 DEF Stream!Fail
<1>9. /\ pc \in {"readn", "readnb"} => n \in Sizes
      /\ pc = "readlineb" => n \in LineSizes
  BY Facts DEF Shape
<1> QED
  BY <1>1, <1>8, <1>9 DEF Stream!Next, Calls, Buffered

(* A call that answers takes the next bytes in one step; one that goes on     *)
(* stutters.                                                                  *)
LEMMA ProgressStream ==
    ASSUME IInv, NEW bytes, NEW done, Progress(bytes, done)
    PROVE  [Stream!Next]_Stream!vars
<1>0. /\ UNCHANGED <<conn, peer, sent>>
      /\ Pos \in Nat /\ Len(bytes) \in Nat /\ n \in Nat /\ sent \in Nat /\ conn \in Nat
      /\ Len(<<>>) = 0 /\ taken' - Unread' = Pos + Len(bytes) /\ taken' <= sent /\ taken' \in Nat
      /\ Unread' \in Nat
  <2>1. Len(bytes) \in Nat /\ Len(<<>>) = 0
    BY LenProperties, EmptySeq DEF Progress
  <2>2. Unread' \in Nat
    BY BufAssumption DEF Progress, Unread
  <2> QED
    BY <2>1, <2>2, Facts DEF Progress, TypeOK
<1>1. CASE ~done
  <2>1. out' = bytes /\ res' = res
    BY <1>1 DEF Progress, Took
  <2>2. Pos' = Pos
    BY <1>0, <2>1 DEF Pos
  <2> QED
    BY <1>0, <2>1, <2>2 DEF Stream!vars
<1>2. CASE done
  <2>1. /\ out' = <<>>
        /\ res' = [op |-> pc, n |-> n, val |-> Len(bytes), got |-> bytes]
    BY <1>2 DEF Progress, Took, Answer
  <2>a. Len(out') = 0
    BY <1>0, <2>1, Zenon
  <2>2. Pos' = Pos + Len(bytes) /\ Pos + Len(bytes) <= sent
    BY <1>0, <2>a DEF Pos
  <2>3. bytes = [i \in 1 .. Len(bytes) |-> <<conn, Pos + i>>]
    BY <1>0, RunIsBytes DEF Progress
  <2>4. Stream!Take(pc, n, Len(bytes))
    BY <1>0, <2>1, <2>2, <2>3 DEF Stream!Take, Stream!Bytes
  <2>5. Allowed(bytes, done) /\ Shape /\ pc \in Calls
    BY Facts DEF Progress
  <2>6. peer = "closed" => Ended
    BY <2>5 DEF Shape, Ended, Calls, Buffered
  <2>7. CASE pc \in {"readn", "readnb"}
    <3>1. Len(bytes) \in 0 .. n /\ (Len(bytes) = n \/ Stream!AtEnd(Len(bytes)))
      BY <1>0, <1>2, <2>5, <2>6, <2>7 DEF Allowed, Stream!AtEnd, Ended
    <3>2. Stream!TakeBytes(pc, n) /\ n \in Sizes
      BY <2>4, <2>5, <2>7, <3>1 DEF Stream!TakeBytes, Shape
    <3> QED
      BY <2>7, <3>2 DEF Stream!Next
  <2>8. CASE pc = "readlineb"
    <3>1. /\ Len(bytes) \in 0 .. n - 1
          /\ \A i \in 1 .. Len(bytes) - 1 : Pos + i \notin Newlines
          /\ \/ Len(bytes) = n - 1 \/ Stream!AtEnd(Len(bytes))
             \/ Len(bytes) > 0 /\ Pos + Len(bytes) \in Newlines
      BY <1>0, <1>2, <2>5, <2>6, <2>8 DEF Allowed, Stream!AtEnd, Ended
    <3>2. Stream!TakeLine(n) /\ n \in LineSizes
      BY <2>4, <2>5, <2>8, <3>1 DEF Stream!TakeLine, Shape
    <3> QED
      BY <3>2 DEF Stream!Next
  <2> QED
    BY <2>5, <2>7, <2>8 DEF Calls, Buffered
<1> QED
  BY <1>1, <1>2

LEMMA StepStream == IInv /\ [Next]_vars => [Stream!Next]_Stream!vars
<1> SUFFICES ASSUME IInv, [Next]_vars PROVE [Stream!Next]_Stream!vars
  OBVIOUS
<1>1. CASE Next
  BY <1>1, NextCases, PeerStream, ConnStream, BeginStream, CallProgress,
     ProgressStream, FailureStream
<1>2. CASE UNCHANGED vars
  BY <1>2 DEF vars, sock, rio, Pos, Unread, Stream!vars
<1> QED
  BY <1>1, <1>2

(* The calls, made of short, interrupted and failing reads and of copies from *)
(* rio_buf, are indivisible steps on a stream (lines 752-927): each takes the *)
(* next bytes, and answers with fewer than it was asked for only at the end   *)
(* of a line or of the stream.                                                *)
THEOREM Implements == Spec => Promise
<1> QED
  BY InitStream, StepStream, Invariance, PTL DEF Spec, Promise, Stream!Spec
=============================================================================
