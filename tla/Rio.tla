-------------------------------- MODULE Rio ---------------------------------
(***************************************************************************)
(* The Rio package of src/csapp.c: a process reads connection after        *)
(* connection with rio_readn, or with rio_readnb and rio_readlineb through *)
(* one rio_t, while the peer writes with rio_writen.  The grain is one     *)
(* read or write system call, or one memcpy; the calls may be short,       *)
(* interrupted (EINTR) or fail.  Calls go through the Rio_ wrappers, which *)
(* end the process on an error.  A byte is <<connection, place>>.          *)
(***************************************************************************)
EXTENDS Integers, Sequences

CONSTANTS BufSize,     \* RIO_BUFSIZE
          Cap,         \* bytes the kernel holds of a connection
          Newlines,    \* the places of the newlines of a stream
          Sizes,       \* values of n given to rio_readn, rio_readnb, rio_writen
          LineSizes,   \* values of maxlen given to rio_readlineb
          MaxConn,     \* bound on the connections
          MaxBytes,    \* bound on the bytes the peer writes on a connection
          MaxSignals   \* bound on the interrupted system calls

ASSUME BufAssumption   == BufSize \in Nat \ {0} /\ Cap \in Nat \ {0}
ASSUME SizesAssumption == Sizes \subseteq Nat
ASSUME LinesAssumption == LineSizes \subseteq Nat \ {0}
ASSUME BoundsAssumption == MaxConn \in Nat /\ MaxBytes \in Nat /\ MaxSignals \in Nat

VARIABLES conn,        \* the number of the current connection
          peer,        \* the peer's end: "open", "closed" or "reset"
          sent, taken, \* bytes put on the connection, bytes read from it
          wpc, wleft,  \* the peer's rio_writen: "idle", "writing", "exit"; nleft
          asked,       \* bytes the peer's program gave to rio_writen
          signals,     \* interrupted system calls so far
          pc,          \* the reader: which call it is in, if any
          mode,        \* how it reads the connection: "none", "raw", "buffered"
          cnt, ptr, buf, \* rp->rio_cnt, rp->rio_bufptr, rp->rio_buf
          n,           \* the n or maxlen of the call
          out,         \* the bytes the call has put in usrbuf
          res          \* the latest answer

sock   == <<conn, peer, sent>>
writer == <<wpc, wleft, asked>>
rio    == <<cnt, ptr, buf>>
vars   == <<sock, taken, writer, signals, pc, mode, rio, n, out, res>>

Buffered == {"readnb", "readlineb"}
Calls    == {"readn"} \cup Buffered
Junk     == <<0, 0>>                 \* a byte of no connection
Byte     == Nat \X Nat

(* The bytes on offer to read(). *)
Avail == sent - taken

Init == /\ conn = 0 /\ peer = "closed" /\ sent = 0 /\ taken = 0
        /\ wpc = "idle" /\ wleft = 0 /\ asked = 0 /\ signals = 0
        /\ pc = "closed" /\ mode = "none" /\ n = 0 /\ out = <<>>
        /\ cnt \in -1 .. BufSize /\ ptr = 0       \* rio_t is on the stack
        /\ buf = [i \in 0 .. BufSize - 1 |-> Junk]
        /\ res = [op |-> "none", n |-> 0, val |-> 0, got |-> <<>>]

Accept ==
    /\ pc = "closed" /\ conn < MaxConn
    /\ conn' = conn + 1 /\ peer' = "open" /\ sent' = 0 /\ taken' = 0
    /\ wpc' = "idle" /\ wleft' = 0 /\ asked' = 0
    /\ pc' = "ready" /\ mode' = "none"
    /\ UNCHANGED <<signals, rio, n, out, res>>
Close == /\ pc = "ready" /\ pc' = "closed"
         /\ UNCHANGED <<sock, taken, writer, signals, mode, rio, n, out, res>>

-----------------------------------------------------------------------------
(* The peer; rio_writen of no bytes does nothing. *)
WriteCall(k) ==
    /\ wpc = "idle" /\ peer = "open" /\ conn > 0
    /\ k > 0 /\ asked + k <= MaxBytes
    /\ wpc' = "writing" /\ wleft' = k /\ asked' = asked + k
    /\ UNCHANGED <<sock, taken, signals, pc, mode, rio, n, out, res>>
(* MUTANT: a short write is taken for a whole one. *)
WriteSomeShort(k) ==
    /\ wpc = "writing" /\ peer = "open" /\ pc \notin {"closed", "exit"}
    /\ k <= wleft /\ k <= Cap - Avail
    /\ sent' = sent + k /\ wleft' = wleft - k
    /\ wpc' = "idle"
    /\ UNCHANGED <<conn, peer, taken, asked, signals, pc, mode, rio, n, out, res>>
(* write() takes k bytes. *)
WriteSome(k) ==
    /\ wpc = "writing" /\ peer = "open" /\ pc \notin {"closed", "exit"}
    /\ k <= wleft /\ k <= Cap - Avail
    /\ sent' = sent + k /\ wleft' = wleft - k
    /\ wpc' = IF wleft = k THEN "idle" ELSE "writing"
    /\ UNCHANGED <<conn, peer, taken, asked, signals, pc, mode, rio, n, out, res>>
WriteIntr ==
    /\ wpc = "writing" /\ peer = "open" /\ signals < MaxSignals
    /\ signals' = signals + 1
    /\ UNCHANGED <<sock, taken, writer, pc, mode, rio, n, out, res>>
(* The reader has closed: rio_writen returns -1 and Rio_writen exits. *)
WriteFails ==
    /\ wpc = "writing" /\ peer = "open" /\ pc \in {"closed", "exit"}
    /\ wpc' = "exit"
    /\ UNCHANGED <<sock, taken, wleft, asked, signals, pc, mode, rio, n, out, res>>
PeerClose ==
    /\ wpc # "writing" /\ peer = "open" /\ peer' = "closed"
    /\ UNCHANGED <<conn, sent, taken, writer, signals, pc, mode, rio, n, out, res>>
PeerReset ==
    /\ peer = "open" /\ peer' = "reset"
    /\ UNCHANGED <<conn, sent, taken, writer, signals, pc, mode, rio, n, out, res>>

-----------------------------------------------------------------------------
(* How a call answers: v is what it returns, bytes what is then in usrbuf. *)
Answer(v, bytes) ==
    /\ pc' = IF v = -1 THEN "exit" ELSE "ready"
    /\ out' = <<>>
    /\ res' = [op |-> pc, n |-> n, val |-> v, got |-> bytes]
(* The call goes on with those bytes in usrbuf, or is done. *)
Took(bytes, done) == IF done THEN Answer(Len(bytes), bytes)
                     ELSE out' = bytes /\ UNCHANGED <<pc, res>>

Call(op, k) ==
    /\ pc = "ready" /\ pc' = op /\ n' = k
    /\ UNCHANGED <<sock, taken, writer, signals, rio, out, res>>

(* rio_readn.  No program reads a connection both with rio_readn and through *)
(* a rio_t, whose unread bytes the former would overtake.                    *)
ReadnCall(k) == /\ mode \in {"none", "raw"} /\ mode' = "raw" /\ Call("readn", k)
(* nleft reaches 0: after a read(), or at once when n is 0. *)
ReadnNothing == /\ pc = "readn" /\ n = 0 /\ Answer(0, <<>>)
                /\ UNCHANGED <<sock, taken, writer, signals, mode, rio, n>>
ReadnGets(k) ==
    /\ pc = "readn" /\ peer # "reset"
    /\ k <= Avail /\ Len(out) + k <= n
    /\ taken' = taken + k
    /\ LET bytes == out \o [i \in 1 .. k |-> <<conn, taken + i>>]
       IN  Took(bytes, Len(bytes) = n)
    /\ UNCHANGED <<sock, writer, signals, mode, rio, n>>
ReadnEnd ==
    /\ pc = "readn" /\ n > 0 /\ peer = "closed" /\ Avail = 0
    /\ Answer(Len(out), out)
    /\ UNCHANGED <<sock, taken, writer, signals, mode, rio, n>>
(* MUTANT: an interrupted read is taken for the end of file. *)
ReadnIntrEnds ==
    /\ pc = "readn" /\ n > 0 /\ signals < MaxSignals
    /\ signals' = signals + 1
    /\ Answer(Len(out), out)
    /\ UNCHANGED <<sock, taken, writer, mode, rio, n>>
ReadnIntr ==
    /\ pc = "readn" /\ n > 0 /\ signals < MaxSignals
    /\ signals' = signals + 1
    /\ UNCHANGED <<sock, taken, writer, pc, mode, rio, n, out, res>>
ReadnFails ==
    /\ pc = "readn" /\ n > 0 /\ peer = "reset"
    /\ Answer(-1, <<>>)
    /\ UNCHANGED <<sock, taken, writer, signals, mode, rio, n>>
Readn == \/ \E k \in Sizes : ReadnCall(k)
         \/ ReadnNothing
         \/ \E k \in 1 .. Cap : ReadnGets(k)
         \/ ReadnEnd \/ ReadnIntr \/ ReadnFails

-----------------------------------------------------------------------------
(* MUTANT: rio_cnt of the previous connection is kept. *)
ReadinitbKeepsCnt ==
    /\ pc = "ready" /\ mode = "none" /\ mode' = "buffered"
    /\ ptr' = 0
    /\ UNCHANGED <<sock, taken, writer, signals, pc, cnt, buf, n, out, res>>
Readinitb ==
    /\ pc = "ready" /\ mode = "none" /\ mode' = "buffered"
    /\ cnt' = 0 /\ ptr' = 0
    /\ UNCHANGED <<sock, taken, writer, signals, pc, buf, n, out, res>>

(* A call is in rio_read: it has bytes to copy yet. *)
Reading == \/ pc = "readnb" /\ n > 0
           \/ pc = "readlineb" /\ n > 1

(* The refill of rio_read. *)
Refill(k) ==
    /\ Reading /\ cnt <= 0 /\ peer # "reset"
    /\ k <= Avail /\ k <= BufSize
    /\ taken' = taken + k
    /\ cnt' = k /\ ptr' = 0
    /\ buf' = [i \in 0 .. BufSize - 1 |->
                 IF i < k THEN <<conn, taken + i + 1>> ELSE buf[i]]
    /\ UNCHANGED <<sock, writer, signals, pc, mode, n, out, res>>
(* MUTANT: the loop goes on at the end of file. *)
RefillEndLoops ==
    /\ Reading /\ cnt <= 0 /\ peer = "closed" /\ Avail = 0
    /\ cnt' = 0
    /\ UNCHANGED <<sock, taken, writer, signals, pc, mode, ptr, buf, n, out, res>>
RefillEnd ==
    /\ Reading /\ cnt <= 0 /\ peer = "closed" /\ Avail = 0
    /\ cnt' = 0
    /\ Answer(Len(out), out)
    /\ UNCHANGED <<sock, taken, writer, signals, mode, ptr, buf, n>>
RefillIntr ==
    /\ Reading /\ cnt <= 0 /\ signals < MaxSignals
    /\ signals' = signals + 1 /\ cnt' = -1
    /\ UNCHANGED <<sock, taken, writer, pc, mode, ptr, buf, n, out, res>>
RefillFails ==
    /\ Reading /\ cnt <= 0 /\ peer = "reset"
    /\ cnt' = -1
    /\ Answer(-1, <<>>)
    /\ UNCHANGED <<sock, taken, writer, signals, mode, ptr, buf, n>>

(* The memcpy of rio_read. *)
Copy(k) == /\ ptr' = ptr + k /\ cnt' = cnt - k
           /\ UNCHANGED <<sock, taken, writer, signals, mode, buf, n>>
Copied(k) == out \o [i \in 1 .. k |-> buf[ptr + i - 1]]

(* rio_readnb *)
ReadnbCall(k)  == mode = "buffered" /\ Call("readnb", k) /\ UNCHANGED mode
ReadnbNothing  == /\ pc = "readnb" /\ n = 0 /\ Answer(0, <<>>)
                  /\ UNCHANGED <<sock, taken, writer, signals, mode, rio, n>>
ReadnbCopy ==
    /\ pc = "readnb" /\ Reading /\ cnt > 0
    /\ LET k == IF cnt < n - Len(out) THEN cnt ELSE n - Len(out)
       IN  Copy(k) /\ Took(Copied(k), Len(out) + k = n)

(* rio_readlineb; its loop ends at maxlen - 1 bytes or after a newline. *)
LineCall(k)  == mode = "buffered" /\ Call("readlineb", k) /\ UNCHANGED mode
LineNothing  == /\ pc = "readlineb" /\ n = 1 /\ Answer(0, <<>>)
                /\ UNCHANGED <<sock, taken, writer, signals, mode, rio, n>>
IsNewline(b) == b[2] \in Newlines
(* MUTANT: n <= maxlen in the loop of rio_readlineb. *)
LineCopyOneMore ==
    /\ pc = "readlineb" /\ Reading /\ cnt > 0
    /\ Copy(1) /\ Took(Copied(1), Len(out) + 1 = n \/ IsNewline(buf[ptr]))
LineCopy ==
    /\ pc = "readlineb" /\ Reading /\ cnt > 0
    /\ Copy(1) /\ Took(Copied(1), Len(out) + 2 = n \/ IsNewline(buf[ptr]))

Rio_read == \/ \E k \in 1 .. Cap : Refill(k)
            \/ RefillEnd \/ RefillIntr \/ RefillFails
Readnb   == ReadnbNothing \/ ReadnbCopy \/ \E k \in Sizes : ReadnbCall(k)
Readline == LineNothing \/ LineCopy \/ \E k \in LineSizes : LineCall(k)
Writen   == \/ \E k \in Sizes : WriteCall(k)
            \/ \E k \in 1 .. Cap : WriteSome(k)
            \/ WriteIntr \/ WriteFails

Next == \/ Accept \/ Close \/ PeerClose \/ PeerReset
        \/ Writen \/ Readn \/ Readinitb \/ Rio_read \/ Readnb \/ Readline

Spec == Init /\ [][Next]_vars
(* A process in a call goes on with it. *)
InCall == pc \in Calls /\ (Readn \/ Rio_read \/ Readnb \/ Readline)
FairSpec == Spec /\ WF_vars(InCall)

-----------------------------------------------------------------------------
TypeOK == /\ conn \in Nat /\ peer \in {"open", "closed", "reset"}
          /\ sent \in Nat /\ taken \in Nat /\ taken <= sent
          /\ wpc \in {"idle", "writing", "exit"} /\ wleft \in Nat /\ asked \in Nat
          /\ signals \in 0 .. MaxSignals
          /\ pc \in {"closed", "ready", "exit"} \cup Calls
          /\ mode \in {"none", "raw", "buffered"}
          /\ cnt \in -1 .. BufSize /\ ptr \in 0 .. BufSize
          /\ buf \in [0 .. BufSize - 1 -> Byte]
          /\ n \in Nat /\ out \in Seq(Byte)
          /\ res.val \in Int /\ res.got \in Seq(Byte)

(* Bytes read() has delivered and no call has returned yet. *)
Unread == IF mode = "buffered" /\ cnt > 0 THEN cnt ELSE 0
Pos    == taken - Unread - Len(out)

(* Nothing is lost, repeated or reordered between read() and usrbuf: what  *)
(* the buffer holds unread and what the call has copied are the next bytes *)
(* of this connection, whatever an earlier one left in the same rio_t.     *)
InOrder ==
    /\ mode = "buffered" => \A i \in 0 .. cnt - 1 :
         ptr + i < BufSize /\ buf[ptr + i] = <<conn, taken - cnt + i + 1>>
    /\ Pos >= 0
    /\ \A i \in 1 .. Len(out) : out[i] = <<conn, Pos + i>>

(* usrbuf never overflows: n bytes, or maxlen with the terminating zero. *)
InBounds ==
    /\ pc \in {"readn", "readnb"} => Len(out) <= n
    /\ pc = "readlineb" => Len(out) + 1 <= n
    /\ res.op \in {"readn", "readnb"} => Len(res.got) <= res.n
    /\ res.op = "readlineb" => Len(res.got) + 1 <= res.n

(* rio_writen returns n only when all n bytes are on the connection. *)
Written == wpc # "exit" => asked = sent + wleft /\ (wpc = "idle" => wleft = 0)

(* The calls are the indivisible steps of ByteStream. *)
Stream == INSTANCE ByteStream WITH
            ended <- peer = "closed" /\ conn > 0, broken <- peer = "reset",
            pos <- Pos, ans <- res
Promise == Stream!Spec

(* A call returns once the peer has closed or reset the connection, however *)
(* the bytes arrived and whatever interrupted the reads.                    *)
Answered == (pc \in Calls /\ peer # "open") ~> (pc \notin Calls)
=============================================================================
