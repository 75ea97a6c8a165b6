----------------------------- MODULE ByteStream -----------------------------
(***************************************************************************)
(* What the Rio package of src/csapp.c promises the reader of a            *)
(* connection: each call is one indivisible step that takes the next bytes *)
(* of the stream; it takes fewer than asked only when a line ends or when  *)
(* the peer has closed and every byte has been taken; it fails only on a   *)
(* broken connection.  A byte is named <<connection, place in the stream>>.*)
(***************************************************************************)
EXTENDS Integers

CONSTANTS Newlines,      \* the places of the newlines of a stream
          Sizes,         \* the sizes asked of rio_readn and rio_readnb
          LineSizes      \* the values of maxlen given to rio_readlineb

VARIABLES conn,          \* the number of the current connection
          sent,          \* bytes the peer has put on it
          ended, broken, \* the peer has closed, has reset the connection
          pos,           \* bytes the calls have taken from it
          ans            \* the answer of the latest call

vars == <<conn, sent, ended, broken, pos, ans>>

Bytes(p, k) == [i \in 1 .. k |-> <<conn, p + i>>]
NoAnswer    == [op |-> "none", n |-> 0, val |-> 0, got |-> Bytes(0, 0)]

Init == /\ conn = 0 /\ sent = 0 /\ pos = 0
        /\ ended = FALSE /\ broken = FALSE
        /\ ans = NoAnswer

Connect == /\ conn' = conn + 1 /\ sent' = 0 /\ pos' = 0
           /\ ended' = FALSE /\ broken' = FALSE
           /\ UNCHANGED ans

(* The peer sends, closes, or resets. *)
Send  == /\ ~ended /\ ~broken
         /\ sent' > sent
         /\ UNCHANGED <<conn, ended, broken, pos, ans>>
End   == ended' = TRUE /\ UNCHANGED <<conn, sent, broken, pos, ans>>
Break == broken' = TRUE /\ UNCHANGED <<conn, sent, ended, pos, ans>>

(* A call of kind op takes k bytes and answers. *)
Take(op, n, k) ==
    /\ pos + k <= sent
    /\ pos' = pos + k
    /\ ans' = [op |-> op, n |-> n, val |-> k, got |-> Bytes(pos, k)]
    /\ UNCHANGED <<conn, sent, ended, broken>>

AtEnd(k) == ended /\ pos + k = sent

TakeBytes(op, n) == \E k \in 0 .. n : (k = n \/ AtEnd(k)) /\ Take(op, n, k)

TakeLine(n) ==
    \E k \in 0 .. n - 1 :
      /\ \A i \in 1 .. k - 1 : pos + i \notin Newlines
      /\ k = n - 1 \/ AtEnd(k) \/ (k > 0 /\ pos + k \in Newlines)
      /\ Take("readlineb", n, k)

(* What a failing call had taken is lost. *)
Fail(op, n) == /\ broken
               /\ pos' \in pos .. sent
               /\ ans' = [op |-> op, n |-> n, val |-> -1, got |-> Bytes(0, 0)]
               /\ UNCHANGED <<conn, sent, ended, broken>>

Next == \/ Connect \/ Send \/ End \/ Break
        \/ \E n \in Sizes, op \in {"readn", "readnb"} :
             TakeBytes(op, n) \/ Fail(op, n)
        \/ \E n \in LineSizes : TakeLine(n) \/ Fail("readlineb", n)

Spec == Init /\ [][Next]_vars
=============================================================================
