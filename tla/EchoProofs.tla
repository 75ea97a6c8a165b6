----------------------------- MODULE EchoProofs -----------------------------
(***************************************************************************)
(* Proofs that the echo programs have one socket each when they get to     *)
(* their loops, and that a client prints its own bytes as they came back,  *)
(* for any number of clients, addresses and bytes, and every MAXLINE.      *)
(***************************************************************************)
EXTENDS Echo, SequenceTheorems, WellFoundedInduction, TLAPS

-----------------------------------------------------------------------------
(* Pieces of a client's input *)

Pieces == Clients \X Nat \X BOOLEAN

(* s is what follows the first n bytes of c's input. *)
Numbered(c, s, n) == \A k \in DOMAIN s : s[k][1] = c /\ s[k][2] = n + k

(* b is what one fgets or rio_readlineb returns. *)
IsLine(b) == b # <<>> /\ Line(b) = b /\ AfterLine(b) = <<>>

LEMMA LeastNat == ASSUME NEW T, T \subseteq Nat, T # {}
                  PROVE  /\ Min(T) \in T
                         /\ \A k \in T : Min(T) <= k
<1> DEFINE R == OpToRel(<, Nat)
<1>1. \A x, y \in Nat : x < y => <<x, y>> \in R
  BY DEF OpToRel
<1>2. IsWellFoundedOn(R, Nat)
  BY NatLessThanWellFounded
<1> HIDE DEF R
<1>3. PICK x \in T : \A y \in T : ~(<<y, x>> \in R)
  BY <1>2, WFMin
<1>4. ASSUME NEW y \in T PROVE x <= y
  <2>1. x \in Nat /\ y \in Nat /\ (x <= y \/ y < x)
    OBVIOUS
  <2> QED
    BY <1>1, <1>3, <2>1, Zenon
<1> QED
  BY <1>4 DEF Min

(* fgets and rio_readlineb cut a line from the front, and leave the rest. *)
LEMMA Cut ==
  ASSUME NEW s \in Seq(Pieces)
  PROVE  /\ Line(s) \in Seq(Pieces) /\ AfterLine(s) \in Seq(Pieces)
         /\ Line(<<>>) = <<>>
         /\ s # <<>> => IsLine(Line(s))
         /\ \A c, n : Numbered(c, s, n) => Numbered(c, Line(s), n)
         /\ \A c, n : n \in Nat /\ Numbered(c, s, n) => Numbered(c, AfterLine(s), n + Len(Line(s)))
<1> DEFINE m == LineLen(s)
<1>1. Ends(s) \subseteq 1 .. Len(s) /\ Ends(s) \subseteq Nat
  BY DEF Ends
<1>2. /\ m \in 0 .. Len(s) /\ (s # <<>> => m \in 1 .. Len(s))
      /\ \A k \in Ends(s) : m <= k
      /\ m \in Ends(s) \/ (Ends(s) = {} /\ m = Len(s))
  BY <1>1, LeastNat DEF LineLen
<1> HIDE DEF m
<1>3. /\ Line(s) = SubSeq(s, 1, m) /\ AfterLine(s) = SubSeq(s, m + 1, Len(s))
  BY DEF Line, AfterLine, m
<1>4. /\ Line(s) \in Seq(Pieces) /\ Len(Line(s)) = m
      /\ \A k \in 1 .. m : Line(s)[k] = s[k]
  BY <1>2, <1>3
<1>5. /\ AfterLine(s) \in Seq(Pieces) /\ Len(AfterLine(s)) = Len(s) - m
      /\ \A k \in 1 .. Len(s) - m : AfterLine(s)[k] = s[m + k]
  BY <1>2, <1>3
<1>6. Line(<<>>) = <<>>
  BY DEF Line
<1> DEFINE l == Line(s)
<1>7. Ends(l) = Ends(s) \cap 1 .. m
  BY <1>1, <1>2, <1>4 DEF Ends
<1>8. LineLen(l) = m
  <2>1. CASE Ends(s) = {}
    BY <1>4, <1>7, <2>1 DEF LineLen
  <2>2. CASE Ends(s) # {}
    <3>1. Ends(l) = {m}
      BY <1>1, <1>2, <1>7, <2>2
    <3>2. Min({m}) = m
      <4>1. {m} \subseteq Nat /\ {m} # {}
        BY <1>2
      <4>2. Min({m}) \in {m}
        BY <4>1, LeastNat
      <4> QED
        BY <4>2
    <3> QED
      BY <3>1, <3>2 DEF LineLen
  <2> QED
    BY <2>1, <2>2
<1>9. s # <<>> => IsLine(l)
  <2> HIDE DEF l
  <2>1. l \in Seq(Pieces) /\ Len(l) = m
    BY <1>4 DEF l
  <2>2. Line(l) = l /\ AfterLine(l) = <<>>
    BY <1>8, <2>1 DEF Line, AfterLine
  <2>3. s # <<>> => l # <<>>
    BY <1>2, <2>1
  <2> QED
    BY <2>2, <2>3 DEF IsLine
<1>10. ASSUME NEW c, NEW n, Numbered(c, s, n)
       PROVE  Numbered(c, Line(s), n)
  BY <1>2, <1>4, <1>10 DEF Numbered
<1>11. ASSUME NEW c, NEW n \in Nat, Numbered(c, s, n)
       PROVE  Numbered(c, AfterLine(s), n + Len(Line(s)))
  <2> SUFFICES ASSUME NEW k \in 1 .. Len(s) - m
               PROVE  AfterLine(s)[k][1] = c /\ AfterLine(s)[k][2] = (n + m) + k
    BY <1>4, <1>5 DEF Numbered
  <2>1. m + k \in 1 .. Len(s) /\ AfterLine(s)[k] = s[m + k] /\ n + (m + k) = (n + m) + k
    BY <1>2, <1>5
  <2> QED
    BY <1>11, <2>1 DEF Numbered
<1> QED
  BY <1>4, <1>5, <1>6, <1>9, <1>10, <1>11

LEMMA NumberedMore ==
  ASSUME NEW c, NEW s \in Seq(Pieces), NEW t \in Seq(Pieces),
         Numbered(c, s, 0), Numbered(c, t, Len(s))
  PROVE  Numbered(c, s \o t, 0)
<1> SUFFICES ASSUME NEW k \in 1 .. Len(s) + Len(t)
             PROVE  (s \o t)[k][1] = c /\ (s \o t)[k][2] = 0 + k
  BY ConcatProperties DEF Numbered
<1>1. CASE k <= Len(s)
  BY <1>1, ConcatProperties DEF Numbered
<1>2. CASE k > Len(s)
  <2>1. k - Len(s) \in 1 .. Len(t) /\ (s \o t)[k] = t[k - Len(s)]
    BY <1>2, ConcatProperties
  <2> QED
    BY <2>1 DEF Numbered
<1> QED
  BY <1>1, <1>2

LEMMA PrefixMore ==
  ASSUME NEW s \in Seq(Pieces), NEW t \in Seq(Pieces), NEW u \in Seq(Pieces), IsPrefix(s, t)
  PROVE  IsPrefix(s, t \o u)
<1>1. Len(s) <= Len(t) /\ SubSeq(s, 1, Len(s)) = SubSeq(t, 1, Len(s))
  BY DEF IsPrefix
<1>2. Len(t \o u) = Len(t) + Len(u)
  BY ConcatProperties
<1>3. SubSeq(t, 1, Len(s)) = SubSeq(t \o u, 1, Len(s))
  <2>1. CASE Len(s) = 0
    BY <2>1, SubSeqEmpty
  <2>2. CASE Len(s) # 0
    BY <1>1, <2>2, SubSeqOfConcat1
  <2> QED
    BY <2>1, <2>2
<1> QED
  BY <1>1, <1>2, <1>3 DEF IsPrefix

LEMMA PrefixSelf == ASSUME NEW s PROVE IsPrefix(s, s)
BY DEF IsPrefix

-----------------------------------------------------------------------------
(* The invariant *)

Opens == {"open", "try"}
Loop  == {"accept", "serve", "close", "select", "command"}

Typed ==
    /\ programs \in Programs
    /\ at \in [Procs -> Opens \cup {"read", "echo", "done", "ended"} \cup Loop]
    /\ \A c \in Clients : at[c] \notin Loop
    /\ at[Server] \notin {"read", "echo", "done"}
    /\ left \in [Procs -> Nat] /\ socks \in [Procs -> Int]
    /\ listening \in BOOLEAN
    /\ backlog \in Seq(Clients) /\ serving \in Procs
    /\ at[Server] \in {"serve", "close"} => serving \in Clients
    /\ link \in [Clients -> {"none", "up", "down"}]
    /\ up \in [Clients -> Seq(Pieces)] /\ down \in [Clients -> Seq(Pieces)]
    /\ input \in [Clients -> Seq(Pieces)] /\ buf \in [Clients -> Seq(Pieces)]
    /\ got \in [Clients -> Seq(Pieces)] /\ printed \in [Clients -> Seq(Pieces)]

(* A socket is kept while it is tried, and no longer.  A connection stands    *)
(* only on a socket that listens, in a server's loop.                         *)
Walking ==
    /\ \A p \in Procs : /\ at[p] = "open" => socks[p] = 0
                        /\ at[p] = "try"  => socks[p] = 1
    /\ \A c \in Clients : /\ at[c] \in Opens => link[c] = "none"
                          /\ link[c] = "up" => listening
    /\ listening => at[Server] \in Loop

(* What has been printed and what is to come are c's input, in order; a line  *)
(* written and not yet shown is on its way, whole, up or down.  Only what the *)
(* server sent back while the connection stood comes down.                    *)
Echoed(c) ==
    /\ Numbered(c, printed[c], 0)
    /\ at[c] \in Opens \cup {"read"} =>
          /\ Numbered(c, input[c], Len(printed[c]))
          /\ down[c] = <<>>
    /\ at[c] \in Opens => up[c] = <<>> /\ got[c] = <<>> /\ printed[c] = <<>>
    /\ at[c] = "echo" =>
          /\ IsLine(buf[c])
          /\ Numbered(c, buf[c], Len(printed[c]))
          /\ Numbered(c, input[c], Len(printed[c]) + Len(buf[c]))
          /\ down[c] \in {<<>>, buf[c]}
    /\ link[c] = "up" \/ down[c] # <<>> => got[c] = printed[c]
    /\ IsPrefix(got[c], printed[c])
    /\ up[c] # <<>> /\ at[Server] # "ended" /\ ~Eof(c) =>
          at[c] = "echo" /\ up[c] = buf[c] /\ down[c] = <<>> /\ link[c] = "up"

EchoInv == Typed /\ Walking /\ OneSocket /\ \A c \in Clients : Echoed(c)

LEMMA ServerApart == /\ Server \in Procs /\ Server \notin Clients
                     /\ \A c \in Clients : c \in Procs /\ c # Server
                     /\ \A p \in Procs : p \in Clients \/ p = Server
BY ClientAssumption DEF Server, Procs

LEMMA WaitingLoops == Waiting \in {"select", "accept"}
BY DEF Waiting

LEMMA EchoInitially == Init => EchoInv
<1> SUFFICES ASSUME Init PROVE EchoInv
  OBVIOUS
<1>1. PICK f \in [Clients -> Inputs] : input = [c \in Clients |-> Bytes(c, f[c])]
  BY DEF Init
<1>2. ASSUME NEW c \in Clients
      PROVE  input[c] \in Seq(Pieces) /\ Numbered(c, input[c], 0)
  <2>1. f[c] \in Seq(BOOLEAN)
    BY <1>1, InputsAssumption
  <2>2. input[c] = Bytes(c, f[c]) /\ DOMAIN f[c] = 1 .. Len(f[c]) /\ Len(f[c]) \in Nat
    BY <1>1, <2>1
  <2>3. \A k \in 1 .. Len(f[c]) : <<c, k, f[c][k]>> \in Pieces
    BY <2>1 DEF Pieces
  <2> QED
    BY <2>2, <2>3 DEF Bytes, Numbered
<1>3. Typed
  <2>1. input \in [Clients -> Seq(Pieces)]
    BY <1>1, <1>2
  <2>2. <<>> \in Seq(Pieces) /\ <<>> \in Seq(Clients)
    OBVIOUS
  <2>3. programs \in Programs /\ left \in [Procs -> Nat] /\ socks \in [Procs -> Int]
    BY SizesAssumption DEF Init
  <2>4. /\ at \in [Procs -> Opens \cup {"read", "echo", "done", "ended"} \cup Loop]
        /\ \A p \in Procs : at[p] = "open"
    BY DEF Init, Opens
  <2> QED
    BY <2>1, <2>2, <2>3, <2>4, ServerApart DEF Init, Typed, Loop, Server
<1>4. Walking /\ OneSocket
  BY ServerApart DEF Init, Walking, OneSocket, Opens, Loop
<1>5. ASSUME NEW c \in Clients
      PROVE  Echoed(c)
  <2>1. at[c] = "open" /\ printed[c] = <<>> /\ got[c] = <<>> /\ down[c] = <<>> /\ up[c] = <<>>
    BY ServerApart DEF Init
  <2>2. Numbered(c, <<>>, 0) /\ IsPrefix(<<>>, <<>>)
    BY PrefixSelf DEF Numbered
  <2> QED
    BY <1>2, <2>1, <2>2 DEF Echoed, Opens
<1> QED
  BY <1>3, <1>4, <1>5 DEF EchoInv

-----------------------------------------------------------------------------
(* What an action does not touch *)

Untouched(c) == UNCHANGED <<link[c], up[c], down[c], input[c], buf[c], got[c], printed[c]>>

LEMMA EchoedKept ==
  ASSUME NEW c, Echoed(c), Untouched(c), at'[c] = at[c],
         at'[Server] = "ended" \/ at[Server] # "ended"
  PROVE  Echoed(c)'
BY Zenon DEF Echoed, Untouched, Eof

LEMMA AllKept ==
  ASSUME \A c \in Clients : Echoed(c), UNCHANGED <<link, up, down, clientVars>>,
         \A c \in Clients : at'[c] = at[c],
         at'[Server] = "ended" \/ at[Server] # "ended"
  PROVE  \A c \in Clients : Echoed(c)'
<1> TAKE c \in Clients
<1>1. Untouched(c)
  BY DEF Untouched, clientVars
<1> QED
  BY <1>1, EchoedKept

-----------------------------------------------------------------------------
(* open_clientfd and open_listenfd *)

(* A process goes on, at x with s sockets, before it has any connection. *)
Walks(p, x, s) ==
    /\ at[p] \in Opens /\ at' = [at EXCEPT ![p] = x]
    /\ s \in Int /\ socks' = [socks EXCEPT ![p] = s] /\ left' \in [Procs -> Nat]
    /\ UNCHANGED <<programs, listening, netVars, clientVars>>
    /\ \/ x = "ended" /\ s \in {0, socks[p]}
       \/ x = "open" /\ s = 0
       \/ x = "try" /\ s = 1
       \/ x = "read" /\ s = 0 /\ p \in Clients /\ Notes(p)
       \/ x = "accept" /\ s = 1 /\ p = Server /\ Notes(p)

LEMMA WalksStep ==
  ASSUME EchoInv, NEW p \in Procs, NEW x, NEW s, Walks(p, x, s)
  PROVE  EchoInv'
<1>0. Typed /\ Walking /\ OneSocket /\ \A c \in Clients : Echoed(c)
  BY DEF EchoInv
<1>1. /\ \A q \in Procs : at'[q] = IF q = p THEN x ELSE at[q]
      /\ \A q \in Procs : socks'[q] = IF q = p THEN s ELSE socks[q]
      /\ link' = link /\ listening' = listening /\ programs' = programs
  BY <1>0 DEF Walks, Typed, netVars
<1>2. x \in Opens \cup {"read", "ended", "accept"} /\ (x = "accept" => p = Server)
      /\ (x = "read" => p \in Clients)
  BY DEF Walks, Opens
<1>3. Typed'
  <2>1. at' \in [Procs -> Opens \cup {"read", "echo", "done", "ended"} \cup Loop]
    BY <1>0, <1>2 DEF Typed, Walks, Loop
  <2>2. /\ \A c \in Clients : at'[c] \notin Loop
        /\ at'[Server] \notin {"read", "echo", "done"}
        /\ at'[Server] \in {"serve", "close"} => at[Server] \in {"serve", "close"}
    BY <1>0, <1>1, <1>2, ServerApart DEF Typed, Loop, Opens
  <2>3. socks' \in [Procs -> Int]
    BY <1>0 DEF Typed, Walks
  <2> QED
    BY <1>0, <2>1, <2>2, <2>3 DEF Typed, Walks, netVars, clientVars
<1>4. Walking'
  <2>1. \A q \in Procs : (at'[q] = "open" => socks'[q] = 0) /\ (at'[q] = "try" => socks'[q] = 1)
    BY <1>0, <1>1 DEF Walking, Walks
  <2>2. \A c \in Clients : (at'[c] \in Opens => link'[c] = "none") /\ (link'[c] = "up" => listening')
    BY <1>0, <1>1, ServerApart DEF Walking, Walks
  <2>3. listening' => at'[Server] \in Loop
    BY <1>0, <1>1, ServerApart DEF Walking, Walks, Loop, Opens
  <2> QED
    BY <2>1, <2>2, <2>3 DEF Walking
<1>5. OneSocket'
  <2> SUFFICES ASSUME NEW q \in Procs,
                      at'[q] \in {"read", "echo", "accept", "serve", "close", "select", "command"}
               PROVE  /\ socks'[q] <= 1
                      /\ ~Notes(q)' => /\ socks'[q] = 1
                                       /\ IF q = Server THEN listening' ELSE link'[q] # "none"
    BY DEF OneSocket
  <2>1. Notes(q)' <=> Notes(q)
    BY <1>1 DEF Notes, Program
  <2>2. CASE q = p
    BY <1>1, <2>1, <2>2 DEF Walks
  <2>3. CASE q # p
    BY <1>0, <1>1, <2>1, <2>3 DEF OneSocket
  <2> QED
    BY <2>2, <2>3
<1>6. ASSUME NEW c \in Clients
      PROVE  Echoed(c)'
  <2>1. Untouched(c)
    BY DEF Walks, netVars, clientVars, Untouched
  <2>2. at'[Server] = "ended" \/ at[Server] # "ended"
    BY <1>1, ServerApart DEF Walks, Opens
  <2>3. CASE c # p
    BY <1>0, <1>1, <2>1, <2>2, <2>3, ServerApart, EchoedKept
  <2>4. CASE c = p
    <3>1. /\ at[c] \in Opens /\ at'[c] \in Opens \cup {"read", "ended"}
          /\ down[c] = <<>> /\ up[c] = <<>>
      BY <1>0, <1>1, <1>2, <2>4, ServerApart DEF Walks, Echoed
    <3> QED
      BY <1>0, <2>1, <2>2, <3>1 DEF Echoed, Untouched, Eof, Opens
  <2> QED
    BY <2>3, <2>4
<1> QED
  BY <1>3, <1>4, <1>5, <1>6 DEF EchoInv

LEMMA OpeningStep ==
  ASSUME EchoInv, NEW p \in Procs, Opening(p) \/ (p = Server /\ BindTurned)
  PROVE  EchoInv'
<1>0. Typed /\ Walking /\ socks[p] \in Int /\ left[p] \in Nat /\ at[p] \in Opens
  <2>1. Typed /\ Walking
    BY DEF EchoInv
  <2> QED
    BY <2>1 DEF Typed, Opening, OpenFails, Socket, TryFails, NoAddress, BindTurned, Goes, Leaves, Opens
<1>1. /\ at[p] = "open" => socks[p] = 0
      /\ at[p] = "try" => socks[p] = 1
  BY <1>0 DEF Walking
<1>2. /\ left \in [Procs -> Nat] /\ [left EXCEPT ![p] = 0] \in [Procs -> Nat]
      /\ left[p] > 0 => [left EXCEPT ![p] = @ - 1] \in [Procs -> Nat]
      /\ [socks EXCEPT ![p] = socks[p]] = socks
  BY <1>0 DEF Typed
<1>3. CASE OpenFails(p)
  <2>1. Walks(p, "ended", 0) \/ Walks(p, "open", 0)
    BY <1>0, <1>2, <1>3 DEF OpenFails, Leaves, Goes, Walks
  <2> QED
    BY <2>1, WalksStep
<1>4. CASE Socket(p)
  <2>1. CASE Goes(p, "open", "try") /\ socks' = [socks EXCEPT ![p] = @ + 1]
    <3>0. socks[p] + 1 = 1
      BY <1>1, <2>1 DEF Goes
    <3>1. socks' = [socks EXCEPT ![p] = 1]
      BY <2>1, <3>0, Zenon
    <3>2. left' \in [Procs -> Nat]
      <4>1. left[p] > 0 /\ left' = [left EXCEPT ![p] = @ - 1]
        BY <1>4, Zenon DEF Socket
      <4> QED
        BY <1>2, <4>1, Zenon
    <3>3. UNCHANGED <<programs, listening, netVars, clientVars>>
      BY <1>4 DEF Socket
    <3>4. at' = [at EXCEPT ![p] = "try"]
      BY <2>1 DEF Goes
    <3>5. Walks(p, "try", 1)
      BY <1>0, <3>1, <3>2, <3>3, <3>4 DEF Walks
    <3> QED
      BY <3>5, WalksStep
  <2>2. CASE Goes(p, "open", "open") /\ UNCHANGED socks
    <3>1. Walks(p, "open", 0)
      BY <1>0, <1>1, <1>2, <1>4, <2>2 DEF Socket, Goes, Walks
    <3> QED
      BY <3>1, WalksStep
  <2> QED
    BY <1>4, <2>1, <2>2 DEF Socket
<1>5. CASE TryFails(p)
  <2>0. socks[p] - 1 = 0
    BY <1>1, <1>5 DEF TryFails, Goes
  <2>1. socks' = [socks EXCEPT ![p] = 0]
    BY <1>5, <2>0, Zenon DEF TryFails, Closes
  <2>2. Walks(p, "open", 0)
    BY <1>0, <1>2, <1>5, <2>1 DEF TryFails, Goes, Walks
  <2> QED
    BY <2>2, WalksStep
<1>6. CASE NoAddress(p)
  <2>1. Walks(p, IF Notes(p) /\ p # Server THEN "read" ELSE "ended", 0)
    BY <1>0, <1>1, <1>2, <1>6, ServerApart DEF NoAddress, Goes, openVars, Walks
  <2> QED
    BY <2>1, WalksStep
<1>7. CASE p = Server /\ BindTurned
  <2>1. CASE Goes(Server, "try", "open") /\ Closes(Server) /\ UNCHANGED left
    <3>0. socks[p] - 1 = 0
      BY <1>1, <1>7, <2>1 DEF Goes
    <3>1. socks' = [socks EXCEPT ![p] = 0]
      BY <1>7, <2>1, <3>0, Zenon DEF Closes
    <3>2. Walks(p, "open", 0)
      BY <1>0, <1>2, <1>7, <2>1, <3>1 DEF BindTurned, Goes, Walks
    <3> QED
      BY <3>2, WalksStep
  <2>2. CASE Leaves(Server, "try", "accept") /\ UNCHANGED socks
    <3>1. Walks(p, "accept", 1)
      BY <1>0, <1>1, <1>2, <1>7, <2>2 DEF BindTurned, Goes, Leaves, Walks
    <3> QED
      BY <3>1, WalksStep
  <2>3. CASE Leaves(Server, "try", "ended") /\ Closes(Server)
    <3>0. socks[p] - 1 = 0
      BY <1>1, <1>7, <2>3 DEF Goes, Leaves
    <3>1. socks' = [socks EXCEPT ![p] = 0]
      BY <1>7, <2>3, <3>0, Zenon DEF Closes
    <3>2. Walks(p, "ended", 0)
      BY <1>0, <1>2, <1>7, <2>3, <3>1 DEF BindTurned, Goes, Leaves, Walks
    <3> QED
      BY <3>2, WalksStep
  <2> QED
    BY <1>7, <2>1, <2>2, <2>3 DEF BindTurned
<1> QED
  BY <1>3, <1>4, <1>5, <1>6, <1>7 DEF Opening

(* bind and listen succeed, or listen fails. *)
LEMMA BindStep == ASSUME EchoInv, Bind PROVE EchoInv'
<1>0. Typed /\ Walking /\ OneSocket /\ \A c \in Clients : Echoed(c)
  BY DEF EchoInv
<1>1. at[Server] = "try" /\ socks[Server] = 1 /\ socks[Server] \in Int
  BY <1>0, ServerApart DEF Bind, Leaves, Goes, Walking, Typed
<1>2. CASE Leaves(Server, "try", Waiting) /\ listening' = TRUE /\ UNCHANGED socks
  <2>1. /\ at'[Server] \in {"select", "accept"} /\ \A c \in Clients : at'[c] = at[c]
        /\ at' \in [Procs -> Opens \cup {"read", "echo", "done", "ended"} \cup Loop]
    BY <1>0, <1>2, ServerApart, WaitingLoops DEF Leaves, Goes, Typed, Loop
  <2>2. /\ UNCHANGED <<programs, socks, backlog, serving, link, up, down, clientVars>> /\ listening' = TRUE
        /\ left' \in [Procs -> Nat]
    BY <1>0, <1>2 DEF Bind, Leaves, netVars, Typed
  <2>3. Typed'
    BY <1>0, <2>1, <2>2 DEF Typed, clientVars
  <2>4. Walking'
    BY <1>0, <2>1, <2>2, ServerApart DEF Walking, Loop
  <2>5. OneSocket'
    BY <1>0, <1>1, <2>1, <2>2, ServerApart DEF OneSocket, Notes, Program
  <2>6. \A c \in Clients : Echoed(c)'
    BY <1>0, <1>1, <2>1, <2>2, AllKept
  <2> QED
    BY <2>3, <2>4, <2>5, <2>6 DEF EchoInv
<1>3. CASE Leaves(Server, "try", "ended") /\ Closes(Server) /\ UNCHANGED listening
  <2>1. socks[Server] - 1 = 0
    BY <1>1
  <2>2. [left EXCEPT ![Server] = 0] \in [Procs -> Nat]
    BY <1>0 DEF Typed
  <2>3. socks' = [socks EXCEPT ![Server] = 0]
    BY <1>3, <2>1, Zenon DEF Closes
  <2>4. Walks(Server, "ended", 0)
    BY <1>1, <1>3, <2>2, <2>3 DEF Bind, Leaves, Goes, Walks, Opens
  <2> QED
    BY <2>4, WalksStep, ServerApart
<1> QED
  BY <1>2, <1>3 DEF Bind

LEMMA ConnectStep == ASSUME EchoInv, NEW c \in Clients, Connect(c) PROVE EchoInv'
<1>0. Typed /\ Walking /\ OneSocket /\ \A d \in Clients : Echoed(d)
  BY DEF EchoInv
<1>1. /\ at[c] = "try" /\ socks[c] = 1 /\ link[c] = "none" /\ up[c] = <<>> /\ down[c] = <<>>
      /\ listening /\ at[Server] \in Loop /\ Echoed(c)
  BY <1>0, ServerApart DEF Connect, Leaves, Goes, Walking, Echoed, Opens
<1>2. /\ at'[c] = "read" /\ \A p \in Procs : p # c => at'[p] = at[p]
      /\ at' \in [Procs -> Opens \cup {"read", "echo", "done", "ended"} \cup Loop]
      /\ link'[c] = "up" /\ \A d \in Clients : d # c => link'[d] = link[d]
      /\ link' \in [Clients -> {"none", "up", "down"}]
  BY <1>0, ServerApart DEF Connect, Leaves, Goes, Typed
<1>3. /\ UNCHANGED <<programs, socks, listening, serving, up, down, clientVars>>
      /\ left' \in [Procs -> Nat] /\ backlog' \in Seq(Clients)
  <2>1. backlog' \in Seq(Clients)
    BY <1>0 DEF Connect, Typed
  <2>2. left' \in [Procs -> Nat]
    BY <1>0 DEF Connect, Leaves, Typed
  <2> QED
    BY <2>1, <2>2, Zenon DEF Connect
<1>4. Typed'
  BY <1>0, <1>2, <1>3, ServerApart DEF Typed, clientVars, Loop
<1>5. Walking'
  BY <1>0, <1>1, <1>2, <1>3, ServerApart DEF Walking, Opens
<1>6. OneSocket'
  BY <1>0, <1>1, <1>2, <1>3, ServerApart DEF OneSocket, Notes, Program
<1>7. ASSUME NEW d \in Clients
      PROVE  Echoed(d)'
  <2>1. CASE d = c
    <3>1. got[c] = <<>> /\ printed[c] = <<>>
      BY <1>1 DEF Echoed, Opens
    <3> QED
      BY <1>1, <1>2, <1>3, <2>1, <3>1 DEF Echoed, clientVars, Eof, Opens
  <2>2. CASE d # c
    <3>1. Untouched(d) /\ at'[d] = at[d] /\ at'[Server] = at[Server]
      BY <1>2, <1>3, <2>2, ServerApart DEF Untouched, clientVars
    <3>2. at[Server] # "ended"
      BY <1>1 DEF Loop
    <3> QED
      BY <1>0, <3>1, <3>2, EchoedKept
  <2> QED
    BY <2>1, <2>2
<1> QED
  BY <1>4, <1>5, <1>6, <1>7 DEF EchoInv

-----------------------------------------------------------------------------
(* The client's loop *)

(* A client moves within its loop or out of it; the sockets of others, the    *)
(* connections and the server stay.                                           *)
Moves(c, x) ==
    /\ at[c] \in {"read", "echo"} /\ x \in {"read", "echo", "done", "ended"}
    /\ at' = [at EXCEPT ![c] = x]
    /\ UNCHANGED <<programs, left, listening, backlog, serving, link>>
    /\ IF x \in {"done", "ended"} THEN socks' = [socks EXCEPT ![c] = 0] ELSE socks' = socks
    /\ \A d \in Clients : d # c => Untouched(d)

LEMMA MovesStep ==
  ASSUME EchoInv, NEW c \in Clients, NEW x, Moves(c, x), Echoed(c)',
         up' \in [Clients -> Seq(Pieces)], down' \in [Clients -> Seq(Pieces)],
         input' \in [Clients -> Seq(Pieces)], buf' \in [Clients -> Seq(Pieces)],
         got' \in [Clients -> Seq(Pieces)], printed' \in [Clients -> Seq(Pieces)]
  PROVE  EchoInv'
<1>0. Typed /\ Walking /\ OneSocket /\ \A d \in Clients : Echoed(d)
  BY DEF EchoInv
<1>1. /\ at'[c] = x /\ \A p \in Procs : p # c => at'[p] = at[p]
      /\ at' \in [Procs -> Opens \cup {"read", "echo", "done", "ended"} \cup Loop]
      /\ x \in {"read", "echo", "done", "ended"} /\ at[c] \in {"read", "echo"}
  BY <1>0, ServerApart DEF Moves, Typed
<1>2. /\ socks' \in [Procs -> Int] /\ \A p \in Procs : p # c => socks'[p] = socks[p]
      /\ x \in {"read", "echo"} => socks' = socks
  <2>1. CASE x \in {"done", "ended"}
    BY <1>0, <2>1 DEF Moves, Typed
  <2>2. CASE x \notin {"done", "ended"}
    BY <1>0, <2>2 DEF Moves, Typed
  <2> QED
    BY <2>1, <2>2
<1>3. UNCHANGED <<programs, left, listening, backlog, serving, link>>
  BY DEF Moves
<1>4. Typed'
  BY <1>0, <1>1, <1>2, <1>3, ServerApart DEF Typed, Loop
<1>5. Walking'
  BY <1>0, <1>1, <1>2, <1>3, ServerApart DEF Walking, Opens
<1>6. OneSocket'
  <2>1. \A p \in Procs : Notes(p)' <=> Notes(p)
    BY <1>3 DEF Notes, Program
  <2>2. at'[c] \in {"read", "echo"} => socks'[c] = socks[c] /\ link'[c] = link[c]
    BY <1>1, <1>2, <1>3
  <2>3. \A p \in Procs : p # c => at'[p] = at[p] /\ socks'[p] = socks[p]
    BY <1>1, <1>2
  <2> QED
    BY <1>0, <1>1, <1>3, <2>1, <2>2, <2>3, ServerApart DEF OneSocket
<1>7. ASSUME NEW d \in Clients
      PROVE  Echoed(d)'
  <2>1. CASE d # c
    <3>1. Untouched(d) /\ at'[d] = at[d] /\ at'[Server] = at[Server]
      BY <1>1, <2>1, ServerApart DEF Moves
    <3> QED
      BY <1>0, <3>1, EchoedKept
  <2> QED
    BY <2>1
<1> QED
  BY <1>4, <1>5, <1>6, <1>7 DEF EchoInv

LEMMA ReadStep == ASSUME EchoInv, NEW c \in Clients, Read(c) PROVE EchoInv'
<1>0. Typed /\ Walking /\ Echoed(c)
  BY DEF EchoInv
<1>1. at[c] = "read" /\ at' = [at EXCEPT ![c] = "echo"] /\ at'[c] = "echo" /\ at'[Server] = at[Server]
  BY <1>0, ServerApart DEF Read, Goes, Typed
<1>2. /\ input[c] \in Seq(Pieces) /\ input[c] # <<>>
      /\ printed[c] \in Seq(Pieces) /\ Len(printed[c]) \in Nat
  BY <1>0 DEF Read, Typed
<1> DEFINE l == Line(input[c])
           r == AfterLine(input[c])
<1>3. /\ l \in Seq(Pieces) /\ r \in Seq(Pieces) /\ IsLine(l)
      /\ Numbered(c, l, Len(printed[c])) /\ Numbered(c, r, Len(printed[c]) + Len(l))
  <2>1. Numbered(c, input[c], Len(printed[c]))
    BY <1>0, <1>1 DEF Echoed
  <2> QED
    BY <1>2, <2>1, Cut
<1> HIDE DEF l, r
<1>4. /\ buf' = [buf EXCEPT ![c] = l] /\ input' = [input EXCEPT ![c] = r]
      /\ up' = IF link[c] = "up" THEN [up EXCEPT ![c] = @ \o l] ELSE up
      /\ UNCHANGED <<programs, openVars, backlog, serving, link, down, got, printed>>
  BY Zenon DEF Read, l, r
<1>5. /\ up[c] # <<>> => at[Server] = "ended"
      /\ link[c] = "up" => at[Server] # "ended" /\ up[c] = <<>>
      /\ down[c] = <<>>
  <2>1. link[c] = "up" => at[Server] # "ended"
    BY <1>0 DEF Walking, Loop
  <2>2. down[c] = <<>> /\ (up[c] # <<>> => at[Server] = "ended")
    BY <1>0, <1>1 DEF Echoed, Eof
  <2> QED
    BY <2>1, <2>2
<1>6. /\ buf' \in [Clients -> Seq(Pieces)] /\ input' \in [Clients -> Seq(Pieces)]
      /\ up' \in [Clients -> Seq(Pieces)] /\ down' \in [Clients -> Seq(Pieces)]
      /\ got' \in [Clients -> Seq(Pieces)] /\ printed' \in [Clients -> Seq(Pieces)]
      /\ buf'[c] = l /\ input'[c] = r
      /\ up'[c] = IF link[c] = "up" THEN l ELSE up[c]
      /\ UNCHANGED <<link[c], down[c], got[c], printed[c]>>
  <2>1. up[c] \o l \in Seq(Pieces) /\ (link[c] = "up" => up[c] \o l = l)
    BY <1>0, <1>3, <1>5 DEF Typed
  <2> QED
    BY <1>0, <1>3, <1>4, <2>1 DEF Typed
<1>7. Echoed(c)'
  <2>1. /\ Numbered(c, printed[c], 0) /\ IsPrefix(got[c], printed[c])
        /\ (link[c] = "up" \/ down[c] # <<>> => got[c] = printed[c])
    BY <1>0 DEF Echoed
  <2> QED
    BY <1>1, <1>3, <1>5, <1>6, <2>1 DEF Echoed, Eof, Opens
<1>8. Moves(c, "echo")
  <2>1. \A d \in Clients : d # c => Untouched(d)
    BY <1>0, <1>4 DEF Untouched, Typed
  <2> QED
    BY <1>1, <1>4, <2>1 DEF Moves, openVars
<1> QED
  BY <1>6, <1>7, <1>8, MovesStep

LEMMA ShowStep == ASSUME EchoInv, NEW c \in Clients, Show(c) PROVE EchoInv'
<1>0. Typed /\ Walking /\ Echoed(c)
  BY DEF EchoInv
<1>1. at[c] = "echo" /\ at' = [at EXCEPT ![c] = "read"] /\ at'[c] = "read" /\ at'[Server] = at[Server]
  BY <1>0, ServerApart DEF Show, Goes, Typed
<1>2. /\ down[c] \in Seq(Pieces) /\ buf[c] \in Seq(Pieces)
      /\ printed[c] \in Seq(Pieces) /\ got[c] \in Seq(Pieces)
      /\ Len(printed[c]) \in Nat /\ Len(buf[c]) \in Nat
  BY <1>0 DEF Typed
<1>3. /\ IsLine(buf[c]) /\ Numbered(c, buf[c], Len(printed[c])) /\ Numbered(c, printed[c], 0)
      /\ Numbered(c, input[c], Len(printed[c]) + Len(buf[c]))
      /\ down[c] \in {<<>>, buf[c]} /\ IsPrefix(got[c], printed[c])
      /\ (link[c] = "up" \/ down[c] # <<>> => got[c] = printed[c])
      /\ (up[c] # <<>> /\ at[Server] # "ended" => link[c] = "up" /\ down[c] = <<>>)
  BY <1>0, <1>1 DEF Echoed, Eof
<1> DEFINE l == Line(down[c])
           r == AfterLine(down[c])
           out == IF l = <<>> THEN buf[c] ELSE l
<1>4. l = down[c] /\ r = <<>> /\ out = buf[c]
  <2>1. CASE down[c] = <<>>
    BY <2>1 DEF Line, AfterLine
  <2>2. CASE down[c] # <<>>
    BY <1>3, <2>2 DEF IsLine
  <2> QED
    BY <2>1, <2>2
<1>5. /\ Ends(down[c]) # {} \/ link[c] # "up"
      /\ down' = [down EXCEPT ![c] = r] /\ got' = [got EXCEPT ![c] = @ \o l]
      /\ buf' = [buf EXCEPT ![c] = out] /\ printed' = [printed EXCEPT ![c] = @ \o out]
      /\ UNCHANGED <<programs, openVars, backlog, serving, link, up, input>>
  BY DEF Show
<1> HIDE DEF l, r, out
<1>6. /\ down'[c] = <<>> /\ got'[c] = got[c] \o down[c] /\ buf'[c] = buf[c]
      /\ printed'[c] = printed[c] \o buf[c]
      /\ UNCHANGED <<link[c], up[c], input[c]>>
  BY <1>0, <1>4, <1>5 DEF Typed
<1>7. /\ down' \in [Clients -> Seq(Pieces)] /\ got' \in [Clients -> Seq(Pieces)]
      /\ buf' \in [Clients -> Seq(Pieces)] /\ printed' \in [Clients -> Seq(Pieces)]
      /\ up' \in [Clients -> Seq(Pieces)] /\ input' \in [Clients -> Seq(Pieces)]
  <2>1. /\ <<>> \in Seq(Pieces) /\ got[c] \o l \in Seq(Pieces)
        /\ printed[c] \o out \in Seq(Pieces)
    BY <1>2, <1>4
  <2> QED
    BY <1>0, <1>2, <1>4, <1>5, <2>1 DEF Typed
<1>8. /\ Numbered(c, printed[c] \o buf[c], 0)
      /\ Len(printed[c] \o buf[c]) = Len(printed[c]) + Len(buf[c])
  BY <1>2, <1>3, NumberedMore, ConcatProperties
<1>9. /\ IsPrefix(got[c] \o down[c], printed[c] \o buf[c])
      /\ link[c] = "up" => got[c] \o down[c] = printed[c] \o buf[c] /\ down[c] # <<>>
  <2>1. CASE down[c] = <<>>
    <3>1. link[c] # "up" /\ got[c] \o down[c] = got[c]
      BY <1>2, <1>5, <2>1 DEF Ends
    <3> QED
      BY <1>2, <1>3, <3>1, PrefixMore
  <2>2. CASE down[c] # <<>>
    <3>1. got[c] \o down[c] = printed[c] \o buf[c]
      BY <1>3, <2>2
    <3> QED
      BY <2>2, <3>1, PrefixSelf
  <2> QED
    BY <2>1, <2>2
<1>10. Echoed(c)'
  <2>1. up[c] # <<>> => at[Server] = "ended"
    BY <1>3, <1>9
  <2> QED
    BY <1>1, <1>3, <1>6, <1>8, <1>9, <2>1 DEF Echoed, Opens
<1>11. Moves(c, "read")
  <2>1. \A d \in Clients : d # c => Untouched(d)
    BY <1>0, <1>5 DEF Untouched, Typed
  <2> QED
    BY <1>1, <1>5, <2>1 DEF Moves, openVars
<1> QED
  BY <1>7, <1>10, <1>11, MovesStep

LEMMA QuitsStep ==
  ASSUME EchoInv, NEW c \in Clients, NEW x \in {"done", "ended"},
         at[c] \in {"read", "echo"}, Quits(c, x)
  PROVE  EchoInv'
<1>0. Typed /\ Echoed(c)
  BY DEF EchoInv
<1>1. /\ at' = [at EXCEPT ![c] = x] /\ at'[c] = x /\ at'[Server] = at[Server]
      /\ socks' = [socks EXCEPT ![c] = 0] /\ down' = [down EXCEPT ![c] = <<>>]
      /\ UNCHANGED <<programs, left, listening, backlog, serving, link, up, clientVars>>
  BY <1>0, ServerApart DEF Quits, Typed
<1>2. /\ down' \in [Clients -> Seq(Pieces)] /\ down'[c] = <<>>
      /\ UNCHANGED <<link[c], up[c], input[c], buf[c], got[c], printed[c]>>
  <2>1. <<>> \in Seq(Pieces)
    OBVIOUS
  <2> QED
    BY <1>0, <1>1, <2>1 DEF Typed, clientVars
<1>3. Echoed(c)'
  BY <1>0, <1>1, <1>2 DEF Echoed, Eof, Opens
<1>4. Moves(c, x)
  <2>1. \A d \in Clients : d # c => Untouched(d)
    BY <1>0, <1>1 DEF Untouched, Typed, clientVars
  <2> QED
    BY <1>1, <2>1 DEF Moves
<1>5. /\ up' \in [Clients -> Seq(Pieces)] /\ input' \in [Clients -> Seq(Pieces)]
      /\ buf' \in [Clients -> Seq(Pieces)] /\ got' \in [Clients -> Seq(Pieces)]
      /\ printed' \in [Clients -> Seq(Pieces)]
  BY <1>0, <1>1 DEF Typed, clientVars
<1> QED
  BY <1>2, <1>3, <1>4, <1>5, MovesStep

-----------------------------------------------------------------------------
(* The server's loop *)

(* The server moves within its loop, and touches at most the bytes of the     *)
(* client it serves. *)
Serves(x) ==
    /\ at[Server] \in Loop /\ x \in Loop /\ at' = [at EXCEPT ![Server] = x]
    /\ backlog' \in Seq(Clients) /\ serving' \in Procs
    /\ x \in {"serve", "close"} => serving' \in Clients
    /\ UNCHANGED <<programs, left, socks, listening>>

LEMMA ServesStep ==
  ASSUME EchoInv, NEW x, Serves(x), UNCHANGED clientVars,
         link' \in [Clients -> {"none", "up", "down"}],
         \A c \in Clients : (link'[c] = "none" <=> link[c] = "none")
                            /\ (link'[c] = "up" => link[c] = "up"),
         up' \in [Clients -> Seq(Pieces)], down' \in [Clients -> Seq(Pieces)],
         \A c \in Clients : Echoed(c)'
  PROVE  EchoInv'
<1>0. Typed /\ Walking /\ OneSocket
  BY DEF EchoInv
<1>1. /\ at'[Server] = x /\ \A c \in Clients : at'[c] = at[c]
      /\ at' \in [Procs -> Opens \cup {"read", "echo", "done", "ended"} \cup Loop]
      /\ x \in Loop /\ x \notin {"read", "echo", "done"} /\ x \notin Opens
      /\ at[Server] \in Loop
  BY <1>0, ServerApart DEF Serves, Typed, Loop, Opens
<1>2. UNCHANGED <<programs, left, socks, listening>>
  BY DEF Serves
<1>3. Typed'
  BY <1>0, <1>1, <1>2 DEF Typed, Serves, clientVars
<1>4. Walking'
  BY <1>0, <1>1, <1>2, ServerApart DEF Walking, Opens
<1>5. OneSocket'
  <2>1. \A p \in Procs : Notes(p)' <=> Notes(p)
    BY <1>2 DEF Notes, Program
  <2>2. /\ at[Server] \in {"read", "echo", "accept", "serve", "close", "select", "command"}
    BY <1>1 DEF Loop
  <2> QED
    BY <1>0, <1>1, <1>2, <2>1, <2>2, ServerApart DEF OneSocket
<1> QED
  BY <1>3, <1>4, <1>5 DEF EchoInv

(* The connections and their bytes are as they were. *)
LEMMA QuietStep ==
  ASSUME EchoInv, NEW x, Serves(x), UNCHANGED <<link, up, down, clientVars>>
  PROVE  EchoInv'
<1>0. Typed /\ \A c \in Clients : Echoed(c)
  BY DEF EchoInv
<1>1. /\ \A c \in Clients : at'[c] = at[c]
      /\ at[Server] # "ended"
  BY <1>0, ServerApart DEF Serves, Typed, Loop
<1>2. \A c \in Clients : Echoed(c)'
  BY <1>0, <1>1, AllKept
<1> QED
  BY <1>0, <1>2, ServesStep DEF Typed

LEMMA QuietActions ==
  ASSUME EchoInv, Accept \/ Select \/ Command \/ CommandReads
  PROVE  EchoInv'
<1>0. Typed
  BY DEF EchoInv
<1>1. CASE Accept
  <2>1. /\ Head(backlog) \in Clients /\ Tail(backlog) \in Seq(Clients)
    BY <1>0, <1>1 DEF Accept, Typed
  <2>2. Serves("serve")
    BY <1>1, <2>1, ServerApart DEF Accept, Goes, openVars, Serves, Loop
  <2> QED
    BY <1>1, <2>2, QuietStep DEF Accept
<1>2. CASE Select
  <2>1. PICK x \in {"command", "accept"} : Goes(Server, "select", x)
    BY <1>2 DEF Select
  <2>2. UNCHANGED <<programs, openVars, netVars, clientVars>>
    BY <1>2 DEF Select
  <2>3. Serves(x)
    BY <1>0, <2>1, <2>2 DEF Goes, openVars, netVars, Serves, Loop, Typed
  <2> QED
    BY <2>2, <2>3, QuietStep DEF netVars
<1>3. CASE Command
  <2>1. PICK x \in {"select", "accept"} : Goes(Server, "command", x)
    BY <1>3 DEF Command, AfterCommand
  <2>2. UNCHANGED <<programs, openVars, netVars, clientVars>>
    BY <1>3 DEF Command
  <2>3. Serves(x)
    BY <1>0, <2>1, <2>2 DEF Goes, openVars, netVars, Serves, Loop, Typed
  <2> QED
    BY <2>2, <2>3, QuietStep DEF netVars
<1>4. CASE CommandReads
  <2>1. UNCHANGED <<programs, at, openVars, netVars, clientVars>> /\ at[Server] = "command"
    BY <1>4 DEF CommandReads
  <2>2. at' = [at EXCEPT ![Server] = "command"]
    BY <1>0, <2>1 DEF Typed
  <2>3. Serves("command")
    BY <1>0, <2>1, <2>2 DEF openVars, netVars, Serves, Loop, Typed
  <2> QED
    BY <2>1, <2>3, QuietStep DEF netVars
<1> QED
  BY <1>1, <1>2, <1>3, <1>4

LEMMA EchoLineStep == ASSUME EchoInv, EchoLine PROVE EchoInv'
<1>0. Typed /\ \A d \in Clients : Echoed(d)
  BY DEF EchoInv
<1>a. PICK c \in Clients : serving = c
  BY <1>0 DEF EchoLine, Typed
<1> DEFINE line == Line(up[c])
           rest == AfterLine(up[c])
<1>1. /\ at[Server] = "serve" /\ Echoed(c)
      /\ Ends(up[c]) # {} \/ Eof(c)
      /\ up' = [up EXCEPT ![c] = rest]
      /\ down' = IF Eof(c) THEN down ELSE [down EXCEPT ![c] = @ \o line]
      /\ UNCHANGED <<programs, openVars, backlog, serving, link, clientVars>>
  BY <1>0, <1>a DEF EchoLine
<1>2. PICK x \in {"close", "serve"} : at' = [at EXCEPT ![Server] = x]
  BY DEF EchoLine, Goes
<1>3. /\ \A d \in Clients : at'[d] = at[d]
      /\ at'[Server] = x
  BY <1>0, <1>2, ServerApart DEF Typed
<1>4. up[c] \in Seq(Pieces) /\ down[c] \in Seq(Pieces) /\ buf[c] \in Seq(Pieces)
  BY <1>0, <1>1 DEF Typed
<1>5. line \in Seq(Pieces) /\ rest \in Seq(Pieces) /\ down[c] \o line \in Seq(Pieces)
  BY <1>4, Cut
<1> HIDE DEF line, rest
<1>6. /\ up' \in [Clients -> Seq(Pieces)] /\ down' \in [Clients -> Seq(Pieces)]
      /\ up'[c] = rest
      /\ down'[c] = IF Eof(c) THEN down[c] ELSE down[c] \o line
      /\ \A d \in Clients : d # c => up'[d] = up[d] /\ down'[d] = down[d]
  BY <1>0, <1>1, <1>5 DEF Typed
<1>7. Echoed(c)'
  <2>1. CASE Eof(c)
    <3>1. at[c] \notin Opens \cup {"read", "echo"} /\ Eof(c)' /\ down'[c] = down[c]
      BY <1>1, <1>3, <1>6, <2>1 DEF Eof, Opens
    <3> QED
      BY <1>1, <1>3, <1>6, <3>1 DEF Echoed, clientVars
  <2>2. CASE ~Eof(c)
    <3>1. up[c] # <<>> /\ at[Server] # "ended"
      BY <1>1, <2>2 DEF Ends
    <3>2. /\ at[c] = "echo" /\ up[c] = buf[c] /\ down[c] = <<>> /\ link[c] = "up"
          /\ IsLine(buf[c])
      BY <1>1, <2>2, <3>1 DEF Echoed
    <3>3. line = buf[c] /\ rest = <<>> /\ down[c] \o line = buf[c]
      BY <1>4, <3>2 DEF IsLine, line, rest
    <3>4. up'[c] = <<>> /\ down'[c] = buf[c]
      BY <1>6, <2>2, <3>3
    <3>5. UNCHANGED <<link[c], input[c], buf[c], got[c], printed[c]>> /\ at'[c] = at[c]
      BY <1>1, <1>3 DEF clientVars
    <3> QED
      BY <1>1, <3>2, <3>4, <3>5 DEF Echoed, Opens
  <2> QED
    BY <2>1, <2>2
<1>8. ASSUME NEW d \in Clients
      PROVE  Echoed(d)'
  <2>1. CASE d # c
    <3>1. Untouched(d)
      BY <1>1, <1>6, <2>1 DEF Untouched, clientVars
    <3> QED
      BY <1>0, <1>1, <1>3, <3>1, EchoedKept
  <2> QED
    BY <1>7, <2>1
<1>9. Serves(x)
  <2>1. UNCHANGED <<programs, openVars, backlog, serving>> /\ at[Server] = "serve" /\ serving \in Clients
    BY <1>1, <1>a
  <2> QED
    BY <1>0, <1>2, <2>1, ServerApart DEF Serves, Loop, openVars, Typed
<1>10. link' \in [Clients -> {"none", "up", "down"}] /\ link' = link
  BY <1>0, <1>1 DEF Typed
<1> QED
  BY <1>1, <1>6, <1>8, <1>9, <1>10, ServesStep

(* A connection that stands no more asks for less. *)
LEMMA Hung ==
  ASSUME NEW c, Echoed(c), UNCHANGED <<down[c], input[c], buf[c], got[c], printed[c]>>,
         at'[c] = at[c],
         link'[c] = link[c] \/ link'[c] = "down",
         \/ at'[Server] = "ended"
         \/ up'[c] = <<>>
         \/ link'[c] = link[c] /\ up'[c] = up[c] /\ at[Server] # "ended",
         at[c] \in Opens => up'[c] = up[c]
  PROVE  Echoed(c)'
BY DEF Echoed, Eof

LEMMA CloseStep == ASSUME EchoInv, Close PROVE EchoInv'
<1> DEFINE c == serving
<1>0. Typed /\ \A d \in Clients : Echoed(d)
  BY DEF EchoInv
<1>1. /\ at[Server] = "close" /\ c \in Clients /\ at' = [at EXCEPT ![Server] = Waiting]
      /\ up' = [up EXCEPT ![c] = <<>>] /\ serving' = NoClient
      /\ link' = [d \in Clients |-> IF d \in {c} /\ link[d] = "up" THEN "down" ELSE link[d]]
      /\ UNCHANGED <<programs, openVars, backlog, down, clientVars>>
  BY <1>0 DEF Close, Goes, Typed, Hangs
<1> HIDE DEF c
<1>2. /\ \A d \in Clients : at'[d] = at[d]
      /\ at'[Server] # "ended" /\ at[Server] # "ended"
  BY <1>0, <1>1, ServerApart, WaitingLoops DEF Typed
<1>3. /\ up' \in [Clients -> Seq(Pieces)] /\ down' \in [Clients -> Seq(Pieces)]
      /\ link' \in [Clients -> {"none", "up", "down"}]
      /\ up'[c] = <<>> /\ \A d \in Clients : d # c => up'[d] = up[d] /\ link'[d] = link[d]
      /\ \A d \in Clients : \/ link'[d] = link[d]
                            \/ link'[d] = "down" /\ link[d] = "up"
  <2>1. <<>> \in Seq(Pieces)
    OBVIOUS
  <2>2. up' \in [Clients -> Seq(Pieces)] /\ down' \in [Clients -> Seq(Pieces)]
    BY <1>0, <1>1, <2>1 DEF Typed
  <2>3. \A d \in Clients : link'[d] = IF d = c /\ link[d] = "up" THEN "down" ELSE link[d]
    BY <1>1
  <2>4. link' \in [Clients -> {"none", "up", "down"}]
    BY <1>0, <1>1 DEF Typed
  <2>5. up'[c] = <<>> /\ \A d \in Clients : d # c => up'[d] = up[d] /\ link'[d] = link[d]
    BY <1>0, <1>1, <2>3 DEF Typed
  <2> QED
    BY <2>2, <2>3, <2>4, <2>5
<1>4. ASSUME NEW d \in Clients
      PROVE  Echoed(d)'
  <2>1. UNCHANGED <<down[d], input[d], buf[d], got[d], printed[d]>> /\ at'[d] = at[d] /\ Echoed(d)
    BY <1>0, <1>1, <1>2 DEF clientVars
  <2>2. at[d] \in Opens => up'[d] = up[d]
    BY <1>3, <2>1 DEF Echoed
  <2>3. CASE d = c
    BY <1>3, <2>1, <2>2, <2>3, Hung
  <2>4. CASE d # c
    <3>1. link'[d] = link[d] /\ up'[d] = up[d]
      BY <1>3, <2>4
    <3> QED
      BY <1>2, <2>1, <2>2, <3>1, Hung
  <2> QED
    BY <2>3, <2>4
<1>5. Serves(Waiting)
  BY <1>0, <1>1, ServerApart, WaitingLoops DEF Serves, Loop, openVars, Typed, Server
<1>6. \A d \in Clients : (link'[d] = "none" <=> link[d] = "none")
                         /\ (link'[d] = "up" => link[d] = "up")
  BY <1>3
<1> QED
  BY <1>1, <1>3, <1>4, <1>5, <1>6, ServesStep

LEMMA EndsStep == ASSUME EchoInv, EchoFails \/ CommandEnds \/ ServeFails PROVE EchoInv'
<1>0. Typed /\ Walking /\ OneSocket /\ \A c \in Clients : Echoed(c)
  BY DEF EchoInv
<1>1. /\ at' = [at EXCEPT ![Server] = "ended"] /\ listening' = FALSE
      /\ link' = [c \in Clients |-> IF c \in Clients /\ link[c] = "up" THEN "down" ELSE link[c]]
      /\ UNCHANGED <<programs, left, socks, backlog, serving, up, down, clientVars>>
  BY DEF EchoFails, CommandEnds, ServeFails, ServerEnds, Hangs
<1>2. /\ at'[Server] = "ended" /\ \A c \in Clients : at'[c] = at[c]
      /\ at' \in [Procs -> Opens \cup {"read", "echo", "done", "ended"} \cup Loop]
  BY <1>0, <1>1, ServerApart DEF Typed
<1>3. /\ link' \in [Clients -> {"none", "up", "down"}]
      /\ \A c \in Clients : link'[c] # "up"
      /\ \A c \in Clients : link'[c] = link[c] \/ (link'[c] = "down" /\ link[c] = "up")
  <2>1. \A c \in Clients : link'[c] = IF link[c] = "up" THEN "down" ELSE link[c]
    BY <1>1
  <2>2. link' \in [Clients -> {"none", "up", "down"}]
    BY <1>0, <1>1 DEF Typed
  <2> QED
    BY <2>1, <2>2
<1>4. Typed'
  BY <1>0, <1>1, <1>2, <1>3 DEF Typed, clientVars, Loop
<1>5. Walking'
  <2>1. \A p \in Procs : (at'[p] = "open" => socks'[p] = 0) /\ (at'[p] = "try" => socks'[p] = 1)
    BY <1>0, <1>1, <1>2, ServerApart DEF Walking
  <2> QED
    BY <1>0, <1>1, <1>2, <1>3, <2>1, ServerApart DEF Walking, Opens
<1>6. OneSocket'
  <2>1. \A p \in Procs : Notes(p)' <=> Notes(p)
    BY <1>1 DEF Notes, Program
  <2>2. \A c \in Clients : link[c] # "none" => link'[c] # "none"
    BY <1>3
  <2> QED
    BY <1>0, <1>1, <1>2, <2>1, <2>2, ServerApart DEF OneSocket
<1>7. ASSUME NEW c \in Clients
      PROVE  Echoed(c)'
  <2>1. UNCHANGED <<up[c], down[c], input[c], buf[c], got[c], printed[c]>> /\ at'[c] = at[c] /\ Echoed(c)
    BY <1>0, <1>1, <1>2 DEF clientVars
  <2>2. link'[c] = link[c] \/ link'[c] = "down"
    BY <1>3
  <2> QED
    BY <1>2, <2>1, <2>2, Hung
<1> QED
  BY <1>4, <1>5, <1>6, <1>7 DEF EchoInv

-----------------------------------------------------------------------------
LEMMA StillStep ==
  ASSUME EchoInv, UNCHANGED <<programs, at, openVars, netVars, clientVars>>
  PROVE  EchoInv'
<1>0. Typed /\ Walking /\ OneSocket /\ \A c \in Clients : Echoed(c)
  BY DEF EchoInv
<1>1. Typed' /\ Walking' /\ OneSocket'
  <2>1. \A p \in Procs : Notes(p)' <=> Notes(p)
    BY DEF Notes, Program
  <2> QED
    BY <1>0, <2>1 DEF Typed, Walking, OneSocket, openVars, netVars, clientVars
<1>2. ASSUME NEW c \in Clients
      PROVE  Echoed(c)'
  <2>1. Untouched(c) /\ at'[c] = at[c] /\ at'[Server] = at[Server]
    BY DEF Untouched, netVars, clientVars
  <2> QED
    BY <1>0, <2>1, EchoedKept
<1> QED
  BY <1>1, <1>2 DEF EchoInv

LEMMA EchoNext == EchoInv /\ [Next]_vars => EchoInv'
<1> SUFFICES ASSUME EchoInv, [Next]_vars PROVE EchoInv'
  OBVIOUS
<1>1. ASSUME NEW p \in Procs, Opening(p) PROVE EchoInv'
  BY <1>1, OpeningStep
<1>2. ASSUME NEW c \in Clients, Client(c) \/ User(c) PROVE EchoInv'
  <2>1. CASE Connect(c)
    BY <2>1, ConnectStep
  <2>2. CASE Read(c)
    BY <2>2, ReadStep
  <2>3. CASE Show(c)
    BY <2>3, ShowStep
  <2>4. CASE Finish(c)
    BY <2>4, QuitsStep DEF Finish
  <2>5. CASE Interrupt(c)
    BY <2>5, QuitsStep DEF Interrupt
  <2> QED
    BY <1>2, <2>1, <2>2, <2>3, <2>4, <2>5 DEF Client, User
<1>3. CASE Serve
  <2>1. CASE BindTurned
    BY <2>1, OpeningStep, ServerApart
  <2> QED
    BY <1>3, <2>1, BindStep, QuietActions, EchoLineStep, EndsStep, CloseStep DEF Serve
<1>a. CASE ServeFails
  BY <1>a, EndsStep
<1>4. CASE Type \/ TypeEnd \/ UNCHANGED vars
  <2>1. UNCHANGED <<programs, at, openVars, netVars, clientVars>>
    BY <1>4 DEF Type, TypeEnd, vars
  <2> QED
    BY <2>1, StillStep
<1> QED
  BY <1>1, <1>2, <1>3, <1>a, <1>4 DEF Next

(* The invariant holds in every state the client and the server reach.        *)
THEOREM EchoInvariance == Spec => []EchoInv
BY EchoInitially, EchoNext, PTL DEF Spec

(* However many addresses open_clientfd and open_listenfd try in vain, a      *)
(* process is in its loop with at most one socket, and with exactly one,      *)
(* connected or listening, if it uses csapp.c's functions.                    *)
THEOREM OneSocketAlways == Spec => []OneSocket
<1>1. EchoInv => OneSocket
  BY DEF EchoInv
<1> QED
  BY EchoInvariance, <1>1, PTL

(* Whatever is interrupted or ends, a client prints the lines of its own      *)
(* input, each once and in order, and no others than came back while its      *)
(* connection stands.                                                         *)
THEOREM PrintsItsOwn == Spec => []EchoesBack
<1>1. EchoInv => EchoesBack
  <2> SUFFICES ASSUME EchoInv, NEW c \in Clients
               PROVE  /\ \A k \in DOMAIN printed[c] : printed[c][k][1] = c /\ printed[c][k][2] = k
                      /\ IF link[c] = "up" THEN got[c] = printed[c] ELSE IsPrefix(got[c], printed[c])
    BY DEF EchoesBack
  <2>1. Echoed(c) /\ printed[c] \in Seq(Pieces)
    BY DEF EchoInv, Typed
  <2>2. \A k \in DOMAIN printed[c] : k \in Nat
    BY <2>1
  <2> QED
    BY <2>1, <2>2 DEF Echoed, Numbered
<1> QED
  BY EchoInvariance, <1>1, PTL
=============================================================================
