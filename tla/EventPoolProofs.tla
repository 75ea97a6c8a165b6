--------------------------- MODULE EventPoolProofs ---------------------------
(***************************************************************************)
(* Proofs that the pool of the event-driven server agrees with the kernel, *)
(* that no ready descriptor is passed over, that a silent client blocks    *)
(* nobody and that each client gets its own bytes back, for every set of   *)
(* clients and all sizes.                                                  *)
(***************************************************************************)
EXTENDS EventPool, FunctionTheorems, FiniteSetTheorems, WellFoundedInduction, TLAPS

(* The types of the variables; nready comes with the count of what is ready. *)
Types == /\ maxfd \in Fds /\ read_set \subseteq Fds /\ ready_set \subseteq Fds
         /\ maxi \in -1 .. FD_SETSIZE - 1
         /\ clientfd \in [Slots -> Fds \cup {-1}]
         /\ clientrio \in [Slots -> {EmptyRio(fd) : fd \in Fds}]
         /\ at \in {"select", "accept", "scan", "line", "echo", "close"}
         /\ i \in 0 .. FD_SETSIZE
         /\ rio \in [fd : Fds, from : SUBSET Conns, cnt : 0 .. RIO_BUFSIZE, ptr : Nat]
         /\ line \in [from : SUBSET Conns, first : Nat, n : 0 .. MAXLINE - 1]
         /\ backlog \in Seq(Conns) /\ peer \in [Fds -> SUBSET Conns]
         /\ sent \in [Conns -> Nat] /\ nls \in [Conns -> SUBSET Nat]
         /\ eof \in [Conns -> BOOLEAN] /\ taken \in [Conns -> Nat]
         /\ echoed \in [Conns -> Seq(Chunks)]
         /\ exited \in BOOLEAN

(* Slot s is free or has the s-th descriptor above listenfd; a descriptor is   *)
(* connected exactly when its slot has it, and selected.                       *)
FdOf(s)   == ListenFd + 1 + s
SlotsFds  == \A s \in Slots : clientfd[s] \in {-1, FdOf(s)}
Connected == \A fd \in Fds : peer[fd] # {} <=> \E s \in Slots : FdOf(s) = fd /\ clientfd[s] = fd
Selected  == read_set = {ListenFd} \cup {fd \in Fds : peer[fd] # {}}

(* The high water marks, and readers that keep nothing. *)
Marks == \A s \in Slots : clientfd[s] # -1 => /\ s <= maxi /\ clientfd[s] <= maxfd
                                              /\ clientrio[s] = EmptyRio(clientfd[s])

(* The client being served, room in its line while it is read, a byte in it   *)
(* when it is echoed; somebody to accept.                                     *)
Serving == {"line", "echo", "close"}
Current == /\ at \in Serving => /\ i \in Slots /\ clientfd[i] = FdOf(i) /\ rio.fd = FdOf(i)
           /\ at = "line" => line.n < MAXLINE - 1
           /\ at = "echo" => line.n > 0
           /\ at = "accept" => backlog # <<>>

PInv == Types /\ SlotsFds /\ Connected /\ Selected /\ Marks /\ Current

-----------------------------------------------------------------------------
(* A set of natural numbers has a least element. *)
LEMMA MinOf ==
    ASSUME NEW S \in SUBSET Nat, S # {}
    PROVE  Min(S) \in S /\ \A y \in S : Min(S) <= y
<1> DEFINE R == OpToRel(<, Nat)
<1>1. IsWellFoundedOn(R, Nat)
  BY NatLessThanWellFounded
<1>2. \A a, b \in Nat : <<a, b>> \in R <=> a < b
  BY DEF OpToRel
<1> HIDE DEF R
<1>3. PICK x \in S : \A y \in S : ~(<<y, x>> \in R)
  BY <1>1, WFMin
<1>4. ASSUME NEW y \in S PROVE x <= y
  <2>1. x \in Nat /\ y \in Nat
    OBVIOUS
  <2>2. ~(y < x)
    BY <1>2, <1>3, <2>1
  <2> QED
    BY <2>1, <2>2
<1> QED
  BY <1>4 DEF Min

(* The larger of two numbers. *)
LEMMA MaxOf ==
    ASSUME NEW a \in Int, NEW b \in Int
    PROVE  Max({a, b}) \in {a, b} /\ Max({a, b}) >= a /\ Max({a, b}) >= b
<1>1. \E x \in {a, b} : \A y \in {a, b} : x >= y
  OBVIOUS
<1>2. Max({a, b}) \in {a, b} /\ \A y \in {a, b} : Max({a, b}) >= y
  BY <1>1 DEF Max
<1> QED
  BY <1>2

(* What the assumptions say of the constants, a fact at a time. *)
LEMMA Constants ==
    /\ FD_SETSIZE \in Nat \ {0} /\ OpenMax \in Nat \ {0} /\ ListenFd \in Nat \ {0}
    /\ ListenFd < OpenMax /\ OpenMax <= FD_SETSIZE /\ ListenFd \in Fds
    /\ MAXLINE \in Nat /\ MAXLINE > 1 /\ RIO_BUFSIZE \in Nat /\ RIO_BUFSIZE > 0
BY FdAssumption, SizeAssumption DEF Fds

(* Lowest first on both sides: the descriptor accept takes is that of the slot *)
(* add_client takes, and there is such a slot.                                 *)
LEMMA Lowest ==
    ASSUME PInv, FreeFds # {}
    PROVE  /\ FreeSlots # {} /\ Min(FreeSlots) \in Slots /\ clientfd[Min(FreeSlots)] = -1
           /\ Min(FreeFds) = FdOf(Min(FreeSlots))
           /\ Min(FreeFds) \in Fds /\ Min(FreeFds) > ListenFd /\ peer[Min(FreeFds)] = {}
<1> DEFINE f == Min(FreeFds)
           s == Min(FreeSlots)
<1>1. FreeFds \subseteq Fds /\ Fds \subseteq Nat /\ FreeSlots \subseteq Slots /\ Slots \subseteq Nat
  BY Constants DEF FreeFds, FreeSlots, Fds, Slots
<1>2. f \in FreeFds /\ \A y \in FreeFds : f <= y
  BY <1>1, MinOf
<1>3. f \in Fds /\ f > ListenFd /\ peer[f] = {} /\ f \in Nat
  BY <1>1, <1>2 DEF FreeFds
<1> HIDE DEF f
<1>4. f - ListenFd - 1 \in Slots /\ FdOf(f - ListenFd - 1) = f
  BY <1>3, Constants DEF Fds, Slots, FdOf
<1>5. clientfd[f - ListenFd - 1] = -1 /\ f - ListenFd - 1 \in FreeSlots
  BY <1>3, <1>4 DEF PInv, SlotsFds, Connected, FreeSlots
<1>6. s \in FreeSlots /\ s <= f - ListenFd - 1
  BY <1>1, <1>5, MinOf
<1> HIDE DEF s
<1>7. s \in Slots /\ s \in Nat /\ clientfd[s] = -1
  BY <1>1, <1>6, Constants DEF FreeSlots, PInv, SlotsFds, FdOf, Slots
<1>8. FdOf(s) \in Fds /\ FdOf(s) > ListenFd /\ FdOf(s) <= f
  BY <1>3, <1>6, <1>7, Constants DEF FdOf, Fds
<1>9. \A u \in Slots : FdOf(u) = FdOf(s) => u = s
  BY <1>7, Constants DEF FdOf, Slots
<1>10. peer[FdOf(s)] = {}
  BY <1>7, <1>8, <1>9, Constants DEF PInv, Connected, Fds
<1>11. f <= FdOf(s)
  BY <1>2, <1>8, <1>10 DEF FreeFds
<1>12. f = FdOf(s)
  BY <1>3, <1>7, <1>8, <1>11, Constants DEF FdOf
<1> QED
  BY <1>3, <1>6, <1>7, <1>12 DEF f, s

-----------------------------------------------------------------------------
(* The records of the pool *)

(* They are as they were when none of them changes. *)
LEMMA Still ==
    ASSUME UNCHANGED <<maxfd, read_set, maxi, clientfd, clientrio, peer>>
    PROVE  /\ SlotsFds' = SlotsFds /\ Connected' = Connected /\ Selected' = Selected
           /\ Marks' = Marks
BY DEF SlotsFds, Connected, Selected, Marks

(* A client being served is connected. *)
LEMMA Served ==
    ASSUME PInv, at \in Serving
    PROVE  /\ i \in Slots /\ i \in Nat /\ clientfd[i] = FdOf(i) /\ rio.fd = FdOf(i)
           /\ i <= maxi /\ rio.fd \in Fds /\ rio.fd > ListenFd /\ peer[rio.fd] # {}
<1>1. i \in Slots /\ i \in Nat /\ clientfd[i] = FdOf(i) /\ rio.fd = FdOf(i)
  BY Constants DEF PInv, Current, Slots
<1>2. FdOf(i) > ListenFd
  BY <1>1, Constants DEF FdOf
<1>3. FdOf(i) \in Fds
  BY <1>1, <1>2, Constants DEF PInv, Types
<1>4. i <= maxi
  BY <1>1, <1>2, Constants DEF PInv, Marks
<1> QED
  BY <1>1, <1>2, <1>3, <1>4 DEF PInv, Connected

(* What is appended to is not empty. *)
LEMMA AppendNotEmpty == ASSUME NEW S, NEW q \in Seq(S), NEW x \in S PROVE Append(q, x) # <<>>
<1>1. Len(q) \in Nat /\ Len(Append(q, x)) = Len(q) + 1 /\ Len(<<>>) = 0
  OBVIOUS
<1> QED
  BY <1>1

(* A client changes nothing of the pool. *)
LEMMA ClientStep ==
    ASSUME PInv, NEW c \in Conns, Client(c)
    PROVE  PInv'
<1>1. UNCHANGED <<maxfd, read_set, ready_set, maxi, clientfd, clientrio, peer, at, i, rio, line,
                  taken, echoed, exited>>
  BY DEF Client, Connect, Send, Finish, poolVars, localVars
<1>2. backlog' \in Seq(Conns) /\ sent' \in [Conns -> Nat] /\ nls' \in [Conns -> SUBSET Nat]
      /\ eof' \in [Conns -> BOOLEAN]
  <2>1. CASE Connect(c)
    BY <2>1 DEF Connect, clientVars, PInv, Types
  <2>2. CASE Send(c)
    <3>1. /\ sent' = [sent EXCEPT ![c] = sent[c] + 1]
          /\ nls' = [nls EXCEPT ![c] = nls[c] \cup {sent[c] + 1}] \/ nls' = nls
          /\ backlog' = backlog /\ eof' = eof
      BY <2>2, Zenon DEF Send
    <3>2. sent \in [Conns -> Nat] /\ nls \in [Conns -> SUBSET Nat]
      BY DEF PInv, Types
    <3>3. sent' \in [Conns -> Nat] /\ nls' \in [Conns -> SUBSET Nat]
      BY <3>1, <3>2
    <3> QED
      BY <3>1, <3>3 DEF PInv, Types
  <2>3. CASE Finish(c)
    BY <2>3 DEF Finish, PInv, Types
  <2> QED
    BY <2>1, <2>2, <2>3 DEF Client
<1>3. Types'
  BY <1>1, <1>2 DEF PInv, Types
<1>4. backlog # <<>> => backlog' # <<>>
  BY Zenon, AppendNotEmpty DEF Client, Connect, Send, Finish, PInv, Types
<1>5. Current'
  BY <1>1, <1>4 DEF PInv, Current
<1> QED
  BY <1>1, <1>3, <1>5, Still DEF PInv

(* select changes nothing of the pool but ready_set and nready. *)
LEMMA SelectStep == ASSUME PInv, Select PROVE PInv'
<1>1. UNCHANGED <<maxfd, read_set, maxi, clientfd, clientrio, peer>>
  BY DEF Select
<1>2. /\ ready_set' \subseteq read_set /\ at' \in {"accept", "scan"} /\ i' = 0
      /\ UNCHANGED <<rio, line, backlog, sent, nls, eof, taken, echoed, exited>>
      /\ at' = "accept" => backlog # <<>>
  BY DEF Select, clientVars, Readable
<1>3. Types'
  BY <1>1, <1>2, Constants DEF PInv, Types
<1>4. Current'
  BY <1>2 DEF Current, Serving
<1> QED
  BY <1>1, <1>3, <1>4, Still DEF PInv

(* The new client's slot and descriptor were free. *)
LEMMA AcceptStep == ASSUME PInv, Accept PROVE PInv'
<1>1. CASE FreeFds = {} \/ FreeSlots = {}
  <2>1. UNCHANGED <<maxfd, read_set, ready_set, maxi, clientfd, clientrio, peer, at, i, rio, line,
                    backlog, sent, nls, eof, taken, echoed>> /\ exited' = TRUE
    BY <1>1 DEF Accept, poolVars, localVars, clientVars
  <2>2. Types' /\ Current'
    BY <2>1 DEF PInv, Types, Current
  <2> QED
    BY <2>1, <2>2, Still DEF PInv
<1>2. CASE ~(FreeFds = {} \/ FreeSlots = {})
  <2> DEFINE f == Min(FreeFds)
             s == Min(FreeSlots)
  <2>1. /\ s \in Slots /\ clientfd[s] = -1 /\ f = FdOf(s) /\ f \in Fds /\ f > ListenFd
        /\ peer[f] = {}
    BY <1>2, Lowest
  <2>2. /\ clientfd' = [clientfd EXCEPT ![s] = f]
        /\ clientrio' = [clientrio EXCEPT ![s] = EmptyRio(f)]
        /\ read_set' = read_set \cup {f}
        /\ maxfd' = Max({maxfd, f}) /\ maxi' = Max({maxi, s})
        /\ peer' = [peer EXCEPT ![f] = {Head(backlog)}]
        /\ backlog' = Tail(backlog) /\ at' = "scan"
        /\ UNCHANGED <<ready_set, exited, i, rio, line, sent, nls, eof, taken, echoed>>
    BY <1>2 DEF Accept, AddClient, localVars, clientVars
  <2> HIDE DEF f, s
  <2>3. backlog # <<>> /\ Head(backlog) \in Conns /\ Tail(backlog) \in Seq(Conns)
    BY DEF PInv, Types, Current, Accept
  <2>4. /\ s \in Int /\ f \in Int /\ maxi \in Int /\ maxfd \in Int
        /\ maxi' \in {maxi, s} /\ maxi' >= maxi /\ maxi' >= s
        /\ maxfd' \in {maxfd, f} /\ maxfd' >= maxfd /\ maxfd' >= f
    <3>1. s \in Int /\ f \in Int /\ maxi \in Int /\ maxfd \in Int
      BY <2>1, Constants DEF PInv, Types, Slots, Fds
    <3> QED
      BY <2>2, <3>1, MaxOf
  <2>5. Types'
    <3>1. maxi' \in -1 .. FD_SETSIZE - 1 /\ maxfd' \in Fds
      BY <2>1, <2>4, Constants DEF PInv, Types, Slots
    <3>2. clientfd' \in [Slots -> Fds \cup {-1}]
          /\ clientrio' \in [Slots -> {EmptyRio(fd) : fd \in Fds}]
      BY <2>1, <2>2 DEF PInv, Types
    <3>3. peer' \in [Fds -> SUBSET Conns]
      BY <2>2, <2>3 DEF PInv, Types
    <3>4. read_set' \subseteq Fds
      BY <2>1, <2>2 DEF PInv, Types
    <3> QED
      BY <2>2, <2>3, <3>1, <3>2, <3>3, <3>4 DEF PInv, Types
  <2>6. /\ clientfd'[s] = f /\ clientrio'[s] = EmptyRio(f)
        /\ \A u \in Slots \ {s} : clientfd'[u] = clientfd[u] /\ clientrio'[u] = clientrio[u]
        /\ peer'[f] = {Head(backlog)}
        /\ \A g \in Fds \ {f} : peer'[g] = peer[g]
    BY <2>1, <2>2 DEF PInv, Types
  <2>7. SlotsFds'
    BY <2>1, <2>6 DEF PInv, SlotsFds, FdOf
  <2>8. Connected'
    <3>1. \A u \in Slots : FdOf(u) = f => u = s
      BY <2>1, Constants DEF FdOf, Slots
    <3>2. \A g \in Fds : FdOf(s) = g => g = f
      BY <2>1
    <3>3. Connected' <=> \A g \in Fds : peer'[g] # {}
                                          <=> \E u \in Slots : FdOf(u) = g /\ clientfd'[u] = g
      BY DEF Connected, FdOf
    <3>4. ASSUME NEW g \in Fds
          PROVE  peer'[g] # {} <=> \E u \in Slots : FdOf(u) = g /\ clientfd'[u] = g
      <4>1. CASE g = f
        BY <2>1, <2>6, <4>1
      <4>2. CASE g # f
        <5>1. peer[g] # {} <=> \E u \in Slots : FdOf(u) = g /\ clientfd[u] = g
          BY DEF PInv, Connected
        <5>2. \A u \in Slots : FdOf(u) = g => u # s
          BY <3>2, <4>2
        <5> QED
          BY <2>6, <4>2, <5>1, <5>2
      <4> QED
        BY <4>1, <4>2
    <3> QED
      BY <3>3, <3>4
  <2>9. Selected'
    <3>1. Selected' <=> read_set' = {ListenFd} \cup {g \in Fds : peer'[g] # {}}
      BY DEF Selected
    <3> QED
      BY <2>1, <2>2, <2>6, <3>1 DEF PInv, Selected
  <2>10. Marks'
    <3>1. ASSUME NEW u \in Slots, clientfd'[u] # -1
          PROVE  u <= maxi' /\ clientfd'[u] <= maxfd' /\ clientrio'[u] = EmptyRio(clientfd'[u])
      <4>1. CASE u = s
        BY <2>4, <2>6, <4>1
      <4>2. CASE u # s
        <5>1. u <= maxi /\ clientfd[u] <= maxfd /\ clientrio[u] = EmptyRio(clientfd[u])
          BY <2>6, <3>1, <4>2 DEF PInv, Marks
        <5>2. u \in Int /\ clientfd[u] \in Int /\ maxi' \in Int /\ maxfd' \in Int
          BY <2>4, Constants DEF Slots, PInv, Types, Fds
        <5> QED
          BY <2>4, <2>6, <4>2, <5>1, <5>2
      <4> QED
        BY <4>1, <4>2
    <3>2. Marks' <=> \A u \in Slots : clientfd'[u] # -1 =>
                        /\ u <= maxi' /\ clientfd'[u] <= maxfd'
                        /\ clientrio'[u] = EmptyRio(clientfd'[u])
      BY DEF Marks, EmptyRio
    <3> QED
      BY <3>1, <3>2
  <2>11. Current'
    BY <2>2 DEF Current, Serving
  <2> QED
    BY <2>5, <2>7, <2>8, <2>9, <2>10, <2>11 DEF PInv
<1> QED
  BY <1>1, <1>2

(* The number of bytes CopyBytes copies. *)
Room    == {rio.cnt, MAXLINE - 1 - line.n}
Ends(c) == {p - rio.ptr + 1 : p \in {q \in nls[c] : q >= rio.ptr}}
Count(c) == Min(Room \cup Ends(c))

(* CopyBytes copies at least a byte, and the line stays within its buffer. *)
LEMMA CopyCount ==
    ASSUME PInv, at = "line", rio.cnt > 0, NEW c \in rio.from
    PROVE  Count(c) \in 1 .. rio.cnt /\ Count(c) <= MAXLINE - 1 - line.n
<1>1. /\ rio.cnt \in Nat /\ line.n \in Nat /\ rio.ptr \in Nat /\ c \in Conns
      /\ line.n < MAXLINE - 1
  BY Constants DEF PInv, Types, Current
<1>2. nls[c] \subseteq Nat
  BY <1>1 DEF PInv, Types
<1>3. \A k \in Room \cup Ends(c) : k \in Nat /\ k >= 1
  BY <1>1, <1>2, Constants DEF Room, Ends
<1>4. Room \cup Ends(c) \subseteq Nat /\ Room \cup Ends(c) # {}
  BY <1>3 DEF Room
<1>5. Count(c) \in Room \cup Ends(c) /\ \A k \in Room \cup Ends(c) : Count(c) <= k
  BY <1>4, MinOf DEF Count
<1>6. Count(c) <= rio.cnt /\ Count(c) <= MAXLINE - 1 - line.n
  BY <1>5 DEF Room
<1> QED
  BY <1>1, <1>3, <1>5, <1>6

(* What Refill reads. *)
LEMMA MinOfTwo ==
    ASSUME NEW a \in Int, NEW b \in Int
    PROVE  Min({a, b}) \in {a, b} /\ Min({a, b}) <= a /\ Min({a, b}) <= b
<1>1. \E x \in {a, b} : \A y \in {a, b} : x <= y
  OBVIOUS
<1>2. Min({a, b}) \in {a, b} /\ \A y \in {a, b} : Min({a, b}) <= y
  BY <1>1 DEF Min
<1> QED
  BY <1>2

(* Setting the fields of a reader but its descriptor. *)
LEMMA RioSet ==
    ASSUME NEW r \in [fd : Fds, from : SUBSET Conns, cnt : 0 .. RIO_BUFSIZE, ptr : Nat],
           NEW from \in SUBSET Conns, NEW cnt \in 0 .. RIO_BUFSIZE, NEW ptr \in Nat
    PROVE  /\ [r EXCEPT !.from = from, !.cnt = cnt, !.ptr = ptr]
                 \in [fd : Fds, from : SUBSET Conns, cnt : 0 .. RIO_BUFSIZE, ptr : Nat]
           /\ [r EXCEPT !.from = from, !.cnt = cnt, !.ptr = ptr].fd = r.fd
           /\ [r EXCEPT !.from = from, !.cnt = cnt, !.ptr = ptr].from = from
           /\ [r EXCEPT !.from = from, !.cnt = cnt, !.ptr = ptr].cnt = cnt
           /\ [r EXCEPT !.from = from, !.cnt = cnt, !.ptr = ptr].ptr = ptr
OBVIOUS

(* The loop of check_clients changes nothing of the pool. *)
LEMMA ScanStep == ASSUME PInv, ScanEnd \/ ScanSkip \/ ScanReady PROVE PInv'
<1>1. UNCHANGED <<maxfd, read_set, ready_set, maxi, clientfd, clientrio, peer, backlog, sent,
                  nls, eof, taken, echoed, exited>>
  BY DEF ScanEnd, ScanSkip, ScanReady, poolVars, localVars, clientVars
<1>2. i \in Int /\ maxi \in Int
  BY DEF PInv, Types
<1>3. Types' /\ Current'
  <2>1. CASE ScanEnd
    BY <1>1, <2>1 DEF ScanEnd, localVars, PInv, Types, Current, Serving
  <2>2. CASE ScanSkip
    BY <1>1, <1>2, <2>2, Constants DEF ScanSkip, Scanning, PInv, Types, Current, Serving
  <2>3. CASE ScanReady
    <3>1. i \in Slots /\ i' = i /\ at' = "line" /\ rio' = clientrio[i] /\ line' = EmptyLine
      BY <1>2, <2>3, Constants DEF ScanReady, Scanning, Slots, PInv, Types
    <3>2. clientfd[i] = FdOf(i) /\ FdOf(i) # -1 /\ FdOf(i) \in Fds
      BY <2>3, <3>1, Constants DEF ScanReady, ReadyAt, PInv, SlotsFds, Types
    <3>3. rio' = EmptyRio(FdOf(i))
      BY <3>1, <3>2 DEF PInv, Marks
    <3>4. rio' \in [fd : Fds, from : SUBSET Conns, cnt : 0 .. RIO_BUFSIZE, ptr : Nat]
          /\ rio'.fd = FdOf(i)
      BY <3>2, <3>3, Constants DEF EmptyRio
    <3>5. line' \in [from : SUBSET Conns, first : Nat, n : 0 .. MAXLINE - 1] /\ line'.n = 0
      BY <3>1, Constants DEF EmptyLine
    <3>6. Types'
      BY <1>1, <3>1, <3>4, <3>5 DEF PInv, Types
    <3>7. Current'
      <4>1. 0 < MAXLINE - 1
        BY Constants
      <4> QED
        BY <1>1, <3>1, <3>2, <3>4, <3>5, <4>1 DEF Current, FdOf
    <3> QED
      BY <3>6, <3>7
  <2> QED
    BY <2>1, <2>2, <2>3
<1> QED
  BY <1>1, <1>3, Still DEF PInv

(* read_line's three steps. *)
LEMMA ReadLineStep == ASSUME PInv, ReadLine PROVE PInv'
<1>1. UNCHANGED <<maxfd, read_set, ready_set, maxi, clientfd, clientrio, peer, backlog, sent,
                  nls, eof, echoed, exited, i>>
  BY DEF ReadLine, Refill, EndOfFile, CopyBytes, poolVars, localVars, clientVars
<1>2. rio \in [fd : Fds, from : SUBSET Conns, cnt : 0 .. RIO_BUFSIZE, ptr : Nat]
  BY DEF PInv, Types
<1>3. CASE Refill
  <2>1. PICK c \in peer[rio.fd] :
           /\ Min({sent[c] - taken[c], RIO_BUFSIZE}) > 0
           /\ rio' = [rio EXCEPT !.from = {c}, !.cnt = Min({sent[c] - taken[c], RIO_BUFSIZE}),
                                 !.ptr = taken[c] + 1]
           /\ taken' = [taken EXCEPT ![c] = taken[c] + Min({sent[c] - taken[c], RIO_BUFSIZE})]
           /\ at' = at /\ line' = line
    BY <1>3 DEF Refill
  <2>2. c \in Conns /\ sent[c] \in Nat /\ taken[c] \in Nat
    BY <1>2 DEF PInv, Types
  <2> DEFINE k == Min({sent[c] - taken[c], RIO_BUFSIZE})
  <2>3. k \in Nat /\ k <= RIO_BUFSIZE
    BY <2>1, <2>2, MinOfTwo, Constants
  <2> HIDE DEF k
  <2>4. rio' = [rio EXCEPT !.from = {c}, !.cnt = k, !.ptr = taken[c] + 1]
        /\ taken' = [taken EXCEPT ![c] = taken[c] + k]
    BY <2>1 DEF k
  <2>5. rio' \in [fd : Fds, from : SUBSET Conns, cnt : 0 .. RIO_BUFSIZE, ptr : Nat]
        /\ rio'.fd = rio.fd
    <3>1. k \in 0 .. RIO_BUFSIZE /\ taken[c] + 1 \in Nat /\ {c} \in SUBSET Conns
      BY <2>2, <2>3, Constants
    <3> QED
      BY <1>2, <2>4, <3>1, RioSet
  <2>6. taken' \in [Conns -> Nat]
    BY <2>2, <2>3, <2>4 DEF PInv, Types
  <2>7. Types' /\ Current'
    BY <1>1, <2>1, <2>5, <2>6 DEF PInv, Types, Current
  <2> QED
    BY <1>1, <2>7, Still DEF PInv
<1>4. CASE EndOfFile
  <2>1. at = "line" /\ at' \in {"close", "echo"} /\ UNCHANGED <<rio, line, taken>>
    BY <1>4 DEF EndOfFile, localVars
  <2>2. Types'
    BY <1>1, <2>1 DEF PInv, Types
  <2>3. at' = "echo" => line.n > 0
    <3>1. line.n \in Nat /\ at' = (IF line.n = 0 THEN "close" ELSE "echo")
      BY <1>4, Constants DEF EndOfFile, PInv, Types
    <3> QED
      BY <3>1
  <2>4. Current'
    BY <1>1, <2>1, <2>3 DEF PInv, Current, Serving
  <2> QED
    BY <1>1, <2>2, <2>4, Still DEF PInv
<1>5. CASE CopyBytes
  <2>1. at = "line" /\ rio.cnt > 0 /\ taken' = taken
    BY <1>5 DEF CopyBytes
  <2>2. PICK c \in rio.from :
           /\ rio' = [rio EXCEPT !.cnt = rio.cnt - Count(c), !.ptr = rio.ptr + Count(c)]
           /\ line' = [from  |-> rio.from,
                       first |-> IF line.n = 0 THEN rio.ptr ELSE line.first,
                       n     |-> line.n + Count(c)]
           /\ at' = (IF Count(c) \in Ends(c) \/ line.n + Count(c) = MAXLINE - 1
                     THEN "echo" ELSE "line")
    BY <1>5 DEF CopyBytes, Count, Room, Ends
  <2>3. Count(c) \in 1 .. rio.cnt /\ Count(c) <= MAXLINE - 1 - line.n
    BY <2>1, CopyCount
  <2>4. /\ rio.cnt \in 0 .. RIO_BUFSIZE /\ rio.ptr \in Nat /\ line.first \in Nat
        /\ line.n \in Nat /\ rio.from \subseteq Conns
    BY Constants DEF PInv, Types
  <2>5. rio' \in [fd : Fds, from : SUBSET Conns, cnt : 0 .. RIO_BUFSIZE, ptr : Nat]
        /\ rio'.fd = rio.fd
    <3>1. rio.cnt - Count(c) \in 0 .. RIO_BUFSIZE /\ rio.ptr + Count(c) \in Nat
      BY <2>3, <2>4, Constants
    <3>2. rio' = [rio EXCEPT !.from = rio.from, !.cnt = rio.cnt - Count(c),
                             !.ptr = rio.ptr + Count(c)]
      BY <1>2, <2>2
    <3> QED
      BY <1>2, <2>4, <3>1, <3>2, RioSet
  <2>6. line' \in [from : SUBSET Conns, first : Nat, n : 0 .. MAXLINE - 1]
    BY <2>2, <2>3, <2>4, Constants
  <2>7. /\ at' \in {"echo", "line"} /\ (at' = "line" => line'.n < MAXLINE - 1)
        /\ line'.n > 0
    BY <2>2, <2>3, <2>4, Constants
  <2>8. Types' /\ Current'
    BY <1>1, <2>1, <2>5, <2>6, <2>7 DEF PInv, Types, Current, Serving
  <2> QED
    BY <1>1, <2>8, Still DEF PInv
<1> QED
  BY <1>3, <1>4, <1>5 DEF ReadLine

(* Writing a line changes nothing of the pool. *)
LEMMA EchoStep == ASSUME PInv, Echo PROVE PInv'
<1>1. /\ UNCHANGED <<maxfd, read_set, ready_set, maxi, clientfd, clientrio, peer, rio, line,
                     backlog, sent, nls, eof, taken, exited>>
      /\ at = "echo" /\ at' = "scan" /\ i' = i + 1
  BY DEF Echo, poolVars, clientVars
<1>2. PICK c \in peer[clientfd[i]] :
         echoed' = [echoed EXCEPT ![c] = Append(echoed[c], [from  |-> line.from,
                                                            first |-> line.first,
                                                            last  |-> line.first + line.n - 1])]
  BY DEF Echo
<1>3. i \in Slots /\ c \in Conns
  BY <1>1, Served DEF Serving, PInv, Types
<1>4. at = "echo" => line.n > 0
  BY DEF PInv, Current
<1>5. [from |-> line.from, first |-> line.first, last |-> line.first + line.n - 1] \in Chunks
  BY <1>1, <1>4, Constants DEF Chunks, PInv, Types
<1>6. echoed' \in [Conns -> Seq(Chunks)]
  <2>1. echoed[c] \in Seq(Chunks) /\ echoed \in [Conns -> Seq(Chunks)]
    BY <1>3 DEF PInv, Types
  <2> QED
    BY <1>2, <1>3, <1>5, <2>1
<1>7. Types' /\ Current'
  <2>1. i' \in 0 .. FD_SETSIZE
    BY <1>1, <1>3, Constants DEF Slots
  <2> QED
    BY <1>1, <1>6, <2>1 DEF PInv, Types, Current, Serving
<1> QED
  BY <1>1, <1>7, Still DEF PInv

(* The slot and the descriptor of a closed client are free again, together. *)
LEMMA CloseStep == ASSUME PInv, Close PROVE PInv'
<1>1. /\ UNCHANGED <<maxfd, ready_set, maxi, clientrio, rio, line, backlog, sent, nls, eof,
                     taken, echoed, exited>>
      /\ at = "close" /\ at' = "scan" /\ i' = i + 1
      /\ peer' = [peer EXCEPT ![clientfd[i]] = {}]
      /\ read_set' = read_set \ {clientfd[i]}
      /\ clientfd' = [clientfd EXCEPT ![i] = -1]
  BY DEF Close, clientVars
<1>2. /\ i \in Slots /\ clientfd[i] = FdOf(i) /\ FdOf(i) \in Fds /\ FdOf(i) > ListenFd
      /\ peer[FdOf(i)] # {}
  BY <1>1, Served DEF Serving
<1>3. /\ clientfd'[i] = -1 /\ \A u \in Slots \ {i} : clientfd'[u] = clientfd[u]
      /\ peer'[FdOf(i)] = {} /\ \A g \in Fds \ {FdOf(i)} : peer'[g] = peer[g]
  BY <1>1, <1>2 DEF PInv, Types
<1>4. Types' /\ Current'
  <2>1. i' \in 0 .. FD_SETSIZE
    BY <1>1, <1>2, Constants DEF Slots
  <2>2. /\ clientfd' \in [Slots -> Fds \cup {-1}] /\ peer' \in [Fds -> SUBSET Conns]
        /\ read_set' \subseteq Fds
    BY <1>1 DEF PInv, Types
  <2> QED
    BY <1>1, <2>1, <2>2 DEF PInv, Types, Current, Serving
<1>5. SlotsFds'
  BY <1>3 DEF PInv, SlotsFds, FdOf
<1>6. \A u \in Slots : FdOf(u) = FdOf(i) => u = i
  BY <1>2, Constants DEF FdOf, Slots
<1>7. Connected'
  <2>1. ASSUME NEW g \in Fds
        PROVE  peer'[g] # {} <=> \E u \in Slots : FdOf(u) = g /\ clientfd'[u] = g
    <3>1. CASE g = FdOf(i)
      <4>1. \A u \in Slots : FdOf(u) = g => clientfd'[u] = -1
        BY <1>3, <1>6, <3>1
      <4>2. g # -1
        BY <1>2, <3>1, Constants
      <4> QED
        BY <1>3, <3>1, <4>1, <4>2
    <3>2. CASE g # FdOf(i)
      <4>1. peer[g] # {} <=> \E u \in Slots : FdOf(u) = g /\ clientfd[u] = g
        BY DEF PInv, Connected
      <4>2. \A u \in Slots : FdOf(u) = g => u # i
        BY <3>2
      <4> QED
        BY <1>3, <3>2, <4>1, <4>2
    <3> QED
      BY <3>1, <3>2
  <2>2. Connected' <=> \A g \in Fds : peer'[g] # {}
                                        <=> \E u \in Slots : FdOf(u) = g /\ clientfd'[u] = g
    BY DEF Connected, FdOf
  <2> QED
    BY <2>1, <2>2
<1>8. Selected'
  <2>1. Selected' <=> read_set' = {ListenFd} \cup {g \in Fds : peer'[g] # {}}
    BY DEF Selected
  <2>2. FdOf(i) # ListenFd
    BY <1>2, Constants DEF FdOf, Slots
  <2> QED
    BY <1>1, <1>2, <1>3, <2>1, <2>2 DEF PInv, Selected
<1>9. Marks'
  BY <1>1, <1>3 DEF PInv, Marks, EmptyRio
<1> QED
  BY <1>4, <1>5, <1>7, <1>8, <1>9 DEF PInv

(* A failed call and a stuttering step change nothing of the pool. *)
LEMMA ExitStep == ASSUME PInv, IOError \/ UNCHANGED vars PROVE PInv'
<1>1. /\ UNCHANGED <<maxfd, read_set, ready_set, maxi, clientfd, clientrio, peer, at, i, rio,
                     line, backlog, sent, nls, eof, taken, echoed>>
      /\ exited' \in BOOLEAN
  BY DEF IOError, vars, poolVars, localVars, clientVars, PInv, Types
<1>2. Types'
  BY <1>1 DEF PInv, Types
<1>3. Current'
  BY <1>1 DEF PInv, Current
<1> QED
  BY <1>1, <1>2, <1>3, Still DEF PInv

(* The pool is empty at first. *)
LEMMA InitPInv == Init => PInv
<1> SUFFICES ASSUME Init PROVE PInv
  OBVIOUS
<1>1. EmptyRio(0) \in [fd : Fds, from : SUBSET Conns, cnt : 0 .. RIO_BUFSIZE, ptr : Nat]
  BY Constants DEF EmptyRio, Fds
<1>2. EmptyLine \in [from : SUBSET Conns, first : Nat, n : 0 .. MAXLINE - 1]
  BY Constants DEF EmptyLine
<1>3. 0 \in Fds /\ 0 \in 0 .. FD_SETSIZE /\ -1 \in -1 .. FD_SETSIZE - 1 /\ ListenFd \in Fds
  BY Constants DEF Fds
<1>4. Types
  <2>1. /\ maxfd \in Fds /\ read_set \subseteq Fds /\ ready_set \subseteq Fds
        /\ maxi \in -1 .. FD_SETSIZE - 1
        /\ at \in {"select", "accept", "scan", "line", "echo", "close"}
        /\ i \in 0 .. FD_SETSIZE
    BY <1>3 DEF Init
  <2>2. /\ clientfd \in [Slots -> Fds \cup {-1}]
        /\ clientrio \in [Slots -> {EmptyRio(fd) : fd \in Fds}]
    BY <1>3 DEF Init
  <2>3. /\ rio \in [fd : Fds, from : SUBSET Conns, cnt : 0 .. RIO_BUFSIZE, ptr : Nat]
        /\ line \in [from : SUBSET Conns, first : Nat, n : 0 .. MAXLINE - 1]
    BY <1>1, <1>2 DEF Init
  <2>4. /\ backlog \in Seq(Conns) /\ peer \in [Fds -> SUBSET Conns]
        /\ sent \in [Conns -> Nat] /\ nls \in [Conns -> SUBSET Nat]
        /\ eof \in [Conns -> BOOLEAN] /\ taken \in [Conns -> Nat]
        /\ echoed \in [Conns -> Seq(Chunks)] /\ exited \in BOOLEAN
    <3>1. 0 \in Nat /\ {} \in SUBSET Conns /\ {} \in SUBSET Nat /\ FALSE \in BOOLEAN
          /\ <<>> \in Seq(Conns) /\ <<>> \in Seq(Chunks)
      OBVIOUS
    <3> QED
      BY <3>1, Zenon DEF Init
  <2> QED
    BY <2>1, <2>2, <2>3, <2>4 DEF Types
<1>5. \A s \in Slots : clientfd[s] = -1 /\ FdOf(s) # -1
  BY Constants DEF Init, FdOf, Slots
<1>6. \A fd \in Fds : peer[fd] = {} /\ fd # -1
  BY Constants DEF Init, Fds
<1>7. SlotsFds /\ Marks
  BY <1>5 DEF SlotsFds, Marks
<1>8. Connected
  BY <1>5, <1>6 DEF Connected
<1>9. Selected
  BY <1>6 DEF Selected, Init
<1>10. Current
  BY DEF Init, Current, Serving
<1> QED
  BY <1>4, <1>7, <1>8, <1>9, <1>10 DEF PInv

(* Every step keeps the first invariant. *)
LEMMA StepPInv == ASSUME PInv, [Next]_vars PROVE PInv'
BY ClientStep, SelectStep, AcceptStep, ScanStep, ReadLineStep, EchoStep, CloseStep, ExitStep
   DEF Next, Server, CheckClients

-----------------------------------------------------------------------------
(* What the first invariant says of the pool *)

(* Slots and descriptors are taken lowest first, so the slots never run out   *)
(* before the descriptors do (AddClient).                                     *)
LEMMA TooMany == PInv => NeverTooMany
<1> SUFFICES ASSUME PInv PROVE NeverTooMany
  OBVIOUS
<1>1. \A s \in Slots : clientfd[s] \in {-1, ListenFd + 1 + s}
  BY DEF PInv, SlotsFds, FdOf
<1>2. FreeFds # {} => FreeSlots # {}
  BY Lowest
<1> QED
  BY <1>1, <1>2 DEF NeverTooMany

(* A slot in use has a descriptor above listenfd. *)
LEMMA Used ==
    ASSUME PInv, NEW s \in Slots \ FreeSlots
    PROVE  /\ clientfd[s] = FdOf(s) /\ FdOf(s) \in Fds /\ FdOf(s) > ListenFd
           /\ peer[FdOf(s)] # {}
<1>1. clientfd[s] = FdOf(s) /\ FdOf(s) > ListenFd
  BY Constants DEF PInv, SlotsFds, FreeSlots, FdOf, Slots
<1>2. FdOf(s) \in Fds
  BY <1>1, Constants DEF PInv, Types
<1> QED
  BY <1>1, <1>2 DEF PInv, Connected

(* A connected descriptor is in a slot. *)
LEMMA InSlot ==
    ASSUME PInv, NEW fd \in Fds, peer[fd] # {}
    PROVE  /\ fd > ListenFd
           /\ \E s \in Slots \ FreeSlots : clientfd[s] = fd /\ FdOf(s) = fd
<1>1. PICK s \in Slots : FdOf(s) = fd /\ clientfd[s] = fd
  BY DEF PInv, Connected
<1>2. fd > ListenFd /\ s \notin FreeSlots
  BY <1>1, Constants DEF FdOf, Slots, FreeSlots
<1> QED
  BY <1>1, <1>2

(* The records of who is connected agree. *)
LEMMA Agreed == PInv => Agree
<1> SUFFICES ASSUME PInv PROVE Agree
  OBVIOUS
<1>1. {clientfd[s] : s \in Slots \ FreeSlots} = {fd \in Fds : peer[fd] # {}}
  <2>1. ASSUME NEW s \in Slots \ FreeSlots PROVE clientfd[s] \in {fd \in Fds : peer[fd] # {}}
    BY Used
  <2>2. ASSUME NEW fd \in Fds, peer[fd] # {} PROVE fd \in {clientfd[s] : s \in Slots \ FreeSlots}
    BY <2>2, InSlot
  <2> QED
    BY <2>1, <2>2
<1>2. ListenFd \notin {fd \in Fds : peer[fd] # {}}
  BY InSlot, Constants
<1>3. \A s, u \in Slots \ FreeSlots : clientfd[s] = clientfd[u] => s = u
  BY Used, Constants DEF FdOf, Slots
<1>4. \A s \in Slots \ FreeSlots : /\ s <= maxi /\ clientfd[s] <= maxfd
                                   /\ clientrio[s].fd = clientfd[s]
  <2> TAKE s \in Slots \ FreeSlots
  <2>1. clientfd[s] # -1
    BY DEF FreeSlots
  <2>2. s <= maxi /\ clientfd[s] <= maxfd /\ clientrio[s] = EmptyRio(clientfd[s])
    BY <2>1 DEF PInv, Marks
  <2>3. EmptyRio(clientfd[s]).fd = clientfd[s]
    BY DEF EmptyRio
  <2> QED
    BY <2>2, <2>3
<1> QED
  BY <1>1, <1>2, <1>3, <1>4 DEF PInv, Selected, Agree

-----------------------------------------------------------------------------
(* Who is on which connection *)

(* A client is in the backlog once or the peer of one descriptor. *)
Single  == \A fd \in Fds : \A c, d \in peer[fd] : c = d
Apart   == \A fd, g \in Fds : peer[fd] \cap peer[g] # {} => fd = g
Queued  == \A k \in 1 .. Len(backlog) :
              /\ \A m \in 1 .. Len(backlog) : backlog[k] = backlog[m] => k = m
              /\ \A fd \in Fds : backlog[k] \notin peer[fd]
Peers   == Single /\ Apart /\ Queued

(* A new client is known to nobody yet. *)
LEMMA ConnectPeers == ASSUME PInv, Peers, NEW c \in Conns, Connect(c) PROVE Peers'
<1>1. backlog' = Append(backlog, c) /\ peer' = peer /\ ~Known(c)
  BY DEF Connect
<1>2. backlog \in Seq(Conns)
  BY DEF PInv, Types
<1>3. (\A k \in 1 .. Len(backlog) : backlog[k] # c) /\ (\A fd \in Fds : c \notin peer[fd])
  BY <1>1, <1>2 DEF Known
<1>4. /\ Len(backlog') = Len(backlog) + 1 /\ Len(backlog) \in Nat
      /\ backlog'[Len(backlog) + 1] = c
      /\ \A k \in 1 .. Len(backlog) : backlog'[k] = backlog[k]
  BY <1>1, <1>2
<1>5. Queued'
  <2> SUFFICES ASSUME NEW k \in 1 .. Len(backlog')
               PROVE  /\ \A m \in 1 .. Len(backlog') : backlog'[k] = backlog'[m] => k = m
                      /\ \A fd \in Fds : backlog'[k] \notin peer'[fd]
    BY DEF Queued
  <2>1. CASE k = Len(backlog) + 1
    BY <1>1, <1>3, <1>4, <2>1
  <2>2. CASE k # Len(backlog) + 1
    <3>1. k \in 1 .. Len(backlog)
      BY <1>4, <2>2
    <3> QED
      BY <1>1, <1>3, <1>4, <3>1 DEF Peers, Queued
  <2> QED
    BY <2>1, <2>2
<1> QED
  BY <1>1, <1>5 DEF Peers, Single, Apart

(* The head of the backlog becomes the peer of a descriptor without one. *)
LEMMA AcceptPeers == ASSUME PInv, Peers, Accept PROVE Peers'
<1>1. CASE FreeFds = {} \/ FreeSlots = {}
  BY <1>1 DEF Accept, Peers, Single, Apart, Queued
<1>2. CASE ~(FreeFds = {} \/ FreeSlots = {})
  <2> DEFINE f == Min(FreeFds)
  <2>1. f \in Fds /\ peer[f] = {}
    BY <1>2, Lowest
  <2>2. peer' = [peer EXCEPT ![f] = {Head(backlog)}] /\ backlog' = Tail(backlog)
    BY <1>2 DEF Accept
  <2> HIDE DEF f
  <2>3. backlog # <<>> /\ backlog \in Seq(Conns)
    BY DEF PInv, Types, Current, Accept
  <2>4. /\ Len(backlog) \in Nat /\ Len(backlog) > 0 /\ Head(backlog) = backlog[1]
        /\ Len(backlog') = Len(backlog) - 1
        /\ \A k \in 1 .. Len(backlog') : backlog'[k] = backlog[k + 1]
    BY <2>2, <2>3
  <2>5. peer'[f] = {backlog[1]} /\ \A g \in Fds \ {f} : peer'[g] = peer[g]
    BY <2>1, <2>2, <2>4 DEF PInv, Types
  <2>6. \A g \in Fds : backlog[1] \notin peer[g]
    BY <2>4 DEF Peers, Queued
  <2>7. Single'
    <3>1. Single' <=> \A g \in Fds : \A c, d \in peer'[g] : c = d
      BY DEF Single
    <3> QED
      BY <2>5, <3>1 DEF Peers, Single
  <2>8. Apart'
    <3>1. Apart' <=> \A g, h \in Fds : peer'[g] \cap peer'[h] # {} => g = h
      BY DEF Apart
    <3> QED
      BY <2>5, <2>6, <3>1 DEF Peers, Apart
  <2>9. Queued'
    <3> SUFFICES ASSUME NEW k \in 1 .. Len(backlog')
                 PROVE  /\ \A m \in 1 .. Len(backlog') : backlog'[k] = backlog'[m] => k = m
                        /\ \A g \in Fds : backlog'[k] \notin peer'[g]
      BY DEF Queued
    <3>1. k + 1 \in 1 .. Len(backlog) /\ k + 1 # 1 /\ 1 \in 1 .. Len(backlog)
      BY <2>4
    <3>2. \A m \in 1 .. Len(backlog') : backlog'[k] = backlog'[m] => k = m
      BY <2>4, <3>1 DEF Peers, Queued
    <3>3. backlog[k + 1] # backlog[1]
      BY <3>1 DEF Peers, Queued
    <3>4. \A g \in Fds : backlog'[k] \notin peer'[g]
      BY <2>4, <2>5, <3>1, <3>3 DEF Peers, Queued
    <3> QED
      BY <3>2, <3>4
  <2> QED
    BY <2>7, <2>8, <2>9 DEF Peers
<1> QED
  BY <1>1, <1>2

(* A closed descriptor has no peer. *)
LEMMA ClosePeers == ASSUME PInv, Peers, Close PROVE Peers'
<1>1. \A g \in Fds : peer'[g] \subseteq peer[g]
  <2>1. peer' = [peer EXCEPT ![clientfd[i]] = {}]
    BY DEF Close
  <2> QED
    BY <2>1 DEF PInv, Types
<1>2. backlog' = backlog
  BY DEF Close
<1>3. Single' /\ Apart'
  <2>1. Single' <=> \A g \in Fds : \A c, d \in peer'[g] : c = d
    BY DEF Single
  <2>2. Apart' <=> \A g, h \in Fds : peer'[g] \cap peer'[h] # {} => g = h
    BY DEF Apart
  <2> QED
    BY <1>1, <2>1, <2>2 DEF Peers, Single, Apart
<1>4. Queued'
  BY <1>1, <1>2 DEF Peers, Queued
<1> QED
  BY <1>3, <1>4 DEF Peers

(* Every step keeps the clients apart. *)
LEMMA StepPeers == ASSUME PInv, Peers, [Next]_vars PROVE Peers'
<1>1. ASSUME UNCHANGED <<peer, backlog>> PROVE Peers'
  BY <1>1 DEF Peers, Single, Apart, Queued
<1>2. CASE \E c \in Conns : Client(c)
  BY <1>1, <1>2, ConnectPeers DEF Client, Send, Finish
<1>3. CASE Server
  <2>1. CASE Accept
    BY <2>1, AcceptPeers
  <2>2. CASE Close
    BY <2>2, ClosePeers
  <2>3. CASE Select \/ ScanEnd \/ ScanSkip \/ ScanReady \/ ReadLine \/ Echo
    <3>1. UNCHANGED <<peer, backlog>>
      BY <2>3 DEF Select, ScanEnd, ScanSkip, ScanReady, ReadLine, Refill, EndOfFile, CopyBytes, Echo
    <3> QED
      BY <1>1, <3>1
  <2> QED
    BY <1>3, <2>1, <2>2, <2>3 DEF Server, CheckClients
<1>4. CASE IOError \/ UNCHANGED vars
  BY <1>1, <1>4 DEF IOError, vars
<1> QED
  BY <1>2, <1>3, <1>4 DEF Next

(* Nobody is connected at first. *)
LEMMA InitPeers == Init => Peers
<1> SUFFICES ASSUME Init PROVE Peers
  OBVIOUS
<1>1. (\A fd \in Fds : peer[fd] = {}) /\ Len(backlog) = 0
  BY DEF Init
<1> QED
  BY <1>1 DEF Peers, Single, Apart, Queued

-----------------------------------------------------------------------------
(* What nready counts *)

(* The ready clients the loop has still to come to. *)
FromSlot == IF at \in Serving THEN i + 1 ELSE i
Pending  == {s \in Slots : s >= FromSlot /\ ReadyAt(s)}
Counted  == /\ nready \in 0 .. OpenMax
            /\ at = "select" => nready = 0
            /\ at = "accept" => /\ nready = Cardinality(Pending) + 1
                                /\ i = 0 /\ ready_set \subseteq read_set
            /\ at \in {"scan"} \cup Serving => nready = Cardinality(Pending)

(* A set of slots is finite. *)
LEMMA SlotsFinite == ASSUME NEW S \in SUBSET Slots PROVE IsFiniteSet(S) /\ Cardinality(S) \in Nat
<1>1. IsFiniteSet(Slots)
  BY Constants, FS_Interval DEF Slots
<1>2. IsFiniteSet(S)
  BY <1>1, FS_Subset
<1> QED
  BY <1>2, FS_CardinalityType

(* So are the ready clients still to come. *)
LEMMA PendingFinite == IsFiniteSet(Pending) /\ Cardinality(Pending) \in Nat
BY SlotsFinite DEF Pending

(* The count holds while nothing it counts changes. *)
LEMMA CountedStill ==
    ASSUME Counted, UNCHANGED <<clientfd, read_set, ready_set, nready, at, i>>
    PROVE  Counted'
<1>1. Pending' = Pending
  BY DEF Pending, FromSlot, ReadyAt
<1> QED
  BY <1>1 DEF Counted

(* select counts the listening descriptor and the ready clients. *)
LEMMA SelectCounted == ASSUME PInv, Select PROVE Counted'
<1> DEFINE ready == {fd \in read_set : fd <= maxfd /\ Readable(fd)}
           f     == [s \in Pending' |-> clientfd[s]]
<1>1. /\ ready_set' = ready /\ nready' = Cardinality(ready) /\ i' = 0
      /\ at' = (IF ListenFd \in ready THEN "accept" ELSE "scan")
      /\ UNCHANGED <<clientfd, read_set>>
  BY DEF Select
<1>2. ready \subseteq read_set /\ read_set \subseteq Fds
  BY DEF PInv, Types
<1> HIDE DEF ready
<1>3. IsFiniteSet(ready) /\ Cardinality(ready) \in 0 .. OpenMax
  <2>1. IsFiniteSet(Fds) /\ Cardinality(Fds) = OpenMax
    <3>1. OpenMax - 1 \in Int /\ 0 \in Int /\ ~(0 > OpenMax - 1)
      BY Constants
    <3>2. IsFiniteSet(0 .. OpenMax - 1) /\ Cardinality(0 .. OpenMax - 1) = OpenMax - 1 - 0 + 1
      BY <3>1, FS_Interval
    <3> QED
      BY <3>2, Constants DEF Fds
  <2>2. ready \in SUBSET Fds
    BY <1>2
  <2>3. IsFiniteSet(ready) /\ Cardinality(ready) <= OpenMax
    BY <2>1, <2>2, FS_Subset
  <2>4. Cardinality(ready) \in Nat
    BY <2>3, FS_CardinalityType
  <2> QED
    BY <2>3, <2>4, Constants
<1>4. \A s : s \in Pending' <=> s \in Slots /\ clientfd[s] \in ready /\ clientfd[s] = FdOf(s)
  <2>1. FromSlot' = 0
    BY <1>1 DEF FromSlot, Serving
  <2>2. \A s \in Slots : s >= 0 /\ FdOf(s) > 0
    BY Constants DEF Slots, FdOf
  <2>3. \A s \in Slots : clientfd[s] > 0 <=> clientfd[s] = FdOf(s)
    BY <2>2 DEF PInv, SlotsFds
  <2> QED
    BY <1>1, <2>1, <2>2, <2>3 DEF Pending, ReadyAt
<1>5. f \in Bijection(Pending', ready \ {ListenFd})
  <2>1. \A s \in Slots : FdOf(s) # ListenFd
    BY Constants DEF Slots, FdOf
  <2>2. f \in [Pending' -> ready \ {ListenFd}]
    BY <1>4, <2>1
  <2>3. \A s, u \in Pending' : f[s] = f[u] => s = u
    <3>1. \A s, u \in Slots : FdOf(s) = FdOf(u) => s = u
      BY Constants DEF Slots, FdOf
    <3> QED
      BY <1>4, <3>1
  <2>4. \A fd \in ready \ {ListenFd} : \E s \in Pending' : f[s] = fd
    <3> TAKE fd \in ready \ {ListenFd}
    <3>1. fd \in Fds /\ peer[fd] # {}
      BY <1>2 DEF PInv, Selected
    <3>2. PICK s \in Slots : clientfd[s] = fd /\ FdOf(s) = fd
      BY <3>1, InSlot
    <3> QED
      BY <1>4, <3>2
  <2> HIDE DEF f
  <2> QED
    BY <2>2, <2>3, <2>4, Fun_IsBij
<1>6. Cardinality(Pending') = Cardinality(ready \ {ListenFd})
  <2>1. IsFiniteSet(Pending')
    BY <1>4, SlotsFinite
  <2>2. ExistsBijection(Pending', ready \ {ListenFd})
    BY <1>5, Fun_ExistsBij
  <2> HIDE DEF f
  <2> QED
    BY <2>1, <2>2, FS_Bijection
<1>7. Cardinality(ready \ {ListenFd})
        = IF ListenFd \in ready THEN Cardinality(ready) - 1 ELSE Cardinality(ready)
  BY <1>3, FS_RemoveElement
<1>8. /\ at' = "accept" => nready' = Cardinality(Pending') + 1
      /\ at' = "scan" => nready' = Cardinality(Pending')
  BY <1>1, <1>3, <1>6, <1>7
<1>9. at' \in {"accept", "scan"} /\ ready_set' \subseteq read_set'
  BY <1>1, <1>2
<1> QED
  BY <1>1, <1>3, <1>8, <1>9 DEF Counted, Serving

(* The descriptor accept returns was not selected: the new client is not ready. *)
LEMMA AcceptPending ==
    ASSUME PInv, Counted, Accept, ~(FreeFds = {} \/ FreeSlots = {})
    PROVE  Pending' = Pending
<1> DEFINE f == Min(FreeFds)
           s == Min(FreeSlots)
<1>1. s \in Slots /\ clientfd[s] = -1 /\ f \in Fds /\ f > ListenFd /\ peer[f] = {}
  BY Lowest
<1>2. /\ clientfd' = [clientfd EXCEPT ![s] = f] /\ at' = "scan" /\ at = "accept"
      /\ UNCHANGED <<ready_set, i>>
  BY DEF Accept, AddClient, localVars
<1> HIDE DEF f, s
<1>3. f \notin ready_set
  BY <1>1, <1>2, Constants DEF PInv, Selected, Counted
<1>4. clientfd'[s] = f /\ \A u \in Slots \ {s} : clientfd'[u] = clientfd[u]
  BY <1>1, <1>2 DEF PInv, Types
<1>5. \A u \in Slots : ReadyAt(u)' <=> ReadyAt(u)
  <2> TAKE u \in Slots
  <2>1. CASE u = s
    BY <1>1, <1>2, <1>3, <1>4, <2>1 DEF ReadyAt
  <2>2. CASE u # s
    BY <1>2, <1>4, <2>2 DEF ReadyAt
  <2> QED
    BY <2>1, <2>2
<1>6. FromSlot' = FromSlot
  BY <1>2 DEF FromSlot, Serving
<1> QED
  BY <1>5, <1>6 DEF Pending

(* add_client counts the listening descriptor down, and no other. *)
LEMMA AcceptCounted == ASSUME PInv, Counted, Accept PROVE Counted'
<1>1. CASE FreeFds = {} \/ FreeSlots = {}
  BY <1>1, CountedStill DEF Accept, poolVars, localVars
<1>2. CASE ~(FreeFds = {} \/ FreeSlots = {})
  <2>1. at' = "scan" /\ at = "accept" /\ nready' = nready - 1
    BY <1>2 DEF Accept, AddClient
  <2>2. Pending' = Pending
    BY <1>2, AcceptPending
  <2>3. nready' = Cardinality(Pending') /\ nready' \in 0 .. OpenMax
    BY <2>1, <2>2, PendingFinite, Constants DEF Counted
  <2> QED
    BY <2>1, <2>3 DEF Counted, Serving
<1> QED
  BY <1>1, <1>2

(* The loop counts a client down when it comes to it. *)
LEMMA ScanCounted ==
    ASSUME PInv, Counted, ScanEnd \/ ScanSkip \/ ScanReady PROVE Counted'
<1>1. /\ at = "scan" /\ UNCHANGED <<clientfd, ready_set>>
      /\ i \in Nat /\ maxi \in Int /\ nready = Cardinality(Pending) /\ nready \in 0 .. OpenMax
  BY Constants DEF ScanEnd, ScanSkip, ScanReady, poolVars, PInv, Types, Counted
<1>2. FromSlot = i
  BY <1>1 DEF FromSlot, Serving
<1>3. CASE ScanEnd
  <2>1. i > maxi => Pending = {}
    <3> SUFFICES ASSUME i > maxi, NEW s \in Slots, s >= i, ReadyAt(s) PROVE FALSE
      BY <1>2 DEF Pending
    <3>1. clientfd[s] # -1
      BY DEF ReadyAt
    <3>2. s <= maxi /\ s \in Int
      BY <3>1 DEF PInv, Marks, Slots
    <3> QED
      BY <1>1, <3>2
  <2>2. nready = 0
    <3>1. i > maxi \/ nready <= 0
      BY <1>1, <1>3 DEF ScanEnd, Scanning
    <3> QED
      BY <1>1, <2>1, <3>1, FS_EmptySet, Constants
  <2>3. at' = "select" /\ nready' = nready
    BY <1>3 DEF ScanEnd, poolVars
  <2> QED
    BY <1>1, <2>2, <2>3 DEF Counted, Serving
<1>4. CASE ScanSkip
  <2>1. at' = "scan" /\ i' = i + 1 /\ nready' = nready /\ ~ReadyAt(i)
    BY <1>1, <1>4 DEF ScanSkip, poolVars
  <2>2. FromSlot' = i + 1
    BY <2>1 DEF FromSlot, Serving
  <2>3. \A u : ReadyAt(u)' <=> ReadyAt(u)
    BY <1>1 DEF ReadyAt
  <2>4. Pending' = Pending
    <3>1. \A u \in Slots : ReadyAt(u) => (u >= i + 1 <=> u >= i)
      BY <1>1, <2>1 DEF Slots
    <3> QED
      BY <1>2, <2>2, <2>3, <3>1 DEF Pending
  <2> QED
    BY <1>1, <2>1, <2>4 DEF Counted, Serving
<1>5. CASE ScanReady
  <2>1. at' = "line" /\ i' = i /\ nready' = nready - 1 /\ nready > 0 /\ ReadyAt(i) /\ i <= maxi
    BY <1>5 DEF ScanReady, Scanning
  <2>2. FromSlot' = i + 1
    BY <2>1 DEF FromSlot, Serving
  <2>3. \A u : ReadyAt(u)' <=> ReadyAt(u)
    BY <1>1 DEF ReadyAt
  <2>4. i \in Slots
    BY <1>1, <2>1, Constants DEF Slots, PInv, Types
  <2>5. Pending' = Pending \ {i} /\ i \in Pending
    <3>1. \A u \in Slots : u >= i + 1 <=> (u >= i /\ u # i)
      BY <1>1 DEF Slots
    <3>2. \A u : u \in Pending' <=> u \in Slots /\ u >= i + 1 /\ ReadyAt(u)
      BY <2>2, <2>3 DEF Pending
    <3>3. \A u : u \in Pending <=> u \in Slots /\ u >= i /\ ReadyAt(u)
      BY <1>2 DEF Pending
    <3>4. i \in Pending
      BY <1>1, <2>1, <2>4, <3>3
    <3>5. \A u : u \in Pending' <=> u \in Pending /\ u # i
      BY <3>1, <3>2, <3>3
    <3> HIDE DEF Pending
    <3> QED
      BY <3>4, <3>5
  <2>6. Cardinality(Pending') = Cardinality(Pending) - 1
    BY <2>5, PendingFinite, FS_RemoveElement
  <2>7. nready' = Cardinality(Pending') /\ nready' \in 0 .. OpenMax
    BY <1>1, <2>1, <2>6, Constants
  <2> QED
    BY <2>1, <2>7 DEF Counted, Serving
<1> QED
  BY <1>3, <1>4, <1>5

(* Serving a client leaves those after it as they are. *)
LEMMA ServePending ==
    ASSUME PInv, ReadLine \/ Echo \/ Close
    PROVE  /\ Pending' = Pending /\ nready' = nready
           /\ at \in Serving /\ at' \in {"scan"} \cup Serving
<1>1. at \in Serving /\ nready' = nready /\ ready_set' = ready_set
  BY DEF ReadLine, Refill, EndOfFile, CopyBytes, Echo, Close, poolVars, Serving
<1>2. /\ i \in Slots /\ i \in Nat
      /\ FromSlot = i + 1
  BY <1>1, Served DEF FromSlot
<1>3. at' \in {"scan"} \cup Serving /\ FromSlot' = i + 1
  <2>1. CASE ReadLine
    <3>1. i' = i /\ at' \in Serving
      BY <2>1 DEF ReadLine, Refill, EndOfFile, CopyBytes, localVars, Serving
    <3> QED
      BY <3>1 DEF FromSlot
  <2>2. CASE Echo \/ Close
    <3>1. i' = i + 1 /\ at' = "scan"
      BY <2>2 DEF Echo, Close
    <3> QED
      BY <3>1 DEF FromSlot, Serving
  <2> QED
    BY <2>1, <2>2
<1>4. \A u \in Slots \ {i} : clientfd'[u] = clientfd[u]
  <2>1. CASE Close
    BY <1>2, <2>1 DEF Close, PInv, Types
  <2>2. CASE ReadLine \/ Echo
    BY <2>2 DEF ReadLine, Refill, EndOfFile, CopyBytes, Echo, poolVars
  <2> QED
    BY <2>1, <2>2
<1>5. \A u \in Slots \ {i} : ReadyAt(u)' <=> ReadyAt(u)
  BY <1>1, <1>4 DEF ReadyAt
<1>6. Pending' = Pending
  <2>1. \A u \in Slots : u >= i + 1 => u # i
    BY <1>2 DEF Slots
  <2> QED
    BY <1>2, <1>3, <1>5, <2>1 DEF Pending
<1> QED
  BY <1>1, <1>3, <1>6

(* Serving a client leaves the count as it is. *)
LEMMA ServeCounted ==
    ASSUME PInv, Counted, ReadLine \/ Echo \/ Close PROVE Counted'
BY ServePending DEF Counted, Serving

(* Every step keeps the count. *)
LEMMA StepCounted == ASSUME PInv, Counted, [Next]_vars PROVE Counted'
<1>1. CASE (\E c \in Conns : Client(c)) \/ IOError \/ UNCHANGED vars
  <2>1. UNCHANGED <<clientfd, read_set, ready_set, nready, at, i>>
    BY <1>1 DEF Client, Connect, Send, Finish, IOError, vars, poolVars, localVars
  <2> QED
    BY <2>1, CountedStill
<1>2. CASE Server
  BY <1>2, SelectCounted, AcceptCounted, ScanCounted, ServeCounted DEF Server, CheckClients
<1> QED
  BY <1>1, <1>2 DEF Next

(* Nothing is counted at first. *)
LEMMA InitCounted == Init => Counted
BY Constants DEF Init, Counted, Serving

-----------------------------------------------------------------------------
(* What select found ready stays so until it is served *)

Input(fd) == \E c \in peer[fd] : taken[c] < sent[c] \/ eof[c]
Awake     == /\ at # "select" => \A s \in Pending : Input(FdOf(s))
             /\ at = "line" /\ line.n = 0 /\ rio.cnt = 0 => Input(rio.fd)

(* A ready slot has a descriptor that is not the listening one. *)
LEMMA PendingUsed ==
    ASSUME PInv, NEW s \in Pending
    PROVE  /\ s \in Slots /\ clientfd[s] = FdOf(s) /\ FdOf(s) \in Fds /\ FdOf(s) # ListenFd
           /\ peer[FdOf(s)] # {}
<1>1. s \in Slots \ FreeSlots
  BY Constants DEF Pending, ReadyAt, FreeSlots, PInv, SlotsFds, FdOf, Slots
<1> QED
  BY <1>1, Used, Constants DEF Fds

(* What a descriptor has to read depends on these variables only. *)
LEMMA InputStill ==
    ASSUME UNCHANGED <<peer, taken, sent, eof>>, NEW fd
    PROVE  Input(fd)' <=> Input(fd)
BY DEF Input

(* A client only adds to what there is to read. *)
LEMMA ClientAwake == ASSUME PInv, Awake, NEW c \in Conns, Client(c) PROVE Awake'
<1>1. UNCHANGED <<clientfd, ready_set, at, i, rio, line, peer, taken>>
  BY DEF Client, Connect, Send, Finish, poolVars, localVars
<1>2. Pending' = Pending
  BY <1>1 DEF Pending, FromSlot, ReadyAt
<1>3. \A d \in Conns : /\ taken[d] < sent[d] => taken[d] < sent'[d]
                       /\ eof[d] => eof'[d]
  <2>1. CASE Connect(c)
    BY <2>1 DEF Connect, clientVars
  <2>2. CASE Send(c)
    <3>1. sent' = [sent EXCEPT ![c] = sent[c] + 1] /\ eof' = eof
      BY <2>2, Zenon DEF Send
    <3>2. sent \in [Conns -> Nat] /\ taken \in [Conns -> Nat]
      BY DEF PInv, Types
    <3> QED
      BY <3>1, <3>2
  <2>3. CASE Finish(c)
    BY <2>3 DEF Finish, PInv, Types
  <2> QED
    BY <2>1, <2>2, <2>3 DEF Client
<1>4. \A fd \in Fds : Input(fd) => Input(fd)'
  BY <1>1, <1>3 DEF Input, PInv, Types
<1>5. rio.fd \in Fds
  BY DEF PInv, Types
<1>6. \A s \in Pending : FdOf(s) \in Fds
  BY PendingUsed
<1> QED
  BY <1>1, <1>2, <1>4, <1>5, <1>6 DEF Awake, FdOf

(* select reports no descriptor without input. *)
LEMMA SelectAwake == ASSUME PInv, Select PROVE Awake'
<1>1. /\ ready_set' = {fd \in read_set : fd <= maxfd /\ Readable(fd)}
      /\ at' \in {"accept", "scan"}
      /\ UNCHANGED <<clientfd, peer, taken, sent, eof>>
  BY DEF Select, clientVars
<1>2. ASSUME NEW s \in Pending' PROVE Input(FdOf(s))
  <2>1. s \in Slots /\ clientfd[s] > 0 /\ Readable(clientfd[s])
    BY <1>1 DEF Pending, ReadyAt
  <2>2. clientfd[s] = FdOf(s) /\ FdOf(s) # ListenFd
    BY <2>1, Constants DEF PInv, SlotsFds, FdOf, Slots
  <2> QED
    BY <2>1, <2>2 DEF Readable, Input
<1>3. \A s \in Pending' : Input(FdOf(s))'
  BY <1>1, <1>2 DEF Input, FdOf
<1> QED
  BY <1>1, <1>3 DEF Awake, FdOf

(* A new client takes no input from those that are ready. *)
LEMMA AcceptAwake == ASSUME PInv, Counted, Awake, Accept PROVE Awake'
<1>1. CASE FreeFds = {} \/ FreeSlots = {}
  BY <1>1 DEF Accept, poolVars, localVars, clientVars, Awake, Pending, FromSlot, ReadyAt,
              Input, FdOf
<1>2. CASE ~(FreeFds = {} \/ FreeSlots = {})
  <2> DEFINE f == Min(FreeFds)
  <2>1. Pending' = Pending /\ f \in Fds /\ peer[f] = {}
    BY <1>2, AcceptPending, Lowest
  <2>2. /\ peer' = [peer EXCEPT ![f] = {Head(backlog)}] /\ at = "accept" /\ at' = "scan"
        /\ UNCHANGED <<taken, sent, eof>>
    BY <1>2 DEF Accept, clientVars
  <2> HIDE DEF f
  <2>3. \A g \in Fds \ {f} : peer'[g] = peer[g]
    BY <2>1, <2>2 DEF PInv, Types
  <2>4. ASSUME NEW s \in Pending PROVE Input(FdOf(s))'
    <3>1. FdOf(s) \in Fds \ {f}
      BY <2>1, PendingUsed
    <3>2. Input(FdOf(s))
      BY <2>2 DEF Awake
    <3> QED
      BY <2>2, <2>3, <3>1, <3>2 DEF Input, FdOf
  <2> QED
    BY <2>1, <2>2, <2>4 DEF Awake, FdOf
<1> QED
  BY <1>1, <1>2

(* The client the loop comes to has input. *)
LEMMA ScanAwake ==
    ASSUME PInv, Awake, ScanEnd \/ ScanSkip \/ ScanReady PROVE Awake'
<1>1. /\ at = "scan" /\ UNCHANGED <<clientfd, ready_set, peer, taken, sent, eof>>
      /\ i \in Nat
  BY Constants DEF ScanEnd, ScanSkip, ScanReady, poolVars, clientVars, PInv, Types
<1>2. FromSlot = i /\ FromSlot' \in {i, i + 1}
  BY <1>1 DEF FromSlot, Serving, ScanEnd, ScanSkip, ScanReady, localVars
<1>3. \A u : ReadyAt(u)' <=> ReadyAt(u)
  BY <1>1 DEF ReadyAt
<1>4. Pending' \subseteq Pending
  BY <1>1, <1>2, <1>3 DEF Pending, Slots
<1>5. \A s \in Pending : Input(FdOf(s))'
  BY <1>1 DEF Awake, Input, FdOf
<1>6. at' = "line" => rio'.fd = FdOf(i) /\ i \in Pending
  <2> SUFFICES ASSUME at' = "line" PROVE rio'.fd = FdOf(i) /\ i \in Pending
    OBVIOUS
  <2>1. ScanReady
    BY DEF ScanEnd, ScanSkip, ScanReady
  <2>2. i \in Slots /\ ReadyAt(i) /\ rio' = clientrio[i]
    BY <1>1, <2>1, Constants DEF ScanReady, Scanning, Slots, PInv, Types
  <2>3. i \in Pending
    BY <1>1, <1>2, <2>2 DEF Pending
  <2>4. clientfd[i] = FdOf(i) /\ clientfd[i] # -1
    BY <2>2, <2>3, PendingUsed DEF ReadyAt
  <2>5. clientrio[i] = EmptyRio(FdOf(i))
    BY <2>2, <2>4 DEF PInv, Marks
  <2> QED
    BY <2>2, <2>3, <2>5 DEF EmptyRio
<1>7. at' = "line" => Input(rio.fd)'
  BY <1>5, <1>6 DEF Input
<1> QED
  BY <1>4, <1>5, <1>7 DEF Awake, FdOf

(* Only the client being served is read from or closed. *)
LEMMA ServeAwake ==
    ASSUME PInv, Peers, Awake, ReadLine \/ Echo \/ Close PROVE Awake'
<1>1. Pending' = Pending /\ at \in Serving /\ at # "select"
  BY ServePending DEF Serving
<1>2. /\ i \in Slots /\ i \in Nat /\ rio.fd = FdOf(i) /\ FromSlot = i + 1
      /\ rio.fd \in Fds /\ clientfd[i] = rio.fd
  BY <1>1, Served DEF FromSlot
<1>3. sent' = sent /\ eof' = eof
  BY DEF ReadLine, Refill, EndOfFile, CopyBytes, Echo, Close, clientVars
<1>4. \A g \in Fds \ {rio.fd} : peer'[g] = peer[g]
  <2>1. CASE Close
    BY <1>2, <2>1 DEF Close, PInv, Types
  <2>2. CASE ReadLine \/ Echo
    BY <2>2 DEF ReadLine, Refill, EndOfFile, CopyBytes, Echo
  <2> QED
    BY <2>1, <2>2
<1>5. \A g \in Fds \ {rio.fd} : \A c \in peer[g] : taken'[c] = taken[c]
  <2>1. CASE Refill
    <3>1. PICK d \in peer[rio.fd] : \E k : taken' = [taken EXCEPT ![d] = k]
      BY <2>1 DEF Refill
    <3>2. \A g \in Fds \ {rio.fd} : d \notin peer[g]
      BY <1>2, <3>1 DEF Peers, Apart
    <3> QED
      BY <1>2, <3>1, <3>2 DEF PInv, Types
  <2>2. CASE EndOfFile \/ CopyBytes \/ Echo \/ Close
    BY <2>2 DEF EndOfFile, CopyBytes, Echo, Close
  <2> QED
    BY <2>1, <2>2 DEF ReadLine
<1>6. ASSUME NEW s \in Pending PROVE Input(FdOf(s))'
  <2>1. s \in Slots /\ s >= i + 1 /\ FdOf(s) \in Fds
    BY <1>2, PendingUsed DEF Pending
  <2>2. FdOf(s) # rio.fd
    BY <1>2, <2>1, Constants DEF FdOf, Slots
  <2>3. Input(FdOf(s))
    BY <1>1 DEF Awake
  <2> QED
    BY <1>3, <1>4, <1>5, <2>1, <2>2, <2>3 DEF Input, FdOf
<1>7. ~(at' = "line" /\ line'.n = 0 /\ rio'.cnt = 0)
  <2>1. CASE Refill
    <3>1. rio \in [fd : Fds, from : SUBSET Conns, cnt : 0 .. RIO_BUFSIZE, ptr : Nat]
      BY DEF PInv, Types
    <3>2. PICK c \in peer[rio.fd], k \in {Min({sent[d] - taken[d], RIO_BUFSIZE}) : d \in Conns} :
             k > 0 /\ rio' = [rio EXCEPT !.from = {c}, !.cnt = k, !.ptr = taken[c] + 1]
      BY <1>2, <2>1 DEF Refill, PInv, Types
    <3>3. rio'.cnt = k
      BY <3>1, <3>2
    <3> QED
      BY <3>2, <3>3
  <2>2. CASE EndOfFile
    BY <2>2 DEF EndOfFile
  <2>3. CASE CopyBytes
    <3>1. PICK c \in rio.from : line' = [from  |-> rio.from,
                       first |-> IF line.n = 0 THEN rio.ptr ELSE line.first,
                       n     |-> line.n + Count(c)] /\ at = "line" /\ rio.cnt > 0
      BY <2>3 DEF CopyBytes, Count, Room, Ends
    <3>2. Count(c) \in 1 .. rio.cnt /\ line.n \in Nat /\ rio.cnt \in Nat
      BY <3>1, CopyCount, Constants DEF PInv, Types
    <3> QED
      BY <3>1, <3>2
  <2>4. CASE Echo \/ Close
    BY <2>4 DEF Echo, Close
  <2> QED
    BY <2>1, <2>2, <2>3, <2>4 DEF ReadLine
<1> QED
  BY <1>1, <1>6, <1>7 DEF Awake, FdOf

(* Every step leaves their input to the ready clients. *)
LEMMA StepAwake == ASSUME PInv, Peers, Counted, Awake, [Next]_vars PROVE Awake'
<1>1. CASE IOError \/ UNCHANGED vars
  BY <1>1 DEF IOError, vars, poolVars, localVars, clientVars, Awake, Pending, FromSlot,
              ReadyAt, Input, FdOf
<1>2. CASE Server
  BY <1>2, SelectAwake, AcceptAwake, ScanAwake, ServeAwake DEF Server, CheckClients
<1>3. CASE \E c \in Conns : Client(c)
  BY <1>3, ClientAwake
<1> QED
  BY <1>1, <1>2, <1>3 DEF Next

(* No client is ready at first. *)
LEMMA InitAwake == Init => Awake
BY DEF Init, Awake

-----------------------------------------------------------------------------
(* Whose bytes are read and echoed *)

(* All that was echoed to c comes before position p. *)
Before(c, p) == \A k \in DOMAIN echoed[c] : echoed[c][k].last < p

(* While a client is served, the reader holds bytes of its own, up to the last *)
(* one read() returned; the line is the bytes just before them; and both come  *)
(* after all that was echoed to it.                                            *)
Own == at \in {"line", "echo"} => \A c \in peer[rio.fd] :
    /\ rio.cnt > 0 \/ line.n > 0 => /\ rio.from = {c} /\ rio.ptr + rio.cnt = taken[c] + 1
    /\ rio.cnt > 0 /\ line.n = 0 => Before(c, rio.ptr)
    /\ line.n > 0 => /\ line.from = {c} /\ line.first + line.n = rio.ptr
                     /\ Before(c, line.first)

(* The types of what was echoed to one client. *)
LEMMA ChunkTypes ==
    ASSUME Types, NEW c \in Conns
    PROVE  /\ echoed[c] \in Seq(Chunks) /\ taken[c] \in Nat
           /\ \A m \in DOMAIN echoed[c] : echoed[c][m].first \in Nat /\ echoed[c][m].last \in Nat
<1>1. echoed[c] \in Seq(Chunks) /\ taken[c] \in Nat
  BY DEF Types
<1>2. \A m \in DOMAIN echoed[c] : echoed[c][m] \in Chunks
  BY <1>1
<1> QED
  BY <1>1, <1>2 DEF Chunks

(* Whose bytes are where depends on these variables only. *)
LEMMA OwnStill ==
    ASSUME UNCHANGED <<at, rio, line, peer, taken, echoed>>
    PROVE  Own' = Own /\ EchoesOwn' = EchoesOwn
BY DEF Own, Before, EchoesOwn

(* Steps outside the reading of a line: a client is read with an empty buffer. *)
LEMMA PoolOwn ==
    ASSUME Own, EchoesOwn, Select \/ Accept \/ ScanEnd \/ ScanSkip \/ ScanReady \/ Close, PInv
    PROVE  Own' /\ EchoesOwn'
<1>1. UNCHANGED <<taken, echoed>>
  BY DEF Select, Accept, ScanEnd, ScanSkip, ScanReady, Close
<1>2. EchoesOwn'
  BY <1>1 DEF EchoesOwn
<1>3. Own'
  <2>1. CASE ScanReady
    <3>1. i \in Slots /\ rio' = clientrio[i] /\ line' = EmptyLine
      BY <2>1, Constants DEF ScanReady, Scanning, Slots, PInv, Types
    <3>2. rio'.cnt = 0 /\ line'.n = 0
      BY <3>1, Constants DEF PInv, Types, EmptyRio, EmptyLine
    <3> QED
      BY <3>2 DEF Own
  <2>2. CASE Select \/ Accept \/ ScanEnd \/ ScanSkip \/ Close
    <3>1. at' \notin {"line", "echo"}
      BY <2>2 DEF Select, Accept, ScanEnd, ScanSkip, Close
    <3> QED
      BY <3>1 DEF Own
  <2> QED
    BY <2>1, <2>2
<1> QED
  BY <1>2, <1>3

(* The client being served is the only peer of the reader's descriptor. *)
LEMMA OnePeer ==
    ASSUME PInv, Peers, at \in Serving, NEW c \in peer[rio.fd]
    PROVE  c \in Conns /\ peer[rio.fd] = {c}
<1>1. rio.fd \in Fds
  BY DEF PInv, Types
<1> QED
  BY <1>1 DEF PInv, Types, Peers, Single

(* read() returns the bytes after those it returned before. *)
LEMMA RefillOwn ==
    ASSUME PInv, Peers, Own, EchoesOwn, Refill PROVE Own' /\ EchoesOwn'
<1>1. PICK c \in peer[rio.fd] :
         /\ Min({sent[c] - taken[c], RIO_BUFSIZE}) > 0
         /\ rio' = [rio EXCEPT !.from = {c}, !.cnt = Min({sent[c] - taken[c], RIO_BUFSIZE}),
                               !.ptr = taken[c] + 1]
         /\ taken' = [taken EXCEPT ![c] = taken[c] + Min({sent[c] - taken[c], RIO_BUFSIZE})]
         /\ at = "line" /\ at' = at /\ line' = line /\ peer' = peer /\ echoed' = echoed
         /\ rio.cnt = 0
  BY DEF Refill
<1>2. c \in Conns /\ peer[rio.fd] = {c} /\ rio.fd \in Fds
  BY <1>1, OnePeer DEF Serving, PInv, Types
<1> DEFINE k == Min({sent[c] - taken[c], RIO_BUFSIZE})
<1>3. k \in Nat /\ k > 0 /\ k <= RIO_BUFSIZE /\ taken[c] \in Nat
  <2>1. sent[c] \in Nat /\ taken[c] \in Nat
    BY <1>2 DEF PInv, Types
  <2> QED
    BY <1>1, <2>1, MinOfTwo, Constants
<1>4. /\ rio' = [rio EXCEPT !.from = {c}, !.cnt = k, !.ptr = taken[c] + 1]
      /\ taken' = [taken EXCEPT ![c] = taken[c] + k]
  BY <1>1
<1> HIDE DEF k
<1>5. rio'.fd = rio.fd /\ rio'.from = {c} /\ rio'.cnt = k /\ rio'.ptr = taken[c] + 1
  <2>1. k \in 0 .. RIO_BUFSIZE /\ taken[c] + 1 \in Nat /\ {c} \in SUBSET Conns
    BY <1>2, <1>3, Constants
  <2>2. rio \in [fd : Fds, from : SUBSET Conns, cnt : 0 .. RIO_BUFSIZE, ptr : Nat]
    BY DEF PInv, Types
  <2> QED
    BY <1>4, <2>1, <2>2, RioSet
<1>6. taken'[c] = taken[c] + k /\ \A d \in Conns : taken[d] <= taken'[d] /\ taken'[d] \in Int
  BY <1>2, <1>3, <1>4 DEF PInv, Types
<1>7. EchoesOwn'
  <2> SUFFICES ASSUME NEW d \in Conns, NEW m \in DOMAIN echoed[d]
               PROVE  /\ echoed[d][m].from = {d}
                      /\ echoed[d][m].first <= echoed[d][m].last
                      /\ echoed[d][m].last <= taken'[d]
                      /\ m > 1 => echoed[d][m].first > echoed[d][m - 1].last
    BY <1>1 DEF EchoesOwn
  <2>1. echoed[d][m].last \in Nat /\ taken[d] \in Nat
    BY ChunkTypes DEF PInv
  <2>2. echoed[d][m].last <= taken[d] /\ taken[d] <= taken'[d] /\ taken'[d] \in Int
    BY <1>6 DEF EchoesOwn
  <2>3. echoed[d][m].last <= taken'[d]
    BY <2>1, <2>2
  <2> QED
    BY <2>3 DEF EchoesOwn
<1>8. line.n > 0 => /\ line.from = {c} /\ line.first + line.n = taken[c] + 1
                    /\ Before(c, line.first)
  <2> SUFFICES ASSUME line.n > 0
               PROVE  /\ line.from = {c} /\ line.first + line.n = taken[c] + 1
                      /\ Before(c, line.first)
    OBVIOUS
  <2>1. /\ rio.ptr + rio.cnt = taken[c] + 1 /\ line.from = {c}
        /\ line.first + line.n = rio.ptr /\ Before(c, line.first)
    BY <1>1, <1>2 DEF Own
  <2>2. rio.ptr \in Nat
    BY DEF PInv, Types
  <2> QED
    BY <1>1, <2>1, <2>2
<1>9. Before(c, taken[c] + 1)
  <2> SUFFICES ASSUME NEW m \in DOMAIN echoed[c] PROVE echoed[c][m].last < taken[c] + 1
    BY DEF Before
  <2>1. echoed[c][m].last \in Nat
    BY <1>2, ChunkTypes DEF PInv
  <2>2. echoed[c][m].last <= taken[c]
    BY <1>2 DEF EchoesOwn
  <2> QED
    BY <1>3, <2>1, <2>2
<1>10. Own'
  <2>1. rio'.ptr + rio'.cnt = taken'[c] + 1
    BY <1>3, <1>5, <1>6
  <2>2. line.n > 0 => line.first + line.n = rio'.ptr
    BY <1>5, <1>8
  <2>3. \A m \in DOMAIN echoed'[c] : echoed'[c][m].last < rio'.ptr
    BY <1>1, <1>5, <1>9 DEF Before
  <2>4. line.n > 0 => /\ line.from = {c}
                      /\ \A m \in DOMAIN echoed'[c] : echoed'[c][m].last < line.first
    BY <1>1, <1>8 DEF Before
  <2>5. peer'[rio'.fd] = {c}
    BY <1>1, <1>2, <1>5
  <2> QED
    BY <1>1, <1>5, <2>1, <2>2, <2>3, <2>4, <2>5 DEF Own, Before
<1> QED
  BY <1>7, <1>10

(* An end of file leaves the reader and the line alone. *)
LEMMA EndOfFileOwn ==
    ASSUME Own, EchoesOwn, EndOfFile PROVE Own' /\ EchoesOwn'
<1>1. at = "line" /\ UNCHANGED <<rio, line, peer, taken, echoed>>
  BY DEF EndOfFile, localVars
<1>2. EchoesOwn'
  BY <1>1 DEF EchoesOwn
<1>3. Own'
  BY <1>1 DEF Own, Before
<1> QED
  BY <1>2, <1>3

(* The bytes copied are the next of the buffer and go to the end of the line. *)
LEMMA CopyOwn ==
    ASSUME PInv, Peers, Own, EchoesOwn, CopyBytes PROVE Own' /\ EchoesOwn'
<1>1. at = "line" /\ rio.cnt > 0 /\ UNCHANGED <<peer, taken, echoed>>
  BY DEF CopyBytes
<1>2. PICK b \in rio.from :
         /\ rio' = [rio EXCEPT !.cnt = rio.cnt - Count(b), !.ptr = rio.ptr + Count(b)]
         /\ line' = [from  |-> rio.from,
                     first |-> IF line.n = 0 THEN rio.ptr ELSE line.first,
                     n     |-> line.n + Count(b)]
  BY DEF CopyBytes, Count, Room, Ends
<1>3. Count(b) \in 1 .. rio.cnt
  BY <1>1, CopyCount
<1>4. /\ rio \in [fd : Fds, from : SUBSET Conns, cnt : 0 .. RIO_BUFSIZE, ptr : Nat]
      /\ rio.cnt \in 0 .. RIO_BUFSIZE /\ rio.ptr \in Nat /\ line.first \in Nat
      /\ line.n \in Nat /\ rio.from \subseteq Conns /\ taken \in [Conns -> Nat]
  BY Constants DEF PInv, Types
<1>5. /\ rio'.fd = rio.fd /\ rio'.from = rio.from
      /\ rio'.cnt = rio.cnt - Count(b) /\ rio'.ptr = rio.ptr + Count(b)
  <2>1. rio.cnt - Count(b) \in 0 .. RIO_BUFSIZE /\ rio.ptr + Count(b) \in Nat
    BY <1>3, <1>4, Constants
  <2>2. rio' = [rio EXCEPT !.from = rio.from, !.cnt = rio.cnt - Count(b),
                           !.ptr = rio.ptr + Count(b)]
    BY <1>2, <1>4
  <2> QED
    BY <1>4, <2>1, <2>2, RioSet
<1>6. /\ line'.from = rio.from /\ line'.n = line.n + Count(b) /\ line'.n > 0
      /\ line'.first = IF line.n = 0 THEN rio.ptr ELSE line.first
  BY <1>2, <1>3, <1>4
<1>7. EchoesOwn'
  BY <1>1 DEF EchoesOwn
<1>8. ASSUME NEW c \in peer[rio.fd]
      PROVE  /\ rio'.from = {c} /\ rio'.ptr + rio'.cnt = taken[c] + 1
             /\ line'.from = {c} /\ line'.first + line'.n = rio'.ptr
             /\ Before(c, line'.first)
  <2>1. rio.from = {c} /\ rio.ptr + rio.cnt = taken[c] + 1
    BY <1>1 DEF Own
  <2>2. CASE line.n = 0
    <3>1. Before(c, rio.ptr)
      BY <1>1, <2>2 DEF Own
    <3> QED
      BY <1>3, <1>4, <1>5, <1>6, <2>1, <2>2, <3>1
  <2>3. CASE line.n > 0
    <3>1. line.first + line.n = rio.ptr /\ Before(c, line.first)
      BY <1>1, <2>3 DEF Own
    <3> QED
      BY <1>3, <1>4, <1>5, <1>6, <2>1, <2>3, <3>1
  <2> QED
    BY <1>4, <2>2, <2>3
<1>9. Own'
  <2>1. /\ peer'[rio'.fd] = peer[rio.fd]
        /\ \A c : taken'[c] = taken[c] /\ echoed'[c] = echoed[c]
    BY <1>1, <1>5
  <2>2. line'.n > 0 /\ line'.n # 0 /\ (rio'.cnt > 0 /\ line'.n = 0 => FALSE)
    BY <1>3, <1>4, <1>6
  <2> QED
    BY <1>8, <2>1, <2>2 DEF Own, Before
<1> QED
  BY <1>7, <1>9

(* What is echoed is the line, to the client whose bytes it holds. *)
LEMMA EchoOwn ==
    ASSUME PInv, Peers, Own, EchoesOwn, Echo PROVE Own' /\ EchoesOwn'
<1> DEFINE chunk == [from  |-> line.from, first |-> line.first,
                     last  |-> line.first + line.n - 1]
<1>1. at = "echo" /\ at' = "scan" /\ taken' = taken
  BY DEF Echo
<1>2. clientfd[i] = rio.fd /\ rio.fd \in Fds
  BY <1>1, Served DEF Serving
<1>3. PICK c \in peer[rio.fd] : echoed' = [echoed EXCEPT ![c] = Append(echoed[c], chunk)]
  BY <1>2 DEF Echo
<1>4. c \in Conns
  BY <1>2 DEF PInv, Types
<1>5. /\ line.n > 0 /\ line.n \in Nat /\ line.first \in Nat /\ rio.ptr \in Nat /\ rio.cnt \in Nat
      /\ taken[c] \in Nat
  BY <1>1, <1>4, Constants DEF PInv, Current, Types
<1>6. /\ rio.ptr + rio.cnt = taken[c] + 1 /\ line.from = {c}
      /\ line.first + line.n = rio.ptr /\ Before(c, line.first)
  BY <1>1, <1>3, <1>5 DEF Own
<1>7. /\ chunk.from = {c} /\ chunk.first = line.first /\ chunk.last = line.first + line.n - 1
      /\ chunk.first <= chunk.last /\ chunk.last <= taken[c]
  BY <1>5, <1>6
<1>8. \A d \in Conns \ {c} : echoed'[d] = echoed[d]
  BY <1>3, <1>4 DEF PInv, Types
<1>9. chunk \in Chunks
  BY <1>5, <1>7 DEF Chunks, PInv, Types
<1> HIDE DEF chunk
<1>10. /\ Len(echoed[c]) \in Nat
       /\ DOMAIN echoed[c] = 1 .. Len(echoed[c])
       /\ DOMAIN echoed'[c] = 1 .. Len(echoed[c]) + 1
       /\ echoed'[c][Len(echoed[c]) + 1] = chunk
       /\ \A k \in 1 .. Len(echoed[c]) : echoed'[c][k] = echoed[c][k]
  <2>1. echoed[c] \in Seq(Chunks)
    BY <1>4, ChunkTypes DEF PInv
  <2>2. echoed'[c] = Append(echoed[c], chunk)
    BY <1>3, <1>4 DEF PInv, Types
  <2> QED
    BY <1>9, <2>1, <2>2
<1>11. ASSUME NEW k \in DOMAIN echoed'[c]
       PROVE  /\ echoed'[c][k].from = {c}
              /\ echoed'[c][k].first <= echoed'[c][k].last /\ echoed'[c][k].last <= taken[c]
              /\ k > 1 => echoed'[c][k].first > echoed'[c][k - 1].last
  <2>1. CASE k = Len(echoed[c]) + 1
    <3>1. ASSUME k > 1 PROVE chunk.first > echoed[c][k - 1].last
      <4>1. k - 1 \in DOMAIN echoed[c]
        BY <1>10, <2>1, <3>1
      <4>2. echoed[c][k - 1].last < line.first /\ echoed[c][k - 1].last \in Nat
        BY <1>4, <1>6, <4>1, ChunkTypes DEF Before, PInv
      <4> QED
        BY <1>5, <1>7, <4>2
    <3>2. k > 1 => k - 1 \in 1 .. Len(echoed[c])
      BY <1>10, <2>1
    <3> QED
      BY <1>7, <1>10, <2>1, <3>1, <3>2
  <2>2. CASE k # Len(echoed[c]) + 1
    <3>1. k \in 1 .. Len(echoed[c]) /\ (k > 1 => k - 1 \in 1 .. Len(echoed[c]))
      BY <1>10, <2>2
    <3> QED
      BY <1>4, <1>10, <3>1 DEF EchoesOwn
  <2> QED
    BY <2>1, <2>2
<1>12. EchoesOwn'
  BY <1>1, <1>8, <1>11 DEF EchoesOwn
<1> QED
  BY <1>1, <1>12 DEF Own

(* Every step leaves each client its own bytes. *)
LEMMA StepOwn ==
    ASSUME PInv, Peers, Own, EchoesOwn, [Next]_vars PROVE Own' /\ EchoesOwn'
<1>1. CASE (\E c \in Conns : Client(c)) \/ IOError \/ UNCHANGED vars
  <2>1. UNCHANGED <<at, rio, line, peer, taken, echoed>>
    BY <1>1 DEF Client, Connect, Send, Finish, IOError, vars, localVars
  <2> QED
    BY <2>1, OwnStill
<1>2. CASE Server
  BY <1>2, PoolOwn, RefillOwn, EndOfFileOwn, CopyOwn, EchoOwn
     DEF Server, CheckClients, ReadLine
<1> QED
  BY <1>1, <1>2 DEF Next

(* Nothing was echoed at first. *)
LEMMA InitOwn == Init => Own /\ EchoesOwn
<1> SUFFICES ASSUME Init PROVE Own /\ EchoesOwn
  OBVIOUS
<1>1. \A c \in Conns : DOMAIN echoed[c] = {}
  BY DEF Init
<1> QED
  BY <1>1 DEF Init, Own, EchoesOwn

-----------------------------------------------------------------------------
(* THE THEOREMS *)

EInv == PInv /\ Peers /\ Counted /\ Awake /\ Own /\ EchoesOwn

(* The invariant from which the others follow: the pool agrees with the      *)
(* kernel, nready counts the clients still to be served, all of which have    *)
(* something to read, and the line being read is the next bytes of one client. *)
THEOREM EventInvariance == Spec => []EInv
<1>1. Init => EInv
  BY InitPInv, InitPeers, InitCounted, InitAwake, InitOwn DEF EInv
<1>2. EInv /\ [Next]_vars => EInv'
  <2> SUFFICES ASSUME EInv, [Next]_vars PROVE EInv'
    OBVIOUS
  <2>1. PInv' /\ Peers'
    BY StepPInv, StepPeers DEF EInv
  <2>2. Counted' /\ Awake'
    BY StepCounted, StepAwake DEF EInv
  <2>3. Own' /\ EchoesOwn'
    BY StepOwn DEF EInv
  <2> QED
    BY <2>1, <2>2, <2>3 DEF EInv
<1> QED
  BY <1>1, <1>2, PTL DEF Spec

(* After any sequence of connections and disconnections the pool is what its  *)
(* comments say, and the slots never run out before the descriptors do.        *)
THEOREM PoolStaysConsistent == Spec => []PoolConsistent
<1>1. EInv => PoolConsistent
  <2> SUFFICES ASSUME EInv PROVE PoolConsistent
    OBVIOUS
  <2>1. Agree /\ NeverTooMany
    BY Agreed, TooMany DEF EInv
  <2>2. TypeOK
    BY DEF EInv, PInv, Types, Counted, TypeOK
  <2> QED
    BY <2>1, <2>2 DEF PoolConsistent
<1> QED
  BY <1>1, EventInvariance, PTL

(* A round of check_clients passes over no descriptor select reported. *)
THEOREM NoneLeft == Spec => []AllReadyServed
<1>1. EInv => AllReadyServed
  BY DEF EInv, Counted, AllReadyServed
<1> QED
  BY <1>1, EventInvariance, PTL

(* read_line starts only on a client that has something to read. *)
THEOREM NoWait == Spec => []NoIdleBlock
<1>1. EInv => NoIdleBlock
  <2> SUFFICES ASSUME EInv, at = "line", line.n = 0, rio.cnt = 0 PROVE Readable(rio.fd)
    BY DEF NoIdleBlock
  <2>1. rio.fd # ListenFd
    BY Served, Constants DEF EInv, Serving, Fds
  <2>2. Input(rio.fd)
    BY DEF EInv, Awake
  <2> QED
    BY <2>1, <2>2 DEF Readable, Input
<1> QED
  BY <1>1, EventInvariance, PTL

(* However slots and descriptors are reused, a client gets only its own bytes  *)
(* back, in order and each at most once.                                       *)
THEOREM OwnBytesOnly == Spec => []EchoesOwn
<1>1. EInv => EchoesOwn
  BY DEF EInv
<1> QED
  BY <1>1, EventInvariance, PTL
=============================================================================
