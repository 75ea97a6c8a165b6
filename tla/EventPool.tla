------------------------------ MODULE EventPool ------------------------------
(***************************************************************************)
(* The event-driven echo server of src/concurrent/server1223.c, with the   *)
(* buffered line reader of src/csapp.c it calls: one thread, a pool of     *)
(* connected descriptors, select.  A byte is known by its position in the  *)
(* stream its client sends; the reader's buffer and the line being read    *)
(* are intervals of positions.                                             *)
(***************************************************************************)
EXTENDS Integers, Sequences, FiniteSets, FiniteSetsExt

CONSTANTS Conns,        \* the connections clients make
          FD_SETSIZE,   \* descriptors an fd_set holds; slots of the pool
          OpenMax,      \* limit on the descriptors of the process
          ListenFd,     \* the listening descriptor: those below it are in use
          MAXLINE,      \* size of the line buffer
          RIO_BUFSIZE,  \* size of the reader's buffer
          MaxBytes      \* bound on the bytes all clients send

ASSUME FdAssumption == /\ {FD_SETSIZE, OpenMax, ListenFd} \subseteq Nat \ {0}
                       /\ ListenFd < OpenMax /\ OpenMax <= FD_SETSIZE
ASSUME SizeAssumption == /\ MAXLINE \in Nat \ {0, 1} /\ RIO_BUFSIZE \in Nat \ {0}
                         /\ MaxBytes \in Nat

Slots == 0 .. FD_SETSIZE - 1
Fds   == 0 .. OpenMax - 1

VARIABLES
    (* the pool *)
    maxfd, read_set, ready_set, nready, maxi, clientfd, clientrio,
    (* the server's control and locals *)
    at, i, rio,         \* the statement, the loop's i, the copy of clientrio[i]
    line,               \* buf: whose bytes, the first of them and how many
    (* the kernel and the clients *)
    backlog, peer,      \* connections to accept; peer[fd]: a set, the one fd is for
    sent, nls, eof,     \* bytes sent, which are newlines, client has finished
    taken,              \* bytes read() has returned
    echoed,             \* echoed[c]: the intervals written to c
    exited              \* an error wrapper called exit()

poolVars   == <<maxfd, read_set, ready_set, nready, maxi, clientfd, clientrio>>
localVars  == <<i, rio, line>>
clientVars == <<sent, nls, eof>>
vars == <<poolVars, at, localVars, backlog, peer, clientVars, taken, echoed, exited>>

EmptyLine    == [from |-> {}, first |-> 0, n |-> 0]
EmptyRio(fd) == [fd |-> fd, from |-> {}, cnt |-> 0, ptr |-> 0]

Init == /\ maxi = -1 /\ clientfd = [s \in Slots |-> -1]
        /\ maxfd = ListenFd /\ read_set = {ListenFd}
        /\ ready_set = {} /\ nready = 0
        /\ clientrio = [s \in Slots |-> EmptyRio(0)]
        /\ at = "select" /\ i = 0 /\ rio = EmptyRio(0) /\ line = EmptyLine
        /\ backlog = <<>> /\ peer = [fd \in Fds |-> {}]
        /\ sent = [c \in Conns |-> 0] /\ nls = [c \in Conns |-> {}]
        /\ eof = [c \in Conns |-> FALSE]
        /\ taken = [c \in Conns |-> 0] /\ echoed = [c \in Conns |-> <<>>]
        /\ exited = FALSE

-----------------------------------------------------------------------------
(* The clients *)
Known(c) == c \in {backlog[k] : k \in DOMAIN backlog} \cup UNION {peer[fd] : fd \in Fds}

Connect(c) ==
    /\ ~Known(c) /\ sent[c] = 0 /\ ~eof[c]
    /\ backlog' = Append(backlog, c)
    /\ UNCHANGED <<poolVars, at, localVars, peer, clientVars, taken, echoed, exited>>
Send(c) ==
    /\ Known(c) /\ ~eof[c] /\ MapThenSumSet(LAMBDA d : sent[d], Conns) < MaxBytes
    /\ sent' = [sent EXCEPT ![c] = @ + 1]
    /\ \/ nls' = [nls EXCEPT ![c] = @ \cup {sent[c] + 1}]
       \/ UNCHANGED nls
    /\ UNCHANGED <<poolVars, at, localVars, backlog, peer, eof, taken, echoed, exited>>
Finish(c) ==
    /\ Known(c) /\ ~eof[c]
    /\ eof' = [eof EXCEPT ![c] = TRUE]
    /\ UNCHANGED <<poolVars, at, localVars, backlog, peer, sent, nls, taken, echoed,
                   exited>>

-----------------------------------------------------------------------------
(* What select reports: a connection to accept, bytes to read or an end of file. *)
Readable(fd) == IF fd = ListenFd
                THEN backlog # <<>>
                ELSE \E c \in peer[fd] : taken[c] < sent[c] \/ eof[c]

(* main: select, restricted to the descriptors up to maxfd *)
Select ==
    LET ready == {fd \in read_set : fd <= maxfd /\ Readable(fd)}
    IN  /\ at = "select" /\ ready # {}
        /\ ready_set' = ready /\ nready' = Cardinality(ready)
        /\ at' = (IF ListenFd \in ready THEN "accept" ELSE "scan")
        /\ i' = 0
        /\ UNCHANGED <<maxfd, read_set, maxi, clientfd, clientrio, rio, line, backlog,
                       peer, clientVars, taken, echoed, exited>>

FreeFds   == {fd \in Fds : fd > ListenFd /\ peer[fd] = {}}
FreeSlots == {s \in Slots : clientfd[s] < 0}

(* MUTANT: nready is not counted down. *)
AddClientUncounted(fd) ==
    LET s == Min(FreeSlots)
    IN  /\ UNCHANGED nready
        /\ clientfd' = [clientfd EXCEPT ![s] = fd]
        /\ clientrio' = [clientrio EXCEPT ![s] = EmptyRio(fd)]
        /\ read_set' = read_set \cup {fd}
        /\ maxfd' = Max({maxfd, fd}) /\ maxi' = Max({maxi, s})
(* add_client *)
AddClient(fd) ==
    LET s == Min(FreeSlots)
    IN  /\ nready' = nready - 1
        /\ clientfd' = [clientfd EXCEPT ![s] = fd]
        /\ clientrio' = [clientrio EXCEPT ![s] = EmptyRio(fd)]
        /\ read_set' = read_set \cup {fd}
        /\ maxfd' = Max({maxfd, fd}) /\ maxi' = Max({maxi, s})
(* main: accept, which takes the lowest free descriptor or fails; add_client  *)
(* ends the process when it finds no slot.                                    *)
Accept ==
    /\ at = "accept"
    /\ IF FreeFds = {} \/ FreeSlots = {}
       THEN /\ exited' = TRUE
            /\ UNCHANGED <<poolVars, at, backlog, peer>>
       ELSE /\ AddClient(Min(FreeFds))
            /\ peer' = [peer EXCEPT ![Min(FreeFds)] = {Head(backlog)}]
            /\ backlog' = Tail(backlog) /\ at' = "scan"
            /\ UNCHANGED <<ready_set, exited>>
    /\ UNCHANGED <<localVars, clientVars, taken, echoed>>

-----------------------------------------------------------------------------
(* check_clients *)
(* MUTANTS: the last client is left out; any client counts as ready. *)
ScanningBelow == i < maxi /\ nready > 0
Scanning == i <= maxi /\ nready > 0
ReadyAtAny(s) == clientfd[s] > 0
ReadyAt(s) == clientfd[s] > 0 /\ clientfd[s] \in ready_set

ScanEnd ==
    /\ at = "scan" /\ ~Scanning
    /\ at' = "select"
    /\ UNCHANGED <<poolVars, localVars, backlog, peer, clientVars, taken, echoed, exited>>
ScanSkip ==
    /\ at = "scan" /\ Scanning /\ ~ReadyAt(i)
    /\ i' = i + 1
    /\ UNCHANGED <<poolVars, at, rio, line, backlog, peer, clientVars, taken, echoed,
                   exited>>
(* MUTANT: one reader serves all clients, only its descriptor is set. *)
ScanReadyShared ==
    /\ at = "scan" /\ Scanning /\ ReadyAt(i)
    /\ nready' = nready - 1
    /\ rio' = [rio EXCEPT !.fd = clientrio[i].fd] /\ line' = EmptyLine
    /\ at' = "line"
    /\ UNCHANGED <<maxfd, read_set, ready_set, maxi, clientfd, clientrio, i, backlog,
                   peer, clientVars, taken, echoed, exited>>
ScanReady ==
    /\ at = "scan" /\ Scanning /\ ReadyAt(i)
    /\ nready' = nready - 1
    /\ rio' = clientrio[i] /\ line' = EmptyLine
    /\ at' = "line"
    /\ UNCHANGED <<maxfd, read_set, ready_set, maxi, clientfd, clientrio, i, backlog,
                   peer, clientVars, taken, echoed, exited>>

(* rio_read refills its buffer: read() blocks until there are bytes or the   *)
(* end of file, at which rio_readlineb returns what it has.                  *)
Refill ==
    /\ at = "line" /\ rio.cnt = 0
    /\ \E c \in peer[rio.fd] :
         LET k == Min({sent[c] - taken[c], RIO_BUFSIZE})
         IN  /\ k > 0
             /\ rio' = [rio EXCEPT !.from = {c}, !.cnt = k, !.ptr = taken[c] + 1]
             /\ taken' = [taken EXCEPT ![c] = @ + k]
    /\ UNCHANGED <<poolVars, at, i, line, backlog, peer, clientVars, echoed, exited>>
EndOfFile ==
    /\ at = "line" /\ rio.cnt = 0
    /\ \E c \in peer[rio.fd] : eof[c] /\ taken[c] = sent[c]
    /\ at' = (IF line.n = 0 THEN "close" ELSE "echo")
    /\ UNCHANGED <<poolVars, localVars, backlog, peer, clientVars, taken, echoed, exited>>
(* rio_readlineb copies bytes up to a newline, a full line or the end of the *)
(* buffer.                                                                    *)
CopyBytes ==
    /\ at = "line" /\ rio.cnt > 0
    /\ \E c \in rio.from :
         LET room  == {rio.cnt, MAXLINE - 1 - line.n}
             ends  == {p - rio.ptr + 1 : p \in {q \in nls[c] : q >= rio.ptr}}
             k     == Min(room \cup ends)
             full  == k \in ends \/ line.n + k = MAXLINE - 1
         IN  /\ rio' = [rio EXCEPT !.cnt = @ - k, !.ptr = @ + k]
             /\ line' = [from  |-> rio.from,
                         first |-> IF line.n = 0 THEN rio.ptr ELSE line.first,
                         n     |-> line.n + k]
             /\ at' = (IF full THEN "echo" ELSE "line")
    /\ UNCHANGED <<poolVars, i, backlog, peer, clientVars, taken, echoed, exited>>

(* The line is written back; rio, a copy, is forgotten with what it still has. *)
Echo ==
    /\ at = "echo"
    /\ \E c \in peer[clientfd[i]] :
         echoed' = [echoed EXCEPT ![c] = Append(@, [from  |-> line.from,
                                                    first |-> line.first,
                                                    last  |-> line.first + line.n - 1])]
    /\ at' = "scan" /\ i' = i + 1
    /\ UNCHANGED <<poolVars, rio, line, backlog, peer, clientVars, taken, exited>>
(* MUTANT: the slot is not freed. *)
CloseKeepsSlot ==
    /\ at = "close"
    /\ peer' = [peer EXCEPT ![clientfd[i]] = {}]
    /\ read_set' = read_set \ {clientfd[i]}
    /\ at' = "scan" /\ i' = i + 1
    /\ UNCHANGED <<maxfd, ready_set, nready, maxi, clientfd, clientrio, rio, line,
                   backlog, clientVars, taken, echoed, exited>>
Close ==
    /\ at = "close"
    /\ peer' = [peer EXCEPT ![clientfd[i]] = {}]
    /\ read_set' = read_set \ {clientfd[i]}
    /\ clientfd' = [clientfd EXCEPT ![i] = -1]
    /\ at' = "scan" /\ i' = i + 1
    /\ UNCHANGED <<maxfd, ready_set, nready, maxi, clientrio, rio, line, backlog,
                   clientVars, taken, echoed, exited>>
(* The peer is gone: reading or writing fails, and the Rio wrapper exits (or *)
(* SIGPIPE kills the process).                                               *)
IOError ==
    /\ at \in {"line", "echo"} /\ \E c \in peer[rio.fd] : eof[c]
    /\ exited' = TRUE
    /\ UNCHANGED <<poolVars, at, localVars, backlog, peer, clientVars, taken, echoed>>

-----------------------------------------------------------------------------
Client(c)    == Connect(c) \/ Send(c) \/ Finish(c)
ReadLine     == Refill \/ EndOfFile \/ CopyBytes
CheckClients == ScanEnd \/ ScanSkip \/ ScanReady \/ ReadLine \/ Echo \/ Close
Server       == Select \/ Accept \/ CheckClients

Next == ~exited /\ (Server \/ IOError \/ \E c \in Conns : Client(c))

Spec == Init /\ [][Next]_vars

(* The server runs whenever it is not blocked.  Every client eventually      *)
(* finishes: read() on a line without an end would block the whole server.   *)
Fairness == /\ WF_vars(~exited /\ Server)
            /\ \A c \in Conns : WF_vars(~exited /\ Finish(c))
FairSpec == Spec /\ Fairness

-----------------------------------------------------------------------------
(* PROPERTIES *)

Chunks == [from : SUBSET Conns, first : Nat, last : Nat]
TypeOK == /\ maxfd \in Fds /\ read_set \subseteq Fds /\ ready_set \subseteq Fds
          /\ nready \in 0 .. OpenMax /\ maxi \in -1 .. FD_SETSIZE - 1
          /\ clientfd \in [Slots -> Fds \cup {-1}]
          /\ clientrio \in [Slots -> {EmptyRio(fd) : fd \in Fds}]
          /\ at \in {"select", "accept", "scan", "line", "echo", "close"}
          /\ i \in 0 .. FD_SETSIZE
          /\ rio \in [fd : Fds, from : SUBSET Conns, cnt : 0 .. RIO_BUFSIZE, ptr : Nat]
          /\ line \in [from : SUBSET Conns, first : Nat, n : 0 .. MAXLINE - 1]
          /\ backlog \in Seq(Conns) /\ peer \in [Fds -> SUBSET Conns]
          /\ sent \in [Conns -> Nat] /\ nls \in [Conns -> SUBSET Nat]
          /\ eof \in [Conns -> BOOLEAN] /\ taken \in [Conns -> Nat]
          /\ echoed \in [Conns -> Seq(Chunks)]
          /\ exited \in BOOLEAN

(* The three records of who is connected agree: "Set of all active           *)
(* descriptors" (lines 5 and 9), the slots below the high water mark, and    *)
(* the kernel's table.  select is never given a closed descriptor, at which  *)
(* it would fail and end the server.                                         *)
Agree ==
    /\ read_set = {ListenFd} \cup {clientfd[s] : s \in Slots \ FreeSlots}
    /\ read_set \ {ListenFd} = {fd \in Fds : peer[fd] # {}}
    /\ \A s, u \in Slots \ FreeSlots : clientfd[s] = clientfd[u] => s = u
    /\ \A s \in Slots \ FreeSlots : /\ s <= maxi /\ clientfd[s] <= maxfd
                                     /\ clientrio[s].fd = clientfd[s]

(* "add_client error: Too many clients" (line 50) is never reached, after any *)
(* sequence of connections and disconnections: slots and descriptors are both *)
(* taken lowest first, so slot s always serves the s-th descriptor above      *)
(* listenfd, and the process runs out of descriptors first.                   *)
NeverTooMany ==
    /\ \A s \in Slots : clientfd[s] \in {-1, ListenFd + 1 + s}
    /\ at = "accept" /\ FreeFds # {} => FreeSlots # {}

(* After any sequence of connections and disconnections the pool is what its *)
(* comments say: well typed, in agreement with the kernel, never overrun.    *)
PoolConsistent == TypeOK /\ Agree /\ NeverTooMany

(* A round of check_clients ends when every descriptor select reported, the  *)
(* listening one included, has been handled: none waits for another round,   *)
(* although the loop stops as soon as nready is 0 and although a client was  *)
(* added meanwhile.                                                          *)
AllReadyServed == at = "select" => nready = 0

(* The server starts to read a client only when bytes or an end of file      *)
(* have come: a client that is silent between its lines never blocks the     *)
(* others.                                                                   *)
NoIdleBlock == at = "line" /\ line.n = 0 /\ rio.cnt = 0 => Readable(rio.fd)

(* What is written to a client is its own, in the order it was sent, each    *)
(* byte at most once, however descriptors and slots are reused.              *)
EchoesOwn == \A c \in Conns : \A k \in DOMAIN echoed[c] :
    /\ echoed[c][k].from = {c}
    /\ echoed[c][k].first <= echoed[c][k].last /\ echoed[c][k].last <= taken[c]
    /\ k > 1 => echoed[c][k].first > echoed[c][k - 1].last

(* Every client that finishes is accepted, read to its end and closed, in    *)
(* whatever order the others come and go, unless an error ends the server.   *)
Released == \A c \in Conns : eof[c] ~> (exited \/ (taken[c] = sent[c] /\ ~Known(c)))

(* "echo a text line from it" (line 64), "Echo a text line from each ready   *)
(* connected descriptor" (line 123): what is echoed starts where a line of   *)
(* the client starts.                                                        *)
EchoesLines == \A c \in Conns : \A k \in DOMAIN echoed[c] :
                  echoed[c][k].first - 1 \in nls[c] \cup {0}
=============================================================================
