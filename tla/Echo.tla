-------------------------------- MODULE Echo --------------------------------
(***************************************************************************)
(* The echo client and its servers, from the first socket() to the last    *)
(* close(): echoclient.c with echoserveri.c and echo.c, or with            *)
(* server1222.c, which selects between its terminal and its listening      *)
(* socket; and the client and server of socket_interface.c.  The server's  *)
(* and the client's Rio calls are indivisible, as ByteStream promises.     *)
(***************************************************************************)
EXTENDS SequencesExt, Naturals

CONSTANTS Clients, NoClient,
          Programs,        \* the servers and clients considered, in pairs
          Inputs,          \* what a client may be given to read
          MAXLINE,
          Addresses,       \* the addresses getaddrinfo finds
          MaxTyped         \* bound: bytes typed at the terminal of server1222

ASSUME ClientAssumption == NoClient \notin Clients
ASSUME ProgramsAssumption ==
    Programs \subseteq [server : {"echoserveri", "server1222", "socket_interface"},
                        client : {"echoclient", "socket_interface"}]
ASSUME InputsAssumption == Inputs \subseteq Seq(BOOLEAN)
ASSUME SizesAssumption == MAXLINE \in Nat \ {0, 1} /\ Addresses \in Nat /\ MaxTyped \in Nat

VARIABLES
    programs,   \* the server and the client that run
    at,         \* at[p]: where process p is
    left,       \* left[p]: addresses open_clientfd or open_listenfd has not tried
    socks,      \* socks[p]: the sockets these functions left open in p
    listening,  \* the server's socket accepts connections to its port
    backlog,    \* connections not yet accepted
    serving,    \* the client whose connection echo() holds
    ready,      \* what select of server1222 has reported
    link,       \* link[c]: "none", "up", or "down" when the server has closed or ended
    up, down,   \* up[c], down[c]: bytes under way to the server, to the client
    input,      \* input[c]: what client c has not read of its input
    buf,        \* buf[c]: what is in the client's buf
    got,        \* got[c]: what Rio_readlineb has given the client
    printed,    \* printed[c]: what the client has printed
    typed,      \* the number of bytes typed at the terminal
    tty, stdin, \* those read() has not taken, those Fgets has not taken
    ttyEnd      \* the end of file has been typed

netVars    == <<backlog, serving, link, up, down>>
clientVars == <<input, buf, got, printed>>
ttyVars    == <<typed, tty, stdin, ttyEnd>>
openVars   == <<left, socks, listening>>
vars == <<programs, at, openVars, netVars, ready, clientVars, ttyVars>>

Server  == NoClient        \* the server process
Procs   == Clients \cup {Server}
Program(p) == IF p = Server THEN programs.server ELSE programs.client
(* Whether p uses the functions of socket_interface.c, and no wrappers. *)
Notes(p) == Program(p) = "socket_interface"
Selects  == programs.server = "server1222"
Waiting  == IF Selects THEN "select" ELSE "accept"

(* A byte is <<whose, its place, whether it is a newline>>. *)
Bytes(p, newlines) == [k \in DOMAIN newlines |-> <<p, k, newlines[k]>>]

(* What rio_readlineb takes from bytes, and fgets: up to a newline, or MAXLINE - 1. *)
Ends(s)      == {k \in DOMAIN s : s[k][3] \/ k = MAXLINE - 1}
LineLen(s)   == IF Ends(s) = {} THEN Len(s) ELSE Min(Ends(s))
Line(s)      == SubSeq(s, 1, LineLen(s))
AfterLine(s) == SubSeq(s, LineLen(s) + 1, Len(s))

Init == /\ programs \in Programs
        /\ at = [p \in Procs |-> "open"] /\ left = [p \in Procs |-> Addresses]
        /\ socks = [p \in Procs |-> 0] /\ listening = FALSE
        /\ backlog = <<>> /\ serving = NoClient /\ ready = {}
        /\ link = [c \in Clients |-> "none"]
        /\ up = [c \in Clients |-> <<>>] /\ down = [c \in Clients |-> <<>>]
        /\ \E f \in [Clients -> Inputs] : input = [c \in Clients |-> Bytes(c, f[c])]
        /\ buf = [c \in Clients |-> <<>>] /\ got = [c \in Clients |-> <<>>]
        /\ printed = [c \in Clients |-> <<>>]
        /\ typed = 0 /\ tty = <<>> /\ stdin = <<>> /\ ttyEnd = FALSE

Goes(p, from, to) == at[p] = from /\ at' = [at EXCEPT ![p] = to]

-----------------------------------------------------------------------------
(* open_clientfd and open_listenfd: the walk over the addresses              *)

(* What the walk ends with. *)
Leaves(p, from, to) == Goes(p, from, to) /\ left' = [left EXCEPT ![p] = 0]
Closes(p)           == socks' = [socks EXCEPT ![p] = @ - 1]

(* getaddrinfo or, in csapp.c, a close fails: the wrapper ends the process.   *)
(* socket_interface.c does not look at getaddrinfo's result, and then walks a *)
(* list it never got: it crashes, or finds none.                             *)
OpenFails(p) ==
    /\ \/ ~Notes(p) /\ (Leaves(p, "open", "ended") \/ Leaves(p, "try", "ended"))
       \/ /\ Notes(p) /\ left[p] = Addresses
          /\ Leaves(p, "open", "ended") \/ Leaves(p, "open", "open")
    /\ socks' = [socks EXCEPT ![p] = 0]
    /\ UNCHANGED <<programs, listening, netVars, ready, clientVars, ttyVars>>
(* socket() succeeds or not. *)
Socket(p) ==
    /\ left[p] > 0 /\ left' = [left EXCEPT ![p] = @ - 1]
    /\ \/ Goes(p, "open", "try") /\ socks' = [socks EXCEPT ![p] = @ + 1]
       \/ Goes(p, "open", "open") /\ UNCHANGED socks
    /\ UNCHANGED <<programs, listening, netVars, ready, clientVars, ttyVars>>
(* connect or bind fails. *)
TryFailsOpen(p) ==   \* MUTANT: the socket is not closed
    /\ Goes(p, "try", "open") /\ ~(p = Server /\ Notes(p))
    /\ UNCHANGED <<programs, openVars, netVars, ready, clientVars, ttyVars>>
TryFails(p) ==
    /\ Goes(p, "try", "open") /\ ~(p = Server /\ Notes(p)) /\ Closes(p)
    /\ UNCHANGED <<programs, left, listening, netVars, ready, clientVars, ttyVars>>
(* No address is left: csapp.c returns -1 and the wrapper ends the process.   *)
(* socket_interface.c looks at listp, not curp: its client goes on with a     *)
(* closed descriptor; its server fails in listen, and then in echo(-1).       *)
NoAddress(p) ==
    /\ left[p] = 0 /\ Goes(p, "open", IF Notes(p) /\ p # Server THEN "read" ELSE "ended")
    /\ UNCHANGED <<programs, openVars, netVars, ready, clientVars, ttyVars>>

Connect(c) ==
    /\ listening /\ Leaves(c, "try", "read")
    /\ link' = [link EXCEPT ![c] = "up"] /\ backlog' = Append(backlog, c)
    /\ UNCHANGED <<programs, socks, listening, serving, up, down, ready, clientVars, ttyVars>>
(* bind succeeds, then listen does or not. *)
Bind ==
    /\ ~Notes(Server)
    /\ \/ Leaves(Server, "try", Waiting) /\ listening' = TRUE /\ UNCHANGED socks
       \/ Leaves(Server, "try", "ended") /\ Closes(Server) /\ UNCHANGED listening
    /\ UNCHANGED <<programs, netVars, ready, clientVars, ttyVars>>
(* socket_interface.c tests bind the other way round: it closes a socket that *)
(* is bound, and listens with one that is not, at a port nobody knows; when   *)
(* listen fails it goes on with -1, on which echo ends the process.           *)
BindTurned ==
    /\ Notes(Server)
    /\ \/ Goes(Server, "try", "open") /\ Closes(Server) /\ UNCHANGED left
       \/ Leaves(Server, "try", "ended") /\ Closes(Server)
       \/ Leaves(Server, "try", "accept") /\ UNCHANGED socks
    /\ UNCHANGED <<programs, listening, netVars, ready, clientVars, ttyVars>>

-----------------------------------------------------------------------------
(* The client *)

(* Fgets, Rio_writen; on a connection that is down writing may fail. *)
Read(c) ==
    /\ input[c] # <<>> /\ Goes(c, "read", "echo")
    /\ buf' = [buf EXCEPT ![c] = Line(input[c])]
    /\ input' = [input EXCEPT ![c] = AfterLine(@)]
    /\ up' = IF link[c] = "up" THEN [up EXCEPT ![c] = @ \o Line(input[c])] ELSE up
    /\ UNCHANGED <<programs, openVars, backlog, serving, link, down, ready, got, printed, ttyVars>>
(* Rio_readlineb, Fputs.  At the end of the file buf is as it was, and is     *)
(* printed all the same.                                                      *)
Show(c) ==
    /\ Goes(c, "echo", "read")
    /\ LET line == Line(down[c])
           out  == IF line = <<>> THEN buf[c] ELSE line
       IN /\ Ends(down[c]) # {} \/ link[c] # "up"
          /\ down' = [down EXCEPT ![c] = AfterLine(@)]
          /\ got' = [got EXCEPT ![c] = @ \o line]
          /\ buf' = [buf EXCEPT ![c] = out]
          /\ printed' = [printed EXCEPT ![c] = @ \o out]
    /\ UNCHANGED <<programs, openVars, backlog, serving, link, up, ready, input, ttyVars>>
(* Close, exit; what has come for it is dropped. *)
Quits(c, to) ==
    /\ at' = [at EXCEPT ![c] = to]
    /\ socks' = [socks EXCEPT ![c] = 0] /\ down' = [down EXCEPT ![c] = <<>>]
    /\ UNCHANGED <<programs, left, listening, backlog, serving, link, up, ready, clientVars, ttyVars>>
Finish(c) == at[c] = "read" /\ input[c] = <<>> /\ Quits(c, "done")
(* It is interrupted; or its reading or writing fails when the server is gone. *)
Interrupt(c) == at[c] \in {"read", "echo"} /\ Quits(c, "ended")

Eof(c) == at[c] \in {"done", "ended"}   \* the kernel has closed c's end

-----------------------------------------------------------------------------
(* The servers *)

Hangs(C) == link' = [c \in Clients |-> IF c \in C /\ link[c] = "up" THEN "down" ELSE link[c]]
(* The kernel closes the connections; what the server had read is gone. *)
ServerEnds == /\ at' = [at EXCEPT ![Server] = "ended"]
              /\ listening' = FALSE /\ Hangs(Clients)
              /\ ready' = {} /\ tty' = <<>> /\ stdin' = <<>>
              /\ UNCHANGED <<programs, left, socks, backlog, serving, up, down,
                             clientVars, typed, ttyEnd>>

Accept ==
    /\ backlog # <<>> /\ Goes(Server, "accept", "serve")
    /\ serving' = Head(backlog) /\ backlog' = Tail(backlog)
    /\ UNCHANGED <<programs, openVars, link, up, down, ready, clientVars, ttyVars>>
(* Accept, Getnameinfo, Select or Fgets fails, and the wrapper exits; in      *)
(* socket_interface.c echo() does, on the descriptor -1.                     *)
ServeFails ==
    /\ at[Server] \in {"accept", "select", "command"} /\ ServerEnds
(* echo(): a line, as long as Rio_readlineb gives one; in server1222, one.    *)
EchoTwice ==   \* MUTANT: the line is written once more
    /\ at[Server] = "serve"
    /\ LET c == serving
           line == Line(up[c])
       IN /\ Ends(up[c]) # {} \/ Eof(c)
          /\ Goes(Server, "serve", IF line = <<>> \/ Selects THEN "close" ELSE "serve")
          /\ up' = [up EXCEPT ![c] = AfterLine(@)]
          /\ down' = IF Eof(c) THEN down ELSE [down EXCEPT ![c] = @ \o line \o line]
    /\ UNCHANGED <<programs, openVars, backlog, serving, link, ready, clientVars, ttyVars>>
EchoLine ==
    /\ at[Server] = "serve"
    /\ LET c == serving
           line == Line(up[c])
       IN /\ Ends(up[c]) # {} \/ Eof(c)
          /\ Goes(Server, "serve", IF line = <<>> \/ Selects THEN "close" ELSE "serve")
          /\ up' = [up EXCEPT ![c] = AfterLine(@)]
          /\ down' = IF Eof(c) THEN down ELSE [down EXCEPT ![c] = @ \o line]
    /\ UNCHANGED <<programs, openVars, backlog, serving, link, ready, clientVars, ttyVars>>
(* The client was interrupted: reading or writing fails, and the wrapper exits. *)
EchoFails ==
    /\ at[Server] = "serve" /\ at[serving] = "ended" /\ ServerEnds
CloseForgotten ==   \* MUTANT: echo() returns, and the connection stays open
    /\ Goes(Server, "close", Waiting) /\ serving' = NoClient
    /\ UNCHANGED <<programs, openVars, backlog, link, up, down, ready, clientVars, ttyVars>>
Close ==
    /\ Goes(Server, "close", Waiting) /\ serving' = NoClient /\ Hangs({serving})
    /\ up' = [up EXCEPT ![serving] = <<>>]
    /\ UNCHANGED <<programs, openVars, backlog, down, ready, clientVars, ttyVars>>

(* server1222: select, then command() and the next connection, in this order. *)
Select ==
    /\ LET reported == (IF tty # <<>> \/ ttyEnd THEN {"stdin"} ELSE {})
                         \cup (IF backlog # <<>> THEN {"listenfd"} ELSE {})
       IN /\ reported # {} /\ ready' = reported
          /\ Goes(Server, "select", IF "stdin" \in reported THEN "command" ELSE "accept")
    /\ UNCHANGED <<programs, openVars, netVars, clientVars, ttyVars>>
AfterCommand == Goes(Server, "command", IF "listenfd" \in ready THEN "accept" ELSE "select")
(* Fgets takes a line from stdin's buffer, which read() fills with all there  *)
(* is: a second line stays in the buffer, where select does not see it.       *)
Command ==
    /\ Ends(stdin) # {} \/ (ttyEnd /\ tty = <<>> /\ stdin # <<>>)
    /\ AfterCommand /\ stdin' = AfterLine(stdin)
    /\ UNCHANGED <<programs, openVars, netVars, ready, clientVars, typed, tty, ttyEnd>>
CommandReads ==
    /\ at[Server] = "command" /\ Ends(stdin) = {} /\ tty # <<>>
    /\ stdin' = stdin \o tty /\ tty' = <<>>
    /\ UNCHANGED <<programs, at, openVars, netVars, ready, clientVars, typed, ttyEnd>>
CommandEnds ==
    /\ at[Server] = "command" /\ ttyEnd /\ tty = <<>> /\ stdin = <<>> /\ ServerEnds

(* What is typed is the server's as long as it runs. *)
Types == Selects /\ at[Server] # "ended" /\ ~ttyEnd
Type ==
    /\ Types /\ typed < MaxTyped
    /\ \E newline \in BOOLEAN : tty' = Append(tty, <<Server, typed + 1, newline>>)
    /\ typed' = typed + 1
    /\ UNCHANGED <<programs, at, openVars, netVars, ready, clientVars, stdin, ttyEnd>>
TypeEnd ==
    /\ Types /\ ttyEnd' = TRUE
    /\ UNCHANGED <<programs, at, openVars, netVars, ready, clientVars, typed, tty, stdin>>

-----------------------------------------------------------------------------
Opening(p) == OpenFails(p) \/ Socket(p) \/ TryFails(p) \/ NoAddress(p)
User(c)    == Read(c) \/ Finish(c) \/ Interrupt(c)
Client(c)  == Connect(c) \/ Show(c)
Serve      == \/ Bind \/ BindTurned \/ Accept \/ EchoLine \/ EchoFails \/ Close
              \/ Select \/ Command \/ CommandReads \/ CommandEnds

Next == \/ \E p \in Procs : Opening(p)
        \/ \E c \in Clients : Client(c) \/ User(c)
        \/ Serve \/ ServeFails \/ Type \/ TypeEnd

Spec == Init /\ [][Next]_vars
(* Processes run; nobody need type, neither at the server's terminal nor at a *)
(* client's, nor end his input.                                              *)
FairSpec == /\ Spec
            /\ \A c \in Clients : WF_vars(Client(c))
            /\ WF_vars(Serve)

-----------------------------------------------------------------------------
(* PROPERTIES *)

TypeOK == /\ programs \in Programs
          /\ at \in [Procs -> {"open", "try", "read", "echo", "done", "ended",
                               "accept", "serve", "close", "select", "command"}]
          /\ left \in [Procs -> 0 .. Addresses] /\ socks \in [Procs -> Nat]
          /\ listening \in BOOLEAN /\ ready \subseteq {"stdin", "listenfd"}
          /\ backlog \in Seq(Clients) /\ serving \in Procs
          /\ link \in [Clients -> {"none", "up", "down"}]
          /\ typed \in 0 .. MaxTyped /\ ttyEnd \in BOOLEAN

(* "descriptor if OK, -1 on error" (socket_interface.c:155): however many     *)
(* addresses fail, a process that gets to its loop has exactly one socket,    *)
(* connected, or listening at its port.  (With socket_interface.c's own       *)
(* functions it may have none, or one that listens elsewhere.)                *)
OneSocket == \A p \in Procs :
    at[p] \in {"read", "echo", "accept", "serve", "close", "select", "command"} =>
        /\ socks[p] <= 1
        /\ ~Notes(p) => /\ socks[p] = 1
                        /\ IF p = Server THEN listening ELSE link[p] # "none"

(* A client prints its own bytes, each once and in order; and as long as its  *)
(* connection stands, what it prints is what came back.  (When the server has *)
(* closed it prints what it wrote itself, because it does not look at what    *)
(* Rio_readlineb returns.)                                                    *)
EchoesBack == \A c \in Clients :
    /\ \A k \in DOMAIN printed[c] : printed[c][k][1] = c /\ printed[c][k][2] = k
    /\ IF link[c] = "up" THEN got[c] = printed[c] ELSE IsPrefix(got[c], printed[c])

(* The three ways in which everyone waits: the server for the newline of a     *)
(* client's last line, and the client for its echo; the server for a client   *)
(* whose user does not type, while the others wait for the server; server1222 *)
(* for the rest of a command.                                                *)
HalfLine  == /\ at[Server] = "serve" /\ at[serving] = "echo"
             /\ up[serving] # <<>> /\ Ends(up[serving]) = {} /\ input[serving] = <<>>
Idle      == at[Server] = "serve" /\ at[serving] = "read"
HalfTyped == at[Server] = "command" /\ Ends(stdin \o tty) = {} /\ ~ttyEnd
Stuck     == HalfLine \/ Idle \/ HalfTyped

(* Every line a client has written is answered, although the server serves    *)
(* others and its terminal meanwhile, and server1222 ends with its terminal   *)
(* file, except for these three ways of waiting.                              *)
Answered == /\ \A c \in Clients : at[c] = "echo" ~> (at[c] # "echo" \/ []Stuck)
            /\ (at[Server] = "select" /\ ttyEnd) ~> (at[Server] = "ended" \/ []Stuck)
=============================================================================
