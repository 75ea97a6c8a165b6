-------------------------------- MODULE Tiny --------------------------------
(***************************************************************************)
(* The Tiny web servers: processes, their children, SIGCHLD and wait.      *)
(* They are one program in many copies, told apart by the record of each   *)
(* in Servers.  Requests are known by what the server does with them; of a *)
(* reply only its kind is kept, and who holds the connection open.         *)
(***************************************************************************)
EXTENDS FiniteSets, Naturals

CONSTANTS Variants,  \* the servers considered
          Conns,     \* the connections clients make, one request each
          NoConn,
          Grown      \* the threads of server1238 once change_thread made more

ASSUME ConnsAssumption == IsFiniteSet(Conns) /\ NoConn \notin Conns
ASSUME GrownAssumption == Grown \in Nat \ {0}

(* How a server runs doit: for one connection after another ("main"), in a   *)
(* process for each, or in a pool of threads; how many at once, where there  *)
(* are no processes; whether its listening socket is ever                    *)
(* selected; what its SIGCHLD handler waits for: every child ("all"), or     *)
(* those that have ended; or that SIGCHLD is ignored, and the kernel leaves  *)
(* no zombie; whether serve_dynamic waits; the methods it knows; whether it  *)
(* echoes lines and serves no file.                                          *)
TinyC   == [runs |-> "main", pool |-> 1, accepts |-> TRUE, handler |-> "none",
            waits |-> TRUE, methods |-> {"get"}, echoes |-> FALSE]
Tiny119  == TinyC         \* the file is read into memory, not mapped
TinyMPG  == TinyC         \* one more file type
Tiny1111 == [TinyC EXCEPT !.methods = {"get", "head"}]
Tiny118  == [TinyC EXCEPT !.handler = "all"]
Tiny1112 == [TinyC EXCEPT !.methods = {"get", "head", "post"},
                          !.handler = "all", !.waits = FALSE]
(* line 62 sets SIGCHLD once more, where its message says PIPE *)
Tiny1113 == [TinyC EXCEPT !.handler = "ignored"]
TinyEcho == [TinyC EXCEPT !.echoes = TRUE]
Tiny1235 == [TinyC EXCEPT !.runs = "process", !.handler = "ended"]
Tiny1236 == [TinyC EXCEPT !.accepts = FALSE]  \* select loop; listenfd not in read_set
(* with INITTHREAD threads, and with more; ThreadPool has how they change *)
Server1238      == [TinyC EXCEPT !.runs = "thread"]
Server1238Grown == [Server1238 EXCEPT !.pool = Grown]

Servers == [tiny |-> TinyC, tiny119 |-> Tiny119, tinyMPG |-> TinyMPG,
            tiny1111 |-> Tiny1111, tiny118 |-> Tiny118, tiny1112 |-> Tiny1112,
            tiny1113 |-> Tiny1113, tinyEcho |-> TinyEcho, tiny1235 |-> Tiny1235,
            tiny1236 |-> Tiny1236, server1238 |-> Server1238,
            server1238Grown |-> Server1238Grown]

ASSUME VariantsAssumption == Variants \subseteq DOMAIN Servers

VARIABLES
    variant,    \* the server that runs
    request,    \* request[c]: what the client of c sends
    failed,     \* connections that were reset, or a call for which failed
    at,         \* at[c]: where doit(c) is
    reply,      \* reply[c]
    state,      \* state[q] of a child process q
    holders,    \* holders[c]: the processes with a descriptor of c
    pending,    \* the processes with a SIGCHLD pending
    handling,   \* the processes in their SIGCHLD handler
    exited      \* the server called exit()

client == <<variant, request, failed>>
vars   == <<client, at, reply, state, holders, pending, handling, exited>>

(* method "none": the client closes at once; "silent": it sends nothing and   *)
(* does not close; ~whole: the end of its headers never comes.                *)
Requests == {r \in [method : {"none", "silent", "get", "head", "post", "other"},
                    uri    : {"missing", "static", "dynamic"},
                    whole  : BOOLEAN] :
               /\ r.method \in {"none", "silent", "other"} => ~r.whole
               /\ ~r.whole => r.uri = "static"}
NoRequestYet == [method |-> "none", uri |-> "static", whole |-> FALSE]

Server    == <<"server", NoConn>>
Worker(c) == <<"worker", c>>
Cgi(c)    == <<"cgi", c>>
Children  == {"worker", "cgi"} \X Conns
Procs     == {Server} \cup Children

me        == Servers[variant]
Iterative == me.runs = "main"
HandlesAlways == TRUE   \* MUTANT: every server installs the handler
Ignores   == me.handler = "ignored"
Handles   == me.handler \notin {"none", "ignored"}

(* The process in which doit(c) runs. *)
Proc(c)     == IF me.runs = "process" THEN Worker(c) ELSE Server
Parent(q)   == IF q \in {Worker(c) : c \in Conns} THEN Server ELSE Proc(q[2])
Unreaped(p) == {q \in Children : Parent(q) = p /\ state[q] \in {"running", "zombie"}}
Zombies(p)  == {q \in Unreaped(p) : state[q] = "zombie"}
Runs(p)     == /\ p \notin handling
               /\ IF p = Server THEN ~exited ELSE state[p] = "running"

Init == /\ variant \in Variants
        /\ request = [c \in Conns |-> NoRequestYet] /\ failed = {}
        /\ at = [c \in Conns |-> "none"] /\ reply = [c \in Conns |-> "none"]
        /\ state = [q \in Children |-> "none"]
        /\ holders = [c \in Conns |-> {}]
        /\ pending = {} /\ handling = {}
        /\ exited = FALSE

-----------------------------------------------------------------------------
(* A child process ends: its descriptors are closed, its parent is told. *)
ChildEnds(q) ==
    /\ state' = [state EXCEPT ![q] = IF Ignores THEN "reaped" ELSE "zombie"]
    /\ holders' = [c \in Conns |-> holders[c] \ {q}]
    /\ pending' = IF Handles THEN pending \cup {Parent(q)} ELSE pending
(* exit() in the process that runs doit(c): an error wrapper, or the end of   *)
(* the worker process of tiny1235.                                            *)
Exit(c) ==
    IF Proc(c) = Server
    THEN /\ exited' = TRUE
         /\ holders' = [d \in Conns |-> holders[d] \ {Server}]
         /\ UNCHANGED <<at, state, pending>>
    ELSE /\ ChildEnds(Worker(c))
         /\ at' = [at EXCEPT ![c] = "done"]
         /\ UNCHANGED exited

(* Where a connection begins and passes, and which are in doit. *)
First  == IF me.runs = "thread" THEN "queued" ELSE "request"
Places == {"none", "queued", "request", "headers", "serve", "wait", "close", "done"}
InDoit == {c \in Conns : at[c] \in Places \ {"none", "queued", "done"}}

(* main has nothing else to do. *)
Idle(c)      == /\ Runs(Server) /\ me.accepts /\ at[c] = "none"
                /\ Iterative => \A d \in Conns : at[d] \in {"none", "done"}
Accepting(c) == /\ Idle(c)
                /\ \E r \in Requests : request' = [request EXCEPT ![c] = r]
                /\ UNCHANGED <<variant, failed, reply, pending, handling, exited>>
(* MUTANT: the parent keeps its descriptor. *)
AcceptKeepsFd(c) ==
    /\ Accepting(c)
    /\ at' = [at EXCEPT ![c] = First]
    /\ holders' = [holders EXCEPT ![c] = {Proc(c), Server}]
    /\ state' = IF Proc(c) = Server THEN state ELSE [state EXCEPT ![Worker(c)] = "running"]
(* accept; tiny1235 forks, and the parent closes its descriptor; server1238 *)
(* has a buffer of descriptors.                                             *)
Accept(c) ==
    /\ Accepting(c)
    /\ at' = [at EXCEPT ![c] = First]
    /\ holders' = [holders EXCEPT ![c] = {Proc(c)}]
    /\ state' = IF Proc(c) = Server THEN state ELSE [state EXCEPT ![Worker(c)] = "running"]
(* Its fork() fails, unnoticed: the connection is closed. *)
AcceptNoFork(c) ==
    /\ Proc(c) # Server /\ Accepting(c)
    /\ at' = [at EXCEPT ![c] = "done"]
    /\ UNCHANGED <<state, holders>>

(* accept fails, and the wrapper exits; server1238, which does not look at   *)
(* its result, has a thread serve a descriptor that is not one.              *)
AcceptFails(c) ==
    /\ Idle(c)
    /\ failed' = failed \cup {c}
    /\ IF me.runs = "thread"
       THEN /\ at' = [at EXCEPT ![c] = First]
            /\ UNCHANGED <<holders, exited>>
       ELSE /\ exited' = TRUE
            /\ holders' = [d \in Conns |-> holders[d] \ {Server}]
            /\ UNCHANGED at
    /\ UNCHANGED <<variant, request, reply, state, pending, handling>>

(* The client resets its connection. *)
Reset(c) == /\ at[c] \notin {"none", "done"} /\ c \notin failed
            /\ failed' = failed \cup {c}
            /\ UNCHANGED <<variant, request, at, reply, state, holders, pending, handling, exited>>

Advance(c, from, to) ==
    /\ Runs(Proc(c)) /\ at[c] = from /\ at' = [at EXCEPT ![c] = to]
    /\ UNCHANGED <<client, pending, handling, exited>>
(* A step of doit(c), which has its descriptor. *)
Step(c, from, to) == Proc(c) \in holders[c] /\ Advance(c, from, to)

(* A thread of server1238 that is not in doit takes a descriptor. *)
Takes(c) == /\ Advance(c, "queued", "request") /\ Cardinality(InDoit) < me.pool
            /\ UNCHANGED <<reply, state, holders>>

Replies(c, kind) == reply' = [reply EXCEPT ![c] = kind]

ClientError(c, from) == /\ Step(c, from, "close") /\ Replies(c, "error")
                        /\ UNCHANGED <<state, holders>>

(* doit: the request line *)
NoRequest(c) ==
    /\ request[c].method = "none" /\ Step(c, "request", "close")
    /\ UNCHANGED <<reply, state, holders>>
NotImplemented(c) ==
    /\ ~me.echoes /\ request[c].method \notin me.methods \cup {"none", "silent"}
    /\ ClientError(c, "request")
ReadRequest(c) ==
    /\ ~me.echoes /\ request[c].method \in me.methods /\ Step(c, "request", "headers")
    /\ UNCHANGED <<reply, state, holders>>
(* read_requesthdrs: at an end of file the loop never ends, because the       *)
(* result of Rio_readlineb is not looked at.                                  *)
ReadHeaders(c) ==
    /\ request[c].whole /\ Step(c, "headers", "serve")
    /\ UNCHANGED <<reply, state, holders>>
(* echo of tiny_echo.c: lines up to the empty line or the end of file. *)
Echo(c) ==
    /\ me.echoes /\ request[c].method \notin {"none", "silent"}
    /\ Step(c, "request", "close") /\ Replies(c, "echo")
    /\ UNCHANGED <<state, holders>>

(* doit: 404 or 403; serve_static, of a HEAD request without the file *)
NotFound(c) ==
    /\ request[c].uri = "missing" /\ ClientError(c, "serve")
ServeStatic(c) ==
    /\ request[c].uri = "static"
    /\ Step(c, "serve", "close")
    /\ Replies(c, IF request[c].method = "head" THEN "head" ELSE "static")
    /\ UNCHANGED <<state, holders>>
(* The CGI program has every descriptor its parent has open. *)
Spawn(c) == /\ state' = [state EXCEPT ![Cgi(c)] = "running"]
            /\ holders' = [d \in Conns |-> holders[d] \cup
                             IF Proc(c) \in holders[d] THEN {Cgi(c)} ELSE {}]
(* MUTANT: Wait is left out in all servers. *)
ServeDynamicNoWait(c) ==
    /\ request[c].uri = "dynamic"
    /\ Step(c, "serve", "close")
    /\ Replies(c, "dynamic") /\ Spawn(c)
ServeDynamic(c) ==
    /\ request[c].uri = "dynamic"
    /\ Step(c, "serve", IF me.waits THEN "wait" ELSE "close")
    /\ Replies(c, "dynamic") /\ Spawn(c)
(* Reading or writing fails, and the Rio wrapper or SIGPIPE ends the process. *)
IOError(c) ==
    /\ c \in failed /\ at[c] \in {"request", "headers", "serve"} /\ Runs(Proc(c))
    /\ Exit(c)
    /\ UNCHANGED <<client, reply, handling>>
(* Open, Mmap or Fork fails, and the wrapper exits. *)
CallFails(c) ==
    /\ at[c] = "serve" /\ request[c].uri # "missing" /\ Runs(Proc(c))
    /\ Exit(c) /\ failed' = failed \cup {c}
    /\ UNCHANGED <<variant, request, reply, handling>>

(* Wait(NULL) reaps any child of the process; without one it fails and exits. *)
(* In tiny1113 it finds none, blocks until the CGI program is gone, and fails. *)
WaitReaps(c) ==
    /\ Step(c, "wait", "close")
    /\ \E q \in Zombies(Proc(c)) : state' = [state EXCEPT ![q] = "reaped"]
    /\ UNCHANGED <<reply, holders>>
WaitFails(c) ==
    /\ at[c] = "wait" /\ Runs(Proc(c)) /\ Unreaped(Proc(c)) = {}
    /\ Exit(c)
    /\ UNCHANGED <<client, reply, handling>>

(* MUTANT: doit returns without a Close. *)
CloseForgotten(c) ==
    /\ Proc(c) = Server /\ Step(c, "close", "done")
    /\ UNCHANGED <<reply, state, holders>>
(* main: close; the worker process of tiny1235 ends. *)
Close(c) ==
    /\ Proc(c) = Server /\ Step(c, "close", "done")
    /\ holders' = [holders EXCEPT ![c] = @ \ {Server}]
    /\ UNCHANGED <<reply, state>>
CloseExit(c) ==
    /\ Proc(c) # Server /\ at[c] = "close" /\ Runs(Proc(c))
    /\ Exit(c)
    /\ UNCHANGED <<client, reply, handling>>

-----------------------------------------------------------------------------
(* The CGI program *)
CgiEnds(c) ==
    /\ state[Cgi(c)] = "running"
    /\ ChildEnds(Cgi(c))
    /\ UNCHANGED <<client, at, reply, handling, exited>>

(* SIGCHLD is delivered; a second one stays pending until the handler returns. *)
HandlerStarts(p) ==
    /\ p \in pending /\ Runs(p)
    /\ pending' = pending \ {p} /\ handling' = handling \cup {p}
    /\ UNCHANGED <<client, at, reply, state, holders, exited>>
(* MUTANT: the handler reaps one child for one signal. *)
HandlerReapsOne(p) ==
    /\ p \in handling
    /\ \E q \in Zombies(p) : state' = [state EXCEPT ![q] = "reaped"]
    /\ handling' = handling \ {p}
    /\ UNCHANGED <<client, at, reply, holders, pending, exited>>
HandlerReaps(p) ==
    /\ p \in handling
    /\ \E q \in Zombies(p) : state' = [state EXCEPT ![q] = "reaped"]
    /\ UNCHANGED <<client, at, reply, holders, pending, handling, exited>>
(* waitpid returns -1 without children and, with WNOHANG, 0 without zombies. *)
HandlerReturns(p) ==
    /\ p \in handling
    /\ IF me.handler = "all" THEN Unreaped(p) = {} ELSE Zombies(p) = {}
    /\ handling' = handling \ {p}
    /\ UNCHANGED <<client, at, reply, state, holders, pending, exited>>

-----------------------------------------------------------------------------
Doit(c)   == \/ Takes(c)
             \/ NoRequest(c) \/ NotImplemented(c) \/ ReadRequest(c) \/ ReadHeaders(c)
             \/ NotFound(c) \/ ServeStatic(c) \/ ServeDynamic(c) \/ Echo(c)
             \/ IOError(c) \/ CallFails(c)
             \/ WaitReaps(c) \/ WaitFails(c) \/ Close(c) \/ CloseExit(c)
Signal(p) == HandlerStarts(p) \/ HandlerReaps(p) \/ HandlerReturns(p)

Next == \/ \E c \in Conns : \/ Accept(c) \/ AcceptNoFork(c) \/ AcceptFails(c)
                          \/ Reset(c) \/ Doit(c) \/ CgiEnds(c)
        \/ \E p \in Procs : Signal(p)

Spec == Init /\ [][Next]_vars

(* Processes and threads run, a client that sends sends on, signals are       *)
(* delivered, CGI programs end.                                               *)
Fairness == /\ \A c \in Conns : WF_vars(Doit(c)) /\ WF_vars(CgiEnds(c))
            /\ \A p \in Procs : WF_vars(Signal(p))
FairSpec == Spec /\ Fairness

-----------------------------------------------------------------------------
(* PROPERTIES *)

TypeOK == /\ variant \in Variants
          /\ request \in [Conns -> Requests] /\ failed \subseteq Conns
          /\ at \in [Conns -> Places]
          /\ reply \in [Conns -> {"none", "error", "static", "head", "dynamic", "echo"}]
          /\ state \in [Children -> {"none", "running", "zombie", "reaped"}]
          /\ holders \in [Conns -> SUBSET Procs]
          /\ pending \subseteq {Server} \cup {Worker(c) : c \in Conns}
          /\ handling \subseteq {Server} \cup {Worker(c) : c \in Conns}
          /\ exited \in BOOLEAN

(* What can end a server: a client that resets its connection or a call for  *)
(* it that fails, but nothing later than accept in tiny1235, whose workers   *)
(* shield it; and a Wait that fails: in tiny118 because the handler may reap  *)
(* the child first, in tiny1113 because it ignores SIGCHLD.                  *)
EndsOnlyBy == exited => \/ \E c \in failed : me.runs # "process" \/ at[c] = "none"
                        \/ /\ variant \in {"tiny118", "tiny1113"}
                           /\ \E c \in Conns : at[c] = "wait"

(* "Parent waits for and reaps child": Wait may reap the child of another    *)
(* thread, but where nothing else reaps there is a child for every thread    *)
(* that waits, so none waits in vain and none is left over.                  *)
WaitsMatchChildren == me.waits /\ me.handler = "none" =>
    Cardinality({c \in Conns : at[c] = "wait"}) = Cardinality(Unreaped(Server))

(* A client that reads its HTTP/1.0 reply to the end of file meets it as     *)
(* soon as its request is finished and its CGI program has ended: no other   *)
(* process keeps the connection open.  (In server1238 the programs of other  *)
(* threads inherit it.)                                                      *)
EndSeen == \A c \in Conns :
    me.runs # "thread" /\ at[c] = "done" /\ state[Cgi(c)] # "running"
        => holders[c] = {}

(* What can keep doit(d) for ever, until the client resets: a client that     *)
(* sends nothing, and headers that do not end.                                *)
Blocks(d) == \/ at[d] = "request" /\ request[d].method = "silent"
             \/ at[d] = "headers" /\ ~request[d].whole
(* c then waits for ever if it is c's doit, or that of every thread. *)
Stuck(c)  == \/ Blocks(c)
             \/ /\ me.runs # "process"
                /\ Cardinality({d \in Conns : Blocks(d)}) >= me.pool

(* Every child process that has ended is reaped, although signals coalesce,  *)
(* in every server that has not ended.                                        *)
NoZombies == \A q \in Children : state[q] = "zombie" ~> (state[q] = "reaped" \/ exited)

(* Every connection accepted is eventually closed for its client, unless a    *)
(* client that sends no request, or no end of its headers, keeps the one that *)
(* serves it - in server1238, as many clients as there are threads - or the   *)
(* server has ended.                                                          *)
Served == \A c \in Conns :
    at[c] \in {"queued", "request"} ~> (holders[c] = {} \/ exited \/ Stuck(c))
=============================================================================
