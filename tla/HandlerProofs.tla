---------------------------- MODULE HandlerProofs ----------------------------
(***************************************************************************)
(* Proofs about the programs that signal handlers interrupt.  The Tiny     *)
(* servers: what can end one, that Wait and the children match, and that   *)
(* no process keeps a finished connection open, for every set of           *)
(* connections and every choice of the servers.  tfgets: that its answer   *)
(* is true of its buffer, and that the buffer is the caller's afterwards,  *)
(* in every order of the limit, the input and the threads.                 *)
(***************************************************************************)
EXTENDS Tiny, TimedGets, FiniteSetTheorems, TLAPS

-----------------------------------------------------------------------------
(* The Tiny servers *)

Active == {"queued", "request", "headers", "serve", "wait", "close"}
Early  == {"none", "queued", "request", "headers", "serve"}

USE DEF Places

(* A request that is not served yet has no CGI program. *)
Fresh == \A c \in Conns : at[c] \in Early => state[Cgi(c)] = "none"

(* Only servers that wait wait, only tiny1235 has workers, and no signal is  *)
(* pending or handled where no handler is installed.                         *)
Kind == /\ \A c \in Conns : at[c] = "wait" => me.waits
        /\ me.runs # "process" => \A c \in Conns : state[Worker(c)] = "none"
        /\ ~Handles => pending = {} /\ handling = {}

(* An iterative server has one request at a time. *)
OneAtATime == Iterative => \A c, d \in Conns : at[c] \in Active /\ at[d] \in Active => c = d

(* Who has a descriptor of a connection: the process that serves it, while it *)
(* does, and its own CGI program, while it runs.                              *)
Held == me.runs # "thread" => \A c \in Conns :
           /\ holders[c] \subseteq {Proc(c), Cgi(c)}
           /\ Proc(c) \in holders[c] => at[c] \in Active
           /\ Cgi(c) \in holders[c] => state[Cgi(c)] = "running"

TInv == TypeOK /\ Fresh /\ Kind /\ OneAtATime /\ Held /\ WaitsMatchChildren /\ EndsOnlyBy

-----------------------------------------------------------------------------
(* What tells the servers apart. *)
LEMMA Kinds ==
    ASSUME variant \in Variants
    PROVE  /\ me.runs \in {"main", "process", "thread"}
           /\ me.handler \in {"none", "all", "ended", "ignored"}
           /\ me.runs = "process" <=> me.handler = "ended"
           /\ me.handler = "all" /\ me.waits => variant = "tiny118"
           /\ me.handler = "ignored" => variant = "tiny1113"
           /\ variant \in {"tiny118", "tiny1113"} => me.runs = "main"
           /\ me.waits \in BOOLEAN
<1>1. variant \in {"tiny", "tiny119", "tinyMPG", "tiny1111", "tiny118", "tiny1112", "tiny1113",
                   "tinyEcho", "tiny1235", "tiny1236", "server1238", "server1238Grown"}
  BY VariantsAssumption DEF Servers
<1>2. /\ Servers["tiny"] = TinyC
      /\ Servers["tiny119"] = Tiny119
      /\ Servers["tinyMPG"] = TinyMPG
      /\ Servers["tiny1111"] = Tiny1111
      /\ Servers["tiny118"] = Tiny118
      /\ Servers["tiny1112"] = Tiny1112
      /\ Servers["tiny1113"] = Tiny1113
      /\ Servers["tinyEcho"] = TinyEcho
      /\ Servers["tiny1235"] = Tiny1235
      /\ Servers["tiny1236"] = Tiny1236
      /\ Servers["server1238"] = Server1238
      /\ Servers["server1238Grown"] = Server1238Grown
  BY DEF Servers
<1>3. /\ TinyC.runs = "main" /\ TinyC.handler = "none" /\ TinyC.waits
      /\ Tiny119 = TinyC /\ TinyMPG = TinyC
  BY DEF TinyC, Tiny119, TinyMPG
<1>4. /\ Tiny1111.runs = "main" /\ Tiny1111.handler = "none" /\ Tiny1111.waits
      /\ TinyEcho.runs = "main" /\ TinyEcho.handler = "none" /\ TinyEcho.waits
      /\ Tiny1236.runs = "main" /\ Tiny1236.handler = "none" /\ Tiny1236.waits
      /\ Server1238.runs = "thread" /\ Server1238.handler = "none" /\ Server1238.waits
      /\ Server1238Grown.runs = "thread" /\ Server1238Grown.handler = "none"
      /\ Server1238Grown.waits
  BY DEF TinyC, Tiny1111, TinyEcho, Tiny1236, Server1238, Server1238Grown
<1>5. /\ Tiny118.runs = "main" /\ Tiny118.handler = "all" /\ Tiny118.waits
      /\ Tiny1112.runs = "main" /\ Tiny1112.handler = "all" /\ Tiny1112.waits = FALSE
      /\ Tiny1113.runs = "main" /\ Tiny1113.handler = "ignored" /\ Tiny1113.waits
      /\ Tiny1235.runs = "process" /\ Tiny1235.handler = "ended" /\ Tiny1235.waits
  BY DEF TinyC, Tiny118, Tiny1112, Tiny1113, Tiny1235
<1> DEFINE OfKind(runs, handler) == me.runs = runs /\ me.handler = handler
<1>6. CASE variant \in {"tiny", "tiny119", "tinyMPG", "tiny1111", "tinyEcho", "tiny1236"}
  <2>1. OfKind("main", "none") /\ me.waits
    BY <1>2, <1>3, <1>4, <1>6 DEF me
  <2> QED
    BY <1>6, <2>1
<1>7. CASE variant \in {"server1238", "server1238Grown"}
  <2>1. OfKind("thread", "none") /\ me.waits
    BY <1>2, <1>4, <1>7 DEF me
  <2> QED
    BY <1>7, <2>1
<1>8. CASE variant \in {"tiny118", "tiny1112"}
  <2>1. CASE variant = "tiny118"
    <3>1. OfKind("main", "all")
      BY <1>2, <1>5, <2>1 DEF me
    <3>2. me.waits = TRUE
      BY <1>2, <1>5, <2>1 DEF me, Tiny118, TinyC
    <3> QED
      BY <2>1, <3>1, <3>2
  <2>2. CASE variant = "tiny1112"
    <3>1. OfKind("main", "all") /\ me.waits = FALSE
      BY <1>2, <1>5, <2>2 DEF me
    <3> QED
      BY <3>1
  <2> QED
    BY <1>8, <2>1, <2>2
<1>9. CASE variant = "tiny1113"
  <2>1. OfKind("main", "ignored") /\ me.waits
    BY <1>2, <1>5, <1>9 DEF me
  <2> QED
    BY <1>9, <2>1
<1>10. CASE variant = "tiny1235"
  <2>1. OfKind("process", "ended") /\ me.waits
    BY <1>2, <1>5, <1>10 DEF me
  <2> QED
    BY <1>10, <2>1
<1> QED
  BY <1>1, <1>6, <1>7, <1>8, <1>9, <1>10

(* The names of processes, and whose children they are. *)
LEMMA Names ==
    /\ \A c \in Conns : /\ Worker(c) \in Children /\ Cgi(c) \in Children
                        /\ Server # Worker(c) /\ Server # Cgi(c)
                        /\ Parent(Worker(c)) = Server /\ Parent(Cgi(c)) = Proc(c)
    /\ \A c, d \in Conns : /\ Worker(c) # Cgi(d)
                           /\ Worker(c) = Worker(d) => c = d
                           /\ Cgi(c) = Cgi(d) => c = d
    /\ \A q \in Children : \E c \in Conns : q = Worker(c) \/ q = Cgi(c)
    /\ Server \in Procs /\ Children \subseteq Procs
BY DEF Worker, Cgi, Server, Children, Procs, Parent

(* The process that serves c. *)
LEMMA ProcIs ==
    ASSUME NEW c \in Conns
    PROVE  Proc(c) = (IF me.runs = "process" THEN Worker(c) ELSE Server) /\ Proc(c) \in Procs
BY Names DEF Proc

(* The server does not change, nor who serves what. *)
LEMMA SameServer ==
    ASSUME variant' = variant
    PROVE  /\ me' = me /\ Handles' = Handles /\ Iterative' = Iterative
           /\ \A c : Proc(c)' = Proc(c)
           /\ \A q : Parent(q)' = Parent(q)
BY DEF me, Handles, Iterative, Proc, Parent

(* The threads that wait and the children are finitely many. *)
LEMMA FiniteOnes ==
    /\ IsFiniteSet({c \in Conns : at[c] = "wait"})
    /\ IsFiniteSet(Children) /\ \A p : IsFiniteSet(Unreaped(p))
<1>1. IsFiniteSet(Conns)
  BY ConnsAssumption
<1>2. IsFiniteSet({"worker", "cgi"})
  <2>1. {"worker", "cgi"} = ({} \cup {"worker"}) \cup {"cgi"}
    OBVIOUS
  <2>2. IsFiniteSet({} \cup {"worker"})
    BY FS_EmptySet, FS_AddElement
  <2>3. IsFiniteSet(({} \cup {"worker"}) \cup {"cgi"})
    BY <2>2, FS_AddElement
  <2> QED
    BY <2>1, <2>3
<1>3. IsFiniteSet(Children)
  BY <1>1, <1>2, FS_Product DEF Children
<1> QED
  BY <1>1, <1>3, FS_Subset DEF Unreaped

-----------------------------------------------------------------------------
(* The parts of the invariant, from what a step does *)

(* Whatever ended the server is still there: after exit() the server takes no *)
(* step of its own.                                                           *)
LEMMA EndsKept ==
    ASSUME TInv, UNCHANGED <<variant, exited>>, failed \subseteq failed',
           \A d \in Conns : exited /\ (at[d] = "none" \/ Proc(d) = Server) => at'[d] = at[d]
    PROVE  EndsOnlyBy'
<1> SUFFICES ASSUME exited
             PROVE  \/ \E c \in failed' : me'.runs # "process" \/ at'[c] = "none"
                    \/ /\ variant \in {"tiny118", "tiny1113"}
                       /\ \E c \in Conns : at'[c] = "wait"
  BY DEF EndsOnlyBy
<1>1. variant \in Variants /\ failed \subseteq Conns
  BY DEF TInv, TypeOK
<1>2. me' = me
  BY SameServer
<1>3. CASE \E c \in failed : me.runs # "process" \/ at[c] = "none"
  BY <1>1, <1>2, <1>3
<1>4. CASE /\ variant \in {"tiny118", "tiny1113"}
           /\ \E c \in Conns : at[c] = "wait"
  <2>1. \A c \in Conns : Proc(c) = Server
    BY <1>1, <1>4, Kinds, ProcIs
  <2> QED
    BY <1>4, <2>1
<1> QED
  BY <1>3, <1>4 DEF TInv, EndsOnlyBy

(* The waiting threads and the children are as many while neither change. *)
LEMMA MatchKept ==
    ASSUME TInv, variant' = variant,
           \A d \in Conns : at'[d] = "wait" <=> at[d] = "wait",
           me.waits /\ me.handler = "none"
              => \A q \in Children : state'[q] \in {"running", "zombie"}
                                       <=> state[q] \in {"running", "zombie"}
    PROVE  WaitsMatchChildren'
<1> SUFFICES ASSUME me.waits, me.handler = "none"
             PROVE  Cardinality({c \in Conns : at'[c] = "wait"}) = Cardinality(Unreaped(Server)')
  BY SameServer DEF WaitsMatchChildren
<1>1. {c \in Conns : at'[c] = "wait"} = {c \in Conns : at[c] = "wait"}
  OBVIOUS
<1>2. Unreaped(Server)' = Unreaped(Server)
  <2>1. Server' = Server
    BY DEF Server
  <2> QED
    BY <2>1, SameServer DEF Unreaped
<1> QED
  BY <1>1, <1>2 DEF TInv, WaitsMatchChildren

(* Only a thread's place in doit changes, not to or from Wait. *)
LEMMA Moves ==
    ASSUME TInv, NEW c \in Conns, NEW from, NEW to, Advance(c, from, to),
           from \in Early \ {"none"}, to \in {"request", "headers", "serve", "close"},
           UNCHANGED <<state, holders>>,
           reply' \in [Conns -> {"none", "error", "static", "head", "dynamic", "echo"}]
    PROVE  TInv'
<1>1. /\ UNCHANGED <<variant, request, failed, pending, handling, exited>>
      /\ at' = [at EXCEPT ![c] = to] /\ at[c] = from /\ Runs(Proc(c))
  BY DEF Advance, client
<1>2. /\ at \in [Conns -> Places]
      /\ variant \in Variants
  BY DEF TInv, TypeOK
<1>3. at'[c] = to /\ \A d \in Conns \ {c} : at'[d] = at[d]
  BY <1>1, <1>2
<1>4. me' = me /\ Handles' = Handles /\ Iterative' = Iterative /\ \A d : Proc(d)' = Proc(d)
  BY <1>1, SameServer
<1>5. TypeOK'
  <2>1. at' \in [Conns -> Places]
    BY <1>1, <1>2
  <2> QED
    BY <1>1, <2>1 DEF TInv, TypeOK, Worker, Server
<1>6. Fresh'
  <2>1. at[c] \in Early
    BY <1>1
  <2> QED
    BY <1>3, <2>1 DEF TInv, Fresh, Cgi
<1>7. Kind'
  <2>1. \A d \in Conns : at'[d] = "wait" => at[d] = "wait"
    BY <1>3
  <2> QED
    BY <1>1, <1>4, <2>1 DEF TInv, Kind, Worker
<1>8. OneAtATime'
  <2>1. \A d \in Conns : at'[d] \in Active => at[d] \in Active
    BY <1>1, <1>3 DEF Active, Early
  <2> QED
    BY <1>4, <2>1 DEF TInv, OneAtATime
<1>9. Held'
  <2>1. \A d \in Conns : at[d] \in Active => at'[d] \in Active
    BY <1>3 DEF Active
  <2> QED
    BY <1>1, <1>4, <2>1 DEF TInv, Held, Cgi
<1>10. WaitsMatchChildren'
  <2>1. \A d \in Conns : at'[d] = "wait" <=> at[d] = "wait"
    BY <1>1, <1>3 DEF Early
  <2> QED
    BY <1>1, <2>1, MatchKept
<1>11. EndsOnlyBy'
  <2>1. \A d \in Conns : exited /\ (at[d] = "none" \/ Proc(d) = Server) => at'[d] = at[d]
    <3>1. exited => Proc(c) # Server
      BY <1>1 DEF Runs
    <3>2. at[c] # "none"
      BY <1>1
    <3> QED
      BY <1>3, <3>1, <3>2
  <2> QED
    BY <1>1, <2>1, EndsKept
<1> QED
  BY <1>5, <1>6, <1>7, <1>8, <1>9, <1>10, <1>11 DEF TInv

(* The request line, the headers, and all that is answered without a program. *)
LEMMA AnswerStep ==
    ASSUME TInv, NEW c \in Conns,
           \/ Takes(c) \/ NoRequest(c) \/ NotImplemented(c) \/ ReadRequest(c)
           \/ ReadHeaders(c) \/ Echo(c) \/ NotFound(c) \/ ServeStatic(c)
    PROVE  TInv'
<1>1. reply \in [Conns -> {"none", "error", "static", "head", "dynamic", "echo"}]
  BY DEF TInv, TypeOK
<1>2. PICK from \in Early \ {"none"}, to \in {"request", "headers", "serve", "close"} :
         /\ Advance(c, from, to) /\ UNCHANGED <<state, holders>>
         /\ reply' = reply \/ \E kind \in {"error", "echo", "head", "static"} : Replies(c, kind)
  <2>1. {"queued", "request", "headers", "serve"} \subseteq Early \ {"none"}
    BY DEF Early
  <2> QED
    BY <2>1, Zenon DEF Takes, Step, NoRequest, NotImplemented, ReadRequest, ReadHeaders, Echo, NotFound, ServeStatic,
                ClientError
<1>3. reply' \in [Conns -> {"none", "error", "static", "head", "dynamic", "echo"}]
  BY <1>1, <1>2 DEF Replies
<1> QED
  BY <1>2, <1>3, Moves

(* serve_dynamic: the program inherits this connection only, except in the     *)
(* server with threads, and there is one child more for one thread more that   *)
(* waits.                                                                      *)
LEMMA DynamicStep == ASSUME TInv, NEW c \in Conns, ServeDynamic(c) PROVE TInv'
<1>1. /\ UNCHANGED <<variant, request, failed, pending, handling, exited>>
      /\ at' = [at EXCEPT ![c] = IF me.waits THEN "wait" ELSE "close"]
      /\ at[c] = "serve" /\ Runs(Proc(c))
      /\ reply' = [reply EXCEPT ![c] = "dynamic"]
      /\ state' = [state EXCEPT ![Cgi(c)] = "running"]
      /\ holders' = [d \in Conns |-> holders[d] \cup
                                       IF Proc(c) \in holders[d] THEN {Cgi(c)} ELSE {}]
  BY DEF ServeDynamic, Step, Advance, client, Replies, Spawn
<1>2. /\ at \in [Conns -> Places]
      /\ state \in [Children -> {"none", "running", "zombie", "reaped"}]
      /\ holders \in [Conns -> SUBSET Procs] /\ variant \in Variants
  BY DEF TInv, TypeOK
<1>3. Cgi(c) \in Children /\ Cgi(c) \in Procs
  BY Names
<1>4. /\ at'[c] = IF me.waits THEN "wait" ELSE "close"
      /\ \A d \in Conns \ {c} : at'[d] = at[d]
      /\ state'[Cgi(c)] = "running" /\ \A q \in Children \ {Cgi(c)} : state'[q] = state[q]
  BY <1>1, <1>2, <1>3
<1>5. me' = me /\ Handles' = Handles /\ Iterative' = Iterative /\ \A d : Proc(d)' = Proc(d)
  BY <1>1, SameServer
<1>6. TypeOK'
  <2>1. at' \in [Conns -> Places]
    BY <1>1, <1>2
  <2>2. state' \in [Children -> {"none", "running", "zombie", "reaped"}]
    BY <1>1, <1>2
  <2>3. holders' \in [Conns -> SUBSET Procs]
    BY <1>1, <1>2, <1>3
  <2>4. reply' \in [Conns -> {"none", "error", "static", "head", "dynamic", "echo"}]
    BY <1>1 DEF TInv, TypeOK
  <2> QED
    BY <1>1, <2>1, <2>2, <2>3, <2>4 DEF TInv, TypeOK, Worker, Server
<1>7. state[Cgi(c)] = "none"
  BY <1>1 DEF TInv, Fresh, Early
<1>8. Fresh'
  <2> SUFFICES ASSUME NEW d \in Conns, at'[d] \in Early PROVE state'[Cgi(d)] = "none"
    BY DEF Fresh, Cgi
  <2>1. d # c
    BY <1>4 DEF Early
  <2>2. Cgi(d) # Cgi(c) /\ Cgi(d) \in Children
    BY <2>1, Names
  <2> QED
    BY <1>4, <2>1, <2>2 DEF TInv, Fresh
<1>9. Kind'
  <2>1. \A d \in Conns : at'[d] = "wait" => me.waits
    BY <1>4 DEF TInv, Kind
  <2>2. \A d \in Conns : state'[Worker(d)] = state[Worker(d)]
    BY <1>4, Names
  <2> QED
    BY <1>1, <1>5, <2>1, <2>2 DEF TInv, Kind, Worker
<1>10. OneAtATime'
  <2>1. \A d \in Conns : at'[d] \in Active => at[d] \in Active
    BY <1>1, <1>4 DEF Active
  <2> QED
    BY <1>5, <2>1 DEF TInv, OneAtATime
<1>11. Held'
  <2> SUFFICES ASSUME me.runs # "thread", NEW d \in Conns
               PROVE  /\ holders'[d] \subseteq {Proc(d), Cgi(d)}
                      /\ Proc(d) \in holders'[d] => at'[d] \in Active
                      /\ Cgi(d) \in holders'[d] => state'[Cgi(d)] = "running"
    BY <1>5 DEF Held, Cgi
  <2>1. /\ holders[d] \subseteq {Proc(d), Cgi(d)}
        /\ Proc(d) \in holders[d] => at[d] \in Active
        /\ Cgi(d) \in holders[d] => state[Cgi(d)] = "running"
    BY DEF TInv, Held
  <2>2. Proc(d) # Cgi(c)
    BY ProcIs, Names
  <2>3. CASE d = c
    BY <1>1, <1>2, <1>4, <2>1, <2>2, <2>3 DEF Active
  <2>4. CASE d # c
    <3>1. Proc(c) \notin holders[d]
      <4>1. CASE Proc(c) = Server
        <5>1. Iterative
          BY <1>2, <4>1, Kinds, ProcIs, Names DEF Iterative
        <5>2. Proc(d) = Server /\ at[c] \in Active
          BY <1>1, <4>1, <5>1, ProcIs DEF Iterative, Active
        <5> QED
          BY <2>1, <2>4, <4>1, <5>1, <5>2 DEF TInv, OneAtATime
      <4>2. CASE Proc(c) # Server
        BY <2>1, <2>4, <4>2, ProcIs, Names
      <4> QED
        BY <4>1, <4>2
    <3>2. holders'[d] = holders[d] /\ at'[d] = at[d]
      BY <1>1, <1>4, <2>4, <3>1
    <3>3. Cgi(d) # Cgi(c) /\ Cgi(d) \in Children
      BY <2>4, Names
    <3> QED
      BY <1>4, <2>1, <3>2, <3>3
  <2> QED
    BY <2>3, <2>4
<1>12. WaitsMatchChildren'
  <2> SUFFICES ASSUME me.waits, me.handler = "none"
               PROVE  Cardinality({d \in Conns : at'[d] = "wait"}) = Cardinality(Unreaped(Server)')
    BY <1>5 DEF WaitsMatchChildren
  <2> DEFINE W == {d \in Conns : at[d] = "wait"}
             U == Unreaped(Server)
  <2>1. Cardinality(W) = Cardinality(U)
    BY DEF TInv, WaitsMatchChildren
  <2>2. {d \in Conns : at'[d] = "wait"} = W \cup {c} /\ c \notin W
    BY <1>1, <1>4
  <2>3. Parent(Cgi(c)) = Server
    BY <1>2, Kinds, ProcIs, Names
  <2>4. Unreaped(Server)' = U \cup {Cgi(c)} /\ Cgi(c) \notin U
    <3>1. Server' = Server /\ \A q : Parent(q)' = Parent(q)
      BY <1>1, SameServer DEF Server
    <3>2. \A q : q \in Unreaped(Server)'
                   <=> q \in Children /\ Parent(q) = Server /\ state'[q] \in {"running", "zombie"}
      BY <3>1 DEF Unreaped
    <3>3. \A q : q \in U
                   <=> q \in Children /\ Parent(q) = Server /\ state[q] \in {"running", "zombie"}
      BY DEF Unreaped
    <3> QED
      BY <1>3, <1>4, <1>7, <2>3, <3>2, <3>3
  <2>5. IsFiniteSet(W) /\ IsFiniteSet(U)
    BY FiniteOnes
  <2> HIDE DEF W, U
  <2>6. /\ Cardinality(W \cup {c}) = Cardinality(W) + 1
        /\ Cardinality(U \cup {Cgi(c)}) = Cardinality(U) + 1
    BY <2>2, <2>4, <2>5, FS_AddElement
  <2> QED
    BY <2>1, <2>2, <2>4, <2>6
<1>13. EndsOnlyBy'
  <2>1. \A d \in Conns : exited /\ (at[d] = "none" \/ Proc(d) = Server) => at'[d] = at[d]
    <3>1. exited => Proc(c) # Server
      BY <1>1 DEF Runs
    <3> QED
      BY <1>1, <1>4, <3>1
  <2> QED
    BY <1>1, <2>1, EndsKept
<1> QED
  BY <1>6, <1>8, <1>9, <1>10, <1>11, <1>12, <1>13 DEF TInv

-----------------------------------------------------------------------------
(* The rest of doit *)

(* Where the server waits and nothing else reaps, Wait does not fail. *)
LEMMA ChildToWaitFor ==
    ASSUME TInv, NEW c \in Conns, at[c] = "wait", me.handler = "none"
    PROVE  Unreaped(Server) # {}
<1>1. me.waits
  BY DEF TInv, Kind
<1>2. Cardinality({d \in Conns : at[d] = "wait"}) = Cardinality(Unreaped(Server))
  BY <1>1 DEF TInv, WaitsMatchChildren
<1>3. Cardinality({d \in Conns : at[d] = "wait"}) # 0
  BY FiniteOnes, FS_EmptySet
<1> QED
  BY <1>2, <1>3, FS_EmptySet

(* exit() ends the server only when a call for a client failed or Wait had no  *)
(* child, else a worker of tiny1235.                                           *)
LEMMA Exits ==
    ASSUME TInv, NEW c \in Conns, Runs(Proc(c)), Exit(c), at[c] \in Active,
           UNCHANGED <<variant, request, reply, handling>>,
           failed \subseteq failed', failed' \subseteq Conns,
           Proc(c) = Server => c \in failed' \/ (at[c] = "wait" /\ Unreaped(Server) = {})
    PROVE  TInv'
<1>1. /\ at \in [Conns -> Places]
      /\ state \in [Children -> {"none", "running", "zombie", "reaped"}]
      /\ holders \in [Conns -> SUBSET Procs] /\ variant \in Variants
      /\ pending \subseteq {Server} \cup {Worker(d) : d \in Conns}
  BY DEF TInv, TypeOK
<1>2. me' = me /\ Handles' = Handles /\ Iterative' = Iterative /\ \A d : Proc(d)' = Proc(d)
  BY SameServer
<1>3. CASE Proc(c) = Server
  <2>1. /\ exited' = TRUE /\ UNCHANGED <<at, state, pending>>
        /\ holders' = [d \in Conns |-> holders[d] \ {Server}]
    BY <1>3 DEF Exit
  <2>2. \A d \in Conns : holders'[d] \subseteq holders[d]
    BY <1>1, <2>1
  <2>3. TypeOK'
    <3>1. holders' \in [Conns -> SUBSET Procs]
      BY <1>1, <2>1
    <3> QED
      BY <2>1, <3>1 DEF TInv, TypeOK, Worker, Server
  <2>4. Fresh' /\ Kind' /\ OneAtATime'
    BY <1>2, <2>1 DEF TInv, Fresh, Kind, OneAtATime, Worker, Cgi
  <2>5. Held'
    BY <1>2, <2>1, <2>2 DEF TInv, Held, Cgi
  <2>6. WaitsMatchChildren'
    BY <2>1, MatchKept
  <2>7. me.runs # "process"
    BY <1>3, ProcIs, Names
  <2>8. EndsOnlyBy'
    <3>1. CASE c \in failed'
      BY <1>2, <2>7, <3>1 DEF EndsOnlyBy
    <3>2. CASE at[c] = "wait" /\ Unreaped(Server) = {}
      <4>1. me.handler # "none"
        BY <3>2, ChildToWaitFor
      <4>2. me.waits
        BY <3>2 DEF TInv, Kind
      <4>3. variant \in {"tiny118", "tiny1113"}
        BY <1>1, <2>7, <4>1, <4>2, Kinds
      <4> QED
        BY <2>1, <3>2, <4>3 DEF EndsOnlyBy
    <3> QED
      BY <1>3, <3>1, <3>2
  <2> QED
    BY <2>3, <2>4, <2>5, <2>6, <2>8 DEF TInv
<1>4. CASE Proc(c) # Server
  <2>1. me.runs = "process" /\ Proc(c) = Worker(c) /\ me.handler = "ended" /\ Handles
    BY <1>1, <1>4, Kinds, ProcIs DEF Handles
  <2>2. /\ state' = [state EXCEPT ![Worker(c)] = IF Ignores THEN "reaped" ELSE "zombie"]
        /\ holders' = [d \in Conns |-> holders[d] \ {Worker(c)}]
        /\ pending' = pending \cup {Server}
        /\ at' = [at EXCEPT ![c] = "done"] /\ exited' = exited
    BY <1>4, <2>1, Names DEF Exit, ChildEnds
  <2>3. /\ at'[c] = "done" /\ \A d \in Conns \ {c} : at'[d] = at[d]
        /\ \A d \in Conns : state'[Cgi(d)] = state[Cgi(d)]
        /\ \A d \in Conns : holders'[d] = holders[d] \ {Worker(c)}
    BY <1>1, <2>2, Names
  <2>4. TypeOK'
    <3>1. at' \in [Conns -> Places]
      BY <1>1, <2>2
    <3>2. state' \in [Children -> {"none", "running", "zombie", "reaped"}]
      BY <1>1, <2>2
    <3>3. holders' \in [Conns -> SUBSET Procs]
      BY <1>1, <2>2
    <3> QED
      BY <1>1, <2>2, <3>1, <3>2, <3>3 DEF TInv, TypeOK, Worker, Server
  <2>5. Fresh'
    <3>1. \A d \in Conns : at'[d] \in Early => at[d] \in Early
      BY <2>3 DEF Early
    <3> QED
      BY <2>3, <3>1 DEF TInv, Fresh, Cgi
  <2>6. Kind'
    BY <1>2, <2>1, <2>3 DEF TInv, Kind
  <2>7. OneAtATime'
    BY <1>2, <2>1 DEF OneAtATime, Iterative
  <2>8. Held'
    <3> SUFFICES ASSUME NEW d \in Conns
                 PROVE  /\ holders'[d] \subseteq {Proc(d), Cgi(d)}
                        /\ Proc(d) \in holders'[d] => at'[d] \in Active
                        /\ Cgi(d) \in holders'[d] => state'[Cgi(d)] = "running"
      BY <1>2 DEF Held, Cgi
    <3>1. /\ holders[d] \subseteq {Proc(d), Cgi(d)}
          /\ Proc(d) \in holders[d] => at[d] \in Active
          /\ Cgi(d) \in holders[d] => state[Cgi(d)] = "running"
      BY <2>1 DEF TInv, Held
    <3> QED
      BY <2>1, <2>3, <3>1
  <2>9. WaitsMatchChildren'
    BY <1>2, <2>1 DEF WaitsMatchChildren
  <2>10. EndsOnlyBy'
    <3>1. \A d \in Conns : exited /\ (at[d] = "none" \/ Proc(d) = Server) => at'[d] = at[d]
      BY <1>4, <2>3 DEF Active
    <3> QED
      BY <2>2, <3>1, EndsKept
  <2> QED
    BY <2>4, <2>5, <2>6, <2>7, <2>8, <2>9, <2>10 DEF TInv
<1> QED
  BY <1>3, <1>4

(* A failed call, a failed Wait, and the end of a worker. *)
LEMMA ExitStep ==
    ASSUME TInv, NEW c \in Conns, IOError(c) \/ CallFails(c) \/ WaitFails(c) \/ CloseExit(c)
    PROVE  TInv'
<1>1. failed \subseteq Conns
  BY DEF TInv, TypeOK
<1>2. CASE IOError(c)
  BY <1>1, <1>2, Exits DEF IOError, client, Active
<1>3. CASE CallFails(c)
  BY <1>1, <1>3, Exits DEF CallFails, Active
<1>4. CASE WaitFails(c)
  BY <1>1, <1>4, Exits DEF WaitFails, client, Active
<1>5. CASE CloseExit(c)
  BY <1>1, <1>5, Exits DEF CloseExit, client, Active
<1> QED
  BY <1>2, <1>3, <1>4, <1>5

(* Reaping a zombie disturbs nobody that runs or has not started. *)
LEMMA Reaping ==
    ASSUME TInv, NEW p, NEW q \in Zombies(p), state' = [state EXCEPT ![q] = "reaped"],
           UNCHANGED <<variant, holders, pending, handling>>,
           \A d \in Conns : /\ at'[d] \in Early => at[d] \in Early
                            /\ at'[d] \in Active <=> at[d] \in Active
                            /\ at'[d] = "wait" => at[d] = "wait"
    PROVE  /\ state' \in [Children -> {"none", "running", "zombie", "reaped"}]
           /\ Fresh' /\ Kind' /\ OneAtATime' /\ Held'
<1>1. q \in Children /\ state[q] = "zombie"
  BY DEF Zombies, Unreaped
<1>2. state \in [Children -> {"none", "running", "zombie", "reaped"}]
  BY DEF TInv, TypeOK
<1>3. /\ state' \in [Children -> {"none", "running", "zombie", "reaped"}]
      /\ \A r \in Children : state[r] \in {"none", "running"} => state'[r] = state[r]
  BY <1>1, <1>2
<1>4. me' = me /\ Handles' = Handles /\ Iterative' = Iterative /\ \A d : Proc(d)' = Proc(d)
  BY SameServer
<1>5. \A d \in Conns : Worker(d) \in Children /\ Cgi(d) \in Children
  BY Names
<1>6. Fresh'
  BY <1>3, <1>5 DEF TInv, Fresh, Cgi
<1>7. Kind'
  BY <1>3, <1>4, <1>5 DEF TInv, Kind, Worker
<1>8. OneAtATime'
  BY <1>4 DEF TInv, OneAtATime
<1>9. Held'
  BY <1>3, <1>4, <1>5 DEF TInv, Held, Cgi
<1> QED
  BY <1>3, <1>6, <1>7, <1>8, <1>9

(* Wait: one thread less that waits and one child less. *)
LEMMA WaitStep == ASSUME TInv, NEW c \in Conns, WaitReaps(c) PROVE TInv'
<1>1. PICK q \in Zombies(Proc(c)) : state' = [state EXCEPT ![q] = "reaped"]
  BY DEF WaitReaps
<1>2. /\ UNCHANGED <<variant, request, failed, reply, holders, pending, handling, exited>>
      /\ at' = [at EXCEPT ![c] = "close"] /\ at[c] = "wait" /\ Runs(Proc(c))
  BY DEF WaitReaps, Step, Advance, client
<1>3. /\ at \in [Conns -> Places]
      /\ state \in [Children -> {"none", "running", "zombie", "reaped"}] /\ variant \in Variants
  BY DEF TInv, TypeOK
<1>4. at'[c] = "close" /\ \A d \in Conns \ {c} : at'[d] = at[d]
  BY <1>2, <1>3
<1>5. \A d \in Conns : /\ at'[d] \in Early => at[d] \in Early
                       /\ at'[d] \in Active <=> at[d] \in Active
                       /\ at'[d] = "wait" => at[d] = "wait"
  BY <1>2, <1>4 DEF Early, Active
<1>6. /\ state' \in [Children -> {"none", "running", "zombie", "reaped"}]
      /\ Fresh' /\ Kind' /\ OneAtATime' /\ Held'
  BY <1>1, <1>2, <1>5, Reaping
<1>7. TypeOK'
  <2>1. at' \in [Conns -> Places]
    BY <1>2, <1>3
  <2> QED
    BY <1>2, <1>6, <2>1 DEF TInv, TypeOK, Worker, Server
<1>8. WaitsMatchChildren'
  <2>1. me' = me
    BY <1>2, SameServer
  <2> SUFFICES ASSUME me.waits, me.handler = "none"
               PROVE  Cardinality({d \in Conns : at'[d] = "wait"}) = Cardinality(Unreaped(Server)')
    BY <2>1 DEF WaitsMatchChildren
  <2> DEFINE W == {d \in Conns : at[d] = "wait"}
             U == Unreaped(Server)
  <2>2. Cardinality(W) = Cardinality(U)
    BY DEF TInv, WaitsMatchChildren
  <2>3. {d \in Conns : at'[d] = "wait"} = W \ {c} /\ c \in W
    BY <1>2, <1>4
  <2>4. Proc(c) = Server
    BY <1>3, Kinds, ProcIs
  <2>5. Unreaped(Server)' = U \ {q} /\ q \in U
    <3>1. Server' = Server /\ \A r : Parent(r)' = Parent(r)
      BY <1>2, SameServer DEF Server
    <3>2. \A r : r \in Unreaped(Server)'
                   <=> r \in Children /\ Parent(r) = Server /\ state'[r] \in {"running", "zombie"}
      BY <3>1 DEF Unreaped
    <3>3. \A r : r \in U
                   <=> r \in Children /\ Parent(r) = Server /\ state[r] \in {"running", "zombie"}
      BY DEF Unreaped
    <3>4. q \in U
      BY <2>4 DEF Zombies
    <3>5. q \in Children
      BY <3>3, <3>4
    <3> HIDE DEF U
    <3> QED
      BY <1>1, <1>3, <3>2, <3>3, <3>4, <3>5
  <2>6. IsFiniteSet(W) /\ IsFiniteSet(U)
    BY FiniteOnes
  <2> HIDE DEF W, U
  <2>7. /\ Cardinality(W \ {c}) = Cardinality(W) - 1
        /\ Cardinality(U \ {q}) = Cardinality(U) - 1
    BY <2>3, <2>5, <2>6, FS_RemoveElement
  <2> QED
    BY <2>2, <2>3, <2>5, <2>7
<1>9. EndsOnlyBy'
  <2>1. \A d \in Conns : exited /\ (at[d] = "none" \/ Proc(d) = Server) => at'[d] = at[d]
    <3>1. exited => Proc(c) # Server
      BY <1>2 DEF Runs
    <3> QED
      BY <1>2, <1>4, <3>1
  <2> QED
    BY <1>2, <2>1, EndsKept
<1> QED
  BY <1>6, <1>7, <1>8, <1>9 DEF TInv

(* main closes the connection. *)
LEMMA CloseStep == ASSUME TInv, NEW c \in Conns, Close(c) PROVE TInv'
<1>1. /\ UNCHANGED <<variant, request, failed, reply, state, pending, handling, exited>>
      /\ at' = [at EXCEPT ![c] = "done"] /\ at[c] = "close" /\ Runs(Proc(c)) /\ Proc(c) = Server
      /\ holders' = [holders EXCEPT ![c] = holders[c] \ {Server}]
  BY DEF Close, Step, Advance, client
<1>2. /\ at \in [Conns -> Places]
      /\ holders \in [Conns -> SUBSET Procs]
  BY DEF TInv, TypeOK
<1>3. /\ at'[c] = "done" /\ \A d \in Conns \ {c} : at'[d] = at[d]
      /\ holders'[c] = holders[c] \ {Server}
      /\ \A d \in Conns \ {c} : holders'[d] = holders[d]
  BY <1>1, <1>2
<1>4. me' = me /\ Handles' = Handles /\ Iterative' = Iterative /\ \A d : Proc(d)' = Proc(d)
  BY <1>1, SameServer
<1>5. TypeOK'
  <2>1. at' \in [Conns -> Places]
    BY <1>1, <1>2
  <2>2. holders' \in [Conns -> SUBSET Procs]
    BY <1>1, <1>2
  <2> QED
    BY <1>1, <2>1, <2>2 DEF TInv, TypeOK, Worker, Server
<1>6. \A d \in Conns : /\ at'[d] \in Early => at[d] \in Early
                       /\ at'[d] \in Active => at[d] \in Active
                       /\ at'[d] = "wait" <=> at[d] = "wait"
  BY <1>1, <1>3 DEF Early, Active
<1>7. Fresh' /\ Kind' /\ OneAtATime'
  BY <1>1, <1>4, <1>6 DEF TInv, Fresh, Kind, OneAtATime, Worker, Cgi
<1>8. Held'
  BY <1>1, <1>3, <1>4 DEF TInv, Held, Cgi
<1>9. WaitsMatchChildren'
  BY <1>1, <1>6, MatchKept
<1>10. EndsOnlyBy'
  <2>1. ~exited
    BY <1>1 DEF Runs
  <2> QED
    BY <1>1, <2>1 DEF EndsOnlyBy
<1> QED
  BY <1>5, <1>7, <1>8, <1>9, <1>10 DEF TInv

-----------------------------------------------------------------------------
(* CGI programs and signals *)

(* A CGI program ends: its descriptors are closed, it is still to be waited   *)
(* for unless SIGCHLD is ignored.                                             *)
LEMMA CgiStep == ASSUME TInv, NEW c \in Conns, CgiEnds(c) PROVE TInv'
<1>1. /\ UNCHANGED <<variant, request, failed, at, reply, handling, exited>>
      /\ state[Cgi(c)] = "running"
      /\ state' = [state EXCEPT ![Cgi(c)] = IF Ignores THEN "reaped" ELSE "zombie"]
      /\ holders' = [d \in Conns |-> holders[d] \ {Cgi(c)}]
      /\ pending' = IF Handles THEN pending \cup {Proc(c)} ELSE pending
  BY Names DEF CgiEnds, ChildEnds, client
<1>2. /\ state \in [Children -> {"none", "running", "zombie", "reaped"}]
      /\ holders \in [Conns -> SUBSET Procs]
      /\ pending \subseteq {Server} \cup {Worker(d) : d \in Conns}
  BY DEF TInv, TypeOK
<1>3. me' = me /\ Handles' = Handles /\ Iterative' = Iterative /\ \A d : Proc(d)' = Proc(d)
  BY <1>1, SameServer
<1>4. /\ state'[Cgi(c)] = IF Ignores THEN "reaped" ELSE "zombie"
      /\ \A q \in Children \ {Cgi(c)} : state'[q] = state[q]
      /\ \A d \in Conns : holders'[d] = holders[d] \ {Cgi(c)}
  BY <1>1, <1>2, Names
<1>5. TypeOK'
  <2>1. state' \in [Children -> {"none", "running", "zombie", "reaped"}]
    BY <1>1, <1>2
  <2>2. holders' \in [Conns -> SUBSET Procs]
    BY <1>1, <1>2
  <2>3. pending' \subseteq {Server} \cup {Worker(d) : d \in Conns}
    BY <1>1, <1>2, ProcIs
  <2> QED
    BY <1>1, <2>1, <2>2, <2>3 DEF TInv, TypeOK, Worker, Server
<1>6. Fresh'
  <2> SUFFICES ASSUME NEW d \in Conns, at[d] \in Early PROVE state'[Cgi(d)] = "none"
    BY <1>1 DEF Fresh, Cgi
  <2>1. state[Cgi(d)] = "none" /\ Cgi(d) \in Children
    BY Names DEF TInv, Fresh
  <2>2. Cgi(d) # Cgi(c)
    BY <1>1, <2>1
  <2> QED
    BY <1>4, <2>1, <2>2
<1>7. Kind'
  <2>1. \A d \in Conns : state'[Worker(d)] = state[Worker(d)]
    BY <1>4, Names
  <2> QED
    BY <1>1, <1>3, <2>1 DEF TInv, Kind, Worker
<1>8. OneAtATime'
  BY <1>1, <1>3 DEF TInv, OneAtATime
<1>9. Held'
  <2> SUFFICES ASSUME me.runs # "thread", NEW d \in Conns
               PROVE  /\ holders'[d] \subseteq {Proc(d), Cgi(d)}
                      /\ Proc(d) \in holders'[d] => at[d] \in Active
                      /\ Cgi(d) \in holders'[d] => state'[Cgi(d)] = "running"
    BY <1>1, <1>3 DEF Held, Cgi
  <2>1. /\ holders[d] \subseteq {Proc(d), Cgi(d)}
        /\ Proc(d) \in holders[d] => at[d] \in Active
        /\ Cgi(d) \in holders[d] => state[Cgi(d)] = "running"
    BY DEF TInv, Held
  <2>2. Cgi(d) \in Children
    BY Names
  <2> QED
    BY <1>4, <2>1, <2>2
<1>10. WaitsMatchChildren'
  <2>1. me.handler = "none" => ~Ignores
    BY DEF Ignores
  <2>2. me.handler = "none" => \A q \in Children : state'[q] \in {"running", "zombie"}
                                                     <=> state[q] \in {"running", "zombie"}
    BY <1>1, <1>4, <2>1
  <2> QED
    BY <1>1, <2>2, MatchKept
<1>11. EndsOnlyBy'
  BY <1>1, EndsKept
<1> QED
  BY <1>5, <1>6, <1>7, <1>8, <1>9, <1>10, <1>11 DEF TInv

(* A step of a handler's control changes nothing else. *)
LEMMA HandlerStep ==
    ASSUME TInv, NEW p \in Procs, HandlerStarts(p) \/ HandlerReturns(p) PROVE TInv'
<1>1. /\ UNCHANGED <<variant, request, failed, at, reply, state, holders, exited>>
      /\ pending' \subseteq pending /\ handling' \subseteq handling \cup pending
  BY DEF HandlerStarts, HandlerReturns, client
<1>2. me' = me /\ Handles' = Handles /\ Iterative' = Iterative /\ \A d : Proc(d)' = Proc(d)
  BY <1>1, SameServer
<1>3. TypeOK'
  BY <1>1 DEF TInv, TypeOK, Worker, Server
<1>4. Fresh' /\ OneAtATime'
  BY <1>1, <1>2 DEF TInv, Fresh, OneAtATime, Cgi
<1>5. Kind'
  BY <1>1, <1>2 DEF TInv, Kind, Worker
<1>6. Held'
  BY <1>1, <1>2 DEF TInv, Held, Cgi
<1>7. WaitsMatchChildren' /\ EndsOnlyBy'
  BY <1>1, MatchKept, EndsKept
<1> QED
  BY <1>3, <1>4, <1>5, <1>6, <1>7 DEF TInv

(* A handler reaps only where one is installed. *)
LEMMA HandlerReapsStep == ASSUME TInv, NEW p \in Procs, HandlerReaps(p) PROVE TInv'
<1>1. PICK q \in Zombies(p) : state' = [state EXCEPT ![q] = "reaped"]
  BY DEF HandlerReaps
<1>2. /\ UNCHANGED <<variant, request, failed, at, reply, holders, pending, handling, exited>>
      /\ p \in handling
  BY DEF HandlerReaps, client
<1>3. /\ state' \in [Children -> {"none", "running", "zombie", "reaped"}]
      /\ Fresh' /\ Kind' /\ OneAtATime' /\ Held'
  BY <1>1, <1>2, Reaping
<1>4. TypeOK'
  BY <1>2, <1>3 DEF TInv, TypeOK, Worker, Server
<1>5. me.handler # "none"
  BY <1>2 DEF TInv, Kind, Handles
<1>6. WaitsMatchChildren' /\ EndsOnlyBy'
  BY <1>2, <1>5, MatchKept, EndsKept
<1> QED
  BY <1>3, <1>4, <1>6 DEF TInv

-----------------------------------------------------------------------------
(* main *)

(* accept, and the fork of tiny1235. *)
LEMMA AcceptStep == ASSUME TInv, NEW c \in Conns, Accept(c) \/ AcceptNoFork(c) PROVE TInv'
<1>1. /\ UNCHANGED <<variant, failed, reply, pending, handling, exited>>
      /\ ~exited /\ at[c] = "none"
      /\ Iterative => \A d \in Conns : at[d] \in {"none", "done"}
      /\ \E r \in Requests : request' = [request EXCEPT ![c] = r]
  BY DEF Accept, AcceptNoFork, Accepting, Idle, Runs
<1> DEFINE to == First
<1>0. to \in {"queued", "request"}
  BY DEF First
<1> HIDE DEF to
<1>2. \/ /\ at' = [at EXCEPT ![c] = to]
         /\ holders' = [holders EXCEPT ![c] = {Proc(c)}]
         /\ state' = IF Proc(c) = Server THEN state ELSE [state EXCEPT ![Worker(c)] = "running"]
      \/ at' = [at EXCEPT ![c] = "done"] /\ UNCHANGED <<state, holders>> /\ Proc(c) # Server
  BY DEF Accept, AcceptNoFork, to
<1>3. /\ at \in [Conns -> Places]
      /\ state \in [Children -> {"none", "running", "zombie", "reaped"}]
      /\ holders \in [Conns -> SUBSET Procs] /\ variant \in Variants
      /\ request \in [Conns -> Requests]
  BY DEF TInv, TypeOK
<1>4. me' = me /\ Handles' = Handles /\ Iterative' = Iterative /\ \A d : Proc(d)' = Proc(d)
  BY <1>1, SameServer
<1>5. /\ Proc(c) \in Procs
      /\ Proc(c) # Server => me.runs = "process" /\ me.handler = "ended"
  BY <1>3, Kinds, ProcIs
<1>6. /\ at'[c] \in {"queued", "request", "done"} /\ \A d \in Conns \ {c} : at'[d] = at[d]
      /\ \A d \in Conns \ {c} : holders'[d] = holders[d]
      /\ holders'[c] = holders[c] \/ (holders'[c] = {Proc(c)} /\ at'[c] \in Active)
      /\ \A d \in Conns : state'[Cgi(d)] = state[Cgi(d)]
      /\ Proc(c) = Server => state' = state
  BY <1>0, <1>2, <1>3, Names DEF Active
<1>7. TypeOK'
  <2>1. at' \in [Conns -> Places]
    BY <1>0, <1>2, <1>3
  <2>2. state' \in [Children -> {"none", "running", "zombie", "reaped"}]
    BY <1>2, <1>3
  <2>3. holders' \in [Conns -> SUBSET Procs]
    BY <1>2, <1>3, <1>5
  <2>4. request' \in [Conns -> Requests]
    BY <1>1, <1>3
  <2> QED
    BY <1>1, <2>1, <2>2, <2>3, <2>4 DEF TInv, TypeOK, Worker, Server
<1>8. Fresh'
  <2>1. \A d \in Conns : at'[d] \in Early => at[d] \in Early
    BY <1>1, <1>6 DEF Early
  <2> QED
    BY <1>6, <2>1 DEF TInv, Fresh, Cgi
<1>9. Kind'
  <2>1. \A d \in Conns : at'[d] = "wait" => at[d] = "wait"
    BY <1>6
  <2> QED
    BY <1>1, <1>4, <1>5, <1>6, <2>1 DEF TInv, Kind, Worker
<1>10. OneAtATime'
  <2> SUFFICES ASSUME Iterative, NEW d \in Conns, NEW e \in Conns,
                      at'[d] \in Active, at'[e] \in Active
               PROVE  d = e
    BY <1>4 DEF OneAtATime
  <2>1. \A b \in Conns \ {c} : at'[b] \notin Active
    BY <1>1, <1>6 DEF Active
  <2> QED
    BY <2>1
<1>11. Held'
  <2> SUFFICES ASSUME me.runs # "thread", NEW d \in Conns
               PROVE  /\ holders'[d] \subseteq {Proc(d), Cgi(d)}
                      /\ Proc(d) \in holders'[d] => at'[d] \in Active
                      /\ Cgi(d) \in holders'[d] => state'[Cgi(d)] = "running"
    BY <1>4 DEF Held, Cgi
  <2>1. /\ holders[d] \subseteq {Proc(d), Cgi(d)}
        /\ Proc(d) \in holders[d] => at[d] \in Active
        /\ Cgi(d) \in holders[d] => state[Cgi(d)] = "running"
    BY DEF TInv, Held
  <2>2. Proc(d) # Cgi(d)
    BY ProcIs, Names
  <2>3. at[c] \notin Active
    BY <1>1 DEF Active
  <2>4. {"queued", "request"} \subseteq Active
    BY DEF Active
  <2>5. CASE d = c
    BY <1>6, <2>1, <2>2, <2>3, <2>4, <2>5
  <2>6. CASE d # c
    BY <1>6, <2>1, <2>6
  <2> QED
    BY <2>5, <2>6
<1>12. WaitsMatchChildren'
  <2>1. \A d \in Conns : at'[d] = "wait" <=> at[d] = "wait"
    BY <1>1, <1>6
  <2> QED
    BY <1>1, <1>5, <1>6, <2>1, MatchKept
<1>13. EndsOnlyBy'
  BY <1>1 DEF EndsOnlyBy
<1> QED
  BY <1>7, <1>8, <1>9, <1>10, <1>11, <1>12, <1>13 DEF TInv

(* A failing accept ends the server, or the thread's first read will. *)
LEMMA AcceptFailsStep == ASSUME TInv, NEW c \in Conns, AcceptFails(c) PROVE TInv'
<1>1. /\ UNCHANGED <<variant, request, reply, state, pending, handling>>
      /\ ~exited /\ at[c] = "none" /\ failed' = failed \cup {c}
  BY DEF AcceptFails, Idle, Runs
<1>2. /\ at \in [Conns -> Places]
      /\ holders \in [Conns -> SUBSET Procs] /\ failed \subseteq Conns
  BY DEF TInv, TypeOK
<1>3. me' = me /\ Handles' = Handles /\ Iterative' = Iterative /\ \A d : Proc(d)' = Proc(d)
  BY <1>1, SameServer
<1>4. CASE me.runs = "thread"
  <2>1. at' = [at EXCEPT ![c] = "queued"] /\ UNCHANGED <<holders, exited>>
    BY <1>4 DEF AcceptFails, First
  <2>2. at'[c] = "queued" /\ \A d \in Conns \ {c} : at'[d] = at[d]
    BY <1>2, <2>1
  <2>3. at' \in [Conns -> Places]
    BY <1>2, <2>1
  <2>4. TypeOK'
    BY <1>1, <1>2, <2>1, <2>3 DEF TInv, TypeOK, Worker, Server
  <2>5. \A d \in Conns : /\ at'[d] \in Early => at[d] \in Early
                         /\ at'[d] = "wait" <=> at[d] = "wait"
    BY <1>1, <2>2 DEF Early
  <2>6. Fresh' /\ Kind'
    BY <1>1, <1>3, <2>5 DEF TInv, Fresh, Kind, Worker, Cgi
  <2>7. OneAtATime' /\ Held'
    BY <1>3, <1>4 DEF OneAtATime, Iterative, Held
  <2>8. WaitsMatchChildren'
    BY <1>1, <2>5, MatchKept
  <2>9. EndsOnlyBy'
    BY <1>1, <2>1 DEF EndsOnlyBy
  <2> QED
    BY <2>4, <2>6, <2>7, <2>8, <2>9 DEF TInv
<1>5. CASE me.runs # "thread"
  <2>1. exited' = TRUE /\ at' = at /\ holders' = [d \in Conns |-> holders[d] \ {Server}]
    BY <1>5 DEF AcceptFails
  <2>2. \A d \in Conns : holders'[d] \subseteq holders[d]
    BY <1>2, <2>1
  <2>3. holders' \in [Conns -> SUBSET Procs]
    BY <1>2, <2>1
  <2>4. TypeOK'
    BY <1>1, <1>2, <2>1, <2>3 DEF TInv, TypeOK, Worker, Server
  <2>5. Fresh' /\ Kind' /\ OneAtATime'
    BY <1>1, <1>3, <2>1 DEF TInv, Fresh, Kind, OneAtATime, Worker, Cgi
  <2>6. Held'
    BY <1>1, <1>3, <2>1, <2>2 DEF TInv, Held, Cgi
  <2>7. WaitsMatchChildren'
    BY <1>1, <2>1, MatchKept
  <2>8. EndsOnlyBy'
    BY <1>1, <2>1 DEF EndsOnlyBy
  <2> QED
    BY <2>4, <2>5, <2>6, <2>7, <2>8 DEF TInv
<1> QED
  BY <1>4, <1>5

(* A reset by the client, and a stuttering step. *)
LEMMA ResetStep == ASSUME TInv, (\E c \in Conns : Reset(c)) \/ UNCHANGED vars PROVE TInv'
<1>1. /\ UNCHANGED <<variant, request, at, reply, state, holders, pending, handling, exited>>
      /\ failed \subseteq failed' /\ failed' \subseteq Conns
  BY DEF Reset, vars, client, TInv, TypeOK
<1>2. me' = me /\ Handles' = Handles /\ Iterative' = Iterative /\ \A d : Proc(d)' = Proc(d)
  BY <1>1, SameServer
<1>3. TypeOK'
  BY <1>1 DEF TInv, TypeOK, Worker, Server
<1>4. Fresh' /\ Kind' /\ OneAtATime'
  BY <1>1, <1>2 DEF TInv, Fresh, Kind, OneAtATime, Worker, Cgi
<1>5. Held'
  BY <1>1, <1>2 DEF TInv, Held, Cgi
<1>6. WaitsMatchChildren' /\ EndsOnlyBy'
  BY <1>1, MatchKept, EndsKept
<1> QED
  BY <1>3, <1>4, <1>5, <1>6 DEF TInv

-----------------------------------------------------------------------------
(* THE THEOREMS *)

(* Nothing runs and nothing is open at first. *)
LEMMA InitTInv == Init => TInv
<1> SUFFICES ASSUME Init PROVE TInv
  OBVIOUS
<1>1. TypeOK
  <2>1. NoRequestYet \in Requests
    BY DEF NoRequestYet, Requests
  <2> QED
    BY <2>1 DEF Init, TypeOK
<1>2. \A q \in Children : state[q] = "none"
  BY DEF Init
<1>3. Fresh /\ Kind /\ OneAtATime /\ Held
  BY <1>2, Names DEF Init, Fresh, Kind, OneAtATime, Held, Active
<1>4. WaitsMatchChildren
  <2>1. {c \in Conns : at[c] = "wait"} = {}
    BY DEF Init
  <2>2. Unreaped(Server) = {}
    BY <1>2 DEF Unreaped
  <2> QED
    BY <2>1, <2>2 DEF WaitsMatchChildren
<1>5. EndsOnlyBy
  BY DEF Init, EndsOnlyBy
<1> QED
  BY <1>1, <1>3, <1>4, <1>5 DEF TInv

(* The inductive invariant: who runs, waits and holds which descriptor, for     *)
(* any connections, whatever fails, ends or is signalled in whatever order.     *)
THEOREM TinyInvariance == Spec => []TInv
<1>1. TInv /\ [Next]_vars => TInv'
  BY AnswerStep, DynamicStep, ExitStep, WaitStep, CloseStep, CgiStep, HandlerStep,
     HandlerReapsStep, AcceptStep, AcceptFailsStep, ResetStep DEF Next, Doit, Signal
<1> QED
  BY <1>1, InitTInv, PTL DEF Spec

(* Only a failed call or reset of a client, or the Waits of tiny118 and         *)
(* tiny1113, end a server; tiny1235's only a failed accept.                     *)
THEOREM EndsNoOtherWay == Spec => []EndsOnlyBy
BY TinyInvariance, PTL DEF TInv

(* Where nothing but Wait reaps, there is a child for every thread that waits. *)
THEOREM WaitsMatched == Spec => []WaitsMatchChildren
BY TinyInvariance, PTL DEF TInv

(* No process keeps the connection of a finished request open once its program *)
(* has ended, except in the server with threads.                               *)
THEOREM EndsAreSeen == Spec => []EndSeen
<1>1. TInv => EndSeen
  <2> SUFFICES ASSUME TInv, NEW c \in Conns, me.runs # "thread", at[c] = "done",
                      state[Cgi(c)] # "running"
               PROVE  holders[c] = {}
    BY DEF EndSeen
  <2>1. /\ holders[c] \subseteq {Proc(c), Cgi(c)}
        /\ Proc(c) \in holders[c] => at[c] \in Active
        /\ Cgi(c) \in holders[c] => state[Cgi(c)] = "running"
    BY DEF TInv, Held
  <2> QED
    BY <2>1 DEF Active
<1> QED
  BY <1>1, TinyInvariance, PTL

-----------------------------------------------------------------------------
(* The four versions of tfgets *)

(* The buffer holds no more than was typed; before the call nothing runs. *)
NoMoreThanTyped == /\ buf = "line" => input = "line"
                   /\ buf = "part" => input \notin {"none", "end"}
                   /\ pc = "start" => clock = "off" /\ answer = "none"

(* Only getsProc1233 has threads.  Once its reader has fgets' result, that is *)
(* in res and stays true of the buffer, and the program's flag says so.       *)
ReaderAgrees ==
    /\ reader # "none" \/ pc \in {"create", "spin", "spinning", "switch"} => Is("getsProc1233")
    /\ pc \in {"start", "create"} => reader = "none"
    /\ reader \in {"res", "done"} =>
          \/ res = "str"  /\ (buf = "line" \/ (input = "last" /\ buf = "part"))
          \/ res = "NULL" /\ input = "end" /\ buf = "none"
    /\ timeout = 0 => reader = "done"
    /\ timeout = -1 => reader # "done"
    /\ timeout = 1 => Passed

(* The caller of getsProc1233 only spins, and stops for one of two reasons. *)
SpunEnough == Is("getsProc1233") =>
    /\ pc \notin {"signal", "setjmp", "fgets", "select"}
    /\ pc \in {"switch", "back", "exit"} => reader = "done" \/ Passed

IInv == GetsTypeOK /\ NoMoreThanTyped /\ ReaderAgrees /\ SpunEnough /\ Answers

USE DEF Is, Passed, Alive, Goes, FgetsEnds, Fgets, Typed, Copies, shared, fixed

LEMMA InitIInv == GetsInit => IInv
BY ProgramsAssumption DEF GetsInit, IInv, GetsTypeOK, NoMoreThanTyped, ReaderAgrees, SpunEnough, Answers

(* The user and the time leave a true answer true. *)
LEMMA OutsideStep ==
    ASSUME IInv, Type \/ TimePasses
    PROVE  IInv'
<1> USE DEF IInv, GetsTypeOK, NoMoreThanTyped, ReaderAgrees, SpunEnough, Answers
<1>1. CASE Type
  BY <1>1 DEF Type
<1>2. CASE TimePasses
  BY <1>2 DEF TimePasses
<1> QED
  BY <1>1, <1>2

(* fgets in the caller, and the jump out of it. *)
LEMMA FgetsStep ==
    ASSUME IInv, CallerCopies \/ CallerReturns \/ Leave \/ Handler
    PROVE  IInv'
<1> USE DEF IInv, GetsTypeOK, NoMoreThanTyped, ReaderAgrees, SpunEnough, Answers
<1>1. CASE CallerCopies
  BY <1>1 DEF CallerCopies
<1>2. CASE CallerReturns
  BY <1>2 DEF CallerReturns
<1>3. CASE Leave
  BY <1>3 DEF Leave
<1>4. CASE Handler
  BY <1>4 DEF Handler, Delivered
<1> QED
  BY <1>1, <1>2, <1>3, <1>4

(* The preparations of getsProc1231, ecf/fgets and getsProc1232. *)
LEMMA PrepareStep ==
    ASSUME IInv, Fork \/ Alarm \/ Install \/ SetJmp \/ CallSelect \/ SelectReady \/ SelectTimesOut
    PROVE  IInv'
<1> USE DEF IInv, GetsTypeOK, NoMoreThanTyped, ReaderAgrees, SpunEnough, Answers
<1>1. CASE Fork
  BY <1>1 DEF Fork
<1>2. CASE Alarm \/ Install \/ SetJmp
  BY <1>2 DEF Alarm, Install, SetJmp
<1>3. CASE CallSelect \/ SelectReady
  BY <1>3 DEF CallSelect, SelectReady
<1>4. CASE SelectTimesOut
  BY <1>4 DEF SelectTimesOut
<1> QED
  BY <1>1, <1>2, <1>3, <1>4

(* The caller of getsProc1233. *)
LEMMA SpinStep ==
    ASSUME IInv, CreateThread1 \/ CreateThread2 \/ SpinEnds \/ SpinForever \/ Switch
    PROVE  IInv'
<1> USE DEF IInv, GetsTypeOK, NoMoreThanTyped, ReaderAgrees, SpunEnough, Answers
<1>1. CASE CreateThread1
  BY <1>1 DEF CreateThread1
<1>2. CASE CreateThread2
  BY <1>2 DEF CreateThread2
<1>3. CASE SpinEnds
  BY <1>3 DEF SpinEnds
<1>4. CASE SpinForever
  BY <1>4 DEF SpinForever
<1>5. CASE Switch
  BY <1>5 DEF Switch
<1> QED
  BY <1>1, <1>2, <1>3, <1>4, <1>5

(* Its two threads. *)
LEMMA ThreadStep ==
    ASSUME IInv, Thread1 \/ Thread2
    PROVE  IInv'
<1> USE DEF IInv, GetsTypeOK, NoMoreThanTyped, ReaderAgrees, SpunEnough, Answers
<1>1. CASE Thread1
  BY <1>1 DEF Thread1
<1>2. CASE ReaderStarts
  BY <1>2 DEF ReaderStarts, Reader
<1>3. CASE ReaderCopies
  BY <1>3 DEF ReaderCopies, Reader
<1>4. CASE ReaderReturns
  BY <1>4 DEF ReaderReturns, Reader
<1>5. CASE ReaderSays
  BY <1>5 DEF ReaderSays, Reader
<1> QED
  BY <1>1, <1>2, <1>3, <1>4, <1>5 DEF Thread2

LEMMA StepIInv == IInv /\ [GetsNext]_getsVars => IInv'
<1> SUFFICES ASSUME IInv, [GetsNext]_getsVars PROVE IInv'
  OBVIOUS
<1>1. CASE GetsNext
  BY <1>1, OutsideStep, FgetsStep, PrepareStep, SpinStep, ThreadStep DEF GetsNext, Caller
<1>2. CASE UNCHANGED getsVars
  BY <1>2 DEF getsVars, IInv, GetsTypeOK, NoMoreThanTyped, ReaderAgrees, SpunEnough, Answers
<1> QED
  BY <1>1, <1>2

(* Only fgets writes the buffer, in the caller before it returns, or in the   *)
(* thread of getsProc1233 that the limit overtook.                            *)
LEMMA StepQuiet ==
    ASSUME IInv, [GetsNext]_getsVars, pc \in {"back", "exit"}, ~(Is("getsProc1233") /\ Passed)
    PROVE  UNCHANGED buf
<1>1. ~ReaderCopies
  BY DEF ReaderCopies, Reader, IInv, ReaderAgrees, SpunEnough
<1>2. ~CallerCopies
  BY DEF CallerCopies
<1>3. CASE UNCHANGED getsVars
  BY <1>3 DEF getsVars
<1>4. CASE Type \/ TimePasses \/ Handler \/ Thread1
  BY <1>4 DEF Type, TimePasses, Handler, Delivered, Thread1
<1>5. CASE Caller
  BY <1>2, <1>5 DEF Caller, CallerReturns, Leave, Fork, Alarm, Install, SetJmp, CallSelect,
       SelectReady, SelectTimesOut, CreateThread1, CreateThread2, SpinEnds, SpinForever, Switch
<1>6. CASE Thread2
  BY <1>1, <1>6 DEF Thread2, ReaderStarts, ReaderReturns, ReaderSays, Reader
<1> QED
  BY <1>3, <1>4, <1>5, <1>6 DEF GetsNext

-----------------------------------------------------------------------------
(* The records of the call, the clock and the reading thread agree. *)
THEOREM Invariance == GetsSpec => []IInv
<1> QED
  BY InitIInv, StepIInv, PTL DEF GetsSpec

(* Whatever comes first, the line or the limit: NULL is answered when the     *)
(* time has passed or the file has ended, the argument when it holds a line   *)
(* (getsProc1231.c:12-26 and its three variants).                             *)
THEOREM AnswersTrue == GetsSpec => []Answers
<1>1. IInv => Answers
  BY DEF IInv
<1> QED
  BY <1>1, Invariance, PTL

(* Nobody writes the buffer of a call that has returned, except thread2 of    *)
(* getsProc1233.c (line 20) once the time has passed.                         *)
THEOREM QuietAfter == GetsSpec => Quiet
<1>1. IInv /\ [GetsNext]_getsVars
        => [(pc \in {"back", "exit"} /\ ~(Is("getsProc1233") /\ Passed)) => UNCHANGED buf]_getsVars
  BY StepQuiet
<1> QED
  BY <1>1, Invariance, PTL DEF GetsSpec, Quiet
=============================================================================
