----------------------------- MODULE TimedGets -----------------------------
(***************************************************************************)
(* The four versions of tfgets, an fgets that gives up after five seconds: *)
(* getsProc1231 (a child process and SIGCHLD), getsProc1232 (select),      *)
(* getsProc1233 (two threads) and ecf/fgets (an alarm).  Each program      *)
(* calls it once, prints, and exits.  Of the input only its first line is  *)
(* kept: nothing, a part, all of it, the end of the file, or a part that   *)
(* the end of the file makes the last.                                     *)
(***************************************************************************)
EXTENDS Integers

CONSTANT Programs   \* the programs considered

ASSUME ProgramsAssumption ==
    Programs \subseteq {"getsProc1231", "getsProc1232", "getsProc1233", "fgets"}

VARIABLES
    program,   \* the program that runs
    input,     \* what has been typed
    usec,      \* timeout.tv_usec of getsProc1232, which nobody sets
    clock,     \* the five seconds: "off", "on", "passed", and told to the program
    pc,        \* where the caller is; "back" in main, "wild" after a jump to nowhere
    buf,       \* what is in the caller's buffer
    answer,    \* what tfgets returned
    res, timeout,   \* the globals of getsProc1233
    reader     \* where its thread2 is

shared == <<res, timeout, reader>>
fixed  == <<program, usec>>
getsVars   == <<fixed, input, clock, pc, buf, answer, shared>>

Is(p)  == program = p
Passed == clock \in {"passed", "told"}
(* The end of main, a deadly signal or a wild jump ends every thread. *)
Alive  == pc \notin {"exit", "killed", "wild"}
Goes(from, to) == pc = from /\ pc' = to

GetsInit == /\ program \in Programs
            /\ usec \in IF Is("getsProc1232") THEN {"normal", "huge", "negative"} ELSE {"normal"}
            /\ input = "none" /\ clock = "off" /\ pc = "start"
            /\ buf = "none" /\ answer = "none"
            /\ res = "NULL" /\ timeout = -1 /\ reader = "none"

-----------------------------------------------------------------------------
(* The user and the time *)

Type == /\ Alive
        /\ \/ input = "none" /\ input' \in {"part", "line", "end"}
           \/ input = "part" /\ input' \in {"line", "last"}
        /\ UNCHANGED <<fixed, clock, pc, buf, answer, shared>>

(* SIGALRM ends ecf/fgets when alarm() is ahead of signal() by that much. *)
TimePasses == /\ Alive /\ clock = "on" /\ clock' = "passed"
              /\ pc' = IF pc = "signal" THEN "killed" ELSE pc
              /\ UNCHANGED <<fixed, input, buf, answer, shared>>

-----------------------------------------------------------------------------
(* fgets copies bytes as they come; it ends with the line, or with the file.  *)
Typed     == IF input = "line" THEN "line" ELSE "part"
Copies    == /\ input \notin {"none", "end"} /\ buf # Typed
             /\ buf' = Typed
FgetsEnds == \/ buf = "line" \/ input = "end"
             \/ buf = "part" /\ input = "last"
Fgets     == IF buf = "none" THEN "NULL" ELSE "str"

CallerCopies  == /\ pc = "fgets" /\ Copies
                 /\ UNCHANGED <<fixed, input, clock, pc, answer, shared>>
(* ecf/fgets does not look at what fgets returns. *)
CallerReturns == /\ Goes("fgets", "back") /\ FgetsEnds
                 /\ answer' = IF Is("fgets") THEN "str" ELSE Fgets
                 /\ UNCHANGED <<fixed, input, clock, buf, shared>>
(* main prints and exits. *)
Leave == /\ Goes("back", "exit")
         /\ UNCHANGED <<fixed, input, clock, buf, answer, shared>>

-----------------------------------------------------------------------------
(* getsProc1231: Fork, sigsetjmp, fgets; the child exits after five seconds.  *)
(* ecf/fgets: alarm, signal, setjmp, fgets.                                   *)
Fork    == /\ Is("getsProc1231")
           /\ \/ Goes("start", "setjmp") /\ clock' = "on"
              \/ Goes("start", "exit") /\ UNCHANGED clock      \* it fails
           /\ UNCHANGED <<fixed, input, buf, answer, shared>>
Alarm   == /\ Is("fgets") /\ Goes("start", "signal") /\ clock' = "on"
           /\ UNCHANGED <<fixed, input, buf, answer, shared>>
Install == /\ Goes("signal", "setjmp")
           /\ UNCHANGED <<fixed, input, clock, buf, answer, shared>>
SetJmp  == /\ Goes("setjmp", "fgets")
           /\ UNCHANGED <<fixed, input, clock, buf, answer, shared>>

Delivered == /\ Alive /\ (Is("getsProc1231") \/ Is("fgets"))
             /\ clock = "passed" /\ clock' = "told"
             /\ UNCHANGED <<fixed, input, buf, shared>>
(* MUTANT: the handler returns, and fgets goes on. *)
HandlerResumes == Delivered /\ UNCHANGED <<pc, answer>>
(* After siglongjmp(buf, 0) sigsetjmp returns 1, and tfgets NULL.  In         *)
(* ecf/fgets setjmp returns 1 too, which is not 0, so that line 25 calls      *)
(* setjmp once more; this one returns 0, and tfgets its argument.  Before     *)
(* setjmp, and after tfgets has returned, there is no frame to jump to.       *)
Handler == /\ Delivered
           /\ IF pc = "fgets"
              THEN pc' = "back" /\ answer' = IF Is("fgets") THEN "str" ELSE "NULL"
              ELSE pc' = "wild" /\ UNCHANGED answer

-----------------------------------------------------------------------------
(* getsProc1232.  A tv_usec of garbage can stand for years, or be negative:   *)
(* select then fails and leaves the bit set.                                  *)
CallSelect     == /\ Is("getsProc1232") /\ Goes("start", "select") /\ clock' = "on"
                  /\ UNCHANGED <<fixed, input, buf, answer, shared>>
SelectReady    == /\ Goes("select", "fgets")
                  /\ input # "none" \/ usec = "negative"
                  /\ UNCHANGED <<fixed, input, clock, buf, answer, shared>>
SelectTimesOut == /\ Goes("select", "back")
                  /\ clock = "passed" /\ usec = "normal" /\ input = "none"
                  /\ clock' = "told" /\ answer' = "NULL"
                  /\ UNCHANGED <<fixed, input, buf, shared>>

-----------------------------------------------------------------------------
(* getsProc1233: thread1 sleeps, thread2 reads, the caller spins on timeout. *)
(* It does not look at the results of pthread_create: without thread1 there  *)
(* is no limit, without thread2 nobody reads.                                *)
CreateThread1 == /\ Is("getsProc1233") /\ Goes("start", "create")
                 /\ clock' \in {"on", "off"}
                 /\ UNCHANGED <<fixed, input, buf, answer, shared>>
CreateThread2 == /\ Goes("create", "spin") /\ reader' \in {"vars", "none"}
                 /\ UNCHANGED <<fixed, input, clock, buf, answer, res, timeout>>
SpinEndsAtOnce == /\ Goes("spin", "switch")   \* MUTANT: the loop is gone
                  /\ UNCHANGED <<fixed, input, clock, buf, answer, shared>>
SpinEnds    == /\ Goes("spin", "switch") /\ timeout # -1
               /\ UNCHANGED <<fixed, input, clock, buf, answer, shared>>
(* timeout is a plain int: a compiler may load it once for the whole loop. *)
SpinForever == /\ Goes("spin", "spinning") /\ timeout = -1
               /\ UNCHANGED <<fixed, input, clock, buf, answer, shared>>
Switch      == /\ Goes("switch", "back")
               /\ answer' = IF timeout = 0 THEN res ELSE "NULL"
               /\ UNCHANGED <<fixed, input, clock, buf, shared>>

Thread1 == /\ Alive /\ Is("getsProc1233") /\ clock = "passed"
           /\ clock' = "told" /\ timeout' = 1
           /\ UNCHANGED <<fixed, input, pc, buf, answer, res, reader>>

Reader(from, to) == /\ Alive /\ reader = from /\ reader' = to
                    /\ UNCHANGED <<fixed, input, clock, answer>>
(* The struct it copies is in the frame of tfgets. *)
ReaderStarts  == /\ Reader("vars", "fgets")
                 /\ pc' = IF pc = "back" THEN "wild" ELSE pc
                 /\ UNCHANGED <<buf, res, timeout>>
ReaderCopies  == /\ Reader("fgets", "fgets") /\ Copies
                 /\ UNCHANGED <<pc, res, timeout>>
(* MUTANT: what fgets returned is not stored. *)
ReaderForgets == /\ Reader("fgets", "res") /\ FgetsEnds
                 /\ UNCHANGED <<pc, buf, res, timeout>>
ReaderReturns == /\ Reader("fgets", "res") /\ FgetsEnds /\ res' = Fgets
                 /\ UNCHANGED <<pc, buf, timeout>>
ReaderSays    == /\ Reader("res", "done") /\ timeout' = 0
                 /\ UNCHANGED <<pc, buf, res>>

-----------------------------------------------------------------------------
Caller  == \/ CallerCopies \/ CallerReturns \/ Leave
           \/ Fork \/ Alarm \/ Install \/ SetJmp
           \/ CallSelect \/ SelectReady \/ SelectTimesOut
           \/ CreateThread1 \/ CreateThread2 \/ SpinEnds \/ SpinForever \/ Switch
Thread2 == ReaderStarts \/ ReaderCopies \/ ReaderReturns \/ ReaderSays

GetsNext == Type \/ TimePasses \/ Handler \/ Caller \/ Thread1 \/ Thread2

GetsSpec == GetsInit /\ [][GetsNext]_getsVars
(* Time passes and threads run; the user may never type. *)
FairGetsSpec == /\ GetsSpec
                /\ WF_getsVars(TimePasses) /\ WF_getsVars(Handler)
                /\ WF_getsVars(Caller) /\ WF_getsVars(Thread1) /\ WF_getsVars(Thread2)

-----------------------------------------------------------------------------
(* PROPERTIES *)

GetsTypeOK == /\ program \in Programs /\ usec \in {"normal", "huge", "negative"}
              /\ input \in {"none", "part", "line", "end", "last"}
              /\ clock \in {"off", "on", "passed", "told"}
              /\ pc \in {"start", "signal", "setjmp", "fgets", "select", "create", "spin",
                         "spinning", "switch", "back", "exit", "killed", "wild"}
              /\ buf \in {"none", "part", "line"}
              /\ answer \in {"none", "NULL", "str"} /\ res \in {"NULL", "str"}
              /\ timeout \in {-1, 0, 1}
              /\ reader \in {"none", "vars", "fgets", "res", "done"}

(* "times out after 5s" (getsProc1231.c:11): NULL means that the time has     *)
(* passed or the file has ended, the argument that it holds the line, or the  *)
(* file's last piece, however the limit and the line race.  (ecf/fgets        *)
(* returns its argument in any case.)                                         *)
Answers == /\ answer = "NULL" => Passed \/ (input = "end" /\ buf = "none")
           /\ answer = "str"  => \/ buf = "line" \/ (input = "last" /\ buf = "part")
                                 \/ Is("fgets") /\ (Passed \/ input = "end")

(* When tfgets has returned, the buffer is its caller's: nobody writes it,    *)
(* except thread2 of getsProc1233 when the time has passed.                   *)
Quiet == [][(pc \in {"back", "exit"} /\ ~(Is("getsProc1233") /\ Passed))
               => UNCHANGED buf]_getsVars

(* getsProc1232 waits without a limit for the rest of a line, or when tv_usec *)
(* is garbage; a hoisted load makes getsProc1233 spin.                        *)
Unlimited == \/ Is("getsProc1232") /\ (pc = "fgets" \/ usec # "normal")
             \/ pc = "spinning"

(* Once a call waits for its input, the end of the five seconds makes it      *)
(* return to its caller and never jump elsewhere, except where the limit does *)
(* not bind.  (In getsProc1233 that end is thread1's, if it could be created.) *)
InTime == (Passed /\ pc \in {"fgets", "select", "spin"})
              ~> (pc \in {"back", "exit"} \/ []Unlimited)
=============================================================================
