--------------------------- MODULE ReadersWriters ---------------------------
(***************************************************************************)
(* src/concurrent/reader_writer1219.c and reader_writer1221.c: one kind of *)
(* thread shares the critical section through a counter and a gate, the    *)
(* other takes the gate alone after a look at the counter.  In 1219 the    *)
(* readers share it and the writers are alone; 1221 is the same program    *)
(* with write() sharing and read() alone.                                  *)
(***************************************************************************)
EXTENDS Integers, FiniteSets

CONSTANTS Sharers,   \* threads in reader() of 1219 or write() of 1221
          Loners,    \* threads in writer() of 1219 or read() of 1221
          Programs   \* the programs considered

Limit == [reader_writer1219 |-> 1, reader_writer1221 |-> 0]

ASSUME ThreadsAssumption  == IsFiniteSet(Sharers) /\ Sharers \cap Loners = {}
ASSUME ProgramsAssumption == Programs \subseteq DOMAIN Limit

VARIABLES program,
          mutex,     \* protects cnt among the sharers
          gate,      \* w of 1219, r of 1221
          cnt,       \* readcnt of 1219, writecnt of 1221
          at         \* at[t]: the statement t is about to run

vars == <<program, mutex, gate, cnt, at>>

Threads == Sharers \cup Loners

Init == /\ program \in Programs
        /\ mutex = 1 /\ gate = 1 /\ cnt = 0
        /\ at = [t \in Threads |-> IF t \in Sharers THEN "lock" ELSE "look"]

Goes(t, from, to) == at[t] = from /\ at' = [at EXCEPT ![t] = to]
P(sem) == sem > 0 /\ sem' = sem - 1
V(sem) == sem' = sem + 1

-----------------------------------------------------------------------------
(* A sharer: in, "inside", and out.  cnt is written under mutex only, so its *)
(* increment and the test that follows are one step.                         *)
Lock(t)   == Goes(t, "lock", "count") /\ P(mutex) /\ UNCHANGED <<program, gate, cnt>>
Count(t)  == /\ Goes(t, "count", IF cnt + 1 = 1 THEN "shut" ELSE "unlock")
             /\ cnt' = cnt + 1
             /\ UNCHANGED <<program, mutex, gate>>
Shut(t)   == Goes(t, "shut", "unlock") /\ P(gate) /\ UNCHANGED <<program, mutex, cnt>>
Unlock(t) == Goes(t, "unlock", "inside") /\ V(mutex) /\ UNCHANGED <<program, gate, cnt>>

(* MUTANT: the counter is decremented without the lock. *)
RelockSkipped(t) ==
    Goes(t, "inside", "uncount") /\ UNCHANGED <<program, mutex, gate, cnt>>
Relock(t) == Goes(t, "inside", "uncount") /\ P(mutex) /\ UNCHANGED <<program, gate, cnt>>
Uncount(t) == /\ Goes(t, "uncount", IF cnt - 1 = 0 THEN "open" ELSE "release")
              /\ cnt' = cnt - 1
              /\ UNCHANGED <<program, mutex, gate>>
Open(t)    == Goes(t, "open", "release") /\ V(gate) /\ UNCHANGED <<program, mutex, cnt>>
Release(t) == Goes(t, "release", "lock") /\ V(mutex) /\ UNCHANGED <<program, gate, cnt>>

(* A loner looks at cnt without the lock.  It goes on, or looks again, which *)
(* changes nothing; or, as the loop writes cnt nowhere and a compiler may     *)
(* load it once, it spins for good.                                          *)
Look(t) == /\ \/ cnt <= Limit[program] /\ Goes(t, "look", "take")
              \/ cnt > Limit[program] /\ Goes(t, "look", "spin")
           /\ UNCHANGED <<program, mutex, gate, cnt>>
Take(t) == Goes(t, "take", "alone") /\ P(gate) /\ UNCHANGED <<program, mutex, cnt>>
(* MUTANT: the gate is kept from round to round, P and V being outside the loop. *)
GiveNever(t) == at[t] = "alone" /\ UNCHANGED vars
Give(t) == Goes(t, "alone", "look") /\ V(gate) /\ UNCHANGED <<program, mutex, cnt>>

Share(t) == \/ Lock(t) \/ Count(t) \/ Shut(t) \/ Unlock(t)
            \/ Relock(t) \/ Uncount(t) \/ Open(t) \/ Release(t)
Alone(t) == Look(t) \/ Take(t) \/ Give(t)

Next == \/ \E t \in Sharers : Share(t)
        \/ \E t \in Loners : Alone(t)

Spec == Init /\ [][Next]_vars

(* A thread that waits for no semaphore runs, and a semaphore that stays      *)
(* positive admits one of its waiters, whichever: in 1219 a writer that sees  *)
(* readcnt 1 may pass P(&w) time and again before the reader waiting there.   *)
Runs(t)  == \/ Count(t) \/ Unlock(t) \/ Uncount(t) \/ Open(t) \/ Release(t)
FairSpec == /\ Spec
            /\ \A t \in Sharers : WF_vars(Runs(t))
            /\ \A t \in Loners : WF_vars(Look(t) \/ Give(t))
            /\ WF_vars(\E t \in Sharers : Lock(t) \/ Relock(t))
            /\ WF_vars((\E t \in Sharers : Shut(t)) \/ (\E t \in Loners : Take(t)))

-----------------------------------------------------------------------------
(* PROPERTIES *)

TypeOK == /\ program \in Programs
          /\ mutex \in {0, 1} /\ gate \in {0, 1} /\ cnt \in Nat
          /\ at \in [Threads -> {"lock", "count", "shut", "unlock", "inside", "uncount",
                                 "open", "release", "look", "spin", "take", "alone"}]

Inside(t) == at[t] \in {"inside", "alone"}

(* Who is alone in the critical section is the only one in it, whatever the  *)
(* unlocked look at cnt has seen: the writers of 1219 exclude each other and *)
(* every reader.  (In 1221 it is read() that is alone; writers overlap.)     *)
Exclusion == \A t \in Loners, u \in Threads :
    at[t] = "alone" /\ Inside(u) => u = t

(* The threads never come to wait for each other, the first sharer for the    *)
(* gate with the mutex in its hand, the loners for the gate, the other        *)
(* sharers for the mutex: somebody enters again and again, and a sharer does  *)
(* when the loners keep away from the gate.  (Against loners that do not, a   *)
(* sharer has no guarantee.)                                                 *)
SomeoneEnters == \E t \in Threads : ~Inside(t) /\ Inside(t)'
SharerEnters  == \E t \in Sharers : ~Inside(t) /\ Inside(t)'
AwayFromGate  == \A t \in Loners : at[t] \in {"look", "spin"}
EntriesGoOn == /\ []<><<SomeoneEnters>>_vars
               /\ <>[]AwayFromGate => []<><<SharerEnters>>_vars
=============================================================================
