------------------------ MODULE ReadersWritersProofs -------------------------
(***************************************************************************)
(* Proof that who is alone in the critical section of ReadersWriters is    *)
(* alone, for any number of threads.                                       *)
(***************************************************************************)
EXTENDS ReadersWriters, FiniteSetTheorems, TLAPS

Locked  == {"count", "shut", "unlock", "uncount", "open", "release"}
Counted == {"shut", "unlock", "inside", "uncount"}

(* The sharers that cnt counts. *)
InAt(f) == {t \in Sharers : f[t] \in Counted}
In == InAt(at)

(* Sharers are in their loop, loners in theirs. *)
Kinds == /\ \A t \in Sharers : at[t] \in Locked \cup {"lock", "inside"}
         /\ \A t \in Loners : at[t] \in {"look", "spin", "take", "alone"}

(* mutex is held by one sharer at a time. *)
MutexHeld == /\ \A t, u \in Sharers : at[t] \in Locked /\ at[u] \in Locked => t = u
             /\ mutex = 1 <=> \A t \in Sharers : at[t] \notin Locked

(* cnt is exact, and 1 and 0 in the two tests that passed. *)
CntExact == /\ cnt = Cardinality(In)
            /\ \A t \in Sharers : (at[t] = "shut" => cnt = 1) /\ (at[t] = "open" => cnt = 0)

(* The sharers hold the gate, from P in the first to V in the last. *)
Shared == \/ \E t \in Sharers : at[t] = "open"
          \/ cnt > 0 /\ \A t \in Sharers : at[t] # "shut"

(* The gate is held by the sharers together or by one loner. *)
GateHeld == /\ \A t, u \in Loners : at[t] = "alone" /\ at[u] = "alone" => t = u
            /\ Shared => \A t \in Loners : at[t] # "alone"
            /\ gate = 1 <=> ~Shared /\ \A t \in Loners : at[t] # "alone"

IInv == TypeOK /\ Kinds /\ MutexHeld /\ CntExact /\ GateHeld

USE DEF Threads, Locked, Counted

LEMMA InitIInv == Init => IInv
<1> SUFFICES ASSUME Init PROVE IInv
  OBVIOUS
<1>1. \A t \in Sharers : at[t] = "lock"
  BY DEF Init
<1>2. \A t \in Loners : at[t] = "look"
  BY ThreadsAssumption DEF Init
<1>3. TypeOK /\ Kinds /\ MutexHeld
  BY <1>1, <1>2 DEF Init, TypeOK, Kinds, MutexHeld
<1>4. In = {}
  BY <1>1 DEF In, InAt
<1>5. CntExact /\ cnt = 0
  BY <1>1, <1>4, FS_EmptySet DEF Init, CntExact
<1>6. GateHeld
  BY <1>1, <1>2, <1>5 DEF Init, GateHeld, Shared
<1> QED
  BY <1>3, <1>5, <1>6 DEF IInv

(* A step of one thread from a statement to another. *)
LEMMA OneGoes ==
    ASSUME TypeOK, NEW t \in Threads, NEW from, NEW to, Goes(t, from, to)
    PROVE  /\ at[t] = from /\ at'[t] = to
           /\ \A u \in Threads : u # t => at'[u] = at[u]
  BY DEF TypeOK, Goes

(* How the set of counted sharers changes with a step of one of them. *)
LEMMA InChanges ==
    ASSUME IInv, NEW t \in Sharers, NEW from, NEW to, Goes(t, from, to)
    PROVE  /\ IsFiniteSet(In) /\ cnt = Cardinality(In) /\ cnt \in Nat
           /\ (from \in Counted <=> to \in Counted) => In' = In
           /\ from \notin Counted /\ to \in Counted => Cardinality(In') = cnt + 1
           /\ from \in Counted /\ to \notin Counted => Cardinality(In') = cnt - 1
<1>1. /\ at[t] = from /\ at'[t] = to
      /\ \A u \in Sharers : u # t => at'[u] = at[u]
  BY OneGoes DEF IInv
<1>2. IsFiniteSet(In) /\ cnt = Cardinality(In) /\ cnt \in Nat
  <2>1. In \in SUBSET Sharers
    BY DEF In, InAt
  <2> QED
    BY <2>1, FS_Subset, ThreadsAssumption DEF IInv, CntExact, TypeOK
<1>3. (from \in Counted <=> to \in Counted) => In' = In
  BY <1>1 DEF In, InAt
<1>4. ASSUME from \notin Counted, to \in Counted PROVE Cardinality(In') = cnt + 1
  <2>1. In' = In \cup {t} /\ t \notin In
    BY <1>1, <1>4 DEF In, InAt
  <2> QED
    BY <1>2, <2>1, FS_AddElement
<1>5. ASSUME from \in Counted, to \notin Counted PROVE Cardinality(In') = cnt - 1
  <2>1. In' = In \ {t} /\ t \in In
    BY <1>1, <1>5 DEF In, InAt
  <2> QED
    BY <1>2, <2>1, FS_RemoveElement
<1> QED
  BY <1>2, <1>3, <1>4, <1>5

(* A counted sharer makes cnt positive; where cnt is 1 it is the only one.  *)
LEMMA CntOf ==
    ASSUME IInv, NEW t \in Sharers, at[t] \in Counted
    PROVE  cnt > 0 /\ (cnt = 1 => \A u \in Sharers : at[u] \in Counted => u = t)
<1>1. In \in SUBSET Sharers /\ t \in In
  BY DEF In, InAt
<1>2. IsFiniteSet(In)
  BY <1>1, FS_Subset, ThreadsAssumption
<1>3. cnt = Cardinality(In) /\ cnt \in Nat
  BY DEF IInv, CntExact, TypeOK
<1>4. cnt # 0
  BY <1>1, <1>2, <1>3, FS_EmptySet
<1>5. ASSUME cnt = 1, NEW u \in Sharers, at[u] \in Counted PROVE u = t
  <2>1. PICK x : In = {x}
    BY <1>2, <1>3, <1>5, FS_Singleton
  <2>2. u \in In
    BY <1>5 DEF In, InAt
  <2> QED
    BY <1>1, <2>1, <2>2
<1> QED
  BY <1>3, <1>4, <1>5

(* mutex goes with the thread that is at a statement it protects. *)
LEMMA ShareMutex ==
    ASSUME IInv, NEW t \in Sharers, Share(t)
    PROVE  TypeOK' /\ Kinds' /\ MutexHeld'
<1>0. TypeOK /\ Kinds /\ MutexHeld /\ GateHeld
  BY DEF IInv
<1>1. CASE Lock(t) \/ Relock(t)
  <2>1. /\ mutex = 1 /\ mutex' = 0 /\ UNCHANGED <<program, gate, cnt>>
        /\ at' = [at EXCEPT ![t] = at'[t]] /\ at'[t] \in {"count", "uncount"}
    BY <1>0, <1>1 DEF Lock, Relock, Goes, P, TypeOK
  <2>2. \A u \in Sharers : at[u] \notin Locked
    BY <1>0, <2>1 DEF MutexHeld
  <2> QED
    BY <1>0, <2>1, <2>2, ThreadsAssumption DEF TypeOK, Kinds, MutexHeld
<1>2. CASE Unlock(t) \/ Release(t)
  <2>1. /\ mutex' = mutex + 1 /\ UNCHANGED <<program, gate, cnt>> /\ at[t] \in Locked
        /\ at' = [at EXCEPT ![t] = at'[t]] /\ at'[t] \in {"inside", "lock"}
    BY <1>0, <1>2 DEF Unlock, Release, Goes, V, TypeOK
  <2>2. mutex = 0 /\ \A u \in Sharers : at[u] \in Locked => u = t
    BY <1>0, <2>1 DEF MutexHeld, TypeOK
  <2> QED
    BY <1>0, <2>1, <2>2, ThreadsAssumption DEF TypeOK, Kinds, MutexHeld
<1>3. CASE Count(t) \/ Shut(t) \/ Uncount(t) \/ Open(t)
  <2>1. /\ UNCHANGED <<program, mutex>> /\ at[t] \in Locked
        /\ at' = [at EXCEPT ![t] = at'[t]] /\ at'[t] \in Locked
    BY <1>0, <1>3 DEF Count, Shut, Uncount, Open, Goes, TypeOK
  <2>2. gate' \in {0, 1}
    <3>1. CASE Open(t)
      <4>1. at[t] = "open" /\ gate' = gate + 1
        BY <3>1 DEF Open, Goes, V
      <4>2. gate # 1
        BY <1>0, <4>1 DEF GateHeld, Shared
      <4> QED
        BY <1>0, <4>1, <4>2 DEF TypeOK
    <3>2. CASE ~Open(t)
      BY <1>0, <1>3, <3>2 DEF Count, Shut, Uncount, P, TypeOK
    <3> QED
      BY <3>1, <3>2
  <2>3. cnt' \in Nat
    <3>1. at[t] = "uncount" => cnt > 0
      BY CntOf
    <3> QED
      BY <1>0, <1>3, <3>1 DEF Count, Shut, Uncount, Open, Goes, TypeOK
  <2> QED
    BY <1>0, <2>1, <2>2, <2>3, ThreadsAssumption DEF TypeOK, Kinds, MutexHeld
<1> QED
  BY <1>1, <1>2, <1>3 DEF Share

(* cnt follows the sharers it counts. *)
LEMMA ShareCnt == ASSUME IInv, NEW t \in Sharers, Share(t) PROVE CntExact'
<1>0. TypeOK /\ MutexHeld /\ CntExact
  BY DEF IInv
<1>1. CASE Count(t)
  <2>1. cnt' = Cardinality(In') /\ cnt' = cnt + 1 /\ cnt \in Nat
    BY <1>1, InChanges DEF Count
  <2>2. /\ at[t] = "count" /\ at'[t] = IF cnt + 1 = 1 THEN "shut" ELSE "unlock"
        /\ \A u \in Sharers : u # t => at'[u] = at[u] /\ at[u] \notin Locked
    BY <1>0, <1>1, OneGoes DEF Count, MutexHeld, Goes
  <2> QED
    BY <2>1, <2>2 DEF CntExact
<1>2. CASE Uncount(t)
  <2>1. cnt' = Cardinality(In') /\ cnt' = cnt - 1 /\ cnt \in Nat
    BY <1>2, InChanges DEF Uncount
  <2>2. /\ at[t] = "uncount" /\ at'[t] = IF cnt - 1 = 0 THEN "open" ELSE "release"
        /\ \A u \in Sharers : u # t => at'[u] = at[u] /\ at[u] \notin Locked
    BY <1>0, <1>2, OneGoes DEF Uncount, MutexHeld, Goes
  <2> QED
    BY <2>1, <2>2 DEF CntExact
<1>3. CASE Lock(t) \/ Shut(t) \/ Unlock(t) \/ Relock(t) \/ Open(t) \/ Release(t)
  <2>1. In' = In /\ cnt' = cnt
    BY <1>3, InChanges DEF Lock, Shut, Unlock, Relock, Open, Release
  <2>2. /\ at'[t] \notin {"shut", "open"}
        /\ \A u \in Sharers : u # t => at'[u] = at[u]
    BY <1>0, <1>3, OneGoes DEF Lock, Shut, Unlock, Relock, Open, Release
  <2> QED
    BY <1>0, <2>1, <2>2 DEF CntExact
<1> QED
  BY <1>1, <1>2, <1>3 DEF Share

(* Only Shut and Open change whether the sharers hold the gate. *)
LEMMA ShareGate == ASSUME IInv, NEW t \in Sharers, Share(t) PROVE GateHeld'
<1>0. TypeOK /\ MutexHeld /\ CntExact /\ GateHeld
  BY DEF IInv
<1>1. PICK from, to : Goes(t, from, to)
  BY DEF Share, Lock, Count, Shut, Unlock, Relock, Uncount, Open, Release
<1>2. /\ \A u \in Sharers : u # t => at'[u] = at[u]
      /\ \A u \in Loners : at'[u] = at[u]
  BY <1>0, <1>1, OneGoes, ThreadsAssumption
<1>3. CASE Shut(t)
  <2>1. /\ at[t] = "shut" /\ at'[t] = "unlock" /\ gate = 1 /\ gate' = 0 /\ cnt' = cnt
    BY <1>0, <1>3, OneGoes DEF Shut, P, TypeOK, Goes
  <2>2. cnt > 0 /\ \A u \in Sharers : u # t => at[u] # "shut"
    BY <1>0, <2>1 DEF CntExact, MutexHeld
  <2>3. Shared'
    BY <1>2, <2>1, <2>2 DEF Shared
  <2> QED
    BY <1>0, <1>2, <2>1, <2>3 DEF GateHeld
<1>4. CASE Open(t)
  <2>1. /\ at[t] = "open" /\ at'[t] = "release" /\ gate' = gate + 1 /\ cnt' = cnt
    BY <1>0, <1>4, OneGoes DEF Open, V, TypeOK, Goes
  <2>2. cnt = 0 /\ \A u \in Sharers : u # t => at[u] # "open"
    BY <1>0, <2>1 DEF CntExact, MutexHeld
  <2>3. Shared /\ ~Shared'
    BY <1>2, <2>1, <2>2 DEF Shared
  <2> QED
    BY <1>0, <1>2, <2>1, <2>3 DEF GateHeld, TypeOK
<1>5. CASE Count(t)
  <2>1. /\ at[t] = "count" /\ at'[t] = (IF cnt + 1 = 1 THEN "shut" ELSE "unlock")
        /\ gate' = gate /\ cnt' = cnt + 1 /\ cnt \in Nat
    BY <1>0, <1>5, OneGoes DEF Count, TypeOK, Goes
  <2>2. \A u \in Sharers : at[u] \notin {"shut", "open"}
    BY <1>0, <2>1 DEF MutexHeld
  <2>3. Shared' <=> Shared
    BY <1>2, <2>1, <2>2 DEF Shared
  <2> QED
    BY <1>0, <1>2, <2>1, <2>3 DEF GateHeld
<1>6. CASE Uncount(t)
  <2>1. /\ at[t] = "uncount" /\ at'[t] = (IF cnt - 1 = 0 THEN "open" ELSE "release")
        /\ gate' = gate /\ cnt' = cnt - 1 /\ cnt \in Nat
    BY <1>0, <1>6, OneGoes DEF Uncount, TypeOK, Goes
  <2>2. cnt > 0 /\ \A u \in Sharers : at[u] \notin {"shut", "open"}
    BY <1>0, <2>1, CntOf DEF MutexHeld
  <2>3. Shared' /\ Shared
    BY <1>2, <2>1, <2>2 DEF Shared
  <2> QED
    BY <1>0, <1>2, <2>1, <2>3 DEF GateHeld
<1>7. CASE Lock(t) \/ Unlock(t) \/ Relock(t) \/ Release(t)
  <2>1. gate' = gate /\ cnt' = cnt
    BY <1>7 DEF Lock, Unlock, Relock, Release
  <2>2. at[t] \notin {"shut", "open"} /\ at'[t] \notin {"shut", "open"}
    BY <1>0, <1>7, OneGoes DEF Lock, Unlock, Relock, Release
  <2>3. Shared' <=> Shared
    BY <1>2, <2>1, <2>2 DEF Shared
  <2> QED
    BY <1>0, <1>2, <2>1, <2>3 DEF GateHeld
<1> QED
  BY <1>3, <1>4, <1>5, <1>6, <1>7 DEF Share

(* A loner takes the gate and gives it back; the sharers see nothing of it. *)
LEMMA AloneInv == ASSUME IInv, NEW t \in Loners, Alone(t) PROVE IInv'
<1>0. TypeOK /\ Kinds /\ MutexHeld /\ CntExact /\ GateHeld
  BY DEF IInv
<1>1. PICK from, to : Goes(t, from, to)
  BY DEF Alone, Look, Take, Give
<1>2. /\ UNCHANGED <<program, mutex, cnt>>
      /\ \A u \in Sharers : at'[u] = at[u]
      /\ \A u \in Loners : u # t => at'[u] = at[u]
      /\ at'[t] \in {"look", "spin", "take", "alone"}
  BY <1>0, <1>1, OneGoes, ThreadsAssumption DEF Alone, Look, Take, Give
<1>3. MutexHeld' /\ Kinds'
  BY <1>0, <1>2 DEF MutexHeld, Kinds
<1>4. In' = In
  BY <1>2 DEF In, InAt
<1>5. CntExact'
  BY <1>0, <1>2, <1>4 DEF CntExact
<1>6. Shared' <=> Shared
  BY <1>2 DEF Shared
<1>7. gate' \in {0, 1} /\ GateHeld'
  <2>1. CASE Look(t)
    <3>1. at[t] = "look" /\ at'[t] \in {"spin", "take"} /\ gate' = gate
      BY <1>0, <2>1, OneGoes DEF Look
    <3> QED
      BY <1>0, <1>2, <1>6, <3>1 DEF GateHeld, TypeOK
  <2>2. CASE Take(t)
    <3>1. at[t] = "take" /\ at'[t] = "alone" /\ gate = 1 /\ gate' = 0
      BY <1>0, <2>2, OneGoes DEF Take, P, TypeOK
    <3> QED
      BY <1>0, <1>2, <1>6, <3>1 DEF GateHeld
  <2>3. CASE Give(t)
    <3>1. at[t] = "alone" /\ at'[t] = "look" /\ gate' = gate + 1
      BY <1>0, <2>3, OneGoes DEF Give, V
    <3>2. gate = 0 /\ ~Shared /\ \A u \in Loners : at[u] = "alone" => u = t
      BY <1>0, <3>1 DEF GateHeld, TypeOK
    <3> QED
      BY <1>2, <1>6, <3>1, <3>2 DEF GateHeld
  <2> QED
    BY <2>1, <2>2, <2>3 DEF Alone
<1>8. TypeOK'
  BY <1>0, <1>1, <1>2, <1>7 DEF TypeOK, Goes
<1> QED
  BY <1>3, <1>5, <1>7, <1>8 DEF IInv

LEMMA StepIInv == IInv /\ [Next]_vars => IInv'
<1> SUFFICES ASSUME IInv, [Next]_vars PROVE IInv'
  OBVIOUS
<1>1. ASSUME NEW t \in Sharers, Share(t) PROVE IInv'
  BY <1>1, ShareMutex, ShareCnt, ShareGate DEF IInv
<1>2. ASSUME NEW t \in Loners, Alone(t) PROVE IInv'
  BY <1>2, AloneInv
<1>3. CASE UNCHANGED vars
  BY <1>3 DEF vars, IInv, TypeOK, Kinds, MutexHeld, CntExact, GateHeld, Shared, In, InAt
<1> QED
  BY <1>1, <1>2, <1>3 DEF Next

(* Whoever the unlocked look at cnt lets through: who is inside alone (the    *)
(* writer of reader_writer1219.c, lines 26-32) is the only one inside.        *)
LEMMA IInvExclusion == IInv => Exclusion
<1> SUFFICES ASSUME IInv, NEW t \in Loners, NEW u \in Threads, at[t] = "alone", Inside(u)
             PROVE  u = t
  BY DEF Exclusion
<1>1. CASE u \in Loners
  <2>1. at[u] = "alone"
    BY <1>1 DEF Inside, IInv, Kinds
  <2> QED
    BY <1>1, <2>1 DEF IInv, GateHeld
<1>2. CASE u \in Sharers
  <2>1. at[u] = "inside" /\ ~Shared
    BY <1>2 DEF Inside, IInv, Kinds, GateHeld
  <2>2. cnt > 0 /\ (cnt = 1 => \A v \in Sharers : at[v] \in Counted => v = u)
    BY <1>2, <2>1, CntOf
  <2>3. PICK v \in Sharers : at[v] = "shut"
    BY <2>1, <2>2 DEF Shared
  <2>4. cnt = 1
    BY <2>3 DEF IInv, CntExact
  <2> QED
    BY <2>1, <2>2, <2>3, <2>4
<1> QED
  BY <1>1, <1>2

-----------------------------------------------------------------------------
(* The accounting of mutex, gate and cnt holds in every state. *)
THEOREM Invariance == Spec => []IInv
<1> QED
  BY InitIInv, StepIInv, PTL DEF Spec

(* For any number of readers and writers: the single side of the critical    *)
(* section excludes everybody else, although it reads the counter unlocked.   *)
THEOREM Excludes == Spec => []Exclusion
<1> QED
  BY IInvExclusion, Invariance, PTL
=============================================================================
