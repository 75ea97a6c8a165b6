----------------------------- MODULE SBufProofs -----------------------------
(***************************************************************************)
(* Proofs about SBuf for every set of threads, every capacity and every    *)
(* width of int, as long as fewer than INT_MAX items are inserted: the     *)
(* lock and the counters; then that the answers of isFULL and isEMPTY are  *)
(* exact and the buffer is a bounded FIFO queue (BoundedQueue).            *)
(***************************************************************************)
EXTENDS SBuf, FiniteSetTheorems, SequenceTheorems, TLAPS

(* rear does not wrap: at most INT_MAX inserts are made. *)
ASSUME NoWrapAssumption == MaxInsert <= IntMax

(* The lock is free, or one thread is in a critical section. *)
LockCount == mutex + Count(CS) = 1

(* rear counts the inserts begun and past their bump. *)
RearCount == rear + Count({"ins_slots", "ins_mutex", "ins_bump"}) = calls

IInv == TypeOK /\ LockCount /\ SlotsCount /\ ItemsCount /\ RearCount

-----------------------------------------------------------------------------
(* The threads at any statement are finitely many. *)
LEMMA AtFinite == ASSUME NEW L
                  PROVE  IsFiniteSet(At(L)) /\ Count(L) \in Nat
<1>1. At(L) \subseteq Threads
  BY DEF At
<1>2. IsFiniteSet(At(L))
  BY <1>1, ThreadAssumption, FS_Subset
<1> QED
  BY <1>2, FS_CardinalityType DEF Count

(* One thread moving between two statements changes the count of threads at *)
(* the statements L by what it adds at its destination and leaves behind.   *)
LEMMA Move ==
    ASSUME TypeOK, NEW t \in Threads, NEW from, NEW to, Goto(t, from, to), NEW L
    PROVE  /\ Count(L) \in Nat /\ Count(L)' \in Nat
           /\ from \in L /\ to \in L => Count(L)' = Count(L)
           /\ from \notin L /\ to \notin L => Count(L)' = Count(L)
           /\ from \in L /\ to \notin L => Count(L)' = Count(L) - 1
           /\ from \notin L /\ to \in L => Count(L)' = Count(L) + 1
<1> DEFINE A == At(L)
           B == {u \in Threads : at'[u] \in L}
<1>0. A' = B
  BY DEF At
<1>1. at[t] = from /\ at'[t] = to /\ \A u \in Threads \ {t} : at'[u] = at[u]
  BY DEF Goto, TypeOK
<1>2. IsFiniteSet(A) /\ Count(L) \in Nat
  BY AtFinite
<1>3. B \subseteq Threads
  OBVIOUS
<1>4. IsFiniteSet(B)
  BY <1>3, ThreadAssumption, FS_Subset
<1>5. Count(L) = Cardinality(A) /\ Count(L)' = Cardinality(B)
  BY <1>0 DEF Count
<1>6. Cardinality(A) \in Nat /\ Cardinality(B) \in Nat
  BY <1>2, <1>4, FS_CardinalityType
<1> HIDE DEF B
<1>7. CASE (from \in L) <=> (to \in L)
  <2>1. A = B
    BY <1>1, <1>7 DEF At, B
  <2> QED
    BY <2>1, <1>5, <1>6, <1>7
<1>8. CASE from \in L /\ to \notin L
  <2>1. B = A \ {t} /\ t \in A
    BY <1>1, <1>8 DEF At, B
  <2>2. Cardinality(B) = Cardinality(A) - 1
    BY <2>1, <1>2, FS_RemoveElement
  <2> QED
    BY <2>2, <1>5, <1>6, <1>8
<1>9. CASE from \notin L /\ to \in L
  <2>1. B = A \cup {t} /\ t \notin A
    BY <1>1, <1>9 DEF At, B
  <2>2. Cardinality(B) = Cardinality(A) + 1
    BY <2>1, <1>2, FS_AddElement
  <2> QED
    BY <2>2, <1>5, <1>6, <1>9
<1> QED
  BY <1>7, <1>8, <1>9

(* At most one thread in a set counted by at most one. *)
LEMMA CountOne == ASSUME NEW L, Count(L) <= 1, NEW t \in At(L), NEW u \in At(L)
                  PROVE  t = u
<1>1. IsFiniteSet(At(L)) /\ Count(L) \in Nat
  BY AtFinite
<1>2. SUFFICES ASSUME t # u PROVE FALSE
  OBVIOUS
<1>3. {t, u} \subseteq At(L)
  OBVIOUS
<1>4. Cardinality({t, u}) <= Cardinality(At(L))
  BY <1>1, <1>3, FS_Subset, FS_CardinalityType
<1>5. Cardinality({t, u}) = 2
  <2>1. IsFiniteSet({t}) /\ Cardinality({t}) = 1
    BY FS_Singleton
  <2>2. {t, u} = {t} \cup {u} /\ u \notin {t}
    BY <1>2
  <2> QED
    BY <2>1, <2>2, FS_AddElement
<1> QED
  BY <1>1, <1>4, <1>5 DEF Count

(* How the counts of the invariant change when a thread moves. *)
Change(from, to, L) == Count(L)' = Count(L) + (IF to \in L THEN 1 ELSE 0)
                                            - (IF from \in L THEN 1 ELSE 0)
Changes(from, to) ==
    /\ Change(from, to, CS)
    /\ Change(from, to, {"rem_load"})
    /\ Change(from, to, {"ins_store"})
    /\ Change(from, to, {"ins_mutex", "ins_bump", "ins_store"})
    /\ Change(from, to, {"rem_unlock", "rem_slots"})
    /\ Change(from, to, {"rem_mutex", "rem_bump", "rem_load"})
    /\ Change(from, to, {"ins_unlock", "ins_items"})
    /\ Change(from, to, {"ins_slots", "ins_mutex", "ins_bump"})

(* What the invariant counts are numbers. *)
CountsNat ==
    /\ Count(CS) \in Nat
    /\ Count({"rem_load"}) \in Nat
    /\ Count({"ins_store"}) \in Nat
    /\ Count({"ins_mutex", "ins_bump", "ins_store"}) \in Nat
    /\ Count({"rem_unlock", "rem_slots"}) \in Nat
    /\ Count({"rem_mutex", "rem_bump", "rem_load"}) \in Nat
    /\ Count({"ins_unlock", "ins_items"}) \in Nat
    /\ Count({"ins_slots", "ins_mutex", "ins_bump"}) \in Nat

(* Initially every thread is outside and the buffer is empty. *)
LEMMA InitIInv == Init => IInv
<1> SUFFICES ASSUME Init PROVE IInv
  OBVIOUS
<1>1. TypeOK
  BY NAssumption, BoundsAssumption
     DEF Init, TypeOK, Labels, CS, InsertCS, RemoveCS, LookCS, Waiting
<1>2. \A L : "out" \notin L => At(L) = {}
  BY DEF Init, At
<1>3. \A L : "out" \notin L => Count(L) = 0
  BY <1>2, FS_EmptySet DEF Count
<1>4. /\ Count(CS) = 0
      /\ Count({"rem_load"}) = 0
      /\ Count({"ins_store"}) = 0
      /\ Count({"ins_mutex", "ins_bump", "ins_store"}) = 0
      /\ Count({"rem_unlock", "rem_slots"}) = 0
      /\ Count({"rem_mutex", "rem_bump", "rem_load"}) = 0
      /\ Count({"ins_unlock", "ins_items"}) = 0
      /\ Count({"ins_slots", "ins_mutex", "ins_bump"}) = 0
  BY <1>3 DEF CS, InsertCS, RemoveCS, LookCS
<1>5. LockCount /\ SlotsCount /\ ItemsCount /\ RearCount
  BY <1>4, NAssumption DEF Init, LockCount, SlotsCount, ItemsCount, RearCount,
     Newest, Oldest
<1> QED
  BY <1>1, <1>5 DEF IInv

(* Every step keeps the type of every variable. *)
LEMMA TypeStep == ASSUME TypeOK, [Next]_vars PROVE TypeOK'
<1> USE NAssumption, BoundsAssumption
    DEF TypeOK, Labels, CS, InsertCS, RemoveCS, LookCS, Waiting
<1>1. CASE UNCHANGED vars
  BY <1>1 DEF vars
<1>2. ASSUME NEW t \in Threads, Insert(t) PROVE TypeOK'
  <2>1. ASSUME NEW x \in Items, InsCall(t, x) PROVE TypeOK'
    BY <2>1 DEF InsCall, Goto
  <2>2. CASE InsSlots(t)
    BY <2>2 DEF InsSlots, Goto
  <2>3. CASE InsLock(t)
    BY <2>3 DEF InsLock, LockMutex, Goto
  <2>4. CASE InsBump(t)
    BY <2>4 DEF InsBump, Inc, Goto
  <2>5. CASE InsStore(t)
    BY <2>5 DEF InsStore, Goto
  <2>6. CASE InsUnlock(t)
    BY <2>6 DEF InsUnlock, UnlockMutex, Goto
  <2>7. CASE InsItems(t)
    BY <2>7 DEF InsItems, Goto
  <2> QED
    BY <1>2, <2>1, <2>2, <2>3, <2>4, <2>5, <2>6, <2>7 DEF Insert
<1>3. ASSUME NEW t \in Threads, Remove(t) PROVE TypeOK'
  <2>1. CASE RemCall(t)
    BY <2>1 DEF RemCall, Goto
  <2>2. CASE RemItems(t)
    BY <2>2 DEF RemItems, Goto
  <2>3. CASE RemLock(t)
    BY <2>3 DEF RemLock, LockMutex, Goto
  <2>4. CASE RemBump(t)
    BY <2>4 DEF RemBump, Inc, Goto
  <2>5. CASE RemLoad(t)
    BY <2>5 DEF RemLoad, CMod, Goto
  <2>6. CASE RemUnlock(t)
    BY <2>6 DEF RemUnlock, UnlockMutex, Goto
  <2>7. CASE RemSlots(t)
    BY <2>7 DEF RemSlots, Goto
  <2>8. CASE RemCancel(t)
    BY <2>8 DEF RemCancel, Goto
  <2>9. CASE Release(t)
    BY <2>9 DEF Release
  <2> QED
    BY <1>3, <2>1, <2>2, <2>3, <2>4, <2>5, <2>6, <2>7, <2>8, <2>9 DEF Remove
<1>4. ASSUME NEW t \in Threads, Look(t) PROVE TypeOK'
  <2>1. CASE LookCall(t)
    BY <2>1 DEF LookCall, Goto
  <2>2. CASE FullLock(t)
    BY <2>2 DEF FullLock, LockMutex, Goto
  <2>3. CASE EmptyLock(t)
    BY <2>3 DEF EmptyLock, LockMutex, Goto
  <2>4. CASE FullTest(t)
    BY <2>4 DEF FullTest, Goto
  <2>5. CASE EmptyTest(t)
    BY <2>5 DEF EmptyTest, Goto
  <2>6. CASE FullUnlock(t)
    BY <2>6 DEF FullUnlock, UnlockMutex, Goto
  <2>7. CASE EmptyUnlock(t)
    BY <2>7 DEF EmptyUnlock, UnlockMutex, Goto
  <2> QED
    BY <1>4, <2>1, <2>2, <2>3, <2>4, <2>5, <2>6, <2>7 DEF Look
<1> QED
  BY <1>1, <1>2, <1>3, <1>4 DEF Next

(* Move, for the counts of the invariant. *)
LEMMA Moves ==
    ASSUME TypeOK, NEW t \in Threads, NEW from, NEW to, Goto(t, from, to)
    PROVE  Changes(from, to) /\ CountsNat /\ CountsNat'
<1>1. ASSUME NEW L
      PROVE  Count(L) \in Nat /\ Count(L)' \in Nat /\ Change(from, to, L)
  BY Move DEF Change
<1> QED
  BY <1>1 DEF Changes, CountsNat

(* A thread at a counted statement makes its count positive. *)
LEMMA Present == ASSUME NEW L, NEW t \in At(L)
                 PROVE  Count(L) >= 1
<1>1. IsFiniteSet(At(L)) /\ Count(L) \in Nat
  BY AtFinite
<1>2. Count(L) # 0
  BY <1>1, FS_EmptySet DEF Count
<1> QED
  BY <1>1, <1>2

(* The counts agree after a step that moves a thread from one statement to *)
(* another and adds to the variables what the move adds to the counts.      *)
Parts == LockCount /\ SlotsCount /\ ItemsCount /\ RearCount

(* A step of sbuf_insert keeps the counts. *)
LEMMA InsertStep ==
    ASSUME IInv, NEW t \in Threads, Insert(t)
    PROVE  Parts'
<1> USE DEF Changes, Change, CountsNat
<1>a. TypeOK /\ LockCount /\ SlotsCount /\ ItemsCount /\ RearCount
  BY DEF IInv
<1>0. /\ front \in Int /\ rear \in Int /\ calls \in 0 .. MaxInsert
      /\ mutex \in Nat /\ slots \in Nat /\ items \in Nat
  BY <1>a, BoundsAssumption DEF TypeOK
<1>1. ASSUME NEW x \in Items, InsCall(t, x) PROVE Parts'
  <2>1. Changes("out", "ins_slots") /\ CountsNat /\ CountsNat'
    BY <1>a, <1>1, Moves DEF InsCall
  <2>2. LockCount'
    BY <1>a, <1>0, <1>1, <2>1 DEF LockCount, InsCall, CS, InsertCS, RemoveCS, LookCS
  <2>3. SlotsCount'
    BY <1>a, <1>0, <1>1, <2>1 DEF SlotsCount, Newest, Oldest, InsCall
  <2>4. ItemsCount'
    BY <1>a, <1>0, <1>1, <2>1 DEF ItemsCount, Newest, Oldest, InsCall
  <2>5. RearCount'
    BY <1>a, <1>0, <1>1, <2>1 DEF RearCount, InsCall
  <2> QED
    BY <2>2, <2>3, <2>4, <2>5 DEF Parts
<1>2. ASSUME InsSlots(t) PROVE Parts'
  <2>1. Changes("ins_slots", "ins_mutex") /\ CountsNat /\ CountsNat'
    BY <1>a, <1>2, Moves DEF InsSlots
  <2>2. LockCount'
    BY <1>a, <1>0, <1>2, <2>1 DEF LockCount, InsSlots, CS, InsertCS, RemoveCS, LookCS
  <2>3. SlotsCount'
    BY <1>a, <1>0, <1>2, <2>1 DEF SlotsCount, Newest, Oldest, InsSlots
  <2>4. ItemsCount'
    BY <1>a, <1>0, <1>2, <2>1 DEF ItemsCount, Newest, Oldest, InsSlots
  <2>5. RearCount'
    BY <1>a, <1>0, <1>2, <2>1 DEF RearCount, InsSlots
  <2> QED
    BY <2>2, <2>3, <2>4, <2>5 DEF Parts
<1>3. ASSUME InsLock(t) PROVE Parts'
  <2>1. Changes("ins_mutex", "ins_bump") /\ CountsNat /\ CountsNat'
    BY <1>a, <1>3, Moves DEF InsLock, LockMutex
  <2>2. LockCount'
    BY <1>a, <1>0, <1>3, <2>1 DEF LockCount, InsLock, LockMutex, CS, InsertCS, RemoveCS, LookCS
  <2>3. SlotsCount'
    BY <1>a, <1>0, <1>3, <2>1 DEF SlotsCount, Newest, Oldest, InsLock, LockMutex
  <2>4. ItemsCount'
    BY <1>a, <1>0, <1>3, <2>1 DEF ItemsCount, Newest, Oldest, InsLock, LockMutex
  <2>5. RearCount'
    BY <1>a, <1>0, <1>3, <2>1 DEF RearCount, InsLock, LockMutex
  <2> QED
    BY <2>2, <2>3, <2>4, <2>5 DEF Parts
<1>4. ASSUME InsBump(t) PROVE Parts'
  <2>1. Changes("ins_bump", "ins_store") /\ CountsNat /\ CountsNat'
    BY <1>a, <1>4, Moves DEF InsBump
  <2>2. LockCount'
    BY <1>a, <1>0, <1>4, <2>1 DEF LockCount, InsBump, CS, InsertCS, RemoveCS, LookCS
  <2>3. rear' = rear + 1
    <3>1. t \in At({"ins_slots", "ins_mutex", "ins_bump"})
      BY <1>4 DEF InsBump, Goto, At
    <3>2. Count({"ins_slots", "ins_mutex", "ins_bump"}) >= 1
      BY <3>1, Present
    <3>3. rear < IntMax
      BY <1>a, <1>0, <2>1, <3>2, NoWrapAssumption, BoundsAssumption DEF RearCount
    <3> QED
      BY <1>0, <1>4, <3>3, BoundsAssumption DEF InsBump, Inc
  <2>4. SlotsCount'
    BY <1>a, <1>0, <1>4, <2>1, <2>3 DEF SlotsCount, Newest, Oldest, InsBump
  <2>5. ItemsCount'
    BY <1>a, <1>0, <1>4, <2>1, <2>3 DEF ItemsCount, Newest, Oldest, InsBump
  <2>6. RearCount'
    BY <1>a, <1>0, <1>4, <2>1, <2>3 DEF RearCount, InsBump
  <2> QED
    BY <2>2, <2>4, <2>5, <2>6 DEF Parts
<1>5. ASSUME InsStore(t) PROVE Parts'
  <2>1. Changes("ins_store", "ins_unlock") /\ CountsNat /\ CountsNat'
    BY <1>a, <1>5, Moves DEF InsStore
  <2>2. LockCount'
    BY <1>a, <1>0, <1>5, <2>1 DEF LockCount, InsStore, CS, InsertCS, RemoveCS, LookCS
  <2>3. UNCHANGED <<front, rear, slots, items, calls>>
    BY <1>5 DEF InsStore
  <2>4. SlotsCount'
    BY <1>a, <1>0, <2>1, <2>3 DEF SlotsCount, Newest, Oldest
  <2>5. ItemsCount'
    BY <1>a, <1>0, <2>1, <2>3 DEF ItemsCount, Newest, Oldest
  <2>6. RearCount'
    BY <1>a, <1>0, <2>1, <2>3 DEF RearCount
  <2> QED
    BY <2>2, <2>4, <2>5, <2>6 DEF Parts
<1>6. ASSUME InsUnlock(t) PROVE Parts'
  <2>1. Changes("ins_unlock", "ins_items") /\ CountsNat /\ CountsNat'
    BY <1>a, <1>6, Moves DEF InsUnlock, UnlockMutex
  <2>2. LockCount'
    BY <1>a, <1>0, <1>6, <2>1 DEF LockCount, InsUnlock, UnlockMutex, CS, InsertCS, RemoveCS, LookCS
  <2>3. SlotsCount'
    BY <1>a, <1>0, <1>6, <2>1 DEF SlotsCount, Newest, Oldest, InsUnlock, UnlockMutex
  <2>4. ItemsCount'
    BY <1>a, <1>0, <1>6, <2>1 DEF ItemsCount, Newest, Oldest, InsUnlock, UnlockMutex
  <2>5. RearCount'
    BY <1>a, <1>0, <1>6, <2>1 DEF RearCount, InsUnlock, UnlockMutex
  <2> QED
    BY <2>2, <2>3, <2>4, <2>5 DEF Parts
<1>7. ASSUME InsItems(t) PROVE Parts'
  <2>1. Changes("ins_items", "out") /\ CountsNat /\ CountsNat'
    BY <1>a, <1>7, Moves DEF InsItems
  <2>2. LockCount'
    BY <1>a, <1>0, <1>7, <2>1 DEF LockCount, InsItems, CS, InsertCS, RemoveCS, LookCS
  <2>3. SlotsCount'
    BY <1>a, <1>0, <1>7, <2>1 DEF SlotsCount, Newest, Oldest, InsItems
  <2>4. ItemsCount'
    BY <1>a, <1>0, <1>7, <2>1 DEF ItemsCount, Newest, Oldest, InsItems
  <2>5. RearCount'
    BY <1>a, <1>0, <1>7, <2>1 DEF RearCount, InsItems
  <2> QED
    BY <2>2, <2>3, <2>4, <2>5 DEF Parts
<1> QED
  BY <1>1, <1>2, <1>3, <1>4, <1>5, <1>6, <1>7 DEF Insert

(* A step of sbuf_remove, or of its caller, keeps the counts. *)
LEMMA RemoveStep ==
    ASSUME IInv, NEW t \in Threads, Remove(t)
    PROVE  Parts'
<1> USE DEF Changes, Change, CountsNat
<1>a. TypeOK /\ LockCount /\ SlotsCount /\ ItemsCount /\ RearCount
  BY DEF IInv
<1>0. /\ front \in Int /\ rear \in Int /\ calls \in 0 .. MaxInsert
      /\ mutex \in Nat /\ slots \in Nat /\ items \in Nat
  BY <1>a, BoundsAssumption DEF TypeOK
<1>1. ASSUME RemCall(t) PROVE Parts'
  <2>1. Changes("out", "rem_items") /\ CountsNat /\ CountsNat'
    BY <1>a, <1>1, Moves DEF RemCall
  <2>2. LockCount'
    BY <1>a, <1>0, <1>1, <2>1 DEF LockCount, RemCall, CS, InsertCS, RemoveCS, LookCS
  <2>3. SlotsCount'
    BY <1>a, <1>0, <1>1, <2>1 DEF SlotsCount, Newest, Oldest, RemCall
  <2>4. ItemsCount'
    BY <1>a, <1>0, <1>1, <2>1 DEF ItemsCount, Newest, Oldest, RemCall
  <2>5. RearCount'
    BY <1>a, <1>0, <1>1, <2>1 DEF RearCount, RemCall
  <2> QED
    BY <2>2, <2>3, <2>4, <2>5 DEF Parts
<1>2. ASSUME RemItems(t) PROVE Parts'
  <2>1. Changes("rem_items", "rem_mutex") /\ CountsNat /\ CountsNat'
    BY <1>a, <1>2, Moves DEF RemItems
  <2>2. LockCount'
    BY <1>a, <1>0, <1>2, <2>1 DEF LockCount, RemItems, CS, InsertCS, RemoveCS, LookCS
  <2>3. SlotsCount'
    BY <1>a, <1>0, <1>2, <2>1 DEF SlotsCount, Newest, Oldest, RemItems
  <2>4. ItemsCount'
    BY <1>a, <1>0, <1>2, <2>1 DEF ItemsCount, Newest, Oldest, RemItems
  <2>5. RearCount'
    BY <1>a, <1>0, <1>2, <2>1 DEF RearCount, RemItems
  <2> QED
    BY <2>2, <2>3, <2>4, <2>5 DEF Parts
<1>3. ASSUME RemLock(t) PROVE Parts'
  <2>1. Changes("rem_mutex", "rem_bump") /\ CountsNat /\ CountsNat'
    BY <1>a, <1>3, Moves DEF RemLock, LockMutex
  <2>2. LockCount'
    BY <1>a, <1>0, <1>3, <2>1 DEF LockCount, RemLock, LockMutex, CS, InsertCS, RemoveCS, LookCS
  <2>3. SlotsCount'
    BY <1>a, <1>0, <1>3, <2>1 DEF SlotsCount, Newest, Oldest, RemLock, LockMutex
  <2>4. ItemsCount'
    BY <1>a, <1>0, <1>3, <2>1 DEF ItemsCount, Newest, Oldest, RemLock, LockMutex
  <2>5. RearCount'
    BY <1>a, <1>0, <1>3, <2>1 DEF RearCount, RemLock, LockMutex
  <2> QED
    BY <2>2, <2>3, <2>4, <2>5 DEF Parts
<1>4. ASSUME RemBump(t) PROVE Parts'
  <2>1. Changes("rem_bump", "rem_load") /\ CountsNat /\ CountsNat'
    BY <1>a, <1>4, Moves DEF RemBump
  <2>2. LockCount'
    BY <1>a, <1>0, <1>4, <2>1 DEF LockCount, RemBump, CS, InsertCS, RemoveCS, LookCS
  <2>3. front' = front + 1
    <3>1. /\ t \in At({"rem_mutex", "rem_bump", "rem_load"})
          /\ t \in At(CS) /\ at[t] = "rem_bump"
      BY <1>4 DEF RemBump, Goto, At, CS, InsertCS, RemoveCS, LookCS
    <3>2. Count({"rem_mutex", "rem_bump", "rem_load"}) >= 1
      BY <3>1, Present
    <3>3. Count({"rem_load"}) = 0
      <4>1. Count(CS) <= 1
        BY <1>a, <1>0, <2>1 DEF LockCount
      <4>2. ASSUME NEW u \in At({"rem_load"}) PROVE FALSE
        <5>1. u \in At(CS) /\ at[u] = "rem_load"
          BY DEF At, CS, InsertCS, RemoveCS, LookCS
        <5> QED
          BY <3>1, <4>1, <5>1, CountOne
      <4> QED
        BY <4>2, FS_EmptySet DEF Count
    <3>4. front < rear
      BY <1>a, <1>0, <2>1, <3>2, <3>3 DEF ItemsCount, Newest, Oldest
    <3>5. front # IntMax
      BY <1>a, <1>0, <3>4, BoundsAssumption DEF TypeOK
    <3> QED
      BY <1>0, <1>4, <3>5 DEF RemBump, Inc
  <2>4. SlotsCount'
    BY <1>a, <1>0, <1>4, <2>1, <2>3 DEF SlotsCount, Newest, Oldest, RemBump
  <2>5. ItemsCount'
    BY <1>a, <1>0, <1>4, <2>1, <2>3 DEF ItemsCount, Newest, Oldest, RemBump
  <2>6. RearCount'
    BY <1>a, <1>0, <1>4, <2>1, <2>3 DEF RearCount, RemBump
  <2> QED
    BY <2>2, <2>4, <2>5, <2>6 DEF Parts
<1>5. ASSUME RemLoad(t) PROVE Parts'
  <2>1. Changes("rem_load", "rem_unlock") /\ CountsNat /\ CountsNat'
    BY <1>a, <1>5, Moves DEF RemLoad
  <2>2. LockCount'
    BY <1>a, <1>0, <1>5, <2>1 DEF LockCount, RemLoad, CS, InsertCS, RemoveCS, LookCS
  <2>3. SlotsCount'
    BY <1>a, <1>0, <1>5, <2>1 DEF SlotsCount, Newest, Oldest, RemLoad
  <2>4. ItemsCount'
    BY <1>a, <1>0, <1>5, <2>1 DEF ItemsCount, Newest, Oldest, RemLoad
  <2>5. RearCount'
    BY <1>a, <1>0, <1>5, <2>1 DEF RearCount, RemLoad
  <2> QED
    BY <2>2, <2>3, <2>4, <2>5 DEF Parts
<1>6. ASSUME RemUnlock(t) PROVE Parts'
  <2>1. Changes("rem_unlock", "rem_slots") /\ CountsNat /\ CountsNat'
    BY <1>a, <1>6, Moves DEF RemUnlock, UnlockMutex
  <2>2. LockCount'
    BY <1>a, <1>0, <1>6, <2>1 DEF LockCount, RemUnlock, UnlockMutex, CS, InsertCS, RemoveCS, LookCS
  <2>3. SlotsCount'
    BY <1>a, <1>0, <1>6, <2>1 DEF SlotsCount, Newest, Oldest, RemUnlock, UnlockMutex
  <2>4. ItemsCount'
    BY <1>a, <1>0, <1>6, <2>1 DEF ItemsCount, Newest, Oldest, RemUnlock, UnlockMutex
  <2>5. RearCount'
    BY <1>a, <1>0, <1>6, <2>1 DEF RearCount, RemUnlock, UnlockMutex
  <2> QED
    BY <2>2, <2>3, <2>4, <2>5 DEF Parts
<1>7. ASSUME RemSlots(t) PROVE Parts'
  <2>1. Changes("rem_slots", "out") /\ CountsNat /\ CountsNat'
    BY <1>a, <1>7, Moves DEF RemSlots
  <2>2. LockCount'
    BY <1>a, <1>0, <1>7, <2>1 DEF LockCount, RemSlots, CS, InsertCS, RemoveCS, LookCS
  <2>3. SlotsCount'
    BY <1>a, <1>0, <1>7, <2>1 DEF SlotsCount, Newest, Oldest, RemSlots
  <2>4. ItemsCount'
    BY <1>a, <1>0, <1>7, <2>1 DEF ItemsCount, Newest, Oldest, RemSlots
  <2>5. RearCount'
    BY <1>a, <1>0, <1>7, <2>1 DEF RearCount, RemSlots
  <2> QED
    BY <2>2, <2>3, <2>4, <2>5 DEF Parts
<1>8. ASSUME RemCancel(t) PROVE Parts'
  <2>1. Changes("rem_items", "out") /\ CountsNat /\ CountsNat'
    BY <1>a, <1>8, Moves DEF RemCancel
  <2>2. LockCount'
    BY <1>a, <1>0, <1>8, <2>1 DEF LockCount, RemCancel, CS, InsertCS, RemoveCS, LookCS
  <2>3. SlotsCount'
    BY <1>a, <1>0, <1>8, <2>1 DEF SlotsCount, Newest, Oldest, RemCancel
  <2>4. ItemsCount'
    BY <1>a, <1>0, <1>8, <2>1 DEF ItemsCount, Newest, Oldest, RemCancel
  <2>5. RearCount'
    BY <1>a, <1>0, <1>8, <2>1 DEF RearCount, RemCancel
  <2> QED
    BY <2>2, <2>3, <2>4, <2>5 DEF Parts
<1>9. ASSUME Release(t) PROVE Parts'
  BY <1>a, <1>9 DEF Release, Parts, LockCount, SlotsCount, ItemsCount, RearCount,
     Newest, Oldest, Count, At
<1> QED
  BY <1>1, <1>2, <1>3, <1>4, <1>5, <1>6, <1>7, <1>8, <1>9 DEF Remove

(* A step of isFULL or isEMPTY keeps the counts. *)
LEMMA LookStep ==
    ASSUME IInv, NEW t \in Threads, Look(t)
    PROVE  Parts'
<1> USE DEF Changes, Change, CountsNat
<1>a. TypeOK /\ LockCount /\ SlotsCount /\ ItemsCount /\ RearCount
  BY DEF IInv
<1>0. /\ front \in Int /\ rear \in Int /\ calls \in 0 .. MaxInsert
      /\ mutex \in Nat /\ slots \in Nat /\ items \in Nat
  BY <1>a, BoundsAssumption DEF TypeOK
<1>1. ASSUME FullLock(t) PROVE Parts'
  <2>1. Changes("full_mutex", "full_test") /\ CountsNat /\ CountsNat'
    BY <1>a, <1>1, Moves DEF FullLock, LockMutex
  <2>2. LockCount'
    BY <1>a, <1>0, <1>1, <2>1 DEF LockCount, FullLock, LockMutex, CS, InsertCS, RemoveCS, LookCS
  <2>3. SlotsCount'
    BY <1>a, <1>0, <1>1, <2>1 DEF SlotsCount, Newest, Oldest, FullLock, LockMutex
  <2>4. ItemsCount'
    BY <1>a, <1>0, <1>1, <2>1 DEF ItemsCount, Newest, Oldest, FullLock, LockMutex
  <2>5. RearCount'
    BY <1>a, <1>0, <1>1, <2>1 DEF RearCount, FullLock, LockMutex
  <2> QED
    BY <2>2, <2>3, <2>4, <2>5 DEF Parts
<1>2. ASSUME EmptyLock(t) PROVE Parts'
  <2>1. Changes("empty_mutex", "empty_test") /\ CountsNat /\ CountsNat'
    BY <1>a, <1>2, Moves DEF EmptyLock, LockMutex
  <2>2. LockCount'
    BY <1>a, <1>0, <1>2, <2>1 DEF LockCount, EmptyLock, LockMutex, CS, InsertCS, RemoveCS, LookCS
  <2>3. SlotsCount'
    BY <1>a, <1>0, <1>2, <2>1 DEF SlotsCount, Newest, Oldest, EmptyLock, LockMutex
  <2>4. ItemsCount'
    BY <1>a, <1>0, <1>2, <2>1 DEF ItemsCount, Newest, Oldest, EmptyLock, LockMutex
  <2>5. RearCount'
    BY <1>a, <1>0, <1>2, <2>1 DEF RearCount, EmptyLock, LockMutex
  <2> QED
    BY <2>2, <2>3, <2>4, <2>5 DEF Parts
<1>3. ASSUME FullTest(t) PROVE Parts'
  <2>1. Changes("full_test", "full_unlock") /\ CountsNat /\ CountsNat'
    BY <1>a, <1>3, Moves DEF FullTest
  <2>2. LockCount'
    BY <1>a, <1>0, <1>3, <2>1 DEF LockCount, FullTest, CS, InsertCS, RemoveCS, LookCS
  <2>3. SlotsCount'
    BY <1>a, <1>0, <1>3, <2>1 DEF SlotsCount, Newest, Oldest, FullTest
  <2>4. ItemsCount'
    BY <1>a, <1>0, <1>3, <2>1 DEF ItemsCount, Newest, Oldest, FullTest
  <2>5. RearCount'
    BY <1>a, <1>0, <1>3, <2>1 DEF RearCount, FullTest
  <2> QED
    BY <2>2, <2>3, <2>4, <2>5 DEF Parts
<1>4. ASSUME EmptyTest(t) PROVE Parts'
  <2>1. Changes("empty_test", "empty_unlock") /\ CountsNat /\ CountsNat'
    BY <1>a, <1>4, Moves DEF EmptyTest
  <2>2. LockCount'
    BY <1>a, <1>0, <1>4, <2>1 DEF LockCount, EmptyTest, CS, InsertCS, RemoveCS, LookCS
  <2>3. SlotsCount'
    BY <1>a, <1>0, <1>4, <2>1 DEF SlotsCount, Newest, Oldest, EmptyTest
  <2>4. ItemsCount'
    BY <1>a, <1>0, <1>4, <2>1 DEF ItemsCount, Newest, Oldest, EmptyTest
  <2>5. RearCount'
    BY <1>a, <1>0, <1>4, <2>1 DEF RearCount, EmptyTest
  <2> QED
    BY <2>2, <2>3, <2>4, <2>5 DEF Parts
<1>5. ASSUME FullUnlock(t) PROVE Parts'
  <2>1. Changes("full_unlock", "out") /\ CountsNat /\ CountsNat'
    BY <1>a, <1>5, Moves DEF FullUnlock, UnlockMutex
  <2>2. LockCount'
    BY <1>a, <1>0, <1>5, <2>1 DEF LockCount, FullUnlock, UnlockMutex, CS, InsertCS, RemoveCS, LookCS
  <2>3. SlotsCount'
    BY <1>a, <1>0, <1>5, <2>1 DEF SlotsCount, Newest, Oldest, FullUnlock, UnlockMutex
  <2>4. ItemsCount'
    BY <1>a, <1>0, <1>5, <2>1 DEF ItemsCount, Newest, Oldest, FullUnlock, UnlockMutex
  <2>5. RearCount'
    BY <1>a, <1>0, <1>5, <2>1 DEF RearCount, FullUnlock, UnlockMutex
  <2> QED
    BY <2>2, <2>3, <2>4, <2>5 DEF Parts
<1>6. ASSUME EmptyUnlock(t) PROVE Parts'
  <2>1. Changes("empty_unlock", "out") /\ CountsNat /\ CountsNat'
    BY <1>a, <1>6, Moves DEF EmptyUnlock, UnlockMutex
  <2>2. LockCount'
    BY <1>a, <1>0, <1>6, <2>1 DEF LockCount, EmptyUnlock, UnlockMutex, CS, InsertCS, RemoveCS, LookCS
  <2>3. SlotsCount'
    BY <1>a, <1>0, <1>6, <2>1 DEF SlotsCount, Newest, Oldest, EmptyUnlock, UnlockMutex
  <2>4. ItemsCount'
    BY <1>a, <1>0, <1>6, <2>1 DEF ItemsCount, Newest, Oldest, EmptyUnlock, UnlockMutex
  <2>5. RearCount'
    BY <1>a, <1>0, <1>6, <2>1 DEF RearCount, EmptyUnlock, UnlockMutex
  <2> QED
    BY <2>2, <2>3, <2>4, <2>5 DEF Parts
<1>7. ASSUME LookCall(t) PROVE Parts'
  <2>1. PICK l \in {"full_mutex", "empty_mutex"} : Goto(t, "out", l)
    BY <1>7 DEF LookCall
  <2>2. Changes("out", l) /\ CountsNat /\ CountsNat'
    BY <1>a, <2>1, Moves
  <2>3. LockCount'
    BY <1>a, <1>0, <1>7, <2>2 DEF LockCount, LookCall, CS, InsertCS, RemoveCS, LookCS
  <2>4. SlotsCount'
    BY <1>a, <1>0, <1>7, <2>2 DEF SlotsCount, Newest, Oldest, LookCall
  <2>5. ItemsCount'
    BY <1>a, <1>0, <1>7, <2>2 DEF ItemsCount, Newest, Oldest, LookCall
  <2>6. RearCount'
    BY <1>a, <1>0, <1>7, <2>2 DEF RearCount, LookCall
  <2> QED
    BY <2>3, <2>4, <2>5, <2>6 DEF Parts
<1> QED
  BY <1>1, <1>2, <1>3, <1>4, <1>5, <1>6, <1>7 DEF Look

-----------------------------------------------------------------------------
(* The invariant is inductive. *)
LEMMA StepIInv == IInv /\ [Next]_vars => IInv'
<1> SUFFICES ASSUME IInv, [Next]_vars PROVE IInv'
  OBVIOUS
<1>1. TypeOK'
  BY TypeStep DEF IInv
<1>2. Parts'
  <2>1. CASE UNCHANGED vars
    BY <2>1 DEF vars, IInv, Parts, LockCount, SlotsCount, ItemsCount, RearCount,
       Newest, Oldest, Count, At
  <2> QED
    BY <2>1, InsertStep, RemoveStep, LookStep DEF Next
<1> QED
  BY <1>1, <1>2 DEF IInv, Parts

(* The invariant bounds the window of the two indices. *)
LEMMA IInvWindow == IInv => NoOverrun
<1> SUFFICES ASSUME IInv PROVE NoOverrun
  OBVIOUS
<1>1. ASSUME NEW L PROVE Count(L) \in Nat
  BY AtFinite
<1>2. ASSUME NEW L, NEW M, L \subseteq M PROVE Count(L) <= Count(M)
  <2>1. At(L) \subseteq At(M)
    BY <1>2 DEF At
  <2> QED
    BY <2>1, AtFinite, FS_Subset DEF Count
<1>3. Count({"ins_store"}) <= Count({"ins_mutex", "ins_bump", "ins_store"})
  BY <1>2
<1>4. Count({"rem_load"}) <= Count({"rem_mutex", "rem_bump", "rem_load"})
  BY <1>2
<1>5. rear - front <= N
  BY <1>1, <1>3, NAssumption DEF IInv, TypeOK, SlotsCount, Newest, Oldest
<1>6. 0 <= rear - front
  BY <1>1, <1>4 DEF IInv, TypeOK, ItemsCount, Newest, Oldest
<1> QED
  BY <1>5, <1>6 DEF NoOverrun

(* The package keeps every variable within its type and the accounting of   *)
(* its semaphores exact, for any number of threads and any capacity.         *)
THEOREM Invariance == Spec => []IInv
<1> QED
  BY InitIInv, StepIInv, PTL DEF Spec

(* The variables of the buffer stay within their types (front and rear       *)
(* within an int).                                                           *)
THEOREM TypeCorrect == Spec => []TypeOK
<1>1. IInv => TypeOK
  BY DEF IInv
<1> QED
  BY <1>1, Invariance, PTL

(* Lines 167-169, 178-180, 132-134 and 140-142: two threads never access     *)
(* buf, front or rear at once, however many threads there are.               *)
THEOREM Exclusion == Spec => []MutualExclusion
<1>1. IInv => MutualExclusion
  <2> SUFFICES ASSUME IInv, NEW t \in At(CS), NEW u \in At(CS) PROVE t = u
    BY DEF MutualExclusion
  <2>1. Count(CS) <= 1
    BY AtFinite DEF IInv, TypeOK, LockCount
  <2> QED
    BY <2>1, CountOne
<1> QED
  BY <1>1, Invariance, PTL

(* No insert overwrites an item not yet removed and no remove takes a stale  *)
(* one: the items stored and not yet removed number from 0 to n.             *)
THEOREM Window == Spec => []NoOverrun
<1> QED
  BY IInvWindow, Invariance, PTL

(* Lines 150 and 151: slots counts the empty cells and items the full ones,  *)
(* less the units threads hold in the middle of a call, at every moment and  *)
(* for any number of callers.                                                *)
THEOREM Exact == Spec => []UnitsExact
<1>1. IInv => UnitsExact
  BY DEF IInv, UnitsExact
<1> QED
  BY <1>1, Invariance, PTL

-----------------------------------------------------------------------------
(* The answers of the tests, and the FIFO queue *)

(* The indices do not wrap. *)
IndexNat == front \in Nat

(* An inserter has its item until it has stored it, a remover none until it  *)
(* has loaded one.                                                          *)
Hands == \A t \in Threads :
    /\ at[t] \in {"ins_slots", "ins_mutex", "ins_bump", "ins_store"}
          => \E x \in Items : item[t] = {x}
    /\ at[t] \in {"rem_items", "rem_mutex", "rem_bump", "rem_load"} => item[t] = {}

(* The answers, in terms of the two indices. *)
Looked == \A t \in Threads :
    /\ at[t] = "full_unlock"  => (res[t] <=> rear - front = N)
    /\ at[t] = "empty_unlock" => (res[t] <=> front = rear)

JInv == IInv /\ IndexNat /\ Hands /\ Looked

-----------------------------------------------------------------------------
(* Arithmetic of indices *)

(* A number is its own remainder by a larger one. *)
LEMMA ModSmall == ASSUME NEW w \in Nat \ {0}, NEW x \in Nat, x < w
                  PROVE  x % w = x
OBVIOUS

(* Two indices less than a capacity apart name two cells. *)
LEMMA ModApart == ASSUME NEW a \in Nat, NEW b \in Nat, a < b, b < a + N
                  PROVE  a % N # b % N
<1> USE NAssumption
<1>1. SUFFICES ASSUME a % N = b % N PROVE FALSE
  OBVIOUS
<1>2. a = (a \div N) * N + (a % N) /\ a \div N \in Int /\ a % N \in Int
  OBVIOUS
<1>3. b = (b \div N) * N + (b % N) /\ b \div N \in Int
  OBVIOUS
<1>4. ASSUME NEW p \in Int, NEW q \in Int, NEW r \in Int, a = p * N + r, b = q * N + r
      PROVE  FALSE
  <2>1. b - a = (q - p) * N
    BY <1>4
  <2>2. q - p <= 0 => (q - p) * N <= 0
    BY <1>4
  <2>3. q - p >= 1 => (q - p) * N >= N
    BY <1>4
  <2> QED
    BY <1>4, <2>1, <2>2, <2>3
<1> QED
  BY <1>1, <1>2, <1>3, <1>4

-----------------------------------------------------------------------------
(* What a thread in its critical section knows *)

(* A thread at a statement of a critical section is the only one, so the      *)
(* counts of Oldest and Newest are 0 or 1.                                    *)
LEMMA Alone ==
    ASSUME IInv, NEW t \in Threads, at[t] \in CS
    PROVE  /\ \A u \in Threads : at[u] \in CS => u = t
           /\ at[t] = "rem_load"  => Count({"rem_load"}) = 1
           /\ at[t] # "rem_load"  => Count({"rem_load"}) = 0
           /\ at[t] = "ins_store" => Count({"ins_store"}) = 1
           /\ at[t] # "ins_store" => Count({"ins_store"}) = 0
<1>1. \A u \in Threads : at[u] \in CS => u = t
  <2>1. Count(CS) <= 1
    BY AtFinite DEF IInv, TypeOK, LockCount
  <2> QED
    BY <2>1, CountOne DEF At
<1>2. ASSUME NEW l \in CS PROVE At({l}) = IF at[t] = l THEN {t} ELSE {}
  BY <1>1, <1>2 DEF At
<1>3. Cardinality({t}) = 1 /\ Cardinality({}) = 0
  BY FS_Singleton, FS_EmptySet
<1>4. ASSUME NEW l \in CS PROVE Count({l}) = IF at[t] = l THEN 1 ELSE 0
  BY <1>2, <1>3 DEF Count
<1>5. "rem_load" \in CS /\ "ins_store" \in CS
  BY DEF CS, InsertCS, RemoveCS
<1> QED
  BY <1>1, <1>4, <1>5

(* Sizes of what the invariant speaks of. *)
LEMMA Sizes ==
    ASSUME JInv
    PROVE  /\ front \in 0 .. IntMax /\ rear \in 0 .. IntMax
           /\ front <= rear /\ rear <= front + N
           /\ N \in Nat \ {0} /\ IntMax \in Nat \ {0}
BY IInvWindow, NAssumption, BoundsAssumption DEF JInv, IInv, TypeOK, IndexNat, NoOverrun

(* The bumps do not wrap. *)
LEMMA Bumps ==
    ASSUME JInv, NEW t \in Threads
    PROVE  /\ InsBump(t) => rear' = rear + 1
           /\ RemBump(t) => front' = front + 1
<1>1. ASSUME InsBump(t) PROVE rear' = rear + 1
  <2>1. t \in At({"ins_slots", "ins_mutex", "ins_bump"})
    BY <1>1 DEF InsBump, Goto, At
  <2>2. Count({"ins_slots", "ins_mutex", "ins_bump"}) >= 1
    BY <2>1, Present
  <2>3. rear < IntMax
    BY <2>2, AtFinite, NoWrapAssumption, BoundsAssumption DEF JInv, IInv, TypeOK, RearCount
  <2> QED
    BY <1>1, <2>3, Sizes DEF InsBump, Inc
<1>2. ASSUME RemBump(t) PROVE front' = front + 1
  <2>1. t \in At({"rem_mutex", "rem_bump", "rem_load"}) /\ at[t] = "rem_bump" /\ at[t] \in CS
    BY <1>2 DEF RemBump, Goto, At, CS, RemoveCS
  <2>2. Count({"rem_mutex", "rem_bump", "rem_load"}) >= 1
    BY <2>1, Present
  <2>3. Count({"rem_load"}) = 0
    BY <2>1, Alone DEF JInv
  <2>4. front < rear
    BY <2>2, <2>3, AtFinite, Sizes DEF JInv, IInv, TypeOK, ItemsCount, Newest, Oldest
  <2> QED
    BY <1>2, <2>4, Sizes DEF RemBump, Inc
<1> QED
  BY <1>1, <1>2

-----------------------------------------------------------------------------
(* The stronger invariant *)

LEMMA InitJInv == Init => JInv
BY InitIInv DEF Init, JInv, IndexNat, Hands, Looked

LEMMA IndexStep == ASSUME JInv, [Next]_vars PROVE IndexNat'
<1>1. ASSUME NEW t \in Threads, RemBump(t) PROVE IndexNat'
  BY <1>1, Bumps DEF JInv, IndexNat
<1>2. CASE UNCHANGED front
  BY <1>2 DEF JInv, IndexNat
<1> QED
  BY <1>1, <1>2 DEF Next, vars, Insert, InsCall, InsSlots, InsLock, InsBump, InsStore,
     InsUnlock, InsItems, Remove, RemCall, RemItems, RemLock, RemLoad, RemUnlock, RemSlots,
     RemCancel, Release, Look, LookCall, FullLock, EmptyLock, FullTest, EmptyTest,
     FullUnlock, EmptyUnlock, LockMutex, UnlockMutex

(* Items are taken with a call, and given up with a store. *)
LEMMA HandsStep == ASSUME JInv, [Next]_vars PROVE Hands'
<1>a. Hands /\ at \in [Threads -> Labels] /\ item \in [Threads -> SUBSET (Items \cup {Zero})]
  BY DEF JInv, IInv, TypeOK
<1> USE DEF Hands, Goto
<1>1. ASSUME NEW t \in Threads, Insert(t) PROVE Hands'
  <2>1. ASSUME NEW x \in Items, InsCall(t, x) PROVE Hands'
    BY <1>a, <2>1 DEF InsCall
  <2>2. CASE InsSlots(t) \/ InsLock(t) \/ InsBump(t)
    BY <1>a, <2>2 DEF InsSlots, InsLock, InsBump, LockMutex
  <2>3. CASE InsStore(t)
    BY <1>a, <2>3 DEF InsStore
  <2>4. CASE InsUnlock(t) \/ InsItems(t)
    BY <1>a, <2>4 DEF InsUnlock, InsItems, UnlockMutex
  <2> QED
    BY <1>1, <2>1, <2>2, <2>3, <2>4 DEF Insert
<1>2. ASSUME NEW t \in Threads, Remove(t) PROVE Hands'
  <2>1. CASE RemCall(t) \/ RemItems(t) \/ RemLock(t) \/ RemBump(t)
    BY <1>a, <2>1 DEF RemCall, RemItems, RemLock, RemBump, LockMutex
  <2>2. CASE RemLoad(t)
    BY <1>a, <2>2 DEF RemLoad
  <2>3. CASE RemUnlock(t) \/ RemSlots(t) \/ RemCancel(t)
    BY <1>a, <2>3 DEF RemUnlock, RemSlots, RemCancel, UnlockMutex
  <2>4. CASE Release(t)
    BY <1>a, <2>4 DEF Release
  <2> QED
    BY <1>2, <2>1, <2>2, <2>3, <2>4 DEF Remove
<1>3. ASSUME NEW t \in Threads, Look(t) PROVE Hands'
  BY <1>a, <1>3 DEF Look, LookCall, FullLock, EmptyLock, FullTest, EmptyTest, FullUnlock,
     EmptyUnlock, LockMutex, UnlockMutex
<1>4. CASE UNCHANGED vars
  BY <1>a, <1>4 DEF vars
<1> QED
  BY <1>1, <1>2, <1>3, <1>4 DEF Next

(* While an answer is on its way, nobody moves an index; and the difference   *)
(* of the indices as int is their difference.                                 *)
LEMMA LookedStep == ASSUME JInv, [Next]_vars PROVE Looked'
<1>a. /\ Looked /\ at \in [Threads -> Labels] /\ res \in [Threads -> BOOLEAN]
      /\ \A t, u \in Threads : at[t] \in CS /\ at[u] \in CS => u = t
  BY Alone DEF JInv, IInv, TypeOK
<1> USE DEF Looked, Goto
<1>1. ASSUME NEW t \in Threads, InsBump(t) \/ RemBump(t) PROVE Looked'
  <2>1. /\ at[t] \in CS
        /\ \A u \in Threads : at'[u] \in {"full_unlock", "empty_unlock"} => at[u] \in CS /\ u # t
    BY <1>a, <1>1 DEF InsBump, RemBump, CS, InsertCS, RemoveCS, LookCS
  <2> QED
    BY <1>a, <2>1
<1>2. ASSUME NEW t \in Threads, FullTest(t) PROVE Looked'
  <2>1. Diff(rear, front) = rear - front
    <3>1. rear - front + IntMax + 1 \in Nat /\ rear - front + IntMax + 1 < 2 * IntMax + 2
      BY Sizes
    <3>2. (rear - front + IntMax + 1) % (2 * IntMax + 2) = rear - front + IntMax + 1
      BY <3>1, Sizes, ModSmall
    <3> QED
      BY <3>2, Sizes DEF Diff
  <2> QED
    BY <1>a, <1>2, <2>1 DEF FullTest
<1>3. ASSUME NEW t \in Threads, EmptyTest(t) PROVE Looked'
  BY <1>a, <1>3 DEF EmptyTest
<1>4. ASSUME NEW t \in Threads,
             \/ InsUnlock(t) \/ RemUnlock(t) \/ FullUnlock(t) \/ EmptyUnlock(t)
      PROVE  Looked'
  BY <1>a, <1>4 DEF InsUnlock, RemUnlock, FullUnlock, EmptyUnlock, UnlockMutex
<1>5. ASSUME NEW t \in Threads,
             \/ \E x \in Items : InsCall(t, x)
             \/ InsSlots(t) \/ InsLock(t) \/ InsStore(t) \/ InsItems(t)
      PROVE  Looked'
  BY <1>a, <1>5 DEF InsCall, InsSlots, InsLock, InsStore, InsItems, LockMutex
<1>6. ASSUME NEW t \in Threads,
             \/ RemCall(t) \/ RemItems(t) \/ RemLock(t) \/ RemLoad(t) \/ RemSlots(t)
             \/ RemCancel(t) \/ Release(t)
      PROVE  Looked'
  BY <1>a, <1>6 DEF RemCall, RemItems, RemLock, RemLoad, RemSlots, RemCancel, Release, LockMutex
<1>7. ASSUME NEW t \in Threads, LookCall(t) \/ FullLock(t) \/ EmptyLock(t) PROVE Looked'
  BY <1>a, <1>7 DEF LookCall, FullLock, EmptyLock, LockMutex
<1>8. CASE UNCHANGED vars
  BY <1>a, <1>8 DEF vars
<1> QED
  BY <1>1, <1>2, <1>3, <1>4, <1>5, <1>6, <1>7, <1>8 DEF Next, Insert, Remove, Look

LEMMA StepJInv == JInv /\ [Next]_vars => JInv'
BY StepIInv, IndexStep, HandsStep, LookedStep DEF JInv

(* The indices, the hands and the answers agree in every state. *)
THEOREM StrongInvariance == Spec => []JInv
<1> QED
  BY InitJInv, StepJInv, PTL DEF Spec

-----------------------------------------------------------------------------
(* The abstract queue *)

Cells == Items \cup {Zero}

(* A function of 1 .. k is a sequence of length k. *)
LEMMA FunctionSeq ==
    ASSUME NEW S, NEW k \in Nat, NEW f \in [1 .. k -> S]
    PROVE  f \in Seq(S) /\ Len(f) = k
<1>1. f \in Seq(S)
  BY SeqDef
<1>2. Len(f) \in Nat /\ 1 .. Len(f) = 1 .. k
  BY <1>1, LenProperties
<1> QED
  BY <1>1, <1>2

(* The queue's length is the width of the window. *)
LEMMA QueueLen ==
    ASSUME JInv
    PROVE  /\ Oldest \in Int /\ Newest \in Int /\ Newest - Oldest \in Nat
           /\ Queue \in Seq(Cells) /\ Len(Queue) = Newest - Oldest
           /\ \A i \in 1 .. Newest - Oldest : Queue[i] = buf[(Oldest + i) % N]
<1>1. /\ Count({"rem_load"}) \in Nat /\ Count({"ins_store"}) \in Nat
      /\ Count({"rem_mutex", "rem_bump", "rem_load"}) \in Nat
      /\ Count({"ins_unlock", "ins_items"}) \in Nat
  BY AtFinite
<1>2. Oldest \in Int /\ Newest \in Int
  BY <1>1, Sizes DEF Oldest, Newest
<1>3. Newest - Oldest \in Nat
  BY <1>1, <1>2 DEF JInv, IInv, TypeOK, ItemsCount
<1>4. \A i \in 1 .. Newest - Oldest : (Oldest + i) % N \in 0 .. N - 1
  BY <1>2, NAssumption
<1>5. buf \in [0 .. N - 1 -> Cells]
  BY DEF JInv, IInv, TypeOK, Cells
<1>6. Queue \in [1 .. Newest - Oldest -> Cells]
  BY <1>4, <1>5 DEF Queue
<1>7. \A i \in 1 .. Newest - Oldest : Queue[i] = buf[(Oldest + i) % N]
  BY DEF Queue
<1>8. Queue \in Seq(Cells) /\ Len(Queue) = Newest - Oldest
  <2>1. PICK k \in Nat : k = Newest - Oldest
    BY <1>3
  <2>2. Queue \in [1 .. k -> Cells]
    BY <1>6, <2>1
  <2>3. Queue \in Seq(Cells) /\ Len(Queue) = k
    BY <2>2, FunctionSeq
  <2> QED
    BY <2>1, <2>3
<1> QED
  BY <1>2, <1>3, <1>7, <1>8

(* A move between statements that neither store nor load leaves it alone. *)
LEMMA Still ==
    ASSUME JInv, NEW t \in Threads, NEW from, NEW to, Goto(t, from, to),
           from \notin {"rem_load", "ins_store"}, to \notin {"rem_load", "ins_store"},
           UNCHANGED <<buf, front, rear>>
    PROVE  Queue' = Queue
<1>1. /\ Count({"rem_load"})' = Count({"rem_load"})
      /\ Count({"ins_store"})' = Count({"ins_store"})
  <2>1. ASSUME NEW L, from \notin L, to \notin L PROVE Count(L)' = Count(L)
    BY <2>1, Move DEF JInv, IInv
  <2> QED
    BY <2>1
<1> QED
  BY <1>1 DEF Queue, Oldest, Newest

(* Nor do the bumps: a thread between a bump and its store or load is        *)
(* discounted.                                                               *)
LEMMA StillBump ==
    ASSUME JInv, NEW t \in Threads, InsBump(t) \/ RemBump(t)
    PROVE  Queue' = Queue
<1>1. Oldest' = Oldest /\ Newest' = Newest /\ buf' = buf
  <2>1. CASE InsBump(t)
    <3>1. /\ Count({"rem_load"})' = Count({"rem_load"})
          /\ Count({"ins_store"})' = Count({"ins_store"}) + 1
      BY <2>1, Move DEF JInv, IInv, InsBump
    <3> QED
      BY <2>1, <3>1, Bumps, AtFinite, Sizes DEF Oldest, Newest, InsBump
  <2>2. CASE RemBump(t)
    <3>1. /\ Count({"ins_store"})' = Count({"ins_store"})
          /\ Count({"rem_load"})' = Count({"rem_load"}) + 1
      BY <2>2, Move DEF JInv, IInv, RemBump
    <3> QED
      BY <2>2, <3>1, Bumps, AtFinite, Sizes DEF Oldest, Newest, RemBump
  <2> QED
    BY <2>1, <2>2
<1> QED
  BY <1>1 DEF Queue

(* The store of sbuf_insert is a Put. *)
LEMMA StorePuts ==
    ASSUME JInv, JInv', NEW t \in Threads, InsStore(t)
    PROVE  BQ!Put(t)
<1>1. PICK x \in Items : item[t] = {x}
  BY DEF InsStore, Goto, JInv, Hands
<1>2. at[t] = "ins_store" /\ at[t] \in CS
  BY DEF InsStore, Goto, CS, InsertCS
<1>3. Oldest = front /\ Newest = rear - 1
  BY <1>2, Alone, Sizes DEF JInv, Oldest, Newest
<1>4. Oldest' = front /\ Newest' = rear
  <2>1. /\ Count({"rem_load"})' = Count({"rem_load"})
        /\ Count({"ins_store"})' = Count({"ins_store"}) - 1
    BY Move DEF JInv, IInv, InsStore
  <2> QED
    BY <1>2, <2>1, Alone, Sizes DEF InsStore, JInv, Oldest, Newest
<1>5. rear - front \in Nat \ {0} /\ front \in Nat /\ rear \in Nat /\ rear - front <= N
  BY <1>3, QueueLen, Sizes
<1>6. CMod(rear) = rear % N
  BY <1>5 DEF CMod
<1>7. buf' = [i \in 0 .. N - 1 |-> IF i = rear % N THEN x ELSE buf[i]]
  BY <1>1, <1>6 DEF InsStore
<1>8. /\ Queue \in Seq(Cells) /\ Len(Queue) = rear - front - 1
      /\ \A i \in 1 .. rear - front - 1 : Queue[i] = buf[(front + i) % N]
  BY <1>3, <1>5, QueueLen
<1>9. /\ Queue' \in Seq(Cells) /\ Len(Queue') = rear - front
      /\ \A i \in 1 .. rear - front : Queue'[i] = buf'[(front + i) % N]
  <2> DEFINE P == /\ Queue \in Seq(Cells) /\ Len(Queue) = Newest - Oldest
                  /\ \A i \in 1 .. Newest - Oldest : Queue[i] = buf[(Oldest + i) % N]
  <2>1. P'
    BY QueueLen, PTL
  <2> QED
    BY <1>4, <2>1 DEF Cells
<1>10. ASSUME NEW i \in 1 .. rear - front
       PROVE  Queue'[i] = IF i = rear - front THEN x ELSE Queue[i]
  <2>1. Queue'[i] = buf'[(front + i) % N]
    BY <1>9
  <2>2. front + i \in Nat /\ (front + i) % N \in 0 .. N - 1
    BY <1>5, NAssumption
  <2>3. CASE i = rear - front
    BY <1>5, <1>7, <2>1, <2>2, <2>3
  <2>4. CASE i # rear - front
    <3>1. (front + i) % N # rear % N
      <4>1. front + i < rear /\ rear < front + i + N /\ rear \in Nat
        BY <1>5, <2>4, NAssumption
      <4> QED
        BY <4>1, <2>2, ModApart
    <3>2. Queue[i] = buf[(front + i) % N]
      BY <1>5, <1>8, <2>4
    <3> QED
      BY <1>7, <2>1, <2>2, <2>4, <3>1, <3>2
  <2> QED
    BY <2>3, <2>4
<1>11. Queue' = Append(Queue, x)
  <2>1. x \in Cells
    BY DEF Cells
  <2>2. /\ Append(Queue, x) \in Seq(Cells) /\ Len(Append(Queue, x)) = rear - front
        /\ \A i \in 1 .. rear - front :
              Append(Queue, x)[i] = IF i = rear - front THEN x ELSE Queue[i]
    BY <1>5, <1>8, <2>1
  <2> QED
    BY <1>9, <1>10, <2>2, SeqEqual
<1>12. Len(Queue) < N
  BY <1>5, <1>8, NAssumption
<1> QED
  BY <1>1, <1>11, <1>12 DEF BQ!Put, InsStore

(* The load of sbuf_remove is a Take. *)
LEMMA LoadTakes ==
    ASSUME JInv, JInv', NEW t \in Threads, RemLoad(t)
    PROVE  BQ!Take(t)
<1>1. item[t] = {} /\ item \in [Threads -> SUBSET Cells]
  BY DEF RemLoad, Goto, JInv, Hands, IInv, TypeOK, Cells
<1>2. at[t] = "rem_load" /\ at[t] \in CS
  BY DEF RemLoad, Goto, CS, RemoveCS
<1>3. Oldest = front - 1 /\ Newest = rear
  BY <1>2, Alone, Sizes DEF JInv, Oldest, Newest
<1>4. Oldest' = front /\ Newest' = rear /\ buf' = buf
  <2>1. /\ Count({"ins_store"})' = Count({"ins_store"})
        /\ Count({"rem_load"})' = Count({"rem_load"}) - 1
    BY Move DEF JInv, IInv, RemLoad
  <2> QED
    BY <1>2, <2>1, Alone, Sizes DEF RemLoad, JInv, Oldest, Newest
<1>5. rear - front \in Nat /\ front \in Nat /\ rear \in Nat
  BY Sizes
<1>6. /\ Queue \in Seq(Cells) /\ Len(Queue) = rear - front + 1
      /\ \A i \in 1 .. rear - front + 1 : Queue[i] = buf[(front - 1 + i) % N]
  BY <1>3, <1>5, QueueLen
<1>7. /\ Queue' \in Seq(Cells) /\ Len(Queue') = rear - front
      /\ \A i \in 1 .. rear - front : Queue'[i] = buf[(front + i) % N]
  <2> DEFINE P == /\ Queue \in Seq(Cells) /\ Len(Queue) = Newest - Oldest
                  /\ \A i \in 1 .. Newest - Oldest : Queue[i] = buf[(Oldest + i) % N]
  <2>1. P'
    BY QueueLen, PTL
  <2> QED
    BY <1>4, <2>1 DEF Cells
<1>8. Queue # <<>>
  BY <1>5, <1>6
<1>9. Queue' = Tail(Queue)
  <2>1. /\ Tail(Queue) \in Seq(Cells) /\ Len(Tail(Queue)) = rear - front
        /\ \A i \in 1 .. rear - front : Tail(Queue)[i] = Queue[i + 1]
    BY <1>5, <1>6, <1>8
  <2>2. ASSUME NEW i \in 1 .. rear - front PROVE Tail(Queue)[i] = buf[(front + i) % N]
    <3>1. i + 1 \in 1 .. rear - front + 1 /\ front - 1 + (i + 1) = front + i
      BY <1>5
    <3>2. Queue[i + 1] = buf[(front - 1 + (i + 1)) % N]
      BY <1>6, <3>1
    <3> QED
      BY <2>1, <3>1, <3>2
  <2> QED
    BY <1>7, <2>1, <2>2, SeqEqual
<1>10. Head(Queue) = buf[CMod(front)] /\ CMod(front) >= 0
  <2>1. CMod(front) = front % N /\ front % N >= 0
    BY <1>5, NAssumption DEF CMod
  <2>2. 1 \in 1 .. rear - front + 1 /\ front - 1 + 1 = front
    BY <1>5
  <2>3. Queue[1] = buf[(front - 1 + 1) % N]
    BY <1>6, <2>2
  <2>4. Head(Queue) = Queue[1]
    BY <1>6, <1>8
  <2> QED
    BY <2>1, <2>2, <2>3, <2>4
<1>11. item' = [item EXCEPT ![t] = {Head(Queue)}]
  BY <1>10 DEF RemLoad
<1> QED
  BY <1>1, <1>8, <1>9, <1>11 DEF BQ!Take

-----------------------------------------------------------------------------
(* sbuf implements BoundedQueue *)

LEMMA InitQueue == Init => BQ!Init
<1> SUFFICES ASSUME Init PROVE BQ!Init
  OBVIOUS
<1>1. At({"rem_load"}) = {} /\ At({"ins_store"}) = {}
  BY DEF Init, At
<1>2. Count({"rem_load"}) = 0 /\ Count({"ins_store"}) = 0
  BY <1>1, FS_EmptySet DEF Count
<1>3. Oldest = 0 /\ Newest = 0
  BY <1>2 DEF Init, Oldest, Newest
<1>4. Queue = <<>>
  BY <1>3 DEF Queue
<1> QED
  BY <1>4 DEF Init, BQ!Init

(* The three steps of one thread of the queue that are not Obtain. *)
LEMMA OfThread ==
    ASSUME NEW t \in Threads, BQ!Dispose(t) \/ BQ!Put(t) \/ BQ!Take(t)
    PROVE  BQ!Next
BY Zenon DEF BQ!Next

(* Every step is a step of the queue, or a stutter. *)
LEMMA StepQueue == JInv /\ JInv' /\ [Next]_vars => [BQ!Next]_(BQ!vars)
<1> SUFFICES ASSUME JInv, JInv', [Next]_vars
             PROVE  BQ!Next \/ UNCHANGED <<Queue, item>>
  BY DEF BQ!vars
<1>1. ASSUME NEW t \in Threads, Insert(t) PROVE BQ!Next \/ UNCHANGED <<Queue, item>>
  <2>1. ASSUME NEW x \in Items, InsCall(t, x) PROVE BQ!Next
    <3>1. Queue' = Queue
      BY <2>1, Still DEF InsCall
    <3>2. BQ!Obtain(t, x)
      BY <2>1, <3>1 DEF InsCall, BQ!Obtain
    <3> QED
      BY <3>2 DEF BQ!Next
  <2>2. CASE InsSlots(t)
    BY <2>2, Still DEF InsSlots
  <2>3. CASE InsLock(t)
    BY <2>3, Still DEF InsLock, LockMutex
  <2>4. CASE InsBump(t)
    BY <2>4, StillBump DEF InsBump
  <2>5. CASE InsStore(t)
    BY <2>5, StorePuts, OfThread
  <2>6. CASE InsUnlock(t)
    BY <2>6, Still DEF InsUnlock, UnlockMutex
  <2>7. CASE InsItems(t)
    BY <2>7, Still DEF InsItems
  <2> QED
    BY <1>1, <2>1, <2>2, <2>3, <2>4, <2>5, <2>6, <2>7 DEF Insert
<1>2. ASSUME NEW t \in Threads, Remove(t) PROVE BQ!Next \/ UNCHANGED <<Queue, item>>
  <2>1. CASE RemCall(t)
    BY <2>1, Still DEF RemCall
  <2>2. CASE RemItems(t)
    BY <2>2, Still DEF RemItems
  <2>3. CASE RemLock(t)
    BY <2>3, Still DEF RemLock, LockMutex
  <2>4. CASE RemBump(t)
    BY <2>4, StillBump DEF RemBump
  <2>5. CASE RemLoad(t)
    BY <2>5, LoadTakes, OfThread
  <2>6. CASE RemUnlock(t)
    BY <2>6, Still DEF RemUnlock, UnlockMutex
  <2>7. CASE RemSlots(t)
    BY <2>7, Still DEF RemSlots
  <2>8. CASE RemCancel(t)
    BY <2>8, Still DEF RemCancel
  <2>9. CASE Release(t)
    <3>1. Queue' = Queue
      BY <2>9 DEF Release, Queue, Newest, Oldest, Count, At
    <3>2. BQ!Dispose(t)
      BY <2>9, <3>1 DEF Release, BQ!Dispose
    <3> QED
      BY <3>2, OfThread
  <2> QED
    BY <1>2, <2>1, <2>2, <2>3, <2>4, <2>5, <2>6, <2>7, <2>8, <2>9 DEF Remove
<1>3. ASSUME NEW t \in Threads, Look(t) PROVE UNCHANGED <<Queue, item>>
  <2>1. CASE LookCall(t)
    BY <2>1, Still DEF LookCall
  <2>2. CASE FullLock(t) \/ EmptyLock(t)
    BY <2>2, Still DEF FullLock, EmptyLock, LockMutex
  <2>3. CASE FullTest(t) \/ EmptyTest(t)
    BY <2>3, Still DEF FullTest, EmptyTest
  <2>4. CASE FullUnlock(t) \/ EmptyUnlock(t)
    BY <2>4, Still DEF FullUnlock, EmptyUnlock, UnlockMutex
  <2> QED
    BY <1>3, <2>1, <2>2, <2>3, <2>4 DEF Look
<1>4. CASE UNCHANGED vars
  BY <1>4 DEF vars, Queue, Newest, Oldest, Count, At
<1> QED
  BY <1>1, <1>2, <1>3, <1>4 DEF Next

(* Lines 133 and 141: what isFULL and isEMPTY are about to return is true of  *)
(* the queue until they release the lock, whatever inserts and removes wait.  *)
THEOREM LooksExact == Spec => []LookExact
<1>1. JInv => LookExact
  <2> SUFFICES ASSUME JInv, NEW t \in Threads
               PROVE  /\ at[t] = "full_unlock"  => (res[t] <=> Len(Queue) = N)
                      /\ at[t] = "empty_unlock" => (res[t] <=> Queue = <<>>)
    BY DEF LookExact
  <2>1. ASSUME at[t] \in {"full_unlock", "empty_unlock"} PROVE Len(Queue) = rear - front
    <3>1. at[t] \in CS /\ at[t] # "rem_load" /\ at[t] # "ins_store"
      BY <2>1 DEF CS, LookCS
    <3>2. Oldest = front /\ Newest = rear
      BY <3>1, Alone, Sizes DEF JInv, Oldest, Newest
    <3> QED
      BY <3>2, QueueLen
  <2>2. Queue = <<>> <=> Len(Queue) = 0
    BY QueueLen, EmptySeq
  <2>3. front \in Int /\ rear \in Int
    BY Sizes
  <2> QED
    BY <2>1, <2>2, <2>3 DEF JInv, Looked
<1> QED
  BY <1>1, StrongInvariance, PTL

(* "bounded, shared FIFO buffer with n slots" (line 144), for any number of   *)
(* threads, any n and cancelled removes: sbuf_insert and sbuf_remove are the   *)
(* indivisible Put and Take of a FIFO queue.                                   *)
THEOREM Implements == Spec => FIFO
<1> QED
  BY InitQueue, StepQueue, StrongInvariance, PTL DEF Spec, FIFO, BQ!Spec
=============================================================================
