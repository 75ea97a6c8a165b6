-------------------------- MODULE ThreadPoolProofs --------------------------
(***************************************************************************)
(* Proofs that change_thread keeps the records of the pool, that halving   *)
(* the pool cuts no service short, and that the buffer's units and order   *)
(* survive it, for every set of workers, capacity and MAXTHREAD.           *)
(***************************************************************************)
EXTENDS ThreadPool, FiniteSetTheorems, SequenceTheorems, TLAPS

(* The sizes nthreads can have. *)
PoolSizes == CHOOSE S \in SUBSET (1 .. MaxThreads) : IsSizes(S)

(* The indices of threads[] whose worker was cancelled in this halving, and   *)
(* the others that are filled.                                               *)
Halving  == chgAt \in {"lock", "cancel", "unlock"}
Given(s) == /\ Halving /\ nthreads \div 2 <= s
            /\ s < i \/ (s = i /\ chgAt = "unlock")
Kept     == {s \in Used : ~Given(s)}

(* The workers between P and V of their mutex; neither dead nor cancelled,    *)
(* they are Working.                                                         *)
Holding   == {"items_enter", "items_wait", "take", "post", "serve", "close", "unlock"}
Held(s)   == Working(tid[s]) /\ at[tid[s]] \in Holding
ChgHas(s) == chgAt \in {"cancel", "unlock"} /\ i = s

PoolType == /\ nthreads \in PoolSizes
            /\ lock \in [Slots -> Nat] /\ tid \in [Slots -> Workers]
            /\ at \in [Workers -> Labels] /\ idx \in [Workers -> Slots]
            /\ cancel \in [Workers -> BOOLEAN]
            /\ chgAt \in {"full", "empty", "create", "lock", "cancel", "unlock", "absent"}
            /\ i \in 0 .. MaxThreads

(* Where the loops of change_thread are. *)
ChgLoops == /\ Halving => /\ nthreads # 1 /\ nthreads \div 2 <= i /\ i <= nthreads
                          /\ chgAt # "lock" => i < nthreads
            /\ chgAt = "create" => /\ 2 * nthreads \in PoolSizes
                                   /\ nthreads <= i /\ i <= 2 * nthreads

(* threads[] and the workers agree. *)
PoolAgrees == /\ \A s, u \in Used : tid[s] = tid[u] => s = u
              /\ \A s \in Used : idx[tid[s]] = s
              /\ \A s \in Kept : ~cancel[tid[s]]
              /\ \A w \in Workers : Working(w) => idx[w] \in Kept /\ tid[idx[w]] = w

(* A slot's mutex is down while its worker or change_thread holds it, which  *)
(* are never both.                                                           *)
LocksExact == \A s \in Used : /\ lock[s] \in {0, 1}
                              /\ Held(s) \/ ChgHas(s) => lock[s] = 0
                              /\ ~(Held(s) /\ ChgHas(s))

PInv == PoolType /\ ChgLoops /\ PoolAgrees /\ LocksExact /\ NeverCutShort

-----------------------------------------------------------------------------
(* The sizes are between 1 and MAXTHREAD, closed under doubling and halving. *)
LEMMA Sizes == /\ PoolSizes \in SUBSET (1 .. MaxThreads) /\ 1 \in PoolSizes
               /\ \A m \in PoolSizes : /\ m # MaxThreads => 2 * m \in PoolSizes
                                       /\ m # 1 => m \div 2 \in PoolSizes
BY PowerAssumption DEF PoolSizes, IsSizes

(* The indices in use are indices of threads[]. *)
LEMMA Ranges ==
    ASSUME PInv
    PROVE  /\ nthreads \in Nat \ {0} /\ nthreads <= MaxThreads /\ i \in Nat
           /\ MaxThreads \in Nat \ {0} /\ Used \subseteq Slots /\ Kept \subseteq Used
<1>1. nthreads \in 1 .. MaxThreads /\ MaxThreads \in Nat \ {0} /\ i \in Nat
  BY Sizes, ConstantsAssumption DEF PInv, PoolType
<1>2. chgAt = "create" => i <= MaxThreads
  BY <1>1 DEF PInv, PoolType
<1>3. Used \subseteq Slots /\ Kept \subseteq Used
  BY <1>1, <1>2 DEF Used, Kept, Slots
<1> QED
  BY <1>1, <1>3

(* change_thread's part of the state, when it does not move. *)
LEMMA ChgStill ==
    ASSUME UNCHANGED <<nthreads, chgAt, i>>
    PROVE  /\ Used' = Used /\ Kept' = Kept /\ ChgLoops' = ChgLoops
           /\ \A s : ChgHas(s)' = ChgHas(s)
BY DEF Used, Kept, Given, Halving, ChgLoops, ChgHas

(* A worker that neither starts nor ends, unless it was cancelled, leaves the *)
(* records as they are.                                                      *)
LEMMA WorkerMoves ==
    ASSUME PInv, NEW w \in Workers, NEW to \in Labels,
           at' = [at EXCEPT ![w] = to], at[w] # "dead", to = "dead" => cancel[w],
           UNCHANGED <<nthreads, tid, idx, cancel, chgAt, i>>
    PROVE  /\ ChgLoops' /\ PoolAgrees' /\ Used' = Used
           /\ \A u \in Workers : Working(u)' = Working(u)
           /\ \A s : ChgHas(s)' = ChgHas(s)
           /\ at' \in [Workers -> Labels]
<1>1. Used' = Used /\ Kept' = Kept /\ ChgLoops' = ChgLoops /\ \A s : ChgHas(s)' = ChgHas(s)
  BY ChgStill
<1>2. \A u \in Workers : Working(u)' = Working(u)
  BY DEF Working, PInv, PoolType
<1>3. PoolAgrees'
  <2>1. \A s \in Kept : s \in Slots /\ tid[s] \in Workers
    BY Ranges DEF PInv, PoolType
  <2> QED
    BY <1>1, <1>2, <2>1 DEF PoolAgrees, PInv
<1> QED
  BY <1>1, <1>2, <1>3 DEF PInv, PoolType

(* Nor are its locks disturbed when it stays on its side of P and V. *)
LEMMA WorkerSteps ==
    ASSUME PInv, NEW w \in Workers, NEW to \in Labels,
           at' = [at EXCEPT ![w] = to], at[w] # "dead", to = "dead" => cancel[w],
           UNCHANGED <<nthreads, lock, tid, idx, cancel, chgAt, i>>,
           to \in Holding => at[w] \in Holding \/ cancel[w],
           to \in {"dead", "lock_enter", "lock_wait", "items_enter"} \/ ~cancel[w]
    PROVE  PInv'
<1>1. /\ ChgLoops' /\ PoolAgrees' /\ Used' = Used
      /\ \A u \in Workers : Working(u)' = Working(u)
      /\ \A s : ChgHas(s)' = ChgHas(s)
      /\ at' \in [Workers -> Labels]
  BY WorkerMoves
<1>2. PoolType'
  BY <1>1 DEF PoolType, PInv
<1>3. \A s \in Used : Held(s)' => Held(s)
  <2>1. \A s \in Used : tid[s] \in Workers
    BY Ranges DEF PInv, PoolType
  <2> QED
    BY <1>1, <2>1 DEF Held, Working, PInv, PoolType
<1>4. LocksExact'
  BY <1>1, <1>3 DEF LocksExact, PInv
<1>5. NeverCutShort'
  BY DEF NeverCutShort, PInv, PoolType
<1> QED
  BY <1>1, <1>2, <1>4, <1>5 DEF PInv

(* A worker takes its slot's mutex, cancelled or not: it is held by nobody. *)
LEMMA LockTakeStep == ASSUME PInv, NEW w \in Workers, LockTake(w) PROVE PInv'
<1> USE DEF LockTake, Move
<1>1. /\ ChgLoops' /\ PoolAgrees' /\ Used' = Used
      /\ \A u \in Workers : Working(u)' = Working(u)
      /\ \A s : ChgHas(s)' = ChgHas(s)
      /\ at' \in [Workers -> Labels]
  BY WorkerMoves DEF Labels, chgVars
<1>2. idx[w] \in Slots /\ lock \in [Slots -> Nat]
  BY DEF PInv, PoolType
<1>3. PoolType'
  BY <1>1, <1>2 DEF PoolType, PInv, chgVars
<1>4. LocksExact'
  <2> SUFFICES ASSUME NEW s \in Used
               PROVE  /\ lock'[s] \in {0, 1}
                      /\ Held(s)' \/ ChgHas(s) => lock'[s] = 0
                      /\ ~(Held(s)' /\ ChgHas(s))
    BY <1>1 DEF LocksExact
  <2>1. s \in Slots /\ tid[s] \in Workers
    BY Ranges DEF PInv, PoolType
  <2>2. /\ lock[s] \in {0, 1}
        /\ Held(s) \/ ChgHas(s) => lock[s] = 0
        /\ ~(Held(s) /\ ChgHas(s))
    BY DEF PInv, LocksExact
  <2>3. CASE s = idx[w]
    <3>1. lock[s] > 0 /\ lock'[s] = lock[s] - 1
      BY <1>2, <2>1, <2>3
    <3>2. lock[s] = 1
      BY <2>2, <3>1
    <3> QED
      BY <2>2, <3>1, <3>2
  <2>4. CASE s # idx[w]
    <3>1. lock'[s] = lock[s]
      BY <1>2, <2>1, <2>4
    <3>2. tid[s] # w
      BY <2>4 DEF PInv, PoolAgrees
    <3>3. Held(s)' = Held(s)
      BY <2>1, <3>2 DEF Held, Working, PInv, PoolType
    <3> QED
      BY <2>2, <3>1, <3>3
  <2> QED
    BY <2>3, <2>4
<1>5. NeverCutShort'
  BY DEF NeverCutShort, PInv, PoolType
<1> QED
  BY <1>1, <1>3, <1>4, <1>5 DEF PInv

(* A worker that gives a mutex back has not been cancelled, and holds it.   *)
LEMMA LockPostStep == ASSUME PInv, NEW w \in Workers, LockPost(w) PROVE PInv'
<1> USE DEF LockPost, Move
<1>1. /\ ChgLoops' /\ PoolAgrees' /\ Used' = Used
      /\ \A u \in Workers : Working(u)' = Working(u)
      /\ \A s : ChgHas(s)' = ChgHas(s)
      /\ at' \in [Workers -> Labels]
  BY WorkerMoves DEF Labels, chgVars
<1>2. idx[w] \in Slots /\ lock \in [Slots -> Nat]
  BY DEF PInv, PoolType
<1>3. PoolType'
  BY <1>1, <1>2 DEF PoolType, PInv, chgVars
<1>4. Working(w)
  BY DEF PInv, NeverCutShort, Working
<1>5. idx[w] \in Used /\ tid[idx[w]] = w
  BY <1>4, Ranges DEF PInv, PoolAgrees
<1>6. Held(idx[w])
  BY <1>4, <1>5 DEF Held, Holding
<1>7. LocksExact'
  <2> SUFFICES ASSUME NEW s \in Used
               PROVE  /\ lock'[s] \in {0, 1}
                      /\ Held(s)' \/ ChgHas(s) => lock'[s] = 0
                      /\ ~(Held(s)' /\ ChgHas(s))
    BY <1>1 DEF LocksExact
  <2>1. s \in Slots /\ tid[s] \in Workers
    BY Ranges DEF PInv, PoolType
  <2>2. /\ lock[s] \in {0, 1}
        /\ Held(s) \/ ChgHas(s) => lock[s] = 0
        /\ ~(Held(s) /\ ChgHas(s))
    BY DEF PInv, LocksExact
  <2>3. CASE s = idx[w]
    <3>1. lock'[s] = 1 /\ ~ChgHas(s)
      BY <1>2, <1>6, <2>1, <2>2, <2>3
    <3>2. at'[tid'[s]] = "lock_enter"
      BY <1>5, <2>3 DEF PInv, PoolType
    <3>3. ~Held(s)'
      BY <3>2 DEF Held, Holding
    <3> QED
      BY <3>1, <3>3
  <2>4. CASE s # idx[w]
    <3>1. lock'[s] = lock[s]
      BY <1>2, <2>1, <2>4
    <3>2. tid[s] # w
      BY <2>4 DEF PInv, PoolAgrees
    <3>3. Held(s)' = Held(s)
      BY <2>1, <3>2 DEF Held, Working, PInv, PoolType
    <3> QED
      BY <2>2, <3>1, <3>3
  <2> QED
    BY <2>3, <2>4
<1>8. NeverCutShort'
  BY DEF NeverCutShort, PInv, PoolType
<1> QED
  BY <1>1, <1>3, <1>7, <1>8 DEF PInv

(* Every step of a worker. *)
LEMMA RunStep == ASSUME PInv, NEW w \in Workers, Run(w) PROVE PInv'
<1> USE DEF Move, Labels, Holding, poolVars, chgVars
<1>a. cancel[w] => at[w] \in {"dead", "lock_enter", "lock_wait", "items_enter"}
  BY DEF PInv, NeverCutShort
<1>1. CASE LockEnter(w)
  BY <1>1, WorkerSteps DEF LockEnter
<1>2. CASE LockTake(w)
  BY <1>2, LockTakeStep
<1>3. CASE ItemsEnter(w)
  BY <1>3, WorkerSteps DEF ItemsEnter
<1>4. CASE ItemsTake(w)
  BY <1>a, <1>4, WorkerSteps DEF ItemsTake
<1>5. CASE Take(w)
  BY <1>5, WorkerSteps DEF Take
<1>6. CASE SlotsPost(w)
  BY <1>a, <1>6, WorkerSteps DEF SlotsPost
<1>7. CASE Serve(w)
  BY <1>7, WorkerSteps DEF Serve
<1>8. CASE Close(w)
  BY <1>8, WorkerSteps DEF Close
<1>9. CASE LockPost(w)
  BY <1>9, LockPostStep
<1>10. CASE Die(w)
  BY <1>10, WorkerSteps DEF Die
<1> QED
  BY <1>1, <1>2, <1>3, <1>4, <1>5, <1>6, <1>7, <1>8, <1>9, <1>10 DEF Run, Loop

-----------------------------------------------------------------------------
(* change_thread, one lemma for each of its steps *)

(* A step that only moves change_thread, and neither hands out nor gives up a *)
(* slot or a mutex.                                                          *)
LEMMA ChgMoves ==
    ASSUME PInv, PoolType', ChgLoops', UNCHANGED <<lock, tid, workerVars>>,
           Kept' = Kept, Used' = Used, \A s : ChgHas(s)' = ChgHas(s)
    PROVE  PInv'
<1>1. /\ \A w \in Workers : Working(w)' = Working(w)
      /\ \A s \in Used : Held(s)' = Held(s)
  BY DEF Working, Held, workerVars
<1>2. PoolAgrees'
  <2>1. \A s \in Kept : cancel'[tid[s]] = cancel[tid[s]]
    BY DEF Working, workerVars
  <2> QED
    BY <1>1, <2>1 DEF PInv, PoolAgrees, workerVars
<1>3. LocksExact'
  BY <1>1 DEF PInv, LocksExact
<1>4. NeverCutShort'
  BY DEF PInv, NeverCutShort, workerVars
<1> QED
  BY <1>2, <1>3, <1>4 DEF PInv

(* The decisions, and the end of growing, move change_thread only. *)
LEMMA ChgFullStep == ASSUME PInv, ChgFull PROVE PInv'
<1> USE DEF ChgFull, poolVars
<1>1. PoolType'
  BY Ranges DEF PInv, PoolType, workerVars
<1>2. ChgLoops'
  BY Ranges, Sizes DEF PInv, PoolType, ChgLoops, Halving
<1>3. Kept' = Kept /\ Used' = Used /\ \A s : ChgHas(s)' = ChgHas(s)
  BY DEF Kept, Used, Given, Halving, ChgHas
<1> QED
  BY <1>1, <1>2, <1>3, ChgMoves

LEMMA ChgDoubleStep == ASSUME PInv, ChgDouble PROVE PInv'
<1> USE DEF ChgDouble
<1>1. PoolType'
  BY DEF PInv, PoolType, ChgLoops, workerVars
<1>2. ChgLoops'
  BY DEF ChgLoops, Halving
<1>3. Kept' = Kept /\ Used' = Used /\ \A s : ChgHas(s)' = ChgHas(s)
  BY DEF Kept, Used, Given, Halving, ChgHas
<1> QED
  BY <1>1, <1>2, <1>3, ChgMoves

LEMMA ChgEmptyStep == ASSUME PInv, ChgEmpty PROVE PInv'
<1> USE DEF ChgEmpty, poolVars
<1>1. nthreads \div 2 \in 0 .. MaxThreads /\ nthreads \div 2 <= nthreads
  BY Ranges
<1>2. PoolType'
  BY <1>1 DEF PInv, PoolType, workerVars
<1>3. ChgLoops'
  BY <1>1 DEF ChgLoops, Halving
<1>4. \A s \in Used : ~Given(s)' /\ ~Given(s)
  BY <1>1, Ranges DEF Given, Halving, Used
<1>5. Used' = Used /\ \A s : ChgHas(s)' = ChgHas(s)
  BY DEF Used, ChgHas
<1>6. Kept' = Kept
  BY <1>4, <1>5 DEF Kept
<1> QED
  BY <1>2, <1>3, <1>5, <1>6, ChgMoves

(* The last worker has been cancelled: the lower half remains. *)
LEMMA ChgHalveStep == ASSUME PInv, ChgHalve PROVE PInv'
<1> USE DEF ChgHalve
<1>1. nthreads \div 2 \in PoolSizes
  BY Sizes DEF PInv, PoolType, ChgLoops, Halving
<1>2. PoolType'
  BY <1>1 DEF PInv, PoolType, workerVars
<1>3. ChgLoops'
  BY DEF ChgLoops, Halving
<1>4. nthreads \div 2 \in Nat /\ nthreads \div 2 <= nthreads
  BY Ranges
<1>5. Used' \subseteq Used /\ Used' = Kept /\ Kept' = Used'
  BY <1>4, Ranges DEF Used, Kept, Given, Halving
<1>6. /\ \A w \in Workers : Working(w)' = Working(w)
      /\ \A s : Held(s)' = Held(s)
      /\ \A s : ~ChgHas(s)' /\ ~ChgHas(s)
  BY DEF Working, Held, ChgHas, workerVars
<1>7. PoolAgrees'
  <2>1. \A s \in Kept : cancel'[tid[s]] = cancel[tid[s]]
    BY DEF Working, workerVars
  <2> QED
    BY <1>5, <1>6, <2>1 DEF PInv, PoolAgrees, workerVars
<1>8. LocksExact'
  BY <1>5, <1>6 DEF PInv, LocksExact
<1>9. NeverCutShort'
  BY DEF PInv, NeverCutShort, workerVars
<1> QED
  BY <1>2, <1>3, <1>7, <1>8, <1>9 DEF PInv

(* change_thread takes the mutex of the next worker, which therefore is not   *)
(* between P and V.                                                          *)
LEMMA ChgLockStep == ASSUME PInv, ChgLock PROVE PInv'
<1> USE DEF ChgLock
<1>1. i \in Used /\ i \in Slots
  BY Ranges DEF Used
<1>2. PoolType'
  BY <1>1 DEF PInv, PoolType, workerVars
<1>3. ChgLoops'
  BY DEF PInv, ChgLoops, Halving
<1>4. Used' = Used /\ Kept' = Kept
  BY DEF Used, Kept, Given, Halving
<1>5. /\ \A w \in Workers : Working(w)' = Working(w)
      /\ \A s : Working(tid[s])' = Working(tid[s])
      /\ \A s : Held(s)' = Held(s)
      /\ \A s : ~ChgHas(s) /\ (ChgHas(s)' <=> s = i)
  BY DEF Working, Held, ChgHas, workerVars
<1>6. PoolAgrees'
  BY <1>4, <1>5 DEF PInv, PoolAgrees, workerVars
<1>7. LocksExact'
  <2> SUFFICES ASSUME NEW s \in Used
               PROVE  /\ lock'[s] \in {0, 1}
                      /\ Held(s) \/ s = i => lock'[s] = 0
                      /\ ~(Held(s) /\ s = i)
    BY <1>4, <1>5 DEF LocksExact
  <2>1. s \in Slots /\ lock \in [Slots -> Nat]
    BY Ranges DEF PInv, PoolType
  <2>2. lock[s] \in {0, 1} /\ (Held(s) => lock[s] = 0)
    BY DEF PInv, LocksExact
  <2>3. CASE s = i
    <3>1. lock[s] > 0 /\ lock'[s] = lock[s] - 1
      BY <2>1, <2>3
    <3>2. lock[s] = 1
      BY <2>2, <3>1
    <3> QED
      BY <2>2, <3>1, <3>2
  <2>4. CASE s # i
    <3>1. lock'[s] = lock[s]
      BY <2>1, <2>4
    <3> QED
      BY <2>2, <2>4, <3>1
  <2> QED
    BY <2>3, <2>4
<1>8. NeverCutShort'
  BY DEF PInv, NeverCutShort, workerVars
<1> QED
  BY <1>2, <1>3, <1>6, <1>7, <1>8 DEF PInv

(* The worker whose mutex it holds waits for that mutex, or is about to. *)
LEMMA ChgCancelStep == ASSUME PInv, ChgCancel PROVE PInv'
<1> USE DEF ChgCancel
<1>1. /\ i \in Used /\ i \in Slots /\ i \in Nat
      /\ nthreads \div 2 <= i /\ i < nthreads /\ nthreads \in Nat \ {0}
  BY Ranges DEF PInv, ChgLoops, Halving, Used
<1>2. i \in Kept /\ ChgHas(i)
  BY <1>1 DEF Kept, Given, ChgHas
<1>3. tid[i] \in Workers /\ ~cancel[tid[i]] /\ ~Held(i)
  BY <1>1, <1>2 DEF PInv, PoolType, PoolAgrees, LocksExact
<1>4. at[tid[i]] \in {"dead", "lock_enter", "lock_wait"}
  BY <1>3 DEF PInv, PoolType, Held, Working, Holding, Labels
<1>5. PoolType'
  BY DEF PInv, PoolType, poolVars
<1>6. ChgLoops'
  BY DEF PInv, ChgLoops, Halving, poolVars
<1>7. Used' = Used /\ Kept' = Kept \ {i}
  BY <1>1 DEF Used, Kept, Given, Halving, poolVars
<1>8. \A w \in Workers : Working(w)' <=> Working(w) /\ w # tid[i]
  BY DEF Working, PInv, PoolType
<1>9. \A s \in Used : tid[s] \in Workers /\ (tid[s] = tid[i] => s = i)
  BY <1>1, Ranges DEF PInv, PoolType, PoolAgrees
<1>10. PoolAgrees'
  <2>1. \A s, u \in Used' : tid'[s] = tid'[u] => s = u
    BY <1>7 DEF PInv, PoolAgrees, poolVars
  <2>2. \A s \in Used' : idx'[tid'[s]] = s
    BY <1>7 DEF PInv, PoolAgrees, poolVars
  <2>3. \A s \in Kept' : ~cancel'[tid'[s]]
    <3>1. \A s \in Kept' : ~cancel[tid[s]] /\ tid[s] \in Workers /\ tid[s] # tid[i]
      BY <1>7, <1>9, Ranges DEF PInv, PoolAgrees
    <3> QED
      BY <3>1 DEF Working, PInv, PoolType, poolVars
  <2>4. \A w \in Workers : Working(w)' => idx'[w] \in Kept' /\ tid'[idx'[w]] = w
    BY <1>7, <1>8 DEF PInv, PoolAgrees, poolVars
  <2> QED
    BY <2>1, <2>2, <2>3, <2>4 DEF PoolAgrees, poolVars
<1>11. LocksExact'
  <2>1. \A s \in Used : Held(s)' => Held(s)
    BY <1>9 DEF Held, Working, PInv, PoolType, poolVars
  <2>2. \A s : ChgHas(s)' = ChgHas(s)
    BY DEF ChgHas
  <2> QED
    BY <1>7, <2>1, <2>2 DEF PInv, LocksExact, poolVars
<1>12. NeverCutShort'
  BY <1>4 DEF PInv, NeverCutShort, PoolType
<1> QED
  BY <1>5, <1>6, <1>10, <1>11, <1>12 DEF PInv

(* The worker of slot i is given up, and no lock is held for it any more.   *)
LEMMA ChgUnlockStep == ASSUME PInv, ChgUnlock PROVE PInv'
<1> USE DEF ChgUnlock
<1>1. i \in Used /\ i \in Slots /\ i < nthreads /\ nthreads \in Nat \ {0} /\ i \in Nat
  BY Ranges DEF PInv, ChgLoops, Halving, Used
<1>2. PoolType'
  BY <1>1, Ranges DEF PInv, PoolType, workerVars
<1>3. ChgLoops'
  BY <1>1 DEF PInv, ChgLoops, Halving
<1>4. Used' = Used
  BY DEF Used
<1>5. Kept' = Kept
  <2>1. \A s \in Used : s \in Nat
    BY Ranges DEF Slots
  <2>2. \A s \in Used : Given(s)' = Given(s)
    BY <1>1, <2>1 DEF Given, Halving
  <2> QED
    BY <1>4, <2>2 DEF Kept
<1>6. /\ \A w \in Workers : Working(w)' = Working(w)
      /\ \A s : Working(tid[s])' = Working(tid[s])
      /\ \A s : Held(s)' = Held(s)
      /\ \A s : ~ChgHas(s)' /\ (ChgHas(s) <=> s = i)
  BY DEF Working, Held, ChgHas, workerVars
<1>7. PoolAgrees'
  BY <1>4, <1>5, <1>6 DEF PInv, PoolAgrees, workerVars
<1>8. LocksExact'
  <2> SUFFICES ASSUME NEW s \in Used
               PROVE  /\ lock'[s] \in {0, 1}
                      /\ Held(s) => lock'[s] = 0
    BY <1>4, <1>6 DEF LocksExact
  <2>1. s \in Slots /\ lock \in [Slots -> Nat]
    BY Ranges DEF PInv, PoolType
  <2>2. /\ lock[s] \in {0, 1}
        /\ Held(s) \/ s = i => lock[s] = 0
        /\ ~(Held(s) /\ s = i)
    BY <1>6 DEF PInv, LocksExact
  <2>3. lock'[s] = IF s = i THEN lock[s] + 1 ELSE lock[s]
    BY <2>1
  <2> QED
    BY <2>2, <2>3
<1>9. NeverCutShort'
  BY DEF PInv, NeverCutShort, workerVars
<1> QED
  BY <1>2, <1>3, <1>7, <1>8, <1>9 DEF PInv

(* A new worker gets the next slot; its identity is in no slot in use. *)
LEMMA ChgCreateStep == ASSUME PInv, ChgCreate PROVE PInv'
<1> USE DEF ChgCreate
<1>1. PICK w \in Unused, l \in Started :
         /\ tid' = [tid EXCEPT ![i] = w]
         /\ at' = [at EXCEPT ![w] = l]
         /\ idx' = [idx EXCEPT ![w] = i]
         /\ cancel' = [cancel EXCEPT ![w] = FALSE]
         /\ fd' = [fd EXCEPT ![w] = {}]
  OBVIOUS
<1>2. w \in Workers /\ at[w] = "dead" /\ ~Working(w)
  BY DEF Unused, Working
<1>3. /\ 2 * nthreads \in PoolSizes /\ 2 * nthreads <= MaxThreads
      /\ i \in Slots /\ nthreads <= i /\ i < 2 * nthreads /\ i \in Nat /\ nthreads \in Nat
  BY Sizes, Ranges DEF PInv, ChgLoops, Slots
<1>a. l \in {"lock_enter", "dead"}
  BY DEF Started
<1>4. PoolType'
  BY <1>1, <1>2, <1>3, <1>a, Ranges DEF PInv, PoolType, Labels
<1>5. ChgLoops'
  BY <1>3 DEF ChgLoops, Halving
<1>6. Used = 0 .. i - 1 /\ Kept = Used /\ Used' = Used \cup {i} /\ Kept' = Used' /\ i \notin Used
  BY <1>3 DEF Used, Kept, Given, Halving
<1>7. \A s \in Used : s \in Slots /\ tid[s] \in Workers /\ ~cancel[tid[s]] /\ tid[s] # w
  BY <1>6, Ranges DEF PInv, PoolType, PoolAgrees, Unused
<1>8. \A s \in Used : s # i /\ tid'[s] = tid[s]
  BY <1>1, <1>6, <1>7 DEF PInv, PoolType
<1>9. tid'[i] = w /\ idx'[w] = i /\ at'[w] \in {"lock_enter", "dead"} /\ ~cancel'[w]
  BY <1>1, <1>a, <1>2, <1>3 DEF PInv, PoolType
<1>10. \A u \in Workers \ {w} : at'[u] = at[u] /\ idx'[u] = idx[u] /\ cancel'[u] = cancel[u]
  BY <1>1 DEF PInv, PoolType
<1>11. PoolAgrees'
  <2>1. \A s, u \in Used' : tid'[s] = tid'[u] => s = u
    BY <1>6, <1>7, <1>8, <1>9 DEF PInv, PoolAgrees
  <2>2. ASSUME NEW s \in Used' PROVE idx'[tid'[s]] = s
    <3>1. CASE s = i
      BY <1>9, <3>1
    <3>2. CASE s \in Used
      <4>1. tid'[s] = tid[s] /\ tid[s] \in Workers \ {w} /\ idx[tid[s]] = s
        BY <1>7, <1>8, <3>2 DEF PInv, PoolAgrees
      <4> QED
        BY <1>10, <4>1
    <3> QED
      BY <1>6, <3>1, <3>2
  <2>3. \A s \in Kept' : ~cancel'[tid'[s]]
    BY <1>6, <1>7, <1>8, <1>9, <1>10
  <2>4. ASSUME NEW u \in Workers, Working(u)' PROVE idx'[u] \in Kept' /\ tid'[idx'[u]] = u
    <3>1. CASE u = w
      BY <1>6, <1>9, <3>1
    <3>2. CASE u # w
      <4>1. Working(u) /\ idx'[u] = idx[u]
        BY <1>10, <2>4, <3>2 DEF Working
      <4>2. idx[u] \in Used /\ tid[idx[u]] = u
        BY <1>6, <4>1 DEF PInv, PoolAgrees
      <4> QED
        BY <1>6, <1>8, <4>1, <4>2
    <3> QED
      BY <3>1, <3>2
  <2> QED
    BY <2>1, <2>2, <2>3, <2>4 DEF PoolAgrees
<1>12. LocksExact'
  <2>1. \A s : ~ChgHas(s)'
    BY DEF ChgHas
  <2>2. lock'[i] = 1 /\ \A s \in Used : lock'[s] = lock[s]
    BY <1>3, <1>7, <1>8 DEF PInv, PoolType
  <2>3. \A s : s = i => ~Held(s)'
    BY <1>9 DEF Held, Holding
  <2>4. \A s \in Used : Held(s)' => Held(s)
    BY <1>7, <1>8, <1>10 DEF Held, Working
  <2> QED
    BY <1>6, <2>1, <2>2, <2>3, <2>4 DEF PInv, LocksExact
<1>13. NeverCutShort'
  BY <1>9, <1>10 DEF PInv, NeverCutShort
<1> QED
  BY <1>4, <1>5, <1>11, <1>12, <1>13 DEF PInv

LEMMA ChangeStep == ASSUME PInv, Change PROVE PInv'
BY ChgFullStep, ChgCreateStep, ChgDoubleStep, ChgEmptyStep, ChgLockStep, ChgCancelStep,
   ChgUnlockStep, ChgHalveStep DEF Change

-----------------------------------------------------------------------------
(* init has filled slot 0. *)
LEMMA InitPInv == Init => PInv
<1> SUFFICES ASSUME Init PROVE PInv
  OBVIOUS
<1> USE DEF Init
<1>1. 0 \in Slots /\ MaxThreads \in Nat \ {0} /\ First \in Workers
  BY ConstantsAssumption DEF Slots
<1>2. PoolType
  BY <1>1, Sizes DEF PoolType, Labels, Started
<1>3. ChgLoops
  BY DEF ChgLoops, Halving
<1>4. Used = {0} /\ Kept = {0}
  BY DEF Used, Kept, Given, Halving
<1>5. tid[0] = First /\ idx[First] = 0 /\ lock[0] = 1 /\ at[First] \in {"lock_enter", "dead"}
  BY <1>1 DEF Started
<1>6. \A w \in Workers : ~cancel[w] /\ (Working(w) => w = First)
  BY <1>1 DEF Working
<1>7. PoolAgrees
  BY <1>1, <1>4, <1>5, <1>6 DEF PoolAgrees
<1>8. LocksExact
  BY <1>4, <1>5 DEF LocksExact, Held, ChgHas, Holding
<1>9. NeverCutShort
  BY DEF NeverCutShort
<1> QED
  BY <1>2, <1>3, <1>7, <1>8, <1>9 DEF PInv

(* What main does, and the end of the process, leave the pool alone. *)
LEMMA StillPInv ==
    ASSUME PInv, UNCHANGED <<poolVars, workerVars, chgVars>>
    PROVE  PInv'
<1> USE DEF poolVars, workerVars, chgVars
<1>1. PoolType' /\ ChgLoops'
  BY DEF PInv, PoolType, ChgLoops, Halving
<1>2. Kept' = Kept /\ Used' = Used /\ \A s : ChgHas(s)' = ChgHas(s)
  BY ChgStill
<1> QED
  BY <1>1, <1>2, ChgMoves

(* Every step keeps the records of the pool. *)
LEMMA StepPInv == PInv /\ [Next]_vars => PInv'
<1> SUFFICES ASSUME PInv, [Next]_vars PROVE PInv'
  OBVIOUS
<1>1. CASE Accept \/ Insert
  BY <1>1, StillPInv DEF Accept, Insert, MainSlots, MainPut, MainItems
<1>2. CASE Change
  BY <1>2, ChangeStep
<1>3. ASSUME NEW w \in Workers, Run(w) PROVE PInv'
  BY <1>3, RunStep
<1>4. ASSUME NEW w \in Workers, ServeExits(w) PROVE PInv'
  BY <1>4, StillPInv DEF ServeExits
<1>5. CASE UNCHANGED vars
  BY <1>5, StillPInv DEF vars
<1> QED
  BY <1>1, <1>2, <1>3, <1>4, <1>5 DEF Next

(* The records of the pool, its mutexes and its workers agree in every state. *)
THEOREM PoolInvariance == Spec => []PInv
<1> QED
  BY InitPInv, StepPInv, PTL DEF Spec

(* "ensure the thread would not be affected" (line 120): for every MAXTHREAD  *)
(* and any number of resizings, no worker is cancelled between its            *)
(* sbuf_remove and the V of its mutex.                                        *)
THEOREM NotCutShort == Spec => []NeverCutShort
<1>1. PInv => NeverCutShort
  BY DEF PInv
<1> QED
  BY <1>1, PoolInvariance, PTL

(* Whenever change_thread decides, the workers it counts are distinct, none   *)
(* of them cancelled, each in the slot it was told, and no other worker goes  *)
(* on.                                                                       *)
THEOREM SizeExact == Spec => []PoolSize
<1>1. PInv => PoolSize
  <2> SUFFICES ASSUME PInv, chgAt \in {"full", "empty"}
               PROVE  /\ \A s, u \in 0 .. nthreads - 1 : tid[s] = tid[u] => s = u
                      /\ \A s \in 0 .. nthreads - 1 : idx[tid[s]] = s /\ ~cancel[tid[s]]
                      /\ {w \in Workers : Working(w)} \subseteq Pool
    BY DEF PoolSize
  <2>1. Used = 0 .. nthreads - 1 /\ Kept = Used
    BY DEF Used, Kept, Given, Halving
  <2>2. \A s \in Used : tid[s] \in Workers
    BY Ranges DEF PInv, PoolType
  <2>3. {w \in Workers : Working(w)} \subseteq Pool
    BY <2>1 DEF PInv, PoolAgrees, Pool
  <2> QED
    BY <2>1, <2>3 DEF PInv, PoolAgrees
<1> QED
  BY <1>1, PoolInvariance, PTL

-----------------------------------------------------------------------------
(* The buffer and the connections *)

Fds == Conns \cup {NoFd}
BufType == /\ queue \in Seq(Fds) /\ slots \in Nat /\ items \in Nat
           /\ accepted \subseteq Conns /\ closed \subseteq Fds
           /\ mainAt \in {"accept", "slots", "put", "items"}
           /\ mainFd \subseteq Fds /\ fd \in [Workers -> SUBSET Fds]
           /\ exited \in BOOLEAN

(* main has a descriptor from accept until it is in the buffer, a worker from *)
(* sbuf_remove until close.                                                  *)
Serving == {"post", "serve", "close"}
Hands == /\ mainAt \in {"slots", "put"} => \E x \in Fds : mainFd = {x}
         /\ mainAt \in {"accept", "items"} => mainFd = {}
         /\ \A w \in Workers : IF at[w] \in Serving THEN \E x \in Fds : fd[w] = {x}
                                                    ELSE fd[w] = {}

(* Only an accepted connection is closed. *)
ClosedOnes == closed \cap Conns \subseteq accepted

QInv == PInv /\ BufType /\ Units /\ Hands /\ NoConnLost /\ ClosedOnes

(* The numbers of the invariants, and what they are of. *)
Posting == Cardinality(In({"post"}))
Taking  == Cardinality(In({"take"}))

LEMMA Numbers ==
    ASSUME QInv
    PROVE  /\ Posting \in Nat /\ Taking \in Nat /\ Len(queue) \in Nat /\ DOMAIN queue = 1 .. Len(queue)
           /\ \A c : /\ IsFiniteSet(InBuffer(c)) /\ Cardinality(InBuffer(c)) \in Nat
                     /\ IsFiniteSet(WithWorker(c)) /\ Cardinality(WithWorker(c)) \in Nat
<1>1. Len(queue) \in Nat /\ DOMAIN queue = 1 .. Len(queue)
  BY DEF QInv, BufType
<1>2. IsFiniteSet(1 .. Len(queue)) /\ IsFiniteSet(Workers)
  BY <1>1, FS_Interval, ConstantsAssumption
<1>3. \A c : IsFiniteSet(InBuffer(c)) /\ IsFiniteSet(WithWorker(c))
  BY <1>1, <1>2, FS_Subset DEF InBuffer, WithWorker
<1>4. IsFiniteSet(In({"post"})) /\ IsFiniteSet(In({"take"}))
  BY <1>2, FS_Subset DEF In
<1> QED
  BY <1>1, <1>3, <1>4, FS_CardinalityType DEF Posting, Taking

(* A worker with a descriptor is alive. *)
LEMMA Alive == ASSUME Hands PROVE \A c : WithWorker(c) = {w \in Workers : c \in fd[w]}
BY DEF Hands, WithWorker, Serving

(* The two halves of the type invariant. *)
LEMMA QTypeOK == QInv => TypeOK
BY Ranges DEF QInv, BufType, PInv, PoolType, TypeOK, Fds

(* A step that neither moves a connection nor counts a unit of the buffer. *)
LEMMA Unmoved ==
    ASSUME QInv, PInv', UNCHANGED <<sbufVars, mainVars, closed, fd>>, exited' \in BOOLEAN,
           \A w \in Workers : /\ at'[w] = "post" <=> at[w] = "post"
                              /\ at'[w] = "take" <=> at[w] = "take"
                              /\ at'[w] \in Serving <=> at[w] \in Serving
    PROVE  QInv'
<1> USE DEF sbufVars, mainVars
<1>1. BufType' /\ ClosedOnes'
  BY DEF QInv, BufType, ClosedOnes
<1>2. In({"post"})' = In({"post"}) /\ In({"take"})' = In({"take"})
  BY DEF In
<1>3. Units'
  BY <1>2 DEF QInv, Units
<1>4. Hands'
  BY DEF QInv, Hands
<1>5. \A c : InBuffer(c)' = InBuffer(c) /\ WithWorker(c)' = WithWorker(c)
  <2>1. \A w \in Workers : fd[w] # {} => at[w] # "dead" /\ at'[w] # "dead"
    BY DEF QInv, Hands, Serving
  <2> QED
    BY <2>1 DEF InBuffer, WithWorker
<1>6. NoConnLost'
  BY <1>5 DEF QInv, NoConnLost
<1> QED
  BY <1>1, <1>3, <1>4, <1>6 DEF QInv

(* How the two counts change when a worker moves. *)
LEMMA CountMoves ==
    ASSUME QInv, NEW w \in Workers, NEW to, at' = [at EXCEPT ![w] = to], NEW l
    PROVE  Cardinality(In({l}))' = Cardinality(In({l})) + (IF to = l THEN 1 ELSE 0)
                                                        - (IF at[w] = l THEN 1 ELSE 0)
<1> DEFINE A == In({l})
           B == {u \in Workers : at'[u] = l}
<1>1. In({l})' = B /\ A = {u \in Workers : at[u] = l}
  BY DEF In
<1>2. at'[w] = to /\ \A u \in Workers \ {w} : at'[u] = at[u]
  BY DEF QInv, PInv, PoolType
<1>3. IsFiniteSet(A) /\ Cardinality(A) \in Nat /\ IsFiniteSet(Workers)
  BY <1>1, ConstantsAssumption, FS_Subset, FS_CardinalityType
<1>a. Cardinality(In({l}))' = Cardinality(B) /\ Cardinality(In({l})) = Cardinality(A)
  BY <1>1
<1> HIDE DEF A, B
<1>4. CASE to = l /\ at[w] # l
  <2>1. B = A \cup {w} /\ w \notin A
    BY <1>1, <1>2, <1>4 DEF B
  <2>2. Cardinality(B) = Cardinality(A) + 1
    BY <1>3, <2>1, FS_AddElement
  <2> QED
    BY <1>a, <1>3, <1>4, <2>2
<1>5. CASE to # l /\ at[w] = l
  <2>1. B = A \ {w} /\ w \in A
    BY <1>1, <1>2, <1>5 DEF B
  <2>2. Cardinality(B) = Cardinality(A) - 1
    BY <1>3, <2>1, FS_RemoveElement
  <2> QED
    BY <1>a, <1>3, <1>5, <2>2
<1>6. CASE to = l <=> at[w] = l
  <2>1. B = A
    BY <1>1, <1>2, <1>6 DEF B
  <2> QED
    BY <1>a, <1>3, <1>6, <2>1
<1> QED
  BY <1>4, <1>5, <1>6

(* Appending to the buffer adds its last position, to those of one item. *)
LEMMA AppendPositions ==
    ASSUME NEW q \in Seq(Fds), NEW x \in Fds, NEW c
    PROVE  {p \in DOMAIN Append(q, x) : Append(q, x)[p] = c}
              = {p \in DOMAIN q : q[p] = c} \cup (IF x = c THEN {Len(q) + 1} ELSE {})
<1>1. /\ Len(q) \in Nat /\ DOMAIN q = 1 .. Len(q) /\ DOMAIN Append(q, x) = 1 .. Len(q) + 1
      /\ \A p \in 1 .. Len(q) + 1 : Append(q, x)[p] = IF p = Len(q) + 1 THEN x ELSE q[p]
  OBVIOUS
<1> QED
  BY <1>1

(* Removing the oldest item takes one position from that item, and moves the  *)
(* others down by one.                                                       *)
LEMMA TailPositions ==
    ASSUME NEW q \in Seq(Fds), q # <<>>, NEW c
    PROVE  Cardinality({p \in DOMAIN Tail(q) : Tail(q)[p] = c})
              = Cardinality({p \in DOMAIN q : q[p] = c}) - (IF q[1] = c THEN 1 ELSE 0)
<1> DEFINE A == {p \in DOMAIN q : q[p] = c}
           B == {p \in DOMAIN Tail(q) : Tail(q)[p] = c}
           f == [p \in A \ {1} |-> p - 1]
<1>1. Len(q) \in Nat /\ Len(q) >= 1 /\ DOMAIN q = 1 .. Len(q)
  OBVIOUS
<1>2. /\ DOMAIN Tail(q) = 1 .. Len(q) - 1
      /\ \A p \in 1 .. Len(q) - 1 : Tail(q)[p] = q[p + 1]
  BY <1>1
<1>3. IsFiniteSet(A) /\ Cardinality(A) \in Nat
  <2>1. IsFiniteSet(1 .. Len(q)) /\ A \subseteq 1 .. Len(q)
    BY <1>1, FS_Interval
  <2> HIDE DEF A
  <2> QED
    BY <2>1, FS_Subset, FS_CardinalityType
<1>4. IsFiniteSet(A \ {1})
      /\ Cardinality(A \ {1}) = Cardinality(A) - (IF q[1] = c THEN 1 ELSE 0)
  <2>1. 1 \in A <=> q[1] = c
    BY <1>1
  <2>2. /\ IsFiniteSet(A \ {1})
        /\ Cardinality(A \ {1}) = IF 1 \in A THEN Cardinality(A) - 1 ELSE Cardinality(A)
    BY <1>3, FS_RemoveElement
  <2> HIDE DEF A
  <2> QED
    BY <1>3, <2>1, <2>2
<1>5. f \in Bijection(A \ {1}, B)
  <2>1. f \in [A \ {1} -> B]
    BY <1>1, <1>2
  <2>2. \A a, b \in A \ {1} : f[a] = f[b] => a = b
    BY <1>1
  <2>3. \A b \in B : \E a \in A \ {1} : f[a] = b
    <3>1. ASSUME NEW b \in B PROVE b + 1 \in A \ {1} /\ f[b + 1] = b
      BY <1>1, <1>2
    <3> QED
      BY <3>1
  <2> HIDE DEF f, A, B
  <2> QED
    BY <2>1, <2>2, <2>3 DEF Bijection, Injection, Surjection, IsInjective
<1>6. Cardinality(B) = Cardinality(A \ {1})
  <2> HIDE DEF f, A, B
  <2>1. ExistsBijection(A \ {1}, B)
    BY <1>5 DEF ExistsBijection
  <2> QED
    BY <1>4, <2>1, FS_Bijection
<1> QED
  BY <1>4, <1>6

-----------------------------------------------------------------------------
(* main *)

(* A step of main leaves the workers' numbers alone. *)
LEMMA MainMoves ==
    ASSUME UNCHANGED workerVars
    PROVE  /\ In({"post"})' = In({"post"}) /\ In({"take"})' = In({"take"})
           /\ \A c : WithWorker(c)' = WithWorker(c)
BY DEF In, WithWorker, workerVars

(* A connection that was nobody's is main's. *)
LEMMA AcceptStep == ASSUME QInv, PInv', Accept PROVE QInv'
<1> USE DEF Accept, sbufVars
<1>1. /\ mainAt = "accept" /\ mainAt' = "slots" /\ mainFd = {} /\ fd' = fd /\ at' = at
      /\ queue' = queue /\ slots' = slots /\ items' = items /\ closed' = closed
  BY DEF QInv, Hands, workerVars
<1>2. \/ \E c \in Conns \ accepted : mainFd' = {c} /\ accepted' = accepted \cup {c}
      \/ mainFd' = {NoFd} /\ accepted' = accepted
  OBVIOUS
<1>3. BufType' /\ ClosedOnes'
  BY <1>1, <1>2 DEF QInv, BufType, ClosedOnes, Fds
<1>4. Units'
  BY <1>1, MainMoves DEF QInv, Units
<1>5. Hands'
  BY <1>1, <1>2 DEF QInv, Hands, Fds
<1>6. ASSUME NEW c \in Conns
      PROVE  Cardinality(InBuffer(c))' + Cardinality(WithWorker(c))'
               + (IF c \in mainFd' THEN 1 ELSE 0) = IF c \in accepted' \ closed' THEN 1 ELSE 0
  <2>1. Cardinality(InBuffer(c))' = Cardinality(InBuffer(c))
        /\ Cardinality(WithWorker(c))' = Cardinality(WithWorker(c))
    BY <1>1, MainMoves DEF InBuffer
  <2>2. Cardinality(InBuffer(c)) + Cardinality(WithWorker(c))
           = IF c \in accepted \ closed THEN 1 ELSE 0
    BY <1>1, Numbers DEF QInv, NoConnLost
  <2>3. c # NoFd
    BY ConstantsAssumption
  <2>4. CASE c \in mainFd'
    <3>1. c \notin accepted /\ c \notin closed /\ c \in accepted'
      BY <1>2, <2>3, <2>4 DEF QInv, ClosedOnes
    <3> QED
      BY <1>1, <2>1, <2>2, <2>4, <3>1, Numbers
  <2>5. CASE c \notin mainFd'
    <3>1. c \in accepted' <=> c \in accepted
      BY <1>2, <2>5
    <3> QED
      BY <1>1, <2>1, <2>2, <2>5, <3>1, Numbers
  <2> QED
    BY <2>4, <2>5
<1>7. NoConnLost'
  BY <1>6 DEF NoConnLost
<1> QED
  BY <1>3, <1>4, <1>5, <1>7 DEF QInv

LEMMA MainSlotsStep == ASSUME QInv, PInv', MainSlots PROVE QInv'
<1> USE DEF MainSlots
<1>1. BufType' /\ ClosedOnes'
  BY DEF QInv, BufType, ClosedOnes, workerVars
<1>2. Units'
  BY MainMoves, Numbers DEF QInv, BufType, Units, Posting, Taking
<1>3. Hands'
  BY DEF QInv, Hands, workerVars
<1>4. NoConnLost'
  BY MainMoves DEF QInv, NoConnLost, InBuffer
<1> QED
  BY <1>1, <1>2, <1>3, <1>4 DEF QInv

LEMMA MainItemsStep == ASSUME QInv, PInv', MainItems PROVE QInv'
<1> USE DEF MainItems
<1>1. BufType' /\ ClosedOnes'
  BY DEF QInv, BufType, ClosedOnes, workerVars
<1>2. Units'
  BY MainMoves, Numbers DEF QInv, BufType, Units, Posting, Taking
<1>3. Hands'
  BY DEF QInv, Hands, workerVars
<1>4. NoConnLost'
  BY MainMoves DEF QInv, NoConnLost, InBuffer
<1> QED
  BY <1>1, <1>2, <1>3, <1>4 DEF QInv

(* main's connection is in the last cell of the buffer. *)
LEMMA MainPutStep == ASSUME QInv, PInv', MainPut PROVE QInv'
<1> USE DEF MainPut
<1>1. PICK x \in Fds : mainFd = {x} /\ queue' = Append(queue, x)
  BY DEF QInv, Hands
<1>2. queue \in Seq(Fds) /\ queue' \in Seq(Fds) /\ Len(queue') = Len(queue) + 1
  BY <1>1 DEF QInv, BufType
<1>3. BufType' /\ ClosedOnes'
  BY <1>2 DEF QInv, BufType, ClosedOnes, workerVars
<1>4. Units'
  BY <1>2, MainMoves, Numbers DEF QInv, BufType, Units, Posting, Taking
<1>5. Hands'
  BY DEF QInv, Hands, workerVars
<1>6. ASSUME NEW c \in Conns
      PROVE  Cardinality(InBuffer(c))' + Cardinality(WithWorker(c))'
               + (IF c \in mainFd' THEN 1 ELSE 0) = IF c \in accepted' \ closed' THEN 1 ELSE 0
  <2>1. Cardinality(InBuffer(c)') = Cardinality(InBuffer(c)) + (IF c \in mainFd THEN 1 ELSE 0)
    <3>1. InBuffer(c)' = InBuffer(c) \cup (IF x = c THEN {Len(queue) + 1} ELSE {})
      BY <1>1, <1>2, AppendPositions DEF InBuffer
    <3>2. Len(queue) + 1 \notin InBuffer(c)
      BY Numbers DEF InBuffer
    <3>3. CASE x = c
      <4>1. Cardinality(InBuffer(c) \cup {Len(queue) + 1}) = Cardinality(InBuffer(c)) + 1
        BY <3>2, Numbers, FS_AddElement
      <4> QED
        BY <1>1, <3>1, <3>3, <4>1
    <3>4. CASE x # c
      BY <1>1, <3>1, <3>4, Numbers
    <3> QED
      BY <3>3, <3>4
  <2>2. Cardinality(WithWorker(c))' = Cardinality(WithWorker(c))
    BY MainMoves
  <2>3. Cardinality(InBuffer(c)) + Cardinality(WithWorker(c)) + (IF c \in mainFd THEN 1 ELSE 0)
          = IF c \in accepted \ closed THEN 1 ELSE 0
    BY DEF QInv, NoConnLost
  <2> QED
    BY <2>1, <2>2, <2>3, Numbers
<1>7. NoConnLost'
  BY <1>6 DEF NoConnLost
<1> QED
  BY <1>3, <1>4, <1>5, <1>7 DEF QInv

-----------------------------------------------------------------------------
(* The workers *)

LEMMA ItemsTakeStep == ASSUME QInv, PInv', NEW w \in Workers, ItemsTake(w) PROVE QInv'
<1> USE DEF ItemsTake, Move
<1>1. /\ queue' = queue /\ slots' = slots /\ fd' = fd /\ mainAt' = mainAt /\ mainFd' = mainFd
      /\ accepted' = accepted /\ closed' = closed /\ exited' = exited
  BY DEF mainVars
<1>2. BufType' /\ ClosedOnes'
  BY <1>1 DEF QInv, BufType, ClosedOnes
<1>3. Cardinality(In({"post"}))' = Posting /\ Cardinality(In({"take"}))' = Taking + 1
  <2>1. /\ Cardinality(In({"post"}))' = Cardinality(In({"post"})) + 0 - 0
        /\ Cardinality(In({"take"}))' = Cardinality(In({"take"})) + 1 - 0
    BY CountMoves
  <2> QED
    BY <2>1, Numbers DEF Posting, Taking
<1>4. Units'
  BY <1>1, <1>3, Numbers DEF QInv, BufType, Units, Posting, Taking
<1>5. Hands'
  BY <1>1 DEF QInv, Hands, Serving, PInv, PoolType
<1>6. NoConnLost'
  BY <1>1, <1>5, Alive DEF QInv, NoConnLost, InBuffer, Hands, Serving, WithWorker
<1> QED
  BY <1>2, <1>4, <1>5, <1>6 DEF QInv

LEMMA SlotsPostStep == ASSUME QInv, PInv', NEW w \in Workers, SlotsPost(w) PROVE QInv'
<1> USE DEF SlotsPost, Move
<1>1. /\ queue' = queue /\ items' = items /\ fd' = fd /\ mainAt' = mainAt /\ mainFd' = mainFd
      /\ accepted' = accepted /\ closed' = closed /\ exited' = exited
  BY DEF mainVars
<1>2. BufType' /\ ClosedOnes'
  BY <1>1 DEF QInv, BufType, ClosedOnes
<1>3. Cardinality(In({"post"}))' = Posting - 1 /\ Cardinality(In({"take"}))' = Taking
  <2>1. /\ Cardinality(In({"post"}))' = Cardinality(In({"post"})) + 0 - 1
        /\ Cardinality(In({"take"}))' = Cardinality(In({"take"})) + 0 - 0
    BY CountMoves
  <2> QED
    BY <2>1, Numbers DEF Posting, Taking
<1>4. Units'
  BY <1>1, <1>3, Numbers DEF QInv, BufType, Units, Posting, Taking
<1>5. Hands'
  BY <1>1 DEF QInv, Hands, Serving, PInv, PoolType
<1>6. NoConnLost'
  BY <1>1, <1>5, Alive DEF QInv, NoConnLost, InBuffer, Hands, Serving, WithWorker
<1> QED
  BY <1>2, <1>4, <1>5, <1>6 DEF QInv

(* The oldest connection of the buffer is the worker's. *)
LEMMA TakeStep == ASSUME QInv, PInv', NEW w \in Workers, Take(w) PROVE QInv'
<1> USE DEF Take, Move
<1>1. /\ slots' = slots /\ items' = items /\ mainAt' = mainAt /\ mainFd' = mainFd
      /\ accepted' = accepted /\ closed' = closed /\ exited' = exited
      /\ fd[w] = {} /\ fd' = [fd EXCEPT ![w] = {queue[1]}] /\ queue' = Tail(queue)
  BY DEF mainVars, QInv, Hands, Serving
<1>2. Taking >= 1
  <2>1. w \in In({"take"}) /\ IsFiniteSet(In({"take"}))
    BY ConstantsAssumption, FS_Subset DEF In
  <2> QED
    BY <2>1, FS_EmptySet, Numbers DEF Taking
<1>3. /\ queue \in Seq(Fds) /\ queue # <<>> /\ queue[1] \in Fds
      /\ Tail(queue) \in Seq(Fds) /\ Len(Tail(queue)) = Len(queue) - 1
  <2>1. queue \in Seq(Fds) /\ Len(queue) >= 1
    BY <1>2, Numbers DEF QInv, Units, BufType, Taking
  <2> QED
    BY <2>1
<1>4. BufType' /\ ClosedOnes'
  BY <1>1, <1>3 DEF QInv, BufType, ClosedOnes
<1>5. Cardinality(In({"post"}))' = Posting + 1 /\ Cardinality(In({"take"}))' = Taking - 1
  <2>1. /\ Cardinality(In({"post"}))' = Cardinality(In({"post"})) + 1 - 0
        /\ Cardinality(In({"take"}))' = Cardinality(In({"take"})) + 0 - 1
    BY CountMoves
  <2> QED
    BY <2>1, Numbers DEF Posting, Taking
<1>6. Units'
  <2>1. Len(queue') = Len(queue) - 1 /\ mainAt' = mainAt /\ slots' = slots /\ items' = items
    BY <1>1, <1>3
  <2>2. /\ slots + Len(queue) + Posting + (IF mainAt = "put" THEN 1 ELSE 0) = N
        /\ items + Taking + (IF mainAt = "items" THEN 1 ELSE 0) = Len(queue)
    BY DEF QInv, Units, Posting, Taking
  <2>3. slots \in Nat /\ items \in Nat /\ Posting \in Nat /\ Taking \in Nat /\ Len(queue) \in Nat
    BY Numbers DEF QInv, BufType
  <2> HIDE DEF Take, Move
  <2>4. slots + Len(queue') + (Posting + 1) + (IF mainAt = "put" THEN 1 ELSE 0) = N
    BY <2>1, <2>2, <2>3
  <2>5. items + (Taking - 1) + (IF mainAt = "items" THEN 1 ELSE 0) = Len(queue')
    BY <2>1, <2>2, <2>3
  <2> QED
    BY <1>5, <2>1, <2>4, <2>5 DEF Units
<1>7. fd'[w] = {queue[1]} /\ \A u \in Workers \ {w} : fd'[u] = fd[u] /\ at'[u] = at[u]
  BY <1>1 DEF QInv, BufType, PInv, PoolType
<1>8. at'[w] = "post"
  BY DEF QInv, PInv, PoolType
<1>9. Hands'
  BY <1>1, <1>3, <1>7, <1>8 DEF QInv, Hands, Serving
<1>10. ASSUME NEW c \in Conns
       PROVE  Cardinality(InBuffer(c))' + Cardinality(WithWorker(c))'
                + (IF c \in mainFd' THEN 1 ELSE 0) = IF c \in accepted' \ closed' THEN 1 ELSE 0
  <2>1. Cardinality(InBuffer(c))' = Cardinality(InBuffer(c)) - (IF queue[1] = c THEN 1 ELSE 0)
    <3> DEFINE A == {p \in DOMAIN queue : queue[p] = c}
               B == {p \in DOMAIN Tail(queue) : Tail(queue)[p] = c}
    <3>1. Cardinality(B) = Cardinality(A) - (IF queue[1] = c THEN 1 ELSE 0)
      BY <1>3, TailPositions
    <3>2. InBuffer(c) = A /\ InBuffer(c)' = B
      BY <1>1 DEF InBuffer
    <3> HIDE DEF A, B
    <3> QED
      BY <3>1, <3>2
  <2>2. Cardinality(WithWorker(c)') = Cardinality(WithWorker(c)) + (IF queue[1] = c THEN 1 ELSE 0)
    <3>1. w \notin WithWorker(c)
      BY <1>1 DEF WithWorker
    <3>2. WithWorker(c)' = WithWorker(c) \cup (IF queue[1] = c THEN {w} ELSE {})
      BY <1>1, <1>7, <1>8 DEF WithWorker
    <3>3. Cardinality(WithWorker(c) \cup {w}) = Cardinality(WithWorker(c)) + 1
      BY <3>1, Numbers, FS_AddElement
    <3>4. CASE queue[1] = c
      BY <3>2, <3>3, <3>4
    <3>5. CASE queue[1] # c
      <4>1. WithWorker(c)' = WithWorker(c)
        BY <3>2, <3>5
      <4> QED
        BY <3>5, <4>1, Numbers
    <3> QED
      BY <3>4, <3>5
  <2>3. Cardinality(InBuffer(c)) + Cardinality(WithWorker(c)) + (IF c \in mainFd THEN 1 ELSE 0)
          = IF c \in accepted \ closed THEN 1 ELSE 0
    BY DEF QInv, NoConnLost
  <2> QED
    BY <1>1, <2>1, <2>2, <2>3, Numbers
<1>11. NoConnLost'
  BY <1>10 DEF NoConnLost
<1> QED
  BY <1>4, <1>6, <1>9, <1>11 DEF QInv

(* The worker's connection is nobody's again. *)
LEMMA CloseStep == ASSUME QInv, PInv', NEW w \in Workers, Close(w) PROVE QInv'
<1> USE DEF Close, Move
<1>1. PICK x \in Fds : fd[w] = {x}
  BY DEF QInv, Hands, Serving
<1>2. /\ queue' = queue /\ slots' = slots /\ items' = items /\ mainAt' = mainAt
      /\ mainFd' = mainFd /\ accepted' = accepted /\ closed' = closed \cup {x} /\ exited' = exited
  BY <1>1 DEF mainVars, sbufVars
<1>3. fd'[w] = {} /\ \A u \in Workers \ {w} : fd'[u] = fd[u] /\ at'[u] = at[u]
  BY DEF QInv, BufType, PInv, PoolType
<1>4. at'[w] = "unlock"
  BY DEF QInv, PInv, PoolType
<1>5. \A c : w \in WithWorker(c) <=> c = x
  BY <1>1 DEF WithWorker
<1>6. ASSUME NEW c \in Conns
      PROVE  /\ Cardinality(InBuffer(c)) + Cardinality(WithWorker(c))
                   + (IF c \in mainFd THEN 1 ELSE 0) = IF c \in accepted \ closed THEN 1 ELSE 0
             /\ c = x => Cardinality(WithWorker(c)) >= 1
  <2>1. c = x => Cardinality(WithWorker(c)) >= 1
    BY <1>5, Numbers, FS_EmptySet
  <2> QED
    BY <2>1 DEF QInv, NoConnLost
<1>7. x \in Conns => x \in accepted /\ x \notin closed
  BY <1>6, Numbers
<1>8. BufType' /\ ClosedOnes'
  BY <1>2, <1>7 DEF QInv, BufType, ClosedOnes
<1>9. Cardinality(In({"post"}))' = Posting /\ Cardinality(In({"take"}))' = Taking
  <2>1. /\ Cardinality(In({"post"}))' = Cardinality(In({"post"})) + 0 - 0
        /\ Cardinality(In({"take"}))' = Cardinality(In({"take"})) + 0 - 0
    BY CountMoves
  <2> QED
    BY <2>1, Numbers DEF Posting, Taking
<1>10. Units'
  BY <1>2, <1>9, Numbers DEF QInv, BufType, Units, Posting, Taking
<1>11. Hands'
  BY <1>2, <1>3, <1>4 DEF QInv, Hands, Serving
<1>12. ASSUME NEW c \in Conns
       PROVE  Cardinality(InBuffer(c))' + Cardinality(WithWorker(c))'
                + (IF c \in mainFd' THEN 1 ELSE 0) = IF c \in accepted' \ closed' THEN 1 ELSE 0
  <2>1. InBuffer(c)' = InBuffer(c)
    BY <1>2 DEF InBuffer
  <2>2. WithWorker(c)' = WithWorker(c) \ {w}
    BY <1>3 DEF WithWorker
  <2>3. Cardinality(WithWorker(c) \ {w})
           = IF w \in WithWorker(c) THEN Cardinality(WithWorker(c)) - 1
                                    ELSE Cardinality(WithWorker(c))
    BY Numbers, FS_RemoveElement
  <2>4. CASE c = x
    <3>1. Cardinality(WithWorker(c))' = Cardinality(WithWorker(c)) - 1
      BY <1>5, <2>2, <2>3, <2>4
    <3>2. c \notin accepted' \ closed' /\ c \in accepted \ closed /\ mainFd' = mainFd
      BY <1>2, <1>7, <2>4
    <3> QED
      BY <1>6, <2>1, <2>4, <3>1, <3>2, Numbers
  <2>5. CASE c # x
    <3>1. Cardinality(WithWorker(c))' = Cardinality(WithWorker(c))
      BY <1>5, <2>2, <2>3, <2>5
    <3>2. (c \in accepted' \ closed' <=> c \in accepted \ closed) /\ mainFd' = mainFd
      BY <1>2, <2>5
    <3> QED
      BY <1>6, <2>1, <3>1, <3>2, Numbers
  <2> QED
    BY <2>4, <2>5
<1>13. NoConnLost'
  BY <1>12 DEF NoConnLost
<1> QED
  BY <1>8, <1>10, <1>11, <1>13 DEF QInv

(* A worker that dies was cancelled, so it has no connection. *)
LEMMA RunQStep == ASSUME QInv, PInv', NEW w \in Workers, Run(w) PROVE QInv'
<1> USE DEF Move, Serving
<1>a. cancel[w] => at[w] \in {"dead", "lock_enter", "lock_wait", "items_enter"}
  BY DEF QInv, PInv, NeverCutShort
<1>b. at \in [Workers -> Labels] /\ exited \in BOOLEAN
  BY DEF QInv, PInv, PoolType, BufType
<1>1. CASE LockEnter(w)
  BY <1>b, <1>1, Unmoved DEF LockEnter
<1>2. CASE LockTake(w)
  BY <1>b, <1>2, Unmoved DEF LockTake
<1>3. CASE ItemsEnter(w)
  BY <1>b, <1>3, Unmoved DEF ItemsEnter
<1>4. CASE Serve(w)
  BY <1>b, <1>4, Unmoved DEF Serve
<1>5. CASE LockPost(w)
  BY <1>b, <1>5, Unmoved DEF LockPost
<1>6. CASE Die(w)
  BY <1>a, <1>b, <1>6, Unmoved DEF Die
<1> QED
  BY <1>1, <1>2, <1>3, <1>4, <1>5, <1>6, ItemsTakeStep, TakeStep, SlotsPostStep, CloseStep DEF Run, Loop

(* change_thread; a new worker's connfd is empty, as its predecessor's was. *)
LEMMA ChangeQStep == ASSUME QInv, PInv', Change PROVE QInv'
<1>b. exited \in BOOLEAN
  BY DEF QInv, BufType
<1>1. CASE ChgCreate
  <2>1. PICK w \in Unused, l \in {"lock_enter", "dead"} :
           at' = [at EXCEPT ![w] = l] /\ fd' = [fd EXCEPT ![w] = {}]
    BY <1>1 DEF ChgCreate, Started
  <2>2. w \in Workers /\ at[w] = "dead" /\ fd[w] = {}
    BY DEF Unused, QInv, Hands, Serving
  <2>3. fd' = fd
    BY <2>1, <2>2 DEF QInv, BufType
  <2>4. \A u \in Workers : at'[u] = IF u = w THEN l ELSE at[u]
    BY <2>1 DEF QInv, PInv, PoolType
  <2> QED
    BY <1>b, <1>1, <2>2, <2>3, <2>4, Unmoved DEF ChgCreate, Serving
<1>2. CASE ChgFull \/ ChgEmpty
  BY <1>b, <1>2, Unmoved DEF ChgFull, ChgEmpty, workerVars
<1>3. CASE ChgDouble \/ ChgHalve
  BY <1>b, <1>3, Unmoved DEF ChgDouble, ChgHalve, workerVars
<1>4. CASE ChgLock \/ ChgCancel \/ ChgUnlock
  BY <1>b, <1>4, Unmoved DEF ChgLock, ChgCancel, ChgUnlock, workerVars
<1> QED
  BY <1>1, <1>2, <1>3, <1>4 DEF Change

-----------------------------------------------------------------------------
(* The buffer is empty, no connection accepted. *)
LEMMA InitQInv == Init => QInv
<1> SUFFICES ASSUME Init PROVE QInv
  OBVIOUS
<1> USE DEF Init
<1>0. Cardinality({}) = 0 /\ Len(queue) = 0 /\ N \in Nat
  BY FS_EmptySet, ConstantsAssumption
<1>1. PInv /\ BufType /\ ClosedOnes
  <2>1. PInv
    BY InitPInv
  <2>2. queue \in Seq(Fds) /\ fd \in [Workers -> SUBSET Fds]
    OBVIOUS
  <2> QED
    BY <1>0, <2>1, <2>2 DEF BufType, ClosedOnes
<1>a. \A w \in Workers : at[w] \in {"lock_enter", "dead"}
  BY DEF Started
<1>2. In({"post"}) = {} /\ In({"take"}) = {}
  BY <1>a DEF In
<1>3. Units
  <2>1. slots = N /\ items = 0 /\ mainAt = "accept"
    OBVIOUS
  <2>2. Cardinality(In({"post"})) = 0 /\ Cardinality(In({"take"})) = 0
    BY <1>0, <1>2
  <2> HIDE DEF Init
  <2> QED
    BY <1>0, <2>1, <2>2 DEF Units
<1>4. Hands
  BY <1>a DEF Hands, Serving
<1>5. \A c : InBuffer(c) = {} /\ WithWorker(c) = {}
  BY DEF InBuffer, WithWorker
<1>6. NoConnLost
  <2>1. mainFd = {} /\ accepted = {}
    OBVIOUS
  <2>2. \A c : Cardinality(InBuffer(c)) = 0 /\ Cardinality(WithWorker(c)) = 0
    BY <1>0, <1>5
  <2> HIDE DEF Init
  <2> QED
    BY <2>1, <2>2 DEF NoConnLost
<1> QED
  BY <1>1, <1>3, <1>4, <1>6 DEF QInv

(* Every step keeps the buffer's units and the connections. *)
LEMMA StepQInv == QInv /\ [Next]_vars => QInv'
<1> SUFFICES ASSUME QInv, [Next]_vars PROVE QInv'
  OBVIOUS
<1>a. PInv'
  BY StepPInv DEF QInv
<1>1. CASE Accept
  BY <1>a, <1>1, AcceptStep
<1>2. CASE Insert
  BY <1>a, <1>2, MainSlotsStep, MainPutStep, MainItemsStep DEF Insert
<1>3. CASE Change
  BY <1>a, <1>3, ChangeQStep
<1>4. ASSUME NEW w \in Workers, Run(w) PROVE QInv'
  BY <1>a, <1>4, RunQStep
<1>5. ASSUME NEW w \in Workers, ServeExits(w) PROVE QInv'
  BY <1>a, <1>5, Unmoved DEF ServeExits, workerVars
<1>6. CASE UNCHANGED vars
  BY <1>a, <1>6, Unmoved DEF vars, workerVars, QInv, BufType
<1> QED
  BY <1>1, <1>2, <1>3, <1>4, <1>5, <1>6 DEF Next

(* The buffer, its semaphores and the keepers of connections agree in every    *)
(* state.                                                                     *)
THEOREM BufferInvariance == Spec => []QInv
<1> QED
  BY InitQInv, StepQInv, PTL DEF Spec

(* For every SBUFSIZE: the variables keep their types, and the buffer's        *)
(* semaphores count its cells and connections although workers are cancelled  *)
(* while they wait for them.                                                  *)
THEOREM SemaphoresExact == Spec => []WellFormed
<1>1. QInv => WellFormed
  BY QTypeOK DEF QInv, WellFormed
<1> QED
  BY <1>1, BufferInvariance, PTL

(* For any number of connections: one that is accepted is kept by exactly one *)
(* of main, the buffer and the workers until it is closed.                    *)
THEOREM NothingLost == Spec => []NoConnLost
<1>1. QInv => NoConnLost
  BY DEF QInv
<1> QED
  BY <1>1, BufferInvariance, PTL

-----------------------------------------------------------------------------
(* The buffer implements BoundedQueue *)

Callers == Workers \cup {Main}
Hand    == [t \in Callers |-> IF t = Main THEN mainFd ELSE fd[t]]

(* What a change of one caller's hand is, in terms of main and the workers. *)
LEMMA HandOf ==
    ASSUME BufType
    PROVE  /\ Hand[Main] = mainFd
           /\ \A w \in Workers : w # Main /\ w \in Callers /\ Hand[w] = fd[w]
           /\ \A S : mainFd' = S /\ fd' = fd => Hand' = [Hand EXCEPT ![Main] = S]
           /\ \A w \in Workers : \A S : mainFd' = mainFd /\ fd' = [fd EXCEPT ![w] = S]
                                       => Hand' = [Hand EXCEPT ![w] = S]
<1>1. Main \notin Workers
  BY ConstantsAssumption
<1>2. Hand[Main] = mainFd /\ \A w \in Workers : w # Main /\ w \in Callers /\ Hand[w] = fd[w]
  BY <1>1 DEF Hand, Callers
<1>3. ASSUME NEW S, mainFd' = S, fd' = fd PROVE Hand' = [Hand EXCEPT ![Main] = S]
  BY <1>1, <1>3 DEF Hand, Callers
<1>4. ASSUME NEW w \in Workers, NEW S, mainFd' = mainFd, fd' = [fd EXCEPT ![w] = S]
      PROVE  Hand' = [Hand EXCEPT ![w] = S]
  BY <1>1, <1>4 DEF Hand, Callers, BufType
<1> QED
  BY <1>2, <1>3, <1>4

(* A step that leaves the buffer and every hand alone is a stutter. *)
LEMMA Stutter ==
    ASSUME queue' = queue, mainFd' = mainFd, fd' = fd
    PROVE  UNCHANGED <<queue, Hand>>
BY DEF Hand

LEMMA InitBuffer == Init => Buffer!Init
BY DEF Init, Buffer!Init

LEMMA AcceptObtains == ASSUME QInv, Accept PROVE Buffer!Next
<1>1. PICK x \in Fds : mainFd' = {x}
  BY DEF Accept, Fds
<1>2. mainFd = {} /\ queue' = queue /\ fd' = fd /\ BufType
  BY DEF Accept, sbufVars, workerVars, QInv, Hands
<1>3. Hand[Main] = {} /\ Hand' = [Hand EXCEPT ![Main] = {x}]
  BY <1>1, <1>2, HandOf
<1>4. Buffer!Obtain(Main, x)
  BY <1>2, <1>3 DEF Buffer!Obtain, Hand, Callers
<1> QED
  BY <1>4 DEF Buffer!Next, Fds

LEMMA PutPuts == ASSUME QInv, MainPut PROVE Buffer!Next
<1>1. PICK x \in Fds : mainFd = {x} /\ queue' = Append(queue, x) /\ mainFd' = {}
  BY DEF QInv, Hands, MainPut
<1>2. fd' = fd /\ BufType
  BY DEF MainPut, workerVars, QInv
<1>3. Hand[Main] = {x} /\ Hand' = [Hand EXCEPT ![Main] = {}]
  BY <1>1, <1>2, HandOf
<1>4. Len(queue) < N
  <2>1. slots + Len(queue) + Posting + 1 = N
    BY DEF QInv, Units, MainPut, Posting
  <2>2. slots \in Nat /\ Len(queue) \in Nat /\ Posting \in Nat /\ N \in Nat
    BY Numbers, ConstantsAssumption DEF QInv, BufType
  <2> QED
    BY <2>1, <2>2
<1>5. Buffer!Put(Main)
  BY <1>1, <1>3, <1>4 DEF Buffer!Put, Hand, Callers
<1> QED
  BY <1>5 DEF Buffer!Next

LEMMA TakeTakes == ASSUME QInv, NEW w \in Workers, Take(w) PROVE Buffer!Next
<1>1. /\ queue' = Tail(queue) /\ fd[w] = {} /\ fd' = [fd EXCEPT ![w] = {queue[1]}]
      /\ mainFd' = mainFd /\ BufType
  BY DEF Take, Move, mainVars, QInv, Hands, Serving
<1>2. queue # <<>> /\ Head(queue) = queue[1]
  <2>1. Taking >= 1
    <3>1. w \in In({"take"}) /\ IsFiniteSet(In({"take"}))
      BY ConstantsAssumption, FS_Subset DEF In, Take, Move
    <3> QED
      BY <3>1, FS_EmptySet, Numbers DEF Taking
  <2>2. queue \in Seq(Fds) /\ Len(queue) >= 1
    BY <2>1, Numbers DEF QInv, Units, BufType, Taking
  <2> QED
    BY <2>2
<1>3. w \in Callers /\ Hand[w] = {} /\ Hand' = [Hand EXCEPT ![w] = {Head(queue)}]
  BY <1>1, <1>2, HandOf
<1>4. Buffer!Take(w)
  BY <1>1, <1>2, <1>3 DEF Buffer!Take, Hand, Callers
<1> QED
  BY <1>3, <1>4 DEF Buffer!Next, Callers

LEMMA CloseDisposes == ASSUME QInv, NEW w \in Workers, Close(w) PROVE Buffer!Next
<1>1. /\ queue' = queue /\ fd[w] # {} /\ fd' = [fd EXCEPT ![w] = {}]
      /\ mainFd' = mainFd /\ BufType
  BY DEF Close, Move, mainVars, sbufVars, QInv, Hands, Serving
<1>2. w \in Callers /\ Hand[w] # {} /\ Hand' = [Hand EXCEPT ![w] = {}]
  BY <1>1, HandOf
<1>3. Buffer!Dispose(w)
  BY <1>1, <1>2 DEF Buffer!Dispose, Hand, Callers
<1> QED
  BY <1>2, <1>3 DEF Buffer!Next, Callers

(* Every other step neither touches the buffer nor a hand: a new worker's     *)
(* hand is empty as that of the dead thread was.                              *)
LEMMA StepBuffer == QInv /\ [Next]_vars => [Buffer!Next]_(Buffer!vars)
<1> SUFFICES ASSUME QInv, [Next]_vars
             PROVE  Buffer!Next \/ UNCHANGED <<queue, Hand>>
  BY DEF Buffer!vars, Hand, Callers
<1>1. CASE Accept \/ Insert
  <2>1. CASE MainSlots \/ MainItems
    BY <2>1, Stutter DEF MainSlots, MainItems, workerVars
  <2> QED
    BY <1>1, <2>1, AcceptObtains, PutPuts DEF Insert
<1>2. CASE Change
  <2>1. CASE ChgCreate
    <3>1. PICK w \in Unused : fd' = [fd EXCEPT ![w] = {}]
      BY <2>1 DEF ChgCreate
    <3>2. fd[w] = {} /\ fd' = fd
      BY <3>1 DEF Unused, QInv, Hands, Serving, BufType
    <3> QED
      BY <2>1, <3>2, Stutter DEF ChgCreate, sbufVars, mainVars
  <2>2. CASE ChgFull \/ ChgEmpty \/ ChgDouble \/ ChgHalve
    BY <2>2, Stutter DEF ChgFull, ChgEmpty, ChgDouble, ChgHalve, sbufVars, mainVars, workerVars
  <2>3. CASE ChgLock \/ ChgCancel \/ ChgUnlock
    BY <2>3, Stutter DEF ChgLock, ChgCancel, ChgUnlock, sbufVars, mainVars, workerVars
  <2> QED
    BY <1>2, <2>1, <2>2, <2>3 DEF Change
<1>3. ASSUME NEW w \in Workers, Run(w) PROVE Buffer!Next \/ UNCHANGED <<queue, Hand>>
  <2>1. CASE LockEnter(w) \/ LockTake(w) \/ ItemsEnter(w) \/ LockPost(w) \/ Die(w)
    BY <2>1, Stutter DEF LockEnter, LockTake, ItemsEnter, LockPost, Die, sbufVars, mainVars
  <2>2. CASE ItemsTake(w) \/ SlotsPost(w) \/ Serve(w)
    BY <2>2, Stutter DEF ItemsTake, SlotsPost, Serve, sbufVars, mainVars
  <2> QED
    BY <1>3, <2>1, <2>2, TakeTakes, CloseDisposes DEF Run, Loop
<1>4. ASSUME NEW w \in Workers, ServeExits(w) PROVE UNCHANGED <<queue, Hand>>
  BY <1>4, Stutter DEF ServeExits, sbufVars, mainVars, workerVars
<1>5. CASE UNCHANGED vars
  BY <1>5, Stutter DEF vars, sbufVars, mainVars, workerVars
<1> QED
  BY <1>1, <1>2, <1>3, <1>4, <1>5 DEF Next

(* main hands the connections to the workers through a FIFO queue of n cells, *)
(* however often change_thread resizes the pool.                              *)
THEOREM QueueImplemented == Spec => FIFO
<1> QED
  BY InitBuffer, StepBuffer, BufferInvariance, PTL DEF Spec, FIFO, Buffer!Spec
=============================================================================
