-------------------------- MODULE AllocatorsProofs --------------------------
(***************************************************************************)
(* Proofs about the two allocators for every size of the heap and of an    *)
(* int, every CHUNKSIZE and every set of requests that an unsigned int     *)
(* holds when rounded up: blocks tile the heap, the tags of each allocator *)
(* say of them what coalesce, place and find_fit rely on, and the client   *)
(* sees the abstract heap.                                                 *)
(*                                                                         *)
(* B is the set of the blocks, C that after a call; p, q and bp are        *)
(* blocks or the end, O what the client holds.  NF... is about the         *)
(* next-fit allocator, N... about the one without footers.                 *)
(***************************************************************************)
EXTENDS Allocators, WellFoundedInduction, TLAPS

-----------------------------------------------------------------------------
(* Induction along a list of blocks.  The theorems of the library take a     *)
(* predicate; these take the set of numbers it holds for.                    *)

(* A set of natural numbers that is not empty has a least element. *)
LEMMA LeastNat == ASSUME NEW T, T \subseteq Nat, T # {}
                  PROVE  \E m \in T : \A k \in T : m <= k
<1> DEFINE R == OpToRel(<, Nat)
<1>1. \A x, y \in Nat : x < y => <<x, y>> \in R
  BY DEF OpToRel
<1>2. IsWellFoundedOn(R, Nat)
  BY NatLessThanWellFounded
<1> HIDE DEF R
<1>3. PICK x \in T : \A y \in T : ~(<<y, x>> \in R)
  BY <1>2, WFMin
<1>4. ASSUME NEW y \in T PROVE x <= y
  <2>1. x \in Nat /\ y \in Nat /\ (x <= y \/ y < x)
    OBVIOUS
  <2> QED
    BY <1>1, <1>3, <2>1, Zenon
<1> QED
  BY <1>4

(* Links that lead upwards, from every member of B to another or to the end e. *)
Chain(B, e, next) == /\ e \in Nat /\ B \subseteq 0 .. e - 1
                     /\ \A b \in B : next[b] \in B \cup {e} /\ next[b] > b
(* What holds at e, and of a member when it holds of the next. *)
Inherited(G, B, e, next) == e \in G /\ \A b \in B : next[b] \in G => b \in G

(* It holds of all members. *)
LEMMA ChainInduction ==
  ASSUME NEW B, NEW e, NEW next, Chain(B, e, next), NEW G, Inherited(G, B, e, next)
  PROVE  B \subseteq G
<1> USE DEF Chain, Inherited
<1> DEFINE T == {k \in 0 .. e : e - k \in B /\ e - k \notin G}
<1>1. SUFFICES ASSUME NEW b \in B, b \notin G PROVE FALSE
  OBVIOUS
<1>2. e - b \in T
  <2>1. b \in 0 .. e /\ e - b \in 0 .. e /\ e - (e - b) = b
    OBVIOUS
  <2> QED
    BY <1>1, <2>1
<1>3. PICK m \in T : \A k \in T : m <= k
  <2>1. T \subseteq Nat
    OBVIOUS
  <2> HIDE DEF T
  <2> QED
    BY <1>2, <2>1, LeastNat
<1>4. e - m \in B /\ e - m \notin G /\ m \in 0 .. e
  BY <1>3
<1>5. next[e - m] \in B /\ next[e - m] \notin G /\ next[e - m] > e - m
  BY <1>4
<1>6. next[e - m] \in 0 .. e /\ e - next[e - m] \in 0 .. e /\ e - (e - next[e - m]) = next[e - m]
  <2>1. \A n \in 0 .. e - 1 : n \in 0 .. e /\ e - n \in 0 .. e /\ e - (e - n) = n
    OBVIOUS
  <2>2. next[e - m] \in 0 .. e - 1
    BY <1>5
  <2> QED
    BY <2>1, <2>2
<1>7. e - next[e - m] \in T /\ e - next[e - m] < m
  BY <1>4, <1>5, <1>6
<1> QED
  BY <1>3, <1>4, <1>6, <1>7

(* From every place of a memory in which links lead upwards there is a path   *)
(* to a place where they stop.                                                *)
Upwards(D, stop, next) == D \in Nat /\ \A x \in 0 .. D : x \in stop \/ next[x] \in x + 1 .. D
Path(f, stop, next, x) == {x} \cup IF x \in stop THEN {} ELSE f[next[x]]
Paths(f, n, D, stop, next) == \A x \in n .. D : f[x] = Path(f, stop, next, x)

LEMMA LongerPaths ==
  ASSUME NEW D \in Nat, NEW stop, NEW next, NEW n \in 0 .. D, NEW f,
         \A x \in 0 .. D : x \in stop \/ next[x] \in x + 1 .. D,
         Paths(f, n + 1, D, stop, next)
  PROVE  \E g : Paths(g, n, D, stop, next)
<1> DEFINE g == [x \in 0 .. D |-> IF x = n THEN Path(f, stop, next, n) ELSE f[x]]
<1>1. \A x \in n + 1 .. D : g[x] = f[x]
  OBVIOUS
<1>2. g[n] = Path(f, stop, next, n)
  OBVIOUS
<1> HIDE DEF g
<1>3. ASSUME NEW x \in n .. D
      PROVE  Path(g, stop, next, x) = Path(f, stop, next, x)
  <2>1. x \in stop \/ g[next[x]] = f[next[x]]
    BY <1>1
  <2> QED
    BY <2>1 DEF Path
<1>4. ASSUME NEW x \in n .. D
      PROVE  g[x] = Path(g, stop, next, x)
  <2>1. x = n \/ x \in n + 1 .. D
    OBVIOUS
  <2> QED
    BY <1>1, <1>2, <1>3, <2>1 DEF Paths
<1> QED
  BY <1>4 DEF Paths

LEMMA PathsExist ==
  ASSUME NEW D \in Nat, NEW stop, NEW next,
         \A x \in 0 .. D : x \in stop \/ next[x] \in x + 1 .. D
  PROVE  \E f : Paths(f, 0, D, stop, next)
<1> DEFINE Has(n) == \E f : Paths(f, n, D, stop, next)
           G == {n \in 0 .. D + 1 : Has(n)}
           succ == [n \in 0 .. D |-> n + 1]
<1>1. Has(D + 1)
  BY DEF Paths
<1>2. ASSUME NEW n \in 0 .. D, Has(n + 1)
      PROVE  Has(n)
  BY <1>2, LongerPaths
<1> HIDE DEF Has
<1>3. /\ D + 1 \in G
      /\ \A n \in 0 .. D : succ[n] \in G => n \in G
  BY <1>1, <1>2
<1>4. /\ D + 1 \in Nat /\ 0 .. D \subseteq 0 .. (D + 1) - 1
      /\ \A n \in 0 .. D : succ[n] \in (0 .. D) \cup {D + 1} /\ succ[n] > n
  OBVIOUS
<1>5. 0 \in G => Has(0)
  OBVIOUS
<1> HIDE DEF G, succ
<1>6. 0 .. D \subseteq G
  <2>1. Chain(0 .. D, D + 1, succ)
    BY <1>4 DEF Chain
  <2>2. Inherited(G, 0 .. D, D + 1, succ)
    BY <1>3 DEF Inherited
  <2> QED
    BY <2>1, <2>2, ChainInduction
<1> QED
  BY <1>5, <1>6 DEF Has

(* So Walk and WalkEnd are functions: their definitions determine one. *)
LEMMA WalksExist ==
  ASSUME NEW D, NEW stop, NEW next, Upwards(D, stop, next)
  PROVE  /\ \E w : w = [x \in 0 .. D |-> IF x \in stop THEN {} ELSE {x} \cup w[next[x]]]
         /\ \E w : w = [x \in 0 .. D |-> IF x \in stop THEN x ELSE w[next[x]]]
<1>1. PICK f : Paths(f, 0, D, stop, next)
  BY PathsExist DEF Upwards
<1>0. \A x \in 0 .. D : x \in stop \/ next[x] \in 0 .. D
  BY DEF Upwards
<1>2. \A x \in 0 .. D : /\ x \in stop => f[x] = {x}
                        /\ x \notin stop => f[x] = {x} \cup f[next[x]]
  BY <1>1 DEF Paths, Path
<1> DEFINE w == [x \in 0 .. D |-> {y \in f[x] : y \notin stop}]
           v == [x \in 0 .. D |-> CHOOSE y : y \in f[x] /\ y \in stop]
<1>3. w = [x \in 0 .. D |-> IF x \in stop THEN {} ELSE {x} \cup w[next[x]]]
  <2> SUFFICES ASSUME NEW x \in 0 .. D
               PROVE  w[x] = IF x \in stop THEN {} ELSE {x} \cup w[next[x]]
    OBVIOUS
  <2>1. CASE x \in stop
    BY <1>2, <2>1
  <2>2. CASE x \notin stop
    <3>1. w[next[x]] = {y \in f[next[x]] : y \notin stop}
      BY <1>0, <2>2
    <3>2. w[x] = {y \in f[x] : y \notin stop}
      OBVIOUS
    <3> HIDE DEF w
    <3> QED
      BY <1>2, <2>2, <3>1, <3>2
  <2> QED
    BY <2>1, <2>2
<1>4. v = [x \in 0 .. D |-> IF x \in stop THEN x ELSE v[next[x]]]
  <2> DEFINE u == [x \in 0 .. D |-> IF x \in stop THEN x ELSE v[next[x]]]
  <2>0. SUFFICES ASSUME NEW x \in 0 .. D
                 PROVE  v[x] = u[x]
    OBVIOUS
  <2>1. v[x] = CHOOSE y : y \in f[x] /\ y \in stop
    OBVIOUS
  <2>2. CASE x \in stop
    <3>1. \A y : y \in f[x] /\ y \in stop <=> y = x
      BY <1>2, <2>2
    <3>2. v[x] \in f[x] /\ v[x] \in stop
      BY <2>1, <3>1, Zenon
    <3>3. u[x] = x
      BY <2>2
    <3> QED
      BY <3>1, <3>2, <3>3, Zenon
  <2>3. CASE x \notin stop
    <3>1. v[next[x]] = CHOOSE y : y \in f[next[x]] /\ y \in stop
      BY <1>0, <2>3
    <3>2. \A y : y \in f[x] /\ y \in stop <=> y \in f[next[x]] /\ y \in stop
      BY <1>2, <2>3
    <3>3. u[x] = v[next[x]]
      BY <2>3
    <3> HIDE DEF v, u
    <3> QED
      BY <2>1, <3>1, <3>2, <3>3
  <2> QED
    BY <2>2, <2>3
<1> QED
  BY <1>3, <1>4

-----------------------------------------------------------------------------
(* Blocks that tile the heap from the prologue to e: next[b] is the block     *)
(* after b, and no block is left out or overlaps another.                     *)
Aligned(p) == p \in Nat /\ p % 8 = 0
Tiles(B, e, next) ==
    /\ FirstBlock \in B /\ e \in Nat /\ B \subseteq Nat
    /\ \A b \in B : /\ FirstBlock <= b /\ b < e
                    /\ next[b] \in B \cup {e} /\ b < next[b]
    /\ \A a, b \in B : a < b => next[a] <= b
    /\ \A b \in B \cup {e} : b = FirstBlock \/ \E a \in B : next[a] = b
    /\ \A b \in B \cup {e} : Aligned(b)

LEMMA TilesNat ==
  ASSUME NEW B, NEW e, NEW next, Tiles(B, e, next)
  PROVE  /\ e \in Nat /\ FirstBlock \in Nat
         /\ \A b \in B : b \in Nat /\ next[b] \in Nat /\ next[b] <= e
<1>1. FirstBlock \in Nat
  BY DEF FirstBlock, WSIZE
<1>2. ASSUME NEW b \in B
      PROVE  b \in Nat /\ next[b] \in Nat /\ next[b] <= e
  <2>1. next[b] \in B \/ next[b] = e
    BY DEF Tiles
  <2>2. b \in Nat /\ e \in Nat /\ (next[b] \in B => next[b] \in Nat /\ next[b] < e)
    BY DEF Tiles
  <2> QED
    BY <2>1, <2>2
<1> QED
  BY <1>1, <1>2 DEF Tiles

(* Two blocks do not have the same next. *)
LEMMA TilesApart ==
  ASSUME NEW B, NEW e, NEW next, Tiles(B, e, next), NEW a \in B
  PROVE  /\ \A b \in B : next[a] = next[b] => a = b
         /\ \A b \in B : b < next[a] => b <= a
<1>1. a \in Nat /\ next[a] \in Nat
  BY TilesNat
<1>2. ASSUME NEW b \in B, b < next[a]
      PROVE  b <= a
  <2>1. b \in Nat /\ (a < b => next[a] <= b)
    BY TilesNat DEF Tiles
  <2> QED
    BY <1>1, <1>2, <2>1
<1>3. ASSUME NEW b \in B, next[a] = next[b]
      PROVE  a = b
  <2>1. a < next[a] /\ b < next[b] /\ b \in Nat
    BY TilesNat DEF Tiles
  <2>2. (a < b => next[a] <= b) /\ (b < a => next[b] <= a)
    BY DEF Tiles
  <2> QED
    BY <1>1, <1>3, <2>1, <2>2
<1> QED
  BY <1>2, <1>3

(* The blocks from p up to q become one. *)
Without(B, p, q) == {x \in B : x <= p \/ q <= x}
Merges(C, next, p, q, link) == \A x \in C : link[x] = IF x = p THEN q ELSE next[x]

LEMMA MergeTiles ==
  ASSUME NEW B, NEW e, NEW next, Tiles(B, e, next),
         NEW p \in B, NEW q \in B \cup {e}, p < q,
         NEW C, C = Without(B, p, q), NEW link, Merges(C, next, p, q, link)
  PROVE  Tiles(C, e, link)
<1> USE DEF Without, Merges
<1>0. p \in Nat /\ q \in Nat /\ FirstBlock <= p
  BY TilesNat DEF Tiles
<1>1. FirstBlock \in C /\ p \in C /\ C \subseteq B /\ link[p] = q /\ q \in C \cup {e}
  BY <1>0, TilesNat DEF Tiles
<1>2. \A x \in C : x # p => link[x] = next[x]
  OBVIOUS
<1>3. ASSUME NEW b \in C
      PROVE  link[b] \in C \cup {e} /\ b < link[b]
  <2>0. b \in Nat /\ next[b] \in Nat /\ b < next[b] /\ next[b] \in B \cup {e}
    BY TilesNat DEF Tiles
  <2>1. CASE b = p
    BY <1>1, <2>1
  <2>2. CASE b < p
    <3>1. next[b] <= p
      BY <2>2 DEF Tiles
    <3>2. next[b] \in B
      BY <2>0, <3>1, <1>0 DEF Tiles
    <3> QED
      BY <1>0, <1>2, <2>0, <2>2, <3>1, <3>2
  <2>3. CASE p < b
    <3>1. q <= next[b]
      BY <1>0, <2>0, <2>3
    <3> QED
      BY <1>0, <1>2, <2>0, <2>3, <3>1
  <2> QED
    BY <1>0, <2>0, <2>1, <2>2, <2>3
<1>4. ASSUME NEW a \in C, NEW b \in C, a < b
      PROVE  link[a] <= b
  <2>0. a \in Nat /\ b \in Nat /\ next[a] <= b
    BY <1>4, TilesNat DEF Tiles
  <2>1. CASE a = p
    BY <1>0, <1>1, <1>4, <2>0, <2>1
  <2>2. CASE a # p
    BY <1>2, <2>0, <2>2
  <2> QED
    BY <2>1, <2>2
<1>5. ASSUME NEW b \in C \cup {e}, b # FirstBlock, b # q
      PROVE  \E a \in C : link[a] = b
  <2>1. PICK a \in B : next[a] = b
    BY <1>1, <1>5 DEF Tiles
  <2>2. a \in Nat /\ b \in Nat /\ a < b /\ b <= e
    BY <2>1, TilesNat DEF Tiles
  <2>3. CASE a < p \/ q <= a
    <3>1. a \in C /\ a # p
      BY <1>0, <2>2, <2>3
    <3> QED
      BY <1>2, <2>1, <3>1
  <2>4. CASE p <= a /\ a < q
    <3>1. b <= q
      <4>1. CASE q \in B
        BY <2>1, <2>4, <4>1 DEF Tiles
      <4>2. CASE q = e
        BY <2>2, <4>2
      <4> QED
        BY <4>1, <4>2
    <3>2. b \in C => b <= p \/ q <= b
      OBVIOUS
    <3>3. b = e => q <= b
      BY <1>0, TilesNat DEF Tiles
    <3> QED
      BY <1>0, <1>5, <2>2, <2>4, <3>1, <3>2, <3>3
  <2> QED
    BY <1>0, <2>2, <2>3, <2>4
<1>6. \A b \in C \cup {e} : b = FirstBlock \/ \E a \in C : link[a] = b
  BY <1>1, <1>5
<1> QED
  BY <1>1, <1>3, <1>4, <1>6 DEF Tiles

(* The block p is cut in two at q. *)
Splits(C, next, p, q, link) ==
    \A x \in C : link[x] = IF x = p THEN q ELSE IF x = q THEN next[p] ELSE next[x]

LEMMA SplitTiles ==
  ASSUME NEW B, NEW e, NEW next, Tiles(B, e, next),
         NEW p \in B, NEW q, Aligned(q), p < q, q < next[p],
         NEW C, C = B \cup {q},
         NEW link, Splits(C, next, p, q, link)
  PROVE  Tiles(C, e, link) /\ q \notin B
<1> USE DEF Splits
<1>0. p \in Nat /\ q \in Nat /\ next[p] \in Nat /\ next[p] \in B \cup {e} /\ next[p] <= e
      /\ FirstBlock <= p /\ FirstBlock \in Nat /\ e \in Nat
  BY TilesNat DEF Tiles, Aligned
<1>1. q \notin B /\ q < e /\ FirstBlock < q
  <2>1. q \in B => q <= p
    BY TilesApart
  <2> QED
    BY <1>0, <2>1
<1>2. link[p] = q /\ link[q] = next[p]
  BY <1>1
<1>3. \A x \in B : x # p => link[x] = next[x]
  BY <1>1
<1>4. ASSUME NEW b \in C
      PROVE  FirstBlock <= b /\ b < e /\ link[b] \in C \cup {e} /\ b < link[b]
  <2>1. CASE b = q
    BY <1>0, <1>1, <1>2, <2>1
  <2>2. CASE b = p
    BY <1>0, <1>1, <1>2, <2>2
  <2>3. CASE b \in B /\ b # p
    BY <1>3, <2>3 DEF Tiles
  <2> QED
    BY <2>1, <2>2, <2>3
<1>5. ASSUME NEW a \in C, NEW b \in C, a < b
      PROVE  link[a] <= b
  <2>0. a \in Nat /\ b \in Nat /\ (a \in B => next[a] \in Nat)
    BY <1>0, TilesNat
  <2>1. CASE a = p
    <3>1. b \in B => next[p] <= b
      BY <1>5, <2>1 DEF Tiles
    <3> QED
      BY <1>0, <1>2, <2>0, <2>1, <3>1
  <2>2. CASE a = q
    <3>1. b \in B /\ p < b
      BY <1>0, <1>5, <2>0, <2>2
    <3>2. next[p] <= b
      BY <3>1 DEF Tiles
    <3> QED
      BY <1>2, <2>2, <3>2
  <2>3. CASE a # p /\ a # q
    <3>1. a \in B
      BY <2>3
    <3>2. b \in B => next[a] <= b
      BY <1>5, <3>1 DEF Tiles
    <3>3. b = q => next[a] <= p
      <4>1. b = q => a <= p
        BY <1>0, <1>5, <2>0, <3>1, TilesApart
      <4>2. a < p => next[a] <= p
        BY <3>1 DEF Tiles
      <4> QED
        BY <1>0, <2>0, <2>3, <4>1, <4>2
    <3> QED
      BY <1>0, <1>3, <2>0, <2>3, <3>1, <3>2, <3>3
  <2> QED
    BY <2>1, <2>2, <2>3
<1>6. ASSUME NEW b \in C \cup {e}, b # FirstBlock
      PROVE  \E a \in C : link[a] = b
  <2>1. CASE b = q
    BY <1>2, <2>1
  <2>2. CASE b # q
    <3>1. PICK a \in B : next[a] = b
      BY <1>6, <2>2 DEF Tiles
    <3> QED
      BY <1>2, <1>3, <3>1
  <2> QED
    BY <2>1, <2>2
<1>7. \A b \in C \cup {e} : b = FirstBlock \/ \E a \in C : link[a] = b
  BY <1>6
<1> QED
  BY <1>0, <1>1, <1>4, <1>5, <1>7 DEF Tiles

(* The heap grows to f by a block at e. *)
Extends(C, next, e, f, link) == \A x \in C : link[x] = IF x = e THEN f ELSE next[x]

LEMMA ExtendTiles ==
  ASSUME NEW B, NEW e, NEW next, Tiles(B, e, next), NEW f, Aligned(f), e < f,
         NEW C, C = B \cup {e},
         NEW link, Extends(C, next, e, f, link)
  PROVE  Tiles(C, f, link)
<1> USE DEF Extends
<1>0. e \in Nat /\ f \in Nat /\ FirstBlock \in Nat /\ FirstBlock < e
  BY TilesNat DEF Tiles, Aligned
<1>1. e \notin B /\ link[e] = f
  BY <1>0 DEF Tiles
<1>2. \A x \in B : link[x] = next[x]
  BY <1>1
<1>3. ASSUME NEW b \in C
      PROVE  FirstBlock <= b /\ b < f /\ link[b] \in C \cup {f} /\ b < link[b]
  <2>1. CASE b = e
    BY <1>0, <1>1, <2>1
  <2>2. CASE b \in B
    <3>1. b \in Nat /\ b < e /\ FirstBlock <= b /\ b < next[b] /\ next[b] \in B \cup {e}
      BY <2>2 DEF Tiles
    <3> QED
      BY <1>0, <1>2, <2>2, <3>1
  <2> QED
    BY <2>1, <2>2
<1>4. ASSUME NEW a \in C, NEW b \in C, a < b
      PROVE  link[a] <= b
  <2>1. a \in B
    <3>1. a = e => ~(a < b)
      BY <1>0, TilesNat DEF Tiles
    <3> QED
      BY <1>4, <3>1
  <2>2. next[a] <= b
    <3>1. b \in B => next[a] <= b
      BY <1>4, <2>1 DEF Tiles
    <3>2. next[a] <= e
      BY <2>1, TilesNat
    <3> QED
      BY <3>1, <3>2
  <2> QED
    BY <1>2, <2>1, <2>2
<1>5. ASSUME NEW b \in C \cup {f}, b # FirstBlock
      PROVE  \E a \in C : link[a] = b
  <2>1. CASE b = f
    BY <1>1, <2>1
  <2>2. CASE b \in B \cup {e}
    <3>1. PICK a \in B : next[a] = b
      BY <1>5, <2>2 DEF Tiles
    <3> QED
      BY <1>2, <3>1
  <2> QED
    BY <2>1, <2>2
<1>6. \A b \in C \cup {f} : b = FirstBlock \/ \E a \in C : link[a] = b
  BY <1>5
<1> QED
  BY <1>0, <1>3, <1>4, <1>6 DEF Tiles

(* Links that agree on the blocks are as good. *)
LEMMA SameTiles ==
  ASSUME NEW B, NEW e, NEW next, Tiles(B, e, next), NEW link, \A b \in B : link[b] = next[b]
  PROVE  Tiles(B, e, link)
BY DEF Tiles

LEMMA TilesChain ==
  ASSUME NEW B, NEW e, NEW next, Tiles(B, e, next)
  PROVE  Chain(B, e, next)
<1>1. ASSUME NEW b \in B
      PROVE  b \in 0 .. e - 1 /\ next[b] \in B \cup {e} /\ next[b] > b
  BY TilesNat DEF Tiles
<1> QED
  BY <1>1, TilesNat DEF Chain

-----------------------------------------------------------------------------
(* C's arithmetic on sizes that fit *)

LEMMA ModSmall == ASSUME NEW w \in Nat \ {0}, NEW x \in Nat, x < w
                  PROVE  x % w = x
OBVIOUS

LEMMA ModOver == ASSUME NEW w \in Nat \ {0}, NEW x \in Nat, w <= x, x < 2 * w
                 PROVE  x % w = x - w
<1>1. x = (x \div w) * w + (x % w) /\ x \div w \in Int /\ x % w \in 0 .. w - 1
  OBVIOUS
<1>2. ASSUME NEW k \in Int, NEW r \in 0 .. w - 1, x = k * w + r
      PROVE  r = x - w
  <2>1. k <= 0 => k * w <= 0
    OBVIOUS
  <2>2. k >= 2 => k * w >= 2 * w
    OBVIOUS
  <2>3. k = 1 => k * w = w
    OBVIOUS
  <2> QED
    BY <1>2, <2>1, <2>2, <2>3
<1> QED
  BY <1>1, <1>2

LEMMA Eights == ASSUME NEW x \in Int, NEW y \in Int, x % 8 = 0, y % 8 = 0
                PROVE  /\ (x + y) % 8 = 0 /\ (y - x) % 8 = 0
                       /\ (x < y => x + 8 <= y)
OBVIOUS

(* The widths. *)
LEMMA Widths == /\ MAX_HEAP \in Nat /\ 16 <= MAX_HEAP /\ MAX_HEAP % 4 = 0
                /\ UINT_MOD \in Nat \ {0} /\ UINT_MOD % 8 = 0 /\ 2 * MAX_HEAP <= UINT_MOD
                /\ SIZE_MOD \in Nat \ {0} /\ UINT_MOD <= SIZE_MOD
                /\ CHUNKSIZE \in Nat \ {0} /\ CHUNKSIZE % 8 = 0 /\ CHUNKSIZE < UINT_MOD
                /\ Requests \subseteq 0 .. UINT_MOD - 16
                /\ NO_FOOTER_HEAP \in 16 .. MAX_HEAP /\ NO_FOOTER_HEAP % 4 = 0
<1>1. /\ MAX_HEAP \in Nat /\ 16 <= MAX_HEAP /\ MAX_HEAP % 4 = 0
      /\ UINT_MOD \in Nat \ {0} /\ UINT_MOD % 8 = 0 /\ 2 * MAX_HEAP <= UINT_MOD
      /\ SIZE_MOD \in Nat \ {0} /\ SIZE_MOD % UINT_MOD = 0
      /\ CHUNKSIZE \in Nat \ {0} /\ CHUNKSIZE % 8 = 0 /\ CHUNKSIZE < UINT_MOD
  BY SizesAssumption DEF WSIZE, DSIZE
<1>2. UINT_MOD <= SIZE_MOD
  <2>1. SIZE_MOD < UINT_MOD => SIZE_MOD % UINT_MOD = SIZE_MOD
    BY <1>1, ModSmall
  <2> QED
    BY <1>1, <2>1
<1>3. Requests \subseteq 0 .. UINT_MOD - 16
  BY RequestsAssumption DEF DSIZE
<1>4. NO_FOOTER_HEAP \in 16 .. MAX_HEAP /\ NO_FOOTER_HEAP % 4 = 0
  BY HeapAssumption DEF WSIZE
<1> QED
  BY <1>1, <1>2, <1>3, <1>4

(* The words of a memory of max bytes. *)
LEMMA WordsOf == ASSUME NEW max \in Nat, max % 4 = 0, NEW p \in Int
                 PROVE  p \in {4 * k : k \in 0 .. (max \div 4) - 1}
                           <=> p >= 0 /\ p % 4 = 0 /\ p + 4 <= max
<1>1. ASSUME p >= 0, p % 4 = 0, p + 4 <= max
      PROVE  p \in {4 * k : k \in 0 .. (max \div 4) - 1}
  <2>1. p = 4 * (p \div 4) /\ p \div 4 \in 0 .. (max \div 4) - 1
    BY <1>1
  <2> QED
    BY <2>1
<1>2. ASSUME NEW k \in 0 .. (max \div 4) - 1, p = 4 * k
      PROVE  p >= 0 /\ p % 4 = 0 /\ p + 4 <= max
  BY <1>2
<1> QED
  BY <1>1, <1>2

-----------------------------------------------------------------------------
(* The memory of the next-fit allocator *)

Tags == [size : 0 .. UINT_MOD - 1, alloc : -1 .. 1, prev : -1 .. 1]
NFHeaps == [mem : [NextFit!Words -> Tags], brk : 0 .. MAX_HEAP, rover : 0 .. MAX_HEAP]

LEMMA NFConstants == /\ NextFit!WSIZE = 4 /\ NextFit!DSIZE = 8 /\ NextFit!NULL = 0
                     /\ NextFit!FirstBlock = 8 /\ FirstBlock = 8
BY DEF NextFit!WSIZE, NextFit!DSIZE, NextFit!NULL, NextFit!FirstBlock, FirstBlock, WSIZE

LEMMA NFWords == ASSUME NEW p \in Int
                 PROVE  p \in NextFit!Words <=> p >= 0 /\ p % 4 = 0 /\ p + 4 <= MAX_HEAP
BY Widths, WordsOf DEF NextFit!Words

LEMMA TagOf == ASSUME NEW s \in 0 .. UINT_MOD - 1, NEW a \in -1 .. 1, NEW b \in -1 .. 1
               PROVE  /\ NextFit!Tag(s, a, b) = [size |-> s, alloc |-> a, prev |-> b]
                      /\ [size |-> s, alloc |-> a, prev |-> b] \in Tags
<1>1. s % UINT_MOD = s
  BY ModSmall, Widths
<1> QED
  BY <1>1 DEF NextFit!Tag, Tags

LEMMA NFGet == ASSUME NEW h \in NFHeaps, NEW p
               PROVE  /\ NextFit!Get(h, p) \in Tags
                      /\ p \notin NextFit!Words => NextFit!Get(h, p).size = 0
<1>1. NextFit!Junk \in Tags
  BY Widths DEF NextFit!Junk, Tags
<1> QED
  BY <1>1 DEF NextFit!Get, NFHeaps, NextFit!Junk

LEMMA NFPut == ASSUME NEW h \in NFHeaps, NEW p \in NextFit!Words, NEW v \in Tags
               PROVE  /\ NextFit!Put(h, p, v) \in NFHeaps
                      /\ NextFit!Put(h, p, v).brk = h.brk
                      /\ NextFit!Put(h, p, v).rover = h.rover
                      /\ NextFit!Get(NextFit!Put(h, p, v), p) = v
                      /\ \A q : q # p => NextFit!Get(NextFit!Put(h, p, v), q) = NextFit!Get(h, q)
BY DEF NextFit!Put, NextFit!Get, NFHeaps

(* Walk and WalkEnd follow NEXT_BLKP. *)
LEMMA NFWalkStep ==
  ASSUME NEW h \in NFHeaps, NEW bp \in 0 .. MAX_HEAP + UINT_MOD
  PROVE  /\ NextFit!Size(h, bp) = 0 \/ NextFit!Next_(h, bp) \in bp + 1 .. MAX_HEAP + UINT_MOD
         /\ NextFit!Walk(h, bp) = IF NextFit!Size(h, bp) = 0 THEN {}
                                  ELSE {bp} \cup NextFit!Walk(h, NextFit!Next_(h, bp))
         /\ NextFit!WalkEnd(h, bp) = IF NextFit!Size(h, bp) = 0 THEN bp
                                     ELSE NextFit!WalkEnd(h, NextFit!Next_(h, bp))
<1> DEFINE D == MAX_HEAP + UINT_MOD
           w[p \in 0 .. D] == IF NextFit!Size(h, p) = 0 THEN {}
                              ELSE {p} \cup w[NextFit!Next_(h, p)]
           v[p \in 0 .. D] == IF NextFit!Size(h, p) = 0 THEN p
                              ELSE v[NextFit!Next_(h, p)]
           stop == {p \in 0 .. D : NextFit!Size(h, p) = 0}
           next == [p \in 0 .. D |-> NextFit!Next_(h, p)]
<1>1. D \in Nat
  BY Widths
<1>2. ASSUME NEW p \in 0 .. D
      PROVE  NextFit!Size(h, p) = 0 \/ NextFit!Next_(h, p) \in p + 1 .. D
  <2>1. NextFit!Size(h, p) \in 0 .. UINT_MOD - 1
    BY NFGet DEF NextFit!Size, Tags
  <2>2. NextFit!Size(h, p) # 0 => p <= MAX_HEAP
    <3>1. NextFit!Size(h, p) # 0 => p - 4 \in NextFit!Words
      BY NFGet, NFConstants DEF NextFit!Size
    <3>2. p - 4 \in Int
      BY <1>1
    <3> QED
      BY <3>1, <3>2, NFWords, Widths
  <2> QED
    BY <2>1, <2>2, Widths DEF NextFit!Next_
<1>3. Upwards(D, stop, next)
  BY <1>1, <1>2 DEF Upwards
<1>4. /\ \E g : g = [p \in 0 .. D |-> IF NextFit!Size(h, p) = 0 THEN {}
                                      ELSE {p} \cup g[NextFit!Next_(h, p)]]
      /\ \E g : g = [p \in 0 .. D |-> IF NextFit!Size(h, p) = 0 THEN p
                                      ELSE g[NextFit!Next_(h, p)]]
  <2>1. PICK g : g = [x \in 0 .. D |-> IF x \in stop THEN {} ELSE {x} \cup g[next[x]]]
    <3> HIDE DEF stop, next, D
    <3> QED
      BY <1>3, WalksExist
  <2>2. PICK f : f = [x \in 0 .. D |-> IF x \in stop THEN x ELSE f[next[x]]]
    <3> HIDE DEF stop, next, D
    <3> QED
      BY <1>3, WalksExist
  <2>3. g = [p \in 0 .. D |-> IF NextFit!Size(h, p) = 0 THEN {}
                              ELSE {p} \cup g[NextFit!Next_(h, p)]]
    BY <2>1
  <2>4. f = [p \in 0 .. D |-> IF NextFit!Size(h, p) = 0 THEN p ELSE f[NextFit!Next_(h, p)]]
    BY <2>2
  <2> QED
    BY <2>3, <2>4
<1>5. /\ w = [p \in 0 .. D |-> IF NextFit!Size(h, p) = 0 THEN {}
                               ELSE {p} \cup w[NextFit!Next_(h, p)]]
      /\ v = [p \in 0 .. D |-> IF NextFit!Size(h, p) = 0 THEN p ELSE v[NextFit!Next_(h, p)]]
  BY <1>4, Zenon
<1>6. \A p : NextFit!Walk(h, p) = w[p] /\ NextFit!WalkEnd(h, p) = v[p]
  BY DEF NextFit!Walk, NextFit!WalkEnd
<1> HIDE DEF w, v
<1> QED
  BY <1>2, <1>5, <1>6

-----------------------------------------------------------------------------
(* The block list of the next-fit allocator *)

LEMMA EightWords == ASSUME NEW x \in 8 .. MAX_HEAP, x % 8 = 0
                    PROVE  x - 4 \in NextFit!Words /\ (x >= 16 => x - 8 \in NextFit!Words)
<1>1. x - 4 \in Int /\ x - 4 >= 0 /\ (x - 4) % 4 = 0 /\ (x - 4) + 4 <= MAX_HEAP
  BY Widths
<1>2. x >= 16 => x - 8 \in Int /\ x - 8 >= 0 /\ (x - 8) % 4 = 0 /\ (x - 8) + 4 <= MAX_HEAP
  BY Widths
<1> QED
  BY <1>1, <1>2, NFWords

NFHdr(h, b)   == NextFit!Get(h, b - 4)
NFNext(h, b)  == b + NFHdr(h, b).size
NFLinks(h, B) == [b \in B |-> NFNext(h, b)]
NFTag(s, a)   == [size |-> s, alloc |-> a, prev |-> 0]

(* h is a list of the blocks B: headers lead from the prologue to the         *)
(* epilogue at the end of the heap, and every footer repeats its header.      *)
NFList(h, B) ==
    /\ h \in NFHeaps
    /\ Tiles(B, h.brk, NFLinks(h, B))
    /\ \A b \in B : /\ NFHdr(h, b).alloc \in {0, 1}
                    /\ NextFit!Get(h, NFNext(h, b) - 8) = NFHdr(h, b)
    /\ NFHdr(h, h.brk) = NFTag(0, 1)
    /\ NFHdr(h, 8) = NFTag(8, 1)

LEMMA NFMacros ==
  ASSUME NEW h, NEW b
  PROVE  /\ NextFit!Size(h, b) = NFHdr(h, b).size /\ NextFit!Alloc(h, b) = NFHdr(h, b).alloc
         /\ NextFit!Hdrp(b) = b - 4
         /\ NextFit!Next_(h, b) = NFNext(h, b)
         /\ NextFit!Prev_(h, b) = b - NextFit!Get(h, b - 8).size
         /\ NextFit!Free(h, b) <=> NFHdr(h, b).alloc = 0
BY NFConstants DEF NextFit!Size, NextFit!Alloc, NextFit!Hdrp, NextFit!Ftrp, NextFit!Next_,
   NextFit!Prev_, NextFit!Free, NFHdr, NFNext

LEMMA NFFooter ==
  ASSUME NEW h \in NFHeaps, NEW b \in Int
  PROVE  NextFit!Ftrp(h, b) = NFNext(h, b) - 8
<1>1. NFHdr(h, b).size \in Nat
  BY NFGet DEF NFHdr, Tags
<1> QED
  BY <1>1, NFConstants DEF NextFit!Ftrp, NextFit!Size, NFHdr, NFNext

LEMMA NFTagged ==
  ASSUME NEW n \in 0 .. UINT_MOD - 1, NEW a \in {0, 1}
  PROVE  NextFit!Tag(n, a, 0) = NFTag(n, a) /\ NFTag(n, a) \in Tags
<1>1. a \in -1 .. 1 /\ 0 \in -1 .. 1
  OBVIOUS
<1> QED
  BY <1>1, TagOf DEF NFTag

(* g is h with the words p and q overwritten by a tag. *)
NFWrote(h, g, p, q, n, a) ==
    /\ g \in NFHeaps /\ g.brk = h.brk /\ g.rover = h.rover
    /\ NextFit!Get(g, p) = NFTag(n, a) /\ NextFit!Get(g, q) = NFTag(n, a)
    /\ \A w : w # p /\ w # q => NextFit!Get(g, w) = NextFit!Get(h, w)

LEMMA NFPutTags ==
  ASSUME NEW h, h \in NFHeaps, NEW p, p \in NextFit!Words, NEW q, q \in NextFit!Words,
         NEW n, n \in 0 .. UINT_MOD - 1, NEW a, a \in {0, 1}
  PROVE  NFWrote(h, NextFit!PutTags(h, p, q, n, a), p, q, n, a)
<1> DEFINE t == NFTag(n, a)
           f == NextFit!Put(h, p, t)
           g == NextFit!PutTags(h, p, q, n, a)
<1>0. t = NextFit!Tag(n, a, 0) /\ t \in Tags
  BY NFTagged
<1>1. g = NextFit!Put(f, q, t)
  BY <1>0 DEF NextFit!PutTags
<1>2. /\ f \in NFHeaps /\ f.brk = h.brk /\ f.rover = h.rover /\ NextFit!Get(f, p) = t
      /\ \A w : w # p => NextFit!Get(f, w) = NextFit!Get(h, w)
  BY <1>0, NFPut
<1> HIDE DEF f, t, g
<1>3. /\ g \in NFHeaps /\ g.brk = f.brk /\ g.rover = f.rover /\ NextFit!Get(g, q) = t
      /\ \A w : w # q => NextFit!Get(g, w) = NextFit!Get(f, w)
  BY <1>0, <1>1, <1>2, NFPut
<1> QED
  BY <1>2, <1>3 DEF t, g, NFWrote

(* The footer goes where the new header says. *)
LEMMA NFPutBlock ==
  ASSUME NEW h, h \in NFHeaps, NEW b, b \in Int, b - 4 \in NextFit!Words,
         NEW n, n \in 0 .. UINT_MOD - 1, NEW a, a \in {0, 1}
  PROVE  NextFit!PutBlock(h, b, n, a) = NextFit!PutTags(h, b - 4, (b + n) - 8, n, a)
<1> DEFINE g == NextFit!Put(h, b - 4, NextFit!Tag(n, a, 0))
<1>1. NextFit!Tag(n, a, 0) = NFTag(n, a) /\ NFTag(n, a) \in Tags
  BY NFTagged
<1>2. NextFit!Get(g, b - 4) = NFTag(n, a)
  BY <1>1, NFPut
<1>3. NextFit!Ftrp(g, b) = b + n - 8
  BY <1>2, NFConstants DEF NextFit!Ftrp, NextFit!Size, NFTag
<1>4. b + n - 8 = (b + n) - 8
  BY Widths
<1>5. NextFit!Hdrp(b) = b - 4
  BY NFMacros
<1> QED
  BY <1>3, <1>4, <1>5 DEF NextFit!PutBlock, NextFit!PutTags

(* What is known of a block. *)
LEMMA NFBlock ==
  ASSUME NEW h, NEW B, NFList(h, B), NEW b \in B
  PROVE  /\ b \in Nat /\ b % 8 = 0 /\ 8 <= b /\ b < h.brk
         /\ NFHdr(h, b) \in Tags
         /\ NFHdr(h, b).size \in Nat /\ NFHdr(h, b).size % 8 = 0 /\ NFHdr(h, b).size >= 8
         /\ NFNext(h, b) \in B \cup {h.brk} /\ NFNext(h, b) \in Nat /\ NFNext(h, b) % 8 = 0
         /\ b + 8 <= NFNext(h, b) /\ NFNext(h, b) <= h.brk
         /\ NFNext(h, b) = b + NFHdr(h, b).size
         /\ b - 4 \in NextFit!Words /\ NFNext(h, b) - 8 \in NextFit!Words
         /\ h.brk \in 16 .. MAX_HEAP /\ h.brk % 8 = 0 /\ 8 \in B
         /\ h.brk - 4 \in NextFit!Words
<1> DEFINE s == NFHdr(h, b).size
<1>1. NFHdr(h, b) \in Tags /\ s \in Nat
  BY NFGet DEF NFList, NFHdr, Tags
<1>2. NFLinks(h, B)[b] = b + s /\ NFNext(h, b) = b + s
  BY DEF NFLinks, NFNext
<1>3. Tiles(B, h.brk, NFLinks(h, B)) /\ h.brk \in 0 .. MAX_HEAP
  BY DEF NFList, NFHeaps
<1>4. /\ b \in Nat /\ b % 8 = 0 /\ 8 <= b /\ b < h.brk /\ h.brk % 8 = 0 /\ 8 \in B
      /\ b + s \in B \cup {h.brk} /\ b < b + s
  BY <1>2, <1>3, NFConstants DEF Tiles, Aligned
<1>5. (b + s) % 8 = 0 /\ b + s <= h.brk
  <2>1. b + s \in B => (b + s) % 8 = 0 /\ b + s < h.brk
    BY <1>3 DEF Tiles, Aligned
  <2> QED
    BY <1>1, <1>3, <1>4, <2>1
<1> HIDE DEF s
<1>6. s % 8 = 0 /\ s >= 8
  BY <1>1, <1>4, <1>5
<1>7. h.brk \in 16 .. MAX_HEAP
  BY <1>3, <1>4
<1>8. b - 4 \in NextFit!Words /\ (b + s) - 8 \in NextFit!Words /\ h.brk - 4 \in NextFit!Words
  <2>1. b \in 8 .. MAX_HEAP /\ h.brk \in 8 .. MAX_HEAP
    BY <1>4, <1>7, Widths
  <2>2. b - 4 \in NextFit!Words /\ h.brk - 4 \in NextFit!Words
    BY <1>4, <2>1, EightWords
  <2> DEFINE n == b + s
  <2>3. n \in 8 .. MAX_HEAP /\ n >= 16 /\ n % 8 = 0
    BY <1>1, <1>4, <1>5, <1>6, <1>7, Widths
  <2> HIDE DEF n
  <2>4. n - 8 \in NextFit!Words
    BY <2>3, EightWords
  <2> QED
    BY <2>2, <2>4 DEF n
<1>9. b + s \in Nat /\ b + 8 <= b + s
  BY <1>1, <1>4, <1>6
<1> QED
  BY <1>1, <1>2, <1>4, <1>5, <1>6, <1>7, <1>8, <1>9 DEF s

(* The walks of mm_checkheap and of find_fit meet the blocks of the list. *)
LEMMA NFListWalk ==
  ASSUME NEW h, NEW B, NFList(h, B), NEW b \in B \cup {h.brk}
  PROVE  NextFit!Walk(h, b) = {x \in B : b <= x} /\ NextFit!WalkEnd(h, b) = h.brk
<1> DEFINE e == h.brk
           G == {x \in B \cup {e} : /\ NextFit!Walk(h, x) = {y \in B : x <= y}
                                    /\ NextFit!WalkEnd(h, x) = e}
<1>0. Tiles(B, e, NFLinks(h, B)) /\ h \in NFHeaps /\ e \in 0 .. MAX_HEAP
  BY DEF NFList, NFHeaps
<1>1. e \in G
  <2>1. NextFit!Size(h, e) = 0
    BY NFMacros DEF NFList, NFTag
  <2>2. e \in 0 .. MAX_HEAP + UINT_MOD
    BY <1>0, Widths
  <2>3. {y \in B : e <= y} = {}
    <3>1. \A y \in B : y \in Nat /\ y < e
      BY <1>0, TilesNat DEF Tiles
    <3> HIDE DEF e
    <3> QED
      BY <1>0, <3>1
  <2> QED
    BY <1>0, <2>1, <2>2, <2>3, NFWalkStep
<1>2. ASSUME NEW x \in B, NFLinks(h, B)[x] \in G
      PROVE  x \in G
  <2>1. /\ x \in Nat /\ x < e /\ NextFit!Size(h, x) # 0
        /\ NextFit!Next_(h, x) = NFLinks(h, B)[x]
    BY NFBlock, NFMacros DEF NFLinks
  <2>2. x \in 0 .. MAX_HEAP + UINT_MOD
    BY <1>0, <2>1, Widths
  <2>3. /\ NextFit!Walk(h, x) = {x} \cup NextFit!Walk(h, NFLinks(h, B)[x])
        /\ NextFit!WalkEnd(h, x) = NextFit!WalkEnd(h, NFLinks(h, B)[x])
    BY <1>0, <2>1, <2>2, NFWalkStep
  <2>4. \A y \in B : y = x \/ NFLinks(h, B)[x] <= y <=> x <= y
    <3> TAKE y \in B
    <3>1. /\ y \in Nat /\ NFLinks(h, B)[x] \in Nat /\ x < NFLinks(h, B)[x]
          /\ x < y => NFLinks(h, B)[x] <= y
      BY <1>0, TilesNat DEF Tiles
    <3> QED
      BY <2>1, <3>1
  <2> HIDE DEF e
  <2>5. {x} \cup {y \in B : NFLinks(h, B)[x] <= y} = {y \in B : x <= y}
    BY <2>4
  <2> QED
    BY <1>2, <2>3, <2>5
<1>3. B \subseteq G
  <2>1. Chain(B, e, NFLinks(h, B))
    BY <1>0, TilesChain
  <2>2. Inherited(G, B, e, NFLinks(h, B))
    BY <1>1, <1>2 DEF Inherited
  <2> HIDE DEF e, G
  <2> QED
    BY <2>1, <2>2, ChainInduction
<1> QED
  BY <1>1, <1>3

(* PUT of a header at p and a footer before q makes one block of what lies    *)
(* between, and leaves the other blocks alone.                                *)
LEMMA NFOverwrite ==
  ASSUME NEW h, NEW B, NFList(h, B),
         NEW p \in B \ {8}, NEW q \in B \cup {h.brk}, p < q, NEW a \in {0, 1},
         NEW C, C = Without(B, p, q),
         NEW g, g = NextFit!PutTags(h, p - 4, q - 8, q - p, a)
  PROVE  /\ NFList(g, C) /\ g.brk = h.brk /\ g.rover = h.rover /\ p \in C
         /\ NFHdr(g, p) = NFTag(q - p, a)
         /\ \A x \in C : x # p => NFHdr(g, x) = NFHdr(h, x)
<1> DEFINE t == NFTag(q - p, a)
           L == NFLinks(h, B)
<1>1. /\ p \in Nat /\ p % 8 = 0 /\ 8 <= p /\ p < h.brk /\ p - 4 \in NextFit!Words
      /\ h.brk \in 16 .. MAX_HEAP /\ h.brk % 8 = 0 /\ 8 \in B /\ h \in NFHeaps
      /\ Tiles(B, h.brk, L)
  BY NFBlock DEF NFList
<1>2. q \in Nat /\ q % 8 = 0 /\ q <= h.brk
  <2>1. q \in B => q \in Nat /\ q % 8 = 0 /\ q < h.brk
    BY NFBlock
  <2> QED
    BY <1>1, <2>1
<1>3. q - 8 \in NextFit!Words
  <2>1. p + 8 <= q
    <3>1. p \in Int /\ q \in Int
      BY <1>1, <1>2
    <3> QED
      BY <1>1, <1>2, <3>1, Eights
  <2>2. q \in 16 .. MAX_HEAP
    BY <1>1, <1>2, <2>1, Widths
  <2> QED
    <3> HIDE DEF t, L
    <3>1. q \in 8 .. MAX_HEAP /\ q >= 16
      BY <2>2, Widths
    <3> QED
      BY <1>2, <3>1, EightWords
<1>4. q - p \in 0 .. UINT_MOD - 1
  BY <1>1, <1>2, Widths
<1>5. /\ g \in NFHeaps /\ g.brk = h.brk /\ g.rover = h.rover
      /\ NextFit!Get(g, p - 4) = t /\ NextFit!Get(g, q - 8) = t
      /\ \A w : w # p - 4 /\ w # q - 8 => NextFit!Get(g, w) = NextFit!Get(h, w)
  <2>1. NFWrote(h, g, p - 4, q - 8, q - p, a)
    BY <1>1, <1>3, <1>4, NFPutTags
  <2> QED
    BY <2>1 DEF NFWrote
<1> HIDE DEF t
<1>6. ASSUME NEW x \in C, x # p
      PROVE  /\ NFHdr(g, x) = NFHdr(h, x)
             /\ NextFit!Get(g, NFNext(g, x) - 8) = NFHdr(g, x)
             /\ NFHdr(g, x).alloc \in {0, 1}
  <2>1. /\ x \in B /\ x \in Nat /\ x % 8 = 0 /\ NFHdr(h, x).size \in Nat /\ NFHdr(h, x).size % 8 = 0
        /\ NextFit!Get(h, NFNext(h, x) - 8) = NFHdr(h, x) /\ NFHdr(h, x).alloc \in {0, 1}
    BY NFBlock DEF NFList, Without
  <2>2. x - 4 # p - 4 /\ x - 4 # q - 8
    BY <1>1, <1>2, <1>6, <2>1
  <2>3. NFHdr(g, x) = NFHdr(h, x)
    BY <1>5, <2>2 DEF NFHdr
  <2> DEFINE n == NFNext(h, x)
  <2>4. n # q /\ n \in Nat /\ n % 8 = 0
    <3>1. L[x] = n /\ n \in Nat /\ n % 8 = 0
      BY <2>1, NFBlock DEF NFLinks
    <3>2. CASE x < p
      <4>1. L[x] <= p
        BY <1>1, <2>1, <3>2 DEF Tiles
      <4> HIDE DEF n, L
      <4> QED
        BY <1>1, <1>2, <3>1, <4>1
    <3>3. CASE q <= x
      <4>1. x < L[x]
        BY <1>1, <2>1 DEF Tiles
      <4> HIDE DEF n, L
      <4> QED
        BY <1>1, <1>2, <2>1, <3>1, <3>3, <4>1
    <3>4. x < p \/ q <= x
      BY <1>1, <1>6, <2>1 DEF Without
    <3> QED
      BY <3>1, <3>2, <3>3, <3>4
  <2>5. NFNext(g, x) = n
    BY <2>3 DEF NFNext
  <2>6. n - 8 # p - 4 /\ n - 8 # q - 8
    <3> HIDE DEF n
    <3> QED
      BY <1>1, <1>2, <2>4
  <2> QED
    BY <1>5, <2>1, <2>3, <2>5, <2>6
<1>7. p \in C /\ C \subseteq B
  BY <1>1, <1>2 DEF Without
<1>8. NFHdr(g, p) = t /\ t.alloc = a /\ NFNext(g, p) = q
  BY <1>1, <1>2, <1>5 DEF NFHdr, NFNext, t, NFTag
<1>9. Tiles(C, g.brk, NFLinks(g, C))
  <2> DEFINE M == NFLinks(g, C)
  <2>1. Merges(C, L, p, q, M)
    <3> SUFFICES ASSUME NEW x \in C
                 PROVE  M[x] = IF x = p THEN q ELSE L[x]
      BY DEF Merges
    <3>1. M[x] = NFNext(g, x) /\ L[x] = NFNext(h, x)
      BY <1>7 DEF NFLinks
    <3>2. x # p => NFNext(g, x) = NFNext(h, x)
      BY <1>6 DEF NFNext
    <3> HIDE DEF M, L
    <3> QED
      BY <1>8, <3>1, <3>2
  <2> HIDE DEF L, M
  <2>2. Tiles(C, h.brk, M)
    BY <1>1, <2>1, MergeTiles
  <2> QED
    BY <1>5, <2>2 DEF M
<1>10. NFHdr(g, g.brk) = NFTag(0, 1)
  <2>1. h.brk - 4 # p - 4 /\ h.brk - 4 # q - 8
    BY <1>1, <1>2
  <2> QED
    BY <1>5, <2>1 DEF NFHdr, NFList
<1>11. NFHdr(g, 8) = NFTag(8, 1)
  <2>1. 8 \in C
    BY <1>1 DEF Without
  <2> QED
    BY <1>6, <2>1 DEF NFList
<1>12. \A x \in C : /\ NFHdr(g, x).alloc \in {0, 1}
                    /\ NextFit!Get(g, NFNext(g, x) - 8) = NFHdr(g, x)
  <2> TAKE x \in C
  <2>1. CASE x = p
    BY <1>5, <1>8, <2>1
  <2>2. CASE x # p
    BY <1>6, <2>2
  <2> QED
    BY <2>1, <2>2
<1> QED
  BY <1>5, <1>6, <1>7, <1>8, <1>9, <1>10, <1>11, <1>12 DEF NFList, t

-----------------------------------------------------------------------------
(* coalesce of the next-fit allocator *)

NFHeld(h, B) == {b \in B \ {8} : NFHdr(h, b).alloc = 1}

(* No two free neighbours, those with a member of X aside. *)
NFCoalesced(h, B, X) ==
    \A b, c \in B : NFHdr(h, b).alloc = 0 /\ NFHdr(h, c).alloc = 0 /\ c = NFNext(h, b)
                        => b \in X \/ c \in X
NFReady(h, B, X) == NFList(h, B) /\ h.rover \in B \cup {h.brk} /\ NFCoalesced(h, B, X)

(* The allocated blocks of B are those of C, with their sizes. *)
NFKept(h, B, g, C) == /\ NFHeld(g, C) = NFHeld(h, B)
                      /\ \A b \in NFHeld(h, B) : NFHdr(g, b) = NFHdr(h, b)

LEMMA NFMoveRover ==
  ASSUME NEW h, NEW B, NFList(h, B), NEW r \in 0 .. MAX_HEAP,
         NEW g, g = [h EXCEPT !.rover = r]
  PROVE  /\ NFList(g, B) /\ g.rover = r /\ g.brk = h.brk /\ g \in NFHeaps
         /\ \A w : NextFit!Get(g, w) = NextFit!Get(h, w)
<1>1. /\ g \in NFHeaps /\ g.rover = r /\ g.brk = h.brk /\ g.mem = h.mem
  BY DEF NFList, NFHeaps
<1>2. \A w : NextFit!Get(g, w) = NextFit!Get(h, w)
  BY <1>1 DEF NextFit!Get
<1>3. \A b : NFHdr(g, b) = NFHdr(h, b) /\ NFNext(g, b) = NFNext(h, b)
  BY <1>2 DEF NFHdr, NFNext
<1>4. NFLinks(g, B) = NFLinks(h, B)
  BY <1>3 DEF NFLinks
<1> QED
  BY <1>1, <1>2, <1>3, <1>4 DEF NFList

(* The block after a block, and the block before it. *)
LEMMA NFNeighbours ==
  ASSUME NEW h, NEW B, NFList(h, B), NEW b \in B
  PROVE  /\ NFNext(h, b) \in B \cup {h.brk} /\ NFNext(h, b) \in Nat /\ b < NFNext(h, b)
         /\ \A x \in B : x < NFNext(h, b) => x <= b
         /\ \A x \in B : b < x => NFNext(h, b) <= x
         /\ \A x \in B : NFNext(h, x) = NFNext(h, b) => x = b
         /\ b # 8 => \E x \in B : NFNext(h, x) = b
<1>1. Tiles(B, h.brk, NFLinks(h, B)) /\ \A x \in B : NFLinks(h, B)[x] = NFNext(h, x)
  BY DEF NFList, NFLinks
<1> DEFINE L == NFLinks(h, B)
<1> HIDE DEF L
<1>2. /\ L[b] \in B \cup {h.brk} /\ L[b] \in Nat /\ b < L[b]
      /\ \A x \in B : x < L[b] => x <= b
      /\ \A x \in B : b < x => L[b] <= x
      /\ \A x \in B : L[x] = L[b] => x = b
      /\ b # 8 => \E x \in B : L[x] = b
  <2>1. Tiles(B, h.brk, L)
    BY <1>1 DEF L
  <2>2. \A x \in B : x < L[b] => x <= b
    BY <2>1, TilesApart
  <2>3. \A x \in B : L[x] = L[b] => x = b
    BY <2>1, TilesApart
  <2>4. L[b] \in Nat
    BY <2>1, TilesNat
  <2> QED
    BY <2>1, <2>2, <2>3, <2>4, NFConstants DEF Tiles
<1> QED
  BY <1>1, <1>2 DEF L

(* The blocks from p up to q are free, those around them are not. *)
NFFreeRun(h, B, p, q) ==
    /\ \A x \in B : p <= x /\ x < q => NFHdr(h, x).alloc = 0
    /\ \A x \in B : NFNext(h, x) = p => NFHdr(h, x).alloc # 0
    /\ q \in B => NFHdr(h, q).alloc # 0

(* They become the free block p. *)
LEMMA NFMerge ==
  ASSUME NEW h, NEW B, NEW bp, NFReady(h, B, {bp}),
         NEW p \in B \ {8}, NEW q \in B \cup {h.brk}, p <= bp, bp < q, bp \in B,
         NFFreeRun(h, B, p, q),
         NEW g, g = NextFit!FixRover(NextFit!PutTags(h, p - 4, q - 8, q - p, 0), p),
         NEW C, C = Without(B, p, q)
  PROVE  /\ NFReady(g, C, {}) /\ NFKept(h, B, g, C) /\ g.brk = h.brk
         /\ p \in C \ {8} /\ NFHdr(g, p) = NFTag(q - p, 0)
<1> DEFINE f == NextFit!PutTags(h, p - 4, q - 8, q - p, 0)
<1>0. /\ NFList(h, B) /\ p \in Nat /\ bp \in Nat /\ q \in Nat /\ p < q /\ h.brk \in 0 .. MAX_HEAP
      /\ h.rover \in B \cup {h.brk} /\ h.rover \in Nat /\ q <= h.brk
  <2>1. NFList(h, B) /\ h.rover \in B \cup {h.brk}
    BY DEF NFReady
  <2>2. h.brk \in 0 .. MAX_HEAP /\ h.rover \in Nat
    BY <2>1 DEF NFList, NFHeaps
  <2>3. p \in Nat /\ bp \in Nat /\ (q \in B => q \in Nat /\ q < h.brk)
    BY <2>1, NFBlock
  <2> QED
    BY <2>1, <2>2, <2>3
<1>1. /\ NFList(f, C) /\ f.brk = h.brk /\ f.rover = h.rover /\ p \in C
      /\ NFHdr(f, p) = NFTag(q - p, 0)
      /\ \A x \in C : x # p => NFHdr(f, x) = NFHdr(h, x)
  <2>1. 0 \in {0, 1}
    OBVIOUS
  <2> HIDE DEF f
  <2>2. f = NextFit!PutTags(h, p - 4, q - 8, q - p, 0)
    BY DEF f
  <2> QED
    BY <1>0, <2>1, <2>2, NFOverwrite
<1>2. NextFit!Next_(f, p) = q
  <2>1. NFHdr(f, p).size = q - p
    BY <1>1 DEF NFTag
  <2>2. NextFit!Next_(f, p) = p + (q - p)
    BY <2>1, NFMacros DEF NFNext
  <2> QED
    BY <1>0, <2>2
<1> HIDE DEF f
<1>3. /\ NFList(g, C) /\ g.brk = h.brk /\ g.rover \in C \cup {h.brk}
      /\ \A w : NextFit!Get(g, w) = NextFit!Get(f, w)
  <2>0. g = NextFit!FixRover(f, p)
    BY DEF f
  <2>1. CASE f.rover > p /\ f.rover < q
    <3>1. g = [f EXCEPT !.rover = p]
      BY <1>2, <2>0, <2>1 DEF NextFit!FixRover
    <3>2. p \in 0 .. MAX_HEAP
      BY <1>0, Widths
    <3> QED
      BY <1>1, <3>1, <3>2, NFMoveRover
  <2>2. CASE ~(f.rover > p /\ f.rover < q)
    <3>1. g = f
      BY <1>2, <2>0, <2>2 DEF NextFit!FixRover
    <3>2. h.rover <= p \/ q <= h.rover
      BY <1>0, <1>1, <2>2
    <3> QED
      BY <1>0, <1>1, <3>1, <3>2 DEF Without
  <2> QED
    BY <2>1, <2>2
<1>4. \A x : NFHdr(g, x) = NFHdr(f, x)
  BY <1>3 DEF NFHdr
<1>5. /\ C \subseteq B /\ NFHdr(g, p).alloc = 0 /\ NFHdr(h, p).alloc = 0 /\ NFNext(g, p) = q
      /\ \A x \in C : x # p => NFHdr(g, x) = NFHdr(h, x) /\ NFNext(g, x) = NFNext(h, x)
      /\ bp \in C => bp = p
  <2>1. NFHdr(g, p).alloc = 0 /\ NFHdr(g, p).size = q - p
    BY <1>1, <1>4 DEF NFTag
  <2>2. NFNext(g, p) = q
    BY <1>0, <2>1 DEF NFNext
  <2>3. NFHdr(h, p).alloc = 0
    BY <1>0 DEF NFFreeRun
  <2>4. bp \in C => bp = p
    BY <1>0 DEF Without
  <2> QED
    BY <1>1, <1>4, <2>1, <2>2, <2>3, <2>4 DEF NFNext, Without
<1>6. NFCoalesced(g, C, {})
  <2> SUFFICES ASSUME NEW b \in C, NEW c \in C, NFHdr(g, b).alloc = 0, NFHdr(g, c).alloc = 0,
                      c = NFNext(g, b)
               PROVE  FALSE
    BY DEF NFCoalesced
  <2>1. CASE b = p
    <3>1. c = q /\ c # p
      BY <1>0, <1>5, <2>1
    <3> QED
      BY <1>5, <3>1 DEF NFFreeRun
  <2>2. CASE c = p
    BY <1>0, <1>5, <2>1, <2>2 DEF NFFreeRun
  <2>3. CASE b # p /\ c # p
    <3>1. b # bp /\ c # bp
      BY <1>5, <2>3
    <3> QED
      BY <1>5, <2>3, <3>1 DEF NFReady, NFCoalesced
  <2> QED
    BY <2>1, <2>2, <2>3
<1>7. NFKept(h, B, g, C)
  <2>1. ASSUME NEW x \in B \ {8}, NFHdr(h, x).alloc = 1
        PROVE  x \in C \ {8} /\ NFHdr(g, x) = NFHdr(h, x)
    <3>1. x \in Nat
      BY <1>0, NFBlock
    <3>2. x < p \/ q <= x
      BY <1>0, <2>1, <3>1 DEF NFFreeRun
    <3>3. x \in C /\ x # p
      BY <1>0, <3>1, <3>2 DEF Without
    <3> QED
      BY <1>5, <3>3
  <2>2. ASSUME NEW x \in C \ {8}, NFHdr(g, x).alloc = 1
        PROVE  x \in B \ {8} /\ NFHdr(h, x).alloc = 1
    <3>1. x # p
      BY <1>5, <2>2
    <3> QED
      BY <1>5, <2>2, <3>1
  <2> QED
    BY <2>1, <2>2 DEF NFKept, NFHeld
<1> QED
  BY <1>1, <1>3, <1>4, <1>6, <1>7 DEF NFReady

LEMMA NFCoalesce ==
  ASSUME NEW h, NEW B, NEW bp \in B \ {8}, NFReady(h, B, {bp}), NFHdr(h, bp).alloc = 0,
         NEW r, r = NextFit!Coalesce(h, bp)
  PROVE  \E C : /\ NFReady(r[1], C, {}) /\ NFKept(h, B, r[1], C) /\ r[1].brk = h.brk
                /\ r[2] \in C \ {8} /\ NFHdr(r[1], r[2]).alloc = 0
                /\ NFHdr(h, bp).size <= NFHdr(r[1], r[2]).size
<1>1. /\ NFList(h, B) /\ h \in NFHeaps /\ h.brk \in Nat
      /\ \A x \in B : x \in Nat /\ NFHdr(h, x).size \in Nat
  BY NFBlock DEF NFReady, NFList, NFHeaps
<1>2. PICK prev \in B : NFNext(h, prev) = bp
  BY <1>1, NFNeighbours
<1> DEFINE next == NFNext(h, bp)
           size == NFHdr(h, bp).size
           prevAlloc == NFHdr(h, prev).alloc # 0
           nextAlloc == NFHdr(h, next).alloc # 0
           p == IF prevAlloc THEN bp ELSE prev
           q == IF nextAlloc THEN next ELSE NFNext(h, next)
<1>3. /\ NextFit!Prev_(h, bp) = prev /\ NextFit!Ftrp(h, prev) = bp - 8
      /\ NextFit!Get(h, bp - 8) = NFHdr(h, prev)
  <2>1. NextFit!Get(h, NFNext(h, prev) - 8) = NFHdr(h, prev)
    BY <1>1 DEF NFList
  <2>2. prev + NFHdr(h, prev).size = bp
    BY <1>2 DEF NFNext
  <2>3. bp - NFHdr(h, prev).size = prev
    BY <1>1, <2>2
  <2>4. NextFit!Get(h, bp - 8) = NFHdr(h, prev)
    BY <1>2, <2>1
  <2> QED
    BY <1>1, <1>2, <2>3, <2>4, NFMacros, NFFooter
<1>4. /\ NextFit!Next_(h, bp) = next /\ NextFit!Size(h, bp) = size
      /\ NextFit!Alloc(h, next) = NFHdr(h, next).alloc
      /\ NextFit!Size(h, next) = NFHdr(h, next).size
      /\ NextFit!Hdrp(prev) = prev - 4 /\ NextFit!Hdrp(bp) = bp - 4
      /\ NextFit!Ftrp(h, bp) = next - 8
      /\ NextFit!Ftrp(h, next) = NFNext(h, next) - 8
      /\ NextFit!Size(h, prev) = NFHdr(h, prev).size
  <2>1. /\ NextFit!Next_(h, bp) = next /\ NextFit!Size(h, bp) = size
        /\ NextFit!Hdrp(bp) = bp - 4 /\ NextFit!Ftrp(h, bp) = next - 8
    BY <1>1, NFMacros, NFFooter
  <2>2. NextFit!Hdrp(prev) = prev - 4 /\ NextFit!Size(h, prev) = NFHdr(h, prev).size
    BY NFMacros
  <2>4. next \in Nat
    BY <1>1, NFNeighbours
  <2> HIDE DEF next, nextAlloc, q, prevAlloc, p, size
  <2>3. /\ NextFit!Alloc(h, next) = NFHdr(h, next).alloc
        /\ NextFit!Size(h, next) = NFHdr(h, next).size
        /\ NextFit!Ftrp(h, next) = NFNext(h, next) - 8
    BY <1>1, <2>4, NFMacros, NFFooter
  <2> QED
    BY <2>1, <2>2, <2>3
<1>5. /\ next \in B \cup {h.brk} /\ next \in Nat /\ bp < next /\ prev < bp
  BY <1>1, <1>2, NFNeighbours
<1>6. /\ ~nextAlloc => next \in B /\ next < NFNext(h, next)
      /\ ~nextAlloc => NFNext(h, next) \in (B \cup {h.brk}) \cap Nat
      /\ ~nextAlloc => NextFit!Get(h, NFNext(h, next) - 8) = NFHdr(h, next)
  <2>1. NFHdr(h, h.brk).alloc # 0
    BY <1>1 DEF NFList, NFTag
  <2>2. ~nextAlloc => next \in B
    BY <1>5, <2>1
  <2> QED
    BY <1>1, <2>2, NFNeighbours DEF NFList
<1>7. prev # 8 \/ prevAlloc
  BY <1>1 DEF NFList, NFTag
<1>8. /\ p \in B \ {8} /\ q \in B \cup {h.brk} /\ p <= bp /\ bp < q
      /\ p \in Nat /\ q \in Nat
  BY <1>1, <1>5, <1>6, <1>7
<1>9. \A x \in B : p <= x /\ x < q => NFHdr(h, x).alloc = 0
  <2> SUFFICES ASSUME NEW x \in B, p <= x, x < q
               PROVE  x = bp \/ (x = prev /\ ~prevAlloc) \/ (x = next /\ ~nextAlloc)
    OBVIOUS
  <2>0. x \in Nat
    BY <1>1
  <2>1. CASE x < bp
    <3>1. x <= prev
      BY <1>1, <1>2, <2>1, NFNeighbours
    <3> QED
      BY <1>5, <1>8, <2>0, <2>1, <3>1
  <2>2. CASE bp < x
    <3>1. next <= x
      BY <1>1, <2>2, NFNeighbours
    <3>2. ~nextAlloc => x <= next
      BY <1>1, <1>6, NFNeighbours
    <3> HIDE DEF next
    <3> QED
      BY <1>5, <2>0, <3>1, <3>2
  <2> QED
    BY <1>8, <2>0, <2>1, <2>2
<1>10. \A x \in B : NFNext(h, x) = p => NFHdr(h, x).alloc # 0
  <2> SUFFICES ASSUME NEW x \in B, NFNext(h, x) = p, NFHdr(h, x).alloc = 0
               PROVE  FALSE
    OBVIOUS
  <2>1. CASE prevAlloc
    <3>1. x = prev
      BY <1>1, <1>2, <2>1, NFNeighbours
    <3> QED
      BY <2>1, <3>1
  <2>2. CASE ~prevAlloc
    <3>1. x = bp \/ prev = bp
      BY <2>2, <1>8 DEF NFReady, NFCoalesced
    <3>2. NFNext(h, bp) = prev
      BY <1>1, <1>5, <2>2, <3>1
    <3> QED
      BY <1>1, <1>5, <3>2
  <2> QED
    BY <2>1, <2>2
<1>11. q \in B => NFHdr(h, q).alloc # 0
  <2> SUFFICES ASSUME q \in B, NFHdr(h, q).alloc = 0
               PROVE  FALSE
    OBVIOUS
  <2>1. ~nextAlloc /\ q = NFNext(h, next)
    OBVIOUS
  <2>2. next = bp \/ q = bp
    BY <1>6, <2>1 DEF NFReady, NFCoalesced
  <2> QED
    BY <1>5, <1>8, <2>2
<1>12. /\ prevAlloc /\ nextAlloc => r = <<h, bp>>
       /\ ~(prevAlloc /\ nextAlloc)
             => r = <<NextFit!FixRover(NextFit!PutTags(h, p - 4, q - 8, q - p, 0), p), p>>
  <2>1. NextFit!Get(h, NextFit!Ftrp(h, NextFit!Prev_(h, bp))).alloc = NFHdr(h, prev).alloc
    BY <1>3
  <2> DEFINE NewTags(n) == NextFit!PutTags(h, p - 4, q - 8, n, 0)
  <2>2. CASE prevAlloc /\ nextAlloc
    BY <1>4, <2>1, <2>2 DEF NextFit!Coalesce
  <2>3. CASE prevAlloc /\ ~nextAlloc
    <3>1. size + NFHdr(h, next).size = q - p
      BY <1>1, <1>6, <2>3 DEF NFNext
    <3>2. q - p \in 0 .. UINT_MOD - 1 /\ bp - 4 \in NextFit!Words /\ p = bp
      <4>1. q <= h.brk /\ h.brk \in 0 .. MAX_HEAP /\ bp - 4 \in NextFit!Words
        BY <1>1, <1>8, NFBlock DEF NFList, NFHeaps
      <4> HIDE DEF q
      <4> QED
        BY <1>8, <2>3, <4>1, Widths
    <3>3. NextFit!PutBlock(h, bp, q - p, 0) = NewTags(q - p)
      <4> HIDE DEF q, p
      <4>1. (p + (q - p)) - 8 = q - 8 /\ 0 \in {0, 1} /\ p \in Int
        BY <1>8
      <4> DEFINE len == q - p
      <4>2. len \in 0 .. UINT_MOD - 1 /\ bp \in Int /\ (bp + len) - 8 = q - 8
        BY <3>2, <4>1
      <4> HIDE DEF len
      <4>5. /\ h \in NFHeaps /\ bp - 4 \in NextFit!Words /\ bp \in Int /\ 0 \in {0, 1}
            /\ len \in 0 .. UINT_MOD - 1
        BY <1>1, <3>2, <4>2
      <4>3. NextFit!PutBlock(h, bp, len, 0) = NextFit!PutTags(h, bp - 4, (bp + len) - 8, len, 0)
        BY <4>5, NFPutBlock
      <4>4. NextFit!PutBlock(h, bp, len, 0) = NextFit!PutTags(h, p - 4, q - 8, len, 0)
        BY <3>2, <4>2, <4>3, Zenon
      <4> QED
        BY <4>4 DEF len
    <3> QED
      BY <1>4, <2>1, <2>3, <3>1, <3>3 DEF NextFit!Coalesce
  <2>4. CASE ~prevAlloc /\ nextAlloc
    <3>1. size + NFHdr(h, prev).size = q - p
      BY <1>1, <1>2, <2>4 DEF NFNext
    <3> QED
      BY <1>3, <1>4, <2>1, <2>4, <3>1 DEF NextFit!Coalesce
  <2>5. CASE ~prevAlloc /\ ~nextAlloc
    <3>1. size + NFHdr(h, prev).size + NFHdr(h, next).size = q - p
      BY <1>1, <1>2, <1>6, <2>5 DEF NFNext
    <3> QED
      BY <1>3, <1>4, <1>6, <2>1, <2>5, <3>1 DEF NextFit!Coalesce
  <2> QED
    BY <2>2, <2>3, <2>4, <2>5
<1> HIDE DEF p, q, next, prevAlloc, nextAlloc
<1>13. CASE prevAlloc /\ nextAlloc
  <2>1. NFCoalesced(h, B, {})
    <3> SUFFICES ASSUME NEW b \in B, NEW c \in B, NFHdr(h, b).alloc = 0, NFHdr(h, c).alloc = 0,
                        c = NFNext(h, b)
                 PROVE  FALSE
      BY DEF NFCoalesced
    <3>1. b = bp \/ c = bp
      BY DEF NFReady, NFCoalesced
    <3>2. p = bp /\ q = next
      BY <1>13 DEF p, q
    <3> QED
      BY <1>10, <1>11, <3>1, <3>2 DEF next
  <2>2. NFReady(h, B, {}) /\ NFKept(h, B, h, B)
    BY <2>1 DEF NFReady, NFKept
  <2> QED
    BY <1>1, <1>12, <1>13, <2>2
<1>14. CASE ~(prevAlloc /\ nextAlloc)
  <2> DEFINE g == NextFit!FixRover(NextFit!PutTags(h, p - 4, q - 8, q - p, 0), p)
             C == Without(B, p, q)
  <2>1. /\ NFReady(g, C, {}) /\ NFKept(h, B, g, C) /\ g.brk = h.brk
        /\ p \in C \ {8} /\ NFHdr(g, p) = NFTag(q - p, 0)
    <3>1. NFFreeRun(h, B, p, q)
      BY <1>9, <1>10, <1>11 DEF NFFreeRun
    <3> QED
      BY <1>8, <3>1, NFMerge
  <2>2. NFHdr(g, p).alloc = 0 /\ NFHdr(g, p).size = q - p
    BY <2>1 DEF NFTag
  <2>3. size <= q - p
    <3>1. next <= q
      BY <1>5, <1>6 DEF q
    <3>2. size = next - bp /\ size \in Nat
      BY <1>1 DEF next, NFNext
    <3> HIDE DEF size
    <3> QED
      BY <1>1, <1>5, <1>8, <3>1, <3>2
  <2>4. r[1] = g /\ r[2] = p
    BY <1>12, <1>14
  <2> HIDE DEF g, C
  <2> QED
    BY <2>1, <2>2, <2>3, <2>4
<1> QED
  BY <1>13, <1>14

-----------------------------------------------------------------------------
(* extend_heap of the next-fit allocator *)

(* What mem_sbrk makes of a size: the size, or a negative number. *)
LEMMA AsInt == ASSUME NEW x \in Nat, x < UINT_MOD,
                      NEW v, v = ((x + UINT_MOD \div 2) % UINT_MOD) - UINT_MOD \div 2
               PROVE  v \in Int /\ (v = x \/ v < 0)
<1> DEFINE half == UINT_MOD \div 2
<1>1. half \in Nat /\ UINT_MOD = 2 * half
  BY Widths
<1> HIDE DEF half
<1>2. CASE x < half
  <2>1. (x + half) % UINT_MOD = x + half
    BY <1>1, <1>2, Widths, ModSmall
  <2> QED
    BY <1>1, <2>1 DEF half
<1>3. CASE half <= x
  <2>1. (x + half) % UINT_MOD = (x + half) - UINT_MOD
    <3> DEFINE y == x + half
    <3>1. y \in Nat /\ UINT_MOD <= y /\ y < 2 * UINT_MOD
      BY <1>1, <1>3, Widths
    <3> HIDE DEF y
    <3>2. y % UINT_MOD = y - UINT_MOD
      BY <3>1, Widths, ModOver
    <3> QED
      BY <3>2 DEF y
  <2> QED
    BY <1>1, <2>1, Widths DEF half
<1> QED
  BY <1>1, <1>2, <1>3

(* extend_heap rounds a number of words up to an even one. *)
LEMMA EvenWords ==
  ASSUME NEW x \in Nat, x % 8 = 0, x < UINT_MOD,
         NEW words, words = x \div 4
  PROVE  ((words + (words % 2)) * 4) % SIZE_MOD = x
<1>1. words \in Nat /\ words % 2 = 0 /\ words * 4 = x
  OBVIOUS
<1>2. (words + (words % 2)) * 4 = x
  BY <1>1
<1>3. x < SIZE_MOD
  BY Widths
<1> QED
  BY <1>2, <1>3, ModSmall, Widths

LEMMA NFExtend ==
  ASSUME NEW h, NEW B, NFReady(h, B, {}), NEW x \in Nat, x % 8 = 0, 8 <= x, x < UINT_MOD,
         NEW r, r = NextFit!ExtendHeap(h, x \div 4)
  PROVE  \/ r = <<h, 0>>
         \/ \E C : /\ NFReady(r[1], C, {}) /\ NFKept(h, B, r[1], C)
                   /\ r[2] \in C \ {8} /\ NFHdr(r[1], r[2]).alloc = 0
                   /\ x <= NFHdr(r[1], r[2]).size
<1> DEFINE e == h.brk
           f == e + x
           g1 == [h EXCEPT !.brk = @ + x]
           g2 == NextFit!PutTags(g1, e - 4, f - 8, x, 0)
           g3 == NextFit!Put(g2, f - 4, NFTag(0, 1))
           C == B \cup {e}
<1>1. /\ NFList(h, B) /\ h \in NFHeaps /\ Tiles(B, e, NFLinks(h, B)) /\ 8 \in B
      /\ e \in 16 .. MAX_HEAP /\ e % 8 = 0 /\ e - 4 \in NextFit!Words
  <2>1. NFList(h, B) /\ h \in NFHeaps /\ Tiles(B, e, NFLinks(h, B)) /\ 8 \in B
    BY NFConstants DEF NFReady, NFList, Tiles
  <2> QED
    BY <2>1, NFBlock
<1>2. NextFit!ToInt(x) \in Int /\ (NextFit!ToInt(x) = x \/ NextFit!ToInt(x) < 0)
  BY AsInt DEF NextFit!ToInt
<1>3. (((x \div 4) + ((x \div 4) % 2)) * NextFit!WSIZE) % SIZE_MOD = x
  BY EvenWords, NFConstants
<1>4. CASE NextFit!SbrkFails(h, x)
  BY <1>3, <1>4, NFConstants DEF NextFit!ExtendHeap
<1>5. CASE ~NextFit!SbrkFails(h, x)
  <2>1. NextFit!ToInt(x) = x /\ f <= MAX_HEAP
    BY <1>1, <1>2, <1>5, Widths DEF NextFit!SbrkFails
  <2>2. f \in 24 .. MAX_HEAP /\ f % 8 = 0 /\ e + 8 <= f /\ e \in Nat /\ f \in Nat
    <3> HIDE DEF e
    <3>1. e \in Int /\ x \in Int
      BY <1>1
    <3>2. (e + x) % 8 = 0
      BY <1>1, <3>1, Eights
    <3> QED
      BY <1>1, <2>1, <3>2, Widths
  <2>3. f - 4 \in NextFit!Words /\ f - 8 \in NextFit!Words
    <3> HIDE DEF f, e
    <3>1. f \in 8 .. MAX_HEAP /\ f >= 16
      BY <2>2, Widths
    <3> QED
      BY <2>2, <3>1, EightWords
  <2>4. /\ g1 \in NFHeaps /\ g1.brk = f /\ g1.rover = h.rover
        /\ \A w : NextFit!Get(g1, w) = NextFit!Get(h, w)
    <3>1. g1 \in NFHeaps /\ g1.brk = f /\ g1.rover = h.rover /\ g1.mem = h.mem
      BY <1>1, <2>2, Widths DEF NFHeaps
    <3> QED
      BY <3>1 DEF NextFit!Get
  <2> HIDE DEF g1
  <2>5. /\ g2 \in NFHeaps /\ g2.brk = f /\ g2.rover = h.rover
        /\ NextFit!Get(g2, e - 4) = NFTag(x, 0) /\ NextFit!Get(g2, f - 8) = NFTag(x, 0)
        /\ \A w : w # e - 4 /\ w # f - 8 => NextFit!Get(g2, w) = NextFit!Get(h, w)
    <3> HIDE DEF e, f
    <3>1. x \in 0 .. UINT_MOD - 1 /\ 0 \in {0, 1}
      BY Widths
    <3>2. NFWrote(g1, g2, e - 4, f - 8, x, 0)
      BY <1>1, <2>3, <2>4, <3>1, NFPutTags
    <3> HIDE DEF g2
    <3> QED
      BY <2>4, <3>2 DEF NFWrote
  <2>6. NextFit!Tag(0, 1, 0) = NFTag(0, 1) /\ NFTag(0, 1) \in Tags
    <3>1. 0 \in 0 .. UINT_MOD - 1 /\ 1 \in {0, 1}
      BY Widths
    <3> QED
      BY <3>1, NFTagged
  <2> HIDE DEF g2
  <2>7. /\ g3 \in NFHeaps /\ g3.brk = f /\ g3.rover = h.rover
        /\ NextFit!Get(g3, e - 4) = NFTag(x, 0) /\ NextFit!Get(g3, f - 8) = NFTag(x, 0)
        /\ NextFit!Get(g3, f - 4) = NFTag(0, 1)
        /\ \A w : w # e - 4 /\ w # f - 8 /\ w # f - 4 => NextFit!Get(g3, w) = NextFit!Get(h, w)
    <3> HIDE DEF e, f
    <3>1. e - 4 # f - 4 /\ f - 8 # f - 4
      BY <2>2
    <3>2. /\ g3 \in NFHeaps /\ g3.brk = g2.brk /\ g3.rover = g2.rover
          /\ NextFit!Get(g3, f - 4) = NFTag(0, 1)
          /\ \A w : w # f - 4 => NextFit!Get(g3, w) = NextFit!Get(g2, w)
      BY <2>3, <2>5, <2>6, NFPut
    <3> HIDE DEF g3
    <3> QED
      BY <2>5, <3>1, <3>2
  <2>8. r = NextFit!Coalesce(g3, e)
    <3>1. NextFit!PutBlock(g1, e, x, 0) = g2
      <4>1. x \in 0 .. UINT_MOD - 1 /\ 0 \in {0, 1} /\ (e + x) - 8 = f - 8 /\ e \in Int
        BY <1>1, Widths
      <4> HIDE DEF e, f
      <4>2. NextFit!PutBlock(g1, e, x, 0) = NextFit!PutTags(g1, e - 4, f - 8, x, 0)
        BY <1>1, <2>4, <4>1, NFPutBlock
      <4> QED
        BY <4>2 DEF g2
    <3>2. NextFit!Hdrp(NextFit!Next_(g2, e)) = f - 4
      BY <2>5, NFMacros DEF NFNext, NFHdr, NFTag
    <3> QED
      BY <1>3, <1>5, <2>1, <2>6, <3>1, <3>2 DEF NextFit!ExtendHeap, g1
  <2> HIDE DEF g3
  <2>9. \A b \in B : /\ b \in Nat /\ b < e /\ NFHdr(g3, b) = NFHdr(h, b)
                     /\ NFNext(h, b) \in Nat /\ NFNext(h, b) <= e
                     /\ NextFit!Get(g3, NFNext(h, b) - 8) = NextFit!Get(h, NFNext(h, b) - 8)
    <3> SUFFICES ASSUME NEW b \in B
                 PROVE  /\ b \in Nat /\ b < e /\ NFHdr(g3, b) = NFHdr(h, b)
                        /\ NFNext(h, b) \in Nat /\ NFNext(h, b) <= e
                        /\ NextFit!Get(g3, NFNext(h, b) - 8) = NextFit!Get(h, NFNext(h, b) - 8)
      OBVIOUS
    <3>1. b \in Nat /\ b < e /\ NFNext(h, b) \in Nat /\ NFNext(h, b) <= e
      BY <1>1, NFBlock
    <3> DEFINE n == NFNext(h, b)
    <3> HIDE DEF e, f, n
    <3>2. b - 4 # e - 4 /\ b - 4 # f - 8 /\ b - 4 # f - 4
      BY <2>2, <3>1
    <3>3. n - 8 # e - 4 /\ n - 8 # f - 8 /\ n - 8 # f - 4
      BY <2>2, <3>1 DEF n
    <3> QED
      BY <2>7, <3>1, <3>2, <3>3 DEF NFHdr, n
  <2>10. NFHdr(g3, e) = NFTag(x, 0) /\ NFHdr(g3, f) = NFTag(0, 1) /\ NFNext(g3, e) = f
    BY <2>7 DEF NFHdr, NFNext, NFTag
  <2>11. NFList(g3, C)
    <3>1. Tiles(C, f, NFLinks(g3, C))
      <4>1. Aligned(f)
        BY <2>2 DEF Aligned
      <4>2. Extends(C, NFLinks(h, B), e, f, NFLinks(g3, C))
        <5> SUFFICES ASSUME NEW b \in C
                     PROVE  NFLinks(g3, C)[b] = IF b = e THEN f ELSE NFLinks(h, B)[b]
          BY DEF Extends
        <5>1. NFLinks(g3, C)[b] = NFNext(g3, b)
          BY DEF NFLinks
        <5>2. CASE b = e
          BY <2>10, <5>1, <5>2
        <5>3. CASE b # e
          <6>1. b \in B /\ NFLinks(h, B)[b] = NFNext(h, b)
            BY <5>3 DEF NFLinks
          <6>2. NFNext(g3, b) = NFNext(h, b)
            BY <2>9, <6>1 DEF NFNext
          <6> QED
            BY <5>1, <5>3, <6>1, <6>2
        <5> QED
          BY <5>2, <5>3
      <4>3. e < f
        BY <2>2
      <4> HIDE DEF e, f, C
      <4>4. C = B \cup {e}
        BY DEF C
      <4> QED
        BY <1>1, <4>1, <4>2, <4>3, <4>4, ExtendTiles
    <3>2. ASSUME NEW b \in C
          PROVE  /\ NFHdr(g3, b).alloc \in {0, 1}
                 /\ NextFit!Get(g3, NFNext(g3, b) - 8) = NFHdr(g3, b)
      <4>1. CASE b = e
        BY <2>7, <2>10, <4>1 DEF NFTag
      <4>2. CASE b # e
        BY <1>1, <2>9, <4>2 DEF NFList, NFNext
      <4> QED
        BY <4>1, <4>2
    <3>3. NFHdr(g3, 8) = NFTag(8, 1)
      BY <1>1, <2>9 DEF NFList
    <3> QED
      BY <2>7, <2>10, <3>1, <3>2, <3>3 DEF NFList
  <2>12. NFReady(g3, C, {e}) /\ NFKept(h, B, g3, C)
    <3>1. g3.rover \in C \cup {g3.brk}
      BY <2>7 DEF NFReady
    <3>2. NFCoalesced(g3, C, {e})
      <4> SUFFICES ASSUME NEW b \in B, NEW c \in B, NFHdr(g3, b).alloc = 0, NFHdr(g3, c).alloc = 0,
                          c = NFNext(g3, b)
                   PROVE  FALSE
        BY DEF NFCoalesced
      <4>1. NFNext(g3, b) = NFNext(h, b)
        BY <2>9 DEF NFNext
      <4> QED
        BY <2>9, <4>1 DEF NFReady, NFCoalesced
    <3>3. NFHeld(g3, C) = NFHeld(h, B)
      <4>1. NFHdr(g3, e).alloc # 1
        BY <2>10 DEF NFTag
      <4> HIDE DEF e
      <4> QED
        BY <2>9, <4>1 DEF NFHeld
    <3> QED
      BY <2>9, <2>11, <3>1, <3>2, <3>3 DEF NFReady, NFKept, NFHeld
  <2>13. PICK D : /\ NFReady(r[1], D, {}) /\ NFKept(g3, C, r[1], D)
                  /\ r[2] \in D \ {8} /\ NFHdr(r[1], r[2]).alloc = 0
                  /\ NFHdr(g3, e).size <= NFHdr(r[1], r[2]).size
    <3>1. e \in C \ {8} /\ NFHdr(g3, e).alloc = 0
      BY <1>1, <2>10 DEF NFTag
    <3> HIDE DEF e, C
    <3> QED
      BY <2>8, <2>12, <3>1, NFCoalesce
  <2>14. NFKept(h, B, r[1], D)
    BY <2>12, <2>13 DEF NFKept
  <2>15. NFHdr(g3, e).size = x
    BY <2>10 DEF NFTag
  <2> QED
    BY <2>13, <2>14, <2>15
<1> QED
  BY <1>4, <1>5

-----------------------------------------------------------------------------
(* mm_init, place and find_fit of the next-fit allocator *)

LEMMA NFInitialised ==
  ASSUME NEW r, r = NextFit!Initialised
  PROVE  \E C : NFReady(r, C, {}) /\ NFHeld(r, C) = {}
<1> DEFINE g1 == [NextFit!EmptyHeap EXCEPT !.brk = 16, !.rover = 8]
           g2 == NextFit!PutTags(g1, 4, 8, 8, 1)
           g3 == NextFit!Put(g2, 12, NFTag(0, 1))
           B  == {8}
<1>1. g1 \in NFHeaps /\ g1.brk = 16 /\ g1.rover = 8
  <2>1. NextFit!Junk \in Tags
    BY Widths DEF NextFit!Junk, Tags
  <2>2. 16 \in 0 .. MAX_HEAP /\ 8 \in 0 .. MAX_HEAP
    BY Widths
  <2> QED
    BY <2>1, <2>2 DEF NextFit!EmptyHeap, NFHeaps
<1>2. 4 \in NextFit!Words /\ 8 \in NextFit!Words /\ 12 \in NextFit!Words
  BY Widths, NFWords
<1>3. 8 \in 0 .. UINT_MOD - 1 /\ 0 \in 0 .. UINT_MOD - 1 /\ 1 \in {0, 1}
  BY Widths
<1>4. NextFit!Tag(0, 1, 0) = NFTag(0, 1) /\ NFTag(0, 1) \in Tags
  BY <1>3, NFTagged
<1>5. g3 = NextFit!Put(NextFit!PutTags([NextFit!EmptyHeap EXCEPT !.brk = 4 * NextFit!WSIZE,
                                                                   !.rover = NextFit!FirstBlock],
                                       NextFit!WSIZE, 2 * NextFit!WSIZE, NextFit!DSIZE, 1),
                       3 * NextFit!WSIZE, NextFit!Tag(0, 1, 0))
  BY <1>4, NFConstants
<1>6. r = NextFit!ExtendHeap(g3, CHUNKSIZE \div 4)[1]
  BY <1>5, NFConstants DEF NextFit!Initialised
<1> HIDE DEF g1
<1>7. /\ g2 \in NFHeaps /\ g2.brk = 16 /\ g2.rover = 8
      /\ NextFit!Get(g2, 4) = NFTag(8, 1) /\ NextFit!Get(g2, 8) = NFTag(8, 1)
  <2>1. NFWrote(g1, g2, 4, 8, 8, 1)
    BY <1>1, <1>2, <1>3, NFPutTags
  <2> HIDE DEF g2
  <2> QED
    BY <1>1, <2>1 DEF NFWrote
<1> HIDE DEF g2
<1>8. /\ g3 \in NFHeaps /\ g3.brk = 16 /\ g3.rover = 8
      /\ NextFit!Get(g3, 4) = NFTag(8, 1) /\ NextFit!Get(g3, 8) = NFTag(8, 1)
      /\ NextFit!Get(g3, 12) = NFTag(0, 1)
  BY <1>2, <1>4, <1>7, NFPut
<1> HIDE DEF g3
<1>9. NFHdr(g3, 8) = NFTag(8, 1) /\ NFHdr(g3, 16) = NFTag(0, 1) /\ NFNext(g3, 8) = 16
  BY <1>8 DEF NFHdr, NFNext, NFTag
<1>10. Tiles(B, 16, NFLinks(g3, B))
  BY <1>9, NFConstants DEF Tiles, NFLinks, Aligned
<1>11. NFList(g3, B)
  BY <1>8, <1>9, <1>10 DEF NFList, NFTag
<1>12. NFReady(g3, B, {}) /\ NFHeld(g3, B) = {}
  BY <1>8, <1>9, <1>11 DEF NFReady, NFCoalesced, NFHeld, NFTag
<1> HIDE DEF B
<1>13. CHUNKSIZE \in Nat /\ CHUNKSIZE % 8 = 0 /\ 8 <= CHUNKSIZE /\ CHUNKSIZE < UINT_MOD
  BY Widths
<1> DEFINE x == NextFit!ExtendHeap(g3, CHUNKSIZE \div 4)
<1>14. \/ x = <<g3, 0>>
       \/ \E C : NFReady(x[1], C, {}) /\ NFKept(g3, B, x[1], C)
  <2>1. x = NextFit!ExtendHeap(g3, CHUNKSIZE \div 4)
    OBVIOUS
  <2> HIDE DEF x
  <2> QED
    BY <1>12, <1>13, <2>1, NFExtend
<1>15. r = x[1]
  BY <1>6
<1> HIDE DEF x
<1> QED
  BY <1>12, <1>14, <1>15 DEF NFKept

(* The block bp is cut in two: an allocated block of n bytes, a free rest. *)
NFFront(h, bp, n) == NextFit!PutTags(h, bp - 4, (bp + n) - 8, n, 1)
NFCut(h, bp, n) == NextFit!PutTags(NFFront(h, bp, n), (bp + n) - 4, NFNext(h, bp) - 8,
                                   NFNext(h, bp) - (bp + n), 0)
NFDivided(h, g, B, bp, n) ==
    /\ NFList(g, B \cup {bp + n}) /\ g.brk = h.brk /\ g.rover = h.rover /\ bp + n \notin B
    /\ NFHdr(g, bp) = NFTag(n, 1) /\ NFHdr(g, bp + n) = NFTag(NFNext(h, bp) - (bp + n), 0)
    /\ \A x \in B : x # bp => NFHdr(g, x) = NFHdr(h, x)

LEMMA NFSplit ==
  ASSUME NEW h, NEW B, NFList(h, B), NEW bp, bp \in B, NEW n, n \in Nat, n % 8 = 0, 8 <= n,
         bp + n + 8 <= NFNext(h, bp), bp # 8
  PROVE  /\ NFDivided(h, NFCut(h, bp, n), B, bp, n)
         /\ NFNext(NFFront(h, bp, n), bp) = bp + n /\ NFFront(h, bp, n) \in NFHeaps
         /\ (bp + n) - 4 \in NextFit!Words
<1> DEFINE m == bp + n
           q == NFNext(h, bp)
           f == NFFront(h, bp, n)
           g == NFCut(h, bp, n)
           C == B \cup {m}
<1>0. m = bp + n /\ q = NFNext(h, bp) /\ m + 8 <= q /\ C = B \cup {m}
  OBVIOUS
<1> HIDE DEF m, q, C
<1> DEFINE L == NFLinks(h, B)
           M == NFLinks(g, C)
<1>1. /\ bp \in Nat /\ bp % 8 = 0 /\ 8 <= bp /\ bp - 4 \in NextFit!Words
      /\ q \in Nat /\ q % 8 = 0 /\ q <= h.brk /\ h.brk \in 16 .. MAX_HEAP /\ h.brk % 8 = 0
      /\ q - 8 \in NextFit!Words /\ h \in NFHeaps /\ Tiles(B, h.brk, L) /\ 8 \in B /\ L[bp] = q
  <2>1. h \in NFHeaps /\ Tiles(B, h.brk, L) /\ L[bp] = q
    BY <1>0 DEF NFList, NFLinks
  <2> HIDE DEF L
  <2> QED
    BY <1>0, <2>1, NFBlock
<1>2. m \in Nat /\ m % 8 = 0 /\ bp < m /\ m < q
  <2>1. bp \in Int /\ n \in Int
    BY <1>1
  <2>2. (bp + n) % 8 = 0
    BY <1>1, <2>1, Eights
  <2> QED
    BY <1>0, <1>1, <2>2
<1>3. m - 4 \in NextFit!Words /\ m - 8 \in NextFit!Words
  <2>1. m \in 8 .. MAX_HEAP /\ m >= 16
    BY <1>1, <1>2, Widths
  <2> QED
    BY <1>2, <2>1, EightWords
<1>4. n \in 0 .. UINT_MOD - 1 /\ q - m \in 0 .. UINT_MOD - 1 /\ 0 \in {0, 1} /\ 1 \in {0, 1}
  BY <1>0, <1>1, <1>2, Widths
<1>5. /\ f \in NFHeaps /\ f.brk = h.brk /\ f.rover = h.rover
      /\ NextFit!Get(f, bp - 4) = NFTag(n, 1) /\ NextFit!Get(f, m - 8) = NFTag(n, 1)
      /\ \A w : w # bp - 4 /\ w # m - 8 => NextFit!Get(f, w) = NextFit!Get(h, w)
  <2>1. NFWrote(h, f, bp - 4, m - 8, n, 1)
    BY <1>1, <1>3, <1>4, NFPutTags DEF NFFront, m
  <2> QED
    BY <2>1 DEF NFWrote
<1> HIDE DEF f
<1>6. /\ g \in NFHeaps /\ g.brk = f.brk /\ g.rover = f.rover
      /\ NextFit!Get(g, m - 4) = NFTag(q - m, 0) /\ NextFit!Get(g, q - 8) = NFTag(q - m, 0)
      /\ \A w : w # m - 4 /\ w # q - 8 => NextFit!Get(g, w) = NextFit!Get(f, w)
  <2>1. NFWrote(f, g, m - 4, q - 8, q - m, 0)
    BY <1>1, <1>3, <1>4, <1>5, NFPutTags DEF NFCut, m, q, f
  <2> QED
    BY <2>1 DEF NFWrote
<1> HIDE DEF g
<1>7. /\ NFHdr(f, bp) = NFTag(n, 1) /\ NFHdr(g, bp) = NFTag(n, 1) /\ NFHdr(g, m) = NFTag(q - m, 0)
      /\ NextFit!Get(g, m - 8) = NFTag(n, 1)
  <2>1. bp - 4 # m - 4 /\ bp - 4 # q - 8 /\ m - 8 # m - 4 /\ m - 8 # q - 8
    BY <1>1, <1>2
  <2> QED
    BY <1>5, <1>6, <2>1 DEF NFHdr
<1>8. NFNext(f, bp) = m /\ NFNext(g, bp) = m /\ NFNext(g, m) = q
  BY <1>0, <1>1, <1>2, <1>7 DEF NFNext, NFTag
<1>9. m \notin B
  <2>1. \A x \in B : x < L[bp] => x <= bp
    <3> HIDE DEF L
    <3> QED
      BY <1>1, TilesApart
  <2> QED
    BY <1>1, <1>2, <2>1
<1>10. ASSUME NEW x \in B, x # bp
       PROVE  /\ NFHdr(g, x) = NFHdr(h, x) /\ NFNext(g, x) = NFNext(h, x)
              /\ NextFit!Get(g, NFNext(h, x) - 8) = NextFit!Get(h, NFNext(h, x) - 8)
  <2> DEFINE k == NFNext(h, x)
  <2>1. /\ x \in Nat /\ x % 8 = 0 /\ k \in Nat /\ k % 8 = 0 /\ k \in B \cup {h.brk}
        /\ k # q
    BY <1>0, <1>10, NFBlock, NFNeighbours
  <2>2. k # m /\ x # m
    BY <1>1, <1>2, <1>9, <2>1
  <2> HIDE DEF k
  <2>3. x - 4 # bp - 4 /\ x - 4 # m - 8 /\ x - 4 # m - 4 /\ x - 4 # q - 8
    BY <1>1, <1>2, <1>10, <2>1, <2>2
  <2>4. k - 8 # bp - 4 /\ k - 8 # m - 8 /\ k - 8 # m - 4 /\ k - 8 # q - 8
    BY <1>1, <1>2, <2>1, <2>2
  <2>5. NFHdr(g, x) = NFHdr(h, x)
    BY <1>5, <1>6, <2>3 DEF NFHdr
  <2>6. NextFit!Get(g, k - 8) = NextFit!Get(h, k - 8)
    BY <1>5, <1>6, <2>4
  <2> QED
    BY <2>5, <2>6 DEF k, NFNext
<1>11. Tiles(C, h.brk, M)
  <2>1. Splits(C, L, bp, m, M)
    <3> SUFFICES ASSUME NEW x \in C
                 PROVE  M[x] = IF x = bp THEN m ELSE IF x = m THEN L[bp] ELSE L[x]
      BY DEF Splits
    <3>1. M[x] = NFNext(g, x) /\ (x \in B => L[x] = NFNext(h, x))
      BY DEF NFLinks
    <3>2. x \in B \/ x = m
      BY <1>0
    <3> HIDE DEF L, M
    <3> QED
      BY <1>1, <1>8, <1>9, <1>10, <3>1, <3>2
  <2>2. Aligned(m)
    BY <1>2 DEF Aligned
  <2> HIDE DEF L, M
  <2> QED
    BY <1>0, <1>1, <1>2, <2>1, <2>2, SplitTiles
<1>12. NFHdr(g, g.brk) = NFTag(0, 1)
  <2> DEFINE e == h.brk
  <2>1. e - 4 # bp - 4 /\ e - 4 # m - 8 /\ e - 4 # m - 4 /\ e - 4 # q - 8
    <3>1. e \in Nat /\ e % 8 = 0 /\ bp < e /\ m < e
      BY <1>1, <1>2
    <3> HIDE DEF e
    <3> QED
      BY <1>1, <1>2, <3>1
  <2> QED
    BY <1>5, <1>6, <2>1 DEF NFHdr, NFList
<1>13. \A x \in C : /\ NFHdr(g, x).alloc \in {0, 1}
                    /\ NextFit!Get(g, NFNext(g, x) - 8) = NFHdr(g, x)
  <2> TAKE x \in C
  <2>1. CASE x = bp
    BY <1>7, <1>8, <2>1 DEF NFTag
  <2>2. CASE x = m
    BY <1>6, <1>7, <1>8, <2>2 DEF NFTag
  <2>3. CASE x \in B /\ x # bp
    BY <1>10, <2>3 DEF NFList
  <2> QED
    BY <1>0, <2>1, <2>2, <2>3
<1>14. NFHdr(g, 8) = NFTag(8, 1)
  BY <1>1, <1>10 DEF NFList
<1>15. NFList(g, C) /\ g.brk = h.brk /\ g.rover = h.rover
  BY <1>5, <1>6, <1>11, <1>12, <1>13, <1>14 DEF NFList
<1> QED
  BY <1>3, <1>5, <1>7, <1>8, <1>9, <1>10, <1>15 DEF m, q, f, g, C, NFDivided

LEMMA NFPlace ==
  ASSUME NEW h, NEW B, NFReady(h, B, {}), NEW bp \in B \ {8}, NFHdr(h, bp).alloc = 0,
         NEW asize \in Nat, asize % 8 = 0, 16 <= asize, asize <= NFHdr(h, bp).size,
         NEW g, g = NextFit!Place(h, bp, asize)
  PROVE  \E C : /\ NFReady(g, C, {}) /\ g.brk = h.brk
                /\ NFHeld(g, C) = NFHeld(h, B) \cup {bp} /\ bp \notin NFHeld(h, B)
                /\ \A b \in NFHeld(h, B) : NFHdr(g, b) = NFHdr(h, b)
                /\ asize <= NFHdr(g, bp).size
<1> DEFINE csize == NFHdr(h, bp).size
           rest  == csize - asize
           m     == bp + asize
           q     == NFNext(h, bp)
           w     == NextFit!PutTags(h, bp - 4, q - 8, q - bp, 1)
<1>1. /\ NFList(h, B) /\ h \in NFHeaps /\ bp \in Nat /\ csize \in Nat /\ q = bp + csize /\ q \in Nat
      /\ csize < UINT_MOD /\ bp - 4 \in NextFit!Words /\ q \in B \cup {h.brk} /\ bp < q
      /\ h.rover \in B \cup {h.brk} /\ q <= h.brk /\ h.brk \in 0 .. MAX_HEAP
  <2>1. NFList(h, B) /\ h \in NFHeaps /\ h.rover \in B \cup {h.brk} /\ h.brk \in 0 .. MAX_HEAP
    BY DEF NFReady, NFList, NFHeaps
  <2>2. csize \in 0 .. UINT_MOD - 1
    BY <2>1, NFBlock DEF Tags
  <2>3. /\ bp \in Nat /\ q = bp + csize /\ q \in Nat /\ bp - 4 \in NextFit!Words
        /\ q \in B \cup {h.brk} /\ q <= h.brk /\ bp + 8 <= q
    BY <2>1, NFBlock
  <2> HIDE DEF csize, q
  <2> QED
    BY <2>1, <2>2, <2>3, Widths
<1>2. rest \in Nat /\ rest % SIZE_MOD = rest /\ q - bp = csize /\ q - m = rest
  <2>1. rest \in Nat /\ rest < SIZE_MOD /\ q - bp = csize /\ q - m = rest
    BY <1>1, Widths
  <2> HIDE DEF rest
  <2> QED
    BY <2>1, Widths, ModSmall
<1>3. bp \notin NFHeld(h, B)
  BY DEF NFHeld
<1>4. CASE rest >= 16
  <2> DEFINE C == B \cup {m}
             s == NFCut(h, bp, asize)
             f == NFFront(h, bp, asize)
  <2>1. m + 8 <= q /\ 8 <= asize
    BY <1>1, <1>2, <1>4
  <2>2. /\ NFDivided(h, s, B, bp, asize) /\ NFNext(f, bp) = m
        /\ f \in NFHeaps /\ m - 4 \in NextFit!Words
    BY <1>1, <2>1, NFSplit
  <2>3. g = s
    <3>1. NextFit!PutBlock(h, bp, asize, 1) = f
      <4>1. asize \in 0 .. UINT_MOD - 1 /\ 1 \in {0, 1} /\ bp \in Int
        BY <1>1, Widths
      <4> HIDE DEF f, q
      <4> QED
        BY <1>1, <4>1, NFPutBlock DEF NFFront, f
    <3>2. NextFit!PutBlock(f, m, rest, 0) = s
      <4>1. m - 4 \in NextFit!Words /\ f \in NFHeaps
        BY <2>2
      <4>2. rest \in 0 .. UINT_MOD - 1 /\ 0 \in {0, 1} /\ (m + rest) - 8 = q - 8 /\ m \in Int
        BY <1>1, <1>2, Widths
      <4> HIDE DEF f, rest, m, q
      <4>3. NextFit!PutBlock(f, m, rest, 0) = NextFit!PutTags(f, m - 4, (m + rest) - 8, rest, 0)
        BY <4>1, <4>2, NFPutBlock
      <4>4. NextFit!PutBlock(f, m, rest, 0) = NextFit!PutTags(f, m - 4, q - 8, rest, 0)
        BY <4>2, <4>3, Zenon
      <4> QED
        BY <1>2, <4>4 DEF NFCut, f, m, q, rest
    <3>3. NextFit!Next_(f, bp) = m
      BY <2>2, NFMacros
    <3>4. NextFit!Size(h, bp) = csize /\ (rest >= 2 * NextFit!DSIZE)
      BY <1>4, NFMacros, NFConstants
    <3> QED
      BY <1>2, <3>1, <3>2, <3>3, <3>4 DEF NextFit!Place
  <2> HIDE DEF s, f
  <2>4. /\ NFHdr(s, bp).alloc = 1 /\ NFHdr(s, bp).size = asize /\ NFHdr(s, m).alloc = 0
        /\ NFNext(s, bp) = m /\ NFNext(s, m) = q /\ m \notin B /\ m < q
        /\ \A x \in B : x # bp => NFHdr(s, x) = NFHdr(h, x) /\ NFNext(s, x) = NFNext(h, x)
    BY <1>1, <1>2, <2>1, <2>2 DEF NFDivided, NFTag, NFNext
  <2>5. NFCoalesced(s, C, {})
    <3> SUFFICES ASSUME NEW b \in C, NEW c \in C, NFHdr(s, b).alloc = 0, NFHdr(s, c).alloc = 0,
                        c = NFNext(s, b)
                 PROVE  FALSE
      BY DEF NFCoalesced
    <3> HIDE DEF m, q
    <3>1. b # bp /\ c # bp
      BY <2>4
    <3>2. CASE b = m
      <4>1. c = q /\ q # m /\ c \in B
        BY <1>1, <2>4, <3>2
      <4>2. NFHdr(h, q).alloc = 0
        BY <2>4, <3>1, <4>1
      <4> QED
        BY <4>1, <4>2 DEF NFReady, NFCoalesced, q
    <3>3. CASE b \in B /\ c = m
      <4>1. NFNext(h, b) = m
        BY <2>4, <3>1, <3>3
      <4>2. NFNext(h, b) \in B \cup {h.brk}
        BY <1>1, <3>3, NFNeighbours
      <4>3. m # h.brk
        BY <1>1, <2>4
      <4> QED
        BY <2>4, <4>1, <4>2, <4>3
    <3>4. CASE b \in B /\ c \in B
      <4>1. NFHdr(h, b).alloc = 0 /\ NFHdr(h, c).alloc = 0 /\ c = NFNext(h, b)
        BY <2>4, <3>1, <3>4
      <4> QED
        BY <3>4, <4>1 DEF NFReady, NFCoalesced
    <3> QED
      BY <3>2, <3>3, <3>4
  <2>6. NFHeld(s, C) = NFHeld(h, B) \cup {bp}
    BY <2>4 DEF NFHeld
  <2>7. \A b \in NFHeld(h, B) : NFHdr(s, b) = NFHdr(h, b)
    BY <1>3, <2>4 DEF NFHeld
  <2>8. NFReady(s, C, {}) /\ s.brk = h.brk
    BY <1>1, <2>2, <2>5 DEF NFReady, NFDivided
  <2> HIDE DEF C
  <2> QED
    BY <1>3, <2>3, <2>4, <2>6, <2>7, <2>8
<1>5. CASE ~(rest >= 16)
  <2> DEFINE C == Without(B, bp, q)
  <2>1. /\ NFList(w, C) /\ w.brk = h.brk /\ w.rover = h.rover /\ bp \in C
        /\ NFHdr(w, bp) = NFTag(q - bp, 1)
        /\ \A x \in C : x # bp => NFHdr(w, x) = NFHdr(h, x)
    <3>1. w = NextFit!PutTags(h, bp - 4, q - 8, q - bp, 1) /\ C = Without(B, bp, q) /\ 1 \in {0, 1}
      OBVIOUS
    <3> HIDE DEF w, C, q
    <3> QED
      BY <1>1, <3>1, NFOverwrite
  <2>2. C = B
    <3>1. \A x \in B : x <= bp \/ q <= x
      <4> TAKE x \in B
      <4>1. x \in Nat /\ (bp < x => q <= x)
        BY <1>1, NFBlock, NFNeighbours
      <4> QED
        BY <1>1, <4>1
    <3> QED
      BY <3>1 DEF Without
  <2>3. g = w
    <3>1. NextFit!PutBlock(h, bp, csize, 1) = w
      <4>1. csize \in 0 .. UINT_MOD - 1 /\ 1 \in {0, 1} /\ (bp + csize) - 8 = q - 8 /\ bp \in Int
        BY <1>1, Widths
      <4> HIDE DEF q, csize
      <4>2. NextFit!PutBlock(h, bp, csize, 1) = NextFit!PutTags(h, bp - 4, q - 8, csize, 1)
        BY <1>1, <4>1, NFPutBlock
      <4> QED
        BY <1>2, <4>2
    <3>2. NextFit!Size(h, bp) = csize /\ ~(rest >= 2 * NextFit!DSIZE)
      BY <1>5, NFMacros, NFConstants
    <3> QED
      BY <1>2, <3>1, <3>2 DEF NextFit!Place
  <2> HIDE DEF w, C
  <2>4. /\ NFHdr(w, bp).alloc = 1 /\ NFHdr(w, bp).size = csize
        /\ \A x \in B : NFNext(w, x) = NFNext(h, x) /\ (x # bp => NFHdr(w, x) = NFHdr(h, x))
    <3>1. NFHdr(w, bp).alloc = 1 /\ NFHdr(w, bp).size = csize
      BY <1>2, <2>1 DEF NFTag
    <3> QED
      BY <2>1, <2>2, <3>1 DEF NFNext
  <2>5. NFCoalesced(w, B, {})
    BY <2>4 DEF NFReady, NFCoalesced
  <2>6. NFHeld(w, B) = NFHeld(h, B) \cup {bp}
    BY <2>4 DEF NFHeld
  <2>7. \A b \in NFHeld(h, B) : NFHdr(w, b) = NFHdr(h, b)
    BY <1>3, <2>4 DEF NFHeld
  <2>8. NFReady(w, B, {})
    BY <1>1, <2>1, <2>2, <2>5 DEF NFReady
  <2> QED
    BY <1>3, <2>1, <2>3, <2>4, <2>6, <2>7, <2>8
<1> QED
  BY <1>4, <1>5

(* The client's writes stay inside the block. *)
LEMMA NFWritten ==
  ASSUME NEW h, NEW B, NFReady(h, B, {}), NEW bp \in B,
         NEW size \in Nat, size + 8 <= NFHdr(h, bp).size,
         NEW g, g = NextFit!Written(h, bp, size)
  PROVE  NFReady(g, B, {}) /\ g.brk = h.brk /\ \A b \in B : NFHdr(g, b) = NFHdr(h, b)
<1> DEFINE q == NFNext(h, bp)
<1>1. /\ NFList(h, B) /\ h \in NFHeaps /\ bp \in Nat /\ q \in Nat /\ bp + size + 8 <= q
      /\ q <= h.brk /\ h.brk \in Nat /\ h.rover \in B \cup {h.brk}
  <2>1. NFList(h, B) /\ h \in NFHeaps /\ h.brk \in Nat /\ h.rover \in B \cup {h.brk}
    BY DEF NFReady, NFList, NFHeaps
  <2>2. /\ bp \in Nat /\ q \in Nat /\ q <= h.brk /\ q = bp + NFHdr(h, bp).size
        /\ NFHdr(h, bp).size \in Nat
    BY <2>1, NFBlock
  <2> HIDE DEF q
  <2> QED
    BY <2>1, <2>2
<1>2. /\ g \in NFHeaps /\ g.brk = h.brk /\ g.rover = h.rover
      /\ \A w : w \in NextFit!Words /\ ~(bp <= w /\ w < bp + size) => NextFit!Get(g, w) = NextFit!Get(h, w)
      /\ \A w : w \notin NextFit!Words => NextFit!Get(g, w) = NextFit!Get(h, w)
  <2>1. NextFit!Junk \in Tags
    BY Widths DEF NextFit!Junk, Tags
  <2>2. g = [h EXCEPT !.mem = [p \in NextFit!Words |->
                                  IF bp <= p /\ p < bp + size THEN NextFit!Junk ELSE h.mem[p]]]
    BY <1>1 DEF NextFit!Written, NFHeaps
  <2>3. /\ g.mem = [p \in NextFit!Words |->
                       IF bp <= p /\ p < bp + size THEN NextFit!Junk ELSE h.mem[p]]
        /\ g.brk = h.brk /\ g.rover = h.rover
    BY <1>1, <2>2 DEF NFHeaps
  <2>4. g \in NFHeaps
    <3>1. [p \in NextFit!Words |-> IF bp <= p /\ p < bp + size THEN NextFit!Junk ELSE h.mem[p]]
             \in [NextFit!Words -> Tags]
      BY <1>1, <2>1 DEF NFHeaps
    <3> QED
      BY <1>1, <2>2, <3>1 DEF NFHeaps
  <2> QED
    BY <2>3, <2>4 DEF NextFit!Get
<1> HIDE DEF q
<1>3. \A w \in Int : w < bp \/ bp + size <= w => NextFit!Get(g, w) = NextFit!Get(h, w)
  BY <1>1, <1>2
<1>4. ASSUME NEW x \in B
      PROVE  /\ NFHdr(g, x) = NFHdr(h, x) /\ NFNext(g, x) = NFNext(h, x)
             /\ NextFit!Get(g, NFNext(h, x) - 8) = NextFit!Get(h, NFNext(h, x) - 8)
  <2> DEFINE k == NFNext(h, x)
  <2>1. /\ x \in Nat /\ k \in Nat /\ x + 8 <= k
        /\ bp < x => q <= x
        /\ x < bp => k <= bp
        /\ x = bp => k = q
    BY <1>1, NFBlock, NFNeighbours DEF q
  <2> HIDE DEF k
  <2>2. x - 4 < bp \/ bp + size <= x - 4
    BY <1>1, <2>1
  <2>3. k - 8 < bp \/ bp + size <= k - 8
    BY <1>1, <2>1
  <2>4. x - 4 \in Int /\ k - 8 \in Int
    BY <2>1
  <2> QED
    BY <1>3, <2>2, <2>3, <2>4 DEF NFHdr, NFNext, k
<1>5. NFHdr(g, h.brk) = NFHdr(h, h.brk)
  <2>1. h.brk - 4 \in Int /\ bp + size <= h.brk - 4
    BY <1>1
  <2> QED
    BY <1>3, <2>1 DEF NFHdr
<1>6. NFLinks(g, B) = NFLinks(h, B)
  BY <1>4 DEF NFLinks
<1>7. NFList(g, B)
  <2>1. 8 \in B
    BY <1>1, NFBlock
  <2> QED
    BY <1>1, <1>2, <1>4, <1>5, <1>6, <2>1 DEF NFList
<1>8. NFCoalesced(g, B, {})
  BY <1>4 DEF NFReady, NFCoalesced
<1> QED
  BY <1>1, <1>2, <1>4, <1>7, <1>8 DEF NFReady

(* find_fit finds a block if there is one, from wherever the rover stands. *)
LEMMA NFFind ==
  ASSUME NEW h, NEW B, NFReady(h, B, {}), NEW asize,
         NEW r, r = NextFit!FindFit(h, asize)
  PROVE  \/ NextFit!Fits(h, B, asize) = {} /\ r = <<h, 0>>
         \/ /\ r[2] \in NextFit!Fits(h, B, asize) /\ r[2] \in B \ {8}
            /\ NFReady(r[1], B, {}) /\ r[1].brk = h.brk
            /\ \A b : NFHdr(r[1], b) = NFHdr(h, b)
<1> DEFINE F == NextFit!Fits(h, B, asize)
           ahead  == NextFit!Fits(h, NextFit!Walk(h, h.rover), asize)
           behind == {bp \in NextFit!Fits(h, NextFit!Walk(h, NextFit!FirstBlock), asize) : bp < h.rover}
           found  == IF ahead # {} THEN NextFit!Min(ahead) ELSE NextFit!Min(behind)
<1>1. /\ NFList(h, B) /\ h.rover \in B \cup {h.brk} /\ h.rover \in Nat /\ h.brk \in Nat
      /\ \A b \in B : b \in Nat /\ 8 <= b /\ b < h.brk /\ b \in 0 .. MAX_HEAP
      /\ 8 \in B /\ NFHdr(h, 8).alloc = 1
  <2>1. NFList(h, B) /\ h.rover \in B \cup {h.brk} /\ h.rover \in Nat /\ h.brk \in 0 .. MAX_HEAP
    BY DEF NFReady, NFList, NFHeaps
  <2>2. NFHdr(h, 8).alloc = 1 /\ 8 \in B
    BY <2>1, NFConstants DEF NFList, NFTag, Tiles
  <2> QED
    BY <2>1, <2>2, NFBlock, Widths
<1>2. NextFit!Walk(h, h.rover) = {x \in B : h.rover <= x} /\ NextFit!Walk(h, NextFit!FirstBlock) = B
  <2>1. NextFit!Walk(h, h.rover) = {x \in B : h.rover <= x} /\ NextFit!Walk(h, 8) = {x \in B : 8 <= x}
    BY <1>1, NFListWalk
  <2>2. {x \in B : 8 <= x} = B
    BY <1>1
  <2> QED
    BY <2>1, <2>2, NFConstants
<1>3. F \subseteq B \ {8}
  <2>1. \A x : NextFit!Free(h, x) <=> NFHdr(h, x).alloc = 0
    BY NFMacros
  <2> QED
    BY <1>1, <2>1 DEF NextFit!Fits
<1>4. ahead \subseteq F /\ behind \subseteq F /\ F \subseteq ahead \cup behind
  BY <1>1, <1>2 DEF NextFit!Fits
<1> HIDE DEF ahead, behind, F
<1>5. \A S : S \subseteq F /\ S # {} => NextFit!Min(S) \in S
  <2> TAKE S
  <2> HAVE S \subseteq F /\ S # {}
  <2>1. PICK m \in S : \A k \in S : m <= k
    BY <1>1, <1>3, LeastNat
  <2> QED
    BY <2>1 DEF NextFit!Min
<1>6. r = IF ahead \cup behind = {} THEN <<h, 0>> ELSE <<[h EXCEPT !.rover = found], found>>
  BY NFConstants DEF NextFit!FindFit, ahead, behind
<1>7. CASE ahead \cup behind = {}
  <2>1. F = {}
    BY <1>4, <1>7
  <2> QED
    BY <1>6, <1>7, <2>1 DEF F
<1>8. CASE ahead \cup behind # {}
  <2>1. found \in F
    BY <1>4, <1>5, <1>8
  <2> HIDE DEF found
  <2> DEFINE g == [h EXCEPT !.rover = found]
  <2>2. /\ NFList(g, B) /\ g.rover = found /\ g.brk = h.brk
        /\ \A w : NextFit!Get(g, w) = NextFit!Get(h, w)
    <3>1. found \in 0 .. MAX_HEAP
      BY <1>1, <1>3, <2>1
    <3> QED
      BY <1>1, <3>1, NFMoveRover
  <2>3. \A b : NFHdr(g, b) = NFHdr(h, b) /\ NFNext(g, b) = NFNext(h, b)
    BY <2>2 DEF NFHdr, NFNext
  <2>4. r[1] = g /\ r[2] = found
    BY <1>6, <1>8
  <2> HIDE DEF g
  <2>5. NFReady(g, B, {})
    BY <1>3, <2>1, <2>2, <2>3 DEF NFReady, NFCoalesced
  <2> QED
    BY <1>3, <2>1, <2>2, <2>3, <2>4, <2>5 DEF F
<1> QED
  BY <1>7, <1>8

(* Adjust asks for room for the header and the footer. *)
LEMMA NFAdjust ==
  ASSUME NEW size \in Requests \ {0}
  PROVE  /\ NextFit!Adjust(size) \in Nat /\ NextFit!Adjust(size) % 8 = 0
         /\ 16 <= NextFit!Adjust(size) /\ NextFit!Adjust(size) < UINT_MOD
         /\ size + 8 <= NextFit!Adjust(size) /\ size \in Nat
<1>1. size \in Nat /\ size <= UINT_MOD - 16 /\ UINT_MOD \in Nat /\ 32 <= UINT_MOD
  BY Widths
<1>2. CASE size <= 8
  <2>1. NextFit!Adjust(size) = 16
    BY <1>2, NFConstants DEF NextFit!Adjust
  <2> QED
    BY <1>1, <1>2, <2>1
<1>3. CASE ~(size <= 8)
  <2>1. (size + 8 + (8 - 1)) % SIZE_MOD = size + 15
    <3>1. size + 15 \in Nat /\ size + 15 < SIZE_MOD /\ size + 8 + (8 - 1) = size + 15
      BY <1>1, Widths
    <3> QED
      BY <3>1, ModSmall, Widths
  <2>2. NextFit!Adjust(size) = 8 * ((size + 15) \div 8)
    BY <1>3, <2>1, NFConstants DEF NextFit!Adjust
  <2> DEFINE k == (size + 15) \div 8
  <2>3. k \in Nat /\ 8 * k <= size + 15 /\ size + 8 <= 8 * k
    BY <1>1
  <2> HIDE DEF k
  <2>4. NextFit!Adjust(size) = 8 * k
    BY <2>2 DEF k
  <2>5. (8 * k) % 8 = 0
    BY <2>3
  <2> QED
    BY <1>1, <1>3, <2>3, <2>4, <2>5
<1> QED
  BY <1>2, <1>3

-----------------------------------------------------------------------------
(* mm_malloc and mm_free of the next-fit allocator *)

(* Exactly the blocks of the client's set O are allocated, each with room for *)
(* what was asked for between its header and its footer.                      *)
NFOwned(h, B, O) ==
    /\ NFHeld(h, B) = {o.ptr : o \in O}
    /\ \A o \in O : /\ o = [ptr |-> o.ptr, size |-> o.size]
                    /\ o.size \in Requests \ {0} /\ o.size + 8 <= NFHdr(h, o.ptr).size
    /\ \A o, c \in O : o.ptr = c.ptr => o = c
NFGood(h, B, O) == NFReady(h, B, {}) /\ NFOwned(h, B, O)

LEMMA NFOwnedKept ==
  ASSUME NEW h, NEW B, NEW O, NFOwned(h, B, O), NEW g, NEW C, NFKept(h, B, g, C)
  PROVE  NFOwned(g, C, O)
<1>1. \A o \in O : o.ptr \in NFHeld(h, B)
  BY DEF NFOwned
<1>2. \A o \in O : NFHdr(g, o.ptr) = NFHdr(h, o.ptr)
  BY <1>1 DEF NFKept
<1> QED
  BY <1>2 DEF NFOwned, NFKept

(* What mm_malloc does of its own to the heap h: place, once bp was found. *)
NFHanded(h, O, bp, size) ==
    \E C : /\ NFGood(NextFit!Written(h, bp, size), C, O \cup {[ptr |-> bp, size |-> size]})
           /\ bp \notin {o.ptr : o \in O} /\ bp \in C /\ NFList(h, C)

LEMMA NFHand ==
  ASSUME NEW h, NEW B, NEW O, NFGood(h, B, O), NEW bp \in B \ {8}, NFHdr(h, bp).alloc = 0,
         NEW size \in Requests \ {0}, NextFit!Adjust(size) <= NFHdr(h, bp).size,
         NEW g, g = NextFit!Place(h, bp, NextFit!Adjust(size))
  PROVE  NFHanded(g, O, bp, size) /\ g.brk = h.brk
<1> DEFINE asize == NextFit!Adjust(size)
<1>1. asize \in Nat /\ asize % 8 = 0 /\ 16 <= asize /\ size + 8 <= asize /\ size \in Nat
  BY NFAdjust
<1> HIDE DEF asize
<1>2. PICK C : /\ NFReady(g, C, {}) /\ g.brk = h.brk
               /\ NFHeld(g, C) = NFHeld(h, B) \cup {bp} /\ bp \notin NFHeld(h, B)
               /\ \A b \in NFHeld(h, B) : NFHdr(g, b) = NFHdr(h, b)
               /\ asize <= NFHdr(g, bp).size
  <2>1. asize <= NFHdr(h, bp).size /\ g = NextFit!Place(h, bp, asize) /\ NFReady(h, B, {})
    BY DEF asize, NFGood
  <2> QED
    BY <1>1, <2>1, NFPlace
<1>3. bp \in C /\ NFHdr(g, bp).size \in Nat /\ NFList(g, C)
  <2>1. bp \in C /\ NFList(g, C)
    BY <1>2 DEF NFHeld, NFReady
  <2> QED
    BY <2>1, NFBlock
<1> DEFINE w == NextFit!Written(g, bp, size)
           n == [ptr |-> bp, size |-> size]
<1>4. NFReady(w, C, {}) /\ \A b \in C : NFHdr(w, b) = NFHdr(g, b)
  <2>1. size + 8 <= NFHdr(g, bp).size
    BY <1>1, <1>2, <1>3
  <2> QED
    BY <1>1, <1>2, <1>3, <2>1, NFWritten
<1> HIDE DEF w
<1>5. NFHeld(w, C) = NFHeld(h, B) \cup {bp}
  BY <1>2, <1>4 DEF NFHeld
<1>6. NFOwned(h, B, O)
  BY DEF NFGood
<1>7. bp \notin {o.ptr : o \in O}
  BY <1>2, <1>6 DEF NFOwned
<1>8. \A o \in O : NFHdr(w, o.ptr) = NFHdr(h, o.ptr)
  <2>1. \A o \in O : o.ptr \in NFHeld(h, B)
    BY <1>6 DEF NFOwned
  <2>2. NFHeld(h, B) \subseteq C
    BY <1>2 DEF NFHeld
  <2> QED
    BY <1>2, <1>4, <2>1, <2>2
<1>9. size + 8 <= NFHdr(w, bp).size
  BY <1>1, <1>2, <1>3, <1>4
<1>10. NFOwned(w, C, O \cup {n})
  <2>5. n.ptr = bp /\ n.size = size /\ n = [ptr |-> n.ptr, size |-> n.size]
    OBVIOUS
  <2> HIDE DEF n
  <2>1. {o.ptr : o \in O \cup {n}} = {o.ptr : o \in O} \cup {bp}
    BY <2>5
  <2>2. NFHeld(w, C) = {o.ptr : o \in O \cup {n}}
    BY <1>5, <1>6, <2>1 DEF NFOwned
  <2>3. \A o \in O : /\ o = [ptr |-> o.ptr, size |-> o.size]
                     /\ o.size \in Requests \ {0} /\ o.size + 8 <= NFHdr(w, o.ptr).size
    BY <1>6, <1>8 DEF NFOwned
  <2>4. \A o, c \in O \cup {n} : o.ptr = c.ptr => o = c
    BY <1>6, <1>7, <2>5 DEF NFOwned
  <2> QED
    BY <1>9, <2>2, <2>3, <2>4, <2>5 DEF NFOwned
<1> QED
  BY <1>2, <1>3, <1>4, <1>7, <1>10 DEF NFGood, NFHanded, w

(* mm_malloc hands out a free block, or nothing; it grows the heap only when  *)
(* no free block is large enough.                                             *)
LEMMA NFAllocate ==
  ASSUME NEW h, NEW B, NEW O, NFGood(h, B, O), NEW size \in Requests,
         NEW r, r = NextFit!Allocate(h, size)
  PROVE  /\ \/ r[2] = 0 /\ \E C : NFGood(r[1], C, O)
            \/ r[2] # 0 /\ size # 0 /\ NFHanded(r[1], O, r[2], size)
         /\ r[1].brk = h.brk \/ NextFit!Fits(h, B, NextFit!Adjust(size)) = {}
<1> DEFINE asize == NextFit!Adjust(size)
           fit   == NextFit!FindFit(h, asize)
           big   == IF asize > CHUNKSIZE THEN asize ELSE CHUNKSIZE
           more  == NextFit!ExtendHeap(fit[1], big \div 4)
           got   == IF fit[2] # 0 THEN fit ELSE more
<1>1. CASE size = 0
  <2>1. r = <<h, 0>>
    BY <1>1, NFConstants DEF NextFit!Allocate
  <2> QED
    BY <2>1
<1>2. CASE size # 0
  <2>1. asize \in Nat /\ asize % 8 = 0 /\ 16 <= asize /\ asize < UINT_MOD
    BY <1>2, NFAdjust
  <2>2. r = IF got[2] = 0 THEN got ELSE <<NextFit!Place(got[1], got[2], asize), got[2]>>
    BY <1>2, NFConstants DEF NextFit!Allocate
  <2> HIDE DEF asize
  <2>3. NFReady(h, B, {}) /\ NFOwned(h, B, O)
    BY DEF NFGood
  <2>4. \/ NextFit!Fits(h, B, asize) = {} /\ fit = <<h, 0>>
        \/ /\ fit[2] \in NextFit!Fits(h, B, asize) /\ fit[2] \in B \ {8}
           /\ NFReady(fit[1], B, {}) /\ fit[1].brk = h.brk
           /\ \A b : NFHdr(fit[1], b) = NFHdr(h, b)
    <3> HIDE DEF fit
    <3>1. fit = NextFit!FindFit(h, asize)
      BY DEF fit
    <3> QED
      BY <2>3, <3>1, NFFind
  <2>5. CASE NextFit!Fits(h, B, asize) = {} /\ fit = <<h, 0>>
    <3>1. got = NextFit!ExtendHeap(h, big \div 4)
      BY <2>5
    <3>2. big \in Nat /\ big % 8 = 0 /\ 8 <= big /\ big < UINT_MOD /\ asize <= big
      BY <2>1, Widths
    <3> HIDE DEF got, big, fit
    <3>3. \/ got = <<h, 0>>
          \/ \E C : /\ NFReady(got[1], C, {}) /\ NFKept(h, B, got[1], C)
                    /\ got[2] \in C \ {8} /\ NFHdr(got[1], got[2]).alloc = 0
                    /\ big <= NFHdr(got[1], got[2]).size
      BY <2>3, <3>1, <3>2, NFExtend
    <3>4. CASE got = <<h, 0>>
      BY <2>2, <2>5, <3>4 DEF asize
    <3>5. CASE got # <<h, 0>>
      <4>1. PICK C : /\ NFReady(got[1], C, {}) /\ NFKept(h, B, got[1], C)
                     /\ got[2] \in C \ {8} /\ NFHdr(got[1], got[2]).alloc = 0
                     /\ big <= NFHdr(got[1], got[2]).size
        BY <3>3, <3>5
      <4>2. NFGood(got[1], C, O)
        BY <2>3, <4>1, NFOwnedKept DEF NFGood
      <4>3. NFHdr(got[1], got[2]).size \in Nat /\ got[2] # 0
        BY <4>1, NFBlock DEF NFReady
      <4>4. asize <= NFHdr(got[1], got[2]).size
        BY <2>1, <3>2, <4>1, <4>3
      <4> DEFINE g == NextFit!Place(got[1], got[2], asize)
      <4>5. NFHanded(g, O, got[2], size)
        BY <1>2, <4>1, <4>2, <4>4, NFHand DEF asize
      <4>6. r[1] = g /\ r[2] = got[2]
        BY <2>2, <4>3
      <4> HIDE DEF g
      <4>7. NFHanded(r[1], O, r[2], size)
        BY <4>5, <4>6 DEF NFHanded
      <4> QED
        BY <1>2, <2>5, <4>3, <4>6, <4>7 DEF asize
    <3> QED
      BY <3>4, <3>5
  <2>6. CASE /\ fit[2] \in NextFit!Fits(h, B, asize) /\ fit[2] \in B \ {8}
             /\ NFReady(fit[1], B, {}) /\ fit[1].brk = h.brk
             /\ \A b : NFHdr(fit[1], b) = NFHdr(h, b)
    <3>1. /\ NFHdr(fit[1], fit[2]).alloc = 0 /\ asize <= NFHdr(fit[1], fit[2]).size
          /\ fit[2] # 0
      <4>1. NFHdr(h, fit[2]).alloc = 0 /\ asize <= NFHdr(h, fit[2]).size
        BY <2>6, NFMacros DEF NextFit!Fits
      <4>2. fit[2] # 0
        <5> HIDE DEF fit
        <5> QED
          BY <2>3, <2>6, NFBlock DEF NFReady
      <4> QED
        BY <2>6, <4>1, <4>2
    <3>2. got = fit
      BY <3>1
    <3> HIDE DEF fit, got
    <3>3. NFGood(fit[1], B, O)
      <4>1. NFKept(h, B, fit[1], B)
        BY <2>6 DEF NFKept, NFHeld
      <4> QED
        BY <2>3, <2>6, <4>1, NFOwnedKept DEF NFGood
    <3> DEFINE g == NextFit!Place(fit[1], fit[2], asize)
    <3>4. NFHanded(g, O, fit[2], size) /\ g.brk = h.brk
      BY <1>2, <2>6, <3>1, <3>3, NFHand DEF asize
    <3>5. r[1] = g /\ r[2] = fit[2]
      BY <2>2, <3>1, <3>2
    <3> HIDE DEF g
    <3> QED
      BY <1>2, <3>1, <3>4, <3>5
  <2> QED
    BY <2>4, <2>5, <2>6
<1> QED
  BY <1>1, <1>2

(* mm_free takes a held block back, and only that one. *)
LEMMA NFRelease ==
  ASSUME NEW h, NEW B, NEW O, NFGood(h, B, O), NEW o \in O,
         NEW g, g = NextFit!Release(h, o.ptr)
  PROVE  \E C : NFGood(g, C, O \ {o})
<1> DEFINE bp == o.ptr
           q  == NFNext(h, bp)
           f  == NextFit!PutTags(h, bp - 4, q - 8, q - bp, 0)
<1>1. NFReady(h, B, {}) /\ NFList(h, B) /\ NFOwned(h, B, O) /\ h \in NFHeaps
  BY DEF NFGood, NFReady, NFList
<1>2. bp \in B \ {8} /\ NFHdr(h, bp).alloc = 1 /\ bp \in NFHeld(h, B)
  BY <1>1 DEF NFOwned, NFHeld
<1>3. /\ bp \in Nat /\ q \in B \cup {h.brk} /\ q \in Nat /\ bp < q /\ bp - 4 \in NextFit!Words
      /\ q - bp = NFHdr(h, bp).size /\ q - bp \in 0 .. UINT_MOD - 1
      /\ \A x \in B : x <= bp \/ q <= x
      /\ \A x \in B : x \in Nat
  <2>1. /\ bp \in Nat /\ q \in Nat /\ bp - 4 \in NextFit!Words /\ NFHdr(h, bp) \in Tags
        /\ q = bp + NFHdr(h, bp).size
    BY <1>1, <1>2, NFBlock
  <2>2. q \in B \cup {h.brk} /\ bp < q /\ \A x \in B : bp < x => q <= x
    BY <1>1, <1>2, NFNeighbours
  <2>3. NFHdr(h, bp).size \in 0 .. UINT_MOD - 1
    BY <2>1 DEF Tags
  <2>4. \A x \in B : x \in Nat
    BY <1>1, NFBlock
  <2> HIDE DEF q, bp
  <2>5. q - bp = NFHdr(h, bp).size
    BY <2>1, <2>3
  <2> QED
    BY <2>1, <2>2, <2>3, <2>4, <2>5
<1> HIDE DEF q, bp
<1>4. g = NextFit!Coalesce(f, bp)[1]
  <2> DEFINE s == q - bp
  <2>1. /\ h \in NFHeaps /\ bp - 4 \in NextFit!Words /\ bp \in Int /\ 0 \in {0, 1}
        /\ s \in 0 .. UINT_MOD - 1
    BY <1>1, <1>3
  <2>2. (bp + s) - 8 = q - 8 /\ NextFit!Size(h, bp) = s
    BY <1>3, NFMacros
  <2> HIDE DEF s
  <2>3. NextFit!PutBlock(h, bp, s, 0) = NextFit!PutTags(h, bp - 4, (bp + s) - 8, s, 0)
    BY <2>1, NFPutBlock
  <2>4. NextFit!PutBlock(h, bp, NextFit!Size(h, bp), 0) = NextFit!PutTags(h, bp - 4, q - 8, s, 0)
    BY <2>2, <2>3, Zenon
  <2> QED
    BY <2>4 DEF NextFit!Release, s, bp
<1>5. /\ NFList(f, B) /\ f.brk = h.brk /\ f.rover = h.rover
      /\ NFHdr(f, bp) = NFTag(q - bp, 0)
      /\ \A x \in B : x # bp => NFHdr(f, x) = NFHdr(h, x)
  <2>1. Without(B, bp, q) = B
    BY <1>3 DEF Without
  <2> DEFINE C == Without(B, bp, q)
  <2>2. /\ NFList(f, C) /\ f.brk = h.brk /\ f.rover = h.rover
        /\ NFHdr(f, bp) = NFTag(q - bp, 0)
        /\ \A x \in C : x # bp => NFHdr(f, x) = NFHdr(h, x)
    <3>1. f = NextFit!PutTags(h, bp - 4, q - 8, q - bp, 0) /\ C = Without(B, bp, q) /\ 0 \in {0, 1}
      OBVIOUS
    <3> HIDE DEF f, C
    <3> QED
      BY <1>1, <1>2, <1>3, <3>1, NFOverwrite
  <2> QED
    BY <2>1, <2>2
<1> HIDE DEF f
<1>6. /\ NFHdr(f, bp).alloc = 0 /\ NFHdr(f, bp).size = NFHdr(h, bp).size
      /\ \A x \in B : NFNext(f, x) = NFNext(h, x)
  <2>1. NFHdr(f, bp).alloc = 0 /\ NFHdr(f, bp).size = NFHdr(h, bp).size
    BY <1>3, <1>5 DEF NFTag
  <2> QED
    BY <1>5, <2>1 DEF NFNext
<1>7. NFReady(f, B, {bp})
  <2>1. NFCoalesced(f, B, {bp})
    BY <1>1, <1>5, <1>6 DEF NFReady, NFCoalesced
  <2> QED
    BY <1>1, <1>5, <2>1 DEF NFReady
<1>8. /\ NFHeld(f, B) = NFHeld(h, B) \ {bp}
      /\ \A b \in NFHeld(f, B) : NFHdr(f, b) = NFHdr(h, b)
  BY <1>5, <1>6 DEF NFHeld
<1>9. NFOwned(f, B, O \ {o})
  <2>1. \A c \in O : c.ptr \in NFHeld(h, B) /\ (c.ptr = bp => c = o)
    BY <1>1 DEF NFOwned, bp
  <2>2. {c.ptr : c \in O \ {o}} = NFHeld(h, B) \ {bp}
    BY <1>1, <2>1 DEF NFOwned, bp
  <2>3. \A c \in O \ {o} : NFHdr(f, c.ptr) = NFHdr(h, c.ptr)
    BY <1>8, <2>2
  <2> QED
    BY <1>1, <1>8, <2>2, <2>3 DEF NFOwned
<1> DEFINE r == NextFit!Coalesce(f, bp)
<1>10. PICK C : NFReady(r[1], C, {}) /\ NFKept(f, B, r[1], C)
  <2> HIDE DEF r
  <2>1. r = NextFit!Coalesce(f, bp)
    BY DEF r
  <2> QED
    BY <1>2, <1>6, <1>7, <2>1, NFCoalesce
<1>11. NFOwned(r[1], C, O \ {o})
  <2> HIDE DEF r
  <2> QED
    BY <1>9, <1>10, NFOwnedKept
<1> QED
  BY <1>4, <1>10, <1>11 DEF NFGood

-----------------------------------------------------------------------------
(* The memory of the allocator without footers *)

NHeaps == [mem : [NoFooter!Words -> Tags], brk : 0 .. NO_FOOTER_HEAP, rover : 0 .. NO_FOOTER_HEAP]

LEMMA NConstants == /\ NoFooter!WSIZE = 4 /\ NoFooter!DSIZE = 8 /\ NoFooter!NULL = 0
                     /\ NoFooter!FirstBlock = 8 /\ FirstBlock = 8
BY DEF NoFooter!WSIZE, NoFooter!DSIZE, NoFooter!NULL, NoFooter!FirstBlock, FirstBlock, WSIZE

LEMMA NWords == ASSUME NEW p \in Int
                 PROVE  p \in NoFooter!Words <=> p >= 0 /\ p % 4 = 0 /\ p + 4 <= NO_FOOTER_HEAP
BY Widths, WordsOf DEF NoFooter!Words

LEMMA NTagOf == ASSUME NEW s \in 0 .. UINT_MOD - 1, NEW a \in -1 .. 1, NEW b \in -1 .. 1
               PROVE  /\ NoFooter!Tag(s, a, b) = [size |-> s, alloc |-> a, prev |-> b]
                      /\ [size |-> s, alloc |-> a, prev |-> b] \in Tags
<1>1. s % UINT_MOD = s
  BY ModSmall, Widths
<1> QED
  BY <1>1 DEF NoFooter!Tag, Tags

LEMMA NGet == ASSUME NEW h \in NHeaps, NEW p
               PROVE  /\ NoFooter!Get(h, p) \in Tags
                      /\ p \notin NoFooter!Words => NoFooter!Get(h, p).size = 0
<1>1. NoFooter!Junk \in Tags
  BY Widths DEF NoFooter!Junk, Tags
<1> QED
  BY <1>1 DEF NoFooter!Get, NHeaps, NoFooter!Junk

LEMMA NPut == ASSUME NEW h \in NHeaps, NEW p \in NoFooter!Words, NEW v \in Tags
               PROVE  /\ NoFooter!Put(h, p, v) \in NHeaps
                      /\ NoFooter!Put(h, p, v).brk = h.brk
                      /\ NoFooter!Put(h, p, v).rover = h.rover
                      /\ NoFooter!Get(NoFooter!Put(h, p, v), p) = v
                      /\ \A q : q # p => NoFooter!Get(NoFooter!Put(h, p, v), q) = NoFooter!Get(h, q)
BY DEF NoFooter!Put, NoFooter!Get, NHeaps

(* Walk and WalkEnd follow NEXT_BLKP. *)
LEMMA NWalkStep ==
  ASSUME NEW h \in NHeaps, NEW bp \in 0 .. NO_FOOTER_HEAP + UINT_MOD
  PROVE  /\ NoFooter!Size(h, bp) = 0 \/ NoFooter!Next_(h, bp) \in bp + 1 .. NO_FOOTER_HEAP + UINT_MOD
         /\ NoFooter!Walk(h, bp) = IF NoFooter!Size(h, bp) = 0 THEN {}
                                  ELSE {bp} \cup NoFooter!Walk(h, NoFooter!Next_(h, bp))
         /\ NoFooter!WalkEnd(h, bp) = IF NoFooter!Size(h, bp) = 0 THEN bp
                                     ELSE NoFooter!WalkEnd(h, NoFooter!Next_(h, bp))
<1> DEFINE D == NO_FOOTER_HEAP + UINT_MOD
           w[p \in 0 .. D] == IF NoFooter!Size(h, p) = 0 THEN {}
                              ELSE {p} \cup w[NoFooter!Next_(h, p)]
           v[p \in 0 .. D] == IF NoFooter!Size(h, p) = 0 THEN p
                              ELSE v[NoFooter!Next_(h, p)]
           stop == {p \in 0 .. D : NoFooter!Size(h, p) = 0}
           next == [p \in 0 .. D |-> NoFooter!Next_(h, p)]
<1>1. D \in Nat
  BY Widths
<1>2. ASSUME NEW p \in 0 .. D
      PROVE  NoFooter!Size(h, p) = 0 \/ NoFooter!Next_(h, p) \in p + 1 .. D
  <2>1. NoFooter!Size(h, p) \in 0 .. UINT_MOD - 1
    BY NGet DEF NoFooter!Size, Tags
  <2>2. NoFooter!Size(h, p) # 0 => p <= NO_FOOTER_HEAP
    <3>1. NoFooter!Size(h, p) # 0 => p - 4 \in NoFooter!Words
      BY NGet, NConstants DEF NoFooter!Size
    <3>2. p - 4 \in Int
      BY <1>1
    <3> QED
      BY <3>1, <3>2, NWords, Widths
  <2> QED
    BY <2>1, <2>2, Widths DEF NoFooter!Next_
<1>3. Upwards(D, stop, next)
  BY <1>1, <1>2 DEF Upwards
<1>4. /\ \E g : g = [p \in 0 .. D |-> IF NoFooter!Size(h, p) = 0 THEN {}
                                      ELSE {p} \cup g[NoFooter!Next_(h, p)]]
      /\ \E g : g = [p \in 0 .. D |-> IF NoFooter!Size(h, p) = 0 THEN p
                                      ELSE g[NoFooter!Next_(h, p)]]
  <2>1. PICK g : g = [x \in 0 .. D |-> IF x \in stop THEN {} ELSE {x} \cup g[next[x]]]
    <3> HIDE DEF stop, next, D
    <3> QED
      BY <1>3, WalksExist
  <2>2. PICK f : f = [x \in 0 .. D |-> IF x \in stop THEN x ELSE f[next[x]]]
    <3> HIDE DEF stop, next, D
    <3> QED
      BY <1>3, WalksExist
  <2>3. g = [p \in 0 .. D |-> IF NoFooter!Size(h, p) = 0 THEN {}
                              ELSE {p} \cup g[NoFooter!Next_(h, p)]]
    BY <2>1
  <2>4. f = [p \in 0 .. D |-> IF NoFooter!Size(h, p) = 0 THEN p ELSE f[NoFooter!Next_(h, p)]]
    BY <2>2
  <2> QED
    BY <2>3, <2>4
<1>5. /\ w = [p \in 0 .. D |-> IF NoFooter!Size(h, p) = 0 THEN {}
                               ELSE {p} \cup w[NoFooter!Next_(h, p)]]
      /\ v = [p \in 0 .. D |-> IF NoFooter!Size(h, p) = 0 THEN p ELSE v[NoFooter!Next_(h, p)]]
  BY <1>4, Zenon
<1>6. \A p : NoFooter!Walk(h, p) = w[p] /\ NoFooter!WalkEnd(h, p) = v[p]
  BY DEF NoFooter!Walk, NoFooter!WalkEnd
<1> HIDE DEF w, v
<1> QED
  BY <1>2, <1>5, <1>6

LEMMA NEightWords == ASSUME NEW x \in 8 .. NO_FOOTER_HEAP, x % 8 = 0
                    PROVE  x - 4 \in NoFooter!Words /\ (x >= 16 => x - 8 \in NoFooter!Words)
<1>1. x - 4 \in Int /\ x - 4 >= 0 /\ (x - 4) % 4 = 0 /\ (x - 4) + 4 <= NO_FOOTER_HEAP
  BY Widths
<1>2. x >= 16 => x - 8 \in Int /\ x - 8 >= 0 /\ (x - 8) % 4 = 0 /\ (x - 8) + 4 <= NO_FOOTER_HEAP
  BY Widths
<1> QED
  BY <1>1, <1>2, NWords

-----------------------------------------------------------------------------
(* The block list of the allocator without footers *)

NHdr(h, b)   == NoFooter!Get(h, b - 4)
NNext(h, b)  == b + NHdr(h, b).size
NLinks(h, B) == [b \in B |-> NNext(h, b)]
NTag(s, a, v) == [size |-> s, alloc |-> a, prev |-> v]
(* The footer of b still stands. *)
NFooted(h, b) == NoFooter!Get(h, NNext(h, b) - 8).size = NHdr(h, b).size

(* h is a list of the blocks B, in which every free block has a footer. *)
NList(h, B) ==
    /\ h \in NHeaps
    /\ Tiles(B, h.brk, NLinks(h, B))
    /\ \A b \in B \cup {h.brk} : NHdr(h, b).alloc \in {0, 1} /\ NHdr(h, b).prev \in {0, 1}
    /\ \A b \in B : NHdr(h, b).alloc = 0 => NFooted(h, b)
    /\ NHdr(h, h.brk).size = 0 /\ NHdr(h, h.brk).alloc = 1
    /\ NHdr(h, 8).size = 8 /\ NHdr(h, 8).alloc = 1

LEMMA NMacros ==
  ASSUME NEW h, NEW b
  PROVE  /\ NoFooter!Size(h, b) = NHdr(h, b).size /\ NoFooter!Alloc(h, b) = NHdr(h, b).alloc
         /\ NoFooter!Hdrp(b) = b - 4
         /\ NoFooter!Next_(h, b) = NNext(h, b)
         /\ NoFooter!Prev_(h, b) = b - NoFooter!Get(h, b - 8).size
         /\ NoFooter!Free(h, b) <=> NHdr(h, b).alloc = 0
BY NConstants DEF NoFooter!Size, NoFooter!Alloc, NoFooter!Hdrp, NoFooter!Ftrp, NoFooter!Next_,
   NoFooter!Prev_, NoFooter!Free, NHdr, NNext

LEMMA NFtrp ==
  ASSUME NEW h \in NHeaps, NEW b \in Int
  PROVE  NoFooter!Ftrp(h, b) = NNext(h, b) - 8
<1>1. NHdr(h, b).size \in Nat
  BY NGet DEF NHdr, Tags
<1> QED
  BY <1>1, NConstants DEF NoFooter!Ftrp, NoFooter!Size, NHdr, NNext

LEMMA NTagged ==
  ASSUME NEW n \in 0 .. UINT_MOD - 1, NEW a \in {0, 1}, NEW v \in {0, 1}
  PROVE  NoFooter!Tag(n, a, v) = NTag(n, a, v) /\ NTag(n, a, v) \in Tags
<1>1. a \in -1 .. 1 /\ v \in -1 .. 1
  OBVIOUS
<1> QED
  BY <1>1, NTagOf DEF NTag

(* What is known of a block. *)
LEMMA NBlock ==
  ASSUME NEW h, NEW B, NList(h, B), NEW b \in B
  PROVE  /\ b \in Nat /\ b % 8 = 0 /\ 8 <= b /\ b < h.brk
         /\ NHdr(h, b) \in Tags
         /\ NHdr(h, b).size \in Nat /\ NHdr(h, b).size % 8 = 0 /\ NHdr(h, b).size >= 8
         /\ NNext(h, b) \in B \cup {h.brk} /\ NNext(h, b) \in Nat /\ NNext(h, b) % 8 = 0
         /\ b + 8 <= NNext(h, b) /\ NNext(h, b) <= h.brk
         /\ NNext(h, b) = b + NHdr(h, b).size
         /\ b - 4 \in NoFooter!Words /\ NNext(h, b) - 8 \in NoFooter!Words
         /\ h.brk \in 16 .. NO_FOOTER_HEAP /\ h.brk % 8 = 0 /\ 8 \in B
         /\ h.brk - 4 \in NoFooter!Words
<1> DEFINE s == NHdr(h, b).size
<1>1. NHdr(h, b) \in Tags /\ s \in Nat
  BY NGet DEF NList, NHdr, Tags
<1>2. NLinks(h, B)[b] = b + s /\ NNext(h, b) = b + s
  BY DEF NLinks, NNext
<1>3. Tiles(B, h.brk, NLinks(h, B)) /\ h.brk \in 0 .. NO_FOOTER_HEAP
  BY DEF NList, NHeaps
<1>4. /\ b \in Nat /\ b % 8 = 0 /\ 8 <= b /\ b < h.brk /\ h.brk % 8 = 0 /\ 8 \in B
      /\ b + s \in B \cup {h.brk} /\ b < b + s
  BY <1>2, <1>3, NConstants DEF Tiles, Aligned
<1>5. (b + s) % 8 = 0 /\ b + s <= h.brk
  <2>1. b + s \in B => (b + s) % 8 = 0 /\ b + s < h.brk
    BY <1>3 DEF Tiles, Aligned
  <2> QED
    BY <1>1, <1>3, <1>4, <2>1
<1> HIDE DEF s
<1>6. s % 8 = 0 /\ s >= 8
  BY <1>1, <1>4, <1>5
<1>7. h.brk \in 16 .. NO_FOOTER_HEAP
  BY <1>3, <1>4
<1>8. b - 4 \in NoFooter!Words /\ (b + s) - 8 \in NoFooter!Words /\ h.brk - 4 \in NoFooter!Words
  <2>1. b \in 8 .. NO_FOOTER_HEAP /\ h.brk \in 8 .. NO_FOOTER_HEAP
    BY <1>4, <1>7, Widths
  <2>2. b - 4 \in NoFooter!Words /\ h.brk - 4 \in NoFooter!Words
    BY <1>4, <2>1, NEightWords
  <2> DEFINE n == b + s
  <2>3. n \in 8 .. NO_FOOTER_HEAP /\ n >= 16 /\ n % 8 = 0
    BY <1>1, <1>4, <1>5, <1>6, <1>7, Widths
  <2> HIDE DEF n
  <2>4. n - 8 \in NoFooter!Words
    BY <2>3, NEightWords
  <2> QED
    BY <2>2, <2>4 DEF n
<1>9. b + s \in Nat /\ b + 8 <= b + s
  BY <1>1, <1>4, <1>6
<1> QED
  BY <1>1, <1>2, <1>4, <1>5, <1>6, <1>7, <1>8, <1>9 DEF s

(* The walks of mm_checkheap and of find_fit meet the blocks of the list. *)
LEMMA NListWalk ==
  ASSUME NEW h, NEW B, NList(h, B), NEW b \in B \cup {h.brk}
  PROVE  NoFooter!Walk(h, b) = {x \in B : b <= x} /\ NoFooter!WalkEnd(h, b) = h.brk
<1> DEFINE e == h.brk
           G == {x \in B \cup {e} : /\ NoFooter!Walk(h, x) = {y \in B : x <= y}
                                    /\ NoFooter!WalkEnd(h, x) = e}
<1>0. Tiles(B, e, NLinks(h, B)) /\ h \in NHeaps /\ e \in 0 .. NO_FOOTER_HEAP
  BY DEF NList, NHeaps
<1>1. e \in G
  <2>1. NoFooter!Size(h, e) = 0
    BY NMacros DEF NList
  <2>2. e \in 0 .. NO_FOOTER_HEAP + UINT_MOD
    BY <1>0, Widths
  <2>3. {y \in B : e <= y} = {}
    <3>1. \A y \in B : y \in Nat /\ y < e
      BY <1>0, TilesNat DEF Tiles
    <3> HIDE DEF e
    <3> QED
      BY <1>0, <3>1
  <2> QED
    BY <1>0, <2>1, <2>2, <2>3, NWalkStep
<1>2. ASSUME NEW x \in B, NLinks(h, B)[x] \in G
      PROVE  x \in G
  <2>1. /\ x \in Nat /\ x < e /\ NoFooter!Size(h, x) # 0
        /\ NoFooter!Next_(h, x) = NLinks(h, B)[x]
    BY NBlock, NMacros DEF NLinks
  <2>2. x \in 0 .. NO_FOOTER_HEAP + UINT_MOD
    BY <1>0, <2>1, Widths
  <2>3. /\ NoFooter!Walk(h, x) = {x} \cup NoFooter!Walk(h, NLinks(h, B)[x])
        /\ NoFooter!WalkEnd(h, x) = NoFooter!WalkEnd(h, NLinks(h, B)[x])
    BY <1>0, <2>1, <2>2, NWalkStep
  <2>4. \A y \in B : y = x \/ NLinks(h, B)[x] <= y <=> x <= y
    <3> TAKE y \in B
    <3>1. /\ y \in Nat /\ NLinks(h, B)[x] \in Nat /\ x < NLinks(h, B)[x]
          /\ x < y => NLinks(h, B)[x] <= y
      BY <1>0, TilesNat DEF Tiles
    <3> QED
      BY <2>1, <3>1
  <2> HIDE DEF e
  <2>5. {x} \cup {y \in B : NLinks(h, B)[x] <= y} = {y \in B : x <= y}
    BY <2>4
  <2> QED
    BY <1>2, <2>3, <2>5
<1>3. B \subseteq G
  <2>1. Chain(B, e, NLinks(h, B))
    BY <1>0, TilesChain
  <2>2. Inherited(G, B, e, NLinks(h, B))
    BY <1>1, <1>2 DEF Inherited
  <2> HIDE DEF e, G
  <2> QED
    BY <2>1, <2>2, ChainInduction
<1> QED
  BY <1>1, <1>3

(* The block after a block, and the block before it. *)
LEMMA NNeighbours ==
  ASSUME NEW h, NEW B, NList(h, B), NEW b \in B
  PROVE  /\ NNext(h, b) \in B \cup {h.brk} /\ NNext(h, b) \in Nat /\ b < NNext(h, b)
         /\ \A x \in B : x < NNext(h, b) => x <= b
         /\ \A x \in B : b < x => NNext(h, b) <= x
         /\ \A x \in B : NNext(h, x) = NNext(h, b) => x = b
         /\ b # 8 => \E x \in B : NNext(h, x) = b
<1>1. Tiles(B, h.brk, NLinks(h, B)) /\ \A x \in B : NLinks(h, B)[x] = NNext(h, x)
  BY DEF NList, NLinks
<1> DEFINE L == NLinks(h, B)
<1> HIDE DEF L
<1>2. /\ L[b] \in B \cup {h.brk} /\ L[b] \in Nat /\ b < L[b]
      /\ \A x \in B : x < L[b] => x <= b
      /\ \A x \in B : b < x => L[b] <= x
      /\ \A x \in B : L[x] = L[b] => x = b
      /\ b # 8 => \E x \in B : L[x] = b
  <2>1. Tiles(B, h.brk, L)
    BY <1>1 DEF L
  <2>2. \A x \in B : x < L[b] => x <= b
    BY <2>1, TilesApart
  <2>3. \A x \in B : L[x] = L[b] => x = b
    BY <2>1, TilesApart
  <2>4. L[b] \in Nat
    BY <2>1, TilesNat
  <2> QED
    BY <2>1, <2>2, <2>3, <2>4, NConstants DEF Tiles
<1> QED
  BY <1>1, <1>2 DEF L

(* A header bit that says that the block before x is free is right: coalesce  *)
(* will find that block by its footer, and no client holds it.                *)
NReached(h, B, P, x) == \E b \in B \ {8} : NNext(h, b) = x /\ NFooted(h, b) /\ b \notin P
(* P are the blocks that clients hold. *)
NSafe(h, B, P) ==
    /\ NList(h, B)
    /\ \A x \in B \cup {h.brk} : x # 8 /\ NHdr(h, x).prev = 0 => NReached(h, B, P, x)
    /\ \A p \in P : /\ p \in B \ {8} /\ NHdr(h, p).alloc = 1
                    /\ NHdr(h, NNext(h, p)).prev = 1
NKept(h, g, P) == \A p \in P : NHdr(g, p).size = NHdr(h, p).size

(* g is h with the words p and q overwritten. *)
NStored(h, g, p, s, q, t) ==
    /\ g \in NHeaps /\ g.brk = h.brk
    /\ NoFooter!Get(g, p) = s /\ NoFooter!Get(g, q) = t
    /\ \A w : w # p /\ w # q => NoFooter!Get(g, w) = NoFooter!Get(h, w)

LEMMA NPutTwo ==
  ASSUME NEW h \in NHeaps, NEW p \in NoFooter!Words, NEW q \in NoFooter!Words, p # q,
         NEW s \in Tags, NEW t \in Tags
  PROVE  NStored(h, NoFooter!Put(NoFooter!Put(h, p, s), q, t), p, s, q, t)
<1> DEFINE f == NoFooter!Put(h, p, s)
           g == NoFooter!Put(f, q, t)
<1>1. /\ f \in NHeaps /\ f.brk = h.brk /\ NoFooter!Get(f, p) = s
      /\ \A w : w # p => NoFooter!Get(f, w) = NoFooter!Get(h, w)
  BY NPut
<1> HIDE DEF f
<1>2. /\ g \in NHeaps /\ g.brk = f.brk /\ NoFooter!Get(g, q) = t
      /\ \A w : w # q => NoFooter!Get(g, w) = NoFooter!Get(f, w)
  BY <1>1, NPut
<1> HIDE DEF g
<1>3. NStored(h, g, p, s, q, t)
  BY <1>1, <1>2 DEF NStored
<1> QED
  BY <1>3 DEF f, g

NFreed(h, b, n, v) ==
    NoFooter!PutFree(h, b, n, v)
        = NoFooter!Put(NoFooter!Put(h, b - 4, NTag(n, 0, v)), (b + n) - 8, NTag(n, 0, v))

LEMMA NPutFree ==
  ASSUME NEW h, h \in NHeaps, NEW b, b \in Int, b - 4 \in NoFooter!Words,
         NEW n, n \in 0 .. UINT_MOD - 1, NEW v, v \in {0, 1}
  PROVE  NFreed(h, b, n, v)
<1> DEFINE g == NoFooter!Put(h, b - 4, NTag(n, 0, v))
<1>1. NoFooter!Tag(n, 0, v) = NTag(n, 0, v) /\ NTag(n, 0, v) \in Tags
  BY NTagged
<1>2. NoFooter!Get(g, b - 4) = NTag(n, 0, v)
  BY <1>1, NPut
<1>3. NoFooter!Ftrp(g, b) = b + n - 8
  BY <1>2, NConstants DEF NoFooter!Ftrp, NoFooter!Size, NTag
<1>4. b + n - 8 = (b + n) - 8
  BY Widths
<1>5. NoFooter!Hdrp(b) = b - 4
  BY NMacros
<1> QED
  BY <1>1, <1>3, <1>4, <1>5 DEF NFreed, NoFooter!PutFree, NoFooter!PutHdr

(* Fewer blocks held is as safe. *)
LEMMA NFewer ==
  ASSUME NEW h, NEW B, NEW P, NSafe(h, B, P), NEW Q, Q \subseteq P
  PROVE  NSafe(h, B, Q)
BY DEF NSafe, NReached

(* PUT of a free header at p and a footer before q makes one free block of    *)
(* what lies between.                                                         *)
LEMMA NOverwrite ==
  ASSUME NEW h, NEW B, NEW P, NSafe(h, B, P),
         NEW p \in B \ {8}, NEW q \in B \cup {h.brk}, p < q,
         \A x \in P : x < p \/ q <= x,
         NEW v \in {0, 1}, v = 0 => NHdr(h, p).prev = 0,
         NEW g, NStored(h, g, p - 4, NTag(q - p, 0, v), q - 8, NTag(q - p, 0, v)),
         NEW C, C = Without(B, p, q)
  PROVE  /\ NSafe(g, C, P) /\ NKept(h, g, P) /\ g.brk = h.brk
         /\ p \in C \ {8} /\ p \notin P /\ NHdr(g, p) = NTag(q - p, 0, v)
<1> DEFINE t == NTag(q - p, 0, v)
           L == NLinks(h, B)
<1>1. /\ NList(h, B)
      /\ p \in Nat /\ p % 8 = 0 /\ 8 <= p /\ p < h.brk
      /\ h.brk \in 16 .. NO_FOOTER_HEAP /\ h.brk % 8 = 0 /\ 8 \in B /\ h \in NHeaps
      /\ Tiles(B, h.brk, L)
  BY NBlock DEF NList, NSafe
<1>2. q \in Nat /\ q % 8 = 0 /\ q <= h.brk
  <2>1. q \in B => q \in Nat /\ q % 8 = 0 /\ q < h.brk
    BY <1>1, NBlock
  <2> QED
    BY <1>1, <2>1
<1>5. /\ g \in NHeaps /\ g.brk = h.brk
      /\ NoFooter!Get(g, p - 4) = t /\ NoFooter!Get(g, q - 8) = t
      /\ \A w : w # p - 4 /\ w # q - 8 => NoFooter!Get(g, w) = NoFooter!Get(h, w)
  BY DEF NStored
<1> HIDE DEF t
<1>3. \A x \in Int : x % 8 = 0 => /\ x # p => NHdr(g, x) = NHdr(h, x)
                                  /\ x # q => NoFooter!Get(g, x - 8) = NoFooter!Get(h, x - 8)
  <2> TAKE x \in Int
  <2> HAVE x % 8 = 0
  <2>1. x # p => x - 4 # p - 4 /\ x - 4 # q - 8
    BY <1>1, <1>2
  <2>2. x # q => x - 8 # p - 4 /\ x - 8 # q - 8
    BY <1>1, <1>2
  <2> QED
    BY <1>5, <2>1, <2>2 DEF NHdr
<1>4. /\ NHdr(g, p) = t /\ t.alloc = 0 /\ t.size = q - p /\ t.prev = v
      /\ NNext(g, p) = q /\ NFooted(g, p)
  <2>1. NHdr(g, p) = t /\ t.alloc = 0 /\ t.size = q - p /\ t.prev = v
    BY <1>5 DEF NHdr, t, NTag
  <2>2. NNext(g, p) = q
    BY <1>1, <1>2, <2>1 DEF NNext
  <2> QED
    BY <1>5, <2>1, <2>2 DEF NFooted
<1>6. ASSUME NEW x \in B, x # p
      PROVE  /\ NHdr(g, x) = NHdr(h, x) /\ NNext(g, x) = NNext(h, x)
             /\ x \in Nat /\ x % 8 = 0 /\ NNext(h, x) \in Nat /\ NNext(h, x) % 8 = 0
             /\ x \in C => NNext(h, x) # q /\ (NFooted(h, x) <=> NFooted(g, x))
  <2>1. x \in Nat /\ x % 8 = 0 /\ NNext(h, x) \in Nat /\ NNext(h, x) % 8 = 0
    BY <1>1, NBlock
  <2>2. NHdr(g, x) = NHdr(h, x) /\ NNext(g, x) = NNext(h, x)
    BY <1>3, <1>6, <2>1 DEF NNext
  <2>3. ASSUME x \in C
        PROVE  NNext(h, x) # q /\ (NFooted(h, x) <=> NFooted(g, x))
    <3> DEFINE n == NNext(h, x)
    <3>1. n # q
      <4>1. x < p => n <= p
        BY <1>1, NNeighbours
      <4>2. x < n
        BY <1>1, NNeighbours
      <4>3. x < p \/ q <= x
        BY <1>1, <1>6, <2>1, <2>3 DEF Without
      <4> HIDE DEF n
      <4> QED
        BY <1>1, <1>2, <2>1, <4>1, <4>2, <4>3
    <3>2. NoFooter!Get(g, n - 8) = NoFooter!Get(h, n - 8)
      <4>1. n \in Int /\ n % 8 = 0
        BY <2>1
      <4> HIDE DEF n
      <4> QED
        BY <1>3, <3>1, <4>1
    <3> QED
      BY <2>2, <3>1, <3>2 DEF NFooted
  <2> QED
    BY <2>1, <2>2, <2>3
<1>7. p \in C /\ C \subseteq B /\ p \notin P
  BY <1>1, <1>2 DEF Without
<1>9. Tiles(C, g.brk, NLinks(g, C))
  <2> DEFINE M == NLinks(g, C)
  <2>1. Merges(C, L, p, q, M)
    <3> SUFFICES ASSUME NEW x \in C
                 PROVE  M[x] = IF x = p THEN q ELSE L[x]
      BY DEF Merges
    <3>1. M[x] = NNext(g, x) /\ L[x] = NNext(h, x)
      BY <1>7 DEF NLinks
    <3>2. x # p => NNext(g, x) = NNext(h, x)
      BY <1>6, <1>7
    <3> HIDE DEF M, L
    <3> QED
      BY <1>4, <3>1, <3>2
  <2> HIDE DEF L, M
  <2>2. Tiles(C, h.brk, M)
    BY <1>1, <2>1, MergeTiles
  <2> QED
    BY <1>5, <2>2 DEF M
<1>10. NHdr(g, h.brk) = NHdr(h, h.brk)
  BY <1>1, <1>3
<1>11. 8 \in C /\ NHdr(g, 8) = NHdr(h, 8)
  BY <1>1, <1>6 DEF Without
<1>12. NList(g, C)
  <2>1. \A x \in C : /\ NHdr(g, x).alloc \in {0, 1} /\ NHdr(g, x).prev \in {0, 1}
                     /\ NHdr(g, x).alloc = 0 => NFooted(g, x)
    <3> TAKE x \in C
    <3>1. CASE x = p
      BY <1>4, <3>1
    <3>2. CASE x # p
      BY <1>1, <1>6, <1>7, <3>2 DEF NList
    <3> QED
      BY <3>1, <3>2
  <2> QED
    BY <1>1, <1>5, <1>9, <1>10, <1>11, <2>1 DEF NList
<1>13. ASSUME NEW x \in C \cup {g.brk}, x # 8, NHdr(g, x).prev = 0
       PROVE  NReached(g, C, P, x)
  <2>1. NReached(h, B, P, x)
    <3>1. x \in B \cup {h.brk}
      BY <1>5, <1>7
    <3>2. NHdr(h, x).prev = 0
      BY <1>1, <1>4, <1>5, <1>6, <1>7, <1>10, <1>13
    <3> QED
      BY <1>13, <3>1, <3>2 DEF NSafe
  <2>2. PICK b \in B \ {8} : NNext(h, b) = x /\ NFooted(h, b) /\ b \notin P
    BY <2>1 DEF NReached
  <2>3. b \in Nat /\ x \in Nat /\ b < x
    BY <1>1, <2>2, NNeighbours, NBlock
  <2>4. CASE b \in C /\ b # p
    <3>1. NNext(g, b) = x /\ NFooted(g, b)
      BY <1>6, <2>2, <2>4
    <3> QED
      BY <2>2, <2>4, <3>1 DEF NReached
  <2>5. CASE b \notin C \/ b = p
    <3>1. p <= b /\ b < q
      BY <1>1, <1>2, <2>3, <2>5 DEF Without
    <3>2. x <= q
      <4>1. CASE q \in B
        BY <1>1, <2>2, <3>1, <4>1, NNeighbours
      <4>2. CASE q = h.brk
        BY <1>1, <2>2, <4>2, NBlock
      <4> QED
        BY <4>1, <4>2
    <3>3. x = q
      <4>1. x \in C => x <= p \/ q <= x
        BY DEF Without
      <4>2. x \notin C => q <= x
        BY <1>2, <1>5
      <4> QED
        BY <1>1, <1>2, <2>3, <3>1, <3>2, <4>1, <4>2
    <3> QED
      BY <1>4, <1>7, <3>3 DEF NReached
  <2> QED
    BY <2>4, <2>5
<1>14. ASSUME NEW r \in P
       PROVE  /\ r \in C \ {8} /\ NHdr(g, r) = NHdr(h, r) /\ NHdr(h, r).alloc = 1
              /\ NHdr(g, NNext(g, r)).prev = 1
  <2>1. /\ r \in B \ {8} /\ NHdr(h, r).alloc = 1 /\ NHdr(h, NNext(h, r)).prev = 1
        /\ (r < p \/ q <= r)
    BY DEF NSafe
  <2>2. r \in C /\ r # p
    BY <1>1, <1>2, <1>7, <2>1 DEF Without
  <2>3. /\ NHdr(g, r) = NHdr(h, r) /\ NNext(g, r) = NNext(h, r)
        /\ NNext(h, r) \in Int /\ NNext(h, r) % 8 = 0
    BY <1>6, <2>1, <2>2
  <2>4. CASE NNext(h, r) = p
    <3>1. v = 1
      BY <2>1, <2>4
    <3> QED
      BY <1>4, <2>1, <2>2, <2>3, <2>4, <3>1
  <2>5. CASE NNext(h, r) # p
    <3>1. NHdr(g, NNext(h, r)) = NHdr(h, NNext(h, r))
      BY <1>3, <2>3, <2>5
    <3> QED
      BY <2>1, <2>2, <2>3, <3>1
  <2> QED
    BY <2>4, <2>5
<1>15. NSafe(g, C, P)
  BY <1>12, <1>13, <1>14 DEF NSafe
<1> QED
  BY <1>1, <1>4, <1>5, <1>7, <1>14, <1>15 DEF NKept, t

-----------------------------------------------------------------------------
(* coalesce and extend_heap of the allocator without footers *)

LEMMA NCoalesce ==
  ASSUME NEW h, NEW B, NEW P, NSafe(h, B, P), NEW bp \in B \ {8}, bp \notin P,
         NHdr(h, bp).alloc = 0,
         NEW r, r = NoFooter!Coalesce(h, bp)
  PROVE  \E C : /\ NSafe(r[1], C, P) /\ NKept(h, r[1], P) /\ r[1].brk = h.brk
                /\ r[2] \in C \ {8} /\ r[2] \notin P /\ NHdr(r[1], r[2]).alloc = 0
                /\ NHdr(h, bp).size <= NHdr(r[1], r[2]).size
<1> DEFINE next == NNext(h, bp)
           size == NHdr(h, bp).size
           prevAlloc == NHdr(h, bp).prev # 0
           nextAlloc == NHdr(h, next).alloc # 0
<1>1. /\ NList(h, B) /\ h \in NHeaps /\ h.brk \in 0 .. NO_FOOTER_HEAP
      /\ \A x \in B : x \in Nat /\ NHdr(h, x).size \in Nat
  BY NBlock DEF NSafe, NList, NHeaps
<1>2. PICK prev \in B \ {8} : ~prevAlloc => NNext(h, prev) = bp /\ NFooted(h, prev) /\ prev \notin P
  <2>1. CASE prevAlloc
    BY <2>1
  <2>2. CASE ~prevAlloc
    <3>1. NReached(h, B, P, bp)
      BY <2>2 DEF NSafe
    <3> QED
      BY <3>1 DEF NReached
  <2> QED
    BY <2>1, <2>2
<1> DEFINE p == IF prevAlloc THEN bp ELSE prev
           q == IF nextAlloc THEN next ELSE NNext(h, next)
           g == NoFooter!Put(NoFooter!Put(h, p - 4, NTag(q - p, 0, 1)), q - 8, NTag(q - p, 0, 1))
           C == Without(B, p, q)
<1>3. ~prevAlloc => /\ NoFooter!Prev_(h, bp) = prev /\ prev < bp
                    /\ NHdr(h, prev).size = bp - prev /\ prev \in Nat
  <2> HAVE ~prevAlloc
  <2>1. NoFooter!Get(h, bp - 8).size = NHdr(h, prev).size
    BY <1>2 DEF NFooted
  <2>2. prev + NHdr(h, prev).size = bp
    BY <1>2 DEF NNext
  <2>3. bp - NHdr(h, prev).size = prev /\ NHdr(h, prev).size = bp - prev
    BY <1>1, <2>2
  <2>4. prev < bp
    BY <1>1, <1>2, NNeighbours
  <2> QED
    BY <1>1, <2>1, <2>3, <2>4, NMacros
<1>4. /\ NoFooter!Next_(h, bp) = next /\ NoFooter!Size(h, bp) = size
      /\ NoFooter!Alloc(h, next) = NHdr(h, next).alloc
      /\ NoFooter!Size(h, next) = NHdr(h, next).size
      /\ NoFooter!Hdrp(prev) = prev - 4 /\ NoFooter!Hdrp(bp) = bp - 4
      /\ NoFooter!Ftrp(h, bp) = next - 8
      /\ NoFooter!Ftrp(h, next) = NNext(h, next) - 8
      /\ NoFooter!Size(h, prev) = NHdr(h, prev).size
      /\ NoFooter!PrevAlloc(h, bp) = NHdr(h, bp).prev
  <2>1. /\ NoFooter!Next_(h, bp) = next /\ NoFooter!Size(h, bp) = size
        /\ NoFooter!Hdrp(bp) = bp - 4 /\ NoFooter!Ftrp(h, bp) = next - 8
        /\ NoFooter!PrevAlloc(h, bp) = NHdr(h, bp).prev
    BY <1>1, NMacros, NFtrp DEF NoFooter!PrevAlloc, NHdr
  <2>2. NoFooter!Hdrp(prev) = prev - 4 /\ NoFooter!Size(h, prev) = NHdr(h, prev).size
    BY NMacros
  <2>4. next \in Nat
    BY <1>1, NNeighbours
  <2> HIDE DEF next, nextAlloc, q, prevAlloc, p, size
  <2>3. /\ NoFooter!Alloc(h, next) = NHdr(h, next).alloc
        /\ NoFooter!Size(h, next) = NHdr(h, next).size
        /\ NoFooter!Ftrp(h, next) = NNext(h, next) - 8
    BY <1>1, <2>4, NMacros, NFtrp
  <2> QED
    BY <2>1, <2>2, <2>3
<1>5. /\ next \in B \cup {h.brk} /\ next \in Nat /\ bp < next /\ size = next - bp
      /\ bp - 4 \in NoFooter!Words /\ prev - 4 \in NoFooter!Words /\ next - 8 \in NoFooter!Words
      /\ next <= h.brk
  <2>1. /\ next \in B \cup {h.brk} /\ next \in Nat /\ bp < next
        /\ bp - 4 \in NoFooter!Words /\ prev - 4 \in NoFooter!Words /\ next - 8 \in NoFooter!Words
        /\ next <= h.brk
    BY <1>1, NBlock, NNeighbours
  <2>2. size = next - bp
    BY <1>1 DEF NNext
  <2> QED
    BY <2>1, <2>2
<1>6. ~nextAlloc => /\ next \in B /\ next < NNext(h, next)
                    /\ NNext(h, next) \in (B \cup {h.brk}) \cap Nat
                    /\ NoFooter!Get(h, NNext(h, next) - 8).size = NHdr(h, next).size
                    /\ NHdr(h, next).size = NNext(h, next) - next
                    /\ NNext(h, next) - 8 \in NoFooter!Words /\ NNext(h, next) <= h.brk
  <2>1. NHdr(h, h.brk).alloc # 0
    BY <1>1 DEF NList
  <2> HAVE ~nextAlloc
  <2>2. next \in B
    BY <1>5, <2>1
  <2>3. NFooted(h, next)
    BY <1>1, <2>2 DEF NList
  <2> HIDE DEF next
  <2>4. /\ next < NNext(h, next) /\ NNext(h, next) \in (B \cup {h.brk}) \cap Nat
        /\ NNext(h, next) - 8 \in NoFooter!Words /\ NNext(h, next) <= h.brk
    BY <1>1, <2>2, NBlock, NNeighbours
  <2>5. NHdr(h, next).size = NNext(h, next) - next
    BY <1>1, <2>2 DEF NNext
  <2> QED
    BY <2>2, <2>3, <2>4, <2>5 DEF NFooted
<1> HIDE DEF next, size
<1>7. /\ p \in B \ {8} /\ q \in B \cup {h.brk} /\ p <= bp /\ bp < q
      /\ p \in Nat /\ q \in Nat /\ p - 4 \in NoFooter!Words /\ q - 8 \in NoFooter!Words
      /\ q <= h.brk /\ p \notin P /\ size <= q - p
  BY <1>1, <1>2, <1>3, <1>5, <1>6
<1>8. \A x \in P : x < p \/ q <= x
  <2> SUFFICES ASSUME NEW x \in P, p <= x, x < q
               PROVE  FALSE
    <3>1. \A x \in P : x \in Nat
      BY <1>1 DEF NSafe
    <3> QED
      BY <1>7, <3>1
  <2>0. x \in B /\ x \in Nat /\ NHdr(h, x).alloc = 1
    BY <1>1 DEF NSafe
  <2>1. CASE x < bp
    <3>1. ~prevAlloc /\ x <= prev
      <4>1. ~prevAlloc
        BY <2>1, <2>0, <1>1
      <4>2. x <= prev
        BY <1>1, <1>2, <2>0, <2>1, <4>1, NNeighbours
      <4> QED
        BY <4>1, <4>2
    <3>2. x = prev
      BY <1>3, <2>0, <3>1
    <3> QED
      BY <1>2, <3>1, <3>2
  <2>2. CASE bp < x
    <3>1. next <= x
      BY <1>1, <2>0, <2>2, NNeighbours DEF next
    <3>2. ~nextAlloc /\ x <= next
      <4>1. ~nextAlloc
        BY <1>5, <2>0, <3>1
      <4>2. x <= next
        BY <1>1, <1>6, <2>0, <4>1, NNeighbours
      <4> QED
        BY <4>1, <4>2
    <3>3. x = next
      BY <1>5, <2>0, <3>1, <3>2
    <3> QED
      BY <2>0, <3>2, <3>3
  <2>3. x # bp
    OBVIOUS
  <2> QED
    BY <1>1, <2>0, <2>1, <2>2, <2>3
<1>9. q - p \in 0 .. UINT_MOD - 1
  BY <1>1, <1>7, Widths
<1>10. NoFooter!Tag(q - p, 0, 1) = NTag(q - p, 0, 1) /\ NTag(q - p, 0, 1) \in Tags
  BY <1>9, NTagged
<1>11. /\ prevAlloc /\ nextAlloc => r = <<h, bp>>
       /\ ~(prevAlloc /\ nextAlloc) => r = <<g, p>>
  <2>1. CASE prevAlloc /\ nextAlloc
    BY <1>4, <2>1 DEF NoFooter!Coalesce
  <2>2. CASE prevAlloc /\ ~nextAlloc
    <3>1. size + NHdr(h, next).size = q - p /\ p = bp
      BY <1>1, <1>5, <1>6, <2>2
    <3>2. NoFooter!PutFree(h, bp, q - p, 1) = g
      <4> DEFINE len == q - p
      <4>1. h \in NHeaps /\ bp \in Int /\ bp - 4 \in NoFooter!Words /\ len \in 0 .. UINT_MOD - 1 /\ 1 \in {0, 1}
        BY <1>1, <1>5, <1>9
      <4>2. (bp + len) - 8 = q - 8
        BY <1>7, <3>1
      <4> HIDE DEF len, p, q
      <4>3. NFreed(h, bp, len, 1)
        BY <4>1, NPutFree
      <4>4. NoFooter!PutFree(h, bp, len, 1)
               = NoFooter!Put(NoFooter!Put(h, p - 4, NTag(len, 0, 1)), q - 8, NTag(len, 0, 1))
        BY <3>1, <4>2, <4>3, Zenon DEF NFreed
      <4> QED
        BY <4>4 DEF len
    <3> QED
      BY <1>4, <2>2, <3>1, <3>2 DEF NoFooter!Coalesce
  <2>3. CASE ~prevAlloc /\ nextAlloc
    <3>1. size + NHdr(h, prev).size = q - p
      BY <1>1, <1>3, <1>5, <2>3
    <3> QED
      BY <1>3, <1>4, <1>10, <2>3, <3>1 DEF NoFooter!Coalesce, NoFooter!PutHdr
  <2>4. CASE ~prevAlloc /\ ~nextAlloc
    <3>1. size + NHdr(h, prev).size + NHdr(h, next).size = q - p
      BY <1>1, <1>3, <1>5, <1>6, <2>4
    <3> QED
      BY <1>3, <1>4, <1>6, <1>10, <2>4, <3>1 DEF NoFooter!Coalesce, NoFooter!PutHdr
  <2> QED
    BY <2>1, <2>2, <2>3, <2>4
<1> HIDE DEF p, q, g, prevAlloc, nextAlloc, C
<1>12. CASE prevAlloc /\ nextAlloc
  <2>1. NKept(h, h, P) /\ size <= size
    BY <1>1 DEF NKept, size
  <2> QED
    BY <1>11, <1>12, <2>1 DEF size
<1>13. CASE ~(prevAlloc /\ nextAlloc)
  <2>1. NStored(h, g, p - 4, NTag(q - p, 0, 1), q - 8, NTag(q - p, 0, 1))
    <3>1. p - 4 # q - 8
      <4>1. p % 8 = 0 /\ q % 8 = 0
        <5>1. h.brk % 8 = 0
          BY <1>1, NBlock
        <5> QED
          BY <1>1, <1>7, <5>1, NBlock
      <4> QED
        BY <1>7, <4>1
    <3> QED
      BY <1>1, <1>7, <1>10, <3>1, NPutTwo DEF g
  <2>2. /\ NSafe(g, C, P) /\ NKept(h, g, P) /\ g.brk = h.brk
        /\ p \in C \ {8} /\ p \notin P /\ NHdr(g, p) = NTag(q - p, 0, 1)
    <3>1. 1 \in {0, 1} /\ p < q /\ C = Without(B, p, q) /\ (1 = 0 => NHdr(h, p).prev = 0)
      BY <1>1, <1>7 DEF C
    <3> QED
      BY <1>7, <1>8, <2>1, <3>1, NOverwrite
  <2>3. NHdr(g, p).alloc = 0 /\ NHdr(g, p).size = q - p
    BY <2>2 DEF NTag
  <2> QED
    BY <1>7, <1>11, <1>13, <2>2, <2>3 DEF size
<1> QED
  BY <1>12, <1>13

LEMMA NExtend ==
  ASSUME NEW h, NEW B, NEW P, NSafe(h, B, P), NEW x \in Nat, x % 8 = 0, 8 <= x, x < UINT_MOD,
         NEW r, r = NoFooter!ExtendHeap(h, x \div 4)
  PROVE  \/ r = <<h, 0>>
         \/ \E C : /\ NSafe(r[1], C, P) /\ NKept(h, r[1], P)
                   /\ r[2] \in C \ {8} /\ r[2] \notin P /\ NHdr(r[1], r[2]).alloc = 0
                   /\ x <= NHdr(r[1], r[2]).size
<1> DEFINE e == h.brk
           f == e + x
           v == NHdr(h, e).prev
           g1 == [h EXCEPT !.brk = @ + x]
           g2 == NoFooter!Put(NoFooter!Put(g1, e - 4, NTag(x, 0, v)), f - 8, NTag(x, 0, v))
           g3 == NoFooter!Put(g2, f - 4, NTag(0, 1, 0))
           C == B \cup {e}
<1>1. /\ NList(h, B) /\ h \in NHeaps /\ Tiles(B, e, NLinks(h, B)) /\ 8 \in B
      /\ e \in 16 .. NO_FOOTER_HEAP /\ e % 8 = 0 /\ e - 4 \in NoFooter!Words
      /\ v \in {0, 1} /\ \A b \in B : b \in Nat /\ b < e
  <2>1. NList(h, B) /\ h \in NHeaps /\ Tiles(B, e, NLinks(h, B)) /\ 8 \in B /\ v \in {0, 1}
    BY NConstants DEF NSafe, NList, Tiles
  <2> QED
    BY <2>1, NBlock
<1>2. NoFooter!ToInt(x) \in Int /\ (NoFooter!ToInt(x) = x \/ NoFooter!ToInt(x) < 0)
  BY AsInt DEF NoFooter!ToInt
<1>3. (((x \div 4) + ((x \div 4) % 2)) * NoFooter!WSIZE) % SIZE_MOD = x
  BY EvenWords, NConstants
<1>4. CASE NoFooter!SbrkFails(h, x)
  BY <1>3, <1>4, NConstants DEF NoFooter!ExtendHeap
<1>5. CASE ~NoFooter!SbrkFails(h, x)
  <2>1. NoFooter!ToInt(x) = x /\ f <= NO_FOOTER_HEAP
    BY <1>1, <1>2, <1>5, Widths DEF NoFooter!SbrkFails
  <2>2. f \in 24 .. NO_FOOTER_HEAP /\ f % 8 = 0 /\ e + 8 <= f /\ e \in Nat /\ f \in Nat
    <3> HIDE DEF e
    <3>1. e \in Int /\ x \in Int
      BY <1>1
    <3>2. (e + x) % 8 = 0
      BY <1>1, <3>1, Eights
    <3> QED
      BY <1>1, <2>1, <3>2, Widths
  <2>3. f - 4 \in NoFooter!Words /\ f - 8 \in NoFooter!Words
    <3> HIDE DEF f, e
    <3>1. f \in 8 .. NO_FOOTER_HEAP /\ f >= 16
      BY <2>2, Widths
    <3> QED
      BY <2>2, <3>1, NEightWords
  <2>4. /\ g1 \in NHeaps /\ g1.brk = f
        /\ \A w : NoFooter!Get(g1, w) = NoFooter!Get(h, w)
    <3>1. g1 \in NHeaps /\ g1.brk = f /\ g1.mem = h.mem
      BY <1>1, <2>2, Widths DEF NHeaps
    <3> QED
      BY <3>1 DEF NoFooter!Get
  <2> HIDE DEF g1
  <2>5. /\ g2 \in NHeaps /\ g2.brk = f
        /\ NoFooter!Get(g2, e - 4) = NTag(x, 0, v) /\ NoFooter!Get(g2, f - 8) = NTag(x, 0, v)
        /\ \A w : w # e - 4 /\ w # f - 8 => NoFooter!Get(g2, w) = NoFooter!Get(h, w)
    <3>0. e - 4 # f - 8
      BY <1>1, <2>2
    <3>3. v \in {0, 1}
      BY <1>1
    <3> HIDE DEF e, f, v
    <3>1. NTag(x, 0, v) \in Tags
      <4>1. x \in 0 .. UINT_MOD - 1 /\ 0 \in {0, 1}
        BY Widths
      <4> QED
        BY <3>3, <4>1, NTagged
    <3>2. NStored(g1, g2, e - 4, NTag(x, 0, v), f - 8, NTag(x, 0, v))
      BY <1>1, <2>3, <2>4, <3>0, <3>1, NPutTwo
    <3> HIDE DEF g2
    <3> QED
      BY <2>4, <3>2 DEF NStored
  <2>6. NoFooter!Tag(0, 1, 0) = NTag(0, 1, 0) /\ NTag(0, 1, 0) \in Tags
    <3>1. 0 \in 0 .. UINT_MOD - 1 /\ 1 \in {0, 1} /\ 0 \in {0, 1}
      BY Widths
    <3> QED
      BY <3>1, NTagged
  <2> HIDE DEF g2
  <2>7. /\ g3 \in NHeaps /\ g3.brk = f
        /\ NoFooter!Get(g3, e - 4) = NTag(x, 0, v) /\ NoFooter!Get(g3, f - 8) = NTag(x, 0, v)
        /\ NoFooter!Get(g3, f - 4) = NTag(0, 1, 0)
        /\ \A w : w # e - 4 /\ w # f - 8 /\ w # f - 4 => NoFooter!Get(g3, w) = NoFooter!Get(h, w)
    <3>1. e - 4 # f - 4 /\ f - 8 # f - 4
      BY <2>2
    <3> HIDE DEF e, f, v
    <3>2. /\ g3 \in NHeaps /\ g3.brk = g2.brk
          /\ NoFooter!Get(g3, f - 4) = NTag(0, 1, 0)
          /\ \A w : w # f - 4 => NoFooter!Get(g3, w) = NoFooter!Get(g2, w)
      BY <2>3, <2>5, <2>6, NPut
    <3> HIDE DEF g3
    <3> QED
      BY <2>5, <3>1, <3>2
  <2>8. r = NoFooter!Coalesce(g3, e)
    <3>1. NoFooter!PutFree(g1, e, x, v) = g2
      <4>1. /\ x \in 0 .. UINT_MOD - 1 /\ e \in Int /\ v \in {0, 1} /\ e - 4 \in NoFooter!Words
            /\ g1 \in NHeaps
        BY <1>1, <2>4, Widths
      <4> HIDE DEF e, v
      <4>2. NFreed(g1, e, x, v)
        BY <4>1, NPutFree
      <4> QED
        BY <4>2 DEF g2, NFreed
    <3>2. NoFooter!Hdrp(NoFooter!Next_(g2, e)) = f - 4
      BY <2>5, NMacros DEF NNext, NHdr, NTag
    <3>3. NoFooter!PrevAlloc(h, e) = v
      BY NMacros DEF NoFooter!PrevAlloc, NHdr
    <3> QED
      BY <1>3, <1>5, <2>1, <2>6, <3>1, <3>2, <3>3 DEF NoFooter!ExtendHeap, NoFooter!PutHdr, g1
  <2> HIDE DEF g3
  <2>9. \A b \in B : /\ b \in Nat /\ b < e /\ NHdr(g3, b) = NHdr(h, b)
                     /\ NNext(h, b) \in Nat /\ NNext(h, b) <= e /\ NNext(g3, b) = NNext(h, b)
                     /\ NNext(h, b) \in B \cup {e}
                     /\ NFooted(g3, b) <=> NFooted(h, b)
    <3> SUFFICES ASSUME NEW b \in B
                 PROVE  /\ b \in Nat /\ b < e /\ NHdr(g3, b) = NHdr(h, b)
                        /\ NNext(h, b) \in Nat /\ NNext(h, b) <= e /\ NNext(g3, b) = NNext(h, b)
                        /\ NNext(h, b) \in B \cup {e}
                        /\ NFooted(g3, b) <=> NFooted(h, b)
      OBVIOUS
    <3>1. b \in Nat /\ b < e /\ NNext(h, b) \in Nat /\ NNext(h, b) <= e /\ NNext(h, b) \in B \cup {e}
      BY <1>1, NBlock
    <3> DEFINE n == NNext(h, b)
    <3> HIDE DEF e, f, n, v
    <3>2. b - 4 # e - 4 /\ b - 4 # f - 8 /\ b - 4 # f - 4
      BY <2>2, <3>1
    <3>3. n - 8 # e - 4 /\ n - 8 # f - 8 /\ n - 8 # f - 4
      BY <2>2, <3>1 DEF n
    <3>4. NHdr(g3, b) = NHdr(h, b)
      BY <2>7, <3>2 DEF NHdr
    <3>5. NNext(g3, b) = n
      BY <3>4 DEF NNext, n
    <3> QED
      BY <2>7, <3>1, <3>3, <3>4, <3>5 DEF NFooted, n
  <2>10. /\ NHdr(g3, e) = NTag(x, 0, v) /\ NHdr(g3, f) = NTag(0, 1, 0) /\ NNext(g3, e) = f
         /\ NFooted(g3, e) /\ NHdr(g3, e).prev = NHdr(h, e).prev
    BY <2>7 DEF NHdr, NNext, NTag, NFooted
  <2>11. NList(g3, C)
    <3>1. Tiles(C, f, NLinks(g3, C))
      <4>1. Aligned(f)
        BY <2>2 DEF Aligned
      <4>2. Extends(C, NLinks(h, B), e, f, NLinks(g3, C))
        <5> SUFFICES ASSUME NEW b \in C
                     PROVE  NLinks(g3, C)[b] = IF b = e THEN f ELSE NLinks(h, B)[b]
          BY DEF Extends
        <5>1. NLinks(g3, C)[b] = NNext(g3, b)
          BY DEF NLinks
        <5>2. CASE b = e
          BY <2>10, <5>1, <5>2
        <5>3. CASE b # e
          <6>1. b \in B /\ NLinks(h, B)[b] = NNext(h, b)
            BY <5>3 DEF NLinks
          <6> QED
            BY <2>9, <5>1, <5>3, <6>1
        <5> QED
          BY <5>2, <5>3
      <4>3. e < f
        BY <2>2
      <4> HIDE DEF e, f, C
      <4>4. C = B \cup {e}
        BY DEF C
      <4> QED
        BY <1>1, <4>1, <4>2, <4>3, <4>4, ExtendTiles
    <3>2. ASSUME NEW b \in C
          PROVE  /\ NHdr(g3, b).alloc \in {0, 1} /\ NHdr(g3, b).prev \in {0, 1}
                 /\ NHdr(g3, b).alloc = 0 => NFooted(g3, b)
      <4>1. CASE b = e
        BY <1>1, <2>10, <4>1 DEF NTag
      <4>2. CASE b # e
        BY <1>1, <2>9, <4>2 DEF NList
      <4> QED
        BY <4>1, <4>2
    <3>3. NHdr(g3, 8).size = 8 /\ NHdr(g3, 8).alloc = 1
      BY <1>1, <2>9 DEF NList
    <3>4. /\ NHdr(g3, f).size = 0 /\ NHdr(g3, f).alloc = 1 /\ NHdr(g3, f).alloc \in {0, 1}
          /\ NHdr(g3, f).prev \in {0, 1}
      BY <2>10 DEF NTag
    <3> QED
      BY <2>7, <3>1, <3>2, <3>3, <3>4 DEF NList
  <2>12. e \in C \ {8} /\ e \notin P /\ P \subseteq B \ {8} /\ e \notin B
    BY <1>1 DEF NSafe
  <2>13. NSafe(g3, C, P)
    <3>1. ASSUME NEW y \in C \cup {f}, y # 8, NHdr(g3, y).prev = 0
          PROVE  NReached(g3, C, P, y)
      <4>1. CASE y = f
        BY <2>10, <2>12, <4>1 DEF NReached
      <4>2. CASE y \in C /\ y # f
        <5>1. NHdr(h, y).prev = 0
          BY <2>9, <2>10, <3>1, <4>2
        <5>2. PICK b \in B \ {8} : NNext(h, b) = y /\ NFooted(h, b) /\ b \notin P
          BY <3>1, <4>2, <5>1 DEF NSafe, NReached
        <5> QED
          BY <2>9, <5>2 DEF NReached
      <4> QED
        BY <3>1, <4>1, <4>2
    <3>2. ASSUME NEW p \in P
          PROVE  /\ p \in C \ {8} /\ NHdr(g3, p).alloc = 1
                 /\ NHdr(g3, NNext(g3, p)).prev = 1
      <4>1. p \in B \ {8} /\ NHdr(h, p).alloc = 1 /\ NHdr(h, NNext(h, p)).prev = 1
        BY DEF NSafe
      <4>2. NNext(g3, p) = NNext(h, p) /\ NNext(h, p) \in B \cup {e} /\ NHdr(g3, p) = NHdr(h, p)
        BY <2>9, <4>1
      <4>3. NHdr(g3, NNext(h, p)).prev = NHdr(h, NNext(h, p)).prev
        <5> DEFINE n == NNext(h, p)
        <5>1. n \in B => NHdr(g3, n) = NHdr(h, n)
          BY <2>9
        <5> HIDE DEF n
        <5> QED
          BY <2>10, <4>2, <5>1 DEF n
      <4> QED
        BY <4>1, <4>2, <4>3
    <3> QED
      BY <2>7, <2>11, <3>1, <3>2 DEF NSafe
  <2>14. NKept(h, g3, P)
    BY <2>9, <2>12 DEF NKept
  <2>15. NHdr(g3, e).alloc = 0 /\ NHdr(g3, e).size = x
    BY <2>10 DEF NTag
  <2>16. PICK D : /\ NSafe(r[1], D, P) /\ NKept(g3, r[1], P)
                  /\ r[2] \in D \ {8} /\ r[2] \notin P /\ NHdr(r[1], r[2]).alloc = 0
                  /\ NHdr(g3, e).size <= NHdr(r[1], r[2]).size
    <3> HIDE DEF e, C
    <3> QED
      BY <2>8, <2>12, <2>13, <2>15, NCoalesce
  <2>17. NKept(h, r[1], P)
    BY <2>14, <2>16 DEF NKept
  <2> QED
    BY <2>15, <2>16, <2>17
<1> QED
  BY <1>4, <1>5

-----------------------------------------------------------------------------
(* mm_init, place and find_fit of the allocator without footers *)

LEMMA NInitialised ==
  ASSUME NEW r, r = NoFooter!Initialised
  PROVE  \E C : NSafe(r, C, {})
<1> DEFINE g1 == [NoFooter!EmptyHeap EXCEPT !.brk = 16]
           g2 == NoFooter!Put(NoFooter!Put(g1, 4, NTag(8, 1, 1)), 8, NTag(8, 1, 1))
           g3 == NoFooter!Put(g2, 12, NTag(0, 1, 1))
           B  == {8}
<1>1. g1 \in NHeaps /\ g1.brk = 16
  <2>1. NoFooter!Junk \in Tags
    BY Widths DEF NoFooter!Junk, Tags
  <2>2. 16 \in 0 .. NO_FOOTER_HEAP /\ 0 \in 0 .. NO_FOOTER_HEAP
    BY Widths
  <2> QED
    BY <2>1, <2>2 DEF NoFooter!EmptyHeap, NHeaps
<1>2. 4 \in NoFooter!Words /\ 8 \in NoFooter!Words /\ 12 \in NoFooter!Words
  BY Widths, NWords
<1>3. 8 \in 0 .. UINT_MOD - 1 /\ 0 \in 0 .. UINT_MOD - 1 /\ 1 \in {0, 1}
  BY Widths
<1>4. /\ NoFooter!Tag(0, 1, 1) = NTag(0, 1, 1) /\ NTag(0, 1, 1) \in Tags
      /\ NoFooter!Tag(8, 1, 1) = NTag(8, 1, 1) /\ NTag(8, 1, 1) \in Tags
  BY <1>3, NTagged
<1>5. r = NoFooter!ExtendHeap(g3, CHUNKSIZE \div 4)[1]
  BY <1>4, NConstants DEF NoFooter!Initialised
<1> HIDE DEF g1
<1>7. NStored(g1, g2, 4, NTag(8, 1, 1), 8, NTag(8, 1, 1))
  BY <1>1, <1>2, <1>4, NPutTwo
<1> HIDE DEF g2
<1>8. /\ g3 \in NHeaps /\ g3.brk = 16
      /\ NoFooter!Get(g3, 4) = NTag(8, 1, 1) /\ NoFooter!Get(g3, 8) = NTag(8, 1, 1)
      /\ NoFooter!Get(g3, 12) = NTag(0, 1, 1)
  <2>1. /\ g2 \in NHeaps /\ g2.brk = 16
        /\ NoFooter!Get(g2, 4) = NTag(8, 1, 1) /\ NoFooter!Get(g2, 8) = NTag(8, 1, 1)
    BY <1>1, <1>7 DEF NStored
  <2> QED
    BY <1>2, <1>4, <2>1, NPut
<1> HIDE DEF g3
<1>9. NHdr(g3, 8) = NTag(8, 1, 1) /\ NHdr(g3, 16) = NTag(0, 1, 1) /\ NNext(g3, 8) = 16
  BY <1>8 DEF NHdr, NNext, NTag
<1>10. Tiles(B, 16, NLinks(g3, B))
  BY <1>9, NConstants DEF Tiles, NLinks, Aligned
<1>11. NList(g3, B)
  BY <1>8, <1>9, <1>10 DEF NList, NTag
<1>12. NSafe(g3, B, {})
  BY <1>8, <1>9, <1>11 DEF NSafe, NTag
<1> HIDE DEF B
<1>13. CHUNKSIZE \in Nat /\ CHUNKSIZE % 8 = 0 /\ 8 <= CHUNKSIZE /\ CHUNKSIZE < UINT_MOD
  BY Widths
<1> DEFINE x == NoFooter!ExtendHeap(g3, CHUNKSIZE \div 4)
<1>14. \/ x = <<g3, 0>>
       \/ \E C : NSafe(x[1], C, {})
  <2>1. x = NoFooter!ExtendHeap(g3, CHUNKSIZE \div 4)
    OBVIOUS
  <2> HIDE DEF x
  <2> QED
    BY <1>12, <1>13, <2>1, NExtend
<1>15. r = x[1]
  BY <1>5
<1> HIDE DEF x
<1> QED
  BY <1>12, <1>14, <1>15

(* The whole of the free block bp is handed out: its header, and that of the  *)
(* block after it.                                                            *)
LEMMA NWhole ==
  ASSUME NEW h, NEW B, NEW P, NSafe(h, B, P), NEW bp \in B \ {8}, NHdr(h, bp).alloc = 0,
         NEW g, NStored(h, g, bp - 4, NTag(NHdr(h, bp).size, 1, NHdr(h, bp).prev),
                        NNext(h, bp) - 4, NTag(NHdr(h, NNext(h, bp)).size, 1, 1))
  PROVE  /\ NSafe(g, B, P \cup {bp}) /\ NKept(h, g, P) /\ g.brk = h.brk
         /\ NHdr(g, bp).size = NHdr(h, bp).size
<1> DEFINE q == NNext(h, bp)
           s == NHdr(h, bp).size
           v == NHdr(h, bp).prev
<1>1. /\ NList(h, B) /\ h \in NHeaps /\ 8 \in B /\ Tiles(B, h.brk, NLinks(h, B))
      /\ q \in B \cup {h.brk} /\ q # 8 /\ q # bp /\ q \in Nat /\ bp \in Nat
      /\ v \in {0, 1}
      /\ \A x \in B \cup {h.brk} : x \in Nat /\ x % 8 = 0
  <2>1. NList(h, B) /\ h \in NHeaps /\ 8 \in B /\ Tiles(B, h.brk, NLinks(h, B)) /\ v \in {0, 1}
    BY NBlock DEF NSafe, NList
  <2>2. \A x \in B \cup {h.brk} : x \in Nat /\ x % 8 = 0
    BY <2>1, NBlock DEF Tiles, Aligned
  <2>3. q \in B \cup {h.brk} /\ bp < q /\ 8 <= bp
    BY <2>1, NBlock, NNeighbours
  <2> HIDE DEF q
  <2> QED
    BY <2>1, <2>2, <2>3
<1>2. /\ g \in NHeaps /\ g.brk = h.brk
      /\ NoFooter!Get(g, bp - 4) = NTag(s, 1, v) /\ NoFooter!Get(g, q - 4) = NTag(NHdr(h, q).size, 1, 1)
      /\ \A w : w # bp - 4 /\ w # q - 4 => NoFooter!Get(g, w) = NoFooter!Get(h, w)
  BY DEF NStored
<1> HIDE DEF q
<1>3. /\ NHdr(g, bp).size = s /\ NHdr(g, bp).alloc = 1 /\ NHdr(g, bp).prev = v
      /\ NHdr(g, q).size = NHdr(h, q).size /\ NHdr(g, q).alloc = 1 /\ NHdr(g, q).prev = 1
  BY <1>2 DEF NHdr, NTag
<1> HIDE DEF s, v
<1>4. \A x \in Int : /\ x # bp /\ x # q => NHdr(g, x) = NHdr(h, x)
                     /\ x % 8 = 0 => NoFooter!Get(g, x - 8) = NoFooter!Get(h, x - 8)
  <2> TAKE x \in Int
  <2>1. x # bp /\ x # q => x - 4 # bp - 4 /\ x - 4 # q - 4
    BY <1>1
  <2>2. x % 8 = 0 => x - 8 # bp - 4 /\ x - 8 # q - 4
    BY <1>1
  <2> QED
    BY <1>2, <2>1, <2>2 DEF NHdr
<1>5. \A x \in B \cup {h.brk} : /\ NHdr(g, x).size = NHdr(h, x).size
                                /\ x # q => NHdr(g, x).prev = NHdr(h, x).prev
                                /\ x # bp /\ x # q => NHdr(g, x) = NHdr(h, x)
  BY <1>1, <1>3, <1>4 DEF s, v
<1>6. \A x \in B : NNext(g, x) = NNext(h, x) /\ (NFooted(g, x) <=> NFooted(h, x))
  <2> TAKE x \in B
  <2> DEFINE n == NNext(h, x)
  <2>1. NNext(g, x) = n /\ NHdr(g, x).size = NHdr(h, x).size
    BY <1>5 DEF NNext
  <2>2. n \in Int /\ n % 8 = 0
    BY <1>1, NBlock
  <2> HIDE DEF n
  <2>3. NoFooter!Get(g, n - 8) = NoFooter!Get(h, n - 8)
    BY <1>4, <2>2
  <2> QED
    BY <2>1, <2>3 DEF NFooted, n
<1>7. NList(g, B)
  <2>1. NLinks(g, B) = NLinks(h, B)
    BY <1>6 DEF NLinks
  <2>2. \A x \in B \cup {h.brk} : NHdr(g, x).alloc \in {0, 1} /\ NHdr(g, x).prev \in {0, 1}
    <3> TAKE x \in B \cup {h.brk}
    <3>1. NHdr(h, x).alloc \in {0, 1} /\ NHdr(h, x).prev \in {0, 1}
      BY <1>1 DEF NList
    <3> QED
      BY <1>1, <1>3, <1>5, <3>1
  <2>3. \A x \in B : NHdr(g, x).alloc = 0 => NFooted(g, x)
    <3> TAKE x \in B
    <3> HAVE NHdr(g, x).alloc = 0
    <3>1. NHdr(h, x).alloc = 0
      BY <1>3, <1>5
    <3> QED
      BY <1>1, <1>6, <3>1 DEF NList
  <2>4. /\ NHdr(g, h.brk).size = 0 /\ NHdr(g, h.brk).alloc = 1
        /\ NHdr(g, 8).size = 8 /\ NHdr(g, 8).alloc = 1
    <3>1. /\ NHdr(h, h.brk).size = 0 /\ NHdr(h, h.brk).alloc = 1
          /\ NHdr(h, 8).size = 8 /\ NHdr(h, 8).alloc = 1
      BY <1>1 DEF NList
    <3> QED
      BY <1>1, <1>3, <1>5, <3>1
  <2> QED
    BY <1>1, <1>2, <2>1, <2>2, <2>3, <2>4 DEF NList
<1>8. ASSUME NEW x \in B \cup {g.brk}, x # 8, NHdr(g, x).prev = 0
      PROVE  NReached(g, B, P \cup {bp}, x)
  <2>1. x # q /\ NHdr(h, x).prev = 0
    BY <1>2, <1>3, <1>5, <1>8
  <2>2. PICK b \in B \ {8} : NNext(h, b) = x /\ NFooted(h, b) /\ b \notin P
    BY <1>2, <1>8, <2>1 DEF NSafe, NReached
  <2>3. b # bp
    BY <2>1, <2>2 DEF q
  <2> QED
    BY <1>6, <2>2, <2>3 DEF NReached
<1>9. ASSUME NEW p \in P \cup {bp}
      PROVE  /\ p \in B \ {8} /\ NHdr(g, p).alloc = 1 /\ NHdr(g, NNext(g, p)).prev = 1
  <2>1. CASE p = bp
    BY <1>3, <1>6, <2>1 DEF q
  <2>2. CASE p \in P
    <3>1. p \in B \ {8} /\ NHdr(h, p).alloc = 1 /\ NHdr(h, NNext(h, p)).prev = 1
      BY <2>2 DEF NSafe
    <3>2. NHdr(g, p).alloc = 1
      BY <1>3, <1>5, <3>1
    <3>3. NNext(h, p) \in B \cup {h.brk} /\ NNext(g, p) = NNext(h, p)
      BY <1>1, <1>6, <3>1, NBlock
    <3>4. NHdr(g, NNext(h, p)).prev = 1
      BY <1>3, <1>5, <3>1, <3>3
    <3> QED
      BY <3>1, <3>2, <3>3, <3>4
  <2> QED
    BY <2>1, <2>2
<1>10. NSafe(g, B, P \cup {bp})
  BY <1>7, <1>8, <1>9 DEF NSafe
<1>11. NKept(h, g, P)
  BY <1>5 DEF NKept, NSafe
<1> QED
  BY <1>2, <1>3, <1>10, <1>11 DEF s

(* The free block bp is cut in two: an allocated block of n bytes, a free rest. *)
NFrontHdr(h, bp, n) == NoFooter!Put(h, bp - 4, NTag(n, 1, NHdr(h, bp).prev))

NCutOff(h, bp, n, m, q, f, g) ==
    /\ n \in Nat /\ n % 8 = 0 /\ 8 <= n /\ m + 8 <= q
    /\ m = bp + n /\ q = NNext(h, bp) /\ f = NFrontHdr(h, bp, n)
    /\ NStored(f, g, m - 4, NTag(q - m, 0, 1), q - 8, NTag(q - m, 0, 1))

LEMMA NSplit ==
  ASSUME NEW h, NEW B, NEW P, NSafe(h, B, P), NEW bp \in B \ {8}, NHdr(h, bp).alloc = 0,
         NEW n, NEW m, NEW q, NEW f, NEW g, NCutOff(h, bp, n, m, q, f, g),
         NEW C, C = B \cup {m}
  PROVE  /\ NSafe(g, C, P \cup {bp}) /\ NKept(h, g, P) /\ g.brk = h.brk
         /\ NHdr(g, bp).size = n
<1> DEFINE L == NLinks(h, B)
           M == NLinks(g, C)
           v == NHdr(h, bp).prev
<1>0. /\ m = bp + n /\ q = NNext(h, bp) /\ f = NFrontHdr(h, bp, n)
      /\ n \in Nat /\ n % 8 = 0 /\ 8 <= n /\ m + 8 <= q
      /\ NStored(f, g, m - 4, NTag(q - m, 0, 1), q - 8, NTag(q - m, 0, 1))
  BY DEF NCutOff
<1>1. /\ NList(h, B) /\ bp \in Nat /\ bp % 8 = 0 /\ 8 <= bp /\ bp - 4 \in NoFooter!Words
      /\ q \in Nat /\ q % 8 = 0 /\ q <= h.brk /\ h.brk \in 16 .. NO_FOOTER_HEAP /\ h.brk % 8 = 0
      /\ q \in B \cup {h.brk}
      /\ h \in NHeaps /\ Tiles(B, h.brk, L) /\ 8 \in B /\ L[bp] = q /\ v \in {0, 1}
  <2>1. NList(h, B) /\ h \in NHeaps /\ Tiles(B, h.brk, L) /\ L[bp] = q /\ v \in {0, 1}
    BY <1>0 DEF NSafe, NList, NLinks
  <2> HIDE DEF L, v
  <2> QED
    BY <1>0, <2>1, NBlock
<1>2. m \in Nat /\ m % 8 = 0 /\ bp < m /\ m < q
  <2>1. bp \in Int /\ n \in Int
    BY <1>0, <1>1
  <2>2. (bp + n) % 8 = 0
    BY <1>0, <1>1, <2>1, Eights
  <2> QED
    BY <1>0, <1>1, <2>2
<1>4. n \in 0 .. UINT_MOD - 1 /\ 1 \in {0, 1}
  BY <1>0, <1>1, <1>2, Widths
<1>5. /\ f \in NHeaps /\ f.brk = h.brk /\ NoFooter!Get(f, bp - 4) = NTag(n, 1, v)
      /\ \A w : w # bp - 4 => NoFooter!Get(f, w) = NoFooter!Get(h, w)
  <2>1. NTag(n, 1, v) \in Tags
    <3>1. v \in {0, 1}
      BY <1>1
    <3> HIDE DEF v
    <3> QED
      BY <1>4, <3>1, NTagged
  <2>2. f = NoFooter!Put(h, bp - 4, NTag(n, 1, v))
    BY <1>0 DEF NFrontHdr
  <2> HIDE DEF v
  <2> QED
    BY <1>1, <2>1, <2>2, NPut
<1>6. /\ g \in NHeaps /\ g.brk = h.brk
      /\ NoFooter!Get(g, m - 4) = NTag(q - m, 0, 1) /\ NoFooter!Get(g, q - 8) = NTag(q - m, 0, 1)
      /\ \A w : w # m - 4 /\ w # q - 8 => NoFooter!Get(g, w) = NoFooter!Get(f, w)
  BY <1>0, <1>5 DEF NStored
<1> HIDE DEF v, L, M
<1>7. NHdr(g, bp) = NTag(n, 1, v) /\ NHdr(g, m) = NTag(q - m, 0, 1)
  <2>1. bp - 4 # m - 4 /\ bp - 4 # q - 8
    BY <1>1, <1>2
  <2> QED
    BY <1>5, <1>6, <2>1 DEF NHdr
<1>8. /\ NNext(g, bp) = m /\ NNext(g, m) = q /\ NFooted(g, m)
      /\ NHdr(g, bp).size = n /\ NHdr(g, bp).alloc = 1 /\ NHdr(g, bp).prev = v
      /\ NHdr(g, m).size = q - m /\ NHdr(g, m).alloc = 0 /\ NHdr(g, m).prev = 1
  <2>1. /\ NHdr(g, bp).size = n /\ NHdr(g, bp).alloc = 1 /\ NHdr(g, bp).prev = v
        /\ NHdr(g, m).size = q - m /\ NHdr(g, m).alloc = 0 /\ NHdr(g, m).prev = 1
    BY <1>7 DEF NTag
  <2>2. NNext(g, bp) = m /\ NNext(g, m) = q
    BY <1>0, <1>1, <1>2, <2>1 DEF NNext
  <2> QED
    BY <1>0, <1>6, <1>7, <2>1, <2>2 DEF NFooted, NTag
<1>9. m \notin B /\ m # h.brk /\ m # 8
  <2>1. \A x \in B : x < L[bp] => x <= bp
    BY <1>1, TilesApart
  <2> QED
    BY <1>1, <1>2, <2>1
<1>10. \A x \in Int : x % 8 = 0 =>
          /\ x # bp /\ x # m => NHdr(g, x) = NHdr(h, x)
          /\ x # q => NoFooter!Get(g, x - 8) = NoFooter!Get(h, x - 8)
  <2> TAKE x \in Int
  <2> HAVE x % 8 = 0
  <2>1. x # bp /\ x # m => x - 4 # bp - 4 /\ x - 4 # m - 4 /\ x - 4 # q - 8
    BY <1>1, <1>2
  <2>2. x # q => x - 8 # bp - 4 /\ x - 8 # m - 4 /\ x - 8 # q - 8
    BY <1>1, <1>2
  <2> QED
    BY <1>5, <1>6, <2>1, <2>2 DEF NHdr
<1>11. ASSUME NEW x \in B, x # bp
       PROVE  /\ NHdr(g, x) = NHdr(h, x) /\ NNext(g, x) = NNext(h, x)
              /\ NFooted(g, x) <=> NFooted(h, x)
              /\ NNext(h, x) \in B \cup {h.brk} /\ NNext(h, x) # q
  <2> DEFINE k == NNext(h, x)
  <2>1. x \in Nat /\ x % 8 = 0 /\ k \in Nat /\ k % 8 = 0 /\ k \in B \cup {h.brk} /\ k # q
    BY <1>0, <1>1, <1>11, NBlock, NNeighbours
  <2> HIDE DEF k
  <2>2. NHdr(g, x) = NHdr(h, x) /\ NoFooter!Get(g, k - 8) = NoFooter!Get(h, k - 8)
    BY <1>9, <1>10, <1>11, <2>1
  <2> QED
    BY <2>1, <2>2 DEF k, NNext, NFooted
<1>12. Tiles(C, h.brk, M)
  <2>1. Splits(C, L, bp, m, M)
    <3> SUFFICES ASSUME NEW x \in C
                 PROVE  M[x] = IF x = bp THEN m ELSE IF x = m THEN L[bp] ELSE L[x]
      BY DEF Splits
    <3>1. M[x] = NNext(g, x) /\ (x \in B => L[x] = NNext(h, x))
      BY DEF NLinks, L, M
    <3>2. x \in B \/ x = m
      OBVIOUS
    <3> QED
      BY <1>1, <1>8, <1>9, <1>11, <3>1, <3>2
  <2>2. Aligned(m)
    BY <1>2 DEF Aligned
  <2> QED
    BY <1>1, <1>2, <2>1, <2>2, SplitTiles
<1>13. NHdr(g, h.brk) = NHdr(h, h.brk) /\ NHdr(g, 8) = NHdr(h, 8)
  <2>1. h.brk # bp /\ h.brk # m /\ h.brk \in Int
    BY <1>1, <1>2
  <2> QED
    BY <1>1, <1>10, <1>11, <2>1
<1>14. NList(g, C)
  <2>1. \A x \in C : /\ NHdr(g, x).alloc \in {0, 1} /\ NHdr(g, x).prev \in {0, 1}
                     /\ NHdr(g, x).alloc = 0 => NFooted(g, x)
    <3> TAKE x \in C
    <3>1. CASE x = bp
      BY <1>1, <1>8, <3>1
    <3>2. CASE x = m
      BY <1>8, <3>2
    <3>3. CASE x \in B /\ x # bp
      BY <1>1, <1>11, <3>3 DEF NList
    <3> QED
      BY <3>1, <3>2, <3>3
  <2>2. /\ NHdr(h, h.brk).size = 0 /\ NHdr(h, h.brk).alloc = 1
        /\ NHdr(h, h.brk).alloc \in {0, 1} /\ NHdr(h, h.brk).prev \in {0, 1}
        /\ NHdr(h, 8).size = 8 /\ NHdr(h, 8).alloc = 1
    BY <1>1 DEF NList
  <2> QED
    BY <1>6, <1>12, <1>13, <2>1, <2>2 DEF NList, M
<1>15. bp \notin P
  BY DEF NSafe
<1>16. ASSUME NEW x \in C \cup {g.brk}, x # 8, NHdr(g, x).prev = 0
       PROVE  NReached(g, C, P \cup {bp}, x)
  <2>1. x \in B \cup {h.brk} /\ x # m
    BY <1>6, <1>8, <1>16
  <2>2. NHdr(h, x).prev = 0
    BY <1>8, <1>11, <1>13, <1>16, <2>1 DEF v
  <2>3. PICK b \in B \ {8} : NNext(h, b) = x /\ NFooted(h, b) /\ b \notin P
    BY <1>16, <2>1, <2>2 DEF NSafe, NReached
  <2>4. CASE b = bp
    <3>1. x = q /\ m \in C \ {8} /\ m \notin P \cup {bp}
      <4>1. m \notin P
        BY <1>9 DEF NSafe
      <4> QED
        BY <1>0, <1>1, <1>2, <1>9, <2>3, <2>4, <4>1
    <3> QED
      BY <1>8, <3>1 DEF NReached
  <2>5. CASE b # bp
    BY <1>11, <2>3, <2>5 DEF NReached
  <2> QED
    BY <2>4, <2>5
<1>17. ASSUME NEW p \in P
       PROVE  /\ p \in C \ {8} /\ NHdr(g, p) = NHdr(h, p) /\ NHdr(h, p).alloc = 1
              /\ NHdr(g, NNext(g, p)).prev = 1
  <2>1. p \in B \ {8} /\ NHdr(h, p).alloc = 1 /\ NHdr(h, NNext(h, p)).prev = 1 /\ p # bp
    BY <1>15 DEF NSafe
  <2>2. /\ NHdr(g, p) = NHdr(h, p) /\ NNext(g, p) = NNext(h, p)
        /\ NNext(h, p) \in B \cup {h.brk}
    BY <1>11, <2>1
  <2>3. NHdr(g, NNext(h, p)).prev = 1
    BY <1>8, <1>11, <1>13, <2>1, <2>2 DEF v
  <2> QED
    BY <2>1, <2>2, <2>3
<1>18. NSafe(g, C, P \cup {bp})
  BY <1>8, <1>14, <1>16, <1>17 DEF NSafe
<1> QED
  BY <1>6, <1>8, <1>17, <1>18 DEF NKept

LEMMA NPlace ==
  ASSUME NEW h, NEW B, NEW P, NSafe(h, B, P), NEW bp \in B \ {8}, NHdr(h, bp).alloc = 0,
         NEW asize \in Nat, asize % 8 = 0, 8 <= asize, asize <= NHdr(h, bp).size,
         NEW g, g = NoFooter!Place(h, bp, asize)
  PROVE  \E C : /\ NSafe(g, C, P \cup {bp}) /\ NKept(h, g, P) /\ g.brk = h.brk
                /\ bp \notin P /\ asize <= NHdr(g, bp).size
<1> DEFINE csize == NHdr(h, bp).size
           v     == NHdr(h, bp).prev
           rest  == csize - asize
           m     == bp + asize
           q     == NNext(h, bp)
           f     == NFrontHdr(h, bp, asize)
           w     == NoFooter!Put(h, bp - 4, NTag(csize, 1, v))
<1>1. /\ NList(h, B) /\ h \in NHeaps /\ bp \in Nat /\ csize \in Nat /\ q = bp + csize /\ q \in Nat
      /\ csize < UINT_MOD /\ bp - 4 \in NoFooter!Words /\ q \in B \cup {h.brk} /\ bp < q
      /\ q <= h.brk /\ h.brk \in 0 .. NO_FOOTER_HEAP /\ v \in {0, 1}
      /\ q - 4 \in NoFooter!Words /\ q - 8 \in NoFooter!Words /\ q % 8 = 0 /\ bp % 8 = 0 /\ 8 <= bp
  <2>1. NList(h, B) /\ h \in NHeaps /\ h.brk \in 0 .. NO_FOOTER_HEAP /\ v \in {0, 1}
    BY DEF NSafe, NList, NHeaps
  <2>2. csize \in 0 .. UINT_MOD - 1
    BY <2>1, NBlock DEF Tags
  <2>3. /\ bp \in Nat /\ q = bp + csize /\ q \in Nat /\ bp - 4 \in NoFooter!Words
        /\ q \in B \cup {h.brk} /\ q <= h.brk /\ bp + 8 <= q /\ h.brk - 4 \in NoFooter!Words
        /\ q - 8 \in NoFooter!Words /\ q % 8 = 0 /\ bp % 8 = 0 /\ 8 <= bp
    BY <2>1, NBlock
  <2>4. q \in B => q - 4 \in NoFooter!Words
    BY <2>1, NBlock
  <2> HIDE DEF csize, q, v
  <2> QED
    BY <2>1, <2>2, <2>3, <2>4, Widths
<1>2. rest \in Nat /\ rest % SIZE_MOD = rest /\ q - bp = csize /\ q - m = rest
  <2>1. rest \in Nat /\ rest < SIZE_MOD /\ q - bp = csize /\ q - m = rest
    BY <1>1, Widths
  <2> HIDE DEF rest
  <2> QED
    BY <2>1, Widths, ModSmall
<1>3. bp \notin P
  BY DEF NSafe
<1>4. /\ NoFooter!Size(h, bp) = csize /\ NoFooter!PrevAlloc(h, bp) = v /\ NoFooter!Hdrp(bp) = bp - 4
      /\ NoFooter!Hdrp(q) = q - 4 /\ NoFooter!DSIZE = 8
  BY NMacros, NConstants DEF NoFooter!PrevAlloc, NHdr
<1>5. CASE rest >= 8
  <2>1. m + 8 <= q /\ m \in Nat /\ m % 8 = 0 /\ bp < m
    <3>1. m + 8 <= q /\ m \in Nat /\ bp < m
      BY <1>1, <1>2, <1>5
    <3>2. bp \in Int /\ asize \in Int
      BY <1>1
    <3>3. (bp + asize) % 8 = 0
      BY <1>1, <3>2, Eights
    <3> QED
      BY <3>1, <3>3
  <2>2. m - 4 \in NoFooter!Words
    <3>1. m \in 8 .. NO_FOOTER_HEAP
      BY <1>1, <2>1, Widths
    <3> HIDE DEF m
    <3> QED
      BY <2>1, <3>1, NEightWords
  <2>3. /\ NTag(asize, 1, v) \in Tags /\ NoFooter!Tag(asize, 1, v) = NTag(asize, 1, v)
        /\ NTag(rest, 0, 1) \in Tags
    <3>1. asize \in 0 .. UINT_MOD - 1 /\ rest \in 0 .. UINT_MOD - 1
          /\ 0 \in {0, 1} /\ 1 \in {0, 1} /\ v \in {0, 1}
      BY <1>1, <1>2, Widths
    <3> HIDE DEF v, rest
    <3> QED
      BY <3>1, NTagged
  <2>4. /\ f \in NHeaps /\ NoFooter!Get(f, bp - 4) = NTag(asize, 1, v)
        /\ f = NoFooter!PutHdr(h, bp, asize, 1, v)
    <3>1. f = NoFooter!Put(h, bp - 4, NTag(asize, 1, v))
      BY DEF NFrontHdr
    <3>2. f = NoFooter!PutHdr(h, bp, asize, 1, v)
      BY <1>4, <2>3, <3>1 DEF NoFooter!PutHdr
    <3> HIDE DEF f, v
    <3> QED
      BY <1>1, <2>3, <3>1, <3>2, NPut
  <2>5. NoFooter!Next_(f, bp) = m
    <3>1. NHdr(f, bp).size = asize
      BY <2>4 DEF NHdr, NTag
    <3> HIDE DEF f
    <3> QED
      BY <3>1, NMacros DEF NNext
  <2>6. g = NoFooter!PutFree(f, m, rest, 1)
    BY <1>2, <1>4, <1>5, <2>4, <2>5 DEF NoFooter!Place
  <2> HIDE DEF f, m, q
  <2>7. NStored(f, g, m - 4, NTag(q - m, 0, 1), q - 8, NTag(q - m, 0, 1))
    <3>1. /\ m \in Int /\ rest \in 0 .. UINT_MOD - 1 /\ 1 \in {0, 1} /\ (m + rest) - 8 = q - 8
          /\ m - 4 # q - 8
      <4>1. m - 4 # q - 8
        <5>1. q % 8 = 0 /\ q \in Int
          BY <1>1 DEF q
        <5> QED
          BY <2>1, <5>1
      <4>2. (m + rest) - 8 = q - 8
        <5>1. q - m = rest /\ m \in Int /\ q \in Int
          BY <1>1, <1>2, <2>1
        <5> HIDE DEF rest
        <5> QED
          BY <5>1
      <4>3. rest \in 0 .. UINT_MOD - 1
        BY <1>1, <1>2, Widths
      <4> QED
        BY <2>1, <4>1, <4>2, <4>3
    <3> HIDE DEF rest
    <3>2. NFreed(f, m, rest, 1)
      BY <2>2, <2>4, <3>1, NPutFree
    <3>3. g = NoFooter!Put(NoFooter!Put(f, m - 4, NTag(rest, 0, 1)), q - 8, NTag(rest, 0, 1))
      BY <2>6, <3>1, <3>2, Zenon DEF NFreed
    <3>4. NStored(f, g, m - 4, NTag(rest, 0, 1), q - 8, NTag(rest, 0, 1))
      BY <1>1, <2>2, <2>3, <2>4, <3>1, <3>3, NPutTwo
    <3> QED
      BY <1>2, <3>4
  <2> DEFINE C == B \cup {m}
  <2>8. /\ NSafe(g, C, P \cup {bp}) /\ NKept(h, g, P) /\ g.brk = h.brk
        /\ NHdr(g, bp).size = asize
    <3>1. NCutOff(h, bp, asize, m, q, f, g) /\ C = B \cup {m}
      <4>1. m = bp + asize /\ q = NNext(h, bp) /\ f = NFrontHdr(h, bp, asize)
        BY DEF m, q, f
      <4> QED
        BY <2>1, <2>7, <4>1 DEF NCutOff
    <3> HIDE DEF C
    <3> QED
      BY <3>1, NSplit
  <2> QED
    BY <1>3, <2>8
<1>6. CASE ~(rest >= 8)
  <2> DEFINE z == NHdr(h, q).size
  <2>1. /\ NTag(csize, 1, v) \in Tags /\ NoFooter!Tag(csize, 1, v) = NTag(csize, 1, v)
        /\ NTag(z, 1, 1) \in Tags /\ NoFooter!Tag(z, 1, 1) = NTag(z, 1, 1)
    <3>1. csize \in 0 .. UINT_MOD - 1 /\ z \in 0 .. UINT_MOD - 1 /\ 1 \in {0, 1} /\ v \in {0, 1}
      BY <1>1, NGet, Widths DEF NHdr, Tags
    <3> HIDE DEF v, csize, z
    <3> QED
      BY <3>1, NTagged
  <2> HIDE DEF q
  <2>2. w \in NHeaps /\ NHdr(w, bp).size = csize /\ NHdr(w, q).size = z
        /\ w = NoFooter!PutHdr(h, bp, csize, 1, v)
    <3>1. w = NoFooter!PutHdr(h, bp, csize, 1, v)
      BY <1>4, <2>1 DEF NoFooter!PutHdr
    <3>2. q - 4 # bp - 4
      BY <1>1
    <3>3. w = NoFooter!Put(h, bp - 4, NTag(csize, 1, v))
      OBVIOUS
    <3> HIDE DEF w, csize, v, z
    <3>4. /\ w \in NHeaps /\ NoFooter!Get(w, bp - 4) = NTag(csize, 1, v)
          /\ NoFooter!Get(w, q - 4) = NoFooter!Get(h, q - 4)
      BY <1>1, <2>1, <3>2, <3>3, NPut
    <3> QED
      BY <3>1, <3>4 DEF NHdr, NTag, z
  <2> HIDE DEF w
  <2>3. NoFooter!Next_(w, bp) = q /\ NoFooter!Size(w, q) = z
    <3>1. NNext(w, bp) = q
      BY <1>1, <2>2 DEF NNext
    <3> QED
      BY <2>2, <3>1, NMacros
  <2>4. g = NoFooter!PutHdr(w, q, z, 1, 1)
    BY <1>2, <1>4, <1>6, <2>2, <2>3 DEF NoFooter!Place
  <2>5. g = NoFooter!Put(NoFooter!Put(h, bp - 4, NTag(csize, 1, v)), q - 4, NTag(z, 1, 1))
    BY <1>4, <2>1, <2>4 DEF NoFooter!PutHdr, w
  <2>6. NStored(h, g, bp - 4, NTag(csize, 1, v), q - 4, NTag(z, 1, 1))
    <3>1. bp - 4 # q - 4
      BY <1>1
    <3> HIDE DEF csize, v, z
    <3> QED
      BY <1>1, <2>1, <2>5, <3>1, NPutTwo
  <2>7. NStored(h, g, bp - 4, NTag(NHdr(h, bp).size, 1, NHdr(h, bp).prev),
                NNext(h, bp) - 4, NTag(NHdr(h, NNext(h, bp)).size, 1, 1))
    BY <2>6 DEF q
  <2>8. /\ NSafe(g, B, P \cup {bp}) /\ NKept(h, g, P) /\ g.brk = h.brk
        /\ NHdr(g, bp).size = NHdr(h, bp).size
    BY <2>7, NWhole
  <2> QED
    BY <1>3, <2>8
<1> QED
  BY <1>5, <1>6

(* The client's writes may reach the footer of its own block, no other word   *)
(* of the list.                                                               *)
LEMMA NWritten ==
  ASSUME NEW h, NEW B, NEW P, NSafe(h, B, P), NEW bp \in P,
         NEW size \in Nat, size + 4 <= NHdr(h, bp).size,
         NEW g, g = NoFooter!Written(h, bp, size)
  PROVE  NSafe(g, B, P) /\ g.brk = h.brk /\ \A b \in B : NHdr(g, b) = NHdr(h, b)
<1> DEFINE q == NNext(h, bp)
<1>1. /\ NList(h, B) /\ h \in NHeaps /\ bp \in Nat /\ q \in Nat /\ bp + size + 4 <= q
      /\ q <= h.brk /\ h.brk \in Nat /\ bp \in B \ {8} /\ NHdr(h, bp).alloc = 1
      /\ h.brk % 8 = 0
  <2>1. /\ NList(h, B) /\ h \in NHeaps /\ h.brk \in Nat /\ bp \in B \ {8}
        /\ NHdr(h, bp).alloc = 1
    BY DEF NSafe, NList, NHeaps
  <2>2. /\ bp \in Nat /\ q \in Nat /\ q <= h.brk /\ q = bp + NHdr(h, bp).size
        /\ NHdr(h, bp).size \in Nat /\ h.brk % 8 = 0
    BY <2>1, NBlock
  <2> HIDE DEF q
  <2> QED
    BY <2>1, <2>2
<1>2. /\ g \in NHeaps /\ g.brk = h.brk
      /\ \A w : w \in NoFooter!Words /\ ~(bp <= w /\ w < bp + size) => NoFooter!Get(g, w) = NoFooter!Get(h, w)
      /\ \A w : w \notin NoFooter!Words => NoFooter!Get(g, w) = NoFooter!Get(h, w)
  <2>1. NoFooter!Junk \in Tags
    BY Widths DEF NoFooter!Junk, Tags
  <2>2. g = [h EXCEPT !.mem = [p \in NoFooter!Words |->
                                  IF bp <= p /\ p < bp + size THEN NoFooter!Junk ELSE h.mem[p]]]
    BY <1>1 DEF NoFooter!Written, NHeaps
  <2>3. /\ g.mem = [p \in NoFooter!Words |->
                       IF bp <= p /\ p < bp + size THEN NoFooter!Junk ELSE h.mem[p]]
        /\ g.brk = h.brk
    BY <1>1, <2>2 DEF NHeaps
  <2>4. g \in NHeaps
    <3>1. [p \in NoFooter!Words |-> IF bp <= p /\ p < bp + size THEN NoFooter!Junk ELSE h.mem[p]]
             \in [NoFooter!Words -> Tags]
      BY <1>1, <2>1 DEF NHeaps
    <3> QED
      BY <1>1, <2>2, <3>1 DEF NHeaps
  <2> QED
    BY <2>3, <2>4 DEF NoFooter!Get
<1> HIDE DEF q
<1>3. \A w \in Int : w < bp \/ bp + size <= w => NoFooter!Get(g, w) = NoFooter!Get(h, w)
  BY <1>1, <1>2
<1>4. ASSUME NEW x \in B
      PROVE  /\ NHdr(g, x) = NHdr(h, x) /\ NNext(g, x) = NNext(h, x)
             /\ x # bp => (NFooted(g, x) <=> NFooted(h, x))
             /\ NNext(h, x) \in B \cup {h.brk}
  <2> DEFINE k == NNext(h, x)
  <2>1. /\ x \in Nat /\ k \in Nat /\ x + 8 <= k /\ k \in B \cup {h.brk}
        /\ bp < x => q <= x
        /\ x < bp => k <= bp
    BY <1>1, NBlock, NNeighbours DEF q
  <2> HIDE DEF k
  <2>2. x - 4 < bp \/ bp + size <= x - 4
    BY <1>1, <2>1
  <2>3. x # bp => k - 8 < bp \/ bp + size <= k - 8
    BY <1>1, <2>1
  <2>4. x - 4 \in Int /\ k - 8 \in Int
    BY <2>1
  <2>5. NHdr(g, x) = NHdr(h, x)
    BY <1>3, <2>2, <2>4 DEF NHdr
  <2> QED
    BY <1>3, <2>1, <2>3, <2>4, <2>5 DEF NNext, NFooted, k
<1>5. NHdr(g, h.brk) = NHdr(h, h.brk)
  <2>1. h.brk - 4 \in Int /\ bp + size <= h.brk - 4
    BY <1>1
  <2> QED
    BY <1>3, <2>1 DEF NHdr
<1>6. NLinks(g, B) = NLinks(h, B)
  BY <1>4 DEF NLinks
<1>7. NList(g, B)
  <2>1. 8 \in B
    BY <1>1, NBlock
  <2>2. \A x \in B : NHdr(g, x).alloc = 0 => NFooted(g, x)
    BY <1>1, <1>4 DEF NList
  <2> QED
    BY <1>1, <1>2, <1>4, <1>5, <1>6, <2>1, <2>2 DEF NList
<1>8. ASSUME NEW x \in B \cup {g.brk}, x # 8, NHdr(g, x).prev = 0
      PROVE  NReached(g, B, P, x)
  <2>1. NHdr(h, x).prev = 0
    BY <1>2, <1>4, <1>5, <1>8
  <2>2. PICK b \in B \ {8} : NNext(h, b) = x /\ NFooted(h, b) /\ b \notin P
    BY <1>2, <1>8, <2>1 DEF NSafe, NReached
  <2> QED
    BY <1>4, <2>2 DEF NReached
<1>9. ASSUME NEW p \in P
      PROVE  p \in B \ {8} /\ NHdr(g, p).alloc = 1 /\ NHdr(g, NNext(g, p)).prev = 1
  <2>1. p \in B \ {8} /\ NHdr(h, p).alloc = 1 /\ NHdr(h, NNext(h, p)).prev = 1
    BY DEF NSafe
  <2> QED
    BY <1>4, <1>5, <2>1
<1> QED
  BY <1>2, <1>4, <1>7, <1>8, <1>9 DEF NSafe

(* find_fit finds a block if there is one. *)
LEMMA NFind ==
  ASSUME NEW h, NEW B, NList(h, B), NEW asize,
         NEW r, r = NoFooter!FindFit(h, asize)
  PROVE  \/ r = 0
         \/ r \in B \ {8} /\ NHdr(h, r).alloc = 0 /\ asize <= NHdr(h, r).size
<1> DEFINE F == NoFooter!Fits(h, B, asize)
<1>1. /\ \A b \in B : b \in Nat /\ 8 <= b
      /\ 8 \in B /\ NHdr(h, 8).alloc = 1
  BY NBlock, NConstants DEF NList, Tiles
<1>2. NoFooter!Walk(h, NoFooter!FirstBlock) = B
  <2>1. NoFooter!Walk(h, 8) = {x \in B : 8 <= x}
    BY <1>1, NListWalk
  <2>2. {x \in B : 8 <= x} = B
    BY <1>1
  <2> QED
    BY <2>1, <2>2, NConstants
<1>3. F = {x \in B : NHdr(h, x).alloc = 0 /\ asize <= NHdr(h, x).size}
  <2>1. \A x : (NoFooter!Free(h, x) <=> NHdr(h, x).alloc = 0) /\ NoFooter!Size(h, x) = NHdr(h, x).size
    BY NMacros
  <2> QED
    BY <2>1 DEF NoFooter!Fits
<1>4. r = IF F = {} THEN 0 ELSE NoFooter!Min(F)
  BY <1>2, NConstants DEF NoFooter!FindFit
<1> HIDE DEF F
<1>5. F # {} => NoFooter!Min(F) \in F
  <2> HAVE F # {}
  <2>0. F \subseteq Nat
    BY <1>1, <1>3
  <2>1. PICK m \in F : \A k \in F : m <= k
    BY <2>0, LeastNat
  <2> QED
    BY <2>1 DEF NoFooter!Min
<1> QED
  BY <1>1, <1>3, <1>4, <1>5

(* Adjust asks for room for the header alone. *)
LEMMA NAdjust ==
  ASSUME NEW size \in Requests \ {0}
  PROVE  /\ NoFooter!Adjust(size) \in Nat /\ NoFooter!Adjust(size) % 8 = 0
         /\ 8 <= NoFooter!Adjust(size) /\ NoFooter!Adjust(size) < UINT_MOD
         /\ size + 4 <= NoFooter!Adjust(size) /\ size \in Nat
<1>1. size \in Nat /\ size <= UINT_MOD - 16 /\ UINT_MOD \in Nat /\ 32 <= UINT_MOD
  BY Widths
<1>2. CASE size <= 4
  <2>1. NoFooter!Adjust(size) = 8
    BY <1>2, NConstants DEF NoFooter!Adjust
  <2> QED
    BY <1>1, <1>2, <2>1
<1>3. CASE ~(size <= 4)
  <2>1. (size + 8 + (8 - 1)) % SIZE_MOD = size + 15
    <3>1. size + 15 \in Nat /\ size + 15 < SIZE_MOD /\ size + 8 + (8 - 1) = size + 15
      BY <1>1, Widths
    <3> QED
      BY <3>1, ModSmall, Widths
  <2>2. NoFooter!Adjust(size) = 8 * ((size + 15) \div 8)
    BY <1>3, <2>1, NConstants DEF NoFooter!Adjust
  <2> DEFINE k == (size + 15) \div 8
  <2>3. k \in Nat /\ 8 * k <= size + 15 /\ size + 8 <= 8 * k
    BY <1>1
  <2> HIDE DEF k
  <2>4. NoFooter!Adjust(size) = 8 * k
    BY <2>2 DEF k
  <2>5. (8 * k) % 8 = 0
    BY <2>3
  <2> QED
    BY <1>1, <1>3, <2>3, <2>4, <2>5
<1> QED
  BY <1>2, <1>3

-----------------------------------------------------------------------------
(* mm_malloc and mm_free of the allocator without footers *)

Ptrs(O) == {o.ptr : o \in O}
NRoom(h, O) ==
    /\ \A o \in O : /\ o = [ptr |-> o.ptr, size |-> o.size]
                    /\ o.size \in Requests \ {0} /\ o.size + 4 <= NHdr(h, o.ptr).size
    /\ \A o, c \in O : o.ptr = c.ptr => o = c
(* The blocks of the client's set O are safe, each with room for what was     *)
(* asked for after its header.                                                *)
NGood(h, B, O) == NSafe(h, B, Ptrs(O)) /\ NRoom(h, O)

LEMMA NRoomKept ==
  ASSUME NEW h, NEW O, NRoom(h, O), NEW g, NKept(h, g, Ptrs(O))
  PROVE  NRoom(g, O)
<1>1. \A o \in O : o.ptr \in Ptrs(O)
  BY DEF Ptrs
<1>2. \A o \in O : NHdr(g, o.ptr).size = NHdr(h, o.ptr).size
  BY <1>1 DEF NKept
<1> QED
  BY <1>2 DEF NRoom

NHanded(h, O, bp, size) ==
    \E C : /\ NGood(NoFooter!Written(h, bp, size), C, O \cup {[ptr |-> bp, size |-> size]})
           /\ bp \notin Ptrs(O)

LEMMA NHand ==
  ASSUME NEW h, NEW B, NEW O, NGood(h, B, O), NEW bp \in B \ {8}, NHdr(h, bp).alloc = 0,
         NEW size \in Requests \ {0}, NoFooter!Adjust(size) <= NHdr(h, bp).size,
         NEW g, g = NoFooter!Place(h, bp, NoFooter!Adjust(size))
  PROVE  NHanded(g, O, bp, size)
<1> DEFINE asize == NoFooter!Adjust(size)
           P == Ptrs(O)
<1>1. asize \in Nat /\ asize % 8 = 0 /\ 8 <= asize /\ size + 4 <= asize /\ size \in Nat
  BY NAdjust
<1> HIDE DEF asize
<1>2. PICK C : /\ NSafe(g, C, P \cup {bp}) /\ NKept(h, g, P) /\ g.brk = h.brk
               /\ bp \notin P /\ asize <= NHdr(g, bp).size
  <2>1. asize <= NHdr(h, bp).size /\ g = NoFooter!Place(h, bp, asize) /\ NSafe(h, B, P)
    BY DEF asize, NGood
  <2> HIDE DEF P
  <2> QED
    BY <1>1, <2>1, NPlace
<1>3. bp \in C /\ NHdr(g, bp).size \in Nat /\ P \cup {bp} \subseteq C
  <2>1. NList(g, C) /\ P \cup {bp} \subseteq C
    BY <1>2 DEF NSafe
  <2> QED
    BY <2>1, NBlock
<1> DEFINE w == NoFooter!Written(g, bp, size)
           n == [ptr |-> bp, size |-> size]
<1>4. NSafe(w, C, P \cup {bp}) /\ \A b \in C : NHdr(w, b) = NHdr(g, b)
  <2> DEFINE Q == P \cup {bp}
  <2>2. size + 4 <= NHdr(g, bp).size /\ bp \in Q /\ NSafe(g, C, Q)
    BY <1>1, <1>2, <1>3
  <2> HIDE DEF Q
  <2>3. NSafe(w, C, Q) /\ \A b \in C : NHdr(w, b) = NHdr(g, b)
    BY <1>1, <2>2, NWritten
  <2> QED
    BY <2>3 DEF Q
<1> HIDE DEF w
<1>5. NRoom(h, O)
  BY DEF NGood
<1>6. \A o \in O : NHdr(w, o.ptr).size = NHdr(h, o.ptr).size
  <2>1. \A o \in O : o.ptr \in P /\ o.ptr \in C
    BY <1>3 DEF Ptrs
  <2> QED
    BY <1>2, <1>4, <2>1 DEF NKept
<1>7. size + 4 <= NHdr(w, bp).size
  BY <1>1, <1>2, <1>3, <1>4
<1>8. n.ptr = bp /\ n.size = size /\ n = [ptr |-> n.ptr, size |-> n.size]
  OBVIOUS
<1> HIDE DEF n
<1>9. Ptrs(O \cup {n}) = P \cup {bp}
  BY <1>8 DEF Ptrs
<1>10. NRoom(w, O \cup {n})
  <2>1. \A o \in O : /\ o = [ptr |-> o.ptr, size |-> o.size]
                     /\ o.size \in Requests \ {0} /\ o.size + 4 <= NHdr(w, o.ptr).size
    BY <1>5, <1>6 DEF NRoom
  <2>2. \A o \in O : o.ptr # bp
    BY <1>2 DEF Ptrs
  <2>3. \A o, c \in O \cup {n} : o.ptr = c.ptr => o = c
    BY <1>5, <1>8, <2>2 DEF NRoom
  <2> QED
    BY <1>7, <1>8, <2>1, <2>3 DEF NRoom
<1> QED
  BY <1>2, <1>4, <1>9, <1>10 DEF NGood, NHanded, w, n

(* mm_malloc hands out a free block, or nothing. *)
LEMMA NAllocate ==
  ASSUME NEW h, NEW B, NEW O, NGood(h, B, O), NEW size \in Requests,
         NEW r, r = NoFooter!Allocate(h, size)
  PROVE  \/ r[2] = 0 /\ \E C : NGood(r[1], C, O)
         \/ r[2] # 0 /\ size # 0 /\ NHanded(r[1], O, r[2], size)
<1> DEFINE asize == NoFooter!Adjust(size)
           fit   == NoFooter!FindFit(h, asize)
           big   == IF asize > CHUNKSIZE THEN asize ELSE CHUNKSIZE
           more  == NoFooter!ExtendHeap(h, big \div 4)
           got   == IF fit # 0 THEN <<h, fit>> ELSE more
<1>1. CASE size = 0
  <2>1. r = <<h, 0>>
    BY <1>1, NConstants DEF NoFooter!Allocate
  <2> QED
    BY <2>1
<1>2. CASE size # 0
  <2>1. asize \in Nat /\ asize % 8 = 0 /\ 8 <= asize /\ asize < UINT_MOD
    BY <1>2, NAdjust
  <2>2. r = IF got[2] = 0 THEN got ELSE <<NoFooter!Place(got[1], got[2], asize), got[2]>>
    BY <1>2, NConstants DEF NoFooter!Allocate
  <2> HIDE DEF asize
  <2>3. NSafe(h, B, Ptrs(O)) /\ NRoom(h, O) /\ NList(h, B)
    BY DEF NGood, NSafe
  <2>4. \/ fit = 0
        \/ fit \in B \ {8} /\ NHdr(h, fit).alloc = 0 /\ asize <= NHdr(h, fit).size
    <3> HIDE DEF fit
    <3>1. fit = NoFooter!FindFit(h, asize)
      BY DEF fit
    <3> QED
      BY <2>3, <3>1, NFind
  <2>5. CASE fit = 0
    <3>1. got = NoFooter!ExtendHeap(h, big \div 4)
      BY <2>5
    <3>2. big \in Nat /\ big % 8 = 0 /\ 8 <= big /\ big < UINT_MOD /\ asize <= big
      BY <2>1, Widths
    <3> HIDE DEF got, big, fit
    <3> DEFINE P == Ptrs(O)
    <3>3. NSafe(h, B, P)
      BY <2>3
    <3>4. NRoom(h, O)
      BY <2>3
    <3> HIDE DEF P
    <3>5. \/ got = <<h, 0>>
          \/ \E C : /\ NSafe(got[1], C, P) /\ NKept(h, got[1], P)
                    /\ got[2] \in C \ {8} /\ NHdr(got[1], got[2]).alloc = 0
                    /\ big <= NHdr(got[1], got[2]).size
      BY <3>1, <3>2, <3>3, NExtend
    <3>6. CASE got = <<h, 0>>
      BY <2>2, <3>6
    <3>7. CASE got # <<h, 0>>
      <4>1. PICK C : /\ NSafe(got[1], C, P) /\ NKept(h, got[1], P)
                     /\ got[2] \in C \ {8} /\ NHdr(got[1], got[2]).alloc = 0
                     /\ big <= NHdr(got[1], got[2]).size
        BY <3>5, <3>7
      <4>2. NGood(got[1], C, O)
        BY <3>4, <4>1, NRoomKept DEF NGood, P
      <4>3. NHdr(got[1], got[2]).size \in Nat /\ got[2] # 0
        BY <4>1, NBlock DEF NSafe
      <4>4. asize <= NHdr(got[1], got[2]).size
        BY <2>1, <3>2, <4>1, <4>3
      <4> DEFINE g == NoFooter!Place(got[1], got[2], asize)
      <4>5. NHanded(g, O, got[2], size)
        BY <1>2, <4>1, <4>2, <4>4, NHand DEF asize
      <4>6. r[1] = g /\ r[2] = got[2]
        BY <2>2, <4>3
      <4> HIDE DEF g
      <4> QED
        BY <1>2, <4>3, <4>5, <4>6
    <3> QED
      BY <3>6, <3>7
  <2>6. CASE fit # 0
    <3>1. fit \in B \ {8} /\ NHdr(h, fit).alloc = 0 /\ asize <= NHdr(h, fit).size
      BY <2>4, <2>6
    <3>2. got = <<h, fit>>
      BY <2>6
    <3> DEFINE g == NoFooter!Place(h, fit, asize)
    <3>3. r[1] = g /\ r[2] = fit
      BY <2>2, <2>6, <3>2
    <3> HIDE DEF fit, got
    <3>4. NHanded(g, O, fit, size)
      BY <1>2, <3>1, NHand DEF asize
    <3> HIDE DEF g
    <3> QED
      BY <1>2, <2>6, <3>3, <3>4
  <2> QED
    BY <2>5, <2>6
<1> QED
  BY <1>1, <1>2

(* mm_free takes a held block back, and only that one. *)
LEMMA NRelease ==
  ASSUME NEW h, NEW B, NEW O, NGood(h, B, O), NEW o \in O,
         NEW g, g = NoFooter!Release(h, o.ptr)
  PROVE  \E C : NGood(g, C, O \ {o})
<1> DEFINE bp == o.ptr
           q  == NNext(h, bp)
           v  == NHdr(h, bp).prev
           P  == Ptrs(O \ {o})
           t  == NTag(q - bp, 0, v)
           f  == NoFooter!Put(NoFooter!Put(h, bp - 4, t), q - 8, t)
<1>1. NSafe(h, B, Ptrs(O)) /\ NRoom(h, O) /\ NList(h, B) /\ h \in NHeaps
  BY DEF NGood, NSafe, NList
<1>2. bp \in B \ {8} /\ bp \notin P /\ P \subseteq Ptrs(O) /\ P \subseteq B /\ v \in {0, 1}
  <2>1. bp \in B \ {8} /\ P \subseteq Ptrs(O) /\ Ptrs(O) \subseteq B
    BY <1>1 DEF NSafe, Ptrs
  <2>2. bp \notin P
    BY <1>1 DEF NRoom, Ptrs
  <2>3. v \in {0, 1}
    BY <1>1, <2>1 DEF NList
  <2> QED
    BY <2>1, <2>2, <2>3
<1>3. NSafe(h, B, P)
  BY <1>1, <1>2, NFewer
<1> HIDE DEF P, v
<1>4. /\ bp \in Nat /\ q \in B \cup {h.brk} /\ q \in Nat /\ bp < q
      /\ bp - 4 \in NoFooter!Words /\ q - 8 \in NoFooter!Words /\ bp - 4 # q - 8
      /\ q - bp = NHdr(h, bp).size /\ q - bp \in 0 .. UINT_MOD - 1
      /\ \A x \in B : x <= bp \/ q <= x
      /\ \A x \in B : x \in Nat
  <2>1. /\ bp \in Nat /\ q \in Nat /\ bp - 4 \in NoFooter!Words /\ NHdr(h, bp) \in Tags
        /\ q = bp + NHdr(h, bp).size /\ q - 8 \in NoFooter!Words /\ q % 8 = 0 /\ bp % 8 = 0
    BY <1>1, <1>2, NBlock
  <2>2. q \in B \cup {h.brk} /\ bp < q /\ \A x \in B : bp < x => q <= x
    BY <1>1, <1>2, NNeighbours
  <2>3. NHdr(h, bp).size \in 0 .. UINT_MOD - 1
    BY <2>1 DEF Tags
  <2>4. \A x \in B : x \in Nat
    BY <1>1, NBlock
  <2> HIDE DEF q, bp
  <2>5. q - bp = NHdr(h, bp).size
    BY <2>1, <2>3
  <2>6. bp - 4 # q - 8
    BY <2>1
  <2> QED
    BY <2>1, <2>2, <2>3, <2>4, <2>5, <2>6
<1> HIDE DEF q, bp
<1>5. t \in Tags
  <2>1. q - bp \in 0 .. UINT_MOD - 1 /\ v \in {0, 1} /\ 0 \in {0, 1}
    BY <1>2, <1>4
  <2> DEFINE s == q - bp
  <2> HIDE DEF s
  <2>2. s \in 0 .. UINT_MOD - 1
    BY <2>1 DEF s
  <2>3. NTag(s, 0, v) \in Tags
    BY <2>1, <2>2, NTagged
  <2> QED
    BY <2>3 DEF s
<1> HIDE DEF t
<1>6. g = NoFooter!Coalesce(f, bp)[1]
  <2> DEFINE s == q - bp
  <2>1. /\ h \in NHeaps /\ bp - 4 \in NoFooter!Words /\ bp \in Int /\ v \in {0, 1}
        /\ s \in 0 .. UINT_MOD - 1
    BY <1>1, <1>2, <1>4
  <2>2. (bp + s) - 8 = q - 8 /\ NoFooter!Size(h, bp) = s /\ NoFooter!PrevAlloc(h, bp) = v
    BY <1>4, NMacros DEF NoFooter!PrevAlloc, v, NHdr
  <2>4. t = NTag(s, 0, v)
    BY DEF t
  <2> HIDE DEF s
  <2>3. NFreed(h, bp, s, v)
    BY <2>1, NPutFree
  <2>5. NoFooter!PutFree(h, bp, s, v) = f
    BY <2>2, <2>3, <2>4, Zenon DEF NFreed
  <2> QED
    BY <2>2, <2>5 DEF NoFooter!Release, bp
<1>7. NStored(h, f, bp - 4, t, q - 8, t)
  BY <1>1, <1>4, <1>5, NPutTwo
<1> HIDE DEF f
<1>8. /\ NSafe(f, B, P) /\ NKept(h, f, P) /\ f.brk = h.brk
      /\ NHdr(f, bp).alloc = 0
  <2>1. Without(B, bp, q) = B
    BY <1>4 DEF Without
  <2> DEFINE C == Without(B, bp, q)
  <2>2. \A x \in P : x < bp \/ q <= x
    BY <1>2, <1>4
  <2>3. v = 0 => NHdr(h, bp).prev = 0
    BY DEF v
  <2>4. NStored(h, f, bp - 4, NTag(q - bp, 0, v), q - 8, NTag(q - bp, 0, v))
    BY <1>7 DEF t
  <2>5. NSafe(f, C, P) /\ NKept(h, f, P) /\ f.brk = h.brk /\ NHdr(f, bp) = NTag(q - bp, 0, v)
    <3>1. C = Without(B, bp, q)
      OBVIOUS
    <3>2. bp \in B \ {8} /\ q \in B \cup {h.brk} /\ bp < q /\ v \in {0, 1}
      BY <1>2, <1>4
    <3> HIDE DEF C
    <3> QED
      BY <1>3, <2>2, <2>3, <2>4, <3>1, <3>2, NOverwrite
  <2>6. NHdr(f, bp).alloc = 0
    BY <2>5 DEF NTag
  <2> QED
    BY <2>1, <2>5, <2>6
<1> DEFINE r == NoFooter!Coalesce(f, bp)
<1>9. PICK C : NSafe(r[1], C, P) /\ NKept(f, r[1], P)
  <2>1. r = NoFooter!Coalesce(f, bp)
    OBVIOUS
  <2> HIDE DEF r
  <2> QED
    BY <1>2, <1>8, <2>1, NCoalesce
<1>10. NRoom(r[1], O \ {o})
  <2> HIDE DEF r
  <2>1. NRoom(h, O \ {o})
    BY <1>1 DEF NRoom
  <2>2. NKept(h, r[1], Ptrs(O \ {o}))
    BY <1>8, <1>9 DEF NKept, P
  <2> QED
    BY <2>1, <2>2, NRoomKept
<1> QED
  BY <1>6, <1>9, <1>10 DEF NGood, P

-----------------------------------------------------------------------------
(* What the client sees *)

LEMMA RequestsNat == \A size \in Requests : size \in Nat
<1>1. Requests \subseteq 0 .. UINT_MOD - 16
  BY Widths
<1> QED
  BY <1>1

(* Blocks of a list with room for what was asked for lie apart. *)
Roomy(B, e, next, O) ==
    /\ Tiles(B, e, next) /\ e <= MAX_HEAP
    /\ \A o \in O : o.ptr \in B /\ o.size \in Nat /\ o.ptr + o.size < next[o.ptr]
    /\ \A o, c \in O : o.ptr = c.ptr => o = c

LEMMA Placed ==
  ASSUME NEW B, NEW e, NEW next, NEW O, Roomy(B, e, next, O), NEW n \in O
  PROVE  Abstract!Fresh(n, O \ {n}) /\ n.ptr \in 0 .. MAX_HEAP - 1
<1>1. Tiles(B, e, next) /\ e \in Nat /\ e <= MAX_HEAP /\ MAX_HEAP \in Nat
  BY TilesNat, Widths DEF Roomy
<1>2. \A o \in O : /\ o.ptr \in Nat /\ o.size \in Nat /\ next[o.ptr] \in Nat
                   /\ o.ptr + o.size < next[o.ptr] /\ next[o.ptr] <= e /\ o.ptr \in B
  BY <1>1, TilesNat DEF Roomy
<1>3. n.ptr % 8 = 0
  BY <1>1, <1>2 DEF Tiles, Aligned
<1>4. Abstract!Bytes(n) \subseteq 0 .. MAX_HEAP - 1 /\ n.ptr \in 0 .. MAX_HEAP - 1
  BY <1>1, <1>2 DEF Abstract!Bytes
<1>5. ASSUME NEW o \in O \ {n}
      PROVE  Abstract!Bytes(o) \cap Abstract!Bytes(n) = {}
  <2>1. o.ptr # n.ptr
    BY DEF Roomy
  <2>2. (o.ptr < n.ptr => next[o.ptr] <= n.ptr) /\ (n.ptr < o.ptr => next[n.ptr] <= o.ptr)
    BY <1>1, <1>2 DEF Tiles
  <2>3. o.ptr + o.size <= n.ptr \/ n.ptr + n.size <= o.ptr
    BY <1>2, <2>1, <2>2
  <2> QED
    BY <1>2, <2>3 DEF Abstract!Bytes
<1> QED
  BY <1>3, <1>4, <1>5 DEF Abstract!Fresh

NFServed(w, O, n) == /\ Abstract!Fresh(n, O) /\ n.ptr \in 0 .. MAX_HEAP - 1 /\ n \notin O
                       /\ \E C : NFGood(w, C, O \cup {n})

LEMMA NFFresh ==
  ASSUME NEW h, NEW O, NEW bp, NEW size, NFHanded(h, O, bp, size),
         NEW n, n = [ptr |-> bp, size |-> size],
         NEW w, w = NextFit!Written(h, bp, size)
  PROVE  NFServed(w, O, n)
<1> DEFINE Q == O \cup {n}
<1>1. PICK C : NFGood(w, C, Q) /\ bp \notin {o.ptr : o \in O}
  BY DEF NFHanded
<1>2. n \notin O /\ n \in Q /\ Q \ {n} = O /\ n.ptr = bp
  <2>1. n.ptr = bp
    OBVIOUS
  <2> QED
    BY <1>1, <2>1
<1> HIDE DEF Q
<1>3. Roomy(C, w.brk, NFLinks(w, C), Q)
  <2>1. NFList(w, C) /\ Tiles(C, w.brk, NFLinks(w, C)) /\ w.brk \in 0 .. MAX_HEAP
    BY <1>1 DEF NFGood, NFReady, NFList, NFHeaps
  <2>2. ASSUME NEW o \in Q
        PROVE  o.ptr \in C /\ o.size \in Nat /\ o.ptr + o.size < NFLinks(w, C)[o.ptr]
    <3>1. o.ptr \in C /\ o.size \in Requests /\ o.size + 8 <= NFHdr(w, o.ptr).size
      BY <1>1 DEF NFGood, NFOwned, NFHeld
    <3>2. NFLinks(w, C)[o.ptr] = o.ptr + NFHdr(w, o.ptr).size /\ o.ptr \in Nat /\ NFHdr(w, o.ptr).size \in Nat
      BY <2>1, <3>1, NFBlock DEF NFLinks, NFNext
    <3>3. o.size \in Nat
      BY <3>1, RequestsNat
    <3> QED
      BY <3>1, <3>2, <3>3
  <2>3. \A o, c \in Q : o.ptr = c.ptr => o = c
    BY <1>1 DEF NFGood, NFOwned
  <2> QED
    BY <2>1, <2>2, <2>3, Widths DEF Roomy
<1>4. Abstract!Fresh(n, Q \ {n}) /\ n.ptr \in 0 .. MAX_HEAP - 1
  BY <1>2, <1>3, Placed
<1> QED
  BY <1>1, <1>2, <1>4 DEF Q, NFServed

NServed(w, O, n) == /\ Abstract!Fresh(n, O) /\ n.ptr \in 0 .. MAX_HEAP - 1 /\ n \notin O
                      /\ \E C : NGood(w, C, O \cup {n})

LEMMA NFresh ==
  ASSUME NEW h, NEW O, NEW bp, NEW size, NHanded(h, O, bp, size),
         NEW n, n = [ptr |-> bp, size |-> size],
         NEW w, w = NoFooter!Written(h, bp, size)
  PROVE  NServed(w, O, n)
<1> DEFINE Q == O \cup {n}
<1>1. PICK C : NGood(w, C, Q) /\ bp \notin Ptrs(O)
  BY DEF NHanded
<1>2. n \notin O /\ n \in Q /\ Q \ {n} = O /\ n.ptr = bp
  <2>1. n.ptr = bp
    OBVIOUS
  <2> QED
    BY <1>1, <2>1 DEF Ptrs
<1> HIDE DEF Q
<1>3. Roomy(C, w.brk, NLinks(w, C), Q)
  <2>1. NList(w, C) /\ Tiles(C, w.brk, NLinks(w, C)) /\ w.brk \in 0 .. NO_FOOTER_HEAP
    BY <1>1 DEF NGood, NSafe, NList, NHeaps
  <2>2. ASSUME NEW o \in Q
        PROVE  o.ptr \in C /\ o.size \in Nat /\ o.ptr + o.size < NLinks(w, C)[o.ptr]
    <3>1. o.ptr \in C /\ o.size \in Requests /\ o.size + 4 <= NHdr(w, o.ptr).size
      BY <1>1 DEF NGood, NSafe, NRoom, Ptrs
    <3>2. NLinks(w, C)[o.ptr] = o.ptr + NHdr(w, o.ptr).size /\ o.ptr \in Nat /\ NHdr(w, o.ptr).size \in Nat
      BY <2>1, <3>1, NBlock DEF NLinks, NNext
    <3>3. o.size \in Nat
      BY <3>1, RequestsNat
    <3> QED
      BY <3>1, <3>2, <3>3
  <2>3. \A o, c \in Q : o.ptr = c.ptr => o = c
    BY <1>1 DEF NGood, NRoom
  <2> QED
    BY <2>1, <2>2, <2>3, Widths DEF Roomy
<1>4. Abstract!Fresh(n, Q \ {n}) /\ n.ptr \in 0 .. MAX_HEAP - 1
  BY <1>2, <1>3, Placed
<1> QED
  BY <1>1, <1>2, <1>4 DEF Q, NServed

-----------------------------------------------------------------------------
(* The inductive invariant *)

NFInv(h, l, O) == /\ l \in {0, 8}
                  /\ l = 0 => h = NextFit!EmptyHeap /\ O = {}
                  /\ l = 8 => \E B : NFGood(h, B, O)
NInv(h, l, O) == /\ l \in {0, 8}
                 /\ l = 0 => h = NoFooter!EmptyHeap /\ O = {}
                 /\ l = 8 => \E B : NGood(h, B, O)
AllocInv == /\ program \in {"next fit", "no footer"}
            /\ program = "next fit"  => NFInv(heap, listp, owned)
            /\ program = "no footer" => NInv(heap, listp, owned)

LEMMA NFReadyGood ==
  ASSUME NFInv(heap, listp, owned)
  PROVE  \E B : NFGood(NextFit!Ready, B, owned)
<1>1. CASE listp = 0
  <2>1. PICK C : NFReady(NextFit!Initialised, C, {}) /\ NFHeld(NextFit!Initialised, C) = {}
    BY NFInitialised
  <2>2. NFOwned(NextFit!Initialised, C, {})
    BY <2>1 DEF NFOwned
  <2> QED
    BY <1>1, <2>1, <2>2 DEF NFInv, NFGood, NextFit!Ready
<1>2. CASE listp # 0
  BY <1>2 DEF NFInv, NextFit!Ready
<1> QED
  BY <1>1, <1>2

LEMMA NReadyGood ==
  ASSUME NInv(heap, listp, owned)
  PROVE  \E B : NGood(NoFooter!Ready, B, owned)
<1>1. CASE listp = 0
  <2>1. PICK C : NSafe(NoFooter!Initialised, C, {})
    BY NInitialised
  <2>2. NRoom(NoFooter!Initialised, {}) /\ Ptrs({}) = {}
    BY DEF NRoom, Ptrs
  <2> QED
    BY <1>1, <2>1, <2>2 DEF NInv, NGood, NoFooter!Ready
<1>2. CASE listp # 0
  BY <1>2 DEF NInv, NoFooter!Ready
<1> QED
  BY <1>1, <1>2

(* One call of a next-fit client. *)
LEMMA NFStep ==
  ASSUME NFInv(heap, listp, owned), NextFit!Next
  PROVE  NFInv(heap', listp', owned') /\ [Abstract!Next]_owned
<1>1. ASSUME NEW size \in Requests, NextFit!Malloc(size)
      PROVE  NFInv(heap', listp', owned') /\ [Abstract!Next]_owned
  <2> DEFINE r == NextFit!Allocate(NextFit!Ready, size)
             n == [ptr |-> r[2], size |-> size]
  <2>1. /\ listp' = 8
        /\ r[2] = 0 => heap' = r[1] /\ owned' = owned
        /\ r[2] # 0 => heap' = NextFit!Written(r[1], r[2], size) /\ owned' = owned \cup {n}
    BY <1>1, NFConstants DEF NextFit!Malloc
  <2>2. PICK B : NFGood(NextFit!Ready, B, owned)
    BY NFReadyGood
  <2>3. \/ r[2] = 0 /\ \E C : NFGood(r[1], C, owned)
        \/ r[2] # 0 /\ size # 0 /\ NFHanded(r[1], owned, r[2], size)
    <3> DEFINE rr == NextFit!Allocate(NextFit!Ready, size)
    <3>1. rr = NextFit!Allocate(NextFit!Ready, size)
      OBVIOUS
    <3> HIDE DEF rr
    <3>2. \/ rr[2] = 0 /\ \E C : NFGood(rr[1], C, owned)
          \/ rr[2] # 0 /\ size # 0 /\ NFHanded(rr[1], owned, rr[2], size)
      BY <2>2, <3>1, NFAllocate
    <3> QED
      BY <3>2 DEF rr
  <2> HIDE DEF r
  <2>4. CASE r[2] = 0
    BY <2>1, <2>3, <2>4 DEF NFInv
  <2>5. CASE r[2] # 0
    <3> DEFINE w == NextFit!Written(r[1], r[2], size)
    <3>0. /\ n = [ptr |-> r[2], size |-> size] /\ w = NextFit!Written(r[1], r[2], size)
          /\ n.ptr = r[2] /\ NFHanded(r[1], owned, r[2], size)
      BY <2>3, <2>5
    <3>1. /\ Abstract!Fresh(n, owned) /\ r[2] \in 0 .. MAX_HEAP - 1
          /\ \E C : NFGood(w, C, owned \cup {n})
      <4> HIDE DEF n, w
      <4>1. NFServed(w, owned, n)
        BY <3>0, NFFresh
      <4> QED
        BY <3>0, <4>1 DEF NFServed
    <3>2. Abstract!Malloc(size)
      BY <2>1, <2>5, <3>1 DEF Abstract!Malloc
    <3> QED
      BY <2>1, <2>5, <3>1, <3>2 DEF NFInv, Abstract!Next
  <2> QED
    BY <2>4, <2>5
<1>2. ASSUME NEW b \in owned, NextFit!MFree(b)
      PROVE  NFInv(heap', listp', owned') /\ [Abstract!Next]_owned
  <2>1. listp = 8 /\ heap' = NextFit!Release(heap, b.ptr) /\ owned' = owned \ {b} /\ listp' = listp
    BY <1>2 DEF NFInv, NextFit!MFree
  <2>2. PICK B : NFGood(heap, B, owned)
    BY <2>1 DEF NFInv
  <2>3. \E C : NFGood(heap', C, owned \ {b})
    BY <2>1, <2>2, NFRelease
  <2> QED
    BY <2>1, <2>3 DEF NFInv, Abstract!Next, Abstract!Free
<1>3. ASSUME NEW b \in owned, NEW size \in Requests, NextFit!Realloc(b, size)
      PROVE  NFInv(heap', listp', owned') /\ [Abstract!Next]_owned
  <2> DEFINE r == NextFit!Allocate(heap, size)
             n == [ptr |-> r[2], size |-> size]
             w == NextFit!Written(r[1], r[2], size)
  <2>1. /\ listp' = listp /\ listp = 8
        /\ r[2] = 0 => heap' = r[1] /\ owned' = owned
        /\ r[2] # 0 => heap' = NextFit!Release(w, b.ptr) /\ owned' = (owned \ {b}) \cup {n}
    BY <1>3, NFConstants DEF NextFit!Realloc, NFInv
  <2>2. PICK B : NFGood(heap, B, owned)
    BY <2>1 DEF NFInv
  <2>3. \/ r[2] = 0 /\ \E C : NFGood(r[1], C, owned)
        \/ r[2] # 0 /\ size # 0 /\ NFHanded(r[1], owned, r[2], size)
    <3> DEFINE rr == NextFit!Allocate(heap, size)
    <3>1. rr = NextFit!Allocate(heap, size)
      OBVIOUS
    <3> HIDE DEF rr
    <3>2. \/ rr[2] = 0 /\ \E C : NFGood(rr[1], C, owned)
          \/ rr[2] # 0 /\ size # 0 /\ NFHanded(rr[1], owned, rr[2], size)
      BY <2>2, <3>1, NFAllocate
    <3> QED
      BY <3>2 DEF rr
  <2> HIDE DEF r
  <2>4. CASE r[2] = 0
    BY <2>1, <2>3, <2>4 DEF NFInv
  <2>5. CASE r[2] # 0
    <3>0. /\ n = [ptr |-> r[2], size |-> size] /\ w = NextFit!Written(r[1], r[2], size)
          /\ n.ptr = r[2] /\ NFHanded(r[1], owned, r[2], size)
      BY <2>3, <2>5
    <3>1. /\ Abstract!Fresh(n, owned) /\ r[2] \in 0 .. MAX_HEAP - 1 /\ n \notin owned
          /\ \E C : NFGood(w, C, owned \cup {n})
      <4> HIDE DEF n, w
      <4>1. NFServed(w, owned, n)
        BY <3>0, NFFresh
      <4> QED
        BY <3>0, <4>1 DEF NFServed
    <3>2. Abstract!Realloc(b, size)
      BY <2>1, <2>5, <3>1 DEF Abstract!Realloc
    <3>3. PICK C : NFGood(w, C, owned \cup {n})
      BY <3>1
    <3> HIDE DEF w, n
    <3>4. \E D : NFGood(heap', D, (owned \cup {n}) \ {b})
      <4>1. b \in owned \cup {n} /\ heap' = NextFit!Release(w, b.ptr)
        BY <2>1, <2>5
      <4> QED
        BY <3>3, <4>1, NFRelease
    <3>5. (owned \cup {n}) \ {b} = (owned \ {b}) \cup {n}
      BY <3>1
    <3> QED
      BY <2>1, <2>5, <3>2, <3>4, <3>5 DEF NFInv, Abstract!Next
  <2> QED
    BY <2>4, <2>5
<1> QED
  BY <1>1, <1>2, <1>3 DEF NextFit!Next

(* One call of a client of the other. *)
LEMMA NStep ==
  ASSUME NInv(heap, listp, owned), NoFooter!Next
  PROVE  NInv(heap', listp', owned') /\ [Abstract!Next]_owned
<1>1. ASSUME NEW size \in Requests, NoFooter!Malloc(size)
      PROVE  NInv(heap', listp', owned') /\ [Abstract!Next]_owned
  <2> DEFINE r == NoFooter!Allocate(NoFooter!Ready, size)
             n == [ptr |-> r[2], size |-> size]
  <2>1. /\ listp' = 8
        /\ r[2] = 0 => heap' = r[1] /\ owned' = owned
        /\ r[2] # 0 => heap' = NoFooter!Written(r[1], r[2], size) /\ owned' = owned \cup {n}
    BY <1>1, NConstants DEF NoFooter!Malloc
  <2>2. PICK B : NGood(NoFooter!Ready, B, owned)
    BY NReadyGood
  <2>3. \/ r[2] = 0 /\ \E C : NGood(r[1], C, owned)
        \/ r[2] # 0 /\ size # 0 /\ NHanded(r[1], owned, r[2], size)
    <3> DEFINE rr == NoFooter!Allocate(NoFooter!Ready, size)
    <3>1. rr = NoFooter!Allocate(NoFooter!Ready, size)
      OBVIOUS
    <3> HIDE DEF rr
    <3>2. \/ rr[2] = 0 /\ \E C : NGood(rr[1], C, owned)
          \/ rr[2] # 0 /\ size # 0 /\ NHanded(rr[1], owned, rr[2], size)
      BY <2>2, <3>1, NAllocate
    <3> QED
      BY <3>2 DEF rr
  <2> HIDE DEF r
  <2>4. CASE r[2] = 0
    BY <2>1, <2>3, <2>4 DEF NInv
  <2>5. CASE r[2] # 0
    <3> DEFINE w == NoFooter!Written(r[1], r[2], size)
    <3>0. /\ n = [ptr |-> r[2], size |-> size] /\ w = NoFooter!Written(r[1], r[2], size)
          /\ n.ptr = r[2] /\ NHanded(r[1], owned, r[2], size)
      BY <2>3, <2>5
    <3>1. /\ Abstract!Fresh(n, owned) /\ r[2] \in 0 .. MAX_HEAP - 1
          /\ \E C : NGood(w, C, owned \cup {n})
      <4> HIDE DEF n, w
      <4>1. NServed(w, owned, n)
        BY <3>0, NFresh
      <4> QED
        BY <3>0, <4>1 DEF NServed
    <3>2. Abstract!Malloc(size)
      BY <2>1, <2>5, <3>1 DEF Abstract!Malloc
    <3> QED
      BY <2>1, <2>5, <3>1, <3>2 DEF NInv, Abstract!Next
  <2> QED
    BY <2>4, <2>5
<1>2. ASSUME NEW b \in owned, NoFooter!MFree(b)
      PROVE  NInv(heap', listp', owned') /\ [Abstract!Next]_owned
  <2>1. listp = 8 /\ heap' = NoFooter!Release(heap, b.ptr) /\ owned' = owned \ {b} /\ listp' = listp
    BY <1>2 DEF NInv, NoFooter!MFree
  <2>2. PICK B : NGood(heap, B, owned)
    BY <2>1 DEF NInv
  <2>3. \E C : NGood(heap', C, owned \ {b})
    BY <2>1, <2>2, NRelease
  <2> QED
    BY <2>1, <2>3 DEF NInv, Abstract!Next, Abstract!Free
<1>3. ASSUME NEW b \in owned, NEW size \in Requests, NoFooter!Realloc(b, size)
      PROVE  NInv(heap', listp', owned') /\ [Abstract!Next]_owned
  <2> DEFINE r == NoFooter!Allocate(heap, size)
             n == [ptr |-> r[2], size |-> size]
             w == NoFooter!Written(r[1], r[2], size)
  <2>1. /\ listp' = listp /\ listp = 8
        /\ r[2] = 0 => heap' = r[1] /\ owned' = owned
        /\ r[2] # 0 => heap' = NoFooter!Release(w, b.ptr) /\ owned' = (owned \ {b}) \cup {n}
    BY <1>3, NConstants DEF NoFooter!Realloc, NInv
  <2>2. PICK B : NGood(heap, B, owned)
    BY <2>1 DEF NInv
  <2>3. \/ r[2] = 0 /\ \E C : NGood(r[1], C, owned)
        \/ r[2] # 0 /\ size # 0 /\ NHanded(r[1], owned, r[2], size)
    <3> DEFINE rr == NoFooter!Allocate(heap, size)
    <3>1. rr = NoFooter!Allocate(heap, size)
      OBVIOUS
    <3> HIDE DEF rr
    <3>2. \/ rr[2] = 0 /\ \E C : NGood(rr[1], C, owned)
          \/ rr[2] # 0 /\ size # 0 /\ NHanded(rr[1], owned, rr[2], size)
      BY <2>2, <3>1, NAllocate
    <3> QED
      BY <3>2 DEF rr
  <2> HIDE DEF r
  <2>4. CASE r[2] = 0
    BY <2>1, <2>3, <2>4 DEF NInv
  <2>5. CASE r[2] # 0
    <3>0. /\ n = [ptr |-> r[2], size |-> size] /\ w = NoFooter!Written(r[1], r[2], size)
          /\ n.ptr = r[2] /\ NHanded(r[1], owned, r[2], size)
      BY <2>3, <2>5
    <3>1. /\ Abstract!Fresh(n, owned) /\ r[2] \in 0 .. MAX_HEAP - 1 /\ n \notin owned
          /\ \E C : NGood(w, C, owned \cup {n})
      <4> HIDE DEF n, w
      <4>1. NServed(w, owned, n)
        BY <3>0, NFresh
      <4> QED
        BY <3>0, <4>1 DEF NServed
    <3>2. Abstract!Realloc(b, size)
      BY <2>1, <2>5, <3>1 DEF Abstract!Realloc
    <3>3. PICK C : NGood(w, C, owned \cup {n})
      BY <3>1
    <3> HIDE DEF w, n
    <3>4. \E D : NGood(heap', D, (owned \cup {n}) \ {b})
      <4>1. b \in owned \cup {n} /\ heap' = NoFooter!Release(w, b.ptr)
        BY <2>1, <2>5
      <4> QED
        BY <3>3, <4>1, NRelease
    <3>5. (owned \cup {n}) \ {b} = (owned \ {b}) \cup {n}
      BY <3>1
    <3> QED
      BY <2>1, <2>5, <3>2, <3>4, <3>5 DEF NInv, Abstract!Next
  <2> QED
    BY <2>4, <2>5
<1> QED
  BY <1>1, <1>2, <1>3 DEF NoFooter!Next

-----------------------------------------------------------------------------
(* Theorems *)

LEMMA AllocInitially == Init => AllocInv
<1>1. ASSUME program = "next fit", NextFit!Init
      PROVE  AllocInv
  <2>1. listp = 0 /\ heap = NextFit!EmptyHeap /\ owned = {}
    BY <1>1, Zenon DEF NextFit!Init
  <2>2. NFInv(heap, listp, owned)
    BY <2>1 DEF NFInv
  <2> QED
    BY <1>1, <2>2 DEF AllocInv
<1>2. ASSUME program = "no footer", NoFooter!Init
      PROVE  AllocInv
  <2>1. listp = 0 /\ heap = NoFooter!EmptyHeap /\ owned = {}
    BY <1>2, Zenon DEF NoFooter!Init
  <2>2. NInv(heap, listp, owned)
    BY <2>1 DEF NInv
  <2> QED
    BY <1>2, <2>2 DEF AllocInv
<1> QED
  BY <1>1, <1>2 DEF Init

LEMMA AllocStep ==
  ASSUME AllocInv, [Next]_vars
  PROVE  AllocInv' /\ [Abstract!Next]_owned /\ program' = program
<1>1. CASE program = "next fit" /\ NextFit!Next /\ UNCHANGED program
  <2>1. NFInv(heap', listp', owned') /\ [Abstract!Next]_owned
    BY <1>1, NFStep DEF AllocInv
  <2> QED
    BY <1>1, <2>1 DEF AllocInv
<1>2. CASE program = "no footer" /\ NoFooter!Next /\ UNCHANGED program
  <2>1. NInv(heap', listp', owned') /\ [Abstract!Next]_owned
    BY <1>2, NStep DEF AllocInv
  <2> QED
    BY <1>2, <2>1 DEF AllocInv
<1>3. CASE UNCHANGED vars
  BY <1>3 DEF vars, AllocInv
<1> QED
  BY <1>1, <1>2, <1>3 DEF Next

(* Whatever the sequence of mm_malloc, mm_free and mm_realloc, the heap is    *)
(* empty or a list of blocks that tile it up to mem_sbrk's break.  Next fit:  *)
(* footers repeat headers, no two free blocks are neighbours, the rover is at *)
(* a block, and the allocated blocks are the client's.  Without footers: free *)
(* blocks have theirs, and a header says that the block before it is free     *)
(* only when that block is no client's and its footer still stands.           *)
THEOREM AllocInvariance == Spec => []AllocInv
<1>1. Init => AllocInv
  BY AllocInitially
<1>2. AllocInv /\ [Next]_vars => AllocInv'
  BY AllocStep
<1> QED
  BY <1>1, <1>2, PTL DEF Spec

(* To its client either allocator is the abstract heap: what mm_malloc and    *)
(* mm_realloc return is aligned to 8 bytes, inside the heap and apart from    *)
(* every block still held, and no other call changes what is held.            *)
THEOREM Refinement == Spec => ClientView
<1>1. Init => Abstract!Init
  BY DEF Init, NextFit!Init, NoFooter!Init, Abstract!Init
<1>2. AllocInv /\ [Next]_vars => [Abstract!Next]_owned
  BY AllocStep
<1> QED
  BY <1>1, <1>2, AllocInvariance, PTL DEF Spec, ClientView, Abstract!Spec

-----------------------------------------------------------------------------
(* What the invariant says of the blocks NEXT_BLKP leads through *)

LEMMA NFEmptyHeap == NextFit!EmptyHeap \in NFHeaps
BY Widths DEF NextFit!EmptyHeap, NFHeaps, NextFit!Junk, Tags

LEMMA NFBlocks ==
  ASSUME NFInv(heap, listp, owned)
  PROVE  /\ listp # 0 => /\ listp = 8 /\ NFGood(heap, NextFit!Blocks, owned)
                         /\ NextFit!WalkEnd(heap, 8) = heap.brk
         /\ listp = 0 => /\ heap = NextFit!EmptyHeap /\ owned = {} /\ NextFit!Blocks = {}
<1>1. ASSUME NEW B, NFGood(heap, B, owned)
      PROVE  NFGood(heap, NextFit!Blocks, owned) /\ NextFit!WalkEnd(heap, 8) = heap.brk
  <2>1. NFList(heap, B) /\ 8 \in B /\ \A x \in B : 8 <= x
    BY <1>1, NFConstants DEF NFGood, NFReady, NFList, Tiles
  <2>2. NextFit!Walk(heap, 8) = {x \in B : 8 <= x} /\ NextFit!WalkEnd(heap, 8) = heap.brk
    BY <2>1, NFListWalk
  <2>3. NextFit!Blocks = B
    BY <2>1, <2>2, NFConstants DEF NextFit!Blocks
  <2> QED
    BY <1>1, <2>2, <2>3
<1>2. ASSUME heap = NextFit!EmptyHeap
      PROVE  NextFit!Blocks = {}
  <2>1. heap \in NFHeaps
    BY <1>2, NFEmptyHeap
  <2>2. NextFit!Size(heap, 8) = 0
    BY <1>2 DEF NextFit!EmptyHeap, NextFit!Size, NextFit!Get, NextFit!Junk
  <2>3. 8 \in 0 .. MAX_HEAP + UINT_MOD
    BY Widths
  <2> QED
    BY <2>1, <2>2, <2>3, NFWalkStep, NFConstants DEF NextFit!Blocks
<1> QED
  BY <1>1, <1>2 DEF NFInv

LEMMA NFWellFormed ==
  ASSUME NFInv(heap, listp, owned)
  PROVE  NextFit!WellFormed /\ NextFit!Held
<1>1. CASE listp = 0
  <2>1. heap = NextFit!EmptyHeap /\ owned = {} /\ NextFit!Blocks = {}
    BY <1>1, NFBlocks
  <2>2. NextFit!TypeOK
    BY <1>1, <2>1, NFEmptyHeap DEF NextFit!TypeOK, NFHeaps, Tags
  <2>3. NextFit!CheckHeap /\ NextFit!Coalesced /\ NextFit!RoverAtBlock /\ NextFit!Held
    BY <1>1, <2>1 DEF NextFit!CheckHeap, NextFit!Coalesced, NextFit!RoverAtBlock, NextFit!Held
  <2> QED
    BY <2>2, <2>3 DEF NextFit!WellFormed
<1>2. CASE listp # 0
  <2> DEFINE B == NextFit!Blocks
  <2>1. /\ listp = 8 /\ NFGood(heap, B, owned)
        /\ NextFit!WalkEnd(heap, NextFit!FirstBlock) = heap.brk
    BY <1>2, NFBlocks, NFConstants
  <2> HIDE DEF B
  <2>2. /\ NFList(heap, B) /\ heap \in NFHeaps /\ NFOwned(heap, B, owned)
        /\ heap.rover \in B \cup {heap.brk} /\ NFCoalesced(heap, B, {})
    BY <2>1 DEF NFGood, NFReady, NFList
  <2>3. NextFit!TypeOK
    <3>1. ASSUME NEW o \in owned
          PROVE  o.ptr \in 0 .. MAX_HEAP /\ o.size \in Requests
      <4>1. o.ptr \in B /\ o.size \in Requests
        BY <2>2 DEF NFOwned, NFHeld
      <4>2. o.ptr \in Nat /\ o.ptr < heap.brk /\ heap.brk \in 0 .. MAX_HEAP
        BY <2>2, <4>1, NFBlock DEF NFHeaps
      <4> QED
        BY <4>1, <4>2, Widths
    <3> QED
      BY <2>1, <2>2, <3>1, NFConstants DEF NextFit!TypeOK, NFHeaps, Tags
  <2>4. NextFit!CheckHeap
    <3>1. NextFit!Size(heap, 8) = 8 /\ NextFit!Alloc(heap, 8) = 1
      BY <2>2, NFMacros DEF NFList, NFTag
    <3>2. ASSUME NEW b \in B
          PROVE  /\ b % 8 = 0
                 /\ NextFit!Get(heap, NextFit!Hdrp(b)) = NextFit!Get(heap, NextFit!Ftrp(heap, b))
      <4>1. b % 8 = 0 /\ b \in Int
        BY <2>2, NFBlock
      <4>2. NextFit!Ftrp(heap, b) = NFNext(heap, b) - 8 /\ NextFit!Hdrp(b) = b - 4
        BY <2>2, <4>1, NFFooter, NFMacros
      <4> QED
        BY <2>2, <4>1, <4>2 DEF NFList, NFHdr
    <3>3. NextFit!Get(heap, NextFit!Hdrp(heap.brk)) = NextFit!Tag(0, 1, 0)
      <4>1. NextFit!Tag(0, 1, 0) = NFTag(0, 1)
        <5>1. 0 \in 0 .. UINT_MOD - 1 /\ 0 \in -1 .. 1 /\ 1 \in -1 .. 1
          BY Widths
        <5> QED
          BY <5>1, TagOf DEF NFTag
      <4> QED
        BY <2>2, <4>1, NFMacros DEF NFList, NFHdr
    <3> QED
      BY <2>1, <3>1, <3>2, <3>3, NFConstants DEF NextFit!CheckHeap, B
  <2>5. NextFit!Coalesced
    <3>1. \A b \in B : (NextFit!Free(heap, b) <=> NFHdr(heap, b).alloc = 0)
                        /\ NextFit!Next_(heap, b) = NFNext(heap, b)
      BY NFMacros
    <3> QED
      BY <2>2, <3>1 DEF NextFit!Coalesced, NFCoalesced, B
  <2>6. NextFit!RoverAtBlock
    BY <2>1, <2>2 DEF NextFit!RoverAtBlock, B
  <2>7. NextFit!Held
    <3>1. \A b \in B : NextFit!Alloc(heap, b) = NFHdr(heap, b).alloc
      BY NFMacros
    <3> QED
      BY <2>2, <3>1, NFConstants DEF NextFit!Held, NFOwned, NFHeld, B
  <2> QED
    BY <2>3, <2>4, <2>5, <2>6, <2>7 DEF NextFit!WellFormed
<1> QED
  BY <1>1, <1>2

LEMMA NEmptyHeap == NoFooter!EmptyHeap \in NHeaps
BY Widths DEF NoFooter!EmptyHeap, NHeaps, NoFooter!Junk, Tags

LEMMA NBlocks ==
  ASSUME NInv(heap, listp, owned)
  PROVE  /\ listp # 0 => /\ listp = 8 /\ NGood(heap, NoFooter!Blocks, owned)
                         /\ NoFooter!End = heap.brk
         /\ listp = 0 => /\ heap = NoFooter!EmptyHeap /\ owned = {} /\ NoFooter!Blocks = {}
                         /\ NoFooter!End = 8
<1>1. ASSUME NEW B, NGood(heap, B, owned)
      PROVE  NGood(heap, NoFooter!Blocks, owned) /\ NoFooter!End = heap.brk
  <2>1. NList(heap, B) /\ 8 \in B /\ \A x \in B : 8 <= x
    BY <1>1, NConstants DEF NGood, NSafe, NList, Tiles
  <2>2. NoFooter!Walk(heap, 8) = {x \in B : 8 <= x} /\ NoFooter!WalkEnd(heap, 8) = heap.brk
    BY <2>1, NListWalk
  <2>3. NoFooter!Blocks = B /\ NoFooter!End = heap.brk
    BY <2>1, <2>2, NConstants DEF NoFooter!Blocks, NoFooter!End
  <2> QED
    BY <1>1, <2>3
<1>2. ASSUME heap = NoFooter!EmptyHeap
      PROVE  NoFooter!Blocks = {} /\ NoFooter!End = 8
  <2>1. heap \in NHeaps
    BY <1>2, NEmptyHeap
  <2>2. NoFooter!Size(heap, 8) = 0
    BY <1>2 DEF NoFooter!EmptyHeap, NoFooter!Size, NoFooter!Get, NoFooter!Junk
  <2>3. 8 \in 0 .. NO_FOOTER_HEAP + UINT_MOD
    BY Widths
  <2> QED
    BY <2>1, <2>2, <2>3, NWalkStep, NConstants DEF NoFooter!Blocks, NoFooter!End
<1> QED
  BY <1>1, <1>2 DEF NInv

LEMMA NWellFormed ==
  ASSUME NInv(heap, listp, owned)
  PROVE  NoFooter!WellFormed /\ NoFooter!PrevBitSafe
<1>1. CASE listp = 0
  <2>1. heap = NoFooter!EmptyHeap /\ owned = {} /\ NoFooter!Blocks = {} /\ NoFooter!End = 8
    BY <1>1, NBlocks
  <2>2. NoFooter!TypeOK
    BY <1>1, <2>1, NEmptyHeap DEF NoFooter!TypeOK, NHeaps, Tags
  <2>3. NoFooter!ListIntact /\ NoFooter!PrevBitSafe
    BY <1>1, <2>1, NConstants DEF NoFooter!ListIntact, NoFooter!PrevBitSafe
  <2> QED
    BY <2>2, <2>3 DEF NoFooter!WellFormed
<1>2. CASE listp # 0
  <2> DEFINE B == NoFooter!Blocks
  <2>1. /\ listp = 8 /\ NGood(heap, B, owned) /\ NoFooter!End = heap.brk
    BY <1>2, NBlocks
  <2> HIDE DEF B
  <2>2. /\ NList(heap, B) /\ heap \in NHeaps /\ NRoom(heap, owned)
        /\ NSafe(heap, B, Ptrs(owned))
    BY <2>1 DEF NGood, NSafe, NList
  <2>3. NoFooter!TypeOK
    <3>1. ASSUME NEW o \in owned
          PROVE  o.ptr \in 0 .. MAX_HEAP /\ o.size \in Requests /\ o.ptr \in 0 .. NO_FOOTER_HEAP
      <4>1. o.ptr \in B /\ o.size \in Requests
        BY <2>2 DEF NRoom, NSafe, Ptrs
      <4>2. o.ptr \in Nat /\ o.ptr < heap.brk /\ heap.brk \in 0 .. NO_FOOTER_HEAP
        BY <2>2, <4>1, NBlock DEF NHeaps
      <4> QED
        BY <4>1, <4>2, Widths
    <3> QED
      BY <2>1, <2>2, <3>1, NConstants DEF NoFooter!TypeOK, NHeaps, Tags
  <2>4. NoFooter!ListIntact
    <3>1. NoFooter!Size(heap, 8) = 8 /\ NoFooter!Alloc(heap, 8) = 1
      BY <2>2, NMacros DEF NList
    <3>2. \A b \in B : b % 8 = 0 /\ NoFooter!Alloc(heap, b) \in 0 .. 1
      BY <2>2, NBlock, NMacros DEF NList
    <3>3. NoFooter!Alloc(heap, heap.brk) = 1
      BY <2>2, NMacros DEF NList
    <3> QED
      BY <2>1, <3>1, <3>2, <3>3, NConstants DEF NoFooter!ListIntact, B
  <2>5. NoFooter!PrevBitSafe
    <3> SUFFICES ASSUME NEW x \in (B \cup {heap.brk}) \ {8}, NoFooter!PrevAlloc(heap, x) = 0
                 PROVE  \E b \in B : /\ NoFooter!Next_(heap, b) = x
                                     /\ b \notin {o.ptr : o \in owned}
                                     /\ NoFooter!Get(heap, x - 8).size = NoFooter!Size(heap, b)
      BY <2>1, NConstants DEF NoFooter!PrevBitSafe, B
    <3>1. NHdr(heap, x).prev = 0
      BY NMacros DEF NoFooter!PrevAlloc, NHdr
    <3>2. PICK b \in B \ {8} : NNext(heap, b) = x /\ NFooted(heap, b) /\ b \notin Ptrs(owned)
      BY <2>2, <3>1 DEF NSafe, NReached
    <3> QED
      BY <3>2, NMacros DEF NFooted, Ptrs
  <2> QED
    BY <2>3, <2>4, <2>5 DEF NoFooter!WellFormed
<1> QED
  BY <1>1, <1>2

(* mm_checkheap's conditions hold after every sequence of calls: the blocks   *)
(* of the walk are aligned, lead from the prologue to the epilogue at the     *)
(* break; with footers equal to headers, no free neighbours and a rover on a  *)
(* block in the next-fit heap, past overwritten footers in the other.         *)
THEOREM HeapsWellFormed == Spec => []WellFormed
<1>1. AllocInv => WellFormed
  BY NFWellFormed, NWellFormed DEF AllocInv, WellFormed
<1> QED
  BY <1>1, AllocInvariance, PTL

(* In the next-fit heap a block is marked allocated exactly while the client  *)
(* holds it: place and coalesce neither leak a block nor hand one out twice.  *)
THEOREM HeldExactly == Spec => []Held
<1>1. AllocInv => Held
  BY NFWellFormed DEF AllocInv, Held
<1> QED
  BY <1>1, AllocInvariance, PTL

(* Without footers, a header whose bit says that the block before is free     *)
(* follows a block no client holds and whose footer still stands: what        *)
(* coalesce reads there is never a client's data.                             *)
THEOREM PrevBitIsSafe == Spec => []PrevBitSafe
<1>1. AllocInv => PrevBitSafe
  BY NWellFormed DEF AllocInv, PrevBitSafe
<1> QED
  BY <1>1, AllocInvariance, PTL

(* FREE and GET of MemLib are those of the next-fit allocator. *)
LEMMA SameFits ==
  ASSUME NEW h, NEW B, NEW asize
  PROVE  Fits(h, B, asize) = NextFit!Fits(h, B, asize)
<1>1. Words = NextFit!Words /\ Junk = NextFit!Junk /\ WSIZE = NextFit!WSIZE
  BY DEF Words, NextFit!Words, Junk, NextFit!Junk, WSIZE, NextFit!WSIZE
<1>2. \A p : Get(h, p) = NextFit!Get(h, p)
  BY <1>1 DEF Get, NextFit!Get
<1>3. \A b : Free(h, b) = NextFit!Free(h, b) /\ Size(h, b) = NextFit!Size(h, b)
  BY <1>1, <1>2, Zenon DEF Free, NextFit!Free, Alloc, NextFit!Alloc, Size, NextFit!Size
<1> QED
  BY <1>3 DEF Fits, NextFit!Fits

(* find_fit misses no block: the next-fit heap grows only when no free block  *)
(* is large enough, wherever the rover stands.                                *)
THEOREM GrowsOnlyWhenFullAlways == Spec => GrowsOnlyWhenFull
<1>1. ASSUME AllocInv, program = "next fit", NEW size \in Requests,
             NextFit!Malloc(size), listp # 0, heap'.brk > heap.brk
      PROVE  Fits(heap, NextFit!Blocks, NextFit!Adjust(size)) = {}
  <2> DEFINE B == NextFit!Blocks
  <2>1. NFGood(heap, B, owned)
    BY <1>1, NFBlocks DEF AllocInv
  <2> HIDE DEF B
  <2> DEFINE r == NextFit!Allocate(heap, size)
  <2>2. \/ r[2] = 0 /\ heap' = r[1]
        \/ r[2] # 0 /\ heap' = NextFit!Written(r[1], r[2], size)
    BY <1>1, NFConstants DEF NextFit!Malloc, NextFit!Ready
  <2>3. /\ \/ r[2] = 0
           \/ NFHanded(r[1], owned, r[2], size)
        /\ r[1].brk = heap.brk \/ NextFit!Fits(heap, B, NextFit!Adjust(size)) = {}
    <3>1. r = NextFit!Allocate(heap, size)
      OBVIOUS
    <3> HIDE DEF r
    <3> QED
      BY <2>1, <3>1, NFAllocate
  <2> HIDE DEF r
  <2>4. heap'.brk = r[1].brk
    <3>1. CASE r[2] = 0
      BY <2>2, <3>1
    <3>2. CASE r[2] # 0
      <4>1. r[1] \in NFHeaps
        BY <2>3, <3>2 DEF NFHanded, NFList
      <4> QED
        BY <2>2, <3>2, <4>1 DEF NextFit!Written, NFHeaps
    <3> QED
      BY <3>1, <3>2
  <2>5. heap.brk \in Nat
    BY <2>1 DEF NFGood, NFReady, NFList, NFHeaps
  <2>6. NextFit!Fits(heap, B, NextFit!Adjust(size)) = {}
    <3>1. heap'.brk > heap.brk
      BY <1>1, Zenon
    <3>2. r[1].brk # heap.brk
      BY <2>4, <2>5, <3>1
    <3> QED
      BY <2>3, <3>2, Zenon
  <2> QED
    BY <2>6, SameFits DEF B
<1>2. AllocInv /\ [Next]_vars =>
        [program = "next fit" =>
         \A size \in Requests :
            NextFit!Malloc(size) /\ listp # 0 /\ heap'.brk > heap.brk
                => Fits(heap, NextFit!Blocks, NextFit!Adjust(size)) = {}]_vars
  BY <1>1
<1> QED
  BY <1>2, AllocInvariance, PTL DEF Spec, GrowsOnlyWhenFull
=============================================================================
