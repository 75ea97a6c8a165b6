----------------------------- MODULE MMNoFooter -----------------------------
(***************************************************************************)
(* The allocator of src/vm/9.18/mm.c (the same as 9.20_18/mm.c): implicit  *)
(* list, first fit, allocated blocks without footers: each header carries  *)
(* in bit 1 whether the block before it is allocated.                      *)
(***************************************************************************)
EXTENDS MemLib

VARIABLES heap,    \* [mem, brk, rover]; the rover is not compiled in
          listp,   \* heap_listp: 0 before mm_init
          owned    \* the blocks the client holds, [ptr, size]

vars == <<heap, listp, owned>>

PrevAlloc(h, bp) == Get(h, Hdrp(bp)).prev
PutHdr(h, bp, size, alloc, prev) == Put(h, Hdrp(bp), Tag(size, alloc, prev))
(* A free block: header, then the footer FTRP computes from it. *)
PutFree(h, bp, size, prev) ==
    LET g == PutHdr(h, bp, size, 0, prev)
    IN  Put(g, Ftrp(g, bp), Tag(size, 0, prev))

-----------------------------------------------------------------------------
(* coalesce: <<heap, block>>.  Case 1 returns at once: the next block's      *)
(* record of this one stays as it is.                                        *)
Coalesce(h, bp) ==
    LET prevAlloc == PrevAlloc(h, bp) # 0
        nextAlloc == Alloc(h, Next_(h, bp)) # 0
        prev == Prev_(h, bp)
        next == Next_(h, bp)
        size == Size(h, bp)
        Merge(p, fp, n) == Put(PutHdr(h, p, n, 0, 1), fp, Tag(n, 0, 1))
    IN  CASE prevAlloc /\ nextAlloc   -> <<h, bp>>
          [] prevAlloc /\ ~nextAlloc  -> <<PutFree(h, bp, size + Size(h, next), 1), bp>>
          [] ~prevAlloc /\ nextAlloc  -> <<Merge(prev, Ftrp(h, bp), size + Size(h, prev)), prev>>
          [] ~prevAlloc /\ ~nextAlloc ->
                <<Merge(prev, Ftrp(h, next),
                        size + Size(h, prev) + Get(h, Ftrp(h, next)).size), prev>>

(* extend_heap: <<heap, block or NULL>>.  The new header takes its prev bit   *)
(* from the old epilogue; the new epilogue's is 0.                            *)
ExtendHeap(h, words) ==
    LET size == ((words + (words % 2)) * WSIZE) % SIZE_MOD
        bp   == h.brk
        g1   == [h EXCEPT !.brk = @ + ToInt(size)]
        g2   == PutFree(g1, bp, size, PrevAlloc(h, bp))
        g3   == PutHdr(g2, Next_(g2, bp), 0, 1, 0)
    IN  IF SbrkFails(h, size) THEN <<h, NULL>> ELSE Coalesce(g3, bp)

Initialised ==
    LET g1 == [EmptyHeap EXCEPT !.brk = 4 * WSIZE]
        g2 == Put(Put(g1, WSIZE, Tag(DSIZE, 1, 1)), 2 * WSIZE, Tag(DSIZE, 1, 1))
        g3 == Put(g2, 3 * WSIZE, Tag(0, 1, 1))
    IN  ExtendHeap(g3, CHUNKSIZE \div WSIZE)[1]

(* MUTANT: the next header is left as it is. *)
PlaceForgetsNext(h, bp, asize) ==
    LET csize == Size(h, bp)
        rest  == (csize - asize) % SIZE_MOD
        cut   == PutHdr(h, bp, asize, 1, PrevAlloc(h, bp))
        whole == PutHdr(h, bp, csize, 1, PrevAlloc(h, bp))
    IN  IF rest >= DSIZE THEN PutFree(cut, Next_(cut, bp), rest, 1)
                         ELSE whole
(* place.  Without a split the next header is rewritten as that of an         *)
(* allocated block.                                                           *)
Place(h, bp, asize) ==
    LET csize == Size(h, bp)
        rest  == (csize - asize) % SIZE_MOD
        cut   == PutHdr(h, bp, asize, 1, PrevAlloc(h, bp))
        whole == PutHdr(h, bp, csize, 1, PrevAlloc(h, bp))
        next  == Next_(whole, bp)
    IN  IF rest >= DSIZE THEN PutFree(cut, Next_(cut, bp), rest, 1)
                         ELSE PutHdr(whole, next, Size(whole, next), 1, 1)

(* find_fit: first fit *)
FindFit(h, asize) ==
    LET fits == Fits(h, Walk(h, FirstBlock), asize)
    IN  IF fits = {} THEN NULL ELSE Min(fits)

Adjust(size) == IF size <= WSIZE
                THEN DSIZE
                ELSE DSIZE * (((size + DSIZE + (DSIZE - 1)) % SIZE_MOD) \div DSIZE)

(* mm_malloc on an initialised heap: <<heap, payload or NULL>> *)
Allocate(h, size) ==
    LET asize == Adjust(size)
        fit   == FindFit(h, asize)
        more  == ExtendHeap(h, (IF asize > CHUNKSIZE THEN asize ELSE CHUNKSIZE) \div WSIZE)
        got   == IF fit # NULL THEN <<h, fit>> ELSE more
    IN  IF size = 0 THEN <<h, NULL>>
        ELSE IF got[2] = NULL THEN got
        ELSE <<Place(got[1], got[2], asize), got[2]>>

(* mm_free of a block *)
Release(h, bp) == Coalesce(PutFree(h, bp, Size(h, bp), PrevAlloc(h, bp)), bp)[1]

-----------------------------------------------------------------------------
Ready == IF listp = 0 THEN Initialised ELSE heap

Init == heap = EmptyHeap /\ listp = 0 /\ owned = {}

(* A client asks for a block and fills it. *)
Malloc(size) ==
    LET r == Allocate(Ready, size)
    IN  /\ listp' = FirstBlock
        /\ IF r[2] = NULL
           THEN heap' = r[1] /\ UNCHANGED owned
           ELSE /\ heap' = Written(r[1], r[2], size)
                /\ owned' = owned \cup {[ptr |-> r[2], size |-> size]}

MFree(b) ==
    /\ heap' = Release(heap, b.ptr)
    /\ owned' = owned \ {b}
    /\ UNCHANGED listp

(* mm_realloc with a block and a size other than 0. *)
Realloc(b, size) ==
    LET r == Allocate(heap, size)
        copied == Written(r[1], r[2], size)
    IN  /\ size # 0
        /\ IF r[2] = NULL
           THEN heap' = r[1] /\ UNCHANGED owned
           ELSE /\ heap' = Release(copied, b.ptr)
                /\ owned' = (owned \ {b}) \cup {[ptr |-> r[2], size |-> size]}
        /\ UNCHANGED listp

Next == \/ \E size \in Requests : Malloc(size)
        \/ \E b \in owned : MFree(b) \/ \E size \in Requests : Realloc(b, size)

Spec == Init /\ [][Next]_vars

-----------------------------------------------------------------------------
(* PROPERTIES *)

Blocks == Walk(heap, FirstBlock)
End    == WalkEnd(heap, FirstBlock)

TypeOK == /\ heap.mem \in [Words -> [size : 0 .. UINT_MOD - 1, alloc : -1 .. 1, prev : -1 .. 1]]
          /\ heap.brk \in 0 .. MAX_HEAP
          /\ listp \in {0, FirstBlock}
          /\ \A b \in owned : b.ptr \in 0 .. MAX_HEAP /\ b.size \in Requests

(* The list stays a list although the client writes over the footers of      *)
(* allocated blocks: from the prologue, aligned headers lead to an epilogue  *)
(* that ends where the heap does.                                            *)
ListIntact == listp # 0 =>
    /\ Size(heap, FirstBlock) = DSIZE /\ Alloc(heap, FirstBlock) = 1
    /\ \A bp \in Blocks : bp % 8 = 0 /\ Alloc(heap, bp) \in 0 .. 1
    /\ End = heap.brk /\ Alloc(heap, End) = 1

(* The heap is well formed: words of the right width, and the list.          *)
WellFormed == TypeOK /\ ListIntact

(* When a header says that the block before is free, coalesce will merge it:  *)
(* that block is held by no client, and the footer through which it is       *)
(* reached has not been overwritten.                                         *)
PrevBitSafe == \A bp \in (Blocks \cup {End}) \ {FirstBlock} :
    PrevAlloc(heap, bp) = 0 =>
        \E b \in Blocks : /\ Next_(heap, b) = bp
                          /\ b \notin {o.ptr : o \in owned}
                          /\ Get(heap, bp - DSIZE).size = Size(heap, b)

(* "Pack a size and allocated bit into a word" (line 27): a block whose       *)
(* allocated bit is set is one that was handed out and not freed.             *)
AllocatedHeld == {bp \in Blocks \ {FirstBlock} : Alloc(heap, bp) = 1}
                     \subseteq {b.ptr : b \in owned}
=============================================================================
