------------------------------ MODULE MMNextFit ------------------------------
(***************************************************************************)
(* The allocator of src/vm/9.17/mm_ans.c (the same as 9.17/mm.c and        *)
(* 9.20_17/mm.c): implicit list, headers and footers, next fit with a      *)
(* rover, immediate coalescing.                                            *)
(***************************************************************************)
EXTENDS MemLib

VARIABLES heap,    \* [mem, brk, rover]
          listp,   \* heap_listp: 0 before mm_init
          owned    \* the blocks the client holds, [ptr, size]

vars == <<heap, listp, owned>>

PutTags(h, hp, fp, size, alloc) ==
    Put(Put(h, hp, Tag(size, alloc, 0)), fp, Tag(size, alloc, 0))
(* header first: FTRP is computed from it *)
PutBlock(h, bp, size, alloc) ==
    LET g == Put(h, Hdrp(bp), Tag(size, alloc, 0))
    IN  Put(g, Ftrp(g, bp), Tag(size, alloc, 0))

-----------------------------------------------------------------------------
(* MUTANT: a rover inside the coalesced block is left there. *)
FixRoverForgotten(h, bp) == h
FixRover(h, bp) ==
    IF h.rover > bp /\ h.rover < Next_(h, bp) THEN [h EXCEPT !.rover = bp] ELSE h

(* coalesce: <<heap, block>> *)
Coalesce(h, bp) ==
    LET prev == Prev_(h, bp)
        next == Next_(h, bp)
        prevAlloc == Get(h, Ftrp(h, prev)).alloc # 0
        nextAlloc == Alloc(h, next) # 0
        size == Size(h, bp)
        merged ==
            CASE prevAlloc /\ ~nextAlloc  -> PutBlock(h, bp, size + Size(h, next), 0)
              [] ~prevAlloc /\ nextAlloc  ->
                    PutTags(h, Hdrp(prev), Ftrp(h, bp), size + Size(h, prev), 0)
              [] ~prevAlloc /\ ~nextAlloc ->
                    PutTags(h, Hdrp(prev), Ftrp(h, next),
                            size + Size(h, prev) + Get(h, Ftrp(h, next)).size, 0)
        res == IF prevAlloc THEN bp ELSE prev
    IN  IF prevAlloc /\ nextAlloc THEN <<h, bp>> ELSE <<FixRover(merged, res), res>>

(* extend_heap: <<heap, block or NULL>> *)
ExtendHeap(h, words) ==
    LET size == ((words + (words % 2)) * WSIZE) % SIZE_MOD
        bp   == h.brk
        g1   == [h EXCEPT !.brk = @ + ToInt(size)]
        g2   == PutBlock(g1, bp, size, 0)
        g3   == Put(g2, Hdrp(Next_(g2, bp)), Tag(0, 1, 0))
    IN  IF SbrkFails(h, size) THEN <<h, NULL>> ELSE Coalesce(g3, bp)

Initialised ==
    LET g1 == [EmptyHeap EXCEPT !.brk = 4 * WSIZE, !.rover = FirstBlock]
        g2 == PutTags(g1, WSIZE, 2 * WSIZE, DSIZE, 1)
        g3 == Put(g2, 3 * WSIZE, Tag(0, 1, 0))
    IN  ExtendHeap(g3, CHUNKSIZE \div WSIZE)[1]

(* MUTANT: no allocated bit when the block is not split. *)
PlaceUnmarked(h, bp, asize) ==
    LET csize == Size(h, bp)
        rest  == (csize - asize) % SIZE_MOD
        g     == PutBlock(h, bp, asize, 1)
    IN  IF rest >= 2 * DSIZE THEN PutBlock(g, Next_(g, bp), rest, 0)
                             ELSE PutBlock(h, bp, csize, 0)
(* place: csize - asize is a size_t *)
Place(h, bp, asize) ==
    LET csize == Size(h, bp)
        rest  == (csize - asize) % SIZE_MOD
        g     == PutBlock(h, bp, asize, 1)
    IN  IF rest >= 2 * DSIZE THEN PutBlock(g, Next_(g, bp), rest, 0)
                             ELSE PutBlock(h, bp, csize, 1)

(* MUTANT: the blocks before the rover are not searched. *)
FindFitAhead(h, asize) ==
    LET ahead == Fits(h, Walk(h, h.rover), asize)
    IN  IF ahead = {} THEN <<h, NULL>>
                      ELSE <<[h EXCEPT !.rover = Min(ahead)], Min(ahead)>>
(* find_fit: from the rover to the end, then from the start to the old rover; *)
(* <<heap, block or NULL>>                                                    *)
FindFit(h, asize) ==
    LET ahead  == Fits(h, Walk(h, h.rover), asize)
        behind == {bp \in Fits(h, Walk(h, FirstBlock), asize) : bp < h.rover}
        found  == IF ahead # {} THEN Min(ahead) ELSE Min(behind)
    IN  IF ahead \cup behind = {} THEN <<h, NULL>>
                                  ELSE <<[h EXCEPT !.rover = found], found>>

(* size + DSIZE + (DSIZE-1) is a size_t: it wraps. *)
Adjust(size) == IF size <= DSIZE
                THEN 2 * DSIZE
                ELSE DSIZE * (((size + DSIZE + (DSIZE - 1)) % SIZE_MOD) \div DSIZE)

(* mm_malloc on an initialised heap: <<heap, payload or NULL>> *)
Allocate(h, size) ==
    LET asize == Adjust(size)
        fit   == FindFit(h, asize)
        more  == ExtendHeap(fit[1], (IF asize > CHUNKSIZE THEN asize ELSE CHUNKSIZE) \div WSIZE)
        got   == IF fit[2] # NULL THEN fit ELSE more
    IN  IF size = 0 THEN <<h, NULL>>
        ELSE IF got[2] = NULL THEN got
        ELSE <<Place(got[1], got[2], asize), got[2]>>

(* mm_free of a block *)
Release(h, bp) == Coalesce(PutBlock(h, bp, Size(h, bp), 0), bp)[1]

-----------------------------------------------------------------------------
Ready == IF listp = 0 THEN Initialised ELSE heap

Init == heap = EmptyHeap /\ listp = 0 /\ owned = {}

(* A client asks for a block and fills it. *)
Malloc(size) ==
    LET r == Allocate(Ready, size)
    IN  /\ listp' = FirstBlock
        /\ IF r[2] = NULL
           THEN heap' = r[1] /\ UNCHANGED owned
           ELSE /\ heap' = Written(r[1], r[2], size)
                /\ owned' = owned \cup {[ptr |-> r[2], size |-> size]}

MFree(b) ==
    /\ heap' = Release(heap, b.ptr)
    /\ owned' = owned \ {b}
    /\ UNCHANGED listp

(* MUTANT: mm_realloc does not free the old block. *)
ReallocKeepsOld(b, size) ==
    LET r == Allocate(heap, size)
    IN  /\ size # 0
        /\ IF r[2] = NULL
           THEN heap' = r[1] /\ UNCHANGED owned
           ELSE /\ heap' = Written(r[1], r[2], size)
                /\ owned' = (owned \ {b}) \cup {[ptr |-> r[2], size |-> size]}
        /\ UNCHANGED listp
(* mm_realloc with a block and a size other than 0; with neither it is one   *)
(* of the two above.                                                          *)
Realloc(b, size) ==
    LET r == Allocate(heap, size)
        copied == Written(r[1], r[2], size)
    IN  /\ size # 0
        /\ IF r[2] = NULL
           THEN heap' = r[1] /\ UNCHANGED owned
           ELSE /\ heap' = Release(copied, b.ptr)
                /\ owned' = (owned \ {b}) \cup {[ptr |-> r[2], size |-> size]}
        /\ UNCHANGED listp

Next == \/ \E size \in Requests : Malloc(size)
        \/ \E b \in owned : MFree(b) \/ \E size \in Requests : Realloc(b, size)

Spec == Init /\ [][Next]_vars

-----------------------------------------------------------------------------
(* PROPERTIES *)

Blocks == Walk(heap, FirstBlock)

TypeOK == /\ heap.mem \in [Words -> [size : 0 .. UINT_MOD - 1, alloc : -1 .. 1, prev : -1 .. 1]]
          /\ heap.brk \in 0 .. MAX_HEAP /\ heap.rover \in 0 .. MAX_HEAP
          /\ listp \in {0, FirstBlock}
          /\ \A b \in owned : b.ptr \in 0 .. MAX_HEAP /\ b.size \in Requests

(* mm_checkheap, "Check the heap for correctness": a prologue, then blocks   *)
(* that are aligned and whose header matches their footer, then an epilogue  *)
(* that ends exactly where the heap does.                                    *)
CheckHeap == listp # 0 =>
    /\ Size(heap, FirstBlock) = DSIZE /\ Alloc(heap, FirstBlock) = 1
    /\ \A bp \in Blocks : /\ bp % 8 = 0
                          /\ Get(heap, Hdrp(bp)) = Get(heap, Ftrp(heap, bp))
    /\ LET e == WalkEnd(heap, FirstBlock)
       IN  e = heap.brk /\ Get(heap, Hdrp(e)) = Tag(0, 1, 0)

(* "boundary tag coalescing": two free blocks never lie side by side.        *)
Coalesced == \A bp \in Blocks :
    Free(heap, bp) => Next_(heap, bp) \notin {b \in Blocks : Free(heap, b)}

(* A block is marked allocated exactly while the client holds it: a sequence *)
(* of calls neither leaks a block nor leaves a held one to be handed out.    *)
Held == {bp \in Blocks \ {FirstBlock} : Alloc(heap, bp) = 1} = {b.ptr : b \in owned}

(* "Make sure the rover isn't pointing into the free block that we just      *)
(* coalesced": the search always starts at a block.                          *)
RoverAtBlock == listp # 0 => heap.rover \in Blocks \cup {WalkEnd(heap, FirstBlock)}

(* The heap is well formed after every sequence of calls: words of the right *)
(* width, mm_checkheap's list without neighbouring free blocks, and a rover  *)
(* on it.                                                                    *)
WellFormed == TypeOK /\ CheckHeap /\ Coalesced /\ RoverAtBlock
=============================================================================
