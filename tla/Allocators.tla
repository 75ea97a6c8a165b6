----------------------------- MODULE Allocators -----------------------------
(***************************************************************************)
(* The two programs behind src/vm/9.17/mm.h and src/vm/9.18/mm.h over one  *)
(* client: the next-fit allocator and the one without footers.  To the     *)
(* client both are the abstract heap.                                      *)
(***************************************************************************)
EXTENDS MemLib

CONSTANT NO_FOOTER_HEAP   \* MAX_HEAP of the allocator without footers
ASSUME HeapAssumption == /\ NO_FOOTER_HEAP \in 4 * WSIZE .. MAX_HEAP
                         /\ NO_FOOTER_HEAP % WSIZE = 0

VARIABLES program,              \* the allocator linked with the client
          heap, listp, owned    \* as in MMNextFit and MMNoFooter

vars == <<program, heap, listp, owned>>

NextFit  == INSTANCE MMNextFit
NoFooter == INSTANCE MMNoFooter WITH MAX_HEAP <- NO_FOOTER_HEAP

Init == \/ program = "next fit"  /\ NextFit!Init
        \/ program = "no footer" /\ NoFooter!Init

Next == /\ \/ program = "next fit"  /\ NextFit!Next
           \/ program = "no footer" /\ NoFooter!Next
        /\ UNCHANGED program

Spec == Init /\ [][Next]_vars

-----------------------------------------------------------------------------
(* PROPERTIES *)

(* mm_checkheap, "Check the heap for correctness": after any sequence of     *)
(* calls the words have their width, and aligned blocks lead from a prologue *)
(* to an epilogue that ends where the heap does; with footers that match     *)
(* their headers, no two free neighbours ("boundary tag coalescing") and a   *)
(* rover on a block in the one, past overwritten footers in the other.       *)
WellFormed == IF program = "next fit" THEN NextFit!WellFormed ELSE NoFooter!WellFormed

(* In the next-fit heap a block is marked allocated exactly while the client *)
(* holds it: no sequence of calls leaks a block or hands one out twice.      *)
Held == program = "next fit" => NextFit!Held

(* coalesce without footers merges only blocks whose footer still stands.    *)
PrevBitSafe == program = "no footer" => NoFooter!PrevBitSafe

(* The next-fit heap grows only when no free block is large enough, wherever *)
(* the rover stands.                                                         *)
GrowsOnlyWhenFull ==
    [][program = "next fit" =>
         \A size \in Requests :
            NextFit!Malloc(size) /\ listp # 0 /\ heap'.brk > heap.brk
                => Fits(heap, NextFit!Blocks, NextFit!Adjust(size)) = {}]_vars

(* To its client either allocator is the abstract heap.                      *)
Abstract == INSTANCE Heap
ClientView == Abstract!Spec
=============================================================================
