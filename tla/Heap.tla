-------------------------------- MODULE Heap --------------------------------
(***************************************************************************)
(* What mm_malloc, mm_free and mm_realloc of src/vm promise a client: a    *)
(* block "with at least size bytes of payload", aligned to 8 bytes, inside *)
(* the heap and apart from every other block the client holds; or NULL and *)
(* nothing changed.                                                        *)
(***************************************************************************)
EXTENDS Naturals

CONSTANTS MAX_HEAP,   \* bytes of the heap
          Requests    \* the sizes the client asks for

VARIABLE owned        \* the blocks the client holds, [ptr, size]

Bytes(b) == b.ptr .. b.ptr + b.size - 1

Fresh(b, held) == /\ b.ptr % 8 = 0
                  /\ Bytes(b) \subseteq 0 .. MAX_HEAP - 1
                  /\ \A o \in held : Bytes(o) \cap Bytes(b) = {}

Init == owned = {}

Malloc(size) == \E p \in 0 .. MAX_HEAP - 1 :
    LET b == [ptr |-> p, size |-> size]
    IN  /\ Fresh(b, owned)
        /\ owned' = owned \cup {b}
Free(b) == b \in owned /\ owned' = owned \ {b}
Realloc(o, size) == \E p \in 0 .. MAX_HEAP - 1 :
    LET b == [ptr |-> p, size |-> size]
    IN  /\ o \in owned
        /\ Fresh(b, owned)
        /\ owned' = (owned \ {o}) \cup {b}

Next == \/ \E size \in Requests : Malloc(size)
        \/ \E b \in owned : Free(b) \/ \E size \in Requests : Realloc(b, size)

Spec == Init /\ [][Next]_owned
=============================================================================
