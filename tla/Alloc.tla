-------------------------------- MODULE Alloc --------------------------------
(***************************************************************************)
(* The global allocator of bench/smoltcp-s3/src/lib.rs: malloc of the      *)
(* shim, which aligns to 16 bytes, and over it blocks of a larger          *)
(* alignment, whose raw pointer is stashed in the word before them.        *)
(*                                                                         *)
(* Threads call it concurrently; what one call reads and writes lies in    *)
(* blocks of its caller, so a call is one step.  The holders of blocks     *)
(* write what they like into them, and only there.  Alignments above 16    *)
(* need not be powers of two here; for those the code gets, masking with   *)
(* !(align - 1) is AlignUp.                                                *)
(***************************************************************************)
EXTENDS Integers

VARIABLES heap,     \* malloc's live blocks: their length by their address
          live,     \* blocks handed out and not yet returned
          word      \* the pointer-sized word at every address

heapvars == <<heap, live, word>>

Ptr == 8            \* size_of::<*mut u8>()
MallocAlign == 16

Aligns == {1, 2, 4, 8, 16} \union {a \in Nat : a > MallocAlign}
Block == [ptr : Nat, size : Nat \ {0}, align : Aligns]

\* Two ranges of addresses without a common one.
Apart(a, n, b, m) == a + n <= b \/ b + m <= a

HeapInit == DOMAIN heap = {} /\ live = {} /\ word \in [Nat -> Nat]

-----------------------------------------------------------------------------
(* malloc and free *)

\* What malloc may return for n bytes beside the blocks of h.
Fresh(h, r, n) ==
    /\ r \in Nat \ {0} /\ r % MallocAlign = 0
    /\ \A a \in DOMAIN h : Apart(r, n, a, h[a])

With(h, r, n) == [a \in DOMAIN h \union {r} |-> IF a = r THEN n ELSE h[a]]
Without(h, r) == [a \in DOMAIN h \ {r} |-> h[a]]

\* Words that do not overlap n bytes from address a keep their value.
OnlyTouches(a, n) ==
    /\ word' \in [Nat -> Nat]
    /\ \A x \in Nat : Apart(x, Ptr, a, n) => word'[x] = word[x]

-----------------------------------------------------------------------------
(* GlobalAlloc *)

AlignUp(x, align) == ((x + align - 1) \div align) * align

Asked(size, align) == size + align + Ptr
Aligned(r, align) == AlignUp(r + Ptr, align)

\* The pointer to free, for a block handed out.
Raw(b) == IF b.align <= MallocAlign THEN b.ptr ELSE word[b.ptr - Ptr]

alloc(size, align) ==
    \/ /\ align <= MallocAlign
       /\ \E r \in Nat :
             /\ Fresh(heap, r, size)
             /\ heap' = With(heap, r, size)
             /\ live' = live \union {[ptr |-> r, size |-> size, align |-> align]}
       /\ UNCHANGED word
    \/ /\ align > MallocAlign
       /\ \E r \in Nat :
             /\ Fresh(heap, r, Asked(size, align))
             /\ heap' = With(heap, r, Asked(size, align))
             /\ live' = live \union {[ptr |-> Aligned(r, align), size |-> size, align |-> align]}
             /\ OnlyTouches(Aligned(r, align) - Ptr, Ptr)
             /\ word'[Aligned(r, align) - Ptr] = r
    \/ UNCHANGED heapvars   \* null

dealloc(b) ==
    /\ heap' = Without(heap, Raw(b))
    /\ live' = live \ {b}
    /\ UNCHANGED word

\* The small case is malloc's own realloc, which may stay in place; the other
\* allocates, copies, and frees the old block through its slot.
realloc(b, size) ==
    \/ /\ b.align <= MallocAlign
       /\ \E r \in Nat :
             /\ Fresh(Without(heap, b.ptr), r, size)
             /\ heap' = With(Without(heap, b.ptr), r, size)
             /\ live' = (live \ {b}) \union {[ptr |-> r, size |-> size, align |-> b.align]}
             /\ OnlyTouches(r, size)
    \/ /\ b.align > MallocAlign
       /\ \E r \in Nat :
             LET p    == Aligned(r, b.align)
                 copy == IF b.size <= size THEN b.size ELSE size
             IN  /\ Fresh(heap, r, Asked(size, b.align))
                 /\ OnlyTouches(p - Ptr, Ptr + copy)
                 /\ word'[p - Ptr] = r
                 /\ heap' = Without(With(heap, r, Asked(size, b.align)), Raw(b)')
                 /\ live' = (live \ {b}) \union {[ptr |-> p, size |-> size, align |-> b.align]}
    \/ UNCHANGED heapvars   \* null: the old block stays

\* A holder writes into its block.
Use(b) == OnlyTouches(b.ptr, b.size) /\ UNCHANGED <<heap, live>>

HeapNext ==
    \/ \E size \in Nat \ {0} : \E align \in Aligns : alloc(size, align)
    \/ \E b \in live : dealloc(b) \/ Use(b) \/ \E size \in Nat \ {0} : realloc(b, size)

HeapSpec == HeapInit /\ [][HeapNext]_heapvars

-----------------------------------------------------------------------------
(* Properties *)

\* No two holders share a byte, whatever the alignments and however blocks
\* were resized.
BlocksApart ==
    \A b, c \in live : b # c => Apart(b.ptr, b.size, c.ptr, c.size)

\* free is only ever given a pointer that malloc returned and that is still
\* live, and the block it frees is the one that holds b: no holder's writes
\* reach the stashed pointer of another.
FreesItsOwn ==
    \A b \in live :
        /\ Raw(b) \in DOMAIN heap
        /\ Raw(b) <= b.ptr /\ b.ptr + b.size <= Raw(b) + heap[Raw(b)]

\* Every block is aligned as its layout asks.
AlignedAsAsked == \A b \in live : \E k \in Nat : b.ptr = k * b.align
==============================================================================
