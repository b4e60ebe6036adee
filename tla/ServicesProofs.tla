--------------------------- MODULE ServicesProofs ---------------------------
(***************************************************************************)
(* Proofs about what main and every worker stand on: the global allocator, *)
(* the console, and the neighbour cache of a worker's interface.           *)
(***************************************************************************)
EXTENDS Alloc, Console, Neighbor, SequenceTheorems, FiniteSetTheorems, TLAPS

(***************************************************************************)
(* The allocator, for blocks of every size and alignment.  The invariant   *)
(* Good is stated of a heap, a set of blocks and a memory, so that handing *)
(* out, taking back and using a block are one lemma each and realloc is    *)
(* two of them in a row.                                                   *)
(***************************************************************************)

RawIn(w, b) == IF b.align <= MallocAlign THEN b.ptr ELSE w[b.ptr - Ptr]
Slot(b) == IF b.align <= MallocAlign THEN 0 ELSE Ptr

\* malloc's blocks have a length and lie apart.
GoodHeap(h) ==
    /\ \A a \in DOMAIN h : a \in Nat \ {0} /\ h[a] \in Nat \ {0}
    /\ \A a, c \in DOMAIN h : a # c => Apart(a, h[a], c, h[c])

\* A block handed out lies in the malloc block it was cut from, with its slot.
Backed(h, w, b) ==
    /\ RawIn(w, b) \in DOMAIN h
    /\ RawIn(w, b) + Slot(b) <= b.ptr
    /\ b.ptr + b.size <= RawIn(w, b) + h[RawIn(w, b)]

Multiple(b) == \E k \in Nat : b.ptr = k * b.align

Good(h, l, w) ==
    /\ GoodHeap(h) /\ l \subseteq Block /\ w \in [Nat -> Nat]
    /\ \A b \in l : Backed(h, w, b) /\ Multiple(b)
    /\ \A b, c \in l : RawIn(w, b) = RawIn(w, c) => b = c

HeapInv == Good(heap, live, word)

Touches(w, v, a, n) ==
    v \in [Nat -> Nat] /\ \A x \in Nat : Apart(x, Ptr, a, n) => v[x] = w[x]

-----------------------------------------------------------------------------
\* Rounding up within the extra bytes: the slot and the block fit.
LEMMA AlignedBounds ==
    ASSUME NEW r \in Nat, NEW align \in Nat, align > MallocAlign
    PROVE  /\ Aligned(r, align) \in Nat
           /\ r + Ptr <= Aligned(r, align)
           /\ Aligned(r, align) < r + Ptr + align
           /\ \E k \in Nat : Aligned(r, align) = k * align
<1> DEFINE x == r + Ptr + align - 1
           k == x \div align
<1>1. x \in Nat /\ align \in Nat \ {0}
  BY DEF Ptr, MallocAlign
<1>2. Aligned(r, align) = k * align
  BY DEF Aligned, AlignUp
<1>3. k \in Nat /\ x = k * align + (x % align) /\ x % align \in 0 .. align - 1
  <2> HIDE DEF x
  <2>1. QED BY <1>1
<1>4. k * align \in Nat
  <2> HIDE DEF k
  <2>1. QED BY <1>1, <1>3
<1> HIDE DEF k
<1>5. r + Ptr <= k * align /\ k * align < r + Ptr + align
  <2> DEFINE y == k * align
             z == x % align
  <2>1. x = y + z /\ z \in 0 .. align - 1 /\ y \in Nat
    BY <1>3, <1>4
  <2> HIDE DEF y, z
  <2>2. r + Ptr + align - 1 = y + z
    BY <2>1 DEF x
  <2>3. r + Ptr <= y /\ y < r + Ptr + align
    BY <1>1, <2>1, <2>2 DEF Ptr
  <2>4. QED BY <2>3 DEF y
<1>6. QED BY <1>2, <1>3, <1>4, <1>5

\* malloc's own alignment serves every alignment up to it.
LEMMA SmallAligned ==
    ASSUME NEW r \in Nat, r % MallocAlign = 0, NEW align \in Aligns, align <= MallocAlign
    PROVE  \E k \in Nat : r = k * align
<1>1. PICK j \in Nat : r = 16 * j
  <2>1. r \div 16 \in Nat /\ r = 16 * (r \div 16) + (r % 16)
    OBVIOUS
  <2>2. QED BY <2>1 DEF MallocAlign
<1>2. align \in {1, 2, 4, 8, 16}
  BY DEF Aligns, MallocAlign
<1>3. PICK m \in {16, 8, 4, 2, 1} : 16 = m * align
  BY <1>2
<1>4. m * j \in Nat /\ r = (m * j) * align
  BY <1>1, <1>2, <1>3
<1>5. QED BY <1>4

\* Writing inside one malloc block leaves the slots in the others alone.
LEMMA SlotKept ==
    ASSUME NEW h, NEW l, NEW w, NEW v, Good(h, l, w), NEW b \in l,
           NEW lo \in Nat, NEW m \in Nat, Touches(w, v, lo, m),
           NEW r \in Nat, NEW n \in Nat, r <= lo, lo + m <= r + n,
           Apart(r, n, RawIn(w, b), h[RawIn(w, b)])
    PROVE  RawIn(v, b) = RawIn(w, b)
<1>1. CASE b.align <= MallocAlign
  BY <1>1 DEF RawIn
<1>2. CASE ~(b.align <= MallocAlign)
  <2> DEFINE a == RawIn(w, b)
  <2>1. /\ a \in Nat /\ h[a] \in Nat /\ b.ptr \in Nat /\ b.size \in Nat
        /\ a + Ptr <= b.ptr /\ b.ptr + b.size <= a + h[a]
        /\ a = w[b.ptr - Ptr]
    BY <1>2 DEF Good, GoodHeap, Backed, Slot, RawIn, Block
  <2>2. b.ptr - Ptr \in Nat
    BY <2>1 DEF Ptr
  <2>3. Apart(b.ptr - Ptr, Ptr, lo, m)
    BY <2>1, <2>2 DEF Apart, Ptr
  <2>4. v[b.ptr - Ptr] = w[b.ptr - Ptr]
    BY <2>2, <2>3 DEF Touches
  <2>5. QED BY <1>2, <2>4 DEF RawIn
<1>3. QED BY <1>1, <1>2

\* Handing out a block cut from a fresh one.
LEMMA AddGood ==
    ASSUME NEW h, NEW l, NEW w, NEW v, Good(h, l, w),
           NEW r, NEW n \in Nat \ {0}, Fresh(h, r, n),
           NEW b \in Block, Multiple(b), RawIn(v, b) = r,
           r + Slot(b) <= b.ptr, b.ptr + b.size <= r + n,
           NEW lo \in Nat, NEW m \in Nat, Touches(w, v, lo, m), r <= lo, lo + m <= r + n
    PROVE  /\ Good(With(h, r, n), l \union {b}, v)
           /\ b \notin l /\ \A c \in l : RawIn(v, c) = RawIn(w, c)
<1> DEFINE g == With(h, r, n)
<1>1. r \in Nat \ {0} /\ r \notin DOMAIN h
  <2>1. r \in Nat \ {0}
    BY DEF Fresh
  <2>2. \A a \in DOMAIN h : a \in Nat /\ h[a] \in Nat \ {0} /\ Apart(r, n, a, h[a])
    BY DEF Fresh, Good, GoodHeap
  <2>3. QED BY <2>1, <2>2 DEF Apart
<1>2. /\ DOMAIN g = DOMAIN h \union {r} /\ g[r] = n
      /\ \A a \in DOMAIN h : g[a] = h[a]
  BY <1>1 DEF With
<1> HIDE DEF g
<1>3. GoodHeap(g)
  <2>1. ASSUME NEW a \in DOMAIN g PROVE a \in Nat \ {0} /\ g[a] \in Nat \ {0}
    BY <1>1, <1>2 DEF Good, GoodHeap
  <2>2. ASSUME NEW a \in DOMAIN g, NEW c \in DOMAIN g, a # c PROVE Apart(a, g[a], c, g[c])
    <3>1. CASE a = r
      BY <1>2, <2>2, <3>1 DEF Fresh
    <3>2. CASE c = r
      BY <1>2, <2>2, <3>2 DEF Fresh, Apart
    <3>3. CASE a # r /\ c # r
      BY <1>2, <2>2, <3>3 DEF Good, GoodHeap
    <3>4. QED BY <3>1, <3>2, <3>3
  <2>3. QED BY <2>1, <2>2 DEF GoodHeap
<1>4. ASSUME NEW c \in l
      PROVE  RawIn(v, c) = RawIn(w, c) /\ RawIn(w, c) \in DOMAIN h
  <2>1. RawIn(w, c) \in DOMAIN h
    BY DEF Good, Backed
  <2>2. Apart(r, n, RawIn(w, c), h[RawIn(w, c)])
    BY <2>1 DEF Fresh
  <2>3. QED BY <1>1, <2>1, <2>2, SlotKept
<1>5. ASSUME NEW c \in l \union {b} PROVE Backed(g, v, c) /\ Multiple(c)
  <2>1. CASE c = b
    BY <1>2, <2>1 DEF Backed
  <2>2. CASE c \in l
    BY <1>2, <1>4, <2>2 DEF Backed, Good
  <2>3. QED BY <2>1, <2>2
<1>6. b \notin l
  BY <1>1, <1>4
<1>7. ASSUME NEW c \in l \union {b}, NEW d \in l \union {b}, RawIn(v, c) = RawIn(v, d)
      PROVE  c = d
  BY <1>1, <1>4, <1>7 DEF Good
<1>8. l \union {b} \subseteq Block /\ v \in [Nat -> Nat]
  BY DEF Good, Touches
<1>9. QED BY <1>3, <1>4, <1>5, <1>6, <1>7, <1>8 DEF Good, g

\* Taking a block back.
LEMMA RemoveGood ==
    ASSUME NEW h, NEW l, NEW w, Good(h, l, w), NEW b \in l
    PROVE  Good(Without(h, RawIn(w, b)), l \ {b}, w)
<1> DEFINE g == Without(h, RawIn(w, b))
<1>1. DOMAIN g = DOMAIN h \ {RawIn(w, b)} /\ \A a \in DOMAIN g : g[a] = h[a]
  BY DEF Without
<1> HIDE DEF g
<1>2. GoodHeap(g)
  BY <1>1 DEF Good, GoodHeap
<1>3. ASSUME NEW c \in l \ {b} PROVE Backed(g, w, c) /\ Multiple(c)
  <2>1. RawIn(w, c) # RawIn(w, b) /\ Backed(h, w, c)
    BY DEF Good
  <2>2. QED BY <1>1, <2>1 DEF Backed, Good
<1>4. QED BY <1>2, <1>3 DEF Good, g

\* A holder writing into its own block.
LEMMA UseGood ==
    ASSUME NEW h, NEW l, NEW w, NEW v, Good(h, l, w), NEW b \in l,
           Touches(w, v, b.ptr, b.size)
    PROVE  Good(h, l, v)
<1> DEFINE a == RawIn(w, b)
<1>1. /\ a \in DOMAIN h /\ a \in Nat /\ h[a] \in Nat /\ b.ptr \in Nat /\ b.size \in Nat
      /\ a + Slot(b) <= b.ptr /\ b.ptr + b.size <= a + h[a] /\ Slot(b) \in Nat
  BY DEF Good, GoodHeap, Backed, Block, Slot, Ptr
<1> HIDE DEF a
<1>1a. a <= b.ptr
  BY <1>1
<1>2. ASSUME NEW c \in l PROVE RawIn(v, c) = RawIn(w, c)
  <2>1. CASE c = b
    <3>1. CASE b.align <= MallocAlign
      BY <2>1, <3>1 DEF RawIn
    <3>2. CASE ~(b.align <= MallocAlign)
      <4>1. b.ptr - Ptr \in Nat
        BY <1>1, <3>2 DEF Slot, Ptr
      <4>2. Apart(b.ptr - Ptr, Ptr, b.ptr, b.size)
        BY <1>1 DEF Apart, Ptr
      <4>3. QED BY <2>1, <3>2, <4>1, <4>2 DEF Touches, RawIn
    <3>3. QED BY <3>1, <3>2
  <2>2. CASE c # b
    <3>1. RawIn(w, c) \in DOMAIN h /\ RawIn(w, c) # a
      BY <2>2 DEF Good, Backed, a
    <3>2. Apart(a, h[a], RawIn(w, c), h[RawIn(w, c)])
      BY <1>1, <3>1 DEF Good, GoodHeap
    <3>3. QED BY <1>1, <1>1a, <3>2, SlotKept
  <2>3. QED BY <2>1, <2>2
<1>3. \A c \in l : Backed(h, v, c) /\ Multiple(c)
  BY <1>2 DEF Good, Backed
<1>4. QED BY <1>2, <1>3 DEF Good, Touches

-----------------------------------------------------------------------------
(* The calls *)

\* A block of a larger alignment, cut from the fresh bytes asked for it.
LEMMA AddLarge ==
    ASSUME NEW l, NEW h, NEW w, NEW v, Good(h, l, w), NEW size \in Nat \ {0}, NEW align \in Aligns,
           align > MallocAlign, NEW r \in Nat, Fresh(h, r, Asked(size, align)),
           NEW copy \in Nat, copy <= size,
           Touches(w, v, Aligned(r, align) - Ptr, Ptr + copy),
           v[Aligned(r, align) - Ptr] = r
    PROVE  LET b == [ptr |-> Aligned(r, align), size |-> size, align |-> align]
           IN  /\ Good(With(h, r, Asked(size, align)), l \union {b}, v)
               /\ b \notin l /\ \A c \in l : RawIn(v, c) = RawIn(w, c)
<1> DEFINE p == Aligned(r, align)
           b == [ptr |-> p, size |-> size, align |-> align]
           n == Asked(size, align)
<1>1. align \in Nat
  BY DEF Aligns
<1>2. p \in Nat /\ r + Ptr <= p /\ p < r + Ptr + align /\ \E k \in Nat : p = k * align
  BY <1>1, AlignedBounds
<1> HIDE DEF p
<1>3. b \in Block /\ Multiple(b)
  BY <1>2 DEF Block, Multiple
<1>4. RawIn(v, b) = r /\ Slot(b) = Ptr
  BY <1>1 DEF RawIn, Slot, p, MallocAlign
<1>5. n \in Nat \ {0} /\ p + size <= r + n /\ p - Ptr \in Nat /\ Ptr + copy \in Nat
  BY <1>1, <1>2 DEF Asked, Ptr
<1>6. r <= p - Ptr /\ (p - Ptr) + (Ptr + copy) <= r + n
  BY <1>1, <1>2, <1>5 DEF Ptr
<1>7. r + Slot(b) <= b.ptr /\ b.ptr + b.size <= r + n
  BY <1>2, <1>4, <1>5
<1>8. Touches(w, v, p - Ptr, Ptr + copy) /\ Fresh(h, r, n)
  BY DEF p
<1> HIDE DEF b, n
<1>9. Good(With(h, r, n), l \union {b}, v) /\ b \notin l /\ \A c \in l : RawIn(v, c) = RawIn(w, c)
  BY <1>3, <1>4, <1>5, <1>6, <1>7, <1>8, AddGood, ZenonT(60)
<1>10. QED BY <1>9 DEF b, n, p

\* A block of a small alignment: all of what malloc returned.
LEMMA AddSmall ==
    ASSUME NEW l, NEW h, NEW w, NEW v, Good(h, l, w), NEW size \in Nat \ {0}, NEW align \in Aligns,
           align <= MallocAlign, NEW r \in Nat, Fresh(h, r, size), Touches(w, v, r, size)
    PROVE  Good(With(h, r, size), l \union {[ptr |-> r, size |-> size, align |-> align]}, v)
<1> DEFINE b == [ptr |-> r, size |-> size, align |-> align]
<1>1. b \in Block /\ RawIn(v, b) = r /\ Slot(b) = 0
  BY DEF Block, RawIn, Slot
<1>2. Multiple(b)
  BY SmallAligned DEF Multiple, Fresh
<1>3. b.ptr = r /\ b.size = size
  OBVIOUS
<1>4. r + Slot(b) <= b.ptr /\ b.ptr + b.size <= r + size /\ r <= r
  BY <1>1, <1>3
<1> HIDE DEF b
<1>5. Good(With(h, r, size), l \union {b}, v)
  BY <1>1, <1>2, <1>4, AddGood
<1>6. QED BY <1>5 DEF b

LEMMA Unwritten ==
    ASSUME NEW w \in [Nat -> Nat], NEW a, NEW n PROVE Touches(w, w, a, n)
BY DEF Touches

LEMMA AllocIInv ==
    ASSUME HeapInv, NEW size \in Nat \ {0}, NEW align \in Aligns, alloc(size, align)
    PROVE  HeapInv'
<1>1. Good(heap, live, word) /\ word \in [Nat -> Nat]
  BY DEF HeapInv, Good
<1>2. CASE UNCHANGED heapvars
  BY <1>1, <1>2 DEF HeapInv, heapvars
<1>3. CASE align <= MallocAlign /\ ~UNCHANGED heapvars
  <2>1. PICK r \in Nat :
           /\ Fresh(heap, r, size) /\ heap' = With(heap, r, size)
           /\ live' = live \union {[ptr |-> r, size |-> size, align |-> align]} /\ word' = word
    BY <1>3 DEF alloc, Aligns, MallocAlign
  <2>2. Good(heap', live', word')
    BY <1>1, <1>3, <2>1, Unwritten, AddSmall
  <2>3. QED BY <2>2 DEF HeapInv
<1>4. CASE align > MallocAlign /\ ~UNCHANGED heapvars
  <2>1. PICK r \in Nat :
           /\ Fresh(heap, r, Asked(size, align)) /\ heap' = With(heap, r, Asked(size, align))
           /\ live' = live \union {[ptr |-> Aligned(r, align), size |-> size, align |-> align]}
           /\ OnlyTouches(Aligned(r, align) - Ptr, Ptr)
           /\ word'[Aligned(r, align) - Ptr] = r
    BY <1>4 DEF alloc, Aligns, MallocAlign
  <2> DEFINE copy == 0
  <2>2. copy \in Nat /\ copy <= size /\ Touches(word, word', Aligned(r, align) - Ptr, Ptr + copy)
    BY <2>1 DEF OnlyTouches, Touches, Ptr
  <2> HIDE DEF copy
  <2>3. Good(heap', live', word')
    BY <1>1, <1>4, <2>1, <2>2, AddLarge
  <2>4. QED BY <2>3 DEF HeapInv
<1>5. QED BY <1>2, <1>3, <1>4 DEF Aligns, MallocAlign

LEMMA DeallocIInv ==
    ASSUME HeapInv, NEW b \in live, dealloc(b) PROVE HeapInv'
<1>1. Good(Without(heap, RawIn(word, b)), live \ {b}, word)
  BY RemoveGood DEF HeapInv
<1>2. QED BY <1>1 DEF HeapInv, dealloc, Raw, RawIn

LEMMA UseIInv ==
    ASSUME HeapInv, NEW b \in live, Use(b) PROVE HeapInv'
<1>1. Touches(word, word', b.ptr, b.size)
  BY DEF Use, OnlyTouches, Touches
<1>2. Good(heap, live, word')
  BY <1>1, UseGood DEF HeapInv
<1>3. QED BY <1>2 DEF HeapInv, Use

LEMMA ReallocIInv ==
    ASSUME HeapInv, NEW b \in live, NEW size \in Nat \ {0}, realloc(b, size) PROVE HeapInv'
<1>1. Good(heap, live, word) /\ b \in Block /\ b.align \in Aligns /\ b.size \in Nat
  BY DEF HeapInv, Good, Block
<1>2. CASE UNCHANGED heapvars
  BY <1>1, <1>2 DEF HeapInv, heapvars
<1>3. CASE b.align <= MallocAlign /\ ~UNCHANGED heapvars
  <2>1. PICK r \in Nat :
           /\ Fresh(Without(heap, b.ptr), r, size)
           /\ heap' = With(Without(heap, b.ptr), r, size)
           /\ live' = (live \ {b}) \union {[ptr |-> r, size |-> size, align |-> b.align]}
           /\ OnlyTouches(r, size)
    BY <1>1, <1>3 DEF realloc, Aligns, MallocAlign
  <2>2. Good(Without(heap, b.ptr), live \ {b}, word)
    <3>1. RawIn(word, b) = b.ptr
      BY <1>3 DEF RawIn
    <3>2. Good(Without(heap, RawIn(word, b)), live \ {b}, word)
      BY <1>1, RemoveGood
    <3>3. QED BY <3>1, <3>2
  <2>3. Touches(word, word', r, size)
    BY <2>1 DEF OnlyTouches, Touches
  <2>4. Good(heap', live', word')
    BY <1>1, <1>3, <2>1, <2>2, <2>3, AddSmall
  <2>5. QED BY <2>4 DEF HeapInv
<1>4. CASE b.align > MallocAlign /\ ~UNCHANGED heapvars
  <2> DEFINE copy == IF b.size <= size THEN b.size ELSE size
  <2>1. PICK r \in Nat :
           /\ Fresh(heap, r, Asked(size, b.align))
           /\ OnlyTouches(Aligned(r, b.align) - Ptr, Ptr + copy)
           /\ word'[Aligned(r, b.align) - Ptr] = r
           /\ heap' = Without(With(heap, r, Asked(size, b.align)), Raw(b)')
           /\ live' = (live \ {b}) \union
                        {[ptr |-> Aligned(r, b.align), size |-> size, align |-> b.align]}
    BY <1>1, <1>4 DEF realloc, Aligns, MallocAlign
  <2> DEFINE c == [ptr |-> Aligned(r, b.align), size |-> size, align |-> b.align]
             h == With(heap, r, Asked(size, b.align))
  <2>2. copy \in Nat /\ copy <= size
    BY <1>1
  <2>3. Touches(word, word', Aligned(r, b.align) - Ptr, Ptr + copy)
    BY <2>1 DEF OnlyTouches, Touches
  <2> HIDE DEF copy
  <2>4. Good(h, live \union {c}, word') /\ c \notin live
    BY <1>1, <1>4, <2>1, <2>2, <2>3, AddLarge
  <2> HIDE DEF c, h
  <2>5. Good(Without(h, RawIn(word', b)), (live \union {c}) \ {b}, word')
    BY <2>4, RemoveGood
  <2>6. (live \union {c}) \ {b} = (live \ {b}) \union {c}
    BY <2>4
  <2>7. heap' = Without(h, RawIn(word', b))
    BY <2>1 DEF Raw, RawIn, h
  <2>8. live' = (live \ {b}) \union {c}
    BY <2>1 DEF c
  <2>9. QED BY <2>5, <2>6, <2>7, <2>8 DEF HeapInv
<1>5. QED BY <1>1, <1>2, <1>3, <1>4 DEF Aligns, MallocAlign

LEMMA AlwaysHeapInv == HeapSpec => []HeapInv
<1>1. HeapInit => HeapInv
  BY DEF HeapInit, HeapInv, Good, GoodHeap
<1>2. HeapInv /\ [HeapNext]_heapvars => HeapInv'
  <2> SUFFICES ASSUME HeapInv, [HeapNext]_heapvars PROVE HeapInv' OBVIOUS
  <2>1. CASE HeapNext
    BY <2>1, AllocIInv, DeallocIInv, UseIInv, ReallocIInv DEF HeapNext
  <2>2. CASE UNCHANGED heapvars
    BY <2>2 DEF heapvars, HeapInv
  <2>3. QED BY <2>1, <2>2
<1>3. QED BY <1>1, <1>2, PTL DEF HeapSpec

-----------------------------------------------------------------------------
\* No two blocks handed out by ShimAllocator overlap, for every size and
\* alignment and every history of alloc, realloc and dealloc.
THEOREM BlocksApartHolds == HeapSpec => []BlocksApart
<1>1. HeapInv => BlocksApart
  <2> SUFFICES ASSUME HeapInv, NEW b \in live, NEW c \in live, b # c
               PROVE  Apart(b.ptr, b.size, c.ptr, c.size)
    BY DEF BlocksApart
  <2> DEFINE x == RawIn(word, b)
             y == RawIn(word, c)
  <2>1. /\ x \in DOMAIN heap /\ x \in Nat /\ heap[x] \in Nat /\ x + Slot(b) <= b.ptr
        /\ b.ptr + b.size <= x + heap[x] /\ b.ptr \in Nat /\ b.size \in Nat /\ Slot(b) \in Nat
    BY DEF HeapInv, Good, GoodHeap, Backed, Block, Slot, Ptr
  <2>2. /\ y \in DOMAIN heap /\ y \in Nat /\ heap[y] \in Nat /\ y + Slot(c) <= c.ptr
        /\ c.ptr + c.size <= y + heap[y] /\ c.ptr \in Nat /\ c.size \in Nat /\ Slot(c) \in Nat
    BY DEF HeapInv, Good, GoodHeap, Backed, Block, Slot, Ptr
  <2>3. x # y
    BY DEF HeapInv, Good
  <2> HIDE DEF x, y
  <2>4. Apart(x, heap[x], y, heap[y])
    BY <2>1, <2>2, <2>3 DEF HeapInv, Good, GoodHeap
  <2>5. QED BY <2>1, <2>2, <2>4 DEF Apart
<1>2. QED BY <1>1, AlwaysHeapInv, PTL

\* The pointer dealloc and realloc hand to free, read back from the word before
\* the block when the block is over-aligned, is that of the live malloc block
\* the block was cut from.
THEOREM FreesItsOwnHolds == HeapSpec => []FreesItsOwn
<1>1. HeapInv => FreesItsOwn
  <2> SUFFICES ASSUME HeapInv, NEW b \in live
               PROVE  /\ Raw(b) \in DOMAIN heap /\ Raw(b) <= b.ptr
                      /\ b.ptr + b.size <= Raw(b) + heap[Raw(b)]
    BY DEF FreesItsOwn
  <2>1. Raw(b) = RawIn(word, b)
    BY DEF Raw, RawIn
  <2>2. Backed(heap, word, b) /\ RawIn(word, b) \in Nat /\ b.ptr \in Nat /\ Slot(b) \in Nat
    BY DEF HeapInv, Good, GoodHeap, Backed, Block, Slot, Ptr
  <2>3. QED BY <2>1, <2>2 DEF Backed
<1>2. QED BY <1>1, AlwaysHeapInv, PTL

\* Every block is aligned as its layout asks, with malloc's 16 bytes or by
\* rounding up inside the extra bytes.
THEOREM AlignedAsAskedHolds == HeapSpec => []AlignedAsAsked
<1>1. HeapInv => AlignedAsAsked
  BY DEF HeapInv, Good, Multiple, AlignedAsAsked
<1>2. QED BY <1>1, AlwaysHeapInv, PTL

-----------------------------------------------------------------------------
(***************************************************************************)
(* The console, for any number of threads and any buffer size.             *)
(***************************************************************************)

\* Only the thread that writes holds the lock.
Mutex ==
    /\ \A t \in Threads : pc[t] = "write" => PRINT_LOCK
    /\ \A t, u \in Threads : pc[t] = "write" /\ pc[u] = "write" => t = u

\* A line that is being written has its newline inside the buffer, and what is
\* written of it is the end of the console.
WriterInv ==
    \A t \in Threads :
        /\ pc[t] \in {"spin", "write"} => off[t] <= used[t] /\ used[t] > 0
        /\ pc[t] = "spin" => off[t] = 0
        /\ pc[t] = "write" /\ off[t] > 0 =>
              /\ Len(console) > 0
              /\ console[Len(console)] =
                    [thread |-> t, line |-> line[t], at |-> off[t], len |-> used[t]]

\* Between two writers the console ends with a newline or a line given up.
RestInv ==
    Len(console) > 0 /\ (\A t \in Threads : pc[t] = "write" => off[t] = 0) =>
        LET x == console[Len(console)]
        IN  x.at = x.len \/ [thread |-> x.thread, line |-> x.line] \in cut

ConsoleInv == ConsoleTypeOK /\ Mutex /\ WriterInv /\ RestInv /\ LinesWhole

LEMMA InitConsoleInv == ConsoleInit => ConsoleInv
<1> SUFFICES ASSUME ConsoleInit PROVE ConsoleInv OBVIOUS
<1> USE LineAssumption DEF ConsoleInit
<1>1. console \in Seq(ByteType) /\ Len(console) = 0
  OBVIOUS
<1>2. ConsoleTypeOK
  <2>1. pc \in [Threads -> {"idle", "format", "spin", "write"}] /\ line \in [Threads -> Nat]
    OBVIOUS
  <2>2. used \in [Threads -> 0 .. LINE_MAX] /\ off \in [Threads -> 0 .. LINE_MAX]
    OBVIOUS
  <2>3. PRINT_LOCK \in BOOLEAN /\ cut \subseteq [thread : Threads, line : Nat]
    OBVIOUS
  <2>4. QED BY <1>1, <2>1, <2>2, <2>3 DEF ConsoleTypeOK
<1>3. Mutex /\ WriterInv
  BY DEF Mutex, WriterInv
<1>4. RestInv /\ LinesWhole
  BY <1>1 DEF RestInv, LinesWhole
<1>5. QED BY <1>2, <1>3, <1>4 DEF ConsoleInv

\* Steps of a thread before it holds the lock.
LEMMA EnterIInv == ASSUME ConsoleInv, NEW t \in Threads, Enter(t) PROVE ConsoleInv'
<1> USE LineAssumption DEF ConsoleInv, ConsoleTypeOK, Enter
<1>1. /\ pc[t] = "idle" /\ pc' = [pc EXCEPT ![t] = "format"]
      /\ line' = [line EXCEPT ![t] = @ + 1] /\ used' = [used EXCEPT ![t] = 0]
      /\ off' = off /\ PRINT_LOCK' = PRINT_LOCK /\ console' = console /\ cut' = cut
  OBVIOUS
<1>2. ConsoleTypeOK'
  <2>1. pc' \in [Threads -> {"idle", "format", "spin", "write"}]
    BY <1>1
  <2>2. line' \in [Threads -> Nat] /\ used' \in [Threads -> 0 .. LINE_MAX]
    BY <1>1
  <2>3. QED BY <1>1, <2>1, <2>2
<1>3. Mutex'
  BY <1>1 DEF Mutex
<1>4. WriterInv' /\ RestInv'
  BY <1>1 DEF WriterInv, RestInv
<1>5. LinesWhole'
  BY <1>1 DEF LinesWhole
<1>6. QED BY <1>2, <1>3, <1>4, <1>5

LEMMA WriteStrIInv == ASSUME ConsoleInv, NEW t \in Threads, WriteStr(t) PROVE ConsoleInv'
<1> USE LineAssumption DEF ConsoleInv, ConsoleTypeOK
<1>1. PICK n \in 1 .. MaxFrag : used' = [used EXCEPT ![t] = @ + Taken(n, @)]
  BY DEF WriteStr
<1>2. /\ pc[t] = "format" /\ pc' = pc /\ line' = line
      /\ off' = off /\ PRINT_LOCK' = PRINT_LOCK /\ console' = console /\ cut' = cut
  BY DEF WriteStr
<1>3. used[t] + Taken(n, used[t]) \in 0 .. LINE_MAX
  BY BoundAssumption DEF Taken
<1>4. used' \in [Threads -> 0 .. LINE_MAX]
  BY <1>1, <1>3
<1>5. ConsoleTypeOK'
  BY <1>2, <1>4
<1>6. Mutex' /\ LinesWhole'
  BY <1>2 DEF Mutex, LinesWhole
<1>7. WriterInv' /\ RestInv'
  BY <1>1, <1>2 DEF WriterInv, RestInv
<1>8. QED BY <1>5, <1>6, <1>7

LEMMA TerminateIInv == ASSUME ConsoleInv, NEW t \in Threads, Terminate(t) PROVE ConsoleInv'
<1> USE LineAssumption DEF ConsoleInv, ConsoleTypeOK
<1>1. /\ pc[t] = "format" /\ pc' = [pc EXCEPT ![t] = "spin"] /\ line' = line
      /\ used' = [used EXCEPT ![t] = Terminated(@)] /\ off' = [off EXCEPT ![t] = 0]
      /\ PRINT_LOCK' = PRINT_LOCK /\ console' = console /\ cut' = cut
  BY DEF Terminate
<1>2. Terminated(used[t]) \in 1 .. LINE_MAX
  BY DEF Terminated
<1>3. ConsoleTypeOK'
  <2>1. pc' \in [Threads -> {"idle", "format", "spin", "write"}]
    BY <1>1
  <2>2. used' \in [Threads -> 0 .. LINE_MAX]
    BY <1>1, <1>2
  <2>3. off' \in [Threads -> 0 .. LINE_MAX]
    BY <1>1
  <2>4. QED BY <1>1, <2>1, <2>2, <2>3
<1>4. Mutex'
  BY <1>1 DEF Mutex
<1>5. WriterInv' /\ RestInv' /\ LinesWhole'
  BY <1>1, <1>2 DEF WriterInv, RestInv, LinesWhole
<1>6. QED BY <1>3, <1>4, <1>5

LEMMA AcquireIInv == ASSUME ConsoleInv, NEW t \in Threads, Acquire(t) PROVE ConsoleInv'
<1> USE LineAssumption DEF ConsoleInv, ConsoleTypeOK
<1>1. /\ pc[t] = "spin" /\ ~PRINT_LOCK /\ pc' = [pc EXCEPT ![t] = "write"] /\ line' = line
      /\ used' = used /\ off' = off /\ PRINT_LOCK' = TRUE /\ console' = console /\ cut' = cut
  BY DEF Acquire, LockFree
<1>2. \A u \in Threads : pc[u] # "write"
  BY <1>1 DEF Mutex
<1>3. pc' \in [Threads -> {"idle", "format", "spin", "write"}]
  BY <1>1
<1>4. ConsoleTypeOK' /\ Mutex'
  BY <1>1, <1>2, <1>3 DEF Mutex
<1>5. off[t] = 0 /\ off[t] <= used[t] /\ used[t] > 0
  BY <1>1 DEF WriterInv
<1>6. WriterInv' /\ RestInv' /\ LinesWhole'
  BY <1>1, <1>2, <1>5 DEF WriterInv, RestInv, LinesWhole
<1>7. QED BY <1>4, <1>6

\* One write(): the bytes it takes continue the line.
LEMMA WriteSomeIInv == ASSUME ConsoleInv, NEW t \in Threads, WriteSome(t) PROVE ConsoleInv'
<1> USE LineAssumption DEF ConsoleInv
<1>1. PICK n \in 1 .. used[t] - off[t] :
          console' = console \o Bytes(t, n) /\ off' = [off EXCEPT ![t] = @ + n]
  BY DEF WriteSome
<1>2. /\ pc[t] = "write" /\ pc' = pc /\ line' = line /\ used' = used
      /\ PRINT_LOCK' = PRINT_LOCK /\ cut' = cut
  BY DEF WriteSome
<1>3. /\ used[t] \in 0 .. LINE_MAX /\ off[t] \in 0 .. LINE_MAX /\ off[t] <= used[t]
      /\ line[t] \in Nat /\ n \in Nat /\ n > 0 /\ off[t] + n <= used[t]
  BY <1>2 DEF ConsoleTypeOK, WriterInv
<1> DEFINE old == Len(console)
           b == Bytes(t, n)
<1>4. b \in Seq(ByteType) /\ Len(b) = n
      /\ \A i \in 1 .. n :
            b[i] = [thread |-> t, line |-> line[t], at |-> off[t] + i, len |-> used[t]]
  <2>1. \A i \in 1 .. n :
            [thread |-> t, line |-> line[t], at |-> off[t] + i, len |-> used[t]] \in ByteType
    BY <1>3 DEF ByteType
  <2>2. b \in [1 .. n -> ByteType]
    BY <2>1 DEF Bytes
  <2>3. b \in Seq(ByteType) /\ Len(b) = n
    BY <1>3, <2>2
  <2>4. QED BY <2>3 DEF Bytes
<1>5. console \in Seq(ByteType) /\ old \in Nat
  BY DEF ConsoleTypeOK
<1> HIDE DEF b
<1>6. /\ console' = console \o b
      /\ console' \in Seq(ByteType) /\ Len(console') = old + n
      /\ \A i \in 1 .. old : console'[i] = console[i]
      /\ \A i \in 1 .. n : console'[old + i] = b[i]
  <2>1. console' = console \o b
    BY <1>1 DEF b
  <2>2. QED BY <1>3, <1>4, <1>5, <2>1
<1> HIDE DEF old
<1>7. ConsoleTypeOK'
  <2>1. off' \in [Threads -> 0 .. LINE_MAX]
    BY <1>1, <1>3 DEF ConsoleTypeOK
  <2>2. QED BY <1>2, <1>6, <2>1 DEF ConsoleTypeOK
<1>8. /\ off'[t] = off[t] + n /\ off'[t] > 0
      /\ \A u \in Threads : u # t => off'[u] = off[u] /\ pc[u] # "write"
  BY <1>1, <1>2, <1>3 DEF ConsoleTypeOK, Mutex
<1>9. Mutex'
  BY <1>2 DEF Mutex
<1>10. console'[old + n] =
          [thread |-> t, line |-> line[t], at |-> off[t] + n, len |-> used[t]]
  <2>1. n \in 1 .. n
    BY <1>3
  <2>2. console'[old + n] = b[n]
    BY <1>6, <2>1
  <2>3. b[n] = [thread |-> t, line |-> line[t], at |-> off[t] + n, len |-> used[t]]
    BY <1>4, <2>1
  <2>4. QED BY <2>2, <2>3
<1>11. WriterInv'
  <2> SUFFICES ASSUME NEW u \in Threads
               PROVE  /\ pc[u] \in {"spin", "write"} => off'[u] <= used[u] /\ used[u] > 0
                      /\ pc[u] = "spin" => off'[u] = 0
                      /\ pc[u] = "write" /\ off'[u] > 0 =>
                            /\ Len(console') > 0
                            /\ console'[Len(console')] =
                                 [thread |-> u, line |-> line[u], at |-> off'[u], len |-> used[u]]
    BY <1>2 DEF WriterInv
  <2>1. CASE u = t
    <3>1. Len(console') = old + n /\ Len(console') > 0 /\ off'[t] <= used[t] /\ used[t] > 0
      BY <1>3, <1>5, <1>6, <1>8
    <3>2. QED BY <1>2, <1>8, <1>10, <2>1, <3>1
  <2>2. CASE u # t
    BY <1>8, <2>2 DEF WriterInv
  <2>3. QED BY <2>1, <2>2
<1>12. RestInv'
  BY <1>2, <1>8 DEF RestInv
<1>13. LinesWhole'
  <2> SUFFICES ASSUME NEW i \in 1 .. Len(console') - 1
               PROVE  LET x == console'[i]
                          y == console'[i + 1]
                      IN  \/ y.thread = x.thread /\ y.line = x.line /\ y.at = x.at + 1
                          \/ y.at = 1 /\ (x.at = x.len
                                           \/ [thread |-> x.thread, line |-> x.line] \in cut')
    BY DEF LinesWhole
  <2>1. i \in Nat /\ i < old + n /\ i > 0
    BY <1>3, <1>5, <1>6
  <2>2. CASE i < old
    <3>1. i \in 1 .. old - 1 /\ console'[i] = console[i] /\ console'[i + 1] = console[i + 1]
      <4>1. i \in 1 .. old - 1 /\ i \in 1 .. old /\ i + 1 \in 1 .. old
        BY <1>5, <2>1, <2>2
      <4>2. QED BY <1>6, <4>1
    <3>2. QED BY <1>2, <3>1 DEF LinesWhole, old
  <2>3. CASE i = old
    <3>1. /\ console'[i] = console[old]
          /\ console'[i + 1] =
                [thread |-> t, line |-> line[t], at |-> off[t] + 1, len |-> used[t]]
      <4>1. i \in 1 .. old /\ 1 \in 1 .. n
        BY <1>3, <1>5, <2>1, <2>3
      <4>2. console'[i] = console[old] /\ console'[old + 1] = b[1]
        BY <1>6, <2>3, <4>1
      <4>3. b[1] = [thread |-> t, line |-> line[t], at |-> off[t] + 1, len |-> used[t]]
        BY <1>4, <4>1
      <4>4. QED BY <2>3, <4>2, <4>3
    <3>2. CASE off[t] > 0
      <4>1. console[old] = [thread |-> t, line |-> line[t], at |-> off[t], len |-> used[t]]
        BY <1>2, <3>2 DEF WriterInv, old
      <4>2. QED BY <3>1, <4>1
    <3>3. CASE off[t] = 0
      <4>1. \A u \in Threads : pc[u] = "write" => off[u] = 0
        BY <1>8, <3>3
      <4>2. \/ console[old].at = console[old].len
            \/ [thread |-> console[old].thread, line |-> console[old].line] \in cut
        BY <1>5, <2>1, <2>3, <4>1 DEF RestInv, old
      <4>3. console'[i + 1].at = 1
        BY <3>1, <3>3
      <4>4. QED BY <1>2, <3>1, <4>2, <4>3
    <3>4. QED BY <1>3, <3>2, <3>3
  <2>4. CASE i > old
    <3> DEFINE j == i - old
    <3>1. j \in 1 .. n /\ j + 1 \in 1 .. n /\ i = old + j /\ i + 1 = old + (j + 1)
      <4>1. n \in Nat /\ old \in Nat /\ i \in Nat /\ i < old + n /\ i > old
        BY <1>3, <1>5, <2>1, <2>4
      <4> HIDE DEF old
      <4>2. QED BY ONLY <4>1
    <3>2. console'[i] = b[j] /\ console'[i + 1] = b[j + 1]
      BY <1>6, <3>1
    <3>3. /\ b[j] = [thread |-> t, line |-> line[t], at |-> off[t] + j, len |-> used[t]]
          /\ b[j + 1] =
                [thread |-> t, line |-> line[t], at |-> off[t] + (j + 1), len |-> used[t]]
      BY <1>4, <3>1
    <3>4. /\ console'[i + 1].thread = console'[i].thread
          /\ console'[i + 1].line = console'[i].line
      BY <3>2, <3>3
    <3>5. console'[i].at = off[t] + j /\ console'[i + 1].at = off[t] + (j + 1)
      BY <3>2, <3>3
    <3> HIDE DEF j
    <3>6. console'[i + 1].at = console'[i].at + 1
      <4>1. off[t] \in Nat /\ j \in Nat
        BY <1>3, <3>1
      <4>2. off[t] + (j + 1) = (off[t] + j) + 1
        BY ONLY <4>1
      <4>3. QED BY ONLY <3>5, <4>2
    <3>7. QED BY <3>4, <3>6
  <2>5. QED BY <1>5, <2>1, <2>2, <2>3, <2>4
<1>14. QED BY <1>7, <1>9, <1>11, <1>12, <1>13

LEMMA ReleaseIInv ==
    ASSUME ConsoleInv, NEW t \in Threads, Release(t) \/ WriteFails(t) PROVE ConsoleInv'
<1> USE LineAssumption DEF ConsoleInv
<1>1. /\ pc[t] = "write" /\ pc' = [pc EXCEPT ![t] = "idle"] /\ line' = line /\ used' = used
      /\ off' = off /\ PRINT_LOCK' = FALSE /\ console' = console
      /\ cut \subseteq cut'
      /\ off[t] = used[t] \/ [thread |-> t, line |-> line[t]] \in cut'
  BY DEF Release, WriteFails, Unlock, MayRelease
<1>2. cut' \subseteq [thread : Threads, line : Nat]
  BY DEF Release, WriteFails, ConsoleTypeOK
<1>3. pc' \in [Threads -> {"idle", "format", "spin", "write"}]
  BY <1>1 DEF ConsoleTypeOK
<1>4. ConsoleTypeOK'
  BY <1>1, <1>2, <1>3 DEF ConsoleTypeOK
<1>5. \A u \in Threads : pc'[u] # "write" /\ (u # t => pc[u] # "write")
  BY <1>1 DEF ConsoleTypeOK, Mutex
<1>6. Mutex' /\ WriterInv'
  BY <1>1, <1>5 DEF Mutex, WriterInv, ConsoleTypeOK
<1>7. RestInv'
  <2> SUFFICES ASSUME Len(console) > 0
               PROVE  \/ console[Len(console)].at = console[Len(console)].len
                      \/ [thread |-> console[Len(console)].thread,
                          line |-> console[Len(console)].line] \in cut'
    BY <1>1 DEF RestInv
  <2>1. CASE off[t] > 0
    <3>1. console[Len(console)] =
             [thread |-> t, line |-> line[t], at |-> off[t], len |-> used[t]]
      BY <1>1, <2>1 DEF WriterInv
    <3>2. QED BY <1>1, <3>1
  <2>2. CASE off[t] = 0
    <3>1. \A u \in Threads : pc[u] = "write" => off[u] = 0
      BY <1>5, <2>2
    <3>2. QED BY <1>1, <3>1 DEF RestInv
  <2>3. off[t] \in Nat
    BY DEF ConsoleTypeOK
  <2>4. QED BY <2>1, <2>2, <2>3
<1>8. LinesWhole'
  BY <1>1 DEF LinesWhole
<1>9. QED BY <1>4, <1>6, <1>7, <1>8

LEMMA NextConsoleInv == ConsoleInv /\ [ConsoleNext]_consolevars => ConsoleInv'
<1> SUFFICES ASSUME ConsoleInv, [ConsoleNext]_consolevars PROVE ConsoleInv' OBVIOUS
<1>1. ASSUME NEW t \in Threads, PrintLine(t) PROVE ConsoleInv'
  BY <1>1, EnterIInv, WriteStrIInv, TerminateIInv, AcquireIInv, WriteSomeIInv, ReleaseIInv
     DEF PrintLine
<1>2. CASE UNCHANGED consolevars
  BY <1>2 DEF consolevars, ConsoleInv, ConsoleTypeOK, Mutex, WriterInv, RestInv, LinesWhole
<1>3. QED BY <1>1, <1>2 DEF ConsoleNext

LEMMA AlwaysConsoleInv == ConsoleSpec => []ConsoleInv
BY InitConsoleInv, NextConsoleInv, PTL DEF ConsoleSpec

\* A line never outgrows its buffer, whatever its fragments: the newline that
\* print_line appends is always in bounds.
THEOREM ConsoleTypeCorrect == ConsoleSpec => []ConsoleTypeOK
<1>1. ConsoleInv => ConsoleTypeOK
  BY DEF ConsoleInv
<1>2. QED BY <1>1, AlwaysConsoleInv, PTL

\* However many threads print and however write() splits their lines, lines
\* never interleave on the console.
THEOREM LinesWholeHolds == ConsoleSpec => []LinesWhole
<1>1. ConsoleInv => LinesWhole
  BY DEF ConsoleInv
<1>2. QED BY <1>1, AlwaysConsoleInv, PTL

-----------------------------------------------------------------------------
(***************************************************************************)
(* The neighbour cache, for any number of sockets and hosts and any        *)
(* lifetimes.                                                              *)
(***************************************************************************)

FromNowOn == Nat \union {Active}

NeighborTyped ==
    /\ queue_id \in Nat /\ pending_synth \in BOOLEAN
    /\ at \in {"idle", "ingress", "egress"} /\ turn \in Sockets
    /\ \A h \in DOMAIN cache : cache[h] \in Nat
    /\ silent \in Nat /\ meta \in [Sockets -> FromNowOn] /\ want \in [Sockets -> BOOLEAN]
    /\ up \in 0 .. ENTRY_LIFETIME /\ asked \in BOOLEAN

Frames == OtherFrames \union ArpFrames

\* Other queues than 0 see no ARP frame.
FramesInv ==
    /\ rx \in Seq(Frames)
    /\ queue_id # 0 => \A i \in 1 .. Len(rx) : rx[i].kind # "arp"

\* The request of the last SILENT_TIME is the one that silences the cache.
RecentInv == recent = <<>> \/ (recent = <<silent>> /\ silent > 0)

\* The seed is taken in by the first poll, and on another queue than 0 nothing
\* pushes it out: it lasts at least until ENTRY_LIFETIME is up.
SeedInv ==
    queue_id # 0 =>
        /\ pending_synth => at # "egress" /\ up = 0
        /\ ~pending_synth => Gw \in DOMAIN cache /\ cache[Gw] + up >= ENTRY_LIFETIME

\* An egress pass starts with the first socket.
PassInv == at # "egress" => turn = 1

NeighborInv ==
    /\ NeighborTyped /\ FramesInv /\ RecentInv /\ SeedInv /\ PassInv
    /\ SeedSuffices /\ NoneLeftBehind

LEMMA InitNeighborInv == Init => NeighborInv
<1> SUFFICES ASSUME Init PROVE NeighborInv OBVIOUS
<1> USE NeighborAssumption
<1>1. NeighborTyped
  <2>1. queue_id \in Nat /\ 1 \in Sockets /\ DOMAIN cache = {}
    BY DEF Init, Sockets
  <2>2. meta \in [Sockets -> FromNowOn] /\ want \in [Sockets -> BOOLEAN]
    BY DEF Init, FromNowOn, Active
  <2>3. asked \in BOOLEAN /\ pending_synth \in BOOLEAN
    BY Zenon DEF Init
  <2>4. QED BY <2>1, <2>2, <2>3 DEF Init, NeighborTyped
<1>2. FramesInv
  <2>1. rx \in Seq(Frames) /\ Len(rx) = 0
    BY EmptySeq DEF Init
  <2>2. QED BY <2>1 DEF FramesInv
<1>3. RecentInv /\ SeedInv /\ PassInv
  BY DEF Init, RecentInv, SeedInv, PassInv
<1>4. SeedSuffices /\ NoneLeftBehind
  BY DEF Init, SeedSuffices, NoneLeftBehind
<1>5. QED BY <1>1, <1>2, <1>3, <1>4 DEF NeighborInv

\* A request goes out only when no other is recent, and is then the recent one.
LEMMA AskSpaced ==
    ASSUME NeighborTyped, RecentInv, NEW h, Ask(h)
    PROVE  silent' \in Nat /\ RecentInv' /\ asked' \in BOOLEAN /\ (h # Gw => asked' = asked)
<1>1. CASE silent = 0
  <2>1. recent = <<>>
    BY <1>1 DEF RecentInv
  <2>2. Append(<<>>, SILENT_TIME) = <<SILENT_TIME>>
    OBVIOUS
  <2>3. silent' = SILENT_TIME /\ recent' = <<SILENT_TIME>>
    BY <1>1, <2>1, <2>2 DEF Ask, SilentAfterAsk
  <2>4. asked' = (asked \/ h = Gw) /\ asked \in BOOLEAN
    BY <1>1 DEF Ask, NeighborTyped
  <2>5. QED BY <2>3, <2>4, NeighborAssumption DEF RecentInv
<1>2. CASE silent # 0
  BY <1>2 DEF Ask, RecentInv, NeighborTyped
<1>3. QED BY <1>1, <1>2

LEMMA ExpireType ==
    ASSUME NEW n \in Nat, NEW d \in Nat
    PROVE  Expire(n, d) \in Nat /\ Expire(n, d) <= n /\ Expire(n, d) + d >= n
BY DEF Expire

\* As time passes, the recent request is forgotten when the silence ends.
LEMMA AfterSpaced ==
    ASSUME NeighborTyped, RecentInv, NEW d \in Nat, recent' = After(d), silent' = Expire(silent, d)
    PROVE  RecentInv' /\ (recent = <<>> => recent' = <<>>)
<1> DEFINE out == {i \in DOMAIN recent : recent[i] <= d}
           gone == Cardinality(out)
<1>1. recent' = [i \in 1 .. Len(recent) - gone |-> recent[i + gone] - d]
  BY DEF After
<1>2. silent \in Nat
  BY DEF NeighborTyped
<1>3. CASE recent = <<>>
  <2>1. out = {} /\ Len(recent) = 0
    BY <1>3
  <2>2. gone = 0
    BY <2>1, FS_EmptySet
  <2> HIDE DEF gone
  <2>3. recent' = [i \in 1 .. 0 |-> recent[i + gone] - d]
    BY <1>1, <2>1, <2>2
  <2>4. recent' = <<>>
    BY <2>3
  <2>5. QED BY <2>4 DEF RecentInv
<1>4. CASE recent = <<silent>> /\ silent > 0 /\ silent <= d
  <2>1. out = {1} /\ Len(recent) = 1
    BY <1>4
  <2>2. gone = 1
    BY <2>1, FS_Singleton
  <2> HIDE DEF gone
  <2>3. recent' = [i \in 1 .. 0 |-> recent[i + gone] - d]
    BY <1>1, <2>1, <2>2
  <2>4. recent' = <<>>
    BY <2>3
  <2>5. QED BY <2>4 DEF RecentInv
<1>5. CASE recent = <<silent>> /\ silent > 0 /\ ~(silent <= d)
  <2>1. out = {} /\ Len(recent) = 1 /\ recent # <<>>
    BY <1>2, <1>5
  <2>2. gone = 0
    BY <2>1, FS_EmptySet
  <2> HIDE DEF gone
  <2>3. recent' = [i \in 1 .. 1 |-> recent[i + gone] - d]
    BY <1>1, <2>1, <2>2
  <2>4. recent' = <<silent - d>>
    BY <1>5, <2>2, <2>3
  <2>5. silent' = silent - d /\ silent' > 0
    BY <1>2, <1>5 DEF Expire
  <2>6. QED BY <2>1, <2>4, <2>5 DEF RecentInv
<1>6. QED BY <1>3, <1>4, <1>5 DEF RecentInv

-----------------------------------------------------------------------------
\* Frames arrive, and requests are answered or lost: nothing but rx moves.
LEMMA NetworkNeighborInv ==
    ASSUME NeighborInv, Arrive \/ GatewayAnswers \/ RequestLost
    PROVE  NeighborInv'
<1>1. UNCHANGED <<queue_id, pending_synth, at, turn, cache, silent, meta, want, up, recent>>
  BY DEF Arrive, GatewayAnswers, RequestLost
<1>2. FramesInv'
  <2>0. rx \in Seq(Frames) /\ (queue_id # 0 => \A i \in 1 .. Len(rx) : rx[i].kind # "arp")
    BY DEF NeighborInv, FramesInv
  <2>1. CASE Arrive
    <3>1. PICK f \in OtherFrames \union (IF queue_id = 0 THEN ArpFrames ELSE {}) : rx' = <<f>>
      BY <2>1 DEF Arrive
    <3>2. f \in Frames /\ (queue_id # 0 => f \in OtherFrames)
      BY DEF Frames
    <3>3. rx' \in Seq(Frames) /\ Len(rx') = 1 /\ rx'[1] = f
      BY <3>1, <3>2
    <3>4. queue_id # 0 => f.kind # "arp"
      BY <3>2 DEF OtherFrames
    <3>5. QED BY <1>1, <3>3, <3>4 DEF FramesInv
  <2>2. CASE GatewayAnswers
    <3>1. CASE queue_id = 0
      <4>1. arp_frame(Gw, TRUE) \in Frames
        BY DEF Frames, ArpFrames, Hosts
      <4>2. rx' = Append(rx, arp_frame(Gw, TRUE))
        BY <2>2, <3>1 DEF GatewayAnswers
      <4>3. rx' \in Seq(Frames)
        BY <2>0, <4>1, <4>2, AppendProperties
      <4>4. QED BY <1>1, <3>1, <4>3 DEF FramesInv
    <3>2. CASE queue_id # 0
      BY <1>1, <2>0, <2>2, <3>2 DEF GatewayAnswers, FramesInv
    <3>3. QED BY <3>1, <3>2
  <2>3. CASE RequestLost
    BY <1>1, <2>0, <2>3 DEF RequestLost, FramesInv
  <2>4. QED BY <2>1, <2>2, <2>3
<1>3. asked' \in BOOLEAN /\ (asked' => asked)
  <2>1. asked \in BOOLEAN /\ (asked' = asked \/ asked' = FALSE)
    BY Zenon DEF Arrive, GatewayAnswers, RequestLost, NeighborInv, NeighborTyped
  <2>2. CASE asked' = asked
    BY ONLY <2>1, <2>2, Zenon
  <2>3. CASE asked' = FALSE
    BY ONLY <2>3, Zenon
  <2>4. QED BY ONLY <2>1, <2>2, <2>3, Zenon
<1>4. NeighborTyped'
  BY <1>1, <1>3 DEF NeighborInv, NeighborTyped
<1>5. RecentInv' /\ SeedInv' /\ PassInv'
  BY <1>1 DEF NeighborInv, RecentInv, SeedInv, PassInv
<1>6. SeedSuffices' /\ NoneLeftBehind'
  BY <1>1, <1>3 DEF NeighborInv, SeedSuffices, NoneLeftBehind, Found, FoundIn
<1>7. QED BY <1>2, <1>4, <1>5, <1>6 DEF NeighborInv

LEMMA PollStartNeighborInv ==
    ASSUME NeighborInv, NEW d \in 0 .. ENTRY_LIFETIME, PollStart(d)
    PROVE  NeighborInv'
<1>1. /\ at = "idle" /\ at' = "ingress" /\ silent' = Expire(silent, d) /\ recent' = After(d)
      /\ cache' = [h \in DOMAIN cache |-> Expire(cache[h], d)]
      /\ meta' = [s \in Sockets |-> IF meta[s] = Active THEN Active ELSE Expire(meta[s], d)]
      /\ up' = IF pending_synth THEN 0 ELSE ENTRY_LIFETIME - Expire(ENTRY_LIFETIME - up, d)
      /\ UNCHANGED <<queue_id, pending_synth, rx, turn, want, asked>>
  BY DEF PollStart
<1>2. d \in Nat /\ ENTRY_LIFETIME \in Nat
  BY NeighborAssumption
<1>3. up' \in 0 .. ENTRY_LIFETIME /\ (~pending_synth => up' >= up /\ (up' < ENTRY_LIFETIME => up' = up + d))
  <2>1. up \in 0 .. ENTRY_LIFETIME
    BY DEF NeighborInv, NeighborTyped
  <2>2. QED BY <1>1, <1>2, <2>1 DEF Expire
<1>4. NeighborTyped'
  <2>1. \A h \in DOMAIN cache' : cache'[h] \in Nat
    BY <1>1, <1>2, ExpireType DEF NeighborInv, NeighborTyped
  <2>2. silent' \in Nat
    BY <1>1, <1>2, ExpireType DEF NeighborInv, NeighborTyped
  <2>3. meta' \in [Sockets -> FromNowOn]
    <3>1. ASSUME NEW s \in Sockets PROVE meta'[s] \in FromNowOn
      <4>1. meta[s] \in Nat \/ meta[s] = Active
        BY DEF NeighborInv, NeighborTyped, FromNowOn
      <4>2. QED BY <1>1, <1>2, <4>1, ExpireType DEF FromNowOn
    <3>2. QED BY <1>1, <3>1
  <2>4. QED BY <1>1, <1>3, <2>1, <2>2, <2>3 DEF NeighborInv, NeighborTyped
<1>5. FramesInv'
  BY <1>1 DEF NeighborInv, FramesInv
<1>6. RecentInv'
  BY <1>1, <1>2, AfterSpaced DEF NeighborInv
<1>7. SeedInv'
  <2> SUFFICES ASSUME queue_id # 0
               PROVE  /\ pending_synth => at' # "egress" /\ up' = 0
                      /\ ~pending_synth =>
                            Gw \in DOMAIN cache' /\ cache'[Gw] + up' >= ENTRY_LIFETIME
    BY <1>1 DEF SeedInv
  <2>1. CASE pending_synth
    BY <1>1, <2>1
  <2>2. CASE ~pending_synth
    <3>1. Gw \in DOMAIN cache /\ cache[Gw] + up >= ENTRY_LIFETIME /\ cache[Gw] \in Nat
      BY <2>2 DEF NeighborInv, SeedInv, NeighborTyped
    <3>2. Gw \in DOMAIN cache' /\ cache'[Gw] = Expire(cache[Gw], d)
      BY <1>1, <3>1
    <3>3. up \in 0 .. ENTRY_LIFETIME
      BY DEF NeighborInv, NeighborTyped
    <3>4. CASE up' < ENTRY_LIFETIME
      BY <1>2, <1>3, <2>2, <3>1, <3>2, <3>3, <3>4 DEF Expire
    <3>5. CASE ~(up' < ENTRY_LIFETIME)
      <4>1. cache'[Gw] \in Nat /\ up' = ENTRY_LIFETIME
        BY <1>2, <1>3, <3>1, <3>2, <3>5, ExpireType
      <4>2. QED BY <1>2, <2>2, <3>2, <4>1
    <3>6. QED BY <3>4, <3>5
  <2>3. QED BY <2>1, <2>2
<1>8. PassInv'
  BY <1>1 DEF NeighborInv, PassInv
<1>9. SeedSuffices'
  <2> SUFFICES ASSUME queue_id # 0, up' < ENTRY_LIFETIME
               PROVE  ~asked' /\ \A s \in Sockets : meta'[s] = Active
    BY <1>1 DEF SeedSuffices
  <2>1. up < ENTRY_LIFETIME
    <3>1. CASE pending_synth
      BY <3>1, NeighborAssumption DEF NeighborInv, SeedInv
    <3>2. CASE ~pending_synth
      BY <1>2, <1>3, <3>2 DEF NeighborInv, NeighborTyped
    <3>3. QED BY <3>1, <3>2
  <2>2. ~asked /\ \A s \in Sockets : meta[s] = Active
    BY <2>1 DEF NeighborInv, SeedSuffices
  <2>3. QED BY <1>1, <2>2
<1>10. NoneLeftBehind'
  BY <1>1 DEF NoneLeftBehind
<1>11. QED BY <1>4, <1>5, <1>6, <1>7, <1>8, <1>9, <1>10 DEF NeighborInv

\* What fill stores: an entry of full lifetime, the others as they were.
LEMMA FillsType ==
    ASSUME NeighborTyped, NEW h, NEW c \in Fills(h)
    PROVE  h \in DOMAIN c /\ c[h] = ENTRY_LIFETIME /\ \A g \in DOMAIN c : c[g] \in Nat
<1>1. \E kept \in SUBSET DOMAIN cache : c = Stored(h, kept)
  <2>1. CASE h \in DOMAIN cache \/ Cardinality(DOMAIN cache) < IFACE_NEIGHBOR_CACHE_COUNT
    <3>1. c = Stored(h, DOMAIN cache)
      BY <2>1 DEF Fills
    <3>2. QED BY <3>1
  <2>2. CASE ~(h \in DOMAIN cache \/ Cardinality(DOMAIN cache) < IFACE_NEIGHBOR_CACHE_COUNT)
    <3>1. \E old \in DOMAIN cache : c = Stored(h, DOMAIN cache \ {old})
      BY <2>2 DEF Fills
    <3>2. QED BY <3>1
  <2>3. QED BY <2>1, <2>2
<1>2. PICK kept \in SUBSET DOMAIN cache : c = Stored(h, kept)
  BY <1>1
<1>3. c = [g \in kept \union {h} |-> IF g = h THEN ENTRY_LIFETIME ELSE cache[g]]
  BY <1>2 DEF Stored
<1>4. \A g \in kept : cache[g] \in Nat
  BY DEF NeighborTyped
<1>5. QED BY <1>3, <1>4, NeighborAssumption

LEMMA TakeSynthNeighborInv == NeighborInv /\ TakeSynth => NeighborInv'
<1> SUFFICES ASSUME NeighborInv, TakeSynth PROVE NeighborInv' OBVIOUS
<1>1. /\ at = "ingress" /\ pending_synth' = FALSE /\ cache' \in Fills(Gw)
      /\ UNCHANGED <<queue_id, rx, at, turn, silent, meta, want, asked, up, recent>>
  BY DEF TakeSynth, ProcessArp, build_arp_reply, arp_frame
<1>2. /\ Gw \in DOMAIN cache' /\ cache'[Gw] = ENTRY_LIFETIME
      /\ \A g \in DOMAIN cache' : cache'[g] \in Nat
  BY <1>1, FillsType DEF NeighborInv
<1>3. NeighborTyped'
  BY <1>1, <1>2 DEF NeighborInv, NeighborTyped
<1>4. FramesInv' /\ RecentInv' /\ PassInv'
  BY <1>1 DEF NeighborInv, FramesInv, RecentInv, PassInv
<1>5. SeedInv'
  BY <1>1, <1>2, NeighborAssumption DEF NeighborInv, NeighborTyped, SeedInv
<1>6. SeedSuffices' /\ NoneLeftBehind'
  BY <1>1 DEF NeighborInv, SeedSuffices, NoneLeftBehind
<1>7. QED BY <1>3, <1>4, <1>5, <1>6 DEF NeighborInv

\* While the seed lasts, the gateway is found.
LEMMA SeedFound ==
    ASSUME NeighborInv, queue_id # 0, ~pending_synth, up < ENTRY_LIFETIME
    PROVE  Found(Gw)
<1>1. Gw \in DOMAIN cache /\ cache[Gw] + up >= ENTRY_LIFETIME /\ cache[Gw] \in Nat
  BY DEF NeighborInv, SeedInv, NeighborTyped
<1>2. up \in Nat /\ ENTRY_LIFETIME \in Nat
  BY NeighborAssumption DEF NeighborInv, NeighborTyped
<1>3. cache[Gw] > 0
  BY <1>1, <1>2
<1>4. QED BY <1>1, <1>3 DEF Found, FoundIn

LEMMA IngressNeighborInv == NeighborInv /\ Ingress => NeighborInv'
<1> SUFFICES ASSUME NeighborInv, Ingress PROVE NeighborInv' OBVIOUS
<1> DEFINE f == rx[1]
<1>1. /\ at = "ingress" /\ ~pending_synth /\ rx # <<>> /\ rx' = Tail(rx)
      /\ UNCHANGED <<queue_id, pending_synth, at, turn, meta, up>>
      /\ \/ f.kind = "arp" /\ ProcessArp(f)
         \/ f.kind = "ip" /\ ProcessIp(f)
         \/ f.kind = "tcp" /\ ProcessTcp(f)
  BY DEF Ingress, SynthDue
<1>2. /\ rx \in Seq(Frames) /\ Len(rx) \in Nat \ {0}
      /\ (queue_id # 0 => \A i \in 1 .. Len(rx) : rx[i].kind # "arp")
  <2>1. rx \in Seq(Frames) /\ (queue_id # 0 => \A i \in 1 .. Len(rx) : rx[i].kind # "arp")
    BY DEF NeighborInv, FramesInv
  <2>2. Len(rx) \in Nat \ {0}
    BY <1>1, <2>1, EmptySeq
  <2>3. QED BY <2>1, <2>2
<1>3. FramesInv'
  <2>1. /\ Tail(rx) \in Seq(Frames) /\ Len(Tail(rx)) = Len(rx) - 1
        /\ \A i \in 1 .. Len(rx) - 1 : Tail(rx)[i] = rx[i + 1]
    BY <1>1, <1>2, HeadTailProperties
  <2>2. ASSUME queue_id # 0, NEW i \in 1 .. Len(rx') PROVE rx'[i].kind # "arp"
    <3>1. rx'[i] = rx[i + 1] /\ i + 1 \in 1 .. Len(rx)
      BY <1>1, <1>2, <2>1
    <3>2. QED BY <1>2, <2>2, <3>1
  <2>3. QED BY <1>1, <2>1, <2>2 DEF FramesInv
<1>4. /\ \A h \in DOMAIN cache' : cache'[h] \in Nat
      /\ silent' \in Nat /\ want' \in [Sockets -> BOOLEAN] /\ RecentInv'
      /\ queue_id # 0 => /\ Gw \in DOMAIN cache' /\ cache'[Gw] + up >= ENTRY_LIFETIME
                         /\ up < ENTRY_LIFETIME => asked' = asked
      /\ asked' \in BOOLEAN
  <2>0. /\ \A h \in DOMAIN cache : cache[h] \in Nat
        /\ silent \in Nat /\ want \in [Sockets -> BOOLEAN] /\ RecentInv
        /\ queue_id # 0 => Gw \in DOMAIN cache /\ cache[Gw] + up >= ENTRY_LIFETIME
        /\ up \in Nat /\ ENTRY_LIFETIME \in Nat \ {0} /\ asked \in BOOLEAN
    BY <1>1, NeighborAssumption DEF NeighborInv, NeighborTyped, SeedInv
  <2>1. CASE f.kind = "arp" /\ ProcessArp(f)
    <3>1. queue_id = 0
      BY <1>2, <2>1
    <3>2. UNCHANGED <<silent, asked, recent, want>> /\ (cache' \in Fills(f.from) \/ cache' = cache)
      BY <2>1 DEF ProcessArp
    <3>3. \A h \in DOMAIN cache' : cache'[h] \in Nat
      BY <2>0, <3>2, FillsType DEF NeighborInv
    <3>4. RecentInv'
      BY <2>0, <3>2 DEF RecentInv
    <3>5. QED BY <2>0, <3>1, <3>2, <3>3, <3>4
  <2>2. CASE f.kind = "ip" /\ ProcessIp(f)
    <3>1. /\ \/ cache' = cache
             \/ cache' = [g \in DOMAIN cache |-> IF g = f.from THEN ENTRY_LIFETIME ELSE cache[g]]
          /\ IF f.reply /\ ~FoundIn(cache', f.from) THEN Ask(f.from) ELSE UNCHANGED <<silent, asked, recent>>
          /\ want' = want
      BY <2>2 DEF ProcessIp, Refreshes
    <3>2. /\ DOMAIN cache' = DOMAIN cache
          /\ \A h \in DOMAIN cache' :
                 /\ cache'[h] \in Nat
                 /\ cache'[h] = cache[h] \/ cache'[h] = ENTRY_LIFETIME
      BY <2>0, <3>1
    <3>3. queue_id # 0 => Gw \in DOMAIN cache' /\ cache'[Gw] + up >= ENTRY_LIFETIME
      BY <2>0, <3>2
    <3>4. CASE f.reply /\ ~FoundIn(cache', f.from)
      <4>1. Ask(f.from)
        BY <3>1, <3>4
      <4>2. silent' \in Nat /\ RecentInv' /\ asked' \in BOOLEAN /\ (f.from # Gw => asked' = asked)
        BY <4>1, AskSpaced DEF NeighborInv
      <4>3. queue_id # 0 /\ up < ENTRY_LIFETIME => f.from # Gw
        BY <2>0, <3>2, <3>3, <3>4 DEF FoundIn
      <4>4. QED BY <2>0, <3>1, <3>2, <3>3, <4>2, <4>3
    <3>5. CASE ~ (f.reply /\ ~FoundIn(cache', f.from))
      <4>1. UNCHANGED <<silent, asked, recent>>
        BY <3>1, <3>5
      <4>2. RecentInv'
        BY <2>0, <4>1 DEF RecentInv
      <4>3. QED BY <2>0, <3>1, <3>2, <3>3, <4>1, <4>2
    <3>6. QED BY <3>4, <3>5
  <2>3. CASE f.kind = "tcp" /\ ProcessTcp(f)
    <3>1. /\ want' \in {want} \union {[want EXCEPT ![s] = TRUE] : s \in Sockets} /\ cache' = cache
          /\ IF f.reply /\ ~Found(Gw) THEN Ask(Gw) ELSE UNCHANGED <<silent, asked, recent>>
      BY <2>3 DEF ProcessTcp
    <3>2. want' \in [Sockets -> BOOLEAN]
      BY <2>0, <3>1
    <3>3. silent' \in Nat /\ RecentInv' /\ asked' \in BOOLEAN
      <4>1. CASE f.reply /\ ~Found(Gw)
        BY <3>1, <4>1, AskSpaced DEF NeighborInv
      <4>2. CASE ~(f.reply /\ ~Found(Gw))
        BY <2>0, <3>1, <4>2 DEF RecentInv
      <4>3. QED BY <4>1, <4>2
    <3>4. queue_id # 0 /\ up < ENTRY_LIFETIME => asked' = asked
      BY <1>1, <3>1, SeedFound
    <3>5. QED BY <2>0, <3>1, <3>2, <3>3, <3>4
  <2>4. QED BY <1>1, <2>1, <2>2, <2>3
<1>5. NeighborTyped'
  BY <1>1, <1>4 DEF NeighborInv, NeighborTyped
<1>6. SeedInv' /\ PassInv'
  BY <1>1, <1>4 DEF NeighborInv, SeedInv, PassInv
<1>7. SeedSuffices' /\ NoneLeftBehind'
  BY <1>1, <1>4 DEF NeighborInv, SeedSuffices, NoneLeftBehind
<1>8. QED BY <1>3, <1>4, <1>5, <1>6, <1>7 DEF NeighborInv

LEMMA IngressEndNeighborInv == NeighborInv /\ IngressEnd => NeighborInv'
<1> SUFFICES ASSUME NeighborInv, IngressEnd PROVE NeighborInv' OBVIOUS
<1>1. /\ at = "ingress" /\ ~pending_synth /\ at' = "egress" /\ turn = 1
      /\ UNCHANGED <<queue_id, pending_synth, rx, turn, cache, silent, meta, want, asked, up, recent>>
  BY DEF IngressEnd, SynthDue, NeighborInv, PassInv
<1>2. NeighborTyped' /\ FramesInv'
  BY <1>1 DEF NeighborInv, NeighborTyped, FramesInv
<1>3. RecentInv' /\ SeedInv' /\ PassInv'
  BY <1>1 DEF NeighborInv, RecentInv, SeedInv, PassInv
<1>4. SeedSuffices'
  BY <1>1 DEF NeighborInv, SeedSuffices
<1>5. NoneLeftBehind'
  BY <1>1 DEF NoneLeftBehind
<1>6. QED BY <1>2, <1>3, <1>4, <1>5 DEF NeighborInv

LEMMA EgressNeighborInv == NeighborInv /\ Egress => NeighborInv'
<1> SUFFICES ASSUME NeighborInv, Egress PROVE NeighborInv' OBVIOUS
<1>1. /\ at = "egress" /\ turn \in 1 .. NSockets /\ NSockets \in Nat \ {0} /\ turn \in Sockets
      /\ UNCHANGED <<queue_id, pending_synth, rx, cache, up>>
      /\ IF turn = NSockets THEN turn' = 1 /\ at' = "idle" ELSE turn' = turn + 1 /\ at' = at
  BY NeighborAssumption DEF Egress, NeighborInv, NeighborTyped, Sockets
<1>2. \/ /\ Found(Gw) /\ want' = [want EXCEPT ![turn] = FALSE]
         /\ meta' = [meta EXCEPT ![turn] = Active] /\ UNCHANGED <<silent, asked, recent>>
      \/ /\ ~Found(Gw) /\ meta' = [meta EXCEPT ![turn] = DISCOVERY_SILENT_TIME]
         /\ Ask(Gw) /\ want' = want
      \/ ~Found(Gw) /\ UNCHANGED <<want, meta, silent, asked, recent>>
  BY DEF Egress, Permitted
<1>3. /\ turn' \in Sockets /\ at' \in {"idle", "egress"} /\ (at' # "egress" => turn' = 1)
      /\ at' = "egress" => turn' = turn + 1
  BY <1>1 DEF Sockets
<1>4. /\ silent' \in Nat /\ RecentInv' /\ meta' \in [Sockets -> FromNowOn]
      /\ want' \in [Sockets -> BOOLEAN] /\ asked' \in BOOLEAN
  <2>0. /\ silent \in Nat /\ RecentInv /\ meta \in [Sockets -> FromNowOn]
        /\ want \in [Sockets -> BOOLEAN] /\ asked \in BOOLEAN
        /\ DISCOVERY_SILENT_TIME \in FromNowOn /\ Active \in FromNowOn
    BY NeighborAssumption DEF NeighborInv, NeighborTyped, FromNowOn
  <2>1. silent' \in Nat /\ RecentInv' /\ asked' \in BOOLEAN
    <3>1. CASE Ask(Gw)
      BY <3>1, AskSpaced DEF NeighborInv
    <3>2. CASE UNCHANGED <<silent, asked, recent>>
      BY <2>0, <3>2 DEF RecentInv
    <3>3. QED BY <1>2, <3>1, <3>2
  <2>2. meta' \in [Sockets -> FromNowOn] /\ want' \in [Sockets -> BOOLEAN]
    BY <1>2, <2>0
  <2>3. QED BY <2>1, <2>2
<1>5. NeighborTyped'
  BY <1>1, <1>3, <1>4 DEF NeighborInv, NeighborTyped
<1>6. FramesInv' /\ PassInv'
  BY <1>1, <1>3 DEF NeighborInv, FramesInv, PassInv
<1>7. queue_id # 0 => ~pending_synth
  BY <1>1 DEF NeighborInv, SeedInv
<1>8. SeedInv'
  BY <1>1, <1>7 DEF NeighborInv, SeedInv
<1>9. SeedSuffices'
  <2> SUFFICES ASSUME queue_id # 0, up < ENTRY_LIFETIME
               PROVE  ~asked' /\ \A s \in Sockets : meta'[s] = Active
    BY <1>1 DEF SeedSuffices
  <2>1. Found(Gw)
    BY <1>7, SeedFound
  <2>2. ~asked /\ \A s \in Sockets : meta[s] = Active
    BY DEF NeighborInv, SeedSuffices
  <2>3. meta \in [Sockets -> FromNowOn]
    BY DEF NeighborInv, NeighborTyped
  <2>4. QED BY <1>1, <1>2, <2>1, <2>2, <2>3
<1>10. NoneLeftBehind'
  <2> SUFFICES ASSUME at' = "egress", Found(Gw), NEW s \in 1 .. turn' - 1 PROVE ~want'[s]
    BY <1>1 DEF NoneLeftBehind, Found, FoundIn
  <2>1. turn' = turn + 1 /\ want' = [want EXCEPT ![turn] = FALSE]
    BY <1>2, <1>3
  <2>2. want \in [Sockets -> BOOLEAN] /\ \A r \in 1 .. turn - 1 : ~want[r]
    BY <1>1 DEF NeighborInv, NeighborTyped, NoneLeftBehind
  <2>3. s \in 1 .. turn - 1 \/ s = turn
    BY <1>1, <2>1
  <2>4. s \in Sockets
    BY <1>1, <2>3 DEF Sockets
  <2>5. QED BY <2>1, <2>2, <2>3, <2>4
<1>11. QED BY <1>4, <1>5, <1>6, <1>8, <1>9, <1>10 DEF NeighborInv

LEMMA QueueNeighborInv ==
    ASSUME NeighborInv, NEW s \in Sockets, Queue(s)
    PROVE  NeighborInv'
<1>1. /\ at = "idle" /\ want' = [want EXCEPT ![s] = TRUE]
      /\ UNCHANGED <<queue_id, pending_synth, rx, at, turn, cache, silent, meta, asked, up, recent>>
  BY DEF Queue
<1>2. NeighborTyped'
  BY <1>1 DEF NeighborInv, NeighborTyped
<1>3. FramesInv' /\ RecentInv' /\ SeedInv' /\ PassInv'
  BY <1>1 DEF NeighborInv, FramesInv, RecentInv, SeedInv, PassInv
<1>4. SeedSuffices' /\ NoneLeftBehind'
  BY <1>1 DEF NeighborInv, SeedSuffices, NoneLeftBehind
<1>5. QED BY <1>2, <1>3, <1>4 DEF NeighborInv

LEMMA NextNeighborInv == NeighborInv /\ [Next]_vars => NeighborInv'
<1> SUFFICES ASSUME NeighborInv, [Next]_vars PROVE NeighborInv' OBVIOUS
<1>1. CASE Arrive \/ GatewayAnswers \/ RequestLost
  BY <1>1, NetworkNeighborInv
<1>2. CASE Poll
  BY <1>2, PollStartNeighborInv, TakeSynthNeighborInv, IngressNeighborInv, IngressEndNeighborInv,
     EgressNeighborInv DEF Poll
<1>3. CASE \E s \in Sockets : Queue(s)
  BY <1>3, QueueNeighborInv
<1>4. CASE UNCHANGED vars
  <2>1. UNCHANGED <<queue_id, pending_synth, rx, at, turn, cache, silent, meta, want, asked, up, recent>>
    BY <1>4 DEF vars
  <2>2. NeighborTyped' /\ FramesInv'
    BY <2>1 DEF NeighborInv, NeighborTyped, FramesInv
  <2>3. RecentInv' /\ SeedInv' /\ PassInv'
    BY <2>1 DEF NeighborInv, RecentInv, SeedInv, PassInv
  <2>4. SeedSuffices' /\ NoneLeftBehind'
    BY <2>1 DEF NeighborInv, SeedSuffices, NoneLeftBehind, Found, FoundIn
  <2>5. QED BY <2>2, <2>3, <2>4 DEF NeighborInv
<1>5. QED BY <1>1, <1>2, <1>3, <1>4 DEF Next

LEMMA AlwaysNeighborInv == Spec => []NeighborInv
BY InitNeighborInv, NextNeighborInv, PTL DEF Spec

-----------------------------------------------------------------------------
\* Until the fabricated reply expires, a worker on another queue than 0 neither
\* asks for the gateway nor has a socket wait for it, whatever arrives and
\* whomever else it asks for, for any number of sockets and any lifetime.
THEOREM SeedSufficesHolds == Spec => []SeedSuffices
<1>1. NeighborInv => SeedSuffices
  BY DEF NeighborInv
<1>2. QED BY <1>1, AlwaysNeighborInv, PTL

\* However many sockets wait and packets call for an answer at once, two ARP
\* requests of a worker, for whomever, are at least SILENT_TIME apart.
THEOREM RequestsSpacedHolds == Spec => []RequestsSpaced
<1>1. NeighborInv => RequestsSpaced
  <2> SUFFICES ASSUME NeighborInv PROVE Len(recent) <= 1
    BY DEF RequestsSpaced
  <2>1. recent = <<>> \/ recent = <<silent>>
    BY DEF NeighborInv, RecentInv
  <2>2. Len(<<>>) = 0 /\ Len(<<silent>>) = 1
    OBVIOUS
  <2>3. CASE recent = <<>>
    BY <2>2, <2>3
  <2>4. CASE recent = <<silent>>
    BY <2>2, <2>4
  <2>5. QED BY <2>1, <2>3, <2>4
<1>2. QED BY <1>1, AlwaysNeighborInv, PTL

\* Once the gateway is found, an egress pass has sent for every socket behind
\* it, silenced or not, for any number of sockets.
THEOREM NoneLeftBehindHolds == Spec => []NoneLeftBehind
<1>1. NeighborInv => NoneLeftBehind
  BY DEF NeighborInv
<1>2. QED BY <1>1, AlwaysNeighborInv, PTL
=============================================================================
