---------------------------- MODULE AllocProofs -----------------------------
(***************************************************************************)
(* Proofs about Alloc: how far pageNum is right, where the pool lies, that *)
(* descriptors and blocks always agree, and that malloc and free implement *)
(* Heap, for every heap address, every pool size and every set of sizes    *)
(* that the pool could hold.                                               *)
(***************************************************************************)
EXTENDS Alloc, WellFoundedInduction, TLAPS

USE SizesAssumption

\* Nobody asks for more pages than there are.
Modest == \A size \in Sizes : PageNum(size) <= N

Start == Align(HEAP_START + RESERVED * PAGE_SIZE)

\* page_init has run, or nothing has.
Boot ==
    \/ num_pages = 0 /\ alloc_start = 0 /\ alloc_end = 0 /\ blocks = {} /\ p = NULL /\ req = NOREQ
    \/ num_pages = N /\ alloc_start = Start /\ alloc_end = MEMORY_END

\* Where a block lies.
PlacedAt(b, i) == b.p = Address(i) /\ i + PageNum(b.size) <= N
Placed == \A b \in blocks : \E i \in Descs : PlacedAt(b, i)

IInv == TypeOK /\ Boot /\ Placed /\ DescriptorsExact /\ BlocksApart

-----------------------------------------------------------------------------
(* Arithmetic.                                                              *)

\* pageNum never gives nothing.
LEMMA PageNumType == \A size \in Nat : PageNum(size) \in Nat \ {0}
BY DEF PageNum, PAGE_SIZE

\* Where page_init puts the pool (alloc.c:94-105): behind the descriptors, on a
\* page boundary and exactly up to the end of the memory, for every HEAP_START.
THEOREM Geometry ==
    /\ N \in Nat \ {0}
    /\ Start \in Nat \ {0} /\ Start % PAGE_SIZE = 0
    /\ HEAP_START + N <= Start
    /\ Start + PAGE_SIZE * N = MEMORY_END
BY HeapAssumption DEF Start, HEAP_SIZE, N, PAGE_SIZE, RESERVED, Align, NULL

\* pageNum (alloc.c:33) is enough for up to two pages ...
THEOREM TwoPagesEnough ==
    \A size \in Nat : size <= 2 * PAGE_SIZE => size <= PageNum(size) * PAGE_SIZE
BY DEF PageNum, PAGE_SIZE

\* ... and from there on lacks at most one byte for each page after the first.
THEOREM Shortfall ==
    \A size \in Nat : size - PageNum(size) * PAGE_SIZE <= PageNum(size) - 1
BY DEF PageNum, PAGE_SIZE

\* free finds the descriptor of the page whose address it is given.
LEMMA PageOfAddress ==
    ASSUME alloc_start \in Nat, NEW i \in Int
    PROVE  PageOf(Address(i)) = i
BY DEF PageOf, Address, PAGE_SIZE

\* Addresses of pages lie in the pool and are not NULL.
LEMMA AddressRange ==
    ASSUME Boot, num_pages > 0, NEW i \in 0..N
    PROVE  /\ Address(i) \in alloc_start..alloc_end
           /\ i < N => Address(i) < alloc_end
           /\ Address(i) # NULL /\ Address(i) % PAGE_SIZE = 0
<1>1. num_pages = N /\ alloc_start = Start /\ alloc_end = MEMORY_END
  BY Geometry DEF Boot
<1>2. Start \in Nat \ {0} /\ N \in Nat /\ Start + 256 * N = MEMORY_END /\ Start % 256 = 0
  BY Geometry DEF PAGE_SIZE
<1> QED BY <1>1, <1>2 DEF Address, PAGE_SIZE, NULL

\* What IInv says of a block in one place.
LEMMA BlockFacts ==
    ASSUME IInv, NEW b \in blocks
    PROVE  /\ num_pages = N /\ num_pages > 0
           /\ b.size \in Sizes /\ PageNum(b.size) \in Nat \ {0}
           /\ PageOf(b.p) \in Descs /\ PageOf(b.p) + PageNum(b.size) <= N
           /\ b.p = Address(PageOf(b.p))
           /\ Span(b) \subseteq Descs
           /\ PageOf(b.p) \in Span(b)
<1>1. num_pages = N /\ num_pages > 0 /\ N \in Nat
  BY Geometry DEF IInv, Boot
<1>2. b.size \in Sizes
  BY DEF IInv, TypeOK
<1>6. PageNum(b.size) \in Nat \ {0}
  BY <1>2, PageNumType
<1>3. PICK i \in Descs : PlacedAt(b, i)
  BY DEF IInv, Placed
<1>4. PageOf(b.p) = i
  BY <1>1, <1>3, PageOfAddress DEF PlacedAt, IInv, TypeOK, Descs
<1> QED BY <1>1, <1>2, <1>3, <1>4, <1>6 DEF PlacedAt, Span, Descs

-----------------------------------------------------------------------------
(* Each function keeps the invariant.                                       *)

\* Before page_init nothing is allocated.
LEMMA InitIInv == Init => IInv
<1> SUFFICES ASSUME Init PROVE IInv
  OBVIOUS
<1>1. N \in Nat
  BY Geometry
<1>2. TypeOK
  BY <1>1 DEF Init, TypeOK, NULL
<1>3. Boot /\ Placed /\ BlocksApart
  BY DEF Init, Boot, Placed, BlocksApart
<1>4. DescriptorsExact
  BY DEF Init, DescriptorsExact
<1> QED BY <1>2, <1>3, <1>4 DEF IInv

\* page_init clears the table, whatever it held.
LEMMA PageInitStep == IInv /\ PageInit => IInv'
<1> SUFFICES ASSUME IInv, PageInit PROVE IInv'
  OBVIOUS
<1>1. N \in Nat \ {0} /\ Start \in Nat /\ Start + PAGE_SIZE * N = MEMORY_END
  BY Geometry
<1>2. num_pages' = N /\ alloc_start' = Start /\ alloc_end' = MEMORY_END
  BY <1>1 DEF PageInit, Start
<1>3. blocks = {} /\ blocks' = {} /\ p' = NULL /\ req' = NOREQ
  BY <1>1 DEF PageInit, IInv, Boot
<1>4. TypeOK'
  BY <1>1, <1>2, <1>3, HeapAssumption DEF PageInit, TypeOK
<1>5. Boot' /\ Placed' /\ BlocksApart'
  BY <1>2, <1>3 DEF Boot, Placed, BlocksApart, Start
<1>6. DescriptorsExact'
  BY <1>3 DEF PageInit, DescriptorsExact
<1> QED BY <1>4, <1>5, <1>6 DEF IInv

\* The search of malloc ends at free pages inside the pool.
LEMMA FoundFacts ==
    ASSUME IInv, Modest, num_pages > 0, NEW size \in Sizes, NEW i \in Found(PageNum(size))
    PROVE  /\ i \in Descs /\ i + PageNum(size) <= N
           /\ \A j \in i..(i + PageNum(size) - 1) : j \in Descs /\ IsFree(j)
<1>1. num_pages = N /\ N \in Nat
  BY Geometry DEF IInv, Boot
<1>2. PageNum(size) \in Nat \ {0} /\ PageNum(size) <= N
  BY PageNumType DEF Modest
<1>3. i \in Candidates(PageNum(size))
  BY <1>1, <1>2 DEF Found
<1> QED BY <1>1, <1>2, <1>3 DEF Candidates, Descs

\* malloc marks a run of free pages and ends it with PAGE_LAST.
LEMMA MallocStep == ASSUME NEW size \in Sizes PROVE IInv /\ Modest /\ Malloc(size) => IInv'
<1> SUFFICES ASSUME IInv, Modest, Malloc(size) PROVE IInv'
  OBVIOUS
<1> DEFINE n == PageNum(size)
<1>1. /\ num_pages > 0 /\ num_pages = N /\ N \in Nat /\ req' = size /\ n \in Nat \ {0}
      /\ num_pages' = num_pages /\ alloc_start' = alloc_start /\ alloc_end' = alloc_end
  BY Geometry, PageNumType DEF Malloc, pool, IInv, Boot
<1>2. /\ \A a : PageOf(a)' = PageOf(a)
      /\ \A j : Address(j)' = Address(j)
      /\ \A b : Span(b)' = Span(b)
  BY <1>1 DEF PageOf, Address, Span
<1>3. Boot'
  BY <1>1 DEF IInv, Boot
<1>4. CASE Found(n) = {} /\ p' = NULL /\ UNCHANGED <<flags, blocks>>
  <2>1. TypeOK'
    BY <1>1, <1>4 DEF IInv, TypeOK
  <2>2. Placed'
    BY <1>2, <1>4 DEF IInv, Placed, PlacedAt
  <2>3. DescriptorsExact'
    BY <1>1, <1>2, <1>4 DEF IInv, DescriptorsExact
  <2>4. BlocksApart'
    BY <1>2, <1>4 DEF IInv, BlocksApart
  <2> QED BY <1>3, <2>1, <2>2, <2>3, <2>4 DEF IInv
<1>5. ASSUME NEW i \in Found(n),
             flags' = Taken(i, n), p' = Address(i),
             blocks' = blocks \cup {[p |-> Address(i), size |-> size]}
      PROVE  IInv'
  <2> DEFINE new == [p |-> Address(i), size |-> size]
  <2>1. /\ i \in Descs /\ i + n <= N /\ i \in Int
        /\ \A j \in i..(i + n - 1) : j \in Descs /\ IsFree(j)
    BY <1>1, FoundFacts DEF Descs
  <2>2. Address(i) \in alloc_start..alloc_end
    BY <1>1, <2>1, AddressRange DEF IInv, Descs
  <2>3. PageOf(new.p) = i /\ Span(new) = i..(i + n - 1)
    BY <1>1, <2>1, PageOfAddress DEF Span, IInv, TypeOK
  <2>4. TypeOK'
    <3>1. flags' \in [Descs -> SUBSET {TAKEN, LAST}]
      BY <1>5 DEF Taken, IInv, TypeOK
    <3>2. blocks' \subseteq [p : alloc_start..alloc_end, size : Sizes]
      BY <1>5, <2>2 DEF IInv, TypeOK
    <3> QED BY <1>1, <1>5, <2>2, <3>1, <3>2 DEF IInv, TypeOK
  <2>5. Placed'
    <3>1. ASSUME NEW b \in blocks PROVE \E k \in Descs : PlacedAt(b, k)'
      BY <1>2 DEF IInv, Placed, PlacedAt
    <3>2. PlacedAt(new, i)'
      BY <1>2, <2>1 DEF PlacedAt
    <3>3. ASSUME NEW b \in blocks' PROVE \E k \in Descs : PlacedAt(b, k)'
      <4>1. CASE b \in blocks
        BY <3>1, <4>1
      <4>2. CASE b = new
        BY <1>2, <2>1, <4>2 DEF PlacedAt
      <4> QED BY <1>5, <4>1, <4>2
    <3> QED BY <3>3 DEF Placed
  <2>6. \A b \in blocks : Span(b) \cap Span(new) = {}
    <3> SUFFICES ASSUME NEW b \in blocks, NEW k \in Span(b), k \in Span(new) PROVE FALSE
      OBVIOUS
    <3>1. k \in Descs /\ IsFree(k)
      BY <2>1, <2>3
    <3>2. TAKEN \in flags[k]
      BY <1>1, <3>1 DEF IInv, DescriptorsExact
    <3> QED BY <3>1, <3>2 DEF IsFree
  <2>7. BlocksApart'
    BY <1>2, <1>5, <2>6 DEF IInv, BlocksApart
  <2>8. DescriptorsExact'
    <3> SUFFICES ASSUME NEW k \in Descs
                 PROVE  /\ TAKEN \in flags'[k] <=> \E b \in blocks' : k \in Span(b)
                        /\ LAST \in flags'[k] <=>
                             \E b \in blocks' : k = PageOf(b.p) + PageNum(b.size) - 1
      BY <1>2 DEF DescriptorsExact
    <3>1. /\ TAKEN \in flags[k] <=> \E b \in blocks : k \in Span(b)
          /\ LAST \in flags[k] <=> \E b \in blocks : k = PageOf(b.p) + PageNum(b.size) - 1
      BY <1>1 DEF IInv, DescriptorsExact
    <3>2. CASE k \in i..(i + n - 1)
      <4>1. TAKEN \in flags'[k] /\ k \in Span(new) /\ new \in blocks'
        BY <1>5, <2>3, <3>2 DEF Taken
      <4>2. LAST \notin flags[k]
        <5> SUFFICES ASSUME NEW b \in blocks, k = PageOf(b.p) + PageNum(b.size) - 1
                     PROVE  FALSE
          BY <3>1
        <5>1. k \in Span(b)
          BY BlockFacts DEF Span, Descs
        <5> QED BY <2>6, <4>1, <5>1
      <4>3. LAST \in flags'[k] <=> k = i + n - 1
        BY <1>5, <3>2, <4>2 DEF Taken, TAKEN, LAST
      <4>4. new.size = size
        OBVIOUS
      <4>5. \A b \in blocks : k # PageOf(b.p) + PageNum(b.size) - 1
        BY <3>1, <4>2
      <4>6. (\E b \in blocks' : k = PageOf(b.p) + PageNum(b.size) - 1) <=> k = i + n - 1
        BY <1>5, <2>3, <4>4, <4>5
      <4> QED BY <4>1, <4>3, <4>6
    <3>3. CASE k \notin i..(i + n - 1)
      <4>1. flags'[k] = flags[k]
        BY <1>5, <3>3 DEF Taken
      <4>2. k \notin Span(new) /\ k # PageOf(new.p) + PageNum(new.size) - 1
        BY <1>1, <2>1, <2>3, <3>3
      <4> QED BY <1>5, <3>1, <4>1, <4>2
    <3> QED BY <3>2, <3>3
  <2> QED BY <1>3, <2>4, <2>5, <2>7, <2>8 DEF IInv
<1> QED BY <1>4, <1>5 DEF Malloc

\* Two blocks with a page in common are the same block.
LEMMA OneBlock ==
    ASSUME IInv, NEW b \in blocks, NEW c \in blocks,
           \E k \in Span(b) : k \in Span(c)
    PROVE  b = c
BY DEF IInv, BlocksApart

\* free clears the descriptors of the block and no others.
LEMMA ClearedIsSpan ==
    ASSUME IInv, NEW b \in blocks
    PROVE  Cleared(PageOf(b.p)) = Span(b)
<1> DEFINE first == PageOf(b.p)
           last == first + PageNum(b.size) - 1
<1>1. /\ num_pages > 0 /\ N \in Nat /\ first \in Descs /\ last \in Descs /\ first <= last
      /\ Span(b) = first..last
  BY BlockFacts, Geometry DEF Span, Descs
<1>2. \A k \in Span(b) : k \in Descs /\ ~IsFree(k)
  BY <1>1, BlockFacts DEF IInv, DescriptorsExact, IsFree
<1>3. IsLast(last)
  BY <1>1 DEF IInv, DescriptorsExact, IsLast
<1>4. ASSUME NEW k \in Span(b), IsLast(k) PROVE k = last
  <2>1. PICK c \in blocks : k = PageOf(c.p) + PageNum(c.size) - 1
    BY <1>1, <1>2, <1>4 DEF IInv, DescriptorsExact, IsLast
  <2>2. k \in Span(c)
    BY <2>1, BlockFacts DEF Span, Descs
  <2>3. b = c
    BY <2>2, OneBlock
  <2> QED BY <2>1, <2>3
<1>5. ASSUME NEW j \in Span(b) PROVE j \in Cleared(first)
  <2>1. j \in Descs /\ j >= first /\ first \in Int /\ last \in Int /\ j <= last /\ j \in Int
    BY <1>1, <1>2, <1>5 DEF Descs
  <2>2. \A k \in first..j : k \in Span(b)
    BY <1>1, <2>1
  <2>3. \A k \in first..(j - 1) : ~IsLast(k)
    BY <1>1, <1>4, <2>1
  <2> QED BY <1>2, <2>1, <2>2, <2>3 DEF Cleared
<1>6. ASSUME NEW j \in Cleared(first) PROVE j \in Span(b)
  <2>1. j \in Int /\ j >= first /\ first \in Int /\ last \in Int
    BY <1>1, <1>6 DEF Cleared, Descs
  <2>2. CASE j > last
    BY <1>1, <1>3, <2>1, <2>2 DEF Cleared
  <2>3. CASE j <= last
    BY <1>1, <2>1, <2>3
  <2> QED BY <2>1, <2>2, <2>3
<1> QED BY <1>5, <1>6

\* What free does to the table and to what callers hold: it takes one block away,
\* or nothing happens.
LEMMA FreeEffect ==
    ASSUME IInv, NEW q \in Freeable, Free(q)
    PROVE  /\ UNCHANGED pool /\ req' = NOREQ /\ p' = NULL /\ num_pages = N
           /\ \/ UNCHANGED <<flags, blocks>>
              \/ \E b \in blocks :
                    /\ flags' = [k \in Descs |-> IF k \in Span(b) THEN {} ELSE flags[k]]
                    /\ blocks' = blocks \ {b}
<1>1. /\ UNCHANGED pool /\ req' = NOREQ /\ p' = NULL /\ num_pages = N /\ num_pages > 0
      /\ N \in Nat /\ alloc_start \in Nat /\ alloc_end \in Nat
  BY Geometry DEF Free, IInv, Boot, TypeOK
<1>2. ASSUME NEW b \in blocks
      PROVE  /\ b.p # NULL /\ b.p < alloc_end
             /\ \A c \in blocks : c.p = b.p => c = b
  <2>1. PageOf(b.p) \in 0..N /\ PageOf(b.p) < N /\ b.p = Address(PageOf(b.p))
    BY <1>1, BlockFacts DEF Descs
  <2>2. b.p # NULL /\ b.p < alloc_end
    BY <1>1, <2>1, AddressRange DEF IInv
  <2>3. ASSUME NEW c \in blocks, c.p = b.p PROVE c = b
    BY <2>3, BlockFacts, OneBlock
  <2> QED BY <2>2, <2>3
<1>3. CASE q = NULL \/ q >= alloc_end
  <2>1. flags' = flags
    BY <1>3 DEF Free
  <2>2. \A b \in blocks : b.p # q
    <3> SUFFICES ASSUME NEW b \in blocks, b.p = q PROVE FALSE
      OBVIOUS
    <3>1. b.p \in Nat
      BY <1>1 DEF IInv, TypeOK
    <3> QED BY <1>1, <1>2, <1>3, <3>1
  <2>3. blocks' = blocks
    BY <2>2 DEF Free
  <2> QED BY <1>1, <2>1, <2>3
<1>4. CASE ~(q = NULL \/ q >= alloc_end) /\ \E b \in blocks : q = b.p
  <2>1. PICK b \in blocks : q = b.p
    BY <1>4
  <2>2. flags' = [k \in Descs |-> IF k \in Span(b) THEN {} ELSE flags[k]]
    BY <1>4, <2>1, ClearedIsSpan DEF Free
  <2>3. blocks' = blocks \ {b}
    BY <1>2, <2>1 DEF Free
  <2> QED BY <1>1, <2>2, <2>3
<1>5. CASE ~(q = NULL \/ q >= alloc_end) /\ ~\E b \in blocks : q = b.p
  <2>1. PICK i \in Descs : IsFree(i) /\ q = Address(i)
    <3>1. q \in {Address(i) : i \in {j \in Descs : IsFree(j)}}
      BY <1>1, <1>5 DEF Freeable
    <3> QED BY <3>1
  <2>2. PageOf(q) = i /\ i \in Int
    BY <1>1, <2>1, PageOfAddress DEF Descs
  <2>3. Cleared(i) = {}
    BY <2>1, <2>2 DEF Cleared, Descs
  <2>4. flags' = [k \in Descs |-> flags[k]]
    BY <1>5, <2>2, <2>3 DEF Free
  <2>5. flags' = flags
    BY <2>4 DEF IInv, TypeOK
  <2>6. blocks' = blocks
    BY <1>5 DEF Free
  <2> QED BY <1>1, <2>5, <2>6
<1> QED BY <1>3, <1>4, <1>5

\* free takes the caller's own block away and leaves the others.
LEMMA FreeStep == ASSUME NEW q \in Freeable PROVE IInv /\ Free(q) => IInv'
<1> SUFFICES ASSUME IInv, Free(q) PROVE IInv'
  OBVIOUS
<1>1. /\ num_pages' = num_pages /\ alloc_start' = alloc_start /\ alloc_end' = alloc_end
      /\ req' = NOREQ /\ p' = NULL /\ num_pages = N /\ N \in Nat \ {0}
  BY FreeEffect, Geometry DEF pool
<1>2. /\ \A a : PageOf(a)' = PageOf(a)
      /\ \A j : Address(j)' = Address(j)
      /\ \A b : Span(b)' = Span(b)
  BY <1>1 DEF PageOf, Address, Span
<1>3. Boot'
  BY <1>1 DEF IInv, Boot
<1>4. blocks' \subseteq blocks
  BY FreeEffect
<1>5. TypeOK'
  <2>1. flags' \in [Descs -> SUBSET {TAKEN, LAST}]
    BY FreeEffect DEF IInv, TypeOK
  <2>2. blocks' \subseteq [p : alloc_start..alloc_end, size : Sizes]
    BY <1>4 DEF IInv, TypeOK
  <2> QED BY <1>1, <2>1, <2>2 DEF IInv, TypeOK
<1>6. Placed'
  BY <1>2, <1>4 DEF IInv, Placed, PlacedAt
<1>7. BlocksApart'
  BY <1>2, <1>4 DEF IInv, BlocksApart
<1>8. DescriptorsExact'
  <2>1. CASE UNCHANGED <<flags, blocks>>
    BY <1>1, <1>2, <2>1 DEF IInv, DescriptorsExact
  <2>2. ASSUME NEW b \in blocks,
               flags' = [k \in Descs |-> IF k \in Span(b) THEN {} ELSE flags[k]],
               blocks' = blocks \ {b}
        PROVE  DescriptorsExact'
    <3> SUFFICES ASSUME NEW k \in Descs
                 PROVE  /\ TAKEN \in flags'[k] <=> \E c \in blocks' : k \in Span(c)
                        /\ LAST \in flags'[k] <=>
                             \E c \in blocks' : k = PageOf(c.p) + PageNum(c.size) - 1
      BY <1>2 DEF DescriptorsExact
    <3>1. /\ TAKEN \in flags[k] <=> \E c \in blocks : k \in Span(c)
          /\ LAST \in flags[k] <=> \E c \in blocks : k = PageOf(c.p) + PageNum(c.size) - 1
      BY <1>1 DEF IInv, DescriptorsExact
    <3>2. ASSUME NEW c \in blocks, k = PageOf(c.p) + PageNum(c.size) - 1 PROVE k \in Span(c)
      BY <3>2, BlockFacts DEF Span, Descs
    <3>3. CASE k \in Span(b)
      <4>1. flags'[k] = {}
        BY <2>2, <3>3
      <4>2. \A c \in blocks' : k \notin Span(c)
        BY <2>2, <3>3, OneBlock
      <4> QED BY <1>4, <3>2, <4>1, <4>2
    <3>4. CASE k \notin Span(b)
      <4>1. flags'[k] = flags[k]
        BY <2>2, <3>4
      <4>2. k # PageOf(b.p) + PageNum(b.size) - 1
        BY <3>2, <3>4
      <4> QED BY <2>2, <3>1, <3>4, <4>1, <4>2
    <3> QED BY <3>3, <3>4
  <2> QED BY <2>1, <2>2, FreeEffect
<1> QED BY <1>3, <1>5, <1>6, <1>7, <1>8 DEF IInv

\* Steps that change no variable.
LEMMA StutterStep == IInv /\ UNCHANGED vars => IInv'
BY DEF IInv, vars, pool, TypeOK, Boot, Placed, PlacedAt, Address, DescriptorsExact, BlocksApart,
       Span, PageOf

-----------------------------------------------------------------------------
(* The theorems.                                                            *)

\* The inductive invariant holds if nobody asks for more pages than there are.
THEOREM Invariance == Modest => (Spec => []IInv)
<1> SUFFICES ASSUME Modest PROVE Spec => []IInv
  OBVIOUS
<1>1. IInv /\ [Next]_vars => IInv'
  BY PageInitStep, MallocStep, FreeStep, StutterStep DEF Next
<1> QED BY <1>1, InitIInv, PTL DEF Spec

\* Every variable of alloc.c keeps its type.
THEOREM TypeCorrect == Modest => (Spec => []TypeOK)
<1> SUFFICES ASSUME Modest PROVE Spec => []TypeOK
  OBVIOUS
<1>1. IInv => TypeOK
  BY DEF IInv
<1> QED BY <1>1, Invariance, PTL

\* The table of descriptors and the blocks that callers hold agree.
THEOREM TableExact == Modest => (Spec => []DescriptorsExact)
<1> SUFFICES ASSUME Modest PROVE Spec => []DescriptorsExact
  OBVIOUS
<1>1. IInv => DescriptorsExact
  BY DEF IInv
<1> QED BY <1>1, Invariance, PTL

\* malloc never gives a page to two callers.
THEOREM NoSharing == Modest => (Spec => []BlocksApart)
<1> SUFFICES ASSUME Modest PROVE Spec => []BlocksApart
  OBVIOUS
<1>1. IInv => BlocksApart
  BY DEF IInv
<1> QED BY <1>1, Invariance, PTL

\* Blocks stay inside the pool and clear of the table.
THEOREM InsidePool == Modest => (Spec => []BlocksInPool)
<1> SUFFICES ASSUME Modest PROVE Spec => []BlocksInPool
  OBVIOUS
<1>1. IInv => BlocksInPool
  <2> SUFFICES ASSUME IInv, num_pages > 0
               PROVE  /\ HEAP_START + num_pages <= alloc_start /\ alloc_end <= MEMORY_END
                      /\ \A b \in blocks : /\ b.p % PAGE_SIZE = 0
                                           /\ alloc_start <= b.p
                                           /\ b.p + PageNum(b.size) * PAGE_SIZE <= alloc_end
    BY DEF BlocksInPool
  <2>1. /\ num_pages = N /\ alloc_start = Start /\ alloc_end = MEMORY_END
        /\ N \in Nat /\ Start \in Nat /\ Start + 256 * N = MEMORY_END
    BY Geometry DEF IInv, Boot, PAGE_SIZE
  <2>2. ASSUME NEW b \in blocks
        PROVE  /\ b.p % PAGE_SIZE = 0 /\ alloc_start <= b.p
               /\ b.p + PageNum(b.size) * PAGE_SIZE <= alloc_end
    <3>1. /\ PageOf(b.p) \in 0..N /\ b.p = Address(PageOf(b.p))
          /\ PageNum(b.size) \in Nat /\ PageOf(b.p) + PageNum(b.size) <= N
      BY <2>1, BlockFacts DEF Descs
    <3>2. b.p % PAGE_SIZE = 0
      BY <3>1, AddressRange DEF IInv
    <3>3. b.p = alloc_start + PageOf(b.p) * 256
      BY <3>1 DEF Address, PAGE_SIZE
    <3> QED BY <2>1, <3>1, <3>2, <3>3 DEF PAGE_SIZE
  <2> QED BY <2>1, <2>2, Geometry
<1> QED BY <1>1, Invariance, PTL

\* A set of page numbers that is not empty has a first one.
LEMMA FirstOne == ASSUME NEW S \in SUBSET Nat, S # {} PROVE \E m \in S : \A k \in S : m <= k
<1>1. PICK m \in S : \A k \in S : ~(<<k, m>> \in OpToRel(<,Nat))
  BY NatLessThanWellFounded, WFMin
<1>2. \A k \in S : ~(k < m)
  BY <1>1 DEF OpToRel
<1> QED BY <1>2

\* A NULL from malloc means that its search had no candidate.
LEMMA RefusalStep ==
    ASSUME NEW size \in Sizes, IInv, Modest, Malloc(size), p' = NULL
    PROVE  RefusesOnlyWhenFull'
<1> DEFINE n == PageNum(size)
<1>1. /\ num_pages > 0 /\ num_pages = N /\ N \in Nat /\ req' = size /\ n \in Nat \ {0}
      /\ n <= N /\ alloc_start' = alloc_start
  BY Geometry, PageNumType DEF Malloc, pool, IInv, Boot, Modest
<1>2. \A i \in Found(n) : Address(i) # NULL
  BY <1>1, FoundFacts, AddressRange DEF IInv, Descs
<1>3. Found(n) = {} /\ blocks' = blocks
  BY <1>2 DEF Malloc
<1>4. Candidates(n) = {}
  <2>1. Candidates(n) \in SUBSET Nat
    BY <1>1 DEF Candidates, Descs
  <2> QED BY <1>1, <1>3, <2>1, FirstOne DEF Found
<1>5. \A b : Span(b)' = Span(b)
  BY <1>1 DEF Span, PageOf
<1>6. ASSUME NEW i \in Descs, i + n <= N - 1,
             \A b \in blocks : Span(b) \cap i..(i + n - 1) = {}
      PROVE  FALSE
  <2>1. i \in Int /\ i < num_pages - n
    BY <1>1, <1>6 DEF Descs
  <2>2. ASSUME NEW j \in i..(i + n - 1) PROVE IsFree(j)
    <3>1. j \in Descs
      BY <1>1, <1>6, <2>1 DEF Descs
    <3>2. ~\E b \in blocks : j \in Span(b)
      BY <1>6
    <3> QED BY <1>1, <3>1, <3>2 DEF IInv, DescriptorsExact, IsFree
  <2>3. i \in Candidates(n)
    BY <2>1, <2>2 DEF Candidates
  <2> QED BY <1>4, <2>3
<1>7. ~\E i \in Descs : /\ i + n <= N - 1
                        /\ \A b \in blocks' : Span(b)' \cap i..(i + n - 1) = {}
  BY <1>3, <1>5, <1>6
<1> QED BY <1>1, <1>7 DEF RefusesOnlyWhenFull

\* Nothing that was freed is lost: malloc refuses only what does not fit
\* between the blocks in the pages it looks at.
THEOREM NoLeak == Modest => (Spec => []RefusesOnlyWhenFull)
<1> SUFFICES ASSUME Modest PROVE Spec => []RefusesOnlyWhenFull
  OBVIOUS
<1>1. Init => RefusesOnlyWhenFull
  BY DEF Init, RefusesOnlyWhenFull
<1>2. IInv /\ RefusesOnlyWhenFull /\ [Next]_vars => RefusesOnlyWhenFull'
  <2> SUFFICES ASSUME IInv, RefusesOnlyWhenFull, [Next]_vars PROVE RefusesOnlyWhenFull'
    OBVIOUS
  <2>1. CASE PageInit
    BY <2>1, Geometry DEF PageInit, IInv, Boot, RefusesOnlyWhenFull
  <2>2. ASSUME NEW size \in Sizes, Malloc(size) PROVE RefusesOnlyWhenFull'
    <3>1. CASE p' = NULL
      BY <2>2, <3>1, RefusalStep
    <3>2. CASE p' # NULL
      BY <3>2 DEF RefusesOnlyWhenFull
    <3> QED BY <3>1, <3>2
  <2>3. ASSUME NEW q \in Freeable, Free(q) PROVE RefusesOnlyWhenFull'
    BY <2>3 DEF Free, RefusesOnlyWhenFull
  <2>4. CASE UNCHANGED vars
    BY <2>4 DEF vars, pool, RefusesOnlyWhenFull, Span, PageOf
  <2> QED BY <2>1, <2>2, <2>3, <2>4 DEF Next
<1> QED BY <1>1, <1>2, Invariance, PTL DEF Spec

-----------------------------------------------------------------------------
(* Alloc implements Heap.                                                   *)

Shape(b) == [first |-> PageOf(b.p), pages |-> PageNum(b.size)]
Live == {Shape(b) : b \in blocks}

\* The abstract block covers the pages of the concrete one.
LEMMA ShapeFacts ==
    ASSUME IInv, NEW b \in blocks
    PROVE  HeapOf!PagesOf(Shape(b)) = Span(b)
BY DEF HeapOf!PagesOf, Shape, Span

\* malloc is Allocate, or nothing when it refuses.
LEMMA AllocateStep ==
    ASSUME NEW size \in Sizes, IInv, Modest, Malloc(size)
    PROVE  Live' = Live \/ \E b \in HeapOf!Blocks :
                              /\ HeapOf!PagesOf(b) \subseteq 0..(N - 1)
                              /\ \A c \in Live : HeapOf!PagesOf(b) \cap HeapOf!PagesOf(c) = {}
                              /\ Live' = Live \cup {b}
<1> DEFINE n == PageNum(size)
<1>1. /\ num_pages > 0 /\ num_pages = N /\ N \in Nat /\ n \in Nat \ {0}
      /\ alloc_start' = alloc_start /\ alloc_start \in Nat
  BY Geometry, PageNumType DEF Malloc, pool, IInv, Boot, TypeOK
<1>2. \A b : Shape(b)' = Shape(b)
  BY <1>1 DEF Shape, PageOf
<1>3. CASE blocks' = blocks
  BY <1>2, <1>3 DEF Live
<1>4. ASSUME NEW i \in Found(n), blocks' = blocks \cup {[p |-> Address(i), size |-> size]}
      PROVE  \E b \in HeapOf!Blocks :
                /\ HeapOf!PagesOf(b) \subseteq 0..(N - 1)
                /\ \A c \in Live : HeapOf!PagesOf(b) \cap HeapOf!PagesOf(c) = {}
                /\ Live' = Live \cup {b}
  <2> DEFINE b == [first |-> i, pages |-> n]
  <2>1. /\ i \in Descs /\ i \in Int /\ i + n <= N
        /\ \A j \in i..(i + n - 1) : j \in Descs /\ IsFree(j)
    BY <1>1, FoundFacts DEF Descs
  <2>2. Shape([p |-> Address(i), size |-> size]) = b
    BY <1>1, <2>1, PageOfAddress DEF Shape
  <2>3. b \in HeapOf!Blocks /\ HeapOf!PagesOf(b) = i..(i + n - 1)
    BY <1>1, <2>1 DEF HeapOf!Blocks, HeapOf!PagesOf, Descs
  <2>4. HeapOf!PagesOf(b) \subseteq 0..(N - 1)
    BY <2>1, <2>3 DEF Descs
  <2>5. ASSUME NEW c \in blocks PROVE HeapOf!PagesOf(b) \cap HeapOf!PagesOf(Shape(c)) = {}
    <3> SUFFICES ASSUME NEW k \in Span(c), k \in HeapOf!PagesOf(b) PROVE FALSE
      BY ShapeFacts
    <3>1. k \in Descs /\ IsFree(k)
      BY <2>1, <2>3
    <3> QED BY <1>1, <3>1 DEF IInv, DescriptorsExact, IsFree
  <2>6. Live' = Live \cup {b}
    BY <1>2, <1>4, <2>2 DEF Live
  <2>7. \A c \in Live : HeapOf!PagesOf(b) \cap HeapOf!PagesOf(c) = {}
    BY <2>5 DEF Live
  <2> QED BY <2>3, <2>4, <2>6, <2>7
<1> QED BY <1>3, <1>4 DEF Malloc

\* free is Release, or nothing.
LEMMA ReleaseStep ==
    ASSUME NEW q \in Freeable, IInv, Free(q)
    PROVE  Live' = Live \/ \E b \in Live : Live' = Live \ {b}
<1>1. alloc_start' = alloc_start
  BY FreeEffect DEF pool
<1>2. \A b : Shape(b)' = Shape(b)
  BY <1>1 DEF Shape, PageOf
<1>3. CASE blocks' = blocks
  BY <1>2, <1>3 DEF Live
<1>4. ASSUME NEW b \in blocks, blocks' = blocks \ {b}
      PROVE  \E c \in Live : Live' = Live \ {c}
  <2>1. ASSUME NEW c \in blocks, Shape(c) = Shape(b) PROVE c = b
    <3>1. PageOf(c.p) = PageOf(b.p)
      BY <2>1 DEF Shape
    <3> QED BY <3>1, BlockFacts, OneBlock
  <2>2. Live' = Live \ {Shape(b)}
    BY <1>2, <1>4, <2>1 DEF Live
  <2>3. Shape(b) \in Live
    BY DEF Live
  <2> QED BY <2>2, <2>3
<1> QED BY <1>3, <1>4, FreeEffect

\* To its callers the page table is a heap: the property ImplementsHeap.
THEOREM HeapRefinement == Modest => (Spec => ImplementsHeap)
<1> SUFFICES ASSUME Modest PROVE Spec => HeapOf!Spec
  BY DEF ImplementsHeap
<1>1. Init => HeapOf!Init
  BY DEF Init, HeapOf!Init
<1>2. IInv /\ [Next]_vars => [HeapOf!Next]_Live
  <2> SUFFICES ASSUME IInv, [Next]_vars PROVE HeapOf!Next \/ Live' = Live
    BY DEF Live
  <2>1. CASE PageInit
    <3>1. blocks = {} /\ blocks' = {}
      BY <2>1, Geometry DEF PageInit, IInv, Boot
    <3> QED BY <3>1 DEF Live
  <2>2. ASSUME NEW size \in Sizes, Malloc(size) PROVE HeapOf!Next \/ Live' = Live
    BY <2>2, AllocateStep DEF HeapOf!Next, HeapOf!Allocate, Live, Shape
  <2>3. ASSUME NEW q \in Freeable, Free(q) PROVE HeapOf!Next \/ Live' = Live
    BY <2>3, ReleaseStep DEF HeapOf!Next, HeapOf!Release, Live, Shape
  <2>4. CASE UNCHANGED vars
    BY <2>4 DEF vars, pool, Live, Shape, PageOf
  <2> QED BY <2>1, <2>2, <2>3, <2>4 DEF Next
<1>3. [HeapOf!Next]_Live => [HeapOf!Next]_{[first |-> PageOf(b.p), pages |-> PageNum(b.size)] : b \in blocks}
  BY DEF Live, Shape
<1> QED BY <1>1, <1>2, <1>3, Invariance, PTL DEF Spec, HeapOf!Spec
=============================================================================
