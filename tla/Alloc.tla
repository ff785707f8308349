-------------------------------- MODULE Alloc -------------------------------
(***************************************************************************)
(* The page allocator of alloc.c: page_init, malloc and free over the table *)
(* of page descriptors at HEAP_START.  os_start runs page_init before any  *)
(* other caller, and callers run one at a time: each function is one       *)
(* action.  No address reaches 2^32 (os.ld ends the memory at 0x88000000), *)
(* so sums of addresses do not wrap.                                       *)
(***************************************************************************)
EXTENDS Integers

CONSTANTS
    HEAP_START,     \* the end of .bss, at any byte
    MEMORY_END,     \* the end of the memory
    Sizes           \* the sizes that callers ask for

PAGE_SIZE == 256
RESERVED == 2048    \* pages at HEAP_START kept for the descriptors
NULL == 0
NOREQ == -1
HEAP_SIZE == MEMORY_END - HEAP_START
N == HEAP_SIZE \div PAGE_SIZE - RESERVED
Descs == 0..(N - 1)

TAKEN == "PAGE_TAKEN"
LAST == "PAGE_LAST"

ASSUME HeapAssumption ==
    /\ HEAP_START \in Nat \ {NULL} /\ MEMORY_END \in Nat
    /\ MEMORY_END % PAGE_SIZE = 0
    /\ HEAP_SIZE <= 128 * 1024 * 1024                  \* LENGTH
    /\ HEAP_SIZE >= (RESERVED + 1) * PAGE_SIZE          \* else _num_pages wraps
ASSUME SizesAssumption == Sizes \subseteq Nat

\* Mutated forms of definitions: what a plausible slip in the code at their
\* lines would make of them.
MutPageNum(size) == size \div PAGE_SIZE                \* + 1 forgotten
MutAlign(address) == address                                       \* _align_page forgotten

\* The macro pageNum as it is written.
PageNum(size) == size \div (PAGE_SIZE + 1) + 1
Align(address) == ((address + PAGE_SIZE - 1) \div PAGE_SIZE) * PAGE_SIZE

VARIABLES
    num_pages, alloc_start, alloc_end,      \* the statics of alloc.c, 0 at first
    flags,                                  \* the table of descriptors
    req, p,                                 \* malloc's argument and result, if it ran last
    blocks                                  \* what callers hold: address and size asked

pool == <<num_pages, alloc_start, alloc_end>>
vars == <<pool, flags, req, p, blocks>>

MutAddress(i) == i * PAGE_SIZE                                     \* _alloc_start forgotten

IsFree(i) == TAKEN \notin flags[i]
IsLast(i) == LAST \in flags[i]
Address(i) == alloc_start + i * PAGE_SIZE
PageOf(address) == (address - alloc_start) \div PAGE_SIZE

\* More mutated forms.
MutCandidates(n) ==                                                \* j stops one page early
    {i \in Descs : i < num_pages - n /\ \A j \in i..(i + n - 2) : IsFree(j)}
MutCandidatesShort(n) ==                                           \* one more page left out
    {i \in Descs : i < num_pages - n - 1 /\ \A j \in i..(i + n - 1) : IsFree(j)}
MutCleared(i) ==                                                   \* break before _clear
    {j \in Descs : j >= i /\ \A k \in i..j : ~IsFree(k) /\ ~IsLast(k)}
MutClearedOn(i) ==                                                 \* PAGE_LAST not looked at
    {j \in Descs : j >= i /\ \A k \in i..j : ~IsFree(k)}

\* The table is memory behind .bss that start.s does not clear.
Init ==
    /\ num_pages = 0 /\ alloc_start = 0 /\ alloc_end = 0
    /\ flags \in [Descs -> SUBSET {TAKEN, LAST}]
    /\ req = NOREQ /\ p = NULL /\ blocks = {}

PageInit ==
    /\ num_pages = 0
    /\ num_pages' = N
    /\ flags' = [i \in Descs |-> {}]
    /\ alloc_start' = Align(HEAP_START + RESERVED * PAGE_SIZE)
    /\ alloc_end' = alloc_start' + PAGE_SIZE * num_pages'
    /\ UNCHANGED <<req, p, blocks>>

\* Where the search may find n free pages; the bound is the loop's.
Candidates(n) ==
    {i \in Descs : i < num_pages - n /\ \A j \in i..(i + n - 1) : IsFree(j)}

\* _set_flag only adds, so a stale PAGE_LAST would stay.
Taken(i, n) ==
    [k \in Descs |-> IF k \in i..(i + n - 1)
                     THEN flags[k] \cup {TAKEN} \cup (IF k = i + n - 1 THEN {LAST} ELSE {})
                     ELSE flags[k]]

\* For more pages than there are the bound wraps round and the search runs on
\* into the memory behind the table, whatever it holds: the bytes there may
\* look free where the table ends, or only further on (index num_pages).
Suffix == {i \in 0..num_pages : \A k \in i..(num_pages - 1) : IsFree(k)}

\* Where the search may end: at the first candidate.
Found(n) ==
    IF n <= num_pages
    THEN {i \in Candidates(n) : \A k \in Candidates(n) : i <= k}
    ELSE {i \in Suffix : i = num_pages \/ \A k \in Suffix : i <= k}

Malloc(size) ==
    LET n == PageNum(size)
    IN  /\ num_pages > 0
        /\ req' = size
        /\ \/ /\ Found(n) = {}
              /\ p' = NULL /\ UNCHANGED <<flags, blocks>>
           \/ \E i \in Found(n) :
                /\ flags' = Taken(i, n)
                /\ p' = Address(i)
                /\ blocks' = blocks \cup {[p |-> Address(i), size |-> size]}
        /\ UNCHANGED pool

\* The descriptors that free clears from i on: up to a last one, or up to a free one.
Cleared(i) ==
    {j \in Descs : /\ j >= i
                   /\ \A k \in i..j : ~IsFree(k)
                   /\ \A k \in i..(j - 1) : ~IsLast(k)}

Free(q) ==
    /\ num_pages > 0
    /\ flags' = IF q = NULL \/ q >= alloc_end
                THEN flags
                ELSE [i \in Descs |-> IF i \in Cleared(PageOf(q)) THEN {} ELSE flags[i]]
    /\ blocks' = {b \in blocks : b.p # q}
    /\ req' = NOREQ /\ p' = NULL /\ UNCHANGED pool

\* What callers may pass to free: a block of theirs, NULL, a pointer past the
\* pool, or (a second free) the address of a page that nobody has taken.
Freeable == {b.p : b \in blocks} \cup {NULL, alloc_end} \cup {Address(i) : i \in {j \in Descs : IsFree(j)}}

Next ==
    \/ PageInit
    \/ \E size \in Sizes : Malloc(size)
    \/ \E q \in Freeable : Free(q)

Spec == Init /\ [][Next]_vars

-----------------------------------------------------------------------------
(* Properties                                                               *)

Span(b) == PageOf(b.p) .. (PageOf(b.p) + PageNum(b.size) - 1)

TypeOK ==
    /\ num_pages \in {0, N}
    /\ alloc_start \in Nat /\ alloc_end \in Nat
    /\ flags \in [Descs -> SUBSET {TAKEN, LAST}]
    /\ req \in Sizes \cup {NOREQ}
    /\ p \in {NULL} \cup alloc_start..alloc_end
    /\ blocks \subseteq [p : alloc_start..alloc_end, size : Sizes]

\* The table says exactly what callers hold, whatever was in its memory before
\* page_init: a page is taken iff a block has it, and last iff a block ends there.
DescriptorsExact ==
    num_pages > 0 =>
        \A i \in Descs :
            /\ TAKEN \in flags[i] <=> \E b \in blocks : i \in Span(b)
            /\ LAST \in flags[i] <=> \E b \in blocks : i = PageOf(b.p) + PageNum(b.size) - 1

\* Two callers never share a page.
BlocksApart == \A b, c \in blocks : b # c => Span(b) \cap Span(c) = {}

\* Blocks start on a page of the pool and end in it, the pool ends with the
\* memory, and the table of descriptors ends before the pool begins, wherever
\* the linker puts HEAP_START.
BlocksInPool ==
    num_pages > 0 =>
        /\ HEAP_START + num_pages <= alloc_start /\ alloc_end <= MEMORY_END
        /\ \A b \in blocks : /\ b.p % PAGE_SIZE = 0
                             /\ alloc_start <= b.p
                             /\ b.p + PageNum(b.size) * PAGE_SIZE <= alloc_end

\* malloc gives up only if no run of pages is left between the blocks, the
\* last page of the pool not counted: nothing that was freed is lost.
RefusesOnlyWhenFull ==
    req # NOREQ /\ p = NULL =>
        ~\E i \in Descs : /\ i + PageNum(req) <= N - 1
                          /\ \A b \in blocks : Span(b) \cap i..(i + PageNum(req) - 1) = {}

\* Callers see a heap: every call allocates pages nobody has, releases the
\* caller's own block, or changes nothing; a second free harms nobody as long as
\* the pages are free.
HeapOf == INSTANCE Heap WITH
    live <- {[first |-> PageOf(b.p), pages |-> PageNum(b.size)] : b \in blocks}
ImplementsHeap == HeapOf!Spec

\* A block has room for what was asked; 09's README: 513 needs three pages.
BlockHoldsSize == \A b \in blocks : b.size <= PageNum(b.size) * PAGE_SIZE

\* "_num_pages holds the actual max number of pages we can allocate": with
\* nothing allocated a request for that many pages is met ...
AllPagesAllocatable == req # NOREQ /\ p = NULL /\ blocks = {} => PageNum(req) # num_pages

\* ... and one for more is not.
NoMoreThanAllPages == PageNum(req) > num_pages => p = NULL
=============================================================================
