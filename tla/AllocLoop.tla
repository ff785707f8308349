------------------------------ MODULE AllocLoop -----------------------------
(***************************************************************************)
(* 09-MemoryAllocator: page_init, malloc and free of alloc.c as the loops  *)
(* they are, one iteration a step, over the descriptors.  Alloc states     *)
(* what each call does as a whole; ImplementsAlloc shows that the loops do *)
(* it, whatever lies in the table before page_init.                        *)
(***************************************************************************)
EXTENDS Integers

CONSTANTS
    HEAP_START9, MEMORY_END9,       \* the linker's symbols
    Sizes9                          \* the sizes that callers ask for

PAGE_SIZE9 == 256
RESERVED9 == 2048
N9 == (MEMORY_END9 - HEAP_START9) \div PAGE_SIZE9 - RESERVED9
Descs9 == 0..(N9 - 1)
PageNum9(size) == size \div (PAGE_SIZE9 + 1) + 1

ASSUME Heap9Assumption ==
    /\ HEAP_START9 \in Nat \ {0} /\ MEMORY_END9 \in Nat /\ MEMORY_END9 % PAGE_SIZE9 = 0
    /\ MEMORY_END9 - HEAP_START9 >= (RESERVED9 + 1) * PAGE_SIZE9
    /\ MEMORY_END9 - HEAP_START9 <= 128 * 1024 * 1024                  \* LENGTH of os.ld
\* For more pages than there are the search leaves the table: see Alloc.
ASSUME Sizes9Assumption == Sizes9 \subseteq Nat /\ \A s \in Sizes9 : PageNum9(s) <= N9

TAKEN9 == "PAGE_TAKEN"
LAST9 == "PAGE_LAST"
NULL9 == 0
NOREQ9 == -1

VARIABLES
    pc9, arg9,                      \* the call that runs and its argument
    i9, j9,                         \* page_i; page_j, then page_k
    flags9,                         \* the table
    num_pages9, start9, end9,       \* the statics
    req9, p9, blocks9,              \* malloc's last argument and result; what callers hold
    before9                         \* history: the table when the call began

pool9 == <<num_pages9, start9, end9>>
caller9 == <<req9, p9, blocks9>>
vars9 == <<pc9, arg9, i9, j9, flags9, pool9, caller9, before9>>

Free9(i) == TAKEN9 \notin flags9[i]

\* Mutated forms of definitions below.
MutLast9(i) == FALSE                                \* PAGE_LAST not looked at

Init9 ==
    /\ pc9 = "boot" /\ arg9 = 0 /\ i9 = 0 /\ j9 = 0
    /\ flags9 \in [Descs9 -> SUBSET {TAKEN9, LAST9}] /\ before9 = flags9
    /\ num_pages9 = 0 /\ start9 = 0 /\ end9 = 0
    /\ req9 = NOREQ9 /\ p9 = NULL9 /\ blocks9 = {}

-----------------------------------------------------------------------------
(* page_init                                                                *)

PageInit9 ==
    /\ pc9 = "boot" /\ pc9' = "init" /\ num_pages9' = N9 /\ i9' = 0
    /\ UNCHANGED <<arg9, j9, flags9, start9, end9, caller9, before9>>

Cleared9(i) == [flags9 EXCEPT ![i] = {}]
ClearLoop ==
    /\ pc9 = "init" /\ i9 < num_pages9
    /\ flags9' = Cleared9(i9) /\ i9' = i9 + 1
    /\ UNCHANGED <<pc9, arg9, j9, pool9, caller9, before9>>

AlignPage(a) == ((a + PAGE_SIZE9 - 1) \div PAGE_SIZE9) * PAGE_SIZE9
PlacePool ==
    /\ pc9 = "init" /\ i9 = num_pages9 /\ pc9' = "idle"
    /\ start9' = AlignPage(HEAP_START9 + RESERVED9 * PAGE_SIZE9)
    /\ end9' = start9' + PAGE_SIZE9 * num_pages9
    /\ before9' = flags9 /\ UNCHANGED <<arg9, i9, j9, flags9, num_pages9, caller9>>

-----------------------------------------------------------------------------
(* malloc                                                                   *)

Call9(l, a, i) ==
    /\ pc9 = "idle" /\ pc9' = l /\ arg9' = a /\ i9' = i
    /\ UNCHANGED <<j9, flags9, pool9, caller9, before9>>
Return9 == pc9' = "idle" /\ before9' = flags9' /\ UNCHANGED <<arg9, i9, j9, pool9>>

CallMalloc == \E size \in Sizes9 : Call9("search", size, 0)

\* The outer loop.
SearchBound(n) == num_pages9 - n
NextI == i9' = i9 + 1 /\ pc9' = "search" /\ UNCHANGED j9
Search ==
    /\ pc9 = "search" /\ i9 < SearchBound(PageNum9(arg9))
    /\ IF Free9(i9) THEN pc9' = "check" /\ j9' = i9 /\ UNCHANGED i9 ELSE NextI
    /\ UNCHANGED <<arg9, flags9, pool9, caller9, before9>>
NotFound ==
    /\ pc9 = "search" /\ i9 >= SearchBound(PageNum9(arg9))
    /\ req9' = arg9 /\ p9' = NULL9 /\ UNCHANGED <<flags9, blocks9>> /\ Return9

\* The loop over page_j: are the following pages free?
CheckLoop ==
    /\ pc9 = "check"
    /\ IF j9 = i9 + PageNum9(arg9) THEN pc9' = "take" /\ j9' = i9 /\ UNCHANGED i9
       ELSE IF Free9(j9) THEN j9' = j9 + 1 /\ UNCHANGED <<pc9, i9>>
       ELSE NextI
    /\ UNCHANGED <<arg9, flags9, pool9, caller9, before9>>

\* The loop over page_k; _set_flag only adds.
TakeLoop ==
    /\ pc9 = "take" /\ j9 < i9 + PageNum9(arg9)
    /\ flags9' = [flags9 EXCEPT ![j9] = @ \cup {TAKEN9}] /\ j9' = j9 + 1
    /\ UNCHANGED <<pc9, arg9, i9, pool9, caller9, before9>>
Found9 ==
    /\ pc9 = "take" /\ j9 = i9 + PageNum9(arg9)
    /\ flags9' = [flags9 EXCEPT ![j9 - 1] = @ \cup {LAST9}]
    /\ req9' = arg9 /\ p9' = start9 + i9 * PAGE_SIZE9
    /\ blocks9' = blocks9 \cup {[p |-> p9', size |-> arg9]} /\ Return9

-----------------------------------------------------------------------------
(* free                                                                     *)

\* A caller's block, NULL, a pointer past the pool, or a page nobody has.
Freeable9 == {b.p : b \in blocks9} \cup {NULL9, end9}
                 \cup {start9 + i * PAGE_SIZE9 : i \in {j \in Descs9 : Free9(j)}}
Released9(q) == blocks9' = {b \in blocks9 : b.p # q} /\ req9' = NOREQ9 /\ p9' = NULL9

Ignored(q) == q = NULL9 \/ q >= end9
FreeNothing ==
    /\ pc9 = "idle" /\ \E q \in Freeable9 : Ignored(q) /\ Released9(q)
    /\ UNCHANGED flags9 /\ Return9
CallFree ==
    \E q \in Freeable9 : ~Ignored(q) /\ Call9("free", q, (q - start9) \div PAGE_SIZE9)

Last9(i) == LAST9 \in flags9[i]
FreeOn ==
    /\ pc9 = "free" /\ ~Free9(i9) /\ ~Last9(i9)
    /\ flags9' = Cleared9(i9) /\ i9' = i9 + 1
    /\ UNCHANGED <<pc9, arg9, j9, pool9, caller9, before9>>
FreeEnd ==
    /\ pc9 = "free" /\ (Free9(i9) \/ Last9(i9))
    /\ flags9' = IF Free9(i9) THEN flags9 ELSE Cleared9(i9)
    /\ Released9(arg9) /\ Return9

Next9 == PageInit9 \/ ClearLoop \/ PlacePool \/ CallMalloc \/ Search \/ NotFound \/ CheckLoop
         \/ TakeLoop \/ Found9 \/ FreeNothing \/ CallFree \/ FreeOn \/ FreeEnd
Spec9 == Init9 /\ [][Next9]_vars9

-----------------------------------------------------------------------------
(* Properties                                                               *)

TypeOK9 ==
    /\ pc9 \in {"boot", "init", "idle", "search", "check", "take", "free"}
    /\ arg9 \in Nat /\ i9 \in 0..N9 /\ j9 \in 0..N9
    /\ flags9 \in [Descs9 -> SUBSET {TAKEN9, LAST9}]
    /\ num_pages9 \in {0, N9} /\ start9 \in Nat /\ end9 \in Nat
    /\ req9 \in Sizes9 \cup {NOREQ9} /\ p9 \in Nat

\* The loops do in many steps what Alloc does in one: between calls the table, the
\* result and the blocks are Alloc's, so what holds of Alloc holds of the loops.
AllocOf == INSTANCE Alloc WITH
    HEAP_START <- HEAP_START9, MEMORY_END <- MEMORY_END9, Sizes <- Sizes9,
    num_pages <- IF pc9 \in {"boot", "init"} THEN 0 ELSE num_pages9,
    alloc_start <- start9, alloc_end <- end9,
    flags <- before9, req <- req9, p <- p9, blocks <- blocks9
ImplementsAlloc == AllocOf!Spec
=============================================================================
