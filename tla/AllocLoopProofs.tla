-------------------------- MODULE AllocLoopProofs --------------------------
(***************************************************************************)
(* The loops of alloc.c implement Alloc for every heap and every set of    *)
(* sizes that fit into it: TLC checks four pages, the proof any number.    *)
(***************************************************************************)
EXTENDS AllocLoop, TLAPS

Table9 == [Descs9 -> SUBSET {TAKEN9, LAST9}]
Start9 == AlignPage(HEAP_START9 + RESERVED9 * PAGE_SIZE9)
Address9(i) == start9 + i * PAGE_SIZE9
FreeBefore(i) == TAKEN9 \notin before9[i]
LastBefore(i) == LAST9 \in before9[i]

\* The table that callers last saw, and its statics.
Static9 ==
    /\ before9 \in Table9
    /\ pc9 \in {"boot", "init"} =>
           start9 = 0 /\ end9 = 0 /\ blocks9 = {} /\ p9 = NULL9 /\ req9 = NOREQ9
    /\ pc9 \notin {"boot", "init"} =>
           start9 = Start9 /\ end9 = Start9 + PAGE_SIZE9 * N9
    /\ pc9 # "boot" => num_pages9 = N9

\* malloc never takes the last page: free does not run out of the table.
LastPageFree == pc9 \notin {"boot", "init"} => FreeBefore(N9 - 1)
Placed9 == \A b \in blocks9 : \E i \in Descs9 : b.p = Address9(i)

\* No run of free pages begins before i.
NoneBefore(i) ==
    \A k \in 0..(i - 1) : \E j \in k..(k + PageNum9(arg9) - 1) : ~FreeBefore(j)
AllFree(i, j) == \A k \in i..(j - 1) : FreeBefore(k)

\* The loops' invariants.
InitInv9 == pc9 = "boot" => num_pages9 = 0 /\ flags9 = before9
ClearInv == pc9 = "init" => \A k \in 0..(i9 - 1) : flags9[k] = {}
IdleInv == pc9 = "idle" => flags9 = before9
SearchInv ==
    pc9 \in {"search", "check", "take"} => arg9 \in Sizes9 /\ NoneBefore(i9)
CheckInv ==
    /\ pc9 \in {"search", "check"} => flags9 = before9
    /\ pc9 = "check" => /\ i9 < N9 - PageNum9(arg9)
                        /\ j9 \in i9..(i9 + PageNum9(arg9)) /\ AllFree(i9, j9)
TakeInv ==
    pc9 = "take" =>
        /\ i9 < N9 - PageNum9(arg9)
        /\ j9 \in i9..(i9 + PageNum9(arg9)) /\ AllFree(i9, i9 + PageNum9(arg9))
        /\ flags9 = [k \in Descs9 |-> IF k \in i9..(j9 - 1) THEN before9[k] \cup {TAKEN9}
                                      ELSE before9[k]]
\* First9 is the page that free was called for.
First9 == (arg9 - start9) \div PAGE_SIZE9
FreeInv ==
    pc9 = "free" =>
        /\ arg9 \in AllocOf!Freeable /\ arg9 # NULL9 /\ arg9 < end9
        /\ First9 \in 0..i9 /\ i9 \in Descs9
        /\ \A k \in First9..(i9 - 1) : ~FreeBefore(k) /\ ~LastBefore(k)
        /\ flags9 = [k \in Descs9 |-> IF k \in First9..(i9 - 1) THEN {} ELSE before9[k]]

LoopInv ==
    /\ TypeOK9 /\ Static9 /\ LastPageFree /\ Placed9
    /\ InitInv9 /\ ClearInv /\ IdleInv /\ SearchInv /\ CheckInv /\ TakeInv /\ FreeInv

-----------------------------------------------------------------------------

LEMMA Pages9 == N9 \in Nat \ {0}
  BY Heap9Assumption DEF N9, PAGE_SIZE9, RESERVED9

LEMMA PageNum9Type == \A s \in Sizes9 : s \in Nat /\ PageNum9(s) \in 1..N9
  BY Pages9, Sizes9Assumption DEF PageNum9, PAGE_SIZE9

LEMMA Start9Type == Start9 \in Nat /\ Start9 > 0
  BY Heap9Assumption DEF Start9, AlignPage, PAGE_SIZE9, RESERVED9

\* The address of page i leads back to page i, and lies in the pool.
LEMMA PageOfAddress9 ==
    ASSUME NEW s \in Nat, NEW i \in Descs9
    PROVE  /\ (s + i * PAGE_SIZE9 - s) \div PAGE_SIZE9 = i
           /\ s + i * PAGE_SIZE9 < s + PAGE_SIZE9 * N9
           /\ s + i * PAGE_SIZE9 \in Nat
  BY Pages9 DEF Descs9, PAGE_SIZE9

\* The two modules name the same things.
LEMMA SameNames ==
    /\ AllocOf!N = N9 /\ AllocOf!Descs = Descs9
    /\ AllocOf!TAKEN = TAKEN9 /\ AllocOf!LAST = LAST9
    /\ AllocOf!NULL = NULL9 /\ AllocOf!NOREQ = NOREQ9
    /\ AllocOf!PAGE_SIZE = PAGE_SIZE9 /\ AllocOf!RESERVED = RESERVED9
    /\ \A s : AllocOf!PageNum(s) = PageNum9(s)
    /\ \A a : AllocOf!Align(a) = AlignPage(a)
  BY DEF AllocOf!N, AllocOf!HEAP_SIZE, AllocOf!Descs, AllocOf!TAKEN, AllocOf!LAST,
         AllocOf!NULL, AllocOf!NOREQ, AllocOf!PAGE_SIZE, AllocOf!RESERVED, AllocOf!PageNum,
         AllocOf!Align, N9, Descs9, TAKEN9, LAST9, NULL9, NOREQ9, PAGE_SIZE9, RESERVED9,
         PageNum9, AlignPage

LEMMA LoopInit == Init9 => LoopInv
  BY Pages9 DEF Init9, LoopInv, TypeOK9, Static9, LastPageFree, Placed9, InitInv9, ClearInv,
                IdleInv, SearchInv, CheckInv, TakeInv, FreeInv, Table9, NULL9, NOREQ9

-----------------------------------------------------------------------------
(* Every step keeps the invariant                                           *)

LEMMA InitSteps9 ==
    ASSUME LoopInv, PageInit9 \/ ClearLoop \/ PlacePool
    PROVE  LoopInv'
  <1>1. CASE PageInit9
    BY <1>1, Pages9 DEF PageInit9, caller9, LoopInv, TypeOK9, Static9, LastPageFree, Placed9,
       InitInv9, ClearInv, IdleInv, SearchInv, CheckInv, TakeInv, FreeInv
  <1>2. CASE ClearLoop
    BY <1>2, Pages9 DEF ClearLoop, Cleared9, caller9, pool9, Descs9, LoopInv, TypeOK9, Static9,
       LastPageFree, Placed9, InitInv9, ClearInv, IdleInv, SearchInv, CheckInv, TakeInv, FreeInv
  <1>3. CASE PlacePool
    BY <1>3, Pages9, Start9Type DEF PlacePool, caller9, Descs9, LoopInv, TypeOK9, Static9,
       LastPageFree, Placed9, InitInv9, ClearInv, IdleInv, SearchInv, CheckInv, TakeInv, FreeInv,
       Start9, FreeBefore, Table9, PAGE_SIZE9
  <1> QED BY <1>1, <1>2, <1>3

LEMMA SearchSteps9 ==
    ASSUME LoopInv, CallMalloc \/ Search \/ NotFound \/ CheckLoop
    PROVE  LoopInv'
  <1>1. CASE CallMalloc
    BY <1>1, Pages9, PageNum9Type DEF CallMalloc, Call9, caller9, pool9, LoopInv, TypeOK9, Static9,
       LastPageFree, Placed9, InitInv9, ClearInv, IdleInv, SearchInv, CheckInv, TakeInv, FreeInv,
       NoneBefore, FreeBefore, Address9
  <1>2. CASE Search
    BY <1>2, Pages9, PageNum9Type DEF Search, SearchBound, NextI, Free9, caller9, pool9, LoopInv,
       TypeOK9, Static9, LastPageFree, Placed9, InitInv9, ClearInv, IdleInv, SearchInv, CheckInv,
       TakeInv, FreeInv, NoneBefore, AllFree, FreeBefore, Address9, Descs9
  <1>3. CASE NotFound
    BY <1>3, Pages9, PageNum9Type DEF NotFound, Return9, pool9, LoopInv, NULL9,
       TypeOK9, Static9, LastPageFree, Placed9, InitInv9, ClearInv, IdleInv, SearchInv, CheckInv,
       TakeInv, FreeInv, FreeBefore, Address9, Descs9
  <1>4. CASE CheckLoop
    <2> DEFINE n == PageNum9(arg9)
    <2>1. /\ arg9 \in Sizes9 /\ n \in 1..N9 /\ i9 \in 0..N9 /\ i9 < N9 - n
          /\ j9 \in i9..(i9 + n) /\ AllFree(i9, j9) /\ NoneBefore(i9) /\ flags9 = before9
      BY <1>4, PageNum9Type DEF LoopInv, TypeOK9, SearchInv, CheckInv, CheckLoop
    <2>2. Static9' /\ LastPageFree' /\ Placed9' /\ InitInv9' /\ ClearInv' /\ IdleInv' /\ FreeInv'
      BY <1>4 DEF CheckLoop, NextI, caller9, pool9, LoopInv, Static9, LastPageFree, Placed9,
         InitInv9, ClearInv, IdleInv, FreeInv, FreeBefore, Address9
    <2>3. CASE j9 = i9 + n
      <3>1. pc9' = "take" /\ j9' = i9 /\ UNCHANGED <<i9, arg9, flags9, before9, pool9, caller9>>
        BY <1>4, <2>3 DEF CheckLoop
      <3>2. TypeOK9' /\ SearchInv' /\ CheckInv'
        BY <2>1, <3>1, Pages9 DEF LoopInv, TypeOK9, SearchInv, CheckInv, NoneBefore, FreeBefore,
           pool9, caller9
      <3>3. TakeInv'
        BY <2>1, <2>3, <3>1, Pages9 DEF LoopInv, Static9, Table9, TakeInv, AllFree, FreeBefore
      <3>4. QED BY <2>2, <3>2, <3>3 DEF LoopInv
    <2>4. CASE j9 # i9 + n /\ Free9(j9)
      <3>1. j9' = j9 + 1 /\ UNCHANGED <<pc9, i9, arg9, flags9, before9, pool9, caller9>>
        BY <1>4, <2>4 DEF CheckLoop
      <3>2. QED
        BY <1>4, <2>1, <2>2, <2>4, <3>1, Pages9 DEF CheckLoop, LoopInv, TypeOK9, SearchInv, CheckInv,
           TakeInv, NoneBefore, AllFree, Free9, FreeBefore, pool9, caller9
    <2>5. CASE j9 # i9 + n /\ ~Free9(j9)
      <3>1. NextI /\ UNCHANGED <<arg9, flags9, before9, pool9, caller9>>
        BY <1>4, <2>5 DEF CheckLoop
      <3>2. j9 \in i9..(i9 + n - 1) /\ ~FreeBefore(j9)
        BY <2>1, <2>5 DEF Free9, FreeBefore
      <3>3. NoneBefore(i9)'
        BY <2>1, <3>1, <3>2 DEF NextI, NoneBefore, FreeBefore
      <3>4. QED
        BY <2>1, <2>2, <3>1, <3>3, Pages9 DEF NextI, LoopInv, TypeOK9, SearchInv, CheckInv,
           TakeInv, pool9, caller9
    <2> QED BY <2>3, <2>4, <2>5
  <1> QED BY <1>1, <1>2, <1>3, <1>4

LEMMA TakeSteps9 ==
    ASSUME LoopInv, TakeLoop \/ Found9
    PROVE  LoopInv'
  <1> DEFINE n == PageNum9(arg9)
  <1>1. /\ arg9 \in Sizes9 /\ arg9 \in Nat /\ n \in 1..N9 /\ i9 \in 0..N9 /\ i9 < N9 - n
        /\ j9 \in i9..(i9 + n) /\ NoneBefore(i9) /\ before9 \in Table9
        /\ flags9 = [k \in Descs9 |-> IF k \in i9..(j9 - 1) THEN before9[k] \cup {TAKEN9}
                                      ELSE before9[k]]
    BY PageNum9Type DEF LoopInv, TypeOK9, Static9, SearchInv, TakeInv, TakeLoop, Found9
  <1>2. CASE TakeLoop
    <2>1. /\ j9' = j9 + 1 /\ j9 < i9 + n /\ j9 \in Descs9
          /\ flags9' = [flags9 EXCEPT ![j9] = @ \cup {TAKEN9}]
          /\ UNCHANGED <<pc9, i9, arg9, before9, pool9, caller9>>
      BY <1>1, <1>2, Pages9 DEF TakeLoop, Descs9
    <2>2. flags9' = [k \in Descs9 |-> IF k \in i9..(j9' - 1) THEN before9[k] \cup {TAKEN9}
                                       ELSE before9[k]]
      <3>1. ASSUME NEW k \in Descs9
            PROVE  flags9'[k] = IF k \in i9..(j9' - 1) THEN before9[k] \cup {TAKEN9}
                                ELSE before9[k]
        <4>1. CASE k = j9
          BY <1>1, <2>1, <4>1
        <4>2. CASE k # j9
          <5>1. flags9'[k] = flags9[k] BY <1>1, <2>1, <4>2
          <5>2. (k \in i9..(j9' - 1)) <=> (k \in i9..(j9 - 1))
            BY <1>1, <2>1, <4>2, Pages9 DEF Descs9
          <5>3. QED BY <1>1, <5>1, <5>2
        <4>3. QED BY <4>1, <4>2
      <3>2. QED BY <1>1, <2>1, <3>1
    <2>3. TypeOK9'
      <3>1. flags9' \in Table9 BY <1>1, <2>1 DEF Table9, LoopInv, TypeOK9
      <3>2. j9' \in 0..N9 BY <1>1, <2>1, Pages9
      <3>3. QED
        BY <1>2, <2>1, <3>1, <3>2 DEF TakeLoop, LoopInv, TypeOK9, Table9, pool9, caller9
    <2>4. TakeInv'
      <3>1. j9' \in i9'..(i9' + PageNum9(arg9')) BY <1>1, <2>1
      <3>2. QED BY <1>2, <2>1, <2>2, <3>1 DEF TakeLoop, LoopInv, TakeInv, AllFree, FreeBefore
    <2>5. QED
      BY <1>2, <2>1, <2>3, <2>4 DEF TakeLoop, LoopInv, Static9, LastPageFree, Placed9, InitInv9,
         ClearInv, IdleInv, SearchInv, CheckInv, FreeInv, NoneBefore, FreeBefore, Address9,
         pool9, caller9
  <1>3. CASE Found9
    <2>1. /\ j9 = i9 + n /\ j9 - 1 \in Descs9
          /\ flags9' = [flags9 EXCEPT ![j9 - 1] = @ \cup {LAST9}] /\ before9' = flags9'
          /\ pc9' = "idle" /\ UNCHANGED <<arg9, i9, j9, pool9>>
      BY <1>1, <1>3, Pages9 DEF Found9, Return9, Descs9
    <2>2. before9' \in Table9 /\ FreeBefore(N9 - 1)'
      <3>1. flags9 \in Table9 BY <1>1 DEF Table9
      <3>2. TAKEN9 \notin flags9[N9 - 1]
        BY <1>1, <1>3, Pages9 DEF LoopInv, LastPageFree, FreeBefore, Descs9, Found9
      <3>3. QED BY <2>1, <3>1, <3>2, Pages9 DEF Table9, FreeBefore, Descs9, TAKEN9, LAST9
    <2>3. /\ p9' = Address9(i9) /\ p9' \in Nat /\ i9 \in Descs9
          /\ req9' = arg9 /\ blocks9' = blocks9 \cup {[p |-> p9', size |-> arg9]}
      <3>1. i9 \in Descs9 BY <1>1, Pages9 DEF Descs9
      <3>2. start9 \in Nat BY DEF LoopInv, TypeOK9
      <3>3. p9' = Address9(i9) /\ p9' \in Nat
        BY <1>3, <3>1, <3>2, PageOfAddress9 DEF Found9, Address9
      <3>4. QED BY <1>3, <3>1, <3>3 DEF Found9
    <2>4. Placed9'
      BY <2>1, <2>3 DEF LoopInv, Placed9, Address9, pool9
    <2>5. QED
      BY <1>1, <1>3, <2>1, <2>2, <2>3, <2>4 DEF Found9, LoopInv, TypeOK9, Static9, LastPageFree,
         InitInv9, ClearInv, IdleInv, SearchInv, CheckInv, TakeInv, FreeInv, Table9, pool9
  <1> QED BY <1>2, <1>3

\* free is called for a page of the table, never for the last one if it is taken.
LEMMA Freeable9Pages ==
    ASSUME LoopInv, pc9 \notin {"boot", "init"}, NEW q \in AllocOf!Freeable, q # NULL9, q < end9
    PROVE  \E i \in Descs9 : q = Address9(i) /\ (q - start9) \div PAGE_SIZE9 = i
  <1>1. start9 \in Nat /\ end9 \in Nat BY DEF LoopInv, TypeOK9
  <1>2. \E i \in Descs9 : q = Address9(i)
    <2>1. CASE \E b \in blocks9 : q = b.p BY <2>1 DEF LoopInv, Placed9
    <2>2. CASE \E i \in AllocOf!Descs : q = AllocOf!Address(i)
      BY <2>2, SameNames DEF AllocOf!Address, Address9
    <2>3. q # end9 BY <1>1
    <2>4. QED BY <2>1, <2>2, <2>3, SameNames DEF AllocOf!Freeable
  <1>3. PICK i \in Descs9 : q = Address9(i) BY <1>2
  <1>4. (q - start9) \div PAGE_SIZE9 = i
    <2>1. q = start9 + i * PAGE_SIZE9 BY <1>3 DEF Address9
    <2>2. QED BY <1>1, <2>1, Pages9 DEF Descs9, PAGE_SIZE9
  <1>5. QED BY <1>3, <1>4

LEMMA FreeSteps9 ==
    ASSUME LoopInv, FreeNothing \/ CallFree \/ FreeOn \/ FreeEnd
    PROVE  LoopInv'
  <1>1. CASE FreeNothing
    BY <1>1, Pages9 DEF FreeNothing, Return9, Released9, pool9, LoopInv, TypeOK9, Static9,
       LastPageFree, Placed9, InitInv9, ClearInv, IdleInv, SearchInv, CheckInv, TakeInv, FreeInv,
       FreeBefore, Address9, NULL9
  <1>2. CASE CallFree
    <2>1. PICK q \in Freeable9 : ~Ignored(q) /\ Call9("free", q, (q - start9) \div PAGE_SIZE9)
      BY <1>2 DEF CallFree
    <2>2. flags9 = before9 /\ pc9 = "idle" BY <2>1 DEF Call9, LoopInv, IdleInv
    <2>3. Freeable9 = AllocOf!Freeable
      BY <2>2, SameNames DEF Freeable9, AllocOf!Freeable, AllocOf!Address, AllocOf!IsFree, Free9
    <2>4. PICK i \in Descs9 : q = Address9(i) /\ (q - start9) \div PAGE_SIZE9 = i
      <3>1. end9 \in Nat /\ start9 \in Nat BY DEF LoopInv, TypeOK9
      <3>2. \A b \in blocks9 : b.p \in Nat
        BY <3>1, PageOfAddress9 DEF LoopInv, Placed9, Address9
      <3>3. q \in Nat
        BY <3>1, <3>2, PageOfAddress9 DEF Freeable9, NULL9
      <3>4. q # NULL9 /\ q < end9 BY <2>1, <3>1, <3>3 DEF Ignored
      <3>5. QED BY <2>1, <2>2, <2>3, <3>4, Freeable9Pages
    <2>5. /\ arg9' = q /\ pc9' = "free" /\ i9' = i
          /\ UNCHANGED <<j9, flags9, pool9, caller9, before9>>
      BY <2>1, <2>4 DEF Call9
    <2>6. q # NULL9 /\ q < end9 /\ q \in AllocOf!Freeable /\ q \in Nat
      <3>1. end9 \in Nat /\ start9 \in Nat BY DEF LoopInv, TypeOK9
      <3>2. q \in Nat BY <2>4, <3>1, PageOfAddress9 DEF Address9
      <3>3. QED BY <2>1, <2>3, <3>1, <3>2 DEF Ignored
    <2>7. (AllocOf!Freeable)' = AllocOf!Freeable
      BY <2>5 DEF AllocOf!Freeable, AllocOf!Address, AllocOf!IsFree, AllocOf!Descs, AllocOf!N,
                  AllocOf!HEAP_SIZE, pool9, caller9
    <2>8. First9' = i /\ i \in 0..N9 BY <2>4, <2>5, Pages9 DEF First9, pool9, Descs9
    <2>9. FreeInv'
      <3>1. flags9' = [k \in Descs9 |-> IF k \in i..(i - 1) THEN {} ELSE before9[k]]
        BY <2>2, <2>4, <2>5, Pages9 DEF LoopInv, Static9, Table9, Descs9
      <3>2. QED BY <2>4, <2>5, <2>6, <2>7, <2>8, <3>1 DEF FreeInv, pool9, Descs9
    <2>10. QED
      BY <2>2, <2>5, <2>6, <2>8, <2>9 DEF LoopInv, TypeOK9, Static9, LastPageFree, Placed9, InitInv9,
         ClearInv, IdleInv, SearchInv, CheckInv, TakeInv, FreeBefore, Address9, pool9, caller9
  <1>3. CASE FreeOn
    <2>1. /\ pc9 = "free" /\ ~Free9(i9) /\ ~Last9(i9)
          /\ flags9' = [flags9 EXCEPT ![i9] = {}] /\ i9' = i9 + 1
          /\ UNCHANGED <<pc9, arg9, j9, pool9, caller9, before9>>
      BY <1>3 DEF FreeOn, Cleared9
    <2>2. /\ First9 \in 0..i9 /\ i9 \in Descs9 /\ i9 \in Nat /\ before9 \in Table9
          /\ flags9 = [k \in Descs9 |-> IF k \in First9..(i9 - 1) THEN {} ELSE before9[k]]
      BY <2>1 DEF LoopInv, FreeInv, TypeOK9, Static9
    <2>3. ~FreeBefore(i9) /\ ~LastBefore(i9)
      <3>1. flags9[i9] = before9[i9] BY <2>2
      <3>2. QED BY <2>1, <3>1 DEF Free9, Last9, FreeBefore, LastBefore
    <2>4. i9 + 1 \in Descs9
      BY <2>1, <2>2, <2>3, Pages9 DEF LoopInv, LastPageFree, Descs9
    <2>5. (AllocOf!Freeable)' = AllocOf!Freeable
      BY <2>1 DEF AllocOf!Freeable, AllocOf!Address, AllocOf!IsFree, AllocOf!Descs, AllocOf!N,
                  AllocOf!HEAP_SIZE, pool9, caller9
    <2>6. First9' = First9 BY <2>1 DEF First9, pool9
    <2>7. flags9' = [k \in Descs9 |-> IF k \in First9..i9 THEN {} ELSE before9[k]]
      <3>1. ASSUME NEW k \in Descs9
            PROVE  flags9'[k] = IF k \in First9..i9 THEN {} ELSE before9[k]
        <4>1. CASE k = i9 BY <2>1, <2>2, <4>1
        <4>2. CASE k # i9
          <5>1. flags9'[k] = flags9[k] BY <2>1, <2>2, <4>2
          <5>2. (k \in First9..i9) <=> (k \in First9..(i9 - 1))
            BY <2>2, <4>2, Pages9 DEF Descs9
          <5>3. QED BY <2>2, <5>1, <5>2
        <4>3. QED BY <4>1, <4>2
      <3>2. QED BY <2>1, <2>2, <3>1
    <2>8. \A k \in First9..i9 : ~FreeBefore(k) /\ ~LastBefore(k)
      <3>1. \A k \in First9..(i9 - 1) : ~FreeBefore(k) /\ ~LastBefore(k)
        BY <2>1 DEF LoopInv, FreeInv
      <3>2. \A k \in First9..i9 : k = i9 \/ k \in First9..(i9 - 1) BY <2>2
      <3>3. QED BY <2>3, <3>1, <3>2
    <2>9. FreeInv'
      <3>1. i9' - 1 = i9 /\ First9 \in 0..i9' BY <2>1, <2>2
      <3>2. QED
        BY <2>1, <2>4, <2>5, <2>6, <2>7, <2>8, <3>1
        DEF LoopInv, FreeInv, FreeBefore, LastBefore, pool9
    <2>10. TypeOK9'
      <3>1. flags9' \in Table9 BY <2>2, <2>7 DEF Table9
      <3>2. i9' \in 0..N9 BY <2>1, <2>4, Pages9 DEF Descs9
      <3>3. QED BY <2>1, <3>1, <3>2 DEF LoopInv, TypeOK9, Table9, pool9, caller9
    <2>11. QED
      BY <2>1, <2>9, <2>10 DEF LoopInv, Static9, LastPageFree, Placed9, InitInv9, ClearInv, IdleInv,
         SearchInv, CheckInv, TakeInv, FreeBefore, Address9, pool9, caller9
  <1>4. CASE FreeEnd
    <2>1. /\ pc9 = "free" /\ pc9' = "idle" /\ before9' = flags9'
          /\ flags9' = IF Free9(i9) THEN flags9 ELSE [flags9 EXCEPT ![i9] = {}]
          /\ blocks9' \subseteq blocks9 /\ req9' = NOREQ9 /\ p9' = NULL9
          /\ UNCHANGED <<arg9, i9, j9, pool9>>
      BY <1>4 DEF FreeEnd, Cleared9, Released9, Return9
    <2>2. /\ before9 \in Table9 /\ FreeBefore(N9 - 1) /\ N9 - 1 \in Descs9
          /\ flags9 = [k \in Descs9 |-> IF k \in First9..(i9 - 1) THEN {} ELSE before9[k]]
      BY <2>1, Pages9 DEF LoopInv, FreeInv, LastPageFree, Static9, Descs9
    <2>3. flags9 \in Table9 /\ TAKEN9 \notin flags9[N9 - 1]
      BY <2>2 DEF Table9, FreeBefore
    <2>4. flags9' \in Table9 /\ FreeBefore(N9 - 1)'
      BY <2>1, <2>2, <2>3 DEF Table9, FreeBefore
    <2>5. QED
      BY <2>1, <2>4 DEF LoopInv, TypeOK9, Static9, LastPageFree, Placed9, InitInv9, ClearInv,
         IdleInv, SearchInv, CheckInv, TakeInv, FreeInv, Table9, Address9, NULL9, pool9
  <1> QED BY <1>1, <1>2, <1>3, <1>4

\* Every loop of page_init, malloc and free keeps its invariant.
THEOREM LoopInvariance == Spec9 => []LoopInv
  <1>1. LoopInv /\ [Next9]_vars9 => LoopInv'
    <2> SUFFICES ASSUME LoopInv, [Next9]_vars9 PROVE LoopInv'
      OBVIOUS
    <2>1. CASE UNCHANGED vars9
      BY <2>1 DEF vars9, pool9, caller9, LoopInv, TypeOK9, Static9, LastPageFree, Placed9, InitInv9,
         ClearInv, IdleInv, SearchInv, CheckInv, TakeInv, FreeInv, NoneBefore, AllFree,
         FreeBefore, LastBefore, First9, Address9, AllocOf!Freeable, AllocOf!Address,
         AllocOf!IsFree, AllocOf!Descs, AllocOf!N, AllocOf!HEAP_SIZE
    <2>2. QED BY <2>1, InitSteps9, SearchSteps9, TakeSteps9, FreeSteps9 DEF Next9
  <1>2. QED BY <1>1, LoopInit, PTL DEF Spec9

-----------------------------------------------------------------------------
(* The refinement                                                           *)

\* Between the end of page_init and the next, Alloc's table is the callers'.
LEMMA AllocStatics ==
    ASSUME LoopInv, pc9 \notin {"boot", "init"}
    PROVE  /\ AllocOf!pool = <<N9, start9, end9>>
           /\ \A i : AllocOf!IsFree(i) <=> FreeBefore(i)
           /\ \A i : AllocOf!IsLast(i) <=> LastBefore(i)
           /\ \A i : AllocOf!Address(i) = Address9(i)
  BY SameNames DEF LoopInv, Static9, AllocOf!pool, AllocOf!IsFree, AllocOf!IsLast,
     AllocOf!Address, FreeBefore, LastBefore, Address9

LEMMA AllocStutters ==
    ASSUME LoopInv, LoopInv',
           \/ PageInit9 \/ ClearLoop \/ CallMalloc \/ Search \/ CheckLoop \/ TakeLoop
           \/ CallFree \/ FreeOn \/ UNCHANGED vars9
    PROVE  UNCHANGED AllocOf!vars
  BY DEF PageInit9, ClearLoop, CallMalloc, Call9, Search, CheckLoop, NextI, TakeLoop, CallFree,
     FreeOn, vars9, pool9, caller9, AllocOf!vars, AllocOf!pool

LEMMA AllocCandidates ==
    ASSUME LoopInv, pc9 \notin {"boot", "init"}, NEW n
    PROVE  AllocOf!Candidates(n) =
               {i \in Descs9 : i < N9 - n /\ \A j \in i..(i + n - 1) : FreeBefore(j)}
  BY AllocStatics, SameNames DEF AllocOf!Candidates, LoopInv, Static9

\* page_init.
LEMMA AllocPlaced == ASSUME LoopInv, PlacePool PROVE AllocOf!PageInit
  <1>1. flags9 = [k \in Descs9 |-> {}]
    BY DEF PlacePool, LoopInv, TypeOK9, Static9, ClearInv, Descs9
  <1>2. QED
    BY <1>1, SameNames DEF PlacePool, LoopInv, Static9, AllocOf!PageInit, caller9

\* malloc that finds nothing.
LEMMA AllocRefused == ASSUME LoopInv, NotFound PROVE AllocOf!Malloc(arg9)
  <1> DEFINE n == PageNum9(arg9)
  <1>1. /\ arg9 \in Sizes9 /\ n \in 1..N9 /\ num_pages9 = N9 /\ i9 \in 0..N9 /\ i9 >= N9 - n
        /\ NoneBefore(i9) /\ pc9 = "search" /\ pc9' = "idle"
    BY PageNum9Type DEF LoopInv, TypeOK9, Static9, SearchInv, NotFound, SearchBound, Return9
  <1>2. AllocOf!Candidates(n) = {}
    <2>1. ASSUME NEW i \in Descs9, i < N9 - n
          PROVE  \E j \in i..(i + n - 1) : ~FreeBefore(j)
      <3>1. i \in 0..(i9 - 1) BY <1>1, <2>1, Pages9 DEF Descs9
      <3>2. QED BY <1>1, <3>1 DEF NoneBefore
    <2>2. QED BY <1>1, <2>1, AllocCandidates
  <1>3. AllocOf!Found(n) = {} BY <1>1, <1>2 DEF AllocOf!Found
  <1>4. UNCHANGED <<AllocOf!pool, before9, blocks9>>
    BY <1>1 DEF NotFound, Return9, LoopInv, CheckInv, AllocOf!pool, pool9
  <1>5. QED
    BY <1>1, <1>3, <1>4, Pages9, SameNames DEF NotFound, AllocOf!Malloc

\* malloc that finds a run: the first one.
LEMMA AllocFound == ASSUME LoopInv, Found9 PROVE AllocOf!Malloc(arg9)
  <1> DEFINE n == PageNum9(arg9)
  <1>1. /\ arg9 \in Sizes9 /\ n \in 1..N9 /\ num_pages9 = N9 /\ i9 \in Descs9 /\ i9 < N9 - n
        /\ i9 \in Nat /\ NoneBefore(i9) /\ AllFree(i9, i9 + n) /\ j9 = i9 + n
        /\ pc9 = "take" /\ pc9' = "idle" /\ before9 \in Table9
        /\ flags9 = [k \in Descs9 |-> IF k \in i9..(j9 - 1) THEN before9[k] \cup {TAKEN9}
                                      ELSE before9[k]]
    BY PageNum9Type, Pages9
    DEF LoopInv, TypeOK9, Static9, SearchInv, TakeInv, Found9, Return9, Descs9
  <1>2. i9 \in AllocOf!Candidates(n)
    BY <1>1, AllocCandidates DEF AllFree
  <1>3. \A k \in AllocOf!Candidates(n) : i9 <= k
    <2>1. ASSUME NEW k \in AllocOf!Candidates(n), ~(i9 <= k) PROVE FALSE
      <3>1. k \in Descs9 /\ \A j \in k..(k + n - 1) : FreeBefore(j)
        BY <1>1, <2>1, AllocCandidates
      <3>2. k \in 0..(i9 - 1) BY <1>1, <2>1, <3>1, Pages9 DEF Descs9
      <3>3. QED BY <1>1, <3>1, <3>2 DEF NoneBefore
    <2>2. QED BY <2>1
  <1>4. i9 \in AllocOf!Found(n) BY <1>1, <1>2, <1>3 DEF AllocOf!Found
  <1>5. before9' = AllocOf!Taken(i9, n)
    <2>1. before9' = [flags9 EXCEPT ![j9 - 1] = @ \cup {LAST9}] BY DEF Found9, Return9
    <2>2. j9 - 1 = i9 + n - 1 /\ i9 + n - 1 \in i9..(i9 + n - 1) BY <1>1
    <2>3. AllocOf!Taken(i9, n) =
            [k \in Descs9 |-> IF k \in i9..(i9 + n - 1)
                     THEN before9[k] \cup {TAKEN9} \cup (IF k = i9 + n - 1 THEN {LAST9} ELSE {})
                     ELSE before9[k]]
      BY SameNames DEF AllocOf!Taken
    <2>4. ASSUME NEW k \in Descs9 PROVE before9'[k] = AllocOf!Taken(i9, n)[k]
      <3>1. CASE k = j9 - 1 BY <1>1, <2>1, <2>2, <2>3, <3>1
      <3>2. CASE k # j9 - 1 BY <1>1, <2>1, <2>2, <2>3, <3>2
      <3>3. QED BY <3>1, <3>2
    <2>5. QED BY <1>1, <2>1, <2>3, <2>4
  <1>6. UNCHANGED AllocOf!pool BY <1>1 DEF Found9, Return9, AllocOf!pool, pool9
  <1>7. /\ req9' = arg9 /\ p9' = AllocOf!Address(i9)
        /\ blocks9' = blocks9 \cup {[p |-> AllocOf!Address(i9), size |-> arg9]}
    BY <1>1, AllocStatics DEF Found9, Address9
  <1>8. QED BY <1>1, <1>4, <1>5, <1>6, <1>7, Pages9, SameNames DEF AllocOf!Malloc

\* free of NULL, or past the pool.
LEMMA AllocIgnored ==
    ASSUME LoopInv, FreeNothing PROVE \E q \in AllocOf!Freeable : AllocOf!Free(q)
  <1>1. PICK q \in Freeable9 : Ignored(q) /\ Released9(q) BY DEF FreeNothing
  <1>2. /\ pc9 = "idle" /\ pc9' = "idle" /\ before9 = flags9 /\ UNCHANGED <<before9, pool9>>
        /\ num_pages9 = N9
    BY DEF FreeNothing, Return9, LoopInv, IdleInv, Static9
  <1>3. q \in AllocOf!Freeable
    BY <1>2, SameNames DEF Freeable9, AllocOf!Freeable, AllocOf!Address, AllocOf!IsFree, Free9
  <1>4. AllocOf!Free(q)
    BY <1>1, <1>2, Pages9, SameNames DEF AllocOf!Free, AllocOf!pool, pool9, Ignored, Released9
  <1>5. QED BY <1>3, <1>4

\* free: the pages cleared are Alloc's, those up to the first that is last, or up to a free one.
LEMMA AllocFreed ==
    ASSUME LoopInv, FreeEnd PROVE arg9 \in AllocOf!Freeable /\ AllocOf!Free(arg9)
  <1> DEFINE cleared == AllocOf!Cleared(First9)
  <1>1. /\ pc9 = "free" /\ pc9' = "idle" /\ before9' = flags9' /\ num_pages9 = N9
        /\ flags9' = IF Free9(i9) THEN flags9 ELSE [flags9 EXCEPT ![i9] = {}]
        /\ Released9(arg9) /\ UNCHANGED pool9
    BY DEF FreeEnd, Cleared9, Return9, LoopInv, Static9
  <1>2. /\ arg9 \in AllocOf!Freeable /\ arg9 # NULL9 /\ arg9 < end9 /\ arg9 \in Nat
        /\ end9 \in Nat /\ First9 \in 0..i9 /\ i9 \in Descs9 /\ i9 \in Nat /\ before9 \in Table9
        /\ \A k \in First9..(i9 - 1) : ~FreeBefore(k) /\ ~LastBefore(k)
        /\ flags9 = [k \in Descs9 |-> IF k \in First9..(i9 - 1) THEN {} ELSE before9[k]]
    BY <1>1 DEF LoopInv, FreeInv, TypeOK9, Static9
  <1>3. /\ Free9(i9) <=> FreeBefore(i9)
        /\ Last9(i9) <=> LastBefore(i9)
    <2>1. flags9[i9] = before9[i9] BY <1>2
    <2>2. QED BY <2>1 DEF Free9, Last9, FreeBefore, LastBefore
  <1>4. AllocOf!PageOf(arg9) = First9 BY SameNames DEF AllocOf!PageOf, First9
  <1>5. cleared = {j \in Descs9 : /\ j >= First9 /\ \A k \in First9..j : ~FreeBefore(k)
                                 /\ \A k \in First9..(j - 1) : ~LastBefore(k)}
    BY <1>1, SameNames, AllocStatics DEF AllocOf!Cleared
  <1>6. /\ \A k \in Descs9 : k # i9 => flags9'[k] = flags9[k]
        /\ flags9'[i9] = IF Free9(i9) THEN before9[i9] ELSE {}
    <2>1. flags9[i9] = before9[i9] BY <1>2
    <2>2. CASE Free9(i9) BY <1>1, <2>1, <2>2
    <2>3. CASE ~Free9(i9) BY <1>1, <1>2, <2>3
    <2>4. QED BY <2>2, <2>3
  <1>7. ASSUME NEW k \in Descs9 PROVE flags9'[k] = IF k \in cleared THEN {} ELSE before9[k]
    <2>1. CASE k < i9
      <3>1. (k \in cleared) <=> k \in First9..(i9 - 1)
        BY <1>2, <1>5, <2>1, Pages9 DEF Descs9
      <3>2. flags9'[k] = flags9[k] BY <1>2, <1>6, <2>1, Pages9 DEF Descs9
      <3>3. QED BY <1>2, <3>1, <3>2
    <2>2. CASE k = i9
      <3>1. (k \in cleared) <=> ~FreeBefore(i9)
        BY <1>2, <1>5, <2>2, Pages9 DEF Descs9
      <3>2. QED BY <1>3, <1>6, <2>2, <3>1
    <2>3. CASE k > i9
      <3>1. Free9(i9) \/ Last9(i9) BY DEF FreeEnd
      <3>2. FreeBefore(i9) \/ LastBefore(i9) BY <1>3, <3>1
      <3>3. k \notin cleared BY <1>2, <1>5, <2>3, <3>2, Pages9 DEF Descs9
      <3>4. flags9'[k] = flags9[k] BY <1>2, <1>6, <2>3
      <3>5. QED BY <1>2, <2>3, <3>3, <3>4
    <2>4. QED BY <1>2, <2>1, <2>2, <2>3, Pages9 DEF Descs9
  <1>8. before9' = [k \in Descs9 |-> IF k \in cleared THEN {} ELSE before9[k]]
    BY <1>1, <1>2, <1>7
  <1>9. before9' = [k \in AllocOf!Descs |->
                      IF k \in AllocOf!Cleared(AllocOf!PageOf(arg9)) THEN {} ELSE before9[k]]
    BY <1>4, <1>8, SameNames
  <1>10. /\ blocks9' = {b \in blocks9 : b.p # arg9} /\ req9' = AllocOf!NOREQ
         /\ p9' = AllocOf!NULL /\ UNCHANGED AllocOf!pool
    BY <1>1, SameNames DEF Released9, AllocOf!pool, pool9
  <1>11. ~(arg9 = AllocOf!NULL \/ arg9 >= end9) BY <1>2, SameNames
  <1>12. (IF pc9 \in {"boot", "init"} THEN 0 ELSE num_pages9) > 0 BY <1>1, Pages9
  <1>13. QED BY <1>2, <1>9, <1>10, <1>11, <1>12 DEF AllocOf!Free

\* The loops of page_init, malloc and free do what Alloc says of them.
THEOREM LoopsImplementAlloc == Spec9 => ImplementsAlloc
  <1> SUFFICES Spec9 => AllocOf!Spec BY DEF ImplementsAlloc
  <1>1. Init9 => AllocOf!Init
    BY SameNames DEF Init9, AllocOf!Init
  <1>2. LoopInv /\ LoopInv' /\ [Next9]_vars9 => [AllocOf!Next]_(AllocOf!vars)
    <2> SUFFICES ASSUME LoopInv, LoopInv', [Next9]_vars9
                 PROVE  [AllocOf!Next]_(AllocOf!vars)
      OBVIOUS
    <2>1. CASE PlacePool BY <2>1, AllocPlaced DEF AllocOf!Next
    <2>2. CASE NotFound \/ Found9
      <3>1. arg9 \in Sizes9 BY <2>2 DEF NotFound, Found9, LoopInv, SearchInv
      <3>2. QED BY <2>2, <3>1, AllocRefused, AllocFound DEF AllocOf!Next
    <2>3. CASE FreeNothing BY <2>3, AllocIgnored DEF AllocOf!Next
    <2>4. CASE FreeEnd BY <2>4, AllocFreed DEF AllocOf!Next
    <2>5. QED BY <2>1, <2>2, <2>3, <2>4, AllocStutters DEF Next9
  <1>3. QED BY <1>1, <1>2, LoopInvariance, PTL DEF Spec9, AllocOf!Spec

-----------------------------------------------------------------------------
(* What is proved of Alloc, as the loops see it                             *)

AP == INSTANCE AllocProofs WITH
    HEAP_START <- HEAP_START9, MEMORY_END <- MEMORY_END9, Sizes <- Sizes9,
    num_pages <- IF pc9 \in {"boot", "init"} THEN 0 ELSE num_pages9,
    alloc_start <- start9, alloc_end <- end9,
    flags <- before9, req <- req9, p <- p9, blocks <- blocks9

\* What Alloc supposes of its constants holds of the loops'.
LEMMA AllocFits == AP!HeapAssumption /\ AP!SizesAssumption /\ AP!Modest
  BY Heap9Assumption, Sizes9Assumption
  DEF AP!HeapAssumption, AP!SizesAssumption, AP!Modest, AP!NULL, AP!HEAP_SIZE, AP!PAGE_SIZE,
      AP!RESERVED, AP!N, AP!PageNum, PAGE_SIZE9, RESERVED9, N9, PageNum9

\* AllocOf and AP name the same formulas twice.  (The prover compares them only when
\* they are expanded down to the variables.)
USE DEF AllocOf!PAGE_SIZE, AP!PAGE_SIZE, AllocOf!RESERVED, AP!RESERVED,
        AllocOf!NULL, AP!NULL, AllocOf!NOREQ, AP!NOREQ, AllocOf!HEAP_SIZE, AP!HEAP_SIZE,
        AllocOf!N, AP!N, AllocOf!Descs, AP!Descs, AllocOf!TAKEN, AP!TAKEN,
        AllocOf!LAST, AP!LAST, AllocOf!PageNum, AP!PageNum, AllocOf!Align, AP!Align,
        AllocOf!IsFree, AP!IsFree, AllocOf!IsLast, AP!IsLast,
        AllocOf!Address, AP!Address, AllocOf!PageOf, AP!PageOf,
        AllocOf!Candidates, AP!Candidates, AllocOf!Taken, AP!Taken,
        AllocOf!Suffix, AP!Suffix, AllocOf!Found, AP!Found,
        AllocOf!Cleared, AP!Cleared, AllocOf!Freeable, AP!Freeable,
        AllocOf!Span, AP!Span, AllocOf!pool, AP!pool, AllocOf!vars, AP!vars

LEMMA SameInit == AllocOf!Init <=> AP!Init
  BY Zenon DEF AllocOf!Init, AP!Init

LEMMA SamePageInit == AllocOf!PageInit <=> AP!PageInit
  BY Zenon DEF AllocOf!PageInit, AP!PageInit

LEMMA SameMalloc == ASSUME NEW size PROVE AllocOf!Malloc(size) <=> AP!Malloc(size)
  BY Zenon DEF AllocOf!Malloc, AP!Malloc

LEMMA SameFree == ASSUME NEW q PROVE AllocOf!Free(q) <=> AP!Free(q)
  BY Zenon DEF AllocOf!Free, AP!Free

LEMMA SameFreeable == AllocOf!Freeable = AP!Freeable
  BY Zenon

LEMMA SameVars == AllocOf!vars = AP!vars /\ AllocOf!vars' = AP!vars'
  BY Zenon

LEMMA SameTable == AllocOf!DescriptorsExact <=> AP!DescriptorsExact
  BY Zenon DEF AllocOf!DescriptorsExact, AP!DescriptorsExact

LEMMA SameApart == AllocOf!BlocksApart <=> AP!BlocksApart
  BY Zenon DEF AllocOf!BlocksApart, AP!BlocksApart

LEMMA SamePool == AllocOf!BlocksInPool <=> AP!BlocksInPool
  BY Zenon DEF AllocOf!BlocksInPool, AP!BlocksInPool

LEMMA SameRefusal == AllocOf!RefusesOnlyWhenFull <=> AP!RefusesOnlyWhenFull
  BY Zenon DEF AllocOf!RefusesOnlyWhenFull, AP!RefusesOnlyWhenFull

\* The heap that callers see, under either name.
LiveOf == {[first |-> AllocOf!PageOf(b.p), pages |-> AllocOf!PageNum(b.size)] : b \in blocks9}
LiveAP == {[first |-> AP!PageOf(b.p), pages |-> AP!PageNum(b.size)] : b \in blocks9}

LEMMA SameLive == LiveOf = LiveAP /\ LiveOf' = LiveAP'
  BY Zenon DEF LiveOf, LiveAP

LEMMA SameHeapInit == AllocOf!HeapOf!Init <=> AP!HeapOf!Init
  BY Zenon DEF AllocOf!HeapOf!Init, AP!HeapOf!Init

LEMMA SameHeapNext == AllocOf!HeapOf!Next <=> AP!HeapOf!Next
  BY Zenon
  DEF AllocOf!HeapOf!Next, AP!HeapOf!Next, AllocOf!HeapOf!Blocks, AP!HeapOf!Blocks,
      AllocOf!HeapOf!PagesOf, AP!HeapOf!PagesOf, AllocOf!HeapOf!Allocate, AP!HeapOf!Allocate,
      AllocOf!HeapOf!Release, AP!HeapOf!Release

HIDE DEF AllocOf!vars, AP!vars, AllocOf!Freeable, AP!Freeable

LEMMA SameSpec == AllocOf!Spec <=> AP!Spec
  <1>1. AllocOf!Next <=> AP!Next
    BY SamePageInit, SameMalloc, SameFree, SameFreeable, Zenon DEF AllocOf!Next, AP!Next
  <1>2. [AllocOf!Next]_(AllocOf!vars) <=> [AP!Next]_(AP!vars)
    BY <1>1, SameVars
  <1>3. QED BY <1>2, SameInit, PTL DEF AllocOf!Spec, AP!Spec

\* What holds of the allocator holds of its loops, for every heap and every set of sizes
\* that fit into it: between calls the table says exactly what callers hold, no page has
\* two holders, blocks lie in the pool, and malloc refuses only what does not fit.
THEOREM LoopsInherit ==
    Spec9 => []( /\ AllocOf!DescriptorsExact /\ AllocOf!BlocksApart
                 /\ AllocOf!BlocksInPool /\ AllocOf!RefusesOnlyWhenFull )
  <1>1. AP!Spec => []( /\ AP!DescriptorsExact /\ AP!BlocksApart
                       /\ AP!BlocksInPool /\ AP!RefusesOnlyWhenFull )
    BY AllocFits, AP!TableExact, AP!NoSharing, AP!InsidePool, AP!NoLeak, PTL
  <1>2. QED
    BY <1>1, LoopsImplementAlloc, SameSpec, SameTable, SameApart, SamePool, SameRefusal, PTL
    DEF ImplementsAlloc

\* And callers of the loops see a heap: they implement Alloc, and Alloc implements Heap.
THEOREM LoopsAreHeap == Spec9 => AllocOf!ImplementsHeap
  <1>1. AP!Spec => AP!ImplementsHeap
    BY AllocFits, AP!HeapRefinement, PTL
  <1>2. [AllocOf!HeapOf!Next]_LiveOf <=> [AP!HeapOf!Next]_LiveAP
    BY SameHeapNext, SameLive
  <1>3. AP!ImplementsHeap <=> AllocOf!ImplementsHeap
    BY SameHeapInit, <1>2, PTL
    DEF AllocOf!ImplementsHeap, AP!ImplementsHeap, AllocOf!HeapOf!Spec, AP!HeapOf!Spec,
        LiveOf, LiveAP
  <1>4. QED BY <1>1, <1>3, LoopsImplementAlloc, SameSpec, PTL DEF ImplementsAlloc
=============================================================================
