--------------------------- MODULE ChaptersProofs ---------------------------
(***************************************************************************)
(* The programs of chapters 02 to 09 under the one specification that the  *)
(* runs check.  Whichever of them is chosen, it behaves as its own         *)
(* specification says, the others rest, and so everything that is proved   *)
(* of each of them holds of all, for all values of all their constants.    *)
(***************************************************************************)
EXTENDS MCChapters, SwitchProofs, SpinlockProofs, DriverProofs, AllocLoopProofs

\* The one that runs takes a step of its own, the others none.
LEMMA ChapterSteps ==
    ASSUME [Next]_varsAll
    PROVE  /\ [Next3]_vars3 /\ [Next4]_vars4 /\ [Next5]_vars5
           /\ [Next6]_vars6 /\ [NextF]_varsF /\ [Next7]_vars7
           /\ [Next8]_vars8 /\ [Next9]_vars9 /\ [NextS]_varsS
  BY DEF Next, varsAll

LEMMA ChapterSpecs ==
    Spec => /\ Spec3 /\ Spec4 /\ Spec5 /\ SpecF /\ Spec9 /\ SpecS
            /\ Init6 /\ [][Next6]_vars6
            /\ Init7 /\ [][Next7]_vars7
            /\ Init8 /\ [][Next8]_vars8
  <1>1. Init => /\ Init3 /\ Init4 /\ Init5 /\ Init6 /\ InitF /\ Init7 /\ Init8 /\ Init9 /\ InitS
    BY DEF Init
  <1>2. QED
    BY <1>1, ChapterSteps, PTL DEF Spec, Spec3, Spec4, Spec5, SpecF, Spec9, SpecS

\* The lock under timer interrupts: what it needs of fairness, safety does not.
LEMMA Chapter6 == Spec => [](TypeOK6 /\ OnlyEntryBreaksLock /\ SectionCounts)
  <1>1. SpinlockInv => TypeOK6 /\ OnlyEntryBreaksLock /\ SectionCounts
    BY SectionOwned
    DEF SpinlockInv, LockInv, OnlyEntryBreaksLock, MutualExclusion,
        CountInv, Counted, SectionCounts, Runs6, UserLocs6, LockLocs
  <1>2. QED BY <1>1, ChapterSpecs, SpinlockInit, SpinlockStep, PTL

LEMMA Chapter7 == Spec => [](TypeOK7 /\ EchoExact)
  <1>1. QED BY ChapterSpecs, ConsoleInit, ConsoleStep, ConsoleShown, PTL

LEMMA Chapter8 == Spec => [](TypeOK8 /\ RingsAgree /\ BlockRead8)
  <1>1. Inv8 => TypeOK8
    BY DEF Inv8
  <1>2. QED BY <1>1, ChapterSpecs, Disk8Init, Disk8Step, Agreeing, BlockRead, PTL

LEMMA Chapter9 == Spec => []TypeOK9
  <1>1. LoopInv => TypeOK9
    BY DEF LoopInv
  <1>2. QED BY <1>1, ChapterSpecs, LoopInvariance, PTL

\* Whichever chapter runs, every variable of it keeps its type: no index leaves its
\* table, no pointer its buffer, and control no function for a place it cannot be at.
THEOREM ChaptersTyped == Spec => []TypeOK
  <1>1. TypeOK3 /\ TypeOK4 /\ TypeOK5 /\ TypeOK6 /\ TypeOKF /\ TypeOK7 /\ TypeOK8 /\ TypeOK9
        /\ TypeOKS => TypeOK
    BY DEF TypeOK
  <1>2. QED
    BY <1>1, ChapterSpecs, CoopTyped, TimerTyped, PreemptTyped, Chapter6, PrintfTypes, Chapter7,
       Chapter8, Chapter9, StringsTyped, PTL

\* The chapters' safety properties under the specification that the runs check: those
\* of the switch, the lock, the print buffer, the console, the queue and memmove.
THEOREM ChaptersSafe ==
    Spec => []( /\ YieldReturns /\ TrapLosesOnlyT6
                /\ OnlyEntryBreaksLock /\ SectionCounts /\ PutsStaysInside
                /\ EchoExact /\ RingsAgree /\ BlockRead8 /\ MoveKeepsBytes )
  <1>1. QED
    BY ChapterSpecs, YieldsReturn, TrapKeepsRegisters, Chapter6, PutsInside, Chapter7, Chapter8,
       StringsCorrect, PTL

\* And what is promised of their steps: the tasks take turns, a switch keeps what the
\* compiler relies on, and the allocator's loops implement Alloc.
THEOREM ChaptersSteps ==
    Spec => CoopTakesTurns /\ SwitchKeepsCalleeSaved /\ ImplementsAlloc
  <1>1. QED
    BY ChapterSpecs, CoopIsRoundRobin, SwitchesKeepRegisters, LoopsImplementAlloc, PTL

\* What depends on the width of the machine's words: the timer interrupts only the empty
\* loop of os_main, and its ticks are an interval apart, while no sum of mtime and the
\* interval wraps.  (timer_wrap shows the ticks when one does.)
THEOREM ChaptersTimer ==
    ASSUME FirstTickFits, NoWrap
    PROVE  Spec => []TimerHitsLoopOnly /\ TicksSpaced
  <1>1. QED
    BY ChapterSpecs, HitsLoopOnly, TicksSpacedUntilWrap, PTL

\* What depends on the calls and on lib_vsnprintf: no call's line is printed otherwise
\* than it should be, if each is formatted as it should be.
THEOREM ChaptersPrint ==
    ASSUME FormatsExact
    PROVE  Spec => []LinePrinted
  <1>1. QED
    BY ChapterSpecs, LinesArePrinted, PTL
=============================================================================
