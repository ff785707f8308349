--------------------------- MODULE SpinlockProofs ---------------------------
(***************************************************************************)
(* 06-Spinlock under preemption.  What can break mutual exclusion, and     *)
(* what cannot, for any number of plain tasks and any time slice; and that *)
(* lib_puts stays inside out_buf, for any buffer, text and number of ticks.*)
(***************************************************************************)
EXTENDS Spinlock, Printf, TLAPS

OsLocs6 == {"user_init", "trap_init", "timer_init", "back", "task_go"}

\* user_init has created every task before the first one runs, and whose stack is in
\* use goes with where control is.
SchedInv ==
    /\ IF pc6 = "user_init" THEN taskTop6 \in 0..(NTask6 - 1) ELSE taskTop6 = NTask6
    /\ pc6 \in OsLocs6 <=> task6 = OS6
    /\ pc6 \in {"user_init", "trap_init", "timer_init"} =>
            \A t \in Tasks6 : resume6[t] = "start"
    /\ pc6 \in {"wild", "halt"} => resume6[task6] = "wild"

\* Where each task can be, what is then in ra, and the return address k in its frame.
CounterAt(l, r, k) ==
    \/ l \in {"wild", "error"}
    \/ l = "start" /\ r = "start"
    \/ l = "print" /\ k = "for"
    \/ l = "for" /\ r \in {"for", "next"}
    \/ l = "acquire" /\ r = "inc"
    \/ l \in {"swap", "swapped", "test", "acquired"} /\ r = "test" /\ k = "inc"
    \/ l \in {"inc", "store", "leave"} /\ r = "inc"
    \/ l \in {"free", "freed", "pause"} /\ r = "pause"
    \/ l \in {"delay", "next"} /\ r = "next"

PrinterAt(l, r, k) ==
    \/ l = "wild"
    \/ l = "start" /\ r = "start"
    \/ l = "print" /\ k \in {"try", "take", "leave"}
    \/ l \in {"delay", "try"} /\ r = "try"
    \/ l = "take" /\ r = "take"
    \/ l = "acquire" /\ r = "got"
    \/ l \in {"swap", "swapped", "test", "acquired"} /\ r = "test" /\ k = "got"
    \/ l = "got" /\ r = "got"
    \/ l = "leave" /\ r = "leave"
    \/ l \in {"free", "freed", "pause"} /\ r = "pause"

PlainAt(l, r, k) ==
    \/ l = "wild"
    \/ l = "start" /\ r = "start"
    \/ l = "print" /\ k \in {"run", "wait"}
    \/ l \in {"delay", "run"} /\ r = "run"
    \/ l = "wait" /\ r = "wait"

At6(t, l, r, k) ==
    /\ t = Counter6 => CounterAt(l, r, k)
    /\ t = Printer6 => PrinterAt(l, r, k)
    /\ t \in Plain6 => PlainAt(l, r, k)

\* A suspended task goes on with its resume point in ra, too.
Runs6(t) == task6 = t /\ pc6 \in UserLocs6
ControlInv ==
    \A t \in Tasks6 : IF Runs6(t) THEN At6(t, pc6, ra6, link6[t])
                      ELSE At6(t, resume6[t], resume6[t], link6[t])

\* Task t has the lock: it is in its section, or on its way out of lock_acquire.
Holds(t, l, k, a0) ==
    \/ l \in {"acquired", "inc", "store", "got", "leave", "free"}
    \/ l \in {"swapped", "test"} /\ a0 = 0
    \/ t = Printer6 /\ l = "print" /\ k = "leave"
Owns(t) == IF Runs6(t) THEN Holds(t, pc6, link6[t], a0_6)
           ELSE Holds(t, resume6[t], link6[t], 1)

LockInv ==
    struck6 # "enter" =>
        /\ \A t \in Tasks6 : Owns(t) => locked = 1
        /\ ~(Owns(Counter6) /\ Owns(Printer6))

\* How often user_task2 has incremented shared_var when it is at l.
Counted(l) ==
    /\ l \in {"leave", "free"} => incs6 >= 1 /\ (incs6 > 1 => cut6)
    /\ l \in {"inc", "store"} => (incs6 > 0 => cut6)
    /\ l \notin {"inc", "store", "leave", "free", "freed", "pause"} => incs6 = 0 /\ ~cut6
CountInv == Counted(IF Runs6(Counter6) THEN pc6 ELSE resume6[Counter6])

LEMMA Roles ==
    /\ Counter6 \in Nat /\ Printer6 = Counter6 + 1 /\ Counter6 # Printer6
    /\ Counter6 \notin Plain6 /\ Printer6 \notin Plain6
    /\ Counter6 \in Tasks6 /\ Printer6 \in Tasks6 /\ OS6 \notin Tasks6
    /\ Tasks6 = 0..(NTask6 - 1) /\ NTask6 \in Nat \ {0} /\ 0 \in Tasks6
  BY RolesAssumption DEF Tasks6, OS6, NTask6

-----------------------------------------------------------------------------
(* Types                                                                    *)

LEMMA LockTypesInit == ASSUME Init6 PROVE TypeOK6 /\ SchedInv
  <1>1. 0 \in 0..NTask6 /\ 0 \in 0..Slice6 /\ 0 \in Tasks6
    BY Roles, Slice6Assumption
  <1>2. "start" \in UserLocs6 /\ "user_init" \in Locs6
    BY DEF Locs6, UserLocs6, KernelLocs6, TaskLocs6
  <1>3. TypeOK6
    <2>1. cut6 \in BOOLEAN BY DEF Init6
    <2>2. /\ pc6 \in Locs6 /\ ra6 \in UserLocs6 /\ task6 \in Tasks6 \cup {OS6}
          /\ resume6 \in [Tasks6 -> UserLocs6] /\ link6 \in [Tasks6 -> UserLocs6]
      BY <1>2 DEF Init6
    <2>3. QED BY <1>1, <2>1, <2>2 DEF Init6, TypeOK6
  <1>4. SchedInv BY Roles DEF Init6, SchedInv, OsLocs6
  <1>5. QED BY <1>3, <1>4

\* What every step of a task has in common.
LEMMA StepTypes ==
    ASSUME TypeOK6, SchedInv, NEW l \in UserLocs6, Step6(l),
           pc6' \in UserLocs6 \ {"wild"}, ra6' \in UserLocs6, a0_6' \in 0..1,
           link6' \in [Tasks6 -> UserLocs6], locked' \in 0..1,
           incs6' \in 0..2, cut6' \in BOOLEAN
    PROVE  TypeOK6' /\ SchedInv'
  <1>1. /\ UNCHANGED <<task6, resume6, irq6, current_task6, taskTop6, struck6>>
        /\ pc6 = l /\ slice6' \in 0..Slice6
    BY Slice6Assumption DEF Step6, sched6, TypeOK6
  <1>2. TypeOK6' BY <1>1 DEF TypeOK6, Locs6
  <1>3. l \notin OsLocs6 /\ pc6' \notin OsLocs6 \cup {"user_init", "trap_init", "timer_init",
                                                     "wild", "halt"} /\ l # "user_init"
    BY DEF UserLocs6, TaskLocs6, LockLocs, LibLocs6, OsLocs6
  <1>4. SchedInv' BY <1>1, <1>3 DEF SchedInv
  <1>5. QED BY <1>2, <1>4

LEMMA InUserCode ==
    ASSUME TypeOK6, SchedInv, pc6 \in UserLocs6
    PROVE  task6 \in Tasks6 /\ link6[task6] \in UserLocs6
  BY DEF TypeOK6, SchedInv, OsLocs6, UserLocs6, TaskLocs6, LockLocs, LibLocs6

\* At6 keeps a running task away from "wild".
LEMMA NotWild ==
    ASSUME TypeOK6, SchedInv, ControlInv, pc6 \in UserLocs6,
           NEW l \in UserLocs6, pc6 = l,
           l \in {"print", "delay", "acquired", "freed", "swapped"}
    PROVE  /\ l \in {"print", "acquired"} => link6[task6] # "wild"
           /\ l \in {"delay", "swapped", "freed"} => ra6 # "wild"
  <1>1. task6 \in Tasks6 /\ At6(task6, pc6, ra6, link6[task6])
    BY InUserCode DEF ControlInv, Runs6
  <1>2. task6 \in {Counter6, Printer6} \cup Plain6 BY <1>1 DEF Tasks6
  <1>3. QED BY <1>1, <1>2 DEF At6, CounterAt, PrinterAt, PlainAt

LEMMA LockTypesStep ==
    ASSUME TypeOK6, SchedInv, ControlInv, [Next6]_vars6
    PROVE  TypeOK6' /\ SchedInv'
  <1> DEFINE T == link6 \in [Tasks6 -> UserLocs6] /\ ra6 \in UserLocs6 /\ a0_6 \in 0..1
                  /\ locked \in 0..1 /\ incs6 \in 0..2 /\ cut6 \in BOOLEAN
  <1>0. T BY DEF TypeOK6
  <1>00. /\ \A l \in TaskLocs6 \cup LockLocs \cup LibLocs6 : l \in UserLocs6
         /\ \A k \in UserLocs6 : [link6 EXCEPT ![task6] = k] \in [Tasks6 -> UserLocs6]
    BY <1>0 DEF UserLocs6
  <1> USE DEF TaskLocs6, LockLocs, LibLocs6, NoLock, Goto6, Call6, Ret6, Link, Prints6
  <1>1. CASE Start6 BY <1>0, <1>00, <1>1, StepTypes DEF Start6
  <1>2. CASE PlainRun BY <1>0, <1>00, <1>2, StepTypes DEF PlainRun
  <1>3. CASE PlainWait BY <1>0, <1>00, <1>3, StepTypes DEF PlainWait
  <1>4. CASE CounterFor BY <1>0, <1>00, <1>4, StepTypes DEF CounterFor
  <1>5. CASE CounterLoad BY <1>0, <1>00, <1>5, StepTypes DEF CounterLoad
  <1>6. CASE CounterStore BY <1>0, <1>00, <1>6, StepTypes DEF CounterStore, Incremented
  <1>7. CASE CounterNext
    <2>1. pc6' \in {"for", "print"} /\ UNCHANGED <<ra6, a0_6>> /\ Step6("next")
          /\ UNCHANGED <<locked, incs6, cut6>> /\ link6' \in [Tasks6 -> UserLocs6]
      BY <1>0, <1>00, <1>7 DEF CounterNext
    <2>2. QED BY <1>0, <1>00, <2>1, StepTypes
  <1>8. CASE PrinterTry BY <1>0, <1>00, <1>8, StepTypes DEF PrinterTry
  <1>9. CASE PrinterTake BY <1>0, <1>00, <1>9, StepTypes DEF PrinterTake
  <1>10. CASE PrinterGot BY <1>0, <1>00, <1>10, StepTypes DEF PrinterGot
  <1>11. CASE Leave BY <1>0, <1>00, <1>11, StepTypes DEF Leave
  <1>12. CASE Pause
    <2>1. incs6' \in 0..2 /\ cut6' \in BOOLEAN
      <3>1. CASE task6 = Counter6
        <4>1. incs6' = 0 /\ cut6' = FALSE BY <1>12, <3>1 DEF Pause
        <4>2. cut6' \in BOOLEAN BY <4>1, Zenon
        <4>3. QED BY <4>1, <4>2
      <3>2. CASE task6 # Counter6 BY <1>0, <1>12, <3>2 DEF Pause
      <3>3. QED BY <3>1, <3>2
    <2>2. QED BY <1>0, <1>00, <1>12, <2>1, StepTypes DEF Pause
  <1>13. CASE AcquireEnter BY <1>0, <1>00, <1>13, StepTypes DEF AcquireEnter
  <1>14. CASE AtomicSwap BY <1>0, <1>00, <1>14, StepTypes DEF AtomicSwap, Swapped
  <1>15. CASE AtomicSwapReturn
    <2>1. ra6 # "wild" BY <1>00, <1>15, NotWild DEF AtomicSwapReturn, Step6
    <2>2. QED BY <1>0, <1>00, <1>15, <2>1, StepTypes DEF AtomicSwapReturn
  <1>16. CASE AcquireTest BY <1>0, <1>00, <1>16, StepTypes DEF AcquireTest
  <1>17. CASE AcquireReturn
    <2>1. link6[task6] \in UserLocs6 \ {"wild"}
      BY <1>00, <1>17, NotWild, InUserCode DEF AcquireReturn, Step6
    <2>2. QED BY <1>0, <1>00, <1>17, <2>1, StepTypes DEF AcquireReturn, RetLinked
  <1>18. CASE Free6 BY <1>0, <1>00, <1>18, StepTypes DEF Free6, Released
  <1>19. CASE FreeReturn
    <2>1. ra6 # "wild" BY <1>00, <1>19, NotWild DEF FreeReturn, Step6
    <2>2. QED BY <1>0, <1>00, <1>19, <2>1, StepTypes DEF FreeReturn
  <1>20. CASE LibPrint
    <2>1. link6[task6] \in UserLocs6 \ {"wild"}
      BY <1>00, <1>20, NotWild, InUserCode DEF LibPrint, Step6
    <2>2. QED BY <1>0, <1>00, <1>20, <2>1, StepTypes DEF LibPrint, RetLinked
  <1>21. CASE LibDelay
    <2>1. ra6 # "wild" BY <1>00, <1>21, NotWild DEF LibDelay, Step6
    <2>2. QED BY <1>0, <1>00, <1>21, <2>1, StepTypes DEF LibDelay
  <1>22. CASE LibError BY <1>0, <1>00, <1>22, StepTypes DEF LibError
  <1>23. CASE SyncException
    <2>1. TypeOK6'
      BY <1>23, Slice6Assumption
      DEF SyncException, Step6, sched6, TypeOK6, Locs6, KernelLocs6
    <2>2. SchedInv' BY <1>23 DEF SyncException, Step6, sched6, SchedInv, OsLocs6
    <2>3. QED BY <2>1, <2>2
  <1>24. CASE UserInit6
    <2>1. TypeOK6'
      BY <1>24, Roles
      DEF UserInit6, Boot6, hist6, SchedInv, TypeOK6, Locs6, KernelLocs6, UserLocs6
    <2>2. SchedInv'
      BY <1>24, Roles DEF UserInit6, Boot6, SchedInv, TypeOK6, OsLocs6
    <2>3. QED BY <2>1, <2>2
  <1>25. CASE TrapInit6
    BY <1>25 DEF TrapInit6, Boot6, hist6, SchedInv, OsLocs6, TypeOK6, Locs6, KernelLocs6
  <1>26. CASE TimerInit6
    BY <1>26 DEF TimerInit6, Boot6, hist6, SchedInv, OsLocs6, TypeOK6, Locs6, KernelLocs6
  <1>27. CASE TimerInterrupt6
    <2>1. ResumePoints \subseteq UserLocs6
      BY <1>0, <1>00 DEF ResumePoints
    <2>2. TypeOK6'
      BY <1>27, <2>1
      DEF TimerInterrupt6, sched6, Struck, TypeOK6, Locs6, KernelLocs6
    <2>3. SchedInv'
      BY <1>27 DEF TimerInterrupt6, sched6, SchedInv, OsLocs6, UserLocs6
    <2>4. QED BY <2>2, <2>3
  <1>28. CASE OsKernel6
    BY <1>28 DEF OsKernel6, Kernel6, hist6, SchedInv, OsLocs6, TypeOK6, Locs6, KernelLocs6
  <1>29. CASE Back6
    <2>1. current_task6' \in Tasks6
      BY <1>29, Roles DEF Back6, Kernel6, Next6Task, SchedInv, TypeOK6
    <2>2. QED
      BY <1>29, <2>1 DEF Back6, Kernel6, hist6, SchedInv, OsLocs6, TypeOK6, Locs6, KernelLocs6
  <1>30. CASE TaskGo6
    <2>1. resume6[current_task6] \in UserLocs6 BY DEF TypeOK6
    <2>2. TypeOK6'
      BY <1>30, <2>1, Slice6Assumption DEF TaskGo6, Kernel6, hist6, TypeOK6, Locs6
    <2>3. SchedInv'
      BY <1>30, <2>1, Roles
      DEF TaskGo6, Kernel6, SchedInv, TypeOK6, OsLocs6, UserLocs6
    <2>4. QED BY <2>2, <2>3
  <1>31. CASE UNCHANGED vars6
    BY <1>31 DEF vars6, sched6, hist6, TypeOK6, SchedInv
  <1>32. QED
    BY <1>1, <1>2, <1>3, <1>4, <1>5, <1>6, <1>7, <1>8, <1>9, <1>10, <1>11, <1>12, <1>13, <1>14,
       <1>15, <1>16, <1>17, <1>18, <1>19, <1>20, <1>21, <1>22, <1>23, <1>24, <1>25, <1>26,
       <1>27, <1>28, <1>29, <1>30, <1>31
    DEF Next6, TaskStep, LockStep, LibStep, KernelStep6, Halted

-----------------------------------------------------------------------------
(* A step of the task that runs                                             *)

\* What a step of a task has to get right: it leads to where the task can be, it
\* takes the lock only if it was free and gives it up only if it has it, and it
\* counts its increments.
StepOK ==
    LET t == task6 IN
    /\ pc6' \in UserLocs6
    /\ At6(t, pc6', ra6', link6'[t])
    /\ \A u \in Tasks6 \ {t} : link6'[u] = link6[u]
    /\ \/ locked' = locked /\ (Holds(t, pc6', link6'[t], a0_6') => Holds(t, pc6, link6[t], a0_6))
       \/ locked' = 1 /\ (locked = 1 => ~Holds(t, pc6', link6'[t], a0_6'))
       \/ Holds(t, pc6, link6[t], a0_6) /\ ~Holds(t, pc6', link6'[t], a0_6')
    /\ t = Counter6 => Counted(pc6)'
    /\ t # Counter6 => UNCHANGED <<incs6, cut6>>

LEMMA StepKeeps ==
    ASSUME TypeOK6, SchedInv, ControlInv, LockInv, CountInv,
           NEW l \in UserLocs6, Step6(l), StepOK
    PROVE  ControlInv' /\ LockInv' /\ CountInv'
  <1>1. /\ task6 \in Tasks6 /\ task6' = task6 /\ resume6' = resume6 /\ struck6' = struck6
        /\ pc6 \in UserLocs6 /\ pc6' \in UserLocs6
    BY InUserCode DEF Step6, StepOK
  <1>2. Runs6(task6) /\ Runs6(task6)' BY <1>1 DEF Runs6
  <1>3. \A u \in Tasks6 \ {task6} : ~Runs6(u) /\ ~Runs6(u)' BY <1>1 DEF Runs6
  <1>4. ControlInv'
    <2>1. At6(task6, pc6, ra6, link6[task6])' BY <1>1 DEF StepOK, At6
    <2>2. ASSUME NEW u \in Tasks6 \ {task6}
          PROVE  At6(u, resume6[u], resume6[u], link6[u])'
      BY <1>1, <1>3, <2>2 DEF ControlInv, StepOK, At6, CounterAt, PrinterAt, PlainAt
    <2>3. QED BY <1>1, <1>2, <1>3, <2>1, <2>2 DEF ControlInv
  <1>5. LockInv'
    <2>1. /\ Owns(task6) <=> Holds(task6, pc6, link6[task6], a0_6)
          /\ Owns(task6)' <=> Holds(task6, pc6', link6'[task6], a0_6')
      BY <1>1, <1>2 DEF Owns, Holds
    <2>2. \A u \in Tasks6 \ {task6} : Owns(u)' <=> Owns(u)
      BY <1>1, <1>3 DEF Owns, Holds, StepOK
    <2>3. SUFFICES ASSUME struck6 # "enter"
                   PROVE  /\ \A t \in Tasks6 : Owns(t)' => locked' = 1
                          /\ ~(Owns(Counter6)' /\ Owns(Printer6)')
      BY <1>1 DEF LockInv
    <2>4. \A t \in Tasks6 : Owns(t) => t \in {Counter6, Printer6}
      BY DEF Owns, Holds, ControlInv, At6, PlainAt, Tasks6
    <2>5. \A t, u \in Tasks6 : Owns(t) /\ Owns(u) => t = u
      BY <2>3, <2>4 DEF LockInv
    <2>6. \A t \in Tasks6 : Owns(t) => locked = 1 BY <2>3 DEF LockInv
    <2>7. CASE locked' = locked /\ (Owns(task6)' => Owns(task6))
      BY <1>1, <2>2, <2>5, <2>6, <2>7, Roles
    <2>8. CASE locked' = 1 /\ (locked = 1 => ~Owns(task6)')
      BY <1>1, <2>2, <2>5, <2>6, <2>8, Roles
    <2>9. CASE Owns(task6) /\ ~Owns(task6)'
      BY <1>1, <2>2, <2>5, <2>9, Roles
    <2>10. QED BY <2>1, <2>7, <2>8, <2>9 DEF StepOK
  <1>6. CountInv'
    <2>1. CASE task6 = Counter6 BY <1>1, <2>1 DEF CountInv, StepOK, Counted, Runs6
    <2>2. CASE task6 # Counter6
      BY <1>1, <1>3, <2>2, Roles DEF CountInv, StepOK, Counted
    <2>3. QED BY <2>1, <2>2
  <1>7. QED BY <1>4, <1>5, <1>6

\* Where the running task is, by its role.
LEMMA Running ==
    ASSUME TypeOK6, SchedInv, ControlInv, CountInv, pc6 \in UserLocs6
    PROVE  /\ task6 = Counter6 => CounterAt(pc6, ra6, link6[task6]) /\ Counted(pc6)
           /\ task6 = Printer6 => PrinterAt(pc6, ra6, link6[task6])
           /\ task6 \in Plain6 => PlainAt(pc6, ra6, link6[task6])
           /\ task6 \in Tasks6 /\ task6 \in Plain6 \cup {Counter6, Printer6}
  <1>1. task6 \in Tasks6 BY InUserCode
  <1>2. At6(task6, pc6, ra6, link6[task6]) BY <1>1 DEF ControlInv, Runs6
  <1>3. task6 = Counter6 => Counted(pc6) BY DEF CountInv, Runs6
  <1>4. QED BY <1>1, <1>2, <1>3 DEF At6, Tasks6

\* Outside the lock's functions and the sections.
LEMMA PlainStepOK ==
    ASSUME TypeOK6, SchedInv, ControlInv, CountInv,
           Start6 \/ PlainRun \/ PlainWait \/ CounterFor \/ CounterNext \/ PrinterTry
             \/ PrinterTake \/ LibDelay \/ LibError
    PROVE  StepOK
  <1> USE Roles, Running
      DEF UserLocs6, TaskLocs6, LockLocs, LibLocs6, StepOK, Step6, NoLock, Goto6, Call6, Link,
          Prints6, Ret6, At6, CounterAt, PrinterAt, PlainAt, Holds, Counted
  <1>0. link6 \in [Tasks6 -> UserLocs6] BY DEF TypeOK6
  <1>1. CASE Start6 BY <1>0, <1>1 DEF Start6
  <1>2. CASE PlainRun BY <1>0, <1>2 DEF PlainRun
  <1>3. CASE PlainWait BY <1>0, <1>3 DEF PlainWait
  <1>4. CASE CounterFor BY <1>0, <1>4 DEF CounterFor
  <1>5. CASE CounterNext BY <1>0, <1>5 DEF CounterNext
  <1>6. CASE PrinterTry BY <1>0, <1>6 DEF PrinterTry
  <1>7. CASE PrinterTake BY <1>0, <1>7 DEF PrinterTake
  <1>8. CASE LibDelay BY <1>0, <1>8 DEF LibDelay
  <1>9. CASE LibError BY <1>0, <1>9 DEF LibError
  <1>10. QED BY <1>1, <1>2, <1>3, <1>4, <1>5, <1>6, <1>7, <1>8, <1>9

\* In the sections, and out of them.
LEMMA SectionStepOK ==
    ASSUME TypeOK6, SchedInv, ControlInv, CountInv,
           CounterLoad \/ CounterStore \/ PrinterGot \/ Leave \/ Pause \/ LibPrint
    PROVE  StepOK
  <1> USE Roles, Running
      DEF UserLocs6, TaskLocs6, LockLocs, LibLocs6, StepOK, Step6, NoLock, Goto6, Call6, Link,
          Prints6, At6, CounterAt, PrinterAt, PlainAt, Holds, Counted
  <1>0. link6 \in [Tasks6 -> UserLocs6] /\ incs6 \in 0..2 BY DEF TypeOK6
  <1>1. CASE CounterLoad BY <1>0, <1>1 DEF CounterLoad
  <1>2. CASE CounterStore BY <1>0, <1>2 DEF CounterStore, Incremented
  <1>3. CASE PrinterGot BY <1>0, <1>3 DEF PrinterGot
  <1>4. CASE Leave BY <1>0, <1>4 DEF Leave
  <1>5. CASE Pause BY <1>0, <1>5 DEF Pause
  <1>6. CASE LibPrint BY <1>0, <1>6 DEF LibPrint, RetLinked
  <1>7. QED BY <1>1, <1>2, <1>3, <1>4, <1>5, <1>6

\* lock_acquire, atomic_swap and lock_free.
LEMMA LockStepOK ==
    ASSUME TypeOK6, SchedInv, ControlInv, CountInv, LockStep
    PROVE  StepOK
  <1> USE Roles, Running
      DEF UserLocs6, TaskLocs6, LockLocs, LibLocs6, StepOK, Step6, NoLock, Goto6, Call6, Link,
          Ret6, At6, CounterAt, PrinterAt, PlainAt, Holds, Counted
  <1>0. link6 \in [Tasks6 -> UserLocs6] /\ a0_6 \in 0..1 /\ locked \in 0..1 BY DEF TypeOK6
  <1>1. CASE AcquireEnter BY <1>0, <1>1 DEF AcquireEnter
  <1>2. CASE AtomicSwap BY <1>0, <1>2 DEF AtomicSwap, Swapped
  <1>3. CASE AtomicSwapReturn BY <1>0, <1>3 DEF AtomicSwapReturn
  <1>4. CASE AcquireTest BY <1>0, <1>4 DEF AcquireTest
  <1>5. CASE AcquireReturn BY <1>0, <1>5 DEF AcquireReturn, RetLinked
  <1>6. CASE Free6 BY <1>0, <1>6 DEF Free6, Released
  <1>7. CASE FreeReturn BY <1>0, <1>7 DEF FreeReturn
  <1>8. QED BY <1>1, <1>2, <1>3, <1>4, <1>5, <1>6, <1>7 DEF LockStep

-----------------------------------------------------------------------------
(* The kernel's steps                                                       *)

\* A step inside the kernel that leaves the tasks and the lock alone.
LEMMA KernelKeeps ==
    ASSUME TypeOK6, ControlInv, LockInv, CountInv,
           pc6 \notin UserLocs6, pc6' \notin UserLocs6,
           UNCHANGED <<resume6, link6, locked, incs6, cut6, struck6>>
    PROVE  ControlInv' /\ LockInv' /\ CountInv'
  <1>1. \A u : ~Runs6(u) /\ ~Runs6(u)' BY DEF Runs6
  <1>2. \A u : Owns(u)' <=> Owns(u) BY <1>1 DEF Owns, Holds
  <1>3. QED
    BY <1>1, <1>2
    DEF ControlInv, LockInv, CountInv, Counted, At6, CounterAt, PrinterAt, PlainAt

LEMMA BootKeeps ==
    ASSUME TypeOK6, SchedInv, UserInit6
    PROVE  ControlInv' /\ LockInv' /\ (CountInv => CountInv')
  <1>1. /\ pc6 \notin UserLocs6 /\ pc6' \notin UserLocs6
        /\ \A t \in Tasks6 : resume6[t] = "start" /\ resume6'[t] = "start"
        /\ UNCHANGED <<incs6, cut6>>
    BY DEF UserInit6, Boot6, hist6, SchedInv, TypeOK6, UserLocs6, TaskLocs6, LockLocs, LibLocs6
  <1>2. \A t \in Tasks6 : ~Owns(t)' BY <1>1 DEF Owns, Holds, Runs6
  <1>3. ControlInv' BY <1>1 DEF ControlInv, Runs6, At6, CounterAt, PrinterAt, PlainAt
  <1>4. LockInv' BY <1>2, Roles DEF LockInv
  <1>5. CountInv => CountInv' BY <1>1, Roles DEF CountInv, Runs6, Counted
  <1>6. QED BY <1>3, <1>4, <1>5

\* The preempted task goes on at its ra: that never makes it a holder of the lock,
\* except from lock_acquire before its call.
LEMMA InterruptKeeps ==
    ASSUME TypeOK6, SchedInv, ControlInv, LockInv, CountInv, TimerInterrupt6
    PROVE  ControlInv' /\ LockInv' /\ CountInv'
  <1>1. PICK r \in ResumePoints : resume6' = [resume6 EXCEPT ![task6] = r]
    BY DEF TimerInterrupt6
  <1>2. /\ pc6 \in UserLocs6 /\ pc6' \notin UserLocs6
        /\ UNCHANGED <<task6, link6, locked, incs6, a0_6>>
    BY DEF TimerInterrupt6, UserLocs6, TaskLocs6, LockLocs, LibLocs6
  <1>3. Runs6(task6) /\ (\A u \in Tasks6 \ {task6} : ~Runs6(u)) /\ \A u : ~Runs6(u)'
    BY <1>2 DEF Runs6
  <1>4. task6 \in Tasks6 /\ resume6'[task6] = r
        /\ \A u \in Tasks6 \ {task6} : resume6'[u] = resume6[u]
    BY <1>1, <1>2, InUserCode DEF TypeOK6
  <1>5. /\ At6(task6, r, r, link6[task6])
        /\ pc6 # "acquire" =>
            (Holds(task6, r, link6[task6], 1) => Holds(task6, pc6, link6[task6], a0_6))
    <2>1. \/ pc6 = "print" /\ (r \in {"print", "wild"} \/ (r = "error" /\ task6 = Counter6))
          \/ pc6 \in {"wild", "error"} /\ r = pc6
          \/ pc6 \notin {"print", "wild", "error"} /\ r = ra6
      BY <1>1 DEF ResumePoints
    <2>2. CASE task6 = Counter6
      BY <1>2, <2>1, <2>2, Running, Roles DEF At6, CounterAt, Holds
    <2>3. CASE task6 = Printer6
      BY <1>2, <2>1, <2>3, Running, Roles DEF At6, PrinterAt, Holds
    <2>4. CASE task6 \in Plain6
      BY <1>2, <2>1, <2>4, Running, Roles DEF At6, PlainAt, Holds
    <2>5. QED BY <1>2, <2>2, <2>3, <2>4, Running
  <1>6. ControlInv'
    BY <1>2, <1>3, <1>4, <1>5 DEF ControlInv, At6, CounterAt, PrinterAt, PlainAt
  <1>7. LockInv'
    <2>1. CASE pc6 = "acquire" \/ struck6 = "enter"
      BY <2>1 DEF TimerInterrupt6, Struck, LockInv
    <2>2. CASE pc6 # "acquire" /\ struck6 # "enter"
      <3>1. \A u \in Tasks6 : Owns(u)' => Owns(u)
        BY <1>2, <1>3, <1>4, <1>5, <2>2 DEF Owns, Holds
      <3>2. QED BY <1>2, <2>2, <3>1, Roles DEF LockInv
    <2>3. QED BY <2>1, <2>2
  <1>8. CountInv'
    <2>1. CASE task6 = Counter6
      <3>1. Counted(pc6) /\ CounterAt(pc6, ra6, link6[task6]) BY <1>2, <2>1, Running
      <3>2. /\ pc6 \in {"inc", "store", "leave"} => cut6'
            /\ pc6 \notin {"inc", "store", "leave"} => (cut6' <=> cut6)
        BY <2>1 DEF TimerInterrupt6
      <3>3. ASSUME pc6 \in {"inc", "store", "leave"} PROVE Counted(r)'
        <4>1. r = "inc" /\ cut6' BY <1>1, <3>1, <3>2, <3>3 DEF CounterAt, ResumePoints
        <4>2. QED BY <4>1 DEF Counted
      <3>4. ASSUME pc6 \notin {"inc", "store", "leave"} PROVE Counted(r)'
        <4>1. IF pc6 \in {"free", "freed", "pause"} THEN r = "pause"
              ELSE r \notin {"inc", "store", "leave", "free", "freed"}
                   \/ (r = "inc" /\ pc6 = "acquire")
          BY <1>1, <3>1, <3>4 DEF CounterAt, ResumePoints
        <4>2. r # "pause" => incs6' = 0 /\ ~cut6'
          BY <1>2, <3>1, <3>2, <3>4, <4>1 DEF Counted
        <4>3. QED BY <4>1, <4>2, <3>4 DEF Counted
      <3>5. Counted(r)' BY <3>3, <3>4
      <3>6. QED BY <1>3, <1>4, <2>1, <3>5 DEF CountInv, Counted
    <2>2. CASE task6 # Counter6
      BY <1>2, <1>3, <1>4, <2>2, Roles DEF TimerInterrupt6, CountInv, Counted
    <2>3. QED BY <2>1, <2>2
  <1>9. QED BY <1>6, <1>7, <1>8

\* The scheduler activates a task where it was suspended.
LEMMA TaskGoKeeps ==
    ASSUME TypeOK6, SchedInv, ControlInv, LockInv, CountInv, TaskGo6
    PROVE  ControlInv' /\ LockInv' /\ CountInv'
  <1>1. /\ pc6 \notin UserLocs6 /\ task6' = current_task6 /\ current_task6 \in Tasks6
        /\ pc6' = resume6[current_task6] /\ ra6' = resume6[current_task6] /\ a0_6' = 1
        /\ pc6' \in UserLocs6
        /\ UNCHANGED <<resume6, link6, locked, incs6, cut6, struck6>>
    BY DEF TaskGo6, Kernel6, hist6, TypeOK6, UserLocs6, TaskLocs6, LockLocs, LibLocs6
  <1>2. /\ \A u : ~Runs6(u)
        /\ \A u \in Tasks6 : Runs6(u)' <=> u = current_task6
    BY <1>1 DEF Runs6
  <1>3. ControlInv' BY <1>1, <1>2 DEF ControlInv, At6, CounterAt, PrinterAt, PlainAt
  <1>4. \A u \in Tasks6 : Owns(u)' <=> Owns(u) BY <1>1, <1>2 DEF Owns, Holds
  <1>5. LockInv' BY <1>1, <1>4, Roles DEF LockInv
  <1>6. CountInv' BY <1>1, <1>2, Roles DEF CountInv, Counted
  <1>7. QED BY <1>3, <1>5, <1>6

\* A task whose frame pointer is stale stops in trap_handler.
LEMMA ExceptionKeeps ==
    ASSUME TypeOK6, SchedInv, ControlInv, LockInv, CountInv, SyncException
    PROVE  ControlInv' /\ LockInv' /\ CountInv'
  <1>1. /\ pc6 = "wild" /\ pc6' = "halt" /\ resume6[task6] = "wild"
        /\ UNCHANGED <<task6, resume6, link6, locked, incs6, cut6, struck6>>
    BY DEF SyncException, Step6, Goto6, NoLock, SchedInv
  <1>2. pc6 \in UserLocs6 /\ pc6' \notin UserLocs6
    BY <1>1 DEF UserLocs6, TaskLocs6, LockLocs, LibLocs6
  <1>3. (\A u : ~Runs6(u)') /\ \A u : Runs6(u) <=> u = task6 BY <1>1, <1>2 DEF Runs6
  <1>4. ControlInv'
    BY <1>1, <1>3 DEF ControlInv, At6, CounterAt, PrinterAt, PlainAt
  <1>5. \A u \in Tasks6 : Owns(u)' <=> Owns(u)
    BY <1>1, <1>3 DEF Owns, Holds
  <1>6. LockInv' BY <1>1, <1>5, Roles DEF LockInv
  <1>7. CountInv' BY <1>1, <1>3, Roles DEF CountInv, Counted
  <1>8. QED BY <1>4, <1>6, <1>7

-----------------------------------------------------------------------------
(* The theorems                                                             *)

SpinlockInv == TypeOK6 /\ SchedInv /\ ControlInv /\ LockInv /\ CountInv

LEMMA SpinlockInit == ASSUME Init6 PROVE SpinlockInv
  <1>1. pc6 \notin UserLocs6 /\ \A t \in Tasks6 : resume6[t] = "start"
    BY DEF Init6, UserLocs6, TaskLocs6, LockLocs, LibLocs6
  <1>2. ControlInv BY <1>1 DEF ControlInv, Runs6, At6, CounterAt, PrinterAt, PlainAt
  <1>3. LockInv BY <1>1, Roles DEF LockInv, Owns, Holds, Runs6
  <1>4. CountInv BY <1>1, Roles DEF Init6, CountInv, Counted, Runs6
  <1>5. QED BY <1>2, <1>3, <1>4, LockTypesInit DEF SpinlockInv

LEMMA SpinlockStep == ASSUME SpinlockInv, [Next6]_vars6 PROVE SpinlockInv'
  <1> USE DEF SpinlockInv
  <1>0. TypeOK6' /\ SchedInv' BY LockTypesStep
  <1>1. CASE TaskStep \/ LockStep \/ LibPrint \/ LibDelay \/ LibError
    <2>1. StepOK BY <1>1, PlainStepOK, SectionStepOK, LockStepOK DEF TaskStep
    <2>2. pc6 \in UserLocs6 /\ Step6(pc6)
      BY <1>1
      DEF TaskStep, LockStep, UserLocs6, TaskLocs6, LockLocs, LibLocs6, Step6,
          Start6, PlainRun, PlainWait, CounterFor, CounterLoad, CounterStore, CounterNext,
          PrinterTry, PrinterTake, PrinterGot, Leave, Pause, AcquireEnter, AtomicSwap,
          AtomicSwapReturn, AcquireTest, AcquireReturn, Free6, FreeReturn,
          LibPrint, LibDelay, LibError
    <2>3. QED BY <1>0, <2>1, <2>2, StepKeeps
  <1>2. CASE SyncException BY <1>0, <1>2, ExceptionKeeps
  <1>3. CASE UserInit6 BY <1>0, <1>3, BootKeeps
  <1>4. CASE TimerInterrupt6 BY <1>0, <1>4, InterruptKeeps
  <1>5. CASE TaskGo6 BY <1>0, <1>5, TaskGoKeeps
  <1>6. CASE TrapInit6 \/ TimerInit6 \/ OsKernel6 \/ Back6
    <2>1. /\ pc6 \notin UserLocs6 /\ pc6' \notin UserLocs6
          /\ UNCHANGED <<resume6, link6, locked, incs6, cut6, struck6>>
      BY <1>6
      DEF TrapInit6, TimerInit6, OsKernel6, Back6, Boot6, Kernel6, hist6, UserLocs6, TaskLocs6,
          LockLocs, LibLocs6
    <2>2. QED BY <1>0, <2>1, KernelKeeps
  <1>7. CASE UNCHANGED vars6
    BY <1>0, <1>7
    DEF vars6, sched6, hist6, ControlInv, LockInv, CountInv, Counted, Owns, Holds, Runs6, At6,
        CounterAt, PrinterAt, PlainAt
  <1>8. QED
    BY <1>1, <1>2, <1>3, <1>4, <1>5, <1>6, <1>7
    DEF Next6, LibStep, KernelStep6, Halted

\* Who is in its section has the lock, by the invariant.
LEMMA SectionOwned ==
    ASSUME SpinlockInv, NEW t \in {Counter6, Printer6}, InSection(t)
    PROVE  Owns(t)
  BY DEF InSection, Where6, Owns, Holds, Runs6

\* The variables keep their types: in particular control never leaves the code.
THEOREM SpinlockTyped == Spec6 => []TypeOK6
  BY SpinlockInit, SpinlockStep, PTL DEF Spec6, SpinlockInv

\* Mutual exclusion is lost in no other way than by a preemption of lock_acquire before
\* its call of atomic_swap, for any number of tasks and any time slice.
THEOREM OnlyEntryBreaksIt == Spec6 => []OnlyEntryBreaksLock
  <1>1. SpinlockInv => OnlyEntryBreaksLock
    BY SectionOwned DEF SpinlockInv, LockInv, OnlyEntryBreaksLock, MutualExclusion
  <1>2. QED BY <1>1, SpinlockInit, SpinlockStep, PTL DEF Spec6

\* user_task2's increments are counted: at least one each time, one if undisturbed.
THEOREM SectionsCounted == Spec6 => []SectionCounts
  <1>1. SpinlockInv => SectionCounts
    BY DEF SpinlockInv, CountInv, Counted, SectionCounts, Runs6, UserLocs6, LockLocs
  <1>2. QED BY <1>1, SpinlockInit, SpinlockStep, PTL DEF Spec6

-----------------------------------------------------------------------------
(* Printf: lib_printf and the timer handler in one buffer                   *)

\* The limit that the measured length has been checked against.
LimitInv ==
    /\ resF \in Nat \cup {CtxOs}
    /\ pcF = "write" => resF \in Nat /\ resF + 1 < OutSize

InvF == TypeOKF /\ LimitInv /\ PutsStaysInside

CutAt(text, n) == IF Len(text) < n THEN Len(text) ELSE n - 1

\* What is written is the text, cut before the end of the buffer, and a 0; what lies
\* behind that 0 stays.
LEMMA WrittenEnds ==
    ASSUME NEW buf, DOMAIN buf = 0..(OutSize - 1), NEW text \in Seq(Int),
           NEW n \in 1..OutSize
    PROVE  /\ DOMAIN WrittenTo(buf, text, n) = 0..(OutSize - 1)
           /\ \E k \in 0..(n - 1) :
                /\ k = CutAt(text, n) /\ k <= Len(text)
                /\ \A i \in 0..(k - 1) : WrittenTo(buf, text, n)[i] = text[i + 1]
                /\ WrittenTo(buf, text, n)[k] = 0
                /\ \A i \in (k + 1)..(OutSize - 1) : WrittenTo(buf, text, n)[i] = buf[i]
  <1> DEFINE k == CutAt(text, n)
             new == [i \in DOMAIN buf |-> IF i < k THEN text[i + 1]
                                          ELSE IF i = k THEN 0 ELSE buf[i]]
  <1>1. k \in 0..(n - 1) /\ OutSize \in Nat /\ k <= Len(text)
    BY PrintfAssumption DEF CutAt
  <1>2. WrittenTo(buf, text, n) = new
    BY DEF WrittenTo, CutAt
  <1>3. k = CutAt(text, n)
    OBVIOUS
  <1> HIDE DEF k
  <1>4. DOMAIN new = 0..(OutSize - 1) /\ new[k] = 0
    BY <1>1
  <1>5. \A i \in 0..(k - 1) : new[i] = text[i + 1]
    BY <1>1
  <1>6. \A i \in (k + 1)..(OutSize - 1) : new[i] = buf[i]
    BY <1>1
  <1>7. QED
    BY <1>1, <1>2, <1>3, <1>4, <1>5, <1>6

LEMMA PrintfInit == InitF => InvF
  <1> SUFFICES ASSUME InitF PROVE InvF
    OBVIOUS
  <1>1. OutSize \in Nat \ {0} /\ Ticks \in Nat
    BY PrintfAssumption
  <1>2. TypeOKF
    <2>1. DOMAIN out_buf = 0..(OutSize - 1) 
      BY DEF InitF
    <2>2. pcF = "call" /\ callF \in Calls /\ resF = 0 /\ s = 0 /\ ticks = 0 /\ cutF = FALSE
      BY DEF InitF
    <2>3. 0 \in 0..(OutSize - 1) /\ 0 \in 0..Ticks /\ 0 \in Int
      BY <1>1
    <2>4. pcF \in LocsF /\ cutF \in BOOLEAN
      BY <2>2 DEF LocsF
    <2>5. QED
      BY <2>1, <2>2, <2>3, <2>4, Zenon DEF TypeOKF
  <1>3. LimitInv /\ PutsStaysInside
    BY DEF InitF, LimitInv, PutsStaysInside
  <1>4. QED
    BY <1>2, <1>3 DEF InvF

\* The steps that write nothing.
LEMMA PrintfQuiet ==
    ASSUME InvF, CallPrintf \/ Measure \/ Check \/ OverflowLoop \/ Putc \/ ReturnPrintf \/ WildF
    PROVE  InvF'
  <1> USE DEF InvF
  <1>1. /\ UNCHANGED <<callF, out_buf, s, ticks>> /\ pcF' \in LocsF /\ cutF' \in BOOLEAN
        /\ pcF' \in {"puts", "putc", "return"} => pcF \in {"puts", "putc", "return"}
    BY DEF CallPrintf, Measure, Check, OverflowLoop, Putc, ReturnPrintf, WildF, StepF, LocsF, TypeOKF
  <1>2. LimitInv'
    <2>1. CASE Measure
      <3>1. Vsnprintf(FALSE, 0, FmtOf(callF), ArgsOf(callF)) \in Seq(Int)
        <4>1. callF \in Calls /\ 0 \in 0..OutSize /\ ~(0 > 0)
          BY PrintfAssumption DEF TypeOKF
        <4>2. Vsnprintf(0 > 0, 0, FmtOf(callF), ArgsOf(callF)) \in Seq(Int)
          BY <4>1, LinesAssumption
        <4>3. (0 > 0) = FALSE
          BY <4>1
        <4>4. QED
          BY <4>2, <4>3
      <3>2. resF' \in Nat
        <4>1. PICK text \in Seq(Int) : text = Vsnprintf(FALSE, 0, FmtOf(callF), ArgsOf(callF))
          BY <3>1
        <4>2. Len(text) \in Nat
          OBVIOUS
        <4>3. QED
          BY <2>1, <4>1, <4>2, Zenon DEF Measure
      <3>3. QED
        BY <2>1, <3>2 DEF Measure, StepF, LimitInv
    <2>2. CASE Check
      BY <2>2, PrintfAssumption DEF Check, Overflows, CtxOs, LimitInv
    <2>3. CASE CallPrintf \/ OverflowLoop \/ Putc \/ ReturnPrintf \/ WildF
      BY <2>3 DEF CallPrintf, OverflowLoop, Putc, ReturnPrintf, WildF, StepF, LimitInv
    <2>4. QED
      BY <2>1, <2>2, <2>3
  <1>3. TypeOKF'
    BY <1>1, <1>2 DEF TypeOKF, LimitInv, CtxOs
  <1>4. PutsStaysInside'
    BY <1>1 DEF PutsStaysInside
  <1>5. QED
    BY <1>2, <1>3, <1>4

LEMMA PrintfWrite == ASSUME InvF, Write PROVE InvF'
  <1> USE DEF InvF
  <1> DEFINE text == Vsnprintf(TRUE, resF + 1, FmtOf(callF), ArgsOf(callF))
  <1>1. /\ pcF = "write" /\ pcF' = "puts" /\ s' = 0 /\ out_buf' = WrittenTo(out_buf, text, resF + 1)
        /\ UNCHANGED <<callF, ticks, resF, shown, cutF>>
    BY DEF Write, StepF
  <1>2. resF + 1 \in 1..OutSize /\ OutSize \in Nat \ {0}
    BY <1>1, PrintfAssumption DEF LimitInv
  <1>3. text \in Seq(Int)
    <2>1. resF + 1 \in 0..OutSize /\ (resF + 1 > 0) = TRUE /\ callF \in Calls
      BY <1>2 DEF TypeOKF
    <2>2. Vsnprintf(resF + 1 > 0, resF + 1, FmtOf(callF), ArgsOf(callF)) \in Seq(Int)
      BY <2>1, LinesAssumption
    <2>3. QED
      BY <2>1, <2>2
  <1> HIDE DEF text
  <1>4. /\ DOMAIN out_buf' = 0..(OutSize - 1)
        /\ \E k \in 0..resF : out_buf'[k] = 0
    <2>1. PICK buf, n : buf = out_buf /\ n = resF + 1 /\ n \in 1..OutSize
      BY <1>2
    <2>2. DOMAIN buf = 0..(OutSize - 1)
      BY <2>1 DEF TypeOKF
    <2>3. /\ DOMAIN WrittenTo(buf, text, n) = 0..(OutSize - 1)
          /\ \E k \in 0..(n - 1) : WrittenTo(buf, text, n)[k] = 0
      BY <1>3, <2>1, <2>2, WrittenEnds
    <2>4. out_buf' = WrittenTo(buf, text, n) /\ 0..(n - 1) = 0..resF
      BY <1>1, <1>2, <2>1 DEF LimitInv
    <2>5. QED
      BY <2>3, <2>4
  <1>5. PutsStaysInside'
    <2>1. PICK k \in 0..resF : out_buf'[k] = 0
      BY <1>4
    <2>2. k \in s'..(OutSize - 1)
      BY <1>1, <1>2, <2>1 DEF LimitInv
    <2>3. QED
      BY <1>1, <2>1, <2>2 DEF PutsStaysInside
  <1>6. TypeOKF' /\ LimitInv'
    BY <1>1, <1>2, <1>4 DEF TypeOKF, LimitInv, LocsF
  <1>7. QED
    BY <1>5, <1>6

\* lib_puts goes on while it has not found the 0, which is still ahead.
LEMMA PrintfTest == ASSUME InvF, PutsTest PROVE InvF'
  <1> USE DEF InvF
  <1>1. /\ pcF = "puts" /\ UNCHANGED <<callF, ticks, resF, out_buf, cutF>>
        /\ \/ pcF' = "return" /\ s' = s
           \/ pcF' = "putc" /\ s' = s + 1 /\ out_buf[s] # 0
    BY DEF PutsTest, StepF
  <1>2. PICK k \in s..(OutSize - 1) : out_buf[k] = 0
    BY <1>1 DEF PutsStaysInside
  <1>3. s \in Nat /\ OutSize \in Nat /\ s <= OutSize - 1
    BY PrintfAssumption DEF TypeOKF
  <1>4. k \in s'..(OutSize - 1) /\ s' \in 0..(OutSize - 1)
    BY <1>1, <1>2, <1>3
  <1>5. QED
    BY <1>1, <1>2, <1>4 DEF TypeOKF, LimitInv, PutsStaysInside, LocsF

\* The handler writes its 0 at the end of its line: ahead of lib_puts, or behind it,
\* and then the 0 that lib_puts looks for is still there.
LEMMA PrintfPreempted == ASSUME InvF, Preempted PROVE InvF'
  <1> USE DEF InvF
  <1> DEFINE line == HandlerLine(ticks')
             n == Len(HandlerLine(ticks')) + 1
  <1>1. /\ ticks' \in 1..Ticks /\ out_buf' = WrittenTo(out_buf, line, n)
        /\ callF' = callF /\ cutF' = TRUE
        /\ s' = (IF pcF = "write" THEN 0 ELSE s)
        /\ resF' = (IF pcF \in {"measure", "check"} THEN CtxOs ELSE resF)
    BY PrintfAssumption DEF Preempted, Handler, TypeOKF
  <1>2. /\ line \in Seq(Int) /\ n \in 1..OutSize /\ OutSize \in Nat \ {0}
    BY <1>1, LinesAssumption, PrintfAssumption
  <1>3. /\ pcF' \in LocsF /\ (pcF' = "write" => pcF = "write")
        /\ pcF' \in {"puts", "putc", "return"} => pcF \in {"write", "puts", "putc", "return"}
    BY DEF Preempted, ResumeF, TypeOKF, LocsF
  <1> HIDE DEF line, n
  <1>4. PICK k \in 0..(n - 1) :
            /\ DOMAIN out_buf' = 0..(OutSize - 1) /\ out_buf'[k] = 0
            /\ \A i \in (k + 1)..(OutSize - 1) : out_buf'[i] = out_buf[i]
    <2>1. PICK buf, text, m : buf = out_buf /\ text = line /\ m = n
      OBVIOUS
    <2>2. DOMAIN buf = 0..(OutSize - 1) /\ text \in Seq(Int) /\ m \in 1..OutSize
      BY <1>2, <2>1 DEF TypeOKF
    <2>3. PICK k \in 0..(m - 1) :
            /\ DOMAIN WrittenTo(buf, text, m) = 0..(OutSize - 1)
            /\ WrittenTo(buf, text, m)[k] = 0
            /\ \A i \in (k + 1)..(OutSize - 1) : WrittenTo(buf, text, m)[i] = buf[i]
      BY <2>2, WrittenEnds
    <2>4. out_buf' = WrittenTo(buf, text, m)
      BY <1>1, <2>1
    <2>5. QED
      BY <2>1, <2>3, <2>4
  <1>5. PutsStaysInside'
    <2> SUFFICES ASSUME pcF' \in {"puts", "putc", "return"}
                 PROVE  \E j \in s'..(OutSize - 1) : out_buf'[j] = 0
      BY DEF PutsStaysInside
    <2>1. s' \in 0..(OutSize - 1) /\ k \in 0..(OutSize - 1)
      BY <1>1, <1>2, <1>4 DEF TypeOKF
    <2>2. CASE s' <= k
      BY <1>2, <1>4, <2>1, <2>2
    <2>3. CASE s' > k
      <3>1. pcF \in {"puts", "putc", "return"} /\ s' = s
        BY <1>1, <1>3, <1>4, <2>3
      <3>2. PICK j \in s..(OutSize - 1) : out_buf[j] = 0
        BY <3>1 DEF PutsStaysInside
      <3>3. j \in (k + 1)..(OutSize - 1)
        BY <1>2, <2>1, <2>3, <3>1, <3>2
      <3>4. QED
        BY <1>4, <3>1, <3>2, <3>3
    <2>4. QED
      BY <1>2, <2>1, <2>2, <2>3
  <1>6. TypeOKF' /\ LimitInv'
    <2>1. s' \in 0..(OutSize - 1) /\ ticks' \in 0..Ticks
      BY <1>1, <1>2, PrintfAssumption DEF TypeOKF
    <2>2. LimitInv'
      BY <1>1, <1>3 DEF LimitInv, CtxOs
    <2>3. QED
      BY <1>1, <1>3, <1>4, <2>1, <2>2 DEF TypeOKF, LimitInv, CtxOs
  <1>7. QED
    BY <1>5, <1>6

LEMMA PrintfStep == InvF /\ [NextF]_varsF => InvF'
  <1> SUFFICES ASSUME InvF, [NextF]_varsF PROVE InvF'
    OBVIOUS
  <1>1. CASE UNCHANGED varsF
    BY <1>1 DEF varsF, InvF, TypeOKF, LimitInv, PutsStaysInside
  <1>2. CASE Write
    BY <1>2, PrintfWrite
  <1>3. CASE PutsTest
    BY <1>3, PrintfTest
  <1>4. CASE Preempted
    BY <1>4, PrintfPreempted
  <1>5. QED
    BY <1>1, <1>2, <1>3, <1>4, PrintfQuiet DEF NextF

THEOREM PrintfTypes == SpecF => []TypeOKF
  <1>1. InvF => TypeOKF
    BY DEF InvF
  <1>2. QED BY <1>1, PrintfInit, PrintfStep, PTL DEF SpecF

\* lib_puts finds the end of its line inside out_buf, whatever the timer's lines have
\* done to it: for every size of the buffer and every line that fits into it.
THEOREM PutsInside == SpecF => []PutsStaysInside
  <1>1. InvF => PutsStaysInside
    BY DEF InvF
  <1>2. QED BY <1>1, PrintfInit, PrintfStep, PTL DEF SpecF

-----------------------------------------------------------------------------
(* What an undisturbed lib_printf prints                                    *)

\* What the first pass measures, and the text that the second one writes.
Measured(c) == Len(Vsnprintf(FALSE, 0, FmtOf(c), ArgsOf(c)))
LineOf(c) == Vsnprintf(TRUE, Measured(c) + 1, FmtOf(c), ArgsOf(c))
LineCut(c) == CutAt(LineOf(c), Measured(c) + 1)

\* The first k characters of the line have been printed, and none of them is a 0.
Printed(k) ==
    /\ shown \in Seq(Int) /\ Len(shown) = k
    /\ \A i \in 1..k : shown[i] = LineOf(callF)[i]
Passed(k) == k <= LineCut(callF) /\ \A i \in 1..k : LineOf(callF)[i] # 0

\* The line is in out_buf.
Buffered ==
    /\ Measured(callF) + 1 < OutSize
    /\ \A i \in 0..(LineCut(callF) - 1) : out_buf[i] = LineOf(callF)[i + 1]
    /\ out_buf[LineCut(callF)] = 0

LineInv ==
    ~cutF =>
        /\ pcF \in {"check", "write", "overflow"} => resF = Measured(callF)
        /\ pcF = "overflow" => Overflows(resF)
        /\ pcF \in {"measure", "check", "write"} => Printed(0)
        /\ pcF \in {"puts", "putc", "return"} => Buffered /\ Passed(s)
        /\ pcF \in {"puts", "return"} => Printed(s)
        /\ pcF = "putc" => s > 0 /\ Printed(s - 1)
        /\ pcF = "return" => out_buf[s] = 0

\* What a call has printed when it returns: the line, up to its end, to where the
\* measured length cuts it, or to a 0 in it.
LineShown ==
    pcF = "return" /\ ~cutF =>
        \E k \in 0..LineCut(callF) :
            /\ Printed(k) /\ Passed(k)
            /\ k = LineCut(callF) \/ LineOf(callF)[k + 1] = 0

\* What lib_vsnprintf makes of the calls, without any machine that prints it: the two
\* passes agree, and each piece of the line is spelled as it should be.
FormatsExact ==
    \A c \in Calls :
        /\ Measured(c) + 1 < OutSize /\ Exact(c) =>
              /\ Len(LineOf(c)) = Measured(c)
              /\ \A i \in 1..Measured(c) : LineOf(c)[i] # 0
              /\ \E k \in 0..Measured(c) :
                    /\ Spells(SubSeq(LineOf(c), 1, k), c[1])
                    /\ Spells(SubSeq(LineOf(c), k + 1, Measured(c)), c[2])
        /\ Measured(c) + 1 >= OutSize =>
              Len(Vsnprintf(TRUE, OutSize, FmtOf(c), ArgsOf(c))) + 1 >= OutSize

LEMMA MeasuredType == ASSUME callF \in Calls PROVE Measured(callF) \in Nat
  <1>1. Vsnprintf(FALSE, 0, FmtOf(callF), ArgsOf(callF)) \in Seq(Int)
    <2>1. 0 \in 0..OutSize /\ (0 > 0) = FALSE
      BY PrintfAssumption
    <2>2. Vsnprintf(0 > 0, 0, FmtOf(callF), ArgsOf(callF)) \in Seq(Int)
      BY <2>1, LinesAssumption
    <2>3. QED
      BY <2>1, <2>2
  <1>2. PICK text \in Seq(Int) : text = Vsnprintf(FALSE, 0, FmtOf(callF), ArgsOf(callF))
    BY <1>1
  <1>3. Len(text) \in Nat
    OBVIOUS
  <1>4. QED
    BY <1>2, <1>3, Zenon DEF Measured

LEMMA LineFacts ==
    ASSUME callF \in Calls, Measured(callF) + 1 < OutSize
    PROVE  /\ Measured(callF) \in Nat /\ LineOf(callF) \in Seq(Int)
           /\ LineCut(callF) \in 0..Measured(callF) /\ LineCut(callF) <= Len(LineOf(callF))
  <1>1. PICK m : m = Measured(callF)
    OBVIOUS
  <1>2. m \in Nat
    BY <1>1, MeasuredType
  <1>3. PICK text : text = LineOf(callF)
    OBVIOUS
  <1>4. text \in Seq(Int)
    <2>1. m + 1 \in 0..OutSize /\ (m + 1 > 0) = TRUE
      BY <1>1, <1>2, PrintfAssumption
    <2>2. Vsnprintf(m + 1 > 0, m + 1, FmtOf(callF), ArgsOf(callF)) \in Seq(Int)
      BY <2>1, LinesAssumption
    <2>3. QED
      BY <1>1, <1>3, <2>1, <2>2 DEF LineOf
  <1>5. CutAt(text, m + 1) \in 0..m /\ CutAt(text, m + 1) <= Len(text)
    BY <1>2, <1>4 DEF CutAt
  <1>6. QED
    BY <1>1, <1>2, <1>3, <1>4, <1>5 DEF LineCut

LEMMA LineInit == InitF => LineInv
  BY DEF InitF, LineInv

\* The steps before the line is in out_buf.
LEMMA LineBefore ==
    ASSUME InvF, LineInv, CallPrintf \/ Measure \/ Check \/ OverflowLoop
    PROVE  LineInv'
  <1> USE DEF StepF
  <1>1. CASE CallPrintf
    BY <1>1 DEF CallPrintf, LineInv, Printed
  <1>2. CASE Measure
    BY <1>2 DEF Measure, LineInv, Printed, Measured
  <1>3. CASE Check
    <2>1. Measured(callF)' = Measured(callF)
      BY <1>3 DEF Check, Measured
    <2>2. QED
      BY <1>3, <2>1 DEF Check, LineInv, Printed, Overflows
  <1>4. CASE OverflowLoop
    <2>1. Measured(callF)' = Measured(callF)
      BY <1>4 DEF OverflowLoop, Measured
    <2>2. QED
      BY <1>4, <2>1 DEF OverflowLoop, LineInv, Overflows
  <1>5. QED
    BY <1>1, <1>2, <1>3, <1>4

LEMMA LineWritten == ASSUME InvF, LineInv, Write PROVE LineInv'
  <1> SUFFICES ASSUME ~cutF' PROVE LineInv'
    BY DEF LineInv
  <1>1. PICK line, m, cut, buf :
            line = LineOf(callF) /\ m = Measured(callF) /\ cut = LineCut(callF) /\ buf = out_buf
    OBVIOUS
  <1>2. /\ pcF = "write" /\ pcF' = "puts" /\ s' = 0 /\ ~cutF /\ resF = m
        /\ UNCHANGED <<callF, resF, shown, cutF>> /\ Printed(0)
    BY <1>1 DEF Write, StepF, LineInv
  <1>3. m + 1 < OutSize /\ callF \in Calls
    BY <1>2 DEF InvF, LimitInv, TypeOKF
  <1>4. m \in Nat /\ line \in Seq(Int) /\ cut \in 0..m /\ cut <= Len(line) /\ m + 1 \in 1..OutSize
    BY <1>1, <1>3, LineFacts, PrintfAssumption
  <1>5. out_buf' = WrittenTo(buf, line, m + 1)
    BY <1>1, <1>2 DEF Write, LineOf
  <1>6. DOMAIN buf = 0..(OutSize - 1)
    BY <1>1 DEF InvF, TypeOKF
  <1>7. cut = CutAt(line, m + 1)
    BY <1>1 DEF LineCut
  <1>8. /\ \A i \in 0..(cut - 1) : out_buf'[i] = line[i + 1]
        /\ out_buf'[cut] = 0
    BY <1>4, <1>5, <1>6, <1>7, WrittenEnds
  <1>9. LineOf(callF)' = line /\ Measured(callF)' = m /\ LineCut(callF)' = cut
    BY <1>1, <1>2 DEF LineOf, Measured, LineCut
  <1>10. Buffered'
    BY <1>3, <1>8, <1>9 DEF Buffered
  <1>11. Passed(s)'
    BY <1>2, <1>4, <1>9 DEF Passed
  <1>12. Printed(s)'
    BY <1>2, <1>9 DEF Printed
  <1>13. QED
    BY <1>2, <1>10, <1>11, <1>12 DEF LineInv

LEMMA LinePuts == ASSUME InvF, LineInv, PutsTest \/ Putc PROVE LineInv'
  <1> SUFFICES ASSUME ~cutF' PROVE LineInv'
    BY DEF LineInv
  <1>1. PICK line, m, cut :
            line = LineOf(callF) /\ m = Measured(callF) /\ cut = LineCut(callF)
    OBVIOUS
  <1>2. pcF \in {"puts", "putc"} /\ ~cutF /\ UNCHANGED <<callF, resF, out_buf, cutF>>
    BY DEF PutsTest, Putc, StepF
  <1>3. Buffered /\ Passed(s) /\ s \in Nat /\ callF \in Calls
    BY <1>2, PrintfAssumption DEF LineInv, InvF, TypeOKF
  <1>4. m \in Nat /\ line \in Seq(Int) /\ cut \in 0..m /\ cut <= Len(line)
    BY <1>1, <1>3, LineFacts DEF Buffered
  <1>5. /\ \A i \in 0..(cut - 1) : out_buf[i] = line[i + 1]
        /\ out_buf[cut] = 0 /\ s <= cut /\ \A i \in 1..s : line[i] # 0
    BY <1>1, <1>3 DEF Buffered, Passed
  <1>6. LineOf(callF)' = line /\ Measured(callF)' = m /\ LineCut(callF)' = cut
    BY <1>1, <1>2 DEF LineOf, Measured, LineCut
  <1>7. Buffered'
    BY <1>1, <1>2, <1>3, <1>6 DEF Buffered
  <1>8. CASE PutsTest /\ out_buf[s] = 0
    <2>1. pcF' = "return" /\ s' = s /\ shown' = shown /\ Printed(s)
      BY <1>2, <1>8 DEF PutsTest, StepF, LineInv
    <2>2. Passed(s)'
      BY <1>5, <1>6, <2>1 DEF Passed
    <2>3. Printed(s)'
      BY <1>1, <1>6, <2>1 DEF Printed
    <2>4. QED
      BY <1>2, <1>7, <1>8, <2>1, <2>2, <2>3 DEF LineInv
  <1>9. CASE PutsTest /\ out_buf[s] # 0
    <2>1. pcF' = "putc" /\ s' = s + 1 /\ shown' = shown /\ Printed(s)
      BY <1>2, <1>9 DEF PutsTest, StepF, LineInv
    <2>2. s # cut
      BY <1>5, <1>9
    <2>3. s \in 0..(cut - 1)
      BY <1>3, <1>4, <1>5, <2>2
    <2>4. line[s + 1] # 0
      BY <1>5, <1>9, <2>3
    <2>5. s + 1 <= cut /\ \A i \in 1..(s + 1) : line[i] # 0
      <3>1. s + 1 <= cut
        BY <1>3, <1>4, <2>3
      <3>2. ASSUME NEW i \in 1..(s + 1) PROVE line[i] # 0
        <4>1. i = s + 1 \/ i \in 1..s
          BY <1>3
        <4>2. QED
          BY <1>5, <2>4, <4>1
      <3>3. QED
        BY <3>1, <3>2
    <2>6. Passed(s)'
      BY <1>6, <2>1, <2>5 DEF Passed
    <2>7. Printed(s - 1)'
      <3>1. s' - 1 = s
        BY <1>3, <2>1
      <3>2. QED
        BY <1>1, <1>6, <2>1, <3>1 DEF Printed
    <2>8. s' > 0
      BY <1>3, <2>1
    <2>9. QED
      BY <1>7, <2>1, <2>6, <2>7, <2>8 DEF LineInv
  <1>10. CASE Putc
    <2>1. /\ pcF' = "puts" /\ s' = s /\ shown' = Append(shown, out_buf[s - 1])
          /\ s > 0 /\ Printed(s - 1)
      BY <1>2, <1>10 DEF Putc, StepF, LineInv
    <2>2. s - 1 \in 0..(cut - 1) /\ s \in 1..Len(line)
      BY <1>3, <1>4, <1>5, <2>1
    <2>3. out_buf[s - 1] = line[s]
      <3>1. out_buf[s - 1] = line[(s - 1) + 1] /\ (s - 1) + 1 = s
        BY <1>3, <1>5, <2>2
      <3>2. QED
        BY <3>1
    <2>4. line[s] \in Int
      BY <1>4, <2>2
    <2>5. PICK before : before = shown
      OBVIOUS
    <2>6. before \in Seq(Int) /\ Len(before) = s - 1 /\ \A i \in 1..(s - 1) : before[i] = line[i]
      BY <1>1, <2>1, <2>5 DEF Printed
    <2>7. shown' = Append(before, line[s])
      BY <2>1, <2>3, <2>5
    <2>8. shown' \in Seq(Int) /\ Len(shown') = s
      BY <1>3, <2>4, <2>6, <2>7
    <2>9. ASSUME NEW i \in 1..s PROVE shown'[i] = line[i]
      <3>1. CASE i = s
        BY <1>3, <2>4, <2>6, <2>7, <3>1
      <3>2. CASE i # s
        <4>1. i \in 1..(s - 1)
          BY <1>3, <3>2
        <4>2. shown'[i] = before[i]
          BY <1>3, <2>4, <2>6, <2>7, <4>1
        <4>3. QED
          BY <2>6, <4>1, <4>2
      <3>3. QED
        BY <3>1, <3>2
    <2>10. Printed(s)'
      BY <1>6, <2>1, <2>8, <2>9 DEF Printed
    <2>11. Passed(s)'
      BY <1>5, <1>6, <2>1 DEF Passed
    <2>12. QED
      BY <1>7, <2>1, <2>10, <2>11 DEF LineInv
  <1>11. QED
    BY <1>8, <1>9, <1>10

LEMMA LineStep == InvF /\ LineInv /\ [NextF]_varsF => LineInv'
  <1> SUFFICES ASSUME InvF, LineInv, [NextF]_varsF PROVE LineInv'
    OBVIOUS
  <1>1. CASE UNCHANGED varsF
    BY <1>1 DEF varsF, LineInv, Printed, Passed, Buffered, LineOf, Measured, LineCut
  <1>2. CASE Write
    BY <1>2, LineWritten
  <1>3. CASE PutsTest \/ Putc
    BY <1>3, LinePuts
  <1>4. CASE ReturnPrintf
    BY <1>4 DEF ReturnPrintf, LineInv
  <1>5. CASE Preempted
    BY <1>5 DEF Preempted, LineInv
  <1>6. CASE WildF
    BY <1>6 DEF WildF, StepF, LineInv
  <1>7. QED
    BY <1>1, <1>2, <1>3, <1>4, <1>5, <1>6, LineBefore DEF NextF

LEMMA LineEnds == InvF /\ LineInv => LineShown
  <1> SUFFICES ASSUME InvF, LineInv, pcF = "return", ~cutF
               PROVE  \E k \in 0..LineCut(callF) :
                         /\ Printed(k) /\ Passed(k)
                         /\ k = LineCut(callF) \/ LineOf(callF)[k + 1] = 0
    BY DEF LineShown
  <1>1. Buffered /\ Passed(s) /\ Printed(s) /\ out_buf[s] = 0 /\ s \in Nat /\ callF \in Calls
    BY PrintfAssumption DEF LineInv, InvF, TypeOKF
  <1>2. LineCut(callF) \in Nat
    BY <1>1, LineFacts DEF Buffered
  <1>3. s \in 0..LineCut(callF)
    BY <1>1, <1>2 DEF Passed
  <1>4. s = LineCut(callF) \/ s \in 0..(LineCut(callF) - 1)
    BY <1>2, <1>3
  <1>5. s = LineCut(callF) \/ LineOf(callF)[s + 1] = 0
    BY <1>1, <1>4 DEF Buffered
  <1>6. QED
    BY <1>1, <1>3, <1>5

\* A lib_printf that no interrupt disturbs prints the line that lib_vsnprintf makes,
\* character by character, up to its end or a 0 in it: the buffer, its limit, the
\* terminating 0 and lib_puts lose and add nothing.
THEOREM LineIsShown == SpecF => []LineShown
  <1>1. QED BY PrintfInit, PrintfStep, LineInit, LineStep, LineEnds, PTL DEF SpecF

\* Two texts of one length with the same characters are the same.
LEMMA SameText ==
    ASSUME NEW a \in Seq(Int), NEW b \in Seq(Int), Len(a) = Len(b),
           \A i \in 1..Len(a) : a[i] = b[i]
    PROVE  a = b
  OBVIOUS

LEMMA LineSpelled ==
    ASSUME FormatsExact, InvF, LineInv
    PROVE  LinePrinted
  <1>1. LineExact
    <2> SUFFICES ASSUME pcF = "return", ~cutF, Exact(callF)
                 PROVE  \E k \in 0..Len(shown) :
                            /\ Spells(SubSeq(shown, 1, k), callF[1])
                            /\ Spells(SubSeq(shown, k + 1, Len(shown)), callF[2])
      BY DEF LineExact
    <2>1. PICK line, m, cut :
            line = LineOf(callF) /\ m = Measured(callF) /\ cut = LineCut(callF)
      OBVIOUS
    <2>2. callF \in Calls /\ m + 1 < OutSize
      BY <2>1 DEF InvF, TypeOKF, LineInv, Buffered
    <2>3. m \in Nat /\ line \in Seq(Int) /\ cut = CutAt(line, m + 1)
      BY <2>1, <2>2, LineFacts DEF LineCut
    <2>4. /\ Len(line) = m /\ \A i \in 1..m : line[i] # 0
          /\ \E k \in 0..m : /\ Spells(SubSeq(line, 1, k), callF[1])
                             /\ Spells(SubSeq(line, k + 1, m), callF[2])
      BY <2>1, <2>2 DEF FormatsExact
    <2>5. cut = m
      BY <2>3, <2>4 DEF CutAt
    <2>6. PICK k \in 0..m : Printed(k) /\ (k = m \/ line[k + 1] = 0)
      BY <2>1, <2>5, LineEnds DEF LineShown
    <2>7. k = m
      <3>1. CASE k # m
        <4>1. k + 1 \in 1..m
          BY <2>3, <3>1
        <4>2. QED
          BY <2>4, <2>6, <3>1, <4>1
      <3>2. QED
        BY <3>1
    <2>8. shown \in Seq(Int) /\ Len(shown) = m /\ \A i \in 1..m : shown[i] = line[i]
      BY <2>1, <2>6, <2>7 DEF Printed
    <2>9. shown = line
      BY <2>3, <2>4, <2>8, SameText
    <2>10. QED
      BY <2>4, <2>8, <2>9
  <1>2. OverflowIsReal
    <2> SUFFICES ASSUME pcF = "overflow", ~cutF
                 PROVE  Len(Vsnprintf(TRUE, OutSize, FmtOf(callF), ArgsOf(callF))) + 1 >= OutSize
      BY DEF OverflowIsReal
    <2>1. resF = Measured(callF) /\ Overflows(resF) /\ callF \in Calls
      BY DEF LineInv, InvF, TypeOKF
    <2>2. Measured(callF) \in Nat
      BY <2>1, MeasuredType
    <2>3. Measured(callF) + 1 >= OutSize
      BY <2>1, <2>2 DEF Overflows, CtxOs
    <2>4. QED
      BY <2>1, <2>3 DEF FormatsExact
  <1>3. QED
    BY <1>1, <1>2 DEF LinePrinted

\* A line that no interrupt disturbs is printed piece by piece or refused for its
\* length, as far as lib_vsnprintf formats each call as it should: neither the timer's
\* lines in the same buffer nor the two passes' limit add a way to get it wrong.
THEOREM LinesArePrinted == ASSUME FormatsExact PROVE SpecF => []LinePrinted
  <1>1. InvF /\ LineInv => LinePrinted
    BY LineSpelled
  <1>2. QED BY <1>1, PrintfInit, PrintfStep, LineInit, LineStep, PTL DEF SpecF
=============================================================================
