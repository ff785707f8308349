------------------------------ MODULE Spinlock ------------------------------
(***************************************************************************)
(* 06-Spinlock: user_task2 and user_task3 share a lock, beside tasks that  *)
(* do not, and all of them are preempted by the timer.  A preempted task   *)
(* resumes at the return address that was in ra, not where it was (see     *)
(* Kernel), so inside the lock's own functions a preemption changes what   *)
(* the task does: it leaves lock_acquire without having tried, forgets     *)
(* that it has the lock, or leaves lock_free without having released it.   *)
(***************************************************************************)
EXTENDS Integers

CONSTANTS
    Plain6,         \* tasks that run user_task0 or user_task1
    Counter6,       \* the task that runs user_task2
    Printer6,       \* the task that runs user_task3
    Slice6          \* bound: the timer leaves a task at least this many steps

Tasks6 == Plain6 \cup {Counter6, Printer6}
OS6 == -1
NTask6 == Printer6 + 1

\* user_init creates the plain tasks first.  The period is longer than any
\* critical section: 20000000 cycles against one line of output.
ASSUME RolesAssumption ==
    /\ Counter6 \in Nat /\ Printer6 = Counter6 + 1 /\ Plain6 = 0..(Counter6 - 1)
ASSUME Slice6Assumption == Slice6 \in Nat /\ Slice6 >= 6

\* Points of the tasks, of lock.c and atomic_swap, of the library; then the kernel's.
TaskLocs6 == {"start", "run", "wait", "for", "inc", "store", "leave", "pause", "next",
              "try", "take", "got"}
LockLocs == {"acquire", "swap", "swapped", "test", "acquired", "free", "freed"}
LibLocs6 == {"print", "delay", "wild", "error"}
UserLocs6 == TaskLocs6 \cup LockLocs \cup LibLocs6
KernelLocs6 == {"user_init", "trap_init", "timer_init", "os_kernel", "back", "task_go", "halt"}
Locs6 == UserLocs6 \cup KernelLocs6

VARIABLES
    pc6, ra6, a0_6,         \* a0: 0 when atomic_swap found the lock free, else 1
    task6,                  \* whose stack is in use
    resume6,                \* where a suspended task goes on: its ra
    link6,                  \* the return address in lock_acquire's or lib_puts's frame
    locked, irq6, current_task6, taskTop6,
    slice6,                 \* steps since the task was activated, up to Slice6
    incs6, cut6,            \* history: user_task2's increments since it entered its section,
                            \* and whether it was preempted there
    struck6                 \* history: what preemptions have done to the lock

sched6 == <<irq6, current_task6, taskTop6>>
hist6 == <<incs6, cut6, struck6>>
vars6 == <<pc6, ra6, a0_6, task6, resume6, link6, locked, sched6, slice6, hist6>>

\* Mutated forms of definitions below.
MutSwapped == a0_6' = locked /\ UNCHANGED locked            \* no store in atomic_swap
MutReleased == UNCHANGED locked                             \* lock_free forgets to
MutIncremented == UNCHANGED incs6                           \* shared_var not stored

Init6 ==
    /\ pc6 = "user_init" /\ ra6 = "start" /\ a0_6 = 1 /\ task6 = OS6
    /\ resume6 = [t \in Tasks6 |-> "start"] /\ link6 = [t \in Tasks6 |-> "start"]
    /\ locked = 0 /\ irq6 = {} /\ current_task6 = 0 /\ taskTop6 = 0
    /\ slice6 = 0 /\ incs6 = 0 /\ cut6 = FALSE /\ struck6 = "none"

-----------------------------------------------------------------------------
(* os_start                                                                 *)

Boot6(l, m) == pc6 = l /\ pc6' = m /\ UNCHANGED <<ra6, a0_6, task6, link6, slice6, hist6>>

\* lock_init, then task_create for each task.
UserInit6 ==
    /\ Boot6("user_init", IF taskTop6 + 1 < NTask6 THEN "user_init" ELSE "trap_init")
    /\ locked' = 0
    /\ resume6' = [resume6 EXCEPT ![taskTop6] = "start"] /\ taskTop6' = taskTop6 + 1
    /\ UNCHANGED <<irq6, current_task6>>

TrapInit6 ==
    /\ Boot6("trap_init", "timer_init") /\ irq6' = irq6 \cup {"mtvec", "MIE"}
    /\ UNCHANGED <<resume6, locked, current_task6, taskTop6>>

TimerInit6 ==
    /\ Boot6("timer_init", "task_go") /\ irq6' = irq6 \cup {"MTIE"}
    /\ UNCHANGED <<resume6, locked, current_task6, taskTop6>>

-----------------------------------------------------------------------------
(* User code                                                                *)

Step6(l) ==
    /\ pc6 = l
    /\ slice6' = IF slice6 < Slice6 THEN slice6 + 1 ELSE slice6
    /\ UNCHANGED <<task6, resume6, sched6, struck6>>
Goto6(l) == pc6' = l /\ UNCHANGED <<ra6, a0_6>>
Call6(l, back) == pc6' = l /\ ra6' = back /\ UNCHANGED a0_6
Ret6 == Goto6(ra6)
\* A function that calls others returns through its frame.
Link(back) == link6' = [link6 EXCEPT ![task6] = back]
RetLinked == pc6' = link6[task6] /\ ra6' = link6[task6] /\ UNCHANGED a0_6
Prints6(back) == pc6' = "print" /\ Link(back) /\ UNCHANGED <<ra6, a0_6>>
NoLock == UNCHANGED <<locked, link6, incs6, cut6>>

\* The first line of each task.
Start6 ==
    /\ Step6("start")
    /\ Prints6(IF task6 = Counter6 THEN "for" ELSE IF task6 = Printer6 THEN "try" ELSE "run")
    /\ UNCHANGED <<locked, incs6, cut6>>

\* user_task0 and user_task1
PlainRun == Step6("run") /\ Prints6("wait") /\ UNCHANGED <<locked, incs6, cut6>>
PlainWait == Step6("wait") /\ Call6("delay", "run") /\ NoLock

\* user_task2.  The counter i of its for loop is left open.
CounterFor == Step6("for") /\ Call6("acquire", "inc") /\ NoLock
CounterLoad == Step6("inc") /\ Goto6("store") /\ NoLock

Incremented == incs6' = IF incs6 < 2 THEN incs6 + 1 ELSE 2
CounterStore ==
    /\ Step6("store") /\ Goto6("leave") /\ Incremented
    /\ UNCHANGED <<locked, link6, cut6>>

CounterNext ==
    /\ Step6("next")
    /\ \/ Goto6("for") /\ UNCHANGED link6
       \/ Prints6("for")
    /\ UNCHANGED <<locked, incs6, cut6>>

\* user_task3
PrinterTry == Step6("try") /\ Prints6("take") /\ UNCHANGED <<locked, incs6, cut6>>
PrinterTake == Step6("take") /\ Call6("acquire", "got") /\ NoLock
PrinterGot == Step6("got") /\ Prints6("leave") /\ UNCHANGED <<locked, incs6, cut6>>

\* Both: lock_free(&lock), lib_delay.
Leave == Step6("leave") /\ Call6("free", "pause") /\ NoLock
Pause ==
    /\ Step6("pause")
    /\ Call6("delay", IF task6 = Counter6 THEN "next" ELSE "try")
    /\ IF task6 = Counter6 THEN incs6' = 0 /\ cut6' = FALSE ELSE UNCHANGED <<incs6, cut6>>
    /\ UNCHANGED <<locked, link6>>

-----------------------------------------------------------------------------
(* lock_acquire, atomic_swap and lock_free                                  *)

\* lock_acquire up to its call: the frame keeps the return address.
AcquireEnter ==
    /\ Step6("acquire") /\ Link(ra6) /\ Call6("swap", "test")
    /\ UNCHANGED <<locked, incs6, cut6>>

\* amoswap.w.aq: the old value and the new one in one step.
Swapped == a0_6' = locked /\ locked' = 1
AtomicSwap ==
    /\ Step6("swap") /\ Swapped
    /\ pc6' = "swapped" /\ UNCHANGED <<ra6, link6, incs6, cut6>>
AtomicSwapReturn == Step6("swapped") /\ Ret6 /\ NoLock

AcquireTest ==
    /\ Step6("test")
    /\ IF a0_6 = 0 THEN Goto6("acquired") ELSE Call6("swap", "test")
    /\ NoLock
AcquireReturn == Step6("acquired") /\ RetLinked /\ NoLock

Released == locked' = 0
Free6 == Step6("free") /\ Released /\ Goto6("freed") /\ UNCHANGED <<link6, incs6, cut6>>
FreeReturn == Step6("freed") /\ Ret6 /\ NoLock

-----------------------------------------------------------------------------
(* The library                                                              *)

LibPrint == Step6("print") /\ RetLinked /\ NoLock
LibDelay == Step6("delay") /\ Ret6 /\ NoLock
\* lib_vprintf's while (1): see Printf.
LibError == Step6("error") /\ Goto6("error") /\ NoLock

\* A string read through a stale frame pointer: the exception is reported and
\* trap_handler loops with interrupts off.
SyncException == Step6("wild") /\ Goto6("halt") /\ NoLock
Halted == pc6 = "halt" /\ UNCHANGED vars6

-----------------------------------------------------------------------------
(* Preemption                                                               *)

\* Where the interrupted task will go on.  Printing can go wrong (Kernel, Printf).
ResumePoints ==
    CASE pc6 = "print" -> {"print", "wild"} \cup (IF task6 = Counter6 THEN {"error"} ELSE {})
      [] pc6 \in {"wild", "error"} -> {pc6}
      [] OTHER -> {ra6}

\* What the lock loses by it.
Struck ==
    IF pc6 = "acquire" \/ struck6 = "enter" THEN "enter"
    ELSE IF \/ pc6 \in {"swapped", "test"} /\ a0_6 = 0
            \/ pc6 \in {"acquired", "free"}
         THEN "kept" ELSE struck6

\* trap_vector, trap_handler, timer_handler, and mret into os_kernel.
TimerInterrupt6 ==
    /\ pc6 \in UserLocs6 /\ irq6 = {"mtvec", "MIE", "MTIE"} /\ slice6 = Slice6
    /\ \E r \in ResumePoints : resume6' = [resume6 EXCEPT ![task6] = r]
    /\ struck6' = Struck
    /\ cut6' = (cut6 \/ (task6 = Counter6 /\ pc6 \in {"inc", "store", "leave"}))
    /\ pc6' = "os_kernel"
    /\ UNCHANGED <<ra6, a0_6, task6, link6, locked, sched6, slice6, incs6>>

Kernel6(l, m) == pc6 = l /\ pc6' = m /\ UNCHANGED <<resume6, link6, locked, irq6, taskTop6, hist6>>

\* os_kernel, task_os, sys_switch to the OS.
OsKernel6 ==
    /\ Kernel6("os_kernel", "back") /\ task6' = OS6
    /\ UNCHANGED <<ra6, a0_6, current_task6, slice6>>

Next6Task == (current_task6 + 1) % taskTop6
Back6 ==
    /\ Kernel6("back", "task_go") /\ current_task6' = Next6Task
    /\ UNCHANGED <<ra6, a0_6, task6, slice6>>

\* task_go, sys_switch to the task; a0 is left pointing to a context.
TaskGo6 ==
    /\ Kernel6("task_go", resume6[current_task6])
    /\ task6' = current_task6 /\ ra6' = resume6[current_task6] /\ a0_6' = 1 /\ slice6' = 0
    /\ UNCHANGED current_task6

TaskStep == Start6 \/ PlainRun \/ PlainWait \/ CounterFor \/ CounterLoad \/ CounterStore
            \/ CounterNext \/ PrinterTry \/ PrinterTake \/ PrinterGot \/ Leave \/ Pause
LockStep == AcquireEnter \/ AtomicSwap \/ AtomicSwapReturn \/ AcquireTest \/ AcquireReturn
            \/ Free6 \/ FreeReturn
LibStep == LibPrint \/ LibDelay \/ LibError \/ SyncException \/ Halted
KernelStep6 == UserInit6 \/ TrapInit6 \/ TimerInit6 \/ TimerInterrupt6 \/ OsKernel6 \/ Back6
               \/ TaskGo6
Next6 == TaskStep \/ LockStep \/ LibStep \/ KernelStep6

\* The hart executes, and the timer is rearmed at every interrupt.
Spec6 == Init6 /\ [][Next6]_vars6 /\ WF_vars6(Next6) /\ WF_vars6(TimerInterrupt6)

-----------------------------------------------------------------------------
(* Properties                                                               *)

TypeOK6 ==
    /\ pc6 \in Locs6 /\ ra6 \in UserLocs6 /\ a0_6 \in 0..1 /\ task6 \in Tasks6 \cup {OS6}
    /\ resume6 \in [Tasks6 -> UserLocs6] /\ link6 \in [Tasks6 -> UserLocs6]
    /\ locked \in 0..1 /\ irq6 \subseteq {"mtvec", "MIE", "MTIE"}
    /\ current_task6 \in Tasks6 /\ taskTop6 \in 0..NTask6
    /\ slice6 \in 0..Slice6 /\ incs6 \in 0..2 /\ cut6 \in BOOLEAN
    /\ struck6 \in {"none", "kept", "enter"}

\* Task t is between the return of lock_acquire and the store of lock_free.
Where6(t) == IF task6 = t /\ pc6 \in UserLocs6 THEN pc6 ELSE resume6[t]
InSection(t) ==
    \/ Where6(t) \in {"inc", "store", "got", "leave", "free"}
    \/ t = Printer6 /\ Where6(t) = "print" /\ link6[t] = "leave"

\* "solo un hilo puede adquirir el bloqueo al mismo tiempo" (README).
MutualExclusion == ~(InSection(Counter6) /\ InSection(Printer6))

\* Mutual exclusion is lost in one way only: by a preemption between the call of
\* lock_acquire and its call of atomic_swap.  Preemptions anywhere else, in
\* atomic_swap and lock_free too, never let a second task in.
OnlyEntryBreaksLock == struck6 # "enter" => MutualExclusion

\* Whatever preempts it, user_task2 increments shared_var at least once each time it
\* passes its section, and exactly once if it is not preempted there.
SectionCounts ==
    task6 = Counter6 /\ pc6 = "free" => incs6 >= 1 /\ (incs6 > 1 => cut6)

\* As long as no preemption has hit the lock's functions, who has the lock releases
\* it.  And "para garantizar que el sistema operativo aún pueda mantener su mecanismo
\* multitarea" (README): a lock that is never released costs its takers their
\* progress, but nobody a turn.
LockReleased ==
    /\ (locked = 1 /\ struck6 = "none") ~> (locked = 0 \/ struck6 # "none" \/ pc6 = "halt")
    /\ \A t \in Tasks6 : (irq6 # {}) ~> (task6 = t \/ pc6 = "halt")
=============================================================================
