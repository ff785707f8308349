----------------------------- MODULE RoundRobin -----------------------------
(***************************************************************************)
(* What os_main promises its tasks: the processor alternates between the   *)
(* OS and one task, the tasks take turns in the order of their numbers,    *)
(* and no task keeps the processor.                                        *)
(***************************************************************************)
EXTENDS Integers

CONSTANT N                  \* number of tasks, at least one
VARIABLES running, turn     \* OS (-1) or a task; the task whose turn it is

Init == running = -1 /\ turn = 0

Dispatch == running = -1 /\ running' = turn /\ turn' = turn

Preempt == running = turn /\ running' = -1 /\ turn' = (turn + 1) % N

Next == Dispatch \/ Preempt

Spec == Init /\ [][Next]_<<running, turn>> /\ WF_<<running, turn>>(Next)

\* The same for a program in which a task may break down, and everything with it.
Crash == running = turn /\ running' = -2 /\ turn' = turn

CrashingNext == Next \/ Crash

CrashingSpec ==
    Init /\ [][CrashingNext]_<<running, turn>> /\ WF_<<running, turn>>(Next)
=============================================================================
