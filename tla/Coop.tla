-------------------------------- MODULE Coop --------------------------------
(***************************************************************************)
(* 02-ContextSwitch and 03-MultiTasking: the switch between the OS stack   *)
(* and the task stacks before there are interrupts.  In chapter 2 os_main  *)
(* leaves its own stack for good; in chapter 3 a task gives the processor  *)
(* back by calling os_kernel, so the switch happens between a call and its *)
(* return and each function's return address lies on a stack meanwhile.    *)
(*                                                                         *)
(* Names end in the chapter's number so that MCChapters can extend the     *)
(* modules of all chapters at once.                                        *)
(***************************************************************************)
EXTENDS Integers

CONSTANT NTask3             \* tasks that user_init creates
ASSUME NTask3Assumption == NTask3 \in 1..10          \* MAX_TASK in task.h

OS3 == -1
NULL3 == -2
Tasks3 == 0..(NTask3 - 1)
Owners3 == Tasks3 \cup {OS3}
Chapters3 == {2, 3}

\* Points of the code, each named for the function it lies in or, behind a
\* call, for what the call returns to.  "epilogue" is the end of a function.
Locs3 == {"os_main", "os_start", "user_init", "loop", "task_go", "back",
          "task", "body", "os_kernel", "task_os", "epilogue", "stop", "none"}
Frames3 == 1..3             \* no chain of calls is deeper

VARIABLES
    chapter3,                           \* which of the two programs runs
    pc3, ra3, sp3,                      \* sp: whose stack, how many frames lie on it
    stack3,                             \* the return address in each frame
    ctxs3, ctx_now3, current_task3, taskTop3

hart3 == <<pc3, ra3, sp3, stack3>>
vars3 == <<chapter3, hart3, ctxs3, ctx_now3, current_task3, taskTop3>>

Sp3 == [of : Owners3, at : 0..3]
Context3 == [ra : Locs3, sp : Sp3]

\* Mutated forms of definitions below.
MutSaved3(a) == [ra |-> ra3, sp |-> a]            \* ctx_save before ra is set
MutNextTask3 == current_task3                     \* os_main forgets to advance
MutWrap3 == current_task3 + 1                     \* os_main forgets to start over

Init3 ==
    /\ chapter3 \in Chapters3
    /\ pc3 = "os_main" /\ ra3 = "none" /\ sp3 = [of |-> OS3, at |-> 0]
    /\ stack3 = [o \in Owners3 |-> [f \in Frames3 |-> "none"]]
    /\ ctxs3 = [o \in Owners3 |-> [ra |-> "none", sp |-> [of |-> OS3, at |-> 0]]]
    /\ ctx_now3 = NULL3 /\ current_task3 = 0 /\ taskTop3 = 0

-----------------------------------------------------------------------------
(* Calls.  A function that calls others puts its ra on the stack first.     *)

At3(c, l) == chapter3 = c /\ pc3 = l
Deeper(s) == [s EXCEPT !.at = @ + 1]
Push == stack3' = [stack3 EXCEPT ![sp3.of][sp3.at + 1] = ra3]
Enter(callee, back) == Push /\ sp3' = Deeper(sp3) /\ pc3' = callee /\ ra3' = back
Goto3(callee, back) == pc3' = callee /\ ra3' = back /\ UNCHANGED <<sp3, stack3>>

\* The epilogue of any function: its ra comes back from its frame.
Return ==
    /\ pc3 = "epilogue" /\ sp3.at > 0
    /\ ra3' = stack3[sp3.of][sp3.at] /\ pc3' = ra3'
    /\ sp3' = [sp3 EXCEPT !.at = @ - 1]
    /\ UNCHANGED <<chapter3, stack3, ctxs3, ctx_now3, current_task3, taskTop3>>

\* The stack task i is given, and what ctx_save keeps of a caller whose call
\* of sys_switch is the last thing it does.
StackOf3(i) == i
Saved3(a) == [ra |-> "epilogue", sp |-> a]

\* sys_switch(old, new): ctx_save, ctx_load, ret.
SysSwitch3(old, new, a) ==
    /\ ctxs3' = [ctxs3 EXCEPT ![old] = Saved3(a)]
    /\ ra3' = ctxs3[new].ra /\ pc3' = ctxs3[new].ra /\ sp3' = ctxs3[new].sp

-----------------------------------------------------------------------------
(* 02-ContextSwitch                                                         *)

\* os_main fills in one context by hand and switches to it; user_task0 stays
\* in its loop and nothing ever loads ctx_os.
OsMain2 ==
    /\ At3(2, "os_main") /\ Push
    /\ LET task == [ra |-> "stop", sp |-> [of |-> StackOf3(0), at |-> 0]]
       IN  /\ ctxs3' = [ctxs3 EXCEPT ![OS3] = Saved3(Deeper(sp3)), ![0] = task]
           /\ ra3' = task.ra /\ pc3' = task.ra /\ sp3' = task.sp
    /\ UNCHANGED <<chapter3, ctx_now3, current_task3, taskTop3>>

UserTask2 == At3(2, "stop") /\ UNCHANGED vars3

-----------------------------------------------------------------------------
(* 03-MultiTasking                                                          *)

OsMain3 ==
    /\ At3(3, "os_main") /\ Enter("os_start", "loop")
    /\ UNCHANGED <<chapter3, ctxs3, ctx_now3, current_task3, taskTop3>>

OsStart3 ==
    /\ At3(3, "os_start") /\ Enter("user_init", "epilogue")
    /\ UNCHANGED <<chapter3, ctxs3, ctx_now3, current_task3, taskTop3>>

\* user_init: one task_create after the other.
TaskCreate3 ==
    /\ At3(3, "user_init")
    /\ ctxs3' = [ctxs3 EXCEPT ![taskTop3] =
                    [ra |-> "task", sp |-> [of |-> StackOf3(taskTop3), at |-> 0]]]
    /\ taskTop3' = taskTop3 + 1
    /\ IF taskTop3' < NTask3
       THEN UNCHANGED hart3
       ELSE pc3' = ra3 /\ UNCHANGED <<ra3, sp3, stack3>>
    /\ UNCHANGED <<chapter3, ctx_now3, current_task3>>

Loop3 ==
    /\ At3(3, "loop") /\ Goto3("task_go", "back")
    /\ UNCHANGED <<chapter3, ctxs3, ctx_now3, current_task3, taskTop3>>

TaskGo3 ==
    /\ At3(3, "task_go") /\ Push
    /\ ctx_now3' = current_task3
    /\ SysSwitch3(OS3, current_task3, Deeper(sp3))
    /\ UNCHANGED <<chapter3, current_task3, taskTop3>>

NextTask3 == (current_task3 + 1) % taskTop3

Back3 ==
    /\ At3(3, "back")
    /\ current_task3' = NextTask3
    /\ pc3' = "loop" /\ UNCHANGED <<ra3, sp3, stack3>>
    /\ UNCHANGED <<chapter3, ctxs3, ctx_now3, taskTop3>>

\* user_task0 and user_task1: print, then give the processor back, for ever.
UserTask3 ==
    /\ At3(3, "task") /\ Enter("os_kernel", "body")
    /\ UNCHANGED <<chapter3, ctxs3, ctx_now3, current_task3, taskTop3>>

UserBody3 ==
    /\ At3(3, "body") /\ Goto3("os_kernel", "body")
    /\ UNCHANGED <<chapter3, ctxs3, ctx_now3, current_task3, taskTop3>>

OsKernel3 ==
    /\ At3(3, "os_kernel") /\ Enter("task_os", "epilogue")
    /\ UNCHANGED <<chapter3, ctxs3, ctx_now3, current_task3, taskTop3>>

TaskOs3 ==
    /\ At3(3, "task_os") /\ Push
    /\ ctx_now3' = OS3
    /\ SysSwitch3(ctx_now3, OS3, Deeper(sp3))
    /\ UNCHANGED <<chapter3, current_task3, taskTop3>>

Next3 ==
    \/ OsMain2 \/ UserTask2
    \/ OsMain3 \/ OsStart3 \/ TaskCreate3 \/ Loop3 \/ TaskGo3 \/ Back3
    \/ UserTask3 \/ UserBody3 \/ OsKernel3 \/ TaskOs3 \/ Return

Spec3 == Init3 /\ [][Next3]_vars3

-----------------------------------------------------------------------------
(* Properties                                                               *)

TypeOK3 ==
    /\ chapter3 \in Chapters3
    /\ pc3 \in Locs3 /\ ra3 \in Locs3 /\ sp3 \in Sp3
    /\ stack3 \in [Owners3 -> [Frames3 -> Locs3]]
    /\ ctxs3 \in [Owners3 -> Context3]
    /\ ctx_now3 \in Owners3 \cup {NULL3}
    /\ current_task3 \in Tasks3 /\ taskTop3 \in 0..NTask3

\* Task t is suspended inside its call of os_kernel: what lies on its stack
\* leads from task_os through os_kernel back behind that call, and the frame
\* of the task itself is the only one below.
Yielded(t) ==
    /\ ctxs3[t] = [ra |-> "epilogue", sp |-> [of |-> t, at |-> 3]]
    /\ stack3[t][3] = "epilogue" /\ stack3[t][2] = "body"

\* A task that gave the processor back goes on right behind its call, on its own
\* stack and with as much of it in use as before, however often it yields; a
\* task that has not run yet starts at its beginning on an empty stack; the OS
\* goes on behind task_go.  (With preemption instead of the call this fails:
\* Kernel's ResumeWhereInterrupted.)
YieldReturns ==
    chapter3 = 3 =>
        /\ \A t \in 0..(taskTop3 - 1) :
            sp3.of # t => \/ Yielded(t)
                          \/ ctxs3[t] = [ra |-> "task", sp |-> [of |-> t, at |-> 0]]
        /\ pc3 = "body" => sp3 = [of |-> current_task3, at |-> 1]
        /\ pc3 \in {"loop", "back"} => sp3 = [of |-> OS3, at |-> 1]

\* The cooperative kernel schedules round robin too, by the same abstract
\* specification as the preemptive one.
TurnOver3 == ctx_now3 = OS3 /\ pc3 \in {"epilogue", "back"}
Turn3 == IF sp3.of = OS3 /\ TurnOver3 THEN (current_task3 + 1) % NTask3 ELSE current_task3
RoundRobin3 == INSTANCE RoundRobin WITH N <- NTask3, running <- sp3.of, turn <- Turn3
CoopTakesTurns == [][chapter3 = 3 => RoundRobin3!Next]_<<sp3.of, Turn3>>
=============================================================================
