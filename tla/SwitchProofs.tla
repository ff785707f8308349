---------------------------- MODULE SwitchProofs ----------------------------
(***************************************************************************)
(* The switch and the timer of chapters 02 to 05.  In Coop a task that     *)
(* yields goes on behind its call, and the tasks take turns; in Preempt a  *)
(* task that is preempted keeps its registers but for t6, as far as        *)
(* trap_vector, and its callee-saved registers on the way back: for any    *)
(* number of tasks.  Timer holds for every interval, word and speed of the *)
(* hart; its theorems name what they need of the constants.                *)
(***************************************************************************)
EXTENDS Coop, Preempt, Timer, TLAPS

\* The frames of a task that is in task_os, or suspended there.
Linked(t) == stack3[t][3] = "epilogue" /\ stack3[t][2] = "body"
Fresh(t) == ctxs3[t] = [ra |-> "task", sp |-> [of |-> t, at |-> 0]]

\* Where the OS is: on its own stack, with the frames of os_main and of the function
\* that os_main has called.
OsInv ==
    /\ pc3 = "os_main" => sp3.at = 0
    /\ pc3 = "os_start" => sp3.at = 1 /\ ra3 = "loop"
    /\ pc3 = "user_init" => sp3.at = 2 /\ ra3 = "epilogue" /\ stack3[OS3][2] = "loop"
    /\ pc3 \in {"loop", "back"} => sp3.at = 1
    /\ pc3 = "task_go" => sp3.at = 1 /\ ra3 = "back"
    /\ pc3 = "epilogue" => sp3.at = 2 /\ stack3[OS3][2] \in {"loop", "back"}

\* Where the running task t is, and what its frames hold.
TaskInv(t) ==
    /\ pc3 = "task" => sp3.at = 0
    /\ pc3 = "body" => sp3.at = 1
    /\ pc3 = "os_kernel" => sp3.at = 1 /\ ra3 = "body"
    /\ pc3 = "task_os" => sp3.at = 2 /\ ra3 = "epilogue" /\ stack3[t][2] = "body"
    /\ pc3 = "epilogue" => \/ sp3.at = 3 /\ Linked(t)
                           \/ sp3.at = 2 /\ stack3[t][2] = "body"

BootLocs3 == {"os_main", "os_start", "user_init"}
OsOnly3 == BootLocs3 \cup {"loop", "task_go", "back"}
TaskOnly3 == {"task", "body", "os_kernel", "task_os"}

CoopInv ==
    chapter3 = 3 =>
        /\ pc3 \in OsOnly3 \cup TaskOnly3 \cup {"epilogue"}
        /\ pc3 \in OsOnly3 => sp3.of = OS3
        /\ pc3 \in TaskOnly3 => sp3.of # OS3
        /\ IF pc3 \in BootLocs3 THEN taskTop3 < NTask3 /\ ctx_now3 = NULL3 /\ current_task3 = 0
           ELSE taskTop3 = NTask3
        /\ pc3 \in {"epilogue", "loop", "task_go"} /\ ctx_now3 = NULL3 => current_task3 = 0
        /\ \A t \in 0..(taskTop3 - 1) : sp3.of # t => Yielded(t) \/ Fresh(t)
        /\ sp3.of = OS3 =>
            /\ OsInv
            /\ ctx_now3 = NULL3 => (pc3 = "epilogue" => stack3[OS3][2] = "loop") /\ pc3 # "back"
            /\ ctx_now3 # NULL3 => ctx_now3 = OS3 /\ (pc3 = "epilogue" => stack3[OS3][2] = "back")
        /\ sp3.of # OS3 =>
            /\ sp3.of = current_task3 /\ ctx_now3 = current_task3 /\ TaskInv(sp3.of)
            /\ ctxs3[OS3] = [ra |-> "epilogue", sp |-> [of |-> OS3, at |-> 2]]
            /\ stack3[OS3][2] = "back"

\* Chapter 2 has a single switch.
OnceInv ==
    chapter3 = 2 =>
        /\ pc3 \in {"os_main", "stop"}
        /\ pc3 = "os_main" => sp3 = [of |-> OS3, at |-> 0]

LEMMA TaskFacts ==
    /\ NTask3 \in Nat \ {0} /\ OS3 \notin Tasks3 /\ NULL3 \notin Owners3 /\ OS3 \in Owners3
    /\ 0 \in Tasks3 /\ \A n \in 1..3 : n \in Frames3
    /\ Tasks3 \subseteq Owners3
  BY NTask3Assumption DEF OS3, Tasks3, NULL3, Owners3, Frames3

LEMMA CoopInit == ASSUME Init3 PROVE TypeOK3 /\ CoopInv /\ OnceInv
  <1>1. TypeOK3
    BY TaskFacts, NTask3Assumption
    DEF Init3, TypeOK3, Chapters3, Locs3, Sp3, Context3
  <1>2. CoopInv
    BY TaskFacts DEF Init3, CoopInv, OsOnly3, BootLocs3, TaskOnly3, OsInv, OS3, NULL3
  <1>3. OnceInv BY DEF Init3, OnceInv
  <1>4. QED BY <1>1, <1>2, <1>3

LEMMA OnceStep ==
    ASSUME TypeOK3, OnceInv, chapter3 = 2, [Next3]_vars3
    PROVE  TypeOK3' /\ OnceInv' /\ CoopInv'
  <1>1. CASE OsMain2
    <2>1. pc3 = "os_main" /\ sp3 = [of |-> OS3, at |-> 0] BY <1>1 DEF OsMain2, At3, OnceInv
    <2>2. Deeper(sp3) = [of |-> OS3, at |-> 1] BY <2>1 DEF Deeper
    <2>3. /\ pc3' = "stop" /\ ra3' = "stop" /\ sp3' = [of |-> 0, at |-> 0]
          /\ ctxs3' = [ctxs3 EXCEPT ![OS3] = [ra |-> "epilogue", sp |-> [of |-> OS3, at |-> 1]],
                                    ![0] = [ra |-> "stop", sp |-> [of |-> 0, at |-> 0]]]
          /\ UNCHANGED <<chapter3, ctx_now3, current_task3, taskTop3>>
      BY <1>1, <2>2 DEF OsMain2, Saved3, StackOf3
    <2>4. stack3' \in [Owners3 -> [Frames3 -> Locs3]]
      BY <1>1, <2>1, TaskFacts DEF OsMain2, Push, TypeOK3, Owners3, Frames3
    <2>5. /\ [ra |-> "epilogue", sp |-> [of |-> OS3, at |-> 1]] \in Context3
          /\ [ra |-> "stop", sp |-> [of |-> 0, at |-> 0]] \in Context3
      BY TaskFacts DEF Locs3, Sp3, Context3
    <2>6. ctxs3' \in [Owners3 -> Context3]
      BY <2>3, <2>5 DEF TypeOK3
    <2>7. TypeOK3'
      <3>1. pc3' \in Locs3 /\ ra3' \in Locs3 BY <2>3 DEF Locs3
      <3>2. sp3' \in Sp3 BY <2>3, TaskFacts DEF Sp3
      <3>3. QED BY <2>3, <2>4, <2>6, <3>1, <3>2 DEF TypeOK3
    <2>8. QED BY <2>3, <2>7 DEF OnceInv, CoopInv
  <1>2. CASE UserTask2 \/ UNCHANGED vars3
    BY <1>2 DEF UserTask2, vars3, hart3, TypeOK3, OnceInv, CoopInv
  <1>3. CASE Return BY <1>3 DEF Return, OnceInv
  <1>4. QED
    BY <1>1, <1>2, <1>3
    DEF Next3, OsMain3, OsStart3, TaskCreate3, Loop3, TaskGo3, Back3, UserTask3, UserBody3,
        OsKernel3, TaskOs3, At3

-----------------------------------------------------------------------------
(* 03-MultiTasking                                                          *)

\* A frame is written where sp points, and nothing below it.
LEMMA PushWrites ==
    ASSUME TypeOK3, Push, sp3.at < 3
    PROVE  /\ stack3' \in [Owners3 -> [Frames3 -> Locs3]]
           /\ stack3'[sp3.of][sp3.at + 1] = ra3
           /\ \A o \in Owners3, f \in Frames3 :
                (o # sp3.of \/ f # sp3.at + 1) => stack3'[o][f] = stack3[o][f]
  <1>1. sp3.of \in Owners3 /\ sp3.at + 1 \in Frames3 /\ ra3 \in Locs3
    BY DEF TypeOK3, Sp3, Frames3
  <1>2. QED BY <1>1 DEF Push, TypeOK3

LEMMA DeeperIs ==
    ASSUME sp3 \in Sp3, sp3.at < 3
    PROVE  Deeper(sp3) = [of |-> sp3.of, at |-> sp3.at + 1] /\ Deeper(sp3) \in Sp3
  BY DEF Sp3, Deeper

\* A step that moves control but switches no context.
LEMMA OsStep ==
    ASSUME TypeOK3, CoopInv, chapter3 = 3, OsMain3 \/ OsStart3 \/ Loop3 \/ Back3
    PROVE  TypeOK3' /\ CoopInv' /\ OnceInv'
  <1>0. /\ sp3 \in Sp3 /\ sp3.of = OS3 /\ sp3.at < 3 /\ OsInv /\ pc3 \in OsOnly3
        /\ UNCHANGED <<chapter3, ctxs3, ctx_now3, taskTop3>>
    BY DEF CoopInv, TypeOK3, OsInv, OsMain3, OsStart3, Loop3, Back3, At3, OsOnly3, BootLocs3
  <1>1. CASE OsMain3 \/ OsStart3
    <2>1. /\ Push /\ sp3' = [of |-> OS3, at |-> sp3.at + 1] /\ sp3' \in Sp3
          /\ \/ pc3 = "os_main" /\ pc3' = "os_start" /\ ra3' = "loop"
             \/ pc3 = "os_start" /\ pc3' = "user_init" /\ ra3' = "epilogue"
          /\ UNCHANGED current_task3
      BY <1>0, <1>1, DeeperIs DEF OsMain3, OsStart3, Enter, At3
    <2>2. TypeOK3' BY <1>0, <2>1, PushWrites DEF TypeOK3, Locs3
    <2>3. \A o \in Tasks3 : stack3'[o] = stack3[o]
      BY <1>0, <2>1, TaskFacts DEF Push, TypeOK3
    <2>4. \A t \in 0..(taskTop3 - 1) : Yielded(t)' <=> Yielded(t)
      BY <1>0, <2>3, NTask3Assumption DEF Yielded, TypeOK3, Tasks3
    <2>5. pc3' = "user_init" => stack3'[OS3][2] = "loop"
      BY <1>0, <2>1, PushWrites DEF OsInv
    <2>6. CoopInv'
      BY <1>0, <2>1, <2>4, <2>5, TaskFacts
      DEF CoopInv, OsInv, OsOnly3, BootLocs3, TaskOnly3, Fresh
    <2>7. QED BY <1>0, <2>2, <2>6 DEF OnceInv
  <1>2. CASE Loop3 \/ Back3
    <2>1. /\ sp3' = sp3 /\ stack3' = stack3 /\ current_task3' \in Tasks3
          /\ \/ pc3 = "loop" /\ pc3' = "task_go" /\ ra3' = "back" /\ UNCHANGED current_task3
             \/ pc3 = "back" /\ pc3' = "loop" /\ UNCHANGED ra3
      <3>1. CASE Loop3 BY <1>0, <3>1 DEF Loop3, Goto3, At3, TypeOK3
      <3>2. CASE Back3
        <4>1. taskTop3 = NTask3 /\ current_task3 \in 0..(NTask3 - 1)
          BY <3>2 DEF Back3, At3, CoopInv, BootLocs3, TypeOK3, Tasks3
        <4>2. NextTask3 \in Tasks3 BY <4>1, NTask3Assumption DEF NextTask3, Tasks3
        <4>3. QED BY <3>2, <4>2 DEF Back3, At3
      <3>3. QED BY <1>2, <3>1, <3>2
    <2>2. TypeOK3' BY <1>0, <2>1 DEF TypeOK3, Locs3
    <2>3. CoopInv'
      BY <1>0, <2>1, TaskFacts
      DEF CoopInv, OsInv, OsOnly3, BootLocs3, TaskOnly3, Fresh, Yielded
    <2>4. QED BY <1>0, <2>2, <2>3 DEF OnceInv
  <1>3. QED BY <1>1, <1>2

\* user_init gives task taskTop an empty stack to start on.
LEMMA CreateStep ==
    ASSUME TypeOK3, CoopInv, TaskCreate3
    PROVE  TypeOK3' /\ CoopInv' /\ OnceInv'
  <1> DEFINE new == [ra |-> "task", sp |-> [of |-> taskTop3, at |-> 0]]
  <1>1. /\ chapter3 = 3 /\ pc3 = "user_init" /\ sp3.of = OS3 /\ OsInv
        /\ taskTop3 \in 0..NTask3 /\ taskTop3 < NTask3 /\ taskTop3' = taskTop3 + 1
        /\ ctx_now3 = NULL3 /\ current_task3 = 0 /\ sp3.at = 2 /\ ra3 = "epilogue"
        /\ UNCHANGED <<chapter3, ctx_now3, current_task3, ra3, sp3, stack3>>
        /\ IF taskTop3' < NTask3 THEN pc3' = "user_init" ELSE pc3' = "epilogue"
        /\ ctxs3' = [ctxs3 EXCEPT ![taskTop3] = new]
    BY DEF TaskCreate3, CoopInv, TypeOK3, At3, OsOnly3, BootLocs3, OsInv, hart3, StackOf3
  <1>2. taskTop3 \in Tasks3 /\ taskTop3' \in 0..NTask3 /\ taskTop3 \in Owners3
    BY <1>1, NTask3Assumption, TaskFacts DEF Tasks3
  <1>3. new \in Context3 BY <1>2 DEF Context3, Sp3, Locs3
  <1>4. TypeOK3'
    <2>1. ctxs3' \in [Owners3 -> Context3] BY <1>1, <1>3 DEF TypeOK3
    <2>2. pc3' \in Locs3 BY <1>1 DEF Locs3
    <2>3. QED BY <1>1, <1>2, <2>1, <2>2 DEF TypeOK3
  <1>5. \A t \in 0..(taskTop3' - 1) : Yielded(t)' \/ Fresh(t)'
    <2>1. ASSUME NEW t \in 0..(taskTop3' - 1) PROVE Yielded(t)' \/ Fresh(t)'
      <3>1. CASE t = taskTop3
        BY <1>1, <1>2, <3>1 DEF Fresh, TypeOK3
      <3>2. CASE t # taskTop3
        <4>1. t \in 0..(taskTop3 - 1) /\ sp3.of # t /\ ctxs3'[t] = ctxs3[t]
          BY <1>1, <2>1, <3>2, NTask3Assumption DEF TypeOK3, Owners3, Tasks3, OS3
        <4>2. QED BY <1>1, <4>1 DEF CoopInv, Yielded, Fresh
      <3>3. QED BY <3>1, <3>2
    <2>2. QED BY <2>1
  <1>6. CoopInv'
    BY <1>1, <1>2, <1>5, TaskFacts, NTask3Assumption
    DEF CoopInv, OsInv, OsOnly3, BootLocs3, TaskOnly3
  <1>7. QED BY <1>1, <1>4, <1>6 DEF OnceInv

\* A task calls os_kernel, os_kernel calls task_os.
LEMMA CallStep ==
    ASSUME TypeOK3, CoopInv, UserTask3 \/ UserBody3 \/ OsKernel3
    PROVE  TypeOK3' /\ CoopInv' /\ OnceInv'
  <1>1. /\ chapter3 = 3 /\ sp3.of # OS3 /\ pc3 \in {"task", "body", "os_kernel"}
        /\ sp3 \in Sp3 /\ sp3.of \in Tasks3 /\ sp3.at < 3 /\ TaskInv(sp3.of)
        /\ taskTop3 = NTask3
        /\ UNCHANGED <<chapter3, ctxs3, ctx_now3, current_task3, taskTop3>>
    BY DEF UserTask3, UserBody3, OsKernel3, CoopInv, TypeOK3, At3, TaskOnly3, BootLocs3, Sp3,
           Owners3, TaskInv
  <1>2. CASE UserBody3
    <2>1. /\ pc3 = "body" /\ pc3' = "os_kernel" /\ ra3' = "body" /\ sp3' = sp3
          /\ stack3' = stack3
      BY <1>2 DEF UserBody3, Goto3, At3
    <2>2. TypeOK3' BY <1>1, <2>1 DEF TypeOK3, Locs3
    <2>3. CoopInv'
      BY <1>1, <2>1 DEF CoopInv, TaskInv, OsOnly3, BootLocs3, TaskOnly3, Yielded, Fresh
    <2>4. QED BY <1>1, <2>2, <2>3 DEF OnceInv
  <1>3. CASE UserTask3 \/ OsKernel3
    <2>1. /\ Push /\ sp3' = [of |-> sp3.of, at |-> sp3.at + 1] /\ sp3' \in Sp3
          /\ \/ pc3 = "task" /\ pc3' = "os_kernel" /\ ra3' = "body"
             \/ pc3 = "os_kernel" /\ pc3' = "task_os" /\ ra3' = "epilogue"
      BY <1>1, <1>3, DeeperIs DEF UserTask3, OsKernel3, Enter, At3
    <2>2. TypeOK3' BY <1>1, <2>1, PushWrites DEF TypeOK3, Locs3
    <2>3. \A o \in Owners3 : o # sp3.of => stack3'[o] = stack3[o]
      BY <1>1, <2>1 DEF Push, TypeOK3
    <2>4. \A t \in 0..(taskTop3 - 1) : sp3.of # t => (Yielded(t)' <=> Yielded(t))
      BY <1>1, <2>3, TaskFacts, NTask3Assumption DEF Yielded, TypeOK3, Tasks3
    <2>5. pc3' = "task_os" => stack3'[sp3.of][2] = "body"
      BY <1>1, <2>1, PushWrites DEF TaskInv
    <2>6. stack3'[OS3][2] = stack3[OS3][2] BY <1>1, <2>3, TaskFacts
    <2>7. CoopInv'
      BY <1>1, <2>1, <2>4, <2>5, <2>6, TaskFacts
      DEF CoopInv, TaskInv, OsOnly3, BootLocs3, TaskOnly3, Fresh
    <2>8. QED BY <1>1, <2>2, <2>7 DEF OnceInv
  <1>4. QED BY <1>2, <1>3

\* task_go: ctx_os keeps where the OS is, and the task goes on where it was.
LEMMA TaskGoStep ==
    ASSUME TypeOK3, CoopInv, TaskGo3
    PROVE  TypeOK3' /\ CoopInv' /\ OnceInv'
  <1> DEFINE c == current_task3
             saved == [ra |-> "epilogue", sp |-> [of |-> OS3, at |-> 2]]
  <1>1. /\ chapter3 = 3 /\ pc3 = "task_go" /\ sp3.of = OS3 /\ sp3.at = 1 /\ ra3 = "back"
        /\ sp3 \in Sp3 /\ taskTop3 = NTask3 /\ c \in Tasks3
        /\ UNCHANGED <<chapter3, current_task3, taskTop3>> /\ ctx_now3' = c /\ Push
    BY DEF TaskGo3, At3, CoopInv, TypeOK3, OsOnly3, BootLocs3, OsInv
  <1>2. /\ ctxs3' = [ctxs3 EXCEPT ![OS3] = saved]
        /\ ra3' = ctxs3[c].ra /\ pc3' = ctxs3[c].ra /\ sp3' = ctxs3[c].sp
    <2>1. Deeper(sp3) = [of |-> OS3, at |-> 2] BY <1>1, DeeperIs
    <2>2. SysSwitch3(OS3, c, Deeper(sp3)) BY DEF TaskGo3
    <2>3. QED BY <2>1, <2>2 DEF SysSwitch3, Saved3
  <1>3. c \in Owners3 /\ c # OS3 /\ c \in 0..(taskTop3 - 1)
    BY <1>1, TaskFacts DEF Tasks3
  <1>4. TypeOK3'
    <2>1. saved \in Context3 BY TaskFacts DEF Context3, Sp3, Locs3
    <2>2. ctxs3' \in [Owners3 -> Context3] BY <1>2, <2>1 DEF TypeOK3
    <2>3. ctxs3[c].ra \in Locs3 /\ ctxs3[c].sp \in Sp3
      BY <1>3 DEF TypeOK3, Context3
    <2>4. QED BY <1>1, <1>2, <1>3, <2>2, <2>3, PushWrites DEF TypeOK3
  <1>5. \A o \in Tasks3 : stack3'[o] = stack3[o] /\ ctxs3'[o] = ctxs3[o]
    BY <1>1, <1>2, TaskFacts DEF Push, TypeOK3
  <1>6. \A t \in Tasks3 : (Yielded(t)' <=> Yielded(t)) /\ (Fresh(t)' <=> Fresh(t))
    BY <1>5 DEF Yielded, Fresh
  <1>7. Yielded(c) \/ Fresh(c) BY <1>1, <1>3 DEF CoopInv
  <1>8. ctxs3'[OS3] = saved /\ stack3'[OS3][2] = "back"
    BY <1>1, <1>2, PushWrites, TaskFacts DEF TypeOK3
  <1>9. /\ sp3'.of = c /\ pc3' \in {"task", "epilogue"}
        /\ pc3' = "task" => sp3'.at = 0
        /\ pc3' = "epilogue" => sp3'.at = 3 /\ stack3'[c][3] = "epilogue" /\ stack3'[c][2] = "body"
    <2>1. CASE Yielded(c) BY <1>1, <1>2, <1>5, <2>1 DEF Yielded
    <2>2. CASE Fresh(c) BY <1>2, <2>2 DEF Fresh
    <2>3. QED BY <1>7, <2>1, <2>2
  <1>10. \A t \in 0..(taskTop3' - 1) : Yielded(t)' \/ Fresh(t)'
    <2>1. ASSUME NEW t \in Tasks3 PROVE Yielded(t) \/ Fresh(t)
      BY <1>1, TaskFacts, <2>1 DEF CoopInv, Tasks3
    <2>2. QED BY <1>1, <1>6, <2>1 DEF Tasks3
  <1>11. CoopInv'
    BY <1>1, <1>3, <1>8, <1>9, <1>10, TaskFacts
    DEF CoopInv, TaskInv, Linked, OsOnly3, BootLocs3, TaskOnly3
  <1>12. QED BY <1>1, <1>4, <1>11 DEF OnceInv

\* task_os: the task's context keeps where it is, and the OS goes on behind task_go.
LEMMA TaskOsStep ==
    ASSUME TypeOK3, CoopInv, TaskOs3
    PROVE  TypeOK3' /\ CoopInv' /\ OnceInv'
  <1> DEFINE c == current_task3
             saved == [ra |-> "epilogue", sp |-> [of |-> c, at |-> 3]]
  <1>1. /\ chapter3 = 3 /\ pc3 = "task_os" /\ sp3.of = c /\ c # OS3 /\ sp3.at = 2
        /\ ra3 = "epilogue" /\ stack3[c][2] = "body" /\ ctx_now3 = c
        /\ sp3 \in Sp3 /\ taskTop3 = NTask3 /\ c \in Tasks3
        /\ ctxs3[OS3] = [ra |-> "epilogue", sp |-> [of |-> OS3, at |-> 2]]
        /\ stack3[OS3][2] = "back"
        /\ UNCHANGED <<chapter3, current_task3, taskTop3>> /\ ctx_now3' = OS3 /\ Push
    BY DEF TaskOs3, At3, CoopInv, TypeOK3, TaskOnly3, BootLocs3, TaskInv
  <1>2. /\ ctxs3' = [ctxs3 EXCEPT ![c] = saved]
        /\ pc3' = "epilogue" /\ ra3' = "epilogue" /\ sp3' = [of |-> OS3, at |-> 2]
    <2>1. Deeper(sp3) = [of |-> c, at |-> 3] BY <1>1, DeeperIs
    <2>2. SysSwitch3(c, OS3, Deeper(sp3)) BY <1>1 DEF TaskOs3
    <2>3. QED BY <1>1, <2>1, <2>2 DEF SysSwitch3, Saved3
  <1>3. c \in Owners3 /\ c # OS3 BY <1>1, TaskFacts
  <1>4. TypeOK3'
    <2>1. saved \in Context3 BY <1>3 DEF Context3, Sp3, Locs3
    <2>2. ctxs3' \in [Owners3 -> Context3] BY <1>2, <2>1 DEF TypeOK3
    <2>3. pc3' \in Locs3 /\ sp3' \in Sp3 BY <1>2, TaskFacts DEF Locs3, Sp3
    <2>4. QED BY <1>1, <1>2, <2>2, <2>3, PushWrites, TaskFacts DEF TypeOK3
  <1>5. \A o \in Owners3 \ {c} : stack3'[o] = stack3[o] /\ ctxs3'[o] = ctxs3[o]
    BY <1>1, <1>2, TaskFacts DEF Push, TypeOK3
  <1>6. Yielded(c)'
    <2>1. ctxs3'[c] = saved BY <1>2, <1>3 DEF TypeOK3
    <2>2. stack3'[c][3] = "epilogue" /\ stack3'[c][2] = stack3[c][2]
      BY <1>1, <1>3, PushWrites, TaskFacts
    <2>3. QED BY <1>1, <2>1, <2>2 DEF Yielded
  <1>7. \A t \in 0..(taskTop3' - 1) : Yielded(t)' \/ Fresh(t)'
    <2>1. ASSUME NEW t \in Tasks3, t # c PROVE Yielded(t)' \/ Fresh(t)'
      <3>1. Yielded(t) \/ Fresh(t) BY <1>1, <2>1 DEF CoopInv, Tasks3
      <3>2. QED BY <1>5, <2>1, <3>1, TaskFacts DEF Yielded, Fresh
    <2>2. QED BY <1>1, <1>6, <2>1 DEF Tasks3
  <1>8. stack3'[OS3][2] = "back" BY <1>1, <1>3, <1>5, TaskFacts
  <1>9. CoopInv'
    BY <1>1, <1>2, <1>7, <1>8, TaskFacts
    DEF CoopInv, OsInv, OsOnly3, BootLocs3, TaskOnly3
  <1>10. QED BY <1>1, <1>4, <1>9 DEF OnceInv

\* An epilogue takes the return address from the frame of its own function.
LEMMA ReturnStep ==
    ASSUME TypeOK3, CoopInv, chapter3 = 3, Return
    PROVE  TypeOK3' /\ CoopInv' /\ OnceInv'
  <1>1. /\ pc3 = "epilogue" /\ sp3 \in Sp3 /\ sp3.at > 0 /\ taskTop3 = NTask3
        /\ pc3' = stack3[sp3.of][sp3.at] /\ ra3' = pc3'
        /\ sp3' = [of |-> sp3.of, at |-> sp3.at - 1] /\ sp3.at \in Frames3 /\ sp3.of \in Owners3
        /\ UNCHANGED <<chapter3, stack3, ctxs3, ctx_now3, current_task3, taskTop3>>
    BY DEF Return, TypeOK3, Sp3, Frames3, CoopInv, BootLocs3
  <1>2. TypeOK3'
    <2>1. pc3' \in Locs3 /\ sp3' \in Sp3
      BY <1>1 DEF TypeOK3, Sp3
    <2>2. QED BY <1>1, <2>1 DEF TypeOK3
  <1>3. CASE sp3.of = OS3
    <2>1. sp3.at = 2 /\ pc3' \in {"loop", "back"} /\ sp3'.at = 1 /\ sp3'.of = OS3
          /\ (ctx_now3 = NULL3 => pc3' = "loop")
      BY <1>1, <1>3 DEF CoopInv, OsInv
    <2>2. CoopInv'
      BY <1>1, <1>3, <2>1, TaskFacts
      DEF CoopInv, OsInv, OsOnly3, BootLocs3, TaskOnly3, Yielded, Fresh
    <2>3. QED BY <1>1, <1>2, <2>2 DEF OnceInv
  <1>4. CASE sp3.of # OS3
    <2>1. /\ sp3'.of = sp3.of
          /\ \/ sp3.at = 3 /\ pc3' = "epilogue" /\ sp3'.at = 2
             \/ sp3.at = 2 /\ pc3' = "body" /\ sp3'.at = 1
          /\ stack3[sp3.of][2] = "body"
      BY <1>1, <1>4 DEF CoopInv, TaskInv, Linked
    <2>2. CoopInv'
      BY <1>1, <1>4, <2>1, TaskFacts
      DEF CoopInv, TaskInv, Linked, OsOnly3, BootLocs3, TaskOnly3, Yielded, Fresh
    <2>3. QED BY <1>1, <1>2, <2>2 DEF OnceInv
  <1>5. QED BY <1>3, <1>4

LEMMA CoopStep ==
    ASSUME TypeOK3, CoopInv, OnceInv, [Next3]_vars3
    PROVE  TypeOK3' /\ CoopInv' /\ OnceInv'
  <1>1. CASE chapter3 = 2 BY <1>1, OnceStep
  <1>2. CASE chapter3 = 3
    <2>1. CASE OsMain3 \/ OsStart3 \/ Loop3 \/ Back3 BY <1>2, <2>1, OsStep
    <2>2. CASE TaskCreate3 BY <2>2, CreateStep
    <2>3. CASE UserTask3 \/ UserBody3 \/ OsKernel3 BY <2>3, CallStep
    <2>4. CASE TaskGo3 BY <2>4, TaskGoStep
    <2>5. CASE TaskOs3 BY <2>5, TaskOsStep
    <2>6. CASE Return BY <1>2, <2>6, ReturnStep
    <2>7. CASE UNCHANGED vars3
      BY <2>7
      DEF vars3, hart3, TypeOK3, CoopInv, OnceInv, OsInv, TaskInv, Linked, Yielded, Fresh
    <2>8. ~OsMain2 BY <1>2 DEF OsMain2, At3
    <2>9. QED
      BY <2>1, <2>2, <2>3, <2>4, <2>5, <2>6, <2>7, <2>8 DEF Next3, UserTask2, At3
  <1>3. QED BY <1>1, <1>2 DEF TypeOK3, Chapters3

-----------------------------------------------------------------------------
(* The theorems                                                             *)

\* The variables of both programs keep their types.
THEOREM CoopTyped == Spec3 => []TypeOK3
  BY CoopInit, CoopStep, PTL DEF Spec3

\* For any number of tasks: a task that yields goes on right behind its call, on its
\* own stack and with as much of it in use as before.
THEOREM YieldsReturn == Spec3 => []YieldReturns
  <1>1. TypeOK3 /\ CoopInv => YieldReturns
    <2>1. SUFFICES ASSUME TypeOK3, CoopInv, chapter3 = 3
                   PROVE  /\ \A t \in 0..(taskTop3 - 1) : sp3.of # t => Yielded(t) \/ Fresh(t)
                          /\ pc3 = "body" => sp3 = [of |-> current_task3, at |-> 1]
                          /\ pc3 \in {"loop", "back"} => sp3 = [of |-> OS3, at |-> 1]
      BY DEF YieldReturns, Fresh
    <2>2. sp3 \in Sp3 BY <2>1 DEF TypeOK3
    <2>3. sp3 = [of |-> sp3.of, at |-> sp3.at] BY <2>2 DEF Sp3
    <2>4. QED BY <2>1, <2>3 DEF CoopInv, OsInv, TaskInv, OsOnly3, TaskOnly3
  <1>2. QED BY <1>1, CoopInit, CoopStep, PTL DEF Spec3

\* A step changes whose turn it is in one place: where task_os switches to the OS.
LEMMA TurnStep ==
    ASSUME TypeOK3, CoopInv, [Next3]_vars3, chapter3 = 3
    PROVE  RoundRobin3!Next \/ UNCHANGED <<sp3.of, Turn3>>
  <1>1. CASE OsMain3 \/ OsStart3 \/ Loop3 \/ TaskCreate3
    <2>1. /\ pc3 \in {"os_main", "os_start", "user_init", "loop"} /\ sp3.of = OS3
          /\ sp3 \in Sp3 /\ UNCHANGED <<current_task3, ctx_now3>>
          /\ pc3' \in {"os_start", "user_init", "task_go"} \/ ctx_now3 = NULL3
      BY <1>1
      DEF OsMain3, OsStart3, Loop3, TaskCreate3, Enter, Goto3, At3, CoopInv, OsOnly3, BootLocs3,
          TypeOK3
    <2>2. ~TurnOver3 /\ ~TurnOver3' BY <2>1, TaskFacts DEF TurnOver3, OS3, NULL3
    <2>3. sp3'.of = OS3
      <3>1. sp3' = sp3 \/ sp3' = Deeper(sp3)
        BY <1>1 DEF OsMain3, OsStart3, Loop3, TaskCreate3, Enter, Goto3, hart3
      <3>2. QED BY <2>1, <3>1 DEF Deeper, Sp3
    <2>4. QED BY <2>1, <2>2, <2>3 DEF Turn3
  <1>2. CASE Back3
    <2>1. /\ sp3.of = OS3 /\ sp3' = sp3 /\ ctx_now3 = OS3 /\ pc3 = "back" /\ pc3' = "loop"
          /\ taskTop3 = NTask3 /\ current_task3' = (current_task3 + 1) % NTask3
      BY <1>2 DEF Back3, NextTask3, At3, CoopInv, OsOnly3, BootLocs3
    <2>2. TurnOver3 /\ ~TurnOver3' BY <2>1 DEF TurnOver3
    <2>3. QED BY <2>1, <2>2 DEF Turn3
  <1>3. CASE TaskGo3
    <2>1. /\ sp3.of = OS3 /\ current_task3' = current_task3 /\ pc3 = "task_go"
          /\ sp3' = ctxs3[current_task3].sp /\ current_task3 \in Tasks3 /\ taskTop3 = NTask3
      BY <1>3 DEF TaskGo3, SysSwitch3, At3, CoopInv, OsOnly3, BootLocs3, TypeOK3
    <2>2. sp3'.of = current_task3
      <3>1. current_task3 \in 0..(taskTop3 - 1) /\ sp3.of # current_task3
        BY <2>1, TaskFacts DEF Tasks3
      <3>2. Yielded(current_task3) \/ Fresh(current_task3) BY <3>1 DEF CoopInv
      <3>3. QED BY <2>1, <3>2 DEF Yielded, Fresh
    <2>3. Turn3 = current_task3 /\ Turn3' = current_task3
      BY <2>1, <2>2, TaskFacts DEF Turn3, TurnOver3
    <2>4. QED BY <2>1, <2>2, <2>3 DEF RoundRobin3!Next, RoundRobin3!Dispatch, OS3
  <1>4. CASE TaskOs3
    <2>1. /\ sp3.of = current_task3 /\ sp3.of # OS3 /\ current_task3' = current_task3
          /\ sp3' = ctxs3[OS3].sp /\ pc3' = ctxs3[OS3].ra /\ ctx_now3' = OS3
          /\ ctxs3[OS3] = [ra |-> "epilogue", sp |-> [of |-> OS3, at |-> 2]]
      BY <1>4 DEF TaskOs3, SysSwitch3, At3, CoopInv, TaskOnly3
    <2>2. Turn3 = current_task3 /\ Turn3' = (current_task3 + 1) % NTask3 /\ sp3'.of = OS3
      BY <2>1 DEF Turn3, TurnOver3
    <2>3. QED BY <2>1, <2>2 DEF RoundRobin3!Next, RoundRobin3!Preempt, OS3
  <1>5. CASE UserTask3 \/ UserBody3 \/ OsKernel3
    <2>1. sp3.of # OS3 /\ sp3'.of = sp3.of /\ current_task3' = current_task3
      BY <1>5
      DEF UserTask3, UserBody3, OsKernel3, Enter, Goto3, At3, CoopInv, TaskOnly3, Deeper,
          TypeOK3, Sp3
    <2>2. QED BY <2>1 DEF Turn3
  <1>6. CASE Return
    <2>1. /\ sp3'.of = sp3.of /\ current_task3' = current_task3 /\ ctx_now3' = ctx_now3
          /\ pc3 = "epilogue" /\ pc3' = stack3[sp3.of][sp3.at]
      BY <1>6 DEF Return, TypeOK3, Sp3
    <2>2. sp3.of = OS3 => (TurnOver3' <=> TurnOver3)
      BY <2>1, TaskFacts DEF TurnOver3, CoopInv, OsInv
    <2>3. QED BY <2>1, <2>2 DEF Turn3
  <1>7. CASE UNCHANGED vars3
    BY <1>7 DEF vars3, hart3, Turn3, TurnOver3
  <1>8. ~OsMain2 /\ ~UserTask2 BY DEF OsMain2, UserTask2, At3
  <1>9. QED BY <1>1, <1>2, <1>3, <1>4, <1>5, <1>6, <1>7, <1>8 DEF Next3

\* For any number of tasks: the cooperative kernel is a round-robin scheduler.
THEOREM CoopIsRoundRobin == Spec3 => CoopTakesTurns
  <1>1. TypeOK3 /\ CoopInv /\ [Next3]_vars3
        => [chapter3 = 3 => RoundRobin3!Next]_<<sp3.of, Turn3>>
    BY TurnStep
  <1>2. QED BY <1>1, CoopInit, CoopStep, PTL DEF Spec3, CoopTakesTurns

-----------------------------------------------------------------------------
(* Preempt                                                                  *)

\* What the trap saves and restores.
TrapInv5 ==
    /\ "MTIE" \in irq5 => mscratch5 = Area
    /\ pc5 \in {"handler", "os_kernel"} =>
           /\ \A r \in Regs5 \ {"t6"} : regs5[r] = kept5[owner5][r]
           /\ regs5["t6"] = Area
    /\ pc5 = "handler" => timer_scratch = regs5
    /\ pc5 = "reg_load" =>
           /\ \A r \in Regs5 \ {"t6"} : timer_scratch[r] = kept5[owner5][r]
           /\ timer_scratch["t6"] = Area
           /\ regs5["tp"] = kept5[owner5]["tp"] /\ kept5[owner5]["sp"].by = owner5

\* A stack whose owner has been switched away, or has never run.
Suspended(o) ==
    /\ ctxs5[o]["ra"].by = KERNEL
    /\ \A r \in Switched \ {"ra", "s0"} : ctxs5[o][r] = kept5[o][r]
    /\ \A r \in {"ra", "s0"} : frame5[o][r] = kept5[o][r]
Fresh5(o) == o # OS5 /\ ctxs5[o]["ra"].by = o
Stacks5 == {OS5} \cup 0..(taskTop5 - 1)
SwitchInv ==
    /\ owner5 \in Stacks5 /\ regs5["sp"].by \in {owner5, ZERO5}
    /\ \A o \in Stacks5 \ {owner5} :
           (Suspended(o) \/ Fresh5(o)) /\ ctxs5[o]["sp"].by = o

\* Where control can be, who runs there, and what is enabled.
ControlInv5 ==
    /\ pc5 \in {"user_init", "trap_init", "timer_init", "os_main", "task_go", "back"} =>
           owner5 = OS5
    /\ pc5 \in {"user", "handler", "reg_load", "os_kernel"} => owner5 # OS5 /\ ctx_now5 = owner5
    /\ pc5 = "task_go" => kept5[OS5] = regs5
    /\ pc5 \in {"task_go", "user", "handler", "reg_load", "os_kernel"} => regs5["sp"].by = owner5
    /\ pc5 = "unwind" =>
           /\ owner5 # OS5 => ctx_now5 = owner5
           /\ \A r \in Switched \ {"ra", "s0"} : regs5[r] = kept5[owner5][r]
           /\ \A r \in {"ra", "s0"} : frame5[owner5][r] = kept5[owner5][r]
           /\ regs5["sp"].by = owner5
    /\ pc5 \in {"user_init", "trap_init", "timer_init"} => current_task5 = 0
    /\ pc5 = "user_init" => taskTop5 < NTask5
    /\ pc5 # "user_init" => taskTop5 = NTask5

PreemptInv == TypeOK5 /\ TrapInv5 /\ SwitchInv /\ ControlInv5

-----------------------------------------------------------------------------

LEMMA RegFacts ==
    /\ CallerSaved \subseteq Regs5 /\ Switched \subseteq Regs5
    /\ {"ra", "s0", "sp"} \subseteq Switched /\ {"t6", "tp"} \subseteq Regs5 \ Switched
    /\ "ra" # "s0" /\ "sp" # "ra" /\ "sp" # "s0" /\ "t6" # "tp"
    /\ CallerSaved \cap Switched = {} /\ "tp" \notin CallerSaved
    /\ "gp" \notin Switched \cup CallerSaved
  BY DEF CallerSaved, CalleeSaved, Switched, Regs5

LEMMA Vals5 ==
    /\ \A o \in Owners5 \cup {HANDLER, KERNEL, AREA, ZERO5}, b \in 0..1, r \in Regs5 :
           Val(o, b, r) \in Vals /\ Val(o, b, r).by = o
    /\ Area \in Vals
  BY DEF Val, Vals, Area, Regs5, CallerSaved

LEMMA Set5Facts ==
    ASSUME NEW regs \in [Regs5 -> Vals], NEW rs, NEW b \in 0..1,
           NEW o \in Owners5 \cup {HANDLER, KERNEL, AREA, ZERO5}
    PROVE  /\ Set5(regs, o, b, rs) \in [Regs5 -> Vals]
           /\ \A r \in Regs5 : r \notin rs => Set5(regs, o, b, rs)[r] = regs[r]
           /\ Set5(regs, o, b, rs)["tp"] = regs["tp"]
           /\ \A r \in rs \cap Switched : Set5(regs, o, b, rs)[r].by = o
  BY Vals5, RegFacts DEF Set5

LEMMA InitPreempt == Init5 => PreemptInv
  <1> SUFFICES ASSUME Init5 PROVE PreemptInv OBVIOUS
  <1>1. \A r \in Regs5 : Val(ZERO5, 0, r) \in Vals /\ Val(ZERO5, 0, r).by = ZERO5 BY Vals5
  <1>2. TypeOK5
    BY <1>1, RegFacts, NTask5Assumption DEF Init5, TypeOK5, Zeroed, Owners5, Tasks5, Locs5
  <1>3. TrapInv5 BY DEF Init5, TrapInv5
  <1>4. SwitchInv BY <1>1, RegFacts DEF Init5, SwitchInv, Stacks5, Zeroed, OS5
  <1>5. ControlInv5 BY NTask5Assumption DEF Init5, ControlInv5
  <1>6. QED BY <1>2, <1>3, <1>4, <1>5 DEF PreemptInv

\* What a call of sys_switch does: it suspends old and resumes, or starts, new.
LEMMA Switch5Facts ==
    ASSUME PreemptInv, NEW old \in Stacks5, NEW new \in Stacks5, new # old, owner5 = old,
           regs5["sp"].by = old, \A r \in Switched : regs5[r] = kept5[old][r],
           Switch5(old, new), UNCHANGED <<kept5, taskTop5>>
    PROVE  /\ owner5' = new
           /\ regs5' \in [Regs5 -> Vals]
           /\ ctxs5' \in [Owners5 -> [Switched -> Vals]]
           /\ frame5' \in [Owners5 -> [{"ra", "s0"} -> Vals]]
           /\ Suspended(old)' /\ ctxs5'[old]["sp"].by = old
           /\ \A o \in Stacks5 \ {old} : ctxs5'[o] = ctxs5[o] /\ frame5'[o] = frame5[o]
           /\ \A r \in Switched : regs5'[r] = ctxs5[new][r]
           /\ pc5' = IF ctxs5[new]["ra"].by = KERNEL THEN "unwind" ELSE "user"
  <1> DEFINE in == Set5(regs5, KERNEL, 0, CallerSaved \cup {"ra", "s0"})
             saved == [ctxs5 EXCEPT ![old] = [r \in Switched |-> in[r]]]
  <1>1. /\ regs5 \in [Regs5 -> Vals] /\ ctxs5 \in [Owners5 -> [Switched -> Vals]]
        /\ frame5 \in [Owners5 -> [{"ra", "s0"} -> Vals]]
        /\ ctxs5[new]["sp"].by = new
    BY DEF PreemptInv, TypeOK5, SwitchInv
  <1>2. Stacks5 \subseteq Owners5
    BY NTask5Assumption DEF PreemptInv, TypeOK5, Stacks5, Owners5, Tasks5
  <1>3. /\ frame5' = [frame5 EXCEPT ![old] = [r \in {"ra", "s0"} |-> regs5[r]]]
        /\ ctxs5' = saved /\ regs5' = Loaded(saved[new], in)
        /\ owner5' = saved[new]["sp"].by
        /\ pc5' = IF saved[new]["ra"].by = KERNEL THEN "unwind" ELSE "user"
    BY DEF Switch5
  <1>4. /\ in \in [Regs5 -> Vals] /\ in["ra"].by = KERNEL
        /\ \A r \in Switched \ {"ra", "s0"} : in[r] = regs5[r]
    <2> HIDE DEF in
    <2>1. 0 \in 0..1 /\ KERNEL \in Owners5 \cup {HANDLER, KERNEL, AREA, ZERO5} OBVIOUS
    <2>2. in \in [Regs5 -> Vals]
      BY <1>1, <2>1, Set5Facts DEF in
    <2>3. in["ra"].by = KERNEL
      BY <2>1, RegFacts, Vals5 DEF in, Set5
    <2>4. ASSUME NEW r \in Switched \ {"ra", "s0"} PROVE in[r] = regs5[r]
      <3>1. r \in Regs5 /\ r \notin CallerSaved \cup {"ra", "s0"} BY RegFacts
      <3>2. QED BY <3>1 DEF in, Set5
    <2>5. QED BY <2>2, <2>3, <2>4
  <1> HIDE DEF in
  <1>5. /\ saved \in [Owners5 -> [Switched -> Vals]] /\ saved[new] = ctxs5[new]
        /\ saved[old] = [r \in Switched |-> in[r]]
        /\ \A o \in Stacks5 \ {old} : saved[o] = ctxs5[o]
    BY <1>1, <1>2, <1>4, RegFacts
  <1>6. regs5' \in [Regs5 -> Vals] /\ \A r \in Switched : regs5'[r] = ctxs5[new][r]
    BY <1>1, <1>2, <1>3, <1>4, <1>5, RegFacts DEF Loaded
  <1>7. /\ frame5' \in [Owners5 -> [{"ra", "s0"} -> Vals]]
        /\ \A r \in {"ra", "s0"} : frame5'[old][r] = regs5[r]
        /\ \A o \in Stacks5 \ {old} : frame5'[o] = frame5[o]
    BY <1>1, <1>2, <1>3, RegFacts
  <1>8. Suspended(old)' /\ ctxs5'[old]["sp"].by = old
    <2>1. \A r \in Switched : ctxs5'[old][r] = in[r] BY <1>3, <1>5
    <2>2. QED BY <1>4, <1>7, <2>1, RegFacts DEF Suspended
  <1>9. QED BY <1>1, <1>3, <1>5, <1>6, <1>7, <1>8

LEMMA BootSteps5 ==
    ASSUME PreemptInv, UserInit5 \/ TrapInit5 \/ TimerInit5 \/ Back5
    PROVE  PreemptInv'
  <1>1. CASE UserInit5
    <2>1. /\ taskTop5 \in Nat /\ taskTop5 \in Tasks5 /\ taskTop5 \in Owners5 /\ taskTop5 # OS5
          /\ owner5 = OS5 /\ OS5 \in Owners5 /\ pc5 = "user_init" /\ taskTop5' = taskTop5 + 1
          /\ pc5' = IF taskTop5' < NTask5 THEN "user_init" ELSE "trap_init"
          /\ ctxs5' = [ctxs5 EXCEPT ![taskTop5] = TaskContext5(taskTop5)]
          /\ ctxs5 \in [Owners5 -> [Switched -> Vals]]
          /\ UNCHANGED <<owner5, regs5, irq5, mscratch5, timer_scratch, ctx_now5, current_task5,
                         frame5, kept5>>
      BY <1>1, NTask5Assumption
      DEF UserInit5, PreemptInv, ControlInv5, TypeOK5, Tasks5, Owners5, OS5
    <2>2. /\ TaskContext5(taskTop5) \in [Switched -> Vals]
          /\ TaskContext5(taskTop5)["ra"].by = taskTop5
          /\ TaskContext5(taskTop5)["sp"].by = taskTop5
      <3>1. \A r \in Switched : /\ Val(taskTop5, 0, r) \in Vals /\ Val(ZERO5, 0, r) \in Vals
                                 /\ Val(taskTop5, 0, r).by = taskTop5
        <4>1. /\ taskTop5 \in Owners5 \cup {HANDLER, KERNEL, AREA, ZERO5}
              /\ ZERO5 \in Owners5 \cup {HANDLER, KERNEL, AREA, ZERO5} /\ 0 \in 0..1
          BY <2>1
        <4>2. \A r \in Switched : r \in Regs5 BY RegFacts
        <4>3. QED BY <4>1, <4>2, Vals5
      <3>2. QED BY <3>1, RegFacts DEF TaskContext5
    <2>3. Stacks5' = Stacks5 \cup {taskTop5} /\ taskTop5 \notin Stacks5 /\ Stacks5 \subseteq Owners5
      BY <2>1, NTask5Assumption DEF Stacks5, OS5, Owners5, Tasks5
    <2>4. \A o \in Stacks5 : ctxs5'[o] = ctxs5[o] BY <2>1, <2>3
    <2>5. ctxs5'[taskTop5] = TaskContext5(taskTop5) BY <2>1
    <2>6. SwitchInv'
      BY <2>1, <2>2, <2>3, <2>4, <2>5 DEF PreemptInv, SwitchInv, Suspended, Fresh5
    <2>7. TypeOK5'
      <3>1. ctxs5' \in [Owners5 -> [Switched -> Vals]] BY <2>1, <2>2
      <3>2. taskTop5' \in 0..NTask5 BY <2>1, NTask5Assumption DEF Tasks5
      <3>3. pc5' \in Locs5 BY <2>1 DEF Locs5
      <3>4. QED BY <2>1, <3>1, <3>2, <3>3 DEF PreemptInv, TypeOK5
    <2>8. TrapInv5' /\ ControlInv5'
      BY <2>1, NTask5Assumption DEF PreemptInv, TrapInv5, ControlInv5, TypeOK5
    <2>9. QED BY <2>6, <2>7, <2>8 DEF PreemptInv
  <1>2. CASE TrapInit5
    BY <1>2 DEF TrapInit5, PreemptInv, TypeOK5, Locs5, TrapInv5, SwitchInv, ControlInv5, Suspended,
       Fresh5, Stacks5
  <1>3. CASE TimerInit5
    BY <1>3, Vals5 DEF TimerInit5, PreemptInv, TypeOK5, Locs5, TrapInv5, SwitchInv, ControlInv5,
       Suspended, Fresh5, Stacks5
  <1>4. CASE Back5
    <2>1. current_task5' \in Tasks5
      BY <1>4, NTask5Assumption DEF Back5, PreemptInv, ControlInv5, TypeOK5, Tasks5
    <2>2. QED
      BY <1>4, <2>1 DEF Back5, PreemptInv, TypeOK5, Locs5, TrapInv5, SwitchInv, ControlInv5,
         Suspended, Fresh5, Stacks5
  <1> QED BY <1>1, <1>2, <1>3, <1>4

\* Code of owner5 computes with any register; its stack stays its own.
LEMMA Computed ==
    ASSUME PreemptInv, NEW b \in 0..1
    PROVE  /\ Set5(regs5, owner5, b, Regs5) \in [Regs5 -> Vals]
           /\ Set5(regs5, owner5, b, Regs5)["sp"].by = owner5
  BY Vals5, RegFacts DEF PreemptInv, TypeOK5, Set5

LEMMA CodeSteps5 ==
    ASSUME PreemptInv, OsMain5 \/ UserTask5
    PROVE  PreemptInv'
  <1>1. CASE OsMain5
    <2>1. PICK b \in 0..1 : /\ regs5' = Set5(regs5, OS5, b, Regs5)
                            /\ kept5' = [kept5 EXCEPT ![OS5] = regs5']
      BY <1>1 DEF OsMain5
    <2>2. owner5 = OS5 /\ OS5 \in Owners5 BY <1>1 DEF OsMain5, PreemptInv, ControlInv5, Owners5
    <2>3. regs5' \in [Regs5 -> Vals] /\ regs5'["sp"].by = OS5 BY <2>1, <2>2, Computed
    <2>4. /\ kept5' \in [Owners5 -> [Regs5 -> Vals]] /\ kept5'[OS5] = regs5'
          /\ \A o : o # OS5 => kept5'[o] = kept5[o]
      BY <2>1, <2>2, <2>3 DEF PreemptInv, TypeOK5
    <2>5. pc5' = "task_go" /\ UNCHANGED <<owner5, irq5, mscratch5, timer_scratch, ctxs5, ctx_now5,
                                          current_task5, taskTop5, frame5>> /\ pc5 = "os_main"
      BY <1>1 DEF OsMain5
    <2>6. TypeOK5' BY <2>3, <2>4, <2>5 DEF PreemptInv, TypeOK5, Locs5
    <2>7. TrapInv5' /\ ControlInv5'
      BY <2>2, <2>3, <2>4, <2>5 DEF PreemptInv, TrapInv5, ControlInv5
    <2>8. SwitchInv'
      BY <2>2, <2>3, <2>4, <2>5 DEF PreemptInv, SwitchInv, Suspended, Fresh5, Stacks5
    <2>9. QED BY <2>6, <2>7, <2>8 DEF PreemptInv
  <1>2. CASE UserTask5
    <2>1. PICK b \in 0..1 : regs5' = Set5(regs5, owner5, b, Regs5) BY <1>2 DEF UserTask5
    <2>2. regs5' \in [Regs5 -> Vals] /\ regs5'["sp"].by = owner5 BY <2>1, Computed
    <2>3. QED
      BY <1>2, <2>2 DEF UserTask5, PreemptInv, TypeOK5, TrapInv5, SwitchInv, ControlInv5,
         Suspended, Fresh5, Stacks5
  <1> QED BY <1>1, <1>2

LEMMA SwitchSteps5 ==
    ASSUME PreemptInv, TaskGo5 \/ OsKernel5
    PROVE  PreemptInv'
  <1>1. PICK old \in Stacks5, new \in Stacks5 :
        /\ Switch5(old, new) /\ new # old /\ owner5 = old
        /\ ctx_now5' = new /\ pc5 \in {"task_go", "os_kernel"} /\ new \in Owners5
        /\ UNCHANGED <<irq5, mscratch5, timer_scratch, current_task5, taskTop5, kept5>>
    <2>1. CASE TaskGo5
      <3>1. current_task5 \in Stacks5 /\ current_task5 # OS5 /\ current_task5 \in Owners5
        BY <2>1, NTask5Assumption DEF TaskGo5, PreemptInv, ControlInv5, TypeOK5, Stacks5, Tasks5,
           Owners5, OS5
      <3>2. QED BY <2>1, <3>1 DEF TaskGo5, PreemptInv, ControlInv5, Stacks5
    <2>2. CASE OsKernel5
      BY <2>2 DEF OsKernel5, PreemptInv, ControlInv5, SwitchInv, Stacks5, Owners5
    <2>3. QED BY <2>1, <2>2
  <1>2. regs5["sp"].by = old /\ \A r \in Switched : regs5[r] = kept5[old][r]
    BY <1>1, RegFacts DEF PreemptInv, ControlInv5, TrapInv5, TaskGo5, OsKernel5
  <1>3. /\ owner5' = new
        /\ regs5' \in [Regs5 -> Vals]
        /\ ctxs5' \in [Owners5 -> [Switched -> Vals]]
        /\ frame5' \in [Owners5 -> [{"ra", "s0"} -> Vals]]
        /\ Suspended(old)' /\ ctxs5'[old]["sp"].by = old
        /\ \A o \in Stacks5 \ {old} : ctxs5'[o] = ctxs5[o] /\ frame5'[o] = frame5[o]
        /\ \A r \in Switched : regs5'[r] = ctxs5[new][r]
        /\ pc5' = IF ctxs5[new]["ra"].by = KERNEL THEN "unwind" ELSE "user"
    BY <1>1, <1>2, Switch5Facts
  <1>4. Suspended(new) \/ Fresh5(new) BY <1>1 DEF PreemptInv, SwitchInv
  <1>5. ctxs5[new]["sp"].by = new BY <1>1 DEF PreemptInv, SwitchInv
  <1>6. TypeOK5' BY <1>1, <1>3 DEF PreemptInv, TypeOK5, Locs5
  <1>7. TrapInv5' BY <1>1, <1>3 DEF PreemptInv, TrapInv5
  <1>8. SwitchInv'
    <2>1. Stacks5' = Stacks5 BY <1>1 DEF Stacks5
    <2>2. regs5'["sp"].by = new BY <1>3, <1>5, RegFacts
    <2>3. ASSUME NEW o \in Stacks5 \ {new}
          PROVE  (Suspended(o)' \/ Fresh5(o)') /\ ctxs5'[o]["sp"].by = o
      <3>1. CASE o = old BY <1>3, <3>1
      <3>2. CASE o # old
        BY <1>1, <1>3, <2>3, <3>2 DEF PreemptInv, SwitchInv, Suspended, Fresh5
      <3>3. QED BY <3>1, <3>2
    <2>4. QED BY <1>1, <1>3, <2>1, <2>2, <2>3 DEF SwitchInv
  <1>9. ControlInv5'
    <2>1. CASE Suspended(new)
      <3>1. pc5' = "unwind" BY <1>3, <2>1 DEF Suspended
      <3>2. \A r \in Switched \ {"ra", "s0"} : regs5'[r] = kept5'[owner5'][r]
        BY <1>1, <1>3, <2>1 DEF Suspended
      <3>3. \A r \in {"ra", "s0"} : frame5'[owner5'][r] = kept5'[owner5'][r]
        BY <1>1, <1>3, <2>1 DEF Suspended
      <3>4. QED
        BY <1>1, <1>3, <1>5, <3>1, <3>2, <3>3, RegFacts DEF PreemptInv, ControlInv5
    <2>2. CASE Fresh5(new) /\ ~Suspended(new)
      <3>1. new # KERNEL BY <1>1 DEF Owners5, Tasks5, OS5, KERNEL
      <3>2. pc5' = "user" /\ new # OS5 BY <1>3, <2>2, <3>1 DEF Fresh5
      <3>3. QED BY <1>1, <1>3, <1>5, <3>2, RegFacts DEF PreemptInv, ControlInv5
    <2>3. QED BY <1>4, <2>1, <2>2
  <1>10. QED BY <1>6, <1>7, <1>8, <1>9 DEF PreemptInv

\* The epilogues give back the two registers that the kernel has used.
LEMMA UnwindStep5 ==
    ASSUME PreemptInv, Unwind5
    PROVE  /\ PreemptInv'
           /\ \A r \in Switched : regs5'[r] = kept5[owner5][r]
  <1>1. /\ pc5 = "unwind" /\ pc5' = IF owner5 = OS5 THEN "back" ELSE "user"
        /\ regs5' = [regs5 EXCEPT !["ra"] = frame5[owner5]["ra"], !["s0"] = frame5[owner5]["s0"]]
        /\ regs5 \in [Regs5 -> Vals]
        /\ frame5[owner5]["ra"] \in Vals /\ frame5[owner5]["s0"] \in Vals
        /\ UNCHANGED <<owner5, irq5, mscratch5, timer_scratch, ctxs5, ctx_now5, current_task5,
                       taskTop5, frame5, kept5>>
    BY DEF Unwind5, PreemptInv, TypeOK5
  <1>2. regs5' \in [Regs5 -> Vals] /\ regs5'["sp"] = regs5["sp"] BY <1>1, RegFacts
  <1>3. \A r \in Switched : regs5'[r] = kept5[owner5][r]
    BY <1>1, RegFacts DEF PreemptInv, ControlInv5
  <1>4. TypeOK5' BY <1>1, <1>2 DEF PreemptInv, TypeOK5, Locs5
  <1>5. TrapInv5' BY <1>1 DEF PreemptInv, TrapInv5
  <1>6. SwitchInv' BY <1>1, <1>2 DEF PreemptInv, SwitchInv, Suspended, Fresh5, Stacks5
  <1>7. ControlInv5' BY <1>1, <1>2 DEF PreemptInv, ControlInv5
  <1>8. QED BY <1>3, <1>4, <1>5, <1>6, <1>7 DEF PreemptInv

LEMMA TrapSteps5 ==
    ASSUME PreemptInv, TrapVector \/ TrapHandler5 \/ RegLoad
    PROVE  PreemptInv'
  <1>1. CASE TrapVector
    <2>1. /\ pc5 = "user" /\ pc5' = "handler" /\ irq5' \subseteq irq5
          /\ mscratch5 = Area /\ timer_scratch' = regs5'
          /\ regs5' = [regs5 EXCEPT !["t6"] = Area]
          /\ kept5' = [kept5 EXCEPT ![owner5] = regs5]
          /\ UNCHANGED <<owner5, mscratch5, ctxs5, ctx_now5, current_task5, taskTop5, frame5>>
      BY <1>1 DEF TrapVector, PreemptInv, TrapInv5
    <2>2. /\ regs5 \in [Regs5 -> Vals] /\ kept5 \in [Owners5 -> [Regs5 -> Vals]]
          /\ owner5 \in Owners5
      BY DEF PreemptInv, TypeOK5
    <2>3. /\ regs5' \in [Regs5 -> Vals] /\ regs5'["t6"] = Area /\ regs5'["sp"] = regs5["sp"]
          /\ \A r \in Regs5 \ {"t6"} : regs5'[r] = kept5'[owner5][r]
      BY <2>1, <2>2, Vals5, RegFacts
    <2>4. /\ kept5' \in [Owners5 -> [Regs5 -> Vals]]
          /\ \A o : o # owner5 => kept5'[o] = kept5[o]
      BY <2>1, <2>2
    <2>5. TypeOK5' BY <2>1, <2>3, <2>4 DEF PreemptInv, TypeOK5, Locs5
    <2>6. TrapInv5' BY <2>1, <2>3 DEF PreemptInv, TrapInv5
    <2>7. SwitchInv'
      BY <2>1, <2>3, <2>4 DEF PreemptInv, SwitchInv, Suspended, Fresh5, Stacks5
    <2>8. ControlInv5' BY <2>1, <2>3 DEF PreemptInv, ControlInv5
    <2>9. QED BY <2>5, <2>6, <2>7, <2>8 DEF PreemptInv
  <1>2. CASE TrapHandler5
    <2>1. /\ regs5' \in [Regs5 -> Vals] /\ regs5'["tp"] = regs5["tp"]
          /\ regs5'["sp"] = regs5["sp"]
      <3>1. regs5 \in [Regs5 -> Vals] BY DEF PreemptInv, TypeOK5
      <3>2. regs5' = Set5(regs5, HANDLER, 0, CallerSaved \cup {"ra"}) BY <1>2 DEF TrapHandler5
      <3>3. \A r \in Regs5 : Val(HANDLER, 0, r) \in Vals BY Vals5
      <3>4. QED BY <3>1, <3>2, <3>3, RegFacts DEF Set5
    <2>2. TypeOK5' BY <1>2, <2>1 DEF TrapHandler5, PreemptInv, TypeOK5, Locs5
    <2>3. TrapInv5'
      <3>1. regs5["sp"] = kept5[owner5]["sp"] /\ regs5["sp"].by = owner5
        BY <1>2, RegFacts DEF TrapHandler5, PreemptInv, TrapInv5, ControlInv5
      <3>2. QED BY <1>2, <2>1, <3>1, RegFacts DEF TrapHandler5, PreemptInv, TrapInv5
    <2>4. SwitchInv'
      BY <1>2, <2>1 DEF TrapHandler5, PreemptInv, SwitchInv, Suspended, Fresh5, Stacks5
    <2>5. ControlInv5' BY <1>2, <2>1 DEF TrapHandler5, PreemptInv, ControlInv5
    <2>6. QED BY <2>2, <2>3, <2>4, <2>5 DEF PreemptInv
  <1>3. CASE RegLoad
    <2>1. /\ pc5 = "reg_load" /\ pc5' = "os_kernel" /\ irq5' = irq5 \cup {"MIE"}
          /\ regs5' = Restored(timer_scratch, regs5)
          /\ UNCHANGED <<owner5, mscratch5, timer_scratch, ctxs5, ctx_now5, current_task5,
                         taskTop5, frame5, kept5>>
      BY <1>3 DEF RegLoad
    <2>2. regs5 \in [Regs5 -> Vals] /\ timer_scratch \in [Regs5 -> Vals]
      BY DEF PreemptInv, TypeOK5
    <2>3. /\ regs5' \in [Regs5 -> Vals] /\ regs5'["t6"] = Area
          /\ \A r \in Regs5 \ {"t6"} : regs5'[r] = kept5'[owner5][r]
      BY <2>1, <2>2, RegFacts DEF Restored, PreemptInv, TrapInv5
    <2>4. regs5'["sp"].by = owner5
      BY <2>1, <2>3, RegFacts DEF PreemptInv, TrapInv5
    <2>5. TypeOK5' BY <2>1, <2>3 DEF PreemptInv, TypeOK5, Locs5
    <2>6. TrapInv5' BY <2>1, <2>3 DEF PreemptInv, TrapInv5
    <2>7. SwitchInv' BY <2>1, <2>4 DEF PreemptInv, SwitchInv, Suspended, Fresh5, Stacks5
    <2>8. ControlInv5' BY <2>1, <2>4 DEF PreemptInv, ControlInv5
    <2>9. QED BY <2>5, <2>6, <2>7, <2>8 DEF PreemptInv
  <1> QED BY <1>1, <1>2, <1>3

\* What the traps and the switches rest on.
THEOREM PreemptInvariance == Spec5 => []PreemptInv
  <1>1. PreemptInv /\ [Next5]_vars5 => PreemptInv'
    <2> SUFFICES ASSUME PreemptInv, [Next5]_vars5 PROVE PreemptInv'
      OBVIOUS
    <2>1. CASE UNCHANGED vars5
      BY <2>1 DEF vars5, PreemptInv, TypeOK5, TrapInv5, SwitchInv, ControlInv5, Suspended,
         Fresh5, Stacks5
    <2>2. QED
      BY <2>1, BootSteps5, CodeSteps5, SwitchSteps5, UnwindStep5, TrapSteps5 DEF Next5
  <1>2. QED BY <1>1, InitPreempt, PTL DEF Spec5

\* A trap gives back every register but t6, for any number of tasks.
THEOREM TrapKeepsRegisters == Spec5 => []TrapLosesOnlyT6
  <1>1. PreemptInv => TrapLosesOnlyT6 BY DEF PreemptInv, TrapInv5, TrapLosesOnlyT6
  <1>2. QED BY <1>1, PreemptInvariance, PTL

\* Who is switched away comes back to its own stack, return address and callee-saved
\* registers, for any number of tasks.
THEOREM SwitchesKeepRegisters == Spec5 => SwitchKeepsCalleeSaved
  <1>1. PreemptInv /\ [Next5]_vars5 =>
            [pc5 = "unwind" => \A r \in Switched : regs5'[r] = kept5[owner5][r]]_vars5
    <2> SUFFICES ASSUME PreemptInv, Next5, pc5 = "unwind"
                 PROVE  \A r \in Switched : regs5'[r] = kept5[owner5][r]
      OBVIOUS
    <2>1. Unwind5
      BY DEF Next5, UserInit5, TrapInit5, TimerInit5, OsMain5, TaskGo5, OsKernel5, Back5,
         UserTask5, TrapVector, TrapHandler5, RegLoad
    <2>2. QED BY <2>1, UnwindStep5
  <1>2. QED BY <1>1, PreemptInvariance, PTL DEF Spec5, SwitchKeepsCalleeSaved

\* Every variable keeps its type, for any number of tasks.
THEOREM PreemptTyped == Spec5 => []TypeOK5
  <1>1. PreemptInv => TypeOK5 BY DEF PreemptInv
  <1>2. QED BY <1>1, PreemptInvariance, PTL

-----------------------------------------------------------------------------
(* Timer: 04-TimerInterrupt                                                 *)

\* The interval fits into the low word behind the start of the program.
FirstTickFits == Word4 > Interval4 + Lag4
\* The low word of mtime never gets so far that the next tick does not fit.
NoWrap == Word4 > Horizon4 + Interval4

\* Until timer_init has returned the next interrupt is still ahead.
BootInv ==
    /\ pc4 = "os_main" => mtime = 0
    /\ pc4 = "arm" => mtime <= Lag4
    /\ pc4 \in {"os_main", "arm"} => mtimecmp = 0 /\ armed = 0
    /\ pc4 \in {"mtvec", "mie", "mtie", "w_mie"} => mtimecmp = armed + Interval4
    /\ pc4 = "mtvec" => mtime <= armed + Lag4
    /\ pc4 = "mie" => mtime <= armed + (2 * Lag4)
    /\ pc4 = "mtie" => mtime <= armed + (3 * Lag4)
    /\ pc4 = "w_mie" => mtime <= armed + (4 * Lag4)

CsrInv ==
    /\ pc4 \in BootLocs4 \ {"w_mie"} => ~MTIE4
    /\ pc4 \notin {"os_main", "arm", "mtvec"} => mtvec4
    /\ pc4 \in HandlerLocs => mepc4 = "loop"
    /\ pc4 # "lost"

\* From the first arming on mtimecmp lies an interval behind the last one, and a
\* handler that has not rearmed the timer yet runs because mtime has reached it.
SpacingInv ==
    /\ pc4 \notin {"os_main", "arm"} => mtimecmp = armed + Interval4
    /\ pc4 \in {"os_main", "arm"} => mtimecmp = 0 /\ ~MTIE4
    /\ pc4 \in {"disable", "count"} => mtime >= mtimecmp

\* What lies in the low word is its own low word.
LEMMA LowWord ==
    ASSUME NEW x \in Nat, Word4 > x
    PROVE  Low(x) = x /\ High(x) = 0 /\ x % Word4 = x
  <1>1. x % Word4 = x /\ x \div Word4 = 0
    BY WordAssumption
  <1>2. QED BY <1>1 DEF Low, High

\* The hart takes at most Lag4 cycles, and mtime stops at Horizon4.
LEMMA Passing ==
    ASSUME Passes, mtime \in 0..Horizon4
    PROVE  mtime' \in 0..Horizon4 /\ mtime <= mtime' /\ mtime' <= mtime + Lag4
  BY Interval4Assumption, HorizonAssumption DEF Passes

\* As long as the sum fits, arming the timer sets it an interval ahead.
LEMMA Armed ==
    ASSUME mtime \in Nat, mtimecmp \in Nat, Word4 > mtimecmp, Word4 > mtime + Interval4
    PROVE  Timecmp = mtime + Interval4
  <1>1. mtime + Interval4 \in Nat /\ Word4 > mtime /\ Interval4 \in Nat
    BY Interval4Assumption, WordAssumption
  <1>2. Low(mtime) = mtime /\ High(mtimecmp) = 0 /\ (mtime + Interval4) % Word4 = mtime + Interval4
    BY <1>1, LowWord
  <1>3. QED BY <1>1, <1>2, WordAssumption DEF Timecmp

LEMMA TimecmpType ==
    ASSUME mtime \in Nat, mtimecmp \in Nat
    PROVE  Timecmp \in Nat
  <1>1. Low(mtime) \in Nat /\ High(mtimecmp) \in Nat
    BY WordAssumption DEF Low, High
  <1>2. (Low(mtime) + Interval4) % Word4 \in Nat
    BY <1>1, WordAssumption, Interval4Assumption
  <1>3. High(mtimecmp) * Word4 \in Nat BY <1>1, WordAssumption
  <1>4. QED BY <1>2, <1>3 DEF Timecmp

-----------------------------------------------------------------------------
(* Types                                                                    *)

LEMMA TimerTypesInit == ASSUME Init4 PROVE TypeOK4
  <1>1. 0 \in 0..Horizon4 BY HorizonAssumption
  <1>2. QED BY <1>1 DEF Init4, TypeOK4, Locs4, BootLocs4

LEMMA TimerTypesStep == ASSUME TypeOK4, [Next4]_vars4 PROVE TypeOK4'
  <1> USE DEF TypeOK4, Locs4, BootLocs4, HandlerLocs, csrs4
  <1>1. CASE OsMain4 BY <1>1, Passing DEF OsMain4, Runs4
  <1>2. CASE TimerInit4
    BY <1>2, Passing, TimecmpType, HorizonAssumption DEF TimerInit4, Runs4, AfterArm
  <1>3. CASE WriteMtvec BY <1>3, Passing DEF WriteMtvec, Runs4
  <1>4. CASE WriteMstatus BY <1>4, Passing DEF WriteMstatus, Runs4
  <1>5. CASE WriteMie BY <1>5, Passing DEF WriteMie, Runs4
  <1>6. CASE ReturnFromInit BY <1>6, Passing DEF ReturnFromInit, Runs4
  <1>7. CASE Loop4 BY <1>7, Passing DEF Loop4, Runs4
  <1>8. CASE TakeTimer4 BY <1>8 DEF TakeTimer4
  <1>9. CASE DisableMtie BY <1>9, Passing DEF DisableMtie, Handles
  <1>10. CASE Count BY <1>10, Passing DEF Count, Handles
  <1>11. CASE Rearm BY <1>11, Passing, TimecmpType, HorizonAssumption DEF Rearm, Handles
  <1>12. CASE EnableMtie BY <1>12, Passing DEF EnableMtie, HandlerEnd, Handles
  <1>13. CASE Mret4 BY <1>13, Passing DEF Mret4, Handles
  <1>14. CASE UNCHANGED vars4 BY <1>14 DEF vars4
  <1>15. QED
    BY <1>1, <1>2, <1>3, <1>4, <1>5, <1>6, <1>7, <1>8, <1>9, <1>10, <1>11, <1>12, <1>13,
       <1>14 DEF Next4

\* The timer's variables keep their types.
THEOREM TimerTyped == Spec4 => []TypeOK4
  BY TimerTypesInit, TimerTypesStep, PTL DEF Spec4

-----------------------------------------------------------------------------
(* Where the interrupts hit                                                 *)

LEMMA HitsInit == ASSUME Init4 PROVE BootInv /\ CsrInv
  BY DEF Init4, BootInv, CsrInv, BootLocs4, HandlerLocs

LEMMA HitsStep ==
    ASSUME FirstTickFits, TypeOK4, BootInv, CsrInv, [Next4]_vars4
    PROVE  BootInv' /\ CsrInv'
  <1>0. /\ mtime \in 0..Horizon4 /\ mtime \in Nat /\ armed \in Nat /\ mtimecmp \in Nat
        /\ Lag4 \in Nat /\ Interval4 \in Nat /\ Interval4 > 4 * Lag4 /\ Word4 \in Nat
    BY HorizonAssumption, Interval4Assumption, WordAssumption DEF TypeOK4
  <1>1. CASE OsMain4
    BY <1>0, <1>1, Passing
    DEF OsMain4, Runs4, BootInv, CsrInv, BootLocs4, HandlerLocs, csrs4
  <1>2. CASE TimerInit4
    <2>1. mtime <= Lag4 /\ mtimecmp = 0 BY <1>2 DEF TimerInit4, Runs4, BootInv
    <2>2. mtimecmp' = armed' + Interval4
      BY <1>0, <1>2, <2>1, Armed DEF TimerInit4, FirstTickFits
    <2>3. mtime' <= armed' + Lag4 BY <1>0, <1>2, Passing DEF TimerInit4, Runs4
    <2>4. QED
      BY <1>2, <2>2, <2>3
      DEF TimerInit4, Runs4, AfterArm, BootInv, CsrInv, BootLocs4, HandlerLocs, csrs4
  <1>3. CASE WriteMtvec
    BY <1>0, <1>3, Passing DEF WriteMtvec, Runs4, BootInv, CsrInv, BootLocs4, HandlerLocs
  <1>4. CASE WriteMstatus
    BY <1>0, <1>4, Passing DEF WriteMstatus, Runs4, BootInv, CsrInv, BootLocs4, HandlerLocs
  <1>5. CASE WriteMie
    BY <1>0, <1>5, Passing DEF WriteMie, Runs4, BootInv, CsrInv, BootLocs4, HandlerLocs
  <1>6. CASE ReturnFromInit
    BY <1>6 DEF ReturnFromInit, Runs4, BootInv, CsrInv, BootLocs4, HandlerLocs, csrs4
  <1>7. CASE Loop4
    BY <1>7 DEF Loop4, Runs4, BootInv, CsrInv, BootLocs4, HandlerLocs, csrs4
  <1>8. CASE TakeTimer4
    <2>1. pc4 # "w_mie"
      BY <1>0, <1>8 DEF TakeTimer4, Interrupted, Pending, BootInv
    <2>2. pc4 = "loop"
      BY <1>8, <2>1 DEF TakeTimer4, Interrupted, CsrInv
    <2>3. QED BY <1>8, <2>2 DEF TakeTimer4, BootInv, CsrInv, BootLocs4, HandlerLocs
  <1>9. CASE DisableMtie
    BY <1>9 DEF DisableMtie, Handles, BootInv, CsrInv, BootLocs4, HandlerLocs
  <1>10. CASE Count
    BY <1>10 DEF Count, Handles, BootInv, CsrInv, BootLocs4, HandlerLocs, csrs4
  <1>11. CASE Rearm
    BY <1>11 DEF Rearm, Handles, BootInv, CsrInv, BootLocs4, HandlerLocs, csrs4
  <1>12. CASE EnableMtie
    BY <1>12 DEF EnableMtie, HandlerEnd, Handles, BootInv, CsrInv, BootLocs4, HandlerLocs
  <1>13. CASE Mret4
    BY <1>13 DEF Mret4, Handles, BootInv, CsrInv, BootLocs4, HandlerLocs
  <1>14. CASE UNCHANGED vars4 BY <1>14 DEF vars4, csrs4, BootInv, CsrInv
  <1>15. QED
    BY <1>1, <1>2, <1>3, <1>4, <1>5, <1>6, <1>7, <1>8, <1>9, <1>10, <1>11, <1>12, <1>13,
       <1>14 DEF Next4

\* The handler that saves no register hits nothing but os_main's loop, whatever the
\* interval, as long as it is longer than the rest of timer_init takes and fits into
\* one word.
THEOREM HitsLoopOnly == ASSUME FirstTickFits PROVE Spec4 => []TimerHitsLoopOnly
  <1>1. BootInv /\ CsrInv => TimerHitsLoopOnly
    BY DEF CsrInv, TimerHitsLoopOnly, HandlerLocs
  <1>2. Init4 => TypeOK4 /\ BootInv /\ CsrInv BY TimerTypesInit, HitsInit
  <1>3. (TypeOK4 /\ BootInv /\ CsrInv) /\ [Next4]_vars4
        => (TypeOK4 /\ BootInv /\ CsrInv)'
    BY TimerTypesStep, HitsStep
  <1>4. QED BY <1>1, <1>2, <1>3, PTL DEF Spec4

-----------------------------------------------------------------------------
(* Ticks                                                                    *)

LEMMA SpacingStep ==
    ASSUME NoWrap, TypeOK4, SpacingInv, [Next4]_vars4
    PROVE  SpacingInv'
  <1>0. /\ mtime \in 0..Horizon4 /\ mtime \in Nat /\ armed \in 0..Horizon4 /\ mtimecmp \in Nat
        /\ Lag4 \in Nat /\ Interval4 \in Nat /\ Word4 \in Nat /\ Horizon4 \in Nat
    BY HorizonAssumption, Interval4Assumption, WordAssumption DEF TypeOK4
  <1>00. Word4 > mtimecmp /\ Word4 > mtime + Interval4
    BY <1>0 DEF SpacingInv, NoWrap
  <1>1. CASE OsMain4 BY <1>1 DEF OsMain4, Runs4, SpacingInv, csrs4
  <1>2. CASE TimerInit4
    BY <1>0, <1>00, <1>2, Armed DEF TimerInit4, Runs4, AfterArm, SpacingInv
  <1>3. CASE WriteMtvec BY <1>3 DEF WriteMtvec, Runs4, SpacingInv
  <1>4. CASE WriteMstatus BY <1>4 DEF WriteMstatus, Runs4, SpacingInv
  <1>5. CASE WriteMie BY <1>5 DEF WriteMie, Runs4, SpacingInv
  <1>6. CASE ReturnFromInit BY <1>6 DEF ReturnFromInit, Runs4, SpacingInv
  <1>7. CASE Loop4 BY <1>7 DEF Loop4, Runs4, SpacingInv
  <1>8. CASE TakeTimer4
    BY <1>0, <1>8 DEF TakeTimer4, Interrupted, Pending, SpacingInv
  <1>9. CASE DisableMtie BY <1>0, <1>9, Passing DEF DisableMtie, Handles, SpacingInv
  <1>10. CASE Count BY <1>10 DEF Count, Handles, SpacingInv
  <1>11. CASE Rearm BY <1>0, <1>00, <1>11, Armed DEF Rearm, Handles, SpacingInv
  <1>12. CASE EnableMtie BY <1>12 DEF EnableMtie, HandlerEnd, Handles, SpacingInv
  <1>13. CASE Mret4 BY <1>13 DEF Mret4, Handles, SpacingInv
  <1>14. CASE UNCHANGED vars4 BY <1>14 DEF vars4, csrs4, SpacingInv
  <1>15. QED
    BY <1>1, <1>2, <1>3, <1>4, <1>5, <1>6, <1>7, <1>8, <1>9, <1>10, <1>11, <1>12, <1>13,
       <1>14 DEF Next4

\* A tick counts only when a whole interval has passed since the one before armed
\* the timer.
LEMMA CountedLate ==
    ASSUME TypeOK4, SpacingInv, [Next4]_vars4
    PROVE  timer_count' # timer_count => mtime >= armed + Interval4
  <1>1. SUFFICES ASSUME timer_count' # timer_count PROVE mtime >= armed + Interval4
    OBVIOUS
  <1>2. Count
    BY <1>1
    DEF Next4, vars4, OsMain4, TimerInit4, WriteMtvec, WriteMstatus, WriteMie, ReturnFromInit,
        Loop4, TakeTimer4, DisableMtie, Rearm, EnableMtie, Mret4
  <1>3. QED BY <1>2 DEF Count, Handles, SpacingInv

\* Ticks are an interval apart for as long as no sum wraps in the low word of mtime:
\* the wrap is the only reason for which the run timer_wrap fails.
THEOREM TicksSpacedUntilWrap == ASSUME NoWrap PROVE Spec4 => TicksSpaced
  <1>1. Init4 => TypeOK4 /\ SpacingInv
    <2>1. ASSUME Init4 PROVE SpacingInv BY <2>1 DEF Init4, SpacingInv
    <2>2. QED BY <2>1, TimerTypesInit
  <1>2. (TypeOK4 /\ SpacingInv) /\ [Next4]_vars4 => (TypeOK4 /\ SpacingInv)'
    BY TimerTypesStep, SpacingStep
  <1>3. (TypeOK4 /\ SpacingInv) /\ [Next4]_vars4
        => [timer_count' # timer_count => mtime >= armed + Interval4]_vars4
    BY CountedLate
  <1>4. QED BY <1>1, <1>2, <1>3, PTL DEF Spec4, TicksSpaced
=============================================================================
