---------------------------- MODULE KernelProofs ----------------------------
(***************************************************************************)
(* Proofs about Kernel: its inductive invariant, the safety properties     *)
(* that follow, and that it implements RoundRobin, for every number of     *)
(* tasks and every period that meets IntervalAssumption.                   *)
(***************************************************************************)
EXTENDS Kernel, TLAPS

USE NTaskAssumption, SyscallTasksAssumption, StackAssumption, DiskAssumption, IntervalAssumption,
    KeysAssumption

\* The registers of the code below the trap, if there is one.
Trapped == pc \in {"trap", "mret"}
RaOf == IF Trapped THEN tf.ra ELSE ra
A0Of == IF Trapped THEN tf.a0 ELSE a0

EarlyLocs == {"user_init", "plic_init", "virtio_disk_init", "timer_init"}

\* Steps the kernel still spends, at least, before user code runs again.
Slack(l) ==
    CASE l = "virtio_disk_rw" -> DiskLatency + 6
      [] l = "disk_wait" -> DiskLatency + 5
      [] l = "page_test" -> 5
      [] l = "os_main" -> 4
      [] l = "task_go" -> 3
      [] l = "go_switch" -> 2
      [] l = "unwind" -> 1
      [] l = "back" -> 5
      [] l = "os_switch" -> 6
      [] l = "task_os" -> 7
      [] l = "os_kernel" -> 8
      [] OTHER -> 0

\* The timer is never due before the kernel has handed over to a task.
Timing == "MTIE" \in mie => left >= Slack(Pos)

\* Traps return into code, and only after timer_init is there a timer.
TrapInv ==
    /\ Pos \in CodeLocs \cup {"hang", "overrun"}
    /\ mscratch <=> "MTIE" \in mie
    /\ mscratch <=> Pos \notin EarlyLocs \cup {"hang"}
    /\ pc \in {"user_init", "plic_init"} => ~MIE
    /\ pc \in {"trap", "mret"} => mscratch /\ tf.return_pc \in CodeLocs
    /\ pc = "trap" => /\ tf.return_pc = tf.epc
                      /\ tf.cause = "timer" => tf.epc \in UserLocs
                      /\ tf.cause = "ecall" => tf.epc = "gethid"
                      /\ tf.cause = "fault" => tf.epc \in {"lost", "wild"}

\* Who owns the stack at each place and where the return addresses lead.
ResumeLocs == RetLocs \cup StrayLocs
PointLocs == {"task", "call_gethid", "use_ret", "call_puts", "call_delay", "stray", "wild"}

StackInv ==
    /\ Pos \in UserLocs \cup YieldLocs \cup {"overrun"} => stk = current_task
    /\ Pos \notin UserLocs \cup YieldLocs \cup {"overrun"} => stk = OS
    /\ Pos \in PointLocs => RaOf = Pos
    /\ Pos = "body" => RaOf = "task"
    /\ Pos \in {"gethid", "gethid_ret"} => RaOf = "use_ret"
    /\ Pos = "puts" => RaOf \in {"puts", "call_delay"}
    /\ Pos = "putc" => RaOf \in {"puts", "stray"}
    /\ Pos = "delay" => RaOf = "call_puts"
    /\ Pos = "lost" => RaOf = "stray"
    /\ Pos = "os_kernel" => RaOf \in ResumeLocs
    /\ Pos \in {"task_os", "os_switch"} => RaOf = "unwind"
    /\ Pos \in {"task_os", "os_switch", "unwind"} => kra[stk] \in ResumeLocs
    /\ Pos \in {"task_go", "go_switch"} => RaOf = "back"
    /\ Pos = "go_switch" => ctx_now = current_task
    /\ IF Pos = "user_init" THEN pc = "user_init" /\ taskTop < NTask ELSE taskTop = NTask

\* What is on the stack: the frames of the code that runs or will go on, and the dead ones.
\* Where the timer's handler has fitted, four more frames fit on top of task_os.
DepthInv ==
    /\ stk = OS => depth = 0
    /\ ctxs[OS].depth = 0
    /\ Pos = "user_init" => \A o \in Owners : dead[o] = 0
    /\ Pos \in UserLocs => depth = Live(Pos) + dead[stk]
    /\ pc = "trap" /\ tf.cause = "timer" => depth + 6 <= StackFrames
    /\ Pos = "os_kernel" => depth = Live(RaOf) + dead[stk] /\ depth + 6 <= StackFrames
    /\ Pos = "task_os" => depth = Live(kra[stk]) + dead[stk] + 1 /\ depth + 5 <= StackFrames
    /\ Pos \in {"os_switch", "unwind"} => depth = Live(kra[stk]) + dead[stk] + 2
    /\ Pos \in {"os_switch", "unwind"} => depth + 4 <= StackFrames
    /\ \A t \in Tasks : ctxs[t].ra = "unwind" => ctxs[t].depth + 4 <= StackFrames
    /\ OnlyDeadFramesOverrun

\* Where a zero in a0 may pass for a result of gethid, hid has been written.
SyscallInv ==
    /\ Pos \in {"gethid_ret", "use_ret"} /\ A0Of = ZERO => hid[stk] = 0
    /\ Pos = "unwind" => A0Of = PTR
    /\ \A o \in Owners : ctxs[o].ra = "unwind" => ctxs[o].a0 = PTR
    /\ SyscallTruthful

IInv == /\ TypeOK /\ TrapInv /\ Timing
        /\ StackInv /\ DepthInv /\ ContextIntegrity /\ PreemptSavesRunner
        /\ SyscallInv

USE DEF BootLocs, LoopLocs, YieldLocs, UserLocs, CodeLocs, Locs, EarlyLocs, RetLocs,
        StrayLocs, ResumeLocs, PointLocs,
        OS, NULL, Tasks, Owners, ZERO, FAILED, PTR,
        hart, trapVars, schedVars, devVars, userVars

-----------------------------------------------------------------------------
(* What the switches do where they are taken.                               *)

LEMMA GoSwitchEffect ==
  ASSUME IInv, GoSwitch
  PROVE  /\ current_task \in Tasks /\ stk = OS /\ taskTop = NTask /\ Pos = "go_switch"
         /\ ctxs' = [ctxs EXCEPT ![OS] = [ra |-> "back", sp |-> OS, depth |-> 0, a0 |-> PTR]]
         /\ stk' = current_task /\ pc' = ctxs[current_task].ra /\ ra' = pc'
         /\ a0' = ctxs[current_task].a0 /\ depth' = ctxs[current_task].depth
         /\ \/ pc' = "task" /\ depth' = 0 /\ dead[current_task] = 0
            \/ /\ pc' = "unwind" /\ kra[current_task] \in ResumeLocs
               /\ depth' = Live(kra[current_task]) + dead[current_task] + 2
               /\ depth' + 4 <= StackFrames
<1>1. pc = "go_switch" /\ Pos = "go_switch" /\ stk = OS /\ ra = "back" /\ taskTop = NTask
      /\ depth = 0
  BY DEF IInv, StackInv, DepthInv, Pos, RaOf, Trapped, GoSwitch, At
<1>2. current_task \in Tasks /\ OS # current_task
  BY DEF IInv, TypeOK
<1>3. current_task \in 0..(taskTop - 1) /\ stk # current_task /\ taskTop \in Int
  BY <1>1, <1>2
<1>4. /\ ctxs[current_task].sp = current_task
      /\ \/ /\ ctxs[current_task].ra = "task"
            /\ ctxs[current_task].depth = 0 /\ dead[current_task] = 0
         \/ /\ ctxs[current_task].ra = "unwind" /\ kra[current_task] \in ResumeLocs
            /\ ctxs[current_task].depth = Live(kra[current_task]) + dead[current_task] + 2
            /\ ctxs[current_task].depth + 4 <= StackFrames
  BY <1>2, <1>3 DEF IInv, ContextIntegrity, DepthInv
<1>5. ctxs \in [Owners -> Context] /\ OS \in Owners /\ current_task \in Owners
  BY <1>2 DEF IInv, TypeOK
<1>6. ctxs' = [ctxs EXCEPT ![OS] = [ra |-> "back", sp |-> OS, depth |-> 0, a0 |-> PTR]]
      /\ ra' = ctxs'[current_task].ra /\ stk' = ctxs'[current_task].sp
      /\ a0' = ctxs'[current_task].a0 /\ pc' = ctxs'[current_task].ra
      /\ depth' = ctxs'[current_task].depth
  BY <1>1 DEF GoSwitch, SysSwitch, Saved
<1>7. ctxs'[current_task] = ctxs[current_task]
  BY <1>2, <1>5, <1>6
<1>. QED BY <1>1, <1>2, <1>4, <1>6, <1>7

LEMMA OsSwitchEffect ==
  ASSUME IInv, OsSwitch
  PROVE  /\ current_task \in Tasks /\ stk = current_task /\ taskTop = NTask
         /\ Pos = "os_switch" /\ kra[current_task] \in ResumeLocs
         /\ depth = Live(kra[current_task]) + dead[current_task] + 2
         /\ depth + 4 <= StackFrames
         /\ ctxs' = [ctxs EXCEPT ![current_task] =
                        [ra |-> "unwind", sp |-> current_task, depth |-> depth, a0 |-> PTR]]
         /\ stk' = OS /\ depth' = 0 /\ pc' = "back" /\ ra' = "back" /\ a0' = ctxs[OS].a0
<1>1. pc = "os_switch" /\ Pos = "os_switch" /\ stk = current_task /\ ra = "unwind"
      /\ kra[stk] \in ResumeLocs /\ taskTop = NTask
      /\ depth = Live(kra[stk]) + dead[stk] + 2 /\ depth + 4 <= StackFrames
  BY DEF IInv, StackInv, DepthInv, Pos, RaOf, Trapped, OsSwitch, At
<1>2. current_task \in Tasks /\ OS # current_task /\ NULL # current_task
  BY DEF IInv, TypeOK
<1>3. ctx = current_task /\ ctxs[OS].ra = "back" /\ ctxs[OS].sp = OS /\ ctxs[OS].depth = 0
  BY <1>1, <1>2 DEF IInv, ContextIntegrity, DepthInv, PreemptSavesRunner
<1>4. ctxs \in [Owners -> Context] /\ OS \in Owners /\ current_task \in Owners
  BY <1>2 DEF IInv, TypeOK
<1>5. ctxs' = [ctxs EXCEPT ![current_task] =
                  [ra |-> "unwind", sp |-> current_task, depth |-> depth, a0 |-> PTR]]
      /\ ra' = ctxs'[OS].ra /\ stk' = ctxs'[OS].sp /\ a0' = ctxs'[OS].a0 /\ pc' = ra'
      /\ depth' = ctxs'[OS].depth
  BY <1>1, <1>2, <1>3 DEF OsSwitch, SysSwitch, Saved
<1>6. ctxs'[OS] = ctxs[OS]
  BY <1>2, <1>4, <1>5
<1>. QED BY <1>1, <1>2, <1>3, <1>5, <1>6

\* Entering trap_vector keeps every variable in its type.
LEMMA TrapType ==
  ASSUME NEW cause \in {"none", "timer", "external", "ecall", "fault"},
         NEW num \in Nat, NEW arg \in {ZERO, FAILED, PTR},
         IInv, pc \in CodeLocs, Trap(cause, num, arg)
  PROVE  TypeOK'
<1>1. pc \in Locs /\ ra \in Locs /\ MIE \in BOOLEAN
  BY DEF IInv, TypeOK
<1>2. tf' \in TrapFrame
  <2>1. CASE mscratch
    <3>1. tf' = [epc |-> pc, return_pc |-> pc, ra |-> ra, a0 |-> arg, a7 |-> num,
                 cause |-> cause, MPIE |-> MIE]
      BY <2>1 DEF Trap
    <3>. QED BY <1>1, <3>1 DEF TrapFrame
  <2>2. CASE ~mscratch
    BY <2>2 DEF Trap, IInv, TypeOK
  <2>. QED BY <2>1, <2>2
<1>3. pc' \in Locs /\ ra' \in Locs /\ MIE' \in BOOLEAN
  BY <1>1 DEF Trap, Call, GoTo
<1>. QED BY <1>2, <1>3 DEF Trap, Call, GoTo, IInv, TypeOK

\* What entering trap_vector does: it leads into a handler, or finds no room on a
\* task's stack, or no save area.
LEMMA TrapEffect ==
  ASSUME NEW cause \in {"none", "timer", "external", "ecall", "fault"},
         NEW num \in Nat, NEW arg \in {ZERO, FAILED, PTR},
         IInv, pc \in CodeLocs, Trap(cause, num, arg)
  PROVE  /\ Pos = pc /\ RaOf = ra /\ A0Of = a0 /\ ~MIE'
         /\ UNCHANGED <<stk, depth, a0, mie, mscratch, schedVars, left, devVars, userVars>>
         /\ \/ /\ mscratch /\ pc' = "trap"
               /\ Pos' = Pos /\ RaOf' = RaOf /\ A0Of' = arg /\ tf'.epc = pc /\ tf'.cause = cause
               /\ tf'.return_pc = pc
               /\ stk = OS \/ depth + Frames(cause) <= StackFrames
            \/ /\ mscratch /\ pc' = "overrun" /\ Pos' = "overrun"
               /\ stk # OS /\ depth + Frames(cause) > StackFrames
            \/ /\ ~mscratch /\ pc' = "hang" /\ Pos' = "hang" /\ ra' = ra /\ tf' = tf
<1>1. Pos = pc /\ RaOf = ra /\ A0Of = a0
  BY DEF Pos, RaOf, A0Of, Trapped
<1>2. depth \in Nat /\ Frames(cause) \in Nat
  BY DEF IInv, TypeOK, Frames
<1>3. CASE mscratch
  <2>1. /\ tf' = [epc |-> pc, return_pc |-> pc, ra |-> ra, a0 |-> arg, a7 |-> num,
                  cause |-> cause, MPIE |-> MIE]
        /\ pc' = IF stk = OS \/ depth + Frames(cause) <= StackFrames THEN "trap" ELSE "overrun"
        /\ UNCHANGED <<stk, depth, a0>>
    BY <1>3 DEF Trap, Call
  <2>2. CASE stk = OS \/ depth + Frames(cause) <= StackFrames
    BY <1>1, <1>3, <2>1, <2>2 DEF Trap, Pos, RaOf, A0Of, Trapped
  <2>3. CASE ~(stk = OS \/ depth + Frames(cause) <= StackFrames)
    BY <1>1, <1>2, <1>3, <2>1, <2>3 DEF Trap, Pos
  <2>. QED BY <2>2, <2>3
<1>4. CASE ~mscratch
  BY <1>1, <1>4 DEF Trap, GoTo, Pos
<1>. QED BY <1>3, <1>4

\* What the timer's handler and a system call do to the place where the trap leads.
LEMMA TimerEffect ==
  ASSUME IInv, TimerInterrupt
  PROVE  /\ pc = "trap" /\ pc' = "mret" /\ mscratch /\ mie' = mie
         /\ tf.epc \in UserLocs /\ Pos = tf.epc /\ RaOf = tf.ra
         /\ tf'.return_pc = "os_kernel" /\ tf'.ra = tf.ra /\ Pos' = "os_kernel" /\ RaOf' = RaOf
         /\ left' = Interval /\ UNCHANGED <<stk, MIE, mscratch, ctxs, ctx_now, ctx, kra, current_task, taskTop>>
<1>1. pc = "trap" /\ mscratch /\ "MTIE" \in mie /\ tf \in TrapFrame
      /\ tf.epc \in UserLocs /\ tf.return_pc = tf.epc
  BY DEF TimerInterrupt, IInv, TypeOK, TrapInv
<1>2. /\ pc' = "mret" /\ tf' = [tf EXCEPT !.return_pc = "os_kernel"] /\ left' = Interval
      /\ mie' = (mie \ {"MTIE"}) \cup {"MTIE"}
      /\ UNCHANGED <<stk, MIE, mscratch, ctxs, ctx_now, ctx, kra, current_task, taskTop>>
  BY DEF TimerInterrupt, Rearmed, GoTo
<1>3. mie' = mie
  BY <1>1, <1>2
<1>4. tf'.return_pc = "os_kernel" /\ tf'.ra = tf.ra
  BY <1>1, <1>2 DEF TrapFrame
<1>. QED BY <1>1, <1>2, <1>3, <1>4 DEF Pos, RaOf, Trapped

LEMMA SyscallEffect ==
  ASSUME IInv, DoSyscall
  PROVE  /\ pc = "trap" /\ pc' = "mret" /\ mscratch /\ Pos = "gethid" /\ RaOf = "use_ret"
         /\ tf'.return_pc = "gethid_ret" /\ tf'.ra = tf.ra
         /\ Pos' = "gethid_ret" /\ RaOf' = RaOf /\ stk = current_task
         /\ UNCHANGED <<stk, depth, MIE, mie, mscratch, schedVars, left>>
<1>1. pc = "trap" /\ mscratch /\ tf \in TrapFrame /\ tf.epc = "gethid" /\ tf.return_pc = tf.epc
  BY DEF DoSyscall, IInv, TypeOK, TrapInv
<1>2. Pos = "gethid" /\ RaOf = tf.ra
  BY <1>1 DEF Pos, RaOf, Trapped
<1>3. stk = current_task /\ RaOf = "use_ret"
  BY <1>2 DEF IInv, StackInv
<1>4. /\ pc' = "mret" /\ tf' = [tf EXCEPT !.a0 = SyscallResult, !.return_pc = "gethid_ret"]
      /\ UNCHANGED <<stk, depth, MIE, mie, mscratch, schedVars, left>>
  BY DEF DoSyscall, GoTo
<1>5. tf'.return_pc = "gethid_ret" /\ tf'.ra = tf.ra
  BY <1>1, <1>4 DEF TrapFrame
<1>. QED BY <1>1, <1>2, <1>3, <1>4, <1>5 DEF Pos, RaOf, Trapped

\* Where a function returns, its frame is there to be taken off.
LEMMA FramesLeft ==
  ASSUME IInv
  PROVE  /\ depth \in 0..StackFrames /\ dead[stk] \in Nat
         /\ pc \in {"puts", "putc", "stray", "delay"} => depth - 1 \in 0..StackFrames
         /\ pc = "unwind" => depth - 2 \in 0..StackFrames /\ Resumed(stk) \in UserLocs
<1>1. depth \in 0..StackFrames /\ dead[stk] \in Nat
  BY DEF IInv, TypeOK
<1>2. CASE pc \in {"puts", "putc", "stray", "delay"}
  <2>1. depth = Live(pc) + dead[stk] /\ Live(pc) \in {2, 3}
    BY <1>2 DEF IInv, DepthInv, Pos, Live
  <2>. QED BY <1>1, <1>2, <2>1
<1>3. CASE pc = "unwind"
  <2>1. depth = Live(kra[stk]) + dead[stk] + 2 /\ kra[stk] \in ResumeLocs
    BY <1>3 DEF IInv, DepthInv, StackInv, Pos
  <2>2. Live(kra[stk]) \in 0..3
    BY DEF Live
  <2>. QED BY <1>1, <1>3, <2>1, <2>2 DEF Resumed
<1>. QED BY <1>1, <1>2, <1>3

\* In user code nothing is left of the kernel's path.
LEMMA UserSlack == \A l \in UserLocs \cup {"overrun"} : Slack(l) = 0
BY DEF Slack

-----------------------------------------------------------------------------
(* The inductive invariant, action by action.                               *)

LEMMA TypeStep == IInv /\ [Next]_vars => TypeOK'
<1> SUFFICES ASSUME IInv, [Next]_vars PROVE TypeOK'
  OBVIOUS
<1> USE DEF At, GoTo, Call, Enter, Return, Run, Spend
<1>1. CASE TaskCreate
  <2>1. ctxs' \in [Owners -> Context]
    BY <1>1 DEF TaskCreate, StackInv, Pos, IInv, TypeOK, Context
  <2>2. a0' \in {ZERO, FAILED, PTR}
    BY <1>1 DEF TaskCreate, IInv, TypeOK, Context
  <2>. QED BY <1>1, <2>1, <2>2 DEF TaskCreate, IInv, TypeOK, StackInv, Pos
<1>2. CASE PlicInit
  BY <1>2 DEF PlicInit, IInv, TypeOK
<1>3. CASE VirtioDiskInit
  BY <1>3 DEF VirtioDiskInit, IInv, TypeOK
<1>4. CASE TimerInit
  BY <1>4 DEF TimerInit, IInv, TypeOK
<1>5. CASE DiskRequest
  BY <1>5 DEF DiskRequest, IInv, TypeOK
<1>6. CASE DiskWait
  BY <1>6 DEF DiskWait, IInv, TypeOK
<1>7. CASE PageTest
  BY <1>7 DEF PageTest, IInv, TypeOK
<1>8. CASE OsMain
  BY <1>8 DEF OsMain, IInv, TypeOK
<1>9. CASE TaskGo
  BY <1>9 DEF TaskGo, Activated, IInv, TypeOK
<1>10. CASE GoSwitch
  <2>1. ctxs' \in [Owners -> Context]
    <3>1. [ra |-> "back", sp |-> OS, depth |-> 0, a0 |-> PTR] \in Context
      BY DEF Context
    <3>. QED BY <1>10, <3>1, GoSwitchEffect DEF IInv, TypeOK
  <2>2. a0' \in {ZERO, FAILED, PTR} /\ depth' \in 0..StackFrames
    BY <1>10, GoSwitchEffect DEF IInv, TypeOK, Context
  <2>3. pc' \in Locs /\ ra' \in Locs /\ stk' \in Owners /\ left' \in 0..Interval
    BY <1>10, GoSwitchEffect DEF GoSwitch, IInv, TypeOK
  <2>. QED BY <1>10, <2>1, <2>2, <2>3 DEF GoSwitch, IInv, TypeOK
<1>11. CASE Back
  <2>1. taskTop = NTask /\ current_task \in Nat
    BY <1>11 DEF Back, IInv, TypeOK, StackInv, Pos
  <2>2. NextTask \in Tasks
    BY <2>1 DEF NextTask
  <2>. QED BY <1>11, <2>2 DEF Back, IInv, TypeOK
<1>12. CASE OsKernel
  BY <1>12 DEF OsKernel, IInv, TypeOK, StackInv, Pos, Trapped
<1>13. CASE TaskOs
  BY <1>13 DEF TaskOs, IInv, TypeOK
<1>14. CASE OsSwitch
  <2>1. ctxs' \in [Owners -> Context]
    <3>1. [ra |-> "unwind", sp |-> current_task, depth |-> depth, a0 |-> PTR] \in Context
      BY <1>14, OsSwitchEffect DEF IInv, TypeOK, Context
    <3>. QED BY <1>14, <3>1, OsSwitchEffect DEF IInv, TypeOK
  <2>2. a0' \in {ZERO, FAILED, PTR} /\ depth' \in 0..StackFrames
    BY <1>14, OsSwitchEffect DEF IInv, TypeOK, Context
  <2>3. pc' \in Locs /\ ra' \in Locs /\ stk' \in Owners /\ left' \in 0..Interval
    BY <1>14, OsSwitchEffect DEF OsSwitch, IInv, TypeOK
  <2>. QED BY <1>14, <2>1, <2>2, <2>3 DEF OsSwitch, IInv, TypeOK
<1>15. CASE Unwind
  BY <1>15, FramesLeft DEF Unwind, Epilogues, IInv, TypeOK
<1>16. CASE TakeExternal
  <2>1. pc \in CodeLocs /\ a0 \in {ZERO, FAILED, PTR}
    BY <1>16 DEF TakeExternal, IInv, TypeOK
  <2>. QED BY <1>16, <2>1, TrapType DEF TakeExternal
<1>17. CASE TakeTimer
  <2>1. pc \in CodeLocs /\ a0 \in {ZERO, FAILED, PTR}
    BY <1>17 DEF TakeTimer, IInv, TypeOK
  <2>. QED BY <1>17, <2>1, TrapType DEF TakeTimer
<1>18. CASE TimerInterrupt
  <2>1. tf' \in TrapFrame
    BY <1>18 DEF TimerInterrupt, IInv, TypeOK, TrapFrame
  <2>2. dead' \in [Owners -> Nat]
    <3>1. dead \in [Owners -> Nat] /\ stk \in Owners
      BY DEF IInv, TypeOK
    <3>2. dead' = [dead EXCEPT ![stk] = @ + 1] \/ dead' = dead
      BY <1>18 DEF TimerInterrupt
    <3>. QED BY <3>1, <3>2
  <2>3. frame' \in [Owners -> Locs] /\ pc' \in Locs
    BY <1>18 DEF TimerInterrupt, IInv, TypeOK, TrapFrame
  <2>4. left' \in 0..Interval /\ mie' \subseteq {"MEIE", "MTIE"}
    <3>1. mie \subseteq {"MEIE", "MTIE"} /\ Interval \in Nat
      BY IntervalAssumption DEF IInv, TypeOK
    <3>2. left' = Interval /\ mie' = mie
      BY <1>18, TimerEffect
    <3>. QED BY <3>1, <3>2
  <2>5. UNCHANGED <<stk, depth, ra, a0, MIE, mscratch, ctxs, ctx_now, ctx, kra, current_task,
                    taskTop, devVars, userVars>>
    BY <1>18 DEF TimerInterrupt
  <2>. QED BY <2>1, <2>2, <2>3, <2>4, <2>5 DEF IInv, TypeOK
<1>19. CASE ExternalInterrupt
  BY <1>19 DEF ExternalInterrupt, Serviced, VIRTIO_IRQ, UART0_IRQ, IInv, TypeOK
<1>20. CASE DoSyscall
  <2>1. tf' \in TrapFrame
    BY <1>20 DEF DoSyscall, SyscallResult, SYS_GETHID, IInv, TypeOK, TrapFrame, StackInv,
       Pos, Trapped, TrapInv
  <2>2. stk \in Tasks
    BY <1>20 DEF DoSyscall, IInv, TypeOK, StackInv, Pos, TrapInv
  <2>3. hid' \in [Tasks -> {FAILED, 0}]
    BY <1>20, <2>2 DEF DoSyscall, IInv, TypeOK
  <2>4. pc' \in Locs /\ UNCHANGED <<stk, depth, ra, a0, MIE, mie, mscratch, schedVars, left,
                                     devVars, ret>>
    BY <1>20 DEF DoSyscall
  <2>. QED BY <2>1, <2>3, <2>4 DEF IInv, TypeOK
<1>21. CASE Fault
  BY <1>21 DEF Fault, IInv, TypeOK
<1>22. CASE Mret
  BY <1>22 DEF Mret, IInv, TypeOK, TrapFrame, TrapInv, StackInv, Pos
<1>23. CASE TaskStart
  BY <1>23 DEF TaskStart, IInv, TypeOK, StackInv, Pos, Trapped
<1>24. CASE TaskBody
  <2>1. stk \in Tasks
    BY <1>24 DEF TaskBody, IInv, TypeOK, StackInv, Pos
  <2>2. hid' \in [Tasks -> {FAILED, 0}] /\ ret' \in [Tasks -> {ZERO, FAILED, PTR}]
    BY <1>24, <2>1 DEF TaskBody, IInv, TypeOK
  <2>3. pc' \in Locs /\ ra' \in Locs /\ UNCHANGED <<stk, depth, a0>>
        /\ UNCHANGED <<trapVars, schedVars, devVars>>
        /\ left' = IF left > 1 THEN left - 1 ELSE 0
    BY <1>24 DEF TaskBody
  <2>. QED BY <2>2, <2>3 DEF IInv, TypeOK
<1>25. CASE CallGethid
  BY <1>25 DEF CallGethid, IInv, TypeOK
<1>26. CASE Gethid
  <2>1. pc \in CodeLocs /\ a0 \in {ZERO, FAILED, PTR}
    BY <1>26 DEF Gethid, IInv, TypeOK
  <2>. QED BY <1>26, <2>1, TrapType DEF Gethid, SYS_GETHID
<1>27. CASE GethidReturn
  BY <1>27 DEF GethidReturn, IInv, TypeOK, StackInv, Pos, RaOf, Trapped
<1>28. CASE UseRet
  BY <1>28 DEF UseRet, IInv, TypeOK, StackInv, Pos, Trapped
<1>29. CASE CallPuts
  BY <1>29 DEF CallPuts, IInv, TypeOK
<1>30. CASE Puts
  BY <1>30, FramesLeft DEF Puts, IInv, TypeOK
<1>31. CASE Putc
  BY <1>31, FramesLeft DEF Putc, IInv, TypeOK
<1>32. CASE Stray
  BY <1>32, FramesLeft DEF Stray, IInv, TypeOK
<1>33. CASE CallDelay
  BY <1>33 DEF CallDelay, IInv, TypeOK
<1>34. CASE Delay
  BY <1>34, FramesLeft DEF Delay, IInv, TypeOK
<1>35. CASE Lost
  <2>1. pc \in CodeLocs /\ a0 \in {ZERO, FAILED, PTR}
    BY <1>35 DEF Lost, IInv, TypeOK
  <2>. QED BY <1>35, <2>1, TrapType DEF Lost
<1>36. CASE Overrun
  BY <1>36 DEF Overrun, vars, IInv, TypeOK
<1>37. CASE DiskServe
  BY <1>37 DEF DiskServe, VIRTIO_IRQ, UART0_IRQ, IInv, TypeOK
<1>38. CASE KeyPress
  BY <1>38 DEF KeyPress, VIRTIO_IRQ, UART0_IRQ, IInv, TypeOK
<1>39. CASE UNCHANGED vars
  BY <1>39 DEF vars, IInv, TypeOK
<1>. QED BY <1>1, <1>2, <1>3, <1>4, <1>5, <1>6, <1>7, <1>8, <1>9, <1>10, <1>11, <1>12,
    <1>13, <1>14, <1>15, <1>16, <1>17, <1>18, <1>19, <1>20, <1>21, <1>22, <1>23, <1>24,
    <1>25, <1>26, <1>27, <1>28, <1>29, <1>30, <1>31, <1>32, <1>33, <1>34, <1>35, <1>36,
    <1>37, <1>38, <1>39 DEF Next, Hart, Boot, Scheduler, Traps, User

LEMMA TimingStep == IInv /\ [Next]_vars => Timing'
<1> SUFFICES ASSUME IInv, [Next]_vars PROVE Timing'
  OBVIOUS
<1> USE DEF At, GoTo, Call, Enter, Return, Run, Spend, Trap, Pos, Timing
<1>0. left \in 0..Interval /\ left' \in 0..Interval
  BY TypeStep DEF IInv, TypeOK
<1>1. CASE TaskCreate
  BY <1>0, <1>1 DEF TaskCreate, IInv, TrapInv, Slack
<1>2. CASE PlicInit
  BY <1>0, <1>2 DEF PlicInit, IInv, TrapInv, Slack
<1>3. CASE VirtioDiskInit
  BY <1>0, <1>3 DEF VirtioDiskInit, IInv, TrapInv, Slack
<1>4. CASE TimerInit
  BY <1>0, <1>4 DEF TimerInit, IInv, TrapInv, Slack
<1>5. CASE DiskRequest
  BY <1>0, <1>5 DEF DiskRequest, IInv, TrapInv, Slack
<1>6. CASE DiskWait
  BY <1>0, <1>6 DEF DiskWait, IInv, TrapInv, Slack
<1>7. CASE PageTest
  BY <1>0, <1>7 DEF PageTest, IInv, TrapInv, Slack
<1>8. CASE OsMain
  BY <1>0, <1>8 DEF OsMain, IInv, TrapInv, Slack
<1>9. CASE TaskGo
  BY <1>0, <1>9 DEF TaskGo, Activated, IInv, TrapInv, Slack
<1>10. CASE GoSwitch
  <2>1. left' = IF left > 1 THEN left - 1 ELSE 0
    BY <1>10 DEF GoSwitch
  <2>2. Pos = "go_switch" /\ Pos' \in {"task", "unwind"}
    BY <1>10, GoSwitchEffect
  <2>3. mie' = mie
    BY <1>10 DEF GoSwitch
  <2>. QED BY <1>0, <2>1, <2>2, <2>3 DEF IInv, Slack
<1>11. CASE Back
  BY <1>0, <1>11 DEF Back, NextTask, IInv, TrapInv, Slack
<1>12. CASE OsKernel
  BY <1>0, <1>12 DEF OsKernel, IInv, TrapInv, Slack
<1>13. CASE TaskOs
  BY <1>0, <1>13 DEF TaskOs, IInv, TrapInv, Slack
<1>14. CASE OsSwitch
  <2>1. left' = IF left > 1 THEN left - 1 ELSE 0
    BY <1>14 DEF OsSwitch
  <2>2. Pos = "os_switch" /\ Pos' \in {"back"}
    BY <1>14, OsSwitchEffect
  <2>3. mie' = mie
    BY <1>14 DEF OsSwitch
  <2>. QED BY <1>0, <2>1, <2>2, <2>3 DEF IInv, Slack
<1>15. CASE Unwind
  <2>1. Pos' \in UserLocs \cup {"overrun"}
    BY <1>15 DEF Unwind, Resumed, Epilogues, IInv, StackInv
  <2>. QED BY <1>0, <2>1, UserSlack
<1>16. CASE TakeExternal
  BY <1>0, <1>16 DEF TakeExternal, ExternalReady, IInv, TrapInv, Slack
<1>17. CASE TakeTimer
  BY <1>0, <1>17 DEF TakeTimer, TimerReady, IInv, TrapInv, Slack
<1>18. CASE TimerInterrupt
  BY <1>0, <1>18 DEF TimerInterrupt, Rearmed, CutOff, IInv, TrapInv, Slack
<1>19. CASE ExternalInterrupt
  BY <1>0, <1>19 DEF ExternalInterrupt, Serviced, VIRTIO_IRQ, UART0_IRQ, IInv, TrapInv,
     Slack
<1>20. CASE DoSyscall
  <2>1. Pos' \in UserLocs \cup {"overrun"}
    BY <1>20 DEF DoSyscall, IInv, TrapInv, StackInv, RaOf, Trapped
  <2>. QED BY <1>0, <2>1, UserSlack
<1>21. CASE Fault
  BY <1>0, <1>21 DEF Fault, IInv, TrapInv, Slack
<1>22. CASE Mret
  BY <1>0, <1>22 DEF Mret, IInv, TrapInv, Slack
<1>23. CASE TaskStart
  <2>1. Pos' \in UserLocs \cup {"overrun"}
    BY <1>23 DEF TaskStart, IInv, TrapInv, StackInv, RaOf, Trapped
  <2>. QED BY <1>0, <2>1, UserSlack
<1>24. CASE TaskBody
  <2>1. Pos' \in UserLocs \cup {"overrun"}
    BY <1>24 DEF TaskBody, IInv, TrapInv, StackInv, RaOf, Trapped
  <2>. QED BY <1>0, <2>1, UserSlack
<1>25. CASE CallGethid
  <2>1. Pos' \in UserLocs \cup {"overrun"}
    BY <1>25 DEF CallGethid, IInv, TrapInv, StackInv, RaOf, Trapped
  <2>. QED BY <1>0, <2>1, UserSlack
<1>26. CASE Gethid
  <2>1. Pos' \in UserLocs \cup {"overrun"}
    BY <1>26 DEF Gethid, IInv, TrapInv, StackInv, RaOf, Trapped
  <2>. QED BY <1>0, <2>1, UserSlack
<1>27. CASE GethidReturn
  <2>1. Pos' \in UserLocs \cup {"overrun"}
    BY <1>27 DEF GethidReturn, IInv, TrapInv, StackInv, RaOf, Trapped
  <2>. QED BY <1>0, <2>1, UserSlack
<1>28. CASE UseRet
  <2>1. Pos' \in UserLocs \cup {"overrun"}
    BY <1>28 DEF UseRet, IInv, TrapInv, StackInv, RaOf, Trapped
  <2>. QED BY <1>0, <2>1, UserSlack
<1>29. CASE CallPuts
  <2>1. Pos' \in UserLocs \cup {"overrun"}
    BY <1>29 DEF CallPuts, IInv, TrapInv, StackInv, RaOf, Trapped
  <2>. QED BY <1>0, <2>1, UserSlack
<1>30. CASE Puts
  <2>1. Pos' \in UserLocs \cup {"overrun"}
    BY <1>30 DEF Puts, IInv, TrapInv, StackInv, RaOf, Trapped
  <2>. QED BY <1>0, <2>1, UserSlack
<1>31. CASE Putc
  <2>1. Pos' \in UserLocs \cup {"overrun"}
    BY <1>31 DEF Putc, IInv, TrapInv, StackInv, RaOf, Trapped
  <2>. QED BY <1>0, <2>1, UserSlack
<1>32. CASE Stray
  <2>1. Pos' \in UserLocs \cup {"overrun"}
    BY <1>32 DEF Stray, IInv, TrapInv, StackInv, RaOf, Trapped
  <2>. QED BY <1>0, <2>1, UserSlack
<1>33. CASE CallDelay
  <2>1. Pos' \in UserLocs \cup {"overrun"}
    BY <1>33 DEF CallDelay, IInv, TrapInv, StackInv, RaOf, Trapped
  <2>. QED BY <1>0, <2>1, UserSlack
<1>34. CASE Delay
  <2>1. Pos' \in UserLocs \cup {"overrun"}
    BY <1>34 DEF Delay, IInv, TrapInv, StackInv, RaOf, Trapped
  <2>. QED BY <1>0, <2>1, UserSlack
<1>35. CASE Lost
  <2>1. Pos' \in UserLocs \cup {"overrun"}
    BY <1>35 DEF Lost, IInv, TrapInv, StackInv, RaOf, Trapped
  <2>. QED BY <1>0, <2>1, UserSlack
<1>36. CASE Overrun
  BY <1>0, <1>36 DEF Overrun, vars, IInv, TrapInv, Slack
<1>37. CASE DiskServe
  BY <1>0, <1>37 DEF DiskServe, VIRTIO_IRQ, UART0_IRQ, IInv, TrapInv, Slack
<1>38. CASE KeyPress
  BY <1>0, <1>38 DEF KeyPress, VIRTIO_IRQ, UART0_IRQ, IInv, TrapInv, Slack
<1>39. CASE UNCHANGED vars
  BY <1>39 DEF vars, IInv
<1>. QED BY <1>1, <1>2, <1>3, <1>4, <1>5, <1>6, <1>7, <1>8, <1>9, <1>10, <1>11, <1>12,
    <1>13, <1>14, <1>15, <1>16, <1>17, <1>18, <1>19, <1>20, <1>21, <1>22, <1>23, <1>24,
    <1>25, <1>26, <1>27, <1>28, <1>29, <1>30, <1>31, <1>32, <1>33, <1>34, <1>35, <1>36,
    <1>37, <1>38, <1>39 DEF Next, Hart, Boot, Scheduler, Traps, User

\* The timer finds the hart in user code, on the stack of a task.
LEMMA TimerLocs == IInv /\ TakeTimer => pc \in UserLocs /\ stk = current_task
<1> SUFFICES ASSUME IInv, TakeTimer PROVE pc \in UserLocs /\ stk = current_task
  OBVIOUS
<1>1. pc \in CodeLocs /\ Pos = pc /\ left = 0 /\ "MTIE" \in mie /\ pc \notin EarlyLocs
  BY DEF TakeTimer, TimerReady, Pos, IInv, TrapInv
<1>2. Slack(pc) <= 0
  BY <1>1 DEF IInv, Timing
<1>3. pc \in UserLocs
  BY <1>1, <1>2 DEF Slack
<1>. QED BY <1>1, <1>3 DEF IInv, StackInv

LEMMA TrapControl ==
  ASSUME NEW cause \in {"timer", "external", "ecall", "fault"},
         NEW num \in Nat, NEW arg \in {ZERO, FAILED, PTR},
         IInv, pc \in CodeLocs, Trap(cause, num, arg),
         cause \in {"timer", "external"} => MIE,
         cause = "timer" => pc \in UserLocs,
         cause = "ecall" => pc = "gethid",
         cause = "fault" => pc \in {"lost", "wild"}
  PROVE  TrapInv' /\ StackInv' /\ PreemptSavesRunner'
<1>1. current_task \in Tasks /\ stk \in Owners
  BY DEF IInv, TypeOK
<1>2. CASE mscratch /\ pc' = "trap"
  <2>1. /\ Pos = pc /\ Pos' = Pos /\ RaOf' = RaOf /\ tf'.epc = pc /\ tf'.cause = cause
        /\ tf'.return_pc = pc /\ mscratch' /\ mie' = mie
        /\ UNCHANGED <<stk, current_task, kra, ctx, ctx_now, taskTop>>
    BY <1>2, TrapEffect
  <2>2. TrapInv'
    BY <1>2, <2>1 DEF IInv, TrapInv
  <2>3. StackInv'
    BY <1>2, <2>1 DEF IInv, TrapInv, StackInv
  <2>4. PreemptSavesRunner'
    BY <2>1 DEF IInv, PreemptSavesRunner
  <2>. QED BY <2>2, <2>3, <2>4
<1>3. CASE mscratch /\ pc' = "overrun"
  <2>1. /\ Pos = pc /\ Pos' = "overrun" /\ stk # OS /\ mscratch' /\ mie' = mie
        /\ UNCHANGED <<stk, current_task, kra, ctx, ctx_now, taskTop>>
    BY <1>3, TrapEffect
  <2>2. stk = current_task /\ pc \in UserLocs \cup YieldLocs /\ taskTop = NTask
    BY <1>1, <2>1 DEF IInv, StackInv
  <2>4. TrapInv'
    BY <1>3, <2>1 DEF IInv, TrapInv
  <2>5. StackInv'
    BY <2>1, <2>2 DEF StackInv
  <2>6. PreemptSavesRunner'
    <3>1. pc # "os_switch"
      <4>1. SUFFICES ASSUME pc = "os_switch" PROVE FALSE
        OBVIOUS
      <4>2. depth + 4 <= StackFrames /\ depth \in Nat
        BY <2>1, <4>1 DEF IInv, DepthInv, TypeOK
      <4>3. cause = "external" /\ depth + Frames(cause) > StackFrames
        BY <1>3, <4>1, TrapEffect
      <4>. QED BY <4>2, <4>3 DEF Frames
    <3>. QED BY <2>1, <3>1 DEF IInv, PreemptSavesRunner
  <2>. QED BY <2>4, <2>5, <2>6
<1>4. CASE ~mscratch
  BY <1>1, <1>4, TrapEffect DEF IInv, TrapInv, StackInv, PreemptSavesRunner
<1>. QED BY <1>2, <1>3, <1>4, TrapEffect

LEMMA ControlStep == IInv /\ [Next]_vars => TrapInv' /\ StackInv' /\ PreemptSavesRunner'
<1> SUFFICES ASSUME IInv, [Next]_vars PROVE TrapInv' /\ StackInv' /\ PreemptSavesRunner'
  OBVIOUS
<1> USE DEF At, GoTo, Call, Enter, Return, Run, Trap, Pos, Trapped, RaOf
<1>1. CASE TaskCreate
  <2>1. pc = "user_init" /\ stk = OS /\ taskTop \in Nat /\ taskTop < NTask /\ ~MIE
    BY <1>1 DEF TaskCreate, IInv, TypeOK, TrapInv, StackInv
  <2>2. taskTop' = taskTop + 1 /\ stk' = OS /\ UNCHANGED <<MIE, mie, mscratch, tf>>
        /\ pc' = IF taskTop + 1 < NTask THEN "user_init" ELSE "plic_init"
    BY <1>1, <2>1 DEF TaskCreate
  <2>. QED BY <2>1, <2>2 DEF IInv, TrapInv, StackInv, PreemptSavesRunner
<1>2. CASE PlicInit
  BY <1>2 DEF PlicInit, IInv, TypeOK, TrapInv, StackInv, PreemptSavesRunner
<1>3. CASE VirtioDiskInit
  BY <1>3 DEF VirtioDiskInit, IInv, TypeOK, TrapInv, StackInv, PreemptSavesRunner
<1>4. CASE TimerInit
  BY <1>4 DEF TimerInit, IInv, TypeOK, TrapInv, StackInv, PreemptSavesRunner
<1>5. CASE DiskRequest
  BY <1>5 DEF DiskRequest, IInv, TypeOK, TrapInv, StackInv, PreemptSavesRunner
<1>6. CASE DiskWait
  BY <1>6 DEF DiskWait, IInv, TypeOK, TrapInv, StackInv, PreemptSavesRunner
<1>7. CASE PageTest
  BY <1>7 DEF PageTest, IInv, TypeOK, TrapInv, StackInv, PreemptSavesRunner
<1>8. CASE OsMain
  BY <1>8 DEF OsMain, IInv, TypeOK, TrapInv, StackInv, PreemptSavesRunner
<1>9. CASE TaskGo
  BY <1>9 DEF TaskGo, Activated, IInv, TypeOK, TrapInv, StackInv, PreemptSavesRunner
<1>10. CASE GoSwitch
  BY <1>10, GoSwitchEffect DEF GoSwitch, IInv, TypeOK, TrapInv, StackInv, PreemptSavesRunner
<1>11. CASE Back
  BY <1>11 DEF Back, NextTask, IInv, TypeOK, TrapInv, StackInv, PreemptSavesRunner
<1>12. CASE OsKernel
  <2>1. pc' = "task_os" /\ ra' = "unwind"
    BY <1>12 DEF OsKernel, IInv, TypeOK, DepthInv
  <2>. QED BY <1>12, <2>1 DEF OsKernel, IInv, TypeOK, TrapInv, StackInv, PreemptSavesRunner
<1>13. CASE TaskOs
  <2>1. pc' = "os_switch" /\ ra' = ra
    BY <1>13 DEF TaskOs, IInv, TypeOK, DepthInv
  <2>. QED BY <1>13, <2>1 DEF TaskOs, IInv, TypeOK, TrapInv, StackInv, PreemptSavesRunner
<1>14. CASE OsSwitch
  BY <1>14, OsSwitchEffect DEF OsSwitch, IInv, TypeOK, TrapInv, StackInv, PreemptSavesRunner
<1>15. CASE Unwind
  BY <1>15 DEF Unwind, Resumed, Epilogues, IInv, TypeOK, TrapInv, StackInv, PreemptSavesRunner
<1>16. CASE TakeExternal
  <2>1. pc \in CodeLocs /\ MIE /\ a0 \in {ZERO, FAILED, PTR} /\ Trap("external", 0, a0)
    BY <1>16 DEF TakeExternal, ExternalReady, IInv, TypeOK
  <2>. QED BY <2>1, TrapControl
<1>17. CASE TakeTimer
  <2>1. pc \in CodeLocs /\ MIE /\ a0 \in {ZERO, FAILED, PTR} /\ Trap("timer", 0, a0)
    BY <1>17 DEF TakeTimer, TimerReady, IInv, TypeOK
  <2>2. pc \in UserLocs
    BY <1>17, TimerLocs
  <2>. QED BY <2>1, <2>2, TrapControl
<1>18. CASE TimerInterrupt
  <2>. QED BY <1>18, TimerEffect DEF IInv, TrapInv, StackInv, PreemptSavesRunner
<1>19. CASE ExternalInterrupt
  BY <1>19 DEF ExternalInterrupt, Serviced, VIRTIO_IRQ, UART0_IRQ, IInv, TypeOK, TrapInv,
     StackInv, PreemptSavesRunner
<1>20. CASE DoSyscall
  <2>. QED BY <1>20, SyscallEffect DEF IInv, TrapInv, StackInv, PreemptSavesRunner
<1>21. CASE Fault
  BY <1>21 DEF Fault, IInv, TypeOK, TrapInv, StackInv, PreemptSavesRunner
<1>22. CASE Mret
  BY <1>22 DEF Mret, IInv, TypeOK, TrapInv, StackInv, PreemptSavesRunner
<1>23. CASE TaskStart
  BY <1>23 DEF TaskStart, IInv, TypeOK, TrapInv, StackInv, PreemptSavesRunner
<1>24. CASE TaskBody
  BY <1>24 DEF TaskBody, IInv, TypeOK, TrapInv, StackInv, PreemptSavesRunner
<1>25. CASE CallGethid
  BY <1>25 DEF CallGethid, IInv, TypeOK, TrapInv, StackInv, PreemptSavesRunner
<1>26. CASE Gethid
  <2>1. pc \in CodeLocs /\ pc = "gethid" /\ a0 \in {ZERO, FAILED, PTR}
        /\ Trap("ecall", SYS_GETHID, a0) /\ SYS_GETHID \in Nat
    BY <1>26 DEF Gethid, SYS_GETHID, IInv, TypeOK
  <2>. QED BY <2>1, TrapControl
<1>27. CASE GethidReturn
  BY <1>27 DEF GethidReturn, IInv, TypeOK, TrapInv, StackInv, PreemptSavesRunner
<1>28. CASE UseRet
  BY <1>28 DEF UseRet, IInv, TypeOK, TrapInv, StackInv, PreemptSavesRunner
<1>29. CASE CallPuts
  BY <1>29 DEF CallPuts, IInv, TypeOK, TrapInv, StackInv, PreemptSavesRunner
<1>30. CASE Puts
  BY <1>30 DEF Puts, IInv, TypeOK, TrapInv, StackInv, PreemptSavesRunner
<1>31. CASE Putc
  BY <1>31 DEF Putc, IInv, TypeOK, TrapInv, StackInv, PreemptSavesRunner
<1>32. CASE Stray
  BY <1>32 DEF Stray, IInv, TypeOK, TrapInv, StackInv, PreemptSavesRunner
<1>33. CASE CallDelay
  BY <1>33 DEF CallDelay, IInv, TypeOK, TrapInv, StackInv, PreemptSavesRunner
<1>34. CASE Delay
  BY <1>34 DEF Delay, IInv, TypeOK, TrapInv, StackInv, PreemptSavesRunner
<1>35. CASE Lost
  <2>1. pc \in CodeLocs /\ pc \in {"lost", "wild"} /\ a0 \in {ZERO, FAILED, PTR}
        /\ Trap("fault", 0, a0)
    BY <1>35 DEF Lost, IInv, TypeOK
  <2>. QED BY <2>1, TrapControl
<1>36. CASE Overrun
  BY <1>36 DEF Overrun, vars, IInv, TypeOK, TrapInv, StackInv,
     PreemptSavesRunner
<1>37. CASE DiskServe
  BY <1>37 DEF DiskServe, VIRTIO_IRQ, UART0_IRQ, IInv, TypeOK, TrapInv, StackInv,
     PreemptSavesRunner
<1>38. CASE KeyPress
  BY <1>38 DEF KeyPress, VIRTIO_IRQ, UART0_IRQ, IInv, TypeOK, TrapInv, StackInv,
     PreemptSavesRunner
<1>39. CASE UNCHANGED vars
  BY <1>39 DEF vars, IInv, TrapInv, StackInv, PreemptSavesRunner
<1>. QED BY <1>1, <1>2, <1>3, <1>4, <1>5, <1>6, <1>7, <1>8, <1>9, <1>10, <1>11, <1>12,
    <1>13, <1>14, <1>15, <1>16, <1>17, <1>18, <1>19, <1>20, <1>21, <1>22, <1>23, <1>24,
    <1>25, <1>26, <1>27, <1>28, <1>29, <1>30, <1>31, <1>32, <1>33, <1>34, <1>35, <1>36,
    <1>37, <1>38, <1>39 DEF Next, Hart, Boot, Scheduler, Traps, User

LEMMA DepthStep == IInv /\ [Next]_vars => DepthInv'
<1> SUFFICES ASSUME IInv, [Next]_vars PROVE DepthInv'
  OBVIOUS
<1> USE DEF At, GoTo, Call, Enter, Return, Run, Trap, Pos, Trapped, RaOf, DepthInv,
            OnlyDeadFramesOverrun, MaxUse, Live, Frames
<1>0. /\ depth \in 0..StackFrames /\ stk \in Owners /\ dead \in [Owners -> Nat]
      /\ ctxs \in [Owners -> Context] /\ kra \in [Owners -> Locs]
  BY DEF IInv, TypeOK
<1>1. CASE TaskCreate
  BY <1>0, <1>1 DEF TaskCreate, IInv, TrapInv, StackInv
<1>2. CASE PlicInit
  BY <1>0, <1>2 DEF PlicInit, IInv, TrapInv, StackInv
<1>3. CASE VirtioDiskInit
  BY <1>0, <1>3 DEF VirtioDiskInit, IInv, TrapInv, StackInv
<1>4. CASE TimerInit
  BY <1>0, <1>4 DEF TimerInit, IInv, TrapInv, StackInv
<1>5. CASE DiskRequest
  BY <1>0, <1>5 DEF DiskRequest, IInv, TrapInv, StackInv
<1>6. CASE DiskWait
  BY <1>0, <1>6 DEF DiskWait, IInv, TrapInv, StackInv
<1>7. CASE PageTest
  BY <1>0, <1>7 DEF PageTest, IInv, TrapInv, StackInv
<1>8. CASE OsMain
  BY <1>0, <1>8 DEF OsMain, IInv, TrapInv, StackInv
<1>9. CASE TaskGo
  BY <1>0, <1>9 DEF TaskGo, Activated, IInv, TrapInv, StackInv
<1>10. CASE GoSwitch
  BY <1>0, <1>10, GoSwitchEffect DEF GoSwitch, IInv, TrapInv, StackInv
<1>11. CASE Back
  BY <1>0, <1>11 DEF Back, NextTask, IInv, TrapInv, StackInv
<1>12. CASE OsKernel
  <2>1. /\ depth = Live(ra) + dead[stk] /\ depth + 6 <= StackFrames /\ stk # OS
        /\ Pos' = "task_os" /\ pc' = "task_os" /\ depth' = depth + 1
        /\ kra' = [kra EXCEPT ![stk] = ra] /\ UNCHANGED <<stk, dead, ctxs>>
    <3>1. pc = "os_kernel" /\ kra' = [kra EXCEPT ![stk] = ra] /\ UNCHANGED <<stk, dead, ctxs>>
      BY <1>12 DEF OsKernel
    <3>2. depth = Live(ra) + dead[stk] /\ depth + 6 <= StackFrames
      BY <3>1 DEF IInv
    <3>3. stk # OS
      BY <3>1 DEF IInv, StackInv, TypeOK
    <3>4. pc' = "task_os" /\ depth' = depth + 1
      BY <1>0, <1>12, <3>2 DEF OsKernel
    <3>. QED BY <3>1, <3>2, <3>3, <3>4
  <2>. QED BY <1>0, <2>1 DEF IInv
<1>13. CASE TaskOs
  BY <1>0, <1>13 DEF TaskOs, IInv, TrapInv, StackInv
<1>14. CASE OsSwitch
  BY <1>0, <1>14, OsSwitchEffect DEF OsSwitch, IInv, TrapInv, StackInv
<1>15. CASE Unwind
  BY <1>0, <1>15 DEF Unwind, Resumed, Epilogues, IInv, TrapInv, StackInv
<1>16. CASE TakeExternal
  BY <1>0, <1>16 DEF TakeExternal, ExternalReady, IInv, TrapInv, StackInv
<1>17. CASE TakeTimer
  <2>1. pc \in UserLocs /\ pc \in CodeLocs /\ a0 \in {ZERO, FAILED, PTR} /\ Trap("timer", 0, a0)
        /\ stk # OS
    <3>1. pc \in UserLocs /\ stk = current_task
      BY <1>17, TimerLocs
    <3>2. a0 \in {ZERO, FAILED, PTR} /\ current_task # OS
      BY DEF IInv, TypeOK
    <3>. QED BY <1>17, <3>1, <3>2 DEF TakeTimer
  <2>2. /\ UNCHANGED <<stk, depth, ctxs, dead, kra>>
        /\ \/ pc' = "trap" /\ Pos' = pc /\ depth + 6 <= StackFrames
           \/ pc' = "overrun" /\ Pos' = "overrun" /\ depth + 6 > StackFrames
           \/ pc' = "hang" /\ Pos' = "hang"
    <3>1. "timer" \in {"none", "timer", "external", "ecall", "fault"} /\ 0 \in Nat
      OBVIOUS
    <3>. QED BY <2>1, <3>1, TrapEffect
  <2>3. depth = Live(pc) + dead[stk] /\ Live(pc) \in 0..3
    BY <2>1 DEF IInv
  <2>. QED BY <1>0, <2>1, <2>2, <2>3 DEF IInv
<1>18. CASE TimerInterrupt
  BY <1>0, <1>18 DEF TimerInterrupt, CutOff, IInv, TrapInv, StackInv
<1>19. CASE ExternalInterrupt
  BY <1>0, <1>19 DEF ExternalInterrupt, IInv, TrapInv, StackInv
<1>20. CASE DoSyscall
  BY <1>0, <1>20 DEF DoSyscall, IInv, TrapInv, StackInv
<1>21. CASE Fault
  BY <1>0, <1>21 DEF Fault, IInv, TrapInv, StackInv
<1>22. CASE Mret
  BY <1>0, <1>22 DEF Mret, IInv, TrapInv, StackInv
<1>23. CASE TaskStart
  <2>1. pc = "task" /\ Pos = "task" /\ UNCHANGED <<stk, ctxs, dead, kra>> /\ stk # OS
        /\ IF depth < StackFrames THEN pc' = "body" /\ depth' = depth + 1
           ELSE pc' = "overrun" /\ depth' = depth
    BY <1>0, <1>23 DEF TaskStart, IInv, TypeOK, StackInv
  <2>2. depth = dead[stk]
    <3>1. depth = Live("task") + dead[stk]
      BY <2>1 DEF IInv
    <3>. QED BY <1>0, <3>1
  <2>. QED BY <1>0, <2>1, <2>2 DEF IInv
<1>24. CASE TaskBody
  BY <1>0, <1>24 DEF TaskBody, IInv, TrapInv, StackInv
<1>25. CASE CallGethid
  BY <1>0, <1>25 DEF CallGethid, IInv, TrapInv, StackInv
<1>26. CASE Gethid
  BY <1>0, <1>26 DEF Gethid, IInv, TrapInv, StackInv
<1>27. CASE GethidReturn
  BY <1>0, <1>27 DEF GethidReturn, IInv, TrapInv, StackInv
<1>28. CASE UseRet
  BY <1>0, <1>28 DEF UseRet, IInv, TrapInv, StackInv
<1>29. CASE CallPuts
  BY <1>0, <1>29 DEF CallPuts, IInv, TrapInv, StackInv
<1>30. CASE Puts
  BY <1>0, <1>30 DEF Puts, IInv, TrapInv, StackInv
<1>31. CASE Putc
  BY <1>0, <1>31 DEF Putc, IInv, TrapInv, StackInv
<1>32. CASE Stray
  BY <1>0, <1>32 DEF Stray, IInv, TrapInv, StackInv
<1>33. CASE CallDelay
  BY <1>0, <1>33 DEF CallDelay, IInv, TrapInv, StackInv
<1>34. CASE Delay
  BY <1>0, <1>34 DEF Delay, IInv, TrapInv, StackInv
<1>35. CASE Lost
  BY <1>0, <1>35 DEF Lost, IInv, TrapInv, StackInv
<1>36. CASE Overrun
  BY <1>0, <1>36 DEF Overrun, vars, IInv, TrapInv, StackInv
<1>37. CASE DiskServe
  BY <1>0, <1>37 DEF DiskServe, IInv, TrapInv, StackInv
<1>38. CASE KeyPress
  BY <1>0, <1>38 DEF KeyPress, IInv, TrapInv, StackInv
<1>39. CASE UNCHANGED vars
  BY <1>39 DEF vars, IInv
<1>. QED BY <1>1, <1>2, <1>3, <1>4, <1>5, <1>6, <1>7, <1>8, <1>9, <1>10, <1>11, <1>12,
    <1>13, <1>14, <1>15, <1>16, <1>17, <1>18, <1>19, <1>20, <1>21, <1>22, <1>23, <1>24,
    <1>25, <1>26, <1>27, <1>28, <1>29, <1>30, <1>31, <1>32, <1>33, <1>34, <1>35, <1>36,
    <1>37, <1>38, <1>39 DEF Next, Hart, Boot, Scheduler, Traps, User

\* What ContextIntegrity says of a task that is not running.
Resumable(t) ==
    /\ ctxs[t].sp = t /\ ctxs[t].depth <= StackFrames
    /\ \/ ctxs[t].ra = "task" /\ ctxs[t].depth = 0 /\ dead[t] = 0
       \/ /\ ctxs[t].ra = "unwind" /\ kra[t] \in RetLocs \cup StrayLocs
          /\ ctxs[t].depth = Live(kra[t]) + dead[t] + 2

LEMMA ContextStep == IInv /\ [Next]_vars => ContextIntegrity'
<1> SUFFICES ASSUME IInv, [Next]_vars PROVE ContextIntegrity'
  OBVIOUS
<1> USE DEF At, GoTo, Call, Enter, Return, Run, Trap, Pos
<1>1. CASE TaskCreate
  <2>1. stk = OS /\ stk' = OS /\ taskTop \in Nat /\ taskTop < NTask /\ taskTop' = taskTop + 1
        /\ kra' = kra /\ dead' = dead /\ dead[taskTop] = 0
    <3>1. pc = "user_init" /\ Pos = "user_init" /\ taskTop \in Nat /\ taskTop < NTask
          /\ stk = OS
      BY <1>1 DEF TaskCreate, IInv, TypeOK, StackInv
    <3>2. dead[taskTop] = 0
      BY <3>1 DEF IInv, DepthInv
    <3>. QED BY <1>1, <3>1, <3>2 DEF TaskCreate
  <2>2. ctxs \in [Owners -> Context] /\ taskTop \in Owners
    BY <2>1 DEF IInv, TypeOK
  <2>3. ctxs'[taskTop].sp = taskTop /\ ctxs'[taskTop].ra = "task" /\ ctxs'[taskTop].depth = 0
    BY <1>1, <2>2 DEF TaskCreate
  <2>4. \A t \in 0..(taskTop - 1) : ctxs'[t] = ctxs[t] /\ t # stk
    BY <1>1, <2>1, <2>2 DEF TaskCreate
  <2>5. \A t \in 0..(taskTop' - 1) : t = taskTop \/ t \in 0..(taskTop - 1)
    BY <2>1
  <2>. QED BY <2>1, <2>3, <2>4, <2>5 DEF IInv, ContextIntegrity
<1>2. CASE PlicInit
  BY <1>2 DEF PlicInit, IInv, TypeOK, ContextIntegrity
<1>3. CASE VirtioDiskInit
  BY <1>3 DEF VirtioDiskInit, IInv, TypeOK, ContextIntegrity
<1>4. CASE TimerInit
  BY <1>4 DEF TimerInit, IInv, TypeOK, ContextIntegrity
<1>5. CASE DiskRequest
  BY <1>5 DEF DiskRequest, IInv, TypeOK, ContextIntegrity
<1>6. CASE DiskWait
  BY <1>6 DEF DiskWait, IInv, TypeOK, ContextIntegrity
<1>7. CASE PageTest
  BY <1>7 DEF PageTest, IInv, TypeOK, ContextIntegrity
<1>8. CASE OsMain
  BY <1>8 DEF OsMain, IInv, TypeOK, ContextIntegrity
<1>9. CASE TaskGo
  BY <1>9 DEF TaskGo, Activated, IInv, TypeOK, TrapInv, StackInv, ContextIntegrity
<1>10. CASE GoSwitch
  <2> SUFFICES ASSUME NEW t \in 0..(taskTop' - 1), stk' # t
               PROVE  Resumable(t)'
    BY <1>10, GoSwitchEffect DEF GoSwitch, ContextIntegrity, Resumable, IInv, TypeOK
  <2>1. t \in 0..(taskTop - 1) /\ taskTop \in Int /\ stk # t /\ t # OS
        /\ kra' = kra /\ dead' = dead
    BY <1>10, GoSwitchEffect DEF GoSwitch
  <2>2. ctxs'[t] = ctxs[t]
    BY <2>1, <1>10, GoSwitchEffect DEF IInv, TypeOK
  <2>. QED BY <2>1, <2>2 DEF IInv, ContextIntegrity, Resumable
<1>11. CASE Back
  BY <1>11 DEF Back, NextTask, IInv, TypeOK, ContextIntegrity
<1>12. CASE OsKernel
  <2>1. stk \in Tasks /\ kra \in [Owners -> Locs] /\ kra' = [kra EXCEPT ![stk] = ra]
        /\ UNCHANGED <<ctxs, stk, dead, taskTop>>
    BY <1>12 DEF OsKernel, IInv, TypeOK, StackInv
  <2>2. taskTop \in Nat /\ \A t \in 0..(taskTop - 1) : t # stk => kra'[t] = kra[t]
    BY <2>1 DEF IInv, TypeOK
  <2>. QED BY <2>1, <2>2 DEF IInv, ContextIntegrity
<1>13. CASE TaskOs
  BY <1>13 DEF TaskOs, IInv, TypeOK, ContextIntegrity
<1>14. CASE OsSwitch
  <2> SUFFICES ASSUME NEW t \in 0..(taskTop' - 1), stk' # t
               PROVE  Resumable(t)'
    BY <1>14, OsSwitchEffect DEF ContextIntegrity, Resumable
  <2>1. t \in 0..(taskTop - 1) /\ taskTop \in Int /\ t \in Owners
        /\ kra' = kra /\ dead' = dead
    BY <1>14, OsSwitchEffect DEF OsSwitch
  <2>2. ctxs \in [Owners -> Context]
    BY DEF IInv, TypeOK
  <2>3. CASE t = current_task
    <3>1. ctxs'[t] = [ra |-> "unwind", sp |-> t, depth |-> depth, a0 |-> PTR]
      BY <2>1, <2>2, <2>3, <1>14, OsSwitchEffect
    <3>2. depth <= StackFrames /\ kra[t] \in RetLocs \cup StrayLocs
          /\ depth = Live(kra[t]) + dead[t] + 2
      BY <2>3, <1>14, OsSwitchEffect DEF IInv, TypeOK
    <3>. QED BY <2>1, <3>1, <3>2 DEF Resumable
  <2>4. CASE t # current_task
    <3>1. ctxs'[t] = ctxs[t] /\ stk # t
      BY <2>1, <2>2, <2>4, <1>14, OsSwitchEffect
    <3>. QED BY <2>1, <3>1 DEF IInv, ContextIntegrity, Resumable
  <2>. QED BY <2>3, <2>4
<1>15. CASE Unwind
  BY <1>15 DEF Unwind, Resumed, Epilogues, IInv, TypeOK, ContextIntegrity
<1>16. CASE TakeExternal
  BY <1>16 DEF TakeExternal, ExternalReady, IInv, TypeOK, ContextIntegrity
<1>17. CASE TakeTimer
  BY <1>17 DEF TakeTimer, TimerReady, IInv, TypeOK, ContextIntegrity
<1>18. CASE TimerInterrupt
  <2>1. dead \in [Owners -> Nat] /\ UNCHANGED <<ctxs, stk, kra, taskTop>>
        /\ (dead' = [dead EXCEPT ![stk] = @ + 1] \/ dead' = dead)
    BY <1>18 DEF TimerInterrupt, IInv, TypeOK
  <2>2. taskTop \in Nat /\ \A t \in 0..(taskTop - 1) : t # stk => dead'[t] = dead[t]
    BY <2>1 DEF IInv, TypeOK
  <2>. QED BY <2>1, <2>2 DEF IInv, ContextIntegrity
<1>19. CASE ExternalInterrupt
  BY <1>19 DEF ExternalInterrupt, Serviced, VIRTIO_IRQ, UART0_IRQ, IInv, TypeOK,
     ContextIntegrity
<1>20. CASE DoSyscall
  BY <1>20 DEF DoSyscall, SyscallResult, SYS_GETHID, IInv, TypeOK, ContextIntegrity
<1>21. CASE Fault
  BY <1>21 DEF Fault, IInv, TypeOK, ContextIntegrity
<1>22. CASE Mret
  BY <1>22 DEF Mret, IInv, TypeOK, ContextIntegrity
<1>23. CASE TaskStart
  BY <1>23 DEF TaskStart, IInv, TypeOK, ContextIntegrity
<1>24. CASE TaskBody
  BY <1>24 DEF TaskBody, IInv, TypeOK, ContextIntegrity
<1>25. CASE CallGethid
  BY <1>25 DEF CallGethid, IInv, TypeOK, ContextIntegrity
<1>26. CASE Gethid
  BY <1>26 DEF Gethid, SYS_GETHID, IInv, TypeOK, ContextIntegrity
<1>27. CASE GethidReturn
  BY <1>27 DEF GethidReturn, IInv, TypeOK, ContextIntegrity
<1>28. CASE UseRet
  BY <1>28 DEF UseRet, IInv, TypeOK, ContextIntegrity
<1>29. CASE CallPuts
  BY <1>29 DEF CallPuts, IInv, TypeOK, ContextIntegrity
<1>30. CASE Puts
  BY <1>30 DEF Puts, IInv, TypeOK, ContextIntegrity
<1>31. CASE Putc
  BY <1>31 DEF Putc, IInv, TypeOK, ContextIntegrity
<1>32. CASE Stray
  BY <1>32 DEF Stray, IInv, TypeOK, ContextIntegrity
<1>33. CASE CallDelay
  BY <1>33 DEF CallDelay, IInv, TypeOK, ContextIntegrity
<1>34. CASE Delay
  BY <1>34 DEF Delay, IInv, TypeOK, ContextIntegrity
<1>35. CASE Lost
  BY <1>35 DEF Lost, IInv, TypeOK, ContextIntegrity
<1>36. CASE Overrun
  BY <1>36 DEF Overrun, vars, IInv, TypeOK, ContextIntegrity
<1>37. CASE DiskServe
  BY <1>37 DEF DiskServe, VIRTIO_IRQ, UART0_IRQ, IInv, TypeOK, ContextIntegrity
<1>38. CASE KeyPress
  BY <1>38 DEF KeyPress, VIRTIO_IRQ, UART0_IRQ, IInv, TypeOK, ContextIntegrity
<1>39. CASE UNCHANGED vars
  BY <1>39 DEF vars, IInv, ContextIntegrity
<1>. QED BY <1>1, <1>2, <1>3, <1>4, <1>5, <1>6, <1>7, <1>8, <1>9, <1>10, <1>11, <1>12,
    <1>13, <1>14, <1>15, <1>16, <1>17, <1>18, <1>19, <1>20, <1>21, <1>22, <1>23, <1>24,
    <1>25, <1>26, <1>27, <1>28, <1>29, <1>30, <1>31, <1>32, <1>33, <1>34, <1>35, <1>36,
    <1>37, <1>38, <1>39 DEF Next, Hart, Boot, Scheduler, Traps, User

LEMMA SyscallStep == IInv /\ [Next]_vars => SyscallInv'
<1> SUFFICES ASSUME IInv, [Next]_vars PROVE SyscallInv'
  OBVIOUS
<1> USE DEF At, GoTo, Call, Enter, Return, Run, Trap, Pos, Trapped, RaOf, A0Of
<1>1. CASE TaskCreate
  BY <1>1 DEF TaskCreate, IInv, TypeOK, TrapInv, StackInv, SyscallInv, SyscallTruthful
<1>2. CASE PlicInit
  BY <1>2 DEF PlicInit, IInv, TypeOK, TrapInv, StackInv, SyscallInv, SyscallTruthful
<1>3. CASE VirtioDiskInit
  BY <1>3 DEF VirtioDiskInit, IInv, TypeOK, TrapInv, StackInv, SyscallInv, SyscallTruthful
<1>4. CASE TimerInit
  BY <1>4 DEF TimerInit, IInv, TypeOK, TrapInv, StackInv, SyscallInv, SyscallTruthful
<1>5. CASE DiskRequest
  BY <1>5 DEF DiskRequest, IInv, TypeOK, TrapInv, StackInv, SyscallInv, SyscallTruthful
<1>6. CASE DiskWait
  BY <1>6 DEF DiskWait, IInv, TypeOK, TrapInv, StackInv, SyscallInv, SyscallTruthful
<1>7. CASE PageTest
  BY <1>7 DEF PageTest, IInv, TypeOK, TrapInv, StackInv, SyscallInv, SyscallTruthful
<1>8. CASE OsMain
  BY <1>8 DEF OsMain, IInv, TypeOK, TrapInv, StackInv, SyscallInv, SyscallTruthful
<1>9. CASE TaskGo
  BY <1>9 DEF TaskGo, Activated, IInv, TypeOK, TrapInv, StackInv, SyscallInv,
     SyscallTruthful
<1>10. CASE GoSwitch
  <2>1. ctxs \in [Owners -> Context] /\ current_task \in Tasks /\ OS \in Owners
        /\ ctxs' = [ctxs EXCEPT ![OS] = [ra |-> "back", sp |-> OS, depth |-> 0, a0 |-> PTR]]
    BY <1>10, GoSwitchEffect DEF IInv, TypeOK
  <2>2. \A o \in Owners : ctxs'[o].ra = "unwind" => ctxs'[o].a0 = PTR
    BY <2>1 DEF IInv, SyscallInv
  <2>3. hid' = hid /\ ret' = ret
    BY <1>10 DEF GoSwitch
  <2>4. pc' \in {"task", "unwind"} /\ (pc' = "unwind" => a0' = PTR)
    BY <1>10, <2>1, GoSwitchEffect DEF IInv, SyscallInv
  <2>. QED BY <2>2, <2>3, <2>4 DEF IInv, SyscallInv, SyscallTruthful
<1>11. CASE Back
  BY <1>11 DEF Back, NextTask, IInv, TypeOK, TrapInv, StackInv, SyscallInv, SyscallTruthful
<1>12. CASE OsKernel
  BY <1>12 DEF OsKernel, IInv, TypeOK, TrapInv, StackInv, SyscallInv, SyscallTruthful
<1>13. CASE TaskOs
  BY <1>13 DEF TaskOs, IInv, TypeOK, TrapInv, StackInv, SyscallInv, SyscallTruthful
<1>14. CASE OsSwitch
  <2>1. \A o \in Owners : ctxs'[o].ra = "unwind" => ctxs'[o].a0 = PTR
    <3>1. ctxs \in [Owners -> Context] /\ current_task \in Owners
          /\ ctxs' = [ctxs EXCEPT ![current_task] =
                        [ra |-> "unwind", sp |-> current_task, depth |-> depth, a0 |-> PTR]]
      BY <1>14, OsSwitchEffect DEF IInv, TypeOK
    <3>. QED BY <3>1 DEF IInv, SyscallInv
  <2>2. hid' = hid /\ ret' = ret
    BY <1>14 DEF OsSwitch
  <2>. QED BY <2>1, <2>2, <1>14, OsSwitchEffect DEF IInv, SyscallInv, SyscallTruthful
<1>15. CASE Unwind
  BY <1>15 DEF Unwind, Resumed, Epilogues, IInv, TypeOK, TrapInv, StackInv, SyscallInv, SyscallTruthful
<1>16. CASE TakeExternal
  BY <1>16 DEF TakeExternal, ExternalReady, IInv, TypeOK, TrapInv, StackInv, SyscallInv,
     SyscallTruthful
<1>17. CASE TakeTimer
  BY <1>17 DEF TakeTimer, TimerReady, IInv, TypeOK, TrapInv, StackInv, SyscallInv,
     SyscallTruthful
<1>18. CASE TimerInterrupt
  BY <1>18 DEF TimerInterrupt, Rearmed, CutOff, IInv, TypeOK, TrapInv, StackInv, SyscallInv,
     SyscallTruthful
<1>19. CASE ExternalInterrupt
  BY <1>19 DEF ExternalInterrupt, Serviced, VIRTIO_IRQ, UART0_IRQ, IInv, TypeOK, TrapInv,
     StackInv, SyscallInv, SyscallTruthful
<1>20. CASE DoSyscall
  BY <1>20 DEF DoSyscall, SyscallResult, SYS_GETHID, IInv, TypeOK, TrapInv, StackInv,
     SyscallInv, SyscallTruthful
<1>21. CASE Fault
  BY <1>21 DEF Fault, IInv, TypeOK, TrapInv, StackInv, SyscallInv, SyscallTruthful
<1>22. CASE Mret
  BY <1>22 DEF Mret, IInv, TypeOK, TrapInv, StackInv, SyscallInv, SyscallTruthful
<1>23. CASE TaskStart
  BY <1>23 DEF TaskStart, IInv, TypeOK, TrapInv, StackInv, SyscallInv, SyscallTruthful
<1>24. CASE TaskBody
  BY <1>24 DEF TaskBody, IInv, TypeOK, TrapInv, StackInv, SyscallInv, SyscallTruthful
<1>25. CASE CallGethid
  BY <1>25 DEF CallGethid, IInv, TypeOK, TrapInv, StackInv, SyscallInv, SyscallTruthful
<1>26. CASE Gethid
  BY <1>26 DEF Gethid, SYS_GETHID, IInv, TypeOK, TrapInv, StackInv, SyscallInv,
     SyscallTruthful
<1>27. CASE GethidReturn
  BY <1>27 DEF GethidReturn, IInv, TypeOK, TrapInv, StackInv, SyscallInv, SyscallTruthful
<1>28. CASE UseRet
  BY <1>28 DEF UseRet, IInv, TypeOK, TrapInv, StackInv, SyscallInv, SyscallTruthful
<1>29. CASE CallPuts
  BY <1>29 DEF CallPuts, IInv, TypeOK, TrapInv, StackInv, SyscallInv, SyscallTruthful
<1>30. CASE Puts
  BY <1>30 DEF Puts, IInv, TypeOK, TrapInv, StackInv, SyscallInv, SyscallTruthful
<1>31. CASE Putc
  BY <1>31 DEF Putc, IInv, TypeOK, TrapInv, StackInv, SyscallInv, SyscallTruthful
<1>32. CASE Stray
  BY <1>32 DEF Stray, IInv, TypeOK, TrapInv, StackInv, SyscallInv, SyscallTruthful
<1>33. CASE CallDelay
  BY <1>33 DEF CallDelay, IInv, TypeOK, TrapInv, StackInv, SyscallInv, SyscallTruthful
<1>34. CASE Delay
  BY <1>34 DEF Delay, IInv, TypeOK, TrapInv, StackInv, SyscallInv, SyscallTruthful
<1>35. CASE Lost
  BY <1>35 DEF Lost, IInv, TypeOK, TrapInv, StackInv, SyscallInv, SyscallTruthful
<1>36. CASE Overrun
  BY <1>36 DEF Overrun, vars, IInv, TypeOK, TrapInv, StackInv,
     SyscallInv, SyscallTruthful
<1>37. CASE DiskServe
  BY <1>37 DEF DiskServe, VIRTIO_IRQ, UART0_IRQ, IInv, TypeOK, TrapInv, StackInv,
     SyscallInv, SyscallTruthful
<1>38. CASE KeyPress
  BY <1>38 DEF KeyPress, VIRTIO_IRQ, UART0_IRQ, IInv, TypeOK, TrapInv, StackInv, SyscallInv,
     SyscallTruthful
<1>39. CASE UNCHANGED vars
  BY <1>39 DEF vars, IInv, SyscallInv, SyscallTruthful
<1>. QED BY <1>1, <1>2, <1>3, <1>4, <1>5, <1>6, <1>7, <1>8, <1>9, <1>10, <1>11, <1>12,
    <1>13, <1>14, <1>15, <1>16, <1>17, <1>18, <1>19, <1>20, <1>21, <1>22, <1>23, <1>24,
    <1>25, <1>26, <1>27, <1>28, <1>29, <1>30, <1>31, <1>32, <1>33, <1>34, <1>35, <1>36,
    <1>37, <1>38, <1>39 DEF Next, Hart, Boot, Scheduler, Traps, User

LEMMA Inductive == IInv /\ [Next]_vars => IInv'
BY TypeStep, TimingStep, ControlStep, DepthStep, ContextStep, SyscallStep DEF IInv

LEMMA InitIInv == Init => IInv
<1> SUFFICES ASSUME Init PROVE IInv
  OBVIOUS
<1>1. TypeOK
  <2>1. tf \in TrapFrame
    BY DEF Init, NoFrame, TrapFrame
  <2>2. ctxs \in [Owners -> Context]
    BY DEF Init, NoContext, Context
  <2>3. kra \in [Owners -> Locs] /\ frame \in [Owners -> Locs] /\ dead \in [Owners -> Nat]
    BY DEF Init
  <2>4. hid \in [Tasks -> {FAILED, 0}] /\ ret \in [Tasks -> {ZERO, FAILED, PTR}]
    BY DEF Init
  <2>5. current_task \in Tasks /\ taskTop \in 0..NTask /\ left \in 0..Interval
        /\ keys \in 0..MaxKeys
    BY DEF Init
  <2>6. pc \in Locs /\ ra \in Locs
    BY DEF Init
  <2>7. depth \in 0..StackFrames
    BY DEF Init
  <2>. QED BY <2>1, <2>2, <2>3, <2>4, <2>5, <2>6, <2>7 DEF Init, TypeOK
<1>2. TrapInv /\ Timing /\ StackInv
  BY DEF Init, TrapInv, Timing, StackInv, Pos
<1>3. ContextIntegrity /\ PreemptSavesRunner
  BY DEF Init, ContextIntegrity, PreemptSavesRunner
<1>5. DepthInv
  BY DEF Init, NoContext, DepthInv, OnlyDeadFramesOverrun, Pos
<1>4. SyscallInv
  BY DEF Init, NoContext, SyscallInv, SyscallTruthful, Pos
<1>. QED BY <1>1, <1>2, <1>3, <1>4, <1>5 DEF IInv

\* The inductive invariant holds in every reachable state.
THEOREM Invariance == Spec => []IInv
BY InitIInv, Inductive, PTL DEF Spec

-----------------------------------------------------------------------------
(* The safety properties.                                                   *)

\* Every variable keeps its type, for every number of tasks: in particular
\* current_task stays a valid index after os_main's increment.
THEOREM TypeCorrect == Spec => []TypeOK
<1>1. IInv => TypeOK
  BY DEF IInv
<1>. QED BY <1>1, Invariance, PTL

\* trap_handler's case 7 is entered from user code only: no lock protects
\* ctx_now and the contexts, the timer's period does.
THEOREM PreemptionOnlyInUser == Spec => []TimerOnlyInUser
<1>1. IInv => TimerOnlyInUser
  BY DEF IInv, TypeOK, TrapInv, StackInv, Pos, TimerOnlyInUser
<1>. QED BY <1>1, Invariance, PTL

\* While no stack has run over, and also then for the other tasks: each context that
\* task_go will load leads back into its own task and to a place within its own
\* stack, above as many frames as preemptions have left behind there, and
\* ctx_os leads back into os_main.
THEOREM ContextsIntact == Spec => []ContextIntegrity
<1>1. IInv => ContextIntegrity
  BY DEF IInv
<1>. QED BY <1>1, Invariance, PTL

\* The frames that preemptions leave behind are the only way off a task's stack: with
\* no more than StackFrames - MaxUse of them, every call, interrupt and system
\* call fits.  That they do pile up, StacksLast's counterexample shows.
THEOREM OverrunsAreDeadFrames == Spec => []OnlyDeadFramesOverrun
<1>1. IInv => OnlyDeadFramesOverrun
  BY DEF IInv, DepthInv
<1>. QED BY <1>1, Invariance, PTL

\* task_os saves into the context of the task that was running.
THEOREM PreemptionSavesRunner == Spec => []PreemptSavesRunner
<1>1. IInv => PreemptSavesRunner
  BY DEF IInv
<1>. QED BY <1>1, Invariance, PTL

\* A result of zero that user_task4 sees from gethid is the kernel's.
THEOREM SyscallResultTrue == Spec => []SyscallTruthful
<1>1. IInv => SyscallTruthful
  BY DEF IInv, SyscallInv
<1>. QED BY <1>1, Invariance, PTL

-----------------------------------------------------------------------------
(* Without console input during boot every trap finds its save area.        *)

Quiet == pc # "hang" /\ (~mscratch => pend = {} /\ disk = "none")

LEMMA QuietStep == ~EarlyKeys /\ IInv /\ Quiet /\ [Next]_vars => Quiet'
<1> SUFFICES ASSUME ~EarlyKeys, IInv, Quiet, [Next]_vars PROVE Quiet'
  OBVIOUS
<1> USE DEF At, GoTo, Call, Enter, Return, Run, Trap, Pos, Quiet
<1>1. CASE TaskCreate
  BY <1>1 DEF TaskCreate, IInv, TypeOK, TrapInv, StackInv, RaOf, Trapped
<1>2. CASE PlicInit
  BY <1>2 DEF PlicInit, IInv, TypeOK, TrapInv, StackInv, RaOf, Trapped
<1>3. CASE VirtioDiskInit
  BY <1>3 DEF VirtioDiskInit, IInv, TypeOK, TrapInv, StackInv, RaOf, Trapped
<1>4. CASE TimerInit
  BY <1>4 DEF TimerInit, IInv, TypeOK, TrapInv, StackInv, RaOf, Trapped
<1>5. CASE DiskRequest
  BY <1>5 DEF DiskRequest, IInv, TypeOK, TrapInv, StackInv, RaOf, Trapped
<1>6. CASE DiskWait
  BY <1>6 DEF DiskWait, IInv, TypeOK, TrapInv, StackInv, RaOf, Trapped
<1>7. CASE PageTest
  BY <1>7 DEF PageTest, IInv, TypeOK, TrapInv, StackInv, RaOf, Trapped
<1>8. CASE OsMain
  BY <1>8 DEF OsMain, IInv, TypeOK, TrapInv, StackInv, RaOf, Trapped
<1>9. CASE TaskGo
  BY <1>9 DEF TaskGo, Activated, IInv, TypeOK, TrapInv, StackInv, RaOf, Trapped
<1>10. CASE GoSwitch
  BY <1>10, GoSwitchEffect DEF GoSwitch, IInv, TypeOK, TrapInv, StackInv, RaOf, Trapped
<1>11. CASE Back
  BY <1>11 DEF Back, NextTask, IInv, TypeOK, TrapInv, StackInv, RaOf, Trapped
<1>12. CASE OsKernel
  BY <1>12 DEF OsKernel, IInv, TypeOK, TrapInv, StackInv, RaOf, Trapped
<1>13. CASE TaskOs
  BY <1>13 DEF TaskOs, IInv, TypeOK, TrapInv, StackInv, RaOf, Trapped
<1>14. CASE OsSwitch
  BY <1>14, OsSwitchEffect DEF OsSwitch, IInv, TypeOK, TrapInv, StackInv, RaOf, Trapped
<1>15. CASE Unwind
  BY <1>15 DEF Unwind, Resumed, Epilogues, IInv, TypeOK, TrapInv, StackInv, RaOf, Trapped
<1>16. CASE TakeExternal
  BY <1>16 DEF TakeExternal, ExternalReady, IInv, TypeOK, TrapInv, StackInv, RaOf, Trapped
<1>17. CASE TakeTimer
  BY <1>17 DEF TakeTimer, TimerReady, IInv, TypeOK, TrapInv, StackInv, RaOf, Trapped
<1>18. CASE TimerInterrupt
  BY <1>18, TimerEffect
<1>19. CASE ExternalInterrupt
  BY <1>19 DEF ExternalInterrupt, Serviced, VIRTIO_IRQ, UART0_IRQ, IInv, TypeOK, TrapInv,
     StackInv, RaOf, Trapped
<1>20. CASE DoSyscall
  BY <1>20, SyscallEffect
<1>21. CASE Fault
  BY <1>21 DEF Fault, IInv, TypeOK, TrapInv, StackInv, RaOf, Trapped
<1>22. CASE Mret
  BY <1>22 DEF Mret, IInv, TypeOK, TrapInv, StackInv, RaOf, Trapped
<1>23. CASE TaskStart
  BY <1>23 DEF TaskStart, IInv, TypeOK, TrapInv, StackInv, RaOf, Trapped
<1>24. CASE TaskBody
  BY <1>24 DEF TaskBody, IInv, TypeOK, TrapInv, StackInv, RaOf, Trapped
<1>25. CASE CallGethid
  BY <1>25 DEF CallGethid, IInv, TypeOK, TrapInv, StackInv, RaOf, Trapped
<1>26. CASE Gethid
  BY <1>26 DEF Gethid, SYS_GETHID, IInv, TypeOK, TrapInv, StackInv, RaOf, Trapped
<1>27. CASE GethidReturn
  BY <1>27 DEF GethidReturn, IInv, TypeOK, TrapInv, StackInv, RaOf, Trapped
<1>28. CASE UseRet
  BY <1>28 DEF UseRet, IInv, TypeOK, TrapInv, StackInv, RaOf, Trapped
<1>29. CASE CallPuts
  BY <1>29 DEF CallPuts, IInv, TypeOK, TrapInv, StackInv, RaOf, Trapped
<1>30. CASE Puts
  BY <1>30 DEF Puts, IInv, TypeOK, TrapInv, StackInv, RaOf, Trapped
<1>31. CASE Putc
  BY <1>31 DEF Putc, IInv, TypeOK, TrapInv, StackInv, RaOf, Trapped
<1>32. CASE Stray
  BY <1>32 DEF Stray, IInv, TypeOK, TrapInv, StackInv, RaOf, Trapped
<1>33. CASE CallDelay
  BY <1>33 DEF CallDelay, IInv, TypeOK, TrapInv, StackInv, RaOf, Trapped
<1>34. CASE Delay
  BY <1>34 DEF Delay, IInv, TypeOK, TrapInv, StackInv, RaOf, Trapped
<1>35. CASE Lost
  BY <1>35 DEF Lost, IInv, TypeOK, TrapInv, StackInv, RaOf, Trapped
<1>36. CASE Overrun
  BY <1>36 DEF Overrun, vars, IInv, TypeOK, TrapInv, StackInv, RaOf,
     Trapped
<1>37. CASE DiskServe
  BY <1>37 DEF DiskServe, VIRTIO_IRQ, UART0_IRQ, IInv, TypeOK, TrapInv, StackInv, RaOf,
     Trapped
<1>38. CASE KeyPress
  BY <1>38 DEF KeyPress, VIRTIO_IRQ, UART0_IRQ, IInv, TypeOK, TrapInv, StackInv, RaOf,
     Trapped
<1>39. CASE UNCHANGED vars
  BY <1>39 DEF vars
<1>. QED BY <1>1, <1>2, <1>3, <1>4, <1>5, <1>6, <1>7, <1>8, <1>9, <1>10, <1>11, <1>12,
    <1>13, <1>14, <1>15, <1>16, <1>17, <1>18, <1>19, <1>20, <1>21, <1>22, <1>23, <1>24,
    <1>25, <1>26, <1>27, <1>28, <1>29, <1>30, <1>31, <1>32, <1>33, <1>34, <1>35, <1>36,
    <1>37, <1>38, <1>39 DEF Next, Hart, Boot, Scheduler, Traps, User

\* If nothing is typed before timer_init has set mscratch, no trap ever runs
\* without a save area: the boot order is the only thing that is wrong.
THEOREM SaveAreaPresent == ~EarlyKeys => (Spec => []NoTrapWithoutSaveArea)
<1>1. Init => Quiet
  BY DEF Init, Quiet
<1>2. Quiet => NoTrapWithoutSaveArea
  BY DEF Quiet, NoTrapWithoutSaveArea
<1>3. ASSUME ~EarlyKeys
      PROVE  Spec => []NoTrapWithoutSaveArea
  <2>1. IInv /\ Quiet /\ [Next]_vars => Quiet'
    BY <1>3, QuietStep
  <2>. QED BY <1>1, <1>2, <2>1, Invariance, PTL DEF Spec
<1>. QED BY <1>3

-----------------------------------------------------------------------------
(* Kernel implements RoundRobin.                                            *)

Running == IF pc = "overrun" THEN NULL ELSE stk
Turn == IF Pos = "back" THEN (current_task + 1) % NTask ELSE current_task

\* A step that stays on the same stack, and one that leaves a task with no stack.
LEMMA Remains ==
  ASSUME pc # "overrun", pc' # "overrun", stk' = stk, Turn' = Turn
  PROVE  [RoundRobinOf!CrashingNext]_<<Running, Turn>>
BY DEF Running

LEMMA Breaks ==
  ASSUME IInv, stk = current_task, pc # "overrun", pc' = "overrun", current_task' = current_task
  PROVE  [RoundRobinOf!CrashingNext]_<<Running, Turn>>
<1>1. current_task \in Tasks /\ Pos # "back" /\ Pos' = "overrun"
  BY DEF IInv, TypeOK, StackInv, Pos
<1>2. RoundRobinOf!Crash
  BY <1>1 DEF RoundRobinOf!Crash, Pos
<1>. QED BY <1>2 DEF RoundRobinOf!CrashingNext

LEMMA TrapRemains ==
  ASSUME NEW cause \in {"timer", "external", "ecall", "fault"},
         NEW num \in Nat, NEW arg \in {ZERO, FAILED, PTR},
         IInv, pc \in CodeLocs, Trap(cause, num, arg)
  PROVE  [RoundRobinOf!CrashingNext]_<<Running, Turn>>
<1>1. stk' = stk /\ current_task' = current_task /\ Pos = pc /\ pc # "overrun"
  BY TrapEffect
<1>2. CASE pc' = "overrun"
  <2>1. stk # OS
    BY <1>2, TrapEffect
  <2>2. stk = current_task
    BY <1>1, <2>1 DEF IInv, StackInv
  <2>. QED BY <1>1, <1>2, <2>2, Breaks
<1>3. CASE pc' = "trap"
  BY <1>1, <1>3, TrapEffect, Remains DEF Turn
<1>4. CASE pc' = "hang"
  <2>1. Pos # "back" /\ Pos' # "back"
    BY <1>4, TrapEffect DEF IInv, TrapInv
  <2>. QED BY <1>1, <1>4, <2>1, Remains DEF Turn
<1>. QED BY <1>2, <1>3, <1>4, TrapEffect

LEMMA RoundRobinStep ==
  IInv /\ [Next]_vars => [RoundRobinOf!CrashingNext]_<<Running, Turn>>
<1> SUFFICES ASSUME IInv, [Next]_vars PROVE [RoundRobinOf!CrashingNext]_<<Running, Turn>>
  OBVIOUS
<1> USE DEF At, GoTo, Call, Enter, Return, Run, Pos, Turn, Running
<1>1. CASE TaskCreate
  BY <1>1 DEF TaskCreate, IInv, TypeOK, TrapInv, StackInv, RaOf, Trapped
<1>2. CASE PlicInit
  BY <1>2 DEF PlicInit, IInv, TypeOK, TrapInv, StackInv, RaOf, Trapped
<1>3. CASE VirtioDiskInit
  BY <1>3 DEF VirtioDiskInit, IInv, TypeOK, TrapInv, StackInv, RaOf, Trapped
<1>4. CASE TimerInit
  BY <1>4 DEF TimerInit, IInv, TypeOK, TrapInv, StackInv, RaOf, Trapped
<1>5. CASE DiskRequest
  BY <1>5 DEF DiskRequest, IInv, TypeOK, TrapInv, StackInv, RaOf, Trapped
<1>6. CASE DiskWait
  BY <1>6 DEF DiskWait, IInv, TypeOK, TrapInv, StackInv, RaOf, Trapped
<1>7. CASE PageTest
  BY <1>7 DEF PageTest, IInv, TypeOK, TrapInv, StackInv, RaOf, Trapped
<1>8. CASE OsMain
  BY <1>8 DEF OsMain, IInv, TypeOK, TrapInv, StackInv, RaOf, Trapped
<1>9. CASE TaskGo
  BY <1>9 DEF TaskGo, Activated, IInv, TypeOK, TrapInv, StackInv, RaOf, Trapped
<1>10. CASE GoSwitch
  <2>1. /\ pc # "overrun" /\ pc' # "overrun" /\ Pos # "back" /\ Pos' # "back" /\ stk = OS
        /\ stk' = current_task /\ current_task' = current_task
    BY <1>10, GoSwitchEffect DEF GoSwitch
  <2>2. RoundRobinOf!Dispatch
    BY <2>1 DEF RoundRobinOf!Dispatch
  <2>. QED BY <2>2 DEF RoundRobinOf!Next, RoundRobinOf!CrashingNext
<1>11. CASE Back
  BY <1>11 DEF Back, NextTask, IInv, TypeOK, TrapInv, StackInv, RaOf, Trapped
<1>12. CASE OsKernel
  <2>1. pc # "overrun" /\ pc' # "overrun" /\ stk' = stk /\ Turn' = Turn
    BY <1>12 DEF OsKernel, IInv, TypeOK, DepthInv
  <2>. QED BY <2>1, Remains
<1>13. CASE TaskOs
  <2>1. pc # "overrun" /\ pc' # "overrun" /\ stk' = stk /\ Turn' = Turn
    BY <1>13 DEF TaskOs, IInv, TypeOK, DepthInv
  <2>. QED BY <2>1, Remains
<1>14. CASE OsSwitch
  <2>1. /\ pc # "overrun" /\ pc' # "overrun" /\ Pos # "back" /\ Pos' = "back" /\ stk' = OS
        /\ stk = current_task /\ current_task' = current_task
    BY <1>14, OsSwitchEffect DEF OsSwitch
  <2>2. RoundRobinOf!Preempt
    BY <2>1 DEF RoundRobinOf!Preempt
  <2>. QED BY <2>2 DEF RoundRobinOf!Next, RoundRobinOf!CrashingNext
<1>15. CASE Unwind
  BY <1>15 DEF Unwind, Resumed, Epilogues, IInv, TypeOK, TrapInv, StackInv, RaOf, Trapped
<1>16. CASE TakeExternal
  <2>1. pc \in CodeLocs /\ a0 \in {ZERO, FAILED, PTR} /\ Trap("external", 0, a0)
    BY <1>16 DEF TakeExternal, IInv, TypeOK
  <2>. QED BY <2>1, TrapRemains
<1>17. CASE TakeTimer
  <2>1. pc \in CodeLocs /\ a0 \in {ZERO, FAILED, PTR} /\ Trap("timer", 0, a0)
    BY <1>17 DEF TakeTimer, IInv, TypeOK
  <2>. QED BY <2>1, TrapRemains
<1>18. CASE TimerInterrupt
  <2>1. pc = "trap" /\ pc' = "mret" /\ stk' = stk /\ current_task' = current_task
        /\ Pos' = "os_kernel" /\ Pos \in UserLocs
    BY <1>18, TimerEffect
  <2>. QED BY <2>1, Remains
<1>19. CASE ExternalInterrupt
  BY <1>19 DEF ExternalInterrupt, Serviced, VIRTIO_IRQ, UART0_IRQ, IInv, TypeOK, TrapInv,
     StackInv, RaOf, Trapped
<1>20. CASE DoSyscall
  <2>1. pc # "overrun" /\ pc' # "overrun" /\ stk' = stk /\ Turn' = Turn
    BY <1>20, SyscallEffect
  <2>. QED BY <2>1, Remains
<1>21. CASE Fault
  BY <1>21 DEF Fault, IInv, TypeOK, TrapInv, StackInv, RaOf, Trapped
<1>22. CASE Mret
  BY <1>22 DEF Mret, IInv, TypeOK, TrapInv, StackInv, RaOf, Trapped
<1>23. CASE TaskStart
  <2>1. pc # "overrun" /\ stk = current_task /\ stk' = stk /\ current_task' = current_task
        /\ Pos # "back" /\ Pos' # "back"
    BY <1>23 DEF TaskStart, IInv, StackInv
  <2>2. Turn' = Turn
    BY <2>1
  <2>. QED BY <2>1, <2>2, Remains, Breaks
<1>24. CASE TaskBody
  BY <1>24 DEF TaskBody, IInv, TypeOK, TrapInv, StackInv, RaOf, Trapped
<1>25. CASE CallGethid
  BY <1>25 DEF CallGethid, IInv, TypeOK, TrapInv, StackInv, RaOf, Trapped
<1>26. CASE Gethid
  <2>1. pc \in CodeLocs /\ a0 \in {ZERO, FAILED, PTR} /\ Trap("ecall", SYS_GETHID, a0)
    BY <1>26 DEF Gethid, IInv, TypeOK
  <2>. QED BY <2>1, TrapRemains DEF SYS_GETHID
<1>27. CASE GethidReturn
  BY <1>27 DEF GethidReturn, IInv, TypeOK, TrapInv, StackInv, RaOf, Trapped
<1>28. CASE UseRet
  BY <1>28 DEF UseRet, IInv, TypeOK, TrapInv, StackInv, RaOf, Trapped
<1>29. CASE CallPuts
  <2>1. pc # "overrun" /\ stk = current_task /\ stk' = stk /\ current_task' = current_task
        /\ Pos # "back" /\ Pos' # "back"
    BY <1>29 DEF CallPuts, IInv, StackInv
  <2>2. Turn' = Turn
    BY <2>1
  <2>. QED BY <2>1, <2>2, Remains, Breaks
<1>30. CASE Puts
  <2>1. pc # "overrun" /\ stk = current_task /\ stk' = stk /\ current_task' = current_task
        /\ Pos # "back" /\ Pos' # "back"
    BY <1>30 DEF Puts, IInv, StackInv
  <2>2. Turn' = Turn
    BY <2>1
  <2>. QED BY <2>1, <2>2, Remains, Breaks
<1>31. CASE Putc
  BY <1>31 DEF Putc, IInv, TypeOK, TrapInv, StackInv, RaOf, Trapped
<1>32. CASE Stray
  <2>1. pc # "overrun" /\ stk = current_task /\ stk' = stk /\ current_task' = current_task
        /\ Pos # "back" /\ Pos' # "back"
    BY <1>32 DEF Stray, IInv, StackInv
  <2>2. Turn' = Turn
    BY <2>1
  <2>. QED BY <2>1, <2>2, Remains, Breaks
<1>33. CASE CallDelay
  <2>1. pc # "overrun" /\ stk = current_task /\ stk' = stk /\ current_task' = current_task
        /\ Pos # "back" /\ Pos' # "back"
    BY <1>33 DEF CallDelay, IInv, StackInv
  <2>2. Turn' = Turn
    BY <2>1
  <2>. QED BY <2>1, <2>2, Remains, Breaks
<1>34. CASE Delay
  BY <1>34 DEF Delay, IInv, TypeOK, TrapInv, StackInv, RaOf, Trapped
<1>35. CASE Lost
  <2>1. pc \in CodeLocs /\ a0 \in {ZERO, FAILED, PTR} /\ Trap("fault", 0, a0)
    BY <1>35 DEF Lost, IInv, TypeOK
  <2>. QED BY <2>1, TrapRemains
<1>36. CASE Overrun
  BY <1>36 DEF Overrun, vars, IInv, TypeOK, TrapInv, StackInv, RaOf,
     Trapped
<1>37. CASE DiskServe
  BY <1>37 DEF DiskServe, VIRTIO_IRQ, UART0_IRQ, IInv, TypeOK, TrapInv, StackInv, RaOf,
     Trapped
<1>38. CASE KeyPress
  BY <1>38 DEF KeyPress, VIRTIO_IRQ, UART0_IRQ, IInv, TypeOK, TrapInv, StackInv, RaOf,
     Trapped
<1>39. CASE UNCHANGED vars
  BY <1>39 DEF vars
<1>. QED BY <1>1, <1>2, <1>3, <1>4, <1>5, <1>6, <1>7, <1>8, <1>9, <1>10, <1>11, <1>12,
    <1>13, <1>14, <1>15, <1>16, <1>17, <1>18, <1>19, <1>20, <1>21, <1>22, <1>23, <1>24,
    <1>25, <1>26, <1>27, <1>28, <1>29, <1>30, <1>31, <1>32, <1>33, <1>34, <1>35, <1>36,
    <1>37, <1>38, <1>39 DEF Next, Hart, Boot, Scheduler, Traps, User

\* os_main, task_go, os_kernel, task_os and the timer keep round robin order, as long
\* as no stack runs over: the safety part of ImplementsRoundRobin.
THEOREM RoundRobinRefinement ==
  Spec => RoundRobinOf!Init /\ [][RoundRobinOf!CrashingNext]_<<Running, Turn>>
<1>1. Init => RoundRobinOf!Init
  BY DEF Init, RoundRobinOf!Init, Pos
<1>. QED BY <1>1, RoundRobinStep, Invariance, PTL DEF Spec
=============================================================================
