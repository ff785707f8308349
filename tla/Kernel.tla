------------------------------- MODULE Kernel -------------------------------
(***************************************************************************)
(* The kernel of 10-SystemCall on hart 0 (start.s parks the other harts):  *)
(* boot, the round robin loop of os_main, the switch between the OS stack  *)
(* and the task stacks, timer preemption, external interrupts and the      *)
(* gethid system call.                                                     *)
(*                                                                         *)
(* One action is the code between two points at which an interrupt may be  *)
(* taken; "pc" names the point and "ra" is the return-address register,    *)
(* which matters because the timer handler makes the trap return to        *)
(* os_kernel and so leaves the interrupted pc behind: the task later       *)
(* continues at its "ra".  The frame of the function it was in stays on    *)
(* its stack; "depth" counts the frames there.                             *)
(***************************************************************************)
EXTENDS Integers, FiniteSets

CONSTANTS
    NTask,          \* tasks user_init creates
    SyscallTasks,   \* the tasks that run user_task4 (the others run user_task0)
    StackFrames,    \* frames that fit into the STACK_SIZE bytes of a task's stack
    Interval,       \* timer period, in steps of this module
    DiskLatency,    \* the longest the disk keeps virtio_disk_rw waiting
    MaxKeys,        \* bound: characters typed at the console
    EarlyKeys       \* may a character arrive before timer_init has run?

OS == -1            \* ctx_os and the boot stack
NULL == -2          \* a null struct context *
Tasks == 0..(NTask - 1)
Owners == Tasks \cup {OS}

\* QEMU's virt interrupt numbers, the values a0 takes and the system calls.
VIRTIO_IRQ == 1
UART0_IRQ == 10
ZERO == 0           \* NULL as an argument, success as a result
FAILED == -1
PTR == 1            \* some non-null address
SYS_GETHID == 1

ASSUME NTaskAssumption == NTask \in 1..10          \* MAX_TASK in task.h
ASSUME SyscallTasksAssumption == SyscallTasks \subseteq Tasks
\* A task without left-over frames can be interrupted anywhere (MaxUse below).
ASSUME StackAssumption == StackFrames \in Nat /\ StackFrames >= 9
ASSUME DiskAssumption == DiskLatency \in Nat \ {0}
\* The period is longer than any stretch of kernel code: 20000000 cycles
\* against some lines of console output and one sector read.
ASSUME IntervalAssumption == Interval \in Nat /\ Interval >= DiskLatency + 8
ASSUME KeysAssumption == MaxKeys \in Nat /\ EarlyKeys \in BOOLEAN

BootLocs == {"user_init", "plic_init", "virtio_disk_init", "timer_init",
             "virtio_disk_rw", "disk_wait", "page_test"}
LoopLocs == {"os_main", "task_go", "go_switch", "back"}
YieldLocs == {"os_kernel", "task_os", "os_switch", "unwind"}
\* "stray" is the loop of lib_puts with sp and s0 of a frame of lib_putc, "lost"
\* its read through a wild pointer, "wild" an address that is no code.
UserLocs == {"task", "body", "call_gethid", "gethid", "gethid_ret", "use_ret",
             "call_puts", "puts", "putc", "call_delay", "delay",
             "stray", "lost", "wild"}
\* The points of user code that a call returns to, and what can pass for one.
RetLocs == {"task", "call_gethid", "use_ret", "call_puts", "puts", "call_delay"}
StrayLocs == {"stray", "wild"}
CodeLocs == BootLocs \cup LoopLocs \cup YieldLocs \cup UserLocs
Locs == CodeLocs \cup {"trap", "mret", "hang", "overrun", "none"}

VARIABLES
    pc, stk, depth, ra, a0,                  \* the hart; sp is a stack and a depth in it
    MIE, mie, mscratch,                      \* mstatus.MIE, the mie bits, mscratch set
    tf,                                      \* the save area of trap_vector and return_pc
    ctxs, ctx_now, ctx, kra, frame,          \* contexts, task_os's local, what lies on stacks
    current_task, taskTop,
    left,                                    \* time until mtime reaches mtimecmp
    pend, keys, disk,                        \* PLIC, console input left, the disk request
    hid, ret,                                \* the locals of user_task4, per task
    dead                                     \* history: frames of functions that never return

hart == <<pc, stk, depth, ra, a0>>
trapVars == <<MIE, mie, mscratch, tf>>
schedVars == <<ctxs, ctx_now, ctx, kra, frame, current_task, taskTop, dead>>
devVars == <<pend, keys, disk>>
userVars == <<hid, ret>>
vars == <<hart, trapVars, schedVars, left, devVars, userVars>>

Context == [ra : Locs, sp : Owners \cup {NULL}, depth : 0..StackFrames,
            a0 : {ZERO, FAILED, PTR}]
TrapFrame == [epc : Locs, return_pc : Locs, ra : Locs, a0 : {ZERO, FAILED, PTR}, a7 : Nat,
              cause : {"none", "timer", "external", "ecall", "fault"}, MPIE : BOOLEAN]
NoFrame == [epc |-> "none", return_pc |-> "none", ra |-> "none", a0 |-> ZERO, a7 |-> 0,
            cause |-> "none", MPIE |-> FALSE]
NoContext == [ra |-> "none", sp |-> NULL, depth |-> 0, a0 |-> ZERO]

\* Mutated forms of definitions below: what a plausible slip in the code at
\* their lines would make of them.
MutActivated == ctx_now                       \* task_go forgets ctx_now
MutSaved(old) ==                              \* ctx_save forgets sp
    [ra |-> ra, sp |-> ctxs[old].sp, depth |-> ctxs[old].depth, a0 |-> PTR]
MutEpilogues == 1                             \* os_kernel's epilogue forgets sp
MutNextTaskNoWrap == current_task + 1         \* os_main forgets the remainder
MutNextTaskSame == current_task               \* os_main forgets to advance
MutRearmed == left                            \* timer_handler forgets mtimecmp
MutServiced(irq) == pend \ {VIRTIO_IRQ}       \* external_handler forgets lib_isr
MutSyscallResult == IF tf.a7 = SYS_GETHID THEN ZERO ELSE FAILED

Init ==
    /\ pc = "user_init" /\ stk = OS /\ depth = 0 /\ ra = "none" /\ a0 = ZERO
    /\ MIE = FALSE /\ mie = {} /\ mscratch = FALSE /\ tf = NoFrame
    /\ ctxs = [o \in Owners |-> NoContext] /\ ctx_now = NULL /\ ctx = NULL
    /\ kra = [o \in Owners |-> "none"] /\ frame = [o \in Owners |-> "none"]
    /\ current_task = 0 /\ taskTop = 0
    /\ left = 0 /\ pend = {} /\ keys = MaxKeys /\ disk = "none"
    /\ hid = [t \in Tasks |-> FAILED] /\ ret = [t \in Tasks |-> FAILED]
    /\ dead = [o \in Owners |-> 0]

-----------------------------------------------------------------------------
(* Interrupts are taken between instructions, external before timer.       *)

ExternalReady == MIE /\ "MEIE" \in mie /\ pend # {}
TimerReady == MIE /\ "MTIE" \in mie /\ left = 0
At(l) == pc = l /\ ~ExternalReady /\ ~TimerReady
Spend(d) == left' = IF left > d THEN left - d ELSE 0
GoTo(l) == pc' = l /\ UNCHANGED <<stk, depth, ra, a0>>
Call(l, r) == pc' = l /\ ra' = r /\ UNCHANGED <<stk, depth, a0>>

\* The same with the prologue of the called function, whose frame goes onto a
\* task's stack.  Nothing guards its end: behind it lies the neighbour's.
Enter(l, r) ==
    /\ IF depth < StackFrames THEN pc' = l /\ depth' = depth + 1
       ELSE pc' = "overrun" /\ UNCHANGED depth
    /\ ra' = r /\ UNCHANGED <<stk, a0>>

\* An epilogue and the return to l, which stays in ra.
Return(l) == pc' = l /\ ra' = l /\ depth' = depth - 1 /\ UNCHANGED <<stk, a0>>

-----------------------------------------------------------------------------
(* os_start                                                                 *)

\* task_create: context i starts at the task's first instruction on its stack.
TaskCreate ==
    /\ At("user_init")
    /\ ctxs' = [ctxs EXCEPT ![taskTop] = [ra |-> "task", sp |-> taskTop, depth |-> 0,
                                           a0 |-> @.a0]]
    /\ taskTop' = taskTop + 1
    /\ GoTo(IF taskTop + 1 < NTask THEN "user_init" ELSE "plic_init")
    /\ Spend(1)
    /\ UNCHANGED <<trapVars, ctx_now, ctx, kra, frame, current_task, dead, devVars, userVars>>

PlicInit ==
    /\ At("plic_init")
    /\ mie' = mie \cup {"MEIE"} /\ MIE' = TRUE
    /\ GoTo("virtio_disk_init") /\ Spend(1)
    /\ UNCHANGED <<mscratch, tf, schedVars, devVars, userVars>>

VirtioDiskInit ==
    /\ At("virtio_disk_init") /\ GoTo("timer_init") /\ Spend(1)
    /\ UNCHANGED <<trapVars, schedVars, devVars, userVars>>

MutTimerInit ==                               \* timer_init forgets mscratch
    /\ At("timer_init")
    /\ left' = Interval /\ mie' = mie \cup {"MTIE"}
    /\ GoTo("virtio_disk_rw")
    /\ UNCHANGED <<MIE, mscratch, tf, schedVars, devVars, userVars>>

TimerInit ==
    /\ At("timer_init")
    /\ left' = Interval /\ mscratch' = TRUE /\ mie' = mie \cup {"MTIE"}
    /\ GoTo("virtio_disk_rw")
    /\ UNCHANGED <<MIE, tf, schedVars, devVars, userVars>>

\* disk_read: one sector is requested and the caller spins on b->disk; the
\* time of the wait is charged when it ends.
DiskRequest ==
    /\ At("virtio_disk_rw")
    /\ disk' = "posted"
    /\ GoTo("disk_wait") /\ Spend(1)
    /\ UNCHANGED <<trapVars, schedVars, pend, keys, userVars>>

DiskWait ==
    /\ At("disk_wait") /\ disk = "done"
    /\ GoTo("page_test") /\ \E d \in 1..DiskLatency : Spend(d)
    /\ UNCHANGED <<trapVars, schedVars, devVars, userVars>>

PageTest ==
    /\ At("page_test") /\ GoTo("os_main") /\ Spend(1)
    /\ UNCHANGED <<trapVars, schedVars, devVars, userVars>>

-----------------------------------------------------------------------------
(* The scheduler loop of os_main and the switches.                          *)

OsMain ==
    /\ At("os_main") /\ Call("task_go", "back") /\ Spend(1)
    /\ UNCHANGED <<trapVars, schedVars, devVars, userVars>>

\* The context that becomes current.
Activated == current_task

TaskGo ==
    /\ At("task_go")
    /\ ctx_now' = Activated
    /\ GoTo("go_switch") /\ Spend(1)
    /\ UNCHANGED <<trapVars, ctxs, ctx, kra, frame, current_task, taskTop, dead, devVars, userVars>>

\* What ctx_save puts into the old context; the call left its address in a0.
Saved(old) == [ra |-> ra, sp |-> stk, depth |-> depth, a0 |-> PTR]

\* sys_switch(old, new): ctx_save, ctx_load, ret.
SysSwitch(old, new) ==
    LET saved == [ctxs EXCEPT ![old] = Saved(old)]
    IN  /\ ctxs' = saved
        /\ ra' = saved[new].ra /\ pc' = saved[new].ra
        /\ stk' = saved[new].sp /\ depth' = saved[new].depth /\ a0' = saved[new].a0

GoSwitch ==
    /\ At("go_switch") /\ SysSwitch(OS, current_task) /\ Spend(1)
    /\ UNCHANGED <<trapVars, ctx_now, ctx, kra, frame, current_task, taskTop,
                   dead, devVars, userVars>>

NextTask == (current_task + 1) % taskTop

Back ==
    /\ At("back")
    /\ current_task' = NextTask
    /\ GoTo("os_main") /\ Spend(1)
    /\ UNCHANGED <<trapVars, ctxs, ctx_now, ctx, kra, frame, taskTop, dead, devVars, userVars>>

\* os_kernel and task_os run on the interrupted stack, where the handler's
\* frames have just been; os_kernel's frame keeps the interrupted ra.
OsKernel ==
    /\ At("os_kernel")
    /\ kra' = [kra EXCEPT ![stk] = ra]
    /\ Enter("task_os", "unwind") /\ Spend(1)
    /\ UNCHANGED <<trapVars, ctxs, ctx_now, ctx, frame, current_task, taskTop,
                   dead, devVars, userVars>>

TaskOs ==
    /\ At("task_os")
    /\ ctx' = ctx_now /\ ctx_now' = OS
    /\ Enter("os_switch", ra) /\ Spend(1)
    /\ UNCHANGED <<trapVars, ctxs, kra, frame, current_task, taskTop, dead, devVars, userVars>>

\* With ctx_now still null the first store of ctx_save faults, for ever.
OsSwitch ==
    /\ At("os_switch")
    /\ IF ctx = NULL THEN GoTo("lost") /\ UNCHANGED ctxs ELSE SysSwitch(ctx, OS)
    /\ Spend(1)
    /\ UNCHANGED <<trapVars, ctx_now, ctx, kra, frame, current_task, taskTop,
                   dead, devVars, userVars>>

\* Where the epilogues of task_os and os_kernel take the task.  Behind its call
\* of lib_putc, lib_puts then has the sp and s0 of the call that was cut off.
Resumed(o) == IF kra[o] = "puts" /\ frame[o] = "putc" THEN "stray" ELSE kra[o]

\* The frames these two take off the stack.
Epilogues == 2

Unwind ==
    /\ At("unwind")
    /\ pc' = Resumed(stk) /\ ra' = Resumed(stk) /\ depth' = depth - Epilogues
    /\ UNCHANGED <<stk, a0>> /\ Spend(1)
    /\ UNCHANGED <<trapVars, schedVars, devVars, userVars>>

-----------------------------------------------------------------------------
(* trap_vector and trap_handler.                                            *)

\* The calls a handler nests, on the interrupted stack: trap_handler and
\*   timer_handler, lib_printf, lib_vprintf, lib_puts, lib_putc;
\*   external_handler, lib_isr, lib_putc;
\*   do_syscall, sys_gethid, lib_printf, lib_vprintf, lib_puts, lib_putc;
\*   lib_printf, lib_vprintf, lib_puts, lib_putc.
Frames(cause) ==
    CASE cause = "timer" -> 6 [] cause = "external" -> 4
      [] cause = "ecall" -> 7 [] OTHER -> 5

\* The most that is in use at a time of what has not been left over: lib_putc
\* under lib_puts under the task, and the timer's handler.
MaxUse == 9

\* The hart enters trap_vector; without a save area in mscratch the stores of
\* reg_save fault and enter trap_vector again, for ever.
Trap(cause, num, arg) ==
    /\ MIE' = FALSE
    /\ IF mscratch
       THEN /\ tf' = [epc |-> pc, return_pc |-> pc, ra |-> ra, a0 |-> arg, a7 |-> num,
                      cause |-> cause, MPIE |-> MIE]
            /\ Call(IF stk = OS \/ depth + Frames(cause) <= StackFrames
                    THEN "trap" ELSE "overrun", "none")
       ELSE GoTo("hang") /\ UNCHANGED tf
    /\ UNCHANGED <<mie, mscratch, schedVars, left, devVars, userVars>>

TakeExternal == pc \in CodeLocs /\ ExternalReady /\ Trap("external", 0, a0)
TakeTimer == pc \in CodeLocs /\ TimerReady /\ ~ExternalReady /\ Trap("timer", 0, a0)

\* timer_handler: mtimecmp moves one period ahead of mtime.
Rearmed == Interval

\* The interrupted function has a frame and will not get to its epilogue.
CutOff == tf.epc \in {"body", "putc", "delay"} \/ (tf.epc = "puts" /\ tf.ra # "puts")

\* trap_handler, case 7: rearm and return into os_kernel, with what was
\* interrupted below on its stack.  mie.MTIE is cleared and set again.
TimerInterrupt ==
    /\ pc = "trap" /\ tf.cause = "timer"
    /\ left' = Rearmed
    /\ tf' = [tf EXCEPT !.return_pc = "os_kernel"]
    /\ mie' = (mie \ {"MTIE"}) \cup {"MTIE"}
    /\ frame' = [frame EXCEPT ![stk] = tf.epc]
    /\ dead' = IF CutOff THEN [dead EXCEPT ![stk] = @ + 1] ELSE dead
    /\ GoTo("mret")
    /\ UNCHANGED <<MIE, mscratch, ctxs, ctx_now, ctx, kra, current_task, taskTop,
                   devVars, userVars>>

\* What is pending once the device's routine has run: lib_isr drains the
\* receiver, virtio_disk_isr acknowledges the disk.
Serviced(irq) == pend \ {irq}

\* external_handler: claim (equal priorities, so the lowest number wins), the
\* device's routine, complete.
ExternalInterrupt ==
    LET irq == IF VIRTIO_IRQ \in pend THEN VIRTIO_IRQ ELSE UART0_IRQ
    IN  /\ pc = "trap" /\ tf.cause = "external"
        /\ pend' = Serviced(irq)
        /\ disk' = IF irq = VIRTIO_IRQ /\ disk = "served" THEN "done" ELSE disk
        /\ GoTo("mret")
        /\ UNCHANGED <<trapVars, schedVars, left, keys, userVars>>

\* sys_gethid's result; a7 names no other call.
SyscallResult ==
    IF tf.a7 = SYS_GETHID /\ tf.a0 # ZERO THEN ZERO ELSE FAILED

\* do_syscall(ctx) on the trap frame, and return_pc += 4.
DoSyscall ==
    /\ pc = "trap" /\ tf.cause = "ecall"
    /\ tf' = [tf EXCEPT !.a0 = SyscallResult, !.return_pc = "gethid_ret"]
    /\ hid' = IF tf.a7 = SYS_GETHID /\ tf.a0 # ZERO THEN [hid EXCEPT ![stk] = 0] ELSE hid
    /\ GoTo("mret")
    /\ UNCHANGED <<MIE, mie, mscratch, schedVars, left, devVars, ret>>

\* trap_handler, the other exceptions: report and return to epc.
Fault ==
    /\ pc = "trap" /\ tf.cause = "fault"
    /\ GoTo("mret") /\ Spend(1)
    /\ UNCHANGED <<trapVars, schedVars, devVars, userVars>>

\* reg_load and mret.  The C code has taken its own frames off, no others.
Mret ==
    /\ pc = "mret"
    /\ pc' = tf.return_pc /\ ra' = tf.ra /\ a0' = tf.a0 /\ UNCHANGED <<stk, depth>>
    /\ MIE' = tf.MPIE
    /\ UNCHANGED <<mie, mscratch, tf, schedVars, left, devVars, userVars>>

-----------------------------------------------------------------------------
(* User code.  A return leaves ra at the return point.                      *)

Run(l) == At(l) /\ Spend(1) /\ UNCHANGED <<trapVars, schedVars, devVars>>

TaskStart ==
    /\ Run("task") /\ Enter("body", ra) /\ UNCHANGED userVars

TaskBody ==
    /\ Run("body")
    /\ IF stk \in SyscallTasks
       THEN Call("call_gethid", "call_gethid") /\ hid' = [hid EXCEPT ![stk] = FAILED]
                                                /\ ret' = [ret EXCEPT ![stk] = FAILED]
       ELSE Call("call_puts", "call_puts") /\ UNCHANGED userVars

\* user.c passes &hid, or NULL in the line it comments out.
CallGethid ==
    /\ Run("call_gethid")
    /\ pc' = "gethid" /\ ra' = "use_ret" /\ a0' \in {PTR, ZERO}
    /\ UNCHANGED <<stk, depth, userVars>>

\* gethid is three instructions without a frame.
Gethid ==
    /\ At("gethid") /\ Trap("ecall", SYS_GETHID, a0)

GethidReturn ==
    /\ Run("gethid_ret") /\ GoTo(ra) /\ UNCHANGED userVars

UseRet ==
    /\ Run("use_ret")
    /\ ret' = [ret EXCEPT ![stk] = a0]
    /\ Call("call_puts", "call_puts")
    /\ UNCHANGED hid

CallPuts ==
    /\ Run("call_puts") /\ Enter("puts", "call_delay") /\ UNCHANGED userVars

\* The loop of lib_puts: one more character, or the end of the string.
Puts ==
    /\ Run("puts")
    /\ Enter("putc", "puts") \/ Return("call_delay")
    /\ UNCHANGED userVars

Putc ==
    /\ Run("putc") /\ Return(ra) /\ UNCHANGED userVars

\* The same loop in a frame that lib_putc left.  What lies where the string's
\* pointer should be leads anywhere: to more characters, to an access that
\* faults, or to a zero.  Then the epilogue jumps to what it finds in place of
\* a return address, lib_putc's saved s0.
Stray ==
    /\ Run("stray")
    /\ Enter("putc", "stray") \/ GoTo("lost") \/ Return("wild")
    /\ UNCHANGED userVars

CallDelay ==
    /\ Run("call_delay") /\ Enter("delay", "call_puts") /\ UNCHANGED userVars

Delay ==
    /\ Run("delay") /\ (GoTo("delay") \/ Return(ra)) /\ UNCHANGED userVars

\* The access, or the fetch, faults each time it is tried.
Lost ==
    /\ pc \in {"lost", "wild"} /\ At(pc) /\ Trap("fault", 0, a0)

\* What a program does that has written behind its stack is not modelled.
Overrun == pc = "overrun" /\ UNCHANGED vars

-----------------------------------------------------------------------------
(* The devices.                                                             *)

DiskServe ==
    /\ disk = "posted"
    /\ disk' = "served" /\ pend' = pend \cup {VIRTIO_IRQ}
    /\ UNCHANGED <<hart, trapVars, schedVars, left, keys, userVars>>

KeyPress ==
    /\ keys > 0 /\ (EarlyKeys \/ mscratch)
    /\ keys' = keys - 1 /\ pend' = pend \cup {UART0_IRQ}
    /\ UNCHANGED <<hart, trapVars, schedVars, left, disk, userVars>>

Boot == TaskCreate \/ PlicInit \/ VirtioDiskInit \/ TimerInit \/ DiskRequest \/ DiskWait
        \/ PageTest
Scheduler == OsMain \/ TaskGo \/ GoSwitch \/ Back \/ OsKernel \/ TaskOs \/ OsSwitch \/ Unwind
Traps == TakeExternal \/ TakeTimer \/ TimerInterrupt \/ ExternalInterrupt \/ DoSyscall
         \/ Fault \/ Mret
User == TaskStart \/ TaskBody \/ CallGethid \/ Gethid \/ GethidReturn \/ UseRet \/ CallPuts \/ Puts
        \/ Putc \/ Stray \/ CallDelay \/ Delay \/ Lost
Hart == Boot \/ Scheduler \/ Traps \/ User

Next == Hart \/ Overrun \/ DiskServe \/ KeyPress

\* The hart keeps executing and the disk answers; nobody has to type.
Spec == Init /\ [][Next]_vars /\ WF_vars(Hart) /\ WF_vars(DiskServe)

-----------------------------------------------------------------------------
(* Properties                                                               *)

TypeOK ==
    /\ pc \in Locs /\ stk \in Owners /\ ra \in Locs /\ a0 \in {ZERO, FAILED, PTR}
    /\ depth \in 0..StackFrames
    /\ MIE \in BOOLEAN /\ mie \subseteq {"MEIE", "MTIE"} /\ mscratch \in BOOLEAN
    /\ tf \in TrapFrame
    /\ ctxs \in [Owners -> Context]
    /\ ctx_now \in Owners \cup {NULL} /\ ctx \in Owners \cup {NULL}
    /\ kra \in [Owners -> Locs] /\ frame \in [Owners -> Locs]
    /\ current_task \in Tasks /\ taskTop \in 0..NTask
    /\ left \in 0..Interval
    /\ pend \subseteq {VIRTIO_IRQ, UART0_IRQ} /\ keys \in 0..MaxKeys
    /\ disk \in {"none", "posted", "served", "done"}
    /\ hid \in [Tasks -> {FAILED, 0}] /\ ret \in [Tasks -> {ZERO, FAILED, PTR}]
    /\ dead \in [Owners -> Nat]

\* Where the code below any trap stands.
Pos == IF pc \in {"trap", "mret"} THEN tf.return_pc ELSE pc

\* The timer preempts user code and nothing else.  A preemption of os_main,
\* task_go or os_kernel would save the wrong stack pointer in a context, and
\* before the first task_go ctx_now is null; no lock or mask excludes it, only
\* the length of the kernel's path from one timer_handler to the next task.
TimerOnlyInUser ==
    pc = "trap" /\ tf.cause = "timer" => tf.epc \in UserLocs /\ stk \in Tasks

\* The frames that belong to a task which stands, or goes on, at l.
Live(l) ==
    CASE l = "task" -> 0
      [] l \in {"puts", "stray", "lost", "delay"} -> 2
      [] l = "putc" -> 3
      [] OTHER -> 1

\* Every task that is not running can be resumed where sys_switch will take it:
\* its saved sp is on its own stack, not beyond its end, two frames above those of the
\* code that os_kernel's epilogue leads to and those that preemptions have
\* left behind; while a task runs, ctx_os leads back into os_main.
ContextIntegrity ==
    /\ \A t \in 0..(taskTop - 1) :
        stk # t => /\ ctxs[t].sp = t /\ ctxs[t].depth <= StackFrames
                   /\ \/ ctxs[t].ra = "task" /\ ctxs[t].depth = 0 /\ dead[t] = 0
                      \/ /\ ctxs[t].ra = "unwind" /\ kra[t] \in RetLocs \cup StrayLocs
                         /\ ctxs[t].depth = Live(kra[t]) + dead[t] + 2
    /\ stk # OS => ctxs[OS].ra = "back" /\ ctxs[OS].sp = OS

\* A stack runs over only for the frames of functions that a preemption has cut
\* off: without those, each nesting of calls, interrupts and system calls fits.
OnlyDeadFramesOverrun == pc = "overrun" => dead[stk] > StackFrames - MaxUse

\* The context a preemption saves into is that of the task whose stack is in
\* use, and it is the task os_main believes it activated.
PreemptSavesRunner ==
    stk # OS => /\ stk = current_task
                /\ IF Pos = "os_switch" THEN ctx = stk ELSE ctx_now = stk

\* A task that sees gethid succeed finds the hart id in its variable, whatever
\* interrupts and switches lay between the call and the test of its result.
SyscallTruthful == \A t \in Tasks : ret[t] = ZERO => hid[t] = 0

\* os_main's loop and the timer implement round robin scheduling, as long as no
\* stack runs over.
RoundRobinOf ==
    INSTANCE RoundRobin WITH
        N <- NTask,
        running <- IF pc = "overrun" THEN NULL ELSE stk,
        turn <- IF Pos = "back" THEN (current_task + 1) % NTask ELSE current_task
ImplementsRoundRobin == RoundRobinOf!CrashingSpec

\* Console input is served even though user code and other interrupts go on,
\* as long as no stack runs over.
ConsoleServed == (UART0_IRQ \in pend) ~> (UART0_IRQ \notin pend \/ pc = "overrun")

\* What sys.s ("save mepc to context of current task") and the 05 README say of
\* preemption: the task goes on where the timer interrupted it.
ResumeWhereInterrupted ==
    [][pc = "unwind" /\ pc' \in UserLocs => pc' = frame[stk]]_vars

\* What trap_vector's "save context(registers)" says: there is a save area.
NoTrapWithoutSaveArea == pc # "hang"

\* What the 02 README says of a task's stack: it is there so that the task can
\* call functions, for as long as it runs.
StacksLast == pc # "overrun"
=============================================================================
