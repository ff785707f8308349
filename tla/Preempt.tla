------------------------------ MODULE Preempt -------------------------------
(***************************************************************************)
(* 05-Preemptive, register by register: what a timer interrupt, the way    *)
(* through os_kernel to the OS and the way back do to the registers of the *)
(* task and of os_main.                                                    *)
(*                                                                         *)
(* A value is named by who put it there: by an owner of a stack (with a    *)
(* bit that tells an old value from a new one) or by a part of the kernel. *)
(* Interrupts hit user code only; why, is Kernel's TimerOnlyInUser.        *)
(***************************************************************************)
EXTENDS Integers

CONSTANT NTask5             \* tasks that user_init creates
ASSUME NTask5Assumption == NTask5 \in 1..10          \* MAX_TASK in task.h

OS5 == -1
HANDLER == -2               \* trap_handler and what it calls
KERNEL == -3                \* os_kernel, task_os, task_go and sys_switch
AREA == -4                  \* the address of timer_scratch
ZERO5 == -5                 \* reset, .bss
Tasks5 == 0..(NTask5 - 1)
Owners5 == Tasks5 \cup {OS5}

CalleeSaved == {"s0", "s1", "s2", "s3", "s4", "s5", "s6", "s7", "s8", "s9", "s10", "s11"}
CallerSaved == {"t0", "t1", "t2", "t3", "t4", "t5", "t6",
                "a0", "a1", "a2", "a3", "a4", "a5", "a6", "a7"}
Switched == CalleeSaved \cup {"ra", "sp"}           \* struct context
Regs5 == Switched \cup CallerSaved \cup {"gp", "tp"}

Val(o, b, r) == [by |-> o, bit |-> b, reg |-> r]
Vals == [by : Owners5 \cup {HANDLER, KERNEL, AREA, ZERO5}, bit : 0..1, reg : Regs5]
Area == Val(AREA, 0, "t6")
\* Registers in rs as o has set them.  gp and tp are nobody's.
Set5(regs, o, b, rs) ==
    [r \in Regs5 |-> IF r \in rs \ {"gp", "tp"} THEN Val(o, b, r) ELSE regs[r]]
Zeroed == [r \in Regs5 |-> Val(ZERO5, 0, r)]

VARIABLES
    pc5, owner5, regs5,          \* the hart; owner5: whose stack sp is in
    irq5,                        \* which of mtvec, mstatus.MIE, mie.MTIE are set
    mscratch5, timer_scratch,    \* the save area and the pointer to it
    ctxs5, ctx_now5, current_task5, taskTop5,
    frame5,                      \* ra and s0 in the frame of the outermost of
                                 \* the kernel's functions, per stack
    kept5                        \* history: the registers when the owner left off

vars5 == <<pc5, owner5, regs5, irq5, mscratch5, timer_scratch, ctxs5, ctx_now5, current_task5,
           taskTop5, frame5, kept5>>
Locs5 == {"user_init", "trap_init", "timer_init", "os_main", "task_go", "user", "handler",
          "reg_load", "os_kernel", "unwind", "back"}

\* Mutated forms of definitions below.
MutRestored(area, regs) ==                          \* reg_load without one line
    [r \in Regs5 |-> IF r \in {"tp", "a5"} THEN regs[r] ELSE area[r]]
MutLoaded(ctx, regs) ==                             \* ctx_load without its last line
    [r \in Regs5 |-> IF r \in Switched \ {"s11"} THEN ctx[r] ELSE regs[r]]

Init5 ==
    /\ pc5 = "user_init" /\ owner5 = OS5 /\ regs5 = Zeroed /\ irq5 = {}
    /\ mscratch5 = Val(ZERO5, 0, "t6") /\ timer_scratch = Zeroed
    /\ ctxs5 = [o \in Owners5 |-> [r \in Switched |-> Val(ZERO5, 0, r)]]
    /\ ctx_now5 = OS5 /\ current_task5 = 0 /\ taskTop5 = 0
    /\ frame5 = [o \in Owners5 |-> [r \in {"ra", "s0"} |-> Val(ZERO5, 0, r)]]
    /\ kept5 = [o \in Owners5 |-> Zeroed]

-----------------------------------------------------------------------------
(* os_start                                                                 *)

\* A new context: entry point and stack; the rest is .bss.
TaskContext5(i) ==
    [r \in Switched |-> IF r \in {"ra", "sp"} THEN Val(i, 0, r) ELSE Val(ZERO5, 0, r)]

UserInit5 ==
    /\ pc5 = "user_init"
    /\ ctxs5' = [ctxs5 EXCEPT ![taskTop5] = TaskContext5(taskTop5)]
    /\ taskTop5' = taskTop5 + 1
    /\ pc5' = IF taskTop5' < NTask5 THEN "user_init" ELSE "trap_init"
    /\ UNCHANGED <<owner5, regs5, irq5, mscratch5, timer_scratch, ctx_now5, current_task5,
                   frame5, kept5>>

TrapInit5 ==
    /\ pc5 = "trap_init"
    /\ irq5' = irq5 \cup {"mtvec", "MIE"}
    /\ pc5' = "timer_init"
    /\ UNCHANGED <<owner5, regs5, mscratch5, timer_scratch, ctxs5, ctx_now5, current_task5,
                   taskTop5, frame5, kept5>>

\* timer_init fills two words of the area that nothing reads and points mscratch to it.
TimerInit5 ==
    /\ pc5 = "timer_init"
    /\ mscratch5' = Area /\ irq5' = irq5 \cup {"MTIE"}
    /\ pc5' = "os_main"
    /\ UNCHANGED <<owner5, regs5, timer_scratch, ctxs5, ctx_now5, current_task5, taskTop5,
                   frame5, kept5>>

-----------------------------------------------------------------------------
(* The switch                                                               *)

Loaded(ctx, regs) == [r \in Regs5 |-> IF r \in Switched THEN ctx[r] ELSE regs[r]]

\* A kernel function on owner o's stack calls sys_switch(old, new): by then the
\* functions have put ra and s0 into their frames and use them, and the
\* caller-saved registers, themselves.
Switch5(old, new) ==
    LET in == Set5(regs5, KERNEL, 0, CallerSaved \cup {"ra", "s0"})
        saved == [ctxs5 EXCEPT ![old] = [r \in Switched |-> in[r]]]
    IN  /\ frame5' = [frame5 EXCEPT ![owner5] = [r \in {"ra", "s0"} |-> regs5[r]]]
        /\ ctxs5' = saved
        /\ regs5' = Loaded(saved[new], in)
        /\ owner5' = saved[new]["sp"].by
        /\ pc5' = IF saved[new]["ra"].by = KERNEL THEN "unwind" ELSE "user"

\* os_main prints, computes with any register it likes, and calls task_go.
OsMain5 ==
    /\ pc5 = "os_main"
    /\ \E b \in 0..1 : /\ regs5' = Set5(regs5, OS5, b, Regs5)
                       /\ kept5' = [kept5 EXCEPT ![OS5] = regs5']
    /\ pc5' = "task_go"
    /\ UNCHANGED <<owner5, irq5, mscratch5, timer_scratch, ctxs5, ctx_now5, current_task5,
                   taskTop5, frame5>>

TaskGo5 ==
    /\ pc5 = "task_go"
    /\ ctx_now5' = current_task5
    /\ Switch5(OS5, current_task5)
    /\ UNCHANGED <<irq5, mscratch5, timer_scratch, current_task5, taskTop5, kept5>>

OsKernel5 ==
    /\ pc5 = "os_kernel"
    /\ ctx_now5' = OS5
    /\ Switch5(ctx_now5, OS5)
    /\ UNCHANGED <<irq5, mscratch5, timer_scratch, current_task5, taskTop5, kept5>>

\* The epilogues on the way out of the kernel.
Unwind5 ==
    /\ pc5 = "unwind"
    /\ regs5' = [regs5 EXCEPT !["ra"] = frame5[owner5]["ra"], !["s0"] = frame5[owner5]["s0"]]
    /\ pc5' = IF owner5 = OS5 THEN "back" ELSE "user"
    /\ UNCHANGED <<owner5, irq5, mscratch5, timer_scratch, ctxs5, ctx_now5, current_task5,
                   taskTop5, frame5, kept5>>

Back5 ==
    /\ pc5 = "back"
    /\ current_task5' = (current_task5 + 1) % taskTop5
    /\ pc5' = "os_main"
    /\ UNCHANGED <<owner5, regs5, irq5, mscratch5, timer_scratch, ctxs5, ctx_now5, taskTop5,
                   frame5, kept5>>

-----------------------------------------------------------------------------
(* User code, and the interrupt                                             *)

UserTask5 ==
    /\ pc5 = "user"
    /\ \E b \in 0..1 : regs5' = Set5(regs5, owner5, b, Regs5)
    /\ UNCHANGED <<pc5, owner5, irq5, mscratch5, timer_scratch, ctxs5, ctx_now5, current_task5,
                   taskTop5, frame5, kept5>>

\* csrrw t6, mscratch, t6; reg_save t6; csrw mscratch, t6.  The t6 that is stored is
\* the area's address by then, and what csrrw had put into mscratch is overwritten.
TrapVector ==
    /\ pc5 = "user" /\ irq5 = {"mtvec", "MIE", "MTIE"}
    /\ irq5' = irq5 \ {"MIE"}
    /\ kept5' = [kept5 EXCEPT ![owner5] = regs5]
    /\ regs5' = [regs5 EXCEPT !["t6"] = mscratch5]
    /\ timer_scratch' = regs5'
    /\ pc5' = "handler"
    /\ UNCHANGED <<owner5, mscratch5, ctxs5, ctx_now5, current_task5, taskTop5, frame5>>

\* trap_handler, cause 7, is C code: it keeps the callee-saved registers.
TrapHandler5 ==
    /\ pc5 = "handler"
    /\ regs5' = Set5(regs5, HANDLER, 0, CallerSaved \cup {"ra"})
    /\ pc5' = "reg_load"
    /\ UNCHANGED <<owner5, irq5, mscratch5, timer_scratch, ctxs5, ctx_now5, current_task5,
                   taskTop5, frame5, kept5>>

\* reg_load leaves tp out; mret.  return_pc was os_kernel.
Restored(area, regs) == [r \in Regs5 |-> IF r = "tp" THEN regs[r] ELSE area[r]]

RegLoad ==
    /\ pc5 = "reg_load"
    /\ regs5' = Restored(timer_scratch, regs5)
    /\ pc5' = "os_kernel" /\ irq5' = irq5 \cup {"MIE"}
    /\ UNCHANGED <<owner5, mscratch5, timer_scratch, ctxs5, ctx_now5, current_task5,
                   taskTop5, frame5, kept5>>

Next5 ==
    \/ UserInit5 \/ TrapInit5 \/ TimerInit5 \/ OsMain5 \/ TaskGo5 \/ OsKernel5 \/ Unwind5 \/ Back5
    \/ UserTask5 \/ TrapVector \/ TrapHandler5 \/ RegLoad

Spec5 == Init5 /\ [][Next5]_vars5

-----------------------------------------------------------------------------
(* Properties                                                               *)

TypeOK5 ==
    /\ pc5 \in Locs5 /\ owner5 \in Owners5
    /\ irq5 \subseteq {"mtvec", "MIE", "MTIE"}
    /\ regs5 \in [Regs5 -> Vals] /\ mscratch5 \in Vals /\ timer_scratch \in [Regs5 -> Vals]
    /\ ctxs5 \in [Owners5 -> [Switched -> Vals]]
    /\ ctx_now5 \in Owners5 /\ current_task5 \in Tasks5 /\ taskTop5 \in 0..NTask5
    /\ frame5 \in [Owners5 -> [{"ra", "s0"} -> Vals]]
    /\ kept5 \in [Owners5 -> [Regs5 -> Vals]]

\* When the handler has returned every register is what it was when the interrupt
\* came, except t6, which is lost: trap_vector puts its own pointer there.
TrapLosesOnlyT6 ==
    pc5 = "os_kernel" =>
        /\ \A r \in Regs5 \ {"t6"} : regs5[r] = kept5[owner5][r]
        /\ regs5["t6"] = Area

\* A task that resumes finds its stack, its return address and the callee-saved
\* registers as they were when it was interrupted, and os_main those it had when it
\* called task_go, whatever everybody else computed in the meantime.
SwitchKeepsCalleeSaved ==
    [][pc5 = "unwind" => \A r \in Switched : regs5'[r] = kept5[owner5][r]]_vars5
=============================================================================
