# mini-riscv-os: a verification project

mini-riscv-os is a tutorial operating system for RISC-V (QEMU `virt`, RV32) in
ten stages. Each directory `01-HelloOs` ... `10-SystemCall` is the same program
one chapter further. `Kernel`, `Alloc` and `VirtioDisk` model `10-SystemCall`, which
holds nearly everything the others hold. The chapters 02 to 09 are programs of their
own, with their own traps, timers and tests, and have modules of their own.

## 1. Inventory

| Component | State it keeps | Operations | Interacts with |
|---|---|---|---|
| Boot and scheduler loop (`os.c`, `start.s`) | `current_task`, the OS stack | `os_start`, `os_main`, `os_kernel` | calls every `*_init`, `task_go`; `os_kernel` is where the timer trap returns to |
| Tasks and context switch (`task.c`, `sys.s`) | `ctx_os`, `ctx_tasks`, `ctx_now`, `taskTop`, `task_stack` | `task_create`, `task_go`, `task_os`, `sys_switch` | the scheduler loop and `os_kernel` |
| Trap entry and dispatch (`sys.s`, `trap.c`) | `mscratch` and its save area, `mstatus`, `mie` | `trap_vector`, `trap_handler`, `external_handler` | timer, PLIC, disk, console, system calls |
| Timer (`timer.c`) | `mtimecmp`, `timer_count` | `timer_init`, `timer_handler` | traps |
| Interrupt controller (`plic.c`) | priorities, enables, claims | `plic_init`, `plic_claim`, `plic_complete` | traps, devices |
| System calls (`syscall.c`, `usys.s`) | the trap frame | `gethid`, `do_syscall`, `sys_gethid` | user tasks, traps |
| User tasks (`user.c`) | their stacks, `shared_var`, `lock` | `user_task0` ... `user_task4` | console, locks, system calls |
| Locks (`lock.c`, `atomic_swap`) | `locked` | `lock_acquire`, `lock_free` | user tasks, disk driver |
| Block device driver (`virtio.c`) | descriptor table, rings, `free[]`, `info[]`, `used_idx` | `virtio_disk_init`, `virtio_disk_rw`, `virtio_disk_isr` | PLIC, device, lock |
| Memory allocator (`alloc.c`, `mem.s`, `os.ld`) | page descriptors, pool bounds | `page_init`, `malloc`, `free` | boot |
| Console library (`lib.c`) | UART registers | `lib_putc`, `lib_puts`, `lib_getc`, `lib_gets`, `lib_isr`, `lib_printf` | everything |
| String functions (`string.c`) | none | `memset`, `memcpy`, `memmove` | disk driver |
| Earlier stages | as above, per chapter | switch by hand (02), cooperative tasks (03), bare timer (04), preemption (05), lock demonstration (06), external interrupts (07), disk test (08), allocator (09) | each is a whole program |

What is hard here. There is one processor, but four things run on it
interleaved: the OS loop, the tasks, the interrupt handlers and, beside it, the
devices. The timer trap does not return to what it interrupted but into
`os_kernel`, so a preempted task continues at the return address it had in `ra`.
No mask protects the scheduler from the timer; only the length of the period
does. What was interrupted in a function that keeps no `ra` of its own leaves that function's
frame behind, on a stack of 1024 bytes that nothing guards. Interrupts are enabled before the trap vector has a save area. The disk
is waited for by spinning until its interrupt handler clears a flag. The
allocator's and timer's arithmetic is unsigned and 32 bits wide.

What makes each part correct:

- scheduler: tasks take turns, each runs again and again, a preemption saves
  into the context of the task that was running, a saved context leads
  back into its own stack, not beyond its end;
- traps: the handler's return point is one that the interrupted code can stand,
  the save area exists, the result of a system call arrives;
- timer: it is always rearmed, it fires in user code only;
- disk: a request completes, descriptors are conserved, the handler touches
  only requests in flight;
- allocator: blocks are disjoint, big enough and inside the pool, and everything
  freed can be allocated again;
- locks: at most one holder, a released lock can be taken;
- console: every character that arrives is handled once, and what is printed comes out whole;
- cooperative tasks: a task that yields goes on right behind its call;
- string functions: overlapping ranges are moved without loss.

`PROJECT.json` lists the hazards at their lines.

## 2. Modules

| Module | Models | Proofs |
|---|---|---|
| `RoundRobin` | abstract specification of `os_main`: the processor alternates between the OS and the tasks in turn; `CrashingSpec` for a program in which a task may break down | |
| `Kernel` | 10: boot, scheduler, context switch, traps, timer, system call, the two tasks `user_init` creates | `KernelProofs` |
| `Heap` | abstract specification of `malloc` and `free`: runs of pages that nobody shares | |
| `Alloc` | `page_init`, `malloc`, `free` over the page descriptors | `AllocProofs` |
| `BlockDevice` | abstract specification of `virtio_disk_rw`: one sector moved between call and return | |
| `VirtioDisk` | the disk driver, its interrupt handler and the device, for any number of harts | `VirtioDiskProofs` |
| `Coop` | 02 and 03: the switch between stacks without interrupts; over `RoundRobin` again | `SwitchProofs` |
| `Timer` | 04: `timer_init`, `timer_handler` and `sys_timer` on 64-bit registers of which the program sees one word | `SwitchProofs` |
| `Preempt` | 05: the whole register file through a trap, the switch and back | `SwitchProofs` |
| `Spinlock` | 06: `lock_acquire`, `atomic_swap`, `lock_free` and the tasks that use them, preempted anywhere | `SpinlockProofs` |
| `Format` | `lib_vsnprintf` as an operator | |
| `Printf` | 06: `lib_printf` with its static buffer, in a task and in the interrupt that preempts it | `SpinlockProofs` |
| `Console` | 07: UART, PLIC, `lib_putc`, `lib_getc`, `lib_isr` | `DriverProofs` |
| `Disk8` | 08: the steps of `virtio_disk_init` beside the device's view of the registers, then `virtio_tester`'s requests | `DriverProofs` |
| `AllocLoop` | 09: the loops of `page_init`, `malloc`, `free`, one iteration a step; over `Alloc` | `AllocLoopProofs` |
| `Strings` | `memset`, `memcpy`, `memmove` | `DriverProofs` |
| `MCKernel`, `MCAlloc`, `MCVirtioDisk`, `MCSpinlock`, `MCTimer` | instances for TLC | |
| `MCChapters` | one instance of all the chapters' modules: `Init` picks the program that runs | `ChaptersProofs` |

`Kernel` has the disk as one request that the boot waits for and the allocator as
one step, `page_test`. `VirtioDisk` and `Alloc` open these two boxes. What
`Kernel` takes from them is little: that the disk's interrupt ends the wait, which
`RequestReturns` of `VirtioDisk` shows, and that `page_test` changes nothing of the
scheduler's. `Spinlock` and `Printf` take from `Kernel` how a preempted task resumes
(`ResumePoints`, `ResumeF`: at `ra`, with the frame it had), and that only user code is
preempted, which `TimerOnlyInUser` shows. `Alloc` has each call as one action;
`AllocLoop` shows that the loops implement it. `VirtioDisk` starts where
`virtio_disk_init` has succeeded; `Disk8` has that function's steps.

Names in the chapters' modules end in the chapter's number (`S` and `F` in `Strings` and
`Printf`) where several modules would share them, so that `MCChapters` can extend them all.

### Kernel

One action is the code between two points at which an interrupt may arrive.
`pc` names that point; `sp` is `stk`, the stack it lies in, and `depth`, how many frames deep; `ra` and `a0` are the
registers that decide where control goes and what a call returns. `tf` is the
save area of `trap_vector` together with `trap_handler`'s `return_pc`; `ctxs`,
`ctx_now`, `taskTop` and `current_task` are the program's variables, `ctx` is
`task_os`'s local; `kra` is the return address that `os_kernel`'s prologue puts
on the interrupted stack and its epilogue takes back; `frame` remembers which
function's frame (hence which `s0`) the timer interrupted. `dead` is a history: how many frames lie on a task's stack
whose functions will not get to their epilogue.

- Boot runs `os_start`'s steps in their order: `TaskCreate` (once per task),
  `PlicInit` (which sets `mie.MEIE` and `mstatus.MIE`), `VirtioDiskInit`,
  `TimerInit` (which gives `mscratch` its save area and sets `mie.MTIE`), the
  disk read of `disk_read` (`DiskRequest`, `DiskWait`) and `page_test`.
- `OsMain`, `TaskGo`, `GoSwitch`, `Back` are the loop of `os_main`; `OsKernel`,
  `TaskOs`, `OsSwitch`, `Unwind` the way from a timer trap back to it and, when
  the task is next activated, out of `os_kernel` again.
- `TakeExternal` and `TakeTimer` are the hardware's trap entry and
  `trap_vector`'s `reg_save`; `TimerInterrupt`, `ExternalInterrupt`, `DoSyscall`
  and `Fault` are the branches of `trap_handler`; `Mret` is `reg_load` and `mret`.
- `TaskStart` ... `Delay` are `user_task0`, `user_task4`, `gethid`, `lib_puts`,
  `lib_putc` and `lib_delay`, cut at each call and each turn of a loop; `Stray` and `Lost` are what becomes of a task
  that goes on in a frame which is not its own.
- `DiskServe` and `KeyPress` are the devices.

Resumption. `Mret` gives back what the trap frame holds and leaves `sp` where the interrupted code
had it. After a timer trap that code is not returned to: `os_kernel` runs on top of whatever frames are there, and
when the task is next activated `Unwind` takes off two, those of `task_os` and `os_kernel`, and goes to `ra`. So
a task that was hit in `lib_delay` or `lib_putc` (or in `user_task0` or `lib_puts` before their first call, while `ra` is still the caller's) goes
on at the caller with one frame more than the caller believes. `CutOff` tells when, `Live` says how many frames the code
at each point should have, and the difference is `dead`.

- Behind its call of `lib_putc`, `lib_puts` then has the `sp` and `s0` of `lib_putc`'s frame (`Resumed`, the location `stray`). It
  finds its string through `s0`, so it reads through whatever that frame holds there: it may go on printing, fault, or meet a
  zero. In the last case it does not return to its caller: its epilogue (`lib.c:90`) loads `ra` from the place where
  `lib_putc` had saved `s0` and jumps there (`wild`).
- `lost` is an access that faults each time it is tried, `wild` an address that is no code, where the fetch faults each time. `trap_handler`
  prints a line and returns to the same place (`Fault`), so this task is lost until the end, but the timer still takes the
  processor from it. What the bytes at a wild address would do if they happened to be instructions is left out.
- A call on a task's stack needs a frame (`Enter`), a trap as many as its handler nests (`Frames`). If fewer than that are left
  of `StackFrames`, the program writes into the neighbour's stack: `overrun`, where the model ends, because nothing can be said of
  what happens then. The OS stack is not counted: nothing on it is ever preempted.

`StackFrames` is how many frames fit into `STACK_SIZE`: they differ in size, mostly 32 bytes in this build, so about 30; a frame
count is exact enough for what is said of it, that frames are left over and that they alone fill a stack. A timer interrupt in the first or last
instructions of a leaf, when its frame is not yet or no longer there, leaves what one at the return point would, and is no
place of its own. A fault that prints with `lib_puts` nests two frames less than `Frames` says.

Abstractions. `lib_puts("Task4: Created!\n")` at `user_task4`'s start and
the `lib_printf` of `gethid`'s result are part of the step beside them: each runs once, and what preemption does to such calls
is in the loop's `lib_puts` here and in `Printf`. `lib_printf` nests two frames deeper than the loop's calls, for which `MaxUse`
would be 11 instead of 9. Code is
compiled as the Makefile compiles it (no optimisation), so a function that calls
keeps its `ra` on its stack and a leaf (`lib_putc`, `lib_delay`, `gethid`) does
not. Callee-saved registers appear only where they decide control, as `s0` does above. Other exceptions cannot be raised by this
program.

Time. `left` is the time until `mtime` reaches `mtimecmp`. A step of the kernel or
of a task costs one unit, handlers cost nothing, except the report that a fault
prints, so that a fault loop meets the timer. The wait for the disk costs
between 1 and `DiskLatency`, charged when it ends. `IntervalAssumption` says
that the period is longer than a pass through the kernel: 20000000 cycles
against some lines of output and one sector. The real margin is much larger;
the model takes the smallest period for which the argument works, so nothing
relies on more.

`EarlyKeys` decides whether the console may interrupt before `timer_init`. The
passing run and the theorems about the save area assume it does not; the run
`kernel_early_key` shows what happens if it does.

### Alloc

`flags` is the table of `struct Page` at `HEAP_START`; `num_pages`, `alloc_start`
and `alloc_end` are the statics of `alloc.c`, 0 until `PageInit`. `blocks` is
what the callers hold; `req` and `p` keep the last `malloc`'s argument and result.
`page_test` runs before the first task and nobody else calls the allocator, so
each function is one action.

- `PageInit` starts from any content of the table: `start.s` clears `.bss` only.
- `Malloc` takes the first run of `PageNum(size)` free pages that the loop's bound
  lets it see (`Candidates`, `Found`) and only adds flags (`Taken`). For more pages
  than there are, `_num_pages - npages` wraps and the search runs on into whatever
  follows the table: `Found` then allows an end in the table's last free pages or behind it.
- `Free` clears from the block's first page up to the first page that is last or
  already free (`Cleared`). Callers pass a block of theirs, `NULL`, an address past
  the pool, or an address of a free page, which is a second free before anyone
  else got the page. A second free after that breaks C's contract, which the code
  does not check ("Assert (TBD)"), and is left out.

### VirtioDisk

Per hart `pc`, the request `op`, the local `idx`, and `data` and `blk_disk`, the
fields of its `struct blk`; `free`, `desc`, `ops`, `info`, `used_idx` and `locked`
are the fields of `struct disk`; `avail_idx`, `avail_ring`, `dev_used`, `used_ring`
the rings; `isr` and `isr_id` the handler's place and `id`.

- `Call`, `Acquire`, `Alloc3`, `Format`, `PublishHead`, `PublishIdx`, `Notify`, `Wait`,
  `FreeChain`, `Unlock` are `virtio_disk_rw`, cut at the barriers and where the
  device may look. `Format` is one step because nobody reads what it writes before the
  index moves, and the barriers keep it in front.
- `IsrEnter` ... `IsrNext` are `virtio_disk_isr` on hart 0, whose own call waits
  meanwhile. They take no lock; the code has it commented out.
- `DevFetch` ... `DevInterrupt` are the device: it takes chains in ring order, may look
  before it is notified, may raise its line while the handler runs, and may report
  an error.

The program calls the driver from hart 0 only, with interrupts on. The lock exists
for callers on other harts, and `NHart` = 1 is the program as it stands. Addresses are
records that say what they point to; a sector's content is one value. The
retry of `alloc3_desc` and the spins are stutters. `panic` stops the hart that
calls it; the register negotiation of `virtio_disk_init` is one step that succeeds or
panics.

### Coop

02 and 03 are compiled with calls and returns only, so the model has the stacks:
`stack3` holds the return address in each frame, `sp3` says whose stack is in use and how
deep, `ra3` is the register. `Enter` is a call out of a function that must save its `ra`
first, `Return` any epilogue. `SysSwitch3` is `sys_switch`: it is the last thing
`task_go` and `task_os` do, so a saved context resumes in their epilogue. `chapter3` picks
the program: in 02 `os_main` fills in a context by hand and never comes back.

### Timer

`mtime` and `mtimecmp` are whole numbers; `Low` and `Timecmp` are what an access through
`reg_t *` does to them when `reg_t` has 32 bits and the register 64: `timer_init` and
`timer_handler` read one word of `mtime` and write one word of `mtimecmp`. The CSR writes of
`timer_init` are steps of their own, because an interrupt may come between them;
`TakeTimer4` is the trap, `Mret4` what is left after a handler that saved nothing: the
empty loop of `os_main` can go on, anything that holds its return address in `ra` is
lost. `armed` is a history variable.

### Preempt

Values are named by who wrote them. `TrapVector` is `reg_save`, `TrapHandler5` the C code
(callee-saved registers survive, nothing else), `RegLoad` is `reg_load` and `mret`,
`Switch5` is `sys_switch` with the prologues in front of it, `Unwind5` the epilogues behind
it. A task and `os_main` may set any register to an old or a new value of theirs at any
time. `kept5` remembers the registers of who was interrupted.

### Spinlock

`pc6` runs through `user_task0` to `user_task3`, `lock_acquire`, `atomic_swap` and
`lock_free`; `ra6` and `a0_6` are the registers, `link6` the return address in the frame of
`lock_acquire` or `lib_puts`. `resume6` is the `ra` that `sys_switch` keeps for a suspended
task: `TimerInterrupt6` stores it, `TaskGo6` goes there, with `a0` pointing to a context.
`struck6`, `incs6` and `cut6` are histories: what preemptions did to the lock, how often
`user_task2` has incremented since it entered, whether it was preempted there. Printing is one
step; that a preemption there may end in `lib_vprintf`'s error loop or in a wild string pointer
is taken from `Printf` and `Kernel`. `Slice6` is a lower bound on how long a task runs, not
on where it is cut: any step from the sixth on may be the last.

### Format and Printf

`Vsnprintf` is `lib_vsnprintf`: a fold over the format whose state is the text so far, the
arguments left and whether a conversion is open. It keeps the oddities of the code: `%c`
takes its argument only when there is room (so the measuring pass does not), an unknown
conversion stays open, `%d` negates the least number to itself. `Printf` cuts `lib_vprintf`
and `lib_puts` at every call; `Preempted` runs the handler's own `lib_printf` into the
same `out_buf`, and `ResumeF` says where the task goes on and what it has lost: `measure` loses
the result (`CtxOs`: `a0` holds an address), `putc` the character and perhaps `lib_puts`'s frame
pointer.

### Console

`rhr`, `rx_ready` and `thr` are the UART's receiver, its ready bit and its transmitter, of one character
each (`uart_init` turns no FIFO on); `claimed` is the PLIC's state of the interrupt. A
task prints for ever (`PutsNext`, `PutcTest`, `PutcStore`); `TakeExternal7` ...
`Mret7` are the trap, `plic_claim`, `lib_isr` with `lib_getc`'s two reads, and
`plic_complete`. `echoed`, `screen`, `replaced` and `lost` are histories; `NLBehind` tells
the line feed that `lib_isr` prints behind every echo from the one that is the echo of a return. The timer
is left out: that it cannot hit the handler is `Kernel`'s matter.

### Disk8

Each step of `virtio_disk_init` that writes a register or a field is an action; `Rings`
is where a legacy device looks for the parts of queue 0 given what the registers say so far, `ptrs8` where
the driver does. Afterwards `virtio_tester` reads the same block, with one request in flight, and may do it
again and again: a generalisation, as `os_main` of 08 calls `disk_read` once (`os.c:37`); a second read is what would
miss its interrupt after a wrong negotiation. The request path itself is `VirtioDisk`'s. `offered8`, `max8` and `there8` are what the device's
registers read as. `Signals` says what a device does that was allowed `EVENT_IDX`.

### AllocLoop

`i9` is `page_i`, `j9` first `page_j` and then `page_k`; `before9` keeps the table as it was when the call
began, so that a call is one step of `Alloc` at its return. The address arithmetic is
`Alloc`'s.

### Strings

Memory is a row of cells, each told apart by where it is at first. `Memset`, `Memmove` choose a loop as
the code does; the loops are one byte a step. `memcpy` is `memmove`.

## 3. Runs

Bounds of all runs of `Kernel`: two tasks (the smallest number with a turn to
take), one of which is `user_task4`, so that a preemption and a switch fall
inside the system call's way out and back; a period three or four more than the
minimum, so that the timer can fire at each point of the user code; the disk takes 1 or
2 steps; `MaxKeys` = 1 character, at any moment. Stacks of `StackFrames` = 10 frames, one more than a task needs that has
none left over, so that tasks with left-over frames go on for some preemptions and then run over. `kernel_stack` has 12, where it takes
several cut-off calls of the same task; its trace has 164 states. Each frame more costs one more: with 28, as many as the real
stack may hold, the trace has 706 states and takes a minute.

| Run | Expectation | Shows |
|---|---|---|
| `kernel` | pass | `TypeOK`; `TimerOnlyInUser`; `ContextIntegrity`; `PreemptSavesRunner`; `SyscallTruthful`; `NoTrapWithoutSaveArea`; `OnlyDeadFramesOverrun`; `Kernel` implements `RoundRobin` as long as no stack runs over, fairness included; `ConsoleServed` |
| `kernel_resume` | violation | a preempted task does not continue where it was interrupted (`ResumeWhereInterrupted`) |
| `kernel_stack` | violation | left-over frames fill a task's stack and run over its end (`StacksLast`) |
| `kernel_early_key` | violation | a key between `plic_init` and `timer_init` leads into a trap without a save area (`NoTrapWithoutSaveArea`) |
| `alloc` | pass | `TypeOK`; `DescriptorsExact`; `BlocksApart`; `BlocksInPool`; `RefusesOnlyWhenFull`; `Alloc` implements `Heap` |
| `alloc_size` | violation | `malloc(513)` gives two pages (`BlockHoldsSize`) |
| `alloc_last_page` | violation | the empty pool refuses a request for all its pages (`AllPagesAllocatable`) |
| `alloc_beyond` | violation | a request for one page more than the pool has is met (`NoMoreThanAllPages`) |
| `disk` | pass | `TypeOK`; `DescriptorsConserved`; `HandlerCompletesInFlight`; `HandlerKeepsUp`; `OnlyDevicePanics`; `VirtioDisk` implements `BlockDevice`; `RequestReturns` |
| `chapters` | pass | `Coop`: `YieldReturns`, `CoopTakesTurns`. `Timer`: `TimerHitsLoopOnly`, `TicksSpaced`. `Preempt`: `TrapLosesOnlyT6`, `SwitchKeepsCalleeSaved`. `Spinlock`: `OnlyEntryBreaksLock`, `SectionCounts`, `LockReleased`. `Printf`: `LinePrinted`, `PutsStaysInside`. `Console`: `EchoExact`, `ReceiverDrained`. `Disk8`: `RingsAgree`, `TesterReturns`. `AllocLoop`: `ImplementsAlloc`. `Strings`: `MoveKeepsBytes`. `TypeOK` of all |
| `spinlock_lost` | violation | two tasks are in their sections (`MutualExclusion`) |
| `timer_wrap` | violation | a tick comes at once after the low word has wrapped (`TicksSpaced`) |

Bounds of the runs of `Alloc`: a pool of six pages behind an end of `.bss` that is
not aligned. Sizes 0, 256, 257 and 771 take one, one, two and four pages by the
macro: runs of different length leave gaps of every kind on six pages.
The violation runs take the one size that their question is about. 5926 states.

Bounds of the runs of `VirtioDisk`: two harts, one of which takes the interrupts; three
descriptors, so that one that leaks blocks the next request and a free that comes
too late is met at once; ring indexes that wrap at six, so that index and slot wrap at
different times; one sector and two values, enough to tell old data from new.
418096 states.

Bounds of `chapters`. The programs are small and independent, so one run checks them side by
side: `program` says which one runs, and the initial state of the others is pinned to a single one.
Its specification is the disjoint sum of the modules' own, fairness included. 100365 states.

- `Coop`: three tasks, so that "the next one" and "the one before" differ.
- `Timer`: an interval of 9 against steps of 1 or 2 cycles, until cycle 50: five ticks. In
  `chapters` a word has 64 values and nothing wraps, so there `TicksSpaced` speaks of the time before the wrap only; in `timer_wrap` a word has 32
  values, and that run alone says something of the wrap.
- `Preempt`: two tasks, one to be switched away from and one to come back from.
- `Spinlock`: the two tasks that share the lock and one that does not; a slice of 6 steps, enough to get
  through `lock_acquire` undisturbed, small enough that every point of the code is hit by some
  preemption.
- `Printf`: a one-byte `int`, so that -128 is the least number, with a negative one and one of
  two digits; lines of two pieces; a buffer of 8, which some pairs overflow; two ticks,
  so that a line is hit again after it was hit.
- `Console`: up to three characters, return among them, so that one arrives while the one before is being
  echoed and a third behind it.
- `Disk8`: four offered features, of which one must not be accepted, one may be and one changes how the
  device signals; queue limits of 0, 4 and 1024 around `NUM` = 8; two reads, the second of
  which would miss its interrupt.
- `AllocLoop`: four pages (`page_init` from any content of the table), blocks of one and two pages.
- `Strings`: six cells: all overlaps of up to six bytes.

`kernel` reaches 550474 states and fires every action. Deadlock is
checked: the kernel never stops (`overrun` repeats itself).

Why the properties are not evident. `TimerOnlyInUser` is nothing the code
enforces: a timer trap inside `os_main`, `task_go` or `task_os` would save the OS
stack into a task's context, or go through the null `ctx_now` while the boot
still waits for the disk. `PreemptSavesRunner` and `ContextIntegrity` are what
would then fail. `ContextIntegrity` also says how deep in its stack a suspended task is: the saved `sp` is
above the frames of the code that `os_kernel`'s epilogue leads to and above `dead` others, and what the epilogues take off must fit
what `sys_switch` restored. With one frame more or less taken off in `Unwind` it fails, as it does with a stale `sp`. It cannot say that the
depth is bounded, because it is not: `StacksLast` fails. `OnlyDeadFramesOverrun` is what can be said instead: no nesting of
calls, interrupts and system calls runs over a stack, only frames that preemptions have left there. `SyscallTruthful` looks at a value that goes through the trap
frame, `a0` and possibly a context switch whose `ctx_load` replaces `a0`: because
a switched task resumes at `ra` and not at the `ecall`, the value it tests may
not be the call's result at all; it is never a false success. `ImplementsRoundRobin` with its fairness says that every task runs
again and again, even though one may be lost in a fault loop. `DescriptorsExact` ties the
table, from which `free` alone learns how long a block is, to what callers hold: a
stale `PAGE_LAST` or one that is missing frees a neighbour's pages several
calls later. `RefusesOnlyWhenFull` is the other side: nothing that was freed is lost.
`HandlerCompletesInFlight` is what the comment at the head of `virtio_disk_isr` calls
harmless: the handler may run when there is nothing for it, or handle an entry that
arrived after its acknowledgement, beside a caller on another hart that frees the chain and
posts the next request; it still never touches a request that has returned.

`TimerHitsLoopOnly` hangs on the order of three CSR writes and on the length of an
interval. `TrapLosesOnlyT6` is a statement about two register lists of
thirty lines each, of which one line missing would go unnoticed for long; `t6` is lost because
`trap_vector` exchanges it with `mscratch` and nobody puts it back. `OnlyEntryBreaksLock`
says that of the seven places in the lock's functions where a preemption loses something, exactly one loses
mutual exclusion: the others make a task forget that it has the lock, or leave it locked
(`LockReleased` says who pays for that). `LinePrinted` relates the two passes of
`lib_vsnprintf`, whose results the caller trusts to agree; it lists the formats for which they do
not (a `%c` with another argument behind it, a `%%` and the least number) and says nothing of those. `PutsStaysInside` holds because each formatted line ends with a 0 within the buffer, even when the
handler has replaced the line under `lib_puts`'s pointer. `EchoExact` holds under an
interrupt that may hit `lib_putc` between its test and its store, inside which another
`lib_putc` runs. `RingsAgree` ties four registers and three pointers that are written in eight steps
at which the device may already look. `TesterReturns` depends on a feature bit that has nothing
to do with the code it would break.

### Fairness

`Kernel`: `WF(Hart)`: a processor goes on executing. `WF(DiskServe)`: the disk answers
a request; `virtio_disk_rw` has no timeout, so nothing follows without it. Nobody
has to type. No fairness is assumed among the hart's own actions: `Next` leaves
it at most the choice of data and of how many turns a loop takes, and the
liveness properties hold whatever the tasks do, because the timer ends every turn. They stop at a stack that runs over:
`CrashingSpec` lets the running task break down and asks nothing afterwards, and `ConsoleServed` names the case.

`VirtioDisk`: each hart goes on in a call it has begun (nobody has to begin one), the
handler runs when the line is up, the device goes on with a chain it has taken and
takes one when it has been notified; that it also looks at other times is
allowed and never relied on. The lock is not fair: `RequestReturns` speaks of a caller
that has it. `Alloc` has no liveness: each call is one step.

`Spinlock`: the hart executes (`WF` of `Next6`), and the timer, which every handler rearms, ends a slice in
the end (`WF` of `TimerInterrupt6`). `Console`: the hart executes, characters arrive, the transmitter
sends; `SF` of `TakeExternal7`, because an interrupt line that stays up is taken at the next instruction that
interrupts are on, and the program turns them off and on again and again. `Disk8`:
the hart executes and the device answers. The other chapters' modules have no liveness property.

## 4. Proofs

`KernelProofs` proves, for every number of tasks up to `MAX_TASK`, every set of
system-calling tasks, every stack of `MaxUse` frames or more, and every period and latency that meet
`IntervalAssumption`:

- `TypeCorrect`, `PreemptionOnlyInUser`, `ContextsIntact`, `OverrunsAreDeadFrames`,
  `PreemptionSavesRunner`, `SyscallResultTrue`: `Spec => []P` for the invariants
  of the run `kernel`;
- `SaveAreaPresent`: without keys before `timer_init` no trap lacks its save
  area;
- `RoundRobinRefinement`: the initial states and steps of `Kernel` are those of
  `RoundRobin`, up to the step that runs over a stack, which is its `Crash`.

All rest on `Invariance`, `Spec => []IInv`. None of the invariants is inductive
alone. `TimerOnlyInUser` needs `Timing`: at each point of the kernel at least
`Slack` time is left, where `Slack` counts the steps to the next task; so `left` can
be 0 only in user code. `Timing` in turn needs to know that the timer trap is
taken in user code only, `TrapInv`. What a preemption saves and where a switch
leads (`ContextIntegrity`, `PreemptSavesRunner`) needs `StackInv`: who owns the
stack at each point and where `ra` leads, and `DepthInv`: how many frames are on it there. `DepthInv` also
says that wherever the timer's handler has fitted (six frames), `os_kernel`, `task_os` and an external interrupt on top of
them fit too, so that the way to the OS never runs over a stack. `SyscallTruthful` needs `SyscallInv`,
which says where a zero in `a0` can pass for the result of `gethid`. The step
lemmas (`TypeStep`, `TimingStep`, `ControlStep`, `DepthStep`, `ContextStep`, `SyscallStep`)
show one part of `IInv` each, one proof step per action.

`AllocProofs` proves, for every end of `.bss`, every memory that `HeapAssumption`
allows and every set of sizes:

- `Geometry`: wherever `HEAP_START` lies, the pool begins on a page boundary behind the
  table and ends exactly with the memory. The reason is that `HEAP_SIZE / 256` rounds
  down by as much as `_align_page` rounds up.
- `TwoPagesEnough`, `Shortfall`: `pageNum` is right up to two pages, and beyond that lacks
  at most one byte for each page after the first. Together with `alloc_size` this is all
  there is to say about the macro.
- `TypeCorrect`, `TableExact`, `NoSharing`, `InsidePool`, `NoLeak`: `Spec => []P` for the
  invariants of the run `alloc`, and `HeapRefinement`. These assume `Modest`: nobody asks for
  more pages than there are. `alloc_beyond` shows that they fail without it.

They rest on `Invariance` for `IInv`: types, the pool's bounds, where blocks lie, `DescriptorsExact`
and `BlocksApart`. Each needs the others: `free` clears exactly one block because
the table says where that block ends and no other block has a page before that end; the table
stays exact because `free` clears exactly one block. `NoLeak` and the
refinement use `FirstOne`, that a non-empty set of pages has a least one, which is what a
search from the bottom finds.

`VirtioDiskProofs` proves, for every number of harts and of descriptors from three on, every
width of the ring indexes that `RingAssumption` allows, and a device that may fail: `DiskTyped`,
`NoDescriptorLost`, `CompletesInFlight`, `KeepsUp`, `DriverNeverPanics` (the invariants of the run
`disk`) and `BlockDeviceRefinement` (`Spec => ImplementsBlockDevice`, which has no liveness part). The
inductive invariant is `DiskInv`, with `OrderInv` for the refinement. Its heart is `RingInv`: a request goes
round, and where it is can be read off three indexes and two places. It is `Asked` when `avail_idx`
is one ahead of the device, `Answered` when the device is one ahead of the handler, and everything is
`Quiet` otherwise; `Done` counts the entries whose callers have been released, which is one more
than `used_idx` between the handler's two stores. That nothing else is possible needs `OwnerInv` (who is inside the
lock, at most one), `ChainInv` (what the three descriptors of that hart say) and
`DescriptorsConserved`; that the chain can be freed without a panic needs them all.

`AllocLoopProofs` proves `LoopsImplementAlloc`, `Spec9 => ImplementsAlloc`, for every heap that
`Heap9Assumption` allows and every set of sizes that fit into it: so what `AllocProofs` shows of calls
taken whole holds of the loops. `LoopInvariance` has the loops' invariants. While `malloc` searches, no run of free pages
begins before `page_i` (`NoneBefore`), which makes its find the first one, and the pages from `page_i`
up to `page_j` are free (`AllFree`). While `free` walks, the pages behind it were taken and not last, so
the pages it clears are `Alloc`'s `Cleared`; that it stays in the table rests on `LastPageFree`: the search's
bound leaves the last page out, so no block has it and the walk ends before it. The bound that costs a page (`alloc_last_page`) is what this proof uses.
`LoopsInherit` and `LoopsAreHeap` say the rest in the loops' own terms: the theorems of `AllocProofs` are instantiated
under the refinement mapping (`AP`), whose assumptions `AllocFits` derives from the loops', so the table, the blocks, the
refusals and the refinement of `Heap` carry over to `Spec9`.

`SwitchProofs`, for 1 to 10 tasks (`MAX_TASK`). Of `Coop`: `CoopTyped`, `YieldsReturn`, and
`CoopIsRoundRobin`, that `Coop` takes only `RoundRobin`'s steps; the invariant describes each
stack frame by frame, at each point of the code. Of `Preempt`: `PreemptTyped`, `TrapKeepsRegisters`,
`SwitchesKeepRegisters`. `TrapInv5` follows the values from `trap_vector` through the save area to `reg_load`.
`SwitchInv` says of every stack that does not run that it is `Suspended`, its context and its frame holding
what its owner left in the registers, or `Fresh5`; a switch makes one suspended and resumes another.

Of `Timer`, for every word size, interval and horizon: `TimerTyped`; `HitsLoopOnly` under
`FirstTickFits` (the first sum of `mtime` and the interval fits into a word: 10000000 cycles after reset,
against 2^32); `TicksSpacedUntilWrap` under `NoWrap` (no sum up to the horizon wraps). `timer_wrap`
shows that `NoWrap` cannot be dropped.

`SpinlockProofs`, for any number of tasks without the lock and any slice: `SpinlockTyped`, `OnlyEntryBreaksIt`,
`SectionsCounted`. The invariant has four parts besides types: `SchedInv` (whose turn it is and what is
enabled), `ControlInv` (where `ra`, the frames and the suspended tasks can lead), `LockInv` (who may be in its
section, given what has been struck) and `CountInv`.

Of `Printf`, for every buffer size, text and number of ticks: `PrintfTypes`, `PutsInside`, `LineIsShown`,
`LinesArePrinted`. `PutsStaysInside` is inductive with `LimitInv`, the limit that the measured length has been checked
against: every text that is written into `out_buf` ends with a 0 inside it, the handler's too, wherever `lib_puts`'s pointer is. For the lines, `LineInv` says at each point of `lib_vprintf`
and `lib_puts` what a call that no tick has touched has measured, what `out_buf` holds and how much of it
is on the screen. `LineIsShown` then says that such a call prints exactly the text that the formatter made, up to where the
buffer cuts it or its first 0. What the formatter makes is a fold over the format, which the prover cannot do
induction over; two statements of constants stand for it. `LinesAssumption`, which TLC evaluates with every run of
the module: the formatted lines are finite sequences of bytes, and the handler's fit into the buffer. `FormatsExact`, the hypothesis of
`LinesArePrinted`: the two passes agree and each piece is spelled as it should be, which `LinePrinted` checks in the
run for each call as it returns. The theorem adds that nothing between the formatter and the screen spoils it.

`DriverProofs`. Of `Console`, for every set of keys and any number of characters: `ConsoleTypes`, `ConsoleEchoes`. The
invariant is `Inv7`: `IsrInv` (where the interrupt returns to, what the receiver is when `lib_getc` tests and reads it, and that nothing but the line
feed behind an echo waits in `thr` when the handler returns), `HeldInv` (the receive register and `lib_getc`'s result hold the character typed last, or the one before if
another has come in), `EchoShown`, and `EchoCount`, which relates echoes to keys: some increasing map leads from
each echo to the key it stands for, and none leads past the characters that are still on their way. The only
store into `thr` that may hit a character that waits is the interrupted task's, and by `IsrInv` that character is the
line feed behind an echo (`NLBehind`), never the echo.

Of `Disk8`, for every queue size from three on, every page size that holds the first two rings, every offer of
features and every maximum: `Disk8Types`, `Disk8RingsAgree`, `Disk8BlockRead`. `QueueInv` says which registers hold what once the page number has
been written, so that `Rings`, which the device computes by rounding, is `ptrs8`, which the driver computes by adding pages: the
lemmas are about the rounding (`AlignUp`, `DivisionUnique`). `RequestInv` and `DataInv` follow a request from the descriptors through the
indexes to the block's data, also when the device fails one and the handler panics. `BlockRead8` is the part of
`TesterReturns` that needs no fairness.

Of `Strings`, for every memory size and every call: `StringsTyped`, `StringsCorrect`. The invariant
is the usual one of a copy loop: what has been moved is in place, what has not been moved is still
as it was; that the second half holds is why the direction matters.

`ChaptersProofs` brings the theorems about the chapters to the specification that the run `chapters` checks: each step of it is a step
of one program and leaves the others alone (`ChapterSteps`), so it implies the safety part of each program's own specification
(`ChapterSpecs`). `ChaptersTyped` (`TypeOK`), `ChaptersSafe` (the invariants), `ChaptersSteps` (the action properties
and `ImplementsAlloc`), `ChaptersTimer` and `ChaptersPrint` (under the hypotheses named above) follow: every
property of that run but the liveness of `LockReleased`, `ReceiverDrained` and `TesterReturns` is a theorem.

Only model-checked: the liveness properties and the fairness part of the refinements (the
prover has no ENABLED), what `Format` makes of a format (induction over data), and the violations.

## 5. Findings

- `trap.c:53`: preemption loses the interrupted program counter. `riscv.h`
  comments the field out, nothing reads the saved `mepc`. A task continues at the
  return address of the function it was in (`kernel_resume`).
- `trap.c:53`, `task.h:7`: the frame of that function stays on the task's stack of 1024 bytes. The tasks' loops never return, so
  after some thirty preemptions in `lib_delay` and `lib_putc` the stack runs over into the neighbour's (`kernel_stack`).
- `os.c:31`: interrupts are enabled before `mscratch` is set.
- `alloc.c:33`: `pageNum` divides by 257: 513 bytes get two pages. The README of stage 09
  says three.
- `alloc.c:124`: the search leaves the last page out, so the "actual max number of
  pages we can allocate" is one less than `_num_pages`.
- `alloc.c:124`: for more pages than there are the bound wraps and the block leaves the pool.
- `06-Spinlock/trap.c:31`: a task preempted in `lock_acquire` before its call of `atomic_swap` goes on at the
  return address of `lock_acquire`, in its critical section, without having tried the lock.
- `04-TimerInterrupt/timer.c:32`: `mtimecmp` is written through a 32-bit pointer; when the sum wraps,
  the next ticks come without an interval.

Seen while modelling, and not the subject of a run because no text of the repository says otherwise or
because the models already allow for it: `lib_vprintf` in 06 reports an overflow and stops for a line of any length
that was preempted while it was measured; a comment in 08's `virtio.c` (line 128) gives `avail`'s offset as
0x40 for a table of 0x80 bytes; the newline behind an echo may be overwritten by the
character that the interrupted `lib_putc` was about to store; "%%" swallows the literal behind it and the
least `int` has no decimal text; `sys_timer` saves no register, which only the empty loop
of `os_main` can stand; `EVENT_IDX` would cost the driver every interrupt but the first, and is cleared.

## 6. Plan

Done: `Kernel` over `RoundRobin`, `Alloc` over `Heap`, `AllocLoop` over `Alloc`, `VirtioDisk` over `BlockDevice`, the
chapters' modules, and the proofs of section 4. Left:

1. `Disk8` and `VirtioDisk` in one module, so that the requests of the second run over the queue
   that the first has set up.
2. `VirtioDisk` and `Alloc` as the boot steps of `Kernel`, in place of the two steps that stand for them.

## 7. Not modelled

- `01-HelloOs` (one line is printed) and `A1-Input` (characters are echoed by polling, without interrupts or tasks).
- `lib_gets`, `basic_lock` and `basic_unlock`: no caller.
- The text of messages; the harts that `start.s` parks; exceptions other than those this program can raise; second frees
  of pages that have a new owner.
- `user_task0` to `user_task3` of 10: `user_init` creates only `user_task0` and `user_task4`; 06 runs the others.
- Files that repeat an earlier chapter's code unchanged are modelled once, in the chapter that introduces it.

`PROJECT.json` gives the status of each component.
