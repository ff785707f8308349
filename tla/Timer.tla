------------------------------- MODULE Timer --------------------------------
(***************************************************************************)
(* 04-TimerInterrupt: os_main arms the timer and loops, sys_timer calls    *)
(* timer_handler at each interrupt.  mtime and mtimecmp are 64 bits wide   *)
(* and the program reads and writes them through a pointer to 32 bits, so  *)
(* it sees the low word of one and sets the low word of the other.         *)
(*                                                                         *)
(* sys_timer saves no register.  That is harmless only where the           *)
(* interrupted code holds nothing in registers: in os_main's empty loop.   *)
(***************************************************************************)
EXTENDS Integers

CONSTANTS
    Word4,          \* 2^32: the values of one word of mtime
    Interval4,      \* cycles between two interrupts
    Lag4,           \* the longest a step of the program takes, in cycles
    Horizon4        \* bound: mtime stops here

ASSUME WordAssumption == Word4 \in Nat \ {0}
\* The interval is longer than the rest of timer_init (10000000 cycles against
\* three accesses to registers).
ASSUME Interval4Assumption == Lag4 \in Nat \ {0} /\ Interval4 \in Nat /\ Interval4 > 4 * Lag4
ASSUME HorizonAssumption == Horizon4 \in Nat

BootLocs4 == {"os_main", "arm", "mtvec", "mie", "mtie", "w_mie"}
HandlerLocs == {"disable", "count", "rearm", "enable", "mret"}
Locs4 == BootLocs4 \cup {"loop"} \cup HandlerLocs \cup {"lost"}

VARIABLES
    pc4,
    mtime, mtimecmp,            \* the CLINT's two registers
    mtvec4, MIE4, MTIE4, mepc4, \* the CSRs that timer.c and sys_timer use
    timer_count,
    armed                       \* history: mtime when mtimecmp was last written

csrs4 == <<mtvec4, MIE4, MTIE4, mepc4>>
vars4 == <<pc4, mtime, mtimecmp, csrs4, timer_count, armed>>

\* Mutated forms of definitions below.
MutTimecmp4 == mtime                          \* timer_handler forgets the interval
MutAfterArm == "mie"                          \* timer_init forgets mtvec

Init4 ==
    /\ pc4 = "os_main" /\ mtime = 0 /\ mtimecmp = 0
    /\ mtvec4 = FALSE /\ MIE4 = FALSE /\ MTIE4 = FALSE /\ mepc4 = "os_main"
    /\ timer_count = 0 /\ armed = 0

-----------------------------------------------------------------------------
Low(x) == x % Word4
High(x) == x \div Word4

\* *(reg_t*)CLINT_MTIMECMP = *(reg_t*)CLINT_MTIME + interval: the low word only.
Timecmp == (High(mtimecmp) * Word4) + ((Low(mtime) + Interval4) % Word4)

Pending == mtime >= mtimecmp
Interrupted == MIE4 /\ MTIE4 /\ Pending

\* A step of the program outside the handler waits for interrupts that are due.
Passes == \E d \in 1..Lag4 : mtime' = IF mtime + d < Horizon4 THEN mtime + d ELSE Horizon4
Runs4(l) == pc4 = l /\ ~Interrupted /\ Passes
Handles(l) == pc4 = l /\ Passes

-----------------------------------------------------------------------------
(* os_main and timer_init                                                   *)

OsMain4 ==
    /\ Runs4("os_main") /\ pc4' = "arm"
    /\ UNCHANGED <<mtimecmp, csrs4, timer_count, armed>>

AfterArm == "mtvec"
TimerInit4 ==
    /\ Runs4("arm") /\ pc4' = AfterArm
    /\ mtimecmp' = Timecmp /\ armed' = mtime
    /\ UNCHANGED <<csrs4, timer_count>>

WriteMtvec ==
    /\ Runs4("mtvec") /\ pc4' = "mie" /\ mtvec4' = TRUE
    /\ UNCHANGED <<mtimecmp, MIE4, MTIE4, mepc4, timer_count, armed>>

WriteMstatus ==
    /\ Runs4("mie") /\ pc4' = "mtie" /\ MIE4' = TRUE
    /\ UNCHANGED <<mtimecmp, mtvec4, MTIE4, mepc4, timer_count, armed>>

\* w_mie, then its return through ra: from here on interrupts are taken.
WriteMie ==
    /\ Runs4("mtie") /\ pc4' = "w_mie" /\ MTIE4' = TRUE
    /\ UNCHANGED <<mtimecmp, mtvec4, MIE4, mepc4, timer_count, armed>>

ReturnFromInit ==
    /\ Runs4("w_mie") /\ pc4' = "loop"
    /\ UNCHANGED <<mtimecmp, csrs4, timer_count, armed>>

Loop4 ==
    /\ Runs4("loop") /\ UNCHANGED <<pc4, mtimecmp, csrs4, timer_count, armed>>

-----------------------------------------------------------------------------
(* The trap, sys_timer and timer_handler                                    *)

TakeTimer4 ==
    /\ pc4 \in BootLocs4 \cup {"loop"} /\ Interrupted
    /\ mepc4' = pc4 /\ MIE4' = FALSE
    /\ pc4' = IF mtvec4 THEN "disable" ELSE "lost"
    /\ UNCHANGED <<mtime, mtimecmp, mtvec4, MTIE4, timer_count, armed>>

DisableMtie ==
    /\ Handles("disable") /\ pc4' = "count" /\ MTIE4' = FALSE
    /\ UNCHANGED <<mtimecmp, mtvec4, MIE4, mepc4, timer_count, armed>>

Count ==
    /\ Handles("count") /\ pc4' = "rearm" /\ timer_count' = timer_count + 1
    /\ UNCHANGED <<mtimecmp, csrs4, armed>>

Rearm ==
    /\ Handles("rearm") /\ pc4' = "enable"
    /\ mtimecmp' = Timecmp /\ armed' = mtime
    /\ UNCHANGED <<csrs4, timer_count>>

HandlerEnd == MTIE4' = TRUE /\ pc4' = "mret"
EnableMtie ==
    /\ Handles("enable") /\ HandlerEnd
    /\ UNCHANGED <<mtimecmp, mtvec4, MIE4, mepc4, timer_count, armed>>

\* timer_handler's return value, epc, is where mret goes.  Code that was
\* interrupted with its return address in ra finds sys_timer's there instead.
Mret4 ==
    /\ Handles("mret") /\ MIE4' = TRUE
    /\ pc4' = IF mepc4 = "loop" THEN "loop" ELSE "lost"
    /\ UNCHANGED <<mtimecmp, mtvec4, MTIE4, mepc4, timer_count, armed>>

Next4 ==
    \/ OsMain4 \/ TimerInit4 \/ WriteMtvec \/ WriteMstatus \/ WriteMie \/ ReturnFromInit
    \/ Loop4 \/ TakeTimer4 \/ DisableMtie \/ Count \/ Rearm \/ EnableMtie \/ Mret4

Spec4 == Init4 /\ [][Next4]_vars4

-----------------------------------------------------------------------------
(* Properties                                                               *)

TypeOK4 ==
    /\ pc4 \in Locs4 /\ mepc4 \in Locs4
    /\ mtime \in 0..Horizon4 /\ mtimecmp \in Nat
    /\ mtvec4 \in BOOLEAN /\ MIE4 \in BOOLEAN /\ MTIE4 \in BOOLEAN
    /\ timer_count \in Nat /\ armed \in 0..Horizon4

\* The handler that saves nothing interrupts os_main's loop and nothing else, and
\* never before mtvec points to it.
TimerHitsLoopOnly == pc4 \in HandlerLocs \cup {"lost"} => pc4 # "lost" /\ mepc4 = "loop"

\* "about 1 second in qemu", "de manera estable" (README): between the moment
\* mtimecmp is written and the next count lies a whole interval.
TicksSpaced == [][timer_count' # timer_count => mtime >= armed + Interval4]_vars4
=============================================================================
