------------------------------ MODULE Console -------------------------------
(***************************************************************************)
(* 07-ExterInterrupt: the UART behind lib_putc and lib_getc, and the PLIC  *)
(* through which its interrupt reaches lib_isr.  A task prints; what is    *)
(* typed interrupts it, also inside lib_putc, and is echoed.  Receiver and *)
(* transmitter hold one character each: uart_init turns no FIFO on.        *)
(***************************************************************************)
EXTENDS Integers, SequencesExt

CONSTANTS
    Keys,           \* what can be typed
    CR,             \* '\r', one of Keys
    MaxTyped        \* bound: characters typed

NL == "nl"                      \* the echo of '\r'
NLBehind == "nl behind"         \* the '\n' that lib_isr prints behind each echo
NoChar == "none"
TaskChar == "task"              \* any character of a task's line
MarkChar == "mark"              \* any character of "external interruption!\n"
Chars == Keys \cup {NL, NLBehind, TaskChar, MarkChar}

ASSUME KeysAssumption ==
    /\ CR \in Keys /\ MaxTyped \in Nat
    /\ Keys \cap {NL, NLBehind, NoChar, TaskChar, MarkChar} = {}

BootLocs7 == {"uart_init", "trap_init", "plic_init", "timer_init"}
TaskLocs7 == {"puts", "lsr", "thr"}
IsrLocs7 == {"mark", "claim", "getc", "rhr", "rhr2", "echo", "newline", "complete", "mret"}
Locs7 == BootLocs7 \cup TaskLocs7 \cup IsrLocs7 \cup {"hang"}

VARIABLES
    pc7, mepc7, irq7,           \* irq7: what has been enabled, IER included
    typed, arrived,             \* what is typed, and how much of it has arrived
    rhr, rx_ready,              \* the receiver and its bit of LSR
    thr,                        \* the transmitter; NoChar: its bit of LSR is set
    claimed,                    \* the PLIC waits for the completion
    c7,                         \* lib_isr's c
    echoed,                     \* history: the echoes that lib_isr has stored in THR
    screen,                     \* history: the echoes that were transmitted
    replaced,                   \* history: typed, and never echoed
    lost                        \* history: stored in THR, and never transmitted

dev7 == <<typed, arrived, rhr, rx_ready>>
hist7 == <<echoed, screen, replaced, lost>>
vars7 == <<pc7, mepc7, irq7, dev7, thr, claimed, c7, hist7>>

\* Mutated forms of definitions below.
MutTxReady == TRUE                                  \* LSR not tested
MutCompleted(irq) == claimed                        \* no completion
-----------------------------------------------------------------------------
UART0_IRQ7 == 10
AllEnabled7 == {"IER", "mtvec", "UART0", "MEIE", "MIE", "mscratch"}

Init7 ==
    /\ pc7 = "uart_init" /\ mepc7 = "puts" /\ irq7 = {}
    /\ typed \in UNION {[1..n -> Keys] : n \in 0..MaxTyped}
    /\ arrived = 0 /\ rhr = NoChar /\ rx_ready = FALSE /\ thr = NoChar /\ claimed = FALSE /\ c7 = NoChar
    /\ echoed = <<>> /\ screen = <<>> /\ replaced = 0 /\ lost = {}

Code7(l, m) == pc7 = l /\ pc7' = m

(* os_start *)

Boot7(l, m, what) ==
    /\ Code7(l, m) /\ irq7' = irq7 \cup what
    /\ UNCHANGED <<mepc7, dev7, thr, claimed, c7, hist7>>
UartInit == Boot7("uart_init", "trap_init", {"IER"})        \* divisor, 8 bits, IER
TrapInit7 == Boot7("trap_init", "plic_init", {"mtvec"})
PlicInit == Boot7("plic_init", "timer_init", {"UART0", "MEIE", "MIE"})
TimerInit7 == Boot7("timer_init", "puts", {"mscratch"})

-----------------------------------------------------------------------------
(* The devices                                                              *)

\* The next character is typed once the receiver is free.
Arrive ==
    /\ arrived < Len(typed) /\ ~rx_ready
    /\ arrived' = arrived + 1 /\ rhr' = typed[arrived'] /\ rx_ready' = TRUE
    /\ UNCHANGED <<pc7, mepc7, irq7, typed, thr, claimed, c7, hist7>>

Echo(c) == c \in Keys \cup {NL}
Transmit ==
    /\ thr # NoChar /\ thr' = NoChar
    /\ screen' = IF Echo(thr) THEN Append(screen, thr) ELSE screen
    /\ UNCHANGED <<pc7, mepc7, irq7, dev7, claimed, c7, echoed, replaced, lost>>

\* A store while the last character is still there.
Store(c) ==
    /\ thr' = c /\ lost' = IF thr = NoChar THEN lost ELSE lost \cup {thr}
    /\ echoed' = IF Echo(c) THEN Append(echoed, c) ELSE echoed

Claimable == "IER" \in irq7 /\ rx_ready /\ ~claimed

-----------------------------------------------------------------------------
(* A task: lib_puts and lib_putc                                            *)

TxReady == thr = NoChar

PutsNext == Code7("puts", "lsr") /\ UNCHANGED <<mepc7, irq7, dev7, thr, claimed, c7, hist7>>
PutcTest ==
    /\ TxReady /\ Code7("lsr", "thr")
    /\ UNCHANGED <<mepc7, irq7, dev7, thr, claimed, c7, hist7>>
PutcStore ==
    /\ Code7("thr", "puts") /\ Store(TaskChar)
    /\ UNCHANGED <<mepc7, irq7, dev7, claimed, c7, screen, replaced>>

-----------------------------------------------------------------------------
(* The external interrupt                                                   *)

\* trap_vector needs its save area: before timer_init has set mscratch its stores
\* fault, for ever.
TakeExternal7 ==
    /\ pc7 \in BootLocs7 \cup TaskLocs7
    /\ {"MEIE", "MIE"} \subseteq irq7 /\ Claimable
    /\ pc7' = IF "mscratch" \in irq7 THEN "mark" ELSE "hang"
    /\ mepc7' = pc7
    /\ UNCHANGED <<irq7, dev7, thr, claimed, c7, hist7>>

\* lib_putc inside the handler: nothing comes between its test and its store.
IsrPutc(l, m, c) ==
    /\ TxReady /\ Code7(l, m) /\ Store(c)
    /\ UNCHANGED <<mepc7, irq7, dev7, claimed, c7, screen, replaced>>

\* trap_handler, case 11, before external_handler
PutMark == IsrPutc("mark", "claim", MarkChar)

PlicClaim ==
    /\ pc7 = "claim"
    /\ LET irq == IF Claimable THEN UART0_IRQ7 ELSE 0
       IN  /\ pc7' = IF irq = UART0_IRQ7 THEN "getc" ELSE "mret"
           /\ claimed' = (irq = UART0_IRQ7)
    /\ UNCHANGED <<mepc7, irq7, dev7, thr, c7, hist7>>

\* lib_getc: LSR, then RHR, which is compared with '\r', then RHR once more.
IsEmpty == ~rx_ready
GetcTest ==
    /\ Code7("getc", IF IsEmpty THEN "complete" ELSE "rhr")
    /\ UNCHANGED <<mepc7, irq7, dev7, thr, claimed, c7, hist7>>
GetcRead ==
    /\ Code7("rhr", IF rhr = CR THEN "echo" ELSE "rhr2")
    /\ rx_ready' = FALSE /\ c7' = IF rhr = CR THEN NL ELSE NoChar
    /\ UNCHANGED <<mepc7, irq7, typed, arrived, rhr, thr, claimed, hist7>>
GetcReadAgain ==
    /\ Code7("rhr2", "echo")
    /\ c7' = rhr /\ rx_ready' = FALSE
    /\ replaced' = IF rx_ready THEN replaced + 1 ELSE replaced
    /\ UNCHANGED <<mepc7, irq7, typed, arrived, rhr, thr, claimed, echoed, screen, lost>>

IsrEcho == IsrPutc("echo", "newline", c7)
IsrNewline == IsrPutc("newline", "getc", NLBehind)

Completed(irq) == FALSE
PlicComplete ==
    /\ Code7("complete", "mret") /\ claimed' = Completed(UART0_IRQ7)
    /\ UNCHANGED <<mepc7, irq7, dev7, thr, c7, hist7>>

Mret7 == Code7("mret", mepc7) /\ UNCHANGED <<mepc7, irq7, dev7, thr, claimed, c7, hist7>>

Hang7 == Code7("hang", "hang") /\ UNCHANGED <<mepc7, irq7, dev7, thr, claimed, c7, hist7>>

Boot7Step == UartInit \/ TrapInit7 \/ PlicInit \/ TimerInit7
Task7Step == PutsNext \/ PutcTest \/ PutcStore
Isr7Step == PutMark \/ PlicClaim \/ GetcTest \/ GetcRead \/ GetcReadAgain \/ IsrEcho
            \/ IsrNewline \/ PlicComplete \/ Mret7
Hart7Step == Boot7Step \/ Task7Step \/ TakeExternal7 \/ Isr7Step \/ Hang7
Next7 == Hart7Step \/ Arrive \/ Transmit

\* The hart executes, an enabled interrupt is taken, the devices work.
Fairness7 == WF_vars7(Hart7Step) /\ SF_vars7(TakeExternal7) /\ WF_vars7(Arrive) /\ WF_vars7(Transmit)
Spec7 == Init7 /\ [][Next7]_vars7 /\ Fairness7

-----------------------------------------------------------------------------
(* Properties                                                               *)

TypeOK7 ==
    /\ pc7 \in Locs7 /\ mepc7 \in Locs7 /\ irq7 \subseteq AllEnabled7
    /\ typed \in Seq(Keys) /\ arrived \in 0..Len(typed) /\ rhr \in Keys \cup {NoChar} /\ rx_ready \in BOOLEAN
    /\ thr \in Chars \cup {NoChar} /\ claimed \in BOOLEAN
    /\ c7 \in Keys \cup {NL, NoChar} /\ replaced \in 0..MaxTyped /\ lost \subseteq Chars

\* lib_putc tests LSR and stores in two steps.  An interrupt in between lets the
\* handler print first, and the task's character then overwrites what the handler
\* stored last: the newline behind an echo may be lost, and nothing else ever is.
EchoShown ==
    /\ lost \subseteq {NLBehind}
    /\ echoed = screen \o (IF Echo(thr) THEN <<thr>> ELSE <<>>)

\* Each character typed is echoed once, in order, '\r' as a new line; but one that
\* arrives between lib_getc's two reads of RHR replaces the one the first has seen.
InFlight == (IF rx_ready THEN 1 ELSE 0) + (IF pc7 \in {"rhr2", "echo"} THEN 1 ELSE 0)
EchoOf(key) == {key} \cup (IF key = CR THEN {NL} ELSE {})
KeysEchoed ==
    /\ arrived = Len(echoed) + replaced + InFlight
    /\ \E from \in [DOMAIN echoed -> 1..arrived] :
          /\ \A i, j \in DOMAIN echoed : i < j => from[i] < from[j]
          /\ \A i \in DOMAIN echoed : echoed[i] \in EchoOf(typed[from[i]])

\* Nothing that is typed is dropped, doubled or reordered on its way from the
\* receiver to the screen, whatever lib_putc the interrupt hits; with the two
\* exceptions above.
EchoExact == EchoShown /\ KeysEchoed

\* Whatever is typed is taken from the receiver in the end: none of its interrupts
\* is lost, also when a character arrives while the last one is being served.
ReceiverDrained ==
    <>(pc7 = "hang") \/ <>[](arrived = Len(typed) /\ ~rx_ready)
=============================================================================
