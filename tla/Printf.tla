------------------------------- MODULE Printf -------------------------------
(***************************************************************************)
(* 06-Spinlock: lib_printf as user_task2 and, in the interrupt, the timer  *)
(* handler call it.  Both format into the one static out_buf.  A preempted *)
(* task resumes behind its last call (see Kernel) with the frame pointer   *)
(* of the function it was in, so what it loses depends on where it was:    *)
(* its measure, its text, or the pointer lib_puts works with.              *)
(***************************************************************************)
EXTENDS Format

CONSTANTS
    OutSize,        \* sizeof(out_buf)
    Ints,           \* the numbers and characters that are printed
    Text,           \* the string that %s prints
    Ticks           \* bound: timer interrupts

ASSUME PrintfAssumption == OutSize \in Nat \ {0} /\ Ints \subseteq Longs /\ Ticks \in Nat

LocsF == {"call", "measure", "check", "write", "puts", "putc", "return", "overflow", "wild"}

VARIABLES
    pcF,            \* where user_task2 is in lib_printf
    callF,          \* what it prints: pieces of a format, each with its argument
    resF,           \* a0 and then res in lib_vprintf
    out_buf,        \* 0 ends a string
    s,              \* lib_puts's pointer into out_buf
    ticks,          \* timer_count
    shown,          \* history: the characters lib_puts has printed in this call
    cutF            \* history: the call was preempted

varsF == <<pcF, callF, resF, out_buf, s, ticks, shown, cutF>>

\* ctx_load restores no a0: it holds the address task_go passed.
CtxOs == -1

\* Mutated forms of definitions below.
MutOverflows(res) == FALSE
-----------------------------------------------------------------------------
(* What is printed                                                          *)

\* A literal, or a conversion with an argument of its type.
Pieces ==
    {[fmt |-> f, args |-> <<>>] : f \in {<<"a">>, <<"%", "%">>}}
        \cup {[fmt |-> f, args |-> <<n>>] :
                f \in {<<"%", "d">>, <<"%", "l", "x">>, <<"%", "p">>}, n \in Ints}
        \cup {[fmt |-> <<"%", "c">>, args |-> <<n>>] : n \in {i \in Ints : i > 0}}
        \cup {[fmt |-> <<"%", "s">>, args |-> <<Text>>]}
IsA(p, c) == p.fmt[Len(p.fmt)] = c

\* Behind a %c the measuring pass would take the character for %s's address.
Calls == {c \in Pieces \X Pieces : ~(IsA(c[1], "c") /\ IsA(c[2], "s"))}
FmtOf(c) == c[1].fmt \o c[2].fmt
ArgsOf(c) == c[1].args \o c[2].args

HandlerLine(k) == <<Code["x"]>> \o DecText(k)       \* "timer_handler: %d\n"

\* What lib_vsnprintf makes of a call are characters, and out_buf is large enough for
\* each line of timer_handler.
ASSUME LinesAssumption ==
    /\ \A c \in Calls, n \in 0..OutSize : Vsnprintf(n > 0, n, FmtOf(c), ArgsOf(c)) \in Seq(Int)
    /\ \A k \in 1..Ticks : HandlerLine(k) \in Seq(Int) /\ Len(HandlerLine(k)) < OutSize

InitF ==
    /\ pcF = "call" /\ callF \in Calls /\ resF = 0
    /\ out_buf = [i \in 0..(OutSize - 1) |-> 0] /\ s = 0
    /\ ticks = 0 /\ shown = <<>> /\ cutF = FALSE

-----------------------------------------------------------------------------
(* lib_vprintf                                                              *)

StepF(l, m) == pcF = l /\ pcF' = m /\ UNCHANGED <<callF, ticks>>

CallPrintf ==
    /\ StepF("call", "measure")
    /\ shown' = <<>> /\ cutF' = FALSE /\ UNCHANGED <<resF, out_buf, s>>

\* lib_vsnprintf(NULL, -1, s, vl)
Measure ==
    /\ StepF("measure", "check")
    /\ resF' = Len(Vsnprintf(FALSE, 0, FmtOf(callF), ArgsOf(callF)))
    /\ UNCHANGED <<out_buf, s, shown, cutF>>

\* res+1 >= sizeof(out_buf), in unsigned arithmetic: an address is too large.
Overflows(res) == res = CtxOs \/ res + 1 >= OutSize
Check ==
    /\ pcF = "check" /\ pcF' = IF Overflows(resF) THEN "overflow" ELSE "write"
    /\ UNCHANGED <<callF, resF, out_buf, s, ticks, shown, cutF>>
OverflowLoop == StepF("overflow", "overflow") /\ UNCHANGED <<resF, out_buf, s, shown, cutF>>

\* The text, cut at n - 1, and its '\0'.
WrittenTo(buf, text, n) ==
    LET k == IF Len(text) < n THEN Len(text) ELSE n - 1
    IN  [i \in DOMAIN buf |-> IF i < k THEN text[i + 1] ELSE IF i = k THEN 0 ELSE buf[i]]

\* lib_vsnprintf(out_buf, res + 1, s, vl)
Write ==
    /\ StepF("write", "puts")
    /\ out_buf' = WrittenTo(out_buf, Vsnprintf(TRUE, resF + 1, FmtOf(callF), ArgsOf(callF)),
                            resF + 1)
    /\ s' = 0 /\ UNCHANGED <<resF, shown, cutF>>

-----------------------------------------------------------------------------
(* lib_puts and lib_putc                                                    *)

\* while (*s) lib_putc(*s++)
PutsTest ==
    /\ pcF = "puts"
    /\ IF out_buf[s] = 0
       THEN StepF("puts", "return") /\ UNCHANGED <<s, shown>>
       ELSE StepF("puts", "putc") /\ s' = s + 1 /\ UNCHANGED shown
    /\ UNCHANGED <<resF, out_buf, cutF>>

\* The character was loaded before the call; a preemption in between drops it.
Putc ==
    /\ StepF("putc", "puts") /\ shown' = Append(shown, out_buf[s - 1])
    /\ UNCHANGED <<resF, out_buf, s, cutF>>

\* The epilogues; a preemption may have left sp in another function's frame.
ReturnPrintf ==
    /\ pcF = "return" /\ pcF' \in {"call"} \cup (IF cutF THEN {"wild"} ELSE {})
    /\ UNCHANGED <<callF, resF, out_buf, s, ticks, shown, cutF>>

-----------------------------------------------------------------------------
(* The timer interrupt                                                      *)

\* timer_handler's lib_printf, start to end: interrupts are off.
Handler == /\ ticks < Ticks /\ ticks' = ticks + 1
           /\ out_buf' = WrittenTo(out_buf, HandlerLine(ticks'), Len(HandlerLine(ticks')) + 1)

\* Where the task resumes: ra leads behind its last call.  In a prologue or an
\* epilogue sp and ra belong to different functions, and in lib_putc the frame
\* pointer through which lib_puts finds s is lib_putc's.
ResumeF(l) ==
    CASE l = "measure" -> {"check", "wild"}
      [] l = "write" -> {"puts"}
      [] l = "puts" -> IF s = 0 \/ out_buf[s] = 0 THEN {"puts", "return", "wild"} ELSE {"puts"}
      [] l = "putc" -> {"puts", "wild"}
      [] l = "return" -> {"return", "wild"}
      [] OTHER -> {l}

Preempted ==
    /\ Handler
    /\ pcF' \in ResumeF(pcF)
    /\ resF' = IF pcF \in {"measure", "check"} THEN CtxOs ELSE resF
    /\ s' = IF pcF = "write" THEN 0 ELSE s
    /\ cutF' = TRUE /\ UNCHANGED <<callF, shown>>

\* The access faults, and trap_handler loops.
WildF == StepF("wild", "wild") /\ UNCHANGED <<resF, out_buf, s, shown, cutF>>

NextF == CallPrintf \/ Measure \/ Check \/ OverflowLoop \/ Write \/ PutsTest \/ Putc
         \/ ReturnPrintf \/ Preempted \/ WildF
SpecF == InitF /\ [][NextF]_varsF

-----------------------------------------------------------------------------
(* Properties                                                               *)

TypeOKF ==
    /\ pcF \in LocsF /\ callF \in Calls /\ resF \in Int /\ s \in 0..(OutSize - 1)
    /\ DOMAIN out_buf = 0..(OutSize - 1) /\ ticks \in 0..Ticks /\ cutF \in BOOLEAN

\* The number that digits in a base spell, and what a piece has to look like.
Value(digits, base) ==
    LET Add(v, d) == base * v + (IF d >= Code["a"] THEN d - Code["a"] + 10 ELSE d - Code["0"])
    IN  FoldLeft(Add, 0, digits)
Spells(t, p) ==
    LET n == p.args[1] IN
    CASE IsA(p, "d") ->
            t # <<>> /\ IF n < 0 THEN t[1] = Code["-"] /\ Value(Tail(t), 10) = -n
                       ELSE Value(t, 10) = n /\ (n > 0 => t[1] # Code["0"])
      [] IsA(p, "x") -> Len(t) = 2 * Bytes /\ Value(t, 16) = n % Modulus
      [] IsA(p, "p") -> /\ Len(t) = 2 + 2 * Bytes /\ SubSeq(t, 1, 2) = <<Code["0"], Code["x"]>>
                         /\ Value(SubSeq(t, 3, Len(t)), 16) = n % Modulus
      [] IsA(p, "c") -> t = <<n>>
      [] IsA(p, "s") -> t = n
      [] OTHER -> t = IF p.fmt = <<"a">> THEN <<Code["a"]>> ELSE <<>>

\* A lib_printf that no interrupt disturbs prints each of its pieces, whole and in
\* order: the pass that measures and the pass that writes agree.  They disagree,
\* and the line may be cut short, where an argument follows a %c; a "%%" stays open
\* and swallows a literal behind it; the least long has no decimal text.
Exact(c) ==
    /\ ~(IsA(c[1], "c") /\ c[2].args # <<>>) /\ ~IsA(c[1], "%")
    /\ \A i \in 1..2 : IsA(c[i], "d") => c[i].args # <<MinLong>>
LineExact ==
    pcF = "return" /\ ~cutF /\ Exact(callF) =>
        \E k \in 0..Len(shown) : /\ Spells(SubSeq(shown, 1, k), callF[1])
                                 /\ Spells(SubSeq(shown, k + 1, Len(shown)), callF[2])

\* "output string size overflow" is said of lines that are too long, or that the
\* timer interrupted while they were measured, and of no other.
OverflowIsReal ==
    pcF = "overflow" =>
        cutF \/ Len(Vsnprintf(TRUE, OutSize, FmtOf(callF), ArgsOf(callF))) + 1 >= OutSize

\* A line that no interrupt disturbs is printed piece by piece or refused for its
\* length; the two passes over the format, the buffer's limit and the '\0' agree.
LinePrinted == LineExact /\ OverflowIsReal

\* lib_puts never runs over the end of out_buf, whatever the handler's lines have
\* done to the line it was printing, and in mid-line.
PutsStaysInside ==
    pcF \in {"puts", "putc", "return"} => \E k \in s..(OutSize - 1) : out_buf[k] = 0
=============================================================================
