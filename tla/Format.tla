------------------------------- MODULE Format -------------------------------
(***************************************************************************)
(* lib_vsnprintf, as 04-TimerInterrupt introduces it: a pass over the      *)
(* format that consumes the arguments and either measures (out = NULL) or  *)
(* writes at most n characters.  Characters are their codes; int and long  *)
(* have the same width on this target, so 'l' only keeps the format open.  *)
(***************************************************************************)
EXTENDS Integers, SequencesExt

CONSTANT Bytes          \* sizeof(int) = sizeof(long)

ASSUME BytesAssumption == Bytes \in Nat \ {0}

Code == [c \in {"0", "a", "-", "x"} |->
            CASE c = "0" -> 48 [] c = "a" -> 97 [] c = "-" -> 45 [] c = "x" -> 120]

Modulus == 256 ^ Bytes
MinLong == -(Modulus \div 2)
Longs == MinLong..(-MinLong - 1)
Wrapped(n) == ((n - MinLong) % Modulus) + MinLong

\* Mutated forms of definitions below.
MutDigits(n) == LET m == IF n < 0 THEN -n ELSE n
                IN  CHOOSE k \in 1..(3 * Bytes + 1) : m <= 10^k /\ \A j \in 1..k-1 : m > 10^j

-----------------------------------------------------------------------------
(* The conversions                                                          *)

HexDigit(d) == IF d < 10 THEN Code["0"] + d ELSE Code["a"] + d - 10

\* case 'x': every digit, from the highest; num >> (4*i) keeps the sign.
HexText(n) == [k \in 1..(2 * Bytes) |-> HexDigit((n \div 16^(2 * Bytes - k)) % 16)]

\* C's division and remainder, which round towards 0.
Quot(a, b) == IF a < 0 THEN -((-a) \div b) ELSE a \div b
Rem(a, b) == a - b * Quot(a, b)

\* The divisions by 10 until nothing is left.
Digits(n) == LET m == IF n < 0 THEN -n ELSE n
             IN  CHOOSE k \in 1..(3 * Bytes + 1) : m < 10^k /\ \A j \in 1..k-1 : m >= 10^j

\* case 'd': num = -num leaves the least long as it is.
DecText(n) ==
    LET num == IF n < 0 THEN Wrapped(-n) ELSE n
        d == Digits(num)
    IN  (IF n < 0 THEN <<Code["-"]>> ELSE <<>>)
            \o [k \in 1..d |-> Code["0"] + Rem(Quot(num, 10^(d - k)), 10)]

-----------------------------------------------------------------------------
(* One pass: st.text is what has been counted by pos, st.args what va_arg   *)
(* still has.                                                               *)

Emit(st, text) == [st EXCEPT !.text = @ \o text]
Done(st) == [st EXCEPT !.format = FALSE]
Used(st) == [st EXCEPT !.args = Tail(@)]

\* case 'c': va_arg stands behind out && pos < n, so a pass that measures, or has
\* no room left, counts the character and leaves the argument.
CharConv(st, out, n) ==
    IF out /\ Len(st.text) < n THEN Used(Emit(st, <<Head(st.args)>>)) ELSE Emit(st, <<0>>)

Convert(st, c, out, n) ==
    CASE c = "l" -> st
      [] c = "p" -> Done(Used(Emit(Emit(st, <<Code["0"], Code["x"]>>), HexText(Head(st.args)))))
      [] c = "x" -> Done(Used(Emit(st, HexText(Head(st.args)))))
      [] c = "d" -> Done(Used(Emit(st, DecText(Head(st.args)))))
      [] c = "s" -> Done(Used(Emit(st, Head(st.args))))
      [] c = "c" -> Done(CharConv(st, out, n))
      [] OTHER -> st                    \* any other character is skipped

Vsnprintf(out, n, fmt, args) ==
    LET Step(st, c) ==
            IF st.format THEN Convert(st, c, out, n)
            ELSE IF c = "%" THEN [st EXCEPT !.format = TRUE]
            ELSE Emit(st, <<Code[c]>>)
    IN  FoldLeft(Step, [text |-> <<>>, args |-> args, format |-> FALSE], fmt).text
=============================================================================
