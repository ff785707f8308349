---------------------------- MODULE DriverProofs ----------------------------
(***************************************************************************)
(* Chapters 07 and 08, each by an inductive invariant of its own: Console  *)
(* for every keyboard input, Disk8 for every queue size, page size and     *)
(* place of the queue, and the string functions for memory of any size and *)
(* however source and destination overlap.                                 *)
(***************************************************************************)
EXTENDS Console, Disk8, Strings, FiniteSetTheorems, TLAPS

-----------------------------------------------------------------------------
(* Console: 07-ExterInterrupt                                               *)

\* What the transmitter may hold when a task stores: nothing that is missed.
ThrFree == thr \in {NoChar, NLBehind}
Rx == IF rx_ready THEN 1 ELSE 0

\* The handler finds what has interrupted it, and leaves nothing but the newline
\* behind its last echo to be overwritten.
IsrInv ==
    /\ mepc7 \in BootLocs7 \cup TaskLocs7
    /\ pc7 \in {"mark", "claim"} => Claimable
    /\ pc7 = "getc" => rx_ready \/ ThrFree
    /\ pc7 = "rhr" => rx_ready
    /\ pc7 \in {"thr", "complete", "mret"} => ThrFree

\* What the receiver and c hold is what arrived last, or last but one.
HeldInv ==
    /\ arrived > 0 => rhr = typed[arrived]
    /\ pc7 = "echo" => c7 \in EchoOf(typed[arrived - Rx])

\* The echoes have come from keys that are no longer in flight.
Origin(from, top, keys, echoes) ==
    /\ from \in [1..Len(echoes) -> 1..top]
    /\ \A i, j \in 1..Len(echoes) : i < j => from[i] < from[j]
    /\ \A i \in 1..Len(echoes) : echoes[i] \in EchoOf(keys[from[i]])
EchoCount ==
    /\ arrived = Len(echoed) + replaced + InFlight
    /\ \E from : Origin(from, arrived - InFlight, typed, echoed)

TypeInv7 ==
    /\ TypeOK7 /\ Len(typed) <= MaxTyped /\ replaced \in Nat
    /\ echoed \in Seq(Keys \cup {NL}) /\ screen \in Seq(Keys \cup {NL})

Inv7 == TypeInv7 /\ IsrInv /\ HeldInv /\ EchoShown /\ EchoCount

LEMMA Tags7 ==
    /\ NL # NLBehind /\ NL # NoChar /\ NLBehind # NoChar /\ TaskChar # NoChar /\ MarkChar # NoChar
    /\ \A c \in Keys \cup {NL} : Echo(c) /\ c # NoChar /\ c # NLBehind
    /\ ~Echo(NLBehind) /\ ~Echo(TaskChar) /\ ~Echo(MarkChar) /\ ~Echo(NoChar)
  BY KeysAssumption DEF NL, NLBehind, NoChar, TaskChar, MarkChar, Echo

\* What a step must leave alone for the count of the echoes to stay as it is.
LEMMA QuietStep ==
    ASSUME Inv7, UNCHANGED <<typed, arrived, rhr, rx_ready, echoed, replaced>>,
           pc7 \notin {"rhr2", "echo"}, pc7' \notin {"rhr2", "echo"}
    PROVE  HeldInv' /\ EchoCount'
  <1>1. InFlight' = InFlight
    BY DEF InFlight
  <1>2. HeldInv'
    BY DEF Inv7, HeldInv
  <1>3. PICK from : Origin(from, arrived - InFlight, typed, echoed)
    BY DEF Inv7, EchoCount
  <1>4. Origin(from, arrived' - InFlight', typed', echoed')
    BY <1>1, <1>3 DEF Origin
  <1>5. QED
    BY <1>1, <1>2, <1>4 DEF Inv7, EchoCount

\* A store that leaves no echo behind, and overwrites none.
LEMMA PlainStore ==
    ASSUME Inv7, NEW c \in {NLBehind, TaskChar, MarkChar}, Store(c), ThrFree, screen' = screen
    PROVE  /\ EchoShown' /\ echoed' = echoed /\ thr' = c
           /\ lost' \subseteq Chars
  BY Tags7 DEF Inv7, TypeInv7, Store, ThrFree, EchoShown, Chars

LEMMA ConsoleInit == Init7 => Inv7
  <1> SUFFICES ASSUME Init7 PROVE Inv7
    OBVIOUS
  <1>1. PICK top \in 0..MaxTyped : typed \in [1..top -> Keys]
    BY DEF Init7
  <1>2. typed \in Seq(Keys) /\ Len(typed) = top /\ Len(typed) <= MaxTyped
    BY <1>1, KeysAssumption
  <1>3. TypeInv7
    <2>1. /\ 0 \in 0..MaxTyped /\ 0 \in 0..Len(typed) /\ pc7 \in Locs7 /\ mepc7 \in Locs7
          /\ echoed \in Seq(Keys \cup {NL}) /\ screen \in Seq(Keys \cup {NL})
      BY <1>2, KeysAssumption DEF Init7, Locs7, BootLocs7, TaskLocs7
    <2>2. QED
      BY <1>2, <2>1 DEF Init7, TypeInv7, TypeOK7
  <1>4. IsrInv /\ HeldInv
    BY DEF Init7, IsrInv, HeldInv, TaskLocs7
  <1>5. EchoShown
    BY Tags7 DEF Init7, EchoShown
  <1>6. InFlight = 0 /\ Len(echoed) = 0
    BY DEF Init7, InFlight
  <1>7. Origin(<<>>, 0, typed, echoed)
    BY <1>6 DEF Origin, Init7
  <1>8. EchoCount
    BY <1>6, <1>7 DEF EchoCount, Init7
  <1>9. QED
    BY <1>3, <1>4, <1>5, <1>8 DEF Inv7

\* Boot, the task, and the parts of the handler that no character passes through.
LEMMA PlainSteps ==
    ASSUME Inv7,
           Boot7Step \/ PutsNext \/ PutcTest \/ TakeExternal7 \/ PlicClaim \/ GetcTest
           \/ PlicComplete \/ Mret7 \/ Hang7
    PROVE  Inv7'
  <1> USE DEF Inv7
  <1>1. /\ UNCHANGED <<typed, arrived, rhr, rx_ready, thr, c7, hist7>>
        /\ pc7 \notin {"rhr2", "echo"} /\ pc7' \notin {"rhr2", "echo"}
        /\ pc7' \in Locs7 /\ mepc7' \in BootLocs7 \cup TaskLocs7
        /\ irq7 \subseteq irq7' /\ irq7' \subseteq AllEnabled7 /\ claimed' \in BOOLEAN
    BY DEF Boot7Step, UartInit, TrapInit7, PlicInit, TimerInit7, Boot7, PutsNext, PutcTest,
           TakeExternal7, PlicClaim, GetcTest, PlicComplete, Mret7, Hang7, Code7, dev7, hist7,
           Locs7, BootLocs7, TaskLocs7, IsrLocs7, AllEnabled7, IsrInv, TypeInv7, TypeOK7, Completed
  <1>2. TypeInv7'
    BY <1>1 DEF TypeInv7, TypeOK7, hist7, Locs7
  <1>3. IsrInv'
    <2>1. pc7' \in {"mark", "claim"} => Claimable'
      BY DEF Boot7Step, UartInit, TrapInit7, PlicInit, TimerInit7, Boot7, PutsNext, PutcTest,
           TakeExternal7, PlicClaim, GetcTest, PlicComplete, Mret7, Hang7, Code7, dev7,
           BootLocs7, TaskLocs7, IsrInv, Claimable
    <2>2. pc7' = "getc" => (rx_ready \/ ThrFree)'
      BY DEF Boot7Step, UartInit, TrapInit7, PlicInit, TimerInit7, Boot7, PutsNext, PutcTest,
           TakeExternal7, PlicClaim, GetcTest, PlicComplete, Mret7, Hang7, Code7, dev7,
           BootLocs7, TaskLocs7, IsrInv, Claimable
    <2>3. pc7' = "rhr" => rx_ready'
      BY DEF Boot7Step, UartInit, TrapInit7, PlicInit, TimerInit7, Boot7, PutsNext, PutcTest,
           TakeExternal7, PlicClaim, GetcTest, PlicComplete, Mret7, Hang7, Code7, dev7,
           BootLocs7, TaskLocs7, IsrInv, IsEmpty
    <2>4. pc7' \in {"thr", "complete", "mret"} => ThrFree'
      BY DEF Boot7Step, UartInit, TrapInit7, PlicInit, TimerInit7, Boot7, PutsNext, PutcTest,
           TakeExternal7, PlicClaim, GetcTest, PlicComplete, Mret7, Hang7, Code7, dev7,
           BootLocs7, TaskLocs7, IsrInv, IsEmpty, ThrFree, TxReady, Claimable, UART0_IRQ7
    <2>5. QED
      BY <1>1, <2>1, <2>2, <2>3, <2>4 DEF IsrInv
  <1>4. EchoShown'
    BY <1>1 DEF EchoShown, hist7
  <1>5. HeldInv' /\ EchoCount'
    BY <1>1, QuietStep DEF hist7
  <1>6. QED
    BY <1>2, <1>3, <1>4, <1>5

\* The stores of which nobody keeps an account: a task's, the mark, the newline.
LEMMA PlainStores ==
    ASSUME Inv7, PutcStore \/ PutMark \/ IsrNewline
    PROVE  Inv7'
  <1> USE DEF Inv7
  <1>1. /\ UNCHANGED <<mepc7, irq7, typed, arrived, rhr, rx_ready, claimed, c7, screen, replaced>>
        /\ ThrFree
        /\ \/ pc7 = "thr" /\ pc7' = "puts" /\ Store(TaskChar)
           \/ pc7 = "mark" /\ pc7' = "claim" /\ Store(MarkChar)
           \/ pc7 = "newline" /\ pc7' = "getc" /\ Store(NLBehind)
    BY DEF PutcStore, PutMark, IsrNewline, IsrPutc, Code7, dev7, IsrInv, TxReady, ThrFree
  <1>2. PICK c \in {NLBehind, TaskChar, MarkChar} : Store(c) /\ (pc7' = "getc" => c = NLBehind)
    BY <1>1
  <1>3. EchoShown' /\ echoed' = echoed /\ thr' = c /\ lost' \subseteq Chars
    BY <1>1, <1>2, PlainStore
  <1>4. TypeInv7'
    BY <1>1, <1>3 DEF TypeInv7, TypeOK7, Locs7, TaskLocs7, IsrLocs7, Chars
  <1>5. IsrInv'
    BY <1>1, <1>2, <1>3 DEF IsrInv, Claimable, ThrFree
  <1>6. HeldInv' /\ EchoCount'
    BY <1>1, <1>3, QuietStep
  <1>7. QED
    BY <1>3, <1>4, <1>5, <1>6

LEMMA TransmitStep == ASSUME Inv7, Transmit PROVE Inv7'
  <1> USE DEF Inv7, Transmit
  <1>1. screen' \in Seq(Keys \cup {NL}) /\ echoed = screen' /\ ~Echo(thr')
    <2>1. CASE Echo(thr)
      <3>1. thr \in Keys \cup {NL}
        BY <2>1 DEF Echo
      <3>2. QED
        BY <2>1, <3>1, Tags7 DEF EchoShown, TypeInv7
    <2>2. CASE ~Echo(thr)
      BY <2>2, Tags7 DEF EchoShown, TypeInv7
    <2>3. QED
      BY <2>1, <2>2
  <1>2. TypeInv7'
    BY <1>1 DEF TypeInv7, TypeOK7, dev7
  <1>3. IsrInv'
    BY DEF IsrInv, Claimable, ThrFree, dev7
  <1>4. EchoShown'
    BY <1>1 DEF EchoShown, TypeInv7
  <1>5. HeldInv'
    BY DEF HeldInv, Rx, dev7
  <1>6. InFlight' = InFlight
    BY DEF InFlight, dev7
  <1>7. PICK from : Origin(from, arrived - InFlight, typed, echoed)
    BY DEF EchoCount
  <1>8. Origin(from, arrived' - InFlight', typed', echoed')
    BY <1>6, <1>7 DEF Origin, dev7
  <1>9. EchoCount'
    BY <1>6, <1>8 DEF EchoCount, dev7
  <1>10. QED
    BY <1>2, <1>3, <1>4, <1>5, <1>9

\* The next character is in flight, and the one in c is now the last but one.
LEMMA ArriveStep == ASSUME Inv7, Arrive PROVE Inv7'
  <1> USE DEF Inv7, Arrive
  <1>0. arrived \in Nat /\ arrived' = arrived + 1 /\ arrived' \in 0..Len(typed)
    BY DEF TypeInv7, TypeOK7
  <1>1. TypeInv7'
    BY <1>0 DEF TypeInv7, TypeOK7, hist7
  <1>2. IsrInv'
    BY DEF IsrInv, Claimable, ThrFree
  <1>3. EchoShown'
    BY DEF EchoShown, hist7
  <1>4. Rx = 0 /\ Rx' = 1
    BY DEF Rx
  <1>5. HeldInv'
    <2>1. arrived' - Rx' = arrived /\ arrived - Rx = arrived
      BY <1>0, <1>4
    <2>2. QED
      BY <2>1 DEF HeldInv
  <1>6. InFlight' = InFlight + 1 /\ InFlight \in Nat
    BY DEF InFlight
  <1>7. arrived' - InFlight' = arrived - InFlight
    BY <1>0, <1>6
  <1>8. PICK from : Origin(from, arrived - InFlight, typed, echoed)
    BY DEF EchoCount
  <1>9. Origin(from, arrived' - InFlight', typed', echoed')
    BY <1>7, <1>8 DEF Origin, hist7
  <1>10. EchoCount'
    <2>1. Len(echoed) \in Nat /\ replaced \in Nat /\ echoed' = echoed /\ replaced' = replaced
      BY DEF TypeInv7, hist7
    <2>2. arrived = Len(echoed) + replaced + InFlight
      BY DEF EchoCount
    <2>3. arrived' = Len(echoed') + replaced' + InFlight'
      BY <1>0, <1>6, <2>1, <2>2
    <2>4. QED
      BY <1>9, <2>3 DEF EchoCount
  <1>11. QED
    BY <1>1, <1>2, <1>3, <1>5, <1>10

\* RHR is read: the receiver is free, and c holds the character or what '\r' becomes.
LEMMA GetcReadStep == ASSUME Inv7, GetcRead PROVE Inv7'
  <1> USE DEF Inv7, GetcRead
  <1>1. rx_ready /\ Rx' = 0
    BY DEF IsrInv, Code7, Rx
  <1>2. InFlight = 1 /\ InFlight' = 1 /\ arrived \in Nat /\ Len(echoed) \in Nat /\ replaced \in Nat
    BY <1>1 DEF InFlight, Code7, TypeInv7, TypeOK7
  <1>3. arrived > 0
    BY <1>2 DEF EchoCount
  <1>4. TypeInv7'
    BY <1>3 DEF TypeInv7, TypeOK7, Code7, Locs7, IsrLocs7, hist7
  <1>5. IsrInv'
    BY DEF IsrInv, Code7, Claimable, ThrFree
  <1>6. EchoShown'
    BY DEF EchoShown, hist7
  <1>7. HeldInv'
    <2>1. rhr = typed[arrived]
      BY <1>3 DEF HeldInv
    <2>2. arrived' - Rx' = arrived
      BY <1>1, <1>2
    <2>3. QED
      BY <2>1, <2>2 DEF HeldInv, EchoOf, Code7
  <1>8. PICK from : Origin(from, arrived - InFlight, typed, echoed)
    BY DEF EchoCount
  <1>9. Origin(from, arrived' - InFlight', typed', echoed')
    BY <1>2, <1>8 DEF Origin, hist7
  <1>10. EchoCount'
    BY <1>2, <1>9 DEF EchoCount, hist7
  <1>11. QED
    BY <1>4, <1>5, <1>6, <1>7, <1>10

\* RHR is read again: what has arrived in between replaces the character before.
LEMMA GetcReadAgainStep == ASSUME Inv7, GetcReadAgain PROVE Inv7'
  <1> USE DEF Inv7, GetcReadAgain
  <1>1. /\ InFlight = 1 + Rx /\ InFlight' = 1 /\ Rx' = 0 /\ Rx \in {0, 1}
        /\ arrived \in Nat /\ Len(echoed) \in Nat /\ replaced \in Nat /\ Len(typed) \in Nat
    BY DEF InFlight, Rx, Code7, TypeInv7, TypeOK7
  <1>2. replaced' = replaced + Rx
    BY DEF Rx, TypeInv7
  <1>3. arrived > 0 /\ replaced' <= arrived /\ arrived <= MaxTyped
    BY <1>1, <1>2, KeysAssumption DEF EchoCount, TypeInv7, TypeOK7
  <1>4. TypeInv7'
    <2>1. replaced' \in Nat /\ replaced' \in 0..MaxTyped
      BY <1>1, <1>2, <1>3, KeysAssumption
    <2>2. c7' \in Keys \cup {NL, NoChar} /\ pc7' \in Locs7 /\ rx_ready' \in BOOLEAN
      BY DEF TypeInv7, TypeOK7, Code7, Locs7, IsrLocs7
    <2>3. QED
      BY <2>1, <2>2 DEF TypeInv7, TypeOK7
  <1>5. IsrInv'
    BY DEF IsrInv, Code7, Claimable, ThrFree
  <1>6. EchoShown'
    BY DEF EchoShown
  <1>7. HeldInv'
    <2>1. rhr = typed[arrived]
      BY <1>3 DEF HeldInv
    <2>2. arrived' - Rx' = arrived
      BY <1>1
    <2>3. QED
      BY <2>1, <2>2 DEF HeldInv, EchoOf, Code7
  <1>8. PICK from : Origin(from, arrived - InFlight, typed, echoed)
    BY DEF EchoCount
  <1>9. Origin(from, arrived' - InFlight', typed', echoed')
    <2>1. 1..(arrived - InFlight) \subseteq 1..(arrived' - InFlight')
      BY <1>1
    <2>2. QED
      BY <1>8, <2>1 DEF Origin
  <1>10. EchoCount'
    BY <1>1, <1>2, <1>9 DEF EchoCount
  <1>11. QED
    BY <1>4, <1>5, <1>6, <1>7, <1>10

\* The echo of the character in c: of a later key than the echoes before it.
LEMMA IsrEchoStep == ASSUME Inv7, IsrEcho PROVE Inv7'
  <1> USE DEF Inv7
  <1>1. /\ pc7 = "echo" /\ pc7' = "newline" /\ thr = NoChar /\ thr' = c7 /\ lost' = lost
        /\ echoed' = (IF Echo(c7) THEN Append(echoed, c7) ELSE echoed)
        /\ UNCHANGED <<mepc7, irq7, typed, arrived, rhr, rx_ready, claimed, c7, screen, replaced>>
    BY DEF IsrEcho, IsrPutc, TxReady, Code7, Store, dev7
  <1>2. /\ InFlight = 1 + Rx /\ InFlight' = Rx /\ Rx' = Rx /\ Rx \in {0, 1}
        /\ arrived \in Nat /\ Len(echoed) \in Nat /\ replaced \in Nat /\ Len(typed) \in Nat
    BY <1>1 DEF InFlight, Rx, TypeInv7, TypeOK7
  <1> DEFINE k == arrived - Rx  m == Len(echoed)
  <1>3. k \in 1..Len(typed) /\ arrived - InFlight = k - 1 /\ arrived' - InFlight' = k
    BY <1>1, <1>2 DEF EchoCount, TypeInv7, TypeOK7
  <1>4. c7 \in EchoOf(typed[k]) /\ c7 \in Keys \cup {NL} /\ Echo(c7)
    BY <1>1, <1>3 DEF HeldInv, EchoOf, TypeInv7, TypeOK7, Echo
  <1>5. echoed' = Append(echoed, c7) /\ echoed' \in Seq(Keys \cup {NL})
    BY <1>1, <1>4 DEF TypeInv7
  <1>6. TypeInv7'
    BY <1>1, <1>4, <1>5 DEF TypeInv7, TypeOK7, Locs7, IsrLocs7, Chars
  <1>7. IsrInv' /\ HeldInv'
    BY <1>1 DEF IsrInv, HeldInv
  <1>8. EchoShown'
    BY <1>1, <1>4, <1>5, Tags7 DEF EchoShown, TypeInv7
  <1>9. PICK from : Origin(from, k - 1, typed, echoed)
    BY <1>3 DEF EchoCount
  <1>10. Len(echoed') = m + 1 /\ echoed'[m + 1] = c7 /\ \A i \in 1..m : echoed'[i] = echoed[i]
    BY <1>5 DEF TypeInv7
  <1>11. PICK to : to = [i \in 1..(m + 1) |-> IF i = m + 1 THEN k ELSE from[i]]
    OBVIOUS
  <1>12. to[m + 1] = k /\ \A i \in 1..m : to[i] = from[i] /\ from[i] \in 1..(k - 1)
    BY <1>2, <1>9, <1>11 DEF Origin
  <1>13. to \in [1..Len(echoed') -> 1..k]
    <2>1. \A i \in 1..(m + 1) : to[i] \in 1..k
      <3> SUFFICES ASSUME NEW i \in 1..(m + 1) PROVE to[i] \in 1..k
        OBVIOUS
      <3>1. CASE i = m + 1
        BY <1>3, <1>12, <3>1
      <3>2. CASE i # m + 1
        <4>1. i \in 1..m /\ k \in Nat
          BY <1>2, <1>3, <3>2
        <4>2. QED
          BY <1>12, <4>1
      <3>3. QED
        BY <3>1, <3>2
    <2>2. to \in [1..(m + 1) -> 1..k]
      BY <1>11, <2>1
    <2>3. QED
      BY <1>10, <2>2
  <1>14. \A i, j \in 1..Len(echoed') : i < j => to[i] < to[j]
    <2> SUFFICES ASSUME NEW i \in 1..(m + 1), NEW j \in 1..(m + 1), i < j PROVE to[i] < to[j]
      BY <1>10
    <2>1. i \in 1..m
      BY <1>2
    <2>2. CASE j = m + 1
      BY <1>3, <1>12, <2>1, <2>2
    <2>3. CASE j # m + 1
      <3>1. j \in 1..m
        BY <1>2, <2>3
      <3>2. from[i] < from[j]
        BY <1>9, <2>1, <3>1 DEF Origin
      <3>3. QED
        BY <1>12, <2>1, <3>1, <3>2
    <2>4. QED
      BY <2>2, <2>3
  <1>15. \A i \in 1..Len(echoed') : echoed'[i] \in EchoOf(typed[to[i]])
    <2> SUFFICES ASSUME NEW i \in 1..(m + 1) PROVE echoed'[i] \in EchoOf(typed[to[i]])
      BY <1>10
    <2>1. CASE i = m + 1
      BY <1>4, <1>10, <1>12, <2>1
    <2>2. CASE i # m + 1
      <3>1. i \in 1..m
        BY <1>2, <2>2
      <3>2. echoed[i] \in EchoOf(typed[from[i]])
        BY <1>9, <3>1 DEF Origin
      <3>3. QED
        BY <1>10, <1>12, <3>1, <3>2
    <2>3. QED
      BY <2>1, <2>2
  <1>16. Origin(to, arrived' - InFlight', typed', echoed')
    BY <1>1, <1>3, <1>13, <1>14, <1>15 DEF Origin, EchoOf
  <1>17. arrived' = Len(echoed') + replaced' + InFlight'
    BY <1>1, <1>2, <1>10 DEF EchoCount
  <1>18. EchoCount'
    BY <1>16, <1>17 DEF EchoCount
  <1>19. QED
    BY <1>6, <1>7, <1>8, <1>18

LEMMA ConsoleStep == Inv7 /\ [Next7]_vars7 => Inv7'
  <1> SUFFICES ASSUME Inv7, [Next7]_vars7 PROVE Inv7'
    OBVIOUS
  <1>1. CASE Boot7Step \/ PutsNext \/ PutcTest \/ TakeExternal7 \/ PlicClaim \/ GetcTest
             \/ PlicComplete \/ Mret7 \/ Hang7
    BY <1>1, PlainSteps
  <1>2. CASE PutcStore \/ PutMark \/ IsrNewline
    BY <1>2, PlainStores
  <1>3. CASE GetcRead
    BY <1>3, GetcReadStep
  <1>4. CASE GetcReadAgain
    BY <1>4, GetcReadAgainStep
  <1>5. CASE IsrEcho
    BY <1>5, IsrEchoStep
  <1>6. CASE Arrive
    BY <1>6, ArriveStep
  <1>7. CASE Transmit
    BY <1>7, TransmitStep
  <1>8. CASE UNCHANGED vars7
    <2>1. PICK from : Origin(from, arrived - InFlight, typed, echoed)
      BY DEF Inv7, EchoCount
    <2>2. InFlight' = InFlight
      BY <1>8 DEF vars7, dev7, InFlight
    <2>3. Origin(from, arrived' - InFlight', typed', echoed')
      BY <1>8, <2>1, <2>2 DEF vars7, dev7, hist7, Origin
    <2>4. EchoCount'
      BY <1>8, <2>2, <2>3 DEF Inv7, EchoCount, vars7, dev7, hist7
    <2>5. TypeInv7' /\ IsrInv' /\ HeldInv' /\ EchoShown'
      BY <1>8 DEF Inv7, vars7, dev7, hist7, TypeInv7, TypeOK7, IsrInv, Claimable, ThrFree,
                  HeldInv, Rx, EchoShown
    <2>6. QED
      BY <2>4, <2>5 DEF Inv7
  <1>9. QED
    BY <1>1, <1>2, <1>3, <1>4, <1>5, <1>6, <1>7, <1>8
    DEF Next7, Hart7Step, Task7Step, Isr7Step

LEMMA ConsoleShown == Inv7 => TypeOK7 /\ EchoExact
  <1> SUFFICES ASSUME Inv7 PROVE TypeOK7 /\ EchoExact
    OBVIOUS
  <1>1. DOMAIN echoed = 1..Len(echoed)
    BY DEF Inv7, TypeInv7
  <1>2. PICK from : Origin(from, arrived - InFlight, typed, echoed)
    BY DEF Inv7, EchoCount
  <1>3. arrived \in Nat /\ InFlight \in Nat
    BY DEF Inv7, TypeInv7, TypeOK7, InFlight
  <1>4. from \in [DOMAIN echoed -> 1..arrived]
    BY <1>1, <1>2, <1>3 DEF Origin
  <1>5. KeysEchoed
    BY <1>1, <1>2, <1>4 DEF KeysEchoed, Inv7, EchoCount, Origin
  <1>6. QED
    BY <1>5 DEF EchoExact, Inv7, TypeInv7

THEOREM ConsoleTypes == Spec7 => []TypeOK7
  <1>1. QED BY ConsoleInit, ConsoleStep, ConsoleShown, PTL DEF Spec7

\* lib_isr echoes what is typed, whole and in order, whatever lib_putc it interrupts
\* and whenever the next character arrives; up to one that lib_getc's second read
\* replaces, and to the newline behind an echo.
THEOREM ConsoleEchoes == Spec7 => []EchoExact
  <1>1. QED BY ConsoleInit, ConsoleStep, ConsoleShown, PTL DEF Spec7

-----------------------------------------------------------------------------
(* Disk8: 08-BlockDeviceDriver                                              *)

Boot8 == {"probe", "status", "queue", "memset", "pfn", "align", "pointers", "free"}
Reading8 == {"tester", "alloc", "publish", "wait", "print"}
AllDescs8 == 0..(NUM8 - 1)

\* What virtio_disk_init has told the device before it tells it where the queue is.
QueueInv ==
    /\ offered8 \subseteq Offered8 /\ align8 = PGSIZE8 /\ pfn8 \in {0, Pages8 \div PGSIZE8}
    /\ pfn8 # 0 \/ pc8 \in {"memset", "pfn"} => page8 = PGSIZE8 /\ num8 = NUM8
    /\ pfn8 # 0 \/ pc8 = "pfn" => zeroed8
    /\ pc8 \in {"free"} \cup Reading8 => ptrs8 = <<Pages8, Pages8 + NUM8 * DESC_SIZE8, UsedPtr>>

\* One request at a time, with three descriptors while it lasts.
RequestInv ==
    /\ pc8 \in {"tester", "alloc", "print"} => free8 = AllDescs8
    /\ pc8 \in {"publish", "wait"} => free8 \cup idx8 = AllDescs8
    /\ pc8 \in Boot8 \cup {"panic"} => avail8 = 0 /\ reads8 = 0
    /\ pc8 \in Reading8 \ {"tester"} => reads8 > 0
    /\ reads8 = avail8 + (IF pc8 \in {"alloc", "publish"} THEN 1 ELSE 0)
    /\ avail8 = seen8 + (IF pc8 = "wait" /\ b8.disk = 1 THEN 1 ELSE 0)

\* A request that the driver has seen served, or the device has served without an
\* error, has brought the block, and b[0] is never filled in again.
DataInv ==
    /\ b8 \in [dev : {0, 1}, blockno : {0, 1}, data : {"zeros", "block"}, disk : {0, 1}]
    /\ reads8 > 0 => b8.dev = 1
    /\ seen8 > 0 \/ (used8 > 0 /\ ~failed8) => b8.data = "block"

Inv8 == TypeOK8 /\ QueueInv /\ RequestInv /\ DataInv

-----------------------------------------------------------------------------
(* Where the rings are                                                      *)

\* The quotient and the remainder of a division are the only ones.
LEMMA DivisionUnique ==
    ASSUME NEW size \in Nat \ {0}, NEW q \in Nat, NEW r \in 0..(size - 1)
    PROVE  (q * size + r) \div size = q
  <1>1. PICK num \in Nat : num = q * size + r
    OBVIOUS
  <1>2. PICK k \in Nat, m \in 0..(size - 1) : k = num \div size /\ m = num % size
    <2>1. num \div size \in Nat /\ num % size \in 0..(size - 1)
      OBVIOUS
    <2>2. QED BY <2>1
  <1>3. num = size * k + m
    BY <1>2
  <1>4. ~(k > q)
    <2> SUFFICES ASSUME k > q PROVE FALSE
      OBVIOUS
    <2>1. PICK j \in Nat : k = q + 1 + j
      <3>1. k - q - 1 \in Nat /\ k = q + 1 + (k - q - 1)
        BY <1>2
      <3>2. QED BY <3>1
    <2>2. size * k = q * size + size + size * j /\ size * j >= 0
      BY <2>1
    <2>3. QED
      BY <1>1, <1>2, <1>3, <2>2
  <1>5. ~(q > k)
    <2> SUFFICES ASSUME q > k PROVE FALSE
      OBVIOUS
    <2>1. PICK j \in Nat : q = k + 1 + j
      <3>1. q - k - 1 \in Nat /\ q = k + 1 + (q - k - 1)
        BY <1>2
      <3>2. QED BY <3>1
    <2>2. q * size = size * k + size + size * j /\ size * j >= 0
      BY <1>2, <2>1
    <2>3. QED
      BY <1>1, <1>2, <1>3, <2>2
  <1>6. QED
    BY <1>1, <1>2, <1>4, <1>5

\* The page number is exact: the pages begin on a page boundary.
LEMMA PageNumber ==
    /\ Pages8 \div PGSIZE8 \in Nat
    /\ (Pages8 \div PGSIZE8) * PGSIZE8 = Pages8
  <1>1. PICK q : q = Pages8 \div PGSIZE8 /\ q \in Nat
    BY Disk8Assumption
  <1>2. Pages8 = PGSIZE8 * q + (Pages8 % PGSIZE8)
    BY <1>1, Disk8Assumption
  <1>3. PGSIZE8 * q = q * PGSIZE8
    BY <1>1, Disk8Assumption
  <1>4. QED
    BY <1>1, <1>2, <1>3, Disk8Assumption

\* The used ring is on the page behind the one with the other two parts.
LEMMA UsedRing ==
    AlignUp(Pages8 + NUM8 * DESC_SIZE8 + 4 + 2 * NUM8, PGSIZE8) = Pages8 + PGSIZE8
  <1> DEFINE q == Pages8 \div PGSIZE8
             used == NUM8 * DESC_SIZE8 + 4 + 2 * NUM8
  <1>1. used \in 1..PGSIZE8
    BY Disk8Assumption DEF DESC_SIZE8, AVAIL_SIZE8
  <1>2. q \in Nat /\ q * PGSIZE8 = Pages8 /\ (q + 1) * PGSIZE8 = Pages8 + PGSIZE8
    <2>1. q \in Nat /\ q * PGSIZE8 = Pages8
      BY PageNumber
    <2> HIDE DEF q
    <2>2. (q + 1) * PGSIZE8 = q * PGSIZE8 + PGSIZE8
      BY <2>1, Disk8Assumption
    <2>3. QED
      BY <2>1, <2>2
  <1>3. PICK page, r : /\ page = q + 1 /\ r = used - 1 /\ page \in Nat /\ r \in 0..(PGSIZE8 - 1)
                    /\ page * PGSIZE8 = Pages8 + PGSIZE8
    BY <1>1, <1>2, Disk8Assumption
  <1>4. Pages8 + NUM8 * DESC_SIZE8 + 4 + 2 * NUM8 + PGSIZE8 - 1 = page * PGSIZE8 + r
    BY <1>3, Disk8Assumption DEF DESC_SIZE8
  <1>5. (page * PGSIZE8 + r) \div PGSIZE8 = page
    BY <1>3, Disk8Assumption, DivisionUnique
  <1>6. QED
    BY <1>3, <1>4, <1>5 DEF AlignUp

\* Once the device has its queue, it looks where virtio_disk_init has put it.
LEMMA RingsPlaced ==
    ASSUME QueueInv, pfn8 # 0
    PROVE  Rings = <<Pages8, Pages8 + NUM8 * DESC_SIZE8, UsedPtr>>
  <1>1. pfn8 * page8 = Pages8
    BY PageNumber DEF QueueInv
  <1>2. num8 = NUM8 /\ align8 = PGSIZE8
    BY DEF QueueInv
  <1>3. QED
    BY <1>1, <1>2, UsedRing DEF Rings, UsedPtr

LEMMA Agreeing == Inv8 => RingsAgree
  <1> SUFFICES ASSUME Inv8, Live PROVE RingsAgree
    BY DEF RingsAgree
  <1>1. pfn8 # 0 /\ QueueInv
    BY DEF Live, Inv8
  <1>2. Rings = <<Pages8, Pages8 + NUM8 * DESC_SIZE8, Pages8 + PGSIZE8>>
    BY <1>1, RingsPlaced DEF UsedPtr
  <1>3. Rings[1] = Pages8 /\ Rings[3] = Pages8 + PGSIZE8
    BY <1>2
  <1>4. 4 + 8 * NUM8 <= PGSIZE8
    BY Disk8Assumption DEF DESC_SIZE8, AVAIL_SIZE8
  <1>5. pc8 \in {"publish", "wait"} => Rings = ptrs8
    BY <1>1, <1>2 DEF QueueInv, Reading8, UsedPtr
  <1>6. QED
    BY <1>1, <1>3, <1>4, <1>5, Disk8Assumption DEF RingsAgree, QueueInv

-----------------------------------------------------------------------------
(* The steps                                                                *)

LEMMA Disk8Init == Init8 => Inv8
  <1> SUFFICES ASSUME Init8 PROVE Inv8
    OBVIOUS
  <1>1. TypeOK8
    BY Disk8Assumption DEF Init8, TypeOK8
  <1>2. QueueInv /\ RequestInv /\ DataInv
    BY DEF Init8, QueueInv, RequestInv, DataInv, Boot8, Reading8, NoBuf
  <1>3. QED
    BY <1>1, <1>2 DEF Inv8

\* No request is made before virtio_disk_init has come to its end.
LEMMA Disk8Boot == ASSUME Inv8, Init8Step PROVE Inv8'
  <1> USE DEF Inv8, Init8Step, Probe, Negotiate, SelectQueue, ClearPages, SetPfn, SetAlign,
              SetPointers, FreeAll, Setup, At8, given8, regs8, irq8
  <1>1. pc8 \in Boot8 /\ pc8' \in Boot8 \cup {"panic", "tester"}
    BY DEF Boot8
  <1>2. TypeOK8'
    <2>1. features8' \subseteq Offered8 /\ num8' \in {0, NUM8}
      BY DEF TypeOK8, QueueInv
    <2>2. free8' \subseteq 0..(NUM8 - 1) /\ idx8' \subseteq 0..(NUM8 - 1)
      BY DEF TypeOK8
    <2>3. UNCHANGED <<reads8, seen8, used8, avail8, isr8>>
      OBVIOUS
    <2>4. QED
      BY <1>1, <2>1, <2>2, <2>3 DEF TypeOK8, Boot8
  <1>3. QueueInv'
    BY DEF QueueInv, Reading8
  <1>4. RequestInv'
    BY <1>1 DEF RequestInv, Boot8, Reading8, AllDescs8, TypeOK8
  <1>5. DataInv'
    BY DEF DataInv
  <1>6. QED
    BY <1>2, <1>3, <1>4, <1>5

LEMMA Disk8Reading == ASSUME Inv8, Rw8Step, vars8' # vars8 PROVE Inv8'
  <1> USE DEF Inv8
  <1>1. /\ Tester \/ Alloc3Desc \/ Publish \/ WaitFree \/ PrintBlock
        /\ UNCHANGED <<given8, regs8, zeroed8, ptrs8, irq8, seen8>>
        /\ pc8 \in Reading8 /\ pc8' \in Reading8
    BY DEF Rw8Step, Panic8, Done8, Tester, Alloc3Desc, Publish, WaitFree, PrintBlock, Rw8, At8,
           Reading8
  <1>2. UNCHANGED <<offered8, status8, features8, page8, num8, pfn8, align8, used8, failed8, isr8>>
    BY <1>1 DEF given8, regs8, irq8
  <1>3. QueueInv'
    BY <1>1, <1>2 DEF QueueInv, Reading8
  <1>4. DataInv' /\ (b8'.disk = b8.disk \/ Tester \/ Publish)
    <2>1. CASE Tester
      <3>1. reads8 = 0 => seen8 = 0 /\ used8 = 0
        BY Disk8Assumption DEF TypeOK8
      <3>2. b8' = (IF b8.dev = 0 THEN [NoBuf EXCEPT !.dev = 1, !.blockno = 1] ELSE b8)
        BY <2>1 DEF Tester
      <3>3. CASE b8.dev = 0
        <4>1. reads8 = 0
          BY <3>3, Disk8Assumption DEF DataInv, RequestInv, TypeOK8
        <4>2. b8' = [dev |-> 1, blockno |-> 1, data |-> "zeros", disk |-> 0]
          BY <3>2, <3>3 DEF NoBuf
        <4>3. QED
          <5>1. ~(seen8' > 0) /\ ~(used8' > 0)
            BY <1>1, <1>2, <3>1, <4>1
          <5>2. /\ b8' \in [dev : {0, 1}, blockno : {0, 1}, data : {"zeros", "block"},
                            disk : {0, 1}]
                /\ b8'.dev = 1
            BY <4>2
          <5>3. QED
            BY <2>1, <5>1, <5>2 DEF DataInv
      <3>4. CASE b8.dev # 0
        BY <1>1, <1>2, <3>2, <3>4 DEF DataInv
      <3>5. QED
        BY <3>3, <3>4
    <2>2. CASE Publish
      BY <1>1, <1>2, <2>2 DEF Publish, Rw8, DataInv
    <2>3. CASE Alloc3Desc \/ WaitFree \/ PrintBlock
      BY <1>1, <1>2, <2>3 DEF Alloc3Desc, WaitFree, PrintBlock, Rw8, DataInv
    <2>4. QED
      BY <1>1, <2>1, <2>2, <2>3
  <1>5. RequestInv' /\ TypeOK8'
    <2>0. /\ free8 \subseteq AllDescs8 /\ idx8 \subseteq AllDescs8 /\ reads8 \in Nat
          /\ avail8 \in Nat /\ seen8 \in Nat /\ used8 \in Nat /\ b8.disk \in {0, 1}
          /\ seen8 <= used8 /\ used8 <= avail8 /\ avail8 <= reads8
      BY Disk8Assumption DEF TypeOK8, DataInv, AllDescs8
    <2>1. CASE Tester
      <3>1. reads8' = reads8 + 1 /\ reads8' \in 0..Reads8 /\ avail8' = avail8
        BY <2>0, <2>1, Disk8Assumption DEF Tester, Rw8
      <3>2. RequestInv'
        BY <1>1, <1>4, <2>0, <2>1, <3>1 DEF Tester, Rw8, At8, RequestInv, Boot8
      <3>3. QED
        BY <1>1, <1>2, <2>0, <2>1, <3>1, <3>2 DEF Tester, Rw8, At8, TypeOK8
    <2>2. CASE Alloc3Desc
      <3>1. idx8' \subseteq free8 /\ free8' = free8 \ idx8'
        BY <2>2 DEF Alloc3Desc
      <3>2. RequestInv'
        BY <1>1, <1>4, <2>0, <2>2, <3>1 DEF Alloc3Desc, Rw8, At8, RequestInv, Boot8
      <3>3. QED
        BY <1>1, <1>2, <2>0, <2>2, <3>1, <3>2 DEF Alloc3Desc, Rw8, At8, TypeOK8, AllDescs8
    <2>3. CASE Publish
      <3>1. avail8' = avail8 + 1 /\ b8'.disk = 1 /\ reads8 = avail8 + 1 /\ avail8 = seen8
        BY <2>0, <2>3 DEF Publish, Rw8, At8, RequestInv, DataInv
      <3>2. RequestInv'
        BY <1>1, <1>4, <2>0, <2>3, <3>1 DEF Publish, Rw8, At8, RequestInv, Boot8
      <3>3. QED
        BY <1>1, <1>2, <2>0, <2>3, <3>1, <3>2 DEF Publish, Rw8, At8, TypeOK8
    <2>4. CASE WaitFree
      <3>1. RequestInv'
        BY <1>1, <1>4, <2>0, <2>4 DEF WaitFree, Rw8, At8, RequestInv, Boot8
      <3>2. QED
        BY <1>1, <1>2, <2>0, <2>4, <3>1 DEF WaitFree, Rw8, At8, TypeOK8, AllDescs8
    <2>5. CASE PrintBlock
      <3>1. RequestInv'
        BY <1>1, <1>4, <2>0, <2>5 DEF PrintBlock, Rw8, At8, RequestInv, Boot8
      <3>2. QED
        BY <1>1, <1>2, <2>0, <2>5, <3>1 DEF PrintBlock, Rw8, At8, TypeOK8
    <2>6. QED
      BY <1>1, <2>1, <2>2, <2>3, <2>4, <2>5
  <1>6. QED
    BY <1>3, <1>4, <1>5

LEMMA Disk8Serves == ASSUME Inv8, DeviceServes PROVE Inv8'
  <1> USE DEF Inv8, DeviceServes
  <1>1. QueueInv'
    BY DEF QueueInv, regs8, given8
  <1>2. DataInv' /\ b8'.disk = b8.disk
    BY DEF DataInv, TypeOK8
  <1>3. RequestInv'
    BY <1>2 DEF RequestInv
  <1>4. used8' = used8 + 1 /\ used8 < avail8
    OBVIOUS
  <1>5. TypeOK8'
    BY <1>4, Disk8Assumption DEF TypeOK8, regs8
  <1>6. QED
    BY <1>1, <1>2, <1>3, <1>5

\* The handler takes an entry off the used ring, and with it a request off the driver.
LEMMA Disk8Isr == ASSUME Inv8, Isr8Step PROVE Inv8'
  <1> USE DEF Inv8
  <1>1. CASE TakeExternal8 \/ IsrAck8 \/ IsrDone8 \/ IsrComplete8 \/ IsrPanic8
              \/ (IsrLoop8 /\ failed8)
    <2>1. /\ isr8' \in {"idle", "ack", "loop", "complete", "panic"}
          /\ UNCHANGED <<pc8, reads8, offered8, status8, features8, page8, num8, pfn8, align8, zeroed8,
                         ptrs8, free8, idx8, b8, avail8, used8, seen8, failed8>>
      BY <1>1 DEF TakeExternal8, IsrAck8, IsrDone8, IsrComplete8, IsrPanic8, IsrLoop8, Isr8, regs8,
               given8, vars8, rw8, irq8, TypeOK8
    <2>2. QueueInv' /\ RequestInv' /\ DataInv'
      BY <2>1 DEF QueueInv, RequestInv, DataInv
    <2>3. TypeOK8'
      BY <2>1 DEF TypeOK8
    <2>4. QED
      BY <2>2, <2>3
  <1>2. CASE IsrLoop8 /\ ~failed8
    <2>1. /\ isr8' = "loop" /\ seen8' = seen8 + 1 /\ b8' = [b8 EXCEPT !.disk = 0]
          /\ UNCHANGED <<pc8, reads8, offered8, status8, features8, page8, num8, pfn8, align8, zeroed8,
                         ptrs8, free8, idx8, avail8, used8, failed8>>
      BY <1>2 DEF IsrLoop8, Isr8, regs8, given8
    <2>2. /\ seen8 \in Nat /\ used8 \in Nat /\ avail8 \in Nat /\ seen8 < used8 /\ used8 <= avail8
          /\ used8 > 0
      BY <1>2, Disk8Assumption DEF IsrLoop8, TypeOK8
    <2>3. QueueInv'
      BY <2>1 DEF QueueInv
    <2>4. DataInv' /\ b8'.disk = 0
      BY <1>2, <2>1, <2>2 DEF DataInv
    <2>5. RequestInv'
      <3>1. pc8 = "wait" /\ b8.disk = 1 /\ avail8 = seen8 + 1
        BY <2>2 DEF RequestInv
      <3>2. QED
        BY <2>1, <2>2, <2>4, <3>1 DEF RequestInv, Boot8
    <2>6. TypeOK8'
      BY <2>1, <2>2 DEF TypeOK8
    <2>7. QED
      BY <2>3, <2>4, <2>5, <2>6
  <1>3. QED
    BY <1>1, <1>2 DEF Isr8Step

LEMMA Disk8Step == Inv8 /\ [Next8]_vars8 => Inv8'
  <1> SUFFICES ASSUME Inv8, [Next8]_vars8 PROVE Inv8'
    OBVIOUS
  <1>1. CASE UNCHANGED vars8
    BY <1>1 DEF vars8, given8, regs8, rw8, irq8, Inv8, TypeOK8, QueueInv, RequestInv, DataInv
  <1>2. CASE Init8Step
    BY <1>2, Disk8Boot
  <1>3. CASE Rw8Step /\ vars8' # vars8
    BY <1>3, Disk8Reading
  <1>4. CASE DeviceServes
    BY <1>4, Disk8Serves
  <1>5. CASE Isr8Step
    BY <1>5, Disk8Isr
  <1>6. QED
    BY <1>1, <1>2, <1>3, <1>4, <1>5 DEF Next8

LEMMA BlockRead == Inv8 => BlockRead8
  <1> SUFFICES ASSUME Inv8, pc8 = "print" PROVE BlockRead8
    BY DEF BlockRead8
  <1>1. free8 = AllDescs8 /\ seen8 = avail8 /\ seen8 \in Nat /\ used8 = avail8 /\ seen8 > 0
    BY Disk8Assumption DEF Inv8, RequestInv, Reading8, TypeOK8
  <1>2. Cardinality(AllDescs8) = NUM8
    BY Disk8Assumption, FS_Interval DEF AllDescs8
  <1>3. QED
    BY <1>1, <1>2 DEF BlockRead8, Inv8, DataInv

THEOREM Disk8Types == Spec8 => []TypeOK8
  <1>1. Inv8 => TypeOK8
    BY DEF Inv8
  <1>2. QED BY <1>1, Disk8Init, Disk8Step, PTL DEF Spec8

\* Device and driver find the three parts of the queue in the same places, in cleared
\* memory of the driver's own, for every queue size that fits, page size and page.
THEOREM Disk8RingsAgree == Spec8 => []RingsAgree
  <1>1. QED BY Disk8Init, Disk8Step, Agreeing, PTL DEF Spec8

\* A read that comes back has brought the block, whatever has failed before or after
\* it, and has given its descriptors back: the invariant part of TesterReturns.
THEOREM Disk8BlockRead == Spec8 => []BlockRead8
  <1>1. QED BY Disk8Init, Disk8Step, BlockRead, PTL DEF Spec8

-----------------------------------------------------------------------------
(* Strings: 08-BlockDeviceDriver/string.c                                   *)

\* Memory after the bytes from lo up to hi of the destination have been written.
ByteAt(x) == IF src = FILL THEN FILL ELSE src + (x - dst)
Written(lo, hi) == [x \in Cells |-> IF lo <= x /\ x < hi THEN ByteAt(x) ELSE x]

ArgsOK ==
    /\ dst \in Cells /\ src \in Cells \cup {FILL} /\ cnt \in 0..Size
    /\ dst + cnt <= Size /\ src + cnt <= Size
    /\ n \in 0..cnt

\* The loops' invariants: upwards the first cnt - n bytes are written, downwards the
\* last cnt - n, and the next byte that is read has not been written.
CallInv == pcS = "call" => d = dst /\ sS = src /\ n = cnt /\ mem = Written(dst, dst)
SetInv ==
    pcS = "set" => src = FILL /\ sS = src /\ d = dst + (cnt - n) /\ mem = Written(dst, d)
UpInv ==
    pcS = "up" =>
        /\ src # FILL /\ ~Backward
        /\ d = dst + (cnt - n) /\ sS = src + (cnt - n) /\ mem = Written(dst, d)
DownInv ==
    pcS = "down" =>
        /\ src # FILL /\ Backward
        /\ d = dst + n /\ sS = src + n /\ mem = Written(d, dst + cnt)
DoneInv == pcS = "done" => d \in 0..Size /\ sS \in -1..Size /\ mem = Written(dst, dst + cnt)

StringsInv ==
    /\ pcS \in {"call", "set", "up", "down", "done"}
    /\ ArgsOK /\ CallInv /\ SetInv /\ UpInv /\ DownInv /\ DoneInv

\* One more byte at the upper end.
LEMMA WriteUp ==
    ASSUME ArgsOK, NEW lo \in Nat, NEW hi \in Cells, lo <= hi
    PROVE  [Written(lo, hi) EXCEPT ![hi] = ByteAt(hi)] = Written(lo, hi + 1)
  <1>1. ASSUME NEW x \in Cells
        PROVE  [Written(lo, hi) EXCEPT ![hi] = ByteAt(hi)][x] = Written(lo, hi + 1)[x]
    BY <1>1, SizeAssumption DEF Written, Cells
  <1>2. QED BY <1>1 DEF Written

\* One more byte at the lower end.
LEMMA WriteDown ==
    ASSUME ArgsOK, NEW lo \in Cells, NEW hi \in Nat, lo < hi
    PROVE  [Written(lo + 1, hi) EXCEPT ![lo] = ByteAt(lo)] = Written(lo, hi)
  <1>1. ASSUME NEW x \in Cells
        PROVE  [Written(lo + 1, hi) EXCEPT ![lo] = ByteAt(lo)][x] = Written(lo, hi)[x]
    BY <1>1, SizeAssumption DEF Written, Cells
  <1>2. QED BY <1>1 DEF Written

LEMMA StringsInit == ASSUME InitS PROVE StringsInv
  <1>1. ArgsOK BY SizeAssumption DEF InitS, ArgsOK, Cells, FILL
  <1>2. mem = Written(dst, dst)
    BY SizeAssumption DEF InitS, Written, Cells
  <1>3. QED BY <1>1, <1>2 DEF InitS, StringsInv, CallInv, SetInv, UpInv, DownInv, DoneInv

LEMMA StringsStep == ASSUME StringsInv, [NextS]_varsS PROVE StringsInv'
  <1> USE DEF StringsInv
  <1>0. /\ UNCHANGED args => /\ \A x : ByteAt(x)' = ByteAt(x)
                             /\ Backward' = Backward
        /\ UNCHANGED args => \A lo, hi : Written(lo, hi)' = Written(lo, hi)
    BY DEF args, ByteAt, Backward, Written
  <1>1. CASE Memset
    <2>1. ArgsOK' BY <1>1 DEF Memset, args, ArgsOK
    <2>2. SetInv'
      BY <1>0, <1>1, SizeAssumption
      DEF Memset, args, CallInv, SetInv, ArgsOK, Cells, Written
    <2>3. QED BY <1>1, <2>1, <2>2 DEF Memset, CallInv, UpInv, DownInv, DoneInv
  <1>2. CASE SetByte
    <2>1. /\ n > 0 /\ n' = n - 1 /\ d' = d + 1 /\ pcS = "set" /\ pcS' = "set"
          /\ UNCHANGED <<dst, src, cnt, sS>>
      BY <1>2 DEF SetByte, args
    <2>2. ArgsOK' BY <2>1, SizeAssumption DEF ArgsOK, Cells
    <2>3. d \in Cells /\ dst \in Nat /\ dst <= d /\ d + 1 = dst + (cnt - n')
      BY <2>1, SizeAssumption DEF ArgsOK, SetInv, Cells
    <2>4. mem' = Written(dst, d + 1)
      <3>1. mem' = [Written(dst, d) EXCEPT ![d] = ByteAt(d)]
        BY <1>2, <2>1 DEF SetByte, SetInv, ByteAt
      <3>2. QED BY <3>1, <2>3, WriteUp
    <2>5. SetInv' BY <2>1, <2>3, <2>4 DEF SetInv, Written, ByteAt
    <2>6. QED BY <2>1, <2>2, <2>5 DEF CallInv, UpInv, DownInv, DoneInv
  <1>3. CASE Memmove
    <2>1. UNCHANGED <<dst, src, cnt, n, mem>> BY <1>3 DEF Memmove, args
    <2>2. ArgsOK' BY <2>1 DEF ArgsOK
    <2>3. mem = Written(dst, dst) /\ d = dst /\ sS = src /\ n = cnt /\ src # FILL
      BY <1>3 DEF Memmove, CallInv
    <2>4. CASE Backward
      <3>1. pcS' = "down" /\ d' = dst + cnt /\ sS' = src + cnt
        BY <1>3, <2>4 DEF Memmove
      <3>2. mem' = Written(dst + cnt, dst + cnt)
        BY <2>1, <2>3, SizeAssumption DEF ArgsOK, Written, Cells
      <3>3. DownInv'
        BY <1>0, <2>1, <2>3, <2>4, <3>1, <3>2 DEF DownInv, args, Written, ByteAt, Backward
      <3>4. QED BY <2>2, <3>1, <3>3 DEF CallInv, SetInv, UpInv, DoneInv
    <2>5. CASE ~Backward
      <3>1. pcS' = "up" /\ d' = d /\ sS' = sS BY <1>3, <2>5 DEF Memmove
      <3>2. UpInv'
        BY <2>1, <2>3, <2>5, <3>1, SizeAssumption
        DEF UpInv, Written, ByteAt, Backward, ArgsOK, Cells
      <3>3. QED BY <2>2, <3>1, <3>2 DEF CallInv, SetInv, DownInv, DoneInv
    <2>6. QED BY <2>4, <2>5
  <1>4. CASE MoveDown
    <2>1. /\ n > 0 /\ n' = n - 1 /\ d' = d - 1 /\ sS' = sS - 1
          /\ pcS = "down" /\ pcS' = "down" /\ UNCHANGED <<dst, src, cnt>>
      BY <1>4 DEF MoveDown, args
    <2>2. ArgsOK' BY <2>1, SizeAssumption DEF ArgsOK, Cells
    <2>3. /\ d' \in Cells /\ sS' \in Cells /\ d = d' + 1 /\ d' = dst + n' /\ sS' = src + n'
          /\ sS' < d' /\ d' < dst + cnt /\ dst + cnt \in Nat /\ sS' = src + (d' - dst)
      BY <2>1, SizeAssumption DEF ArgsOK, DownInv, Backward, Cells, FILL
    <2>4. mem[sS'] = ByteAt(d')
      BY <2>1, <2>3, SizeAssumption DEF DownInv, Written, ByteAt, Cells
    <2>5. mem' = Written(d', dst + cnt)
      <3>1. mem' = [Written(d' + 1, dst + cnt) EXCEPT ![d'] = ByteAt(d')]
        BY <1>4, <2>1, <2>3, <2>4 DEF MoveDown, DownInv
      <3>2. QED BY <3>1, <2>3, WriteDown
    <2>6. DownInv'
      BY <2>1, <2>3, <2>5 DEF DownInv, Written, ByteAt, Backward
    <2>7. QED BY <2>1, <2>2, <2>6 DEF CallInv, SetInv, UpInv, DoneInv
  <1>5. CASE MoveUp
    <2>1. /\ n > 0 /\ n' = n - 1 /\ d' = d + 1 /\ sS' = sS + 1
          /\ pcS = "up" /\ pcS' = "up" /\ UNCHANGED <<dst, src, cnt>>
      BY <1>5 DEF MoveUp, args
    <2>2. ArgsOK' BY <2>1, SizeAssumption DEF ArgsOK, Cells
    <2>3. /\ d \in Cells /\ sS \in Cells /\ dst \in Nat /\ dst <= d
          /\ d + 1 = dst + (cnt - n') /\ sS + 1 = src + (cnt - n')
          /\ sS = src + (d - dst) /\ ~(dst <= sS /\ sS < d)
      BY <2>1, SizeAssumption DEF ArgsOK, UpInv, Backward, Cells, FILL
    <2>4. mem[sS] = ByteAt(d)
      BY <2>1, <2>3, SizeAssumption DEF UpInv, Written, ByteAt, Cells
    <2>5. mem' = Written(dst, d + 1)
      <3>1. mem' = [Written(dst, d) EXCEPT ![d] = ByteAt(d)]
        BY <1>5, <2>1, <2>4 DEF MoveUp, UpInv
      <3>2. QED BY <3>1, <2>3, WriteUp
    <2>6. UpInv'
      BY <2>1, <2>3, <2>5 DEF UpInv, Written, ByteAt, Backward
    <2>7. QED BY <2>1, <2>2, <2>6 DEF CallInv, SetInv, DownInv, DoneInv
  <1>6. CASE ReturnS
    <2>1. n = 0 /\ pcS' = "done" /\ UNCHANGED <<dst, src, cnt, d, sS, n, mem>>
      BY <1>6 DEF ReturnS, args
    <2>2. ArgsOK' BY <2>1 DEF ArgsOK
    <2>3. /\ d \in 0..Size /\ sS \in -1..Size
          /\ mem = Written(dst, dst + cnt)
      BY <1>6, <2>1, SizeAssumption
      DEF ReturnS, ArgsOK, SetInv, UpInv, DownInv, Cells, FILL, Backward
    <2>4. DoneInv' BY <2>1, <2>3 DEF DoneInv, Written, ByteAt
    <2>5. QED BY <2>1, <2>2, <2>4 DEF CallInv, SetInv, UpInv, DownInv
  <1>7. CASE UNCHANGED varsS
    BY <1>7
    DEF varsS, args, ArgsOK, CallInv, SetInv, UpInv, DownInv, DoneInv, Backward, Written, ByteAt
  <1>8. QED BY <1>1, <1>2, <1>3, <1>4, <1>5, <1>6, <1>7 DEF NextS, DoneS

LEMMA StringsTypes == ASSUME StringsInv PROVE TypeOKS
  <1>1. mem \in [Cells -> Cells \cup {FILL}]
    <2>1. ASSUME NEW lo, NEW hi, mem = Written(lo, hi),
                 \A x \in Cells : lo <= x /\ x < hi => ByteAt(x) \in Cells \cup {FILL}
          PROVE  mem \in [Cells -> Cells \cup {FILL}]
      BY <2>1 DEF Written
    <2>2. \A x \in Cells : dst <= x /\ x < dst + cnt => ByteAt(x) \in Cells \cup {FILL}
      BY SizeAssumption DEF StringsInv, ArgsOK, ByteAt, Cells, FILL
    <2>3. n \in 0..cnt /\ cnt \in Nat /\ dst \in Nat
      BY SizeAssumption DEF StringsInv, ArgsOK, Cells
    <2>4. CASE pcS = "call" BY <2>4, <2>1, <2>2, <2>3 DEF StringsInv, CallInv, Cells
    <2>5. CASE pcS = "set" BY <2>5, <2>1, <2>2, <2>3 DEF StringsInv, SetInv, Cells
    <2>6. CASE pcS = "up" BY <2>6, <2>1, <2>2, <2>3 DEF StringsInv, UpInv, Cells
    <2>7. CASE pcS = "down" BY <2>7, <2>1, <2>2, <2>3 DEF StringsInv, DownInv, Cells
    <2>8. CASE pcS = "done" BY <2>8, <2>1, <2>2, <2>3 DEF StringsInv, DoneInv, Cells
    <2>9. QED BY <2>4, <2>5, <2>6, <2>7, <2>8 DEF StringsInv
  <1>2. d \in 0..Size /\ sS \in -1..Size /\ n \in 0..Size
    BY SizeAssumption
    DEF StringsInv, ArgsOK, CallInv, SetInv, UpInv, DownInv, DoneInv, Cells, FILL
  <1>3. QED BY <1>1, <1>2 DEF StringsInv, ArgsOK, TypeOKS

LEMMA StringsKeeps == ASSUME StringsInv PROVE MoveKeepsBytes
  <1>1. dst \in Int /\ cnt \in Int /\ Cells \subseteq Int
    BY SizeAssumption DEF StringsInv, ArgsOK, Cells
  <1>2. \A x \in Cells : (x \notin dst..(dst + cnt - 1)) = ~(dst <= x /\ x < dst + cnt)
    BY <1>1
  <1>3. QED BY <1>2 DEF StringsInv, DoneInv, Written, ByteAt, MoveKeepsBytes

\* string.c keeps its variables in range: no byte outside the two areas is touched.
THEOREM StringsTyped == SpecS => []TypeOKS
  <1>1. SpecS => []StringsInv
    BY StringsInit, StringsStep, PTL DEF SpecS
  <1>2. QED BY <1>1, StringsTypes, PTL

\* memset and memmove do what they promise, for every size of memory and every
\* overlap of source and destination.
THEOREM StringsCorrect == SpecS => []MoveKeepsBytes
  <1>1. SpecS => []StringsInv
    BY StringsInit, StringsStep, PTL DEF SpecS
  <1>2. QED BY <1>1, StringsKeeps, PTL
=============================================================================
