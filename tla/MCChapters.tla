----------------------------- MODULE MCChapters -----------------------------
(***************************************************************************)
(* TLC instance of the modules of chapters 02 to 09.  Each of them is a    *)
(* program (or a part of one) of its own: Init picks the one that runs,    *)
(* the variables of the others keep one initial state.                     *)
(***************************************************************************)
EXTENDS Coop, Timer, Preempt, Spinlock, Printf, Console, AllocLoop, Disk8, Strings

MCPlain6 == {0}
MCInts == {-128, -3, 10}
MCText == <<98, 99>>
MCOffered8 == {RO, EVENT_IDX, INDIRECT, "VIRTIO_BLK_F_FLUSH"}

VARIABLE program

varsAll == <<program, vars3, vars4, vars5, vars6, varsF, vars7, vars8, vars9, varsS>>

\* One initial state for a program that does not run.
Pinned(p, state) == program = p \/ state

Init ==
    /\ program \in {"coop", "timer", "preempt", "spinlock", "printf", "console", "disk",
                    "alloc", "strings"}
    /\ Pinned("coop", chapter3 = 3) /\ Init3
    /\ Init4 /\ Init5 /\ Init6
    /\ Pinned("printf", callF = <<[fmt |-> <<"a">>, args |-> <<>>],
                                  [fmt |-> <<"a">>, args |-> <<>>]>>) /\ InitF
    /\ Pinned("console", typed = <<>>) /\ Init7
    /\ Pinned("disk", there8 = FALSE /\ max8 = 0 /\ offered8 = {}) /\ Init8
    /\ Pinned("alloc", flags9 = [i \in Descs9 |-> {}]) /\ Init9
    /\ Pinned("strings", dst = 0 /\ src = 0 /\ cnt = 0) /\ InitS

Next ==
    /\ UNCHANGED program
    /\ \/ /\ program = "coop" /\ Next3
          /\ UNCHANGED <<vars4, vars5, vars6, varsF, vars7, vars8, vars9, varsS>>
       \/ /\ program = "timer" /\ Next4
          /\ UNCHANGED <<vars3, vars5, vars6, varsF, vars7, vars8, vars9, varsS>>
       \/ /\ program = "preempt" /\ Next5
          /\ UNCHANGED <<vars3, vars4, vars6, varsF, vars7, vars8, vars9, varsS>>
       \/ /\ program = "spinlock" /\ Next6
          /\ UNCHANGED <<vars3, vars4, vars5, varsF, vars7, vars8, vars9, varsS>>
       \/ /\ program = "printf" /\ NextF
          /\ UNCHANGED <<vars3, vars4, vars5, vars6, vars7, vars8, vars9, varsS>>
       \/ /\ program = "console" /\ Next7
          /\ UNCHANGED <<vars3, vars4, vars5, vars6, varsF, vars8, vars9, varsS>>
       \/ /\ program = "disk" /\ Next8
          /\ UNCHANGED <<vars3, vars4, vars5, vars6, varsF, vars7, vars9, varsS>>
       \/ /\ program = "alloc" /\ Next9
          /\ UNCHANGED <<vars3, vars4, vars5, vars6, varsF, vars7, vars8, varsS>>
       \/ /\ program = "strings" /\ NextS
          /\ UNCHANGED <<vars3, vars4, vars5, vars6, varsF, vars7, vars8, vars9>>

\* Each program under the fairness of its own specification.
Fairness ==
    /\ WF_vars6(program = "spinlock" /\ Next6)
    /\ WF_vars6(program = "spinlock" /\ TimerInterrupt6)
    /\ WF_vars7(program = "console" /\ Hart7Step)
    /\ SF_vars7(program = "console" /\ TakeExternal7)
    /\ WF_vars7(program = "console" /\ Arrive) /\ WF_vars7(program = "console" /\ Transmit)
    /\ WF_vars8(program = "disk" /\ (Init8Step \/ Rw8Step \/ Isr8Step))
    /\ WF_vars8(program = "disk" /\ DeviceServes)

Spec == Init /\ [][Next]_varsAll /\ Fairness

\* Every variable of every program keeps its type: in particular no index leaves its
\* table, no pointer its buffer, and control no function for a place it cannot be at.
TypeOK ==
    /\ program = "coop" => TypeOK3
    /\ program = "timer" => TypeOK4
    /\ program = "preempt" => TypeOK5
    /\ program = "spinlock" => TypeOK6
    /\ program = "printf" => TypeOKF
    /\ program = "console" => TypeOK7
    /\ program = "disk" => TypeOK8
    /\ program = "alloc" => TypeOK9
    /\ program = "strings" => TypeOKS
=============================================================================
