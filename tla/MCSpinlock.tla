------------------------------ MODULE MCSpinlock ----------------------------
(* TLC instance of Spinlock: one task without the lock and the two with it. *)
EXTENDS Spinlock
MCPlain6 == {0}
=============================================================================
