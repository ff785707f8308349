------------------------------ MODULE MCKernel ------------------------------
(* TLC instance of Kernel.                                                  *)
EXTENDS Kernel
=============================================================================
