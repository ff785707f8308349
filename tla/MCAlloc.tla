------------------------------ MODULE MCAlloc -------------------------------
(* A pool of six pages behind an unaligned end of .bss.                    *)
EXTENDS Alloc
=============================================================================
