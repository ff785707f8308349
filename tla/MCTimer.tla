------------------------------- MODULE MCTimer ------------------------------
(* TLC instance of Timer in which the low word of mtime wraps.             *)
EXTENDS Timer
=============================================================================
