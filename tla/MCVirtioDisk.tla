---------------------------- MODULE MCVirtioDisk ----------------------------
(* Two harts on a ring of three descriptors whose indexes wrap at six.     *)
EXTENDS VirtioDisk
=============================================================================
