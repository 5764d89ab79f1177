----------------------------- MODULE MC_SfTimer ------------------------------
(* Small instances of SfTimer.                                             *)
EXTENDS SfTimer
=============================================================================
