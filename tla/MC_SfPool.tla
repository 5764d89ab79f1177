----------------------------- MODULE MC_SfPool -------------------------------
(* Small instances of SfPool.                                              *)
EXTENDS SfPool
=============================================================================
