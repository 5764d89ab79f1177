----------------------------- MODULE MC_AclSync -----------------------------
(* AclSync for TLC: a few workers, rule slots and context addresses.       *)
EXTENDS AclSyncRefinement

CONSTANTS c1, c2

MCCtx == {c1, c2}
=============================================================================
