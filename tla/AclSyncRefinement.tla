-------------------------- MODULE AclSyncRefinement --------------------------
(* AclSync implements AclTable: the pointer swap, the grace period and the *)
(* reuse of context addresses are invisible to the packets.                *)
EXTENDS AclSync

CONSTANT Idle

ASSUME IdleAssumption == Idle \notin RuleSets

\* A worker matches a frame from the load of the pointer it passes to
\* rte_acl_classify until the call returns.
Matching(w) ==
  /\ wctx[w] # NULL
  /\ wpc[w] = "classify" \/ (LoadsOnce /\ wpc[w] = "checked")

table == RulesOf(v46_context)
frame == [w \in Workers |-> IF Matching(w) THEN content[wctx[w]] ELSE Idle]

A == INSTANCE AclTable WITH Worker <- Workers, RuleSet <- RuleSets,
                            Empty <- NoRules

\* Workers see tables as if each sync replaced the table in one step and no
\* table were ever changed or freed while a frame is matched against it.
AtomicTable == A!Spec
=============================================================================
