----------------------------- MODULE MC_AclRules -----------------------------
(* Contents of rules for TLC: three tuple4 rules, two of them in one bucket *)
(* of the hash table, and a tuple6 rule.                                    *)
EXTENDS AclRules, TLC

CONSTANTS cfgA, cfgB, cfgC, cfgD, tuple4, tuple6

MCFamilyOf == (cfgA :> tuple4) @@ (cfgB :> tuple4) @@ (cfgC :> tuple4)
                @@ (cfgD :> tuple6)
MCBucketOf == (cfgA :> 1) @@ (cfgB :> 1) @@ (cfgC :> 2) @@ (cfgD :> 1)
==============================================================================
