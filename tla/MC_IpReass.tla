----------------------------- MODULE MC_IpReass ------------------------------
(* Fragments offered to IpReass: a datagram "a" of two fragments, the last *)
(* of them sent twice; "b", of more fragments than the cache takes, which  *)
(* is too long for a huge packet buffer with its last fragment, and whose  *)
(* other two have lengths that add up to 2^16 and so to 0, which total_len *)
(* is without a last fragment; and "c", of which only the last fragment    *)
(* arrives.                                                                *)
EXTENDS IpReass

MCPkt == {"a1", "a2", "a2x", "b1", "b2", "b3", "c2"}
MCKey == [p \in MCPkt |-> CASE p \in {"a1", "a2", "a2x"} -> "a"
                            [] p \in {"b1", "b2", "b3"} -> "b"
                            [] OTHER -> "c"]
MCOff == [p \in MCPkt |-> CASE p \in {"a1", "b1"} -> 0
                            [] p \in {"a2", "a2x"} -> 1
                            [] p = "b3" -> 3
                            [] OTHER -> 4]
MCSize == [p \in MCPkt |-> IF p \in {"b1", "b2"} THEN 4 ELSE 1]
MCLast == [p \in MCPkt |-> p \in {"a2", "a2x", "b3", "c2"}]
MCDeep == {"c2"}
MCBucket == [k \in {"a", "b", "c"} |-> IF k = "b" THEN 0 ELSE 1]
MCWorker == [k \in {"a", "b", "c"} |-> IF k = "c" THEN 0 ELSE 1]
=============================================================================
