----------------------------- MODULE MC_PktDecode ----------------------------
(* The packets PktDecode is checked on.  Every packet is taken with every   *)
(* length at which a header ends, one byte less, and with some payload.     *)
EXTENDS PktDecode

CONSTANTS MaxTags, HdrLens, Shuffle

Shape == [tags : 0..MaxTags, l3 : {"ipv4", "ipv6", "other"}, hlen : HdrLens,
          ext : {<<>>}, frag : BOOLEAN, proto : {"tcp", "udp", "none", IP_PRO_INVALID},
          l4len : {8, 20}]
Opt == [k |-> "opt", len |-> 12, frag |-> FALSE]
Frag(more) == [k |-> "frag", len |-> IPV6_FRAG_HEADER_LEN, frag |-> more]
Exts == {<<>>, <<Opt>>, <<Frag(FALSE)>>, <<Opt, Frag(TRUE)>>, <<Frag(TRUE), Opt>>}

V4 == {s \in Shape : s.l3 = "ipv4" /\ (s.l4len = 8) = (s.proto = "udp")}
V6 == {[s EXCEPT !.ext = e] : e \in Exts,
         s \in {t \in Shape : /\ t.l3 = "ipv6" /\ ~t.frag /\ t.hlen = 20
                              /\ (t.l4len = 8) = (t.proto = "udp")}}
Other == {s \in Shape : /\ s.l3 = "other" /\ s.proto = "none" /\ ~s.frag
                        /\ s.hlen = 20 /\ s.l4len = 20}

\* As many tags as wrap the 8 bits they are counted in, and one more
Long == {[s EXCEPT !.tags = t] :
           t \in {U8, U8 + 1},
           s \in {u \in V4 \cup V6 : /\ u.tags = 0 /\ u.ext = <<>> /\ u.hlen = 20
                                    /\ ~u.frag /\ u.proto = "tcp"}}

\* total is what the IP header declares: the truth, or 0
WithLen(s, l, t) == [tags |-> s.tags, l3 |-> s.l3, hlen |-> s.hlen,
  ext |-> s.ext, frag |-> s.frag, proto |-> s.proto, l4len |-> s.l4len,
  len |-> l,
  total |-> IF t /\ l >= IpStart(s) - L2Offset THEN l + L2Offset - IpStart(s)
                                               ELSE 0]
Cuts(s) == {IpStart(s) - L2Offset, IpStart(s) - L2Offset + 1}
           \cup UNION {{HdrEnd(s, i) - 1, HdrEnd(s, i)} : i \in 1..Len(Hdr(s))}
           \cup {HdrEnd(s, Len(Hdr(s))) + 9, ETH_HEADER_LEN + 3}
Packets == UNION {{WithLen(s, l, t) : l \in {c \in Cuts(s) : c >= ETH_HEADER_LEN},
                                      t \in BOOLEAN} : s \in V4 \cup V6 \cup Other \cup Long}
Partner == {WithLen([tags |-> 1, l3 |-> v, hlen |-> 20, ext |-> <<>>, frag |-> FALSE,
                     proto |-> pr, l4len |-> 20], 90, TRUE) :
              v \in {"ipv4", "ipv6"}, pr \in {"tcp"}}

\* p and q in such an order that both loops meet both, and pairs mix them
MCFrames == {[i \in 1..FrameSize |-> IF i \in Shuffle THEN q ELSE p] :
               p \in Packets, q \in Partner}
=============================================================================
