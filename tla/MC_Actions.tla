----------------------------- MODULE MC_Actions -----------------------------
(* The actions, requests and packets Actions is checked on.                 *)
EXTENDS Actions

P(w, n, arg) == [id |-> <<w, n>>, arg |-> arg, in |-> w, flow |-> <<n, w>>,
                 tag |-> n = 1, len |-> 60]
Same(w, k, arg) == [n \in 1..k |-> P(w, n, arg)]
Idle2(f) == <<f, <<>>>>

Gre(v) == [switch |-> 1, dmac |-> TRUE, dip |-> v]
Vxlan(v) == Extend(Gre(v), [dport |-> 4789, vni |-> 70000, dscp |-> 9])
Erspan3(v, t) == Extend(Gre(v), [type |-> t, session |-> 5])
Forward(i) == [type |-> "forward", interfaces |-> <<i>>]
Lb(mode, is) == [type |-> "load_balance", interfaces |-> is, load_balance_mode |-> mode]
Wrr(is, ws) == Extend(Lb("wrr", is), [load_balance_weight |-> ws])
Basis(b) == [basis |-> b]
With(b, d) == [basis |-> b, additional |-> d]

\* fields that memcpy stores at once
MCPieces == {{"ref", "type"}, {"fwd", "num", "arr", "switch", "addi"},
             {"mode", "cw", "gcd", "mw", "index", "weight"}}

\* interfaces with an address of their own
MCAddressed == {<<1, 4>>, <<2, 6>>}

\* tunnels of action 1; action 2 does not exist
Tunnels == {With(Forward(1), [gre |-> Gre(4), vxlan |-> Vxlan(6), erspan |-> Erspan3(4, 2)]),
            With(Forward(1), [gre |-> Gre(6), vxlan |-> Vxlan(6), erspan |-> Erspan3(6, 3)]),
            With(Forward(2), [vxlan |-> Vxlan(4), erspan |-> Erspan3(4, 1)]),
            With(Lb("outer_src_ip", <<3, 1>>), [gre |-> Gre(6)])}

Item(i, d) == [id |-> i, data |-> d]
Put(s) == [method |-> "put", todo |-> s]
Post(s) == [method |-> "post", todo |-> s]
Patch(i, ops) == [method |-> "patch", id |-> i, ops |-> ops]
Delete(i) == [method |-> "delete", id |-> i]
Flips == {[method |-> "flip", id |-> i] : i \in {1, 3}}

NewWeights == Put(<<Item(1, Basis(Wrr(<<3, 1>>, <<4, 2>>)))>>)
NewForward == Put(<<Item(1, Basis(Forward(2)))>>)
NewTunnels == {Patch(1, <<[additional |-> [gre |-> Gre(6)]], [additional |-> [vxlan |-> Vxlan(4)]]>>),
               Patch(1, <<[basis |-> [interfaces |-> <<2>>]]>>), Delete(1)}
\* weights an int cuts to 0 or less: behind another, in front of one, and to INT_MIN
Cut == {Put(<<Item(1, Basis(Wrr(<<3, 1>>, ws)))>>) :
          ws \in {<<2, INT_RANGE>>, <<INT_RANGE, 2>>, <<INT_RANGE \div 2, 1>>,
                 <<INT_RANGE \div 2, INT_RANGE - 1>>}}
Refuse == {Put(<<Item(3, Basis(Forward(1))), Item(1, Basis(Forward(2)))>>),
           Put(<<Item(1, Basis(Lb("inner_src_ip", <<1>>))), Item(2, Basis(Forward(1)))>>),
           Post(<<Item(1, Basis(Forward(2))), Item(2, With(Forward(2), [gre |-> Extend(Gre(4), [dscp |-> 64])]))>>),
           Post(<<Item(2, Basis(Lb("outer_dst_ip", <<2, 1>>)))>>),
           Post(<<Item(2, Basis(Lb("outer_dst_ip", <<2, 1, 2, 1, 2>>)))>>),
           Post(<<Item(2, Basis(Wrr(<<2, 1>>, <<1>>)))>>),
           Patch(2, <<>>), Delete(3)}

Scene(d, f, l, e) == [conf |-> <<d, <<>>>>, frames |-> f, link |-> l, events |-> e]
UpUp == <<TRUE, TRUE, TRUE>>
UpDown == <<TRUE, TRUE, FALSE>>
DownDown == <<FALSE, TRUE, FALSE>>
\* one worker with a whole frame, or both with one packet
Whole == Idle2(Same(1, 5, 1))
Both == <<Same(1, 1, 1), Same(2, 1, 1)>>
Ids4 == Idle2(<<P(1, 1, 0), P(1, 2, 1), P(1, 3, 2), P(1, 4, 3)>>)
Wrr12 == Basis(Wrr(<<1, 3>>, <<1, 2>>))
Rr == Basis(Lb("round_robin", <<3, 1>>))
Hash(m) == Basis(Lb(m, <<1, 3>>))
MCScenarios == {Scene(d, Whole, UpDown, NewTunnels) : d \in Tunnels}
  \cup {Scene(d, Both, UpUp, {}) : d \in Tunnels}
  \cup {Scene(Wrr12, Both, UpUp, {NewWeights, Delete(1)}), Scene(Wrr12, Both, UpDown, Flips)}
  \cup {Scene(Rr, Both, UpDown, {NewWeights} \cup Flips)}
  \cup {Scene(Hash("outer_src_dst_ip"), Both, UpDown, {NewForward} \cup Flips),
        Scene(Hash("outer_src_dst_ip"), Both, DownDown, Flips),
        Scene(Hash("outer_dst_ip"), Whole, UpDown, {})}
  \cup {Scene(Wrr12, Idle2(Same(1, 1, 1)), UpUp, Cut)}
  \cup {Scene(d, Idle2(Same(1, 4, 1)), l, {}) : d \in {Wrr12, Rr}, l \in {UpUp, UpDown, DownDown}}
  \cup {Scene(Basis([type |-> "drop"]), Ids4, UpUp, Refuse)}
=============================================================================
