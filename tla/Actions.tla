------------------------------- MODULE Actions -------------------------------
(* What is done with a packet once a rule or an interface gave it an action *)
(* id: sf_action_main reads the action in shared memory and lists the nodes *)
(* to visit, the encapsulation nodes put their headers in front, and the    *)
(* packet leaves by the interface of the action or by one that              *)
(* node_load_balance_interfaces picks.  restd writes the actions while      *)
(* workers use them: nothing is locked, so the pick of an interface, the    *)
(* sequence number of ERSPAN and the writes of restd are modelled load by   *)
(* load and store by store.                                                 *)
(*                                                                          *)
(* The body of a REST request is a sequence of [id, data]; data is the JSON *)
(* object, a record with the keys it has.  An interface name that is not    *)
(* known is 0, a weight that is no positive number is 0, and a key whose    *)
(* value does not parse has a value out of its range.                       *)
EXTENDS Integers, Sequences, FiniteSets, SequencesExt, FiniteSetsExt

CONSTANTS
  Workers,
  Interfaces,               \* 1..n
  MAX_INTERFACE_CNT,
  MAX_ACTION_NUM,
  MAX_LOAD_BALANCE_NODE,
  Scenarios,                \* what is there at first: the actions (JSON data, <<>> for none)
                            \* in conf, and in frames what sf_action_main is given, a
                            \* sequence of packets with ids <<worker, number>> per worker;
                            \* in link the interfaces that are up; one of its events may
                            \* happen, a request to restd or the change of a link
  Addressed,                \* <<interface, 4 or 6>> with an address of its own
  INT_RANGE,                \* how many values a C int has
  Pieces                    \* sets of fields of sf_action_t: what memcpy and memset store
                            \* at once, in an order that nothing says

VARIABLES
  act,        \* action_config->actions
  link,       \* an interface is up: admin_status and intf_link
  realnum, realarr,   \* interface_num_real_load_balance, interface_array_real_load_balance
  gre_option, \* sf_gre_option_template
  pend,       \* frames that wait for a node of a worker; the first one runs
  run,        \* the local variables of a worker in a node
  rest,       \* the request restd works on
  ver,        \* one more than how often restd stored into an action
  ever,       \* interfaces an id was ever configured with
  share,      \* how often each interface of an action was picked by wrr
  done,       \* packets at sf_pkt_output and sf_pkt_drop
  events

vars == <<act, link, realnum, realarr, gre_option, pend, run, rest, ver, ever,
          share, done, events>>

Ids == 1..MAX_ACTION_NUM
INVALID_INTERFACE_ID == 0
PRE_DATA_SIZE == 128
Encaps == <<"erspan", "vxlan", "gre">>
Slots == 1..MAX_INTERFACE_CNT
Out == "sf_pkt_output"
Drop == "sf_pkt_drop"
Wild == "wild"          \* a next node read from bytes that are no node number
FinalNodes == {Out, Drop, Wild}
Balance == "node_load_balance_interfaces"
is_valid_action_id(i) == i \in Ids
SumOf(f, S) == FoldSet(LAMBDA i, a : a + f[i], 0, S)
INT_MIN == -(INT_RANGE \div 2)
C_INT == INT_MIN..(INT_RANGE \div 2 - 1)
\* what is left of a number in a C int
c_int(v) == ((v - INT_MIN) % INT_RANGE) + INT_MIN

\* an action that is all zero, as memset leaves it
NoEncap == [dip |-> 0, dscp |-> 0, vni |-> <<0, 0, 0, 0>>, dport |-> <<0, 0>>,
            type |-> 0, session |-> 0]
Zero == [ref |-> 0, type |-> "", fwd |-> 0, num |-> 0,
         arr |-> [i \in Slots |-> 0], switch |-> {},
         addi |-> [e \in Range(Encaps) |-> NoEncap],
         mode |-> "", cw |-> 0, gcd |-> 0, mw |-> 0, index |-> 0,
         weight |-> [i \in Slots |-> 0]]
Fields == {"ref", "type", "fwd", "num", "arr", "switch", "addi", "mode", "cw", "gcd", "mw",
           "index", "weight"}

----------------------------------------------------------------------------
(* From a request to sf_action_t and back.                                  *)

Bad == [st |-> "bad", a |-> Zero]
Raise == [st |-> "raise", a |-> Zero]
Good(a) == [st |-> "ok", a |-> a]
Has(d, k) == k \in DOMAIN d
\* the array the elements of s are put into one after another
Array(s) == [i \in Slots |-> IF i <= Len(s) THEN s[i] ELSE 0]

vni_bytes(v) == <<(v \div 65536) % 256, (v \div 256) % 256, v % 256, 0>>
port_bytes(v) == <<(v \div 256) % 256, v % 256>>
set_additional_vxlan_vni(c, v) == [c EXCEPT !.vni = vni_bytes(v)]
get_additional_vxlan_vni(c) == c.vni[1] * 65536 + c.vni[2] * 256 + c.vni[3]
set_additional_vxlan_dport(c, v) == [c EXCEPT !.dport = port_bytes(v)]
get_additional_vxlan_dport(c) == c.dport[1] * 256 + c.dport[2]

\* the keys an encapsulation may have, and those it must have
Known == [gre |-> {"switch", "dmac", "dip", "dscp"},
          vxlan |-> {"switch", "dmac", "dip", "dscp", "dport", "vni"},
          erspan |-> {"switch", "dmac", "dip", "dscp", "type", "session"}]
Must == [gre |-> {"dip", "dmac"}, vxlan |-> {"dip", "dmac", "dport"},
         erspan |-> {"dip", "dmac"}]
Default == [dscp |-> 0, vni |-> 0, type |-> 1, session |-> 0]
InRange(k, v) ==
  /\ k = "dip" => v \in {4, 6}
  /\ k = "dmac" => v = TRUE
  /\ k = "dscp" => v \in 0..63
  /\ k = "vni" => v \in Nat /\ v < 16777216
  /\ k = "dport" => v \in Nat /\ v < 65536
  /\ k = "session" => v \in 0..1023
  /\ k = "type" => v \in 1..3
Value(c, k) == IF Has(c, k) THEN c[k] ELSE Default[k]

\* the fields of an encapsulation that is on
SetEncap(e, c) ==
  LET b == [NoEncap EXCEPT !.dip = c.dip, !.dscp = Value(c, "dscp") * 4]
  IN IF e = "vxlan" THEN set_additional_vxlan_dport(
                           set_additional_vxlan_vni(b, Value(c, "vni")), c.dport)
     ELSE IF e = "erspan" THEN [b EXCEPT !.session = Value(c, "session"),
                                         !.type = Value(c, "type")]
     ELSE b

Refused(e, c) ==
  \/ e \notin Range(Encaps)
  \/ ~Has(c, "switch")
  \/ /\ c.switch = 1
     /\ \/ ~(DOMAIN c \subseteq Known[e])
        \/ ~(Must[e] \subseteq DOMAIN c)
        \/ \E k \in DOMAIN c : ~InRange(k, c[k])

\* an encapsulation with switch 0 is passed over and stays off
trans_action_content_addi_actions(a, d) ==
  LET on == {e \in DOMAIN d : d[e].switch = 1}
  IN IF \E e \in DOMAIN d : Refused(e, d[e]) THEN Bad
     ELSE Good([a EXCEPT !.switch = on,
                         !.addi = [e \in Range(Encaps) |-> IF e \in on THEN SetEncap(e, d[e])
                                                           ELSE NoEncap]])

HashModes == {"outer_src_dst_ip", "outer_src_ip", "outer_dst_ip"}
Modes == {"round_robin", "wrr"} \cup HashModes
\* modes the request may name but the data plane has no number for
InnerModes == {"inner_src_dst_ip", "inner_src_ip", "inner_dst_ip"}

\* the weights are checked as numbers of Python and stored as C ints
trans_action_content_basic_load_balance(a, cnt, mode, weight) ==
  IF mode \notin Modes \cup InnerModes THEN Bad
  ELSE IF mode \in InnerModes THEN Raise
  ELSE IF mode # "wrr" THEN IF weight # <<>> THEN Bad ELSE Good([a EXCEPT !.mode = mode])
  ELSE IF weight = <<>> \/ Len(weight) # cnt \/ \E w \in Range(weight) : w <= 0 THEN Bad
  ELSE IF cnt > MAX_LOAD_BALANCE_NODE THEN Raise
  ELSE Good([a EXCEPT !.mode = mode,
                      !.weight = Array([k \in DOMAIN weight |-> c_int(weight[k])])])

Weight(d) == IF Has(d, "load_balance_weight") THEN d.load_balance_weight ELSE <<>>
Mode(d) == IF Has(d, "load_balance_mode") THEN d.load_balance_mode ELSE ""
Names(d) == IF Has(d, "interfaces") THEN d.interfaces ELSE <<>>

\* the elements of an array of the struct; one past it is an IndexError
Fits(n) == n <= MAX_INTERFACE_CNT

trans_action_content_basic_actions(d) ==
  IF ~Has(d, "type") \/ d.type \notin {"drop", "forward", "load_balance"} THEN Bad
  ELSE IF d.type # "load_balance" /\ (Weight(d) # <<>> \/ Mode(d) # "") THEN Bad
  ELSE IF d.type = "drop"
       THEN IF Names(d) # <<>> THEN Bad ELSE Good([Zero EXCEPT !.type = "drop"])
  ELSE IF Names(d) = <<>> \/ 0 \in Range(Names(d)) THEN Bad
  ELSE IF d.type = "forward"
       THEN IF Len(Names(d)) # 1 THEN Bad
            ELSE Good([Zero EXCEPT !.type = d.type, !.fwd = Names(d)[1]])
  ELSE IF Mode(d) = "" THEN Bad
  ELSE LET r == trans_action_content_basic_load_balance([Zero EXCEPT !.type = d.type],
                  Len(Names(d)), Mode(d), Weight(d))
       IN IF r.st # "ok" THEN r
          ELSE IF ~Fits(Len(Names(d))) THEN Raise
          ELSE Good([r.a EXCEPT !.arr = Array(Names(d)), !.num = Len(Names(d))])

trans_dict_to_action_struct(d) ==
  IF ~(DOMAIN d \subseteq {"basis", "additional"}) \/ ~Has(d, "basis") THEN Bad
  ELSE LET r == trans_action_content_basic_actions(d.basis)
       IN IF r.st # "ok" \/ ~Has(d, "additional") THEN r
          ELSE trans_action_content_addi_actions(r.a, d.additional)

\* r with the fields of s added to it
Extend(r, s) == [k \in DOMAIN r \cup DOMAIN s |-> IF k \in DOMAIN s THEN s[k] ELSE r[k]]

format_action_basic_action(a) ==
  IF a.type = "forward" THEN [type |-> a.type, interfaces |-> <<a.fwd>>]
  ELSE IF a.type = "load_balance" THEN
         Extend([type |-> a.type, interfaces |-> SubSeq(a.arr, 1, a.num),
                 load_balance_mode |-> a.mode],
                IF a.mode = "wrr"
                THEN [load_balance_weight |-> SubSeq(a.weight, 1, a.num)] ELSE <<>>)
  ELSE [type |-> a.type]

FormatEncap(e, c) ==
  LET common == [switch |-> 1, dmac |-> TRUE, dip |-> c.dip, dscp |-> c.dscp \div 4]
  IN IF e = "vxlan" THEN Extend(common, [vni |-> get_additional_vxlan_vni(c),
                                         dport |-> get_additional_vxlan_dport(c)])
     ELSE IF e = "erspan" THEN Extend(common, [session |-> c.session, type |-> c.type])
     ELSE common
format_action_addi_action(a) == [e \in a.switch |-> FormatEncap(e, a.addi[e])]

get_single_action_content(a) ==
  LET b == [basis |-> format_action_basic_action(a)]
  IN IF a.switch = {} THEN b ELSE Extend(b, [additional |-> format_action_addi_action(a)])

\* a dict into a dict: keys of both are merged down to the values
MergeFlat(s, p) == Extend(s, p)
MergeDeep(s, p) == [k \in DOMAIN s \cup DOMAIN p |->
  IF k \in DOMAIN s \cap DOMAIN p THEN MergeFlat(s[k], p[k])
  ELSE IF k \in DOMAIN p THEN p[k] ELSE s[k]]
action_dict_merge_update(s, p) == [k \in DOMAIN s \cup DOMAIN p |->
  IF k \in DOMAIN s \cap DOMAIN p
  THEN IF k = "additional" THEN MergeDeep(s[k], p[k]) ELSE MergeFlat(s[k], p[k])
  ELSE IF k \in DOMAIN p THEN p[k] ELSE s[k]]

----------------------------------------------------------------------------
(* The greatest common divisor and the largest of the weights.              *)
\* Euclid's algorithm for numbers up to b
Euclid(b) ==
  LET G[y \in 0..b] == [x \in 0..b |-> IF y = 0 THEN x ELSE G[x % y][y]]
  IN G
calc_gcd(a, b) == Euclid(b)[a % b][b]
\* the divisor of the first i weights
Divisors(w, n) ==
  LET G[i \in 1..n] == IF i = 1 THEN w[1] ELSE calc_gcd(w[i], G[i-1])
  IN G
weight_calc_max(w, n) == [gcd |-> Divisors(w, n)[n], mw |-> Max({w[i] : i \in 1..n})]

\* Weights of which a C int kept nothing above 0: the remainders of C give their greatest
\* common divisor, with a sign that is not followed here.
CutWeights(a) == a.mode = "wrr" /\ \E k \in 1..a.num : a.weight[k] <= 0
Magnitude(v) == IF v < 0 THEN -v ELSE v
CutDivisors(w, n) ==
  LET D == {g \in C_INT \ {0} : \A k \in 1..n : w[k] % Magnitude(g) = 0}
  IN IF n = 1 THEN {w[1]} ELSE {g \in D : \A h \in D : Magnitude(h) <= Magnitude(g)}
\* A remainder by 0 is a fault, and so is that of INT_MIN by -1.
DividesByZero(w, n) == n > 1 /\ w[1] = 0
MayOverflow(w, n) == \E j, k \in 1..n : j # k /\ w[j] = INT_MIN /\ w[k] < 0
Calculated(a) ==
  IF CutWeights(a)
  THEN {[gcd |-> g, mw |-> Max({a.weight[i] : i \in 1..a.num})] : g \in CutDivisors(a.weight, a.num)}
  ELSE {weight_calc_max(a.weight, a.num)}

\* what put_action_config leaves of a struct, all its steps done
Stored(a) == IF a.mode = "wrr"
             THEN LET g == weight_calc_max(a.weight, a.num)
                  IN [a EXCEPT !.ref = 1, !.gcd = g.gcd, !.mw = g.mw]
             ELSE [a EXCEPT !.ref = 1]

----------------------------------------------------------------------------
(* restd.  A request works on its actions one by one; what is wrong with    *)
(* one of them does not stop the others, an exception does.                 *)

NoRequest == [pc |-> "idle", todo |-> <<>>, method |-> "", id |-> 0, a |-> Zero, bad |-> FALSE,
              left |-> {}]
\* a copy has begun and pieces of it are missing
Torn(i) == rest.id = i /\ rest.pc \in {"memcpy", "memset"} /\ rest.left # Pieces
Exists(i) == is_valid_action_id(i) /\ act[i].ref > 0
\* a step of restd or of a link spoils the calm of the workers that are picking
Disturbed(r) == [w \in Workers |-> IF r[w].pc = "idle" THEN r[w]
                                   ELSE [r[w] EXCEPT !.calm = FALSE, !.spins = 0]]
Others(w, r) == [v \in Workers |-> IF v = w THEN r ELSE Disturbed(run)[v]]
workers == <<link, realnum, realarr, gre_option, pend, share, done>>

\* operations of a PATCH: a later one replaces an earlier one of the same object
PatchDict(ops) ==
  LET Latest(k) == Max({i \in DOMAIN ops : k \in DOMAIN ops[i]})
  IN [k \in UNION {DOMAIN ops[i] : i \in DOMAIN ops} |-> ops[Latest(k)][k]]

Begin(m, todo) == rest' = [NoRequest EXCEPT !.pc = "item", !.method = m, !.todo = todo]

post(r) == r.method = "post" /\ Begin("post", r.todo)
put(r) == r.method = "put" /\ Begin("put", r.todo)
patch(r) ==
  /\ r.method = "patch"
  /\ IF ~Exists(r.id) THEN rest' = rest
     ELSE Begin("put", <<[id |-> r.id,
            data |-> action_dict_merge_update(get_single_action_content(act[r.id]),
                                              PatchDict(r.ops))]>>)
delete(r) ==
  /\ r.method = "delete"
  /\ rest' = IF is_valid_action_id(r.id)
             THEN [NoRequest EXCEPT !.pc = "memset", !.id = r.id, !.left = Pieces] ELSE rest

Request(r) ==
  /\ rest.pc = "idle" /\ r \in events /\ r.method # "flip"
  /\ post(r) \/ put(r) \/ patch(r) \/ delete(r)
  /\ events' = {}
  /\ UNCHANGED <<act, run, ver, ever, workers>>

\* the next action of the body; an id out of range is noticed and goes on
update_action_content ==
  /\ rest.pc = "item" /\ rest.todo # <<>>
  /\ LET x == Head(rest.todo)
         next == [rest EXCEPT !.todo = Tail(@)]
     IN \E t \in {trans_dict_to_action_struct(x.data)} :
          rest' = IF rest.method = "post" /\ Exists(x.id) THEN [next EXCEPT !.bad = TRUE]
                  ELSE IF t.st = "raise" THEN NoRequest
                  ELSE IF t.st = "bad" \/ ~is_valid_action_id(x.id) THEN [next EXCEPT !.bad = TRUE]
                  ELSE [next EXCEPT !.pc = "memcpy", !.id = x.id, !.a = t.a, !.left = Pieces]
  /\ UNCHANGED <<act, run, ver, ever, events, workers>>

Finish == /\ rest.pc = "item" /\ rest.todo = <<>>
          /\ rest' = NoRequest
          /\ UNCHANGED <<act, run, ver, ever, events, workers>>

StoreInto(a, next) ==
  /\ act' = [act EXCEPT ![rest.id] = a]
  /\ rest' = next
  /\ ver' = [ver EXCEPT ![rest.id] = @ + 1]
  /\ run' = Disturbed(run)
  /\ UNCHANGED <<link, realnum, realarr, gre_option, pend, done, events, share>>
Write(a, pc) == StoreInto(a, [rest EXCEPT !.pc = pc])

\* old with the fields F of new
Mixed(old, new, F) == [f \in Fields |-> IF f \in F THEN new[f] ELSE old[f]]
\* mutant: the reference is counted before the weights are computed
AfterCopy_Ref == IF rest.pc = "memset" THEN "item" ELSE "ref"
AfterCopy == IF rest.pc = "memset" THEN "item" ELSE IF rest.a.mode = "wrr" THEN "cw" ELSE "ref"
\* A piece of memcpy, or of memset, for which rest.a is all zero.  The reference is one of the
\* fields, so that workers may use an action that is half the old and half the new one.
Copy(pc, M) ==
  /\ rest.pc = pc /\ M \in rest.left
  /\ StoreInto(Mixed(act[rest.id], rest.a, M),
             [rest EXCEPT !.left = @ \ {M}, !.pc = IF rest.left = {M} THEN AfterCopy ELSE @])
  /\ ever' = [ever EXCEPT ![rest.id] = @ \cup Range(rest.a.arr)]

PutCopy == \E M \in Pieces : Copy("memcpy", M)
PutCw == /\ rest.pc = "cw"
         /\ Write([act[rest.id] EXCEPT !.cw = 0], "gcd")
         /\ ever' = ever
PutGcd == /\ rest.pc = "gcd" /\ ~DividesByZero(act[rest.id].weight, rest.a.num)
          /\ \E g \in Calculated(act[rest.id]) :
               Write([act[rest.id] EXCEPT !.gcd = g.gcd, !.mw = g.mw], "ref")
          /\ ever' = ever
\* restd dies of the fault
GcdFault == /\ rest.pc = "gcd"
            /\ \/ DividesByZero(act[rest.id].weight, rest.a.num)
               \/ MayOverflow(act[rest.id].weight, rest.a.num)
            /\ rest' = NoRequest
            /\ UNCHANGED <<act, run, ver, ever, events, workers>>
PutRef == /\ rest.pc = "ref"
          /\ Write([act[rest.id] EXCEPT !.ref = @ + 1], "item")
          /\ ever' = ever
put_action_config == PutCopy \/ PutCw \/ PutGcd \/ GcdFault \/ PutRef

delete_action_config == \E M \in Pieces : Copy("memset", M)

RestStep == \/ \E r \in events : Request(r)
            \/ update_action_content \/ Finish
            \/ put_action_config \/ delete_action_config

Flip(i) ==
  /\ [method |-> "flip", id |-> i] \in events
  /\ link' = [link EXCEPT ![i] = ~@] /\ events' = {}
  /\ run' = Disturbed(run)
  /\ UNCHANGED <<act, realnum, realarr, gre_option, pend, rest, ver, ever, share, done>>

----------------------------------------------------------------------------
(* The nodes.  A frame is handled two packets at a time while four are      *)
(* left, then one by one.                                                   *)

Frame(w) == pend[w][1].pkts
At(w, n) == pend[w] # <<>> /\ pend[w][1].node = n /\ run[w].pc = "idle"
Two(w, n) == At(w, n) /\ Len(Frame(w)) >= 4
One(w, n) == At(w, n) /\ Len(Frame(w)) < 4

\* put a packet into the frame of the node it goes to
AddTo(frames, n, p) ==
  LET at == {i \in DOMAIN frames : frames[i].node = n}
  IN IF at = {} THEN Append(frames, [node |-> n, pkts |-> <<p>>])
     ELSE [frames EXCEPT ![CHOOSE i \in at : TRUE].pkts = Append(@, p)]
\* packet p, the first of the frame, goes on to node n
Pass(frames, p, n) ==
  LET rest1 == IF Len(frames[1].pkts) = 1 THEN Tail(frames)
               ELSE [frames EXCEPT ![1].pkts = Tail(@)]
  IN IF n \in FinalNodes THEN rest1 ELSE AddTo(rest1, n, p)
\* the version of an action a packet reads; 0, which no action has, while it is copied
VerOf(i) == IF is_valid_action_id(i) /\ ~Torn(i) THEN ver[i] ELSE 0
Ends(p, n) == IF n \notin FinalNodes THEN {}
              ELSE {[p EXCEPT !.node = n]}

\* the first packet is handled by f, which says where it goes
Handled(g, f(_)) ==
  LET r == f(g.fr[1].pkts[1])
  IN [fr |-> Pass(g.fr, r.p, r.next), out |-> g.out \cup Ends(r.p, r.next)]
HandleOne(w, f(_)) ==
  \E s \in {Handled([fr |-> pend[w], out |-> done], f)} :
    pend' = [pend EXCEPT ![w] = s.fr] /\ done' = s.out
HandleTwo(w, f(_)) ==
  \E g \in {Handled([fr |-> pend[w], out |-> done], f)} :
    \E s \in {Handled(g, f)} : pend' = [pend EXCEPT ![w] = s.fr] /\ done' = s.out
shared == <<act, link, realnum, realarr, rest, ver, ever, events>>

\* recv_for_opaque is right in front of pre_data: headers that need more than
\* pre_data run into the list, whose entry k is its byte 3 + k
Overwritten(p) == -p.cur >= PRE_DATA_SIZE + 64 - (3 + p.pos)
\* pop_addtional_list: the entries past the list are 0, the node of gre
Pop(p) == [p |-> [p EXCEPT !.pos = @ + 1],
           next |-> IF Overwritten(p) THEN Wild
                    ELSE IF p.pos <= Len(p.list) THEN p.list[p.pos] ELSE "gre"]

get_action(i) == IF is_valid_action_id(i) THEN act[i] ELSE Zero
action_type_to_next_index(a) == IF a.type = "forward" THEN Out ELSE Balance

\* the encapsulations are put on from the inside out
Only(e, on) == IF e \in on THEN <<e>> ELSE <<>>
Order(on) == Only("erspan", on) \o Only("vxlan", on) \o Only("gre", on)
\* mutant: the encapsulations are listed from the outside in
get_action_forward_path_Gre(p) ==
  LET a == get_action(p.arg)
      fwd == action_type_to_next_index(a)
      q == [p EXCEPT !.act = p.arg, !.ver = VerOf(p.arg), !.out = a.fwd]
  IN IF a.ref = 0 \/ a.type \notin {"forward", "load_balance"} THEN [p |-> [q EXCEPT !.out = 0], next |-> Drop]
     ELSE IF a.switch = {} THEN [p |-> q, next |-> fwd]
     ELSE Pop([q EXCEPT !.list = Reverse(Order(a.switch)) \o <<fwd>>])
get_action_forward_path(p) ==
  LET a == get_action(p.arg)
      fwd == action_type_to_next_index(a)
      q == [p EXCEPT !.act = p.arg, !.ver = VerOf(p.arg),
                     !.out = IF a.ref > 0 /\ a.type \in {"forward", "load_balance"} THEN a.fwd ELSE @]
  IN IF a.ref = 0 \/ a.type \notin {"forward", "load_balance"} THEN [p |-> q, next |-> Drop]
     ELSE IF a.switch = {} THEN [p |-> q, next |-> fwd]
     ELSE Pop([q EXCEPT !.list = Order(a.switch) \o <<fwd>>])

MainTwo(w) == Two(w, "sf_action_main") /\ HandleTwo(w, get_action_forward_path)
              /\ UNCHANGED <<shared, run, gre_option, share>>
MainOne(w) == One(w, "sf_action_main") /\ HandleOne(w, get_action_forward_path)
              /\ UNCHANGED <<shared, run, gre_option, share>>

----------------------------------------------------------------------------
(* The encapsulation nodes: a template, the fields of the action, and the   *)
(* lengths.  A header says where its IP payload ends (len; udp for UDP).    *)

IpLen(v) == IF v = 4 THEN 20 ELSE 40
\* the length field of an IP header in front of n bytes
IpSays(v, n) == IF v = 4 THEN IpLen(v) + n ELSE n
Source(p, v) == IF <<p.in, v>> \in Addressed THEN "interface" ELSE "default"
Layer(p, e, c, n) == [kind |-> e, v |-> c.dip, src |-> Source(p, c.dip), tos |-> c.dscp,
                      says |-> IpSays(c.dip, n + p.len), udp |-> 0, gre |-> "none",
                      flag_S |-> FALSE, seq |-> 0, tag |-> FALSE]
\* header h, with n bytes behind its IP header, in front of p
Push(p, h, n) == [p EXCEPT !.layers = Append(@, h),
                           !.cur = @ - (14 + IpLen(h.v) + n),
                           !.len = @ + 14 + IpLen(h.v) + n]

gre_encap_hdr_template(p, c) == [Layer(p, "gre", c, 4) EXCEPT !.gre = "ethernet"]
GreEncap(p) == LET c == act[p.act].addi["gre"]
               IN IF c.dip \in {4, 6} THEN Push(p, gre_encap_hdr_template(p, c), 4) ELSE p

vxlan_encap_hdr_template(p, c) == [Layer(p, "vxlan", c, 16) EXCEPT !.udp = 16 + p.len]
VxlanEncap(p) == LET c == act[p.act].addi["vxlan"]
                 IN IF c.dip \in {4, 6} THEN Push(p, vxlan_encap_hdr_template(p, c), 16) ELSE p

GrePacket(p) == Pop(GreEncap(p))
VxlanPacket(p) == Pop(VxlanEncap(p))
GreTwo(w) == Two(w, "gre") /\ HandleTwo(w, GrePacket)
             /\ UNCHANGED <<shared, run, gre_option, share>>
GreOne(w) == One(w, "gre") /\ HandleOne(w, GrePacket)
             /\ UNCHANGED <<shared, run, gre_option, share>>
VxlanTwo(w) == Two(w, "vxlan") /\ HandleTwo(w, VxlanPacket)
               /\ UNCHANGED <<shared, run, gre_option, share>>
VxlanOne(w) == One(w, "vxlan") /\ HandleOne(w, VxlanPacket)
               /\ UNCHANGED <<shared, run, gre_option, share>>

\* ERSPAN I has no header of its own, II and III have one after a GRE with a number
ErspanLen(t) == IF t = 1 THEN 4 ELSE IF t = 2 THEN 4 + 4 + 8 ELSE 4 + 4 + 12
Numbered(c) == c.dip \in {4, 6} /\ c.type \in {2, 3}
erspan_encap_common_hdr_template(p, c) ==
  [Layer(p, "erspan", c, ErspanLen(c.type)) EXCEPT !.gre = "erspan"]
encap_erspan_I(p, c) == Push(p, erspan_encap_common_hdr_template(p, c), ErspanLen(1))
encap_erspan_II(p, c, n) ==
  Push(p, [erspan_encap_common_hdr_template(p, c) EXCEPT !.flag_S = TRUE, !.seq = n,
             !.tag = p.tag], ErspanLen(2))
encap_erspan_III(p, c, n) ==
  Push(p, [erspan_encap_common_hdr_template(p, c) EXCEPT !.flag_S = TRUE, !.seq = n,
             !.tag = p.tag, !.gre = "erspan_iii"], ErspanLen(3))
encap_erspan_proc(p, c, n) ==
  IF c.dip \notin {4, 6} THEN p
  ELSE IF c.type = 1 THEN encap_erspan_I(p, c)
  ELSE IF c.type = 2 THEN encap_erspan_II(p, c, n)
  ELSE IF c.type = 3 THEN encap_erspan_III(p, c, n)
  ELSE p

Idle == [pc |-> "idle", left |-> 0, num |-> 0, n |-> 0, idx |-> 0, reg |-> 0, c |-> 0,
         tries |-> 0, i |-> 0, id |-> 0, back |-> "", calm |-> TRUE, spins |-> 0,
         cfg |-> NoEncap]
Local(w, r) == run' = [run EXCEPT ![w] = r]
\* the node goes on to the next packet of the pair, or looks at the frame again
NextOf(r, pc) == IF r.left = 1 THEN Idle ELSE [Idle EXCEPT !.pc = pc, !.left = r.left - 1]
First(w) == Frame(w)[1]
Erspan(w) == act[First(w).act].addi["erspan"]

ErspanTwo(w) == Two(w, "erspan") /\ Local(w, [Idle EXCEPT !.pc = "erspan", !.left = 2])
                /\ UNCHANGED <<shared, pend, gre_option, share, done>>
ErspanOne(w) == One(w, "erspan") /\ Local(w, [Idle EXCEPT !.pc = "erspan", !.left = 1])
                /\ UNCHANGED <<shared, pend, gre_option, share, done>>
\* sf_gre_option_template++ is a load and a store
SequenceLoad(w) ==
  /\ run[w].pc = "erspan" /\ Numbered(Erspan(w))
  /\ Local(w, [run[w] EXCEPT !.pc = "store", !.reg = gre_option,
                                  !.cfg = Erspan(w)])
  /\ UNCHANGED <<shared, pend, gre_option, share, done>>
SequenceStore(w) ==
  /\ run[w].pc = "store"
  /\ gre_option' = run[w].reg + 1
  /\ HandleOne(w, LAMBDA p : Pop(encap_erspan_proc(p, run[w].cfg, run[w].reg)))
  /\ Local(w, NextOf(run[w], "erspan"))
  /\ UNCHANGED <<shared, share>>
NoSequence(w) ==
  /\ run[w].pc = "erspan" /\ ~Numbered(Erspan(w))
  /\ HandleOne(w, LAMBDA p : Pop(encap_erspan_proc(p, Erspan(w), 0)))
  /\ Local(w, NextOf(run[w], "erspan"))
  /\ UNCHANGED <<shared, gre_option, share>>

----------------------------------------------------------------------------
(* The pick of an interface.  "call" is action_get_load_balance_index for n *)
(* interfaces; it leaves its answer in idx and goes back to pc back.        *)

A(w) == act[First(w).act]
\* a step that stores something others read, and one that does not
Stores(w, r) == run' = Others(w, r) /\ UNCHANGED <<link, rest, ver, ever, events, gre_option>>
Loads(w, r) == Local(w, r) /\ UNCHANGED <<shared, gre_option, pend, share, done>>
Call(r, n, back) == [r EXCEPT !.pc = "call", !.n = n, !.back = back]
Return(r, k) == [r EXCEPT !.pc = r.back, !.idx = k]
\* interface 0 is read in front of the arrays: it may look up or down
LooksUp(i) == IF i \in Interfaces THEN {link[i]} ELSE BOOLEAN

BalanceTwo(w) == Two(w, Balance) /\ Loads(w, [Idle EXCEPT !.pc = "num", !.left = 2])
BalanceOne(w) == One(w, Balance) /\ Loads(w, [Idle EXCEPT !.pc = "num", !.left = 1])

LoadNum(w) ==
  /\ run[w].pc = "num"
  /\ Loads(w, Call([run[w] EXCEPT !.num = A(w).num], A(w).num, "first"))

\* the sum a hash mode takes the remainder of; a flow is <<source, destination>>
fill_load_balance_data(mode, flow) ==
  IF mode = "outer_src_dst_ip" THEN flow[1] + flow[2]
  ELSE IF mode = "outer_src_ip" THEN flow[1] ELSE flow[2]

action_get_load_balance_index(w) ==
  /\ run[w].pc = "call"
  /\ LET r == run[w] IN
     Loads(w, IF r.n = 0 THEN Return(r, 0)
              ELSE IF A(w).mode \in HashModes
                   THEN Return(r, fill_load_balance_data(A(w).mode, First(w).flow) % r.n)
              ELSE [r EXCEPT !.pc = IF A(w).mode = "wrr" THEN "wrr" ELSE "rr", !.reg = A(w).index])

RoundRobin(w) ==
  /\ run[w].pc = "rr"
  /\ \E k \in {(run[w].reg + 1) % run[w].n} :
       /\ act' = [act EXCEPT ![First(w).act].index = k]
       /\ Stores(w, Return(run[w], k))
  /\ UNCHANGED <<realnum, realarr, pend, share, done>>

\* load_balance_get_weight_index, once around its loop
\* mutant: cw is raised for every interface, not once a round
WrrIndex_Always(w) ==
  /\ run[w].pc = "wrr"
  /\ \E k \in {(run[w].reg + 1) % run[w].n} :
       /\ act' = [act EXCEPT ![First(w).act].index = k]
       /\ Stores(w, [run[w] EXCEPT !.pc = "cw", !.idx = k, !.c = A(w).cw + A(w).gcd])
  /\ UNCHANGED <<realnum, realarr, pend, share, done>>
WrrIndex(w) ==
  /\ run[w].pc = "wrr"
  /\ \E k \in {(run[w].reg + 1) % run[w].n} :
       /\ act' = [act EXCEPT ![First(w).act].index = k]
       /\ Stores(w, IF k = 0 \/ A(w).cw = 0
                    THEN [run[w] EXCEPT !.pc = "cw", !.idx = k, !.c = c_int(A(w).cw + A(w).gcd)]
                    ELSE [run[w] EXCEPT !.pc = "test", !.idx = k, !.c = A(w).cw])
  /\ UNCHANGED <<realnum, realarr, pend, share, done>>
WrrCw(w) ==
  /\ run[w].pc = "cw"
  /\ act' = [act EXCEPT ![First(w).act].cw = run[w].c]
  /\ Stores(w, [run[w] EXCEPT !.pc = IF run[w].c > A(w).mw THEN "wrap" ELSE "test"])
  /\ UNCHANGED <<realnum, realarr, pend, share, done>>
WrrWrap(w) ==
  /\ run[w].pc = "wrap"
  /\ act' = [act EXCEPT ![First(w).act].cw = A(w).gcd]
  /\ Stores(w, [run[w] EXCEPT !.pc = "test", !.c = A(w).gcd])
  /\ UNCHANGED <<realnum, realarr, pend, share, done>>
\* behind the array of weights there may be anything
Reaches(a, k, c) == IF k <= MAX_LOAD_BALANCE_NODE THEN {a.weight[k] >= c} ELSE BOOLEAN
\* turns of the loop are counted once the action is whole and its weights are weights
Turn(w) == IF Torn(First(w).act) \/ CutWeights(A(w)) THEN 0 ELSE run[w].spins + 1
WrrTest(w) ==
  /\ run[w].pc = "test"
  /\ LET r == run[w] IN
     \E enough \in Reaches(A(w), r.idx + 1, r.c) :
       IF enough
       THEN /\ share' = [share EXCEPT ![First(w).act][r.idx + 1] = @ + 1]
            /\ Local(w, [Return(r, r.idx) EXCEPT !.spins = 0])
       ELSE /\ Local(w, [r EXCEPT !.pc = "wrr", !.reg = A(w).index, !.spins = Turn(w)])
            /\ share' = share
  /\ UNCHANGED <<shared, gre_option, pend, done>>
load_balance_get_weight_index(w) == WrrIndex(w) \/ WrrCw(w) \/ WrrWrap(w) \/ WrrTest(w)

\* the interface the index stands for is taken if it is up
FirstChoice(w) ==
  /\ run[w].pc = "first"
  /\ LET i == A(w).arr[run[w].idx + 1] IN
     \E up \in LooksUp(i) :
       Loads(w, IF up THEN [run[w] EXCEPT !.pc = "ret", !.id = i]
                ELSE IF A(w).mode \in {"round_robin", "wrr"} THEN Call(run[w], run[w].num, "again")
                ELSE [run[w] EXCEPT !.pc = "reset"])
\* mutant: one more try, then the packet is dropped
Retry_Once(w) ==
  /\ run[w].pc = "again"
  /\ LET i == A(w).arr[run[w].idx + 1] IN
     \E up \in LooksUp(i) :
       Loads(w, [run[w] EXCEPT !.pc = "ret", !.id = IF up THEN i ELSE INVALID_INTERFACE_ID])
Retry(w) ==
  /\ run[w].pc = "again"
  /\ LET i == A(w).arr[run[w].idx + 1] IN
     \E up \in LooksUp(i) :
       Loads(w, IF up THEN [run[w] EXCEPT !.pc = "ret", !.id = i]
                ELSE IF run[w].tries + 1 = MAX_LOAD_BALANCE_NODE
                     THEN [run[w] EXCEPT !.pc = "ret", !.id = INVALID_INTERFACE_ID]
                ELSE Call([run[w] EXCEPT !.tries = @ + 1], run[w].num, "again"))

\* the interfaces that are up, in arrays that all workers share
Row(i) == (i - 1) * MAX_INTERFACE_CNT
RealReset(w) ==
  /\ run[w].pc = "reset"
  /\ realnum' = [realnum EXCEPT ![First(w).act] = 0]
  /\ Stores(w, [run[w] EXCEPT !.pc = "fill", !.i = 1])
  /\ UNCHANGED <<act, realarr, pend, share, done>>
RealFill(w) ==
  /\ run[w].pc = "fill" /\ run[w].i <= run[w].num
  /\ \E up \in LooksUp(A(w).arr[run[w].i]) :
       Loads(w, IF up THEN [run[w] EXCEPT !.pc = "put", !.reg = realnum[First(w).act],
                                          !.id = A(w).arr[run[w].i]]
                ELSE [run[w] EXCEPT !.i = @ + 1])
RealPut(w) ==
  /\ run[w].pc = "put"
  /\ realnum' = [realnum EXCEPT ![First(w).act] = run[w].reg + 1]
  /\ realarr' = [realarr EXCEPT ![Row(First(w).act) + run[w].reg] = run[w].id]
  /\ Stores(w, [run[w] EXCEPT !.pc = "fill", !.i = @ + 1])
  /\ UNCHANGED <<act, pend, share, done>>
RealCount(w) ==
  /\ run[w].pc = "fill" /\ run[w].i > run[w].num
  /\ Loads(w, [run[w] EXCEPT !.pc = IF realnum[First(w).act] = 0 THEN "ret" ELSE "count",
                             !.id = INVALID_INTERFACE_ID])
RealCall(w) ==
  /\ run[w].pc = "count"
  /\ Loads(w, Call(run[w], realnum[First(w).act], "real"))
RealChoice(w) ==
  /\ run[w].pc = "real"
  /\ Loads(w, [run[w] EXCEPT !.pc = "ret", !.id = realarr[Row(First(w).act) + run[w].idx]])

load_balance_interfaces(w) ==
  \/ LoadNum(w) \/ FirstChoice(w) \/ Retry(w)
  \/ RealReset(w) \/ RealFill(w) \/ RealPut(w) \/ RealCount(w) \/ RealCall(w) \/ RealChoice(w)

Leave(w) ==
  /\ run[w].pc = "ret"
  /\ LET i == run[w].id IN
     HandleOne(w, LAMBDA p : [p |-> [p EXCEPT !.out = i],
                              next |-> IF i = INVALID_INTERFACE_ID THEN Drop ELSE Out])
  /\ Local(w, NextOf(run[w], "num"))
  /\ UNCHANGED <<shared, gre_option, share>>

WorkerStep(w) ==
  \/ MainTwo(w) \/ MainOne(w) \/ GreTwo(w) \/ GreOne(w) \/ VxlanTwo(w) \/ VxlanOne(w)
  \/ ErspanTwo(w) \/ ErspanOne(w) \/ SequenceLoad(w) \/ SequenceStore(w) \/ NoSequence(w)
  \/ BalanceTwo(w) \/ BalanceOne(w) \/ action_get_load_balance_index(w) \/ RoundRobin(w)
  \/ load_balance_get_weight_index(w) \/ load_balance_interfaces(w) \/ Leave(w)

----------------------------------------------------------------------------
ActionOf(d) == IF d = <<>> THEN Zero ELSE Stored(trans_dict_to_action_struct(d).a)
Fresh(p) == [id |-> p.id, arg |-> p.arg, in |-> p.in, flow |-> p.flow, tag |-> p.tag,
             act |-> 0, ver |-> 0, node |-> "", out |-> 0, cur |-> 0,
             len |-> p.len, size |-> p.len, list |-> <<>>, pos |-> 1, layers |-> <<>>]

\* JSON as it comes in: any keys; the names of interfaces and the weights are parsed
IsBasis(b) ==
  /\ Has(b, "interfaces") => b.interfaces \in Seq(Interfaces \cup {0})
  /\ Has(b, "load_balance_weight") => b.load_balance_weight \in Seq(Int)
IsDict(d) == Has(d, "basis") => IsBasis(d.basis)
IsRequest(r) ==
  /\ r.method \in {"post", "put"} =>
       /\ r.todo \in Seq(Range(r.todo))
       /\ \A x \in Range(r.todo) : IsDict(x.data)
  /\ r.method = "patch" => /\ r.ops \in Seq(Range(r.ops))
                           /\ \A d \in Range(r.ops) : IsDict(d)
Received == [id : Workers \X Nat, arg : Nat, in : Nat, flow : Nat \X Nat, tag : BOOLEAN,
             len : Nat]

ASSUME SizesAssumption ==
  /\ MAX_INTERFACE_CNT \in Nat \ {0} /\ MAX_ACTION_NUM \in Nat
  /\ MAX_LOAD_BALANCE_NODE \in Nat \ {0}
  /\ Interfaces \subseteq Nat \ {0}
ASSUME IntAssumption == INT_RANGE \in Nat \ {0} /\ INT_RANGE % 2 = 0
ASSUME PiecesAssumption == Pieces \subseteq SUBSET Fields /\ UNION Pieces = Fields
\* what is there at first is what requests that were accepted left, with no weight cut to
\* 0 or less
ASSUME ScenariosAssumption ==
  \A s \in Scenarios :
    /\ \A i \in Ids : s.conf[i] # <<>> =>
         /\ IsDict(s.conf[i]) /\ trans_dict_to_action_struct(s.conf[i]).st = "ok"
         /\ ~CutWeights(trans_dict_to_action_struct(s.conf[i]).a)
    /\ \A w \in Workers : s.frames[w] \in Seq(Received)
    /\ \A r \in s.events : IsRequest(r)

Init ==
  /\ \E s \in Scenarios :
       /\ act = [i \in Ids |-> ActionOf(s.conf[i])]
       /\ link = s.link /\ events = s.events
       /\ pend = [w \in Workers |->
            IF s.frames[w] = <<>> THEN <<>>
            ELSE <<[node |-> "sf_action_main",
                    pkts |-> [i \in DOMAIN s.frames[w] |-> Fresh(s.frames[w][i])]]>>]
  /\ realnum = [i \in Ids |-> 0]
  /\ realarr = [k \in 0..(MAX_ACTION_NUM + 1) * MAX_INTERFACE_CNT |-> 0]
  /\ gre_option = 1
  /\ run = [w \in Workers |-> Idle]
  /\ rest = NoRequest
  /\ ver = [i \in Ids |-> 1]
  /\ ever = [i \in Ids |-> Range(act[i].arr)]
  /\ share = [i \in Ids |-> [k \in Slots |-> 0]]
  /\ done = {}

Next == \/ \E w \in Workers : WorkerStep(w)
        \/ RestStep
        \/ \E i \in Interfaces : Flip(i)

Spec == Init /\ [][Next]_vars

----------------------------------------------------------------------------
(* Properties.                                                              *)

Packets == (UNION {UNION {Range(pend[w][j].pkts) : j \in DOMAIN pend[w]} : w \in Workers}) \cup done

\* Every action has the shape of sf_action_t, and packets end at a node there is.
TypeOK ==
  /\ \A i \in Ids : /\ act[i].ref \in 0..1 /\ act[i].num \in 0..MAX_INTERFACE_CNT
                     /\ act[i].type \in {"", "drop", "forward", "load_balance"}
                     /\ act[i].mode \in Modes \cup {""}
                     /\ realnum[i] \in Nat
  /\ \A w \in Workers : run[w].tries < MAX_LOAD_BALANCE_NODE
  /\ \A p \in done : p.node \in FinalNodes

\* An action that workers may use is one the REST server would accept again, except
\* while memcpy or memset is at work on it, which may leave its reference for last: a
\* request that is refused, raises or kills restd leaves no action with a reference that
\* is not complete, and put_action_config counts it after the weights.  (Weights that a C
\* int cuts to 0 or less are excepted: they are accepted, and so is the action.)
UsableIsValid ==
  \A i \in Ids : act[i].ref > 0 /\ ~Torn(i) =>
    LET a == act[i] IN
    /\ a.type = "forward" => a.fwd \in Interfaces
    /\ a.type = "load_balance" => /\ a.num > 0 /\ a.mode \in Modes
                                  /\ \A k \in 1..a.num : a.arr[k] \in Interfaces
    /\ a.mode = "wrr" /\ ~CutWeights(a) =>
                         /\ a.gcd > 0
                         /\ \A k \in 1..a.num : a.weight[k] % a.gcd = 0
                         /\ a.mw = Max({a.weight[k] : k \in 1..a.num})
    /\ \A e \in a.switch : a.addi[e].dip \in {4, 6}

\* What GET, the saved configuration and PATCH read of a stored action is the
\* action: putting it back changes nothing but the place in the rotation.  (restd reads
\* no action while it copies one; one with weights that were cut is refused.)
ReadIsWritten ==
  \A i \in Ids : act[i].ref > 0 /\ ~Torn(i) /\ ~CutWeights(act[i]) =>
    LET t == trans_dict_to_action_struct(get_single_action_content(act[i]))
    IN /\ t.st = "ok"
       /\ Stored(t.a) = [act[i] EXCEPT !.cw = 0, !.index = 0]

\* A packet that read its action whole, and whose action did not change under it, leaves as
\* the action says:
\* with these headers in this order, and by one of these interfaces.  (A hash
\* mode may take an interface of the action before from the shared array.)
LeavesAsConfigured ==
  \A p \in done : ((p.act \in Ids => p.ver = ver[p.act]) /\ p.node # Wild) =>
    LET a == get_action(p.arg)
        kinds == [k \in DOMAIN p.layers |-> p.layers[k].kind]
    IN IF a.ref = 0 \/ a.type = "drop" THEN p.node = Drop /\ p.layers = <<>>
       ELSE /\ kinds = Order(a.switch)
            /\ a.type = "forward" => p.node = Out /\ p.out = a.fwd
            /\ a.mode \in {"round_robin", "wrr"} /\ p.node = Out => \E k \in 1..a.num : p.out = a.arr[k]

\* bytes behind the IP header of a layer, and what n bytes are with the first k layers
After(h) ==
  IF h.kind = "vxlan" THEN 16 ELSE IF h.kind = "gre" THEN 4
  ELSE IF ~h.flag_S THEN 4 ELSE IF h.gre = "erspan" THEN 16 ELSE 20
Sizes(layers, n) ==
  LET S[k \in 0..Len(layers)] ==
        IF k = 0 THEN n ELSE S[k-1] + 14 + IpLen(layers[k].v) + After(layers[k])
  IN S

\* Every header of a tunnel fits what it is in front of: its lengths end where
\* the packet ends, and a GRE header announces the number it carries.
TunnelsWellFormed ==
  \A p \in Packets :
    LET upto == Sizes(p.layers, p.size)
    IN /\ p.len = upto[Len(p.layers)] /\ p.cur = p.size - p.len
       /\ \A k \in DOMAIN p.layers :
            LET h == p.layers[k] IN
            /\ h.says = IpSays(h.v, After(h) + upto[k-1])
            /\ h.kind = "vxlan" => h.udp = 16 + upto[k-1]
            /\ h.flag_S = (h.seq > 0)

\* One encapsulation, or two towards IPv4, fit into the space in front of a
\* buffer, and with two at most the list of nodes behind it is not overwritten.
HeadersFit ==
  \A p \in Packets :
    LET n == Len(p.layers)
    IN /\ n <= 2 => p.node # Wild
       /\ (n = 1 \/ (n = 2 /\ \A k \in 1..n : p.layers[k].v = 4)) => p.cur >= -PRE_DATA_SIZE

\* The loop of weighted round robin ends once nobody else writes to the action, restd has
\* copied all of it, and no weight was cut.
WeightedPickEnds ==
  \A w \in Workers :
    (run[w].pc \in {"wrr", "cw", "wrap", "test"} /\ ~Torn(First(w).act) /\ ~CutWeights(A(w))) =>
      run[w].spins <= run[w].n * (A(w).mw \div (IF A(w).gcd = 0 THEN 1 ELSE A(w).gcd) + 2)

\* the sums of the rotation of an action do not run over
InInt(a) == ~CutWeights(a) /\ (a.mode = "wrr" => a.mw + a.gcd \in C_INT)

\* A worker nobody disturbs finds an interface that is up if the action has one
\* (and a turn of the rotation is within MAX_LOAD_BALANCE_NODE picks, and within an int).
NoNeedlessDrop ==
  \A w \in Workers : (run[w].pc = "ret" /\ run[w].calm /\ First(w).ver = ver[First(w).act]) =>
    LET a == A(w)
        ups == {k \in 1..a.num : link[a.arr[k]]}
        turn == IF a.mode = "wrr" THEN SumOf(a.weight, 1..a.num) \div a.gcd ELSE a.num
    IN (ups # {} /\ InInt(a) /\ turn <= MAX_LOAD_BALANCE_NODE) => \E k \in ups : run[w].id = a.arr[k]

\* However workers, restd and links interleave, a packet is not sent by an
\* interface its action id was never configured with.
ChosenWasConfigured ==
  /\ \A w \in Workers : run[w].pc = "ret" => run[w].id \in ever[First(w).act] \cup {INVALID_INTERFACE_ID}
  /\ \A p \in done : p.out \in Interfaces \cup {0}

\* The shared array of usable interfaces is filled by several workers at once
\* and stays within its row as long as their interfaces together fit into it;
\* no index that is picked is past the end of its array.
RealArrayInBounds ==
  /\ \A i \in Ids : realnum[i] <= MAX_INTERFACE_CNT
  /\ \A w \in Workers : run[w].idx \in 0..(MAX_INTERFACE_CNT - 1)

\* Over whole turns of the rotation of one worker, the action staying what it
\* is and its weights within an int, every interface gets packets in proportion to its weight.
SharesFollowWeights ==
  \A i \in Ids :
    LET a == act[i]
        total == SumOf(share[i], Slots)
        turn == SumOf(a.weight, 1..a.num) \div a.gcd
    IN (ver[i] = 1 /\ a.mode = "wrr" /\ InInt(a) /\ total % turn = 0
        /\ \A p, q \in Packets : p.arg = i /\ q.arg = i => p.id[1] = q.id[1]) =>
         \A k \in 1..a.num : share[i][k] * a.gcd * turn = total * a.weight[k]

\* Numbers of ERSPAN are unique, as the comment in the code says ("make
\* Sequence Number unique").  The code does not keep to it: two workers may take
\* the same number.
SequenceUnique ==
  \A p, q \in Packets : \A j \in DOMAIN p.layers, k \in DOMAIN q.layers :
    (p.id # q.id /\ p.layers[j].flag_S /\ q.layers[k].flag_S) => p.layers[j].seq # q.layers[k].seq

\* Every action with a reference is complete and reads back as it was written, also in the
\* middle of a request, refused or not; but for one that is being copied, and for weights
\* that a C int cut.
RequestsSound == TypeOK /\ UsableIsValid /\ ReadIsWritten

\* A packet leaves with the configured tunnels, in order, well formed, and within
\* the space in front of it.
EncapSound == LeavesAsConfigured /\ TunnelsWellFormed /\ HeadersFit

\* Load balancing chooses among the action's interfaces, does not overrun the array
\* it shares with the other workers (as long as the interfaces they fill in together fit
\* into its row, as those of the run do), and drops only if it must.
PickSound == ChosenWasConfigured /\ RealArrayInBounds /\ NoNeedlessDrop

\* Weighted round robin always comes to a choice, and the choices follow the weights.
WeightsSound == WeightedPickEnds /\ SharesFollowWeights
=============================================================================
