---------------------------- MODULE ActionsProofs ----------------------------
(***************************************************************************)
(* Proofs about Actions, for any number of workers, interfaces and         *)
(* actions, any configuration, any requests to restd and any packets.      *)
(***************************************************************************)
EXTENDS Actions, WellFoundedInduction, TLAPS

-----------------------------------------------------------------------------
(* What restd accepts.                                                     *)

EncapNames == {"erspan", "vxlan", "gre"}

\* The encapsulations are the three the code has.
LEMMA EncapsAre == Range(Encaps) = EncapNames
  BY DEF Range, Encaps, EncapNames

Byte == 0..255
Vnis == {v \in Nat : v < 16777216}
Sessions == 0..1023
Ports == {v \in Nat : v < 65536}
Encap == [dip : {0, 4, 6}, dscp : Nat, vni : Byte \X Byte \X Byte \X Byte,
          dport : Byte \X Byte, type : 0..3, session : Sessions]
Action == [ref : 0..1, type : {"", "drop", "forward", "load_balance"},
           fwd : Interfaces \cup {0}, num : 0..MAX_INTERFACE_CNT,
           arr : [Slots -> Interfaces \cup {0}], switch : SUBSET EncapNames,
           addi : [EncapNames -> Encap], mode : Modes \cup {""},
           cw : Int, gcd : Int, mw : Int, index : Nat, weight : [Slots -> Int]]

\* An encapsulation that is on, as SetEncap gives it.
EncapShape(e, c) ==
  /\ c \in Encap /\ c.dip \in {4, 6}
  /\ \E x \in 0..63 : c.dscp = x * 4
  /\ IF e = "vxlan" THEN /\ \E v \in Vnis : c.vni = vni_bytes(v)
                         /\ \E v \in Ports : c.dport = port_bytes(v)
                    ELSE c.vni = <<0, 0, 0, 0>> /\ c.dport = <<0, 0>>
  /\ IF e = "erspan" THEN c.type \in 1..3 ELSE c.type = 0 /\ c.session = 0

\* A struct as trans_dict_to_action_struct gives it.
Shape(a) ==
  /\ a \in Action
  /\ a.ref = 0 /\ a.cw = 0 /\ a.gcd = 0 /\ a.mw = 0 /\ a.index = 0
  /\ a.type \in {"drop", "forward", "load_balance"}
  /\ a.type = "forward" => a.fwd \in Interfaces
  /\ a.type # "forward" => a.fwd = 0
  /\ a.type # "load_balance" => a.num = 0 /\ a.mode = ""
  /\ a.type = "load_balance" => a.num > 0 /\ a.mode \in Modes
  /\ \A k \in Slots : IF k <= a.num THEN a.arr[k] \in Interfaces ELSE a.arr[k] = 0
  /\ \A k \in Slots : IF a.mode = "wrr" /\ k <= a.num THEN a.weight[k] \in C_INT
                      ELSE a.weight[k] = 0
  /\ a.mode = "wrr" => a.num <= MAX_LOAD_BALANCE_NODE
  /\ \A e \in EncapNames : IF e \in a.switch THEN EncapShape(e, a.addi[e])
                           ELSE a.addi[e] = NoEncap

\* Memory that memset left is an action.
LEMMA ZeroType == NoEncap \in Encap /\ Zero \in Action
<1>1. NoEncap \in Encap
  BY DEF NoEncap, Encap, Byte, Sessions
<1>2. [e \in EncapNames |-> NoEncap] \in [EncapNames -> Encap]
  BY <1>1
<1>3. [i \in Slots |-> 0] \in [Slots -> Int] /\ [i \in Slots |-> 0] \in [Slots -> Interfaces \cup {0}]
  OBVIOUS
<1>4. 0 \in 0..MAX_INTERFACE_CNT /\ 0 \in 0..1
  BY SizesAssumption
<1>5. Zero \in Action
  BY <1>2, <1>3, <1>4, EncapsAre DEF Zero, Action
<1> QED BY <1>1, <1>5

\* The fields of a struct that is zero but for these.
LEMMA ZeroFields ==
  /\ Zero.ref = 0 /\ Zero.type = "" /\ Zero.fwd = 0 /\ Zero.num = 0 /\ Zero.switch = {}
  /\ Zero.mode = "" /\ Zero.cw = 0 /\ Zero.gcd = 0 /\ Zero.mw = 0 /\ Zero.index = 0
  /\ \A k \in Slots : Zero.arr[k] = 0 /\ Zero.weight[k] = 0
  /\ \A e \in EncapNames : Zero.addi[e] = NoEncap
  BY EncapsAre DEF Zero

\* What is left of a number in a C int is one of its values, and a value of it stays what it is.
LEMMA CInt ==
  /\ INT_MIN \in Int /\ C_INT \subseteq Int
  /\ \A v \in Int : c_int(v) \in C_INT
  /\ \A v \in C_INT : c_int(v) = v
<1> DEFINE N == INT_RANGE
           h == INT_RANGE \div 2
<1>1. N \in Nat /\ N > 0 /\ h \in Nat /\ N = 2 * h
  BY IntAssumption
<1>2. INT_MIN = -h /\ C_INT = -h..(h - 1)
  BY DEF INT_MIN, C_INT
<1>3. \A x \in Int : x % N \in 0..(N - 1)
  BY <1>1
<1>4. \A x \in 0..(N - 1) : x % N = x
  BY <1>1
<1> HIDE DEF N, h
<1>5. \A v \in Int : c_int(v) = ((v + h) % N) + (-h)
  <2>1. \A v \in Int : c_int(v) = ((v - (-h)) % N) + (-h)
    BY <1>2 DEF c_int, N
  <2>2. \A v \in Int : v - (-h) = v + h
    BY <1>1
  <2> QED BY <2>1, <2>2
<1>6. \A v \in Int : c_int(v) \in C_INT
  <2> TAKE v \in Int
  <2>1. (v + h) % N \in 0..(N - 1)
    BY <1>1, <1>3
  <2>2. c_int(v) = ((v + h) % N) + (-h)
    BY <1>5
  <2>3. \A r \in 0..(N - 1) : r + (-h) \in -h..(h - 1)
    BY <1>1
  <2> QED BY <2>1, <2>2, <2>3, <1>2
<1>7. \A v \in C_INT : c_int(v) = v
  <2> TAKE v \in C_INT
  <2>1. v \in Int /\ v + h \in 0..(N - 1)
    BY <1>1, <1>2
  <2>2. (v + h) % N = v + h
    BY <2>1, <1>4
  <2> QED BY <2>1, <2>2, <1>1, <1>5
<1> QED BY <1>1, <1>2, <1>6, <1>7

\* A drop is a struct restd may store.
LEMMA DropShape == Shape([Zero EXCEPT !.type = "drop"])
<1> DEFINE a == [Zero EXCEPT !.type = "drop"]
<1>1. a \in Action /\ a.type = "drop"
  BY ZeroType DEF Action
<1>2. /\ a.ref = 0 /\ a.fwd = 0 /\ a.num = 0 /\ a.switch = {}
      /\ a.mode = "" /\ a.cw = 0 /\ a.gcd = 0 /\ a.mw = 0 /\ a.index = 0
      /\ a.arr = Zero.arr /\ a.weight = Zero.weight /\ a.addi = Zero.addi
  BY ZeroType, ZeroFields DEF Action
<1> HIDE DEF a
<1>3. \A k \in Slots : ~(k <= a.num)
  <2>1. \A k \in Slots : k \in Nat /\ k > 0
    BY SizesAssumption DEF Slots
  <2>2. a.num = 0
    BY <1>2
  <2> QED BY <2>1, <2>2
<1>4. \A k \in Slots : a.arr[k] = 0 /\ a.weight[k] = 0
  BY <1>2, ZeroFields
<1>5. \A e \in EncapNames : e \notin a.switch /\ a.addi[e] = NoEncap
  BY <1>2, ZeroFields
<1> QED BY <1>1, <1>2, <1>3, <1>4, <1>5 DEF Shape, a

\* So is the forwarding to an interface that is known.
LEMMA ForwardShape ==
  ASSUME NEW i \in Interfaces
  PROVE  Shape([Zero EXCEPT !.type = "forward", !.fwd = i])
<1> DEFINE a == [Zero EXCEPT !.type = "forward", !.fwd = i]
<1>1. a \in Action /\ a.type = "forward" /\ a.fwd = i
  BY ZeroType DEF Action
<1>2. /\ a.ref = 0 /\ a.num = 0 /\ a.switch = {}
      /\ a.mode = "" /\ a.cw = 0 /\ a.gcd = 0 /\ a.mw = 0 /\ a.index = 0
      /\ a.arr = Zero.arr /\ a.weight = Zero.weight /\ a.addi = Zero.addi
  BY ZeroType, ZeroFields DEF Action
<1> HIDE DEF a
<1>3. \A k \in Slots : ~(k <= a.num)
  <2>1. \A k \in Slots : k \in Nat /\ k > 0
    BY SizesAssumption DEF Slots
  <2>2. a.num = 0
    BY <1>2
  <2> QED BY <2>1, <2>2
<1>4. \A k \in Slots : a.arr[k] = 0 /\ a.weight[k] = 0
  BY <1>2, ZeroFields
<1>5. \A e \in EncapNames : e \notin a.switch /\ a.addi[e] = NoEncap
  BY <1>2, ZeroFields
<1> QED BY <1>1, <1>2, <1>3, <1>4, <1>5 DEF Shape, a

\* The array of the elements of a sequence, with zeros behind them.
LEMMA ArrayType ==
  ASSUME NEW S, NEW s \in Seq(S), NEW T, S \subseteq T, 0 \in T
  PROVE  /\ Array(s) \in [Slots -> T]
         /\ \A k \in Slots : Array(s)[k] = IF k <= Len(s) THEN s[k] ELSE 0
<1>1. \A k \in Slots : k <= Len(s) => s[k] \in S
  BY SizesAssumption DEF Slots
<1> QED BY <1>1 DEF Array

\* What is left of a load balancing action before the interfaces are filled in.
LEMMA BalanceRecord ==
  ASSUME NEW mode \in Modes, NEW wt \in [Slots -> Int], NEW arr \in [Slots -> Interfaces \cup {0}],
         NEW n \in 1..MAX_INTERFACE_CNT,
         \A k \in Slots : IF k <= n THEN arr[k] \in Interfaces ELSE arr[k] = 0,
         \A k \in Slots : IF mode = "wrr" /\ k <= n THEN wt[k] \in C_INT ELSE wt[k] = 0,
         mode = "wrr" => n <= MAX_LOAD_BALANCE_NODE,
         NEW a,
         a = [Zero EXCEPT !.type = "load_balance", !.mode = mode, !.weight = wt, !.arr = arr,
                          !.num = n]
  PROVE  Shape(a)
<1>0. a \in Action
  <2>1. n \in 0..MAX_INTERFACE_CNT
    BY SizesAssumption
  <2> QED BY <2>1, ZeroType DEF Action
<1>1. /\ a.type = "load_balance" /\ a.mode = mode /\ a.weight = wt /\ a.arr = arr /\ a.num = n
      /\ a.ref = 0 /\ a.switch = {} /\ a.fwd = 0
      /\ a.cw = 0 /\ a.gcd = 0 /\ a.mw = 0 /\ a.index = 0 /\ a.addi = Zero.addi
  BY ZeroType, ZeroFields DEF Action
<1>2. \A e \in EncapNames : e \notin a.switch /\ a.addi[e] = NoEncap
  BY <1>1, ZeroFields
<1>3. \A k \in Slots : IF k <= a.num THEN a.arr[k] \in Interfaces ELSE a.arr[k] = 0
  BY <1>1
<1>4. \A k \in Slots : IF a.mode = "wrr" /\ k <= a.num THEN a.weight[k] \in C_INT ELSE a.weight[k] = 0
  BY <1>1
<1>5. a.num > 0
  BY <1>1
<1> QED BY <1>0, <1>1, <1>2, <1>3, <1>4, <1>5 DEF Shape

\* trans_action_content_basic_actions: what it accepts can be stored.
LEMMA BasicShape ==
  ASSUME NEW d, IsBasis(d), trans_action_content_basic_actions(d).st = "ok"
  PROVE  Shape(trans_action_content_basic_actions(d).a)
<1> DEFINE t == trans_action_content_basic_actions(d)
<1>0. Bad.st = "bad" /\ Raise.st = "raise" /\ \A a : Good(a).st = "ok" /\ Good(a).a = a
  BY DEF Bad, Raise, Good
<1>1. CASE t = Good([Zero EXCEPT !.type = "drop"])
  BY <1>0, <1>1, DropShape
<1>2. CASE /\ 0 \notin Range(Names(d)) /\ Len(Names(d)) = 1
           /\ t = Good([Zero EXCEPT !.type = "forward", !.fwd = Names(d)[1]])
  <2>1. Names(d) \in Seq(Interfaces \cup {0})
    BY DEF IsBasis, Names
  <2>2. Names(d)[1] \in Interfaces
    <3>1. 1 \in DOMAIN Names(d) /\ Names(d)[1] \in Interfaces \cup {0}
      <4>1. Len(Names(d)) = 1
        BY <1>2
      <4> QED BY ONLY <4>1, <2>1
    <3>2. Names(d)[1] \in Range(Names(d))
      BY <3>1 DEF Range
    <3> QED BY <1>2, <3>1, <3>2
  <2> QED BY <1>0, <1>2, <2>2, ForwardShape
<1>3. CASE \E r : /\ 0 \notin Range(Names(d)) /\ Names(d) # <<>>
                  /\ Fits(Len(Names(d)))
                  /\ r = trans_action_content_basic_load_balance([Zero EXCEPT !.type = "load_balance"],
                           Len(Names(d)), Mode(d), Weight(d))
                  /\ r.st = "ok"
                  /\ t = Good([r.a EXCEPT !.arr = Array(Names(d)), !.num = Len(Names(d))])
  <2> DEFINE z == [Zero EXCEPT !.type = "load_balance"]
             n == Len(Names(d))
             ws == [k \in DOMAIN Weight(d) |-> c_int(Weight(d)[k])]
  <2>0. PICK r : /\ 0 \notin Range(Names(d)) /\ Names(d) # <<>> /\ Fits(n)
                 /\ r = trans_action_content_basic_load_balance(z, n, Mode(d), Weight(d))
                 /\ r.st = "ok"
                 /\ t = Good([r.a EXCEPT !.arr = Array(Names(d)), !.num = n])
    BY <1>3
  <2> HIDE DEF t, ws
  <2>1. Names(d) \in Seq(Interfaces \cup {0}) /\ n \in 1..MAX_INTERFACE_CNT
    <3>1. Names(d) \in Seq(Interfaces \cup {0})
      BY DEF IsBasis, Names
    <3>2. n \in Nat /\ n # 0
      BY <3>1, <2>0
    <3> QED BY <2>0, <3>1, <3>2, SizesAssumption DEF Fits
  <2>2. \A k \in 1..n : Names(d)[k] \in Interfaces
    BY <2>0, <2>1 DEF Range
  <2>3. /\ Array(Names(d)) \in [Slots -> Interfaces \cup {0}]
        /\ \A k \in Slots : IF k <= n THEN Array(Names(d))[k] \in Interfaces
                            ELSE Array(Names(d))[k] = 0
    BY <2>1, <2>2, ArrayType, SizesAssumption DEF Slots
  <2>4. z \in Action
    BY ZeroType DEF Action
  <2>5. CASE /\ Mode(d) \in Modes /\ Mode(d) # "wrr" /\ r = Good([z EXCEPT !.mode = Mode(d)])
    <3>1. r.a = [z EXCEPT !.mode = Mode(d)]
      BY <2>5, <1>0
    <3> DEFINE a == [r.a EXCEPT !.arr = Array(Names(d)), !.num = n]
               b == [Zero EXCEPT !.type = "load_balance", !.mode = Mode(d), !.weight = Zero.weight,
                                 !.arr = Array(Names(d)), !.num = n]
    <3>2. Zero.weight \in [Slots -> Int]
      BY ZeroType DEF Action
    <3>3. a = b
      BY <3>1, ZeroType DEF Action
    <3>5. \A k \in Slots : Zero.weight[k] = 0
      BY ZeroFields
    <3> HIDE DEF a, b
    <3>6. Shape(b)
      BY BalanceRecord, <2>5, <3>2, <2>3, <2>1, <3>5 DEF b
    <3> QED BY <3>3, <3>6, <2>0, <1>0 DEF a, t
  <2>6. CASE /\ Mode(d) = "wrr" /\ Len(Weight(d)) = n /\ ~\E w \in Range(Weight(d)) : w <= 0
             /\ n <= MAX_LOAD_BALANCE_NODE
             /\ r = Good([z EXCEPT !.mode = Mode(d), !.weight = Array(ws)])
    <3>1. r.a = [z EXCEPT !.mode = Mode(d), !.weight = Array(ws)]
      BY <2>6, <1>0
    <3> DEFINE a == [r.a EXCEPT !.arr = Array(Names(d)), !.num = n]
               b == [Zero EXCEPT !.type = "load_balance", !.mode = Mode(d),
                                 !.weight = Array(ws),
                                 !.arr = Array(Names(d)), !.num = n]
    <3>2. Weight(d) \in Seq(Int)
      BY DEF IsBasis, Weight
    <3>3. ws \in Seq(C_INT) /\ Len(ws) = n
      <4>1. DOMAIN Weight(d) = 1..n /\ \A k \in 1..n : Weight(d)[k] \in Int
        BY <3>2, <2>6
      <4>2. \A k \in 1..n : c_int(Weight(d)[k]) \in C_INT
        BY <4>1, CInt
      <4>3. ws = [k \in 1..n |-> c_int(Weight(d)[k])]
        BY <4>1 DEF ws
      <4> HIDE DEF n
      <4> QED BY <4>2, <4>3, <2>1
    <3>4. Array(ws) \in [Slots -> Int] /\ \A k \in Slots : Array(ws)[k] = IF k <= n THEN ws[k] ELSE 0
      <4>1. C_INT \subseteq Int /\ 0 \in Int
        BY CInt
      <4> QED BY <4>1, <3>3, ArrayType
    <3>6. \A k \in Slots : IF k <= n THEN Array(ws)[k] \in C_INT ELSE Array(ws)[k] = 0
      <4>1. \A k \in Slots : k <= n => k \in 1..n
        BY <2>1, SizesAssumption DEF Slots
      <4>2. \A k \in 1..n : ws[k] \in C_INT
        BY <3>3
      <4> QED BY <4>1, <4>2, <3>4
    <3>7. a = b
      BY <3>1, ZeroType DEF Action
    <3>8. Mode(d) \in Modes
      BY <2>6 DEF Modes
    <3> HIDE DEF a, b
    <3>10. Shape(b)
      BY BalanceRecord, <2>6, <3>8, <3>4, <2>3, <2>1, <3>6 DEF b
    <3> QED BY <3>7, <3>10, <2>0, <1>0 DEF a, t
  <2>7. <2>5!1 \/ <2>6!1
    <3> HIDE DEF z, n
    <3>1. \/ /\ Mode(d) \in Modes /\ Mode(d) # "wrr" /\ r = Good([z EXCEPT !.mode = Mode(d)])
          \/ /\ Mode(d) = "wrr" /\ Len(Weight(d)) = n /\ ~\E w \in Range(Weight(d)) : w <= 0
             /\ ~(n > MAX_LOAD_BALANCE_NODE)
             /\ r = Good([z EXCEPT !.mode = Mode(d), !.weight = Array(ws)])
      BY <2>0, <1>0 DEF trans_action_content_basic_load_balance, ws
    <3> QED BY <3>1, <2>1, SizesAssumption
  <2> QED BY <2>5, <2>6, <2>7
<1>4. <1>1!1 \/ <1>2!1 \/ <1>3!1
  BY <1>0 DEF trans_action_content_basic_actions
<1> QED BY <1>1, <1>2, <1>3, <1>4

\* The bytes of a number fit into bytes.
LEMMA BytesType ==
  ASSUME NEW v \in Nat
  PROVE  vni_bytes(v) \in Byte \X Byte \X Byte \X Byte /\ port_bytes(v) \in Byte \X Byte
<1>1. \A x \in Nat : x % 256 \in Byte
  BY DEF Byte
<1>2. v \div 65536 \in Nat /\ v \div 256 \in Nat /\ 0 \in Byte
  BY SMT DEF Byte
<1> QED BY <1>1, <1>2, SMT DEF vni_bytes, port_bytes

\* What is said of the keys of an encapsulation that is accepted.
LEMMA InRangeIs ==
  ASSUME NEW c, \A k \in DOMAIN c : InRange(k, c[k])
  PROVE  /\ "dip" \in DOMAIN c => c["dip"] \in {4, 6}
         /\ "dscp" \in DOMAIN c => c["dscp"] \in 0..63
         /\ "vni" \in DOMAIN c => c["vni"] \in Vnis
         /\ "dport" \in DOMAIN c => c["dport"] \in Ports
         /\ "session" \in DOMAIN c => c["session"] \in Sessions
         /\ "type" \in DOMAIN c => c["type"] \in 1..3
<1>1. "dip" \in DOMAIN c => c["dip"] \in {4, 6}
  BY SMT DEF InRange, Vnis, Ports, Sessions
<1>2. "dscp" \in DOMAIN c => c["dscp"] \in 0..63
  BY SMT DEF InRange, Vnis, Ports, Sessions
<1>3. "vni" \in DOMAIN c => c["vni"] \in Vnis
  BY SMT DEF InRange, Vnis, Ports, Sessions
<1>4. "dport" \in DOMAIN c => c["dport"] \in Ports
  BY SMT DEF InRange, Vnis, Ports, Sessions
<1>5. "session" \in DOMAIN c => c["session"] \in Sessions
  BY SMT DEF InRange, Vnis, Ports, Sessions
<1>6. "type" \in DOMAIN c => c["type"] \in 1..3
  BY SMT DEF InRange, Vnis, Ports, Sessions
<1> QED BY <1>1, <1>2, <1>3, <1>4, <1>5, <1>6

\* An encapsulation that is not refused is stored in its shape.
LEMMA SetEncapShape ==
  ASSUME NEW e, NEW c, ~Refused(e, c), c.switch = 1
  PROVE  e \in EncapNames /\ EncapShape(e, SetEncap(e, c))
<1>1. e \in EncapNames
  BY EncapsAre DEF Refused
<1>2. /\ DOMAIN c \subseteq Known[e] /\ Must[e] \subseteq DOMAIN c
      /\ \A k \in DOMAIN c : InRange(k, c[k])
  BY DEF Refused
<1>3. "dip" \in DOMAIN c /\ c.dip \in {4, 6}
  <2>1. "dip" \in Must[e]
    BY <1>1 DEF EncapNames, Must
  <2> QED BY <1>2, <2>1, InRangeIs
<1>4. Value(c, "dscp") \in 0..63
  BY <1>2, InRangeIs DEF Value, Has, Default
<1>5. Value(c, "vni") \in Vnis
  <2>1. 0 \in Vnis
    BY SMT DEF Vnis
  <2> QED BY <1>2, <2>1, InRangeIs DEF Value, Has, Default
<1>6. Value(c, "type") \in 1..3
  BY <1>2, InRangeIs DEF Value, Has, Default
<1>7. Value(c, "session") \in Sessions
  <2>1. 0 \in Sessions
    BY SMT DEF Sessions
  <2> QED BY <1>2, <2>1, InRangeIs DEF Value, Has, Default
<1>8. e = "vxlan" => c.dport \in Ports
  <2> SUFFICES ASSUME e = "vxlan" PROVE c.dport \in Ports
    OBVIOUS
  <2>1. "dport" \in Must[e]
    BY DEF Must
  <2> QED BY <1>2, <2>1, InRangeIs
<1> DEFINE b == [NoEncap EXCEPT !.dip = c.dip, !.dscp = Value(c, "dscp") * 4]
<1>9. /\ b.dip \in {4, 6} /\ b.dscp = Value(c, "dscp") * 4
      /\ b.vni = <<0, 0, 0, 0>> /\ b.dport = <<0, 0>> /\ b.type = 0 /\ b.session = 0
  BY <1>3 DEF NoEncap
<1>10. b \in Encap
  <2> DEFINE y == Value(c, "dscp") * 4
  <2>1. y \in Nat
    BY <1>4
  <2> HIDE DEF y
  <2>2. c.dip \in {0, 4, 6}
    BY <1>3
  <2>3. [NoEncap EXCEPT !.dip = c.dip, !.dscp = y] \in Encap
    BY <2>1, <2>2, ZeroType DEF Encap
  <2> QED BY <2>3 DEF y
<1> HIDE DEF b
<1>11. CASE e = "gre"
  <2>1. SetEncap(e, c) = b
    BY <1>11 DEF SetEncap, b
  <2> QED BY <1>1, <1>4, <1>9, <1>10, <1>11, <2>1 DEF EncapShape
<1>12. CASE e = "erspan"
  <2> DEFINE r == [b EXCEPT !.session = Value(c, "session"), !.type = Value(c, "type")]
  <2>1. SetEncap(e, c) = r
    BY <1>12 DEF SetEncap, b
  <2>2. r \in Encap
    <3>1. Value(c, "type") \in 0..3
      BY <1>6
    <3> QED BY <3>1, <1>7, <1>10 DEF Encap
  <2>3. /\ r.dip = b.dip /\ r.dscp = b.dscp /\ r.vni = b.vni /\ r.dport = b.dport
        /\ r.type = Value(c, "type")
    BY <1>10 DEF Encap
  <2> HIDE DEF r
  <2> QED BY <1>1, <1>4, <1>6, <1>9, <1>12, <2>1, <2>2, <2>3 DEF EncapShape
<1>13. CASE e = "vxlan"
  <2> DEFINE V == Value(c, "vni")
             r == [b EXCEPT !.vni = vni_bytes(V), !.dport = port_bytes(c.dport)]
  <2>1. SetEncap(e, c) = r
    BY <1>13, <1>10 DEF SetEncap, b, set_additional_vxlan_dport, set_additional_vxlan_vni, Encap
  <2>2. r \in Encap
    <3>1. V \in Nat /\ c.dport \in Nat
      BY <1>5, <1>8, <1>13, SMT DEF Vnis, Ports
    <3>2. vni_bytes(V) \in Byte \X Byte \X Byte \X Byte /\ port_bytes(c.dport) \in Byte \X Byte
      BY <3>1, BytesType
    <3> HIDE DEF V
    <3> QED BY <1>10, <3>2 DEF Encap
  <2>3. /\ r.dip = b.dip /\ r.dscp = b.dscp /\ r.vni = vni_bytes(V)
        /\ r.dport = port_bytes(c.dport) /\ r.type = b.type /\ r.session = b.session
    BY <1>10 DEF Encap
  <2> HIDE DEF r
  <2> QED BY <1>1, <1>4, <1>5, <1>8, <1>9, <1>13, <2>1, <2>2, <2>3 DEF EncapShape
<1> QED BY <1>1, <1>11, <1>12, <1>13 DEF EncapNames

\* trans_dict_to_action_struct: what restd accepts has the shape of an action.
LEMMA TransShape ==
  ASSUME NEW d, IsDict(d), trans_dict_to_action_struct(d).st = "ok"
  PROVE  Shape(trans_dict_to_action_struct(d).a)
<1> DEFINE t == trans_dict_to_action_struct(d)
           r == trans_action_content_basic_actions(d.basis)
<1>0. Bad.st = "bad" /\ Raise.st = "raise" /\ \A a : Good(a).st = "ok" /\ Good(a).a = a
  BY DEF Bad, Raise, Good
<1>1. /\ Has(d, "basis")
      /\ \/ t = r
         \/ r.st = "ok" /\ t = trans_action_content_addi_actions(r.a, d.additional)
  BY <1>0 DEF trans_dict_to_action_struct
<1>2. r.st = "ok"
  BY <1>1
<1>3. Shape(r.a)
  BY <1>1, <1>2, BasicShape DEF IsDict
<1>4. CASE t = r
  BY <1>3, <1>4
<1>5. CASE t = trans_action_content_addi_actions(r.a, d.additional)
  <2> DEFINE ad == d.additional
             on == {e \in DOMAIN ad : ad[e].switch = 1}
             f == [e \in Range(Encaps) |-> IF e \in on THEN SetEncap(e, ad[e]) ELSE NoEncap]
             x == [r.a EXCEPT !.switch = on, !.addi = f]
  <2>1. (\A e \in DOMAIN ad : ~Refused(e, ad[e])) /\ t.a = x
    BY <1>0, <1>5 DEF trans_action_content_addi_actions
  <2>2. \A e \in on : e \in EncapNames /\ EncapShape(e, SetEncap(e, ad[e]))
    BY <2>1, SetEncapShape
  <2>3. on \subseteq EncapNames
    BY <2>2
  <2> HIDE DEF on
  <2>4. f = [e \in EncapNames |-> IF e \in on THEN SetEncap(e, ad[e]) ELSE NoEncap]
    BY EncapsAre
  <2>5. f \in [EncapNames -> Encap]
    BY <2>2, <2>4, ZeroType DEF EncapShape
  <2>6. \A e \in EncapNames : IF e \in on THEN EncapShape(e, f[e]) ELSE f[e] = NoEncap
    BY <2>2, <2>4
  <2> HIDE DEF f, ad, r, t
  <2>7. /\ x \in Action /\ x.switch = on /\ x.addi = f
        /\ x.ref = r.a.ref /\ x.type = r.a.type /\ x.fwd = r.a.fwd /\ x.num = r.a.num
        /\ x.arr = r.a.arr /\ x.mode = r.a.mode /\ x.cw = r.a.cw /\ x.gcd = r.a.gcd
        /\ x.mw = r.a.mw /\ x.index = r.a.index /\ x.weight = r.a.weight
    BY <1>3, <2>3, <2>5 DEF Shape, Action
  <2> HIDE DEF x
  <2>8. \A e \in EncapNames : IF e \in x.switch THEN EncapShape(e, x.addi[e]) ELSE x.addi[e] = NoEncap
    BY <2>6, <2>7
  <2>9. Shape(x)
    BY <1>3, <2>7, <2>8 DEF Shape
  <2> QED BY <2>1, <2>9 DEF t
<1> QED BY <1>1, <1>4, <1>5

-----------------------------------------------------------------------------
(* Greatest common divisors.                                               *)

\* Induction up to n, as a statement about a set.
LEMMA UpTo ==
  ASSUME NEW S, NEW n \in Nat, 0 \in S, \A k \in 0..n : k < n /\ k \in S => k + 1 \in S
  PROVE  \A k \in 0..n : k \in S
<1> DEFINE Not == {k \in 0..n : k \notin S}
           R == OpToRel(<, Nat)
<1> SUFFICES ASSUME Not # {} PROVE FALSE
  OBVIOUS
<1>1. \E k \in Not : \A j \in Not : ~(<<j, k>> \in R)
  <2>1. IsWellFoundedOn(R, Nat)
    BY NatLessThanWellFounded
  <2>2. Not \subseteq Nat
    OBVIOUS
  <2> HIDE DEF R, Not
  <2> QED BY <2>1, <2>2, WFMin
<1>2. PICK k \in Not : \A j \in Not : ~(<<j, k>> \in R)
  BY <1>1
<1>3. k \in 0..n /\ k \notin S /\ k # 0
  BY <1>2
<1>4. k - 1 \in 0..n /\ k - 1 < n /\ (k - 1) + 1 = k /\ <<k - 1, k>> \in R
  BY <1>3 DEF OpToRel
<1>5. k - 1 \notin Not
  BY <1>2, <1>4
<1> QED BY <1>3, <1>4, <1>5

\* Division with a remainder.
LEMMA DivMod ==
  ASSUME NEW y \in Nat, y > 0, NEW x \in Nat
  PROVE  x = y * (x \div y) + (x % y) /\ x \div y \in Nat /\ x % y \in 0..(y - 1)
  OBVIOUS

\* A number that divides y and the rest of x by y divides x.
LEMMA DividesRest ==
  ASSUME NEW g \in Nat, g > 0, NEW y \in Nat, y > 0, NEW x \in Nat,
         y % g = 0, (x % y) % g = 0
  PROVE  x % g = 0
<1> DEFINE k == x \div y
           r == x % y
<1>1. x = y * k + r /\ k \in Nat /\ r \in Nat
  BY DivMod
<1> HIDE DEF k, r
<1>2. PICK p \in Nat : y = g * p
  <2>1. y = g * (y \div g) + (y % g) /\ y \div g \in Nat
    BY DivMod
  <2> QED BY <2>1
<1>3. PICK q \in Nat : r = g * q
  <2>1. r = g * (r \div g) + (r % g) /\ r \div g \in Nat
    BY DivMod, <1>1
  <2>2. r % g = 0
    BY DEF r
  <2>3. r = g * (r \div g)
    BY <1>1, <2>1, <2>2
  <2> QED BY <2>1, <2>3
<1>4. (g * p) * k + g * q = g * (p * k + q)
  BY <1>1
<1>5. p * k + q \in Nat
  BY <1>1
<1>6. \A z \in Nat : (g * z) % g = 0
  OBVIOUS
<1>7. x = g * (p * k + q)
  BY <1>1, <1>2, <1>3, <1>4
<1> QED BY <1>5, <1>6, <1>7

\* The recursive function of calc_gcd exists.
LEMMA EuclidExists ==
  ASSUME NEW b \in Nat
  PROVE  Euclid(b) = [y \in 0..b |-> [x \in 0..b |-> IF y = 0 THEN x ELSE Euclid(b)[x % y][y]]]
<1> DEFINE Is(f, m) == f = [y \in 0..m |-> [x \in 0..b |-> IF y = 0 THEN x ELSE f[x % y][y]]]
           S == {m \in 0..b : \E f : Is(f, m)}
<1>1. 0 \in S
  <2> DEFINE f == [y \in 0..0 |-> [x \in 0..b |-> x]]
             h == [y \in 0..0 |-> [x \in 0..b |-> IF y = 0 THEN x ELSE f[x % y][y]]]
  <2>1. \A y \in 0..0 : f[y] = h[y]
    OBVIOUS
  <2>2. f = h
    BY <2>1
  <2>3. Is(f, 0)
    BY <2>2
  <2> HIDE DEF f, Is
  <2> QED BY <2>3
<1>2. ASSUME NEW m \in 0..b, m < b, m \in S
      PROVE  m + 1 \in S
  <2>1. PICK f : Is(f, m)
    BY <1>2
  <2> DEFINE last == [x \in 0..b |-> f[x % (m + 1)][m + 1]]
             e == [y \in 0..m + 1 |-> IF y = m + 1 THEN last ELSE f[y]]
             h == [y \in 0..m + 1 |-> [x \in 0..b |-> IF y = 0 THEN x ELSE e[x % y][y]]]
  <2>2. ASSUME NEW y \in 0..m + 1
        PROVE  e[y] = h[y]
    <3>1. CASE y = m + 1
      <4>1. \A x \in 0..b : e[x % y][y] = f[x % (m + 1)][m + 1]
        <5> TAKE x \in 0..b
        <5>1. x % (m + 1) \in 0..m
          BY DivMod
        <5>2. e[x % (m + 1)] = f[x % (m + 1)]
          BY <5>1
        <5> QED BY <5>2, <3>1
      <4>2. e[y] = last /\ y # 0
        BY <3>1
      <4>3. h[y] = [x \in 0..b |-> IF y = 0 THEN x ELSE e[x % y][y]]
        OBVIOUS
      <4> HIDE DEF e, h
      <4> QED BY <4>1, <4>2, <4>3
    <3>2. CASE y = 0
      BY <3>2, <2>1
    <3>3. CASE y \in 1..m
      <4>1. \A x \in 0..b : e[x % y] = f[x % y]
        <5> TAKE x \in 0..b
        <5>1. x % y \in 0..m
          BY DivMod, <3>3
        <5> QED BY <5>1
      <4>2. e[y] = f[y] /\ y # 0 /\ y \in 0..m
        BY <3>3
      <4>3. f[y] = [x \in 0..b |-> IF y = 0 THEN x ELSE f[x % y][y]]
        BY <2>1, <4>2, Zenon
      <4>4. h[y] = [x \in 0..b |-> IF y = 0 THEN x ELSE e[x % y][y]]
        OBVIOUS
      <4> HIDE DEF e, h
      <4> QED BY <4>1, <4>2, <4>3, <4>4
    <3> QED BY <3>1, <3>2, <3>3
  <2>3. e = h
    <3>1. e = [y \in 0..m + 1 |-> e[y]] /\ h = [y \in 0..m + 1 |-> h[y]]
      OBVIOUS
    <3> HIDE DEF e, h
    <3> QED BY <2>2, <3>1
  <2>4. Is(e, m + 1)
    BY <2>3 DEF h
  <2>5. m + 1 \in 0..b
    BY <1>2
  <2> HIDE DEF e, Is
  <2> QED BY <2>4, <2>5
<1>3. b \in S
  <2> HIDE DEF S
  <2>1. \A k \in 0..b : k \in S
    BY <1>1, <1>2, UpTo
  <2> QED BY <2>1
<1>4. \E f : Is(f, b)
  <2> HIDE DEF Is
  <2> QED BY <1>3
<1> QED BY <1>4, Zenon DEF Euclid

\* Euclid's algorithm ends with a divisor of both numbers.
LEMMA EuclidDivides ==
  ASSUME NEW b \in Nat, NEW y \in 0..b, NEW x \in 0..b, y > 0 \/ x > 0
  PROVE  LET g == Euclid(b)[y][x] IN g \in Nat /\ g > 0 /\ x % g = 0 /\ y % g = 0
<1> DEFINE Ok(u, v) == LET g == Euclid(b)[u][v] IN g \in Nat /\ g > 0 /\ v % g = 0 /\ u % g = 0
           Up(m) == \A u \in 0..m, v \in 0..b : u > 0 \/ v > 0 => Ok(u, v)
           S == {m \in 0..b : Up(m)}
<1>0. \A u \in 0..b, v \in 0..b : Euclid(b)[u][v] = IF u = 0 THEN v ELSE Euclid(b)[v % u][u]
  <2> DEFINE E == Euclid(b)
  <2>1. E = [u \in 0..b |-> [v \in 0..b |-> IF u = 0 THEN v ELSE E[v % u][u]]]
    BY EuclidExists
  <2> HIDE DEF E
  <2>2. \A u \in 0..b : E[u] = [v \in 0..b |-> IF u = 0 THEN v ELSE E[v % u][u]]
    BY <2>1, Zenon
  <2>3. \A u \in 0..b, v \in 0..b : E[u][v] = IF u = 0 THEN v ELSE E[v % u][u]
    BY <2>2, Zenon
  <2> QED BY <2>3 DEF E
<1>1. 0 \in S
  <2> SUFFICES ASSUME NEW v \in 0..b, v > 0 PROVE Ok(0, v)
    OBVIOUS
  <2>1. Euclid(b)[0][v] = v
    BY <1>0
  <2>2. v % v = 0 /\ 0 % v = 0
    OBVIOUS
  <2> QED BY <2>1, <2>2
<1>2. ASSUME NEW m \in 0..b, m < b, m \in S
      PROVE  m + 1 \in S
  <2> SUFFICES ASSUME NEW v \in 0..b PROVE Ok(m + 1, v)
    <3> HIDE DEF Ok
    <3> QED BY <1>2
  <2> DEFINE u == m + 1
  <2>0. u \in 0..b /\ u # 0 /\ u \in Nat /\ u > 0
    BY <1>2
  <2> HIDE DEF u
  <2>1. Euclid(b)[u][v] = Euclid(b)[v % u][u]
    BY <1>0, <2>0
  <2>2. v % u \in 0..m
    BY DivMod DEF u
  <2>3. Ok(v % u, u)
    <3> HIDE DEF Ok
    <3> QED BY <1>2, <2>0, <2>2
  <2> DEFINE g == Euclid(b)[v % u][u]
  <2>4. g \in Nat /\ g > 0 /\ u % g = 0 /\ (v % u) % g = 0
    BY <2>3
  <2> HIDE DEF g
  <2>5. v % g = 0
    <3>1. v \in Nat
      OBVIOUS
    <3> QED BY ONLY <3>1, <2>0, <2>4, DividesRest
  <2> QED BY <2>1, <2>4, <2>5 DEF g, u
<1> HIDE DEF Ok
<1>3. b \in S
  <2> HIDE DEF S
  <2>1. \A k \in 0..b : k \in S
    BY <1>1, <1>2, UpTo
  <2> QED BY <2>1
<1>4. Ok(y, x)
  BY <1>3
<1> QED BY <1>4 DEF Ok

\* calc_gcd divides both numbers.
LEMMA GcdDivides ==
  ASSUME NEW a \in Nat, NEW b \in Nat, b > 0
  PROVE  LET g == calc_gcd(a, b) IN g \in Nat /\ g > 0 /\ a % g = 0 /\ b % g = 0
<1>1. a % b \in 0..b
  BY DivMod
<1> DEFINE g == calc_gcd(a, b)
<1>2. g \in Nat /\ g > 0 /\ b % g = 0 /\ (a % b) % g = 0
  BY <1>1, EuclidDivides DEF calc_gcd
<1> HIDE DEF g
<1>3. a % g = 0
  BY <1>2, DividesRest
<1> QED BY <1>2, <1>3 DEF g

\* The recursive function of weight_calc_max exists.
LEMMA DivisorsExist ==
  ASSUME NEW w, NEW n \in Nat
  PROVE  Divisors(w, n) =
           [i \in 1..n |-> IF i = 1 THEN w[1] ELSE calc_gcd(w[i], Divisors(w, n)[i-1])]
<1> DEFINE Is(f, m) == f = [i \in 1..m |-> IF i = 1 THEN w[1] ELSE calc_gcd(w[i], f[i-1])]
           S == {m \in 0..n : \E f : Is(f, m)}
<1>1. 0 \in S
  <2> DEFINE f == [i \in 1..0 |-> 0]
             h == [i \in 1..0 |-> IF i = 1 THEN w[1] ELSE calc_gcd(w[i], f[i-1])]
  <2>1. \A i \in 1..0 : f[i] = h[i]
    OBVIOUS
  <2>2. f = h
    BY <2>1
  <2>3. Is(f, 0)
    BY <2>2
  <2> HIDE DEF f, Is
  <2> QED BY <2>3
<1>2. ASSUME NEW m \in 0..n, m < n, m \in S
      PROVE  m + 1 \in S
  <2>1. PICK f : Is(f, m)
    BY <1>2
  <2> DEFINE last == IF m = 0 THEN w[1] ELSE calc_gcd(w[m + 1], f[m])
             e == [i \in 1..m + 1 |-> IF i = m + 1 THEN last ELSE f[i]]
             h == [i \in 1..m + 1 |-> IF i = 1 THEN w[1] ELSE calc_gcd(w[i], e[i-1])]
  <2>2. ASSUME NEW i \in 1..m + 1
        PROVE  e[i] = h[i]
    <3>1. CASE i = m + 1
      <4>1. e[i] = last /\ i - 1 = m /\ (m = 0 <=> i = 1)
        BY <3>1
      <4>2. m # 0 => e[i-1] = f[m]
        BY <3>1
      <4>3. h[i] = IF i = 1 THEN w[1] ELSE calc_gcd(w[i], e[i-1])
        OBVIOUS
      <4> HIDE DEF e, h
      <4> QED BY <3>1, <4>1, <4>2, <4>3
    <3>2. CASE i \in 1..m
      <4>1. e[i] = f[i] /\ (i # 1 => e[i-1] = f[i-1])
        BY <3>2
      <4>2. f[i] = IF i = 1 THEN w[1] ELSE calc_gcd(w[i], f[i-1])
        BY <2>1, <3>2, Zenon
      <4>3. h[i] = IF i = 1 THEN w[1] ELSE calc_gcd(w[i], e[i-1])
        OBVIOUS
      <4> HIDE DEF e, h
      <4> QED BY <4>1, <4>2, <4>3
    <3> QED BY <3>1, <3>2
  <2>3. e = h
    <3>1. e = [i \in 1..m + 1 |-> e[i]] /\ h = [i \in 1..m + 1 |-> h[i]]
      OBVIOUS
    <3> HIDE DEF e, h
    <3> QED BY <2>2, <3>1
  <2>4. Is(e, m + 1)
    BY <2>3 DEF h
  <2>5. m + 1 \in 0..n
    BY <1>2
  <2> HIDE DEF e, Is
  <2> QED BY <2>4, <2>5
<1>3. n \in S
  <2> HIDE DEF S
  <2>1. \A k \in 0..n : k \in S
    BY <1>1, <1>2, UpTo
  <2> QED BY <2>1
<1>4. \E f : Is(f, n)
  <2> HIDE DEF Is
  <2> QED BY <1>3
<1> QED BY <1>4, Zenon DEF Divisors

\* What divides a divisor divides the number.
LEMMA DividesTwice ==
  ASSUME NEW g \in Nat, g > 0, NEW h \in Nat, h > 0, NEW x \in Nat, h % g = 0, x % h = 0
  PROVE  x % g = 0
<1>1. (x % h) % g = 0
  <2>1. 0 % g = 0
    OBVIOUS
  <2> QED BY <2>1
<1> QED BY <1>1, DividesRest

\* weight_calc_max: the divisor it stores is positive and divides every weight.
LEMMA WeightsDivided ==
  ASSUME NEW w, NEW n \in Nat, n > 0, \A k \in 1..n : w[k] \in Nat /\ w[k] > 0
  PROVE  LET g == weight_calc_max(w, n).gcd
         IN  g \in Nat /\ g > 0 /\ \A k \in 1..n : w[k] % g = 0
<1> DEFINE D == Divisors(w, n)
           Ok(m) == D[m] \in Nat /\ D[m] > 0 /\ \A k \in 1..m : w[k] % D[m] = 0
           S == {m \in 0..n : m > 0 => Ok(m)}
<1>0. \A i \in 1..n : D[i] = IF i = 1 THEN w[1] ELSE calc_gcd(w[i], D[i-1])
  <2>1. D = [i \in 1..n |-> IF i = 1 THEN w[1] ELSE calc_gcd(w[i], D[i-1])]
    BY DivisorsExist
  <2> HIDE DEF D
  <2> QED BY <2>1, Zenon
<1> HIDE DEF D
<1>1. 0 \in S
  OBVIOUS
<1>2. ASSUME NEW m \in 0..n, m < n, m \in S
      PROVE  m + 1 \in S
  <2>1. m + 1 \in 1..n /\ m + 1 \in 0..n
    BY <1>2
  <2>2. CASE m = 0
    <3>1. D[1] = w[1] /\ w[1] \in Nat /\ w[1] > 0
      BY <1>0
    <3>2. w[1] % w[1] = 0
      BY <3>1
    <3> QED BY <3>1, <3>2, <2>1, <2>2
  <2>3. CASE m > 0
    <3>1. D[m] \in Nat /\ D[m] > 0 /\ \A k \in 1..m : w[k] % D[m] = 0
      BY <1>2, <2>3
    <3>2. w[m + 1] \in Nat
      BY <2>1
    <3>3. D[m + 1] = calc_gcd(w[m + 1], D[m])
      <4>1. D[m + 1] = IF m + 1 = 1 THEN w[1] ELSE calc_gcd(w[m + 1], D[(m + 1) - 1])
        BY <1>0, <2>1
      <4>2. (m + 1) - 1 = m /\ m + 1 # 1
        BY <2>3
      <4> QED BY <4>1, <4>2
    <3>4. /\ D[m + 1] \in Nat /\ D[m + 1] > 0
          /\ w[m + 1] % D[m + 1] = 0 /\ D[m] % D[m + 1] = 0
      BY <3>1, <3>2, <3>3, GcdDivides
    <3>5. ASSUME NEW k \in 1..m
          PROVE  w[k] % D[m + 1] = 0
      <4>1. w[k] \in Nat /\ w[k] % D[m] = 0
        BY <3>1
      <4> QED BY <4>1, <3>1, <3>4, DividesTwice
    <3>6. \A k \in 1..m + 1 : w[k] % D[m + 1] = 0
      <4>1. \A k \in 1..m + 1 : k = m + 1 \/ k \in 1..m
        OBVIOUS
      <4> QED BY <4>1, <3>4, <3>5
    <3>7. Ok(m + 1)
      BY <3>4, <3>6
    <3> HIDE DEF Ok
    <3> QED BY <2>1, <3>7
  <2> QED BY <2>2, <2>3
<1> HIDE DEF Ok
<1>3. n \in S
  <2> HIDE DEF S
  <2>1. \A k \in 0..n : k \in S
    BY <1>1, <1>2, UpTo
  <2> QED BY <2>1
<1>4. Ok(n)
  BY <1>3
<1>5. weight_calc_max(w, n).gcd = D[n]
  BY DEF weight_calc_max, D
<1> QED BY <1>4, <1>5 DEF Ok

-----------------------------------------------------------------------------
(* What GET and PATCH read of an action is what was written.               *)

\* Structs with the same fields are the same.
LEMMA ActionEq ==
  ASSUME NEW a \in Action, NEW b \in Action,
         a.ref = b.ref, a.type = b.type, a.fwd = b.fwd, a.num = b.num, a.arr = b.arr,
         a.switch = b.switch, a.addi = b.addi, a.mode = b.mode, a.cw = b.cw, a.gcd = b.gcd,
         a.mw = b.mw, a.index = b.index, a.weight = b.weight
  PROVE  a = b
<1> DEFINE F == {"ref", "type", "fwd", "num", "arr", "switch", "addi", "mode", "cw", "gcd", "mw",
                 "index", "weight"}
<1>1. DOMAIN a = F /\ a = [k \in F |-> a[k]]
  BY DEF Action
<1>2. DOMAIN b = F /\ b = [k \in F |-> b[k]]
  BY DEF Action
<1>3. \A k \in F : a[k] = b[k]
  OBVIOUS
<1> HIDE DEF F
<1> QED BY <1>1, <1>2, <1>3

\* The same for an encapsulation.
LEMMA EncapEq ==
  ASSUME NEW a \in Encap, NEW b \in Encap, a.dip = b.dip, a.dscp = b.dscp, a.vni = b.vni,
         a.dport = b.dport, a.type = b.type, a.session = b.session
  PROVE  a = b
  BY DEF Encap

\* The bytes of a VNI and of a port are read as the number they were made of.
LEMMA BytesRead ==
  /\ \A c : \A v \in Vnis : c.vni = vni_bytes(v) => get_additional_vxlan_vni(c) = v
  /\ \A c : \A v \in Ports : c.dport = port_bytes(v) => get_additional_vxlan_dport(c) = v
<1>1. ASSUME NEW v \in Vnis, NEW c, c.vni = vni_bytes(v)
      PROVE  get_additional_vxlan_vni(c) = v
  <2>1. v \in Nat /\ v < 16777216
    BY SMT DEF Vnis
  <2>2. ((v \div 65536) % 256) * 65536 + ((v \div 256) % 256) * 256 + (v % 256) = v
    BY <2>1, SMT
  <2>3. c.vni[1] = (v \div 65536) % 256 /\ c.vni[2] = (v \div 256) % 256 /\ c.vni[3] = v % 256
    BY <1>1, SMT DEF vni_bytes
  <2> QED BY <2>2, <2>3, SMT DEF get_additional_vxlan_vni
<1>2. ASSUME NEW v \in Ports, NEW c, c.dport = port_bytes(v)
      PROVE  get_additional_vxlan_dport(c) = v
  <2>1. v \in Nat /\ v < 65536
    BY SMT DEF Ports
  <2>2. ((v \div 256) % 256) * 256 + (v % 256) = v
    BY <2>1, SMT
  <2>3. c.dport[1] = (v \div 256) % 256 /\ c.dport[2] = v % 256
    BY <1>2, SMT DEF port_bytes
  <2> QED BY <2>2, <2>3, SMT DEF get_additional_vxlan_dport
<1> QED BY <1>1, <1>2

\* An encapsulation that is read is accepted, and is stored as it was.
LEMMA EncapBack ==
  ASSUME NEW e \in EncapNames, NEW c, EncapShape(e, c)
  PROVE  LET f == FormatEncap(e, c)
         IN  f.switch = 1 /\ ~Refused(e, f) /\ SetEncap(e, f) = c
<1> DEFINE f == FormatEncap(e, c)
           common == [switch |-> 1, dmac |-> TRUE, dip |-> c.dip, dscp |-> c.dscp \div 4]
<1>0. c \in Encap /\ c.dip \in {4, 6}
  BY DEF EncapShape
<1>1. PICK x \in 0..63 : c.dscp = x * 4
  BY DEF EncapShape
<1>2. c.dscp \div 4 = x
  BY <1>1
<1>3. /\ DOMAIN common = {"switch", "dmac", "dip", "dscp"} /\ common.switch = 1
      /\ common.dmac = TRUE /\ common.dip = c.dip /\ common.dscp = x
  BY <1>2
<1>4. \A y \in {4, 6} : InRange("dip", y)
  BY SMT DEF InRange
<1>5. InRange("dscp", x) /\ InRange("dmac", TRUE) /\ InRange("switch", 1)
  <2>1. InRange("dscp", x)
    BY SMT DEF InRange
  <2>2. InRange("dmac", TRUE)
    BY SMT DEF InRange
  <2>3. InRange("switch", 1)
    <3>1. \A y : InRange("switch", y)
      BY SMT DEF InRange
    <3> QED BY <3>1
  <2> QED BY <2>1, <2>2, <2>3
<1> DEFINE b == [NoEncap EXCEPT !.dip = c.dip, !.dscp = x * 4]
<1>6. b \in Encap
  <2> DEFINE y == x * 4
  <2>1. y \in Nat
    OBVIOUS
  <2> HIDE DEF y
  <2>2. c.dip \in {0, 4, 6}
    BY <1>0
  <2>3. [NoEncap EXCEPT !.dip = c.dip, !.dscp = y] \in Encap
    BY <2>1, <2>2, ZeroType DEF Encap
  <2> QED BY <2>3 DEF y
<1>7. /\ b.dip = c.dip /\ b.dscp = c.dscp /\ b.vni = <<0, 0, 0, 0>> /\ b.dport = <<0, 0>>
      /\ b.type = 0 /\ b.session = 0
  BY <1>1 DEF NoEncap
<1>8. ASSUME NEW g, g.dip = c.dip, "dscp" \in DOMAIN g, g.dscp = x
      PROVE  [NoEncap EXCEPT !.dip = g.dip, !.dscp = Value(g, "dscp") * 4] = b
  BY <1>8 DEF Value, Has
<1> HIDE DEF common, b
<1>9. CASE e = "gre"
  <2>1. f = common
    BY <1>9 DEF FormatEncap, common
  <2>2. ~Refused(e, f)
    <3>1. e \in Range(Encaps)
      BY EncapsAre
    <3>2. DOMAIN f \subseteq Known[e] /\ Must[e] \subseteq DOMAIN f
      BY <1>3, <1>9, <2>1 DEF Known, Must
    <3>3. \A k \in DOMAIN f : InRange(k, f[k])
      BY <1>0, <1>3, <1>4, <1>5, <2>1
    <3> HIDE DEF f
    <3> QED BY <3>1, <3>2, <3>3, <1>3, <2>1 DEF Refused, Has
  <2>3. SetEncap(e, f) = b
    <3>1. SetEncap(e, f) = [NoEncap EXCEPT !.dip = f.dip, !.dscp = Value(f, "dscp") * 4]
      BY <1>9 DEF SetEncap
    <3> QED BY <3>1, <2>1, <1>3, <1>8
  <2>4. b = c
    <3>1. c.vni = <<0, 0, 0, 0>> /\ c.dport = <<0, 0>> /\ c.type = 0 /\ c.session = 0
      BY <1>9 DEF EncapShape
    <3> QED BY <3>1, <1>0, <1>6, <1>7, EncapEq
  <2> QED BY <1>3, <2>1, <2>2, <2>3, <2>4
<1>10. CASE e = "erspan"
  <2> DEFINE s == [session |-> c.session, type |-> c.type]
  <2>1. f = Extend(common, s)
    BY <1>10 DEF FormatEncap, common
  <2>2. DOMAIN s = {"session", "type"} /\ s["session"] = c.session /\ s["type"] = c.type
    OBVIOUS
  <2> HIDE DEF s
  <2>3. /\ DOMAIN f = {"switch", "dmac", "dip", "dscp", "session", "type"}
        /\ f["session"] = c.session /\ f["type"] = c.type
        /\ \A k \in DOMAIN common : f[k] = common[k]
    <3> HIDE DEF f
    <3>1. /\ DOMAIN f = DOMAIN common \cup DOMAIN s
          /\ \A k \in DOMAIN s : f[k] = s[k]
          /\ \A k \in DOMAIN common : k \notin DOMAIN s => f[k] = common[k]
      BY ONLY <2>1 DEF Extend
    <3> QED BY <3>1, <2>2, <1>3
  <2>4. /\ f.switch = 1 /\ f.dmac = TRUE /\ f.dip = c.dip /\ f.dscp = x
    BY <2>3, <1>3
  <2>5. c.type \in 1..3 /\ c.session \in Sessions
    BY <1>10, <1>0 DEF EncapShape, Encap
  <2>6. ~Refused(e, f)
    <3>1. e \in Range(Encaps)
      BY EncapsAre
    <3>2. DOMAIN f \subseteq Known[e] /\ Must[e] \subseteq DOMAIN f
      BY <1>10, <2>3 DEF Known, Must
    <3>3. InRange("session", c.session) /\ InRange("type", c.type)
      BY <2>5, SMT DEF InRange, Sessions
    <3>4. \A k \in DOMAIN f : InRange(k, f[k])
      BY <1>0, <1>4, <1>5, <2>3, <2>4, <3>3
    <3> HIDE DEF f
    <3> QED BY <3>1, <3>2, <3>4, <2>3 DEF Refused, Has
  <2>7. SetEncap(e, f) = [b EXCEPT !.session = c.session, !.type = c.type]
    <3>1. SetEncap(e, f) = [[NoEncap EXCEPT !.dip = f.dip, !.dscp = Value(f, "dscp") * 4]
                              EXCEPT !.session = Value(f, "session"), !.type = Value(f, "type")]
      BY <1>10 DEF SetEncap
    <3>2. Value(f, "session") = c.session /\ Value(f, "type") = c.type
      BY <2>3 DEF Value, Has
    <3>3. [NoEncap EXCEPT !.dip = f.dip, !.dscp = Value(f, "dscp") * 4] = b
      BY <1>8, <2>3, <2>4
    <3> QED BY <3>1, <3>2, <3>3
  <2> DEFINE h == [b EXCEPT !.session = c.session, !.type = c.type]
  <2>8. h \in Encap /\ h.session = c.session /\ h.type = c.type /\ h.dip = b.dip
        /\ h.dscp = b.dscp /\ h.vni = b.vni /\ h.dport = b.dport
    <3>1. c.type \in 0..3
      BY <2>5
    <3> QED BY <3>1, <2>5, <1>6 DEF Encap
  <2>9. c.vni = <<0, 0, 0, 0>> /\ c.dport = <<0, 0>>
    BY <1>10 DEF EncapShape
  <2> HIDE DEF h
  <2>10. h = c
    BY <2>8, <2>9, <1>0, <1>7, EncapEq
  <2> QED BY <2>4, <2>6, <2>7, <2>10 DEF h
<1>11. CASE e = "vxlan"
  <2>0. /\ \E v \in Vnis : c.vni = vni_bytes(v)
        /\ \E v \in Ports : c.dport = port_bytes(v)
        /\ c.type = 0 /\ c.session = 0
    BY <1>11 DEF EncapShape
  <2>1. PICK v \in Vnis : c.vni = vni_bytes(v)
    BY <2>0
  <2>2. PICK d \in Ports : c.dport = port_bytes(d)
    BY <2>0
  <2> DEFINE s == [vni |-> get_additional_vxlan_vni(c), dport |-> get_additional_vxlan_dport(c)]
  <2>3. f = Extend(common, s)
    BY <1>11 DEF FormatEncap, common
  <2>4. DOMAIN s = {"vni", "dport"} /\ s["vni"] = v /\ s["dport"] = d
    BY <2>1, <2>2, BytesRead
  <2> HIDE DEF s
  <2>5. /\ DOMAIN f = {"switch", "dmac", "dip", "dscp", "vni", "dport"}
        /\ f["vni"] = v /\ f["dport"] = d
        /\ \A k \in DOMAIN common : f[k] = common[k]
    <3> HIDE DEF f
    <3>1. /\ DOMAIN f = DOMAIN common \cup DOMAIN s
          /\ \A k \in DOMAIN s : f[k] = s[k]
          /\ \A k \in DOMAIN common : k \notin DOMAIN s => f[k] = common[k]
      BY ONLY <2>3 DEF Extend
    <3> QED BY <3>1, <2>4, <1>3
  <2>6. /\ f.switch = 1 /\ f.dmac = TRUE /\ f.dip = c.dip /\ f.dscp = x
    BY <2>5, <1>3
  <2>7. ~Refused(e, f)
    <3>1. e \in Range(Encaps)
      BY EncapsAre
    <3>2. DOMAIN f \subseteq Known[e] /\ Must[e] \subseteq DOMAIN f
      BY <1>11, <2>5 DEF Known, Must
    <3>3. InRange("vni", v) /\ InRange("dport", d)
      BY SMT DEF InRange, Vnis, Ports
    <3>4. \A k \in DOMAIN f : InRange(k, f[k])
      BY <1>0, <1>4, <1>5, <2>5, <2>6, <3>3
    <3> HIDE DEF f
    <3> QED BY <3>1, <3>2, <3>4, <2>5 DEF Refused, Has
  <2> DEFINE h == [b EXCEPT !.vni = vni_bytes(v), !.dport = port_bytes(d)]
  <2>8. SetEncap(e, f) = h
    <3>1. SetEncap(e, f) = [[[NoEncap EXCEPT !.dip = f.dip, !.dscp = Value(f, "dscp") * 4]
                              EXCEPT !.vni = vni_bytes(Value(f, "vni"))]
                              EXCEPT !.dport = port_bytes(f.dport)]
      BY <1>11 DEF SetEncap, set_additional_vxlan_vni, set_additional_vxlan_dport
    <3>2. Value(f, "vni") = v /\ f.dport = d
      BY <2>5 DEF Value, Has
    <3>3. [NoEncap EXCEPT !.dip = f.dip, !.dscp = Value(f, "dscp") * 4] = b
      BY <1>8, <2>5, <2>6
    <3> QED BY <3>1, <3>2, <3>3
  <2>9. vni_bytes(v) \in Byte \X Byte \X Byte \X Byte /\ port_bytes(d) \in Byte \X Byte
    BY <1>0, <2>1, <2>2 DEF Encap
  <2>10. h \in Encap /\ h.vni = c.vni /\ h.dport = c.dport /\ h.dip = b.dip
         /\ h.dscp = b.dscp /\ h.type = b.type /\ h.session = b.session
    BY <2>1, <2>2, <2>9, <1>6 DEF Encap
  <2> HIDE DEF h
  <2>11. h = c
    BY <2>0, <2>10, <1>0, <1>7, EncapEq
  <2> QED BY <2>6, <2>7, <2>8, <2>11
<1> QED BY <1>9, <1>10, <1>11 DEF EncapNames

\* The first elements of an array, as a sequence, and put into an array again.
LEMMA ArrayBack ==
  ASSUME NEW S, NEW f \in [Slots -> S], NEW n \in 0..MAX_INTERFACE_CNT, NEW T,
         \A k \in 1..n : f[k] \in T, \A k \in Slots : k > n => f[k] = 0
  PROVE  LET s == SubSeq(f, 1, n)
         IN  /\ s \in Seq(T) /\ Len(s) = n /\ Array(s) = f
             /\ \A k \in 1..n : s[k] = f[k]
             /\ \A x \in Range(s) : x \in T
<1> DEFINE s == [k \in 1..n |-> f[k]]
<1>1. SubSeq(f, 1, n) = s
  <2>1. SubSeq(f, 1, n) = [k \in 1..(1 + n - 1) |-> f[1 + k - 1]]
    BY SizesAssumption DEF Slots
  <2>2. 1 + n - 1 = n /\ \A k \in 1..n : 1 + k - 1 = k
    OBVIOUS
  <2> QED BY <2>1, <2>2
<1>2. s \in Seq(T) /\ Len(s) = n
  BY SizesAssumption
<1>3. \A k \in 1..n : s[k] = f[k]
  OBVIOUS
<1>4. \A x \in Range(s) : x \in T
  BY <1>3 DEF Range
<1>5. Array(s) = f
  <2> HIDE DEF s
  <2>1. Array(s) = [i \in Slots |-> IF i <= n THEN s[i] ELSE 0]
    BY <1>2 DEF Array
  <2>2. \A i \in Slots : (IF i <= n THEN s[i] ELSE 0) = f[i]
    BY <1>3, SizesAssumption DEF Slots
  <2>3. f = [i \in Slots |-> f[i]]
    OBVIOUS
  <2> QED BY <2>1, <2>2, <2>3
<1> HIDE DEF s
<1> QED BY <1>1, <1>2, <1>3, <1>4, <1>5

\* Weights that a C int left as they are.
Weights == {v \in C_INT : v > 0}

\* They are what is above 0.
LEMMA WeightsAre ==
  /\ \A v \in Weights : v \in C_INT /\ v \in Nat /\ v > 0 /\ ~(v <= 0)
  /\ \A v \in C_INT : ~(v <= 0) => v \in Weights
<1>1. \A v \in C_INT : v \in Int
  BY CInt
<1>2. \A v \in Int : (v > 0 => v \in Nat) /\ (v > 0 <=> ~(v <= 0))
  OBVIOUS
<1> QED BY <1>1, <1>2 DEF Weights

\* The basis of an action that is read gives that action, without encapsulations.
LEMMA BasicBack ==
  ASSUME NEW a, Shape(a), ~CutWeights(a)
  PROVE  trans_action_content_basic_actions(format_action_basic_action(a)) =
           Good([a EXCEPT !.switch = {}, !.addi = Zero.addi])
<1> DEFINE d == format_action_basic_action(a)
           r == [a EXCEPT !.switch = {}, !.addi = Zero.addi]
           t == trans_action_content_basic_actions(d)
<1>0. Bad.st = "bad" /\ Raise.st = "raise" /\ \A x : Good(x).st = "ok" /\ Good(x).a = x
  BY DEF Bad, Raise, Good
<1>1. /\ r \in Action /\ r.switch = {} /\ r.addi = Zero.addi
      /\ r.ref = 0 /\ r.type = a.type /\ r.fwd = a.fwd /\ r.num = a.num
      /\ r.arr = a.arr /\ r.mode = a.mode /\ r.cw = 0 /\ r.gcd = 0
      /\ r.mw = 0 /\ r.index = 0 /\ r.weight = a.weight
  <2>1. Zero.addi \in [EncapNames -> Encap]
    BY ZeroType DEF Action
  <2> QED BY <2>1 DEF Shape, Action
<1>2. /\ a.arr \in [Slots -> Interfaces \cup {0}] /\ a.weight \in [Slots -> Int]
      /\ a.num \in 0..MAX_INTERFACE_CNT
  BY DEF Shape, Action
<1>3. /\ Zero.arr \in [Slots -> Interfaces \cup {0}] /\ Zero.weight \in [Slots -> Int]
  BY ZeroType DEF Action
<1>a. /\ \A k \in Slots : IF k <= a.num THEN a.arr[k] \in Interfaces ELSE a.arr[k] = 0
      /\ \A k \in Slots : IF a.mode = "wrr" /\ k <= a.num THEN a.weight[k] \in C_INT
                          ELSE a.weight[k] = 0
  BY DEF Shape
<1>b. /\ \A k \in 1..a.num : k \in Slots /\ k <= a.num
      /\ \A k \in Slots : k \in Nat /\ k > 0 /\ (k > a.num => ~(k <= a.num))
  BY <1>2, SizesAssumption DEF Slots
<1>4. a.type # "load_balance" => a.arr = Zero.arr
  <2> SUFFICES ASSUME a.type # "load_balance" PROVE a.arr = Zero.arr
    OBVIOUS
  <2>1. a.num = 0
    BY DEF Shape
  <2>2. \A k \in Slots : a.arr[k] = Zero.arr[k]
    BY <2>1, <1>a, <1>b, ZeroFields
  <2> QED BY <1>2, <1>3, <2>2
<1>5. a.mode # "wrr" => a.weight = Zero.weight
  <2> SUFFICES ASSUME a.mode # "wrr" PROVE a.weight = Zero.weight
    OBVIOUS
  <2>2. \A k \in Slots : a.weight[k] = Zero.weight[k]
    BY ZeroFields DEF Shape
  <2> QED BY <1>2, <1>3, <2>2
<1>6. \A i \in Interfaces : i # 0
  BY SizesAssumption
<1> HIDE DEF r
<1>7. CASE a.type = "drop"
  <2> DEFINE z == [Zero EXCEPT !.type = "drop"]
  <2>1. d = [type |-> "drop"]
    BY <1>7 DEF format_action_basic_action
  <2>2. Weight(d) = <<>> /\ Mode(d) = "" /\ Names(d) = <<>> /\ Has(d, "type") /\ d.type = "drop"
    BY <2>1 DEF Weight, Mode, Names, Has
  <2>3. t = Good(z)
    BY <2>2 DEF trans_action_content_basic_actions
  <2>4. /\ z \in Action /\ z.type = "drop" /\ z.ref = 0 /\ z.fwd = 0 /\ z.num = 0 /\ z.switch = {}
        /\ z.mode = "" /\ z.cw = 0 /\ z.gcd = 0 /\ z.mw = 0 /\ z.index = 0
        /\ z.arr = Zero.arr /\ z.weight = Zero.weight /\ z.addi = Zero.addi
    BY ZeroType, ZeroFields DEF Action
  <2>5. a.fwd = 0 /\ a.num = 0 /\ a.mode = ""
    BY <1>7 DEF Shape
  <2> HIDE DEF z
  <2>6. z = r
    BY <1>1, <1>4, <1>5, <1>7, <2>4, <2>5, ActionEq
  <2> QED BY <2>3, <2>6 DEF r
<1>8. CASE a.type = "forward"
  <2> DEFINE z == [Zero EXCEPT !.type = "forward", !.fwd = a.fwd]
             s == <<a.fwd>>
  <2>0. a.fwd \in Interfaces /\ a.num = 0 /\ a.mode = ""
    BY <1>8 DEF Shape
  <2>1. d = [type |-> "forward", interfaces |-> s]
    BY <1>8 DEF format_action_basic_action
  <2>2. s # <<>> /\ Len(s) = 1 /\ s[1] = a.fwd /\ 0 \notin Range(s)
    <3>1. s # <<>> /\ Len(s) = 1 /\ s[1] = a.fwd /\ DOMAIN s = {1}
      OBVIOUS
    <3>2. a.fwd # 0
      BY <2>0, <1>6
    <3> HIDE DEF s
    <3> QED BY <3>1, <3>2 DEF Range
  <2> HIDE DEF s
  <2>3. Weight(d) = <<>> /\ Mode(d) = "" /\ Names(d) = s /\ Has(d, "type") /\ d.type = "forward"
    BY <2>1 DEF Weight, Mode, Names, Has
  <2>4. t = Good(z)
    BY <2>2, <2>3 DEF trans_action_content_basic_actions
  <2>5. /\ z \in Action /\ z.type = "forward" /\ z.ref = 0 /\ z.fwd = a.fwd /\ z.num = 0
        /\ z.switch = {}
        /\ z.mode = "" /\ z.cw = 0 /\ z.gcd = 0 /\ z.mw = 0 /\ z.index = 0
        /\ z.arr = Zero.arr /\ z.weight = Zero.weight /\ z.addi = Zero.addi
    BY <2>0, ZeroType, ZeroFields DEF Action
  <2> HIDE DEF z
  <2>6. z = r
    BY <1>1, <1>4, <1>5, <1>8, <2>0, <2>5, ActionEq
  <2> QED BY <2>4, <2>6 DEF r
<1>9. CASE a.type = "load_balance"
  <2> DEFINE n == a.num
             s == SubSeq(a.arr, 1, n)
             wt == SubSeq(a.weight, 1, n)
             base == [type |-> a.type, interfaces |-> s, load_balance_mode |-> a.mode]
             more == IF a.mode = "wrr" THEN [load_balance_weight |-> wt] ELSE <<>>
  <2>0. n > 0 /\ a.mode \in Modes /\ a.fwd = 0
    BY <1>9 DEF Shape
  <2>1. d = Extend(base, more)
    BY <1>9 DEF format_action_basic_action
  <2>2. /\ s \in Seq(Interfaces) /\ Len(s) = n /\ Array(s) = a.arr
        /\ \A x \in Range(s) : x \in Interfaces
    <3>1. \A k \in 1..n : a.arr[k] \in Interfaces
      BY <1>a, <1>b
    <3>2. \A k \in Slots : k > n => a.arr[k] = 0
      BY <1>a, <1>b
    <3> HIDE DEF n
    <3>3. n \in 0..MAX_INTERFACE_CNT
      BY <1>2 DEF n
    <3> QED BY <1>2, <3>1, <3>2, <3>3, ArrayBack
  <2>3. a.mode = "wrr" => /\ wt \in Seq(Weights) /\ Len(wt) = n /\ Array(wt) = a.weight
                          /\ \A x \in Range(wt) : x \in Weights
    <3> SUFFICES ASSUME a.mode = "wrr"
                 PROVE  /\ wt \in Seq(Weights) /\ Len(wt) = n /\ Array(wt) = a.weight
                        /\ \A x \in Range(wt) : x \in Weights
      OBVIOUS
    <3>1. \A k \in 1..n : a.weight[k] \in Weights
      <4>1. \A k \in 1..n : ~(a.weight[k] <= 0)
        BY DEF CutWeights
      <4>2. \A k \in 1..n : a.weight[k] \in C_INT
        BY <1>a, <1>b
      <4> QED BY <4>1, <4>2, WeightsAre
    <3>2. \A k \in Slots : k > n => a.weight[k] = 0
      BY <1>a, <1>b
    <3> HIDE DEF n
    <3>3. n \in 0..MAX_INTERFACE_CNT
      BY <1>2 DEF n
    <3> QED BY <1>2, <3>1, <3>2, <3>3, ArrayBack
  <2> HIDE DEF s, wt
  <2>4. /\ DOMAIN base = {"type", "interfaces", "load_balance_mode"}
        /\ base["type"] = a.type /\ base["interfaces"] = s /\ base["load_balance_mode"] = a.mode
        /\ DOMAIN more = IF a.mode = "wrr" THEN {"load_balance_weight"} ELSE {}
        /\ a.mode = "wrr" => more["load_balance_weight"] = wt
    <3>1. DOMAIN more = IF a.mode = "wrr" THEN {"load_balance_weight"} ELSE {}
      <4>1. CASE a.mode = "wrr"
        BY <4>1
      <4>2. CASE a.mode # "wrr"
        BY <4>2
      <4> QED BY <4>1, <4>2
    <3> QED BY <3>1
  <2> HIDE DEF base, more, d
  <2>5. /\ DOMAIN d = DOMAIN base \cup DOMAIN more
        /\ \A k \in DOMAIN more : d[k] = more[k]
        /\ \A k \in DOMAIN base : k \notin DOMAIN more => d[k] = base[k]
    BY ONLY <2>1 DEF Extend
  <2>6. /\ Has(d, "type") /\ d["type"] = "load_balance" /\ Names(d) = s /\ Mode(d) = a.mode
        /\ Weight(d) = IF a.mode = "wrr" THEN wt ELSE <<>>
    BY <1>9, <2>4, <2>5 DEF Has, Names, Mode, Weight
  <2>7. Names(d) # <<>> /\ 0 \notin Range(Names(d)) /\ Len(Names(d)) = n /\ Fits(n)
    BY <2>0, <2>2, <2>6, <1>2, <1>6 DEF Fits
  <2>8. Mode(d) # "" /\ Mode(d) \in Modes /\ Mode(d) \notin InnerModes
    BY <2>0, <2>6 DEF Modes, HashModes, InnerModes
  <2> DEFINE z == [Zero EXCEPT !.type = "load_balance"]
             b == trans_action_content_basic_load_balance(z, n, Mode(d), Weight(d))
             m == IF a.mode = "wrr" THEN [z EXCEPT !.mode = a.mode, !.weight = a.weight]
                  ELSE [z EXCEPT !.mode = a.mode]
             h == [m EXCEPT !.arr = a.arr, !.num = n]
  <2>9. b = Good(m)
    <3>1. CASE a.mode = "wrr"
      <4>1. Weight(d) = wt /\ wt # <<>> /\ Len(wt) = n
        BY <2>0, <2>3, <2>6, <3>1, <1>2
      <4>2. ~\E w \in Range(wt) : w <= 0
        BY <2>3, <3>1, WeightsAre
      <4>3. n <= MAX_LOAD_BALANCE_NODE
        BY <3>1 DEF Shape
      <4>4. ~(n > MAX_LOAD_BALANCE_NODE)
        BY <4>3, <1>2, SizesAssumption
      <4>5. Array([k \in DOMAIN wt |-> c_int(wt[k])]) = a.weight
        <5>1. wt = [k \in DOMAIN wt |-> wt[k]] /\ \A k \in DOMAIN wt : wt[k] \in C_INT
          BY <2>3, <3>1 DEF Weights
        <5>2. \A k \in DOMAIN wt : c_int(wt[k]) = wt[k]
          BY <5>1, CInt
        <5>3. [k \in DOMAIN wt |-> c_int(wt[k])] = wt
          BY <5>1, <5>2, Zenon
        <5> QED BY <5>3, <2>3, <3>1
      <4> HIDE DEF z, n
      <4> QED BY <4>1, <4>2, <4>4, <4>5, <3>1, <2>6, <2>8
              DEF trans_action_content_basic_load_balance
    <3>2. CASE a.mode # "wrr"
      <4> HIDE DEF z, n
      <4> QED BY <3>2, <2>6, <2>8 DEF trans_action_content_basic_load_balance
    <3> QED BY <3>1, <3>2
  <2>10. t = Good(h)
    <3> HIDE DEF b, m, n
    <3>1. t = IF b.st # "ok" THEN b
              ELSE IF ~Fits(n) THEN Raise
              ELSE Good([b.a EXCEPT !.arr = Array(Names(d)), !.num = n])
      BY <2>6, <2>7, <2>8 DEF trans_action_content_basic_actions, b
    <3>2. Array(Names(d)) = a.arr
      BY <2>2, <2>6
    <3> QED BY <3>1, <3>2, <2>7, <2>9, <1>0
  <2>11. z \in Action
    BY ZeroType DEF Action
  <2>12. /\ z.type = "load_balance" /\ z.ref = 0 /\ z.fwd = 0 /\ z.switch = {}
         /\ z.cw = 0 /\ z.gcd = 0 /\ z.mw = 0 /\ z.index = 0
         /\ z.weight = Zero.weight /\ z.addi = Zero.addi
    BY ZeroType, ZeroFields DEF Action
  <2> HIDE DEF z
  <2>13. /\ m \in Action /\ m.mode = a.mode /\ m.weight = a.weight
         /\ m.type = z.type /\ m.ref = z.ref /\ m.fwd = z.fwd /\ m.switch = z.switch
         /\ m.cw = z.cw /\ m.gcd = z.gcd /\ m.mw = z.mw /\ m.index = z.index /\ m.addi = z.addi
    <3>0. a.mode \in Modes \cup {""}
      BY <2>0
    <3>1. CASE a.mode = "wrr"
      <4> DEFINE y == [z EXCEPT !.mode = a.mode, !.weight = a.weight]
      <4>1. m = y
        BY <3>1
      <4>2. /\ y \in Action /\ y.mode = a.mode /\ y.weight = a.weight
            /\ y.type = z.type /\ y.ref = z.ref /\ y.fwd = z.fwd /\ y.switch = z.switch
            /\ y.cw = z.cw /\ y.gcd = z.gcd /\ y.mw = z.mw /\ y.index = z.index /\ y.addi = z.addi
        BY <3>0, <1>2, <2>11 DEF Action
      <4> HIDE DEF y, m
      <4> QED BY <4>1, <4>2
    <3>2. CASE a.mode # "wrr"
      <4> DEFINE y == [z EXCEPT !.mode = a.mode]
      <4>1. m = y
        BY <3>2
      <4>2. /\ y \in Action /\ y.mode = a.mode /\ y.weight = z.weight
            /\ y.type = z.type /\ y.ref = z.ref /\ y.fwd = z.fwd /\ y.switch = z.switch
            /\ y.cw = z.cw /\ y.gcd = z.gcd /\ y.mw = z.mw /\ y.index = z.index /\ y.addi = z.addi
        BY <3>0, <2>11 DEF Action
      <4> HIDE DEF y, m
      <4> QED BY <4>1, <4>2, <3>2, <2>12, <1>5
    <3> QED BY <3>1, <3>2
  <2> HIDE DEF m
  <2>14. /\ h \in Action /\ h.arr = a.arr /\ h.num = a.num /\ h.mode = m.mode /\ h.weight = m.weight
         /\ h.type = m.type /\ h.ref = m.ref /\ h.fwd = m.fwd /\ h.switch = m.switch
         /\ h.cw = m.cw /\ h.gcd = m.gcd /\ h.mw = m.mw /\ h.index = m.index /\ h.addi = m.addi
    BY <2>13, <1>2 DEF Action
  <2> HIDE DEF h
  <2>15. /\ h.ref = r.ref /\ h.type = r.type /\ h.fwd = r.fwd /\ h.num = r.num /\ h.arr = r.arr
         /\ h.switch = r.switch /\ h.addi = r.addi /\ h.mode = r.mode /\ h.cw = r.cw
         /\ h.gcd = r.gcd /\ h.mw = r.mw /\ h.index = r.index /\ h.weight = r.weight
    BY <1>1, <1>9, <2>0, <2>12, <2>13, <2>14
  <2>16. h = r
    BY <1>1, <2>14, <2>15, ActionEq
  <2> QED BY <2>10, <2>16 DEF r, d
<1> QED BY <1>7, <1>8, <1>9 DEF Shape

\* The encapsulations that are read are put on again as they were.
LEMMA AddiBack ==
  ASSUME NEW a, Shape(a), NEW r
  PROVE  trans_action_content_addi_actions(r, format_action_addi_action(a)) =
           Good([r EXCEPT !.switch = a.switch, !.addi = a.addi])
<1> DEFINE d == format_action_addi_action(a)
           on == {e \in DOMAIN d : d[e].switch = 1}
           f == [e \in Range(Encaps) |-> IF e \in on THEN SetEncap(e, d[e]) ELSE NoEncap]
<1>1. DOMAIN d = a.switch /\ \A e \in a.switch : d[e] = FormatEncap(e, a.addi[e])
  BY DEF format_action_addi_action
<1>2. /\ a.switch \subseteq EncapNames /\ a.addi \in [EncapNames -> Encap]
      /\ \A e \in EncapNames : IF e \in a.switch THEN EncapShape(e, a.addi[e])
                               ELSE a.addi[e] = NoEncap
  BY DEF Shape, Action
<1>3. \A e \in a.switch : d[e].switch = 1 /\ ~Refused(e, d[e]) /\ SetEncap(e, d[e]) = a.addi[e]
  <2> TAKE e \in a.switch
  <2>1. e \in EncapNames /\ EncapShape(e, a.addi[e]) /\ d[e] = FormatEncap(e, a.addi[e])
    BY <1>1, <1>2
  <2> HIDE DEF d
  <2> QED BY <2>1, EncapBack
<1> HIDE DEF d
<1>4. on = a.switch
  BY <1>1, <1>3
<1> HIDE DEF on
<1>5. f = a.addi
  <2>1. f = [e \in EncapNames |-> IF e \in on THEN SetEncap(e, d[e]) ELSE NoEncap]
    BY EncapsAre
  <2>2. \A e \in EncapNames : (IF e \in on THEN SetEncap(e, d[e]) ELSE NoEncap) = a.addi[e]
    BY <1>2, <1>3, <1>4
  <2>3. a.addi = [e \in EncapNames |-> a.addi[e]]
    BY <1>2
  <2> HIDE DEF f
  <2> QED BY <2>1, <2>2, <2>3
<1>6. trans_action_content_addi_actions(r, d) = Good([r EXCEPT !.switch = on, !.addi = f])
  <2>1. ~\E e \in DOMAIN d : Refused(e, d[e])
    BY <1>1, <1>3
  <2> QED BY <2>1, Zenon DEF trans_action_content_addi_actions, on
<1> HIDE DEF f
<1> QED BY <1>4, <1>5, <1>6 DEF d

\* GET and back.
LEMMA ReadBack ==
  ASSUME NEW a, Shape(a), ~CutWeights(a)
  PROVE  trans_dict_to_action_struct(get_single_action_content(a)) = Good(a)
<1> DEFINE g == get_single_action_content(a)
           b == format_action_basic_action(a)
           r == [a EXCEPT !.switch = {}, !.addi = Zero.addi]
<1>0. Bad.st = "bad" /\ Raise.st = "raise" /\ \A x : Good(x).st = "ok" /\ Good(x).a = x
  BY DEF Bad, Raise, Good
<1>1. trans_action_content_basic_actions(b) = Good(r)
  BY BasicBack
<1>2. a \in Action /\ a.addi \in [EncapNames -> Encap]
  BY DEF Shape, Action
<1> HIDE DEF b
<1>3. CASE a.switch = {}
  <2>1. g = [basis |-> b]
    BY <1>3 DEF get_single_action_content, b
  <2>2. r = a
    <3>1. /\ r \in Action /\ r.ref = a.ref /\ r.type = a.type /\ r.fwd = a.fwd /\ r.num = a.num
          /\ r.arr = a.arr /\ r.switch = {} /\ r.addi = Zero.addi /\ r.mode = a.mode
          /\ r.cw = a.cw /\ r.gcd = a.gcd /\ r.mw = a.mw /\ r.index = a.index
          /\ r.weight = a.weight
      BY ZeroType, <1>2 DEF Action
    <3>2. Zero.addi \in [EncapNames -> Encap]
      BY ZeroType DEF Action
    <3>3. \A e \in EncapNames : a.addi[e] = Zero.addi[e]
      BY <1>3, ZeroFields DEF Shape
    <3>4. a.addi = Zero.addi
      BY <3>2, <3>3, <1>2
    <3> HIDE DEF r
    <3> QED BY <3>1, <3>4, <1>2, <1>3, ActionEq
  <2> HIDE DEF r, g
  <2>3. DOMAIN g = {"basis"} /\ g["basis"] = b
    BY <2>1
  <2>4. Has(g, "basis") /\ ~Has(g, "additional") /\ DOMAIN g \subseteq {"basis", "additional"}
    BY <2>3 DEF Has
  <2>5. trans_dict_to_action_struct(g) = Good(r)
    BY <2>3, <2>4, <1>0, <1>1 DEF trans_dict_to_action_struct
  <2> QED BY <2>2, <2>5 DEF g
<1>4. CASE a.switch # {}
  <2> DEFINE d == format_action_addi_action(a)
             p == [basis |-> b]
             q == [additional |-> d]
  <2>1. g = Extend(p, q)
    BY <1>4 DEF get_single_action_content, b
  <2>2. DOMAIN p = {"basis"} /\ p["basis"] = b /\ DOMAIN q = {"additional"} /\ q["additional"] = d
    OBVIOUS
  <2> HIDE DEF p, q, g, d, r
  <2>3. /\ DOMAIN g = DOMAIN p \cup DOMAIN q
        /\ \A k \in DOMAIN q : g[k] = q[k]
        /\ \A k \in DOMAIN p : k \notin DOMAIN q => g[k] = p[k]
    BY ONLY <2>1 DEF Extend
  <2>4. DOMAIN g = {"basis", "additional"} /\ g["basis"] = b /\ g["additional"] = d
    BY <2>2, <2>3
  <2>5. Has(g, "basis") /\ Has(g, "additional") /\ DOMAIN g \subseteq {"basis", "additional"}
    BY <2>4 DEF Has
  <2>6. trans_dict_to_action_struct(g) = trans_action_content_addi_actions(r, d)
    BY <2>4, <2>5, <1>0, <1>1 DEF trans_dict_to_action_struct
  <2>7. trans_action_content_addi_actions(r, d) = Good([r EXCEPT !.switch = a.switch, !.addi = a.addi])
    BY AddiBack DEF d
  <2>8. [r EXCEPT !.switch = a.switch, !.addi = a.addi] = a
    <3> DEFINE y == [r EXCEPT !.switch = a.switch, !.addi = a.addi]
    <3>0. Zero.addi \in [EncapNames -> Encap] /\ a.switch \in SUBSET EncapNames
      BY ZeroType, <1>2 DEF Action
    <3>1. /\ r \in Action /\ r.ref = a.ref /\ r.type = a.type /\ r.fwd = a.fwd /\ r.num = a.num
          /\ r.arr = a.arr /\ r.mode = a.mode
          /\ r.cw = a.cw /\ r.gcd = a.gcd /\ r.mw = a.mw /\ r.index = a.index
          /\ r.weight = a.weight
      BY <3>0, <1>2 DEF Action, r
    <3>2. /\ y \in Action /\ y.ref = a.ref /\ y.type = a.type /\ y.fwd = a.fwd /\ y.num = a.num
          /\ y.arr = a.arr /\ y.switch = a.switch /\ y.addi = a.addi /\ y.mode = a.mode
          /\ y.cw = a.cw /\ y.gcd = a.gcd /\ y.mw = a.mw /\ y.index = a.index
          /\ y.weight = a.weight
      BY <3>0, <3>1, <1>2 DEF Action
    <3> HIDE DEF y
    <3>3. y = a
      BY <3>2, <1>2, ActionEq
    <3> QED BY <3>3 DEF y
  <2> QED BY <2>6, <2>7, <2>8 DEF g
<1> QED BY <1>3, <1>4

-----------------------------------------------------------------------------
(* The inductive invariant.                                                *)

\* A struct without what workers and put_action_config change in memory.
Base(a) == [a EXCEPT !.ref = 0, !.cw = 0, !.gcd = 0, !.mw = 0, !.index = 0]

\* An action that may be used, with what a request gave it.
Whole(c) == c.ref = 1 /\ Shape(Base(c))

\* The divisor and the maximum that go with the weights, if an int cut none.
Weighted(a) == IF a.mode = "wrr"
               THEN LET g == weight_calc_max(a.weight, a.num)
                    IN ~CutWeights(a) => a.gcd = g.gcd /\ a.mw = g.mw
               ELSE a.gcd = 0 /\ a.mw = 0

\* What workers may use is complete, but for an action in the middle of a copy.
ActInv ==
  /\ act \in [Ids -> Action]
  /\ \A i \in Ids : act[i].ref > 0 /\ ~Torn(i) => Shape(Base(act[i])) /\ Weighted(act[i])

\* What restd has in hand, and how far it is with it: of a copy, the fields in no piece
\* that is left have arrived, but for the two that workers write.
RestFields == {"pc", "todo", "method", "id", "a", "bad", "left"}
PutPcs == {"memcpy", "cw", "gcd", "ref"}
DeletePcs == {"memset"}
Copies == {"memcpy", "memset"}
Copied == Fields \ {"cw", "index"}
Todo(s) == \E S : s \in Seq(S) /\ \A x \in S : IsDict(x.data)
RestInv ==
  /\ DOMAIN rest = RestFields
  /\ rest.pc \in {"idle", "item"} \cup PutPcs \cup DeletePcs
  /\ Todo(rest.todo)
  /\ rest.pc \in PutPcs \cup DeletePcs => rest.id \in Ids
  /\ rest.pc \in PutPcs => Shape(rest.a)
  /\ rest.pc \in DeletePcs => rest.a = Zero
  /\ rest.pc \in Copies =>
       /\ rest.left \subseteq Pieces
       /\ \A f \in Copied : f \in UNION rest.left \/ act[rest.id][f] = rest.a[f]
  /\ rest.pc \in {"cw", "gcd", "ref"} => act[rest.id].ref = 0
  /\ rest.pc \in {"cw", "gcd"} => rest.a.mode = "wrr"
  /\ rest.pc \in {"cw", "gcd", "ref"} => Base(act[rest.id]) = rest.a
  /\ rest.pc = "ref" => Weighted(act[rest.id])

\* Headers and packets; out is not looked at, it may be read past the end of an array.
Header == [kind : EncapNames, v : {4, 6}, src : {"interface", "default"}, tos : Nat, says : Nat,
           udp : Nat, gre : {"none", "ethernet", "erspan", "erspan_iii"}, flag_S : BOOLEAN,
           seq : Nat, tag : BOOLEAN]
Nodes == {"sf_action_main", Balance} \cup EncapNames
PktFields == {"id", "arg", "in", "flow", "tag", "act", "ver", "node", "out", "cur", "len",
              "size", "list", "pos", "layers"}
IsPkt(p) ==
  /\ DOMAIN p = PktFields
  /\ p.arg \in Nat /\ p.flow \in Nat \X Nat /\ p.tag \in BOOLEAN /\ p.act \in Nat
  /\ p.ver \in Nat /\ p.cur \in Int /\ p.len \in Nat /\ p.size \in Nat
  /\ p.list \in Seq(Nodes \cup FinalNodes) /\ p.pos \in Nat \ {0} /\ p.layers \in Seq(Header)

\* The lengths in the headers of a packet.
Lengths(p) ==
  LET upto == Sizes(p.layers, p.size)
  IN /\ p.len = upto[Len(p.layers)] /\ p.cur = p.size - p.len
     /\ \A k \in DOMAIN p.layers :
          LET h == p.layers[k] IN
          /\ h.says = IpSays(h.v, After(h) + upto[k-1])
          /\ h.kind = "vxlan" => h.udp = 16 + upto[k-1]
          /\ (h.flag_S <=> h.seq > 0)
\* The bytes the headers take, at most 40 + 20 + 14 each, or 20 + 20 + 14 towards IPv4.
Room(p) ==
  /\ -p.cur <= 74 * Len(p.layers)
  /\ (\A k \in DOMAIN p.layers : p.layers[k].v = 4) => -p.cur <= 54 * Len(p.layers)
Pkt(p) == IsPkt(p) /\ Lengths(p) /\ Room(p)

Kinds(p) == [k \in DOMAIN p.layers |-> p.layers[k].kind]
\* The action of packet p is still what it was when sf_action_main read it.
Match(v, p) == p.ver = v[p.act]
Past(v, p) == p.act \in Ids /\ p.act = p.arg /\ p.ver <= v[p.act]

\* A packet that waits for node n.
AtEncap(a, v, n, p) ==
  \E on \in SUBSET EncapNames, fwd \in {Out, Balance} :
    /\ p.list = Order(on) \o <<fwd>>
    /\ p.pos \in 2..(Len(Order(on)) + 1) /\ Order(on)[p.pos - 1] = n
    /\ Len(p.layers) <= p.pos - 2
    /\ Match(v, p) =>
         LET c == a[p.act]
         IN /\ Whole(c) /\ c.type \in {"forward", "load_balance"}
            /\ on = c.switch /\ fwd = action_type_to_next_index(c)
            /\ c.type = "forward" => p.out = c.fwd
            /\ Kinds(p) = SubSeq(Order(on), 1, p.pos - 2)
AtBalance(a, v, p) ==
  Match(v, p) => LET c == a[p.act]
                 IN Whole(c) /\ c.type = "load_balance" /\ Kinds(p) = Order(c.switch)
PktAt(a, v, n, p) ==
  /\ Pkt(p) /\ p.node = "" /\ n \in Nodes
  /\ n = "sf_action_main" => p.layers = <<>> /\ p.pos = 1
  /\ n # "sf_action_main" => Past(v, p)
  /\ n \in EncapNames => AtEncap(a, v, n, p)
  /\ n = Balance => AtBalance(a, v, p)

\* A packet that left.
Left(a, v, p) ==
  LET c == a[p.act]
  IN (p.act \in Ids /\ Match(v, p) /\ p.node # Wild) =>
     IF c.ref = 0 \/ c.type = "drop" THEN p.node = Drop /\ p.layers = <<>>
     ELSE /\ Kinds(p) = Order(c.switch)
          /\ c.type = "forward" => p.node = Out /\ p.out = c.fwd
          /\ c.mode \in {"round_robin", "wrr"} /\ p.node = Out =>
               \E k \in 1..c.num : p.out = c.arr[k]
PktDone(a, v, p) ==
  /\ Pkt(p) /\ p.node \in FinalNodes
  /\ p.act = p.arg
  /\ p.act \in Ids => p.ver <= v[p.act]
  /\ p.act \notin Ids => p.node = Drop /\ p.layers = <<>>
  /\ Len(p.layers) <= 2 => p.node # Wild
  /\ Left(a, v, p)

\* The frames of a worker.
Framed(fs) == \E P : fs \in Seq([node : Nodes, pkts : Seq(P)])
Frames(a, v, fs) ==
  /\ Framed(fs)
  /\ \A j \in DOMAIN fs : fs[j].pkts # <<>>
  /\ \A j \in DOMAIN fs : \A k \in DOMAIN fs[j].pkts : PktAt(a, v, fs[j].node, fs[j].pkts[k])

\* The local variables of a node.
RunFields == {"pc", "left", "num", "n", "idx", "reg", "c", "tries", "i", "id", "back", "calm",
              "spins", "cfg"}
Picking == {"call", "rr", "wrr", "cw", "wrap", "test"}
Filling == {"reset", "fill", "put", "count", "real"}
IsRun(r) ==
  /\ DOMAIN r = RunFields
  /\ r.pc \in {"idle", "erspan", "store", "num", "first", "again", "ret"} \cup Picking \cup Filling
  /\ r.left \in 0..2 /\ r.num \in 0..MAX_INTERFACE_CNT /\ r.n \in Nat /\ r.idx \in Nat
  /\ r.reg \in Nat /\ r.c \in Int /\ r.tries \in 0..(MAX_LOAD_BALANCE_NODE - 1)
  /\ r.back \in {"", "first", "again", "real"} /\ r.cfg \in Encap
\* The action of the packet is an action of weighted or plain round robin.
Turns(a, p) == a[p.act].mode \in {"round_robin", "wrr"}
RunAt(a, v, r, fs) ==
  r.pc # "idle" =>
    LET p == fs[1].pkts[1]
    IN /\ fs # <<>> /\ r.left >= 1 /\ Len(fs[1].pkts) >= r.left
       /\ fs[1].node = IF r.pc \in {"erspan", "store"} THEN "erspan" ELSE Balance
       /\ r.pc = "store" => r.reg > 0 /\ r.cfg.dip \in {4, 6} /\ r.cfg.type \in {2, 3}
       /\ r.pc \in Picking => r.back # "" /\ (r.pc # "call" => r.n > 0)
       /\ r.pc \in Picking /\ r.back # "real" => r.n = r.num
       /\ r.pc \in {"cw", "wrap", "test"} => r.idx < r.n
       /\ r.pc \in {"first", "again"} /\ r.num > 0 => r.idx < r.num
       /\ Match(v, p) =>
            /\ r.pc \notin {"erspan", "store", "num"} => r.num = a[p.act].num
            /\ r.pc \in Filling => ~Turns(a, p)
            /\ r.pc \in Picking /\ r.back = "real" => ~Turns(a, p)
            /\ r.pc = "ret" /\ Turns(a, p) =>
                 r.id = INVALID_INTERFACE_ID \/ \E k \in 1..a[p.act].num : r.id = a[p.act].arr[k]

Inv ==
  /\ ActInv /\ RestInv /\ \A r \in events : IsRequest(r)
  /\ realnum \in [Ids -> Nat] /\ ver \in [Ids -> Nat \ {0}] /\ gre_option \in Nat \ {0}
  /\ DOMAIN run = Workers /\ DOMAIN pend = Workers
  /\ \A w \in Workers : IsRun(run[w])
  /\ \A w \in Workers : Frames(act, ver, pend[w])
  /\ \A w \in Workers : RunAt(act, ver, run[w], pend[w])
  /\ \A p \in done : PktDone(act, ver, p)

-----------------------------------------------------------------------------
(* The lengths of a packet.                                                *)

\* The recursive function of Sizes exists.
LEMMA SizesExist ==
  ASSUME NEW layers, NEW n, Len(layers) \in Nat
  PROVE  Sizes(layers, n) =
           [k \in 0..Len(layers) |->
              IF k = 0 THEN n
              ELSE Sizes(layers, n)[k-1] + 14 + IpLen(layers[k].v) + After(layers[k])]
<1> DEFINE l == Len(layers)
           Is(f, m) == f = [k \in 0..m |-> IF k = 0 THEN n
                                           ELSE f[k-1] + 14 + IpLen(layers[k].v) + After(layers[k])]
           S == {m \in 0..l : \E f : Is(f, m)}
<1>1. 0 \in S
  <2> DEFINE f == [k \in 0..0 |-> n]
             h == [k \in 0..0 |-> IF k = 0 THEN n
                                  ELSE f[k-1] + 14 + IpLen(layers[k].v) + After(layers[k])]
  <2>1. \A k \in 0..0 : f[k] = h[k]
    OBVIOUS
  <2>2. f = h
    BY <2>1
  <2>3. Is(f, 0)
    BY <2>2
  <2> HIDE DEF f, Is
  <2> QED BY <2>3
<1>2. ASSUME NEW m \in 0..l, m < l, m \in S
      PROVE  m + 1 \in S
  <2>1. PICK f : Is(f, m)
    BY <1>2
  <2> DEFINE last == f[m] + 14 + IpLen(layers[m + 1].v) + After(layers[m + 1])
             e == [k \in 0..m + 1 |-> IF k = m + 1 THEN last ELSE f[k]]
             h == [k \in 0..m + 1 |-> IF k = 0 THEN n
                                      ELSE e[k-1] + 14 + IpLen(layers[k].v) + After(layers[k])]
  <2>2. ASSUME NEW k \in 0..m + 1
        PROVE  e[k] = h[k]
    <3>1. CASE k = m + 1
      <4>1. e[k] = last /\ e[k-1] = f[m] /\ k # 0
        BY <3>1
      <4>2. h[k] = IF k = 0 THEN n ELSE e[k-1] + 14 + IpLen(layers[k].v) + After(layers[k])
        OBVIOUS
      <4> HIDE DEF e, h
      <4> QED BY <3>1, <4>1, <4>2
    <3>2. CASE k = 0
      BY <3>2, <2>1
    <3>3. CASE k \in 1..m
      <4>1. e[k] = f[k] /\ e[k-1] = f[k-1] /\ k # 0 /\ k \in 0..m
        BY <3>3
      <4>2. f[k] = IF k = 0 THEN n ELSE f[k-1] + 14 + IpLen(layers[k].v) + After(layers[k])
        BY <2>1, <4>1, Zenon
      <4>3. h[k] = IF k = 0 THEN n ELSE e[k-1] + 14 + IpLen(layers[k].v) + After(layers[k])
        OBVIOUS
      <4> HIDE DEF e, h
      <4> QED BY <4>1, <4>2, <4>3
    <3> QED BY <3>1, <3>2, <3>3
  <2>3. e = h
    <3>1. e = [k \in 0..m + 1 |-> e[k]] /\ h = [k \in 0..m + 1 |-> h[k]]
      OBVIOUS
    <3> HIDE DEF e, h
    <3> QED BY <2>2, <3>1
  <2>4. Is(e, m + 1)
    BY <2>3 DEF h
  <2>5. m + 1 \in 0..l
    BY <1>2
  <2> HIDE DEF e, Is
  <2> QED BY <2>4, <2>5
<1>3. l \in S
  <2> HIDE DEF S
  <2>1. \A k \in 0..l : k \in S
    BY <1>1, <1>2, UpTo
  <2> QED BY <2>1
<1>4. \E f : Is(f, l)
  <2> HIDE DEF Is
  <2> QED BY <1>3
<1> QED BY <1>4, Zenon DEF Sizes

\* What Sizes is at each layer.
LEMMA SizesAt ==
  ASSUME NEW layers, NEW n, Len(layers) \in Nat
  PROVE  /\ Sizes(layers, n)[0] = n
         /\ \A k \in 1..Len(layers) : Sizes(layers, n)[k] =
              Sizes(layers, n)[k-1] + 14 + IpLen(layers[k].v) + After(layers[k])
<1> DEFINE f == Sizes(layers, n)
           l == Len(layers)
<1>1. f = [k \in 0..l |-> IF k = 0 THEN n
                          ELSE f[k-1] + 14 + IpLen(layers[k].v) + After(layers[k])]
  BY SizesExist, Zenon
<1> HIDE DEF f
<1>2. \A k \in 0..l : f[k] = IF k = 0 THEN n
                             ELSE f[k-1] + 14 + IpLen(layers[k].v) + After(layers[k])
  BY <1>1, Zenon
<1>3. 0 \in 0..l /\ \A k \in 1..l : k \in 0..l /\ k # 0
  OBVIOUS
<1> QED BY <1>2, <1>3 DEF f

\* One more header leaves what is inside it as it is.
LEMMA SizesAppend ==
  ASSUME NEW layers \in Seq(Header), NEW h \in Header, NEW n
  PROVE  LET l == Len(layers)
             s == Sizes(Append(layers, h), n)
         IN  /\ \A k \in 0..l : s[k] = Sizes(layers, n)[k]
             /\ s[l + 1] = Sizes(layers, n)[l] + 14 + IpLen(h.v) + After(h)
<1> DEFINE l == Len(layers)
           m == Append(layers, h)
           s == Sizes(m, n)
           t == Sizes(layers, n)
           S == {k \in 0..l : s[k] = t[k]}
<1>1. /\ l \in Nat /\ Len(m) = l + 1 /\ m[l + 1] = h /\ \A k \in 1..l : m[k] = layers[k]
  OBVIOUS
<1> HIDE DEF m, l
<1>2. s[0] = n /\ \A k \in 1..(l + 1) : s[k] = s[k-1] + 14 + IpLen(m[k].v) + After(m[k])
  <2>1. Len(m) \in Nat
    BY <1>1
  <2>2. s[0] = n /\ \A k \in 1..Len(m) : s[k] = s[k-1] + 14 + IpLen(m[k].v) + After(m[k])
    BY <2>1, SizesAt
  <2> HIDE DEF s
  <2> QED BY <2>2, <1>1
<1>3. t[0] = n /\ \A k \in 1..l : t[k] = t[k-1] + 14 + IpLen(layers[k].v) + After(layers[k])
  BY <1>1, SizesAt DEF l
<1> HIDE DEF s, t
<1>4. 0 \in S
  BY <1>1, <1>2, <1>3
<1>5. ASSUME NEW k \in 0..l, k < l, k \in S
      PROVE  k + 1 \in S
  <2>1. k + 1 \in 1..l /\ k + 1 \in 1..(l + 1) /\ (k + 1) - 1 = k
    BY <1>1, <1>5
  <2>2. s[k + 1] = s[k] + 14 + IpLen(layers[k + 1].v) + After(layers[k + 1])
    BY <1>1, <1>2, <2>1
  <2>3. t[k + 1] = t[k] + 14 + IpLen(layers[k + 1].v) + After(layers[k + 1])
    BY <1>3, <2>1
  <2> QED BY <1>5, <2>1, <2>2, <2>3
<1>6. \A k \in 0..l : s[k] = t[k]
  <2> HIDE DEF S
  <2>1. \A k \in 0..l : k \in S
    BY <1>1, <1>4, <1>5, UpTo
  <2> QED BY <2>1 DEF S
<1>7. s[l + 1] = t[l] + 14 + IpLen(h.v) + After(h)
  <2>1. l + 1 \in 1..(l + 1) /\ (l + 1) - 1 = l /\ l \in 0..l
    BY <1>1
  <2> QED BY <1>1, <1>2, <1>6, <2>1
<1> QED BY <1>6, <1>7 DEF s, t, m, l

\* The fields of a packet that do not change while headers are put in front of it.
Same(p, q) == q.act = p.act /\ q.arg = p.arg /\ q.ver = p.ver /\ q.out = p.out /\ q.node = p.node
              /\ q.list = p.list /\ q.pos = p.pos
Grown(p, q, e) == /\ Len(q.layers) = Len(p.layers) + 1
                  /\ Kinds(q) = Append(Kinds(p), e)

\* The bytes behind an IP header are at most 20.
LEMMA HeaderBytes ==
  ASSUME NEW h \in Header
  PROVE  After(h) \in 4..20 /\ IpLen(h.v) \in 20..40 /\ (h.v = 4 => IpLen(h.v) = 20)
<1>1. h.v \in {4, 6} /\ h.flag_S \in BOOLEAN
  BY DEF Header
<1> QED BY <1>1 DEF After, IpLen

\* The kinds of the headers, with one more.
LEMMA KindsAppend ==
  ASSUME NEW p, NEW q, NEW h \in Header, p.layers \in Seq(Header), q.layers = Append(p.layers, h)
  PROVE  Grown(p, q, h.kind)
<1> DEFINE l == Len(p.layers)
<1>1. l \in Nat /\ DOMAIN p.layers = 1..l /\ \A k \in 1..l : p.layers[k].kind \in EncapNames
  <2>1. \A x \in Header : x.kind \in EncapNames
    BY DEF Header
  <2>2. l \in Nat /\ DOMAIN p.layers = 1..l /\ \A k \in 1..l : p.layers[k] \in Header
    OBVIOUS
  <2> QED BY <2>1, <2>2
<1>2. DOMAIN q.layers = 1..(l + 1) /\ q.layers[l + 1] = h /\ \A k \in 1..l : q.layers[k] = p.layers[k]
  BY <1>1
<1>3. Kinds(p) = [k \in 1..l |-> p.layers[k].kind] /\ Kinds(p) \in Seq(EncapNames) /\ Len(Kinds(p)) = l
  BY <1>1 DEF Kinds
<1>4. Kinds(q) = [k \in 1..(l + 1) |-> q.layers[k].kind]
  BY <1>2 DEF Kinds
<1>5. h.kind \in EncapNames
  BY DEF Header
<1> DEFINE a == Append(Kinds(p), h.kind)
<1>6. a \in Seq(EncapNames) /\ Len(a) = l + 1 /\ a[l + 1] = h.kind /\ \A k \in 1..l : a[k] = p.layers[k].kind
  BY <1>1, <1>3, <1>5
<1>7. a = [k \in 1..(l + 1) |-> a[k]]
  BY <1>6
<1>8. \A k \in 1..(l + 1) : a[k] = q.layers[k].kind
  <2>1. \A k \in 1..(l + 1) : k = l + 1 \/ k \in 1..l
    BY <1>1
  <2> HIDE DEF a
  <2> QED BY <2>1, <1>2, <1>6
<1>9. Len(q.layers) = l + 1
  BY <1>1
<1> HIDE DEF a, l
<1>10. Kinds(q) = a
  BY <1>4, <1>7, <1>8
<1> QED BY <1>9, <1>10 DEF Grown, a, l

\* A header in front of a packet, its lengths computed from the packet.
LEMMA PushPkt ==
  ASSUME NEW p, Pkt(p), NEW h \in Header, NEW m, m = After(h),
         h.says = IpSays(h.v, m + p.len), h.kind = "vxlan" => h.udp = 16 + p.len,
         (h.flag_S <=> h.seq > 0)
  PROVE  LET q == Push(p, h, m) IN Pkt(q) /\ Same(p, q) /\ Grown(p, q, h.kind)
<1> DEFINE q == Push(p, h, m)
           l == Len(p.layers)
           s == Sizes(p.layers, p.size)
           t == Sizes(q.layers, q.size)
           x == 14 + IpLen(h.v) + m
<1>1. IsPkt(p) /\ Lengths(p) /\ Room(p)
  BY DEF Pkt
<1>2. /\ DOMAIN p = PktFields /\ p.layers \in Seq(Header) /\ p.cur \in Int /\ p.len \in Nat
      /\ p.size \in Nat
  BY <1>1 DEF IsPkt
<1>3. m \in 4..20 /\ IpLen(h.v) \in 20..40 /\ (h.v = 4 => IpLen(h.v) = 20)
  BY HeaderBytes
<1>4. /\ q.layers = Append(p.layers, h) /\ q.cur = p.cur - x /\ q.len = p.len + x
      /\ q.size = p.size /\ DOMAIN q = PktFields /\ Same(p, q)
      /\ q.flow = p.flow /\ q.tag = p.tag
  <2>1. /\ q.layers = Append(p.layers, h) /\ q.cur = p.cur - (14 + IpLen(h.v) + m)
        /\ q.len = p.len + 14 + IpLen(h.v) + m
        /\ q.size = p.size /\ DOMAIN q = PktFields
        /\ q.act = p.act /\ q.arg = p.arg /\ q.ver = p.ver /\ q.out = p.out /\ q.node = p.node
        /\ q.list = p.list /\ q.pos = p.pos /\ q.flow = p.flow /\ q.tag = p.tag
    BY <1>2 DEF Push, PktFields
  <2> HIDE DEF q
  <2>2. Same(p, q)
    BY <2>1 DEF Same
  <2>3. \A a, b, c \in Int : a + 14 + b + c = a + (14 + b + c)
    OBVIOUS
  <2>4. IpLen(h.v) \in Int /\ m \in Int /\ p.len \in Int
    <3>1. \A a \in 20..40 : a \in Int
      OBVIOUS
    <3>2. \A a \in 4..20 : a \in Int
      OBVIOUS
    <3>3. p.len \in Int
      BY <1>2
    <3> QED BY <3>1, <3>2, <3>3, <1>3, Zenon
  <2>5. q.cur = p.cur - x
    BY <2>1, Zenon
  <2>6. q.len = p.len + x
    BY <2>1, <2>3, <2>4, Zenon
  <2> QED BY <2>1, <2>2, <2>5, <2>6
<1> HIDE DEF q
<1>5. x \in 38..74 /\ (h.v = 4 => x <= 54)
  BY <1>3
<1> HIDE DEF x
<1>6. IsPkt(q)
  <2>0. Append(p.layers, h) \in Seq(Header)
    BY <1>2
  <2>1. q.layers \in Seq(Header)
    BY <2>0, <1>4, Zenon
  <2>2. q.cur \in Int /\ q.len \in Nat
    BY ONLY <1>2, <1>4, <1>5
  <2> QED BY <1>1, <1>4, <2>1, <2>2 DEF IsPkt, Same
<1>7. /\ l \in Nat /\ Len(q.layers) = l + 1 /\ q.layers[l + 1] = h
      /\ \A k \in 1..l : q.layers[k] = p.layers[k]
      /\ DOMAIN q.layers = 1..(l + 1) /\ DOMAIN p.layers = 1..l
  BY <1>2, <1>4
<1>8. /\ \A k \in 0..l : t[k] = s[k]
      /\ t[l + 1] = s[l] + x
  <2>1. LET u == Sizes(Append(p.layers, h), p.size)
        IN  /\ \A k \in 0..l : u[k] = s[k]
            /\ u[l + 1] = s[l] + 14 + IpLen(h.v) + After(h)
    BY <1>2, SizesAppend
  <2>2. t = Sizes(Append(p.layers, h), p.size)
    BY <1>4
  <2>3. s[l] = p.len
    BY <1>1 DEF Lengths
  <2>4. p.len + 14 + IpLen(h.v) + After(h) = p.len + x
    <3>1. \A a, b, c \in Int : a + 14 + b + c = a + (14 + b + c)
      OBVIOUS
    <3>2. IpLen(h.v) \in Int /\ After(h) \in Int /\ p.len \in Int
      <4>1. \A a \in 20..40 : a \in Int
        OBVIOUS
      <4>2. \A a \in 4..20 : a \in Int
        OBVIOUS
      <4>3. p.len \in Int
        BY <1>2
      <4> QED BY <4>1, <4>2, <4>3, <1>3, Zenon
    <3> QED BY <3>1, <3>2, Zenon DEF x
  <2> HIDE DEF t, s, l
  <2> QED BY <2>1, <2>2, <2>3, <2>4
<1>9. /\ p.len = s[l] /\ p.cur = p.size - p.len
      /\ \A k \in 1..l :
           LET g == p.layers[k] IN
           /\ g.says = IpSays(g.v, After(g) + s[k-1])
           /\ g.kind = "vxlan" => g.udp = 16 + s[k-1]
           /\ (g.flag_S <=> g.seq > 0)
  BY <1>1, <1>7 DEF Lengths
<1> HIDE DEF s, t, l
<1>10. Lengths(q)
  <2>1. q.len = t[l + 1] /\ q.cur = q.size - q.len
    <3>1. s[l] = p.len /\ t[l + 1] = s[l] + x
      BY <1>8, <1>9
    <3>2. q.len = p.len + x /\ q.cur = p.cur - x /\ q.size = p.size /\ p.cur = p.size - p.len
      BY <1>4, <1>9
    <3> QED BY ONLY <3>1, <3>2, <1>2, <1>5
  <2>2. ASSUME NEW k \in 1..(l + 1)
        PROVE  LET g == q.layers[k] IN
               /\ g.says = IpSays(g.v, After(g) + t[k-1])
               /\ g.kind = "vxlan" => g.udp = 16 + t[k-1]
               /\ (g.flag_S <=> g.seq > 0)
    <3>1. CASE k = l + 1
      <4>1. k - 1 = l /\ l \in 0..l
        BY <3>1, <1>7
      <4>2. t[k-1] = p.len /\ q.layers[k] = h
        BY <4>1, <3>1, <1>7, <1>8, <1>9
      <4> QED BY <4>2
    <3>2. CASE k \in 1..l
      <4>1. k - 1 \in 0..l
        BY <3>2, <1>7
      <4>2. t[k-1] = s[k-1] /\ q.layers[k] = p.layers[k]
        BY <4>1, <3>2, <1>7, <1>8
      <4> QED BY <4>2, <3>2, <1>9
    <3> QED BY <3>1, <3>2, <1>7
  <2> QED BY <2>1, <2>2, <1>7 DEF Lengths, t
<1>11. Room(q)
  <2>1. -p.cur <= 74 * l /\ ((\A k \in 1..l : p.layers[k].v = 4) => -p.cur <= 54 * l)
    BY <1>1, <1>7 DEF Room, l
  <2>2. -q.cur = -p.cur + x
    BY <1>2, <1>4, <1>5
  <2>0. -p.cur \in Int /\ x \in 38..74 /\ l \in Nat /\ (h.v = 4 => x <= 54)
    BY <1>2, <1>5, <1>7
  <2> HIDE DEF x
  <2>3. -q.cur <= 74 * (l + 1)
    BY <2>0, <2>1, <2>2
  <2>4. ASSUME \A k \in 1..(l + 1) : q.layers[k].v = 4
        PROVE  -q.cur <= 54 * (l + 1)
    <3>1. h.v = 4
      <4>1. l + 1 \in 1..(l + 1)
        BY <1>7
      <4> QED BY <4>1, <2>4, <1>7
    <3>2. \A k \in 1..l : p.layers[k].v = 4
      <4>1. \A k \in 1..l : k \in 1..(l + 1)
        BY <1>7
      <4> QED BY <4>1, <2>4, <1>7
    <3>3. -p.cur <= 54 * l
      BY <3>2, <2>1
    <3> QED BY <3>1, <3>3, <2>0, <2>2
  <2> QED BY <2>3, <2>4, <1>7 DEF Room
<1>12. Grown(p, q, h.kind)
  BY <1>2, <1>4, KindsAppend
<1> QED BY <1>4, <1>6, <1>10, <1>11, <1>12 DEF Pkt, q

\* What a Layer is: a header without a number.
LEMMA LayerHeader ==
  ASSUME NEW p, p.len \in Nat, NEW e \in EncapNames, NEW c \in Encap, c.dip \in {4, 6}, NEW n \in Nat
  PROVE  LET h == Layer(p, e, c, n)
         IN  /\ h \in Header /\ h.kind = e /\ h.v = c.dip /\ h.says = IpSays(c.dip, n + p.len)
             /\ ~h.flag_S /\ h.seq = 0
<1> DEFINE h == Layer(p, e, c, n)
<1>1. IpSays(c.dip, n + p.len) \in Nat
  BY DEF IpSays, IpLen
<1>2. Source(p, c.dip) \in {"interface", "default"}
  BY DEF Source
<1>3. c.dscp \in Nat
  BY DEF Encap
<1> DEFINE says == IpSays(c.dip, n + p.len)
           src == Source(p, c.dip)
<1>4. h = [kind |-> e, v |-> c.dip, src |-> src, tos |-> c.dscp, says |-> says, udp |-> 0,
           gre |-> "none", flag_S |-> FALSE, seq |-> 0, tag |-> FALSE]
  BY DEF Layer
<1> HIDE DEF says, src, h
<1>5. h \in Header
  BY <1>1, <1>2, <1>3, <1>4 DEF Header, says, src
<1>6. /\ h.kind = e /\ h.v = c.dip /\ h.says = says /\ ~h.flag_S /\ h.seq = 0
  BY <1>4
<1> QED BY <1>5, <1>6 DEF h, says

\* What an encapsulation node makes of a packet.
Encapped(p, q, e) == Pkt(q) /\ Same(p, q) /\ (q = p \/ Grown(p, q, e))

\* The fields of an encapsulation in memory.
LEMMA AddiEncap ==
  ASSUME ActInv, NEW i \in Ids, NEW e \in EncapNames
  PROVE  act[i].addi[e] \in Encap
<1>1. act[i] \in Action
  BY DEF ActInv
<1>2. act[i].addi \in [EncapNames -> Encap]
  BY <1>1 DEF Action
<1> QED BY <1>2

\* gre
LEMMA GreEncapped ==
  ASSUME NEW p, Pkt(p), p.act \in Ids, ActInv
  PROVE  LET q == GreEncap(p)
         IN  Encapped(p, q, "gre") /\ (act[p.act].addi["gre"].dip \in {4, 6} => Grown(p, q, "gre"))
<1> DEFINE c == act[p.act].addi["gre"]
           h == gre_encap_hdr_template(p, c)
           y == Layer(p, "gre", c, 4)
<1>1. "gre" \in EncapNames /\ 4 \in Nat
  BY DEF EncapNames
<1>4. c \in Encap /\ p.len \in Nat
  <2>1. p.len \in Nat
    BY DEF Pkt, IsPkt
  <2> QED BY <2>1, <1>1, AddiEncap
<1>2. CASE c.dip \in {4, 6}
  <2>1. /\ y \in Header /\ y.kind = "gre" /\ y.v = c.dip /\ y.says = IpSays(c.dip, 4 + p.len)
        /\ ~y.flag_S /\ y.seq = 0
    <3> HIDE DEF c
    <3> QED BY <1>1, <1>4, <1>2, LayerHeader
  <2>2. h = [y EXCEPT !.gre = "ethernet"]
    BY DEF gre_encap_hdr_template
  <2> HIDE DEF c, y, h
  <2>3. /\ h \in Header /\ h.kind = "gre" /\ h.v = c.dip /\ h.says = IpSays(c.dip, 4 + p.len)
        /\ ~h.flag_S /\ h.seq = 0
    BY <2>1, <2>2 DEF Header
  <2>4. After(h) = 4
    BY <2>3 DEF After
  <2>7. h.flag_S <=> h.seq > 0
    BY <2>3
  <2>5. LET q == Push(p, h, 4) IN Pkt(q) /\ Same(p, q) /\ Grown(p, q, "gre")
    BY <2>3, <2>4, <2>7, PushPkt
  <2>6. GreEncap(p) = Push(p, h, 4)
    BY <1>2 DEF GreEncap, c, h
  <2> QED BY <2>5, <2>6 DEF Encapped
<1>3. CASE c.dip \notin {4, 6}
  <2>1. GreEncap(p) = p
    BY <1>3 DEF GreEncap
  <2> QED BY <1>3, <2>1 DEF Encapped, Same
<1> QED BY <1>2, <1>3

\* vxlan
LEMMA VxlanEncapped ==
  ASSUME NEW p, Pkt(p), p.act \in Ids, ActInv
  PROVE  LET q == VxlanEncap(p)
         IN  /\ Encapped(p, q, "vxlan")
             /\ act[p.act].addi["vxlan"].dip \in {4, 6} => Grown(p, q, "vxlan")
<1> DEFINE c == act[p.act].addi["vxlan"]
           h == vxlan_encap_hdr_template(p, c)
           y == Layer(p, "vxlan", c, 16)
<1>1. "vxlan" \in EncapNames /\ 16 \in Nat
  BY DEF EncapNames
<1>4. c \in Encap /\ p.len \in Nat
  <2>1. p.len \in Nat
    BY DEF Pkt, IsPkt
  <2> QED BY <2>1, <1>1, AddiEncap
<1>2. CASE c.dip \in {4, 6}
  <2>1. /\ y \in Header /\ y.kind = "vxlan" /\ y.v = c.dip /\ y.says = IpSays(c.dip, 16 + p.len)
        /\ ~y.flag_S /\ y.seq = 0
    <3> HIDE DEF c
    <3> QED BY <1>1, <1>4, <1>2, LayerHeader
  <2>2. h = [y EXCEPT !.udp = 16 + p.len]
    BY DEF vxlan_encap_hdr_template
  <2> HIDE DEF c, y, h
  <2>3. /\ h \in Header /\ h.kind = "vxlan" /\ h.v = c.dip /\ h.says = IpSays(c.dip, 16 + p.len)
        /\ ~h.flag_S /\ h.seq = 0 /\ h.udp = 16 + p.len
    BY <1>4, <2>1, <2>2 DEF Header
  <2>4. After(h) = 16
    BY <2>3 DEF After
  <2>7. h.flag_S <=> h.seq > 0
    BY <2>3
  <2>5. LET q == Push(p, h, 16) IN Pkt(q) /\ Same(p, q) /\ Grown(p, q, "vxlan")
    BY <2>3, <2>4, <2>7, PushPkt
  <2>6. VxlanEncap(p) = Push(p, h, 16)
    BY <1>2 DEF VxlanEncap, c, h
  <2> QED BY <2>5, <2>6 DEF Encapped
<1>3. CASE c.dip \notin {4, 6}
  <2>1. VxlanEncap(p) = p
    BY <1>3 DEF VxlanEncap
  <2> QED BY <1>3, <2>1 DEF Encapped, Same
<1> QED BY <1>2, <1>3

\* erspan, with number n for types II and III
LEMMA ErspanEncapped ==
  ASSUME NEW p, Pkt(p), NEW c \in Encap, NEW n \in Nat, Numbered(c) => n > 0
  PROVE  LET q == encap_erspan_proc(p, c, n)
         IN  Encapped(p, q, "erspan")
             /\ (c.dip \in {4, 6} /\ c.type # 0 => Grown(p, q, "erspan"))
<1> DEFINE q == encap_erspan_proc(p, c, n)
           h == erspan_encap_common_hdr_template(p, c)
           y == Layer(p, "erspan", c, ErspanLen(c.type))
<1>1. p.len \in Nat /\ c.type \in 0..3 /\ p.tag \in BOOLEAN
  BY DEF Encap, Pkt, IsPkt
<1>2. CASE c.dip \in {4, 6}
  <2>0. ErspanLen(c.type) \in Nat /\ "erspan" \in EncapNames
    BY DEF ErspanLen, EncapNames
  <2>1. /\ y \in Header /\ y.kind = "erspan" /\ y.v = c.dip
        /\ y.says = IpSays(c.dip, ErspanLen(c.type) + p.len)
        /\ ~y.flag_S /\ y.seq = 0
    <3> DEFINE m == ErspanLen(c.type)
    <3> HIDE DEF m
    <3>1. m \in Nat
      BY <2>0 DEF m
    <3>2. LET x == Layer(p, "erspan", c, m)
          IN  /\ x \in Header /\ x.kind = "erspan" /\ x.v = c.dip
              /\ x.says = IpSays(c.dip, m + p.len) /\ ~x.flag_S /\ x.seq = 0
      BY <1>1, <1>2, <2>0, <3>1, LayerHeader
    <3> QED BY <3>2 DEF m
  <2>2. h = [y EXCEPT !.gre = "erspan"]
    BY DEF erspan_encap_common_hdr_template
  <2> HIDE DEF y
  <2>3. /\ h \in Header /\ h.kind = "erspan" /\ h.v = c.dip
        /\ h.says = IpSays(c.dip, ErspanLen(c.type) + p.len)
        /\ ~h.flag_S /\ h.seq = 0 /\ h.gre = "erspan"
    <3> HIDE DEF h
    <3> QED BY <2>1, <2>2 DEF Header
  <2>4. CASE c.type = 1
    <3>1. ErspanLen(c.type) = 4 /\ ErspanLen(1) = 4
      BY <2>4 DEF ErspanLen
    <3>2. After(h) = 4 /\ (h.flag_S <=> h.seq > 0)
      <4> HIDE DEF h
      <4>1. After(h) = 4
        BY <2>3 DEF After
      <4> QED BY <2>3, <4>1
    <3>3. q = Push(p, h, 4)
      BY <1>2, <2>4, <3>1 DEF encap_erspan_proc, encap_erspan_I
    <3> HIDE DEF h
    <3>4. LET r == Push(p, h, 4) IN Pkt(r) /\ Same(p, r) /\ Grown(p, r, "erspan")
      BY <2>3, <3>1, <3>2, PushPkt
    <3> QED BY <3>3, <3>4 DEF Encapped
  <2>5. CASE c.type = 2
    <3> DEFINE g == [h EXCEPT !.flag_S = TRUE, !.seq = n, !.tag = p.tag]
    <3>1. ErspanLen(c.type) = 16 /\ ErspanLen(2) = 16
      BY <2>5 DEF ErspanLen
    <3>2. q = Push(p, g, 16)
      BY <1>2, <2>5, <3>1 DEF encap_erspan_proc, encap_erspan_II
    <3> HIDE DEF h
    <3>3. /\ g \in Header /\ g.kind = "erspan" /\ g.v = c.dip
          /\ g.says = IpSays(c.dip, 16 + p.len)
          /\ g.flag_S /\ g.seq = n /\ g.gre = "erspan"
      BY <1>1, <2>3, <3>1 DEF Header
    <3> HIDE DEF g
    <3>6. n > 0
      BY <1>2, <2>5 DEF Numbered
    <3>4. After(g) = 16 /\ (g.flag_S <=> g.seq > 0)
      BY <3>3, <3>6 DEF After
    <3>5. LET r == Push(p, g, 16) IN Pkt(r) /\ Same(p, r) /\ Grown(p, r, "erspan")
      BY <3>3, <3>4, PushPkt
    <3> QED BY <3>2, <3>5 DEF Encapped
  <2>6. CASE c.type = 3
    <3> DEFINE g == [h EXCEPT !.flag_S = TRUE, !.seq = n, !.tag = p.tag, !.gre = "erspan_iii"]
    <3>1. ErspanLen(c.type) = 20 /\ ErspanLen(3) = 20
      BY <2>6 DEF ErspanLen
    <3>2. q = Push(p, g, 20)
      BY <1>2, <2>6, <3>1 DEF encap_erspan_proc, encap_erspan_III
    <3> HIDE DEF h
    <3>3. /\ g \in Header /\ g.kind = "erspan" /\ g.v = c.dip
          /\ g.says = IpSays(c.dip, 20 + p.len)
          /\ g.flag_S /\ g.seq = n /\ g.gre = "erspan_iii"
      BY <1>1, <2>3, <3>1 DEF Header
    <3> HIDE DEF g
    <3>6. n > 0
      BY <1>2, <2>6 DEF Numbered
    <3>4. After(g) = 20 /\ (g.flag_S <=> g.seq > 0)
      BY <3>3, <3>6 DEF After
    <3>5. LET r == Push(p, g, 20) IN Pkt(r) /\ Same(p, r) /\ Grown(p, r, "erspan")
      BY <3>3, <3>4, PushPkt
    <3> QED BY <3>2, <3>5 DEF Encapped
  <2>7. CASE c.type = 0
    <3>1. q = p
      BY <1>2, <2>7 DEF encap_erspan_proc
    <3> QED BY <3>1, <2>7 DEF Encapped, Same
  <2> QED BY <1>1, <2>4, <2>5, <2>6, <2>7
<1>3. CASE c.dip \notin {4, 6}
  <2>1. q = p
    BY <1>3 DEF encap_erspan_proc
  <2> QED BY <1>3, <2>1 DEF Encapped, Same
<1> QED BY <1>2, <1>3

-----------------------------------------------------------------------------
(* The nodes a packet visits.                                              *)

\* The sequences of this module, one behind the other.
LEMMA Joined ==
  ASSUME NEW S, NEW s \in Seq(S), NEW t \in Seq(S)
  PROVE  /\ s \o t \in Seq(S) /\ Len(s \o t) = Len(s) + Len(t)
         /\ \A k \in 1..Len(s) : (s \o t)[k] = s[k]
         /\ \A k \in 1..Len(t) : (s \o t)[Len(s) + k] = t[k]
  OBVIOUS

\* The encapsulations of an action, and what follows them.
LEMMA OrderIs ==
  ASSUME NEW on \in SUBSET EncapNames
  PROVE  /\ Order(on) \in Seq(on) /\ Len(Order(on)) \in 0..3
         /\ on = {} => Order(on) = <<>>
         /\ on # {} => Len(Order(on)) >= 1
<1>1. ASSUME NEW e \in EncapNames
      PROVE  /\ Only(e, on) \in Seq(on) /\ Len(Only(e, on)) \in 0..1
             /\ e \in on => Len(Only(e, on)) = 1
             /\ e \notin on => Only(e, on) = <<>>
  <2>1. CASE e \in on
    <3>1. Only(e, on) = <<e>>
      BY <2>1 DEF Only
    <3> QED BY <2>1, <3>1
  <2>2. CASE e \notin on
    <3>1. Only(e, on) = <<>>
      BY <2>2 DEF Only
    <3> QED BY <2>2, <3>1
  <2> QED BY <2>1, <2>2
<1> DEFINE a == Only("erspan", on)
           b == Only("vxlan", on)
           c == Only("gre", on)
<1>2. /\ a \in Seq(on) /\ b \in Seq(on) /\ c \in Seq(on)
      /\ Len(a) \in 0..1 /\ Len(b) \in 0..1 /\ Len(c) \in 0..1
      /\ "erspan" \in on => Len(a) = 1
      /\ "vxlan" \in on => Len(b) = 1
      /\ "gre" \in on => Len(c) = 1
  BY <1>1 DEF EncapNames
<1>3. on = {} => a = <<>> /\ b = <<>> /\ c = <<>>
  BY <1>1 DEF EncapNames
<1>4. Order(on) = (a \o b) \o c
  BY DEF Order
<1> HIDE DEF a, b, c
<1>5. a \o b \in Seq(on) /\ Len(a \o b) = Len(a) + Len(b)
  BY <1>2, Joined
<1>6. Order(on) \in Seq(on) /\ Len(Order(on)) = Len(a) + Len(b) + Len(c)
  BY <1>2, <1>4, <1>5, Joined
<1>7. on = {} => Order(on) = <<>>
  BY <1>3, <1>4
<1>8. on # {} => "erspan" \in on \/ "vxlan" \in on \/ "gre" \in on
  BY DEF EncapNames
<1> HIDE DEF a, b, c
<1>9. Len(a) + Len(b) + Len(c) \in 0..3
      /\ (on # {} => Len(a) + Len(b) + Len(c) >= 1)
  <2>1. \A x, y, z \in 0..1 : x + y + z \in 0..3
                              /\ (x = 1 \/ y = 1 \/ z = 1 => x + y + z >= 1)
    OBVIOUS
  <2>2. on # {} => Len(a) = 1 \/ Len(b) = 1 \/ Len(c) = 1
    BY <1>2, <1>8, Zenon
  <2> QED BY <1>2, <2>1, <2>2, Zenon
<1> QED BY <1>6, <1>7, <1>9, Zenon

\* What the list of a packet holds.
LEMMA ListIs ==
  ASSUME NEW on \in SUBSET EncapNames, NEW fwd \in {Out, Balance}, NEW list,
         list = Order(on) \o <<fwd>>
  PROVE  /\ list \in Seq(Nodes \cup FinalNodes) /\ Len(list) = Len(Order(on)) + 1
         /\ \A k \in 1..Len(Order(on)) : list[k] = Order(on)[k] /\ list[k] \in on
         /\ list[Len(Order(on)) + 1] = fwd
<1> DEFINE S == Nodes \cup FinalNodes
           o == Order(on)
<1>1. on \subseteq S /\ fwd \in S
  BY DEF Nodes, FinalNodes
<1>2. o \in Seq(on) /\ Len(o) \in Nat
  BY OrderIs
<1> HIDE DEF o, S
<1>3. o \in Seq(S) /\ <<fwd>> \in Seq(S) /\ \A k \in 1..Len(o) : o[k] \in on
  BY <1>1, <1>2
<1>4. Len(<<fwd>>) = 1 /\ <<fwd>>[1] = fwd /\ 1 \in 1..Len(<<fwd>>)
  OBVIOUS
<1>5. list = o \o <<fwd>>
  BY DEF o
<1> DEFINE f == <<fwd>>
<1> HIDE DEF f
<1>7. o \o f \in Seq(S) /\ Len(o \o f) = Len(o) + Len(f)
      /\ (\A k \in 1..Len(o) : (o \o f)[k] = o[k])
      /\ (\A k \in 1..Len(f) : (o \o f)[Len(o) + k] = f[k])
  <2>1. f \in Seq(S)
    BY <1>3 DEF f
  <2>2. o \in Seq(S)
    BY <1>3
  <2> QED BY ONLY <2>1, <2>2, Joined
<1>6. list \in Seq(S) /\ Len(list) = Len(o) + 1 /\ (\A k \in 1..Len(o) : list[k] = o[k])
      /\ list[Len(o) + 1] = fwd
  BY <1>4, <1>5, <1>7, Zenon DEF f
<1> QED BY <1>3, <1>6 DEF o, S

\* Where a packet goes next, and that it may be there.
Goes(a, v, r) ==
  /\ r.next \in Nodes \cup FinalNodes
  /\ r.next \in FinalNodes => PktDone(a, v, [r.p EXCEPT !.node = r.next])
  /\ r.next \notin FinalNodes => PktAt(a, v, r.next, r.p)

\* What Pkt says of a packet does not depend on its node, place or exit.
LEMMA PktFrom ==
  ASSUME NEW p, NEW q, Pkt(p), DOMAIN q = PktFields, q.layers = p.layers, q.cur = p.cur,
         q.len = p.len, q.size = p.size, q.flow = p.flow, q.tag = p.tag, q.arg = p.arg,
         q.act \in Nat, q.ver \in Nat, q.list \in Seq(Nodes \cup FinalNodes), q.pos \in Nat \ {0}
  PROVE  Pkt(q) /\ Kinds(q) = Kinds(p)
<1>1. IsPkt(q)
  BY DEF Pkt, IsPkt
<1>2. Lengths(q)
  BY DEF Pkt, Lengths
<1>3. Room(q)
  BY DEF Pkt, Room
<1> QED BY <1>1, <1>2, <1>3 DEF Pkt, Kinds

\* What a struct workers may use says of itself.
LEMMA UsableIs ==
  ASSUME NEW c \in Action, Whole(c)
  PROVE  /\ c.ref = 1 /\ c.ref > 0 /\ c.type \in {"drop", "forward", "load_balance"}
         /\ c.type # "load_balance" => c.mode = ""
         /\ c.type = "load_balance" => c.num > 0 /\ c.mode \in Modes
         /\ c.num \in 0..MAX_INTERFACE_CNT
<1>1. Shape(Base(c)) /\ c.ref = 1
  BY DEF Whole
<1> DEFINE b == Base(c)
<1>2. /\ b.type = c.type /\ b.mode = c.mode /\ b.num = c.num
      /\ c.num \in 0..MAX_INTERFACE_CNT
  BY DEF Base, Action
<1> HIDE DEF b
<1>3. /\ b.type \in {"drop", "forward", "load_balance"}
      /\ b.type # "load_balance" => b.mode = ""
      /\ b.type = "load_balance" => b.num > 0 /\ b.mode \in Modes
  BY <1>1 DEF Shape, b
<1>4. c.ref > 0
  BY <1>1
<1> QED BY <1>1, <1>2, <1>3, <1>4, Zenon

\* A packet that leaves, its node written into it.
LEMMA NodeSet ==
  ASSUME NEW r, Pkt(r), NEW n, NEW x, x = [r EXCEPT !.node = n]
  PROVE  /\ Pkt(x) /\ Kinds(x) = Kinds(r) /\ x.node = n /\ x.act = r.act /\ x.arg = r.arg
         /\ x.ver = r.ver /\ x.out = r.out /\ x.layers = r.layers
<1>1. /\ DOMAIN r = PktFields /\ r.act \in Nat /\ r.ver \in Nat
      /\ r.list \in Seq(Nodes \cup FinalNodes) /\ r.pos \in Nat \ {0}
  BY DEF Pkt, IsPkt
<1>2. /\ DOMAIN x = PktFields /\ x.layers = r.layers /\ x.cur = r.cur /\ x.len = r.len
      /\ x.size = r.size /\ x.flow = r.flow /\ x.tag = r.tag /\ x.arg = r.arg /\ x.act = r.act
      /\ x.ver = r.ver /\ x.list = r.list /\ x.pos = r.pos /\ x.node = n /\ x.out = r.out
  BY <1>1 DEF PktFields
<1> QED BY <1>1, <1>2, PktFrom

\* A packet whose list was overwritten.
LEMMA LeftWild ==
  ASSUME NEW r, Pkt(r), Past(ver, r), Len(r.layers) > 2
  PROVE  PktDone(act, ver, [r EXCEPT !.node = Wild])
<1> DEFINE x == [r EXCEPT !.node = Wild]
<1>0. x = [r EXCEPT !.node = Wild]
  OBVIOUS
<1> HIDE DEF x
<1>1. /\ Pkt(x) /\ x.node = Wild /\ x.act = r.act /\ x.arg = r.arg /\ x.ver = r.ver
      /\ x.layers = r.layers
  <2>1. Pkt(r)
    OBVIOUS
  <2> QED BY ONLY <2>1, <1>0, NodeSet
<1>2. Left(act, ver, x)
  BY <1>1 DEF Left
<1>3. Len(r.layers) \in Nat
  BY DEF Pkt, IsPkt
<1>4. ~(Len(x.layers) <= 2)
  BY <1>1, <1>3
<1> QED BY <1>1, <1>2, <1>4 DEF PktDone, FinalNodes, Past, x

\* A packet with all its tunnels, forwarded.
LEMMA LeftForward ==
  ASSUME ActInv, NEW r, Pkt(r), Past(ver, r),
         Match(ver, r) => /\ Whole(act[r.act]) /\ act[r.act].type = "forward"
                          /\ r.out = act[r.act].fwd
                          /\ Kinds(r) = Order(act[r.act].switch)
  PROVE  PktDone(act, ver, [r EXCEPT !.node = Out])
<1> DEFINE x == [r EXCEPT !.node = Out]
<1>0. x = [r EXCEPT !.node = Out]
  OBVIOUS
<1> HIDE DEF x
<1>1. /\ Pkt(x) /\ x.node = Out /\ x.act = r.act /\ x.arg = r.arg /\ x.ver = r.ver
      /\ x.layers = r.layers /\ x.out = r.out /\ Kinds(x) = Kinds(r)
  BY <1>0, NodeSet
<1>2. r.act \in Ids
  BY DEF Past
<1>3. Left(act, ver, x)
  <2> SUFFICES ASSUME Match(ver, x)
               PROVE  /\ act[x.act].ref # 0 /\ act[x.act].type = "forward"
                      /\ x.out = act[x.act].fwd /\ Kinds(x) = Order(act[x.act].switch)
                      /\ act[x.act].mode \notin {"round_robin", "wrr"}
    BY <1>1 DEF Left
  <2>1. /\ Whole(act[r.act]) /\ act[r.act].type = "forward" /\ r.out = act[r.act].fwd
        /\ Kinds(r) = Order(act[r.act].switch)
    BY <1>1 DEF Match
  <2>2. act[r.act].ref # 0 /\ act[r.act].type # "load_balance" /\ act[r.act] \in Action
    BY <2>1, <1>2 DEF Whole, ActInv
  <2>3. act[r.act].mode = ""
    BY <2>1, <2>2, UsableIs, Zenon
  <2>4. act[r.act].mode \notin {"round_robin", "wrr"}
    BY <2>3
  <2> QED BY <2>1, <2>2, <2>4, <1>1, Zenon
<1>4. Out # Wild
  BY DEF Out, Wild
<1> QED BY <1>1, <1>3, <1>4 DEF PktDone, FinalNodes, Past, x

\* A configured encapsulation puts a header on.
LEMMA SwitchedOn ==
  ASSUME NEW c \in Action, Whole(c), NEW e \in c.switch
  PROVE  /\ e \in EncapNames /\ c.addi[e].dip \in {4, 6}
         /\ e = "erspan" => c.addi[e].type \in 1..3
<1>1. Shape(Base(c))
  BY DEF Whole
<1> DEFINE b == Base(c)
<1>2. b.switch = c.switch /\ b.addi = c.addi
  BY <1>1 DEF Base, Action
<1> HIDE DEF b
<1>3. e \in EncapNames
  BY <1>1 DEF Action
<1>4. EncapShape(e, b.addi[e])
  BY <1>1, <1>2, <1>3 DEF Shape, b
<1> QED BY <1>2, <1>3, <1>4 DEF EncapShape

\* The list behind pre_data is not reached by the headers of two encapsulations.
LEMMA NotReached ==
  ASSUME NEW q, Pkt(q), Len(q.layers) <= 2, q.pos \in 1..4
  PROVE  ~Overwritten(q)
<1>1. q.cur \in Int /\ Len(q.layers) \in Nat /\ -q.cur <= 74 * Len(q.layers)
  BY DEF Pkt, IsPkt, Room
<1> DEFINE l == Len(q.layers)
           x == q.cur
           y == q.pos
<1> HIDE DEF l, x, y
<1>4. l \in Nat /\ l <= 2 /\ x \in Int /\ -x <= 74 * l /\ y \in 1..4
  BY <1>1, Zenon DEF l, x, y
<1>2. l \in 0..2 /\ x \in Int /\ -x <= 74 * l /\ y \in 1..4
  BY ONLY <1>4
<1>3. ~(-x >= 128 + 64 - (3 + y))
  BY <1>2
<1> QED BY <1>3 DEF Overwritten, PRE_DATA_SIZE, x, y

\* What an encapsulation node does to a packet that waits for it.
LEMMA EncapGoes ==
  ASSUME ActInv, NEW e \in EncapNames, NEW p, PktAt(act, ver, e, p), NEW q, Encapped(p, q, e),
         Match(ver, p) /\ e \in act[p.act].switch /\ Whole(act[p.act]) => Grown(p, q, e)
  PROVE  Goes(act, ver, Pop(q))
<1>1. /\ Pkt(p) /\ p.node = "" /\ Past(ver, p) /\ AtEncap(act, ver, e, p)
  BY DEF PktAt, EncapNames
<1>2. Pkt(q) /\ Same(p, q)
  BY DEF Encapped
<1>3. /\ DOMAIN q = PktFields /\ q.list \in Seq(Nodes \cup FinalNodes) /\ q.act \in Nat
      /\ q.ver \in Nat /\ q.layers \in Seq(Header) /\ q.pos \in Nat \ {0} /\ Len(q.layers) \in Nat
      /\ p.layers \in Seq(Header) /\ Len(p.layers) \in Nat
  <2>1. /\ DOMAIN q = PktFields /\ q.list \in Seq(Nodes \cup FinalNodes) /\ q.act \in Nat
        /\ q.ver \in Nat /\ q.layers \in Seq(Header) /\ q.pos \in Nat \ {0}
        /\ p.layers \in Seq(Header)
    BY <1>1, <1>2, Zenon DEF Pkt, IsPkt
  <2>2. \A x \in Seq(Header) : Len(x) \in Nat
    OBVIOUS
  <2> QED BY <2>1, <2>2
<1>4. PICK on \in SUBSET EncapNames, fwd \in {Out, Balance} :
      /\ p.list = Order(on) \o <<fwd>>
      /\ p.pos \in 2..(Len(Order(on)) + 1) /\ Order(on)[p.pos - 1] = e
      /\ Len(p.layers) <= p.pos - 2
      /\ Match(ver, p) =>
           LET c == act[p.act]
           IN /\ Whole(c) /\ c.type \in {"forward", "load_balance"}
              /\ on = c.switch /\ fwd = action_type_to_next_index(c)
              /\ c.type = "forward" => p.out = c.fwd
              /\ Kinds(p) = SubSeq(Order(on), 1, p.pos - 2)
  BY <1>1 DEF AtEncap
<1> DEFINE o == Order(on)
           l == q.list
           m == p.pos
           c == act[p.act]
           r == [q EXCEPT !.pos = @ + 1]
<1>5. /\ o \in Seq(on) /\ Len(o) \in 0..3 /\ o \in Seq(EncapNames)
  BY OrderIs
<1>0. l = Order(on) \o <<fwd>> /\ q.pos = m
  BY <1>2, <1>4 DEF Same
<1> HIDE DEF l
<1>6. /\ Len(l) = Len(o) + 1 /\ l[Len(o) + 1] = fwd
      /\ \A k \in 1..Len(o) : l[k] = o[k] /\ l[k] \in on
  BY <1>0, ListIs
<1> HIDE DEF o, m, r
<1>7. m \in 2..(Len(o) + 1) /\ m \in 2..4 /\ q.pos = m /\ Len(p.layers) <= m - 2
  <2>1. m \in 2..(Len(o) + 1) /\ q.pos = m /\ Len(p.layers) <= m - 2
    BY <1>0, <1>4, Zenon DEF o, m
  <2>2. Len(o) \in 0..3
    BY <1>5
  <2>4. \A a \in 0..3 : \A b \in 2..(a + 1) : b \in 2..4
    OBVIOUS
  <2>3. m \in 2..4
    BY <2>1, <2>2, <2>4, Zenon
  <2> QED BY <2>1, <2>3
<1>8. Len(q.layers) <= m - 1
  <2>1. Len(q.layers) = Len(p.layers) \/ Len(q.layers) = Len(p.layers) + 1
    BY DEF Encapped, Grown
  <2> QED BY <2>1, <1>3, <1>7
<1>9. /\ DOMAIN r = PktFields /\ r.pos = m + 1 /\ r.layers = q.layers /\ r.cur = q.cur
      /\ r.len = q.len /\ r.size = q.size /\ r.flow = q.flow /\ r.tag = q.tag /\ r.arg = p.arg
      /\ r.act = p.act /\ r.ver = p.ver /\ r.list = l /\ r.node = "" /\ r.out = p.out
  BY <1>1, <1>2, <1>3, <1>7 DEF r, l, PktFields, Same
<1>10. Pkt(r) /\ Kinds(r) = Kinds(q)
  <2>3. \A b \in 2..4 : b + 1 \in Nat \ {0}
    OBVIOUS
  <2>1. r.pos \in Nat \ {0}
    BY <2>3, <1>7, <1>9, Zenon
  <2>2. r.arg = q.arg /\ r.act \in Nat /\ r.ver \in Nat
    BY <1>2, <1>3, <1>9 DEF Same
  <2> QED BY <2>1, <2>2, <1>2, <1>3, <1>9, PktFrom DEF l
<1>11. Past(ver, r) /\ (Match(ver, r) <=> Match(ver, p))
  BY <1>1, <1>9 DEF Past, Match
<1>12. Len(SubSeq(o, 1, m - 1)) = m - 1 /\ SubSeq(o, 1, Len(o)) = o
       /\ Append(SubSeq(o, 1, m - 2), o[m - 1]) = SubSeq(o, 1, m - 1)
  BY <1>5, <1>7
<1>13. ASSUME Match(ver, p)
       PROVE  /\ Whole(c) /\ c.type \in {"forward", "load_balance"}
              /\ on = c.switch /\ fwd = action_type_to_next_index(c)
              /\ c.type = "forward" => r.out = c.fwd
              /\ Kinds(r) = SubSeq(o, 1, m - 1)
  <2>1. /\ Whole(c) /\ c.type \in {"forward", "load_balance"}
        /\ on = c.switch /\ fwd = action_type_to_next_index(c)
        /\ c.type = "forward" => p.out = c.fwd
        /\ Kinds(p) = SubSeq(o, 1, m - 2)
    BY <1>4, <1>13 DEF o, m
  <2>2. o[m - 1] = e /\ e \in on
    <3>1. o[m - 1] = e
      BY <1>4 DEF o, m
    <3>2. m - 1 \in 1..Len(o)
      BY <1>5, <1>7
    <3> QED BY <3>1, <3>2, <1>6
  <2>3. Grown(p, q, e)
    BY <2>1, <2>2, <1>13
  <2>4. Kinds(r) = Append(Kinds(p), e)
    BY <2>3, <1>10 DEF Grown
  <2> QED BY <2>1, <2>2, <2>4, <1>9, <1>12
<1>14. CASE Overwritten(q)
  <2>1. Pop(q) = [p |-> r, next |-> Wild]
    BY <1>14 DEF Pop, r
  <2>2. Len(q.layers) > 2
    <3>1. q.pos \in 1..4
      BY <1>7
    <3> QED BY <3>1, <1>2, <1>3, <1>14, NotReached
  <2>3. PktDone(act, ver, [r EXCEPT !.node = Wild])
    BY <2>2, <1>9, <1>10, <1>11, LeftWild
  <2> QED BY <2>1, <2>3 DEF Goes, FinalNodes
<1>15. CASE ~Overwritten(q) /\ m <= Len(o)
  <2>1. m \in 1..Len(o) /\ m <= Len(l)
    BY <1>5, <1>6, <1>7, <1>15
  <2>2. Pop(q) = [p |-> r, next |-> o[m]] /\ o[m] \in EncapNames
    BY <2>1, <1>6, <1>7, <1>15 DEF Pop, r, l
  <2>3. AtEncap(act, ver, o[m], r)
    <3>1. r.list = Order(on) \o <<fwd>>
      BY <1>2, <1>4, <1>9 DEF l, Same
    <3>5. \A a \in 0..3 : \A b \in 1..a : b + 1 \in 2..(a + 1) /\ (b + 1) - 1 = b
                                          /\ (b + 1) - 2 = b - 1
      OBVIOUS
    <3>2. r.pos \in 2..(Len(o) + 1) /\ r.pos - 1 = m /\ r.pos - 2 = m - 1
      BY <3>5, <1>5, <1>9, <2>1, Zenon
    <3>3. Len(r.layers) <= r.pos - 2
      BY <3>2, <1>8, <1>9
    <3>4. Match(ver, r) =>
            /\ Whole(act[r.act]) /\ act[r.act].type \in {"forward", "load_balance"}
            /\ on = act[r.act].switch /\ fwd = action_type_to_next_index(act[r.act])
            /\ act[r.act].type = "forward" => r.out = act[r.act].fwd
            /\ Kinds(r) = SubSeq(Order(on), 1, r.pos - 2)
      BY <3>2, <1>9, <1>11, <1>13 DEF o
    <3> QED BY <3>1, <3>2, <3>3, <3>4 DEF AtEncap, o
  <2>4. o[m] \notin FinalNodes /\ o[m] \in Nodes /\ o[m] # "sf_action_main" /\ o[m] # Balance
    BY <2>2 DEF FinalNodes, EncapNames, Nodes, Out, Drop, Wild, Balance
  <2>5. PktAt(act, ver, o[m], r)
    BY <2>2, <2>3, <2>4, <1>9, <1>10, <1>11 DEF PktAt
  <2> QED BY <2>2, <2>4, <2>5 DEF Goes
<1>16. CASE ~Overwritten(q) /\ m = Len(o) + 1
  <2>1. Pop(q) = [p |-> r, next |-> fwd]
    BY <1>6, <1>7, <1>16 DEF Pop, r, l
  <2>2. Match(ver, p) => Kinds(r) = Order(c.switch)
    <3>1. m - 1 = Len(o)
      BY <1>5, <1>16
    <3> QED BY <3>1, <1>12, <1>13 DEF o
  <2>3. CASE fwd = Out
    <3>1. Match(ver, p) => c.type = "forward"
      BY <2>3, <1>13 DEF action_type_to_next_index, Out, Balance
    <3>2. PktDone(act, ver, [r EXCEPT !.node = Out])
      BY <3>1, <2>2, <1>9, <1>10, <1>11, <1>13, LeftForward
    <3> QED BY <3>2, <2>1, <2>3 DEF Goes, FinalNodes
  <2>4. CASE fwd = Balance
    <3>1. Match(ver, p) => c.type = "load_balance"
      BY <2>4, <1>13 DEF action_type_to_next_index, Out, Balance
    <3>2. AtBalance(act, ver, r)
      BY <3>1, <2>2, <1>9, <1>11, <1>13 DEF AtBalance
    <3>3. Balance \in Nodes /\ Balance \notin FinalNodes /\ Balance \notin EncapNames
          /\ Balance # "sf_action_main"
      BY DEF Nodes, FinalNodes, Balance, Out, Drop, Wild, EncapNames
    <3>4. PktAt(act, ver, Balance, r)
      BY <3>2, <3>3, <1>9, <1>10, <1>11 DEF PktAt
    <3> QED BY <3>3, <3>4, <2>1, <2>4 DEF Goes
  <2> QED BY <2>3, <2>4
<1>17. m <= Len(o) \/ m = Len(o) + 1
  BY <1>5, <1>7
<1> QED BY <1>14, <1>15, <1>16, <1>17

\* The nodes gre and vxlan.
LEMMA GreGoes ==
  ASSUME ActInv, NEW p, PktAt(act, ver, "gre", p)
  PROVE  Goes(act, ver, GrePacket(p))
<1>1. "gre" \in EncapNames /\ Pkt(p) /\ p.act \in Ids
  BY DEF PktAt, EncapNames, Past
<1> DEFINE q == GreEncap(p)
<1>2. Encapped(p, q, "gre") /\ (act[p.act].addi["gre"].dip \in {4, 6} => Grown(p, q, "gre"))
  BY <1>1, GreEncapped
<1>3. "gre" \in act[p.act].switch /\ Whole(act[p.act]) => Grown(p, q, "gre")
  BY <1>1, <1>2, SwitchedOn DEF ActInv
<1> HIDE DEF q
<1>4. Goes(act, ver, Pop(q))
  BY <1>1, <1>2, <1>3, EncapGoes
<1> QED BY <1>4 DEF GrePacket, q

\* A packet the VXLAN encapsulation node handles goes where its action says.
LEMMA VxlanGoes ==
  ASSUME ActInv, NEW p, PktAt(act, ver, "vxlan", p)
  PROVE  Goes(act, ver, VxlanPacket(p))
<1>1. "vxlan" \in EncapNames /\ Pkt(p) /\ p.act \in Ids
  BY DEF PktAt, EncapNames, Past
<1> DEFINE q == VxlanEncap(p)
<1>2. /\ Encapped(p, q, "vxlan")
      /\ act[p.act].addi["vxlan"].dip \in {4, 6} => Grown(p, q, "vxlan")
  BY <1>1, VxlanEncapped
<1>3. "vxlan" \in act[p.act].switch /\ Whole(act[p.act]) => Grown(p, q, "vxlan")
  BY <1>1, <1>2, SwitchedOn DEF ActInv
<1> HIDE DEF q
<1>4. Goes(act, ver, Pop(q))
  BY <1>1, <1>2, <1>3, EncapGoes
<1> QED BY <1>4 DEF VxlanPacket, q

\* The node erspan, with the encapsulation c it read and the number n it took.
LEMMA ErspanGoes ==
  ASSUME ActInv, NEW p, PktAt(act, ver, "erspan", p), NEW c \in Encap, NEW n \in Nat,
         Numbered(c) => n > 0,
         (c.dip \in {4, 6} /\ c.type # 0) \/ c = act[p.act].addi["erspan"]
  PROVE  Goes(act, ver, Pop(encap_erspan_proc(p, c, n)))
<1>1. "erspan" \in EncapNames /\ Pkt(p) /\ p.act \in Ids
  BY DEF PktAt, EncapNames, Past
<1> DEFINE q == encap_erspan_proc(p, c, n)
<1>2. Encapped(p, q, "erspan") /\ (c.dip \in {4, 6} /\ c.type # 0 => Grown(p, q, "erspan"))
  BY <1>1, ErspanEncapped
<1>3. "erspan" \in act[p.act].switch /\ Whole(act[p.act]) => c.dip \in {4, 6} /\ c.type # 0
  <2> SUFFICES ASSUME "erspan" \in act[p.act].switch, Whole(act[p.act]),
                      c = act[p.act].addi["erspan"]
               PROVE  c.dip \in {4, 6} /\ c.type # 0
    OBVIOUS
  <2>1. c.dip \in {4, 6} /\ c.type \in 1..3
    BY <1>1, SwitchedOn DEF ActInv
  <2> QED BY <2>1
<1> HIDE DEF q
<1>4. Goes(act, ver, Pop(q))
  BY <1>1, <1>2, <1>3, EncapGoes
<1> QED BY <1>4 DEF q

\* sf_action_main.
LEMMA MainGoes ==
  ASSUME ActInv, ver \in [Ids -> Nat \ {0}], NEW p, PktAt(act, ver, "sf_action_main", p)
  PROVE  Goes(act, ver, get_action_forward_path(p))
<1>1. Pkt(p) /\ p.node = "" /\ p.layers = <<>> /\ p.pos = 1
  BY DEF PktAt
<1>2. /\ DOMAIN p = PktFields /\ p.arg \in Nat /\ p.act \in Nat /\ p.ver \in Nat
      /\ p.list \in Seq(Nodes \cup FinalNodes) /\ p.cur \in Int
  BY <1>1, Zenon DEF Pkt, IsPkt
<1> DEFINE c == get_action(p.arg)
           fwd == action_type_to_next_index(c)
           live == c.ref > 0 /\ c.type \in {"forward", "load_balance"}
           q == [p EXCEPT !.act = p.arg, !.ver = VerOf(p.arg), !.out = IF live THEN c.fwd ELSE @]
           r == get_action_forward_path(p)
<1>3. c \in Action /\ VerOf(p.arg) \in Nat
  BY ZeroType, <1>2 DEF get_action, is_valid_action_id, VerOf, ActInv
<1>4. r = IF c.ref = 0 \/ c.type \notin {"forward", "load_balance"} THEN [p |-> q, next |-> Drop]
          ELSE IF c.switch = {} THEN [p |-> q, next |-> fwd]
          ELSE Pop([q EXCEPT !.list = Order(c.switch) \o <<fwd>>])
  BY DEF get_action_forward_path
<1>5. /\ DOMAIN q = PktFields /\ q.act = p.arg /\ q.ver = VerOf(p.arg) /\ q.arg = p.arg
      /\ q.layers = <<>> /\ q.pos = 1 /\ q.cur = p.cur /\ q.len = p.len /\ q.size = p.size
      /\ q.flow = p.flow /\ q.tag = p.tag /\ q.node = "" /\ q.list = p.list
  BY <1>1, <1>2 DEF PktFields
<1>16. live => q.out = c.fwd
  BY <1>2 DEF PktFields
<1>6. fwd \in {Out, Balance} /\ (fwd = Out <=> c.type = "forward")
  BY DEF action_type_to_next_index, Out, Balance
<1>7. p.arg \in Ids => /\ c = act[p.arg]
                       /\ VerOf(p.arg) = IF Torn(p.arg) THEN 0 ELSE ver[p.arg]
  BY DEF get_action, is_valid_action_id, VerOf
<1>8. p.arg \notin Ids => c.ref = 0
  BY ZeroFields DEF get_action, is_valid_action_id
<1>9. c.ref \in 0..1 /\ c.switch \in SUBSET EncapNames
  BY <1>3 DEF Action
<1>0. SUFFICES Goes(act, ver, r)
  OBVIOUS
<1> HIDE DEF c, fwd, q, r
<1>10. Pkt(q) /\ Kinds(q) = <<>>
  <2>1. Pkt(q) /\ Kinds(q) = Kinds(p)
    <3>2. 1 \in Nat \ {0}
      OBVIOUS
    <3>1. q.act \in Nat /\ q.ver \in Nat /\ q.pos \in Nat \ {0}
      BY <1>2, <1>3, <1>5, <3>2, Zenon
    <3> QED BY <1>1, <1>2, <1>5, <3>1, PktFrom
  <2>2. Kinds(p) = <<>>
    <3>1. [k \in DOMAIN <<>> |-> <<>>[k].kind] = <<>>
      OBVIOUS
    <3> QED BY <1>1, <3>1, Zenon DEF Kinds
  <2> QED BY <2>1, <2>2
<1>11. p.arg \in Ids => Past(ver, q)
  <2>1. p.arg \in Ids => ver[p.arg] \in Nat /\ ver[p.arg] <= ver[p.arg] /\ 0 <= ver[p.arg]
    OBVIOUS
  <2> QED BY <1>5, <1>7, <2>1 DEF Past
\* What is read in the middle of a copy is no version of the action.
<1>17. p.arg \in Ids /\ Match(ver, q) /\ c.ref > 0 => Whole(c)
  <2> SUFFICES ASSUME p.arg \in Ids, Match(ver, q), c.ref > 0 PROVE Whole(c)
    OBVIOUS
  <2>1. ver[p.arg] # 0 /\ q.ver = ver[p.arg]
    BY <1>5 DEF Match
  <2>2. ~Torn(p.arg)
    BY <2>1, <1>5, <1>7
  <2>3. c = act[p.arg] /\ c.ref = 1
    BY <1>7, <1>9
  <2> QED BY <2>2, <2>3 DEF Whole, ActInv
<1>12. CASE ~live
  <2>1. r = [p |-> q, next |-> Drop]
    BY <1>4, <1>9, <1>12
  <2> DEFINE x == [q EXCEPT !.node = Drop]
  <2>2. /\ Pkt(x) /\ x.node = Drop /\ x.act = q.act /\ x.arg = q.arg /\ x.ver = q.ver
        /\ x.layers = q.layers
    BY ONLY <1>10, NodeSet
  <2> HIDE DEF x
  <2>3. Left(act, ver, x)
    <3> SUFFICES ASSUME x.act \in Ids, Match(ver, x)
                 PROVE  act[x.act].ref = 0 \/ act[x.act].type = "drop"
      BY <2>2, <1>5 DEF Left
    <3>1. x.act = p.arg /\ p.arg \in Ids /\ act[x.act] = c /\ Match(ver, q)
      BY <2>2, <1>5, <1>7 DEF Match
    <3>2. c.ref > 0 => c.type \in {"drop", "forward", "load_balance"}
      BY <3>1, <1>3, <1>17, UsableIs
    <3> QED BY <3>1, <3>2, <1>9, <1>12
  <2>4. Len(x.layers) <= 2 => x.node # Wild
    BY <2>2 DEF Drop, Wild
  <2>5. x.act \in Ids => x.ver <= ver[x.act]
    BY <2>2, <1>5, <1>11 DEF Past
  <2>6. PktDone(act, ver, x)
    BY <2>2, <2>3, <2>4, <2>5, <1>5 DEF PktDone, FinalNodes
  <2> QED BY <2>1, <2>6 DEF Goes, FinalNodes, x
<1>13. ASSUME live
       PROVE  /\ p.arg \in Ids /\ Past(ver, q) /\ c = act[p.arg] /\ c.ref = 1 /\ q.out = c.fwd
              /\ c.type \in {"forward", "load_balance"}
              /\ Match(ver, q) => Whole(c)
  <2>1. c.ref = 1 /\ c.ref # 0
    BY <1>9, <1>13
  <2>2. p.arg \in Ids
    BY <2>1, <1>8
  <2> QED BY <2>1, <2>2, <1>7, <1>11, <1>13, <1>16, <1>17
<1>14. CASE live /\ c.switch = {}
  <2>1. r = [p |-> q, next |-> fwd]
    BY <1>4, <1>9, <1>14
  <2>2. Kinds(q) = Order(c.switch)
    BY <1>9, <1>10, <1>14, OrderIs
  <2>3. CASE fwd = Out
    <3>1. PktDone(act, ver, [q EXCEPT !.node = Out])
      BY <2>2, <2>3, <1>5, <1>6, <1>10, <1>13, <1>14, LeftForward
    <3> QED BY <3>1, <2>1, <2>3 DEF Goes, FinalNodes
  <2>4. CASE fwd = Balance
    <3>1. c.type = "load_balance"
      BY <2>4, <1>6, <1>13, <1>14 DEF Out, Balance
    <3>2. AtBalance(act, ver, q)
      BY <3>1, <2>2, <1>5, <1>13, <1>14 DEF AtBalance
    <3>3. Balance \in Nodes /\ Balance \notin FinalNodes /\ Balance \notin EncapNames
          /\ Balance # "sf_action_main"
      BY DEF Nodes, FinalNodes, Balance, Out, Drop, Wild, EncapNames
    <3>4. PktAt(act, ver, Balance, q)
      BY <3>2, <3>3, <1>5, <1>10, <1>13, <1>14 DEF PktAt
    <3> QED BY <3>3, <3>4, <2>1, <2>4 DEF Goes
  <2> QED BY <2>3, <2>4, <1>6
<1>15. CASE live /\ c.switch # {}
  <2> DEFINE o == Order(c.switch)
             l == o \o <<fwd>>
             s == [q EXCEPT !.list = l]
             x == [s EXCEPT !.pos = @ + 1]
  <2>1. o \in Seq(c.switch) /\ Len(o) \in 0..3 /\ Len(o) >= 1
    BY <1>9, <1>15, OrderIs
  <2>2. /\ l \in Seq(Nodes \cup FinalNodes) /\ Len(l) = Len(o) + 1
        /\ \A k \in 1..Len(o) : l[k] = o[k] /\ l[k] \in c.switch
    BY <1>6, <1>9, ListIs
  <2>3. r = Pop(s)
    BY <1>4, <1>9, <1>15
  <2> HIDE DEF o, l
  <2>13. /\ DOMAIN s = PktFields /\ s.list = l /\ s.pos = 1 /\ s.cur = p.cur /\ s.len = q.len
         /\ s.size = q.size /\ s.flow = q.flow /\ s.tag = q.tag /\ s.node = ""
         /\ s.layers = <<>> /\ s.act = p.arg /\ s.arg = p.arg /\ s.ver = q.ver /\ s.out = q.out
    BY <1>5 DEF PktFields
  <2> HIDE DEF s
  <2>4. /\ DOMAIN x = PktFields /\ x.list = l /\ x.pos = 2 /\ x.cur = p.cur /\ x.len = q.len
        /\ x.size = q.size /\ x.flow = q.flow /\ x.tag = q.tag /\ x.node = "" /\ x.layers = <<>>
        /\ x.act = p.arg /\ x.arg = p.arg /\ x.ver = q.ver /\ x.out = q.out
    <3>2. x.pos = s.pos + 1
      BY <2>13 DEF PktFields
    <3>1. x.pos = s.pos + 1 /\ s.pos + 1 = 2
      <4>1. 1 + 1 = 2
        OBVIOUS
      <4> QED BY <4>1, <3>2, <2>13, Zenon
    <3> QED BY <3>1, <2>13 DEF PktFields
  <2> HIDE DEF x
  <2>5. p.cur = 0
    <3>1. p.len = Sizes(p.layers, p.size)[Len(p.layers)] /\ p.cur = p.size - p.len
          /\ p.size \in Nat
      BY <1>1 DEF Pkt, Lengths, IsPkt
    <3>4. Len(<<>>) = 0 /\ 0 \in Nat
      OBVIOUS
    <3>2. Len(p.layers) = 0 /\ Len(p.layers) \in Nat
      BY <1>1, <3>4, Zenon
    <3>3. Sizes(p.layers, p.size)[0] = p.size
      BY <3>2, SizesAt
    <3> QED BY <3>1, <3>2, <3>3
  <2>6. ~Overwritten(s) /\ s.pos <= Len(s.list) /\ 1 \in 1..Len(o)
    <3>1. ~(-0 >= 128 + 64 - (3 + 1))
      OBVIOUS
    <3>2. ~Overwritten(s)
      BY <3>1, <2>5, <2>13, Zenon DEF Overwritten, PRE_DATA_SIZE
    <3>3. \A k \in 0..3 : k >= 1 => 1 <= k + 1 /\ 1 \in 1..k
      OBVIOUS
    <3> QED BY <3>2, <3>3, <2>1, <2>2, <2>13, Zenon
  <2>7. r = [p |-> x, next |-> l[1]] /\ l[1] = o[1] /\ l[1] \in EncapNames
    BY <2>2, <2>3, <2>13, <2>6, <1>9 DEF Pop, x
  <2>8. Pkt(x) /\ Kinds(x) = <<>>
    <3>2. 2 \in Nat \ {0}
      OBVIOUS
    <3>1. x.act \in Nat /\ x.ver \in Nat /\ x.pos \in Nat \ {0}
      BY <3>2, <2>4, <1>2, <1>3, <1>5, Zenon
    <3>3. x.list \in Seq(Nodes \cup FinalNodes) /\ x.layers = q.layers /\ x.cur = q.cur
          /\ x.arg = q.arg
      BY <2>2, <2>4, <1>5, Zenon
    <3>4. Pkt(x) /\ Kinds(x) = Kinds(q)
      BY ONLY <3>1, <3>3, <2>4, <1>10, PktFrom
    <3> QED BY <3>4, <1>10
  <2>9. Past(ver, x)
    BY <2>4, <1>5, <1>13, <1>15 DEF Past
  <2>10. AtEncap(act, ver, o[1], x)
    <3>1. x.list = Order(c.switch) \o <<fwd>>
      BY <2>4 DEF l, o
    <3>5. \A k \in 0..3 : k >= 1 => 2 \in 2..(k + 1)
      OBVIOUS
    <3>6. 2 - 1 = 1 /\ 2 - 2 = 0 /\ Len(<<>>) <= 0
      OBVIOUS
    <3>2. x.pos \in 2..(Len(o) + 1) /\ x.pos - 1 = 1 /\ x.pos - 2 = 0
      BY <3>5, <3>6, <2>1, <2>4, Zenon
    <3>7. SubSeq(o, 1, 0) = <<>>
      BY <2>1
    <3>3. Len(x.layers) <= x.pos - 2 /\ SubSeq(o, 1, 0) = <<>>
      BY <2>4, <3>2, <3>6, <3>7, Zenon
    <3>4. /\ Match(ver, x) => Whole(act[x.act])
          /\ act[x.act].type \in {"forward", "load_balance"}
          /\ c.switch = act[x.act].switch /\ fwd = action_type_to_next_index(act[x.act])
          /\ act[x.act].type = "forward" => x.out = act[x.act].fwd
          /\ Kinds(x) = SubSeq(Order(c.switch), 1, x.pos - 2)
      <4>1. Match(ver, x) => Match(ver, q)
        BY <2>4, <1>5 DEF Match
      <4> QED BY <4>1, <3>2, <3>3, <2>4, <2>8, <1>13, <1>15 DEF o, fwd
    <3> QED BY <3>1, <3>2, <3>3, <3>4, <1>6, <1>9 DEF AtEncap, o
  <2>11. o[1] \notin FinalNodes /\ o[1] \in Nodes /\ o[1] # "sf_action_main" /\ o[1] # Balance
    BY <2>7 DEF FinalNodes, EncapNames, Nodes, Out, Drop, Wild, Balance
  <2>12. PktAt(act, ver, o[1], x)
    BY <2>4, <2>8, <2>9, <2>10, <2>11 DEF PktAt
  <2> QED BY <2>7, <2>11, <2>12 DEF Goes
<1> QED BY <1>12, <1>14, <1>15 DEF r

\* node_load_balance_interfaces, done with a packet: interface i was picked for it.
LEMMA PickGoes ==
  ASSUME ActInv, NEW p, PktAt(act, ver, Balance, p), NEW i,
         Match(ver, p) /\ Turns(act, p) =>
           i = INVALID_INTERFACE_ID \/ \E k \in 1..act[p.act].num : i = act[p.act].arr[k]
  PROVE  Goes(act, ver, [p |-> [p EXCEPT !.out = i],
                         next |-> IF i = INVALID_INTERFACE_ID THEN Drop ELSE Out])
<1> DEFINE q == [p EXCEPT !.out = i]
           n == IF i = INVALID_INTERFACE_ID THEN Drop ELSE Out
           x == [q EXCEPT !.node = n]
<1>1. Pkt(p) /\ Past(ver, p) /\ AtBalance(act, ver, p)
  <2>1. Balance # "sf_action_main"
    BY DEF Balance
  <2> QED BY <2>1 DEF PktAt
<1>2. /\ DOMAIN p = PktFields /\ p.act \in Nat /\ p.ver \in Nat
      /\ p.list \in Seq(Nodes \cup FinalNodes) /\ p.pos \in Nat \ {0}
  BY <1>1, Zenon DEF Pkt, IsPkt
<1>3. /\ DOMAIN q = PktFields /\ q.act = p.act /\ q.ver = p.ver /\ q.arg = p.arg
      /\ q.layers = p.layers /\ q.pos = p.pos /\ q.cur = p.cur /\ q.len = p.len
      /\ q.size = p.size /\ q.flow = p.flow /\ q.tag = p.tag /\ q.list = p.list /\ q.out = i
  BY <1>2 DEF PktFields
<1> HIDE DEF q
<1>4. Pkt(q) /\ Kinds(q) = Kinds(p)
  BY <1>1, <1>2, <1>3, PktFrom
<1>5. /\ Pkt(x) /\ Kinds(x) = Kinds(q) /\ x.node = n /\ x.act = q.act /\ x.arg = q.arg
      /\ x.ver = q.ver /\ x.out = q.out /\ x.layers = q.layers
  <2>1. x = [q EXCEPT !.node = n]
    OBVIOUS
  <2> HIDE DEF x
  <2> QED BY ONLY <1>4, <2>1, NodeSet
<1> HIDE DEF x
<1>6. n \in FinalNodes /\ n # Wild /\ (n = Out => i # INVALID_INTERFACE_ID)
  BY DEF FinalNodes, Out, Drop, Wild
<1> HIDE DEF n
<1>7. Left(act, ver, x)
  <2> SUFFICES ASSUME Match(ver, p)
               PROVE  /\ act[p.act].ref # 0 /\ act[p.act].type = "load_balance"
                      /\ Kinds(x) = Order(act[p.act].switch)
                      /\ act[p.act].mode \in {"round_robin", "wrr"} /\ x.node = Out =>
                           \E k \in 1..act[p.act].num : x.out = act[p.act].arr[k]
    BY <1>3, <1>5 DEF Left, Match
  <2>1. /\ Whole(act[p.act]) /\ act[p.act].type = "load_balance"
        /\ Kinds(x) = Order(act[p.act].switch)
    BY <1>1, <1>4, <1>5 DEF AtBalance
  <2>2. act[p.act].mode \in {"round_robin", "wrr"} /\ x.node = Out =>
          \E k \in 1..act[p.act].num : x.out = act[p.act].arr[k]
    BY <1>3, <1>5, <1>6 DEF Turns
  <2>3. act[p.act].ref # 0
    BY <2>1 DEF Whole
  <2> QED BY <2>1, <2>2, <2>3
<1>8. PktDone(act, ver, x)
  BY <1>1, <1>3, <1>5, <1>6, <1>7 DEF PktDone, Past
<1> QED BY <1>6, <1>8 DEF Goes, x, q, n

-----------------------------------------------------------------------------
(* The frames of a worker.                                                 *)

FramesOf(P) == [node : Nodes, pkts : Seq(P)]
\* Frame j and its packets.
FrameOk(a, v, f) ==
  f.pkts # <<>> /\ \A k \in DOMAIN f.pkts : PktAt(a, v, f.node, f.pkts[k])

\* What Frames says, with a name for the set the packets are in.
LEMMA FramesAre ==
  ASSUME NEW a, NEW v, NEW fs
  PROVE  Frames(a, v, fs) <=> \E P : fs \in Seq(FramesOf(P)) /\ \A j \in DOMAIN fs : FrameOk(a, v, fs[j])
  BY DEF Frames, Framed, FramesOf, FrameOk

\* Frames of packets of a set are frames of packets of any larger set.
LEMMA FramesGrow ==
  ASSUME NEW P, NEW Q, P \subseteq Q, NEW fs \in Seq(FramesOf(P))
  PROVE  fs \in Seq(FramesOf(Q))
<1>1. \A s \in Seq(P) : s \in Seq(Q)
  OBVIOUS
<1>2. FramesOf(P) \subseteq FramesOf(Q)
  BY <1>1 DEF FramesOf
<1> HIDE DEF FramesOf
<1> QED BY <1>2

\* A packet in front of which a frame stays what it is.
LEMMA PktsAppend ==
  ASSUME NEW a, NEW v, NEW Q, NEW f \in FramesOf(Q), FrameOk(a, v, f), NEW q \in Q,
         PktAt(a, v, f.node, q)
  PROVE  LET g == [f EXCEPT !.pkts = Append(f.pkts, q)]
         IN  /\ g \in FramesOf(Q) /\ FrameOk(a, v, g) /\ g.node = f.node
             /\ Len(g.pkts) >= Len(f.pkts)
<1> DEFINE g == [f EXCEPT !.pkts = Append(f.pkts, q)]
           s == f.pkts
           t == Append(s, q)
<1>1. s \in Seq(Q) /\ f.node \in Nodes
  BY DEF FramesOf
<1>2. g \in FramesOf(Q) /\ g.node = f.node /\ g.pkts = t
  BY <1>1 DEF FramesOf
<1>3. \A k \in DOMAIN s : PktAt(a, v, f.node, s[k])
  BY DEF FrameOk
<1> HIDE DEF g, s
<1>4. t # <<>> /\ Len(t) >= Len(s)
  BY <1>1
<1>5. ASSUME NEW k \in DOMAIN t PROVE PktAt(a, v, f.node, t[k])
  <2>1. (k \in DOMAIN s /\ t[k] = s[k]) \/ t[k] = q
    BY <1>1
  <2> QED BY <2>1, <1>3
<1> HIDE DEF t
<1>6. FrameOk(a, v, g)
  BY <1>2, <1>4, <1>5 DEF FrameOk
<1> QED BY <1>2, <1>4, <1>6 DEF g, s

\* The frame a worker is at stays where it is when a packet is added to the frames.
Head1(fs, gs) == gs # <<>> /\ gs[1].node = fs[1].node /\ Len(gs[1].pkts) >= Len(fs[1].pkts)

\* A packet put in front of a node leaves the other packets where they are.
LEMMA AddFrames ==
  ASSUME NEW a, NEW v, NEW fs, Frames(a, v, fs), NEW n \in Nodes, NEW q, PktAt(a, v, n, q)
  PROVE  Frames(a, v, AddTo(fs, n, q)) /\ (fs # <<>> => Head1(fs, AddTo(fs, n, q)))
<1>1. PICK P : fs \in Seq(FramesOf(P)) /\ \A j \in DOMAIN fs : FrameOk(a, v, fs[j])
  BY FramesAre
<1> DEFINE Q == P \cup {q}
           at == {i \in DOMAIN fs : fs[i].node = n}
           g == AddTo(fs, n, q)
           l == Len(fs)
<1>2. fs \in Seq(FramesOf(Q))
  <2>1. P \subseteq Q
    OBVIOUS
  <2> HIDE DEF Q
  <2> QED BY <2>1, <1>1, FramesGrow
<1>3. q \in Q
  OBVIOUS
<1> HIDE DEF Q
<1>4. l \in Nat /\ DOMAIN fs = 1..l /\ \A j \in 1..l : fs[j] \in FramesOf(Q)
  BY <1>2
<1>5. \A j \in 1..l : Len(fs[j].pkts) \in Nat
  <2>1. \A f \in FramesOf(Q) : Len(f.pkts) \in Nat
    BY DEF FramesOf
  <2> QED BY <2>1, <1>4
<1>6. CASE at = {}
  <2> DEFINE f == [node |-> n, pkts |-> <<q>>]
  <2>1. g = Append(fs, f)
    BY <1>6 DEF AddTo
  <2>2. f \in FramesOf(Q)
    <3>1. <<q>> \in Seq(Q)
      BY <1>3
    <3> QED BY <3>1 DEF FramesOf
  <2>3. FrameOk(a, v, f)
    <3>1. f.pkts # <<>> /\ DOMAIN f.pkts = {1} /\ f.pkts[1] = q /\ f.node = n
      OBVIOUS
    <3> HIDE DEF f
    <3> QED BY <3>1 DEF FrameOk
  <2> HIDE DEF f, g
  <2>4. g \in Seq(FramesOf(Q)) /\ DOMAIN g = 1..(l + 1) /\ g[l + 1] = f /\ \A j \in 1..l : g[j] = fs[j]
    BY <1>2, <2>1, <2>2
  <2>5. \A j \in DOMAIN g : FrameOk(a, v, g[j])
    <3>1. \A j \in 1..(l + 1) : j = l + 1 \/ j \in 1..l
      BY <1>4
    <3> QED BY <3>1, <2>3, <2>4, <1>1, <1>4
  <2>6. Frames(a, v, g)
    BY <2>4, <2>5, FramesAre
  <2>7. fs # <<>> => Head1(fs, g)
    <3> SUFFICES ASSUME fs # <<>> PROVE Head1(fs, g)
      OBVIOUS
    <3>1. 1 \in 1..l /\ g # <<>>
      BY <1>2, <2>1, <2>2
    <3>2. g[1] = fs[1] /\ Len(fs[1].pkts) >= Len(fs[1].pkts)
      BY <3>1, <2>4, <1>5
    <3> QED BY <3>1, <3>2 DEF Head1
  <2> QED BY <2>6, <2>7 DEF g
<1>7. CASE at # {}
  <2> DEFINE i == CHOOSE j \in at : TRUE
             e == [fs[i] EXCEPT !.pkts = Append(fs[i].pkts, q)]
  <2>1. i \in at
    BY <1>7
  <2>2. g = [fs EXCEPT ![i].pkts = Append(@, q)]
    BY <1>7 DEF AddTo
  <2> HIDE DEF i
  <2>3. i \in 1..l /\ fs[i].node = n
    BY <2>1, <1>4
  <2>4. g = [fs EXCEPT ![i] = e]
    BY <2>2
  <2>5. /\ e \in FramesOf(Q) /\ FrameOk(a, v, e) /\ e.node = n /\ Len(e.pkts) >= Len(fs[i].pkts)
    <3>1. fs[i] \in FramesOf(Q) /\ FrameOk(a, v, fs[i]) /\ PktAt(a, v, fs[i].node, q)
      BY <2>3, <1>1, <1>4
    <3> QED BY <2>3, <3>1, <1>3, PktsAppend
  <2> HIDE DEF e, g
  <2>6. /\ g \in Seq(FramesOf(Q)) /\ DOMAIN g = 1..l
        /\ \A j \in 1..l : g[j] = IF j = i THEN e ELSE fs[j]
    BY <1>2, <1>4, <2>3, <2>4, <2>5
  <2>7. \A j \in DOMAIN g : FrameOk(a, v, g[j])
    BY <2>5, <2>6, <1>1, <1>4
  <2>8. Frames(a, v, g)
    BY <2>6, <2>7, FramesAre
  <2>9. Head1(fs, g)
    <3>1. 1 \in 1..l /\ g # <<>>
      BY <1>4, <2>3, <2>6
    <3>2. CASE i = 1
      <4>1. g[1] = e
        BY <3>1, <3>2, <2>6
      <4> QED BY <3>1, <3>2, <4>1, <2>3, <2>5 DEF Head1
    <3>3. CASE i # 1
      <4>1. g[1] = fs[1] /\ Len(fs[1].pkts) >= Len(fs[1].pkts)
        BY <3>1, <3>3, <2>6, <1>5
      <4> QED BY <3>1, <4>1 DEF Head1
    <3> QED BY <3>2, <3>3
  <2> QED BY <2>8, <2>9 DEF g
<1> QED BY <1>6, <1>7

\* The first packet of the first frame is taken out.
Dropped(fs) == IF Len(fs[1].pkts) = 1 THEN Tail(fs) ELSE [fs EXCEPT ![1].pkts = Tail(@)]
\* What is left when the first packet is taken is still frames of packets in their places.
LEMMA TakeFrames ==
  ASSUME NEW a, NEW v, NEW fs, Frames(a, v, fs), fs # <<>>
  PROVE  /\ PktAt(a, v, fs[1].node, fs[1].pkts[1]) /\ Len(fs[1].pkts) \in Nat \ {0}
         /\ Frames(a, v, Dropped(fs))
         /\ Len(fs[1].pkts) > 1 => /\ Dropped(fs) # <<>> /\ Dropped(fs)[1].node = fs[1].node
                                   /\ Len(Dropped(fs)[1].pkts) = Len(fs[1].pkts) - 1
<1>1. PICK P : fs \in Seq(FramesOf(P)) /\ \A j \in DOMAIN fs : FrameOk(a, v, fs[j])
  BY FramesAre
<1> DEFINE l == Len(fs)
           f == fs[1]
           s == f.pkts
           g == Dropped(fs)
<1>2. l \in Nat /\ DOMAIN fs = 1..l /\ 1 \in 1..l /\ \A j \in 1..l : fs[j] \in FramesOf(P)
  BY <1>1
<1>3. f \in FramesOf(P) /\ FrameOk(a, v, f)
  BY <1>1, <1>2
<1>4. s \in Seq(P) /\ f.node \in Nodes
  BY <1>3 DEF FramesOf
<1>5. s # <<>> /\ \A k \in DOMAIN s : PktAt(a, v, f.node, s[k])
  BY <1>3 DEF FrameOk
<1> HIDE DEF s, g, l
<1>6. Len(s) \in Nat \ {0} /\ 1 \in DOMAIN s
  BY <1>4, <1>5
<1>7. PktAt(a, v, f.node, s[1])
  BY <1>5, <1>6
<1>8. CASE Len(s) = 1
  <2>1. g = Tail(fs)
    BY <1>8 DEF g, Dropped, s
  <2>2. g \in Seq(FramesOf(P)) /\ DOMAIN g = 1..(l - 1) /\ \A j \in 1..(l - 1) : g[j] = fs[j + 1]
    BY <1>1, <2>1 DEF l
  <2>3. \A j \in 1..(l - 1) : j + 1 \in 1..l
    BY <1>2
  <2>4. \A j \in DOMAIN g : FrameOk(a, v, g[j])
    BY <2>2, <2>3, <1>1, <1>2
  <2>5. Frames(a, v, g)
    BY <2>2, <2>4, FramesAre
  <2> QED BY <2>5, <1>6, <1>7, <1>8 DEF g, s
<1>9. CASE Len(s) # 1
  <2> DEFINE e == [f EXCEPT !.pkts = Tail(s)]
  <2>1. g = [fs EXCEPT ![1] = e]
    BY <1>9 DEF g, Dropped, s
  <2>2. Tail(s) \in Seq(P) /\ Len(Tail(s)) = Len(s) - 1 /\ Tail(s) # <<>>
        /\ \A k \in DOMAIN Tail(s) : k + 1 \in DOMAIN s /\ Tail(s)[k] = s[k + 1]
    <3> DEFINE n == Len(s)
               t == Tail(s)
    <3>5. \A x \in Nat \ {0} : x # 1 => x > 1 /\ x \in Nat
      OBVIOUS
    <3>6. DOMAIN s = 1..n
      BY <1>4
    <3>1. n \in Nat /\ n > 1 /\ DOMAIN s = 1..n
      BY <3>5, <3>6, <1>6, <1>9, Zenon
    <3>2. t \in Seq(P) /\ Len(t) = n - 1 /\ DOMAIN t = 1..(n - 1) /\ \A k \in 1..(n - 1) : t[k] = s[k + 1]
      BY <1>4, <1>5
    <3> HIDE DEF n, t
    <3>3. t # <<>>
      BY <3>1, <3>2
    <3>4. \A k \in 1..(n - 1) : k + 1 \in 1..n
      BY <3>1
    <3> QED BY <3>1, <3>2, <3>3, <3>4 DEF n, t
  <2>3. e \in FramesOf(P) /\ e.node = f.node /\ e.pkts = Tail(s)
    BY <2>2, <1>3 DEF FramesOf
  <2> HIDE DEF e
  <2>4. FrameOk(a, v, e)
    BY <2>2, <2>3, <1>5 DEF FrameOk
  <2>5. /\ g \in Seq(FramesOf(P)) /\ DOMAIN g = 1..l /\ g # <<>>
        /\ \A j \in 1..l : g[j] = IF j = 1 THEN e ELSE fs[j]
    <3> HIDE DEF f
    <3> QED BY <1>1, <1>2, <2>1, <2>3 DEF l
  <2>6. \A j \in DOMAIN g : FrameOk(a, v, g[j])
    BY <2>4, <2>5, <1>1, <1>2
  <2>7. Frames(a, v, g)
    BY <2>5, <2>6, FramesAre
  <2>8. g[1] = e
    BY <2>5, <1>2
  <2> QED BY <2>2, <2>3, <2>5, <2>7, <2>8, <1>6, <1>7 DEF g, s
<1> QED BY <1>8, <1>9

\* A packet is handled and goes where it may be.
LEMMA PassFrames ==
  ASSUME NEW a, NEW v, NEW fs, Frames(a, v, fs), fs # <<>>, NEW r, Goes(a, v, r)
  PROVE  /\ Frames(a, v, Pass(fs, r.p, r.next))
         /\ \A x \in Ends(r.p, r.next) : PktDone(a, v, x)
         /\ Len(fs[1].pkts) > 1 =>
              /\ Pass(fs, r.p, r.next) # <<>> /\ Pass(fs, r.p, r.next)[1].node = fs[1].node
              /\ Len(Pass(fs, r.p, r.next)[1].pkts) >= Len(fs[1].pkts) - 1
<1> DEFINE d == Dropped(fs)
           g == Pass(fs, r.p, r.next)
<1>1. /\ Frames(a, v, d) /\ Len(fs[1].pkts) \in Nat
      /\ Len(fs[1].pkts) > 1 => /\ d # <<>> /\ d[1].node = fs[1].node
                                /\ Len(d[1].pkts) = Len(fs[1].pkts) - 1
  BY TakeFrames
<1>2. g = IF r.next \in FinalNodes THEN d ELSE AddTo(d, r.next, r.p)
  BY DEF Pass, Dropped
<1>3. \A x \in Ends(r.p, r.next) : PktDone(a, v, x)
  BY DEF Ends, Goes
<1> HIDE DEF d, g
<1>4. CASE r.next \in FinalNodes
  <2>1. g = d
    BY <1>2, <1>4
  <2>2. Len(fs[1].pkts) > 1 => Len(d[1].pkts) >= Len(fs[1].pkts) - 1
    BY <1>1
  <2> QED BY <2>1, <2>2, <1>1, <1>3 DEF g
<1>5. CASE r.next \notin FinalNodes
  <2>1. r.next \in Nodes /\ PktAt(a, v, r.next, r.p)
    BY <1>5 DEF Goes
  <2>2. g = AddTo(d, r.next, r.p)
    BY <1>2, <1>5
  <2>3. Frames(a, v, g) /\ (d # <<>> => Head1(d, g))
    BY <1>1, <2>1, <2>2, AddFrames
  <2>4. Len(fs[1].pkts) > 1 => /\ g # <<>> /\ g[1].node = fs[1].node
                               /\ Len(g[1].pkts) >= Len(fs[1].pkts) - 1
    BY <1>1, <2>3 DEF Head1
  <2> QED BY <2>3, <2>4, <1>3 DEF g
<1> QED BY <1>4, <1>5

-----------------------------------------------------------------------------
(* Actions that change under packets and workers.                          *)

\* What packets and workers rely on is the same.
Alike(a, b) == /\ a.ref = b.ref /\ a.type = b.type /\ a.fwd = b.fwd /\ a.num = b.num
               /\ a.arr = b.arr /\ a.switch = b.switch /\ a.mode = b.mode
               /\ Base(a) = Base(b)
\* Nobody but restd changes that, and it counts the version.
Later(a, v, b, u) == \A i \in Ids : /\ v[i] \in Nat /\ u[i] \in Nat /\ v[i] <= u[i]
                                    /\ v[i] = u[i] => Alike(a[i], b[i])

\* A packet that matches later matched before, and its action is the same.
LEMMA MatchLater ==
  ASSUME NEW a, NEW v, NEW b, NEW u, Later(a, v, b, u), NEW p, p.ver \in Nat, Past(v, p)
  PROVE  Past(u, p) /\ (Match(u, p) => Match(v, p) /\ Alike(a[p.act], b[p.act]))
<1> DEFINE x == p.ver
           y == v[p.act]
           z == u[p.act]
<1>1. /\ p.act \in Ids /\ p.act = p.arg /\ x <= y /\ x \in Nat
      /\ y \in Nat /\ z \in Nat /\ y <= z /\ (y = z => Alike(a[p.act], b[p.act]))
  BY DEF Past, Later
<1> HIDE DEF x, y, z
<1>2. x <= z /\ (x = z => x = y /\ y = z)
  BY <1>1
<1> QED BY <1>1, <1>2 DEF Past, Match, x, y, z

\* A packet in front of a node stays in its place while the actions go on to later versions.
LEMMA PktLater ==
  ASSUME NEW a, NEW v, NEW b, NEW u, Later(a, v, b, u), NEW n, NEW p, PktAt(a, v, n, p)
  PROVE  PktAt(b, u, n, p)
<1>1. Pkt(p) /\ p.node = "" /\ n \in Nodes /\ p.ver \in Nat
  BY DEF PktAt, Pkt, IsPkt
<1>2. CASE n = "sf_action_main"
  <2>1. n \notin EncapNames /\ n # Balance /\ p.layers = <<>> /\ p.pos = 1
    BY <1>2 DEF EncapNames, Balance, PktAt
  <2> QED BY <1>1, <1>2, <2>1 DEF PktAt
<1>3. CASE n # "sf_action_main"
  <2>1. Past(v, p)
    BY <1>3 DEF PktAt
  <2>2. Past(u, p) /\ (Match(u, p) => Match(v, p) /\ Alike(a[p.act], b[p.act]))
    BY <1>1, <2>1, MatchLater
  <2>3. ASSUME n \in EncapNames PROVE AtEncap(b, u, n, p)
    <3>1. PICK on \in SUBSET EncapNames, fwd \in {Out, Balance} :
          /\ p.list = Order(on) \o <<fwd>>
          /\ p.pos \in 2..(Len(Order(on)) + 1) /\ Order(on)[p.pos - 1] = n
          /\ Len(p.layers) <= p.pos - 2
          /\ Match(v, p) =>
               LET c == a[p.act]
               IN /\ Whole(c) /\ c.type \in {"forward", "load_balance"}
                  /\ on = c.switch /\ fwd = action_type_to_next_index(c)
                  /\ c.type = "forward" => p.out = c.fwd
                  /\ Kinds(p) = SubSeq(Order(on), 1, p.pos - 2)
      BY <2>3 DEF PktAt, AtEncap
    <3>2. Match(u, p) =>
            LET c == b[p.act]
            IN /\ Whole(c) /\ c.type \in {"forward", "load_balance"}
               /\ on = c.switch /\ fwd = action_type_to_next_index(c)
               /\ c.type = "forward" => p.out = c.fwd
               /\ Kinds(p) = SubSeq(Order(on), 1, p.pos - 2)
      BY <3>1, <2>2 DEF Alike, Whole, action_type_to_next_index
    <3> QED BY <3>1, <3>2 DEF AtEncap
  <2>4. ASSUME n = Balance PROVE AtBalance(b, u, p)
    <3>1. AtBalance(a, v, p)
      BY <2>4 DEF PktAt
    <3> QED BY <3>1, <2>2 DEF AtBalance, Alike, Whole
  <2> QED BY <1>1, <1>3, <2>2, <2>3, <2>4 DEF PktAt
<1> QED BY <1>2, <1>3

\* So does a packet that has left,
LEMMA DoneLater ==
  ASSUME NEW a, NEW v, NEW b, NEW u, Later(a, v, b, u), NEW p, PktDone(a, v, p)
  PROVE  PktDone(b, u, p)
<1>1. /\ Pkt(p) /\ p.node \in FinalNodes /\ p.act = p.arg /\ p.ver \in Nat /\ Left(a, v, p)
      /\ p.act \in Ids => p.ver <= v[p.act]
      /\ p.act \notin Ids => p.node = Drop /\ p.layers = <<>>
      /\ Len(p.layers) <= 2 => p.node # Wild
  BY DEF PktDone, Pkt, IsPkt
<1>2. CASE p.act \in Ids
  <2>1. Past(v, p)
    BY <1>1, <1>2 DEF Past
  <2>2. Past(u, p) /\ (Match(u, p) => Match(v, p) /\ Alike(a[p.act], b[p.act]))
    BY <1>1, <2>1, MatchLater
  <2>3. Left(b, u, p)
    <3> SUFFICES ASSUME Match(u, p), p.node # Wild
                 PROVE  LET c == b[p.act]
                        IN IF c.ref = 0 \/ c.type = "drop" THEN p.node = Drop /\ p.layers = <<>>
                           ELSE /\ Kinds(p) = Order(c.switch)
                                /\ c.type = "forward" => p.node = Out /\ p.out = c.fwd
                                /\ c.mode \in {"round_robin", "wrr"} /\ p.node = Out =>
                                     \E k \in 1..c.num : p.out = c.arr[k]
      BY DEF Left
    <3>1. Alike(a[p.act], b[p.act]) /\ Match(v, p)
      BY <2>2
    <3>2. LET c == a[p.act]
          IN IF c.ref = 0 \/ c.type = "drop" THEN p.node = Drop /\ p.layers = <<>>
             ELSE /\ Kinds(p) = Order(c.switch)
                  /\ c.type = "forward" => p.node = Out /\ p.out = c.fwd
                  /\ c.mode \in {"round_robin", "wrr"} /\ p.node = Out =>
                       \E k \in 1..c.num : p.out = c.arr[k]
      BY <1>1, <1>2, <3>1 DEF Left
    <3> QED BY <3>1, <3>2 DEF Alike
  <2> QED BY <1>1, <1>2, <2>2, <2>3 DEF PktDone, Past
<1>3. CASE p.act \notin Ids
  <2>1. Left(b, u, p)
    BY <1>3 DEF Left
  <2> QED BY <1>1, <1>3, <2>1 DEF PktDone
<1> QED BY <1>2, <1>3

\* so do all the packets of a worker,
LEMMA FramesLater ==
  ASSUME NEW a, NEW v, NEW b, NEW u, Later(a, v, b, u), NEW fs, Frames(a, v, fs)
  PROVE  Frames(b, u, fs)
<1>1. \A j \in DOMAIN fs : \A k \in DOMAIN fs[j].pkts : PktAt(b, u, fs[j].node, fs[j].pkts[k])
  BY PktLater DEF Frames
<1> QED BY <1>1 DEF Frames

\* The packet a worker is at.
LEMMA AtPacket ==
  ASSUME NEW a, NEW v, NEW fs, Frames(a, v, fs), NEW r, RunAt(a, v, r, fs), r.pc # "idle"
  PROVE  LET p == fs[1].pkts[1]
         IN  /\ fs # <<>> /\ Pkt(p) /\ Past(v, p) /\ p.ver \in Nat /\ p.act \in Ids
             /\ r.pc \in {"erspan", "store"} => PktAt(a, v, "erspan", p)
             /\ r.pc \notin {"erspan", "store"} => PktAt(a, v, Balance, p) /\ AtBalance(a, v, p)
<1> DEFINE p == fs[1].pkts[1]
           n == fs[1].node
<1>1. fs # <<>> /\ n = IF r.pc \in {"erspan", "store"} THEN "erspan" ELSE Balance
  BY DEF RunAt
<1>2. PktAt(a, v, n, p)
  BY <1>1, TakeFrames
<1> HIDE DEF n, p
<1>3. n # "sf_action_main"
  BY <1>1 DEF Balance
<1>4. Pkt(p) /\ Past(v, p) /\ p.ver \in Nat /\ p.act \in Ids
  BY <1>2, <1>3 DEF PktAt, Pkt, IsPkt, Past
<1>5. r.pc \notin {"erspan", "store"} => PktAt(a, v, Balance, p) /\ AtBalance(a, v, p)
  BY <1>1, <1>2 DEF PktAt
<1> QED BY <1>1, <1>2, <1>4, <1>5 DEF p

\* and so does the place a worker has reached in a node.
LEMMA RunLater ==
  ASSUME NEW a, NEW v, NEW b, NEW u, Later(a, v, b, u), NEW fs, Frames(a, v, fs), NEW r,
         RunAt(a, v, r, fs)
  PROVE  RunAt(b, u, r, fs)
<1> SUFFICES ASSUME r.pc # "idle" PROVE RunAt(b, u, r, fs)
  BY DEF RunAt
<1> DEFINE p == fs[1].pkts[1]
<1>1. p.ver \in Nat /\ Past(v, p)
  BY AtPacket
<1>2. Match(u, p) => Match(v, p) /\ Alike(a[p.act], b[p.act])
  BY <1>1, MatchLater
<1>3. RunAt(a, v, r, fs)
  OBVIOUS
<1> HIDE DEF p
<1>4. Match(u, p) =>
        /\ r.pc \notin {"erspan", "store", "num"} => r.num = b[p.act].num
        /\ r.pc \in Filling => ~Turns(b, p)
        /\ r.pc \in Picking /\ r.back = "real" => ~Turns(b, p)
        /\ r.pc = "ret" /\ Turns(b, p) =>
             r.id = INVALID_INTERFACE_ID \/ \E k \in 1..b[p.act].num : r.id = b[p.act].arr[k]
  <2>1. Match(v, p) =>
          /\ r.pc \notin {"erspan", "store", "num"} => r.num = a[p.act].num
          /\ r.pc \in Filling => ~Turns(a, p)
          /\ r.pc \in Picking /\ r.back = "real" => ~Turns(a, p)
          /\ r.pc = "ret" /\ Turns(a, p) =>
               r.id = INVALID_INTERFACE_ID \/ \E k \in 1..a[p.act].num : r.id = a[p.act].arr[k]
    BY <1>3 DEF RunAt, p
  <2>2. Alike(a[p.act], b[p.act]) => (Turns(a, p) <=> Turns(b, p))
    BY DEF Alike, Turns
  <2> QED BY <1>2, <2>1, <2>2 DEF Alike
<1> QED BY <1>3, <1>4 DEF RunAt, p

\* A worker that others disturb keeps its place.
RunLike(r, q) == q = r \/ q = [r EXCEPT !.calm = FALSE, !.spins = 0]
\* A worker others disturb keeps its place in its node.
LEMMA RunLikeOk ==
  ASSUME NEW a, NEW v, NEW fs, NEW r, IsRun(r), RunAt(a, v, r, fs), NEW q, RunLike(r, q)
  PROVE  IsRun(q) /\ RunAt(a, v, q, fs)
<1>1. DOMAIN r = RunFields
  BY DEF IsRun
<1>2. /\ DOMAIN q = RunFields /\ q.pc = r.pc /\ q.left = r.left /\ q.num = r.num /\ q.n = r.n
      /\ q.idx = r.idx /\ q.reg = r.reg /\ q.c = r.c /\ q.tries = r.tries /\ q.id = r.id
      /\ q.back = r.back /\ q.cfg = r.cfg
  BY <1>1 DEF RunLike, RunFields
<1>3. IsRun(q)
  BY <1>2 DEF IsRun
<1>4. RunAt(a, v, q, fs)
  BY <1>2 DEF RunAt
<1> QED BY <1>3, <1>4

\* The fields of Base.
LEMMA BaseIs ==
  ASSUME NEW a \in Action
  PROVE  LET c == Base(a)
         IN  /\ c \in Action /\ c.ref = 0 /\ c.type = a.type /\ c.fwd = a.fwd /\ c.num = a.num
             /\ c.arr = a.arr /\ c.switch = a.switch /\ c.addi = a.addi /\ c.mode = a.mode
             /\ c.cw = 0 /\ c.gcd = 0 /\ c.mw = 0 /\ c.index = 0 /\ c.weight = a.weight
<1> DEFINE c1 == [a EXCEPT !.ref = 0]
           c2 == [c1 EXCEPT !.cw = 0]
           c3 == [c2 EXCEPT !.gcd = 0]
           c4 == [c3 EXCEPT !.mw = 0]
           c == [c4 EXCEPT !.index = 0]
<1>0. Base(a) = c
  BY DEF Base
<1>1. c1 \in Action
  <2> DEFINE B == 0..1
  <2>1. 0 \in B
    OBVIOUS
  <2> HIDE DEF B
  <2>2. B = 0..1
    BY DEF B
  <2> QED BY <2>1, <2>2 DEF Action
<1>7. 0 \in Int
  OBVIOUS
<1>2. c1 \in Action => c2 \in Action
  <2> HIDE DEF c1
  <2> QED BY <1>7 DEF Action
<1>3. c2 \in Action => c3 \in Action
  <2> HIDE DEF c1, c2
  <2> QED BY <1>7 DEF Action
<1>4. c3 \in Action => c4 \in Action
  <2> HIDE DEF c1, c2, c3
  <2> QED BY <1>7 DEF Action
<1>5. c4 \in Action => c \in Action
  <2> HIDE DEF c1, c2, c3, c4
  <2> QED BY DEF Action
<1>6. /\ c.ref = 0 /\ c.type = a.type /\ c.fwd = a.fwd /\ c.num = a.num
      /\ c.arr = a.arr /\ c.switch = a.switch /\ c.addi = a.addi /\ c.mode = a.mode
      /\ c.cw = 0 /\ c.gcd = 0 /\ c.mw = 0 /\ c.index = 0 /\ c.weight = a.weight
  BY DEF Action
<1> HIDE DEF c1, c2, c3, c4, c
<1> QED BY <1>0, <1>1, <1>2, <1>3, <1>4, <1>5, <1>6

-----------------------------------------------------------------------------
(* One step, whoever takes it.                                             *)

\* Worker u is where it was, perhaps disturbed, or somewhere it may be.
Placed(u) ==
  \/ pend'[u] = pend[u] /\ RunLike(run[u], run'[u])
  \/ Frames(act, ver, pend'[u]) /\ IsRun(run'[u]) /\ RunAt(act, ver, run'[u], pend'[u])

\* A step keeps the invariant when each worker is placed and the actions only become later.
LEMMA Moves ==
  ASSUME Inv, ActInv', RestInv', \A r \in events' : IsRequest(r), realnum' \in [Ids -> Nat],
         ver' \in [Ids -> Nat \ {0}], gre_option' \in Nat \ {0}, Later(act, ver, act', ver'),
         DOMAIN run' = Workers, DOMAIN pend' = Workers, \A u \in Workers : Placed(u),
         \A x \in done' : PktDone(act, ver, x)
  PROVE  Inv'
<1>1. ASSUME NEW u \in Workers
      PROVE  Frames(act, ver, pend'[u]) /\ IsRun(run'[u]) /\ RunAt(act, ver, run'[u], pend'[u])
  <2>1. Frames(act, ver, pend[u]) /\ IsRun(run[u]) /\ RunAt(act, ver, run[u], pend[u])
    BY DEF Inv
  <2>2. Placed(u)
    OBVIOUS
  <2>3. CASE pend'[u] = pend[u] /\ RunLike(run[u], run'[u])
    BY <2>1, <2>3, RunLikeOk
  <2> QED BY <2>2, <2>3 DEF Placed
<1>2. ASSUME NEW u \in Workers
      PROVE  Frames(act', ver', pend'[u]) /\ IsRun(run'[u]) /\ RunAt(act', ver', run'[u], pend'[u])
  BY <1>1, FramesLater, RunLater
<1>3. \A x \in done' : PktDone(act', ver', x)
  BY DoneLater
<1> QED BY <1>2, <1>3 DEF Inv

\* A worker stores its turn in an action: nothing else of the action changes.
Kept(a, b) == /\ a \in Action /\ b \in Action /\ Alike(a, b) /\ a.addi = b.addi
              /\ a.gcd = b.gcd /\ a.mw = b.mw /\ a.weight = b.weight
\* The turn of a load balance action is not part of what packets are told apart by.
LEMMA TurnKept ==
  ASSUME NEW a \in Action, NEW x \in Int
  PROVE  /\ Kept(a, a) /\ Kept(a, [a EXCEPT !.cw = x])
         /\ x \in Nat => Kept(a, [a EXCEPT !.index = x])
<1>1. ASSUME NEW b \in Action, b.ref = a.ref, b.type = a.type, b.fwd = a.fwd, b.num = a.num,
             b.arr = a.arr, b.switch = a.switch, b.addi = a.addi, b.mode = a.mode,
             b.gcd = a.gcd, b.mw = a.mw, b.weight = a.weight
      PROVE  Kept(a, b)
  <2> DEFINE c == Base(a)
             d == Base(b)
  <2>1. /\ c \in Action /\ c.ref = 0 /\ c.type = a.type /\ c.fwd = a.fwd /\ c.num = a.num
        /\ c.arr = a.arr /\ c.switch = a.switch /\ c.addi = a.addi /\ c.mode = a.mode
        /\ c.cw = 0 /\ c.gcd = 0 /\ c.mw = 0 /\ c.index = 0 /\ c.weight = a.weight
    BY BaseIs
  <2>2. /\ d \in Action /\ d.ref = 0 /\ d.type = b.type /\ d.fwd = b.fwd /\ d.num = b.num
        /\ d.arr = b.arr /\ d.switch = b.switch /\ d.addi = b.addi /\ d.mode = b.mode
        /\ d.cw = 0 /\ d.gcd = 0 /\ d.mw = 0 /\ d.index = 0 /\ d.weight = b.weight
    BY <1>1, BaseIs
  <2> HIDE DEF c, d
  <2>3. c = d
    BY <2>1, <2>2, <1>1, ActionEq
  <2> QED BY <2>3, <1>1 DEF Kept, Alike, c, d
<1>2. Kept(a, a)
  BY <1>1
<1>3. Kept(a, [a EXCEPT !.cw = x])
  <2> DEFINE b == [a EXCEPT !.cw = x]
  <2>1. b \in Action
    BY DEF Action
  <2>2. /\ b.ref = a.ref /\ b.type = a.type /\ b.fwd = a.fwd /\ b.num = a.num
        /\ b.arr = a.arr /\ b.switch = a.switch /\ b.addi = a.addi /\ b.mode = a.mode
        /\ b.gcd = a.gcd /\ b.mw = a.mw /\ b.weight = a.weight
    BY DEF Action
  <2> HIDE DEF b
  <2>3. Kept(a, b)
    BY <2>1, <2>2, <1>1
  <2> QED BY <2>3 DEF b
<1>4. ASSUME x \in Nat PROVE Kept(a, [a EXCEPT !.index = x])
  <2> DEFINE b == [a EXCEPT !.index = x]
  <2>1. b \in Action
    BY <1>4 DEF Action
  <2>2. /\ b.ref = a.ref /\ b.type = a.type /\ b.fwd = a.fwd /\ b.num = a.num
        /\ b.arr = a.arr /\ b.switch = a.switch /\ b.addi = a.addi /\ b.mode = a.mode
        /\ b.gcd = a.gcd /\ b.mw = a.mw /\ b.weight = a.weight
    BY DEF Action
  <2> HIDE DEF b
  <2>3. Kept(a, b)
    BY <2>1, <2>2, <1>1
  <2> QED BY <2>3 DEF b
<1> QED BY <1>2, <1>3, <1>4

\* Actions that are kept keep the invariants of actions and of restd.
LEMMA KeptInv ==
  ASSUME Inv, act' \in [Ids -> Action], \A i \in Ids : Kept(act[i], act'[i]),
         rest' = rest, ver' = ver
  PROVE  ActInv' /\ RestInv' /\ ver' \in [Ids -> Nat \ {0}] /\ Later(act, ver, act', ver')
<1>1. ActInv /\ RestInv /\ ver \in [Ids -> Nat \ {0}]
  BY DEF Inv
<1>2. ASSUME NEW i \in Ids
      PROVE  /\ act'[i].ref = act[i].ref /\ Base(act'[i]) = Base(act[i])
             /\ Weighted(act'[i]) <=> Weighted(act[i])
             /\ \A f \in Copied : act'[i][f] = act[i][f]
  <2>1. Kept(act[i], act'[i])
    OBVIOUS
  <2>2. CutWeights(act'[i]) <=> CutWeights(act[i])
    BY <2>1 DEF Kept, Alike, CutWeights
  <2> QED BY <2>1, <2>2 DEF Kept, Alike, Weighted, Copied, Fields
<1>3. ActInv'
  <2>1. \A i \in Ids : Torn(i)' <=> Torn(i)
    BY DEF Torn
  <2>2. \A i \in Ids : act'[i].ref > 0 /\ ~Torn(i) => Shape(Base(act'[i])) /\ Weighted(act'[i])
    BY <1>1, <1>2 DEF ActInv
  <2> QED BY <2>1, <2>2 DEF ActInv
<1>4. RestInv'
  <2>1. rest.pc \in PutPcs \cup DeletePcs => rest.id \in Ids
    BY <1>1 DEF RestInv
  <2>2. rest.pc \in {"cw", "gcd", "ref"} \cup Copies => rest.pc \in PutPcs \cup DeletePcs
    BY DEF PutPcs, DeletePcs, Copies
  <2>3. rest.pc \in {"cw", "gcd", "ref"} => act'[rest.id].ref = 0
    BY <1>1, <1>2, <2>1, <2>2 DEF RestInv
  <2>4. rest.pc \in {"cw", "gcd", "ref"} => Base(act'[rest.id]) = rest.a
    BY <1>1, <1>2, <2>1, <2>2 DEF RestInv
  <2>5. rest.pc = "ref" => Weighted(act'[rest.id])
    BY <1>1, <1>2, <2>1, <2>2 DEF RestInv
  <2>6. rest.pc \in Copies =>
          \A f \in Copied : f \in UNION rest.left \/ act'[rest.id][f] = rest.a[f]
    BY <1>1, <1>2, <2>1, <2>2 DEF RestInv
  <2> QED BY <1>1, <2>3, <2>4, <2>5, <2>6 DEF RestInv
<1>5. Later(act, ver, act', ver')
  <2>1. \A i \in Ids : ver[i] \in Nat /\ ver[i] <= ver[i]
    BY <1>1
  <2> QED BY <2>1 DEF Later, Kept
<1> QED BY <1>1, <1>3, <1>4, <1>5

\* A worker takes a step that concerns itself, and perhaps its turn in an action.
LEMMA WorkerMoves ==
  ASSUME Inv, NEW w \in Workers,
         act' \in [Ids -> Action], \A i \in Ids : Kept(act[i], act'[i]),
         rest' = rest, ver' = ver, events' = events, realnum' \in [Ids -> Nat],
         gre_option' \in Nat \ {0},
         NEW fs, NEW r, Frames(act, ver, fs), IsRun(r), RunAt(act, ver, r, fs),
         DOMAIN pend' = Workers, pend'[w] = fs, \A u \in Workers : u # w => pend'[u] = pend[u],
         run' = [run EXCEPT ![w] = r] \/ run' = Others(w, r) \/ (run' = run /\ r = run[w]),
         \A x \in done' : PktDone(act, ver, x)
  PROVE  Inv'
<1>1. DOMAIN run = Workers /\ DOMAIN pend = Workers
  BY DEF Inv
<1>2. DOMAIN run' = Workers
  BY <1>1 DEF Others
<1>3. ASSUME NEW u \in Workers PROVE Placed(u)
  <2>1. CASE u = w
    <3>1. pend'[u] = fs /\ run'[u] = r
      BY <1>1, <2>1 DEF Others
    <3> QED BY <3>1 DEF Placed
  <2>2. CASE u # w
    <3>1. pend'[u] = pend[u]
      BY <2>2
    <3>2. RunLike(run[u], run'[u])
      BY <1>1, <2>2 DEF Others, Disturbed, RunLike
    <3> QED BY <3>1, <3>2 DEF Placed
  <2> QED BY <2>1, <2>2
<1>4. ActInv' /\ RestInv' /\ ver' \in [Ids -> Nat \ {0}] /\ Later(act, ver, act', ver')
  BY KeptInv
<1>5. \A x \in events' : IsRequest(x)
  BY DEF Inv
<1> QED BY <1>2, <1>3, <1>4, <1>5, Moves

\* The actions stay what they are.
LEMMA Unchanged ==
  ASSUME Inv, act' = act
  PROVE  act' \in [Ids -> Action] /\ \A i \in Ids : Kept(act[i], act'[i])
<1>1. act \in [Ids -> Action]
  BY DEF Inv, ActInv
<1>2. 0 \in Int
  OBVIOUS
<1> QED BY <1>1, <1>2, TurnKept

\* A worker that only looks at what others see.
LEMMA LoadMoves ==
  ASSUME Inv, NEW w \in Workers, NEW r, Loads(w, r), IsRun(r), RunAt(act, ver, r, pend[w])
  PROVE  Inv'
<1>1. /\ act' = act /\ rest' = rest /\ ver' = ver /\ events' = events /\ realnum' = realnum
      /\ gre_option' = gre_option /\ pend' = pend /\ done' = done /\ run' = [run EXCEPT ![w] = r]
  BY DEF Loads, Local, shared
<1>2. /\ Frames(act, ver, pend[w]) /\ \A x \in done : PktDone(act, ver, x)
      /\ realnum \in [Ids -> Nat] /\ gre_option \in Nat \ {0} /\ DOMAIN pend = Workers
  BY DEF Inv
<1>3. act' \in [Ids -> Action] /\ \A i \in Ids : Kept(act[i], act'[i])
  BY <1>1, Unchanged
<1> QED BY <1>1, <1>2, <1>3, WorkerMoves

-----------------------------------------------------------------------------
(* The nodes, step by step.                                                *)

\* A worker in a node, the packet it is at, and the action of the packet.
LEMMA WorkerAt ==
  ASSUME Inv, NEW w \in Workers, run[w].pc # "idle"
  PROVE  /\ IsRun(run[w]) /\ RunAt(act, ver, run[w], pend[w]) /\ Frames(act, ver, pend[w])
         /\ pend[w] # <<>> /\ Pkt(First(w)) /\ First(w).act \in Ids /\ A(w) \in Action
         /\ run[w].pc \in {"erspan", "store"} => PktAt(act, ver, "erspan", First(w))
         /\ run[w].pc \notin {"erspan", "store"} =>
              /\ PktAt(act, ver, Balance, First(w))
              /\ Match(ver, First(w)) => A(w).num > 0 /\ A(w).mode \in Modes
<1> DEFINE p == pend[w][1].pkts[1]
           s == run[w]
<1>1. IsRun(s) /\ RunAt(act, ver, s, pend[w]) /\ Frames(act, ver, pend[w]) /\ ActInv
  BY DEF Inv
<1>2. /\ pend[w] # <<>> /\ Pkt(p) /\ p.act \in Ids
      /\ s.pc \in {"erspan", "store"} => PktAt(act, ver, "erspan", p)
      /\ s.pc \notin {"erspan", "store"} => PktAt(act, ver, Balance, p) /\ AtBalance(act, ver, p)
  BY <1>1, AtPacket
<1> HIDE DEF p, s
<1>3. act[p.act] \in Action
  BY <1>1, <1>2 DEF ActInv
<1>4. AtBalance(act, ver, p) /\ Match(ver, p) => act[p.act].num > 0 /\ act[p.act].mode \in Modes
  <2> SUFFICES ASSUME AtBalance(act, ver, p), Match(ver, p)
               PROVE  act[p.act].num > 0 /\ act[p.act].mode \in Modes
    OBVIOUS
  <2>1. Whole(act[p.act]) /\ act[p.act].type = "load_balance"
    BY DEF AtBalance
  <2> QED BY <1>3, <2>1, UsableIs
<1> QED BY <1>1, <1>2, <1>3, <1>4 DEF p, s, First, Frame, A

\* A worker that stores what others see.
LEMMA StoreMoves ==
  ASSUME Inv, NEW w \in Workers, NEW r, Stores(w, r), IsRun(r), RunAt(act, ver, r, pend[w]),
         act' \in [Ids -> Action], \A i \in Ids : Kept(act[i], act'[i]),
         realnum' \in [Ids -> Nat], pend' = pend, done' = done
  PROVE  Inv'
<1>1. /\ rest' = rest /\ ver' = ver /\ events' = events /\ gre_option' = gre_option
      /\ run' = Others(w, r)
  BY DEF Stores
<1>2. /\ Frames(act, ver, pend[w]) /\ \A x \in done : PktDone(act, ver, x)
      /\ gre_option \in Nat \ {0} /\ DOMAIN pend = Workers
  BY DEF Inv
<1> QED BY <1>1, <1>2, WorkerMoves

\* A turn is stored in the action of the packet a worker is at.
LEMMA TurnStored ==
  ASSUME Inv, NEW i \in Ids, NEW x \in Int,
         \/ act' = [act EXCEPT ![i].cw = x]
         \/ x \in Nat /\ act' = [act EXCEPT ![i].index = x]
  PROVE  act' \in [Ids -> Action] /\ \A j \in Ids : Kept(act[j], act'[j])
<1>1. act \in [Ids -> Action] /\ 0 \in Nat
  BY DEF Inv, ActInv
<1> DEFINE b == [act[i] EXCEPT !.cw = x]
           y == IF x \in Nat THEN x ELSE 0
           c == [act[i] EXCEPT !.index = y]
<1>2. Kept(act[i], b) /\ Kept(act[i], c)
  <2>1. y \in Nat /\ y \in Int /\ act[i] \in Action
    BY <1>1
  <2> HIDE DEF y
  <2> QED BY <2>1, TurnKept
<1>3. act' = [act EXCEPT ![i] = b] \/ act' = [act EXCEPT ![i] = c]
  OBVIOUS
<1>4. \A j \in Ids : Kept(act[j], act[j])
  BY <1>1, TurnKept
<1> HIDE DEF b, c
<1>5. b \in Action /\ c \in Action
  BY <1>2 DEF Kept
<1>6. act' \in [Ids -> Action]
  BY <1>1, <1>3, <1>5
<1>7. ASSUME NEW j \in Ids PROVE Kept(act[j], act'[j])
  <2>1. CASE j = i
    <3>1. act'[j] = b \/ act'[j] = c
      BY <1>1, <1>3, <2>1
    <3> QED BY <3>1, <2>1, <1>2
  <2>2. CASE j # i
    <3>1. act'[j] = act[j]
      BY <1>1, <1>3, <2>2
    <3> QED BY <3>1, <1>4
  <2> QED BY <2>1, <2>2
<1> QED BY <1>6, <1>7

\* Memory of a worker that is in no node.
LEMMA IdleRun == IsRun(Idle) /\ Idle.pc = "idle"
<1>1. 0 \in 0..2 /\ 0 \in 0..MAX_INTERFACE_CNT /\ 0 \in 0..(MAX_LOAD_BALANCE_NODE - 1) /\ 0 \in Nat /\ 0 \in Int
  BY SizesAssumption
<1>2. NoEncap \in Encap
  BY ZeroType
<1>3. DOMAIN Idle = RunFields
  BY DEF Idle, RunFields
<1>4. /\ Idle.pc = "idle" /\ Idle.left = 0 /\ Idle.num = 0 /\ Idle.n = 0 /\ Idle.idx = 0
      /\ Idle.reg = 0 /\ Idle.c = 0 /\ Idle.tries = 0 /\ Idle.back = "" /\ Idle.cfg = NoEncap
  BY DEF Idle
<1> QED BY <1>1, <1>2, <1>3, <1>4 DEF IsRun

\* A node starts with the first of the packets it handles together.
LEMMA StartRun ==
  ASSUME NEW a, NEW v, NEW fs, Frames(a, v, fs), fs # <<>>, NEW l \in 1..2,
         Len(fs[1].pkts) >= l, NEW pc \in {"erspan", "num"},
         fs[1].node = IF pc = "erspan" THEN "erspan" ELSE Balance
  PROVE  LET r == [Idle EXCEPT !.pc = pc, !.left = l]
         IN  IsRun(r) /\ RunAt(a, v, r, fs)
<1> DEFINE r == [Idle EXCEPT !.pc = pc, !.left = l]
<1>1. /\ DOMAIN r = RunFields /\ r.pc = pc /\ r.left = l /\ r.num = Idle.num /\ r.n = Idle.n
      /\ r.idx = Idle.idx /\ r.reg = Idle.reg /\ r.c = Idle.c /\ r.tries = Idle.tries
      /\ r.back = Idle.back /\ r.cfg = Idle.cfg
  BY DEF Idle, RunFields
<1>2. l \in 0..2 /\ l >= 1
  OBVIOUS
<1> HIDE DEF r
<1>3. IsRun(r)
  BY <1>1, <1>2, IdleRun DEF IsRun
<1>4. RunAt(a, v, r, fs)
  BY <1>1, <1>2 DEF RunAt, Picking, Filling
<1> QED BY <1>3, <1>4 DEF r

\* The nodes that read shared memory start with a pair of packets or with one.
LEMMA Starts ==
  ASSUME Inv, NEW w \in Workers, ErspanTwo(w) \/ ErspanOne(w) \/ BalanceTwo(w) \/ BalanceOne(w)
  PROVE  Inv'
<1>1. Frames(act, ver, pend[w])
  BY DEF Inv
<1>2. pend[w] # <<>>
  BY DEF ErspanTwo, ErspanOne, BalanceTwo, BalanceOne, Two, One, At
<1>3. Len(pend[w][1].pkts) \in Nat \ {0}
  BY <1>1, <1>2, TakeFrames
<1>4. PICK l \in 1..2, pc \in {"erspan", "num"} :
        /\ Len(pend[w][1].pkts) >= l /\ pend[w][1].node = IF pc = "erspan" THEN "erspan" ELSE Balance
        /\ Loads(w, [Idle EXCEPT !.pc = pc, !.left = l])
  <2>1. CASE ErspanTwo(w)
    <3>1. /\ Len(pend[w][1].pkts) >= 2 /\ pend[w][1].node = "erspan"
          /\ Loads(w, [Idle EXCEPT !.pc = "erspan", !.left = 2])
      BY <1>3, <2>1 DEF ErspanTwo, Two, At, Frame, Loads
    <3> QED BY <3>1
  <2>2. CASE ErspanOne(w)
    <3>1. /\ Len(pend[w][1].pkts) >= 1 /\ pend[w][1].node = "erspan"
          /\ Loads(w, [Idle EXCEPT !.pc = "erspan", !.left = 1])
      BY <1>3, <2>2 DEF ErspanOne, One, At, Frame, Loads
    <3> QED BY <3>1
  <2>3. CASE BalanceTwo(w)
    <3>1. /\ Len(pend[w][1].pkts) >= 2 /\ pend[w][1].node = Balance
          /\ Loads(w, [Idle EXCEPT !.pc = "num", !.left = 2])
      BY <1>3, <2>3 DEF BalanceTwo, Two, At, Frame
    <3> QED BY <3>1
  <2>4. CASE BalanceOne(w)
    <3>1. /\ Len(pend[w][1].pkts) >= 1 /\ pend[w][1].node = Balance
          /\ Loads(w, [Idle EXCEPT !.pc = "num", !.left = 1])
      BY <1>3, <2>4 DEF BalanceOne, One, At, Frame
    <3> QED BY <3>1
  <2> QED BY <2>1, <2>2, <2>3, <2>4
<1> DEFINE r == [Idle EXCEPT !.pc = pc, !.left = l]
<1>5. IsRun(r) /\ RunAt(act, ver, r, pend[w])
  BY <1>1, <1>2, <1>4, StartRun
<1>6. Loads(w, r)
  BY <1>4
<1> HIDE DEF r
<1> QED BY <1>5, <1>6, LoadMoves

\* The number of interfaces is read.
LEMMA LoadNumStep ==
  ASSUME Inv, NEW w \in Workers, LoadNum(w)
  PROVE  Inv'
<1> DEFINE s == run[w]
           p == First(w)
           n == A(w).num
           r == Call([s EXCEPT !.num = n], n, "first")
<1>1. s.pc = "num" /\ Loads(w, r)
  BY DEF LoadNum
<1>2. IsRun(s) /\ RunAt(act, ver, s, pend[w]) /\ A(w) \in Action
  BY <1>1, WorkerAt
<1>3. n \in 0..MAX_INTERFACE_CNT /\ n \in Nat
  <2>1. n \in 0..MAX_INTERFACE_CNT
    BY <1>2 DEF Action
  <2> QED BY <2>1, SizesAssumption
<1> HIDE DEF n, s
<1>4. DOMAIN s = RunFields
  BY <1>2 DEF IsRun
<1>5. /\ DOMAIN r = RunFields /\ r.pc = "call" /\ r.left = s.left /\ r.num = n /\ r.n = n
      /\ r.idx = s.idx /\ r.reg = s.reg /\ r.c = s.c /\ r.tries = s.tries
      /\ r.back = "first" /\ r.cfg = s.cfg
  BY <1>4 DEF RunFields, Call
<1> HIDE DEF r
<1>6. IsRun(r)
  BY <1>2, <1>3, <1>5 DEF IsRun, Picking
<1>7. RunAt(act, ver, r, pend[w])
  BY <1>1, <1>2, <1>5 DEF RunAt, Picking, Filling, n, A, First, Frame
<1> QED BY <1>1, <1>6, <1>7, LoadMoves

\* The first or the last step of action_get_load_balance_index.
LEMMA IndexStep ==
  ASSUME Inv, NEW w \in Workers, action_get_load_balance_index(w)
  PROVE  Inv'
<1> DEFINE s == run[w]
           x == fill_load_balance_data(A(w).mode, First(w).flow)
           m == A(w).index
           q == Return(s, 0)
           h == Return(s, x % s.n)
           g == [s EXCEPT !.pc = IF A(w).mode = "wrr" THEN "wrr" ELSE "rr", !.reg = m]
<1>1. s.pc = "call" /\ Loads(w, IF s.n = 0 THEN q ELSE IF A(w).mode \in HashModes THEN h ELSE g)
  BY DEF action_get_load_balance_index
<1>2. IsRun(s) /\ RunAt(act, ver, s, pend[w]) /\ A(w) \in Action /\ Pkt(First(w))
  BY <1>1, WorkerAt
<1>3. x \in Nat
  <2>1. First(w).flow \in Nat \X Nat
    BY <1>2 DEF Pkt, IsPkt
  <2> QED BY <2>1 DEF fill_load_balance_data
<1>4. m \in Nat
  BY <1>2 DEF Action
<1>5. /\ DOMAIN s = RunFields /\ s.n \in Nat /\ s.num \in 0..MAX_INTERFACE_CNT /\ s.left \in 0..2
      /\ s.reg \in Nat /\ s.c \in Int /\ s.tries \in 0..(MAX_LOAD_BALANCE_NODE - 1) /\ s.cfg \in Encap
      /\ s.back \in {"", "first", "again", "real"}
  BY <1>2 DEF IsRun
<1>6. /\ s.back # "" /\ (s.back # "real" => s.n = s.num)
      /\ Match(ver, pend[w][1].pkts[1]) =>
           /\ s.num = act[pend[w][1].pkts[1].act].num
           /\ s.back = "real" => ~Turns(act, pend[w][1].pkts[1])
  BY <1>1, <1>2 DEF RunAt, Picking
<1>7. pend[w] # <<>> /\ s.left >= 1 /\ Len(pend[w][1].pkts) >= s.left /\ pend[w][1].node = Balance
  BY <1>1, <1>2 DEF RunAt
<1> HIDE DEF s, x, m
<1>8. ASSUME NEW r, DOMAIN r = RunFields, r.left = s.left, r.num = s.num, r.n = s.n,
             r.reg \in Nat, r.c = s.c, r.tries = s.tries, r.back = s.back, r.cfg = s.cfg,
             r.idx \in Nat,
             \/ r.pc = s.back /\ (s.n > 0 => r.idx < s.n)
             \/ r.pc \in {"wrr", "rr"} /\ s.n > 0
      PROVE  IsRun(r) /\ RunAt(act, ver, r, pend[w])
  <2>1. IsRun(r)
    BY <1>5, <1>6, <1>8 DEF IsRun, Picking, Filling
  <2>2. RunAt(act, ver, r, pend[w])
    BY <1>5, <1>6, <1>7, <1>8 DEF RunAt, Picking, Filling
  <2> QED BY <2>1, <2>2
<1>9. CASE s.n = 0
  <2>1. /\ DOMAIN q = RunFields /\ q.left = s.left /\ q.num = s.num /\ q.n = s.n
        /\ q.reg = s.reg /\ q.c = s.c /\ q.tries = s.tries /\ q.back = s.back /\ q.cfg = s.cfg
        /\ q.idx = 0 /\ q.pc = s.back
    BY <1>5 DEF Return, RunFields
  <2> HIDE DEF q
  <2>2. q.idx \in Nat /\ (s.n > 0 => q.idx < s.n) /\ q.reg \in Nat
    BY <2>1, <1>5, <1>9
  <2>3. IsRun(q) /\ RunAt(act, ver, q, pend[w])
    BY <2>1, <2>2, <1>8
  <2>4. Loads(w, q)
    BY <1>1, <1>9
  <2> QED BY <2>3, <2>4, LoadMoves
<1>10. CASE s.n # 0 /\ A(w).mode \in HashModes
  <2> DEFINE y == x % s.n
             m0 == s.n
  <2>6. \A z \in Nat : z # 0 => z > 0
    OBVIOUS
  <2>0. m0 \in Nat /\ m0 > 0
    BY <1>5, <1>10, <2>6, Zenon
  <2>5. y \in Nat /\ y < m0
    <3> HIDE DEF m0
    <3>1. x % m0 \in 0..(m0 - 1)
      BY <1>3, <2>0, DivMod
    <3>2. x % m0 \in Nat /\ x % m0 < m0
      BY <3>1, <2>0
    <3> QED BY <3>2 DEF m0
  <2>1. /\ DOMAIN h = RunFields /\ h.left = s.left /\ h.num = s.num /\ h.n = s.n
        /\ h.reg = s.reg /\ h.c = s.c /\ h.tries = s.tries /\ h.back = s.back /\ h.cfg = s.cfg
        /\ h.idx = y /\ h.pc = s.back
    <3> HIDE DEF y
    <3>1. h = Return(s, y)
      BY DEF y
    <3> HIDE DEF h
    <3> QED BY <1>5, <3>1 DEF Return, RunFields
  <2> HIDE DEF h, y
  <2>2. h.idx \in Nat /\ (s.n > 0 => h.idx < s.n) /\ h.reg \in Nat
    BY <2>1, <2>5, <1>5
  <2>3. IsRun(h) /\ RunAt(act, ver, h, pend[w])
    BY <2>1, <2>2, <1>8
  <2>4. Loads(w, h)
    BY <1>1, <1>10
  <2> QED BY <2>3, <2>4, LoadMoves
<1>11. CASE s.n # 0 /\ A(w).mode \notin HashModes
  <2>1. /\ DOMAIN g = RunFields /\ g.left = s.left /\ g.num = s.num /\ g.n = s.n
        /\ g.reg = m /\ g.c = s.c /\ g.tries = s.tries /\ g.back = s.back /\ g.cfg = s.cfg
        /\ g.idx = s.idx /\ g.pc \in {"wrr", "rr"}
    BY <1>5 DEF RunFields
  <2> HIDE DEF g
  <2>2. s.n > 0 /\ s.idx \in Nat
    <3>1. s.idx \in Nat
      BY <1>2 DEF IsRun
    <3>2. \A z \in Nat : z # 0 => z > 0
      OBVIOUS
    <3>3. s.n > 0
      BY <1>5, <1>11, <3>2, Zenon
    <3> QED BY <3>1, <3>3
  <2>3. IsRun(g) /\ RunAt(act, ver, g, pend[w])
    BY <2>1, <2>2, <1>4, <1>8
  <2>4. Loads(w, g)
    BY <1>1, <1>11
  <2> QED BY <2>3, <2>4, LoadMoves
<1> QED BY <1>9, <1>10, <1>11

\* round robin and the three stores of weighted round robin.
LEMMA TurnSteps ==
  ASSUME Inv, NEW w \in Workers, RoundRobin(w) \/ WrrIndex(w) \/ WrrCw(w) \/ WrrWrap(w)
  PROVE  Inv'
<1> DEFINE s == run[w]
           i == First(w).act
<1>1. s.pc \in {"rr", "wrr", "cw", "wrap"} /\ s.pc # "idle"
  BY DEF RoundRobin, WrrIndex, WrrCw, WrrWrap
<1>2. IsRun(s) /\ RunAt(act, ver, s, pend[w]) /\ A(w) \in Action /\ i \in Ids
  BY <1>1, WorkerAt
<1>3. /\ DOMAIN s = RunFields /\ s.n \in Nat /\ s.num \in 0..MAX_INTERFACE_CNT /\ s.left \in 0..2
      /\ s.reg \in Nat /\ s.c \in Int /\ s.tries \in 0..(MAX_LOAD_BALANCE_NODE - 1) /\ s.cfg \in Encap
      /\ s.back \in {"", "first", "again", "real"} /\ s.idx \in Nat
  BY <1>2 DEF IsRun
<1>4. /\ s.back # "" /\ (s.back # "real" => s.n = s.num) /\ s.n > 0
      /\ s.pc \in {"cw", "wrap"} => s.idx < s.n
      /\ Match(ver, pend[w][1].pkts[1]) =>
           /\ s.num = act[pend[w][1].pkts[1].act].num
           /\ s.back = "real" => ~Turns(act, pend[w][1].pkts[1])
  BY <1>1, <1>2 DEF RunAt, Picking
<1>5. pend[w] # <<>> /\ s.left >= 1 /\ Len(pend[w][1].pkts) >= s.left /\ pend[w][1].node = Balance
  BY <1>1, <1>2 DEF RunAt
<1>6. A(w).cw \in Int /\ A(w).gcd \in Int
  BY <1>2 DEF Action
<1>7. /\ realnum' \in [Ids -> Nat] /\ pend' = pend /\ done' = done
  BY DEF RoundRobin, WrrIndex, WrrCw, WrrWrap, Inv
<1> HIDE DEF s, i
<1>8. ASSUME NEW r, DOMAIN r = RunFields, r.left = s.left, r.num = s.num, r.n = s.n,
             r.reg = s.reg, r.c \in Int, r.tries = s.tries, r.back = s.back, r.cfg = s.cfg,
             r.idx \in Nat, r.idx < s.n, r.pc = s.back \/ r.pc \in {"cw", "wrap", "test"},
             Stores(w, r),
             \/ \E x \in Int : act' = [act EXCEPT ![i].cw = x]
             \/ \E x \in Nat : act' = [act EXCEPT ![i].index = x]
      PROVE  Inv'
  <2>1. IsRun(r)
    BY <1>3, <1>4, <1>8 DEF IsRun, Picking, Filling
  <2>2. RunAt(act, ver, r, pend[w])
    BY <1>3, <1>4, <1>5, <1>8 DEF RunAt, Picking, Filling
  <2>3. act' \in [Ids -> Action] /\ \A j \in Ids : Kept(act[j], act'[j])
    BY <1>2, <1>8, TurnStored
  <2> QED BY <1>7, <1>8, <2>1, <2>2, <2>3, StoreMoves
<1>9. ASSUME RoundRobin(w) \/ WrrIndex(w)
      PROVE  (s.reg + 1) % s.n \in Nat /\ (s.reg + 1) % s.n < s.n
  <2> DEFINE x == s.reg + 1
             m0 == s.n
  <2>4. \A z \in Nat : z + 1 \in Nat
    OBVIOUS
  <2>1. x \in Nat /\ m0 \in Nat /\ m0 > 0
    BY <1>3, <1>4, <2>4, Zenon
  <2> HIDE DEF x, m0
  <2>2. x % m0 \in 0..(m0 - 1)
    BY <2>1, DivMod
  <2>3. x % m0 \in Nat /\ x % m0 < m0
    BY <2>1, <2>2
  <2> QED BY <2>3 DEF x, m0
<1>10. CASE RoundRobin(w)
  <2> DEFINE k == (s.reg + 1) % s.n
             r == Return(s, k)
  <2>1. act' = [act EXCEPT ![i].index = k] /\ Stores(w, r)
    BY <1>10 DEF RoundRobin, s, i
  <2>2. k \in Nat /\ k < s.n
    BY <1>9, <1>10
  <2> HIDE DEF k
  <2>3. /\ DOMAIN r = RunFields /\ r.left = s.left /\ r.num = s.num /\ r.n = s.n
        /\ r.reg = s.reg /\ r.c = s.c /\ r.tries = s.tries /\ r.back = s.back /\ r.cfg = s.cfg
        /\ r.idx = k /\ r.pc = s.back
    BY <1>3 DEF Return, RunFields
  <2> HIDE DEF r
  <2> QED BY <2>1, <2>2, <2>3, <1>3, <1>8
<1>11. CASE WrrIndex(w)
  <2> DEFINE k == (s.reg + 1) % s.n
             c == c_int(A(w).cw + A(w).gcd)
             d == A(w).cw
             r1 == [s EXCEPT !.pc = "cw", !.idx = k, !.c = c]
             r2 == [s EXCEPT !.pc = "test", !.idx = k, !.c = d]
  <2>1. act' = [act EXCEPT ![i].index = k] /\ (Stores(w, r1) \/ Stores(w, r2))
    BY <1>11 DEF WrrIndex, s, i
  <2>7. c \in Int
    <3> DEFINE y == A(w).cw + A(w).gcd
    <3>1. y \in Int
      BY <1>6
    <3> HIDE DEF y
    <3>2. c_int(y) \in C_INT
      BY <3>1, CInt
    <3> QED BY <3>2, CInt DEF y
  <2>2. k \in Nat /\ k < s.n /\ c \in Int /\ d \in Int
    BY <1>6, <1>9, <1>11, <2>7
  <2> HIDE DEF k, c, d
  <2>3. /\ DOMAIN r1 = RunFields /\ r1.left = s.left /\ r1.num = s.num /\ r1.n = s.n
        /\ r1.reg = s.reg /\ r1.c = c /\ r1.tries = s.tries /\ r1.back = s.back /\ r1.cfg = s.cfg
        /\ r1.idx = k /\ r1.pc = "cw"
    BY <1>3 DEF RunFields
  <2>4. /\ DOMAIN r2 = RunFields /\ r2.left = s.left /\ r2.num = s.num /\ r2.n = s.n
        /\ r2.reg = s.reg /\ r2.c = d /\ r2.tries = s.tries /\ r2.back = s.back /\ r2.cfg = s.cfg
        /\ r2.idx = k /\ r2.pc = "test"
    BY <1>3 DEF RunFields
  <2> HIDE DEF r1, r2
  <2>5. CASE Stores(w, r1)
    BY <2>1, <2>2, <2>3, <2>5, <1>8
  <2>6. CASE Stores(w, r2)
    BY <2>1, <2>2, <2>4, <2>6, <1>8
  <2> QED BY <2>1, <2>5, <2>6
<1>12. CASE WrrCw(w)
  <2> DEFINE r == [s EXCEPT !.pc = IF s.c > A(w).mw THEN "wrap" ELSE "test"]
  <2>1. act' = [act EXCEPT ![i].cw = s.c] /\ Stores(w, r) /\ s.pc = "cw"
    BY <1>12 DEF WrrCw, s, i
  <2>2. /\ DOMAIN r = RunFields /\ r.left = s.left /\ r.num = s.num /\ r.n = s.n
        /\ r.reg = s.reg /\ r.c = s.c /\ r.tries = s.tries /\ r.back = s.back /\ r.cfg = s.cfg
        /\ r.idx = s.idx /\ r.pc \in {"wrap", "test"}
    BY <1>3 DEF RunFields
  <2> HIDE DEF r
  <2> QED BY <2>1, <2>2, <1>3, <1>4, <1>8
<1>13. CASE WrrWrap(w)
  <2> DEFINE d == A(w).gcd
             r == [s EXCEPT !.pc = "test", !.c = d]
  <2>1. act' = [act EXCEPT ![i].cw = d] /\ Stores(w, r) /\ s.pc = "wrap" /\ d \in Int
    BY <1>6, <1>13 DEF WrrWrap, s, i
  <2> HIDE DEF d
  <2>2. /\ DOMAIN r = RunFields /\ r.left = s.left /\ r.num = s.num /\ r.n = s.n
        /\ r.reg = s.reg /\ r.c = d /\ r.tries = s.tries /\ r.back = s.back /\ r.cfg = s.cfg
        /\ r.idx = s.idx /\ r.pc = "test"
    BY <1>3 DEF RunFields
  <2> HIDE DEF r
  <2> QED BY <2>1, <2>2, <1>3, <1>4, <1>8
<1> QED BY <1>10, <1>11, <1>12, <1>13

\* The place in the list is taken, or the loop goes on.
LEMMA TestStep ==
  ASSUME Inv, NEW w \in Workers, WrrTest(w)
  PROVE  Inv'
<1> DEFINE s == run[w]
           m == A(w).index
           q == [Return(s, s.idx) EXCEPT !.spins = 0]
           t == Turn(w)
           g == [s EXCEPT !.pc = "wrr", !.reg = m, !.spins = t]
<1>1. s.pc = "test" /\ s.pc # "idle"
  BY DEF WrrTest
<1>2. IsRun(s) /\ RunAt(act, ver, s, pend[w]) /\ A(w) \in Action
  BY <1>1, WorkerAt
<1>3. /\ DOMAIN s = RunFields /\ s.n \in Nat /\ s.num \in 0..MAX_INTERFACE_CNT /\ s.left \in 0..2
      /\ s.reg \in Nat /\ s.c \in Int /\ s.tries \in 0..(MAX_LOAD_BALANCE_NODE - 1) /\ s.cfg \in Encap
      /\ s.back \in {"", "first", "again", "real"} /\ s.idx \in Nat
  BY <1>2 DEF IsRun
<1>4. /\ s.back # "" /\ (s.back # "real" => s.n = s.num) /\ s.n > 0 /\ s.idx < s.n
      /\ Match(ver, pend[w][1].pkts[1]) =>
           /\ s.num = act[pend[w][1].pkts[1].act].num
           /\ s.back = "real" => ~Turns(act, pend[w][1].pkts[1])
  BY <1>1, <1>2 DEF RunAt, Picking
<1>5. pend[w] # <<>> /\ s.left >= 1 /\ Len(pend[w][1].pkts) >= s.left /\ pend[w][1].node = Balance
  BY <1>1, <1>2 DEF RunAt
<1>6. m \in Nat
  BY <1>2 DEF Action
<1>7. /\ act' = act /\ rest' = rest /\ ver' = ver /\ events' = events /\ realnum' = realnum
      /\ gre_option' = gre_option /\ pend' = pend /\ done' = done
      /\ run' = [run EXCEPT ![w] = q] \/ run' = [run EXCEPT ![w] = g]
  <2>1. PICK enough \in Reaches(A(w), s.idx + 1, s.c) :
          run' = [run EXCEPT ![w] = IF enough THEN q ELSE g]
    BY DEF WrrTest, Local
  <2> HIDE DEF q, g
  <2>2. run' = [run EXCEPT ![w] = q] \/ run' = [run EXCEPT ![w] = g]
    BY <2>1
  <2> QED BY <2>2 DEF WrrTest, shared
<1>8. /\ Frames(act, ver, pend[w]) /\ \A x \in done : PktDone(act, ver, x)
      /\ realnum \in [Ids -> Nat] /\ gre_option \in Nat \ {0} /\ DOMAIN pend = Workers
  BY DEF Inv
<1> HIDE DEF s, m, t
<1>9. ASSUME NEW r, DOMAIN r = RunFields, r.left = s.left, r.num = s.num, r.n = s.n,
             r.reg \in Nat, r.c = s.c, r.tries = s.tries, r.back = s.back, r.cfg = s.cfg,
             r.idx = s.idx, r.pc = s.back \/ r.pc = "wrr", run' = [run EXCEPT ![w] = r]
      PROVE  Inv'
  <2>1. IsRun(r)
    BY <1>3, <1>4, <1>9 DEF IsRun, Picking, Filling
  <2>2. RunAt(act, ver, r, pend[w])
    BY <1>3, <1>4, <1>5, <1>9 DEF RunAt, Picking, Filling
  <2>3. act' \in [Ids -> Action] /\ \A j \in Ids : Kept(act[j], act'[j])
    BY <1>7, Unchanged
  <2> QED BY <1>7, <1>8, <1>9, <2>1, <2>2, <2>3, WorkerMoves
<1>10. /\ DOMAIN q = RunFields /\ q.left = s.left /\ q.num = s.num /\ q.n = s.n
       /\ q.reg = s.reg /\ q.c = s.c /\ q.tries = s.tries /\ q.back = s.back /\ q.cfg = s.cfg
       /\ q.idx = s.idx /\ q.pc = s.back
  BY <1>3 DEF Return, RunFields
<1>11. /\ DOMAIN g = RunFields /\ g.left = s.left /\ g.num = s.num /\ g.n = s.n
       /\ g.reg = m /\ g.c = s.c /\ g.tries = s.tries /\ g.back = s.back /\ g.cfg = s.cfg
       /\ g.idx = s.idx /\ g.pc = "wrr"
  BY <1>3 DEF RunFields
<1> HIDE DEF q, g
<1>12. CASE run' = [run EXCEPT ![w] = q]
  BY <1>3, <1>9, <1>10, <1>12
<1>13. CASE run' = [run EXCEPT ![w] = g]
  BY <1>6, <1>9, <1>11, <1>13
<1> QED BY <1>7, <1>12, <1>13

\* The interface at the index is looked up, at first and again.
LEMMA ChoiceSteps ==
  ASSUME Inv, NEW w \in Workers, FirstChoice(w) \/ Retry(w)
  PROVE  Inv'
<1> DEFINE s == run[w]
           i == A(w).arr[s.idx + 1]
           t == s.tries + 1
           r1 == [s EXCEPT !.pc = "ret", !.id = i]
           r2 == Call(s, s.num, "again")
           r3 == [s EXCEPT !.pc = "reset"]
           r4 == [s EXCEPT !.pc = "ret", !.id = INVALID_INTERFACE_ID]
           r5 == Call([s EXCEPT !.tries = t], s.num, "again")
           p == pend[w][1].pkts[1]
           turns == A(w).mode \in {"round_robin", "wrr"}
<1>1. s.pc \in {"first", "again"} /\ s.pc # "idle" /\ s.pc \notin {"erspan", "store"}
  BY DEF FirstChoice, Retry
<1>2. /\ IsRun(s) /\ RunAt(act, ver, s, pend[w]) /\ A(w) \in Action
      /\ Match(ver, First(w)) => A(w).num > 0 /\ A(w).mode \in Modes
  BY <1>1, WorkerAt
<1>3. /\ DOMAIN s = RunFields /\ s.n \in Nat /\ s.num \in 0..MAX_INTERFACE_CNT /\ s.left \in 0..2
      /\ s.reg \in Nat /\ s.c \in Int /\ s.tries \in 0..(MAX_LOAD_BALANCE_NODE - 1) /\ s.cfg \in Encap
      /\ s.back \in {"", "first", "again", "real"} /\ s.idx \in Nat
  BY <1>2 DEF IsRun
<1>4. /\ pend[w] # <<>> /\ s.left >= 1 /\ Len(pend[w][1].pkts) >= s.left /\ pend[w][1].node = Balance
      /\ s.num > 0 => s.idx < s.num
      /\ Match(ver, p) => s.num = act[p.act].num
  BY <1>1, <1>2 DEF RunAt
<1>5. First(w) = p /\ A(w) = act[p.act] /\ (turns <=> Turns(act, p))
  BY DEF First, Frame, A, Turns
<1>6. /\ Loads(w, r1) \/ (Loads(w, r2) /\ turns) \/ (Loads(w, r3) /\ ~turns) \/ Loads(w, r4)
         \/ (Loads(w, r5) /\ t # MAX_LOAD_BALANCE_NODE)
  BY DEF FirstChoice, Retry
<1>7. s.num \in Nat
  <2>1. \A m \in Nat : \A z \in 0..m : z \in Nat
    OBVIOUS
  <2>2. MAX_INTERFACE_CNT \in Nat
    BY SizesAssumption
  <2> QED BY <1>3, <2>1, <2>2, Zenon
<1>8. Match(ver, p) => \E k \in 1..act[p.act].num : i = act[p.act].arr[k]
  <2> SUFFICES ASSUME Match(ver, p) PROVE s.idx + 1 \in 1..s.num
    BY <1>4, <1>5
  <2> DEFINE x == s.idx
             y == s.num
  <2>1. x \in Nat /\ y \in Nat /\ x < y
    BY <1>2, <1>3, <1>4, <1>5, <1>7
  <2> HIDE DEF x, y
  <2>2. x + 1 \in 1..y
    BY <2>1
  <2> QED BY <2>2 DEF x, y
<1>9. t # MAX_LOAD_BALANCE_NODE => t \in 0..(MAX_LOAD_BALANCE_NODE - 1)
  <2> DEFINE x == s.tries
             y == MAX_LOAD_BALANCE_NODE
  <2>1. x \in 0..(y - 1) /\ y \in Nat
    BY <1>3, SizesAssumption
  <2> HIDE DEF x, y
  <2>2. x + 1 # y => x + 1 \in 0..(y - 1)
    BY <2>1
  <2> QED BY <2>2 DEF x, y
<1> HIDE DEF s, i, t, p, turns
<1>10. ASSUME NEW r, DOMAIN r = RunFields, r.left = s.left, r.num = s.num, r.n \in Nat,
              r.reg = s.reg, r.c = s.c, r.tries \in 0..(MAX_LOAD_BALANCE_NODE - 1),
              r.back \in {"", "first", "again", "real"}, r.cfg = s.cfg, r.idx = s.idx,
              \/ r.pc = "ret" /\ r.id \in {i, INVALID_INTERFACE_ID}
              \/ r.pc = "call" /\ r.n = s.num /\ r.back = "again"
              \/ r.pc = "reset" /\ ~turns,
              Loads(w, r)
       PROVE  Inv'
  <2>1. IsRun(r)
    BY <1>3, <1>10 DEF IsRun, Picking, Filling
  <2>2. Match(ver, p) =>
          /\ r.pc \notin {"erspan", "store", "num"} => r.num = act[p.act].num
          /\ r.pc \in Filling => ~Turns(act, p)
          /\ r.pc \in Picking /\ r.back = "real" => ~Turns(act, p)
          /\ r.pc = "ret" /\ Turns(act, p) =>
               r.id = INVALID_INTERFACE_ID \/ \E k \in 1..act[p.act].num : r.id = act[p.act].arr[k]
    BY <1>4, <1>5, <1>8, <1>10 DEF Filling, Picking
  <2>3. RunAt(act, ver, r, pend[w])
    BY <1>4, <1>10, <2>2 DEF RunAt, Picking, Filling, p
  <2> QED BY <1>10, <2>1, <2>3, LoadMoves
<1>11. CASE Loads(w, r1)
  <2>1. /\ DOMAIN r1 = RunFields /\ r1.left = s.left /\ r1.num = s.num /\ r1.n = s.n
        /\ r1.reg = s.reg /\ r1.c = s.c /\ r1.tries = s.tries /\ r1.back = s.back /\ r1.cfg = s.cfg
        /\ r1.idx = s.idx /\ r1.pc = "ret" /\ r1.id = i
    BY <1>3 DEF RunFields
  <2> HIDE DEF r1
  <2> QED BY <2>1, <1>3, <1>10, <1>11
<1>12. CASE Loads(w, r2)
  <2>1. /\ DOMAIN r2 = RunFields /\ r2.left = s.left /\ r2.num = s.num /\ r2.n = s.num
        /\ r2.reg = s.reg /\ r2.c = s.c /\ r2.tries = s.tries /\ r2.back = "again" /\ r2.cfg = s.cfg
        /\ r2.idx = s.idx /\ r2.pc = "call"
    BY <1>3 DEF RunFields, Call
  <2> HIDE DEF r2
  <2> QED BY <2>1, <1>3, <1>7, <1>10, <1>12
<1>13. CASE Loads(w, r3) /\ ~turns
  <2>1. /\ DOMAIN r3 = RunFields /\ r3.left = s.left /\ r3.num = s.num /\ r3.n = s.n
        /\ r3.reg = s.reg /\ r3.c = s.c /\ r3.tries = s.tries /\ r3.back = s.back /\ r3.cfg = s.cfg
        /\ r3.idx = s.idx /\ r3.pc = "reset"
    BY <1>3 DEF RunFields
  <2> HIDE DEF r3
  <2> QED BY <2>1, <1>3, <1>10, <1>13
<1>14. CASE Loads(w, r4)
  <2>1. /\ DOMAIN r4 = RunFields /\ r4.left = s.left /\ r4.num = s.num /\ r4.n = s.n
        /\ r4.reg = s.reg /\ r4.c = s.c /\ r4.tries = s.tries /\ r4.back = s.back /\ r4.cfg = s.cfg
        /\ r4.idx = s.idx /\ r4.pc = "ret" /\ r4.id = INVALID_INTERFACE_ID
    BY <1>3 DEF RunFields
  <2> HIDE DEF r4
  <2> QED BY <2>1, <1>3, <1>10, <1>14
<1>15. CASE Loads(w, r5) /\ t # MAX_LOAD_BALANCE_NODE
  <2>1. /\ DOMAIN r5 = RunFields /\ r5.left = s.left /\ r5.num = s.num /\ r5.n = s.num
        /\ r5.reg = s.reg /\ r5.c = s.c /\ r5.tries = t /\ r5.back = "again" /\ r5.cfg = s.cfg
        /\ r5.idx = s.idx /\ r5.pc = "call"
    BY <1>3 DEF RunFields, Call
  <2> HIDE DEF r5
  <2> QED BY <2>1, <1>3, <1>7, <1>9, <1>10, <1>15
<1> QED BY <1>6, <1>11, <1>12, <1>13, <1>14, <1>15

\* The interfaces that are up are counted and put into the shared array.
LEMMA FillSteps ==
  ASSUME Inv, NEW w \in Workers, RealReset(w) \/ RealPut(w) \/ RealFill(w)
  PROVE  Inv'
<1> DEFINE s == run[w]
           i == First(w).act
           n == realnum[i]
           p == pend[w][1].pkts[1]
           up == A(w).arr[s.i]
           r1 == [s EXCEPT !.pc = "fill", !.i = 1]
           r2 == [s EXCEPT !.pc = "fill", !.i = @ + 1]
           r3 == [s EXCEPT !.pc = "put", !.reg = n, !.id = up]
           r4 == [s EXCEPT !.i = @ + 1]
<1>1. s.pc \in {"reset", "put", "fill"} /\ s.pc # "idle"
  BY DEF RealReset, RealPut, RealFill
<1>2. IsRun(s) /\ RunAt(act, ver, s, pend[w]) /\ i \in Ids
  BY <1>1, WorkerAt
<1>3. /\ DOMAIN s = RunFields /\ s.n \in Nat /\ s.num \in 0..MAX_INTERFACE_CNT /\ s.left \in 0..2
      /\ s.reg \in Nat /\ s.c \in Int /\ s.tries \in 0..(MAX_LOAD_BALANCE_NODE - 1) /\ s.cfg \in Encap
      /\ s.back \in {"", "first", "again", "real"} /\ s.idx \in Nat
  BY <1>2 DEF IsRun
<1>4. /\ pend[w] # <<>> /\ s.left >= 1 /\ Len(pend[w][1].pkts) >= s.left /\ pend[w][1].node = Balance
      /\ Match(ver, p) => s.num = act[p.act].num /\ ~Turns(act, p)
  BY <1>1, <1>2 DEF RunAt, Filling
<1>5. realnum \in [Ids -> Nat] /\ act \in [Ids -> Action]
  BY DEF Inv, ActInv
<1>6. n \in Nat
  BY <1>2, <1>5
<1>7. \/ /\ Stores(w, r1) \/ Stores(w, r2)
         /\ realnum' = [realnum EXCEPT ![i] = 0] \/ realnum' = [realnum EXCEPT ![i] = s.reg + 1]
         /\ act' = act /\ pend' = pend /\ done' = done
      \/ Loads(w, r3)
      \/ Loads(w, r4) /\ s.pc = "fill"
  BY DEF RealReset, RealPut, RealFill
<1> HIDE DEF s, i, n, p, up
<1>8. ASSUME NEW r, DOMAIN r = RunFields, r.left = s.left, r.num = s.num, r.n = s.n,
             r.reg \in Nat, r.c = s.c, r.tries = s.tries, r.back = s.back, r.cfg = s.cfg,
             r.idx = s.idx, r.pc \in {"fill", "put"}
      PROVE  IsRun(r) /\ RunAt(act, ver, r, pend[w])
  <2>1. IsRun(r)
    BY <1>3, <1>8 DEF IsRun, Picking, Filling
  <2>2. RunAt(act, ver, r, pend[w])
    BY <1>4, <1>8 DEF RunAt, Picking, Filling, p
  <2> QED BY <2>1, <2>2
<1>9. ASSUME NEW r, IsRun(r), RunAt(act, ver, r, pend[w]), Stores(w, r),
             realnum' = [realnum EXCEPT ![i] = 0] \/ realnum' = [realnum EXCEPT ![i] = s.reg + 1],
             act' = act, pend' = pend, done' = done
      PROVE  Inv'
  <2>1. \A z \in Nat : z + 1 \in Nat
    OBVIOUS
  <2>2. s.reg + 1 \in Nat
    BY <2>1, <1>3, Zenon
  <2> DEFINE x == s.reg + 1
  <2> HIDE DEF x
  <2>3. realnum' = [realnum EXCEPT ![i] = 0] \/ realnum' = [realnum EXCEPT ![i] = x]
    BY <1>9 DEF x
  <2>4. realnum' \in [Ids -> Nat]
    BY <2>2, <2>3, <1>2, <1>5 DEF x
  <2>5. act' \in [Ids -> Action] /\ \A j \in Ids : Kept(act[j], act'[j])
    BY <1>9, Unchanged
  <2> QED BY <1>9, <2>4, <2>5, StoreMoves
<1>10. /\ DOMAIN r1 = RunFields /\ r1.left = s.left /\ r1.num = s.num /\ r1.n = s.n
       /\ r1.reg = s.reg /\ r1.c = s.c /\ r1.tries = s.tries /\ r1.back = s.back /\ r1.cfg = s.cfg
       /\ r1.idx = s.idx /\ r1.pc = "fill"
  BY <1>3 DEF RunFields
<1>11. /\ DOMAIN r2 = RunFields /\ r2.left = s.left /\ r2.num = s.num /\ r2.n = s.n
       /\ r2.reg = s.reg /\ r2.c = s.c /\ r2.tries = s.tries /\ r2.back = s.back /\ r2.cfg = s.cfg
       /\ r2.idx = s.idx /\ r2.pc = "fill"
  BY <1>3 DEF RunFields
<1>12. /\ DOMAIN r3 = RunFields /\ r3.left = s.left /\ r3.num = s.num /\ r3.n = s.n
       /\ r3.reg = n /\ r3.c = s.c /\ r3.tries = s.tries /\ r3.back = s.back /\ r3.cfg = s.cfg
       /\ r3.idx = s.idx /\ r3.pc = "put"
  BY <1>3 DEF RunFields
<1>13. /\ DOMAIN r4 = RunFields /\ r4.left = s.left /\ r4.num = s.num /\ r4.n = s.n
       /\ r4.reg = s.reg /\ r4.c = s.c /\ r4.tries = s.tries /\ r4.back = s.back /\ r4.cfg = s.cfg
       /\ r4.idx = s.idx /\ r4.pc = s.pc
  BY <1>3 DEF RunFields
<1> HIDE DEF r1, r2, r3, r4
<1>14. IsRun(r1) /\ RunAt(act, ver, r1, pend[w])
  BY <1>3, <1>8, <1>10
<1>15. IsRun(r2) /\ RunAt(act, ver, r2, pend[w])
  BY <1>3, <1>8, <1>11
<1>16. CASE Loads(w, r3)
  <2>1. IsRun(r3) /\ RunAt(act, ver, r3, pend[w])
    BY <1>6, <1>8, <1>12
  <2> QED BY <2>1, <1>16, LoadMoves
<1>17. CASE Loads(w, r4) /\ s.pc = "fill"
  <2>1. IsRun(r4) /\ RunAt(act, ver, r4, pend[w])
    BY <1>3, <1>8, <1>13, <1>17
  <2> QED BY <2>1, <1>17, LoadMoves
<1> QED BY <1>7, <1>9, <1>14, <1>15, <1>16, <1>17

\* The shared array is counted, asked for an index, and read.
LEMMA RealSteps ==
  ASSUME Inv, NEW w \in Workers, RealCount(w) \/ RealCall(w) \/ RealChoice(w)
  PROVE  Inv'
<1> DEFINE s == run[w]
           i == First(w).act
           n == realnum[i]
           p == pend[w][1].pkts[1]
           x == realarr[Row(i) + s.idx]
           r1 == [s EXCEPT !.pc = IF n = 0 THEN "ret" ELSE "count", !.id = INVALID_INTERFACE_ID]
           r2 == Call(s, n, "real")
           r3 == [s EXCEPT !.pc = "ret", !.id = x]
<1>1. s.pc \in Filling /\ s.pc # "idle" /\ s.pc \notin {"erspan", "store", "num"}
  BY DEF RealCount, RealCall, RealChoice, Filling
<1>2. IsRun(s) /\ RunAt(act, ver, s, pend[w]) /\ i \in Ids
  BY <1>1, WorkerAt
<1>3. /\ DOMAIN s = RunFields /\ s.n \in Nat /\ s.num \in 0..MAX_INTERFACE_CNT /\ s.left \in 0..2
      /\ s.reg \in Nat /\ s.c \in Int /\ s.tries \in 0..(MAX_LOAD_BALANCE_NODE - 1) /\ s.cfg \in Encap
      /\ s.back \in {"", "first", "again", "real"} /\ s.idx \in Nat
  BY <1>2 DEF IsRun
<1>4. /\ pend[w] # <<>> /\ s.left >= 1 /\ Len(pend[w][1].pkts) >= s.left /\ pend[w][1].node = Balance
      /\ Match(ver, p) => s.num = act[p.act].num /\ ~Turns(act, p)
  BY <1>1, <1>2 DEF RunAt
<1>5. n \in Nat
  BY <1>2 DEF Inv
<1>6. Loads(w, r1) \/ Loads(w, r2) \/ Loads(w, r3)
  BY DEF RealCount, RealCall, RealChoice
<1> HIDE DEF s, i, n, p, x
<1>7. ASSUME NEW r, DOMAIN r = RunFields, r.left = s.left, r.num = s.num, r.n \in Nat,
             r.reg = s.reg, r.c = s.c, r.tries = s.tries, r.back \in {"", "first", "again", "real"},
             r.cfg = s.cfg, r.idx = s.idx, Loads(w, r),
             r.pc \in {"ret", "count"} \/ (r.pc = "call" /\ r.back = "real")
      PROVE  Inv'
  <2>1. IsRun(r)
    BY <1>3, <1>7 DEF IsRun, Picking, Filling
  <2>2. RunAt(act, ver, r, pend[w])
    BY <1>4, <1>7 DEF RunAt, Picking, Filling, p
  <2> QED BY <1>7, <2>1, <2>2, LoadMoves
<1>8. /\ DOMAIN r1 = RunFields /\ r1.left = s.left /\ r1.num = s.num /\ r1.n = s.n
      /\ r1.reg = s.reg /\ r1.c = s.c /\ r1.tries = s.tries /\ r1.back = s.back /\ r1.cfg = s.cfg
      /\ r1.idx = s.idx /\ r1.pc \in {"ret", "count"}
  BY <1>3 DEF RunFields
<1>9. /\ DOMAIN r2 = RunFields /\ r2.left = s.left /\ r2.num = s.num /\ r2.n = n
      /\ r2.reg = s.reg /\ r2.c = s.c /\ r2.tries = s.tries /\ r2.back = "real" /\ r2.cfg = s.cfg
      /\ r2.idx = s.idx /\ r2.pc = "call"
  BY <1>3 DEF RunFields, Call
<1>10. /\ DOMAIN r3 = RunFields /\ r3.left = s.left /\ r3.num = s.num /\ r3.n = s.n
       /\ r3.reg = s.reg /\ r3.c = s.c /\ r3.tries = s.tries /\ r3.back = s.back /\ r3.cfg = s.cfg
       /\ r3.idx = s.idx /\ r3.pc = "ret"
  BY <1>3 DEF RunFields
<1> HIDE DEF r1, r2, r3
<1>11. CASE Loads(w, r1)
  BY <1>3, <1>7, <1>8, <1>11
<1>12. CASE Loads(w, r2)
  BY <1>5, <1>7, <1>9, <1>12
<1>13. CASE Loads(w, r3)
  BY <1>3, <1>7, <1>10, <1>13
<1> QED BY <1>6, <1>11, <1>12, <1>13

-----------------------------------------------------------------------------
(* The steps that move packets.                                            *)

AllDone(a, v, out) == \A x \in out : PktDone(a, v, x)
\* A packet went where r says, out of frames fs.
Took(fs, out, r, s) == s.fr = Pass(fs, r.p, r.next) /\ s.out = out \cup Ends(r.p, r.next)

\* One packet is handled.
LEMMA OneHandled ==
  ASSUME NEW a, NEW v, NEW fs, Frames(a, v, fs), fs # <<>>, NEW r, Goes(a, v, r),
         NEW out, AllDone(a, v, out), NEW s, Took(fs, out, r, s)
  PROVE  /\ Frames(a, v, s.fr) /\ AllDone(a, v, s.out)
         /\ Len(fs[1].pkts) > 1 => /\ s.fr # <<>> /\ s.fr[1].node = fs[1].node
                                   /\ Len(s.fr[1].pkts) >= Len(fs[1].pkts) - 1
<1> DEFINE g == Pass(fs, r.p, r.next)
           e == Ends(r.p, r.next)
<1>1. /\ Frames(a, v, g) /\ \A x \in e : PktDone(a, v, x)
      /\ Len(fs[1].pkts) > 1 => /\ g # <<>> /\ g[1].node = fs[1].node
                                /\ Len(g[1].pkts) >= Len(fs[1].pkts) - 1
  BY PassFrames
<1> HIDE DEF g, e
<1>2. s.fr = g /\ s.out = out \cup e
  BY DEF g, e, Took
<1>3. AllDone(a, v, s.out)
  BY <1>1, <1>2 DEF AllDone
<1> QED BY <1>1, <1>2, <1>3

\* A node hands packets on; nothing else changes.
LEMMA NodeMoves ==
  ASSUME Inv, NEW w \in Workers, UNCHANGED <<shared, run, gre_option, share>>,
         run[w].pc = "idle", NEW fs, Frames(act, ver, fs), pend' = [pend EXCEPT ![w] = fs],
         AllDone(act, ver, done')
  PROVE  Inv'
<1>1. /\ act' = act /\ rest' = rest /\ ver' = ver /\ events' = events /\ realnum' = realnum
      /\ gre_option' = gre_option /\ run' = run /\ \A x \in done' : PktDone(act, ver, x)
  BY DEF shared, AllDone
<1>2. /\ DOMAIN pend = Workers /\ IsRun(run[w]) /\ realnum \in [Ids -> Nat]
      /\ gre_option \in Nat \ {0}
  BY DEF Inv
<1>3. /\ DOMAIN pend' = Workers /\ pend'[w] = fs /\ \A u \in Workers : u # w => pend'[u] = pend[u]
  BY <1>2
<1>4. RunAt(act, ver, run[w], fs)
  BY DEF RunAt
<1>5. act' \in [Ids -> Action] /\ \A j \in Ids : Kept(act[j], act'[j])
  BY <1>1, Unchanged
<1> QED BY <1>1, <1>2, <1>3, <1>4, <1>5, WorkerMoves

\* sf_action_main handles two packets, or one.
LEMMA MainSteps ==
  ASSUME Inv, NEW w \in Workers, MainTwo(w) \/ MainOne(w)
  PROVE  Inv'
<1> DEFINE fs == pend[w]
           r == get_action_forward_path(fs[1].pkts[1])
           g == Handled([fr |-> fs, out |-> done], get_action_forward_path)
           q == get_action_forward_path(g.fr[1].pkts[1])
           s == Handled(g, get_action_forward_path)
<1>1. /\ At(w, "sf_action_main") /\ UNCHANGED <<shared, run, gre_option, share>>
      /\ \/ pend' = [pend EXCEPT ![w] = g.fr] /\ done' = g.out
         \/ /\ Len(fs[1].pkts) >= 4
            /\ pend' = [pend EXCEPT ![w] = s.fr] /\ done' = s.out
  BY DEF MainTwo, MainOne, HandleTwo, HandleOne, Two, One, Frame
<1>2. fs # <<>> /\ fs[1].node = "sf_action_main" /\ run[w].pc = "idle"
  BY <1>1 DEF At
<1>3. /\ Frames(act, ver, fs) /\ ActInv /\ ver \in [Ids -> Nat \ {0}]
      /\ AllDone(act, ver, done)
  BY DEF Inv, AllDone
<1>4. PktAt(act, ver, "sf_action_main", fs[1].pkts[1]) /\ Len(fs[1].pkts) \in Nat
  BY <1>2, <1>3, TakeFrames
<1>5. Goes(act, ver, r)
  BY <1>3, <1>4, MainGoes
<1>6. Took(fs, done, r, g)
  BY DEF Handled, Took
<1>7. Took(g.fr, g.out, q, s)
  BY DEF Handled, Took
<1> HIDE DEF fs, r, g, q, s
<1>8. /\ Frames(act, ver, g.fr) /\ AllDone(act, ver, g.out)
      /\ Len(fs[1].pkts) > 1 => g.fr # <<>> /\ g.fr[1].node = fs[1].node
  BY <1>2, <1>3, <1>5, <1>6, OneHandled
<1>9. CASE pend' = [pend EXCEPT ![w] = g.fr] /\ done' = g.out
  BY <1>1, <1>2, <1>8, <1>9, NodeMoves
<1>10. CASE /\ Len(fs[1].pkts) >= 4
            /\ pend' = [pend EXCEPT ![w] = s.fr] /\ done' = s.out
  <2>1. Len(fs[1].pkts) > 1
    BY <1>4, <1>10 DEF fs
  <2>2. g.fr # <<>> /\ g.fr[1].node = "sf_action_main"
    BY <1>2, <1>8, <2>1
  <2>3. Goes(act, ver, q)
    <3>1. PktAt(act, ver, "sf_action_main", g.fr[1].pkts[1])
      BY <1>8, <2>2, TakeFrames
    <3> QED BY <1>3, <3>1, MainGoes DEF q
  <2>4. Frames(act, ver, s.fr) /\ AllDone(act, ver, s.out)
    BY <1>7, <1>8, <2>2, <2>3, OneHandled
  <2> QED BY <1>1, <1>2, <1>10, <2>4, NodeMoves
<1> QED BY <1>1, <1>9, <1>10

\* The node gre handles two packets, or one.
LEMMA GreSteps ==
  ASSUME Inv, NEW w \in Workers, GreTwo(w) \/ GreOne(w)
  PROVE  Inv'
<1> DEFINE fs == pend[w]
           r == GrePacket(fs[1].pkts[1])
           g == Handled([fr |-> fs, out |-> done], GrePacket)
           q == GrePacket(g.fr[1].pkts[1])
           s == Handled(g, GrePacket)
<1>1. /\ At(w, "gre") /\ UNCHANGED <<shared, run, gre_option, share>>
      /\ \/ pend' = [pend EXCEPT ![w] = g.fr] /\ done' = g.out
         \/ /\ Len(fs[1].pkts) >= 4
            /\ pend' = [pend EXCEPT ![w] = s.fr] /\ done' = s.out
  BY DEF GreTwo, GreOne, HandleTwo, HandleOne, Two, One, Frame
<1>2. fs # <<>> /\ fs[1].node = "gre" /\ run[w].pc = "idle"
  BY <1>1 DEF At
<1>3. /\ Frames(act, ver, fs) /\ ActInv /\ ver \in [Ids -> Nat \ {0}]
      /\ AllDone(act, ver, done)
  BY DEF Inv, AllDone
<1>4. PktAt(act, ver, "gre", fs[1].pkts[1]) /\ Len(fs[1].pkts) \in Nat
  BY <1>2, <1>3, TakeFrames
<1>5. Goes(act, ver, r)
  BY <1>3, <1>4, GreGoes
<1>6. Took(fs, done, r, g)
  BY DEF Handled, Took
<1>7. Took(g.fr, g.out, q, s)
  BY DEF Handled, Took
<1> HIDE DEF fs, r, g, q, s
<1>8. /\ Frames(act, ver, g.fr) /\ AllDone(act, ver, g.out)
      /\ Len(fs[1].pkts) > 1 => g.fr # <<>> /\ g.fr[1].node = fs[1].node
  BY <1>2, <1>3, <1>5, <1>6, OneHandled
<1>9. CASE pend' = [pend EXCEPT ![w] = g.fr] /\ done' = g.out
  BY <1>1, <1>2, <1>8, <1>9, NodeMoves
<1>10. CASE /\ Len(fs[1].pkts) >= 4
            /\ pend' = [pend EXCEPT ![w] = s.fr] /\ done' = s.out
  <2>1. Len(fs[1].pkts) > 1
    BY <1>4, <1>10 DEF fs
  <2>2. g.fr # <<>> /\ g.fr[1].node = "gre"
    BY <1>2, <1>8, <2>1
  <2>3. Goes(act, ver, q)
    <3>1. PktAt(act, ver, "gre", g.fr[1].pkts[1])
      BY <1>8, <2>2, TakeFrames
    <3> QED BY <1>3, <3>1, GreGoes DEF q
  <2>4. Frames(act, ver, s.fr) /\ AllDone(act, ver, s.out)
    BY <1>7, <1>8, <2>2, <2>3, OneHandled
  <2> QED BY <1>1, <1>2, <1>10, <2>4, NodeMoves
<1> QED BY <1>1, <1>9, <1>10

\* The node vxlan handles two packets, or one.
LEMMA VxlanSteps ==
  ASSUME Inv, NEW w \in Workers, VxlanTwo(w) \/ VxlanOne(w)
  PROVE  Inv'
<1> DEFINE fs == pend[w]
           r == VxlanPacket(fs[1].pkts[1])
           g == Handled([fr |-> fs, out |-> done], VxlanPacket)
           q == VxlanPacket(g.fr[1].pkts[1])
           s == Handled(g, VxlanPacket)
<1>1. /\ At(w, "vxlan") /\ UNCHANGED <<shared, run, gre_option, share>>
      /\ \/ pend' = [pend EXCEPT ![w] = g.fr] /\ done' = g.out
         \/ /\ Len(fs[1].pkts) >= 4
            /\ pend' = [pend EXCEPT ![w] = s.fr] /\ done' = s.out
  BY DEF VxlanTwo, VxlanOne, HandleTwo, HandleOne, Two, One, Frame
<1>2. fs # <<>> /\ fs[1].node = "vxlan" /\ run[w].pc = "idle"
  BY <1>1 DEF At
<1>3. /\ Frames(act, ver, fs) /\ ActInv /\ ver \in [Ids -> Nat \ {0}]
      /\ AllDone(act, ver, done)
  BY DEF Inv, AllDone
<1>4. PktAt(act, ver, "vxlan", fs[1].pkts[1]) /\ Len(fs[1].pkts) \in Nat
  BY <1>2, <1>3, TakeFrames
<1>5. Goes(act, ver, r)
  BY <1>3, <1>4, VxlanGoes
<1>6. Took(fs, done, r, g)
  BY DEF Handled, Took
<1>7. Took(g.fr, g.out, q, s)
  BY DEF Handled, Took
<1> HIDE DEF fs, r, g, q, s
<1>8. /\ Frames(act, ver, g.fr) /\ AllDone(act, ver, g.out)
      /\ Len(fs[1].pkts) > 1 => g.fr # <<>> /\ g.fr[1].node = fs[1].node
  BY <1>2, <1>3, <1>5, <1>6, OneHandled
<1>9. CASE pend' = [pend EXCEPT ![w] = g.fr] /\ done' = g.out
  BY <1>1, <1>2, <1>8, <1>9, NodeMoves
<1>10. CASE /\ Len(fs[1].pkts) >= 4
            /\ pend' = [pend EXCEPT ![w] = s.fr] /\ done' = s.out
  <2>1. Len(fs[1].pkts) > 1
    BY <1>4, <1>10 DEF fs
  <2>2. g.fr # <<>> /\ g.fr[1].node = "vxlan"
    BY <1>2, <1>8, <2>1
  <2>3. Goes(act, ver, q)
    <3>1. PktAt(act, ver, "vxlan", g.fr[1].pkts[1])
      BY <1>8, <2>2, TakeFrames
    <3> QED BY <1>3, <3>1, VxlanGoes DEF q
  <2>4. Frames(act, ver, s.fr) /\ AllDone(act, ver, s.out)
    BY <1>7, <1>8, <2>2, <2>3, OneHandled
  <2> QED BY <1>1, <1>2, <1>10, <2>4, NodeMoves
<1> QED BY <1>1, <1>9, <1>10

\* A node that is done with a packet goes on to the next of the pair or leaves.
LEMMA NextRun ==
  ASSUME NEW a, NEW v, NEW fs, Frames(a, v, fs), NEW s, IsRun(s), s.left >= 1,
         NEW pc \in {"erspan", "num"},
         s.left # 1 => /\ fs # <<>> /\ Len(fs[1].pkts) >= 1
                       /\ fs[1].node = IF pc = "erspan" THEN "erspan" ELSE Balance
  PROVE  IsRun(NextOf(s, pc)) /\ RunAt(a, v, NextOf(s, pc), fs)
<1>1. s.left \in 0..2
  BY DEF IsRun
<1>2. CASE s.left = 1
  <2>1. NextOf(s, pc) = Idle
    BY <1>2 DEF NextOf
  <2> QED BY <2>1, IdleRun DEF RunAt
<1>3. CASE s.left # 1
  <2> DEFINE l == s.left - 1
             r == [Idle EXCEPT !.pc = pc, !.left = l]
  <2>1. l = 1
    <3> DEFINE x == s.left
    <3>1. x \in 0..2 /\ x >= 1 /\ x # 1
      BY <1>1, <1>3
    <3> HIDE DEF x
    <3>2. x - 1 = 1
      BY <3>1
    <3> QED BY <3>2 DEF x
  <2>2. NextOf(s, pc) = r
    BY <1>3 DEF NextOf
  <2> HIDE DEF l
  <2>3. l \in 1..2 /\ Len(fs[1].pkts) >= l
    BY <2>1, <1>3
  <2>4. IsRun(r) /\ RunAt(a, v, r, fs)
    BY <1>3, <2>3, StartRun
  <2> HIDE DEF r
  <2> QED BY <2>2, <2>4
<1> QED BY <1>2, <1>3

\* A node that has local variables is done with its packet.
LEMMA PacketLeaves ==
  ASSUME Inv, NEW w \in Workers, UNCHANGED <<shared, share>>, gre_option' \in Nat \ {0},
         run[w].pc # "idle", NEW r, Goes(act, ver, r),
         NEW s, Took(pend[w], done, r, s),
         pend' = [pend EXCEPT ![w] = s.fr], done' = s.out,
         NEW pc \in {"erspan", "num"}, run' = [run EXCEPT ![w] = NextOf(run[w], pc)],
         pc = "erspan" <=> run[w].pc \in {"erspan", "store"}
  PROVE  Inv'
<1> DEFINE fs == pend[w]
           q == NextOf(run[w], pc)
           l == run[w].left
<1>1. /\ IsRun(run[w]) /\ RunAt(act, ver, run[w], fs) /\ Frames(act, ver, fs) /\ fs # <<>>
  BY WorkerAt
<1>2. /\ l >= 1 /\ Len(fs[1].pkts) >= l /\ l \in 0..2
      /\ fs[1].node = IF pc = "erspan" THEN "erspan" ELSE Balance
  BY <1>1 DEF RunAt, IsRun
<1>3. AllDone(act, ver, done) /\ DOMAIN pend = Workers /\ realnum \in [Ids -> Nat]
  BY DEF Inv, AllDone
<1>4. /\ act' = act /\ rest' = rest /\ ver' = ver /\ events' = events /\ realnum' = realnum
  BY DEF shared
<1>5. Len(fs[1].pkts) \in Nat
  BY <1>1, TakeFrames
<1> HIDE DEF fs, q, l
<1>6. /\ Frames(act, ver, s.fr) /\ AllDone(act, ver, s.out)
      /\ Len(fs[1].pkts) > 1 => /\ s.fr # <<>> /\ s.fr[1].node = fs[1].node
                                /\ Len(s.fr[1].pkts) >= Len(fs[1].pkts) - 1
  BY <1>1, <1>3, OneHandled DEF fs
<1>7. l # 1 => /\ s.fr # <<>> /\ Len(s.fr[1].pkts) >= 1
               /\ s.fr[1].node = IF pc = "erspan" THEN "erspan" ELSE Balance
  <2> SUFFICES ASSUME l # 1
               PROVE  /\ s.fr # <<>> /\ Len(s.fr[1].pkts) >= 1
                      /\ s.fr[1].node = IF pc = "erspan" THEN "erspan" ELSE Balance
    OBVIOUS
  <2> DEFINE x == Len(fs[1].pkts)
             y == Len(s.fr[1].pkts)
  <2>1. x \in Nat /\ x >= l /\ l \in 0..2 /\ l >= 1 /\ l # 1
    BY <1>2, <1>5
  <2> HIDE DEF x
  <2>2. x > 1 /\ x - 1 >= 1 /\ x - 1 \in Nat
    BY <2>1
  <2>3. s.fr # <<>> /\ s.fr[1].node = fs[1].node /\ y >= x - 1
    BY <1>6, <2>2 DEF x
  <2>4. Frames(act, ver, s.fr)
    BY <1>6
  <2>5. y \in Nat
    BY <2>3, <2>4, TakeFrames
  <2> HIDE DEF y
  <2>6. y >= 1
    BY <2>1, <2>2, <2>3, <2>5
  <2> QED BY <2>3, <2>6, <1>2 DEF y
<1>8. IsRun(q) /\ RunAt(act, ver, q, s.fr)
  BY <1>1, <1>2, <1>6, <1>7, NextRun DEF q, l
<1>9. act' \in [Ids -> Action] /\ \A j \in Ids : Kept(act[j], act'[j])
  BY <1>4, Unchanged
<1>10. /\ DOMAIN pend' = Workers /\ pend'[w] = s.fr /\ \A u \in Workers : u # w => pend'[u] = pend[u]
  BY <1>3
<1>11. run' = [run EXCEPT ![w] = q]
  BY DEF q
<1>12. \A x \in done' : PktDone(act, ver, x)
  BY <1>6 DEF AllDone
<1> QED BY <1>3, <1>4, <1>6, <1>8, <1>9, <1>10, <1>11, <1>12, WorkerMoves

\* The number of an ERSPAN header is read.
LEMMA SequenceLoadStep ==
  ASSUME Inv, NEW w \in Workers, SequenceLoad(w)
  PROVE  Inv'
<1> DEFINE s == run[w]
           n == gre_option
           c == Erspan(w)
           r == [s EXCEPT !.pc = "store", !.reg = n, !.cfg = c]
<1>1. s.pc = "erspan" /\ s.pc # "idle" /\ Loads(w, r) /\ Numbered(c)
  BY DEF SequenceLoad, Loads
<1>2. IsRun(s) /\ RunAt(act, ver, s, pend[w]) /\ A(w) \in Action
  BY <1>1, WorkerAt
<1>3. n \in Nat \ {0}
  BY DEF Inv
<1>4. c \in Encap
  <2>1. A(w).addi \in [EncapNames -> Encap]
    BY <1>2 DEF Action
  <2>2. "erspan" \in EncapNames
    BY DEF EncapNames
  <2> QED BY <2>1, <2>2 DEF Erspan, A
<1>5. c.dip \in {4, 6} /\ c.type \in {2, 3}
  BY <1>1 DEF Numbered
<1>6. /\ pend[w] # <<>> /\ s.left >= 1 /\ Len(pend[w][1].pkts) >= s.left /\ pend[w][1].node = "erspan"
  BY <1>1, <1>2 DEF RunAt
<1> HIDE DEF s, n, c
<1>7. DOMAIN s = RunFields
  BY <1>2 DEF IsRun
<1>8. /\ DOMAIN r = RunFields /\ r.left = s.left /\ r.num = s.num /\ r.n = s.n
      /\ r.reg = n /\ r.c = s.c /\ r.tries = s.tries /\ r.back = s.back /\ r.cfg = c
      /\ r.idx = s.idx /\ r.pc = "store"
  BY <1>7 DEF RunFields
<1> HIDE DEF r
<1>9. n > 0 /\ n \in Nat
  <2>1. \A z \in Nat \ {0} : z > 0 /\ z \in Nat
    OBVIOUS
  <2> QED BY <2>1, <1>3, Zenon
<1>10. IsRun(r)
  BY <1>2, <1>4, <1>8, <1>9 DEF IsRun
<1>11. RunAt(act, ver, r, pend[w])
  BY <1>5, <1>6, <1>8, <1>9 DEF RunAt, Picking, Filling
<1> QED BY <1>1, <1>10, <1>11, LoadMoves

\* An ERSPAN header is put on, with a number or without.
LEMMA ErspanSteps ==
  ASSUME Inv, NEW w \in Workers, SequenceStore(w) \/ NoSequence(w)
  PROVE  Inv'
<1> DEFINE p == pend[w][1].pkts[1]
           s == run[w]
<1>1. s.pc \in {"store", "erspan"} /\ s.pc # "idle" /\ UNCHANGED <<shared, share>>
  BY DEF SequenceStore, NoSequence
<1>2. /\ IsRun(s) /\ RunAt(act, ver, s, pend[w]) /\ A(w) \in Action
      /\ PktAt(act, ver, "erspan", First(w))
  BY <1>1, WorkerAt
<1>3. ActInv /\ gre_option \in Nat \ {0}
  BY DEF Inv
<1>4. First(w) = p /\ Erspan(w) = act[p.act].addi["erspan"] /\ Erspan(w) = A(w).addi["erspan"]
  BY DEF First, Frame, Erspan, A
<1>5. Erspan(w) \in Encap
  <2>1. A(w).addi \in [EncapNames -> Encap]
    BY <1>2 DEF Action
  <2>2. "erspan" \in EncapNames
    BY DEF EncapNames
  <2> QED BY <2>1, <2>2, <1>4
<1>6. s.reg \in Nat /\ s.cfg \in Encap
  BY <1>2 DEF IsRun
<1>7. s.pc = "store" => s.reg > 0 /\ s.cfg.dip \in {4, 6} /\ s.cfg.type \in {2, 3}
  BY <1>2 DEF RunAt
<1>8. CASE SequenceStore(w)
  <2> DEFINE r == Pop(encap_erspan_proc(p, s.cfg, s.reg))
             f == [fr |-> Pass(pend[w], r.p, r.next), out |-> done \cup Ends(r.p, r.next)]
  <2>1. s.pc = "store"
    BY <1>8 DEF SequenceStore
  <2>2. s.cfg.type # 0
    BY <1>7, <2>1
  <2>3. Goes(act, ver, r)
    <3> HIDE DEF p, s
    <3> QED BY <1>2, <1>3, <1>4, <1>6, <1>7, <2>1, <2>2, ErspanGoes
  <2>4. gre_option' \in Nat \ {0}
    <3>1. gre_option' = s.reg + 1
      BY <1>8 DEF SequenceStore
    <3>2. \A z \in Nat : z + 1 \in Nat \ {0}
      OBVIOUS
    <3> QED BY <3>1, <3>2, <1>6, Zenon
  <2>5. pend' = [pend EXCEPT ![w] = f.fr] /\ done' = f.out
    BY <1>8 DEF SequenceStore, HandleOne, Handled
  <2>6. run' = [run EXCEPT ![w] = NextOf(run[w], "erspan")]
    BY <1>8 DEF SequenceStore, Local
  <2> HIDE DEF r
  <2>7. Took(pend[w], done, r, f)
    BY DEF Took
  <2> HIDE DEF f
  <2> QED BY <1>1, <2>3, <2>4, <2>5, <2>6, <2>7, PacketLeaves
<1>9. CASE NoSequence(w)
  <2> DEFINE c == Erspan(w)
             r == Pop(encap_erspan_proc(p, c, 0))
             f == [fr |-> Pass(pend[w], r.p, r.next), out |-> done \cup Ends(r.p, r.next)]
  <2>1. ~Numbered(c) /\ gre_option' = gre_option
    BY <1>9 DEF NoSequence
  <2>2. pend' = [pend EXCEPT ![w] = f.fr] /\ done' = f.out
    BY <1>9 DEF NoSequence, HandleOne, Handled
  <2>3. Goes(act, ver, r)
    <3> HIDE DEF p, s, c
    <3>1. 0 \in Nat
      OBVIOUS
    <3>2. c \in Encap /\ c = act[p.act].addi["erspan"]
      BY <1>4, <1>5 DEF c
    <3> QED BY <1>2, <1>3, <1>4, <2>1, <3>1, <3>2, ErspanGoes
  <2>4. gre_option' \in Nat \ {0}
    BY <2>1, <1>3
  <2>6. run' = [run EXCEPT ![w] = NextOf(run[w], "erspan")]
    BY <1>9 DEF NoSequence, Local
  <2> HIDE DEF r
  <2>7. Took(pend[w], done, r, f)
    BY DEF Took
  <2> HIDE DEF f
  <2> QED BY <1>1, <2>2, <2>3, <2>4, <2>6, <2>7, PacketLeaves
<1> QED BY <1>8, <1>9

\* A packet leaves by the interface that was picked, or is dropped.
LEMMA LeaveStep ==
  ASSUME Inv, NEW w \in Workers, Leave(w)
  PROVE  Inv'
<1> DEFINE p == pend[w][1].pkts[1]
           s == run[w]
           i == s.id
           r == [p |-> [p EXCEPT !.out = i],
                 next |-> IF i = INVALID_INTERFACE_ID THEN Drop ELSE Out]
           f == [fr |-> Pass(pend[w], r.p, r.next), out |-> done \cup Ends(r.p, r.next)]
<1>1. s.pc = "ret" /\ s.pc # "idle" /\ UNCHANGED <<shared, share>> /\ gre_option' = gre_option
  BY DEF Leave
<1>2. /\ RunAt(act, ver, s, pend[w]) /\ PktAt(act, ver, Balance, First(w)) /\ First(w) = p
  BY <1>1, WorkerAt DEF First, Frame
<1>3. ActInv /\ gre_option' \in Nat \ {0}
  BY <1>1 DEF Inv
<1>4. Match(ver, p) /\ Turns(act, p) =>
        i = INVALID_INTERFACE_ID \/ \E k \in 1..act[p.act].num : i = act[p.act].arr[k]
  BY <1>1, <1>2 DEF RunAt
<1>5. Goes(act, ver, r)
  <2> HIDE DEF p, i
  <2> QED BY <1>2, <1>3, <1>4, PickGoes
<1>6. pend' = [pend EXCEPT ![w] = f.fr] /\ done' = f.out
  BY DEF Leave, HandleOne, Handled
<1>7. run' = [run EXCEPT ![w] = NextOf(run[w], "num")]
  BY DEF Leave, Local
<1> HIDE DEF r
<1>8. Took(pend[w], done, r, f)
  BY DEF Took
<1> HIDE DEF f
<1> QED BY <1>1, <1>3, <1>5, <1>6, <1>7, <1>8, PacketLeaves

\* Every step of a worker.
LEMMA WorkerInv ==
  ASSUME Inv, NEW w \in Workers, WorkerStep(w)
  PROVE  Inv'
  BY MainSteps, GreSteps, VxlanSteps, Starts, SequenceLoadStep, ErspanSteps, IndexStep, TurnSteps,
     TestStep, LoadNumStep, ChoiceSteps, FillSteps, RealSteps, LeaveStep
  DEF WorkerStep, load_balance_get_weight_index, load_balance_interfaces

-----------------------------------------------------------------------------
(* What restd makes of requests.                                           *)

\* The largest of some numbers up to n.
LEMMA MaxIn ==
  ASSUME NEW n \in Nat, NEW T \in SUBSET (0..n), T # {}
  PROVE  Max(T) \in T
<1> DEFINE U == {k \in 0..n : n - k \in T}
           R == OpToRel(<, Nat)
<1>1. U # {}
  <2>1. PICK x \in T : TRUE
    OBVIOUS
  <2>2. n - x \in 0..n /\ n - (n - x) = x
    OBVIOUS
  <2> QED BY <2>1, <2>2
<1>2. PICK k \in U : \A j \in U : ~(<<j, k>> \in R)
  <2>1. IsWellFoundedOn(R, Nat)
    BY NatLessThanWellFounded
  <2>2. U \subseteq Nat
    OBVIOUS
  <2> HIDE DEF R, U
  <2> QED BY <1>1, <2>1, <2>2, WFMin
<1>3. k \in 0..n /\ n - k \in T
  BY <1>2
<1>4. ASSUME NEW y \in T PROVE n - k >= y
  <2>1. y \in 0..n /\ n - y \in 0..n /\ n - (n - y) = y
    OBVIOUS
  <2>2. n - y \in U
    BY <2>1
  <2>3. ~(<<n - y, k>> \in R)
    BY <1>2, <2>2
  <2>4. ~(n - y < k)
    BY <2>1, <2>3, <1>3 DEF OpToRel
  <2> QED BY <2>1, <2>4, <1>3
<1> DEFINE x == n - k
<1>5. x \in T /\ \A y \in T : x >= y
  BY <1>3, <1>4
<1> HIDE DEF x
<1> QED BY <1>5 DEF Max

\* The largest of the first numbers of a sequence is a number.
LEMMA TopType ==
  ASSUME NEW w, NEW n \in Nat, n > 0, \A k \in 1..n : w[k] \in Int
  PROVE  Max({w[i] : i \in 1..n}) \in Int
<1> DEFINE Top(m) == \E x \in 1..m : \A y \in 1..m : w[x] >= w[y]
           S == {m \in 0..n : m > 0 => Top(m)}
           T == {w[i] : i \in 1..n}
<1>1. 0 \in S
  OBVIOUS
<1>2. ASSUME NEW m \in 0..n, m < n, m \in S
      PROVE  m + 1 \in S
  <2>1. m + 1 \in 1..n /\ m + 1 \in 0..n /\ w[m + 1] \in Int
    BY <1>2
  <2>2. Top(m + 1)
    <3>1. CASE m = 0
      <4>1. 1 \in 1..(m + 1) /\ \A y \in 1..(m + 1) : y = 1
        BY <3>1
      <4>2. w[1] \in Int
        BY <2>1, <3>1
      <4>3. \A y \in 1..(m + 1) : w[1] >= w[y]
        BY <4>1, <4>2
      <4> QED BY <4>1, <4>3
    <3>2. CASE m > 0
      <4>1. PICK x \in 1..m : \A y \in 1..m : w[x] >= w[y]
        BY <1>2, <3>2
      <4>2. x \in 1..n /\ x \in 1..(m + 1) /\ m + 1 \in 1..(m + 1)
        BY <1>2
      <4>3. w[x] \in Int
        BY <4>2
      <4>4. ASSUME NEW y \in 1..(m + 1) PROVE y \in 1..m \/ y = m + 1
        OBVIOUS
      <4>5. CASE w[x] >= w[m + 1]
        <5>1. \A y \in 1..(m + 1) : w[x] >= w[y]
          BY <4>1, <4>4, <4>5
        <5> QED BY <4>2, <5>1
      <4>6. CASE ~(w[x] >= w[m + 1])
        <5>1. ASSUME NEW y \in 1..(m + 1) PROVE w[m + 1] >= w[y]
          <6>1. CASE y = m + 1
            BY <2>1, <6>1
          <6>2. CASE y \in 1..m
            <7>1. w[x] >= w[y] /\ y \in 1..n
              BY <4>1, <6>2, <1>2
            <7>2. w[y] \in Int
              BY <7>1
            <7> QED BY <2>1, <4>3, <4>6, <7>1, <7>2
          <6> QED BY <4>4, <6>1, <6>2
        <5> QED BY <4>2, <5>1
      <4> QED BY <4>5, <4>6
    <3> QED BY <3>1, <3>2
  <2> HIDE DEF Top
  <2> QED BY <2>1, <2>2
<1> HIDE DEF Top
<1>3. Top(n)
  <2>1. n \in S
    <3> HIDE DEF S
    <3>1. \A k \in 0..n : k \in S
      BY <1>1, <1>2, UpTo
    <3> QED BY <3>1
  <2> QED BY <2>1
<1>4. \E x \in T : \A y \in T : x >= y
  BY <1>3 DEF Top
<1>5. T \subseteq Int
  OBVIOUS
<1> HIDE DEF T
<1>6. Max(T) \in T
  BY <1>4 DEF Max
<1> QED BY <1>5, <1>6 DEF T

\* weight_calc_max: the numbers it stores.
LEMMA WeightedType ==
  ASSUME NEW w, NEW n \in Nat, n > 0, \A k \in 1..n : w[k] \in Nat /\ w[k] > 0
  PROVE  weight_calc_max(w, n).gcd \in Int /\ weight_calc_max(w, n).mw \in Int
<1>1. weight_calc_max(w, n).gcd \in Nat
  BY WeightsDivided
<1>2. \A k \in 1..n : w[k] \in Int
  OBVIOUS
<1>3. Max({w[i] : i \in 1..n}) \in Int
  BY <1>2, TopType
<1>4. weight_calc_max(w, n).mw = Max({w[i] : i \in 1..n})
  BY DEF weight_calc_max
<1> QED BY <1>1, <1>3, <1>4

\* trans_dict_to_action_struct succeeds, fails or raises.
LEMMA TransEnds ==
  ASSUME NEW d
  PROVE  trans_dict_to_action_struct(d).st \in {"ok", "bad", "raise"}
<1> DEFINE Ends3 == {"ok", "bad", "raise"}
<1>0. Bad.st \in Ends3 /\ Raise.st \in Ends3 /\ \A a : Good(a).st \in Ends3
  BY DEF Bad, Raise, Good
<1> HIDE DEF Ends3
<1>1. ASSUME NEW a, NEW n, NEW m, NEW v
      PROVE  trans_action_content_basic_load_balance(a, n, m, v).st \in Ends3
  BY <1>0 DEF trans_action_content_basic_load_balance
<1>2. ASSUME NEW b PROVE trans_action_content_basic_actions(b).st \in Ends3
  BY <1>0, <1>1 DEF trans_action_content_basic_actions
<1>3. ASSUME NEW a, NEW b PROVE trans_action_content_addi_actions(a, b).st \in Ends3
  BY <1>0 DEF trans_action_content_addi_actions
<1>4. trans_dict_to_action_struct(d).st \in Ends3
  BY <1>0, <1>2, <1>3 DEF trans_dict_to_action_struct
<1> QED BY <1>4 DEF Ends3

\* The part of an array a struct uses is a sequence.
LEMMA PartType ==
  ASSUME NEW S, NEW f \in [Slots -> S], NEW n \in 0..MAX_INTERFACE_CNT
  PROVE  SubSeq(f, 1, n) \in Seq(S)
<1> DEFINE M == MAX_INTERFACE_CNT
<1>1. M \in Nat
  BY SizesAssumption
<1>2. f \in Seq(S) /\ Len(f) = M
  <2>1. f \in [1..M -> S]
    BY DEF Slots
  <2> HIDE DEF M
  <2> QED BY <1>1, <2>1
<1>3. n \in 0..M
  OBVIOUS
<1> HIDE DEF M
<1> QED BY <1>1, <1>2, <1>3

\* What GET says of a struct could have been sent.
LEMMA ReadType ==
  ASSUME NEW a \in Action
  PROVE  IsBasis(format_action_basic_action(a))
<1>1. /\ a.fwd \in Interfaces \cup {0} /\ a.arr \in [Slots -> Interfaces \cup {0}]
      /\ a.weight \in [Slots -> Int] /\ a.num \in 0..MAX_INTERFACE_CNT
  BY DEF Action
<1> DEFINE b == format_action_basic_action(a)
           s == SubSeq(a.arr, 1, a.num)
           w == SubSeq(a.weight, 1, a.num)
<1>2. s \in Seq(Interfaces \cup {0}) /\ w \in Seq(Int)
  BY <1>1, PartType
<1>3. <<a.fwd>> \in Seq(Interfaces \cup {0})
  BY <1>1
<1> HIDE DEF s, w
<1>4. CASE a.type = "forward"
  <2>1. b = [type |-> a.type, interfaces |-> <<a.fwd>>]
    BY <1>4 DEF format_action_basic_action
  <2>2. DOMAIN b = {"type", "interfaces"} /\ b.interfaces = <<a.fwd>>
    BY <2>1
  <2> HIDE DEF b
  <2> QED BY <1>3, <2>2 DEF IsBasis, Has, b
<1>5. CASE a.type = "load_balance"
  <2> DEFINE x == [type |-> a.type, interfaces |-> s, load_balance_mode |-> a.mode]
             y == IF a.mode = "wrr" THEN [load_balance_weight |-> w] ELSE <<>>
  <2>1. b = Extend(x, y)
    BY <1>5 DEF format_action_basic_action, s, w
  <2>2. DOMAIN x = {"type", "interfaces", "load_balance_mode"} /\ x.interfaces = s
    OBVIOUS
  <2>3. \/ DOMAIN y = {"load_balance_weight"} /\ y.load_balance_weight = w
        \/ DOMAIN y = {}
    OBVIOUS
  <2> HIDE DEF b, x, y
  <2>4. /\ DOMAIN b = DOMAIN x \cup DOMAIN y
        /\ \A k \in DOMAIN y : b[k] = y[k]
        /\ \A k \in DOMAIN x : k \notin DOMAIN y => b[k] = x[k]
    BY ONLY <2>1 DEF Extend
  <2>5. b["interfaces"] = s
    BY <2>2, <2>3, <2>4
  <2>6. Has(b, "load_balance_weight") => b["load_balance_weight"] = w
    BY <2>2, <2>3, <2>4 DEF Has
  <2> QED BY <2>5, <2>6, <1>2 DEF IsBasis, b
<1>6. CASE a.type \notin {"forward", "load_balance"}
  <2>1. b = [type |-> a.type]
    BY <1>6 DEF format_action_basic_action
  <2>2. DOMAIN b = {"type"}
    BY <2>1
  <2> HIDE DEF b
  <2> QED BY <2>2 DEF IsBasis, Has, b
<1> QED BY <1>4, <1>5, <1>6

\* The operations of a PATCH, merged into what GET says, could have been sent.
LEMMA PatchType ==
  ASSUME NEW a \in Action, NEW ops, ops \in Seq(Range(ops)), \A d \in Range(ops) : IsDict(d)
  PROVE  IsDict(action_dict_merge_update(get_single_action_content(a), PatchDict(ops)))
<1> DEFINE g == get_single_action_content(a)
           f == format_action_basic_action(a)
           p == PatchDict(ops)
           m == action_dict_merge_update(g, p)
<1>1. "basis" \in DOMAIN g /\ g["basis"] = f
  <2> DEFINE x == [basis |-> f]
             y == [additional |-> format_action_addi_action(a)]
  <2>1. g = IF a.switch = {} THEN x ELSE Extend(x, y)
    BY DEF get_single_action_content
  <2>2. DOMAIN x = {"basis"} /\ x["basis"] = f /\ DOMAIN y = {"additional"}
    OBVIOUS
  <2> HIDE DEF x, y, g, f
  <2>3. CASE a.switch = {}
    BY <2>1, <2>2, <2>3
  <2>4. CASE a.switch # {}
    <3>1. g = Extend(x, y)
      BY <2>1, <2>4
    <3>2. /\ DOMAIN g = DOMAIN x \cup DOMAIN y
          /\ \A k \in DOMAIN x : k \notin DOMAIN y => g[k] = x[k]
      BY ONLY <3>1 DEF Extend
    <3> QED BY <2>2, <3>2
  <2> QED BY <2>3, <2>4
<1>2. IsBasis(f)
  BY ReadType
<1>3. "basis" \in DOMAIN p => IsBasis(p["basis"])
  <2> SUFFICES ASSUME "basis" \in DOMAIN p PROVE IsBasis(p["basis"])
    OBVIOUS
  <2> DEFINE T == {i \in DOMAIN ops : "basis" \in DOMAIN ops[i]}
             l == Max(T)
  <2>1. T # {} /\ p["basis"] = ops[l]["basis"]
    BY DEF PatchDict
  <2>2. Len(ops) \in Nat /\ T \subseteq 0..Len(ops)
    <3>1. Len(ops) \in Nat /\ DOMAIN ops = 1..Len(ops)
      OBVIOUS
    <3> QED BY <3>1
  <2>3. l \in T
    <3> DEFINE n == Len(ops)
    <3> HIDE DEF n, T
    <3>1. n \in Nat /\ T \in SUBSET (0..n) /\ T # {}
      BY <2>1, <2>2 DEF n
    <3> QED BY ONLY <3>1, MaxIn
  <2>4. l \in DOMAIN ops /\ "basis" \in DOMAIN ops[l]
    BY <2>3
  <2> HIDE DEF l
  <2>5. IsDict(ops[l])
    BY <2>4 DEF Range
  <2>6. ops[l].basis = ops[l]["basis"]
    OBVIOUS
  <2> QED BY <2>1, <2>4, <2>5 DEF IsDict, Has
<1> HIDE DEF g, f, p
<1>4. m["basis"] = IF "basis" \in DOMAIN p THEN Extend(g["basis"], p["basis"]) ELSE g["basis"]
  BY <1>1 DEF action_dict_merge_update, MergeFlat
<1>5. IsBasis(m["basis"])
  <2>1. CASE "basis" \notin DOMAIN p
    BY <1>1, <1>2, <1>4, <2>1
  <2>2. CASE "basis" \in DOMAIN p
    <3> DEFINE q == p["basis"]
               e == Extend(f, q)
    <3>1. IsBasis(q) /\ m["basis"] = e
      BY <1>1, <1>3, <1>4, <2>2
    <3> HIDE DEF q, m
    <3>2. e = Extend(f, q)
      OBVIOUS
    <3> HIDE DEF e
    <3>3. /\ DOMAIN e = DOMAIN f \cup DOMAIN q
          /\ \A k \in DOMAIN q : e[k] = q[k]
          /\ \A k \in DOMAIN f : k \notin DOMAIN q => e[k] = f[k]
      BY ONLY <3>2 DEF Extend
    <3>4. Has(e, "interfaces") => e["interfaces"] \in Seq(Interfaces \cup {0})
      BY <1>2, <3>1, <3>3 DEF IsBasis, Has
    <3>5. Has(e, "load_balance_weight") => e["load_balance_weight"] \in Seq(Int)
      BY <1>2, <3>1, <3>3 DEF IsBasis, Has
    <3>6. IsBasis(e)
      BY <3>4, <3>5 DEF IsBasis
    <3> QED BY <3>1, <3>6
  <2> QED BY <2>1, <2>2
<1> QED BY <1>5 DEF IsDict, m, g, p

-----------------------------------------------------------------------------
(* The steps of restd and of links.                                        *)

\* Workers that restd or a link disturbs.
LEMMA DisturbedPlaced ==
  ASSUME Inv, pend' = pend, run' = run \/ run' = Disturbed(run)
  PROVE  DOMAIN run' = Workers /\ DOMAIN pend' = Workers /\ \A u \in Workers : Placed(u)
<1>1. DOMAIN run = Workers /\ DOMAIN pend = Workers
  BY DEF Inv
<1>2. DOMAIN run' = Workers
  BY <1>1 DEF Disturbed
<1>3. ASSUME NEW u \in Workers PROVE RunLike(run[u], run'[u])
  BY <1>1 DEF RunLike, Disturbed
<1> QED BY <1>1, <1>2, <1>3 DEF Placed

\* restd works on its request and writes nothing, or a link changes.
LEMMA QuietMoves ==
  ASSUME Inv, act' = act, ver' = ver, realnum' = realnum, gre_option' = gre_option,
         pend' = pend, done' = done, run' = run \/ run' = Disturbed(run),
         \A r \in events' : IsRequest(r), RestInv', rest' = rest \/ rest.pc \notin Copies
  PROVE  Inv'
<1>1. /\ ActInv /\ ver \in [Ids -> Nat \ {0}] /\ realnum \in [Ids -> Nat] /\ gre_option \in Nat \ {0}
      /\ \A x \in done : PktDone(act, ver, x)
  BY DEF Inv
<1>2. ActInv'
  <2>1. \A i \in Ids : Torn(i) => Torn(i)'
    BY DEF Torn, Copies
  <2>2. \A i \in Ids : act'[i].ref > 0 /\ ~Torn(i)' => Shape(Base(act'[i])) /\ Weighted(act'[i])
    BY <1>1, <2>1 DEF ActInv
  <2> QED BY <1>1, <2>2 DEF ActInv
<1>3. Later(act, ver, act', ver')
  <2>1. \A i \in Ids : ver[i] \in Nat /\ ver[i] <= ver[i]
    BY <1>1
  <2> QED BY <2>1 DEF Later, Alike
<1>4. DOMAIN run' = Workers /\ DOMAIN pend' = Workers /\ \A u \in Workers : Placed(u)
  BY DisturbedPlaced
<1> QED BY <1>1, <1>2, <1>3, <1>4, Moves

\* A link changes.
LEMMA FlipStep ==
  ASSUME Inv, NEW i \in Interfaces, Flip(i)
  PROVE  Inv'
<1>1. /\ act' = act /\ ver' = ver /\ realnum' = realnum /\ gre_option' = gre_option
      /\ pend' = pend /\ done' = done /\ run' = Disturbed(run) /\ rest' = rest /\ events' = {}
  BY DEF Flip
<1>2. RestInv'
  BY <1>1 DEF RestInv, Inv
<1> QED BY <1>1, <1>2, QuietMoves

\* What restd has in hand after a step that writes nothing.
LEMMA InHand ==
  ASSUME NEW q, rest' = q, DOMAIN q = RestFields, q.pc \in {"idle", "item", "memcpy", "memset"},
         Todo(q.todo), q.pc \in {"memcpy", "memset"} => q.id \in Ids /\ q.left = Pieces,
         q.pc = "memcpy" => Shape(q.a), q.pc = "memset" => q.a = Zero
  PROVE  RestInv'
<1>1. \A f \in Copied : f \in UNION Pieces
  BY PiecesAssumption DEF Copied
<1>2. q.pc \in Copies => q.left \subseteq Pieces /\ \A f \in Copied : f \in UNION q.left
  BY <1>1 DEF Copies
<1> QED BY <1>2 DEF RestInv, PutPcs, DeletePcs

\* A body is a sequence of actions a request may hold.
LEMMA TodoOf ==
  ASSUME NEW S, NEW s, s \in Seq(S), \A x \in S : IsDict(x.data)
  PROVE  Todo(s)
  BY DEF Todo

\* The fields of a request that has just come.
LEMMA NoRequestIs ==
  /\ DOMAIN NoRequest = RestFields /\ NoRequest.pc = "idle" /\ NoRequest.todo = <<>>
  /\ NoRequest.a = Zero /\ Todo(<<>>)
<1> DEFINE E == {}
           s == <<>>
<1>1. s \in Seq(E) /\ \A x \in E : IsDict(x.data)
  OBVIOUS
<1>2. /\ DOMAIN NoRequest = RestFields /\ NoRequest.pc = "idle" /\ NoRequest.todo = <<>>
      /\ NoRequest.a = Zero
  BY DEF NoRequest, RestFields
<1> HIDE DEF E, s
<1>3. Todo(s)
  BY ONLY <1>1, TodoOf
<1> QED BY <1>2, <1>3 DEF s

\* A request comes in.
LEMMA RequestStep ==
  ASSUME Inv, NEW r \in events, Request(r)
  PROVE  Inv'
<1>1. IsRequest(r) /\ ActInv /\ RestInv
  BY DEF Inv
<1>2. /\ act' = act /\ ver' = ver /\ realnum' = realnum /\ gre_option' = gre_option
      /\ pend' = pend /\ done' = done /\ run' = run /\ events' = {}
      /\ post(r) \/ put(r) \/ patch(r) \/ delete(r)
      /\ rest.pc \notin Copies
  BY DEF Request, workers, Copies
<1>3. ASSUME NEW m, NEW t, Begin(m, t), Todo(t) PROVE RestInv'
  <2> DEFINE q == [NoRequest EXCEPT !.pc = "item", !.method = m, !.todo = t]
  <2>1. rest' = q
    BY <1>3 DEF Begin
  <2>2. DOMAIN q = RestFields /\ q.pc = "item" /\ q.todo = t
    BY NoRequestIs DEF RestFields
  <2> HIDE DEF q
  <2> QED BY <2>1, <2>2, <1>3, InHand
<1>4. ASSUME rest' = rest PROVE RestInv'
  BY <1>1, <1>2, <1>4 DEF RestInv
<1>5. CASE post(r) \/ put(r)
  <2>1. r.method \in {"post", "put"} /\ \E m : Begin(m, r.todo)
    BY <1>5 DEF post, put
  <2>2. Todo(r.todo)
    BY <1>1, <2>1 DEF IsRequest, Todo
  <2>3. RestInv'
    BY <1>3, <2>1, <2>2
  <2> QED BY <1>2, <2>3, QuietMoves
<1>6. CASE patch(r)
  <2>1. CASE ~Exists(r.id)
    BY <1>2, <1>4, <1>6, <2>1, QuietMoves DEF patch
  <2>2. CASE Exists(r.id)
    <3> DEFINE d == action_dict_merge_update(get_single_action_content(act[r.id]), PatchDict(r.ops))
               x == [id |-> r.id, data |-> d]
    <3>1. Begin("put", <<x>>) /\ r.method = "patch"
      BY <1>6, <2>2 DEF patch
    <3>2. act[r.id] \in Action
      BY <1>1, <2>2 DEF ActInv, Exists, is_valid_action_id
    <3>3. r.ops \in Seq(Range(r.ops)) /\ \A e \in Range(r.ops) : IsDict(e)
      BY <1>1, <3>1 DEF IsRequest
    <3>4. IsDict(d)
      BY <3>2, <3>3, PatchType
    <3> HIDE DEF d
    <3>5. x.data = d
      OBVIOUS
    <3> HIDE DEF x
    <3>6. Todo(<<x>>)
      <4> DEFINE S == {x}
                 s == <<x>>
      <4>1. s \in Seq(S) /\ \A y \in S : IsDict(y.data)
        BY <3>4, <3>5
      <4> HIDE DEF S, s
      <4>2. Todo(s)
        BY ONLY <4>1, TodoOf
      <4> QED BY <4>2 DEF s
    <3>7. RestInv'
      BY <1>3, <3>1, <3>6
    <3> QED BY <1>2, <3>7, QuietMoves
  <2> QED BY <2>1, <2>2
<1>7. CASE delete(r)
  <2>1. CASE ~is_valid_action_id(r.id)
    BY <1>2, <1>4, <1>7, <2>1, QuietMoves DEF delete
  <2>2. CASE is_valid_action_id(r.id)
    <3> DEFINE i == r.id
               q == [NoRequest EXCEPT !.pc = "memset", !.id = i, !.left = Pieces]
    <3>1. rest' = q /\ i \in Ids
      BY <1>7, <2>2 DEF delete, is_valid_action_id
    <3> HIDE DEF i
    <3>2. /\ DOMAIN q = RestFields /\ q.pc = "memset" /\ q.todo = <<>> /\ q.id = i
          /\ q.left = Pieces /\ q.a = Zero
      BY NoRequestIs DEF RestFields
    <3> HIDE DEF q
    <3>3. RestInv'
      BY <3>1, <3>2, NoRequestIs, InHand
    <3> QED BY <1>2, <3>3, QuietMoves
  <2> QED BY <2>1, <2>2
<1> QED BY <1>2, <1>5, <1>6, <1>7

\* The next action of a request is looked at.
LEMMA ItemStep ==
  ASSUME Inv, update_action_content \/ Finish
  PROVE  Inv'
<1>1. /\ act' = act /\ ver' = ver /\ realnum' = realnum /\ gre_option' = gre_option
      /\ pend' = pend /\ done' = done /\ run' = run /\ events' = events
      /\ (\A r \in events : IsRequest(r)) /\ rest.pc \notin Copies
  BY DEF update_action_content, Finish, workers, Inv, Copies
<1>2. RestInv
  BY DEF Inv
<1>3. CASE Finish
  <2>1. rest' = NoRequest
    BY <1>3 DEF Finish
  <2>2. RestInv'
    BY <2>1, NoRequestIs, InHand
  <2> QED BY <1>1, <2>2, QuietMoves
<1>4. CASE update_action_content
  <2> DEFINE l == rest.todo
             x == Head(l)
             t == trans_dict_to_action_struct(x.data)
             u == Tail(l)
             next == [rest EXCEPT !.todo = u]
             q1 == [next EXCEPT !.bad = TRUE]
             q2 == [next EXCEPT !.pc = "memcpy", !.id = x.id, !.a = t.a, !.left = Pieces]
  <2>1. rest.pc = "item" /\ l # <<>>
    BY <1>4 DEF update_action_content
  <2>2. \/ rest' = q1 \/ rest' = NoRequest
        \/ rest' = q2 /\ t.st # "raise" /\ t.st # "bad" /\ x.id \in Ids
    BY <1>4 DEF update_action_content, is_valid_action_id
  <2>3. DOMAIN rest = RestFields /\ Todo(l)
    BY <1>2 DEF RestInv
  <2>4. IsDict(x.data) /\ Todo(u)
    <3>1. PICK S : l \in Seq(S) /\ \A y \in S : IsDict(y.data)
      BY <2>3 DEF Todo
    <3> HIDE DEF l
    <3>2. x \in S /\ u \in Seq(S)
      BY <2>1, <3>1
    <3> QED BY <3>1, <3>2 DEF Todo
  <2>5. t.st \in {"ok", "bad", "raise"}
    BY TransEnds
  <2> DEFINE z == t.a
             i == x.id
             q == [next EXCEPT !.pc = "memcpy", !.id = i, !.a = z, !.left = Pieces]
  <2>6. t.st = "ok" => Shape(z)
    BY <2>4, TransShape
  <2>7. q2 = q
    OBVIOUS
  <2> HIDE DEF l, x, t, u, z, i, q2
  <2>8. DOMAIN next = RestFields /\ next.pc = "item" /\ next.todo = u
    BY <2>1, <2>3 DEF RestFields
  <2> HIDE DEF next
  <2>9. DOMAIN q1 = RestFields /\ q1.pc = "item" /\ q1.todo = u
    BY <2>8 DEF RestFields
  <2>10. /\ DOMAIN q = RestFields /\ q.pc = "memcpy" /\ q.todo = u /\ q.id = i /\ q.a = z
         /\ q.left = Pieces
    BY <2>8 DEF RestFields
  <2> HIDE DEF q1, q
  <2>11. RestInv'
    <3>1. CASE rest' = q1
      BY <2>4, <2>9, <3>1, InHand
    <3>2. CASE rest' = NoRequest
      BY <3>2, NoRequestIs, InHand
    <3>3. CASE rest' = q2 /\ t.st # "raise" /\ t.st # "bad" /\ x.id \in Ids
      <4>1. t.st = "ok" /\ i \in Ids
        BY <2>5, <3>3 DEF i
      <4>2. rest' = q /\ Shape(z)
        BY <2>6, <2>7, <3>3, <4>1
      <4> QED BY <2>4, <2>10, <4>1, <4>2, InHand
    <3> QED BY <2>2, <3>1, <3>2, <3>3
  <2> QED BY <1>1, <2>11, QuietMoves
<1> QED BY <1>3, <1>4

\* restd stores into the action it works on.
LEMMA IntoMoves ==
  ASSUME Inv, rest.id \in Ids, NEW a \in Action, NEW q, StoreInto(a, q), ActInv', RestInv'
  PROVE  Inv'
<1> DEFINE i == rest.id
<1>1. /\ act' = [act EXCEPT ![i] = a] /\ ver' = [ver EXCEPT ![i] = @ + 1]
      /\ run' = Disturbed(run) /\ realnum' = realnum /\ gre_option' = gre_option
      /\ pend' = pend /\ done' = done /\ events' = events
  BY DEF StoreInto
<1>2. /\ act \in [Ids -> Action] /\ ver \in [Ids -> Nat \ {0}] /\ realnum \in [Ids -> Nat]
      /\ gre_option \in Nat \ {0}
      /\ \A x \in done : PktDone(act, ver, x)
      /\ \A r \in events : IsRequest(r)
  BY DEF Inv, ActInv
<1>3. i \in Ids
  OBVIOUS
<1> HIDE DEF i
<1>4. \A j \in Ids : j # i => act'[j] = act[j]
  BY <1>1, <1>2, <1>3
<1>5. ver' \in [Ids -> Nat \ {0}] /\ Later(act, ver, act', ver')
  <2> DEFINE n == ver[i] + 1
  <2>1. ver[i] \in Nat
    BY <1>2, <1>3
  <2>2. n \in Nat \ {0} /\ ver[i] <= n /\ ver[i] # n
    BY <2>1
  <2>3. ver' = [ver EXCEPT ![i] = n]
    BY <1>1
  <2> HIDE DEF n
  <2>4. ver' \in [Ids -> Nat \ {0}] /\ ver'[i] = n /\ \A j \in Ids : j # i => ver'[j] = ver[j]
    BY <1>2, <1>3, <2>2, <2>3
  <2>5. ASSUME NEW j \in Ids
        PROVE  /\ ver[j] \in Nat /\ ver'[j] \in Nat /\ ver[j] <= ver'[j]
               /\ ver[j] = ver'[j] => Alike(act[j], act'[j])
    <3>1. CASE j = i
      BY <2>1, <2>2, <2>4, <3>1
    <3>2. CASE j # i
      <4>1. ver[j] \in Nat /\ ver'[j] = ver[j] /\ act'[j] = act[j]
        BY <1>2, <1>4, <2>4, <3>2
      <4>2. ver[j] <= ver[j]
        BY <4>1
      <4> QED BY <4>1, <4>2 DEF Alike
    <3> QED BY <3>1, <3>2
  <2> QED BY <2>4, <2>5 DEF Later
<1>6. DOMAIN run' = Workers /\ DOMAIN pend' = Workers /\ \A u \in Workers : Placed(u)
  BY <1>1, DisturbedPlaced
<1>7. /\ \A r \in events' : IsRequest(r)
      /\ \A x \in done' : PktDone(act, ver, x)
      /\ realnum' \in [Ids -> Nat] /\ gre_option' \in Nat \ {0}
  BY <1>1, <1>2
<1> HIDE DEF Inv
<1> QED BY <1>5, <1>6, <1>7, Moves

\* restd, done with the copy, writes action a and goes on at pc.
LEMMA WriteMoves ==
  ASSUME Inv, rest.pc \in {"cw", "gcd", "ref"}, NEW a \in Action, NEW pc, Write(a, pc),
         a.ref > 0 => Shape(Base(a)) /\ Weighted(a),
         pc \in {"item", "gcd", "ref"},
         pc # "item" => a.ref = 0 /\ Base(a) = rest.a,
         pc = "gcd" => rest.a.mode = "wrr",
         pc = "ref" => Weighted(a)
  PROVE  Inv'
<1> DEFINE i == rest.id
           q == [rest EXCEPT !.pc = pc]
<1>1. act' = [act EXCEPT ![i] = a] /\ rest' = q /\ StoreInto(a, q)
  BY DEF Write, StoreInto
<1>2. ActInv /\ RestInv
  BY DEF Inv
<1>3. i \in Ids /\ DOMAIN rest = RestFields /\ Todo(rest.todo) /\ Shape(rest.a)
  BY <1>2 DEF RestInv, PutPcs
<1> HIDE DEF i
<1>4. act' \in [Ids -> Action] /\ act'[i] = a /\ \A j \in Ids : j # i => act'[j] = act[j]
  BY <1>1, <1>2, <1>3 DEF ActInv
<1>5. ActInv'
  <2>1. ASSUME NEW j \in Ids, act'[j].ref > 0 PROVE Shape(Base(act'[j])) /\ Weighted(act'[j])
    <3>1. CASE j = i
      BY <1>4, <2>1, <3>1
    <3>2. CASE j # i
      <4>1. ~Torn(j)
        BY DEF Torn
      <4> QED BY <1>2, <1>4, <2>1, <3>2, <4>1 DEF ActInv
    <3> QED BY <3>1, <3>2
  <2> QED BY <1>4, <2>1 DEF ActInv
<1>6. /\ DOMAIN q = RestFields /\ q.pc = pc /\ q.todo = rest.todo /\ q.id = i /\ q.a = rest.a
  BY <1>3 DEF RestFields, i
<1> HIDE DEF q
<1>7. RestInv'
  <2>1. pc \notin Copies /\ pc \notin DeletePcs /\ (pc \in PutPcs \/ pc = "item")
    BY DEF Copies, DeletePcs, PutPcs
  <2>2. pc \in {"cw", "gcd", "ref"} => act'[i].ref = 0 /\ Base(act'[i]) = rest.a
    BY <1>4
  <2>3. pc = "ref" => Weighted(act'[i])
    BY <1>4
  <2> QED BY <1>1, <1>3, <1>6, <2>1, <2>2, <2>3 DEF RestInv
<1>8. i = rest.id
  BY DEF i
<1> QED BY <1>1, <1>3, <1>5, <1>7, <1>8, IntoMoves

\* Some fields of one action and the others of another make an action.
LEMMA MixedType ==
  ASSUME NEW a \in Action, NEW b \in Action, NEW F
  PROVE  /\ Mixed(a, b, F) \in Action
         /\ \A f \in Fields : Mixed(a, b, F)[f] = IF f \in F THEN b[f] ELSE a[f]
<1> DEFINE c == Mixed(a, b, F)
<1>1. DOMAIN c = Fields /\ \A f \in Fields : c[f] = IF f \in F THEN b[f] ELSE a[f]
  BY DEF Mixed
<1>2. c = [f \in Fields |-> c[f]]
  BY DEF Mixed
<1> HIDE DEF c
<1>3. /\ c["ref"] \in 0..1 /\ c["type"] \in {"", "drop", "forward", "load_balance"}
      /\ c["fwd"] \in Interfaces \cup {0} /\ c["num"] \in 0..MAX_INTERFACE_CNT
  BY <1>1 DEF Action, Fields
<1>4. /\ c["arr"] \in [Slots -> Interfaces \cup {0}] /\ c["switch"] \in SUBSET EncapNames
      /\ c["addi"] \in [EncapNames -> Encap] /\ c["mode"] \in Modes \cup {""}
  BY <1>1 DEF Action, Fields
<1>5. /\ c["cw"] \in Int /\ c["gcd"] \in Int /\ c["mw"] \in Int /\ c["index"] \in Nat
      /\ c["weight"] \in [Slots -> Int]
  BY <1>1 DEF Action, Fields
<1>6. c \in Action
  <2> DEFINE S == 0..1
             T == 0..MAX_INTERFACE_CNT
             U == [Slots -> Interfaces \cup {0}]
             V == [EncapNames -> Encap]
             W == [Slots -> Int]
             X == SUBSET EncapNames
  <2>1. /\ c["ref"] \in S /\ c["num"] \in T /\ c["arr"] \in U /\ c["addi"] \in V /\ c["weight"] \in W
        /\ c["switch"] \in X
    BY <1>3, <1>4, <1>5
  <2>2. Action = [ref : S, type : {"", "drop", "forward", "load_balance"},
           fwd : Interfaces \cup {0}, num : T, arr : U, switch : X,
           addi : V, mode : Modes \cup {""},
           cw : Int, gcd : Int, mw : Int, index : Nat, weight : W]
    BY DEF Action
  <2> HIDE DEF S, T, U, V, W, X
  <2> QED BY <1>2, <1>3, <1>4, <1>5, <2>1, <2>2 DEF Fields
<1> QED BY <1>1, <1>6 DEF c

\* A struct that restd accepted is its own base.
LEMMA ShapeBase ==
  ASSUME NEW a, Shape(a)
  PROVE  Base(a) = a /\ a \in Action /\ a.ref = 0 /\ (a.mode # "wrr" => Weighted(a))
<1> DEFINE c == Base(a)
<1>1. a \in Action /\ a.ref = 0 /\ a.cw = 0 /\ a.gcd = 0 /\ a.mw = 0 /\ a.index = 0
  BY DEF Shape
<1>2. /\ c \in Action /\ c.ref = 0 /\ c.type = a.type /\ c.fwd = a.fwd /\ c.num = a.num
      /\ c.arr = a.arr /\ c.switch = a.switch /\ c.addi = a.addi /\ c.mode = a.mode
      /\ c.cw = 0 /\ c.gcd = 0 /\ c.mw = 0 /\ c.index = 0 /\ c.weight = a.weight
  BY <1>1, BaseIs
<1> HIDE DEF c
<1>3. c = a
  BY <1>1, <1>2, ActionEq
<1> QED BY <1>1, <1>3 DEF Weighted, c

\* What the weights of an accepted struct are.
LEMMA ShapeWeights ==
  ASSUME NEW a, Shape(a), a.mode = "wrr"
  PROVE  /\ a.num \in Nat /\ a.num > 0
         /\ \A k \in 1..a.num : a.weight[k] \in C_INT /\ a.weight[k] \in Int
         /\ ~CutWeights(a) => \A k \in 1..a.num : a.weight[k] \in Nat /\ a.weight[k] > 0
<1> DEFINE n == a.num
           w == a.weight
           M == MAX_INTERFACE_CNT
<1>1. n \in 0..M
  BY DEF Shape, Action
<1>2. n > 0
  BY DEF Shape
<1>3. M \in Nat
  BY SizesAssumption
<1>4. \A k \in Slots : k <= n => w[k] \in C_INT
  BY DEF Shape
<1>5. n \in Nat /\ \A k \in 1..n : k \in 1..M /\ k <= n
  <2> HIDE DEF n, M
  <2> QED BY <1>1, <1>3
<1>6. \A k \in 1..n : w[k] \in C_INT /\ w[k] \in Int
  BY <1>4, <1>5, CInt DEF Slots
<1>7. ASSUME ~CutWeights(a), NEW k \in 1..n PROVE w[k] \in Nat /\ w[k] > 0
  <2>1. ~(w[k] <= 0)
    BY <1>7 DEF CutWeights
  <2> QED BY <1>6, <2>1, WeightsAre
<1> HIDE DEF n, w
<1> QED BY <1>2, <1>5, <1>6, <1>7 DEF n, w

\* What calc_gcd and weight_calc_max store of the weights of an accepted struct.
LEMMA CalculatedType ==
  ASSUME NEW a, Shape(a), a.mode = "wrr", NEW g \in Calculated(a)
  PROVE  g.gcd \in Int /\ g.mw \in Int
<1> DEFINE n == a.num
           w == a.weight
<1>1. /\ n \in Nat /\ n > 0 /\ \A k \in 1..n : w[k] \in C_INT /\ w[k] \in Int
      /\ ~CutWeights(a) => \A k \in 1..n : w[k] \in Nat /\ w[k] > 0
  BY ShapeWeights
<1>2. IF CutWeights(a)
      THEN \E h \in CutDivisors(w, n) : g = [gcd |-> h, mw |-> Max({w[i] : i \in 1..n})]
      ELSE g = weight_calc_max(w, n)
  BY DEF Calculated
<1> HIDE DEF n, w
<1>3. CASE CutWeights(a)
  <2>1. PICK h \in CutDivisors(w, n) : g = [gcd |-> h, mw |-> Max({w[i] : i \in 1..n})]
    BY <1>2, <1>3
  <2>2. Max({w[i] : i \in 1..n}) \in Int
    BY <1>1, TopType
  <2>3. h \in Int
    <3>1. w[1] \in Int
      BY <1>1
    <3>2. h = w[1] \/ h \in C_INT
      BY DEF CutDivisors
    <3> QED BY <3>1, <3>2, CInt
  <2> HIDE DEF Max
  <2> QED BY <2>1, <2>2, <2>3
<1>4. CASE ~CutWeights(a)
  <2>1. weight_calc_max(w, n).gcd \in Int /\ weight_calc_max(w, n).mw \in Int
    BY <1>1, <1>4, WeightedType
  <2> QED BY <1>2, <1>4, <2>1
<1> QED BY <1>3, <1>4

\* All fields that restd copies are there, so the action is the struct.
LEMMA CopiedIs ==
  ASSUME NEW b \in Action, NEW a, Shape(a) \/ a = Zero, \A f \in Copied : b[f] = a[f]
  PROVE  /\ b.ref = 0 /\ Base(b) = a
         /\ a.mode # "wrr" => Weighted(b)
<1> DEFINE c == Base(b)
<1>1. a \in Action /\ a.ref = 0 /\ a.cw = 0 /\ a.gcd = 0 /\ a.mw = 0 /\ a.index = 0
  BY ZeroType, ZeroFields DEF Shape
<1>2. /\ b.ref = a.ref /\ b.type = a.type /\ b.fwd = a.fwd /\ b.num = a.num
      /\ b.arr = a.arr /\ b.switch = a.switch /\ b.addi = a.addi /\ b.mode = a.mode
      /\ b.gcd = a.gcd /\ b.mw = a.mw /\ b.weight = a.weight
  BY DEF Copied, Fields
<1>3. /\ c \in Action /\ c.ref = 0 /\ c.type = b.type /\ c.fwd = b.fwd /\ c.num = b.num
      /\ c.arr = b.arr /\ c.switch = b.switch /\ c.addi = b.addi /\ c.mode = b.mode
      /\ c.cw = 0 /\ c.gcd = 0 /\ c.mw = 0 /\ c.index = 0 /\ c.weight = b.weight
  BY BaseIs
<1> HIDE DEF c
<1>4. c = a
  BY <1>1, <1>2, <1>3, ActionEq
<1>5. a.mode # "wrr" => Weighted(b)
  BY <1>1, <1>2 DEF Weighted
<1> QED BY <1>1, <1>2, <1>4, <1>5 DEF c

\* A piece of memcpy or of memset.
LEMMA CopyStep ==
  ASSUME Inv, NEW pc \in Copies, NEW M \in Pieces, Copy(pc, M)
  PROVE  Inv'
<1> DEFINE i == rest.id
           a == rest.a
           c == Mixed(act[i], a, M)
           l == rest.left \ {M}
           next == IF rest.left = {M} THEN AfterCopy ELSE rest.pc
           q == [rest EXCEPT !.left = l, !.pc = next]
<1>1. rest.pc = pc /\ M \in rest.left /\ StoreInto(c, q)
  BY DEF Copy
<1>2. ActInv /\ RestInv
  BY DEF Inv
<1>3. /\ i \in Ids /\ DOMAIN rest = RestFields /\ Todo(rest.todo) /\ rest.left \subseteq Pieces
      /\ \A f \in Copied : f \in UNION rest.left \/ act[i][f] = a[f]
      /\ pc = "memcpy" => Shape(a)
      /\ pc = "memset" => a = Zero
  BY <1>1, <1>2 DEF RestInv, PutPcs, DeletePcs, Copies
<1>4. act[i] \in Action /\ a \in Action /\ (Shape(a) \/ a = Zero)
  BY <1>2, <1>3, ZeroType DEF ActInv, Shape, Copies
<1>5. c \in Action /\ \A f \in Fields : c[f] = IF f \in M THEN a[f] ELSE act[i][f]
  BY <1>4, MixedType
<1>6. act' = [act EXCEPT ![i] = c] /\ rest' = q
  BY <1>1 DEF StoreInto
<1>7. \A f \in Copied : f \in Fields
  BY DEF Copied
<1>8. \A f \in Copied : f \in UNION l \/ c[f] = a[f]
  <2> SUFFICES ASSUME NEW f \in Copied, f \notin M PROVE f \in UNION l \/ c[f] = a[f]
    BY <1>5, <1>7
  <2>1. CASE f \in UNION rest.left
    <3>1. PICK N \in rest.left : f \in N
      BY <2>1
    <3>2. N \in l
      BY <3>1
    <3> QED BY <3>1, <3>2
  <2>2. CASE act[i][f] = a[f]
    BY <1>5, <1>7, <2>2
  <2> QED BY <1>3, <2>1, <2>2
<1> HIDE DEF i, a, c, l
<1>9. act' \in [Ids -> Action] /\ act'[i] = c /\ \A j \in Ids : j # i => act'[j] = act[j]
  BY <1>2, <1>3, <1>5, <1>6 DEF ActInv
<1>10. /\ DOMAIN q = RestFields /\ q.pc = next /\ q.todo = rest.todo /\ q.id = i /\ q.a = a
       /\ q.left = l
  BY <1>3 DEF RestFields, i, a
<1>11. next \in Copies => rest.left # {M} /\ next = pc
  BY <1>1 DEF AfterCopy, Copies
<1>12. rest.left = {M} =>
         /\ c.ref = 0 /\ Base(c) = a /\ (a.mode # "wrr" => Weighted(c))
         /\ next = IF pc = "memset" THEN "item" ELSE IF a.mode = "wrr" THEN "cw" ELSE "ref"
  <2> SUFFICES ASSUME rest.left = {M}
               PROVE  /\ c.ref = 0 /\ Base(c) = a /\ (a.mode # "wrr" => Weighted(c))
                      /\ next = IF pc = "memset" THEN "item"
                                ELSE IF a.mode = "wrr" THEN "cw" ELSE "ref"
    OBVIOUS
  <2>1. UNION l = {}
    BY DEF l
  <2>2. \A f \in Copied : c[f] = a[f]
    BY <1>8, <2>1
  <2>3. c.ref = 0 /\ Base(c) = a /\ (a.mode # "wrr" => Weighted(c))
    BY <1>4, <1>5, <2>2, CopiedIs
  <2>4. next = IF pc = "memset" THEN "item" ELSE IF a.mode = "wrr" THEN "cw" ELSE "ref"
    BY <1>1 DEF AfterCopy, a
  <2> QED BY <2>3, <2>4
<1>13. rest.left # {M} => next = pc
  BY <1>1
<1> HIDE DEF q, next
<1>14. ActInv'
  <2>1. ASSUME NEW j \in Ids, act'[j].ref > 0, ~Torn(j)'
        PROVE  Shape(Base(act'[j])) /\ Weighted(act'[j])
    <3>1. CASE j = i
      <4>1. CASE rest.left = {M}
        <5>1. act'[j].ref = 0
          BY <1>9, <1>12, <3>1, <4>1
        <5>2. ~(0 > 0)
          OBVIOUS
        <5> QED BY <2>1, <5>1, <5>2
      <4>2. CASE rest.left # {M}
        <5>1. rest'.id = j /\ rest'.pc = pc /\ rest'.left = l
          BY <1>6, <1>10, <1>13, <3>1, <4>2
        <5>2. l # Pieces
          BY DEF l
        <5> QED BY <2>1, <5>1, <5>2 DEF Torn, Copies
      <4> QED BY <4>1, <4>2
    <3>2. CASE j # i
      <4>1. ~Torn(j)
        BY <3>2 DEF Torn, i
      <4> QED BY <1>2, <1>9, <2>1, <3>2, <4>1 DEF ActInv
    <3> QED BY <3>1, <3>2
  <2> QED BY <1>9, <2>1 DEF ActInv
<1>15. RestInv'
  <2>1. CASE rest.left # {M}
    <3>1. next = pc /\ next \in Copies /\ l \subseteq Pieces
      BY <1>3, <1>13, <2>1 DEF l
    <3>2. next \in PutPcs \cup DeletePcs /\ (next \in PutPcs => Shape(a)) /\ (next \in DeletePcs => a = Zero)
      BY <1>3, <3>1 DEF PutPcs, DeletePcs, Copies
    <3>3. next \notin {"cw", "gcd", "ref"}
      BY <3>1 DEF Copies
    <3> QED BY <1>3, <1>6, <1>8, <1>9, <1>10, <3>1, <3>2, <3>3 DEF RestInv
  <2>2. CASE rest.left = {M}
    <3>1. next \notin Copies /\ next \notin DeletePcs
      BY <1>12, <2>2 DEF Copies, DeletePcs
    <3>2. next = "item" \/ next \in PutPcs
      BY <1>12, <2>2 DEF PutPcs
    <3>3. next # "item" => Shape(a)
      BY <1>3, <1>12, <2>2 DEF Copies
    <3>4. /\ next \in {"cw", "gcd", "ref"} => act'[i].ref = 0 /\ Base(act'[i]) = a
          /\ next \in {"cw", "gcd"} => a.mode = "wrr"
          /\ next = "ref" => Weighted(act'[i])
      BY <1>9, <1>12, <2>2
    <3>5. next \in PutPcs => Shape(a)
      BY <3>3 DEF PutPcs
    <3> QED BY <1>3, <1>6, <1>9, <1>10, <3>1, <3>2, <3>4, <3>5 DEF RestInv
  <2> QED BY <2>1, <2>2
<1>16. i = rest.id
  BY DEF i
<1> QED BY <1>1, <1>3, <1>5, <1>14, <1>15, <1>16, IntoMoves

\* The steps of put_action_config after the copy.
LEMMA WeightSteps ==
  ASSUME Inv, PutCw \/ PutGcd \/ PutRef
  PROVE  Inv'
<1> DEFINE i == rest.id
           o == act[i]
           a == rest.a
<1>1. rest.pc \in {"cw", "gcd", "ref"}
  BY DEF PutCw, PutGcd, PutRef
<1>2. ActInv /\ RestInv
  BY DEF Inv
<1>3. i \in Ids /\ Shape(a)
  BY <1>1, <1>2 DEF RestInv, PutPcs
<1>4. o \in Action
  BY <1>2, <1>3 DEF ActInv
<1>5. a \in Action /\ a.ref = 0 /\ Base(a) = a
  BY <1>3, ShapeBase
<1>6. o.ref = 0 /\ Base(o) = a /\ (rest.pc = "ref" => Weighted(o))
  BY <1>1, <1>2 DEF RestInv
<1>7. rest.pc \in {"cw", "gcd"} => a.mode = "wrr"
  BY <1>2 DEF RestInv
<1> HIDE DEF i, o, a
<1>10. CASE PutCw
  <2> DEFINE c == [o EXCEPT !.cw = 0]
  <2>1. Write(c, "gcd") /\ rest.pc = "cw"
    BY <1>10 DEF PutCw, i, o
  <2>2. Kept(o, c)
    <3>1. 0 \in Int
      OBVIOUS
    <3> QED BY <3>1, <1>4, TurnKept
  <2> HIDE DEF c
  <2>3. c \in Action /\ c.ref = 0 /\ Base(c) = rest.a
    BY <1>6, <2>1, <2>2 DEF Kept, Alike, a
  <2>4. rest.a.mode = "wrr" /\ "gcd" # "ref" /\ ~(c.ref > 0)
    BY <1>7, <2>1, <2>3 DEF a
  <2> QED BY <2>1, <2>3, <2>4, <1>1, WriteMoves
<1>11. CASE PutGcd
  <2>0. PICK g \in Calculated(o) : Write([o EXCEPT !.gcd = g.gcd, !.mw = g.mw], "ref")
    BY <1>11 DEF PutGcd, i, o
  <2> DEFINE x == g.gcd
             y == g.mw
             c == [o EXCEPT !.gcd = x, !.mw = y]
  <2>1. Write(c, "ref") /\ rest.pc = "gcd"
    BY <1>11, <2>0 DEF PutGcd
  <2>2. a.mode = "wrr"
    BY <1>7, <2>1
  <2>3. o.weight = a.weight /\ o.num = a.num /\ o.mode = a.mode
    BY <1>4, <1>6, BaseIs
  <2>4. x \in Int /\ y \in Int
    <3>1. Calculated(o) = Calculated(a)
      BY <2>3 DEF Calculated, CutWeights
    <3> QED BY <2>0, <3>1, <1>3, <2>2, CalculatedType
  <2>5. ~CutWeights(o) => /\ x = weight_calc_max(o.weight, o.num).gcd
                          /\ y = weight_calc_max(o.weight, o.num).mw
    BY <2>0 DEF Calculated
  <2> HIDE DEF x, y
  <2>6. /\ c \in Action /\ c.ref = 0 /\ c.type = o.type /\ c.fwd = o.fwd /\ c.num = o.num
        /\ c.arr = o.arr /\ c.switch = o.switch /\ c.addi = o.addi /\ c.mode = o.mode
        /\ c.gcd = x /\ c.mw = y /\ c.weight = o.weight
    <3> DEFINE c1 == [o EXCEPT !.gcd = x]
               c2 == [c1 EXCEPT !.mw = y]
    <3>1. c = c2
      OBVIOUS
    <3>2. c1 \in Action
      BY <1>4, <2>4 DEF Action
    <3>3. c1 \in Action => c2 \in Action
      <4> HIDE DEF c1
      <4> QED BY <2>4 DEF Action
    <3>4. /\ c2.ref = 0 /\ c2.type = o.type /\ c2.fwd = o.fwd /\ c2.num = o.num
          /\ c2.arr = o.arr /\ c2.switch = o.switch /\ c2.addi = o.addi /\ c2.mode = o.mode
          /\ c2.gcd = x /\ c2.mw = y /\ c2.weight = o.weight
      BY <1>4, <1>6 DEF Action
    <3> HIDE DEF c, c1, c2
    <3> QED BY <3>1, <3>2, <3>3, <3>4
  <2> HIDE DEF c
  <2>7. Weighted(c)
    <3>1. CutWeights(c) <=> CutWeights(o)
      BY <2>6 DEF CutWeights
    <3> QED BY <2>2, <2>3, <2>5, <2>6, <3>1 DEF Weighted
  <2>8. Base(c) = rest.a
    <3> DEFINE e == Base(o)
               f == Base(c)
    <3>1. /\ e \in Action /\ e.ref = 0 /\ e.type = o.type /\ e.fwd = o.fwd /\ e.num = o.num
          /\ e.arr = o.arr /\ e.switch = o.switch /\ e.addi = o.addi /\ e.mode = o.mode
          /\ e.cw = 0 /\ e.gcd = 0 /\ e.mw = 0 /\ e.index = 0 /\ e.weight = o.weight
      BY <1>4, BaseIs
    <3>2. /\ f \in Action /\ f.ref = 0 /\ f.type = c.type /\ f.fwd = c.fwd /\ f.num = c.num
          /\ f.arr = c.arr /\ f.switch = c.switch /\ f.addi = c.addi /\ f.mode = c.mode
          /\ f.cw = 0 /\ f.gcd = 0 /\ f.mw = 0 /\ f.index = 0 /\ f.weight = c.weight
      BY <2>6, BaseIs
    <3> HIDE DEF e, f
    <3>3. e = f
      BY <3>1, <3>2, <2>6, ActionEq
    <3> QED BY <3>3, <1>6 DEF e, f, a
  <2>9. ~(c.ref > 0)
    BY <2>6
  <2> QED BY <2>1, <2>6, <2>7, <2>8, <2>9, <1>1, WriteMoves
<1>12. CASE PutRef
  <2> DEFINE c == [o EXCEPT !.ref = 1]
  <2>1. rest.pc = "ref" /\ o.ref = 0
    BY <1>6, <1>12 DEF PutRef
  <2>2. Write(c, "item")
    <3>1. [o EXCEPT !.ref = @ + 1] = c
      BY <2>1
    <3>2. Write([o EXCEPT !.ref = @ + 1], "item")
      BY <1>12 DEF PutRef, i, o
    <3> QED BY <3>1, <3>2
  <2>3. Base(o) = a /\ Weighted(o)
    BY <1>6, <2>1
  <2>4. /\ c \in Action /\ c.ref = 1 /\ c.type = o.type /\ c.fwd = o.fwd /\ c.num = o.num
        /\ c.arr = o.arr /\ c.switch = o.switch /\ c.addi = o.addi /\ c.mode = o.mode
        /\ c.gcd = o.gcd /\ c.mw = o.mw /\ c.weight = o.weight
    <3> DEFINE B == 0..1
    <3>1. 1 \in B
      OBVIOUS
    <3>2. B = 0..1
      OBVIOUS
    <3> HIDE DEF B
    <3> QED BY <1>4, <3>1, <3>2 DEF Action
  <2> HIDE DEF c
  <2>5. Weighted(c)
    <3>1. CutWeights(c) <=> CutWeights(o)
      BY <2>4 DEF CutWeights
    <3> QED BY <2>3, <2>4, <3>1 DEF Weighted
  <2>6. Base(c) = a
    <3> DEFINE e == Base(o)
               f == Base(c)
    <3>1. /\ e \in Action /\ e.ref = 0 /\ e.type = o.type /\ e.fwd = o.fwd /\ e.num = o.num
          /\ e.arr = o.arr /\ e.switch = o.switch /\ e.addi = o.addi /\ e.mode = o.mode
          /\ e.cw = 0 /\ e.gcd = 0 /\ e.mw = 0 /\ e.index = 0 /\ e.weight = o.weight
      BY <1>4, BaseIs
    <3>2. /\ f \in Action /\ f.ref = 0 /\ f.type = c.type /\ f.fwd = c.fwd /\ f.num = c.num
          /\ f.arr = c.arr /\ f.switch = c.switch /\ f.addi = c.addi /\ f.mode = c.mode
          /\ f.cw = 0 /\ f.gcd = 0 /\ f.mw = 0 /\ f.index = 0 /\ f.weight = c.weight
      BY <2>4, BaseIs
    <3> HIDE DEF e, f
    <3>3. e = f
      BY <3>1, <3>2, <2>4, ActionEq
    <3> QED BY <3>3, <2>3 DEF e, f
  <2>7. c \in Action /\ Shape(Base(c))
    BY <1>3, <2>4, <2>6
  <2>8. "item" # "gcd" /\ "item" # "ref"
    OBVIOUS
  <2> QED BY <2>2, <2>5, <2>7, <2>8, <1>1, WriteMoves
<1> QED BY <1>10, <1>11, <1>12

\* restd dies of the remainders of weights that were cut; the action has no reference.
LEMMA FaultStep ==
  ASSUME Inv, GcdFault
  PROVE  Inv'
<1>1. /\ act' = act /\ ver' = ver /\ realnum' = realnum /\ gre_option' = gre_option
      /\ pend' = pend /\ done' = done /\ run' = run /\ events' = events
      /\ (\A r \in events : IsRequest(r)) /\ rest.pc \notin Copies /\ rest' = NoRequest
  BY DEF GcdFault, workers, Inv, Copies
<1>2. RestInv'
  BY <1>1, NoRequestIs, InHand
<1> QED BY <1>1, <1>2, QuietMoves

\* The steps of put_action_config and of delete_action_config.
LEMMA PutSteps ==
  ASSUME Inv, put_action_config \/ delete_action_config
  PROVE  Inv'
<1>1. "memcpy" \in Copies /\ "memset" \in Copies
  BY DEF Copies
<1> QED BY <1>1, CopyStep, WeightSteps, FaultStep
        DEF put_action_config, delete_action_config, PutCopy

\* Every step of restd.
LEMMA RestInvStep ==
  ASSUME Inv, RestStep
  PROVE  Inv'
  BY RequestStep, ItemStep, PutSteps DEF RestStep

-----------------------------------------------------------------------------
(* What is there at first.                                                 *)

\* A struct put_action_config is done with.
LEMMA StoredIs ==
  ASSUME NEW b, Shape(b), ~CutWeights(b)
  PROVE  LET c == Stored(b)
         IN  /\ c \in Action /\ c.ref = 1 /\ c.type = b.type /\ c.fwd = b.fwd /\ c.num = b.num
             /\ c.arr = b.arr /\ c.switch = b.switch /\ c.addi = b.addi /\ c.mode = b.mode
             /\ c.cw = 0 /\ c.index = 0 /\ c.weight = b.weight /\ Weighted(c)
<1> DEFINE c == Stored(b)
           g == weight_calc_max(b.weight, b.num)
           x == g.gcd
           y == g.mw
           one == [b EXCEPT !.ref = 1]
           c2 == [one EXCEPT !.gcd = x]
           c3 == [c2 EXCEPT !.mw = y]
<1>1. /\ b \in Action /\ b.ref = 0 /\ b.cw = 0 /\ b.gcd = 0 /\ b.mw = 0 /\ b.index = 0
  BY DEF Shape
<1>2. /\ one \in Action /\ one.ref = 1 /\ one.type = b.type /\ one.fwd = b.fwd /\ one.num = b.num
      /\ one.arr = b.arr /\ one.switch = b.switch /\ one.addi = b.addi /\ one.mode = b.mode
      /\ one.cw = 0 /\ one.gcd = 0 /\ one.mw = 0 /\ one.index = 0 /\ one.weight = b.weight
  <2> DEFINE B == 0..1
  <2>1. 1 \in B /\ B = 0..1
    OBVIOUS
  <2> HIDE DEF B
  <2> QED BY <1>1, <2>1 DEF Action
<1>3. CASE b.mode # "wrr"
  <2>1. c = one
    BY <1>3 DEF Stored
  <2> HIDE DEF c, one
  <2>2. Weighted(c)
    BY <1>2, <1>3, <2>1 DEF Weighted
  <2> QED BY <1>2, <2>1, <2>2 DEF c
<1>4. CASE b.mode = "wrr"
  <2>1. c = c3
    BY <1>4 DEF Stored
  <2>2. x \in Int /\ y \in Int
    <3> DEFINE w == b.weight
               n == b.num
    <3>1. n \in Nat /\ n > 0 /\ \A k \in 1..n : w[k] \in Nat /\ w[k] > 0
      BY <1>4, ShapeWeights
    <3> HIDE DEF w, n
    <3>2. weight_calc_max(w, n).gcd \in Int /\ weight_calc_max(w, n).mw \in Int
      BY <3>1, WeightedType
    <3> QED BY <3>2 DEF w, n
  <2>3. x = weight_calc_max(b.weight, b.num).gcd /\ y = weight_calc_max(b.weight, b.num).mw
    OBVIOUS
  <2> HIDE DEF g, x, y, one, c
  <2>4. /\ c2 \in Action /\ c2.ref = 1 /\ c2.type = b.type /\ c2.fwd = b.fwd /\ c2.num = b.num
        /\ c2.arr = b.arr /\ c2.switch = b.switch /\ c2.addi = b.addi /\ c2.mode = b.mode
        /\ c2.cw = 0 /\ c2.gcd = x /\ c2.index = 0 /\ c2.weight = b.weight
    BY <1>2, <2>2 DEF Action
  <2> HIDE DEF c2
  <2>5. /\ c3 \in Action /\ c3.ref = 1 /\ c3.type = b.type /\ c3.fwd = b.fwd /\ c3.num = b.num
        /\ c3.arr = b.arr /\ c3.switch = b.switch /\ c3.addi = b.addi /\ c3.mode = b.mode
        /\ c3.cw = 0 /\ c3.gcd = x /\ c3.mw = y /\ c3.index = 0 /\ c3.weight = b.weight
    BY <2>2, <2>4 DEF Action
  <2> HIDE DEF c3
  <2>6. Weighted(c3)
    BY <1>4, <2>3, <2>5 DEF Weighted
  <2> QED BY <2>1, <2>5, <2>6 DEF c
<1> QED BY <1>3, <1>4

\* A stored struct is one workers may use.
LEMMA StoredUsable ==
  ASSUME NEW b, Shape(b), ~CutWeights(b)
  PROVE  Stored(b) \in Action /\ Base(Stored(b)) = b /\ Weighted(Stored(b))
<1> DEFINE c == Stored(b)
           e == Base(c)
<1>1. /\ c \in Action /\ c.ref = 1 /\ c.type = b.type /\ c.fwd = b.fwd /\ c.num = b.num
      /\ c.arr = b.arr /\ c.switch = b.switch /\ c.addi = b.addi /\ c.mode = b.mode
      /\ c.weight = b.weight /\ Weighted(c)
  BY StoredIs
<1> HIDE DEF c
<1>2. /\ e \in Action /\ e.ref = 0 /\ e.type = c.type /\ e.fwd = c.fwd /\ e.num = c.num
      /\ e.arr = c.arr /\ e.switch = c.switch /\ e.addi = c.addi /\ e.mode = c.mode
      /\ e.cw = 0 /\ e.gcd = 0 /\ e.mw = 0 /\ e.index = 0 /\ e.weight = c.weight
  BY <1>1, BaseIs
<1>3. /\ b \in Action /\ b.ref = 0 /\ b.cw = 0 /\ b.gcd = 0 /\ b.mw = 0 /\ b.index = 0
  BY DEF Shape
<1> HIDE DEF e
<1>4. e = b
  BY <1>1, <1>2, <1>3, ActionEq
<1> QED BY <1>1, <1>4 DEF c, e

\* A packet that comes in waits for sf_action_main.
LEMMA FreshAt ==
  ASSUME NEW a, NEW v, NEW p \in Received
  PROVE  PktAt(a, v, "sf_action_main", Fresh(p))
<1> DEFINE q == Fresh(p)
<1>1. p.arg \in Nat /\ p.flow \in Nat \X Nat /\ p.tag \in BOOLEAN /\ p.len \in Nat
  BY DEF Received
<1>2. /\ DOMAIN q = PktFields /\ q.arg = p.arg /\ q.flow = p.flow /\ q.tag = p.tag
      /\ q.act = 0 /\ q.ver = 0 /\ q.node = "" /\ q.cur = 0 /\ q.len = p.len /\ q.size = p.len
      /\ q.list = <<>> /\ q.pos = 1 /\ q.layers = <<>>
  BY DEF Fresh, PktFields
<1> HIDE DEF q
<1>3. IsPkt(q)
  <2>1. 0 \in Nat /\ 0 \in Int /\ 1 \in Nat \ {0}
    OBVIOUS
  <2>2. <<>> \in Seq(Nodes \cup FinalNodes) /\ <<>> \in Seq(Header)
    <3> HIDE DEF Nodes, FinalNodes, Header
    <3> QED OBVIOUS
  <2> QED BY <1>1, <1>2, <2>1, <2>2 DEF IsPkt
<1>4. Len(<<>>) = 0 /\ DOMAIN <<>> = {} /\ 0 \in Nat
  OBVIOUS
<1>5. Lengths(q)
  <2> DEFINE s == <<>>
             n == q.len
             upto == Sizes(s, n)
  <2>1. Len(s) \in Nat /\ Len(s) = 0 /\ DOMAIN s = {}
    OBVIOUS
  <2> HIDE DEF s
  <2>2. upto[0] = n
    BY <2>1, SizesAt
  <2> HIDE DEF upto
  <2>3. q.len = upto[Len(s)]
    BY <2>1, <2>2
  <2>4. q.cur = q.size - q.len
    <3>1. \A z \in Nat : 0 = z - z
      OBVIOUS
    <3> QED BY <1>1, <1>2, <3>1, Zenon
  <2>5. \A k \in DOMAIN s :
          LET h == s[k] IN
          /\ h.says = IpSays(h.v, After(h) + upto[k-1])
          /\ h.kind = "vxlan" => h.udp = 16 + upto[k-1]
          /\ (h.flag_S <=> h.seq > 0)
    BY <2>1
  <2>6. q.layers = s /\ q.size = n
    BY <1>2 DEF s
  <2> QED BY <2>3, <2>4, <2>5, <2>6 DEF Lengths, upto
<1>6. Room(q)
  <2>1. -0 <= 74 * 0 /\ -0 <= 54 * 0
    OBVIOUS
  <2> QED BY <1>2, <1>4, <2>1 DEF Room
<1>7. /\ "sf_action_main" \in Nodes /\ "sf_action_main" \notin EncapNames
      /\ "sf_action_main" # Balance
  BY DEF Nodes, EncapNames, Balance
<1> QED BY <1>2, <1>3, <1>5, <1>6, <1>7 DEF PktAt, Pkt, q

\* The frames workers have at first.
LEMMA FramesAtFirst ==
  ASSUME NEW a, NEW v, NEW s \in Seq(Received)
  PROVE  Frames(a, v, IF s = <<>> THEN <<>>
                      ELSE <<[node |-> "sf_action_main", pkts |-> [i \in DOMAIN s |-> Fresh(s[i])]]>>)
<1> DEFINE t == [i \in DOMAIN s |-> Fresh(s[i])]
           P == {Fresh(p) : p \in Received}
           f == [node |-> "sf_action_main", pkts |-> t]
           F == FramesOf(P)
<1>1. \A i \in DOMAIN s : s[i] \in Received
  OBVIOUS
<1>2. \A i \in DOMAIN s : t[i] \in P /\ PktAt(a, v, "sf_action_main", t[i])
  BY <1>1, FreshAt
<1>3. t \in Seq(P) /\ DOMAIN t = DOMAIN s
  <2>1. Len(s) \in Nat /\ DOMAIN s = 1..Len(s)
    OBVIOUS
  <2> DEFINE n == Len(s)
  <2>2. n \in Nat /\ DOMAIN t = 1..n /\ \A i \in 1..n : t[i] \in P
    BY <1>2, <2>1
  <2>3. t = [i \in 1..n |-> t[i]]
    BY <2>1
  <2> HIDE DEF t, P, n
  <2> QED BY <2>1, <2>2, <2>3 DEF n
<1>4. CASE s = <<>>
  <2>1. <<>> \in Seq(F) /\ DOMAIN <<>> = {}
    <3> HIDE DEF F
    <3> QED OBVIOUS
  <2> DEFINE e == <<>>
  <2>2. e \in Seq(FramesOf(P)) /\ \A j \in DOMAIN e : FrameOk(a, v, e[j])
    BY <2>1
  <2> HIDE DEF e, P
  <2>3. Frames(a, v, e)
    BY <2>2, FramesAre
  <2> QED BY <1>4, <2>3 DEF e
<1>5. CASE s # <<>>
  <2>1. t # <<>>
    <3>1. 1 \in DOMAIN s
      BY <1>5
    <3>2. DOMAIN <<>> = {}
      OBVIOUS
    <3> HIDE DEF t
    <3> QED BY <1>3, <3>1, <3>2
  <2>2. f.node = "sf_action_main" /\ f.pkts = t
    OBVIOUS
  <2>3. f \in F
    <3>1. "sf_action_main" \in Nodes
      BY DEF Nodes
    <3> HIDE DEF t, P
    <3> QED BY <1>3, <3>1 DEF FramesOf
  <2> HIDE DEF t, P, f, F
  <2>4. FrameOk(a, v, f)
    BY <1>2, <1>3, <2>1, <2>2 DEF FrameOk
  <2> DEFINE e == <<f>>
  <2>5. e \in Seq(F) /\ \A j \in DOMAIN e : e[j] = f
    BY <2>3
  <2> HIDE DEF e
  <2>6. Frames(a, v, e)
    BY <2>4, <2>5, FramesAre DEF F
  <2> QED BY <1>5, <2>6 DEF e, f, t
<1> QED BY <1>4, <1>5

\* The first states.
LEMMA InitInv ==
  ASSUME Init
  PROVE  Inv
<1>1. PICK s \in Scenarios :
        /\ act = [i \in Ids |-> ActionOf(s.conf[i])]
        /\ link = s.link /\ events = s.events
        /\ pend = [w \in Workers |->
             IF s.frames[w] = <<>> THEN <<>>
             ELSE <<[node |-> "sf_action_main",
                     pkts |-> [i \in DOMAIN s.frames[w] |-> Fresh(s.frames[w][i])]]>>]
  BY DEF Init
<1>2. /\ \A i \in Ids : s.conf[i] # <<>> =>
           /\ IsDict(s.conf[i]) /\ trans_dict_to_action_struct(s.conf[i]).st = "ok"
           /\ ~CutWeights(trans_dict_to_action_struct(s.conf[i]).a)
      /\ \A w \in Workers : s.frames[w] \in Seq(Received)
      /\ \A r \in s.events : IsRequest(r)
  BY ScenariosAssumption
<1>3. /\ realnum = [i \in Ids |-> 0] /\ gre_option = 1 /\ run = [w \in Workers |-> Idle]
      /\ rest = NoRequest /\ ver = [i \in Ids |-> 1] /\ done = {}
  BY DEF Init
<1>4. ASSUME NEW i \in Ids
      PROVE  /\ act[i] \in Action
             /\ act[i].ref > 0 => Shape(Base(act[i])) /\ Weighted(act[i])
  <2> DEFINE d == s.conf[i]
             b == trans_dict_to_action_struct(d).a
  <2>1. act[i] = IF d = <<>> THEN Zero ELSE Stored(b)
    BY <1>1 DEF ActionOf
  <2>2. CASE d = <<>>
    <3>1. Zero \in Action /\ Zero.ref = 0
      BY ZeroType DEF Zero
    <3>2. ~(Zero.ref > 0)
      BY <3>1
    <3> QED BY <2>1, <2>2, <3>1, <3>2
  <2>3. CASE d # <<>>
    <3>1. Shape(b) /\ ~CutWeights(b)
      BY <1>2, <2>3, TransShape
    <3> HIDE DEF b
    <3>2. Stored(b) \in Action /\ Base(Stored(b)) = b /\ Weighted(Stored(b))
      BY <3>1, StoredUsable
    <3> QED BY <2>1, <2>3, <3>1, <3>2
  <2> QED BY <2>2, <2>3
<1>5. ActInv
  <2>1. act = [i \in Ids |-> act[i]]
    BY <1>1
  <2>2. act \in [Ids -> Action]
    BY <1>4, <2>1
  <2> QED BY <1>4, <2>2 DEF ActInv
<1>6. RestInv
  BY <1>3, NoRequestIs DEF RestInv, PutPcs, DeletePcs, Copies
<1>7. /\ realnum \in [Ids -> Nat] /\ ver \in [Ids -> Nat \ {0}] /\ gre_option \in Nat \ {0}
      /\ DOMAIN run = Workers /\ DOMAIN pend = Workers
  BY <1>1, <1>3
<1>8. ASSUME NEW w \in Workers
      PROVE  Frames(act, ver, pend[w]) /\ IsRun(run[w]) /\ RunAt(act, ver, run[w], pend[w])
  <2> DEFINE t == s.frames[w]
  <2>1. pend[w] = IF t = <<>> THEN <<>>
                  ELSE <<[node |-> "sf_action_main", pkts |-> [i \in DOMAIN t |-> Fresh(t[i])]]>>
    BY <1>1
  <2>2. t \in Seq(Received)
    BY <1>2
  <2> HIDE DEF t
  <2>3. Frames(act, ver, pend[w])
    BY <2>1, <2>2, FramesAtFirst
  <2>4. run[w] = Idle
    BY <1>3
  <2>5. IsRun(run[w]) /\ run[w].pc = "idle"
    BY <2>4, IdleRun
  <2> QED BY <2>3, <2>5 DEF RunAt
<1>9. (\A p \in done : PktDone(act, ver, p)) /\ \A r \in events : IsRequest(r)
  BY <1>1, <1>2, <1>3
<1> QED BY <1>5, <1>6, <1>7, <1>8, <1>9 DEF Inv

-----------------------------------------------------------------------------
(* The properties.                                                         *)

\* What workers may use was accepted.
LEMMA UsableShape ==
  ASSUME ActInv, NEW i \in Ids, act[i].ref > 0, ~Torn(i)
  PROVE  LET b == Base(act[i])
         IN  /\ Shape(b) /\ Weighted(act[i]) /\ act[i] \in Action /\ act[i].ref = 1
             /\ b.type = act[i].type /\ b.fwd = act[i].fwd /\ b.num = act[i].num
             /\ b.arr = act[i].arr /\ b.switch = act[i].switch /\ b.addi = act[i].addi
             /\ b.mode = act[i].mode /\ b.weight = act[i].weight
<1>1. act[i] \in Action /\ Shape(Base(act[i])) /\ Weighted(act[i])
  BY DEF ActInv
<1>2. act[i].ref = 1
  <2>1. act[i].ref \in 0..1
    BY <1>1 DEF Action
  <2> QED BY <2>1
<1> QED BY <1>1, <1>2, BaseIs

\* UsableIsValid, of one action.
LEMMA UsableValid ==
  ASSUME Inv
  PROVE  UsableIsValid
<1> SUFFICES ASSUME NEW i \in Ids, act[i].ref > 0, ~Torn(i)
             PROVE  LET a == act[i] IN
                    /\ a.type = "forward" => a.fwd \in Interfaces
                    /\ a.type = "load_balance" => /\ a.num > 0 /\ a.mode \in Modes
                                                  /\ \A k \in 1..a.num : a.arr[k] \in Interfaces
                    /\ a.mode = "wrr" /\ ~CutWeights(a) =>
                                         /\ a.gcd > 0
                                         /\ \A k \in 1..a.num : a.weight[k] % a.gcd = 0
                                         /\ a.mw = Max({a.weight[k] : k \in 1..a.num})
                    /\ \A e \in a.switch : a.addi[e].dip \in {4, 6}
  BY DEF UsableIsValid
<1> DEFINE a == act[i]
           b == Base(a)
<1>0. ActInv
  BY DEF Inv
<1>1. /\ Shape(b) /\ Weighted(a) /\ a \in Action
      /\ b.type = a.type /\ b.fwd = a.fwd /\ b.num = a.num /\ b.arr = a.arr
      /\ b.mode = a.mode /\ b.weight = a.weight
  BY <1>0, UsableShape
<1>2. \A e \in a.switch : a.addi[e].dip \in {4, 6}
  <2>1. a \in Action /\ Whole(a)
    BY <1>0, UsableShape DEF Whole
  <2> HIDE DEF a
  <2> QED BY <2>1, SwitchedOn
<1> HIDE DEF a, b
<1>3. a.type = "forward" => a.fwd \in Interfaces
  BY <1>1 DEF Shape
<1>4. a.num \in 0..MAX_INTERFACE_CNT
  BY <1>1 DEF Action
<1>5. \A k \in 1..a.num : k \in Slots /\ k <= a.num
  <2> DEFINE n == a.num
             M == MAX_INTERFACE_CNT
  <2>1. M \in Nat /\ n \in 0..M
    BY <1>4, SizesAssumption
  <2> HIDE DEF n, M
  <2>2. \A k \in 1..n : k \in 1..M /\ k <= n
    BY <2>1
  <2> QED BY <2>2 DEF n, M, Slots
<1>6. a.type = "load_balance" => a.num > 0 /\ a.mode \in Modes
  BY <1>1 DEF Shape
<1>7. \A k \in 1..a.num : a.arr[k] \in Interfaces
  BY <1>1, <1>5 DEF Shape
<1>8. ASSUME a.mode = "wrr", ~CutWeights(a)
      PROVE  /\ a.gcd > 0
             /\ \A k \in 1..a.num : a.weight[k] % a.gcd = 0
             /\ a.mw = Max({a.weight[k] : k \in 1..a.num})
  <2> DEFINE w == a.weight
             n == a.num
  <2>1. n \in Nat /\ n > 0 /\ \A k \in 1..n : w[k] \in Nat /\ w[k] > 0
    <3>1. b.mode = "wrr" /\ ~CutWeights(b)
      BY <1>1, <1>8 DEF CutWeights
    <3> QED BY <1>1, <3>1, ShapeWeights
  <2>2. a.gcd = weight_calc_max(w, n).gcd /\ a.mw = weight_calc_max(w, n).mw
    BY <1>1, <1>8 DEF Weighted
  <2> HIDE DEF w, n
  <2>3. LET g == weight_calc_max(w, n).gcd
        IN  g \in Nat /\ g > 0 /\ \A k \in 1..n : w[k] % g = 0
    BY <2>1, WeightsDivided
  <2>4. weight_calc_max(w, n).mw = Max({w[k] : k \in 1..n})
    BY DEF weight_calc_max
  <2> QED BY <2>1, <2>2, <2>3, <2>4 DEF w, n
<1> QED BY <1>2, <1>3, <1>6, <1>7, <1>8 DEF a

\* What GET says of an action says nothing of its turn.
LEMMA ReadBase ==
  ASSUME NEW a, NEW b, b.type = a.type, b.fwd = a.fwd, b.num = a.num, b.arr = a.arr,
         b.switch = a.switch, b.addi = a.addi, b.mode = a.mode, b.weight = a.weight
  PROVE  get_single_action_content(b) = get_single_action_content(a)
<1>1. format_action_basic_action(b) = format_action_basic_action(a)
  BY DEF format_action_basic_action
<1>2. format_action_addi_action(b) = format_action_addi_action(a)
  BY DEF format_action_addi_action
<1> QED BY <1>1, <1>2 DEF get_single_action_content

\* ReadIsWritten.
LEMMA ReadWritten ==
  ASSUME Inv
  PROVE  ReadIsWritten
<1> SUFFICES ASSUME NEW i \in Ids, act[i].ref > 0, ~Torn(i), ~CutWeights(act[i])
             PROVE  LET t == trans_dict_to_action_struct(get_single_action_content(act[i]))
                    IN  t.st = "ok" /\ Stored(t.a) = [act[i] EXCEPT !.cw = 0, !.index = 0]
  BY DEF ReadIsWritten
<1> DEFINE a == act[i]
           b == Base(a)
           t == trans_dict_to_action_struct(get_single_action_content(a))
           c == Stored(b)
           z == 0
           e == [a EXCEPT !.cw = z]
           f == [e EXCEPT !.index = z]
<1>0. ActInv
  BY DEF Inv
<1>1. /\ Shape(b) /\ Weighted(a) /\ a \in Action /\ a.ref = 1
      /\ b.type = a.type /\ b.fwd = a.fwd /\ b.num = a.num
      /\ b.arr = a.arr /\ b.switch = a.switch /\ b.addi = a.addi
      /\ b.mode = a.mode /\ b.weight = a.weight
  BY <1>0, UsableShape
<1>11. ~CutWeights(a)
  OBVIOUS
<1> HIDE DEF a, b
<1>12. ~CutWeights(b)
  BY <1>1, <1>11 DEF CutWeights
<1>2. t = Good(b)
  <2>1. get_single_action_content(b) = get_single_action_content(a)
    BY <1>1, ReadBase
  <2>2. trans_dict_to_action_struct(get_single_action_content(b)) = Good(b)
    BY <1>1, <1>12, ReadBack
  <2> QED BY <2>1, <2>2
<1> HIDE DEF t
<1>3. t.st = "ok" /\ t.a = b
  BY <1>2 DEF Good
<1>4. /\ c \in Action /\ c.ref = 1 /\ c.type = b.type /\ c.fwd = b.fwd /\ c.num = b.num
      /\ c.arr = b.arr /\ c.switch = b.switch /\ c.addi = b.addi /\ c.mode = b.mode
      /\ c.cw = 0 /\ c.index = 0 /\ c.weight = b.weight /\ Weighted(c)
  BY <1>1, <1>12, StoredIs
<1> HIDE DEF c
<1>5. c.gcd = a.gcd /\ c.mw = a.mw
  <2>1. ~CutWeights(c)
    BY <1>4, <1>12 DEF CutWeights
  <2> QED BY <1>1, <1>4, <1>11, <2>1 DEF Weighted
<1>6. z \in Nat /\ z \in Int
  OBVIOUS
<1>7. [a EXCEPT !.cw = 0, !.index = 0] = f
  OBVIOUS
<1> HIDE DEF z
<1>8. /\ e \in Action /\ e.ref = a.ref /\ e.type = a.type /\ e.fwd = a.fwd /\ e.num = a.num
      /\ e.arr = a.arr /\ e.switch = a.switch /\ e.addi = a.addi /\ e.mode = a.mode
      /\ e.cw = z /\ e.gcd = a.gcd /\ e.mw = a.mw /\ e.weight = a.weight
  BY <1>1, <1>6 DEF Action
<1> HIDE DEF e
<1>9. /\ f \in Action /\ f.ref = e.ref /\ f.type = e.type /\ f.fwd = e.fwd /\ f.num = e.num
      /\ f.arr = e.arr /\ f.switch = e.switch /\ f.addi = e.addi /\ f.mode = e.mode
      /\ f.cw = e.cw /\ f.gcd = e.gcd /\ f.mw = e.mw /\ f.index = z /\ f.weight = e.weight
  BY <1>6, <1>8 DEF Action
<1> HIDE DEF f
<1>10. c = f
  BY <1>1, <1>4, <1>5, <1>8, <1>9, ActionEq DEF z
<1> QED BY <1>3, <1>7, <1>10 DEF a, t, c

\* TypeOK.
LEMMA TypesOk ==
  ASSUME Inv
  PROVE  TypeOK
<1>1. ASSUME NEW i \in Ids
      PROVE  /\ act[i].ref \in 0..1 /\ act[i].num \in 0..MAX_INTERFACE_CNT
             /\ act[i].type \in {"", "drop", "forward", "load_balance"}
             /\ act[i].mode \in Modes \cup {""}
             /\ realnum[i] \in Nat
  <2>1. act[i] \in Action /\ realnum[i] \in Nat
    BY DEF Inv, ActInv
  <2> QED BY <2>1 DEF Action
<1>2. ASSUME NEW w \in Workers PROVE run[w].tries < MAX_LOAD_BALANCE_NODE
  <2>1. run[w].tries \in 0..(MAX_LOAD_BALANCE_NODE - 1)
    BY DEF Inv, IsRun
  <2>2. \A m \in Nat : \A x \in 0..(m - 1) : x < m
    OBVIOUS
  <2>3. MAX_LOAD_BALANCE_NODE \in Nat
    BY SizesAssumption
  <2> QED BY <2>1, <2>2, <2>3, Zenon
<1>3. \A p \in done : p.node \in FinalNodes
  BY DEF Inv, PktDone
<1> QED BY <1>1, <1>2, <1>3 DEF TypeOK

\* LeavesAsConfigured.
LEMMA LeavesOk ==
  ASSUME Inv
  PROVE  LeavesAsConfigured
<1> SUFFICES ASSUME NEW p \in done, p.act \in Ids => p.ver = ver[p.act], p.node # Wild
             PROVE  LET a == get_action(p.arg)
                        kinds == [k \in DOMAIN p.layers |-> p.layers[k].kind]
                    IN IF a.ref = 0 \/ a.type = "drop" THEN p.node = Drop /\ p.layers = <<>>
                       ELSE /\ kinds = Order(a.switch)
                            /\ a.type = "forward" => p.node = Out /\ p.out = a.fwd
                            /\ a.mode \in {"round_robin", "wrr"} /\ p.node = Out =>
                                 \E k \in 1..a.num : p.out = a.arr[k]
  BY DEF LeavesAsConfigured
<1>1. PktDone(act, ver, p)
  BY DEF Inv
<1>2. p.act = p.arg /\ Left(act, ver, p)
  BY <1>1 DEF PktDone
<1>3. CASE p.act \in Ids
  <2>1. get_action(p.arg) = act[p.act] /\ Match(ver, p)
    BY <1>2, <1>3 DEF get_action, is_valid_action_id, Match
  <2>2. LET c == act[p.act]
        IN IF c.ref = 0 \/ c.type = "drop" THEN p.node = Drop /\ p.layers = <<>>
           ELSE /\ Kinds(p) = Order(c.switch)
                /\ c.type = "forward" => p.node = Out /\ p.out = c.fwd
                /\ c.mode \in {"round_robin", "wrr"} /\ p.node = Out =>
                     \E k \in 1..c.num : p.out = c.arr[k]
    BY <1>2, <1>3, <2>1 DEF Left
  <2> QED BY <2>1, <2>2 DEF Kinds
<1>4. CASE p.act \notin Ids
  <2>1. get_action(p.arg) = Zero /\ Zero.ref = 0
    BY <1>2, <1>4 DEF get_action, is_valid_action_id, Zero
  <2>2. p.node = Drop /\ p.layers = <<>>
    BY <1>1, <1>4 DEF PktDone
  <2> QED BY <2>1, <2>2
<1> QED BY <1>3, <1>4

\* Every packet there is.
LEMMA PacketIs ==
  ASSUME Inv, NEW p \in Packets
  PROVE  Pkt(p) /\ (Len(p.layers) <= 2 => p.node # Wild)
<1>1. CASE p \in done
  BY <1>1 DEF Inv, PktDone
<1>2. CASE p \notin done
  <2> DEFINE OfJob(w, j) == Range(pend[w][j].pkts)
             OfWorker(w) == UNION {OfJob(w, j) : j \in DOMAIN pend[w]}
  <2> DEFINE Waiting == UNION {OfWorker(w) : w \in Workers}
  <2>z. Packets = Waiting \cup done
    BY DEF Packets
  <2>a. p \in Waiting
    <3> HIDE DEF Waiting
    <3> QED BY <2>z, <1>2, Zenon
  <2>b. PICK w \in Workers : p \in OfWorker(w)
    <3> HIDE DEF OfWorker
    <3> QED BY <2>a, Zenon
  <2>1. \E j \in DOMAIN pend[w] : p \in OfJob(w, j)
    <3> HIDE DEF OfJob
    <3> QED BY <2>b, Zenon DEF OfWorker
  <2>2. PICK j \in DOMAIN pend[w] : p \in Range(pend[w][j].pkts)
    BY <2>1
  <2>3. PICK k \in DOMAIN pend[w][j].pkts : p = pend[w][j].pkts[k]
    BY <2>2 DEF Range
  <2>4. Frames(act, ver, pend[w])
    BY DEF Inv
  <2>5. PktAt(act, ver, pend[w][j].node, p)
    BY <2>3, <2>4 DEF Frames
  <2>6. Pkt(p) /\ p.node = ""
    BY <2>5 DEF PktAt
  <2> QED BY <2>6 DEF Wild
<1> QED BY <1>1, <1>2

\* TunnelsWellFormed.
LEMMA TunnelsOk ==
  ASSUME Inv
  PROVE  TunnelsWellFormed
<1> SUFFICES ASSUME NEW p \in Packets
             PROVE  LET upto == Sizes(p.layers, p.size)
                    IN /\ p.len = upto[Len(p.layers)] /\ p.cur = p.size - p.len
                       /\ \A k \in DOMAIN p.layers :
                            LET h == p.layers[k] IN
                            /\ h.says = IpSays(h.v, After(h) + upto[k-1])
                            /\ h.kind = "vxlan" => h.udp = 16 + upto[k-1]
                            /\ h.flag_S = (h.seq > 0)
  BY DEF TunnelsWellFormed
<1> DEFINE upto == Sizes(p.layers, p.size)
<1>1. Lengths(p) /\ p.layers \in Seq(Header)
  BY PacketIs DEF Pkt, IsPkt
<1>2. /\ p.len = upto[Len(p.layers)] /\ p.cur = p.size - p.len
      /\ \A k \in DOMAIN p.layers :
           LET h == p.layers[k] IN
           /\ h.says = IpSays(h.v, After(h) + upto[k-1])
           /\ h.kind = "vxlan" => h.udp = 16 + upto[k-1]
           /\ (h.flag_S <=> h.seq > 0)
  BY <1>1 DEF Lengths
<1> HIDE DEF upto
<1>3. ASSUME NEW k \in DOMAIN p.layers
      PROVE  p.layers[k].flag_S = (p.layers[k].seq > 0)
  <2> DEFINE h == p.layers[k]
             x == h.flag_S
             y == h.seq > 0
  <2>1. h \in Header
    BY <1>1
  <2>2. x \in BOOLEAN
    BY <2>1 DEF Header
  <2>3. x <=> y
    BY <1>2
  <2>4. y \in BOOLEAN
    OBVIOUS
  <2> HIDE DEF x, y
  <2>5. x = y
    BY <2>2, <2>3, <2>4, Zenon
  <2> QED BY <2>5 DEF x, y
<1> QED BY <1>2, <1>3 DEF upto

\* HeadersFit.
LEMMA HeadersOk ==
  ASSUME Inv
  PROVE  HeadersFit
<1> SUFFICES ASSUME NEW p \in Packets
             PROVE  LET n == Len(p.layers)
                    IN /\ n <= 2 => p.node # Wild
                       /\ (n = 1 \/ (n = 2 /\ \A k \in 1..n : p.layers[k].v = 4)) =>
                            p.cur >= -PRE_DATA_SIZE
  BY DEF HeadersFit
<1>1. /\ Room(p) /\ p.cur \in Int /\ p.layers \in Seq(Header)
      /\ Len(p.layers) <= 2 => p.node # Wild
  BY PacketIs DEF Pkt, IsPkt
<1> DEFINE n == Len(p.layers)
           x == p.cur
<1>2. n \in Nat /\ DOMAIN p.layers = 1..n
  BY <1>1
<1>3. -x <= 74 * n /\ ((\A k \in 1..n : p.layers[k].v = 4) => -x <= 54 * n) /\ x \in Int
  BY <1>1, <1>2 DEF Room
<1> HIDE DEF n, x
<1>4. CASE n = 1
  <2>1. x >= -128
    BY <1>3, <1>4
  <2> QED BY <1>1, <2>1 DEF PRE_DATA_SIZE, n, x
<1>5. CASE n = 2 /\ \A k \in 1..n : p.layers[k].v = 4
  <2>1. -x <= 54 * n
    BY <1>3, <1>5
  <2>2. x >= -128
    BY <1>3, <1>5, <2>1
  <2> QED BY <1>1, <2>2 DEF PRE_DATA_SIZE, n, x
<1> QED BY <1>1, <1>4, <1>5 DEF n, x

-----------------------------------------------------------------------------
(* The theorems.                                                           *)

\* The invariant holds of the first states and is kept by every step.
LEMMA NextInv ==
  ASSUME Inv, [Next]_vars
  PROVE  Inv'
<1>1. CASE Next
  BY <1>1, WorkerInv, RestInvStep, FlipStep DEF Next
<1>2. CASE UNCHANGED vars
  <2>1. /\ act' = act /\ ver' = ver /\ realnum' = realnum /\ gre_option' = gre_option
        /\ pend' = pend /\ done' = done /\ run' = run /\ rest' = rest /\ events' = events
    BY <1>2 DEF vars
  <2>2. RestInv' /\ \A r \in events' : IsRequest(r)
    BY <2>1 DEF Inv, RestInv
  <2> QED BY <2>1, <2>2, QuietMoves
<1> QED BY <1>1, <1>2

\* Whatever restd is asked for, in whatever pieces memcpy and memset store and
\* however the stores interleave with workers, an action with a reference that is
\* not being copied is one restd accepts, with the divisor and the maximum of its
\* weights, and what GET, PATCH and the saved configuration read of it is what was
\* written (RequestsSound); the last two unless a C int cut a weight to 0 or less.
THEOREM RequestsAreSound == Spec => []RequestsSound
<1>1. Init => Inv
  BY InitInv
<1>2. Inv /\ [Next]_vars => Inv'
  BY NextInv
<1>3. Inv => RequestsSound
  BY TypesOk, UsableValid, ReadWritten DEF RequestsSound
<1> QED BY <1>1, <1>2, <1>3, PTL DEF Spec

\* A packet whose action was whole and stayed what it is leaves by the way the action says,
\* with its tunnels in order; the lengths in all headers are right; and the
\* headers of one tunnel, or of two towards IPv4, fit in front of the packet
\* (EncapSound).
THEOREM EncapIsSound == Spec => []EncapSound
<1>1. Init => Inv
  BY InitInv
<1>2. Inv /\ [Next]_vars => Inv'
  BY NextInv
<1>3. Inv => EncapSound
  BY LeavesOk, TunnelsOk, HeadersOk DEF EncapSound
<1> QED BY <1>1, <1>2, <1>3, PTL DEF Spec
=============================================================================
