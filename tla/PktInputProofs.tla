---------------------------- MODULE PktInputProofs ---------------------------
(***************************************************************************)
(* Proofs about what happens to a packet before the actions.               *)
(*                                                                         *)
(* The decoding nodes (PktDecode), for frames of any size and packets of   *)
(* any shape and length: first that the two loops of a node do to a packet *)
(* what decoding it by itself would do (StageInv), then, about one packet  *)
(* and no frame, where its window and its layers are.                      *)
(*                                                                         *)
(* The reassembly (IpReass), for any number of workers, fragments, nodes   *)
(* and timers, any key, offset and size of a fragment.                     *)
(***************************************************************************)
EXTENDS PktDecode, IpReass, FiniteSetTheorems, WellFoundedInduction, TLAPS

USE DEF IP_PRO_INVALID

-----------------------------------------------------------------------------
(* One packet: which node comes next                                       *)

\* The Ethernet node records no IP header.
LEMMA EthCounts ==
  ASSUME NEW p
  PROVE  AfterEth(p).w.ip_cnt = 0
BY DEF AfterEth, EthDecode, ParseEth, ParseVlan, UpdateVlan, Advance, RxWdata, To

\* The two loops of sf_ip6_input differ only where an IP header is recorded.
LEMMA Ip6Loops ==
  ASSUME NEW w, NEW p, w.ip_cnt = 0
  PROVE  Ip6DecodeTwo(w, p) = Ip6DecodeOne(w, p)
BY DEF Ip6DecodeTwo, Ip6DecodeOne, MAX_IP_WDATA

LEMMA ToParts ==
  ASSUME NEW w, NEW n
  PROVE  To(w, n).w = w /\ To(w, n).next = n
BY DEF To

LEMMA EthNode ==
  ASSUME NEW p
  PROVE  /\ AfterEth(p) = To(AfterEth(p).w, AfterEth(p).next)
         /\ AfterEth(p).next \in {"sf_ip4_input", "sf_ip6_input", "sf_acl_entry"}
BY DEF AfterEth, EthDecode, EthNext, To

LEMMA Ip4Node ==
  ASSUME NEW w, NEW p
  PROVE  /\ Ip4Decode(w, p) = To(Ip4Decode(w, p).w, Ip4Decode(w, p).next)
         /\ Ip4Decode(w, p).next \in
              {"sf_ip4_reass", "sf_tcp_input", "sf_udp_input", "sf_acl_entry"}
BY DEF Ip4Decode, Ip4Next, To

LEMMA Ip6Node ==
  ASSUME NEW w, NEW p
  PROVE  /\ Ip6DecodeOne(w, p) = To(Ip6DecodeOne(w, p).w, Ip6DecodeOne(w, p).next)
         /\ Ip6DecodeOne(w, p).next \in
              {"sf_ip6_reass", "sf_tcp_input", "sf_udp_input", "sf_acl_entry"}
BY DEF Ip6DecodeOne, RecordIp6, Ip6Next, To

LEMMA L4Node ==
  ASSUME NEW w, NEW p
  PROVE  /\ TcpDecode(w, p) = To(TcpDecode(w, p).w, "sf_acl_entry")
         /\ UdpDecode(w, p) = To(UdpDecode(w, p).w, "sf_acl_entry")
         /\ AclEntry(w, p) = To(AclEntry(w, p).w, "sf_action_main")
BY DEF TcpDecode, UdpDecode, AclEntry, To

\* A packet goes from its stage to the next one: from the IP nodes ...
LEMMA StageFromIp ==
  ASSUME NEW p, NEW r, AfterIp(p) = r, r = To(r.w, r.next),
         r.next \in {"sf_ip4_reass", "sf_ip6_reass", "sf_tcp_input",
                     "sf_udp_input", "sf_acl_entry"}
  PROVE  StageAt(r.next, p, r.w)
BY DEF StageAt, AfterL4, Decoded, Ends

\* ... and from the Ethernet node
LEMMA StageFromEth ==
  ASSUME NEW p
  PROVE  StageAt(AfterEth(p).next, p, AfterEth(p).w)
<1> DEFINE r == AfterEth(p)
<1>1. CASE r.next \in {"sf_ip4_input", "sf_ip6_input"}
  BY <1>1, EthNode DEF StageAt
<1>2. CASE r.next = "sf_acl_entry"
  <2>1. AfterIp(p) = r
    BY <1>2 DEF AfterIp
  <2> QED BY <1>2, <2>1, EthNode, StageFromIp
<1> QED BY <1>1, <1>2, EthNode

LEMMA StageEth ==
  ASSUME NEW p, NEW w, StageAt("sf_eth_input", p, w)
  PROVE  LET r == EthDecode(w, p) IN StageAt(r.next, p, r.w)
BY StageFromEth DEF StageAt, AfterEth, Ends

LEMMA StageIp4 ==
  ASSUME NEW p, NEW w, StageAt("sf_ip4_input", p, w)
  PROVE  LET r == Ip4Decode(w, p) IN StageAt(r.next, p, r.w)
<1>1. AfterEth(p) = To(w, "sf_ip4_input")
  BY DEF StageAt, Ends
<1>2. AfterIp(p) = Ip4Decode(w, p)
  BY <1>1, ToParts DEF AfterIp
<1> QED BY <1>2, Ip4Node, StageFromIp

LEMMA StageIp6 ==
  ASSUME NEW p, NEW w, StageAt("sf_ip6_input", p, w)
  PROVE  /\ LET r == Ip6DecodeOne(w, p) IN StageAt(r.next, p, r.w)
         /\ LET r == Ip6DecodeTwo(w, p) IN StageAt(r.next, p, r.w)
<1>1. AfterEth(p) = To(w, "sf_ip6_input")
  BY DEF StageAt, Ends
<1>2. AfterIp(p) = Ip6DecodeOne(w, p)
  BY <1>1, ToParts DEF AfterIp
<1>3. w.ip_cnt = 0
  BY <1>1, ToParts, EthCounts
<1> QED BY <1>2, <1>3, Ip6Node, Ip6Loops, StageFromIp

LEMMA StageL4 ==
  ASSUME NEW p, NEW w
  PROVE  /\ StageAt("sf_tcp_input", p, w) =>
              LET r == TcpDecode(w, p) IN StageAt(r.next, p, r.w)
         /\ StageAt("sf_udp_input", p, w) =>
              LET r == UdpDecode(w, p) IN StageAt(r.next, p, r.w)
<1>1. ASSUME StageAt("sf_tcp_input", p, w)
      PROVE  LET r == TcpDecode(w, p) IN StageAt(r.next, p, r.w)
  <2>1. AfterIp(p) = To(w, "sf_tcp_input")
    BY <1>1 DEF StageAt, Ends
  <2>2. AfterL4(p) = TcpDecode(w, p)
    BY <2>1, ToParts DEF AfterL4
  <2> QED BY <2>2, L4Node, ToParts DEF StageAt
<1>2. ASSUME StageAt("sf_udp_input", p, w)
      PROVE  LET r == UdpDecode(w, p) IN StageAt(r.next, p, r.w)
  <2>1. AfterIp(p) = To(w, "sf_udp_input")
    BY <1>2 DEF StageAt, Ends
  <2>2. AfterL4(p) = UdpDecode(w, p)
    BY <2>1, ToParts DEF AfterL4
  <2> QED BY <2>2, L4Node, ToParts DEF StageAt
<1> QED BY <1>1, <1>2

LEMMA StageAcl ==
  ASSUME NEW p, NEW w, StageAt("sf_acl_entry", p, w)
  PROVE  LET r == AclEntry(w, p) IN StageAt(r.next, p, r.w)
<1>1. AfterL4(p) = To(w, "sf_acl_entry")
  BY DEF StageAt, Ends
<1>2. Decoded(p) = AclEntry(w, p)
  BY <1>1, ToParts DEF Decoded
<1> QED BY <1>2, L4Node, ToParts DEF StageAt, Ends

-----------------------------------------------------------------------------
(* Frames: taking a packet from a frame and putting it into another.  The  *)
(* invariant is stated of values, so that the loop over two packets is two *)
(* such moves.                                                             *)

OnceIn(fr, q) ==
  /\ \A n, m \in Nodes : \A i \in DOMAIN q[n], j \in DOMAIN q[m] :
       q[n][i] = q[m][j] => n = m /\ i = j
  /\ \A i, j \in DOMAIN fr : fr[i] = fr[j] => i = j
  /\ \A n \in Nodes : \A i \in DOMAIN q[n], j \in DOMAIN fr : q[n][i] # fr[j]
  /\ \A b \in Buffer : \/ \E n \in Nodes : \E i \in DOMAIN q[n] : q[n][i] = b
                       \/ \E i \in DOMAIN fr : fr[i] = b

FramesTyped(w, fr, q) ==
  w = [b \in Buffer |-> w[b]] /\ fr \in Seq(Buffer) /\ q \in [Nodes -> Seq(Buffer)]

WaitStage(pk, w, q) ==
  \A n \in Nodes : \A i \in DOMAIN q[n] : StageAt(n, pk[q[n][i]], w[q[n][i]])

FromStage(pk, w, n, fr) == \A i \in DOMAIN fr : StageAt(n, pk[fr[i]], w[fr[i]])

InFrames(pk, w, n, fr, q) ==
  /\ FramesTyped(w, fr, q) /\ OnceIn(fr, q)
  /\ WaitStage(pk, w, q) /\ FromStage(pk, w, n, fr)

\* What a queue is after a packet was put into one of them
LEMMA EnqueueFact ==
  ASSUME NEW q \in [Nodes -> Seq(Buffer)], NEW b \in Buffer, NEW m \in Nodes
  PROVE  /\ Enqueue(q, b, m) \in [Nodes -> Seq(Buffer)]
         /\ \A n \in Nodes : n # m => Enqueue(q, b, m)[n] = q[n]
         /\ DOMAIN Enqueue(q, b, m)[m] = DOMAIN q[m] \cup {Len(q[m]) + 1}
         /\ Len(q[m]) + 1 \notin DOMAIN q[m]
         /\ \A i \in DOMAIN q[m] : Enqueue(q, b, m)[m][i] = q[m][i]
         /\ Enqueue(q, b, m)[m][Len(q[m]) + 1] = b
BY DEF Enqueue

LEMMA TailFact ==
  ASSUME NEW fr \in Seq(Buffer), fr # <<>>
  PROVE  /\ fr[1] \in Buffer /\ 1 \in DOMAIN fr
         /\ Tail(fr) \in Seq(Buffer)
         /\ \A i \in DOMAIN Tail(fr) : i + 1 \in DOMAIN fr /\ i + 1 # 1
                                      /\ Tail(fr)[i] = fr[i+1]
         /\ \A i \in DOMAIN fr : i # 1 =>
              i - 1 \in DOMAIN Tail(fr) /\ Tail(fr)[i-1] = fr[i]
BY FrameAssumption DEF Buffer

LEMMA MoveOnce ==
  ASSUME NEW fr \in Seq(Buffer), NEW q \in [Nodes -> Seq(Buffer)], OnceIn(fr, q),
         fr # <<>>, NEW m \in Nodes
  PROVE  OnceIn(Tail(fr), Enqueue(q, fr[1], m))
<1> DEFINE b == fr[1]
           g == Tail(fr)
           e == Enqueue(q, b, m)
           k == Len(q[m]) + 1
<1>1. b \in Buffer /\ 1 \in DOMAIN fr
  BY TailFact
<1>2. /\ \A n \in Nodes : n # m => e[n] = q[n]
      /\ DOMAIN e[m] = DOMAIN q[m] \cup {k} /\ k \notin DOMAIN q[m]
      /\ \A i \in DOMAIN q[m] : e[m][i] = q[m][i]
      /\ e[m][k] = b
  BY <1>1 DEF Enqueue
<1>3. /\ \A i \in DOMAIN g : i + 1 \in DOMAIN fr /\ i + 1 # 1 /\ g[i] = fr[i+1]
      /\ \A i \in DOMAIN fr : i # 1 => i - 1 \in DOMAIN g /\ g[i-1] = fr[i]
      /\ DOMAIN g \subseteq Nat
  BY TailFact
<1>4. /\ \A n \in Nodes : \A i \in DOMAIN q[n] : q[n][i] # b
      /\ \A i \in DOMAIN g : g[i] # b
  BY <1>1, <1>3 DEF OnceIn
<1>5. \A n \in Nodes : \A i \in DOMAIN e[n] :
         \/ i \in DOMAIN q[n] /\ e[n][i] = q[n][i]
         \/ n = m /\ i = k /\ e[n][i] = b
  BY <1>2
<1> HIDE DEF b, g, e, k
<1>6. ASSUME NEW n \in Nodes, NEW l \in Nodes, NEW i \in DOMAIN e[n],
             NEW j \in DOMAIN e[l], e[n][i] = e[l][j]
      PROVE  n = l /\ i = j
  <2>1. CASE i \in DOMAIN q[n] /\ e[n][i] = q[n][i]
    BY <2>1, <1>6, <1>5, <1>4 DEF OnceIn
  <2>2. CASE n = m /\ i = k /\ e[n][i] = b
    BY <2>2, <1>6, <1>5, <1>4
  <2> QED BY <2>1, <2>2, <1>5
<1>7. ASSUME NEW i \in DOMAIN g, NEW j \in DOMAIN g, g[i] = g[j]
      PROVE  i = j
  <2>1. fr[i+1] = fr[j+1] /\ i + 1 \in DOMAIN fr /\ j + 1 \in DOMAIN fr
    BY <1>7, <1>3
  <2>2. i + 1 = j + 1
    BY <2>1 DEF OnceIn
  <2> QED BY <2>2, <1>3
<1>8. ASSUME NEW n \in Nodes, NEW i \in DOMAIN e[n], NEW j \in DOMAIN g
      PROVE  e[n][i] # g[j]
  <2>1. CASE i \in DOMAIN q[n] /\ e[n][i] = q[n][i]
    BY <2>1, <1>3 DEF OnceIn
  <2>2. CASE e[n][i] = b
    BY <2>2, <1>4
  <2> QED BY <2>1, <2>2, <1>5
<1>9. ASSUME NEW c \in Buffer
      PROVE  \/ \E n \in Nodes : \E i \in DOMAIN e[n] : e[n][i] = c
             \/ \E i \in DOMAIN g : g[i] = c
  <2>1. CASE c = b
    BY <2>1, <1>2
  <2>2. ASSUME NEW n \in Nodes, NEW i \in DOMAIN q[n], q[n][i] = c
        PROVE  i \in DOMAIN e[n] /\ e[n][i] = c
    BY <2>2, <1>2
  <2>3. ASSUME NEW i \in DOMAIN fr, fr[i] = c, c # b
        PROVE  i - 1 \in DOMAIN g /\ g[i-1] = c
    BY <2>3, <1>3 DEF b
  <2> QED BY <2>1, <2>2, <2>3 DEF OnceIn
<1> QED BY <1>6, <1>7, <1>8, <1>9 DEF OnceIn, b, g, e

LEMMA Move ==
  ASSUME NEW pk, NEW w, NEW n, NEW fr, NEW q, InFrames(pk, w, n, fr, q),
         fr # <<>>, NEW m \in Nodes, NEW v, StageAt(m, pk[fr[1]], v)
  PROVE  InFrames(pk, [w EXCEPT ![fr[1]] = v], n, Tail(fr), Enqueue(q, fr[1], m))
<1> DEFINE b == fr[1]
           g == Tail(fr)
           e == Enqueue(q, b, m)
           x == [w EXCEPT ![b] = v]
<1>1. /\ fr \in Seq(Buffer) /\ q \in [Nodes -> Seq(Buffer)]
      /\ w = [c \in Buffer |-> w[c]] /\ DOMAIN w = Buffer
      /\ OnceIn(fr, q) /\ WaitStage(pk, w, q) /\ FromStage(pk, w, n, fr)
  BY DEF InFrames, FramesTyped
<1>2. /\ b \in Buffer /\ 1 \in DOMAIN fr /\ g \in Seq(Buffer)
      /\ \A i \in DOMAIN g : i + 1 \in DOMAIN fr /\ g[i] = fr[i+1]
  BY <1>1, TailFact
<1>3. e \in [Nodes -> Seq(Buffer)] /\ x = [c \in Buffer |-> x[c]]
  <2>1. e \in [Nodes -> Seq(Buffer)]
    BY <1>1, <1>2, EnqueueFact
  <2>2. x = [c \in Buffer |-> x[c]]
    BY <1>1, <1>2
  <2> QED BY <2>1, <2>2
<1>4. OnceIn(g, e)
  BY <1>1, MoveOnce
<1>5. x[b] = v /\ \A c \in Buffer : c # b => x[c] = w[c]
  BY <1>1, <1>2
<1>6. \A l \in Nodes : \A i \in DOMAIN e[l] :
         \/ i \in DOMAIN q[l] /\ e[l][i] = q[l][i]
         \/ l = m /\ e[l][i] = b
  BY <1>1, <1>2 DEF Enqueue
<1>7. \A l \in Nodes : \A i \in DOMAIN q[l] : q[l][i] # b /\ q[l][i] \in Buffer
  <2>1. \A l \in Nodes : \A i \in DOMAIN q[l] : q[l][i] # b
    BY <1>1, <1>2 DEF OnceIn
  <2> QED BY <2>1, <1>1
<1>8. WaitStage(pk, x, e)
  <2> SUFFICES ASSUME NEW l \in Nodes, NEW i \in DOMAIN e[l]
               PROVE  StageAt(l, pk[e[l][i]], x[e[l][i]])
    BY DEF WaitStage
  <2>1. CASE i \in DOMAIN q[l] /\ e[l][i] = q[l][i]
    <3>1. StageAt(l, pk[q[l][i]], w[q[l][i]])
      BY <2>1, <1>1 DEF WaitStage
    <3>2. x[q[l][i]] = w[q[l][i]]
      BY <2>1, <1>5, <1>7
    <3> HIDE DEF e, x
    <3> QED BY <2>1, <3>1, <3>2
  <2>2. CASE l = m /\ e[l][i] = b
    <3> HIDE DEF e, x
    <3> QED BY <2>2, <1>5
  <2> HIDE DEF e, x
  <2> QED BY <2>1, <2>2, <1>6
<1>9. FromStage(pk, x, n, g)
  <2> SUFFICES ASSUME NEW i \in DOMAIN g
               PROVE  StageAt(n, pk[g[i]], x[g[i]])
    BY DEF FromStage
  <2>1. i + 1 \in DOMAIN fr /\ g[i] = fr[i+1] /\ i \in Nat
    BY <1>2
  <2>2. g[i] # b /\ g[i] \in Buffer
    BY <2>1, <1>1, <1>2 DEF OnceIn
  <2>3. StageAt(n, pk[fr[i+1]], w[fr[i+1]])
    BY <2>1, <1>1 DEF FromStage
  <2>4. x[g[i]] = w[g[i]]
    BY <2>2, <1>5
  <2> HIDE DEF g, x
  <2> QED BY <2>1, <2>3, <2>4
<1> HIDE DEF b, g, e, x
<1>10. InFrames(pk, x, n, g, e)
  BY <1>2, <1>3, <1>4, <1>8, <1>9 DEF InFrames, FramesTyped
<1> QED BY <1>10 DEF b, g, e, x

\* The invariant of the module is that of the frames it keeps.
LEMMA InFramesNow ==
  ASSUME DecodeInv
  PROVE  InFrames(pkt, wd, running, from, pending)
BY DEF DecodeInv, FrameInv, EachBufferOnce, StageInv, InFrames, FramesTyped, OnceIn,
       WaitStage, FromStage, At

LEMMA InFramesNext ==
  ASSUME DecodeInv, UNCHANGED pkt, running' \in Decoders \cup {"idle"},
         running' = "idle" => from' = <<>>,
         InFrames(pkt, wd', running', from', pending')
  PROVE  DecodeInv'
<1>1. FrameInv'
  BY Zenon DEF DecodeInv, FrameInv, InFrames, FramesTyped
<1>2. EachBufferOnce'
  BY DEF InFrames, OnceIn, EachBufferOnce, At
<1>3. StageInv'
  BY DEF InFrames, WaitStage, FromStage, StageInv
<1> QED BY <1>1, <1>2, <1>3 DEF DecodeInv

\* The two loops, each with the results r, r0, r1 of the decoder
OneTo(n, r) ==
  /\ running = n /\ Len(from) \in 1..3
  /\ wd' = [wd EXCEPT ![from[1]] = r.w]
  /\ pending' = Enqueue(pending, from[1], r.next)
  /\ from' = Tail(from)
  /\ running' = IF Len(from) = 1 THEN "idle" ELSE n
  /\ UNCHANGED pkt

TwoTo(n, r0, r1) ==
  /\ running = n /\ Len(from) >= 4
  /\ wd' = [wd EXCEPT ![from[1]] = r0.w, ![from[2]] = r1.w]
  /\ pending' = Enqueue(Enqueue(pending, from[1], r0.next), from[2], r1.next)
  /\ from' = SubSeq(from, 3, Len(from))
  /\ UNCHANGED <<pkt, running>>

\* A packet of the frame of node n is at the stage of n.
LEMMA FromAt ==
  ASSUME DecodeInv, NEW i \in 1..Len(from)
  PROVE  StageAt(running, pkt[from[i]], wd[from[i]])
<1>1. from \in Seq(Buffer)
  BY Zenon DEF DecodeInv, FrameInv
<1> QED BY <1>1 DEF DecodeInv, StageInv

LEMMA OneStep ==
  ASSUME DecodeInv, NEW n \in Decoders, NEW r, OneTo(n, r), r.next \in Nodes,
         StageAt(r.next, pkt[from[1]], r.w)
  PROVE  DecodeInv'
<1>1. InFrames(pkt, wd, n, from, pending) /\ from \in Seq(Buffer) /\ from # <<>>
  BY InFramesNow DEF OneTo, DecodeInv, FrameInv
<1>2. InFrames(pkt, wd', n, from', pending')
  BY <1>1, Move DEF OneTo
<1>3. Len(from) = 1 => from' = <<>>
  BY <1>1 DEF OneTo
<1>4. InFrames(pkt, wd', running', from', pending')
  <2>1. CASE running' = n
    BY <2>1, <1>2
  <2>2. CASE Len(from) = 1
    <3>1. FromStage(pkt, wd', running', from')
      BY <2>2, <1>3 DEF FromStage
    <3> QED BY <3>1, <1>2 DEF InFrames
  <2> QED BY <2>1, <2>2 DEF OneTo
<1>5. running' \in Decoders \cup {"idle"} /\ (running' = "idle" => from' = <<>>)
  BY <1>3 DEF OneTo, Decoders
<1> QED BY <1>4, <1>5, InFramesNext DEF OneTo

LEMMA TwoStep ==
  ASSUME DecodeInv, NEW n \in Decoders, NEW r0, NEW r1, TwoTo(n, r0, r1),
         r0.next \in Nodes, StageAt(r0.next, pkt[from[1]], r0.w),
         r1.next \in Nodes, StageAt(r1.next, pkt[from[2]], r1.w)
  PROVE  DecodeInv'
<1> DEFINE x == [wd EXCEPT ![from[1]] = r0.w]
           e == Enqueue(pending, from[1], r0.next)
           g == Tail(from)
<1>1. /\ InFrames(pkt, wd, n, from, pending) /\ from \in Seq(Buffer)
      /\ Len(from) >= 4 /\ from # <<>>
  BY InFramesNow DEF TwoTo, DecodeInv, FrameInv
<1>2. InFrames(pkt, x, n, g, e)
  BY <1>1, Move
<1>3. g # <<>> /\ g[1] = from[2] /\ Tail(g) = SubSeq(from, 3, Len(from))
  <2>1. g \in Seq(Buffer) /\ Len(g) = Len(from) - 1
        /\ \A i \in 1..Len(g) : g[i] = from[i+1]
    BY <1>1
  <2> HIDE DEF g
  <2>2. g # <<>> /\ g[1] = from[2]
    <3>1. 1 \in 1..Len(g) /\ 1 + 1 = 2
      BY <1>1, <2>1
    <3>2. g[1] = from[1+1]
      BY <2>1, <3>1
    <3> QED BY <1>1, <2>1, <3>1, <3>2
  <2> DEFINE s == SubSeq(from, 3, Len(from))
             t == Tail(g)
             k == Len(from) - 2
  <2>3. /\ t \in Seq(Buffer) /\ Len(t) = k
        /\ \A i \in 1..k : t[i] = g[i+1]
    BY <1>1, <2>1
  <2>4. s \in Seq(Buffer) /\ Len(s) = k /\ \A i \in 1..k : s[i] = from[i+2]
    BY <1>1
  <2>5. \A i \in 1..k : t[i] = s[i]
    <3> SUFFICES ASSUME NEW i \in 1..k PROVE t[i] = s[i]
      OBVIOUS
    <3>1. t[i] = g[i+1] /\ s[i] = from[i+2]
      BY <2>3, <2>4
    <3>2. i + 1 \in 1..Len(g) /\ (i + 1) + 1 = i + 2
      BY <1>1, <2>1
    <3>3. g[i+1] = from[(i+1)+1]
      BY <2>1, <3>2
    <3> QED BY <3>1, <3>2, <3>3
  <2> HIDE DEF s, t, k
  <2>6. t = s
    BY <2>3, <2>4, <2>5
  <2> QED BY <2>2, <2>6 DEF s, t
<1>4. StageAt(r1.next, pkt[g[1]], r1.w)
  BY <1>3
<1> HIDE DEF x, e, g
<1>5. InFrames(pkt, [x EXCEPT ![g[1]] = r1.w], n, Tail(g), Enqueue(e, g[1], r1.next))
  BY <1>2, <1>3, <1>4, Move
<1>6. /\ wd' = [x EXCEPT ![g[1]] = r1.w] /\ from' = Tail(g)
      /\ pending' = Enqueue(e, g[1], r1.next) /\ running' = n /\ UNCHANGED pkt
  BY <1>3 DEF TwoTo, x, e
<1>7. InFrames(pkt, wd', running', from', pending')
  BY <1>5, <1>6
<1>8. running' \in Decoders \cup {"idle"} /\ (running' = "idle" => from' = <<>>)
  BY <1>6 DEF Decoders
<1> QED BY <1>6, <1>7, <1>8, InFramesNext

LEMMA DispatchStep ==
  ASSUME DecodeInv, NEW n \in Decoders, Dispatch(n)
  PROVE  DecodeInv'
<1> DEFINE e == [pending EXCEPT ![n] = <<>>]
<1>1. /\ InFrames(pkt, wd, "idle", <<>>, pending) /\ n \in Nodes
      /\ pending \in [Nodes -> Seq(Buffer)]
  BY InFramesNow DEF Dispatch, DecodeInv, FrameInv, Nodes
<1>2. /\ e \in [Nodes -> Seq(Buffer)] /\ e[n] = <<>>
      /\ \A m \in Nodes : m # n => e[m] = pending[m]
  BY <1>1
<1>3. \A m \in Nodes : \A i \in DOMAIN e[m] :
        m # n /\ i \in DOMAIN pending[m] /\ e[m][i] = pending[m][i]
  BY <1>2
<1>4. FramesTyped(wd, pending[n], e)
  BY <1>1, <1>2 DEF InFrames, FramesTyped
<1>5. OnceIn(pending[n], e)
  <2>1. \A m, l \in Nodes : \A i \in DOMAIN e[m], j \in DOMAIN e[l] :
          e[m][i] = e[l][j] => m = l /\ i = j
    BY <1>1, <1>3 DEF InFrames, OnceIn
  <2>2. \A i, j \in DOMAIN pending[n] : pending[n][i] = pending[n][j] => i = j
    BY <1>1 DEF InFrames, OnceIn
  <2>3. \A m \in Nodes : \A i \in DOMAIN e[m], j \in DOMAIN pending[n] :
          e[m][i] # pending[n][j]
    BY <1>1, <1>3 DEF InFrames, OnceIn
  <2>4. ASSUME NEW b \in Buffer
        PROVE  \/ \E m \in Nodes : \E i \in DOMAIN e[m] : e[m][i] = b
               \/ \E i \in DOMAIN pending[n] : pending[n][i] = b
    <3>1. PICK m \in Nodes : \E i \in DOMAIN pending[m] : pending[m][i] = b
      BY <1>1 DEF InFrames, OnceIn
    <3> QED BY <3>1, <1>2
  <2> HIDE DEF e
  <2> QED BY <2>1, <2>2, <2>3, <2>4 DEF OnceIn
<1>6. WaitStage(pkt, wd, e)
  BY <1>1, <1>3 DEF InFrames, WaitStage
<1>7. FromStage(pkt, wd, n, pending[n])
  BY <1>1 DEF InFrames, WaitStage, FromStage
<1>8. InFrames(pkt, wd, n, pending[n], e)
  BY <1>4, <1>5, <1>6, <1>7 DEF InFrames
<1>9. n # "idle"
  BY DEF Decoders
<1> QED BY <1>8, <1>9, InFramesNext DEF Dispatch

LEMMA StageNode ==
  ASSUME NEW n, NEW p, NEW w, StageAt(n, p, w)
  PROVE  n \in Nodes
BY DEF StageAt, Nodes, Decoders, Ends

\* A loop keeps the invariant if its decoder takes a packet to its next stage.
LEMMA OneAction ==
  ASSUME DecodeInv, NEW n \in Decoders, NEW r, OneTo(n, r),
         StageAt(n, pkt[from[1]], wd[from[1]]) => StageAt(r.next, pkt[from[1]], r.w)
  PROVE  DecodeInv'
<1>1. 1 \in 1..Len(from)
  BY DEF OneTo, DecodeInv, FrameInv
<1>2. StageAt(n, pkt[from[1]], wd[from[1]])
  BY <1>1, FromAt DEF OneTo
<1> QED BY <1>2, OneStep, StageNode

LEMMA TwoAction ==
  ASSUME DecodeInv, NEW n \in Decoders, NEW r0, NEW r1, TwoTo(n, r0, r1),
         StageAt(n, pkt[from[1]], wd[from[1]]) => StageAt(r0.next, pkt[from[1]], r0.w),
         StageAt(n, pkt[from[2]], wd[from[2]]) => StageAt(r1.next, pkt[from[2]], r1.w)
  PROVE  DecodeInv'
<1>1. 1 \in 1..Len(from) /\ 2 \in 1..Len(from)
  BY DEF TwoTo, DecodeInv, FrameInv
<1>2. /\ StageAt(n, pkt[from[1]], wd[from[1]])
      /\ StageAt(n, pkt[from[2]], wd[from[2]])
  BY <1>1, FromAt DEF TwoTo
<1> QED BY <1>2, TwoStep, StageNode

LEMMA StepInductive ==
  ASSUME DecodeInv, [DecodeNext]_decodeVars
  PROVE  DecodeInv'
<1>1. CASE EthOne \/ EthTwo
  <2>1. CASE EthOne
    <3> DEFINE r == EthDecode(wd[from[1]], pkt[from[1]])
    <3>1. OneTo("sf_eth_input", r)
      BY <2>1 DEF EthOne, One, OneTo
    <3>2. StageAt("sf_eth_input", pkt[from[1]], wd[from[1]]) =>
            StageAt(r.next, pkt[from[1]], r.w)
      BY StageEth
    <3> HIDE DEF r
    <3> QED BY <3>1, <3>2, OneAction DEF Decoders
  <2>2. CASE EthTwo
    <3> DEFINE r0 == EthDecode(wd[from[1]], pkt[from[1]])
               r1 == EthDecode(wd[from[2]], pkt[from[2]])
    <3>1. TwoTo("sf_eth_input", r0, r1)
      BY <2>2 DEF EthTwo, Two, TwoTo
    <3>2. StageAt("sf_eth_input", pkt[from[1]], wd[from[1]]) =>
            StageAt(r0.next, pkt[from[1]], r0.w)
      BY StageEth
    <3>3. StageAt("sf_eth_input", pkt[from[2]], wd[from[2]]) =>
            StageAt(r1.next, pkt[from[2]], r1.w)
      BY StageEth
    <3> HIDE DEF r0, r1
    <3> QED BY <3>1, <3>2, <3>3, TwoAction DEF Decoders
  <2> QED BY <1>1, <2>1, <2>2
<1>2. CASE Ip4One \/ Ip4Two
  <2>1. CASE Ip4One
    <3> DEFINE r == Ip4Decode(wd[from[1]], pkt[from[1]])
    <3>1. OneTo("sf_ip4_input", r)
      BY <2>1 DEF Ip4One, One, OneTo
    <3>2. StageAt("sf_ip4_input", pkt[from[1]], wd[from[1]]) =>
            StageAt(r.next, pkt[from[1]], r.w)
      BY StageIp4
    <3> HIDE DEF r
    <3> QED BY <3>1, <3>2, OneAction DEF Decoders
  <2>2. CASE Ip4Two
    <3> DEFINE r0 == Ip4Decode(wd[from[1]], pkt[from[1]])
               r1 == Ip4Decode(wd[from[2]], pkt[from[2]])
    <3>1. TwoTo("sf_ip4_input", r0, r1)
      BY <2>2 DEF Ip4Two, Two, TwoTo
    <3>2. StageAt("sf_ip4_input", pkt[from[1]], wd[from[1]]) =>
            StageAt(r0.next, pkt[from[1]], r0.w)
      BY StageIp4
    <3>3. StageAt("sf_ip4_input", pkt[from[2]], wd[from[2]]) =>
            StageAt(r1.next, pkt[from[2]], r1.w)
      BY StageIp4
    <3> HIDE DEF r0, r1
    <3> QED BY <3>1, <3>2, <3>3, TwoAction DEF Decoders
  <2> QED BY <1>2, <2>1, <2>2
<1>3. CASE Ip6One \/ Ip6Two
  <2>1. CASE Ip6One
    <3> DEFINE r == Ip6DecodeOne(wd[from[1]], pkt[from[1]])
    <3>1. OneTo("sf_ip6_input", r)
      BY <2>1 DEF Ip6One, One, OneTo
    <3>2. StageAt("sf_ip6_input", pkt[from[1]], wd[from[1]]) =>
            StageAt(r.next, pkt[from[1]], r.w)
      BY StageIp6
    <3> HIDE DEF r
    <3> QED BY <3>1, <3>2, OneAction DEF Decoders
  <2>2. CASE Ip6Two
    <3> DEFINE r0 == Ip6DecodeTwo(wd[from[1]], pkt[from[1]])
               r1 == Ip6DecodeTwo(wd[from[2]], pkt[from[2]])
    <3>1. TwoTo("sf_ip6_input", r0, r1)
      BY <2>2 DEF Ip6Two, Two, TwoTo
    <3>2. StageAt("sf_ip6_input", pkt[from[1]], wd[from[1]]) =>
            StageAt(r0.next, pkt[from[1]], r0.w)
      BY StageIp6
    <3>3. StageAt("sf_ip6_input", pkt[from[2]], wd[from[2]]) =>
            StageAt(r1.next, pkt[from[2]], r1.w)
      BY StageIp6
    <3> HIDE DEF r0, r1
    <3> QED BY <3>1, <3>2, <3>3, TwoAction DEF Decoders
  <2> QED BY <1>3, <2>1, <2>2
<1>4. CASE TcpOne \/ TcpTwo
  <2>1. CASE TcpOne
    <3> DEFINE r == TcpDecode(wd[from[1]], pkt[from[1]])
    <3>1. OneTo("sf_tcp_input", r)
      BY <2>1 DEF TcpOne, One, OneTo
    <3>2. StageAt("sf_tcp_input", pkt[from[1]], wd[from[1]]) =>
            StageAt(r.next, pkt[from[1]], r.w)
      BY StageL4
    <3> HIDE DEF r
    <3> QED BY <3>1, <3>2, OneAction DEF Decoders
  <2>2. CASE TcpTwo
    <3> DEFINE r0 == TcpDecode(wd[from[1]], pkt[from[1]])
               r1 == TcpDecode(wd[from[2]], pkt[from[2]])
    <3>1. TwoTo("sf_tcp_input", r0, r1)
      BY <2>2 DEF TcpTwo, Two, TwoTo
    <3>2. StageAt("sf_tcp_input", pkt[from[1]], wd[from[1]]) =>
            StageAt(r0.next, pkt[from[1]], r0.w)
      BY StageL4
    <3>3. StageAt("sf_tcp_input", pkt[from[2]], wd[from[2]]) =>
            StageAt(r1.next, pkt[from[2]], r1.w)
      BY StageL4
    <3> HIDE DEF r0, r1
    <3> QED BY <3>1, <3>2, <3>3, TwoAction DEF Decoders
  <2> QED BY <1>4, <2>1, <2>2
<1>5. CASE UdpOne \/ UdpTwo
  <2>1. CASE UdpOne
    <3> DEFINE r == UdpDecode(wd[from[1]], pkt[from[1]])
    <3>1. OneTo("sf_udp_input", r)
      BY <2>1 DEF UdpOne, One, OneTo
    <3>2. StageAt("sf_udp_input", pkt[from[1]], wd[from[1]]) =>
            StageAt(r.next, pkt[from[1]], r.w)
      BY StageL4
    <3> HIDE DEF r
    <3> QED BY <3>1, <3>2, OneAction DEF Decoders
  <2>2. CASE UdpTwo
    <3> DEFINE r0 == UdpDecode(wd[from[1]], pkt[from[1]])
               r1 == UdpDecode(wd[from[2]], pkt[from[2]])
    <3>1. TwoTo("sf_udp_input", r0, r1)
      BY <2>2 DEF UdpTwo, Two, TwoTo
    <3>2. StageAt("sf_udp_input", pkt[from[1]], wd[from[1]]) =>
            StageAt(r0.next, pkt[from[1]], r0.w)
      BY StageL4
    <3>3. StageAt("sf_udp_input", pkt[from[2]], wd[from[2]]) =>
            StageAt(r1.next, pkt[from[2]], r1.w)
      BY StageL4
    <3> HIDE DEF r0, r1
    <3> QED BY <3>1, <3>2, <3>3, TwoAction DEF Decoders
  <2> QED BY <1>5, <2>1, <2>2
<1>6. CASE AclOne \/ AclTwo
  <2>1. CASE AclOne
    <3> DEFINE r == AclEntry(wd[from[1]], pkt[from[1]])
    <3>1. OneTo("sf_acl_entry", r)
      BY <2>1 DEF AclOne, One, OneTo
    <3>2. StageAt("sf_acl_entry", pkt[from[1]], wd[from[1]]) =>
            StageAt(r.next, pkt[from[1]], r.w)
      BY StageAcl
    <3> HIDE DEF r
    <3> QED BY <3>1, <3>2, OneAction DEF Decoders
  <2>2. CASE AclTwo
    <3> DEFINE r0 == AclEntry(wd[from[1]], pkt[from[1]])
               r1 == AclEntry(wd[from[2]], pkt[from[2]])
    <3>1. TwoTo("sf_acl_entry", r0, r1)
      BY <2>2 DEF AclTwo, Two, TwoTo
    <3>2. StageAt("sf_acl_entry", pkt[from[1]], wd[from[1]]) =>
            StageAt(r0.next, pkt[from[1]], r0.w)
      BY StageAcl
    <3>3. StageAt("sf_acl_entry", pkt[from[2]], wd[from[2]]) =>
            StageAt(r1.next, pkt[from[2]], r1.w)
      BY StageAcl
    <3> HIDE DEF r0, r1
    <3> QED BY <3>1, <3>2, <3>3, TwoAction DEF Decoders
  <2> QED BY <1>6, <2>1, <2>2
<1>7. CASE \E n \in Decoders : Dispatch(n)
  BY <1>7, DispatchStep
<1>8. CASE UNCHANGED decodeVars
  <2>1. FrameInv'
    BY <1>8, Zenon DEF decodeVars, DecodeInv, FrameInv
  <2>2. EachBufferOnce'
    BY <1>8 DEF decodeVars, DecodeInv, EachBufferOnce, At
  <2>3. StageInv'
    BY <1>8 DEF decodeVars, DecodeInv, StageInv
  <2> QED BY <2>1, <2>2, <2>3 DEF DecodeInv
<1> QED BY <1>1, <1>2, <1>3, <1>4, <1>5, <1>6, <1>7, <1>8 DEF DecodeNext

LEMMA InitOk == DecodeInit => DecodeInv
<1> SUFFICES ASSUME DecodeInit PROVE DecodeInv
  OBVIOUS
<1>1. FrameInv
  <2>1. [b \in Buffer |-> b] \in Seq(Buffer)
    BY FrameAssumption DEF Buffer
  <2>2. pkt \in [Buffer -> Packet] /\ running \in Decoders \cup {"idle"}
    BY FrameAssumption DEF DecodeInit
  <2>3. wd = [b \in Buffer |-> wd[b]]
    BY DEF DecodeInit
  <2>4. pending \in [Nodes -> Seq(Buffer)] /\ from \in Seq(Buffer)
    BY <2>1 DEF DecodeInit
  <2> QED BY <2>2, <2>3, <2>4, Zenon DEF DecodeInit, FrameInv
<1>2. /\ \A n \in Nodes : \A i \in DOMAIN pending[n] :
           n = "sf_eth_input" /\ i \in Buffer /\ pending[n][i] = i
      /\ from = <<>>
  BY DEF DecodeInit
<1>3. EachBufferOnce
  <2>1. \A b \in Buffer : b \in DOMAIN pending["sf_eth_input"]
                          /\ pending["sf_eth_input"][b] = b
    BY DEF DecodeInit, Nodes, Decoders
  <2>2. "sf_eth_input" \in Nodes
    BY DEF Nodes, Decoders
  <2> QED BY <1>2, <2>1, <2>2 DEF EachBufferOnce, At
<1>4. StageInv
  BY <1>2 DEF StageInv, StageAt, DecodeInit
<1> QED BY <1>1, <1>3, <1>4 DEF DecodeInv

\* Every packet waits where its own decoding has brought it, in one frame and
\* once, for frames of any size: the loops over two packets and over one of
\* the six decoding nodes do to a packet what each other would do.
THEOREM DecodeInvariance == DecodeSpec => []DecodeInv
BY InitOk, StepInductive, PTL DEF DecodeSpec

\* Two packets that wait for the same node and are alike have been recorded
\* alike: no stage of a packet leaves two answers.
LEMMA StageIsFunction ==
  ASSUME NEW n, NEW p, NEW w, NEW v, StageAt(n, p, w), StageAt(n, p, v)
  PROVE  w = v
BY ToParts DEF StageAt, Ends

\* A packet is recorded the same wherever it stands in its frame.
THEOREM AlwaysSameInBothLoops == DecodeSpec => []SameInBothLoops
<1>1. DecodeInv => SameInBothLoops
  BY StageIsFunction DEF DecodeInv, StageInv, SameInBothLoops
<1> QED BY <1>1, DecodeInvariance, PTL

-----------------------------------------------------------------------------
(* Where the headers of a list end                                         *)

\* Induction up to n over a set
LEMMA UpTo ==
  ASSUME NEW S, NEW n \in Nat, 0 \in S, \A k \in 0..n : k < n /\ k \in S => k + 1 \in S
  PROVE  \A k \in 0..n : k \in S
<1> DEFINE Bad == {k \in 0..n : k \notin S}
           R == OpToRel(<, Nat)
<1> SUFFICES ASSUME Bad # {} PROVE FALSE
  OBVIOUS
<1>1. \E k \in Bad : \A j \in Bad : ~(<<j, k>> \in R)
  <2>1. IsWellFoundedOn(R, Nat)
    BY NatLessThanWellFounded
  <2>2. Bad \subseteq Nat
    OBVIOUS
  <2> HIDE DEF R, Bad
  <2> QED BY <2>1, <2>2, WFMin
<1>2. PICK k \in Bad : \A j \in Bad : ~(<<j, k>> \in R)
  BY <1>1
<1>3. k \in 0..n /\ k \notin S /\ k # 0
  BY <1>2
<1>4. k - 1 \in 0..n /\ k - 1 < n /\ (k - 1) + 1 = k /\ <<k - 1, k>> \in R
  BY <1>3 DEF OpToRel
<1>5. k - 1 \notin Bad
  BY <1>2, <1>4
<1> QED BY <1>3, <1>4, <1>5

LEMMA OffsetsExist ==
  ASSUME NEW start, NEW lens, Len(lens) \in Nat
  PROVE  Offsets(start, lens) = [i \in 0..Len(lens) |->
           IF i = 0 THEN start ELSE Offsets(start, lens)[i-1] + lens[i]]
<1> DEFINE n == Len(lens)
           Is(f, k) == f = [i \in 0..k |-> IF i = 0 THEN start ELSE f[i-1] + lens[i]]
           S == {k \in 0..n : \E f : Is(f, k)}
<1>1. 0 \in S
  <2> DEFINE f == [i \in 0..0 |-> start]
             h == [i \in 0..0 |-> IF i = 0 THEN start ELSE f[i-1] + lens[i]]
  <2>1. \A i \in 0..0 : f[i] = h[i]
    OBVIOUS
  <2>2. f = h
    BY <2>1
  <2>3. Is(f, 0)
    BY <2>2
  <2> HIDE DEF f, Is
  <2> QED BY <2>3
<1>2. ASSUME NEW k \in 0..n, k < n, k \in S
      PROVE  k + 1 \in S
  <2>1. PICK f : Is(f, k)
    BY <1>2
  <2> DEFINE g == [i \in 0..k+1 |-> IF i = k + 1 THEN f[k] + lens[k+1] ELSE f[i]]
  <2>2. ASSUME NEW i \in 0..k+1
        PROVE  g[i] = IF i = 0 THEN start ELSE g[i-1] + lens[i]
    BY <2>1
  <2>3. Is(g, k+1)
    <3> DEFINE h == [i \in 0..k+1 |-> IF i = 0 THEN start ELSE g[i-1] + lens[i]]
    <3>1. \A i \in 0..k+1 : g[i] = h[i]
      BY <2>2
    <3>2. g = [i \in 0..k+1 |-> g[i]] /\ h = [i \in 0..k+1 |-> h[i]]
      OBVIOUS
    <3> HIDE DEF g, h
    <3>3. g = h
      BY <3>1, <3>2
    <3> QED BY <3>3 DEF h
  <2> HIDE DEF g, Is
  <2> QED BY <1>2, <2>3
<1>3. n \in S
  <2>1. n \in Nat
    OBVIOUS
  <2> HIDE DEF S, n
  <2>2. \A k \in 0..n : k \in S
    BY <2>1, <1>1, <1>2, UpTo
  <2> QED BY <2>1, <2>2
<1>4. \E f : Is(f, n)
  <2> HIDE DEF Is
  <2> QED BY <1>3
<1> QED BY <1>4, Zenon DEF Offsets

\* What Offsets computes: where the i-th header ends, and that later ones end
\* no earlier.
LEMMA OffsetsFact ==
  ASSUME NEW start \in Nat, NEW lens \in Seq(Nat)
  PROVE  LET O == Offsets(start, lens)
         IN /\ O[0] = start
            /\ \A i \in 1..Len(lens) : O[i] = O[i-1] + lens[i]
            /\ \A i \in 0..Len(lens) : O[i] \in Nat
            /\ \A i, j \in 0..Len(lens) : i <= j => O[i] <= O[j]
<1> DEFINE O == Offsets(start, lens)
           n == Len(lens)
<1>0. n \in Nat
  OBVIOUS
<1>1. O = [i \in 0..n |-> IF i = 0 THEN start ELSE O[i-1] + lens[i]]
  BY OffsetsExist
<1> HIDE DEF O
<1>2. O[0] = start /\ \A i \in 1..n : O[i] = O[i-1] + lens[i]
  <2>1. \A i \in 0..n : O[i] = IF i = 0 THEN start ELSE O[i-1] + lens[i]
    BY <1>1, Zenon
  <2>2. 0 \in 0..n /\ \A i \in 1..n : i \in 0..n /\ i # 0
    BY <1>0
  <2> QED BY <2>1, <2>2, Zenon
<1>3. \A i \in 1..n : lens[i] \in Nat
  OBVIOUS
<1> HIDE DEF n
<1>4. \A i \in 0..n : O[i] \in Nat
  <2> DEFINE S == {i \in 0..n : O[i] \in Nat}
  <2>1. 0 \in S
    BY <1>0, <1>2
  <2>2. \A k \in 0..n : k < n /\ k \in S => k + 1 \in S
    <3> SUFFICES ASSUME NEW k \in 0..n, k < n, O[k] \in Nat
                 PROVE  k + 1 \in 0..n /\ O[k+1] \in Nat
      OBVIOUS
    <3>1. k + 1 \in 1..n /\ (k + 1) - 1 = k
      BY <1>0
    <3> QED BY <1>2, <1>3, <3>1
  <2> HIDE DEF S
  <2>3. \A k \in 0..n : k \in S
    BY <1>0, <2>1, <2>2, UpTo
  <2> QED BY <2>3 DEF S
<1>5. ASSUME NEW i \in 0..n
      PROVE  \A j \in 0..n : i <= j => O[i] <= O[j]
  <2> DEFINE S == {j \in 0..n : i <= j => O[i] <= O[j]}
  <2>1. 0 \in S
    BY <1>0, <1>4
  <2>2. \A k \in 0..n : k < n /\ k \in S => k + 1 \in S
    <3> SUFFICES ASSUME NEW k \in 0..n, k < n, i <= k => O[i] <= O[k], i <= k + 1
                 PROVE  k + 1 \in 0..n /\ O[i] <= O[k+1]
      BY <1>0
    <3>1. k + 1 \in 1..n /\ (k + 1) - 1 = k
      BY <1>0
    <3>2. O[k+1] = O[k] + lens[k+1] /\ lens[k+1] \in Nat
      BY <1>2, <1>3, <3>1
    <3>3. O[k] \in Nat /\ O[i] \in Nat /\ O[k+1] \in Nat
      BY <1>4, <3>1
    <3>4. CASE i = k + 1
      BY <3>1, <3>3, <3>4
    <3>5. CASE i <= k
      BY <3>1, <3>2, <3>3, <3>5
    <3> QED BY <1>0, <3>4, <3>5
  <2> HIDE DEF S
  <2>3. \A k \in 0..n : k \in S
    BY <1>0, <2>1, <2>2, UpTo
  <2> QED BY <2>3 DEF S
<1> QED BY <1>2, <1>4, <1>5 DEF n, O

-----------------------------------------------------------------------------
(* The window and the layers of one packet                                 *)

\* Lengths of 16 bits
LEMMA Width == U16 \in Nat /\ U16 > 255
BY SMT DEF U16

LEMMA Wrap ==
  ASSUME NEW u \in Nat, u > 0
  PROVE  /\ \A a \in 0..u - 1 : \A l \in 0..a : (a + u - l) % u = a - l
         /\ \A a \in 0..u - 1 : a % u = a
         /\ \A a \in Nat : a % u \in 0..u - 1
<1>1. ASSUME NEW a \in 0..u - 1, NEW l \in 0..a
      PROVE  (a + u - l) % u = a - l
  <2>1. a - l \in 0..u - 1 /\ a + u - l = (a - l) + u
    OBVIOUS
  <2>2. ((a - l) + u) % u = a - l
    BY <2>1
  <2> QED BY <2>1, <2>2
<1>2. ASSUME NEW a \in 0..u - 1
      PROVE  a % u = a
  OBVIOUS
<1>3. ASSUME NEW a \in Nat
      PROVE  a % u \in 0..u - 1
  OBVIOUS
<1> QED BY <1>1, <1>2, <1>3

\* The window is within the bytes received.
Window(p, w) == w \in Wdata /\ w.cur + w.len = EndOf(p) /\ w.cur >= L2Offset

LEMMA AdvanceFact ==
  ASSUME NEW w \in Wdata, NEW l \in Nat, l <= w.len
  PROVE  LET x == Advance(w, l)
         IN /\ x \in Wdata /\ x.cur = w.cur + l /\ x.len = w.len - l
            /\ x.err = w.err /\ x.vlans = w.vlans /\ x.vlan = w.vlan
            /\ x.ip_cnt = w.ip_cnt /\ x.ip = w.ip
            /\ x.l4_cnt = w.l4_cnt /\ x.l4 = w.l4
<1> DEFINE x == Advance(w, l)
<1>1. w.len \in 0..U16 - 1 /\ w.cur \in Nat
  BY DEF Wdata
<1>2. (w.len + U16 - l) % U16 = w.len - l
  <2>1. l \in 0..w.len /\ U16 \in Nat /\ U16 > 0
    BY <1>1, Width
  <2>2. \A a \in 0..U16 - 1 : \A k \in 0..a : (a + U16 - k) % U16 = a - k
    BY <2>1, Wrap
  <2> QED BY <1>1, <2>1, <2>2
<1>3. x = [w EXCEPT !.cur = w.cur + l, !.len = w.len - l]
  BY <1>1, <1>2 DEF Advance, Wdata
<1>4. w.len - l \in 0..U16 - 1 /\ w.cur + l \in Nat
  BY <1>1, Width
<1> HIDE DEF x
<1>5. x \in Wdata
  BY <1>3, <1>4 DEF Wdata
<1>6. /\ x.cur = w.cur + l /\ x.len = w.len - l
      /\ x.err = w.err /\ x.vlans = w.vlans /\ x.vlan = w.vlan
      /\ x.ip_cnt = w.ip_cnt /\ x.ip = w.ip
      /\ x.l4_cnt = w.l4_cnt /\ x.l4 = w.l4
  BY <1>3 DEF Wdata
<1> QED BY <1>5, <1>6 DEF x

LEMMA ResetFact ==
  ASSUME NEW p \in Packet, NEW w, Window(p, w)
  PROVE  LET x == Reset(w)
         IN /\ Window(p, x) /\ x.cur = L2Offset /\ x.len = p.len
            /\ x.err = w.err /\ x.vlans = w.vlans /\ x.vlan = w.vlan
            /\ x.ip_cnt = w.ip_cnt /\ x.ip = w.ip
            /\ x.l4_cnt = w.l4_cnt /\ x.l4 = w.l4
<1> DEFINE x == Reset(w)
<1>1. /\ w \in Wdata /\ w.len \in 0..U16 - 1 /\ w.cur \in Nat
      /\ p.len \in 14..U16 - 1 /\ w.cur + w.len = L2Offset + p.len
  BY DEF Wdata, Window, EndOf, Packet, ETH_HEADER_LEN
<1>2. (w.len + w.cur - L2Offset) % U16 = p.len
  <2>1. w.len + w.cur - L2Offset = p.len /\ p.len \in 0..U16 - 1
    BY <1>1, Width, L2OffsetAssumption
  <2> QED BY <2>1, Wrap, Width
<1>3. x = [w EXCEPT !.cur = L2Offset, !.len = p.len]
  BY <1>1, <1>2 DEF Reset, Wdata
<1>4. p.len \in 0..U16 - 1 /\ L2Offset \in Nat
  BY <1>1, Width, L2OffsetAssumption
<1> HIDE DEF x
<1>5. x \in Wdata
  BY <1>1, <1>3, <1>4 DEF Wdata
<1>6. /\ x.cur = L2Offset /\ x.len = p.len
      /\ x.err = w.err /\ x.vlans = w.vlans /\ x.vlan = w.vlan
      /\ x.ip_cnt = w.ip_cnt /\ x.ip = w.ip
      /\ x.l4_cnt = w.l4_cnt /\ x.l4 = w.l4
  BY <1>1, <1>3 DEF Wdata
<1>7. Window(p, x)
  BY <1>4, <1>5, <1>6 DEF Window, EndOf
<1> QED BY <1>6, <1>7 DEF x

LEMMA SetErrorFact ==
  ASSUME NEW w \in Wdata
  PROVE  LET x == SetError(w)
         IN /\ x \in Wdata /\ x.err = TRUE /\ x.cur = w.cur /\ x.len = w.len
            /\ x.vlans = w.vlans /\ x.vlan = w.vlan
            /\ x.ip_cnt = w.ip_cnt /\ x.ip = w.ip
            /\ x.l4_cnt = w.l4_cnt /\ x.l4 = w.l4
<1>1. SetError(w) \in Wdata
  BY DEF SetError, Wdata
<1> QED BY <1>1 DEF SetError, Wdata

LEMMA UpdateVlanFact ==
  ASSUME NEW w \in Wdata, NEW off \in Nat, NEW l \in Nat
  PROVE  LET x == UpdateVlan(w, off, l)
         IN /\ x \in Wdata /\ x.vlans = 1 /\ x.vlan = [off |-> off, hlen |-> l]
            /\ x.cur = w.cur /\ x.len = w.len /\ x.err = w.err
            /\ x.ip_cnt = w.ip_cnt /\ x.ip = w.ip
            /\ x.l4_cnt = w.l4_cnt /\ x.l4 = w.l4
<1> DEFINE y == [off |-> off, hlen |-> l]
<1>1. y \in Layer /\ 1 \in 0..1
  BY DEF Layer
<1>2. UpdateVlan(w, off, l) = [w EXCEPT !.vlans = 1, !.vlan = y]
  BY DEF UpdateVlan
<1> HIDE DEF y
<1>3. UpdateVlan(w, off, l) \in Wdata
  BY <1>1, <1>2 DEF Wdata
<1>4. UpdateVlan(w, off, l).vlan = y
  BY <1>2 DEF Wdata
<1> QED BY <1>2, <1>3, <1>4 DEF Wdata, y

LEMMA UpdateL4Fact ==
  ASSUME NEW w \in Wdata, NEW l \in Nat
  PROVE  LET x == UpdateL4(w, l)
         IN /\ x \in Wdata /\ x.l4_cnt = 1 /\ x.l4 = [off |-> w.cur, hlen |-> l]
            /\ x.cur = w.cur /\ x.len = w.len /\ x.err = w.err
            /\ x.vlans = w.vlans /\ x.vlan = w.vlan
            /\ x.ip_cnt = w.ip_cnt /\ x.ip = w.ip
<1> DEFINE y == [off |-> w.cur, hlen |-> l]
<1>1. y \in Layer /\ 1 \in 0..1
  BY DEF Layer, Wdata
<1>2. UpdateL4(w, l) = [w EXCEPT !.l4_cnt = 1, !.l4 = y]
  BY DEF UpdateL4
<1> HIDE DEF y
<1>3. UpdateL4(w, l) \in Wdata
  BY <1>1, <1>2 DEF Wdata
<1>4. UpdateL4(w, l).l4 = y
  BY <1>2 DEF Wdata
<1> QED BY <1>2, <1>3, <1>4 DEF Wdata, y

\* The payload length that is recorded of an IP header
PLen(p, hlen) == (p.total + U16 - hlen) % U16

LEMMA PLenFact ==
  ASSUME NEW p \in Packet, NEW h \in 0..U16 - 1
  PROVE  /\ PLen(p, h) \in 0..U16 - 1
         /\ h <= p.total => PLen(p, h) = p.total - h
<1>1. p.total \in 0..U16 - 1 /\ U16 \in Nat /\ U16 > 0
  BY Width DEF Packet
<1>2. p.total + U16 - h \in Nat
  BY <1>1
<1>3. PLen(p, h) \in 0..U16 - 1
  BY <1>1, <1>2, Wrap DEF PLen
<1>4. ASSUME h <= p.total PROVE PLen(p, h) = p.total - h
  <2>1. h \in 0..p.total
    BY <1>1, <1>4
  <2>2. \A a \in 0..U16 - 1 : \A k \in 0..a : (a + U16 - k) % U16 = a - k
    BY <1>1, Wrap
  <2> QED BY <1>1, <2>1, <2>2 DEF PLen
<1> QED BY <1>3, <1>4

\* sf_ip4_input and sf_ip6_input record an IP header alike.
UpdateIp(w, v, proto, h, pl, fr) ==
  [w EXCEPT !.ip_cnt = @ + 1,
            !.ip = [off |-> w.cur, version |-> v, protocol |-> proto,
                    hlen |-> h, plen |-> pl, frag |-> fr]]

LEMMA UpdateIpFact ==
  ASSUME NEW w \in Wdata, w.ip_cnt = 0, NEW v \in {4, 6},
         NEW proto \in {"none", "tcp", "udp", "opt", "invalid"}, NEW h \in Nat,
         NEW pl \in 0..U16 - 1, NEW fr \in BOOLEAN
  PROVE  LET x == UpdateIp(w, v, proto, h, pl, fr)
         IN /\ x \in Wdata /\ x.ip_cnt = 1
            /\ x.ip.off = w.cur /\ x.ip.hlen = h /\ x.ip.plen = pl
            /\ x.ip.frag = fr
            /\ x.cur = w.cur /\ x.len = w.len /\ x.err = w.err
            /\ x.vlans = w.vlans /\ x.vlan = w.vlan
            /\ x.l4_cnt = w.l4_cnt /\ x.l4 = w.l4
<1> DEFINE x == UpdateIp(w, v, proto, h, pl, fr)
           ip == [off |-> w.cur, version |-> v, protocol |-> proto,
                  hlen |-> h, plen |-> pl, frag |-> fr]
<1>1. ip \in IpLayer
  BY DEF IpLayer, Wdata
<1>2. ip.off = w.cur /\ ip.hlen = h /\ ip.plen = pl /\ ip.frag = fr
  OBVIOUS
<1>3. x = [w EXCEPT !.ip_cnt = 1, !.ip = ip]
  BY DEF UpdateIp, Wdata
<1> HIDE DEF x, ip
<1>4. 1 \in 0..MAX_IP_WDATA
  BY DEF MAX_IP_WDATA
<1>5. x \in Wdata
  BY <1>1, <1>3, <1>4 DEF Wdata
<1>6. /\ x.ip_cnt = 1 /\ x.ip = ip
      /\ x.cur = w.cur /\ x.len = w.len /\ x.err = w.err
      /\ x.vlans = w.vlans /\ x.vlan = w.vlan
      /\ x.l4_cnt = w.l4_cnt /\ x.l4 = w.l4
  BY <1>3 DEF Wdata
<1> QED BY <1>2, <1>5, <1>6 DEF x

LEMMA RxFact ==
  ASSUME NEW p \in Packet
  PROVE  LET w == RxWdata(p)
         IN /\ Window(p, w) /\ w.cur = L2Offset /\ w.len = p.len
            /\ w.err = FALSE /\ w.vlans = 0 /\ w.ip_cnt = 0 /\ w.l4_cnt = 0
<1>1. p.len \in 0..U16 - 1 /\ L2Offset \in Nat
  BY Width, L2OffsetAssumption DEF Packet, ETH_HEADER_LEN
<1>2. NoLayer \in Layer /\ NoIp \in IpLayer
  BY Width DEF NoLayer, NoIp, Layer, IpLayer
<1>3. RxWdata(p) \in Wdata
  BY <1>1, <1>2 DEF RxWdata, Wdata, MAX_IP_WDATA
<1> QED BY <1>1, <1>3 DEF RxWdata, Window, EndOf

\* The tags that are read: the first ones, as long as more than them is left
LEMMA TagsFact ==
  ASSUME NEW p \in Packet, NEW w \in Wdata
  PROVE  LET n == ParsedTags(w, p)
         IN /\ n \in 0..p.tags /\ 4 * n <= w.len
            /\ n < p.tags => w.len <= 4 * p.tags
            /\ n = p.tags /\ p.tags > 0 => w.len > 4 * p.tags
<1> DEFINE t == p.tags
           L == w.len
           m == IF L = 0 THEN 0 ELSE IF t <= (L - 1) \div 4 THEN t ELSE (L - 1) \div 4
           S == {i \in 1..t : L > VLAN_HEADER_LEN * i}
<1>1. t \in Nat /\ L \in Nat
  BY Width DEF Packet, Wdata
<1> HIDE DEF t, L
<1>2. /\ m \in 0..t /\ 4 * m <= L /\ (m < t => L <= 4 * t)
      /\ (m = t /\ t > 0 => L > 4 * t)
      /\ \A i \in 1..t : L > 4 * i <=> i <= m
  BY <1>1
<1> HIDE DEF m
<1>3. S = 1..m
  BY <1>1, <1>2 DEF VLAN_HEADER_LEN
<1>4. Cardinality(1..m) = m
  BY <1>1, <1>2, FS_Interval
<1>5. ParsedTags(w, p) = m
  BY <1>3, <1>4, Zenon DEF ParsedTags, t, L
<1> QED BY <1>2, <1>5 DEF t, L

-----------------------------------------------------------------------------
(* sf_eth_input                                                            *)

\* Nothing is missing of the VLAN tags.
TagsThere(p) == p.tags > 0 => EndOf(p) > IpStart(p)

\* What sf_eth_input does to packet p
EthOk(p, r) ==
  /\ Window(p, r.w) /\ VlanBefore(p, r.w, r.w.cur)
  /\ r.w.err = FALSE /\ r.w.ip_cnt = 0 /\ r.w.l4_cnt = 0
  /\ IsIp(p) /\ TagsThere(p) =>
       /\ r.w.cur = IpStart(p)
       /\ r.next = IF p.l3 = "ipv4" THEN "sf_ip4_input" ELSE "sf_ip6_input"
  /\ ~(IsIp(p) /\ TagsThere(p)) => r.next = "sf_acl_entry"

LEMMA EthResult ==
  ASSUME NEW p \in Packet
  PROVE  EthOk(p, AfterEth(p))
<1> DEFINE v == RxWdata(p)
           w == Advance(v, ETH_HEADER_LEN)
           n == ParsedTags(w, p)
           x == Advance(w, VLAN_HEADER_LEN * n)
           c == n % U8
           y == UpdateVlan(x, w.cur, VLAN_HEADER_LEN * c)
<1>0. /\ p.tags \in Nat /\ p.len \in Nat /\ p.len >= 14 /\ L2Offset \in Nat
      /\ p.l3 \in {"ipv4", "ipv6", "other"}
  BY Width, L2OffsetAssumption DEF Packet, ETH_HEADER_LEN
<1>1. /\ v \in Wdata /\ v.cur = L2Offset /\ v.len = p.len /\ v.err = FALSE
      /\ v.vlans = 0 /\ v.ip_cnt = 0 /\ v.l4_cnt = 0
  BY RxFact DEF Window
<1> HIDE DEF v
<1>2. /\ w \in Wdata /\ w.cur = L2Offset + 14 /\ w.len = p.len - 14
      /\ w.err = FALSE /\ w.vlans = 0 /\ w.ip_cnt = 0 /\ w.l4_cnt = 0
  BY <1>0, <1>1, AdvanceFact DEF ETH_HEADER_LEN
<1> HIDE DEF w
<1>3. /\ n \in 0..p.tags /\ 4 * n <= w.len
      /\ n < p.tags => w.len <= 4 * p.tags
      /\ n = p.tags /\ p.tags > 0 => w.len > 4 * p.tags
  BY <1>2, TagsFact
<1> HIDE DEF n
<1>4. /\ 4 * n \in Nat /\ n \in Nat /\ c \in Nat /\ c <= n /\ 4 * c \in Nat
      /\ n < U8 => c = n
  BY <1>0, <1>3 DEF U8
<1> HIDE DEF c
<1>5. /\ x \in Wdata /\ x.cur = w.cur + 4 * n /\ x.len = w.len - 4 * n
      /\ x.err = FALSE /\ x.vlans = 0 /\ x.ip_cnt = 0 /\ x.l4_cnt = 0
  BY <1>2, <1>3, <1>4, AdvanceFact DEF VLAN_HEADER_LEN
<1> HIDE DEF x
<1>6. /\ y \in Wdata /\ y.cur = x.cur /\ y.len = x.len /\ y.err = FALSE
      /\ y.vlans = 1 /\ y.vlan = [off |-> w.cur, hlen |-> 4 * c]
      /\ y.ip_cnt = 0 /\ y.l4_cnt = 0
  BY <1>0, <1>2, <1>4, <1>5, UpdateVlanFact DEF VLAN_HEADER_LEN
<1> HIDE DEF y
<1>7. /\ IpStart(p) = L2Offset + 14 + 4 * p.tags /\ EndOf(p) = L2Offset + p.len
      /\ 4 * p.tags \in Nat
  BY <1>0 DEF IpStart, EndOf, ETH_HEADER_LEN, VLAN_HEADER_LEN
<1>8. CASE p.tags = 0
  <2>1. AfterEth(p) = To(w, EthNext(p.l3))
    BY <1>8 DEF AfterEth, EthDecode, ParseEth, v, w
  <2>2. AfterEth(p).w = w /\ AfterEth(p).next = EthNext(p.l3)
    BY <2>1, ToParts
  <2>3. Window(p, w) /\ VlanBefore(p, w, w.cur)
    BY <1>0, <1>2, <1>7 DEF Window, VlanBefore
  <2>4. TagsThere(p) /\ w.cur = IpStart(p)
    BY <1>8, <1>0, <1>2, <1>7 DEF TagsThere
  <2>5. /\ IsIp(p) => EthNext(p.l3) =
              IF p.l3 = "ipv4" THEN "sf_ip4_input" ELSE "sf_ip6_input"
        /\ ~IsIp(p) => EthNext(p.l3) = "sf_acl_entry"
    BY <1>0 DEF EthNext, IsIp
  <2> QED BY <1>2, <2>2, <2>3, <2>4, <2>5 DEF EthOk
<1>9. CASE p.tags > 0 /\ n < p.tags
  <2>1. AfterEth(p) = To(x, EthNext("ETHER_INVALID_TYPE"))
    BY <1>9 DEF AfterEth, EthDecode, ParseEth, ParseVlan, v, w, n, x
  <2>2. AfterEth(p).w = x /\ AfterEth(p).next = "sf_acl_entry"
    BY <2>1, ToParts DEF EthNext
  <2>3. Window(p, x) /\ VlanBefore(p, x, x.cur)
    BY <1>0, <1>2, <1>4, <1>5, <1>7 DEF Window, VlanBefore
  <2>4. ~TagsThere(p)
    BY <1>9, <1>0, <1>2, <1>3, <1>7 DEF TagsThere
  <2> QED BY <1>5, <2>2, <2>3, <2>4 DEF EthOk
<1>10. CASE p.tags > 0 /\ n = p.tags
  <2> DEFINE z == IF c = 0 THEN x ELSE y
  <2>1. AfterEth(p) = To(z, EthNext(p.l3))
    BY <1>10, <1>0 DEF AfterEth, EthDecode, ParseEth, ParseVlan, v, w, n, c, x, y
  <2>2. AfterEth(p).w = z /\ AfterEth(p).next = EthNext(p.l3)
    BY <2>1, ToParts
  <2>a. /\ z \in Wdata /\ z.cur = x.cur /\ z.len = x.len /\ z.err = FALSE
        /\ z.ip_cnt = 0 /\ z.l4_cnt = 0
        /\ z.vlans = 1 => z.vlan = [off |-> w.cur, hlen |-> 4 * c]
    BY <1>5, <1>6
  <2> HIDE DEF z
  <2>3. Window(p, z)
    BY <1>0, <1>2, <1>4, <1>5, <2>a, <1>7 DEF Window
  <2>4. VlanBefore(p, z, z.cur)
    <3>1. w.cur \in Nat
      BY <1>0, <1>2
    <3>2. /\ 4 * c <= 4 * n
          /\ p.tags < U8 => 4 * c = 4 * n
      BY <1>4, <1>10
    <3> QED BY <1>4, <1>5, <2>a, <3>1, <3>2 DEF VlanBefore
  <2>5. TagsThere(p) /\ z.cur = IpStart(p)
    BY <1>10, <1>0, <1>2, <1>3, <1>5, <2>a, <1>7 DEF TagsThere
  <2>6. /\ IsIp(p) => EthNext(p.l3) =
              IF p.l3 = "ipv4" THEN "sf_ip4_input" ELSE "sf_ip6_input"
        /\ ~IsIp(p) => EthNext(p.l3) = "sf_acl_entry"
    BY <1>0 DEF EthNext, IsIp
  <2> QED BY <2>a, <2>2, <2>3, <2>4, <2>5, <2>6 DEF EthOk
<1> QED BY <1>0, <1>3, <1>8, <1>9, <1>10

-----------------------------------------------------------------------------
(* The headers of a packet, as the reference counts them and as            *)
(* sf_ip6_input does                                                       *)

LEMMA PacketFact ==
  ASSUME NEW p \in Packet
  PROVE  /\ p.tags \in Nat /\ p.hlen \in Nat /\ p.l4len \in Nat
         /\ p.len \in Nat /\ p.len < U16 /\ p.total \in 0..U16 - 1
         /\ p.ext \in Seq(ExtHeader) /\ p.frag \in BOOLEAN
         /\ p.l3 \in {"ipv4", "ipv6", "other"} /\ p.proto \in {"tcp", "udp", "none", "invalid"}
         /\ p.proto = "udp" => p.l4len = 8
         /\ ExtLens(p) \in Seq(Nat) /\ Len(ExtLens(p)) = Len(p.ext)
         /\ Len(p.ext) \in Nat
         /\ IpStart(p) \in Nat /\ EndOf(p) \in Nat
<1>1. /\ p.tags \in Nat /\ p.hlen \in Nat /\ p.l4len \in Nat
      /\ p.len \in ETH_HEADER_LEN..U16 - 1 /\ p.total \in 0..U16 - 1
      /\ p.ext \in Seq(ExtHeader) /\ p.frag \in BOOLEAN
      /\ p.l3 \in {"ipv4", "ipv6", "other"} /\ p.proto \in {"tcp", "udp", "none", "invalid"}
      /\ p.proto = "udp" => p.l4len = UDP_HEADER_LEN
  BY DEF Packet
<1>2. p.len \in Nat /\ p.len < U16
  BY <1>1, Width DEF ETH_HEADER_LEN
<1>3. ExtLens(p) \in Seq(Nat) /\ Len(ExtLens(p)) = Len(p.ext) /\ Len(p.ext) \in Nat
  <2> DEFINE x == p.ext
             e == [i \in 1..Len(x) |-> x[i].len]
  <2>1. Len(x) \in Nat /\ \A i \in 1..Len(x) : x[i] \in ExtHeader
    BY <1>1
  <2>2. \A i \in 1..Len(x) : x[i].len \in Nat
    BY <2>1 DEF ExtHeader
  <2> HIDE DEF x
  <2>3. e \in Seq(Nat) /\ Len(e) = Len(x)
    BY <2>1, <2>2
  <2> QED BY <2>1, <2>3 DEF ExtLens, x
<1>4. IpStart(p) \in Nat /\ EndOf(p) \in Nat
  <2>1. L2Offset \in Nat
    BY L2OffsetAssumption
  <2>2. EndOf(p) \in Nat
    BY <1>2, <2>1 DEF EndOf
  <2>3. IpStart(p) \in Nat
    BY <1>1, <2>1 DEF IpStart, ETH_HEADER_LEN, VLAN_HEADER_LEN
  <2> QED BY <2>2, <2>3
<1> QED BY <1>1, <1>2, <1>3, <1>4 DEF UDP_HEADER_LEN

\* ExtLen(p, n): the length of the IPv6 header and its first n extensions
LEMMA ExtLenFact ==
  ASSUME NEW p \in Packet
  PROVE  /\ ExtLen(p, 0) = 40
         /\ \A i \in 1..Len(p.ext) : ExtLen(p, i) = ExtLen(p, i-1) + ExtLens(p)[i]
         /\ \A i \in 0..Len(p.ext) : ExtLen(p, i) \in Nat
         /\ \A i, j \in 0..Len(p.ext) : i <= j => ExtLen(p, i) <= ExtLen(p, j)
<1>1. ExtLens(p) \in Seq(Nat) /\ Len(ExtLens(p)) = Len(p.ext)
  BY PacketFact
<1>2. IPV6_HEADER_LEN \in Nat /\ IPV6_HEADER_LEN = 40
  BY DEF IPV6_HEADER_LEN
<1> QED BY <1>1, <1>2, OffsetsFact DEF ExtLen

\* The reference puts the IPv6 headers where the node does.
LEMMA HdrEnd6 ==
  ASSUME NEW p \in Packet, p.l3 = "ipv6"
  PROVE  /\ Len(IpHdr(p)) = Len(p.ext) + 1
         /\ \A i \in 0..Len(p.ext) : HdrEnd(p, i + 1) = IpStart(p) + ExtLen(p, i)
<1> DEFINE n == Len(p.ext)
           h == Hdr(p)
           O == Offsets(IpStart(p), h)
<1>0. /\ n \in Nat /\ IpStart(p) \in Nat /\ p.l4len \in Nat
      /\ ExtLens(p) \in Seq(Nat) /\ Len(ExtLens(p)) = n
  BY PacketFact
<1>1. /\ IpHdr(p) \in Seq(Nat) /\ Len(IpHdr(p)) = n + 1 /\ IpHdr(p)[1] = 40
      /\ \A i \in 1..n : IpHdr(p)[i+1] = ExtLens(p)[i]
  <2>1. IpHdr(p) = <<40>> \o ExtLens(p)
    BY DEF IpHdr, IPV6_HEADER_LEN
  <2>2. <<40>> \in Seq(Nat) /\ Len(<<40>>) = 1 /\ <<40>>[1] = 40
    OBVIOUS
  <2> DEFINE a == <<40>>
             b == ExtLens(p)
  <2> HIDE DEF a, b
  <2>3. /\ a \o b \in Seq(Nat) /\ Len(a \o b) = n + 1 /\ (a \o b)[1] = 40
        /\ \A i \in 1..n : (a \o b)[i+1] = b[i]
    BY <1>0, <2>2 DEF a, b
  <2> QED BY <2>1, <2>3 DEF a, b
<1>2. /\ h \in Seq(Nat) /\ Len(h) >= n + 1 /\ h[1] = 40
      /\ \A i \in 1..n : h[i+1] = ExtLens(p)[i]
  BY <1>0, <1>1 DEF Hdr
<1>3. /\ O[0] = IpStart(p) /\ \A i \in 1..Len(h) : O[i] = O[i-1] + h[i]
  BY <1>0, <1>2, OffsetsFact
<1>4. Len(h) \in Nat
  BY <1>2
<1> HIDE DEF n, h, O
<1>5. /\ ExtLen(p, 0) = 40
      /\ \A i \in 1..n : ExtLen(p, i) = ExtLen(p, i-1) + ExtLens(p)[i]
      /\ \A i \in 0..n : ExtLen(p, i) \in Nat
  BY ExtLenFact DEF n
<1> DEFINE S == {i \in 0..n : O[i+1] = IpStart(p) + ExtLen(p, i)}
<1>6. 0 \in S
  <2>1. 1 \in 1..Len(h) /\ 1 - 1 = 0 /\ 0 + 1 = 1 /\ 0 \in 0..n
    BY <1>0, <1>2, <1>4
  <2>2. O[1] = O[1-1] + h[1]
    BY <1>3, <2>1
  <2> QED BY <1>0, <1>2, <1>3, <1>5, <2>1, <2>2
<1>7. \A k \in 0..n : k < n /\ k \in S => k + 1 \in S
  <2> SUFFICES ASSUME NEW k \in 0..n, k < n, O[k+1] = IpStart(p) + ExtLen(p, k)
               PROVE  k + 1 \in 0..n /\ O[(k+1)+1] = IpStart(p) + ExtLen(p, k+1)
    OBVIOUS
  <2>1. /\ k + 1 \in 1..n /\ (k + 1) - 1 = k /\ k + 1 \in 0..n
        /\ (k + 1) + 1 \in 1..Len(h) /\ ((k + 1) + 1) - 1 = k + 1
    BY <1>0, <1>2, <1>4
  <2>2. O[(k+1)+1] = O[k+1] + h[(k+1)+1]
    BY <1>3, <2>1
  <2>3. h[(k+1)+1] = ExtLens(p)[k+1] /\ ExtLens(p)[k+1] \in Nat
    <3>1. h[(k+1)+1] = ExtLens(p)[k+1]
      BY <1>2, <2>1
    <3>2. k + 1 \in DOMAIN ExtLens(p)
      BY <1>0, <2>1
    <3> QED BY <1>0, <3>1, <3>2
  <2>4. ExtLen(p, k+1) = ExtLen(p, k) + ExtLens(p)[k+1] /\ ExtLen(p, k) \in Nat
    BY <1>5, <2>1
  <2> QED BY <1>0, <2>1, <2>2, <2>3, <2>4
<1> HIDE DEF S
<1>8. \A k \in 0..n : k \in S
  BY <1>0, <1>6, <1>7, UpTo
<1>9. \A i \in 0..n : O[i+1] = IpStart(p) + ExtLen(p, i)
  BY <1>8 DEF S
<1> QED BY <1>1, <1>9 DEF HdrEnd, O, h, n

LEMMA HdrEnd4 ==
  ASSUME NEW p \in Packet, p.l3 = "ipv4"
  PROVE  Len(IpHdr(p)) = 1 /\ HdrEnd(p, 1) = IpStart(p) + p.hlen
<1> DEFINE h == Hdr(p)
           O == Offsets(IpStart(p), h)
<1>0. IpStart(p) \in Nat /\ p.hlen \in Nat /\ p.l4len \in Nat
  BY PacketFact
<1>1. IpHdr(p) \in Seq(Nat) /\ Len(IpHdr(p)) = 1 /\ IpHdr(p)[1] = p.hlen
  BY <1>0 DEF IpHdr
<1>2. h \in Seq(Nat) /\ Len(h) >= 1 /\ Len(h) \in Nat /\ h[1] = p.hlen
  <2>0. Len(IpHdr(p)) >= 1 /\ Len(IpHdr(p)) \in Nat
    BY <1>1
  <2>1. CASE HasL4(p)
    <3>1. h = Append(IpHdr(p), p.l4len)
      BY <2>1 DEF Hdr
    <3> HIDE DEF h
    <3> QED BY <1>0, <1>1, <3>1
  <2>2. CASE ~HasL4(p)
    <3>1. h = IpHdr(p)
      BY <2>2 DEF Hdr
    <3> HIDE DEF h
    <3> QED BY <1>1, <2>0, <3>1, Zenon
  <2> QED BY <2>1, <2>2
<1>3. O[0] = IpStart(p) /\ \A i \in 1..Len(h) : O[i] = O[i-1] + h[i]
  BY <1>0, <1>2, OffsetsFact
<1> HIDE DEF h, O
<1>4. 1 \in 1..Len(h) /\ 1 - 1 = 0
  BY <1>2
<1>5. O[1] = O[1-1] + h[1]
  BY <1>3, <1>4
<1> QED BY <1>1, <1>2, <1>3, <1>4, <1>5 DEF HdrEnd, O, h

\* The L4 header comes right after the IP headers.
LEMMA HdrEndL4 ==
  ASSUME NEW p \in Packet, HasL4(p)
  PROVE  /\ Len(Hdr(p)) = Len(IpHdr(p)) + 1 /\ Len(IpHdr(p)) \in Nat
         /\ HdrEnd(p, Len(Hdr(p))) = HdrEnd(p, Len(IpHdr(p))) + p.l4len
<1> DEFINE h == Hdr(p)
           g == IpHdr(p)
           O == Offsets(IpStart(p), h)
<1>0. /\ IpStart(p) \in Nat /\ p.hlen \in Nat /\ p.l4len \in Nat
      /\ ExtLens(p) \in Seq(Nat)
  BY PacketFact
<1>1. g \in Seq(Nat)
  BY <1>0 DEF IpHdr, IPV6_HEADER_LEN
<1>2. h = Append(g, p.l4len)
  BY DEF Hdr
<1> HIDE DEF g, h
<1>3. h \in Seq(Nat) /\ Len(h) = Len(g) + 1 /\ h[Len(g) + 1] = p.l4len /\ Len(g) \in Nat
  BY <1>0, <1>1, <1>2
<1>4. \A i \in 1..Len(h) : O[i] = O[i-1] + h[i]
  BY <1>0, <1>3, OffsetsFact
<1> HIDE DEF O
<1>5. Len(g) + 1 \in 1..Len(h) /\ (Len(g) + 1) - 1 = Len(g)
  BY <1>3
<1>6. O[Len(g) + 1] = O[(Len(g) + 1) - 1] + h[Len(g) + 1]
  BY <1>4, <1>5
<1> QED BY <1>3, <1>5, <1>6 DEF HdrEnd, O, h, g

-----------------------------------------------------------------------------
(* sf_ip4_input, sf_ip6_input                                              *)

\* Where the IP headers end that are decoded, that they are all there, and
\* that the last of them names no protocol which the code takes for an error
IpEnd(p) == HdrEnd(p, LastIpHdr(p))
IpThere(p) == /\ EndOf(p) >= IpEnd(p)
              /\ LastIpHdr(p) > 1 => EndOf(p) > IpEnd(p)
              /\ ~NamesInvalid(p)

L4Next(p) == IF p.proto = "tcp" THEN "sf_tcp_input"
             ELSE IF p.proto = "udp" THEN "sf_udp_input" ELSE "sf_acl_entry"
IpNext(p) == IF ~IsFrag(p) THEN L4Next(p)
             ELSE IF p.l3 = "ipv4" THEN "sf_ip4_reass" ELSE "sf_ip6_reass"

\* A packet as it comes to an IP node
AtIp(p, w) ==
  /\ Window(p, w) /\ VlanBefore(p, w, IpStart(p)) /\ w.cur = IpStart(p)
  /\ w.err = FALSE /\ w.ip_cnt = 0 /\ w.l4_cnt = 0
  /\ IsIp(p) /\ TagsThere(p)

\* What the IP nodes do to packet p
IpWhole(p, r) ==
  /\ r.w.ip_cnt = 1 /\ r.w.err = FALSE /\ VlanBefore(p, r.w, IpStart(p))
  /\ r.w.ip.off = IpStart(p) /\ r.w.ip.off + r.w.ip.hlen = IpEnd(p)
  /\ r.w.ip.frag = IsFrag(p) /\ r.w.ip.plen = PLen(p, r.w.ip.hlen)
  /\ r.w.cur = IF IsFrag(p) THEN IpStart(p) ELSE IpEnd(p)
  /\ r.next = IpNext(p)

IpOk(p, r) ==
  /\ Window(p, r.w) /\ r.w.l4_cnt = 0
  /\ r.w.vlans = 1 => r.w.vlan.off + r.w.vlan.hlen <= EndOf(p)
  /\ IsIp(p) /\ TagsThere(p) /\ IpThere(p) => IpWhole(p, r)
  /\ ~(IsIp(p) /\ TagsThere(p) /\ IpThere(p)) =>
       /\ r.w.ip_cnt = 0 /\ r.next = "sf_acl_entry"
       /\ r.w.err = (IsIp(p) /\ TagsThere(p))

\* The VLAN layer of a packet lies before its window.
LEMMA VlanInside ==
  ASSUME NEW p \in Packet, NEW w, Window(p, w), NEW c \in Nat, VlanBefore(p, w, c),
         c <= w.cur
  PROVE  w.vlans = 1 => w.vlan.off + w.vlan.hlen <= EndOf(p)
<1>1. w.cur \in Nat /\ w.len \in Nat /\ w.cur + w.len = EndOf(p)
  BY Width DEF Window, Wdata
<1>2. w.vlan.off \in Nat /\ w.vlan.hlen \in Nat
  BY DEF Window, Wdata, Layer
<1>3. w.vlans = 1 => w.vlan.off + w.vlan.hlen <= c
  BY DEF VlanBefore
<1> QED BY <1>1, <1>2, <1>3

LEMMA IpRecorded ==
  ASSUME NEW p \in Packet, NEW w, AtIp(p, w), IpThere(p), NEW v \in {4, 6},
         NEW proto \in {"none", "tcp", "udp", "opt", "invalid"}, NEW h \in Nat, h <= w.len,
         IpStart(p) + h = IpEnd(p), NEW r,
         LET x == UpdateIp(w, v, proto, h, PLen(p, h), IsFrag(p))
         IN r = To(IF IsFrag(p) THEN x ELSE Advance(x, h), IpNext(p))
  PROVE  IpOk(p, r)
<1> DEFINE x == UpdateIp(w, v, proto, h, PLen(p, h), IsFrag(p))
           y == IF IsFrag(p) THEN x ELSE Advance(x, h)
<1>0. /\ w \in Wdata /\ w.cur + w.len = EndOf(p) /\ w.cur >= L2Offset
      /\ w.cur = IpStart(p) /\ IpStart(p) \in Nat /\ EndOf(p) \in Nat
      /\ VlanBefore(p, w, IpStart(p)) /\ w.err = FALSE /\ w.ip_cnt = 0 /\ w.l4_cnt = 0
  BY PacketFact DEF AtIp, Window
<1>1. h \in 0..U16 - 1 /\ w.len \in Nat
  BY <1>0, Width DEF Wdata
<1>2. PLen(p, h) \in 0..U16 - 1 /\ IsFrag(p) \in BOOLEAN
  BY <1>1, PLenFact DEF IsFrag
<1>3. /\ x \in Wdata /\ x.ip_cnt = 1 /\ x.ip.off = w.cur /\ x.ip.hlen = h
      /\ x.ip.plen = PLen(p, h) /\ x.ip.frag = IsFrag(p)
      /\ x.cur = w.cur /\ x.len = w.len /\ x.err = w.err
      /\ x.vlans = w.vlans /\ x.vlan = w.vlan /\ x.l4_cnt = w.l4_cnt
  BY <1>0, <1>2, UpdateIpFact
<1> HIDE DEF x
<1>4. /\ y \in Wdata /\ y.ip_cnt = 1 /\ y.ip = x.ip
      /\ y.cur = (IF IsFrag(p) THEN w.cur ELSE w.cur + h)
      /\ y.len = (IF IsFrag(p) THEN w.len ELSE w.len - h)
      /\ y.err = w.err /\ y.vlans = w.vlans /\ y.vlan = w.vlan
      /\ y.l4_cnt = w.l4_cnt
  <2>1. CASE IsFrag(p)
    BY <2>1, <1>3
  <2>2. CASE ~IsFrag(p)
    BY <2>2, <1>3, AdvanceFact
  <2> QED BY <2>1, <2>2
<1>5. r.w = y /\ r.next = IpNext(p)
  BY ToParts DEF x
<1> HIDE DEF y
<1>6. Window(p, y)
  BY <1>0, <1>1, <1>4, L2OffsetAssumption DEF Window
<1>7. VlanBefore(p, y, IpStart(p)) /\ IpStart(p) <= y.cur
  BY <1>0, <1>1, <1>4 DEF VlanBefore
<1>8. y.vlans = 1 => y.vlan.off + y.vlan.hlen <= EndOf(p)
  BY <1>0, <1>6, <1>7, VlanInside
<1>9. IpWhole(p, r)
  BY <1>0, <1>3, <1>4, <1>5, <1>7 DEF IpWhole
<1> QED BY <1>0, <1>4, <1>5, <1>6, <1>8, <1>9 DEF IpOk, AtIp

LEMMA IpRefused ==
  ASSUME NEW p \in Packet, NEW w, AtIp(p, w), ~IpThere(p), NEW r,
         r = To(SetError(w), "sf_acl_entry")
  PROVE  IpOk(p, r)
<1> DEFINE y == SetError(w)
<1>1. /\ y \in Wdata /\ y.err = TRUE /\ y.cur = w.cur /\ y.len = w.len
      /\ y.vlans = w.vlans /\ y.vlan = w.vlan
      /\ y.ip_cnt = w.ip_cnt /\ y.l4_cnt = w.l4_cnt
  BY SetErrorFact DEF AtIp, Window
<1>2. r.w = y /\ r.next = "sf_acl_entry"
  BY ToParts
<1> HIDE DEF y
<1>3. Window(p, y) /\ VlanBefore(p, y, IpStart(p)) /\ IpStart(p) <= y.cur
  BY <1>1, PacketFact DEF AtIp, Window, VlanBefore
<1>4. y.vlans = 1 => y.vlan.off + y.vlan.hlen <= EndOf(p)
  BY <1>3, PacketFact, VlanInside
<1> QED BY <1>1, <1>2, <1>3, <1>4 DEF IpOk, AtIp

LEMMA Ip4Result ==
  ASSUME NEW p \in Packet, NEW w, AtIp(p, w), p.l3 = "ipv4"
  PROVE  IpOk(p, Ip4Decode(w, p))
<1>0. /\ p.hlen \in Nat /\ p.frag \in BOOLEAN /\ p.proto \in {"tcp", "udp", "none", "invalid"}
      /\ IpStart(p) \in Nat
  BY PacketFact
<1>1. Len(IpHdr(p)) = 1 /\ HdrEnd(p, 1) = IpStart(p) + p.hlen
  BY HdrEnd4
<1>2. IsFrag(p) = p.frag
  BY <1>0 DEF IsFrag, IsIp, FragHdr
<1>3. LastIpHdr(p) = 1
  BY <1>1, <1>2 DEF LastIpHdr, LastHdr, FragHdr
<1>4. IpEnd(p) = IpStart(p) + p.hlen
  BY <1>1, <1>3 DEF IpEnd
<1>5. /\ w.len \in Nat /\ IpStart(p) + w.len = EndOf(p) /\ w.ip_cnt = 0
  BY Width DEF AtIp, Window, Wdata
<1>6. IpThere(p) <=> p.hlen <= w.len
  BY <1>0, <1>3, <1>4, <1>5 DEF IpThere, NamesInvalid
<1>7. CASE w.len < p.hlen
  <2>1. Ip4Decode(w, p) = To(SetError(w), "sf_acl_entry")
    BY <1>5, <1>7 DEF Ip4Decode, MAX_IP_WDATA
  <2> QED BY <2>1, <1>0, <1>5, <1>6, <1>7, IpRefused
<1>8. CASE p.hlen <= w.len
  <2> DEFINE x == UpdateIp(w, 4, p.proto, p.hlen, PLen(p, p.hlen), IsFrag(p))
  <2>1. x = UpdateIp4(w, p)
    BY <1>2 DEF UpdateIp, UpdateIp4, PLen
  <2>2. Ip4Next(p.proto) = L4Next(p)
    BY DEF Ip4Next, L4Next
  <2>3. Ip4Decode(w, p) = IF p.frag THEN To(UpdateIp4(w, p), "sf_ip4_reass")
                          ELSE To(Advance(UpdateIp4(w, p), p.hlen), Ip4Next(p.proto))
    BY <1>0, <1>5, <1>8 DEF Ip4Decode, MAX_IP_WDATA
  <2> HIDE DEF x
  <2>4. Ip4Decode(w, p) = To(IF IsFrag(p) THEN x ELSE Advance(x, p.hlen), IpNext(p))
    BY <1>2, <2>1, <2>2, <2>3 DEF IpNext
  <2>5. IpThere(p) /\ 4 \in {4, 6} /\ p.proto \in {"none", "tcp", "udp", "opt", "invalid"}
    BY <1>0, <1>6, <1>8
  <2> QED BY <1>0, <1>4, <1>8, <2>4, <2>5, IpRecorded DEF x
<1> QED BY <1>0, <1>5, <1>7, <1>8

\* A set of numbers up to n has a least and a greatest element.
LEMMA LeastOf ==
  ASSUME NEW S, S \subseteq Nat, S # {}
  PROVE  \E m \in S : \A k \in S : m <= k
<1> DEFINE R == OpToRel(<, Nat)
<1>1. \E m \in S : \A k \in S : ~(<<k, m>> \in R)
  <2>1. IsWellFoundedOn(R, Nat)
    BY NatLessThanWellFounded
  <2> HIDE DEF R
  <2> QED BY <2>1, WFMin
<1>2. PICK m \in S : \A k \in S : ~(<<k, m>> \in R)
  BY <1>1
<1>3. \A k \in S : m <= k
  <2> TAKE k \in S
  <2>1. m \in Nat /\ k \in Nat
    OBVIOUS
  <2>2. ~(k < m)
    BY <1>2, <2>1 DEF OpToRel
  <2> QED BY <2>1, <2>2
<1> QED BY <1>3

LEMMA GreatestOf ==
  ASSUME NEW n \in Nat, NEW S, S \subseteq 0..n, S # {}
  PROVE  \E m \in S : \A k \in S : k <= m
<1> DEFINE T == {j \in 0..n : n - j \in S}
<1>1. T \subseteq Nat /\ T # {}
  <2>1. PICK k \in S : k \in 0..n
    OBVIOUS
  <2>2. n - k \in 0..n /\ n - (n - k) = k
    BY <2>1
  <2>3. n - k \in T
    BY <2>1, <2>2
  <2>4. T \subseteq Nat
    OBVIOUS
  <2> HIDE DEF T
  <2> QED BY <2>3, <2>4
<1> HIDE DEF T
<1>2. PICK j \in T : \A i \in T : j <= i
  BY <1>1, LeastOf
<1>3. j \in 0..n /\ n - j \in S
  BY <1>2 DEF T
<1>4. ASSUME NEW k \in S PROVE k <= n - j
  <2>1. k \in 0..n /\ n - k \in 0..n /\ n - (n - k) = k
    OBVIOUS
  <2>2. n - k \in T
    BY <2>1 DEF T
  <2>3. j <= n - k
    BY <1>2, <2>2
  <2> QED BY <1>3, <2>1, <2>3
<1> QED BY <1>3, <1>4

\* The extension header the walk should reach: the one that makes the packet
\* a fragment, or the last one
LastExt(p) == LastIpHdr(p) - 1

LEMMA LastExtFact ==
  ASSUME NEW p \in Packet, p.l3 = "ipv6"
  PROVE  /\ LastExt(p) \in 0..Len(p.ext) /\ LastIpHdr(p) = LastExt(p) + 1
         /\ FragAt(p, LastExt(p)) <=> IsFrag(p)
         /\ \A i \in 0..Len(p.ext) : i < LastExt(p) => ~FragAt(p, i)
         /\ ~IsFrag(p) => LastExt(p) = Len(p.ext)
<1> DEFINE n == Len(p.ext)
           F == FragHdr(p)
<1>0. n \in Nat
  BY PacketFact
<1>1. F = {i \in 2..n + 1 : p.ext[i-1].k = "frag" /\ p.ext[i-1].frag}
  BY DEF FragHdr
<1>2. IsFrag(p) <=> F # {}
  BY DEF IsFrag, IsIp
<1>3. Len(IpHdr(p)) = n + 1
  BY HdrEnd6
<1> HIDE DEF n, F
<1>4. \A i \in 1..n : FragAt(p, i) <=> i + 1 \in F
  <2> TAKE i \in 1..n
  <2>1. i + 1 \in 2..n + 1 /\ (i + 1) - 1 = i /\ i > 0
    BY <1>0
  <2> QED BY <1>1, <2>1 DEF FragAt
<1>5. F \subseteq Nat /\ F \subseteq 2..n + 1
  BY <1>0, <1>1
<1>6. ~FragAt(p, 0)
  BY DEF FragAt
<1>7. CASE F = {}
  <2>1. ~IsFrag(p) /\ LastIpHdr(p) = n + 1
    BY <1>2, <1>3, <1>7 DEF LastIpHdr
  <2>2. LastExt(p) = n
    BY <1>0, <2>1 DEF LastExt
  <2>3. \A i \in 0..n : ~FragAt(p, i)
    BY <1>0, <1>4, <1>6, <1>7
  <2> QED BY <1>0, <2>1, <2>2, <2>3 DEF n
<1>8. CASE F # {}
  <2> DEFINE m == CHOOSE i \in F : \A k \in F : i <= k
  <2>1. m \in F /\ \A k \in F : m <= k
    <3>1. \E i \in F : \A k \in F : i <= k
      BY <1>5, <1>8, LeastOf
    <3> QED BY <3>1
  <2>2. IsFrag(p) /\ LastIpHdr(p) = m
    BY <1>2, <1>8 DEF LastIpHdr, LastHdr, F
  <2> HIDE DEF m
  <2>3. m \in 2..n + 1 /\ LastExt(p) = m - 1 /\ m - 1 \in 1..n /\ (m - 1) + 1 = m
    BY <1>0, <1>5, <2>1, <2>2 DEF LastExt
  <2>4. FragAt(p, m - 1)
    BY <1>4, <2>1, <2>3
  <2>5. \A i \in 0..n : i < m - 1 => ~FragAt(p, i)
    <3> SUFFICES ASSUME NEW i \in 0..n, i < m - 1, FragAt(p, i) PROVE FALSE
      OBVIOUS
    <3>1. i \in 1..n
      BY <1>0, <1>6
    <3>2. i + 1 \in F
      BY <1>4, <3>1
    <3> QED BY <2>1, <2>3, <3>1, <3>2
  <2> QED BY <1>0, <2>2, <2>3, <2>4, <2>5 DEF n
<1> QED BY <1>7, <1>8

\* The walk over the extension headers reaches LastExt if everything up to it
\* is there, and otherwise stops before it.
LEMMA PassedFact ==
  ASSUME NEW p \in Packet, p.l3 = "ipv6", NEW w, w.len \in Nat
  PROVE  /\ Passed(w, p) \in 0..LastExt(p)
         /\ \A i \in 1..Passed(w, p) : w.len > ExtLen(p, i)
         /\ (LastExt(p) > 0 => w.len > ExtLen(p, LastExt(p))) =>
               Passed(w, p) = LastExt(p)
<1> DEFINE n == Len(p.ext)
           e == LastExt(p)
           W == Walked(w, p)
           m == Passed(w, p)
<1>0. n \in Nat /\ e \in 0..n /\ (FragAt(p, e) <=> IsFrag(p))
      /\ (~IsFrag(p) => e = n) /\ \A i \in 0..n : i < e => ~FragAt(p, i)
  BY PacketFact, LastExtFact
<1>1. W = {k \in 0..n : \A i \in 1..k : w.len > ExtLen(p, i) /\ ~FragAt(p, i-1)}
  BY DEF Walked
<1>2. m = CHOOSE k \in W : \A j \in W : j <= k
  BY DEF Passed
<1>3. \A i, j \in 0..n : i <= j => ExtLen(p, i) <= ExtLen(p, j)
  BY ExtLenFact
<1>4. \A i \in 0..n : ExtLen(p, i) \in Nat
  BY ExtLenFact
<1> HIDE DEF n, e, W, m
<1>5. 0 \in W /\ W \subseteq 0..n
  BY <1>0, <1>1
<1>6. m \in W /\ \A j \in W : j <= m
  <2>1. \E k \in W : \A j \in W : j <= k
    BY <1>0, <1>5, GreatestOf
  <2> QED BY <1>2, <2>1
<1>7. m <= e
  <2> SUFFICES ASSUME m > e PROVE FALSE
    BY <1>0, <1>5, <1>6
  <2>1. m \in 0..n /\ e < n /\ FragAt(p, e)
    BY <1>0, <1>5, <1>6
  <2>2. e + 1 \in 1..m /\ (e + 1) - 1 = e
    BY <1>0, <2>1
  <2>3. ~FragAt(p, (e + 1) - 1)
    BY <1>1, <1>6, <2>2
  <2> QED BY <2>1, <2>2, <2>3
<1>8. m \in 0..e /\ \A i \in 1..m : w.len > ExtLen(p, i)
  BY <1>0, <1>1, <1>5, <1>6, <1>7
<1>9. ASSUME e > 0 => w.len > ExtLen(p, e)
      PROVE  m = e
  <2>1. ASSUME NEW i \in 1..e
        PROVE  w.len > ExtLen(p, i) /\ ~FragAt(p, i-1)
    <3>1. i \in 0..n /\ i - 1 \in 0..n /\ i - 1 < e /\ i <= e /\ e > 0
      BY <1>0
    <3>2. ExtLen(p, i) <= ExtLen(p, e)
      BY <1>0, <1>3, <3>1
    <3>3. ExtLen(p, i) \in Nat /\ ExtLen(p, e) \in Nat
      BY <1>0, <1>4, <3>1
    <3> QED BY <1>0, <1>9, <3>1, <3>2, <3>3
  <2>2. e \in W
    BY <1>0, <1>1, <2>1
  <2> QED BY <1>0, <1>6, <1>8, <2>2
<1> QED BY <1>8, <1>9 DEF m, e

LEMMA Ip6Result ==
  ASSUME NEW p \in Packet, NEW w, AtIp(p, w), p.l3 = "ipv6"
  PROVE  IpOk(p, Ip6DecodeOne(w, p))
<1> DEFINE e == LastExt(p)
           m == Passed(w, p)
           n == Len(p.ext)
           r == ParseIp6(w, p)
<1>0. n \in Nat /\ IpStart(p) \in Nat /\ p.proto \in {"tcp", "udp", "none", "invalid"}
  BY PacketFact
<1>1. /\ e \in 0..n /\ LastIpHdr(p) = e + 1 /\ (FragAt(p, e) <=> IsFrag(p))
      /\ (~IsFrag(p) => e = n) /\ \A i \in 0..n : i < e => ~FragAt(p, i)
  BY LastExtFact
<1>2. w.len \in Nat /\ IpStart(p) + w.len = EndOf(p) /\ w.ip_cnt = 0
  BY Width DEF AtIp, Window, Wdata
<1>3. /\ m \in 0..e /\ \A i \in 1..m : w.len > ExtLen(p, i)
      /\ (e > 0 => w.len > ExtLen(p, e)) => m = e
  BY <1>2, PassedFact
<1>4. IpEnd(p) = IpStart(p) + ExtLen(p, e)
  BY <1>1, HdrEnd6 DEF IpEnd
<1>a. NamesInvalid(p) <=> p.proto = "invalid" /\ e = n
  BY <1>0, <1>1, HdrEnd6 DEF NamesInvalid
<1>5. /\ ExtLen(p, 0) = 40 /\ ExtLen(p, e) \in Nat /\ ExtLen(p, 0) <= ExtLen(p, e)
  <2>1. 0 \in 0..n /\ 0 <= e
    BY <1>0, <1>1
  <2> QED BY <1>1, <2>1, ExtLenFact
<1>6. r = IF w.len < 40
          THEN [protocol |-> "invalid", hlen |-> 0, frag |-> FALSE]
          ELSE [protocol |-> IF m = n THEN p.proto
                             ELSE IF FragAt(p, m) THEN "opt" ELSE "invalid",
                hlen |-> ExtLen(p, m), frag |-> FragAt(p, m)]
  BY DEF ParseIp6, IPV6_HEADER_LEN
<1>7. Ip6DecodeOne(w, p) = IF r.protocol = "invalid" THEN To(SetError(w), "sf_acl_entry")
                           ELSE RecordIp6(w, p, r)
  BY <1>2 DEF Ip6DecodeOne, MAX_IP_WDATA
<1> HIDE DEF e, m, n, r
<1>8. CASE IpThere(p)
  <2>1. w.len >= ExtLen(p, e) /\ (e > 0 => w.len > ExtLen(p, e))
    BY <1>0, <1>1, <1>2, <1>4, <1>5, <1>8 DEF IpThere
  <2>2. m = e /\ ~(w.len < 40)
    BY <1>2, <1>3, <1>5, <2>1
  <2>3. /\ r.hlen = ExtLen(p, e) /\ r.frag = FragAt(p, e)
        /\ r.protocol = IF e = n THEN p.proto
                        ELSE IF FragAt(p, e) THEN "opt" ELSE "invalid"
    BY <1>6, <2>2
  <2>4. r.frag = IsFrag(p)
    BY <1>1, <2>3 DEF FragAt, IsFrag
  <2>5. r.protocol # "invalid" /\ r.protocol \in {"none", "tcp", "udp", "opt", "invalid"}
    <3>1. ~(p.proto = "invalid" /\ e = n)
      BY <1>8, <1>a DEF IpThere
    <3> QED BY <1>0, <1>1, <2>3, <3>1
  <2>6. ~IsFrag(p) => r.protocol = p.proto
    BY <1>1, <2>3
  <2> DEFINE x == UpdateIp(w, 6, r.protocol, r.hlen, PLen(p, r.hlen), IsFrag(p))
  <2>7. x = UpdateIp6(w, p, r)
    BY <2>4 DEF UpdateIp, UpdateIp6, PLen
  <2>8. Ip6Next(r.protocol, r.frag) = IpNext(p)
    BY <2>4, <2>6 DEF Ip6Next, IpNext, L4Next
  <2> HIDE DEF x
  <2>9. Ip6DecodeOne(w, p) = To(IF IsFrag(p) THEN x ELSE Advance(x, r.hlen), IpNext(p))
    BY <1>7, <2>4, <2>5, <2>7, <2>8 DEF RecordIp6
  <2>10. r.hlen \in Nat /\ r.hlen <= w.len /\ IpStart(p) + r.hlen = IpEnd(p) /\ 6 \in {4, 6}
    BY <1>2, <1>4, <1>5, <2>1, <2>3
  <2> DEFINE d == Ip6DecodeOne(w, p)
             q == r.protocol
             h == r.hlen
  <2>11. /\ x = UpdateIp(w, 6, q, h, PLen(p, h), IsFrag(p)) /\ h <= w.len
         /\ d = To(IF IsFrag(p) THEN x ELSE Advance(x, h), IpNext(p))
         /\ q \in {"none", "tcp", "udp", "opt", "invalid"} /\ h \in Nat /\ IpStart(p) + h = IpEnd(p)
    BY <2>5, <2>9, <2>10 DEF x
  <2> HIDE DEF d, q, h
  <2>12. IpOk(p, d)
    BY <1>8, <2>10, <2>11, IpRecorded
  <2> QED BY <2>12 DEF d
<1>9. CASE ~IpThere(p)
  <2> DEFINE Short == e > 0 /\ w.len <= ExtLen(p, e)
  <2>1. CASE w.len < 40
    <3>1. r.protocol = "invalid"
      BY <1>6, <2>1
    <3> QED BY <1>7, <1>9, <3>1, IpRefused
  <2>2. CASE ~(w.len < 40) /\ ~Short
    <3>1. m = e /\ NamesInvalid(p)
      BY <1>0, <1>1, <1>2, <1>3, <1>4, <1>5, <1>9, <2>2 DEF IpThere
    <3>2. r.protocol = "invalid"
      BY <1>6, <1>a, <2>2, <3>1
    <3> QED BY <1>7, <1>9, <3>2, IpRefused
  <2>3. CASE ~(w.len < 40) /\ Short
    <3>1. e > 0 /\ w.len <= ExtLen(p, e)
      BY <2>3
    <3>2. m < e
      <4> SUFFICES ASSUME m = e PROVE FALSE
        BY <1>1, <1>3
      <4>1. e \in 1..m
        BY <1>1, <3>1
      <4>2. w.len > ExtLen(p, e)
        BY <1>3, <4>1
      <4> QED BY <1>2, <1>5, <3>1, <4>2
    <3>3. m # n /\ m \in 0..n
      BY <1>0, <1>1, <1>3, <3>2
    <3>4. ~FragAt(p, m)
      BY <1>1, <3>2, <3>3
    <3>5. r.protocol = "invalid"
      BY <1>6, <2>3, <3>3, <3>4
    <3> QED BY <1>7, <1>9, <3>5, IpRefused
  <2> QED BY <2>1, <2>2, <2>3
<1> QED BY <1>8, <1>9

-----------------------------------------------------------------------------
(* The stages of a packet                                                  *)

LEMMA IpResult ==
  ASSUME NEW p \in Packet
  PROVE  IpOk(p, AfterIp(p))
<1> DEFINE r == AfterEth(p)
<1>1. EthOk(p, r)
  BY EthResult
<1> HIDE DEF r
<1>2. CASE IsIp(p) /\ TagsThere(p)
  <2>1. AtIp(p, r.w)
    BY <1>1, <1>2 DEF EthOk, AtIp
  <2>2. CASE p.l3 = "ipv4"
    <3>1. AfterIp(p) = Ip4Decode(r.w, p)
      BY <1>1, <1>2, <2>2 DEF EthOk, AfterIp, r
    <3> QED BY <2>1, <2>2, <3>1, Ip4Result
  <2>3. CASE p.l3 = "ipv6"
    <3>1. AfterIp(p) = Ip6DecodeOne(r.w, p)
      BY <1>1, <1>2, <2>3 DEF EthOk, AfterIp, r
    <3> QED BY <2>1, <2>3, <3>1, Ip6Result
  <2> QED BY <1>2, <2>2, <2>3 DEF IsIp
<1>3. CASE ~(IsIp(p) /\ TagsThere(p))
  <2>1. AfterIp(p) = r
    BY <1>1, <1>3 DEF EthOk, AfterIp, r
  <2>2. r.w.cur \in Nat
    BY <1>1 DEF EthOk, Window, Wdata
  <2>3. r.w.vlans = 1 => r.w.vlan.off + r.w.vlan.hlen <= EndOf(p)
    BY <1>1, <2>2, VlanInside DEF EthOk
  <2> QED BY <1>1, <1>3, <2>1, <2>3 DEF EthOk, IpOk
<1> QED BY <1>2, <1>3

\* The IP headers of a packet are there, and its L4 header.
IpFound(p) == IsIp(p) /\ TagsThere(p) /\ IpThere(p)
L4There(p) == IpEnd(p) + p.l4len <= EndOf(p)

LEMMA IpEndFact ==
  ASSUME NEW p \in Packet, IsIp(p)
  PROVE  IpEnd(p) \in Nat /\ IpStart(p) <= IpEnd(p)
<1>0. IpStart(p) \in Nat /\ p.hlen \in Nat
  BY PacketFact
<1>1. CASE p.l3 = "ipv4"
  <2>1. Len(IpHdr(p)) = 1 /\ HdrEnd(p, 1) = IpStart(p) + p.hlen
    BY <1>1, HdrEnd4
  <2>2. LastIpHdr(p) = 1
    BY <1>1, <2>1 DEF LastIpHdr, LastHdr, FragHdr, IsFrag
  <2> QED BY <1>0, <2>1, <2>2 DEF IpEnd
<1>2. CASE p.l3 = "ipv6"
  <2>1. LastExt(p) \in 0..Len(p.ext) /\ LastIpHdr(p) = LastExt(p) + 1
    BY <1>2, LastExtFact
  <2>2. IpEnd(p) = IpStart(p) + ExtLen(p, LastExt(p))
    BY <1>2, <2>1, HdrEnd6 DEF IpEnd
  <2>3. ExtLen(p, LastExt(p)) \in Nat
    BY <2>1, ExtLenFact
  <2> QED BY <1>0, <2>2, <2>3
<1> QED BY <1>1, <1>2 DEF IsIp

\* The layers that are recorded in the end
LayersOk(p, w) ==
  /\ w.vlans = 1 => w.vlan.off + w.vlan.hlen <= EndOf(p)
  /\ ~IpFound(p) =>
       w.ip_cnt = 0 /\ w.l4_cnt = 0 /\ w.err = (IsIp(p) /\ TagsThere(p))
  /\ IpFound(p) =>
       /\ w.ip_cnt = 1 /\ VlanBefore(p, w, IpStart(p))
       /\ w.ip.off = IpStart(p) /\ w.ip.off + w.ip.hlen = IpEnd(p)
       /\ w.ip.frag = IsFrag(p) /\ w.ip.plen = PLen(p, w.ip.hlen)
       /\ ~HasL4(p) => w.l4_cnt = 0 /\ w.err = FALSE
       /\ HasL4(p) /\ ~L4There(p) => w.l4_cnt = 0 /\ w.err = TRUE
       /\ HasL4(p) /\ L4There(p) =>
            /\ w.l4_cnt = 1 /\ w.err = FALSE
            /\ w.l4.off = IpEnd(p) /\ w.l4.hlen = p.l4len

\* What the L4 nodes do to packet p
L4Ok(p, r) ==
  /\ Window(p, r.w) /\ LayersOk(p, r.w)
  /\ IpFound(p) /\ IsFrag(p) =>
       /\ r.w.cur = IpStart(p)
       /\ r.next = IF p.l3 = "ipv4" THEN "sf_ip4_reass" ELSE "sf_ip6_reass"
  /\ ~(IpFound(p) /\ IsFrag(p)) => r.next = "sf_acl_entry"

\* The L4 header is recorded if it is there, and marked as in error if not.
LEMMA L4Recorded ==
  ASSUME NEW p \in Packet, NEW r, IpOk(p, r), IpFound(p), HasL4(p), NEW s,
         s = To(IF r.w.len < p.l4len THEN SetError(r.w)
                ELSE Advance(UpdateL4(r.w, p.l4len), p.l4len), "sf_acl_entry")
  PROVE  L4Ok(p, s)
<1> DEFINE w == r.w
           x == UpdateL4(w, p.l4len)
           y == IF w.len < p.l4len THEN SetError(w) ELSE Advance(x, p.l4len)
<1>0. IpStart(p) \in Nat /\ EndOf(p) \in Nat /\ p.l4len \in Nat /\ L2Offset \in Nat
  BY PacketFact, L2OffsetAssumption
<1>1. ~IsFrag(p) /\ IsIp(p) /\ IpEnd(p) \in Nat
  BY IpEndFact DEF HasL4
<1>2. /\ w \in Wdata /\ w.cur + w.len = EndOf(p) /\ w.cur >= L2Offset
      /\ w.l4_cnt = 0 /\ (w.vlans = 1 => w.vlan.off + w.vlan.hlen <= EndOf(p))
  BY DEF IpOk, Window
<1>3. /\ w.ip_cnt = 1 /\ w.err = FALSE /\ VlanBefore(p, w, IpStart(p))
      /\ w.ip.off = IpStart(p) /\ w.ip.off + w.ip.hlen = IpEnd(p)
      /\ w.ip.frag = IsFrag(p) /\ w.ip.plen = PLen(p, w.ip.hlen)
      /\ w.cur = IpEnd(p)
  BY <1>1 DEF IpOk, IpFound, IpWhole
<1>4. w.len \in Nat /\ w.cur \in Nat
  BY <1>2, Width DEF Wdata
<1>5. s.w = y /\ s.next = "sf_acl_entry"
  BY ToParts
<1> HIDE DEF w
<1>6. L4There(p) <=> ~(w.len < p.l4len)
  BY <1>0, <1>1, <1>2, <1>3, <1>4 DEF L4There
<1>7. CASE w.len < p.l4len
  <2>1. /\ y \in Wdata /\ y.err = TRUE /\ y.cur = w.cur /\ y.len = w.len
        /\ y.vlans = w.vlans /\ y.vlan = w.vlan
        /\ y.ip_cnt = w.ip_cnt /\ y.ip = w.ip /\ y.l4_cnt = w.l4_cnt
    BY <1>2, <1>7, SetErrorFact
  <2> HIDE DEF y
  <2>2. Window(p, y)
    BY <1>2, <2>1 DEF Window
  <2>3. LayersOk(p, y)
    BY <1>2, <1>3, <1>6, <1>7, <2>1 DEF LayersOk, VlanBefore
  <2> QED BY <1>1, <1>5, <2>2, <2>3 DEF L4Ok
<1>8. CASE ~(w.len < p.l4len)
  <2>1. /\ x \in Wdata /\ x.l4_cnt = 1 /\ x.l4 = [off |-> w.cur, hlen |-> p.l4len]
        /\ x.cur = w.cur /\ x.len = w.len /\ x.err = w.err
        /\ x.vlans = w.vlans /\ x.vlan = w.vlan
        /\ x.ip_cnt = w.ip_cnt /\ x.ip = w.ip
    BY <1>0, <1>2, UpdateL4Fact
  <2> HIDE DEF x
  <2>2. /\ y \in Wdata /\ y.cur = w.cur + p.l4len /\ y.len = w.len - p.l4len
        /\ y.err = w.err /\ y.vlans = w.vlans /\ y.vlan = w.vlan
        /\ y.ip_cnt = w.ip_cnt /\ y.ip = w.ip
        /\ y.l4_cnt = 1 /\ y.l4 = x.l4
    BY <1>0, <1>4, <1>8, <2>1, AdvanceFact
  <2> HIDE DEF y
  <2>3. Window(p, y)
    BY <1>0, <1>2, <1>4, <2>2 DEF Window
  <2>4. y.l4.off = IpEnd(p) /\ y.l4.hlen = p.l4len
    BY <1>3, <2>1, <2>2
  <2>5. LayersOk(p, y)
    BY <1>2, <1>3, <1>6, <1>8, <2>2, <2>4 DEF LayersOk, VlanBefore
  <2> QED BY <1>1, <1>5, <2>3, <2>5 DEF L4Ok
<1> QED BY <1>7, <1>8

LEMMA L4Result ==
  ASSUME NEW p \in Packet
  PROVE  L4Ok(p, AfterL4(p))
<1> DEFINE r == AfterIp(p)
<1>0. p.proto \in {"tcp", "udp", "none", "invalid"} /\ (p.proto = "udp" => p.l4len = 8)
  BY PacketFact
<1>1. IpOk(p, r)
  BY IpResult
<1> HIDE DEF r
<1>2. CASE IpFound(p) /\ HasL4(p)
  <2>1. r.next = L4Next(p) /\ p.proto \in {"tcp", "udp"}
    BY <1>1, <1>2 DEF IpOk, IpFound, IpWhole, IpNext, HasL4
  <2>2. CASE p.proto = "tcp"
    <3>1. AfterL4(p) = TcpDecode(r.w, p)
      BY <2>1, <2>2 DEF AfterL4, L4Next, r
    <3> QED BY <1>1, <1>2, <3>1, L4Recorded DEF TcpDecode
  <2>3. CASE p.proto = "udp"
    <3>1. AfterL4(p) = UdpDecode(r.w, p)
      BY <2>1, <2>3 DEF AfterL4, L4Next, r
    <3>2. UDP_HEADER_LEN = p.l4len
      BY <1>0, <2>3 DEF UDP_HEADER_LEN
    <3> QED BY <1>1, <1>2, <3>1, <3>2, L4Recorded DEF UdpDecode
  <2> QED BY <2>1, <2>2, <2>3
<1>3. CASE IpFound(p) /\ ~HasL4(p)
  <2>1. IpWhole(p, r)
    BY <1>1, <1>3 DEF IpOk, IpFound
  <2>2. r.next = IF ~IsFrag(p) THEN "sf_acl_entry"
                 ELSE IF p.l3 = "ipv4" THEN "sf_ip4_reass" ELSE "sf_ip6_reass"
    BY <1>0, <1>3, <2>1 DEF IpWhole, IpNext, L4Next, HasL4, IpFound
  <2>3. AfterL4(p) = r
    BY <2>2 DEF AfterL4, r
  <2>4. LayersOk(p, r.w)
    BY <1>1, <1>3, <2>1 DEF IpOk, IpWhole, LayersOk
  <2> QED BY <1>1, <1>3, <2>1, <2>2, <2>3, <2>4 DEF L4Ok, IpOk, IpWhole
<1>4. CASE ~IpFound(p)
  <2>1. r.next = "sf_acl_entry" /\ r.w.ip_cnt = 0 /\ r.w.err = (IsIp(p) /\ TagsThere(p))
    BY <1>1, <1>4 DEF IpOk, IpFound
  <2>2. AfterL4(p) = r
    BY <2>1 DEF AfterL4, r
  <2>3. LayersOk(p, r.w)
    BY <1>1, <1>4, <2>1 DEF IpOk, LayersOk
  <2> QED BY <1>1, <1>4, <2>1, <2>2, <2>3 DEF L4Ok, IpOk
<1> QED BY <1>2, <1>3, <1>4

\* What the whole decoding does to packet p
DecodedOk(p, r) ==
  /\ Window(p, r.w) /\ LayersOk(p, r.w)
  /\ IpFound(p) /\ IsFrag(p) =>
       /\ r.w.cur = IpStart(p)
       /\ r.next = IF p.l3 = "ipv4" THEN "sf_ip4_reass" ELSE "sf_ip6_reass"
  /\ ~(IpFound(p) /\ IsFrag(p)) =>
       r.next = "sf_action_main" /\ r.w.cur = L2Offset /\ r.w.len = p.len

LEMMA DecodedResult ==
  ASSUME NEW p \in Packet
  PROVE  DecodedOk(p, Decoded(p))
<1> DEFINE r == AfterL4(p)
           y == Reset(r.w)
<1>1. L4Ok(p, r)
  BY L4Result
<1> HIDE DEF r
<1>2. CASE IpFound(p) /\ IsFrag(p)
  <2>1. r.next \in {"sf_ip4_reass", "sf_ip6_reass"}
    BY <1>1, <1>2 DEF L4Ok
  <2>2. Decoded(p) = r
    BY <2>1 DEF Decoded, r
  <2> QED BY <1>1, <1>2, <2>2 DEF L4Ok, DecodedOk
<1>3. CASE ~(IpFound(p) /\ IsFrag(p))
  <2>1. Decoded(p) = To(y, "sf_action_main")
    BY <1>1, <1>3 DEF Decoded, AclEntry, L4Ok, r
  <2>2. Decoded(p).w = y /\ Decoded(p).next = "sf_action_main"
    BY <2>1, ToParts
  <2>3. /\ Window(p, y) /\ y.cur = L2Offset /\ y.len = p.len
        /\ y.err = r.w.err /\ y.vlans = r.w.vlans /\ y.vlan = r.w.vlan
        /\ y.ip_cnt = r.w.ip_cnt /\ y.ip = r.w.ip
        /\ y.l4_cnt = r.w.l4_cnt /\ y.l4 = r.w.l4
    BY <1>1, ResetFact DEF L4Ok
  <2> HIDE DEF y
  <2>4. LayersOk(p, y)
    BY <1>1, <2>3 DEF L4Ok, LayersOk, VlanBefore
  <2> QED BY <1>3, <2>2, <2>3, <2>4 DEF DecodedOk
<1> QED BY <1>2, <1>3

\* The layers of one packet, as RecordedInside has them
LayersInside(p, w) ==
  /\ w.vlans = 1 => w.vlan.off + w.vlan.hlen <= EndOf(p)
  /\ w.ip_cnt > 0 => /\ w.ip_cnt = 1
                     /\ w.ip.off + w.ip.hlen <= EndOf(p)
                     /\ VlanBefore(p, w, w.ip.off)
  /\ w.l4_cnt = 1 => /\ w.l4.off + w.l4.hlen <= EndOf(p)
                     /\ w.ip_cnt = 1 /\ ~w.ip.frag
                     /\ w.l4.off = w.ip.off + w.ip.hlen

LEMMA InsideFromLayers ==
  ASSUME NEW p \in Packet, NEW w, LayersOk(p, w)
  PROVE  LayersInside(p, w)
<1>1. CASE IpFound(p)
  <2>1. /\ w.ip_cnt = 1 /\ VlanBefore(p, w, IpStart(p)) /\ w.ip.off = IpStart(p)
        /\ w.ip.off + w.ip.hlen = IpEnd(p) /\ w.ip.frag = IsFrag(p)
        /\ w.vlans = 1 => w.vlan.off + w.vlan.hlen <= EndOf(p)
    BY <1>1 DEF LayersOk
  <2>2. IpEnd(p) <= EndOf(p)
    BY <1>1, IpEndFact, PacketFact DEF IpFound, IpThere
  <2>3. ASSUME w.l4_cnt = 1
        PROVE  /\ w.l4.off + w.l4.hlen <= EndOf(p) /\ ~w.ip.frag
               /\ w.l4.off = w.ip.off + w.ip.hlen
    <3>1. HasL4(p) /\ L4There(p)
      BY <1>1, <2>3 DEF LayersOk
    <3>2. w.l4.off = IpEnd(p) /\ w.l4.hlen = p.l4len
      BY <1>1, <3>1 DEF LayersOk
    <3> QED BY <2>1, <3>1, <3>2 DEF HasL4, L4There
  <2> QED BY <2>1, <2>2, <2>3 DEF LayersInside, VlanBefore
<1>2. CASE ~IpFound(p)
  BY <1>2 DEF LayersOk, LayersInside
<1> QED BY <1>1, <1>2

LEMMA InsideFromIp ==
  ASSUME NEW p \in Packet, NEW r, IpOk(p, r)
  PROVE  LayersInside(p, r.w)
<1>1. CASE IpFound(p)
  <2>1. IpWhole(p, r)
    BY <1>1 DEF IpOk, IpFound
  <2>2. IpEnd(p) <= EndOf(p)
    BY <1>1, IpEndFact, PacketFact DEF IpFound, IpThere
  <2> QED BY <2>1, <2>2 DEF IpOk, IpWhole, LayersInside, VlanBefore
<1>2. CASE ~IpFound(p)
  <2>1. r.w.ip_cnt = 0 /\ r.w.l4_cnt = 0
    BY <1>2 DEF IpOk, IpFound
  <2> QED BY <2>1 DEF IpOk, LayersInside
<1> QED BY <1>1, <1>2

\* At every stage the window and the layers are within the bytes received.
LEMMA StageInside ==
  ASSUME NEW p \in Packet, NEW n, NEW w, StageAt(n, p, w)
  PROVE  Window(p, w) /\ LayersInside(p, w)
<1>1. CASE n = "sf_eth_input" /\ w = RxWdata(p)
  <2>1. Window(p, w) /\ w.vlans = 0 /\ w.ip_cnt = 0 /\ w.l4_cnt = 0
    BY <1>1, RxFact
  <2> QED BY <2>1 DEF LayersInside
<1>2. CASE AfterEth(p) = To(w, n)
  <2>1. EthOk(p, AfterEth(p)) /\ AfterEth(p).w = w
    BY <1>2, EthResult, ToParts
  <2>2. Window(p, w) /\ VlanBefore(p, w, w.cur) /\ w.cur \in Nat
    BY <2>1 DEF EthOk, Window, Wdata
  <2>3. w.cur <= w.cur
    BY <2>2
  <2>4. w.vlans = 1 => w.vlan.off + w.vlan.hlen <= EndOf(p)
    BY <2>2, <2>3, VlanInside
  <2> QED BY <2>1, <2>2, <2>4 DEF EthOk, LayersInside
<1>3. CASE AfterIp(p) = To(w, n)
  BY <1>3, IpResult, InsideFromIp, ToParts DEF IpOk
<1>4. CASE AfterL4(p) = To(w, n)
  BY <1>4, L4Result, InsideFromLayers, ToParts DEF L4Ok
<1>5. CASE Decoded(p) = To(w, n)
  BY <1>5, DecodedResult, InsideFromLayers, ToParts DEF DecodedOk
<1> QED BY <1>1, <1>2, <1>3, <1>4, <1>5 DEF StageAt

-----------------------------------------------------------------------------
(* What that says of the frames                                            *)

\* Every packet is at some stage, the one of the frame it is in.
LEMMA SomeStage ==
  ASSUME DecodeInv, NEW b \in Buffer
  PROVE  pkt[b] \in Packet /\ \E n \in Nodes : StageAt(n, pkt[b], wd[b])
<1>1. pkt \in [Buffer -> Packet]
  BY Zenon DEF DecodeInv, FrameInv
<1>2. CASE \E n \in Nodes : At(b, n)
  BY <1>1, <1>2 DEF DecodeInv, StageInv, At
<1>3. CASE \E i \in DOMAIN from : from[i] = b
  <2>1. StageAt(running, pkt[b], wd[b])
    BY <1>3 DEF DecodeInv, StageInv
  <2> QED BY <1>1, <2>1, StageNode
<1> QED BY <1>2, <1>3 DEF DecodeInv, EachBufferOnce

\* A packet at an end of the decoding was decoded there.
LEMMA EndStage ==
  ASSUME DecodeInv, NEW b \in Buffer, NEW n \in Ends, At(b, n)
  PROVE  pkt[b] \in Packet /\ DecodedOk(pkt[b], To(wd[b], n))
<1>1. pkt[b] \in Packet
  BY SomeStage
<1>2. n \in Nodes
  BY DEF Nodes
<1>3. StageAt(n, pkt[b], wd[b])
  BY <1>2 DEF DecodeInv, StageInv, At
<1>4. Decoded(pkt[b]) = To(wd[b], n)
  BY <1>3 DEF StageAt, Ends
<1> QED BY <1>1, <1>4, DecodedResult

\* Whatever the headers of a packet declare and however it is cut, its window
\* and every recorded layer stay within the bytes received, and its length
\* never wraps; so it is with 256 VLAN tags or more, whose 8 bit count wraps.
THEOREM AlwaysWindowSound == DecodeSpec => []WindowSound
<1>1. DecodeInv => WindowSound
  <2> SUFFICES ASSUME DecodeInv PROVE WindowSound
    OBVIOUS
  <2>1. \A b \in Buffer : Window(pkt[b], wd[b]) /\ LayersInside(pkt[b], wd[b])
    BY SomeStage, StageInside
  <2>2. DecodeTypeOK
    <3>1. \A b \in Buffer : wd[b] \in Wdata
      BY <2>1 DEF Window
    <3>2. wd = [b \in Buffer |-> wd[b]]
      BY Zenon DEF DecodeInv, FrameInv
    <3>3. wd \in [Buffer -> Wdata]
      BY <3>1, <3>2
    <3> QED BY <3>3, Zenon DEF DecodeInv, FrameInv, DecodeTypeOK
  <2>3. WindowInside
    BY <2>1 DEF Window, WindowInside
  <2>4. RecordedInside
    BY <2>1 DEF LayersInside, RecordedInside
  <2> QED BY <2>2, <2>3, <2>4 DEF WindowSound
<1> QED BY <1>1, DecodeInvariance, PTL

\* Every packet of a frame is in one frame, once, and the actions get it whole.
THEOREM AlwaysDeliveredOnce == DecodeSpec => []DeliveredOnce
<1>1. DecodeInv => DeliveredOnce
  <2> SUFFICES ASSUME DecodeInv PROVE DeliveredOnce
    OBVIOUS
  <2>1. ASSUME NEW b \in Buffer, At(b, "sf_action_main")
        PROVE  wd[b].cur = L2Offset /\ wd[b].len = pkt[b].len
    <3>1. "sf_action_main" \in Ends
      BY DEF Ends
    <3>2. DecodedOk(pkt[b], To(wd[b], "sf_action_main"))
      BY <2>1, <3>1, EndStage
    <3>3. /\ To(wd[b], "sf_action_main").next = "sf_action_main"
          /\ To(wd[b], "sf_action_main").w = wd[b]
      BY ToParts
    <3> QED BY <3>2, <3>3 DEF DecodedOk
  <2>2. EachBufferOnce
    BY DEF DecodeInv
  <2> QED BY <2>1, <2>2 DEF DeliveredOnce, ActionsSeeWholePacket
<1> QED BY <1>1, DecodeInvariance, PTL

\* Nothing is missing of the headers: the reference and the nodes agree on it.
LEMMA CompleteFact ==
  ASSUME NEW p \in Packet, IsIp(p)
  PROVE  /\ Complete(p) /\ ~NamesInvalid(p) <=>
              TagsThere(p) /\ IpThere(p) /\ (HasL4(p) => L4There(p))
         /\ HdrEnd(p, LastHdr(p)) = IF HasL4(p) THEN IpEnd(p) + p.l4len ELSE IpEnd(p)
<1>0. p.l4len \in Nat /\ EndOf(p) \in Nat /\ IpEnd(p) \in Nat
  BY PacketFact, IpEndFact
<1>1. HdrEnd(p, LastHdr(p)) = IF HasL4(p) THEN IpEnd(p) + p.l4len ELSE IpEnd(p)
  <2>1. CASE HasL4(p)
    <3>1. /\ LastHdr(p) = Len(Hdr(p)) /\ LastIpHdr(p) = Len(IpHdr(p))
      BY <2>1 DEF HasL4, LastHdr, LastIpHdr
    <3>2. HdrEnd(p, Len(Hdr(p))) = HdrEnd(p, Len(IpHdr(p))) + p.l4len
      BY <2>1, HdrEndL4
    <3> QED BY <2>1, <3>1, <3>2 DEF IpEnd
  <2>2. CASE ~HasL4(p)
    <3>1. LastHdr(p) = LastIpHdr(p)
      BY <2>2 DEF LastHdr, LastIpHdr, Hdr
    <3> QED BY <2>2, <3>1 DEF IpEnd
  <2> QED BY <2>1, <2>2
<1>2. Complete(p) <=> /\ EndOf(p) >= HdrEnd(p, LastHdr(p)) /\ TagsThere(p)
                      /\ LastIpHdr(p) > 1 => EndOf(p) > IpEnd(p)
  BY DEF Complete, TagsThere, IpEnd
<1>3. Complete(p) /\ ~NamesInvalid(p) <=>
        TagsThere(p) /\ IpThere(p) /\ (HasL4(p) => L4There(p))
  BY <1>0, <1>1, <1>2 DEF IpThere, L4There
<1> QED BY <1>1, <1>3

\* A packet whose headers are all there, at an end of the decoding
LEMMA DecodedAsSent ==
  ASSUME NEW p \in Packet, NEW w, NEW n, DecodedOk(p, To(w, n)),
         IsIp(p), Complete(p), ~NamesInvalid(p)
  PROVE  /\ ~w.err /\ w.ip_cnt = 1
         /\ w.ip.off = IpStart(p)
         /\ w.ip.off + w.ip.hlen = HdrEnd(p, LastIpHdr(p))
         /\ w.ip.frag = IsFrag(p)
         /\ n = IF ~IsFrag(p) THEN "sf_action_main"
                ELSE IF p.l3 = "ipv4" THEN "sf_ip4_reass" ELSE "sf_ip6_reass"
         /\ IsFrag(p) => w.cur = IpStart(p)
         /\ w.l4_cnt = IF HasL4(p) THEN 1 ELSE 0
         /\ HasL4(p) => w.l4.off + w.l4.hlen = HdrEnd(p, LastHdr(p))
         /\ (IpStart(p) + p.total = EndOf(p) /\ p.total >= w.ip.hlen)
               => w.ip.off + w.ip.hlen + w.ip.plen = EndOf(p)
<1>1. IpFound(p) /\ (HasL4(p) => L4There(p))
  BY CompleteFact DEF IpFound
<1>2. To(w, n).w = w /\ To(w, n).next = n
  BY ToParts
<1>3. Window(p, w) /\ LayersOk(p, w)
  BY <1>2 DEF DecodedOk
<1>4. n = IF ~IsFrag(p) THEN "sf_action_main"
          ELSE IF p.l3 = "ipv4" THEN "sf_ip4_reass" ELSE "sf_ip6_reass"
  BY <1>1, <1>2 DEF DecodedOk
<1>5. IsFrag(p) => w.cur = IpStart(p)
  BY <1>1, <1>2 DEF DecodedOk
<1>6. /\ w.ip_cnt = 1 /\ w.ip.off = IpStart(p) /\ w.ip.off + w.ip.hlen = IpEnd(p)
      /\ w.ip.frag = IsFrag(p) /\ w.ip.plen = PLen(p, w.ip.hlen)
  BY <1>1, <1>3 DEF LayersOk
<1>7. ~w.err /\ w.l4_cnt = IF HasL4(p) THEN 1 ELSE 0
  BY <1>1, <1>3 DEF LayersOk
<1>8. HasL4(p) => w.l4.off + w.l4.hlen = HdrEnd(p, LastHdr(p))
  BY <1>1, <1>3, CompleteFact DEF LayersOk
<1>9. ASSUME IpStart(p) + p.total = EndOf(p), p.total >= w.ip.hlen
      PROVE  w.ip.off + w.ip.hlen + w.ip.plen = EndOf(p)
  <2>1. /\ w.ip.hlen \in Nat /\ w.ip.off \in Nat
    BY <1>3 DEF Window, Wdata, IpLayer
  <2>2. p.total \in 0..U16 - 1 /\ IpStart(p) \in Nat
    BY PacketFact
  <2>3. w.ip.hlen \in 0..U16 - 1 /\ w.ip.hlen <= p.total
    BY <1>9, <2>1, <2>2, Width
  <2>4. w.ip.plen = p.total - w.ip.hlen
    BY <1>6, <2>3, PLenFact
  <2> QED BY <1>6, <1>9, <2>1, <2>2, <2>3, <2>4, Width
<1> QED BY <1>4, <1>5, <1>6, <1>7, <1>8, <1>9 DEF IpEnd

\* An IP packet whose VLAN tags are all there is recorded as it was sent if its
\* other headers are, and otherwise marked as in error: for every list of
\* extension headers, of whatever length.  An IPv6 packet with the protocol
\* 0xff, which the code takes for an error, is marked.
THEOREM AlwaysLayersSound == DecodeSpec => []LayersSound
<1>1. DecodeInv => LayersSound
  <2> SUFFICES ASSUME DecodeInv PROVE LayersSound
    OBVIOUS
  <2>1. LayersAsSent
    <3> SUFFICES ASSUME NEW b \in Buffer, {n \in Ends : At(b, n)} # {},
                        IsIp(pkt[b]), Complete(pkt[b]), ~NamesInvalid(pkt[b])
                 PROVE  LET p == pkt[b]
                            w == wd[b] IN
                        /\ ~w.err /\ w.ip_cnt = 1
                        /\ w.ip.off = IpStart(p)
                        /\ w.ip.off + w.ip.hlen = HdrEnd(p, LastIpHdr(p))
                        /\ w.ip.frag = IsFrag(p)
                        /\ {n \in Ends : At(b, n)} =
                             {IF ~IsFrag(p) THEN "sf_action_main"
                              ELSE IF p.l3 = "ipv4" THEN "sf_ip4_reass" ELSE "sf_ip6_reass"}
                        /\ IsFrag(p) => w.cur = IpStart(p)
                        /\ w.l4_cnt = IF HasL4(p) THEN 1 ELSE 0
                        /\ HasL4(p) => w.l4.off + w.l4.hlen = HdrEnd(p, LastHdr(p))
                        /\ (IpStart(p) + p.total = EndOf(p) /\ p.total >= w.ip.hlen)
                              => w.ip.off + w.ip.hlen + w.ip.plen = EndOf(p)
      BY DEF LayersAsSent
    <3>1. PICK n \in Ends : At(b, n)
      OBVIOUS
    <3> DEFINE p == pkt[b]
               w == wd[b]
               e == IF ~IsFrag(p) THEN "sf_action_main"
                    ELSE IF p.l3 = "ipv4" THEN "sf_ip4_reass" ELSE "sf_ip6_reass"
    <3>2. p \in Packet /\ DecodedOk(p, To(w, n))
      BY <3>1, EndStage
    <3>3. n = e
      BY <3>2, DecodedAsSent
    <3>4. ASSUME NEW m \in Ends, At(b, m) PROVE m = e
      <4>1. DecodedOk(p, To(w, m))
        BY <3>4, EndStage
      <4> QED BY <3>2, <4>1, DecodedAsSent
    <3> HIDE DEF e
    <3>5. {m \in Ends : At(b, m)} = {e}
      BY <3>1, <3>3, <3>4
    <3> HIDE DEF p, w
    <3>6. IsIp(p) /\ Complete(p) /\ ~NamesInvalid(p)
      BY DEF p
    <3>7. /\ ~w.err /\ w.ip_cnt = 1
          /\ w.ip.off = IpStart(p)
          /\ w.ip.off + w.ip.hlen = HdrEnd(p, LastIpHdr(p))
          /\ w.ip.frag = IsFrag(p)
          /\ IsFrag(p) => w.cur = IpStart(p)
          /\ w.l4_cnt = IF HasL4(p) THEN 1 ELSE 0
          /\ HasL4(p) => w.l4.off + w.l4.hlen = HdrEnd(p, LastHdr(p))
          /\ (IpStart(p) + p.total = EndOf(p) /\ p.total >= w.ip.hlen)
                => w.ip.off + w.ip.hlen + w.ip.plen = EndOf(p)
      BY <3>2, <3>6, DecodedAsSent
    <3> QED BY <3>5, <3>7, Zenon DEF e, p, w
  <2>2. CutMeansError
    <3> SUFFICES ASSUME NEW b \in Buffer, At(b, "sf_action_main")
                 PROVE  wd[b].err <=> /\ IsIp(pkt[b])
                                      /\ ~Complete(pkt[b]) \/ NamesInvalid(pkt[b])
                                      /\ TagsThere(pkt[b])
      BY DEF CutMeansError, TagsThere
    <3> DEFINE p == pkt[b]
               w == wd[b]
    <3>1. "sf_action_main" \in Ends
      BY DEF Ends
    <3>2. p \in Packet /\ DecodedOk(p, To(w, "sf_action_main"))
      BY <3>1, EndStage
    <3> HIDE DEF p, w
    <3>3. LayersOk(p, w) /\ ~(IpFound(p) /\ IsFrag(p))
      BY <3>2, ToParts DEF DecodedOk
    <3>4. CASE ~IpFound(p)
      <4>1. w.err = (IsIp(p) /\ TagsThere(p))
        BY <3>3, <3>4 DEF LayersOk
      <4>2. IsIp(p) /\ TagsThere(p) => ~Complete(p) \/ NamesInvalid(p)
        BY <3>2, <3>4, CompleteFact DEF IpFound
      <4> QED BY <4>1, <4>2 DEF p, w
    <3>5. CASE IpFound(p)
      <4>1. w.err <=> HasL4(p) /\ ~L4There(p)
        BY <3>3, <3>5 DEF LayersOk
      <4>2. IsIp(p) /\ TagsThere(p) /\ IpThere(p)
        BY <3>5 DEF IpFound
      <4>3. Complete(p) /\ ~NamesInvalid(p) <=> (HasL4(p) => L4There(p))
        BY <3>2, <4>2, CompleteFact
      <4> QED BY <4>1, <4>2, <4>3 DEF p, w
    <3> QED BY <3>4, <3>5
  <2> QED BY <2>1, <2>2 DEF LayersSound
<1> QED BY <1>1, DecodeInvariance, PTL

-----------------------------------------------------------------------------
(* The reassembly                                                          *)

USE IpReassAssumption

-----------------------------------------------------------------------------
(* Lists of fragments                                                      *)

LEMMA RangeSingle ==
  ASSUME NEW p
  PROVE  Range(<<p>>) = {p} /\ IsInjective(<<p>>)
BY DEF Range, IsInjective

LEMMA RangeAppend ==
  ASSUME NEW s \in Seq(Pkt), NEW p \in Pkt
  PROVE  Range(Append(s, p)) = Range(s) \cup {p}
<1>1. ASSUME NEW q PROVE q \in Range(Append(s, p)) => q \in Range(s) \cup {p}
  BY DEF Range
<1>2. ASSUME NEW q \in Range(s) PROVE q \in Range(Append(s, p))
  <2>1. PICK i \in DOMAIN s : q = s[i]
    BY DEF Range
  <2>2. i \in DOMAIN Append(s, p) /\ Append(s, p)[i] = q
    BY <2>1
  <2> QED BY <2>2 DEF Range
<1>3. p \in Range(Append(s, p))
  <2>1. Len(s) + 1 \in DOMAIN Append(s, p) /\ Append(s, p)[Len(s) + 1] = p
    OBVIOUS
  <2> QED BY <2>1 DEF Range
<1> QED BY <1>1, <1>2, <1>3

LEMMA InjectiveAppend ==
  ASSUME NEW s \in Seq(Pkt), NEW p \in Pkt, IsInjective(s), p \notin Range(s)
  PROVE  IsInjective(Append(s, p))
BY DEF Range, IsInjective

LEMMA RangeInPkt ==
  ASSUME NEW s \in Seq(Pkt)
  PROVE  Range(s) \subseteq Pkt
BY DEF Range

\* The tree without its root is the list of the children.
LEMMA SplitIsList ==
  ASSUME NEW s \in Seq(Pkt)
  PROVE  split_frag_buffer(s) = s
BY DEF split_frag_buffer, followed_nodes_cnt

-----------------------------------------------------------------------------
(* The constants                                                           *)

LEMMA KeyTypes ==
  ASSUME NEW p \in Pkt
  PROVE  PktKey[p] \in Keys /\ BucketOf[PktKey[p]] \in Buckets
BY DEF Keys, Buckets

LEMMA ZeroType == Zero \in InfoType
BY DEF InfoType, Zero, Buckets

LEMMA LiveType ==
  ASSUME TypeOK, NEW n \in Live
  PROVE  n \in Node /\ node[n] \in NodeType
BY DEF TypeOK, Live

\* A fragment under the lock belongs to the worker that holds it.
LEMMA InLockType ==
  ASSUME IInv, NEW w \in Workers, InLock(w)
  PROVE  /\ cur[w] \in Pkt /\ out[cur[w]] = "taken" /\ pc[w] = "frag"
         /\ PktKey[cur[w]] \in Keys
         /\ Found(cur[w]) \subseteq Live
         /\ \A n \in Found(cur[w]) :
              /\ n \in Node /\ node[n] \in NodeType
              /\ node[n].key = PktKey[cur[w]]
              /\ cur[w] \notin Range(node[n].frags)
BY KeyTypes DEF IInv, WorkerInv, InLock, Found, Live, TypeOK, NodeInv

\* Emit gives the buffers of a list a fate and leaves the others alone.
LEMMA EmitType ==
  ASSUME TypeOK, NEW list, NEW fate \in Fates, Emit(list, fate)
  PROVE  out' \in [Pkt -> Fates]
BY DEF Emit, TypeOK

-----------------------------------------------------------------------------
(* Types                                                                   *)

LEMMA DropNodeType ==
  ASSUME TypeOK, NEW n \in Live, DropNode(n)
  PROVE  /\ node' \in [Node -> NodeType \cup {NULL}]
         /\ info' \in [Info -> InfoType]
         /\ timer' \in [Info -> TimerStates]
         /\ wheel' \in [Info -> Workers]
<1> DEFINE t == node[n].timer_info
<1>1. n \in Node /\ t \in Info /\ 0 \in Workers
  BY LiveType DEF NodeType, Workers
<1>2. node' \in [Node -> NodeType \cup {NULL}]
  BY <1>1 DEF DropNode, HashFreeNode, TypeOK
<1>3. info' = [info EXCEPT ![t] = Zero]
  BY DEF DropNode, StopLate
<1>4. info' \in [Info -> InfoType]
  BY <1>1, <1>3, ZeroType DEF TypeOK
<1>5. timer' = timer \/ timer' = [timer EXCEPT ![t] = "free"]
  BY DEF DropNode, StopLate
<1>6. wheel' = wheel \/ wheel' = [wheel EXCEPT ![t] = 0]
  BY DEF DropNode
<1>7. timer' \in [Info -> TimerStates]
  BY <1>1, <1>5 DEF TypeOK, TimerStates
<1>8. wheel' \in [Info -> Workers]
  BY <1>1, <1>6 DEF TypeOK
<1> QED BY <1>2, <1>4, <1>7, <1>8

\* Sums are kept in 16 bits.
LEMMA SumType ==
  ASSUME NEW p \in Pkt
  PROVE  /\ PktSize[p] \in 0 .. UINT16 - 1
         /\ (PktOff[p] + PktSize[p]) % UINT16 \in 0 .. UINT16 - 1
         /\ \A l \in 0 .. UINT16 - 1 : (l + PktSize[p]) % UINT16 \in 0 .. UINT16 - 1
<1>1. PktOff[p] \in 0 .. UINT16 - 1 /\ PktSize[p] \in 0 .. UINT16 - 1
  OBVIOUS
<1>2. \A l \in 0 .. UINT16 - 1 : l + PktSize[p] \in Nat
  BY <1>1
<1>3. UINT16 \in Nat /\ UINT16 > 0
  OBVIOUS
<1>4. \A x \in Nat : x % UINT16 \in 0 .. UINT16 - 1
  BY <1>3, Wrap
<1> QED BY <1>1, <1>2, <1>4

\* What a new node holds has the type of a node.
LEMMA FirstType ==
  ASSUME NEW p \in Pkt, NEW t \in Info
  PROVE  FirstNode(p, t) \in NodeType
BY SumType, KeyTypes DEF NodeType, FirstNode

LEMMA AppendType ==
  ASSUME IInv, NEW w \in Workers, NEW n \in Found(cur[w]), InLock(w)
  PROVE  /\ node[n].frags \in Seq(Pkt)
         /\ Append(node[n].frags, cur[w]) \in Seq(Pkt)
         /\ TotalLen(n, cur[w]) \in 0 .. UINT16 - 1
         /\ MeetLen(n, cur[w]) \in 0 .. UINT16 - 1
         /\ node[n].cache_pkt_num \in Nat
<1>1. cur[w] \in Pkt /\ node[n] \in NodeType
  BY InLockType
<1>2. /\ node[n].frags \in Seq(Pkt) /\ node[n].cache_pkt_num \in Nat
      /\ node[n].total_len \in 0 .. UINT16 - 1 /\ node[n].meet_len \in 0 .. UINT16 - 1
  BY <1>1 DEF NodeType
<1>3. /\ (PktOff[cur[w]] + PktSize[cur[w]]) % UINT16 \in 0 .. UINT16 - 1
      /\ (node[n].meet_len + PktSize[cur[w]]) % UINT16 \in 0 .. UINT16 - 1
  BY <1>1, <1>2, SumType
<1>4. /\ TotalLen(n, cur[w]) \in 0 .. UINT16 - 1
      /\ MeetLen(n, cur[w]) \in 0 .. UINT16 - 1
  BY <1>2, <1>3 DEF TotalLen, MeetLen
<1> QED BY <1>1, <1>2, <1>4

LEMMA AppendedType ==
  ASSUME IInv, NEW w \in Workers, NEW n \in Found(cur[w]), InLock(w), ~TooMany(n)
  PROVE  Appended(n, cur[w]) \in NodeType
<1>1. n \in Node /\ node[n] \in NodeType
  BY InLockType
<1>2. CacheNum(n) \in 0 .. MAX_CACHE_PKTS - 1
  BY AppendType DEF TooMany, CacheNum
<1> QED BY <1>1, <1>2, AppendType DEF NodeType, Appended

\* What the handler does under the lock, whichever way it goes
LEMMA LockPassType ==
  ASSUME IInv, NEW w \in Workers, LockPass(w)
  PROVE  /\ pc[w] = "timeout"
         /\ cur[w] \in Info /\ timer[cur[w]] = "queued" /\ wheel[cur[w]] = w
         /\ lock' \in [Buckets -> BOOLEAN]
         /\ pc' \in [Workers -> {"idle", "frag", "timeout"}]
         /\ cur' \in [Workers -> Pkt \cup Info \cup {NULL}]
         /\ wheel' \in [Info -> Workers]
         /\ hidx' \in [Workers -> Buckets]
         /\ built' = built /\ asm' = asm
<1> USE DEF IInv
<1>1. pc[w] = "timeout" /\ cur[w] \in Info /\ timer[cur[w]] = "queued" /\ wheel[cur[w]] = w
  BY DEF LockPass, WorkerInv
<1>2. info[cur[w]].hash_index \in Buckets /\ hidx[w] \in Buckets
  BY <1>1 DEF TypeOK, InfoType
<1>3. lock' \in [Buckets -> BOOLEAN]
  <2>1. [lock EXCEPT ![hidx[w]] = TRUE] \in [Buckets -> BOOLEAN]
    BY <1>2 DEF TypeOK
  <2> QED BY <1>2, <2>1 DEF LockPass, LockAfter
<1>4. 0 \in Workers /\ 0 \in Buckets
  BY DEF Workers, Buckets
<1> QED BY <1>1, <1>3, <1>4 DEF LockPass, TypeOK

LEMMA TypeStep == ASSUME IInv, [Next]_vars PROVE TypeOK'
<1> USE DEF IInv
<1>1. ASSUME NEW w \in Workers, NEW p \in Pkt, Arrive(w, p)
      PROVE  TypeOK'
  BY <1>1 DEF Arrive, TypeOK, Fates
<1>2. ASSUME NEW w \in Workers, FragLayer(w)
      PROVE  TypeOK'
  <2>1. out' \in [Pkt -> Fates]
    BY <1>2, EmitType DEF FragLayer, Fates
  <2> QED BY <1>2, <2>1 DEF FragLayer, TypeOK
<1>3. ASSUME NEW w \in Workers, FragDuplicate(w) \/ FragFirstFail(w)
      PROVE  TypeOK'
  <2>1. out' \in [Pkt -> Fates]
    BY <1>3, EmitType DEF FragDuplicate, FragFirstFail, Fates
  <2> QED BY <1>3, <2>1 DEF FragDuplicate, FragFirstFail, InLock, TypeOK
<1>4. ASSUME NEW w \in Workers, FragGiveUp(w)
      PROVE  TypeOK'
  <2>1. PICK n \in Found(cur[w]) : Emit(GivenUp(n, cur[w]), "alone") /\ DropNode(n)
    BY <1>4 DEF FragGiveUp
  <2>2. n \in Live
    BY <1>4, InLockType DEF FragGiveUp
  <2>3. out' \in [Pkt -> Fates]
    BY <2>1, EmitType DEF Fates
  <2> QED BY <1>4, <2>1, <2>2, <2>3, DropNodeType DEF FragGiveUp, InLock, TypeOK
<1>5. ASSUME NEW w \in Workers, FragComplete(w)
      PROVE  TypeOK'
  <2>0. InLock(w)
    BY <1>5 DEF FragComplete
  <2>1. PICK n \in Found(cur[w]) : FragComplete(w)!2!(n)
    BY <1>5 DEF FragComplete
  <2>2. n \in Live /\ DropNode(n)
    BY <2>0, <2>1, InLockType
  <2>3. out' \in [Pkt -> Fates]
    BY <2>1, EmitType DEF Fates
  <2>4. /\ Append(asm[w], Append(node[n].frags, cur[w])) \in Seq(Seq(Pkt))
        /\ TotalLen(n, cur[w]) \in Nat
    BY <2>0, AppendType DEF TypeOK
  <2>5. built' \subseteq Nat /\ asm' \in [Workers -> Seq(Seq(Pkt))]
    <3>1. \/ /\ built' = built \cup {TotalLen(n, cur[w])}
             /\ asm' = [asm EXCEPT ![w] = Append(@, Append(node[n].frags, cur[w]))]
          \/ built' = built /\ asm' = asm
      BY <2>1
    <3>2. built' \subseteq Nat
      BY <2>4, <3>1 DEF TypeOK
    <3>3. asm' \in [Workers -> Seq(Seq(Pkt))]
      BY <2>4, <3>1 DEF TypeOK
    <3> QED BY <3>2, <3>3
  <2> QED BY <2>0, <2>2, <2>3, <2>5, DropNodeType DEF InLock, TypeOK
<1>6. ASSUME NEW w \in Workers, FragAppend(w)
      PROVE  TypeOK'
  <2>0. InLock(w)
    BY <1>6 DEF FragAppend
  <2>1. PICK n \in Found(cur[w]) : FragAppend(w)!2!(n)
    BY <1>6 DEF FragAppend
  <2>2. n \in Node /\ node[n] \in NodeType
    BY <2>0, InLockType
  <2>3. out' \in [Pkt -> Fates]
    BY <2>1, EmitType DEF Fates
  <2>4. Appended(n, cur[w]) \in NodeType
    BY <2>0, <2>1, AppendedType
  <2>5. node' \in [Node -> NodeType \cup {NULL}]
    BY <2>1, <2>2, <2>4 DEF TypeOK
  <2> QED BY <1>6, <2>3, <2>5 DEF FragAppend, InLock, TypeOK
<1>7. ASSUME NEW w \in Workers, NEW n \in Node, NEW t \in Info, FragFirst(w, n, t)
      PROVE  TypeOK'
  <2>0. InLock(w)
    BY <1>7 DEF FragFirst
  <2>1. cur[w] \in Pkt /\ PktKey[cur[w]] \in Keys
        /\ BucketOf[PktKey[cur[w]]] \in Buckets
    BY <2>0, InLockType, KeyTypes
  <2>2. out' \in [Pkt -> Fates]
    BY <1>7, EmitType DEF FragFirst, Fates
  <2>3. FirstNode(cur[w], t) \in NodeType
    BY <2>1, FirstType
  <2> QED BY <1>7, <2>0, <2>1, <2>2, <2>3
          DEF FragFirst, HashInsertNode, InfoType, InLock, TypeOK, TimerStates
<1>8. ASSUME NEW t \in Info, TimerLate(t) \/ TimerFire(t)
      PROVE  TypeOK'
  BY <1>8 DEF TimerLate, TimerFire, TypeOK, TimerStates
<1>9. ASSUME NEW w \in Workers, NEW t \in Info, HandlerRead(w, t)
      PROVE  TypeOK'
  BY <1>9 DEF HandlerRead, TypeOK, InfoType
<1>10. ASSUME NEW w \in Workers, HandlerStopped(w)
      PROVE  TypeOK'
  <2>1. LockPass(w)
    BY <1>10 DEF HandlerStopped
  <2>2. timer' \in [Info -> TimerStates]
    BY <1>10, <2>1, LockPassType DEF HandlerStopped, TypeOK, TimerStates
  <2> QED BY <1>10, <2>1, <2>2, LockPassType DEF HandlerStopped, TypeOK
<1>11. ASSUME NEW w \in Workers, HandlerTimeout(w)
      PROVE  TypeOK'
  <2>1. LockPass(w)
    BY <1>11 DEF HandlerTimeout
  <2>2. timer' \in [Info -> TimerStates] /\ info' \in [Info -> InfoType]
    BY <1>11, <2>1, LockPassType, ZeroType DEF HandlerTimeout, TypeOK, TimerStates
  <2>3. out' \in [Pkt -> Fates]
    BY <1>11, EmitType DEF HandlerTimeout, Fates
  <2>4. node' \in [Node -> NodeType \cup {NULL}]
    BY <1>11 DEF HandlerTimeout, HashFreeNode, TypeOK
  <2> QED BY <1>11, <2>1, <2>2, <2>3, <2>4, LockPassType DEF HandlerTimeout, TypeOK
<1>12. ASSUME NEW w \in Workers, Forward(w)
      PROVE  TypeOK'
  <2>1. out' \in [Pkt -> Fates]
    BY <1>12, EmitType DEF Forward, Fates
  <2>2. Tail(asm[w]) \in Seq(Seq(Pkt))
    BY <1>12 DEF Forward, TypeOK
  <2> QED BY <1>12, <2>1, <2>2 DEF Forward, TypeOK
<1>13. CASE UNCHANGED vars
  BY <1>13 DEF vars, TypeOK
<1> QED BY <1>1, <1>2, <1>3, <1>4, <1>5, <1>6, <1>7, <1>8, <1>9, <1>10, <1>11,
           <1>12, <1>13 DEF Next, WorkerStep

-----------------------------------------------------------------------------
(* What the ways out of ip4_frag_proc have in common                       *)

\* The fragment goes on alone, and nothing else changes.
SentAlone(w) ==
  /\ pc[w] = "frag"
  /\ Emit(<<cur[w]>>, "alone")
  /\ pc' = [pc EXCEPT ![w] = "idle"]
  /\ cur' = [cur EXCEPT ![w] = NULL]
  /\ UNCHANGED <<node, lock, info, timer, wheel, hidx, asm>>

\* The datagram leaves the table, whole or in pieces.
Leaves(w, n) ==
  LET list == Append(node[n].frags, cur[w])
  IN /\ InLock(w)
     /\ n \in Found(cur[w]) /\ ~Duplicate(n, cur[w])
     /\ \/ Emit(list, "alone") /\ UNCHANGED asm
        \/ /\ Emit(list, "whole") /\ asm' = [asm EXCEPT ![w] = Append(@, list)]
           /\ MeetLen(n, cur[w]) = TotalLen(n, cur[w])
     /\ DropNode(n)

\* The fragment joins the others.
Joins(w, n) ==
  /\ InLock(w)
  /\ n \in Found(cur[w]) /\ ~Duplicate(n, cur[w])
  /\ ~TooMany(n)
  /\ node' = [node EXCEPT ![n] = Appended(n, cur[w])]
  /\ Emit(<<cur[w]>>, "cached")
  /\ UNCHANGED <<info, timer, wheel, asm>>

LEMMA NextCases ==
  ASSUME [Next]_vars
  PROVE  \/ \E w \in Workers, p \in Pkt : Arrive(w, p)
         \/ \E w \in Workers : SentAlone(w)
         \/ \E w \in Workers, n \in Node : Leaves(w, n) \/ Joins(w, n)
         \/ \E w \in Workers, n \in Node, t \in Info : FragFirst(w, n, t)
         \/ \E t \in Info : TimerLate(t) \/ TimerFire(t)
         \/ \E w \in Workers, t \in Info : HandlerRead(w, t)
         \/ \E w \in Workers : HandlerStopped(w)
         \/ \E w \in Workers : HandlerTimeout(w)
         \/ \E w \in Workers : Forward(w)
         \/ UNCHANGED vars
<1>1. ASSUME NEW w \in Workers, FragLayer(w) \/ FragDuplicate(w) \/ FragFirstFail(w)
      PROVE  SentAlone(w)
  BY <1>1 DEF FragLayer, FragDuplicate, FragFirstFail, InLock, SentAlone
<1>2. ASSUME NEW w \in Workers, FragGiveUp(w) \/ FragComplete(w)
      PROVE  \E n \in Node : Leaves(w, n)
  <2>1. CASE FragGiveUp(w)
    BY <2>1 DEF FragGiveUp, GivenUp, Leaves, Found
  <2>2. CASE FragComplete(w)
    BY <2>2 DEF FragComplete, GivenUp, Leaves, Found
  <2> QED BY <1>2, <2>1, <2>2
<1>3. ASSUME NEW w \in Workers, FragAppend(w)
      PROVE  \E n \in Node : Joins(w, n)
  BY <1>3 DEF FragAppend, Joins, Found
<1> QED BY <1>1, <1>2, <1>3 DEF Next, WorkerStep

\* Emit, buffer by buffer
LEMMA EmitFate ==
  ASSUME NEW list, NEW fate, Emit(list, fate), NEW q \in Pkt
  PROVE  out'[q] = IF q \in Range(list) THEN fate ELSE out[q]
BY DEF Emit

\* The buffers that leave with a datagram: the one just taken, and the cached
\* ones of its node
LEMMA LeavesFate ==
  ASSUME IInv, NEW w \in Workers, NEW n \in Node, Leaves(w, n)
  PROVE  /\ node[n].frags \in Seq(Pkt)
         /\ \A q \in Range(node[n].frags) : q \in Pkt /\ out[q] = "cached"
         /\ \/ /\ asm' = asm
               /\ \A q \in Pkt : out'[q] =
                    IF q = cur[w] \/ q \in Range(node[n].frags)
                      THEN "alone" ELSE out[q]
            \/ /\ asm' = [asm EXCEPT ![w] = Append(@, Append(node[n].frags, cur[w]))]
               /\ MeetLen(n, cur[w]) = TotalLen(n, cur[w])
               /\ \A q \in Pkt : out'[q] =
                    IF q = cur[w] \/ q \in Range(node[n].frags)
                      THEN "whole" ELSE out[q]
<1>0. InLock(w) /\ n \in Found(cur[w])
  BY DEF Leaves
<1>1. n \in Live /\ cur[w] \in Pkt
  BY <1>0, InLockType
<1>2. node[n].frags \in Seq(Pkt)
  BY <1>0, AppendType
<1>3. \A q \in Range(node[n].frags) : q \in Pkt /\ out[q] = "cached"
  BY <1>1, <1>2, RangeInPkt DEF IInv, NodeInv
<1>4. Range(Append(node[n].frags, cur[w])) = Range(node[n].frags) \cup {cur[w]}
  BY <1>1, <1>2, RangeAppend
<1> QED BY <1>2, <1>3, <1>4, EmitFate DEF Leaves

\* The timed out datagram is a live one, and it is that of the timer.
LEMMA TimedOutFate ==
  ASSUME IInv, NEW w \in Workers, HandlerTimeout(w)
  PROVE  LET n == info[cur[w]].pnode
         IN /\ n \in Live /\ node[n].timer_info = cur[w]
            /\ node[n].frags \in Seq(Pkt)
            /\ \A q \in Range(node[n].frags) : q \in Pkt /\ out[q] = "cached"
            /\ \A q \in Pkt : out'[q] =
                 IF q \in Range(node[n].frags) THEN "alone" ELSE out[q]
<1> DEFINE n == info[cur[w]].pnode
<1>1. cur[w] \in Info /\ timer[cur[w]] = "queued" /\ n # NULL
  BY LockPassType DEF HandlerTimeout
<1>2. n \in Live /\ node[n].timer_info = cur[w]
  BY <1>1 DEF IInv, TimerInv, Zero, Pending
<1>3. node[n].frags \in Seq(Pkt)
  BY <1>2, LiveType DEF IInv, NodeType
<1>4. \A q \in Range(node[n].frags) : q \in Pkt /\ out[q] = "cached"
  BY <1>2, <1>3, RangeInPkt DEF IInv, NodeInv
<1>5. Emit(node[n].frags, "alone")
  BY DEF HandlerTimeout, TimedOut
<1> QED BY <1>2, <1>3, <1>4, <1>5, EmitFate

\* The buffers that are forwarded are those below the first of the worker's
\* packets.
LEMMA ForwardFate ==
  ASSUME IInv, NEW w \in Workers, Forward(w)
  PROVE  /\ 1 \in DOMAIN asm[w] /\ asm[w][1] \in Seq(Pkt)
         /\ asm' = [asm EXCEPT ![w] = Tail(@)]
         /\ \A q \in Range(asm[w][1]) : q \in Pkt /\ out[q] = "whole"
         /\ \A q \in Pkt : out'[q] =
              IF q \in Range(asm[w][1]) THEN "forwarded" ELSE out[q]
<1>1. asm[w] \in Seq(Seq(Pkt)) /\ asm[w] # <<>>
  BY DEF Forward, IInv, TypeOK
<1>2. 1 \in DOMAIN asm[w] /\ asm[w][1] \in Seq(Pkt) /\ Head(asm[w]) = asm[w][1]
  BY <1>1
<1>3. Emit(asm[w][1], "forwarded")
  BY <1>2, SplitIsList DEF Forward
<1>4. \A q \in Range(asm[w][1]) : q \in Pkt /\ out[q] = "whole"
  BY <1>2, RangeInPkt DEF IInv, AsmInv
<1> QED BY <1>2, <1>3, <1>4, EmitFate DEF Forward

-----------------------------------------------------------------------------
(* Workers                                                                 *)

LEMMA DropNodeTimers ==
  ASSUME TypeOK, NEW n \in Live, DropNode(n), NEW t \in Info
  PROVE  /\ t # node[n].timer_info =>
              timer'[t] = timer[t] /\ info'[t] = info[t] /\ wheel'[t] = wheel[t]
         /\ timer[t] # "early" => timer'[t] = timer[t] /\ wheel'[t] = wheel[t]
         /\ t = node[n].timer_info =>
              /\ info'[t] = Zero
              /\ timer'[t] = IF timer[t] = "early" THEN "free" ELSE timer[t]
BY LiveType DEF DropNode, StopLate, TypeOK, NodeType

LEMMA WorkerInvStep == ASSUME IInv, [Next]_vars PROVE WorkerInv'
<1> USE DEF IInv
<1>1. ASSUME NEW w \in Workers, NEW p \in Pkt, Arrive(w, p)
      PROVE  WorkerInv'
  BY <1>1 DEF Arrive, WorkerInv, TypeOK
<1>2. ASSUME NEW w \in Workers, SentAlone(w)
      PROVE  WorkerInv'
  <2>1. \A q \in Pkt : q # cur[w] => out'[q] = out[q]
    BY <1>2, EmitFate, RangeSingle DEF SentAlone
  <2> QED BY <1>2, <2>1 DEF SentAlone, WorkerInv, TypeOK
<1>3. ASSUME NEW w \in Workers, NEW n \in Node, Leaves(w, n)
      PROVE  WorkerInv'
  <2>1. n \in Live /\ InLock(w) /\ DropNode(n)
    BY <1>3, InLockType DEF Leaves
  <2>2. \A q \in Pkt : q # cur[w] /\ out[q] = "taken" => out'[q] = out[q]
    BY <1>3, LeavesFate
  <2>3. \A t \in Info : timer[t] = "queued" => timer'[t] = timer[t] /\ wheel'[t] = wheel[t]
    BY <2>1, DropNodeTimers
  <2> QED BY <2>1, <2>2, <2>3 DEF InLock, WorkerInv, TypeOK
<1>4. ASSUME NEW w \in Workers, NEW n \in Node, Joins(w, n)
      PROVE  WorkerInv'
  <2>1. \A q \in Pkt : q # cur[w] => out'[q] = out[q]
    BY <1>4, EmitFate, RangeSingle DEF Joins
  <2> QED BY <1>4, <2>1 DEF Joins, InLock, WorkerInv, TypeOK
<1>5. ASSUME NEW w \in Workers, NEW n \in Node, NEW t \in Info, FragFirst(w, n, t)
      PROVE  WorkerInv'
  <2>1. \A q \in Pkt : q # cur[w] => out'[q] = out[q]
    BY <1>5, EmitFate, RangeSingle DEF FragFirst
  <2>2. timer[t] = "free"
    BY <1>5 DEF FragFirst, FromPool
  <2> QED BY <1>5, <2>1, <2>2 DEF FragFirst, InLock, WorkerInv, TypeOK
<1>6. ASSUME NEW t \in Info, TimerLate(t) \/ TimerFire(t)
      PROVE  WorkerInv'
  BY <1>6 DEF TimerLate, TimerFire, WorkerInv, TypeOK
<1>7. ASSUME NEW w \in Workers, NEW t \in Info, HandlerRead(w, t)
      PROVE  WorkerInv'
  BY <1>7 DEF HandlerRead, WorkerInv, TypeOK
<1>8. ASSUME NEW w \in Workers, HandlerStopped(w)
      PROVE  WorkerInv'
  <2>1. \A t \in Info : t # cur[w] => timer'[t] = timer[t] /\ wheel'[t] = wheel[t]
    BY <1>8 DEF HandlerStopped, LockPass, TypeOK
  <2> QED BY <1>8, <2>1, LockPassType DEF HandlerStopped, LockPass, WorkerInv, TypeOK
<1>9. ASSUME NEW w \in Workers, HandlerTimeout(w)
      PROVE  WorkerInv'
  <2>1. \A t \in Info : t # cur[w] => timer'[t] = timer[t] /\ wheel'[t] = wheel[t]
    BY <1>9 DEF HandlerTimeout, LockPass, TypeOK
  <2>2. \A q \in Pkt : out[q] = "taken" => out'[q] = "taken"
    BY <1>9, TimedOutFate
  <2> QED BY <1>9, <2>1, <2>2, LockPassType DEF HandlerTimeout, LockPass, WorkerInv, TypeOK
<1>10. ASSUME NEW w \in Workers, Forward(w)
      PROVE  WorkerInv'
  <2>1. \A q \in Pkt : out[q] = "taken" => out'[q] = "taken"
    BY <1>10, ForwardFate
  <2> QED BY <1>10, <2>1 DEF Forward, WorkerInv, TypeOK
<1>11. CASE UNCHANGED vars
  BY <1>11 DEF vars, WorkerInv
<1> QED BY <1>1, <1>2, <1>3, <1>4, <1>5, <1>6, <1>7, <1>8, <1>9, <1>10, <1>11,
           NextCases

LEMMA TakenHeldStep == ASSUME IInv, [Next]_vars PROVE TakenHeld'
<1> USE DEF IInv
<1>1. ASSUME NEW w \in Workers, NEW p \in Pkt, Arrive(w, p)
      PROVE  TakenHeld'
  BY <1>1 DEF Arrive, TakenHeld, TypeOK
<1>2. ASSUME NEW w \in Workers, SentAlone(w)
      PROVE  TakenHeld'
  <2>1. \A q \in Pkt : out'[q] = IF q = cur[w] THEN "alone" ELSE out[q]
    BY <1>2, EmitFate, RangeSingle DEF SentAlone
  <2> QED BY <1>2, <2>1 DEF SentAlone, TakenHeld, TypeOK
<1>3. ASSUME NEW w \in Workers, NEW n \in Node, Leaves(w, n)
      PROVE  TakenHeld'
  <2>1. \A q \in Pkt : out'[q] = "taken" => q # cur[w] /\ out[q] = "taken"
    BY <1>3, LeavesFate
  <2> QED BY <1>3, <2>1 DEF Leaves, InLock, TakenHeld, TypeOK
<1>4. ASSUME NEW w \in Workers, NEW n \in Node, Joins(w, n)
      PROVE  TakenHeld'
  <2>1. \A q \in Pkt : out'[q] = IF q = cur[w] THEN "cached" ELSE out[q]
    BY <1>4, EmitFate, RangeSingle DEF Joins
  <2> QED BY <1>4, <2>1 DEF Joins, InLock, TakenHeld, TypeOK
<1>5. ASSUME NEW w \in Workers, NEW n \in Node, NEW t \in Info, FragFirst(w, n, t)
      PROVE  TakenHeld'
  <2>1. \A q \in Pkt : out'[q] = IF q = cur[w] THEN "cached" ELSE out[q]
    BY <1>5, EmitFate, RangeSingle DEF FragFirst
  <2> QED BY <1>5, <2>1 DEF FragFirst, InLock, TakenHeld, TypeOK
<1>6. ASSUME NEW t \in Info, TimerLate(t) \/ TimerFire(t)
      PROVE  TakenHeld'
  BY <1>6 DEF TimerLate, TimerFire, TakenHeld
<1>7. ASSUME NEW w \in Workers, NEW t \in Info, HandlerRead(w, t)
      PROVE  TakenHeld'
  BY <1>7 DEF HandlerRead, TakenHeld, TypeOK
<1>8. ASSUME NEW w \in Workers, HandlerStopped(w)
      PROVE  TakenHeld'
  BY <1>8 DEF HandlerStopped, LockPass, TakenHeld, TypeOK
<1>9. ASSUME NEW w \in Workers, HandlerTimeout(w)
      PROVE  TakenHeld'
  <2>1. \A q \in Pkt : out'[q] = "taken" => out[q] = "taken"
    BY <1>9, TimedOutFate
  <2> QED BY <1>9, <2>1 DEF HandlerTimeout, LockPass, TakenHeld, TypeOK
<1>10. ASSUME NEW w \in Workers, Forward(w)
      PROVE  TakenHeld'
  <2>1. \A q \in Pkt : out'[q] = "taken" => out[q] = "taken"
    BY <1>10, ForwardFate
  <2> QED BY <1>10, <2>1 DEF Forward, TakenHeld, TypeOK
<1>11. CASE UNCHANGED vars
  BY <1>11 DEF vars, TakenHeld
<1> QED BY <1>1, <1>2, <1>3, <1>4, <1>5, <1>6, <1>7, <1>8, <1>9, <1>10, <1>11,
           NextCases

-----------------------------------------------------------------------------
(* Nodes and timers                                                        *)

\* When a node is freed, the others keep their timers and their contents.
LEMMA FreeNodeLive ==
  ASSUME TypeOK, NEW n \in Node, HashFreeNode(n)
  PROVE  Live' = Live \ {n} /\ \A m \in Live' : node'[m] = node[m]
BY DEF HashFreeNode, Live, TypeOK

\* A node that only gets one more fragment keeps its key and its timer.
LEMMA JoinsLive ==
  ASSUME IInv, NEW w \in Workers, NEW n \in Node, Joins(w, n)
  PROVE  /\ Live' = Live /\ n \in Live
         /\ node'[n].frags = Append(node[n].frags, cur[w])
         /\ \A m \in Live : node'[m].key = node[m].key
         /\ \A m \in Live : node'[m].timer_info = node[m].timer_info
         /\ \A m \in Live : m # n => node'[m].frags = node[m].frags
<1>1. n \in Live /\ node[n] \in NodeType
  BY InLockType DEF Joins
<1>2. /\ Appended(n, cur[w]).key = node[n].key
      /\ Appended(n, cur[w]).timer_info = node[n].timer_info
      /\ Appended(n, cur[w]).frags = Append(node[n].frags, cur[w])
  BY <1>1 DEF Appended, NodeType
<1>3. node'[n] = Appended(n, cur[w]) /\ \A m \in Node : m # n => node'[m] = node[m]
  BY DEF Joins, IInv, TypeOK
<1>4. node'[n] \in NodeType
  BY <1>3, AppendedType DEF Joins
<1>5. Live' = Live
  BY <1>1, <1>3, <1>4 DEF Live
<1> QED BY <1>1, <1>2, <1>3, <1>5 DEF Live

LEMMA FirstLive ==
  ASSUME IInv, NEW w \in Workers, NEW n \in Node, NEW t \in Info, FragFirst(w, n, t)
  PROVE  /\ n \notin Live /\ Live' = Live \cup {n}
         /\ timer[t] = "free"
         /\ node'[n] = FirstNode(cur[w], t)
         /\ \A m \in Live : node'[m] = node[m]
         /\ \A m \in Live : node[m].key # PktKey[cur[w]]
<1>1. node[n] = NULL /\ timer[t] = "free"
  BY DEF FragFirst, FromPool
<1>2. FirstNode(cur[w], t) \in NodeType
  BY InLockType, FirstType DEF FragFirst
<1>3. node' = [node EXCEPT ![n] = FirstNode(cur[w], t)]
  BY DEF FragFirst, HashInsertNode
<1>4. \A m \in Live : node[m].key # PktKey[cur[w]]
  BY DEF FragFirst, Found, Live
<1> QED BY <1>1, <1>2, <1>3, <1>4 DEF Live, IInv, TypeOK

\* No two nodes share a timer.
LEMMA LiveTimers ==
  ASSUME IInv, NEW n \in Live
  PROVE  /\ node[n].timer_info \in Info
         /\ timer[node[n].timer_info] \in Pending
         /\ info[node[n].timer_info].pnode = n
<1>1. info[node[n].timer_info] = [pnode |-> n, hash_index |-> BucketOf[node[n].key]]
  BY DEF IInv, TimerInv
<1>2. info[node[n].timer_info].pnode = n
  BY <1>1
<1> QED BY <1>2, LiveType DEF IInv, TimerInv, NodeType

LEMMA TimerInvStep == ASSUME IInv, [Next]_vars PROVE TimerInv'
<1> USE DEF IInv
<1>0. \A n \in Live : /\ node[n].timer_info \in Info
                      /\ timer[node[n].timer_info] \in Pending
                      /\ info[node[n].timer_info].pnode = n
  BY LiveTimers
<1>1. ASSUME UNCHANGED <<node, info, timer>>
      PROVE  TimerInv'
  BY <1>1 DEF TimerInv, Live
<1>2. ASSUME NEW w \in Workers, NEW n \in Node, Leaves(w, n)
      PROVE  TimerInv'
  <2>1. n \in Live /\ DropNode(n) /\ HashFreeNode(n)
    BY <1>2, InLockType DEF Leaves, DropNode
  <2>2. Live' = Live \ {n} /\ \A m \in Live' : node'[m] = node[m]
    BY <2>1, FreeNodeLive
  <2>3. \A m \in Live' : node[m].timer_info # node[n].timer_info
    BY <1>0, <2>1, <2>2
  <2>4. TimerInv!1'
    BY <1>0, <2>1, <2>2, <2>3, DropNodeTimers DEF TimerInv
  <2>5. TimerInv!2'
    <3> SUFFICES ASSUME NEW t \in Info, timer'[t] \in Pending
                 PROVE  \/ info'[t] = Zero
                        \/ /\ info'[t].pnode \in Live'
                           /\ node'[info'[t].pnode].timer_info = t
      BY DEF TimerInv
    <3>1. CASE t = node[n].timer_info
      BY <2>1, <3>1, DropNodeTimers
    <3>2. CASE t # node[n].timer_info
      <4>1. timer'[t] = timer[t] /\ info'[t] = info[t]
        BY <2>1, <3>2, DropNodeTimers
      <4> QED BY <2>2, <3>2, <4>1 DEF TimerInv
    <3> QED BY <3>1, <3>2
  <2> QED BY <2>4, <2>5 DEF TimerInv
<1>3. ASSUME NEW w \in Workers, NEW n \in Node, Joins(w, n)
      PROVE  TimerInv'
  <2>1. UNCHANGED <<info, timer>>
    BY <1>3 DEF Joins
  <2> QED BY <1>3, <2>1, JoinsLive DEF TimerInv
<1>4. ASSUME NEW w \in Workers, NEW n \in Node, NEW t \in Info, FragFirst(w, n, t)
      PROVE  TimerInv'
  <2>1. /\ FirstNode(cur[w], t).timer_info = t
        /\ FirstNode(cur[w], t).key = PktKey[cur[w]]
    BY DEF FirstNode
  <2>2. /\ info'[t] = [pnode |-> n, hash_index |-> BucketOf[PktKey[cur[w]]]]
        /\ timer'[t] = "early"
        /\ \A s \in Info : s # t => timer'[s] = timer[s] /\ info'[s] = info[s]
    BY <1>4 DEF FragFirst, TypeOK
  <2>3. \A m \in Live : node[m].timer_info # t
    BY <1>4, <1>0, FirstLive DEF Pending
  <2>4. TimerInv!1'
    BY <1>0, <1>4, <2>1, <2>2, <2>3, FirstLive DEF TimerInv, Pending
  <2>5. TimerInv!2'
    BY <1>4, <2>1, <2>2, FirstLive DEF TimerInv, Pending
  <2> QED BY <2>4, <2>5 DEF TimerInv
<1>5. ASSUME NEW t \in Info, TimerLate(t) \/ TimerFire(t)
      PROVE  TimerInv'
  <2>1. \A s \in Info : timer'[s] \in Pending <=> timer[s] \in Pending
    BY <1>5 DEF TimerLate, TimerFire, TypeOK, Pending
  <2>2. UNCHANGED <<node, info>> /\ Live' = Live
    BY <1>5 DEF TimerLate, TimerFire, Live
  <2> QED BY <1>0, <2>1, <2>2 DEF TimerInv
<1>6. ASSUME NEW w \in Workers, HandlerStopped(w)
      PROVE  TimerInv'
  <2>1. LockPass(w) /\ cur[w] \in Info /\ info[cur[w]].pnode = NULL
    BY <1>6, LockPassType DEF HandlerStopped
  <2>2. \A m \in Live : node[m].timer_info # cur[w]
    BY <1>0, <2>1 DEF Live
  <2>3. UNCHANGED <<node, info>> /\ Live' = Live
    BY <1>6 DEF HandlerStopped, Live
  <2>4. timer' = [timer EXCEPT ![cur[w]] = "free"]
    BY <1>6 DEF HandlerStopped
  <2> QED BY <1>0, <2>1, <2>2, <2>3, <2>4 DEF TimerInv, TypeOK, Pending
<1>7. ASSUME NEW w \in Workers, HandlerTimeout(w)
      PROVE  TimerInv'
  <2> DEFINE n == info[cur[w]].pnode
  <2>1. cur[w] \in Info /\ n \in Live /\ node[n].timer_info = cur[w]
    BY <1>7, TimedOutFate, LockPassType DEF HandlerTimeout
  <2>2. Live' = Live \ {n} /\ \A m \in Live' : node'[m] = node[m]
    BY <1>7, <2>1, FreeNodeLive DEF HandlerTimeout, Live
  <2>3. \A m \in Live' : node[m].timer_info # cur[w]
    BY <1>0, <2>1, <2>2
  <2>4. /\ timer' = [timer EXCEPT ![cur[w]] = "lost"]
        /\ \A s \in Info : s # cur[w] => info'[s] = info[s]
    BY <1>7, <2>1 DEF HandlerTimeout, TypeOK
  <2>5. TimerInv!1'
    <3> SUFFICES ASSUME NEW m \in Live'
                 PROVE  LET t == node'[m].timer_info
                        IN /\ timer'[t] \in Pending
                           /\ info'[t] = [pnode |-> m,
                                          hash_index |-> BucketOf[node'[m].key]]
      BY DEF TimerInv
    <3>1. m \in Live /\ node'[m] = node[m] /\ node[m].timer_info # cur[w]
      BY <2>2, <2>3
    <3>2. /\ timer'[node[m].timer_info] = timer[node[m].timer_info]
          /\ info'[node[m].timer_info] = info[node[m].timer_info]
      BY <1>0, <2>1, <2>4, <3>1 DEF TypeOK
    <3> QED BY <3>1, <3>2 DEF TimerInv
  <2>6. TimerInv!2'
    <3> SUFFICES ASSUME NEW t \in Info, timer'[t] \in Pending
                 PROVE  \/ info'[t] = Zero
                        \/ /\ info'[t].pnode \in Live'
                           /\ node'[info'[t].pnode].timer_info = t
      BY DEF TimerInv
    <3>1. t # cur[w] /\ timer'[t] = timer[t] /\ info'[t] = info[t]
      BY <2>1, <2>4 DEF TypeOK, Pending
    <3> QED BY <2>1, <2>2, <3>1 DEF TimerInv
  <2> QED BY <2>5, <2>6 DEF TimerInv
<1> QED
  <2>1. ASSUME NEW w \in Workers, NEW p \in Pkt, Arrive(w, p) PROVE UNCHANGED <<node, info, timer>>
    BY <2>1 DEF Arrive
  <2>2. ASSUME NEW w \in Workers, SentAlone(w) \/ Forward(w)
        PROVE  UNCHANGED <<node, info, timer>>
    BY <2>2 DEF SentAlone, Forward
  <2>3. ASSUME NEW w \in Workers, NEW t \in Info, HandlerRead(w, t)
        PROVE  UNCHANGED <<node, info, timer>>
    BY <2>3 DEF HandlerRead
  <2>4. CASE UNCHANGED vars
    BY <1>1, <2>4 DEF vars
  <2> QED BY <1>1, <1>2, <1>3, <1>4, <1>5, <1>6, <1>7, <2>1, <2>2, <2>3, <2>4,
             NextCases

-----------------------------------------------------------------------------
(* The fragments of a node                                                 *)

LEMMA NodeInvSame ==
  ASSUME IInv, UNCHANGED node,
         \A q \in Pkt : out'[q] = "cached" <=> out[q] = "cached"
  PROVE  NodeInv'
<1>1. \A n \in Live : Range(node[n].frags) \subseteq Pkt
  BY LiveType, RangeInPkt DEF IInv, NodeType
<1>2. Live' = Live
  BY DEF Live
<1> QED BY <1>1, <1>2 DEF IInv, NodeInv

\* A datagram leaves the table, with its cached fragments and no others.
LEMMA NodeInvFree ==
  ASSUME IInv, NEW n \in Live, HashFreeNode(n),
         \A q \in Pkt : out'[q] = "cached" <=>
           out[q] = "cached" /\ q \notin Range(node[n].frags)
  PROVE  NodeInv'
<1> USE DEF IInv
<1>1. \A m \in Live : Range(node[m].frags) \subseteq Pkt
  BY LiveType, RangeInPkt DEF NodeType
<1>2. Live' = Live \ {n} /\ \A m \in Live' : node'[m] = node[m]
  BY FreeNodeLive DEF Live
<1>3. \A m \in Live' : \A q \in Range(node[m].frags) : q \notin Range(node[n].frags)
  BY <1>2 DEF NodeInv
<1>4. NodeInv!1'
  BY <1>2 DEF NodeInv
<1>5. NodeInv!2'
  BY <1>1, <1>2, <1>3 DEF NodeInv
<1>6. NodeInv!3'
  BY <1>2 DEF NodeInv
<1> QED BY <1>4, <1>5, <1>6 DEF NodeInv

LEMMA NodeInvStep == ASSUME IInv, [Next]_vars PROVE NodeInv'
<1> USE DEF IInv
<1>0. \A m \in Live : Range(node[m].frags) \subseteq Pkt
  BY LiveType, RangeInPkt DEF NodeType
<1>1. ASSUME NEW w \in Workers, NEW p \in Pkt, Arrive(w, p)
      PROVE  NodeInv'
  BY <1>1, NodeInvSame DEF Arrive, TypeOK
<1>2. ASSUME NEW w \in Workers, SentAlone(w)
      PROVE  NodeInv'
  <2>1. \A q \in Pkt : out'[q] = IF q = cur[w] THEN "alone" ELSE out[q]
    BY <1>2, EmitFate, RangeSingle DEF SentAlone
  <2>2. UNCHANGED node /\ out[cur[w]] = "taken"
    BY <1>2 DEF SentAlone, WorkerInv
  <2> QED BY <2>1, <2>2, NodeInvSame
<1>3. ASSUME NEW w \in Workers, NEW n \in Node, Leaves(w, n)
      PROVE  NodeInv'
  <2>1. n \in Live /\ HashFreeNode(n) /\ out[cur[w]] = "taken"
    BY <1>3, InLockType DEF Leaves, DropNode
  <2>2. \A q \in Pkt : out'[q] = "cached" <=>
           out[q] = "cached" /\ q \notin Range(node[n].frags)
    BY <1>3, <2>1, LeavesFate
  <2> QED BY <2>1, <2>2, NodeInvFree
<1>4. ASSUME NEW w \in Workers, NEW n \in Node, Joins(w, n)
      PROVE  NodeInv'
  <2>1. InLock(w) /\ n \in Found(cur[w])
    BY <1>4 DEF Joins
  <2>2. /\ cur[w] \in Pkt /\ out[cur[w]] = "taken"
        /\ node[n].key = PktKey[cur[w]] /\ cur[w] \notin Range(node[n].frags)
        /\ node[n].frags \in Seq(Pkt)
    BY <2>1, InLockType, AppendType
  <2>3. \A q \in Pkt : out'[q] = IF q = cur[w] THEN "cached" ELSE out[q]
    BY <1>4, EmitFate, RangeSingle DEF Joins
  <2>4. Range(Append(node[n].frags, cur[w])) = Range(node[n].frags) \cup {cur[w]}
    BY <2>2, RangeAppend
  <2>5. NodeInv!1'
    BY <1>4, JoinsLive DEF NodeInv
  <2>6. NodeInv!2'
    <3> SUFFICES ASSUME NEW m \in Live
                 PROVE  /\ IsInjective(node'[m].frags)
                        /\ \A p \in Range(node'[m].frags) :
                             out'[p] = "cached" /\ PktKey[p] = node'[m].key
      BY <1>4, JoinsLive DEF NodeInv
    <3>1. CASE m = n
      <4>1. IsInjective(Append(node[n].frags, cur[w]))
        BY <2>2, <3>1, InjectiveAppend DEF NodeInv
      <4>2. /\ node'[n].frags = Append(node[n].frags, cur[w])
            /\ node'[n].key = node[n].key
        BY <1>4, <3>1, JoinsLive
      <4>3. ASSUME NEW p \in Range(node[n].frags)
            PROVE  out'[p] = "cached" /\ PktKey[p] = node[n].key
        BY <1>0, <2>3, <3>1 DEF NodeInv
      <4> QED BY <2>2, <2>3, <2>4, <3>1, <4>1, <4>2, <4>3
    <3>2. CASE m # n
      BY <1>0, <1>4, <2>3, <3>2, JoinsLive DEF NodeInv
    <3> QED BY <3>1, <3>2
  <2>7. NodeInv!3'
    <3> SUFFICES ASSUME NEW p \in Pkt, out'[p] = "cached"
                 PROVE  \E m \in Live : p \in Range(node'[m].frags)
      BY <1>4, JoinsLive DEF NodeInv
    <3>1. CASE p = cur[w]
      BY <1>4, <2>4, <3>1, JoinsLive
    <3>2. CASE p # cur[w]
      <4>1. PICK m \in Live : p \in Range(node[m].frags)
        BY <2>3, <3>2 DEF NodeInv
      <4> QED BY <1>4, <2>4, <4>1, JoinsLive
    <3> QED BY <3>1, <3>2
  <2> QED BY <2>5, <2>6, <2>7 DEF NodeInv
<1>5. ASSUME NEW w \in Workers, NEW n \in Node, NEW t \in Info, FragFirst(w, n, t)
      PROVE  NodeInv'
  <2>1. cur[w] \in Pkt /\ out[cur[w]] = "taken"
    BY <1>5, InLockType DEF FragFirst
  <2>2. \A q \in Pkt : out'[q] = IF q = cur[w] THEN "cached" ELSE out[q]
    BY <1>5, EmitFate, RangeSingle DEF FragFirst
  <2>3. /\ node'[n].key = PktKey[cur[w]]
        /\ IsInjective(node'[n].frags) /\ Range(node'[n].frags) = {cur[w]}
    <3>0. node'[n] = FirstNode(cur[w], t)
      BY <1>5, FirstLive
    <3>1. /\ node'[n].key = PktKey[cur[w]]
          /\ node'[n].frags = <<cur[w]>>
      BY <3>0 DEF FirstNode
    <3>2. Range(<<cur[w]>>) = {cur[w]} /\ IsInjective(<<cur[w]>>)
      BY RangeSingle
    <3> QED BY <3>1, <3>2, Zenon
  <2>4. NodeInv!1'
    BY <1>5, <2>3, FirstLive DEF NodeInv
  <2>5. NodeInv!2'
    BY <1>0, <1>5, <2>1, <2>2, <2>3, FirstLive DEF NodeInv
  <2>6. NodeInv!3'
    BY <1>5, <2>1, <2>2, <2>3, FirstLive DEF NodeInv
  <2> QED BY <2>4, <2>5, <2>6 DEF NodeInv
<1>6. ASSUME NEW w \in Workers, HandlerTimeout(w)
      PROVE  NodeInv'
  <2> DEFINE n == info[cur[w]].pnode
  <2>1. n \in Live /\ HashFreeNode(n)
    BY <1>6, TimedOutFate DEF HandlerTimeout
  <2>2. \A q \in Pkt : out'[q] = "cached" <=>
           out[q] = "cached" /\ q \notin Range(node[n].frags)
    BY <1>6, TimedOutFate
  <2> QED BY <2>1, <2>2, NodeInvFree
<1>7. ASSUME NEW w \in Workers, Forward(w)
      PROVE  NodeInv'
  <2>1. \A q \in Pkt : out'[q] = "cached" <=> out[q] = "cached"
    BY <1>7, ForwardFate
  <2> QED BY <1>7, <2>1, NodeInvSame DEF Forward
<1>8. ASSUME UNCHANGED <<node, out>>
      PROVE  NodeInv'
  BY <1>8, NodeInvSame
<1> QED
  <2>1. ASSUME NEW t \in Info, TimerLate(t) \/ TimerFire(t)
        PROVE  UNCHANGED <<node, out>>
    BY <2>1 DEF TimerLate, TimerFire
  <2>2. ASSUME NEW w \in Workers, NEW t \in Info, HandlerRead(w, t)
        PROVE  UNCHANGED <<node, out>>
    BY <2>2 DEF HandlerRead
  <2>3. ASSUME NEW w \in Workers, HandlerStopped(w)
        PROVE  UNCHANGED <<node, out>>
    BY <2>3 DEF HandlerStopped
  <2>4. CASE UNCHANGED vars
    BY <1>8, <2>4 DEF vars
  <2> QED BY <1>1, <1>2, <1>3, <1>4, <1>5, <1>6, <1>7, <1>8, <2>1, <2>2, <2>3,
             <2>4, NextCases

-----------------------------------------------------------------------------
(* The packets that were put together                                      *)

LEMMA AsmInvSame ==
  ASSUME IInv, UNCHANGED asm, \A q \in Pkt : out'[q] = "whole" <=> out[q] = "whole"
  PROVE  AsmInv'
<1>1. \A w \in Workers : \A i \in DOMAIN asm[w] : Range(asm[w][i]) \subseteq Pkt
  BY RangeInPkt DEF IInv, TypeOK
<1> QED BY <1>1 DEF IInv, AsmInv

\* A buffer is below one packet only.
LEMMA AsmOnce ==
  ASSUME AsmInv, NEW v \in Workers, NEW i \in DOMAIN asm[v],
         NEW p \in Range(asm[v][i])
  PROVE  \A u \in Workers : \A j \in DOMAIN asm[u] :
           p \in Range(asm[u][j]) => u = v /\ j = i
BY DEF AsmInv

LEMMA AsmInvWhole ==
  ASSUME IInv, NEW w \in Workers, NEW list \in Seq(Pkt), IsInjective(list),
         asm' = [asm EXCEPT ![w] = Append(@, list)],
         \A q \in Range(list) : out[q] # "whole",
         \A q \in Pkt : out'[q] = IF q \in Range(list) THEN "whole" ELSE out[q]
  PROVE  AsmInv'
<1> USE DEF IInv
<1> DEFINE last == Len(asm[w]) + 1
<1>1. \A v \in Workers : asm[v] \in Seq(Seq(Pkt))
  BY DEF TypeOK
<1>2. \A v \in Workers : \A i \in DOMAIN asm[v] : Range(asm[v][i]) \subseteq Pkt
  BY <1>1, RangeInPkt
<1>3. /\ DOMAIN asm'[w] = DOMAIN asm[w] \cup {last} /\ last \notin DOMAIN asm[w]
      /\ asm'[w][last] = list
      /\ \A i \in DOMAIN asm[w] : asm'[w][i] = asm[w][i]
  BY <1>1 DEF TypeOK
<1>4. \A v \in Workers : v # w => asm'[v] = asm[v]
  BY DEF TypeOK
<1>5. Range(list) \subseteq Pkt
  BY RangeInPkt
<1>6. AsmInv!1'
  <2> SUFFICES ASSUME NEW p \in Pkt, out'[p] = "whole"
               PROVE  \E v \in Workers : \E i \in DOMAIN asm'[v] : p \in Range(asm'[v][i])
    BY DEF AsmInv
  <2>1. CASE p \in Range(list)
    BY <1>3, <2>1
  <2>2. CASE p \notin Range(list)
    <3>1. PICK v \in Workers : \E i \in DOMAIN asm[v] : p \in Range(asm[v][i])
      BY <2>2 DEF AsmInv
    <3>2. PICK i \in DOMAIN asm[v] : p \in Range(asm[v][i])
      BY <3>1
    <3>3. i \in DOMAIN asm'[v] /\ asm'[v][i] = asm[v][i]
      BY <1>3, <1>4
    <3> QED BY <3>2, <3>3
  <2> QED BY <2>1, <2>2
<1>7. ASSUME NEW v \in Workers, NEW i \in DOMAIN asm'[v]
      PROVE  \/ i \in DOMAIN asm[v] /\ asm'[v][i] = asm[v][i]
             \/ v = w /\ i = last /\ asm'[v][i] = list
  BY <1>3, <1>4
<1>8. AsmInv!2'
  <2> SUFFICES ASSUME NEW v \in Workers, NEW i \in DOMAIN asm'[v]
               PROVE  /\ IsInjective(asm'[v][i])
                      /\ \A p \in Range(asm'[v][i]) :
                           /\ out'[p] = "whole"
                           /\ \A u \in Workers : \A j \in DOMAIN asm'[u] :
                                p \in Range(asm'[u][j]) => u = v /\ j = i
    BY DEF AsmInv
  <2>1. CASE i \in DOMAIN asm[v] /\ asm'[v][i] = asm[v][i]
    <3>1. IsInjective(asm[v][i]) /\ \A p \in Range(asm[v][i]) : p \in Pkt /\ out[p] = "whole"
      BY <2>1, <1>2 DEF AsmInv
    <3> SUFFICES ASSUME NEW p \in Range(asm[v][i]), NEW u \in Workers,
                        NEW j \in DOMAIN asm'[u], p \in Range(asm'[u][j])
                 PROVE  u = v /\ j = i
      BY <2>1, <3>1
    <3>2. j \in DOMAIN asm[u] /\ asm'[u][j] = asm[u][j]
      BY <1>7, <3>1
    <3>3. p \in Range(asm[u][j])
      BY <3>2
    <3>4. \A c \in Workers : \A k \in DOMAIN asm[c] :
            p \in Range(asm[c][k]) => c = v /\ k = i
      BY <2>1, AsmOnce
    <3> QED BY <3>2, <3>3, <3>4
  <2>2. CASE v = w /\ i = last /\ asm'[v][i] = list
    <3> SUFFICES ASSUME NEW p \in Range(list), NEW u \in Workers,
                        NEW j \in DOMAIN asm'[u], p \in Range(asm'[u][j])
                 PROVE  u = v /\ j = i
      BY <2>2, <1>5
    <3>1. ~(j \in DOMAIN asm[u] /\ asm'[u][j] = asm[u][j])
      BY DEF AsmInv
    <3> QED BY <1>7, <2>2, <3>1
  <2> QED BY <1>7, <2>1, <2>2
<1> QED BY <1>6, <1>8 DEF AsmInv

LEMMA AsmInvForward ==
  ASSUME IInv, NEW w \in Workers, Forward(w)
  PROVE  AsmInv'
<1> USE DEF IInv
<1>1. asm[w] \in Seq(Seq(Pkt)) /\ asm[w] # <<>>
  BY DEF Forward, TypeOK
<1>2. /\ DOMAIN asm'[w] = 1 .. Len(asm[w]) - 1
      /\ \A i \in DOMAIN asm'[w] : i + 1 \in DOMAIN asm[w] /\ asm'[w][i] = asm[w][i + 1]
  BY <1>1 DEF Forward, TypeOK
<1>3. \A v \in Workers : v # w => asm'[v] = asm[v]
  BY DEF Forward, TypeOK
<1>4. \A v \in Workers : \A i \in DOMAIN asm[v] : Range(asm[v][i]) \subseteq Pkt
  BY RangeInPkt DEF TypeOK
<1> DEFINE old(v, i) == IF v = w THEN i + 1 ELSE i
<1>5. ASSUME NEW v \in Workers, NEW i \in DOMAIN asm'[v]
      PROVE  /\ old(v, i) \in DOMAIN asm[v] /\ asm'[v][i] = asm[v][old(v, i)]
             /\ v # w \/ old(v, i) # 1
  BY <1>2, <1>3
<1>6. ASSUME NEW v \in Workers, NEW i \in DOMAIN asm[v], v # w \/ i # 1
      PROVE  \E j \in DOMAIN asm'[v] : asm'[v][j] = asm[v][i]
  <2>1. CASE v = w
    <3>1. i - 1 \in DOMAIN asm'[w] /\ asm'[w][i - 1] = asm[w][i]
      BY <1>1, <1>2, <1>6, <2>1
    <3> QED BY <2>1, <3>1
  <2>2. CASE v # w
    BY <1>3, <2>2
  <2> QED BY <2>1, <2>2
<1>7. AsmInv!1'
  <2> SUFFICES ASSUME NEW p \in Pkt, out'[p] = "whole"
               PROVE  \E v \in Workers : \E i \in DOMAIN asm'[v] : p \in Range(asm'[v][i])
    BY DEF AsmInv
  <2>1. p \notin Range(asm[w][1]) /\ out[p] = "whole"
    BY ForwardFate
  <2>2. PICK v \in Workers : \E i \in DOMAIN asm[v] : p \in Range(asm[v][i])
    BY <2>1 DEF AsmInv
  <2>3. PICK i \in DOMAIN asm[v] : p \in Range(asm[v][i])
    BY <2>2
  <2> QED BY <1>6, <2>1, <2>3
<1>8. AsmInv!2'
  <2> SUFFICES ASSUME NEW v \in Workers, NEW i \in DOMAIN asm'[v]
               PROVE  /\ IsInjective(asm'[v][i])
                      /\ \A p \in Range(asm'[v][i]) :
                           /\ out'[p] = "whole"
                           /\ \A u \in Workers : \A j \in DOMAIN asm'[u] :
                                p \in Range(asm'[u][j]) => u = v /\ j = i
    BY DEF AsmInv
  <2>1. IsInjective(asm'[v][i])
    BY <1>5 DEF AsmInv
  <2> SUFFICES ASSUME NEW p \in Range(asm'[v][i])
               PROVE  /\ out'[p] = "whole"
                      /\ \A u \in Workers : \A j \in DOMAIN asm'[u] :
                                p \in Range(asm'[u][j]) => u = v /\ j = i
    BY <2>1
  <2>2. p \in Pkt /\ out[p] = "whole" /\ p \notin Range(asm[w][1])
    <3>1. 1 \in DOMAIN asm[w]
      BY ForwardFate
    <3> QED BY <1>4, <1>5, <3>1 DEF AsmInv
  <2>3. out'[p] = "whole"
    BY <2>2, ForwardFate
  <2>4. ASSUME NEW u \in Workers, NEW j \in DOMAIN asm'[u], p \in Range(asm'[u][j])
        PROVE  u = v /\ j = i
    <3>0. /\ old(u, j) \in DOMAIN asm[u] /\ asm'[u][j] = asm[u][old(u, j)]
          /\ old(v, i) \in DOMAIN asm[v] /\ asm'[v][i] = asm[v][old(v, i)]
      BY <1>5
    <3>1. u = v /\ old(u, j) = old(v, i)
      <4> HIDE DEF old
      <4> QED BY <2>4, <3>0, AsmOnce
    <3>2. i \in Int /\ j \in Int
      <4>1. \A k \in DOMAIN asm[v] : k \in Int
        BY DEF TypeOK
      <4> QED BY <1>2, <1>3, <3>1, <4>1
    <3> QED BY <3>1, <3>2
  <2> QED BY <2>3, <2>4
<1> QED BY <1>7, <1>8 DEF AsmInv

LEMMA AsmInvStep == ASSUME IInv, [Next]_vars PROVE AsmInv'
<1> USE DEF IInv
<1>1. ASSUME NEW w \in Workers, NEW p \in Pkt, Arrive(w, p)
      PROVE  AsmInv'
  BY <1>1, AsmInvSame DEF Arrive, TypeOK
<1>2. ASSUME NEW w \in Workers, SentAlone(w)
      PROVE  AsmInv'
  <2>1. \A q \in Pkt : out'[q] = IF q = cur[w] THEN "alone" ELSE out[q]
    BY <1>2, EmitFate, RangeSingle DEF SentAlone
  <2>2. UNCHANGED asm /\ out[cur[w]] = "taken"
    BY <1>2 DEF SentAlone, WorkerInv
  <2> QED BY <2>1, <2>2, AsmInvSame
<1>3. ASSUME NEW w \in Workers, NEW n \in Node, Leaves(w, n)
      PROVE  AsmInv'
  <2> DEFINE list == Append(node[n].frags, cur[w])
  <2>1. InLock(w) /\ n \in Found(cur[w])
    BY <1>3 DEF Leaves
  <2>2. /\ cur[w] \in Pkt /\ out[cur[w]] = "taken"
        /\ n \in Live /\ cur[w] \notin Range(node[n].frags)
        /\ node[n].frags \in Seq(Pkt) /\ list \in Seq(Pkt)
    BY <2>1, InLockType, AppendType
  <2>3. Range(list) = Range(node[n].frags) \cup {cur[w]}
    BY <2>2, RangeAppend
  <2>4. \A q \in Range(node[n].frags) : q \in Pkt /\ out[q] = "cached"
    BY <1>3, LeavesFate
  <2>5. IsInjective(list)
    BY <2>2, InjectiveAppend DEF NodeInv
  <2>6. CASE asm' = asm /\ \A q \in Pkt : out'[q] =
               IF q = cur[w] \/ q \in Range(node[n].frags) THEN "alone" ELSE out[q]
    BY <2>2, <2>4, <2>6, AsmInvSame
  <2>7. CASE /\ asm' = [asm EXCEPT ![w] = Append(@, list)]
             /\ \A q \in Pkt : out'[q] =
                  IF q = cur[w] \/ q \in Range(node[n].frags) THEN "whole" ELSE out[q]
    <3>1. \A q \in Range(list) : out[q] # "whole"
      BY <2>2, <2>3, <2>4
    <3>2. \A q \in Pkt : out'[q] = IF q \in Range(list) THEN "whole" ELSE out[q]
      BY <2>3, <2>7
    <3> HIDE DEF list
    <3> QED BY <2>2, <2>5, <2>7, <3>1, <3>2, AsmInvWhole
  <2> QED BY <1>3, <2>6, <2>7, LeavesFate
<1>4. ASSUME NEW w \in Workers, NEW n \in Node, Joins(w, n)
      PROVE  AsmInv'
  <2>1. \A q \in Pkt : out'[q] = IF q = cur[w] THEN "cached" ELSE out[q]
    BY <1>4, EmitFate, RangeSingle DEF Joins
  <2>2. UNCHANGED asm /\ out[cur[w]] = "taken"
    BY <1>4 DEF Joins, InLock, WorkerInv
  <2> QED BY <2>1, <2>2, AsmInvSame
<1>5. ASSUME NEW w \in Workers, NEW n \in Node, NEW t \in Info, FragFirst(w, n, t)
      PROVE  AsmInv'
  <2>1. \A q \in Pkt : out'[q] = IF q = cur[w] THEN "cached" ELSE out[q]
    BY <1>5, EmitFate, RangeSingle DEF FragFirst
  <2>2. UNCHANGED asm /\ out[cur[w]] = "taken"
    BY <1>5 DEF FragFirst, InLock, WorkerInv
  <2> QED BY <2>1, <2>2, AsmInvSame
<1>6. ASSUME NEW w \in Workers, HandlerTimeout(w)
      PROVE  AsmInv'
  <2>1. \A q \in Pkt : out'[q] = "whole" <=> out[q] = "whole"
    BY <1>6, TimedOutFate
  <2> QED BY <1>6, <2>1, AsmInvSame DEF HandlerTimeout, LockPass
<1>7. ASSUME UNCHANGED <<asm, out>>
      PROVE  AsmInv'
  BY <1>7, AsmInvSame
<1> QED
  <2>1. ASSUME NEW t \in Info, TimerLate(t) \/ TimerFire(t)
        PROVE  UNCHANGED <<asm, out>>
    BY <2>1 DEF TimerLate, TimerFire
  <2>2. ASSUME NEW w \in Workers, NEW t \in Info, HandlerRead(w, t)
        PROVE  UNCHANGED <<asm, out>>
    BY <2>2 DEF HandlerRead
  <2>3. ASSUME NEW w \in Workers, HandlerStopped(w)
        PROVE  UNCHANGED <<asm, out>>
    BY <2>3 DEF HandlerStopped, LockPass
  <2>4. CASE UNCHANGED vars
    BY <1>7, <2>4 DEF vars
  <2> QED BY <1>1, <1>2, <1>3, <1>4, <1>5, <1>6, <1>7, <2>1, <2>2, <2>3, <2>4,
             AsmInvForward, NextCases

-----------------------------------------------------------------------------
(* The theorems                                                            *)

LEMMA InitIInv == Init => IInv
<1> SUFFICES ASSUME Init PROVE IInv
  OBVIOUS
<1>1. 0 \in Workers /\ 0 \in Buckets
  BY DEF Workers, Buckets
<1>2. TypeOK
  BY <1>1, ZeroType DEF Init, TypeOK, TimerStates, Fates
<1>3. WorkerInv /\ TimerInv /\ NodeInv /\ AsmInv /\ TakenHeld
  BY DEF Init, WorkerInv, TimerInv, NodeInv, AsmInv, TakenHeld, Live, Pending
<1> QED BY <1>2, <1>3 DEF IInv

\* Every step of every worker and timer keeps the inductive invariant.
THEOREM ReassInvariance == Spec => []IInv
<1>1. IInv /\ [Next]_vars => IInv'
  BY TypeStep, WorkerInvStep, TimerInvStep, NodeInvStep, AsmInvStep, TakenHeldStep
     DEF IInv
<1> QED BY <1>1, InitIInv, PTL DEF Spec

LEMMA IInvConserves == IInv => BuffersConserved
<1> SUFFICES ASSUME IInv PROVE BuffersConserved
  OBVIOUS
<1> USE DEF IInv
<1>1. ASSUME NEW p \in Pkt, out[p] = "cached"
      PROVE  Cardinality({n \in Node : node[n] # NULL /\ p \in Range(node[n].frags)}) = 1
  <2>1. PICK m \in Live : p \in Range(node[m].frags)
    BY <1>1 DEF NodeInv
  <2>2. \A n \in Live : p \in Range(node[n].frags) => n = m
    BY <2>1 DEF NodeInv
  <2>3. {n \in Node : node[n] # NULL /\ p \in Range(node[n].frags)} = {m}
    BY <2>1, <2>2 DEF Live
  <2> QED BY <2>3, FS_Singleton
<1>2. \A n \in Node : node[n] # NULL =>
        /\ IsInjective(node[n].frags)
        /\ \A p \in Range(node[n].frags) :
             out[p] = "cached" /\ PktKey[p] = node[n].key
  BY DEF NodeInv, Live
<1>3. \A w \in Workers : \A list \in Range(asm[w]) :
        \E i \in DOMAIN asm[w] : list = asm[w][i]
  BY DEF Range
<1>4. ASSUME NEW p \in Pkt, out[p] = "whole"
      PROVE  \E w \in Workers : \E list \in Range(asm[w]) : p \in Range(list)
  <2>1. PICK w \in Workers : \E i \in DOMAIN asm[w] : p \in Range(asm[w][i])
    BY <1>4 DEF AsmInv
  <2>2. PICK i \in DOMAIN asm[w] : p \in Range(asm[w][i])
    BY <2>1
  <2>3. asm[w][i] \in Range(asm[w])
    BY DEF Range
  <2> QED BY <2>2, <2>3
<1>5. \A w \in Workers : \A list \in Range(asm[w]) :
        IsInjective(list) /\ \A p \in Range(list) : out[p] = "whole"
  BY <1>3 DEF AsmInv
<1> QED BY <1>1, <1>2, <1>4, <1>5 DEF BuffersConserved, TakenHeld

\* No fragment is lost, sent twice or kept after it was sent, on any of the ways
\* out of ip4_frag_proc, of the timeout and of ip_reass_forward.
THEOREM FragmentsAlwaysAccounted == Spec => []FragmentsAccounted
<1>1. IInv => FragmentsAccounted
  BY IInvConserves DEF IInv, FragmentsAccounted
<1> QED BY <1>1, ReassInvariance, PTL

LEMMA IInvFinds == IInv => TimerFindsNode
  BY DEF IInv, TimerInv, TimerFindsNode, Live, Pending

\* A datagram that waits has a timer that will find it, and a timer that can
\* fire has a live datagram or nothing, on whichever worker it fires.
THEOREM TimerAlwaysFinds == Spec => []TimerFindsNode
  BY IInvFinds, ReassInvariance, PTL

-----------------------------------------------------------------------------
(* The locks, when sf_pkt_handoff gives a datagram to one worker           *)

\* What the handler locks it unlocks.
LEMMA HandlerUnlocks ==
  ASSUME IInv, OwnerInv, NEW w \in Workers, LockPass(w)
  PROVE  LocksReleased'
<1>1. pc[w] = "timeout" /\ hidx[w] = info[cur[w]].hash_index /\ hidx[w] \in Buckets
  BY DEF LockPass, OwnerInv, IInv, TypeOK
<1>2. lock' = [[lock EXCEPT ![hidx[w]] = TRUE] EXCEPT ![hidx[w]] = FALSE]
  BY <1>1 DEF LockPass, LockAfter
<1> QED BY <1>1, <1>2 DEF OwnerInv, LocksReleased, IInv, TypeOK

\* The timer that a worker stops is not the one a handler waits with.
LEMMA StoppedByOwner ==
  ASSUME IInv, OwnerInv, NEW w \in Workers, NEW n \in Node, Leaves(w, n),
         NEW v \in Workers, pc[v] = "timeout"
  PROVE  cur[v] # node[n].timer_info
<1>1. /\ n \in Live /\ pc[w] = "frag" /\ node[n].key = PktKey[cur[w]]
  BY InLockType DEF Leaves
<1>2. wheel[node[n].timer_info] = w
  BY <1>1 DEF OwnerInv
<1>3. wheel[cur[v]] = v
  BY DEF IInv, WorkerInv
<1> QED BY <1>1, <1>2, <1>3

LEMMA OwnerInvStep ==
  ASSUME Handoff, IInv, OwnerInv, [Next]_vars
  PROVE  OwnerInv'
<1> USE DEF IInv
<1>0. \A n \in Live : /\ node[n].timer_info \in Info
                      /\ timer[node[n].timer_info] \in Pending
                      /\ info[node[n].timer_info].pnode = n
  BY LiveTimers
<1>1. ASSUME NEW w \in Workers, NEW p \in Pkt, Arrive(w, p)
      PROVE  OwnerInv'
  BY <1>1 DEF Arrive, OwnerInv, TypeOK, Live, LocksReleased
<1>2. ASSUME NEW w \in Workers, SentAlone(w)
      PROVE  OwnerInv'
  BY <1>2 DEF SentAlone, OwnerInv, TypeOK, Live, LocksReleased
<1>3. ASSUME NEW w \in Workers, NEW n \in Node, Leaves(w, n)
      PROVE  OwnerInv'
  <2>1. n \in Live /\ InLock(w) /\ DropNode(n) /\ HashFreeNode(n)
    BY <1>3, InLockType DEF Leaves, DropNode
  <2>2. Live' = Live \ {n} /\ \A m \in Live' : node'[m] = node[m]
    BY <2>1, FreeNodeLive
  <2>3. \A m \in Live' : node[m].timer_info # node[n].timer_info
    BY <1>0, <2>1, <2>2
  <2>4. OwnerInv!1'
    BY <2>1 DEF InLock, OwnerInv, TypeOK
  <2>5. OwnerInv!2'
    BY <1>0, <2>1, <2>2, <2>3, DropNodeTimers DEF OwnerInv
  <2>6. ASSUME NEW v \in Workers, pc'[v] = "timeout"
        PROVE  hidx'[v] = info'[cur'[v]].hash_index
    <3>1. v # w /\ pc[v] = "timeout" /\ cur'[v] = cur[v] /\ hidx'[v] = hidx[v]
      BY <2>1, <2>6 DEF InLock, TypeOK
    <3>2. cur[v] \in Info /\ cur[v] # node[n].timer_info
      BY <1>3, <3>1, StoppedByOwner DEF WorkerInv
    <3>3. info'[cur[v]] = info[cur[v]]
      BY <2>1, <3>2, DropNodeTimers
    <3> QED BY <3>1, <3>3 DEF OwnerInv
  <2>7. LocksReleased'
    BY <2>1 DEF InLock, OwnerInv, LocksReleased
  <2> QED BY <2>4, <2>5, <2>6, <2>7 DEF OwnerInv
<1>4. ASSUME NEW w \in Workers, NEW n \in Node, Joins(w, n)
      PROVE  OwnerInv'
  <2>1. UNCHANGED <<info, timer, wheel, lock, hidx>> /\ InLock(w)
    BY <1>4 DEF Joins, InLock
  <2>2. OwnerInv!2'
    BY <1>4, <2>1, JoinsLive DEF OwnerInv
  <2> QED BY <2>1, <2>2 DEF InLock, OwnerInv, TypeOK, LocksReleased
<1>5. ASSUME NEW w \in Workers, NEW n \in Node, NEW t \in Info, FragFirst(w, n, t)
      PROVE  OwnerInv'
  <2>1. /\ FirstNode(cur[w], t).timer_info = t
        /\ FirstNode(cur[w], t).key = PktKey[cur[w]]
    BY DEF FirstNode
  <2>2. /\ InLock(w) /\ WorkerOf[PktKey[cur[w]]] = w
        /\ \A s \in Info : s # t => info'[s] = info[s] /\ wheel'[s] = wheel[s]
        /\ wheel'[t] = w
    BY <1>5 DEF FragFirst, InLock, OwnerInv, TypeOK
  <2>3. \A m \in Live : node[m].timer_info # t
    BY <1>5, <1>0, FirstLive DEF Pending
  <2>4. \A v \in Workers : pc[v] = "timeout" => cur[v] \in Info /\ cur[v] # t
    BY <1>5, FirstLive DEF WorkerInv
  <2>5. OwnerInv!1' /\ OwnerInv!3'
    BY <2>2, <2>4 DEF InLock, OwnerInv, TypeOK
  <2>6. OwnerInv!2'
    BY <1>0, <1>5, <2>1, <2>2, <2>3, FirstLive DEF OwnerInv
  <2>7. LocksReleased'
    BY <2>2 DEF InLock, OwnerInv, LocksReleased
  <2> QED BY <2>5, <2>6, <2>7 DEF OwnerInv
<1>6. ASSUME NEW t \in Info, TimerLate(t) \/ TimerFire(t)
      PROVE  OwnerInv'
  BY <1>6 DEF TimerLate, TimerFire, OwnerInv, Live, LocksReleased
<1>7. ASSUME NEW w \in Workers, NEW t \in Info, HandlerRead(w, t)
      PROVE  OwnerInv'
  BY <1>7 DEF HandlerRead, OwnerInv, TypeOK, Live, LocksReleased
<1>8. ASSUME NEW w \in Workers, LockPass(w), HandlerStopped(w) \/ HandlerTimeout(w)
      PROVE  OwnerInv'
  <2>1. cur[w] \in Info /\ timer[cur[w]] = "queued" /\ wheel[cur[w]] = w
    BY <1>8, LockPassType
  <2>2. \A s \in Info : s # cur[w] => info'[s] = info[s] /\ wheel'[s] = wheel[s]
    BY <1>8 DEF LockPass, HandlerStopped, HandlerTimeout, TypeOK
  <2>3. \A v \in Workers : pc'[v] = "timeout" =>
          /\ v # w /\ pc[v] = "timeout" /\ cur'[v] = cur[v] /\ hidx'[v] = hidx[v]
          /\ cur[v] \in Info /\ cur[v] # cur[w]
    BY <1>8, <2>1 DEF LockPass, WorkerInv, TypeOK
  <2>4. \A m \in Live' : m \in Live /\ node'[m] = node[m] /\ node[m].timer_info # cur[w]
    <3>1. CASE HandlerStopped(w)
      BY <1>0, <3>1 DEF HandlerStopped, Live
    <3>2. CASE HandlerTimeout(w)
      <4>1. info[cur[w]].pnode \in Node /\ HashFreeNode(info[cur[w]].pnode)
        BY <3>2, TimedOutFate DEF HandlerTimeout, Live
      <4> QED BY <1>0, <4>1, FreeNodeLive
    <3> QED BY <1>8, <3>1, <3>2
  <2>5. OwnerInv!1'
    BY <1>8 DEF LockPass, OwnerInv, TypeOK
  <2>6. OwnerInv!2'
    BY <1>0, <2>2, <2>4 DEF OwnerInv
  <2>7. OwnerInv!3'
    BY <2>2, <2>3 DEF OwnerInv
  <2>8. LocksReleased'
    BY <1>8, HandlerUnlocks
  <2> QED BY <2>5, <2>6, <2>7, <2>8 DEF OwnerInv
<1>9. ASSUME NEW w \in Workers, Forward(w)
      PROVE  OwnerInv'
  BY <1>9 DEF Forward, OwnerInv, Live, LocksReleased
<1>10. CASE UNCHANGED vars
  BY <1>10 DEF vars, OwnerInv, Live, LocksReleased
<1> QED
  <2>1. ASSUME NEW w \in Workers, HandlerStopped(w) \/ HandlerTimeout(w)
        PROVE  LockPass(w)
    BY <2>1 DEF HandlerStopped, HandlerTimeout
  <2> QED BY <1>1, <1>2, <1>3, <1>4, <1>5, <1>6, <1>7, <1>8, <1>9, <1>10, <2>1,
             NextCases

\* With the handoff a timeout that races the last fragment of its datagram
\* finds a live datagram or nothing, and unlocks the bucket that it locked.
THEOREM TimeoutAlwaysSafe == ASSUME Handoff PROVE Spec => []TimeoutSafe
<1>1. Init => OwnerInv
  BY DEF Init, OwnerInv, Live, LocksReleased
<1>2. IInv /\ OwnerInv /\ [Next]_vars => OwnerInv'
  BY OwnerInvStep
<1>3. IInv /\ OwnerInv => TimeoutSafe
  BY IInvFinds DEF OwnerInv, TimeoutSafe
<1> QED BY <1>1, <1>2, <1>3, ReassInvariance, PTL DEF Spec

\* A buffer that was sent on is never sent, cached or put together again.
THEOREM AlwaysSentOnce == Spec => SentOnce
<1> DEFINE Sent == {"alone", "forwarded"}
<1>1. ASSUME IInv, [Next]_vars, NEW p \in Pkt, out[p] \in Sent
      PROVE  out'[p] = out[p]
  <2>1. ASSUME NEW w \in Workers, NEW q \in Pkt, Arrive(w, q)
        PROVE  out'[p] = out[p]
    BY <1>1, <2>1 DEF Arrive, IInv, TypeOK
  <2>2. ASSUME NEW w \in Workers, NEW fate, pc[w] = "frag", Emit(<<cur[w]>>, fate)
        PROVE  out'[p] = out[p]
    <3>1. out[cur[w]] = "taken"
      BY <1>1, <2>2 DEF IInv, WorkerInv
    <3> QED BY <1>1, <2>2, <3>1, EmitFate, RangeSingle
  <2>3. ASSUME NEW w \in Workers, NEW n \in Node, Leaves(w, n)
        PROVE  out'[p] = out[p]
    <3>1. out[cur[w]] = "taken"
      BY <1>1, <2>3, InLockType DEF Leaves
    <3> QED BY <1>1, <2>3, <3>1, LeavesFate
  <2>4. ASSUME NEW w \in Workers, HandlerTimeout(w)
        PROVE  out'[p] = out[p]
    BY <1>1, <2>4, TimedOutFate
  <2>5. ASSUME NEW w \in Workers, Forward(w)
        PROVE  out'[p] = out[p]
    BY <1>1, <2>5, ForwardFate
  <2> QED BY <1>1, <2>1, <2>2, <2>3, <2>4, <2>5, NextCases
          DEF SentAlone, Joins, FragFirst, InLock, TimerLate, TimerFire, HandlerRead,
              HandlerStopped, vars
<1>2. IInv /\ [Next]_vars =>
        [\A p \in Pkt : out[p] \in Sent => out'[p] = out[p]]_vars
  BY <1>1
<1> QED BY <1>2, ReassInvariance, PTL DEF Spec, SentOnce

-----------------------------------------------------------------------------
(* Datagrams are put together without a gap                                *)

Bytes(p) == PktOff[p] .. PktOff[p] + PktSize[p] - 1

LEMMA IntervalSize ==
  ASSUME NEW a \in Nat, NEW d \in Nat
  PROVE  IsFiniteSet(a .. a + d - 1) /\ Cardinality(a .. a + d - 1) = d
<1> DEFINE b == a + d - 1
<1>1. b \in Int
  OBVIOUS
<1> HIDE DEF b
<1>2. IsFiniteSet(a .. b) /\ Cardinality(a .. b) = IF a > b THEN 0 ELSE b - a + 1
  BY <1>1, a \in Int, FS_Interval, Zenon
<1>3. (IF a > b THEN 0 ELSE b - a + 1) = d
  BY DEF b
<1> QED BY <1>2, <1>3 DEF b

LEMMA PktTypes ==
  ASSUME NEW p \in Pkt
  PROVE  /\ PktOff[p] \in Nat /\ PktSize[p] \in Nat
         /\ IsFiniteSet(Bytes(p)) /\ Cardinality(Bytes(p)) = PktSize[p]
<1>1. PktOff[p] \in Nat /\ PktSize[p] \in Nat
  OBVIOUS
<1>2. IsFiniteSet(Bytes(p)) /\ Cardinality(Bytes(p)) = PktSize[p]
  BY <1>1, IntervalSize DEF Bytes
<1> QED BY <1>1, <1>2

\* Where a fragment ends does not wrap if it is as some sender cut it.
LEMMA SentTypes ==
  ASSUME NEW p \in Pkt, AsSent(PktKey[p])
  PROVE  /\ PktSize[p] > 0
         /\ PktOff[p] + PktSize[p] < UINT16
         /\ (PktOff[p] + PktSize[p]) % UINT16 = PktOff[p] + PktSize[p]
<1>1. PktSize[p] > 0 /\ PktOff[p] + PktSize[p] < UINT16
  BY DEF AsSent
<1>2. PktOff[p] + PktSize[p] \in 0 .. UINT16 - 1
  BY <1>1, PktTypes
<1> QED BY <1>1, <1>2, Wrap

LEMMA InCovered ==
  ASSUME NEW f, NEW x
  PROVE  x \in Covered(f) <=> \E p \in f : x \in Bytes(p)
BY DEF Covered, Bytes

\* A fragment that overlaps no other adds its bytes.
LEMMA CoverAdd ==
  ASSUME NEW f \in SUBSET Pkt, NEW p \in Pkt, IsFiniteSet(Covered(f)),
         \A q \in f : Bytes(p) \cap Bytes(q) = {}
  PROVE  /\ IsFiniteSet(Covered(f \cup {p}))
         /\ Cardinality(Covered(f \cup {p})) = Cardinality(Covered(f)) + PktSize[p]
<1>1. Covered(f \cup {p}) = Covered(f) \cup Bytes(p)
  BY InCovered
<1>2. Covered(f) \cap Bytes(p) = {}
  BY InCovered
<1>3. /\ IsFiniteSet(Covered(f) \cup Bytes(p))
      /\ Cardinality(Covered(f) \cup Bytes(p)) =
           Cardinality(Covered(f)) + Cardinality(Bytes(p))
             - Cardinality(Covered(f) \cap Bytes(p))
  BY PktTypes, FS_Union
<1>4. Cardinality(Covered(f) \cap Bytes(p)) = 0
  BY <1>2, FS_EmptySet
<1>5. Cardinality(Covered(f)) \in Nat
  BY FS_CardinalityType
<1>6. PktSize[p] \in Nat /\ Cardinality(Bytes(p)) = PktSize[p]
  BY PktTypes
<1>7. Cardinality(Covered(f) \cup Bytes(p)) = Cardinality(Covered(f)) + PktSize[p]
  BY <1>3, <1>4, <1>5, <1>6
<1> QED BY <1>1, <1>3, <1>7, Zenon

LEMMA CoverOne ==
  ASSUME NEW p \in Pkt
  PROVE  /\ IsFiniteSet(Covered({p}))
         /\ Cardinality(Covered({p})) = PktSize[p]
<1>1. \A x : x \in Covered({p}) <=> x \in Bytes(p)
  BY InCovered
<1>2. Covered({p}) = Bytes(p)
  BY <1>1
<1> QED BY <1>2, PktTypes

\* As many bytes as there are places: none is missing, so that one fragment is
\* the first and each but the last has a next one.
LEMMA NoGap ==
  ASSUME NEW k, NEW f \in SUBSET Pkt, \A p \in f : PktKey[p] = k, AsSent(k),
         \A p, q \in f : PktOff[p] = PktOff[q] => p = q,
         IsFiniteSet(Covered(f)),
         NEW z \in f, PktLast[z],
         Cardinality(Covered(f)) = PktOff[z] + PktSize[z]
  PROVE  /\ \E q \in f : PktOff[q] = 0
         /\ \A q \in f : PktLast[q] \/ \E r \in f : PktOff[r] = PktOff[q] + PktSize[q]
<1> DEFINE T == PktOff[z] + PktSize[z]
<1>0. \A q \in f : PktSize[q] > 0
  BY SentTypes
<1>1. T \in Nat \ {0}
  BY <1>0, PktTypes
<1>2. ASSUME NEW q \in f
      PROVE  q = z \/ PktOff[q] + PktSize[q] <= PktOff[z]
  <2>1. CASE PktOff[q] = PktOff[z]
    BY <2>1
  <2>2. CASE PktOff[q] < PktOff[z]
    BY <2>2 DEF AsSent
  <2>3. CASE PktOff[z] < PktOff[q]
    BY <2>3 DEF AsSent
  <2> QED BY <2>1, <2>2, <2>3, PktTypes
<1>3. Covered(f) \subseteq 0 .. T - 1
  BY <1>2, InCovered, PktTypes DEF Bytes
<1>4. IsFiniteSet(0 .. T - 1) /\ Cardinality(0 .. T - 1) = T
  <2>1. 0 + T - 1 = T - 1
    BY <1>1
  <2> HIDE DEF T
  <2> QED BY <1>1, <2>1, IntervalSize
<1>5. Covered(f) = 0 .. T - 1
  BY <1>3, <1>4, FS_Subset
<1>6. ASSUME NEW x \in 0 .. T - 1
      PROVE  \E q \in f : x \in Bytes(q)
  BY <1>5, InCovered
<1>7. \E q \in f : PktOff[q] = 0
  <2>1. PICK q \in f : 0 \in Bytes(q)
    BY <1>1, <1>6
  <2> QED BY <2>1, PktTypes DEF Bytes
<1>8. ASSUME NEW q \in f, ~PktLast[q]
      PROVE  \E r \in f : PktOff[r] = PktOff[q] + PktSize[q]
  <2> DEFINE x == PktOff[q] + PktSize[q]
  <2>1. x \in 0 .. T - 1
    BY <1>0, <1>2, <1>8, PktTypes
  <2>2. PICK r \in f : x \in Bytes(r)
    BY <1>6, <2>1
  <2>3. PktOff[r] <= x /\ x < PktOff[r] + PktSize[r]
    BY <2>2, PktTypes DEF Bytes
  <2>4. CASE PktOff[r] < PktOff[q]
    <3>1. PktOff[r] + PktSize[r] <= PktOff[q]
      BY <2>4 DEF AsSent
    <3> QED BY <2>3, <3>1, PktTypes
  <2>5. CASE PktOff[r] = PktOff[q]
    <3>1. r = q
      BY <2>5
    <3> QED BY <2>3, <3>1, PktTypes
  <2>6. CASE PktOff[q] < PktOff[r]
    <3>1. x <= PktOff[r]
      BY <2>6 DEF AsSent
    <3> QED BY <2>3, <3>1, PktTypes
  <2> QED BY <2>4, <2>5, <2>6, PktTypes
<1> QED BY <1>7, <1>8

\* Fragments as some sender cut them cover fewer bytes than 16 bits count.
LEMMA CoverFits ==
  ASSUME NEW k, NEW f \in SUBSET Pkt, \A p \in f : PktKey[p] = k, AsSent(k)
  PROVE  Cardinality(Covered(f)) < UINT16
<1>1. UINT16 - 1 \in Nat /\ 0 + (UINT16 - 1) - 1 = UINT16 - 2
  OBVIOUS
<1>2. /\ IsFiniteSet(0 .. UINT16 - 2)
      /\ Cardinality(0 .. UINT16 - 2) = UINT16 - 1
  BY <1>1, IntervalSize
<1>3. ASSUME NEW x \in Covered(f)
      PROVE  x \in 0 .. UINT16 - 2
  <2>1. PICK p \in f : x \in Bytes(p)
    BY <1>3, InCovered
  <2>2. PktOff[p] + PktSize[p] < UINT16
    BY SentTypes
  <2> QED BY <2>1, <2>2, PktTypes DEF Bytes
<1>4. Covered(f) \subseteq 0 .. UINT16 - 2
  BY <1>3
<1>5. /\ Cardinality(Covered(f)) <= Cardinality(0 .. UINT16 - 2)
      /\ IsFiniteSet(Covered(f))
  BY <1>2, <1>4, FS_Subset
<1>6. Cardinality(Covered(f)) \in Nat
  BY <1>5, FS_CardinalityType
<1> QED BY <1>2, <1>5, <1>6

\* The fragments of a node and the one that joins them, as one set
LEMMA JoinedCover ==
  ASSUME IInv, CoverInv, NEW w \in Workers, InLock(w),
         NEW n \in Found(cur[w]), ~Duplicate(n, cur[w])
  PROVE  LET p == cur[w]
             f == Range(node[n].frags)
             g == f \cup {p}
         IN /\ g \in SUBSET Pkt
            /\ \A q \in g : PktKey[q] = node[n].key
            /\ \A q, r \in g : PktOff[q] = PktOff[r] => q = r
            /\ AsSent(node[n].key) =>
                 /\ IsFiniteSet(Covered(g))
                 /\ Cardinality(Covered(g)) = MeetLen(n, p)
            /\ \/ TotalLen(n, p) = 0 /\ \A q \in g : ~PktLast[q]
               \/ \E q \in g : /\ PktLast[q]
                              /\ TotalLen(n, p) = (PktOff[q] + PktSize[q]) % UINT16
<1> DEFINE p == cur[w]
           f == Range(node[n].frags)
           g == f \cup {p}
<1>1. p \in Pkt /\ n \in Live /\ node[n].key = PktKey[p] /\ node[n].frags \in Seq(Pkt)
  BY InLockType, AppendType
<1>2. f \in SUBSET Pkt
  BY <1>1, RangeInPkt
<1>3. \A q \in g : PktKey[q] = node[n].key
  BY <1>1 DEF IInv, NodeInv
<1>4. \A q \in f : PktOff[q] # PktOff[p]
  BY DEF Duplicate
<1>5. \A q, r \in g : PktOff[q] = PktOff[r] => q = r
  BY <1>1, <1>4 DEF CoverInv
<1>6. ASSUME AsSent(node[n].key)
      PROVE  IsFiniteSet(Covered(g)) /\ Cardinality(Covered(g)) = MeetLen(n, p)
  <2>1. ASSUME NEW q \in f PROVE Bytes(p) \cap Bytes(q) = {}
    <3>1. q \in Pkt /\ PktKey[q] = node[n].key /\ PktOff[q] # PktOff[p]
      BY <1>2, <1>3, <1>4
    <3>2. \/ PktOff[p] + PktSize[p] <= PktOff[q]
          \/ PktOff[q] + PktSize[q] <= PktOff[p]
      BY <1>1, <1>6, <3>1, PktTypes DEF AsSent
    <3> QED BY <1>1, <3>1, <3>2, PktTypes DEF Bytes
  <2>2. IsFiniteSet(Covered(f)) /\ Cardinality(Covered(f)) = node[n].meet_len
    BY <1>1, <1>6 DEF CoverInv
  <2>3. /\ IsFiniteSet(Covered(g))
        /\ Cardinality(Covered(g)) = node[n].meet_len + PktSize[p]
    BY <1>1, <1>2, <2>1, <2>2, CoverAdd
  <2>4. Cardinality(Covered(g)) < UINT16
    BY <1>1, <1>2, <1>3, <1>6, CoverFits
  <2>5. Cardinality(Covered(g)) \in 0 .. UINT16 - 1
    BY <2>3, <2>4, FS_CardinalityType
  <2>6. MeetLen(n, p) = node[n].meet_len + PktSize[p]
    <3> HIDE DEF p, g
    <3> QED BY <2>3, <2>5, Wrap DEF MeetLen
  <2> QED BY <2>3, <2>6
<1>7. \/ TotalLen(n, p) = 0 /\ \A q \in g : ~PktLast[q]
      \/ \E q \in g : /\ PktLast[q]
                     /\ TotalLen(n, p) = (PktOff[q] + PktSize[q]) % UINT16
  BY <1>1 DEF CoverInv, TotalLen
<1> QED BY <1>1, <1>2, <1>3, <1>5, <1>6, <1>7

\* A node that a step does not touch keeps what CoverInv says of it.
CoverOk(n) ==
  LET f == Range(node[n].frags)
  IN /\ \A p, q \in f : PktOff[p] = PktOff[q] => p = q
     /\ AsSent(node[n].key) =>
          /\ IsFiniteSet(Covered(f))
          /\ Cardinality(Covered(f)) = node[n].meet_len
     /\ \/ node[n].total_len = 0 /\ \A p \in f : ~PktLast[p]
        \/ \E p \in f : /\ PktLast[p]
                        /\ node[n].total_len = (PktOff[p] + PktSize[p]) % UINT16

LEMMA CoverKept ==
  ASSUME CoverInv, NEW n, n \in Live, node'[n] = node[n]
  PROVE  CoverOk(n)'
<1>1. CoverOk(n)
  BY DEF CoverInv, CoverOk
<1> QED BY <1>1 DEF CoverOk

LEMMA CoverInvStep == ASSUME IInv, CoverInv, [Next]_vars PROVE CoverInv'
<1> SUFFICES ASSUME NEW n \in Live' PROVE CoverOk(n)'
  BY DEF CoverInv, CoverOk
<1> USE DEF IInv
<1>1. ASSUME NEW w \in Workers, NEW m \in Node, Leaves(w, m)
      PROVE  CoverOk(n)'
  <2>1. Live' = Live \ {m} /\ \A k \in Live' : node'[k] = node[k]
    BY <1>1, FreeNodeLive DEF Leaves, DropNode
  <2> QED BY <2>1, CoverKept
<1>2. ASSUME NEW w \in Workers, HandlerTimeout(w)
      PROVE  CoverOk(n)'
  <2> DEFINE m == info[cur[w]].pnode
  <2>1. Live' = Live \ {m} /\ \A k \in Live' : node'[k] = node[k]
    BY <1>2, TimedOutFate, FreeNodeLive DEF HandlerTimeout, Live
  <2> QED BY <2>1, CoverKept
<1>3. ASSUME NEW w \in Workers, NEW m \in Node, Joins(w, m)
      PROVE  CoverOk(n)'
  <2>0. n \in Live
    BY <1>3, JoinsLive
  <2>1. CASE n # m
    <3>1. node'[n] = node[n]
      BY <1>3, <2>0, <2>1 DEF Joins, TypeOK, Live
    <3> QED BY <2>0, <3>1, CoverKept
  <2>2. CASE n = m
    <3>1. InLock(w) /\ n \in Found(cur[w]) /\ ~Duplicate(n, cur[w])
      BY <1>3, <2>2 DEF Joins
    <3>2. cur[w] \in Pkt /\ node[n].frags \in Seq(Pkt) /\ node[n] \in NodeType
      BY <3>1, InLockType, AppendType
    <3>3. node'[n] = Appended(n, cur[w])
      BY <1>3, <2>0, <2>2 DEF Joins, TypeOK, Live
    <3>4. /\ node'[n].frags = Append(node[n].frags, cur[w])
          /\ node'[n].key = node[n].key
          /\ node'[n].meet_len = MeetLen(n, cur[w])
          /\ node'[n].total_len = TotalLen(n, cur[w])
      BY <3>2, <3>3 DEF Appended, NodeType
    <3>5. Range(node'[n].frags) = Range(node[n].frags) \cup {cur[w]}
      BY <3>2, <3>4, RangeAppend
    <3> DEFINE g == Range(node[n].frags) \cup {cur[w]}
    <3>6. /\ \A q, r \in g : PktOff[q] = PktOff[r] => q = r
          /\ AsSent(node[n].key) =>
               /\ IsFiniteSet(Covered(g))
               /\ Cardinality(Covered(g)) = MeetLen(n, cur[w])
          /\ \/ TotalLen(n, cur[w]) = 0 /\ \A q \in g : ~PktLast[q]
             \/ \E q \in g : /\ PktLast[q]
                             /\ TotalLen(n, cur[w]) = (PktOff[q] + PktSize[q]) % UINT16
      BY <3>1, JoinedCover
    <3>7. Range(node'[n].frags) = g
      BY <3>5
    <3> HIDE DEF g
    <3> QED BY <3>4, <3>6, <3>7 DEF CoverOk
  <2> QED BY <2>1, <2>2
<1>4. ASSUME NEW w \in Workers, NEW m \in Node, NEW t \in Info, FragFirst(w, m, t)
      PROVE  CoverOk(n)'
  <2>1. CASE n \in Live
    BY <1>4, <2>1, FirstLive, CoverKept
  <2>2. CASE n \notin Live
    <3>1. node'[n] = FirstNode(cur[w], t) /\ cur[w] \in Pkt
      <4>1. n = m
        BY <1>4, <2>2, FirstLive
      <4>2. node'[m] = FirstNode(cur[w], t)
        BY <1>4, FirstLive
      <4>3. cur[w] \in Pkt
        BY <1>4, InLockType DEF FragFirst
      <4> QED BY <4>1, <4>2, <4>3
    <3>2. /\ node'[n].frags = <<cur[w]>>
          /\ node'[n].meet_len = PktSize[cur[w]]
          /\ node'[n].total_len =
               IF PktLast[cur[w]] THEN (PktOff[cur[w]] + PktSize[cur[w]]) % UINT16
               ELSE 0
      BY <3>1 DEF FirstNode
    <3>3. Range(<<cur[w]>>) = {cur[w]}
      BY RangeSingle
    <3>4. Range(node'[n].frags) = {cur[w]}
      BY <3>2, <3>3, Zenon
    <3>5. /\ IsFiniteSet(Covered({cur[w]}))
          /\ Cardinality(Covered({cur[w]})) = PktSize[cur[w]]
      BY <3>1, CoverOne
    <3> QED BY <3>2, <3>4, <3>5 DEF CoverOk
  <2> QED BY <2>1, <2>2
<1>5. ASSUME UNCHANGED node
      PROVE  CoverOk(n)'
  BY <1>5, CoverKept DEF Live
<1> QED
  <2>1. ASSUME NEW w \in Workers, NEW p \in Pkt, Arrive(w, p)
        PROVE  UNCHANGED node
    BY <2>1 DEF Arrive
  <2>2. ASSUME NEW w \in Workers, SentAlone(w) \/ HandlerStopped(w) \/ Forward(w)
        PROVE  UNCHANGED node
    BY <2>2 DEF SentAlone, HandlerStopped, Forward
  <2>3. ASSUME NEW t \in Info, TimerLate(t) \/ TimerFire(t)
        PROVE  UNCHANGED node
    BY <2>3 DEF TimerLate, TimerFire
  <2>4. ASSUME NEW w \in Workers, NEW t \in Info, HandlerRead(w, t)
        PROVE  UNCHANGED node
    BY <2>4 DEF HandlerRead
  <2>5. CASE UNCHANGED vars
    BY <1>5, <2>5 DEF vars
  <2> QED BY <1>1, <1>2, <1>3, <1>4, <1>5, <2>1, <2>2, <2>3, <2>4, <2>5, NextCases

LEMMA WholeStep ==
  ASSUME IInv, CoverInv, WholeMeansComplete, [Next]_vars
  PROVE  WholeMeansComplete'
<1> DEFINE In(q) == out[q] \in InWhole
           InNext(q) == out'[q] \in InWhole
           Parts(k) == {q \in Pkt : PktKey[q] = k /\ In(q)}
           PartsNext(k) == {q \in Pkt : PktKey[q] = k /\ InNext(q)}
           Closed(S) == /\ \E q \in S : PktOff[q] = 0
                        /\ \A q \in S : PktLast[q] \/ \E r \in S :
                             PktOff[r] = PktOff[q] + PktSize[q]
<1>0. WholeMeansComplete' <=>
        \A p \in Pkt : InNext(p) /\ AsSent(PktKey[p]) => Closed(PartsNext(PktKey[p]))
  BY DEF WholeMeansComplete
<1>1. \A p \in Pkt : In(p) /\ AsSent(PktKey[p]) => Closed(Parts(PktKey[p]))
  BY DEF WholeMeansComplete
<1>2. ASSUME \A q \in Pkt : InNext(q) <=> In(q)
      PROVE  WholeMeansComplete'
  <2>1. \A k : PartsNext(k) = Parts(k)
    BY <1>2
  <2> HIDE DEF In, InNext, Parts, PartsNext, Closed
  <2> QED BY <1>0, <1>1, <1>2, <2>1
<1>3. ASSUME NEW w \in Workers, NEW n \in Node, Leaves(w, n)
      PROVE  WholeMeansComplete'
  <2> DEFINE g == Range(node[n].frags) \cup {cur[w]}
  <2>1. InLock(w) /\ n \in Found(cur[w]) /\ ~Duplicate(n, cur[w])
    BY <1>3 DEF Leaves
  <2>2. cur[w] \in Pkt /\ out[cur[w]] = "taken"
    BY <2>1, InLockType
  <2>3. \A q \in Range(node[n].frags) : q \in Pkt /\ out[q] = "cached"
    BY <1>3, LeavesFate
  <2>4. \A q \in g : q \in Pkt /\ ~In(q)
    BY <2>2, <2>3 DEF InWhole
  <2>5. CASE \A q \in Pkt : out'[q] = IF q \in g THEN "alone" ELSE out[q]
    BY <1>2, <2>4, <2>5 DEF InWhole
  <2>6. CASE /\ \A q \in Pkt : out'[q] = IF q \in g THEN "whole" ELSE out[q]
             /\ MeetLen(n, cur[w]) = TotalLen(n, cur[w])
    <3> DEFINE k == node[n].key
    <3>1. \A q \in Pkt : InNext(q) <=> In(q) \/ q \in g
      BY <2>6 DEF InWhole
    <3>2. g \in SUBSET Pkt /\ \A q \in g : PktKey[q] = k
      BY <2>1, JoinedCover
    <3>3. ASSUME AsSent(k) PROVE Closed(g)
      <4>1. /\ \A q, r \in g : PktOff[q] = PktOff[r] => q = r
            /\ IsFiniteSet(Covered(g))
            /\ Cardinality(Covered(g)) = MeetLen(n, cur[w])
            /\ \/ TotalLen(n, cur[w]) = 0 /\ \A q \in g : ~PktLast[q]
               \/ \E q \in g : /\ PktLast[q]
                               /\ TotalLen(n, cur[w]) =
                                    (PktOff[q] + PktSize[q]) % UINT16
        BY <2>1, <3>3, JoinedCover
      <4>2. MeetLen(n, cur[w]) # 0
        <5>1. PktKey[cur[w]] = k /\ cur[w] \in g
          BY <3>2
        <5>2. PktOff[cur[w]] \in Bytes(cur[w])
          <6>1. PktSize[cur[w]] > 0
            BY <2>2, <3>3, <5>1, SentTypes
          <6> QED BY <2>2, <6>1, PktTypes DEF Bytes
        <5>3. PktOff[cur[w]] \in Covered(g)
          <6> HIDE DEF g
          <6> QED BY <5>1, <5>2, InCovered
        <5>4. Cardinality(Covered(g)) # 0
          <6> HIDE DEF g
          <6> QED BY <4>1, <5>3, FS_EmptySet
        <5> QED BY <4>1, <5>4
      <4>3. PICK z \in g : /\ PktLast[z]
                           /\ TotalLen(n, cur[w]) = (PktOff[z] + PktSize[z]) % UINT16
        BY <2>6, <4>1, <4>2
      <4>4. Cardinality(Covered(g)) = PktOff[z] + PktSize[z]
        BY <2>6, <3>2, <3>3, <4>1, <4>3, SentTypes
      <4> HIDE DEF g, k
      <4> QED BY <3>2, <3>3, <4>1, <4>3, <4>4, NoGap
    <3> SUFFICES ASSUME NEW p \in Pkt, InNext(p), AsSent(PktKey[p])
                 PROVE  Closed(PartsNext(PktKey[p]))
      BY <1>0
    <3>4. CASE PktKey[p] # k
      <4>1. PartsNext(PktKey[p]) = Parts(PktKey[p]) /\ In(p)
        BY <3>1, <3>2, <3>4
      <4> HIDE DEF In, InNext, Parts, PartsNext, Closed
      <4> QED BY <1>1, <4>1
    <3>5. CASE PktKey[p] = k
      <4>1. PartsNext(k) = Parts(k) \cup g
        BY <3>1, <3>2
      <4>2. Closed(g)
        BY <3>3, <3>5
      <4>3. Parts(k) = {} \/ Closed(Parts(k))
        BY <1>1, <3>5
      <4>4. Closed(Parts(k) \cup g)
        <5> HIDE DEF g, Parts, k
        <5> QED BY <4>2, <4>3
      <4> HIDE DEF g, Parts, PartsNext, Closed
      <4> QED BY <3>5, <4>1, <4>4
    <3> QED BY <3>4, <3>5
  <2> QED BY <1>3, <2>5, <2>6, LeavesFate
<1>4. ASSUME NEW w \in Workers, NEW fate \in {"alone", "cached"}, pc[w] = "frag",
             Emit(<<cur[w]>>, fate)
      PROVE  WholeMeansComplete'
  <2>1. \A q \in Pkt : out'[q] = IF q = cur[w] THEN fate ELSE out[q]
    BY <1>4, EmitFate, RangeSingle
  <2>2. out[cur[w]] = "taken"
    BY <1>4 DEF IInv, WorkerInv
  <2> QED BY <1>2, <1>4, <2>1, <2>2 DEF InWhole
<1>5. ASSUME NEW w \in Workers, NEW p \in Pkt, Arrive(w, p)
      PROVE  WholeMeansComplete'
  BY <1>2, <1>5 DEF Arrive, IInv, TypeOK, InWhole
<1>6. ASSUME NEW w \in Workers, HandlerTimeout(w)
      PROVE  WholeMeansComplete'
  BY <1>2, <1>6, TimedOutFate DEF InWhole
<1>7. ASSUME NEW w \in Workers, Forward(w)
      PROVE  WholeMeansComplete'
  BY <1>2, <1>7, ForwardFate DEF InWhole
<1>8. ASSUME UNCHANGED out
      PROVE  WholeMeansComplete'
  BY <1>2, <1>8
<1> QED
  <2>1. ASSUME NEW w \in Workers, SentAlone(w) PROVE WholeMeansComplete'
    BY <1>4, <2>1 DEF SentAlone
  <2>2. ASSUME NEW w \in Workers, NEW n \in Node, Joins(w, n) PROVE WholeMeansComplete'
    BY <1>4, <2>2 DEF Joins, InLock
  <2>3. ASSUME NEW w \in Workers, NEW n \in Node, NEW t \in Info, FragFirst(w, n, t)
        PROVE  WholeMeansComplete'
    BY <1>4, <2>3 DEF FragFirst, InLock
  <2>4. ASSUME NEW t \in Info, TimerLate(t) \/ TimerFire(t) PROVE UNCHANGED out
    BY <2>4 DEF TimerLate, TimerFire
  <2>5. ASSUME NEW w \in Workers, NEW t \in Info, HandlerRead(w, t) PROVE UNCHANGED out
    BY <2>5 DEF HandlerRead
  <2>6. ASSUME NEW w \in Workers, HandlerStopped(w) PROVE UNCHANGED out
    BY <2>6 DEF HandlerStopped
  <2>7. CASE UNCHANGED vars
    BY <1>8, <2>7 DEF vars
  <2> QED BY <1>3, <1>5, <1>6, <1>7, <1>8, <2>1, <2>2, <2>3, <2>4, <2>5, <2>6,
             <2>7, NextCases

\* What ip4_frag_build_pkt puts together is a datagram without a gap: equal
\* lengths mean that no byte is missing, however the fragments came.
THEOREM AlwaysComplete == Spec => []WholeMeansComplete
<1>1. Init => CoverInv /\ WholeMeansComplete
  BY DEF Init, CoverInv, Live, WholeMeansComplete, InWhole
<1>2. IInv /\ CoverInv /\ WholeMeansComplete /\ [Next]_vars
        => CoverInv' /\ WholeMeansComplete'
  BY CoverInvStep, WholeStep
<1> QED BY <1>1, <1>2, ReassInvariance, PTL DEF Spec
=============================================================================
