----------------------------- MODULE PktTransport ----------------------------
(* How a packet gets into the graph and out of it: sf-dpdk-input, the       *)
(* handoff between workers, the gathering of a packet of several segments   *)
(* into one 16k block (sf_hugepkt_input), sf_pkt_output, the splitting of   *)
(* such a packet (sf_hugepkt_output), sf_pkt_drop and the tx function of    *)
(* the device.  Decoding and actions (modules PktDecode and Actions) stand  *)
(* between input and output and are one node here.                          *)
(*                                                                          *)
(* Every worker runs its nodes to the end, one after another; the workers   *)
(* share the mempool, the frame queues, the tx queues and the switches of   *)
(* the interfaces.  A node handles its frame several packets at a time      *)
(* while enough are left, then one by one: two loops, two actions.          *)
(*                                                                          *)
(* A packet is [id, segs, tag, ttl, flow, proto, out, grow]: the lengths of *)
(* its segments, what the handoff reads of its headers (flow is the pair of *)
(* its addresses), and what the actions will do: the interface (0: drop it) *)
(* and the bytes they add.                                                  *)
EXTENDS Integers, Sequences, FiniteSets, SequencesExt, FiniteSetsExt

CONSTANTS
  Workers,         \* 1..n, sf_vlib_num_workers
  Intf,            \* interface ids, 1..k
  Buffers,         \* vlib buffers, one rte_mbuf each: a set of numbers
  Blocks,          \* 16k blocks in the pool of a worker
  Arrivals,        \* what the queues of the ports may hold: [Workers -> Seq(burst)]
  RxIntf,          \* interface of a worker's rx queue: [Workers -> Intf]
  Hash(_),         \* clib_xxhash
  VLIB_FRAME_SIZE,
  VLIB_BUFFER_DATA_SIZE,
  HUGE_PKT_MAX_DATA_SIZE,
  HUFEPKT_MAX_SUB_BUFFER_CNT,
  Chunk,           \* buffers a worker's free list takes from the mempool at once
  QueueLen,        \* frames a handoff queue holds
  TxQueues,        \* tx_q_used: tx queues of a device
  MaxSwitches      \* bound: changes of configuration

VARIABLES
  rxq,             \* bursts a worker's rx queue will deliver
  mempool,         \* how often a buffer is in the rte_mempool
  freelist,        \* buffers in a worker's own free list
  blkpool,         \* how often a block is in its worker's pool
  mbuf,            \* the packet and the segments of an mbuf chain
  wd,              \* sf_wdata_t with sf_hugepkt_helper_t
  cur,             \* the node a worker runs, with its local arrays
  pend,            \* frames that wait for a node of the worker
  fq,              \* frame queue a worker gets packets of others from
  stat,            \* sf_intf_stat_main, and handoff_pkt_cnt
  admin, handoff,  \* admin_status, handoff_switch
  lock,            \* lockp of the tx queues: 0 or the worker
  switches,
  sent,            \* what left: packet and segments
  phase,           \* where a worker is in its main loop
  lost,            \* buffers nobody refers to any more
  spoilt,          \* blocks that were freed and are still referred to
  seen             \* <<flow, proto, worker>> of handed packets

shared == <<rxq, fq, admin, handoff, lock, switches, phase>>
mine == <<mempool, freelist, blkpool, wd, stat, lost, spoilt>>
vars == <<rxq, mempool, freelist, blkpool, mbuf, wd, cur, pend, fq, stat,
          admin, handoff, lock, switches, sent, phase, lost, spoilt, seen>>

OUTPUT_TAG_PRE_SIZE == 8
Block == 1..Blocks
NoBlock == 0
N(name) == <<name, 0>>
HandoffNode == N("sf_pkt_handoff")
HfInputNode == N("sf_pkt_hf_input")
HugeInputNode == N("sf_hugepkt_input")
Tx(i) == <<"tx", i>>
Idle == N("none")
NoRun == [node |-> Idle, frame |-> <<>>, left |-> <<>>, to |-> <<>>,
          away |-> <<>>, drops |-> <<>>, queue |-> 0, hand |-> FALSE]
RunNode(n, f) == [NoRun EXCEPT !.node = n, !.frame = f, !.left = f]
NoWdata == [intf |-> 0, out |-> 0, huge |-> FALSE, rec |-> FALSE, len |-> 0,
            blk |-> NoBlock, subs |-> <<>>, handed |-> FALSE]

\* FoldLeft, with the accumulator evaluated once in every step
Fold(op(_, _), base, seq) ==
  LET F[i \in 0..Len(seq)] ==
        IF i = 0 THEN base ELSE CHOOSE r \in {op(a, seq[i]) : a \in {F[i-1]}} : TRUE
  IN F[Len(seq)]
SumSeq(s) == Fold(LAMBDA a, x : a + x, 0, s)
MinOf(a, b) == IF a < b THEN a ELSE b
Lens(segs) == [i \in DOMAIN segs |-> segs[i].len]
Bufs(segs) == [i \in DOMAIN segs |-> segs[i].buf]
FirstN(S, n) == [i \in 1..n |-> CHOOSE b \in S : Cardinality({x \in S : x < b}) = i - 1]
FreeIn(pool) == {b \in Buffers : pool[b] > 0}

(* What a worker's step may change: its own state, and the buffers.         *)
State(w) == [w |-> w, wd |-> wd, pool |-> mempool, fl |-> freelist[w],
             bp |-> blkpool[w], st |-> stat[w], c |-> cur[w], lost |-> lost,
             spoilt |-> spoilt]
Becomes(w, new) ==
  \E s \in {new} :
    /\ wd' = s.wd /\ mempool' = s.pool /\ lost' = s.lost /\ spoilt' = s.spoilt
    /\ freelist' = [freelist EXCEPT ![w] = s.fl]
    /\ blkpool' = [blkpool EXCEPT ![w] = s.bp]
    /\ stat' = [stat EXCEPT ![w] = s.st]
    /\ cur' = [cur EXCEPT ![w] = s.c]

Times(b, s) == Cardinality({i \in DOMAIN s : s[i] = b})
Returned(pool, bs) == [b \in Buffers |-> pool[b] + Times(b, bs)]
Free(s, bs) == [s EXCEPT !.pool = Returned(@, bs)]
To(s, n, b) == [s EXCEPT !.c.to = Append(@, <<n, b>>)]
Count(s, f, i, k) == [s EXCEPT !.st[f][i] = @ + k]

\* the loop over k packets (it looks k packets ahead) and the loop over one
Running(w, n) == cur[w].node = n /\ cur[w].left # <<>>
Several(w, n, k) == Running(w, n) /\ Len(cur[w].left) >= 2 * k
Single(w, n, k) == Running(w, n) /\ Len(cur[w].left) < 2 * k
\* s is the state of the worker in between: a packet, or one after the other
Pop(s) == [s EXCEPT !.c.left = Tail(@)]
Took(s, f(_, _)) == f(Pop(s), Head(s.c.left))
Each(s, k, f(_, _)) ==
  LET one == Took(s, f)
      two == Took(one, f)
      three == Took(two, f)
  IN CASE k = 1 -> one [] k = 2 -> two [] k = 4 -> Took(three, f)

\* the frames of the next nodes: a pending frame of the node is filled up
AddTo(frames, n, b) ==
  LET at == {i \in DOMAIN frames : /\ frames[i].node = n
                                    /\ Len(frames[i].bufs) < VLIB_FRAME_SIZE}
  IN IF at = {} THEN Append(frames, [node |-> n, bufs |-> <<b>>])
     ELSE [frames EXCEPT ![CHOOSE i \in at : TRUE].bufs = Append(@, b)]
Enqueue(frames, to) == Fold(LAMBDA f, x : AddTo(f, x[1], x[2]), frames, to)

----------------------------------------------------------------------------
(* sf-dpdk-input                                                            *)

Needs(burst) == SumSeq([i \in DOMAIN burst |-> Len(burst[i].segs)])
\* the PMD takes a buffer for every segment: gives a sequence of chains
Chains(burst, free) ==
  LET bs == FirstN(free, Needs(burst))
      Start[i \in 0..Len(burst)] == IF i = 0 THEN 0
                                    ELSE Start[i-1] + Len(burst[i].segs)
  IN [i \in DOMAIN burst |-> [pkt |-> burst[i], segs |->
        [j \in DOMAIN burst[i].segs |-> [buf |-> bs[Start[i-1] + j],
                                         len |-> burst[i].segs[j]]]]]

\* both switches must be on; the state of the handoff is read once
CanReceive(w) == /\ rxq[w] # <<>> /\ admin[RxIntf[w]]
                 /\ Cardinality(FreeIn(mempool)) >= Needs(Head(rxq[w]))
dpdk_device_input(w) ==
  /\ phase[w] = "input" /\ CanReceive(w)
  /\ LET ch == Chains(Head(rxq[w]), FreeIn(mempool))
         heads == [i \in DOMAIN ch |-> ch[i].segs[1].buf]
     IN /\ mempool' = [b \in Buffers |->
             IF \E i \in DOMAIN ch : b \in Range(Bufs(ch[i].segs))
             THEN mempool[b] - 1 ELSE mempool[b]]
        /\ mbuf' = [b \in Buffers |->
             IF b \in Range(heads)
             THEN ch[CHOOSE i \in DOMAIN heads : heads[i] = b] ELSE mbuf[b]]
        /\ cur' = [cur EXCEPT ![w] = [RunNode(N("sf-dpdk-input"), heads)
                                      EXCEPT !.hand = handoff[RxIntf[w]]]]
  /\ rxq' = [rxq EXCEPT ![w] = Tail(@)]
  /\ phase' = [phase EXCEPT ![w] = "run"]
  /\ UNCHANGED <<freelist, blkpool, wd, pend, fq, stat, admin, handoff, lock,
                 switches, sent, lost, spoilt, seen>>
NothingReceived(w) ==
  /\ phase[w] = "input" /\ ~CanReceive(w)
  /\ phase' = [phase EXCEPT ![w] = "run"]
  /\ UNCHANGED <<mine, rxq, mbuf, cur, pend, fq, admin, handoff, lock, switches, sent, seen>>

\* sf_dpdk_process_subseq_segs: what the first buffer notes of the others
SubseqSegs(x, segs) == IF Len(segs) < 2 THEN x
                       ELSE [x EXCEPT !.huge = TRUE, !.subs = segs]

RxNext(w, x) == IF cur[w].hand THEN HandoffNode
                ELSE IF x.huge THEN HugeInputNode ELSE N("graph")
RxPacket(w, s, b) ==
  LET segs == mbuf[b].segs
      x == SubseqSegs([NoWdata EXCEPT !.intf = RxIntf[w], !.rec = TRUE,
                                      !.len = segs[1].len], segs)
  IN To([s EXCEPT !.wd[b] = x], RxNext(w, x), b)
RxStep(w, k) == /\ Becomes(w, Each(State(w), k, LAMBDA s, b : RxPacket(w, s, b)))
                /\ UNCHANGED <<shared, mbuf, pend, sent, seen>>
RxFour(w) == Several(w, N("sf-dpdk-input"), 4) /\ RxStep(w, 4)
RxOne(w) == Single(w, N("sf-dpdk-input"), 4) /\ RxStep(w, 1)

\* a node has taken its whole frame: it hands over what it enqueued
Finished(w, n) == cur[w].node = n /\ cur[w].left = <<>> /\ cur[w].away = <<>>
HandOver(w) == pend' = [pend EXCEPT ![w] = Enqueue(@, cur[w].to)]
Ended(w, s) == Becomes(w, [s EXCEPT !.c = NoRun]) /\ HandOver(w)
RxDone(w) ==
  /\ Finished(w, N("sf-dpdk-input"))
  /\ Ended(w, Count(Count(State(w), "in_packets", RxIntf[w], Len(cur[w].frame)),
                    "in_octets", RxIntf[w], SumSeq([i \in DOMAIN cur[w].frame |->
                                      SumSeq(Lens(mbuf[cur[w].frame[i]].segs))])))
  /\ UNCHANGED <<shared, mbuf, sent, seen>>

----------------------------------------------------------------------------
(* The handoff.  With an 802.1Q tag the code steps over an Ethernet header  *)
(* where there are four bytes of tag, and so takes the TTL and the protocol *)
(* for the type of the payload.                                             *)

\* mutant: only the source is hashed
HashKey_OneWay(p) == <<{p.flow[1]}, p.proto>>
HashKey(p) == IF p.tag THEN <<{p.ttl}, p.proto>>
              ELSE <<IF p.flow[1] = p.flow[2] THEN {} ELSE Range(p.flow), p.proto>>
sf_pkt_get_worker_index(p) == 1 + (Hash(HashKey(p)) % Cardinality(Workers))

\* what the ports deliver
Packet == {p \in [id : Nat, segs : Seq(Nat), tag : BOOLEAN, ttl : Nat, flow : Nat \X Nat,
                  proto : Nat, out : Nat, grow : Nat] :
             p.segs # <<>> /\ Hash(HashKey(p)) \in Nat}

ASSUME PacketAssumption ==
  /\ IsFiniteSet(Workers) /\ Workers # {} /\ Workers = 1..Cardinality(Workers)
  /\ Buffers \subseteq Nat /\ IsFiniteSet(Buffers)
  /\ Arrivals \subseteq [Workers -> Seq(Seq(Packet))]
  /\ RxIntf \in [Workers -> Intf]

ASSUME CapacityAssumption ==
  /\ Blocks \in Nat /\ Chunk \in Nat /\ TxQueues \in Nat
  /\ VLIB_FRAME_SIZE \in Nat \ {0} /\ VLIB_BUFFER_DATA_SIZE \in Nat \ {0}
  /\ HUGE_PKT_MAX_DATA_SIZE \in Nat /\ HUFEPKT_MAX_SUB_BUFFER_CNT \in Nat

InputNode(x) == IF x.huge THEN HugeInputNode ELSE N("graph")
CountHandoff(s, b) == Count([s EXCEPT !.wd[b].handed = TRUE], "handoff", wd[b].intf, 1)
HandoffPacket(w, s, b) ==
  LET t == sf_pkt_get_worker_index(mbuf[b].pkt)
  IN IF t = w THEN To(CountHandoff(s, b), InputNode(wd[b]), b)
     ELSE [s EXCEPT !.c.away = Append(@, <<t, b>>)]
HandoffStep(w, k) ==
  /\ Becomes(w, Each(State(w), k, LAMBDA s, b : HandoffPacket(w, s, b)))
  /\ UNCHANGED <<shared, mbuf, pend, sent, seen>>
HandoffTwo(w) == Several(w, HandoffNode, 2) /\ HandoffStep(w, 2)
HandoffOne(w) == Single(w, HandoffNode, 2) /\ HandoffStep(w, 1)

\* vlib_buffer_enqueue_to_thread, drop_on_congestion 0: it waits for a slot
SortOut(t, f, x) == IF x[1] = t THEN [f EXCEPT !.his = Append(@, x[2])]
                    ELSE [f EXCEPT !.rest = Append(@, x)]
Sorted(away, t) == Fold(LAMBDA f, x : SortOut(t, f, x), [his |-> <<>>, rest |-> <<>>], away)
HandoffSend(w) ==
  /\ cur[w].node = HandoffNode /\ cur[w].left = <<>> /\ cur[w].away # <<>>
  /\ LET t == cur[w].away[1][1]
         f == Sorted(cur[w].away, t)
     IN /\ Len(fq[t]) < QueueLen
        /\ fq' = [fq EXCEPT ![t] = Append(@, f.his)]
        /\ cur' = [cur EXCEPT ![w].away = f.rest]
  /\ UNCHANGED <<mine, rxq, mbuf, pend, admin, handoff, lock, switches, sent,
                 phase, seen>>
HfPacket(s, b) == To(CountHandoff(s, b), InputNode(wd[b]), b)
HfStep(w, k) == /\ Becomes(w, Each(State(w), k, HfPacket))
                /\ UNCHANGED <<shared, mbuf, pend, sent, seen>>
HfTwo(w) == Several(w, HfInputNode, 2) /\ HfStep(w, 2)
HfOne(w) == Single(w, HfInputNode, 2) /\ HfStep(w, 1)

----------------------------------------------------------------------------
(* sf_hugepkt_input: the segments are copied into a block                   *)

\* alloc_node_from_pool; NoBlock stands for NULL + SF_HUGE_PKT_PRE_DATA_SIZE,
\* which the test for NULL takes for a block
alloc_huge_pkt_16k(s) == IF \E k \in Block : s.bp[k] > 0
                         THEN Min({k \in Block : s.bp[k] > 0}) ELSE NoBlock
TakeBlock(bp, k) == IF k = NoBlock THEN bp ELSE [bp EXCEPT ![k] = @ - 1]
free_huge_pkt_16k(s, k) == IF k = NoBlock THEN s ELSE [s EXCEPT !.bp[k] = @ + 1]

\* sf_vlib_buffer_contents copies all, and lists the others to be freed
Contents(segs) == SumSeq(Lens(segs))
DropSubs(segs) == Tail(Bufs(segs))

RestLen(segs) == SumSeq(Lens(Tail(segs)))
TooLong(x) == RestLen(x.subs) + x.len >= HUGE_PKT_MAX_DATA_SIZE
handle_huge_packet(s, b) ==
  LET x == s.wd[b]
      k == alloc_huge_pkt_16k(s)
  IN IF TooLong(x)
     THEN Count([s EXCEPT !.lost = @ \cup Range(Bufs(x.subs))], "drop_packets", x.intf, 1)
     ELSE To([s EXCEPT !.bp = TakeBlock(@, k),
                       !.wd[b] = [x EXCEPT !.len = Contents(x.subs), !.blk = k],
                       !.c.drops = @ \o DropSubs(x.subs)],
             N("graph"), b)

\* the array of buffers to free is emptied before it could overflow
Flush(s, bs) ==
  IF Len(s.c.drops) + SumSeq([i \in DOMAIN bs |-> Len(s.wd[bs[i]].subs)]) > VLIB_FRAME_SIZE
  THEN [Free(s, s.c.drops) EXCEPT !.c.drops = <<>>] ELSE s
HugeStep(w, k) ==
  /\ Becomes(w, Each(Flush(State(w), SubSeq(cur[w].left, 1, k)), k, handle_huge_packet))
  /\ UNCHANGED <<shared, mbuf, pend, sent, seen>>
HugeTwo(w) == Several(w, HugeInputNode, 2) /\ HugeStep(w, 2)
HugeOne(w) == Single(w, HugeInputNode, 2) /\ HugeStep(w, 1)
HugeDone(w) ==
  /\ Finished(w, HugeInputNode)
  /\ Ended(w, Free(State(w), cur[w].drops))
  /\ UNCHANGED <<shared, mbuf, sent, seen>>

----------------------------------------------------------------------------
(* The rest of the graph: the decoders and the actions                      *)

GraphPacket(s, b) ==
  LET p == mbuf[b].pkt
  IN To([s EXCEPT !.wd[b].out = p.out, !.wd[b].len = @ + p.grow],
        IF p.out = 0 THEN N("sf_pkt_drop") ELSE N("sf_pkt_output"), b)
Graph(w) ==
  /\ Running(w, N("graph"))
  /\ Becomes(w, Each(State(w), 1, GraphPacket))
  /\ LET b == Head(cur[w].left)
         p == mbuf[b].pkt
     IN seen' = IF wd[b].handed /\ ~p.tag
                THEN seen \cup {<<Range(p.flow), p.proto, w>>} ELSE seen
  /\ UNCHANGED <<shared, mbuf, pend, sent>>

----------------------------------------------------------------------------
(* sf_pkt_output, sf_hugepkt_output and sf_pkt_drop                         *)

\* the block of a packet that cannot go out is freed here, its flag stays
OutPacket(s, b) ==
  LET x == wd[b] IN
  IF x.out \in Intf /\ admin[x.out]
  THEN To(Count(Count(s, "out_packets", x.out, 1), "out_octets", x.out, x.len),
          IF x.huge THEN N("sf_hugepkt_output") ELSE Tx(x.out), b)
  ELSE To(IF x.huge THEN [free_huge_pkt_16k(s, x.blk) EXCEPT
                            !.spoilt = @ \cup {<<s.w, x.blk>>}] ELSE s,
          N("sf_pkt_drop"), b)
OutStep(w, k) == /\ Becomes(w, Each(State(w), k, OutPacket))
                 /\ UNCHANGED <<shared, mbuf, pend, sent, seen>>
OutTwo(w) == Several(w, N("sf_pkt_output"), 2) /\ OutStep(w, 2)
OutOne(w) == Single(w, N("sf_pkt_output"), 2) /\ OutStep(w, 1)

\* sf_vlib_alloc_no_fail: all n buffers or none; the free list of the worker
\* is filled a chunk at a time (dpdk_buffer_fill_free_list)
FillFreeList(s, n) ==
  LET k == IF n - Cardinality(s.fl) > Chunk THEN n - Cardinality(s.fl) ELSE Chunk
      bs == FirstN(FreeIn(s.pool), k)
  IN IF Cardinality(FreeIn(s.pool)) < k THEN s
     ELSE [s EXCEPT !.fl = @ \cup Range(bs),
                    !.pool = [b \in Buffers |-> IF b \in Range(bs) THEN @[b] - 1 ELSE @[b]]]
sf_vlib_alloc_no_fail(s, n) ==
  IF Cardinality(s.fl) < n THEN FillFreeList(s, n) ELSE s

\* the buffers a packet of len bytes is split into, and what each gets
SubCount(len) == LET l == len + OUTPUT_TAG_PRE_SIZE
                 IN l \div VLIB_BUFFER_DATA_SIZE
                    + IF l % VLIB_BUFFER_DATA_SIZE > 0 THEN 1 ELSE 0
\* mutant: no room is kept for a tag
Room_NoTag(i) == VLIB_BUFFER_DATA_SIZE
Room(i) == VLIB_BUFFER_DATA_SIZE - IF i = 1 THEN OUTPUT_TAG_PRE_SIZE ELSE 0
Pieces(len, bs) ==
  LET At[i \in 0..Len(bs)] == IF i = 0 THEN 0 ELSE At[i-1] + Room(i)
  IN [i \in DOMAIN bs |-> [buf |-> bs[i],
        len |-> IF At[i-1] >= len THEN 0 ELSE MinOf(len - At[i-1], Room(i))]]

\* the packet goes out in pieces, or is dropped and its statistics taken back
\* mutant: the packet stays counted as sent
SplitFailed_KeepStat(s, b) == To([s EXCEPT !.wd[b].huge = FALSE], N("sf_pkt_drop"), b)
\* mutant: the packet is still taken for a huge one
SplitFailed_KeepFlag(s, b) ==
  LET x == s.wd[b]
  IN To([s EXCEPT !.st.out_packets[x.out] = @ - 1,
                  !.st.out_octets[x.out] = @ - x.len], N("sf_pkt_drop"), b)
SplitFailed(s, b) ==
  LET x == s.wd[b]
  IN To([s EXCEPT !.wd[b].huge = FALSE, !.st.out_packets[x.out] = @ - 1,
                  !.st.out_octets[x.out] = @ - x.len],
        N("sf_pkt_drop"), b)
sf_vlib_buffer_split(s, b) ==
  LET x == s.wd[b]
      n == SubCount(x.len)
      a == sf_vlib_alloc_no_fail(s, n - 1)
      others == FirstN(a.fl, n - 1)
  IN IF n > HUFEPKT_MAX_SUB_BUFFER_CNT THEN SplitFailed(s, b)
     ELSE IF Cardinality(a.fl) < n - 1 THEN SplitFailed(a, b)
     ELSE To([a EXCEPT !.fl = @ \ Range(others),
                       !.wd[b].huge = (n > 1),
                       !.wd[b].subs = Pieces(x.len, <<b>> \o others)],
             Tx(x.out), b)
HugeOutPacket(s, b) == free_huge_pkt_16k(sf_vlib_buffer_split(s, b), wd[b].blk)
HugeOutStep(w, k) == /\ Becomes(w, Each(State(w), k, HugeOutPacket))
                     /\ UNCHANGED <<shared, mbuf, pend, sent, seen>>
HugeOutTwo(w) == Several(w, N("sf_hugepkt_output"), 2) /\ HugeOutStep(w, 2)
HugeOutOne(w) == Single(w, N("sf_hugepkt_output"), 2) /\ HugeOutStep(w, 1)

DropPacket(s, b) ==
  LET x == wd[b]
      r == IF x.huge THEN free_huge_pkt_16k(s, x.blk) ELSE s
  IN IF x.rec /\ x.intf \in Intf THEN Count(r, "drop_packets", x.intf, 1) ELSE r
DropStep(w, k) == /\ Becomes(w, Each(State(w), k, DropPacket))
                  /\ UNCHANGED <<shared, mbuf, pend, sent, seen>>
DropTwo(w) == Several(w, N("sf_pkt_drop"), 2) /\ DropStep(w, 2)
DropOne(w) == Single(w, N("sf_pkt_drop"), 2) /\ DropStep(w, 1)
DropDone(w) ==
  /\ Finished(w, N("sf_pkt_drop"))
  /\ Ended(w, Free(State(w), cur[w].frame))
  /\ UNCHANGED <<shared, mbuf, sent, seen>>

----------------------------------------------------------------------------
(* The tx function of a device: the mbufs are made from wd, then sent       *)

\* sf_dpdk_validate_rte_mbuf
Validate(b) == [mbuf[b] EXCEPT !.segs = IF wd[b].huge THEN wd[b].subs
                                        ELSE <<[buf |-> b, len |-> wd[b].len]>>]
TxStep(w, k) ==
  /\ mbuf' = [b \in Buffers |-> IF b \in Range(SubSeq(cur[w].left, 1, k))
                                THEN Validate(b) ELSE mbuf[b]]
  /\ cur' = [cur EXCEPT ![w].left = SubSeq(@, k + 1, Len(@))]
  /\ UNCHANGED <<shared, mine, pend, sent, seen>>
TxFour(w, i) == Several(w, Tx(i), 4) /\ TxStep(w, 4)
TxOne(w, i) == Single(w, Tx(i), 4) /\ TxStep(w, 1)

\* tx_burst_vector_internal: a lock per queue if there are fewer queues than
\* threads; the device takes any number of the packets, and the rest is tried
\* again.  The device gives the buffers back to the mempool.
NeedsLock == TxQueues < Cardinality(Workers) + 1
TxQueue(w) == IF NeedsLock THEN cur[w].queue ELSE w
Sending(w, i) == cur[w].node = Tx(i) /\ cur[w].left = <<>> /\ cur[w].frame # <<>>
TryLock(w, i) ==
  /\ NeedsLock
  /\ \E q \in 1..TxQueues :
       /\ lock[i][q] = 0
       /\ lock' = [lock EXCEPT ![i][q] = w]
       /\ cur' = [cur EXCEPT ![w].queue = q]
TxLock(w, i) ==
  /\ Sending(w, i) /\ cur[w].queue = 0
  /\ TryLock(w, i)
  /\ UNCHANGED <<mine, rxq, mbuf, pend, fq, admin, handoff, switches, sent, phase, seen>>
Unlock(w, i) == lock' = IF NeedsLock THEN [lock EXCEPT ![i][cur[w].queue] = 0] ELSE lock
TxBurst(w, i, n) ==
  /\ Sending(w, i) /\ (NeedsLock => cur[w].queue # 0)
  /\ n <= Len(cur[w].frame)
  /\ LET gone == SubSeq(cur[w].frame, 1, n)
         bs == FlattenSeq([j \in DOMAIN gone |-> Bufs(mbuf[gone[j]].segs)])
     IN /\ mempool' = Returned(mempool, bs)
        /\ sent' = sent \cup {[pkt |-> mbuf[gone[j]].pkt,
                               segs |-> Lens(mbuf[gone[j]].segs)] : j \in DOMAIN gone}
  /\ cur' = [cur EXCEPT ![w].frame = SubSeq(@, n + 1, Len(@)), ![w].queue = 0]
  /\ Unlock(w, i)
  /\ UNCHANGED <<rxq, freelist, blkpool, mbuf, wd, pend, fq, stat, admin,
                 handoff, switches, phase, lost, spoilt, seen>>

----------------------------------------------------------------------------
(* The loop of a worker                                                     *)

Plain == {HandoffNode, HfInputNode, N("graph"),
          N("sf_pkt_output"), N("sf_hugepkt_output")} \cup {Tx(i) : i \in Intf}
NodeDone(w) ==
  /\ cur[w].node \in Plain /\ Finished(w, cur[w].node)
  /\ cur[w].node \in {Tx(i) : i \in Intf} => cur[w].frame = <<>>
  /\ Ended(w, State(w))
  /\ UNCHANGED <<shared, mbuf, sent, seen>>
Dispatch(w) ==
  /\ phase[w] = "run" /\ cur[w].node = Idle /\ pend[w] # <<>>
  /\ cur' = [cur EXCEPT ![w] = RunNode(Head(pend[w]).node, Head(pend[w]).bufs)]
  /\ pend' = [pend EXCEPT ![w] = Tail(@)]
  /\ UNCHANGED <<shared, mine, mbuf, sent, seen>>
\* a new round: vlib_frame_queue_dequeue, then the input node
Poll(w) ==
  /\ phase[w] = "run" /\ cur[w].node = Idle /\ pend[w] = <<>>
  /\ fq[w] # <<>> \/ CanReceive(w)
  /\ phase' = [phase EXCEPT ![w] = "input"]
  /\ IF fq[w] = <<>> THEN UNCHANGED <<fq, pend>>
     ELSE /\ pend' = [pend EXCEPT ![w] = <<[node |-> HfInputNode,
                                            bufs |-> Head(fq[w])]>>]
          /\ fq' = [fq EXCEPT ![w] = Tail(@)]
  /\ UNCHANGED <<mine, rxq, mbuf, cur, admin, handoff, lock, switches, sent, seen>>

Worker(w) ==
  \/ Poll(w) \/ NothingReceived(w)
  \/ dpdk_device_input(w) \/ RxFour(w) \/ RxOne(w) \/ RxDone(w)
  \/ HandoffTwo(w) \/ HandoffOne(w) \/ HandoffSend(w)
  \/ HfTwo(w) \/ HfOne(w)
  \/ HugeTwo(w) \/ HugeOne(w) \/ HugeDone(w)
  \/ Graph(w) \/ OutTwo(w) \/ OutOne(w)
  \/ HugeOutTwo(w) \/ HugeOutOne(w)
  \/ DropTwo(w) \/ DropOne(w) \/ DropDone(w)
  \/ \E i \in Intf : TxFour(w, i) \/ TxOne(w, i) \/ TxLock(w, i)
                     \/ \E n \in 0..Cardinality(Buffers) : TxBurst(w, i, n)
  \/ NodeDone(w) \/ Dispatch(w)

(* The configuration changes under the workers.                             *)
Switching == /\ switches < MaxSwitches /\ switches' = switches + 1
             /\ UNCHANGED <<rxq, mempool, freelist, blkpool, mbuf, wd, cur, pend, fq,
                            lock, sent, phase, lost, spoilt, seen>>
SetAdmin(i) == /\ Switching /\ admin' = [admin EXCEPT ![i] = ~@]
               /\ UNCHANGED <<handoff, stat>>
\* sf set handoff, and sf clear handoff stat
SetHandoff(i) == /\ Switching /\ handoff' = [handoff EXCEPT ![i] = ~@]
                 /\ UNCHANGED <<admin, stat>>
ClearHandoff ==
  /\ Switching
  /\ stat' = [w \in Workers |-> [stat[w] EXCEPT !.handoff = [i \in Intf |-> 0]]]
  /\ UNCHANGED <<admin, handoff>>

NoStat == [f \in {"in_packets", "in_octets", "out_packets", "out_octets",
                  "drop_packets", "handoff"} |-> [i \in Intf |-> 0]]
Init ==
  /\ rxq \in Arrivals
  /\ mempool = [b \in Buffers |-> 1]
  /\ freelist = [w \in Workers |-> {}]
  /\ blkpool = [w \in Workers |-> [k \in Block |-> 1]]
  /\ mbuf = [b \in Buffers |-> [segs |-> <<>>]]
  /\ wd = [b \in Buffers |-> NoWdata]
  /\ cur = [w \in Workers |-> NoRun]
  /\ pend = [w \in Workers |-> <<>>]
  /\ fq = [w \in Workers |-> <<>>]
  /\ stat = [w \in Workers |-> NoStat]
  /\ admin = [i \in Intf |-> TRUE]
  /\ handoff = [i \in Intf |-> Cardinality(Workers) > 1]
  /\ lock = [i \in Intf |-> [q \in 1..TxQueues |-> 0]]
  /\ switches = 0 /\ sent = {} /\ lost = {} /\ spoilt = {} /\ seen = {}
  /\ phase = [w \in Workers |-> "run"]

Next == \/ \E w \in Workers : Worker(w)
        \/ \E i \in Intf : SetAdmin(i) \/ SetHandoff(i)
        \/ ClearHandoff

Spec == Init /\ [][Next]_vars

----------------------------------------------------------------------------
TypeOK ==
  /\ DOMAIN mempool = Buffers /\ \A b \in Buffers : mempool[b] \in Nat
  /\ \A w \in Workers :
       /\ freelist[w] \subseteq Buffers
       /\ phase[w] \in {"run", "input"}
       /\ Len(fq[w]) <= QueueLen
       /\ \A f \in DOMAIN NoStat : \A i \in Intf : stat[w][f][i] \in Nat
  /\ switches \in 0..MaxSwitches

(* The buffers a worker refers to: those it still has to handle, with the   *)
(* segments that hang on a packet before it is gathered and after it is     *)
(* split, and those of the mbuf before wd is filled in.                     *)
Before == {HandoffNode, HfInputNode, HugeInputNode}
TxNodes == {Tx(i) : i \in Intf}
WithSubs(n, b) == IF n = N("sf-dpdk-input") THEN Bufs(mbuf[b].segs)
                  ELSE IF wd[b].huge /\ (n \in Before \/ n \in TxNodes)
                  THEN Bufs(wd[b].subs) ELSE <<b>>
AllOf(n, bs) == FlattenSeq([i \in DOMAIN bs |-> WithSubs(n, bs[i])])
OfFrames(fs) == FlattenSeq([i \in DOMAIN fs |-> AllOf(fs[i].node, fs[i].bufs)])
\* dropped and transmitted buffers stay in the frame to the end of the node
Listed(c) == IF c.node = N("sf_pkt_drop") \/ c.node \in TxNodes THEN c.frame ELSE c.left
OfRun(c) ==
  AllOf(c.node, Listed(c))
  \o FlattenSeq([i \in DOMAIN c.to |-> WithSubs(c.to[i][1], c.to[i][2])])
  \o FlattenSeq([i \in DOMAIN c.away |-> WithSubs(HandoffNode, c.away[i][2])])
  \o c.drops
OfWorker(w) ==
  OfRun(cur[w]) \o OfFrames(pend[w])
  \o OfFrames([i \in DOMAIN fq[w] |-> [node |-> HfInputNode, bufs |-> fq[w][i]]])

\* A buffer is free, or in one frame, once: whatever is gathered, split, handed
\* to another worker, dropped or transmitted, none is freed twice or forgotten,
\* except the buffers of a packet too long for a block.
BuffersConserved ==
  \E refs \in {FlattenSeq([w \in Workers |-> OfWorker(w)])} :
    \A b \in Buffers : mempool[b] + Cardinality({w \in Workers : b \in freelist[w]})
                       + Times(b, refs) = IF b \in lost THEN 0 ELSE 1

(* The packets of a worker that are in a block.                             *)
InBlock(n, b) == wd[b].huge /\ wd[b].blk # NoBlock
                 /\ n \in {N("graph"), N("sf_pkt_output"), N("sf_hugepkt_output"),
                           N("sf_pkt_drop")}
BlockOf(n, b) == IF InBlock(n, b) THEN <<wd[b].blk>> ELSE <<>>
BlocksOf(n, bs) == FlattenSeq([i \in DOMAIN bs |-> BlockOf(n, bs[i])])
BlocksHeld(w) ==
  BlocksOf(cur[w].node, cur[w].left)
  \o FlattenSeq([i \in DOMAIN cur[w].to |-> BlockOf(cur[w].to[i][1], cur[w].to[i][2])])
  \o FlattenSeq([i \in DOMAIN pend[w] |-> BlocksOf(pend[w][i].node, pend[w][i].bufs)])

\* A 16k block is in its worker's pool, or it holds one packet of that worker:
\* also if the packet is dropped or its splitting fails.  The exception is a
\* packet for an interface that is down, whose block is freed twice.
BlocksConserved ==
  \A w \in Workers : \E held \in {BlocksHeld(w)} : \A k \in Block :
    <<w, k>> \notin spoilt => blkpool[w][k] + Times(k, held) = 1

\* The drop node does not free a block that was freed before it.
DropFreesOnce == \A w \in Workers : \A k \in Block : blkpool[w][k] <= 1

\* There is a block for every packet that is gathered, although the code would
\* not notice it if there were none: a worker finishes what one round of its
\* loop brought before the next, and needs no more blocks than that.
BlockForEveryPacket ==
  \A w \in Workers : \A i \in DOMAIN cur[w].to :
    LET b == cur[w].to[i][2]
    IN cur[w].node = HugeInputNode => wd[b].blk # NoBlock

\* The arrays of a node are as long as a frame, and no index passes the end.
ArraysInBounds ==
  \A w \in Workers : /\ Len(cur[w].drops) <= VLIB_FRAME_SIZE
                      /\ Len(cur[w].to) + Len(cur[w].away) <= VLIB_FRAME_SIZE

\* What is transmitted is the whole packet with what the actions added, in
\* segments that fit into their buffers behind the room for a tag.
SentWhole ==
  \A s \in sent :
    /\ SumSeq(s.segs) = SumSeq(s.pkt.segs) + s.pkt.grow
    /\ Len(s.segs) > 1 =>
         \A i \in DOMAIN s.segs :
           s.segs[i] + (IF i = 1 THEN OUTPUT_TAG_PRE_SIZE ELSE 0) <= VLIB_BUFFER_DATA_SIZE

\* Both directions of an untagged flow, and all its fragments, are handled by
\* one worker: the tables of the reassembly are per worker.
SameFlowSameWorker ==
  \A x, y \in seen : x[1] = y[1] /\ x[2] = y[2] => x[3] = y[3]

Quiet == \A w \in Workers : /\ cur[w].node = Idle /\ pend[w] = <<>>
                             /\ fq[w] = <<>> /\ phase[w] = "run"
Total(f) == LET S == Workers \X Intf
            IN MapThenSumSet(LAMBDA x : stat[x[1]][f][x[2]], S)
\* When no packet is under way, every packet received was counted once, as sent
\* or as dropped, and the bytes counted as sent are the bytes sent: splitting
\* that fails takes back what sf_pkt_output counted.
CountsBalance ==
  Quiet => /\ Total("in_packets") = Total("out_packets") + Total("drop_packets")
           /\ Total("out_packets") = Cardinality(sent)
           /\ Total("out_octets") = MapThenSumSet(LAMBDA x : SumSeq(x.segs), sent)

\* Two workers never send on one tx queue at the same time.
OneSenderPerQueue ==
  \A v, w \in Workers : \A i \in Intf :
    (v # w /\ Sending(v, i) /\ Sending(w, i) /\ cur[v].queue # 0 /\ cur[w].queue # 0)
      => TxQueue(v) # TxQueue(w)

\* what a worker spins for: a slot in a frame queue, a tx queue
WaitsForSlot(w) == /\ cur[w].node = HandoffNode /\ cur[w].left = <<>>
                   /\ cur[w].away # <<>>
                   /\ Len(fq[cur[w].away[1][1]]) >= QueueLen
WaitsForQueue(w) == \E i \in Intf : /\ NeedsLock /\ Sending(w, i) /\ cur[w].queue = 0
                                    /\ \A q \in 1..TxQueues : lock[i][q] # 0
\* The workers never all wait for one another: while a packet is under way, or
\* in a frame queue, some worker that has work is not spinning.  Two workers keep to it,
\* since each takes a frame from its queue before it adds one to the other's; three with
\* queues of one frame do not: each waits for a queue that the one behind it filled.
NeverAllWaiting ==
  Quiet \/ \E w \in Workers :
             /\ cur[w].node # Idle \/ pend[w] # <<>> \/ fq[w] # <<>> \/ phase[w] # "run"
             /\ ~WaitsForSlot(w) /\ ~WaitsForQueue(w)

\* Buffers and 16k blocks are conserved through gathering, splitting, handing
\* over, dropping and transmitting.
Conserved == BuffersConserved /\ BlocksConserved

\* What leaves is what came, no array of a node is overrun on the way, and a block
\* is there for every huge packet.
SentSound == TypeOK /\ SentWhole /\ ArraysInBounds /\ BlockForEveryPacket

\* A flow stays on one worker, and a tx queue is used by one worker at a time.
QueuesSound == SameFlowSameWorker /\ OneSenderPerQueue
=============================================================================
