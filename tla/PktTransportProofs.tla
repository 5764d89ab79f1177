-------------------------- MODULE PktTransportProofs --------------------------
(***************************************************************************)
(* Proofs about the way of packets through the workers, for any number of  *)
(* workers, interfaces, buffers, blocks and queues and any traffic: buffers *)
(* and blocks are conserved, a flow stays on its worker, and a tx queue is *)
(* used by one worker at a time.                                           *)
(***************************************************************************)
EXTENDS PktTransportInvariant

-----------------------------------------------------------------------------
(* sf_hugepkt_output *)

\* a block is freed before or after the packet goes on
LEMMA FreeTo ==
  ASSUME NEW t, IsState(t), NEW m, NEW b, NEW k
  PROVE  free_huge_pkt_16k(To(t, m, b), k) = To(free_huge_pkt_16k(t, k), m, b)
<1> DEFINE c == [t.c EXCEPT !.to = Append(@, <<m, b>>)]
           bp == [t.bp EXCEPT ![k] = @ + 1]
           u == WithRun(t, c)
           v == WithBp(t, bp)
           u2 == WithBp(u, bp)
           v2 == WithRun(v, c)
<1>1. CASE k = NoBlock
  BY <1>1 DEF free_huge_pkt_16k
<1>2. CASE k # NoBlock
  <2>1. To(t, m, b) = u /\ free_huge_pkt_16k(t, k) = v
    BY <1>2 DEF To, WithRun, free_huge_pkt_16k, WithBp
  <2>2. RunSet(t, c, u) /\ BpSet(t, bp, v)
    <3> HIDE DEF c, bp
    <3> QED BY RunIs, BpIs
  <2>3. free_huge_pkt_16k(u, k) = [u EXCEPT !.bp[k] = @ + 1]
    BY <1>2 DEF free_huge_pkt_16k
  <2>4. To(v, m, b) = [v EXCEPT !.c.to = Append(@, <<m, b>>)]
    BY DEF To
  <2> HIDE DEF u, v
  <2>5. u.bp = t.bp /\ v.c = t.c /\ IsState(u) /\ IsState(v)
    BY <2>2 DEF RunSet, BpSet
  <2>6. free_huge_pkt_16k(u, k) = u2
    BY <2>3, <2>5 DEF WithBp
  <2>7. To(v, m, b) = v2
    BY <2>4, <2>5 DEF WithRun
  <2>8. BpSet(u, bp, u2) /\ RunSet(v, c, v2)
    <3> HIDE DEF c, bp
    <3> QED BY <2>5, RunIs, BpIs
  <2> HIDE DEF u2, v2, c, bp
  <2>9. u2 = v2
    BY <2>2, <2>8, Zenon DEF RunSet, BpSet, IsState
  <2> QED BY <2>1, <2>6, <2>7, <2>9
<1> QED BY <1>1, <1>2

WithFl(t, fl) == [t EXCEPT !.fl = fl]
FlSet(t, fl, u) ==
  /\ IsState(u) /\ u.w = t.w /\ u.wd = t.wd /\ u.pool = t.pool /\ u.fl = fl /\ u.bp = t.bp
  /\ u.c = t.c /\ u.lost = t.lost /\ u.spoilt = t.spoilt

\* Writing the free list changes that only.
LEMMA FlIs == \A t, fl : IsState(t) => FlSet(t, fl, WithFl(t, fl))
BY DEF IsState, WithFl, FlSet

\* the free list of a worker is filled from the mempool
FilledUp(t, a) ==
  /\ IsState(a) /\ a.w = t.w /\ a.wd = t.wd /\ a.bp = t.bp /\ a.c = t.c /\ a.lost = t.lost
  /\ a.spoilt = t.spoilt /\ a.pool \in [Buffers -> Nat] /\ a.fl \in SUBSET Buffers
  /\ \A e \in Buffers : a.pool[e] + Ind(e \in a.fl) = t.pool[e] + Ind(e \in t.fl)

\* sf_vlib_alloc_no_fail takes from the mempool what it puts on the free list.
LEMMA Filled ==
  ASSUME NEW t, IsState(t), t.pool \in [Buffers -> Nat], t.fl \in SUBSET Buffers, NEW n \in Int,
         \A e \in Buffers : t.pool[e] + Ind(e \in t.fl) <= 1
  PROVE  FilledUp(t, sf_vlib_alloc_no_fail(t, n))
<1> DEFINE k == IF n - Cardinality(t.fl) > Chunk THEN n - Cardinality(t.fl) ELSE Chunk
           S == FreeIn(t.pool)
           bs == FirstN(S, k)
           fl == t.fl \cup Range(bs)
           pool == [b \in Buffers |-> IF b \in Range(bs) THEN t.pool[b] - 1 ELSE t.pool[b]]
           u1 == WithFl(t, fl)
           u == WithPool(u1, pool)
           a == sf_vlib_alloc_no_fail(t, n)
<1>1. FilledUp(t, t)
  BY DEF FilledUp
<1>2. a = t \/ (a = FillFreeList(t, n) /\ Cardinality(S) >= k)
  <2>1. Cardinality(S) \in Nat /\ Cardinality(t.fl) \in Nat
    BY PacketAssumption, FS_Subset, FS_CardinalityType DEF FreeIn
  <2>2. k \in Int
    BY <2>1, CapacityAssumption
  <2> HIDE DEF k, S
  <2>3. CASE Cardinality(S) < k
    BY <2>3 DEF sf_vlib_alloc_no_fail, FillFreeList, k, S
  <2>4. CASE ~(Cardinality(S) < k)
    <3>1. Cardinality(S) >= k
      BY <2>1, <2>2, <2>4
    <3> QED BY <3>1 DEF sf_vlib_alloc_no_fail
  <2> QED BY <2>3, <2>4
<1>3. CASE Cardinality(S) >= k /\ a = FillFreeList(t, n)
  <2>1. Cardinality(S) \in Nat /\ Cardinality(t.fl) \in Nat /\ S \subseteq Buffers
    BY PacketAssumption, FS_Subset, FS_CardinalityType DEF FreeIn
  <2>2. k \in Int /\ k <= Cardinality(S)
    <3>1. k \in Int
      BY <2>1, CapacityAssumption
    <3> HIDE DEF k, S
    <3> QED BY <1>3, <2>1, <3>1
  <2>3. ~(Cardinality(S) < k)
    <3> HIDE DEF k, S
    <3> QED BY <2>1, <2>2
  <2>4. bs \in Seq(S)
    <3> HIDE DEF k, S
    <3> QED BY <2>1, <2>2, FirstNFacts
  <2>5. Range(bs) \subseteq S
    <3> HIDE DEF bs, S
    <3> QED BY <2>4 DEF Range
  <2>6. a = u
    <3> DEFINE e1 == [t EXCEPT !.fl = @ \cup Range(bs)]
               e2 == [t EXCEPT !.fl = @ \cup Range(bs),
                               !.pool = [b \in Buffers |-> IF b \in Range(bs) THEN @[b] - 1 ELSE @[b]]]
               G(v) == [v EXCEPT !.pool = [b \in Buffers |-> IF b \in Range(bs) THEN @[b] - 1 ELSE @[b]]]
    <3>1. FillFreeList(t, n) = e2
      <4> HIDE DEF e2
      <4> QED BY <2>3 DEF FillFreeList, k, S, bs, e2
    <3>2. e2 = G(e1)
      OBVIOUS
    <3>3. e1 = u1
      BY DEF WithFl
    <3>4. G(u1) = [u1 EXCEPT !.pool = [b \in Buffers |-> IF b \in Range(bs) THEN u1.pool[b] - 1 ELSE u1.pool[b]]]
      OBVIOUS
    <3>5. u1.pool = t.pool
      <4> HIDE DEF fl
      <4>1. FlSet(t, fl, u1)
        BY FlIs
      <4> QED BY <4>1 DEF FlSet
    <3>6. G(u1) = u
      <4> HIDE DEF u1, bs
      <4> QED BY <3>4, <3>5 DEF WithPool
    <3>7. G(e1) = G(u1)
      <4> HIDE DEF G, e1, u1
      <4> QED BY <3>3
    <3> HIDE DEF G, e1, e2, u1, u, bs, a
    <3> QED BY <1>3, <3>1, <3>2, <3>6, <3>7
  <2>7. FlSet(t, fl, u1) /\ PoolSet(u1, pool, u)
    <3> HIDE DEF fl, pool
    <3>1. FlSet(t, fl, u1)
      BY FlIs
    <3>2. IsState(u1)
      BY <3>1 DEF FlSet
    <3> HIDE DEF u1
    <3> QED BY <3>1, <3>2, PoolIs
  <2>8. ASSUME NEW e \in Buffers
        PROVE  pool[e] \in Nat /\ pool[e] + Ind(e \in fl) = t.pool[e] + Ind(e \in t.fl)
    <3> HIDE DEF bs
    <3>1. t.pool[e] \in Nat /\ Ind(e \in t.fl) \in {0, 1} /\ t.pool[e] + Ind(e \in t.fl) <= 1
      BY DEF Ind
    <3>2. CASE e \in Range(bs)
      <4>1. t.pool[e] > 0
        BY <2>5, <3>2 DEF FreeIn
      <4>2. t.pool[e] = 1 /\ Ind(e \in t.fl) = 0
        BY <3>1, <4>1
      <4> QED BY <3>2, <4>2 DEF Ind
    <3>3. CASE e \notin Range(bs)
      <4>1. pool[e] = t.pool[e] /\ (e \in fl <=> e \in t.fl)
        BY <3>3
      <4> HIDE DEF pool, fl
      <4> QED BY <3>1, <4>1 DEF Ind
    <3> QED BY <3>2, <3>3
  <2>9. pool \in [Buffers -> Nat]
    BY <2>8
  <2>10. fl \in SUBSET Buffers
    <3> HIDE DEF bs
    <3> QED BY <2>1, <2>5
  <2> HIDE DEF fl, pool, u1, u, a
  <2>11. FilledUp(t, a)
    BY <2>6, <2>7, <2>8, <2>9, <2>10 DEF FilledUp, FlSet, PoolSet
  <2> QED BY <2>11 DEF a
<1>4. FilledUp(t, a)
  <2> HIDE DEF a, k, S
  <2> QED BY <1>1, <1>2, <1>3 DEF a
<1> QED BY <1>4

\* the pieces a packet is split into
LEMMA PiecesAre ==
  ASSUME NEW len \in Int, NEW bs \in Seq(Buffers)
  PROVE  Pieces(len, bs) \in Seq(SegType) /\ Len(Pieces(len, bs)) = Len(bs)
         /\ Bufs(Pieces(len, bs)) = bs
<1> DEFINE n == Len(bs)
           Is(F) == F = [i \in 0 .. n |-> IF i = 0 THEN 0 ELSE F[i - 1] + Room(i)]
           f == [i \in 1 .. n |-> Room(i)]
           G == Sums(f, n)
           A == CHOOSE F : Is(F)
           ps == Pieces(len, bs)
<1>1. n \in Nat /\ \A i \in 1 .. n : bs[i] \in Buffers
  OBVIOUS
<1>2. \A i \in Nat : Room(i) \in Int
  BY CapacityAssumption DEF Room, OUTPUT_TAG_PRE_SIZE
<1>3. Is(G)
  <2>1. G = [i \in 0 .. n |-> IF i = 0 THEN 0 ELSE G[i - 1] + f[i]]
    BY <1>1, SumsExist
  <2>2. [i \in 0 .. n |-> IF i = 0 THEN 0 ELSE G[i - 1] + f[i]]
        = [i \in 0 .. n |-> IF i = 0 THEN 0 ELSE G[i - 1] + Room(i)]
    <3>1. \A i \in 0 .. n : i # 0 => f[i] = Room(i)
      BY <1>1
    <3> HIDE DEF G, f
    <3> QED BY <3>1
  <2> HIDE DEF G
  <2> QED BY <2>1, <2>2
<1>4. Is(A)
  <2> HIDE DEF G
  <2> QED BY <1>3
<1> HIDE DEF A, G
<1>5. \A k \in 0 .. n : A[k] \in Int
  <2> DEFINE S == {k \in 0 .. n : A[k] \in Int}
  <2>1. A[0] = 0 /\ \A i \in 1 .. n : A[i] = A[i - 1] + Room(i)
    BY <1>1, <1>4
  <2>2. 0 \in S
    BY <1>1, <2>1
  <2>3. \A k \in 0 .. n : k < n /\ k \in S => k + 1 \in S
    <3> SUFFICES ASSUME NEW k \in 0 .. n, k < n, A[k] \in Int
                 PROVE  k + 1 \in 0 .. n /\ A[k + 1] \in Int
      OBVIOUS
    <3>1. k + 1 \in 1 .. n /\ (k + 1) - 1 = k /\ k + 1 \in Nat
      BY <1>1
    <3> QED BY <1>2, <2>1, <3>1
  <2> HIDE DEF S
  <2>4. \A k \in 0 .. n : k \in S
    BY <1>1, <2>2, <2>3, UpTo
  <2> QED BY <2>4 DEF S
<1> DEFINE l(i) == IF A[i - 1] >= len THEN 0 ELSE MinOf(len - A[i - 1], Room(i))
<1>6. ps = [i \in DOMAIN bs |-> [buf |-> bs[i], len |-> l(i)]]
  BY DEF Pieces, A
<1>7. \A i \in 1 .. n : l(i) \in Int
  <2> TAKE i \in 1 .. n
  <2>1. i - 1 \in 0 .. n /\ i \in Nat
    BY <1>1
  <2>2. A[i - 1] \in Int /\ Room(i) \in Int
    BY <1>2, <1>5, <2>1
  <2> QED BY <2>2 DEF MinOf
<1> HIDE DEF ps, l
<1>8. ps = [i \in 1 .. n |-> ps[i]] /\ \A i \in 1 .. n : ps[i] \in SegType /\ ps[i].buf = bs[i]
  <2>1. DOMAIN bs = 1 .. n
    OBVIOUS
  <2> QED BY <1>1, <1>6, <1>7, <2>1 DEF SegType
<1>9. ps \in Seq(SegType) /\ Len(ps) = n
  <2> HIDE DEF n
  <2> QED BY <1>1, <1>8, SeqFrom, Zenon
<1>10. Bufs(ps) = bs
  <2>1. Bufs(ps) \in Seq(Buffers) /\ Len(Bufs(ps)) = Len(ps) /\ \A i \in 1 .. Len(ps) : Bufs(ps)[i] = ps[i].buf
    BY <1>9, BufsType
  <2> DEFINE q == Bufs(ps)
  <2>2. q \in Seq(Buffers) /\ Len(q) = Len(bs) /\ \A i \in 1 .. Len(q) : q[i] = bs[i]
    BY <1>8, <1>9, <2>1
  <2> HIDE DEF q
  <2>3. q = bs
    BY <2>2, SeqSame
  <2> QED BY <2>3 DEF q
<1> QED BY <1>9, <1>10 DEF ps

\* what it takes to split the first packet of s, or to fail, before its block is freed
Splits(w, s, u, x, m) ==
  LET b == Head(s.c.left)
  IN /\ IsState(u) /\ u.w = w /\ u.wd = [s.wd EXCEPT ![b] = x] /\ u.pool \in [Buffers -> Nat]
     /\ u.fl \in SUBSET Buffers /\ u.bp = s.bp /\ u.c = Pop(s).c /\ u.lost = s.lost
     /\ u.spoilt = s.spoilt /\ x \in WdType /\ m \in Nodes /\ FitOf(w, m, b, x, mbuf[b])
     /\ \A e \in Buffers : u.pool[e] + Ind(e \in u.fl) + Times(e, OwnOf(m, b, x, mbuf[b]))
                           = s.pool[e] + Ind(e \in s.fl) + Times(e, <<b>>)
     /\ \A e \in Buffers : Times(e, OwnOf(m, b, x, mbuf[b])) \in Nat
     /\ \A k : FillsOf(m, x, k) = 0

\* A gathered packet that gives its block back and goes on with new segments, or
\* none.
LEMMA SplitStep ==
  ASSUME NEW w \in Workers, NEW s, Mid(w, s), s.c.left # <<>>, s.c.node = HugeOutNode,
         NEW u, NEW x, NEW m, Splits(w, s, u, x, m)
  PROVE  Further(w, s, free_huge_pkt_16k(To(u, m, Head(s.c.left)), s.wd[Head(s.c.left)].blk))
<1> DEFINE b == Head(s.c.left)
           n == s.c.node
           t == Pop(s)
           y == s.wd[b]
           v == free_huge_pkt_16k(u, y.blk)
<1>1. n \in Looping /\ n \in Gathered /\ n \notin Before \cup TxNodes /\ n # RxNode /\ n # HugeInputNode
  BY DEF Looping, Nodes, RxNode, DropNode, TxNodes, N, Tx, Before, HandoffNode, HugeInputNode, HfInputNode, Gathered,
     HugeOutNode
<1>2. /\ b \in Buffers /\ FitOf(w, n, b, y, mbuf[b]) /\ y \in WdType
      /\ s.wd \in [Buffers -> WdType] /\ s.pool \in [Buffers -> Nat] /\ s.fl \in SUBSET Buffers
      /\ s.bp \in [Block -> Nat] /\ s.lost \subseteq Buffers /\ s.c.drops \in Seq(Buffers)
      /\ (s.c.drops # <<>> => n = HugeInputNode)
      /\ t.c = [s.c EXCEPT !.left = Tail(@), !.drops = s.c.drops] /\ t.c.drops = s.c.drops
  <2>1. t.c = [s.c EXCEPT !.left = Tail(@), !.drops = s.c.drops]
    BY TookRun
  <2>2. /\ b \in Buffers /\ FitOf(w, n, b, y, mbuf[b]) /\ y \in WdType
        /\ s.wd \in [Buffers -> WdType] /\ s.pool \in [Buffers -> Nat] /\ s.fl \in SUBSET Buffers
        /\ s.bp \in [Block -> Nat] /\ s.lost \subseteq Buffers /\ s.c.drops \in Seq(Buffers)
        /\ (s.c.drops # <<>> => n = HugeInputNode)
        /\ t.c.drops = s.c.drops
    BY <1>1, TookFrom, Zenon
  <2> QED BY <2>1, <2>2
<1>3. y.huge /\ y.blk \in Block \cup {NoBlock}
  BY <1>2, Zenon DEF FitOf, WdType
<1> HIDE DEF t, y
<1>4. /\ IsState(u) /\ u.w = w /\ u.wd = [s.wd EXCEPT ![b] = x] /\ u.pool \in [Buffers -> Nat]
      /\ u.fl \in SUBSET Buffers /\ u.bp = s.bp /\ u.c = t.c /\ u.lost = s.lost
      /\ u.spoilt = s.spoilt /\ x \in WdType /\ m \in Nodes /\ FitOf(w, m, b, x, mbuf[b])
      /\ \A e \in Buffers : u.pool[e] + Ind(e \in u.fl) + Times(e, OwnOf(m, b, x, mbuf[b]))
                            = s.pool[e] + Ind(e \in s.fl) + Times(e, <<b>>)
      /\ \A e \in Buffers : Times(e, OwnOf(m, b, x, mbuf[b])) \in Nat
      /\ \A k : FillsOf(m, x, k) = 0
  BY DEF Splits, t
<1>5. Freed(u, y.blk, v)
  <2> HIDE DEF v
  <2> DEFINE k == y.blk
  <2>1. k \in Block \cup {NoBlock} /\ u.bp \in [Block -> Nat]
    BY <1>2, <1>3, <1>4
  <2>2. v = free_huge_pkt_16k(u, k)
    BY Zenon DEF v
  <2> HIDE DEF k
  <2>3. Freed(u, k, v)
    BY <1>4, <2>1, <2>2, FreedIs, Zenon
  <2> QED BY <2>3, Zenon DEF k
<1>6. free_huge_pkt_16k(To(u, m, b), y.blk) = To(v, m, b)
  BY <1>4, FreeTo
<1> HIDE DEF v, b
<1>7. /\ IsState(v) /\ v.w = w /\ v.wd = [s.wd EXCEPT ![b] = x] /\ v.pool = u.pool /\ v.fl = u.fl
      /\ v.c = t.c /\ v.lost = s.lost /\ v.spoilt = s.spoilt /\ v.bp \in [Block -> Nat]
      /\ \A j \in Block : v.bp[j] = s.bp[j] + (IF j = y.blk THEN 1 ELSE 0)
  BY <1>4, <1>5 DEF Freed
<1>8. PushBuffers(s, b, n, x, v.pool, v.fl, m, v.c.drops)
  <2>0. v.pool = u.pool /\ v.fl = u.fl /\ v.c.drops = s.c.drops
    BY <1>2, <1>7
  <2> SUFFICES ASSUME NEW e \in Buffers
               PROVE  u.pool[e] + Ind(e \in u.fl) + Times(e, s.c.drops) + Times(e, OwnOf(m, b, x, mbuf[b]))
                      = s.pool[e] + Ind(e \in s.fl) + Times(e, s.c.drops) + Times(e, OwnOf(n, b, s.wd[b], mbuf[b]))
    BY <2>0, Zenon DEF PushBuffers
  <2>1. OwnOf(n, b, s.wd[b], mbuf[b]) = <<b>>
    BY <1>1 DEF OwnOf
  <2> DEFINE p1 == s.pool[e]
             f1 == Ind(e \in s.fl)
             d == Times(e, s.c.drops)
             o1 == Times(e, <<b>>)
             p2 == u.pool[e]
             f2 == Ind(e \in u.fl)
             o2 == Times(e, OwnOf(m, b, x, mbuf[b]))
  <2>2. p2 + f2 + o2 = p1 + f1 + o1
    BY <1>4
  <2>3. p1 \in Int /\ f1 \in Int /\ p2 \in Int /\ f2 \in Int /\ o2 \in Int
    BY <1>2, <1>4 DEF Ind
  <2>4. d \in Int /\ o1 \in Int
    <3>1. <<b>> \in Seq(Buffers)
      BY <1>2
    <3>2. d \in Nat /\ o1 \in Nat
      BY <1>2, <3>1, BuffersNat, TimesNat
    <3> QED BY <3>2
  <2> HIDE DEF p1, f1, d, o1, p2, f2, o2
  <2>5. p2 + f2 + d + o2 = p1 + f1 + d + o1
    BY <2>2, <2>3, <2>4
  <2> QED BY <2>1, <2>5 DEF p1, f1, d, o1, p2, f2, o2
<1>9. PushBlocks(w, s, b, n, x, v.bp, v.spoilt, m)
  <2>1. \A j \in Block : FillsOf(n, s.wd[b], j) = IF j = y.blk THEN 1 ELSE 0
    BY <1>1, <1>3 DEF FillsOf, y
  <2>2. \A j \in Block : s.bp[j] \in Nat
    BY <1>2
  <2>3. \A j \in Block : v.bp[j] + FillsOf(m, x, j) = s.bp[j] + FillsOf(n, s.wd[b], j)
    BY <1>4, <1>7, <2>1, <2>2
  <2> QED BY <2>3 DEF PushBlocks
<1>10. v.c = [s.c EXCEPT !.left = Tail(@), !.drops = v.c.drops] /\ v.c.drops = s.c.drops
  BY <1>2, <1>7, Zenon
<1>11. Sends(w, s, v, x, m)
  BY <1>2, <1>4, <1>7, <1>8, <1>9, <1>10 DEF Sends, b
<1>12. Further(w, s, To(v, m, Head(s.c.left)))
  BY <1>1, <1>11, Sent
<1> QED BY <1>6, <1>12 DEF b, y

\* the packet is dropped, and its statistics are taken back
LEMMA StatIs == \A t, st : IsState(t) => SameButStat(t, [t EXCEPT !.st = st])
BY DEF IsState, SameButStat

\* A packet that cannot be split for lack of buffers.
LEMMA SplitFails ==
  ASSUME NEW w \in Workers, NEW s, Mid(w, s), s.c.left # <<>>, s.c.node = HugeOutNode,
         NEW a, FilledUp(Pop(s), a)
  PROVE  LET b == Head(s.c.left)
         IN Further(w, s, free_huge_pkt_16k(SplitFailed(a, b), s.wd[b].blk))
<1> DEFINE b == Head(s.c.left)
           n == s.c.node
           t == Pop(s)
           y == s.wd[b]
           x == [y EXCEPT !.huge = FALSE]
           m == DropNode
           v == WithWd(a, b, x)
           st1 == [v.st EXCEPT !.out_packets[y.out] = @ - 1]
           v1 == [v EXCEPT !.st = st1]
           st2 == [v1.st EXCEPT !.out_octets[y.out] = @ - y.len]
           u == [v1 EXCEPT !.st = st2]
<1>1. n \in Looping /\ n \in Gathered /\ n \notin Before \cup TxNodes /\ n \notin {RxNode, HandoffNode}
  BY DEF Looping, Nodes, RxNode, DropNode, TxNodes, N, Tx, Before, HandoffNode, HugeInputNode, HfInputNode, Gathered,
     HugeOutNode
<1>2. DropNode \in Nodes /\ DropNode \in Gathered /\ DropNode \notin Before \cup TxNodes
      /\ DropNode \notin {RxNode, HandoffNode, HugeInputNode, HugeOutNode, HfInputNode}
  BY DEF Nodes, RxNode, DropNode, TxNodes, N, Tx, Before, HandoffNode, HugeInputNode, HfInputNode, Gathered,
     HugeOutNode
<1>3. /\ b \in Buffers /\ FitOf(w, n, b, y, mbuf[b]) /\ y \in WdType
      /\ s.wd \in [Buffers -> WdType] /\ s.pool \in [Buffers -> Nat] /\ s.fl \in SUBSET Buffers
      /\ IsState(t) /\ t.w = w /\ t.wd = s.wd /\ t.pool = s.pool /\ t.fl = s.fl /\ t.bp = s.bp
      /\ t.lost = s.lost /\ t.spoilt = s.spoilt
  BY <1>1, TookFrom, Zenon
<1> HIDE DEF t
<1>4. /\ IsState(a) /\ a.w = w /\ a.wd = s.wd /\ a.bp = s.bp /\ a.c = t.c /\ a.lost = s.lost
      /\ a.spoilt = s.spoilt /\ a.pool \in [Buffers -> Nat] /\ a.fl \in SUBSET Buffers
      /\ \A e \in Buffers : a.pool[e] + Ind(e \in a.fl) = s.pool[e] + Ind(e \in s.fl)
  BY <1>3 DEF FilledUp, t
<1>5. x \in WdType /\ x.huge = FALSE /\ x.handed = y.handed
  <2> HIDE DEF y
  <2> QED BY <1>3 DEF WdType
<1>6. SplitFailed(a, b) = To(u, m, b)
  <2> DEFINE G(r) == [r EXCEPT !.st.out_packets[y.out] = @ - 1]
             H(r) == [r EXCEPT !.st.out_octets[y.out] = @ - y.len]
             e0 == [a EXCEPT !.wd[b].huge = FALSE]
  <2>1. a.wd[b] = y
    BY <1>4
  <2>2. e0 = v
    <3> HIDE DEF b
    <3> QED BY <2>1 DEF WithWd
  <2>3. [a EXCEPT !.wd[b].huge = FALSE, !.st.out_packets[y.out] = @ - 1, !.st.out_octets[y.out] = @ - y.len]
        = H(G(e0))
    BY Zenon
  <2>4. G(v) = v1 /\ H(v1) = u
    <3> HIDE DEF y, v
    <3>1. G(v) = v1
      OBVIOUS
    <3> HIDE DEF v1
    <3>2. H(v1) = u
      OBVIOUS
    <3> QED BY <3>1, <3>2 DEF v1
  <2>5. SplitFailed(a, b) = To(H(G(e0)), m, b)
    <3> DEFINE r == [a EXCEPT !.wd[b].huge = FALSE, !.st.out_packets[y.out] = @ - 1,
                              !.st.out_octets[y.out] = @ - y.len]
    <3>1. SplitFailed(a, b) = To(r, m, b)
      <4> HIDE DEF b
      <4>1. y = a.wd[b]
        BY <2>1
      <4> HIDE DEF y
      <4> QED BY <4>1 DEF SplitFailed, m, DropNode
    <3>2. r = H(G(e0))
      BY <2>3, Zenon
    <3> HIDE DEF r, H, G, e0
    <3> QED BY <3>1, <3>2
  <2> HIDE DEF G, H, e0, v, v1, u
  <2> QED BY <2>2, <2>4, <2>5
<1> HIDE DEF x
<1>7. WdSet(a, [a.wd EXCEPT ![b] = x], v)
  BY <1>4, WdIs
<1>8. SameButStat(v, v1) /\ SameButStat(v1, u)
  <2> HIDE DEF v, st1, st2
  <2>1. IsState(v)
    BY <1>7 DEF WdSet
  <2>2. SameButStat(v, v1)
    BY <2>1, StatIs
  <2> HIDE DEF v1
  <2>3. IsState(v1)
    BY <2>2 DEF SameButStat
  <2> QED BY <2>2, <2>3, StatIs, Zenon
<1> HIDE DEF v, v1, u, st1, st2, b, y
<1>9. /\ IsState(u) /\ u.w = w /\ u.wd = [s.wd EXCEPT ![b] = x] /\ u.pool = a.pool
      /\ u.fl = a.fl /\ u.bp = s.bp /\ u.c = t.c /\ u.lost = s.lost /\ u.spoilt = s.spoilt
  BY <1>4, <1>7, <1>8 DEF WdSet, SameButStat
<1>10. FitOf(w, m, b, x, mbuf[b])
  <2>1. n # HfInputNode
    BY <1>1 DEF Before
  <2> QED BY <1>1, <1>2, <1>3, <1>5, <2>1 DEF FitOf
<1>11. OwnOf(m, b, x, mbuf[b]) = <<b>> /\ \A k : FillsOf(m, x, k) = 0
  BY <1>2, <1>5 DEF OwnOf, FillsOf
<1>12. ASSUME NEW e \in Buffers
       PROVE  /\ u.pool[e] + Ind(e \in u.fl) + Times(e, <<b>>) = s.pool[e] + Ind(e \in s.fl) + Times(e, <<b>>)
              /\ Times(e, <<b>>) \in Nat
  <2>1. <<b>> \in Seq(Buffers)
    BY <1>3
  <2>2. Times(e, <<b>>) \in Nat
    BY <2>1, BuffersNat, TimesNat, Zenon
  <2> QED BY <1>4, <1>9, <2>2
<1>13. Splits(w, s, u, x, m)
  BY <1>2, <1>4, <1>5, <1>9, <1>10, <1>11, <1>12 DEF Splits, b, t
<1>14. Further(w, s, free_huge_pkt_16k(To(u, m, Head(s.c.left)), s.wd[Head(s.c.left)].blk))
  BY <1>13, SplitStep, Zenon
<1> QED BY <1>6, <1>14, Zenon DEF b

\* u is a with the packet of y split into nn pieces
SplitInto(a, b, y, nn) ==
  [a EXCEPT !.fl = @ \ Range(FirstN(a.fl, nn - 1)), !.wd[b].huge = (nn > 1),
            !.wd[b].subs = Pieces(y.len, <<b>> \o FirstN(a.fl, nn - 1))]

\* A packet that is split.
LEMMA SplitGoes ==
  ASSUME NEW w \in Workers, NEW s, Mid(w, s), s.c.left # <<>>, s.c.node = HugeOutNode,
         NEW a, FilledUp(Pop(s), a), NEW nn \in Int, nn - 1 <= Cardinality(a.fl)
  PROVE  LET b == Head(s.c.left)
             y == s.wd[b]
         IN Further(w, s, free_huge_pkt_16k(To(SplitInto(a, b, y, nn), Tx(y.out), b), y.blk))
<1> DEFINE b == Head(s.c.left)
           n == s.c.node
           t == Pop(s)
           y == s.wd[b]
           others == FirstN(a.fl, nn - 1)
           q == <<b>> \o others
           ps == Pieces(y.len, q)
           g == nn > 1
           x == [y EXCEPT !.huge = g, !.subs = ps]
           m == Tx(y.out)
           fl == a.fl \ Range(others)
           u1 == WithFl(a, fl)
           u == WithWd(u1, b, x)
<1>1. n \in Looping /\ n \in Gathered /\ n \notin Before \cup TxNodes /\ n \notin {RxNode, HandoffNode}
  BY DEF Looping, Nodes, RxNode, DropNode, TxNodes, N, Tx, Before, HandoffNode, HugeInputNode, HfInputNode, Gathered,
     HugeOutNode
<1>2. /\ b \in Buffers /\ FitOf(w, n, b, y, mbuf[b]) /\ y \in WdType
      /\ s.wd \in [Buffers -> WdType] /\ s.pool \in [Buffers -> Nat] /\ s.fl \in SUBSET Buffers
      /\ IsState(t) /\ t.w = w /\ t.wd = s.wd /\ t.pool = s.pool /\ t.fl = s.fl /\ t.bp = s.bp
      /\ t.lost = s.lost /\ t.spoilt = s.spoilt
  BY <1>1, TookFrom, Zenon
<1> HIDE DEF t
<1>3. /\ IsState(a) /\ a.w = w /\ a.wd = s.wd /\ a.bp = s.bp /\ a.c = t.c /\ a.lost = s.lost
      /\ a.spoilt = s.spoilt /\ a.pool \in [Buffers -> Nat] /\ a.fl \in SUBSET Buffers
      /\ \A e \in Buffers : a.pool[e] + Ind(e \in a.fl) = s.pool[e] + Ind(e \in s.fl)
  BY <1>2 DEF FilledUp, t
<1>4. /\ others \in Seq(a.fl) /\ Len(others) = (IF nn - 1 < 0 THEN 0 ELSE nn - 1)
      /\ \A i, j \in DOMAIN others : others[i] = others[j] => i = j
  <2>1. nn - 1 \in Int /\ a.fl \subseteq Buffers
    BY <1>3
  <2> QED BY <2>1, FirstNFacts
<1> HIDE DEF others
<1>5. others \in Seq(Buffers) /\ Range(others) \subseteq a.fl /\ (~g => others = <<>>)
  BY <1>3, <1>4 DEF Range
<1>6. q \in Seq(Buffers) /\ q # <<>> /\ q[1] = b
  BY <1>2, <1>5
<1> HIDE DEF q
<1>7. y.len \in Int /\ y.out \in Intf /\ y.huge
  BY <1>2 DEF WdType, FitOf, HugeOutNode, N
<1>8. ps \in Seq(SegType) /\ Bufs(ps) = q /\ ps # <<>> /\ ps[1].buf = b
  <2> HIDE DEF y
  <2>1. ps \in Seq(SegType) /\ Len(ps) = Len(q) /\ Bufs(ps) = q
    BY <1>6, <1>7, PiecesAre
  <2> HIDE DEF ps
  <2>2. ps # <<>>
    BY <1>6, <2>1
  <2>3. Bufs(ps)[1] = ps[1].buf
    BY <2>1, <2>2, BufsType
  <2> QED BY <1>6, <2>1, <2>2, <2>3
<1> HIDE DEF ps
<1>9. g \in BOOLEAN
  OBVIOUS
<1>10. /\ x \in WdType /\ x.huge = g /\ x.subs = ps /\ x.handed = y.handed
  <2> HIDE DEF y, g
  <2> QED BY <1>2, <1>8, <1>9 DEF WdType
<1>11. m \in TxNodes /\ m \in Nodes /\ m \notin Before /\ m # RxNode /\ m # HugeInputNode /\ m # HugeOutNode
       /\ m # HandoffNode /\ m # HfInputNode /\ m \notin Gathered
  BY <1>7 DEF Nodes, RxNode, DropNode, TxNodes, N, Tx, Before, HandoffNode, HugeInputNode, HfInputNode, Gathered,
     HugeOutNode
<1>12. SplitInto(a, b, y, nn) = u
  <2> DEFINE G(v) == [v EXCEPT !.wd[b].huge = g, !.wd[b].subs = ps]
             e0 == [a EXCEPT !.fl = @ \ Range(others)]
  <2>1. SplitInto(a, b, y, nn) = G(e0)
    <3>1. SplitInto(a, b, y, nn) = [a EXCEPT !.fl = @ \ Range(others), !.wd[b].huge = g, !.wd[b].subs = ps]
      <4> HIDE DEF b, y
      <4> QED BY DEF SplitInto, others, q, ps
    <3> QED BY <3>1
  <2>2. e0 = u1
    BY DEF WithFl
  <2>3. u1.wd[b] = y
    <3> HIDE DEF fl
    <3>1. FlSet(a, fl, u1)
      BY <1>3, FlIs
    <3> HIDE DEF u1
    <3> QED BY <1>3, <3>1 DEF FlSet
  <2>4. G(u1) = u
    <3> HIDE DEF u1, b, y, g
    <3> QED BY <2>3 DEF WithWd
  <2>5. G(e0) = G(u1)
    <3> HIDE DEF G, e0, u1
    <3> QED BY <2>2
  <2> HIDE DEF G, e0, u1, u
  <2> QED BY <2>1, <2>4, <2>5, Zenon
<1> HIDE DEF x
<1>13. FlSet(a, fl, u1)
  <2> HIDE DEF fl
  <2> QED BY <1>3, FlIs
<1> HIDE DEF u1
<1>14. WdSet(u1, [u1.wd EXCEPT ![b] = x], u)
  <2>1. IsState(u1)
    BY <1>13 DEF FlSet
  <2> QED BY <2>1, WdIs
<1> HIDE DEF u, b, y
<1>15. /\ IsState(u) /\ u.w = w /\ u.wd = [s.wd EXCEPT ![b] = x] /\ u.pool = a.pool
       /\ u.fl = fl /\ u.bp = s.bp /\ u.c = t.c /\ u.lost = s.lost /\ u.spoilt = s.spoilt
  <2> HIDE DEF fl
  <2> QED BY <1>3, <1>13, <1>14 DEF WdSet, FlSet
<1>16. FitOf(w, m, b, x, mbuf[b])
  <2>1. n # HfInputNode
    BY <1>1 DEF Before
  <2> HIDE DEF m
  <2> QED BY <1>1, <1>2, <1>8, <1>10, <1>11, <2>1 DEF FitOf
<1>17. OwnOf(m, b, x, mbuf[b]) = q /\ \A k : FillsOf(m, x, k) = 0
  <2> HIDE DEF m
  <2>1. ~g => q = <<b>>
    BY <1>2, <1>5 DEF q
  <2>2. CASE g
    BY <1>8, <1>10, <1>11, <2>2 DEF OwnOf, FillsOf
  <2>3. CASE ~g
    BY <1>10, <1>11, <2>1, <2>3 DEF OwnOf, FillsOf
  <2> QED BY <2>2, <2>3
<1>18. ASSUME NEW e \in Buffers
       PROVE  /\ u.pool[e] + Ind(e \in u.fl) + Times(e, q) = s.pool[e] + Ind(e \in s.fl) + Times(e, <<b>>)
              /\ Times(e, q) \in Nat
  <2>1. <<b>> \in Seq(Nat) /\ others \in Seq(Nat) /\ q \in Seq(Nat)
    <3>1. <<b>> \in Seq(Buffers)
      BY <1>2
    <3> QED BY <1>5, <1>6, <3>1, BuffersNat
  <2>2. Times(e, <<b>>) \in Nat /\ Times(e, q) \in Nat
    BY <2>1, TimesNat
  <2>3. Times(e, q) = Times(e, <<b>>) + Times(e, others)
    BY <2>1, TimesConcat DEF q
  <2>4. Times(e, others) = Ind(e \in Range(others))
    <3>1. Times(e, others) = IF e \in Range(others) THEN 1 ELSE 0
      BY <1>4, <2>1, TimesInjective
    <3> QED BY <3>1 DEF Ind
  <2>5. Ind(e \in u.fl) + Ind(e \in Range(others)) = Ind(e \in a.fl)
    BY <1>5, <1>15 DEF Ind
  <2> DEFINE p1 == s.pool[e]
             f1 == Ind(e \in s.fl)
             p2 == a.pool[e]
             f2 == Ind(e \in a.fl)
             f3 == Ind(e \in u.fl)
             r == Ind(e \in Range(others))
             o == Times(e, <<b>>)
             o2 == Times(e, q)
  <2>6. p2 + f2 = p1 + f1 /\ f3 + r = f2 /\ o2 = o + r
    BY <1>3, <2>3, <2>4, <2>5
  <2>7. p1 \in Int /\ f1 \in Int /\ p2 \in Int /\ f2 \in Int /\ f3 \in Int /\ r \in Int /\ o \in Int /\ o2 \in Int
    BY <1>2, <1>3, <2>2 DEF Ind
  <2>8. u.pool[e] = p2
    BY <1>15
  <2> HIDE DEF p1, f1, p2, f2, f3, r, o, o2
  <2>9. p2 + f3 + o2 = p1 + f1 + o
    BY <2>6, <2>7
  <2> QED BY <2>2, <2>8, <2>9 DEF p1, f1, p2, f3, o, o2
<1>19. u.fl \in SUBSET Buffers
  BY <1>3, <1>15, Zenon
<1> HIDE DEF m
<1>20. Splits(w, s, u, x, m)
  BY <1>3, <1>10, <1>11, <1>15, <1>16, <1>17, <1>18, <1>19 DEF Splits, b, t
<1>21. Further(w, s, free_huge_pkt_16k(To(u, m, Head(s.c.left)), s.wd[Head(s.c.left)].blk))
  BY <1>20, SplitStep
<1> QED BY <1>12, <1>21, Zenon DEF b, y, m

\* One packet of sf_hugepkt_output.
LEMMA HugeOutTook ==
  ASSUME NEW w \in Workers, NEW s, Mid(w, s), s.c.left # <<>>, s.c.node = HugeOutNode
  PROVE  Further(w, s, HugeOutPacket(Pop(s), Head(s.c.left)))
<1> DEFINE b == Head(s.c.left)
           t == Pop(s)
           y == s.wd[b]
           nn == SubCount(y.len)
           a == sf_vlib_alloc_no_fail(t, nn - 1)
           r == sf_vlib_buffer_split(t, b)
<1>1. s.c.node \in Looping
  BY DEF Looping, Nodes, RxNode, DropNode, TxNodes, N, Tx, Before, HandoffNode, HugeInputNode, HfInputNode, Gathered,
     HugeOutNode
<1>2. /\ b \in Buffers /\ y = wd[b] /\ y \in WdType
      /\ s.pool \in [Buffers -> Nat] /\ s.fl \in SUBSET Buffers
      /\ IsState(t) /\ t.wd = s.wd /\ t.pool = s.pool /\ t.fl = s.fl
      /\ \A e \in Buffers : s.pool[e] + Ind(e \in s.fl) <= 1
  BY <1>1, TookFrom, HeadFit, Zenon
<1> HIDE DEF t, b
<1>3. nn \in Int
  <2>1. y.len \in Int
    BY <1>2 DEF WdType
  <2> DEFINE l == y.len + OUTPUT_TAG_PRE_SIZE
  <2>2. l \in Int
    BY <2>1 DEF OUTPUT_TAG_PRE_SIZE
  <2> HIDE DEF l
  <2>3. l \div VLIB_BUFFER_DATA_SIZE \in Int
    BY <2>2, CapacityAssumption
  <2>4. nn = l \div VLIB_BUFFER_DATA_SIZE + IF l % VLIB_BUFFER_DATA_SIZE > 0 THEN 1 ELSE 0
    BY DEF SubCount, l
  <2> HIDE DEF nn
  <2> QED BY <2>3, <2>4
<1>4. FilledUp(t, t)
  BY <1>2 DEF FilledUp
<1> HIDE DEF nn
<1>5. FilledUp(t, a)
  <2>1. nn - 1 \in Int
    BY <1>3
  <2>2. t.pool \in [Buffers -> Nat] /\ t.fl \in SUBSET Buffers
        /\ \A e \in Buffers : t.pool[e] + Ind(e \in t.fl) <= 1
    BY <1>2
  <2> QED BY <1>2, <2>1, <2>2, Filled
<1>6. r = IF nn > HUFEPKT_MAX_SUB_BUFFER_CNT THEN SplitFailed(t, b)
          ELSE IF Cardinality(a.fl) < nn - 1 THEN SplitFailed(a, b)
          ELSE To(SplitInto(a, b, y, nn), Tx(y.out), b)
  <2>1. t.wd[b] = y
    BY <1>2
  <2> HIDE DEF y
  <2> QED BY <2>1 DEF sf_vlib_buffer_split, SplitInto, nn, a
<1>7. HugeOutPacket(t, b) = free_huge_pkt_16k(r, y.blk)
  BY <1>2 DEF HugeOutPacket
<1> HIDE DEF a, r, y
<1>8. CASE nn > HUFEPKT_MAX_SUB_BUFFER_CNT
  <2>1. Further(w, s, free_huge_pkt_16k(SplitFailed(t, b), y.blk))
    BY <1>4, SplitFails DEF t, b, y
  <2> QED BY <1>6, <1>7, <1>8, <2>1 DEF t, b
<1>9. CASE ~(nn > HUFEPKT_MAX_SUB_BUFFER_CNT) /\ Cardinality(a.fl) < nn - 1
  <2>1. Further(w, s, free_huge_pkt_16k(SplitFailed(a, b), y.blk))
    BY <1>5, SplitFails DEF t, b, y
  <2> QED BY <1>6, <1>7, <1>9, <2>1 DEF t, b
<1>10. CASE ~(nn > HUFEPKT_MAX_SUB_BUFFER_CNT) /\ ~(Cardinality(a.fl) < nn - 1)
  <2>1. Cardinality(a.fl) \in Nat
    <3>1. a.fl \subseteq Buffers
      BY <1>5 DEF FilledUp
    <3> QED BY <3>1, PacketAssumption, FS_Subset, FS_CardinalityType
  <2>2. nn - 1 <= Cardinality(a.fl)
    BY <1>3, <1>10, <2>1
  <2>3. Further(w, s, free_huge_pkt_16k(To(SplitInto(a, b, y, nn), Tx(y.out), b), y.blk))
    BY <1>3, <1>5, <2>2, SplitGoes DEF t, b, y
  <2> QED BY <1>6, <1>7, <1>10, <2>3 DEF t, b
<1> QED BY <1>8, <1>9, <1>10, Zenon DEF t, b

\* a step of a worker that takes packets keeps what holds, and stays at its node
RunsOn(w) ==
  cur' = [cur EXCEPT ![w] = cur'[w]] /\ cur'[w].node = cur[w].node /\ cur'[w].queue = cur[w].queue

\* A loop that ends in a sound state is a sound step of the run.
LEMMA StepSound ==
  ASSUME NEW w \in Workers, NEW s, Mid(w, s), Becomes(w, s), UNCHANGED <<mbuf, pend, fq>>
  PROVE  Sound(Now)' /\ RunsOn(w)
<1>1. Sound(Now)' /\ cur' = [cur EXCEPT ![w] = s.c]
  BY MidEnd
<1>2. cur \in [Workers -> RunType]
  BY Zenon DEF Mid, Sound, ViewType, Now
<1>3. cur'[w] = s.c
  BY <1>1, <1>2, Zenon
<1> QED BY <1>1, <1>3 DEF RunsOn, Mid

\* One packet further, the frame is one shorter.
LEMMA FurtherOn ==
  ASSUME NEW w \in Workers, NEW s, Mid(w, s), NEW s2, Further(w, s, s2), s.c.left # <<>>
  PROVE  /\ Mid(w, s2) /\ s2.c.node = s.c.node /\ Len(s.c.left) \in Nat
         /\ Len(s2.c.left) = Len(s.c.left) - 1
         /\ (Len(s.c.left) > 1 => s2.c.left # <<>>)
<1>1. s.c.left \in Seq(Buffers)
  BY MidTypes, RunTypes
<1> DEFINE q == s.c.left
<1>2. Mid(w, s2) /\ s2.c.node = s.c.node /\ s2.c.left = Tail(q)
  BY DEF Further
<1>3. q \in Seq(Buffers) /\ q # <<>>
  BY <1>1
<1> HIDE DEF q
<1>4. Len(q) \in Nat /\ Len(Tail(q)) = Len(q) - 1 /\ (Len(q) > 1 => Tail(q) # <<>>)
  BY <1>3
<1> QED BY <1>2, <1>4 DEF q

\* how far a worker comes with one or two packets
LEMMA RunStart ==
  ASSUME NEW w \in Workers, Sound(Now)
  PROVE  /\ Mid(w, State(w)) /\ State(w).c = cur[w] /\ cur[w].left \in Seq(Buffers)
<1>1. Mid(w, State(w)) /\ State(w).c = cur[w]
  BY MidStart DEF State
<1> QED BY <1>1, MidTypes, RunTypes, Zenon


\* The two loops of dpdk_process_rx_burst, of four packets and of one.
LEMMA RxSteps ==
  ASSUME NEW w \in Workers, Sound(Now), RxFour(w) \/ RxOne(w)
  PROVE  Sound(Now)' /\ RunsOn(w)
<1> DEFINE s0 == State(w)
           f(s, b) == RxPacket(w, s, b)
           s1 == f(Pop(s0), Head(s0.c.left))
           s2 == f(Pop(s1), Head(s1.c.left))
           s3 == f(Pop(s2), Head(s2.c.left))
           s4 == f(Pop(s3), Head(s3.c.left))
<1>1. /\ Mid(w, s0) /\ s0.c = cur[w] /\ cur[w].left \in Seq(Buffers)
  BY RunStart
<1>2. cur[w].node = RxNode /\ cur[w].left # <<>> /\ UNCHANGED <<mbuf, pend, fq>>
  BY DEF RxFour, RxOne, Several, Single, Running, RxStep, RxNode, shared
<1>3. \A s, r : Mid(w, s) /\ s.c.left # <<>> /\ s.c.node = RxNode /\ r = f(Pop(s), Head(s.c.left)) => Further(w, s, r)
  BY RxTook
<1> DEFINE Rx(s, b) == RxPacket(w, s, b)
<1>9. Each(s0, 1, Rx) = s1
  BY DEF Each, Took
<1>10. Each(s0, 4, Rx) = s4
  <2> DEFINE three == Took(Took(Took(s0, Rx), Rx), Rx)
  <2>1. three = s3
    BY DEF Took
  <2>2. Each(s0, 4, Rx) = Took(three, Rx)
    BY DEF Each
  <2>3. Took(three, Rx) = RxPacket(w, Pop(three), Head(three.c.left))
    BY DEF Took
  <2> HIDE DEF three, s3
  <2> QED BY <2>1, <2>2, <2>3, Zenon
<1>4. /\ RxOne(w) => Becomes(w, s1)
      /\ RxFour(w) => Becomes(w, s4) /\ Len(cur[w].left) >= 8
  <2> DEFINE e1 == Each(s0, 1, Rx)
             e4 == Each(s0, 4, Rx)
  <2>1. RxOne(w) => Becomes(w, e1)
    BY DEF RxOne, RxStep
  <2>2. RxFour(w) => Becomes(w, e4) /\ Len(cur[w].left) >= 2 * 4
    BY DEF RxFour, RxStep, Several
  <2>3. e1 = s1 /\ e4 = s4
    BY <1>9, <1>10, Zenon
  <2> HIDE DEF s0, s1, s4, e1, e4
  <2> QED BY <2>1, <2>2, <2>3
<1> HIDE DEF f, s0
<1>5. Further(w, s0, s1)
  BY <1>1, <1>2, <1>3
<1> HIDE DEF s1
<1>6. Mid(w, s1) /\ s1.c.node = RxNode /\ Len(s1.c.left) = Len(cur[w].left) - 1
      /\ (Len(cur[w].left) > 1 => s1.c.left # <<>>)
  BY <1>1, <1>2, <1>5, FurtherOn, Zenon
<1>7. CASE RxOne(w)
  BY <1>2, <1>4, <1>6, <1>7, StepSound, Zenon
<1>8. CASE RxFour(w)
  <2>1. Further(w, s1, s2)
    BY <1>1, <1>3, <1>4, <1>6, <1>8 DEF s2
  <2> HIDE DEF s2
  <2> DEFINE k == Len(cur[w].left)
  <2>7. k \in Nat /\ k >= 8 /\ Len(s1.c.left) = k - 1 /\ s1.c.left # <<>>
    BY <1>1, <1>4, <1>6, <1>8
  <2> HIDE DEF k
  <2>8. Len(s1.c.left) > 1
    BY <2>7
  <2>2. Mid(w, s2) /\ s2.c.node = RxNode /\ Len(s2.c.left) = Len(s1.c.left) - 1 /\ s2.c.left # <<>>
    BY <1>6, <2>1, <2>7, <2>8, FurtherOn, Zenon
  <2>9. Len(s2.c.left) > 1
    BY <2>2, <2>7
  <2>3. Further(w, s2, s3)
    BY <1>3, <2>2 DEF s3
  <2> HIDE DEF s3
  <2>4. Mid(w, s3) /\ s3.c.node = RxNode /\ s3.c.left # <<>>
    BY <2>2, <2>3, <2>9, FurtherOn
  <2>5. Further(w, s3, s4)
    BY <1>3, <2>4 DEF s4
  <2> HIDE DEF s4
  <2>6. Mid(w, s4)
    BY <2>5 DEF Further
  <2> QED BY <1>2, <1>4, <1>8, <2>6, StepSound, Zenon
<1> QED BY <1>7, <1>8

\* The two loops of sf_pkt_handoff.
LEMMA HandoffSteps ==
  ASSUME NEW w \in Workers, Sound(Now), HandoffTwo(w) \/ HandoffOne(w)
  PROVE  Sound(Now)' /\ RunsOn(w)
<1> DEFINE s0 == State(w)
           s1 == HandoffPacket(w, Pop(s0), Head(s0.c.left))
           s2 == HandoffPacket(w, Pop(s1), Head(s1.c.left))
<1>1. Mid(w, s0) /\ s0.c = cur[w] /\ cur[w].left \in Seq(Buffers)
  BY RunStart
<1>2. cur[w].node = HandoffNode /\ cur[w].left # <<>> /\ UNCHANGED <<mbuf, pend, fq>>
  BY DEF HandoffTwo, HandoffOne, Several, Single, Running, HandoffStep, shared
<1>3. /\ HandoffOne(w) => Becomes(w, s1)
      /\ HandoffTwo(w) => Becomes(w, s2) /\ Len(cur[w].left) >= 4
  BY DEF HandoffTwo, HandoffOne, HandoffStep, Each, Took, Several
<1> HIDE DEF s0
<1>4. Further(w, s0, s1)
  BY <1>1, <1>2, HandoffTook
<1> HIDE DEF s1
<1>5. Mid(w, s1) /\ s1.c.node = HandoffNode /\ (Len(cur[w].left) > 1 => s1.c.left # <<>>)
  BY <1>1, <1>2, <1>4, FurtherOn, Zenon
<1>6. CASE HandoffOne(w)
  BY <1>2, <1>3, <1>5, <1>6, StepSound
<1>7. CASE HandoffTwo(w)
  <2>1. Further(w, s1, s2)
    BY <1>1, <1>3, <1>5, <1>7, HandoffTook
  <2> HIDE DEF s2
  <2> QED BY <1>2, <1>3, <1>7, <2>1, StepSound DEF Further
<1> QED BY <1>6, <1>7

\* The two loops of sf_pkt_hf_input.
LEMMA HfSteps ==
  ASSUME NEW w \in Workers, Sound(Now), HfTwo(w) \/ HfOne(w)
  PROVE  Sound(Now)' /\ RunsOn(w)
<1> DEFINE s0 == State(w)
           s1 == HfPacket(Pop(s0), Head(s0.c.left))
           s2 == HfPacket(Pop(s1), Head(s1.c.left))
<1>1. Mid(w, s0) /\ s0.c = cur[w] /\ cur[w].left \in Seq(Buffers)
  BY RunStart
<1>2. cur[w].node = HfInputNode /\ cur[w].left # <<>> /\ UNCHANGED <<mbuf, pend, fq>>
  BY DEF HfTwo, HfOne, Several, Single, Running, HfStep, shared
<1>3. /\ HfOne(w) => Becomes(w, s1)
      /\ HfTwo(w) => Becomes(w, s2) /\ Len(cur[w].left) >= 4
  BY DEF HfTwo, HfOne, HfStep, Each, Took, Several
<1> HIDE DEF s0
<1>4. Further(w, s0, s1)
  BY <1>1, <1>2, HfTook
<1> HIDE DEF s1
<1>5. Mid(w, s1) /\ s1.c.node = HfInputNode /\ (Len(cur[w].left) > 1 => s1.c.left # <<>>)
  BY <1>1, <1>2, <1>4, FurtherOn
<1>6. CASE HfOne(w)
  BY <1>2, <1>3, <1>5, <1>6, StepSound, Zenon
<1>7. CASE HfTwo(w)
  <2>1. Further(w, s1, s2)
    BY <1>1, <1>3, <1>5, <1>7, HfTook
  <2> HIDE DEF s2
  <2> QED BY <1>2, <1>3, <1>7, <2>1, StepSound DEF Further
<1> QED BY <1>6, <1>7

\* The two loops of sf_pkt_output.
LEMMA OutSteps ==
  ASSUME NEW w \in Workers, Sound(Now), OutTwo(w) \/ OutOne(w)
  PROVE  Sound(Now)' /\ RunsOn(w)
<1> DEFINE s0 == State(w)
           s1 == OutPacket(Pop(s0), Head(s0.c.left))
           s2 == OutPacket(Pop(s1), Head(s1.c.left))
<1>1. Mid(w, s0) /\ s0.c = cur[w] /\ cur[w].left \in Seq(Buffers)
  BY RunStart
<1>2. cur[w].node = OutNode /\ cur[w].left # <<>> /\ UNCHANGED <<mbuf, pend, fq>>
  BY DEF OutTwo, OutOne, Several, Single, Running, OutStep, shared, OutNode
<1>3. /\ OutOne(w) => Becomes(w, s1)
      /\ OutTwo(w) => Becomes(w, s2) /\ Len(cur[w].left) >= 4
  BY DEF OutTwo, OutOne, OutStep, Each, Took, Several
<1> HIDE DEF s0
<1>4. Further(w, s0, s1)
  BY <1>1, <1>2, OutTook
<1> HIDE DEF s1
<1>5. Mid(w, s1) /\ s1.c.node = OutNode /\ (Len(cur[w].left) > 1 => s1.c.left # <<>>)
  BY <1>1, <1>2, <1>4, FurtherOn, Zenon
<1>6. CASE OutOne(w)
  BY <1>2, <1>3, <1>5, <1>6, StepSound
<1>7. CASE OutTwo(w)
  <2>1. Further(w, s1, s2)
    BY <1>1, <1>3, <1>5, <1>7, OutTook
  <2> HIDE DEF s2
  <2> QED BY <1>2, <1>3, <1>7, <2>1, StepSound DEF Further
<1> QED BY <1>6, <1>7

\* The two loops of sf_hugepkt_output.
LEMMA HugeOutSteps ==
  ASSUME NEW w \in Workers, Sound(Now), HugeOutTwo(w) \/ HugeOutOne(w)
  PROVE  Sound(Now)' /\ RunsOn(w)
<1> DEFINE s0 == State(w)
           s1 == HugeOutPacket(Pop(s0), Head(s0.c.left))
           s2 == HugeOutPacket(Pop(s1), Head(s1.c.left))
<1>1. Mid(w, s0) /\ s0.c = cur[w] /\ cur[w].left \in Seq(Buffers)
  BY RunStart
<1>2. cur[w].node = HugeOutNode /\ cur[w].left # <<>> /\ UNCHANGED <<mbuf, pend, fq>>
  BY DEF HugeOutTwo, HugeOutOne, Several, Single, Running, HugeOutStep, shared, HugeOutNode
<1>3. /\ HugeOutOne(w) => Becomes(w, s1)
      /\ HugeOutTwo(w) => Becomes(w, s2) /\ Len(cur[w].left) >= 4
  BY DEF HugeOutTwo, HugeOutOne, HugeOutStep, Each, Took, Several
<1> HIDE DEF s0
<1>4. Further(w, s0, s1)
  BY <1>1, <1>2, HugeOutTook
<1> HIDE DEF s1
<1>5. Mid(w, s1) /\ s1.c.node = HugeOutNode /\ (Len(cur[w].left) > 1 => s1.c.left # <<>>)
  BY <1>1, <1>2, <1>4, FurtherOn
<1>6. CASE HugeOutOne(w)
  BY <1>2, <1>3, <1>5, <1>6, StepSound
<1>7. CASE HugeOutTwo(w)
  <2>1. Further(w, s1, s2)
    BY <1>1, <1>3, <1>5, <1>7, HugeOutTook
  <2> HIDE DEF s2
  <2> QED BY <1>2, <1>3, <1>7, <2>1, StepSound DEF Further
<1> QED BY <1>6, <1>7

\* The two loops of sf_hugepkt_input.
LEMMA HugeSteps ==
  ASSUME NEW w \in Workers, Sound(Now), HugeTwo(w) \/ HugeOne(w)
  PROVE  Sound(Now)' /\ RunsOn(w)
<1> DEFINE s0 == State(w)
           F(k) == Flush(s0, SubSeq(cur[w].left, 1, k))
           S1(s) == handle_huge_packet(Pop(s), Head(s.c.left))
           S2(s) == S1(S1(s))
<1>1. Mid(w, s0) /\ s0.c = cur[w] /\ cur[w].left \in Seq(Buffers)
  BY RunStart
<1>2. cur[w].node = HugeInputNode /\ cur[w].left # <<>> /\ UNCHANGED <<mbuf, pend, fq>>
  BY Zenon DEF HugeTwo, HugeOne, Several, Single, Running, HugeStep, shared
<1>3. /\ HugeOne(w) => Becomes(w, S1(F(1)))
      /\ HugeTwo(w) => Becomes(w, S2(F(2))) /\ Len(cur[w].left) >= 4
  BY DEF HugeTwo, HugeOne, HugeStep, Each, Took, Several
<1> HIDE DEF s0
<1>4. \A k : Mid(w, F(k)) /\ F(k).c.left = cur[w].left /\ F(k).c.node = HugeInputNode
  BY <1>1, <1>2, MidFlush
<1> HIDE DEF F
<1>5. ASSUME NEW s, Mid(w, s), s.c.left # <<>>, s.c.node = HugeInputNode
      PROVE  Further(w, s, S1(s))
  BY <1>5, HugeTook
<1> HIDE DEF S1
<1>6. CASE HugeOne(w)
  <2>1. Mid(w, S1(F(1)))
    BY <1>2, <1>4, <1>5 DEF Further
  <2> QED BY <1>2, <1>3, <1>6, <2>1, StepSound
<1>7. CASE HugeTwo(w)
  <2> DEFINE s1 == S1(F(2))
             s2 == S1(s1)
  <2>1. Further(w, F(2), s1)
    BY <1>2, <1>4, <1>5
  <2> HIDE DEF s1
  <2>2. Len(cur[w].left) > 1
    BY <1>1, <1>3, <1>7
  <2>3. Mid(w, s1) /\ s1.c.node = HugeInputNode /\ s1.c.left # <<>>
    BY <1>2, <1>4, <2>1, <2>2, FurtherOn
  <2>4. Further(w, s1, s2)
    BY <1>5, <2>3
  <2>5. Becomes(w, s2)
    BY <1>3, <1>7 DEF s1
  <2> HIDE DEF s2
  <2> QED BY <1>2, <2>4, <2>5, StepSound DEF Further
<1> QED BY <1>6, <1>7

\* The step of the decoding and action nodes.
LEMMA GraphSteps ==
  ASSUME NEW w \in Workers, Sound(Now), Graph(w)
  PROVE  Sound(Now)' /\ RunsOn(w)
<1> DEFINE s0 == State(w)
           s1 == GraphPacket(Pop(s0), Head(s0.c.left))
<1>1. Mid(w, s0) /\ s0.c = cur[w] /\ cur[w].left \in Seq(Buffers)
  BY RunStart
<1>2. cur[w].node = GraphNode /\ cur[w].left # <<>> /\ UNCHANGED <<mbuf, pend, fq>> /\ Becomes(w, s1)
  BY DEF Graph, Running, shared, GraphNode, Each, Took
<1> HIDE DEF s0
<1>3. Further(w, s0, s1)
  BY <1>1, <1>2, GraphTook
<1> HIDE DEF s1
<1> QED BY <1>2, <1>3, StepSound DEF Further

-----------------------------------------------------------------------------
(* sf_pkt_drop: the blocks are freed packet by packet, the buffers at the end *)

\* what the drop node makes of its first packet
DropsOne(w, s, u) ==
  LET b == Head(s.c.left)
  IN /\ IsState(u) /\ u.w = w /\ u.wd = s.wd /\ u.pool = s.pool /\ u.fl = s.fl
     /\ u.lost = s.lost /\ u.spoilt = s.spoilt /\ u.c = [s.c EXCEPT !.left = Tail(@)]
     /\ u.bp \in [Block -> Nat] /\ b \in Buffers
     /\ \A j \in Block : u.bp[j] = s.bp[j] + (IF s.wd[b].huge /\ s.wd[b].blk = j THEN 1 ELSE 0)

\* What one packet of sf_pkt_drop does to the list of buffers to free.
LEMMA DropsOneIs ==
  ASSUME NEW w \in Workers, NEW s, Mid(w, s), s.c.left # <<>>
  PROVE  DropsOne(w, s, DropPacket(Pop(s), Head(s.c.left)))
<1> DEFINE b == Head(s.c.left)
           t == Pop(s)
           y == s.wd[b]
           c == [s.c EXCEPT !.left = Tail(@)]
           r == IF y.huge THEN free_huge_pkt_16k(t, y.blk) ELSE t
           u == DropPacket(t, b)
<1>1. /\ s.wd \in [Buffers -> WdType] /\ s.bp \in [Block -> Nat] /\ s.c.left \in Seq(Buffers)
      /\ IsState(s) /\ s.w = w
  BY MidTypes, RunTypes DEF Mid
<1>2. b \in Buffers /\ b = s.c.left[1] /\ 1 \in 1 .. Len(s.c.left)
  BY <1>1
<1>3. y = wd[b] /\ y.blk \in Block \cup {NoBlock} /\ y.huge \in BOOLEAN
  <2>1. s.wd[s.c.left[1]] = wd[s.c.left[1]]
    BY <1>2 DEF Mid
  <2>2. y \in WdType
    BY <1>1, <1>2
  <2> QED BY <1>2, <2>1, <2>2 DEF WdType
<1>4. RunSet(s, c, t)
  BY <1>1, Popped
<1> HIDE DEF t, b, c
<1>5. IsState(t) /\ t.wd = s.wd /\ t.bp = s.bp /\ t.w = w /\ t.pool = s.pool /\ t.fl = s.fl
      /\ t.lost = s.lost /\ t.spoilt = s.spoilt /\ t.c = c
  BY <1>1, <1>4 DEF RunSet
<1>6. u = r \/ \E i, k : u = Count(r, "drop_packets", i, k)
  <2>1. u = IF y.rec /\ y.intf \in Intf THEN Count(r, "drop_packets", y.intf, 1) ELSE r
    <3> HIDE DEF y
    <3> QED BY <1>3 DEF DropPacket
  <2> HIDE DEF u, r, y
  <2> QED BY <2>1
<1> HIDE DEF y
<1>7. /\ IsState(r) /\ r.w = w /\ r.wd = s.wd /\ r.pool = s.pool /\ r.fl = s.fl
      /\ r.lost = s.lost /\ r.spoilt = s.spoilt /\ r.c = c /\ r.bp \in [Block -> Nat]
      /\ \A j \in Block : r.bp[j] = s.bp[j] + (IF y.huge /\ y.blk = j THEN 1 ELSE 0)
  <2>1. CASE y.huge
    <3> DEFINE v == free_huge_pkt_16k(t, y.blk)
               k == y.blk
    <3>1. k \in Block \cup {NoBlock} /\ t.bp \in [Block -> Nat]
      BY <1>1, <1>3, <1>5
    <3>2. v = free_huge_pkt_16k(t, k) /\ r = v
      BY <2>1
    <3> HIDE DEF k, v, r
    <3>3. Freed(t, k, v)
      BY <1>5, <3>1, <3>2, FreedIs, Zenon
    <3> QED BY <1>5, <2>1, <3>2, <3>3 DEF Freed, k
  <2>2. CASE ~y.huge
    <3>1. r = t
      BY <2>2
    <3> HIDE DEF r
    <3> QED BY <1>1, <1>5, <2>2, <3>1
  <2> QED BY <2>1, <2>2
<1> HIDE DEF r, u
<1>8. SameButStat(r, u)
  <2>1. CASE u = r
    BY <1>7, <2>1 DEF SameButStat
  <2>2. CASE \E i, k : u = Count(r, "drop_packets", i, k)
    BY <1>7, <2>2, CountIs
  <2> QED BY <1>6, <2>1, <2>2
<1>9. DropsOne(w, s, u)
  BY <1>2, <1>7, <1>8, Zenon DEF SameButStat, DropsOne, b, c, y
<1> QED BY <1>9 DEF u, t, b

\* A packet that is so dropped keeps the state sound.
LEMMA DropTook ==
  ASSUME NEW w \in Workers, NEW s, Mid(w, s), s.c.left # <<>>, s.c.node = DropNode,
         NEW s2, DropsOne(w, s, s2)
  PROVE  Further(w, s, s2)
<1> DEFINE b == Head(s.c.left)
           c2 == [s.c EXCEPT !.left = Tail(@)]
           x == <<DropNode, b>>
           V == After(w, s)
           V2 == After(w, s2)
<1>1. /\ s.wd \in [Buffers -> WdType] /\ s.pool \in [Buffers -> Nat] /\ s.fl \in SUBSET Buffers
      /\ s.bp \in [Block -> Nat] /\ s.c \in RunType /\ s.lost \subseteq Buffers
      /\ IsState(s) /\ s.w = w /\ Sound(Now) /\ Sound(V)
  BY MidTypes DEF Mid
<1>2. /\ s.c.left \in Seq(Buffers) /\ s.c.frame \in Seq(Buffers)
      /\ s.c = [node |-> s.c.node, frame |-> s.c.frame, left |-> s.c.left, to |-> s.c.to,
                away |-> s.c.away, drops |-> s.c.drops, queue |-> s.c.queue, hand |-> s.c.hand]
  BY <1>1, RunTypes
<1>3. DropNode \in Nodes /\ DropNode # Idle /\ DropNode \notin TxNodes /\ DropNode # HugeInputNode
      /\ DropNode \in Gathered
  BY DEF Nodes, DropNode, Idle, TxNodes, N, Tx, HugeInputNode, Gathered
<1>4. /\ b \in Buffers /\ Tail(s.c.left) \in Seq(Buffers) /\ x \in Pairs
      /\ Len(Tail(s.c.left)) = Len(s.c.left) - 1 /\ Len(s.c.left) \in Nat \ {0}
      /\ \A i \in 1 .. Len(Tail(s.c.left)) : Tail(s.c.left)[i] = s.c.left[i + 1]
      /\ \A h \in [Pairs -> Nat] :
           Weigh(h, PairsOf(DropNode, s.c.left)) = h[x] + Weigh(h, PairsOf(DropNode, Tail(s.c.left)))
  BY <1>2, <1>3, PairsOfTail, Zenon
<1>5. /\ c2 \in RunType /\ c2.left = Tail(s.c.left) /\ c2.node = s.c.node
      /\ c2.frame = s.c.frame /\ c2.to = s.c.to /\ c2.away = s.c.away /\ c2.queue = s.c.queue
      /\ c2.hand = s.c.hand /\ c2.drops = s.c.drops
  <2> DEFINE q == Tail(s.c.left)
  <2>1. q \in Seq(Buffers) /\ c2 = [s.c EXCEPT !.left = q]
    BY <1>4
  <2> HIDE DEF q, c2
  <2>2. c2 \in RunType
    BY <1>1, <2>1 DEF RunType
  <2>3. /\ c2.left = q /\ c2.node = s.c.node
        /\ c2.frame = s.c.frame /\ c2.to = s.c.to /\ c2.away = s.c.away /\ c2.queue = s.c.queue
        /\ c2.hand = s.c.hand /\ c2.drops = s.c.drops
    BY <1>2, <2>1
  <2> QED BY <2>2, <2>3 DEF q
<1>6. /\ IsState(s2) /\ s2.w = w /\ s2.wd = s.wd /\ s2.pool = s.pool /\ s2.fl = s.fl
      /\ s2.lost = s.lost /\ s2.spoilt = s.spoilt /\ s2.c = c2 /\ s2.bp \in [Block -> Nat]
      /\ \A j \in Block : s2.bp[j] = s.bp[j] + (IF s.wd[b].huge /\ s.wd[b].blk = j THEN 1 ELSE 0)
  BY Zenon DEF DropsOne
<1> HIDE DEF c2, b
<1>7. /\ V.wd = s.wd /\ V.pool = s.pool /\ V.lost = s.lost /\ V.spoilt = s.spoilt
      /\ V.mbuf = mbuf /\ V.pend = pend /\ V.fq = fq
      /\ V.fl[w] = s.fl /\ V.bp[w] = s.bp /\ V.cur[w] = s.c
  BY <1>1, AfterIs, Zenon
<1>8. /\ V2.wd = s.wd /\ V2.pool = s.pool /\ V2.lost = s.lost /\ V2.spoilt = s.spoilt
      /\ V2.mbuf = mbuf /\ V2.pend = pend /\ V2.fq = fq
      /\ V2.fl[w] = s.fl /\ V2.bp[w] = s2.bp /\ V2.cur[w] = c2
  <2>1. /\ V2.wd = s2.wd /\ V2.pool = s2.pool /\ V2.lost = s2.lost /\ V2.spoilt = s2.spoilt
        /\ V2.mbuf = mbuf /\ V2.pend = pend /\ V2.fq = fq
        /\ V2.fl[w] = s2.fl /\ V2.bp[w] = s2.bp /\ V2.cur[w] = s2.c
    BY <1>1, AfterIs, Zenon
  <2> HIDE DEF V2
  <2> QED BY <1>6, <2>1
<1>9. ViewType(V2)
  <2>1. /\ s2.wd \in [Buffers -> WdType] /\ s2.pool \in [Buffers -> Nat] /\ s2.fl \in SUBSET Buffers
        /\ s2.bp \in [Block -> Nat] /\ s2.lost \subseteq Buffers /\ s2.c \in RunType
    BY <1>1, <1>5, <1>6
  <2> HIDE DEF V2
  <2>2. ViewType(After(w, s2))
    BY <1>1, <2>1, AfterType
  <2> QED BY <2>2 DEF V2
<1>10. OthersSame(V, V2, w)
  BY <1>1, AfterSame
<1>11. RunInv(V, w)
  BY <1>1 DEF Sound
<1> HIDE DEF V, V2, x
<1>12. Lists(V2, w) = Lists(V, w)
  <2>1. Listed(c2) = s.c.frame /\ Listed(s.c) = s.c.frame
    BY <1>5 DEF Listed, DropNode
  <2> QED BY <1>5, <1>7, <1>8, <2>1 DEF Lists
<1>13. \A h : Load(h, LeftLists(V, w)) = Weigh(h, PairsOf(DropNode, s.c.left)) + Weigh(h, s.c.to) + Weigh(AwayOf(h), s.c.away)
                 + Weigh(FrameOf(h), pend[w]) + Weigh(QueueOf(h), fq[w])
  BY <1>7 DEF LeftLists, Load
<1>14. \A h : Load(h, LeftLists(V2, w)) = Weigh(h, PairsOf(DropNode, Tail(s.c.left))) + Weigh(h, s.c.to) + Weigh(AwayOf(h), s.c.away)
                 + Weigh(FrameOf(h), pend[w]) + Weigh(QueueOf(h), fq[w])
  BY <1>5, <1>8 DEF LeftLists, Load
<1>16. RunInv(V2, w)
  <2>1. LET done == Len(s.c.frame) - Len(s.c.left)
        IN /\ s.c.drops # <<>> => s.c.node = HugeInputNode
           /\ \A i \in 1 .. Len(s.c.away) :
                /\ s.c.away[i][1] # w
                /\ sf_pkt_get_worker_index(mbuf[s.c.away[i][2]].pkt) = s.c.away[i][1]
           /\ done >= 0 /\ \A i \in 1 .. Len(s.c.left) : s.c.left[i] = s.c.frame[done + i]
    BY <1>7, <1>11, Zenon DEF RunInv, RunOf
  <2>2. LET done == Len(c2.frame) - Len(c2.left)
        IN done >= 0 /\ \A i \in 1 .. Len(c2.left) : c2.left[i] = c2.frame[done + i]
    <3> DEFINE q == s.c.left
               f == s.c.frame
               d == Len(f) - Len(q)
    <3>1. Len(f) \in Nat /\ Len(q) \in Nat \ {0} /\ Len(Tail(q)) = Len(q) - 1 /\ d >= 0
          /\ \A i \in 1 .. Len(Tail(q)) : Tail(q)[i] = q[i + 1]
      BY <1>2, <1>4, <2>1
    <3>2. \A i \in 1 .. Len(q) : q[i] = f[d + i]
      BY <2>1, Zenon
    <3> HIDE DEF q, f
    <3>3. Len(f) - Len(Tail(q)) = d + 1 /\ d + 1 >= 0
      BY <3>1
    <3>4. ASSUME NEW i \in 1 .. Len(Tail(q))
          PROVE  Tail(q)[i] = f[(d + 1) + i]
      <4>1. i + 1 \in 1 .. Len(q) /\ d + (i + 1) = (d + 1) + i
        BY <3>1
      <4>2. Tail(q)[i] = q[i + 1]
        BY <3>1
      <4> QED BY <3>2, <4>1, <4>2
    <3> QED BY <1>5, <3>3, <3>4, Zenon DEF q, f
  <2>4. c2.node = DropNode /\ DropNode # Idle /\ DropNode \notin TxNodes /\ c2.drops = s.c.drops
        /\ c2.away = s.c.away /\ V2.mbuf = mbuf
    BY <1>3, <1>5, <1>8, Zenon
  <2>5. c2.drops # <<>> => c2.node = HugeInputNode
    BY <1>5, <2>1, Zenon
  <2>6. \A i \in 1 .. Len(c2.away) :
          /\ c2.away[i][1] # w
          /\ sf_pkt_get_worker_index(V2.mbuf[c2.away[i][2]].pkt) = c2.away[i][1]
    BY <2>1, <2>4
  <2>3. RunOf(V2, w, c2)
    BY <2>2, <2>4, <2>5, <2>6, Zenon DEF RunOf
  <2> QED BY <1>8, <2>3 DEF RunInv
<1>15. LeftLists(V, w) \in ListsType /\ LeftLists(V2, w) \in ListsType
  <2>2. ViewType(V)
    BY <1>1 DEF Sound
  <2> QED BY <1>9, <1>11, <1>16, <2>2, ListsTypes
<1>17. \A h \in [Pairs -> Nat] :
         Load(h, LeftLists(V, w)) = h[x] + Load(h, LeftLists(V2, w)) /\ Load(h, LeftLists(V2, w)) \in Nat
  <2> TAKE h \in [Pairs -> Nat]
  <2> DEFINE L == LeftLists(V, w)
             M == LeftLists(V2, w)
  <2>1. L.list = PairsOf(DropNode, s.c.left) /\ L.to = s.c.to /\ L.away = s.c.away /\ L.pend = pend[w] /\ L.fq = fq[w]
    BY <1>7 DEF LeftLists
  <2>2. M.list = PairsOf(DropNode, Tail(s.c.left)) /\ M.to = s.c.to /\ M.away = s.c.away /\ M.pend = pend[w] /\ M.fq = fq[w]
    BY <1>5, <1>8, Zenon DEF LeftLists
  <2>3. /\ Weigh(h, L.list) \in Nat /\ Weigh(h, L.to) \in Nat /\ Weigh(AwayOf(h), L.away) \in Nat
        /\ Weigh(FrameOf(h), L.pend) \in Nat /\ Weigh(QueueOf(h), L.fq) \in Nat
        /\ Weigh(h, M.list) \in Nat /\ Load(h, M) \in Nat
    BY <1>15, LoadNat
  <2>4. Weigh(h, L.list) = h[x] + Weigh(h, M.list)
    BY <1>4, <2>1, <2>2
  <2>5. h[x] \in Nat
    BY <1>4 DEF x
  <2> DEFINE l == Weigh(h, L.list)
             m == Weigh(h, M.list)
             p == Weigh(h, L.to)
             q == Weigh(AwayOf(h), L.away)
             r == Weigh(FrameOf(h), L.pend)
             o == Weigh(QueueOf(h), L.fq)
             y == h[x]
  <2>6. Load(h, L) = l + p + q + r + o /\ Load(h, M) = m + p + q + r + o
    BY <1>13, <1>14, <2>1, <2>2, Zenon
  <2>7. l \in Int /\ m \in Int /\ p \in Int /\ q \in Int /\ r \in Int /\ o \in Int /\ l = y + m /\ y \in Int
    BY <2>3, <2>4, <2>5
  <2> HIDE DEF l, m, p, q, r, o, y
  <2>8. l + p + q + r + o = y + (m + p + q + r + o)
    BY <2>7
  <2> HIDE DEF L, M
  <2>9. Load(h, L) = h[x] + Load(h, M) /\ Load(h, M) \in Nat
    BY <2>3, <2>6, <2>8 DEF y
  <2> QED BY <2>9 DEF L, M
<1>18. Still(V, V2, w)
  BY <1>5, <1>7, <1>8, <1>10, <1>12 DEF Still
<1>19. BlocksAt(V2, w)
  <2> SUFFICES ASSUME NEW k \in Block, <<w, k>> \notin s.spoilt
               PROVE  s2.bp[k] + Load(Fills(V2, k), LeftLists(V2, w)) = 1
    BY <1>8, Zenon DEF BlocksAt
  <2> DEFINE h == Fills(V, k)
  <2>1. Fills(V2, k) = h /\ h \in [Pairs -> Nat]
    BY <1>7, <1>8, FillsType DEF Fills
  <2>2. s.bp[k] + Load(h, LeftLists(V, w)) = 1
    BY <1>1, <1>7, Zenon DEF Sound, BlockBalance, BlocksAt
  <2>3. h[x] = IF s.wd[b].huge /\ s.wd[b].blk = k THEN 1 ELSE 0
    BY <1>3, <1>4, <1>7 DEF Fills, x
  <2> HIDE DEF h
  <2>4. s2.bp[k] = s.bp[k] + h[x] /\ s.bp[k] \in Nat /\ h[x] \in Nat
    BY <1>1, <1>6, <2>3
  <2>5. Load(h, LeftLists(V, w)) = h[x] + Load(h, LeftLists(V2, w)) /\ Load(h, LeftLists(V2, w)) \in Nat
    BY <1>17, <2>1
  <2> DEFINE l == Load(h, LeftLists(V, w))
             m == Load(h, LeftLists(V2, w))
  <2> HIDE DEF l, m
  <2>6. s2.bp[k] + m = 1
    BY <2>2, <2>4, <2>5 DEF l, m
  <2> QED BY <2>1, <2>6 DEF m
<1>20. Sound(V2)
  BY <1>1, <1>9, <1>16, <1>18, <1>19, StillSound
<1>21. s.c.node = cur[w].node /\ s.c.queue = cur[w].queue /\ s.c.hand = cur[w].hand
       /\ \A i \in 1 .. Len(s.c.left) : s.wd[s.c.left[i]] = wd[s.c.left[i]]
  BY DEF Mid
<1>22. \A i \in 1 .. Len(s2.c.left) : s2.wd[s2.c.left[i]] = wd[s2.c.left[i]]
  <2> TAKE i \in 1 .. Len(s2.c.left)
  <2>1. s2.c.left = Tail(s.c.left) /\ s2.wd = s.wd
    BY <1>5, <1>6, Zenon
  <2>2. i + 1 \in 1 .. Len(s.c.left) /\ i \in 1 .. Len(Tail(s.c.left))
    BY <1>4, <2>1
  <2>3. Tail(s.c.left)[i] = s.c.left[i + 1]
    BY <1>4, <2>2, Zenon
  <2> QED BY <1>21, <2>1, <2>2, <2>3, Zenon
<1>23. Mid(w, s2)
  BY <1>1, <1>5, <1>6, <1>20, <1>21, <1>22 DEF Mid, V2
<1> QED BY <1>5, <1>6, <1>23 DEF Further

\* One packet of sf_pkt_drop.
LEMMA DropTakes ==
  ASSUME NEW w \in Workers, NEW s, Mid(w, s), s.c.left # <<>>, s.c.node = DropNode
  PROVE  Further(w, s, DropPacket(Pop(s), Head(s.c.left)))
BY DropsOneIs, DropTook

\* The two loops of sf_pkt_drop.
LEMMA DropSteps ==
  ASSUME NEW w \in Workers, Sound(Now), DropTwo(w) \/ DropOne(w)
  PROVE  Sound(Now)' /\ RunsOn(w)
<1> DEFINE s0 == State(w)
           s1 == DropPacket(Pop(s0), Head(s0.c.left))
           s2 == DropPacket(Pop(s1), Head(s1.c.left))
<1>1. Mid(w, s0) /\ s0.c = cur[w] /\ cur[w].left \in Seq(Buffers)
  BY RunStart
<1>2. cur[w].node = DropNode /\ cur[w].left # <<>> /\ UNCHANGED <<mbuf, pend, fq>>
  BY DEF DropTwo, DropOne, Several, Single, Running, DropStep, shared, DropNode
<1>3. /\ DropOne(w) => Becomes(w, s1)
      /\ DropTwo(w) => Becomes(w, s2) /\ Len(cur[w].left) >= 4
  BY DEF DropTwo, DropOne, DropStep, Each, Took, Several
<1> HIDE DEF s0
<1>4. Further(w, s0, s1)
  BY <1>1, <1>2, DropTakes
<1> HIDE DEF s1
<1>5. Mid(w, s1) /\ s1.c.node = DropNode /\ (Len(cur[w].left) > 1 => s1.c.left # <<>>)
  BY <1>1, <1>2, <1>4, FurtherOn
<1>6. CASE DropOne(w)
  BY <1>2, <1>3, <1>5, <1>6, StepSound
<1>7. CASE DropTwo(w)
  <2>1. Further(w, s1, s2)
    BY <1>1, <1>3, <1>5, <1>7, DropTakes
  <2> HIDE DEF s2
  <2> QED BY <1>2, <1>3, <1>7, <2>1, StepSound DEF Further
<1> QED BY <1>6, <1>7

-----------------------------------------------------------------------------
(* Sums in two parts *)

\* g are the first n terms of f and h the next m
InTwo(f, n, g, m, h) ==
  /\ \A k \in 1 .. n + m : f[k] \in Nat
  /\ \A k \in 1 .. n : g[k] = f[k]
  /\ \A k \in 1 .. m : h[k] = f[n + k]

\* A sum in two parts.
LEMMA SumSplit ==
  ASSUME NEW n \in Nat, NEW m \in Nat, NEW f, NEW g, NEW h, InTwo(f, n, g, m, h)
  PROVE  SumTo(f, n + m) = SumTo(g, n) + SumTo(h, m)
<1>20. /\ \A k \in 1 .. n + m : f[k] \in Nat
       /\ \A k \in 1 .. n : g[k] = f[k]
       /\ \A k \in 1 .. m : h[k] = f[n + k]
  BY DEF InTwo
<1> DEFINE r == Sums(f, n + m)
           s == Sums(g, n)
           u == Sums(h, m)
           S == {k \in 0 .. n : r[k] = s[k]}
           T == {k \in 0 .. m : r[n + k] = s[n] + u[k]}
<1>1. r[0] = 0 /\ \A k \in 1 .. n + m : r[k] = r[k - 1] + f[k]
  BY SumsStep
<1>2. s[0] = 0 /\ \A k \in 1 .. n : s[k] = s[k - 1] + g[k]
  BY SumsStep
<1>3. u[0] = 0 /\ \A k \in 1 .. m : u[k] = u[k - 1] + h[k]
  BY SumsStep
<1>4. (\A k \in 0 .. n : s[k] \in Int) /\ \A k \in 0 .. m : u[k] \in Int
  <2>1. (\A k \in 1 .. n : g[k] \in Int) /\ \A k \in 1 .. m : h[k] \in Int
    BY <1>20
  <2>2. \A k \in 0 .. n : s[k] \in Int
    BY <2>1, SumsInt
  <2>3. \A k \in 0 .. m : u[k] \in Int
    BY <2>1, SumsInt
  <2> QED BY <2>2, <2>3
<1> HIDE DEF r, s, u
<1>5. 0 \in S
  BY <1>1, <1>2
<1>6. \A k \in 0 .. n : k < n /\ k \in S => k + 1 \in S
  <2> SUFFICES ASSUME NEW k \in 0 .. n, k < n, r[k] = s[k]
               PROVE  k + 1 \in 0 .. n /\ r[k + 1] = s[k + 1]
    OBVIOUS
  <2>1. k + 1 \in 1 .. n /\ k + 1 \in 1 .. n + m /\ (k + 1) - 1 = k
    OBVIOUS
  <2>2. r[k + 1] = r[k] + f[k + 1] /\ s[k + 1] = s[k] + g[k + 1] /\ g[k + 1] = f[k + 1]
    BY <1>1, <1>2, <1>20, <2>1, Zenon
  <2> QED BY <2>1, <2>2
<1> HIDE DEF S
<1>7. \A k \in 0 .. n : k \in S
  BY <1>5, <1>6, UpTo
<1>8. r[n] = s[n] /\ s[n] \in Int
  BY <1>4, <1>7 DEF S
<1>9. 0 \in T
  BY <1>3, <1>8
<1>10. \A k \in 0 .. m : k < m /\ k \in T => k + 1 \in T
  <2> SUFFICES ASSUME NEW k \in 0 .. m, k < m, r[n + k] = s[n] + u[k]
               PROVE  k + 1 \in 0 .. m /\ r[n + (k + 1)] = s[n] + u[k + 1]
    OBVIOUS
  <2> DEFINE j == n + (k + 1)
  <2>1. k + 1 \in 1 .. m /\ j \in 1 .. n + m /\ (k + 1) - 1 = k /\ j - 1 = n + k /\ k + 1 \in 0 .. m
    OBVIOUS
  <2>2. r[j] = r[n + k] + f[j] /\ u[k + 1] = u[k] + h[k + 1] /\ h[k + 1] = f[j] /\ f[j] \in Nat
    BY <1>1, <1>3, <1>20, <2>1
  <2>3. u[k] \in Int
    BY <1>4
  <2> HIDE DEF j
  <2>4. r[j] = s[n] + u[k + 1]
    BY <1>8, <2>2, <2>3
  <2> QED BY <2>1, <2>4, Zenon DEF j
<1> HIDE DEF T
<1>11. \A k \in 0 .. m : k \in T
  BY <1>9, <1>10, UpTo
<1>12. r[n + m] = s[n] + u[m]
  BY <1>11 DEF T
<1> QED BY <1>12 DEF SumTo, r, s, u

\* A list in two parts.
LEMMA WeighSplit ==
  ASSUME NEW P, NEW h \in [P -> Nat], NEW ps \in Seq(P), NEW qs \in Seq(P), NEW rs \in Seq(P),
         Len(ps) = Len(qs) + Len(rs), \A i \in 1 .. Len(qs) : qs[i] = ps[i],
         \A i \in 1 .. Len(rs) : rs[i] = ps[Len(qs) + i]
  PROVE  Weigh(h, ps) = Weigh(h, qs) + Weigh(h, rs)
<1> DEFINE n == Len(qs)
           m == Len(rs)
           f == [i \in 1 .. Len(ps) |-> h[ps[i]]]
           g == [i \in 1 .. Len(qs) |-> h[qs[i]]]
           u == [i \in 1 .. Len(rs) |-> h[rs[i]]]
<1>1. n \in Nat /\ m \in Nat /\ Len(ps) = n + m
  OBVIOUS
<1>2. \A k \in 1 .. n + m : f[k] \in Nat /\ f[k] = h[ps[k]]
  BY WeighTerms
<1>3. \A k \in 1 .. n : g[k] = h[qs[k]]
  OBVIOUS
<1>4. \A k \in 1 .. m : u[k] = h[rs[k]]
  OBVIOUS
<1> HIDE DEF f, g, u
<1>5. \A k \in 1 .. n : g[k] = f[k]
  <2> TAKE k \in 1 .. n
  <2>1. k \in 1 .. n + m /\ qs[k] = ps[k]
    BY <1>1
  <2> QED BY <1>2, <1>3, <2>1, Zenon
<1>6. \A k \in 1 .. m : u[k] = f[n + k]
  <2> TAKE k \in 1 .. m
  <2>1. n + k \in 1 .. n + m /\ rs[k] = ps[n + k]
    BY <1>1
  <2> QED BY <1>2, <1>4, <2>1, Zenon
<1> HIDE DEF n, m
<1>9. \A k \in 1 .. n + m : f[k] \in Nat
  BY <1>2
<1>10. n \in Nat /\ m \in Nat
  BY <1>1
<1>11. InTwo(f, n, g, m, u)
  BY <1>5, <1>6, <1>9 DEF InTwo
<1>7. SumTo(f, n + m) = SumTo(g, n) + SumTo(u, m)
  BY <1>10, <1>11, SumSplit
<1>8. Weigh(h, ps) = SumTo(f, n + m) /\ Weigh(h, qs) = SumTo(g, n) /\ Weigh(h, rs) = SumTo(u, m)
  BY <1>1 DEF Weigh, f, g, u, n, m
<1> QED BY <1>7, <1>8

\* how often a buffer is in a sequence, as a sum
LEMMA TimesWeigh ==
  ASSUME NEW h \in [Pairs -> Nat], NEW n \in Nodes, NEW e, NEW bs \in Seq(Buffers),
         \A b \in Buffers : h[<<n, b>>] = Times(e, <<b>>)
  PROVE  Weigh(h, PairsOf(n, bs)) = Times(e, bs)
<1> DEFINE q(k) == SubSeq(bs, 1, k)
           S == {k \in 0 .. Len(bs) : Weigh(h, PairsOf(n, q(k))) = Times(e, q(k))}
<1>1. Len(bs) \in Nat /\ \A k \in 0 .. Len(bs) : q(k) \in Seq(Buffers)
  OBVIOUS
<1>2. q(0) = <<>> /\ q(Len(bs)) = bs
  OBVIOUS
<1>3. \A k \in 0 .. Len(bs) : k < Len(bs) => q(k + 1) = Append(q(k), bs[k + 1]) /\ bs[k + 1] \in Buffers
  OBVIOUS
<1> HIDE DEF q
<1>4. 0 \in S
  <2>1. Weigh(h, <<>>) = 0 /\ Times(e, <<>>) = 0 /\ PairsOf(n, <<>>) = <<>>
    BY WeighEmpty, TimesEmpty, PairsOfEmpty, Zenon
  <2> QED BY <1>1, <1>2, <2>1
<1>5. \A k \in 0 .. Len(bs) : k < Len(bs) /\ k \in S => k + 1 \in S
  <2> SUFFICES ASSUME NEW k \in 0 .. Len(bs), k < Len(bs), Weigh(h, PairsOf(n, q(k))) = Times(e, q(k))
               PROVE  k + 1 \in 0 .. Len(bs) /\ Weigh(h, PairsOf(n, q(k + 1))) = Times(e, q(k + 1))
    OBVIOUS
  <2> DEFINE s == q(k)
             b == bs[k + 1]
  <2>1. q(k + 1) = Append(s, b) /\ b \in Buffers /\ s \in Seq(Buffers) /\ k + 1 \in 0 .. Len(bs)
    BY <1>1, <1>3
  <2>2. Weigh(h, PairsOf(n, s)) = Times(e, s)
    OBVIOUS
  <2> HIDE DEF s, b
  <2>3. PairsOf(n, Append(s, b)) = Append(PairsOf(n, s), <<n, b>>)
    BY <2>1, PairsOfAppend
  <2>4. PairsOf(n, s) \in Seq(Pairs) /\ <<n, b>> \in Pairs
    BY <2>1, PairsOfType DEF Pairs
  <2>5. Weigh(h, PairsOf(n, Append(s, b))) = Weigh(h, PairsOf(n, s)) + h[<<n, b>>]
    BY <2>3, <2>4, WeighAppend
  <2>6. Times(e, Append(s, b)) = Times(e, s) + (IF b = e THEN 1 ELSE 0)
    <3>1. s \in Seq(Nat) /\ b \in Nat
      BY <2>1, BuffersNat, PacketAssumption
    <3> QED BY <3>1, TimesAppend
  <2>7. h[<<n, b>>] = IF b = e THEN 1 ELSE 0
    BY <2>1, TimesOne
  <2> QED BY <2>1, <2>2, <2>5, <2>6, <2>7
<1> HIDE DEF S
<1>6. \A k \in 0 .. Len(bs) : k \in S
  BY <1>1, <1>4, <1>5, UpTo, Zenon
<1>7. Len(bs) \in S
  BY <1>1, <1>6
<1> QED BY <1>2, <1>7 DEF S

-----------------------------------------------------------------------------
(* A node ends: what it enqueued goes to the frames of the next nodes *)

\* Soundness of the next view is soundness in the next state.
LEMMA SoundNext == Sound(Now') => Sound(Now)'
BY DEF Sound, ViewType, BufferBalance, BlockBalance, BlocksAt, AllFit, RunInv

\* The view of the current state.
LEMMA NowIs ==
  /\ Now.wd = wd /\ Now.pool = mempool /\ Now.fl = freelist /\ Now.bp = blkpool /\ Now.cur = cur
  /\ Now.lost = lost /\ Now.spoilt = spoilt /\ Now.mbuf = mbuf /\ Now.pend = pend /\ Now.fq = fq
BY DEF Now

\* The view of the next state.
LEMMA NextIs ==
  /\ Now'.wd = wd' /\ Now'.pool = mempool' /\ Now'.fl = freelist' /\ Now'.bp = blkpool' /\ Now'.cur = cur'
  /\ Now'.lost = lost' /\ Now'.spoilt = spoilt' /\ Now'.mbuf = mbuf' /\ Now'.pend = pend' /\ Now'.fq = fq'
BY DEF Now

\* the node of w is done; its buffers went back to the mempool
Ends(w) ==
  LET c == cur[w]
  IN /\ c.node \in Nodes /\ c.left = <<>> /\ c.away = <<>>
     /\ c.node = DropNode \/ Listed(c) = <<>>
     /\ UNCHANGED <<wd, freelist, blkpool, lost, spoilt, mbuf, fq>>
     /\ cur' = [cur EXCEPT ![w] = NoRun]
     /\ pend' = [pend EXCEPT ![w] = Enqueue(@, c.to)]
     /\ mempool' \in [Buffers -> Nat]
     /\ \A e \in Buffers : mempool'[e] = mempool[e] + Times(e, c.drops)
                                         + Weigh(Holds(Now, e), PairsOf(c.node, Listed(c)))

\* Having no frame is a run of a node.
LEMMA NoRunType == NoRun \in RunType
<1> DEFINE v == <<>>
<1>1. v \in Seq(Buffers) /\ v \in Seq(Nodes \X Buffers) /\ v \in Seq(Workers \X Buffers)
  OBVIOUS
<1>2. NoRun = [node |-> Idle, frame |-> v, left |-> v, to |-> v, away |-> v, drops |-> v,
               queue |-> 0, hand |-> FALSE]
  BY DEF NoRun
<1>3. 0 \in 0 .. TxQueues
  BY CapacityAssumption
<1> HIDE DEF v
<1> QED BY <1>1, <1>2, <1>3 DEF RunType

\* And a sound one.
LEMMA NoRunHolds ==
  ASSUME NEW V, NEW w, V.cur[w] = NoRun
  PROVE  RunInv(V, w)
<1> DEFINE c == NoRun
<1>1. c.node = Idle /\ c.drops = <<>> /\ Len(c.away) = 0
  BY NoRunIs
<1>2. Idle # DropNode /\ Idle \notin TxNodes
  BY DEF Idle, DropNode, TxNodes, N, Tx
<1>3. V.cur[w] = c
  OBVIOUS
<1>4. c = NoRun
  OBVIOUS
<1> HIDE DEF c
<1>5. RunOf(V, w, c)
  <2>1. \A i \in 1 .. Len(c.away) : FALSE
    BY <1>1
  <2>2. c.node # DropNode /\ c.node \notin TxNodes
    BY <1>1, <1>2
  <2> QED BY <1>1, <1>4, <2>1, <2>2 DEF RunOf
<1> QED BY <1>3, <1>5 DEF RunInv

\* Which lists nothing.
LEMMA NothingListed == Listed(NoRun) = <<>>
BY NoRunIs DEF Listed

\* A node that has gone through its frame and enqueues what it listed.
LEMMA EndSound ==
  ASSUME Sound(Now), NEW w \in Workers, Ends(w)
  PROVE  Sound(Now)'
<1> DEFINE V == Now
           V2 == Now'
           c == cur[w]
           R == Lists(V2, w)
           gone == PairsOf(c.node, Listed(c))
           come == <<>>
<1>1. ViewType(V) /\ RunInv(V, w)
  BY DEF Sound
<1>2. /\ V.wd = wd /\ V.pool = mempool /\ V.fl = freelist /\ V.bp = blkpool /\ V.cur = cur
      /\ V.lost = lost /\ V.spoilt = spoilt /\ V.mbuf = mbuf /\ V.pend = pend /\ V.fq = fq
  BY NowIs
<1>3. /\ V2.wd = wd /\ V2.pool = mempool' /\ V2.fl = freelist /\ V2.bp = blkpool
      /\ V2.cur = [cur EXCEPT ![w] = NoRun]
      /\ V2.lost = lost /\ V2.spoilt = spoilt /\ V2.mbuf = mbuf
      /\ V2.pend = [pend EXCEPT ![w] = Enqueue(@, c.to)] /\ V2.fq = fq
  BY NextIs DEF Ends
<1>4. /\ c.node \in Nodes /\ c.left = <<>> /\ c.away = <<>>
      /\ c.node = DropNode \/ Listed(c) = <<>>
      /\ mempool' \in [Buffers -> Nat]
      /\ \A e \in Buffers : mempool'[e] = mempool[e] + Times(e, c.drops)
                                          + Weigh(Holds(V, e), gone)
  BY DEF Ends
<1> HIDE DEF V, V2
<1>5. /\ cur \in [Workers -> RunType] /\ pend \in [Workers -> Seq(FrameType)]
      /\ fq \in [Workers -> Seq(Seq(Buffers))] /\ c \in RunType
  BY <1>1, <1>2 DEF ViewType
<1> HIDE DEF c
<1>6. c.to \in Seq(Pairs) /\ c.drops \in Seq(Buffers) /\ c.frame \in Seq(Buffers)
  BY <1>5, RunTypes
<1>7. V2.cur[w] = NoRun /\ V2.pend[w] = Enqueue(pend[w], c.to) /\ V2.fq[w] = fq[w]
      /\ V2.fl[w] = V.fl[w] /\ V2.bp[w] = V.bp[w]
  BY <1>2, <1>3, <1>5
<1>8. /\ Enqueue(pend[w], c.to) \in Seq(FrameType)
      /\ \A h \in [Pairs -> Nat] :
           Weigh(FrameOf(h), Enqueue(pend[w], c.to)) = Weigh(FrameOf(h), pend[w]) + Weigh(h, c.to)
  BY <1>5, <1>6, EnqueueWeighs
<1>9. ViewType(V2)
  <2>1. V2.cur \in [Workers -> RunType]
    BY <1>3, <1>5, NoRunType
  <2>2. V2.pend \in [Workers -> Seq(FrameType)]
    BY <1>3, <1>5, <1>8
  <2> QED BY <1>1, <1>2, <1>3, <1>4, <2>1, <2>2 DEF ViewType
<1>10. RunInv(V2, w)
  BY <1>7, NoRunHolds
<1>11. OthersSame(V, V2, w)
  BY <1>2, <1>3, <1>5 DEF OthersSame
<1>12. Listed(c) \in Seq(Buffers) /\ gone \in Seq(Pairs) /\ come \in Seq(Pairs) /\ Len(come) = 0
  <2>1. Listed(c) \in Seq(Buffers)
    BY <1>4, <1>6 DEF Listed
  <2>2. gone \in Seq(Pairs)
    BY <1>4, <2>1, PairsOfType
  <2> QED BY <2>1, <2>2
<1>13. \A n : PairsOf(n, <<>>) = <<>>
  BY PairsOfEmpty, Zenon
<1>14. \A h : Weigh(h, <<>>) = 0
  BY WeighEmpty, Zenon
<1>15. R \in ListsType /\ LeftLists(V, w) \in ListsType /\ Lists(V, w) \in ListsType
  BY <1>1, <1>9, <1>10, ListsTypes
<1>16. /\ R.list = <<>> /\ R.to = <<>> /\ R.away = <<>> /\ R.pend = Enqueue(pend[w], c.to) /\ R.fq = fq[w]
       /\ LeftLists(V2, w) = R
  <2>1. Idle # DropNode
    BY DEF Idle, DropNode, N
  <2> QED BY <1>7, <1>13, <2>1, NothingListed, NoRunIs DEF Lists, LeftLists
<1>17. /\ Lists(V, w).list = gone /\ Lists(V, w).to = c.to /\ Lists(V, w).away = <<>>
       /\ Lists(V, w).pend = pend[w] /\ Lists(V, w).fq = fq[w]
  BY <1>2, <1>4 DEF Lists, c
<1>18. /\ LeftLists(V, w).list = <<>> /\ LeftLists(V, w).to = c.to /\ LeftLists(V, w).away = <<>>
       /\ LeftLists(V, w).pend = pend[w] /\ LeftLists(V, w).fq = fq[w]
  <2>1. V.cur[w] = c
    BY <1>2 DEF c
  <2>2. CASE c.node = DropNode
    BY <1>2, <1>4, <1>13, <2>1, <2>2 DEF LeftLists
  <2>3. CASE c.node # DropNode
    <3>1. LeftLists(V, w) = Lists(V, w)
      BY <2>1, <2>3 DEF LeftLists
    <3>2. gone = <<>>
      BY <1>4, <1>13, <2>3
    <3> QED BY <1>17, <3>1, <3>2
  <2> QED BY <2>2, <2>3
<1> HIDE DEF R, gone
<1>19. ASSUME NEW h \in [Pairs -> Nat]
       PROVE  /\ Load(h, Lists(V, w)) = Load(h, R) + Weigh(h, gone)
              /\ Load(h, LeftLists(V, w)) = Load(h, R)
              /\ Load(h, R) \in Nat
  <2> DEFINE to == Weigh(h, c.to)
             p == Weigh(FrameOf(h), pend[w])
             q == Weigh(QueueOf(h), fq[w])
             g == Weigh(h, gone)
             d == Weigh(FrameOf(h), Enqueue(pend[w], c.to))
  <2>1. to \in Nat /\ p \in Nat /\ q \in Nat /\ g \in Nat
    <3>1. /\ Weigh(h, Lists(V, w).list) \in Nat /\ Weigh(h, Lists(V, w).to) \in Nat
          /\ Weigh(FrameOf(h), Lists(V, w).pend) \in Nat /\ Weigh(QueueOf(h), Lists(V, w).fq) \in Nat
      BY <1>15, LoadNat
    <3> QED BY <1>17, <3>1
  <2>2. Load(h, Lists(V, w)) = g + to + 0 + p + q
    BY <1>14, <1>17 DEF Load
  <2>3. Load(h, LeftLists(V, w)) = 0 + to + 0 + p + q
    BY <1>14, <1>18 DEF Load
  <2>4. Load(h, R) = 0 + 0 + 0 + d + q
    BY <1>14, <1>16 DEF Load
  <2>5. d = p + to
    BY <1>8
  <2> HIDE DEF to, p, q, g, d
  <2> QED BY <2>1, <2>2, <2>3, <2>4, <2>5 DEF g
<1>20. Moves(V, V2, w, R, gone, come)
  <2>1. \A h \in [Pairs -> Nat] : Load(h, R) = Load(h, R) + Weigh(h, come)
    BY <1>14, <1>19
  <2> QED BY <1>12, <1>15, <1>19, <2>1 DEF Moves, R
<1>21. Owned(V, V2, w, gone)
  BY <1>2, <1>3 DEF Owned
<1>22. BlocksAt(V2, w)
  <2>1. V2.wd = V.wd /\ V2.spoilt = V.spoilt
    BY <1>2, <1>3
  <2>2. \A h \in [Pairs -> Nat] : Load(h, LeftLists(V2, w)) = Load(h, LeftLists(V, w))
    BY <1>16, <1>19
  <2> QED BY <1>7, <2>1, <2>2, StillBlocks DEF V
<1>23. BuffersMove(V, V2, w, gone, come)
  <2> SUFFICES ASSUME NEW e \in Buffers
               PROVE  mempool'[e] + Ind(e \in V.fl[w]) + Times(e, <<>>) + Ind(e \in lost) + Weigh(Holds(V2, e), come)
                      = mempool[e] + Ind(e \in V.fl[w]) + Times(e, c.drops) + Ind(e \in lost) + Weigh(Holds(V, e), gone)
    <3>1. V.cur[w].drops = c.drops /\ V2.cur[w].drops = <<>>
      BY <1>2, <1>7, NoRunIs DEF c
    <3> QED BY <1>2, <1>3, <1>7, <3>1 DEF BuffersMove
  <2> DEFINE m == mempool[e]
             f == Ind(e \in V.fl[w])
             d == Times(e, c.drops)
             l == Ind(e \in lost)
             g == Weigh(Holds(V, e), gone)
  <2>1. m \in Nat /\ f \in Nat /\ d \in Nat /\ l \in Nat /\ g \in Nat
    <3>1. Holds(V, e) \in [Pairs -> Nat]
      BY <1>1, HoldsType
    <3>2. g \in Nat
      BY <1>12, <3>1, WeighNat
    <3>3. d \in Nat
      BY <1>6, BuffersNat, TimesNat
    <3> QED BY <1>1, <1>2, <3>2, <3>3 DEF ViewType, Ind
  <2>2. Times(e, <<>>) = 0 /\ Weigh(Holds(V2, e), come) = 0
    BY <1>14, TimesEmpty
  <2>3. mempool'[e] = m + d + g
    BY <1>4
  <2> HIDE DEF m, f, d, l, g
  <2>4. (m + d + g) + f + 0 + l + 0 = m + f + d + l + g
    BY <2>1
  <2> QED BY <2>2, <2>3, <2>4 DEF m, f, d, l, g
<1>24. \A i \in 1 .. Len(come) : Fit(V2, w, come[i])
  BY <1>12
<1>25. V.spoilt \subseteq V2.spoilt /\ Sound(V)
  BY <1>2, <1>3 DEF V
<1> HIDE DEF come
<1>26. Sound(V2)
  BY <1>9, <1>10, <1>11, <1>20, <1>21, <1>22, <1>23, <1>24, <1>25, Moved
<1> QED BY <1>26, SoundNext DEF V2

\* What the end of a node changes.
LEMMA EndedIs ==
  ASSUME Sound(Now), NEW w \in Workers, NEW s, IsState(s), s.wd = wd, s.fl = freelist[w], s.bp = blkpool[w],
         s.lost = lost, s.spoilt = spoilt, Ended(w, s)
  PROVE  /\ wd' = wd /\ mempool' = s.pool /\ freelist' = freelist /\ blkpool' = blkpool
         /\ lost' = lost /\ spoilt' = spoilt /\ cur' = [cur EXCEPT ![w] = NoRun]
         /\ pend' = [pend EXCEPT ![w] = Enqueue(@, cur[w].to)]
<1> DEFINE u == WithRun(s, NoRun)
<1>1. RunSet(s, NoRun, u)
  <2> DEFINE c == NoRun
  <2> HIDE DEF c
  <2>1. RunSet(s, c, WithRun(s, c))
    BY RunIs
  <2> QED BY <2>1 DEF c
<1>2. Becomes(w, u) /\ pend' = [pend EXCEPT ![w] = Enqueue(@, cur[w].to)]
  BY DEF Ended, HandOver, WithRun
<1> HIDE DEF u
<1>3. /\ wd' = u.wd /\ mempool' = u.pool /\ lost' = u.lost /\ spoilt' = u.spoilt
      /\ freelist' = [freelist EXCEPT ![w] = u.fl] /\ blkpool' = [blkpool EXCEPT ![w] = u.bp]
      /\ cur' = [cur EXCEPT ![w] = u.c]
  BY <1>2 DEF Becomes
<1>4. freelist \in [Workers -> SUBSET Buffers] /\ blkpool \in [Workers -> [Block -> Nat]]
  BY Zenon DEF Sound, ViewType, Now
<1>5. [freelist EXCEPT ![w] = freelist[w]] = freelist /\ [blkpool EXCEPT ![w] = blkpool[w]] = blkpool
  BY <1>4
<1> QED BY <1>1, <1>2, <1>3, <1>5 DEF RunSet

\* The state a loop begins with.
LEMMA StateIs ==
  ASSUME NEW w
  PROVE  LET s == State(w)
         IN /\ IsState(s) /\ s.w = w /\ s.wd = wd /\ s.pool = mempool /\ s.fl = freelist[w] /\ s.bp = blkpool[w]
            /\ s.c = cur[w] /\ s.lost = lost /\ s.spoilt = spoilt
BY DEF State, IsState

\* nothing was left to be freed
LEMMA EndsPlain ==
  ASSUME Sound(Now), NEW w \in Workers, NEW s, SameButStat(State(w), s), Ended(w, s),
         cur[w].node \in Nodes \ {HugeInputNode}, cur[w].left = <<>>, cur[w].away = <<>>,
         Listed(cur[w]) = <<>>, UNCHANGED <<mbuf, fq>>
  PROVE  Sound(Now)' /\ cur' = [cur EXCEPT ![w] = NoRun]
<1>1. /\ IsState(s) /\ s.wd = wd /\ s.pool = mempool /\ s.fl = freelist[w] /\ s.bp = blkpool[w]
      /\ s.lost = lost /\ s.spoilt = spoilt
  BY StateIs DEF SameButStat
<1>2. /\ wd' = wd /\ mempool' = s.pool /\ freelist' = freelist /\ blkpool' = blkpool
      /\ lost' = lost /\ spoilt' = spoilt /\ cur' = [cur EXCEPT ![w] = NoRun]
      /\ pend' = [pend EXCEPT ![w] = Enqueue(@, cur[w].to)]
  BY <1>1, EndedIs, Zenon
<1>3. cur[w].drops = <<>>
  BY NowIs DEF Sound, RunInv, RunOf
<1>4. mempool \in [Buffers -> Nat]
  BY NowIs, Zenon DEF Sound, ViewType
<1>5. \A e \in Buffers : mempool[e] = mempool[e] + Times(e, cur[w].drops)
                                      + Weigh(Holds(Now, e), PairsOf(cur[w].node, Listed(cur[w])))
  <2> TAKE e \in Buffers
  <2>1. PairsOf(cur[w].node, Listed(cur[w])) = <<>>
    BY PairsOfEmpty, Zenon
  <2>2. Weigh(Holds(Now, e), <<>>) = 0 /\ Times(e, <<>>) = 0
    BY WeighEmpty, TimesEmpty, Zenon
  <2> QED BY <1>3, <1>4, <2>1, <2>2
<1>6. Ends(w)
  BY <1>1, <1>2, <1>4, <1>5 DEF Ends
<1> QED BY <1>2, <1>6, EndSound

\* The end of sf-dpdk-input.
LEMMA RxEnds ==
  ASSUME Sound(Now), NEW w \in Workers, RxDone(w)
  PROVE  Sound(Now)' /\ cur' = [cur EXCEPT ![w] = NoRun]
<1>1. PICK f1, i1, k1, f2, i2, k2 : Ended(w, Count(Count(State(w), f1, i1, k1), f2, i2, k2))
  BY DEF RxDone
<1> DEFINE s0 == State(w)
           s1 == Count(s0, f1, i1, k1)
           s2 == Count(s1, f2, i2, k2)
<1>2. IsState(s0)
  BY StateIs
<1>3. Ended(w, s2)
  BY <1>1
<1> HIDE DEF s0
<1>4. SameButStat(s0, s1)
  BY <1>2, CountIs
<1> HIDE DEF s1
<1>5. SameButStat(s1, s2)
  BY <1>4, CountIs DEF SameButStat
<1> HIDE DEF s2
<1>6. SameButStat(s0, s2)
  BY <1>4, <1>5 DEF SameButStat
<1>7. cur[w].node = RxNode /\ cur[w].left = <<>> /\ cur[w].away = <<>> /\ UNCHANGED <<mbuf, fq>>
  BY DEF RxDone, Finished, RxNode, shared
<1>8. RxNode \in Nodes \ {HugeInputNode} /\ RxNode # DropNode /\ RxNode \notin TxNodes
  BY DEF Nodes, RxNode, HugeInputNode, DropNode, TxNodes, N, Tx
<1>9. Listed(cur[w]) = <<>>
  BY <1>7, <1>8 DEF Listed, DropNode
<1> QED BY <1>3, <1>6, <1>7, <1>8, <1>9, EndsPlain, Zenon DEF s0

\* The end of the nodes that only enqueue.
LEMMA NodeEnds ==
  ASSUME Sound(Now), NEW w \in Workers, NodeDone(w)
  PROVE  Sound(Now)' /\ cur' = [cur EXCEPT ![w] = NoRun]
<1>1. Ended(w, State(w)) /\ cur[w].left = <<>> /\ cur[w].away = <<>> /\ UNCHANGED <<mbuf, fq>>
      /\ cur[w].node \in Plain /\ (cur[w].node \in TxNodes => cur[w].frame = <<>>)
  BY DEF NodeDone, Finished, shared, TxNodes
<1>2. Plain \subseteq Nodes \ {HugeInputNode} /\ DropNode \notin Plain
  BY DEF Plain, Nodes, RxNode, HugeInputNode, DropNode, TxNodes, N, Tx, Before, HandoffNode, HfInputNode, HugeOutNode
<1>3. Listed(cur[w]) = <<>>
  BY <1>1, <1>2 DEF Listed, DropNode
<1>4. SameButStat(State(w), State(w))
  BY StateIs, Zenon DEF SameButStat
<1> QED BY <1>1, <1>2, <1>3, <1>4, EndsPlain, Zenon

\* the buffers bs go back to the mempool
LEMMA FreeIs ==
  ASSUME NEW t, IsState(t), t.pool \in [Buffers -> Nat], NEW bs \in Seq(Buffers)
  PROVE  PoolSet(t, Returned(t.pool, bs), Free(t, bs)) /\ Returned(t.pool, bs) \in [Buffers -> Nat]
         /\ \A e \in Buffers : Returned(t.pool, bs)[e] = t.pool[e] + Times(e, bs)
<1> DEFINE pool == Returned(t.pool, bs)
           u == WithPool(t, pool)
<1>1. \A e \in Buffers : Times(e, bs) \in Nat
  BY BuffersNat, TimesNat
<1>2. pool \in [Buffers -> Nat] /\ \A e \in Buffers : pool[e] = t.pool[e] + Times(e, bs)
  BY <1>1 DEF Returned
<1>3. u = Free(t, bs)
  BY DEF Free, WithPool
<1> HIDE DEF pool
<1>4. PoolSet(t, pool, u)
  BY PoolIs
<1> QED BY <1>2, <1>3, <1>4 DEF pool

\* The end of sf_hugepkt_input.
LEMMA HugeEnds ==
  ASSUME Sound(Now), NEW w \in Workers, HugeDone(w)
  PROVE  Sound(Now)' /\ cur' = [cur EXCEPT ![w] = NoRun]
<1> DEFINE s == Free(State(w), cur[w].drops)
           pool == Returned(mempool, cur[w].drops)
<1>1. /\ Ended(w, s) /\ cur[w].left = <<>> /\ cur[w].away = <<>> /\ UNCHANGED <<mbuf, fq>>
      /\ cur[w].node = HugeInputNode
  BY DEF HugeDone, Finished, shared
<1>2. mempool \in [Buffers -> Nat] /\ cur[w].drops \in Seq(Buffers)
  BY NowIs, RunTypes DEF Sound, ViewType
<1>3. PoolSet(State(w), pool, s) /\ pool \in [Buffers -> Nat]
      /\ \A e \in Buffers : pool[e] = mempool[e] + Times(e, cur[w].drops)
  <2> DEFINE t == State(w)
  <2>1. IsState(t) /\ t.pool = mempool
    BY StateIs
  <2> HIDE DEF t
  <2> QED BY <1>2, <2>1, FreeIs DEF t
<1> HIDE DEF s, pool
<1>4. /\ IsState(s) /\ s.wd = wd /\ s.pool = pool /\ s.fl = freelist[w] /\ s.bp = blkpool[w]
      /\ s.lost = lost /\ s.spoilt = spoilt
  BY <1>3, StateIs DEF PoolSet
<1>5. /\ wd' = wd /\ mempool' = s.pool /\ freelist' = freelist /\ blkpool' = blkpool
      /\ lost' = lost /\ spoilt' = spoilt /\ cur' = [cur EXCEPT ![w] = NoRun]
      /\ pend' = [pend EXCEPT ![w] = Enqueue(@, cur[w].to)]
  BY <1>1, <1>4, EndedIs
<1>6. HugeInputNode \in Nodes /\ Listed(cur[w]) = <<>>
  <2>1. HugeInputNode \in Nodes /\ HugeInputNode # DropNode /\ HugeInputNode \notin TxNodes
    BY DEF Nodes, HugeInputNode, DropNode, TxNodes, N, Tx, Before
  <2> QED BY <1>1, <2>1 DEF Listed, DropNode
<1>7. \A e \in Buffers : pool[e] = mempool[e] + Times(e, cur[w].drops)
                                   + Weigh(Holds(Now, e), PairsOf(cur[w].node, Listed(cur[w])))
  <2> TAKE e \in Buffers
  <2>1. PairsOf(cur[w].node, Listed(cur[w])) = <<>>
    BY <1>6, PairsOfEmpty, Zenon
  <2>2. Weigh(Holds(Now, e), <<>>) = 0
    BY WeighEmpty, Zenon
  <2>3. pool[e] = mempool[e] + Times(e, cur[w].drops) /\ pool[e] \in Nat
    BY <1>3
  <2> QED BY <2>1, <2>2, <2>3
<1>8. Ends(w)
  BY <1>1, <1>3, <1>4, <1>5, <1>6, <1>7 DEF Ends
<1> QED BY <1>5, <1>8, EndSound

\* The end of sf_pkt_drop frees the buffers it collected.
LEMMA DropEnds ==
  ASSUME Sound(Now), NEW w \in Workers, DropDone(w)
  PROVE  Sound(Now)' /\ cur' = [cur EXCEPT ![w] = NoRun]
<1> DEFINE s == Free(State(w), cur[w].frame)
           pool == Returned(mempool, cur[w].frame)
<1>1. /\ Ended(w, s) /\ cur[w].left = <<>> /\ cur[w].away = <<>> /\ UNCHANGED <<mbuf, fq>>
      /\ cur[w].node = DropNode
  BY DEF DropDone, Finished, shared, DropNode
<1>2. mempool \in [Buffers -> Nat] /\ cur[w].frame \in Seq(Buffers)
  BY NowIs, RunTypes, Zenon DEF Sound, ViewType
<1>3. PoolSet(State(w), pool, s) /\ pool \in [Buffers -> Nat]
      /\ \A e \in Buffers : pool[e] = mempool[e] + Times(e, cur[w].frame)
  <2> DEFINE t == State(w)
  <2>1. IsState(t) /\ t.pool = mempool
    BY StateIs
  <2> HIDE DEF t
  <2> QED BY <1>2, <2>1, FreeIs DEF t
<1> HIDE DEF s, pool
<1>4. /\ IsState(s) /\ s.wd = wd /\ s.pool = pool /\ s.fl = freelist[w] /\ s.bp = blkpool[w]
      /\ s.lost = lost /\ s.spoilt = spoilt
  BY <1>3, StateIs DEF PoolSet
<1>5. /\ wd' = wd /\ mempool' = s.pool /\ freelist' = freelist /\ blkpool' = blkpool
      /\ lost' = lost /\ spoilt' = spoilt /\ cur' = [cur EXCEPT ![w] = NoRun]
      /\ pend' = [pend EXCEPT ![w] = Enqueue(@, cur[w].to)]
  BY <1>1, <1>4, EndedIs
<1>6. DropNode \in Nodes /\ DropNode \notin Before /\ DropNode \notin TxNodes /\ DropNode # RxNode /\ DropNode # HugeInputNode
  BY DEF Nodes, HugeInputNode, HandoffNode, HfInputNode, RxNode, DropNode, TxNodes, N, Tx, Before
<1>7. Listed(cur[w]) = cur[w].frame
  BY <1>1, Zenon DEF Listed, DropNode
<1>8. cur[w].drops = <<>>
  BY <1>1, <1>6, NowIs DEF Sound, RunInv, RunOf
<1>9. \A e \in Buffers : pool[e] = mempool[e] + Times(e, cur[w].drops)
                                   + Weigh(Holds(Now, e), PairsOf(cur[w].node, Listed(cur[w])))
  <2> TAKE e \in Buffers
  <2> DEFINE V == Now
             h == Holds(V, e)
  <2>1. h \in [Pairs -> Nat]
    BY HoldsType DEF Sound
  <2>2. \A b \in Buffers : h[<<DropNode, b>>] = Times(e, <<b>>)
    BY <1>6 DEF Holds, Own, Pairs
  <2> HIDE DEF h
  <2>3. Weigh(h, PairsOf(DropNode, cur[w].frame)) = Times(e, cur[w].frame)
    BY <1>2, <1>6, <2>1, <2>2, TimesWeigh, Zenon
  <2>4. Times(e, cur[w].drops) = 0
    BY <1>8, TimesEmpty, Zenon
  <2>5. pool[e] = mempool[e] + Times(e, cur[w].frame) /\ mempool[e] \in Nat
    BY <1>2, <1>3
  <2>6. pool[e] = mempool[e] + 0 + Times(e, cur[w].frame)
    BY <2>5
  <2>7. Weigh(h, PairsOf(cur[w].node, Listed(cur[w]))) = Times(e, cur[w].frame)
    BY <1>1, <1>7, <2>3
  <2> QED BY <2>4, <2>6, <2>7 DEF h
<1>10. Ends(w)
  BY <1>1, <1>3, <1>4, <1>5, <1>6, <1>9 DEF Ends
<1> QED BY <1>5, <1>10, EndSound

-----------------------------------------------------------------------------
(* The loop of a worker: frames change places *)

\* w has what it had, in other lists
Rearranged(w) ==
  LET V == Now
      V2 == Now'
  IN /\ UNCHANGED <<wd, mempool, freelist, blkpool, lost, spoilt, mbuf>>
     /\ OthersSame(V, V2, w)
     /\ cur' \in [Workers -> RunType] /\ pend' \in [Workers -> Seq(FrameType)]
     /\ fq' \in [Workers -> Seq(Seq(Buffers))]
     /\ cur'[w].drops = cur[w].drops /\ RunInv(V2, w)
     /\ \A h \in [Pairs -> Nat] : /\ Load(h, Lists(V2, w)) = Load(h, Lists(V, w))
                                   /\ Load(h, LeftLists(V2, w)) = Load(h, LeftLists(V, w))

\* A step that moves packets between the lists of one worker.
LEMMA RearrangedSound ==
  ASSUME Sound(Now), NEW w \in Workers, Rearranged(w)
  PROVE  Sound(Now)'
<1> DEFINE V == Now
           V2 == Now'
<1>1. /\ UNCHANGED <<wd, mempool, freelist, blkpool, lost, spoilt, mbuf>>
      /\ OthersSame(V, V2, w)
      /\ cur' \in [Workers -> RunType] /\ pend' \in [Workers -> Seq(FrameType)]
      /\ fq' \in [Workers -> Seq(Seq(Buffers))]
      /\ cur'[w].drops = cur[w].drops /\ RunInv(V2, w)
      /\ \A h \in [Pairs -> Nat] : /\ Load(h, Lists(V2, w)) = Load(h, Lists(V, w))
                                    /\ Load(h, LeftLists(V2, w)) = Load(h, LeftLists(V, w))
  BY DEF Rearranged
<1>2. /\ V.wd = wd /\ V.pool = mempool /\ V.fl = freelist /\ V.bp = blkpool /\ V.cur = cur
      /\ V.lost = lost /\ V.spoilt = spoilt /\ V.mbuf = mbuf /\ V.pend = pend /\ V.fq = fq
  BY NowIs
<1>3. /\ V2.wd = wd /\ V2.pool = mempool /\ V2.fl = freelist /\ V2.bp = blkpool /\ V2.cur = cur'
      /\ V2.lost = lost /\ V2.spoilt = spoilt /\ V2.mbuf = mbuf /\ V2.pend = pend' /\ V2.fq = fq'
  BY <1>1, NextIs
<1> HIDE DEF V, V2
<1>4. Sound(V) /\ ViewType(V)
  BY DEF Sound, V
<1>5. ViewType(V2)
  BY <1>1, <1>2, <1>3, <1>4 DEF ViewType
<1>6. Still(V, V2, w)
  BY <1>1, <1>2, <1>3 DEF Still
<1>7. BlocksAt(V2, w)
  BY <1>1, <1>2, <1>3, <1>4, StillBlocks
<1>8. Sound(V2)
  BY <1>1, <1>4, <1>5, <1>6, <1>7, StillSound
<1> QED BY <1>8, SoundNext DEF V2

\* the first frame of w begins
RunBegins(c, n, bs) ==
  /\ c \in RunType /\ c.node = n /\ c.frame = bs /\ c.left = bs /\ c.to = <<>> /\ c.away = <<>>
  /\ c.drops = <<>> /\ c.queue = 0

\* What a worker has when it begins a frame.
LEMMA RunNodeIs ==
  ASSUME NEW n \in Nodes, NEW bs \in Seq(Buffers)
  PROVE  RunBegins(RunNode(n, bs), n, bs)
<1> DEFINE c == RunNode(n, bs)
           r0 == NoRun
           r1 == [r0 EXCEPT !.node = n]
           r2 == [r1 EXCEPT !.frame = bs]
           r3 == [r2 EXCEPT !.left = bs]
<1>1. c = r3
  BY DEF RunNode
<1>2. r0 \in RunType /\ r0.to = <<>> /\ r0.away = <<>> /\ r0.drops = <<>> /\ r0.queue = 0
  BY NoRunType, NoRunIs
<1> HIDE DEF r0
<1>3. r1 \in RunType /\ r1.node = n /\ r1.to = r0.to /\ r1.away = r0.away /\ r1.drops = r0.drops
      /\ r1.queue = r0.queue
  BY <1>2 DEF RunType
<1> HIDE DEF r1
<1>4. r2 \in RunType /\ r2.node = n /\ r2.frame = bs /\ r2.to = r1.to /\ r2.away = r1.away
      /\ r2.drops = r1.drops /\ r2.queue = r1.queue
  BY <1>3, Zenon DEF RunType
<1> HIDE DEF r2
<1>5. r3 \in RunType /\ r3.node = n /\ r3.frame = bs /\ r3.left = bs /\ r3.to = r2.to /\ r3.away = r2.away
      /\ r3.drops = r2.drops /\ r3.queue = r2.queue
  BY <1>4 DEF RunType
<1> HIDE DEF r3, c
<1>6. RunBegins(c, n, bs)
  BY <1>1, <1>2, <1>3, <1>4, <1>5 DEF RunBegins
<1> QED BY <1>6 DEF c

\* and what holds of a run that begins
LEMMA BeginHolds ==
  ASSUME NEW V, NEW w, NEW n \in Nodes, NEW bs \in Seq(Buffers), RunBegins(V.cur[w], n, bs)
  PROVE  /\ RunInv(V, w) /\ Listed(V.cur[w]) = bs
         /\ Lists(V, w) = [list |-> PairsOf(n, bs), to |-> <<>>, away |-> <<>>, pend |-> V.pend[w], fq |-> V.fq[w]]
         /\ LeftLists(V, w) = Lists(V, w)
<1> DEFINE c == V.cur[w]
<1>1. c.node = n /\ c.frame = bs /\ c.left = bs /\ c.to = <<>> /\ c.away = <<>> /\ c.drops = <<>> /\ n # Idle
  BY DEF RunBegins, Nodes, Idle, Before, TxNodes, RxNode, DropNode, HugeOutNode, HandoffNode, HfInputNode, HugeInputNode, N, Tx
<1> HIDE DEF c
<1>2. Listed(c) = bs
  BY <1>1 DEF Listed
<1>3. Len(bs) \in Nat /\ Len(c.frame) - Len(c.left) = 0
  BY <1>1
<1>4. RunOf(V, w, c)
  <2>1. \A i \in 1 .. Len(c.away) : FALSE
    BY <1>1
  <2>2. \A i \in 1 .. Len(c.left) : c.left[i] = c.frame[0 + i]
    BY <1>1
  <2>3. \A i \in 1 .. 0 : FALSE
    OBVIOUS
  <2> DEFINE d == Len(c.frame) - Len(c.left)
  <2>4. d = 0
    BY <1>3
  <2>5. /\ c.node = Idle => c = NoRun
        /\ c.drops # <<>> => c.node = HugeInputNode
        /\ d >= 0 /\ \A i \in 1 .. Len(c.left) : c.left[i] = c.frame[d + i]
    BY <1>1, <2>2, <2>4
  <2>6. \A i \in 1 .. d : FALSE
    BY <2>3, <2>4
  <2> QED BY <2>1, <2>5, <2>6, Zenon DEF RunOf
<1>5. Lists(V, w) = [list |-> PairsOf(n, bs), to |-> <<>>, away |-> <<>>, pend |-> V.pend[w], fq |-> V.fq[w]]
  BY <1>1, <1>2 DEF Lists, c
<1>6. LeftLists(V, w) = Lists(V, w)
  BY <1>1, <1>5 DEF LeftLists, c
<1> QED BY <1>2, <1>4, <1>5, <1>6 DEF RunInv, c

\* an idle worker
LEMMA IdleLists ==
  ASSUME NEW V, NEW w, V.cur[w] = NoRun
  PROVE  /\ Lists(V, w) = [list |-> <<>>, to |-> <<>>, away |-> <<>>, pend |-> V.pend[w], fq |-> V.fq[w]]
         /\ LeftLists(V, w) = Lists(V, w)
<1>1. Idle # DropNode
  BY DEF Idle, DropNode, N
<1>2. PairsOf(Idle, <<>>) = <<>>
  BY PairsOfEmpty, Zenon
<1> QED BY <1>1, <1>2, NothingListed, NoRunIs DEF Lists, LeftLists

\* The next pending frame begins.
LEMMA DispatchSound ==
  ASSUME Sound(Now), NEW w \in Workers, Dispatch(w)
  PROVE  Sound(Now)' /\ cur' = [cur EXCEPT ![w] = cur'[w]] /\ cur'[w].queue = 0 /\ phase[w] = "run"
<1> DEFINE V == Now
           V2 == Now'
           n == Head(pend[w]).node
           bs == Head(pend[w]).bufs
           c == RunNode(n, bs)
<1>1. /\ phase[w] = "run" /\ cur[w].node = Idle /\ pend[w] # <<>>
      /\ cur' = [cur EXCEPT ![w] = c] /\ pend' = [pend EXCEPT ![w] = Tail(@)]
      /\ UNCHANGED <<wd, mempool, freelist, blkpool, lost, spoilt, mbuf, fq>>
  BY DEF Dispatch, shared, mine
<1>2. /\ V.wd = wd /\ V.pool = mempool /\ V.fl = freelist /\ V.bp = blkpool /\ V.cur = cur
      /\ V.lost = lost /\ V.spoilt = spoilt /\ V.mbuf = mbuf /\ V.pend = pend /\ V.fq = fq
  BY NowIs
<1>3. /\ V2.fl = freelist /\ V2.bp = blkpool /\ V2.cur = cur' /\ V2.pend = pend' /\ V2.fq = fq
  BY <1>1, NextIs
<1>4. ViewType(V) /\ RunInv(V, w)
  BY DEF Sound
<1> HIDE DEF V, V2
<1>5. /\ cur \in [Workers -> RunType] /\ pend \in [Workers -> Seq(FrameType)]
      /\ fq \in [Workers -> Seq(Seq(Buffers))]
  BY <1>2, <1>4 DEF ViewType
<1>6. Head(pend[w]) \in FrameType /\ Tail(pend[w]) \in Seq(FrameType) /\ pend[w] \in Seq(FrameType)
      /\ Head(pend[w]) = pend[w][1]
  BY <1>1, <1>5
<1>7. n \in Nodes /\ bs \in Seq(Buffers)
  BY <1>6 DEF FrameType
<1> HIDE DEF n, bs
<1>8. RunBegins(c, n, bs)
  BY <1>7, RunNodeIs, Zenon
<1> HIDE DEF c
<1>9. V.cur[w] = NoRun
  BY <1>1, <1>2, <1>4 DEF RunInv, RunOf
<1>10. V2.cur[w] = c /\ V2.pend[w] = Tail(pend[w]) /\ V2.fq[w] = fq[w]
  BY <1>1, <1>3, <1>5
<1>11. c \in RunType /\ c.drops = <<>> /\ c.queue = 0
  BY <1>8 DEF RunBegins
<1>12. /\ RunInv(V2, w)
       /\ Lists(V2, w) = [list |-> PairsOf(n, bs), to |-> <<>>, away |-> <<>>, pend |-> Tail(pend[w]), fq |-> fq[w]]
       /\ LeftLists(V2, w) = Lists(V2, w)
  BY <1>7, <1>8, <1>10, BeginHolds
<1>13. /\ Lists(V, w) = [list |-> <<>>, to |-> <<>>, away |-> <<>>, pend |-> pend[w], fq |-> fq[w]]
       /\ LeftLists(V, w) = Lists(V, w)
  BY <1>2, <1>9, IdleLists
<1>14. ASSUME NEW h \in [Pairs -> Nat]
       PROVE  Load(h, Lists(V2, w)) = Load(h, Lists(V, w))
  <2> DEFINE g == FrameOf(h)
             m == Weigh(h, PairsOf(n, bs))
             p == Weigh(g, Tail(pend[w]))
             q == Weigh(QueueOf(h), fq[w])
  <2>1. g \in [FrameType -> Nat]
    BY FrameOfType
  <2>2. g[pend[w][1]] = m
    BY <1>6 DEF FrameOf, n, bs
  <2>3. Weigh(h, <<>>) = 0 /\ Weigh(AwayOf(h), <<>>) = 0
    BY WeighEmpty, Zenon
  <2> HIDE DEF g
  <2>4. Weigh(g, pend[w]) = m + p
    BY <1>1, <1>6, <2>1, <2>2, WeighHead
  <2>5. Load(h, Lists(V, w)) = 0 + 0 + 0 + (m + p) + q
    BY <1>13, <2>3, <2>4 DEF Load, g
  <2>6. Load(h, Lists(V2, w)) = m + 0 + 0 + p + q
    BY <1>12, <2>3 DEF Load, g
  <2>7. m \in Nat /\ p \in Nat /\ q \in Nat
    <3>1. PairsOf(n, bs) \in Seq(Pairs)
      BY <1>7, PairsOfType
    <3>2. QueueOf(h) \in [Seq(Buffers) -> Nat] /\ fq[w] \in Seq(Seq(Buffers))
      BY <1>5, QueueOfType
    <3> QED BY <1>6, <2>1, <3>1, <3>2, WeighNat, Zenon
  <2> HIDE DEF m, p, q
  <2> QED BY <2>5, <2>6, <2>7
<1>15. OthersSame(V, V2, w)
  BY <1>1, <1>2, <1>3, <1>5 DEF OthersSame
<1>16. cur' \in [Workers -> RunType] /\ pend' \in [Workers -> Seq(FrameType)] /\ cur'[w] = c /\ cur[w].drops = <<>>
  BY <1>1, <1>2, <1>5, <1>6, <1>9, <1>11, NoRunIs, Zenon
<1>17. Rearranged(w)
  BY <1>1, <1>5, <1>11, <1>12, <1>13, <1>14, <1>15, <1>16 DEF Rearranged, V, V2
<1> QED BY <1>1, <1>11, <1>16, <1>17, RearrangedSound, Zenon

\* A frame of the handoff queue becomes a pending one.
LEMMA PollSound ==
  ASSUME Sound(Now), NEW w \in Workers, Poll(w)
  PROVE  Sound(Now)' /\ cur[w] = NoRun
<1> DEFINE V == Now
           V2 == Now'
           bs == Head(fq[w])
           f == [node |-> HfInputNode, bufs |-> bs]
<1>1. /\ cur[w].node = Idle /\ pend[w] = <<>>
      /\ UNCHANGED <<wd, mempool, freelist, blkpool, lost, spoilt, mbuf, cur>>
      /\ \/ fq[w] = <<>> /\ UNCHANGED <<fq, pend>>
         \/ fq[w] # <<>> /\ pend' = [pend EXCEPT ![w] = <<f>>] /\ fq' = [fq EXCEPT ![w] = Tail(@)]
  BY DEF Poll, mine
<1>2. /\ V.wd = wd /\ V.pool = mempool /\ V.fl = freelist /\ V.bp = blkpool /\ V.cur = cur
      /\ V.lost = lost /\ V.spoilt = spoilt /\ V.mbuf = mbuf /\ V.pend = pend /\ V.fq = fq
  BY NowIs
<1>3. /\ V2.wd = wd /\ V2.pool = mempool /\ V2.fl = freelist /\ V2.bp = blkpool /\ V2.cur = cur
      /\ V2.lost = lost /\ V2.spoilt = spoilt /\ V2.mbuf = mbuf /\ V2.pend = pend' /\ V2.fq = fq'
  BY <1>1, NextIs, Zenon
<1>4. ViewType(V) /\ RunInv(V, w)
  BY DEF Sound
<1> HIDE DEF V, V2
<1>5. /\ cur \in [Workers -> RunType] /\ pend \in [Workers -> Seq(FrameType)]
      /\ fq \in [Workers -> Seq(Seq(Buffers))]
  BY <1>2, <1>4 DEF ViewType
<1>6. V.cur[w] = NoRun /\ V2.cur[w] = NoRun /\ cur[w] = NoRun
  BY <1>1, <1>2, <1>3, <1>4 DEF RunInv, RunOf
<1>7. CASE fq[w] = <<>> /\ UNCHANGED <<fq, pend>>
  <2>1. V2 = V
    BY <1>1, <1>7 DEF V, V2, Now
  <2> QED BY <1>6, <2>1, SoundNext DEF V, V2
<1>8. CASE fq[w] # <<>> /\ pend' = [pend EXCEPT ![w] = <<f>>] /\ fq' = [fq EXCEPT ![w] = Tail(@)]
  <2>1. bs \in Seq(Buffers) /\ Tail(fq[w]) \in Seq(Seq(Buffers)) /\ fq[w] \in Seq(Seq(Buffers)) /\ bs = fq[w][1]
    BY <1>5, <1>8
  <2> HIDE DEF bs
  <2>2. f \in FrameType /\ f.node = HfInputNode /\ f.bufs = bs
    BY <2>1, HandoffNodes DEF FrameType
  <2> HIDE DEF f
  <2>3. V2.pend[w] = <<f>> /\ V2.fq[w] = Tail(fq[w]) /\ pend' \in [Workers -> Seq(FrameType)]
        /\ fq' \in [Workers -> Seq(Seq(Buffers))]
    BY <1>3, <1>5, <1>8, <2>1, <2>2
  <2>4. RunInv(V2, w)
    BY <1>6, NoRunHolds
  <2>5. /\ Lists(V, w) = [list |-> <<>>, to |-> <<>>, away |-> <<>>, pend |-> <<>>, fq |-> fq[w]]
        /\ LeftLists(V, w) = Lists(V, w)
    <3>1. V.pend[w] = <<>> /\ V.fq[w] = fq[w]
      BY <1>1, <1>2
    <3> QED BY <1>6, <3>1, IdleLists
  <2>6. /\ Lists(V2, w) = [list |-> <<>>, to |-> <<>>, away |-> <<>>, pend |-> <<f>>, fq |-> Tail(fq[w])]
        /\ LeftLists(V2, w) = Lists(V2, w)
    BY <1>6, <2>3, IdleLists
  <2>7. ASSUME NEW h \in [Pairs -> Nat]
        PROVE  Load(h, Lists(V2, w)) = Load(h, Lists(V, w))
    <3> DEFINE g == FrameOf(h)
               o == QueueOf(h)
               m == Weigh(h, PairsOf(HfInputNode, bs))
               q == Weigh(o, Tail(fq[w]))
    <3>1. g \in [FrameType -> Nat] /\ o \in [Seq(Buffers) -> Nat]
      BY FrameOfType, QueueOfType
    <3>2. g[f] = m
      BY <2>2 DEF FrameOf
    <3>3. o[fq[w][1]] = m
      BY <2>1 DEF QueueOf
    <3>4. Weigh(h, <<>>) = 0 /\ Weigh(AwayOf(h), <<>>) = 0 /\ Weigh(FrameOf(h), <<>>) = 0
      BY WeighEmpty, Zenon
    <3> HIDE DEF g, o
    <3>5. Weigh(o, fq[w]) = m + q
      BY <1>8, <2>1, <3>1, <3>3, WeighHead, Zenon
    <3>6. Weigh(g, <<f>>) = m
      <4> DEFINE e == <<>>
      <4>1. e \in Seq(FrameType) /\ Append(e, f) = <<f>>
        BY <2>2
      <4>2. Weigh(g, e) = 0
        BY WeighEmpty
      <4> HIDE DEF e
      <4>3. Weigh(g, Append(e, f)) = Weigh(g, e) + g[f]
        BY <2>2, <3>1, <4>1, WeighAppend, Zenon
      <4>4. g[f] \in Nat
        BY <2>2, <3>1
      <4> QED BY <3>2, <4>1, <4>2, <4>3, <4>4
    <3>7. Load(h, Lists(V, w)) = 0 + 0 + 0 + 0 + (m + q)
      BY <2>5, <3>4, <3>5 DEF Load, o
    <3>8. Load(h, Lists(V2, w)) = 0 + 0 + 0 + m + q
      BY <2>6, <3>4, <3>6 DEF Load, g, o
    <3>9. m \in Nat /\ q \in Nat
      <4>1. PairsOf(HfInputNode, bs) \in Seq(Pairs)
        BY <2>1, HandoffNodes, PairsOfType
      <4> QED BY <2>1, <3>1, <4>1, WeighNat
    <3> HIDE DEF m, q
    <3> QED BY <3>7, <3>8, <3>9
  <2>8. OthersSame(V, V2, w)
    <3>1. ASSUME NEW v \in Workers, v # w
          PROVE  pend'[v] = pend[v] /\ fq'[v] = fq[v]
      BY <1>5, <1>8, <3>1
    <3>2. V2.cur = V.cur /\ V2.fl = V.fl /\ V2.bp = V.bp
      BY <1>2, <1>3, Zenon
    <3>3. V.pend = pend /\ V2.pend = pend' /\ V.fq = fq /\ V2.fq = fq'
      BY <1>2, <1>3, Zenon
    <3> QED BY <3>1, <3>2, <3>3, Zenon DEF OthersSame
  <2>9. Rearranged(w)
    BY <1>1, <1>5, <2>3, <2>4, <2>5, <2>6, <2>7, <2>8 DEF Rearranged, V, V2
  <2> QED BY <1>6, <2>9, RearrangedSound, Zenon
<1> QED BY <1>1, <1>7, <1>8, Zenon

-----------------------------------------------------------------------------
(* The tx function *)

\* The tx nodes are none of the others.
LEMMA TxIs ==
  ASSUME NEW i \in Intf
  PROVE  /\ Tx(i) \in Nodes /\ Tx(i) \in TxNodes /\ Tx(i) \notin Before /\ Tx(i) \notin Gathered
         /\ Tx(i) # Idle /\ Tx(i) # RxNode /\ Tx(i) # DropNode /\ Tx(i) # HugeInputNode
         /\ Tx(i) # HugeOutNode /\ Tx(i) # HandoffNode /\ Tx(i) # HfInputNode
BY DEF Nodes, RxNode, DropNode, TxNodes, N, Tx, Before, HandoffNode, HugeInputNode, HfInputNode, Gathered,
     HugeOutNode, Idle

\* Taking the lock of a tx queue moves nothing.
LEMMA TxLockSound ==
  ASSUME Sound(Now), NEW w \in Workers, NEW i \in Intf, NEW q \in 1 .. TxQueues,
         cur[w].node = Tx(i), cur' = [cur EXCEPT ![w].queue = q],
         UNCHANGED <<wd, mempool, freelist, blkpool, lost, spoilt, mbuf, pend, fq>>
  PROVE  Sound(Now)' /\ cur'[w].queue = q /\ cur'[w].node = Tx(i) /\ cur' = [cur EXCEPT ![w] = cur'[w]]
<1> DEFINE V == Now
           V2 == Now'
           c == cur[w]
           d == [c EXCEPT !.queue = q]
<1>1. Tx(i) # Idle /\ Tx(i) # DropNode /\ Tx(i) # HugeInputNode
  BY TxIs
<1>2. /\ V.wd = wd /\ V.pool = mempool /\ V.fl = freelist /\ V.bp = blkpool /\ V.cur = cur
      /\ V.lost = lost /\ V.spoilt = spoilt /\ V.mbuf = mbuf /\ V.pend = pend /\ V.fq = fq
  BY NowIs
<1>3. /\ V2.wd = wd /\ V2.mbuf = mbuf /\ V2.fl = freelist /\ V2.bp = blkpool /\ V2.cur = cur' /\ V2.pend = pend
      /\ V2.fq = fq
  BY NextIs
<1>4. ViewType(V) /\ RunInv(V, w)
  BY DEF Sound
<1> HIDE DEF V, V2
<1>5. /\ cur \in [Workers -> RunType] /\ pend \in [Workers -> Seq(FrameType)]
      /\ fq \in [Workers -> Seq(Seq(Buffers))] /\ c \in RunType
  BY <1>2, <1>4 DEF ViewType
<1>6. cur' = [cur EXCEPT ![w] = d]
  BY <1>5
<1> HIDE DEF c
<1>7. /\ d \in RunType /\ d.node = c.node /\ d.frame = c.frame /\ d.left = c.left /\ d.to = c.to
      /\ d.away = c.away /\ d.drops = c.drops /\ d.queue = q
  <2>1. q \in 0 .. TxQueues
    OBVIOUS
  <2>2. d \in RunType
    BY <1>5, <2>1 DEF RunType
  <2>3. /\ d.node = c.node /\ d.frame = c.frame /\ d.left = c.left /\ d.to = c.to
        /\ d.away = c.away /\ d.drops = c.drops /\ d.queue = q
    BY <1>5 DEF RunType
  <2> QED BY <2>2, <2>3
<1> HIDE DEF d
<1>8. cur'[w] = d /\ cur' \in [Workers -> RunType] /\ c.node = Tx(i)
  BY <1>5, <1>6, <1>7 DEF c
<1>9. Listed(d) = Listed(c)
  BY <1>7 DEF Listed
<1>10. Lists(V2, w) = Lists(V, w) /\ LeftLists(V2, w) = LeftLists(V, w)
  <2>1. V.cur[w] = c /\ V2.cur[w] = d /\ V.pend[w] = V2.pend[w] /\ V.fq[w] = V2.fq[w]
    BY <1>2, <1>3, <1>8 DEF c
  <2> QED BY <1>7, <1>9, <2>1 DEF Lists, LeftLists
<1>11. RunInv(V2, w)
  <2>1. RunOf(V, w, c)
    BY <1>2, <1>4, Zenon DEF RunInv, c
  <2>2. RunOf(V2, w, d)
    <3>1. \A x : Own(V2, x) = Own(V, x)
      BY <1>2, <1>3 DEF Own
    <3> DEFINE done == Len(c.frame) - Len(c.left)
    <3>2. /\ c.drops # <<>> => c.node = HugeInputNode
          /\ \A j \in 1 .. Len(c.away) :
               /\ c.away[j][1] # w
               /\ sf_pkt_get_worker_index(V.mbuf[c.away[j][2]].pkt) = c.away[j][1]
          /\ c.node = DropNode \/ c.node \in TxNodes =>
               done >= 0 /\ \A j \in 1 .. Len(c.left) : c.left[j] = c.frame[done + j]
          /\ c.node \in TxNodes =>
               \A j \in 1 .. done : Bufs(V.mbuf[c.frame[j]].segs) = Own(V, <<c.node, c.frame[j]>>)
      BY <2>1 DEF RunOf
    <3>3. V2.mbuf = V.mbuf /\ d.node # Idle
      BY <1>1, <1>2, <1>3, <1>7, <1>8
    <3>4. \A j \in 1 .. Len(d.away) :
            /\ d.away[j][1] # w
            /\ sf_pkt_get_worker_index(V2.mbuf[d.away[j][2]].pkt) = d.away[j][1]
      BY <1>7, <3>2, <3>3
    <3>5. d.node \in TxNodes =>
            \A j \in 1 .. done : Bufs(V2.mbuf[d.frame[j]].segs) = Own(V2, <<d.node, d.frame[j]>>)
      BY <1>7, <3>1, <3>2, <3>3
    <3>6. Len(d.frame) - Len(d.left) = done
      BY <1>7, Zenon
    <3>7. d.node = DropNode \/ d.node \in TxNodes =>
            done >= 0 /\ \A j \in 1 .. Len(d.left) : d.left[j] = d.frame[done + j]
      BY <1>7, <3>2
    <3>8. d.drops # <<>> => d.node = HugeInputNode
      BY <1>7, <3>2
    <3> HIDE DEF done
    <3> QED BY <3>3, <3>4, <3>5, <3>6, <3>7, <3>8, Zenon DEF RunOf
  <2>3. V2.cur[w] = d
    BY <1>3, <1>8
  <2> QED BY <2>2, <2>3 DEF RunInv
<1>12. OthersSame(V, V2, w)
  BY <1>2, <1>3, <1>5, <1>6 DEF OthersSame
<1>13. cur'[w].drops = cur[w].drops
  BY <1>7, <1>8 DEF c
<1>14. Rearranged(w)
  BY <1>5, <1>8, <1>10, <1>11, <1>12, <1>13 DEF Rearranged, V, V2
<1> QED BY <1>6, <1>7, <1>8, <1>14, RearrangedSound

\* A frame in two parts.
LEMMA FrameParts ==
  ASSUME NEW s \in Seq(Buffers), NEW n \in Nat, n <= Len(s)
  PROVE  /\ SubSeq(s, n + 1, Len(s)) \in Seq(Buffers) /\ Len(SubSeq(s, n + 1, Len(s))) = Len(s) - n
         /\ \A j \in 1 .. Len(s) - n : SubSeq(s, n + 1, Len(s))[j] = s[n + j]
         /\ SubSeq(s, 1, n) \in Seq(Buffers) /\ Len(SubSeq(s, 1, n)) = n
         /\ \A j \in 1 .. n : SubSeq(s, 1, n)[j] = s[j]
<1>1. /\ SubSeq(s, n + 1, Len(s)) \in Seq(Buffers) /\ Len(SubSeq(s, n + 1, Len(s))) = Len(s) - n
      /\ \A j \in 1 .. Len(s) - n : SubSeq(s, n + 1, Len(s))[j] = s[n + j]
  OBVIOUS
<1>2. /\ SubSeq(s, 1, n) \in Seq(Buffers) /\ Len(SubSeq(s, 1, n)) = n
      /\ \A j \in 1 .. n : SubSeq(s, 1, n)[j] = s[j]
  OBVIOUS
<1> QED BY <1>1, <1>2

\* The loops of the tx function prepare the segments of the next packets.
LEMMA TxStepSound ==
  ASSUME Sound(Now), NEW w \in Workers, NEW i \in Intf, NEW k \in Nat, cur[w].node = Tx(i),
         k <= Len(cur[w].left), TxStep(w, k)
  PROVE  Sound(Now)' /\ RunsOn(w) /\ mbuf' = [b \in Buffers |-> mbuf'[b]]
<1> DEFINE V == Now
           V2 == Now'
           c == cur[w]
           q == SubSeq(c.left, k + 1, Len(c.left))
           p == SubSeq(c.left, 1, k)
           d == [c EXCEPT !.left = q]
           n == Tx(i)
           ps == PairsOf(n, c.frame)
           R == [list |-> <<>>, to |-> c.to, away |-> c.away, pend |-> pend[w], fq |-> fq[w]]
<1>1. /\ n \in Nodes /\ n \in TxNodes /\ n \notin Before /\ n # Idle /\ n # RxNode /\ n # DropNode /\ n # HugeInputNode
      /\ n # HugeOutNode /\ n # HandoffNode /\ n # HfInputNode
  BY TxIs
<1>2. /\ V.wd = wd /\ V.pool = mempool /\ V.fl = freelist /\ V.bp = blkpool /\ V.cur = cur
      /\ V.lost = lost /\ V.spoilt = spoilt /\ V.mbuf = mbuf /\ V.pend = pend /\ V.fq = fq
  BY NowIs
<1>3. /\ V2.wd = wd /\ V2.pool = mempool /\ V2.fl = freelist /\ V2.bp = blkpool /\ V2.cur = cur'
      /\ V2.lost = lost /\ V2.spoilt = spoilt /\ V2.mbuf = mbuf' /\ V2.pend = pend /\ V2.fq = fq
  BY NextIs DEF TxStep, shared, mine
<1>4. ViewType(V) /\ RunInv(V, w)
  BY DEF Sound
<1>5. mbuf' = [b \in Buffers |-> IF b \in Range(p) THEN Validate(b) ELSE mbuf[b]]
  BY DEF TxStep
<1>6. cur' = [cur EXCEPT ![w].left = SubSeq(@, k + 1, Len(@))]
  BY DEF TxStep
<1> HIDE DEF V, V2, n
<1>7. /\ cur \in [Workers -> RunType] /\ pend \in [Workers -> Seq(FrameType)]
      /\ fq \in [Workers -> Seq(Seq(Buffers))] /\ c \in RunType /\ wd \in [Buffers -> WdType]
      /\ \A b \in Buffers : mbuf[b].segs \in Seq(SegType)
  BY <1>2, <1>4 DEF ViewType
<1>8. cur' = [cur EXCEPT ![w] = d]
  BY <1>6, <1>7
<1>9. c.node = n /\ k <= Len(c.left)
  BY DEF n
<1> HIDE DEF c
<1>10. /\ c.left \in Seq(Buffers) /\ c.frame \in Seq(Buffers) /\ c.to \in Seq(Pairs) /\ c.away \in Seq(Away)
  BY <1>7, RunTypes
<1> DEFINE l == Len(c.left)
           f == Len(c.frame)
<1>11. /\ q \in Seq(Buffers) /\ Len(q) = l - k /\ \A j \in 1 .. l - k : q[j] = c.left[k + j]
       /\ p \in Seq(Buffers) /\ Len(p) = k /\ \A j \in 1 .. k : p[j] = c.left[j]
       /\ l \in Nat /\ f \in Nat
  BY <1>9, <1>10, FrameParts
<1> HIDE DEF q, p, l, f
<1>12. \A b : b \in Range(p) => b \in Buffers /\ \E j \in 1 .. k : c.left[j] = b
  <2> TAKE b
  <2> HAVE b \in Range(p)
  <2>1. PICK j \in DOMAIN p : p[j] = b
    BY DEF Range
  <2>2. j \in 1 .. k
    <3>1. DOMAIN p = 1 .. k
      BY <1>11
    <3> QED BY <2>1, <3>1
  <2>3. c.left[j] = b
    BY <1>11, <2>1, <2>2
  <2>4. b \in Buffers
    BY <1>11, <2>1
  <2> QED BY <2>2, <2>3, <2>4
<1>13. /\ d \in RunType /\ d.node = n /\ d.frame = c.frame /\ d.left = q /\ d.to = c.to
       /\ d.away = c.away /\ d.drops = c.drops /\ d.queue = c.queue
  <2>1. d \in RunType
    BY <1>7, <1>11 DEF RunType
  <2>2. /\ d.node = c.node /\ d.frame = c.frame /\ d.left = q /\ d.to = c.to
        /\ d.away = c.away /\ d.drops = c.drops /\ d.queue = c.queue
    BY <1>7 DEF RunType
  <2> QED BY <1>9, <2>1, <2>2, Zenon
<1> HIDE DEF d
<1>14. cur'[w] = d /\ cur' \in [Workers -> RunType] /\ V.cur[w] = c /\ V2.cur[w] = d
  BY <1>2, <1>3, <1>7, <1>8, <1>13 DEF c
<1>15. /\ f >= l /\ \A j \in 1 .. l : c.left[j] = c.frame[(f - l) + j]
       /\ \A j \in 1 .. f - l : Bufs(mbuf[c.frame[j]].segs) = Own(V, <<n, c.frame[j]>>)
       /\ c.drops = <<>>
       /\ \A j \in 1 .. Len(c.away) :
            /\ c.away[j][1] # w
            /\ sf_pkt_get_worker_index(mbuf[c.away[j][2]].pkt) = c.away[j][1]
  <2>1. RunOf(V, w, c)
    BY <1>4, <1>14 DEF RunInv
  <2> DEFINE done == Len(c.frame) - Len(c.left)
  <2>2. /\ done >= 0 /\ \A j \in 1 .. Len(c.left) : c.left[j] = c.frame[done + j]
        /\ \A j \in 1 .. done : Bufs(mbuf[c.frame[j]].segs) = Own(V, <<n, c.frame[j]>>)
        /\ c.drops = <<>>
        /\ \A j \in 1 .. Len(c.away) :
            /\ c.away[j][1] # w
            /\ sf_pkt_get_worker_index(mbuf[c.away[j][2]].pkt) = c.away[j][1]
    BY <1>1, <1>2, <1>9, <2>1 DEF RunOf
  <2>3. done = f - l
    BY DEF f, l
  <2>5. done >= 0
    BY <2>2
  <2>4. f >= l
    <3> HIDE DEF done
    <3> QED BY <1>11, <2>3, <2>5
  <2> QED BY <2>2, <2>3, <2>4 DEF f, l
<1>16. ps \in Seq(Pairs) /\ Len(ps) = f /\ \A j \in 1 .. f : ps[j] = <<n, c.frame[j]>> /\ c.frame[j] \in Buffers
  BY <1>1, <1>10, PairsOfType DEF f
<1> HIDE DEF ps
<1>17. \A j \in 1 .. f : Fit(V, w, <<n, c.frame[j]>>)
  <2> TAKE j \in 1 .. f
  <2> DEFINE x == ps[j]
  <2>1. x = <<n, c.frame[j]>> /\ x \in Pairs
    BY <1>11, <1>16
  <2>2. Weigh(One(x), ps) # 0
    BY <1>16, WeighIn
  <2> HIDE DEF x
  <2>3. Load(One(x), Lists(V, w)) # 0
    <3>1. Lists(V, w) \in ListsType
      BY <1>4, ListsTypes
    <3>2. Lists(V, w).list = ps
      <4>1. Listed(c) = c.frame
        BY <1>1, <1>9 DEF Listed
      <4> QED BY <1>9, <1>14, <4>1 DEF Lists, ps
    <3>3. One(x) \in [Pairs -> Nat]
      BY <2>1, OneType
    <3> DEFINE L == Lists(V, w)
               h == One(x)
    <3>4. /\ Weigh(h, L.list) \in Nat /\ Weigh(h, L.to) \in Nat /\ Weigh(AwayOf(h), L.away) \in Nat
          /\ Weigh(FrameOf(h), L.pend) \in Nat /\ Weigh(QueueOf(h), L.fq) \in Nat
      BY <3>1, <3>3, LoadNat
    <3>5. Weigh(h, L.list) # 0
      BY <2>2, <3>2
    <3> HIDE DEF L, h
    <3>6. Load(h, L) # 0
      BY <3>4, <3>5 DEF Load
    <3> QED BY <3>6 DEF L, h
  <2>4. Fit(V, w, x)
    BY <2>1, <2>3 DEF Sound, AllFit, V
  <2> QED BY <2>1, <2>4
<1>18. ASSUME NEW b \in Buffers, Fit(V, w, <<n, b>>)
       PROVE  /\ mbuf[b] \in MbufType /\ wd[b].huge \in BOOLEAN /\ wd[b].subs \in Seq(SegType)
              /\ (wd[b].huge => wd[b].subs # <<>> /\ wd[b].subs[1].buf = b)
              /\ Validate(b) \in MbufType /\ Validate(b).pkt = mbuf[b].pkt
              /\ Bufs(Validate(b).segs) = Own(V, <<n, b>>)
              /\ (wd[b].handed => sf_pkt_get_worker_index(mbuf[b].pkt) = w)
  <2>1. /\ mbuf[b] \in MbufType
        /\ (wd[b].huge => wd[b].subs # <<>> /\ wd[b].subs[1].buf = b)
        /\ (wd[b].handed => sf_pkt_get_worker_index(mbuf[b].pkt) = w)
    BY <1>1, <1>2, <1>18 DEF Fit
  <2>2. wd[b].huge \in BOOLEAN /\ wd[b].subs \in Seq(SegType) /\ wd[b].len \in Int
    BY <1>7 DEF WdType
  <2> DEFINE v == IF wd[b].huge THEN wd[b].subs ELSE <<[buf |-> b, len |-> wd[b].len]>>
  <2>3. v \in Seq(SegType) /\ Bufs(v) = Own(V, <<n, b>>)
    <3>1. CASE wd[b].huge
      BY <1>1, <1>2, <2>2, <3>1 DEF Own
    <3>2. CASE ~wd[b].huge
      <4> DEFINE y == [buf |-> b, len |-> wd[b].len]
      <4>1. y \in SegType /\ y.buf = b
        BY <2>2 DEF SegType
      <4> HIDE DEF y
      <4>2. v = <<y>>
        BY <3>2 DEF y
      <4>3. <<y>> \in Seq(SegType) /\ Bufs(<<y>>) = <<b>>
        BY <4>1 DEF Bufs
      <4>4. Own(V, <<n, b>>) = <<b>>
        BY <1>1, <1>2, <3>2 DEF Own
      <4> HIDE DEF v
      <4> QED BY <4>2, <4>3, <4>4
    <3> QED BY <3>1, <3>2, <2>2
  <2>4. Validate(b) = [mbuf[b] EXCEPT !.segs = v]
    BY DEF Validate
  <2> HIDE DEF v
  <2>5. Validate(b) \in MbufType /\ Validate(b).pkt = mbuf[b].pkt /\ Validate(b).segs = v
    BY <2>1, <2>3, <2>4 DEF MbufType
  <2> QED BY <2>1, <2>2, <2>3, <2>5
<1>19. \A j \in 1 .. k : c.left[j] \in Buffers /\ Fit(V, w, <<n, c.left[j]>>) /\ (\E m \in 1 .. f : c.frame[m] = c.left[j])
  <2> TAKE j \in 1 .. k
  <2>1. j \in 1 .. l /\ (f - l) + j \in 1 .. f
    BY <1>9, <1>11, <1>15 DEF l
  <2>2. c.left[j] = c.frame[(f - l) + j]
    BY <1>15, <2>1
  <2> QED BY <1>16, <1>17, <2>1, <2>2
<1>20. ASSUME NEW b \in Buffers
       PROVE  \/ mbuf'[b] = mbuf[b] /\ b \notin Range(p)
              \/ b \in Range(p) /\ mbuf'[b] = Validate(b) /\ Fit(V, w, <<n, b>>) /\ \E m \in 1 .. f : c.frame[m] = b
  <2>1. CASE b \in Range(p)
    <3>1. PICK j \in 1 .. k : c.left[j] = b
      BY <1>12, <2>1
    <3> QED BY <1>5, <1>19, <2>1, <3>1, Zenon
  <2>2. CASE b \notin Range(p)
    BY <1>5, <2>2
  <2> QED BY <2>1, <2>2
<1>21. \A x : x[1] # RxNode => Own(V2, x) = Own(V, x)
  BY <1>2, <1>3 DEF Own
<1>22. ViewType(V2)
  <2>1. \A b \in Buffers : mbuf'[b].segs \in Seq(SegType)
    <3> TAKE b \in Buffers
    <3>1. CASE mbuf'[b] = mbuf[b]
      BY <1>7, <3>1
    <3>2. CASE mbuf'[b] = Validate(b) /\ Fit(V, w, <<n, b>>)
      BY <1>18, <3>2 DEF MbufType
    <3> QED BY <1>20, <3>1, <3>2
  <2> QED BY <1>2, <1>3, <1>4, <1>14, <2>1, Zenon DEF ViewType
<1>23. ASSUME NEW j \in 1 .. f
       PROVE  Fit(V2, w, <<n, c.frame[j]>>)
  <2> DEFINE b == c.frame[j]
  <2>1. b \in Buffers /\ Fit(V, w, <<n, b>>)
    BY <1>16, <1>17
  <2> HIDE DEF b
  <2>2. mbuf'[b] \in MbufType /\ mbuf'[b].pkt = mbuf[b].pkt
    BY <1>18, <1>20, <2>1
  <2>3. /\ (wd[b].huge => wd[b].subs # <<>> /\ wd[b].subs[1].buf = b)
        /\ (wd[b].handed => sf_pkt_get_worker_index(mbuf[b].pkt) = w)
    BY <1>18, <2>1, Zenon
  <2>4. Fit(V2, w, <<n, b>>)
    BY <1>1, <1>3, <2>2, <2>3 DEF Fit
  <2> QED BY <2>4 DEF b
<1>24. RunInv(V2, w)
  <2> DEFINE e == f - (l - k)
  <2>10. k <= l
    BY <1>9 DEF l
  <2>1. e \in Nat /\ e = (f - l) + k
    BY <1>11, <1>15, <2>10
  <2>2. ASSUME NEW j \in 1 .. l - k
        PROVE  q[j] = c.frame[e + j]
    <3>1. k + j \in 1 .. l /\ (f - l) + (k + j) = e + j
      BY <1>11, <2>1
    <3> QED BY <1>11, <1>15, <3>1
  <2>3. ASSUME NEW j \in 1 .. e
        PROVE  Bufs(mbuf'[c.frame[j]].segs) = Own(V2, <<n, c.frame[j]>>)
    <3> DEFINE b == c.frame[j]
    <3>1. j \in 1 .. f
      <4>1. e <= f
        BY <1>9, <1>11, <2>1 DEF l
      <4> QED BY <1>11, <2>1, <4>1
    <3>2. b \in Buffers /\ Fit(V, w, <<n, b>>) /\ Own(V2, <<n, b>>) = Own(V, <<n, b>>)
      BY <1>1, <1>16, <1>17, <1>21, <3>1
    <3>3. CASE b \in Range(p)
      <4> HIDE DEF b
      <4>1. mbuf'[b] = Validate(b)
        BY <1>20, <3>2, <3>3
      <4>2. Bufs(Validate(b).segs) = Own(V, <<n, b>>)
        BY <1>18, <3>2
      <4> QED BY <3>2, <4>1, <4>2 DEF b
    <3>4. CASE b \notin Range(p)
      <4>1. j \in 1 .. f - l
        <5>1. CASE j <= f - l
          BY <1>11, <1>15, <5>1
        <5>2. CASE j > f - l
          <6> DEFINE m == j - (f - l)
          <6>1. m \in 1 .. k /\ m \in 1 .. l /\ (f - l) + m = j
            <7> DEFINE g == f - l
            <7>1. j \in Int /\ j <= g + k /\ g \in Int /\ j > g /\ k \in Int /\ l \in Int /\ k <= l
              BY <1>11, <2>1, <2>10, <5>2
            <7> HIDE DEF g
            <7>2. j - g \in 1 .. k /\ j - g \in 1 .. l /\ g + (j - g) = j
              BY <7>1
            <7> QED BY <7>2 DEF g, m
          <6> HIDE DEF m
          <6>2. p[m] = c.left[m] /\ c.left[m] = b /\ m \in DOMAIN p
            <7>1. c.left[m] = c.frame[(f - l) + m]
              BY <1>15, <6>1
            <7>2. c.left[m] = b
              BY <6>1, <7>1
            <7>3. p[m] = c.left[m] /\ m \in DOMAIN p
              BY <1>11, <6>1
            <7> QED BY <7>2, <7>3
          <6>3. b \in Range(p)
            BY <6>2 DEF Range
          <6> QED BY <3>4, <6>3
        <5> QED BY <1>11, <2>1, <5>1, <5>2
      <4>2. mbuf'[b] = mbuf[b]
        <5> HIDE DEF b
        <5> QED BY <1>20, <3>2, <3>4
      <4>3. Bufs(mbuf[b].segs) = Own(V, <<n, b>>)
        BY <1>15, <4>1
      <4> HIDE DEF b
      <4> QED BY <3>2, <4>2, <4>3 DEF b
    <3> QED BY <3>3, <3>4
  <2>4. ASSUME NEW j \in 1 .. Len(d.away)
        PROVE  /\ d.away[j][1] # w
               /\ sf_pkt_get_worker_index(V2.mbuf[d.away[j][2]].pkt) = d.away[j][1]
    <3> DEFINE b == c.away[j][2]
    <3>1. j \in 1 .. Len(c.away) /\ d.away[j] = c.away[j]
      BY <1>13
    <3>2. b \in Buffers
      BY <1>10, <3>1 DEF Away
    <3>3. mbuf'[b].pkt = mbuf[b].pkt
      <4> HIDE DEF b
      <4> QED BY <1>18, <1>20, <3>2, Zenon
    <3> QED BY <1>3, <1>15, <3>1, <3>3, Zenon
  <2>5. Len(d.frame) - Len(d.left) = e
    BY <1>11, <1>13 DEF f
  <2>6. /\ d.node = n /\ d.drops = <<>> /\ V2.mbuf = mbuf' /\ Len(d.left) = l - k
        /\ d.left = q /\ d.frame = c.frame
    BY <1>3, <1>11, <1>13, <1>15
  <2> HIDE DEF e
  <2>7. RunOf(V2, w, d)
    <3> DEFINE done == Len(d.frame) - Len(d.left)
    <3>1. done = e
      BY <2>5
    <3>2. /\ d.node = Idle => d = NoRun
          /\ d.drops # <<>> => d.node = HugeInputNode
      BY <1>1, <2>6
    <3>3. done >= 0 /\ \A j \in 1 .. Len(d.left) : d.left[j] = d.frame[done + j]
      BY <2>1, <2>2, <2>6, <3>1
    <3>4. \A j \in 1 .. done : Bufs(V2.mbuf[d.frame[j]].segs) = Own(V2, <<d.node, d.frame[j]>>)
      BY <2>3, <2>6, <3>1
    <3> QED BY <2>4, <3>2, <3>3, <3>4, Zenon DEF RunOf
  <2> QED BY <1>14, <2>7 DEF RunInv
<1>25. OthersSame(V, V2, w)
  BY <1>2, <1>3, <1>7, <1>8 DEF OthersSame
<1>26. /\ Lists(V, w).list = ps /\ Lists(V, w).to = c.to /\ Lists(V, w).away = c.away
       /\ Lists(V, w).pend = pend[w] /\ Lists(V, w).fq = fq[w]
       /\ Lists(V2, w) = Lists(V, w) /\ LeftLists(V, w) = Lists(V, w) /\ LeftLists(V2, w) = Lists(V2, w)
  <2>1. Listed(c) = c.frame /\ Listed(d) = c.frame
    BY <1>1, <1>9, <1>13 DEF Listed
  <2> QED BY <1>1, <1>2, <1>3, <1>9, <1>13, <1>14, <2>1 DEF Lists, LeftLists, ps
<1>27. R \in ListsType
  <2> DEFINE v == <<>>
  <2>1. v \in Seq(Pairs)
    OBVIOUS
  <2>2. R = [list |-> v, to |-> c.to, away |-> c.away, pend |-> pend[w], fq |-> fq[w]]
    OBVIOUS
  <2> HIDE DEF v, R
  <2> QED BY <1>7, <1>10, <2>1, <2>2 DEF ListsType
<1>28. Moves(V, V2, w, R, ps, ps)
  <2> SUFFICES ASSUME NEW h \in [Pairs -> Nat]
               PROVE  Load(h, Lists(V, w)) = Load(h, R) + Weigh(h, ps)
    BY <1>16, <1>26, <1>27 DEF Moves
  <2> DEFINE a == Weigh(h, ps)
             a1 == Weigh(h, c.to)
             a2 == Weigh(AwayOf(h), c.away)
             a3 == Weigh(FrameOf(h), pend[w])
             a4 == Weigh(QueueOf(h), fq[w])
  <2>1. a \in Nat /\ a1 \in Nat /\ a2 \in Nat /\ a3 \in Nat /\ a4 \in Nat
    <3>1. Lists(V, w) \in ListsType
      BY <1>4, ListsTypes
    <3> QED BY <1>26, <3>1, LoadNat
  <2>2. Load(h, Lists(V, w)) = a + a1 + a2 + a3 + a4
    BY <1>26 DEF Load
  <2>3. Load(h, R) = 0 + a1 + a2 + a3 + a4
    <3>1. Weigh(h, <<>>) = 0
      BY WeighEmpty, Zenon
    <3> QED BY <3>1 DEF Load
  <2> HIDE DEF a, a1, a2, a3, a4
  <2>4. a + a1 + a2 + a3 + a4 = (0 + a1 + a2 + a3 + a4) + a
    BY <2>1
  <2> QED BY <2>2, <2>3, <2>4 DEF a
<1> HIDE DEF R
<1>29. Owned(V, V2, w, ps)
  <2> SUFFICES ASSUME NEW e \in Buffers, V2.wd[e] # V.wd[e] \/ V2.mbuf[e] # V.mbuf[e]
               PROVE  V.pool[e] + Weigh(Holds(V, e), ps) >= 1
    BY DEF Owned
  <2>1. mbuf'[e] # mbuf[e]
    BY <1>2, <1>3
  <2>2. PICK m \in 1 .. f : c.frame[m] = e
    BY <1>20, <2>1
  <2>3. ps[m] = <<n, e>> /\ Fit(V, w, <<n, e>>) /\ m \in 1 .. Len(ps) /\ <<n, e>> \in Pairs
    BY <1>16, <1>17, <1>1, <2>2 DEF Pairs
  <2> DEFINE h == Holds(V, e)
             x == <<n, e>>
  <2>4. h \in [Pairs -> Nat]
    BY <1>4, HoldsType
  <2>5. h[x] >= 1
    <3>1. x[2] = e
      OBVIOUS
    <3> HIDE DEF x
    <3> QED BY <1>4, <2>3, <3>1, OwnHead DEF x
  <2> HIDE DEF h, x
  <2>6. Weigh(h, ps) >= h[x] /\ Weigh(h, ps) \in Nat
    BY <1>16, <2>3, <2>4, WeighAtLeast, WeighNat, Zenon DEF x
  <2>7. V.pool[e] \in Nat /\ h[x] \in Nat
    BY <1>4, <2>3, <2>4 DEF ViewType, x
  <2>8. V.pool[e] + Weigh(h, ps) >= 1
    BY <2>5, <2>6, <2>7
  <2> QED BY <2>8 DEF h
<1>30. \A j \in 1 .. Len(ps) : Fit(V2, w, ps[j])
  BY <1>16, <1>23
<1>31. BuffersMove(V, V2, w, ps, ps)
  <2>1. ASSUME NEW e \in Buffers
        PROVE  Weigh(Holds(V2, e), ps) = Weigh(Holds(V, e), ps)
    <3> DEFINE h == Holds(V, e)
               g == Holds(V2, e)
    <3>1. h \in [Pairs -> Nat] /\ g \in [Pairs -> Nat]
      BY <1>4, <1>22, HoldsType
    <3>2. \A j \in 1 .. Len(ps) : g[ps[j]] = h[ps[j]]
      <4> TAKE j \in 1 .. Len(ps)
      <4>1. ps[j] \in Pairs /\ ps[j] = <<n, c.frame[j]>>
        BY <1>16
      <4>2. Own(V2, <<n, c.frame[j]>>) = Own(V, <<n, c.frame[j]>>)
        BY <1>1, <1>21
      <4> QED BY <4>1, <4>2 DEF Holds
    <3> HIDE DEF h, g
    <3>3. Weigh(g, ps) = Weigh(h, ps)
      BY <1>16, <3>1, <3>2, WeighSame
    <3> QED BY <3>3 DEF h, g
  <2>2. V2.cur[w].drops = V.cur[w].drops
    BY <1>13, <1>14
  <2> QED BY <1>2, <1>3, <2>1, <2>2 DEF BuffersMove
<1>32. BlocksMove(V, V2, w, ps, ps)
  <2>1. \A x : Fills(V2, x) = Fills(V, x)
    BY <1>2, <1>3 DEF Fills
  <2>2. V2.bp[w] = V.bp[w]
    BY <1>2, <1>3
  <2> QED BY <2>1, <2>2 DEF BlocksMove
<1>33. V.spoilt \subseteq V2.spoilt /\ Sound(V)
  BY <1>2, <1>3 DEF V
<1>34. BlocksAt(V2, w)
  BY <1>22, <1>26, <1>28, <1>29, <1>32, <1>33, OwnBlocks
<1>35. Sound(V2)
  BY <1>22, <1>24, <1>25, <1>28, <1>29, <1>30, <1>31, <1>33, <1>34, Moved
<1>36. RunsOn(w)
  BY <1>8, <1>9, <1>13, <1>14 DEF RunsOn, c
<1>37. mbuf' = [b \in Buffers |-> mbuf'[b]]
  BY <1>5
<1> QED BY <1>35, <1>36, <1>37, SoundNext DEF V2

\* counting in sequences that are put together, as a sum over what they belong to
LEMMA FlatWeigh ==
  ASSUME NEW P, NEW h \in [P -> Nat], NEW ps \in Seq(P), NEW e, NEW ss \in Seq(Seq(Nat)),
         Len(ss) = Len(ps), \A j \in 1 .. Len(ps) : Times(e, ss[j]) = h[ps[j]]
  PROVE  FlattenSeq(ss) \in Seq(Nat) /\ Times(e, FlattenSeq(ss)) = Weigh(h, ps)
<1> DEFINE n == Len(ps)
           f == CountIn(e, ss)
           g == [j \in 1 .. n |-> h[ps[j]]]
<1>1. n \in Nat /\ Len(ss) = n /\ \A j \in 1 .. n : f[j] = Times(e, ss[j]) /\ g[j] = h[ps[j]]
  BY DEF CountIn
<1>2. FlattenSeq(ss) \in Seq(Nat) /\ Times(e, FlattenSeq(ss)) = SumTo(f, Len(ss))
  BY FlatCount
<1>3. Weigh(h, ps) = SumTo(g, n)
  BY DEF Weigh
<1>4. \A j \in 1 .. n : g[j] \in Nat /\ f[j] = g[j]
  BY <1>1
<1> HIDE DEF f, g
<1>5. SumTo(g, n) = SumTo(f, n)
  BY <1>1, <1>4, SumSame
<1> QED BY <1>1, <1>2, <1>3, <1>5

\* The port takes the first packets of the frame, whose buffers go to the
\* mempool.
LEMMA TxBurstSound ==
  ASSUME Sound(Now), NEW w \in Workers, NEW i \in Intf, NEW n \in Nat, TxBurst(w, i, n)
  PROVE  /\ Sound(Now)' /\ cur' = [cur EXCEPT ![w] = cur'[w]] /\ cur'[w].queue = 0
         /\ cur[w].node = Tx(i)
<1> DEFINE V == Now
           V2 == Now'
           c == cur[w]
           q == SubSeq(c.frame, n + 1, Len(c.frame))
           p == SubSeq(c.frame, 1, n)
           d == [c EXCEPT !.frame = q, !.queue = 0]
           t == Tx(i)
           ps == PairsOf(t, c.frame)
           gone == PairsOf(t, p)
           rest == PairsOf(t, q)
           come == <<>>
           ss == [j \in DOMAIN p |-> Bufs(mbuf[p[j]].segs)]
           bs == FlattenSeq(ss)
           R == Lists(V2, w)
<1>1. /\ t \in Nodes /\ t \in TxNodes /\ t # Idle /\ t # DropNode
  BY TxIs
<1>2. /\ V.wd = wd /\ V.pool = mempool /\ V.fl = freelist /\ V.bp = blkpool /\ V.cur = cur
      /\ V.lost = lost /\ V.spoilt = spoilt /\ V.mbuf = mbuf /\ V.pend = pend /\ V.fq = fq
  BY NowIs, Zenon
<1>3. /\ V2.wd = wd /\ V2.pool = Returned(mempool, bs) /\ V2.fl = freelist /\ V2.bp = blkpool
      /\ V2.lost = lost /\ V2.spoilt = spoilt /\ V2.mbuf = mbuf /\ V2.pend = pend /\ V2.fq = fq
      /\ V2.cur = cur'
  BY NextIs DEF TxBurst
<1>4. ViewType(V) /\ RunInv(V, w)
  BY Zenon DEF Sound
<1>5. cur' = [cur EXCEPT ![w].frame = SubSeq(@, n + 1, Len(@)), ![w].queue = 0]
  BY DEF TxBurst
<1>6. c.node = t /\ c.left = <<>> /\ n <= Len(c.frame)
  BY DEF TxBurst, Sending
<1> HIDE DEF V, V2, t
<1>7. /\ cur \in [Workers -> RunType] /\ pend \in [Workers -> Seq(FrameType)]
      /\ fq \in [Workers -> Seq(Seq(Buffers))] /\ c \in RunType
      /\ mempool \in [Buffers -> Nat]
      /\ \A b \in Buffers : mbuf[b].segs \in Seq(SegType)
  BY <1>2, <1>4 DEF ViewType
<1>8. cur' = [cur EXCEPT ![w] = d]
  BY <1>5, <1>7
<1> HIDE DEF c
<1>9. c.frame \in Seq(Buffers) /\ c.to \in Seq(Pairs) /\ c.away \in Seq(Away)
  BY <1>7, RunTypes
<1> DEFINE f == Len(c.frame)
<1>10. /\ q \in Seq(Buffers) /\ Len(q) = f - n /\ \A j \in 1 .. f - n : q[j] = c.frame[n + j]
       /\ p \in Seq(Buffers) /\ Len(p) = n /\ \A j \in 1 .. n : p[j] = c.frame[j]
       /\ f \in Nat /\ n <= f
  BY <1>6, <1>9, FrameParts
<1> HIDE DEF q, p
<1>11. /\ d \in RunType /\ d.node = t /\ d.frame = q /\ d.left = <<>> /\ d.to = c.to
       /\ d.away = c.away /\ d.drops = c.drops /\ d.queue = 0
  <2>1. 0 \in 0 .. TxQueues
    BY CapacityAssumption
  <2>2. d \in RunType
    BY <1>7, <1>10, <2>1 DEF RunType
  <2>3. /\ d.node = c.node /\ d.frame = q /\ d.left = c.left /\ d.to = c.to
        /\ d.away = c.away /\ d.drops = c.drops /\ d.queue = 0
    BY <1>7 DEF RunType
  <2> QED BY <1>6, <2>2, <2>3
<1> HIDE DEF d
<1>12. cur'[w] = d /\ cur' \in [Workers -> RunType] /\ V.cur[w] = c /\ V2.cur[w] = d
  BY <1>2, <1>3, <1>7, <1>8, <1>11 DEF c
<1>13. /\ \A j \in 1 .. f : Bufs(mbuf[c.frame[j]].segs) = Own(V, <<t, c.frame[j]>>)
       /\ c.drops = <<>>
       /\ \A j \in 1 .. Len(c.away) :
            /\ c.away[j][1] # w
            /\ sf_pkt_get_worker_index(mbuf[c.away[j][2]].pkt) = c.away[j][1]
  <2>1. RunOf(V, w, c)
    BY <1>4, <1>12 DEF RunInv
  <2>2. Len(c.frame) - Len(c.left) = f
    BY <1>6, <1>10
  <2>3. c.node # HugeInputNode
    BY <1>6, TxIs, Zenon DEF t
  <2> HIDE DEF f
  <2> QED BY <1>1, <1>2, <1>6, <2>1, <2>2, <2>3 DEF RunOf
<1>14. /\ ps \in Seq(Pairs) /\ Len(ps) = f /\ \A j \in 1 .. f : ps[j] = <<t, c.frame[j]>>
       /\ gone \in Seq(Pairs) /\ Len(gone) = n /\ \A j \in 1 .. n : gone[j] = <<t, p[j]>> /\ p[j] \in Buffers
       /\ rest \in Seq(Pairs) /\ Len(rest) = f - n /\ \A j \in 1 .. f - n : rest[j] = <<t, q[j]>>
  <2>1. ps \in Seq(Pairs) /\ Len(ps) = f /\ \A j \in 1 .. f : ps[j] = <<t, c.frame[j]>>
    BY <1>1, <1>9, PairsOfType
  <2>2. gone \in Seq(Pairs) /\ Len(gone) = n /\ \A j \in 1 .. n : gone[j] = <<t, p[j]>> /\ p[j] \in Buffers
    BY <1>1, <1>10, PairsOfType
  <2>3. rest \in Seq(Pairs) /\ Len(rest) = f - n /\ \A j \in 1 .. f - n : rest[j] = <<t, q[j]>>
    BY <1>1, <1>10, PairsOfType, Zenon
  <2> QED BY <2>1, <2>2, <2>3
<1> HIDE DEF ps, gone, rest
<1>15. ASSUME NEW h \in [Pairs -> Nat]
       PROVE  Weigh(h, ps) = Weigh(h, gone) + Weigh(h, rest)
  <2>1. Len(ps) = Len(gone) + Len(rest)
    BY <1>10, <1>14
  <2>2. \A j \in 1 .. Len(gone) : gone[j] = ps[j]
    <3> TAKE j \in 1 .. Len(gone)
    <3>1. j \in 1 .. n /\ j \in 1 .. f
      BY <1>10, <1>14
    <3>2. gone[j] = <<t, p[j]>> /\ ps[j] = <<t, c.frame[j]>> /\ p[j] = c.frame[j]
      BY <1>10, <1>14, <3>1
    <3> QED BY <3>2
  <2>3. \A j \in 1 .. Len(rest) : rest[j] = ps[Len(gone) + j]
    <3> TAKE j \in 1 .. Len(rest)
    <3>1. j \in 1 .. f - n /\ n + j \in 1 .. f
      BY <1>10, <1>14
    <3> QED BY <1>10, <1>14, <3>1, Zenon
  <2> QED BY <1>14, <2>1, <2>2, <2>3, WeighSplit, Zenon
<1>16. ViewType(V2)
  <2>1. Returned(mempool, bs) \in [Buffers -> Nat]
    <3>1. ss \in Seq(Seq(Nat))
      <4>2. DOMAIN p = 1 .. n
        BY <1>10
      <4>1. \A j \in 1 .. n : ss[j] \in Seq(Nat)
        <5> TAKE j \in 1 .. n
        <5> DEFINE segs == mbuf[p[j]].segs
        <5>1. segs \in Seq(SegType) /\ ss[j] = Bufs(segs)
          BY <1>7, <1>14, <4>2
        <5> HIDE DEF segs, ss
        <5>2. Bufs(segs) \in Seq(Buffers)
          BY <5>1, BufsType
        <5> QED BY <5>1, <5>2, BuffersNat
      <4> QED BY <4>1, <4>2, SeqFrom
    <3>2. bs \in Seq(Nat)
      BY <3>1, FlatCount
    <3> HIDE DEF bs
    <3> QED BY <1>7, <3>2, TimesNat DEF Returned
  <2> QED BY <1>2, <1>3, <1>4, <1>12, <2>1 DEF ViewType
<1>17. RunInv(V2, w)
  <2>1. d.node # Idle /\ d.drops = <<>> /\ d.node # DropNode
    BY <1>1, <1>11, <1>13
  <2>2. Len(d.left) = 0 /\ Len(d.frame) = f - n
    BY <1>10, <1>11
  <2>3. \A j \in 1 .. Len(d.away) :
          /\ d.away[j][1] # w
          /\ sf_pkt_get_worker_index(V2.mbuf[d.away[j][2]].pkt) = d.away[j][1]
    BY <1>3, <1>11, <1>13
  <2>4. \A j \in 1 .. f - n : Bufs(V2.mbuf[d.frame[j]].segs) = Own(V2, <<d.node, d.frame[j]>>)
    <3> TAKE j \in 1 .. f - n
    <3>1. n + j \in 1 .. f /\ d.frame[j] = c.frame[n + j]
      BY <1>10, <1>11
    <3>2. \A x : Own(V2, x) = Own(V, x)
      BY <1>2, <1>3 DEF Own
    <3> QED BY <1>3, <1>11, <1>13, <3>1, <3>2
  <2> DEFINE done == Len(d.frame) - Len(d.left)
  <2>5. done = f - n /\ done >= 0
    BY <1>10, <2>2
  <2>6. \A j \in 1 .. Len(d.left) : d.left[j] = d.frame[done + j]
    BY <2>2
  <2>7. \A j \in 1 .. done : Bufs(V2.mbuf[d.frame[j]].segs) = Own(V2, <<d.node, d.frame[j]>>)
    BY <2>4, <2>5
  <2>8. RunOf(V2, w, d)
    BY <2>1, <2>3, <2>5, <2>6, <2>7 DEF RunOf
  <2> QED BY <1>12, <2>8 DEF RunInv
<1>18. OthersSame(V, V2, w)
  BY <1>2, <1>3, <1>7, <1>8, Zenon DEF OthersSame
<1>19. R \in ListsType /\ Lists(V, w) \in ListsType
  BY <1>4, <1>16, <1>17, ListsTypes
<1>20. /\ Lists(V, w).list = ps /\ R.list = rest /\ R.to = Lists(V, w).to /\ R.away = Lists(V, w).away
       /\ R.pend = Lists(V, w).pend /\ R.fq = Lists(V, w).fq
       /\ LeftLists(V, w) = Lists(V, w) /\ LeftLists(V2, w) = Lists(V2, w)
  <2>1. Listed(c) = c.frame /\ Listed(d) = q
    BY <1>1, <1>6, <1>11 DEF Listed
  <2> QED BY <1>1, <1>2, <1>3, <1>6, <1>11, <1>12, <2>1 DEF Lists, LeftLists, ps, rest
<1>21. Moves(V, V2, w, R, gone, come)
  <2>1. ASSUME NEW h \in [Pairs -> Nat]
        PROVE  Load(h, Lists(V, w)) = Load(h, R) + Weigh(h, gone) /\ Load(h, Lists(V2, w)) = Load(h, R) + Weigh(h, come)
    <3> DEFINE g == Weigh(h, gone)
               r == Weigh(h, rest)
               a1 == Weigh(h, R.to)
               a2 == Weigh(AwayOf(h), R.away)
               a3 == Weigh(FrameOf(h), R.pend)
               a4 == Weigh(QueueOf(h), R.fq)
    <3>1. r \in Nat /\ a1 \in Nat /\ a2 \in Nat /\ a3 \in Nat /\ a4 \in Nat /\ g \in Nat
      BY <1>14, <1>19, <1>20, LoadNat, WeighNat
    <3>2. Load(h, R) = r + a1 + a2 + a3 + a4
      BY <1>20 DEF Load
    <3>3. Load(h, Lists(V, w)) = (g + r) + a1 + a2 + a3 + a4
      BY <1>15, <1>20 DEF Load
    <3>4. Weigh(h, come) = 0
      BY WeighEmpty, Zenon
    <3> HIDE DEF g, r, a1, a2, a3, a4, R, come
    <3>5. (g + r) + a1 + a2 + a3 + a4 = (r + a1 + a2 + a3 + a4) + g
      BY <3>1
    <3>6. r + a1 + a2 + a3 + a4 = (r + a1 + a2 + a3 + a4) + 0
      BY <3>1
    <3> QED BY <3>2, <3>3, <3>4, <3>5, <3>6 DEF g, R
  <2>2. come \in Seq(Pairs)
    OBVIOUS
  <2> QED BY <1>14, <1>19, <2>1, <2>2 DEF Moves
<1> HIDE DEF R
<1>22. Owned(V, V2, w, gone)
  BY <1>2, <1>3 DEF Owned
<1>23. BuffersMove(V, V2, w, gone, come)
  <2> SUFFICES ASSUME NEW e \in Buffers
               PROVE  Returned(mempool, bs)[e] + Ind(e \in freelist[w]) + Times(e, c.drops) + Ind(e \in lost) + Weigh(Holds(V2, e), come)
                      = mempool[e] + Ind(e \in freelist[w]) + Times(e, c.drops) + Ind(e \in lost) + Weigh(Holds(V, e), gone)
    <3>1. V.cur[w].drops = c.drops /\ V2.cur[w].drops = c.drops
      BY <1>11, <1>12
    <3> QED BY <1>2, <1>3, <3>1 DEF BuffersMove
  <2> DEFINE m == mempool[e]
             k == Ind(e \in freelist[w])
             x == Times(e, c.drops)
             l == Ind(e \in lost)
             g == Weigh(Holds(V, e), gone)
  <2>1. Times(e, bs) = g
    <3> DEFINE h == Holds(V, e)
    <3>1. h \in [Pairs -> Nat]
      BY <1>4, HoldsType
    <3>2. DOMAIN p = 1 .. n
      BY <1>10
    <3>3. \A j \in 1 .. n : ss[j] = Bufs(mbuf[c.frame[j]].segs) /\ ss[j] \in Seq(Nat) /\ j \in 1 .. f
      <4> TAKE j \in 1 .. n
      <4>1. ss[j] = Bufs(mbuf[c.frame[j]].segs) /\ j \in 1 .. f
        BY <1>10, <3>2
      <4>2. c.frame[j] \in Buffers
        BY <1>9, <4>1
      <4>3. Bufs(mbuf[c.frame[j]].segs) \in Seq(Nat)
        <5> DEFINE segs == mbuf[c.frame[j]].segs
        <5>1. segs \in Seq(SegType)
          BY <1>7, <4>2
        <5> HIDE DEF segs
        <5>2. Bufs(segs) \in Seq(Buffers)
          BY <5>1, BufsType
        <5>3. Bufs(segs) \in Seq(Nat)
          BY <5>2, BuffersNat
        <5> QED BY <5>3 DEF segs
      <4> QED BY <4>1, <4>3
    <3>4. ss \in Seq(Seq(Nat)) /\ Len(ss) = n
      BY <3>2, <3>3, SeqFrom
    <3>5. \A j \in 1 .. n : Times(e, ss[j]) = h[gone[j]]
      <4> TAKE j \in 1 .. n
      <4>1. gone[j] = <<t, c.frame[j]>> /\ gone[j] \in Pairs
        BY <1>10, <1>14
      <4>2. ss[j] = Own(V, <<t, c.frame[j]>>)
        BY <1>13, <3>3
      <4> QED BY <4>1, <4>2 DEF Holds
    <3> HIDE DEF h, ss
    <3>7. Len(ss) = Len(gone) /\ gone \in Seq(Pairs) /\ \A j \in 1 .. Len(gone) : Times(e, ss[j]) = h[gone[j]]
      BY <1>14, <3>4, <3>5
    <3>6. Times(e, FlattenSeq(ss)) = Weigh(h, gone)
      BY <3>1, <3>4, <3>7, FlatWeigh
    <3> QED BY <3>6 DEF h
  <2>2. Returned(mempool, bs)[e] = m + g
    BY <2>1 DEF Returned
  <2>3. Weigh(Holds(V2, e), come) = 0
    BY WeighEmpty, Zenon
  <2>4. m \in Nat /\ k \in Nat /\ x \in Nat /\ l \in Nat /\ g \in Nat
    <3>1. Holds(V, e) \in [Pairs -> Nat]
      BY <1>4, HoldsType
    <3>2. g \in Nat
      BY <1>14, <3>1, WeighNat
    <3>3. x \in Nat
      <4>1. c.drops \in Seq(Buffers)
        BY <1>7, RunTypes
      <4> QED BY <4>1, BuffersNat, TimesNat
    <3> QED BY <1>7, <3>2, <3>3 DEF Ind
  <2> HIDE DEF m, k, x, l, g
  <2>5. (m + g) + k + x + l + 0 = m + k + x + l + g
    BY <2>4
  <2> QED BY <2>2, <2>3, <2>5 DEF m, k, x, l, g
<1>24. BlocksAt(V2, w)
  <2>1. V2.wd = V.wd /\ V2.spoilt = V.spoilt /\ V2.bp[w] = V.bp[w]
    BY <1>2, <1>3
  <2>2. ASSUME NEW k \in Block
        PROVE  Load(Fills(V, k), LeftLists(V2, w)) = Load(Fills(V, k), LeftLists(V, w))
    <3> DEFINE h == Fills(V, k)
    <3>1. h \in [Pairs -> Nat]
      BY FillsType
    <3>2. Weigh(h, gone) = 0
      <4>1. t \notin Gathered
        BY TxIs DEF t
      <4>2. \A j \in 1 .. Len(gone) : h[gone[j]] = 0
        BY <1>14, <4>1 DEF Fills
      <4> HIDE DEF h
      <4> QED BY <1>14, <3>1, <4>2, WeighSome
    <3> HIDE DEF h
    <3>3. Load(h, Lists(V, w)) = Load(h, R) + Weigh(h, gone) /\ Load(h, R) \in Nat
      <4>1. Load(h, R) \in Nat
        <5>1. /\ Weigh(h, R.list) \in Nat /\ Weigh(h, R.to) \in Nat /\ Weigh(AwayOf(h), R.away) \in Nat
              /\ Weigh(FrameOf(h), R.pend) \in Nat /\ Weigh(QueueOf(h), R.fq) \in Nat
          BY <1>19, <3>1, LoadNat
        <5> QED BY <5>1 DEF Load
      <4> QED BY <1>21, <3>1, <4>1 DEF Moves
    <3>4. Load(h, Lists(V, w)) = Load(h, R)
      BY <3>2, <3>3
    <3>5. LeftLists(V, w) = Lists(V, w) /\ LeftLists(V2, w) = R
      BY <1>20 DEF R
    <3>6. Load(h, LeftLists(V2, w)) = Load(h, LeftLists(V, w))
      BY <3>4, <3>5
    <3> QED BY <3>6 DEF h
  <2> QED BY <1>4, <2>1, <2>2 DEF BlocksAt, Fills, Sound, BlockBalance, V
<1>25. \A j \in 1 .. Len(come) : Fit(V2, w, come[j])
  OBVIOUS
<1>26. V.spoilt \subseteq V2.spoilt /\ Sound(V)
  BY <1>2, <1>3 DEF V
<1> HIDE DEF come
<1>27. Sound(V2)
  BY <1>16, <1>17, <1>18, <1>21, <1>22, <1>23, <1>24, <1>25, <1>26, Moved
<1>28. cur' = [cur EXCEPT ![w] = cur'[w]] /\ cur'[w].queue = 0 /\ cur[w].node = t
  BY <1>6, <1>8, <1>11, <1>12, Zenon DEF c
<1> QED BY <1>27, <1>28, SoundNext DEF V2, t

-----------------------------------------------------------------------------
(* Packets that go from one worker to another *)

\* Worker w gives the packets his to worker t: they leave the array of the
\* handoff, and come to a frame queue.
Gives(V, V2, w, t, his) ==
  LET gone == PairsOf(HandoffNode, his)
      come == PairsOf(HfInputNode, his)
  IN /\ t # w
     /\ V2.wd = V.wd /\ V2.pool = V.pool /\ V2.fl = V.fl /\ V2.bp = V.bp /\ V2.lost = V.lost
     /\ V2.spoilt = V.spoilt /\ V2.mbuf = V.mbuf
     /\ \A v \in Workers : V2.cur[v].drops = V.cur[v].drops
     /\ \A v \in Workers : v # w /\ v # t =>
          Lists(V2, v) = Lists(V, v) /\ LeftLists(V2, v) = LeftLists(V, v)
     /\ \A h \in [Pairs -> Nat] :
          /\ Load(h, Lists(V, w)) = Load(h, Lists(V2, w)) + Weigh(h, gone)
          /\ Load(h, LeftLists(V, w)) = Load(h, LeftLists(V2, w)) + Weigh(h, gone)
          /\ Load(h, Lists(V2, t)) = Load(h, Lists(V, t)) + Weigh(h, come)
          /\ Load(h, LeftLists(V2, t)) = Load(h, LeftLists(V, t)) + Weigh(h, come)
     /\ \A i \in 1 .. Len(his) : Fit(V2, t, <<HfInputNode, his[i]>>)

\* Of a sum, one summand gives to another.
SumShifts(n, f, g, i, j, x) ==
  /\ i # j /\ x \in Nat /\ f[i] = g[i] + x /\ g[j] = f[j] + x
  /\ \A k \in 1 .. n : f[k] \in Nat /\ g[k] \in Nat
  /\ \A k \in 1 .. n : k # i /\ k # j => g[k] = f[k]

\* A sum from one term of which something moves to another.
LEMMA SumGives ==
  ASSUME NEW n \in Nat, NEW f, NEW g, NEW i \in 1 .. n, NEW j \in 1 .. n, NEW x,
         SumShifts(n, f, g, i, j, x)
  PROVE  SumTo(g, n) = SumTo(f, n)
<1>0. /\ i # j /\ x \in Nat /\ f[i] = g[i] + x /\ g[j] = f[j] + x
      /\ \A k \in 1 .. n : f[k] \in Nat /\ g[k] \in Nat
      /\ \A k \in 1 .. n : k # i /\ k # j => g[k] = f[k]
  BY DEF SumShifts
<1> DEFINE e == [k \in 1 .. n |-> IF k = i THEN g[i] ELSE f[k]]
<1>1. \A k \in 1 .. n : e[k] \in Nat /\ (k # i => e[k] = f[k]) /\ (k # j => e[k] = g[k])
  BY <1>0
<1>2. e[i] = g[i] /\ e[j] = f[j]
  BY <1>0
<1> HIDE DEF e
<1>3. (\A k \in 1 .. n : f[k] \in Int /\ e[k] \in Int) /\ (\A k \in 1 .. n : e[k] \in Int /\ g[k] \in Int)
  BY <1>0, <1>1
<1>4. SumTo(e, n) = SumTo(f, n) + (e[i] - f[i]) /\ SumTo(f, n) \in Int
  <2>1. \A k \in 1 .. n : k # i => e[k] = f[k]
    BY <1>1
  <2> QED BY <1>3, <2>1, SumPoint, Zenon
<1>5. SumTo(g, n) = SumTo(e, n) + (g[j] - e[j])
  <2>1. \A k \in 1 .. n : k # j => g[k] = e[k]
    BY <1>1
  <2> QED BY <1>3, <2>1, SumPoint, Zenon
<1> DEFINE a == f[i]
           b == g[i]
           c == f[j]
           d == g[j]
<1>6. a = b + x /\ d = c + x /\ a \in Nat /\ b \in Nat /\ c \in Nat /\ d \in Nat
  BY <1>0
<1>7. SumTo(e, n) = SumTo(f, n) + (b - a) /\ SumTo(g, n) = SumTo(e, n) + (d - c)
  BY <1>2, <1>4, <1>5
<1> HIDE DEF a, b, c, d
<1> DEFINE sf == SumTo(f, n)
           se == SumTo(e, n)
           sg == SumTo(g, n)
<1>8. se = sf + (b - a) /\ sg = se + (d - c) /\ sf \in Int
  BY <1>4, <1>7
<1> HIDE DEF sf, se, sg
<1>9. b - a = -x /\ d - c = x /\ x \in Int
  BY <1>0, <1>6
<1>10. sg = sf
  BY <1>8, <1>9
<1> QED BY <1>10 DEF sf, sg

\* A step in which one worker gives packets to another.
LEMMA GivesSound ==
  ASSUME NEW V, NEW V2, NEW w \in Workers, NEW t \in Workers, NEW his \in Seq(Buffers),
         Sound(V), ViewType(V2), \A v \in Workers : RunInv(V2, v), Gives(V, V2, w, t, his)
  PROVE  Sound(V2)
<1> DEFINE gone == PairsOf(HandoffNode, his)
           come == PairsOf(HfInputNode, his)
<1>1. /\ t # w
      /\ V2.wd = V.wd /\ V2.pool = V.pool /\ V2.fl = V.fl /\ V2.bp = V.bp /\ V2.lost = V.lost
      /\ V2.spoilt = V.spoilt /\ V2.mbuf = V.mbuf
      /\ \A v \in Workers : V2.cur[v].drops = V.cur[v].drops
      /\ \A v \in Workers : v # w /\ v # t =>
           Lists(V2, v) = Lists(V, v) /\ LeftLists(V2, v) = LeftLists(V, v)
      /\ \A i \in 1 .. Len(his) : Fit(V2, t, <<HfInputNode, his[i]>>)
  BY DEF Gives
<1>2. ASSUME NEW h \in [Pairs -> Nat]
      PROVE  /\ Load(h, Lists(V, w)) = Load(h, Lists(V2, w)) + Weigh(h, gone)
             /\ Load(h, LeftLists(V, w)) = Load(h, LeftLists(V2, w)) + Weigh(h, gone)
             /\ Load(h, Lists(V2, t)) = Load(h, Lists(V, t)) + Weigh(h, come)
             /\ Load(h, LeftLists(V2, t)) = Load(h, LeftLists(V, t)) + Weigh(h, come)
  BY DEF Gives
<1>3. /\ gone \in Seq(Pairs) /\ Len(gone) = Len(his)
      /\ \A i \in 1 .. Len(his) : gone[i] = <<HandoffNode, his[i]>> /\ his[i] \in Buffers
      /\ come \in Seq(Pairs) /\ Len(come) = Len(his)
      /\ \A i \in 1 .. Len(his) : come[i] = <<HfInputNode, his[i]>>
  BY HandoffNodes, PairsOfType
<1> HIDE DEF gone, come
<1>4. ViewType(V) /\ (\A v \in Workers : RunInv(V, v)) /\ BufferBalance(V) /\ BlockBalance(V) /\ AllFit(V)
  BY DEF Sound
<1>5. \A v \in Workers : /\ Lists(V, v) \in ListsType /\ LeftLists(V, v) \in ListsType
                         /\ Lists(V2, v) \in ListsType /\ LeftLists(V2, v) \in ListsType
  BY <1>4, ListsTypes
<1>6. ASSUME NEW h \in [Pairs -> Nat], NEW v \in Workers
      PROVE  /\ Load(h, Lists(V, v)) \in Nat /\ Load(h, LeftLists(V, v)) \in Nat
             /\ Load(h, Lists(V2, v)) \in Nat /\ Load(h, LeftLists(V2, v)) \in Nat
             /\ Weigh(h, gone) \in Nat /\ Weigh(h, come) \in Nat
  <2>1. /\ Lists(V, v) \in ListsType /\ LeftLists(V, v) \in ListsType
        /\ Lists(V2, v) \in ListsType /\ LeftLists(V2, v) \in ListsType
    BY <1>5
  <2>2. Load(h, Lists(V, v)) \in Nat /\ Load(h, LeftLists(V, v)) \in Nat
    BY <2>1, LoadNat
  <2>3. Load(h, Lists(V2, v)) \in Nat /\ Load(h, LeftLists(V2, v)) \in Nat
    BY <2>1, LoadNat, Zenon
  <2> QED BY <1>3, <2>2, <2>3, WeighNat
<1>7. (\A x : Own(V2, x) = Own(V, x)) /\ (\A e : Holds(V2, e) = Holds(V, e)) /\ \A k : Fills(V2, k) = Fills(V, k)
  BY <1>1 DEF Own, Holds, Fills
<1>8. \A v, x : Fit(V2, v, x) <=> Fit(V, v, x)
  BY <1>1 DEF Fit
<1>9. /\ HandoffNode # RxNode /\ HfInputNode # RxNode /\ HandoffNode \in Before /\ HfInputNode \in Before
      /\ HandoffNode \notin Gathered /\ HfInputNode \notin Gathered
  BY DEF HandoffNode, HfInputNode, RxNode, N, Before, Gathered, HugeOutNode, DropNode
<1>10. ASSUME NEW e \in Buffers
       PROVE  Weigh(Holds(V, e), come) = Weigh(Holds(V, e), gone)
  <2> DEFINE h == Holds(V, e)
             f == [i \in 1 .. Len(come) |-> h[come[i]]]
             g == [i \in 1 .. Len(gone) |-> h[gone[i]]]
  <2>1. h \in [Pairs -> Nat]
    BY <1>4, HoldsType
  <2>2. ASSUME NEW i \in 1 .. Len(his)
        PROVE  f[i] = g[i] /\ f[i] \in Nat
    <3>1. gone[i] = <<HandoffNode, his[i]>> /\ come[i] = <<HfInputNode, his[i]>> /\ gone[i] \in Pairs /\ come[i] \in Pairs
      BY <1>3
    <3>2. Own(V, <<HandoffNode, his[i]>>) = Own(V, <<HfInputNode, his[i]>>)
      BY <1>9 DEF Own
    <3>3. h[gone[i]] = h[come[i]]
      BY <3>1, <3>2, Zenon DEF Holds
    <3>4. i \in 1 .. Len(come) /\ i \in 1 .. Len(gone)
      BY <1>3
    <3> HIDE DEF h
    <3> QED BY <2>1, <3>1, <3>3, <3>4
  <2>3. Len(his) \in Nat /\ Len(come) = Len(his) /\ Len(gone) = Len(his)
    BY <1>3
  <2> HIDE DEF h, f, g
  <2>4. SumTo(f, Len(his)) = SumTo(g, Len(his))
    BY <2>2, <2>3, SumSame
  <2>5. Weigh(h, come) = SumTo(f, Len(come)) /\ Weigh(h, gone) = SumTo(g, Len(gone))
    BY DEF Weigh, f, g
  <2> QED BY <2>3, <2>4, <2>5 DEF h
<1>11. ASSUME NEW k \in Block
       PROVE  Weigh(Fills(V, k), come) = 0 /\ Weigh(Fills(V, k), gone) = 0
  <2> DEFINE h == Fills(V, k)
  <2>1. h \in [Pairs -> Nat]
    BY FillsType
  <2>2. \A i \in 1 .. Len(come) : h[come[i]] = 0
    BY <1>3, <1>9 DEF Fills
  <2>3. \A i \in 1 .. Len(gone) : h[gone[i]] = 0
    BY <1>3, <1>9 DEF Fills
  <2> HIDE DEF h
  <2>4. Weigh(h, come) = 0
    BY <1>3, <2>1, <2>2, WeighNone
  <2>5. Weigh(h, gone) = 0
    BY <1>3, <2>1, <2>3, WeighNone
  <2> QED BY <2>4, <2>5 DEF h
<1>12. BufferBalance(V2)
  <2> SUFFICES ASSUME NEW e \in Buffers
               PROVE  V2.pool[e] + SumTo([v \in Workers |-> Refs(V2, e, v)], Cardinality(Workers))
                      + Ind(e \in V2.lost) = 1
    BY DEF BufferBalance
  <2> DEFINE f == [v \in Workers |-> Refs(V, e, v)]
             g == [v \in Workers |-> Refs(V2, e, v)]
             n == Cardinality(Workers)
             h == Holds(V, e)
             x == Weigh(h, gone)
  <2>1. n \in Nat /\ Workers = 1 .. n
    BY WorkersAre
  <2>2. \A v \in Workers : f[v] \in Nat /\ g[v] \in Nat /\ f[v] = Refs(V, e, v) /\ g[v] = Refs(V2, e, v)
    BY <1>4, RefsNat
  <2>3. h \in [Pairs -> Nat] /\ Holds(V2, e) = h
    BY <1>4, <1>7, HoldsType
  <2>4. \A v \in Workers : v # w /\ v # t => g[v] = f[v]
    <3> TAKE v \in Workers
    <3> HAVE v # w /\ v # t
    <3>1. Lists(V2, v) = Lists(V, v) /\ V2.cur[v].drops = V.cur[v].drops /\ V2.fl[v] = V.fl[v]
      BY <1>1
    <3> QED BY <2>2, <2>3, <3>1 DEF Refs
  <2>5. f[w] = g[w] + x /\ g[t] = f[t] + x /\ x \in Nat
    <3> DEFINE a1 == Load(h, Lists(V, w))
               a2 == Load(h, Lists(V2, w))
               b1 == Load(h, Lists(V, t))
               b2 == Load(h, Lists(V2, t))
               d1 == Times(e, V.cur[w].drops)
               d2 == Times(e, V.cur[t].drops)
               i1 == Ind(e \in V.fl[w])
               i2 == Ind(e \in V.fl[t])
    <3>1. a1 \in Nat /\ a2 \in Nat /\ b1 \in Nat /\ b2 \in Nat /\ x \in Nat
      <4> HIDE DEF h
      <4> QED BY <1>6, <2>3
    <3>2. d1 \in Nat /\ d2 \in Nat /\ i1 \in Nat /\ i2 \in Nat
      BY <1>4, RefsNat DEF Ind
    <3>3. a1 = a2 + x
      <4> HIDE DEF h
      <4> QED BY <1>2, <2>3
    <3>4. b2 = b1 + x
      <4>1. Weigh(h, come) = x
        BY <1>10
      <4> HIDE DEF h
      <4> QED BY <1>2, <2>3, <4>1
    <3>5. f[w] = a1 + d1 + i1 /\ f[t] = b1 + d2 + i2
      BY <2>2 DEF Refs
    <3>6. g[w] = a2 + d1 + i1 /\ g[t] = b2 + d2 + i2
      BY <1>1, <2>2, <2>3 DEF Refs
    <3> HIDE DEF f, g, a1, a2, b1, b2, d1, d2, i1, i2, x
    <3>7. f[w] = (a2 + x) + d1 + i1 /\ f[w] = g[w] + x
      <4>1. (a2 + x) + d1 + i1 = (a2 + d1 + i1) + x
        BY <3>1, <3>2
      <4> QED BY <3>3, <3>5, <3>6, <4>1
    <3>8. g[t] = (b1 + x) + d2 + i2 /\ g[t] = f[t] + x
      <4>1. (b1 + x) + d2 + i2 = (b1 + d2 + i2) + x
        BY <3>1, <3>2
      <4> QED BY <3>4, <3>5, <3>6, <4>1
    <3> QED BY <3>1, <3>7, <3>8
  <2>6. V.pool[e] + SumTo(f, n) + Ind(e \in V.lost) = 1
    BY <1>4 DEF BufferBalance
  <2> HIDE DEF f, g, n, x
  <2>7. SumTo(g, n) = SumTo(f, n)
    <3>1. \A k \in 1 .. n : f[k] \in Nat /\ g[k] \in Nat
      BY <2>1, <2>2
    <3>2. \A k \in 1 .. n : k # w /\ k # t => g[k] = f[k]
      BY <2>1, <2>4
    <3>3. w \in 1 .. n /\ t \in 1 .. n
      BY <2>1
    <3>4. SumShifts(n, f, g, w, t, x)
      BY <1>1, <2>5, <3>1, <3>2 DEF SumShifts
    <3> QED BY <2>1, <3>3, <3>4, SumGives
  <2>8. V2.pool[e] + SumTo(g, n) + Ind(e \in V2.lost) = 1
    BY <1>1, <2>6, <2>7
  <2> QED BY <2>8 DEF g, n
<1>13. BlockBalance(V2)
  <2> SUFFICES ASSUME NEW v \in Workers, NEW k \in Block, <<v, k>> \notin V2.spoilt
               PROVE  V2.bp[v][k] + Load(Fills(V2, k), LeftLists(V2, v)) = 1
    BY DEF BlockBalance, BlocksAt
  <2>1. V.bp[v][k] + Load(Fills(V, k), LeftLists(V, v)) = 1
    BY <1>1, <1>4 DEF BlockBalance, BlocksAt
  <2> DEFINE h == Fills(V, k)
  <2>2. h \in [Pairs -> Nat] /\ Fills(V2, k) = h /\ Weigh(h, come) = 0 /\ Weigh(h, gone) = 0
    BY <1>7, <1>11, FillsType
  <2> HIDE DEF h
  <2>3. Load(h, LeftLists(V2, v)) = Load(h, LeftLists(V, v))
    <3>1. CASE v = w
      BY <1>2, <1>6, <2>2, <3>1
    <3>2. CASE v = t
      BY <1>2, <1>6, <2>2, <3>2
    <3>3. CASE v # w /\ v # t
      BY <1>1, <3>3
    <3> QED BY <3>1, <3>2, <3>3
  <2> QED BY <1>1, <2>1, <2>2, <2>3 DEF h
<1>14. AllFit(V2)
  <2> SUFFICES ASSUME NEW v \in Workers, NEW x \in Pairs, Load(One(x), Lists(V2, v)) # 0
               PROVE  Fit(V2, v, x)
    BY DEF AllFit
  <2>1. One(x) \in [Pairs -> Nat]
    BY OneType
  <2>2. CASE Load(One(x), Lists(V, v)) # 0
    BY <1>4, <1>8, <2>2 DEF AllFit
  <2>3. CASE Load(One(x), Lists(V, v)) = 0
    <3>1. v # w
      BY <1>2, <1>6, <2>1, <2>3
    <3>2. v = t
      BY <1>1, <2>3, <3>1
    <3>3. Weigh(One(x), come) # 0
      BY <1>2, <1>6, <2>1, <2>3, <3>2
    <3>4. PICK i \in 1 .. Len(come) : come[i] = x
      BY <1>3, <3>3, WeighHas
    <3> QED BY <1>1, <1>3, <3>2, <3>4
  <2> QED BY <2>2, <2>3
<1> QED BY <1>12, <1>13, <1>14, Zenon DEF Sound

\* The handoff sends the packets of one worker.
LEMMA SendSound ==
  ASSUME Sound(Now), NEW w \in Workers, HandoffSend(w)
  PROVE  Sound(Now)' /\ RunsOn(w) /\ fq' \in [Workers -> Seq(Seq(Buffers))]
<1> DEFINE V == Now
           V2 == Now'
           c == cur[w]
           t == c.away[1][1]
           f == Sorted(c.away, t)
           his == f.his
           rest == f.rest
           d == [c EXCEPT !.away = rest]
           gone == PairsOf(HandoffNode, his)
           come == PairsOf(HfInputNode, his)
<1>1. /\ c.node = HandoffNode /\ c.left = <<>> /\ c.away # <<>>
      /\ fq' = [fq EXCEPT ![t] = Append(fq[t], his)] /\ cur' = [cur EXCEPT ![w].away = rest]
      /\ UNCHANGED <<mempool, freelist, blkpool, wd, lost, spoilt, mbuf, pend>>
  BY Zenon DEF HandoffSend, mine
<1>2. /\ V.wd = wd /\ V.pool = mempool /\ V.fl = freelist /\ V.bp = blkpool /\ V.cur = cur
      /\ V.lost = lost /\ V.spoilt = spoilt /\ V.mbuf = mbuf /\ V.pend = pend /\ V.fq = fq
  BY NowIs
<1>3. /\ V2.wd = wd /\ V2.pool = mempool /\ V2.fl = freelist /\ V2.bp = blkpool /\ V2.cur = cur'
      /\ V2.lost = lost /\ V2.spoilt = spoilt /\ V2.mbuf = mbuf /\ V2.pend = pend /\ V2.fq = fq'
  BY <1>1, NextIs, Zenon
<1>4. ViewType(V) /\ Sound(V) /\ \A v \in Workers : RunInv(V, v)
  BY DEF Sound
<1> HIDE DEF V, V2
<1>5. /\ cur \in [Workers -> RunType] /\ pend \in [Workers -> Seq(FrameType)]
      /\ fq \in [Workers -> Seq(Seq(Buffers))] /\ c \in RunType
  BY <1>2, <1>4, Zenon DEF ViewType
<1>6. cur' = [cur EXCEPT ![w] = d]
  BY <1>1, <1>5
<1>7. V.cur[w] = c
  BY <1>2
<1>8. HandoffNode # Idle /\ HandoffNode # DropNode /\ HandoffNode \notin TxNodes /\ HandoffNode # HugeInputNode
      /\ HfInputNode # DropNode
  BY DEF HandoffNode, HfInputNode, HugeInputNode, Idle, DropNode, TxNodes, N, Tx
<1> HIDE DEF c
<1>9. c.away \in Seq(Away) /\ c.left \in Seq(Buffers) /\ c.to \in Seq(Pairs) /\ c.frame \in Seq(Buffers)
  BY <1>5, RunTypes
<1>10. t \in Workers /\ t # w /\ 1 \in 1 .. Len(c.away)
  <2>1. 1 \in 1 .. Len(c.away) /\ c.away[1] \in Away
    BY <1>1, <1>9
  <2>2. c.away[1][1] # w
    BY <1>4, <1>7, <2>1 DEF RunInv, RunOf
  <2> QED BY <2>1, <2>2, Zenon DEF Away
<1> HIDE DEF t
<1>11. /\ his \in Seq(Buffers) /\ rest \in Seq(Away)
       /\ \A i \in 1 .. Len(his) : \E j \in 1 .. Len(c.away) : c.away[j][1] = t /\ c.away[j][2] = his[i]
       /\ \A i \in 1 .. Len(rest) : \E j \in 1 .. Len(c.away) : c.away[j] = rest[i]
       /\ \A h \in [Pairs -> Nat] : Weigh(AwayOf(h), c.away) = Weigh(h, gone) + Weigh(AwayOf(h), rest)
  BY <1>9, SortedWeighs, Zenon
<1> HIDE DEF f, his, rest, gone, come
<1>12. /\ d \in RunType /\ d.node = HandoffNode /\ d.frame = c.frame /\ d.left = c.left /\ d.to = c.to
       /\ d.away = rest /\ d.drops = c.drops /\ d.queue = c.queue
  <2>0. rest \in Seq(Workers \X Buffers)
    BY <1>11 DEF Away
  <2>1. d \in RunType
    BY <1>5, <2>0 DEF RunType
  <2>2. /\ d.node = c.node /\ d.frame = c.frame /\ d.left = c.left /\ d.to = c.to
        /\ d.away = rest /\ d.drops = c.drops /\ d.queue = c.queue
    BY <1>5 DEF RunType
  <2> QED BY <1>1, <2>1, <2>2
<1> HIDE DEF d
<1>13. cur'[w] = d /\ cur' \in [Workers -> RunType] /\ V2.cur[w] = d /\ \A v \in Workers : v # w => cur'[v] = cur[v]
  BY <1>3, <1>5, <1>6, <1>12
<1>14. /\ fq'[t] = Append(fq[t], his) /\ fq' \in [Workers -> Seq(Seq(Buffers))]
       /\ \A v \in Workers : v # t => fq'[v] = fq[v]
  <2>1. fq[t] \in Seq(Seq(Buffers)) /\ Append(fq[t], his) \in Seq(Seq(Buffers))
    <3>1. fq[t] \in Seq(Seq(Buffers))
      BY <1>5, <1>10
    <3> DEFINE T == Seq(Buffers)
    <3>2. fq[t] \in Seq(T) /\ his \in T
      BY <1>11, <3>1
    <3> HIDE DEF T
    <3>3. Append(fq[t], his) \in Seq(T)
      BY <3>2
    <3> QED BY <3>1, <3>3 DEF T
  <2> QED BY <1>1, <1>5, <1>10, <2>1
<1>15. ViewType(V2)
  BY <1>2, <1>3, <1>4, <1>13, <1>14 DEF ViewType
<1>16. \A x : Own(V2, x) = Own(V, x)
  BY <1>2, <1>3 DEF Own
<1>17. ASSUME NEW v \in Workers
       PROVE  RunInv(V2, v)
  <2>1. CASE v = w
    <3>1. /\ d.node # Idle /\ d.node # DropNode /\ d.node \notin TxNodes /\ d.drops = <<>>
      <4>1. RunOf(V, w, c)
        BY <1>4, <1>7 DEF RunInv
      <4> QED BY <1>1, <1>8, <1>12, <4>1 DEF RunOf
    <3>2. ASSUME NEW i \in 1 .. Len(d.away)
          PROVE  /\ d.away[i][1] # w
                 /\ sf_pkt_get_worker_index(V2.mbuf[d.away[i][2]].pkt) = d.away[i][1]
      <4>1. PICK j \in 1 .. Len(c.away) : c.away[j] = d.away[i]
        BY <1>11, <1>12
      <4>2. RunOf(V, w, c)
        BY <1>4, <1>7 DEF RunInv
      <4>3. /\ c.away[j][1] # w
            /\ sf_pkt_get_worker_index(V.mbuf[c.away[j][2]].pkt) = c.away[j][1]
        BY <4>2 DEF RunOf
      <4> QED BY <1>2, <1>3, <4>1, <4>3
    <3>3. RunOf(V2, w, d)
      BY <3>1, <3>2, Zenon DEF RunOf
    <3> QED BY <1>13, <2>1, <3>3, Zenon DEF RunInv
  <2>2. CASE v # w
    <3>1. V2.cur[v] = V.cur[v] /\ V2.mbuf = V.mbuf
      BY <1>2, <1>3, <1>13, <2>2
    <3>2. RunInv(V, v)
      BY <1>4
    <3> QED BY <1>16, <3>1, <3>2 DEF RunInv, RunOf
  <2> QED BY <2>1, <2>2
<1>18. /\ Lists(V, w) \in ListsType /\ Lists(V2, w) \in ListsType
       /\ Lists(V, t) \in ListsType /\ Lists(V2, t) \in ListsType
       /\ LeftLists(V, t) \in ListsType /\ LeftLists(V2, t) \in ListsType
  BY <1>4, <1>10, <1>15, <1>17, ListsTypes
<1>19. /\ Lists(V, w).away = c.away /\ Lists(V2, w).away = rest
       /\ Lists(V2, w).list = Lists(V, w).list /\ Lists(V2, w).to = Lists(V, w).to
       /\ Lists(V2, w).pend = Lists(V, w).pend /\ Lists(V2, w).fq = Lists(V, w).fq
       /\ LeftLists(V, w) = Lists(V, w) /\ LeftLists(V2, w) = Lists(V2, w)
  <2>1. Listed(c) = c.left /\ Listed(d) = c.left
    BY <1>1, <1>8, <1>12 DEF Listed, DropNode
  <2>2. V.fq[w] = fq[w] /\ V2.fq[w] = fq[w] /\ V.pend[w] = V2.pend[w]
    BY <1>2, <1>3, <1>10, <1>14, Zenon
  <2> QED BY <1>1, <1>7, <1>8, <1>12, <1>13, <2>1, <2>2 DEF Lists, LeftLists
<1>20. /\ Lists(V, t).fq = fq[t] /\ Lists(V2, t).fq = fq'[t]
       /\ Lists(V2, t).list = Lists(V, t).list /\ Lists(V2, t).to = Lists(V, t).to
       /\ Lists(V2, t).away = Lists(V, t).away /\ Lists(V2, t).pend = Lists(V, t).pend
       /\ LeftLists(V, t).fq = fq[t] /\ LeftLists(V2, t).fq = fq'[t]
       /\ LeftLists(V2, t).list = LeftLists(V, t).list /\ LeftLists(V2, t).to = LeftLists(V, t).to
       /\ LeftLists(V2, t).away = LeftLists(V, t).away /\ LeftLists(V2, t).pend = LeftLists(V, t).pend
  <2>1. V2.cur[t] = V.cur[t] /\ V2.pend[t] = V.pend[t]
    BY <1>2, <1>3, <1>10, <1>13
  <2> QED BY <1>2, <1>3, <2>1 DEF Lists, LeftLists
<1>21. ASSUME NEW v \in Workers, v # w, v # t
       PROVE  Lists(V2, v) = Lists(V, v) /\ LeftLists(V2, v) = LeftLists(V, v)
  <2>1. V2.cur[v] = V.cur[v] /\ V2.pend[v] = V.pend[v] /\ V2.fq[v] = V.fq[v]
    BY <1>2, <1>3, <1>13, <1>14, <1>21, Zenon
  <2> QED BY <2>1 DEF Lists, LeftLists
<1>22. ASSUME NEW h \in [Pairs -> Nat]
       PROVE  Load(h, Lists(V, w)) = Load(h, Lists(V2, w)) + Weigh(h, gone)
  <2> DEFINE L == Lists(V, w)
             a0 == Weigh(h, L.list)
             a1 == Weigh(h, L.to)
             a2 == Weigh(AwayOf(h), rest)
             a3 == Weigh(FrameOf(h), L.pend)
             a4 == Weigh(QueueOf(h), L.fq)
             g == Weigh(h, gone)
  <2>1. a0 \in Nat /\ a1 \in Nat /\ a3 \in Nat /\ a4 \in Nat
    BY <1>18, LoadNat
  <2>2. a2 \in Nat
    <3>1. AwayOf(h) \in [Away -> Nat]
      BY AwayOfType, Zenon
    <3> QED BY <1>11, <3>1, WeighNat
  <2>3. g \in Nat
    <3>1. gone \in Seq(Pairs)
      BY <1>11, HandoffNodes, PairsOfType DEF gone
    <3> QED BY <3>1, WeighNat
  <2>4. Load(h, Lists(V, w)) = a0 + a1 + (g + a2) + a3 + a4
    BY <1>11, <1>19 DEF Load
  <2>5. Load(h, Lists(V2, w)) = a0 + a1 + a2 + a3 + a4
    BY <1>19 DEF Load
  <2> HIDE DEF a0, a1, a2, a3, a4, g
  <2>6. a0 + a1 + (g + a2) + a3 + a4 = (a0 + a1 + a2 + a3 + a4) + g
    BY <2>1, <2>2, <2>3
  <2> QED BY <2>4, <2>5, <2>6 DEF g
<1>23. ASSUME NEW h \in [Pairs -> Nat], NEW L \in ListsType, NEW L2 \in ListsType,
              L.fq = fq[t], L2.fq = fq'[t], L2.list = L.list, L2.to = L.to, L2.away = L.away, L2.pend = L.pend
       PROVE  Load(h, L2) = Load(h, L) + Weigh(h, come)
  <2> DEFINE o == QueueOf(h)
             T == Seq(Buffers)
             a0 == Weigh(h, L.list)
             a1 == Weigh(h, L.to)
             a2 == Weigh(AwayOf(h), L.away)
             a3 == Weigh(FrameOf(h), L.pend)
             a4 == Weigh(o, L.fq)
             g == Weigh(h, come)
  <2>1. a0 \in Nat /\ a1 \in Nat /\ a2 \in Nat /\ a3 \in Nat /\ a4 \in Nat
    BY LoadNat
  <2>2. Weigh(o, L2.fq) = a4 + g /\ g \in Nat
    <3>1. o \in [T -> Nat] /\ fq[t] \in Seq(T) /\ his \in T
      BY <1>5, <1>10, <1>11, QueueOfType
    <3>2. o[his] = g
      BY <1>11 DEF QueueOf, come
    <3> HIDE DEF o, T, g
    <3>3. Weigh(o, Append(fq[t], his)) = Weigh(o, fq[t]) + o[his]
      BY <3>1, WeighAppend
    <3>4. o[his] \in Nat
      BY <3>1
    <3> QED BY <1>14, <1>23, <3>2, <3>3, <3>4
  <2>3. Load(h, L2) = a0 + a1 + a2 + a3 + (a4 + g)
    BY <1>23, <2>2 DEF Load
  <2>4. Load(h, L) = a0 + a1 + a2 + a3 + a4
    BY DEF Load
  <2> HIDE DEF a0, a1, a2, a3, a4, g
  <2>5. a0 + a1 + a2 + a3 + (a4 + g) = (a0 + a1 + a2 + a3 + a4) + g
    BY <2>1, <2>2
  <2> QED BY <2>3, <2>4, <2>5 DEF g
<1>24. ASSUME NEW i \in 1 .. Len(his)
       PROVE  Fit(V2, t, <<HfInputNode, his[i]>>)
  <2>1. PICK j \in 1 .. Len(c.away) : c.away[j][1] = t /\ c.away[j][2] = his[i]
    BY <1>11
  <2> DEFINE x == <<HandoffNode, c.away[j][2]>>
             b == his[i]
  <2>2. x \in Pairs /\ x = <<HandoffNode, b>>
    <3>1. c.away[j] \in Away
      BY <1>9
    <3> QED BY <2>1, <3>1, HandoffNodes DEF Away, Pairs
  <2>3. Weigh(AwayOf(One(x)), Lists(V, w).away) # 0
    BY <1>9, <1>19, AwayIn
  <2> HIDE DEF x, b
  <2>4. Load(One(x), Lists(V, w)) # 0
    <3>1. One(x) \in [Pairs -> Nat]
      BY OneType
    <3> DEFINE L == Lists(V, w)
               h == One(x)
    <3>2. /\ Weigh(h, L.list) \in Nat /\ Weigh(h, L.to) \in Nat /\ Weigh(AwayOf(h), L.away) \in Nat
          /\ Weigh(FrameOf(h), L.pend) \in Nat /\ Weigh(QueueOf(h), L.fq) \in Nat
      BY <1>18, <3>1, LoadNat
    <3>3. Weigh(AwayOf(h), L.away) # 0
      BY <2>3
    <3> HIDE DEF L, h
    <3>4. Load(h, L) # 0
      BY <3>2, <3>3 DEF Load
    <3> QED BY <3>4 DEF L, h
  <2>5. Fit(V, w, <<HandoffNode, b>>)
    BY <1>4, <2>2, <2>4 DEF Sound, AllFit
  <2>6. sf_pkt_get_worker_index(V.mbuf[b].pkt) = t
    <3>1. RunOf(V, w, c)
      BY <1>4, <1>7 DEF RunInv
    <3> QED BY <2>1, <3>1 DEF RunOf, b
  <2>7. /\ V2.mbuf[b] \in MbufType
        /\ V2.wd[b].huge => V2.wd[b].subs # <<>> /\ V2.wd[b].subs[1].buf = b
    <3>1. HandoffNode \in Before
      BY DEF Before
    <3> QED BY <1>2, <1>3, <2>5, <3>1 DEF Fit
  <2>8. HfInputNode \notin {RxNode, HugeInputNode, HugeOutNode, HandoffNode}
    BY DEF HfInputNode, HandoffNode, RxNode, HugeInputNode, HugeOutNode, N
  <2>9. V2.mbuf = V.mbuf
    BY <1>2, <1>3, Zenon
  <2>10. Fit(V2, t, <<HfInputNode, b>>)
    BY <2>6, <2>7, <2>8, <2>9, Zenon DEF Fit
  <2> QED BY <2>10 DEF b
<1>25. Gives(V, V2, w, t, his)
  <2>1. \A v \in Workers : V2.cur[v].drops = V.cur[v].drops
    BY <1>2, <1>3, <1>7, <1>12, <1>13
  <2>2. ASSUME NEW h \in [Pairs -> Nat]
        PROVE  /\ Load(h, Lists(V, w)) = Load(h, Lists(V2, w)) + Weigh(h, gone)
               /\ Load(h, LeftLists(V, w)) = Load(h, LeftLists(V2, w)) + Weigh(h, gone)
               /\ Load(h, Lists(V2, t)) = Load(h, Lists(V, t)) + Weigh(h, come)
               /\ Load(h, LeftLists(V2, t)) = Load(h, LeftLists(V, t)) + Weigh(h, come)
    <3>1. Load(h, Lists(V2, t)) = Load(h, Lists(V, t)) + Weigh(h, come)
      BY <1>18, <1>20, <1>23
    <3>2. Load(h, LeftLists(V2, t)) = Load(h, LeftLists(V, t)) + Weigh(h, come)
      BY <1>18, <1>20, <1>23
    <3>3. Load(h, Lists(V, w)) = Load(h, Lists(V2, w)) + Weigh(h, gone)
      BY <1>22
    <3> QED BY <1>19, <3>1, <3>2, <3>3, Zenon
  <2>3. /\ V2.wd = V.wd /\ V2.pool = V.pool /\ V2.fl = V.fl /\ V2.bp = V.bp /\ V2.lost = V.lost
        /\ V2.spoilt = V.spoilt /\ V2.mbuf = V.mbuf
    BY <1>2, <1>3
  <2> QED BY <1>10, <1>21, <1>24, <2>1, <2>2, <2>3 DEF Gives, gone, come
<1>26. Sound(V2)
  BY <1>4, <1>10, <1>11, <1>15, <1>17, <1>25, GivesSound
<1>27. RunsOn(w)
  BY <1>1, <1>6, <1>12, <1>13 DEF RunsOn, c
<1> QED BY <1>14, <1>26, <1>27, SoundNext DEF V2

-----------------------------------------------------------------------------
(* What the ports deliver *)

SegLens(burst) == [i \in DOMAIN burst |-> Len(burst[i].segs)]
Starts(burst) == Sums(SegLens(burst), Len(burst))
\* the chains over the buffers bs
ChainAt(burst, bs, i) ==
  [pkt |-> burst[i], segs |-> [j \in DOMAIN burst[i].segs |->
     [buf |-> bs[Starts(burst)[i - 1] + j], len |-> burst[i].segs[j]]]]

\* The packets that arrive have segments.
LEMMA PacketSegs ==
  ASSUME NEW burst \in Seq(Packet)
  PROVE  /\ Len(burst) \in Nat /\ DOMAIN burst = 1 .. Len(burst) /\ Len(SegLens(burst)) = Len(burst)
         /\ \A i \in 1 .. Len(burst) :
              /\ burst[i] \in Packet /\ burst[i].segs \in Seq(Nat) /\ burst[i].segs # <<>>
              /\ SegLens(burst)[i] = Len(burst[i].segs) /\ SegLens(burst)[i] \in Nat
<1>1. Len(burst) \in Nat /\ DOMAIN burst = 1 .. Len(burst)
  OBVIOUS
<1>2. ASSUME NEW i \in 1 .. Len(burst)
      PROVE  /\ burst[i] \in Packet /\ burst[i].segs \in Seq(Nat) /\ burst[i].segs # <<>>
             /\ SegLens(burst)[i] = Len(burst[i].segs) /\ SegLens(burst)[i] \in Nat
  <2>1. burst[i] \in Packet
    OBVIOUS
  <2>2. burst[i].segs \in Seq(Nat) /\ burst[i].segs # <<>>
    BY <2>1 DEF Packet
  <2>3. SegLens(burst)[i] = Len(burst[i].segs)
    BY DEF SegLens
  <2>4. Len(burst[i].segs) \in Nat
    BY <2>2
  <2> QED BY <2>1, <2>2, <2>3, <2>4
<1>3. Len(SegLens(burst)) = Len(burst)
  <2> DEFINE f == SegLens(burst)
             n == Len(burst)
  <2>1. f = [i \in 1 .. n |-> f[i]] /\ \A i \in 1 .. n : f[i] \in Nat
    BY <1>1, <1>2 DEF SegLens
  <2> HIDE DEF f, n
  <2>2. n \in Nat
    BY <1>1 DEF n
  <2>3. Len(f) = n
    BY <2>1, <2>2, SeqFrom
  <2> QED BY <2>3 DEF f, n
<1> QED BY <1>1, <1>2, <1>3

\* where the buffers of a packet start
LEMMA StartsAre ==
  ASSUME NEW burst \in Seq(Packet)
  PROVE  LET s == Starts(burst)
             n == Len(burst)
         IN /\ Needs(burst) = s[n] /\ s[0] = 0
            /\ \A i \in 0 .. n : s[i] \in Nat /\ s[i] <= s[n]
            /\ \A i \in 1 .. n : s[i] = s[i - 1] + Len(burst[i].segs)
<1> DEFINE f == SegLens(burst)
           n == Len(burst)
           s == Starts(burst)
           S == {k \in 0 .. n : s[k] \in Nat}
           T == {k \in 0 .. n : s[n - k] <= s[n]}
<1>1. /\ n \in Nat /\ DOMAIN burst = 1 .. n /\ Len(f) = n
      /\ \A i \in 1 .. n : f[i] = Len(burst[i].segs) /\ f[i] \in Nat
  BY PacketSegs
<1>2. s[0] = 0 /\ \A i \in 1 .. n : s[i] = s[i - 1] + f[i]
  BY <1>1, SumsStep DEF Starts
<1>3. Needs(burst) = s[n]
  <2>1. SumSeq(f) = SumTo(f, n)
    BY <1>1, SumSeqIs
  <2> QED BY <2>1 DEF Needs, SegLens, SumTo, Starts
<1> HIDE DEF s, f, n
<1>4. 0 \in S
  BY <1>1, <1>2
<1>5. \A k \in 0 .. n : k < n /\ k \in S => k + 1 \in S
  <2> SUFFICES ASSUME NEW k \in 0 .. n, k < n, s[k] \in Nat
               PROVE  k + 1 \in 0 .. n /\ s[k + 1] \in Nat
    OBVIOUS
  <2>1. k + 1 \in 1 .. n /\ (k + 1) - 1 = k
    BY <1>1
  <2> QED BY <1>1, <1>2, <2>1
<1> HIDE DEF S
<1>6. \A k \in 0 .. n : k \in S
  BY <1>1, <1>4, <1>5, UpTo
<1>7. \A k \in 0 .. n : s[k] \in Nat
  BY <1>6 DEF S
<1>8. 0 \in T
  BY <1>1, <1>7
<1>9. \A k \in 0 .. n : k < n /\ k \in T => k + 1 \in T
  <2> SUFFICES ASSUME NEW k \in 0 .. n, k < n, s[n - k] <= s[n]
               PROVE  k + 1 \in 0 .. n /\ s[n - (k + 1)] <= s[n]
    OBVIOUS
  <2> DEFINE i == n - k
  <2>1. i \in 1 .. n /\ i - 1 = n - (k + 1) /\ i - 1 \in 0 .. n /\ i \in 0 .. n /\ k + 1 \in 0 .. n /\ n \in 0 .. n
    BY <1>1
  <2>2. s[i] = s[i - 1] + f[i] /\ f[i] \in Nat /\ s[i] \in Nat /\ s[i - 1] \in Nat /\ s[n] \in Nat
    BY <1>1, <1>2, <1>7, <2>1, Zenon
  <2>3. s[i] <= s[n]
    OBVIOUS
  <2> HIDE DEF i
  <2>4. s[i - 1] <= s[n]
    BY <2>2, <2>3
  <2> QED BY <2>1, <2>4
<1> HIDE DEF T
<1>10. \A k \in 0 .. n : k \in T
  BY <1>1, <1>8, <1>9, UpTo
<1>11. \A i \in 0 .. n : s[i] <= s[n]
  <2> TAKE i \in 0 .. n
  <2>1. n - i \in 0 .. n /\ n - (n - i) = i
    BY <1>1
  <2>2. n - i \in T
    BY <1>10, <2>1
  <2> QED BY <2>1, <2>2 DEF T
<1> QED BY <1>1, <1>2, <1>3, <1>7, <1>11 DEF s, n

\* the recursive function of Chains is Starts
LEMMA ChainsIs ==
  ASSUME NEW burst \in Seq(Packet), NEW free
  PROVE  /\ DOMAIN Chains(burst, free) = 1 .. Len(burst)
         /\ \A i \in 1 .. Len(burst) :
              Chains(burst, free)[i] = ChainAt(burst, FirstN(free, Needs(burst)), i)
<1> DEFINE n == Len(burst)
           bs == FirstN(free, Needs(burst))
           f == SegLens(burst)
           Is(F) == F = [i \in 0 .. n |-> IF i = 0 THEN 0 ELSE F[i - 1] + Len(burst[i].segs)]
           F0 == CHOOSE F : Is(F)
           G == Starts(burst)
<1>1. n \in Nat /\ DOMAIN burst = 1 .. n /\ \A i \in 1 .. n : f[i] = Len(burst[i].segs)
  BY PacketSegs
<1>2. G = [k \in 0 .. n |-> IF k = 0 THEN 0 ELSE G[k - 1] + f[k]]
  BY <1>1, SumsExist, Zenon DEF Starts
<1> HIDE DEF f
<1>3. Is(G)
  <2> DEFINE a == [k \in 0 .. n |-> IF k = 0 THEN 0 ELSE G[k - 1] + f[k]]
             b == [i \in 0 .. n |-> IF i = 0 THEN 0 ELSE G[i - 1] + Len(burst[i].segs)]
  <2> HIDE DEF G
  <2>1. \A k \in 0 .. n : a[k] = b[k]
    BY <1>1
  <2>2. a = [k \in 0 .. n |-> a[k]] /\ b = [k \in 0 .. n |-> b[k]]
    OBVIOUS
  <2>3. a = b
    <3> HIDE DEF a, b
    <3> QED BY <2>1, <2>2
  <2> QED BY <1>2, <2>3
<1>4. Is(F0)
  <2> HIDE DEF Is, G
  <2> QED BY <1>3
<1>5. Chains(burst, free) = [i \in DOMAIN burst |-> [pkt |-> burst[i], segs |->
        [j \in DOMAIN burst[i].segs |-> [buf |-> bs[F0[i - 1] + j], len |-> burst[i].segs[j]]]]]
  BY Zenon DEF Chains
<1> HIDE DEF F0
<1>6. F0[0] = 0 /\ \A i \in 1 .. n : F0[i] = F0[i - 1] + f[i]
  <2>1. F0 = [i \in 0 .. n |-> IF i = 0 THEN 0 ELSE F0[i - 1] + Len(burst[i].segs)]
    BY <1>4
  <2>2. 0 \in 0 .. n /\ \A i \in 1 .. n : i \in 0 .. n /\ i # 0
    BY <1>1
  <2> QED BY <1>1, <2>1, <2>2
<1>7. \A k \in 0 .. n : F0[k] = G[k]
  BY <1>1, <1>6, SumsUnique DEF Starts, f
<1> HIDE DEF bs, G
<1>8. ASSUME NEW i \in 1 .. n
      PROVE  Chains(burst, free)[i] = ChainAt(burst, bs, i)
  <2>1. i - 1 \in 0 .. n
    BY <1>1
  <2>2. F0[i - 1] = G[i - 1]
    BY <1>7, <2>1
  <2>3. Chains(burst, free)[i] = [pkt |-> burst[i], segs |->
          [j \in DOMAIN burst[i].segs |-> [buf |-> bs[F0[i - 1] + j], len |-> burst[i].segs[j]]]]
    BY <1>1, <1>5
  <2> QED BY <2>2, <2>3, Zenon DEF ChainAt, G
<1> QED BY <1>1, <1>5, <1>8 DEF bs

\* Lengths add up over a concatenation.
LEMMA CatLen ==
  ASSUME NEW s \in Seq(Nat), NEW t \in Seq(Nat)
  PROVE  s \o t \in Seq(Nat) /\ Len(s \o t) = Len(s) + Len(t)
OBVIOUS

\* The elements of a concatenation.
LEMMA CatAt ==
  ASSUME NEW s \in Seq(Nat), NEW t \in Seq(Nat)
  PROVE  \A j \in 1 .. Len(s) + Len(t) : (s \o t)[j] = IF j <= Len(s) THEN s[j] ELSE t[j - Len(s)]
OBVIOUS

\* the first p elements, and the rest up to q
LEMMA SubSeqCat ==
  ASSUME NEW bs \in Seq(Nat), NEW p \in Nat, NEW q \in Nat, p <= q, q <= Len(bs), NEW b \in Seq(Nat),
         Len(b) = q - p, \A j \in 1 .. q - p : b[j] = bs[p + j]
  PROVE  SubSeq(bs, 1, q) = SubSeq(bs, 1, p) \o b
<1> DEFINE a == SubSeq(bs, 1, p)
           c == SubSeq(bs, 1, q)
           d == a \o b
<1>1. a \in Seq(Nat) /\ Len(a) = p /\ \A j \in 1 .. p : a[j] = bs[j]
  OBVIOUS
<1>2. c \in Seq(Nat) /\ Len(c) = q /\ \A j \in 1 .. q : c[j] = bs[j]
  OBVIOUS
<1> HIDE DEF a, c
<1>0. q - p \in Nat
  OBVIOUS
<1>3. d \in Seq(Nat) /\ Len(d) = p + (q - p)
  <2>1. d \in Seq(Nat) /\ Len(d) = Len(a) + Len(b)
    BY <1>1, CatLen
  <2> QED BY <1>1, <2>1
<1>4. \A j \in 1 .. p + (q - p) : d[j] = IF j <= p THEN a[j] ELSE b[j - p]
  <2>1. \A j \in 1 .. Len(a) + Len(b) : d[j] = IF j <= Len(a) THEN a[j] ELSE b[j - Len(a)]
    BY <1>1, CatAt
  <2> HIDE DEF d
  <2> QED BY <1>1, <2>1
<1>5. p + (q - p) = q
  OBVIOUS
<1> HIDE DEF d
<1>6. ASSUME NEW j \in 1 .. q
      PROVE  d[j] = c[j]
  <2>1. CASE j <= p
    <3>1. j \in 1 .. p
      BY <2>1
    <3> QED BY <1>1, <1>2, <1>4, <1>5, <2>1, <3>1, Zenon
  <2>2. CASE j > p
    <3> DEFINE x == j - p
    <3>1. x \in 1 .. q - p /\ p + x = j /\ ~(j <= p) /\ j \in 1 .. p + (q - p)
      BY <1>5, <2>2
    <3>2. d[j] = b[x]
      BY <1>4, <3>1
    <3> HIDE DEF x
    <3>3. b[x] = bs[p + x]
      BY <3>1
    <3>4. c[j] = bs[j]
      BY <1>2
    <3> QED BY <3>1, <3>2, <3>3, <3>4
  <2> QED BY <2>1, <2>2
<1>7. c = d
  BY <1>2, <1>3, <1>5, <1>6, SeqSame
<1> QED BY <1>7 DEF c, d, a

\* the chains ch have their buffers out of the set free, each buffer once
AreChains(ch, burst, free) ==
  /\ \A i \in 1 .. Len(burst) :
       /\ ch[i] \in MbufType /\ ch[i].pkt = burst[i] /\ ch[i].segs # <<>>
       /\ Bufs(ch[i].segs) \in Seq(free)
  /\ \A e \in Buffers :
       SumTo([i \in 1 .. Len(burst) |-> Times(e, Bufs(ch[i].segs))], Len(burst)) \in {0, 1}

\* The port puts the packets it received into buffers of the mempool, each into
\* its own.
LEMMA ChainsAre ==
  ASSUME NEW burst \in Seq(Packet), NEW free, free \subseteq Buffers, Cardinality(free) >= Needs(burst)
  PROVE  AreChains(Chains(burst, free), burst, free)
<1> DEFINE ch == Chains(burst, free)
           n == Len(burst)
           s == Starts(burst)
           m == Needs(burst)
           bs == FirstN(free, m)
<1>1. /\ n \in Nat
      /\ \A i \in 1 .. n : /\ burst[i] \in Packet /\ burst[i].segs \in Seq(Nat) /\ burst[i].segs # <<>>
  BY PacketSegs
<1>2. /\ m = s[n] /\ s[0] = 0 /\ \A i \in 0 .. n : s[i] \in Nat /\ s[i] <= s[n]
      /\ \A i \in 1 .. n : s[i] = s[i - 1] + Len(burst[i].segs)
  BY StartsAre
<1>3. m \in Nat
  BY <1>1, <1>2
<1>4. /\ bs \in Seq(free) /\ Len(bs) = m
      /\ \A i, j \in DOMAIN bs : bs[i] = bs[j] => i = j
  <2> HIDE DEF m
  <2>1. m \in Int /\ ~(m < 0) /\ m <= Cardinality(free)
    <3>1. Cardinality(free) \in Nat
      BY PacketAssumption, FS_Subset, FS_CardinalityType
    <3> QED BY <1>3, <3>1 DEF m
  <2> QED BY <2>1, FirstNFacts
<1>5. \A i \in 1 .. n : ch[i] = ChainAt(burst, bs, i)
  BY ChainsIs
<1> HIDE DEF ch, bs, m, s, n
<1>6. ASSUME NEW i \in 1 .. n
      PROVE  /\ ch[i] \in MbufType /\ ch[i].pkt = burst[i] /\ ch[i].segs # <<>>
             /\ Bufs(ch[i].segs) \in Seq(free) /\ Bufs(ch[i].segs) \in Seq(Nat)
             /\ Len(Bufs(ch[i].segs)) = Len(burst[i].segs)
             /\ \A j \in 1 .. Len(burst[i].segs) : Bufs(ch[i].segs)[j] = bs[s[i - 1] + j]
  <2> DEFINE l == Len(burst[i].segs)
             seg(j) == [buf |-> bs[s[i - 1] + j], len |-> burst[i].segs[j]]
             ss == [j \in 1 .. l |-> seg(j)]
  <2>1. /\ burst[i] \in Packet /\ burst[i].segs \in Seq(Nat) /\ burst[i].segs # <<>>
        /\ DOMAIN burst[i].segs = 1 .. l /\ l \in Nat /\ l # 0
    BY <1>1
  <2>2. s[i] = s[i - 1] + l /\ s[i] <= m /\ s[i - 1] \in Nat /\ s[i] \in Nat
    <3>1. i - 1 \in 0 .. n /\ i \in 0 .. n
      BY <1>1
    <3> QED BY <1>2, <3>1
  <2>3. ch[i] = [pkt |-> burst[i], segs |-> ss]
    BY <1>5, <2>1 DEF ChainAt, s
  <2>4. ASSUME NEW j \in 1 .. l
        PROVE  seg(j) \in SegType /\ seg(j).buf = bs[s[i - 1] + j] /\ bs[s[i - 1] + j] \in free
    <3> DEFINE k == s[i - 1] + j
    <3>1. k \in 1 .. m
      <4> DEFINE p == s[i - 1]
                 q == s[i]
      <4>1. q = p + l /\ q <= m /\ p \in Nat /\ q \in Nat /\ l \in Nat /\ j \in 1 .. l /\ m \in Nat
        BY <1>3, <2>1, <2>2
      <4> HIDE DEF l, p, q
      <4>2. p + j \in 1 .. m
        BY <4>1
      <4> QED BY <4>2 DEF p
    <3>2. bs[k] \in free
      BY <1>4, <3>1
    <3>3. burst[i].segs[j] \in Int
      BY <2>1
    <3> HIDE DEF k
    <3>4. [buf |-> bs[k], len |-> burst[i].segs[j]] \in SegType
      BY <3>2, <3>3 DEF SegType
    <3> QED BY <3>2, <3>4 DEF k
  <2> HIDE DEF seg
  <2>5. ss \in Seq(SegType) /\ Len(ss) = l /\ \A j \in 1 .. l : ss[j] = seg(j)
    <3>1. ss = [j \in 1 .. l |-> ss[j]] /\ \A j \in 1 .. l : ss[j] = seg(j) /\ ss[j] \in SegType
      BY <2>4
    <3> HIDE DEF ss, l
    <3> QED BY <2>1, <3>1, SeqFrom, Zenon
  <2> HIDE DEF ss
  <2>6. ch[i].pkt = burst[i] /\ ch[i].segs = ss /\ ch[i] \in MbufType
    BY <2>1, <2>3, <2>5 DEF MbufType
  <2>7. ss # <<>>
    BY <2>1, <2>5
  <2>8. /\ Bufs(ss) \in Seq(Buffers) /\ Len(Bufs(ss)) = l
        /\ \A j \in 1 .. l : Bufs(ss)[j] = ss[j].buf
    BY <2>5, BufsType
  <2>9. \A j \in 1 .. l : Bufs(ss)[j] = bs[s[i - 1] + j] /\ Bufs(ss)[j] \in free
    BY <2>4, <2>5, <2>8
  <2>10. Bufs(ss) \in Seq(free)
    <3> DEFINE b == Bufs(ss)
    <3>1. b \in Seq(Buffers) /\ Len(b) = l /\ \A j \in 1 .. l : b[j] \in free
      BY <2>8, <2>9
    <3> HIDE DEF b
    <3>2. b = [j \in 1 .. l |-> b[j]]
      BY <3>1
    <3> HIDE DEF l
    <3>3. b \in Seq(free)
      BY <2>1, <3>1, <3>2, SeqFrom
    <3> QED BY <3>3 DEF b
  <2>11. Bufs(ss) \in Seq(Nat)
    BY <2>8, BuffersNat
  <2> QED BY <2>6, <2>7, <2>8, <2>9, <2>10, <2>11
<1>7. bs \in Seq(Nat) /\ \A k \in 0 .. m : SubSeq(bs, 1, k) \in Seq(Nat) /\ Len(SubSeq(bs, 1, k)) = k
  <2>1. bs \in Seq(Buffers)
    BY <1>4
  <2>2. bs \in Seq(Nat)
    BY <2>1, BuffersNat
  <2> QED BY <1>3, <1>4, <2>2
<1>8. ASSUME NEW e \in Buffers
      PROVE  SumTo([i \in 1 .. n |-> Times(e, Bufs(ch[i].segs))], n) \in {0, 1}
  <2> DEFINE f == [i \in 1 .. n |-> Times(e, Bufs(ch[i].segs))]
             r == Sums(f, n)
             S == {k \in 0 .. n : r[k] = Times(e, SubSeq(bs, 1, s[k]))}
  <2>1. r[0] = 0 /\ \A k \in 1 .. n : r[k] = r[k - 1] + f[k]
    BY <1>1, SumsStep
  <2>2. \A k \in 1 .. n : f[k] = Times(e, Bufs(ch[k].segs)) /\ f[k] \in Nat
    BY <1>6, TimesNat
  <2> HIDE DEF r, f
  <2>3. 0 \in S
    <3>1. SubSeq(bs, 1, 0) = <<>>
      BY <1>7
    <3>2. Times(e, SubSeq(bs, 1, s[0])) = 0
      BY <1>2, <3>1, TimesEmpty
    <3> QED BY <1>1, <2>1, <3>2
  <2>4. \A k \in 0 .. n : k < n /\ k \in S => k + 1 \in S
    <3> SUFFICES ASSUME NEW k \in 0 .. n, k < n, r[k] = Times(e, SubSeq(bs, 1, s[k]))
                 PROVE  k + 1 \in 0 .. n /\ r[k + 1] = Times(e, SubSeq(bs, 1, s[k + 1]))
      OBVIOUS
    <3> DEFINE i == k + 1
               b == Bufs(ch[i].segs)
               l == Len(burst[i].segs)
               a == SubSeq(bs, 1, s[k])
    <3>1. i \in 1 .. n /\ i - 1 = k /\ i \in 0 .. n
      BY <1>1
    <3>2. s[i] = s[k] + l /\ s[k] \in Nat /\ s[i] \in Nat /\ s[i] <= m /\ l \in Nat
      <4> HIDE DEF i
      <4>1. s[i] = s[i - 1] + l /\ s[i] \in Nat /\ s[i] <= m
        BY <1>2, <3>1
      <4>2. l \in Nat
        BY <1>1, <3>1
      <4>3. s[k] \in Nat
        BY <1>2
      <4> QED BY <3>1, <4>1, <4>2, <4>3
    <3>3. b \in Seq(Nat) /\ Len(b) = l /\ \A j \in 1 .. l : b[j] = bs[s[k] + j]
      BY <1>6, <3>1
    <3>4. r[i] = r[k] + Times(e, b) /\ r[k] = Times(e, a)
      BY <2>1, <2>2, <3>1
    <3> HIDE DEF b, l, i
    <3>5. SubSeq(bs, 1, s[i]) = a \o b
      <4> DEFINE p == s[k]
                 q == s[i]
      <4>1. p \in Nat /\ q \in Nat /\ q = p + l /\ q <= m /\ Len(bs) = m /\ l \in Nat
        BY <1>3, <1>4, <3>2
      <4>2. b \in Seq(Nat) /\ Len(b) = l /\ \A j \in 1 .. l : b[j] = bs[p + j]
        BY <3>3
      <4> HIDE DEF p, q
      <4>3. p <= q /\ q <= Len(bs) /\ q - p = l
        BY <4>1
      <4>5. Len(b) = q - p /\ \A j \in 1 .. q - p : b[j] = bs[p + j]
        BY <4>2, <4>3
      <4>6. bs \in Seq(Nat) /\ b \in Seq(Nat) /\ p \in Nat /\ q \in Nat
        BY <1>7, <4>1, <4>2
      <4>4. SubSeq(bs, 1, q) = SubSeq(bs, 1, p) \o b
        <5> HIDE DEF l
        <5> QED BY <4>3, <4>5, <4>6, SubSeqCat, Zenon
      <4> QED BY <4>4 DEF p, q
    <3>6. a \in Seq(Nat)
      <4>1. s[k] \in 0 .. m
        BY <1>2, <1>3
      <4> QED BY <1>7, <4>1
    <3> HIDE DEF a
    <3>7. Times(e, a \o b) = Times(e, a) + Times(e, b)
      BY <3>3, <3>6, TimesConcat
    <3> QED BY <3>1, <3>4, <3>5, <3>7 DEF i
  <2> HIDE DEF S
  <2>5. \A k \in 0 .. n : k \in S
    BY <1>1, <2>3, <2>4, UpTo
  <2>6. r[n] = Times(e, bs)
    <3>1. n \in S
      BY <1>1, <2>5
    <3>2. SubSeq(bs, 1, s[n]) = bs
      BY <1>2, <1>4, <1>7
    <3> QED BY <3>1, <3>2 DEF S
  <2>7. Times(e, bs) \in {0, 1}
    BY <1>4, <1>7, TimesInjective
  <2> QED BY <2>6, <2>7 DEF SumTo, r, f
<1> QED BY <1>6, <1>8 DEF AreChains, ch, n

\* what the chains of a burst have: each its head, and no buffer two of them
Heads(ch, n) == [i \in 1 .. n |-> ch[i].segs[1].buf]
InChain(ch, n, e) == \E i \in 1 .. n : e \in Range(Bufs(ch[i].segs))
ChainTimes(ch, n, e) == [i \in 1 .. n |-> Times(e, Bufs(ch[i].segs))]

\* The first segments of those packets differ, and a buffer is in one of them at
\* most.
LEMMA ChainHeads ==
  ASSUME NEW burst, NEW n \in Nat, n = Len(burst), NEW free, free \subseteq Buffers, NEW ch, AreChains(ch, burst, free)
  PROVE  /\ Heads(ch, n) \in Seq(free) /\ Len(Heads(ch, n)) = n
         /\ \A i \in 1 .. n : /\ Heads(ch, n)[i] = ch[i].segs[1].buf
                               /\ ch[i] \in MbufType /\ ch[i].segs # <<>> /\ Bufs(ch[i].segs) \in Seq(Nat)
         /\ \A i, j \in 1 .. n : Heads(ch, n)[i] = Heads(ch, n)[j] => i = j
         /\ \A e \in Buffers : /\ SumTo(ChainTimes(ch, n, e), n) = Ind(InChain(ch, n, e))
                               /\ InChain(ch, n, e) => e \in free
<1> DEFINE hs == Heads(ch, n)
<1>1. ASSUME NEW i \in 1 .. n
      PROVE  /\ ch[i] \in MbufType /\ ch[i].segs # <<>> /\ Bufs(ch[i].segs) \in Seq(Nat)
             /\ hs[i] = ch[i].segs[1].buf /\ hs[i] \in free /\ Times(hs[i], Bufs(ch[i].segs)) >= 1
             /\ \A e : e \in Range(Bufs(ch[i].segs)) => e \in free /\ Times(e, Bufs(ch[i].segs)) >= 1
             /\ \A e : e \notin Range(Bufs(ch[i].segs)) => Times(e, Bufs(ch[i].segs)) = 0
  <2> DEFINE segs == ch[i].segs
             b == Bufs(segs)
  <2>1. ch[i] \in MbufType /\ segs # <<>> /\ b \in Seq(free)
    BY DEF AreChains
  <2>2. segs \in Seq(SegType)
    BY <2>1 DEF MbufType
  <2> HIDE DEF segs
  <2>3. /\ b \in Seq(Buffers) /\ Len(b) = Len(segs)
        /\ \A j \in 1 .. Len(segs) : b[j] = segs[j].buf
    BY <2>2, BufsType
  <2>4. b \in Seq(Nat)
    BY <2>3, BuffersNat
  <2> HIDE DEF b
  <2>5. DOMAIN b = 1 .. Len(segs) /\ 1 \in 1 .. Len(segs) /\ \A j \in DOMAIN b : b[j] \in free
    BY <2>1, <2>2, <2>3
  <2>6. hs[i] = segs[1].buf
    BY DEF segs, Heads
  <2>7. hs[i] = b[1] /\ hs[i] \in free /\ Times(hs[i], b) >= 1
    BY <2>3, <2>4, <2>5, <2>6, TimesSome
  <2>8. ASSUME NEW e, e \in Range(b)
        PROVE  e \in free /\ Times(e, b) >= 1
    <3>1. PICK j \in DOMAIN b : b[j] = e
      BY <2>8 DEF Range
    <3>2. Times(b[j], b) >= 1
      BY <2>4, TimesSome
    <3> QED BY <2>5, <3>1, <3>2
  <2>9. ASSUME NEW e, e \notin Range(b)
        PROVE  Times(e, b) = 0
    <3>1. \A j \in DOMAIN b : b[j] # e
      BY <2>9 DEF Range
    <3> QED BY <2>4, <3>1, TimesNone
  <2> QED BY <2>1, <2>4, <2>6, <2>7, <2>8, <2>9 DEF b, segs
<1>2. hs = [i \in 1 .. n |-> hs[i]]
  BY DEF Heads
<1>3. \A e \in Buffers : \A i \in 1 .. n :
        ChainTimes(ch, n, e)[i] = Times(e, Bufs(ch[i].segs)) /\ ChainTimes(ch, n, e)[i] \in Nat
  <2>1. \A e \in Buffers : \A i \in 1 .. n : Times(e, Bufs(ch[i].segs)) \in Nat
    BY <1>1, TimesNat, Zenon
  <2> QED BY <2>1 DEF ChainTimes
<1> HIDE DEF hs
<1>4. hs \in Seq(free) /\ Len(hs) = n
  BY <1>1, <1>2, SeqFrom
<1>5. \A e \in Buffers : SumTo(ChainTimes(ch, n, e), n) \in {0, 1}
  BY DEF AreChains, ChainTimes
<1>6. ASSUME NEW i \in 1 .. n, NEW j \in 1 .. n, hs[i] = hs[j], i # j
      PROVE  FALSE
  <2> DEFINE e == hs[i]
             f == ChainTimes(ch, n, e)
  <2>1. e \in Buffers
    BY <1>1
  <2>2. f[i] = Times(e, Bufs(ch[i].segs)) /\ f[j] = Times(e, Bufs(ch[j].segs)) /\ \A k \in 1 .. n : f[k] \in Nat
    BY <1>3, <2>1
  <2>3. Times(e, Bufs(ch[i].segs)) >= 1 /\ Times(e, Bufs(ch[j].segs)) >= 1
    BY <1>1, <1>6, Zenon
  <2>4. SumTo(f, n) \in {0, 1}
    BY <1>5, <2>1
  <2> HIDE DEF f, e
  <2>5. SumTo(f, n) >= f[i] + f[j]
    BY <1>6, <2>2, SumAtLeastTwo, Zenon
  <2>6. f[i] \in Nat /\ f[j] \in Nat
    BY <2>2
  <2> QED BY <2>2, <2>3, <2>4, <2>5, <2>6
<1>7. ASSUME NEW e \in Buffers
      PROVE  /\ SumTo(ChainTimes(ch, n, e), n) = Ind(InChain(ch, n, e))
             /\ InChain(ch, n, e) => e \in free
  <2> DEFINE f == ChainTimes(ch, n, e)
  <2>1. \A k \in 1 .. n : f[k] \in Nat /\ f[k] = Times(e, Bufs(ch[k].segs))
    BY <1>3
  <2>2. SumTo(f, n) \in {0, 1}
    BY <1>5
  <2> HIDE DEF f
  <2>3. CASE InChain(ch, n, e)
    <3>1. PICK i \in 1 .. n : e \in Range(Bufs(ch[i].segs))
      BY <2>3 DEF InChain
    <3>2. e \in free /\ Times(e, Bufs(ch[i].segs)) >= 1
      BY <1>1, <3>1
    <3>3. SumTo(f, n) >= f[i]
      BY <2>1, SumAtLeast
    <3>4. SumTo(f, n) = 1
      BY <2>1, <2>2, <3>2, <3>3
    <3> QED BY <2>3, <3>2, <3>4 DEF Ind, f
  <2>4. CASE ~InChain(ch, n, e)
    <3>1. \A k \in 1 .. n : f[k] = 0
      BY <1>1, <2>1, <2>4 DEF InChain
    <3>2. SumTo(f, n) = 0
      BY <3>1, SumZero
    <3> QED BY <2>4, <3>2 DEF Ind, f
  <2> QED BY <2>3, <2>4
<1> QED BY <1>1, <1>4, <1>6, <1>7 DEF hs

\* what the ports deliver is in free buffers, and each packet in its own
LEMMA InputSound ==
  ASSUME Sound(Now), NEW w \in Workers, dpdk_device_input(w), cur[w] = NoRun,
         rxq \in [Workers -> Seq(Seq(Packet))], handoff \in [Intf -> BOOLEAN], mbuf = [b \in Buffers |-> mbuf[b]]
  PROVE  /\ Sound(Now)' /\ cur' = [cur EXCEPT ![w] = cur'[w]] /\ cur'[w].queue = 0
         /\ rxq' \in [Workers -> Seq(Seq(Packet))] /\ mbuf' = [b \in Buffers |-> mbuf'[b]]
<1> DEFINE V == Now
           V2 == Now'
           burst == Head(rxq[w])
           n == Len(burst)
           free == FreeIn(mempool)
           ch == Chains(burst, free)
           hs == Heads(ch, n)
           r == RunNode(RxNode, hs)
           c == [r EXCEPT !.hand = handoff[RxIntf[w]]]
           come == PairsOf(RxNode, hs)
           R == Lists(V, w)
<1>1. /\ rxq[w] # <<>> /\ Cardinality(free) >= Needs(burst)
      /\ rxq' = [rxq EXCEPT ![w] = Tail(@)]
      /\ UNCHANGED <<wd, freelist, blkpool, lost, spoilt, pend, fq>>
  BY Zenon DEF dpdk_device_input, CanReceive
<1>2. burst \in Seq(Packet) /\ rxq' \in [Workers -> Seq(Seq(Packet))]
  <2>1. rxq[w] \in Seq(Seq(Packet))
    OBVIOUS
  <2>2. burst \in Seq(Packet) /\ Tail(rxq[w]) \in Seq(Seq(Packet))
    BY <1>1, <2>1
  <2> QED BY <1>1, <2>2
<1>3. free \subseteq Buffers /\ n \in Nat
  BY <1>2 DEF FreeIn
<1>4. AreChains(ch, burst, free)
  BY <1>1, <1>2, <1>3, ChainsAre
<1>5. DOMAIN ch = 1 .. n
  BY <1>2, ChainsIs
<1> DEFINE hp == [i \in DOMAIN ch |-> ch[i].segs[1].buf]
<1>6. /\ mempool' = [b \in Buffers |-> IF \E i \in DOMAIN ch : b \in Range(Bufs(ch[i].segs))
                                       THEN mempool[b] - 1 ELSE mempool[b]]
      /\ mbuf' = [b \in Buffers |-> IF b \in Range(hp) THEN ch[CHOOSE i \in DOMAIN hp : hp[i] = b] ELSE mbuf[b]]
      /\ cur' = [cur EXCEPT ![w] = [RunNode(RxNode, hp) EXCEPT !.hand = handoff[RxIntf[w]]]]
  BY Zenon DEF dpdk_device_input, RxNode
<1>7. hp = hs
  BY <1>5, Zenon DEF Heads
<1> HIDE DEF ch, burst, n, free, hp
<1>8. /\ hs \in Seq(free) /\ Len(hs) = n
      /\ \A i \in 1 .. n : /\ hs[i] = ch[i].segs[1].buf
                            /\ ch[i] \in MbufType /\ ch[i].segs # <<>> /\ Bufs(ch[i].segs) \in Seq(Nat)
      /\ \A i, j \in 1 .. n : hs[i] = hs[j] => i = j
      /\ \A e \in Buffers : /\ SumTo(ChainTimes(ch, n, e), n) = Ind(InChain(ch, n, e))
                            /\ InChain(ch, n, e) => e \in free
  BY <1>3, <1>4, ChainHeads DEF n
<1> HIDE DEF hs
<1>9. mempool' = [b \in Buffers |-> IF InChain(ch, n, b) THEN mempool[b] - 1 ELSE mempool[b]]
  BY <1>5, <1>6, Zenon DEF InChain
<1>10. mbuf' = [b \in Buffers |-> IF b \in Range(hs) THEN ch[CHOOSE i \in DOMAIN hs : hs[i] = b] ELSE mbuf[b]]
  <2> DEFINE M(h) == [b \in Buffers |-> IF b \in Range(h) THEN ch[CHOOSE i \in DOMAIN h : h[i] = b] ELSE mbuf[b]]
  <2>1. mbuf' = M(hp)
    BY <1>6
  <2> HIDE DEF M
  <2>2. mbuf' = M(hs)
    BY <1>7, <2>1
  <2> QED BY <2>2 DEF M
<1>11. cur' = [cur EXCEPT ![w] = c]
  BY <1>6, <1>7, Zenon
<1>12. hs \in Seq(Buffers) /\ DOMAIN hs = 1 .. n /\ \A i \in 1 .. n : hs[i] \in free /\ hs[i] \in Buffers
  BY <1>3, <1>8
<1>13. \A i \in 1 .. n : mbuf'[hs[i]] = ch[i]
  <2> TAKE i \in 1 .. n
  <2> DEFINE j == CHOOSE k \in DOMAIN hs : hs[k] = hs[i]
  <2>1. j \in DOMAIN hs /\ hs[j] = hs[i]
    BY <1>12
  <2> HIDE DEF j
  <2>2. j = i
    BY <1>8, <1>12, <2>1
  <2>3. hs[i] \in Range(hs) /\ hs[i] \in Buffers
    BY <1>12 DEF Range
  <2>4. mbuf'[hs[i]] = ch[j]
    BY <1>10, <2>3 DEF j
  <2> QED BY <2>2, <2>4
<1>14. ASSUME NEW b \in Buffers
       PROVE  (b \in Range(hs) => \E i \in 1 .. n : hs[i] = b) /\ (b \notin Range(hs) => mbuf'[b] = mbuf[b])
  BY <1>10, <1>12 DEF Range
<1>15. mbuf' = [b \in Buffers |-> mbuf'[b]]
  BY <1>10
<1>16. /\ V.wd = wd /\ V.pool = mempool /\ V.fl = freelist /\ V.bp = blkpool /\ V.cur = cur
       /\ V.lost = lost /\ V.spoilt = spoilt /\ V.mbuf = mbuf /\ V.pend = pend /\ V.fq = fq
  BY NowIs
<1>17. /\ V2.wd = wd /\ V2.pool = mempool' /\ V2.fl = freelist /\ V2.bp = blkpool /\ V2.cur = cur'
       /\ V2.lost = lost /\ V2.spoilt = spoilt /\ V2.mbuf = mbuf' /\ V2.pend = pend /\ V2.fq = fq
  BY <1>1, NextIs
<1>18. ViewType(V) /\ RunInv(V, w)
  BY DEF Sound
<1> HIDE DEF V, V2
<1>19. /\ cur \in [Workers -> RunType] /\ pend \in [Workers -> Seq(FrameType)]
       /\ fq \in [Workers -> Seq(Seq(Buffers))] /\ mempool \in [Buffers -> Nat]
       /\ \A b \in Buffers : mbuf[b].segs \in Seq(SegType)
  BY <1>16, <1>18 DEF ViewType
<1>20. RxNode \in Nodes
  BY DEF Nodes
<1>21. RunBegins(r, RxNode, hs)
  BY <1>12, <1>20, RunNodeIs
<1> HIDE DEF r
<1>22. RunBegins(c, RxNode, hs)
  <2>1. RxIntf[w] \in Intf
    BY PacketAssumption
  <2>2. handoff[RxIntf[w]] \in BOOLEAN
    BY <2>1
  <2>3. r \in RunType
    BY <1>21 DEF RunBegins
  <2>4. c \in RunType /\ c.node = r.node /\ c.frame = r.frame /\ c.left = r.left /\ c.to = r.to
        /\ c.away = r.away /\ c.drops = r.drops /\ c.queue = r.queue
    BY <2>2, <2>3 DEF RunType
  <2> HIDE DEF c
  <2> QED BY <1>21, <2>4 DEF RunBegins
<1> HIDE DEF c
<1>23. c \in RunType /\ c.drops = <<>> /\ c.queue = 0
  BY <1>22 DEF RunBegins
<1>24. cur' \in [Workers -> RunType] /\ cur'[w] = c /\ cur[w] = NoRun /\ cur[w].drops = <<>>
       /\ \A v \in Workers : v # w => cur'[v] = cur[v]
  BY <1>11, <1>19, <1>23, NoRunIs
<1>25. /\ RunInv(V2, w)
       /\ Lists(V2, w) = [list |-> come, to |-> <<>>, away |-> <<>>, pend |-> pend[w], fq |-> fq[w]]
       /\ LeftLists(V2, w) = Lists(V2, w)
  <2>1. RunBegins(V2.cur[w], RxNode, hs)
    BY <1>17, <1>22, <1>24
  <2> QED BY <1>12, <1>17, <1>20, <2>1, BeginHolds
<1>26. /\ R = [list |-> <<>>, to |-> <<>>, away |-> <<>>, pend |-> pend[w], fq |-> fq[w]]
       /\ LeftLists(V, w) = R /\ R = Lists(V, w)
  <2>1. V.cur[w] = NoRun
    BY <1>16
  <2> QED BY <1>16, <2>1, IdleLists
<1>27. R \in ListsType
  BY <1>18, ListsTypes
<1>28. /\ come \in Seq(Pairs) /\ Len(come) = n
       /\ \A i \in 1 .. n : come[i] = <<RxNode, hs[i]>> /\ come[i] \in Pairs
  <2>1. come \in Seq(Pairs) /\ Len(come) = n /\ \A i \in 1 .. n : come[i] = <<RxNode, hs[i]>>
    BY <1>8, <1>12, <1>20, PairsOfType
  <2> HIDE DEF come
  <2> QED BY <2>1
<1> HIDE DEF come, R
<1> DEFINE gone == <<>>
<1>29. gone \in Seq(Pairs) /\ \A h : Weigh(h, gone) = 0
  BY WeighEmpty
<1> HIDE DEF gone
<1>30. Moves(V, V2, w, R, gone, come)
  <2>1. ASSUME NEW h \in [Pairs -> Nat]
        PROVE  /\ Load(h, Lists(V, w)) = Load(h, R) + Weigh(h, gone)
               /\ Load(h, Lists(V2, w)) = Load(h, R) + Weigh(h, come)
    <3> DEFINE m == Weigh(h, come)
               p == Weigh(FrameOf(h), pend[w])
               q == Weigh(QueueOf(h), fq[w])
    <3>1. Weigh(h, <<>>) = 0 /\ Weigh(AwayOf(h), <<>>) = 0
      BY WeighEmpty, Zenon
    <3>2. Load(h, R) = 0 + 0 + 0 + p + q
      BY <1>26, <3>1 DEF Load
    <3>3. Load(h, Lists(V2, w)) = m + 0 + 0 + p + q
      BY <1>25, <3>1 DEF Load
    <3>4. m \in Nat /\ p \in Nat /\ q \in Nat
      <4>1. QueueOf(h) \in [Seq(Buffers) -> Nat] /\ fq[w] \in Seq(Seq(Buffers))
        BY <1>19, QueueOfType
      <4>2. FrameOf(h) \in [FrameType -> Nat] /\ pend[w] \in Seq(FrameType)
        BY <1>19, FrameOfType
      <4> QED BY <1>28, <4>1, <4>2, WeighNat, Zenon
    <3> HIDE DEF m, p, q
    <3>5. Weigh(h, gone) = 0 /\ Load(h, Lists(V, w)) = Load(h, R)
      BY <1>26, <1>29
    <3>6. Load(h, Lists(V2, w)) = Load(h, R) + m
      BY <3>2, <3>3, <3>4
    <3>7. Load(h, R) \in Nat
      BY <3>2, <3>4
    <3> QED BY <3>5, <3>6, <3>7 DEF m
  <2> QED BY <1>27, <1>28, <1>29, <2>1 DEF Moves
<1>31. \A e \in Buffers : mempool[e] \in Nat /\ (InChain(ch, n, e) => mempool[e] >= 1) /\ (e \in Range(hs) => mempool[e] >= 1)
  <2> TAKE e \in Buffers
  <2>1. mempool[e] \in Nat
    BY <1>19
  <2>2. e \in free => mempool[e] >= 1
    BY <2>1 DEF free, FreeIn
  <2>3. e \in Range(hs) => e \in free
    BY <1>12, <1>14
  <2> QED BY <1>8, <2>1, <2>2, <2>3
<1>32. mempool' \in [Buffers -> Nat]
  <2>1. \A e \in Buffers : (IF InChain(ch, n, e) THEN mempool[e] - 1 ELSE mempool[e]) \in Nat
    BY <1>31
  <2> QED BY <1>9, <2>1
<1>33. ASSUME NEW b \in Buffers
       PROVE  mbuf'[b].segs \in Seq(SegType)
  <2>1. CASE b \in Range(hs)
    <3>1. PICK i \in 1 .. n : hs[i] = b
      BY <1>14, <2>1
    <3>2. mbuf'[b] = ch[i] /\ ch[i] \in MbufType
      BY <1>8, <1>13, <3>1, Zenon
    <3> QED BY <3>2 DEF MbufType
  <2>2. CASE b \notin Range(hs)
    BY <1>14, <1>19, <2>2
  <2> QED BY <2>1, <2>2
<1>34. ViewType(V2)
  BY <1>16, <1>17, <1>18, <1>24, <1>32, <1>33, Zenon DEF ViewType
<1>35. OthersSame(V, V2, w)
  BY <1>16, <1>17, <1>24 DEF OthersSame
<1>36. Owned(V, V2, w, gone)
  <2>1. ASSUME NEW e \in Buffers, V2.wd[e] # V.wd[e] \/ V2.mbuf[e] # V.mbuf[e]
        PROVE  V.pool[e] + Weigh(Holds(V, e), gone) >= 1
    <3>1. e \in Range(hs)
      BY <1>14, <1>16, <1>17, <2>1
    <3>2. mempool[e] \in Nat /\ mempool[e] >= 1
      BY <1>31, <3>1
    <3> QED BY <1>16, <1>29, <3>2
  <2> QED BY <2>1 DEF Owned
<1>37. ASSUME NEW i \in 1 .. Len(come)
       PROVE  Fit(V2, w, come[i])
  <2> DEFINE b == hs[i]
             x == <<RxNode, b>>
  <2>1. i \in 1 .. n /\ come[i] = x
    BY <1>28
  <2>2. V2.mbuf[b] = ch[i] /\ ch[i] \in MbufType /\ ch[i].segs # <<>> /\ ch[i].segs[1].buf = b
    BY <1>8, <1>13, <1>17, <2>1
  <2> HIDE DEF b
  <2>3. /\ RxNode \notin Before /\ RxNode \notin TxNodes /\ RxNode # HugeInputNode /\ RxNode # HugeOutNode
        /\ RxNode # HandoffNode /\ RxNode # HfInputNode
    BY DEF Before, TxNodes, RxNode, HugeOutNode, HandoffNode, HfInputNode, HugeInputNode, N, Tx
  <2>4. x[1] = RxNode /\ x[2] = b
    OBVIOUS
  <2> HIDE DEF x
  <2>5. Fit(V2, w, x)
    BY <2>2, <2>3, <2>4 DEF Fit
  <2> QED BY <2>1, <2>5, Zenon
<1>38. ASSUME NEW e \in Buffers
       PROVE  Weigh(Holds(V2, e), come) = Ind(InChain(ch, n, e))
  <2> DEFINE g == ChainTimes(ch, n, e)
             f == [i \in 1 .. Len(come) |-> Holds(V2, e)[come[i]]]
  <2>1. ASSUME NEW i \in 1 .. n
        PROVE  f[i] = g[i] /\ g[i] \in Nat
    <3>1. come[i] = <<RxNode, hs[i]>> /\ come[i] \in Pairs
      BY <1>28
    <3>2. Holds(V2, e)[come[i]] = Times(e, Own(V2, come[i]))
      BY <1>34, <3>1, HoldsType
    <3>3. Own(V2, come[i]) = Bufs(V2.mbuf[hs[i]].segs)
      BY <3>1 DEF Own
    <3>4. V2.mbuf[hs[i]] = ch[i] /\ Bufs(ch[i].segs) \in Seq(Nat)
      BY <1>8, <1>13, <1>17
    <3>5. f[i] = Times(e, Bufs(ch[i].segs)) /\ Times(e, Bufs(ch[i].segs)) \in Nat
      BY <1>28, <3>2, <3>3, <3>4, TimesNat
    <3>6. g[i] = Times(e, Bufs(ch[i].segs))
      BY DEF ChainTimes
    <3> HIDE DEF f, g
    <3> QED BY <3>5, <3>6
  <2> HIDE DEF f, g
  <2>2. \A i \in 1 .. n : g[i] \in Nat /\ f[i] = g[i]
    BY <2>1
  <2>3. SumTo(g, n) = SumTo(f, n)
    BY <1>3, <2>2, SumSame
  <2>4. Weigh(Holds(V2, e), come) = SumTo(f, n)
    BY <1>28 DEF Weigh, f
  <2>5. SumTo(g, n) = Ind(InChain(ch, n, e))
    BY <1>8 DEF g
  <2> QED BY <2>3, <2>4, <2>5
<1>39. BuffersMove(V, V2, w, gone, come)
  <2>1. ASSUME NEW e \in Buffers
        PROVE  V2.pool[e] + Ind(e \in V2.fl[w]) + Times(e, V2.cur[w].drops) + Ind(e \in V2.lost)
                 + Weigh(Holds(V2, e), come)
               = V.pool[e] + Ind(e \in V.fl[w]) + Times(e, V.cur[w].drops) + Ind(e \in V.lost)
                 + Weigh(Holds(V, e), gone)
    <3> DEFINE i == Ind(InChain(ch, n, e))
               p == mempool[e]
               p2 == mempool'[e]
               a == Ind(e \in freelist[w])
               l == Ind(e \in lost)
    <3>1. p2 = IF InChain(ch, n, e) THEN p - 1 ELSE p
      BY <1>9
    <3>2. p \in Nat /\ i \in {0, 1} /\ a \in {0, 1} /\ l \in {0, 1}
      BY <1>31 DEF Ind
    <3>3. p2 = p - i
      <4> HIDE DEF p, p2
      <4> QED BY <3>1, <3>2 DEF Ind
    <3>4. Times(e, V2.cur[w].drops) = 0 /\ Times(e, V.cur[w].drops) = 0
      BY <1>16, <1>17, <1>23, <1>24, TimesEmpty
    <3>5. Weigh(Holds(V2, e), come) = i /\ Weigh(Holds(V, e), gone) = 0
      BY <1>29, <1>38
    <3>6. V2.pool[e] = p2 /\ V.pool[e] = p /\ Ind(e \in V2.fl[w]) = a /\ Ind(e \in V.fl[w]) = a
          /\ Ind(e \in V2.lost) = l /\ Ind(e \in V.lost) = l
      BY <1>16, <1>17
    <3> HIDE DEF i, p, p2, a, l
    <3>7. p2 + a + 0 + l + i = p + a + 0 + l + 0
      BY <3>2, <3>3
    <3> QED BY <3>4, <3>5, <3>6, <3>7
  <2> QED BY <2>1 DEF BuffersMove
<1>40. BlocksMove(V, V2, w, gone, come)
  <2>1. ASSUME NEW k \in Block
        PROVE  Weigh(Fills(V2, k), come) = 0
    <3>1. Fills(V2, k) \in [Pairs -> Nat]
      BY FillsType
    <3>2. RxNode \notin Gathered
      BY DEF Gathered, RxNode, HugeOutNode, DropNode, N
    <3>3. \A i \in 1 .. Len(come) : Fills(V2, k)[come[i]] = 0
      <4> TAKE i \in 1 .. Len(come)
      <4>1. come[i] \in Pairs /\ come[i][1] = RxNode
        BY <1>28
      <4> QED BY <3>2, <4>1 DEF Fills
    <3> QED BY <1>28, <3>1, <3>3, WeighNone
  <2>2. \A k \in Block : V2.bp[w][k] = V.bp[w][k] /\ Weigh(Fills(V, k), gone) = 0
    BY <1>16, <1>17, <1>29
  <2> QED BY <2>1, <2>2 DEF BlocksMove
<1>41. V.spoilt \subseteq V2.spoilt
  BY <1>16, <1>17
<1>42. LeftLists(V, w) = Lists(V, w) /\ LeftLists(V2, w) = Lists(V2, w)
  BY <1>25, <1>26, Zenon
<1>43. BlocksAt(V2, w)
  <2>1. Sound(V)
    BY DEF V
  <2> QED BY <1>30, <1>34, <1>36, <1>40, <1>41, <1>42, <2>1, OwnBlocks
<1>44. Sound(V2)
  <2>1. Sound(V)
    BY DEF V
  <2> QED BY <1>25, <1>30, <1>34, <1>35, <1>36, <1>37, <1>39, <1>41, <1>43, <2>1, Moved
<1> QED BY <1>2, <1>11, <1>15, <1>23, <1>24, <1>44, SoundNext DEF V2

-----------------------------------------------------------------------------
(* Init, and every action, keep the invariant *)

\* A sound state has typed runs.
LEMMA NowTypes ==
  ASSUME Sound(Now)
  PROVE  cur \in [Workers -> RunType] /\ \A w \in Workers : cur[w].queue \in 0 .. TxQueues
<1>1. cur \in [Workers -> RunType]
  BY DEF Sound, ViewType, Now
<1>2. \A w \in Workers : cur[w] \in RunType
  BY <1>1
<1>3. \A w \in Workers : cur[w].queue \in 0 .. TxQueues
  BY <1>2, RunTypes
<1> QED BY <1>1, <1>3, Zenon

\* what most of the actions of a worker leave alone
Works(w) ==
  /\ cur' = [cur EXCEPT ![w] = cur'[w]]
  /\ cur'[w].queue = 0 \/ (cur'[w].node = cur[w].node /\ cur'[w].queue = cur[w].queue)
  /\ phase[w] # "input" /\ mbuf' = [b \in Buffers |-> mbuf'[b]]
  /\ UNCHANGED <<rxq, handoff, lock, phase>> /\ Sound(Now)'

\* A step of a node in a frame keeps the invariant.
LEMMA WorksKeeps ==
  ASSUME IInv, NEW w \in Workers, Works(w)
  PROVE  Types' /\ InputInv' /\ Sound(Now)' /\ LockInv'
<1>1. cur \in [Workers -> RunType]
  BY NowTypes DEF IInv
<1>2. \A v \in Workers : v # w => cur'[v] = cur[v]
  BY <1>1 DEF Works
<1>3. Types'
  BY DEF IInv, Types, Works
<1>4. InputInv'
  BY <1>2 DEF IInv, InputInv, Works
<1>5. LockInv'
  <2> SUFFICES ASSUME NEW v \in Workers, cur'[v].queue # 0
               PROVE  \E i \in Intf : cur'[v].node = Tx(i) /\ lock'[i][cur'[v].queue] = v
    BY DEF LockInv
  <2>1. cur'[v].node = cur[v].node /\ cur'[v].queue = cur[v].queue
    BY <1>2 DEF Works
  <2>2. lock' = lock
    BY DEF Works
  <2>3. PICK i \in Intf : cur[v].node = Tx(i) /\ lock[i][cur[v].queue] = v
    BY <2>1 DEF IInv, LockInv
  <2> QED BY <2>1, <2>2, <2>3
<1> QED BY <1>3, <1>4, <1>5 DEF Works

\* A worker in a node does not poll the ports.
LEMMA InputKept ==
  ASSUME IInv, NEW w \in Workers, cur[w].node # Idle
  PROVE  phase[w] # "input"
BY NoRunIs DEF IInv, InputInv

\* No node is called idle.
LEMMA NamesAreBusy ==
  /\ RxNode # Idle /\ HandoffNode # Idle /\ HfInputNode # Idle /\ HugeInputNode # Idle
  /\ N("graph") # Idle /\ N("sf_pkt_output") # Idle /\ HugeOutNode # Idle /\ DropNode # Idle
  /\ Idle \notin Plain /\ \A i : Tx(i) # Idle
BY DEF RxNode, HandoffNode, HfInputNode, HugeInputNode, HugeOutNode, DropNode, Idle, N, Tx, Plain

\* the loops of the nodes
Loops(w) ==
  \/ RxFour(w) \/ RxOne(w) \/ HandoffTwo(w) \/ HandoffOne(w) \/ HfTwo(w) \/ HfOne(w)
  \/ HugeTwo(w) \/ HugeOne(w) \/ OutTwo(w) \/ OutOne(w) \/ HugeOutTwo(w) \/ HugeOutOne(w)
  \/ DropTwo(w) \/ DropOne(w)

\* The loops of the nodes are such steps.
LEMMA LoopsWork ==
  ASSUME IInv, NEW w \in Workers, Loops(w)
  PROVE  Works(w) /\ seen' = seen
<1>1. Sound(Now) /\ mbuf = [b \in Buffers |-> mbuf[b]]
  BY DEF IInv, Types
<1>2. Sound(Now)' /\ RunsOn(w)
  <2>1. CASE RxFour(w) \/ RxOne(w)
    BY <1>1, <2>1, RxSteps
  <2>2. CASE HandoffTwo(w) \/ HandoffOne(w)
    BY <1>1, <2>2, HandoffSteps
  <2>3. CASE HfTwo(w) \/ HfOne(w)
    BY <1>1, <2>3, HfSteps
  <2>4. CASE HugeTwo(w) \/ HugeOne(w)
    BY <1>1, <2>4, HugeSteps
  <2>5. CASE OutTwo(w) \/ OutOne(w)
    BY <1>1, <2>5, OutSteps
  <2>6. CASE HugeOutTwo(w) \/ HugeOutOne(w)
    BY <1>1, <2>6, HugeOutSteps
  <2>7. CASE DropTwo(w) \/ DropOne(w)
    BY <1>1, <2>7, DropSteps
  <2> QED BY <2>1, <2>2, <2>3, <2>4, <2>5, <2>6, <2>7 DEF Loops
<1>3. /\ cur[w].node \in {RxNode, HandoffNode, HfInputNode, HugeInputNode, N("sf_pkt_output"), HugeOutNode, DropNode}
      /\ UNCHANGED <<rxq, handoff, lock, phase, mbuf, seen>>
  BY Zenon DEF Loops, RxFour, RxOne, HandoffTwo, HandoffOne, HfTwo, HfOne, HugeTwo, HugeOne, OutTwo, OutOne,
     HugeOutTwo, HugeOutOne, DropTwo, DropOne, Several, Single, Running, RxStep, HandoffStep, HfStep, HugeStep,
     OutStep, HugeOutStep, DropStep, shared, RxNode, HugeOutNode, DropNode
<1>4. phase[w] # "input"
  BY <1>3, InputKept, NamesAreBusy
<1> QED BY <1>1, <1>2, <1>3, <1>4 DEF Works, RunsOn

\* the ends of the nodes
Stops(w) == RxDone(w) \/ HugeDone(w) \/ DropDone(w) \/ NodeDone(w)

\* And so are their ends.
LEMMA StopsWork ==
  ASSUME IInv, NEW w \in Workers, Stops(w)
  PROVE  Works(w) /\ seen' = seen
<1>1. Sound(Now) /\ mbuf = [b \in Buffers |-> mbuf[b]]
  BY DEF IInv, Types
<1>2. Sound(Now)' /\ cur' = [cur EXCEPT ![w] = NoRun]
  BY <1>1, RxEnds, HugeEnds, DropEnds, NodeEnds DEF Stops
<1>3. /\ cur[w].node \in Plain \/ cur[w].node \in {RxNode, HugeInputNode, DropNode}
      /\ UNCHANGED <<rxq, handoff, lock, phase, mbuf, seen>>
  BY Zenon DEF Stops, RxDone, HugeDone, DropDone, NodeDone, Finished, shared, RxNode, DropNode
<1>4. phase[w] # "input"
  BY <1>3, InputKept, NamesAreBusy
<1>5. cur'[w] = NoRun
  BY <1>1, <1>2, NowTypes
<1> QED BY <1>1, <1>2, <1>3, <1>4, <1>5, NoRunIs DEF Works

\* a worker hands packets to another, or takes its next frame
LEMMA MovesOnWork ==
  ASSUME IInv, NEW w \in Workers, HandoffSend(w) \/ Dispatch(w)
  PROVE  Works(w) /\ seen' = seen
<1>1. Sound(Now) /\ mbuf = [b \in Buffers |-> mbuf[b]]
  BY DEF IInv, Types
<1>2. CASE HandoffSend(w)
  <2>1. Sound(Now)' /\ RunsOn(w)
    BY <1>1, <1>2, SendSound, Zenon
  <2>2. cur[w].node = HandoffNode /\ UNCHANGED <<rxq, handoff, lock, phase, mbuf, seen>>
    BY <1>2, Zenon DEF HandoffSend
  <2>3. phase[w] # "input"
    BY <2>2, InputKept, NamesAreBusy
  <2> QED BY <1>1, <2>1, <2>2, <2>3 DEF Works, RunsOn
<1>3. CASE Dispatch(w)
  <2>1. Sound(Now)' /\ cur' = [cur EXCEPT ![w] = cur'[w]] /\ cur'[w].queue = 0 /\ phase[w] = "run"
    BY <1>1, <1>3, DispatchSound
  <2>2. UNCHANGED <<rxq, handoff, lock, phase, mbuf, seen>>
    BY <1>3 DEF Dispatch, shared
  <2> QED BY <1>1, <2>1, <2>2 DEF Works
<1> QED BY <1>2, <1>3

\* the rest of the graph notes what was handed over, where it should be
LEMMA GraphWorks ==
  ASSUME IInv, NEW w \in Workers, Graph(w)
  PROVE  Works(w) /\ SeenInv'
<1>1. Sound(Now) /\ mbuf = [b \in Buffers |-> mbuf[b]] /\ SeenInv
  BY DEF IInv, Types
<1>2. Sound(Now)' /\ RunsOn(w)
  BY <1>1, GraphSteps, Zenon
<1> DEFINE b == Head(cur[w].left)
           p == mbuf[b].pkt
           s == State(w)
<1>3. /\ cur[w].node = GraphNode /\ cur[w].left # <<>> /\ UNCHANGED <<rxq, handoff, lock, phase, mbuf>>
      /\ seen' = IF wd[b].handed /\ ~p.tag THEN seen \cup {<<Range(p.flow), p.proto, w>>} ELSE seen
  BY DEF Graph, Running, shared, GraphNode
<1>4. phase[w] # "input"
  BY <1>3, InputKept, NamesAreBusy, Zenon DEF GraphNode
<1>5. Works(w)
  BY <1>1, <1>2, <1>3, <1>4 DEF Works, RunsOn
<1>6. Mid(w, s) /\ s.c = cur[w]
  BY <1>1, RunStart
<1> HIDE DEF s
<1>7. GraphNode \in Looping /\ GraphNode \notin {RxNode, HandoffNode}
  BY Zenon DEF GraphNode, Looping, Nodes, DropNode, TxNodes, RxNode, HandoffNode, N, Tx
<1>8. FitOf(w, GraphNode, b, wd[b], mbuf[b])
  BY <1>3, <1>6, <1>7, HeadFit, Zenon
<1> HIDE DEF b
<1>9. p \in Packet /\ (wd[b].handed => sf_pkt_get_worker_index(p) = w)
  <2>1. mbuf[b] \in MbufType
    BY <1>8 DEF FitOf
  <2> QED BY <1>7, <1>8, <2>1 DEF FitOf, MbufType
<1> HIDE DEF p
<1>10. SeenInv'
  <2> SUFFICES ASSUME NEW x \in seen'
               PROVE  \E q \in Packet : ~q.tag /\ x = <<Range(q.flow), q.proto, sf_pkt_get_worker_index(q)>>
    BY Zenon DEF SeenInv
  <2>1. CASE x \in seen
    BY <1>1, <2>1 DEF SeenInv
  <2>2. CASE x \notin seen
    <3>1. wd[b].handed /\ ~p.tag /\ x = <<Range(p.flow), p.proto, w>>
      BY <1>3, <2>2
    <3> QED BY <1>9, <3>1
  <2> QED BY <2>1, <2>2
<1> QED BY <1>5, <1>10

\* And the loops of the tx function.
LEMMA TxWork ==
  ASSUME IInv, NEW w \in Workers, NEW i \in Intf, TxFour(w, i) \/ TxOne(w, i)
  PROVE  Works(w) /\ seen' = seen
<1>1. Sound(Now) /\ cur[w].left \in Seq(Buffers)
  <2>1. cur[w] \in RunType
    BY NowTypes DEF IInv
  <2> QED BY <2>1, RunTypes DEF IInv
<1>2. PICK k \in {1, 4} : TxStep(w, k) /\ cur[w].node = Tx(i) /\ k <= Len(cur[w].left)
  <2>1. CASE TxFour(w, i)
    <3>1. TxStep(w, 4) /\ cur[w].node = Tx(i) /\ Len(cur[w].left) >= 8
      BY <2>1 DEF TxFour, Several, Running
    <3> QED BY <1>1, <3>1
  <2>2. CASE TxOne(w, i)
    <3>1. TxStep(w, 1) /\ cur[w].node = Tx(i) /\ cur[w].left # <<>>
      BY <2>2 DEF TxOne, Single, Running
    <3>2. Len(cur[w].left) >= 1
      BY <1>1, <3>1
    <3> QED BY <3>1, <3>2
  <2> QED BY <2>1, <2>2
<1>3. Sound(Now)' /\ RunsOn(w) /\ mbuf' = [b \in Buffers |-> mbuf'[b]]
  <2>1. k \in Nat
    OBVIOUS
  <2> QED BY <1>1, <1>2, <2>1, TxStepSound
<1>4. UNCHANGED <<rxq, handoff, lock, phase, seen>>
  BY <1>2 DEF TxStep, shared
<1>5. phase[w] # "input"
  BY <1>2, InputKept, NamesAreBusy, Zenon
<1> QED BY <1>3, <1>4, <1>5 DEF Works, RunsOn

\* a tx queue is taken, if it is free
LEMMA TxLockKeeps ==
  ASSUME IInv, NEW w \in Workers, NEW i \in Intf, TxLock(w, i)
  PROVE  IInv'
<1>1. PICK q \in 1 .. TxQueues : /\ lock[i][q] = 0 /\ lock' = [lock EXCEPT ![i][q] = w]
                                  /\ cur' = [cur EXCEPT ![w].queue = q]
  BY DEF TxLock, TryLock
<1>2. /\ cur[w].node = Tx(i)
      /\ UNCHANGED <<wd, mempool, freelist, blkpool, lost, spoilt, mbuf, pend, fq, rxq, handoff, phase, seen>>
  BY DEF TxLock, Sending, mine
<1>3. Sound(Now) /\ Types /\ InputInv /\ LockInv /\ SeenInv
  BY DEF IInv
<1>4. Sound(Now)' /\ cur'[w].queue = q /\ cur'[w].node = Tx(i) /\ cur' = [cur EXCEPT ![w] = cur'[w]]
  BY <1>1, <1>2, <1>3, TxLockSound
<1>5. \A v \in Workers : v # w => cur'[v] = cur[v]
  BY <1>3, <1>4, NowTypes
<1>6. lock \in [Intf -> [1..TxQueues -> Workers \cup {0}]]
  BY <1>3 DEF Types
<1>7. lock' \in [Intf -> [1..TxQueues -> Workers \cup {0}]] /\ lock'[i][q] = w
      /\ \A j \in Intf : \A r \in 1 .. TxQueues : j # i \/ r # q => lock'[j][r] = lock[j][r]
  BY <1>1, <1>6
<1>8. Types'
  BY <1>2, <1>3, <1>7 DEF Types
<1>9. InputInv'
  <2>1. phase[w] # "input"
    BY <1>2, InputKept, NamesAreBusy
  <2> QED BY <1>2, <1>3, <1>5, <2>1 DEF InputInv
<1>10. LockInv'
  <2> SUFFICES ASSUME NEW v \in Workers, cur'[v].queue # 0
               PROVE  \E j \in Intf : cur'[v].node = Tx(j) /\ lock'[j][cur'[v].queue] = v
    BY DEF LockInv
  <2>1. CASE v = w
    BY <1>4, <1>7, <2>1
  <2>2. CASE v # w
    <3>1. cur'[v] = cur[v]
      BY <1>5, <2>2
    <3>2. PICK j \in Intf : cur[v].node = Tx(j) /\ lock[j][cur[v].queue] = v
      BY <1>3, <3>1 DEF LockInv
    <3>3. cur[v].queue \in 1 .. TxQueues
      BY <1>3, <3>1, NowTypes, CapacityAssumption
    <3>4. v # 0
      BY WorkersAre
    <3>5. lock'[j][cur[v].queue] = v
      BY <1>1, <1>7, <3>2, <3>3, <3>4, Zenon
    <3> QED BY <3>1, <3>2, <3>5
  <2> QED BY <2>1, <2>2
<1>11. SeenInv'
  BY <1>2, <1>3 DEF SeenInv
<1> QED BY <1>4, <1>8, <1>9, <1>10, <1>11 DEF IInv

\* and given back by the worker that has it
LEMMA TxBurstKeeps ==
  ASSUME IInv, NEW w \in Workers, NEW i \in Intf, NEW n \in Nat, TxBurst(w, i, n)
  PROVE  IInv'
<1>1. /\ NeedsLock => cur[w].queue # 0
      /\ lock' = IF NeedsLock THEN [lock EXCEPT ![i][cur[w].queue] = 0] ELSE lock
      /\ UNCHANGED <<mbuf, rxq, handoff, phase, seen>>
  BY DEF TxBurst, Unlock
<1>2. Sound(Now) /\ Types /\ InputInv /\ LockInv /\ SeenInv
  BY DEF IInv
<1>3. Sound(Now)' /\ cur' = [cur EXCEPT ![w] = cur'[w]] /\ cur'[w].queue = 0 /\ cur[w].node = Tx(i)
  BY <1>2, TxBurstSound
<1>4. \A v \in Workers : v # w => cur'[v] = cur[v]
  BY <1>2, <1>3, NowTypes, Zenon
<1>5. lock \in [Intf -> [1..TxQueues -> Workers \cup {0}]]
  BY <1>2 DEF Types
<1> DEFINE q == cur[w].queue
<1>6. NeedsLock => q \in 1 .. TxQueues /\ lock[i][q] = w
  <2> SUFFICES ASSUME NeedsLock PROVE q \in 1 .. TxQueues /\ lock[i][q] = w
    OBVIOUS
  <2>1. q \in 1 .. TxQueues
    BY <1>1, <1>2, NowTypes, CapacityAssumption
  <2>2. PICK j \in Intf : cur[w].node = Tx(j) /\ lock[j][q] = w
    BY <1>1, <1>2 DEF LockInv
  <2>3. j = i
    BY <1>3, <2>2 DEF Tx
  <2> QED BY <2>1, <2>2, <2>3
<1> HIDE DEF q
<1>7. lock' = IF NeedsLock THEN [lock EXCEPT ![i][q] = 0] ELSE lock
  BY <1>1 DEF q
<1>8. lock' \in [Intf -> [1..TxQueues -> Workers \cup {0}]]
      /\ \A j \in Intf : \A r \in 1 .. TxQueues :
           lock'[j][r] = lock[j][r] \/ (NeedsLock /\ j = i /\ r = q)
  <2>1. CASE NeedsLock
    <3>1. lock' = [lock EXCEPT ![i][q] = 0] /\ q \in 1 .. TxQueues
      BY <1>6, <1>7, <2>1
    <3> QED BY <1>5, <2>1, <3>1
  <2>2. CASE ~NeedsLock
    BY <1>5, <1>7, <2>2
  <2> QED BY <2>1, <2>2
<1>9. Types'
  BY <1>1, <1>2, <1>8 DEF Types
<1>10. InputInv'
  <2>1. phase[w] # "input"
    BY <1>3, InputKept, NamesAreBusy
  <2> QED BY <1>1, <1>2, <1>4, <2>1 DEF InputInv
<1>11. LockInv'
  <2> SUFFICES ASSUME NEW v \in Workers, cur'[v].queue # 0
               PROVE  \E j \in Intf : cur'[v].node = Tx(j) /\ lock'[j][cur'[v].queue] = v
    BY DEF LockInv
  <2>1. v # w /\ cur'[v] = cur[v]
    BY <1>3, <1>4
  <2>2. PICK j \in Intf : cur[v].node = Tx(j) /\ lock[j][cur[v].queue] = v
    BY <1>2, <2>1 DEF LockInv
  <2>3. cur[v].queue \in 1 .. TxQueues
    BY <1>2, <2>1, NowTypes, CapacityAssumption
  <2>4. lock'[j][cur[v].queue] = v
    BY <1>6, <1>8, <2>1, <2>2, <2>3
  <2> QED BY <2>1, <2>2, <2>4
<1>12. SeenInv'
  BY <1>1, <1>2 DEF SeenInv
<1> QED BY <1>3, <1>9, <1>10, <1>11, <1>12, Zenon DEF IInv

\* a new round
LEMMA PollKeeps ==
  ASSUME IInv, NEW w \in Workers, Poll(w)
  PROVE  IInv'
<1>1. Sound(Now) /\ Types /\ InputInv /\ LockInv /\ SeenInv
  BY DEF IInv
<1>2. Sound(Now)' /\ cur[w] = NoRun
  BY <1>1, PollSound
<1>3. UNCHANGED <<rxq, mbuf, cur, handoff, lock, seen>> /\ phase' = [phase EXCEPT ![w] = "input"]
  BY DEF Poll
<1>4. Types'
  BY <1>1, <1>3 DEF Types
<1>5. InputInv'
  BY <1>1, <1>2, <1>3 DEF InputInv, Types
<1>6. LockInv' /\ SeenInv'
  BY <1>1, <1>3 DEF LockInv, SeenInv
<1> QED BY <1>2, <1>4, <1>5, <1>6 DEF IInv

\* A port that has nothing.
LEMMA NothingKeeps ==
  ASSUME IInv, NEW w \in Workers, NothingReceived(w)
  PROVE  IInv'
<1>1. Sound(Now) /\ Types /\ InputInv /\ LockInv /\ SeenInv
  BY DEF IInv
<1>2. /\ UNCHANGED <<wd, mempool, freelist, blkpool, cur, lost, spoilt, mbuf, pend, fq>>
      /\ UNCHANGED <<rxq, handoff, lock, seen>> /\ phase' = [phase EXCEPT ![w] = "run"]
  BY DEF NothingReceived, mine
<1>3. Now' = Now
  BY <1>2 DEF Now
<1>4. Sound(Now)'
  BY <1>1, <1>3, SoundNext
<1>5. Types'
  BY <1>1, <1>2 DEF Types
<1>6. InputInv'
  BY <1>1, <1>2 DEF InputInv, Types
<1>7. LockInv' /\ SeenInv'
  BY <1>1, <1>2 DEF LockInv, SeenInv
<1> QED BY <1>4, <1>5, <1>6, <1>7 DEF IInv

\* A port that has packets: sf-dpdk-input begins a frame with their buffers.
LEMMA InputKeeps ==
  ASSUME IInv, NEW w \in Workers, dpdk_device_input(w)
  PROVE  IInv'
<1>1. Sound(Now) /\ Types /\ InputInv /\ LockInv /\ SeenInv
  BY DEF IInv
<1>2. /\ phase[w] = "input" /\ UNCHANGED <<handoff, lock, seen>>
      /\ phase' = [phase EXCEPT ![w] = "run"]
  BY DEF dpdk_device_input
<1>3. cur[w] = NoRun
  BY <1>1, <1>2 DEF InputInv
<1>4. /\ Sound(Now)' /\ cur' = [cur EXCEPT ![w] = cur'[w]] /\ cur'[w].queue = 0
      /\ rxq' \in [Workers -> Seq(Seq(Packet))] /\ mbuf' = [b \in Buffers |-> mbuf'[b]]
  BY <1>1, <1>3, InputSound DEF Types
<1>5. \A v \in Workers : v # w => cur'[v] = cur[v]
  BY <1>1, <1>4, NowTypes, Zenon
<1>6. Types'
  BY <1>1, <1>2, <1>4 DEF Types
<1>7. InputInv'
  BY <1>1, <1>2, <1>5 DEF InputInv, Types
<1>8. LockInv'
  <2> SUFFICES ASSUME NEW v \in Workers, cur'[v].queue # 0
               PROVE  \E i \in Intf : cur'[v].node = Tx(i) /\ lock'[i][cur'[v].queue] = v
    BY DEF LockInv
  <2>1. cur'[v] = cur[v] /\ lock' = lock
    BY <1>2, <1>4, <1>5
  <2> QED BY <1>1, <2>1 DEF LockInv
<1>9. SeenInv'
  BY <1>1, <1>2 DEF SeenInv
<1> QED BY <1>4, <1>6, <1>7, <1>8, <1>9, Zenon DEF IInv

\* the switches of the interfaces
LEMMA SwitchKeeps ==
  ASSUME IInv, (\E i \in Intf : SetAdmin(i) \/ SetHandoff(i)) \/ ClearHandoff
  PROVE  IInv'
<1>1. Sound(Now) /\ Types /\ InputInv /\ LockInv /\ SeenInv
  BY DEF IInv
<1>2. /\ UNCHANGED <<wd, mempool, freelist, blkpool, cur, lost, spoilt, mbuf, pend, fq>>
      /\ UNCHANGED <<rxq, lock, seen, phase>>
      /\ handoff' = handoff \/ \E i \in Intf : handoff' = [handoff EXCEPT ![i] = ~handoff[i]]
  BY DEF SetAdmin, SetHandoff, ClearHandoff, Switching
<1>3. Now' = Now
  BY <1>2 DEF Now
<1>4. Sound(Now)'
  BY <1>1, <1>3, SoundNext
<1>5. handoff' \in [Intf -> BOOLEAN]
  BY <1>1, <1>2 DEF Types
<1>6. Types'
  BY <1>1, <1>2, <1>5 DEF Types
<1>7. InputInv' /\ LockInv' /\ SeenInv'
  BY <1>1, <1>2 DEF InputInv, LockInv, SeenInv
<1> QED BY <1>4, <1>6, <1>7 DEF IInv

\* At the start every buffer and every block is free.
LEMMA InitSound ==
  ASSUME Init
  PROVE  IInv
<1> DEFINE V == Now
<1>1. /\ V.wd = [b \in Buffers |-> NoWdata] /\ V.pool = [b \in Buffers |-> 1]
      /\ V.fl = [w \in Workers |-> {}] /\ V.bp = [w \in Workers |-> [k \in Block |-> 1]]
      /\ V.cur = [w \in Workers |-> NoRun] /\ V.lost = {} /\ V.spoilt = {}
      /\ V.mbuf = [b \in Buffers |-> [segs |-> <<>>]] /\ V.pend = [w \in Workers |-> <<>>]
      /\ V.fq = [w \in Workers |-> <<>>]
  BY DEF Init, Now
<1> HIDE DEF V
<1>2. \A w \in Workers : V.cur[w] = NoRun /\ V.fl[w] = {} /\ V.pend[w] = <<>> /\ V.fq[w] = <<>>
  BY <1>1
<1>3. NoWdata \in WdType
  <2> DEFINE v == <<>>
  <2>1. v \in Seq(SegType)
    OBVIOUS
  <2>2. NoWdata = [intf |-> 0, out |-> 0, huge |-> FALSE, rec |-> FALSE, len |-> 0,
                   blk |-> NoBlock, subs |-> v, handed |-> FALSE]
    BY DEF NoWdata
  <2> HIDE DEF v
  <2> QED BY <2>1, <2>2 DEF WdType
<1>4. ViewType(V)
  <2> DEFINE v == <<>>
  <2>1. v \in Seq(SegType) /\ v \in Seq(FrameType) /\ v \in Seq(Seq(Buffers))
    OBVIOUS
  <2>2. V.pend = [w \in Workers |-> v] /\ V.fq = [w \in Workers |-> v]
        /\ V.mbuf = [b \in Buffers |-> [segs |-> v]]
    BY <1>1
  <2> HIDE DEF v
  <2>3. V.pend \in [Workers -> Seq(FrameType)] /\ V.fq \in [Workers -> Seq(Seq(Buffers))]
    BY <2>1, <2>2, Zenon
  <2>4. \A b \in Buffers : V.mbuf[b].segs \in Seq(SegType)
    BY <2>1, <2>2
  <2>5. V.cur \in [Workers -> RunType]
    BY <1>1, NoRunType
  <2>6. V.wd \in [Buffers -> WdType] /\ V.pool \in [Buffers -> Nat] /\ V.fl \in [Workers -> SUBSET Buffers]
        /\ V.bp \in [Workers -> [Block -> Nat]] /\ V.lost \subseteq Buffers
    BY <1>1, <1>3
  <2> QED BY <2>3, <2>4, <2>5, <2>6 DEF ViewType
<1>5. \A w \in Workers : RunInv(V, w)
  BY <1>2, NoRunHolds
<1>6. ASSUME NEW w \in Workers, NEW h
      PROVE  Load(h, Lists(V, w)) = 0 /\ Load(h, LeftLists(V, w)) = 0
  <2>1. /\ Lists(V, w) = [list |-> <<>>, to |-> <<>>, away |-> <<>>, pend |-> <<>>, fq |-> <<>>]
        /\ LeftLists(V, w) = Lists(V, w)
    BY <1>2, IdleLists
  <2>2. Weigh(h, <<>>) = 0 /\ Weigh(AwayOf(h), <<>>) = 0 /\ Weigh(FrameOf(h), <<>>) = 0
        /\ Weigh(QueueOf(h), <<>>) = 0
    BY WeighEmpty, Zenon
  <2> QED BY <2>1, <2>2 DEF Load
<1>7. BufferBalance(V)
  <2> SUFFICES ASSUME NEW e \in Buffers
               PROVE  V.pool[e] + SumTo([w \in Workers |-> Refs(V, e, w)], Cardinality(Workers))
                      + Ind(e \in V.lost) = 1
    BY DEF BufferBalance
  <2> DEFINE f == [w \in Workers |-> Refs(V, e, w)]
             n == Cardinality(Workers)
  <2>1. \A w \in Workers : f[w] = 0
    <3> TAKE w \in Workers
    <3>1. Load(Holds(V, e), Lists(V, w)) = 0
      BY <1>6
    <3>2. V.cur[w].drops = <<>> /\ Ind(e \in V.fl[w]) = 0
      BY <1>2, NoRunIs DEF Ind
    <3>3. Times(e, V.cur[w].drops) = 0
      BY <3>2, TimesEmpty
    <3>4. Refs(V, e, w) = 0
      BY <3>1, <3>2, <3>3 DEF Refs
    <3> QED BY <3>4
  <2>2. n \in Nat /\ Workers = 1 .. n
    BY WorkersAre
  <2> HIDE DEF f, n
  <2>3. SumTo(f, n) = 0
    BY <2>1, <2>2, SumZero
  <2>4. V.pool[e] = 1 /\ Ind(e \in V.lost) = 0
    BY <1>1, Zenon DEF Ind
  <2> QED BY <2>3, <2>4 DEF f, n
<1>8. BlockBalance(V)
  <2>1. ASSUME NEW w \in Workers, NEW k \in Block
        PROVE  V.bp[w][k] + Load(Fills(V, k), LeftLists(V, w)) = 1
    <3>1. Load(Fills(V, k), LeftLists(V, w)) = 0
      BY <1>6
    <3>2. V.bp[w][k] = 1
      BY <1>1
    <3> QED BY <3>1, <3>2
  <2> QED BY <2>1 DEF BlockBalance, BlocksAt
<1>9. AllFit(V)
  BY <1>6 DEF AllFit
<1>10. Sound(Now)
  BY <1>4, <1>5, <1>7, <1>8, <1>9 DEF Sound, V
<1>11. Types
  <2>1. rxq \in [Workers -> Seq(Seq(Packet))]
    BY PacketAssumption DEF Init
  <2>2. handoff \in [Intf -> BOOLEAN] /\ lock \in [Intf -> [1..TxQueues -> Workers \cup {0}]]
    BY DEF Init
  <2>3. phase = [w \in Workers |-> phase[w]] /\ mbuf = [b \in Buffers |-> mbuf[b]]
    BY DEF Init
  <2> QED BY <2>1, <2>2, <2>3 DEF Types
<1>12. InputInv /\ LockInv
  <2>1. \A w \in Workers : cur[w] = NoRun
    BY DEF Init
  <2> QED BY <2>1, NoRunIs DEF InputInv, LockInv
<1>13. SeenInv
  BY DEF Init, SeenInv
<1> QED BY <1>10, <1>11, <1>12, <1>13 DEF IInv

\* Every step of a worker keeps the invariant.
LEMMA WorkerKeeps ==
  ASSUME IInv, NEW w \in Workers, Worker(w)
  PROVE  IInv'
<1>1. ASSUME Works(w), seen' = seen
      PROVE  IInv'
  <2>1. Types' /\ InputInv' /\ Sound(Now)' /\ LockInv'
    BY <1>1, WorksKeeps
  <2>2. SeenInv'
    BY <1>1 DEF IInv, SeenInv
  <2> QED BY <2>1, <2>2 DEF IInv
<1>2. CASE Poll(w)
  BY <1>2, PollKeeps
<1>3. CASE NothingReceived(w)
  BY <1>3, NothingKeeps
<1>4. CASE dpdk_device_input(w)
  BY <1>4, InputKeeps
<1>5. CASE Loops(w)
  BY <1>1, <1>5, LoopsWork
<1>6. CASE Stops(w)
  BY <1>1, <1>6, StopsWork
<1>7. CASE HandoffSend(w) \/ Dispatch(w)
  BY <1>1, <1>7, MovesOnWork
<1>8. CASE Graph(w)
  <2>1. Works(w) /\ SeenInv'
    BY <1>8, GraphWorks
  <2>2. Types' /\ InputInv' /\ Sound(Now)' /\ LockInv'
    BY <2>1, WorksKeeps
  <2> QED BY <2>1, <2>2 DEF IInv
<1>9. ASSUME NEW i \in Intf, TxFour(w, i) \/ TxOne(w, i)
      PROVE  IInv'
  BY <1>1, <1>9, TxWork
<1>10. ASSUME NEW i \in Intf, TxLock(w, i)
       PROVE  IInv'
  BY <1>10, TxLockKeeps
<1>11. ASSUME NEW i \in Intf, NEW n \in 0 .. Cardinality(Buffers), TxBurst(w, i, n)
       PROVE  IInv'
  <2>1. n \in Nat
    BY PacketAssumption, FS_CardinalityType
  <2> QED BY <1>11, <2>1, TxBurstKeeps
<1> QED BY <1>2, <1>3, <1>4, <1>5, <1>6, <1>7, <1>8, <1>9, <1>10, <1>11 DEF Worker, Loops, Stops

\* the invariant is inductive
LEMMA StepKeeps ==
  ASSUME IInv, [Next]_vars
  PROVE  IInv'
<1>1. CASE \E w \in Workers : Worker(w)
  BY <1>1, WorkerKeeps
<1>2. CASE (\E i \in Intf : SetAdmin(i) \/ SetHandoff(i)) \/ ClearHandoff
  BY <1>2, SwitchKeeps
<1>3. CASE UNCHANGED vars
  <2>1. Now' = Now
    BY <1>3 DEF vars, Now
  <2>2. Sound(Now)'
    BY <2>1, SoundNext, Zenon DEF IInv
  <2>3. Types' /\ InputInv' /\ LockInv' /\ SeenInv'
    BY <1>3 DEF IInv, vars, Types, InputInv, LockInv, SeenInv
  <2> QED BY <2>2, <2>3, Zenon DEF IInv
<1> QED BY <1>1, <1>2, <1>3 DEF Next

\* The invariant holds for any number of workers, interfaces, buffers, blocks
\* and queues: every packet is on one list of one worker, at a node that fits
\* what it holds, each tx queue under its lock, and the packets of a flow at one
\* worker.  It is about every loop of sf-dpdk-input, the handoff, the huge
\* packet nodes, the output, the drop node and the tx function.
THEOREM Invariant == Spec => []IInv
<1>1. Init => IInv
  BY InitSound
<1>2. IInv /\ [Next]_vars => IInv'
  BY StepKeeps
<1> QED BY <1>1, <1>2, PTL DEF Spec

-----------------------------------------------------------------------------
(* Flows and queues *)

\* What a packet hashes to depends on the set of its two addresses, and its
\* protocol: both directions of a flow come to one worker.
LEMMA FlowsKept ==
  ASSUME SeenInv
  PROVE  SameFlowSameWorker
<1> SUFFICES ASSUME NEW x \in seen, NEW y \in seen, x[1] = y[1], x[2] = y[2]
             PROVE  x[3] = y[3]
  BY DEF SameFlowSameWorker
<1>1. PICK p \in Packet : ~p.tag /\ x = <<Range(p.flow), p.proto, sf_pkt_get_worker_index(p)>>
  BY DEF SeenInv
<1>2. PICK q \in Packet : ~q.tag /\ y = <<Range(q.flow), q.proto, sf_pkt_get_worker_index(q)>>
  BY DEF SeenInv
<1>3. Range(p.flow) = Range(q.flow) /\ p.proto = q.proto
  BY <1>1, <1>2
<1>4. \A r \in Packet : Range(r.flow) = {r.flow[1], r.flow[2]}
  <2> TAKE r \in Packet
  <2>1. r.flow \in Nat \X Nat
    BY DEF Packet
  <2>2. DOMAIN r.flow = {1, 2}
    BY <2>1
  <2> QED BY <2>2 DEF Range
<1>5. (p.flow[1] = p.flow[2]) = (q.flow[1] = q.flow[2])
  BY <1>3, <1>4, Zenon
<1>6. HashKey(p) = HashKey(q)
  BY <1>1, <1>2, <1>3, <1>5 DEF HashKey
<1>7. sf_pkt_get_worker_index(p) = sf_pkt_get_worker_index(q)
  BY <1>6 DEF sf_pkt_get_worker_index
<1> QED BY <1>1, <1>2, <1>7

\* A worker that sends holds the lock of its queue, or the queue is its own.
LEMMA QueuesKept ==
  ASSUME LockInv
  PROVE  OneSenderPerQueue
<1> SUFFICES ASSUME NEW v \in Workers, NEW w \in Workers, NEW i \in Intf, v # w, Sending(v, i), Sending(w, i),
                    cur[v].queue # 0, cur[w].queue # 0, TxQueue(v) = TxQueue(w)
             PROVE  FALSE
  BY DEF OneSenderPerQueue
<1>1. cur[v].queue = cur[w].queue
  BY DEF TxQueue
<1>2. lock[i][cur[v].queue] = v
  <2>1. PICK j \in Intf : cur[v].node = Tx(j) /\ lock[j][cur[v].queue] = v
    BY DEF LockInv
  <2> QED BY <2>1 DEF Sending, Tx
<1>3. lock[i][cur[w].queue] = w
  <2>1. PICK j \in Intf : cur[w].node = Tx(j) /\ lock[j][cur[w].queue] = w
    BY DEF LockInv
  <2> QED BY <2>1 DEF Sending, Tx
<1> QED BY <1>1, <1>2, <1>3

\* For any number of workers, interfaces and queues: both directions of an
\* untagged flow, and all its fragments, come to one worker
\* (sf_pkt_get_worker_index), and no two workers send on one tx queue
\* (tx_burst_vector_internal).
THEOREM QueuesAreSound == Spec => []QueuesSound
<1>1. IInv => QueuesSound
  BY FlowsKept, QueuesKept DEF IInv, QueuesSound
<1> QED BY <1>1, Invariant, PTL

-----------------------------------------------------------------------------
(* The balance of the invariant is the one of the runs: what it weighs, is  *)
(* how often a buffer, or a block, is in the lists of a worker.             *)

\* own is what a packet at a node has, and h counts e in it
Counts(own, h, e) ==
  /\ h \in [Pairs -> Nat] /\ own \in [Pairs -> Seq(Nat)]
  /\ \A x \in Pairs : Times(e, own[x]) = h[x]
FlatOf(own, ps) == FlattenSeq([i \in 1 .. Len(ps) |-> own[ps[i]]])

\* Occurrences in what the packets of a list own are the weight of the list.
LEMMA CountPairs ==
  ASSUME NEW own, NEW h, NEW e, Counts(own, h, e), NEW ps \in Seq(Pairs)
  PROVE  FlatOf(own, ps) \in Seq(Nat) /\ Times(e, FlatOf(own, ps)) = Weigh(h, ps)
<1> DEFINE n == Len(ps)
           ss == [i \in 1 .. n |-> own[ps[i]]]
<1>1. n \in Nat /\ \A i \in 1 .. n : ps[i] \in Pairs
  OBVIOUS
<1>2. h \in [Pairs -> Nat] /\ own \in [Pairs -> Seq(Nat)] /\ \A x \in Pairs : Times(e, own[x]) = h[x]
  BY DEF Counts
<1>3. \A i \in 1 .. n : ss[i] = own[ps[i]] /\ ss[i] \in Seq(Nat) /\ Times(e, ss[i]) = h[ps[i]]
  BY <1>1, <1>2
<1>4. ss = [i \in 1 .. n |-> ss[i]]
  OBVIOUS
<1>5. FlatOf(own, ps) = FlattenSeq(ss)
  BY DEF FlatOf
<1> HIDE DEF ss, n
<1>6. ss \in Seq(Seq(Nat)) /\ Len(ss) = n
  <2> DEFINE T == Seq(Nat)
  <2>1. \A i \in 1 .. n : ss[i] \in T
    BY <1>3
  <2> HIDE DEF T
  <2>2. ss \in Seq(T) /\ Len(ss) = n
    BY <1>1, <1>4, <2>1, SeqFrom, Zenon
  <2> QED BY <2>2 DEF T
<1>7. Len(ss) = Len(ps) /\ \A j \in 1 .. Len(ps) : Times(e, ss[j]) = h[ps[j]]
  BY <1>3, <1>6 DEF n
<1>8. FlattenSeq(ss) \in Seq(Nat) /\ Times(e, FlattenSeq(ss)) = Weigh(h, ps)
  BY <1>2, <1>6, <1>7, FlatWeigh, Zenon
<1> QED BY <1>5, <1>8

\* what frames hold
FlatFrames(own, fs) == FlattenSeq([i \in 1 .. Len(fs) |-> FlatOf(own, PairsOf(fs[i].node, fs[i].bufs))])

\* The same for the pending frames.
LEMMA CountFrames ==
  ASSUME NEW own, NEW h, NEW e, Counts(own, h, e), NEW fs \in Seq(FrameType)
  PROVE  FlatFrames(own, fs) \in Seq(Nat) /\ Times(e, FlatFrames(own, fs)) = Weigh(FrameOf(h), fs)
<1> DEFINE n == Len(fs)
           ss == [i \in 1 .. n |-> FlatOf(own, PairsOf(fs[i].node, fs[i].bufs))]
           g == FrameOf(h)
<1>1. n \in Nat /\ \A i \in 1 .. n : fs[i] \in FrameType
  OBVIOUS
<1>2. g \in [FrameType -> Nat]
  BY FrameOfType DEF Counts
<1>3. ASSUME NEW i \in 1 .. n
      PROVE  ss[i] \in Seq(Nat) /\ Times(e, ss[i]) = g[fs[i]]
  <2> DEFINE ps == PairsOf(fs[i].node, fs[i].bufs)
  <2>1. fs[i] \in FrameType
    BY <1>1
  <2>2. fs[i].node \in Nodes /\ fs[i].bufs \in Seq(Buffers)
    BY <2>1 DEF FrameType
  <2>3. ps \in Seq(Pairs)
    BY <2>2, PairsOfType, Zenon
  <2>4. ss[i] = FlatOf(own, ps) /\ g[fs[i]] = Weigh(h, ps)
    BY <2>1 DEF FrameOf
  <2> HIDE DEF ps, ss, g
  <2>5. FlatOf(own, ps) \in Seq(Nat) /\ Times(e, FlatOf(own, ps)) = Weigh(h, ps)
    BY <2>3, CountPairs, Zenon
  <2> QED BY <2>4, <2>5
<1>4. ss = [i \in 1 .. n |-> ss[i]]
  OBVIOUS
<1>5. FlatFrames(own, fs) = FlattenSeq(ss)
  BY DEF FlatFrames
<1> HIDE DEF ss, n, g
<1>6. ss \in Seq(Seq(Nat)) /\ Len(ss) = n
  <2> DEFINE T == Seq(Nat)
  <2>1. \A i \in 1 .. n : ss[i] \in T
    BY <1>3
  <2> HIDE DEF T
  <2>2. ss \in Seq(T) /\ Len(ss) = n
    BY <1>1, <1>4, <2>1, SeqFrom
  <2> QED BY <2>2 DEF T
<1>7. Len(ss) = Len(fs) /\ \A j \in 1 .. Len(fs) : Times(e, ss[j]) = g[fs[j]]
  BY <1>3, <1>6 DEF n
<1>8. FlattenSeq(ss) \in Seq(Nat) /\ Times(e, FlattenSeq(ss)) = Weigh(g, fs)
  BY <1>2, <1>6, <1>7, FlatWeigh
<1> QED BY <1>5, <1>8 DEF g

\* and frame queues
FlatQueue(own, fs) == FlattenSeq([i \in 1 .. Len(fs) |-> FlatOf(own, PairsOf(HfInputNode, fs[i]))])

\* And for a handoff queue.
LEMMA CountQueue ==
  ASSUME NEW own, NEW h, NEW e, Counts(own, h, e), NEW fs \in Seq(Seq(Buffers))
  PROVE  FlatQueue(own, fs) \in Seq(Nat) /\ Times(e, FlatQueue(own, fs)) = Weigh(QueueOf(h), fs)
<1> DEFINE n == Len(fs)
           ss == [i \in 1 .. n |-> FlatOf(own, PairsOf(HfInputNode, fs[i]))]
           g == QueueOf(h)
           B == Seq(Buffers)
<1>1. n \in Nat /\ \A i \in 1 .. n : fs[i] \in B
  OBVIOUS
<1>2. g \in [B -> Nat]
  BY QueueOfType DEF Counts
<1>3. ASSUME NEW i \in 1 .. n
      PROVE  ss[i] \in Seq(Nat) /\ Times(e, ss[i]) = g[fs[i]]
  <2> DEFINE ps == PairsOf(HfInputNode, fs[i])
  <2>1. fs[i] \in Seq(Buffers)
    BY <1>1
  <2>2. ps \in Seq(Pairs)
    BY <2>1, HandoffNodes, PairsOfType
  <2>3. ss[i] = FlatOf(own, ps) /\ g[fs[i]] = Weigh(h, ps)
    BY <2>1 DEF QueueOf
  <2> HIDE DEF ps, ss, g
  <2>4. FlatOf(own, ps) \in Seq(Nat) /\ Times(e, FlatOf(own, ps)) = Weigh(h, ps)
    BY <2>2, CountPairs
  <2> QED BY <2>3, <2>4
<1>4. ss = [i \in 1 .. n |-> ss[i]] /\ fs \in Seq(B)
  OBVIOUS
<1>5. FlatQueue(own, fs) = FlattenSeq(ss)
  BY DEF FlatQueue
<1> HIDE DEF ss, n, g, B
<1>6. ss \in Seq(Seq(Nat)) /\ Len(ss) = n
  <2> DEFINE T == Seq(Nat)
  <2>1. \A i \in 1 .. n : ss[i] \in T
    BY <1>3
  <2> HIDE DEF T
  <2>2. ss \in Seq(T) /\ Len(ss) = n
    BY <1>1, <1>4, <2>1, SeqFrom
  <2> QED BY <2>2 DEF T
<1>7. Len(ss) = Len(fs) /\ \A j \in 1 .. Len(fs) : Times(e, ss[j]) = g[fs[j]]
  BY <1>3, <1>6 DEF n
<1>8. FlattenSeq(ss) \in Seq(Nat) /\ Times(e, FlattenSeq(ss)) = Weigh(g, fs)
  BY <1>2, <1>4, <1>6, <1>7, FlatWeigh
<1> QED BY <1>5, <1>8 DEF g

\* and what waits for other workers
FlatAway(own, away) == FlattenSeq([i \in 1 .. Len(away) |-> own[<<HandoffNode, away[i][2]>>]])

\* And for the packets that leave for another worker.
LEMMA CountAway ==
  ASSUME NEW own, NEW h, NEW e, Counts(own, h, e), NEW away \in Seq(Away)
  PROVE  FlatAway(own, away) \in Seq(Nat) /\ Times(e, FlatAway(own, away)) = Weigh(AwayOf(h), away)
<1> DEFINE n == Len(away)
           ss == [i \in 1 .. n |-> own[<<HandoffNode, away[i][2]>>]]
           g == AwayOf(h)
<1>1. n \in Nat /\ \A i \in 1 .. n : away[i] \in Away
  OBVIOUS
<1>2. g \in [Away -> Nat]
  BY AwayOfType DEF Counts
<1>3. ASSUME NEW i \in 1 .. n
      PROVE  ss[i] \in Seq(Nat) /\ Times(e, ss[i]) = g[away[i]]
  <2> DEFINE x == <<HandoffNode, away[i][2]>>
  <2>1. away[i] \in Away
    BY <1>1
  <2>2. x \in Pairs
    BY <2>1, HandoffNodes DEF Away, Pairs
  <2>3. ss[i] = own[x] /\ g[away[i]] = h[x]
    BY <2>1 DEF AwayOf
  <2> HIDE DEF x, ss, g
  <2> QED BY <2>2, <2>3 DEF Counts
<1>4. ss = [i \in 1 .. n |-> ss[i]]
  OBVIOUS
<1>5. FlatAway(own, away) = FlattenSeq(ss)
  BY DEF FlatAway
<1> HIDE DEF ss, n, g
<1>6. ss \in Seq(Seq(Nat)) /\ Len(ss) = n
  <2> DEFINE T == Seq(Nat)
  <2>1. \A i \in 1 .. n : ss[i] \in T
    BY <1>3
  <2> HIDE DEF T
  <2>2. ss \in Seq(T) /\ Len(ss) = n
    BY <1>1, <1>4, <2>1, SeqFrom
  <2> QED BY <2>2 DEF T
<1>7. Len(ss) = Len(away) /\ \A j \in 1 .. Len(away) : Times(e, ss[j]) = g[away[j]]
  BY <1>3, <1>6 DEF n
<1>8. FlattenSeq(ss) \in Seq(Nat) /\ Times(e, FlattenSeq(ss)) = Weigh(g, away)
  BY <1>2, <1>6, <1>7, FlatWeigh
<1> QED BY <1>5, <1>8 DEF g

\* the buffers of the packets, and their blocks
BufOwn == [x \in Pairs |-> WithSubs(x[1], x[2])]
BlkOwn == [x \in Pairs |-> BlockOf(x[1], x[2])]

\* The weights of a buffer count it in what each packet holds.
LEMMA BuffersCount ==
  ASSUME ViewType(Now), NEW e
  PROVE  Counts(BufOwn, Holds(Now, e), e)
<1>1. ASSUME NEW x \in Pairs
      PROVE  BufOwn[x] = Own(Now, x) /\ Own(Now, x) \in Seq(Nat)
  <2>1. Own(Now, x) \in Seq(Nat)
    BY OwnType, BuffersNat
  <2>2. BufOwn[x] = WithSubs(x[1], x[2])
    BY DEF BufOwn
  <2>3. WithSubs(x[1], x[2]) = Own(Now, x)
    BY NowIs DEF WithSubs, Own, RxNode
  <2> QED BY <2>1, <2>2, <2>3
<1>2. BufOwn \in [Pairs -> Seq(Nat)]
  <2> DEFINE T == Seq(Nat)
  <2>1. BufOwn = [x \in Pairs |-> BufOwn[x]]
    BY DEF BufOwn
  <2>2. \A x \in Pairs : BufOwn[x] \in T
    BY <1>1
  <2> HIDE DEF T
  <2>3. BufOwn \in [Pairs -> T]
    BY <2>1, <2>2
  <2> QED BY <2>3 DEF T
<1>3. Holds(Now, e) \in [Pairs -> Nat] /\ \A x \in Pairs : Holds(Now, e)[x] = Times(e, Own(Now, x))
  BY HoldsType
<1> QED BY <1>1, <1>2, <1>3 DEF Counts

\* And those of a block count it in what each packet fills.
LEMMA BlocksCount ==
  ASSUME ViewType(Now), NEW k \in Block
  PROVE  Counts(BlkOwn, Fills(Now, k), k)
<1>0. k \in Nat /\ k # NoBlock
  BY CapacityAssumption DEF Block, NoBlock
<1>1. ASSUME NEW x \in Pairs
      PROVE  BlkOwn[x] \in Seq(Nat) /\ Times(k, BlkOwn[x]) = Fills(Now, k)[x]
  <2> DEFINE n == x[1]
             b == x[2]
             j == wd[b].blk
  <2>1. n \in Nodes /\ b \in Buffers
    BY DEF Pairs
  <2>2. wd[b] \in WdType
    BY <2>1, NowIs DEF ViewType
  <2>3. j \in Nat
    <3>1. j \in Block \cup {NoBlock}
      BY <2>2 DEF WdType
    <3> QED BY <3>1, CapacityAssumption DEF Block, NoBlock
  <2>4. BlkOwn[x] = BlockOf(n, b)
    BY DEF BlkOwn
  <2>5. Fills(Now, k)[x] = IF n \in Gathered /\ wd[b].huge /\ j = k THEN 1 ELSE 0
    BY NowIs DEF Fills
  <2>6. InBlock(n, b) <=> (wd[b].huge /\ j # NoBlock /\ n \in Gathered)
    BY DEF InBlock, Gathered, HugeOutNode, DropNode
  <2> HIDE DEF j, n, b
  <2>7. CASE InBlock(n, b)
    <3>1. BlockOf(n, b) = <<j>>
      BY <2>7 DEF BlockOf, j
    <3>2. <<j>> \in Seq(Nat) /\ Times(k, <<j>>) = IF j = k THEN 1 ELSE 0
      BY <2>3, TimesOne
    <3> QED BY <2>4, <2>5, <2>6, <2>7, <3>1, <3>2
  <2>8. CASE ~InBlock(n, b)
    <3> DEFINE v == <<>>
    <3>1. BlockOf(n, b) = v
      BY <2>8 DEF BlockOf
    <3>2. v \in Seq(Nat) /\ Times(k, v) = 0
      BY TimesEmpty
    <3> HIDE DEF v
    <3> QED BY <1>0, <2>4, <2>5, <2>6, <2>8, <3>1, <3>2
  <2> QED BY <2>7, <2>8
<1>2. BlkOwn \in [Pairs -> Seq(Nat)]
  <2> DEFINE T == Seq(Nat)
  <2>1. BlkOwn = [x \in Pairs |-> BlkOwn[x]]
    BY DEF BlkOwn
  <2>2. \A x \in Pairs : BlkOwn[x] \in T
    BY <1>1
  <2> HIDE DEF T
  <2>3. BlkOwn \in [Pairs -> T]
    BY <2>1, <2>2
  <2> QED BY <2>3 DEF T
<1> QED BY <1>1, <1>2, FillsType DEF Counts

\* the lists of the model in these terms
LEMMA AllOfIs ==
  ASSUME NEW n \in Nodes, NEW bs \in Seq(Buffers)
  PROVE  AllOf(n, bs) = FlatOf(BufOwn, PairsOf(n, bs)) /\ BlocksOf(n, bs) = FlatOf(BlkOwn, PairsOf(n, bs))
<1> DEFINE ps == PairsOf(n, bs)
           m == Len(bs)
<1>1. ps \in Seq(Pairs) /\ Len(ps) = m /\ \A i \in 1 .. m : ps[i] = <<n, bs[i]>> /\ ps[i] \in Pairs
  <2>1. ps \in Seq(Pairs) /\ Len(ps) = m /\ \A i \in 1 .. m : ps[i] = <<n, bs[i]>>
    BY PairsOfType
  <2> HIDE DEF ps
  <2> QED BY <2>1
<1>2. DOMAIN bs = 1 .. m
  OBVIOUS
<1> HIDE DEF ps, m
<1>3. \A i \in 1 .. m : BufOwn[ps[i]] = WithSubs(n, bs[i]) /\ BlkOwn[ps[i]] = BlockOf(n, bs[i])
  BY <1>1 DEF BufOwn, BlkOwn
<1>4. [i \in 1 .. m |-> BufOwn[ps[i]]] = [i \in 1 .. m |-> WithSubs(n, bs[i])]
  BY <1>3
<1>5. [i \in 1 .. m |-> BlkOwn[ps[i]]] = [i \in 1 .. m |-> BlockOf(n, bs[i])]
  BY <1>3
<1>6. FlatOf(BufOwn, ps) = FlattenSeq([i \in 1 .. m |-> WithSubs(n, bs[i])])
  BY <1>1, <1>4 DEF FlatOf
<1>7. FlatOf(BlkOwn, ps) = FlattenSeq([i \in 1 .. m |-> BlockOf(n, bs[i])])
  BY <1>1, <1>5 DEF FlatOf
<1> QED BY <1>2, <1>6, <1>7 DEF AllOf, BlocksOf, ps

\* The buffers and the blocks in the frames, as Conserved writes them.
LEMMA FramesAre ==
  ASSUME NEW fs \in Seq(FrameType)
  PROVE  /\ OfFrames(fs) = FlatFrames(BufOwn, fs)
         /\ FlattenSeq([i \in DOMAIN fs |-> BlocksOf(fs[i].node, fs[i].bufs)]) = FlatFrames(BlkOwn, fs)
<1> DEFINE m == Len(fs)
<1>1. DOMAIN fs = 1 .. m /\ \A i \in 1 .. m : fs[i].node \in Nodes /\ fs[i].bufs \in Seq(Buffers)
  <2>1. DOMAIN fs = 1 .. m /\ \A i \in 1 .. m : fs[i] \in FrameType
    OBVIOUS
  <2> QED BY <2>1 DEF FrameType
<1> HIDE DEF m
<1>2. \A i \in 1 .. m : /\ AllOf(fs[i].node, fs[i].bufs) = FlatOf(BufOwn, PairsOf(fs[i].node, fs[i].bufs))
                         /\ BlocksOf(fs[i].node, fs[i].bufs) = FlatOf(BlkOwn, PairsOf(fs[i].node, fs[i].bufs))
  BY <1>1, AllOfIs
<1>3. [i \in 1 .. m |-> AllOf(fs[i].node, fs[i].bufs)] = [i \in 1 .. m |-> FlatOf(BufOwn, PairsOf(fs[i].node, fs[i].bufs))]
  BY <1>2
<1>4. [i \in 1 .. m |-> BlocksOf(fs[i].node, fs[i].bufs)] = [i \in 1 .. m |-> FlatOf(BlkOwn, PairsOf(fs[i].node, fs[i].bufs))]
  BY <1>2
<1> QED BY <1>1, <1>3, <1>4 DEF OfFrames, FlatFrames, m

\* And those in a handoff queue.
LEMMA QueueIs ==
  ASSUME NEW fs \in Seq(Seq(Buffers))
  PROVE  OfFrames([i \in DOMAIN fs |-> [node |-> HfInputNode, bufs |-> fs[i]]]) = FlatQueue(BufOwn, fs)
<1> DEFINE m == Len(fs)
           q == [i \in DOMAIN fs |-> [node |-> HfInputNode, bufs |-> fs[i]]]
<1>1. DOMAIN fs = 1 .. m /\ DOMAIN q = 1 .. m /\ \A i \in 1 .. m : fs[i] \in Seq(Buffers)
  OBVIOUS
<1>2. \A i \in 1 .. m : q[i].node = HfInputNode /\ q[i].bufs = fs[i]
  BY <1>1
<1> HIDE DEF m, q
<1>3. \A i \in 1 .. m : AllOf(q[i].node, q[i].bufs) = FlatOf(BufOwn, PairsOf(HfInputNode, fs[i]))
  BY <1>1, <1>2, AllOfIs, HandoffNodes
<1>4. [i \in 1 .. m |-> AllOf(q[i].node, q[i].bufs)] = [i \in 1 .. m |-> FlatOf(BufOwn, PairsOf(HfInputNode, fs[i]))]
  BY <1>3
<1>5. OfFrames(q) = FlatQueue(BufOwn, fs)
  BY <1>1, <1>4 DEF OfFrames, FlatQueue, m
<1> QED BY <1>5 DEF q

\* two and three sequences after one another
LEMMA TimesParts ==
  ASSUME NEW e, NEW a \in Seq(Nat), NEW b \in Seq(Nat), NEW c \in Seq(Nat)
  PROVE  /\ a \o b \o c \in Seq(Nat)
         /\ Times(e, a \o b \o c) = Times(e, a) + Times(e, b) + Times(e, c)
<1> DEFINE d == a \o b
<1>1. d \in Seq(Nat) /\ Times(e, d) = Times(e, a) + Times(e, b)
  BY TimesConcat
<1> HIDE DEF d
<1>2. d \o c \in Seq(Nat) /\ Times(e, d \o c) = Times(e, d) + Times(e, c)
  BY <1>1, TimesConcat
<1> QED BY <1>1, <1>2 DEF d

\* how often a buffer is with a worker
LEMMA WorkerCount ==
  ASSUME Sound(Now), NEW w \in Workers, NEW e
  PROVE  /\ OfWorker(w) \in Seq(Nat)
         /\ Times(e, OfWorker(w)) = Load(Holds(Now, e), Lists(Now, w)) + Times(e, cur[w].drops)
<1> DEFINE c == cur[w]
           h == Holds(Now, e)
           L == Lists(Now, w)
           a1 == AllOf(c.node, Listed(c))
           a2 == FlattenSeq([i \in DOMAIN c.to |-> WithSubs(c.to[i][1], c.to[i][2])])
           a3 == FlattenSeq([i \in DOMAIN c.away |-> WithSubs(HandoffNode, c.away[i][2])])
           a4 == c.drops
           b1 == OfFrames(pend[w])
           b2 == OfFrames([i \in DOMAIN fq[w] |-> [node |-> HfInputNode, bufs |-> fq[w][i]]])
<1>1. ViewType(Now) /\ RunInv(Now, w) /\ Counts(BufOwn, h, e)
  BY BuffersCount DEF Sound
<1>2. /\ L = [list |-> PairsOf(c.node, Listed(c)), to |-> c.to, away |-> c.away, pend |-> pend[w], fq |-> fq[w]]
      /\ L \in ListsType
  BY <1>1, NowIs, ListsTypes DEF Lists
<1>3. /\ L.list = PairsOf(c.node, Listed(c)) /\ L.to = c.to /\ L.away = c.away /\ L.pend = pend[w] /\ L.fq = fq[w]
      /\ L.list \in Seq(Pairs) /\ L.to \in Seq(Pairs) /\ L.away \in Seq(Away)
      /\ L.pend \in Seq(FrameType) /\ L.fq \in Seq(Seq(Buffers))
  <2>1. L.list = PairsOf(c.node, Listed(c)) /\ L.to = c.to /\ L.away = c.away /\ L.pend = pend[w] /\ L.fq = fq[w]
    BY <1>2
  <2> HIDE DEF L
  <2> QED BY <1>2, <2>1, ListsParts
<1>4. c \in RunType
  BY NowTypes
<1>5. /\ c.node \in Nodes \cup {Idle} /\ c.frame \in Seq(Buffers) /\ c.left \in Seq(Buffers)
      /\ c.drops \in Seq(Buffers)
  BY <1>4, RunTypes
<1>6. c.node = Idle => c = NoRun
  BY <1>1, NowIs DEF RunInv, RunOf
<1>7. OfWorker(w) = (a1 \o a2 \o a3 \o a4) \o b1 \o b2
  BY DEF OfWorker, OfRun
<1> HIDE DEF c, h, L
<1>8. a1 \in Seq(Nat) /\ Times(e, a1) = Weigh(h, L.list)
  <2>1. Listed(c) \in Seq(Buffers)
    BY <1>5 DEF Listed
  <2>2. CASE c.node \in Nodes
    <3>1. a1 = FlatOf(BufOwn, L.list)
      BY <1>3, <2>1, <2>2, AllOfIs
    <3> HIDE DEF a1
    <3> QED BY <1>1, <1>3, <3>1, CountPairs, Zenon
  <2>3. CASE c.node = Idle
    <3>1. Listed(c) = <<>>
      BY <1>6, <2>3, NothingListed
    <3>2. PairsOf(c.node, <<>>) = <<>> /\ Weigh(h, <<>>) = 0 /\ Times(e, <<>>) = 0
      BY PairsOfEmpty, WeighEmpty, TimesEmpty, Zenon
    <3>3. a1 = <<>>
      <4> DEFINE v == <<>>
                 s == [i \in DOMAIN v |-> WithSubs(c.node, v[i])]
      <4>1. s = v
        OBVIOUS
      <4>2. AllOf(c.node, v) = FlattenSeq(s)
        BY DEF AllOf
      <4> HIDE DEF s
      <4> QED BY <3>1, <4>1, <4>2, FlatEmpty
    <3>4. <<>> \in Seq(Nat)
      OBVIOUS
    <3> HIDE DEF a1
    <3> QED BY <1>3, <3>1, <3>2, <3>3, <3>4
  <2> QED BY <1>5, <2>2, <2>3
<1>9. a2 \in Seq(Nat) /\ Times(e, a2) = Weigh(h, L.to)
  <2> DEFINE t == c.to
             m == Len(t)
  <2>1. t \in Seq(Pairs) /\ DOMAIN t = 1 .. m /\ \A i \in 1 .. m : t[i] \in Pairs
    BY <1>3
  <2>2. \A i \in 1 .. m : BufOwn[t[i]] = WithSubs(t[i][1], t[i][2])
    BY <2>1 DEF BufOwn
  <2> HIDE DEF t, m
  <2>3. [i \in 1 .. m |-> BufOwn[t[i]]] = [i \in 1 .. m |-> WithSubs(t[i][1], t[i][2])]
    BY <2>2
  <2>4. a2 = FlatOf(BufOwn, t)
    BY <2>1, <2>3 DEF FlatOf, m, t
  <2> HIDE DEF a2
  <2>5. a2 \in Seq(Nat) /\ Times(e, a2) = Weigh(h, t)
    BY <1>1, <2>1, <2>4, CountPairs
  <2> QED BY <1>3, <2>5 DEF t
<1>10. a3 \in Seq(Nat) /\ Times(e, a3) = Weigh(AwayOf(h), L.away)
  <2> DEFINE t == c.away
             m == Len(t)
  <2>1. t \in Seq(Away) /\ DOMAIN t = 1 .. m /\ \A i \in 1 .. m : t[i] \in Away
    BY <1>3
  <2>2. \A i \in 1 .. m : BufOwn[<<HandoffNode, t[i][2]>>] = WithSubs(HandoffNode, t[i][2])
    <3> TAKE i \in 1 .. m
    <3> DEFINE x == <<HandoffNode, t[i][2]>>
    <3>1. t[i] \in Away
      BY <2>1
    <3>2. x \in Pairs /\ x[1] = HandoffNode /\ x[2] = t[i][2]
      BY <3>1, HandoffNodes DEF Pairs, Away
    <3> HIDE DEF x
    <3>3. BufOwn[x] = WithSubs(x[1], x[2])
      BY <3>2 DEF BufOwn
    <3> QED BY <3>2, <3>3 DEF x
  <2> HIDE DEF t, m
  <2>3. [i \in 1 .. m |-> BufOwn[<<HandoffNode, t[i][2]>>]] = [i \in 1 .. m |-> WithSubs(HandoffNode, t[i][2])]
    BY <2>2
  <2>4. a3 = FlatAway(BufOwn, t)
    BY <2>1, <2>3 DEF FlatAway, m, t
  <2> HIDE DEF a3
  <2>5. a3 \in Seq(Nat) /\ Times(e, a3) = Weigh(AwayOf(h), t)
    BY <1>1, <2>1, <2>4, CountAway
  <2> QED BY <1>3, <2>5 DEF t
<1>11. a4 \in Seq(Nat)
  BY <1>5, BuffersNat
<1>12. b1 \in Seq(Nat) /\ Times(e, b1) = Weigh(FrameOf(h), L.pend)
  <2>1. b1 = FlatFrames(BufOwn, pend[w])
    BY <1>3, FramesAre
  <2> HIDE DEF b1
  <2> QED BY <1>1, <1>3, <2>1, CountFrames
<1>13. b2 \in Seq(Nat) /\ Times(e, b2) = Weigh(QueueOf(h), L.fq)
  <2>1. b2 = FlatQueue(BufOwn, fq[w])
    BY <1>3, QueueIs
  <2> HIDE DEF b2
  <2>2. Counts(BufOwn, h, e) /\ fq[w] \in Seq(Seq(Buffers)) /\ L.fq = fq[w]
    BY <1>1, <1>3
  <2>3. FlatQueue(BufOwn, fq[w]) \in Seq(Nat)
        /\ Times(e, FlatQueue(BufOwn, fq[w])) = Weigh(QueueOf(h), fq[w])
    BY <2>2, CountQueue
  <2> QED BY <2>1, <2>2, <2>3
<1> HIDE DEF a1, a2, a3, a4, b1, b2
<1> DEFINE a5 == a1 \o a2 \o a3
           a6 == a5 \o a4
           a7 == a6 \o b1 \o b2
<1>14. a5 \in Seq(Nat) /\ Times(e, a5) = Times(e, a1) + Times(e, a2) + Times(e, a3)
  BY <1>8, <1>9, <1>10, TimesParts
<1> HIDE DEF a5
<1>15. a6 \in Seq(Nat) /\ Times(e, a6) = Times(e, a5) + Times(e, a4)
  BY <1>11, <1>14, TimesConcat
<1> HIDE DEF a6
<1>16. a7 \in Seq(Nat) /\ Times(e, a7) = Times(e, a6) + Times(e, b1) + Times(e, b2)
  BY <1>12, <1>13, <1>15, TimesParts
<1>17. OfWorker(w) = a7
  BY <1>7 DEF a7, a6, a5
<1> HIDE DEF a7
<1>18. Times(e, a1) \in Nat /\ Times(e, a2) \in Nat /\ Times(e, a3) \in Nat /\ Times(e, a4) \in Nat
       /\ Times(e, b1) \in Nat /\ Times(e, b2) \in Nat
  BY <1>8, <1>9, <1>10, <1>11, <1>12, <1>13, TimesNat, Zenon
<1>19. Load(h, L) = Times(e, a1) + Times(e, a2) + Times(e, a3) + Times(e, b1) + Times(e, b2)
  BY <1>8, <1>9, <1>10, <1>12, <1>13 DEF Load
<1> DEFINE t1 == Times(e, a1)
           t2 == Times(e, a2)
           t3 == Times(e, a3)
           t4 == Times(e, a4)
           t5 == Times(e, b1)
           t6 == Times(e, b2)
           t7 == Times(e, a7)
           l == Load(h, L)
<1>20. t7 = ((t1 + t2 + t3) + t4) + t5 + t6 /\ l = t1 + t2 + t3 + t5 + t6
  BY <1>14, <1>15, <1>16, <1>19
<1>21. t1 \in Nat /\ t2 \in Nat /\ t3 \in Nat /\ t4 \in Nat /\ t5 \in Nat /\ t6 \in Nat
  BY <1>18
<1> HIDE DEF t1, t2, t3, t4, t5, t6, t7, l
<1>22. t7 = l + t4
  BY <1>20, <1>21
<1> QED BY <1>16, <1>17, <1>22 DEF t7, l, t4, a4, c, h, L, a7

\* and a block
LEMMA HeldCount ==
  ASSUME Sound(Now), NEW w \in Workers, NEW k \in Block
  PROVE  Times(k, BlocksHeld(w)) = Load(Fills(Now, k), LeftLists(Now, w))
<1> DEFINE c == cur[w]
           h == Fills(Now, k)
           L == LeftLists(Now, w)
           a1 == BlocksOf(c.node, c.left)
           a2 == FlattenSeq([i \in DOMAIN c.to |-> BlockOf(c.to[i][1], c.to[i][2])])
           a3 == FlattenSeq([i \in DOMAIN pend[w] |-> BlocksOf(pend[w][i].node, pend[w][i].bufs)])
<1>1. ViewType(Now) /\ RunInv(Now, w) /\ Counts(BlkOwn, h, k) /\ h \in [Pairs -> Nat]
  BY BlocksCount, FillsType DEF Sound
<1>2. /\ L.list = IF c.node = DropNode THEN PairsOf(DropNode, c.left) ELSE PairsOf(c.node, Listed(c))
      /\ L.to = c.to /\ L.away = c.away /\ L.pend = pend[w] /\ L.fq = fq[w]
  BY NowIs DEF LeftLists, Lists
<1>3. L \in ListsType
  BY <1>1, ListsTypes
<1>4. c \in RunType
  BY NowTypes
<1>5. c.node \in Nodes \cup {Idle} /\ c.frame \in Seq(Buffers) /\ c.left \in Seq(Buffers)
  BY <1>4, RunTypes
<1>6. c.node = Idle => c = NoRun
  BY <1>1, NowIs DEF RunInv, RunOf
<1>7. BlocksHeld(w) = a1 \o a2 \o a3
  BY DEF BlocksHeld
<1> HIDE DEF c, h, L
<1>8. /\ L.list \in Seq(Pairs) /\ L.to \in Seq(Pairs) /\ L.away \in Seq(Away)
      /\ L.pend \in Seq(FrameType) /\ L.fq \in Seq(Seq(Buffers))
  BY <1>3, ListsParts
<1>9. \A x \in Pairs : h[x] # 0 => x[1] \in Gathered
  BY DEF h, Fills
<1>10. a1 \in Seq(Nat) /\ Times(k, a1) = Weigh(h, L.list)
  <2>1. CASE c.node = Idle
    <3>1. Listed(c) = <<>> /\ c.left = <<>> /\ c.node # DropNode
      BY <1>6, <2>1, NothingListed, NoRunIs DEF Idle, DropNode, N
    <3>2. PairsOf(c.node, <<>>) = <<>> /\ Weigh(h, <<>>) = 0 /\ Times(k, <<>>) = 0
      BY PairsOfEmpty, WeighEmpty, TimesEmpty, Zenon
    <3>3. a1 = <<>>
      <4> DEFINE v == <<>>
                 s == [i \in DOMAIN v |-> BlockOf(c.node, v[i])]
      <4>1. s = v
        OBVIOUS
      <4>2. BlocksOf(c.node, v) = FlattenSeq(s)
        BY DEF BlocksOf
      <4> HIDE DEF s
      <4> QED BY <3>1, <4>1, <4>2, FlatEmpty
    <3>4. <<>> \in Seq(Nat)
      OBVIOUS
    <3> HIDE DEF a1
    <3> QED BY <1>2, <3>1, <3>2, <3>3, <3>4
  <2>2. CASE c.node \in Nodes
    <3> DEFINE ps == PairsOf(c.node, c.left)
    <3>1. ps \in Seq(Pairs) /\ Len(ps) = Len(c.left) /\ \A i \in 1 .. Len(c.left) : ps[i] = <<c.node, c.left[i]>>
      BY <1>5, <2>2, PairsOfType
    <3>2. a1 = FlatOf(BlkOwn, ps)
      BY <1>5, <2>2, AllOfIs
    <3> HIDE DEF a1, ps
    <3>3. a1 \in Seq(Nat) /\ Times(k, a1) = Weigh(h, ps)
      BY <1>1, <3>1, <3>2, CountPairs
    <3>4. CASE c.node \notin TxNodes
      <4>1. L.list = ps
        BY <1>2, <3>4 DEF ps, Listed, DropNode
      <4> QED BY <3>3, <4>1
    <3>5. CASE c.node \in TxNodes
      <4> DEFINE qs == PairsOf(c.node, c.frame)
      <4>1. c.node # DropNode /\ c.node \notin Gathered
        BY <3>5 DEF TxNodes, Tx, DropNode, Gathered, HugeOutNode, N
      <4>2. L.list = qs
        BY <1>2, <3>5, <4>1 DEF Listed
      <4>3. qs \in Seq(Pairs) /\ Len(qs) = Len(c.frame) /\ \A i \in 1 .. Len(c.frame) : qs[i] = <<c.node, c.frame[i]>>
        BY <1>5, <2>2, PairsOfType
      <4> HIDE DEF qs
      <4>4. \A i \in 1 .. Len(qs) : h[qs[i]] = 0
        <5> TAKE i \in 1 .. Len(qs)
        <5>1. qs[i] = <<c.node, c.frame[i]>> /\ qs[i] \in Pairs
          BY <4>3
        <5> QED BY <1>9, <4>1, <5>1
      <4>5. \A i \in 1 .. Len(ps) : h[ps[i]] = 0
        <5> TAKE i \in 1 .. Len(ps)
        <5>1. ps[i] = <<c.node, c.left[i]>> /\ ps[i] \in Pairs
          BY <3>1
        <5> QED BY <1>9, <4>1, <5>1
      <4>6. Weigh(h, qs) = 0
        BY <1>1, <4>3, <4>4, WeighNone
      <4>7. Weigh(h, ps) = 0
        BY <1>1, <3>1, <4>5, WeighNone
      <4> QED BY <3>3, <4>2, <4>6, <4>7
    <3> QED BY <3>4, <3>5
  <2> QED BY <1>5, <2>1, <2>2
<1>11. a2 \in Seq(Nat) /\ Times(k, a2) = Weigh(h, L.to)
  <2> DEFINE t == c.to
             m == Len(t)
  <2>1. t \in Seq(Pairs) /\ DOMAIN t = 1 .. m /\ \A i \in 1 .. m : t[i] \in Pairs
    BY <1>2, <1>8
  <2>2. \A i \in 1 .. m : BlkOwn[t[i]] = BlockOf(t[i][1], t[i][2])
    BY <2>1 DEF BlkOwn
  <2> HIDE DEF t, m
  <2>3. [i \in 1 .. m |-> BlkOwn[t[i]]] = [i \in 1 .. m |-> BlockOf(t[i][1], t[i][2])]
    BY <2>2
  <2>4. a2 = FlatOf(BlkOwn, t)
    BY <2>1, <2>3 DEF FlatOf, m, t
  <2> HIDE DEF a2
  <2>5. a2 \in Seq(Nat) /\ Times(k, a2) = Weigh(h, t)
    BY <1>1, <2>1, <2>4, CountPairs
  <2> QED BY <1>2, <2>5 DEF t
<1>12. a3 \in Seq(Nat) /\ Times(k, a3) = Weigh(FrameOf(h), L.pend)
  <2>1. a3 = FlatFrames(BlkOwn, pend[w])
    BY <1>2, <1>8, FramesAre
  <2> HIDE DEF a3
  <2> QED BY <1>1, <1>2, <1>8, <2>1, CountFrames
<1>13. HandoffNode \notin Gathered /\ HfInputNode \notin Gathered
  BY DEF HandoffNode, HfInputNode, Gathered, HugeOutNode, DropNode, N
<1>14. Weigh(AwayOf(h), L.away) = 0
  <2> DEFINE t == L.away
             g == AwayOf(h)
  <2>1. g \in [Away -> Nat]
    BY <1>1, AwayOfType
  <2>2. \A i \in 1 .. Len(t) : g[t[i]] = 0
    <3> TAKE i \in 1 .. Len(t)
    <3> DEFINE x == <<HandoffNode, t[i][2]>>
    <3>1. t[i] \in Away
      BY <1>8
    <3>2. x \in Pairs /\ x[1] = HandoffNode
      BY <3>1, HandoffNodes DEF Pairs, Away
    <3>3. g[t[i]] = h[x]
      BY <3>1 DEF AwayOf
    <3> HIDE DEF x, g, t
    <3> QED BY <1>9, <1>13, <3>2, <3>3
  <2> HIDE DEF g
  <2> QED BY <1>8, <2>1, <2>2, WeighNone DEF g
<1>15. Weigh(QueueOf(h), L.fq) = 0
  <2> DEFINE t == L.fq
             g == QueueOf(h)
             B == Seq(Buffers)
  <2>1. g \in [B -> Nat] /\ t \in Seq(B)
    BY <1>1, <1>8, QueueOfType
  <2>2. \A i \in 1 .. Len(t) : g[t[i]] = 0
    <3> TAKE i \in 1 .. Len(t)
    <3> DEFINE ps == PairsOf(HfInputNode, t[i])
    <3>1. t[i] \in Seq(Buffers)
      BY <1>8
    <3>2. ps \in Seq(Pairs) /\ Len(ps) = Len(t[i]) /\ \A j \in 1 .. Len(t[i]) : ps[j] = <<HfInputNode, t[i][j]>>
      BY <3>1, HandoffNodes, PairsOfType
    <3>3. g[t[i]] = Weigh(h, ps)
      BY <3>1 DEF QueueOf
    <3> HIDE DEF ps, g, t
    <3>4. \A j \in 1 .. Len(ps) : h[ps[j]] = 0
      <4> TAKE j \in 1 .. Len(ps)
      <4>1. ps[j] = <<HfInputNode, t[i][j]>> /\ ps[j] \in Pairs
        BY <3>2
      <4> QED BY <1>9, <1>13, <4>1
    <3>5. Weigh(h, ps) = 0
      BY <1>1, <3>2, <3>4, WeighNone
    <3> QED BY <3>3, <3>5
  <2> HIDE DEF g, B, t
  <2>3. Weigh(g, t) = 0
    BY <2>1, <2>2, WeighNone
  <2> QED BY <2>3 DEF g, t
<1> HIDE DEF a1, a2, a3
<1>16. Times(k, a1 \o a2 \o a3) = Times(k, a1) + Times(k, a2) + Times(k, a3)
  BY <1>10, <1>11, <1>12, TimesParts
<1>17. Load(h, L) = Times(k, a1) + Times(k, a2) + 0 + Times(k, a3) + 0
  BY <1>10, <1>11, <1>12, <1>14, <1>15 DEF Load
<1>18. Times(k, a1) \in Nat /\ Times(k, a2) \in Nat /\ Times(k, a3) \in Nat
  BY <1>10, <1>11, <1>12, TimesNat
<1> DEFINE t1 == Times(k, a1)
           t2 == Times(k, a2)
           t3 == Times(k, a3)
           t == Times(k, a1 \o a2 \o a3)
           l == Load(h, L)
<1>19. t = t1 + t2 + t3 /\ l = t1 + t2 + 0 + t3 + 0 /\ t1 \in Nat /\ t2 \in Nat /\ t3 \in Nat
  BY <1>16, <1>17, <1>18
<1> HIDE DEF t1, t2, t3, t, l
<1>20. t = l
  BY <1>19
<1> QED BY <1>7, <1>20 DEF t, l, h, L

\* a sum of sums
LEMMA SumPlus ==
  ASSUME NEW n \in Nat, NEW f, NEW g, NEW h, \A k \in 1 .. n : f[k] \in Nat /\ g[k] \in Nat /\ h[k] = f[k] + g[k]
  PROVE  SumTo(h, n) = SumTo(f, n) + SumTo(g, n)
<1> DEFINE r == Sums(f, n)
           s == Sums(g, n)
           t == Sums(h, n)
           S == {k \in 0 .. n : t[k] = r[k] + s[k]}
<1>1. r[0] = 0 /\ \A k \in 1 .. n : r[k] = r[k - 1] + f[k]
  BY SumsStep
<1>2. s[0] = 0 /\ \A k \in 1 .. n : s[k] = s[k - 1] + g[k]
  BY SumsStep
<1>3. t[0] = 0 /\ \A k \in 1 .. n : t[k] = t[k - 1] + h[k]
  BY SumsStep
<1>4. \A k \in 0 .. n : r[k] \in Int /\ s[k] \in Int
  <2>1. \A k \in 1 .. n : f[k] \in Int /\ g[k] \in Int
    OBVIOUS
  <2> QED BY <2>1, SumsInt
<1> HIDE DEF r, s, t
<1>5. 0 \in S
  BY <1>1, <1>2, <1>3
<1>6. \A k \in 0 .. n : k < n /\ k \in S => k + 1 \in S
  <2> SUFFICES ASSUME NEW k \in 0 .. n, k < n, t[k] = r[k] + s[k]
               PROVE  k + 1 \in 0 .. n /\ t[k + 1] = r[k + 1] + s[k + 1]
    OBVIOUS
  <2> DEFINE m == k + 1
  <2>1. m \in 1 .. n /\ m - 1 = k /\ m \in 0 .. n
    OBVIOUS
  <2> HIDE DEF m
  <2>2. r[m] = r[k] + f[m] /\ s[m] = s[k] + g[m] /\ t[m] = t[k] + h[m]
    BY <1>1, <1>2, <1>3, <2>1
  <2>3. f[m] \in Nat /\ g[m] \in Nat /\ h[m] = f[m] + g[m] /\ r[k] \in Int /\ s[k] \in Int
    BY <1>4, <2>1
  <2>4. t[m] = r[m] + s[m]
    BY <2>2, <2>3
  <2> QED BY <2>1, <2>4 DEF m
<1> HIDE DEF S
<1>7. \A k \in 0 .. n : k \in S
  BY <1>5, <1>6, UpTo
<1>8. n \in S
  BY <1>7
<1> QED BY <1>8 DEF S, SumTo, r, s, t

\* the size of a set, as a sum
LEMMA SizeSum ==
  ASSUME NEW n \in Nat, NEW A, NEW f, \A k \in 1 .. n : f[k] = Ind(k \in A)
  PROVE  Cardinality({k \in 1 .. n : k \in A}) = SumTo(f, n)
<1> DEFINE s == Sums(f, n)
           B(m) == {k \in 1 .. m : k \in A}
           S == {m \in 0 .. n : IsFiniteSet(B(m)) /\ Cardinality(B(m)) = s[m]}
<1>1. s[0] = 0 /\ \A k \in 1 .. n : s[k] = s[k - 1] + f[k]
  BY SumsStep
<1> HIDE DEF s
<1>2. 0 \in S
  <2>1. B(0) = {}
    OBVIOUS
  <2>2. IsFiniteSet(B(0)) /\ Cardinality(B(0)) = 0
    BY <2>1, FS_EmptySet
  <2> HIDE DEF B
  <2> QED BY <1>1, <2>2
<1>3. \A m \in 0 .. n : m < n /\ m \in S => m + 1 \in S
  <2> SUFFICES ASSUME NEW m \in 0 .. n, m < n, IsFiniteSet(B(m)), Cardinality(B(m)) = s[m]
               PROVE  m + 1 \in 0 .. n /\ IsFiniteSet(B(m + 1)) /\ Cardinality(B(m + 1)) = s[m + 1]
    OBVIOUS
  <2> DEFINE j == m + 1
  <2>1. j \in 1 .. n /\ j - 1 = m /\ j \in 0 .. n /\ j \notin B(m)
    OBVIOUS
  <2>2. B(j) = IF j \in A THEN B(m) \cup {j} ELSE B(m)
    OBVIOUS
  <2> HIDE DEF j, B
  <2>3. s[j] = s[m] + f[j] /\ f[j] = Ind(j \in A)
    BY <1>1, <2>1
  <2>4. Cardinality(B(m)) \in Nat
    BY FS_CardinalityType
  <2>5. CASE j \in A
    <3>1. IsFiniteSet(B(j)) /\ Cardinality(B(j)) = Cardinality(B(m)) + 1
      BY <2>1, <2>2, <2>5, FS_AddElement
    <3> QED BY <2>1, <2>3, <2>5, <3>1 DEF Ind, j
  <2>6. CASE j \notin A
    <3>1. B(j) = B(m)
      BY <2>2, <2>6
    <3> QED BY <2>1, <2>3, <2>4, <2>6, <3>1 DEF Ind, j
  <2> QED BY <2>5, <2>6
<1> HIDE DEF S
<1>4. \A m \in 0 .. n : m \in S
  BY <1>2, <1>3, UpTo
<1>5. n \in S
  BY <1>4
<1> QED BY <1>5 DEF S, SumTo, s

\* The balance says that the buffers are conserved.
LEMMA BuffersAreKept ==
  ASSUME Sound(Now)
  PROVE  BuffersConserved
<1> DEFINE n == Cardinality(Workers)
           ss == [w \in Workers |-> OfWorker(w)]
           refs == FlattenSeq(ss)
<1> SUFFICES ASSUME NEW b \in Buffers
             PROVE  mempool[b] + Cardinality({w \in Workers : b \in freelist[w]}) + Times(b, refs)
                    = IF b \in lost THEN 0 ELSE 1
  BY DEF BuffersConserved
<1> DEFINE f == CountIn(b, ss)
           g == [w \in Workers |-> Ind(b \in freelist[w])]
           h == [w \in Workers |-> Refs(Now, b, w)]
           A == {w \in Workers : b \in freelist[w]}
<1>1. n \in Nat /\ Workers = 1 .. n
  BY WorkersAre
<1>2. \A w \in Workers : ss[w] = OfWorker(w) /\ ss[w] \in Seq(Nat)
  BY WorkerCount
<1>3. ss = [w \in Workers |-> ss[w]] /\ DOMAIN ss = Workers
  OBVIOUS
<1> HIDE DEF ss, n
<1>4. ss \in Seq(Seq(Nat)) /\ Len(ss) = n
  <2> DEFINE T == Seq(Nat)
  <2>1. ss = [i \in 1 .. n |-> ss[i]] /\ \A i \in 1 .. n : ss[i] \in T
    BY <1>1, <1>2, <1>3
  <2> HIDE DEF T
  <2>2. ss \in Seq(T) /\ Len(ss) = n
    BY <1>1, <2>1, SeqFrom
  <2> QED BY <2>2 DEF T
<1>5. Times(b, refs) = SumTo(f, n)
  BY <1>4, FlatCount
<1>6. ASSUME NEW w \in Workers
      PROVE  f[w] \in Nat /\ g[w] \in Nat /\ h[w] = f[w] + g[w] /\ g[w] = Ind(w \in A)
  <2>1. f[w] = Times(b, OfWorker(w)) /\ f[w] \in Nat
    <3>1. f[w] = Times(b, ss[w])
      BY <1>3 DEF CountIn
    <3> QED BY <1>2, <3>1, TimesNat
  <2>2. Times(b, OfWorker(w)) = Load(Holds(Now, b), Lists(Now, w)) + Times(b, cur[w].drops)
    BY WorkerCount
  <2>3. g[w] = Ind(b \in freelist[w]) /\ g[w] \in Nat
    BY DEF Ind
  <2>4. h[w] = Load(Holds(Now, b), Lists(Now, w)) + Times(b, cur[w].drops) + Ind(b \in freelist[w])
    BY NowIs DEF Refs
  <2>5. (w \in A) = (b \in freelist[w])
    OBVIOUS
  <2> HIDE DEF f, g, h, A
  <2>6. h[w] = f[w] + g[w]
    BY <2>1, <2>2, <2>3, <2>4
  <2>7. g[w] = Ind(w \in A)
    BY <2>3, <2>5
  <2> QED BY <2>1, <2>3, <2>6, <2>7
<1>7. A = {w \in 1 .. n : w \in A}
  BY <1>1
<1>8. mempool[b] + SumTo(h, n) + Ind(b \in lost) = 1 /\ mempool[b] \in Nat
  BY NowIs DEF Sound, BufferBalance, ViewType, n
<1> HIDE DEF f, g, h, A
<1>9. SumTo(h, n) = SumTo(f, n) + SumTo(g, n)
  BY <1>1, <1>6, SumPlus, Zenon
<1>10. Cardinality(A) = SumTo(g, n)
  <2>1. Cardinality({w \in 1 .. n : w \in A}) = SumTo(g, n)
    BY <1>1, <1>6, SizeSum
  <2> QED BY <1>7, <2>1
<1>11. SumTo(f, n) \in Nat /\ SumTo(g, n) \in Nat
  BY <1>1, <1>6, SumNat
<1>12. Ind(b \in lost) = IF b \in lost THEN 1 ELSE 0
  BY DEF Ind
<1> DEFINE p == mempool[b]
           x == SumTo(f, n)
           y == SumTo(g, n)
           l == Ind(b \in lost)
<1>13. p + (x + y) + l = 1 /\ p \in Nat /\ x \in Nat /\ y \in Nat
  BY <1>8, <1>9, <1>11
<1>14. l = IF b \in lost THEN 1 ELSE 0
  BY <1>12
<1> HIDE DEF p, x, y, l
<1>15. p + y + x = IF b \in lost THEN 0 ELSE 1
  BY <1>13, <1>14
<1> QED BY <1>5, <1>10, <1>15 DEF p, x, y, A

\* And the blocks.
LEMMA BlocksAreKept ==
  ASSUME Sound(Now)
  PROVE  BlocksConserved
<1> SUFFICES ASSUME NEW w \in Workers, NEW k \in Block, <<w, k>> \notin spoilt
             PROVE  blkpool[w][k] + Times(k, BlocksHeld(w)) = 1
  BY DEF BlocksConserved
<1>1. Times(k, BlocksHeld(w)) = Load(Fills(Now, k), LeftLists(Now, w))
  BY HeldCount, Zenon
<1>2. blkpool[w][k] + Load(Fills(Now, k), LeftLists(Now, w)) = 1
  BY NowIs DEF Sound, BlockBalance, BlocksAt
<1> QED BY <1>1, <1>2

\* For any number of workers, interfaces, buffers, blocks and queues, and any
\* traffic: a buffer is in the mempool, in the list of a worker, or in one frame,
\* once, unless a packet too long for a block lost it; a 16k block is in its
\* pool or holds one packet of its worker, unless it was freed with a packet for
\* an interface that is down.  This is about sf-dpdk-input, the handoff,
\* handle_huge_packet, sf_vlib_buffer_split, the drop node and the tx function.
THEOREM PacketsAreConserved == Spec => []Conserved
<1>1. IInv => Conserved
  BY BuffersAreKept, BlocksAreKept DEF IInv, Conserved
<1> QED BY <1>1, Invariant, PTL
=============================================================================
