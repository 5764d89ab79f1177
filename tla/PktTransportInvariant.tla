------------------------- MODULE PktTransportInvariant ------------------------
(***************************************************************************)
(* The inductive invariant of the way of packets through the workers, and  *)
(* the lemmas its proof rests on: sequences and weights, what one step of  *)
(* a worker changes of what it has, and the nodes that give nothing away.  *)
(* PktTransportProofs goes on from here to the theorems.                   *)
(***************************************************************************)
EXTENDS PktTransport, FiniteSetTheorems, WellFoundedInduction, TLAPS

-----------------------------------------------------------------------------
(* What the invariant speaks of *)

RxNode == N("sf-dpdk-input")
DropNode == N("sf_pkt_drop")
HugeOutNode == N("sf_hugepkt_output")
Nodes == Before \cup TxNodes \cup {RxNode, DropNode, HugeOutNode, N("graph"), N("sf_pkt_output")}

SegType == [buf : Buffers, len : Int]
WdType == [intf : Intf \cup {0}, out : Nat, huge : BOOLEAN, rec : BOOLEAN, len : Int,
           blk : Block \cup {NoBlock}, subs : Seq(SegType), handed : BOOLEAN]
MbufType == [pkt : Packet, segs : Seq(SegType)]
RunType == [node : Nodes \cup {Idle}, frame : Seq(Buffers), left : Seq(Buffers),
            to : Seq(Nodes \X Buffers), away : Seq(Workers \X Buffers), drops : Seq(Buffers),
            queue : 0..TxQueues, hand : BOOLEAN]
FrameType == [node : Nodes, bufs : Seq(Buffers)]

\* a packet at a node
Pairs == Nodes \X Buffers

-----------------------------------------------------------------------------
(* Sums *)

\* f[1] + ... + f[k] for each k up to n, and the whole sum
Sums(f, n) ==
  LET s[k \in 0 .. n] == IF k = 0 THEN 0 ELSE s[k - 1] + f[k] IN s
SumTo(f, n) == Sums(f, n)[n]

\* induction up to n, as a statement about a set
LEMMA UpTo ==
  ASSUME NEW S, NEW n \in Nat, 0 \in S, \A k \in 0..n : k < n /\ k \in S => k + 1 \in S
  PROVE  \A k \in 0..n : k \in S
<1> DEFINE Bad == {k \in 0..n : k \notin S}
           R == OpToRel(<, Nat)
<1> SUFFICES ASSUME Bad # {} PROVE FALSE
  OBVIOUS
<1>1. \E k \in Bad : \A j \in Bad : ~(<<j, k>> \in R)
  <2>1. IsWellFoundedOn(R, Nat)
    BY NatLessThanWellFounded
  <2>2. Bad \subseteq Nat
    OBVIOUS
  <2> HIDE DEF R, Bad
  <2> QED BY <2>1, <2>2, WFMin
<1>2. PICK k \in Bad : \A j \in Bad : ~(<<j, k>> \in R)
  BY <1>1
<1>3. k \in 0..n /\ k \notin S /\ k # 0
  BY <1>2
<1>4. k - 1 \in 0..n /\ k - 1 < n /\ (k - 1) + 1 = k /\ <<k - 1, k>> \in R
  BY <1>3 DEF OpToRel
<1>5. k - 1 \notin Bad
  BY <1>2, <1>4
<1> QED BY <1>3, <1>4, <1>5, Zenon

\* The recursive function of Sums exists.
LEMMA SumsExist ==
  ASSUME NEW f, NEW n \in Nat
  PROVE  Sums(f, n) = [k \in 0 .. n |-> IF k = 0 THEN 0 ELSE Sums(f, n)[k - 1] + f[k]]
<1> DEFINE Is(s, m) == s = [k \in 0 .. m |-> IF k = 0 THEN 0 ELSE s[k - 1] + f[k]]
           S == {m \in 0 .. n : \E s : Is(s, m)}
<1>1. 0 \in S
  <2> DEFINE s == [k \in 0 .. 0 |-> 0]
             h == [k \in 0 .. 0 |-> IF k = 0 THEN 0 ELSE s[k - 1] + f[k]]
  <2>1. \A k \in 0 .. 0 : s[k] = h[k]
    OBVIOUS
  <2>2. s = h
    BY <2>1
  <2>3. Is(s, 0)
    BY <2>2
  <2> HIDE DEF s, Is
  <2> QED BY <2>3
<1>2. ASSUME NEW m \in 0 .. n, m < n, m \in S
      PROVE  m + 1 \in S
  <2>1. PICK s : Is(s, m)
    BY <1>2
  <2> DEFINE e == [k \in 0 .. m + 1 |-> IF k = m + 1 THEN s[m] + f[m + 1] ELSE s[k]]
  <2>2. ASSUME NEW k \in 0 .. m + 1
        PROVE  e[k] = IF k = 0 THEN 0 ELSE e[k - 1] + f[k]
    BY <2>1
  <2>3. Is(e, m + 1)
    <3> DEFINE h == [k \in 0 .. m + 1 |-> IF k = 0 THEN 0 ELSE e[k - 1] + f[k]]
    <3>1. \A k \in 0 .. m + 1 : e[k] = h[k]
      BY <2>2
    <3>2. e = [k \in 0 .. m + 1 |-> e[k]] /\ h = [k \in 0 .. m + 1 |-> h[k]]
      OBVIOUS
    <3> HIDE DEF e, h
    <3>3. e = h
      BY <3>1, <3>2
    <3> QED BY <3>3 DEF h
  <2> HIDE DEF e, Is
  <2> QED BY <1>2, <2>3
<1>3. n \in S
  <2> HIDE DEF S
  <2>1. \A k \in 0 .. n : k \in S
    BY <1>1, <1>2, UpTo
  <2> QED BY <2>1
<1>4. \E s : Is(s, n)
  <2> HIDE DEF Is
  <2> QED BY <1>3
<1> QED BY <1>4, Zenon DEF Sums

\* Sums is the running sum: it begins at 0 and each step adds one term.
LEMMA SumsStep ==
  ASSUME NEW f, NEW n \in Nat
  PROVE  /\ Sums(f, n)[0] = 0
         /\ \A k \in 1 .. n : Sums(f, n)[k] = Sums(f, n)[k - 1] + f[k]
<1>1. \A k \in 0 .. n : Sums(f, n)[k] = IF k = 0 THEN 0 ELSE Sums(f, n)[k - 1] + f[k]
  BY SumsExist, Zenon
<1>2. 0 \in 0 .. n /\ \A k \in 1 .. n : k \in 0 .. n /\ k # 0
  OBVIOUS
<1> QED BY <1>1, <1>2, Zenon

\* Running sums of integers are integers.
LEMMA SumsInt ==
  ASSUME NEW n \in Nat, NEW f, \A k \in 1 .. n : f[k] \in Int
  PROVE  \A k \in 0 .. n : Sums(f, n)[k] \in Int
<1> DEFINE s == Sums(f, n)
           S == {k \in 0 .. n : s[k] \in Int}
<1>1. s[0] = 0 /\ \A k \in 1 .. n : s[k] = s[k - 1] + f[k]
  BY SumsStep
<1> HIDE DEF s
<1>2. \A k \in 0 .. n : k < n /\ k \in S => k + 1 \in S
  <2> SUFFICES ASSUME NEW k \in 0 .. n, k < n, s[k] \in Int
               PROVE  k + 1 \in 0 .. n /\ s[k + 1] \in Int
    OBVIOUS
  <2>1. k + 1 \in 1 .. n /\ (k + 1) - 1 = k
    OBVIOUS
  <2> QED BY <1>1, <2>1
<1>3. 0 \in S
  BY <1>1
<1> HIDE DEF S
<1>4. \A k \in 0 .. n : k \in S
  BY <1>2, <1>3, UpTo
<1> QED BY <1>4 DEF S, s

\* Sums are ordered as the summands are.
LEMMA SumMono ==
  ASSUME NEW n \in Nat, NEW f, NEW g,
         \A k \in 1 .. n : f[k] \in Int /\ g[k] \in Int /\ f[k] <= g[k]
  PROVE  SumTo(f, n) <= SumTo(g, n) /\ SumTo(f, n) \in Int /\ SumTo(g, n) \in Int
<1> DEFINE s == Sums(f, n)
           r == Sums(g, n)
           S == {k \in 0 .. n : s[k] <= r[k]}
<1>1. /\ s[0] = 0 /\ \A k \in 1 .. n : s[k] = s[k - 1] + f[k]
      /\ r[0] = 0 /\ \A k \in 1 .. n : r[k] = r[k - 1] + g[k]
  BY SumsStep
<1>2. \A k \in 0 .. n : s[k] \in Int /\ r[k] \in Int
  BY SumsInt
<1> HIDE DEF s, r
<1>3. \A k \in 0 .. n : k < n /\ k \in S => k + 1 \in S
  <2> SUFFICES ASSUME NEW k \in 0 .. n, k < n, s[k] <= r[k]
               PROVE  k + 1 \in 0 .. n /\ s[k + 1] <= r[k + 1]
    OBVIOUS
  <2>1. k + 1 \in 1 .. n /\ (k + 1) - 1 = k
    OBVIOUS
  <2>2. s[k + 1] = s[k] + f[k + 1] /\ r[k + 1] = r[k] + g[k + 1]
    BY <1>1, <2>1
  <2>3. s[k] \in Int /\ r[k] \in Int /\ f[k + 1] \in Int /\ g[k + 1] \in Int /\ f[k + 1] <= g[k + 1]
    BY <1>2, <2>1
  <2> QED BY <2>1, <2>2, <2>3
<1>4. 0 \in S
  BY <1>1
<1> HIDE DEF S
<1>5. \A k \in 0 .. n : k \in S
  BY <1>3, <1>4, UpTo
<1>6. n \in 0 .. n
  OBVIOUS
<1> QED BY <1>2, <1>5, <1>6 DEF S, s, r, SumTo

\* A sum changes by what one summand changes.
LEMMA SumPoint ==
  ASSUME NEW n \in Nat, NEW f, NEW g, NEW j \in 1 .. n,
         \A k \in 1 .. n : f[k] \in Int /\ g[k] \in Int,
         \A k \in 1 .. n : k # j => g[k] = f[k]
  PROVE  SumTo(g, n) = SumTo(f, n) + (g[j] - f[j]) /\ SumTo(f, n) \in Int
<1> DEFINE s == Sums(f, n)
           r == Sums(g, n)
           S == {k \in 0 .. n : r[k] = s[k] + (IF k >= j THEN g[j] - f[j] ELSE 0)}
<1>1. /\ s[0] = 0 /\ \A k \in 1 .. n : s[k] = s[k - 1] + f[k]
      /\ r[0] = 0 /\ \A k \in 1 .. n : r[k] = r[k - 1] + g[k]
  BY SumsStep
<1>2. \A k \in 0 .. n : s[k] \in Int /\ r[k] \in Int
  BY SumsInt
<1> HIDE DEF s, r
<1>3. \A k \in 0 .. n : k < n /\ k \in S => k + 1 \in S
  <2> SUFFICES ASSUME NEW k \in 0 .. n, k < n,
                      r[k] = s[k] + (IF k >= j THEN g[j] - f[j] ELSE 0)
               PROVE  k + 1 \in 0 .. n /\
                      r[k + 1] = s[k + 1] + (IF k + 1 >= j THEN g[j] - f[j] ELSE 0)
    OBVIOUS
  <2>1. k + 1 \in 1 .. n /\ (k + 1) - 1 = k
    OBVIOUS
  <2>2. s[k + 1] = s[k] + f[k + 1] /\ r[k + 1] = r[k] + g[k + 1]
    BY <1>1, <2>1
  <2>3. s[k] \in Int /\ r[k] \in Int /\ f[k + 1] \in Int /\ g[k + 1] \in Int
        /\ g[j] \in Int /\ f[j] \in Int
    BY <1>2, <2>1
  <2>4. CASE k + 1 = j
    BY <2>1, <2>2, <2>3, <2>4
  <2>5. CASE k + 1 # j
    <3>1. g[k + 1] = f[k + 1] /\ (k + 1 >= j <=> k >= j)
      BY <2>1, <2>5
    <3> QED BY <2>1, <2>2, <2>3, <3>1
  <2> QED BY <2>4, <2>5
<1>4. 0 \in S
  BY <1>1
<1> HIDE DEF S
<1>5. \A k \in 0 .. n : k \in S
  BY <1>3, <1>4, UpTo
<1>6. n \in 0 .. n /\ n >= j
  OBVIOUS
<1> QED BY <1>2, <1>5, <1>6 DEF S, s, r, SumTo

\* A sum of zeros.
LEMMA SumZero ==
  ASSUME NEW n \in Nat, NEW f, \A k \in 1 .. n : f[k] = 0
  PROVE  SumTo(f, n) = 0
<1> DEFINE s == Sums(f, n)
           S == {k \in 0 .. n : s[k] = 0}
<1>1. s[0] = 0 /\ \A k \in 1 .. n : s[k] = s[k - 1] + f[k]
  BY SumsStep
<1> HIDE DEF s
<1>2. \A k \in 0 .. n : k < n /\ k \in S => k + 1 \in S
  <2> SUFFICES ASSUME NEW k \in 0 .. n, k < n, s[k] = 0
               PROVE  k + 1 \in 0 .. n /\ s[k + 1] = 0
    OBVIOUS
  <2>1. k + 1 \in 1 .. n /\ (k + 1) - 1 = k
    OBVIOUS
  <2> QED BY <1>1, <2>1
<1>3. 0 \in S
  BY <1>1
<1> HIDE DEF S
<1>4. \A k \in 0 .. n : k \in S
  BY <1>2, <1>3, UpTo
<1>5. n \in 0 .. n
  OBVIOUS
<1> QED BY <1>4, <1>5 DEF S, s, SumTo

\* a sum of natural numbers, and its summands
LEMMA SumNat ==
  ASSUME NEW n \in Nat, NEW f, \A k \in 1 .. n : f[k] \in Nat
  PROVE  SumTo(f, n) \in Nat
<1> DEFINE z == [k \in 1 .. n |-> 0]
<1>1. \A k \in 1 .. n : z[k] = 0 /\ z[k] \in Int /\ f[k] \in Int /\ z[k] <= f[k]
  OBVIOUS
<1> HIDE DEF z
<1>2. SumTo(z, n) = 0
  BY <1>1, SumZero
<1>3. SumTo(z, n) <= SumTo(f, n) /\ SumTo(f, n) \in Int
  BY <1>1, SumMono
<1> QED BY <1>2, <1>3
-----------------------------------------------------------------------------
(* How often something is in a sequence *)

\* How often something is in a sequence is at most its length.
LEMMA TimesNat ==
  ASSUME NEW c, NEW s \in Seq(Nat)
  PROVE  Times(c, s) \in Nat /\ Times(c, s) <= Len(s)
<1> DEFINE n == Len(s)
<1>1. n \in Nat /\ n \in Int /\ {i \in DOMAIN s : s[i] = c} \subseteq 1 .. n
  OBVIOUS
<1> HIDE DEF n
<1>2. IsFiniteSet(1 .. n) /\ Cardinality(1 .. n) = IF 1 > n THEN 0 ELSE n - 1 + 1
  BY <1>1, FS_Interval
<1>3. Cardinality(1 .. n) = n
  BY <1>1, <1>2
<1> QED BY <1>1, <1>2, <1>3, FS_Subset, FS_CardinalityType DEF Times, n

\* Nothing is in the empty sequence.
LEMMA TimesEmpty ==
  ASSUME NEW c
  PROVE  Times(c, <<>>) = 0
<1>1. {i \in DOMAIN <<>> : <<>>[i] = c} = {}
  OBVIOUS
<1> QED BY <1>1, FS_EmptySet DEF Times

\* A sequence of one.
LEMMA TimesOne ==
  ASSUME NEW c, NEW x
  PROVE  Times(c, <<x>>) = IF x = c THEN 1 ELSE 0
<1>1. CASE x = c
  <2>1. {i \in DOMAIN <<x>> : <<x>>[i] = c} = {1}
    BY <1>1
  <2> QED BY <1>1, <2>1, FS_Singleton DEF Times
<1>2. CASE x # c
  <2>1. {i \in DOMAIN <<x>> : <<x>>[i] = c} = {}
    BY <1>2
  <2> QED BY <1>2, <2>1, FS_EmptySet DEF Times
<1> QED BY <1>1, <1>2

\* one element more at the end
LEMMA TimesAppend ==
  ASSUME NEW c, NEW s \in Seq(Nat), NEW x \in Nat
  PROVE  Times(c, Append(s, x)) = Times(c, s) + (IF x = c THEN 1 ELSE 0)
<1> DEFINE S == {i \in DOMAIN s : s[i] = c}
           n == Len(s) + 1
<1>1. IsFiniteSet(1 .. Len(s)) /\ S \subseteq 1 .. Len(s)
  BY FS_Interval
<1>2. IsFiniteSet(S) /\ n \notin S
  BY <1>1, FS_Subset
<1>3. CASE x = c
  <2>1. {i \in DOMAIN Append(s, x) : Append(s, x)[i] = c} = S \cup {n}
    BY <1>3
  <2> HIDE DEF S, n
  <2>2. Cardinality(S \cup {n}) = Cardinality(S) + 1
    BY <1>2, FS_AddElement
  <2>3. Times(c, s) = Cardinality(S)
    BY DEF Times, S
  <2>4. Times(c, Append(s, x)) = Cardinality(S \cup {n})
    BY <2>1, Zenon DEF Times
  <2> QED BY <1>3, <2>2, <2>3, <2>4
<1>4. CASE x # c
  <2>1. {i \in DOMAIN Append(s, x) : Append(s, x)[i] = c} = S
    BY <1>4
  <2>2. Times(c, s) \in Nat
    BY TimesNat
  <2>3. Times(c, Append(s, x)) = Times(c, s)
    BY <2>1, Zenon DEF Times
  <2> QED BY <1>4, <2>2, <2>3
<1> QED BY <1>3, <1>4

\* Occurrences add up over a concatenation.
LEMMA TimesConcat ==
  ASSUME NEW c, NEW s \in Seq(Nat), NEW t \in Seq(Nat)
  PROVE  Times(c, s \o t) = Times(c, s) + Times(c, t) /\ s \o t \in Seq(Nat)
<1> DEFINE T(k) == s \o SubSeq(t, 1, k)
           S == {k \in 0 .. Len(t) : Times(c, T(k)) = Times(c, s) + Times(c, SubSeq(t, 1, k))}
<1>1. 0 \in S
  <2>1. SubSeq(t, 1, 0) = <<>> /\ s \o <<>> = s
    OBVIOUS
  <2>2. Times(c, s) \in Nat /\ Times(c, <<>>) = 0
    BY TimesNat, TimesEmpty
  <2>3. Times(c, T(0)) = Times(c, s) + Times(c, SubSeq(t, 1, 0))
    <3>1. T(0) = s
      BY <2>1
    <3>2. Times(c, SubSeq(t, 1, 0)) = 0
      BY <2>1, <2>2
    <3> HIDE DEF T
    <3> QED BY <2>2, <3>1, <3>2
  <2>4. 0 \in 0 .. Len(t)
    OBVIOUS
  <2> HIDE DEF T
  <2> QED BY <2>3, <2>4, Zenon
<1>2. ASSUME NEW k \in 0 .. Len(t), k < Len(t), k \in S
      PROVE  k + 1 \in S
  <2> DEFINE u == SubSeq(t, 1, k)
  <2>1. u \in Seq(Nat) /\ t[k + 1] \in Nat /\ SubSeq(t, 1, k + 1) = Append(u, t[k + 1])
    BY <1>2
  <2>2. T(k + 1) = Append(s \o u, t[k + 1]) /\ s \o u \in Seq(Nat)
    <3> DEFINE y == t[k + 1]
    <3>1. T(k + 1) = s \o Append(u, y)
      BY <2>1, Zenon
    <3>2. u \in Seq(Nat) /\ y \in Nat
      BY <2>1
    <3> HIDE DEF u, y, T
    <3>3. s \o Append(u, y) = Append(s \o u, y) /\ s \o u \in Seq(Nat)
      BY <3>2
    <3> QED BY <3>1, <3>3 DEF y
  <2>3. Times(c, s \o u) = Times(c, s) + Times(c, u)
    BY <1>2
  <2> HIDE DEF u
  <2>4. Times(c, Append(s \o u, t[k + 1])) = Times(c, s \o u) + (IF t[k + 1] = c THEN 1 ELSE 0)
    BY <2>1, <2>2, TimesAppend, Zenon
  <2>5. Times(c, Append(u, t[k + 1])) = Times(c, u) + (IF t[k + 1] = c THEN 1 ELSE 0)
    BY <2>1, TimesAppend
  <2>6. Times(c, s) \in Nat /\ Times(c, u) \in Nat
    BY <2>1, TimesNat
  <2>7. Times(c, T(k + 1)) = Times(c, s \o u) + (IF t[k + 1] = c THEN 1 ELSE 0)
    BY <2>2, <2>4, Zenon
  <2>8. Times(c, SubSeq(t, 1, k + 1)) = Times(c, u) + (IF t[k + 1] = c THEN 1 ELSE 0)
    BY <2>1, <2>5, Zenon
  <2> HIDE DEF T
  <2>9. Times(c, T(k + 1)) = Times(c, s) + Times(c, SubSeq(t, 1, k + 1))
    BY <2>3, <2>6, <2>7, <2>8
  <2>10. k + 1 \in 0 .. Len(t)
    BY <1>2
  <2> QED BY <2>9, <2>10, Zenon
<1>3. Len(t) \in S
  <2>1. Len(t) \in Nat /\ Len(t) \in 0 .. Len(t)
    OBVIOUS
  <2> HIDE DEF S
  <2>2. \A k \in 0 .. Len(t) : k \in S
    BY <1>1, <1>2, <2>1, UpTo
  <2> QED BY <2>1, <2>2
<1>4. SubSeq(t, 1, Len(t)) = t /\ s \o t \in Seq(Nat)
  OBVIOUS
<1> QED BY <1>3, <1>4, Zenon

\* What is in a sequence is there at least once.
LEMMA TimesSome ==
  ASSUME NEW s \in Seq(Nat), NEW i \in DOMAIN s
  PROVE  Times(s[i], s) >= 1
<1> DEFINE S == {j \in DOMAIN s : s[j] = s[i]}
<1>1. IsFiniteSet(1 .. Len(s)) /\ S \subseteq 1 .. Len(s) /\ i \in S
  BY FS_Interval
<1>2. IsFiniteSet(S)
  BY <1>1, FS_Subset
<1>3. Cardinality(S) # 0 /\ Cardinality(S) \in Nat
  BY <1>1, <1>2, FS_EmptySet, FS_CardinalityType, Zenon
<1> QED BY <1>3 DEF Times

\* What is nowhere in a sequence is there zero times.
LEMMA TimesNone ==
  ASSUME NEW c, NEW s \in Seq(Nat), \A i \in DOMAIN s : s[i] # c
  PROVE  Times(c, s) = 0
<1>1. {i \in DOMAIN s : s[i] = c} = {}
  OBVIOUS
<1> QED BY <1>1, FS_EmptySet DEF Times

\* what is in a sequence without repetitions, is in it once
LEMMA TimesInjective ==
  ASSUME NEW c, NEW s \in Seq(Nat), \A i, j \in DOMAIN s : s[i] = s[j] => i = j
  PROVE  Times(c, s) = IF c \in Range(s) THEN 1 ELSE 0
<1>1. CASE c \in Range(s)
  <2>1. PICK i \in DOMAIN s : s[i] = c
    BY <1>1 DEF Range
  <2>2. {j \in DOMAIN s : s[j] = c} = {i}
    BY <2>1
  <2> QED BY <1>1, <2>2, FS_Singleton DEF Times
<1>2. CASE c \notin Range(s)
  <2>1. \A i \in DOMAIN s : s[i] # c
    BY <1>2 DEF Range
  <2> QED BY <1>2, <2>1, TimesNone
<1> QED BY <1>1, <1>2

-----------------------------------------------------------------------------
(* Sequences that are put together from sequences *)

Flats(ss) ==
  LET flatten[i \in 1 .. Len(ss)] == IF i = 1 THEN ss[i] ELSE flatten[i - 1] \o ss[i]
  IN flatten

\* the recursive function of FlattenSeq exists
LEMMA FlatsExist ==
  ASSUME NEW ss, Len(ss) \in Nat
  PROVE  Flats(ss) = [i \in 1 .. Len(ss) |-> IF i = 1 THEN ss[i] ELSE Flats(ss)[i - 1] \o ss[i]]
<1> DEFINE n == Len(ss)
           Is(f, m) == f = [i \in 1 .. m |-> IF i = 1 THEN ss[i] ELSE f[i - 1] \o ss[i]]
           S == {m \in 0 .. n : \E f : Is(f, m)}
<1>1. 0 \in S
  <2> DEFINE f == [i \in 1 .. 0 |-> ss[i]]
             h == [i \in 1 .. 0 |-> IF i = 1 THEN ss[i] ELSE f[i - 1] \o ss[i]]
  <2>1. \A i \in 1 .. 0 : f[i] = h[i]
    OBVIOUS
  <2>2. f = h
    BY <2>1
  <2>3. Is(f, 0)
    BY <2>2
  <2> HIDE DEF f, Is
  <2> QED BY <2>3
<1>2. ASSUME NEW m \in 0 .. n, m < n, m \in S
      PROVE  m + 1 \in S
  <2>1. PICK f : Is(f, m)
    BY <1>2
  <2> DEFINE last == IF m = 0 THEN ss[1] ELSE f[m] \o ss[m + 1]
             e == [i \in 1 .. m + 1 |-> IF i = m + 1 THEN last ELSE f[i]]
  <2>2. ASSUME NEW i \in 1 .. m + 1
        PROVE  e[i] = IF i = 1 THEN ss[i] ELSE e[i - 1] \o ss[i]
    <3>1. CASE i = m + 1
      <4>1. e[i] = last
        BY <3>1
      <4>2. m # 0 => e[i - 1] = f[m]
        BY <3>1
      <4> HIDE DEF e
      <4> QED BY <3>1, <4>1, <4>2
    <3>2. CASE i # m + 1
      <4>1. i \in 1 .. m /\ e[i] = f[i] /\ (i # 1 => e[i - 1] = f[i - 1])
        BY <3>2
      <4>2. f[i] = IF i = 1 THEN ss[i] ELSE f[i - 1] \o ss[i]
        BY <2>1, <4>1
      <4> HIDE DEF e
      <4> QED BY <4>1, <4>2
    <3> QED BY <3>1, <3>2
  <2>3. Is(e, m + 1)
    <3> DEFINE h == [i \in 1 .. m + 1 |-> IF i = 1 THEN ss[i] ELSE e[i - 1] \o ss[i]]
    <3>1. \A i \in 1 .. m + 1 : e[i] = h[i]
      BY <2>2
    <3>2. e = [i \in 1 .. m + 1 |-> e[i]] /\ h = [i \in 1 .. m + 1 |-> h[i]]
      OBVIOUS
    <3> HIDE DEF e, h
    <3>3. e = h
      BY <3>1, <3>2
    <3> QED BY <3>3 DEF h
  <2> HIDE DEF e, Is
  <2> QED BY <1>2, <2>3
<1>3. n \in S
  <2> HIDE DEF S
  <2>1. \A k \in 0 .. n : k \in S
    BY <1>1, <1>2, UpTo
  <2> QED BY <2>1
<1>4. \E f : Is(f, n)
  <2> HIDE DEF Is
  <2> QED BY <1>3
<1> QED BY <1>4, Zenon DEF Flats

\* counting in FlattenSeq is summing up
CountIn(c, ss) == [i \in DOMAIN ss |-> Times(c, ss[i])]

\* Occurrences in a flattened sequence are the sum over its parts.
LEMMA FlatCount ==
  ASSUME NEW c, NEW ss \in Seq(Seq(Nat))
  PROVE  /\ FlattenSeq(ss) \in Seq(Nat)
         /\ Times(c, FlattenSeq(ss)) = SumTo(CountIn(c, ss), Len(ss))
<1> DEFINE n == Len(ss)
           F == Flats(ss)
           f == CountIn(c, ss)
           s == Sums(f, n)
           S == {k \in 0 .. n : k = 0 \/ (F[k] \in Seq(Nat) /\ Times(c, F[k]) = s[k])}
<1>1. n \in Nat /\ \A i \in 1 .. n : ss[i] \in Seq(Nat)
  OBVIOUS
<1>2. \A i \in 1 .. n : F[i] = IF i = 1 THEN ss[i] ELSE F[i - 1] \o ss[i]
  <2>1. F = [i \in 1 .. n |-> IF i = 1 THEN ss[i] ELSE F[i - 1] \o ss[i]]
    BY <1>1, FlatsExist, Zenon
  <2> HIDE DEF F
  <2> QED BY <2>1
<1>3. s[0] = 0 /\ \A k \in 1 .. n : s[k] = s[k - 1] + f[k]
  BY <1>1, SumsStep
<1>4. \A k \in 1 .. n : f[k] = Times(c, ss[k]) /\ f[k] \in Nat
  BY <1>1, TimesNat DEF CountIn
<1> HIDE DEF F, s, f
<1>5. 0 \in S
  BY <1>1
<1>6. ASSUME NEW k \in 0 .. n, k < n, k \in S
      PROVE  k + 1 \in S
  <2>1. k + 1 \in 1 .. n /\ (k + 1) - 1 = k
    BY <1>6
  <2>2. CASE k = 0
    <3>1. F[1] = ss[1] /\ s[1] = s[0] + f[1] /\ f[1] = Times(c, ss[1]) /\ ss[1] \in Seq(Nat) /\ f[1] \in Nat
      BY <1>1, <1>2, <1>3, <1>4, <2>1, <2>2
    <3>2. F[1] \in Seq(Nat) /\ Times(c, F[1]) = s[1]
      BY <1>3, <3>1
    <3> QED BY <2>1, <2>2, <3>2
  <2>3. CASE k # 0
    <3>1. F[k] \in Seq(Nat) /\ Times(c, F[k]) = s[k]
      BY <1>6, <2>3
    <3> DEFINE m == k + 1
    <3>0. m \in 1 .. n /\ m - 1 = k /\ m # 1 /\ m \in 0 .. n
      BY <2>1, <2>3
    <3> HIDE DEF m
    <3>2. F[m] = F[k] \o ss[m] /\ s[m] = s[k] + f[m] /\ ss[m] \in Seq(Nat)
          /\ f[m] = Times(c, ss[m])
      BY <1>1, <1>2, <1>3, <1>4, <3>0, Zenon
    <3>3. Times(c, F[k] \o ss[m]) = Times(c, F[k]) + Times(c, ss[m])
          /\ F[k] \o ss[m] \in Seq(Nat)
      BY <3>1, <3>2, TimesConcat
    <3>4. F[m] \in Seq(Nat) /\ Times(c, F[m]) = s[m]
      BY <3>1, <3>2, <3>3, Zenon
    <3>5. m \in S
      BY <3>0, <3>4, Zenon
    <3> QED BY <3>5 DEF m
  <2> QED BY <2>2, <2>3
<1>7. n \in S
  <2> HIDE DEF S
  <2>1. \A k \in 0 .. n : k \in S
    BY <1>1, <1>5, <1>6, UpTo
  <2> QED BY <1>1, <2>1
<1>8. CASE n = 0
  <2>1. FlattenSeq(ss) = <<>> /\ <<>> \in Seq(Nat)
    BY <1>8 DEF FlattenSeq
  <2>2. s[n] = 0
    BY <1>3, <1>8
  <2> QED BY <2>1, <2>2, TimesEmpty DEF SumTo, s, f
<1>9. CASE n # 0
  <2>1. FlattenSeq(ss) = F[n]
    BY <1>9, Zenon DEF FlattenSeq, F, Flats
  <2>2. F[n] \in Seq(Nat) /\ Times(c, F[n]) = s[n]
    BY <1>7, <1>9
  <2> QED BY <2>1, <2>2 DEF SumTo, s, f
<1> QED BY <1>8, <1>9

\* A sum is its last term and the rest.
LEMMA SumLast ==
  ASSUME NEW n \in Nat, NEW f, \A k \in 1 .. n + 1 : f[k] \in Nat
  PROVE  SumTo(f, n + 1) = SumTo(f, n) + f[n + 1]
<1> DEFINE s == Sums(f, n)
           r == Sums(f, n + 1)
           S == {k \in 0 .. n : r[k] = s[k]}
<1>1. s[0] = 0 /\ \A k \in 1 .. n : s[k] = s[k - 1] + f[k]
  BY SumsStep
<1>2. r[0] = 0 /\ \A k \in 1 .. n + 1 : r[k] = r[k - 1] + f[k]
  BY SumsStep
<1> HIDE DEF s, r
<1>3. \A k \in 0 .. n : k < n /\ k \in S => k + 1 \in S
  <2> SUFFICES ASSUME NEW k \in 0 .. n, k < n, r[k] = s[k]
               PROVE  k + 1 \in 0 .. n /\ r[k + 1] = s[k + 1]
    OBVIOUS
  <2>1. k + 1 \in 1 .. n /\ k + 1 \in 1 .. n + 1 /\ (k + 1) - 1 = k
    OBVIOUS
  <2> QED BY <1>1, <1>2, <2>1
<1>4. 0 \in S
  BY <1>1, <1>2
<1> HIDE DEF S
<1>5. \A k \in 0 .. n : k \in S
  BY <1>3, <1>4, UpTo
<1>6. r[n] = s[n]
  BY <1>5 DEF S
<1>7. n + 1 \in 1 .. n + 1 /\ (n + 1) - 1 = n
  OBVIOUS
<1>8. r[n + 1] = r[n] + f[n + 1]
  BY <1>2, <1>7
<1> QED BY <1>6, <1>8 DEF SumTo, s, r

\* the sum from the second summand on
LEMMA SumFirst ==
  ASSUME NEW n \in Nat, NEW f, NEW g, \A k \in 1 .. n + 1 : f[k] \in Nat,
         \A k \in 1 .. n : g[k] = f[k + 1]
  PROVE  SumTo(f, n + 1) = f[1] + SumTo(g, n)
<1> DEFINE s == Sums(g, n)
           r == Sums(f, n + 1)
           S == {k \in 0 .. n : r[k + 1] = f[1] + s[k]}
<1>1. s[0] = 0 /\ \A k \in 1 .. n : s[k] = s[k - 1] + g[k]
  BY SumsStep
<1>2. r[0] = 0 /\ \A k \in 1 .. n + 1 : r[k] = r[k - 1] + f[k]
  BY SumsStep
<1>3. \A k \in 0 .. n : s[k] \in Int
  BY SumsInt
<1> HIDE DEF s, r
<1>4. \A k \in 0 .. n : k < n /\ k \in S => k + 1 \in S
  <2> SUFFICES ASSUME NEW k \in 0 .. n, k < n, r[k + 1] = f[1] + s[k]
               PROVE  k + 1 \in 0 .. n /\ r[(k + 1) + 1] = f[1] + s[k + 1]
    OBVIOUS
  <2> DEFINE m == k + 1
             p == m + 1
  <2>1. m \in 1 .. n /\ p \in 1 .. n + 1 /\ m - 1 = k /\ p - 1 = m /\ m \in 0 .. n /\ 1 \in 1 .. n + 1
    OBVIOUS
  <2>2. r[p] = r[m] + f[p] /\ s[m] = s[k] + g[m] /\ g[m] = f[p] /\ f[p] \in Nat /\ f[1] \in Nat
    BY <1>1, <1>2, <2>1
  <2>3. s[k] \in Int
    BY <1>3
  <2>4. r[m] = f[1] + s[k]
    OBVIOUS
  <2> HIDE DEF m, p
  <2>5. r[p] = f[1] + s[m]
    BY <2>2, <2>3, <2>4
  <2> QED BY <2>1, <2>5 DEF m, p
<1>5. 0 \in S
  <2>1. 0 \in 0 .. n /\ 1 \in 1 .. n + 1 /\ f[1] \in Nat
    OBVIOUS
  <2>2. r[1] = r[0] + f[1]
    BY <1>2, <2>1
  <2> QED BY <1>1, <1>2, <2>1, <2>2
<1> HIDE DEF S
<1>6. \A k \in 0 .. n : k \in S
  BY <1>4, <1>5, UpTo
<1>7. r[n + 1] = f[1] + s[n]
  BY <1>6 DEF S
<1> QED BY <1>7 DEF SumTo, s, r

\* Equal terms have equal sums.
LEMMA SumSame ==
  ASSUME NEW n \in Nat, NEW f, NEW g, \A k \in 1 .. n : f[k] \in Nat /\ g[k] = f[k]
  PROVE  SumTo(f, n) = SumTo(g, n)
<1>1. SumTo(f, n) <= SumTo(g, n) /\ SumTo(f, n) \in Int /\ SumTo(g, n) \in Int
  BY SumMono
<1>2. SumTo(g, n) <= SumTo(f, n)
  BY SumMono
<1> QED BY <1>1, <1>2

-----------------------------------------------------------------------------
(* How FlattenSeq changes with its sequences *)

\* Nothing flattens to nothing.
LEMMA FlatEmpty ==
  FlattenSeq(<<>>) = <<>>
BY DEF FlattenSeq

-----------------------------------------------------------------------------
(* The first n of a set of buffers *)

\* Every set of naturals that is not empty has a least member.
LEMMA Smallest ==
  ASSUME NEW S, S \subseteq Nat, S # {}
  PROVE  \E m \in S : \A x \in S : m <= x
<1> DEFINE R == OpToRel(<, Nat)
<1>1. IsWellFoundedOn(R, Nat)
  BY NatLessThanWellFounded
<1>2. \E m \in S : \A x \in S : ~(<<x, m>> \in R)
  <2> HIDE DEF R
  <2> QED BY <1>1, WFMin
<1>3. PICK m \in S : \A x \in S : ~(<<x, m>> \in R)
  BY <1>2
<1>4. ASSUME NEW x \in S
      PROVE  m <= x
  <2>1. ~(x < m)
    BY <1>3 DEF OpToRel
  <2> QED BY <2>1
<1> QED BY <1>4

Below(S, b) == {x \in S : x < b}

\* Every rank below the size of a set of buffers is that of one of them.
LEMMA Ranks ==
  ASSUME NEW S, S \subseteq Buffers, NEW i \in Nat, i < Cardinality(S)
  PROVE  \E b \in S : Cardinality(Below(S, b)) = i
<1> DEFINE n == Cardinality(S) - 1
           I == {k \in 0 .. n : \E b \in S : Cardinality(Below(S, b)) = k}
<1>1. S \subseteq Nat /\ IsFiniteSet(S)
  BY PacketAssumption, FS_Subset
<1>2. Cardinality(S) \in Nat /\ n \in Nat /\ i \in 0 .. n
  BY <1>1, FS_CardinalityType
<1>3. 0 \in I
  <2>1. S # {}
    BY <1>2, FS_EmptySet
  <2>2. PICK m \in S : \A x \in S : m <= x
    BY <1>1, <2>1, Smallest
  <2>3. Below(S, m) = {}
    <3>1. ASSUME NEW x \in S
          PROVE  ~(x < m)
      <4>1. x \in Nat /\ m \in Nat /\ m <= x
        BY <1>1, <2>2
      <4> QED BY <4>1
    <3> QED BY <3>1 DEF Below
  <2>4. Cardinality(Below(S, m)) = 0
    BY <2>3, FS_EmptySet
  <2> QED BY <1>2, <2>4
<1>4. ASSUME NEW k \in 0 .. n, k < n, k \in I
      PROVE  k + 1 \in I
  <2>1. PICK b \in S : Cardinality(Below(S, b)) = k
    BY <1>4
  <2> DEFINE B == Below(S, b)
             T == {x \in S : x > b}
  <2>2. IsFiniteSet(B) /\ b \notin B /\ B \subseteq S
    <3>1. B \subseteq S /\ b \notin B
      BY <1>1 DEF Below
    <3> QED BY <1>1, <3>1, FS_Subset
  <2>3. Cardinality(B \cup {b}) = k + 1
    <3>1. Cardinality(B) = k
      BY <2>1
    <3> HIDE DEF B
    <3> QED BY <2>2, <3>1, FS_AddElement
  <2>4. T # {}
    <3>1. SUFFICES ASSUME T = {} PROVE FALSE
      OBVIOUS
    <3>2. \A x \in S : x \in B \/ x = b
      <4> TAKE x \in S
      <4>1. x \in Nat /\ b \in Nat /\ ~(x > b)
        BY <1>1, <3>1
      <4> QED BY <4>1 DEF Below
    <3>3. S = B \cup {b}
      BY <2>2, <3>2
    <3>4. Cardinality(S) = k + 1
      BY <2>3, <3>3, Zenon
    <3> QED BY <1>2, <1>4, <3>4
  <2>5. PICK m \in T : \A x \in T : m <= x
    <3>1. T \subseteq Nat
      BY <1>1
    <3> QED BY <2>4, <3>1, Smallest
  <2>6. Below(S, m) = B \cup {b}
    <3>1. ASSUME NEW x \in S
          PROVE  x < m <=> (x < b \/ x = b)
      <4>1. x \in Nat /\ b \in Nat /\ m \in Nat /\ m > b
        BY <1>1, <2>5
      <4>2. x > b => m <= x
        BY <2>5
      <4> QED BY <4>1, <4>2
    <3> QED BY <3>1 DEF Below
  <2>7. Cardinality(Below(S, m)) = k + 1
    BY <2>3, <2>6, Zenon
  <2>8. m \in S /\ k + 1 \in 0 .. n
    BY <1>2, <1>4, <2>5
  <2> QED BY <2>7, <2>8
<1>5. i \in I
  <2> HIDE DEF I
  <2>1. \A k \in 0 .. n : k \in I
    BY <1>2, <1>3, <1>4, UpTo
  <2> QED BY <1>2, <2>1
<1> QED BY <1>5

\* The n smallest buffers of a set are n, of that set, and different.
LEMMA FirstNFacts ==
  ASSUME NEW S, S \subseteq Buffers, NEW n \in Int, n <= Cardinality(S)
  PROVE  /\ FirstN(S, n) \in Seq(S) /\ Len(FirstN(S, n)) = (IF n < 0 THEN 0 ELSE n)
         /\ \A i, j \in DOMAIN FirstN(S, n) : FirstN(S, n)[i] = FirstN(S, n)[j] => i = j
<1> DEFINE f == FirstN(S, n)
           m == IF n < 0 THEN 0 ELSE n
<1>1. m \in Nat /\ 1 .. n = 1 .. m
  OBVIOUS
<1>2. Cardinality(S) \in Nat
  BY PacketAssumption, FS_Subset, FS_CardinalityType
<1>3. DOMAIN f = 1 .. n /\ f = [i \in 1 .. n |-> f[i]]
  <2> DEFINE G(i) == CHOOSE b \in S : Cardinality({x \in S : x < b}) = i - 1
  <2>1. f = [i \in 1 .. n |-> G(i)]
    BY Zenon DEF FirstN
  <2> HIDE DEF f, G
  <2> QED BY <2>1
<1>4. ASSUME NEW i \in 1 .. n
      PROVE  f[i] \in S /\ Cardinality(Below(S, f[i])) = i - 1
  <2>1. i - 1 \in Nat /\ i - 1 < Cardinality(S)
    BY <1>2
  <2>2. \E b \in S : Cardinality(Below(S, b)) = i - 1
    BY <2>1, Ranks
  <2>3. f[i] = CHOOSE b \in S : Cardinality(Below(S, b)) = i - 1
    BY DEF FirstN, Below
  <2> HIDE DEF f
  <2> QED BY <2>2, <2>3
<1> HIDE DEF f
<1>5. f \in Seq(S) /\ Len(f) = m
  <2>1. f = [i \in 1 .. m |-> f[i]] /\ \A i \in 1 .. m : f[i] \in S
    BY <1>1, <1>3, <1>4
  <2>2. f \in [1 .. m -> S]
    BY <2>1
  <2> HIDE DEF m
  <2> QED BY <1>1, <2>2
<1>6. ASSUME NEW i \in DOMAIN f, NEW j \in DOMAIN f, f[i] = f[j]
      PROVE  i = j
  <2>1. i \in 1 .. n /\ j \in 1 .. n
    BY <1>3
  <2>2. Cardinality(Below(S, f[i])) = i - 1 /\ Cardinality(Below(S, f[j])) = j - 1
    BY <1>4, <2>1
  <2>3. i - 1 = j - 1
    BY <1>6, <2>2, Zenon
  <2> QED BY <2>1, <2>3
<1> QED BY <1>5, <1>6 DEF f, m

-----------------------------------------------------------------------------
(* The weight of a list *)

\* A function on 1 .. n is a sequence.
LEMMA SeqFrom ==
  ASSUME NEW T, NEW f, NEW n \in Nat, f = [i \in 1 .. n |-> f[i]], \A i \in 1 .. n : f[i] \in T
  PROVE  f \in Seq(T) /\ Len(f) = n
<1>1. f \in [1 .. n -> T]
  OBVIOUS
<1> QED BY <1>1

\* what h gives the elements of ps, in all
Weigh(h, ps) == SumTo([i \in 1 .. Len(ps) |-> h[ps[i]]], Len(ps))
One(x) == [y \in Pairs |-> IF y = x THEN 1 ELSE 0]

\* The weight that marks one packet.
LEMMA OneType ==
  ASSUME NEW x
  PROVE  One(x) \in [Pairs -> Nat]
BY DEF One

\* the summands of a weight
LEMMA WeighTerms ==
  ASSUME NEW P, NEW h \in [P -> Nat], NEW ps \in Seq(P)
  PROVE  /\ Len(ps) \in Nat
         /\ \A i \in 1 .. Len(ps) : /\ ps[i] \in P
                                     /\ [k \in 1 .. Len(ps) |-> h[ps[k]]][i] = h[ps[i]]
                                     /\ [k \in 1 .. Len(ps) |-> h[ps[k]]][i] \in Nat
OBVIOUS

\* Weights of sequences are naturals.
LEMMA WeighNat ==
  ASSUME NEW P, NEW h \in [P -> Nat], NEW ps \in Seq(P)
  PROVE  Weigh(h, ps) \in Nat
<1> DEFINE f == [i \in 1 .. Len(ps) |-> h[ps[i]]]
<1>1. Len(ps) \in Nat /\ \A i \in 1 .. Len(ps) : f[i] \in Nat
  BY WeighTerms
<1> HIDE DEF f
<1>2. SumTo(f, Len(ps)) \in Nat
  BY <1>1, SumNat
<1> QED BY <1>2 DEF Weigh, f

\* An empty list weighs nothing.
LEMMA WeighEmpty ==
  ASSUME NEW h
  PROVE  Weigh(h, <<>>) = 0
<1> DEFINE f == [i \in 1 .. 0 |-> h[<<>>[i]]]
<1>1. SumTo(f, 0) = 0
  <2> HIDE DEF f
  <2> QED BY SumZero
<1>2. Len(<<>>) = 0
  OBVIOUS
<1> QED BY <1>1, <1>2, Zenon DEF Weigh

\* A packet at the end adds its weight.
LEMMA WeighAppend ==
  ASSUME NEW P, NEW h \in [P -> Nat], NEW ps \in Seq(P), NEW x \in P
  PROVE  Weigh(h, Append(ps, x)) = Weigh(h, ps) + h[x]
<1> DEFINE n == Len(ps)
           f == [i \in 1 .. n |-> h[ps[i]]]
           q == Append(ps, x)
           g == [i \in 1 .. n + 1 |-> h[q[i]]]
<1>1. /\ n \in Nat /\ q \in Seq(P) /\ Len(q) = n + 1
      /\ \A i \in 1 .. n : q[i] = ps[i]
      /\ q[n + 1] = x
  OBVIOUS
<1>2. \A i \in 1 .. n : f[i] \in Nat /\ g[i] = f[i]
  <2> TAKE i \in 1 .. n
  <2>1. q[i] = ps[i] /\ i \in 1 .. n + 1 /\ ps[i] \in P
    BY <1>1
  <2> HIDE DEF q
  <2> QED BY <2>1
<1>3. \A i \in 1 .. n + 1 : g[i] \in Nat
  <2> TAKE i \in 1 .. n + 1
  <2>1. q[i] \in P
    BY <1>1
  <2> HIDE DEF q
  <2> QED BY <2>1
<1>4. g[n + 1] = h[x]
  <2> HIDE DEF q
  <2> QED BY <1>1
<1>5. Weigh(h, ps) = SumTo(f, n) /\ Weigh(h, q) = SumTo(g, n + 1)
  <2>1. Weigh(h, q) = SumTo([i \in 1 .. Len(q) |-> h[q[i]]], Len(q))
    BY DEF Weigh
  <2> HIDE DEF q
  <2> QED BY <1>1, <2>1, Zenon DEF Weigh
<1> HIDE DEF f, g, n, q
<1>6. SumTo(g, n + 1) = SumTo(g, n) + g[n + 1]
  BY <1>1, <1>3, SumLast
<1>7. SumTo(f, n) = SumTo(g, n)
  BY <1>1, <1>2, SumSame
<1> QED BY <1>4, <1>5, <1>6, <1>7 DEF q

\* A list weighs what its head and its tail do.
LEMMA WeighHead ==
  ASSUME NEW P, NEW h \in [P -> Nat], NEW ps \in Seq(P), ps # <<>>
  PROVE  Weigh(h, ps) = h[ps[1]] + Weigh(h, Tail(ps))
<1> DEFINE n == Len(ps) - 1
           q == Tail(ps)
           f == [i \in 1 .. n + 1 |-> h[ps[i]]]
           g == [i \in 1 .. n |-> h[q[i]]]
<1>1. /\ n \in Nat /\ q \in Seq(P) /\ Len(q) = n /\ Len(ps) = n + 1
      /\ \A i \in 1 .. n : q[i] = ps[i + 1]
  OBVIOUS
<1>2. \A i \in 1 .. n + 1 : f[i] \in Nat /\ f[i] = h[ps[i]]
  BY <1>1
<1>3. \A i \in 1 .. n : g[i] = f[i + 1]
  <2> TAKE i \in 1 .. n
  <2>1. q[i] = ps[i + 1] /\ i + 1 \in 1 .. n + 1
    BY <1>1
  <2> HIDE DEF q, n
  <2> QED BY <2>1
<1>4. Weigh(h, ps) = SumTo(f, n + 1) /\ Weigh(h, q) = SumTo(g, n) /\ f[1] = h[ps[1]]
  <2>1. Weigh(h, q) = SumTo([i \in 1 .. Len(q) |-> h[q[i]]], Len(q))
    BY DEF Weigh
  <2>2. 1 \in 1 .. n + 1
    BY <1>1
  <2> HIDE DEF q, n
  <2> QED BY <1>1, <2>1, <2>2, Zenon DEF Weigh
<1> HIDE DEF f, g, n, q
<1>5. SumTo(f, n + 1) = f[1] + SumTo(g, n)
  BY <1>1, <1>2, <1>3, SumFirst, Zenon
<1> QED BY <1>4, <1>5 DEF q

\* a weight depends on the elements only
LEMMA WeighSame ==
  ASSUME NEW P, NEW h \in [P -> Nat], NEW g \in [P -> Nat], NEW ps \in Seq(P),
         \A i \in 1 .. Len(ps) : g[ps[i]] = h[ps[i]]
  PROVE  Weigh(g, ps) = Weigh(h, ps)
<1> DEFINE f == [i \in 1 .. Len(ps) |-> h[ps[i]]]
           e == [i \in 1 .. Len(ps) |-> g[ps[i]]]
<1>1. Len(ps) \in Nat /\ \A i \in 1 .. Len(ps) : f[i] \in Nat /\ e[i] = f[i]
  BY WeighTerms
<1> HIDE DEF f, e
<1>2. SumTo(f, Len(ps)) = SumTo(e, Len(ps))
  BY <1>1, SumSame
<1> QED BY <1>2 DEF Weigh, f, e

\* an element weighs no more than the list
LEMMA WeighAtLeast ==
  ASSUME NEW P, NEW h \in [P -> Nat], NEW ps \in Seq(P), NEW j \in 1 .. Len(ps)
  PROVE  Weigh(h, ps) >= h[ps[j]]
<1> DEFINE f == [i \in 1 .. Len(ps) |-> h[ps[i]]]
           e == [i \in 1 .. Len(ps) |-> IF i = j THEN 0 ELSE f[i]]
<1>1. Len(ps) \in Nat /\ \A i \in 1 .. Len(ps) : f[i] \in Nat /\ f[j] = h[ps[j]]
  BY WeighTerms
<1>2. \A i \in 1 .. Len(ps) : e[i] \in Nat /\ (i # j => e[i] = f[i])
  BY <1>1
<1>3. e[j] = 0
  OBVIOUS
<1> HIDE DEF f, e
<1>4. SumTo(e, Len(ps)) = SumTo(f, Len(ps)) + (e[j] - f[j]) /\ SumTo(f, Len(ps)) \in Int
  <2>1. \A i \in 1 .. Len(ps) : f[i] \in Int /\ e[i] \in Int
    BY <1>1, <1>2
  <2>2. \A i \in 1 .. Len(ps) : i # j => e[i] = f[i]
    BY <1>2
  <2>3. Len(ps) \in Nat
    BY <1>1
  <2> QED BY <2>1, <2>2, <2>3, SumPoint, Zenon
<1>5. SumTo(e, Len(ps)) \in Nat
  BY <1>1, <1>2, SumNat
<1> QED BY <1>1, <1>3, <1>4, <1>5 DEF Weigh, f

\* what is not in the list weighs nothing
LEMMA WeighSome ==
  ASSUME NEW P, NEW h \in [P -> Nat], NEW ps \in Seq(P), Weigh(h, ps) # 0
  PROVE  \E i \in 1 .. Len(ps) : h[ps[i]] # 0
<1> DEFINE f == [i \in 1 .. Len(ps) |-> h[ps[i]]]
<1> SUFFICES ASSUME \A i \in 1 .. Len(ps) : h[ps[i]] = 0 PROVE FALSE
  OBVIOUS
<1>1. Len(ps) \in Nat /\ \A i \in 1 .. Len(ps) : f[i] = 0
  BY WeighTerms
<1> HIDE DEF f
<1>2. SumTo(f, Len(ps)) = 0
  BY <1>1, SumZero
<1> QED BY <1>2 DEF Weigh, f

\* A list of weightless packets weighs nothing.
LEMMA WeighNone ==
  ASSUME NEW P, NEW h \in [P -> Nat], NEW ps \in Seq(P), \A i \in 1 .. Len(ps) : h[ps[i]] = 0
  PROVE  Weigh(h, ps) = 0
<1> SUFFICES ASSUME Weigh(h, ps) # 0 PROVE FALSE
  OBVIOUS
<1>1. PICK i \in 1 .. Len(ps) : h[ps[i]] # 0
  BY WeighSome
<1> QED BY <1>1

\* a list in two parts
LEMMA WeighParts ==
  ASSUME NEW P, NEW h \in [P -> Nat], NEW ps \in Seq(P), NEW n \in 0 .. Len(ps)
  PROVE  Weigh(h, ps) = Weigh(h, SubSeq(ps, 1, n)) + Weigh(h, SubSeq(ps, n + 1, Len(ps)))
<1> DEFINE T(k) == Weigh(h, SubSeq(ps, 1, k)) + Weigh(h, SubSeq(ps, k + 1, Len(ps)))
           S == {k \in 0 .. Len(ps) : T(k) = Weigh(h, ps)}
<1>1. 0 \in S
  <2>1. SubSeq(ps, 1, 0) = <<>> /\ SubSeq(ps, 1, Len(ps)) = ps /\ 0 \in 0 .. Len(ps) /\ 0 + 1 = 1
    OBVIOUS
  <2>2. Weigh(h, <<>>) = 0 /\ Weigh(h, ps) \in Nat
    BY WeighEmpty, WeighNat
  <2>3. T(0) = Weigh(h, <<>>) + Weigh(h, ps)
    BY <2>1, Zenon
  <2> HIDE DEF T
  <2> QED BY <2>1, <2>2, <2>3
<1>2. ASSUME NEW k \in 0 .. Len(ps), k < Len(ps), k \in S
      PROVE  k + 1 \in S
  <2> DEFINE a == SubSeq(ps, 1, k)
             b == SubSeq(ps, k + 1, Len(ps))
             c == SubSeq(ps, 1, k + 1)
             d == SubSeq(ps, (k + 1) + 1, Len(ps))
  <2>1. a \in Seq(P) /\ b \in Seq(P) /\ ps[k + 1] \in P /\ c = Append(a, ps[k + 1])
    BY <1>2
  <2>2. b # <<>> /\ b[1] = ps[k + 1] /\ d = Tail(b) /\ d \in Seq(P)
    <3>1. Len(b) = Len(ps) - k /\ Len(b) > 0 /\ \A i \in 1 .. Len(b) : b[i] = ps[k + i]
      BY <1>2
    <3>2. Len(d) = Len(b) - 1 /\ d \in Seq(P) /\ \A i \in 1 .. Len(d) : d[i] = ps[k + 1 + i]
      BY <1>2, <3>1
    <3>3. b \in Seq(P)
      BY <2>1
    <3> HIDE DEF b, d
    <3>4. b # <<>> /\ Tail(b) \in Seq(P) /\ Len(Tail(b)) = Len(b) - 1
          /\ \A i \in 1 .. Len(Tail(b)) : Tail(b)[i] = b[i + 1]
      BY <3>1, <3>3
    <3>5. \A i \in 1 .. Len(d) : d[i] = Tail(b)[i]
      BY <1>2, <3>1, <3>2, <3>4
    <3>6. d = Tail(b)
      BY <3>2, <3>4, <3>5
    <3>7. Len(b) \in Nat
      BY <3>3
    <3>8. 1 \in 1 .. Len(b) /\ k + 1 = k + 1
      BY <3>1, <3>7
    <3>9. b[1] = ps[k + 1]
      BY <3>1, <3>8
    <3> QED BY <3>2, <3>4, <3>6, <3>9
  <2>3. T(k) = Weigh(h, ps) /\ T(k) = Weigh(h, a) + Weigh(h, b)
        /\ T(k + 1) = Weigh(h, c) + Weigh(h, d) /\ k + 1 \in 0 .. Len(ps)
    BY <1>2
  <2> HIDE DEF a, b, c, d, T
  <2>4. Weigh(h, c) = Weigh(h, a) + h[ps[k + 1]]
    BY <2>1, WeighAppend
  <2>5. Weigh(h, b) = h[ps[k + 1]] + Weigh(h, d)
    BY <2>1, <2>2, WeighHead, Zenon
  <2>6. Weigh(h, a) \in Nat /\ Weigh(h, d) \in Nat /\ h[ps[k + 1]] \in Nat
    BY <2>1, <2>2, WeighNat
  <2>7. T(k + 1) = Weigh(h, ps)
    BY <2>3, <2>4, <2>5, <2>6
  <2> QED BY <2>3, <2>7
<1>3. Len(ps) \in Nat
  OBVIOUS
<1> HIDE DEF S
<1>4. \A k \in 0 .. Len(ps) : k \in S
  BY <1>1, <1>2, <1>3, UpTo
<1> QED BY <1>4 DEF S

\* another element in the place of one
LEMMA WeighOther ==
  ASSUME NEW P, NEW h \in [P -> Nat], NEW ps \in Seq(P), NEW j \in 1 .. Len(ps), NEW x \in P
  PROVE  /\ [ps EXCEPT ![j] = x] \in Seq(P)
         /\ Weigh(h, [ps EXCEPT ![j] = x]) = Weigh(h, ps) + (h[x] - h[ps[j]])
<1> DEFINE q == [ps EXCEPT ![j] = x]
           f == [i \in 1 .. Len(ps) |-> h[ps[i]]]
           e == [i \in 1 .. Len(ps) |-> h[q[i]]]
<1>1. /\ q \in Seq(P) /\ Len(q) = Len(ps) /\ q[j] = x
      /\ \A i \in 1 .. Len(ps) : i # j => q[i] = ps[i]
  OBVIOUS
<1>2. \A i \in 1 .. Len(ps) : f[i] \in Int /\ f[i] = h[ps[i]]
  BY WeighTerms
<1> HIDE DEF q
<1>3. \A i \in 1 .. Len(ps) : e[i] \in Int /\ e[i] = h[q[i]]
  <2> TAKE i \in 1 .. Len(ps)
  <2>1. q[i] \in P
    BY <1>1
  <2> QED BY <2>1
<1>4. \A i \in 1 .. Len(ps) : i # j => e[i] = f[i]
  BY <1>1, <1>2, <1>3
<1>5. Len(ps) \in Nat
  OBVIOUS
<1>6. Weigh(h, q) = SumTo(e, Len(ps)) /\ Weigh(h, ps) = SumTo(f, Len(ps))
  BY <1>1, Zenon DEF Weigh
<1>7. e[j] = h[x] /\ f[j] = h[ps[j]]
  BY <1>1, <1>2, <1>3
<1> HIDE DEF e, f
<1>8. SumTo(e, Len(ps)) = SumTo(f, Len(ps)) + (e[j] - f[j])
  <2>1. \A i \in 1 .. Len(ps) : f[i] \in Int /\ e[i] \in Int
    BY <1>2, <1>3
  <2> QED BY <1>4, <1>5, <2>1, SumPoint
<1> QED BY <1>1, <1>6, <1>7, <1>8 DEF q

-----------------------------------------------------------------------------
(* The weight of frames *)

PairsOf(n, bs) == [i \in 1 .. Len(bs) |-> <<n, bs[i]>>]
\* a frame as an element of a list of frames
FrameOf(h) == [f \in FrameType |-> Weigh(h, PairsOf(f.node, f.bufs))]

\* The packets of a frame, each with the frame's node.
LEMMA PairsOfType ==
  ASSUME NEW n \in Nodes, NEW bs \in Seq(Buffers)
  PROVE  /\ PairsOf(n, bs) \in Seq(Pairs) /\ Len(PairsOf(n, bs)) = Len(bs)
         /\ \A i \in 1 .. Len(bs) : PairsOf(n, bs)[i] = <<n, bs[i]>> /\ bs[i] \in Buffers
<1>1. Len(bs) \in Nat /\ \A i \in 1 .. Len(bs) : bs[i] \in Buffers
  OBVIOUS
<1>2. \A i \in 1 .. Len(bs) : PairsOf(n, bs)[i] = <<n, bs[i]>> /\ PairsOf(n, bs)[i] \in Pairs
  BY <1>1 DEF PairsOf, Pairs
<1>3. PairsOf(n, bs) = [i \in 1 .. Len(bs) |-> PairsOf(n, bs)[i]]
  BY DEF PairsOf
<1>4. PairsOf(n, bs) \in Seq(Pairs) /\ Len(PairsOf(n, bs)) = Len(bs)
  BY <1>1, <1>2, <1>3, SeqFrom
<1> QED BY <1>1, <1>2, <1>4

\* The weight of a frame is a natural.
LEMMA FrameOfType ==
  ASSUME NEW h \in [Pairs -> Nat]
  PROVE  FrameOf(h) \in [FrameType -> Nat]
<1>1. ASSUME NEW f \in FrameType
      PROVE  Weigh(h, PairsOf(f.node, f.bufs)) \in Nat
  <2>1. f.node \in Nodes /\ f.bufs \in Seq(Buffers)
    BY DEF FrameType
  <2>2. PairsOf(f.node, f.bufs) \in Seq(Pairs)
    BY <2>1, PairsOfType
  <2> QED BY <2>2, WeighNat
<1> QED BY <1>1 DEF FrameOf

\* two sequences with the same elements are one
LEMMA SeqSame ==
  ASSUME NEW T, NEW s \in Seq(T), NEW t \in Seq(T), Len(s) = Len(t),
         \A i \in 1 .. Len(s) : s[i] = t[i]
  PROVE  s = t
OBVIOUS

\* A buffer at the end of a frame is a packet at the end.
LEMMA PairsOfAppend ==
  ASSUME NEW n \in Nodes, NEW bs \in Seq(Buffers), NEW b \in Buffers
  PROVE  PairsOf(n, Append(bs, b)) = Append(PairsOf(n, bs), <<n, b>>)
<1> DEFINE q == Append(bs, b)
           ps == PairsOf(n, bs)
           r == PairsOf(n, q)
           a == Append(ps, <<n, b>>)
<1>1. q \in Seq(Buffers) /\ Len(q) = Len(bs) + 1 /\ q[Len(bs) + 1] = b /\ Len(bs) \in Nat
      /\ \A i \in 1 .. Len(bs) : q[i] = bs[i]
  OBVIOUS
<1> HIDE DEF q
<1>2. /\ ps \in Seq(Pairs) /\ Len(ps) = Len(bs)
      /\ \A i \in 1 .. Len(bs) : ps[i] = <<n, bs[i]>>
  BY PairsOfType
<1>3. /\ r \in Seq(Pairs) /\ Len(r) = Len(bs) + 1
      /\ \A i \in 1 .. Len(bs) + 1 : r[i] = <<n, q[i]>>
  <2>1. r \in Seq(Pairs) /\ Len(r) = Len(q) /\ \A i \in 1 .. Len(q) : r[i] = <<n, q[i]>>
    BY <1>1, PairsOfType
  <2> QED BY <1>1, <2>1
<1>4. <<n, b>> \in Pairs
  BY DEF Pairs
<1> HIDE DEF ps, r
<1>5. /\ a \in Seq(Pairs) /\ Len(a) = Len(bs) + 1 /\ a[Len(bs) + 1] = <<n, b>>
      /\ \A i \in 1 .. Len(bs) : a[i] = ps[i]
  BY <1>2, <1>4
<1> HIDE DEF a
<1>6. \A i \in 1 .. Len(r) : r[i] = a[i]
  <2> SUFFICES ASSUME NEW i \in 1 .. Len(bs) + 1 PROVE r[i] = a[i]
    BY <1>3
  <2>1. CASE i = Len(bs) + 1
    BY <1>1, <1>3, <1>5, <2>1
  <2>2. CASE i # Len(bs) + 1
    <3>1. i \in 1 .. Len(bs)
      BY <1>1, <2>2
    <3> QED BY <1>1, <1>2, <1>3, <1>5, <3>1, Zenon
  <2> QED BY <2>1, <2>2
<1>7. r = a
  BY <1>3, <1>5, <1>6, SeqSame
<1> QED BY <1>7 DEF r, a, q, ps

\* AddTo adds the packet to the frames, whether it fills up a frame or not.
LEMMA AddToWeighs ==
  ASSUME NEW fs \in Seq(FrameType), NEW n \in Nodes, NEW b \in Buffers
  PROVE  /\ AddTo(fs, n, b) \in Seq(FrameType)
         /\ \A h \in [Pairs -> Nat] :
              Weigh(FrameOf(h), AddTo(fs, n, b)) = Weigh(FrameOf(h), fs) + h[<<n, b>>]
<1> DEFINE at == {i \in DOMAIN fs : fs[i].node = n /\ Len(fs[i].bufs) < VLIB_FRAME_SIZE}
           r == AddTo(fs, n, b)
<1>0. <<n, b>> \in Pairs
  BY DEF Pairs
<1>1. CASE at = {}
  <2> DEFINE x == [node |-> n, bufs |-> <<b>>]
  <2>1. r = Append(fs, x)
    BY <1>1 DEF AddTo
  <2>2. x \in FrameType /\ x.node = n /\ x.bufs = <<b>>
    BY DEF FrameType
  <2>3. r \in Seq(FrameType)
    BY <2>1, <2>2
  <2> HIDE DEF r, x
  <2>4. ASSUME NEW h \in [Pairs -> Nat]
        PROVE  Weigh(FrameOf(h), r) = Weigh(FrameOf(h), fs) + h[<<n, b>>]
    <3>1. Weigh(FrameOf(h), r) = Weigh(FrameOf(h), fs) + FrameOf(h)[x]
      BY <2>1, <2>2, FrameOfType, WeighAppend
    <3>2. FrameOf(h)[x] = Weigh(h, PairsOf(n, <<b>>))
      BY <2>2, Zenon DEF FrameOf
    <3>3. PairsOf(n, <<b>>) = Append(<<>>, <<n, b>>)
      BY DEF PairsOf
    <3>4. Weigh(h, Append(<<>>, <<n, b>>)) = Weigh(h, <<>>) + h[<<n, b>>]
      <4>1. <<>> \in Seq(Pairs)
        OBVIOUS
      <4> QED BY <1>0, <4>1, WeighAppend, Zenon
    <3>5. Weigh(h, <<>>) = 0 /\ h[<<n, b>>] \in Nat
      BY <1>0, WeighEmpty
    <3>6. FrameOf(h)[x] = Weigh(h, <<>>) + h[<<n, b>>]
      BY <3>2, <3>3, <3>4, Zenon
    <3> QED BY <3>1, <3>5, <3>6
  <2> QED BY <2>3, <2>4, Zenon DEF r
<1>2. CASE at # {}
  <2> DEFINE k == CHOOSE i \in at : TRUE
             e == fs[k]
             x == [node |-> n, bufs |-> Append(e.bufs, b)]
  <2>1. k \in 1 .. Len(fs) /\ e.node = n
    BY <1>2
  <2>2. r = [fs EXCEPT ![k].bufs = Append(@, b)]
    BY <1>2, Zenon DEF AddTo
  <2> HIDE DEF k, r
  <2>3. e \in FrameType
    BY <2>1
  <2>4. e = [node |-> e.node, bufs |-> e.bufs] /\ e.bufs \in Seq(Buffers)
    BY <2>3 DEF FrameType
  <2>5. r = [fs EXCEPT ![k] = [e EXCEPT !.bufs = Append(@, b)]]
    BY <2>2
  <2> HIDE DEF e
  <2>6. [e EXCEPT !.bufs = Append(@, b)] = x
    <3> DEFINE q == e.bufs
               y == Append(q, b)
    <3>1. e = [node |-> n, bufs |-> q]
      BY <2>1, <2>4
    <3>2. [e EXCEPT !.bufs = Append(@, b)] = [e EXCEPT !.bufs = y]
      OBVIOUS
    <3>3. x = [node |-> n, bufs |-> y]
      OBVIOUS
    <3> HIDE DEF q, y, x
    <3>4. [e EXCEPT !.bufs = y] = [node |-> n, bufs |-> y]
      BY <3>1
    <3> QED BY <3>2, <3>3, <3>4
  <2>7. x \in FrameType /\ x.node = n /\ x.bufs = Append(e.bufs, b)
    BY <2>4 DEF FrameType
  <2>8. r = [fs EXCEPT ![k] = x]
    BY <2>5, <2>6
  <2>9. r \in Seq(FrameType)
    BY <2>1, <2>7, <2>8
  <2> HIDE DEF x
  <2>10. ASSUME NEW h \in [Pairs -> Nat]
         PROVE  Weigh(FrameOf(h), r) = Weigh(FrameOf(h), fs) + h[<<n, b>>]
    <3>0. FrameOf(h) \in [FrameType -> Nat]
      BY FrameOfType
    <3>1. Weigh(FrameOf(h), r) = Weigh(FrameOf(h), fs) + (FrameOf(h)[x] - FrameOf(h)[fs[k]])
      <4> DEFINE g == FrameOf(h)
                 T == FrameType
      <4>1. g \in [T -> Nat] /\ fs \in Seq(T) /\ x \in T /\ k \in 1 .. Len(fs)
        BY <2>1, <2>7, <3>0
      <4> HIDE DEF g, T
      <4>2. Weigh(g, [fs EXCEPT ![k] = x]) = Weigh(g, fs) + (g[x] - g[fs[k]])
        BY <4>1, WeighOther
      <4> QED BY <2>8, <4>2 DEF g
    <3>2. FrameOf(h)[x] = Weigh(h, PairsOf(n, Append(e.bufs, b)))
      BY <2>7 DEF FrameOf
    <3>3. FrameOf(h)[fs[k]] = Weigh(h, PairsOf(n, e.bufs))
      BY <2>1, <2>3 DEF FrameOf, e
    <3>4. PairsOf(n, e.bufs) \in Seq(Pairs)
      BY <2>4, PairsOfType
    <3>5. PairsOf(n, Append(e.bufs, b)) = Append(PairsOf(n, e.bufs), <<n, b>>)
      BY <2>4, PairsOfAppend
    <3>6. Weigh(h, PairsOf(n, Append(e.bufs, b))) = Weigh(h, PairsOf(n, e.bufs)) + h[<<n, b>>]
      BY <1>0, <3>4, <3>5, WeighAppend
    <3>7. Weigh(h, PairsOf(n, e.bufs)) \in Nat /\ h[<<n, b>>] \in Nat
          /\ Weigh(FrameOf(h), fs) \in Nat
      BY <1>0, <3>4, WeighNat, FrameOfType, Zenon
    <3> QED BY <3>1, <3>2, <3>3, <3>6, <3>7
  <2> QED BY <2>9, <2>10 DEF r
<1> QED BY <1>1, <1>2

\* the recursive function of Enqueue
Enqueues(frames, to) ==
  LET F[i \in 0 .. Len(to)] ==
        IF i = 0 THEN frames
        ELSE CHOOSE r \in {AddTo(a, to[i][1], to[i][2]) : a \in {F[i - 1]}} : TRUE
  IN F

\* The fold in Enqueue, one packet after the other.
LEMMA EnqueuesExist ==
  ASSUME NEW fs, NEW to, Len(to) \in Nat
  PROVE  /\ Enqueue(fs, to) = Enqueues(fs, to)[Len(to)]
         /\ Enqueues(fs, to)[0] = fs
         /\ \A i \in 1 .. Len(to) :
              Enqueues(fs, to)[i] = AddTo(Enqueues(fs, to)[i - 1], to[i][1], to[i][2])
<1> DEFINE n == Len(to)
           Step(a, i) == CHOOSE r \in {AddTo(x, to[i][1], to[i][2]) : x \in {a}} : TRUE
           Is(s, m) == s = [i \in 0 .. m |-> IF i = 0 THEN fs ELSE Step(s[i - 1], i)]
           S == {m \in 0 .. n : \E s : Is(s, m)}
<1>1. 0 \in S
  <2> DEFINE s == [i \in 0 .. 0 |-> fs]
  <2>1. Is(s, 0)
    <3> DEFINE h == [i \in 0 .. 0 |-> IF i = 0 THEN fs ELSE Step(s[i - 1], i)]
    <3>1. \A i \in 0 .. 0 : s[i] = h[i]
      <4> HIDE DEF Step
      <4> QED OBVIOUS
    <3>2. s = [i \in 0 .. 0 |-> s[i]] /\ h = [i \in 0 .. 0 |-> h[i]]
      OBVIOUS
    <3>3. s = h
      <4> HIDE DEF s, h
      <4> QED BY <3>1, <3>2
    <3> HIDE DEF s, Step
    <3> QED BY <3>3
  <2> HIDE DEF s, Is
  <2> QED BY <2>1
<1>2. ASSUME NEW m \in 0 .. n, m < n, m \in S
      PROVE  m + 1 \in S
  <2>1. PICK s : Is(s, m)
    BY <1>2
  <2> DEFINE e == [i \in 0 .. m + 1 |-> IF i = m + 1 THEN Step(s[m], m + 1) ELSE s[i]]
             h == [i \in 0 .. m + 1 |-> IF i = 0 THEN fs ELSE Step(e[i - 1], i)]
  <2> HIDE DEF Step
  <2>2. \A i \in 0 .. m + 1 : e[i] = h[i]
    <3> SUFFICES ASSUME NEW i \in 0 .. m + 1 PROVE e[i] = h[i]
      OBVIOUS
    <3>1. CASE i = m + 1
      <4>1. e[i - 1] = s[m] /\ i # 0 /\ i - 1 = m
        BY <3>1
      <4> QED BY <3>1, <4>1
    <3>2. CASE i # m + 1
      <4>1. i \in 0 .. m /\ e[i] = s[i] /\ (i # 0 => e[i - 1] = s[i - 1])
        BY <3>2
      <4>2. s[i] = IF i = 0 THEN fs ELSE Step(s[i - 1], i)
        BY <2>1, <4>1
      <4> QED BY <4>1, <4>2
    <3> QED BY <3>1, <3>2
  <2>3. e = [i \in 0 .. m + 1 |-> e[i]] /\ h = [i \in 0 .. m + 1 |-> h[i]]
    OBVIOUS
  <2>4. e = h
    <3> HIDE DEF e, h
    <3> QED BY <2>2, <2>3
  <2>5. Is(e, m + 1)
    <3> HIDE DEF e
    <3> QED BY <2>4
  <2> HIDE DEF e, Is
  <2> QED BY <1>2, <2>5
<1>3. n \in S
  <2> HIDE DEF S
  <2>1. n \in Nat /\ \A k \in 0 .. n : k \in S
    BY <1>1, <1>2, UpTo
  <2> QED BY <2>1
<1>4. \E s : Is(s, n)
  <2> HIDE DEF Is
  <2> QED BY <1>3
<1>5. Is(Enqueues(fs, to), n)
  BY <1>4, Zenon DEF Enqueues
<1>6. Enqueue(fs, to) = Enqueues(fs, to)[Len(to)]
  BY Zenon DEF Enqueue, Fold, Enqueues
<1>7. \A a, i : Step(a, i) = AddTo(a, to[i][1], to[i][2])
  OBVIOUS
<1> HIDE DEF Step
<1>8. Enqueues(fs, to)[0] = fs
  BY <1>5
<1>9. \A i \in 1 .. n : Enqueues(fs, to)[i] = Step(Enqueues(fs, to)[i - 1], i)
  BY <1>5
<1> QED BY <1>6, <1>7, <1>8, <1>9

\* Enqueue adds what the node enqueued to the frames.
LEMMA EnqueueWeighs ==
  ASSUME NEW fs \in Seq(FrameType), NEW to \in Seq(Pairs)
  PROVE  /\ Enqueue(fs, to) \in Seq(FrameType)
         /\ \A h \in [Pairs -> Nat] :
              Weigh(FrameOf(h), Enqueue(fs, to)) = Weigh(FrameOf(h), fs) + Weigh(h, to)
<1> DEFINE n == Len(to)
           E(i) == Enqueues(fs, to)[i]
           Good(i) == /\ E(i) \in Seq(FrameType)
                      /\ \A h \in [Pairs -> Nat] :
                           Weigh(FrameOf(h), E(i))
                             = Weigh(FrameOf(h), fs) + Weigh(h, SubSeq(to, 1, i))
           S == {i \in 0 .. n : Good(i)}
<1>1. /\ n \in Nat /\ Enqueue(fs, to) = E(n) /\ E(0) = fs
      /\ \A i \in 1 .. n : E(i) = AddTo(E(i - 1), to[i][1], to[i][2])
  BY EnqueuesExist
<1> HIDE DEF E
<1>2. 0 \in S
  <2>1. SubSeq(to, 1, 0) = <<>> /\ 0 \in 0 .. n
    BY <1>1
  <2>2. ASSUME NEW h \in [Pairs -> Nat]
        PROVE  Weigh(FrameOf(h), E(0)) = Weigh(FrameOf(h), fs) + Weigh(h, SubSeq(to, 1, 0))
    <3>1. FrameOf(h) \in [FrameType -> Nat]
      BY FrameOfType
    <3>2. Weigh(h, <<>>) = 0 /\ Weigh(FrameOf(h), fs) \in Nat
      BY <3>1, WeighEmpty, WeighNat
    <3>3. Weigh(FrameOf(h), E(0)) = Weigh(FrameOf(h), fs) /\ Weigh(h, SubSeq(to, 1, 0)) = 0
      BY <1>1, <2>1, <3>2, Zenon
    <3> QED BY <3>2, <3>3
  <2>3. Good(0)
    BY <1>1, <2>2
  <2> HIDE DEF Good
  <2> QED BY <2>1, <2>3
<1>3. ASSUME NEW i \in 0 .. n, i < n, i \in S
      PROVE  i + 1 \in S
  <2> DEFINE x == to[i + 1]
  <2>1. i + 1 \in 1 .. n /\ (i + 1) - 1 = i /\ i + 1 \in 0 .. n
    BY <1>1, <1>3
  <2>2. x \in Pairs
    BY <1>1, <2>1
  <2> HIDE DEF x
  <2>3. x = <<x[1], x[2]>> /\ x[1] \in Nodes /\ x[2] \in Buffers
    BY <2>2 DEF Pairs
  <2>4. Good(i)
    BY <1>3
  <2>5. E(i + 1) = AddTo(E(i), x[1], x[2])
    BY <1>1, <2>1 DEF x
  <2>6. E(i + 1) \in Seq(FrameType)
    BY <2>3, <2>4, <2>5, AddToWeighs
  <2>7. ASSUME NEW h \in [Pairs -> Nat]
        PROVE  Weigh(FrameOf(h), E(i + 1)) = Weigh(FrameOf(h), fs) + Weigh(h, SubSeq(to, 1, i + 1))
    <3> DEFINE p == SubSeq(to, 1, i)
    <3>1. Weigh(FrameOf(h), E(i + 1)) = Weigh(FrameOf(h), E(i)) + h[x]
      BY <2>3, <2>4, <2>5, AddToWeighs
    <3>2. Weigh(FrameOf(h), E(i)) = Weigh(FrameOf(h), fs) + Weigh(h, p)
      BY <2>4
    <3>3. p \in Seq(Pairs) /\ SubSeq(to, 1, i + 1) = Append(p, x)
      BY <1>1, <2>1 DEF x
    <3>4. Weigh(h, Append(p, x)) = Weigh(h, p) + h[x]
      BY <2>2, <3>3, WeighAppend, Zenon
    <3>5. FrameOf(h) \in [FrameType -> Nat]
      BY FrameOfType
    <3>6. Weigh(FrameOf(h), fs) \in Nat /\ Weigh(h, p) \in Nat /\ h[x] \in Nat
      BY <2>2, <3>3, <3>5, WeighNat
    <3>7. Weigh(h, SubSeq(to, 1, i + 1)) = Weigh(h, p) + h[x]
      BY <3>3, <3>4, Zenon
    <3> HIDE DEF p
    <3> QED BY <3>1, <3>2, <3>6, <3>7
  <2>8. Good(i + 1)
    BY <2>6, <2>7
  <2> HIDE DEF Good
  <2> QED BY <2>1, <2>8
<1>4. n \in S
  <2> HIDE DEF S
  <2>1. n \in Nat /\ \A k \in 0 .. n : k \in S
    BY <1>1, <1>2, <1>3, UpTo
  <2> QED BY <2>1
<1>5. SubSeq(to, 1, n) = to
  OBVIOUS
<1> QED BY <1>1, <1>4, <1>5

-----------------------------------------------------------------------------
(* The frames for one worker, out of the array of the handoff *)

SortsOut(away, t) ==
  LET F[i \in 0 .. Len(away)] ==
        IF i = 0 THEN [his |-> <<>>, rest |-> <<>>]
        ELSE CHOOSE r \in {SortOut(t, a, away[i]) : a \in {F[i - 1]}} : TRUE
  IN F

\* The fold in Sorted, one packet after the other.
LEMMA SortsOutExist ==
  ASSUME NEW t, NEW away, Len(away) \in Nat
  PROVE  /\ Sorted(away, t) = SortsOut(away, t)[Len(away)]
         /\ SortsOut(away, t)[0] = [his |-> <<>>, rest |-> <<>>]
         /\ \A i \in 1 .. Len(away) :
              SortsOut(away, t)[i] = SortOut(t, SortsOut(away, t)[i - 1], away[i])
<1> DEFINE n == Len(away)
           none == [his |-> <<>>, rest |-> <<>>]
           Step(a, i) == CHOOSE r \in {SortOut(t, x, away[i]) : x \in {a}} : TRUE
           Is(s, m) == s = [i \in 0 .. m |-> IF i = 0 THEN none ELSE Step(s[i - 1], i)]
           S == {m \in 0 .. n : \E s : Is(s, m)}
<1>6. Sorted(away, t) = SortsOut(away, t)[Len(away)]
  BY Zenon DEF Sorted, Fold, SortsOut
<1>5. (\E s : Is(s, n)) => Is(SortsOut(away, t), n)
  BY Zenon DEF SortsOut
<1> HIDE DEF none
<1>1. 0 \in S
  <2> DEFINE s == [i \in 0 .. 0 |-> none]
  <2>1. Is(s, 0)
    <3> DEFINE h == [i \in 0 .. 0 |-> IF i = 0 THEN none ELSE Step(s[i - 1], i)]
    <3>1. \A i \in 0 .. 0 : s[i] = h[i]
      <4> HIDE DEF Step
      <4> QED OBVIOUS
    <3>2. s = [i \in 0 .. 0 |-> s[i]] /\ h = [i \in 0 .. 0 |-> h[i]]
      OBVIOUS
    <3>3. s = h
      <4> HIDE DEF s, h
      <4> QED BY <3>1, <3>2
    <3> HIDE DEF s, Step
    <3> QED BY <3>3
  <2> HIDE DEF s, Is
  <2> QED BY <2>1
<1>2. ASSUME NEW m \in 0 .. n, m < n, m \in S
      PROVE  m + 1 \in S
  <2>1. PICK s : Is(s, m)
    BY <1>2
  <2> DEFINE e == [i \in 0 .. m + 1 |-> IF i = m + 1 THEN Step(s[m], m + 1) ELSE s[i]]
             h == [i \in 0 .. m + 1 |-> IF i = 0 THEN none ELSE Step(e[i - 1], i)]
  <2> HIDE DEF Step
  <2>2. \A i \in 0 .. m + 1 : e[i] = h[i]
    <3> SUFFICES ASSUME NEW i \in 0 .. m + 1 PROVE e[i] = h[i]
      OBVIOUS
    <3>1. CASE i = m + 1
      <4>1. e[i - 1] = s[m] /\ i # 0 /\ i - 1 = m
        BY <3>1
      <4> QED BY <3>1, <4>1
    <3>2. CASE i # m + 1
      <4>1. i \in 0 .. m /\ e[i] = s[i] /\ (i # 0 => e[i - 1] = s[i - 1])
        BY <3>2
      <4>2. s[i] = IF i = 0 THEN none ELSE Step(s[i - 1], i)
        BY <2>1, <4>1
      <4> QED BY <4>1, <4>2
    <3> QED BY <3>1, <3>2
  <2>3. e = [i \in 0 .. m + 1 |-> e[i]] /\ h = [i \in 0 .. m + 1 |-> h[i]]
    OBVIOUS
  <2>4. e = h
    <3> HIDE DEF e, h
    <3> QED BY <2>2, <2>3
  <2>5. Is(e, m + 1)
    <3> HIDE DEF e
    <3> QED BY <2>4
  <2> HIDE DEF e, Is
  <2> QED BY <1>2, <2>5
<1>3. n \in S
  <2> HIDE DEF S
  <2>1. n \in Nat /\ \A k \in 0 .. n : k \in S
    BY <1>1, <1>2, UpTo
  <2> QED BY <2>1
<1>4. \E s : Is(s, n)
  <2> HIDE DEF Is
  <2> QED BY <1>3
<1>7. Is(SortsOut(away, t), n)
  <2> HIDE DEF Is
  <2> QED BY <1>4, <1>5
<1>8. \A a, i : Step(a, i) = SortOut(t, a, away[i])
  OBVIOUS
<1> HIDE DEF Step
<1>9. SortsOut(away, t)[0] = none
  BY <1>7
<1>10. \A i \in 1 .. n : SortsOut(away, t)[i] = Step(SortsOut(away, t)[i - 1], i)
  BY <1>7
<1> QED BY <1>6, <1>8, <1>9, <1>10 DEF none

Away == Workers \X Buffers
\* an element of the array of the handoff
AwayOf(h) == [x \in Away |-> h[<<HandoffNode, x[2]>>]]

\* The two nodes of the handoff are nodes of the graph.
LEMMA HandoffNodes == HandoffNode \in Nodes /\ HfInputNode \in Nodes
BY DEF Nodes, Before

\* The weight of a packet that leaves for another worker is a natural.
LEMMA AwayOfType ==
  ASSUME NEW h \in [Pairs -> Nat]
  PROVE  AwayOf(h) \in [Away -> Nat]
<1>1. ASSUME NEW x \in Away
      PROVE  h[<<HandoffNode, x[2]>>] \in Nat
  <2>1. <<HandoffNode, x[2]>> \in Pairs
    BY HandoffNodes DEF Pairs, Away
  <2> QED BY <2>1
<1> QED BY <1>1 DEF AwayOf

\* The array is split: what goes to thread t, and the rest.
LEMMA SortedWeighs ==
  ASSUME NEW t, NEW away \in Seq(Away)
  PROVE  LET f == Sorted(away, t)
         IN /\ f.his \in Seq(Buffers) /\ f.rest \in Seq(Away)
            /\ \A i \in 1 .. Len(f.his) : \E j \in 1 .. Len(away) :
                 away[j][1] = t /\ away[j][2] = f.his[i]
            /\ \A i \in 1 .. Len(f.rest) : \E j \in 1 .. Len(away) : away[j] = f.rest[i]
            /\ \A h \in [Pairs -> Nat] :
                 Weigh(AwayOf(h), away)
                   = Weigh(h, PairsOf(HandoffNode, f.his)) + Weigh(AwayOf(h), f.rest)
<1> DEFINE n == Len(away)
           none == [his |-> <<>>, rest |-> <<>>]
           F(i) == SortsOut(away, t)[i]
           Types(f) == f = [his |-> f.his, rest |-> f.rest] /\ f.his \in Seq(Buffers) /\ f.rest \in Seq(Away)
           His(f) == \A i \in 1 .. Len(f.his) : \E j \in 1 .. n :
                       away[j][1] = t /\ away[j][2] = f.his[i]
           Rest(f) == \A i \in 1 .. Len(f.rest) : \E j \in 1 .. n : away[j] = f.rest[i]
           Sum(f, k) == \A h \in [Pairs -> Nat] :
                 Weigh(AwayOf(h), SubSeq(away, 1, k))
                   = Weigh(h, PairsOf(HandoffNode, f.his)) + Weigh(AwayOf(h), f.rest)
           S == {i \in 0 .. n : Types(F(i)) /\ His(F(i)) /\ Rest(F(i)) /\ Sum(F(i), i)}
<1>1. /\ n \in Nat /\ Sorted(away, t) = F(n) /\ F(0) = none
      /\ \A i \in 1 .. n : F(i) = SortOut(t, F(i - 1), away[i])
  BY SortsOutExist
<1> HIDE DEF F
<1>2. 0 \in S
  <2>1. SubSeq(away, 1, 0) = <<>> /\ 0 \in 0 .. n /\ <<>> \in Seq(Buffers) /\ <<>> \in Seq(Away)
        /\ Len(<<>>) = 0
    BY <1>1
  <2>2. PairsOf(HandoffNode, <<>>) = <<>>
    BY DEF PairsOf
  <2>3. none.his = <<>> /\ none.rest = <<>>
    OBVIOUS
  <2>4. Types(none) /\ His(none) /\ Rest(none)
    BY <2>1
  <2> HIDE DEF none
  <2>5. ASSUME NEW h \in [Pairs -> Nat]
        PROVE  Weigh(AwayOf(h), SubSeq(away, 1, 0))
                 = Weigh(h, PairsOf(HandoffNode, none.his)) + Weigh(AwayOf(h), none.rest)
    <3>1. Weigh(h, <<>>) = 0 /\ Weigh(AwayOf(h), <<>>) = 0
      BY WeighEmpty
    <3>2. Weigh(AwayOf(h), SubSeq(away, 1, 0)) = 0 /\ Weigh(h, PairsOf(HandoffNode, none.his)) = 0
          /\ Weigh(AwayOf(h), none.rest) = 0
      BY <2>1, <2>2, <2>3, <3>1, Zenon
    <3> QED BY <3>2
  <2>6. Sum(none, 0)
    BY <2>5
  <2> HIDE DEF Types, His, Rest, Sum
  <2> QED BY <1>1, <2>1, <2>4, <2>6
<1>3. ASSUME NEW i \in 0 .. n, i < n, i \in S
      PROVE  i + 1 \in S
  <2> DEFINE x == away[i + 1]
             f == F(i)
             g == F(i + 1)
             p == SubSeq(away, 1, i)
  <2>1. i + 1 \in 1 .. n /\ (i + 1) - 1 = i /\ i + 1 \in 0 .. n
    BY <1>1, <1>3
  <2>2. x \in Away /\ p \in Seq(Away) /\ SubSeq(away, 1, i + 1) = Append(p, x)
    BY <1>1, <2>1
  <2>3. g = SortOut(t, f, x)
    BY <1>1, <2>1
  <2>4. Types(f) /\ His(f) /\ Rest(f) /\ Sum(f, i)
    BY <1>3
  <2>5. ASSUME NEW h \in [Pairs -> Nat]
        PROVE  /\ Weigh(AwayOf(h), SubSeq(away, 1, i + 1)) = Weigh(AwayOf(h), p) + h[<<HandoffNode, x[2]>>]
               /\ Weigh(AwayOf(h), p)
                   = Weigh(h, PairsOf(HandoffNode, f.his)) + Weigh(AwayOf(h), f.rest)
               /\ Weigh(h, PairsOf(HandoffNode, f.his)) \in Nat
               /\ Weigh(AwayOf(h), f.rest) \in Nat
               /\ h[<<HandoffNode, x[2]>>] \in Nat
    <3>1. AwayOf(h) \in [Away -> Nat]
      BY AwayOfType
    <3>2. AwayOf(h)[x] = h[<<HandoffNode, x[2]>>]
      BY <2>2 DEF AwayOf
    <3> HIDE DEF p, x
    <3>3. Weigh(AwayOf(h), Append(p, x)) = Weigh(AwayOf(h), p) + AwayOf(h)[x]
      BY <2>2, <3>1, WeighAppend, Zenon
    <3>4. PairsOf(HandoffNode, f.his) \in Seq(Pairs)
      BY <2>4, HandoffNodes, PairsOfType
    <3>5. AwayOf(h)[x] \in Nat
      BY <2>2, <3>1
    <3>6. Weigh(h, PairsOf(HandoffNode, f.his)) \in Nat /\ Weigh(AwayOf(h), f.rest) \in Nat
      BY <2>4, <3>1, <3>4, WeighNat
    <3>7. Weigh(AwayOf(h), p)
                   = Weigh(h, PairsOf(HandoffNode, f.his)) + Weigh(AwayOf(h), f.rest)
      BY <2>4 DEF p
    <3>8. Weigh(AwayOf(h), SubSeq(away, 1, i + 1)) = Weigh(AwayOf(h), p) + h[<<HandoffNode, x[2]>>]
      BY <2>2, <3>2, <3>3, Zenon
    <3> QED BY <3>2, <3>5, <3>6, <3>7, <3>8
  <2>6. CASE x[1] = t
    <3> DEFINE q == Append(f.his, x[2])
    <3>1. g = [his |-> q, rest |-> f.rest]
      <4>1. g = [f EXCEPT !.his = q]
        BY <2>3, <2>6 DEF SortOut
      <4> HIDE DEF q, g, f
      <4>2. f = [his |-> f.his, rest |-> f.rest]
        BY <2>4
      <4> QED BY <4>1, <4>2
    <3>2. x[2] \in Buffers /\ f.his \in Seq(Buffers)
      BY <2>2, <2>4 DEF Away
    <3>3. /\ q \in Seq(Buffers) /\ Len(q) = Len(f.his) + 1 /\ q[Len(f.his) + 1] = x[2]
          /\ \A k \in 1 .. Len(f.his) : q[k] = f.his[k]
      BY <3>2
    <3>4. PairsOf(HandoffNode, q) = Append(PairsOf(HandoffNode, f.his), <<HandoffNode, x[2]>>)
      BY <3>2, HandoffNodes, PairsOfAppend
    <3>5. g.his = q /\ g.rest = f.rest /\ g = [his |-> g.his, rest |-> g.rest]
      BY <3>1
    <3> HIDE DEF q, g, f
    <3>6. Types(g) /\ Rest(g)
      BY <2>4, <3>3, <3>5
    <3>7. His(g)
      <4> SUFFICES ASSUME NEW k \in 1 .. Len(q)
                   PROVE  \E j \in 1 .. n : away[j][1] = t /\ away[j][2] = q[k]
        BY <3>5
      <4>1. CASE k = Len(f.his) + 1
        BY <2>1, <2>6, <3>3, <4>1
      <4>2. CASE k # Len(f.his) + 1
        <5>1. k \in 1 .. Len(f.his) /\ q[k] = f.his[k]
          BY <3>2, <3>3, <4>2
        <5>2. \E j \in 1 .. n : away[j][1] = t /\ away[j][2] = f.his[k]
          BY <2>4, <5>1
        <5> QED BY <5>1, <5>2
      <4> QED BY <4>1, <4>2
    <3>8. ASSUME NEW h \in [Pairs -> Nat]
          PROVE  Weigh(AwayOf(h), SubSeq(away, 1, i + 1))
                   = Weigh(h, PairsOf(HandoffNode, g.his)) + Weigh(AwayOf(h), g.rest)
      <4>1. PairsOf(HandoffNode, f.his) \in Seq(Pairs) /\ <<HandoffNode, x[2]>> \in Pairs
        BY <3>2, HandoffNodes, PairsOfType, Zenon DEF Pairs
      <4>2. Weigh(h, PairsOf(HandoffNode, q))
              = Weigh(h, PairsOf(HandoffNode, f.his)) + h[<<HandoffNode, x[2]>>]
        BY <3>4, <4>1, WeighAppend, Zenon
      <4>3. Weigh(h, PairsOf(HandoffNode, g.his))
              = Weigh(h, PairsOf(HandoffNode, f.his)) + h[<<HandoffNode, x[2]>>]
        BY <3>5, <4>2, Zenon
      <4>4. /\ Weigh(AwayOf(h), SubSeq(away, 1, i + 1)) = Weigh(AwayOf(h), p) + h[<<HandoffNode, x[2]>>]
            /\ Weigh(AwayOf(h), p)
                 = Weigh(h, PairsOf(HandoffNode, f.his)) + Weigh(AwayOf(h), f.rest)
            /\ Weigh(h, PairsOf(HandoffNode, f.his)) \in Nat
            /\ Weigh(AwayOf(h), f.rest) \in Nat
            /\ h[<<HandoffNode, x[2]>>] \in Nat
        BY <2>5
      <4>5. Weigh(AwayOf(h), g.rest) = Weigh(AwayOf(h), f.rest)
        BY <3>5, Zenon
      <4> HIDE DEF p, x
      <4> QED BY <4>3, <4>4, <4>5
    <3>9. Sum(g, i + 1)
      BY <3>8
    <3> HIDE DEF Types, His, Rest, Sum
    <3> QED BY <2>1, <3>6, <3>7, <3>9 DEF g
  <2>7. CASE x[1] # t
    <3> DEFINE q == Append(f.rest, x)
    <3>1. g = [his |-> f.his, rest |-> q]
      <4>1. g = [f EXCEPT !.rest = q]
        BY <2>3, <2>7 DEF SortOut
      <4> HIDE DEF q, g, f
      <4>2. f = [his |-> f.his, rest |-> f.rest]
        BY <2>4
      <4> QED BY <4>1, <4>2
    <3>2. x \in Away /\ f.rest \in Seq(Away)
      BY <2>2, <2>4
    <3>3. /\ q \in Seq(Away) /\ Len(q) = Len(f.rest) + 1 /\ q[Len(f.rest) + 1] = x
          /\ \A k \in 1 .. Len(f.rest) : q[k] = f.rest[k]
      BY <3>2
    <3>5. g.his = f.his /\ g.rest = q /\ g = [his |-> g.his, rest |-> g.rest]
      BY <3>1
    <3>4. q = Append(f.rest, x)
      OBVIOUS
    <3> HIDE DEF q, g, f
    <3>6. Types(g) /\ His(g)
      BY <2>4, <3>3, <3>5
    <3>7. Rest(g)
      <4> SUFFICES ASSUME NEW k \in 1 .. Len(q)
                   PROVE  \E j \in 1 .. n : away[j] = q[k]
        BY <3>5
      <4>1. CASE k = Len(f.rest) + 1
        BY <2>1, <3>3, <4>1
      <4>2. CASE k # Len(f.rest) + 1
        <5>1. k \in 1 .. Len(f.rest) /\ q[k] = f.rest[k]
          BY <3>2, <3>3, <4>2
        <5>2. \E j \in 1 .. n : away[j] = f.rest[k]
          BY <2>4, <5>1
        <5> QED BY <5>1, <5>2
      <4> QED BY <4>1, <4>2
    <3>8. ASSUME NEW h \in [Pairs -> Nat]
          PROVE  Weigh(AwayOf(h), SubSeq(away, 1, i + 1))
                   = Weigh(h, PairsOf(HandoffNode, g.his)) + Weigh(AwayOf(h), g.rest)
      <4>1. AwayOf(h) \in [Away -> Nat] /\ AwayOf(h)[x] = h[<<HandoffNode, x[2]>>]
        BY <3>2, AwayOfType, Zenon DEF AwayOf
      <4>2. Weigh(AwayOf(h), q) = Weigh(AwayOf(h), f.rest) + AwayOf(h)[x]
        BY <3>2, <3>4, <4>1, WeighAppend, Zenon
      <4>3. Weigh(AwayOf(h), g.rest) = Weigh(AwayOf(h), f.rest) + h[<<HandoffNode, x[2]>>]
        BY <3>5, <4>1, <4>2, Zenon
      <4>4. /\ Weigh(AwayOf(h), SubSeq(away, 1, i + 1)) = Weigh(AwayOf(h), p) + h[<<HandoffNode, x[2]>>]
            /\ Weigh(AwayOf(h), p)
                 = Weigh(h, PairsOf(HandoffNode, f.his)) + Weigh(AwayOf(h), f.rest)
            /\ Weigh(h, PairsOf(HandoffNode, f.his)) \in Nat
            /\ Weigh(AwayOf(h), f.rest) \in Nat
            /\ h[<<HandoffNode, x[2]>>] \in Nat
        BY <2>5
      <4>5. Weigh(h, PairsOf(HandoffNode, g.his)) = Weigh(h, PairsOf(HandoffNode, f.his))
        BY <3>5, Zenon
      <4> HIDE DEF p, x
      <4> QED BY <4>3, <4>4, <4>5
    <3>9. Sum(g, i + 1)
      BY <3>8
    <3> HIDE DEF Types, His, Rest, Sum
    <3> QED BY <2>1, <3>6, <3>7, <3>9 DEF g
  <2> QED BY <2>6, <2>7
<1>4. n \in S
  <2> HIDE DEF S
  <2>1. n \in Nat /\ \A k \in 0 .. n : k \in S
    BY <1>1, <1>2, <1>3, UpTo
  <2> QED BY <2>1
<1>5. SubSeq(away, 1, n) = away
  OBVIOUS
<1>6. Types(F(n)) /\ His(F(n)) /\ Rest(F(n)) /\ Sum(F(n), n)
  BY <1>4
<1> QED BY <1>1, <1>5, <1>6, Zenon

-----------------------------------------------------------------------------
(* The weight of all that a worker has *)

\* a frame of a frame queue
QueueOf(h) == [bs \in Seq(Buffers) |-> Weigh(h, PairsOf(HfInputNode, bs))]

ListsType == [list : Seq(Pairs), to : Seq(Pairs), away : Seq(Away), pend : Seq(FrameType),
              fq : Seq(Seq(Buffers))]
Load(h, L) ==
  Weigh(h, L.list) + Weigh(h, L.to) + Weigh(AwayOf(h), L.away) + Weigh(FrameOf(h), L.pend)
  + Weigh(QueueOf(h), L.fq)

\* The weight of a frame in a handoff queue is a natural.
LEMMA QueueOfType ==
  ASSUME NEW h \in [Pairs -> Nat]
  PROVE  QueueOf(h) \in [Seq(Buffers) -> Nat]
<1>1. ASSUME NEW bs \in Seq(Buffers)
      PROVE  Weigh(h, PairsOf(HfInputNode, bs)) \in Nat
  <2>1. PairsOf(HfInputNode, bs) \in Seq(Pairs)
    BY HandoffNodes, PairsOfType
  <2> QED BY <2>1, WeighNat
<1> QED BY <1>1 DEF QueueOf

\* The load of a worker's lists, and each part of it, is a natural.
LEMMA LoadNat ==
  ASSUME NEW h \in [Pairs -> Nat], NEW L \in ListsType
  PROVE  /\ Weigh(h, L.list) \in Nat /\ Weigh(h, L.to) \in Nat /\ Weigh(AwayOf(h), L.away) \in Nat
         /\ Weigh(FrameOf(h), L.pend) \in Nat /\ Weigh(QueueOf(h), L.fq) \in Nat
         /\ Load(h, L) \in Nat
<1>1. L.list \in Seq(Pairs) /\ L.to \in Seq(Pairs) /\ L.away \in Seq(Away)
      /\ L.pend \in Seq(FrameType) /\ L.fq \in Seq(Seq(Buffers))
  BY DEF ListsType
<1>2. AwayOf(h) \in [Away -> Nat] /\ FrameOf(h) \in [FrameType -> Nat]
      /\ QueueOf(h) \in [Seq(Buffers) -> Nat]
  BY AwayOfType, FrameOfType, QueueOfType
<1>3. Weigh(h, L.list) \in Nat /\ Weigh(h, L.to) \in Nat
  BY <1>1, WeighNat, Zenon
<1>4. Weigh(AwayOf(h), L.away) \in Nat /\ Weigh(FrameOf(h), L.pend) \in Nat
  BY <1>1, <1>2, WeighNat
<1>5. Weigh(QueueOf(h), L.fq) \in Nat
  BY <1>1, <1>2, WeighNat
<1> QED BY <1>3, <1>4, <1>5 DEF Load

\* The mark of a packet is 1 there and 0 elsewhere.
LEMMA OneAt ==
  ASSUME NEW x \in Pairs
  PROVE  One(x) \in [Pairs -> Nat] /\ One(x)[x] = 1 /\ \A y \in Pairs : One(x)[y] # 0 => y = x
BY DEF One

\* a pair that is in a list
LEMMA WeighHas ==
  ASSUME NEW ps \in Seq(Pairs), NEW x \in Pairs, Weigh(One(x), ps) # 0
  PROVE  /\ \E i \in 1 .. Len(ps) : ps[i] = x
         /\ \A h \in [Pairs -> Nat] : Weigh(h, ps) >= h[x]
<1>0. One(x) \in [Pairs -> Nat]
  BY OneType
<1>1. PICK i \in 1 .. Len(ps) : One(x)[ps[i]] # 0
  BY <1>0, WeighSome, Zenon
<1>2. ps[i] \in Pairs
  OBVIOUS
<1>3. ps[i] = x
  BY <1>1, <1>2, OneAt, Zenon
<1>4. ASSUME NEW h \in [Pairs -> Nat]
      PROVE  Weigh(h, ps) >= h[x]
  BY <1>3, WeighAtLeast
<1> QED BY <1>3, <1>4

\* A packet of a list is seen by its mark.
LEMMA WeighIn ==
  ASSUME NEW ps \in Seq(Pairs), NEW i \in 1 .. Len(ps)
  PROVE  Weigh(One(ps[i]), ps) # 0
<1>1. ps[i] \in Pairs
  OBVIOUS
<1>2. Weigh(One(ps[i]), ps) >= One(ps[i])[ps[i]] /\ Weigh(One(ps[i]), ps) \in Nat
  BY <1>1, OneAt, WeighAtLeast, WeighNat, Zenon
<1>3. One(ps[i])[ps[i]] = 1
  BY <1>1, OneAt
<1> QED BY <1>2, <1>3

\* What the mark sees among the packets that leave is there, and counts.
LEMMA AwayHas ==
  ASSUME NEW away \in Seq(Away), NEW x \in Pairs, Weigh(AwayOf(One(x)), away) # 0
  PROVE  /\ \E i \in 1 .. Len(away) : x = <<HandoffNode, away[i][2]>>
         /\ \A h \in [Pairs -> Nat] : Weigh(AwayOf(h), away) >= h[x]
<1>1. AwayOf(One(x)) \in [Away -> Nat]
  BY OneAt, AwayOfType
<1>2. PICK i \in 1 .. Len(away) : AwayOf(One(x))[away[i]] # 0
  BY <1>1, WeighSome
<1>3. away[i] \in Away
  OBVIOUS
<1>4. <<HandoffNode, away[i][2]>> \in Pairs
  BY <1>3, HandoffNodes DEF Away, Pairs
<1>5. One(x)[<<HandoffNode, away[i][2]>>] # 0
  BY <1>2, <1>3 DEF AwayOf
<1>6. <<HandoffNode, away[i][2]>> = x
  BY <1>4, <1>5, OneAt
<1>7. ASSUME NEW h \in [Pairs -> Nat]
      PROVE  Weigh(AwayOf(h), away) >= h[x]
  <2>1. AwayOf(h)[away[i]] = h[x] /\ AwayOf(h) \in [Away -> Nat]
    BY <1>3, <1>6, AwayOfType DEF AwayOf
  <2>2. Weigh(AwayOf(h), away) >= AwayOf(h)[away[i]]
    BY <2>1, WeighAtLeast
  <2> QED BY <2>1, <2>2
<1> QED BY <1>6, <1>7

\* A packet that leaves is seen by its mark.
LEMMA AwayIn ==
  ASSUME NEW away \in Seq(Away), NEW i \in 1 .. Len(away)
  PROVE  Weigh(AwayOf(One(<<HandoffNode, away[i][2]>>)), away) # 0
<1> DEFINE x == <<HandoffNode, away[i][2]>>
<1>1. away[i] \in Away
  OBVIOUS
<1>2. x \in Pairs
  BY <1>1, HandoffNodes DEF Away, Pairs
<1>3. AwayOf(One(x))[away[i]] = One(x)[x]
  BY <1>1 DEF AwayOf
<1> HIDE DEF x
<1>4. AwayOf(One(x)) \in [Away -> Nat] /\ One(x)[x] = 1
  BY <1>2, OneAt, AwayOfType
<1>5. Weigh(AwayOf(One(x)), away) >= AwayOf(One(x))[away[i]] /\ Weigh(AwayOf(One(x)), away) \in Nat
  BY <1>4, WeighAtLeast, WeighNat
<1>6. Weigh(AwayOf(One(x)), away) # 0
  BY <1>3, <1>4, <1>5
<1> QED BY <1>6 DEF x

\* What the mark sees in the pending frames is in one of them, and counts.
LEMMA FrameHas ==
  ASSUME NEW fs \in Seq(FrameType), NEW x \in Pairs, Weigh(FrameOf(One(x)), fs) # 0
  PROVE  /\ \E i \in 1 .. Len(fs) : \E j \in 1 .. Len(fs[i].bufs) : x = <<fs[i].node, fs[i].bufs[j]>>
         /\ \A h \in [Pairs -> Nat] : Weigh(FrameOf(h), fs) >= h[x]
<1>1. FrameOf(One(x)) \in [FrameType -> Nat]
  BY OneAt, FrameOfType
<1>2. PICK i \in 1 .. Len(fs) : FrameOf(One(x))[fs[i]] # 0
  BY <1>1, WeighSome
<1> DEFINE ps == PairsOf(fs[i].node, fs[i].bufs)
<1>3. fs[i] \in FrameType
  OBVIOUS
<1>4. fs[i].node \in Nodes /\ fs[i].bufs \in Seq(Buffers)
  BY <1>3 DEF FrameType
<1>5. ps \in Seq(Pairs) /\ Len(ps) = Len(fs[i].bufs)
      /\ \A j \in 1 .. Len(fs[i].bufs) : ps[j] = <<fs[i].node, fs[i].bufs[j]>>
  BY <1>4, PairsOfType
<1>6. \A h : FrameOf(h)[fs[i]] = Weigh(h, ps)
  BY <1>3 DEF FrameOf
<1> HIDE DEF ps
<1>7. Weigh(One(x), ps) # 0
  BY <1>2, <1>6
<1>8. (\E j \in 1 .. Len(ps) : ps[j] = x) /\ \A h \in [Pairs -> Nat] : Weigh(h, ps) >= h[x]
  BY <1>5, <1>7, WeighHas
<1>9. ASSUME NEW h \in [Pairs -> Nat]
      PROVE  Weigh(FrameOf(h), fs) >= h[x]
  <2>1. FrameOf(h) \in [FrameType -> Nat]
    BY FrameOfType
  <2>2. Weigh(FrameOf(h), fs) >= FrameOf(h)[fs[i]]
    BY <2>1, WeighAtLeast
  <2>3. Weigh(FrameOf(h), fs) \in Nat /\ h[x] \in Nat /\ Weigh(h, ps) \in Nat
    BY <1>5, <2>1, WeighNat
  <2>4. Weigh(h, ps) >= h[x] /\ FrameOf(h)[fs[i]] = Weigh(h, ps)
    BY <1>6, <1>8
  <2> QED BY <2>2, <2>3, <2>4
<1>10. \E j \in 1 .. Len(fs[i].bufs) : x = <<fs[i].node, fs[i].bufs[j]>>
  BY <1>5, <1>8
<1> QED BY <1>9, <1>10

\* A packet of a pending frame is seen by its mark.
LEMMA FrameIn ==
  ASSUME NEW fs \in Seq(FrameType), NEW i \in 1 .. Len(fs), NEW j \in 1 .. Len(fs[i].bufs)
  PROVE  Weigh(FrameOf(One(<<fs[i].node, fs[i].bufs[j]>>)), fs) # 0
<1> DEFINE ps == PairsOf(fs[i].node, fs[i].bufs)
           x == <<fs[i].node, fs[i].bufs[j]>>
<1>1. fs[i] \in FrameType
  OBVIOUS
<1>2. fs[i].node \in Nodes /\ fs[i].bufs \in Seq(Buffers)
  BY <1>1 DEF FrameType
<1>3. ps \in Seq(Pairs) /\ Len(ps) = Len(fs[i].bufs) /\ ps[j] = x
  BY <1>2, PairsOfType
<1>4. FrameOf(One(x))[fs[i]] = Weigh(One(x), ps)
  BY <1>1 DEF FrameOf
<1> HIDE DEF ps, x
<1>5. x \in Pairs
  BY <1>3
<1>6. Weigh(One(x), ps) # 0
  BY <1>3, WeighIn
<1>7. FrameOf(One(x)) \in [FrameType -> Nat]
  BY <1>5, OneAt, FrameOfType
<1>8. Weigh(FrameOf(One(x)), fs) >= FrameOf(One(x))[fs[i]] /\ Weigh(FrameOf(One(x)), fs) \in Nat
  BY <1>7, WeighAtLeast, WeighNat
<1>9. Weigh(One(x), ps) \in Nat
  BY <1>3, <1>5, OneAt, WeighNat
<1>10. Weigh(FrameOf(One(x)), fs) # 0
  BY <1>4, <1>6, <1>8, <1>9
<1> QED BY <1>10 DEF x

\* What the mark sees in a handoff queue is in one of its frames, and counts.
LEMMA QueueHas ==
  ASSUME NEW fs \in Seq(Seq(Buffers)), NEW x \in Pairs, Weigh(QueueOf(One(x)), fs) # 0
  PROVE  /\ \E i \in 1 .. Len(fs) : \E j \in 1 .. Len(fs[i]) : x = <<HfInputNode, fs[i][j]>>
         /\ \A h \in [Pairs -> Nat] : Weigh(QueueOf(h), fs) >= h[x]
<1>1. QueueOf(One(x)) \in [Seq(Buffers) -> Nat]
  BY OneAt, QueueOfType
<1>2. PICK i \in 1 .. Len(fs) : QueueOf(One(x))[fs[i]] # 0
  <2> DEFINE T == Seq(Buffers)
  <2>1. QueueOf(One(x)) \in [T -> Nat] /\ fs \in Seq(T)
    BY <1>1
  <2> HIDE DEF T
  <2> QED BY <2>1, WeighSome, Zenon
<1> DEFINE ps == PairsOf(HfInputNode, fs[i])
<1>3. fs[i] \in Seq(Buffers)
  OBVIOUS
<1>5. ps \in Seq(Pairs) /\ Len(ps) = Len(fs[i])
      /\ \A j \in 1 .. Len(fs[i]) : ps[j] = <<HfInputNode, fs[i][j]>>
  BY <1>3, HandoffNodes, PairsOfType
<1>6. \A h : QueueOf(h)[fs[i]] = Weigh(h, ps)
  BY <1>3 DEF QueueOf
<1> HIDE DEF ps
<1>7. Weigh(One(x), ps) # 0
  BY <1>2, <1>6
<1>8. (\E j \in 1 .. Len(ps) : ps[j] = x) /\ \A h \in [Pairs -> Nat] : Weigh(h, ps) >= h[x]
  BY <1>5, <1>7, WeighHas
<1>9. ASSUME NEW h \in [Pairs -> Nat]
      PROVE  Weigh(QueueOf(h), fs) >= h[x]
  <2> DEFINE T == Seq(Buffers)
  <2>1. QueueOf(h) \in [T -> Nat] /\ fs \in Seq(T)
    BY QueueOfType
  <2> HIDE DEF T
  <2>2. Weigh(QueueOf(h), fs) >= QueueOf(h)[fs[i]]
    BY <2>1, WeighAtLeast, Zenon
  <2>3. Weigh(QueueOf(h), fs) \in Nat /\ h[x] \in Nat /\ Weigh(h, ps) \in Nat
    BY <1>5, <2>1, WeighNat
  <2>4. Weigh(h, ps) >= h[x] /\ QueueOf(h)[fs[i]] = Weigh(h, ps)
    BY <1>6, <1>8
  <2> QED BY <2>2, <2>3, <2>4
<1>10. \E j \in 1 .. Len(fs[i]) : x = <<HfInputNode, fs[i][j]>>
  BY <1>5, <1>8
<1> QED BY <1>9, <1>10

\* A packet of a handoff queue is seen by its mark.
LEMMA QueueIn ==
  ASSUME NEW fs \in Seq(Seq(Buffers)), NEW i \in 1 .. Len(fs), NEW j \in 1 .. Len(fs[i])
  PROVE  Weigh(QueueOf(One(<<HfInputNode, fs[i][j]>>)), fs) # 0
<1> DEFINE ps == PairsOf(HfInputNode, fs[i])
           x == <<HfInputNode, fs[i][j]>>
<1>1. fs[i] \in Seq(Buffers)
  OBVIOUS
<1>3. ps \in Seq(Pairs) /\ Len(ps) = Len(fs[i]) /\ ps[j] = x
  BY <1>1, HandoffNodes, PairsOfType
<1>4. QueueOf(One(x))[fs[i]] = Weigh(One(x), ps)
  BY <1>1 DEF QueueOf
<1> HIDE DEF ps, x
<1>5. x \in Pairs
  BY <1>3
<1>6. Weigh(One(x), ps) # 0
  BY <1>3, WeighIn
<1> DEFINE T == Seq(Buffers)
<1>7. QueueOf(One(x)) \in [T -> Nat] /\ fs \in Seq(T)
  BY <1>5, OneAt, QueueOfType
<1> HIDE DEF T
<1>8. Weigh(QueueOf(One(x)), fs) >= QueueOf(One(x))[fs[i]] /\ Weigh(QueueOf(One(x)), fs) \in Nat
  BY <1>7, WeighAtLeast, WeighNat
<1>9. Weigh(One(x), ps) \in Nat
  BY <1>3, <1>5, OneAt, WeighNat
<1>10. Weigh(QueueOf(One(x)), fs) # 0
  BY <1>4, <1>6, <1>8, <1>9
<1> QED BY <1>10 DEF x

\* The parts of a worker's lists and their types.
LEMMA ListsParts ==
  ASSUME NEW L \in ListsType
  PROVE  L.list \in Seq(Pairs) /\ L.to \in Seq(Pairs) /\ L.away \in Seq(Away)
         /\ L.pend \in Seq(FrameType) /\ L.fq \in Seq(Seq(Buffers))
BY DEF ListsType

\* What a worker has weighs no less than a pair it has.
LEMMA LoadHas ==
  ASSUME NEW L \in ListsType, NEW x \in Pairs, Load(One(x), L) # 0, NEW h \in [Pairs -> Nat]
  PROVE  Load(h, L) >= h[x]
<1>1. L.list \in Seq(Pairs) /\ L.to \in Seq(Pairs) /\ L.away \in Seq(Away)
      /\ L.pend \in Seq(FrameType) /\ L.fq \in Seq(Seq(Buffers))
  BY ListsParts
<1>2. One(x) \in [Pairs -> Nat] /\ h[x] \in Nat
  BY OneType
<1>3. /\ Weigh(h, L.list) \in Nat /\ Weigh(h, L.to) \in Nat /\ Weigh(AwayOf(h), L.away) \in Nat
      /\ Weigh(FrameOf(h), L.pend) \in Nat /\ Weigh(QueueOf(h), L.fq) \in Nat
  BY LoadNat
<1>4. \/ Weigh(One(x), L.list) # 0 \/ Weigh(One(x), L.to) # 0
      \/ Weigh(AwayOf(One(x)), L.away) # 0 \/ Weigh(FrameOf(One(x)), L.pend) # 0
      \/ Weigh(QueueOf(One(x)), L.fq) # 0
  BY DEF Load
<1>5. \/ Weigh(h, L.list) >= h[x] \/ Weigh(h, L.to) >= h[x] \/ Weigh(AwayOf(h), L.away) >= h[x]
      \/ Weigh(FrameOf(h), L.pend) >= h[x] \/ Weigh(QueueOf(h), L.fq) >= h[x]
  <2>1. CASE Weigh(One(x), L.list) # 0
    BY <1>1, <2>1, WeighHas
  <2>2. CASE Weigh(One(x), L.to) # 0
    BY <1>1, <2>2, WeighHas
  <2>3. CASE Weigh(AwayOf(One(x)), L.away) # 0
    BY <1>1, <2>3, AwayHas
  <2>4. CASE Weigh(FrameOf(One(x)), L.pend) # 0
    BY <1>1, <2>4, FrameHas
  <2>5. CASE Weigh(QueueOf(One(x)), L.fq) # 0
    BY <1>1, <2>5, QueueHas
  <2> QED BY <1>4, <2>1, <2>2, <2>3, <2>4, <2>5
<1> QED BY <1>2, <1>3, <1>5 DEF Load

\* A weight depends on the pairs a worker has only.
LEMMA LoadSame ==
  ASSUME NEW L \in ListsType, NEW h \in [Pairs -> Nat], NEW g \in [Pairs -> Nat],
         \A x \in Pairs : Load(One(x), L) # 0 => g[x] = h[x]
  PROVE  Load(g, L) = Load(h, L)
<1>1. L.list \in Seq(Pairs) /\ L.to \in Seq(Pairs) /\ L.away \in Seq(Away)
      /\ L.pend \in Seq(FrameType) /\ L.fq \in Seq(Seq(Buffers))
  BY ListsParts
<1>2. ASSUME NEW x \in Pairs,
             \/ Weigh(One(x), L.list) # 0 \/ Weigh(One(x), L.to) # 0
             \/ Weigh(AwayOf(One(x)), L.away) # 0 \/ Weigh(FrameOf(One(x)), L.pend) # 0
             \/ Weigh(QueueOf(One(x)), L.fq) # 0
      PROVE  g[x] = h[x]
  <2>1. One(x) \in [Pairs -> Nat]
    BY OneType
  <2>2. /\ Weigh(One(x), L.list) \in Nat /\ Weigh(One(x), L.to) \in Nat
        /\ Weigh(AwayOf(One(x)), L.away) \in Nat
        /\ Weigh(FrameOf(One(x)), L.pend) \in Nat /\ Weigh(QueueOf(One(x)), L.fq) \in Nat
    BY <2>1, LoadNat
  <2>3. Load(One(x), L) # 0
    BY <1>2, <2>2 DEF Load
  <2> QED BY <2>3
<1>3. ASSUME NEW ps \in Seq(Pairs), ps = L.list \/ ps = L.to
      PROVE  Weigh(g, ps) = Weigh(h, ps)
  <2>1. ASSUME NEW i \in 1 .. Len(ps)
        PROVE  g[ps[i]] = h[ps[i]]
    <3>1. Weigh(One(ps[i]), ps) # 0 /\ ps[i] \in Pairs
      BY WeighIn
    <3> QED BY <1>2, <1>3, <3>1
  <2> QED BY <2>1, WeighSame
<1>4. Weigh(AwayOf(g), L.away) = Weigh(AwayOf(h), L.away)
  <2>1. ASSUME NEW i \in 1 .. Len(L.away)
        PROVE  AwayOf(g)[L.away[i]] = AwayOf(h)[L.away[i]]
    <3>1. L.away[i] \in Away
      BY <1>1
    <3>2. Weigh(AwayOf(One(<<HandoffNode, L.away[i][2]>>)), L.away) # 0
      BY <1>1, AwayIn
    <3>3. <<HandoffNode, L.away[i][2]>> \in Pairs
      BY <3>1, HandoffNodes DEF Away, Pairs
    <3>4. g[<<HandoffNode, L.away[i][2]>>] = h[<<HandoffNode, L.away[i][2]>>]
      BY <1>2, <3>2, <3>3
    <3> QED BY <3>1, <3>4 DEF AwayOf
  <2>2. AwayOf(g) \in [Away -> Nat] /\ AwayOf(h) \in [Away -> Nat]
    BY AwayOfType
  <2> QED BY <1>1, <2>1, <2>2, WeighSame, Zenon
<1>5. Weigh(FrameOf(g), L.pend) = Weigh(FrameOf(h), L.pend)
  <2> DEFINE fs == L.pend
  <2>1. ASSUME NEW i \in 1 .. Len(fs)
        PROVE  FrameOf(g)[fs[i]] = FrameOf(h)[fs[i]]
    <3> DEFINE ps == PairsOf(fs[i].node, fs[i].bufs)
    <3>1. fs[i] \in FrameType
      BY <1>1
    <3>2. fs[i].node \in Nodes /\ fs[i].bufs \in Seq(Buffers)
      BY <3>1 DEF FrameType
    <3>3. ps \in Seq(Pairs) /\ Len(ps) = Len(fs[i].bufs)
          /\ \A j \in 1 .. Len(fs[i].bufs) : ps[j] = <<fs[i].node, fs[i].bufs[j]>>
      BY <3>2, PairsOfType, Zenon
    <3>4. ASSUME NEW j \in 1 .. Len(ps)
          PROVE  g[ps[j]] = h[ps[j]]
      <4>1. ps[j] = <<fs[i].node, fs[i].bufs[j]>> /\ ps[j] \in Pairs /\ j \in 1 .. Len(fs[i].bufs)
        BY <3>3
      <4>2. Weigh(FrameOf(One(<<fs[i].node, fs[i].bufs[j]>>)), fs) # 0
        BY <1>1, <4>1, FrameIn, Zenon
      <4> HIDE DEF ps
      <4> QED BY <1>2, <4>1, <4>2
    <3>5. FrameOf(g)[fs[i]] = Weigh(g, ps) /\ FrameOf(h)[fs[i]] = Weigh(h, ps)
      BY <3>1 DEF FrameOf
    <3> HIDE DEF ps
    <3>6. Weigh(g, ps) = Weigh(h, ps)
      BY <3>3, <3>4, WeighSame
    <3> QED BY <3>5, <3>6
  <2>2. FrameOf(g) \in [FrameType -> Nat] /\ FrameOf(h) \in [FrameType -> Nat]
    BY FrameOfType
  <2> QED BY <1>1, <2>1, <2>2, WeighSame, Zenon
<1>6. Weigh(QueueOf(g), L.fq) = Weigh(QueueOf(h), L.fq)
  <2> DEFINE fs == L.fq
  <2>1. ASSUME NEW i \in 1 .. Len(fs)
        PROVE  QueueOf(g)[fs[i]] = QueueOf(h)[fs[i]]
    <3> DEFINE ps == PairsOf(HfInputNode, fs[i])
    <3>1. fs[i] \in Seq(Buffers)
      BY <1>1
    <3>3. ps \in Seq(Pairs) /\ Len(ps) = Len(fs[i])
          /\ \A j \in 1 .. Len(fs[i]) : ps[j] = <<HfInputNode, fs[i][j]>>
      BY <3>1, HandoffNodes, PairsOfType, Zenon
    <3>4. ASSUME NEW j \in 1 .. Len(ps)
          PROVE  g[ps[j]] = h[ps[j]]
      <4>1. ps[j] = <<HfInputNode, fs[i][j]>> /\ ps[j] \in Pairs /\ j \in 1 .. Len(fs[i])
        BY <3>3
      <4>2. Weigh(QueueOf(One(<<HfInputNode, fs[i][j]>>)), fs) # 0
        BY <1>1, <4>1, QueueIn, Zenon
      <4> HIDE DEF ps
      <4> QED BY <1>2, <4>1, <4>2
    <3>5. QueueOf(g)[fs[i]] = Weigh(g, ps) /\ QueueOf(h)[fs[i]] = Weigh(h, ps)
      BY <3>1 DEF QueueOf
    <3> HIDE DEF ps
    <3>6. Weigh(g, ps) = Weigh(h, ps)
      BY <3>3, <3>4, WeighSame
    <3> QED BY <3>5, <3>6
  <2> DEFINE T == Seq(Buffers)
  <2>2. QueueOf(g) \in [T -> Nat] /\ QueueOf(h) \in [T -> Nat] /\ fs \in Seq(T)
    BY <1>1, QueueOfType, Zenon
  <2> HIDE DEF T
  <2> QED BY <2>1, <2>2, WeighSame, Zenon
<1>7. Weigh(g, L.list) = Weigh(h, L.list) /\ Weigh(g, L.to) = Weigh(h, L.to)
  BY <1>1, <1>3
<1> QED BY <1>4, <1>5, <1>6, <1>7, Zenon DEF Load

-----------------------------------------------------------------------------
(* The inductive invariant speaks of what the workers see: V is the state,  *)
(* or the state between two packets of a step.                              *)

Now == [wd |-> wd, pool |-> mempool, fl |-> freelist, bp |-> blkpool, cur |-> cur, lost |-> lost,
        spoilt |-> spoilt, mbuf |-> mbuf, pend |-> pend, fq |-> fq]

\* the buffers of a packet at a node, as WithSubs, and the block, as BlockOf
Own(V, x) ==
  IF x[1] = RxNode THEN Bufs(V.mbuf[x[2]].segs)
  ELSE IF V.wd[x[2]].huge /\ (x[1] \in Before \/ x[1] \in TxNodes)
       THEN Bufs(V.wd[x[2]].subs) ELSE <<x[2]>>
Holds(V, e) == [x \in Pairs |-> Times(e, Own(V, x))]
Gathered == {N("graph"), N("sf_pkt_output"), HugeOutNode, DropNode}
Fills(V, k) == [x \in Pairs |-> IF x[1] \in Gathered /\ V.wd[x[2]].huge /\ V.wd[x[2]].blk = k
                                THEN 1 ELSE 0]

\* what node x[1] of worker w may rely on of the packet x[2]
Fit(V, w, x) ==
  LET n == x[1]
      b == x[2]
  IN /\ V.mbuf[b] \in MbufType
     /\ n = RxNode => V.mbuf[b].segs # <<>> /\ V.mbuf[b].segs[1].buf = b
     /\ V.wd[b].huge /\ (n \in Before \/ n \in TxNodes)
          => V.wd[b].subs # <<>> /\ V.wd[b].subs[1].buf = b
     /\ n \in {HugeInputNode, HugeOutNode} => V.wd[b].huge
     /\ n = HugeOutNode => V.wd[b].out \in Intf
     /\ n = HandoffNode => ~V.wd[b].handed
     /\ n = HfInputNode \/ (n \notin {RxNode, HandoffNode} /\ V.wd[b].handed)
          => sf_pkt_get_worker_index(V.mbuf[b].pkt) = w

\* what worker w has; the drop node frees the blocks as it goes
Lists(V, w) ==
  LET c == V.cur[w]
  IN [list |-> PairsOf(c.node, Listed(c)), to |-> c.to, away |-> c.away,
      pend |-> V.pend[w], fq |-> V.fq[w]]
LeftLists(V, w) ==
  IF V.cur[w].node = DropNode
  THEN [list |-> PairsOf(DropNode, V.cur[w].left), to |-> V.cur[w].to, away |-> V.cur[w].away,
        pend |-> V.pend[w], fq |-> V.fq[w]]
  ELSE Lists(V, w)

Ind(p) == IF p THEN 1 ELSE 0
Refs(V, e, w) ==
  Load(Holds(V, e), Lists(V, w)) + Times(e, V.cur[w].drops) + Ind(e \in V.fl[w])

ViewType(V) ==
  /\ V.wd \in [Buffers -> WdType] /\ V.pool \in [Buffers -> Nat]
  /\ V.fl \in [Workers -> SUBSET Buffers] /\ V.bp \in [Workers -> [Block -> Nat]]
  /\ V.cur \in [Workers -> RunType] /\ V.lost \subseteq Buffers
  /\ \A b \in Buffers : V.mbuf[b].segs \in Seq(SegType)
  /\ V.pend \in [Workers -> Seq(FrameType)] /\ V.fq \in [Workers -> Seq(Seq(Buffers))]

BufferBalance(V) ==
  \A e \in Buffers :
    V.pool[e] + SumTo([w \in Workers |-> Refs(V, e, w)], Cardinality(Workers))
    + Ind(e \in V.lost) = 1
BlocksAt(V, w) ==
  \A k \in Block :
    <<w, k>> \notin V.spoilt => V.bp[w][k] + Load(Fills(V, k), LeftLists(V, w)) = 1
BlockBalance(V) == \A w \in Workers : BlocksAt(V, w)

\* every packet that is under way at a worker is fit for its node
AllFit(V) ==
  \A w \in Workers : \A x \in Pairs : Load(One(x), Lists(V, w)) # 0 => Fit(V, w, x)

\* what holds of the arrays of a node
RunOf(V, w, c) ==
  LET done == Len(c.frame) - Len(c.left)
  IN /\ c.node = Idle => c = NoRun
     /\ c.drops # <<>> => c.node = HugeInputNode
     /\ \A i \in 1 .. Len(c.away) :
          /\ c.away[i][1] # w
          /\ sf_pkt_get_worker_index(V.mbuf[c.away[i][2]].pkt) = c.away[i][1]
     /\ c.node = DropNode \/ c.node \in TxNodes =>
          done >= 0 /\ \A i \in 1 .. Len(c.left) : c.left[i] = c.frame[done + i]
     /\ c.node \in TxNodes =>
          \A i \in 1 .. done : Bufs(V.mbuf[c.frame[i]].segs) = Own(V, <<c.node, c.frame[i]>>)
RunInv(V, w) == RunOf(V, w, V.cur[w])

Sound(V) ==
  /\ ViewType(V) /\ BufferBalance(V) /\ BlockBalance(V) /\ AllFit(V)
  /\ \A w \in Workers : RunInv(V, w)

\* a tx queue is locked by the worker that uses it
LockInv ==
  \A w \in Workers : cur[w].queue # 0 =>
    \E i \in Intf : cur[w].node = Tx(i) /\ lock[i][cur[w].queue] = w

\* what was handed over came to the worker that its addresses hash to
SeenInv ==
  \A x \in seen : \E p \in Packet :
    /\ ~p.tag /\ x = <<Range(p.flow), p.proto, sf_pkt_get_worker_index(p)>>

Types ==
  /\ rxq \in [Workers -> Seq(Seq(Packet))] /\ handoff \in [Intf -> BOOLEAN]
  /\ lock \in [Intf -> [1..TxQueues -> Workers \cup {0}]]
  /\ phase = [w \in Workers |-> phase[w]] /\ mbuf = [b \in Buffers |-> mbuf[b]]

\* a worker receives when it has nothing else to do
InputInv == \A w \in Workers : phase[w] = "input" => cur[w] = NoRun

IInv == Types /\ InputInv /\ Sound(Now) /\ LockInv /\ SeenInv

-----------------------------------------------------------------------------
(* What the view says of the buffers of a packet *)

\* Buffers are numbers.
LEMMA BuffersNat == \A s \in Seq(Buffers) : s \in Seq(Nat)
<1> SUFFICES ASSUME NEW s \in Seq(Buffers)
             PROVE  s \in Seq(Nat)
  OBVIOUS
<1>1. Buffers \subseteq Nat
  BY PacketAssumption
<1>2. Len(s) \in Nat /\ s = [i \in 1 .. Len(s) |-> s[i]] /\ \A i \in 1 .. Len(s) : s[i] \in Buffers
  OBVIOUS
<1>3. \A i \in 1 .. Len(s) : s[i] \in Nat
  BY <1>1, <1>2
<1> DEFINE n == Len(s)
<1>4. n \in Nat /\ s = [i \in 1 .. n |-> s[i]] /\ \A i \in 1 .. n : s[i] \in Nat
  BY <1>2, <1>3
<1> HIDE DEF n
<1> QED BY <1>4, SeqFrom

\* The buffers of a chain of segments.
LEMMA BufsType ==
  ASSUME NEW segs \in Seq(SegType)
  PROVE  Bufs(segs) \in Seq(Buffers) /\ Len(Bufs(segs)) = Len(segs)
         /\ \A i \in 1 .. Len(segs) : Bufs(segs)[i] = segs[i].buf /\ segs[i].buf \in Buffers
<1>1. Len(segs) \in Nat /\ \A i \in 1 .. Len(segs) : segs[i].buf \in Buffers
  <2>1. \A i \in 1 .. Len(segs) : segs[i] \in SegType
    OBVIOUS
  <2> QED BY <2>1 DEF SegType
<1>2. Bufs(segs) = [i \in 1 .. Len(segs) |-> Bufs(segs)[i]]
      /\ \A i \in 1 .. Len(segs) : Bufs(segs)[i] = segs[i].buf
  BY DEF Bufs
<1>3. \A i \in 1 .. Len(segs) : Bufs(segs)[i] \in Buffers
  BY <1>1, <1>2
<1>4. Bufs(segs) \in Seq(Buffers) /\ Len(Bufs(segs)) = Len(segs)
  BY <1>1, <1>2, <1>3, SeqFrom
<1> QED BY <1>1, <1>2, <1>4

\* What a packet holds at its place is a sequence of buffers.
LEMMA OwnType ==
  ASSUME NEW V, ViewType(V), NEW x \in Pairs
  PROVE  Own(V, x) \in Seq(Buffers)
<1>1. x[2] \in Buffers
  BY DEF Pairs
<1>2. V.mbuf[x[2]].segs \in Seq(SegType)
  BY <1>1 DEF ViewType
<1>3. V.wd[x[2]].subs \in Seq(SegType)
  <2>1. V.wd[x[2]] \in WdType
    BY <1>1 DEF ViewType
  <2> QED BY <2>1 DEF WdType
<1>4. <<x[2]>> \in Seq(Buffers)
  BY <1>1
<1>5. Bufs(V.mbuf[x[2]].segs) \in Seq(Buffers) /\ Bufs(V.wd[x[2]].subs) \in Seq(Buffers)
  BY <1>2, <1>3, BufsType
<1> QED BY <1>4, <1>5, Zenon DEF Own

\* How often each packet holds a buffer.
LEMMA HoldsType ==
  ASSUME NEW V, ViewType(V), NEW e
  PROVE  Holds(V, e) \in [Pairs -> Nat] /\ \A x \in Pairs : Holds(V, e)[x] = Times(e, Own(V, x))
<1>1. ASSUME NEW x \in Pairs
      PROVE  Times(e, Own(V, x)) \in Nat
  <2>1. Own(V, x) \in Seq(Nat)
    BY OwnType, BuffersNat
  <2> QED BY <2>1, TimesNat
<1> QED BY <1>1 DEF Holds

\* Which packets fill a block.
LEMMA FillsType ==
  ASSUME NEW V, NEW k
  PROVE  Fills(V, k) \in [Pairs -> Nat]
BY DEF Fills

\* the first buffer of a packet is one of its buffers
LEMMA OwnHead ==
  ASSUME NEW V, ViewType(V), NEW w, NEW x \in Pairs, Fit(V, w, x)
  PROVE  Holds(V, x[2])[x] >= 1
<1> DEFINE b == x[2]
           s == Own(V, x)
<1>1. s \in Seq(Buffers) /\ s \in Seq(Nat)
  BY OwnType, BuffersNat
<1>2. b \in Buffers
  BY DEF Pairs
<1>3. \E i \in DOMAIN s : s[i] = b
  <2>1. CASE x[1] = RxNode
    <3> DEFINE segs == V.mbuf[b].segs
    <3>1. segs \in Seq(SegType) /\ segs # <<>> /\ segs[1].buf = b
      BY <1>2, <2>1 DEF ViewType, Fit
    <3>2. s = Bufs(segs)
      BY <2>1 DEF Own
    <3> HIDE DEF segs, s
    <3>3. 1 \in 1 .. Len(segs)
      BY <3>1
    <3>4. s[1] = b /\ Len(s) = Len(segs)
      BY <3>1, <3>2, <3>3, BufsType
    <3> QED BY <1>1, <3>3, <3>4
  <2>2. CASE x[1] # RxNode /\ V.wd[b].huge /\ (x[1] \in Before \/ x[1] \in TxNodes)
    <3> DEFINE segs == V.wd[b].subs
    <3>0. V.wd[b] \in WdType
      BY <1>2 DEF ViewType
    <3>1. segs \in Seq(SegType) /\ segs # <<>> /\ segs[1].buf = b
      BY <2>2, <3>0, Zenon DEF WdType, Fit
    <3>2. s = Bufs(segs)
      BY <2>2 DEF Own
    <3> HIDE DEF segs, s
    <3>3. 1 \in 1 .. Len(segs)
      BY <3>1
    <3>4. s[1] = b /\ Len(s) = Len(segs)
      BY <3>1, <3>2, <3>3, BufsType
    <3> QED BY <1>1, <3>3, <3>4
  <2>3. CASE x[1] # RxNode /\ ~(V.wd[b].huge /\ (x[1] \in Before \/ x[1] \in TxNodes))
    <3>1. s = <<b>>
      BY <2>3 DEF Own
    <3> HIDE DEF s
    <3> QED BY <3>1
  <2> QED BY <2>1, <2>2, <2>3
<1>4. PICK i \in DOMAIN s : s[i] = b
  BY <1>3
<1>5. Times(b, s) >= 1
  <2> HIDE DEF s
  <2>1. Times(s[i], s) >= 1
    BY <1>1, TimesSome
  <2> QED BY <1>4, <2>1
<1> QED BY <1>5, HoldsType

\* The fields of a run of a node, and their types.
LEMMA RunTypes ==
  ASSUME NEW c \in RunType
  PROVE  /\ c.node \in Nodes \cup {Idle} /\ c.frame \in Seq(Buffers) /\ c.left \in Seq(Buffers)
         /\ c.to \in Seq(Pairs) /\ c.away \in Seq(Away) /\ c.drops \in Seq(Buffers)
         /\ c = [node |-> c.node, frame |-> c.frame, left |-> c.left, to |-> c.to,
                 away |-> c.away, drops |-> c.drops, queue |-> c.queue, hand |-> c.hand]
         /\ c.queue \in 0 .. TxQueues /\ c.hand \in BOOLEAN
BY DEF RunType, Pairs, Away

\* A worker between two nodes has no frame and no packets.
LEMMA NoRunIs ==
  /\ NoRun.node = Idle /\ NoRun.frame = <<>> /\ NoRun.left = <<>> /\ NoRun.to = <<>>
  /\ NoRun.away = <<>> /\ NoRun.drops = <<>> /\ NoRun.queue = 0 /\ NoRun.hand = FALSE
BY DEF NoRun

\* An empty frame has no packets.
LEMMA PairsOfEmpty == \A n : PairsOf(n, <<>>) = <<>>
BY DEF PairsOf

\* The lists of a worker are typed, and so are the gathered ones among them.
LEMMA ListsTypes ==
  ASSUME NEW V, ViewType(V), NEW w \in Workers, RunInv(V, w)
  PROVE  Lists(V, w) \in ListsType /\ LeftLists(V, w) \in ListsType
<1> DEFINE c == V.cur[w]
<1>1. c \in RunType /\ V.pend[w] \in Seq(FrameType) /\ V.fq[w] \in Seq(Seq(Buffers))
  BY DEF ViewType
<1>2. c.node \in Nodes \cup {Idle} /\ c.frame \in Seq(Buffers) /\ c.left \in Seq(Buffers)
         /\ c.to \in Seq(Pairs) /\ c.away \in Seq(Away)
  BY <1>1, RunTypes, Zenon
<1>3. c.node = Idle => c = NoRun
  BY DEF RunInv, RunOf
<1> HIDE DEF c
<1>4. Listed(c) \in Seq(Buffers)
  BY <1>2 DEF Listed
<1>5. PairsOf(c.node, Listed(c)) \in Seq(Pairs)
  <2>1. CASE c.node \in Nodes
    BY <1>4, <2>1, PairsOfType
  <2>2. CASE c.node = Idle
    <3>1. Listed(c) = <<>>
      BY <1>3, <2>2, NoRunIs DEF Listed
    <3>2. PairsOf(c.node, Listed(c)) = <<>>
      BY <3>1, PairsOfEmpty, Zenon
    <3> QED BY <3>2
  <2> QED BY <1>2, <2>1, <2>2
<1>6. PairsOf(DropNode, c.left) \in Seq(Pairs)
  <2>1. DropNode \in Nodes
    BY DEF Nodes
  <2> QED BY <1>2, <2>1, PairsOfType
<1> QED BY <1>1, <1>2, <1>5, <1>6 DEF Lists, LeftLists, ListsType, c

-----------------------------------------------------------------------------
(* A step of one worker, as a change of what it has *)

OthersSame(V, V2, w) ==
  \A v \in Workers : v # w =>
    /\ V2.cur[v] = V.cur[v] /\ V2.pend[v] = V.pend[v] /\ V2.fq[v] = V.fq[v]
    /\ V2.fl[v] = V.fl[v] /\ V2.bp[v] = V.bp[v]
\* from V to V2 worker w gives away gone, gets come and keeps R
Moves(V, V2, w, R, gone, come) ==
  /\ R \in ListsType /\ gone \in Seq(Pairs) /\ come \in Seq(Pairs)
  /\ \A h \in [Pairs -> Nat] : /\ Load(h, Lists(V, w)) = Load(h, R) + Weigh(h, gone)
                                /\ Load(h, Lists(V2, w)) = Load(h, R) + Weigh(h, come)
\* the balance of every buffer stays
BuffersMove(V, V2, w, gone, come) ==
  \A e \in Buffers :
    V2.pool[e] + Ind(e \in V2.fl[w]) + Times(e, V2.cur[w].drops) + Ind(e \in V2.lost)
      + Weigh(Holds(V2, e), come)
    = V.pool[e] + Ind(e \in V.fl[w]) + Times(e, V.cur[w].drops) + Ind(e \in V.lost)
      + Weigh(Holds(V, e), gone)
\* and of every block of w that is not spoilt
BlocksMove(V, V2, w, gone, come) ==
  \A k \in Block : <<w, k>> \notin V2.spoilt =>
    V2.bp[w][k] + Weigh(Fills(V2, k), come) = V.bp[w][k] + Weigh(Fills(V, k), gone)
\* what is written to a buffer, is written by the worker that has it
Owned(V, V2, w, gone) ==
  \A e \in Buffers : V2.wd[e] # V.wd[e] \/ V2.mbuf[e] # V.mbuf[e] =>
    V.pool[e] + Weigh(Holds(V, e), gone) >= 1

\* the sum over the workers, with what one or two of them contribute
LEMMA RefsNat ==
  ASSUME NEW V, ViewType(V), NEW w \in Workers, RunInv(V, w), NEW e \in Buffers
  PROVE  /\ Refs(V, e, w) \in Nat
         /\ Load(Holds(V, e), Lists(V, w)) \in Nat /\ Times(e, V.cur[w].drops) \in Nat
         /\ Ind(e \in V.fl[w]) \in {0, 1}
<1>1. Lists(V, w) \in ListsType
  BY ListsTypes
<1>2. Holds(V, e) \in [Pairs -> Nat]
  BY HoldsType
<1>3. Load(Holds(V, e), Lists(V, w)) \in Nat
  BY <1>1, <1>2, LoadNat
<1>4. V.cur[w].drops \in Seq(Nat)
  <2>1. V.cur[w] \in RunType
    BY DEF ViewType
  <2> QED BY <2>1, RunTypes, BuffersNat
<1>5. Times(e, V.cur[w].drops) \in Nat
  BY <1>4, TimesNat
<1>6. Ind(e \in V.fl[w]) \in {0, 1}
  BY DEF Ind
<1> QED BY <1>3, <1>5, <1>6 DEF Refs

\* The workers are 1 .. n.
LEMMA WorkersAre ==
  /\ Cardinality(Workers) \in Nat /\ Workers = 1 .. Cardinality(Workers)
  /\ \A w \in Workers : w \in Nat /\ w # 0
<1>1. Cardinality(Workers) \in Nat
  BY PacketAssumption, FS_CardinalityType
<1>2. Workers = 1 .. Cardinality(Workers)
  BY PacketAssumption
<1>3. \A w \in 1 .. Cardinality(Workers) : w \in Nat /\ w # 0
  BY <1>1
<1> QED BY <1>1, <1>2, <1>3

\* A sum of naturals is at least each of its terms.
LEMMA SumAtLeast ==
  ASSUME NEW n \in Nat, NEW f, \A k \in 1 .. n : f[k] \in Nat, NEW j \in 1 .. n
  PROVE  SumTo(f, n) >= f[j] /\ SumTo(f, n) \in Nat
<1> DEFINE e == [i \in 1 .. n |-> IF i = j THEN 0 ELSE f[i]]
<1>1. \A i \in 1 .. n : e[i] \in Nat /\ (i # j => e[i] = f[i])
  OBVIOUS
<1>2. e[j] = 0
  OBVIOUS
<1> HIDE DEF e
<1>3. \A i \in 1 .. n : f[i] \in Int /\ e[i] \in Int
  BY <1>1
<1>4. \A i \in 1 .. n : i # j => e[i] = f[i]
  BY <1>1
<1>5. SumTo(e, n) = SumTo(f, n) + (e[j] - f[j])
  BY <1>3, <1>4, SumPoint
<1>6. SumTo(e, n) \in Nat /\ SumTo(f, n) \in Nat
  BY <1>1, SumNat
<1> QED BY <1>2, <1>5, <1>6

\* And at least any two of them.
LEMMA SumAtLeastTwo ==
  ASSUME NEW n \in Nat, NEW f, \A k \in 1 .. n : f[k] \in Nat, NEW i \in 1 .. n, NEW j \in 1 .. n,
         i # j
  PROVE  SumTo(f, n) >= f[i] + f[j]
<1> DEFINE e == [k \in 1 .. n |-> IF k = j THEN 0 ELSE f[k]]
<1>1. \A k \in 1 .. n : e[k] \in Nat /\ (k # j => e[k] = f[k])
  OBVIOUS
<1>2. e[j] = 0 /\ e[i] = f[i]
  OBVIOUS
<1> HIDE DEF e
<1>3. \A k \in 1 .. n : f[k] \in Int /\ e[k] \in Int
  BY <1>1
<1>4. \A k \in 1 .. n : k # j => e[k] = f[k]
  BY <1>1
<1>5. SumTo(e, n) = SumTo(f, n) + (e[j] - f[j])
  BY <1>3, <1>4, SumPoint
<1>6. \A k \in 1 .. n : e[k] \in Nat
  BY <1>1
<1>7. SumTo(e, n) >= e[i] /\ SumTo(e, n) \in Nat
  BY <1>6, SumAtLeast
<1>8. SumTo(f, n) \in Nat
  BY SumNat
<1> QED BY <1>2, <1>5, <1>7, <1>8

\* the balance of one buffer, at one worker and at two
LEMMA BalanceAt ==
  ASSUME NEW V, Sound(V), NEW e \in Buffers, NEW w \in Workers
  PROVE  /\ V.pool[e] + Refs(V, e, w) + Ind(e \in V.lost) <= 1
         /\ V.pool[e] \in Nat /\ Refs(V, e, w) \in Nat /\ Ind(e \in V.lost) \in {0, 1}
         /\ \A v \in Workers : v # w =>
              /\ Refs(V, e, v) \in Nat
              /\ V.pool[e] + Refs(V, e, w) + Refs(V, e, v) + Ind(e \in V.lost) <= 1
<1> DEFINE f == [v \in Workers |-> Refs(V, e, v)]
           n == Cardinality(Workers)
<1>1. \A v \in Workers : f[v] \in Nat /\ f[v] = Refs(V, e, v)
  BY RefsNat DEF Sound
<1>2. V.pool[e] + SumTo(f, n) + Ind(e \in V.lost) = 1 /\ V.pool[e] \in Nat
      /\ Ind(e \in V.lost) \in {0, 1}
  BY DEF Sound, BufferBalance, ViewType, Ind
<1>3. n \in Nat /\ Workers = 1 .. n
  BY WorkersAre
<1> HIDE DEF f, n
<1>4. SumTo(f, n) >= f[w] /\ SumTo(f, n) \in Nat
  BY <1>1, <1>3, SumAtLeast
<1>5. ASSUME NEW v \in Workers, v # w
      PROVE  SumTo(f, n) >= f[w] + f[v]
  BY <1>1, <1>3, <1>5, SumAtLeastTwo
<1> QED BY <1>1, <1>2, <1>4, <1>5

\* A packet that a step of w neither takes nor adds is left as it was, by every
\* worker.
LEMMA Kept ==
  ASSUME NEW V, NEW V2, NEW w \in Workers, NEW R, NEW gone, NEW come, Sound(V),
         Moves(V, V2, w, R, gone, come), Owned(V, V2, w, gone), NEW x \in Pairs,
         \/ Load(One(x), R) # 0
         \/ \E v \in Workers : v # w /\ Load(One(x), Lists(V, v)) # 0
  PROVE  /\ V2.wd[x[2]] = V.wd[x[2]] /\ V2.mbuf[x[2]] = V.mbuf[x[2]]
         /\ \E v \in Workers : Load(One(x), Lists(V, v)) # 0 /\ Fit(V, v, x)
<1> DEFINE e == x[2]
           h == Holds(V, e)
<1>0. ViewType(V) /\ e \in Buffers /\ \A v \in Workers : RunInv(V, v) /\ Lists(V, v) \in ListsType
  BY ListsTypes DEF Sound, Pairs
<1>1. h \in [Pairs -> Nat] /\ One(x) \in [Pairs -> Nat]
  BY <1>0, HoldsType, OneType
<1>2. R \in ListsType /\ gone \in Seq(Pairs)
  BY DEF Moves
<1>3. Load(h, Lists(V, w)) = Load(h, R) + Weigh(h, gone)
      /\ Load(One(x), Lists(V, w)) = Load(One(x), R) + Weigh(One(x), gone)
  BY <1>1 DEF Moves
<1>4. Load(h, R) \in Nat /\ Weigh(h, gone) \in Nat
      /\ Load(One(x), R) \in Nat /\ Weigh(One(x), gone) \in Nat
  BY <1>1, <1>2, LoadNat, WeighNat
<1>5. \A v \in Workers : Load(One(x), Lists(V, v)) # 0 => Fit(V, v, x) /\ h[x] >= 1
  <2> TAKE v \in Workers
  <2> HAVE Load(One(x), Lists(V, v)) # 0
  <2>1. Fit(V, v, x)
    BY DEF Sound, AllFit
  <2> QED BY <1>0, <2>1, OwnHead
<1>6. V.pool[e] + Refs(V, e, w) + Ind(e \in V.lost) <= 1
      /\ V.pool[e] \in Nat /\ Refs(V, e, w) \in Nat /\ Ind(e \in V.lost) \in {0, 1}
  BY <1>0, BalanceAt
<1>7. Refs(V, e, w) >= Load(h, Lists(V, w))
  <2>1. Load(h, Lists(V, w)) \in Nat /\ Times(e, V.cur[w].drops) \in Nat /\ Ind(e \in V.fl[w]) \in {0, 1}
    BY <1>0, RefsNat
  <2> QED BY <2>1 DEF Refs
<1>8. V.pool[e] + Weigh(h, gone) < 1
      /\ \E v \in Workers : Load(One(x), Lists(V, v)) # 0 /\ Fit(V, v, x)
  <2>1. CASE Load(One(x), R) # 0
    <3>1. Load(h, R) >= h[x] /\ h[x] \in Nat
      BY <1>1, <1>2, <2>1, LoadHas
    <3>2. Load(One(x), Lists(V, w)) # 0
      BY <1>3, <1>4, <2>1
    <3>3. h[x] >= 1 /\ Fit(V, w, x)
      BY <1>5, <3>2
    <3> HIDE DEF h, e
    <3>4. V.pool[e] + Weigh(h, gone) < 1
      BY <1>3, <1>4, <1>6, <1>7, <3>1, <3>3
    <3> QED BY <3>2, <3>3, <3>4
  <2>2. CASE \E v \in Workers : v # w /\ Load(One(x), Lists(V, v)) # 0
    <3>1. PICK v \in Workers : v # w /\ Load(One(x), Lists(V, v)) # 0
      BY <2>2
    <3>2. h[x] >= 1 /\ Fit(V, v, x) /\ h[x] \in Nat
      BY <1>1, <1>5, <3>1
    <3>3. Load(h, Lists(V, v)) >= h[x]
      BY <1>0, <1>1, <3>1, LoadHas
    <3>4. Refs(V, e, v) >= Load(h, Lists(V, v)) /\ Load(h, Lists(V, v)) \in Nat
      <4>1. Load(h, Lists(V, v)) \in Nat /\ Times(e, V.cur[v].drops) \in Nat /\ Ind(e \in V.fl[v]) \in {0, 1}
        BY <1>0, RefsNat
      <4> QED BY <4>1 DEF Refs
    <3>5. V.pool[e] + Refs(V, e, w) + Refs(V, e, v) + Ind(e \in V.lost) <= 1 /\ Refs(V, e, v) \in Nat
      BY <1>0, <3>1, BalanceAt
    <3> HIDE DEF h, e
    <3>6. V.pool[e] + Weigh(h, gone) < 1
      BY <1>3, <1>4, <1>6, <1>7, <3>2, <3>3, <3>4, <3>5
    <3> QED BY <3>1, <3>2, <3>6
  <2> QED BY <2>1, <2>2
<1>9. V2.wd[e] = V.wd[e] /\ V2.mbuf[e] = V.mbuf[e]
  <2>1. V.pool[e] + Weigh(h, gone) \in Nat
    BY <1>4, <1>6
  <2>2. ~(V.pool[e] + Weigh(h, gone) >= 1)
    BY <1>8, <2>1
  <2> QED BY <1>0, <2>2 DEF Owned
<1> QED BY <1>8, <1>9

\* the same, of all packets
KeptAt(V, V2, w, R, x) ==
  Load(One(x), R) # 0 \/ (\E v \in Workers : v # w /\ Load(One(x), Lists(V, v)) # 0) =>
    /\ V2.wd[x[2]] = V.wd[x[2]] /\ V2.mbuf[x[2]] = V.mbuf[x[2]]
    /\ \E v \in Workers : Load(One(x), Lists(V, v)) # 0 /\ Fit(V, v, x)

\* Which is so for all packets.
LEMMA KeptAll ==
  ASSUME NEW V, NEW V2, NEW w \in Workers, NEW R, NEW gone, NEW come, Sound(V),
         Moves(V, V2, w, R, gone, come), Owned(V, V2, w, gone)
  PROVE  \A x \in Pairs : KeptAt(V, V2, w, R, x)
<1> SUFFICES ASSUME NEW x \in Pairs,
                    Load(One(x), R) # 0 \/ \E v \in Workers : v # w /\ Load(One(x), Lists(V, v)) # 0
             PROVE  /\ V2.wd[x[2]] = V.wd[x[2]] /\ V2.mbuf[x[2]] = V.mbuf[x[2]]
                    /\ \E v \in Workers : Load(One(x), Lists(V, v)) # 0 /\ Fit(V, v, x)
  BY DEF KeptAt
<1> QED BY Kept

\* what is kept weighs what it weighed
LEMMA KeptWeighs ==
  ASSUME NEW V, NEW V2, ViewType(V), ViewType(V2), NEW L \in ListsType,
         \A x \in Pairs : Load(One(x), L) # 0 =>
           V2.wd[x[2]] = V.wd[x[2]] /\ V2.mbuf[x[2]] = V.mbuf[x[2]]
  PROVE  /\ \A e \in Buffers : Load(Holds(V2, e), L) = Load(Holds(V, e), L)
         /\ \A k \in Block : Load(Fills(V2, k), L) = Load(Fills(V, k), L)
<1>1. ASSUME NEW e \in Buffers
      PROVE  Load(Holds(V2, e), L) = Load(Holds(V, e), L)
  <2>1. Holds(V, e) \in [Pairs -> Nat] /\ Holds(V2, e) \in [Pairs -> Nat]
    BY HoldsType
  <2>2. ASSUME NEW x \in Pairs, Load(One(x), L) # 0
        PROVE  Holds(V2, e)[x] = Holds(V, e)[x]
    <3>1. V2.wd[x[2]] = V.wd[x[2]] /\ V2.mbuf[x[2]] = V.mbuf[x[2]]
      BY <2>2
    <3>2. Own(V2, x) = Own(V, x)
      BY <3>1 DEF Own
    <3> QED BY <3>2 DEF Holds
  <2> QED BY <2>1, <2>2, LoadSame, Zenon
<1>2. ASSUME NEW k \in Block
      PROVE  Load(Fills(V2, k), L) = Load(Fills(V, k), L)
  <2>1. Fills(V, k) \in [Pairs -> Nat] /\ Fills(V2, k) \in [Pairs -> Nat]
    BY FillsType, Zenon
  <2>2. ASSUME NEW x \in Pairs, Load(One(x), L) # 0
        PROVE  Fills(V2, k)[x] = Fills(V, k)[x]
    <3>1. V2.wd[x[2]] = V.wd[x[2]]
      BY <2>2
    <3> QED BY <3>1 DEF Fills
  <2> QED BY <2>1, <2>2, LoadSame
<1> QED BY <1>1, <1>2

\* the parts of Sound after a step of w
LEMMA MovedLists ==
  ASSUME NEW V, NEW V2, NEW w \in Workers, OthersSame(V, V2, w), NEW v \in Workers, v # w
  PROVE  Lists(V2, v) = Lists(V, v) /\ LeftLists(V2, v) = LeftLists(V, v)
<1>1. V2.cur[v] = V.cur[v] /\ V2.pend[v] = V.pend[v] /\ V2.fq[v] = V.fq[v]
  BY DEF OthersSame
<1> QED BY <1>1 DEF Lists, LeftLists

\* A step that gives the buffers of the packets it takes to those it adds, to
\* the mempool, to w's list or to the lost ones keeps the balance of the
\* buffers.
LEMMA MovedBalance ==
  ASSUME NEW V, NEW V2, NEW w \in Workers, NEW R, NEW gone, NEW come, Sound(V), ViewType(V2),
         RunInv(V2, w), OthersSame(V, V2, w), Moves(V, V2, w, R, gone, come),
         Owned(V, V2, w, gone),
         BuffersMove(V, V2, w, gone, come)
  PROVE  BufferBalance(V2)
<1> SUFFICES ASSUME NEW e \in Buffers
             PROVE  V2.pool[e] + SumTo([v \in Workers |-> Refs(V2, e, v)], Cardinality(Workers))
                    + Ind(e \in V2.lost) = 1
  BY DEF BufferBalance
<1> DEFINE f == [v \in Workers |-> Refs(V, e, v)]
           g == [v \in Workers |-> Refs(V2, e, v)]
           n == Cardinality(Workers)
<1>0. \A x \in Pairs : KeptAt(V, V2, w, R, x)
  BY KeptAll, Zenon
<1>1. ViewType(V) /\ (\A v \in Workers : RunInv(V, v) /\ Lists(V, v) \in ListsType)
      /\ R \in ListsType /\ gone \in Seq(Pairs) /\ come \in Seq(Pairs)
  BY ListsTypes DEF Sound, Moves
<1>2. Holds(V, e) \in [Pairs -> Nat] /\ Holds(V2, e) \in [Pairs -> Nat]
  BY <1>1, HoldsType
<1>3. ASSUME NEW x \in Pairs,
             Load(One(x), R) # 0 \/ \E v \in Workers : v # w /\ Load(One(x), Lists(V, v)) # 0
      PROVE  V2.wd[x[2]] = V.wd[x[2]] /\ V2.mbuf[x[2]] = V.mbuf[x[2]]
  BY <1>0, <1>3, Zenon DEF KeptAt
<1>4. Load(Holds(V2, e), R) = Load(Holds(V, e), R)
  BY <1>1, <1>3, KeptWeighs
<1>5. ASSUME NEW v \in Workers, v # w
      PROVE  Refs(V2, e, v) = Refs(V, e, v) /\ RunInv(V, v)
  <2>1. Lists(V2, v) = Lists(V, v) /\ V2.cur[v] = V.cur[v] /\ V2.fl[v] = V.fl[v]
    BY <1>5, MovedLists DEF OthersSame
  <2>2. \A x \in Pairs : Load(One(x), Lists(V, v)) # 0 =>
           V2.wd[x[2]] = V.wd[x[2]] /\ V2.mbuf[x[2]] = V.mbuf[x[2]]
    BY <1>3, <1>5, Zenon
  <2>3. Load(Holds(V2, e), Lists(V, v)) = Load(Holds(V, e), Lists(V, v))
    BY <1>1, <2>2, KeptWeighs
  <2> QED BY <1>1, <2>1, <2>3, Zenon DEF Refs
<1>6. \A v \in Workers : Refs(V, e, v) \in Nat
  BY <1>1, RefsNat
<1>7. Refs(V2, e, w) \in Nat
  BY RefsNat
<1>8. n \in Nat /\ Workers = 1 .. n
  BY WorkersAre
<1>9. \A v \in 1 .. n : f[v] \in Int /\ g[v] \in Int
  BY <1>5, <1>6, <1>7, <1>8
<1>10. \A v \in 1 .. n : v # w => g[v] = f[v]
  BY <1>5, <1>8
<1>11. f[w] = Refs(V, e, w) /\ g[w] = Refs(V2, e, w)
  OBVIOUS
<1>12. V.pool[e] + SumTo(f, n) + Ind(e \in V.lost) = 1
  BY DEF Sound, BufferBalance
<1> HIDE DEF f, g, n
<1>13. SumTo(g, n) = SumTo(f, n) + (g[w] - f[w]) /\ SumTo(f, n) \in Int
  BY <1>8, <1>9, <1>10, SumPoint, Zenon
<1>14. /\ Load(Holds(V, e), Lists(V, w)) = Load(Holds(V, e), R) + Weigh(Holds(V, e), gone)
       /\ Load(Holds(V2, e), Lists(V2, w)) = Load(Holds(V2, e), R) + Weigh(Holds(V2, e), come)
  BY <1>2, Zenon DEF Moves
<1>15. /\ Load(Holds(V, e), R) \in Nat /\ Weigh(Holds(V, e), gone) \in Nat
       /\ Weigh(Holds(V2, e), come) \in Nat
  BY <1>1, <1>2, LoadNat, WeighNat, Zenon
<1>16. /\ Times(e, V.cur[w].drops) \in Nat /\ Times(e, V2.cur[w].drops) \in Nat
       /\ Ind(e \in V.fl[w]) \in {0, 1} /\ Ind(e \in V2.fl[w]) \in {0, 1}
       /\ Ind(e \in V.lost) \in {0, 1} /\ Ind(e \in V2.lost) \in {0, 1}
       /\ V.pool[e] \in Nat /\ V2.pool[e] \in Nat
  <2>1. Times(e, V.cur[w].drops) \in Nat /\ Times(e, V2.cur[w].drops) \in Nat
    BY <1>1, RefsNat
  <2> QED BY <1>1, <2>1 DEF Ind, ViewType
<1>17. /\ Refs(V, e, w) = Load(Holds(V, e), Lists(V, w)) + Times(e, V.cur[w].drops) + Ind(e \in V.fl[w])
       /\ Refs(V2, e, w) = Load(Holds(V2, e), Lists(V2, w)) + Times(e, V2.cur[w].drops) + Ind(e \in V2.fl[w])
  BY DEF Refs
<1>18. V2.pool[e] + Ind(e \in V2.fl[w]) + Times(e, V2.cur[w].drops) + Ind(e \in V2.lost)
             + Weigh(Holds(V2, e), come)
       = V.pool[e] + Ind(e \in V.fl[w]) + Times(e, V.cur[w].drops) + Ind(e \in V.lost)
             + Weigh(Holds(V, e), gone)
  BY DEF BuffersMove
<1>20. \A p, il, t, io, wg, pp, jl, tt, jo, wc, r, sf, sg \in Int :
         /\ pp + jl + tt + jo + wc = p + il + t + io + wg
         /\ p + sf + io = 1
         /\ sg = sf + (((r + wc) + tt + jl) - ((r + wg) + t + il))
         => pp + sg + jo = 1
  OBVIOUS
<1>21. SumTo(g, n) = SumTo(f, n)
         + (((Load(Holds(V, e), R) + Weigh(Holds(V2, e), come)) + Times(e, V2.cur[w].drops) + Ind(e \in V2.fl[w]))
          - ((Load(Holds(V, e), R) + Weigh(Holds(V, e), gone)) + Times(e, V.cur[w].drops) + Ind(e \in V.fl[w])))
  BY <1>4, <1>11, <1>13, <1>14, <1>17, Zenon
<1>22. SumTo(g, n) \in Int
  BY <1>15, <1>16, <1>13, <1>21
<1>19. V2.pool[e] + SumTo(g, n) + Ind(e \in V2.lost) = 1
  <2> DEFINE p == V.pool[e]
             il == Ind(e \in V.fl[w])
             t == Times(e, V.cur[w].drops)
             io == Ind(e \in V.lost)
             wg == Weigh(Holds(V, e), gone)
             pp == V2.pool[e]
             jl == Ind(e \in V2.fl[w])
             tt == Times(e, V2.cur[w].drops)
             jo == Ind(e \in V2.lost)
             wc == Weigh(Holds(V2, e), come)
             r == Load(Holds(V, e), R)
             sf == SumTo(f, n)
             sg == SumTo(g, n)
  <2>1. p \in Int /\ il \in Int /\ t \in Int /\ io \in Int /\ wg \in Int /\ pp \in Int /\ jl \in Int
        /\ tt \in Int /\ jo \in Int /\ wc \in Int /\ r \in Int /\ sf \in Int /\ sg \in Int
    BY <1>13, <1>15, <1>16, <1>22
  <2>2. pp + jl + tt + jo + wc = p + il + t + io + wg
    BY <1>18
  <2>3. p + sf + io = 1
    BY <1>12
  <2>4. sg = sf + (((r + wc) + tt + jl) - ((r + wg) + t + il))
    BY <1>21
  <2> HIDE DEF p, il, t, io, wg, pp, jl, tt, jo, wc, r, sf, sg
  <2>5. pp + sg + jo = 1
    BY <1>20, <2>1, <2>2, <2>3, <2>4
  <2> QED BY <2>5 DEF pp, sg, jo
<1> QED BY <1>19 DEF g, n

\* the drop node has nothing left that is not in its frame
LEMMA LeftAreListed ==
  ASSUME NEW V, ViewType(V), NEW w \in Workers, RunInv(V, w), NEW x \in Pairs,
         Load(One(x), LeftLists(V, w)) # 0
  PROVE  Load(One(x), Lists(V, w)) # 0
<1>1. CASE V.cur[w].node # DropNode
  BY <1>1 DEF LeftLists
<1>2. CASE V.cur[w].node = DropNode
  <2> DEFINE c == V.cur[w]
             ls == LeftLists(V, w)
             lf == Lists(V, w)
             o == One(x)
  <2>1. c \in RunType
    BY DEF ViewType
  <2>2. c.left \in Seq(Buffers) /\ c.frame \in Seq(Buffers) /\ DropNode \in Nodes
    BY <2>1, RunTypes DEF Nodes
  <2>3. ls \in ListsType /\ lf \in ListsType /\ o \in [Pairs -> Nat]
    BY ListsTypes, OneType
  <2>4. /\ ls.list = PairsOf(DropNode, c.left) /\ lf.list = PairsOf(DropNode, c.frame)
        /\ lf.to = ls.to /\ lf.away = ls.away /\ lf.pend = ls.pend /\ lf.fq = ls.fq
    BY <1>2, Zenon DEF LeftLists, Lists, Listed, DropNode
  <2>5. Len(c.frame) - Len(c.left) >= 0
        /\ \A i \in 1 .. Len(c.left) : c.left[i] = c.frame[(Len(c.frame) - Len(c.left)) + i]
    BY <1>2, Zenon DEF RunInv, RunOf
  <2> HIDE DEF c, ls, lf, o
  <2>6. CASE Weigh(o, ls.list) = 0
    <3>1. /\ Weigh(o, ls.to) \in Nat /\ Weigh(AwayOf(o), ls.away) \in Nat
          /\ Weigh(FrameOf(o), ls.pend) \in Nat /\ Weigh(QueueOf(o), ls.fq) \in Nat
          /\ Weigh(o, lf.list) \in Nat
      BY <2>3, LoadNat
    <3>2. Load(o, ls) # 0
      BY DEF o, ls
    <3>3. Load(o, lf) = Weigh(o, lf.list) + Weigh(o, ls.to) + Weigh(AwayOf(o), ls.away)
                        + Weigh(FrameOf(o), ls.pend) + Weigh(QueueOf(o), ls.fq)
      BY <2>4, Zenon DEF Load
    <3>4. 0 + Weigh(o, ls.to) + Weigh(AwayOf(o), ls.away)
            + Weigh(FrameOf(o), ls.pend) + Weigh(QueueOf(o), ls.fq) # 0
      BY <2>6, <3>2 DEF Load
    <3>5. Load(o, lf) # 0
      BY <3>1, <3>3, <3>4
    <3> QED BY <3>5 DEF o, lf
  <2>7. CASE Weigh(o, ls.list) # 0
    <3>1. PairsOf(DropNode, c.left) \in Seq(Pairs) /\ Len(PairsOf(DropNode, c.left)) = Len(c.left)
          /\ \A i \in 1 .. Len(c.left) : PairsOf(DropNode, c.left)[i] = <<DropNode, c.left[i]>>
      BY <2>2, PairsOfType
    <3>2. \E i \in 1 .. Len(ls.list) : ls.list[i] = x
      BY <2>4, <2>7, <3>1, WeighHas DEF o
    <3>3. PICK i \in 1 .. Len(c.left) : x = <<DropNode, c.left[i]>>
      BY <2>4, <3>1, <3>2
    <3> DEFINE j == (Len(c.frame) - Len(c.left)) + i
    <3>0. Len(c.frame) \in Nat /\ Len(c.left) \in Nat
      BY <2>2
    <3>4. j \in 1 .. Len(c.frame) /\ c.left[i] = c.frame[j]
      <4>1. c.left[i] = c.frame[j]
        BY <2>5
      <4>2. \A m, n \in Nat : \A k \in 1 .. m : n - m >= 0 => (n - m) + k \in 1 .. n
        OBVIOUS
      <4>3. j \in 1 .. Len(c.frame)
        BY <2>5, <3>0, <4>2
      <4> QED BY <4>1, <4>3, Zenon
    <3> HIDE DEF j
    <3>5. PairsOf(DropNode, c.frame) \in Seq(Pairs) /\ Len(PairsOf(DropNode, c.frame)) = Len(c.frame)
          /\ PairsOf(DropNode, c.frame)[j] = <<DropNode, c.frame[j]>>
      BY <2>2, <3>4, PairsOfType
    <3>6. Weigh(o, lf.list) # 0
      <4> DEFINE ps == PairsOf(DropNode, c.frame)
      <4>1. ps \in Seq(Pairs) /\ j \in 1 .. Len(ps) /\ ps[j] = x
        BY <3>3, <3>4, <3>5
      <4> HIDE DEF ps
      <4>2. Weigh(One(ps[j]), ps) # 0
        BY <4>1, WeighIn
      <4> QED BY <2>4, <4>1, <4>2 DEF ps, o
    <3>7. /\ Weigh(o, lf.list) \in Nat /\ Weigh(o, lf.to) \in Nat /\ Weigh(AwayOf(o), lf.away) \in Nat
          /\ Weigh(FrameOf(o), lf.pend) \in Nat /\ Weigh(QueueOf(o), lf.fq) \in Nat
      BY <2>3, LoadNat
    <3>8. Load(o, lf) # 0
      BY <3>6, <3>7 DEF Load
    <3> QED BY <3>8 DEF o, lf
  <2> QED BY <2>6, <2>7
<1> QED BY <1>1, <1>2

\* the blocks of the other workers
LEMMA OtherBlocks ==
  ASSUME NEW V, NEW V2, NEW w \in Workers, NEW R, NEW gone, NEW come, Sound(V), ViewType(V2),
         OthersSame(V, V2, w), Moves(V, V2, w, R, gone, come), Owned(V, V2, w, gone),
         V.spoilt \subseteq V2.spoilt
  PROVE  \A v \in Workers : v # w => BlocksAt(V2, v)
<1> SUFFICES ASSUME NEW v \in Workers, v # w, NEW k \in Block, <<v, k>> \notin V2.spoilt
             PROVE  V2.bp[v][k] + Load(Fills(V2, k), LeftLists(V2, v)) = 1
  BY DEF BlocksAt
<1>0. \A x \in Pairs : KeptAt(V, V2, w, R, x)
  BY KeptAll, Zenon
<1>1. ViewType(V) /\ RunInv(V, v) /\ Lists(V, v) \in ListsType /\ LeftLists(V, v) \in ListsType
  BY ListsTypes DEF Sound
<1>2. LeftLists(V2, v) = LeftLists(V, v) /\ V2.bp[v] = V.bp[v]
  BY MovedLists, Zenon DEF OthersSame
<1>3. V.bp[v][k] + Load(Fills(V, k), LeftLists(V, v)) = 1
  BY DEF Sound, BlockBalance, BlocksAt
<1>4. ASSUME NEW x \in Pairs, Load(One(x), LeftLists(V, v)) # 0
      PROVE  V2.wd[x[2]] = V.wd[x[2]] /\ V2.mbuf[x[2]] = V.mbuf[x[2]]
  <2>1. Load(One(x), Lists(V, v)) # 0
    BY <1>1, <1>4, LeftAreListed
  <2> QED BY <1>0, <2>1 DEF KeptAt
<1>5. Load(Fills(V2, k), LeftLists(V, v)) = Load(Fills(V, k), LeftLists(V, v))
  BY <1>1, <1>4, KeptWeighs
<1> QED BY <1>2, <1>3, <1>5

\* the arrays of the other workers
LEMMA OtherRuns ==
  ASSUME NEW V, NEW V2, NEW w \in Workers, NEW R, NEW gone, NEW come, Sound(V),
         OthersSame(V, V2, w), Moves(V, V2, w, R, gone, come), Owned(V, V2, w, gone),
         NEW v \in Workers, v # w
  PROVE  RunInv(V2, v)
<1> DEFINE c == V.cur[v]
           n == Len(c.frame) - Len(c.left)
           L == Lists(V, v)
<1>0. \A x \in Pairs : Load(One(x), L) # 0 =>
        V2.wd[x[2]] = V.wd[x[2]] /\ V2.mbuf[x[2]] = V.mbuf[x[2]]
  <2>1. \A x \in Pairs : KeptAt(V, V2, w, R, x)
    BY KeptAll, Zenon
  <2> QED BY <2>1 DEF KeptAt
<1>1. ViewType(V) /\ RunInv(V, v) /\ L \in ListsType /\ V2.cur[v] = c
  BY ListsTypes DEF Sound, OthersSame
<1>2. /\ c.node \in Nodes \cup {Idle} /\ c.frame \in Seq(Buffers) /\ c.left \in Seq(Buffers)
      /\ c.away \in Seq(Away)
  <2>1. c \in RunType
    BY DEF ViewType, Sound
  <2> QED BY <2>1, RunTypes
<1>3. L.away = c.away /\ (c.node \in TxNodes => L.list = PairsOf(c.node, c.frame))
  BY DEF Lists, Listed
<1>4. L.list \in Seq(Pairs) /\ L.away \in Seq(Away)
  BY <1>1, ListsParts
<1>5. RunOf(V, v, c) /\ (RunInv(V2, v) <=> RunOf(V2, v, c))
  BY <1>1, Zenon DEF RunInv
<1> HIDE DEF c, L
<1>7. ASSUME NEW i \in 1 .. Len(c.away)
      PROVE  V2.mbuf[c.away[i][2]] = V.mbuf[c.away[i][2]]
  <2> DEFINE x == <<HandoffNode, c.away[i][2]>>
  <2>1. x \in Pairs /\ x[2] = c.away[i][2]
    BY <1>2, HandoffNodes DEF Away, Pairs
  <2>2. Weigh(AwayOf(One(x)), L.away) # 0
    BY <1>3, <1>4, AwayIn
  <2> HIDE DEF x
  <2>3. Load(One(x), L) # 0
    <3>1. One(x) \in [Pairs -> Nat]
      BY OneType
    <3> QED BY <1>1, <2>2, <3>1, LoadNat DEF Load
  <2> QED BY <1>0, <2>1, <2>3
<1>8. ASSUME c.node \in TxNodes, n >= 0, NEW i \in 1 .. n
      PROVE  V2.mbuf[c.frame[i]] = V.mbuf[c.frame[i]] /\ V2.wd[c.frame[i]] = V.wd[c.frame[i]]
  <2> DEFINE x == <<c.node, c.frame[i]>>
  <2>1. c.node \in Nodes /\ i \in 1 .. Len(c.frame)
    <3>1. Len(c.frame) \in Nat /\ Len(c.left) \in Nat
      BY <1>2
    <3>2. c.node \in Nodes
      BY <1>8, Zenon DEF Nodes
    <3>3. \A k, m \in Nat : \A j \in 1 .. k - m : j \in 1 .. k
      OBVIOUS
    <3> QED BY <1>8, <3>1, <3>2, <3>3, Zenon
  <2>2. x \in Pairs /\ x[2] = c.frame[i]
    BY <1>2, <2>1 DEF Pairs
  <2>3. L.list[i] = x /\ i \in 1 .. Len(L.list)
    BY <1>2, <1>3, <1>8, <2>1, PairsOfType
  <2>4. Weigh(One(x), L.list) # 0
    BY <1>4, <2>3, WeighIn
  <2> HIDE DEF x
  <2>5. Load(One(x), L) # 0
    <3>1. One(x) \in [Pairs -> Nat]
      BY OneType
    <3> QED BY <1>1, <2>4, <3>1, LoadNat DEF Load
  <2> QED BY <1>0, <2>2, <2>5
<1>9. ASSUME c.node \in TxNodes, n >= 0, NEW i \in 1 .. n
      PROVE  Own(V2, <<c.node, c.frame[i]>>) = Own(V, <<c.node, c.frame[i]>>)
  <2>1. V2.mbuf[c.frame[i]] = V.mbuf[c.frame[i]] /\ V2.wd[c.frame[i]] = V.wd[c.frame[i]]
    BY <1>8, <1>9, Zenon
  <2> QED BY <2>1 DEF Own
<1> HIDE DEF n
<1>10. c.node \in TxNodes => \A i \in 1 .. n : Bufs(V2.mbuf[c.frame[i]].segs) = Own(V2, <<c.node, c.frame[i]>>)
  <2> SUFFICES ASSUME c.node \in TxNodes, NEW i \in 1 .. n
               PROVE  Bufs(V2.mbuf[c.frame[i]].segs) = Own(V2, <<c.node, c.frame[i]>>)
    BY Zenon
  <2>1. n >= 0 /\ Bufs(V.mbuf[c.frame[i]].segs) = Own(V, <<c.node, c.frame[i]>>)
    BY <1>5 DEF RunOf, n
  <2>2. V2.mbuf[c.frame[i]] = V.mbuf[c.frame[i]]
    BY <1>8, <2>1, Zenon
  <2>3. Own(V2, <<c.node, c.frame[i]>>) = Own(V, <<c.node, c.frame[i]>>)
    BY <1>9, <2>1, Zenon
  <2> QED BY <2>1, <2>2, <2>3
<1>11. \A i \in 1 .. Len(c.away) :
         /\ c.away[i][1] # v
         /\ sf_pkt_get_worker_index(V2.mbuf[c.away[i][2]].pkt) = c.away[i][1]
  BY <1>5, <1>7 DEF RunOf
<1> QED BY <1>5, <1>10, <1>11 DEF RunOf, n

\* the packets that were under way, and those that come
LEMMA MovedFit ==
  ASSUME NEW V, NEW V2, NEW w \in Workers, NEW R, NEW gone, NEW come, Sound(V),
         OthersSame(V, V2, w), Moves(V, V2, w, R, gone, come), Owned(V, V2, w, gone),
         \A i \in 1 .. Len(come) : Fit(V2, w, come[i])
  PROVE  AllFit(V2)
<1> SUFFICES ASSUME NEW v \in Workers, NEW x \in Pairs, Load(One(x), Lists(V2, v)) # 0
             PROVE  Fit(V2, v, x)
  BY DEF AllFit
<1>0. \A y \in Pairs : KeptAt(V, V2, w, R, y)
  BY KeptAll, Zenon
<1>1. ASSUME Load(One(x), Lists(V, v)) # 0, V2.wd[x[2]] = V.wd[x[2]] /\ V2.mbuf[x[2]] = V.mbuf[x[2]]
      PROVE  Fit(V2, v, x)
  <2>1. Fit(V, v, x)
    BY <1>1 DEF Sound, AllFit
  <2> QED BY <1>1, <2>1, Zenon DEF Fit
<1>2. CASE v # w
  <2>1. Lists(V2, v) = Lists(V, v)
    BY <1>2, MovedLists
  <2>2. V2.wd[x[2]] = V.wd[x[2]] /\ V2.mbuf[x[2]] = V.mbuf[x[2]]
    BY <1>0, <1>2, <2>1 DEF KeptAt
  <2> QED BY <1>1, <2>1, <2>2
<1>3. CASE v = w
  <2> DEFINE o == One(x)
  <2>0. o \in [Pairs -> Nat] /\ R \in ListsType /\ gone \in Seq(Pairs) /\ come \in Seq(Pairs)
    BY OneType DEF Moves
  <2>1. Load(o, Lists(V, w)) = Load(o, R) + Weigh(o, gone)
        /\ Load(o, Lists(V2, w)) = Load(o, R) + Weigh(o, come)
    BY <2>0 DEF Moves
  <2>2. Load(o, R) \in Nat /\ Weigh(o, gone) \in Nat /\ Weigh(o, come) \in Nat
    BY <2>0, LoadNat, WeighNat
  <2>3. CASE Load(o, R) # 0
    <3>1. Load(o, Lists(V, w)) # 0
      BY <2>1, <2>2, <2>3
    <3>2. V2.wd[x[2]] = V.wd[x[2]] /\ V2.mbuf[x[2]] = V.mbuf[x[2]]
      BY <1>0, <2>3 DEF KeptAt
    <3> QED BY <1>1, <1>3, <3>1, <3>2, Zenon
  <2>4. CASE Weigh(o, come) # 0
    <3>1. \E i \in 1 .. Len(come) : come[i] = x
      BY <2>0, <2>4, WeighHas
    <3> QED BY <1>3, <3>1
  <2>5. Load(o, R) # 0 \/ Weigh(o, come) # 0
    BY <1>3, <2>1, <2>2
  <2> QED BY <2>3, <2>4, <2>5
<1> QED BY <1>2, <1>3

\* A step of w keeps everything sound, if it does at w.
LEMMA Moved ==
  ASSUME NEW V, NEW V2, NEW w \in Workers, NEW R, NEW gone, NEW come, Sound(V), ViewType(V2),
         RunInv(V2, w), OthersSame(V, V2, w), Moves(V, V2, w, R, gone, come),
         Owned(V, V2, w, gone), \A i \in 1 .. Len(come) : Fit(V2, w, come[i]),
         V.spoilt \subseteq V2.spoilt,
         BlocksAt(V2, w),
         BuffersMove(V, V2, w, gone, come)
  PROVE  Sound(V2)
<1>1. BufferBalance(V2)
  BY MovedBalance, Zenon
<1>2. AllFit(V2)
  BY MovedFit, Zenon
<1>3. ASSUME NEW v \in Workers
      PROVE  BlocksAt(V2, v)
  <2>1. \A u \in Workers : u # w => BlocksAt(V2, u)
    BY OtherBlocks, Zenon
  <2> QED BY <2>1
<1>4. ASSUME NEW v \in Workers
      PROVE  RunInv(V2, v)
  <2>1. CASE v # w
    BY <2>1, OtherRuns, Zenon
  <2> QED BY <2>1
<1> QED BY <1>1, <1>2, <1>3, <1>4 DEF Sound, BlockBalance

\* the blocks of w, where nothing of it is at the drop node
LEMMA OwnBlocks ==
  ASSUME NEW V, NEW V2, NEW w \in Workers, NEW R, NEW gone, NEW come, Sound(V), ViewType(V2),
         Moves(V, V2, w, R, gone, come), Owned(V, V2, w, gone),
         LeftLists(V, w) = Lists(V, w), LeftLists(V2, w) = Lists(V2, w),
         V.spoilt \subseteq V2.spoilt, BlocksMove(V, V2, w, gone, come)
  PROVE  BlocksAt(V2, w)
<1> SUFFICES ASSUME NEW k \in Block, <<w, k>> \notin V2.spoilt
             PROVE  V2.bp[w][k] + Load(Fills(V2, k), LeftLists(V2, w)) = 1
  BY DEF BlocksAt
<1>0. \A x \in Pairs : Load(One(x), R) # 0 =>
        V2.wd[x[2]] = V.wd[x[2]] /\ V2.mbuf[x[2]] = V.mbuf[x[2]]
  <2>1. \A x \in Pairs : KeptAt(V, V2, w, R, x)
    BY KeptAll, Zenon
  <2> QED BY <2>1 DEF KeptAt
<1>1. ViewType(V) /\ R \in ListsType /\ gone \in Seq(Pairs) /\ come \in Seq(Pairs)
  BY DEF Sound, Moves
<1>2. Fills(V, k) \in [Pairs -> Nat] /\ Fills(V2, k) \in [Pairs -> Nat]
  BY FillsType
<1>3. Load(Fills(V2, k), R) = Load(Fills(V, k), R)
  BY <1>0, <1>1, KeptWeighs, Zenon
<1>11. V2.bp[w][k] + Weigh(Fills(V2, k), come) = V.bp[w][k] + Weigh(Fills(V, k), gone)
  BY DEF BlocksMove
<1>4. V.bp[w][k] + Load(Fills(V, k), Lists(V, w)) = 1
  BY DEF Sound, BlockBalance, BlocksAt
<1>5. Load(Fills(V, k), Lists(V, w)) = Load(Fills(V, k), R) + Weigh(Fills(V, k), gone)
      /\ Load(Fills(V2, k), Lists(V2, w)) = Load(Fills(V2, k), R) + Weigh(Fills(V2, k), come)
  BY <1>2 DEF Moves
<1>6. Load(Fills(V, k), R) \in Nat /\ Weigh(Fills(V, k), gone) \in Nat /\ Weigh(Fills(V2, k), come) \in Nat
  BY <1>1, <1>2, LoadNat, WeighNat
<1>7. V.bp[w][k] \in Nat /\ V2.bp[w][k] \in Nat
  BY DEF Sound, ViewType
<1> DEFINE p == V2.bp[w][k]
           q == V.bp[w][k]
           a == Weigh(Fills(V2, k), come)
           b == Weigh(Fills(V, k), gone)
           r == Load(Fills(V, k), R)
<1>8. p + a = q + b /\ q + (r + b) = 1 /\ p \in Int /\ q \in Int /\ a \in Int /\ b \in Int /\ r \in Int
  BY <1>4, <1>5, <1>6, <1>7, <1>11
<1>9. V2.bp[w][k] + Load(Fills(V2, k), LeftLists(V2, w)) = p + (r + a)
  BY <1>3, <1>5
<1> HIDE DEF p, q, a, b, r
<1>10. p + (r + a) = 1
  BY <1>8
<1> QED BY <1>9, <1>10

-----------------------------------------------------------------------------
(* The packets of a step, one after the other: s is what State made of the  *)
(* worker w, and what the functions of the nodes made of it.                *)

IsState(s) ==
  s = [w |-> s.w, wd |-> s.wd, pool |-> s.pool, fl |-> s.fl, bp |-> s.bp, st |-> s.st, c |-> s.c,
       lost |-> s.lost, spoilt |-> s.spoilt]
After(w, s) ==
  [wd |-> s.wd, pool |-> s.pool, fl |-> [freelist EXCEPT ![w] = s.fl],
   bp |-> [blkpool EXCEPT ![w] = s.bp], cur |-> [cur EXCEPT ![w] = s.c], lost |-> s.lost,
   spoilt |-> s.spoilt, mbuf |-> mbuf, pend |-> pend, fq |-> fq]
\* what holds of s; the packets that are left are as they were
Mid(w, s) ==
  /\ Sound(Now) /\ IsState(s) /\ s.w = w /\ Sound(After(w, s))
  /\ s.c.node = cur[w].node /\ s.c.queue = cur[w].queue /\ s.c.hand = cur[w].hand
  /\ \A i \in 1 .. Len(s.c.left) : s.wd[s.c.left[i]] = wd[s.c.left[i]]

\* The view after w wrote the state s back.
LEMMA AfterIs ==
  ASSUME NEW w \in Workers, NEW s, Sound(Now)
  PROVE  /\ After(w, s).wd = s.wd /\ After(w, s).pool = s.pool /\ After(w, s).lost = s.lost
         /\ After(w, s).spoilt = s.spoilt /\ After(w, s).mbuf = mbuf
         /\ After(w, s).pend = pend /\ After(w, s).fq = fq
         /\ After(w, s).fl[w] = s.fl /\ After(w, s).bp[w] = s.bp /\ After(w, s).cur[w] = s.c
<1>1. /\ freelist \in [Workers -> SUBSET Buffers] /\ blkpool \in [Workers -> [Block -> Nat]]
      /\ cur \in [Workers -> RunType]
  BY DEF Sound, ViewType, Now
<1> QED BY <1>1 DEF After

\* Its lists, blocks and runs are the old ones but for those of w.
LEMMA AfterExcept ==
  ASSUME NEW w, NEW s
  PROVE  /\ After(w, s).fl = [freelist EXCEPT ![w] = s.fl]
         /\ After(w, s).bp = [blkpool EXCEPT ![w] = s.bp]
         /\ After(w, s).cur = [cur EXCEPT ![w] = s.c]
BY DEF After

\* Which leaves the other workers' lists, blocks and runs alone.
LEMMA AfterOthers ==
  ASSUME NEW w \in Workers, NEW s, Sound(Now)
  PROVE  \A v \in Workers : v # w => /\ After(w, s).fl[v] = freelist[v]
                                      /\ After(w, s).bp[v] = blkpool[v]
                                      /\ After(w, s).cur[v] = cur[v]
<1>1. /\ freelist \in [Workers -> SUBSET Buffers] /\ blkpool \in [Workers -> [Block -> Nat]]
      /\ cur \in [Workers -> RunType]
  BY DEF Sound, ViewType, Now
<1> QED BY <1>1 DEF After

\* the types of s
LEMMA MidTypes ==
  ASSUME NEW w \in Workers, NEW s, Mid(w, s)
  PROVE  /\ s.wd \in [Buffers -> WdType] /\ s.pool \in [Buffers -> Nat] /\ s.fl \in SUBSET Buffers
         /\ s.bp \in [Block -> Nat] /\ s.c \in RunType /\ s.lost \subseteq Buffers
<1>1. ViewType(After(w, s)) /\ Sound(Now)
  BY DEF Mid, Sound
<1>2. /\ After(w, s).wd = s.wd /\ After(w, s).pool = s.pool /\ After(w, s).lost = s.lost
      /\ After(w, s).fl[w] = s.fl /\ After(w, s).bp[w] = s.bp /\ After(w, s).cur[w] = s.c
  BY <1>1, AfterIs, Zenon
<1> QED BY <1>1, <1>2, Zenon DEF ViewType

\* A loop begins in a sound state.
LEMMA MidStart ==
  ASSUME NEW w \in Workers, Sound(Now)
  PROVE  Mid(w, State(w))
<1> DEFINE s == State(w)
<1>1. /\ freelist \in [Workers -> SUBSET Buffers] /\ blkpool \in [Workers -> [Block -> Nat]]
      /\ cur \in [Workers -> RunType]
  BY DEF Sound, ViewType, Now
<1>2. /\ [freelist EXCEPT ![w] = freelist[w]] = freelist
      /\ [blkpool EXCEPT ![w] = blkpool[w]] = blkpool
      /\ [cur EXCEPT ![w] = cur[w]] = cur
  BY <1>1
<1>3. /\ s.w = w /\ s.wd = wd /\ s.pool = mempool /\ s.fl = freelist[w] /\ s.bp = blkpool[w]
      /\ s.c = cur[w] /\ s.lost = lost /\ s.spoilt = spoilt /\ s.st = stat[w] /\ IsState(s)
  BY DEF State, IsState
<1> HIDE DEF s
<1>4. After(w, s) = Now
  BY <1>2, <1>3 DEF After, Now
<1>5. s.c.node = cur[w].node /\ s.c.queue = cur[w].queue /\ s.c.hand = cur[w].hand
      /\ \A i \in 1 .. Len(s.c.left) : s.wd[s.c.left[i]] = wd[s.c.left[i]]
  BY <1>3
<1>6. Mid(w, s)
  BY <1>3, <1>4, <1>5 DEF Mid
<1> QED BY <1>6 DEF s

\* A loop that ends in a sound state leaves the system in one.
LEMMA MidEnd ==
  ASSUME NEW w \in Workers, NEW s, Mid(w, s), Becomes(w, s), UNCHANGED <<mbuf, pend, fq>>
  PROVE  Sound(Now)' /\ cur' = [cur EXCEPT ![w] = s.c]
<1>1. /\ wd' = s.wd /\ mempool' = s.pool /\ lost' = s.lost /\ spoilt' = s.spoilt
      /\ freelist' = [freelist EXCEPT ![w] = s.fl] /\ blkpool' = [blkpool EXCEPT ![w] = s.bp]
      /\ cur' = [cur EXCEPT ![w] = s.c]
  BY DEF Becomes
<1>2. Now' = After(w, s)
  BY <1>1 DEF Now, After
<1>3. Sound(Now)' = Sound(Now')
  BY DEF Sound, ViewType, BufferBalance, BlockBalance, BlocksAt, AllFit, RunInv
<1> QED BY <1>1, <1>2, <1>3 DEF Mid

\* The first packet of a frame and the rest.
LEMMA PairsOfTail ==
  ASSUME NEW n \in Nodes, NEW bs \in Seq(Buffers), bs # <<>>
  PROVE  /\ Head(bs) \in Buffers /\ Tail(bs) \in Seq(Buffers) /\ <<n, Head(bs)>> \in Pairs
         /\ PairsOf(n, Tail(bs)) \in Seq(Pairs)
         /\ Len(Tail(bs)) = Len(bs) - 1 /\ Len(bs) \in Nat \ {0}
         /\ \A i \in 1 .. Len(Tail(bs)) : Tail(bs)[i] = bs[i + 1]
         /\ \A h \in [Pairs -> Nat] :
              Weigh(h, PairsOf(n, bs)) = h[<<n, Head(bs)>>] + Weigh(h, PairsOf(n, Tail(bs)))
<1>1. /\ Head(bs) \in Buffers /\ Tail(bs) \in Seq(Buffers) /\ Head(bs) = bs[1]
      /\ Len(Tail(bs)) = Len(bs) - 1 /\ Len(bs) \in Nat \ {0}
      /\ \A i \in 1 .. Len(Tail(bs)) : Tail(bs)[i] = bs[i + 1]
  OBVIOUS
<1> DEFINE ps == PairsOf(n, bs)
           qs == PairsOf(n, Tail(bs))
<1>2. ps \in Seq(Pairs) /\ Len(ps) = Len(bs) /\ \A i \in 1 .. Len(bs) : ps[i] = <<n, bs[i]>>
  BY PairsOfType
<1>3. qs \in Seq(Pairs) /\ Len(qs) = Len(Tail(bs)) /\ \A i \in 1 .. Len(Tail(bs)) : qs[i] = <<n, Tail(bs)[i]>>
  BY <1>1, PairsOfType, Zenon
<1> HIDE DEF ps, qs
<1>4. ps # <<>> /\ ps[1] = <<n, Head(bs)>>
  BY <1>1, <1>2
<1>5. Tail(ps) = qs
  <2>1. Tail(ps) \in Seq(Pairs) /\ Len(Tail(ps)) = Len(ps) - 1 /\ \A i \in 1 .. Len(Tail(ps)) : Tail(ps)[i] = ps[i + 1]
    BY <1>2, <1>4
  <2>2. ASSUME NEW i \in 1 .. Len(qs)
        PROVE  qs[i] = ps[i + 1]
    <3>1. qs[i] = <<n, Tail(bs)[i]>> /\ Tail(bs)[i] = bs[i + 1]
      BY <1>1, <1>3
    <3>2. i + 1 \in 1 .. Len(bs)
      BY <1>1, <1>3
    <3> QED BY <1>2, <3>1, <3>2
  <2>3. Len(Tail(ps)) = Len(qs) /\ \A i \in 1 .. Len(Tail(ps)) : Tail(ps)[i] = qs[i]
    BY <1>1, <1>2, <1>3, <2>1, <2>2
  <2> DEFINE ts == Tail(ps)
  <2>4. ts \in Seq(Pairs) /\ Len(ts) = Len(qs) /\ \A i \in 1 .. Len(ts) : ts[i] = qs[i]
    BY <2>1, <2>3
  <2> HIDE DEF ts
  <2>5. ts = qs
    BY <1>3, <2>4, SeqSame
  <2> QED BY <2>5 DEF ts
<1>6. ASSUME NEW h \in [Pairs -> Nat]
      PROVE  Weigh(h, ps) = h[<<n, Head(bs)>>] + Weigh(h, qs)
  <2>1. Weigh(h, ps) = h[ps[1]] + Weigh(h, Tail(ps))
    BY <1>2, <1>4, WeighHead
  <2> QED BY <1>4, <1>5, <2>1
<1>7. <<n, Head(bs)>> \in Pairs
  BY <1>1 DEF Pairs
<1> QED BY <1>1, <1>3, <1>6, <1>7 DEF ps, qs

\* s2 is s without its first packet, and with what the node did of it
Handled(w, s, s2, to, away, drops) ==
  /\ IsState(s2) /\ s2.w = w
  /\ s2.wd \in [Buffers -> WdType] /\ s2.pool \in [Buffers -> Nat] /\ s2.fl \in SUBSET Buffers
  /\ s2.bp \in [Block -> Nat] /\ s2.lost \subseteq Buffers /\ s.spoilt \subseteq s2.spoilt
  /\ to \in Seq(Pairs) /\ away \in Seq(Away) /\ drops \in Seq(Buffers)
  /\ s2.c = [s.c EXCEPT !.left = Tail(@), !.to = to, !.away = away, !.drops = drops]
  /\ \A e \in Buffers : e # Head(s.c.left) => s2.wd[e] = s.wd[e]
  /\ drops # <<>> => s.c.node = HugeInputNode
  /\ \A i \in 1 .. Len(away) :
       /\ away[i][1] # w /\ sf_pkt_get_worker_index(mbuf[away[i][2]].pkt) = away[i][1]

\* where the packet went
Comes(s, to, away, come) ==
  /\ come \in Seq(Pairs)
  /\ \A h \in [Pairs -> Nat] :
       Weigh(h, to) + Weigh(AwayOf(h), away)
       = Weigh(h, s.c.to) + Weigh(AwayOf(h), s.c.away) + Weigh(h, come)

\* its buffers and its block
BuffersKept(w, s, s2, come) ==
  \A e \in Buffers :
    s2.pool[e] + Ind(e \in s2.fl) + Times(e, s2.c.drops) + Ind(e \in s2.lost)
      + Weigh(Holds(After(w, s2), e), come)
    = s.pool[e] + Ind(e \in s.fl) + Times(e, s.c.drops) + Ind(e \in s.lost)
      + Holds(After(w, s), e)[<<s.c.node, Head(s.c.left)>>]
BlocksKept(w, s, s2, come) ==
  \A k \in Block : <<w, k>> \notin s2.spoilt =>
    s2.bp[k] + Weigh(Fills(After(w, s2), k), come)
    = s.bp[k] + Fills(After(w, s), k)[<<s.c.node, Head(s.c.left)>>]

\* the nodes with these loops
Looping == Nodes \ ({DropNode} \cup TxNodes)

\* One packet of a loop: if what it held is what it holds now, what was freed
\* and what was given to its followers, the state stays sound.
LEMMA PacketStep ==
  ASSUME NEW w \in Workers, NEW s, Mid(w, s), s.c.left # <<>>, s.c.node \in Looping,
         NEW s2, NEW to, NEW away, NEW drops, NEW come, Handled(w, s, s2, to, away, drops),
         Comes(s, to, away, come), \A i \in 1 .. Len(come) : Fit(After(w, s2), w, come[i]),
         BuffersKept(w, s, s2, come), BlocksKept(w, s, s2, come)
  PROVE  Mid(w, s2) /\ s2.c.left = Tail(s.c.left) /\ s2.c.node = s.c.node
<1> DEFINE V == After(w, s)
           V2 == After(w, s2)
           c == s.c
           n == s.c.node
           b == Head(s.c.left)
           x == <<n, b>>
           R == [list |-> PairsOf(n, Tail(c.left)), to |-> c.to, away |-> c.away,
                 pend |-> pend[w], fq |-> fq[w]]
           gone == <<x>>
<1>1. Sound(Now) /\ Sound(V) /\ ViewType(V) /\ ViewType(Now)
  BY DEF Mid, Sound
<1>2. c \in RunType /\ n \in Nodes /\ n # DropNode /\ n \notin TxNodes
  BY MidTypes DEF Looping
<1>3. /\ c.frame \in Seq(Buffers) /\ c.left \in Seq(Buffers) /\ c.to \in Seq(Pairs)
      /\ c.away \in Seq(Away) /\ c.drops \in Seq(Buffers)
      /\ c = [node |-> c.node, frame |-> c.frame, left |-> c.left, to |-> c.to,
              away |-> c.away, drops |-> c.drops, queue |-> c.queue, hand |-> c.hand]
  BY <1>2, RunTypes
<1>4. /\ s2.c.node = n /\ s2.c.frame = c.frame /\ s2.c.left = Tail(c.left) /\ s2.c.to = to
      /\ s2.c.away = away /\ s2.c.drops = drops /\ s2.c.queue = c.queue /\ s2.c.hand = c.hand
  BY <1>3 DEF Handled
<1>5. /\ b \in Buffers /\ Tail(c.left) \in Seq(Buffers) /\ x \in Pairs
      /\ PairsOf(n, Tail(c.left)) \in Seq(Pairs)
      /\ Len(Tail(c.left)) = Len(c.left) - 1 /\ Len(c.left) \in Nat \ {0}
      /\ (\A i \in 1 .. Len(Tail(c.left)) : Tail(c.left)[i] = c.left[i + 1])
      /\ \A h \in [Pairs -> Nat] :
           Weigh(h, PairsOf(n, c.left)) = h[x] + Weigh(h, PairsOf(n, Tail(c.left)))
  BY <1>2, <1>3, PairsOfTail
<1>6. s2.c \in RunType
  <2>1. to \in Seq(Nodes \X Buffers) /\ away \in Seq(Workers \X Buffers) /\ drops \in Seq(Buffers)
    BY DEF Handled, Pairs, Away
  <2>2. s2.c = [s.c EXCEPT !.left = Tail(c.left), !.to = to, !.away = away, !.drops = drops]
    BY DEF Handled
  <2> QED BY <1>2, <1>5, <2>1, <2>2, Zenon DEF RunType
<1>7. /\ V.wd = s.wd /\ V.pool = s.pool /\ V.lost = s.lost /\ V.spoilt = s.spoilt
      /\ V.mbuf = mbuf /\ V.pend = pend /\ V.fq = fq
      /\ V.fl[w] = s.fl /\ V.bp[w] = s.bp /\ V.cur[w] = s.c
  BY <1>1, AfterIs, Zenon
<1>8. /\ V2.wd = s2.wd /\ V2.pool = s2.pool /\ V2.lost = s2.lost /\ V2.spoilt = s2.spoilt
      /\ V2.mbuf = mbuf /\ V2.pend = pend /\ V2.fq = fq
      /\ V2.fl[w] = s2.fl /\ V2.bp[w] = s2.bp /\ V2.cur[w] = s2.c
      /\ V2.fl = [freelist EXCEPT ![w] = s2.fl] /\ V2.bp = [blkpool EXCEPT ![w] = s2.bp]
      /\ V2.cur = [cur EXCEPT ![w] = s2.c]
  <2>1. /\ V2.wd = s2.wd /\ V2.pool = s2.pool /\ V2.lost = s2.lost /\ V2.spoilt = s2.spoilt
        /\ V2.mbuf = mbuf /\ V2.pend = pend /\ V2.fq = fq
        /\ V2.fl[w] = s2.fl /\ V2.bp[w] = s2.bp /\ V2.cur[w] = s2.c
    BY <1>1, AfterIs, Zenon
  <2>2. /\ V2.fl = [freelist EXCEPT ![w] = s2.fl] /\ V2.bp = [blkpool EXCEPT ![w] = s2.bp]
        /\ V2.cur = [cur EXCEPT ![w] = s2.c]
    BY AfterExcept
  <2> HIDE DEF V2
  <2> QED BY <2>1, <2>2
<1>9. \A v \in Workers : v # w => /\ V2.fl[v] = V.fl[v] /\ V2.bp[v] = V.bp[v]
                                   /\ V2.cur[v] = V.cur[v]
  <2>1. \A v \in Workers : v # w => /\ V.fl[v] = freelist[v] /\ V.bp[v] = blkpool[v]
                                      /\ V.cur[v] = cur[v]
    BY <1>1, AfterOthers, Zenon
  <2>2. \A v \in Workers : v # w => /\ V2.fl[v] = freelist[v] /\ V2.bp[v] = blkpool[v]
                                      /\ V2.cur[v] = cur[v]
    BY <1>1, AfterOthers, Zenon
  <2> HIDE DEF V, V2
  <2> QED BY <2>1, <2>2
<1>10. /\ IsState(s2) /\ s2.w = w
       /\ s2.wd \in [Buffers -> WdType] /\ s2.pool \in [Buffers -> Nat] /\ s2.fl \in SUBSET Buffers
       /\ s2.bp \in [Block -> Nat] /\ s2.lost \subseteq Buffers /\ s.spoilt \subseteq s2.spoilt
       /\ \A e \in Buffers : e # b => s2.wd[e] = s.wd[e]
  BY DEF Handled
<1>11. ViewType(V2)
  <2>1. freelist \in [Workers -> SUBSET Buffers] /\ blkpool \in [Workers -> [Block -> Nat]]
        /\ cur \in [Workers -> RunType] /\ pend \in [Workers -> Seq(FrameType)]
        /\ fq \in [Workers -> Seq(Seq(Buffers))]
        /\ \A e \in Buffers : mbuf[e].segs \in Seq(SegType)
    BY <1>1 DEF ViewType, Now
  <2>2. V2.fl \in [Workers -> SUBSET Buffers]
    BY <1>8, <1>10, <2>1
  <2>3. V2.bp \in [Workers -> [Block -> Nat]]
    BY <1>8, <1>10, <2>1
  <2>4. V2.cur \in [Workers -> RunType]
    BY <1>6, <1>8, <2>1
  <2> HIDE DEF V2
  <2> QED BY <1>8, <1>10, <2>1, <2>2, <2>3, <2>4 DEF ViewType
<1>12. Lists(V, w) = [list |-> PairsOf(n, c.left), to |-> c.to, away |-> c.away,
                      pend |-> pend[w], fq |-> fq[w]]
  <2>1. Listed(c) = c.left
    BY <1>2 DEF Listed, DropNode
  <2> HIDE DEF V
  <2> QED BY <1>7, <2>1 DEF Lists
<1>13. Lists(V2, w) = [list |-> PairsOf(n, Tail(c.left)), to |-> to, away |-> away,
                       pend |-> pend[w], fq |-> fq[w]]
  <2>1. Listed(s2.c) = Tail(c.left)
    BY <1>2, <1>4 DEF Listed, DropNode
  <2> HIDE DEF V2
  <2> QED BY <1>4, <1>8, <2>1 DEF Lists
<1>14. R \in ListsType /\ gone \in Seq(Pairs) /\ come \in Seq(Pairs)
  <2>1. pend[w] \in Seq(FrameType) /\ fq[w] \in Seq(Seq(Buffers))
    BY <1>1 DEF ViewType, Now
  <2>2. come \in Seq(Pairs)
    BY DEF Comes
  <2> QED BY <1>3, <1>5, <2>1, <2>2 DEF ListsType
<1>15. \A h \in [Pairs -> Nat] : Weigh(h, gone) = h[x]
  <2> TAKE h \in [Pairs -> Nat]
  <2>1. Append(<<>>, x) = <<x>> /\ <<>> \in Seq(Pairs)
    OBVIOUS
  <2>2. Weigh(h, Append(<<>>, x)) = Weigh(h, <<>>) + h[x]
    BY <1>5, <2>1, WeighAppend, Zenon
  <2>3. Weigh(h, <<>>) = 0 /\ h[x] \in Nat
    BY <1>5, WeighEmpty
  <2> QED BY <2>1, <2>2, <2>3
<1>16. Moves(V, V2, w, R, gone, come)
  <2> SUFFICES ASSUME NEW h \in [Pairs -> Nat]
               PROVE  /\ Load(h, Lists(V, w)) = Load(h, R) + Weigh(h, gone)
                      /\ Load(h, Lists(V2, w)) = Load(h, R) + Weigh(h, come)
    BY <1>14 DEF Moves
  <2> DEFINE pt == Weigh(h, PairsOf(n, Tail(c.left)))
             t1 == Weigh(h, c.to)
             a1 == Weigh(AwayOf(h), c.away)
             t2 == Weigh(h, to)
             a2 == Weigh(AwayOf(h), away)
             q == Weigh(FrameOf(h), pend[w])
             u == Weigh(QueueOf(h), fq[w])
             g == Weigh(h, come)
  <2>0. Weigh(h, PairsOf(n, c.left)) = h[x] + pt
    BY <1>5
  <2>1. Load(h, Lists(V, w)) = (h[x] + pt) + t1 + a1 + q + u
    <3>1. Load(h, Lists(V, w)) = Weigh(h, PairsOf(n, c.left)) + t1 + a1 + q + u
      BY <1>12 DEF Load
    <3> HIDE DEF V, n, c, x, pt, t1, a1, q, u
    <3> QED BY <2>0, <3>1
  <2>2. Load(h, R) = pt + t1 + a1 + q + u
    BY DEF Load
  <2>3. Load(h, Lists(V2, w)) = pt + t2 + a2 + q + u
    BY <1>13 DEF Load
  <2>4. t2 + a2 = t1 + a1 + g
    BY DEF Comes
  <2>5. pt \in Int /\ t1 \in Int /\ a1 \in Int /\ q \in Int /\ u \in Int
    BY <1>14, LoadNat
  <2>6. g \in Int /\ h[x] \in Int
    <3>1. g \in Nat
      BY <1>14, WeighNat
    <3>2. h[x] \in Nat
      BY <1>5
    <3> QED BY <3>1, <3>2
  <2>7. t2 \in Int /\ a2 \in Int
    <3>1. to \in Seq(Pairs) /\ away \in Seq(Away) /\ AwayOf(h) \in [Away -> Nat]
      BY AwayOfType DEF Handled
    <3>2. t2 \in Nat
      BY <3>1, WeighNat
    <3>3. a2 \in Nat
      BY <3>1, WeighNat
    <3> QED BY <3>2, <3>3
  <2>8. Weigh(h, gone) = h[x]
    BY <1>15
  <2> DEFINE hx == h[x]
  <2> HIDE DEF pt, t1, a1, t2, a2, q, u, g, R, gone, V, V2, hx
  <2>9. (hx + pt) + t1 + a1 + q + u = (pt + t1 + a1 + q + u) + hx
    BY <2>5, <2>6 DEF hx
  <2>10. pt + t2 + a2 + q + u = (pt + t1 + a1 + q + u) + g
    <3>1. \A i1, i2, i3, i4, i5, j2, j3, i6 \in Int :
            j2 + j3 = i2 + i3 + i6 => i1 + j2 + j3 + i4 + i5 = (i1 + i2 + i3 + i4 + i5) + i6
      OBVIOUS
    <3> QED BY <2>4, <2>5, <2>6, <2>7, <3>1
  <2> QED BY <2>1, <2>2, <2>3, <2>8, <2>9, <2>10 DEF hx, g
<1>17. Fit(V, w, x)
  <2>1. Weigh(One(x), gone) = 1
    BY <1>5, <1>15, OneAt
  <2>2. Load(One(x), Lists(V, w)) = Load(One(x), R) + Weigh(One(x), gone)
    BY <1>16, OneType DEF Moves
  <2>3. Load(One(x), R) \in Nat
    BY <1>14, OneType, LoadNat
  <2>4. Load(One(x), Lists(V, w)) # 0
    BY <2>1, <2>2, <2>3
  <2> QED BY <1>1, <1>5, <2>4 DEF Sound, AllFit
<1>18. Owned(V, V2, w, gone)
  <2> SUFFICES ASSUME NEW e \in Buffers, V2.wd[e] # V.wd[e] \/ V2.mbuf[e] # V.mbuf[e]
               PROVE  V.pool[e] + Weigh(Holds(V, e), gone) >= 1
    BY DEF Owned
  <2>1. e = b
    BY <1>7, <1>8, <1>10, Zenon
  <2>2. Holds(V, e) \in [Pairs -> Nat] /\ Holds(V, e)[x] >= 1
    BY <1>1, <1>5, <1>17, <2>1, HoldsType, OwnHead
  <2>3. V.pool[e] \in Nat
    BY <1>1 DEF ViewType
  <2>4. Weigh(Holds(V, e), gone) = Holds(V, e)[x] /\ Holds(V, e)[x] \in Nat
    BY <1>5, <1>15, <2>2
  <2> QED BY <2>2, <2>3, <2>4
<1>19. OthersSame(V, V2, w)
  BY <1>7, <1>8, <1>9 DEF OthersSame
<1>20. LeftLists(V, w) = Lists(V, w) /\ LeftLists(V2, w) = Lists(V2, w)
  BY <1>2, <1>4, <1>7, <1>8 DEF LeftLists
<1>21. RunInv(V2, w)
  <2>1. n # Idle
    BY <1>2 DEF Nodes, Before, TxNodes, Tx, RxNode, DropNode, HugeOutNode, HandoffNode, HfInputNode, HugeInputNode, N, Idle
  <2>2. drops # <<>> => n = HugeInputNode
    BY DEF Handled
  <2>3. \A i \in 1 .. Len(away) :
          away[i][1] # w /\ sf_pkt_get_worker_index(mbuf[away[i][2]].pkt) = away[i][1]
    BY DEF Handled
  <2>4. RunOf(V2, w, s2.c)
    BY <1>2, <1>4, <1>8, <2>1, <2>2, <2>3 DEF RunOf
  <2> QED BY <1>8, <2>4 DEF RunInv
<1>22. BuffersMove(V, V2, w, gone, come)
  <2> SUFFICES ASSUME NEW e \in Buffers
               PROVE V2.pool[e] + Ind(e \in V2.fl[w]) + Times(e, V2.cur[w].drops) + Ind(e \in V2.lost)
                       + Weigh(Holds(V2, e), come)
                     = V.pool[e] + Ind(e \in V.fl[w]) + Times(e, V.cur[w].drops) + Ind(e \in V.lost)
                       + Weigh(Holds(V, e), gone)
    BY DEF BuffersMove
  <2>1. Weigh(Holds(V, e), gone) = Holds(V, e)[x]
    BY <1>1, <1>15, HoldsType
  <2>2. s2.pool[e] + Ind(e \in s2.fl) + Times(e, s2.c.drops) + Ind(e \in s2.lost)
          + Weigh(Holds(V2, e), come)
        = s.pool[e] + Ind(e \in s.fl) + Times(e, s.c.drops) + Ind(e \in s.lost)
          + Holds(V, e)[x]
    BY DEF BuffersKept
  <2> HIDE DEF V, V2, x, gone
  <2> QED BY <1>7, <1>8, <2>1, <2>2
<1>23. BlocksMove(V, V2, w, gone, come)
  <2> SUFFICES ASSUME NEW k \in Block, <<w, k>> \notin V2.spoilt
               PROVE  V2.bp[w][k] + Weigh(Fills(V2, k), come) = V.bp[w][k] + Weigh(Fills(V, k), gone)
    BY DEF BlocksMove
  <2>1. Weigh(Fills(V, k), gone) = Fills(V, k)[x]
    BY <1>15, FillsType
  <2>2. s2.bp[k] + Weigh(Fills(V2, k), come) = s.bp[k] + Fills(V, k)[x]
    BY <1>8 DEF BlocksKept
  <2> HIDE DEF V, V2, x, gone
  <2> QED BY <1>7, <1>8, <2>1, <2>2
<1>24. V.spoilt \subseteq V2.spoilt
  BY <1>7, <1>8, <1>10
<1>25. \A i \in 1 .. Len(come) : Fit(V2, w, come[i])
  OBVIOUS
<1> HIDE DEF V, V2, R, gone, x
<1>26. BlocksAt(V2, w)
  BY <1>1, <1>11, <1>16, <1>18, <1>20, <1>23, <1>24, OwnBlocks, Zenon
<1>27. Sound(V2)
  BY <1>1, <1>11, <1>16, <1>18, <1>19, <1>21, <1>22, <1>24, <1>25, <1>26, Moved, Zenon
<1>28. \A i \in 1 .. Len(s2.c.left) : s2.wd[s2.c.left[i]] = wd[s2.c.left[i]]
  <2> SUFFICES ASSUME NEW i \in 1 .. Len(Tail(c.left))
               PROVE  s2.wd[Tail(c.left)[i]] = wd[Tail(c.left)[i]]
    BY <1>4
  <2> DEFINE ps == PairsOf(n, Tail(c.left))
  <2>1. ps \in Seq(Pairs) /\ i \in 1 .. Len(ps) /\ ps[i] = <<n, Tail(c.left)[i]>>
    BY <1>2, <1>5, PairsOfType
  <2> HIDE DEF ps
  <2>2. Weigh(One(ps[i]), ps) # 0
    BY <2>1, WeighIn, Zenon
  <2>3. R.list = ps
    BY DEF R, ps
  <2>4. ps[i] \in Pairs /\ One(ps[i]) \in [Pairs -> Nat]
    BY <2>1, OneType
  <2>5. Load(One(ps[i]), R) # 0
    BY <1>14, <2>2, <2>3, <2>4, LoadNat DEF Load
  <2>6. \A y \in Pairs : KeptAt(V, V2, w, R, y)
    BY <1>1, <1>16, <1>18, KeptAll, Zenon
  <2>7. V2.wd[ps[i][2]] = V.wd[ps[i][2]]
    BY <2>4, <2>5, <2>6 DEF KeptAt
  <2>8. i + 1 \in 1 .. Len(c.left) /\ Tail(c.left)[i] = c.left[i + 1]
    BY <1>5
  <2>9. s.wd[c.left[i + 1]] = wd[c.left[i + 1]]
    BY <2>8 DEF Mid
  <2> QED BY <1>7, <1>8, <2>1, <2>7, <2>8, <2>9
<1>29. s2.c.node = cur[w].node /\ s2.c.queue = cur[w].queue /\ s2.c.hand = cur[w].hand
  BY <1>4 DEF Mid
<1>30. Sound(After(w, s2))
  BY <1>27, Zenon DEF V2
<1> QED BY <1>1, <1>4, <1>10, <1>28, <1>29, <1>30, Zenon DEF Mid

\* the buffers, the block and the fitness of b at node n, with x for its wd and m for its mbuf
OwnOf(n, b, x, m) ==
  IF n = RxNode THEN Bufs(m.segs)
  ELSE IF x.huge /\ (n \in Before \/ n \in TxNodes) THEN Bufs(x.subs) ELSE <<b>>
FillsOf(n, x, k) == IF n \in Gathered /\ x.huge /\ x.blk = k THEN 1 ELSE 0
FitOf(w, n, b, x, m) ==
  /\ m \in MbufType
  /\ n = RxNode => m.segs # <<>> /\ m.segs[1].buf = b
  /\ x.huge /\ (n \in Before \/ n \in TxNodes) => x.subs # <<>> /\ x.subs[1].buf = b
  /\ n \in {HugeInputNode, HugeOutNode} => x.huge
  /\ n = HugeOutNode => x.out \in Intf
  /\ n = HandoffNode => ~x.handed
  /\ n = HfInputNode \/ (n \notin {RxNode, HandoffNode} /\ x.handed)
       => sf_pkt_get_worker_index(m.pkt) = w

\* what is known of the first packet of s
LEMMA HeadFit ==
  ASSUME NEW w \in Workers, NEW s, Mid(w, s), s.c.left # <<>>, s.c.node \in Looping
  PROVE  LET b == Head(s.c.left)
             n == s.c.node
         IN /\ b \in Buffers /\ FitOf(w, n, b, s.wd[b], mbuf[b]) /\ s.wd[b] = wd[b]
            /\ s.wd[b] \in WdType /\ <<n, b>> \in Pairs
            /\ \A e \in Buffers : Holds(After(w, s), e)[<<n, b>>] = Times(e, OwnOf(n, b, s.wd[b], mbuf[b]))
            /\ \A k : Fills(After(w, s), k)[<<n, b>>] = FillsOf(n, s.wd[b], k)
            /\ \A e \in Buffers : s.pool[e] + Ind(e \in s.fl) + Ind(e \in s.lost)
                                  + Times(e, OwnOf(n, b, s.wd[b], mbuf[b])) <= 1
            /\ \A e \in Buffers : s.pool[e] + Ind(e \in s.fl) <= 1
<1> DEFINE V == After(w, s)
           c == s.c
           n == c.node
           b == Head(c.left)
           x == <<n, b>>
<1>1. Sound(Now) /\ Sound(V) /\ ViewType(V)
  BY DEF Mid, Sound
<1>2. c \in RunType /\ n \in Nodes /\ n # DropNode /\ n \notin TxNodes
      /\ s.wd \in [Buffers -> WdType]
  BY MidTypes DEF Looping
<1>3. c.left \in Seq(Buffers) /\ c.left # <<>>
  BY <1>2, RunTypes
<1>4. /\ b \in Buffers /\ x \in Pairs /\ PairsOf(n, Tail(c.left)) \in Seq(Pairs)
      /\ \A h \in [Pairs -> Nat] :
           Weigh(h, PairsOf(n, c.left)) = h[x] + Weigh(h, PairsOf(n, Tail(c.left)))
  BY <1>2, <1>3, PairsOfTail
<1>5. 1 \in 1 .. Len(c.left) /\ c.left[1] = b
  BY <1>3
<1>6. s.wd[b] = wd[b]
  BY <1>5 DEF Mid
<1>7. /\ V.wd = s.wd /\ V.pool = s.pool /\ V.lost = s.lost /\ V.mbuf = mbuf
      /\ V.fl[w] = s.fl /\ V.cur[w] = s.c
  BY <1>1, AfterIs, Zenon
<1>8. Lists(V, w).list = PairsOf(n, c.left)
  <2>1. Listed(c) = c.left
    BY <1>2 DEF Listed, DropNode
  <2> HIDE DEF V
  <2> QED BY <1>7, <2>1 DEF Lists
<1>9. Lists(V, w) \in ListsType /\ RunInv(V, w)
  BY <1>1, ListsTypes DEF Sound
<1> HIDE DEF V, x
<1>10. \A h \in [Pairs -> Nat] : Load(h, Lists(V, w)) >= h[x]
  <2> TAKE h \in [Pairs -> Nat]
  <2>1. /\ Weigh(h, Lists(V, w).list) = h[x] + Weigh(h, PairsOf(n, Tail(c.left)))
        /\ h[x] \in Nat
    BY <1>4, <1>8
  <2>2. Weigh(h, PairsOf(n, Tail(c.left))) \in Nat
    BY <1>4, WeighNat
  <2>3. /\ Weigh(h, Lists(V, w).to) \in Nat /\ Weigh(AwayOf(h), Lists(V, w).away) \in Nat
        /\ Weigh(FrameOf(h), Lists(V, w).pend) \in Nat /\ Weigh(QueueOf(h), Lists(V, w).fq) \in Nat
    BY <1>9, LoadNat
  <2>4. Weigh(h, Lists(V, w).list) >= h[x] /\ Weigh(h, Lists(V, w).list) \in Nat
    BY <2>1, <2>2
  <2> QED BY <2>1, <2>3, <2>4 DEF Load
<1>11. Fit(V, w, x)
  <2>1. One(x) \in [Pairs -> Nat] /\ One(x)[x] = 1
    BY <1>4, OneAt
  <2>2. Load(One(x), Lists(V, w)) >= 1
    BY <1>10, <2>1
  <2>3. Load(One(x), Lists(V, w)) # 0
    BY <2>2
  <2> QED BY <1>1, <1>4, <2>3 DEF Sound, AllFit
<1>12. x[1] = n /\ x[2] = b
  BY Zenon DEF x
<1>13. FitOf(w, n, b, s.wd[b], mbuf[b])
  BY <1>7, <1>11, <1>12 DEF Fit, FitOf
<1>14. Own(V, x) = OwnOf(n, b, s.wd[b], mbuf[b])
  BY <1>7, <1>12 DEF Own, OwnOf
<1>15. \A e \in Buffers : Holds(V, e)[x] = Times(e, OwnOf(n, b, s.wd[b], mbuf[b]))
  BY <1>4, <1>14 DEF Holds
<1>16. \A k : Fills(V, k)[x] = FillsOf(n, s.wd[b], k)
  BY <1>4, <1>7, <1>12 DEF Fills, FillsOf
<1>17. ASSUME NEW e \in Buffers
       PROVE  /\ s.pool[e] + Ind(e \in s.fl) + Ind(e \in s.lost)
                    + Times(e, OwnOf(n, b, s.wd[b], mbuf[b])) <= 1
              /\ s.pool[e] + Ind(e \in s.fl) <= 1
  <2>1. V.pool[e] + Refs(V, e, w) + Ind(e \in V.lost) <= 1 /\ V.pool[e] \in Nat
        /\ Ind(e \in V.lost) \in {0, 1} /\ Refs(V, e, w) \in Nat
    BY <1>1, BalanceAt
  <2>2. Load(Holds(V, e), Lists(V, w)) \in Nat /\ Times(e, V.cur[w].drops) \in Nat
        /\ Ind(e \in V.fl[w]) \in {0, 1}
    BY <1>1, <1>9, RefsNat
  <2>3. Holds(V, e) \in [Pairs -> Nat]
    BY <1>1, HoldsType
  <2>4. Load(Holds(V, e), Lists(V, w)) >= Holds(V, e)[x] /\ Holds(V, e)[x] \in Nat
    BY <1>4, <1>10, <2>3
  <2>5. Refs(V, e, w) = Load(Holds(V, e), Lists(V, w)) + Times(e, V.cur[w].drops) + Ind(e \in V.fl[w])
    BY DEF Refs
  <2> DEFINE p == V.pool[e]
             r == Refs(V, e, w)
             l == Load(Holds(V, e), Lists(V, w))
             t == Times(e, V.cur[w].drops)
             f == Ind(e \in V.fl[w])
             o == Ind(e \in V.lost)
             h == Holds(V, e)[x]
  <2>6. /\ p \in Int /\ r \in Int /\ l \in Int /\ t \in Int /\ f \in Int /\ o \in Int /\ h \in Int
        /\ p + r + o <= 1 /\ r = l + t + f /\ l >= h /\ t >= 0 /\ h >= 0 /\ o >= 0
    BY <2>1, <2>2, <2>4, <2>5
  <2> HIDE DEF p, r, l, t, f, o, h
  <2>7. p + f + o + h <= 1 /\ p + f <= 1
    BY <2>6
  <2>8. /\ V.pool[e] + Ind(e \in V.fl[w]) + Ind(e \in V.lost) + Holds(V, e)[x] <= 1
        /\ V.pool[e] + Ind(e \in V.fl[w]) <= 1
    BY <2>7 DEF p, f, o, h
  <2> QED BY <1>7, <1>15, <2>8
<1>18. s.wd[b] \in WdType
  BY <1>2, <1>4
<1> QED BY <1>4, <1>6, <1>13, <1>15, <1>16, <1>17, <1>18 DEF V, x

\* the away array of s is right
LEMMA MidAway ==
  ASSUME NEW w \in Workers, NEW s, Mid(w, s)
  PROVE  \A i \in 1 .. Len(s.c.away) :
           s.c.away[i][1] # w /\ sf_pkt_get_worker_index(mbuf[s.c.away[i][2]].pkt) = s.c.away[i][1]
<1>1. After(w, s).cur[w] = s.c /\ After(w, s).mbuf = mbuf
  BY AfterIs, Zenon DEF Mid
<1>2. RunInv(After(w, s), w)
  BY DEF Mid, Sound
<1> QED BY <1>1, <1>2 DEF RunInv, RunOf

\* one pair weighs what it is given
LEMMA WeighSingle ==
  ASSUME NEW h \in [Pairs -> Nat], NEW x \in Pairs
  PROVE  Weigh(h, <<x>>) = h[x]
<1>1. Append(<<>>, x) = <<x>> /\ <<>> \in Seq(Pairs)
  OBVIOUS
<1>2. Weigh(h, Append(<<>>, x)) = Weigh(h, <<>>) + h[x]
  BY <1>1, WeighAppend, Zenon
<1>3. Weigh(h, <<>>) = 0 /\ h[x] \in Nat
  BY WeighEmpty
<1> QED BY <1>1, <1>2, <1>3

\* s after its first packet went on to node m, with x for its wd
Pushed(s, x, pool, fl, bp, st, spoil, m, drops) ==
  [w |-> s.w, wd |-> [s.wd EXCEPT ![Head(s.c.left)] = x], pool |-> pool, fl |-> fl, bp |-> bp,
   st |-> st, c |-> [s.c EXCEPT !.left = Tail(@), !.to = Append(s.c.to, <<m, Head(s.c.left)>>),
                                !.away = s.c.away, !.drops = drops],
   lost |-> s.lost, spoilt |-> spoil]

PushBuffers(s, b, n, x, pool, fl, m, drops) ==
  \A e \in Buffers :
    pool[e] + Ind(e \in fl) + Times(e, drops) + Times(e, OwnOf(m, b, x, mbuf[b]))
    = s.pool[e] + Ind(e \in s.fl) + Times(e, s.c.drops) + Times(e, OwnOf(n, b, s.wd[b], mbuf[b]))
PushBlocks(w, s, b, n, x, bp, spoil, m) ==
  \A k \in Block : <<w, k>> \notin spoil =>
    bp[k] + FillsOf(m, x, k) = s.bp[k] + FillsOf(n, s.wd[b], k)

\* the packet goes to node m, and nothing is lost or doubled
Pushes(w, s, x, pool, fl, bp, spoil, m, drops) ==
  LET b == Head(s.c.left)
      n == s.c.node
  IN /\ x \in WdType /\ pool \in [Buffers -> Nat] /\ fl \in SUBSET Buffers
     /\ bp \in [Block -> Nat] /\ s.spoilt \subseteq spoil /\ m \in Nodes
     /\ drops \in Seq(Buffers) /\ (drops # <<>> => n = HugeInputNode)
     /\ FitOf(w, m, b, x, mbuf[b])
     /\ PushBuffers(s, b, n, x, pool, fl, m, drops)
     /\ PushBlocks(w, s, b, n, x, bp, spoil, m)
\* s2 is s, one packet further
Further(w, s, s2) == Mid(w, s2) /\ s2.c.left = Tail(s.c.left) /\ s2.c.node = s.c.node

\* One packet that goes on, at one node, with the buffers and the block it has.
LEMMA PushStep ==
  ASSUME NEW w \in Workers, NEW s, Mid(w, s), s.c.left # <<>>, s.c.node \in Looping,
         NEW x, NEW pool, NEW fl, NEW bp, NEW st, NEW spoil, NEW m, NEW drops,
         Pushes(w, s, x, pool, fl, bp, spoil, m, drops)
  PROVE  Further(w, s, Pushed(s, x, pool, fl, bp, st, spoil, m, drops))
<1> SUFFICES ASSUME NEW b, b = Head(s.c.left), NEW n, n = s.c.node,
                    x \in WdType, pool \in [Buffers -> Nat], fl \in SUBSET Buffers,
                    bp \in [Block -> Nat], s.spoilt \subseteq spoil, m \in Nodes,
                    drops \in Seq(Buffers), drops # <<>> => n = HugeInputNode,
                    FitOf(w, m, b, x, mbuf[b]),
                    PushBuffers(s, b, n, x, pool, fl, m, drops),
                    PushBlocks(w, s, b, n, x, bp, spoil, m),
                    NEW s2, s2 = Pushed(s, x, pool, fl, bp, st, spoil, m, drops)
             PROVE  Mid(w, s2) /\ s2.c.left = Tail(s.c.left) /\ s2.c.node = s.c.node
  BY DEF Pushes, Further
<1> DEFINE y == <<m, b>>
           come == <<y>>
           to == Append(s.c.to, y)
           V2 == After(w, s2)
<1>1. /\ b \in Buffers /\ s.wd \in [Buffers -> WdType] /\ s.lost \subseteq Buffers /\ s.c \in RunType
      /\ Sound(Now) /\ s.w = w
  BY HeadFit, MidTypes DEF Mid
<1>2. s.c.to \in Seq(Pairs) /\ s.c.away \in Seq(Away)
      /\ s.c = [node |-> s.c.node, frame |-> s.c.frame, left |-> s.c.left, to |-> s.c.to,
              away |-> s.c.away, drops |-> s.c.drops, queue |-> s.c.queue, hand |-> s.c.hand]
  BY <1>1, RunTypes, Zenon
<1>3. y \in Pairs /\ come \in Seq(Pairs) /\ to \in Seq(Pairs) /\ Len(come) = 1 /\ come[1] = y
      /\ y[1] = m /\ y[2] = b
  BY <1>1, <1>2 DEF Pairs
<1>4. /\ s2.w = s.w /\ s2.wd = [s.wd EXCEPT ![b] = x] /\ s2.pool = pool /\ s2.fl = fl /\ s2.bp = bp
      /\ s2.c = [s.c EXCEPT !.left = Tail(@), !.to = to, !.away = s.c.away, !.drops = drops]
      /\ s2.lost = s.lost /\ s2.spoilt = spoil /\ IsState(s2)
  BY DEF Pushed, IsState
<1>5. s2.wd \in [Buffers -> WdType] /\ s2.wd[b] = x /\ \A e \in Buffers : e # b => s2.wd[e] = s.wd[e]
  BY <1>1, <1>4
<1>6. \A i \in 1 .. Len(s.c.away) :
       /\ s.c.away[i][1] # w /\ sf_pkt_get_worker_index(mbuf[s.c.away[i][2]].pkt) = s.c.away[i][1]
  BY MidAway, Zenon
<1> HIDE DEF y, come, to
<1>7. Handled(w, s, s2, to, s.c.away, drops)
  BY <1>1, <1>2, <1>3, <1>4, <1>5, <1>6 DEF Handled
<1>8. Comes(s, to, s.c.away, come)
  <2>1. ASSUME NEW h \in [Pairs -> Nat]
        PROVE  Weigh(h, to) + Weigh(AwayOf(h), s.c.away)
               = Weigh(h, s.c.to) + Weigh(AwayOf(h), s.c.away) + Weigh(h, come)
    <3>1. Weigh(h, to) = Weigh(h, s.c.to) + h[y]
      BY <1>2, <1>3, WeighAppend, Zenon DEF to
    <3>2. Weigh(h, come) = h[y]
      BY <1>3, WeighSingle, Zenon DEF come
    <3>3. Weigh(h, s.c.to) \in Nat /\ h[y] \in Nat
      BY <1>2, <1>3, WeighNat, Zenon
    <3>4. Weigh(AwayOf(h), s.c.away) \in Nat
      <4>1. AwayOf(h) \in [Away -> Nat]
        BY AwayOfType
      <4> QED BY <1>2, <4>1, WeighNat
    <3> QED BY <3>1, <3>2, <3>3, <3>4
  <2> QED BY <1>3, <2>1 DEF Comes
<1>9. V2.wd = s2.wd /\ V2.mbuf = mbuf
  BY <1>1, AfterIs, Zenon
<1>10. \A i \in 1 .. Len(come) : Fit(V2, w, come[i])
  <2>1. Fit(V2, w, y)
    BY <1>3, <1>5, <1>9 DEF Fit, FitOf
  <2> QED BY <1>3, <2>1
<1>11. ASSUME NEW e \in Buffers
       PROVE  /\ Weigh(Holds(V2, e), come) = Times(e, OwnOf(m, b, x, mbuf[b]))
              /\ Times(e, OwnOf(m, b, x, mbuf[b])) \in Nat
  <2>1. Own(V2, y) = OwnOf(m, b, x, mbuf[b])
    <3>1. V2.wd[b] = x /\ V2.mbuf[b] = mbuf[b]
      BY <1>5, <1>9, Zenon
    <3> HIDE DEF V2
    <3> QED BY <1>3, <3>1 DEF Own, OwnOf
  <2>2. Holds(V2, e)[y] = Times(e, OwnOf(m, b, x, mbuf[b]))
    BY <1>3, <2>1 DEF Holds
  <2>3. OwnOf(m, b, x, mbuf[b]) \in Seq(Buffers)
    <3>1. x.subs \in Seq(SegType) /\ mbuf[b].segs \in Seq(SegType)
      BY <1>1, Zenon DEF WdType, Sound, ViewType, Now
    <3>2. Bufs(x.subs) \in Seq(Buffers) /\ Bufs(mbuf[b].segs) \in Seq(Buffers) /\ <<b>> \in Seq(Buffers)
      BY <1>1, <3>1, BufsType
    <3> QED BY <3>2, Zenon DEF OwnOf
  <2>4. \A z \in Pairs : z # y => Holds(V2, e)[z] \in Nat
    <3> SUFFICES ASSUME NEW z \in Pairs
                 PROVE  Times(e, Own(V2, z)) \in Nat
      BY DEF Holds
    <3>0. z[1] \in Nodes /\ z[2] \in Buffers
      BY DEF Pairs
    <3>1. s2.wd[z[2]].subs \in Seq(SegType) /\ mbuf[z[2]].segs \in Seq(SegType)
      BY <1>1, <1>5, <3>0, Zenon DEF WdType, Sound, ViewType, Now
    <3>2. Bufs(s2.wd[z[2]].subs) \in Seq(Buffers) /\ Bufs(mbuf[z[2]].segs) \in Seq(Buffers) /\ <<z[2]>> \in Seq(Buffers)
      BY <3>0, <3>1, BufsType
    <3>3. Own(V2, z) \in Seq(Buffers)
      BY <1>9, <3>2, Zenon DEF Own
    <3>4. Own(V2, z) \in Seq(Nat)
      BY <3>3, BuffersNat
    <3> QED BY <3>4, TimesNat
  <2>5. Times(e, OwnOf(m, b, x, mbuf[b])) \in Nat
    <3>1. OwnOf(m, b, x, mbuf[b]) \in Seq(Nat)
      BY <2>3, BuffersNat
    <3> QED BY <3>1, TimesNat
  <2>6. Holds(V2, e) \in [Pairs -> Nat]
    <3>1. \A z \in Pairs : Holds(V2, e)[z] \in Nat
      BY <2>2, <2>4, <2>5
    <3>2. Holds(V2, e) = [z \in Pairs |-> Holds(V2, e)[z]]
      BY DEF Holds
    <3> QED BY <3>1, <3>2
  <2>7. Weigh(Holds(V2, e), come) = Holds(V2, e)[y]
    BY <1>3, <2>6, WeighSingle DEF come
  <2> QED BY <2>2, <2>5, <2>7, Zenon
<1>12. ASSUME NEW k
       PROVE  Weigh(Fills(V2, k), come) = FillsOf(m, x, k)
  <2>1. Fills(V2, k)[y] = FillsOf(m, x, k)
    BY <1>3, <1>5, <1>9 DEF Fills, FillsOf
  <2>2. Weigh(Fills(V2, k), come) = Fills(V2, k)[y]
    BY <1>3, FillsType, WeighSingle, Zenon DEF come
  <2> QED BY <2>1, <2>2
<1>13. BuffersKept(w, s, s2, come)
  <2> SUFFICES ASSUME NEW e \in Buffers
               PROVE  s2.pool[e] + Ind(e \in s2.fl) + Times(e, s2.c.drops) + Ind(e \in s2.lost)
                        + Weigh(Holds(After(w, s2), e), come)
                      = s.pool[e] + Ind(e \in s.fl) + Times(e, s.c.drops) + Ind(e \in s.lost)
                        + Holds(After(w, s), e)[<<s.c.node, Head(s.c.left)>>]
    BY Zenon DEF BuffersKept
  <2> DEFINE o1 == Times(e, OwnOf(n, b, s.wd[b], mbuf[b]))
             o2 == Times(e, OwnOf(m, b, x, mbuf[b]))
             t1 == Times(e, s.c.drops)
             t2 == Times(e, drops)
             p1 == s.pool[e]
             p2 == pool[e]
             f1 == Ind(e \in s.fl)
             f2 == Ind(e \in fl)
             i == Ind(e \in s.lost)
  <2>1. Holds(After(w, s), e)[<<s.c.node, Head(s.c.left)>>] = o1
    BY HeadFit
  <2>2. Weigh(Holds(After(w, s2), e), come) = o2
    BY <1>11, Zenon
  <2>3. s2.c.drops = drops
    BY <1>2, <1>4, Zenon
  <2>4. p2 + f2 + t2 + o2 = p1 + f1 + t1 + o1
    BY DEF PushBuffers
  <2>5. p1 \in Int /\ p2 \in Int /\ f1 \in Int /\ f2 \in Int /\ i \in Int
    <3>1. s.pool \in [Buffers -> Nat]
      BY MidTypes
    <3> QED BY <3>1 DEF Ind
  <2>6. t1 \in Int /\ t2 \in Int
    <3>1. s.c.drops \in Seq(Nat) /\ drops \in Seq(Nat)
      BY <1>1, RunTypes, BuffersNat
    <3>2. Times(e, s.c.drops) \in Nat /\ Times(e, drops) \in Nat
      BY <3>1, TimesNat, Zenon
    <3> QED BY <3>2
  <2>7. o1 \in Int
    <3>1. ViewType(After(w, s)) /\ <<s.c.node, Head(s.c.left)>> \in Pairs
      BY HeadFit DEF Mid, Sound
    <3>2. Holds(After(w, s), e) \in [Pairs -> Nat]
      BY <3>1, HoldsType
    <3> QED BY <2>1, <3>1, <3>2
  <2>8. o2 \in Int
    BY <1>11
  <2> HIDE DEF o1, o2, t1, t2, p1, p2, f1, f2, i
  <2>9. p2 + f2 + t2 + i + o2 = p1 + f1 + t1 + i + o1
    <3> DEFINE a == p2 + f2 + t2
               c == p1 + f1 + t1
    <3>1. a \in Int /\ c \in Int
      BY <2>5, <2>6
    <3>2. a + o2 = c + o1
      BY <2>4
    <3> HIDE DEF a, c
    <3>3. a + i + o2 = c + i + o1
      BY <2>5, <2>7, <2>8, <3>1, <3>2
    <3> QED BY <3>3 DEF a, c
  <2> QED BY <1>4, <2>1, <2>2, <2>3, <2>9, Zenon DEF o1, o2, t1, t2, p1, p2, f1, f2, i
<1>14. BlocksKept(w, s, s2, come)
  <2> SUFFICES ASSUME NEW k \in Block, <<w, k>> \notin spoil
               PROVE  s2.bp[k] + Weigh(Fills(After(w, s2), k), come)
                      = s.bp[k] + Fills(After(w, s), k)[<<s.c.node, Head(s.c.left)>>]
    BY <1>4 DEF BlocksKept
  <2>1. Fills(After(w, s), k)[<<s.c.node, Head(s.c.left)>>] = FillsOf(n, s.wd[b], k)
    BY HeadFit, Zenon
  <2>2. bp[k] + FillsOf(m, x, k) = s.bp[k] + FillsOf(n, s.wd[b], k)
    BY DEF PushBlocks
  <2> QED BY <1>4, <1>12, <2>1, <2>2, Zenon
<1> HIDE DEF V2
<1>15. \A i \in 1 .. Len(come) : Fit(After(w, s2), w, come[i])
  BY <1>10 DEF V2
<1> QED BY <1>7, <1>8, <1>13, <1>14, <1>15, PacketStep, Zenon

-----------------------------------------------------------------------------
(* The sums of the model *)

\* There is one running sum.
LEMMA SumsUnique ==
  ASSUME NEW n \in Nat, NEW f, NEW F, F[0] = 0, \A i \in 1 .. n : F[i] = F[i - 1] + f[i]
  PROVE  \A k \in 0 .. n : F[k] = Sums(f, n)[k]
<1> DEFINE G == Sums(f, n)
           S == {k \in 0 .. n : F[k] = G[k]}
<1>1. G[0] = 0 /\ \A k \in 1 .. n : G[k] = G[k - 1] + f[k]
  BY SumsStep
<1> HIDE DEF G
<1>2. 0 \in S
  BY <1>1
<1>3. \A k \in 0 .. n : k < n /\ k \in S => k + 1 \in S
  <2> SUFFICES ASSUME NEW k \in 0 .. n, k < n, F[k] = G[k]
               PROVE  k + 1 \in 0 .. n /\ F[k + 1] = G[k + 1]
    OBVIOUS
  <2>1. k + 1 \in 1 .. n /\ (k + 1) - 1 = k
    OBVIOUS
  <2>2. F[k + 1] = F[k] + f[k + 1] /\ G[k + 1] = G[k] + f[k + 1]
    BY <1>1, <2>1
  <2> QED BY <2>1, <2>2
<1> HIDE DEF S
<1>4. \A k \in 0 .. n : k \in S
  BY <1>2, <1>3, UpTo
<1> QED BY <1>4 DEF S, G

\* SumSeq of a sequence is the sum of its terms.
LEMMA SumSeqIs ==
  ASSUME NEW s, Len(s) \in Nat
  PROVE  SumSeq(s) = SumTo(s, Len(s))
<1> DEFINE n == Len(s)
           Step(a, i) == CHOOSE r \in {x + s[i] : x \in {a}} : TRUE
           Is(F) == F = [i \in 0 .. n |-> IF i = 0 THEN 0 ELSE Step(F[i - 1], i)]
           G == Sums(s, n)
           F0 == CHOOSE F : Is(F)
<1>1. \A a, i : Step(a, i) = a + s[i]
  OBVIOUS
<1> HIDE DEF Step
<1>2. G = [k \in 0 .. n |-> IF k = 0 THEN 0 ELSE G[k - 1] + s[k]]
  BY SumsExist, Zenon
<1>3. Is(G)
  <2> DEFINE a == [k \in 0 .. n |-> IF k = 0 THEN 0 ELSE G[k - 1] + s[k]]
             b == [i \in 0 .. n |-> IF i = 0 THEN 0 ELSE Step(G[i - 1], i)]
  <2> HIDE DEF G
  <2>1. \A k \in 0 .. n : a[k] = b[k]
    BY <1>1
  <2>2. a = [k \in 0 .. n |-> a[k]] /\ b = [k \in 0 .. n |-> b[k]]
    OBVIOUS
  <2>3. a = b
    <3> HIDE DEF a, b
    <3> QED BY <2>1, <2>2
  <2> QED BY <1>2, <2>3
<1>4. Is(F0)
  <2> HIDE DEF Is, G
  <2> QED BY <1>3
<1>5. SumSeq(s) = F0[n]
  BY Zenon DEF SumSeq, Fold, Step
<1> HIDE DEF F0
<1>6. F0[0] = 0 /\ \A i \in 1 .. n : F0[i] = F0[i - 1] + s[i]
  <2>1. F0 = [i \in 0 .. n |-> IF i = 0 THEN 0 ELSE Step(F0[i - 1], i)]
    BY <1>4
  <2>2. 0 \in 0 .. n /\ \A i \in 1 .. n : i \in 0 .. n /\ i # 0
    OBVIOUS
  <2> QED BY <1>1, <2>1, <2>2
<1>7. \A k \in 0 .. n : F0[k] = Sums(s, n)[k]
  BY <1>6, SumsUnique
<1>8. n \in 0 .. n
  OBVIOUS
<1> QED BY <1>5, <1>7, <1>8 DEF SumTo

\* A sum of integers is one.
LEMMA SumSeqType ==
  ASSUME NEW s, Len(s) \in Nat, \A i \in 1 .. Len(s) : s[i] \in Int
  PROVE  SumSeq(s) \in Int
<1>1. \A k \in 0 .. Len(s) : Sums(s, Len(s))[k] \in Int
  BY SumsInt
<1>2. Len(s) \in 0 .. Len(s)
  OBVIOUS
<1> QED BY <1>1, <1>2, SumSeqIs DEF SumTo

\* the lengths of segments
LEMMA ContentsType ==
  ASSUME NEW segs \in Seq(SegType)
  PROVE  Contents(segs) \in Int
<1>1. Len(segs) \in Nat /\ \A i \in 1 .. Len(segs) : segs[i].len \in Int
  <2>1. \A i \in 1 .. Len(segs) : segs[i] \in SegType
    OBVIOUS
  <2> QED BY <2>1 DEF SegType
<1> DEFINE s == Lens(segs)
<1>2. s = [i \in 1 .. Len(segs) |-> segs[i].len]
  BY DEF Lens
<1>3. s \in Seq(Int) /\ Len(s) = Len(segs) /\ \A i \in 1 .. Len(segs) : s[i] \in Int
  <2>1. s = [i \in 1 .. Len(segs) |-> s[i]] /\ \A i \in 1 .. Len(segs) : s[i] \in Int
    BY <1>1, <1>2
  <2> HIDE DEF s
  <2> QED BY <1>1, <2>1, SeqFrom
<1> HIDE DEF s
<1>4. SumSeq(s) \in Int
  BY <1>1, <1>3, SumSeqType
<1> QED BY <1>4 DEF Contents, s

-----------------------------------------------------------------------------
(* The nodes that handle their packets in loops *)

\* t and u differ in nothing but their statistics
SameButStat(t, u) ==
  /\ IsState(u) /\ u.w = t.w /\ u.wd = t.wd /\ u.pool = t.pool /\ u.fl = t.fl /\ u.bp = t.bp
  /\ u.c = t.c /\ u.lost = t.lost /\ u.spoilt = t.spoilt

\* Counting changes the statistics only.
LEMMA CountIs == \A t, f, i, k : IsState(t) => SameButStat(t, Count(t, f, i, k))
BY DEF IsState, SameButStat, Count

WithWd(t, b, x) == [t EXCEPT !.wd[b] = x]
WithRun(t, c) == [t EXCEPT !.c = c]

\* u is t with other wd, or with another run
WdSet(t, wds, u) ==
  /\ IsState(u) /\ u.w = t.w /\ u.wd = wds /\ u.pool = t.pool /\ u.fl = t.fl /\ u.bp = t.bp
  /\ u.st = t.st /\ u.c = t.c /\ u.lost = t.lost /\ u.spoilt = t.spoilt
RunSet(t, c, u) ==
  /\ IsState(u) /\ u.w = t.w /\ u.wd = t.wd /\ u.pool = t.pool /\ u.fl = t.fl /\ u.bp = t.bp
  /\ u.st = t.st /\ u.c = c /\ u.lost = t.lost /\ u.spoilt = t.spoilt

\* Writing a packet's window data changes these only.
LEMMA WdIs == \A t, b, x : IsState(t) => WdSet(t, [t.wd EXCEPT ![b] = x], WithWd(t, b, x))
BY DEF IsState, WithWd, WdSet

\* Writing the run changes the run only.
LEMMA RunIs == \A t, c : IsState(t) => RunSet(t, c, WithRun(t, c))
BY DEF IsState, WithRun, RunSet

\* the first packet is taken from those that are left
LEMMA Popped ==
  ASSUME NEW s, IsState(s)
  PROVE  RunSet(s, [s.c EXCEPT !.left = Tail(@)], Pop(s))
<1> DEFINE c == [s.c EXCEPT !.left = Tail(@)]
<1>1. Pop(s) = WithRun(s, c)
  BY DEF Pop, WithRun
<1> HIDE DEF c
<1>2. RunSet(s, c, WithRun(s, c))
  BY RunIs
<1> QED BY <1>1, <1>2 DEF c

\* t is what node n = s.c.node made of s and its first packet b, before it sends b on to
\* node m; x is the wd of b
Sends(w, s, t, x, m) ==
  LET b == Head(s.c.left)
      n == s.c.node
  IN /\ IsState(t) /\ t.w = w /\ t.wd = [s.wd EXCEPT ![b] = x] /\ t.lost = s.lost
     /\ t.pool \in [Buffers -> Nat] /\ t.fl \in SUBSET Buffers /\ t.bp \in [Block -> Nat]
     /\ s.spoilt \subseteq t.spoilt /\ x \in WdType /\ m \in Nodes /\ t.c.drops \in Seq(Buffers)
     /\ t.c = [s.c EXCEPT !.left = Tail(@), !.drops = t.c.drops]
     /\ t.c.drops # <<>> => n = HugeInputNode
     /\ FitOf(w, m, b, x, mbuf[b])
     /\ PushBuffers(s, b, n, x, t.pool, t.fl, m, t.c.drops)
     /\ PushBlocks(w, s, b, n, x, t.bp, t.spoilt, m)

\* A packet sent on unchanged.
LEMMA Sent ==
  ASSUME NEW w \in Workers, NEW s, Mid(w, s), s.c.left # <<>>, s.c.node \in Looping,
         NEW t, NEW x, NEW m, Sends(w, s, t, x, m)
  PROVE  Further(w, s, To(t, m, Head(s.c.left)))
<1> DEFINE c == s.c
           b == Head(s.c.left)
           s2 == To(t, m, b)
           drops == t.c.drops
           pool == t.pool
           fl == t.fl
           bp == t.bp
           st == t.st
           spoil == t.spoilt
           c2 == [t.c EXCEPT !.to = Append(@, <<m, b>>)]
<1>1. c = [node |-> c.node, frame |-> c.frame, left |-> c.left, to |-> c.to,
              away |-> c.away, drops |-> c.drops, queue |-> c.queue, hand |-> c.hand]
  BY MidTypes, RunTypes
<1>2. RunSet(t, c2, s2)
  <2>1. s2 = WithRun(t, c2)
    BY DEF To, WithRun
  <2>2. IsState(t)
    BY DEF Sends
  <2> HIDE DEF s2, c2
  <2> QED BY <2>1, <2>2, RunIs
<1>3. c2 = [c EXCEPT !.left = Tail(@), !.to = Append(c.to, <<m, b>>), !.away = c.away, !.drops = drops]
  <2>1. t.c = [c EXCEPT !.left = Tail(@), !.drops = drops]
    BY DEF Sends
  <2> HIDE DEF c, drops
  <2> QED BY <1>1, <2>1
<1>4. t.w = s.w /\ t.wd = [s.wd EXCEPT ![b] = x] /\ t.lost = s.lost
  BY DEF Sends, Mid
<1>5. s2 = Pushed(s, x, pool, fl, bp, st, spoil, m, drops)
  <2> HIDE DEF s2, c2
  <2> QED BY <1>2, <1>3, <1>4 DEF Pushed, RunSet, IsState
<1>6. Pushes(w, s, x, pool, fl, bp, spoil, m, drops)
  BY DEF Sends, Pushes
<1> HIDE DEF s2, drops, pool, fl, bp, st, spoil, b
<1>7. Further(w, s, s2)
  BY <1>5, <1>6, PushStep, Zenon
<1> QED BY <1>7 DEF s2, b

\* The window data that sf-dpdk-input writes for a packet is typed.
LEMMA NoWdataIs ==
  ASSUME NEW i \in Intf, NEW l \in Int, NEW v \in Seq(SegType)
  PROVE  LET y == [NoWdata EXCEPT !.intf = i, !.rec = TRUE, !.len = l]
             z == [y EXCEPT !.huge = TRUE, !.subs = v]
         IN /\ y \in WdType /\ ~y.huge /\ ~y.handed
            /\ z \in WdType /\ z.huge /\ z.subs = v /\ ~z.handed
<1> DEFINE y == [NoWdata EXCEPT !.intf = i, !.rec = TRUE, !.len = l]
           z == [y EXCEPT !.huge = TRUE, !.subs = v]
<1>1. NoWdata \in WdType /\ NoWdata.huge = FALSE /\ NoWdata.handed = FALSE
  BY DEF NoWdata, WdType
<1>2. y \in WdType /\ y.huge = NoWdata.huge /\ y.handed = NoWdata.handed
  BY <1>1 DEF WdType
<1> HIDE DEF y
<1>3. z \in WdType /\ z.huge = TRUE /\ z.subs = v /\ z.handed = y.handed
  BY <1>2 DEF WdType
<1> HIDE DEF z
<1>4. y.huge = FALSE /\ y.handed = FALSE /\ z.handed = FALSE
  BY <1>1, <1>2, <1>3
<1> QED BY <1>2, <1>3, <1>4, Zenon DEF y, z

\* One packet of dpdk_process_rx_burst.
LEMMA RxTook ==
  ASSUME NEW w \in Workers, NEW s, Mid(w, s), s.c.left # <<>>, s.c.node = RxNode, NEW s2,
         s2 = RxPacket(w, Pop(s), Head(s.c.left))
  PROVE  Further(w, s, s2)
<1> DEFINE b == Head(s.c.left)
           t == Pop(s)
           segs == mbuf[b].segs
           x == SubseqSegs([NoWdata EXCEPT !.intf = RxIntf[w], !.rec = TRUE, !.len = segs[1].len], segs)
           m == RxNext(w, x)
           u == WithWd(t, b, x)
<1>1. s.c.node \in Looping
  BY DEF Looping, Nodes, RxNode, DropNode, TxNodes, N, Tx
<1>2. /\ b \in Buffers /\ FitOf(w, RxNode, b, s.wd[b], mbuf[b])
      /\ \A k : FillsOf(RxNode, s.wd[b], k) = 0
  <2>1. RxNode \notin Gathered
    BY DEF Gathered, RxNode, HugeOutNode, DropNode, N
  <2> QED BY <1>1, <2>1, HeadFit, Zenon DEF FillsOf
<1>3. segs \in Seq(SegType) /\ segs # <<>> /\ segs[1].buf = b /\ segs[1] \in SegType /\ mbuf[b] \in MbufType
  <2>1. segs \in Seq(SegType) /\ segs # <<>> /\ segs[1].buf = b /\ mbuf[b] \in MbufType
    BY <1>2, Zenon DEF FitOf, MbufType
  <2> HIDE DEF segs
  <2> QED BY <2>1
<1>4. /\ s.wd \in [Buffers -> WdType] /\ s.pool \in [Buffers -> Nat] /\ s.fl \in SUBSET Buffers
      /\ s.bp \in [Block -> Nat] /\ s.c \in RunType /\ s.lost \subseteq Buffers
      /\ s.c.drops \in Seq(Buffers) /\ IsState(s) /\ s.w = w
  BY MidTypes, RunTypes, Zenon DEF Mid
<1>5. x \in WdType /\ ~x.handed /\ (x.huge => x.subs = segs)
      /\ (Len(segs) >= 2 => x.huge) /\ (~(Len(segs) >= 2) => ~x.huge)
  <2> DEFINE y == [NoWdata EXCEPT !.intf = RxIntf[w], !.rec = TRUE, !.len = segs[1].len]
             z == [y EXCEPT !.huge = TRUE, !.subs = segs]
  <2>1. x = IF Len(segs) < 2 THEN y ELSE z
    BY Zenon DEF SubseqSegs
  <2>2. RxIntf[w] \in Intf /\ segs[1].len \in Int /\ segs \in Seq(SegType)
    BY <1>3, PacketAssumption DEF SegType
  <2>3. /\ y \in WdType /\ ~y.huge /\ ~y.handed
        /\ z \in WdType /\ z.huge /\ z.subs = segs /\ ~z.handed
    BY <2>2, NoWdataIs, Zenon
  <2>4. Len(segs) < 2 <=> ~(Len(segs) >= 2)
    <3> DEFINE k == Len(segs)
    <3>1. k \in Nat
      BY <2>2
    <3> HIDE DEF k
    <3>2. k < 2 <=> ~(k >= 2)
      BY <3>1
    <3> QED BY <3>2 DEF k
  <2> HIDE DEF x, y, z
  <2> QED BY <2>1, <2>3, <2>4, Zenon
<1>8. m \in Nodes /\ m \in {HandoffNode, HugeInputNode, N("graph")}
      /\ (m = HugeInputNode => x.huge) /\ (x.huge => m \in Before)
      /\ (m = N("graph") => ~x.huge) /\ (~x.huge => m # HugeInputNode)
  <2> HIDE DEF x
  <2>1. HugeInputNode # N("graph") /\ HandoffNode # N("graph") /\ HugeInputNode # HandoffNode
    BY DEF HugeInputNode, HandoffNode, N
  <2> QED BY <2>1 DEF RxNext, Nodes, Before
<1> HIDE DEF x, m
<1>9. RxNode \notin Before \cup TxNodes /\ m \notin TxNodes /\ m # RxNode /\ m # HfInputNode /\ m # HugeOutNode
  BY <1>8 DEF Before, TxNodes, Tx, RxNode, HandoffNode, HugeInputNode, HfInputNode, HugeOutNode, N
<1>10. FitOf(w, m, b, x, mbuf[b])
  <2> HIDE DEF b
  <2>1. x.huge => x.subs # <<>> /\ x.subs[1].buf = b
    BY <1>3, <1>5
  <2> QED BY <1>3, <1>5, <1>8, <1>9, <2>1 DEF FitOf
<1>11. OwnOf(m, b, x, mbuf[b]) = OwnOf(RxNode, b, s.wd[b], mbuf[b])
  <2>1. OwnOf(RxNode, b, s.wd[b], mbuf[b]) = Bufs(segs)
    BY DEF OwnOf
  <2>2. CASE x.huge
    BY <1>5, <1>8, <1>9, <2>1, <2>2 DEF OwnOf
  <2>3. CASE ~x.huge
    <3>1. OwnOf(m, b, x, mbuf[b]) = <<b>>
      BY <1>9, <2>3 DEF OwnOf
    <3>2. Bufs(segs) \in Seq(Buffers) /\ Len(Bufs(segs)) = Len(segs) /\ \A i \in 1 .. Len(segs) : Bufs(segs)[i] = segs[i].buf
      BY <1>3, BufsType
    <3> DEFINE q == Bufs(segs)
    <3> HIDE DEF segs, q, b
    <3>3. Len(segs) = 1
      <4>1. Len(segs) \in Nat /\ Len(segs) # 0
        BY <1>3
      <4>2. ~(Len(segs) >= 2)
        BY <1>5, <2>3, Zenon
      <4> DEFINE k == Len(segs)
      <4> HIDE DEF k
      <4>3. k \in Nat /\ k # 0 /\ ~(k >= 2)
        BY <4>1, <4>2 DEF k
      <4>4. k = 1
        BY <4>3
      <4> QED BY <4>4 DEF k
    <3>4. q \in Seq(Buffers) /\ Len(q) = 1 /\ q[1] = b
      BY <1>3, <3>2, <3>3 DEF q
    <3>5. q = <<b>>
      BY <3>4
    <3> QED BY <2>1, <3>1, <3>5 DEF q
  <2> QED BY <2>2, <2>3
<1>12. \A k : FillsOf(m, x, k) = 0
  <2>1. x.huge => m \notin Gathered
    BY <1>8 DEF Gathered, Before, HandoffNode, HfInputNode, HugeInputNode, HugeOutNode, DropNode, N
  <2> QED BY <2>1 DEF FillsOf
<1>13. /\ IsState(t) /\ t.w = s.w /\ t.wd = s.wd /\ t.pool = s.pool /\ t.fl = s.fl /\ t.bp = s.bp
       /\ t.c = [s.c EXCEPT !.left = Tail(@)] /\ t.lost = s.lost /\ t.spoilt = s.spoilt
  BY <1>4, Popped DEF RunSet
<1> HIDE DEF t, b
<1>14. /\ IsState(u) /\ u.w = t.w /\ u.wd = [t.wd EXCEPT ![b] = x] /\ u.pool = t.pool
       /\ u.fl = t.fl /\ u.bp = t.bp /\ u.c = t.c /\ u.lost = t.lost /\ u.spoilt = t.spoilt
  <2>1. WdSet(t, [t.wd EXCEPT ![b] = x], u)
    BY <1>13, WdIs
  <2> HIDE DEF u
  <2> QED BY <2>1 DEF WdSet
<1> HIDE DEF u
<1>15. s2 = To(u, m, Head(s.c.left))
  BY Zenon DEF RxPacket, u, m, x, t, b, WithWd
<1>16. u.c = [s.c EXCEPT !.left = Tail(@), !.drops = s.c.drops] /\ u.c.drops = s.c.drops
  BY <1>4, <1>13, <1>14, Zenon DEF RunType
<1>18. s.c.drops = <<>>
  <2>1. RunInv(After(w, s), w) /\ After(w, s).cur[w] = s.c
    BY AfterIs, Zenon DEF Mid, Sound
  <2>2. RxNode # HugeInputNode
    BY DEF RxNode, HugeInputNode, N
  <2> QED BY <2>1, <2>2 DEF RunInv, RunOf
<1>19. PushBuffers(s, b, s.c.node, x, u.pool, u.fl, m, u.c.drops) /\ PushBlocks(w, s, b, s.c.node, x, u.bp, u.spoilt, m)
  BY <1>2, <1>11, <1>12, <1>13, <1>14, <1>16 DEF PushBuffers, PushBlocks
<1>20. Sends(w, s, u, x, m)
  BY <1>19, <1>2, <1>4, <1>5, <1>8, <1>10, <1>13, <1>14, <1>16, <1>18, Zenon DEF Sends, b
<1> QED BY <1>1, <1>15, <1>20, Sent

\* what a node finds: its first packet b, and the state without it
LEMMA TookFrom ==
  ASSUME NEW w \in Workers, NEW s, Mid(w, s), s.c.left # <<>>, s.c.node \in Looping
  PROVE  LET b == Head(s.c.left)
             n == s.c.node
             t == Pop(s)
         IN /\ b \in Buffers /\ FitOf(w, n, b, s.wd[b], mbuf[b]) /\ s.wd[b] = wd[b] /\ s.wd[b] \in WdType
            /\ s.wd \in [Buffers -> WdType] /\ s.pool \in [Buffers -> Nat] /\ s.fl \in SUBSET Buffers
            /\ s.bp \in [Block -> Nat] /\ s.lost \subseteq Buffers /\ s.c.drops \in Seq(Buffers)
            /\ (s.c.drops # <<>> => n = HugeInputNode)
            /\ IsState(t) /\ t.w = w /\ t.wd = s.wd /\ t.pool = s.pool /\ t.fl = s.fl /\ t.bp = s.bp
            /\ t.lost = s.lost /\ t.spoilt = s.spoilt /\ t.c.drops = s.c.drops
<1>1. LET b == Head(s.c.left)
          n == s.c.node
      IN b \in Buffers /\ FitOf(w, n, b, s.wd[b], mbuf[b]) /\ s.wd[b] = wd[b] /\ s.wd[b] \in WdType
  BY HeadFit, Zenon
<1>2. /\ s.wd \in [Buffers -> WdType] /\ s.pool \in [Buffers -> Nat] /\ s.fl \in SUBSET Buffers
      /\ s.bp \in [Block -> Nat] /\ s.c \in RunType /\ s.lost \subseteq Buffers
      /\ s.c.drops \in Seq(Buffers) /\ IsState(s) /\ s.w = w
  BY MidTypes, RunTypes DEF Mid
<1>3. s.c.drops # <<>> => s.c.node = HugeInputNode
  <2>1. RunInv(After(w, s), w) /\ After(w, s).cur[w] = s.c
    BY AfterIs, Zenon DEF Mid, Sound
  <2> QED BY <2>1, Zenon DEF RunInv, RunOf
<1>4. RunSet(s, [s.c EXCEPT !.left = Tail(@)], Pop(s))
  BY <1>2, Popped
<1>5. [s.c EXCEPT !.left = Tail(@)] = [s.c EXCEPT !.left = Tail(@), !.drops = s.c.drops]
      /\ [s.c EXCEPT !.left = Tail(@)].drops = s.c.drops
  BY <1>2 DEF RunType
<1>6. LET t == Pop(s)
      IN /\ IsState(t) /\ t.w = w /\ t.wd = s.wd /\ t.pool = s.pool /\ t.fl = s.fl /\ t.bp = s.bp
         /\ t.lost = s.lost /\ t.spoilt = s.spoilt /\ t.c.drops = s.c.drops
  BY <1>2, <1>4, <1>5 DEF RunSet
<1> HIDE DEF Pop
<1> QED BY <1>1, <1>2, <1>3, <1>6, Zenon

\* its run without that packet
LEMMA TookRun ==
  ASSUME NEW w \in Workers, NEW s, Mid(w, s)
  PROVE  Pop(s).c = [s.c EXCEPT !.left = Tail(@), !.drops = s.c.drops]
<1>1. s.c \in RunType /\ IsState(s)
  BY MidTypes DEF Mid
<1>2. RunSet(s, [s.c EXCEPT !.left = Tail(@)], Pop(s))
  BY <1>1, Popped
<1>3. [s.c EXCEPT !.left = Tail(@)] = [s.c EXCEPT !.left = Tail(@), !.drops = s.c.drops]
  BY <1>1 DEF RunType
<1> QED BY <1>2, <1>3 DEF RunSet

\* u is s with its first packet b passed on to node m as it is, with x for its wd
Passing(w, s, u, x, m) ==
  LET b == Head(s.c.left)
      n == s.c.node
      t == Pop(s)
  IN /\ IsState(u) /\ u.w = w /\ u.wd = [s.wd EXCEPT ![b] = x] /\ u.pool = s.pool /\ u.fl = s.fl
     /\ u.bp \in [Block -> Nat] /\ u.c = t.c /\ u.lost = s.lost /\ s.spoilt \subseteq u.spoilt
     /\ x \in WdType /\ m \in Nodes /\ FitOf(w, m, b, x, mbuf[b])
     /\ OwnOf(m, b, x, mbuf[b]) = OwnOf(n, b, s.wd[b], mbuf[b])
     /\ PushBlocks(w, s, b, n, x, u.bp, u.spoilt, m)

\* A packet sent on by a node that changes its window data but not what it
\* holds.
LEMMA Passed ==
  ASSUME NEW w \in Workers, NEW s, Mid(w, s), s.c.left # <<>>, s.c.node \in Looping,
         NEW u, NEW x, NEW m, Passing(w, s, u, x, m)
  PROVE  Further(w, s, To(u, m, Head(s.c.left)))
<1> DEFINE b == Head(s.c.left)
           t == Pop(s)
<1>1. /\ s.pool \in [Buffers -> Nat] /\ s.fl \in SUBSET Buffers
      /\ s.c.drops \in Seq(Buffers) /\ (s.c.drops # <<>> => s.c.node = HugeInputNode)
      /\ t.c = [s.c EXCEPT !.left = Tail(@), !.drops = s.c.drops] /\ t.c.drops = s.c.drops
  <2>1. t.c = [s.c EXCEPT !.left = Tail(@), !.drops = s.c.drops]
    BY TookRun
  <2>2. /\ s.pool \in [Buffers -> Nat] /\ s.fl \in SUBSET Buffers
        /\ s.c.drops \in Seq(Buffers) /\ (s.c.drops # <<>> => s.c.node = HugeInputNode)
        /\ t.c.drops = s.c.drops
    BY TookFrom, Zenon
  <2> QED BY <2>1, <2>2
<1> HIDE DEF t
<1>2. /\ IsState(u) /\ u.w = w /\ u.wd = [s.wd EXCEPT ![b] = x] /\ u.pool = s.pool /\ u.fl = s.fl
      /\ u.bp \in [Block -> Nat] /\ u.c = t.c /\ u.lost = s.lost /\ s.spoilt \subseteq u.spoilt
      /\ x \in WdType /\ m \in Nodes /\ FitOf(w, m, b, x, mbuf[b])
      /\ OwnOf(m, b, x, mbuf[b]) = OwnOf(s.c.node, b, s.wd[b], mbuf[b])
      /\ PushBlocks(w, s, b, s.c.node, x, u.bp, u.spoilt, m)
  BY Zenon DEF Passing, t
<1>3. PushBuffers(s, b, s.c.node, x, u.pool, u.fl, m, u.c.drops)
  BY <1>1, <1>2, Zenon DEF PushBuffers
<1> HIDE DEF b
<1>4. u.c = [s.c EXCEPT !.left = Tail(@), !.drops = u.c.drops] /\ u.c.drops \in Seq(Buffers)
      /\ (u.c.drops # <<>> => s.c.node = HugeInputNode)
  BY <1>1, <1>2
<1>5. Sends(w, s, u, x, m)
  BY <1>1, <1>2, <1>3, <1>4, Zenon DEF Sends, b
<1> QED BY <1>5, Sent

\* where nothing is in a block before or after
LEMMA NoFills ==
  ASSUME NEW w, NEW s, NEW b, NEW n, NEW x, NEW u, NEW m, u.bp = s.bp,
         \A k : FillsOf(m, x, k) = FillsOf(n, s.wd[b], k)
  PROVE  PushBlocks(w, s, b, n, x, u.bp, u.spoilt, m)
BY DEF PushBlocks

\* sf_pkt_handoff, of a packet that stays, and sf_pkt_hf_input
LEMMA HandedOn ==
  ASSUME NEW w \in Workers, NEW s, Mid(w, s), s.c.left # <<>>,
         s.c.node \in {HandoffNode, HfInputNode},
         sf_pkt_get_worker_index(mbuf[Head(s.c.left)].pkt) = w
  PROVE  Further(w, s, HfPacket(Pop(s), Head(s.c.left)))
<1> DEFINE b == Head(s.c.left)
           n == s.c.node
           t == Pop(s)
           x == [s.wd[b] EXCEPT !.handed = TRUE]
           m == InputNode(wd[b])
           v == WithWd(t, b, x)
           u == CountHandoff(t, b)
<1>1. n \in Looping /\ n \in Before /\ n \notin Gathered /\ n # RxNode
  BY DEF Looping, Nodes, RxNode, DropNode, TxNodes, N, Tx, Before, HandoffNode, HfInputNode, Gathered, HugeOutNode
<1>2. /\ b \in Buffers /\ FitOf(w, n, b, s.wd[b], mbuf[b]) /\ s.wd[b] = wd[b] /\ s.wd[b] \in WdType
      /\ s.wd \in [Buffers -> WdType] /\ s.pool \in [Buffers -> Nat] /\ s.fl \in SUBSET Buffers
      /\ s.bp \in [Block -> Nat] /\ s.lost \subseteq Buffers
      /\ IsState(t) /\ t.w = w /\ t.wd = s.wd /\ t.pool = s.pool /\ t.fl = s.fl /\ t.bp = s.bp
      /\ t.lost = s.lost /\ t.spoilt = s.spoilt
  BY <1>1, TookFrom, Zenon
<1>3. x \in WdType /\ x.huge = s.wd[b].huge /\ x.subs = s.wd[b].subs
  <2> DEFINE y == s.wd[b]
  <2>1. y \in WdType /\ x = [y EXCEPT !.handed = TRUE]
    BY <1>2
  <2> HIDE DEF y
  <2> QED BY <2>1, Zenon DEF WdType, y
<1>4. m \in {HugeInputNode, N("graph")} /\ (x.huge <=> m = HugeInputNode) /\ m \in Nodes
      /\ m \notin TxNodes /\ m \notin {RxNode, HandoffNode, HfInputNode, HugeOutNode}
      /\ (m \in Before <=> m = HugeInputNode) /\ (m \in Gathered <=> m = N("graph"))
  BY <1>2, <1>3, Zenon DEF InputNode, HugeInputNode, HandoffNode, HfInputNode, HugeOutNode, RxNode, N, Nodes, Before,
     TxNodes, Tx, Gathered, DropNode
<1>5. FitOf(w, m, b, x, mbuf[b])
  BY <1>1, <1>2, <1>3, <1>4, Zenon DEF FitOf
<1>6. OwnOf(m, b, x, mbuf[b]) = OwnOf(n, b, s.wd[b], mbuf[b])
  BY <1>1, <1>3, <1>4 DEF OwnOf
<1>7. \A k : FillsOf(m, x, k) = FillsOf(n, s.wd[b], k)
  <2>1. HugeInputNode # N("graph")
    BY DEF HugeInputNode, N
  <2> HIDE DEF x, m, n
  <2>2. ~(m \in Gathered /\ x.huge)
    BY <1>4, <2>1
  <2> QED BY <1>1, <2>2 DEF FillsOf
<1>8. WdSet(t, [t.wd EXCEPT ![b] = x], v)
  <2> HIDE DEF t, x
  <2> QED BY <1>2, WdIs, Zenon
<1>9. SameButStat(v, u)
  <2>1. u = Count(v, "handoff", wd[b].intf, 1)
    BY <1>2, Zenon DEF CountHandoff, v, WithWd
  <2>2. IsState(v)
    BY <1>8, Zenon DEF WdSet
  <2> HIDE DEF u, v
  <2> QED BY <2>1, <2>2, CountIs, Zenon
<1> HIDE DEF x, m, u, v, t, b, n
<1>10. /\ IsState(u) /\ u.w = w /\ u.wd = [s.wd EXCEPT ![b] = x] /\ u.pool = s.pool /\ u.fl = s.fl
       /\ u.bp = s.bp /\ u.c = t.c /\ u.lost = s.lost /\ u.spoilt = s.spoilt
  BY <1>2, <1>8, <1>9 DEF WdSet, SameButStat
<1>11. PushBlocks(w, s, b, n, x, u.bp, u.spoilt, m)
  BY <1>7, <1>10, NoFills, Zenon
<1>12. Passing(w, s, u, x, m)
  BY <1>2, <1>3, <1>4, <1>5, <1>6, <1>10, <1>11, Zenon DEF Passing, b, n, t
<1>13. Further(w, s, To(u, m, Head(s.c.left)))
  BY <1>1, <1>12, Passed DEF n
<1> QED BY <1>13, Zenon DEF HfPacket, u, m, b, t

\* what the handoff computes is a worker
LEMMA WorkerIndex ==
  ASSUME NEW p \in Packet
  PROVE  sf_pkt_get_worker_index(p) \in Workers
<1>1. Hash(HashKey(p)) \in Nat
  BY DEF Packet
<1>2. Cardinality(Workers) \in Nat \ {0} /\ Workers = 1 .. Cardinality(Workers)
  <2>1. Cardinality(Workers) \in Nat /\ Workers = 1 .. Cardinality(Workers) /\ Workers # {}
    BY WorkersAre, PacketAssumption
  <2> DEFINE n == Cardinality(Workers)
  <2> HIDE DEF n
  <2>2. n \in Nat /\ 1 .. n # {}
    BY <2>1 DEF n
  <2>3. n # 0
    BY <2>2
  <2> QED BY <2>1, <2>2, <2>3 DEF n
<1>3. \A h \in Nat, n \in Nat \ {0} : 1 + (h % n) \in 1 .. n
  OBVIOUS
<1> QED BY <1>1, <1>2, <1>3 DEF sf_pkt_get_worker_index

\* sf_pkt_handoff, of a packet of another worker
LEMMA HandedAway ==
  ASSUME NEW w \in Workers, NEW s, Mid(w, s), s.c.left # <<>>, s.c.node = HandoffNode,
         NEW v, v = sf_pkt_get_worker_index(mbuf[Head(s.c.left)].pkt), v # w
  PROVE  Further(w, s, [Pop(s) EXCEPT !.c.away = Append(@, <<v, Head(s.c.left)>>)])
<1> DEFINE b == Head(s.c.left)
           n == s.c.node
           t == Pop(s)
           c2 == [t.c EXCEPT !.away = Append(@, <<v, b>>)]
           s2 == [t EXCEPT !.c.away = Append(@, <<v, b>>)]
           away == Append(s.c.away, <<v, b>>)
           V == After(w, s)
           V2 == After(w, s2)
           come == <<<<HandoffNode, b>>>>
<1>1. n \in Looping /\ n \in Nodes /\ n = HandoffNode /\ n \notin Gathered
  BY DEF Looping, Nodes, RxNode, DropNode, TxNodes, N, Tx, Before, HandoffNode, HfInputNode, Gathered, HugeOutNode
<1>2. /\ b \in Buffers /\ FitOf(w, n, b, s.wd[b], mbuf[b])
      /\ s.wd \in [Buffers -> WdType] /\ s.pool \in [Buffers -> Nat] /\ s.fl \in SUBSET Buffers
      /\ s.bp \in [Block -> Nat] /\ s.lost \subseteq Buffers
      /\ s.c.drops \in Seq(Buffers) /\ (s.c.drops # <<>> => n = HugeInputNode)
      /\ IsState(t) /\ t.w = w /\ t.wd = s.wd /\ t.pool = s.pool /\ t.fl = s.fl /\ t.bp = s.bp
      /\ t.lost = s.lost /\ t.spoilt = s.spoilt
      /\ t.c = [s.c EXCEPT !.left = Tail(@), !.drops = s.c.drops]
  <2>1. t.c = [s.c EXCEPT !.left = Tail(@), !.drops = s.c.drops]
    BY TookRun
  <2>2. /\ b \in Buffers /\ FitOf(w, n, b, s.wd[b], mbuf[b])
        /\ s.wd \in [Buffers -> WdType] /\ s.pool \in [Buffers -> Nat] /\ s.fl \in SUBSET Buffers
        /\ s.bp \in [Block -> Nat] /\ s.lost \subseteq Buffers
        /\ s.c.drops \in Seq(Buffers) /\ (s.c.drops # <<>> => n = HugeInputNode)
        /\ IsState(t) /\ t.w = w /\ t.wd = s.wd /\ t.pool = s.pool /\ t.fl = s.fl /\ t.bp = s.bp
        /\ t.lost = s.lost /\ t.spoilt = s.spoilt
    BY <1>1, TookFrom, Zenon
  <2> QED BY <2>1, <2>2
<1>3. s.c \in RunType /\ Sound(Now) /\ Sound(V)
  BY MidTypes, Zenon DEF Mid
<1>4. RunSet(t, c2, s2)
  <2>1. s2 = WithRun(t, c2)
    BY DEF WithRun
  <2> HIDE DEF s2, c2, t
  <2> QED BY <1>2, <2>1, RunIs, Zenon
<1>5. s.c.to \in Seq(Pairs) /\ s.c.away \in Seq(Away)
      /\ s.c = [node |-> s.c.node, frame |-> s.c.frame, left |-> s.c.left, to |-> s.c.to,
              away |-> s.c.away, drops |-> s.c.drops, queue |-> s.c.queue, hand |-> s.c.hand]
  BY <1>3, RunTypes
<1>6. v \in Workers
  <2>1. mbuf[b] \in MbufType
    BY <1>2 DEF FitOf
  <2>2. mbuf[b].pkt \in Packet
    BY <2>1 DEF MbufType
  <2> QED BY <2>2, WorkerIndex
<1>7. c2 = [s.c EXCEPT !.left = Tail(@), !.to = s.c.to, !.away = away, !.drops = s.c.drops]
  <2> HIDE DEF t, b
  <2> QED BY <1>2, <1>5, Zenon
<1>8. /\ IsState(s2) /\ s2.w = w /\ s2.wd = s.wd /\ s2.pool = s.pool /\ s2.fl = s.fl /\ s2.bp = s.bp
      /\ s2.c = [s.c EXCEPT !.left = Tail(@), !.to = s.c.to, !.away = away, !.drops = s.c.drops]
      /\ s2.lost = s.lost /\ s2.spoilt = s.spoilt
  <2> HIDE DEF s2, c2, t, away
  <2> QED BY <1>2, <1>4, <1>7, Zenon DEF RunSet
<1> HIDE DEF s2, c2, t
<1>9. <<v, b>> \in Away /\ away \in Seq(Away) /\ Len(away) = Len(s.c.away) + 1
      /\ \A i \in 1 .. Len(away) : away[i] = IF i = Len(away) THEN <<v, b>> ELSE s.c.away[i]
  <2>1. <<v, b>> \in Away
    BY <1>2, <1>6, Zenon DEF Away
  <2> HIDE DEF b
  <2> QED BY <1>5, <2>1
<1>10. \A i \in 1 .. Len(away) :
         /\ away[i][1] # w /\ sf_pkt_get_worker_index(mbuf[away[i][2]].pkt) = away[i][1]
  <2> HIDE DEF b
  <2> SUFFICES ASSUME NEW i \in 1 .. Len(away)
               PROVE  away[i][1] # w /\ sf_pkt_get_worker_index(mbuf[away[i][2]].pkt) = away[i][1]
    OBVIOUS
  <2>1. CASE i = Len(away)
    <3>1. away[i] = <<v, b>>
      BY <1>9, <2>1, Zenon
    <3> HIDE DEF away
    <3> QED BY <3>1 DEF b
  <2>2. CASE i # Len(away)
    <3>1. away[i] = s.c.away[i] /\ i \in 1 .. Len(s.c.away)
      BY <1>5, <1>9, <2>2
    <3> HIDE DEF away
    <3> QED BY <3>1, MidAway
  <2> QED BY <2>1, <2>2, Zenon
<1>11. Handled(w, s, s2, s.c.to, away, s.c.drops)
  BY <1>2, <1>5, <1>8, <1>9, <1>10, Zenon DEF Handled
<1> DEFINE y == <<HandoffNode, b>>
<1>12. y \in Pairs /\ y[1] = n /\ y[2] = b /\ come \in Seq(Pairs) /\ Len(come) = 1 /\ come[1] = y /\ come = <<y>>
  BY <1>1, <1>2 DEF Pairs
<1> HIDE DEF come, y
<1>13. Comes(s, s.c.to, away, come)
  <2>1. ASSUME NEW h \in [Pairs -> Nat]
        PROVE  Weigh(h, s.c.to) + Weigh(AwayOf(h), away)
               = Weigh(h, s.c.to) + Weigh(AwayOf(h), s.c.away) + Weigh(h, come)
    <3>1. AwayOf(h) \in [Away -> Nat] /\ AwayOf(h)[<<v, b>>] = h[y]
      <4>1. AwayOf(h) \in [Away -> Nat]
        BY AwayOfType, Zenon
      <4> QED BY <1>9, <4>1, Zenon DEF AwayOf, y
    <3>2. Weigh(AwayOf(h), away) = Weigh(AwayOf(h), s.c.away) + h[y]
      BY <1>5, <1>9, <3>1, WeighAppend
    <3>3. Weigh(h, come) = h[y]
      BY <1>12, WeighSingle
    <3>4. Weigh(h, s.c.to) \in Nat /\ h[y] \in Nat /\ Weigh(AwayOf(h), s.c.away) \in Nat
      BY <1>5, <1>12, <3>1, WeighNat, Zenon
    <3> HIDE DEF away
    <3> QED BY <3>2, <3>3, <3>4
  <2> QED BY <1>12, <2>1 DEF Comes
<1>14. V2.wd = s.wd /\ V2.mbuf = mbuf /\ V.wd = s.wd /\ V.mbuf = mbuf
  BY <1>3, <1>8, AfterIs, Zenon
<1>15. \A i \in 1 .. Len(come) : Fit(V2, w, come[i])
  <2>1. Fit(V2, w, y)
    BY <1>1, <1>2, <1>12, <1>14, Zenon DEF Fit, FitOf
  <2> QED BY <1>12, <2>1
<1>16. y = <<s.c.node, Head(s.c.left)>>
  BY DEF y
<1>17. BuffersKept(w, s, s2, come)
  <2>1. ASSUME NEW e \in Buffers
        PROVE  Weigh(Holds(V2, e), come) = Holds(V, e)[y]
    <3>1. Holds(V2, e) = Holds(V, e)
      BY <1>14 DEF Holds, Own
    <3>2. Holds(V, e) \in [Pairs -> Nat]
      BY <1>3, HoldsType DEF Sound
    <3> HIDE DEF V, V2
    <3> QED BY <1>12, <3>1, <3>2, WeighSingle
  <2>2. s2.c.drops = s.c.drops
    BY <1>5, <1>8
  <2> HIDE DEF V, V2
  <2> QED BY <1>8, <1>16, <2>1, <2>2 DEF BuffersKept, V, V2
<1>18. BlocksKept(w, s, s2, come)
  <2>1. ASSUME NEW k \in Block
        PROVE  Weigh(Fills(V2, k), come) = Fills(V, k)[y]
    <3>1. Weigh(Fills(V2, k), come) = Fills(V2, k)[y]
      BY <1>12, FillsType, WeighSingle
    <3> QED BY <1>12, <1>14, <3>1 DEF Fills
  <2> HIDE DEF V, V2
  <2> QED BY <1>8, <1>16, <2>1, Zenon DEF BlocksKept, V, V2
<1> HIDE DEF away, V2
<1>19. \A i \in 1 .. Len(come) : Fit(After(w, s2), w, come[i])
  BY <1>15 DEF V2
<1>20. Mid(w, s2) /\ s2.c.left = Tail(s.c.left) /\ s2.c.node = s.c.node
  BY <1>1, <1>11, <1>13, <1>17, <1>18, <1>19, PacketStep
<1> QED BY <1>20 DEF Further, s2, t, b

\* One packet of sf_pkt_handoff.
LEMMA HandoffTook ==
  ASSUME NEW w \in Workers, NEW s, Mid(w, s), s.c.left # <<>>, s.c.node = HandoffNode
  PROVE  Further(w, s, HandoffPacket(w, Pop(s), Head(s.c.left)))
<1> DEFINE b == Head(s.c.left)
           t == sf_pkt_get_worker_index(mbuf[b].pkt)
<1>1. CASE t = w
  <2>1. HandoffPacket(w, Pop(s), b) = HfPacket(Pop(s), b)
    BY <1>1 DEF HandoffPacket, HfPacket
  <2>2. Further(w, s, HfPacket(Pop(s), b))
    BY <1>1, HandedOn
  <2> QED BY <2>1, <2>2
<1>2. CASE t # w
  <2>1. HandoffPacket(w, Pop(s), b) = [Pop(s) EXCEPT !.c.away = Append(@, <<t, b>>)]
    BY <1>2 DEF HandoffPacket
  <2>2. \A v : v = t => Further(w, s, [Pop(s) EXCEPT !.c.away = Append(@, <<v, b>>)])
    BY <1>2, HandedAway
  <2> QED BY <2>1, <2>2
<1> QED BY <1>1, <1>2

\* One packet of sf_pkt_hf_input.
LEMMA HfTook ==
  ASSUME NEW w \in Workers, NEW s, Mid(w, s), s.c.left # <<>>, s.c.node = HfInputNode
  PROVE  Further(w, s, HfPacket(Pop(s), Head(s.c.left)))
<1> DEFINE b == Head(s.c.left)
<1>1. HfInputNode \in Looping
  BY DEF Looping, Nodes, RxNode, DropNode, TxNodes, N, Tx, Before, HandoffNode, HfInputNode
<1>2. FitOf(w, HfInputNode, b, s.wd[b], mbuf[b])
  BY <1>1, HeadFit
<1>3. sf_pkt_get_worker_index(mbuf[b].pkt) = w
  BY <1>2, Zenon DEF FitOf
<1> QED BY <1>3, HandedOn

-----------------------------------------------------------------------------
(* sf_hugepkt_input *)

\* a sequence begins with its head
LEMMA TimesHead ==
  ASSUME NEW c, NEW s \in Seq(Buffers), s # <<>>
  PROVE  Times(c, s) = Times(c, <<Head(s)>>) + Times(c, Tail(s))
<1>1. Head(s) \in Buffers /\ Tail(s) \in Seq(Buffers) /\ s = <<Head(s)>> \o Tail(s)
  OBVIOUS
<1>2. <<Head(s)>> \in Seq(Nat) /\ Tail(s) \in Seq(Nat)
  <2>1. <<Head(s)>> \in Seq(Buffers)
    BY <1>1
  <2> QED BY <1>1, <2>1, BuffersNat
<1>3. Times(c, <<Head(s)>> \o Tail(s)) = Times(c, <<Head(s)>>) + Times(c, Tail(s))
  BY <1>2, TimesConcat
<1> QED BY <1>1, <1>3

\* the pool gives a block that is free, or none
LEMMA Allocated ==
  ASSUME NEW s
  PROVE  LET k == alloc_huge_pkt_16k(s)
         IN k = NoBlock \/ (k \in Block /\ s.bp[k] > 0)
<1> DEFINE S == {k \in Block : s.bp[k] > 0}
<1>1. CASE S = {}
  BY <1>1 DEF alloc_huge_pkt_16k
<1>2. CASE S # {}
  <2>1. S \subseteq Nat
    BY CapacityAssumption DEF Block
  <2> HIDE DEF S
  <2>2. \E m \in S : \A x \in S : m <= x
    BY <1>2, <2>1, Smallest
  <2>3. Min(S) \in S
    BY <2>2 DEF Min
  <2>4. alloc_huge_pkt_16k(s) = Min(S)
    BY <1>2 DEF alloc_huge_pkt_16k, S
  <2> QED BY <2>3, <2>4 DEF S
<1> QED BY <1>1, <1>2

WithLost(t, l) == [t EXCEPT !.lost = l]
LostSet(t, l, u) ==
  /\ IsState(u) /\ u.w = t.w /\ u.wd = t.wd /\ u.pool = t.pool /\ u.fl = t.fl /\ u.bp = t.bp
  /\ u.c = t.c /\ u.lost = l /\ u.spoilt = t.spoilt

\* Losing buffers changes the set of lost ones only.
LEMMA LostIs == \A t, l : IsState(t) => LostSet(t, l, WithLost(t, l))
BY DEF IsState, WithLost, LostSet

\* a packet that is too long for a block: its buffers are lost
LEMMA HugeLost ==
  ASSUME NEW w \in Workers, NEW s, Mid(w, s), s.c.left # <<>>, s.c.node = HugeInputNode,
         NEW s2, SameButStat([Pop(s) EXCEPT !.lost = @ \cup Range(Bufs(s.wd[Head(s.c.left)].subs))], s2)
  PROVE  Further(w, s, s2)
<1> DEFINE b == Head(s.c.left)
           n == s.c.node
           t == Pop(s)
           bs == Bufs(s.wd[b].subs)
           u == [t EXCEPT !.lost = @ \cup Range(bs)]
           V == After(w, s)
           V2 == After(w, s2)
<1>1. n \in Looping /\ n \in Nodes /\ n = HugeInputNode /\ n \notin Gathered /\ n \in Before /\ n # RxNode
  BY DEF Looping, Nodes, RxNode, DropNode, TxNodes, N, Tx, Before, HugeInputNode, Gathered, HugeOutNode
<1>2. /\ b \in Buffers /\ FitOf(w, n, b, s.wd[b], mbuf[b]) /\ s.wd[b] \in WdType
      /\ s.wd \in [Buffers -> WdType] /\ s.pool \in [Buffers -> Nat] /\ s.fl \in SUBSET Buffers
      /\ s.bp \in [Block -> Nat] /\ s.lost \subseteq Buffers
      /\ s.c.drops \in Seq(Buffers)
      /\ IsState(t) /\ t.w = w /\ t.wd = s.wd /\ t.pool = s.pool /\ t.fl = s.fl /\ t.bp = s.bp
      /\ t.lost = s.lost /\ t.spoilt = s.spoilt
      /\ t.c = [s.c EXCEPT !.left = Tail(@), !.drops = s.c.drops]
  <2>1. t.c = [s.c EXCEPT !.left = Tail(@), !.drops = s.c.drops]
    BY TookRun
  <2>2. /\ b \in Buffers /\ FitOf(w, n, b, s.wd[b], mbuf[b]) /\ s.wd[b] \in WdType
        /\ s.wd \in [Buffers -> WdType] /\ s.pool \in [Buffers -> Nat] /\ s.fl \in SUBSET Buffers
        /\ s.bp \in [Block -> Nat] /\ s.lost \subseteq Buffers
        /\ s.c.drops \in Seq(Buffers)
        /\ IsState(t) /\ t.w = w /\ t.wd = s.wd /\ t.pool = s.pool /\ t.fl = s.fl /\ t.bp = s.bp
        /\ t.lost = s.lost /\ t.spoilt = s.spoilt
    BY <1>1, TookFrom, Zenon
  <2> QED BY <2>1, <2>2
<1>3. s.c \in RunType
  BY MidTypes
<1>4. s.c.to \in Seq(Pairs) /\ s.c.away \in Seq(Away)
      /\ s.c = [node |-> s.c.node, frame |-> s.c.frame, left |-> s.c.left, to |-> s.c.to,
              away |-> s.c.away, drops |-> s.c.drops, queue |-> s.c.queue, hand |-> s.c.hand]
  BY <1>3, RunTypes
<1>5. OwnOf(n, b, s.wd[b], mbuf[b]) = bs
  BY <1>1, <1>2, Zenon DEF FitOf, OwnOf
<1>6. bs \in Seq(Buffers)
  BY <1>2, BufsType, Zenon DEF WdType
<1> HIDE DEF bs
<1>7. Range(bs) \subseteq Buffers
  BY <1>6 DEF Range
<1>8. /\ IsState(u) /\ u.w = w /\ u.wd = s.wd /\ u.pool = s.pool /\ u.fl = s.fl /\ u.bp = s.bp
      /\ u.lost = s.lost \cup Range(bs) /\ u.spoilt = s.spoilt /\ u.c = t.c
  <2> DEFINE l == t.lost \cup Range(bs)
  <2>1. u = WithLost(t, l)
    BY Zenon DEF WithLost
  <2> HIDE DEF t, u, l
  <2>2. LostSet(t, l, u)
    BY <1>2, <2>1, LostIs
  <2> QED BY <1>2, <2>2 DEF LostSet, l
<1>9. SameButStat(u, s2)
  BY Zenon DEF bs
<1> HIDE DEF u, t
<1>10. t.c = [s.c EXCEPT !.left = Tail(@), !.to = s.c.to, !.away = s.c.away, !.drops = s.c.drops]
  BY <1>2, <1>4
<1>11. /\ IsState(s2) /\ s2.w = w /\ s2.wd = s.wd /\ s2.pool = s.pool /\ s2.fl = s.fl /\ s2.bp = s.bp
       /\ s2.lost = s.lost \cup Range(bs) /\ s2.spoilt = s.spoilt
       /\ s2.c = [s.c EXCEPT !.left = Tail(@), !.to = s.c.to, !.away = s.c.away, !.drops = s.c.drops]
  BY <1>8, <1>9, <1>10, Zenon DEF SameButStat
<1>12. \A i \in 1 .. Len(s.c.away) :
         /\ s.c.away[i][1] # w /\ sf_pkt_get_worker_index(mbuf[s.c.away[i][2]].pkt) = s.c.away[i][1]
  BY MidAway, Zenon
<1>13. Handled(w, s, s2, s.c.to, s.c.away, s.c.drops)
  BY <1>1, <1>2, <1>4, <1>7, <1>11, <1>12 DEF Handled
<1>14. \A h : Weigh(h, <<>>) = 0
  BY WeighEmpty, Zenon
<1>15. Comes(s, s.c.to, s.c.away, <<>>)
  <2>1. ASSUME NEW h \in [Pairs -> Nat]
        PROVE  Weigh(h, s.c.to) \in Nat /\ Weigh(AwayOf(h), s.c.away) \in Nat
    <3>1. AwayOf(h) \in [Away -> Nat]
      BY AwayOfType
    <3> QED BY <1>4, <3>1, WeighNat
  <2> QED BY <1>14, <2>1 DEF Comes
<1>16. BuffersKept(w, s, s2, <<>>)
  <2> SUFFICES ASSUME NEW e \in Buffers
               PROVE  s2.pool[e] + Ind(e \in s2.fl) + Times(e, s2.c.drops) + Ind(e \in s2.lost) + 0
                      = s.pool[e] + Ind(e \in s.fl) + Times(e, s.c.drops) + Ind(e \in s.lost)
                        + Holds(After(w, s), e)[<<s.c.node, Head(s.c.left)>>]
    BY <1>14, Zenon DEF BuffersKept
  <2>1. Holds(After(w, s), e)[<<s.c.node, Head(s.c.left)>>] = Times(e, bs)
    BY <1>1, <1>5, HeadFit, Zenon
  <2>2. s.pool[e] + Ind(e \in s.fl) + Ind(e \in s.lost) + Times(e, bs) <= 1
    BY <1>1, <1>5, HeadFit
  <2>3. Times(e, bs) \in Nat /\ Times(e, s.c.drops) \in Nat
    BY <1>2, <1>6, BuffersNat, TimesNat, Zenon
  <2>4. s.pool[e] \in Nat /\ Ind(e \in s.fl) \in Nat /\ Ind(e \in s.lost) \in Nat
    BY <1>2, Zenon DEF Ind
  <2>5. e \in Range(bs) <=> Times(e, bs) # 0
    <3>1. bs \in Seq(Nat)
      BY <1>6, BuffersNat, Zenon
    <3>2. CASE e \in Range(bs)
      <4>1. PICK i \in DOMAIN bs : bs[i] = e
        BY <3>2 DEF Range
      <4>2. Times(bs[i], bs) >= 1
        BY <3>1, TimesSome, Zenon
      <4> QED BY <2>3, <3>2, <4>1, <4>2
    <3>3. CASE e \notin Range(bs)
      BY <3>1, <3>3, TimesNone DEF Range
    <3> QED BY <3>2, <3>3
  <2> DEFINE p == s.pool[e]
             f == Ind(e \in s.fl)
             l == Ind(e \in s.lost)
             l2 == Ind(e \in s2.lost)
             o == Times(e, bs)
             d == Times(e, s.c.drops)
  <2>6. l2 = l + o
    <3>1. p + f + l + o <= 1 /\ p \in Nat /\ f \in Nat /\ l \in Nat /\ o \in Nat
      BY <2>2, <2>3, <2>4, Zenon
    <3> HIDE DEF p, f, o
    <3>2. CASE o = 0
      BY <1>11, <2>5, <3>2 DEF Ind, o
    <3>3. CASE o # 0
      <4>1. l = 0 /\ o = 1
        <5> HIDE DEF l
        <5> QED BY <3>1, <3>3
      <4>2. l2 = 1
        BY <1>11, <2>5, <3>3, Zenon DEF Ind, o
      <4> QED BY <4>1, <4>2
    <3> QED BY <3>2, <3>3, Zenon
  <2>7. s2.pool[e] = p /\ Ind(e \in s2.fl) = f /\ s2.c.drops = s.c.drops
    BY <1>4, <1>11
  <2>8. p \in Nat /\ f \in Nat /\ l \in Nat /\ o \in Nat /\ d \in Nat
    BY <2>3, <2>4
  <2> HIDE DEF p, f, l, l2, o, d
  <2>9. p + f + d + l2 + 0 = p + f + d + l + o
    BY <2>6, <2>8
  <2> QED BY <2>1, <2>7, <2>9 DEF p, f, l, l2, o, d
<1>17. BlocksKept(w, s, s2, <<>>)
  <2>1. ASSUME NEW k \in Block
        PROVE  Fills(After(w, s), k)[<<s.c.node, Head(s.c.left)>>] = 0
    BY <1>1, HeadFit, Zenon DEF FillsOf
  <2>2. \A k \in Block : s.bp[k] \in Nat
    BY <1>2, Zenon
  <2> QED BY <1>11, <1>14, <2>1, <2>2, Zenon DEF BlocksKept
<1>18. \A i \in 1 .. Len(<<>>) : Fit(After(w, s2), w, <<>>[i])
  OBVIOUS
<1>19. Mid(w, s2) /\ s2.c.left = Tail(s.c.left) /\ s2.c.node = s.c.node
  BY <1>1, <1>13, <1>15, <1>16, <1>17, <1>18, PacketStep
<1> QED BY <1>19 DEF Further

WithBp(t, bp) == [t EXCEPT !.bp = bp]
BpSet(t, bp, u) ==
  /\ IsState(u) /\ u.w = t.w /\ u.wd = t.wd /\ u.pool = t.pool /\ u.fl = t.fl /\ u.bp = bp
  /\ u.st = t.st /\ u.c = t.c /\ u.lost = t.lost /\ u.spoilt = t.spoilt

\* Writing the pool of blocks changes that only.
LEMMA BpIs == \A t, bp : IsState(t) => BpSet(t, bp, WithBp(t, bp))
BY DEF IsState, WithBp, BpSet

\* a packet that is gathered: its other buffers wait to be freed
LEMMA HugeGathered ==
  ASSUME NEW w \in Workers, NEW s, Mid(w, s), s.c.left # <<>>, s.c.node = HugeInputNode,
         NEW k, k = NoBlock \/ (k \in Block /\ s.bp[k] > 0), NEW t, t = Pop(s),
         NEW b, b = Head(s.c.left), NEW y, y = s.wd[b]
  PROVE  Further(w, s, To([t EXCEPT !.bp = TakeBlock(@, k),
                                    !.wd[b] = [y EXCEPT !.len = Contents(y.subs), !.blk = k],
                                    !.c.drops = @ \o DropSubs(y.subs)], N("graph"), b))
<1> DEFINE n == s.c.node
           m == N("graph")
           bs == Bufs(y.subs)
           x == [y EXCEPT !.len = Contents(y.subs), !.blk = k]
           bp == TakeBlock(t.bp, k)
           u1 == WithBp(t, bp)
           u2 == WithWd(u1, b, x)
           c2 == [u2.c EXCEPT !.drops = @ \o DropSubs(y.subs)]
           u == [t EXCEPT !.bp = TakeBlock(@, k),
                          !.wd[b] = [y EXCEPT !.len = Contents(y.subs), !.blk = k],
                          !.c.drops = @ \o DropSubs(y.subs)]
<1>1. n \in Looping /\ n \in Nodes /\ n = HugeInputNode /\ n \notin Gathered /\ n \in Before /\ n # RxNode
  BY DEF Looping, Nodes, RxNode, DropNode, TxNodes, N, Tx, Before, HugeInputNode, Gathered, HugeOutNode
<1>2. m \in Nodes /\ m \in Gathered /\ m \notin Before \cup TxNodes
      /\ m \notin {RxNode, HugeInputNode, HugeOutNode, HandoffNode, HfInputNode}
  BY DEF Nodes, RxNode, DropNode, TxNodes, N, Tx, Before, HugeInputNode, Gathered, HugeOutNode, HandoffNode, HfInputNode
<1>3. /\ b \in Buffers /\ FitOf(w, n, b, y, mbuf[b]) /\ y \in WdType
      /\ s.wd \in [Buffers -> WdType] /\ s.pool \in [Buffers -> Nat] /\ s.fl \in SUBSET Buffers
      /\ s.bp \in [Block -> Nat] /\ s.lost \subseteq Buffers
      /\ s.c.drops \in Seq(Buffers)
      /\ IsState(t) /\ t.w = w /\ t.wd = s.wd /\ t.pool = s.pool /\ t.fl = s.fl /\ t.bp = s.bp
      /\ t.lost = s.lost /\ t.spoilt = s.spoilt
      /\ t.c = [s.c EXCEPT !.left = Tail(@), !.drops = s.c.drops] /\ t.c.drops = s.c.drops
  <2>1. t.c = [s.c EXCEPT !.left = Tail(@), !.drops = s.c.drops]
    BY TookRun
  <2>2. /\ b \in Buffers /\ FitOf(w, n, b, y, mbuf[b]) /\ y \in WdType
        /\ s.wd \in [Buffers -> WdType] /\ s.pool \in [Buffers -> Nat] /\ s.fl \in SUBSET Buffers
        /\ s.bp \in [Block -> Nat] /\ s.lost \subseteq Buffers
        /\ s.c.drops \in Seq(Buffers)
        /\ IsState(t) /\ t.w = w /\ t.wd = s.wd /\ t.pool = s.pool /\ t.fl = s.fl /\ t.bp = s.bp
        /\ t.lost = s.lost /\ t.spoilt = s.spoilt
        /\ t.c.drops = s.c.drops
    BY <1>1, TookFrom, Zenon
  <2> QED BY <2>1, <2>2
<1>4. y.huge /\ y.subs \in Seq(SegType) /\ y.subs # <<>> /\ y.subs[1].buf = b
  BY <1>1, <1>3, Zenon DEF FitOf, WdType
<1>5. bs \in Seq(Buffers) /\ bs # <<>> /\ Head(bs) = b /\ Tail(bs) \in Seq(Buffers)
  <2> DEFINE v == y.subs
  <2>0. v \in Seq(SegType) /\ v # <<>> /\ v[1].buf = b
    BY <1>4, Zenon
  <2>1. bs \in Seq(Buffers) /\ Len(bs) = Len(v) /\ \A i \in 1 .. Len(v) : bs[i] = v[i].buf
    BY <1>4, BufsType, Zenon
  <2> HIDE DEF bs, v
  <2>2. Len(v) \in Nat /\ Len(v) # 0
    BY <2>0
  <2>3. 1 \in 1 .. Len(v) /\ bs # <<>>
    BY <2>1, <2>2
  <2>4. Head(bs) = bs[1] /\ Tail(bs) \in Seq(Buffers)
    BY <2>1, <2>3
  <2> QED BY <2>0, <2>1, <2>3, <2>4
<1>6. DropSubs(y.subs) = Tail(bs)
  BY DEF DropSubs
<1>7. x \in WdType /\ x.huge /\ x.blk = k /\ x.handed = y.handed
  <2>1. Contents(y.subs) \in Int /\ k \in Block \cup {NoBlock}
    BY <1>4, ContentsType, Zenon
  <2> QED BY <1>3, <1>4, <2>1, Zenon DEF WdType
<1>8. bp \in [Block -> Nat] /\ \A j \in Block : bp[j] + (IF j = k THEN 1 ELSE 0) = s.bp[j]
  <2>1. CASE k = NoBlock
    <3>1. bp = s.bp
      BY <1>3, <2>1, Zenon DEF TakeBlock
    <3>2. \A j \in Block : j # k
      BY <2>1, CapacityAssumption DEF NoBlock, Block
    <3> HIDE DEF bp
    <3> QED BY <1>3, <3>1, <3>2
  <2>2. CASE k # NoBlock
    <3>1. k \in Block /\ s.bp[k] \in Nat /\ s.bp[k] > 0
      BY <1>3, <2>2
    <3>2. bp = [s.bp EXCEPT ![k] = @ - 1]
      BY <1>3, <2>2, Zenon DEF TakeBlock
    <3> HIDE DEF bp
    <3> QED BY <1>3, <3>1, <3>2
  <2> QED BY <2>1, <2>2
<1>9. /\ IsState(u) /\ u.w = w /\ u.wd = [s.wd EXCEPT ![b] = x] /\ u.pool = s.pool /\ u.fl = s.fl
      /\ u.bp = bp /\ u.c = c2 /\ u.lost = s.lost /\ u.spoilt = s.spoilt /\ u2.c = t.c
  <2>1. u = WithRun(u2, c2)
    BY DEF WithRun, WithWd, WithBp
  <2> HIDE DEF u, bp, x, c2
  <2>2. BpSet(t, bp, u1)
    <3> QED BY <1>3, BpIs
  <2> HIDE DEF u1
  <2>3. WdSet(u1, [u1.wd EXCEPT ![b] = x], u2)
    <3>1. IsState(u1)
      BY <2>2 DEF BpSet
    <3> QED BY <3>1, WdIs
  <2> HIDE DEF u2
  <2>4. RunSet(u2, c2, u)
    <3>1. IsState(u2)
      BY <2>3 DEF WdSet
    <3> QED BY <2>1, <3>1, RunIs
  <2> QED BY <1>3, <2>2, <2>3, <2>4 DEF BpSet, WdSet, RunSet
<1> HIDE DEF u, u1, u2, bp, x, bs
<1>10. c2 = [s.c EXCEPT !.left = Tail(@), !.drops = s.c.drops \o Tail(bs)]
       /\ c2.drops = s.c.drops \o Tail(bs) /\ s.c.drops \o Tail(bs) \in Seq(Buffers)
  <2>1. s.c \in RunType
    BY MidTypes, Zenon
  <2> DEFINE q == s.c.drops \o Tail(bs)
  <2>2. c2 = [t.c EXCEPT !.drops = q]
    BY <1>3, <1>6, <1>9, Zenon
  <2>3. q \in Seq(Buffers)
    BY <1>3, <1>5
  <2> HIDE DEF c2, q
  <2>4. c2 = [s.c EXCEPT !.left = Tail(@), !.drops = q] /\ c2.drops = q
    BY <1>3, <2>1, <2>2 DEF RunType
  <2> QED BY <2>3, <2>4, Zenon DEF q
<1> HIDE DEF c2
<1>11. FitOf(w, m, b, x, mbuf[b])
  BY <1>1, <1>2, <1>3, <1>7, Zenon DEF FitOf, RxNode, HandoffNode, HugeInputNode, N
<1>12. ASSUME NEW e \in Buffers
       PROVE  Times(e, s.c.drops \o Tail(bs)) + Times(e, OwnOf(m, b, x, mbuf[b]))
              = Times(e, s.c.drops) + Times(e, OwnOf(n, b, y, mbuf[b]))
              /\ Times(e, s.c.drops) \in Nat /\ Times(e, s.c.drops \o Tail(bs)) \in Nat
              /\ Times(e, OwnOf(m, b, x, mbuf[b])) \in Nat /\ Times(e, OwnOf(n, b, y, mbuf[b])) \in Nat
  <2>1. OwnOf(m, b, x, mbuf[b]) = <<b>> /\ OwnOf(n, b, y, mbuf[b]) = bs
    BY <1>1, <1>2, <1>4, Zenon DEF OwnOf, bs
  <2>2. Times(e, bs) = Times(e, <<b>>) + Times(e, Tail(bs))
    BY <1>5, TimesHead
  <2>3. Times(e, s.c.drops \o Tail(bs)) = Times(e, s.c.drops) + Times(e, Tail(bs))
    BY <1>3, <1>5, BuffersNat, TimesConcat, Zenon
  <2>4. /\ Times(e, <<b>>) \in Nat /\ Times(e, bs) \in Nat /\ Times(e, Tail(bs)) \in Nat
        /\ Times(e, s.c.drops) \in Nat
    <3>1. <<b>> \in Seq(Buffers)
      BY <1>3
    <3> QED BY <1>3, <1>5, <3>1, BuffersNat, TimesNat, Zenon
  <2> QED BY <2>1, <2>2, <2>3, <2>4
<1>13. /\ IsState(u) /\ u.w = w /\ u.wd = [s.wd EXCEPT ![b] = x] /\ u.pool = s.pool /\ u.fl = s.fl
       /\ u.bp = bp /\ u.lost = s.lost /\ u.spoilt = s.spoilt
       /\ u.c = [s.c EXCEPT !.left = Tail(@), !.drops = s.c.drops \o Tail(bs)]
       /\ u.c.drops = s.c.drops \o Tail(bs)
  BY <1>9, <1>10
<1>14. PushBuffers(s, b, n, x, u.pool, u.fl, m, u.c.drops)
  <2> SUFFICES ASSUME NEW e \in Buffers
               PROVE  s.pool[e] + Ind(e \in s.fl) + Times(e, s.c.drops \o Tail(bs))
                        + Times(e, OwnOf(m, b, x, mbuf[b]))
                      = s.pool[e] + Ind(e \in s.fl) + Times(e, s.c.drops) + Times(e, OwnOf(n, b, y, mbuf[b]))
    BY <1>13 DEF PushBuffers
  <2>1. s.pool[e] \in Nat /\ Ind(e \in s.fl) \in Nat
    BY <1>3, Zenon DEF Ind
  <2> DEFINE p == s.pool[e]
             f == Ind(e \in s.fl)
             d1 == Times(e, s.c.drops)
             d2 == Times(e, s.c.drops \o Tail(bs))
             o1 == Times(e, OwnOf(n, b, y, mbuf[b]))
             o2 == Times(e, OwnOf(m, b, x, mbuf[b]))
  <2>2. p \in Nat /\ f \in Nat /\ d2 + o2 = d1 + o1 /\ d1 \in Nat /\ d2 \in Nat /\ o1 \in Nat /\ o2 \in Nat
    BY <1>12, <2>1
  <2> HIDE DEF p, f, d1, d2, o1, o2
  <2>3. p + f + d2 + o2 = p + f + d1 + o1
    BY <2>2
  <2> QED BY <2>3, Zenon DEF p, f, d1, d2, o1, o2
<1>15. PushBlocks(w, s, b, n, x, u.bp, u.spoilt, m)
  <2> SUFFICES ASSUME NEW j \in Block
               PROVE  bp[j] + FillsOf(m, x, j) = s.bp[j] + FillsOf(n, y, j)
    BY <1>13 DEF PushBlocks
  <2>1. FillsOf(m, x, j) = IF j = k THEN 1 ELSE 0
    BY <1>2, <1>7 DEF FillsOf
  <2>2. FillsOf(n, y, j) = 0
    BY <1>1 DEF FillsOf
  <2>3. bp[j] + (IF j = k THEN 1 ELSE 0) = s.bp[j] /\ s.bp[j] \in Nat
    BY <1>3, <1>8
  <2> QED BY <2>1, <2>2, <2>3
<1> HIDE DEF m
<1>16. Sends(w, s, u, x, m)
  BY <1>1, <1>2, <1>3, <1>7, <1>8, <1>10, <1>11, <1>13, <1>14, <1>15, Zenon DEF Sends
<1>17. Further(w, s, To(u, m, Head(s.c.left)))
  BY <1>1, <1>16, Sent
<1> QED BY <1>17 DEF u, m

\* One packet of sf_hugepkt_input, gathered, too long or without a block.
LEMMA HugeTook ==
  ASSUME NEW w \in Workers, NEW s, Mid(w, s), s.c.left # <<>>, s.c.node = HugeInputNode
  PROVE  Further(w, s, handle_huge_packet(Pop(s), Head(s.c.left)))
<1> DEFINE t == Pop(s)
           b == Head(s.c.left)
           y == s.wd[b]
           k == alloc_huge_pkt_16k(t)
           r == handle_huge_packet(t, b)
<1>1. t.wd = s.wd /\ t.bp = s.bp /\ IsState(t)
  <2>1. HugeInputNode \in Looping
    BY DEF Looping, Nodes, RxNode, DropNode, TxNodes, N, Tx, Before, HugeInputNode
  <2> QED BY <2>1, TookFrom, Zenon
<1>2. CASE TooLong(y)
  <2> DEFINE u == [t EXCEPT !.lost = @ \cup Range(Bufs(y.subs))]
  <2>1. r = Count(u, "drop_packets", y.intf, 1)
    BY <1>1, <1>2 DEF handle_huge_packet
  <2>2. IsState(u)
    <3> DEFINE l == t.lost \cup Range(Bufs(y.subs))
    <3>1. u = WithLost(t, l)
      BY DEF WithLost
    <3> HIDE DEF t, u, l
    <3>2. LostSet(t, l, u)
      BY <1>1, <3>1, LostIs, Zenon
    <3> QED BY <3>2 DEF LostSet
  <2>3. SameButStat(u, r)
    <3> HIDE DEF u, r
    <3> QED BY <2>1, <2>2, CountIs, Zenon
  <2> HIDE DEF r
  <2>4. Further(w, s, r)
    BY <2>3, HugeLost
  <2> QED BY <2>4 DEF r
<1>3. CASE ~TooLong(y)
  <2>1. k = NoBlock \/ (k \in Block /\ s.bp[k] > 0)
    <3> HIDE DEF t
    <3> QED BY <1>1, Allocated
  <2>2. r = To([t EXCEPT !.bp = TakeBlock(@, k),
                         !.wd[b] = [y EXCEPT !.len = Contents(y.subs), !.blk = k],
                         !.c.drops = @ \o DropSubs(y.subs)], N("graph"), b)
    BY <1>1, <1>3 DEF handle_huge_packet
  <2> HIDE DEF r, k
  <2>3. \A t1, b1, y1 : t1 = t /\ b1 = b /\ y1 = y =>
          Further(w, s, To([t1 EXCEPT !.bp = TakeBlock(@, k),
                            !.wd[b1] = [y1 EXCEPT !.len = Contents(y1.subs), !.blk = k],
                            !.c.drops = @ \o DropSubs(y1.subs)], N("graph"), b1))
    BY <2>1, HugeGathered, Zenon
  <2>4. Further(w, s, r)
    BY <2>2, <2>3, Zenon
  <2> QED BY <2>4 DEF r
<1> QED BY <1>2, <1>3

-----------------------------------------------------------------------------
(* Steps in which a worker gives nothing away *)

\* the same packets, in the same buffers
Still(V, V2, w) ==
  /\ OthersSame(V, V2, w)
  /\ V2.wd = V.wd /\ V2.mbuf = V.mbuf /\ V2.lost = V.lost /\ V2.spoilt = V.spoilt
  /\ \A h \in [Pairs -> Nat] : Load(h, Lists(V2, w)) = Load(h, Lists(V, w))
  /\ \A e \in Buffers : V2.pool[e] + Ind(e \in V2.fl[w]) + Times(e, V2.cur[w].drops)
                        = V.pool[e] + Ind(e \in V.fl[w]) + Times(e, V.cur[w].drops)

\* A step that moves nothing keeps the state sound.
LEMMA StillSound ==
  ASSUME NEW V, NEW V2, NEW w \in Workers, Sound(V), ViewType(V2), RunInv(V2, w),
         Still(V, V2, w), BlocksAt(V2, w)
  PROVE  Sound(V2)
<1> DEFINE R == Lists(V2, w)
           none == <<>>
<1>1. R \in ListsType
  BY ListsTypes
<1>2. \A h : Weigh(h, none) = 0
  BY WeighEmpty
<1>3. none \in Seq(Pairs) /\ Len(none) = 0
  OBVIOUS
<1> HIDE DEF none
<1>4. Moves(V, V2, w, R, none, none)
  <2> SUFFICES ASSUME NEW h \in [Pairs -> Nat]
               PROVE  /\ Load(h, Lists(V, w)) = Load(h, R) + Weigh(h, none)
                      /\ Load(h, Lists(V2, w)) = Load(h, R) + Weigh(h, none)
    BY <1>1, <1>3 DEF Moves
  <2>1. Load(h, R) \in Nat
    BY <1>1, LoadNat
  <2>2. Load(h, Lists(V2, w)) = Load(h, Lists(V, w))
    BY DEF Still
  <2> QED BY <1>2, <2>1, <2>2
<1>5. BuffersMove(V, V2, w, none, none)
  <2> SUFFICES ASSUME NEW e \in Buffers
               PROVE  V2.pool[e] + Ind(e \in V2.fl[w]) + Times(e, V2.cur[w].drops) + Ind(e \in V2.lost) + 0
                      = V.pool[e] + Ind(e \in V.fl[w]) + Times(e, V.cur[w].drops) + Ind(e \in V.lost) + 0
    BY <1>2 DEF BuffersMove
  <2> QED BY DEF Still
<1>6. OthersSame(V, V2, w) /\ Owned(V, V2, w, none) /\ V.spoilt \subseteq V2.spoilt
  BY DEF Still, Owned
<1>7. \A i \in 1 .. Len(none) : Fit(V2, w, none[i])
  BY <1>3
<1> HIDE DEF R
<1> QED BY <1>4, <1>5, <1>6, <1>7, Moved

\* And the blocks in balance.
LEMMA StillBlocks ==
  ASSUME NEW V, NEW V2, NEW w \in Workers, Sound(V), V2.wd = V.wd, V2.spoilt = V.spoilt,
         V2.bp[w] = V.bp[w],
         \A h \in [Pairs -> Nat] : Load(h, LeftLists(V2, w)) = Load(h, LeftLists(V, w))
  PROVE  BlocksAt(V2, w)
<1> SUFFICES ASSUME NEW k \in Block, <<w, k>> \notin V2.spoilt
             PROVE  V2.bp[w][k] + Load(Fills(V2, k), LeftLists(V2, w)) = 1
  BY DEF BlocksAt
<1>1. Fills(V2, k) = Fills(V, k) /\ Fills(V, k) \in [Pairs -> Nat]
  BY FillsType DEF Fills
<1>2. V.bp[w][k] + Load(Fills(V, k), LeftLists(V, w)) = 1
  BY DEF Sound, BlockBalance, BlocksAt
<1> QED BY <1>1, <1>2

WithPool(t, pool) == [t EXCEPT !.pool = pool]
PoolSet(t, pool, u) ==
  /\ IsState(u) /\ u.w = t.w /\ u.wd = t.wd /\ u.pool = pool /\ u.fl = t.fl /\ u.bp = t.bp
  /\ u.c = t.c /\ u.lost = t.lost /\ u.spoilt = t.spoilt

\* Writing the mempool changes that only.
LEMMA PoolIs == \A t, pool : IsState(t) => PoolSet(t, pool, WithPool(t, pool))
BY DEF IsState, WithPool, PoolSet

\* the view has its types, if s has
LEMMA AfterType ==
  ASSUME NEW w \in Workers, NEW s, Sound(Now),
         s.wd \in [Buffers -> WdType], s.pool \in [Buffers -> Nat], s.fl \in SUBSET Buffers,
         s.bp \in [Block -> Nat], s.lost \subseteq Buffers, s.c \in RunType
  PROVE  ViewType(After(w, s))
<1> DEFINE V2 == After(w, s)
<1>1. /\ V2.wd = s.wd /\ V2.pool = s.pool /\ V2.lost = s.lost
      /\ V2.mbuf = mbuf /\ V2.pend = pend /\ V2.fq = fq
      /\ V2.fl = [freelist EXCEPT ![w] = s.fl] /\ V2.bp = [blkpool EXCEPT ![w] = s.bp]
      /\ V2.cur = [cur EXCEPT ![w] = s.c]
  <2>1. /\ V2.wd = s.wd /\ V2.pool = s.pool /\ V2.lost = s.lost
        /\ V2.mbuf = mbuf /\ V2.pend = pend /\ V2.fq = fq
    BY DEF After
  <2>2. /\ V2.fl = [freelist EXCEPT ![w] = s.fl] /\ V2.bp = [blkpool EXCEPT ![w] = s.bp]
        /\ V2.cur = [cur EXCEPT ![w] = s.c]
    BY AfterExcept
  <2> HIDE DEF V2
  <2> QED BY <2>1, <2>2
<1>2. freelist \in [Workers -> SUBSET Buffers] /\ blkpool \in [Workers -> [Block -> Nat]]
      /\ cur \in [Workers -> RunType] /\ pend \in [Workers -> Seq(FrameType)]
      /\ fq \in [Workers -> Seq(Seq(Buffers))]
      /\ \A e \in Buffers : mbuf[e].segs \in Seq(SegType)
  BY DEF Sound, ViewType, Now
<1> HIDE DEF V2
<1>3. V2.fl \in [Workers -> SUBSET Buffers] /\ V2.bp \in [Workers -> [Block -> Nat]]
  BY <1>1, <1>2, Zenon
<1>4. V2.cur \in [Workers -> RunType]
  BY <1>1, <1>2
<1>5. ViewType(V2)
  BY <1>1, <1>2, <1>3, <1>4 DEF ViewType
<1> QED BY <1>5 DEF V2

\* and nothing changes at the other workers
LEMMA AfterSame ==
  ASSUME NEW w \in Workers, NEW s, NEW s2, Sound(Now)
  PROVE  OthersSame(After(w, s), After(w, s2), w)
<1> DEFINE V == After(w, s)
           V2 == After(w, s2)
<1>1. \A v \in Workers : v # w => /\ V.fl[v] = freelist[v] /\ V.bp[v] = blkpool[v] /\ V.cur[v] = cur[v]
  BY AfterOthers, Zenon
<1>2. \A v \in Workers : v # w => /\ V2.fl[v] = freelist[v] /\ V2.bp[v] = blkpool[v] /\ V2.cur[v] = cur[v]
  BY AfterOthers, Zenon
<1>3. V.pend = pend /\ V.fq = fq /\ V2.pend = pend /\ V2.fq = fq
  BY AfterIs, Zenon
<1> HIDE DEF V, V2
<1>4. OthersSame(V, V2, w)
  BY <1>1, <1>2, <1>3 DEF OthersSame
<1> QED BY <1>4 DEF V, V2

\* the array of buffers to free is emptied
LEMMA MidFlush ==
  ASSUME NEW w \in Workers, NEW s, Mid(w, s), s.c.node = HugeInputNode, NEW bs
  PROVE  LET s2 == Flush(s, bs)
         IN Mid(w, s2) /\ s2.c.left = s.c.left /\ s2.c.node = s.c.node
<1> DEFINE s2 == Flush(s, bs)
           c2 == [s.c EXCEPT !.drops = <<>>]
           pool == Returned(s.pool, s.c.drops)
           V == After(w, s)
           V2 == After(w, s2)
           r == [Free(s, s.c.drops) EXCEPT !.c.drops = <<>>]
<1>1. s2 = s \/ s2 = r
  BY DEF Flush
<1>2. CASE s2 = s
  BY <1>2
<1>3. CASE s2 = r
  <2>1. /\ s.wd \in [Buffers -> WdType] /\ s.pool \in [Buffers -> Nat] /\ s.fl \in SUBSET Buffers
        /\ s.bp \in [Block -> Nat] /\ s.c \in RunType /\ s.lost \subseteq Buffers
        /\ IsState(s) /\ s.w = w /\ Sound(Now) /\ Sound(V)
    BY MidTypes DEF Mid
  <2>2. /\ s.c.drops \in Seq(Buffers) /\ s.c.left \in Seq(Buffers)
        /\ s.c = [node |-> s.c.node, frame |-> s.c.frame, left |-> s.c.left, to |-> s.c.to,
                  away |-> s.c.away, drops |-> s.c.drops, queue |-> s.c.queue, hand |-> s.c.hand]
    BY <2>1, RunTypes
  <2>3. pool \in [Buffers -> Nat] /\ \A e \in Buffers : pool[e] = s.pool[e] + Times(e, s.c.drops)
    <3>1. \A e \in Buffers : Times(e, s.c.drops) \in Nat
      BY <2>2, BuffersNat, TimesNat
    <3> QED BY <2>1, <3>1 DEF Returned
  <2>4. /\ IsState(s2) /\ s2.w = w /\ s2.wd = s.wd /\ s2.pool = pool /\ s2.fl = s.fl /\ s2.bp = s.bp
        /\ s2.c = c2 /\ s2.lost = s.lost /\ s2.spoilt = s.spoilt
    <3> DEFINE u == WithPool(s, pool)
    <3>1. PoolSet(s, pool, u)
      <4> HIDE DEF pool
      <4> QED BY <2>1, PoolIs
    <3>2. u = Free(s, s.c.drops)
      BY DEF Free, WithPool
    <3>3. s2 = WithRun(u, [u.c EXCEPT !.drops = <<>>])
      <4> HIDE DEF s2, u
      <4> QED BY <1>3, <3>2 DEF WithRun
    <3>4. u.c = s.c /\ IsState(u)
      BY <3>1 DEF PoolSet
    <3>5. s2 = WithRun(u, c2)
      BY <3>3, <3>4
    <3> HIDE DEF s2, u, pool, c2
    <3>6. RunSet(u, c2, s2)
      BY <3>4, <3>5, RunIs
    <3> QED BY <2>1, <3>1, <3>6 DEF PoolSet, RunSet
  <2> HIDE DEF s2, pool
  <2>5. /\ c2 \in RunType /\ c2.drops = <<>> /\ c2.left = s.c.left /\ c2.node = s.c.node
        /\ c2.frame = s.c.frame /\ c2.to = s.c.to /\ c2.away = s.c.away /\ c2.queue = s.c.queue
        /\ c2.hand = s.c.hand
    <3> DEFINE v == <<>>
    <3>1. v \in Seq(Buffers) /\ c2 = [s.c EXCEPT !.drops = v]
      OBVIOUS
    <3> HIDE DEF v, c2
    <3>2. c2 \in RunType
      BY <2>1, <3>1 DEF RunType
    <3>3. /\ c2.drops = v /\ c2.left = s.c.left /\ c2.node = s.c.node
          /\ c2.frame = s.c.frame /\ c2.to = s.c.to /\ c2.away = s.c.away /\ c2.queue = s.c.queue
          /\ c2.hand = s.c.hand
      BY <2>2, <3>1
    <3> QED BY <3>2, <3>3 DEF v
  <2> HIDE DEF c2
  <2>6. /\ V.wd = s.wd /\ V.pool = s.pool /\ V.lost = s.lost /\ V.spoilt = s.spoilt
        /\ V.mbuf = mbuf /\ V.pend = pend /\ V.fq = fq
        /\ V.fl[w] = s.fl /\ V.bp[w] = s.bp /\ V.cur[w] = s.c
    BY <2>1, AfterIs, Zenon
  <2>7. /\ V2.wd = s.wd /\ V2.pool = pool /\ V2.lost = s.lost /\ V2.spoilt = s.spoilt
        /\ V2.mbuf = mbuf /\ V2.pend = pend /\ V2.fq = fq
        /\ V2.fl[w] = s.fl /\ V2.bp[w] = s.bp /\ V2.cur[w] = c2
    BY <2>1, <2>4, AfterIs, Zenon
  <2>8. ViewType(V2)
    BY <2>1, <2>3, <2>4, <2>5, AfterType
  <2>9. OthersSame(V, V2, w)
    BY <2>1, AfterSame
  <2>10. Lists(V2, w) = Lists(V, w) /\ LeftLists(V2, w) = LeftLists(V, w)
    <3>1. Listed(c2) = Listed(s.c)
      BY <2>5 DEF Listed
    <3> HIDE DEF V, V2
    <3> QED BY <2>5, <2>6, <2>7, <3>1, Zenon DEF Lists, LeftLists
  <2>11. RunInv(V2, w)
    <3>1. RunInv(V, w)
      BY <2>1 DEF Sound
    <3>2. HugeInputNode # Idle /\ HugeInputNode # DropNode /\ HugeInputNode \notin TxNodes
      BY DEF HugeInputNode, Idle, DropNode, TxNodes, N, Tx
    <3> HIDE DEF V, V2
    <3>3. \A i \in 1 .. Len(s.c.away) :
            s.c.away[i][1] # w /\ sf_pkt_get_worker_index(mbuf[s.c.away[i][2]].pkt) = s.c.away[i][1]
      BY <2>6, <3>1, Zenon DEF RunInv, RunOf
    <3>4. RunOf(V2, w, c2)
      BY <2>5, <2>7, <3>2, <3>3, Zenon DEF RunOf
    <3> QED BY <2>7, <3>4 DEF RunInv
  <2>12. Still(V, V2, w)
    <3>1. ASSUME NEW e \in Buffers
          PROVE  V2.pool[e] + Ind(e \in V2.fl[w]) + Times(e, V2.cur[w].drops)
                 = V.pool[e] + Ind(e \in V.fl[w]) + Times(e, V.cur[w].drops)
      <4>1. Times(e, <<>>) = 0 /\ Times(e, s.c.drops) \in Nat /\ s.pool[e] \in Nat /\ Ind(e \in s.fl) \in Nat
        BY <2>1, <2>2, TimesEmpty, BuffersNat, TimesNat, Zenon DEF Ind
      <4>2. pool[e] = s.pool[e] + Times(e, s.c.drops)
        BY <2>3
      <4> HIDE DEF V, V2
      <4> QED BY <2>5, <2>6, <2>7, <4>1, <4>2
    <3> HIDE DEF V, V2
    <3> QED BY <2>6, <2>7, <2>9, <2>10, <3>1 DEF Still
  <2>13. BlocksAt(V2, w)
    <3> HIDE DEF V, V2
    <3> QED BY <2>1, <2>6, <2>7, <2>10, StillBlocks
  <2>14. Sound(V2)
    <3> HIDE DEF V, V2
    <3> QED BY <2>1, <2>8, <2>11, <2>12, <2>13, StillSound
  <2>15. Sound(After(w, s2))
    BY <2>14
  <2>16. s.c.node = cur[w].node /\ s.c.queue = cur[w].queue /\ s.c.hand = cur[w].hand
         /\ \A i \in 1 .. Len(s.c.left) : s.wd[s.c.left[i]] = wd[s.c.left[i]]
    BY DEF Mid
  <2>17. s2.c.left = s.c.left /\ s2.c.node = s.c.node /\ s2.c.queue = s.c.queue /\ s2.c.hand = s.c.hand
    BY <2>4, <2>5, Zenon
  <2>18. Mid(w, s2) /\ s2.c.left = s.c.left /\ s2.c.node = s.c.node
    BY <2>1, <2>4, <2>15, <2>16, <2>17 DEF Mid
  <2> QED BY <2>18 DEF s2
<1> QED BY <1>1, <1>2, <1>3

-----------------------------------------------------------------------------
(* The graph and sf_pkt_output *)

GraphNode == N("graph")
OutNode == N("sf_pkt_output")

\* One packet of the decoding and action nodes.
LEMMA GraphTook ==
  ASSUME NEW w \in Workers, NEW s, Mid(w, s), s.c.left # <<>>, s.c.node = GraphNode
  PROVE  Further(w, s, GraphPacket(Pop(s), Head(s.c.left)))
<1> DEFINE b == Head(s.c.left)
           n == s.c.node
           t == Pop(s)
           p == mbuf[b].pkt
           y == s.wd[b]
           x1 == [y EXCEPT !.out = p.out]
           x == [x1 EXCEPT !.len = @ + p.grow]
           m == IF p.out = 0 THEN DropNode ELSE OutNode
           u1 == WithWd(t, b, x1)
           u == WithWd(u1, b, x)
           r == GraphPacket(t, b)
<1>1. n \in Looping /\ n \in Gathered /\ n \notin Before \cup TxNodes /\ n \notin {RxNode, HandoffNode}
  BY DEF Looping, Nodes, RxNode, DropNode, TxNodes, N, Tx, Before, HandoffNode, HugeInputNode, HfInputNode, Gathered,
     HugeOutNode, GraphNode
<1>2. m \in Nodes /\ m \in Gathered /\ m \notin Before \cup TxNodes
      /\ m \notin {RxNode, HandoffNode, HugeInputNode, HugeOutNode, HfInputNode}
  BY DEF Nodes, RxNode, DropNode, TxNodes, N, Tx, Before, HandoffNode, HugeInputNode, HfInputNode, Gathered,
     HugeOutNode, OutNode
<1>3. /\ b \in Buffers /\ FitOf(w, n, b, y, mbuf[b]) /\ y \in WdType
      /\ s.wd \in [Buffers -> WdType] /\ s.bp \in [Block -> Nat]
      /\ IsState(t) /\ t.w = w /\ t.wd = s.wd /\ t.pool = s.pool /\ t.fl = s.fl /\ t.bp = s.bp
      /\ t.lost = s.lost /\ t.spoilt = s.spoilt
  BY <1>1, TookFrom, Zenon
<1>4. p.out \in Nat /\ p.grow \in Nat
  <2>1. mbuf[b] \in MbufType
    BY <1>3, Zenon DEF FitOf
  <2>2. p \in Packet
    BY <2>1 DEF MbufType
  <2> HIDE DEF p
  <2> QED BY <2>2 DEF Packet
<1> HIDE DEF p, y, t, m
<1>5. x1 \in WdType /\ x1.huge = y.huge /\ x1.blk = y.blk /\ x1.handed = y.handed /\ x1.len \in Int
  BY <1>3, <1>4, Zenon DEF WdType
<1>6. x \in WdType /\ x.huge = y.huge /\ x.blk = y.blk /\ x.handed = y.handed
  <2> HIDE DEF x1
  <2> QED BY <1>4, <1>5 DEF WdType
<1>7. r = To(u, m, b)
  <2>1. [t EXCEPT !.wd[b].out = p.out, !.wd[b].len = @ + p.grow] = u
    <3>1. t.wd[b] = y
      BY <1>3 DEF y
    <3>2. [t EXCEPT !.wd[b].out = p.out] = u1
      BY <3>1 DEF WithWd
    <3>3. u1.wd[b] = x1
      <4> HIDE DEF u1, x1
      <4>1. WdSet(t, [t.wd EXCEPT ![b] = x1], u1)
        BY <1>3, WdIs DEF u1
      <4> QED BY <1>3, <4>1 DEF WdSet
    <3>4. [t EXCEPT !.wd[b].out = p.out, !.wd[b].len = @ + p.grow] = [u1 EXCEPT !.wd[b].len = @ + p.grow]
      <4> DEFINE G(v) == [v EXCEPT !.wd[b].len = @ + p.grow]
                 v1 == [t EXCEPT !.wd[b].out = p.out]
      <4>1. [t EXCEPT !.wd[b].out = p.out, !.wd[b].len = @ + p.grow] = G(v1)
        BY Zenon
      <4>2. v1 = u1
        BY <3>2, Zenon
      <4>3. G(v1) = G(u1)
        <5> HIDE DEF G, v1, u1
        <5> QED BY <4>2
      <4> QED BY <4>1, <4>3, Zenon
    <3> HIDE DEF u1, x1
    <3> QED BY <3>3, <3>4, Zenon DEF WithWd
  <2> QED BY <2>1, Zenon DEF GraphPacket, m, p, DropNode, OutNode
<1> HIDE DEF x, x1
<1>8. /\ IsState(u) /\ u.w = w /\ u.wd = [s.wd EXCEPT ![b] = x] /\ u.pool = s.pool /\ u.fl = s.fl
      /\ u.bp = s.bp /\ u.c = t.c /\ u.lost = s.lost /\ u.spoilt = s.spoilt
  <2> HIDE DEF u, u1
  <2>1. WdSet(t, [t.wd EXCEPT ![b] = x1], u1)
    BY <1>3, WdIs DEF u1
  <2>2. WdSet(u1, [u1.wd EXCEPT ![b] = x], u)
    <3>1. IsState(u1)
      BY <2>1 DEF WdSet
    <3> QED BY <3>1, WdIs DEF u
  <2>3. [[s.wd EXCEPT ![b] = x1] EXCEPT ![b] = x] = [s.wd EXCEPT ![b] = x]
    BY <1>3
  <2> QED BY <1>3, <2>1, <2>2, <2>3 DEF WdSet
<1>9. FitOf(w, m, b, x, mbuf[b])
  <2>1. n # HfInputNode
    BY <1>1 DEF Before
  <2> QED BY <1>1, <1>2, <1>3, <1>6, <2>1 DEF FitOf
<1>10. OwnOf(m, b, x, mbuf[b]) = OwnOf(n, b, y, mbuf[b])
  BY <1>1, <1>2 DEF OwnOf
<1>11. \A k : FillsOf(m, x, k) = FillsOf(n, y, k)
  BY <1>1, <1>2, <1>6 DEF FillsOf
<1> HIDE DEF u, u1
<1>12. PushBlocks(w, s, b, n, x, u.bp, u.spoilt, m)
  BY <1>8, <1>11, NoFills DEF y
<1>13. Passing(w, s, u, x, m)
  BY <1>2, <1>3, <1>6, <1>8, <1>9, <1>10, <1>12, Zenon DEF Passing, y, t
<1>14. Further(w, s, To(u, m, Head(s.c.left)))
  BY <1>1, <1>13, Passed
<1> QED BY <1>7, <1>14 DEF t

\* free_huge_pkt_16k, and the block of a packet that is dropped
Freed(t, k, u) ==
  /\ IsState(u) /\ u.w = t.w /\ u.wd = t.wd /\ u.pool = t.pool /\ u.fl = t.fl
  /\ u.c = t.c /\ u.lost = t.lost /\ u.spoilt = t.spoilt /\ u.bp \in [Block -> Nat]
  /\ \A j \in Block : u.bp[j] = t.bp[j] + (IF j = k THEN 1 ELSE 0)

\* A freed block is in its pool once more.
LEMMA FreedIs ==
  ASSUME NEW t, IsState(t), NEW k, t.bp \in [Block -> Nat], k \in Block \cup {NoBlock}
  PROVE  Freed(t, k, free_huge_pkt_16k(t, k))
<1> DEFINE u == free_huge_pkt_16k(t, k)
           bp == [t.bp EXCEPT ![k] = @ + 1]
<1>1. CASE k = NoBlock
  <2>1. u = t
    BY <1>1 DEF free_huge_pkt_16k
  <2>2. \A j \in Block : j # k
    BY <1>1, CapacityAssumption DEF NoBlock, Block
  <2> HIDE DEF u
  <2>3. Freed(t, k, u)
    BY <2>1, <2>2 DEF Freed
  <2> QED BY <2>3 DEF u
<1>2. CASE k # NoBlock
  <2>1. u = WithBp(t, bp)
    BY <1>2 DEF free_huge_pkt_16k, WithBp
  <2>2. bp \in [Block -> Nat] /\ \A j \in Block : bp[j] = t.bp[j] + (IF j = k THEN 1 ELSE 0)
    BY <1>2
  <2> HIDE DEF u, bp
  <2>3. BpSet(t, bp, u)
    BY <2>1, BpIs
  <2>4. Freed(t, k, u)
    BY <2>2, <2>3 DEF BpSet, Freed
  <2> QED BY <2>4 DEF u
<1> QED BY <1>1, <1>2

WithSpoilt(t, l) == [t EXCEPT !.spoilt = l]
SpoiltSet(t, l, u) ==
  /\ IsState(u) /\ u.w = t.w /\ u.wd = t.wd /\ u.pool = t.pool /\ u.fl = t.fl /\ u.bp = t.bp
  /\ u.c = t.c /\ u.lost = t.lost /\ u.spoilt = l

\* Spoiling a block changes the set of these only.
LEMMA SpoiltIs == \A t, l : IsState(t) => SpoiltSet(t, l, WithSpoilt(t, l))
BY DEF IsState, WithSpoilt, SpoiltSet

\* One packet of sf_pkt_output, for an interface that is up or down.
LEMMA OutTook ==
  ASSUME NEW w \in Workers, NEW s, Mid(w, s), s.c.left # <<>>, s.c.node = OutNode
  PROVE  Further(w, s, OutPacket(Pop(s), Head(s.c.left)))
<1> DEFINE b == Head(s.c.left)
           n == s.c.node
           t == Pop(s)
           x == s.wd[b]
           r == OutPacket(t, b)
<1>1. n \in Looping /\ n \in Gathered /\ n \notin Before \cup TxNodes /\ n \notin {RxNode, HandoffNode, HfInputNode}
  BY DEF Looping, Nodes, RxNode, DropNode, TxNodes, N, Tx, Before, HandoffNode, HugeInputNode, HfInputNode, Gathered,
     HugeOutNode, OutNode
<1>2. DropNode \in Nodes /\ DropNode \in Gathered /\ DropNode \notin Before \cup TxNodes
      /\ DropNode \notin {RxNode, HandoffNode, HugeInputNode, HugeOutNode, HfInputNode}
      /\ HugeOutNode \in Nodes /\ HugeOutNode \in Gathered /\ HugeOutNode \notin Before \cup TxNodes
      /\ HugeOutNode \notin {RxNode, HandoffNode, HugeInputNode, HfInputNode}
      /\ \A i \in Intf : Tx(i) \in Nodes /\ Tx(i) \notin Gathered
                         /\ Tx(i) \notin {RxNode, HandoffNode, HugeInputNode, HugeOutNode, HfInputNode}
  BY DEF Nodes, RxNode, DropNode, TxNodes, N, Tx, Before, HandoffNode, HugeInputNode, HfInputNode, Gathered,
     HugeOutNode, OutNode
<1>3. /\ b \in Buffers /\ FitOf(w, n, b, x, mbuf[b]) /\ x \in WdType /\ x = wd[b]
      /\ s.wd \in [Buffers -> WdType] /\ s.bp \in [Block -> Nat]
      /\ IsState(t) /\ t.w = w /\ t.wd = s.wd /\ t.pool = s.pool /\ t.fl = s.fl /\ t.bp = s.bp
      /\ t.lost = s.lost /\ t.spoilt = s.spoilt
  BY <1>1, TookFrom, Zenon
<1>4. s.wd = [s.wd EXCEPT ![b] = x]
  BY <1>3
<1>5. x.huge \in BOOLEAN /\ x.blk \in Block \cup {NoBlock}
  BY <1>3 DEF WdType
<1>6. mbuf[b] \in MbufType /\ (x.handed => sf_pkt_get_worker_index(mbuf[b].pkt) = w)
  BY <1>1, <1>3, Zenon DEF FitOf
<1> HIDE DEF t
<1>7. CASE x.out \in Intf /\ admin[x.out]
  <2> DEFINE u1 == Count(t, "out_packets", x.out, 1)
             u == Count(u1, "out_octets", x.out, x.len)
             m == IF x.huge THEN HugeOutNode ELSE Tx(x.out)
  <2>1. r = To(u, m, b)
    BY <1>3, <1>7 DEF OutPacket, HugeOutNode
  <2>2. m \in Nodes /\ m \notin {RxNode, HandoffNode, HugeInputNode, HfInputNode} /\ m \notin Before
        /\ (m \in Gathered <=> x.huge) /\ (m \in TxNodes => ~x.huge) /\ (m = HugeOutNode => x.huge)
    BY <1>2, <1>5, <1>7 DEF Before
  <2>3. SameButStat(t, u1) /\ SameButStat(u1, u)
    <3> HIDE DEF u1
    <3>1. SameButStat(t, u1)
      BY <1>3, CountIs DEF u1
    <3>2. IsState(u1)
      BY <3>1 DEF SameButStat
    <3> QED BY <3>1, <3>2, CountIs
  <2> HIDE DEF u, u1, m, r
  <2>4. /\ IsState(u) /\ u.w = w /\ u.wd = [s.wd EXCEPT ![b] = x] /\ u.pool = s.pool /\ u.fl = s.fl
        /\ u.bp = s.bp /\ u.c = t.c /\ u.lost = s.lost /\ u.spoilt = s.spoilt
    BY <1>3, <1>4, <2>3, Zenon DEF SameButStat
  <2>5. FitOf(w, m, b, x, mbuf[b])
    BY <1>6, <1>7, <2>2, Zenon DEF FitOf
  <2>6. OwnOf(m, b, x, mbuf[b]) = OwnOf(n, b, x, mbuf[b])
    BY <1>1, <2>2 DEF OwnOf
  <2>7. \A k : FillsOf(m, x, k) = FillsOf(n, x, k)
    BY <1>1, <2>2 DEF FillsOf
  <2>8. PushBlocks(w, s, b, n, x, u.bp, u.spoilt, m)
    BY <2>4, <2>7, NoFills, Zenon
  <2>9. Passing(w, s, u, x, m)
    BY <1>3, <2>2, <2>4, <2>5, <2>6, <2>8, Zenon DEF Passing, t
  <2>10. Further(w, s, To(u, m, Head(s.c.left)))
    BY <1>1, <2>9, Passed
  <2> QED BY <2>1, <2>10, Zenon DEF r, t
<1>8. CASE ~(x.out \in Intf /\ admin[x.out])
  <2> DEFINE m == DropNode
             f == free_huge_pkt_16k(t, x.blk)
             u == IF x.huge THEN [f EXCEPT !.spoilt = @ \cup {<<t.w, x.blk>>}] ELSE t
  <2>1. r = To(u, m, b)
    BY <1>3, <1>8 DEF OutPacket, DropNode
  <2>2. /\ IsState(u) /\ u.w = w /\ u.wd = s.wd /\ u.pool = s.pool /\ u.fl = s.fl
        /\ u.bp \in [Block -> Nat] /\ u.c = t.c /\ u.lost = s.lost /\ s.spoilt \subseteq u.spoilt
        /\ \A j \in Block : <<w, j>> \notin u.spoilt => u.bp[j] = s.bp[j]
    <3>1. CASE x.huge
      <4> DEFINE l == f.spoilt \cup {<<t.w, x.blk>>}
      <4>1. u = WithSpoilt(f, l)
        BY <3>1 DEF WithSpoilt
      <4>2. /\ IsState(f) /\ f.w = t.w /\ f.wd = t.wd /\ f.pool = t.pool /\ f.fl = t.fl
            /\ f.c = t.c /\ f.lost = t.lost /\ f.spoilt = t.spoilt /\ f.bp \in [Block -> Nat]
            /\ \A j \in Block : f.bp[j] = t.bp[j] + (IF j = x.blk THEN 1 ELSE 0)
        <5>1. t.bp \in [Block -> Nat]
          BY <1>3, Zenon
        <5>2. Freed(t, x.blk, f)
          BY <1>3, <1>5, <5>1, FreedIs, Zenon
        <5> HIDE DEF f
        <5> QED BY <5>2 DEF Freed
      <4> HIDE DEF f
      <4>3. l = s.spoilt \cup {<<w, x.blk>>}
        BY <1>3, <4>2
      <4> HIDE DEF u, l
      <4>4. SpoiltSet(f, l, u)
        BY <4>1, <4>2, SpoiltIs, Zenon
      <4>5. \A j \in Block : s.bp[j] \in Nat
        BY <1>3
      <4> QED BY <1>3, <4>2, <4>3, <4>4, <4>5 DEF SpoiltSet
    <3>2. CASE ~x.huge
      BY <1>3, <3>2, Zenon
    <3> QED BY <3>1, <3>2, Zenon
  <2> HIDE DEF u, m, r
  <2>3. FitOf(w, m, b, x, mbuf[b])
    BY <1>2, <1>6 DEF FitOf, m
  <2>4. OwnOf(m, b, x, mbuf[b]) = OwnOf(n, b, x, mbuf[b])
    BY <1>1, <1>2, Zenon DEF OwnOf, m
  <2>5. \A k : FillsOf(m, x, k) = FillsOf(n, x, k)
    BY <1>1, <1>2 DEF FillsOf, m
  <2>6. PushBlocks(w, s, b, n, x, u.bp, u.spoilt, m)
    BY <2>2, <2>5, Zenon DEF PushBlocks
  <2>7. Passing(w, s, u, x, m)
    BY <1>2, <1>3, <1>4, <2>2, <2>3, <2>4, <2>6 DEF Passing, t, m
  <2>8. Further(w, s, To(u, m, Head(s.c.left)))
    BY <1>1, <2>7, Passed
  <2> QED BY <2>1, <2>8, Zenon DEF r, t
<1> QED BY <1>7, <1>8
=============================================================================
