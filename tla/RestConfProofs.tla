---------------------------- MODULE RestConfProofs ----------------------------
(***************************************************************************)
(* Proofs about the shared memory and restd's work on it, for any builds   *)
(* of the data plane, any lengths, requests and scenarios.                 *)
(***************************************************************************)
EXTENDS RestConf, WellFoundedInduction, TLAPS

-----------------------------------------------------------------------------
(* Recursive functions *)

\* induction up to n, as a statement about a set
LEMMA UpTo ==
  ASSUME NEW S, NEW n \in Nat, 0 \in S, \A k \in 0..n : k < n /\ k \in S => k + 1 \in S
  PROVE  \A k \in 0..n : k \in S
<1> DEFINE Bad == {k \in 0..n : k \notin S}
           R == OpToRel(<, Nat)
<1> SUFFICES ASSUME Bad # {} PROVE FALSE
  OBVIOUS
<1>1. \E k \in Bad : \A j \in Bad : ~(<<j, k>> \in R)
  <2>1. IsWellFoundedOn(R, Nat)
    BY NatLessThanWellFounded
  <2>2. Bad \subseteq Nat
    OBVIOUS
  <2> HIDE DEF R, Bad
  <2> QED BY <2>1, <2>2, WFMin
<1>2. PICK k \in Bad : \A j \in Bad : ~(<<j, k>> \in R)
  BY <1>1
<1>3. k \in 0..n /\ k \notin S /\ k # 0
  BY <1>2
<1>4. k - 1 \in 0..n /\ k - 1 < n /\ (k - 1) + 1 = k /\ <<k - 1, k>> \in R
  BY <1>3 DEF OpToRel
<1>5. k - 1 \notin Bad
  BY <1>2, <1>4
<1> QED BY <1>3, <1>4, <1>5

\* The recursive function of a PUT exists.
ItemsUpTo(items) == { i \in DOMAIN items : \A j \in 1..(i - 1) : ItemAnswer(items[j]) = "ok" }

LEMMA ItemsExist ==
  ASSUME NEW s, NEW items, NEW junk, Len(items) \in Nat
  PROVE  AfterItems(s, items, junk) =
           [k \in 0 .. Len(items) |->
              IF k = 0 THEN s
              ELSE IF k \in ItemsUpTo(items)
                   THEN SetField(AfterItems(s, items, junk)[k - 1], items[k], junk)
                   ELSE AfterItems(s, items, junk)[k - 1]]
<1> DEFINE n == Len(items)
           Is(a, m) == a = [k \in 0 .. m |->
                              IF k = 0 THEN s
                              ELSE IF k \in ItemsUpTo(items) THEN SetField(a[k - 1], items[k], junk)
                              ELSE a[k - 1]]
           S == {m \in 0 .. n : \E a : Is(a, m)}
<1>1. 0 \in S
  <2> DEFINE a == [k \in 0 .. 0 |-> s]
             h == [k \in 0 .. 0 |->
                     IF k = 0 THEN s
                     ELSE IF k \in ItemsUpTo(items) THEN SetField(a[k - 1], items[k], junk)
                     ELSE a[k - 1]]
  <2>1. \A k \in 0 .. 0 : a[k] = h[k]
    <3> HIDE DEF ItemsUpTo
    <3> QED OBVIOUS
  <2>2. a = h
    BY <2>1
  <2>3. Is(a, 0)
    BY <2>2
  <2> HIDE DEF a, Is
  <2> QED BY <2>3
<1>2. ASSUME NEW m \in 0 .. n, m < n, m \in S
      PROVE  m + 1 \in S
  <2>1. PICK a : Is(a, m)
    BY <1>2
  <2> DEFINE last == IF m + 1 \in ItemsUpTo(items) THEN SetField(a[m], items[m + 1], junk) ELSE a[m]
             e == [k \in 0 .. m + 1 |-> IF k = m + 1 THEN last ELSE a[k]]
             h == [k \in 0 .. m + 1 |->
                     IF k = 0 THEN s
                     ELSE IF k \in ItemsUpTo(items) THEN SetField(e[k - 1], items[k], junk)
                     ELSE e[k - 1]]
  <2>2. ASSUME NEW k \in 0 .. m + 1
        PROVE  e[k] = h[k]
    <3>1. CASE k = m + 1
      <4>1. e[k] = last /\ e[k - 1] = a[m] /\ k # 0 /\ k - 1 = m
        BY <3>1
      <4> HIDE DEF e
      <4> QED BY <3>1, <4>1, Zenon
    <3>2. CASE k = 0
      BY <3>2, <2>1
    <3>3. CASE k \in 1 .. m
      <4>1. /\ e[k] = a[k] /\ e[k - 1] = a[k - 1] /\ k # 0 /\ k \in 0 .. m
        BY <3>3
      <4>2. a[k] = IF k = 0 THEN s
                   ELSE IF k \in ItemsUpTo(items) THEN SetField(a[k - 1], items[k], junk)
                   ELSE a[k - 1]
        BY <2>1, <4>1, Zenon
      <4> HIDE DEF e
      <4> QED BY <4>1, <4>2, Zenon
    <3> QED BY <3>1, <3>2, <3>3
  <2>3. e = h
    <3>1. e = [k \in 0 .. m + 1 |-> e[k]] /\ h = [k \in 0 .. m + 1 |-> h[k]]
      OBVIOUS
    <3> HIDE DEF e, h
    <3> QED BY <2>2, <3>1
  <2>4. Is(e, m + 1)
    BY <2>3 DEF h
  <2>5. m + 1 \in 0 .. n
    BY <1>2
  <2> HIDE DEF e, Is
  <2> QED BY <2>4, <2>5
<1>3. n \in S
  <2> HIDE DEF S
  <2>1. \A k \in 0 .. n : k \in S
    BY <1>1, <1>2, UpTo
  <2> QED BY <2>1
<1>4. \E a : Is(a, n)
  <2> HIDE DEF Is
  <2> QED BY <1>3
<1> QED BY <1>4, Zenon DEF AfterItems, ItemsUpTo

-----------------------------------------------------------------------------
(* Lengths added up *)

\* The recursive function of LenSums exists.
LEMMA LenSumsExist ==
  ASSUME NEW s, NEW n \in Nat
  PROVE  LenSums(s, n) = [k \in 0 .. n |-> IF k = 0 THEN 0 ELSE LenSums(s, n)[k - 1] + s[k].len]
<1> DEFINE Is(a, m) == a = [k \in 0 .. m |-> IF k = 0 THEN 0 ELSE a[k - 1] + s[k].len]
           S == {m \in 0 .. n : \E a : Is(a, m)}
<1>1. 0 \in S
  <2> DEFINE a == [k \in 0 .. 0 |-> 0]
             h == [k \in 0 .. 0 |-> IF k = 0 THEN 0 ELSE a[k - 1] + s[k].len]
  <2>1. \A k \in 0 .. 0 : a[k] = h[k]
    OBVIOUS
  <2>2. a = h
    BY <2>1
  <2>3. Is(a, 0)
    BY <2>2
  <2> HIDE DEF a, Is
  <2> QED BY <2>3
<1>2. ASSUME NEW m \in 0 .. n, m < n, m \in S
      PROVE  m + 1 \in S
  <2>1. PICK a : Is(a, m)
    BY <1>2
  <2> DEFINE e == [k \in 0 .. m + 1 |-> IF k = m + 1 THEN a[m] + s[m + 1].len ELSE a[k]]
             h == [k \in 0 .. m + 1 |-> IF k = 0 THEN 0 ELSE e[k - 1] + s[k].len]
  <2>2. ASSUME NEW k \in 0 .. m + 1
        PROVE  e[k] = h[k]
    BY <2>1
  <2>3. e = h
    <3>1. e = [k \in 0 .. m + 1 |-> e[k]] /\ h = [k \in 0 .. m + 1 |-> h[k]]
      OBVIOUS
    <3> HIDE DEF e, h
    <3> QED BY <2>2, <3>1
  <2>4. Is(e, m + 1)
    BY <2>3 DEF h
  <2>5. m + 1 \in 0 .. n
    BY <1>2
  <2> HIDE DEF e, Is
  <2> QED BY <2>4, <2>5
<1>3. n \in S
  <2> HIDE DEF S
  <2>1. \A k \in 0 .. n : k \in S
    BY <1>1, <1>2, UpTo
  <2> QED BY <2>1
<1>4. \E a : Is(a, n)
  <2> HIDE DEF Is
  <2> QED BY <1>3
<1> QED BY <1>4, Zenon DEF LenSums

LEMMA LenSumsStep ==
  ASSUME NEW s, NEW n \in Nat
  PROVE  /\ LenSums(s, n)[0] = 0
         /\ \A k \in 1 .. n : LenSums(s, n)[k] = LenSums(s, n)[k - 1] + s[k].len
<1> DEFINE a == LenSums(s, n)
<1>1. a = [k \in 0 .. n |-> IF k = 0 THEN 0 ELSE a[k - 1] + s[k].len]
  BY LenSumsExist
<1> HIDE DEF a
<1>2. \A k \in 0 .. n : a[k] = IF k = 0 THEN 0 ELSE a[k - 1] + s[k].len
  BY <1>1, Zenon
<1>3. 0 \in 0 .. n /\ \A k \in 1 .. n : k \in 0 .. n /\ k # 0
  OBVIOUS
<1>4. a[0] = 0 /\ \A k \in 1 .. n : a[k] = a[k - 1] + s[k].len
  BY <1>2, <1>3, Zenon
<1> QED BY <1>4 DEF a

\* What is added up does not depend on how far one goes on.
LEMMA LenOfStep ==
  ASSUME NEW s
  PROVE  /\ LenOf(s, 0) = 0
         /\ \A n \in Nat : LenOf(s, n + 1) = LenOf(s, n) + s[n + 1].len
<1>1. LenOf(s, 0) = 0
  BY LenSumsStep DEF LenOf
<1>2. ASSUME NEW n \in Nat
      PROVE  LenOf(s, n + 1) = LenOf(s, n) + s[n + 1].len
  <2> DEFINE a == LenSums(s, n)
             b == LenSums(s, n + 1)
             S == {k \in 0 .. n : a[k] = b[k]}
  <2>1. a[0] = 0 /\ \A k \in 1 .. n : a[k] = a[k - 1] + s[k].len
    BY LenSumsStep
  <2>2. b[0] = 0 /\ \A k \in 1 .. n + 1 : b[k] = b[k - 1] + s[k].len
    <3>1. n + 1 \in Nat
      OBVIOUS
    <3> QED BY <3>1, LenSumsStep
  <2> HIDE DEF a, b
  <2>3. 0 \in S
    BY <2>1, <2>2
  <2>4. \A k \in 0 .. n : k < n /\ k \in S => k + 1 \in S
    <3> SUFFICES ASSUME NEW k \in 0 .. n, k < n, a[k] = b[k]
                 PROVE  a[k + 1] = b[k + 1] /\ k + 1 \in 0 .. n
      OBVIOUS
    <3>1. k + 1 \in 1 .. n /\ k + 1 \in 1 .. n + 1 /\ (k + 1) - 1 = k
      OBVIOUS
    <3> QED BY <2>1, <2>2, <3>1
  <2> HIDE DEF S
  <2>5. \A k \in 0 .. n : k \in S
    BY <2>3, <2>4, UpTo
  <2>6. a[n] = b[n]
    BY <2>5 DEF S
  <2>7. n + 1 \in 1 .. n + 1 /\ (n + 1) - 1 = n
    OBVIOUS
  <2>8. b[n + 1] = b[n] + s[n + 1].len
    BY <2>2, <2>7
  <2> QED BY <2>6, <2>8 DEF a, b, LenOf
<1> QED BY <1>1, <1>2

Reg == [name : Nat, mem : {"config", "stat"}, len : Nat \ {0}]

LEMMA RegType ==
  ASSUME NEW r \in Reg
  PROVE  r.name \in Nat /\ r.mem \in {"config", "stat"} /\ r.len \in Nat /\ r.len # 0
BY DEF Reg

LEMMA SeqReg ==
  ASSUME NEW s \in Seq(Reg)
  PROVE  Len(s) \in Nat /\ \A i \in 1 .. Len(s) : s[i] \in Reg
OBVIOUS

LEMMA Concat ==
  ASSUME NEW S, NEW a \in Seq(S), NEW b \in Seq(S)
  PROVE  /\ a \o b \in Seq(S) /\ Len(a \o b) = Len(a) + Len(b)
         /\ \A i \in 1 .. Len(a) : (a \o b)[i] = a[i]
         /\ \A i \in 1 .. Len(b) : (a \o b)[Len(a) + i] = b[i]
OBVIOUS

LEMMA LenOfNat ==
  ASSUME NEW s \in Seq(Reg)
  PROVE  \A n \in 0 .. Len(s) : LenOf(s, n) \in Nat
<1> DEFINE S == {n \in 0 .. Len(s) : LenOf(s, n) \in Nat}
<1>1. 0 \in S
  BY LenOfStep
<1>2. \A n \in 0 .. Len(s) : n < Len(s) /\ n \in S => n + 1 \in S
  <2> SUFFICES ASSUME NEW n \in 0 .. Len(s), n < Len(s), LenOf(s, n) \in Nat
               PROVE  n + 1 \in 0 .. Len(s) /\ LenOf(s, n + 1) \in Nat
    OBVIOUS
  <2>1. n + 1 \in 1 .. Len(s) /\ n \in Nat
    OBVIOUS
  <2>2. s[n + 1].len \in Nat
    BY <2>1, SeqReg, RegType
  <2>3. LenOf(s, n + 1) = LenOf(s, n) + s[n + 1].len
    BY <2>1, LenOfStep
  <2> QED BY <2>1, <2>2, <2>3
<1> HIDE DEF S
<1>3. \A n \in 0 .. Len(s) : n \in S
  BY <1>1, <1>2, UpTo
<1> QED BY <1>3 DEF S

LEMMA LenOfMono ==
  ASSUME NEW s \in Seq(Reg), NEW i \in 0 .. Len(s)
  PROVE  \A j \in 0 .. Len(s) : i <= j => LenOf(s, i) <= LenOf(s, j)
<1> DEFINE S == {j \in 0 .. Len(s) : i <= j => LenOf(s, i) <= LenOf(s, j)}
<1>0. \A n \in 0 .. Len(s) : LenOf(s, n) \in Nat
  BY LenOfNat
<1>1. 0 \in S
  <2>1. CASE i = 0
    BY <2>1, <1>0
  <2>2. CASE i # 0
    BY <2>2
  <2> QED BY <2>1, <2>2
<1>2. \A n \in 0 .. Len(s) : n < Len(s) /\ n \in S => n + 1 \in S
  <2> SUFFICES ASSUME NEW n \in 0 .. Len(s), n < Len(s), i <= n => LenOf(s, i) <= LenOf(s, n),
                      i <= n + 1
               PROVE  LenOf(s, i) <= LenOf(s, n + 1)
    OBVIOUS
  <2>1. n + 1 \in 1 .. Len(s) /\ n + 1 \in 0 .. Len(s) /\ n \in Nat
    OBVIOUS
  <2>2. s[n + 1].len \in Nat
    BY <2>1, SeqReg, RegType
  <2>3. LenOf(s, n + 1) = LenOf(s, n) + s[n + 1].len
    BY <2>1, LenOfStep
  <2>4. CASE i = n + 1
    BY <1>0, <2>1, <2>4
  <2>5. CASE i <= n
    BY <1>0, <2>2, <2>3, <2>5
  <2> QED BY <2>4, <2>5
<1> HIDE DEF S
<1>3. \A n \in 0 .. Len(s) : n \in S
  BY <1>1, <1>2, UpTo, SeqReg
<1> QED BY <1>3 DEF S

LEMMA LenOfSame ==
  ASSUME NEW s, NEW t, NEW n \in Nat, \A i \in 1 .. n : s[i] = t[i]
  PROVE  \A k \in 0 .. n : LenOf(s, k) = LenOf(t, k)
<1> DEFINE S == {k \in 0 .. n : LenOf(s, k) = LenOf(t, k)}
<1>1. 0 \in S
  BY LenOfStep
<1>2. \A k \in 0 .. n : k < n /\ k \in S => k + 1 \in S
  <2> SUFFICES ASSUME NEW k \in 0 .. n, k < n, LenOf(s, k) = LenOf(t, k)
               PROVE  k + 1 \in 0 .. n /\ LenOf(s, k + 1) = LenOf(t, k + 1)
    OBVIOUS
  <2>1. k + 1 \in 1 .. n /\ k \in Nat
    OBVIOUS
  <2>2. /\ LenOf(s, k + 1) = LenOf(s, k) + s[k + 1].len
        /\ LenOf(t, k + 1) = LenOf(t, k) + t[k + 1].len
    BY <2>1, LenOfStep
  <2> QED BY <2>1, <2>2
<1> HIDE DEF S
<1>3. \A k \in 0 .. n : k \in S
  BY <1>1, <1>2, UpTo
<1> QED BY <1>3 DEF S

\* t is s with r inserted behind its first k elements.
Inserted(s, t, r, k) ==
  /\ t \in Seq(Reg) /\ Len(t) = Len(s) + 1
  /\ \A i \in 1 .. k : t[i] = s[i]
  /\ t[k + 1] = r
  /\ \A i \in k + 1 .. Len(s) : t[i + 1] = s[i]

LEMMA LenOfInserted ==
  ASSUME NEW s \in Seq(Reg), NEW r \in Reg, NEW k \in 0 .. Len(s), NEW t, Inserted(s, t, r, k)
  PROVE  LenOf(t, Len(t)) = LenOf(s, Len(s)) + r.len
<1> DEFINE n == Len(s)
           S == {j \in 0 .. n : j >= k => LenOf(t, j + 1) = LenOf(s, j) + r.len}
<1>0. \A j \in 0 .. n : LenOf(s, j) \in Nat
  BY LenOfNat
<1>1. LenOf(t, k + 1) = LenOf(s, k) + r.len
  <2>1. k \in Nat /\ k \in 0 .. k /\ \A i \in 1 .. k : s[i] = t[i]
    BY DEF Inserted
  <2>2. LenOf(s, k) = LenOf(t, k)
    BY <2>1, LenOfSame
  <2>3. LenOf(t, k + 1) = LenOf(t, k) + t[k + 1].len
    BY <2>1, LenOfStep
  <2> QED BY <2>2, <2>3 DEF Inserted
<1>2. 0 \in S
  BY <1>1
<1>3. \A j \in 0 .. n : j < n /\ j \in S => j + 1 \in S
  <2> SUFFICES ASSUME NEW j \in 0 .. n, j < n, j >= k => LenOf(t, j + 1) = LenOf(s, j) + r.len,
                      j + 1 >= k
               PROVE  LenOf(t, (j + 1) + 1) = LenOf(s, j + 1) + r.len
    OBVIOUS
  <2>1. CASE j + 1 = k
    BY <1>1, <2>1
  <2>2. CASE j >= k
    <3>1. j \in Nat /\ j + 1 \in Nat /\ j + 1 \in k + 1 .. n /\ j + 1 \in 1 .. n
      BY <2>2
    <3>2. LenOf(t, (j + 1) + 1) = LenOf(t, j + 1) + t[(j + 1) + 1].len
      BY <3>1, LenOfStep
    <3>3. LenOf(s, j + 1) = LenOf(s, j) + s[j + 1].len
      BY <3>1, LenOfStep
    <3>4. t[(j + 1) + 1] = s[j + 1] /\ s[j + 1].len \in Nat /\ r.len \in Nat
      BY <3>1, SeqReg, RegType DEF Inserted
    <3> QED BY <1>0, <2>2, <3>2, <3>3, <3>4
  <2> QED BY <2>1, <2>2
<1> HIDE DEF S
<1>4. \A j \in 0 .. n : j \in S
  BY <1>2, <1>3, UpTo, SeqReg
<1>5. n \in 0 .. n /\ n >= k
  OBVIOUS
<1> QED BY <1>4, <1>5 DEF S, Inserted

-----------------------------------------------------------------------------
(* The order of the registrations *)

LEMMA MinimumIn ==
  ASSUME NEW S, S \subseteq Nat, S # {}
  PROVE  Minimum(S) \in S
<1> DEFINE R == OpToRel(<, Nat)
<1>1. \E k \in S : \A j \in S : ~(<<j, k>> \in R)
  <2>1. IsWellFoundedOn(R, Nat)
    BY NatLessThanWellFounded
  <2> HIDE DEF R
  <2> QED BY <2>1, WFMin
<1>2. PICK k \in S : \A j \in S : ~(<<j, k>> \in R)
  BY <1>1
<1>3. \A j \in S : k <= j
  <2> TAKE j \in S
  <2>1. j \in Nat /\ k \in Nat /\ ~(<<j, k>> \in R)
    BY <1>2
  <2>2. j < k => <<j, k>> \in R
    BY <2>1 DEF OpToRel
  <2> HIDE DEF R
  <2> QED BY <2>1, <2>2
<1> QED BY <1>3 DEF Minimum

SortedNames(s) == \A i, j \in 1 .. Len(s) : i < j => s[i].name < s[j].name

LEMMA InsertSorted ==
  ASSUME NEW s \in Seq(Reg), NEW r \in Reg, SortedNames(s), \A i \in 1 .. Len(s) : s[i].name # r.name
  PROVE  \E k \in 0 .. Len(s) :
           /\ Inserted(s, InsertReg(s, r), r, k)
           /\ \A i \in 1 .. k : s[i].name < r.name
           /\ \A i \in k + 1 .. Len(s) : r.name < s[i].name
<1> DEFINE n == Len(s)
           between == { i \in 1 .. (n - 1) : s[i].name < r.name /\ s[i + 1].name > r.name }
<1>0. n \in Nat /\ r.name \in Nat /\ \A i \in 1 .. n : s[i] \in Reg /\ s[i].name \in Nat
  BY SeqReg, RegType
<1>1. CASE s = <<>>
  <2>1. InsertReg(s, r) = <<r>> /\ Len(s) = 0
    BY <1>1 DEF InsertReg
  <2>2. Inserted(s, <<r>>, r, 0)
    BY <2>1 DEF Inserted
  <2>3. 0 \in 0 .. n /\ (\A i \in 1 .. 0 : s[i].name < r.name)
          /\ \A i \in 0 + 1 .. n : r.name < s[i].name
    BY <2>1
  <2> QED BY <2>1, <2>2, <2>3
<1>2. CASE s # <<>> /\ r.name < Head(s).name
  <2>1. InsertReg(s, r) = <<r>> \o s /\ Head(s) = s[1] /\ n >= 1
    BY <1>2 DEF InsertReg
  <2>2. Inserted(s, <<r>> \o s, r, 0)
    BY <2>1 DEF Inserted
  <2>3. 0 \in 0 .. n /\ (\A i \in 1 .. 0 : s[i].name < r.name)
    BY <1>0
  <2>4. \A i \in 0 + 1 .. n : r.name < s[i].name
    <3> TAKE i \in 0 + 1 .. n
    <3>1. i = 1 \/ s[1].name < s[i].name
      BY <2>1 DEF SortedNames
    <3>2. 1 \in 1 .. n
      BY <2>1, <1>0
    <3> QED BY <1>0, <1>2, <2>1, <3>1, <3>2
  <2> QED BY <2>1, <2>2, <2>3, <2>4
<1>3. CASE s # <<>> /\ ~(r.name < Head(s).name) /\ between = {}
  <2>1. InsertReg(s, r) = Append(s, r) /\ Head(s) = s[1] /\ n >= 1
    BY <1>3 DEF InsertReg
  <2>2. Inserted(s, Append(s, r), r, n)
    BY <1>0 DEF Inserted
  <2> DEFINE S == {i \in 0 .. n : i >= 1 => s[i].name < r.name}
  <2>3. 0 \in S
    BY <1>0
  <2>4. \A i \in 0 .. n : i < n /\ i \in S => i + 1 \in S
    <3> SUFFICES ASSUME NEW i \in 0 .. n, i < n, i >= 1 => s[i].name < r.name
                 PROVE  s[i + 1].name < r.name /\ i + 1 \in 0 .. n
      OBVIOUS
    <3>1. i + 1 \in 1 .. n
      OBVIOUS
    <3>2. CASE i = 0
      BY <1>0, <1>3, <2>1, <3>1, <3>2
    <3>3. CASE i >= 1
      <4>1. i \in 1 .. (n - 1)
        BY <1>0, <3>3
      <4>2. ~(s[i + 1].name > r.name)
        BY <1>3, <3>3, <4>1
      <4> QED BY <1>0, <3>1, <4>2
    <3> QED BY <3>2, <3>3
  <2> HIDE DEF S
  <2>5. \A i \in 0 .. n : i \in S
    BY <1>0, <2>3, <2>4, UpTo
  <2>6. \A i \in 1 .. n : s[i].name < r.name
    BY <2>5 DEF S
  <2>7. n \in 0 .. n /\ \A i \in n + 1 .. n : r.name < s[i].name
    BY <1>0
  <2> QED BY <2>1, <2>2, <2>6, <2>7
<1>4. CASE s # <<>> /\ ~(r.name < Head(s).name) /\ between # {}
  <2> DEFINE k == Minimum(between)
  <2>1. k \in between
    <3>1. between \subseteq Nat
      OBVIOUS
    <3> HIDE DEF between
    <3> QED BY <1>4, <3>1, MinimumIn
  <2>2. InsertReg(s, r) = SubSeq(s, 1, k) \o <<r>> \o SubSeq(s, k + 1, Len(s))
    BY <1>4 DEF InsertReg
  <2> HIDE DEF k
  <2>3. k \in 1 .. (n - 1) /\ s[k].name < r.name /\ s[k + 1].name > r.name
    BY <2>1
  <2>4. Inserted(s, SubSeq(s, 1, k) \o <<r>> \o SubSeq(s, k + 1, Len(s)), r, k)
    <3> DEFINE a == SubSeq(s, 1, k)
               b == SubSeq(s, k + 1, Len(s))
               t == a \o <<r>> \o b
    <3>1. a \in Seq(Reg) /\ Len(a) = k /\ \A i \in 1 .. k : a[i] = s[i]
      BY <1>0, <2>3
    <3>2. b \in Seq(Reg) /\ Len(b) = n - k /\ \A i \in 1 .. n - k : b[i] = s[k + i]
      BY <1>0, <2>3
    <3> HIDE DEF a, b
    <3> DEFINE c == a \o <<r>>
    <3>0. c \in Seq(Reg) /\ Len(c) = k + 1 /\ (\A i \in 1 .. k : c[i] = a[i]) /\ c[k + 1] = r
      BY <2>3, <3>1
    <3>3. t \in Seq(Reg) /\ Len(t) = n + 1
      <4> HIDE DEF c
      <4>1. c \o b \in Seq(Reg) /\ Len(c \o b) = Len(c) + Len(b)
        BY <3>0, <3>2, Concat, ZenonT(30)
      <4>2. Len(c) + Len(b) = n + 1
        BY <1>0, <2>3, <3>0, <3>2
      <4> QED BY <4>1, <4>2 DEF c
    <3>4. \A i \in 1 .. k : t[i] = s[i]
      BY <2>3, <3>1, <3>2
    <3>5. t[k + 1] = r
      <4> HIDE DEF c
      <4>1. (c \o b)[k + 1] = c[k + 1]
        BY <1>0, <2>3, <3>0, <3>2
      <4> QED BY <3>0, <4>1 DEF c
    <3>6. \A i \in k + 1 .. n : t[i + 1] = s[i]
      <4> TAKE i \in k + 1 .. n
      <4>1. i - k \in 1 .. n - k /\ k + (i - k) = i /\ (i + 1) - (k + 1) = i - k
        BY <1>0, <2>3
      <4>2. t[i + 1] = b[i - k]
        BY <1>0, <2>3, <3>1, <3>2, <4>1
      <4> QED BY <3>2, <4>1, <4>2
    <3> QED BY <3>3, <3>4, <3>5, <3>6 DEF Inserted, a, b
  <2>5. \A i \in 1 .. k : s[i].name < r.name
    <3> TAKE i \in 1 .. k
    <3>1. i \in 1 .. n /\ k \in 1 .. n /\ (i = k \/ s[i].name < s[k].name)
      BY <1>0, <2>3 DEF SortedNames
    <3> QED BY <1>0, <2>3, <3>1
  <2>6. \A i \in k + 1 .. n : r.name < s[i].name
    <3> TAKE i \in k + 1 .. n
    <3>1. i \in 1 .. n /\ k + 1 \in 1 .. n /\ (i = k + 1 \/ s[k + 1].name < s[i].name)
      BY <1>0, <2>3 DEF SortedNames
    <3> QED BY <1>0, <2>3, <3>1
  <2>7. k \in 0 .. n
    BY <1>0, <2>3
  <2> QED BY <2>2, <2>4, <2>5, <2>6, <2>7
<1> QED BY <1>1, <1>2, <1>3, <1>4

-----------------------------------------------------------------------------
(* The sorted list and the lists by kind *)

LEMMA SortedExist ==
  ASSUME NEW s, Len(s) \in Nat
  PROVE  SortedUpTo(s) = [k \in 0 .. Len(s) |-> IF k = 0 THEN <<>> ELSE InsertReg(SortedUpTo(s)[k - 1], s[k])]
<1> DEFINE n == Len(s)
           Nxt(x, k) == InsertReg(x, s[k])
           Is(a, m) == a = [k \in 0 .. m |-> IF k = 0 THEN <<>> ELSE Nxt(a[k - 1], k)]
           S == {m \in 0 .. n : \E a : Is(a, m)}
<1>1. 0 \in S
  <2> DEFINE a == [k \in 0 .. 0 |-> <<>>]
             h == [k \in 0 .. 0 |-> IF k = 0 THEN <<>> ELSE Nxt(a[k - 1], k)]
  <2> HIDE DEF Nxt
  <2>1. \A k \in 0 .. 0 : a[k] = h[k]
    OBVIOUS
  <2>2. a = h
    BY <2>1
  <2>3. Is(a, 0)
    BY <2>2
  <2> HIDE DEF a, Is
  <2> QED BY <2>3
<1>2. ASSUME NEW m \in 0 .. n, m < n, m \in S
      PROVE  m + 1 \in S
  <2>1. PICK a : Is(a, m)
    BY <1>2
  <2> DEFINE e == [k \in 0 .. m + 1 |-> IF k = m + 1 THEN Nxt(a[m], m + 1) ELSE a[k]]
             h == [k \in 0 .. m + 1 |-> IF k = 0 THEN <<>> ELSE Nxt(e[k - 1], k)]
  <2> HIDE DEF Nxt
  <2>2. ASSUME NEW k \in 0 .. m + 1
        PROVE  e[k] = h[k]
    <3>1. CASE k = m + 1
      <4>1. e[k] = Nxt(a[m], m + 1) /\ e[k - 1] = a[m] /\ k # 0
        BY <3>1
      <4> HIDE DEF e
      <4> QED BY <3>1, <4>1, Zenon
    <3>2. CASE k = 0
      BY <3>2, <2>1
    <3>3. CASE k \in 1 .. m
      <4>1. e[k] = a[k] /\ e[k - 1] = a[k - 1] /\ k # 0 /\ k \in 0 .. m
        BY <3>3
      <4>2. a[k] = Nxt(a[k - 1], k)
        BY <2>1, <4>1, Zenon
      <4> HIDE DEF e
      <4> QED BY <4>1, <4>2, Zenon
    <3> QED BY <3>1, <3>2, <3>3
  <2>3. e = h
    <3>1. e = [k \in 0 .. m + 1 |-> e[k]] /\ h = [k \in 0 .. m + 1 |-> h[k]]
      OBVIOUS
    <3> HIDE DEF e, h
    <3> QED BY <2>2, <3>1
  <2>4. Is(e, m + 1)
    BY <2>3 DEF h
  <2>5. m + 1 \in 0 .. n
    BY <1>2
  <2> HIDE DEF e, Is
  <2> QED BY <2>4, <2>5
<1>3. n \in S
  <2> HIDE DEF S
  <2>1. \A k \in 0 .. n : k \in S
    BY <1>1, <1>2, UpTo
  <2> QED BY <2>1
<1>4. \E a : Is(a, n)
  <2> HIDE DEF Is
  <2> QED BY <1>3
<1> QED BY <1>4, Zenon DEF SortedUpTo

LEMMA KindExist ==
  ASSUME NEW s, NEW mem, Len(s) \in Nat
  PROVE  KindUpTo(s, mem) = [k \in 0 .. Len(s) |-> IF k = 0 THEN <<>> ELSE (IF s[k].mem = mem THEN Append(KindUpTo(s, mem)[k - 1], s[k]) ELSE KindUpTo(s, mem)[k - 1])]
<1> DEFINE n == Len(s)
           Nxt(x, k) == (IF s[k].mem = mem THEN Append(x, s[k]) ELSE x)
           Is(a, m) == a = [k \in 0 .. m |-> IF k = 0 THEN <<>> ELSE Nxt(a[k - 1], k)]
           S == {m \in 0 .. n : \E a : Is(a, m)}
<1>1. 0 \in S
  <2> DEFINE a == [k \in 0 .. 0 |-> <<>>]
             h == [k \in 0 .. 0 |-> IF k = 0 THEN <<>> ELSE Nxt(a[k - 1], k)]
  <2> HIDE DEF Nxt
  <2>1. \A k \in 0 .. 0 : a[k] = h[k]
    OBVIOUS
  <2>2. a = h
    BY <2>1
  <2>3. Is(a, 0)
    BY <2>2
  <2> HIDE DEF a, Is
  <2> QED BY <2>3
<1>2. ASSUME NEW m \in 0 .. n, m < n, m \in S
      PROVE  m + 1 \in S
  <2>1. PICK a : Is(a, m)
    BY <1>2
  <2> DEFINE e == [k \in 0 .. m + 1 |-> IF k = m + 1 THEN Nxt(a[m], m + 1) ELSE a[k]]
             h == [k \in 0 .. m + 1 |-> IF k = 0 THEN <<>> ELSE Nxt(e[k - 1], k)]
  <2> HIDE DEF Nxt
  <2>2. ASSUME NEW k \in 0 .. m + 1
        PROVE  e[k] = h[k]
    <3>1. CASE k = m + 1
      <4>1. e[k] = Nxt(a[m], m + 1) /\ e[k - 1] = a[m] /\ k # 0
        BY <3>1
      <4> HIDE DEF e
      <4> QED BY <3>1, <4>1, Zenon
    <3>2. CASE k = 0
      BY <3>2, <2>1
    <3>3. CASE k \in 1 .. m
      <4>1. e[k] = a[k] /\ e[k - 1] = a[k - 1] /\ k # 0 /\ k \in 0 .. m
        BY <3>3
      <4>2. a[k] = Nxt(a[k - 1], k)
        BY <2>1, <4>1, Zenon
      <4> HIDE DEF e
      <4> QED BY <4>1, <4>2, Zenon
    <3> QED BY <3>1, <3>2, <3>3
  <2>3. e = h
    <3>1. e = [k \in 0 .. m + 1 |-> e[k]] /\ h = [k \in 0 .. m + 1 |-> h[k]]
      OBVIOUS
    <3> HIDE DEF e, h
    <3> QED BY <2>2, <3>1
  <2>4. Is(e, m + 1)
    BY <2>3 DEF h
  <2>5. m + 1 \in 0 .. n
    BY <1>2
  <2> HIDE DEF e, Is
  <2> QED BY <2>4, <2>5
<1>3. n \in S
  <2> HIDE DEF S
  <2>1. \A k \in 0 .. n : k \in S
    BY <1>1, <1>2, UpTo
  <2> QED BY <2>1
<1>4. \E a : Is(a, n)
  <2> HIDE DEF Is
  <2> QED BY <1>3
<1> QED BY <1>4, Zenon DEF KindUpTo

Distinct(s) == \A i, j \in 1 .. Len(s) : s[i].name = s[j].name => i = j

\* t holds the first n registrations of s that satisfy the kind m, each once.
PartOf(t, s, n, m) ==
  /\ t \in Seq(Reg)
  /\ \A i \in 1 .. Len(t) : t[i].mem = m /\ \E j \in 1 .. n : t[i] = s[j]
  /\ \A j \in 1 .. n : s[j].mem = m => \E i \in 1 .. Len(t) : t[i] = s[j]
  /\ Distinct(t)

LEMMA AppendFacts ==
  ASSUME NEW s \in Seq(Reg), NEW r \in Reg
  PROVE  /\ Append(s, r) \in Seq(Reg) /\ Len(Append(s, r)) = Len(s) + 1
         /\ \A i \in 1 .. Len(s) : Append(s, r)[i] = s[i]
         /\ Append(s, r)[Len(s) + 1] = r
OBVIOUS

LEMMA LenOfAppend ==
  ASSUME NEW s \in Seq(Reg), NEW r \in Reg
  PROVE  LenOf(Append(s, r), Len(s) + 1) = LenOf(s, Len(s)) + r.len
<1> DEFINE t == Append(s, r)
<1>1. t \in Seq(Reg) /\ Len(t) = Len(s) + 1 /\ (\A i \in 1 .. Len(s) : t[i] = s[i]) /\ t[Len(s) + 1] = r
  BY AppendFacts
<1>2. Len(s) \in Nat /\ Len(s) \in 0 .. Len(s) /\ \A i \in Len(s) + 1 .. Len(s) : t[i + 1] = s[i]
  BY SeqReg
<1> HIDE DEF t
<1>3. Inserted(s, t, r, Len(s))
  BY <1>1, <1>2 DEF Inserted
<1>4. LenOf(t, Len(t)) = LenOf(s, Len(s)) + r.len
  BY <1>2, <1>3, LenOfInserted
<1> QED BY <1>1, <1>4 DEF t

LEMMA PartGrows ==
  ASSUME NEW s \in Seq(Reg), Distinct(s), NEW n \in 0 .. Len(s), n < Len(s), NEW t, NEW m,
         PartOf(t, s, n, m)
  PROVE  PartOf(IF s[n + 1].mem = m THEN Append(t, s[n + 1]) ELSE t, s, n + 1, m)
<1>0. /\ n + 1 \in 1 .. Len(s) /\ n \in Nat /\ Len(s) \in Nat /\ s[n + 1] \in Reg
      /\ \A j \in 1 .. n : j \in 1 .. Len(s) /\ j \in 1 .. n + 1 /\ j # n + 1
      /\ n + 1 \in 1 .. n + 1
      /\ \A j \in 1 .. n + 1 : j \in 1 .. n \/ j = n + 1
  BY SeqReg
<1>1. CASE s[n + 1].mem # m
  <2>1. \A i \in 1 .. Len(t) : t[i].mem = m /\ \E j \in 1 .. n + 1 : t[i] = s[j]
    BY <1>0 DEF PartOf
  <2>2. \A j \in 1 .. n + 1 : s[j].mem = m => \E i \in 1 .. Len(t) : t[i] = s[j]
    BY <1>0, <1>1 DEF PartOf
  <2> QED BY <1>1, <2>1, <2>2 DEF PartOf
<1>2. CASE s[n + 1].mem = m
  <2> DEFINE r == s[n + 1]
             u == Append(t, r)
  <2>1. t \in Seq(Reg)
    BY DEF PartOf
  <2>2. /\ u \in Seq(Reg) /\ Len(u) = Len(t) + 1 /\ (\A i \in 1 .. Len(t) : u[i] = t[i])
        /\ u[Len(t) + 1] = r
    BY <1>0, <2>1, AppendFacts
  <2> HIDE DEF u
  <2>3. /\ Len(t) \in Nat /\ Len(u) \in 1 .. Len(u)
        /\ \A i \in 1 .. Len(t) : i \in 1 .. Len(u)
        /\ \A i \in 1 .. Len(u) : i \in 1 .. Len(t) \/ i = Len(t) + 1
    BY <2>1, <2>2, SeqReg
  <2>4. \A i \in 1 .. Len(u) : u[i].mem = m /\ \E j \in 1 .. n + 1 : u[i] = s[j]
    <3> TAKE i \in 1 .. Len(u)
    <3>1. CASE i \in 1 .. Len(t)
      <4>1. u[i] = t[i] /\ t[i].mem = m
        BY <2>2, <3>1 DEF PartOf
      <4>2. PICK j \in 1 .. n : t[i] = s[j]
        BY <3>1 DEF PartOf
      <4> QED BY <1>0, <4>1, <4>2
    <3>2. CASE i = Len(t) + 1
      BY <1>0, <1>2, <2>2, <3>2
    <3> QED BY <2>3, <3>1, <3>2
  <2>5. \A j \in 1 .. n + 1 : s[j].mem = m => \E i \in 1 .. Len(u) : u[i] = s[j]
    <3> TAKE j \in 1 .. n + 1
    <3>1. CASE j \in 1 .. n
      <4> HAVE s[j].mem = m
      <4>1. PICK i \in 1 .. Len(t) : t[i] = s[j]
        BY <3>1 DEF PartOf
      <4> QED BY <2>2, <2>3, <4>1
    <3>2. CASE j = n + 1
      BY <2>2, <2>3, <3>2
    <3> QED BY <1>0, <3>1, <3>2
  <2>6. \A i \in 1 .. Len(t) : t[i].name # r.name
    <3> TAKE i \in 1 .. Len(t)
    <3>1. PICK j \in 1 .. n : t[i] = s[j]
      BY DEF PartOf
    <3> QED BY <1>0, <3>1 DEF Distinct
  <2>7. Distinct(u)
    <3> SUFFICES ASSUME NEW i \in 1 .. Len(u), NEW j \in 1 .. Len(u), u[i].name = u[j].name
                 PROVE  i = j
      BY DEF Distinct
    <3>1. CASE i \in 1 .. Len(t) /\ j \in 1 .. Len(t)
      BY <2>2, <3>1 DEF PartOf, Distinct
    <3>2. CASE i = Len(t) + 1 /\ j \in 1 .. Len(t)
      BY <2>2, <2>6, <3>2
    <3>3. CASE j = Len(t) + 1 /\ i \in 1 .. Len(t)
      BY <2>2, <2>6, <3>3
    <3> QED BY <2>3, <3>1, <3>2, <3>3
  <2>8. PartOf(u, s, n + 1, m)
    BY <2>2, <2>4, <2>5, <2>7 DEF PartOf
  <2> QED BY <1>2, <2>8 DEF u
<1> QED BY <1>1, <1>2

\* The two kinds share the registrations and their length.
LEMMA KindFacts ==
  ASSUME NEW s \in Seq(Reg), Distinct(s)
  PROVE  LET a == OfKind(s, "config")
             b == OfKind(s, "stat") IN
         /\ PartOf(a, s, Len(s), "config") /\ PartOf(b, s, Len(s), "stat")
         /\ Len(a) + Len(b) = Len(s)
         /\ LenOf(a, Len(a)) + LenOf(b, Len(b)) = LenOf(s, Len(s))
<1> DEFINE N == Len(s)
           a == KindUpTo(s, "config")
           b == KindUpTo(s, "stat")
           Ok(n) == /\ PartOf(a[n], s, n, "config") /\ PartOf(b[n], s, n, "stat")
                    /\ Len(a[n]) + Len(b[n]) = n
                    /\ LenOf(a[n], Len(a[n])) + LenOf(b[n], Len(b[n])) = LenOf(s, n)
           S == {n \in 0 .. N : Ok(n)}
<1>0. N \in Nat /\ \A i \in 1 .. N : s[i] \in Reg
  BY SeqReg
<1>1. /\ a = [k \in 0 .. N |-> IF k = 0 THEN <<>>
                ELSE (IF s[k].mem = "config" THEN Append(a[k - 1], s[k]) ELSE a[k - 1])]
      /\ b = [k \in 0 .. N |-> IF k = 0 THEN <<>>
                ELSE (IF s[k].mem = "stat" THEN Append(b[k - 1], s[k]) ELSE b[k - 1])]
  BY <1>0, KindExist
<1> HIDE DEF a, b, N
<1>2. \A k \in 0 .. N :
        /\ a[k] = IF k = 0 THEN <<>>
                  ELSE (IF s[k].mem = "config" THEN Append(a[k - 1], s[k]) ELSE a[k - 1])
        /\ b[k] = IF k = 0 THEN <<>>
                  ELSE (IF s[k].mem = "stat" THEN Append(b[k - 1], s[k]) ELSE b[k - 1])
  BY <1>1, Zenon
<1>3. 0 \in S
  <2>1. a[0] = <<>> /\ b[0] = <<>>
    BY <1>0, <1>2
  <2>2. <<>> \in Seq(Reg) /\ Len(<<>>) = 0 /\ LenOf(<<>>, 0) = 0 /\ LenOf(s, 0) = 0
    BY LenOfStep
  <2>3. \A m : PartOf(<<>>, s, 0, m)
    BY DEF PartOf, Distinct
  <2>4. Ok(0)
    BY <2>1, <2>2, <2>3
  <2> HIDE DEF Ok
  <2> QED BY <1>0, <2>4
<1> HIDE DEF Ok
<1>4. \A n \in 0 .. N : n < N /\ n \in S => n + 1 \in S
  <2> SUFFICES ASSUME NEW n \in 0 .. N, n < N, Ok(n)
               PROVE  Ok(n + 1) /\ n + 1 \in 0 .. N
    OBVIOUS
  <2> DEFINE r == s[n + 1]
  <2>0. n \in Nat /\ n + 1 \in 0 .. N /\ n + 1 \in 1 .. N /\ n + 1 # 0 /\ (n + 1) - 1 = n /\ r \in Reg
    BY <1>0
  <2>1. /\ a[n + 1] = IF r.mem = "config" THEN Append(a[n], r) ELSE a[n]
        /\ b[n + 1] = IF r.mem = "stat" THEN Append(b[n], r) ELSE b[n]
    BY <1>2, <2>0
  <2>2. PartOf(a[n + 1], s, n + 1, "config")
    BY <2>0, <2>1, PartGrows DEF N, Ok
  <2>3. PartOf(b[n + 1], s, n + 1, "stat")
    BY <2>0, <2>1, PartGrows DEF N, Ok
  <2>4. LenOf(s, n + 1) = LenOf(s, n) + r.len
    BY <2>0, LenOfStep
  <2>5. a[n] \in Seq(Reg) /\ b[n] \in Seq(Reg)
    BY DEF PartOf, Ok
  <2>10. /\ Len(a[n]) + Len(b[n]) = n
         /\ LenOf(a[n], Len(a[n])) + LenOf(b[n], Len(b[n])) = LenOf(s, n)
    BY DEF Ok
  <2>6. /\ Len(a[n]) \in Nat /\ Len(b[n]) \in Nat
        /\ Len(a[n]) \in 0 .. Len(a[n]) /\ Len(b[n]) \in 0 .. Len(b[n])
        /\ r.len \in Nat /\ r.mem \in {"config", "stat"}
    BY <2>0, <2>5, SeqReg, RegType
  <2>7. LenOf(a[n], Len(a[n])) \in Nat /\ LenOf(b[n], Len(b[n])) \in Nat
    BY <2>5, <2>6, LenOfNat
  <2> HIDE DEF r
  <2>8. CASE r.mem = "config"
    <3>1. a[n + 1] = Append(a[n], r) /\ b[n + 1] = b[n]
      BY <2>1, <2>8
    <3>2. Len(a[n + 1]) = Len(a[n]) + 1 /\ Len(b[n + 1]) = Len(b[n])
      BY <2>0, <2>5, <3>1, AppendFacts
    <3>3. LenOf(a[n + 1], Len(a[n + 1])) = LenOf(a[n], Len(a[n])) + r.len
      BY <2>0, <2>5, <3>1, <3>2, LenOfAppend
    <3>4. Len(a[n + 1]) + Len(b[n + 1]) = n + 1
      <4> DEFINE x == Len(a[n])
                 y == Len(b[n])
      <4>1. x \in Nat /\ y \in Nat /\ x + y = n
        BY <2>6, <2>10
      <4> HIDE DEF x, y
      <4>2. (x + 1) + y = n + 1 /\ x + (y + 1) = n + 1
        BY <2>0, <4>1
      <4> QED BY <3>2, <4>2 DEF x, y
    <3>5. LenOf(a[n + 1], Len(a[n + 1])) + LenOf(b[n + 1], Len(b[n + 1])) = LenOf(s, n + 1)
      BY <2>4, <2>6, <2>7, <2>10, <3>1, <3>3
    <3> QED BY <2>0, <2>2, <2>3, <3>4, <3>5 DEF Ok
  <2>9. CASE r.mem = "stat"
    <3>1. b[n + 1] = Append(b[n], r) /\ a[n + 1] = a[n]
      BY <2>1, <2>9
    <3>2. Len(b[n + 1]) = Len(b[n]) + 1 /\ Len(a[n + 1]) = Len(a[n])
      BY <2>0, <2>5, <3>1, AppendFacts
    <3>3. LenOf(b[n + 1], Len(b[n + 1])) = LenOf(b[n], Len(b[n])) + r.len
      BY <2>0, <2>5, <3>1, <3>2, LenOfAppend
    <3>4. Len(a[n + 1]) + Len(b[n + 1]) = n + 1
      <4> DEFINE x == Len(a[n])
                 y == Len(b[n])
      <4>1. x \in Nat /\ y \in Nat /\ x + y = n
        BY <2>6, <2>10
      <4> HIDE DEF x, y
      <4>2. (x + 1) + y = n + 1 /\ x + (y + 1) = n + 1
        BY <2>0, <4>1
      <4> QED BY <3>2, <4>2 DEF x, y
    <3>5. LenOf(a[n + 1], Len(a[n + 1])) + LenOf(b[n + 1], Len(b[n + 1])) = LenOf(s, n + 1)
      BY <2>4, <2>6, <2>7, <2>10, <3>1, <3>3
    <3> QED BY <2>0, <2>2, <2>3, <3>4, <3>5 DEF Ok
  <2> QED BY <2>6, <2>8, <2>9
<1> HIDE DEF S
<1>5. \A n \in 0 .. N : n \in S
  BY <1>0, <1>3, <1>4, UpTo
<1>6. N \in S
  BY <1>0, <1>5
<1>7. Ok(N)
  BY <1>6 DEF S
<1> QED BY <1>7 DEF OfKind, a, b, N, Ok

\* t holds the first n registrations of s, in the order of their names.
SortOf(t, s, n) ==
  /\ t \in Seq(Reg) /\ Len(t) = n /\ SortedNames(t)
  /\ \A i \in 1 .. n : \E j \in 1 .. n : t[i] = s[j]
  /\ \A j \in 1 .. n : \E i \in 1 .. n : t[i] = s[j]

LEMMA SortGrows ==
  ASSUME NEW s \in Seq(Reg), Distinct(s), NEW n \in 0 .. Len(s), n < Len(s), NEW t, SortOf(t, s, n)
  PROVE  /\ SortOf(InsertReg(t, s[n + 1]), s, n + 1)
         /\ LenOf(InsertReg(t, s[n + 1]), n + 1) = LenOf(t, n) + s[n + 1].len
<1> DEFINE r == s[n + 1]
           u == InsertReg(t, r)
<1>0. /\ n + 1 \in 1 .. Len(s) /\ n \in Nat /\ Len(s) \in Nat /\ r \in Reg
      /\ \A j \in 1 .. n : j \in 1 .. Len(s) /\ j \in 1 .. n + 1 /\ j # n + 1
      /\ n + 1 \in 1 .. n + 1
      /\ \A j \in 1 .. n + 1 : j \in 1 .. n \/ j = n + 1
  BY SeqReg
<1>1. t \in Seq(Reg) /\ Len(t) = n /\ SortedNames(t)
  BY DEF SortOf
<1>2. \A i \in 1 .. n : t[i].name # r.name
  <2> TAKE i \in 1 .. n
  <2>1. PICK j \in 1 .. n : t[i] = s[j]
    BY DEF SortOf
  <2> QED BY <1>0, <2>1 DEF Distinct
<1> HIDE DEF r
<1>3. PICK k \in 0 .. n :
        /\ Inserted(t, u, r, k)
        /\ \A i \in 1 .. k : t[i].name < r.name
        /\ \A i \in k + 1 .. n : r.name < t[i].name
  BY <1>0, <1>1, <1>2, InsertSorted
<1> HIDE DEF u
<1>4. /\ u \in Seq(Reg) /\ Len(u) = n + 1 /\ (\A i \in 1 .. k : u[i] = t[i]) /\ u[k + 1] = r
      /\ \A i \in k + 1 .. n : u[i + 1] = t[i]
  BY <1>1, <1>3 DEF Inserted
<1>5. ASSUME NEW i \in 1 .. n + 1
      PROVE  \/ i \in 1 .. k /\ i \in 1 .. n /\ u[i] = t[i]
             \/ i = k + 1 /\ u[i] = r
             \/ i - 1 \in k + 1 .. n /\ i - 1 \in 1 .. n /\ u[i] = t[i - 1]
  <2>1. CASE i \in 1 .. k
    BY <1>0, <1>3, <1>4, <2>1
  <2>2. CASE i = k + 1
    BY <1>4, <2>2
  <2>3. CASE i > k + 1
    <3>1. i - 1 \in k + 1 .. n /\ i - 1 \in 1 .. n /\ (i - 1) + 1 = i
      BY <1>0, <1>3, <2>3
    <3> QED BY <1>4, <3>1
  <2> QED BY <1>0, <1>3, <2>1, <2>2, <2>3
<1>6. SortedNames(u)
  <2> SUFFICES ASSUME NEW i \in 1 .. n + 1, NEW j \in 1 .. n + 1, i < j
               PROVE  u[i].name < u[j].name
    BY <1>4 DEF SortedNames
  <2>0. \A x \in 1 .. n : t[x].name \in Nat
    BY <1>1, SeqReg, RegType
  <2>1. \A x, y \in 1 .. n : x < y => t[x].name < t[y].name
    BY <1>1 DEF SortedNames
  <2>2. r.name \in Nat /\ k \in Nat /\ n \in Nat /\ i \in Nat /\ j \in Nat
    BY <1>0, <1>3, RegType
  <2>3. CASE i \in 1 .. k /\ i \in 1 .. n /\ u[i] = t[i]
    <3>1. CASE j \in 1 .. k /\ j \in 1 .. n /\ u[j] = t[j]
      BY <2>1, <2>3, <3>1
    <3>2. CASE j = k + 1 /\ u[j] = r
      BY <1>3, <2>3, <3>2
    <3>3. CASE j - 1 \in k + 1 .. n /\ j - 1 \in 1 .. n /\ u[j] = t[j - 1]
      <4>1. i < j - 1
        BY <2>2, <2>3, <3>3
      <4> QED BY <2>1, <2>3, <3>3, <4>1
    <3> QED BY <1>5, <3>1, <3>2, <3>3
  <2>4. CASE i = k + 1 /\ u[i] = r
    <3>1. j - 1 \in k + 1 .. n /\ u[j] = t[j - 1]
      <4>1. j \notin 1 .. k /\ j # k + 1
        BY <2>2, <2>4
      <4> QED BY <1>5, <4>1
    <3> QED BY <1>3, <2>4, <3>1
  <2>5. CASE i - 1 \in k + 1 .. n /\ i - 1 \in 1 .. n /\ u[i] = t[i - 1]
    <3>1. j \notin 1 .. k /\ j # k + 1
      BY <2>2, <2>5
    <3>2. j - 1 \in 1 .. n /\ u[j] = t[j - 1]
      BY <1>5, <3>1
    <3>3. i - 1 < j - 1
      BY <2>2
    <3> QED BY <2>1, <2>5, <3>2, <3>3
  <2> QED BY <1>5, <2>3, <2>4, <2>5
<1>7. \A i \in 1 .. n + 1 : \E j \in 1 .. n + 1 : u[i] = s[j]
  <2> TAKE i \in 1 .. n + 1
  <2>1. ASSUME NEW x \in 1 .. n, u[i] = t[x] PROVE \E j \in 1 .. n + 1 : u[i] = s[j]
    <3>1. PICK j \in 1 .. n : t[x] = s[j]
      BY DEF SortOf
    <3> QED BY <1>0, <2>1, <3>1
  <2>2. u[i] = r => \E j \in 1 .. n + 1 : u[i] = s[j]
    BY <1>0 DEF r
  <2> QED BY <1>5, <2>1, <2>2
<1>8. \A j \in 1 .. n + 1 : \E i \in 1 .. n + 1 : u[i] = s[j]
  <2> TAKE j \in 1 .. n + 1
  <2>1. CASE j = n + 1
    <3>1. k + 1 \in 1 .. n + 1 /\ s[j] = r
      BY <1>0, <1>3, <2>1 DEF r
    <3> QED BY <1>4, <3>1
  <2>2. CASE j \in 1 .. n
    <3>1. PICK i \in 1 .. n : t[i] = s[j]
      BY <2>2 DEF SortOf
    <3>2. CASE i \in 1 .. k
      <4>1. i \in 1 .. n + 1 /\ u[i] = t[i]
        BY <1>0, <1>4, <3>2
      <4> QED BY <3>1, <4>1
    <3>3. CASE i \in k + 1 .. n
      <4>1. i + 1 \in 1 .. n + 1 /\ u[i + 1] = t[i]
        BY <1>0, <1>4, <3>3
      <4> QED BY <3>1, <4>1
    <3>4. i \in 1 .. k \/ i \in k + 1 .. n
      BY <1>0, <1>3
    <3> QED BY <3>2, <3>3, <3>4
  <2> QED BY <1>0, <2>1, <2>2
<1>9. SortOf(u, s, n + 1)
  BY <1>4, <1>6, <1>7, <1>8 DEF SortOf
<1>10. LenOf(u, n + 1) = LenOf(t, n) + r.len
  <2>1. LenOf(u, Len(u)) = LenOf(t, Len(t)) + r.len
    BY <1>0, <1>1, <1>3, LenOfInserted
  <2> QED BY <1>1, <1>4, <2>1
<1> QED BY <1>9, <1>10 DEF u, r

LEMMA SortFacts ==
  ASSUME NEW s \in Seq(Reg), Distinct(s)
  PROVE  LET t == sort_shm_config_reg_by_name(s) IN
         SortOf(t, s, Len(s)) /\ LenOf(t, Len(s)) = LenOf(s, Len(s))
<1> DEFINE N == Len(s)
           a == SortedUpTo(s)
           Ok(n) == SortOf(a[n], s, n) /\ LenOf(a[n], n) = LenOf(s, n)
           S == {n \in 0 .. N : Ok(n)}
<1>0. N \in Nat /\ \A i \in 1 .. N : s[i] \in Reg
  BY SeqReg
<1>1. a = [k \in 0 .. N |-> IF k = 0 THEN <<>> ELSE InsertReg(a[k - 1], s[k])]
  BY <1>0, SortedExist
<1> HIDE DEF a, N
<1>2. \A k \in 0 .. N : a[k] = IF k = 0 THEN <<>> ELSE InsertReg(a[k - 1], s[k])
  BY <1>1, Zenon
<1>3. 0 \in S
  <2>1. a[0] = <<>>
    BY <1>0, <1>2
  <2>2. LenOf(<<>>, 0) = 0 /\ LenOf(s, 0) = 0
    BY LenOfStep
  <2>3. SortOf(<<>>, s, 0)
    BY DEF SortOf, SortedNames
  <2>4. Ok(0)
    BY <2>1, <2>2, <2>3
  <2> HIDE DEF Ok
  <2> QED BY <1>0, <2>4
<1> HIDE DEF Ok
<1>4. \A n \in 0 .. N : n < N /\ n \in S => n + 1 \in S
  <2> SUFFICES ASSUME NEW n \in 0 .. N, n < N, Ok(n)
               PROVE  Ok(n + 1) /\ n + 1 \in 0 .. N
    OBVIOUS
  <2>0. n \in Nat /\ n + 1 \in 0 .. N /\ n + 1 # 0 /\ (n + 1) - 1 = n
    BY <1>0
  <2>1. a[n + 1] = InsertReg(a[n], s[n + 1])
    BY <1>2, <2>0
  <2>2. SortOf(a[n], s, n) /\ LenOf(a[n], n) = LenOf(s, n)
    BY DEF Ok
  <2>3. SortOf(a[n + 1], s, n + 1) /\ LenOf(a[n + 1], n + 1) = LenOf(a[n], n) + s[n + 1].len
    BY <2>0, <2>1, <2>2, SortGrows DEF N
  <2>4. LenOf(s, n + 1) = LenOf(s, n) + s[n + 1].len
    BY <2>0, LenOfStep
  <2> QED BY <2>0, <2>2, <2>3, <2>4 DEF Ok
<1> HIDE DEF S
<1>5. \A n \in 0 .. N : n \in S
  BY <1>0, <1>3, <1>4, UpTo
<1>6. N \in S
  BY <1>0, <1>5
<1>7. Ok(N)
  BY <1>6 DEF S
<1> QED BY <1>7 DEF sort_shm_config_reg_by_name, a, N, Ok

LEMMA LenOfConcat ==
  ASSUME NEW a \in Seq(Reg), NEW b \in Seq(Reg)
  PROVE  \A k \in 0 .. Len(b) : LenOf(a \o b, Len(a) + k) = LenOf(a, Len(a)) + LenOf(b, k)
<1> DEFINE t == a \o b
           S == {k \in 0 .. Len(b) : LenOf(t, Len(a) + k) = LenOf(a, Len(a)) + LenOf(b, k)}
<1>0. Len(a) \in Nat /\ Len(b) \in Nat /\ Len(a) \in 0 .. Len(a)
  BY SeqReg
<1>1. /\ (\A i \in 1 .. Len(a) : t[i] = a[i])
      /\ (\A i \in 1 .. Len(b) : t[Len(a) + i] = b[i])
  BY Concat
<1>2. /\ \A k \in 0 .. Len(a) : LenOf(a, k) \in Nat
      /\ \A k \in 0 .. Len(b) : LenOf(b, k) \in Nat
  BY LenOfNat
<1> HIDE DEF t
<1>3. LenOf(t, Len(a)) = LenOf(a, Len(a))
  BY <1>0, <1>1, LenOfSame
<1>4. 0 \in S
  <2>1. LenOf(b, 0) = 0
    BY LenOfStep
  <2>2. Len(a) + 0 = Len(a) /\ 0 \in 0 .. Len(b)
    BY <1>0
  <2>3. LenOf(a, Len(a)) \in Nat
    BY <1>0, <1>2
  <2>4. LenOf(a, Len(a)) + 0 = LenOf(a, Len(a))
    BY <2>3
  <2> QED BY <1>3, <2>1, <2>2, <2>4
<1>5. \A k \in 0 .. Len(b) : k < Len(b) /\ k \in S => k + 1 \in S
  <2> SUFFICES ASSUME NEW k \in 0 .. Len(b), k < Len(b),
                      LenOf(t, Len(a) + k) = LenOf(a, Len(a)) + LenOf(b, k)
               PROVE  /\ k + 1 \in 0 .. Len(b)
                      /\ LenOf(t, Len(a) + (k + 1)) = LenOf(a, Len(a)) + LenOf(b, k + 1)
    OBVIOUS
  <2>1. /\ k + 1 \in 1 .. Len(b) /\ k + 1 \in 0 .. Len(b) /\ k \in Nat
        /\ Len(a) + k \in Nat /\ Len(a) + (k + 1) = (Len(a) + k) + 1
    BY <1>0
  <2>2. LenOf(b, k + 1) = LenOf(b, k) + b[k + 1].len
    BY <2>1, LenOfStep
  <2>3. LenOf(t, (Len(a) + k) + 1) = LenOf(t, Len(a) + k) + t[(Len(a) + k) + 1].len
    BY <2>1, LenOfStep
  <2>4. t[(Len(a) + k) + 1] = b[k + 1]
    BY <1>1, <2>1
  <2>5. LenOf(a, Len(a)) \in Nat /\ LenOf(b, k) \in Nat /\ b[k + 1].len \in Nat
    BY <1>0, <1>2, <2>1, SeqReg, RegType
  <2>6. LenOf(t, Len(a) + (k + 1)) = (LenOf(a, Len(a)) + LenOf(b, k)) + b[k + 1].len
    BY <2>1, <2>3, <2>4
  <2> QED BY <2>1, <2>2, <2>5, <2>6
<1> HIDE DEF S
<1>6. \A k \in 0 .. Len(b) : k \in S
  BY <1>0, <1>4, <1>5, UpTo
<1> QED BY <1>6 DEF S, t

NConf(v) == Len(OfKind(Regs[v], "config"))

LEMMA RegsFacts ==
  ASSUME NEW v \in Versions
  PROVE  v \in Nat /\ Regs[v] \in Seq(Reg) /\ Distinct(Regs[v]) /\ DOMAIN Regs[v] = 1 .. Len(Regs[v])
<1>1. /\ Regs[v] \in Seq([name : Nat, mem : {"config", "stat"}, len : Nat \ {0}])
      /\ v \in Nat
      /\ \A i, j \in DOMAIN Regs[v] : Regs[v][i].name = Regs[v][j].name => i = j
  BY RegsAssumption DEF Versions
<1>2. Regs[v] \in Seq(Reg)
  BY <1>1, Zenon DEF Reg
<1>3. DOMAIN Regs[v] = 1 .. Len(Regs[v])
  BY <1>2
<1> QED BY <1>1, <1>2, <1>3 DEF Distinct

\* The order of start_shm_map_malloc: the configuration by name, then the statistics;
\* every registration once, and together as long as they are.
LEMMA OrderFacts ==
  ASSUME NEW v \in Versions
  PROVE  LET rs == sort_shm_map_reg_outside(v)
             n == Len(Regs[v]) IN
         /\ n \in Nat /\ rs \in Seq(Reg) /\ Len(rs) = n /\ DOMAIN rs = 1 .. n
         /\ NConf(v) \in 0 .. n
         /\ \A i \in 1 .. n : rs[i].mem = "config" <=> i <= NConf(v)
         /\ \A i, j \in 1 .. NConf(v) : i < j => rs[i].name < rs[j].name
         /\ \A i \in 1 .. n : \E j \in 1 .. n : rs[i] = Regs[v][j]
         /\ \A j \in 1 .. n : \E i \in 1 .. n : rs[i] = Regs[v][j]
         /\ Distinct(rs)
         /\ LenOf(rs, n) = LenOf(Regs[v], n)
<1> DEFINE s == Regs[v]
           rs == sort_shm_map_reg_outside(v)
           n == Len(s)
           c == OfKind(s, "config")
           a == sort_shm_config_reg_by_name(c)
           b == OfKind(s, "stat")
           p == NConf(v)
<1>0. s \in Seq(Reg) /\ Distinct(s) /\ n \in Nat
  BY RegsFacts, SeqReg
<1>1. /\ PartOf(c, s, n, "config") /\ PartOf(b, s, n, "stat") /\ Len(c) + Len(b) = n
      /\ LenOf(c, Len(c)) + LenOf(b, Len(b)) = LenOf(s, n)
  BY <1>0, KindFacts
<1>2. /\ c \in Seq(Reg) /\ Distinct(c) /\ b \in Seq(Reg) /\ Distinct(b)
      /\ p = Len(c) /\ p \in Nat /\ Len(b) \in Nat
  BY <1>1, SeqReg DEF PartOf, NConf
<1>3. SortOf(a, c, p) /\ LenOf(a, p) = LenOf(c, p)
  BY <1>2, SortFacts
<1>4. rs = a \o b
  BY DEF sort_shm_map_reg_outside
<1> HIDE DEF a, b, c, rs, p
<1>5. a \in Seq(Reg) /\ Len(a) = p /\ SortedNames(a)
  BY <1>3 DEF SortOf
<1>6. /\ rs \in Seq(Reg) /\ Len(rs) = p + Len(b)
      /\ \A i \in 1 .. p : rs[i] = a[i]
      /\ \A i \in 1 .. Len(b) : rs[p + i] = b[i]
  <2>1. /\ a \o b \in Seq(Reg) /\ Len(a \o b) = Len(a) + Len(b)
        /\ \A i \in 1 .. Len(a) : (a \o b)[i] = a[i]
        /\ \A i \in 1 .. Len(b) : (a \o b)[Len(a) + i] = b[i]
    <3>1. a \in Seq(Reg) /\ b \in Seq(Reg)
      BY <1>2, <1>5
    <3> QED BY ONLY <3>1, Concat
  <2>2. /\ rs \in Seq(Reg) /\ Len(rs) = Len(a) + Len(b)
        /\ \A i \in 1 .. Len(a) : rs[i] = a[i]
        /\ \A i \in 1 .. Len(b) : rs[Len(a) + i] = b[i]
    BY <2>1, <1>4
  <2>3. Len(a) = p
    BY <1>5
  <2> QED BY <2>2, <2>3
<1>7. /\ p + Len(b) = n /\ p \in 0 .. n
      /\ \A i \in 1 .. n : i \in 1 .. p \/ (i > p /\ i - p \in 1 .. Len(b) /\ p + (i - p) = i)
      /\ \A i \in 1 .. p : i \in 1 .. n /\ i <= p
      /\ \A i \in 1 .. Len(b) : p + i \in 1 .. n
  BY <1>0, <1>1, <1>2
<1>8. Len(rs) = n
  BY <1>6, <1>7
<1>9. DOMAIN rs = 1 .. n
  BY <1>6, <1>8
<1>10. \A i \in 1 .. p : \E j \in 1 .. n : a[i] = s[j] /\ s[j].mem = "config"
  <2> TAKE i \in 1 .. p
  <2>1. PICK x \in 1 .. p : a[i] = c[x]
    BY <1>3 DEF SortOf
  <2>2. PICK j \in 1 .. n : c[x] = s[j]
    BY <1>1, <1>2 DEF PartOf
  <2>3. c[x].mem = "config"
    BY <1>1, <1>2 DEF PartOf
  <2> QED BY <2>1, <2>2, <2>3
<1>11. \A i \in 1 .. Len(b) : \E j \in 1 .. n : b[i] = s[j] /\ s[j].mem = "stat"
  <2> TAKE i \in 1 .. Len(b)
  <2>1. b[i].mem = "stat"
    BY <1>1 DEF PartOf
  <2>2. PICK j \in 1 .. n : b[i] = s[j]
    BY <1>1 DEF PartOf
  <2> QED BY <2>1, <2>2
<1>12. ASSUME NEW i \in 1 .. n
       PROVE  \E j \in 1 .. n : rs[i] = s[j] /\ s[j].mem = IF i <= p THEN "config" ELSE "stat"
  <2>1. CASE i \in 1 .. p
    <3>1. rs[i] = a[i] /\ i <= p
      BY <1>6, <1>7, <2>1
    <3> QED BY <1>10, <2>1, <3>1
  <2>2. CASE i > p /\ i - p \in 1 .. Len(b) /\ p + (i - p) = i
    <3>1. rs[i] = b[i - p] /\ ~(i <= p)
      BY <1>2, <1>6, <2>2
    <3>2. PICK j \in 1 .. n : b[i - p] = s[j] /\ s[j].mem = "stat"
      BY <1>11, <2>2
    <3> QED BY <3>1, <3>2
  <2> QED BY <1>7, <2>1, <2>2
<1>13. \A i \in 1 .. n : rs[i].mem = "config" <=> i <= p
  <2> TAKE i \in 1 .. n
  <2>1. PICK j \in 1 .. n : rs[i] = s[j] /\ s[j].mem = IF i <= p THEN "config" ELSE "stat"
    BY <1>12
  <2> QED BY <2>1
<1>14. \A i \in 1 .. n : \E j \in 1 .. n : rs[i] = s[j]
  BY <1>12
<1>15. \A i, j \in 1 .. p : i < j => rs[i].name < rs[j].name
  BY <1>5, <1>6 DEF SortedNames
<1>16. \A j \in 1 .. n : \E i \in 1 .. n : rs[i] = s[j]
  <2> TAKE j \in 1 .. n
  <2>0. s[j].mem = "config" \/ s[j].mem = "stat"
    BY <1>0, SeqReg, RegType
  <2>1. CASE s[j].mem = "config"
    <3>1. PICK x \in 1 .. p : c[x] = s[j]
      BY <1>1, <1>2, <2>1 DEF PartOf
    <3>2. PICK i \in 1 .. p : a[i] = c[x]
      BY <1>3 DEF SortOf
    <3> QED BY <1>6, <1>7, <3>1, <3>2
  <2>2. CASE s[j].mem = "stat"
    <3>1. PICK i \in 1 .. Len(b) : b[i] = s[j]
      BY <1>1, <2>2 DEF PartOf
    <3> QED BY <1>6, <1>7, <3>1
  <2> QED BY <2>0, <2>1, <2>2
<1>17. Distinct(rs)
  <2> SUFFICES ASSUME NEW i \in 1 .. n, NEW j \in 1 .. n, rs[i].name = rs[j].name
               PROVE  i = j
    BY <1>8 DEF Distinct
  <2>1. rs[i].mem = rs[j].mem
    <3>1. PICK x \in 1 .. n : rs[i] = s[x]
      BY <1>14
    <3>2. PICK y \in 1 .. n : rs[j] = s[y]
      BY <1>14
    <3>3. x = y
      BY <1>0, <3>1, <3>2 DEF Distinct
    <3> QED BY <3>1, <3>2, <3>3
  <2>2. (i <= p) <=> (j <= p)
    BY <1>13, <2>1
  <2>3. CASE i \in 1 .. p
    <3>1. j \in 1 .. p
      BY <1>2, <2>2, <2>3
    <3>2. rs[i].name \in Nat /\ rs[j].name \in Nat
      BY <1>6, <1>8, SeqReg, RegType
    <3>3. ~(i < j) /\ ~(j < i)
      BY <1>15, <2>3, <3>1, <3>2
    <3> QED BY <3>3
  <2>4. CASE i > p /\ i - p \in 1 .. Len(b) /\ p + (i - p) = i
    <3>1. j > p /\ j - p \in 1 .. Len(b) /\ p + (j - p) = j
      BY <1>2, <1>7, <2>2, <2>4
    <3>2. rs[i] = b[i - p] /\ rs[j] = b[j - p]
      BY <1>6, <2>4, <3>1
    <3>3. i - p = j - p
      BY <1>2, <2>4, <3>1, <3>2 DEF Distinct
    <3> QED BY <2>4, <3>1, <3>3
  <2> QED BY <1>7, <2>3, <2>4
<1>18. LenOf(rs, n) = LenOf(s, n)
  <2>1. Len(b) \in 0 .. Len(b)
    BY <1>2
  <2>2. LenOf(a \o b, Len(a) + Len(b)) = LenOf(a, Len(a)) + LenOf(b, Len(b))
    BY <1>2, <1>5, <2>1, LenOfConcat
  <2> QED BY <1>1, <1>2, <1>3, <1>4, <1>5, <1>7, <2>2
<1> QED BY <1>0, <1>6, <1>7, <1>8, <1>9, <1>13, <1>14, <1>15, <1>16, <1>17, <1>18 DEF rs, p

-----------------------------------------------------------------------------
(* Where the regions lie *)

Order(v) == sort_shm_map_reg_outside(v)
Last(v) == Len(Regs[v])
\* where region i of a build begins; the last is the end of the segment
Off(v, i) == MemStart(v) + LenOf(Order(v), i - 1)

LEMMA OrderTypes ==
  ASSUME NEW v \in Versions
  PROVE  /\ Last(v) \in Nat /\ Order(v) \in Seq(Reg) /\ Len(Order(v)) = Last(v)
         /\ DOMAIN Order(v) = 1 .. Last(v) /\ NConf(v) \in 0 .. Last(v) /\ NConf(v) \in Nat
         /\ \A i \in 1 .. Last(v) :
              /\ Order(v)[i].name \in Nat /\ Order(v)[i].len \in Nat /\ Order(v)[i].len # 0
              /\ Order(v)[i].mem \in {"config", "stat"}
              /\ Order(v)[i].mem = "config" <=> i <= NConf(v)
         /\ \A i, j \in 1 .. Last(v) : Order(v)[i].name = Order(v)[j].name => i = j
<1>1. /\ Last(v) \in Nat /\ Order(v) \in Seq(Reg) /\ Len(Order(v)) = Last(v)
      /\ DOMAIN Order(v) = 1 .. Last(v) /\ NConf(v) \in 0 .. Last(v)
      /\ \A i \in 1 .. Last(v) : Order(v)[i].mem = "config" <=> i <= NConf(v)
      /\ Distinct(Order(v))
  BY OrderFacts DEF Order, Last
<1>2. \A i \in 1 .. Last(v) : Order(v)[i] \in Reg
  BY <1>1, SeqReg
<1>3. \A i \in 1 .. Last(v) : /\ Order(v)[i].name \in Nat /\ Order(v)[i].len \in Nat /\ Order(v)[i].len # 0
                              /\ Order(v)[i].mem \in {"config", "stat"}
  BY <1>2, RegType
<1>4. NConf(v) \in Nat
  BY <1>1
<1> QED BY <1>1, <1>3, <1>4 DEF Distinct

LEMMA OffFacts ==
  ASSUME NEW v \in Versions
  PROVE  /\ MemStart(v) \in Nat /\ MemStart(v) > 0
         /\ \A i \in 1 .. Last(v) + 1 : Off(v, i) \in Nat /\ Off(v, i) >= MemStart(v)
         /\ \A i \in 1 .. Last(v) : Off(v, i + 1) = Off(v, i) + Order(v)[i].len
         /\ \A i, j \in 1 .. Last(v) + 1 : i <= j => Off(v, i) <= Off(v, j)
         /\ Off(v, 1) = MemStart(v)
         /\ Off(v, Last(v) + 1) = MAIN_SHM_LEN(v)
         /\ MAIN_SHM_LEN(v) \in Nat
<1> DEFINE rs == Order(v)
           n == Last(v)
           m == MemStart(v)
<1>0. n \in Nat /\ rs \in Seq(Reg) /\ Len(rs) = n
  BY OrderTypes
<1>1. m \in Nat /\ m > 0
  <2>1. MapLen * n \in Nat
    BY <1>0, SizesAssumption
  <2> HIDE DEF n
  <2>2. m = HeadLen + MapLen * n + MapLen
    BY DEF MemStart, n, Last
  <2> QED BY <2>1, <2>2, SizesAssumption
<1>2. \A i \in 0 .. n : LenOf(rs, i) \in Nat
  BY <1>0, LenOfNat
<1>3. \A i, j \in 0 .. n : i <= j => LenOf(rs, i) <= LenOf(rs, j)
  BY <1>0, LenOfMono
<1>4. \A i \in 1 .. n : LenOf(rs, i) = LenOf(rs, i - 1) + rs[i].len
  <2> TAKE i \in 1 .. n
  <2>1. i - 1 \in Nat /\ (i - 1) + 1 = i
    BY <1>0
  <2>2. LenOf(rs, (i - 1) + 1) = LenOf(rs, i - 1) + rs[(i - 1) + 1].len
    BY <2>1, LenOfStep
  <2> QED BY <2>1, <2>2
<1>5. LenOf(rs, 0) = 0
  BY LenOfStep
<1>6. MAIN_SHM_LEN(v) = m + LenOf(rs, n)
  BY OrderFacts DEF MAIN_SHM_LEN, Order, Last
<1>7. \A i : Off(v, i) = m + LenOf(rs, i - 1)
  BY DEF Off
<1>8. \A i \in 1 .. n : rs[i].len \in Nat
  BY OrderTypes
<1> HIDE DEF rs, n, m
<1>9. \A i \in 1 .. n + 1 : Off(v, i) \in Nat /\ Off(v, i) >= m
  <2> TAKE i \in 1 .. n + 1
  <2>1. i - 1 \in 0 .. n
    BY <1>0
  <2>2. LenOf(rs, i - 1) \in Nat
    BY <1>2, <2>1
  <2> QED BY <1>1, <1>7, <2>2
<1>10. \A i \in 1 .. n : Off(v, i + 1) = Off(v, i) + rs[i].len
  <2> TAKE i \in 1 .. n
  <2>1. i - 1 \in 0 .. n /\ (i + 1) - 1 = i
    BY <1>0
  <2>2. LenOf(rs, i - 1) \in Nat /\ rs[i].len \in Nat
    BY <1>2, <1>8, <2>1
  <2>3. Off(v, i + 1) = m + (LenOf(rs, i - 1) + rs[i].len)
    BY <1>4, <1>7, <2>1
  <2> QED BY <1>1, <1>7, <2>2, <2>3
<1>11. \A i, j \in 1 .. n + 1 : i <= j => Off(v, i) <= Off(v, j)
  <2> TAKE i, j \in 1 .. n + 1
  <2> HAVE i <= j
  <2>1. i - 1 \in 0 .. n /\ j - 1 \in 0 .. n /\ i - 1 <= j - 1
    BY <1>0
  <2>2. LenOf(rs, i - 1) \in Nat /\ LenOf(rs, j - 1) \in Nat /\ LenOf(rs, i - 1) <= LenOf(rs, j - 1)
    BY <1>2, <1>3, <2>1
  <2> QED BY <1>1, <1>7, <2>2
<1>12. Off(v, 1) = m
  <2>1. 1 - 1 = 0
    OBVIOUS
  <2> QED BY <1>1, <1>5, <1>7, <2>1
<1>13. Off(v, n + 1) = MAIN_SHM_LEN(v)
  <2>1. (n + 1) - 1 = n
    BY <1>0
  <2> QED BY <1>6, <1>7, <2>1
<1>14. n + 1 \in 1 .. n + 1
  BY <1>0
<1> QED BY <1>1, <1>9, <1>10, <1>11, <1>12, <1>13, <1>14 DEF rs, n, m

\* the regions that restd looks up
LEMMA NeededFacts ==
  ASSUME NEW v \in Versions,
         NEW r \in {<<AclReg, "config", 2>>, <<ActionReg, "config", 1>>,
                    <<IntfReg, "config", 4>>, <<IntfStatReg, "stat", 1>>}
  PROVE  \E i \in 1 .. Last(v) :
           Order(v)[i].name = r[1] /\ Order(v)[i].mem = r[2] /\ Order(v)[i].len >= r[3]
<1>1. PICK j \in DOMAIN Regs[v] :
        Regs[v][j].name = r[1] /\ Regs[v][j].mem = r[2] /\ Regs[v][j].len >= r[3]
  BY RegsAssumption DEF Versions
<1>2. j \in 1 .. Last(v)
  BY <1>1, RegsFacts DEF Last
<1>3. PICK i \in 1 .. Last(v) : Order(v)[i] = Regs[v][j]
  BY <1>2, OrderFacts DEF Order, Last
<1> QED BY <1>1, <1>3

Needed(v, i, name, mem, len) ==
  i \in 1 .. Last(v) /\ Order(v)[i].name = name /\ Order(v)[i].mem = mem /\ Order(v)[i].len >= len

LEMMA FourNeeded ==
  ASSUME NEW v \in Versions
  PROVE  /\ \E i : Needed(v, i, AclReg, "config", 2)
         /\ \E i : Needed(v, i, ActionReg, "config", 1)
         /\ \E i : Needed(v, i, IntfReg, "config", 4)
         /\ \E i : Needed(v, i, IntfStatReg, "stat", 1)
<1>1. \E i : Needed(v, i, AclReg, "config", 2)
  <2> DEFINE r == <<AclReg, "config", 2>>
  <2>1. r[1] = AclReg /\ r[2] = "config" /\ r[3] = 2
    OBVIOUS
  <2>2. \E i \in 1 .. Last(v) :
          Order(v)[i].name = r[1] /\ Order(v)[i].mem = r[2] /\ Order(v)[i].len >= r[3]
    BY NeededFacts
  <2> QED BY <2>1, <2>2 DEF Needed
<1>2. \E i : Needed(v, i, ActionReg, "config", 1)
  <2> DEFINE r == <<ActionReg, "config", 1>>
  <2>1. r[1] = ActionReg /\ r[2] = "config" /\ r[3] = 1
    OBVIOUS
  <2>2. \E i \in 1 .. Last(v) :
          Order(v)[i].name = r[1] /\ Order(v)[i].mem = r[2] /\ Order(v)[i].len >= r[3]
    BY NeededFacts
  <2> QED BY <2>1, <2>2 DEF Needed
<1>3. \E i : Needed(v, i, IntfReg, "config", 4)
  <2> DEFINE r == <<IntfReg, "config", 4>>
  <2>1. r[1] = IntfReg /\ r[2] = "config" /\ r[3] = 4
    OBVIOUS
  <2>2. \E i \in 1 .. Last(v) :
          Order(v)[i].name = r[1] /\ Order(v)[i].mem = r[2] /\ Order(v)[i].len >= r[3]
    BY NeededFacts
  <2> QED BY <2>1, <2>2 DEF Needed
<1>4. \E i : Needed(v, i, IntfStatReg, "stat", 1)
  <2> DEFINE r == <<IntfStatReg, "stat", 1>>
  <2>1. r[1] = IntfStatReg /\ r[2] = "stat" /\ r[3] = 1
    OBVIOUS
  <2>2. \E i \in 1 .. Last(v) :
          Order(v)[i].name = r[1] /\ Order(v)[i].mem = r[2] /\ Order(v)[i].len >= r[3]
    BY NeededFacts
  <2> QED BY <2>1, <2>2 DEF Needed
<1> QED BY <1>1, <1>2, <1>3, <1>4

\* The map of s is that of version v, the first n regions have their places.
LaidOut(s, v, n) ==
  /\ s.ver = v /\ s.size = MAIN_SHM_LEN(v) /\ s.cstart = MemStart(v)
  /\ DOMAIN s.maps = 1 .. Last(v)
  /\ \A i \in 1 .. Last(v) : /\ DOMAIN s.maps[i] = {"name", "off", "len"}
                             /\ s.maps[i].name = Order(v)[i].name
                             /\ s.maps[i].len = Order(v)[i].len
  /\ \A i \in 1 .. Last(v) : i <= n => s.maps[i].off = Off(v, i)
  /\ DOMAIN s.mem = MemStart(v) .. (MAIN_SHM_LEN(v) - 1)
  /\ s.cend = IF n <= NConf(v) THEN MemStart(v) ELSE Off(v, NConf(v) + 1) - 1

\* Statistics are registered, and the configuration in front of them is longer
\* than one cell.
LEMMA ConfBounds ==
  ASSUME NEW v \in Versions
  PROVE  NConf(v) < Last(v) /\ Off(v, NConf(v) + 1) - 1 > MemStart(v)
<1>0. Last(v) \in Nat /\ NConf(v) \in Nat /\ NConf(v) <= Last(v)
  BY OrderTypes
<1>1. PICK i : Needed(v, i, IntfStatReg, "stat", 1)
  BY FourNeeded
<1>2. i \in 1 .. Last(v) /\ ~(i <= NConf(v))
  BY <1>1, OrderTypes DEF Needed
<1>3. PICK j : Needed(v, j, AclReg, "config", 2)
  BY FourNeeded
<1>4. j \in 1 .. Last(v) /\ j <= NConf(v) /\ Order(v)[j].len >= 2 /\ Order(v)[j].len \in Nat
  BY <1>3, OrderTypes DEF Needed
<1>5. /\ j \in 1 .. Last(v) + 1 /\ j + 1 \in 1 .. Last(v) + 1 /\ NConf(v) + 1 \in 1 .. Last(v) + 1
      /\ j + 1 <= NConf(v) + 1
  BY <1>0, <1>4
<1>6. Off(v, j + 1) = Off(v, j) + Order(v)[j].len /\ Off(v, j + 1) <= Off(v, NConf(v) + 1)
  BY <1>4, <1>5, OffFacts
<1>7. /\ Off(v, j) \in Nat /\ Off(v, j) >= MemStart(v) /\ Off(v, NConf(v) + 1) \in Nat
      /\ MemStart(v) \in Nat
  BY <1>5, OffFacts
<1>8. Off(v, NConf(v) + 1) >= MemStart(v) + 2
  BY <1>4, <1>6, <1>7
<1> QED BY <1>0, <1>2, <1>7, <1>8

LEMMA Placed ==
  ASSUME NEW v \in Versions, NEW s, LaidOut(s, v, Last(v)), NEW i \in 1 .. Last(v)
  PROVE  OffsetOf(s, Order(v)[i].name) = Off(v, i)
<1> DEFINE name == Order(v)[i].name
           x == CHOOSE j \in DOMAIN s.maps : s.maps[j].name = name
<1>1. DOMAIN s.maps = 1 .. Last(v) /\ \A j \in 1 .. Last(v) : s.maps[j].name = Order(v)[j].name
  BY DEF LaidOut
<1>2. \E j \in DOMAIN s.maps : s.maps[j].name = name
  BY <1>1
<1>3. x \in 1 .. Last(v) /\ s.maps[x].name = name
  BY <1>1, <1>2
<1>4. OffsetOf(s, name) = s.maps[x].off
  BY <1>2 DEF OffsetOf
<1> HIDE DEF x
<1>5. x = i
  BY <1>1, <1>3, OrderTypes
<1>6. i <= Last(v)
  BY OrderTypes
<1> QED BY <1>4, <1>5, <1>6 DEF LaidOut

\* Two regions do not share a cell, and each lies inside the segment.
LEMMA Apart ==
  ASSUME NEW v \in Versions, NEW i \in 1 .. Last(v), NEW j \in 1 .. Last(v)
  PROVE  /\ Off(v, i) \in Nat /\ Off(v, j) \in Nat
         /\ Order(v)[i].len \in Nat /\ Order(v)[j].len \in Nat
         /\ MemStart(v) \in Nat /\ MAIN_SHM_LEN(v) \in Nat
         /\ MemStart(v) <= Off(v, i) /\ Off(v, i) + Order(v)[i].len <= MAIN_SHM_LEN(v)
         /\ i < j => Off(v, i) + Order(v)[i].len <= Off(v, j)
<1>0. /\ Last(v) \in Nat /\ i \in 1 .. Last(v) + 1 /\ i + 1 \in 1 .. Last(v) + 1
      /\ j \in 1 .. Last(v) + 1 /\ Last(v) + 1 \in 1 .. Last(v) + 1 /\ i + 1 <= Last(v) + 1
      /\ i < j => i + 1 <= j
  BY OrderTypes
<1>1. Off(v, i + 1) = Off(v, i) + Order(v)[i].len
  BY OffFacts
<1>2. Off(v, i + 1) <= Off(v, Last(v) + 1) /\ Off(v, Last(v) + 1) = MAIN_SHM_LEN(v)
  BY <1>0, OffFacts
<1>3. i < j => Off(v, i + 1) <= Off(v, j)
  BY <1>0, OffFacts
<1>4. /\ Off(v, i) \in Nat /\ Off(v, j) \in Nat /\ MemStart(v) <= Off(v, i) /\ MemStart(v) \in Nat
      /\ MAIN_SHM_LEN(v) \in Nat
  BY <1>0, OffFacts
<1>5. Order(v)[i].len \in Nat /\ Order(v)[j].len \in Nat
  BY OrderTypes
<1> QED BY <1>1, <1>2, <1>3, <1>4, <1>5

\* The flag of the ACL sync is a cell of its own.
LEMMA FlagApart ==
  ASSUME NEW v \in Versions, NEW s, LaidOut(s, v, Last(v))
  PROVE  /\ FlagAt(s) \in DOMAIN s.mem
         /\ \A f \in Fields : FieldAt(s, f) # FlagAt(s)
         /\ At(s, IntfStatReg, 1) # FlagAt(s)
<1>1. PICK a : Needed(v, a, AclReg, "config", 2)
  BY FourNeeded
<1>2. PICK b : Needed(v, b, ActionReg, "config", 1)
  BY FourNeeded
<1>3. PICK c : Needed(v, c, IntfReg, "config", 4)
  BY FourNeeded
<1>4. PICK d : Needed(v, d, IntfStatReg, "stat", 1)
  BY FourNeeded
<1>5. /\ a \in 1 .. Last(v) /\ Order(v)[a].name = AclReg /\ Order(v)[a].len >= 2
      /\ b \in 1 .. Last(v) /\ Order(v)[b].name = ActionReg /\ Order(v)[b].len >= 1
      /\ c \in 1 .. Last(v) /\ Order(v)[c].name = IntfReg /\ Order(v)[c].len >= 4
      /\ d \in 1 .. Last(v) /\ Order(v)[d].name = IntfStatReg /\ Order(v)[d].len >= 1
  BY <1>1, <1>2, <1>3, <1>4 DEF Needed
<1>6. /\ OffsetOf(s, AclReg) = Off(v, a) /\ OffsetOf(s, ActionReg) = Off(v, b)
      /\ OffsetOf(s, IntfReg) = Off(v, c) /\ OffsetOf(s, IntfStatReg) = Off(v, d)
  BY <1>5, Placed
<1>7. a # b /\ a # c /\ a # d
  BY <1>5 DEF AclReg, ActionReg, IntfReg, IntfStatReg
<1>8. a \in Nat /\ b \in Nat /\ c \in Nat /\ d \in Nat
  <2>1. Last(v) \in Nat
    BY OrderTypes
  <2> QED BY ONLY <1>5, <2>1, SMT
<1>9. /\ Off(v, a) \in Nat /\ Off(v, b) \in Nat /\ Off(v, c) \in Nat /\ Off(v, d) \in Nat
      /\ MemStart(v) \in Nat /\ MAIN_SHM_LEN(v) \in Nat
      /\ MemStart(v) <= Off(v, a) /\ Off(v, a) + 2 <= MAIN_SHM_LEN(v)
  <2>1. Order(v)[a].len \in Nat
    BY <1>5, Apart
  <2> QED BY <1>5, <2>1, Apart
<1>10. Off(v, b) + 1 <= Off(v, a) \/ Off(v, a) + 2 <= Off(v, b)
  <2>1. Order(v)[a].len \in Nat /\ Order(v)[b].len \in Nat
    BY <1>5, Apart
  <2>2. CASE b < a
    BY <1>5, <1>9, <2>1, <2>2, Apart
  <2>3. CASE a < b
    BY <1>5, <1>9, <2>1, <2>3, Apart
  <2> QED BY <1>7, <1>8, <2>2, <2>3
<1>11. Off(v, c) + 4 <= Off(v, a) \/ Off(v, a) + 2 <= Off(v, c)
  <2>1. Order(v)[a].len \in Nat /\ Order(v)[c].len \in Nat
    BY <1>5, Apart
  <2>2. CASE c < a
    BY <1>5, <1>9, <2>1, <2>2, Apart
  <2>3. CASE a < c
    BY <1>5, <1>9, <2>1, <2>3, Apart
  <2> QED BY <1>7, <1>8, <2>2, <2>3
<1>12. Off(v, d) + 1 <= Off(v, a) \/ Off(v, a) + 2 <= Off(v, d)
  <2>1. Order(v)[a].len \in Nat /\ Order(v)[d].len \in Nat
    BY <1>5, Apart
  <2>2. CASE d < a
    BY <1>5, <1>9, <2>1, <2>2, Apart
  <2>3. CASE a < d
    BY <1>5, <1>9, <2>1, <2>3, Apart
  <2> QED BY <1>7, <1>8, <2>2, <2>3
<1>13. /\ FlagAt(s) = Off(v, a) /\ At(s, IntfStatReg, 1) = Off(v, d)
       /\ At(s, IntfReg, 1) = Off(v, c) /\ At(s, IntfReg, 2) = Off(v, c) + 1
       /\ At(s, IntfReg, 3) = Off(v, c) + 2 /\ At(s, IntfReg, 4) = Off(v, c) + 3
       /\ At(s, ActionReg, 1) = Off(v, b) /\ At(s, AclReg, 2) = Off(v, a) + 1
  BY <1>6, <1>9 DEF FlagAt, At
<1>14. FlagAt(s) \in DOMAIN s.mem
  <2>1. DOMAIN s.mem = MemStart(v) .. (MAIN_SHM_LEN(v) - 1)
    BY DEF LaidOut
  <2> QED BY <1>9, <1>13, <2>1
<1>15. ASSUME NEW f \in Fields PROVE FieldAt(s, f) # FlagAt(s)
  <2>1. f = "type" => FieldAt(s, f) = Off(v, c)
    BY <1>13 DEF FieldAt
  <2>2. f = "mac" => FieldAt(s, f) = Off(v, c) + 1
    BY <1>13 DEF FieldAt
  <2>3. f = "bind1" => FieldAt(s, f) = Off(v, c) + 2
    BY <1>13 DEF FieldAt
  <2>4. f = "bind2" => FieldAt(s, f) = Off(v, c) + 3
    BY <1>13 DEF FieldAt
  <2>5. f = "action" => FieldAt(s, f) = Off(v, b)
    BY <1>13 DEF FieldAt
  <2>6. f = "rule" => FieldAt(s, f) = Off(v, a) + 1
    BY <1>13 DEF FieldAt
  <2> QED BY <1>9, <1>10, <1>11, <1>13, <2>1, <2>2, <2>3, <2>4, <2>5, <2>6 DEF Fields
<1>16. At(s, IntfStatReg, 1) # FlagAt(s)
  BY <1>9, <1>12, <1>13
<1> QED BY <1>14, <1>15, <1>16

\* What LayoutSound says of one segment
SegSound(s) ==
  LET r == s.maps
      conf == { i \in DOMAIN r : \E j \in DOMAIN Regs[s.ver] :
                  Regs[s.ver][j].name = r[i].name /\ IsConfig(Regs[s.ver][j]) } IN
  /\ \A i \in DOMAIN r : s.cstart <= r[i].off /\ r[i].off + r[i].len <= s.size
  /\ \A i, j \in DOMAIN r : i < j => r[i].off + r[i].len <= r[j].off
  /\ \A i, j \in conf : i < j => r[i].name < r[j].name
  /\ \A i \in DOMAIN r : i \in conf <=> r[i].off + r[i].len - 1 <= s.cend
  /\ \A i \in DOMAIN r : i \notin conf => r[i].off > s.cend

LEMMA LaidOutSound ==
  ASSUME NEW v \in Versions, NEW s, LaidOut(s, v, Last(v))
  PROVE  SegSound(s)
<1> DEFINE r == s.maps
           n == Last(v)
           rs == Order(v)
           p == NConf(v)
           conf == { i \in DOMAIN r : \E j \in DOMAIN Regs[s.ver] :
                       Regs[s.ver][j].name = r[i].name /\ IsConfig(Regs[s.ver][j]) }
<1>1. /\ s.ver = v /\ s.size = MAIN_SHM_LEN(v) /\ s.cstart = MemStart(v) /\ DOMAIN r = 1 .. n
      /\ \A i \in 1 .. n : r[i].name = rs[i].name /\ r[i].len = rs[i].len
  BY DEF LaidOut
<1>2. n \in Nat /\ p \in Nat /\ p < n
  BY OrderTypes, ConfBounds
<1>3. \A i \in 1 .. n : r[i].off = Off(v, i)
  BY <1>2 DEF LaidOut
<1>4. s.cend = Off(v, p + 1) - 1
  BY <1>2 DEF LaidOut
<1>5. conf = {i \in 1 .. n : i <= p}
  <2>1. ASSUME NEW i \in 1 .. n, NEW j \in DOMAIN Regs[v], Regs[v][j].name = rs[i].name
        PROVE  rs[i] = Regs[v][j]
    <3>1. j \in 1 .. n /\ Distinct(Regs[v])
      BY RegsFacts DEF Last
    <3>2. PICK x \in 1 .. n : rs[i] = Regs[v][x]
      BY OrderFacts DEF Order, Last
    <3>3. x = j
      BY <2>1, <3>1, <3>2 DEF Distinct, Last
    <3> QED BY <3>2, <3>3
  <2>2. ASSUME NEW i \in 1 .. n PROVE \E j \in DOMAIN Regs[v] : Regs[v][j] = rs[i]
    <3>1. PICK x \in 1 .. n : rs[i] = Regs[v][x]
      BY OrderFacts DEF Order, Last
    <3> QED BY <3>1, RegsFacts DEF Last
  <2>3. \A i \in 1 .. n : rs[i].mem = "config" <=> i <= p
    BY OrderTypes
  <2> HIDE DEF r, n, rs, p
  <2>4. ASSUME NEW i \in 1 .. n
        PROVE  (\E j \in DOMAIN Regs[v] : Regs[v][j].name = r[i].name /\ IsConfig(Regs[v][j])) <=> i <= p
    BY <1>1, <2>1, <2>2, <2>3 DEF IsConfig
  <2> QED BY <1>1, <2>4
<1> HIDE DEF conf, r, n, rs, p
<1>6. ASSUME NEW i \in 1 .. n
      PROVE  /\ r[i].off \in Nat /\ r[i].len \in Nat /\ r[i].len # 0
             /\ s.cstart <= r[i].off /\ r[i].off + r[i].len <= s.size
             /\ i + 1 \in 1 .. n + 1 /\ Off(v, i + 1) = r[i].off + r[i].len
  <2>1. /\ Off(v, i) \in Nat /\ MemStart(v) <= Off(v, i) /\ Off(v, i) + rs[i].len <= MAIN_SHM_LEN(v)
    BY Apart DEF n, rs
  <2>2. rs[i].len \in Nat /\ rs[i].len # 0
    BY OrderTypes DEF n, rs
  <2>3. Off(v, i + 1) = Off(v, i) + rs[i].len
    BY OffFacts DEF n, rs
  <2>4. i + 1 \in 1 .. n + 1
    BY <1>2
  <2> QED BY <1>1, <1>3, <2>1, <2>2, <2>3, <2>4
<1>7. \A i, j \in 1 .. n : i < j => r[i].off + r[i].len <= r[j].off
  <2> TAKE i, j \in 1 .. n
  <2>1. i < j => Off(v, i) + rs[i].len <= Off(v, j)
    BY Apart DEF n, rs
  <2> QED BY <1>1, <1>3, <2>1
<1>8. \A i, j \in conf : i < j => r[i].name < r[j].name
  <2> TAKE i, j \in conf
  <2>1. i \in 1 .. p /\ j \in 1 .. p /\ i \in 1 .. n /\ j \in 1 .. n
    BY <1>2, <1>5
  <2>2. i < j => rs[i].name < rs[j].name
    BY <2>1, OrderFacts DEF rs, p, Order
  <2> QED BY <1>1, <2>1, <2>2
<1>9. p + 1 \in 1 .. n + 1 /\ Off(v, p + 1) \in Nat
  <2>1. p + 1 \in 1 .. n + 1
    BY <1>2
  <2> QED BY <2>1, OffFacts DEF n
<1>10. ASSUME NEW i \in 1 .. n
       PROVE  /\ i \in conf => r[i].off + r[i].len - 1 <= s.cend
              /\ i \notin conf => r[i].off > s.cend
  <2>1. i \in 1 .. n + 1
    BY <1>2
  <2>2. CASE i <= p
    <3>1. i + 1 <= p + 1
      BY <1>2, <2>2
    <3>2. Off(v, i + 1) <= Off(v, p + 1)
      BY <1>6, <1>9, <3>1, OffFacts DEF n
    <3> QED BY <1>4, <1>5, <1>6, <1>9, <2>2, <3>2
  <2>3. CASE ~(i <= p)
    <3>1. p + 1 <= i
      BY <1>2, <2>3
    <3>2. Off(v, p + 1) <= Off(v, i)
      BY <1>9, <2>1, <3>1, OffFacts DEF n
    <3>3. r[i].off = Off(v, i) /\ r[i].off \in Nat
      BY <1>3, <1>6
    <3> QED BY <1>4, <1>5, <1>9, <2>3, <3>2, <3>3
  <2> QED BY <2>2, <2>3
<1>11. \A i \in 1 .. n : i \in conf <=> r[i].off + r[i].len - 1 <= s.cend
  <2> TAKE i \in 1 .. n
  <2>1. s.cend \in Int
    BY <1>4, <1>9
  <2>2. i \notin conf => ~(r[i].off + r[i].len - 1 <= s.cend)
    BY <1>6, <1>10, <2>1
  <2> QED BY <1>10, <2>2
<1> QED BY <1>1, <1>6, <1>7, <1>8, <1>10, <1>11 DEF SegSound, conf, r

-----------------------------------------------------------------------------
(* Types, the lock, the start of the data plane and the layout: the inductive
   invariant *)

SegFields == {"status", "ver", "size", "lock", "maps", "cstart", "cend", "mem", "hot"}
VppFields == {"pc", "ver", "g", "i", "hurt"}
RestdFields == {"up", "g", "loop", "left", "lost"}
JobFields == {"kind", "left", "arch", "items", "module", "error", "start", "plain", "alone"}
LoaderFields == {"pc", "g", "off", "data"}

VppPcs == {"down", "fatal", "link", "check", "init", "maps", "regions", "load", "run"}
\* the data plane is laying out the segment it created
Building == {"init", "maps", "regions"}

Types ==
  /\ DOMAIN segs = Gens
  /\ \A g \in Gens : DOMAIN segs[g] = SegFields /\ segs[g].lock \in 0..1 /\ segs[g].hot \in BOOLEAN
  /\ key \in 0..MaxGen
  /\ DOMAIN vpp = VppFields /\ vpp.pc \in VppPcs /\ vpp.ver \in Versions
  /\ vpp.g \in 0..MaxGen /\ vpp.hurt \in BOOLEAN
  /\ DOMAIN restd = RestdFields /\ restd.g \in 0..MaxGen /\ restd.lost \subseteq 0..MaxGen
  /\ restd.loop \in {"idle", "save", "reset"}
  /\ DOMAIN job = JobFields /\ job.kind \in {"idle", "down", "up"}
  /\ syncer \in {0, restd.g}
  /\ DOMAIN loader = {"vpp", "tool"}
  /\ \A a \in {"vpp", "tool"} :
       DOMAIN loader[a] = LoaderFields /\ loader[a].pc \in {"idle", "open", "copy"}

\* restd works on something under the lock
Busy == restd.loop # "idle" \/ job.kind # "idle"

LockInv ==
  /\ restd.loop = "idle" \/ job.kind = "idle"
  /\ Busy => restd.g \in Gens /\ segs[restd.g].lock = 1
  /\ \A g \in Gens : segs[g].lock = 1 => (restd.g = g /\ Busy) \/ g \in restd.lost

\* The segment that the data plane lays out is not ready, and restd is not
\* linked to it.
BuildInv ==
  /\ vpp.pc \notin {"down", "fatal", "link"} => vpp.g \in Gens
  /\ vpp.pc \in Building =>
       vpp.g # restd.g /\ segs[vpp.g].status # "finish" /\ key \in {0, vpp.g}
  /\ vpp.pc \in {"maps", "regions"} => segs[vpp.g].size = MAIN_SHM_LEN(vpp.ver)
  /\ loader["vpp"].pc # "idle" => vpp.pc = "load" /\ loader["vpp"].g = vpp.g

\* a segment that a start of this version takes
Good(s) == s.status = "finish" /\ s.size = MAIN_SHM_LEN(vpp.ver)

\* As long as no start was cut and the version is the same, the segment under the
\* key is good, unless it is being laid out.
HurtInv ==
  vpp.hurt \/ /\ key # 0 => Good(segs[key]) \/ (vpp.g = key /\ vpp.pc \in Building)
              /\ vpp.pc = "check" => Good(segs[vpp.g])
              /\ vpp.pc # "fatal"

\* A segment that is ready has the layout of the version it was made by, the one
\* that is being laid out has it as far as the loop has come.
LayInv ==
  /\ \A g \in Gens : segs[g].status = "finish" =>
       segs[g].ver \in Versions /\ LaidOut(segs[g], segs[g].ver, Last(segs[g].ver))
  /\ vpp.pc = "regions" =>
       vpp.i \in 1 .. Last(vpp.ver) + 1 /\ LaidOut(segs[vpp.g], vpp.ver, vpp.i - 1)

LInv == Types /\ LockInv /\ BuildInv /\ HurtInv /\ LayInv

LEMMA LayoutKept ==
  ASSUME NEW s, NEW t, NEW v, NEW n, LaidOut(s, v, n), DOMAIN t.mem = DOMAIN s.mem,
         \A f \in {"ver", "size", "maps", "cstart", "cend"} : t[f] = s[f]
  PROVE  LaidOut(t, v, n)
BY DEF LaidOut

-----------------------------------------------------------------------------
(* Steps that only write into the memory of a segment *)

MemOnly(s, t) ==
  /\ DOMAIN t = SegFields
  /\ \A f \in SegFields \ {"mem", "hot"} : t[f] = s[f]
  /\ DOMAIN t.mem = DOMAIN s.mem
  /\ s.hot \in BOOLEAN => t.hot \in BOOLEAN

AllMemOnly ==
  DOMAIN segs' = Gens /\ \A g \in Gens : MemOnly(segs[g], segs'[g])

LEMMA MemOnlySelf ==
  ASSUME NEW s, DOMAIN s = SegFields
  PROVE  MemOnly(s, s)
BY DEF MemOnly

LEMMA MemOnlyTrans ==
  ASSUME NEW s, NEW t, NEW u, MemOnly(s, t), MemOnly(t, u)
  PROVE  MemOnly(s, u)
BY DEF MemOnly

LEMMA MemOnlyMem ==
  ASSUME NEW s, DOMAIN s = SegFields, NEW m, DOMAIN m = DOMAIN s.mem
  PROVE  MemOnly(s, [s EXCEPT !.mem = m])
BY DEF MemOnly, SegFields

LEMMA MemOnlyCell ==
  ASSUME NEW s, DOMAIN s = SegFields, NEW c, NEW v
  PROVE  MemOnly(s, [s EXCEPT !.mem[c] = v])
<1> DEFINE m == [s.mem EXCEPT ![c] = v]
<1>1. DOMAIN m = DOMAIN s.mem
  OBVIOUS
<1>2. [s EXCEPT !.mem[c] = v] = [s EXCEPT !.mem = m]
  OBVIOUS
<1> HIDE DEF m
<1> QED BY <1>1, <1>2, MemOnlyMem

LEMMA SetFieldMemOnly ==
  ASSUME NEW s, DOMAIN s = SegFields, NEW it, NEW junk
  PROVE  MemOnly(s, SetField(s, it, junk))
<1>1. CASE it.f = "clear"
  <2> DEFINE t == [s EXCEPT !.mem[FieldAt(s, "bind1")] = 0]
             u == [t EXCEPT !.mem[FieldAt(s, "bind2")] = 0]
  <2>1. SetField(s, it, junk) = u
    BY <1>1 DEF SetField
  <2>2. MemOnly(s, t)
    BY MemOnlyCell
  <2> HIDE DEF t
  <2>3. MemOnly(t, u)
    BY <2>2, MemOnlyCell DEF MemOnly
  <2> QED BY <2>1, <2>2, <2>3, MemOnlyTrans
<1>2. CASE it.f # "clear"
  BY <1>2, MemOnlyCell, MemOnlySelf DEF SetField
<1> QED BY <1>1, <1>2

LEMMA PutMemOnly ==
  ASSUME NEW s, DOMAIN s = SegFields, NEW items, NEW junk, Len(items) \in Nat
  PROVE  MemOnly(s, update_interface_config(s, items, junk))
<1> DEFINE n == Len(items)
           a == AfterItems(s, items, junk)
           S == {k \in 0 .. n : MemOnly(s, a[k])}
<1>1. \A k \in 0 .. n : a[k] = IF k = 0 THEN s
                               ELSE IF k \in ItemsUpTo(items) THEN SetField(a[k - 1], items[k], junk)
                               ELSE a[k - 1]
  <2>1. a = [k \in 0 .. n |->
               IF k = 0 THEN s
               ELSE IF k \in ItemsUpTo(items) THEN SetField(a[k - 1], items[k], junk)
               ELSE a[k - 1]]
    BY ItemsExist
  <2> HIDE DEF a, n
  <2> QED BY <2>1, Zenon
<1> HIDE DEF a
<1>2. 0 \in S
  BY <1>1, MemOnlySelf
<1>3. \A k \in 0 .. n : k < n /\ k \in S => k + 1 \in S
  <2> SUFFICES ASSUME NEW k \in 0 .. n, k < n, MemOnly(s, a[k])
               PROVE  MemOnly(s, a[k + 1]) /\ k + 1 \in 0 .. n
    OBVIOUS
  <2>1. k + 1 \in 0 .. n /\ k + 1 # 0 /\ (k + 1) - 1 = k
    OBVIOUS
  <2>2. a[k + 1] = SetField(a[k], items[k + 1], junk) \/ a[k + 1] = a[k]
    BY <1>1, <2>1, Zenon
  <2>3. MemOnly(a[k], SetField(a[k], items[k + 1], junk))
    BY SetFieldMemOnly DEF MemOnly
  <2> QED BY <2>1, <2>2, <2>3, MemOnlyTrans
<1> HIDE DEF S
<1>4. \A k \in 0 .. n : k \in S
  BY <1>2, <1>3, UpTo
<1> QED BY <1>4 DEF S, a, update_interface_config

-----------------------------------------------------------------------------
(* What most steps leave alone *)

RestdSame ==
  /\ DOMAIN restd' = RestdFields
  /\ restd'.g = restd.g /\ restd'.loop = restd.loop /\ restd'.lost = restd.lost
JobSame == DOMAIN job' = JobFields /\ job'.kind = job.kind
LoaderSame ==
  /\ DOMAIN loader' = {"vpp", "tool"}
  /\ \A a \in {"vpp", "tool"} :
       DOMAIN loader'[a] = LoaderFields /\ loader'[a].pc \in {"idle", "open", "copy"}
  /\ loader'["vpp"].pc = "idle" \/ (loader'["vpp"].g = loader["vpp"].g /\ loader["vpp"].pc # "idle")

LEMMA SameSegs ==
  ASSUME Types, segs' = segs
  PROVE  AllMemOnly
BY MemOnlySelf DEF Types, AllMemOnly

\* A step that writes at most into memory, and changes neither the key, nor the
\* state of the start, nor who works under the lock, keeps the invariant.
LEMMA FrameKeeps ==
  ASSUME LInv, AllMemOnly, key' = key, vpp' = vpp, RestdSame, JobSame, LoaderSame,
         syncer' \in {0, restd.g}
  PROVE  LInv'
<1>1. ASSUME NEW g \in Gens
      PROVE  /\ DOMAIN segs'[g] = SegFields /\ segs'[g].lock = segs[g].lock
             /\ segs'[g].status = segs[g].status /\ segs'[g].size = segs[g].size
             /\ segs'[g].hot \in BOOLEAN
             /\ segs'[g].ver = segs[g].ver /\ DOMAIN segs'[g].mem = DOMAIN segs[g].mem
             /\ \A f \in {"ver", "size", "maps", "cstart", "cend"} : segs'[g][f] = segs[g][f]
  BY DEF AllMemOnly, MemOnly, SegFields, LInv, Types
<1>2. DOMAIN segs' = Gens
  BY DEF AllMemOnly
<1>3. Types'
  BY <1>1, <1>2 DEF LInv, Types, RestdSame, JobSame, LoaderSame, Gens
<1>4. LockInv'
  BY <1>1 DEF LInv, LockInv, RestdSame, JobSame, Busy
<1>5. BuildInv'
  BY <1>1 DEF LInv, BuildInv, RestdSame, LoaderSame, Building
<1>6. HurtInv'
  <2>1. key \in Gens \/ key = 0
    BY DEF LInv, Types, Gens
  <2>2. vpp.pc = "check" => vpp.g \in Gens
    BY DEF LInv, BuildInv
  <2> QED BY <1>1, <2>1, <2>2 DEF LInv, HurtInv, Good
<1>7. LayInv'
  <2>1. \A g \in Gens : \A v, n : LaidOut(segs[g], v, n) => LaidOut(segs'[g], v, n)
    BY <1>1, LayoutKept
  <2>2. vpp.pc = "regions" => vpp.g \in Gens
    BY DEF LInv, BuildInv
  <2> QED BY <1>1, <2>1, <2>2 DEF LInv, LayInv
<1> QED BY <1>3, <1>4, <1>5, <1>6, <1>7 DEF LInv

LEMMA RestdUnchanged == ASSUME Types, restd' = restd PROVE RestdSame
BY DEF Types, RestdSame
LEMMA JobUnchanged == ASSUME Types, job' = job PROVE JobSame
BY DEF Types, JobSame
LEMMA LoaderUnchanged == ASSUME Types, loader' = loader PROVE LoaderSame
BY DEF Types, LoaderSame

\* one segment is replaced by one that differs in its memory
LEMMA OneSegMem ==
  ASSUME Types, NEW h, NEW t, h \in Gens => MemOnly(segs[h], t), segs' = [segs EXCEPT ![h] = t]
  PROVE  AllMemOnly
<1> SUFFICES ASSUME NEW g \in Gens PROVE MemOnly(segs[g], segs'[g])
  BY DEF Types, AllMemOnly
<1>1. CASE g = h
  BY <1>1 DEF Types
<1>2. CASE g # h
  BY <1>2, MemOnlySelf DEF Types
<1> QED BY <1>1, <1>2

\* one cell of one segment is written
LEMMA OneCell ==
  ASSUME Types, NEW h, NEW c, NEW v, segs' = [segs EXCEPT ![h].mem[c] = v]
  PROVE  AllMemOnly
<1> DEFINE t == [segs[h] EXCEPT !.mem[c] = v]
<1>1. segs' = [segs EXCEPT ![h] = t]
  OBVIOUS
<1>2. h \in Gens => MemOnly(segs[h], t)
  BY MemOnlyCell DEF Types
<1> QED BY <1>1, <1>2, OneSegMem

-----------------------------------------------------------------------------
(* The steps that write into memory *)

LEMMA StepVppCount ==
  ASSUME LInv, Alone(VppCount)
  PROVE  LInv'
<1>1. AllMemOnly
  BY OneCell DEF LInv, Alone, VppCount
<1> QED BY <1>1, FrameKeeps, RestdUnchanged, JobUnchanged, LoaderUnchanged
       DEF Alone, VppCount, LInv, Types

LEMMA LoadBlockMem ==
  ASSUME Types, NEW a \in {"vpp", "tool"}, LoadBlock(a)
  PROVE  AllMemOnly /\ LoaderSame
<1> DEFINE l == loader[a]
           s == segs[l.g]
           got == { c \in DOMAIN s.mem : l.off <= c /\ c < l.off + Block /\ c < l.data.len }
           m == [c \in DOMAIN s.mem |-> IF c \in got THEN l.data.mem[c] ELSE s.mem[c]]
           hot == s.hot \/ s.status # "finish" \/ (FlagAt(s) \in got /\ l.data.mem[FlagAt(s)] = 1)
           t == [s EXCEPT !.mem = m, !.hot = hot]
<1>1. segs' = [segs EXCEPT ![l.g] = t] /\ loader' = [loader EXCEPT ![a].off = @ + Block]
  BY DEF LoadBlock
<1>2. l.g \in Gens => MemOnly(s, t)
  <2>1. DOMAIN m = DOMAIN s.mem /\ hot \in BOOLEAN
    OBVIOUS
  <2> HIDE DEF m, hot
  <2> QED BY <2>1 DEF Types, MemOnly, SegFields
<1>3. LoaderSame
  <2> DEFINE e == [l EXCEPT !.off = l.off + Block]
  <2>1. loader' = [loader EXCEPT ![a] = e] /\ l.pc = "copy"
    BY <1>1 DEF LoadBlock
  <2>2. DOMAIN e = LoaderFields /\ e.pc = l.pc /\ e.g = l.g
    BY DEF Types, LoaderFields
  <2> HIDE DEF e
  <2>3. DOMAIN loader' = {"vpp", "tool"} /\ \A b \in {"vpp", "tool"} :
          loader'[b] = IF b = a THEN e ELSE loader[b]
    BY <2>1 DEF Types
  <2> QED BY <2>1, <2>2, <2>3 DEF Types, LoaderSame
<1> HIDE DEF t
<1> QED BY <1>1, <1>2, <1>3, OneSegMem

LEMMA StepLoadBlock ==
  ASSUME LInv, NEW a \in {"vpp", "tool"}, LoadBlock(a), RestdSame, JobSame, syncer' = syncer
  PROVE  LInv'
BY LoadBlockMem, FrameKeeps DEF LInv, Types, LoadBlock

\* the requests that write one field or several
LEMMA StepPuts ==
  ASSUME LInv,
         \/ \E items \in Puts, junk \in 0..1 : InterfacesConfigPut(items, junk)
         \/ \E v \in 0..1 : ActionPut(v) \/ AclPut(v)
  PROVE  LInv'
<1>1. /\ key' = key /\ vpp' = vpp /\ restd' = restd /\ job' = job /\ loader' = loader
      /\ syncer' = syncer
  BY DEF InterfacesConfigPut, ActionPut, AclPut
<1>2. ASSUME NEW items \in Puts, NEW junk \in 0..1, InterfacesConfigPut(items, junk)
      PROVE  AllMemOnly
  <2> DEFINE t == update_interface_config(segs[restd.g], items, junk)
  <2>1. segs' = [segs EXCEPT ![restd.g] = t]
    BY <1>2 DEF InterfacesConfigPut
  <2>2. Len(items) \in Nat
    BY PutsAssumption
  <2>3. restd.g \in Gens => MemOnly(segs[restd.g], t)
    BY <2>2, PutMemOnly DEF LInv, Types
  <2> HIDE DEF t
  <2> QED BY <2>1, <2>3, OneSegMem DEF LInv
<1>3. ASSUME NEW v \in 0..1, ActionPut(v) \/ AclPut(v)
      PROVE  AllMemOnly
  <2>1. PICK c : segs' = [segs EXCEPT ![restd.g].mem[c] = v]
    BY <1>3 DEF ActionPut, AclPut
  <2> QED BY <2>1, OneCell DEF LInv
<1>4. AllMemOnly
  BY <1>2, <1>3
<1> QED BY <1>1, <1>4, FrameKeeps, RestdUnchanged, JobUnchanged, LoaderUnchanged DEF LInv, Types

LEMMA StepAclSync ==
  ASSUME LInv, AclSyncPatch \/ AclSyncThread \/ AclSyncVpp
  PROVE  LInv'
<1>1. AllMemOnly
  <2>1. CASE AclSyncPatch
    BY <2>1, OneCell DEF AclSyncPatch, LInv
  <2>2. CASE AclSyncThread
    <3>1. PICK flag \in {0, 2} : segs' = [segs EXCEPT ![syncer].mem[FlagAt(segs[syncer])] = flag]
      BY <2>2 DEF AclSyncThread
    <3> QED BY <3>1, OneCell DEF LInv
  <2>3. CASE AclSyncVpp
    BY <2>3, OneCell DEF AclSyncVpp, LInv
  <2> QED BY <2>1, <2>2, <2>3
<1>2. /\ key' = key /\ vpp' = vpp /\ restd' = restd /\ job' = job /\ loader' = loader
      /\ syncer' \in {syncer, 0, restd.g}
  BY DEF AclSyncPatch, AclSyncThread, AclSyncVpp
<1> QED BY <1>1, <1>2, FrameKeeps, RestdUnchanged, JobUnchanged, LoaderUnchanged DEF LInv, Types

LEMMA StepResetRegion ==
  ASSUME LInv, ResetRegion
  PROVE  LInv'
<1>1. PICK name \in restd.left :
        LET refused == name = AclReg /\ Seg.mem[FlagAt(Seg)] > 0 IN
        /\ segs' = [segs EXCEPT ![restd.g].mem =
             [c \in DOMAIN @ |-> IF ~refused /\ c \in RegionCells(Seg, name) \ Kept(Seg)
                                 THEN InitValue ELSE @[c]]]
        /\ restd' = [restd EXCEPT !.left = IF refused THEN {} ELSE @ \ {name}]
  BY DEF ResetRegion
<1> DEFINE refused == name = AclReg /\ Seg.mem[FlagAt(Seg)] > 0
           h == restd.g
           m == [c \in DOMAIN segs[h].mem |->
                   IF ~refused /\ c \in RegionCells(Seg, name) \ Kept(Seg)
                   THEN InitValue ELSE segs[h].mem[c]]
           t == [segs[h] EXCEPT !.mem = m]
<1>2. segs' = [segs EXCEPT ![h] = t]
  BY <1>1
<1>3. h \in Gens => MemOnly(segs[h], t)
  <2>1. DOMAIN m = DOMAIN segs[h].mem
    OBVIOUS
  <2> HIDE DEF m
  <2> QED BY <2>1, MemOnlyMem DEF LInv, Types
<1>4. AllMemOnly
  <2> HIDE DEF t
  <2> QED BY <1>2, <1>3, OneSegMem DEF LInv
<1>5. RestdSame
  BY <1>1 DEF RestdSame, LInv, Types, RestdFields
<1>6. key' = key /\ vpp' = vpp /\ job' = job /\ loader' = loader /\ syncer' = syncer
  BY DEF ResetRegion
<1> QED BY <1>4, <1>5, <1>6, FrameKeeps, JobUnchanged, LoaderUnchanged DEF LInv, Types

LEMMA StepLoadItem ==
  ASSUME LInv, NEW junk, LoadItem(junk)
  PROVE  LInv'
<1>1. key' = key /\ vpp' = vpp /\ restd' = restd /\ loader' = loader /\ syncer' = syncer
  BY DEF LoadItem
<1>2. JobSame
  <2>1. CASE job' = [job EXCEPT !.module = "none"]
    BY <2>1 DEF LInv, Types, JobSame, JobFields
  <2>2. CASE job' # [job EXCEPT !.module = "none"]
    <3> DEFINE ret == ItemAnswer(Head(job.items))
    <3>1. job' = CASE ret = "ok" -> [job EXCEPT !.items = Tail(@)]
                   [] ret = "raise" -> [job EXCEPT !.items = <<>>, !.left = {}, !.error = TRUE]
                   [] OTHER -> [job EXCEPT !.error = TRUE, !.items =
                                  IF job.module = "interfaces" THEN <<>> ELSE Tail(@)]
      BY <2>2 DEF LoadItem
    <3> QED BY <3>1 DEF LInv, Types, JobSame, JobFields
  <2> QED BY <2>1, <2>2
<1>3. AllMemOnly
  <2>1. CASE segs' = segs
    BY <2>1, SameSegs DEF LInv
  <2>2. CASE segs' = [segs EXCEPT ![restd.g] = SetField(@, Head(job.items), junk)]
    <3> DEFINE t == SetField(segs[restd.g], Head(job.items), junk)
    <3>1. segs' = [segs EXCEPT ![restd.g] = t]
      BY <2>2
    <3>2. restd.g \in Gens => MemOnly(segs[restd.g], t)
      BY SetFieldMemOnly DEF LInv, Types
    <3> HIDE DEF t
    <3> QED BY <3>1, <3>2, OneSegMem DEF LInv
  <2> QED BY <2>1, <2>2 DEF LoadItem
<1> QED BY <1>1, <1>2, <1>3, FrameKeeps, RestdUnchanged, LoaderUnchanged DEF LInv, Types

-----------------------------------------------------------------------------
(* The steps that leave the segments alone *)

\* restd's links, its second thread between two writes, its end
LEMMA StepLink ==
  ASSUME LInv, try_link_shm
  PROVE  LInv'
<1>1. restd.g = 0 /\ key \in Gens /\ segs[key].status = "finish"
  BY DEF try_link_shm, LInv, Types, Gens
<1>2. /\ restd' = [restd EXCEPT !.g = key]
      /\ segs' = segs /\ key' = key /\ vpp' = vpp /\ loader' = loader /\ job' = job /\ syncer' = syncer
  BY DEF try_link_shm, shmVars
<1>3. ~Busy /\ syncer = 0
  BY <1>1 DEF LInv, LockInv, Types, Gens
<1>4. /\ DOMAIN restd' = RestdFields /\ restd'.g = key /\ restd'.loop = restd.loop
      /\ restd'.lost = restd.lost
  BY <1>2 DEF LInv, Types, RestdFields
<1>5. Types'
  BY <1>2, <1>3, <1>4 DEF LInv, Types
<1>6. LockInv'
  BY <1>1, <1>2, <1>3, <1>4 DEF LInv, LockInv, Busy, Gens
<1>7. BuildInv'
  BY <1>1, <1>2, <1>4 DEF LInv, BuildInv
<1>8. HurtInv' /\ LayInv'
  BY <1>2 DEF LInv, HurtInv, Good, LayInv
<1> QED BY <1>5, <1>6, <1>7, <1>8 DEF LInv

LEMMA StepJobOnly ==
  ASSUME LInv, sys_conf_save_all \/ LoadModule
  PROVE  LInv'
<1>1. /\ segs' = segs /\ key' = key /\ vpp' = vpp /\ loader' = loader /\ restd' = restd
      /\ syncer' = syncer
  BY DEF sys_conf_save_all, LoadModule, shmVars
<1>2. CASE sys_conf_save_all
  <2>1. PICK x, y : job' = [job EXCEPT !.left = x, !.arch = y]
    BY <1>2 DEF sys_conf_save_all
  <2>2. JobSame
    BY <2>1 DEF LInv, Types, JobSame, JobFields
  <2> QED BY <1>1, <2>2, SameSegs, FrameKeeps, RestdUnchanged, LoaderUnchanged DEF LInv, Types
<1>3. CASE LoadModule
  <2>1. PICK m \in job.left :
          job' = IF m \in job.arch.bad /\ m = "acl"
                 THEN [job EXCEPT !.left = {}, !.error = TRUE]
                 ELSE IF \/ m \in job.arch.bad /\ m # "system"
                         \/ m = "interfaces" /\ job.arch.ports > RealIntfs
                 THEN [job EXCEPT !.left = @ \ {m}, !.error = TRUE]
                 ELSE [job EXCEPT !.left = @ \ {m}, !.module = m, !.items = job.arch.items[m]]
    BY <1>3 DEF LoadModule
  <2>2. JobSame
    BY <2>1 DEF LInv, Types, JobSame, JobFields
  <2> QED BY <1>1, <2>2, SameSegs, FrameKeeps, RestdUnchanged, LoaderUnchanged DEF LInv, Types
<1> QED BY <1>2, <1>3

LEMMA StepRestdStart ==
  ASSUME LInv, RestdStart
  PROVE  LInv'
<1>1. /\ segs' = segs /\ key' = key /\ vpp' = vpp /\ loader' = loader /\ job' = job
      /\ syncer' = syncer
  BY DEF RestdStart, shmVars
<1>2. RestdSame
  BY DEF RestdStart, LInv, Types, RestdSame, RestdFields
<1> QED BY <1>1, <1>2, SameSegs, FrameKeeps, JobUnchanged, LoaderUnchanged DEF LInv, Types

LEMMA IdleJobType == DOMAIN IdleJob = JobFields /\ IdleJob.kind = "idle"
BY DEF IdleJob, JobFields

LEMMA StepRestdCrash ==
  ASSUME LInv, RestdCrash
  PROVE  LInv'
<1>1. /\ segs' = segs /\ key' = key /\ vpp' = vpp /\ loader' = loader /\ job' = IdleJob
      /\ syncer' = 0 /\ restd' = [IdleRestd EXCEPT !.lost = restd.lost \cup {restd.g}]
  BY DEF RestdCrash
<1>2. /\ DOMAIN restd' = RestdFields /\ restd'.g = 0 /\ restd'.loop = "idle"
      /\ restd'.lost = restd.lost \cup {restd.g}
  BY <1>1 DEF IdleRestd, RestdFields
<1>3. 0 \in 0..MaxGen /\ 0 \notin Gens
  BY SizesAssumption DEF Gens
<1>4. Types'
  BY <1>1, <1>2, <1>3, IdleJobType DEF LInv, Types
<1>5. LockInv'
  BY <1>1, <1>2, IdleJobType DEF LInv, LockInv, Busy
<1>6. BuildInv'
  BY <1>1, <1>2, <1>3 DEF LInv, BuildInv, Building
<1>7. HurtInv' /\ LayInv'
  BY <1>1 DEF LInv, HurtInv, Good, LayInv
<1> QED BY <1>4, <1>5, <1>6, <1>7 DEF LInv

\* saving touches only the file and the saver
LEMMA StepSave ==
  ASSUME LInv, NEW a, SaveRemove(a) \/ SaveOpen(a) \/ SaveBlock(a) \/ save_shm \/ save_shm_end,
         RestdSame, JobSame, syncer' = syncer
  PROVE  LInv'
<1>1. segs' = segs /\ key' = key /\ vpp' = vpp /\ loader' = loader
  BY DEF SaveRemove, SaveOpen, SaveBlock, WriteBlock, save_shm, save_shm_end
<1> QED BY <1>1, SameSegs, FrameKeeps, LoaderUnchanged DEF LInv, Types

LEMMA StepLoadShm ==
  ASSUME LInv, load_shm, RestdSame, JobSame, syncer' = syncer
  PROVE  LInv'
<1>1. /\ segs' = segs /\ key' = key /\ vpp' = vpp
      /\ loader' = [loader EXCEPT !["tool"] = [IdleLoader EXCEPT !.pc = "open", !.g = key]]
  BY DEF load_shm
<1>2. LoaderSame
  BY <1>1 DEF LInv, Types, LoaderSame, LoaderFields, IdleLoader
<1> QED BY <1>1, <1>2, SameSegs, FrameKeeps DEF LInv, Types

LEMMA IdleLoaderType == DOMAIN IdleLoader = LoaderFields /\ IdleLoader.pc = "idle"
BY DEF IdleLoader, LoaderFields

\* Of the start, only its place changes, from one where the segment is laid out to
\* another such one.
LEMMA StepLoadDone ==
  ASSUME LInv, NEW a \in {"vpp", "tool"}, loader[a].pc # "idle", LoadDone(a),
         segs' = segs, key' = key, RestdSame, JobSame, syncer' = syncer
  PROVE  LInv'
<1>1. /\ DOMAIN loader' = {"vpp", "tool"} /\ loader'[a] = IdleLoader
      /\ \A b \in {"vpp", "tool"} : b # a => loader'[b] = loader[b]
  BY DEF LoadDone, LInv, Types
<1>2. LoaderSame
  BY <1>1, IdleLoaderType DEF LoaderSame, LInv, Types
<1>3. CASE a = "tool"
  <2>1. vpp' = vpp
    BY <1>3 DEF LoadDone
  <2> QED BY <1>2, <2>1, SameSegs, FrameKeeps DEF LInv, Types
<1>4. CASE a = "vpp"
  <2>1. vpp.pc = "load" /\ vpp' = [vpp EXCEPT !.pc = "run"]
    BY <1>4 DEF LoadDone, LInv, BuildInv
  <2>2. /\ DOMAIN vpp' = VppFields /\ vpp'.pc = "run" /\ vpp'.g = vpp.g /\ vpp'.ver = vpp.ver
        /\ vpp'.hurt = vpp.hurt
    BY <2>1 DEF LInv, Types, VppFields
  <2>3. Types'
    BY <1>2, <2>2 DEF LInv, Types, RestdSame, JobSame, LoaderSame, VppPcs
  <2>4. LockInv'
    BY DEF LInv, LockInv, Busy, RestdSame, JobSame
  <2>5. BuildInv'
    BY <1>1, <1>4, <2>1, <2>2, IdleLoaderType DEF LInv, BuildInv, Building
  <2>6. HurtInv' /\ LayInv'
    BY <2>1, <2>2 DEF LInv, HurtInv, Good, Building, LayInv
  <2> QED BY <2>3, <2>4, <2>5, <2>6 DEF LInv
<1> QED BY <1>3, <1>4

LEMMA StepLoadOpen ==
  ASSUME LInv, NEW a \in {"vpp", "tool"}, LoadOpen(a), RestdSame, JobSame, syncer' = syncer
  PROVE  LInv'
<1>1. segs' = segs /\ key' = key /\ loader[a].pc = "open"
  BY DEF LoadOpen
<1>2. CASE LoadDone(a)
  BY <1>1, <1>2, StepLoadDone
<1>3. CASE /\ loader' = [loader EXCEPT ![a] =
                           [@ EXCEPT !.pc = "copy", !.off = segs[loader[a].g].cstart, !.data = file]]
           /\ vpp' = vpp
  <2>1. LoaderSame
    BY <1>1, <1>3 DEF LoaderSame, LInv, Types, LoaderFields
  <2> QED BY <1>1, <1>3, <2>1, SameSegs, FrameKeeps DEF LInv, Types
<1> QED BY <1>2, <1>3 DEF LoadOpen

LEMMA StepLoadEnd ==
  ASSUME LInv, NEW a \in {"vpp", "tool"}, LoadEnd(a), RestdSame, JobSame, syncer' = syncer
  PROVE  LInv'
BY StepLoadDone DEF LoadEnd

-----------------------------------------------------------------------------
(* The start and the end of the data plane *)

LEMMA StepVppStart ==
  ASSUME LInv, NEW v \in Versions, Alone(VppStart(v))
  PROVE  LInv'
<1>1. /\ segs' = segs /\ key' = key /\ loader' = loader /\ restd' = restd /\ job' = job
      /\ syncer' = syncer /\ vpp.pc \in {"down", "fatal"}
      /\ vpp' = [vpp EXCEPT !.pc = "link", !.ver = v, !.hurt = @ \/ v # vpp.ver]
  BY DEF Alone, VppStart
<1>2. /\ DOMAIN vpp' = VppFields /\ vpp'.pc = "link" /\ vpp'.ver = v /\ vpp'.g = vpp.g
      /\ vpp'.hurt = (vpp.hurt \/ v # vpp.ver)
  BY <1>1 DEF LInv, Types, VppFields
<1>3. Types'
  BY <1>1, <1>2 DEF LInv, Types, VppPcs
<1>4. LockInv'
  BY <1>1 DEF LInv, LockInv, Busy
<1>5. BuildInv'
  BY <1>1, <1>2 DEF LInv, BuildInv, Building
<1>6. HurtInv' /\ LayInv'
  BY <1>1, <1>2 DEF LInv, HurtInv, Good, Building, LayInv
<1> QED BY <1>3, <1>4, <1>5, <1>6 DEF LInv

LEMMA StepVppCheck ==
  ASSUME LInv, Alone(VppCheck)
  PROVE  LInv'
<1>1. /\ segs' = segs /\ key' = key /\ loader' = loader /\ restd' = restd /\ job' = job
      /\ syncer' = syncer /\ vpp.pc = "check"
  BY DEF Alone, VppCheck
<1>2. \/ vpp' = [vpp EXCEPT !.pc = "fatal", !.g = 0] /\ ~Good(segs[vpp.g])
      \/ vpp' = [vpp EXCEPT !.pc = "run"]
  BY DEF Alone, VppCheck, Good
<1>3. /\ DOMAIN vpp' = VppFields /\ vpp'.ver = vpp.ver /\ vpp'.hurt = vpp.hurt
      /\ \/ vpp'.pc = "fatal" /\ vpp'.g = 0 /\ ~Good(segs[vpp.g])
         \/ vpp'.pc = "run" /\ vpp'.g = vpp.g
  BY <1>2 DEF LInv, Types, VppFields
<1>4. 0 \in 0..MaxGen
  BY SizesAssumption
<1>5. Types'
  BY <1>1, <1>3, <1>4 DEF LInv, Types, VppPcs
<1>6. LockInv'
  BY <1>1 DEF LInv, LockInv, Busy
<1>7. BuildInv'
  BY <1>1, <1>3 DEF LInv, BuildInv, Building
<1>8. HurtInv' /\ LayInv'
  BY <1>1, <1>3 DEF LInv, HurtInv, Good, Building, LayInv
<1> QED BY <1>5, <1>6, <1>7, <1>8 DEF LInv

LEMMA StepDelete ==
  ASSUME LInv, Alone(delete_shm)
  PROVE  LInv'
<1>1. /\ segs' = segs /\ key' = 0 /\ vpp' = vpp /\ loader' = loader /\ restd' = restd
      /\ job' = job /\ syncer' = syncer
  BY DEF Alone, delete_shm
<1>2. Types'
  BY <1>1, SizesAssumption DEF LInv, Types
<1>3. LockInv' /\ BuildInv'
  BY <1>1 DEF LInv, LockInv, Busy, BuildInv
<1>4. HurtInv' /\ LayInv'
  BY <1>1 DEF LInv, HurtInv, Good, LayInv
<1> QED BY <1>2, <1>3, <1>4 DEF LInv

LEMMA StepVppCrash ==
  ASSUME LInv, Alone(VppCrash)
  PROVE  LInv'
<1>1. /\ segs' = segs /\ key' = key /\ restd' = restd /\ job' = job /\ syncer' = syncer
      /\ loader' = [loader EXCEPT !["vpp"] = IdleLoader]
      /\ vpp' = [vpp EXCEPT !.pc = "down", !.g = 0, !.i = 0,
                            !.hurt = @ \/ vpp.pc \in {"init", "maps", "regions"}]
  BY DEF Alone, VppCrash
<1>2. /\ DOMAIN vpp' = VppFields /\ vpp'.pc = "down" /\ vpp'.ver = vpp.ver /\ vpp'.g = 0
      /\ vpp'.hurt = (vpp.hurt \/ vpp.pc \in {"init", "maps", "regions"})
  BY <1>1 DEF LInv, Types, VppFields
<1>3. LoaderSame /\ loader'["vpp"].pc = "idle"
  BY <1>1, IdleLoaderType DEF LInv, Types, LoaderSame
<1>4. Types'
  BY <1>1, <1>2, <1>3, SizesAssumption DEF LInv, Types, LoaderSame, VppPcs
<1>5. LockInv'
  BY <1>1 DEF LInv, LockInv, Busy
<1>6. BuildInv'
  BY <1>2, <1>3 DEF BuildInv, Building
<1>7. HurtInv' /\ LayInv'
  BY <1>1, <1>2 DEF LInv, HurtInv, Good, Building, LayInv
<1> QED BY <1>4, <1>5, <1>6, <1>7 DEF LInv

\* One segment changes under the start of the data plane, which nobody else
\* works on; the lock of no other one changes.
LEMMA BuildStep ==
  ASSUME LInv, NEW h \in Gens, h # restd.g, NEW t, segs' = [segs EXCEPT ![h] = t],
         DOMAIN t = SegFields, t.lock \in {0, segs[h].lock}, t.hot \in BOOLEAN,
         restd' = restd, job' = job, syncer' = syncer,
         key' \in 0..MaxGen, key' # 0 => key' \in {key, h},
         DOMAIN vpp' = VppFields, vpp'.pc \in VppPcs \ {"check", "fatal"}, vpp'.ver = vpp.ver,
         vpp'.g = h, vpp'.hurt = vpp.hurt,
         vpp'.pc \in Building => t.status # "finish",
         vpp'.pc \notin Building => t.status = "finish",
         vpp'.pc # "init" => t.size = MAIN_SHM_LEN(vpp.ver),
         LoaderSame \/ loader'["vpp"].g = h, DOMAIN loader' = {"vpp", "tool"},
         \A a \in {"vpp", "tool"} :
           DOMAIN loader'[a] = LoaderFields /\ loader'[a].pc \in {"idle", "open", "copy"},
         loader'["vpp"].pc # "idle" => vpp'.pc = "load" /\ loader'["vpp"].g = h,
         key # 0 => key = h,
         t.status = "finish" => t.ver \in Versions /\ LaidOut(t, t.ver, Last(t.ver)),
         vpp'.pc = "regions" =>
           vpp'.i \in 1 .. Last(vpp.ver) + 1 /\ LaidOut(t, vpp.ver, vpp'.i - 1)
  PROVE  LInv'
<1>1. DOMAIN segs' = Gens /\ segs'[h] = t /\ \A g \in Gens : g # h => segs'[g] = segs[g]
  BY DEF LInv, Types
<1>2. vpp'.g \in 0..MaxGen
  BY DEF Gens
<1>3. Types'
  BY <1>1, <1>2 DEF LInv, Types
<1>4. LockInv'
  <2>1. Busy' = Busy
    BY DEF Busy
  <2>2. \A g \in Gens : segs'[g].lock = 1 => segs[g].lock = 1
    BY <1>1
  <2>3. Busy => segs'[restd.g] = segs[restd.g]
    BY <1>1 DEF LInv, LockInv
  <2> QED BY <2>1, <2>2, <2>3 DEF LInv, LockInv
<1>5. BuildInv'
  BY <1>1 DEF BuildInv, Building
<1>6. HurtInv'
  <2>1. key' \in {0, h} /\ vpp'.pc \notin {"check", "fatal"}
    OBVIOUS
  <2>2. vpp'.pc \notin Building => segs'[h].status = "finish" /\ segs'[h].size = MAIN_SHM_LEN(vpp'.ver)
    BY <1>1 DEF Building
  <2> QED BY <2>1, <2>2 DEF HurtInv, Good
<1>7. LayInv'
  BY <1>1 DEF LInv, LayInv
<1> QED BY <1>3, <1>4, <1>5, <1>6, <1>7 DEF LInv

LEMMA EmptySegType ==
  /\ DOMAIN EmptySeg = SegFields /\ EmptySeg.lock = 0 /\ EmptySeg.hot = FALSE
  /\ EmptySeg.status = "none" /\ EmptySeg.lock \in 0..1 /\ EmptySeg.hot \in BOOLEAN
BY DEF EmptySeg, SegFields

LEMMA StepVppLink ==
  ASSUME LInv, Alone(VppLink({restd.g, syncer}))
  PROVE  LInv'
<1>1. /\ vpp.pc = "link" /\ loader' = loader /\ restd' = restd /\ job' = job /\ syncer' = syncer
  BY DEF Alone, VppLink
<1>2. LoaderSame /\ loader["vpp"].pc = "idle"
  BY <1>1, LoaderUnchanged DEF LInv, BuildInv
<1>3. CASE key # 0 /\ vpp' = [vpp EXCEPT !.pc = "check", !.g = key] /\ segs' = segs /\ key' = key
  <2>1. /\ DOMAIN vpp' = VppFields /\ vpp'.pc = "check" /\ vpp'.ver = vpp.ver /\ vpp'.g = key
        /\ vpp'.hurt = vpp.hurt
    BY <1>3 DEF LInv, Types, VppFields
  <2>2. Types'
    BY <1>1, <1>3, <2>1 DEF LInv, Types, VppPcs
  <2>3. LockInv'
    BY <1>1, <1>3 DEF LInv, LockInv, Busy
  <2>4. BuildInv'
    BY <1>1, <1>2, <1>3, <2>1 DEF LInv, BuildInv, Building, Types, Gens
  <2>5. HurtInv' /\ LayInv'
    BY <1>1, <1>3, <2>1 DEF LInv, HurtInv, Good, Building, LayInv
  <2> QED BY <2>2, <2>3, <2>4, <2>5 DEF LInv
<1>4. ASSUME NEW g \in Gens, g \notin {restd.g, syncer}, key = 0, key' = g,
             segs' = [segs EXCEPT ![g] = [EmptySeg EXCEPT !.status = "zero"]],
             vpp' = [vpp EXCEPT !.pc = "init", !.g = g]
      PROVE  LInv'
  <2> DEFINE t == [EmptySeg EXCEPT !.status = "zero"]
  <2>1. DOMAIN t = SegFields /\ t.lock = 0 /\ t.hot = FALSE /\ t.status = "zero"
    BY EmptySegType DEF SegFields
  <2>2. /\ DOMAIN vpp' = VppFields /\ vpp'.pc = "init" /\ vpp'.ver = vpp.ver /\ vpp'.g = g
        /\ vpp'.hurt = vpp.hurt
    BY <1>4 DEF LInv, Types, VppFields
  <2>3. g \in 0..MaxGen
    BY DEF Gens
  <2>4. DOMAIN loader' = {"vpp", "tool"} /\ \A a \in {"vpp", "tool"} :
          DOMAIN loader'[a] = LoaderFields /\ loader'[a].pc \in {"idle", "open", "copy"}
    BY <1>1 DEF LInv, Types
  <2>5. segs' = [segs EXCEPT ![g] = t]
    BY <1>4
  <2> HIDE DEF t
  <2> QED BY <1>1, <1>2, <1>4, <2>1, <2>2, <2>3, <2>4, <2>5, BuildStep DEF VppPcs, Building
<1> QED BY <1>3, <1>4 DEF Alone, VppLink

\* the segment that is being laid out
LEMMA UnderWay ==
  ASSUME LInv, vpp.pc \in Building
  PROVE  /\ vpp.g \in Gens /\ vpp.g # restd.g /\ key \in {0, vpp.g} /\ loader["vpp"].pc = "idle"
         /\ segs[vpp.g].status # "finish" /\ DOMAIN segs[vpp.g] = SegFields
         /\ segs[vpp.g].lock \in 0..1 /\ segs[vpp.g].hot \in BOOLEAN
         /\ \A a \in {"vpp", "tool"} :
              DOMAIN loader[a] = LoaderFields /\ loader[a].pc \in {"idle", "open", "copy"}
         /\ DOMAIN loader = {"vpp", "tool"}
         /\ vpp.pc # "init" => segs[vpp.g].size = MAIN_SHM_LEN(vpp.ver)
BY DEF LInv, BuildInv, Types, Building

LEMMA StepInitMain ==
  ASSUME LInv, Alone(init_shm_main)
  PROVE  LInv'
<1> DEFINE h == vpp.g
           t == [segs[h] EXCEPT !.status = "notready", !.size = MAIN_SHM_LEN(vpp.ver)]
<1>1. vpp.pc \in Building
  BY DEF Alone, init_shm_main, Building
<1>2. /\ segs' = [segs EXCEPT ![h] = t] /\ key' = key /\ loader' = loader
      /\ restd' = restd /\ job' = job /\ syncer' = syncer /\ vpp' = [vpp EXCEPT !.pc = "maps"]
  BY DEF Alone, init_shm_main
<1>3. /\ DOMAIN vpp' = VppFields /\ vpp'.pc = "maps" /\ vpp'.ver = vpp.ver /\ vpp'.g = h
      /\ vpp'.hurt = vpp.hurt
  BY <1>2 DEF LInv, Types, VppFields
<1>4. /\ DOMAIN t = SegFields /\ t.status = "notready" /\ t.size = MAIN_SHM_LEN(vpp.ver)
      /\ t.lock = segs[h].lock /\ t.hot = segs[h].hot
  BY <1>1, UnderWay DEF SegFields
<1>5. key' \in 0..MaxGen
  BY <1>2 DEF LInv, Types
<1>6. LoaderSame
  BY <1>2, LoaderUnchanged DEF LInv
<1> HIDE DEF t
<1> QED BY <1>1, <1>2, <1>3, <1>4, <1>5, <1>6, UnderWay, BuildStep DEF VppPcs, Building

LEMMA StepStartMaps ==
  ASSUME LInv, Alone(StartMaps)
  PROVE  LInv'
<1> DEFINE h == vpp.g
           v == vpp.ver
           rs == sort_shm_map_reg_outside(v)
           m == [i \in DOMAIN rs |-> [name |-> rs[i].name, off |-> 0, len |-> rs[i].len]]
           c == [x \in MemStart(v) .. (MAIN_SHM_LEN(v) - 1) |-> 0]
           t == [segs[h] EXCEPT !.ver = v, !.lock = 0, !.maps = m, !.cstart = MemStart(v),
                                !.cend = MemStart(v), !.mem = c]
<1>1. vpp.pc \in Building /\ vpp.pc = "maps" /\ v \in Versions
  BY DEF Alone, StartMaps, Building, LInv, Types
<1>2. segs' = [segs EXCEPT ![h] = t]
  BY DEF Alone, StartMaps
<1>3. /\ key' = key /\ loader' = loader
      /\ restd' = restd /\ job' = job /\ syncer' = syncer
      /\ vpp' = [vpp EXCEPT !.pc = "regions", !.i = 1]
  BY DEF Alone, StartMaps
<1>4. /\ DOMAIN vpp' = VppFields /\ vpp'.pc = "regions" /\ vpp'.ver = v /\ vpp'.g = h
      /\ vpp'.hurt = vpp.hurt /\ vpp'.i = 1
  BY <1>3 DEF LInv, Types, VppFields
<1> HIDE DEF m, c
<1>5. /\ DOMAIN t = SegFields /\ t.status = segs[h].status /\ t.size = segs[h].size
      /\ t.lock = 0 /\ t.hot = segs[h].hot /\ t.ver = v /\ t.maps = m /\ t.mem = c
      /\ t.cstart = MemStart(v) /\ t.cend = MemStart(v)
  BY <1>1, UnderWay DEF SegFields
<1>6. key' \in 0..MaxGen
  BY <1>3 DEF LInv, Types
<1>7. LoaderSame
  BY <1>3, LoaderUnchanged DEF LInv
<1>8. LaidOut(t, v, 0)
  <2>1. DOMAIN m = 1 .. Last(v) /\ \A i \in 1 .. Last(v) :
          /\ DOMAIN m[i] = {"name", "off", "len"}
          /\ m[i].name = Order(v)[i].name /\ m[i].len = Order(v)[i].len
    <3>1. DOMAIN rs = 1 .. Last(v) /\ rs = Order(v)
      BY <1>1, OrderTypes DEF Order
    <3> HIDE DEF rs
    <3> QED BY <3>1 DEF m
  <2>2. DOMAIN c = MemStart(v) .. (MAIN_SHM_LEN(v) - 1)
    BY DEF c
  <2>3. 0 <= NConf(v) /\ \A i \in 1 .. Last(v) : ~(i <= 0)
    BY <1>1, OrderTypes
  <2>4. t.size = MAIN_SHM_LEN(v)
    BY <1>1, <1>5, UnderWay
  <2> HIDE DEF t, v, rs
  <2> QED BY <1>5, <2>1, <2>2, <2>3, <2>4 DEF LaidOut
<1>9. vpp'.i \in 1 .. Last(v) + 1 /\ vpp'.i - 1 = 0
  BY <1>1, <1>4, OrderTypes
<1> HIDE DEF t
<1> QED BY <1>1, <1>2, <1>3, <1>4, <1>5, <1>6, <1>7, <1>8, <1>9, UnderWay, BuildStep
       DEF VppPcs, Building

\* one region more has its place
LEMMA StepStartRegion ==
  ASSUME LInv, Alone(StartRegion)
  PROVE  LInv'
<1> DEFINE h == vpp.g
           v == vpp.ver
           s == segs[h]
           i == vpp.i
           pre == Off(v, i)
           e == IF Order(v)[i].mem = "stat" /\ s.cend = s.cstart THEN pre - 1 ELSE s.cend
           c == [x \in DOMAIN s.mem |->
                   IF x \in pre .. (pre + Order(v)[i].len - 1) THEN InitValue ELSE s.mem[x]]
           m == [s.maps EXCEPT ![i].off = pre]
           t == [s EXCEPT !.maps = m, !.cend = e, !.mem = c]
<1>1. vpp.pc \in Building /\ vpp.pc = "regions" /\ v \in Versions /\ h \in Gens
  BY UnderWay DEF Alone, StartRegion, Building, LInv, Types
<1>2. segs' = [segs EXCEPT ![h] = t] /\ i <= Len(Order(v))
  BY DEF Alone, StartRegion, Order, Off
<1>3. /\ key' = key /\ loader' = loader
      /\ restd' = restd /\ job' = job /\ syncer' = syncer
      /\ vpp' = [vpp EXCEPT !.i = vpp.i + 1]
  BY DEF Alone, StartRegion
<1>4. /\ DOMAIN vpp' = VppFields /\ vpp'.pc = "regions" /\ vpp'.ver = v /\ vpp'.g = h
      /\ vpp'.hurt = vpp.hurt /\ vpp'.i = i + 1
  BY <1>1, <1>3 DEF LInv, Types, VppFields
<1>5. i \in 1 .. Last(v) + 1 /\ LaidOut(s, v, i - 1)
  BY <1>1 DEF LInv, LayInv
<1>6. Last(v) \in Nat /\ NConf(v) \in Nat /\ i \in 1 .. Last(v)
  BY <1>1, <1>2, <1>5, OrderTypes
<1>7. DOMAIN c = DOMAIN s.mem
  OBVIOUS
<1> HIDE DEF c, e, m
<1>8. /\ DOMAIN t = SegFields /\ t.status = s.status /\ t.size = s.size
      /\ t.lock = s.lock /\ t.hot = s.hot /\ t.ver = s.ver /\ t.cstart = s.cstart
      /\ t.maps = m /\ t.cend = e /\ t.mem = c
  BY <1>1, UnderWay DEF SegFields
<1>9. LaidOut(t, v, i)
  <2>1. /\ DOMAIN s.maps = 1 .. Last(v)
        /\ \A j \in 1 .. Last(v) : /\ DOMAIN s.maps[j] = {"name", "off", "len"}
                                   /\ s.maps[j].name = Order(v)[j].name
                                   /\ s.maps[j].len = Order(v)[j].len
        /\ \A j \in 1 .. Last(v) : j <= i - 1 => s.maps[j].off = Off(v, j)
        /\ s.ver = v /\ s.size = MAIN_SHM_LEN(v) /\ s.cstart = MemStart(v)
        /\ DOMAIN s.mem = MemStart(v) .. (MAIN_SHM_LEN(v) - 1)
        /\ s.cend = IF i - 1 <= NConf(v) THEN MemStart(v) ELSE Off(v, NConf(v) + 1) - 1
    BY <1>5 DEF LaidOut
  <2>2. DOMAIN m = 1 .. Last(v)
    BY <2>1 DEF m
  <2>3. \A j \in 1 .. Last(v) : j # i => m[j] = s.maps[j]
    BY <2>1 DEF m
  <2>4. m[i] = [s.maps[i] EXCEPT !.off = pre]
    BY <1>6, <2>1 DEF m
  <2>5. DOMAIN m[i] = {"name", "off", "len"} /\ m[i].name = Order(v)[i].name
          /\ m[i].len = Order(v)[i].len /\ m[i].off = pre
    BY <1>6, <2>1, <2>4
  <2>6. \A j \in 1 .. Last(v) : /\ DOMAIN m[j] = {"name", "off", "len"}
                                /\ m[j].name = Order(v)[j].name
                                /\ m[j].len = Order(v)[j].len
    BY <2>1, <2>3, <2>5
  <2>7. \A j \in 1 .. Last(v) : j <= i => m[j].off = Off(v, j)
    <3> TAKE j \in 1 .. Last(v)
    <3>1. j <= i => j = i \/ j <= i - 1
      BY <1>6
    <3> QED BY <2>1, <2>3, <2>5, <3>1
  <2>8. e = IF i <= NConf(v) THEN MemStart(v) ELSE Off(v, NConf(v) + 1) - 1
    <3>1. Order(v)[i].mem = "stat" <=> ~(i <= NConf(v))
      BY <1>1, <1>6, OrderTypes
    <3>2. Off(v, NConf(v) + 1) - 1 > MemStart(v) /\ MemStart(v) \in Nat
            /\ Off(v, NConf(v) + 1) \in Nat
      <4>1. NConf(v) + 1 \in 1 .. Last(v) + 1
        BY <1>1, <1>6, OrderTypes
      <4> QED BY <1>1, <4>1, ConfBounds, OffFacts
    <3>3. CASE i <= NConf(v)
      <4>1. i - 1 <= NConf(v)
        BY <1>6, <3>3
      <4> QED BY <2>1, <3>1, <3>3, <4>1 DEF e
    <3>4. CASE i = NConf(v) + 1
      <4>1. i - 1 <= NConf(v) /\ ~(i <= NConf(v))
        BY <1>6, <3>4
      <4> QED BY <2>1, <3>1, <3>4, <4>1 DEF e
    <3>5. CASE i > NConf(v) + 1
      <4>1. ~(i - 1 <= NConf(v)) /\ ~(i <= NConf(v))
        BY <1>6, <3>5
      <4>2. s.cend = Off(v, NConf(v) + 1) - 1 /\ s.cend # s.cstart
        BY <2>1, <3>2, <4>1
      <4> QED BY <3>1, <4>1, <4>2 DEF e
    <3> QED BY <1>6, <3>3, <3>4, <3>5
  <2> HIDE DEF t, s, v, i
  <2> QED BY <1>7, <1>8, <2>1, <2>2, <2>6, <2>7, <2>8 DEF LaidOut
<1>10. key' \in 0..MaxGen
  BY <1>3 DEF LInv, Types
<1>11. LoaderSame
  BY <1>3, LoaderUnchanged DEF LInv
<1>12. vpp'.i \in 1 .. Last(v) + 1 /\ vpp'.i - 1 = i
  BY <1>4, <1>6
<1> HIDE DEF t
<1> QED BY <1>1, <1>2, <1>3, <1>4, <1>8, <1>9, <1>10, <1>11, <1>12, UnderWay, BuildStep
       DEF VppPcs, Building

LEMMA StepStartFinish ==
  ASSUME LInv, Alone(StartFinish)
  PROVE  LInv'
<1> DEFINE h == vpp.g
           v == vpp.ver
           t == [segs[h] EXCEPT !.status = "finish"]
           l == [IdleLoader EXCEPT !.pc = "open", !.g = vpp.g]
<1>1. vpp.pc \in Building /\ vpp.pc = "regions" /\ v \in Versions
  BY DEF Alone, StartFinish, Building, LInv, Types
<1>2. /\ segs' = [segs EXCEPT ![h] = t] /\ key' = key /\ loader' = [loader EXCEPT !["vpp"] = l]
      /\ restd' = restd /\ job' = job /\ syncer' = syncer
      /\ vpp' = [vpp EXCEPT !.pc = "load", !.i = 0] /\ vpp.i > Last(v)
  BY DEF Alone, StartFinish, Last
<1>3. /\ DOMAIN vpp' = VppFields /\ vpp'.pc = "load" /\ vpp'.ver = vpp.ver /\ vpp'.g = h
      /\ vpp'.hurt = vpp.hurt
  BY <1>2 DEF LInv, Types, VppFields
<1>4. /\ DOMAIN t = SegFields /\ t.status = "finish" /\ t.size = segs[h].size
      /\ t.lock = segs[h].lock /\ t.hot = segs[h].hot
      /\ \A f \in SegFields \ {"status"} : t[f] = segs[h][f]
  BY <1>1, UnderWay DEF SegFields
<1>5. key' \in 0..MaxGen
  BY <1>2 DEF LInv, Types
<1>6. l.pc = "open" /\ l.g = h /\ DOMAIN l = LoaderFields
  BY DEF IdleLoader, LoaderFields
<1> HIDE DEF t, l
<1>7. /\ loader'["vpp"] = l /\ loader'["tool"] = loader["tool"] /\ DOMAIN loader' = {"vpp", "tool"}
  BY <1>1, <1>2, UnderWay
<1>8. \A a \in {"vpp", "tool"} :
        DOMAIN loader'[a] = LoaderFields /\ loader'[a].pc \in {"idle", "open", "copy"}
  BY <1>1, <1>6, <1>7, UnderWay
<1>9. LaidOut(t, v, Last(v)) /\ t.ver = v
  <2>1. vpp.i \in 1 .. Last(v) + 1 /\ LaidOut(segs[h], v, vpp.i - 1)
    BY <1>1 DEF LInv, LayInv
  <2>2. vpp.i - 1 = Last(v)
    BY <1>1, <1>2, <2>1, OrderTypes
  <2>3. LaidOut(segs[h], v, Last(v))
    BY <2>1, <2>2
  <2>4. LaidOut(t, v, Last(v))
    <3>1. DOMAIN t.mem = DOMAIN segs[h].mem
      BY <1>4 DEF SegFields
    <3>2. \A f \in {"ver", "size", "maps", "cstart", "cend"} : t[f] = segs[h][f]
      BY <1>4 DEF SegFields
    <3> QED BY <2>3, <3>1, <3>2, LayoutKept
  <2> QED BY <2>4 DEF LaidOut
<1> QED BY <1>1, <1>2, <1>3, <1>4, <1>5, <1>6, <1>7, <1>8, <1>9, UnderWay, BuildStep DEF VppPcs, Building

LEMMA StepReboot ==
  ASSUME LInv, MachineReboot
  PROVE  LInv'
<1>1. /\ segs' = [g \in Gens |-> EmptySeg] /\ key' = 0 /\ restd' = IdleRestd /\ job' = IdleJob
      /\ syncer' = 0 /\ loader' = [a \in DOMAIN loader |-> IdleLoader]
      /\ vpp' = [vpp EXCEPT !.pc = "down", !.g = 0, !.i = 0, !.hurt = FALSE]
  BY DEF MachineReboot, Reboot
<1>2. /\ DOMAIN vpp' = VppFields /\ vpp'.pc = "down" /\ vpp'.ver = vpp.ver /\ vpp'.g = 0
      /\ vpp'.hurt = FALSE
  BY <1>1 DEF LInv, Types, VppFields
<1>3. /\ DOMAIN restd' = RestdFields /\ restd'.g = 0 /\ restd'.loop = "idle" /\ restd'.lost = {}
  BY <1>1 DEF IdleRestd, RestdFields
<1>4. \A g \in Gens : segs'[g] = EmptySeg
  BY <1>1
<1>5. 0 \in 0..MaxGen
  BY SizesAssumption
<1>6. DOMAIN loader' = {"vpp", "tool"} /\ \A a \in {"vpp", "tool"} : loader'[a] = IdleLoader
  BY <1>1 DEF LInv, Types
<1>7. Types'
  <2>1. DOMAIN segs' = Gens /\ \A g \in Gens :
          DOMAIN segs'[g] = SegFields /\ segs'[g].lock \in 0..1 /\ segs'[g].hot \in BOOLEAN
    <3>1. DOMAIN segs' = Gens
      BY <1>1
    <3> QED BY <3>1, <1>4, EmptySegType, Zenon
  <2>2. /\ DOMAIN vpp' = VppFields /\ vpp'.pc \in VppPcs /\ vpp'.ver \in Versions
        /\ vpp'.g \in 0..MaxGen /\ vpp'.hurt \in BOOLEAN
    BY <1>2, <1>5 DEF LInv, Types, VppPcs
  <2>3. DOMAIN job' = JobFields /\ job'.kind \in {"idle", "down", "up"}
    BY <1>1, IdleJobType
  <2>4. \A a \in {"vpp", "tool"} :
          DOMAIN loader'[a] = LoaderFields /\ loader'[a].pc \in {"idle", "open", "copy"}
    BY <1>6, IdleLoaderType
  <2> QED BY <1>1, <1>3, <1>5, <1>6, <2>1, <2>2, <2>3, <2>4 DEF Types
<1>8. LockInv'
  BY <1>1, <1>3, <1>4, IdleJobType, EmptySegType DEF LockInv, Busy
<1>9. BuildInv'
  BY <1>2, <1>6, IdleLoaderType DEF BuildInv, Building
<1>10. HurtInv' /\ LayInv'
  BY <1>1, <1>2, <1>4, EmptySegType DEF HurtInv, LayInv
<1> QED BY <1>7, <1>8, <1>9, <1>10 DEF LInv

-----------------------------------------------------------------------------
(* The steps that take and release the lock *)

\* the lock of restd's segment is set or cleared, nothing else in a segment
LEMMA LockStep ==
  ASSUME LInv, restd.g \in Gens, NEW x \in 0..1, segs' = [segs EXCEPT ![restd.g].lock = x],
         key' = key, vpp' = vpp, loader' = loader, syncer' = syncer,
         DOMAIN restd' = RestdFields, restd'.g = restd.g, restd'.lost = restd.lost,
         restd'.loop \in {"idle", "save", "reset"},
         DOMAIN job' = JobFields, job'.kind \in {"idle", "down", "up"},
         x = 1 => Busy', x = 0 => ~Busy', restd'.loop = "idle" \/ job'.kind = "idle",
         \A g \in Gens : g # restd.g /\ segs[g].lock = 1 => g \in restd.lost
  PROVE  LInv'
<1>1. /\ DOMAIN segs' = Gens /\ segs'[restd.g].lock = x
      /\ \A g \in Gens : g # restd.g => segs'[g].lock = segs[g].lock
      /\ \A g \in Gens :
           /\ DOMAIN segs'[g] = SegFields /\ segs'[g].status = segs[g].status
           /\ segs'[g].size = segs[g].size /\ segs'[g].hot = segs[g].hot
           /\ segs'[g].mem = segs[g].mem
           /\ \A f \in {"ver", "size", "maps", "cstart", "cend"} : segs'[g][f] = segs[g][f]
  BY DEF LInv, Types, SegFields
<1>2. Types'
  BY <1>1 DEF LInv, Types
<1>3. LockInv'
  BY <1>1 DEF LockInv
<1>4. BuildInv'
  BY <1>1 DEF LInv, BuildInv, Building
<1>5. HurtInv'
  <2>1. key \in Gens \/ key = 0
    BY DEF LInv, Types, Gens
  <2>2. vpp.pc = "check" => vpp.g \in Gens
    BY DEF LInv, BuildInv
  <2> QED BY <1>1, <2>1, <2>2 DEF LInv, HurtInv, Good
<1>6. LayInv'
  <2>1. \A g \in Gens : \A v, n : LaidOut(segs[g], v, n) => LaidOut(segs'[g], v, n)
    <3>1. \A g \in Gens : DOMAIN segs'[g].mem = DOMAIN segs[g].mem
      BY <1>1
    <3> QED BY <1>1, <3>1, LayoutKept, ZenonT(30)
  <2>2. vpp.pc = "regions" => vpp.g \in Gens
    BY DEF LInv, BuildInv
  <2>3. \A g \in Gens : segs'[g].ver = segs[g].ver
    BY <1>1
  <2> QED BY <1>1, <2>1, <2>2, <2>3 DEF LInv, LayInv
<1> QED BY <1>2, <1>3, <1>4, <1>5, <1>6 DEF LInv

\* A request that takes the lock finds restd at rest, and only locks that a restd
\* that died has left.
LEMMA RequestIdle ==
  ASSUME LInv, Idle, Seg.lock = 0
  PROVE  /\ restd.g \in Gens /\ ~Busy
         /\ \A g \in Gens : segs[g].lock = 1 => g \in restd.lost
<1>1. restd.g \in Gens
  BY DEF LInv, Types, Idle, Gens
<1> QED BY <1>1 DEF LInv, LockInv, Seg

LEMMA WorkEnds ==
  ASSUME LInv, Busy
  PROVE  /\ restd.g \in Gens
         /\ \A g \in Gens : g # restd.g /\ segs[g].lock = 1 => g \in restd.lost
BY DEF LInv, LockInv

LEMMA StepTake ==
  ASSUME LInv,
         \/ ResetBegin \/ ConfigSyncPatch
         \/ \E mods \in {Modules, {"interfaces"}} : ConfigGet(mods)
         \/ \E a \in Archives : ConfigPost(a)
  PROVE  LInv'
<1>1. Idle /\ Seg.lock = 0
  BY DEF ResetBegin, ConfigSyncPatch, ConfigGet, ConfigPost, MayChange
<1>2. /\ segs' = [segs EXCEPT ![restd.g].lock = 1]
      /\ key' = key /\ vpp' = vpp /\ loader' = loader /\ syncer' = syncer
  BY DEF ResetBegin, ConfigSyncPatch, ConfigGet, ConfigPost
<1>3. restd.loop = "idle" /\ job.kind = "idle"
  BY <1>1, RequestIdle DEF Busy
<1>4. /\ DOMAIN restd' = RestdFields /\ restd'.g = restd.g /\ restd'.lost = restd.lost
      /\ DOMAIN job' = JobFields
      /\ \/ restd'.loop \in {"save", "reset"} /\ job'.kind = "idle"
         \/ restd'.loop = "idle" /\ job'.kind \in {"down", "up"}
  <2>1. CASE ResetBegin
    BY <1>3, <2>1 DEF ResetBegin, LInv, Types, RestdFields
  <2>2. CASE ConfigSyncPatch
    BY <1>3, <2>2 DEF ConfigSyncPatch, LInv, Types, RestdFields
  <2>3. ASSUME NEW mods \in {Modules, {"interfaces"}}, ConfigGet(mods)
        PROVE  restd' = restd /\ DOMAIN job' = JobFields /\ job'.kind = "down"
    <3>1. PICK st : job' = [IdleJob EXCEPT !.kind = "down", !.left = mods, !.arch = NoArchive,
                                           !.start = st]
      BY <2>3 DEF ConfigGet
    <3> QED BY <2>3, <3>1, IdleJobType DEF ConfigGet, JobFields
  <2>4. ASSUME NEW a \in Archives, ConfigPost(a)
        PROVE  restd' = restd /\ DOMAIN job' = JobFields /\ job'.kind = "up"
    <3>1. PICK pl : job' = [IdleJob EXCEPT !.kind = "up", !.left = a.mods, !.arch = a, !.plain = pl]
      BY <2>4 DEF ConfigPost
    <3> QED BY <2>4, <3>1, IdleJobType DEF ConfigPost, JobFields
  <2> QED BY <1>3, <2>1, <2>2, <2>3, <2>4 DEF LInv, Types
<1>5. Busy'
  BY <1>4 DEF Busy
<1> QED BY <1>1, <1>2, <1>4, <1>5, RequestIdle, LockStep

LEMMA StepRelease ==
  ASSUME LInv, ResetEnd \/ ConfigSyncEnd \/ ConfigGetEnd \/ ConfigPostEnd
  PROVE  LInv'
<1>1. /\ segs' = [segs EXCEPT ![restd.g].lock = 0]
      /\ key' = key /\ vpp' = vpp /\ loader' = loader /\ syncer' = syncer
  BY DEF ResetEnd, ConfigSyncEnd, ConfigGetEnd, ConfigPostEnd
<1>2. Busy
  BY DEF Busy, ResetEnd, ConfigSyncEnd, ConfigGetEnd, ConfigPostEnd
<1>3. /\ DOMAIN restd' = RestdFields /\ restd'.g = restd.g /\ restd'.lost = restd.lost
      /\ DOMAIN job' = JobFields /\ restd'.loop = "idle" /\ job'.kind = "idle"
  <2>1. CASE ResetEnd \/ ConfigSyncEnd
    <3>1. restd' = [restd EXCEPT !.loop = "idle"] /\ job' = job /\ restd.loop # "idle"
      BY <2>1 DEF ResetEnd, ConfigSyncEnd
    <3> QED BY <3>1 DEF LInv, Types, RestdFields, LockInv
  <2>2. CASE ConfigGetEnd \/ ConfigPostEnd
    BY <2>2, IdleJobType DEF ConfigGetEnd, ConfigPostEnd, LInv, Types
  <2> QED BY <2>1, <2>2
<1>4. ~Busy'
  BY <1>3 DEF Busy
<1> QED BY <1>1, <1>2, <1>3, <1>4, WorkEnds, LockStep

-----------------------------------------------------------------------------
(* The theorems about the lock and the start *)

LEMMA StartedLaidOut ==
  ASSUME NEW v \in Versions
  PROVE  LaidOut(Started(v), v, Last(v)) /\ Started(v).ver = v
<1> DEFINE rs == sort_shm_map_reg_outside(v)
           start == MemStart(v)
           p == NConf(v)
           m == [i \in DOMAIN rs |-> [name |-> rs[i].name, off |-> start + LenOf(rs, i - 1),
                                      len |-> rs[i].len]]
           c == [x \in start .. (MAIN_SHM_LEN(v) - 1) |-> InitValue]
           e == start + LenOf(rs, p) - 1
           t == Started(v)
<1>1. t = [EmptySeg EXCEPT !.status = "finish", !.ver = v, !.size = MAIN_SHM_LEN(v),
                           !.maps = m, !.cstart = start, !.cend = e, !.mem = c]
  BY DEF Started, NConf
<1>2. DOMAIN rs = 1 .. Last(v) /\ rs = Order(v) /\ p \in Nat /\ p < Last(v) /\ Last(v) \in Nat
  BY OrderTypes, ConfBounds DEF Order
<1>3. DOMAIN m = 1 .. Last(v) /\ \A i \in 1 .. Last(v) :
        /\ DOMAIN m[i] = {"name", "off", "len"}
        /\ m[i].name = Order(v)[i].name /\ m[i].len = Order(v)[i].len /\ m[i].off = Off(v, i)
  <2> HIDE DEF rs
  <2> QED BY <1>2 DEF Off
<1>4. DOMAIN c = start .. (MAIN_SHM_LEN(v) - 1)
  OBVIOUS
<1>5. e = Off(v, p + 1) - 1
  <2>1. (p + 1) - 1 = p /\ p \in 0 .. Last(v)
    BY <1>2
  <2>4. start \in Nat /\ LenOf(rs, p) \in Nat
    BY <1>2, <2>1, OffFacts, OrderTypes, LenOfNat
  <2> HIDE DEF rs, p, start
  <2>2. Off(v, p + 1) = start + LenOf(rs, p)
    BY <1>2, <2>1 DEF Off, start
  <2>3. Off(v, p + 1) - 1 = start + LenOf(rs, p) - 1
    BY <2>2, <2>4
  <2> QED BY <2>3 DEF e
<1> HIDE DEF m, c, e, t
<1>6. /\ t.ver = v /\ t.size = MAIN_SHM_LEN(v) /\ t.maps = m /\ t.cstart = start
      /\ t.cend = e /\ t.mem = c
  BY <1>1 DEF EmptySeg
<1>7. ~(Last(v) <= p)
  BY <1>2
<1> HIDE DEF rs, p
<1>8. LaidOut(t, v, Last(v))
  BY <1>3, <1>4, <1>5, <1>6, <1>7 DEF LaidOut, p
<1> QED BY <1>6, <1>8 DEF t

LEMMA InitLock ==
  ASSUME Init
  PROVE  LInv
<1>1. /\ sc.boot \in BOOLEAN /\ 1 \in Gens /\ 0 \in 0..MaxGen /\ 1 \in 0..MaxGen /\ 0 \notin Gens
      /\ 1 \in Versions
  BY SizesAssumption, RegsAssumption DEF Init, ShmInit, Gens, Versions
<1>2. DOMAIN segs = Gens /\ \A g \in Gens : segs[g] = IF g = 1 /\ ~sc.boot THEN Started(1) ELSE EmptySeg
  BY DEF Init, ShmInit
<1>3. /\ DOMAIN Started(1) = SegFields /\ Started(1).lock = 0 /\ Started(1).hot = FALSE
      /\ Started(1).status = "finish" /\ Started(1).size = MAIN_SHM_LEN(1)
      /\ Started(1).lock \in 0..1 /\ Started(1).hot \in BOOLEAN
  BY DEF Started, EmptySeg, SegFields
<1>4. /\ DOMAIN vpp = VppFields /\ vpp.pc = (IF sc.boot THEN "down" ELSE "run") /\ vpp.ver = 1
      /\ vpp.g = key /\ vpp.hurt = FALSE /\ key = IF sc.boot THEN 0 ELSE 1
  BY DEF Init, ShmInit, VppFields
<1>5. DOMAIN restd = RestdFields /\ restd.g = 0 /\ restd.loop = "idle" /\ restd.lost = {}
  BY DEF Init, IdleRestd, RestdFields
<1>6. job = IdleJob /\ syncer = 0
  BY DEF Init
<1>7. DOMAIN loader = {"vpp", "tool"} /\ \A a \in {"vpp", "tool"} : loader[a] = IdleLoader
  BY DEF Init, ShmInit
<1>8. Types
  <2>1. \A g \in Gens : DOMAIN segs[g] = SegFields /\ segs[g].lock \in 0..1 /\ segs[g].hot \in BOOLEAN
    BY <1>2, <1>3, EmptySegType, Zenon
  <2>2. \A a \in {"vpp", "tool"} :
          DOMAIN loader[a] = LoaderFields /\ loader[a].pc \in {"idle", "open", "copy"}
    BY <1>7, IdleLoaderType
  <2>3. vpp.pc \in VppPcs /\ vpp.hurt \in BOOLEAN /\ key \in 0..MaxGen
    BY <1>1, <1>4 DEF VppPcs
  <2> QED BY <1>1, <1>2, <1>4, <1>5, <1>6, <1>7, <2>1, <2>2, <2>3, IdleJobType DEF Types
<1>9. LockInv
  BY <1>2, <1>3, <1>5, <1>6, EmptySegType, IdleJobType DEF LockInv, Busy
<1>10. BuildInv
  BY <1>1, <1>4, <1>7, IdleLoaderType DEF BuildInv, Building
<1>11. HurtInv
  BY <1>1, <1>2, <1>3, <1>4 DEF HurtInv, Good
<1>12. LayInv
  <2>1. LaidOut(Started(1), 1, Last(1)) /\ Started(1).ver = 1
    BY <1>1, StartedLaidOut
  <2> QED BY <1>1, <1>2, <1>3, <1>4, <2>1, EmptySegType DEF LayInv
<1> QED BY <1>8, <1>9, <1>10, <1>11, <1>12 DEF LInv

LEMMA StepTools ==
  ASSUME LInv, Tools
  PROVE  LInv'
<1>1. CASE Alone(delete_shm)
  BY <1>1, StepDelete
<1>2. CASE /\ ToolStep
           /\ job' = [job EXCEPT !.alone = @ /\ loader["tool"].pc = "idle"]
           /\ UNCHANGED <<restd, archive, syncer>>
  <2>1. JobSame /\ RestdSame /\ syncer' = syncer
    BY <1>2, RestdUnchanged DEF JobSame, LInv, Types, JobFields
  <2>2. CASE save_shm \/ SaveRemove("tool") \/ SaveOpen("tool") \/ SaveBlock("tool") \/ save_shm_end
    BY <2>1, <2>2, StepSave
  <2>3. CASE load_shm
    BY <2>1, <2>3, StepLoadShm
  <2>4. CASE LoadOpen("tool")
    BY <2>1, <2>4, StepLoadOpen
  <2>5. CASE LoadBlock("tool")
    BY <2>1, <2>5, StepLoadBlock
  <2>6. CASE LoadEnd("tool")
    BY <2>1, <2>6, StepLoadEnd
  <2> QED BY <1>2, <2>2, <2>3, <2>4, <2>5, <2>6 DEF ToolStep
<1> QED BY <1>1, <1>2 DEF Tools

LEMMA StepVpp ==
  ASSUME LInv, Alone(VppStep({restd.g, syncer}))
  PROVE  LInv'
<1>1. JobSame /\ RestdSame /\ syncer' = syncer
  BY RestdUnchanged, JobUnchanged DEF Alone, LInv
<1>2. CASE LoadOpen("vpp")
  BY <1>1, <1>2, StepLoadOpen
<1>3. CASE LoadBlock("vpp")
  BY <1>1, <1>3, StepLoadBlock
<1>4. CASE LoadEnd("vpp")
  BY <1>1, <1>4, StepLoadEnd
<1>5. CASE VppLink({restd.g, syncer})
  BY <1>5, StepVppLink DEF Alone
<1>6. CASE init_shm_main
  BY <1>6, StepInitMain DEF Alone
<1>7. CASE StartMaps
  BY <1>7, StepStartMaps DEF Alone
<1>8. CASE StartRegion
  BY <1>8, StepStartRegion DEF Alone
<1>9. CASE StartFinish
  BY <1>9, StepStartFinish DEF Alone
<1>10. CASE VppCheck
  BY <1>10, StepVppCheck DEF Alone
<1> QED BY <1>2, <1>3, <1>4, <1>5, <1>6, <1>7, <1>8, <1>9, <1>10 DEF Alone, VppStep

LEMMA StepRestd ==
  ASSUME LInv, RestdStep
  PROVE  LInv'
<1>1. CASE Alone(SaveRemove("restd")) \/ Alone(SaveOpen("restd")) \/ Alone(SaveBlock("restd"))
  <2>1. JobSame /\ RestdSame /\ syncer' = syncer
    BY <1>1, RestdUnchanged, JobUnchanged DEF Alone, LInv
  <2> QED BY <1>1, <2>1, StepSave DEF Alone
<1>2. CASE ConfigSyncEnd \/ ResetEnd \/ ConfigGetEnd \/ ConfigPostEnd
  BY <1>2, StepRelease
<1>3. CASE ResetRegion
  BY <1>3, StepResetRegion
<1>4. CASE sys_conf_save_all \/ LoadModule
  BY <1>4, StepJobOnly
<1>5. CASE \E junk \in 0..1 : LoadItem(junk)
  BY <1>5, StepLoadItem
<1>6. CASE AclSyncThread
  BY <1>6, StepAclSync
<1> QED BY <1>1, <1>2, <1>3, <1>4, <1>5, <1>6 DEF RestdStep

LEMMA StepLock ==
  ASSUME LInv, [Next]_vars
  PROVE  LInv'
<1>1. CASE UNCHANGED vars
  BY <1>1, FrameKeeps, SameSegs, RestdUnchanged, JobUnchanged, LoaderUnchanged
     DEF vars, shmVars, LInv, Types
<1>2. CASE \E v \in Versions : Alone(VppStart(v))
  BY <1>2, StepVppStart
<1>3. CASE Alone(VppStep({restd.g, syncer}))
  BY <1>3, StepVpp
<1>4. CASE Alone(VppCount)
  BY <1>4, StepVppCount
<1>5. CASE AclSyncVpp
  BY <1>5, StepAclSync
<1>6. CASE Tools
  BY <1>6, StepTools
<1>7. CASE try_link_shm
  BY <1>7, StepLink
<1>8. CASE Requests
  BY <1>8, StepPuts, StepAclSync, StepTake DEF Requests
<1>9. CASE RestdStep
  BY <1>9, StepRestd
<1>10. CASE Alone(VppCrash)
  BY <1>10, StepVppCrash
<1>11. CASE RestdCrash \/ RestdStart \/ MachineReboot
  BY <1>11, StepRestdCrash, StepRestdStart, StepReboot
<1> QED BY <1>1, <1>2, <1>3, <1>4, <1>5, <1>6, <1>7, <1>8, <1>9, <1>10, <1>11 DEF Next

\* The inductive invariant of the lock, the start and the links, through every
\* crash, change of version and use of the tools.
THEOREM LockInvariance == Spec => []LInv
<1>1. Init => LInv
  BY InitLock
<1>2. LInv /\ [Next]_vars => LInv'
  BY StepLock
<1> QED BY <1>1, <1>2, PTL DEF Spec

\* sync_lock is set only while restd works under it, on one thing, and only a restd
\* that died leaves it behind (base_handler.py, sys_conf_handler.py).
THEOREM LockAlwaysExplained == Spec => []LockExplained
<1>1. LInv => LockExplained
  BY DEF LInv, LockInv, LockExplained, Busy, Types
<1> QED BY <1>1, LockInvariance, PTL

\* The data plane refuses an old segment only if a start was cut before the map was
\* ready or the version changed (sf_shm_init).
THEOREM FatalAlwaysExplained == Spec => []FatalExplained
<1>1. LInv => FatalExplained
  BY DEF LInv, HurtInv, FatalExplained
<1> QED BY <1>1, LockInvariance, PTL

\* start_shm_map_malloc lays the regions of any build out one behind the other inside
\* the segment, the configuration by name and in front of the statistics, and
\* config_mem_start and config_mem_end enclose the configuration and nothing else.
THEOREM LayoutAlwaysSound == Spec => []LayoutSound
<1>1. LInv => LayoutSound
  <2> SUFFICES ASSUME LInv, NEW g \in Gens, segs[g].status = "finish"
               PROVE  SegSound(segs[g])
    BY DEF LayoutSound, SegSound
  <2> QED BY LaidOutSound DEF LInv, LayInv
<1> QED BY <1>1, LockInvariance, PTL

-----------------------------------------------------------------------------
(* The flag of the ACL sync *)

\* A sequence of items, each of a field of the configuration
OkItems(x) == \E S : x \in Seq(S) /\ \A it \in S : it.f \in Fields \cup {"clear"}

ArchOk(a) ==
  /\ DOMAIN a = {"mods", "bad", "items", "ports"} /\ a.mods \subseteq Modules
  /\ DOMAIN a.items = Modules /\ \A m \in Modules : OkItems(a.items[m])

\* What a download writes and an upload reads names no field but those of the
\* configuration.
ItemInv ==
  /\ ArchOk(archive) /\ OkItems(job.items)
  /\ job.kind # "idle" => ArchOk(job.arch) /\ job.left \subseteq Modules

\* The flag in a segment that is being laid out is still zero.
FlagInv ==
  /\ FlagOwned
  /\ vpp.pc = "regions" =>
       segs[vpp.g].hot \/ \A c \in DOMAIN segs[vpp.g].mem : segs[vpp.g].mem[c] = 0

\* one segment, as far as its flag goes
FlagKept(g) ==
  segs'[g].status = "finish" =>
    \/ segs'[g].hot \/ segs'[g].mem[FlagAt(segs'[g])] # 1
    \/ syncer' = g \/ g \in restd'.lost
    \/ /\ segs[g].status = "finish" /\ segs'[g].hot = segs[g].hot
       /\ segs'[g].mem[FlagAt(segs'[g])] = segs[g].mem[FlagAt(segs[g])]
       /\ syncer # g

RegionsKept ==
  vpp'.pc = "regions" =>
    /\ vpp.pc = "regions" /\ vpp'.g = vpp.g
    /\ \/ segs'[vpp.g].hot
       \/ segs'[vpp.g].mem = segs[vpp.g].mem /\ segs'[vpp.g].hot = segs[vpp.g].hot

LEMMA FlagFrame ==
  ASSUME FlagInv, restd.lost \subseteq restd'.lost, RegionsKept, \A g \in Gens : FlagKept(g)
  PROVE  FlagInv'
<1>1. FlagOwned'
  <2> SUFFICES ASSUME NEW g \in Gens, segs'[g].status = "finish",
                      segs'[g].mem[FlagAt(segs'[g])] = 1
               PROVE  syncer' = g \/ g \in restd'.lost \/ segs'[g].hot
    BY DEF FlagOwned, FlagAt, At, OffsetOf
  <2>1. FlagKept(g)
    OBVIOUS
  <2>2. CASE /\ segs[g].status = "finish" /\ segs'[g].hot = segs[g].hot
             /\ segs'[g].mem[FlagAt(segs'[g])] = segs[g].mem[FlagAt(segs[g])]
             /\ syncer # g
    BY <2>2 DEF FlagInv, FlagOwned
  <2> QED BY <2>1, <2>2 DEF FlagKept
<1>2. vpp'.pc = "regions" =>
        segs'[vpp'.g].hot \/ \A c \in DOMAIN segs'[vpp'.g].mem : segs'[vpp'.g].mem[c] = 0
  BY DEF FlagInv, RegionsKept
<1> QED BY <1>1, <1>2 DEF FlagInv

\* a step that leaves the segments alone
LEMMA QuietFlag ==
  ASSUME FlagInv, segs' = segs, vpp' = vpp \/ vpp'.pc # "regions",
         restd.lost \subseteq restd'.lost,
         syncer \in Gens => syncer' = syncer \/ syncer \in restd'.lost
  PROVE  FlagInv'
<1>1. RegionsKept
  BY DEF RegionsKept
<1>2. ASSUME NEW g \in Gens PROVE FlagKept(g)
  <2>1. syncer = g => syncer' = g \/ g \in restd'.lost
    OBVIOUS
  <2> QED BY <2>1 DEF FlagKept
<1> QED BY <1>1, <1>2, FlagFrame

\* the segment that a request works on is not the one that is being laid out
LEMMA RegionsApart ==
  ASSUME LInv, vpp' = vpp, NEW h, h = restd.g \/ vpp.pc # "regions",
         \A g \in Gens : g # h => segs'[g] = segs[g]
  PROVE  RegionsKept
BY DEF RegionsKept, LInv, BuildInv, Building

\* a segment of which neither map nor flag changes
FlagEq(s, t) ==
  /\ DOMAIN t = SegFields /\ DOMAIN t.mem = DOMAIN s.mem
  /\ \A f \in SegFields \ {"mem", "lock"} : t[f] = s[f]
  /\ t.mem[FlagAt(s)] = s.mem[FlagAt(s)]

LEMMA FlagEqAt ==
  ASSUME NEW s, NEW t, FlagEq(s, t)
  PROVE  FlagAt(t) = FlagAt(s)
<1>1. t.maps = s.maps
  BY DEF FlagEq, SegFields
<1> QED BY <1>1 DEF FlagAt, At, OffsetOf

LEMMA FlagEqSelf ==
  ASSUME NEW s, DOMAIN s = SegFields
  PROVE  FlagEq(s, s)
BY DEF FlagEq

LEMMA FlagEqTrans ==
  ASSUME NEW s, NEW t, NEW u, FlagEq(s, t), FlagEq(t, u)
  PROVE  FlagEq(s, u)
BY FlagEqAt DEF FlagEq

LEMMA FlagEqCell ==
  ASSUME NEW s, DOMAIN s = SegFields, FlagAt(s) \in DOMAIN s.mem, NEW c, c # FlagAt(s), NEW x
  PROVE  FlagEq(s, [s EXCEPT !.mem[c] = x])
<1> DEFINE m == [s.mem EXCEPT ![c] = x]
           t == [s EXCEPT !.mem = m]
<1>1. m[FlagAt(s)] = s.mem[FlagAt(s)] /\ DOMAIN m = DOMAIN s.mem
  OBVIOUS
<1>2. [s EXCEPT !.mem[c] = x] = t
  OBVIOUS
<1> HIDE DEF m
<1>3. DOMAIN t = SegFields /\ t.mem = m /\ \A f \in SegFields \ {"mem"} : t[f] = s[f]
  BY DEF SegFields
<1> HIDE DEF t
<1> QED BY <1>1, <1>2, <1>3 DEF FlagEq

\* a segment whose flag is a cell of its own
FlagFree(s) ==
  /\ DOMAIN s = SegFields /\ FlagAt(s) \in DOMAIN s.mem
  /\ \A f \in Fields : FieldAt(s, f) # FlagAt(s)
  /\ At(s, IntfStatReg, 1) # FlagAt(s)

LEMMA FlagFreeKept ==
  ASSUME NEW s, NEW t, FlagFree(s), FlagEq(s, t)
  PROVE  FlagFree(t)
<1>1. t.maps = s.maps /\ FlagAt(t) = FlagAt(s)
  BY FlagEqAt DEF FlagEq, SegFields
<1>2. \A name, k : At(t, name, k) = At(s, name, k)
  BY <1>1 DEF At, OffsetOf
<1>3. \A f \in Fields : FieldAt(t, f) = FieldAt(s, f)
  BY <1>2 DEF FieldAt, Fields
<1> QED BY <1>1, <1>2, <1>3 DEF FlagFree, FlagEq

LEMMA FinishFree ==
  ASSUME LInv, NEW g \in Gens, segs[g].status = "finish"
  PROVE  FlagFree(segs[g])
BY FlagApart DEF LInv, LayInv, Types, FlagFree

\* A request that sets fields leaves the flag.
LEMMA SetFieldFlag ==
  ASSUME NEW s, FlagFree(s), NEW it, it.f \in Fields \cup {"clear"}, NEW junk
  PROVE  FlagEq(s, SetField(s, it, junk))
<1>0. "bind1" \in Fields /\ "bind2" \in Fields /\ "mac" \in Fields
  BY DEF Fields
<1>1. CASE it.f = "clear"
  <2> DEFINE t == [s EXCEPT !.mem[FieldAt(s, "bind1")] = 0]
             u == [t EXCEPT !.mem[FieldAt(s, "bind2")] = 0]
  <2>1. SetField(s, it, junk) = u
    BY <1>1 DEF SetField
  <2>2. FlagEq(s, t)
    BY <1>0, FlagEqCell DEF FlagFree
  <2>3. FlagFree(t) /\ FlagAt(t) = FlagAt(s)
    BY <2>2, FlagFreeKept, FlagEqAt
  <2> HIDE DEF t
  <2>4. FlagEq(t, u)
    BY <1>0, <2>3, FlagEqCell DEF FlagFree
  <2> QED BY <2>1, <2>2, <2>4, FlagEqTrans
<1>2. CASE it.f # "clear"
  <2>1. CASE Parses(it.f, it.t)
    <3>1. SetField(s, it, junk) = [s EXCEPT !.mem[FieldAt(s, it.f)] = Parse(it.f, it.t)]
      BY <1>2, <2>1 DEF SetField
    <3>2. FieldAt(s, it.f) # FlagAt(s)
      BY <1>2 DEF FlagFree
    <3>3. DOMAIN s = SegFields /\ FlagAt(s) \in DOMAIN s.mem
      BY DEF FlagFree
    <3>4. FlagEq(s, [s EXCEPT !.mem[FieldAt(s, it.f)] = Parse(it.f, it.t)])
      BY <3>2, <3>3, FlagEqCell
    <3> QED BY <3>1, <3>4
  <2>2. CASE ~Parses(it.f, it.t) /\ it.f = "mac"
    <3>1. SetField(s, it, junk) = [s EXCEPT !.mem[FieldAt(s, "mac")] = junk]
      BY <1>2, <2>2 DEF SetField
    <3>2. FieldAt(s, "mac") # FlagAt(s)
      BY <1>0 DEF FlagFree
    <3>3. DOMAIN s = SegFields /\ FlagAt(s) \in DOMAIN s.mem
      BY DEF FlagFree
    <3>4. FlagEq(s, [s EXCEPT !.mem[FieldAt(s, "mac")] = junk])
      BY <3>2, <3>3, FlagEqCell
    <3> QED BY <3>1, <3>4
  <2>3. CASE ~Parses(it.f, it.t) /\ it.f # "mac"
    <3>1. SetField(s, it, junk) = s
      BY <1>2, <2>3 DEF SetField
    <3> QED BY <3>1, FlagEqSelf DEF FlagFree
  <2> QED BY <2>1, <2>2, <2>3
<1> QED BY <1>1, <1>2

LEMMA PutFlag ==
  ASSUME NEW s, FlagFree(s), NEW items, NEW junk, Len(items) \in Nat,
         \A i \in 1 .. Len(items) : items[i].f \in Fields \cup {"clear"}
  PROVE  FlagEq(s, update_interface_config(s, items, junk))
<1> DEFINE n == Len(items)
           a == AfterItems(s, items, junk)
           S == {k \in 0 .. n : FlagEq(s, a[k])}
<1>1. \A k \in 0 .. n : a[k] = IF k = 0 THEN s
                               ELSE IF k \in ItemsUpTo(items) THEN SetField(a[k - 1], items[k], junk)
                               ELSE a[k - 1]
  <2>1. a = [k \in 0 .. n |->
               IF k = 0 THEN s
               ELSE IF k \in ItemsUpTo(items) THEN SetField(a[k - 1], items[k], junk)
               ELSE a[k - 1]]
    BY ItemsExist
  <2> HIDE DEF a, n
  <2> QED BY <2>1, Zenon
<1> HIDE DEF a
<1>2. 0 \in S
  BY <1>1, FlagEqSelf DEF FlagFree
<1>3. \A k \in 0 .. n : k < n /\ k \in S => k + 1 \in S
  <2> SUFFICES ASSUME NEW k \in 0 .. n, k < n, FlagEq(s, a[k])
               PROVE  FlagEq(s, a[k + 1]) /\ k + 1 \in 0 .. n
    OBVIOUS
  <2>1. k + 1 \in 0 .. n /\ k + 1 # 0 /\ (k + 1) - 1 = k /\ k + 1 \in 1 .. n
    OBVIOUS
  <2>2. a[k + 1] = SetField(a[k], items[k + 1], junk) \/ a[k + 1] = a[k]
    BY <1>1, <2>1, Zenon
  <2>3. FlagEq(a[k], SetField(a[k], items[k + 1], junk))
    BY <2>1, FlagFreeKept, SetFieldFlag
  <2> QED BY <2>1, <2>2, <2>3, FlagEqTrans
<1> HIDE DEF S
<1>4. \A k \in 0 .. n : k \in S
  BY <1>2, <1>3, UpTo
<1> QED BY <1>4 DEF S, a, update_interface_config

\* one segment changes, and its flag stays if it is ready
LEMMA OneFlagEq ==
  ASSUME LInv, FlagInv, NEW h, h = restd.g \/ vpp.pc # "regions", NEW t,
         segs' = [segs EXCEPT ![h] = t],
         h \in Gens => t.status = segs[h].status
                       /\ (segs[h].status = "finish" => FlagEq(segs[h], t)),
         vpp' = vpp, restd'.lost = restd.lost, syncer' = syncer
  PROVE  FlagInv'
<1>1. \A g \in Gens : segs'[g] = IF g = h THEN t ELSE segs[g]
  BY DEF LInv, Types
<1>2. RegionsKept
  BY <1>1, RegionsApart
<1>3. ASSUME NEW g \in Gens PROVE FlagKept(g)
  <2>1. CASE g # h
    BY <1>1, <2>1 DEF FlagKept, FlagInv, FlagOwned
  <2>2. CASE g = h
    <3> SUFFICES ASSUME segs[g].status = "finish" PROVE FlagKept(g)
      BY <1>1, <2>2 DEF FlagKept
    <3>1. FlagEq(segs[g], t) /\ FlagAt(t) = FlagAt(segs[g])
      BY <2>2, FlagEqAt
    <3>2. t.hot = segs[g].hot /\ t.mem[FlagAt(t)] = segs[g].mem[FlagAt(segs[g])]
      BY <3>1 DEF FlagEq, SegFields
    <3> QED BY <1>1, <2>2, <3>2 DEF FlagKept, FlagInv, FlagOwned
  <2> QED BY <2>1, <2>2
<1> QED BY <1>2, <1>3, FlagFrame

\* one cell changes that is not the flag
LEMMA OneFlagCell ==
  ASSUME LInv, FlagInv, NEW h, h = restd.g \/ vpp.pc # "regions", NEW c, NEW x,
         segs' = [segs EXCEPT ![h].mem[c] = x],
         h \in Gens /\ FlagFree(segs[h]) => c # FlagAt(segs[h]),
         vpp' = vpp, restd'.lost = restd.lost, syncer' = syncer
  PROVE  FlagInv'
<1> DEFINE t == [segs[h] EXCEPT !.mem[c] = x]
<1>1. segs' = [segs EXCEPT ![h] = t]
  OBVIOUS
<1>2. h \in Gens => t.status = segs[h].status
  BY DEF LInv, Types, SegFields
<1>3. h \in Gens /\ segs[h].status = "finish" => FlagEq(segs[h], t)
  BY FinishFree, FlagEqCell DEF FlagFree
<1> HIDE DEF t
<1> QED BY <1>1, <1>2, <1>3, OneFlagEq

LEMMA FlagVppCount ==
  ASSUME LInv, FlagInv, Alone(VppCount)
  PROVE  FlagInv'
<1>1. /\ vpp.pc = "run" /\ vpp' = vpp /\ restd' = restd /\ syncer' = syncer
      /\ segs' = [segs EXCEPT ![vpp.g].mem[At(segs[vpp.g], IntfStatReg, 1)] = 1]
  BY DEF Alone, VppCount
<1>2. FlagFree(segs[vpp.g]) => At(segs[vpp.g], IntfStatReg, 1) # FlagAt(segs[vpp.g])
  BY DEF FlagFree
<1> QED BY <1>1, <1>2, OneFlagCell

LEMMA FlagPuts ==
  ASSUME LInv, FlagInv,
         \/ \E items \in Puts, junk \in 0..1 : InterfacesConfigPut(items, junk)
         \/ \E v \in 0..1 : ActionPut(v) \/ AclPut(v)
  PROVE  FlagInv'
<1>1. vpp' = vpp /\ restd' = restd /\ syncer' = syncer
  BY DEF InterfacesConfigPut, ActionPut, AclPut
<1>2. ASSUME NEW items \in Puts, NEW junk \in 0..1, InterfacesConfigPut(items, junk)
      PROVE  FlagInv'
  <2> DEFINE h == restd.g
             t == update_interface_config(segs[h], items, junk)
  <2>1. segs' = [segs EXCEPT ![h] = t]
    BY <1>2 DEF InterfacesConfigPut
  <2>2. /\ Len(items) \in Nat
        /\ \A i \in 1 .. Len(items) : items[i].f \in Fields \cup {"clear"}
    <3> DEFINE R == [f : {"type", "mac", "bind1", "bind2"}, t : STRING]
    <3>1. items \in Seq(R)
      BY PutsAssumption
    <3>2. \A r \in R : r.f \in Fields
      BY DEF Fields
    <3> HIDE DEF R
    <3>3. Len(items) \in Nat /\ \A i \in 1 .. Len(items) : items[i] \in R
      BY <3>1
    <3> QED BY <3>2, <3>3
  <2>3. h \in Gens => t.status = segs[h].status
    <3>1. h \in Gens => MemOnly(segs[h], t)
      BY <2>2, PutMemOnly DEF LInv, Types
    <3> HIDE DEF t
    <3> QED BY <3>1 DEF MemOnly, SegFields
  <2>4. h \in Gens /\ segs[h].status = "finish" => FlagEq(segs[h], t)
    BY <2>2, FinishFree, PutFlag
  <2> HIDE DEF t
  <2> QED BY <1>1, <2>1, <2>3, <2>4, OneFlagEq
<1>3. ASSUME NEW v \in 0..1, ActionPut(v) \/ AclPut(v)
      PROVE  FlagInv'
  <2>1. PICK f \in Fields : segs' = [segs EXCEPT ![restd.g].mem[FieldAt(segs[restd.g], f)] = v]
    BY <1>3 DEF ActionPut, AclPut, Fields, Seg
  <2>2. FlagFree(segs[restd.g]) => FieldAt(segs[restd.g], f) # FlagAt(segs[restd.g])
    BY DEF FlagFree
  <2> QED BY <1>1, <2>1, <2>2, OneFlagCell
<1> QED BY <1>2, <1>3

\* the flag of segment h becomes x
FlagWritten(h, x) == segs' = [segs EXCEPT ![h].mem[FlagAt(segs[h])] = x]

LEMMA FlagCell ==
  ASSUME LInv, NEW h, NEW x, FlagWritten(h, x), vpp' = vpp, h = restd.g \/ vpp.pc # "regions"
  PROVE  /\ \A g \in Gens : g # h => segs'[g] = segs[g]
         /\ h \in Gens => /\ segs'[h].status = segs[h].status
                          /\ segs'[h].hot = segs[h].hot
                          /\ segs[h].status = "finish" => segs'[h].mem[FlagAt(segs'[h])] = x
         /\ RegionsKept
<1> DEFINE m == [segs[h].mem EXCEPT ![FlagAt(segs[h])] = x]
           t == [segs[h] EXCEPT !.mem = m]
<1>1. segs' = [segs EXCEPT ![h] = t]
  BY DEF FlagWritten
<1>2. h \in Gens => t.status = segs[h].status /\ t.hot = segs[h].hot /\ t.maps = segs[h].maps
                    /\ t.mem = m
  <2> HIDE DEF m
  <2> QED BY DEF LInv, Types, SegFields
<1>3. h \in Gens /\ segs[h].status = "finish" => m[FlagAt(segs[h])] = x
  BY FinishFree DEF FlagFree
<1> HIDE DEF m, t
<1>4. h \in Gens => FlagAt(t) = FlagAt(segs[h])
  BY <1>2 DEF FlagAt, At, OffsetOf
<1>5. \A g \in Gens : segs'[g] = IF g = h THEN t ELSE segs[g]
  BY <1>1 DEF LInv, Types
<1>6. RegionsKept
  BY <1>5, RegionsApart
<1> QED BY <1>2, <1>3, <1>4, <1>5, <1>6

\* restd's thread owns the flag from the request to the end of its work
LEMMA FlagAclSync ==
  ASSUME LInv, FlagInv, AclSyncPatch \/ AclSyncThread \/ AclSyncVpp
  PROVE  FlagInv'
<1>0. /\ vpp' = vpp /\ restd' = restd /\ syncer \in {0, restd.g} /\ 0 \notin Gens
  BY DEF AclSyncPatch, AclSyncThread, AclSyncVpp, LInv, Types, Gens
<1>2. CASE AclSyncPatch
  <2>1. FlagWritten(restd.g, 1) /\ syncer' = restd.g
    BY <1>2 DEF AclSyncPatch, Seg, FlagWritten
  <2>2. RegionsKept /\ \A g \in Gens : g # restd.g => segs'[g] = segs[g]
    BY <1>0, <2>1, FlagCell
  <2>3. \A g \in Gens : FlagKept(g)
    BY <1>0, <2>1, <2>2 DEF FlagKept
  <2> QED BY <1>0, <2>2, <2>3, FlagFrame
<1>3. CASE AclSyncThread
  <2>1. syncer # 0 /\ syncer' = 0
    BY <1>3 DEF AclSyncThread
  <2>2. PICK x \in {0, 2} : FlagWritten(syncer, x)
    BY <1>3 DEF AclSyncThread, FlagWritten
  <2>3. syncer = restd.g
    BY <1>0, <2>1
  <2>4. /\ \A g \in Gens : g # syncer => segs'[g] = segs[g]
        /\ syncer \in Gens => /\ segs'[syncer].status = segs[syncer].status
                              /\ segs[syncer].status = "finish" =>
                                   segs'[syncer].mem[FlagAt(segs'[syncer])] = x
        /\ RegionsKept
    BY <1>0, <2>2, <2>3, FlagCell
  <2>5. ASSUME NEW g \in Gens PROVE FlagKept(g)
    <3>1. CASE g = syncer
      BY <2>2, <2>4, <3>1 DEF FlagKept
    <3>2. CASE g # syncer
      BY <2>4, <3>2 DEF FlagKept
    <3> QED BY <3>1, <3>2
  <2> QED BY <1>0, <2>4, <2>5, FlagFrame
<1>4. CASE AclSyncVpp
  <2>1. /\ vpp.pc = "run" /\ syncer' = syncer
        /\ FlagWritten(vpp.g, 0)
    BY <1>4 DEF AclSyncVpp, FlagWritten
  <2>2. /\ \A g \in Gens : g # vpp.g => segs'[g] = segs[g]
        /\ vpp.g \in Gens => /\ segs'[vpp.g].status = segs[vpp.g].status
                             /\ segs[vpp.g].status = "finish" =>
                                  segs'[vpp.g].mem[FlagAt(segs'[vpp.g])] = 0
        /\ RegionsKept
    BY <1>0, <2>1, FlagCell
  <2>3. ASSUME NEW g \in Gens PROVE FlagKept(g)
    <3>1. CASE g = vpp.g
      BY <2>2, <3>1 DEF FlagKept
    <3>2. CASE g # vpp.g
      BY <2>1, <2>2, <3>2 DEF FlagKept
    <3> QED BY <3>1, <3>2
  <2> QED BY <1>0, <2>2, <2>3, FlagFrame
<1> QED BY <1>2, <1>3, <1>4

\* sf_load_shm and the start bring the flag back only together with its mark
LEMMA FlagLoadBlock ==
  ASSUME LInv, FlagInv, NEW a \in {"vpp", "tool"}, LoadBlock(a), restd' = restd, syncer' = syncer
  PROVE  FlagInv'
<1> DEFINE l == loader[a]
           h == l.g
           s == segs[h]
           F == FlagAt(s)
           got == { c \in DOMAIN s.mem : l.off <= c /\ c < l.off + Block /\ c < l.data.len }
           m == [c \in DOMAIN s.mem |-> IF c \in got THEN l.data.mem[c] ELSE s.mem[c]]
           hot == s.hot \/ s.status # "finish" \/ (F \in got /\ l.data.mem[F] = 1)
           t == [s EXCEPT !.mem = m, !.hot = hot]
<1>1. segs' = [segs EXCEPT ![h] = t] /\ vpp' = vpp
  BY DEF LoadBlock
<1>2. F \in DOMAIN s.mem => m[F] = IF F \in got THEN l.data.mem[F] ELSE s.mem[F]
  <2> HIDE DEF got, F
  <2> QED OBVIOUS
<1>3. /\ hot \in BOOLEAN /\ (s.status # "finish" => hot)
      /\ F \in got /\ l.data.mem[F] = 1 => hot
      /\ s.hot \in BOOLEAN /\ s.status = "finish" /\ ~(F \in got /\ l.data.mem[F] = 1) => hot = s.hot
  <2> HIDE DEF got, F, s, l
  <2> QED BY Zenon
<1> HIDE DEF m, hot, got
<1>4. h \in Gens => t.status = s.status /\ t.hot = hot /\ t.mem = m /\ t.maps = s.maps /\ s.hot \in BOOLEAN
  BY DEF LInv, Types, SegFields
<1> HIDE DEF t, F
<1>5. h \in Gens => FlagAt(t) = F
  BY <1>4 DEF FlagAt, At, OffsetOf, F
<1>6. \A g \in Gens : segs'[g] = IF g = h THEN t ELSE segs[g]
  BY <1>1 DEF LInv, Types
<1>7. h \in Gens /\ s.status = "finish" => F \in DOMAIN s.mem
  BY FinishFree DEF FlagFree, F
<1>8. RegionsKept
  <2> SUFFICES ASSUME vpp.pc = "regions"
               PROVE  \/ segs'[vpp.g].hot
                      \/ segs'[vpp.g].mem = segs[vpp.g].mem /\ segs'[vpp.g].hot = segs[vpp.g].hot
    BY <1>1 DEF RegionsKept
  <2>1. vpp.g \in Gens /\ segs[vpp.g].status # "finish"
    BY UnderWay DEF Building
  <2>2. CASE vpp.g = h
    <3>1. hot /\ t.hot = hot /\ segs'[vpp.g] = t
      BY <1>3, <1>4, <1>6, <2>1, <2>2
    <3> QED BY <3>1
  <2>3. CASE vpp.g # h
    BY <1>6, <2>1, <2>3
  <2> QED BY <2>2, <2>3
<1>9. ASSUME NEW g \in Gens PROVE FlagKept(g)
  <2>1. CASE g # h
    BY <1>6, <2>1 DEF FlagKept
  <2>2. CASE g = h /\ s.status = "finish"
    <3>1. segs'[g] = t /\ t.hot = hot /\ t.mem[FlagAt(t)] = m[F]
      BY <1>4, <1>5, <1>6, <2>2
    <3>2. m[F] = IF F \in got THEN l.data.mem[F] ELSE s.mem[F]
      BY <1>2, <1>7, <2>2
    <3>3. CASE F \in got /\ l.data.mem[F] = 1
      <4>1. t.hot
        BY <1>3, <3>1, <3>3
      <4> QED BY <3>1, <4>1 DEF FlagKept
    <3>4. CASE F \in got /\ l.data.mem[F] # 1
      BY <3>1, <3>2, <3>4 DEF FlagKept
    <3>5. CASE F \notin got
      <4>1. t.hot = s.hot /\ m[F] = s.mem[F]
        BY <1>3, <1>4, <2>2, <3>1, <3>2, <3>5
      <4> QED BY <2>2, <3>1, <4>1 DEF FlagKept, F
    <3> QED BY <3>3, <3>4, <3>5
  <2>3. CASE g = h /\ s.status # "finish"
    BY <1>4, <1>6, <2>3 DEF FlagKept
  <2> QED BY <2>1, <2>2, <2>3
<1> QED BY <1>8, <1>9, FlagFrame

\* an upload sets fields, a reset spares the flag
LEMMA FlagLoadItem ==
  ASSUME LInv, FlagInv, ItemInv, NEW junk \in 0..1, LoadItem(junk)
  PROVE  FlagInv'
<1>1. vpp' = vpp /\ restd' = restd /\ syncer' = syncer
  BY DEF LoadItem
<1>2. CASE segs' = segs
  BY <1>1, <1>2, QuietFlag
<1>3. CASE job.items # <<>> /\ segs' = [segs EXCEPT ![restd.g] = SetField(segs[restd.g], Head(job.items), junk)]
  <2> DEFINE h == restd.g
             it == Head(job.items)
             t == SetField(segs[h], it, junk)
  <2>1. it.f \in Fields \cup {"clear"}
    <3>1. PICK S : job.items \in Seq(S) /\ \A x \in S : x.f \in Fields \cup {"clear"}
      BY DEF ItemInv, OkItems
    <3>2. it \in S
      BY <1>3, <3>1
    <3> QED BY <3>1, <3>2
  <2> HIDE DEF it
  <2>2. h \in Gens => t.status = segs[h].status
    <3>1. h \in Gens => MemOnly(segs[h], t)
      BY <2>1, SetFieldMemOnly DEF LInv, Types
    <3> HIDE DEF t
    <3> QED BY <3>1 DEF MemOnly, SegFields
  <2>3. h \in Gens /\ segs[h].status = "finish" => FlagEq(segs[h], t)
    BY <2>1, FinishFree, SetFieldFlag
  <2>4. segs' = [segs EXCEPT ![h] = t]
    BY <1>3 DEF it
  <2> HIDE DEF t
  <2> QED BY <1>1, <2>2, <2>3, <2>4, OneFlagEq
<1> QED BY <1>2, <1>3 DEF LoadItem

LEMMA FlagResetRegion ==
  ASSUME LInv, FlagInv, ResetRegion
  PROVE  FlagInv'
<1> DEFINE h == restd.g
           s == segs[h]
<1>1. vpp' = vpp /\ syncer' = syncer
  BY DEF ResetRegion
<1>2. PICK name \in restd.left, p \in BOOLEAN :
        segs' = [segs EXCEPT ![h].mem =
            [c \in DOMAIN s.mem |-> IF p /\ c \in RegionCells(Seg, name) \ Kept(Seg)
                                    THEN InitValue ELSE s.mem[c]]]
  BY DEF ResetRegion, Seg
<1>3. restd'.lost = restd.lost
  <2>1. PICK x : restd' = [restd EXCEPT !.left = x]
    BY DEF ResetRegion
  <2> QED BY <2>1 DEF LInv, Types, RestdFields
<1> DEFINE Z == RegionCells(Seg, name) \ Kept(Seg)
           m == [c \in DOMAIN s.mem |-> IF p /\ c \in Z THEN InitValue ELSE s.mem[c]]
           t == [s EXCEPT !.mem = m]
<1>4. FlagAt(s) \notin Z
  BY DEF Kept, Seg
<1> HIDE DEF Z
<1>5. DOMAIN m = DOMAIN s.mem /\ (FlagAt(s) \in DOMAIN s.mem => m[FlagAt(s)] = s.mem[FlagAt(s)])
  BY <1>4
<1>6. segs' = [segs EXCEPT ![h] = t]
  BY <1>2 DEF Z
<1> HIDE DEF m
<1>7. h \in Gens => DOMAIN t = SegFields /\ t.mem = m /\ \A f \in SegFields \ {"mem"} : t[f] = s[f]
  BY DEF LInv, Types, SegFields
<1> HIDE DEF t
<1>8. h \in Gens => t.status = s.status
  BY <1>7 DEF SegFields
<1>9. h \in Gens /\ s.status = "finish" => FlagEq(s, t)
  BY <1>5, <1>7, FinishFree DEF FlagEq, FlagFree
<1> QED BY <1>1, <1>3, <1>6, <1>8, <1>9, OneFlagEq

\* taking and releasing the lock
LEMMA FlagLock ==
  ASSUME LInv, FlagInv, restd.g \in Gens, NEW x, segs' = [segs EXCEPT ![restd.g].lock = x],
         vpp' = vpp, restd'.lost = restd.lost, syncer' = syncer
  PROVE  FlagInv'
<1> DEFINE h == restd.g
           t == [segs[h] EXCEPT !.lock = x]
<1>1. segs' = [segs EXCEPT ![h] = t]
  OBVIOUS
<1>2. DOMAIN t = SegFields /\ \A f \in SegFields \ {"lock"} : t[f] = segs[h][f]
  BY DEF LInv, Types, SegFields
<1> HIDE DEF t
<1>3. t.status = segs[h].status /\ t.mem = segs[h].mem
  BY <1>2 DEF SegFields
<1>4. FlagEq(segs[h], t)
  BY <1>2, <1>3 DEF FlagEq
<1> QED BY <1>1, <1>3, <1>4, OneFlagEq

LEMMA FlagTake ==
  ASSUME LInv, FlagInv,
         \/ ResetBegin \/ ConfigSyncPatch
         \/ \E mods \in {Modules, {"interfaces"}} : ConfigGet(mods)
         \/ \E a \in Archives : ConfigPost(a)
  PROVE  FlagInv'
<1>1. Idle /\ Seg.lock = 0
  BY DEF ResetBegin, ConfigSyncPatch, ConfigGet, ConfigPost, MayChange
<1>2. /\ segs' = [segs EXCEPT ![restd.g].lock = 1] /\ vpp' = vpp /\ syncer' = syncer
  BY DEF ResetBegin, ConfigSyncPatch, ConfigGet, ConfigPost
<1>3. restd'.lost = restd.lost
  <2>1. restd' = restd \/ (\E x, y : restd' = [restd EXCEPT !.loop = x, !.left = y])
          \/ (\E x : restd' = [restd EXCEPT !.loop = x])
    BY DEF ResetBegin, ConfigSyncPatch, ConfigGet, ConfigPost
  <2> QED BY <2>1 DEF LInv, Types, RestdFields
<1> QED BY <1>1, <1>2, <1>3, RequestIdle, FlagLock

LEMMA FlagRelease ==
  ASSUME LInv, FlagInv, ResetEnd \/ ConfigSyncEnd \/ ConfigGetEnd \/ ConfigPostEnd
  PROVE  FlagInv'
<1>1. /\ segs' = [segs EXCEPT ![restd.g].lock = 0] /\ vpp' = vpp /\ syncer' = syncer
  BY DEF ResetEnd, ConfigSyncEnd, ConfigGetEnd, ConfigPostEnd
<1>2. Busy
  BY DEF Busy, ResetEnd, ConfigSyncEnd, ConfigGetEnd, ConfigPostEnd
<1>3. restd'.lost = restd.lost
  <2>1. restd' = restd \/ restd' = [restd EXCEPT !.loop = "idle"]
    BY DEF ResetEnd, ConfigSyncEnd, ConfigGetEnd, ConfigPostEnd
  <2> QED BY <2>1 DEF LInv, Types, RestdFields
<1> QED BY <1>1, <1>2, <1>3, WorkEnds, FlagLock

-----------------------------------------------------------------------------
(* The flag while the segment is laid out *)

\* the segment being laid out is replaced
LEMMA FlagBuild ==
  ASSUME LInv, FlagInv, NEW h \in Gens, NEW t, segs' = [segs EXCEPT ![h] = t],
         restd' = restd, syncer' = syncer,
         t.status = "finish" => t.hot \/ t.mem[FlagAt(t)] # 1,
         vpp'.pc = "regions" => vpp'.g = h /\ (t.hot \/ \A c \in DOMAIN t.mem : t.mem[c] = 0)
  PROVE  FlagInv'
<1>1. segs'[h] = t /\ \A g \in Gens : g # h => segs'[g] = segs[g]
  BY DEF LInv, Types
<1>2. FlagOwned'
  <2> SUFFICES ASSUME NEW g \in Gens, segs'[g].status = "finish",
                      segs'[g].mem[FlagAt(segs'[g])] = 1
               PROVE  syncer' = g \/ g \in restd'.lost \/ segs'[g].hot
    BY DEF FlagOwned, FlagAt, At, OffsetOf
  <2>1. CASE g = h
    BY <1>1, <2>1
  <2>2. CASE g # h
    BY <1>1, <2>2 DEF FlagInv, FlagOwned
  <2> QED BY <2>1, <2>2
<1> QED BY <1>1, <1>2 DEF FlagInv

LEMMA FlagVppLink ==
  ASSUME LInv, FlagInv, Alone(VppLink({restd.g, syncer}))
  PROVE  FlagInv'
<1>1. restd' = restd /\ syncer' = syncer
  BY DEF Alone
<1>2. CASE vpp' = [vpp EXCEPT !.pc = "check", !.g = key] /\ segs' = segs
  <2>1. vpp'.pc = "check"
    BY <1>2 DEF LInv, Types, VppFields
  <2> QED BY <1>1, <1>2, <2>1, QuietFlag
<1>3. ASSUME NEW g \in Gens, segs' = [segs EXCEPT ![g] = [EmptySeg EXCEPT !.status = "zero"]],
             vpp' = [vpp EXCEPT !.pc = "init", !.g = g]
      PROVE  FlagInv'
  <2> DEFINE t == [EmptySeg EXCEPT !.status = "zero"]
  <2>1. t.status = "zero"
    BY EmptySegType DEF SegFields
  <2>2. vpp'.pc = "init"
    BY <1>3 DEF LInv, Types, VppFields
  <2>3. segs' = [segs EXCEPT ![g] = t]
    BY <1>3
  <2> HIDE DEF t
  <2> QED BY <1>1, <2>1, <2>2, <2>3, FlagBuild
<1> QED BY <1>2, <1>3 DEF Alone, VppLink

LEMMA FlagInitMain ==
  ASSUME LInv, FlagInv, Alone(init_shm_main)
  PROVE  FlagInv'
<1> DEFINE h == vpp.g
           t == [segs[h] EXCEPT !.status = "notready", !.size = MAIN_SHM_LEN(vpp.ver)]
<1>1. vpp.pc \in Building
  BY DEF Alone, init_shm_main, Building
<1>2. /\ segs' = [segs EXCEPT ![h] = t]
      /\ restd' = restd /\ syncer' = syncer /\ vpp' = [vpp EXCEPT !.pc = "maps"]
  BY DEF Alone, init_shm_main
<1>3. vpp'.pc = "maps"
  BY <1>2 DEF LInv, Types, VppFields
<1>4. t.status = "notready"
  BY <1>1, UnderWay DEF SegFields
<1> HIDE DEF t
<1> QED BY <1>1, <1>2, <1>3, <1>4, UnderWay, FlagBuild

LEMMA FlagStartMaps ==
  ASSUME LInv, FlagInv, Alone(StartMaps)
  PROVE  FlagInv'
<1> DEFINE h == vpp.g
           v == vpp.ver
           rs == sort_shm_map_reg_outside(v)
           m == [i \in DOMAIN rs |-> [name |-> rs[i].name, off |-> 0, len |-> rs[i].len]]
           c == [x \in MemStart(v) .. (MAIN_SHM_LEN(v) - 1) |-> 0]
           t == [segs[h] EXCEPT !.ver = v, !.lock = 0, !.maps = m, !.cstart = MemStart(v),
                                !.cend = MemStart(v), !.mem = c]
<1>1. vpp.pc \in Building
  BY DEF Alone, StartMaps, Building
<1>2. segs' = [segs EXCEPT ![h] = t]
  BY DEF Alone, StartMaps
<1>3. restd' = restd /\ syncer' = syncer /\ vpp' = [vpp EXCEPT !.pc = "regions", !.i = 1]
  BY DEF Alone, StartMaps
<1>4. vpp'.g = h
  BY <1>3 DEF LInv, Types, VppFields
<1>5. \A x \in DOMAIN c : c[x] = 0
  OBVIOUS
<1> HIDE DEF m, c
<1>6. t.status = segs[h].status /\ t.mem = c
  BY <1>1, UnderWay DEF SegFields
<1> HIDE DEF t
<1> QED BY <1>1, <1>2, <1>3, <1>4, <1>5, <1>6, UnderWay, FlagBuild

LEMMA FlagStartRegion ==
  ASSUME LInv, FlagInv, Alone(StartRegion)
  PROVE  FlagInv'
<1> DEFINE h == vpp.g
           v == vpp.ver
           s == segs[h]
           i == vpp.i
           pre == Off(v, i)
           e == IF Order(v)[i].mem = "stat" /\ s.cend = s.cstart THEN pre - 1 ELSE s.cend
           C == pre .. (pre + Order(v)[i].len - 1)
           m == [x \in DOMAIN s.mem |-> IF x \in C THEN InitValue ELSE s.mem[x]]
           r == [s.maps EXCEPT ![i].off = pre]
           t == [s EXCEPT !.maps = r, !.cend = e, !.mem = m]
<1>1. vpp.pc \in Building /\ vpp.pc = "regions"
  BY DEF Alone, StartRegion, Building
<1>2. segs' = [segs EXCEPT ![h] = t]
  BY DEF Alone, StartRegion, Order, Off
<1>3. restd' = restd /\ syncer' = syncer /\ vpp' = [vpp EXCEPT !.i = vpp.i + 1]
  BY DEF Alone, StartRegion
<1>4. vpp'.g = h
  BY <1>3 DEF LInv, Types, VppFields
<1> HIDE DEF e, r, C
<1>5. DOMAIN m = DOMAIN s.mem /\ \A c \in DOMAIN m : m[c] = 0 \/ m[c] = s.mem[c]
  BY DEF InitValue
<1> HIDE DEF m
<1>6. t.status = s.status /\ t.mem = m /\ t.hot = s.hot
  BY <1>1, UnderWay DEF SegFields
<1> HIDE DEF t
<1>7. s.hot \/ \A c \in DOMAIN s.mem : s.mem[c] = 0
  BY <1>1 DEF FlagInv
<1>8. t.hot \/ \A c \in DOMAIN t.mem : t.mem[c] = 0
  BY <1>5, <1>6, <1>7
<1> QED BY <1>1, <1>2, <1>3, <1>4, <1>6, <1>8, UnderWay, FlagBuild

\* the segment becomes ready with its flag down
LEMMA FlagStartFinish ==
  ASSUME LInv, FlagInv, Alone(StartFinish)
  PROVE  FlagInv'
<1> DEFINE h == vpp.g
           t == [segs[h] EXCEPT !.status = "finish"]
<1>1. vpp.pc \in Building /\ vpp.pc = "regions"
  BY DEF Alone, StartFinish, Building
<1>2. /\ segs' = [segs EXCEPT ![h] = t] /\ restd' = restd /\ syncer' = syncer
      /\ vpp' = [vpp EXCEPT !.pc = "load", !.i = 0]
  BY DEF Alone, StartFinish
<1>3. vpp'.pc = "load"
  BY <1>2 DEF LInv, Types, VppFields
<1>4. t.status = "finish" /\ t.hot = segs[h].hot /\ t.mem = segs[h].mem
  BY <1>1, UnderWay DEF SegFields
<1>5. segs'[h] = t /\ h \in Gens
  BY <1>1, <1>2, UnderWay DEF LInv, Types
<1>6. FlagAt(t) \in DOMAIN t.mem
  <2>1. LInv'
    BY StepStartFinish
  <2>2. t.ver \in Versions /\ LaidOut(t, t.ver, Last(t.ver))
    BY <1>4, <1>5, <2>1 DEF LInv, LayInv
  <2> HIDE DEF t
  <2> QED BY <2>2, FlagApart
<1>7. t.hot \/ t.mem[FlagAt(t)] = 0
  BY <1>1, <1>4, <1>6 DEF FlagInv
<1> HIDE DEF t
<1>8. t.hot \/ t.mem[FlagAt(t)] # 1
  BY <1>7
<1> HIDE DEF h
<1> QED BY <1>2, <1>3, <1>5, <1>8, FlagBuild

-----------------------------------------------------------------------------
(* The flag through every step *)

LEMMA FlagLoaderEnds ==
  ASSUME LInv, FlagInv, NEW a \in {"vpp", "tool"}, LoadOpen(a) \/ LoadEnd(a),
         restd' = restd, syncer' = syncer
  PROVE  FlagInv'
<1>1. segs' = segs
  BY DEF LoadOpen, LoadEnd
<1>2. vpp' = vpp \/ vpp' = [vpp EXCEPT !.pc = "run"]
  BY DEF LoadOpen, LoadEnd, LoadDone
<1>3. vpp' = vpp \/ vpp'.pc = "run"
  BY <1>2 DEF LInv, Types, VppFields
<1> QED BY <1>1, <1>3, QuietFlag

LEMMA FlagTools ==
  ASSUME LInv, FlagInv, Tools
  PROVE  FlagInv'
<1>1. restd' = restd /\ syncer' = syncer
  BY DEF Tools, Alone
<1>2. CASE LoadOpen("tool") \/ LoadEnd("tool")
  BY <1>1, <1>2, FlagLoaderEnds
<1>3. CASE LoadBlock("tool")
  BY <1>1, <1>3, FlagLoadBlock
<1>4. CASE segs' = segs /\ vpp' = vpp
  BY <1>1, <1>4, QuietFlag
<1>5. \/ LoadOpen("tool") \/ LoadEnd("tool") \/ LoadBlock("tool")
      \/ segs' = segs /\ vpp' = vpp
  BY DEF Tools, Alone, ToolStep, save_shm, save_shm_end, load_shm, delete_shm, SaveRemove,
         SaveOpen, SaveBlock, WriteBlock
<1> QED BY <1>2, <1>3, <1>4, <1>5

LEMMA FlagVpp ==
  ASSUME LInv, FlagInv, Alone(VppStep({restd.g, syncer}))
  PROVE  FlagInv'
<1>1. restd' = restd /\ syncer' = syncer
  BY DEF Alone
<1>2. CASE LoadOpen("vpp") \/ LoadEnd("vpp")
  BY <1>1, <1>2, FlagLoaderEnds
<1>3. CASE LoadBlock("vpp")
  BY <1>1, <1>3, FlagLoadBlock
<1>4. CASE VppCheck
  <2>1. segs' = segs /\ (\/ vpp' = [vpp EXCEPT !.pc = "fatal", !.g = 0]
                         \/ vpp' = [vpp EXCEPT !.pc = "run"])
    BY <1>4 DEF VppCheck
  <2>2. vpp'.pc \in {"fatal", "run"}
    BY <2>1 DEF LInv, Types, VppFields
  <2> QED BY <1>1, <2>1, <2>2, QuietFlag
<1>5. CASE VppLink({restd.g, syncer})
  BY <1>5, FlagVppLink DEF Alone
<1>6. CASE init_shm_main
  BY <1>6, FlagInitMain DEF Alone
<1>7. CASE StartMaps
  BY <1>7, FlagStartMaps DEF Alone
<1>8. CASE StartRegion
  BY <1>8, FlagStartRegion DEF Alone
<1>9. CASE StartFinish
  BY <1>9, FlagStartFinish DEF Alone
<1> QED BY <1>2, <1>3, <1>4, <1>5, <1>6, <1>7, <1>8, <1>9 DEF Alone, VppStep

LEMMA FlagRestd ==
  ASSUME LInv, FlagInv, ItemInv, RestdStep
  PROVE  FlagInv'
<1>1. CASE \/ Alone(SaveRemove("restd")) \/ Alone(SaveOpen("restd")) \/ Alone(SaveBlock("restd"))
           \/ sys_conf_save_all \/ LoadModule
  <2>1. segs' = segs /\ vpp' = vpp /\ restd' = restd /\ syncer' = syncer
    BY <1>1 DEF Alone, SaveRemove, SaveOpen, SaveBlock, WriteBlock, sys_conf_save_all, LoadModule,
                shmVars
  <2> QED BY <2>1, QuietFlag
<1>2. CASE ConfigSyncEnd \/ ResetEnd \/ ConfigGetEnd \/ ConfigPostEnd
  BY <1>2, FlagRelease
<1>3. CASE ResetRegion
  BY <1>3, FlagResetRegion
<1>4. CASE \E junk \in 0..1 : LoadItem(junk)
  BY <1>4, FlagLoadItem
<1>5. CASE AclSyncThread
  BY <1>5, FlagAclSync
<1> QED BY <1>1, <1>2, <1>3, <1>4, <1>5 DEF RestdStep

LEMMA FlagReboot ==
  ASSUME LInv, FlagInv, MachineReboot
  PROVE  FlagInv'
<1>1. /\ segs' = [g \in Gens |-> EmptySeg]
      /\ vpp' = [vpp EXCEPT !.pc = "down", !.g = 0, !.i = 0, !.hurt = FALSE]
  BY DEF MachineReboot, Reboot
<1>2. vpp'.pc = "down"
  BY <1>1 DEF LInv, Types, VppFields
<1>3. \A g \in Gens : segs'[g] = EmptySeg /\ EmptySeg.status # "finish"
  BY <1>1 DEF EmptySeg
<1> QED BY <1>2, <1>3 DEF FlagInv, FlagOwned

LEMMA StepFlag ==
  ASSUME LInv, FlagInv, ItemInv, [Next]_vars
  PROVE  FlagInv'
<1>1. CASE UNCHANGED vars
  <2>1. segs' = segs /\ vpp' = vpp /\ restd' = restd /\ syncer' = syncer
    BY <1>1 DEF vars, shmVars
  <2> QED BY <2>1, QuietFlag
<1>2. CASE \E v \in Versions : Alone(VppStart(v))
  <2>1. PICK v, y : vpp' = [vpp EXCEPT !.pc = "link", !.ver = v, !.hurt = y]
    BY <1>2 DEF Alone, VppStart
  <2>2. segs' = segs /\ restd' = restd /\ syncer' = syncer
    BY <1>2 DEF Alone, VppStart
  <2>3. vpp'.pc = "link"
    BY <2>1 DEF LInv, Types, VppFields
  <2> QED BY <2>2, <2>3, QuietFlag
<1>3. CASE Alone(VppStep({restd.g, syncer}))
  BY <1>3, FlagVpp
<1>4. CASE Alone(VppCount)
  BY <1>4, FlagVppCount
<1>5. CASE AclSyncVpp
  BY <1>5, FlagAclSync
<1>6. CASE Tools
  BY <1>6, FlagTools
<1>7. CASE try_link_shm
  <2>1. segs' = segs /\ vpp' = vpp /\ syncer' = syncer /\ restd' = [restd EXCEPT !.g = key]
    BY <1>7 DEF try_link_shm, shmVars
  <2>2. restd'.lost = restd.lost
    BY <2>1 DEF LInv, Types, RestdFields
  <2> QED BY <2>1, <2>2, QuietFlag
<1>8. CASE Requests
  BY <1>8, FlagPuts, FlagAclSync, FlagTake DEF Requests
<1>9. CASE RestdStep
  BY <1>9, FlagRestd
<1>10. CASE Alone(VppCrash)
  <2>1. PICK y : vpp' = [vpp EXCEPT !.pc = "down", !.g = 0, !.i = 0, !.hurt = y]
    BY <1>10 DEF Alone, VppCrash
  <2>2. segs' = segs /\ restd' = restd /\ syncer' = syncer
    BY <1>10 DEF Alone, VppCrash
  <2>3. vpp'.pc = "down"
    BY <2>1 DEF LInv, Types, VppFields
  <2> QED BY <2>2, <2>3, QuietFlag
<1>11. CASE RestdCrash
  <2>1. /\ segs' = segs /\ vpp' = vpp /\ syncer' = 0
        /\ restd' = [IdleRestd EXCEPT !.lost = restd.lost \cup {restd.g}]
    BY <1>11 DEF RestdCrash
  <2>2. restd'.lost = restd.lost \cup {restd.g}
    BY <2>1 DEF IdleRestd
  <2>3. syncer \in Gens => syncer = restd.g
    BY DEF LInv, Types, Gens
  <2> QED BY <2>1, <2>2, <2>3, QuietFlag
<1>12. CASE RestdStart
  <2>1. segs' = segs /\ vpp' = vpp /\ syncer' = syncer /\ restd' = [restd EXCEPT !.up = TRUE]
    BY <1>12 DEF RestdStart, shmVars
  <2>2. restd'.lost = restd.lost
    BY <2>1 DEF LInv, Types, RestdFields
  <2> QED BY <2>1, <2>2, QuietFlag
<1>13. CASE MachineReboot
  BY <1>13, FlagReboot
<1> QED BY <1>1, <1>2, <1>3, <1>4, <1>5, <1>6, <1>7, <1>8, <1>9, <1>10, <1>11, <1>12, <1>13 DEF Next

-----------------------------------------------------------------------------
(* What downloads write and uploads read *)

LEMMA EmptyItems == OkItems(<<>>)
<1> DEFINE S == {}
<1>1. <<>> \in Seq(S)
  OBVIOUS
<1>2. \A it \in S : it.f \in Fields \cup {"clear"}
  OBVIOUS
<1> HIDE DEF S
<1> QED BY <1>1, <1>2, Zenon DEF OkItems

LEMMA IdleItems == IdleJob.items = <<>> /\ ArchOk(NoArchive)
<1>1. IdleJob.items = <<>>
  BY DEF IdleJob
<1>2. /\ DOMAIN NoArchive = {"mods", "bad", "items", "ports"} /\ NoArchive.mods = {}
      /\ NoArchive.items = [m \in Modules |-> <<>>]
  BY DEF NoArchive
<1> QED BY <1>1, <1>2, EmptyItems DEF ArchOk

LEMMA SavedOk ==
  ASSUME NEW s, NEW m \in Modules
  PROVE  OkItems(SavedItems(s, m))
<1> DEFINE S == {Item(s, f) : f \in Fields} \cup {ClearItem}
<1>1. ASSUME NEW it \in S PROVE it.f \in Fields \cup {"clear"}
  <2>1. CASE it = ClearItem
    BY <2>1 DEF ClearItem
  <2>2. ASSUME NEW f \in Fields, it = Item(s, f) PROVE it.f \in Fields
    BY <2>2 DEF Item
  <2> QED BY <2>1, <2>2
<1>2. \A f \in Fields : Item(s, f) \in S
  OBVIOUS
<1>3. ClearItem \in S
  OBVIOUS
<1> HIDE DEF S
<1>4. \A f \in Fields : IfSet(s, f) \in Seq(S)
  BY <1>2 DEF IfSet
<1>5. "type" \in Fields /\ "mac" \in Fields /\ "bind1" \in Fields /\ "bind2" \in Fields
      /\ "action" \in Fields /\ "rule" \in Fields
  BY DEF Fields
<1>6. SavedItems(s, m) \in Seq(S)
  <2>1. CASE m = "system"
    BY <2>1 DEF SavedItems
  <2>2. CASE m = "interfaces"
    <3> DEFINE b == IfSet(s, "bind1") \o IfSet(s, "bind2")
               c == IF b = <<>> THEN <<ClearItem>> ELSE b
               d == <<Item(s, "type"), Item(s, "mac")>>
    <3>1. b \in Seq(S)
      BY <1>4, <1>5
    <3>2. d \in Seq(S)
      BY <1>2, <1>5
    <3> HIDE DEF b, d
    <3>3. c \in Seq(S)
      BY <1>3, <3>1
    <3>4. d \o c \in Seq(S)
      <4> HIDE DEF c
      <4> QED BY <3>2, <3>3
    <3> QED BY <2>2, <3>4 DEF SavedItems, b, d
  <2>3. CASE m = "actions"
    BY <1>4, <1>5, <2>3 DEF SavedItems
  <2>4. CASE m = "acl"
    BY <1>4, <1>5, <2>4 DEF SavedItems
  <2> QED BY <2>1, <2>2, <2>3, <2>4 DEF Modules
<1> QED BY <1>1, <1>6 DEF OkItems

LEMMA TailOk ==
  ASSUME NEW x, OkItems(x), x # <<>>
  PROVE  OkItems(Tail(x))
<1>1. PICK S : x \in Seq(S) /\ \A it \in S : it.f \in Fields \cup {"clear"}
  BY DEF OkItems
<1>2. Tail(x) \in Seq(S)
  BY <1>1
<1> QED BY <1>1, <1>2 DEF OkItems

LEMMA ItemsQuiet ==
  ASSUME ItemInv, archive' = archive,
         job'.items = job.items, job'.kind = job.kind, job'.arch = job.arch, job'.left = job.left
  PROVE  ItemInv'
BY DEF ItemInv

LEMMA ItemsIdle ==
  ASSUME ItemInv, job' = IdleJob, archive' = archive \/ (archive' = job.arch /\ job.kind # "idle")
  PROVE  ItemInv'
BY IdleItems, EmptyItems, IdleJobType DEF ItemInv

LEMMA ItemsGet ==
  ASSUME LInv, ItemInv, NEW mods \in {Modules, {"interfaces"}}, ConfigGet(mods)
  PROVE  ItemInv'
<1>1. PICK st : job' = [IdleJob EXCEPT !.kind = "down", !.left = mods, !.arch = NoArchive,
                                       !.start = st]
  BY DEF ConfigGet
<1>2. job'.items = IdleJob.items /\ job'.arch = NoArchive /\ job'.left = mods
  BY <1>1, IdleJobType DEF JobFields
<1>3. mods \subseteq Modules /\ archive' = archive
  BY DEF ConfigGet, Modules
<1> QED BY <1>2, <1>3, IdleItems, EmptyItems DEF ItemInv

LEMMA ItemsPost ==
  ASSUME LInv, ItemInv, NEW a \in Archives, ConfigPost(a)
  PROVE  ItemInv'
<1>1. PICK pl : job' = [IdleJob EXCEPT !.kind = "up", !.left = a.mods, !.arch = a, !.plain = pl]
  BY DEF ConfigPost
<1>2. job'.items = IdleJob.items /\ job'.arch = a /\ job'.left = a.mods
  BY <1>1, IdleJobType DEF JobFields
<1>3. archive' = archive /\ ArchOk(archive)
  BY DEF ConfigPost, ItemInv
<1>4. ArchOk(a)
  <2>1. CASE a = archive
    BY <1>3, <2>1
  <2>2. CASE a = [archive EXCEPT !.ports = RealIntfs + 1]
    <3>1. DOMAIN a = DOMAIN archive /\ a.mods = archive.mods /\ a.items = archive.items
      BY <1>3, <2>2 DEF ArchOk
    <3> QED BY <1>3, <3>1 DEF ArchOk
  <2>3. ASSUME NEW m, a = [archive EXCEPT !.bad = {m}]
        PROVE  ArchOk(a)
    <3>1. DOMAIN a = DOMAIN archive /\ a.mods = archive.mods /\ a.items = archive.items
      BY <1>3, <2>3 DEF ArchOk
    <3> QED BY <1>3, <3>1 DEF ArchOk
  <2> QED BY <2>1, <2>2, <2>3 DEF Archives
<1>5. a.mods \subseteq Modules
  BY <1>4 DEF ArchOk
<1> QED BY <1>2, <1>3, <1>4, <1>5, IdleItems, EmptyItems DEF ItemInv

LEMMA ItemsSave ==
  ASSUME LInv, ItemInv, sys_conf_save_all
  PROVE  ItemInv'
<1>1. job.kind = "down" /\ archive' = archive /\ ArchOk(job.arch) /\ job.left \subseteq Modules
  BY DEF sys_conf_save_all, ItemInv
<1>2. PICK m \in job.left :
        job' = [job EXCEPT !.left = job.left \ {m},
                           !.arch = [job.arch EXCEPT !.mods = job.arch.mods \cup {m},
                                                     !.items[m] = SavedItems(Seg, m)]]
  BY DEF sys_conf_save_all
<1> DEFINE x == [job.arch.items EXCEPT ![m] = SavedItems(Seg, m)]
           a == [job.arch EXCEPT !.mods = job.arch.mods \cup {m}, !.items = x]
<1>3. DOMAIN x = Modules /\ \A n \in Modules : x[n] = IF n = m THEN SavedItems(Seg, m) ELSE job.arch.items[n]
  BY <1>1, <1>2 DEF ArchOk
<1>4. \A n \in Modules : OkItems(x[n])
  <2> HIDE DEF x
  <2> QED BY <1>1, <1>2, <1>3, SavedOk DEF ArchOk
<1>5. job' = [job EXCEPT !.left = job.left \ {m}, !.arch = a]
  BY <1>2
<1> HIDE DEF x
<1>6. /\ DOMAIN a = {"mods", "bad", "items", "ports"} /\ a.mods = job.arch.mods \cup {m}
      /\ a.items = x
  BY <1>1 DEF ArchOk
<1> HIDE DEF a
<1>7. job'.left = job.left \ {m} /\ job'.arch = a /\ job'.items = job.items
  BY <1>5 DEF LInv, Types, JobFields
<1>8. ArchOk(a)
  BY <1>1, <1>2, <1>3, <1>4, <1>6 DEF ArchOk
<1> QED BY <1>1, <1>7, <1>8 DEF ItemInv

LEMMA ItemsLoadModule ==
  ASSUME LInv, ItemInv, LoadModule
  PROVE  ItemInv'
<1>1. job.kind = "up" /\ archive' = archive /\ ArchOk(job.arch) /\ job.left \subseteq Modules
  BY DEF LoadModule, ItemInv
<1>2. PICK m \in job.left :
        \/ job' = [job EXCEPT !.left = {}, !.error = TRUE]
        \/ job' = [job EXCEPT !.left = job.left \ {m}, !.error = TRUE]
        \/ job' = [job EXCEPT !.left = job.left \ {m}, !.module = m, !.items = job.arch.items[m]]
  BY DEF LoadModule
<1>3. /\ job'.left \in {{}, job.left \ {m}} /\ job'.arch = job.arch
      /\ job'.items \in {job.items, job.arch.items[m]}
  BY <1>2 DEF LInv, Types, JobFields
<1>4. OkItems(job.items) /\ OkItems(job.arch.items[m])
  BY <1>1, <1>2 DEF ItemInv, ArchOk
<1> QED BY <1>1, <1>3, <1>4 DEF ItemInv

LEMMA ItemsLoadItem ==
  ASSUME LInv, ItemInv, NEW junk \in 0..1, LoadItem(junk)
  PROVE  ItemInv'
<1>1. job.kind = "up" /\ archive' = archive /\ ArchOk(job.arch) /\ job.left \subseteq Modules
      /\ OkItems(job.items)
  BY DEF LoadItem, ItemInv
<1>2. CASE job' = [job EXCEPT !.module = "none"]
  <2>1. job'.items = job.items /\ job'.kind = job.kind /\ job'.arch = job.arch /\ job'.left = job.left
    BY <1>2 DEF LInv, Types, JobFields
  <2> QED BY <1>1, <2>1, ItemsQuiet
<1>3. CASE /\ job.items # <<>>
           /\ \/ job' = [job EXCEPT !.items = Tail(job.items)]
              \/ job' = [job EXCEPT !.items = <<>>, !.left = {}, !.error = TRUE]
              \/ job' = [job EXCEPT !.error = TRUE, !.items = <<>>]
              \/ job' = [job EXCEPT !.error = TRUE, !.items = Tail(job.items)]
  <2>1. /\ job'.items \in {<<>>, Tail(job.items)} /\ job'.left \in {{}, job.left}
        /\ job'.arch = job.arch
    BY <1>3 DEF LInv, Types, JobFields
  <2>2. OkItems(Tail(job.items)) /\ OkItems(<<>>)
    BY <1>1, <1>3, TailOk, EmptyItems
  <2>3. OkItems(job'.items)
    BY <2>1, <2>2
  <2> QED BY <1>1, <2>1, <2>3 DEF ItemInv
<1>4. \/ job' = [job EXCEPT !.module = "none"]
      \/ /\ job.items # <<>>
         /\ \/ job' = [job EXCEPT !.items = Tail(job.items)]
            \/ job' = [job EXCEPT !.items = <<>>, !.left = {}, !.error = TRUE]
            \/ job' = [job EXCEPT !.error = TRUE, !.items = <<>>]
            \/ job' = [job EXCEPT !.error = TRUE, !.items = Tail(job.items)]
  BY DEF LoadItem
<1> QED BY <1>2, <1>3, <1>4

LEMMA StepItems ==
  ASSUME LInv, ItemInv, [Next]_vars
  PROVE  ItemInv'
<1>1. CASE job' = job /\ archive' = archive
  BY <1>1, ItemsQuiet
<1>2. CASE Tools
  <2>1. archive' = archive /\ (job' = job \/ \E x : job' = [job EXCEPT !.alone = x])
    BY <1>2 DEF Tools, Alone
  <2>2. job'.items = job.items /\ job'.kind = job.kind /\ job'.arch = job.arch /\ job'.left = job.left
    BY <2>1 DEF LInv, Types, JobFields
  <2> QED BY <2>1, <2>2, ItemsQuiet
<1>3. CASE RestdCrash \/ MachineReboot \/ ConfigPostEnd
  <2>1. job' = IdleJob /\ archive' = archive
    BY <1>3 DEF RestdCrash, MachineReboot, ConfigPostEnd
  <2> QED BY <2>1, ItemsIdle
<1>4. CASE ConfigGetEnd
  <2>1. job' = IdleJob /\ archive' = job.arch /\ job.kind # "idle"
    BY <1>4 DEF ConfigGetEnd
  <2> QED BY <2>1, ItemsIdle
<1>5. CASE Requests
  <2>1. \/ job' = job /\ archive' = archive
        \/ \E mods \in {Modules, {"interfaces"}} : ConfigGet(mods)
        \/ \E a \in Archives : ConfigPost(a)
    BY <1>5 DEF Requests, InterfacesConfigPut, ActionPut, AclPut, AclSyncPatch, ResetBegin,
                ConfigSyncPatch
  <2> QED BY <1>1, <2>1, ItemsGet, ItemsPost
<1>6. CASE RestdStep
  <2>1. \/ job' = job /\ archive' = archive
        \/ sys_conf_save_all \/ ConfigGetEnd \/ LoadModule \/ ConfigPostEnd
        \/ \E junk \in 0..1 : LoadItem(junk)
    BY <1>6 DEF RestdStep, Alone, ConfigSyncEnd, ResetRegion, ResetEnd, AclSyncThread
  <2> QED BY <1>1, <1>3, <1>4, <2>1, ItemsSave, ItemsLoadModule, ItemsLoadItem
<1>7. \/ job' = job /\ archive' = archive
      \/ Tools \/ RestdCrash \/ MachineReboot \/ Requests \/ RestdStep
  BY DEF Next, vars, Alone, AclSyncVpp, try_link_shm, RestdStart
<1> QED BY <1>1, <1>2, <1>3, <1>5, <1>6, <1>7

LEMMA InitFlag ==
  ASSUME Init
  PROVE  FlagInv /\ ItemInv
<1>1. LInv
  BY InitLock
<1>2. ItemInv
  BY IdleItems, EmptyItems, IdleJobType DEF Init, ItemInv
<1>3. vpp.pc # "regions"
  BY DEF Init, ShmInit
<1>4. \A g \in Gens : segs[g] = Started(1) \/ segs[g] = EmptySeg
  BY DEF Init, ShmInit
<1>5. ASSUME NEW g \in Gens, segs[g].status = "finish"
      PROVE  segs[g].mem[FlagAt(segs[g])] = 0
  <2>1. segs[g] = Started(1)
    <3>1. EmptySeg.status = "none"
      BY DEF EmptySeg
    <3> QED BY <1>4, <1>5, <3>1
  <2>2. FlagAt(Started(1)) \in DOMAIN Started(1).mem
    BY <1>1, <1>5, <2>1, FinishFree DEF FlagFree
  <2>3. Started(1).mem = [c \in MemStart(1) .. (MAIN_SHM_LEN(1) - 1) |-> 0]
    BY DEF Started, EmptySeg, InitValue
  <2> QED BY <2>1, <2>2, <2>3
<1> QED BY <1>2, <1>3, <1>5 DEF FlagInv, FlagOwned

\* The lock and the flag of the ACL sync in a segment belong to work that is under
\* way, unless the restd that owned them died, or the flag came back with a saved
\* configuration: through every crash, restart, change of version, save, load,
\* download, upload and reset (base_handler.py, acl_handler.py, sf_shm.c).
THEOREM LocksAlwaysOwned == Spec => []LocksOwned
<1>1. Init => LInv /\ FlagInv /\ ItemInv
  BY InitLock, InitFlag
<1>2. LInv /\ FlagInv /\ ItemInv /\ [Next]_vars => (LInv /\ FlagInv /\ ItemInv)'
  BY StepLock, StepFlag, StepItems
<1>3. LInv /\ FlagInv /\ ItemInv => LocksOwned
  BY DEF LInv, LockInv, LockExplained, Busy, Types, FlagInv, LocksOwned
<1> QED BY <1>1, <1>2, <1>3, PTL DEF Spec
=============================================================================
