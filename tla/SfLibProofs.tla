----------------------------- MODULE SfLibProofs -----------------------------
(***************************************************************************)
(* Proofs about the two structures every plugin builds on, memory pools    *)
(* and timers.                                                             *)
(*                                                                         *)
(* First the pools, for any number of workers and nodes and any sizes of   *)
(* the caches.  The lists of a pool are chains through the first words of  *)
(* its nodes.  The inductive invariant names the sequence g of nodes on    *)
(* the global list and says of every chain which nodes it links; the       *)
(* properties, which walk the chains as the code does, follow from it.     *)
(*                                                                         *)
(* Then the timers, for any wheel size, tick length, number of timers and  *)
(* end of time.                                                            *)
(***************************************************************************)
EXTENDS SfPool, SfTimer, FiniteSetTheorems, WellFoundedInduction, TLAPS

-----------------------------------------------------------------------------
(* The inductive invariant                                                 *)

L == LocalCacheSize
F == FillFreeSize

Types ==
  /\ next \in [Node -> Node \cup {NULL, Junk}]
  /\ freelist \in Node \cup {NULL}
  /\ free_cnt \in Nat
  /\ pool_mem_inc_time \in 0 .. IncMax
  /\ total_cnt = InitSize + FillFreeSize * pool_mem_inc_time
  /\ spin_lock \in Workers \cup {NoOwner}
  /\ stack \in [Workers -> Seq(Node)]
  /\ free_list_len \in [Workers -> 0 .. FillFreeSize]
  /\ local_free_list \in [Workers -> Node \cup {NULL}]
  /\ local_last_node \in [Workers -> Node \cup {NULL}]
  /\ pc \in [Workers -> {"run", "pop", "take", "grow", "recycle", "splice"}]
  /\ held \subseteq Node

\* How full the stack s of a worker at p can be
Fill(s, p) ==
  /\ Len(s) <= L + F
  /\ p \in {"run", "pop", "take", "grow"} => Len(s) < L + F
  /\ p \in {"recycle", "splice"} => Len(s) = L + F
  /\ p = "take" => Len(s) <= F
  /\ p = "grow" => Len(s) = 0
  /\ p = "pop" => Len(s) > 0

\* The local list is the part of the stack s above L; nx are the first words,
\* end is where its last node points.
TopList(s, nx, len, first, last, end) ==
  /\ len = IF Len(s) > L THEN Len(s) - L ELSE 0
  /\ first = IF Len(s) > L THEN s[Len(s)] ELSE NULL
  /\ last = IF Len(s) > L THEN s[L+1] ELSE NULL
  /\ \A i \in L+1 .. Len(s) : nx[s[i]] = IF i > L+1 THEN s[i-1] ELSE end

Local(w) ==
  /\ Fill(stack[w], pc[w])
  /\ TopList(stack[w], next, free_list_len[w], local_free_list[w],
             local_last_node[w], IF pc[w] = "splice" THEN freelist ELSE NULL)
Locals == \A w \in Workers : Local(w)

\* g are the nodes of the list that starts at h.
ChainIs(h, nx, g) ==
  /\ h = IF g = <<>> THEN NULL ELSE g[1]
  /\ \A i \in 1 .. Len(g) : nx[g[i]] = IF i = Len(g) THEN NULL ELSE g[i+1]

\* Every node of the pool is on a stack, on the global list or held, once.
StacksApart(st) ==
  \A w, v \in Workers : \A i \in 1 .. Len(st[w]), j \in 1 .. Len(st[v]) :
    st[w][i] = st[v][j] => w = v /\ i = j
StacksFree(st, hd) ==
  \A w \in Workers : \A i \in 1 .. Len(st[w]) : st[w][i] \notin hd
ListApart(g) == \A i, j \in 1 .. Len(g) : g[i] = g[j] => i = j
ListFree(g, hd) == \A i \in 1 .. Len(g) : g[i] \notin hd
ListOff(st, g) ==
  \A i \in 1 .. Len(g) : \A w \in Workers : \A j \in 1 .. Len(st[w]) :
    g[i] # st[w][j]
InPool(st, g, hd, t) ==
  /\ hd \subseteq 1 .. t
  /\ \A i \in 1 .. Len(g) : g[i] \in 1 .. t
  /\ \A w \in Workers : \A i \in 1 .. Len(st[w]) : st[w][i] \in 1 .. t
Covered(st, g, hd, t) ==
  \A n \in 1 .. t : \/ n \in hd
                    \/ \E i \in 1 .. Len(g) : g[i] = n
                    \/ \E w \in Workers : \E i \in 1 .. Len(st[w]) : st[w][i] = n
Home(st, g, hd, t) ==
  /\ StacksApart(st) /\ StacksFree(st, hd)
  /\ ListApart(g) /\ ListFree(g, hd) /\ ListOff(st, g)
  /\ InPool(st, g, hd, t) /\ Covered(st, g, hd, t)

\* free_cnt counts the list when nobody is inside the lock.
Counted(g) ==
  /\ spin_lock = NoOwner => free_cnt = Len(g)
  /\ \A w \in Workers :
       /\ pc[w] = "take" => free_cnt = Len(g) + Len(stack[w])
       /\ pc[w] = "grow" => g = <<>> /\ free_cnt = 0
       /\ pc[w] = "splice" => free_cnt = Len(g)

Global(g) ==
  ChainIs(freelist, next, g) /\ Home(stack, g, held, total_cnt) /\ Counted(g)

IInv == /\ Types /\ LockHeldInside /\ Locals
        /\ \E g \in Seq(Node) : Global(g)

-----------------------------------------------------------------------------
(* How a node moves: from the top of a stack to its user and back, from the *)
(* global list to a stack, from new memory to a stack, and from the top of *)
(* a stack to the global list.                                             *)

\* st2 is st with the stack of w replaced.
Only(st, st2, w) ==
  /\ \A v \in Workers : Len(st[v]) \in Nat /\ Len(st2[v]) \in Nat
  /\ \A v \in Workers : v # w => st2[v] = st[v]

LEMMA HomePop ==
  ASSUME NEW st, NEW st2, NEW g, NEW hd, NEW t \in Nat, NEW w \in Workers, Only(st, st2, w),
         Home(st, g, hd, t), Len(g) \in Nat,
         Len(st[w]) > 0, Len(st2[w]) = Len(st[w]) - 1,
         \A i \in 1 .. Len(st2[w]) : st2[w][i] = st[w][i]
  PROVE  Home(st2, g, hd \cup {st[w][Len(st[w])]}, t)
<1> DEFINE n == st[w][Len(st[w])]
<1>0. Len(st[w]) \in 1 .. Len(st[w]) /\ Len(st[w]) \in Nat
  BY DEF Only
<1>1. ASSUME NEW v \in Workers, NEW i \in 1 .. Len(st2[v])
      PROVE  /\ i \in 1 .. Len(st[v]) /\ st2[v][i] = st[v][i]
             /\ ~(v = w /\ i = Len(st[w]))
  BY DEF Only
<1>2. ASSUME NEW v \in Workers, NEW i \in 1 .. Len(st[v]), ~(v = w /\ i = Len(st[w]))
      PROVE  i \in 1 .. Len(st2[v]) /\ st2[v][i] = st[v][i]
  BY <1>2 DEF Only
<1>3. StacksApart(st2)
  BY <1>1 DEF Home, StacksApart
<1>4. StacksFree(st2, hd \cup {n})
  <2> SUFFICES ASSUME NEW v \in Workers, NEW i \in 1 .. Len(st2[v])
               PROVE  st2[v][i] \notin hd \cup {n}
    BY DEF StacksFree
  <2>1. st[v][i] \notin hd
    BY <1>1 DEF Home, StacksFree
  <2>2. st[v][i] # n
    BY <1>0, <1>1 DEF Home, StacksApart
  <2> QED BY <1>1, <2>1, <2>2
<1>5. ListFree(g, hd \cup {n})
  BY <1>0 DEF Home, ListFree, ListOff
<1>6. ListOff(st2, g)
  BY <1>1 DEF Home, ListOff
<1>7. InPool(st2, g, hd \cup {n}, t)
  BY <1>0, <1>1 DEF Home, InPool
<1>8. Covered(st2, g, hd \cup {n}, t)
  <2> SUFFICES ASSUME NEW m \in 1 .. t, m \notin hd \cup {n}, ~ \E i \in 1 .. Len(g) : g[i] = m
               PROVE  \E v \in Workers : \E i \in 1 .. Len(st2[v]) : st2[v][i] = m
    BY DEF Covered
  <2>1. PICK v \in Workers : \E i \in 1 .. Len(st[v]) : st[v][i] = m
    BY DEF Home, Covered
  <2>2. PICK i \in 1 .. Len(st[v]) : st[v][i] = m
    BY <2>1
  <2> QED BY <1>2, <2>2
<1> QED BY <1>3, <1>4, <1>5, <1>6, <1>7, <1>8 DEF Home

LEMMA HomePush ==
  ASSUME NEW st, NEW st2, NEW g, NEW hd, NEW t \in Nat, NEW w \in Workers, Only(st, st2, w),
         Home(st, g, hd, t), Len(g) \in Nat, NEW n \in hd,
         Len(st2[w]) = Len(st[w]) + 1, st2[w][Len(st[w]) + 1] = n,
         \A i \in 1 .. Len(st[w]) : st2[w][i] = st[w][i]
  PROVE  Home(st2, g, hd \ {n}, t)
<1>0. Len(st[w]) + 1 \in 1 .. Len(st2[w]) /\ Len(st[w]) \in Nat
  BY DEF Only
<1>1. ASSUME NEW v \in Workers, NEW i \in 1 .. Len(st2[v])
      PROVE  \/ v = w /\ i = Len(st[w]) + 1 /\ st2[v][i] = n
             \/ i \in 1 .. Len(st[v]) /\ st2[v][i] = st[v][i]
  BY DEF Only
<1>2. ASSUME NEW v \in Workers, NEW i \in 1 .. Len(st[v])
      PROVE  i \in 1 .. Len(st2[v]) /\ st2[v][i] = st[v][i]
  <2>1. CASE v = w
    BY <2>1 DEF Only
  <2>2. CASE v # w
    BY <2>2 DEF Only
  <2> QED BY <2>1, <2>2
<1>a. \A v \in Workers : \A i \in 1 .. Len(st[v]) : st[v][i] # n
  BY DEF Home, StacksFree
<1>3. StacksApart(st2)
  <2> SUFFICES ASSUME NEW v \in Workers, NEW u \in Workers, NEW i \in 1 .. Len(st2[v]),
                      NEW j \in 1 .. Len(st2[u]), st2[v][i] = st2[u][j]
               PROVE  v = u /\ i = j
    BY DEF StacksApart
  <2>1. \/ v = w /\ i = Len(st[w]) + 1 /\ st2[v][i] = n
        \/ i \in 1 .. Len(st[v]) /\ st2[v][i] = st[v][i]
    BY <1>1
  <2>2. \/ u = w /\ j = Len(st[w]) + 1 /\ st2[u][j] = n
        \/ j \in 1 .. Len(st[u]) /\ st2[u][j] = st[u][j]
    BY <1>1
  <2>3. i \in 1 .. Len(st[v]) /\ j \in 1 .. Len(st[u]) /\ st[v][i] = st[u][j] => v = u /\ i = j
    BY DEF Home, StacksApart
  <2> QED BY <1>a, <2>1, <2>2, <2>3
<1>4. StacksFree(st2, hd \ {n})
  BY <1>1 DEF Home, StacksFree
<1>5. ListFree(g, hd \ {n})
  BY DEF Home, ListFree
<1>6. ListOff(st2, g)
  BY <1>1 DEF Home, ListOff, ListFree
<1>7. InPool(st2, g, hd \ {n}, t)
  BY <1>1 DEF Home, InPool
<1>8. Covered(st2, g, hd \ {n}, t)
  <2> SUFFICES ASSUME NEW m \in 1 .. t, m \notin hd \ {n}, ~ \E i \in 1 .. Len(g) : g[i] = m
               PROVE  \E v \in Workers : \E i \in 1 .. Len(st2[v]) : st2[v][i] = m
    BY DEF Covered
  <2>1. CASE m = n
    BY <1>0, <2>1
  <2>2. CASE m # n
    <3>1. PICK v \in Workers : \E i \in 1 .. Len(st[v]) : st[v][i] = m
      BY <2>2 DEF Home, Covered
    <3>2. PICK i \in 1 .. Len(st[v]) : st[v][i] = m
      BY <3>1
    <3> QED BY <1>2, <3>2
  <2> QED BY <2>1, <2>2
<1> QED BY <1>3, <1>4, <1>5, <1>6, <1>7, <1>8 DEF Home

LEMMA HomeTake ==
  ASSUME NEW st, NEW st2, NEW g, NEW g2, NEW hd, NEW t \in Nat, NEW w \in Workers,
         Only(st, st2, w), Home(st, g, hd, t), Len(g) \in Nat, Len(g) > 0,
         Len(st2[w]) = Len(st[w]) + 1, st2[w][Len(st[w]) + 1] = g[1],
         \A i \in 1 .. Len(st[w]) : st2[w][i] = st[w][i],
         Len(g2) = Len(g) - 1, \A i \in 1 .. Len(g2) : g2[i] = g[i + 1]
  PROVE  Home(st2, g2, hd, t)
<1> DEFINE n == g[1]
<1>0. Len(st[w]) + 1 \in 1 .. Len(st2[w]) /\ Len(st[w]) \in Nat /\ 1 \in 1 .. Len(g)
  BY DEF Only
<1>1. ASSUME NEW v \in Workers, NEW i \in 1 .. Len(st2[v])
      PROVE  \/ v = w /\ i = Len(st[w]) + 1 /\ st2[v][i] = n
             \/ i \in 1 .. Len(st[v]) /\ st2[v][i] = st[v][i]
  BY DEF Only
<1>2. ASSUME NEW v \in Workers, NEW i \in 1 .. Len(st[v])
      PROVE  i \in 1 .. Len(st2[v]) /\ st2[v][i] = st[v][i]
  <2>1. CASE v = w
    BY <2>1 DEF Only
  <2>2. CASE v # w
    BY <2>2 DEF Only
  <2> QED BY <2>1, <2>2
<1>b. ASSUME NEW i \in 1 .. Len(g2)
      PROVE  i + 1 \in 1 .. Len(g) /\ g2[i] = g[i + 1] /\ i + 1 # 1
  OBVIOUS
<1>c. ASSUME NEW i \in 1 .. Len(g), i # 1
      PROVE  i - 1 \in 1 .. Len(g2) /\ g2[i - 1] = g[i]
  BY <1>c
<1>a. \A v \in Workers : \A i \in 1 .. Len(st[v]) : st[v][i] # n
  BY <1>0 DEF Home, ListOff
<1>3. StacksApart(st2)
  <2> SUFFICES ASSUME NEW v \in Workers, NEW u \in Workers, NEW i \in 1 .. Len(st2[v]),
                      NEW j \in 1 .. Len(st2[u]), st2[v][i] = st2[u][j]
               PROVE  v = u /\ i = j
    BY DEF StacksApart
  <2>1. \/ v = w /\ i = Len(st[w]) + 1 /\ st2[v][i] = n
        \/ i \in 1 .. Len(st[v]) /\ st2[v][i] = st[v][i]
    BY <1>1
  <2>2. \/ u = w /\ j = Len(st[w]) + 1 /\ st2[u][j] = n
        \/ j \in 1 .. Len(st[u]) /\ st2[u][j] = st[u][j]
    BY <1>1
  <2>3. i \in 1 .. Len(st[v]) /\ j \in 1 .. Len(st[u]) /\ st[v][i] = st[u][j] => v = u /\ i = j
    BY DEF Home, StacksApart
  <2> HIDE DEF n
  <2> QED BY <1>a, <2>1, <2>2, <2>3
<1>4. StacksFree(st2, hd)
  <2>1. n \notin hd
    BY <1>0 DEF Home, ListFree
  <2> HIDE DEF n
  <2> QED BY <1>1, <2>1 DEF Home, StacksFree
<1>5. ListFree(g2, hd)
  BY <1>b DEF Home, ListFree
<1>9. ListApart(g2)
  <2> SUFFICES ASSUME NEW i \in 1 .. Len(g2), NEW j \in 1 .. Len(g2), g2[i] = g2[j]
               PROVE  i = j
    BY DEF ListApart
  <2>1. i + 1 = j + 1
    BY <1>b DEF Home, ListApart
  <2> QED BY <2>1
<1>6. ListOff(st2, g2)
  <2> SUFFICES ASSUME NEW i \in 1 .. Len(g2), NEW v \in Workers, NEW j \in 1 .. Len(st2[v])
               PROVE  g2[i] # st2[v][j]
    BY DEF ListOff
  <2>1. g[i + 1] # n
    BY <1>0, <1>b DEF Home, ListApart
  <2>2. j \in 1 .. Len(st[v]) => g[i + 1] # st[v][j]
    BY <1>b DEF Home, ListOff
  <2> QED BY <1>1, <1>b, <2>1, <2>2
<1>7. InPool(st2, g2, hd, t)
  BY <1>0, <1>1, <1>b DEF Home, InPool
<1>8. Covered(st2, g2, hd, t)
  <2> SUFFICES ASSUME NEW m \in 1 .. t, m \notin hd, ~ \E i \in 1 .. Len(g2) : g2[i] = m
               PROVE  \E v \in Workers : \E i \in 1 .. Len(st2[v]) : st2[v][i] = m
    BY DEF Covered
  <2>1. CASE m = n
    BY <1>0, <2>1
  <2>2. CASE m # n
    <3>0. ~ \E i \in 1 .. Len(g) : g[i] = m
      BY <1>c, <2>2
    <3>1. PICK v \in Workers : \E i \in 1 .. Len(st[v]) : st[v][i] = m
      BY <3>0 DEF Home, Covered
    <3>2. PICK i \in 1 .. Len(st[v]) : st[v][i] = m
      BY <3>1
    <3> QED BY <1>2, <3>2
  <2> QED BY <2>1, <2>2
<1> QED BY <1>3, <1>4, <1>5, <1>6, <1>7, <1>8, <1>9 DEF Home

LEMMA HomeGrow ==
  ASSUME NEW st, NEW st2, NEW g, NEW hd, NEW t \in Nat, NEW f \in Nat, NEW w \in Workers,
         Only(st, st2, w), Home(st, g, hd, t), Len(g) \in Nat,
         Len(st[w]) = 0, Len(st2[w]) = f,
         \A i \in 1 .. f : st2[w][i] = t + i
  PROVE  Home(st2, g, hd, t + f)
<1>1. ASSUME NEW v \in Workers, NEW i \in 1 .. Len(st2[v])
      PROVE  \/ v = w /\ st2[v][i] = t + i
             \/ v # w /\ i \in 1 .. Len(st[v]) /\ st2[v][i] = st[v][i]
  BY DEF Only
<1>2. ASSUME NEW v \in Workers, NEW i \in 1 .. Len(st[v])
      PROVE  i \in 1 .. Len(st2[v]) /\ st2[v][i] = st[v][i]
  <2>1. CASE v = w
    BY <2>1 DEF Only
  <2>2. CASE v # w
    BY <2>2 DEF Only
  <2> QED BY <2>1, <2>2
<1>a. \A v \in Workers : \A i \in 1 .. Len(st[v]) : st[v][i] \in 1 .. t
  BY DEF Home, InPool
<1>b. \A i \in Nat : i > 0 => t + i \notin 1 .. t
  OBVIOUS
<1>c. \A v \in Workers : \A i \in 1 .. Len(st2[v]) : i \in Nat /\ i > 0
  BY DEF Only
<1>3. StacksApart(st2)
  <2> SUFFICES ASSUME NEW v \in Workers, NEW u \in Workers, NEW i \in 1 .. Len(st2[v]),
                      NEW j \in 1 .. Len(st2[u]), st2[v][i] = st2[u][j]
               PROVE  v = u /\ i = j
    BY DEF StacksApart
  <2>0. i \in Nat /\ i > 0 /\ j \in Nat /\ j > 0
    BY <1>c
  <2>1. CASE v # w /\ u # w
    BY <1>1, <2>1 DEF Home, StacksApart
  <2>2. CASE v = w /\ u # w
    <3>1. st2[v][i] = t + i /\ st2[u][j] = st[u][j] /\ st[u][j] \in 1 .. t
      BY <1>1, <1>a, <2>2
    <3> QED BY <1>b, <2>0, <3>1
  <2>3. CASE v # w /\ u = w
    <3>1. st2[u][j] = t + j /\ st2[v][i] = st[v][i] /\ st[v][i] \in 1 .. t
      BY <1>1, <1>a, <2>3
    <3> QED BY <1>b, <2>0, <3>1
  <2>4. CASE v = w /\ u = w
    <3>1. t + i = t + j
      BY <1>1, <2>4
    <3> QED BY <2>0, <2>4, <3>1
  <2> QED BY <2>1, <2>2, <2>3, <2>4
<1>4. StacksFree(st2, hd)
  <2> SUFFICES ASSUME NEW v \in Workers, NEW i \in 1 .. Len(st2[v]), st2[v][i] \in hd
               PROVE  FALSE
    BY DEF StacksFree
  <2>1. st2[v][i] \in 1 .. t
    BY DEF Home, InPool
  <2>2. v # w /\ i \in 1 .. Len(st[v]) /\ st2[v][i] = st[v][i]
    BY <1>1, <1>b, <1>c, <2>1
  <2> QED BY <2>2 DEF Home, StacksFree
<1>6. ListOff(st2, g)
  <2> SUFFICES ASSUME NEW k \in 1 .. Len(g), NEW v \in Workers, NEW i \in 1 .. Len(st2[v]),
                      g[k] = st2[v][i]
               PROVE  FALSE
    BY DEF ListOff
  <2>1. st2[v][i] \in 1 .. t
    BY DEF Home, InPool
  <2>2. v # w /\ i \in 1 .. Len(st[v]) /\ st2[v][i] = st[v][i]
    BY <1>1, <1>b, <1>c, <2>1
  <2> QED BY <2>2 DEF Home, ListOff
<1>7. InPool(st2, g, hd, t + f)
  <2>1. \A m \in 1 .. t : m \in 1 .. t + f
    OBVIOUS
  <2>2. \A i \in 1 .. f : t + i \in 1 .. t + f
    OBVIOUS
  <2>3. hd \subseteq 1 .. t + f
    BY <2>1 DEF Home, InPool
  <2>4. \A i \in 1 .. Len(g) : g[i] \in 1 .. t + f
    BY <2>1 DEF Home, InPool
  <2>5. ASSUME NEW v \in Workers, NEW i \in 1 .. Len(st2[v])
        PROVE  st2[v][i] \in 1 .. t + f
    BY <1>1, <1>a, <2>1, <2>2
  <2> QED BY <2>3, <2>4, <2>5 DEF InPool
<1>8. Covered(st2, g, hd, t + f)
  <2> SUFFICES ASSUME NEW m \in 1 .. t + f, m \notin hd, ~ \E i \in 1 .. Len(g) : g[i] = m
               PROVE  \E v \in Workers : \E i \in 1 .. Len(st2[v]) : st2[v][i] = m
    BY DEF Covered
  <2>1. CASE m > t
    <3>1. m - t \in 1 .. f /\ t + (m - t) = m
      BY <2>1
    <3> QED BY <3>1
  <2>2. CASE ~(m > t)
    <3>0. m \in 1 .. t
      BY <2>2
    <3>1. PICK v \in Workers : \E i \in 1 .. Len(st[v]) : st[v][i] = m
      BY <3>0 DEF Home, Covered
    <3>2. PICK i \in 1 .. Len(st[v]) : st[v][i] = m
      BY <3>1
    <3> QED BY <1>2, <3>2
  <2> QED BY <2>1, <2>2
<1> QED BY <1>3, <1>4, <1>6, <1>7, <1>8 DEF Home

LEMMA HomeSplice ==
  ASSUME NEW st, NEW st2, NEW g, NEW g2, NEW hd, NEW t \in Nat, NEW w \in Workers,
         NEW f \in Nat, Only(st, st2, w), Home(st, g, hd, t), Len(g) \in Nat,
         f <= Len(st[w]), Len(st2[w]) = Len(st[w]) - f,
         \A i \in 1 .. Len(st2[w]) : st2[w][i] = st[w][i],
         Len(g2) = f + Len(g),
         \A i \in 1 .. Len(g2) : g2[i] = IF i <= f THEN st[w][Len(st[w]) + 1 - i] ELSE g[i - f]
  PROVE  Home(st2, g2, hd, t)
<1> DEFINE n == Len(st[w])
<1>0. n \in Nat
  BY DEF Only
<1>1. ASSUME NEW v \in Workers, NEW i \in 1 .. Len(st2[v])
      PROVE  i \in 1 .. Len(st[v]) /\ st2[v][i] = st[v][i] /\ (v = w => i <= n - f)
  BY <1>0 DEF Only
<1>2. ASSUME NEW v \in Workers, NEW i \in 1 .. Len(st[v]), ~(v = w /\ i > n - f)
      PROVE  i \in 1 .. Len(st2[v]) /\ st2[v][i] = st[v][i]
  <2>1. CASE v = w
    BY <1>0, <1>2, <2>1 DEF Only
  <2>2. CASE v # w
    BY <2>2 DEF Only
  <2> QED BY <2>1, <2>2
<1>b. ASSUME NEW i \in 1 .. Len(g2)
      PROVE  \/ /\ i <= f /\ n + 1 - i \in 1 .. Len(st[w]) /\ n + 1 - i > n - f
                /\ g2[i] = st[w][n + 1 - i]
             \/ i > f /\ i - f \in 1 .. Len(g) /\ g2[i] = g[i - f]
  BY <1>0
<1>3. StacksApart(st2)
  <2> SUFFICES ASSUME NEW v \in Workers, NEW u \in Workers, NEW i \in 1 .. Len(st2[v]),
                      NEW j \in 1 .. Len(st2[u]), st2[v][i] = st2[u][j]
               PROVE  v = u /\ i = j
    BY DEF StacksApart
  <2>1. i \in 1 .. Len(st[v]) /\ j \in 1 .. Len(st[u]) /\ st[v][i] = st[u][j]
    BY <1>1
  <2> QED BY <2>1 DEF Home, StacksApart
<1>4. StacksFree(st2, hd)
  BY <1>1 DEF Home, StacksFree
<1>5. ListFree(g2, hd)
  BY <1>b DEF Home, ListFree, StacksFree
<1>9. ListApart(g2)
  <2> SUFFICES ASSUME NEW i \in 1 .. Len(g2), NEW j \in 1 .. Len(g2), g2[i] = g2[j]
               PROVE  i = j
    BY DEF ListApart
  <2>0. i \in Nat /\ j \in Nat
    OBVIOUS
  <2>b. \A x, y \in 1 .. Len(st[w]) : st[w][x] = st[w][y] => x = y
    BY DEF Home, StacksApart
  <2>c. \A x \in 1 .. Len(g), y \in 1 .. Len(st[w]) : g[x] # st[w][y]
    BY DEF Home, ListOff
  <2> DEFINE P(k) == k <= f /\ n + 1 - k \in 1 .. Len(st[w]) /\ g2[k] = st[w][n + 1 - k]
             Q(k) == k > f /\ k - f \in 1 .. Len(g) /\ g2[k] = g[k - f]
  <2>a. (P(i) \/ Q(i)) /\ (P(j) \/ Q(j))
    BY <1>b
  <2>1. CASE P(i) /\ P(j)
    <3>1. n + 1 - i = n + 1 - j
      BY <2>b, <2>1
    <3> QED BY <1>0, <2>0, <3>1
  <2>2. CASE Q(i) /\ Q(j)
    <3>1. i - f = j - f
      BY <2>2 DEF Home, ListApart
    <3> QED BY <2>0, <3>1
  <2>3. CASE P(i) /\ Q(j)
    BY <2>c, <2>3
  <2>4. CASE Q(i) /\ P(j)
    BY <2>c, <2>4
  <2> HIDE DEF P, Q
  <2> QED BY <2>a, <2>1, <2>2, <2>3, <2>4
<1>6. ListOff(st2, g2)
  <2> SUFFICES ASSUME NEW i \in 1 .. Len(g2), NEW v \in Workers, NEW j \in 1 .. Len(st2[v])
               PROVE  g2[i] # st2[v][j]
    BY DEF ListOff
  <2>1. j \in 1 .. Len(st[v]) /\ st2[v][j] = st[v][j] /\ (v = w => j <= n - f)
    BY <1>1
  <2>2. CASE i <= f
    <3>1. n + 1 - i \in 1 .. Len(st[w]) /\ n + 1 - i > n - f /\ g2[i] = st[w][n + 1 - i]
      BY <1>b, <2>2
    <3>2. st[w][n + 1 - i] = st[v][j] => w = v /\ n + 1 - i = j
      BY <2>1, <3>1 DEF Home, StacksApart
    <3> QED BY <1>0, <2>1, <3>1, <3>2
  <2>3. CASE i > f
    <3>1. i - f \in 1 .. Len(g) /\ g2[i] = g[i - f]
      BY <1>b, <2>3
    <3> QED BY <2>1, <3>1 DEF Home, ListOff
  <2> QED BY <2>2, <2>3
<1>7. InPool(st2, g2, hd, t)
  BY <1>1, <1>b DEF Home, InPool
<1>8. Covered(st2, g2, hd, t)
  <2> SUFFICES ASSUME NEW m \in 1 .. t, m \notin hd,
                      ~ \E v \in Workers : \E i \in 1 .. Len(st2[v]) : st2[v][i] = m
               PROVE  \E i \in 1 .. Len(g2) : g2[i] = m
    BY DEF Covered
  <2>1. CASE \E i \in 1 .. Len(g) : g[i] = m
    <3>1. PICK i \in 1 .. Len(g) : g[i] = m
      BY <2>1
    <3>2. i + f \in 1 .. Len(g2) /\ ~(i + f <= f) /\ (i + f) - f = i
      OBVIOUS
    <3> QED BY <3>1, <3>2
  <2>2. CASE ~ \E i \in 1 .. Len(g) : g[i] = m
    <3>1. PICK v \in Workers : \E i \in 1 .. Len(st[v]) : st[v][i] = m
      BY <2>2 DEF Home, Covered
    <3>2. PICK i \in 1 .. Len(st[v]) : st[v][i] = m
      BY <3>1
    <3>3. v = w /\ i > n - f
      BY <1>2, <3>2
    <3>4. n + 1 - i \in 1 .. Len(g2) /\ n + 1 - i <= f /\ n + 1 - (n + 1 - i) = i
      BY <1>0, <3>3
    <3> QED BY <3>2, <3>3, <3>4
  <2> QED BY <2>1, <2>2
<1> QED BY <1>3, <1>4, <1>5, <1>6, <1>7, <1>8, <1>9 DEF Home

-----------------------------------------------------------------------------
(* What every step keeps                                                   *)

USE DEF L, F

LEMMA Num == L \in Nat /\ F \in Nat /\ F > 0 /\ F <= L
BY SfPoolAssumption

LEMMA Sizes ==
  /\ L \in Nat /\ F \in Nat /\ F > 0 /\ F <= L
  /\ InitSize \in Nat /\ MaxNodes \in Nat /\ InitSize <= MaxNodes
  /\ IncMax \in Nat /\ NumWorkers \in Nat
  /\ \A w \in Workers : w \in Nat /\ w # NoOwner
  /\ \A n \in Node : n \in Nat /\ n # NULL
<1>1. InitSize \in Nat /\ FillFreeSize * IncMax \in Nat
  BY SfPoolAssumption DEF InitSize
<1>2. MaxNodes \in Nat /\ InitSize <= MaxNodes
  BY <1>1 DEF MaxNodes
<1>3. \A w \in Workers : w \in Nat /\ w # NoOwner
  BY SfPoolAssumption DEF Workers, NoOwner
<1>4. \A n \in Node : n \in Nat /\ n # NULL
  BY <1>2 DEF Node, NULL
<1> QED BY <1>1, <1>2, <1>3, <1>4, SfPoolAssumption

\* The memory the pool may still get has room in the range of the nodes.
LEMMA Room ==
  ASSUME NEW k \in 0 .. IncMax
  PROVE  /\ InitSize + F * k \in Nat /\ InitSize + F * k <= MaxNodes
         /\ k < IncMax => /\ InitSize + F * (k + 1) = InitSize + F * k + F
                          /\ InitSize + F * k + F <= MaxNodes
<1>1. ASSUME NEW c \in Nat, NEW x \in Nat, NEW y \in Nat, x <= y
      PROVE  c * x \in Nat /\ c * y \in Nat /\ c * x <= c * y /\ c * (x + 1) = c * x + c
  <2>1. PICK d \in Nat : y = x + d
    <3>1. y - x \in Nat /\ y = x + (y - x)
      BY <1>1
    <3> QED BY <3>1
  <2>2. c * y = c * x + c * d /\ c * d \in Nat /\ c * x \in Nat
    BY <2>1
  <2> QED BY <2>2
<1>2. IncMax \in Nat /\ InitSize \in Nat /\ F \in Nat
  BY Sizes
<1>3. F * k \in Nat /\ F * IncMax \in Nat /\ F * k <= F * IncMax /\ F * (k + 1) = F * k + F
  BY <1>1, <1>2
<1>4. k < IncMax => F * (k + 1) <= F * IncMax
  BY <1>1, <1>2
<1> QED BY <1>2, <1>3, <1>4 DEF MaxNodes

LEMMA KeepLocal ==
  ASSUME NEW v \in Workers, Local(v), stack[v] \in Seq(Node), stack'[v] = stack[v],
         pc'[v] = pc[v], free_list_len'[v] = free_list_len[v],
         local_free_list'[v] = local_free_list[v], local_last_node'[v] = local_last_node[v],
         pc[v] = "splice" => freelist' = freelist,
         \A i \in 1 .. Len(stack[v]) : next'[stack[v][i]] = next[stack[v][i]]
  PROVE  Local(v)'
<1>1. \A i \in L + 1 .. Len(stack[v]) : i \in 1 .. Len(stack[v])
  BY Sizes
<1>2. Fill(stack'[v], pc'[v])
  BY DEF Local
<1>3. TopList(stack'[v], next', free_list_len'[v], local_free_list'[v],
              local_last_node'[v], IF pc'[v] = "splice" THEN freelist' ELSE NULL)
  BY <1>1 DEF Local, TopList
<1> QED BY <1>2, <1>3 DEF Local

LEMMA KeepChain ==
  ASSUME NEW h, NEW nx, NEW nx2, NEW g, ChainIs(h, nx, g),
         \A i \in 1 .. Len(g) : nx2[g[i]] = nx[g[i]]
  PROVE  ChainIs(h, nx2, g)
BY DEF ChainIs

\* A stack that is not above its limit has no local list.
LEMMA TopShort ==
  ASSUME NEW s \in Seq(Node), NEW nx, NEW len, NEW first, NEW last, NEW end, Len(s) <= L
  PROVE  TopList(s, nx, len, first, last, end) <=> len = 0 /\ first = NULL /\ last = NULL
BY Sizes DEF TopList

-----------------------------------------------------------------------------
(* The steps                                                               *)

LEMMA PopInv ==
  ASSUME IInv, NEW w \in Workers, Pop(w)
  PROVE  IInv'
<1> DEFINE s == stack[w]
           n == s[Len(s)]
<1>1. PICK g \in Seq(Node) : Global(g)
  BY DEF IInv
<1>2. /\ s \in Seq(Node) /\ Len(s) \in Nat /\ Len(s) > 0 /\ n \in Node
      /\ pc[w] \in {"run", "pop"} /\ Len(g) \in Nat
      /\ (Len(s) - 1) + 1 = Len(s)
  BY DEF IInv, Types, Pop
<1>3. /\ stack' = [stack EXCEPT ![w] = SubSeq(s, 1, Len(s) - 1)]
      /\ next' = [next EXCEPT ![n] = Junk] /\ held' = held \cup {n}
      /\ pc' = [pc EXCEPT ![w] = "run"]
      /\ UNCHANGED <<globalVars, spin_lock>>
  BY <1>2 DEF Pop
<1>4. /\ SubSeq(s, 1, Len(s) - 1) \in Seq(Node)
      /\ Len(SubSeq(s, 1, Len(s) - 1)) = Len(s) - 1
      /\ \A i \in 1 .. Len(s) - 1 : SubSeq(s, 1, Len(s) - 1)[i] = s[i]
  BY <1>2
<1>5. /\ stack' \in [Workers -> Seq(Node)] /\ stack'[w] = SubSeq(s, 1, Len(s) - 1)
      /\ \A v \in Workers : v # w => stack'[v] = stack[v]
  BY <1>3, <1>4 DEF IInv, Types
<1>6. Len(stack'[w]) = Len(s) - 1 /\ \A i \in 1 .. Len(stack'[w]) : stack'[w][i] = s[i]
  BY <1>4, <1>5
<1>7. Only(stack, stack', w)
  BY <1>5 DEF Only, IInv, Types
<1>8. Home(stack', g, held', total_cnt')
  <2>1. total_cnt \in Nat /\ total_cnt' = total_cnt
    BY <1>3, Room DEF IInv, Types, globalVars
  <2>2. Home(stack, g, held, total_cnt)
    BY <1>1 DEF Global
  <2> QED BY <1>2, <1>3, <1>6, <1>7, <2>1, <2>2, HomePop
<1>9. \A v \in Workers : \A i \in 1 .. Len(stack'[v]) : stack'[v][i] # n
  BY <1>3, <1>8 DEF Home, StacksFree
<1>10. \A i \in 1 .. Len(g) : g[i] # n
  BY <1>3, <1>8 DEF Home, ListFree
<1>11. \A m \in Node : m # n => next'[m] = next[m]
  BY <1>3 DEF IInv, Types
<1>12. Local(w)
  BY DEF IInv, Locals
<1>13. TopList(s, next, free_list_len[w], local_free_list[w], local_last_node[w], NULL)
  BY <1>2, <1>12 DEF Local
<1>14. /\ \A v \in Workers : v # w => /\ free_list_len'[v] = free_list_len[v]
                                      /\ local_free_list'[v] = local_free_list[v]
                                      /\ local_last_node'[v] = local_last_node[v]
       /\ free_list_len' \in [Workers -> 0 .. FillFreeSize]
       /\ local_free_list' \in [Workers -> Node \cup {NULL}]
       /\ local_last_node' \in [Workers -> Node \cup {NULL}]
       /\ TopList(stack'[w], next', free_list_len'[w], local_free_list'[w],
                  local_last_node'[w], NULL)
  <2>1. CASE Len(s) - 1 >= L
    <3>1. /\ free_list_len' = [free_list_len EXCEPT ![w] = @ - 1]
          /\ local_free_list' = [local_free_list EXCEPT ![w] =
                                   IF Len(s) - 1 > L THEN s[Len(s) - 1] ELSE NULL]
          /\ local_last_node' = [local_last_node EXCEPT ![w] =
                                   IF Len(s) - 1 = L THEN NULL ELSE @]
      BY <1>2, <2>1 DEF Pop, LastAfterPop
    <3>2. free_list_len[w] = Len(s) - L /\ local_last_node[w] = s[L + 1]
      BY <1>2, <1>13, <2>1, Sizes DEF TopList
    <3>3. Len(s) - 1 > L => s[Len(s) - 1] \in Node
      BY <1>2, Sizes
    <3>4. free_list_len[w] \in 0 .. FillFreeSize /\ free_list_len[w] - 1 \in 0 .. FillFreeSize
      BY <1>2, <2>1, <3>2, Sizes DEF IInv, Types
    <3>5. /\ free_list_len'[w] = Len(s) - 1 - L
          /\ local_free_list'[w] = IF Len(s) - 1 > L THEN s[Len(s) - 1] ELSE NULL
          /\ local_last_node'[w] = IF Len(s) - 1 > L THEN s[L + 1] ELSE NULL
      BY <1>2, <2>1, <3>1, <3>2, Sizes DEF IInv, Types
    <3>6. ASSUME NEW i \in L + 1 .. Len(stack'[w])
          PROVE  next'[stack'[w][i]] = IF i > L + 1 THEN stack'[w][i - 1] ELSE NULL
      <4>1. /\ i \in 1 .. Len(stack'[w]) /\ i \in L + 1 .. Len(s) /\ i \in 1 .. Len(s)
            /\ i > L + 1 => i - 1 \in 1 .. Len(stack'[w])
        BY <1>2, <1>6, Num
      <4>2. stack'[w][i] = s[i] /\ s[i] \in Node /\ s[i] # n
        BY <1>2, <1>6, <1>9, <4>1
      <4>3. next'[s[i]] = next[s[i]]
        BY <1>11, <4>2
      <4>4. next[s[i]] = IF i > L + 1 THEN s[i - 1] ELSE NULL
        BY <1>13, <4>1 DEF TopList
      <4> QED BY <1>6, <4>1, <4>2, <4>3, <4>4
    <3>7. TopList(stack'[w], next', free_list_len'[w], local_free_list'[w],
                  local_last_node'[w], NULL)
      <4>1. (Len(stack'[w]) > L <=> Len(s) - 1 > L) /\ Len(stack'[w]) \in Nat
        BY <1>2, <1>6
      <4>2. Len(s) - 1 > L => /\ stack'[w][Len(stack'[w])] = s[Len(s) - 1]
                              /\ stack'[w][L + 1] = s[L + 1]
        BY <1>2, <1>6, Num
      <4>3. free_list_len'[w] = IF Len(stack'[w]) > L THEN Len(stack'[w]) - L ELSE 0
        <5>1. free_list_len'[w] = Len(stack'[w]) - L /\ Len(stack'[w]) >= L
          BY <1>6, <2>1, <3>5
        <5> QED BY <4>1, <5>1, Num
      <4> QED BY <3>5, <3>6, <4>1, <4>2, <4>3 DEF TopList
    <3>8. /\ free_list_len' \in [Workers -> 0 .. FillFreeSize]
          /\ \A v \in Workers : v # w => free_list_len'[v] = free_list_len[v]
      BY <3>1, <3>4 DEF IInv, Types
    <3>9. /\ local_free_list' \in [Workers -> Node \cup {NULL}]
          /\ \A v \in Workers : v # w => local_free_list'[v] = local_free_list[v]
      BY <3>1, <3>3 DEF IInv, Types
    <3>10. /\ local_last_node' \in [Workers -> Node \cup {NULL}]
           /\ \A v \in Workers : v # w => local_last_node'[v] = local_last_node[v]
      BY <3>1 DEF IInv, Types
    <3> QED BY <3>7, <3>8, <3>9, <3>10
  <2>2. CASE ~(Len(s) - 1 >= L)
    <3>1. UNCHANGED localVars
      BY <1>2, <2>2 DEF Pop
    <3>2. Len(s) <= L /\ Len(stack'[w]) <= L /\ stack'[w] \in Seq(Node)
      BY <1>2, <1>5, <1>6, <2>2, Sizes
    <3>3. free_list_len[w] = 0 /\ local_free_list[w] = NULL /\ local_last_node[w] = NULL
      BY <1>2, <1>13, <3>2, TopShort
    <3>4. TopList(stack'[w], next', free_list_len'[w], local_free_list'[w],
                  local_last_node'[w], NULL)
      BY <3>1, <3>2, <3>3, TopShort DEF localVars
    <3> QED BY <3>1, <3>4 DEF localVars, IInv, Types
  <2> QED BY <2>1, <2>2
<1>15. pc'[w] = "run" /\ \A v \in Workers : v # w => pc'[v] = pc[v]
  BY <1>3 DEF IInv, Types
<1>16. Local(w)'
  <2>1. Fill(stack'[w], pc'[w])
    BY <1>2, <1>6, <1>12, <1>15, Sizes DEF Local, Fill
  <2> QED BY <1>14, <1>15, <2>1 DEF Local
<1>17. ASSUME NEW v \in Workers, v # w
       PROVE  Local(v)'
  <2>1. \A i \in 1 .. Len(stack[v]) : stack[v][i] \in Node /\ stack[v][i] # n
    BY <1>5, <1>9, <1>17 DEF IInv, Types
  <2>2. \A i \in 1 .. Len(stack[v]) : next'[stack[v][i]] = next[stack[v][i]]
    BY <1>11, <2>1
  <2>3. Local(v) /\ stack[v] \in Seq(Node) /\ freelist' = freelist
    BY <1>3 DEF IInv, Types, Locals, globalVars
  <2> QED BY <1>5, <1>14, <1>15, <1>17, <2>2, <2>3, KeepLocal
<1>18. Locals'
  BY <1>16, <1>17 DEF Locals
<1>19. ChainIs(freelist', next', g)
  <2>1. \A i \in 1 .. Len(g) : next'[g[i]] = next[g[i]]
    BY <1>2, <1>10, <1>11
  <2>2. ChainIs(freelist, next, g) /\ freelist' = freelist
    BY <1>1, <1>3 DEF Global, globalVars
  <2> QED BY <2>1, <2>2, KeepChain
<1>20. Counted(g)'
  <2>1. Counted(g)
    BY <1>1 DEF Global
  <2> QED BY <1>3, <1>5, <1>15, <2>1 DEF Counted, globalVars
<1>21. LockHeldInside'
  BY <1>2, <1>3, <1>15 DEF IInv, LockHeldInside
<1>22. Types'
  BY <1>2, <1>3, <1>5, <1>14 DEF IInv, Types, globalVars
<1> QED BY <1>8, <1>18, <1>19, <1>20, <1>21, <1>22 DEF IInv, Global

\* Who is inside the lock is alone there.
LEMMA Alone ==
  ASSUME LockHeldInside, NEW w \in Workers, pc[w] \in {"take", "grow", "splice"}
  PROVE  spin_lock = w /\ \A v \in Workers : v # w => pc[v] \notin {"take", "grow", "splice"}
BY DEF LockHeldInside

LEMMA Outside ==
  ASSUME LockHeldInside, spin_lock = NoOwner
  PROVE  \A v \in Workers : pc[v] \notin {"take", "grow", "splice"}
BY Sizes DEF LockHeldInside

LEMMA FillLockInv ==
  ASSUME IInv, NEW w \in Workers, FillLock(w)
  PROVE  IInv'
<1>1. PICK g \in Seq(Node) : Global(g)
  BY DEF IInv
<1>2. /\ spin_lock = NoOwner /\ stack[w] = <<>> /\ pc[w] = "run"
      /\ spin_lock' = w /\ UNCHANGED <<next, globalVars, stack, localVars, held>>
      /\ pc' = [pc EXCEPT ![w] = IF free_cnt = 0 THEN "grow" ELSE "take"]
  BY DEF FillLock, SpinFree
<1>3. /\ pc' \in [Workers -> {"run", "pop", "take", "grow", "recycle", "splice"}]
      /\ pc'[w] = IF free_cnt = 0 THEN "grow" ELSE "take"
      /\ \A v \in Workers : v # w => pc'[v] = pc[v]
  BY <1>2 DEF IInv, Types
<1>4. \A v \in Workers : pc[v] \notin {"take", "grow", "splice"}
  BY <1>2, Outside DEF IInv
<1>5. LockHeldInside'
  <2> SUFFICES ASSUME NEW v \in Workers
               PROVE  spin_lock' = v <=> pc'[v] \in {"take", "grow", "splice"}
    BY DEF LockHeldInside
  <2>1. CASE v = w
    BY <1>2, <1>3, <2>1
  <2>2. CASE v # w
    BY <1>2, <1>3, <1>4, <2>2
  <2> QED BY <2>1, <2>2
<1>6. Types'
  BY <1>2, <1>3 DEF IInv, Types, globalVars, localVars
<1>7. Local(w)'
  <2>1. Local(w) /\ Len(stack'[w]) = 0
    BY <1>2 DEF IInv, Locals
  <2>2. Fill(stack'[w], pc'[w])
    BY <1>3, <2>1, Num DEF Fill
  <2>3. TopList(stack'[w], next', free_list_len'[w], local_free_list'[w],
                local_last_node'[w], NULL)
    BY <1>2, <2>1 DEF Local, localVars
  <2> QED BY <1>3, <2>2, <2>3 DEF Local
<1>8. ASSUME NEW v \in Workers, v # w
      PROVE  Local(v)'
  <2>1. Local(v) /\ stack[v] \in Seq(Node)
    BY DEF IInv, Locals, Types
  <2> QED BY <1>2, <1>3, <1>8, <2>1, KeepLocal DEF globalVars, localVars
<1>9. Counted(g)'
  <2>1. free_cnt = Len(g) /\ Len(g) \in Nat /\ (Len(g) = 0 <=> g = <<>>)
    BY <1>1, <1>2 DEF Global, Counted
  <2>2. free_cnt' = free_cnt /\ Len(stack'[w]) = 0 /\ spin_lock' # NoOwner
    BY <1>2, Sizes DEF globalVars
  <2> SUFFICES ASSUME NEW v \in Workers
               PROVE  /\ pc'[v] = "take" => free_cnt' = Len(g) + Len(stack'[v])
                      /\ pc'[v] = "grow" => g = <<>> /\ free_cnt' = 0
                      /\ pc'[v] = "splice" => free_cnt' = Len(g)
    BY <2>2 DEF Counted
  <2>3. CASE v = w
    BY <1>3, <2>1, <2>2, <2>3
  <2>4. CASE v # w
    BY <1>3, <1>4, <2>4
  <2> QED BY <2>3, <2>4
<1>10. ChainIs(freelist', next', g) /\ Home(stack', g, held', total_cnt')
  BY <1>1, <1>2 DEF Global, globalVars
<1>11. Locals'
  BY <1>7, <1>8 DEF Locals
<1> QED BY <1>5, <1>6, <1>9, <1>10, <1>11 DEF IInv, Global

LEMMA FillTakeInv ==
  ASSUME IInv, NEW w \in Workers, FillTake(w)
  PROVE  IInv'
<1> DEFINE s == stack[w]
<1>1. PICK g \in Seq(Node) : Global(g)
  BY DEF IInv
<1>2. /\ pc[w] = "take" /\ freelist # NULL /\ Len(s) < F
      /\ stack' = [stack EXCEPT ![w] = Append(s, freelist)]
      /\ freelist' = next[freelist]
      /\ UNCHANGED <<next, free_cnt, total_cnt, pool_mem_inc_time, spin_lock,
                     localVars, pc, held>>
  BY DEF FillTake, MoreToTake
<1>3. ChainIs(freelist, next, g) /\ Home(stack, g, held, total_cnt) /\ Counted(g)
  BY <1>1 DEF Global
<1>4. g # <<>> /\ freelist = g[1] /\ Len(g) \in Nat /\ Len(g) > 0 /\ 1 \in 1 .. Len(g)
  BY <1>2, <1>3 DEF ChainIs
<1>5. /\ freelist \in Node /\ s \in Seq(Node) /\ Len(s) \in Nat
      /\ Append(s, freelist) \in Seq(Node) /\ Len(Append(s, freelist)) = Len(s) + 1
      /\ Append(s, freelist)[Len(s) + 1] = freelist
      /\ \A i \in 1 .. Len(s) : Append(s, freelist)[i] = s[i]
  BY <1>2 DEF IInv, Types
<1>6. /\ stack' \in [Workers -> Seq(Node)] /\ stack'[w] = Append(s, freelist)
      /\ \A v \in Workers : v # w => stack'[v] = stack[v]
  BY <1>2, <1>5 DEF IInv, Types
<1>7. /\ Len(stack'[w]) = Len(s) + 1 /\ stack'[w][Len(s) + 1] = freelist
      /\ \A i \in 1 .. Len(s) : stack'[w][i] = s[i]
  BY <1>5, <1>6
<1>8. Only(stack, stack', w)
  BY <1>6 DEF Only, IInv, Types
<1> DEFINE g2 == Tail(g)
<1>9. g2 \in Seq(Node) /\ Len(g2) = Len(g) - 1 /\ \A i \in 1 .. Len(g2) : g2[i] = g[i + 1]
  BY <1>4
<1> HIDE DEF g2
<1>10. (g2 = <<>> <=> Len(g) = 1) /\ Len(g2) \in Nat
  BY <1>4, <1>9
<1>11. Home(stack', g2, held', total_cnt')
  <2>1. total_cnt \in Nat /\ total_cnt' = total_cnt /\ held' = held
    BY <1>2, Room DEF IInv, Types
  <2> QED BY <1>3, <1>4, <1>7, <1>8, <1>9, <2>1, HomeTake
<1>12. ChainIs(freelist', next', g2)
  <2>1. \A i \in 1 .. Len(g) : next[g[i]] = IF i = Len(g) THEN NULL ELSE g[i + 1]
    BY <1>3 DEF ChainIs
  <2>2. freelist' = IF 1 = Len(g) THEN NULL ELSE g[2]
    <3>1. next[g[1]] = IF 1 = Len(g) THEN NULL ELSE g[1 + 1]
      BY <1>4, <2>1
    <3> QED BY <1>2, <1>4, <3>1
  <2>3. Len(g) # 1 => 1 \in 1 .. Len(g2) /\ g2[1] = g[2]
    BY <1>4, <1>9, <1>10
  <2>4. freelist' = IF g2 = <<>> THEN NULL ELSE g2[1]
    BY <1>10, <2>2, <2>3
  <2>5. ASSUME NEW i \in 1 .. Len(g2)
        PROVE  next'[g2[i]] = IF i = Len(g2) THEN NULL ELSE g2[i + 1]
    <3>1. /\ i + 1 \in 1 .. Len(g) /\ (i + 1 = Len(g) <=> i = Len(g2))
          /\ i # Len(g2) => i + 1 \in 1 .. Len(g2)
      BY <1>4, <1>9
    <3>2. next[g[i + 1]] = IF i + 1 = Len(g) THEN NULL ELSE g[(i + 1) + 1]
      BY <2>1, <3>1
    <3> QED BY <1>2, <1>9, <3>1, <3>2
  <2> QED BY <2>4, <2>5 DEF ChainIs
<1>13. \A v \in Workers : v # w => pc[v] \notin {"take", "grow", "splice"}
  BY <1>2, Alone DEF IInv
<1>14. spin_lock = w /\ w # NoOwner
  BY <1>2, Alone, Sizes DEF IInv
<1>15. Counted(g2)'
  <2>1. free_cnt = Len(g) + Len(s)
    BY <1>2, <1>3 DEF Counted
  <2>2. free_cnt' = Len(g2) + Len(stack'[w])
    BY <1>2, <1>4, <1>5, <1>7, <1>9, <2>1
  <2> SUFFICES ASSUME NEW v \in Workers
               PROVE  /\ pc'[v] = "take" => free_cnt' = Len(g2) + Len(stack'[v])
                      /\ pc'[v] = "grow" => g2 = <<>> /\ free_cnt' = 0
                      /\ pc'[v] = "splice" => free_cnt' = Len(g2)
    BY <1>2, <1>14 DEF Counted
  <2>3. CASE v = w
    BY <1>2, <2>2, <2>3
  <2>4. CASE v # w
    BY <1>2, <1>13, <2>4
  <2> QED BY <2>3, <2>4
<1>16. Local(w)'
  <2>1. Local(w)
    BY DEF IInv, Locals
  <2>2. Len(s) <= L /\ Len(stack'[w]) <= L /\ Len(stack'[w]) <= F /\ Len(stack'[w]) < L + F
    BY <1>2, <1>5, <1>7, Num
  <2>3. Fill(stack'[w], pc'[w])
    BY <1>2, <2>2, Num DEF Fill
  <2>4. free_list_len[w] = 0 /\ local_free_list[w] = NULL /\ local_last_node[w] = NULL
    BY <1>5, <2>1, <2>2, TopShort DEF Local
  <2>5. TopList(stack'[w], next', free_list_len'[w], local_free_list'[w],
                local_last_node'[w], NULL)
    BY <1>2, <1>6, <2>2, <2>4, TopShort DEF localVars
  <2> QED BY <1>2, <2>3, <2>5 DEF Local
<1>17. ASSUME NEW v \in Workers, v # w
       PROVE  Local(v)'
  <2>1. Local(v) /\ stack[v] \in Seq(Node)
    BY DEF IInv, Locals, Types
  <2> QED BY <1>2, <1>6, <1>13, <1>17, <2>1, KeepLocal DEF localVars
<1>18. Locals'
  BY <1>16, <1>17 DEF Locals
<1>19. LockHeldInside'
  BY <1>2 DEF IInv, LockHeldInside
<1>20. Types'
  <2>1. next[g[1]] \in Node \cup {NULL}
    BY <1>3, <1>4 DEF ChainIs
  <2>2. freelist' \in Node \cup {NULL}
    BY <1>2, <1>4, <2>1
  <2> QED BY <1>2, <1>6, <2>2 DEF IInv, Types, localVars
<1> QED BY <1>9, <1>11, <1>12, <1>15, <1>18, <1>19, <1>20 DEF IInv, Global

\* A step that leaves the lock with the nodes and the chains as they are.
LEMMA Leave ==
  ASSUME IInv, NEW w \in Workers, pc[w] \in {"take", "grow"},
         UNCHANGED <<next, freelist, total_cnt, pool_mem_inc_time, stack, localVars, held>>,
         spin_lock' = NoOwner, free_cnt' \in Nat, NEW p \in {"run", "pop"},
         pc' = [pc EXCEPT ![w] = p], p = "pop" => stack[w] # <<>>,
         NEW g \in Seq(Node), Global(g), free_cnt' = Len(g)
  PROVE  IInv'
<1>1. \A v \in Workers : v # w => pc[v] \notin {"take", "grow", "splice"}
  BY Alone DEF IInv
<1>2. /\ pc' \in [Workers -> {"run", "pop", "take", "grow", "recycle", "splice"}]
      /\ pc'[w] = p /\ \A v \in Workers : v # w => pc'[v] = pc[v]
  BY DEF IInv, Types
<1>3. \A v \in Workers : pc'[v] \notin {"take", "grow", "splice"}
  BY <1>1, <1>2
<1>4. LockHeldInside'
  BY <1>3, Sizes DEF LockHeldInside
<1>5. Types'
  BY <1>2 DEF IInv, Types, localVars
<1>6. Local(w)'
  <2>1. Local(w) /\ stack[w] \in Seq(Node) /\ Len(stack[w]) \in Nat
    BY DEF IInv, Locals, Types
  <2>2. Len(stack[w]) < L + F
    BY <2>1 DEF Local, Fill
  <2>3. p = "pop" => Len(stack[w]) > 0
    BY <2>1
  <2>4. Fill(stack'[w], pc'[w])
    BY <1>2, <2>1, <2>2, <2>3, Num DEF Fill
  <2>5. TopList(stack'[w], next', free_list_len'[w], local_free_list'[w],
                local_last_node'[w], NULL)
    BY <2>1 DEF Local, localVars
  <2> QED BY <1>2, <2>4, <2>5 DEF Local
<1>7. ASSUME NEW v \in Workers, v # w
      PROVE  Local(v)'
  <2>1. Local(v) /\ stack[v] \in Seq(Node)
    BY DEF IInv, Locals, Types
  <2> QED BY <1>2, <1>7, <2>1, KeepLocal DEF localVars
<1>8. Counted(g)'
  BY <1>3 DEF Counted
<1>9. ChainIs(freelist', next', g) /\ Home(stack', g, held', total_cnt')
  BY DEF Global
<1>10. Locals'
  BY <1>6, <1>7 DEF Locals
<1> QED BY <1>4, <1>5, <1>8, <1>9, <1>10 DEF IInv, Global

LEMMA FillTakenInv ==
  ASSUME IInv, NEW w \in Workers, FillTaken(w)
  PROVE  IInv'
<1>1. PICK g \in Seq(Node) : Global(g)
  BY DEF IInv
<1> DEFINE p == IF stack[w] = <<>> THEN "run" ELSE "pop"
<1>2. /\ pc[w] = "take" /\ free_cnt' = free_cnt - Len(stack[w]) /\ spin_lock' = NoOwner
      /\ pc' = [pc EXCEPT ![w] = p]
      /\ UNCHANGED <<next, freelist, total_cnt, pool_mem_inc_time, stack, localVars, held>>
  BY DEF FillTaken
<1>3. free_cnt = Len(g) + Len(stack[w]) /\ Len(g) \in Nat
  BY <1>1, <1>2 DEF Global, Counted
<1>4. Len(stack[w]) \in Nat
  BY DEF IInv, Types
<1>5. free_cnt' = Len(g) /\ free_cnt' \in Nat
  BY <1>2, <1>3, <1>4
<1>6. p \in {"run", "pop"} /\ (p = "pop" => stack[w] # <<>>)
  OBVIOUS
<1> HIDE DEF p
<1> QED BY <1>1, <1>2, <1>5, <1>6, Leave

LEMMA FillFailInv ==
  ASSUME IInv, NEW w \in Workers, FillFail(w)
  PROVE  IInv'
<1>1. PICK g \in Seq(Node) : Global(g)
  BY DEF IInv
<1>2. /\ pc[w] = "grow" /\ free_cnt' = free_cnt /\ spin_lock' = NoOwner
      /\ pc' = [pc EXCEPT ![w] = "run"]
      /\ UNCHANGED <<next, freelist, total_cnt, pool_mem_inc_time, stack, localVars, held>>
  BY DEF FillFail, unlock_on_fail, globalVars
<1>3. free_cnt = 0 /\ g = <<>>
  BY <1>1, <1>2 DEF Global, Counted
<1>4. free_cnt' = Len(g) /\ free_cnt' \in Nat
  BY <1>2, <1>3
<1>5. "run" \in {"run", "pop"} /\ "run" # "pop"
  OBVIOUS
<1> QED BY <1>1, <1>2, <1>4, <1>5, Leave

LEMMA FillGrowInv ==
  ASSUME IInv, NEW w \in Workers, FillGrow(w)
  PROVE  IInv'
<1> DEFINE new == [i \in 1 .. F |-> total_cnt + i]
<1>1. PICK g \in Seq(Node) : Global(g)
  BY DEF IInv
<1>2. /\ pc[w] = "grow" /\ pool_mem_inc_time < IncMax
      /\ stack' = [stack EXCEPT ![w] = new]
      /\ total_cnt' = total_cnt + F /\ pool_mem_inc_time' = pool_mem_inc_time + 1
      /\ spin_lock' = NoOwner /\ pc' = [pc EXCEPT ![w] = "pop"]
      /\ UNCHANGED <<next, freelist, free_cnt, localVars, held>>
  BY DEF FillGrow, MayGrow
<1>3. ChainIs(freelist, next, g) /\ Home(stack, g, held, total_cnt) /\ Counted(g)
  BY <1>1 DEF Global
<1>4. /\ pool_mem_inc_time \in 0 .. IncMax /\ pool_mem_inc_time' \in 0 .. IncMax
      /\ total_cnt \in Nat /\ total_cnt' <= MaxNodes
      /\ total_cnt' = InitSize + F * pool_mem_inc_time'
  <2>1. pool_mem_inc_time \in 0 .. IncMax /\ total_cnt = InitSize + F * pool_mem_inc_time
    BY DEF IInv, Types
  <2>2. /\ InitSize + F * pool_mem_inc_time \in Nat
        /\ InitSize + F * (pool_mem_inc_time + 1) = InitSize + F * pool_mem_inc_time + F
        /\ InitSize + F * pool_mem_inc_time + F <= MaxNodes
    BY <1>2, <2>1, Room
  <2>3. pool_mem_inc_time' \in 0 .. IncMax
    BY <1>2, <2>1, Sizes
  <2> QED BY <1>2, <2>1, <2>2, <2>3
<1>5. new \in Seq(Node) /\ Len(new) = F /\ \A i \in 1 .. F : new[i] = total_cnt + i
  <2>1. \A i \in 1 .. F : total_cnt + i \in Node
    BY <1>2, <1>4, Num, Sizes DEF Node
  <2> QED BY <2>1, Num
<1> HIDE DEF new
<1>6. /\ stack' \in [Workers -> Seq(Node)] /\ stack'[w] = new
      /\ \A v \in Workers : v # w => stack'[v] = stack[v]
  BY <1>2, <1>5 DEF IInv, Types
<1>7. Only(stack, stack', w)
  BY <1>6 DEF Only, IInv, Types
<1>8. Local(w) /\ stack[w] \in Seq(Node) /\ Len(stack[w]) = 0
  BY <1>2 DEF IInv, Locals, Local, Fill, Types
<1>9. Home(stack', g, held', total_cnt')
  <2>1. Len(g) \in Nat /\ total_cnt \in Nat /\ F \in Nat /\ held' = held
    BY <1>2, <1>4, Num
  <2>2. Len(stack'[w]) = F /\ \A i \in 1 .. F : stack'[w][i] = total_cnt + i
    BY <1>5, <1>6
  <2>3. Home(stack', g, held, total_cnt + F)
    BY <1>3, <1>7, <1>8, <2>1, <2>2, HomeGrow
  <2> QED BY <1>2, <2>1, <2>3
<1>10. ChainIs(freelist', next', g)
  BY <1>2, <1>3
<1>11. \A v \in Workers : v # w => pc[v] \notin {"take", "grow", "splice"}
  BY <1>2, Alone DEF IInv
<1>12. /\ pc' \in [Workers -> {"run", "pop", "take", "grow", "recycle", "splice"}]
       /\ pc'[w] = "pop" /\ \A v \in Workers : v # w => pc'[v] = pc[v]
  BY <1>2 DEF IInv, Types
<1>13. \A v \in Workers : pc'[v] \notin {"take", "grow", "splice"}
  BY <1>11, <1>12
<1>14. Counted(g)'
  <2>1. free_cnt' = Len(g)
    BY <1>2, <1>3 DEF Counted
  <2> QED BY <1>13, <2>1 DEF Counted
<1>15. LockHeldInside'
  BY <1>2, <1>13, Sizes DEF LockHeldInside
<1>16. Local(w)'
  <2>1. Len(stack'[w]) <= L /\ Len(stack'[w]) > 0 /\ Len(stack'[w]) < L + F
    BY <1>5, <1>6, Num
  <2>2. Fill(stack'[w], pc'[w])
    BY <1>12, <2>1, Num DEF Fill
  <2>3. free_list_len[w] = 0 /\ local_free_list[w] = NULL /\ local_last_node[w] = NULL
    BY <1>8, Num, TopShort DEF Local
  <2>4. TopList(stack'[w], next', free_list_len'[w], local_free_list'[w],
                local_last_node'[w], NULL)
    BY <1>2, <1>6, <2>1, <2>3, TopShort DEF localVars
  <2> QED BY <1>12, <2>2, <2>4 DEF Local
<1>17. ASSUME NEW v \in Workers, v # w
       PROVE  Local(v)'
  <2>1. Local(v) /\ stack[v] \in Seq(Node)
    BY DEF IInv, Locals, Types
  <2> QED BY <1>2, <1>6, <1>12, <1>17, <2>1, KeepLocal DEF localVars
<1>18. Locals'
  BY <1>16, <1>17 DEF Locals
<1>19. Types'
  BY <1>2, <1>4, <1>6, <1>12 DEF IInv, Types, localVars
<1> QED BY <1>9, <1>10, <1>14, <1>15, <1>18, <1>19 DEF IInv, Global

LEMMA FreeInv ==
  ASSUME IInv, NEW w \in Workers, NEW n \in Node, Free(w, n)
  PROVE  IInv'
<1> DEFINE s == stack[w]
<1>1. PICK g \in Seq(Node) : Global(g)
  BY DEF IInv
<1>2. /\ pc[w] = "run" /\ n \in held /\ held' = held \ {n}
      /\ stack' = [stack EXCEPT ![w] = Append(s, n)]
      /\ UNCHANGED <<globalVars, spin_lock>>
  BY DEF Free
<1>3. /\ s \in Seq(Node) /\ Len(s) \in Nat /\ Append(s, n) \in Seq(Node)
      /\ Len(Append(s, n)) = Len(s) + 1 /\ Append(s, n)[Len(s) + 1] = n
      /\ \A i \in 1 .. Len(s) : Append(s, n)[i] = s[i]
  BY DEF IInv, Types
<1>4. /\ stack' \in [Workers -> Seq(Node)] /\ stack'[w] = Append(s, n)
      /\ \A v \in Workers : v # w => stack'[v] = stack[v]
  BY <1>2, <1>3 DEF IInv, Types
<1>5. /\ Len(stack'[w]) = Len(s) + 1 /\ stack'[w][Len(s) + 1] = n
      /\ \A i \in 1 .. Len(s) : stack'[w][i] = s[i]
  BY <1>3, <1>4
<1>6. Only(stack, stack', w)
  BY <1>4 DEF Only, IInv, Types
<1>7. ChainIs(freelist, next, g) /\ Home(stack, g, held, total_cnt) /\ Counted(g)
  BY <1>1 DEF Global
<1>8. Home(stack', g, held', total_cnt')
  <2>1. total_cnt \in Nat /\ total_cnt' = total_cnt /\ Len(g) \in Nat
    BY <1>2, Room DEF IInv, Types, globalVars
  <2>2. Home(stack', g, held \ {n}, total_cnt)
    <3>1. /\ Len(stack'[w]) = Len(stack[w]) + 1 /\ stack'[w][Len(stack[w]) + 1] = n
          /\ \A i \in 1 .. Len(stack[w]) : stack'[w][i] = stack[w][i]
      BY <1>5
    <3> HIDE DEF s
    <3>2. n \in held
      BY <1>2
    <3> QED BY <1>6, <1>7, <2>1, <3>1, <3>2, HomePush
  <2> QED BY <1>2, <2>1, <2>2
<1>9. \A v \in Workers : \A i \in 1 .. Len(stack[v]) : stack[v][i] # n
  BY <1>2, <1>7 DEF Home, StacksFree
<1>10. \A i \in 1 .. Len(g) : g[i] # n
  BY <1>2, <1>7 DEF Home, ListFree
<1>11. Local(w)
  BY DEF IInv, Locals
<1>12. TopList(s, next, free_list_len[w], local_free_list[w], local_last_node[w], NULL)
  BY <1>2, <1>11 DEF Local
<1>13. Len(s) < L + F
  BY <1>2, <1>11 DEF Local, Fill
<1>14. /\ \A v \in Workers : v # w => /\ free_list_len'[v] = free_list_len[v]
                                      /\ local_free_list'[v] = local_free_list[v]
                                      /\ local_last_node'[v] = local_last_node[v]
                                      /\ pc'[v] = pc[v]
       /\ \A m \in Node : m # n => next'[m] = next[m]
       /\ next' \in [Node -> Node \cup {NULL, Junk}]
       /\ free_list_len' \in [Workers -> 0 .. FillFreeSize]
       /\ local_free_list' \in [Workers -> Node \cup {NULL}]
       /\ local_last_node' \in [Workers -> Node \cup {NULL}]
       /\ pc' \in [Workers -> {"run", "pop", "take", "grow", "recycle", "splice"}]
       /\ pc'[w] \in {"run", "recycle"}
       /\ Fill(stack'[w], pc'[w])
       /\ TopList(stack'[w], next', free_list_len'[w], local_free_list'[w],
                  local_last_node'[w], NULL)
  <2>1. CASE Len(s) + 1 > L
    <3>1. /\ next' = [next EXCEPT ![n] = local_free_list[w]]
          /\ local_free_list' = [local_free_list EXCEPT ![w] = n]
          /\ free_list_len' = [free_list_len EXCEPT ![w] = @ + 1]
          /\ local_last_node' = [local_last_node EXCEPT ![w] = IF @ = NULL THEN n ELSE @]
          /\ pc' = [pc EXCEPT ![w] = IF free_list_len[w] + 1 >= F THEN "recycle" ELSE "run"]
      BY <2>1 DEF Free, RecycleDue
    <3>2. free_list_len[w] = Len(s) - L
      BY <1>3, <1>12, <2>1, Num DEF TopList
    <3>3. free_list_len[w] + 1 = Len(s) + 1 - L /\ free_list_len[w] + 1 \in 0 .. F
      BY <1>3, <1>13, <2>1, <3>2, Num
    <3>4. /\ next'[n] = local_free_list[w] /\ local_free_list'[w] = n
          /\ free_list_len'[w] = Len(s) + 1 - L
          /\ local_last_node'[w] = IF local_last_node[w] = NULL THEN n ELSE local_last_node[w]
          /\ pc'[w] = IF Len(s) + 1 - L >= F THEN "recycle" ELSE "run"
      BY <3>1, <3>3 DEF IInv, Types
    <3>5. local_last_node'[w] = stack'[w][L + 1]
      <4>1. CASE Len(s) > L
        <5>1. L + 1 \in 1 .. Len(s)
          BY <1>3, <4>1, Num
        <5>2. local_last_node[w] = s[L + 1] /\ s[L + 1] # NULL
          BY <1>3, <1>12, <4>1, <5>1, Sizes DEF TopList
        <5> QED BY <1>5, <3>4, <5>1, <5>2
      <4>2. CASE ~(Len(s) > L)
        <5>1. Len(s) = L
          BY <1>3, <2>1, <4>2, Num
        <5>2. local_last_node[w] = NULL
          BY <1>12, <4>2 DEF TopList
        <5> QED BY <1>5, <3>4, <5>1, <5>2
      <4> QED BY <4>1, <4>2
    <3>6. ASSUME NEW i \in L + 1 .. Len(stack'[w])
          PROVE  next'[stack'[w][i]] = IF i > L + 1 THEN stack'[w][i - 1] ELSE NULL
      <4>1. CASE i = Len(s) + 1
        <5>1. stack'[w][i] = n /\ next'[n] = local_free_list[w]
          BY <1>5, <3>4, <4>1
        <5>2. (i > L + 1 <=> Len(s) > L) /\ i - 1 = Len(s)
          BY <1>3, <4>1, Num
        <5>3. local_free_list[w] = IF Len(s) > L THEN s[Len(s)] ELSE NULL
          BY <1>12 DEF TopList
        <5>4. Len(s) > L => Len(s) \in 1 .. Len(s)
          BY <1>3, Num
        <5> QED BY <1>5, <5>1, <5>2, <5>3, <5>4
      <4>2. CASE i # Len(s) + 1
        <5>1. i \in L + 1 .. Len(s) /\ i \in 1 .. Len(s) /\ (i > L + 1 => i - 1 \in 1 .. Len(s))
          BY <1>3, <1>5, <4>2, Num
        <5>2. stack'[w][i] = s[i] /\ s[i] \in Node /\ s[i] # n
          BY <1>3, <1>5, <1>9, <5>1
        <5>3. next'[s[i]] = next[s[i]]
          BY <3>1, <5>2 DEF IInv, Types
        <5>4. next[s[i]] = IF i > L + 1 THEN s[i - 1] ELSE NULL
          BY <1>12, <5>1 DEF TopList
        <5> QED BY <1>5, <5>1, <5>2, <5>3, <5>4
      <4> QED BY <4>1, <4>2
    <3>7. Len(stack'[w]) > L
      BY <1>5, <2>1
    <3>8. TopList(stack'[w], next', free_list_len'[w], local_free_list'[w],
                  local_last_node'[w], NULL)
      <4>1. free_list_len'[w] = Len(stack'[w]) - L /\ local_free_list'[w] = stack'[w][Len(stack'[w])]
        <5>1. Len(stack'[w]) = Len(s) + 1 /\ stack'[w][Len(s) + 1] = n
          BY <1>5
        <5>2. free_list_len'[w] = Len(s) + 1 - L /\ local_free_list'[w] = n
          BY <3>4
        <5> HIDE DEF s
        <5> QED BY <5>1, <5>2, <1>3, Num
      <4> HIDE DEF s
      <4> QED BY <3>5, <3>6, <3>7, <4>1 DEF TopList
    <3>9. Fill(stack'[w], pc'[w])
      <4>1. Len(s) + 1 <= L + F /\ (Len(s) + 1 - L >= F <=> Len(s) + 1 = L + F)
        BY <1>3, <1>13, Num
      <4>2. pc'[w] = IF Len(stack'[w]) = L + F THEN "recycle" ELSE "run"
        BY <1>5, <3>4, <4>1
      <4>3. Len(stack'[w]) <= L + F /\ Len(stack'[w]) \in Nat
        BY <1>3, <1>5, <4>1
      <4> QED BY <4>2, <4>3, Num DEF Fill
    <3>10. local_free_list[w] \in Node \cup {NULL}
      BY DEF IInv, Types
    <3>11. next' \in [Node -> Node \cup {NULL, Junk}] /\ \A m \in Node : m # n => next'[m] = next[m]
      BY <3>1, <3>10 DEF IInv, Types
    <3>12. /\ free_list_len' \in [Workers -> 0 .. FillFreeSize]
           /\ \A v \in Workers : v # w => free_list_len'[v] = free_list_len[v]
      BY <3>1, <3>3 DEF IInv, Types
    <3>13. /\ local_free_list' \in [Workers -> Node \cup {NULL}]
           /\ \A v \in Workers : v # w => local_free_list'[v] = local_free_list[v]
      BY <3>1 DEF IInv, Types
    <3>14. /\ local_last_node' \in [Workers -> Node \cup {NULL}]
           /\ \A v \in Workers : v # w => local_last_node'[v] = local_last_node[v]
      BY <3>1 DEF IInv, Types
    <3>15. /\ pc' \in [Workers -> {"run", "pop", "take", "grow", "recycle", "splice"}]
           /\ \A v \in Workers : v # w => pc'[v] = pc[v]
           /\ pc'[w] \in {"run", "recycle"}
      BY <3>1 DEF IInv, Types
    <3> QED BY <3>8, <3>9, <3>11, <3>12, <3>13, <3>14, <3>15
  <2>2. CASE ~(Len(s) + 1 > L)
    <3>1. UNCHANGED <<next, localVars, pc>>
      BY <2>2 DEF Free
    <3>2. Len(s) <= L /\ Len(stack'[w]) <= L /\ stack'[w] \in Seq(Node)
      BY <1>3, <1>4, <1>5, <2>2, Num
    <3>3. free_list_len[w] = 0 /\ local_free_list[w] = NULL /\ local_last_node[w] = NULL
      BY <1>3, <1>12, <3>2, TopShort
    <3>4. TopList(stack'[w], next', free_list_len'[w], local_free_list'[w],
                  local_last_node'[w], NULL)
      BY <3>1, <3>2, <3>3, TopShort DEF localVars
    <3>5. Fill(stack'[w], pc'[w])
      <4>1. Len(stack'[w]) < L + F /\ pc'[w] = "run" /\ Len(stack'[w]) <= L + F
        BY <1>2, <1>3, <1>5, <3>1, <3>2, Num
      <4> QED BY <4>1 DEF Fill
    <3> QED BY <1>2, <3>1, <3>4, <3>5 DEF localVars, IInv, Types
  <2> QED BY <2>1, <2>2
<1>15. Local(w)'
  BY <1>14 DEF Local
<1>16. ASSUME NEW v \in Workers, v # w
       PROVE  Local(v)'
  <2>1. Local(v) /\ stack[v] \in Seq(Node) /\ freelist' = freelist
    BY <1>2 DEF IInv, Types, Locals, globalVars
  <2>2. \A i \in 1 .. Len(stack[v]) : stack[v][i] \in Node
    BY <2>1
  <2>3. \A i \in 1 .. Len(stack[v]) : next'[stack[v][i]] = next[stack[v][i]]
    BY <1>9, <1>14, <2>2
  <2> QED BY <1>4, <1>14, <1>16, <2>1, <2>3, KeepLocal
<1>17. Locals'
  BY <1>15, <1>16 DEF Locals
<1>18. ChainIs(freelist', next', g)
  <2>1. \A i \in 1 .. Len(g) : g[i] \in Node
    OBVIOUS
  <2>2. \A i \in 1 .. Len(g) : next'[g[i]] = next[g[i]]
    BY <1>10, <1>14, <2>1
  <2>3. freelist' = freelist
    BY <1>2 DEF globalVars
  <2> QED BY <1>7, <2>2, <2>3, KeepChain
<1>19. Counted(g)'
  BY <1>2, <1>4, <1>7, <1>14 DEF Counted, globalVars
<1>20. LockHeldInside'
  BY <1>2, <1>14 DEF IInv, LockHeldInside
<1>21. Types'
  BY <1>2, <1>4, <1>14 DEF IInv, Types, globalVars
<1> QED BY <1>8, <1>17, <1>18, <1>19, <1>20, <1>21 DEF IInv, Global

LEMMA RecycleLockInv ==
  ASSUME IInv, NEW w \in Workers, RecycleLock(w)
  PROVE  IInv'
<1> DEFINE s == stack[w]
           n == s[L + 1]
<1>1. PICK g \in Seq(Node) : Global(g)
  BY DEF IInv
<1>2. /\ pc[w] = "recycle" /\ spin_lock = NoOwner /\ spin_lock' = w
      /\ next' = [next EXCEPT ![local_last_node[w]] = freelist]
      /\ pc' = [pc EXCEPT ![w] = "splice"]
      /\ UNCHANGED <<globalVars, stack, localVars, held>>
  BY DEF RecycleLock, SpinFree
<1>3. Local(w) /\ s \in Seq(Node) /\ Len(s) \in Nat
  BY DEF IInv, Locals, Types
<1>4. Len(s) = L + F
  BY <1>2, <1>3 DEF Local, Fill
<1>5. L + 1 \in 1 .. Len(s) /\ Len(s) > L
  BY <1>4, Num
<1>6. TopList(s, next, free_list_len[w], local_free_list[w], local_last_node[w], NULL)
  BY <1>2, <1>3 DEF Local
<1>7. local_last_node[w] = n /\ n \in Node
  BY <1>3, <1>5, <1>6 DEF TopList
<1>8. ChainIs(freelist, next, g) /\ Home(stack, g, held, total_cnt) /\ Counted(g)
  BY <1>1 DEF Global
<1>9. /\ next' \in [Node -> Node \cup {NULL, Junk}] /\ next'[n] = freelist
      /\ \A m \in Node : m # n => next'[m] = next[m]
  BY <1>2, <1>7 DEF IInv, Types
<1>10. /\ pc' \in [Workers -> {"run", "pop", "take", "grow", "recycle", "splice"}]
       /\ pc'[w] = "splice" /\ \A v \in Workers : v # w => pc'[v] = pc[v]
  BY <1>2 DEF IInv, Types
<1>11. \A v \in Workers : pc[v] \notin {"take", "grow", "splice"}
  BY <1>2, Outside DEF IInv
<1>12. LockHeldInside'
  <2> SUFFICES ASSUME NEW v \in Workers
               PROVE  spin_lock' = v <=> pc'[v] \in {"take", "grow", "splice"}
    BY DEF LockHeldInside
  <2>1. CASE v = w
    BY <1>2, <1>10, <2>1
  <2>2. CASE v # w
    BY <1>2, <1>10, <1>11, <2>2
  <2> QED BY <2>1, <2>2
<1>13. Local(w)'
  <2>1. Fill(stack'[w], pc'[w])
    BY <1>2, <1>4, <1>10, Num DEF Fill
  <2>2. ASSUME NEW i \in L + 1 .. Len(s)
        PROVE  next'[s[i]] = IF i > L + 1 THEN s[i - 1] ELSE freelist
    <3>1. i \in 1 .. Len(s) /\ s[i] \in Node
      BY <1>3, Num
    <3>2. CASE i = L + 1
      BY <1>9, <3>2
    <3>3. CASE i # L + 1
      <4>1. i > L + 1
        BY <3>3, Num
      <4>2. s[i] # n
        BY <1>5, <1>8, <3>1, <3>3 DEF Home, StacksApart
      <4>3. next[s[i]] = s[i - 1]
        BY <1>6, <4>1 DEF TopList
      <4> QED BY <1>9, <3>1, <4>1, <4>2, <4>3
    <3> QED BY <3>2, <3>3
  <2>3. TopList(s, next', free_list_len[w], local_free_list[w], local_last_node[w], freelist)
    BY <1>6, <2>2 DEF TopList
  <2> QED BY <1>2, <1>10, <2>1, <2>3 DEF Local, localVars, globalVars
<1>14. ASSUME NEW v \in Workers, v # w
       PROVE  Local(v)'
  <2>1. Local(v) /\ stack[v] \in Seq(Node)
    BY DEF IInv, Types, Locals
  <2>2. \A i \in 1 .. Len(stack[v]) : stack[v][i] \in Node
    BY <2>1
  <2>3. \A i \in 1 .. Len(stack[v]) : stack[v][i] # n
    BY <1>5, <1>8, <1>14 DEF Home, StacksApart
  <2>4. \A i \in 1 .. Len(stack[v]) : next'[stack[v][i]] = next[stack[v][i]]
    BY <1>9, <2>2, <2>3
  <2> QED BY <1>2, <1>10, <1>14, <2>1, <2>4, KeepLocal DEF localVars, globalVars
<1>15. Locals'
  BY <1>13, <1>14 DEF Locals
<1>16. ChainIs(freelist', next', g)
  <2>1. \A i \in 1 .. Len(g) : g[i] \in Node
    OBVIOUS
  <2>2. \A i \in 1 .. Len(g) : g[i] # n
    BY <1>5, <1>8 DEF Home, ListOff
  <2>3. \A i \in 1 .. Len(g) : next'[g[i]] = next[g[i]]
    BY <1>9, <2>1, <2>2
  <2>4. freelist' = freelist
    BY <1>2 DEF globalVars
  <2> QED BY <1>8, <2>3, <2>4, KeepChain
<1>17. Counted(g)'
  <2>1. free_cnt' = Len(g) /\ spin_lock' # NoOwner
    BY <1>2, <1>8, Sizes DEF Counted, globalVars
  <2>2. \A v \in Workers : pc'[v] \notin {"take", "grow"}
    BY <1>10, <1>11
  <2> QED BY <2>1, <2>2 DEF Counted
<1>18. Home(stack', g, held', total_cnt')
  BY <1>2, <1>8 DEF globalVars
<1>19. Types'
  BY <1>2, <1>9, <1>10 DEF IInv, Types, globalVars, localVars
<1> QED BY <1>12, <1>15, <1>16, <1>17, <1>18, <1>19 DEF IInv, Global

LEMMA RecycleSpliceInv ==
  ASSUME IInv, NEW w \in Workers, RecycleSplice(w)
  PROVE  IInv'
<1> DEFINE s == stack[w]
           s2 == SubSeq(s, 1, Len(s) - F)
<1>1. PICK g \in Seq(Node) : Global(g)
  BY DEF IInv
<1>2. /\ pc[w] = "splice" /\ freelist' = local_free_list[w] /\ free_cnt' = free_cnt + F
      /\ spin_lock' = NoOwner /\ stack' = [stack EXCEPT ![w] = s2]
      /\ local_free_list' = [local_free_list EXCEPT ![w] = NULL]
      /\ local_last_node' = [local_last_node EXCEPT ![w] = NULL]
      /\ free_list_len' = [free_list_len EXCEPT ![w] = 0]
      /\ pc' = [pc EXCEPT ![w] = "run"]
      /\ UNCHANGED <<next, total_cnt, pool_mem_inc_time, held>>
  BY DEF RecycleSplice, FreeCntAfterRecycle
<1>3. Local(w) /\ s \in Seq(Node) /\ Len(s) \in Nat /\ Len(g) \in Nat
  BY DEF IInv, Locals, Types
<1>4. Len(s) = L + F
  BY <1>2, <1>3 DEF Local, Fill
<1>5. s2 \in Seq(Node) /\ Len(s2) = L /\ \A i \in 1 .. L : s2[i] = s[i]
  <2>1. Len(s) - F = L /\ L \in 0 .. Len(s)
    BY <1>4, Num
  <2> QED BY <1>3, <2>1, Num
<1> HIDE DEF s2
<1>6. TopList(s, next, free_list_len[w], local_free_list[w], local_last_node[w], freelist)
  BY <1>2, <1>3 DEF Local
<1>7. ChainIs(freelist, next, g) /\ Home(stack, g, held, total_cnt) /\ Counted(g)
  BY <1>1 DEF Global
<1>8. PICK g2 \in Seq(Node) :
        /\ Len(g2) = F + Len(g) /\ Len(g2) > 0 /\ g2 # <<>>
        /\ \A i \in 1 .. Len(g2) : g2[i] = IF i <= F THEN s[L + F + 1 - i] ELSE g[i - F]
  <2> DEFINE G == [i \in 1 .. F + Len(g) |-> IF i <= F THEN s[L + F + 1 - i] ELSE g[i - F]]
  <2>1. ASSUME NEW i \in 1 .. F + Len(g)
        PROVE  (IF i <= F THEN s[L + F + 1 - i] ELSE g[i - F]) \in Node
    <3>1. CASE i <= F
      <4>1. L + F + 1 - i \in 1 .. Len(s)
        BY <1>3, <1>4, <3>1, Num
      <4> QED BY <1>3, <3>1, <4>1
    <3>2. CASE ~(i <= F)
      <4>1. i - F \in 1 .. Len(g)
        BY <1>3, <3>2, Num
      <4> QED BY <3>2, <4>1
    <3> QED BY <3>1, <3>2
  <2>2. F + Len(g) \in Nat /\ F + Len(g) > 0
    BY <1>3, Num
  <2>3. G \in Seq(Node) /\ Len(G) = F + Len(g)
    BY <2>1, <2>2
  <2>4. \A i \in 1 .. F + Len(g) : G[i] = IF i <= F THEN s[L + F + 1 - i] ELSE g[i - F]
    OBVIOUS
  <2> HIDE DEF G
  <2> QED BY <2>2, <2>3, <2>4
<1>9. /\ stack' \in [Workers -> Seq(Node)] /\ stack'[w] = s2
      /\ \A v \in Workers : v # w => stack'[v] = stack[v]
  BY <1>2, <1>5 DEF IInv, Types
<1>10. Only(stack, stack', w)
  BY <1>9 DEF Only, IInv, Types
<1>11. Home(stack', g2, held', total_cnt')
  <2>1. total_cnt \in Nat /\ total_cnt' = total_cnt /\ held' = held
    BY <1>2, Room DEF IInv, Types
  <2>2. F <= Len(stack[w]) /\ Len(stack'[w]) = Len(stack[w]) - F
    BY <1>4, <1>5, <1>9, Num
  <2>3. \A i \in 1 .. Len(stack'[w]) : stack'[w][i] = stack[w][i]
    BY <1>5, <1>9
  <2>4. \A i \in 1 .. Len(g2) :
          g2[i] = IF i <= F THEN stack[w][Len(stack[w]) + 1 - i] ELSE g[i - F]
    BY <1>4, <1>8
  <2> QED BY <1>3, <1>7, <1>8, <1>10, <2>1, <2>2, <2>3, <2>4, Num, HomeSplice
<1>12. ChainIs(freelist', next', g2)
  <2>1. freelist' = g2[1]
    <3>1. freelist' = s[Len(s)]
      BY <1>2, <1>4, <1>6, Num DEF TopList
    <3>2. 1 \in 1 .. Len(g2) /\ 1 <= F /\ L + F + 1 - 1 = L + F
      BY <1>3, <1>8, Num
    <3> QED BY <1>4, <1>8, <3>1, <3>2
  <2>2. ASSUME NEW i \in 1 .. Len(g2)
        PROVE  next[g2[i]] = IF i = Len(g2) THEN NULL ELSE g2[i + 1]
    <3>0. \A k \in 1 .. Len(g) : next[g[k]] = IF k = Len(g) THEN NULL ELSE g[k + 1]
      BY <1>7 DEF ChainIs
    <3>1. CASE i < F
      <4>0. i \in Nat /\ i >= 1 /\ Len(g2) = F + Len(g)
        BY <1>8
      <4>1. /\ i + 1 \in 1 .. Len(g2) /\ i # Len(g2) /\ i <= F /\ i + 1 <= F
            /\ L + F + 1 - i \in L + 1 .. Len(s) /\ L + F + 1 - i > L + 1
            /\ (L + F + 1 - i) - 1 = L + F + 1 - (i + 1)
        <5> HIDE DEF s
        <5> QED BY <1>3, <1>4, <3>1, <4>0, Num
      <4>2. g2[i] = s[L + F + 1 - i] /\ g2[i + 1] = s[L + F + 1 - (i + 1)]
        BY <1>8, <4>1
      <4>3. next[s[L + F + 1 - i]] = s[(L + F + 1 - i) - 1]
        BY <1>6, <4>1 DEF TopList
      <4> QED BY <4>1, <4>2, <4>3
    <3>2. CASE i = F
      <4>1. /\ i <= F /\ L + F + 1 - i = L + 1 /\ L + 1 \in L + 1 .. Len(s) /\ ~(L + 1 > L + 1)
        BY <1>3, <1>4, <3>2, Num
      <4>2. g2[i] = s[L + 1] /\ next[s[L + 1]] = freelist
        BY <1>6, <1>8, <4>1 DEF TopList
      <4>3. freelist = IF g = <<>> THEN NULL ELSE g[1]
        BY <1>7 DEF ChainIs
      <4>4. CASE g = <<>>
        <5>1. i = Len(g2)
          BY <1>8, <3>2, <4>4, Num
        <5> QED BY <4>2, <4>3, <4>4, <5>1
      <4>5. CASE g # <<>>
        <5>1. Len(g) > 0
          BY <1>3, <4>5
        <5>2. i # Len(g2) /\ i + 1 \in 1 .. Len(g2) /\ ~(i + 1 <= F) /\ (i + 1) - F = 1
          BY <1>3, <1>8, <3>2, <5>1, Num
        <5>3. g2[i + 1] = g[1]
          BY <1>8, <5>2
        <5> QED BY <4>2, <4>3, <4>5, <5>2, <5>3
      <4> QED BY <4>4, <4>5
    <3>3. CASE i > F
      <4>1. /\ ~(i <= F) /\ i - F \in 1 .. Len(g) /\ (i - F = Len(g) <=> i = Len(g2))
            /\ i # Len(g2) => /\ i + 1 \in 1 .. Len(g2) /\ ~(i + 1 <= F)
                              /\ (i + 1) - F = (i - F) + 1
        <5>1. i \in Nat /\ i <= Len(g2) /\ Len(g2) = F + Len(g)
          BY <1>8
        <5> QED BY <1>3, <3>3, <5>1, Num
      <4>2. g2[i] = g[i - F]
        BY <1>8, <4>1
      <4>3. i # Len(g2) => g2[i + 1] = g[(i - F) + 1]
        BY <1>8, <4>1
      <4>4. next[g[i - F]] = IF i - F = Len(g) THEN NULL ELSE g[(i - F) + 1]
        BY <3>0, <4>1
      <4> QED BY <4>1, <4>2, <4>3, <4>4
    <3> QED BY <3>1, <3>2, <3>3, Num
  <2>3. next' = next
    BY <1>2
  <2> QED BY <1>8, <2>1, <2>2, <2>3 DEF ChainIs
<1>13. \A v \in Workers : v # w => pc[v] \notin {"take", "grow", "splice"}
  BY <1>2, Alone DEF IInv
<1>14. /\ pc' \in [Workers -> {"run", "pop", "take", "grow", "recycle", "splice"}]
       /\ pc'[w] = "run" /\ \A v \in Workers : v # w => pc'[v] = pc[v]
  BY <1>2 DEF IInv, Types
<1>15. \A v \in Workers : pc'[v] \notin {"take", "grow", "splice"}
  BY <1>13, <1>14
<1>16. LockHeldInside'
  BY <1>2, <1>15, Sizes DEF LockHeldInside
<1>17. free_cnt' = Len(g2) /\ free_cnt' \in Nat
  <2>1. free_cnt = Len(g)
    BY <1>2, <1>7 DEF Counted
  <2> QED BY <1>2, <1>3, <1>8, <2>1, Num
<1>18. Counted(g2)'
  BY <1>15, <1>17 DEF Counted
<1>19. /\ free_list_len' \in [Workers -> 0 .. FillFreeSize] /\ free_list_len'[w] = 0
       /\ \A v \in Workers : v # w => free_list_len'[v] = free_list_len[v]
  <2>1. 0 \in 0 .. FillFreeSize
    BY Num
  <2> QED BY <1>2, <2>1 DEF IInv, Types
<1>20. /\ local_free_list' \in [Workers -> Node \cup {NULL}] /\ local_free_list'[w] = NULL
       /\ \A v \in Workers : v # w => local_free_list'[v] = local_free_list[v]
       /\ local_last_node' \in [Workers -> Node \cup {NULL}] /\ local_last_node'[w] = NULL
       /\ \A v \in Workers : v # w => local_last_node'[v] = local_last_node[v]
  BY <1>2 DEF IInv, Types
<1>21. Local(w)'
  <2>1. Len(stack'[w]) <= L /\ Len(stack'[w]) < L + F /\ Len(stack'[w]) <= L + F
    BY <1>5, <1>9, Num
  <2>2. Fill(stack'[w], pc'[w])
    BY <1>14, <2>1 DEF Fill
  <2>3. TopList(stack'[w], next', free_list_len'[w], local_free_list'[w],
                local_last_node'[w], NULL)
    BY <1>9, <1>19, <1>20, <2>1, TopShort
  <2> QED BY <1>14, <2>2, <2>3 DEF Local
<1>22. ASSUME NEW v \in Workers, v # w
       PROVE  Local(v)'
  <2>1. Local(v) /\ stack[v] \in Seq(Node) /\ pc[v] # "splice" /\ next' = next
    BY <1>2, <1>13, <1>22 DEF IInv, Types, Locals
  <2> QED BY <1>9, <1>14, <1>19, <1>20, <1>22, <2>1, KeepLocal
<1>23. Locals'
  BY <1>21, <1>22 DEF Locals
<1>24. Types'
  <2>1. freelist' \in Node \cup {NULL}
    BY <1>2 DEF IInv, Types
  <2> QED BY <1>2, <1>9, <1>14, <1>17, <1>19, <1>20, <2>1 DEF IInv, Types
<1> QED BY <1>8, <1>11, <1>12, <1>16, <1>18, <1>23, <1>24 DEF IInv, Global

-----------------------------------------------------------------------------
(* The pool as sf_pool_init leaves it                                      *)

\* Induction up to n, over the members of a set
LEMMA UpTo ==
  ASSUME NEW S, NEW n \in Nat, 0 \in S, \A k \in 0..n : k < n /\ k \in S => k + 1 \in S
  PROVE  \A k \in 0..n : k \in S
<1> DEFINE Bad == {k \in 0..n : k \notin S}
           R == OpToRel(<, Nat)
<1> SUFFICES ASSUME Bad # {} PROVE FALSE
  OBVIOUS
<1>1. \E k \in Bad : \A j \in Bad : ~(<<j, k>> \in R)
  <2>1. IsWellFoundedOn(R, Nat)
    BY NatLessThanWellFounded
  <2>2. Bad \subseteq Nat
    OBVIOUS
  <2> HIDE DEF R, Bad
  <2> QED BY <2>1, <2>2, WFMin
<1>2. PICK k \in Bad : \A j \in Bad : ~(<<j, k>> \in R)
  BY <1>1
<1>3. k \in 0..n /\ k \notin S /\ k # 0
  BY <1>2
<1>4. k - 1 \in 0..n /\ k - 1 < n /\ (k - 1) + 1 = k /\ <<k - 1, k>> \in R
  BY <1>3 DEF OpToRel
<1>5. k - 1 \notin Bad
  BY <1>2, <1>4
<1> QED BY <1>3, <1>4, <1>5

\* Slices of length l: each number below k * l is in one of the first k slices.
LEMMA Slice ==
  ASSUME NEW l \in Nat, NEW n \in Nat, NEW d \in Nat, d < n * l
  PROVE  \E w \in 0 .. n - 1 : w * l <= d /\ d < w * l + l
<1> DEFINE S == {k \in 0 .. n : d < k * l => \E w \in 0 .. k - 1 : w * l <= d /\ d < w * l + l}
<1>1. 0 \in S
  <2>1. 0 * l = 0
    OBVIOUS
  <2> QED BY <2>1
<1>2. ASSUME NEW k \in 0 .. n, k < n, k \in S
      PROVE  k + 1 \in S
  <2>0. (k + 1) * l = k * l + l /\ k * l \in Nat /\ k + 1 \in 0 .. n
    BY <1>2
  <2> SUFFICES ASSUME d < (k + 1) * l
               PROVE  \E w \in 0 .. (k + 1) - 1 : w * l <= d /\ d < w * l + l
    BY <2>0
  <2>1. CASE d < k * l
    <3>1. PICK w \in 0 .. k - 1 : w * l <= d /\ d < w * l + l
      BY <1>2, <2>1
    <3>2. w \in 0 .. (k + 1) - 1
      OBVIOUS
    <3> QED BY <3>1, <3>2
  <2>2. CASE ~(d < k * l)
    <3>1. k \in 0 .. (k + 1) - 1
      OBVIOUS
    <3>2. k * l <= d /\ d < k * l + l
      BY <2>0, <2>2
    <3> QED BY <3>1, <3>2
  <2> QED BY <2>1, <2>2
<1> HIDE DEF S
<1>3. \A k \in 0 .. n : k \in S
  BY <1>1, <1>2, UpTo
<1>4. n \in S
  BY <1>3
<1> QED BY <1>4 DEF S

\* Slice w is below slice v when w < v.
LEMMA SliceOrder ==
  ASSUME NEW l \in Nat, NEW w \in Nat, NEW v \in Nat, w < v
  PROVE  w * l \in Nat /\ v * l \in Nat /\ w * l + l <= v * l
<1>1. PICK d \in Nat : v = w + 1 + d
  <2>1. v - (w + 1) \in Nat /\ v = w + 1 + (v - (w + 1))
    OBVIOUS
  <2> QED BY <2>1
<1>2. v * l = w * l + l + d * l /\ d * l \in Nat /\ w * l \in Nat
  BY <1>1
<1> QED BY <1>2

LEMMA InitInv ==
  ASSUME Init
  PROVE  IInv
<1> DEFINE N == InitSize
           c == N - NumWorkers * L
<1>0. NumWorkers \in Nat /\ NumWorkers > 0 /\ N \in Nat /\ Workers = 0 .. NumWorkers - 1
  BY SfPoolAssumption, Sizes DEF Workers
<1>1. NumWorkers * L \in Nat /\ c \in Nat /\ c + NumWorkers * L = N
  <2>1. PICK d \in Nat : InitPerWorker = L + d
    <3>1. InitPerWorker - L \in Nat /\ InitPerWorker = L + (InitPerWorker - L)
      BY SfPoolAssumption
    <3> QED BY <3>1
  <2>2. /\ NumWorkers * L \in Nat /\ d * NumWorkers \in Nat
        /\ InitPerWorker * NumWorkers = NumWorkers * L + d * NumWorkers
    BY <1>0, <2>1, Num
  <2>3. N = NumWorkers * L + d * NumWorkers
    BY <2>2 DEF InitSize
  <2> QED BY <2>2, <2>3
<1>2. ASSUME NEW w \in Workers
      PROVE  w \in Nat /\ w * L \in Nat /\ w * L + L <= NumWorkers * L
  <2>1. w \in Nat /\ w < NumWorkers
    BY <1>0
  <2> QED BY <1>0, <2>1, Num, SliceOrder
<1>3. /\ next = [n \in Node |-> IF n <= N THEN n - 1 ELSE Junk]
      /\ freelist = c /\ free_cnt = c /\ total_cnt = N /\ pool_mem_inc_time = 0
      /\ spin_lock = NoOwner
      /\ stack = [w \in Workers |-> [i \in 1 .. L |-> N - w * L - (i - 1)]]
      /\ free_list_len = [w \in Workers |-> 0] /\ local_free_list = [w \in Workers |-> NULL]
      /\ local_last_node = [w \in Workers |-> NULL] /\ pc = [w \in Workers |-> "run"]
      /\ held = {}
  BY DEF Init
<1>4. N <= MaxNodes /\ Node = 1 .. MaxNodes /\ MaxNodes \in Nat
  BY Sizes DEF Node
<1> HIDE DEF N
<1>5. ASSUME NEW w \in Workers, NEW i \in 1 .. L
      PROVE  /\ N - w * L - (i - 1) \in 1 .. N /\ N - w * L - (i - 1) > c
             /\ N - w * L - (i - 1) > N - w * L - L /\ N - w * L - (i - 1) <= N - w * L
  <2>1. w * L \in Nat /\ w * L + L <= NumWorkers * L
    BY <1>2
  <2>2. ASSUME NEW x \in Nat, NEW y \in Nat, x + L <= y, c + y = N
        PROVE  /\ N - x - (i - 1) \in 1 .. N /\ N - x - (i - 1) > c
               /\ N - x - (i - 1) > N - x - L /\ N - x - (i - 1) <= N - x
    <3> HIDE DEF c
    <3> QED BY <1>0, <1>1, <2>2, Num
  <2> QED BY <1>1, <2>1, <2>2
<1>6. \A w \in Workers : /\ stack[w] \in Seq(Node) /\ Len(stack[w]) = L
                         /\ \A i \in 1 .. L : stack[w][i] = N - w * L - (i - 1)
  <2> SUFFICES ASSUME NEW w \in Workers
               PROVE  /\ stack[w] \in Seq(Node) /\ Len(stack[w]) = L
                      /\ \A i \in 1 .. L : stack[w][i] = N - w * L - (i - 1)
    OBVIOUS
  <2>1. stack[w] = [i \in 1 .. L |-> N - w * L - (i - 1)]
    BY <1>3
  <2>2. \A i \in 1 .. L : N - w * L - (i - 1) \in Node
    BY <1>0, <1>4, <1>5
  <2> QED BY <2>1, <2>2, Num
<1>7. stack \in [Workers -> Seq(Node)]
  BY <1>3, <1>6
<1>8. Types
  <2>1. next \in [Node -> Node \cup {NULL, Junk}]
    <3>1. \A n \in Node : (IF n <= N THEN n - 1 ELSE Junk) \in Node \cup {NULL, Junk}
      BY <1>0, <1>4 DEF NULL
    <3> QED BY <1>3, <3>1
  <2>2. freelist \in Node \cup {NULL}
    <3>1. c \in Nat /\ c <= N
      <4> HIDE DEF c
      <4> QED BY <1>0, <1>1
    <3> HIDE DEF c
    <3> QED BY <1>0, <1>3, <1>4, <3>1 DEF NULL
  <2>3. total_cnt = InitSize + F * pool_mem_inc_time /\ pool_mem_inc_time \in 0 .. IncMax
    BY <1>0, <1>3, Num, Sizes DEF N
  <2>4. free_list_len \in [Workers -> 0 .. FillFreeSize]
    BY <1>3, Num
  <2>5. free_cnt \in Nat
    BY <1>1, <1>3
  <2> QED BY <1>3, <1>7, <2>1, <2>2, <2>3, <2>4, <2>5 DEF Types
<1>9. LockHeldInside
  BY <1>3, Sizes DEF LockHeldInside
<1>10. Locals
  <2> SUFFICES ASSUME NEW w \in Workers PROVE Local(w)
    BY DEF Locals
  <2>1. Len(stack[w]) = L /\ stack[w] \in Seq(Node) /\ pc[w] = "run"
    BY <1>3, <1>6
  <2>2. Fill(stack[w], pc[w])
    BY <2>1, Num DEF Fill
  <2>3. TopList(stack[w], next, free_list_len[w], local_free_list[w], local_last_node[w], NULL)
    <3>1. free_list_len[w] = 0 /\ local_free_list[w] = NULL /\ local_last_node[w] = NULL
      BY <1>3
    <3>2. Len(stack[w]) <= L
      BY <2>1, Num
    <3> QED BY <2>1, <3>1, <3>2, TopShort
  <2> QED BY <2>1, <2>2, <2>3 DEF Local
<1> DEFINE G == [i \in 1 .. c |-> c - i + 1]
<1>11. G \in Seq(Node) /\ Len(G) = c /\ \A i \in 1 .. c : G[i] = c - i + 1
  <2>0. c \in Nat /\ c <= N
    <3> HIDE DEF c
    <3> QED BY <1>0, <1>1
  <2> HIDE DEF c
  <2>1. \A i \in 1 .. c : c - i + 1 \in Node
    BY <1>0, <1>4, <2>0
  <2> QED BY <2>0, <2>1
<1> HIDE DEF G, c
<1>12. ChainIs(freelist, next, G)
  <2>1. G = <<>> <=> c = 0
    BY <1>1, <1>11
  <2>2. freelist = IF G = <<>> THEN NULL ELSE G[1]
    BY <1>1, <1>3, <1>11, <2>1 DEF NULL
  <2>3. ASSUME NEW i \in 1 .. Len(G)
        PROVE  next[G[i]] = IF i = Len(G) THEN NULL ELSE G[i + 1]
    <3>1. i \in 1 .. c /\ G[i] = c - i + 1 /\ G[i] \in Node /\ c - i + 1 <= N
      BY <1>0, <1>1, <1>11
    <3>2. next[G[i]] = c - i
      BY <1>1, <1>3, <3>1
    <3>3. i # c => i + 1 \in 1 .. c /\ G[i + 1] = c - i
      BY <1>1, <1>11, <3>1
    <3> QED BY <1>1, <1>11, <3>1, <3>2, <3>3 DEF NULL
  <2> QED BY <2>2, <2>3 DEF ChainIs
<1>13. Counted(G)
  BY <1>3, <1>11 DEF Counted
<1>14. StacksApart(stack)
  <2> SUFFICES ASSUME NEW w \in Workers, NEW v \in Workers, NEW i \in 1 .. L, NEW j \in 1 .. L,
                      stack[w][i] = stack[v][j]
               PROVE  w = v /\ i = j
    BY <1>6 DEF StacksApart
  <2>1. N - w * L - (i - 1) = N - v * L - (j - 1)
    BY <1>6
  <2>2. w \in Nat /\ v \in Nat /\ w * L \in Nat /\ v * L \in Nat
    BY <1>2
  <2>3. ASSUME NEW a \in Nat, NEW b \in Nat, NEW x \in 1 .. L, NEW y \in 1 .. L, a + L <= b
        PROVE  N - a - (x - 1) # N - b - (y - 1)
    BY <1>0, <2>3, Num
  <2>4. ~(w < v)
    BY <2>1, <2>2, <2>3, Num, SliceOrder
  <2>5. ~(v < w)
    BY <2>1, <2>2, <2>3, Num, SliceOrder
  <2>6. w = v
    BY <2>2, <2>4, <2>5
  <2>7. ASSUME NEW a \in Nat, N - a - (i - 1) = N - a - (j - 1)
        PROVE  i = j
    BY <1>0, <2>7
  <2> QED BY <2>1, <2>2, <2>6, <2>7
<1>15. StacksFree(stack, held) /\ ListFree(G, held)
  BY <1>3 DEF StacksFree, ListFree
<1>16. ListApart(G)
  BY <1>1, <1>11 DEF ListApart
<1>17. \A i \in 1 .. c : G[i] <= c /\ G[i] \in 1 .. N
  BY <1>0, <1>1, <1>11
<1>18. \A w \in Workers : \A i \in 1 .. L : stack[w][i] > c /\ stack[w][i] \in 1 .. N
  BY <1>5, <1>6
<1>19. ListOff(stack, G)
  <2> SUFFICES ASSUME NEW k \in 1 .. c, NEW w \in Workers, NEW i \in 1 .. L
               PROVE  G[k] # stack[w][i]
    BY <1>6, <1>11 DEF ListOff
  <2>1. G[k] <= c /\ G[k] \in 1 .. N /\ stack[w][i] > c /\ stack[w][i] \in 1 .. N
    BY <1>17, <1>18
  <2> QED BY <1>1, <2>1
<1>20. InPool(stack, G, held, total_cnt)
  BY <1>3, <1>6, <1>11, <1>17, <1>18 DEF InPool
<1>21. Covered(stack, G, held, total_cnt)
  <2> SUFFICES ASSUME NEW n \in 1 .. N
               PROVE  \/ \E i \in 1 .. Len(G) : G[i] = n
                      \/ \E w \in Workers : \E i \in 1 .. Len(stack[w]) : stack[w][i] = n
    BY <1>3 DEF Covered
  <2>1. CASE n <= c
    <3>1. c - n + 1 \in 1 .. c /\ c - (c - n + 1) + 1 = n
      BY <1>0, <1>1, <2>1
    <3>2. G[c - n + 1] = n
      BY <1>11, <3>1
    <3> QED BY <1>11, <3>1, <3>2
  <2>2. CASE n > c
    <3>1. N - n \in Nat /\ N - n < NumWorkers * L
      BY <1>0, <1>1, <2>2
    <3>2. PICK w \in 0 .. NumWorkers - 1 : w * L <= N - n /\ N - n < w * L + L
      BY <1>0, <3>1, Num, Slice
    <3>3. w \in Workers /\ w * L \in Nat
      BY <1>0, <1>2, <3>2
    <3>4. ASSUME NEW x \in Nat, x <= N - n, N - n < x + L
          PROVE  N - n - x + 1 \in 1 .. L /\ N - x - ((N - n - x + 1) - 1) = n
      BY <1>0, <3>4, Num
    <3>5. N - n - w * L + 1 \in 1 .. L /\ N - w * L - ((N - n - w * L + 1) - 1) = n
      BY <3>2, <3>3, <3>4
    <3>6. stack[w][N - n - w * L + 1] = n
      BY <1>6, <3>3, <3>5
    <3> QED BY <1>6, <3>3, <3>5, <3>6
  <2> QED BY <1>0, <1>1, <2>1, <2>2
<1>22. Global(G)
  BY <1>12, <1>13, <1>14, <1>15, <1>16, <1>19, <1>20, <1>21 DEF Global, Home
<1> QED BY <1>8, <1>9, <1>10, <1>11, <1>22 DEF IInv

\* The nodes, the lists through them, the stacks and the lock of a pool always
\* fit together: whatever the workers allocate and free, and in which order.
THEOREM PoolInvariance == Spec => []IInv
<1>1. Init => IInv
  BY InitInv
<1>2. IInv /\ [Next]_vars => IInv'
  <2> SUFFICES ASSUME IInv, [Next]_vars PROVE IInv'
    OBVIOUS
  <2>1. CASE UNCHANGED vars
    <3>1. /\ next' = next /\ freelist' = freelist /\ free_cnt' = free_cnt
          /\ total_cnt' = total_cnt /\ pool_mem_inc_time' = pool_mem_inc_time
          /\ spin_lock' = spin_lock /\ stack' = stack /\ free_list_len' = free_list_len
          /\ local_free_list' = local_free_list /\ local_last_node' = local_last_node
          /\ pc' = pc /\ held' = held
      BY <2>1 DEF vars, globalVars, localVars
    <3>2. Types' /\ LockHeldInside'
      BY <3>1 DEF IInv, Types, LockHeldInside
    <3>3. \A w \in Workers : Local(w)' <=> Local(w)
      BY <3>1 DEF Local
    <3>4. \A g \in Seq(Node) : Global(g)' <=> Global(g)
      BY <3>1 DEF Global, Counted
    <3> QED BY <3>2, <3>3, <3>4 DEF IInv, Locals
  <2>2. ASSUME NEW w \in Workers, Step(w)
        PROVE  IInv'
    BY <2>2, PopInv, FillTakeInv, FillTakenInv, FillGrowInv, FillFailInv, RecycleLockInv,
       RecycleSpliceInv DEF Step
  <2>3. ASSUME NEW w \in Workers, Pop(w) \/ FillLock(w) \/ \E n \in Node : Free(w, n)
        PROVE  IInv'
    BY <2>3, PopInv, FillLockInv, FreeInv
  <2> QED BY <2>1, <2>2, <2>3 DEF Next
<1> QED BY <1>1, <1>2, PTL DEF Spec

-----------------------------------------------------------------------------
(* Walking the chains                                                      *)

LEMMA WalkExists ==
  ASSUME NEW h
  PROVE  Walk(h) = [k \in 0 .. MaxNodes + 1 |->
           IF k = 0 THEN h
           ELSE IF Walk(h)[k - 1] \in Node THEN next[Walk(h)[k - 1]] ELSE Walk(h)[k - 1]]
<1> DEFINE n == MaxNodes + 1
           To(x) == IF x \in Node THEN next[x] ELSE x
           Is(f, m) == f = [k \in 0 .. m |-> IF k = 0 THEN h ELSE To(f[k - 1])]
           S == {m \in 0 .. n : \E f : Is(f, m)}
<1>0. n \in Nat
  BY Sizes
<1>1. 0 \in S
  <2> DEFINE f == [k \in 0 .. 0 |-> h]
             f2 == [k \in 0 .. 0 |-> IF k = 0 THEN h ELSE To(f[k - 1])]
  <2>1. \A k \in 0 .. 0 : f[k] = f2[k]
    OBVIOUS
  <2>2. f = f2
    BY <2>1
  <2>3. Is(f, 0)
    BY <2>2
  <2> HIDE DEF f, Is
  <2> QED BY <1>0, <2>3
<1>2. ASSUME NEW m \in 0 .. n, m < n, m \in S
      PROVE  m + 1 \in S
  <2>1. PICK f : Is(f, m)
    BY <1>2
  <2> HIDE DEF To
  <2> DEFINE e == [k \in 0 .. m + 1 |-> IF k = m + 1 THEN To(f[m]) ELSE f[k]]
  <2>2. ASSUME NEW k \in 0 .. m + 1
        PROVE  e[k] = IF k = 0 THEN h ELSE To(e[k - 1])
    <3>1. CASE k = m + 1
      <4>1. k # 0 /\ k - 1 = m /\ m \in 0 .. m + 1 /\ m # m + 1
        BY <3>1
      <4> QED BY <3>1, <4>1
    <3>2. CASE k # m + 1
      <4>1. k \in 0 .. m /\ (k # 0 => k - 1 \in 0 .. m + 1 /\ k - 1 # m + 1)
        BY <3>2
      <4>2. f[k] = IF k = 0 THEN h ELSE To(f[k - 1])
        BY <2>1, <4>1
      <4> QED BY <3>2, <4>1, <4>2
    <3> QED BY <3>1, <3>2
  <2>3. Is(e, m + 1)
    <3> DEFINE e2 == [k \in 0 .. m + 1 |-> IF k = 0 THEN h ELSE To(e[k - 1])]
    <3>1. \A k \in 0 .. m + 1 : e[k] = e2[k]
      BY <2>2
    <3>2. e = [k \in 0 .. m + 1 |-> e[k]] /\ e2 = [k \in 0 .. m + 1 |-> e2[k]]
      OBVIOUS
    <3> HIDE DEF e, e2
    <3>3. e = e2
      BY <3>1, <3>2
    <3> QED BY <3>3 DEF e2
  <2> HIDE DEF e, Is
  <2>4. m + 1 \in 0 .. n
    BY <1>0, <1>2
  <2> QED BY <2>3, <2>4
<1>3. n \in S
  <2> HIDE DEF S, n
  <2>1. \A k \in 0 .. n : k \in S
    BY <1>0, <1>1, <1>2, UpTo
  <2> QED BY <1>0, <2>1
<1>4. \E f : Is(f, n)
  <2> HIDE DEF Is
  <2> QED BY <1>3
<1> QED BY <1>4, Zenon DEF Walk

LEMMA WalkStep ==
  ASSUME NEW h
  PROVE  /\ Walk(h)[0] = h
         /\ \A k \in 0 .. MaxNodes :
              Walk(h)[k + 1] = IF Walk(h)[k] \in Node THEN next[Walk(h)[k]] ELSE Walk(h)[k]
<1> DEFINE at == Walk(h)
<1>0. MaxNodes \in Nat
  BY Sizes
<1>1. at = [k \in 0 .. MaxNodes + 1 |->
              IF k = 0 THEN h
              ELSE IF at[k - 1] \in Node THEN next[at[k - 1]] ELSE at[k - 1]]
  BY WalkExists
<1> HIDE DEF at
<1>2. \A k \in 0 .. MaxNodes + 1 : at[k] = IF k = 0 THEN h
          ELSE IF at[k - 1] \in Node THEN next[at[k - 1]] ELSE at[k - 1]
  BY <1>1, Zenon
<1>3. 0 \in 0 .. MaxNodes + 1
  BY <1>0
<1>4. ASSUME NEW k \in 0 .. MaxNodes
      PROVE  at[k + 1] = IF at[k] \in Node THEN next[at[k]] ELSE at[k]
  <2>1. k + 1 \in 0 .. MaxNodes + 1 /\ k + 1 # 0 /\ (k + 1) - 1 = k
    BY <1>0
  <2> QED BY <1>2, <2>1
<1> QED BY <1>2, <1>3, <1>4 DEF at

\* A walk meets the nodes of the chain in their order and stays at its end.
LEMMA WalkChain ==
  ASSUME NEW h, NEW g \in Seq(Node), ChainIs(h, next, g), Len(g) <= MaxNodes
  PROVE  \A k \in 0 .. MaxNodes + 1 : Walk(h)[k] = IF k < Len(g) THEN g[k + 1] ELSE NULL
<1> DEFINE at == Walk(h)
           n == MaxNodes + 1
           S == {k \in 0 .. n : at[k] = IF k < Len(g) THEN g[k + 1] ELSE NULL}
<1>0. n \in Nat /\ MaxNodes \in Nat /\ Len(g) \in Nat /\ NULL \notin Node
  BY Sizes
<1>1. at[0] = h /\ \A k \in 0 .. MaxNodes :
                     at[k + 1] = IF at[k] \in Node THEN next[at[k]] ELSE at[k]
  BY WalkStep
<1> HIDE DEF at
<1>2. 0 \in S
  <2>1. h = IF 0 < Len(g) THEN g[0 + 1] ELSE NULL
    BY <1>0 DEF ChainIs
  <2> QED BY <1>0, <1>1, <2>1
<1>3. ASSUME NEW k \in 0 .. n, k < n, k \in S
      PROVE  k + 1 \in S
  <2>0. k \in 0 .. MaxNodes /\ k + 1 \in 0 .. n
    BY <1>0, <1>3
  <2>1. at[k] = IF k < Len(g) THEN g[k + 1] ELSE NULL
    BY <1>3
  <2>2. CASE k < Len(g)
    <3>1. k + 1 \in 1 .. Len(g) /\ (k + 1 = Len(g) <=> ~(k + 1 < Len(g)))
      BY <1>0, <2>0, <2>2
    <3>2. at[k] = g[k + 1] /\ g[k + 1] \in Node
      BY <2>1, <2>2, <3>1
    <3>3. next[g[k + 1]] = IF k + 1 = Len(g) THEN NULL ELSE g[(k + 1) + 1]
      BY <3>1 DEF ChainIs
    <3>4. at[k + 1] = IF k + 1 < Len(g) THEN g[(k + 1) + 1] ELSE NULL
      BY <1>1, <2>0, <3>1, <3>2, <3>3
    <3> QED BY <2>0, <3>4
  <2>3. CASE ~(k < Len(g))
    <3>1. ~(k + 1 < Len(g))
      BY <1>0, <2>0, <2>3
    <3>2. at[k + 1] = NULL
      BY <1>0, <1>1, <2>0, <2>1, <2>3
    <3> QED BY <2>0, <3>1, <3>2
  <2> QED BY <2>2, <2>3
<1> HIDE DEF S, n
<1>4. \A k \in 0 .. n : k \in S
  BY <1>0, <1>2, <1>3, UpTo
<1> QED BY <1>4 DEF S, n, at

\* A sequence of different nodes is no longer than the pool can be large.
LEMMA Injective ==
  ASSUME NEW n \in Nat, NEW f, \A i \in 1 .. n : f[i] \in Node,
         \A i, j \in 1 .. n : f[i] = f[j] => i = j
  PROVE  n <= MaxNodes
<1> DEFINE h == [i \in 1 .. n |-> f[i]]
<1>1. h \in Injection(1 .. n, Node)
  BY DEF Injection, IsInjective
<1>2. IsFiniteSet(Node) /\ Cardinality(Node) = MaxNodes
  BY Sizes, FS_Interval DEF Node
<1>3. Cardinality(1 .. n) = n
  BY FS_Interval
<1>4. Cardinality(1 .. n) <= Cardinality(Node)
  <2> HIDE DEF h
  <2> QED BY <1>1, <1>2, FS_Injection
<1> QED BY <1>2, <1>3, <1>4

LEMMA SeqCard ==
  ASSUME NEW s, Len(s) \in Nat, \A i, j \in 1 .. Len(s) : s[i] = s[j] => i = j
  PROVE  /\ IsFiniteSet({s[i] : i \in 1 .. Len(s)})
         /\ Cardinality({s[i] : i \in 1 .. Len(s)}) = Len(s)
<1> DEFINE n == Len(s)
           T == {s[i] : i \in 1 .. n}
           h == [i \in 1 .. n |-> s[i]]
<1>0. n \in Nat /\ \A i, j \in 1 .. n : s[i] = s[j] => i = j
  OBVIOUS
<1> HIDE DEF n
<1>1. h \in Bijection(1 .. n, T)
  BY <1>0 DEF Bijection, Injection, Surjection, IsInjective
<1>2. IsFiniteSet(1 .. n) /\ Cardinality(1 .. n) = n
  BY <1>0, FS_Interval
<1> HIDE DEF h, T
<1>3. IsFiniteSet(T) /\ Cardinality(T) = Cardinality(1 .. n)
  BY <1>1, <1>2, FS_Bijection DEF ExistsBijection
<1> QED BY <1>2, <1>3 DEF T, n

-----------------------------------------------------------------------------
(* The properties of the runs                                              *)

\* The global list and a stack together are never longer than the pool.
LEMMA Fits ==
  ASSUME Types, NEW g \in Seq(Node), Home(stack, g, held, total_cnt), NEW w \in Workers
  PROVE  Len(g) + Len(stack[w]) <= MaxNodes
<1> DEFINE s == stack[w]
           n == Len(g) + Len(s)
           f == [i \in 1 .. n |-> IF i <= Len(g) THEN g[i] ELSE s[i - Len(g)]]
<1>1. Len(g) \in Nat /\ s \in Seq(Node) /\ Len(s) \in Nat /\ n \in Nat
  BY DEF Types
<1>2. /\ \A i, j \in 1 .. Len(g) : g[i] = g[j] => i = j
      /\ \A i, j \in 1 .. Len(s) : s[i] = s[j] => i = j
      /\ \A i \in 1 .. Len(g), j \in 1 .. Len(s) : g[i] # s[j]
  BY DEF Home, ListApart, StacksApart, ListOff
<1> HIDE DEF s
<1>3. ASSUME NEW i \in 1 .. n
      PROVE  \/ i \in 1 .. Len(g) /\ f[i] = g[i] /\ f[i] \in Node
             \/ ~(i <= Len(g)) /\ i - Len(g) \in 1 .. Len(s) /\ f[i] = s[i - Len(g)] /\ f[i] \in Node
  <2>1. CASE i <= Len(g)
    BY <1>1, <2>1
  <2>2. CASE ~(i <= Len(g))
    <3>1. i - Len(g) \in 1 .. Len(s)
      BY <1>1, <2>2
    <3> QED BY <1>1, <2>2, <3>1
  <2> QED BY <2>1, <2>2
<1>4. ASSUME NEW i \in 1 .. n, NEW j \in 1 .. n, f[i] = f[j]
      PROVE  i = j
  <2> HIDE DEF f
  <2>1. i - Len(g) = j - Len(g) => i = j
    <3> HIDE DEF n
    <3> QED BY <1>1
  <2> QED BY <1>2, <1>3, <1>4, <2>1
<1> HIDE DEF f, n
<1>5. n <= MaxNodes
  BY <1>1, <1>3, <1>4, Injective
<1> QED BY <1>5 DEF n, s

LEMMA GlobalWalk ==
  ASSUME IInv, NEW g \in Seq(Node), Global(g)
  PROVE  /\ Len(g) \in Nat /\ Len(g) <= MaxNodes
         /\ Chain(freelist) = {g[i] : i \in 1 .. Len(g)}
         /\ Ends(freelist)
<1>0. Types /\ Home(stack, g, held, total_cnt) /\ ChainIs(freelist, next, g)
  BY DEF IInv, Global
<1>1. Len(g) \in Nat /\ Len(g) <= MaxNodes
  <2>1. 0 \in Workers
    BY SfPoolAssumption DEF Workers
  <2>2. Len(g) + Len(stack[0]) <= MaxNodes /\ Len(stack[0]) \in Nat
    BY <1>0, <2>1, Fits DEF Types
  <2> QED BY <2>2, Sizes
<1> DEFINE at == Walk(freelist)
<1>2. \A k \in 0 .. MaxNodes + 1 : at[k] = IF k < Len(g) THEN g[k + 1] ELSE NULL
  BY <1>0, <1>1, WalkChain
<1>3. MaxNodes \in Nat /\ NULL \notin Node
  BY Sizes
<1>4. Chain(freelist) = {at[k] : k \in 0 .. MaxNodes} \cap Node
  BY DEF Chain
<1>5. Ends(freelist) <=> at[MaxNodes + 1] = NULL
  BY DEF Ends
<1> HIDE DEF at
<1>6. Ends(freelist)
  BY <1>1, <1>2, <1>3, <1>5
<1>7. ASSUME NEW n \in {at[k] : k \in 0 .. MaxNodes} \cap Node
      PROVE  n \in {g[i] : i \in 1 .. Len(g)}
  <2>1. PICK k \in 0 .. MaxNodes : n = at[k]
    BY <1>7
  <2>2. k \in 0 .. MaxNodes + 1
    BY <1>3
  <2>3. k < Len(g) /\ n = g[k + 1]
    BY <1>2, <1>3, <2>1, <2>2
  <2>4. k + 1 \in 1 .. Len(g)
    BY <1>1, <2>3
  <2> QED BY <2>3, <2>4
<1>8. ASSUME NEW i \in 1 .. Len(g)
      PROVE  g[i] \in {at[k] : k \in 0 .. MaxNodes} \cap Node
  <2>1. i - 1 \in 0 .. MaxNodes /\ i - 1 \in 0 .. MaxNodes + 1 /\ i - 1 < Len(g) /\ (i - 1) + 1 = i
    BY <1>1, <1>3
  <2>2. at[i - 1] = g[i]
    BY <1>2, <2>1
  <2>3. g[i] \in Node
    OBVIOUS
  <2> QED BY <2>1, <2>2, <2>3
<1>9. Chain(freelist) = {g[i] : i \in 1 .. Len(g)}
  BY <1>4, <1>7, <1>8
<1> QED BY <1>1, <1>6, <1>9

\* Every node of a pool is held, on one stack or on the global list, once; the
\* list ends, and free_cnt is its length whenever nobody is inside the lock.
THEOREM NodesAlwaysAccounted == Spec => []NodesAccounted
<1>1. IInv => NodesAccounted
  <2> SUFFICES ASSUME IInv PROVE NodesAccounted
    OBVIOUS
  <2>1. PICK g \in Seq(Node) : Global(g)
    BY DEF IInv
  <2> DEFINE G == {g[i] : i \in 1 .. Len(g)}
  <2>2. Len(g) \in Nat /\ Chain(freelist) = G /\ Ends(freelist)
    BY <2>1, GlobalWalk
  <2>3. Home(stack, g, held, total_cnt) /\ Counted(g)
    BY <2>1 DEF Global
  <2>4. Cardinality(G) = Len(g)
    BY <2>2, <2>3, SeqCard DEF Home, ListApart
  <2>5. FreeCntExact
    <3> HIDE DEF G
    <3> QED BY <2>2, <2>3, <2>4 DEF FreeCntExact, Counted
  <2>6. held \cap G = {}
    BY <2>3 DEF Home, ListFree
  <2>7. \A w \in Workers : Stacked(w) \cap (held \cup G) = {}
    BY <2>3 DEF Home, StacksFree, ListOff, Stacked
  <2>8. ASSUME NEW w \in Workers PROVE Cardinality(Stacked(w)) = Len(stack[w])
    <3>1. Len(stack[w]) \in Nat
      BY DEF IInv, Types
    <3>2. \A i, j \in 1 .. Len(stack[w]) : stack[w][i] = stack[w][j] => i = j
      BY <2>3 DEF Home, StacksApart
    <3> QED BY <3>1, <3>2, SeqCard DEF Stacked
  <2>9. ASSUME NEW w \in Workers, NEW v \in Workers \ {w} PROVE Stacked(w) \cap Stacked(v) = {}
    BY <2>3 DEF Home, StacksApart, Stacked
  <2>10. held \cup G \cup UNION {Stacked(w) : w \in Workers} = 1 .. total_cnt
    <3>1. ASSUME NEW n \in held \cup G \cup UNION {Stacked(w) : w \in Workers}
          PROVE  n \in 1 .. total_cnt
      <4>1. CASE n \in held
        BY <2>3, <4>1 DEF Home, InPool
      <4>2. CASE n \in G
        BY <2>3, <4>2 DEF Home, InPool
      <4>3. CASE \E w \in Workers : n \in Stacked(w)
        BY <2>3, <4>3 DEF Home, InPool, Stacked
      <4> QED BY <4>1, <4>2, <4>3
    <3>2. ASSUME NEW n \in 1 .. total_cnt
          PROVE  n \in held \cup G \cup UNION {Stacked(w) : w \in Workers}
      <4>1. \/ n \in held
            \/ \E i \in 1 .. Len(g) : g[i] = n
            \/ \E w \in Workers : \E i \in 1 .. Len(stack[w]) : stack[w][i] = n
        BY <2>3 DEF Home, Covered
      <4>2. CASE n \in held
        BY <4>2
      <4>3. CASE \E i \in 1 .. Len(g) : g[i] = n
        BY <4>3
      <4>4. CASE \E w \in Workers : \E i \in 1 .. Len(stack[w]) : stack[w][i] = n
        BY <4>4 DEF Stacked
      <4> QED BY <4>1, <4>2, <4>3, <4>4
    <3> HIDE DEF G
    <3> QED BY <3>1, <3>2
  <2> HIDE DEF G
  <2>11. NodesConserved
    BY <2>2, <2>6, <2>7, <2>8, <2>9, <2>10 DEF NodesConserved
  <2> QED BY <2>5, <2>11 DEF NodesAccounted
<1> QED BY <1>1, PoolInvariance, PTL

\* The local list of a worker, walked from its head, is the top of its stack.
LEMMA TopWalk ==
  ASSUME IInv, NEW w \in Workers, pc[w] # "splice"
  PROVE  LET top == Len(stack[w]) - LocalCacheSize
             at  == Walk(local_free_list[w])
         IN /\ free_list_len[w] = IF top > 0 THEN top ELSE 0
            /\ \A k \in 0 .. free_list_len[w] - 1 : at[k] = stack[w][Len(stack[w]) - k]
            /\ at[free_list_len[w]] = NULL
            /\ local_last_node[w] = IF top > 0 THEN stack[w][LocalCacheSize + 1] ELSE NULL
<1> DEFINE s == stack[w]
           m == free_list_len[w]
           t == [i \in 1 .. m |-> s[Len(s) + (1 - i)]]
           at == Walk(local_free_list[w])
<1>1. s \in Seq(Node) /\ Len(s) \in Nat /\ Len(s) <= L + F /\ m \in 0 .. F /\ m \in Nat
  BY Num DEF IInv, Types, Locals, Local, Fill
<1>2. TopList(s, next, m, local_free_list[w], local_last_node[w], NULL)
  BY DEF IInv, Locals, Local
<1>3. m = IF Len(s) - L > 0 THEN Len(s) - L ELSE 0
  BY <1>1, <1>2, Num DEF TopList
<1>4. m <= Len(s) /\ (m > 0 <=> Len(s) > L) /\ (m > 0 => m = Len(s) - L)
  BY <1>1, <1>3, Num
<1>5. t \in Seq(Node) /\ Len(t) = m /\ \A i \in 1 .. m : t[i] = s[Len(s) + (1 - i)]
  <2>1. \A i \in 1 .. m : Len(s) + (1 - i) \in 1 .. Len(s)
    BY <1>1, <1>4
  <2>2. \A i \in 1 .. m : s[Len(s) + (1 - i)] \in Node
    BY <1>1, <2>1
  <2> HIDE DEF s, m
  <2> QED BY <1>1, <2>2
<1> HIDE DEF t
<1>6. ChainIs(local_free_list[w], next, t)
  <2>1. t = <<>> <=> m = 0
    BY <1>1, <1>5
  <2>2. local_free_list[w] = IF t = <<>> THEN NULL ELSE t[1]
    <3>1. CASE m = 0
      BY <1>1, <1>2, <1>4, <2>1, <3>1 DEF TopList
    <3>2. CASE m # 0
      <4>1. m > 0 /\ 1 \in 1 .. m /\ Len(s) + (1 - 1) = Len(s)
        BY <1>1, <3>2
      <4>2. t[1] = s[Len(s)]
        BY <1>5, <4>1
      <4>3. local_free_list[w] = s[Len(s)]
        BY <1>2, <1>4, <4>1 DEF TopList
      <4> QED BY <2>1, <3>2, <4>2, <4>3
    <3> QED BY <3>1, <3>2
  <2>3. ASSUME NEW i \in 1 .. Len(t)
        PROVE  next[t[i]] = IF i = Len(t) THEN NULL ELSE t[i + 1]
    <3>1. i \in 1 .. m /\ m > 0 /\ m = Len(s) - L /\ i \in Nat
      BY <1>1, <1>4, <1>5
    <3>2. /\ Len(s) + (1 - i) \in L + 1 .. Len(s)
          /\ (Len(s) + (1 - i) > L + 1 <=> i # m)
          /\ (Len(s) + (1 - i)) - 1 = Len(s) + (1 - (i + 1))
          /\ i # m => i + 1 \in 1 .. m
      <4> HIDE DEF s, m
      <4> QED BY <1>1, <3>1, Num
    <3>3. t[i] = s[Len(s) + (1 - i)] /\ (i # m => t[i + 1] = s[Len(s) + (1 - (i + 1))])
      BY <1>5, <3>1, <3>2
    <3>4. next[s[Len(s) + (1 - i)]] = IF Len(s) + (1 - i) > L + 1
                                      THEN s[(Len(s) + (1 - i)) - 1] ELSE NULL
      BY <1>2, <3>2 DEF TopList
    <3> HIDE DEF s, m
    <3> QED BY <1>5, <3>2, <3>3, <3>4
  <2> QED BY <2>2, <2>3 DEF ChainIs
<1>7. Len(t) <= MaxNodes
  <2>1. PICK g \in Seq(Node) : Global(g)
    BY DEF IInv
  <2>2. Len(g) + Len(s) <= MaxNodes
    BY <2>1, Fits DEF IInv, Global
  <2> QED BY <1>1, <1>4, <1>5, <2>2, Sizes
<1>8. \A k \in 0 .. MaxNodes + 1 : at[k] = IF k < m THEN t[k + 1] ELSE NULL
  BY <1>5, <1>6, <1>7, WalkChain
<1>9. MaxNodes \in Nat
  BY Sizes
<1> HIDE DEF at, m
<1>10. at[m] = NULL
  <2>1. m \in 0 .. MaxNodes + 1 /\ ~(m < m)
    BY <1>1, <1>5, <1>7, <1>9
  <2> QED BY <1>8, <2>1
<1>11. ASSUME NEW k \in 0 .. m - 1
       PROVE  at[k] = s[Len(s) - k]
  <2> HIDE DEF s
  <2>1. k \in 0 .. MaxNodes + 1 /\ k < m /\ k + 1 \in 1 .. m /\ Len(s) + (1 - (k + 1)) = Len(s) - k
    BY <1>1, <1>5, <1>7, <1>9
  <2> QED BY <1>5, <1>8, <2>1
<1>12. local_last_node[w] = IF Len(s) - L > 0 THEN s[L + 1] ELSE NULL
  BY <1>1, <1>2, Num DEF TopList
<1> QED BY <1>3, <1>10, <1>11, <1>12 DEF m, at

\* The stack stays inside its array, the list threaded through its top is
\* exactly what a recycle gives away, and the lock is held exactly inside.
THEOREM CachesAlwaysSound == Spec => []CachesSound
<1>1. IInv => CachesSound
  <2> SUFFICES ASSUME IInv PROVE CachesSound
    OBVIOUS
  <2>1. PICK g \in Seq(Node) : Global(g)
    BY DEF IInv
  <2>2. Types /\ Home(stack, g, held, total_cnt) /\ Counted(g) /\ LockHeldInside
    BY <2>1 DEF IInv, Global
  <2>3. Len(g) \in Nat /\ Len(g) <= MaxNodes /\ MaxNodes \in Nat
    BY <2>1, GlobalWalk, Sizes
  <2>4. free_cnt \in 0 .. MaxNodes
    <3>1. CASE spin_lock = NoOwner
      BY <2>2, <2>3, <3>1 DEF Counted
    <3>2. CASE spin_lock # NoOwner
      <4>1. PICK w \in Workers : pc[w] \in {"take", "grow", "splice"}
        BY <2>2, <3>2 DEF Types, LockHeldInside
      <4>2. Len(g) + Len(stack[w]) <= MaxNodes /\ Len(stack[w]) \in Nat
        BY <2>2, Fits DEF Types
      <4>3. free_cnt \in {Len(g) + Len(stack[w]), 0, Len(g)}
        BY <2>2, <4>1 DEF Counted
      <4> QED BY <2>3, <4>2, <4>3
    <3> QED BY <3>1, <3>2
  <2>5. total_cnt \in 0 .. MaxNodes
    BY <2>2, <2>3, Room DEF Types
  <2>6. TypeOK
    BY <2>2, <2>4, <2>5 DEF Types, TypeOK
  <2>7. StackInBounds
    BY DEF IInv, Locals, Local, Fill, StackInBounds
  <2>8. ListIsStackTop
    BY TopWalk DEF ListIsStackTop
  <2> QED BY <2>2, <2>6, <2>7, <2>8 DEF CachesSound
<1> QED BY <1>1, PoolInvariance, PTL

\* An allocation comes back without a node only when the global list is empty:
\* a worker never reports the pool exhausted while there are free nodes.
THEOREM AlwaysFailsOnlyWhenEmpty == Spec => FailsOnlyWhenEmpty
<1> DEFINE A == \A w \in Workers : pc[w] \in {"take", "grow"} /\ pc'[w] = "run" => freelist = NULL
<1>1. IInv /\ [Next]_vars => [A]_vars
  <2> SUFFICES ASSUME IInv, Next, NEW w \in Workers, pc[w] \in {"take", "grow"}, pc'[w] = "run"
               PROVE  freelist = NULL
    OBVIOUS
  <2>1. PICK g \in Seq(Node) : Global(g)
    BY DEF IInv
  <2>2. PICK v \in Workers : \/ Step(v) \/ Pop(v) \/ FillLock(v)
                             \/ \E n \in Node : Free(v, n)
    BY DEF Next
  <2>3. v = w
    <3>1. \E p : pc' = [pc EXCEPT ![v] = p]
      <4>1. ASSUME UNCHANGED pc PROVE pc' = [pc EXCEPT ![v] = pc[v]]
        BY <4>1 DEF IInv, Types
      <4> QED BY <2>2, <4>1 DEF Step, Pop, FillLock, FillTake, FillTaken, FillGrow, FillFail,
                             RecycleLock, RecycleSplice, Free
    <3>2. w # v => pc'[w] = pc[w]
      BY <3>1 DEF IInv, Types
    <3> QED BY <3>2
  <2>4. FillTaken(w) \/ FillFail(w)
    <3>1. ~FillTake(w) /\ ~FillGrow(w)
      BY DEF FillTake, FillGrow, IInv, Types
    <3> QED BY <2>2, <2>3, <3>1 DEF Step, Pop, FillLock, RecycleLock, RecycleSplice, Free
  <2>5. CASE FillFail(w)
    BY <2>1, <2>5 DEF FillFail, Global, Counted, ChainIs
  <2>6. CASE FillTaken(w)
    <3>1. ~MoreToTake(w) /\ stack[w] = <<>>
      BY <2>6 DEF FillTaken, IInv, Types
    <3> QED BY <3>1, Num DEF MoreToTake
  <2> QED BY <2>4, <2>5, <2>6
<1> QED BY <1>1, PoolInvariance, PTL DEF Spec, FailsOnlyWhenEmpty

-----------------------------------------------------------------------------
(* Timers                                                                  *)

USE SfTimerAssumption

-----------------------------------------------------------------------------
(* Arithmetic                                                              *)

\* The mask on a bucket index either does nothing or goes around once.
LEMMA ModBelow ==
  ASSUME NEW M \in Nat \ {0}, NEW x \in 0 .. M - 1
  PROVE  x % M = x
  OBVIOUS

LEMMA ModAround ==
  ASSUME NEW M \in Nat \ {0}, NEW x \in M .. 2 * M - 1
  PROVE  x % M = x - M
  OBVIOUS

\* Division rounds down: nticks never claims more time than has passed.
LEMMA DivFloor ==
  ASSUME NEW U \in Nat \ {0}, NEW x \in Nat
  PROVE  x \div U \in Nat /\ (x \div U) * U <= x
  OBVIOUS

\* A later timer is due later.
LEMMA TicksTime ==
  ASSUME NEW k \in Nat \ {0}, NEW U \in Nat \ {0}
  PROVE  /\ k * U \in Nat
         /\ k * U >= U
         /\ (k - 1) * U = k * U - U
         /\ (k - 2) * U = k * U - 2 * U
  OBVIOUS

\* The index stays on the wheel.
LEMMA MaskedRange ==
  ASSUME NEW i \in 0 .. 2 * MAX_TICKS - 1
  PROVE  Masked(i) \in Buckets
  BY DEF Masked, Buckets

\* Turning the wheel by one bucket brings a slot k places ahead one place
\* nearer, and reaches it exactly when k is one.
LEMMA OneNearer ==
  ASSUME NEW p \in Buckets, NEW k \in 1 .. MAX_TICKS
  PROVE  /\ (Masked(p + 1) = Masked(p + k)) <=> k = 1
         /\ k # 1 => Masked(Masked(p + 1) + (k - 1)) = Masked(p + k)
<1> USE DEF Masked, Buckets
<1> DEFINE M == MAX_TICKS
<1>1. CASE p + 1 < M
  <2>1. (p + 1) % M = p + 1
    BY <1>1, ModBelow
  <2>2. CASE p + k < M
    <3>1. (p + k) % M = p + k
      BY <2>2, ModBelow
    <3> QED BY <2>1, <3>1
  <2>3. CASE p + k >= M
    <3>1. (p + k) % M = p + k - M
      BY <2>3, ModAround
    <3> QED BY <2>1, <2>3, <3>1, <1>1
  <2> QED BY <2>2, <2>3
<1>2. CASE p + 1 = M
  <2>1. (p + 1) % M = 0
    BY <1>2, ModAround
  <2>2. (p + k) % M = p + k - M
    BY <1>2, ModAround
  <2>3. (k - 1) % M = k - 1
    BY ModBelow
  <2> QED BY <1>2, <2>1, <2>2, <2>3
<1> QED BY <1>1, <1>2

-----------------------------------------------------------------------------
(* The inductive invariant                                                 *)

LEMMA InitIInv == TimerInit => TimerIInv
  BY DEF TimerInit, TimerIInv, TimerTypeOK, WheelInv, SlotInv, StopInv, Buckets, Places,
         Expired, Nowhere

\* Time: a stop that is not finished holds the clock back.
LEMMA TickIInv == TimerIInv /\ Tick => TimerIInv'
<1> SUFFICES ASSUME TimerIInv, Tick PROVE TimerIInv'
  OBVIOUS
<1> USE DEF TimerIInv
<1>1. TimerTypeOK'
  BY DEF TimerTypeOK, Tick, wheelVars, pollVars, timerVars
<1>2. WheelInv'
  BY DEF TimerTypeOK, WheelInv, Tick, wheelVars, pollVars
<1>3. SlotInv'
  BY DEF TimerTypeOK, SlotInv, Tick, wheelVars, timerVars, Buckets
<1>4. StopInv'
  BY DEF TimerTypeOK, StopInv, Tick, timerVars
<1> QED BY <1>1, <1>2, <1>3, <1>4

LEMMA SubmitIInv ==
  ASSUME NEW t \in Timer, NEW k \in Ticks, TimerIInv, Submit(t, k)
  PROVE  TimerIInv'
<1> USE DEF TimerIInv
<1>1. k \in 1 .. MAX_TICKS /\ k \in Nat \ {0, 1}
  BY DEF Submit
<1>2. BucketAfter(k) \in Buckets
  BY <1>1, MaskedRange DEF BucketAfter, Buckets, TimerTypeOK
<1>3. /\ SafeTime(k) = last_run_time + k * Unit - 2 * Unit
      /\ last_run_time + k * Unit \in Nat
      /\ SafeTime(k) \in Nat
  <2>1. k - 2 \in Nat
    BY <1>1
  <2>2. (k - 2) * Unit \in Nat
    BY <2>1
  <2> QED BY <1>1, <2>2, TicksTime DEF SafeTime, TimerTypeOK
<1>4. TimerTypeOK'
  BY <1>2, <1>3 DEF TimerTypeOK, Submit, wheelVars, pollVars, Places
<1>5. WheelInv'
  BY DEF WheelInv, Submit, wheelVars, pollVars
<1>6. SlotInv'
  <2> SUFFICES ASSUME NEW u \in Timer PROVE SlotInv!(u)'
    BY DEF SlotInv
  <2>1. CASE u = t
    BY <2>1, <1>1, <1>2 DEF SlotInv, TimerTypeOK, Submit, wheelVars, BucketAfter,
       Buckets, Expired, Nowhere
  <2>2. CASE u # t
    BY <2>2 DEF SlotInv, TimerTypeOK, Submit, wheelVars, Buckets
  <2> QED BY <2>1, <2>2
<1>7. StopInv'
  <2> SUFFICES ASSUME NEW u \in Timer PROVE StopInv!(u)'
    BY DEF StopInv
  <2>1. CASE u = t
    BY <2>1, <1>3 DEF TimerTypeOK, Submit, wheelVars
  <2>2. CASE u # t
    BY <2>2 DEF StopInv, TimerTypeOK, Submit, wheelVars
  <2> QED BY <2>1, <2>2
<1> QED BY <1>4, <1>5, <1>6, <1>7

\* The ticks counted at the start of a poll are ticks that have passed.
LEMMA PollExpireIInv == TimerIInv /\ PollExpire => TimerIInv'
<1> SUFFICES ASSUME TimerIInv, PollExpire PROVE TimerIInv'
  OBVIOUS
<1> USE DEF TimerIInv
<1>1. now - last_run_time \in Nat
  BY DEF TimerTypeOK, WheelInv, PollExpire
<1>2. nticks' \in Nat /\ nticks' * Unit <= now - last_run_time
  BY <1>1, DivFloor DEF PollExpire
<1>3. TimerTypeOK'
  BY <1>2 DEF TimerTypeOK, PollExpire, timerVars
<1>4. WheelInv'
  BY <1>2 DEF TimerTypeOK, WheelInv, PollExpire
<1>5. SlotInv' /\ StopInv'
  BY DEF SlotInv, StopInv, PollExpire, timerVars, Buckets
<1> QED BY <1>3, <1>4, <1>5

\* One tick of the wheel: the slots it reaches are due now, the others are one
\* place nearer.
LEMMA TurnTickIInv == TimerIInv /\ TurnTick => TimerIInv'
<1> SUFFICES ASSUME TimerIInv, TurnTick PROVE TimerIInv'
  OBVIOUS
<1> USE DEF TimerIInv
<1>1. NextBucket \in Buckets
  BY MaskedRange DEF NextBucket, Buckets, TimerTypeOK
<1>2. nticks \in Nat \ {0} /\ nticks' = nticks - 1
  BY DEF TurnTick, TimerTypeOK
<1>3. last_run_time' + nticks' * Unit <= now /\ last_run_time' <= now
  <2>1. /\ nticks * Unit >= Unit
        /\ nticks' * Unit = nticks * Unit - Unit
        /\ nticks * Unit \in Nat
    BY <1>2, TicksTime
  <2> QED BY <2>1 DEF TurnTick, WheelInv, TimerTypeOK
<1>4. TimerTypeOK'
  BY <1>1, <1>2 DEF TimerTypeOK, TurnTick, Places
<1>5. WheelInv'
  BY <1>2, <1>3 DEF WheelInv, TurnTick
<1>6. SlotInv'
  <2> SUFFICES ASSUME NEW u \in Timer PROVE SlotInv!(u)'
    BY DEF SlotInv
  <2>1. CASE slot[u] \in Buckets
    <3>1. PICK k \in 1 .. MAX_TICKS :
            /\ slot[u] = Masked(pre_bucket_index + k)
            /\ due[u] = last_run_time + k * Unit
      BY <2>1 DEF SlotInv
    <3>2. /\ (NextBucket = slot[u]) <=> k = 1
          /\ k # 1 => slot[u] = Masked(NextBucket + (k - 1))
      BY <3>1, OneNearer DEF NextBucket, TimerTypeOK
    <3>3. CASE k = 1
      <4>1. slot'[u] = Expired
        BY <3>2, <3>3 DEF TurnTick, ExpiredBy
      <4>2. due[u] <= now
        BY <1>3, <3>1, <3>3 DEF TurnTick
      <4> QED BY <2>1, <4>1, <4>2 DEF SlotInv, TurnTick, Expired, Nowhere,
                 Buckets
    <3>4. CASE k # 1
      <4>1. slot'[u] = slot[u]
        BY <3>2, <3>4 DEF TurnTick, ExpiredBy
      <4>2. due[u] = last_run_time' + (k - 1) * Unit
        <5>1. (k - 1) * Unit = k * Unit - Unit /\ k * Unit \in Nat
          BY TicksTime
        <5> QED BY <3>1, <5>1 DEF TurnTick, TimerTypeOK
      <4>3. k - 1 \in 1 .. MAX_TICKS
        BY <3>4
      <4> QED BY <2>1, <3>2, <3>4, <4>1, <4>2, <4>3
              DEF SlotInv, TurnTick, Expired, Nowhere, Buckets
    <3> QED BY <3>3, <3>4
  <2>2. CASE slot[u] \notin Buckets
    <3>1. slot'[u] = slot[u]
      BY <2>2, <1>1 DEF TurnTick, ExpiredBy
    <3> QED BY <2>2, <3>1 DEF SlotInv, TurnTick, Buckets
  <2> QED BY <2>1, <2>2
<1>7. StopInv'
  BY DEF StopInv, TurnTick
<1> QED BY <1>4, <1>5, <1>6, <1>7

LEMMA PollRestIInv == TimerIInv /\ (TurnDone \/ PollLeftOver \/ DrainDone) => TimerIInv'
  BY DEF TimerIInv, TimerTypeOK, WheelInv, SlotInv, StopInv, TurnDone, PollLeftOver,
         DrainDone, wheelVars, timerVars, Buckets

\* Slots leave the list only after their timers were passed on, and never
\* while a stop is about to clear them.
LEMMA DrainChunkIInv ==
  ASSUME NEW S \in SUBSET Timer, TimerIInv, DrainChunk(S)
  PROVE  TimerIInv'
<1> USE DEF TimerIInv
<1>1. \A u \in S : slot[u] = Expired
  BY DEF DrainChunk, ExpireList
<1>2. \A u \in S : state[u] # "stopping"
  <2> SUFFICES ASSUME NEW u \in S, state[u] = "stopping" PROVE FALSE
    OBVIOUS
  <2>1. due[u] <= now
    BY <1>1 DEF SlotInv
  <2>2. /\ safe_clib_time[u] = due[u] - 2 * Unit
        /\ now - checked[u] <= StopDelay
        /\ checked[u] < safe_clib_time[u]
    BY DEF StopInv
  <2>3. now \in Nat /\ due[u] \in Nat /\ checked[u] \in Nat
    BY DEF TimerTypeOK
  <2> QED BY <2>1, <2>2, <2>3
<1>3. ret_cnt' \in Nat
  <2>1. IsFiniteSet({u \in S : state[u] # "stopped"})
    BY FS_Subset
  <2> QED BY <2>1, FS_CardinalityType DEF DrainChunk, TimerTypeOK
<1>4. TimerTypeOK'
  BY <1>3 DEF TimerTypeOK, DrainChunk, wheelVars, Places
<1>5. WheelInv'
  BY DEF WheelInv, DrainChunk, wheelVars
<1>6. \A u \in Timer \ S : slot'[u] = slot[u] /\ state'[u] = state[u]
  BY DEF DrainChunk, LeftInList, ExpireList
<1>7. \A u \in S : /\ slot'[u] = Nowhere
                   /\ state'[u] \in {"fired", "dropped", state[u]}
                   /\ state'[u] \notin {"armed", "stopping", "zeroed"}
  BY <1>1, <1>2 DEF DrainChunk, LeftInList, ExpireList
<1>8. SlotInv'
  <2> SUFFICES ASSUME NEW u \in Timer PROVE SlotInv!(u)'
    BY DEF SlotInv
  <2>1. CASE u \in S
    <3>1. due'[u] <= now'
      BY <2>1, <1>1 DEF SlotInv, DrainChunk
    <3>2. slot'[u] \notin Buckets /\ slot'[u] # Expired
      BY <2>1, <1>7 DEF Buckets, Nowhere, Expired
    <3> QED BY <2>1, <1>7, <3>1, <3>2
  <2>2. CASE u \notin S
    BY <2>2, <1>6 DEF SlotInv, DrainChunk, wheelVars, Buckets
  <2> QED BY <2>1, <2>2
<1>9. StopInv'
  BY <1>6, <1>7 DEF StopInv, DrainChunk
<1> QED BY <1>4, <1>5, <1>8, <1>9

LEMMA StopIInv ==
  ASSUME NEW t \in Timer, TimerIInv, StopCheck(t) \/ StopClear(t) \/ StopBusy(t)
  PROVE  TimerIInv'
<1> USE DEF TimerIInv
<1>1. /\ \E s \in {"stopping", "stopped", "zeroed"} :
           state' = [state EXCEPT ![t] = s]
      /\ state[t] \in {"armed", "stopping"}
      /\ UNCHANGED <<now, wheelVars, pollVars, slot, safe_clib_time, due>>
  BY DEF StopCheck, StopClear, StopBusy
<1>2. TimerTypeOK'
  BY <1>1 DEF TimerTypeOK, wheelVars, pollVars, StopCheck, StopClear, StopBusy
<1>3. WheelInv'
  BY <1>1 DEF WheelInv, wheelVars, pollVars
<1>4. SlotInv'
  BY <1>1 DEF SlotInv, TimerTypeOK, wheelVars, Buckets
<1>5. StopInv'
  <2> SUFFICES ASSUME NEW u \in Timer PROVE StopInv!(u)'
    BY DEF StopInv
  <2>1. CASE u = t
    BY <2>1 DEF StopInv, TimerTypeOK, StopCheck, StopClear, StopBusy
  <2>2. CASE u # t
    BY <2>2 DEF StopInv, TimerTypeOK, StopCheck, StopClear, StopBusy
  <2> QED BY <2>1, <2>2
<1> QED BY <1>2, <1>3, <1>4, <1>5

LEMMA NextIInv == TimerIInv /\ [TimerNext]_allVars => TimerIInv'
<1> SUFFICES ASSUME TimerIInv, [TimerNext]_allVars PROVE TimerIInv'
  OBVIOUS
<1>1. CASE UNCHANGED allVars
  BY <1>1 DEF TimerIInv, TimerTypeOK, WheelInv, SlotInv, StopInv, allVars, wheelVars,
     pollVars, timerVars, Buckets
<1>2. CASE Poll
  BY <1>2, PollExpireIInv, TurnTickIInv, PollRestIInv, DrainChunkIInv DEF Poll
<1>3. CASE TimerNext /\ ~Poll
  BY <1>3, TickIInv, SubmitIInv, StopIInv DEF TimerNext
<1> QED BY <1>1, <1>2, <1>3

\* The inductive invariant holds in every reachable state: slots, clock and
\* stops agree on when each timer is due.
THEOREM TimerInvariance == TimerSpec => []TimerIInv
  BY InitIInv, NextIInv, PTL DEF TimerSpec

-----------------------------------------------------------------------------
(* What follows                                                            *)

\* The variables keep their ranges; the index never leaves the wheel.
THEOREM TimerTypeCorrect == TimerSpec => []TimerTypeOK
<1>1. TimerIInv => TimerTypeOK
  BY DEF TimerIInv
<1> QED BY TimerInvariance, <1>1, PTL

LEMMA IInvStopInTime == TimerIInv => StopInTime
<1> SUFFICES ASSUME TimerIInv, NEW t \in Timer, state[t] = "stopping"
             PROVE  slot[t] \in Buckets
  BY DEF StopInTime
<1> USE DEF TimerIInv
<1>1. slot[t] \in Buckets \cup {Expired}
  BY DEF TimerTypeOK, SlotInv, Places
<1>2. slot[t] = Expired => due[t] <= now
  BY DEF SlotInv
<1>3. /\ safe_clib_time[t] = due[t] - 2 * Unit
      /\ now - checked[t] <= StopDelay
      /\ checked[t] < safe_clib_time[t]
  BY DEF StopInv
<1>4. now \in Nat /\ due[t] \in Nat /\ checked[t] \in Nat
  BY DEF TimerTypeOK
<1> QED BY <1>1, <1>2, <1>3, <1>4

LEMMA IInvNotPassedOver == TimerIInv => NotPassedOver
<1> SUFFICES ASSUME TimerIInv, NEW t \in Timer, slot[t] \in Buckets
             PROVE  last_run_time < due[t]
  BY DEF NotPassedOver
<1>1. PICK k \in 1 .. MAX_TICKS : due[t] = last_run_time + k * Unit
  BY DEF TimerIInv, SlotInv
<1>2. k * Unit \in Nat /\ k * Unit >= Unit
  BY TicksTime
<1> QED BY <1>1, <1>2 DEF TimerIInv, TimerTypeOK

\* A stop within its time limit never writes into a chunk that is being fired
\* or was freed, whatever the wheel's size and however late the polls are.
THEOREM StopsInTime == TimerSpec => []StopInTime
  BY TimerInvariance, IInvStopInTime, PTL

\* No timer expires before the tick count that was asked for.
THEOREM NeverEarly == TimerSpec => []NotEarly
<1>1. TimerIInv => NotEarly
  BY DEF TimerIInv, SlotInv, NotEarly
<1> QED BY TimerInvariance, <1>1, PTL

\* However far a poll turns the wheel, it expires every timer it passes.
THEOREM NeverPassedOver == TimerSpec => []NotPassedOver
  BY TimerInvariance, IInvNotPassedOver, PTL

\* Timers leave the wheel on time for any wheel, tick length and number of timers,
\* and the wheel's index never leaves it.
THEOREM AlwaysOnTime == TimerSpec => []OnTime
<1>1. TimerTypeOK /\ NotEarly /\ NotPassedOver => OnTime
  BY DEF OnTime
<1> QED BY TimerTypeCorrect, NeverEarly, NeverPassedOver, <1>1, PTL
=============================================================================
