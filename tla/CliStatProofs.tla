----------------------------- MODULE CliStatProofs -----------------------------
(***************************************************************************)
(* Proofs about the commands over UDP and the statistics they serve, for   *)
(* any number of workers, threads, interfaces and ports and any scenario.  *)
(***************************************************************************)
EXTENDS CliStat, WellFoundedInduction, TLAPS

-----------------------------------------------------------------------------
(* Sums and remainders *)

\* induction up to n, as a statement about a set
LEMMA UpTo ==
  ASSUME NEW S, NEW n \in Nat, 0 \in S, \A k \in 0..n : k < n /\ k \in S => k + 1 \in S
  PROVE  \A k \in 0..n : k \in S
<1> DEFINE Bad == {k \in 0..n : k \notin S}
           R == OpToRel(<, Nat)
<1> SUFFICES ASSUME Bad # {} PROVE FALSE
  OBVIOUS
<1>1. \E k \in Bad : \A j \in Bad : ~(<<j, k>> \in R)
  <2>1. IsWellFoundedOn(R, Nat)
    BY NatLessThanWellFounded
  <2>2. Bad \subseteq Nat
    OBVIOUS
  <2> HIDE DEF R, Bad
  <2> QED BY <2>1, <2>2, WFMin
<1>2. PICK k \in Bad : \A j \in Bad : ~(<<j, k>> \in R)
  BY <1>1
<1>3. k \in 0..n /\ k \notin S /\ k # 0
  BY <1>2
<1>4. k - 1 \in 0..n /\ k - 1 < n /\ (k - 1) + 1 = k /\ <<k - 1, k>> \in R
  BY <1>3 DEF OpToRel
<1>5. k - 1 \notin Bad
  BY <1>2, <1>4
<1> QED BY <1>3, <1>4, <1>5

\* The recursive function of Sums exists.
LEMMA SumsExist ==
  ASSUME NEW f, NEW n \in Nat
  PROVE  Sums(f, n) = [k \in 0 .. n |-> IF k = 0 THEN 0 ELSE Sums(f, n)[k - 1] + f[k]]
<1> DEFINE Is(s, m) == s = [k \in 0 .. m |-> IF k = 0 THEN 0 ELSE s[k - 1] + f[k]]
           S == {m \in 0 .. n : \E s : Is(s, m)}
<1>1. 0 \in S
  <2> DEFINE s == [k \in 0 .. 0 |-> 0]
             h == [k \in 0 .. 0 |-> IF k = 0 THEN 0 ELSE s[k - 1] + f[k]]
  <2>1. \A k \in 0 .. 0 : s[k] = h[k]
    OBVIOUS
  <2>2. s = h
    BY <2>1
  <2>3. Is(s, 0)
    BY <2>2
  <2> HIDE DEF s, Is
  <2> QED BY <2>3
<1>2. ASSUME NEW m \in 0 .. n, m < n, m \in S
      PROVE  m + 1 \in S
  <2>1. PICK s : Is(s, m)
    BY <1>2
  <2> DEFINE e == [k \in 0 .. m + 1 |-> IF k = m + 1 THEN s[m] + f[m + 1] ELSE s[k]]
  <2>2. ASSUME NEW k \in 0 .. m + 1
        PROVE  e[k] = IF k = 0 THEN 0 ELSE e[k - 1] + f[k]
    BY <2>1
  <2>3. Is(e, m + 1)
    <3> DEFINE h == [k \in 0 .. m + 1 |-> IF k = 0 THEN 0 ELSE e[k - 1] + f[k]]
    <3>1. \A k \in 0 .. m + 1 : e[k] = h[k]
      BY <2>2
    <3>2. e = [k \in 0 .. m + 1 |-> e[k]] /\ h = [k \in 0 .. m + 1 |-> h[k]]
      OBVIOUS
    <3> HIDE DEF e, h
    <3>3. e = h
      BY <3>1, <3>2
    <3> QED BY <3>3 DEF h
  <2> HIDE DEF e, Is
  <2> QED BY <1>2, <2>3
<1>3. n \in S
  <2> HIDE DEF S
  <2>1. \A k \in 0 .. n : k \in S
    BY <1>1, <1>2, UpTo
  <2> QED BY <2>1
<1>4. \E s : Is(s, n)
  <2> HIDE DEF Is
  <2> QED BY <1>3
<1> QED BY <1>4, Zenon DEF Sums

LEMMA SumsStep ==
  ASSUME NEW f, NEW n \in Nat
  PROVE  /\ Sums(f, n)[0] = 0
         /\ \A k \in 1 .. n : Sums(f, n)[k] = Sums(f, n)[k - 1] + f[k]
<1>1. \A k \in 0 .. n : Sums(f, n)[k] = IF k = 0 THEN 0 ELSE Sums(f, n)[k - 1] + f[k]
  BY SumsExist, Zenon
<1>2. 0 \in 0 .. n /\ \A k \in 1 .. n : k \in 0 .. n /\ k # 0
  OBVIOUS
<1> QED BY <1>1, <1>2, Zenon

LEMMA SumsInt ==
  ASSUME NEW n \in Nat, NEW f, \A k \in 1 .. n : f[k] \in Int
  PROVE  \A k \in 0 .. n : Sums(f, n)[k] \in Int
<1> DEFINE s == Sums(f, n)
           S == {k \in 0 .. n : s[k] \in Int}
<1>1. s[0] = 0 /\ \A k \in 1 .. n : s[k] = s[k - 1] + f[k]
  BY SumsStep
<1> HIDE DEF s
<1>2. \A k \in 0 .. n : k < n /\ k \in S => k + 1 \in S
  <2> SUFFICES ASSUME NEW k \in 0 .. n, k < n, s[k] \in Int
               PROVE  k + 1 \in 0 .. n /\ s[k + 1] \in Int
    OBVIOUS
  <2>1. k + 1 \in 1 .. n /\ (k + 1) - 1 = k
    OBVIOUS
  <2> QED BY <1>1, <2>1
<1>3. 0 \in S
  BY <1>1
<1> HIDE DEF S
<1>4. \A k \in 0 .. n : k \in S
  BY <1>2, <1>3, UpTo
<1> QED BY <1>4 DEF S, s

\* Sums are ordered as the summands are.
LEMMA SumMono ==
  ASSUME NEW n \in Nat, NEW f, NEW g,
         \A k \in 1 .. n : f[k] \in Int /\ g[k] \in Int /\ f[k] <= g[k]
  PROVE  SumTo(f, n) <= SumTo(g, n) /\ SumTo(f, n) \in Int /\ SumTo(g, n) \in Int
<1> DEFINE s == Sums(f, n)
           r == Sums(g, n)
           S == {k \in 0 .. n : s[k] <= r[k]}
<1>1. /\ s[0] = 0 /\ \A k \in 1 .. n : s[k] = s[k - 1] + f[k]
      /\ r[0] = 0 /\ \A k \in 1 .. n : r[k] = r[k - 1] + g[k]
  BY SumsStep
<1>2. \A k \in 0 .. n : s[k] \in Int /\ r[k] \in Int
  BY SumsInt
<1> HIDE DEF s, r
<1>3. \A k \in 0 .. n : k < n /\ k \in S => k + 1 \in S
  <2> SUFFICES ASSUME NEW k \in 0 .. n, k < n, s[k] <= r[k]
               PROVE  k + 1 \in 0 .. n /\ s[k + 1] <= r[k + 1]
    OBVIOUS
  <2>1. k + 1 \in 1 .. n /\ (k + 1) - 1 = k
    OBVIOUS
  <2>2. s[k + 1] = s[k] + f[k + 1] /\ r[k + 1] = r[k] + g[k + 1]
    BY <1>1, <2>1
  <2>3. s[k] \in Int /\ r[k] \in Int /\ f[k + 1] \in Int /\ g[k + 1] \in Int /\ f[k + 1] <= g[k + 1]
    BY <1>2, <2>1
  <2> QED BY <2>1, <2>2, <2>3
<1>4. 0 \in S
  BY <1>1
<1> HIDE DEF S
<1>5. \A k \in 0 .. n : k \in S
  BY <1>3, <1>4, UpTo
<1>6. n \in 0 .. n
  OBVIOUS
<1> QED BY <1>2, <1>5, <1>6 DEF S, s, r, SumTo

\* A sum changes by what one summand changes.
LEMMA SumPoint ==
  ASSUME NEW n \in Nat, NEW f, NEW g, NEW j \in 1 .. n,
         \A k \in 1 .. n : f[k] \in Int /\ g[k] \in Int,
         \A k \in 1 .. n : k # j => g[k] = f[k]
  PROVE  SumTo(g, n) = SumTo(f, n) + (g[j] - f[j]) /\ SumTo(f, n) \in Int
<1> DEFINE s == Sums(f, n)
           r == Sums(g, n)
           S == {k \in 0 .. n : r[k] = s[k] + (IF k >= j THEN g[j] - f[j] ELSE 0)}
<1>1. /\ s[0] = 0 /\ \A k \in 1 .. n : s[k] = s[k - 1] + f[k]
      /\ r[0] = 0 /\ \A k \in 1 .. n : r[k] = r[k - 1] + g[k]
  BY SumsStep
<1>2. \A k \in 0 .. n : s[k] \in Int /\ r[k] \in Int
  BY SumsInt
<1> HIDE DEF s, r
<1>3. \A k \in 0 .. n : k < n /\ k \in S => k + 1 \in S
  <2> SUFFICES ASSUME NEW k \in 0 .. n, k < n,
                      r[k] = s[k] + (IF k >= j THEN g[j] - f[j] ELSE 0)
               PROVE  k + 1 \in 0 .. n /\
                      r[k + 1] = s[k + 1] + (IF k + 1 >= j THEN g[j] - f[j] ELSE 0)
    OBVIOUS
  <2>1. k + 1 \in 1 .. n /\ (k + 1) - 1 = k
    OBVIOUS
  <2>2. s[k + 1] = s[k] + f[k + 1] /\ r[k + 1] = r[k] + g[k + 1]
    BY <1>1, <2>1
  <2>3. s[k] \in Int /\ r[k] \in Int /\ f[k + 1] \in Int /\ g[k + 1] \in Int
        /\ g[j] \in Int /\ f[j] \in Int
    BY <1>2, <2>1
  <2>4. CASE k + 1 = j
    BY <2>1, <2>2, <2>3, <2>4
  <2>5. CASE k + 1 # j
    <3>1. g[k + 1] = f[k + 1] /\ (k + 1 >= j <=> k >= j)
      BY <2>1, <2>5
    <3> QED BY <2>1, <2>2, <2>3, <3>1
  <2> QED BY <2>4, <2>5
<1>4. 0 \in S
  BY <1>1
<1> HIDE DEF S
<1>5. \A k \in 0 .. n : k \in S
  BY <1>3, <1>4, UpTo
<1>6. n \in 0 .. n /\ n >= j
  OBVIOUS
<1> QED BY <1>2, <1>5, <1>6 DEF S, s, r, SumTo

LEMMA SumZero ==
  ASSUME NEW n \in Nat, NEW f, \A k \in 1 .. n : f[k] = 0
  PROVE  SumTo(f, n) = 0
<1> DEFINE s == Sums(f, n)
           S == {k \in 0 .. n : s[k] = 0}
<1>1. s[0] = 0 /\ \A k \in 1 .. n : s[k] = s[k - 1] + f[k]
  BY SumsStep
<1> HIDE DEF s
<1>2. \A k \in 0 .. n : k < n /\ k \in S => k + 1 \in S
  <2> SUFFICES ASSUME NEW k \in 0 .. n, k < n, s[k] = 0
               PROVE  k + 1 \in 0 .. n /\ s[k + 1] = 0
    OBVIOUS
  <2>1. k + 1 \in 1 .. n /\ (k + 1) - 1 = k
    OBVIOUS
  <2> QED BY <1>1, <2>1
<1>3. 0 \in S
  BY <1>1
<1> HIDE DEF S
<1>4. \A k \in 0 .. n : k \in S
  BY <1>2, <1>3, UpTo
<1>5. n \in 0 .. n
  OBVIOUS
<1> QED BY <1>4, <1>5 DEF S, s, SumTo

\* a sum of natural numbers, and its summands
LEMMA SumNat ==
  ASSUME NEW n \in Nat, NEW f, \A k \in 1 .. n : f[k] \in Nat
  PROVE  SumTo(f, n) \in Nat
<1> DEFINE z == [k \in 1 .. n |-> 0]
<1>1. \A k \in 1 .. n : z[k] = 0 /\ z[k] \in Int /\ f[k] \in Int /\ z[k] <= f[k]
  OBVIOUS
<1> HIDE DEF z
<1>2. SumTo(z, n) = 0
  BY <1>1, SumZero
<1>3. SumTo(z, n) <= SumTo(f, n) /\ SumTo(f, n) \in Int
  BY <1>1, SumMono
<1> QED BY <1>2, <1>3

\* Differences of 32-bit counters: they go around at most once.
LEMMA ModSub ==
  ASSUME NEW M \in Nat \ {0}, NEW a \in 0 .. M - 1, NEW b \in 0 .. M - 1
  PROVE  (a - b) % M = (IF a >= b THEN a - b ELSE (a - b) + M) /\ (a - b) % M \in 0 .. M - 1
OBVIOUS

LEMMA ModInc ==
  ASSUME NEW M \in Nat \ {0}, NEW a \in 0 .. M - 1
  PROVE  (a + 1) % M = (IF a + 1 = M THEN 0 ELSE a + 1) /\ (a + 1) % M \in 0 .. M - 1
OBVIOUS

\* One more hit adds one to what was gained, or brings it back to zero.
LEMMA GainStep ==
  ASSUME NEW M \in Nat \ {0}, NEW a \in 0 .. M - 1, NEW b \in 0 .. M - 1
  PROVE  (((a + 1) % M) - b) % M = IF (a - b) % M = M - 1 THEN 0 ELSE ((a - b) % M) + 1
<1>1. (a - b) % M = IF a >= b THEN a - b ELSE (a - b) + M
  BY ModSub
<1>2. (a + 1) % M = (IF a + 1 = M THEN 0 ELSE a + 1) /\ (a + 1) % M \in 0 .. M - 1
  BY ModInc
<1> DEFINE c == (a + 1) % M
<1>3. c \in 0 .. M - 1
  BY <1>2
<1> HIDE DEF c
<1>4. (c - b) % M = IF c >= b THEN c - b ELSE (c - b) + M
  BY <1>3, ModSub
<1>5. c = IF a + 1 = M THEN 0 ELSE a + 1
  BY <1>2 DEF c
<1> DEFINE d == (c - b) % M
           e == (a - b) % M
<1>6. d = (IF c >= b THEN c - b ELSE (c - b) + M) /\ e = (IF a >= b THEN a - b ELSE (a - b) + M)
  BY <1>1, <1>4
<1> HIDE DEF d, e
<1>7. d = IF e = M - 1 THEN 0 ELSE e + 1
  BY <1>5, <1>6
<1> QED BY <1>7 DEF c, d, e

-----------------------------------------------------------------------------
(* The inductive invariant of the interface statistics *)

\* main is occupied by the start of the ports exactly while it lasts, and what
\* traffic needs has been published before.
PortsInv ==
  /\ (main = "ports") = (ports \in {"named", "linked"})
  /\ ports \in {"named", "linked", "up"} => icnt = nports /\ 1 .. icnt \subseteq macs
  /\ ports \in {"linked", "up"} => link \subseteq 1 .. icnt

\* A calculation is at an existing interface and thread, with counters of the
\* hardware between the last ones collected and the present ones.
CalcInv ==
  /\ calc.pc # "idle" => calc.i \in Intfs
  /\ calc.pc = "phy" => calc.cnt = NoCnt
  /\ calc.pc = "thread" => calc.t \in Threads
  /\ calc.pc \notin {"idle", "phy"} =>
       /\ lasthw[calc.i].tx <= calc.hw.tx /\ calc.hw.tx <= hw[calc.i].tx
       /\ lasthw[calc.i].miss <= calc.hw.miss /\ calc.hw.miss <= hw[calc.i].miss

\* where the packets collected from the threads are, when those of interface
\* i have not all been added to the statistics yet
Adding(i) == i = calc.i /\ calc.pc \in {"thread", "loadCounts", "storeCounts"}

CollectedInv ==
  /\ \A i \in Intfs : ~ Adding(i) =>
       /\ istat[i].in + off[i].in = Total(oldcnt, i, "in")
       /\ istat[i].out + off[i].out = Total(oldcnt, i, "out")
  /\ calc.pc \in {"thread", "loadCounts"} =>
       /\ istat[calc.i].in + off[calc.i].in + calc.cnt.in = Total(oldcnt, calc.i, "in")
       /\ istat[calc.i].out + off[calc.i].out + calc.cnt.out = Total(oldcnt, calc.i, "out")
  /\ calc.pc = "storeCounts" =>
       /\ calc.tmp.in + calc.off.in + calc.cnt.in = Total(oldcnt, calc.i, "in")
       /\ calc.tmp.out + calc.off.out + calc.cnt.out = Total(oldcnt, calc.i, "out")

\* What was loaded is still there unless it was zeroed during the calculation.
LoadedInv ==
  /\ raced \subseteq cleared
  /\ calc.pc \in {"storeCounts", "storePhy", "storeError"} /\ calc.i \notin raced =>
       calc.tmp = istat[calc.i] /\ calc.off = off[calc.i]

\* The packets that the threads read so far and those still to be read.
ReadSoFar == SumTo([t \in Threads |-> IF t < calc.t THEN oldcnt[t][calc.i].out
                                      ELSE cnt[t][calc.i].out], NThreads)

\* The hardware sends what was counted before; the threads are read after it.
SentInv ==
  /\ \A i \in Intfs : hw[i].tx <= Total(cnt, i, "out")
  /\ calc.pc = "thread" => calc.hw.tx <= ReadSoFar
  /\ calc.pc \notin {"idle", "phy", "thread"} => calc.hw.tx <= Total(oldcnt, calc.i, "out")

\* the hardware counter up to which tx_ok has been collected
SentUpTo(i) == IF i = calc.i /\ calc.pc \in {"loadError", "storeError"} THEN calc.hw.tx
               ELSE lasthw[i].tx

TxInv ==
  /\ \A i \in Intfs : i \notin cleared =>
       /\ istat[i].tx_ok <= istat[i].out
       /\ istat[i].tx_error <= istat[i].out
       /\ istat[i].tx_ok + off[i].out <= SentUpTo(i)
  /\ \A i \in Intfs : i \notin raced => istat[i].tx_error <= istat[i].out

IntfInv == IntfTypeOK /\ PortsInv /\ CalcInv /\ CollectedInv /\ LoadedInv /\ SentInv /\ TxInv

-----------------------------------------------------------------------------
(* The inductive invariant of the commands *)

\* The number of a call is also its identity; nothing under way carries a
\* number that was not given out, and the newest carries the call's command.
Mine(m, c, call) ==
  /\ m.id = m.seq /\ m.seq <= call.seq
  /\ m.seq = call.seq /\ call.pc = "wait" => c = call.cmd

\* where a command may be
PcOf(name) == IF name = "acl_sync" THEN {"read", "store", "base"}
              ELSE IF name \in {"acl_clear", "acl_clear_one"} THEN {"rebase", "zero"}
              ELSE {"run"}

NetInv ==
  /\ cl.id = cl.seq
  /\ cl.pc = "wait" => cl.seq > 0
  /\ \A k \in 1 .. Len(srvq) : Mine(srvq[k], srvq[k].cmd, cl)
  /\ \A p \in Ports : \A k \in 1 .. Len(rxq[p]) :
       rxq[p][k].id = rxq[p][k].seq /\ rxq[p][k].seq <= cl.seq
  /\ Mine(cmd.req, cmd.name, cl)
  /\ cmd.pc \in PcOf(cmd.name) \cup {"none"}
  /\ cmd.pc # "none" => cmd.w \in Workers
  /\ cl.got # 0 => cl.got = cl.id

-----------------------------------------------------------------------------
(* The inductive invariant of the hits *)

\* What each worker gained that is not in the counter in shared memory, nor
\* loaded to be stored there.
PendingOf(g, o, c) ==
  [w \in Workers |-> IF c.pc \in {"store", "base"} /\ w = c.w
                     THEN (g[w] - c.seen) % HitMod ELSE (g[w] - o[w]) % HitMod]
Pending    == PendingOf(glob, old, cmd)
PendingSum == SumTo(Pending, NWorkers)

\* the counter in shared memory and the hits cleared, once a store under way
\* is made
Stored    == IF cmd.pc = "store" THEN cmd.tmp ELSE hit
StoredOff == IF cmd.pc = "store" THEN cmd.off ELSE aoff

HitsInv == Stored + StoredOff + missed + PendingSum = hits

\* No worker is about to count the 2^32nd hit since it was last collected,
\* which would make its 32-bit counter look as if it had gained nothing.
NoWrap == \A w \in Workers : Pending[w] < HitMod - 1

\* No more hits than were made since there were x are in the counter or on
\* their way to it.
NoneBefore(x) ==
  /\ Stored + PendingSum <= hits - x
  /\ cmd.pc = "store" => hit <= hits - x

\* What the workers gained that a clear has rebased already.
RebasedOf(g, o, c) == [w \in Workers |-> IF w < c.w THEN (g[w] - o[w]) % HitMod ELSE 0]
RebasedSum == SumTo(RebasedOf(glob, old, cmd), NWorkers)

\* What is known of the clear that is executed for the call that waits.
ClearUnderWay ==
  /\ cmd.pc = "rebase" => RebasedSum <= hits - cl.at
  /\ cmd.pc = "zero" => AllGained <= hits - cl.at
  /\ cmd.pc = "none" => NoneBefore(cl.at)

\* A clear that is being executed, or was, for the call that waits.
ClearInv ==
  /\ NoneBefore(clearedAt)
  /\ cl.at <= hits
  /\ cl.got # 0 /\ cl.cmd = "acl_clear" => NoneBefore(cl.at)
  /\ cl.pc = "wait" /\ cl.cmd = "acl_clear" =>
       /\ \A p \in Ports : \A k \in 1 .. Len(rxq[p]) :
            rxq[p][k].seq = cl.seq => NoneBefore(cl.at)
       /\ cmd.req.seq = cl.seq => ClearUnderWay
  /\ NothingBeforeClear

-----------------------------------------------------------------------------
(* The interface statistics: lemmas *)

LEMMA TotalNat ==
  ASSUME NEW c \in [Threads -> [Intfs -> CntType]], NEW i \in Intfs
  PROVE  Total(c, i, "in") \in Nat /\ Total(c, i, "out") \in Nat
<1>1. NThreads \in Nat /\ Threads = 1 .. NThreads
  BY IntfAssumption DEF Threads
<1>2. \A t \in 1 .. NThreads : [u \in Threads |-> c[u][i]["in"]][t] \in Nat
                              /\ [u \in Threads |-> c[u][i]["out"]][t] \in Nat
  BY <1>1 DEF CntType
<1> QED BY <1>1, <1>2, SumNat DEF Total

LEMMA TotalMono ==
  ASSUME NEW c \in [Threads -> [Intfs -> CntType]], NEW e \in [Threads -> [Intfs -> CntType]],
         NEW i \in Intfs, NEW d \in {"in", "out"}, \A t \in Threads : c[t][i][d] <= e[t][i][d]
  PROVE  Total(c, i, d) <= Total(e, i, d)
<1>1. NThreads \in Nat /\ Threads = 1 .. NThreads
  BY IntfAssumption DEF Threads
<1>2. \A t \in Threads : c[t][i][d] \in Int /\ e[t][i][d] \in Int
  BY DEF CntType
<1> DEFINE f == [t \in Threads |-> c[t][i][d]]
           g == [t \in Threads |-> e[t][i][d]]
<1>3. \A t \in 1 .. NThreads : f[t] \in Int /\ g[t] \in Int /\ f[t] <= g[t]
  BY <1>1, <1>2
<1> HIDE DEF f, g
<1>4. SumTo(f, NThreads) <= SumTo(g, NThreads)
  BY <1>1, <1>3, SumMono
<1> QED BY <1>4 DEF f, g, Total

\* Only what one thread counts differs.
LEMMA TotalPoint ==
  ASSUME NEW c \in [Threads -> [Intfs -> CntType]], NEW e \in [Threads -> [Intfs -> CntType]],
         NEW i \in Intfs, NEW d \in {"in", "out"}, NEW t \in Threads,
         \A u \in Threads : u # t => e[u][i] = c[u][i]
  PROVE  Total(e, i, d) = Total(c, i, d) + (e[t][i][d] - c[t][i][d])
<1>1. NThreads \in Nat /\ Threads = 1 .. NThreads
  BY IntfAssumption DEF Threads
<1>2. \A u \in Threads : c[u][i][d] \in Int /\ e[u][i][d] \in Int
  BY DEF CntType
<1> DEFINE f == [u \in Threads |-> c[u][i][d]]
           g == [u \in Threads |-> e[u][i][d]]
<1>3. \A u \in 1 .. NThreads : f[u] \in Int /\ g[u] \in Int
  BY <1>1, <1>2
<1>4. \A u \in 1 .. NThreads : u # t => g[u] = f[u]
  BY <1>1
<1>5. g[t] = e[t][i][d] /\ f[t] = c[t][i][d] /\ t \in 1 .. NThreads
  BY <1>1
<1> HIDE DEF f, g
<1>6. SumTo(g, NThreads) = SumTo(f, NThreads) + (g[t] - f[t])
  BY <1>1, <1>3, <1>4, <1>5, SumPoint
<1> QED BY <1>5, <1>6 DEF f, g, Total

\* Only the packets of one interface differ.
LEMMA TotalSame ==
  ASSUME NEW c, NEW e, NEW i, NEW d, \A t \in Threads : e[t][i] = c[t][i]
  PROVE  Total(e, i, d) = Total(c, i, d)
<1>1. [t \in Threads |-> e[t][i][d]] = [t \in Threads |-> c[t][i][d]]
  OBVIOUS
<1> QED BY <1>1 DEF Total

LEMMA TotalZero ==
  ASSUME NEW c, NEW i, NEW d \in {"in", "out"}, \A t \in Threads : c[t][i] = NoCnt
  PROVE  Total(c, i, d) = 0
<1>1. NThreads \in Nat /\ Threads = 1 .. NThreads
  BY IntfAssumption DEF Threads
<1>2. \A t \in 1 .. NThreads : [u \in Threads |-> c[u][i][d]][t] = 0
  BY <1>1 DEF NoCnt
<1> QED BY <1>1, <1>2, SumZero DEF Total

LEMMA IntfSizes ==
  /\ MaxIntf \in Nat \ {0} /\ NThreads \in Nat \ {0}
  /\ PortCounts \subseteq 0 .. MaxIntf /\ 1 \in Intfs /\ 1 \in Threads
  /\ Intfs = 1 .. MaxIntf /\ Threads = 1 .. NThreads
BY IntfAssumption DEF Intfs, Threads

\* the part of the invariant about the variables of the statistics alone
StatInv == CalcInv /\ CollectedInv /\ LoadedInv /\ SentInv /\ TxInv

LEMMA StatSame ==
  ASSUME StatInv, UNCHANGED statVars
  PROVE  StatInv'
BY DEF StatInv, statVars, CalcInv, CollectedInv, Adding, LoadedInv, SentInv, ReadSoFar, TxInv,
       SentUpTo, Total

LEMMA IntfSame ==
  ASSUME IntfInv, UNCHANGED intfVars
  PROVE  IntfInv'
<1>1. StatInv'
  BY StatSame DEF IntfInv, StatInv, intfVars
<1>2. IntfTypeOK' /\ PortsInv'
  BY DEF IntfInv, IntfTypeOK, PortsInv, intfVars, statVars, portVars
<1> QED BY <1>1, <1>2 DEF IntfInv, StatInv

\* Commands hand the main thread on.
LEMMA MainHandOn ==
  ASSUME IntfInv, UNCHANGED <<statVars, portVars>>,
         main \in {"free", "cmd", "reply"}, main' \in {"free", "cmd", "reply"}
  PROVE  IntfInv'
<1>1. StatInv'
  BY StatSame DEF IntfInv, StatInv
<1>2. IntfTypeOK'
  BY DEF IntfInv, IntfTypeOK, statVars, portVars
<1>3. PortsInv'
  BY DEF IntfInv, PortsInv, portVars
<1> QED BY <1>1, <1>2, <1>3 DEF IntfInv, StatInv

-----------------------------------------------------------------------------
(* The interface statistics: the ports *)

LEMMA PortsFoundStep ==
  ASSUME IntfInv, NEW n \in PortCounts, PortsFound(n)
  PROVE  IntfInv'
<1> n \in 0 .. MaxIntf
  BY IntfSizes
<1>1. StatInv'
  BY StatSame DEF IntfInv, StatInv, PortsFound
<1>2. IntfTypeOK'
  BY DEF IntfInv, IntfTypeOK, statVars, PortsFound
<1>3. PortsInv'
  BY DEF IntfInv, PortsInv, PortsFound
<1> QED BY <1>1, <1>2, <1>3 DEF IntfInv, StatInv

LEMMA StartPortsStep ==
  ASSUME IntfInv, StartPorts
  PROVE  IntfInv'
<1>1. StatInv'
  BY StatSame DEF IntfInv, StatInv, StartPorts
<1>2. nports \in 0 .. MaxIntf /\ 1 .. nports \subseteq Intfs
  BY IntfSizes DEF IntfInv, IntfTypeOK
<1>3. IntfTypeOK'
  BY <1>2 DEF IntfInv, IntfTypeOK, statVars, StartPorts
<1>4. PortsInv'
  BY DEF IntfInv, PortsInv, StartPorts
<1> QED BY <1>1, <1>3, <1>4 DEF IntfInv, StatInv

LEMMA LinksStep ==
  ASSUME IntfInv, FirstLinks \/ LinkTick
  PROVE  IntfInv'
<1>1. StatInv'
  BY StatSame DEF IntfInv, StatInv, FirstLinks, LinkTick
<1>2. IntfTypeOK'
  BY DEF IntfInv, IntfTypeOK, statVars, FirstLinks, LinkTick, UpdateLinks
<1>3. PortsInv'
  <2>1. link' \subseteq 1 .. icnt
    BY IntfSizes DEF FirstLinks, LinkTick, UpdateLinks, LinkOf, IntfInv, IntfTypeOK
  <2> QED BY <2>1 DEF IntfInv, PortsInv, FirstLinks, LinkTick
<1> QED BY <1>1, <1>2, <1>3 DEF IntfInv, StatInv

LEMMA OpenPortsStep ==
  ASSUME IntfInv, OpenPorts
  PROVE  IntfInv'
<1>1. StatInv'
  BY StatSame DEF IntfInv, StatInv, OpenPorts
<1>2. IntfTypeOK' /\ PortsInv'
  BY DEF IntfInv, IntfTypeOK, PortsInv, statVars, OpenPorts
<1> QED BY <1>1, <1>2 DEF IntfInv, StatInv

LEMMA WireChangeStep ==
  ASSUME IntfInv, NEW i \in Intfs, WireChange(i)
  PROVE  IntfInv'
<1>1. StatInv'
  BY StatSame DEF IntfInv, StatInv, WireChange
<1>2. IntfTypeOK' /\ PortsInv'
  BY DEF IntfInv, IntfTypeOK, PortsInv, statVars, WireChange
<1> QED BY <1>1, <1>2 DEF IntfInv, StatInv

-----------------------------------------------------------------------------
(* The interface statistics: packets *)

LEMMA CntUp ==
  ASSUME NEW c \in CntType, NEW d \in {"in", "out"}
  PROVE  [c EXCEPT ![d] = @ + 1] \in CntType
<1>1. CASE d = "in"
  BY <1>1 DEF CntType
<1>2. CASE d = "out"
  BY <1>2 DEF CntType
<1> QED BY <1>1, <1>2

LEMMA HwUp ==
  ASSUME NEW c \in HwType, NEW d \in {"tx", "miss"}
  PROVE  [c EXCEPT ![d] = @ + 1] \in HwType
<1>1. CASE d = "tx"
  BY <1>1 DEF HwType
<1>2. CASE d = "miss"
  BY <1>2 DEF HwType
<1> QED BY <1>1, <1>2

LEMMA CountStep ==
  ASSUME IntfInv, NEW t \in Threads, NEW i \in Intfs, NEW d \in {"in", "out"}, Count(t, i, d)
  PROVE  IntfInv'
<1>1. cnt' \in [Threads -> [Intfs -> CntType]]
  <2>1. [cnt[t][i] EXCEPT ![d] = @ + 1] \in CntType
    <3>1. cnt[t][i] \in CntType
      BY DEF IntfInv, IntfTypeOK
    <3> QED BY <3>1, CntUp
  <2>2. cnt' = [cnt EXCEPT ![t] = [cnt[t] EXCEPT ![i] = [cnt[t][i] EXCEPT ![d] = @ + 1]]]
    BY DEF Count
  <2>3. [cnt[t] EXCEPT ![i] = [cnt[t][i] EXCEPT ![d] = @ + 1]] \in [Intfs -> CntType]
    BY <2>1 DEF IntfInv, IntfTypeOK
  <2> QED BY <2>2, <2>3 DEF IntfInv, IntfTypeOK
<1>2. \A u \in Threads, j \in Intfs :
        cnt[u][j].in <= cnt'[u][j].in /\ cnt[u][j].out <= cnt'[u][j].out
  <2> SUFFICES ASSUME NEW u \in Threads, NEW j \in Intfs
               PROVE  cnt[u][j].in <= cnt'[u][j].in /\ cnt[u][j].out <= cnt'[u][j].out
    OBVIOUS
  <2>1. cnt[u][j] \in CntType
    BY DEF IntfInv, IntfTypeOK
  <2>2. cnt'[u][j] = IF u = t /\ j = i THEN [cnt[t][i] EXCEPT ![d] = @ + 1] ELSE cnt[u][j]
    BY DEF Count, IntfInv, IntfTypeOK
  <2> QED BY <2>1, <2>2 DEF CntType
<1>3. IntfTypeOK'
  <2>1. \A u \in Threads, j \in Intfs :
          oldcnt'[u][j].in <= cnt'[u][j].in /\ oldcnt'[u][j].out <= cnt'[u][j].out
    <3> SUFFICES ASSUME NEW u \in Threads, NEW j \in Intfs
                 PROVE  oldcnt'[u][j].in <= cnt'[u][j].in /\ oldcnt'[u][j].out <= cnt'[u][j].out
      OBVIOUS
    <3>1. cnt[u][j] \in CntType /\ cnt'[u][j] \in CntType /\ oldcnt[u][j] \in CntType
          /\ oldcnt' = oldcnt
      BY <1>1 DEF IntfInv, IntfTypeOK, Count
    <3>2. oldcnt[u][j].in <= cnt[u][j].in /\ oldcnt[u][j].out <= cnt[u][j].out
      BY DEF IntfInv, IntfTypeOK
    <3> QED BY <1>2, <3>1, <3>2 DEF CntType
  <2> QED BY <1>1, <2>1 DEF IntfInv, IntfTypeOK, Count, portVars
<1>4. PortsInv' /\ CalcInv' /\ CollectedInv' /\ LoadedInv' /\ TxInv'
  BY DEF IntfInv, PortsInv, CalcInv, CollectedInv, Adding, LoadedInv, TxInv, SentUpTo, Total,
         Count, portVars
<1>5. SentInv'
  <2>1. ASSUME NEW j \in Intfs
        PROVE  hw'[j].tx <= Total(cnt', j, "out")
    <3>1. Total(cnt, j, "out") <= Total(cnt', j, "out")
      BY <1>1, <1>2, TotalMono DEF IntfInv, IntfTypeOK
    <3>2. Total(cnt, j, "out") \in Nat /\ Total(cnt', j, "out") \in Nat
      BY <1>1, TotalNat DEF IntfInv, IntfTypeOK
    <3>3. hw'[j].tx = hw[j].tx /\ hw[j].tx \in Nat /\ hw[j].tx <= Total(cnt, j, "out")
      BY DEF IntfInv, IntfTypeOK, SentInv, Count, HwType
    <3> QED BY <3>1, <3>2, <3>3
  <2>2. ASSUME calc.pc = "thread"
        PROVE  calc.hw.tx <= ReadSoFar'
    <3> DEFINE f == [u \in Threads |-> IF u < calc.t THEN oldcnt[u][calc.i].out
                                       ELSE cnt[u][calc.i].out]
               g == [u \in Threads |-> IF u < calc.t THEN oldcnt[u][calc.i].out
                                       ELSE cnt'[u][calc.i].out]
    <3>1. calc.i \in Intfs /\ calc.hw.tx \in Nat /\ calc.hw.tx <= SumTo(f, NThreads)
      BY <2>2 DEF IntfInv, IntfTypeOK, CalcInv, SentInv, ReadSoFar, CalcType, HwType
    <3>2. \A u \in 1 .. NThreads : f[u] \in Int /\ g[u] \in Int /\ f[u] <= g[u]
      <4> SUFFICES ASSUME NEW u \in Threads
                   PROVE  f[u] \in Int /\ g[u] \in Int /\ f[u] <= g[u]
        BY IntfSizes
      <4>1. cnt[u][calc.i] \in CntType /\ cnt'[u][calc.i] \in CntType /\ oldcnt[u][calc.i] \in CntType
        BY <1>1, <3>1 DEF IntfInv, IntfTypeOK
      <4>2. cnt[u][calc.i].out <= cnt'[u][calc.i].out
        BY <1>2, <3>1
      <4> QED BY <4>1, <4>2 DEF CntType
    <3>3. ReadSoFar' = SumTo(g, NThreads)
      BY DEF ReadSoFar, Count
    <3> HIDE DEF f, g
    <3>4. SumTo(f, NThreads) <= SumTo(g, NThreads) /\ SumTo(f, NThreads) \in Int
          /\ SumTo(g, NThreads) \in Int
      BY <3>2, IntfSizes, SumMono
    <3> QED BY <3>1, <3>3, <3>4
  <2> QED BY <2>1, <2>2 DEF IntfInv, SentInv, Count, Total
<1> QED BY <1>3, <1>4, <1>5 DEF IntfInv

LEMMA CountHwStep ==
  ASSUME IntfInv, NEW i \in Intfs, NEW d \in {"tx", "miss"}, CountHw(i, d)
  PROVE  IntfInv'
<1>1. hw' \in [Intfs -> HwType] /\ \A j \in Intfs : j # i => hw'[j] = hw[j]
  <2>1. [hw[i] EXCEPT ![d] = @ + 1] \in HwType
    BY HwUp DEF IntfInv, IntfTypeOK
  <2>2. hw' = [hw EXCEPT ![i] = [hw[i] EXCEPT ![d] = @ + 1]]
    BY DEF CountHw
  <2> QED BY <2>1, <2>2 DEF IntfInv, IntfTypeOK
<1>2. hw'[i].tx = (IF d = "tx" THEN hw[i].tx + 1 ELSE hw[i].tx)
      /\ hw'[i].miss = (IF d = "miss" THEN hw[i].miss + 1 ELSE hw[i].miss)
  BY DEF IntfInv, IntfTypeOK, HwType, CountHw
<1>3. \A j \in Intfs : hw[j].tx <= hw'[j].tx /\ hw[j].miss <= hw'[j].miss
  <2> SUFFICES ASSUME NEW j \in Intfs
               PROVE  hw[j].tx <= hw'[j].tx /\ hw[j].miss <= hw'[j].miss
    OBVIOUS
  <2>1. hw[j] \in HwType
    BY DEF IntfInv, IntfTypeOK
  <2> QED BY <1>1, <1>2, <2>1 DEF HwType
<1>4. \A j \in Intfs : lasthw[j] \in HwType /\ hw[j] \in HwType /\ hw'[j] \in HwType
  BY <1>1 DEF IntfInv, IntfTypeOK
<1>5. IntfTypeOK'
  <2>1. \A j \in Intfs : lasthw[j].tx <= hw'[j].tx /\ lasthw[j].miss <= hw'[j].miss
    BY <1>3, <1>4 DEF HwType, IntfInv, IntfTypeOK
  <2> QED BY <1>1, <2>1 DEF IntfInv, IntfTypeOK, CountHw, portVars
<1>6. PortsInv' /\ CollectedInv' /\ LoadedInv' /\ TxInv'
  BY DEF IntfInv, PortsInv, CollectedInv, Adding, LoadedInv, TxInv, SentUpTo, Total,
         CountHw, portVars
<1>7. CalcInv'
  BY <1>3, <1>4 DEF IntfInv, IntfTypeOK, CalcInv, CountHw, CalcType, HwType
<1>8. SentInv'
  <2>1. ASSUME NEW j \in Intfs
        PROVE  hw'[j].tx <= Total(cnt, j, "out")
    <3>1. Total(cnt, j, "out") \in Nat
      BY TotalNat DEF IntfInv, IntfTypeOK
    <3>2. hw[j].tx <= Total(cnt, j, "out") /\ hw[j].tx \in Nat
      BY <1>4 DEF IntfInv, SentInv, HwType
    <3>3. CASE j = i
      BY <1>2, <3>1, <3>2, <3>3 DEF CountHw
    <3>4. CASE j # i
      BY <1>1, <3>2, <3>4
    <3> QED BY <3>3, <3>4
  <2> QED BY <2>1 DEF IntfInv, SentInv, CountHw, ReadSoFar, Total
<1> QED BY <1>5, <1>6, <1>7, <1>8 DEF IntfInv

-----------------------------------------------------------------------------
(* The interface statistics: the calculation *)

LEMMA NoneTyped ==
  /\ NoCnt \in CntType /\ NoHw \in HwType /\ NoStat \in StatType
  /\ NoCnt \in OffType /\ NoCalc \in CalcType
BY IntfSizes DEF NoCnt, NoHw, NoStat, NoCalc, CntType, HwType, StatType, OffType, CalcType

LEMMA FirstRound ==
  ASSUME NEW by \in {"process", "cli"}, NEW k \in Intfs
  PROVE  /\ [NoCalc EXCEPT !.pc = "phy", !.i = k, !.by = by] \in CalcType
         /\ [NoCalc EXCEPT !.pc = "phy", !.i = k, !.by = by].pc = "phy"
         /\ [NoCalc EXCEPT !.pc = "phy", !.i = k, !.by = by].i = k
         /\ [NoCalc EXCEPT !.pc = "phy", !.i = k, !.by = by].cnt = NoCnt
<1>1. NoCalc \in CalcType /\ k \in 0 .. MaxIntf
  BY NoneTyped, IntfSizes
<1>2. NoCalc.cnt = NoCnt
  BY DEF NoCalc
<1>3. [NoCalc EXCEPT !.pc = "phy", !.i = k, !.by = by] \in CalcType
  BY <1>1 DEF CalcType
<1> QED BY <1>1, <1>2, <1>3 DEF CalcType

\* What a calculation has not begun to collect, or has collected wholly.
Settled(c) == c.pc \in {"idle", "phy"}

\* The statistics stay, but for the errors, which stay within bounds.
StatKept ==
  /\ istat' \in [Intfs -> StatType]
  /\ \A i \in Intfs :
       /\ istat'[i].in = istat[i].in /\ istat'[i].out = istat[i].out
       /\ istat'[i].tx_ok = istat[i].tx_ok
       /\ i \notin raced => istat'[i].tx_error <= istat'[i].out

LEMMA KeptSame ==
  ASSUME IntfInv, istat' = istat
  PROVE  StatKept
BY DEF IntfInv, IntfTypeOK, TxInv, StatKept

\* A round begins or the calculation ends: nothing is under way any more.
LEMMA RoundStep ==
  ASSUME IntfInv, UNCHANGED <<cnt, hw, oldcnt, off, raced, cleared, portVars>>, StatKept,
         lasthw' \in [Intfs -> HwType],
         \A i \in Intfs : lasthw'[i].tx <= hw[i].tx /\ lasthw'[i].miss <= hw[i].miss,
         \A i \in Intfs : ~ Adding(i),
         \A i \in Intfs : i \notin cleared => istat[i].tx_ok + off[i].out <= lasthw'[i].tx,
         first' \in BOOLEAN, inProcess' \in BOOLEAN,
         calc' \in CalcType, Settled(calc'),
         calc'.pc = "phy" => calc'.i \in Intfs /\ calc'.cnt = NoCnt,
         main \notin {"ports"}, main' \in {"free", "calc", "cmd", "reply"},
         (calc'.pc = "idle") = (main' # "calc")
  PROVE  IntfInv'
<1>1. IntfTypeOK'
  BY DEF StatKept, IntfInv, IntfTypeOK, portVars
<1>2. PortsInv'
  BY DEF IntfInv, PortsInv, portVars
<1>3. CalcInv'
  BY DEF CalcInv, Settled
<1>4. CollectedInv'
  BY DEF StatKept, IntfInv, CollectedInv, Adding, Settled, Total
<1>5. LoadedInv'
  BY DEF IntfInv, LoadedInv, Settled
<1>6. SentInv'
  BY DEF IntfInv, SentInv, Settled, Total
<1>7. TxInv'
  <2>1. ASSUME NEW i \in Intfs, i \notin cleared
        PROVE  /\ istat'[i].tx_ok <= istat'[i].out
               /\ istat'[i].tx_error <= istat'[i].out
               /\ istat'[i].tx_ok + off[i].out <= lasthw'[i].tx
    BY <2>1 DEF IntfInv, LoadedInv, TxInv, StatKept
  <2>2. \A i \in Intfs : SentUpTo(i)' = lasthw'[i].tx
    BY DEF SentUpTo, Settled
  <2> QED BY <2>1, <2>2 DEF TxInv, StatKept
<1> QED BY <1>1, <1>2, <1>3, <1>4, <1>5, <1>6, <1>7 DEF IntfInv

LEMMA StatTickStep ==
  ASSUME IntfInv, StatTick
  PROVE  IntfInv'
<1>1. calc.pc = "idle" /\ main = "free" /\ calc \in CalcType /\ icnt \in 0 .. MaxIntf
  BY DEF IntfInv, IntfTypeOK, StatTick
<1>2. \A i \in Intfs : ~ Adding(i)
  BY <1>1 DEF Adding
<1>3. \A i \in Intfs : lasthw[i] \in HwType /\ hw[i] \in HwType /\ istat[i] \in StatType
                       /\ off[i] \in OffType
  BY DEF IntfInv, IntfTypeOK
<1>4. \A i \in Intfs : lasthw[i].tx <= hw[i].tx /\ lasthw[i].miss <= hw[i].miss
  BY DEF IntfInv, IntfTypeOK
<1>5. \A i \in Intfs : i \notin cleared => istat[i].tx_ok + off[i].out <= lasthw[i].tx
  BY <1>1 DEF IntfInv, TxInv, SentUpTo
<1>6. UNCHANGED <<cnt, hw, oldcnt, istat, off, raced, cleared, portVars>>
  BY DEF StatTick
<1>7. CASE first
  <2>1. lasthw' = [i \in Intfs |-> IF i <= icnt /\ PhyReadable(i) THEN hw[i] ELSE lasthw[i]]
    BY <1>7 DEF StatTick, PhyCounters
  <2>2. lasthw' \in [Intfs -> HwType]
    BY <1>3, <2>1
  <2>3. \A i \in Intfs : lasthw'[i].tx <= hw[i].tx /\ lasthw'[i].miss <= hw[i].miss
                         /\ lasthw[i].tx <= lasthw'[i].tx
    BY <1>3, <1>4, <2>1 DEF HwType
  <2>4. \A i \in Intfs : i \notin cleared => istat[i].tx_ok + off[i].out <= lasthw'[i].tx
    <3> SUFFICES ASSUME NEW i \in Intfs, i \notin cleared
                 PROVE  istat[i].tx_ok + off[i].out <= lasthw'[i].tx
      OBVIOUS
    <3>1. lasthw'[i] \in HwType
      BY <2>2
    <3> QED BY <1>3, <1>5, <2>3, <3>1 DEF HwType, StatType, OffType
  <2>5. first' \in BOOLEAN /\ inProcess' \in BOOLEAN /\ calc' = calc /\ main' = main
    BY <1>7 DEF StatTick
  <2>6. Settled(calc')
    BY <1>1, <2>5 DEF Settled
  <2> QED BY <1>1, <1>2, <1>6, <2>2, <2>3, <2>4, <2>5, <2>6, RoundStep, KeptSame
<1>8. CASE ~ first /\ icnt > 0
  <2>1. calc' = [NoCalc EXCEPT !.pc = "phy", !.i = 1, !.by = "process"] /\ main' = "calc"
        /\ inProcess' = TRUE /\ lasthw' = lasthw /\ first' = first
    BY <1>8 DEF StatTick, StartCalc
  <2>2. calc' \in CalcType /\ calc'.pc = "phy" /\ calc'.i \in Intfs /\ calc'.cnt = NoCnt
    BY <2>1, FirstRound, IntfSizes
  <2>3. Settled(calc') /\ lasthw' \in [Intfs -> HwType] /\ first' \in BOOLEAN
    BY <2>1, <2>2 DEF Settled, IntfInv, IntfTypeOK
  <2> QED BY <1>1, <1>2, <1>4, <1>5, <1>6, <2>1, <2>2, <2>3, RoundStep, KeptSame
<1>9. CASE ~ first /\ ~ icnt > 0
  <2>1. calc' = calc /\ main' = main /\ inProcess' = FALSE /\ lasthw' = lasthw /\ first' = first
    BY <1>9 DEF StatTick
  <2>2. Settled(calc') /\ lasthw' \in [Intfs -> HwType] /\ first' \in BOOLEAN
    BY <1>1, <2>1 DEF Settled, IntfInv, IntfTypeOK
  <2> QED BY <1>1, <1>2, <1>4, <1>5, <1>6, <2>1, <2>2, RoundStep, KeptSame
<1> QED BY <1>7, <1>8, <1>9

\* "sync intf statics": the calculation on behalf of a command
LEMMA SyncCalcStep ==
  ASSUME IntfInv, main = "cmd", icnt > 0, StartCalc("cli"),
         UNCHANGED <<cnt, hw, oldcnt, lasthw, istat, inProcess, first, off, raced, cleared,
                     portVars>>
  PROVE  IntfInv'
<1>1. calc.pc = "idle" /\ icnt \in 0 .. MaxIntf
  BY DEF IntfInv, IntfTypeOK
<1>2. \A i \in Intfs : ~ Adding(i)
  BY <1>1 DEF Adding
<1>4. \A i \in Intfs : lasthw[i].tx <= hw[i].tx /\ lasthw[i].miss <= hw[i].miss
  BY DEF IntfInv, IntfTypeOK
<1>5. \A i \in Intfs : i \notin cleared => istat[i].tx_ok + off[i].out <= lasthw[i].tx
  BY <1>1 DEF IntfInv, TxInv, SentUpTo
<1>6. calc' = [NoCalc EXCEPT !.pc = "phy", !.i = 1, !.by = "cli"] /\ main' = "calc"
  BY DEF StartCalc
<1>7. calc' \in CalcType /\ calc'.pc = "phy" /\ calc'.i \in Intfs /\ calc'.cnt = NoCnt
  BY <1>6, FirstRound, IntfSizes
<1>8. Settled(calc') /\ lasthw' \in [Intfs -> HwType] /\ first' \in BOOLEAN /\ inProcess' \in BOOLEAN
  BY <1>7 DEF Settled, IntfInv, IntfTypeOK
<1> QED BY <1>2, <1>4, <1>5, <1>6, <1>7, <1>8, RoundStep, KeptSame

\* The end of a round, after which all that was collected is added.
LEMMA NextIntfStep ==
  ASSUME IntfInv, NextIntf, calc.pc \in {"phy", "storeError"}, first' = first,
         UNCHANGED <<cnt, hw, oldcnt, off, raced, cleared, portVars>>, StatKept,
         lasthw' \in [Intfs -> HwType],
         \A i \in Intfs : lasthw'[i].tx <= hw[i].tx /\ lasthw'[i].miss <= hw[i].miss,
         \A i \in Intfs : i \notin cleared => istat[i].tx_ok + off[i].out <= lasthw'[i].tx
  PROVE  IntfInv'
<1>1. main = "calc" /\ calc.i \in Intfs /\ calc \in CalcType /\ icnt \in 0 .. MaxIntf
  BY DEF IntfInv, IntfTypeOK, CalcInv
<1>2. \A i \in Intfs : ~ Adding(i)
  BY DEF Adding
<1>3. first' \in BOOLEAN /\ inProcess \in BOOLEAN
  BY DEF IntfInv, IntfTypeOK
<1>4. CASE calc.i < icnt
  <2>1. calc' = [NoCalc EXCEPT !.pc = "phy", !.i = calc.i + 1, !.by = calc.by]
        /\ inProcess' = inProcess /\ main' = main
    BY <1>4 DEF NextIntf
  <2>2. calc.i + 1 \in Intfs
    BY <1>1, <1>4, IntfSizes
  <2>3. PICK b \in {"none", "process", "cli"} : calc.by = b
    BY <1>1 DEF CalcType
  <2>4. calc' \in CalcType /\ calc'.pc = "phy" /\ calc'.i \in Intfs /\ calc'.cnt = NoCnt
    <3>1. NoCalc \in CalcType /\ NoCalc.cnt = NoCnt
      BY NoneTyped DEF NoCalc
    <3>2. calc.i + 1 \in 0 .. MaxIntf
      BY <2>2, IntfSizes
    <3> QED BY <2>1, <2>2, <2>3, <3>1, <3>2 DEF CalcType
  <2>5. Settled(calc') /\ inProcess' \in BOOLEAN
    BY <1>3, <2>1, <2>4 DEF Settled
  <2> QED BY <1>1, <1>2, <1>3, <2>1, <2>4, <2>5, RoundStep
<1>5. CASE ~ calc.i < icnt
  <2>1. calc' = NoCalc /\ inProcess' \in BOOLEAN /\ main' \in {"free", "reply"}
    BY <1>3, <1>5 DEF NextIntf, EndCalc
  <2>2. calc' \in CalcType /\ calc'.pc = "idle"
    BY <2>1, NoneTyped DEF NoCalc
  <2>3. Settled(calc')
    BY <2>2 DEF Settled
  <2> QED BY <1>1, <1>2, <1>3, <2>1, <2>2, <2>3, RoundStep
<1> QED BY <1>4, <1>5

LEMMA CalcPhyStep ==
  ASSUME IntfInv, CalcPhy
  PROVE  IntfInv'
<1>1. calc.pc = "phy" /\ calc.i \in Intfs /\ main = "calc" /\ calc \in CalcType /\ calc.cnt = NoCnt
  BY DEF IntfInv, IntfTypeOK, CalcInv, CalcPhy
<1>2. UNCHANGED <<cnt, hw, oldcnt, lasthw, istat, first, off, raced, cleared, portVars>>
  BY DEF CalcPhy
<1>3. \A i \in Intfs : i \notin cleared => istat[i].tx_ok + off[i].out <= lasthw[i].tx
  BY <1>1 DEF IntfInv, TxInv, SentUpTo
<1>4. \A i \in Intfs : lasthw[i].tx <= hw[i].tx /\ lasthw[i].miss <= hw[i].miss
  BY DEF IntfInv, IntfTypeOK
<1>5. CASE ~ PhyReadable(calc.i)
  <2>1. NextIntf /\ first' = first /\ lasthw' = lasthw /\ lasthw \in [Intfs -> HwType]
    BY <1>5 DEF CalcPhy, IntfInv, IntfTypeOK
  <2> QED BY <1>1, <1>2, <1>3, <1>4, <2>1, NextIntfStep, KeptSame
<1>6. CASE PhyReadable(calc.i)
  <2>1. calc' = [calc EXCEPT !.pc = "thread", !.t = 1, !.hw = hw[calc.i]]
        /\ inProcess' = inProcess /\ main' = main
    BY <1>6 DEF CalcPhy, PhyCounters
  <2>2. hw[calc.i] \in HwType /\ 1 \in 0 .. NThreads + 1
    BY <1>1, IntfSizes DEF IntfInv, IntfTypeOK
  <2>3. calc' \in CalcType /\ calc'.pc = "thread" /\ calc'.t = 1 /\ calc'.hw = hw[calc.i]
        /\ calc'.i = calc.i /\ calc'.cnt = NoCnt
    BY <1>1, <2>1, <2>2 DEF CalcType
  <2>4. IntfTypeOK'
    BY <1>1, <1>2, <2>1, <2>3 DEF IntfInv, IntfTypeOK, portVars
  <2>5. PortsInv'
    BY <1>2, <2>1 DEF IntfInv, PortsInv, portVars
  <2>6. CalcInv'
    BY <1>1, <1>2, <1>4, <2>2, <2>3, IntfSizes DEF CalcInv, HwType
  <2>7. CollectedInv'
    <3>1. \A i \in Intfs : /\ istat[i].in + off[i].in = Total(oldcnt, i, "in")
                           /\ istat[i].out + off[i].out = Total(oldcnt, i, "out")
      BY <1>1 DEF IntfInv, CollectedInv, Adding
    <3>2. NoCnt.in = 0 /\ NoCnt.out = 0
      BY DEF NoCnt
    <3>3. istat[calc.i] \in StatType /\ off[calc.i] \in OffType
      BY <1>1 DEF IntfInv, IntfTypeOK
    <3>4. /\ istat[calc.i].in + off[calc.i].in + calc'.cnt.in = Total(oldcnt, calc.i, "in")
          /\ istat[calc.i].out + off[calc.i].out + calc'.cnt.out = Total(oldcnt, calc.i, "out")
      BY <1>1, <2>3, <3>1, <3>2, <3>3 DEF StatType, OffType
    <3> QED BY <1>2, <2>3, <3>1, <3>4 DEF CollectedInv, Total
  <2>8. LoadedInv'
    BY <1>2, <2>3 DEF IntfInv, LoadedInv
  <2>9. SentInv'
    <3>1. ReadSoFar' = Total(cnt, calc.i, "out")
      <4>1. \A u \in Threads : ~ u < 1
        BY IntfSizes
      <4>2. [u \in Threads |-> IF u < 1 THEN oldcnt[u][calc.i].out ELSE cnt[u][calc.i].out]
            = [u \in Threads |-> cnt[u][calc.i].out]
        BY <4>1
      <4>3. ReadSoFar' = SumTo([u \in Threads |-> IF u < 1 THEN oldcnt[u][calc.i].out
                                                  ELSE cnt[u][calc.i].out], NThreads)
        BY <1>2, <2>3 DEF ReadSoFar
      <4> QED BY <4>2, <4>3 DEF Total
    <3>2. calc'.hw.tx <= Total(cnt, calc.i, "out")
      BY <1>1, <2>3 DEF IntfInv, SentInv
    <3> QED BY <1>2, <2>3, <3>1, <3>2 DEF IntfInv, SentInv, Total
  <2>10. TxInv'
    BY <1>1, <1>2, <2>3 DEF IntfInv, TxInv, SentUpTo
  <2> QED BY <2>4, <2>5, <2>6, <2>7, <2>8, <2>9, <2>10 DEF IntfInv
<1> QED BY <1>5, <1>6

LEMMA CalcThreadStep ==
  ASSUME IntfInv, CalcThread
  PROVE  IntfInv'
<1> DEFINE i == calc.i
           t == calc.t
<1>1. calc.pc = "thread" /\ i \in Intfs /\ t \in Threads /\ main = "calc" /\ calc \in CalcType
  BY DEF IntfInv, IntfTypeOK, CalcInv, CalcThread
<1>2. UNCHANGED <<cnt, hw, lasthw, istat, inProcess, first, off, raced, cleared, portVars, main>>
  BY DEF CalcThread
<1>3. cnt[t][i] \in CntType /\ oldcnt[t][i] \in CntType /\ oldcnt[t][i].in <= cnt[t][i].in
      /\ oldcnt[t][i].out <= cnt[t][i].out /\ calc.cnt \in CntType
  BY <1>1 DEF IntfInv, IntfTypeOK, CalcType
<1>4. oldcnt' = [oldcnt EXCEPT ![t][i] = cnt[t][i]] /\ oldcnt' \in [Threads -> [Intfs -> CntType]]
  <2>1. oldcnt' = [oldcnt EXCEPT ![t][i] = cnt[t][i]]
    BY DEF CalcThread
  <2>2. [oldcnt[t] EXCEPT ![i] = cnt[t][i]] \in [Intfs -> CntType]
    BY <1>1, <1>3 DEF IntfInv, IntfTypeOK
  <2> QED BY <1>1, <2>1, <2>2 DEF IntfInv, IntfTypeOK
<1>5. \A u \in Threads, j \in Intfs :
        oldcnt'[u][j] = IF u = t /\ j = i THEN cnt[t][i] ELSE oldcnt[u][j]
  BY <1>1, <1>4 DEF IntfInv, IntfTypeOK
<1> DEFINE more == [in  |-> calc.cnt.in + (cnt[t][i].in - oldcnt[t][i].in),
                    out |-> calc.cnt.out + (cnt[t][i].out - oldcnt[t][i].out)]
<1>6. more \in CntType
  BY <1>3 DEF CntType
<1>7. calc' = [calc EXCEPT !.t = t + 1, !.pc = IF t = NThreads THEN "loadCounts" ELSE "thread",
                           !.cnt = more]
  BY DEF CalcThread, Since
<1>8. t + 1 \in 0 .. NThreads + 1 /\ (t # NThreads => t + 1 \in Threads)
  BY <1>1, IntfSizes
<1>9. calc' \in CalcType /\ calc'.t = t + 1 /\ calc'.cnt = more /\ calc'.i = i /\ calc'.hw = calc.hw
      /\ calc'.pc = IF t = NThreads THEN "loadCounts" ELSE "thread"
  BY <1>1, <1>6, <1>7, <1>8 DEF CalcType
<1>10. more.in = calc.cnt.in + (cnt[t][i].in - oldcnt[t][i].in)
       /\ more.out = calc.cnt.out + (cnt[t][i].out - oldcnt[t][i].out)
  OBVIOUS
<1> HIDE DEF more
<1>11. IntfTypeOK'
  <2>1. \A u \in Threads, j \in Intfs :
          oldcnt'[u][j].in <= cnt[u][j].in /\ oldcnt'[u][j].out <= cnt[u][j].out
    <3> SUFFICES ASSUME NEW u \in Threads, NEW j \in Intfs
                 PROVE  oldcnt'[u][j].in <= cnt[u][j].in /\ oldcnt'[u][j].out <= cnt[u][j].out
      OBVIOUS
    <3>1. oldcnt[u][j].in <= cnt[u][j].in /\ oldcnt[u][j].out <= cnt[u][j].out
      BY DEF IntfInv, IntfTypeOK
    <3>2. CASE u = t /\ j = i
      BY <1>3, <1>5, <3>2 DEF CntType
    <3>3. CASE ~(u = t /\ j = i)
      BY <1>5, <3>1, <3>3
    <3> QED BY <3>2, <3>3
  <2>2. calc'.pc # "idle"
    BY <1>9
  <2> QED BY <1>1, <1>2, <1>4, <1>9, <2>1, <2>2 DEF IntfInv, IntfTypeOK, portVars
<1>12. PortsInv'
  BY <1>2 DEF IntfInv, PortsInv, portVars
<1>13. CalcInv'
  BY <1>1, <1>2, <1>8, <1>9 DEF IntfInv, CalcInv
<1>14. CollectedInv'
  <2>1. ASSUME NEW j \in Intfs, j # i
        PROVE  Total(oldcnt', j, "in") = Total(oldcnt, j, "in")
               /\ Total(oldcnt', j, "out") = Total(oldcnt, j, "out")
    <3>1. \A u \in Threads : oldcnt'[u][j] = oldcnt[u][j]
      BY <1>5, <2>1
    <3> QED BY <3>1, TotalSame
  <2>2. /\ Total(oldcnt', i, "in") = Total(oldcnt, i, "in") + (cnt[t][i]["in"] - oldcnt[t][i]["in"])
        /\ Total(oldcnt', i, "out") = Total(oldcnt, i, "out") + (cnt[t][i]["out"] - oldcnt[t][i]["out"])
    <3>1. \A u \in Threads : u # t => oldcnt'[u][i] = oldcnt[u][i]
      BY <1>1, <1>5
    <3>2. oldcnt'[t][i] = cnt[t][i] /\ oldcnt \in [Threads -> [Intfs -> CntType]]
      BY <1>1, <1>5 DEF IntfInv, IntfTypeOK
    <3>3. \A d \in {"in", "out"} :
            Total(oldcnt', i, d) = Total(oldcnt, i, d) + (oldcnt'[t][i][d] - oldcnt[t][i][d])
      <4> HIDE DEF i, t
      <4> TAKE d \in {"in", "out"}
      <4>1. i \in Intfs /\ t \in Threads /\ oldcnt' \in [Threads -> [Intfs -> CntType]]
        BY <1>1, <1>4
      <4> QED BY <3>1, <3>2, <4>1, TotalPoint
    <3> QED BY <3>2, <3>3
  <2>3. /\ istat[i].in + off[i].in + calc.cnt.in = Total(oldcnt, i, "in")
        /\ istat[i].out + off[i].out + calc.cnt.out = Total(oldcnt, i, "out")
    BY <1>1 DEF IntfInv, CollectedInv
  <2>4. istat[i] \in StatType /\ off[i] \in OffType
    BY <1>1 DEF IntfInv, IntfTypeOK
  <2>5. /\ istat[i].in + off[i].in + more.in = Total(oldcnt', i, "in")
        /\ istat[i].out + off[i].out + more.out = Total(oldcnt', i, "out")
    BY <1>3, <1>10, <2>2, <2>3, <2>4 DEF StatType, OffType, CntType
  <2>6. \A j \in Intfs : j # i => /\ istat[j].in + off[j].in = Total(oldcnt, j, "in")
                                  /\ istat[j].out + off[j].out = Total(oldcnt, j, "out")
    BY DEF IntfInv, CollectedInv, Adding
  <2>7. \A j \in Intfs : j # i => /\ istat[j].in + off[j].in = Total(oldcnt', j, "in")
                                  /\ istat[j].out + off[j].out = Total(oldcnt', j, "out")
    BY <2>1, <2>6
  <2>8. Adding(i)'
    BY <1>9 DEF Adding
  <2> QED BY <1>1, <1>2, <1>9, <2>5, <2>7, <2>8 DEF CollectedInv, Total
<1>15. LoadedInv'
  BY <1>2, <1>9 DEF IntfInv, LoadedInv
<1>16. SentInv'
  <2> DEFINE f == [u \in Threads |-> IF u < t THEN oldcnt[u][i].out ELSE cnt[u][i].out]
             g == [u \in Threads |-> IF u < t + 1 THEN oldcnt'[u][i].out ELSE cnt[u][i].out]
  <2>1. f = g
    <3>1. ASSUME NEW u \in Threads
          PROVE  f[u] = g[u]
      <4>1. CASE u = t
        BY <1>1, <1>5, <4>1, IntfSizes
      <4>2. CASE u # t
        <5>1. (u < t) = (u < t + 1)
          BY <1>1, <4>2, IntfSizes
        <5> QED BY <1>1, <1>5, <4>2, <5>1
      <4> QED BY <4>1, <4>2
    <3> QED BY <3>1
  <2>2. calc.hw.tx <= SumTo(f, NThreads)
    BY <1>1 DEF IntfInv, SentInv, ReadSoFar
  <2>3. CASE t # NThreads
    <3>1. ReadSoFar' = SumTo(g, NThreads)
      BY <1>2, <1>9 DEF ReadSoFar
    <3> QED BY <1>2, <1>9, <2>1, <2>2, <2>3, <3>1 DEF IntfInv, SentInv, Total
  <2>4. CASE t = NThreads
    <3>1. \A u \in Threads : u < t + 1
      BY <2>4, IntfSizes
    <3>2. g = [u \in Threads |-> oldcnt'[u][i].out]
      BY <3>1
    <3>3. calc.hw.tx <= Total(oldcnt', i, "out")
      BY <2>1, <2>2, <3>2 DEF Total
    <3> QED BY <1>2, <1>9, <2>4, <3>3 DEF IntfInv, SentInv, Total
  <2> QED BY <2>3, <2>4
<1>17. TxInv'
  BY <1>1, <1>2, <1>9 DEF IntfInv, TxInv, SentUpTo
<1> QED BY <1>11, <1>12, <1>13, <1>14, <1>15, <1>16, <1>17 DEF IntfInv

LEMMA CalcLoadStep ==
  ASSUME IntfInv, CalcLoad
  PROVE  IntfInv'
<1>1. calc.pc \in {"loadCounts", "loadPhy", "loadError"} /\ calc.i \in Intfs /\ main = "calc"
      /\ calc \in CalcType
  BY DEF IntfInv, IntfTypeOK, CalcInv, CalcLoad
<1>2. UNCHANGED <<cnt, hw, oldcnt, lasthw, istat, inProcess, first, off, raced, cleared, portVars,
                  main>>
  BY DEF CalcLoad
<1>3. istat[calc.i] \in StatType /\ off[calc.i] \in OffType
  BY <1>1 DEF IntfInv, IntfTypeOK
<1>4. /\ calc' \in CalcType /\ calc'.i = calc.i /\ calc'.cnt = calc.cnt /\ calc'.hw = calc.hw
      /\ calc'.tmp = istat[calc.i] /\ calc'.off = off[calc.i]
      /\ calc.pc = "loadCounts" => calc'.pc = "storeCounts"
      /\ calc.pc = "loadPhy" => calc'.pc = "storePhy"
      /\ calc.pc = "loadError" => calc'.pc = "storeError"
  BY <1>1, <1>3 DEF CalcLoad, CalcType
<1>5. calc'.pc # "idle" /\ calc'.pc # "phy" /\ calc'.pc # "thread" /\ calc'.pc # "loadCounts"
      /\ (calc'.pc \in {"loadError", "storeError"} <=> calc.pc = "loadError")
      /\ (calc'.pc = "storeCounts" <=> calc.pc = "loadCounts")
  BY <1>1, <1>4
<1>6. IntfTypeOK'
  BY <1>1, <1>2, <1>4, <1>5 DEF IntfInv, IntfTypeOK, portVars
<1>7. PortsInv'
  BY <1>2 DEF IntfInv, PortsInv, portVars
<1>8. CalcInv'
  BY <1>1, <1>2, <1>4, <1>5 DEF IntfInv, CalcInv
<1>9. CollectedInv'
  BY <1>1, <1>2, <1>4, <1>5 DEF IntfInv, CollectedInv, Adding, Total
<1>10. LoadedInv'
  BY <1>2, <1>4 DEF IntfInv, LoadedInv
<1>11. SentInv'
  BY <1>1, <1>2, <1>4, <1>5 DEF IntfInv, SentInv, Total
<1>12. TxInv'
  BY <1>1, <1>2, <1>4, <1>5 DEF IntfInv, TxInv, SentUpTo
<1> QED BY <1>6, <1>7, <1>8, <1>9, <1>10, <1>11, <1>12 DEF IntfInv

LEMMA CalcStoreCountsStep ==
  ASSUME IntfInv, CalcStoreCounts
  PROVE  IntfInv'
<1> DEFINE k == calc.i
<1>1. calc.pc = "storeCounts" /\ k \in Intfs /\ main = "calc" /\ calc \in CalcType
  BY DEF IntfInv, IntfTypeOK, CalcInv, CalcStoreCounts
<1>2. UNCHANGED <<cnt, hw, oldcnt, lasthw, inProcess, first, raced, cleared, portVars, main>>
  BY DEF CalcStoreCounts
<1>3. calc' = [calc EXCEPT !.pc = "loadPhy"] /\ off' = [off EXCEPT ![k] = calc.off]
      /\ istat' = [istat EXCEPT ![k].in = calc.tmp.in + calc.cnt.in,
                                ![k].out = calc.tmp.out + calc.cnt.out]
  BY DEF CalcStoreCounts
<1>4. calc' \in CalcType /\ calc'.pc = "loadPhy" /\ calc'.i = k /\ calc'.hw = calc.hw
  BY <1>1, <1>3 DEF CalcType
<1>5. istat[k] \in StatType /\ calc.tmp \in StatType /\ calc.cnt \in CntType /\ calc.off \in OffType
      /\ off \in [Intfs -> OffType] /\ istat \in [Intfs -> StatType]
  BY <1>1 DEF IntfInv, IntfTypeOK, CalcType
<1> HIDE DEF k
<1>6. /\ \A i \in Intfs : i # k => istat'[i] = istat[i] /\ off'[i] = off[i]
      /\ off'[k] = calc.off /\ off' \in [Intfs -> OffType]
      /\ istat'[k] \in StatType /\ istat' \in [Intfs -> StatType]
      /\ istat'[k].in = calc.tmp.in + calc.cnt.in /\ istat'[k].out = calc.tmp.out + calc.cnt.out
      /\ istat'[k].tx_ok = istat[k].tx_ok /\ istat'[k].tx_error = istat[k].tx_error
  <2>1. calc.tmp.in + calc.cnt.in \in Nat /\ calc.tmp.out + calc.cnt.out \in Nat
    BY <1>5 DEF StatType, CntType
  <2> DEFINE s == [istat[k] EXCEPT !.in = calc.tmp.in + calc.cnt.in,
                                   !.out = calc.tmp.out + calc.cnt.out]
  <2>2. s \in StatType /\ s.in = calc.tmp.in + calc.cnt.in /\ s.out = calc.tmp.out + calc.cnt.out
        /\ s.tx_ok = istat[k].tx_ok /\ s.tx_error = istat[k].tx_error
    BY <1>5, <2>1 DEF StatType
  <2>3. istat' = [istat EXCEPT ![k] = s]
    BY <1>1, <1>3, <1>5
  <2> HIDE DEF s
  <2> QED BY <1>1, <1>3, <1>5, <2>2, <2>3
<1>7. IntfTypeOK'
  BY <1>1, <1>2, <1>4, <1>6 DEF IntfInv, IntfTypeOK, portVars
<1>8. PortsInv'
  BY <1>2 DEF IntfInv, PortsInv, portVars
<1>9. CalcInv'
  BY <1>1, <1>2, <1>4 DEF IntfInv, CalcInv, k
<1>10. CollectedInv'
  <2>1. \A i \in Intfs : i # k => /\ istat[i].in + off[i].in = Total(oldcnt, i, "in")
                                  /\ istat[i].out + off[i].out = Total(oldcnt, i, "out")
    BY DEF IntfInv, CollectedInv, Adding, k
  <2>2. /\ calc.tmp.in + calc.off.in + calc.cnt.in = Total(oldcnt, k, "in")
        /\ calc.tmp.out + calc.off.out + calc.cnt.out = Total(oldcnt, k, "out")
    BY <1>1 DEF IntfInv, CollectedInv, k
  <2>3. /\ istat'[k].in + off'[k].in = Total(oldcnt, k, "in")
        /\ istat'[k].out + off'[k].out = Total(oldcnt, k, "out")
    BY <1>5, <1>6, <2>2 DEF StatType, CntType, OffType
  <2>4. \A i \in Intfs : /\ istat'[i].in + off'[i].in = Total(oldcnt, i, "in")
                         /\ istat'[i].out + off'[i].out = Total(oldcnt, i, "out")
    BY <1>6, <2>1, <2>3
  <2> QED BY <1>2, <1>4, <2>4 DEF CollectedInv, Total
<1>11. LoadedInv'
  BY <1>2, <1>4 DEF IntfInv, LoadedInv
<1>12. SentInv'
  BY <1>1, <1>2, <1>4 DEF IntfInv, SentInv, Total, k
<1>13. TxInv'
  <2>1. ASSUME k \notin raced
        PROVE  istat[k].out <= istat'[k].out /\ off'[k] = off[k]
    <3>1. calc.tmp = istat[k] /\ calc.off = off[k]
      BY <1>1, <2>1 DEF IntfInv, LoadedInv, k
    <3> QED BY <1>5, <1>6, <3>1 DEF StatType, CntType
  <2>2. istat'[k] \in StatType /\ istat[k] \in StatType
    BY <1>5, <1>6
  <2>3. \A i \in Intfs : SentUpTo(i)' = lasthw[i].tx /\ SentUpTo(i) = lasthw[i].tx
    BY <1>1, <1>2, <1>4 DEF SentUpTo
  <2>4. ASSUME k \notin cleared
        PROVE  /\ istat'[k].tx_ok <= istat'[k].out
               /\ istat'[k].tx_error <= istat'[k].out
               /\ istat'[k].tx_ok + off'[k].out <= lasthw[k].tx
    <3>1. k \notin raced
      BY <2>4 DEF IntfInv, LoadedInv
    <3>2. istat[k].tx_ok <= istat[k].out /\ istat[k].tx_error <= istat[k].out
          /\ istat[k].tx_ok + off[k].out <= lasthw[k].tx
      BY <1>1, <2>3, <2>4 DEF IntfInv, TxInv
    <3> QED BY <1>6, <2>1, <2>2, <3>1, <3>2 DEF StatType
  <2>5. ASSUME k \notin raced
        PROVE  istat'[k].tx_error <= istat'[k].out
    <3>1. istat[k].tx_error <= istat[k].out
      BY <1>1, <2>5 DEF IntfInv, TxInv
    <3> QED BY <1>6, <2>1, <2>2, <2>5, <3>1 DEF StatType
  <2>6. \A i \in Intfs : i \notin cleared =>
          /\ istat'[i].tx_ok <= istat'[i].out
          /\ istat'[i].tx_error <= istat'[i].out
          /\ istat'[i].tx_ok + off'[i].out <= lasthw[i].tx
    BY <1>6, <2>3, <2>4 DEF IntfInv, TxInv
  <2>7. \A i \in Intfs : i \notin raced => istat'[i].tx_error <= istat'[i].out
    BY <1>6, <2>5 DEF IntfInv, TxInv
  <2> QED BY <1>2, <2>3, <2>6, <2>7 DEF TxInv
<1> QED BY <1>7, <1>8, <1>9, <1>10, <1>11, <1>12, <1>13 DEF IntfInv

LEMMA CalcStorePhyStep ==
  ASSUME IntfInv, CalcStorePhy
  PROVE  IntfInv'
<1> DEFINE k == calc.i
<1>1. calc.pc = "storePhy" /\ k \in Intfs /\ main = "calc" /\ calc \in CalcType
  BY DEF IntfInv, IntfTypeOK, CalcInv, CalcStorePhy
<1>2. UNCHANGED <<cnt, hw, oldcnt, lasthw, inProcess, first, off, raced, cleared, portVars, main>>
  BY DEF CalcStorePhy
<1>3. calc' = [calc EXCEPT !.pc = "loadError"]
      /\ istat' = [istat EXCEPT
           ![k].tx_ok = calc.tmp.tx_ok + calc.hw.tx - lasthw[k].tx,
           ![k].miss = calc.tmp.miss + calc.hw.miss - lasthw[k].miss]
  BY DEF CalcStorePhy
<1>4. calc' \in CalcType /\ calc'.pc = "loadError" /\ calc'.i = k /\ calc'.hw = calc.hw
  BY <1>1, <1>3 DEF CalcType
<1>5. istat[k] \in StatType /\ calc.tmp \in StatType /\ calc.hw \in HwType /\ lasthw[k] \in HwType
      /\ off[k] \in OffType /\ istat \in [Intfs -> StatType]
  BY <1>1 DEF IntfInv, IntfTypeOK, CalcType
<1>6. lasthw[k].tx <= calc.hw.tx /\ lasthw[k].miss <= calc.hw.miss
  BY <1>1 DEF IntfInv, CalcInv
<1> HIDE DEF k
<1>7. /\ \A i \in Intfs : i # k => istat'[i] = istat[i]
      /\ istat'[k] \in StatType /\ istat' \in [Intfs -> StatType]
      /\ istat'[k].in = istat[k].in /\ istat'[k].out = istat[k].out
      /\ istat'[k].tx_ok = calc.tmp.tx_ok + (calc.hw.tx - lasthw[k].tx)
      /\ istat'[k].tx_error = istat[k].tx_error
  <2> DEFINE ok == calc.tmp.tx_ok + (calc.hw.tx - lasthw[k].tx)
             ms == calc.tmp.miss + (calc.hw.miss - lasthw[k].miss)
             s == [istat[k] EXCEPT !.tx_ok = ok, !.miss = ms]
  <2>1. ok \in Nat /\ ms \in Nat
    BY <1>5, <1>6 DEF StatType, HwType
  <2>2. istat' = [istat EXCEPT ![k] = s]
    <3>1. calc.tmp.tx_ok + calc.hw.tx - lasthw[k].tx = ok
          /\ calc.tmp.miss + calc.hw.miss - lasthw[k].miss = ms
      BY <1>5 DEF StatType, HwType
    <3> QED BY <1>1, <1>3, <1>5, <3>1
  <2> HIDE DEF ok, ms
  <2>3. s \in StatType /\ s.in = istat[k].in /\ s.out = istat[k].out
        /\ s.tx_ok = ok /\ s.tx_error = istat[k].tx_error
    BY <1>5, <2>1 DEF StatType
  <2> HIDE DEF s
  <2> QED BY <1>1, <1>5, <2>2, <2>3 DEF ok
<1>8. IntfTypeOK'
  BY <1>1, <1>2, <1>4, <1>7 DEF IntfInv, IntfTypeOK, portVars
<1>9. PortsInv'
  BY <1>2 DEF IntfInv, PortsInv, portVars
<1>10. CalcInv'
  BY <1>1, <1>2, <1>4 DEF IntfInv, CalcInv, k
<1>11. \A i \in Intfs : /\ istat[i].in + off[i].in = Total(oldcnt, i, "in")
                        /\ istat[i].out + off[i].out = Total(oldcnt, i, "out")
  BY <1>1 DEF IntfInv, CollectedInv, Adding
<1>12. CollectedInv'
  <2>1. \A i \in Intfs : /\ istat'[i].in + off[i].in = Total(oldcnt, i, "in")
                         /\ istat'[i].out + off[i].out = Total(oldcnt, i, "out")
    BY <1>7, <1>11
  <2> QED BY <1>2, <1>4, <2>1 DEF CollectedInv, Total
<1>13. LoadedInv'
  BY <1>2, <1>4 DEF IntfInv, LoadedInv
<1>14. SentInv'
  BY <1>1, <1>2, <1>4 DEF IntfInv, SentInv, Total, k
<1>15. TxInv'
  <2>1. ASSUME k \notin cleared
        PROVE  /\ istat'[k].tx_ok <= istat'[k].out
               /\ istat'[k].tx_error <= istat'[k].out
               /\ istat'[k].tx_ok + off[k].out <= calc.hw.tx
    <3>1. k \notin raced
      BY <2>1 DEF IntfInv, LoadedInv
    <3>2. calc.tmp = istat[k]
      BY <1>1, <3>1 DEF IntfInv, LoadedInv, k
    <3>3. istat[k].tx_error <= istat[k].out /\ istat[k].tx_ok + off[k].out <= lasthw[k].tx
      BY <1>1, <2>1 DEF IntfInv, TxInv, SentUpTo
    <3>4. calc.hw.tx <= Total(oldcnt, k, "out") /\ istat[k].out + off[k].out = Total(oldcnt, k, "out")
      BY <1>1, <1>11 DEF IntfInv, SentInv, k
    <3>5. istat'[k].tx_ok = istat[k].tx_ok + (calc.hw.tx - lasthw[k].tx)
          /\ istat'[k].out = istat[k].out /\ istat'[k].tx_error = istat[k].tx_error
      BY <1>7, <3>2
    <3>6. istat[k].tx_ok \in Int /\ istat[k].out \in Int /\ calc.hw.tx \in Int /\ lasthw[k].tx \in Int
          /\ off[k].out \in Int
      BY <1>5 DEF StatType, HwType, OffType
    <3> QED BY <3>3, <3>4, <3>5, <3>6
  <2>2. \A i \in Intfs : SentUpTo(i)' = (IF i = k THEN calc.hw.tx ELSE lasthw[i].tx)
                         /\ SentUpTo(i) = lasthw[i].tx
    BY <1>1, <1>2, <1>4 DEF SentUpTo
  <2>3. \A i \in Intfs : i \notin cleared =>
          /\ istat'[i].tx_ok <= istat'[i].out
          /\ istat'[i].tx_error <= istat'[i].out
          /\ istat'[i].tx_ok + off[i].out <= SentUpTo(i)'
    BY <1>7, <2>1, <2>2 DEF IntfInv, TxInv
  <2>4. \A i \in Intfs : i \notin raced => istat'[i].tx_error <= istat'[i].out
    BY <1>7 DEF IntfInv, TxInv
  <2> QED BY <1>2, <2>3, <2>4 DEF TxInv
<1> QED BY <1>8, <1>9, <1>10, <1>12, <1>13, <1>14, <1>15 DEF IntfInv

LEMMA U64Below ==
  ASSUME NEW n \in Nat
  PROVE  U64(n) \in Nat /\ U64(n) <= n
BY DEF U64

LEMMA CalcStoreErrorStep ==
  ASSUME IntfInv, CalcStoreError
  PROVE  IntfInv'
<1> DEFINE k == calc.i
<1>1. calc.pc = "storeError" /\ k \in Intfs /\ main = "calc" /\ calc \in CalcType
  BY DEF IntfInv, IntfTypeOK, CalcInv, CalcStoreError
<1>2. UNCHANGED <<cnt, hw, oldcnt, first, off, raced, cleared, portVars>> /\ NextIntf
      /\ lasthw' = [lasthw EXCEPT ![k] = calc.hw]
  BY DEF CalcStoreError
<1>3. istat[k] \in StatType /\ calc.tmp \in StatType /\ calc.hw \in HwType
      /\ istat \in [Intfs -> StatType] /\ lasthw \in [Intfs -> HwType]
  BY <1>1 DEF IntfInv, IntfTypeOK, CalcType
<1>4. lasthw' \in [Intfs -> HwType]
  BY <1>1, <1>2, <1>3
<1>5. \A i \in Intfs : lasthw'[i].tx <= hw[i].tx /\ lasthw'[i].miss <= hw[i].miss
  BY <1>1, <1>2, <1>3 DEF IntfInv, IntfTypeOK, CalcInv
<1>6. \A i \in Intfs : i \notin cleared => istat[i].tx_ok + off[i].out <= lasthw'[i].tx
  BY <1>1, <1>2, <1>3 DEF IntfInv, TxInv, SentUpTo
<1>7. StatKept
  <2>1. CASE ~ TxErrorKnown(calc.tmp)
    BY <2>1, KeptSame DEF CalcStoreError
  <2>2. CASE TxErrorKnown(calc.tmp)
    <3> DEFINE e == U64(calc.tmp.out - calc.tmp.tx_ok)
               s == [istat[k] EXCEPT !.tx_error = e]
    <3>1. calc.tmp.out - calc.tmp.tx_ok \in Nat /\ calc.tmp.out \in Nat
          /\ calc.tmp.out - calc.tmp.tx_ok <= calc.tmp.out
      BY <1>3, <2>2 DEF StatType, TxErrorKnown
    <3>2. e \in Nat /\ e <= calc.tmp.out - calc.tmp.tx_ok
      BY <3>1, U64Below
    <3>3. e \in Nat /\ e <= calc.tmp.out
      BY <1>3, <3>1, <3>2 DEF StatType
    <3>4. istat' = [istat EXCEPT ![k] = s]
      BY <1>1, <1>3, <2>2 DEF CalcStoreError
    <3> HIDE DEF e
    <3>5. s \in StatType /\ s.in = istat[k].in /\ s.out = istat[k].out /\ s.tx_ok = istat[k].tx_ok
          /\ s.tx_error = e
      BY <1>3, <3>3 DEF StatType
    <3> HIDE DEF s
    <3>6. k \notin raced => e <= s.out
      <4>1. k \notin raced => calc.tmp = istat[k]
        BY <1>1 DEF IntfInv, LoadedInv
      <4> QED BY <3>3, <3>5, <4>1
    <3> HIDE DEF k
    <3>7. istat' \in [Intfs -> StatType] /\ istat'[k] = s /\ \A i \in Intfs : i # k => istat'[i] = istat[i]
      BY <1>1, <1>3, <3>4, <3>5
    <3>8. \A i \in Intfs : i \notin raced => istat[i].tx_error <= istat[i].out
      BY DEF IntfInv, TxInv
    <3>9. \A i \in Intfs : istat'[i].in = istat[i].in /\ istat'[i].out = istat[i].out
                           /\ istat'[i].tx_ok = istat[i].tx_ok
      BY <3>5, <3>7
    <3>10. \A i \in Intfs : i \notin raced => istat'[i].tx_error <= istat'[i].out
      BY <3>5, <3>6, <3>7, <3>8
    <3> QED BY <3>7, <3>9, <3>10 DEF StatKept
  <2> QED BY <2>1, <2>2
<1> QED BY <1>1, <1>2, <1>4, <1>5, <1>6, <1>7, NextIntfStep

LEMMA ZeroedStep ==
  ASSUME IntfInv, NEW I, Zeroed(I),
         UNCHANGED <<cnt, hw, oldcnt, lasthw, calc, inProcess, first, portVars>>,
         main' = main \/ (main = "cmd" /\ main' = "reply")
  PROVE  IntfInv'
<1>1. \A i \in Intfs : istat[i] \in StatType /\ off[i] \in OffType
  BY DEF IntfInv, IntfTypeOK
<1>2. \A i \in Intfs : i \in I => istat'[i] = NoStat /\ off'[i].in = off[i].in + istat[i].in
                                  /\ off'[i].out = off[i].out + istat[i].out /\ off'[i] \in OffType
  BY <1>1 DEF Zeroed, StatType, OffType
<1>3. \A i \in Intfs : i \notin I => istat'[i] = istat[i] /\ off'[i] = off[i]
  BY DEF Zeroed
<1>4. NoStat \in StatType /\ NoStat.in = 0 /\ NoStat.out = 0 /\ NoStat.tx_error = 0
  BY NoneTyped DEF NoStat
<1>5. istat' \in [Intfs -> StatType] /\ off' \in [Intfs -> OffType]
  <2>1. \A i \in Intfs : istat'[i] \in StatType /\ off'[i] \in OffType
    BY <1>1, <1>2, <1>3, <1>4
  <2>2. istat' = [i \in Intfs |-> istat'[i]] /\ off' = [i \in Intfs |-> off'[i]]
    BY DEF Zeroed
  <2> QED BY <2>1, <2>2
<1>6. raced' = (IF main = "calc" THEN raced \cup I ELSE raced \ I) /\ cleared' = cleared \cup I
  BY DEF Zeroed
<1>7. IntfTypeOK'
  BY <1>5 DEF IntfInv, IntfTypeOK, portVars
<1>8. PortsInv'
  BY DEF IntfInv, PortsInv, portVars
<1>9. CalcInv'
  BY DEF IntfInv, CalcInv
<1>10. CollectedInv'
  <2>1. \A i \in Intfs : istat'[i].in + off'[i].in = istat[i].in + off[i].in
                         /\ istat'[i].out + off'[i].out = istat[i].out + off[i].out
    <3> SUFFICES ASSUME NEW i \in Intfs
                 PROVE  istat'[i].in + off'[i].in = istat[i].in + off[i].in
                        /\ istat'[i].out + off'[i].out = istat[i].out + off[i].out
      OBVIOUS
    <3>1. CASE i \in I
      BY <1>1, <1>2, <1>4, <3>1 DEF StatType, OffType
    <3>2. CASE i \notin I
      BY <1>3, <3>2
    <3> QED BY <3>1, <3>2
  <2>2. ASSUME calc.pc \in {"thread", "loadCounts"}
        PROVE  /\ istat'[calc.i].in + off'[calc.i].in + calc.cnt.in = Total(oldcnt, calc.i, "in")
               /\ istat'[calc.i].out + off'[calc.i].out + calc.cnt.out = Total(oldcnt, calc.i, "out")
    <3>1. calc.i \in Intfs
      BY <2>2 DEF IntfInv, CalcInv
    <3>2. istat'[calc.i] \in StatType /\ off'[calc.i] \in OffType /\ istat[calc.i] \in StatType
          /\ off[calc.i] \in OffType /\ calc.cnt \in CntType
      BY <1>1, <1>5, <3>1 DEF IntfInv, IntfTypeOK, CalcType
    <3>3. /\ istat[calc.i].in + off[calc.i].in + calc.cnt.in = Total(oldcnt, calc.i, "in")
          /\ istat[calc.i].out + off[calc.i].out + calc.cnt.out = Total(oldcnt, calc.i, "out")
      BY <2>2 DEF IntfInv, CollectedInv
    <3> QED BY <2>1, <3>1, <3>2, <3>3 DEF StatType, OffType, CntType
  <2>3. \A i \in Intfs : ~ Adding(i) =>
          /\ istat'[i].in + off'[i].in = Total(oldcnt, i, "in")
          /\ istat'[i].out + off'[i].out = Total(oldcnt, i, "out")
    BY <2>1 DEF IntfInv, CollectedInv
  <2>4. calc.pc = "storeCounts" =>
          /\ calc.tmp.in + calc.off.in + calc.cnt.in = Total(oldcnt, calc.i, "in")
          /\ calc.tmp.out + calc.off.out + calc.cnt.out = Total(oldcnt, calc.i, "out")
    BY DEF IntfInv, CollectedInv
  <2> QED BY <2>2, <2>3, <2>4 DEF CollectedInv, Adding, Total
<1>11. LoadedInv'
  <2>1. raced' \subseteq cleared'
    BY <1>6 DEF IntfInv, LoadedInv
  <2>2. ASSUME calc.pc \in {"storeCounts", "storePhy", "storeError"}, calc.i \notin raced'
        PROVE  calc.tmp = istat'[calc.i] /\ calc.off = off'[calc.i]
    <3>1. main = "calc" /\ calc.i \in Intfs
      BY <2>2 DEF IntfInv, IntfTypeOK, CalcInv
    <3>2. calc.i \notin I /\ calc.i \notin raced
      BY <1>6, <2>2, <3>1
    <3> QED BY <1>3, <2>2, <3>1, <3>2 DEF IntfInv, LoadedInv
  <2> QED BY <2>1, <2>2 DEF LoadedInv
<1>12. SentInv'
  BY DEF IntfInv, SentInv, ReadSoFar, Total
<1>13. TxInv'
  <2>1. \A i \in Intfs : SentUpTo(i)' = SentUpTo(i)
    BY DEF SentUpTo
  <2>2. \A i \in Intfs : i \notin cleared' => i \notin I /\ i \notin cleared
    BY <1>6
  <2>3. \A i \in Intfs : i \notin raced' => i \in I \/ i \notin raced
    BY <1>6
  <2>4. \A i \in Intfs : i \notin cleared' =>
          /\ istat'[i].tx_ok <= istat'[i].out
          /\ istat'[i].tx_error <= istat'[i].out
          /\ istat'[i].tx_ok + off'[i].out <= SentUpTo(i)'
    BY <1>3, <2>1, <2>2 DEF IntfInv, TxInv
  <2>5. \A i \in Intfs : i \notin raced' => istat'[i].tx_error <= istat'[i].out
    BY <1>2, <1>3, <1>4, <2>3 DEF IntfInv, TxInv
  <2> QED BY <2>4, <2>5 DEF TxInv
<1> QED BY <1>7, <1>8, <1>9, <1>10, <1>11, <1>12, <1>13 DEF IntfInv

\* VPP is started again: what it counted is gone, what restd sees is not.
LEMMA IntfRestartStep ==
  ASSUME IntfInv, IntfRestart
  PROVE  IntfInv'
<1>1. /\ cnt' = [t \in Threads |-> [i \in Intfs |-> NoCnt]] /\ oldcnt' = cnt'
      /\ hw' = [i \in Intfs |-> NoHw] /\ lasthw' = hw'
      /\ calc' = NoCalc /\ calc'.pc = "idle"
      /\ UNCHANGED <<istat, icnt, wire, link, raced, cleared>>
      /\ off' = [i \in Intfs |-> [in |-> - istat[i].in, out |-> - istat[i].out]]
  BY DEF IntfRestart, NoCalc
<1>2. /\ cnt' \in [Threads -> [Intfs -> CntType]] /\ hw' \in [Intfs -> HwType]
      /\ NoHw.tx = 0 /\ NoHw.miss = 0 /\ NoCnt.in = 0 /\ NoCnt.out = 0 /\ calc' \in CalcType
  BY <1>1, NoneTyped DEF NoHw, NoCnt
<1>3. \A i \in Intfs : istat[i] \in StatType
  BY DEF IntfInv, IntfTypeOK
<1>4. \A i \in Intfs : off'[i] \in OffType /\ off'[i].in = - istat[i].in /\ off'[i].out = - istat[i].out
  BY <1>1, <1>3 DEF StatType, OffType
<1>5. off' \in [Intfs -> OffType]
  BY <1>1, <1>4
<1>6. \A i \in Intfs : hw'[i] = NoHw /\ lasthw'[i] = NoHw /\ \A t \in Threads : oldcnt'[t][i] = NoCnt
                       /\ cnt'[t][i] = NoCnt
  BY <1>1
<1>7. IntfTypeOK'
  <2>1. \A t \in Threads, i \in Intfs :
          oldcnt'[t][i].in <= cnt'[t][i].in /\ oldcnt'[t][i].out <= cnt'[t][i].out
    BY <1>2, <1>6
  <2>2. \A i \in Intfs : lasthw'[i].tx <= hw'[i].tx /\ lasthw'[i].miss <= hw'[i].miss
    BY <1>2, <1>6
  <2>3. lasthw' \in [Intfs -> HwType] /\ oldcnt' \in [Threads -> [Intfs -> CntType]]
    BY <1>1, <1>2
  <2>4. /\ main' = "free" /\ nports' \in 0 .. MaxIntf /\ macs' \subseteq Intfs
        /\ ports' \in {"boot", "found", "none", "named", "linked", "up"}
    BY IntfSizes DEF IntfRestart
  <2>5. inProcess' \in BOOLEAN /\ first' \in BOOLEAN
    BY Zenon DEF IntfRestart
  <2>6. icnt' \in 0 .. MaxIntf /\ wire' \subseteq Intfs /\ link' \subseteq Intfs
        /\ istat' \in [Intfs -> StatType]
    BY <1>1 DEF IntfInv, IntfTypeOK
  <2> QED BY <1>1, <1>2, <1>5, <2>1, <2>2, <2>3, <2>4, <2>5, <2>6 DEF IntfTypeOK
<1>8. PortsInv'
  BY DEF PortsInv, IntfRestart
<1>9. CalcInv'
  BY <1>1 DEF CalcInv
<1>10. \A i \in Intfs : /\ Total(oldcnt', i, "in") = 0 /\ Total(oldcnt', i, "out") = 0
                        /\ Total(cnt', i, "out") = 0
  BY <1>6, TotalZero
<1>11. CollectedInv'
  <2>1. \A i \in Intfs : istat'[i].in + off'[i].in = 0 /\ istat'[i].out + off'[i].out = 0
    BY <1>1, <1>3, <1>4 DEF StatType
  <2> QED BY <1>1, <1>10, <2>1 DEF CollectedInv, Total
<1>12. LoadedInv'
  BY <1>1 DEF IntfInv, LoadedInv
<1>13. SentInv'
  BY <1>1, <1>2, <1>6, <1>10 DEF SentInv, Total
<1>14. TxInv'
  <2>1. \A i \in Intfs : SentUpTo(i)' = 0
    BY <1>1, <1>2, <1>6 DEF SentUpTo
  <2>2. \A i \in Intfs : i \notin cleared =>
          istat[i].tx_ok <= istat[i].out /\ istat[i].tx_error <= istat[i].out
    BY DEF IntfInv, TxInv
  <2>3. \A i \in Intfs : i \notin cleared => istat[i].tx_ok + off'[i].out <= 0
    BY <1>3, <1>4, <2>2 DEF StatType
  <2> QED BY <1>1, <2>1, <2>2, <2>3 DEF IntfInv, TxInv
<1> QED BY <1>7, <1>8, <1>9, <1>11, <1>12, <1>13, <1>14 DEF IntfInv

LEMMA IntfInit0 ==
  ASSUME IntfInit \/ IntfUp
  PROVE  IntfInv
<1>1. StatInit
  BY DEF IntfInit, IntfUp
<1>2. /\ cnt = [t \in Threads |-> [i \in Intfs |-> NoCnt]] /\ oldcnt = cnt
      /\ hw = [i \in Intfs |-> NoHw] /\ lasthw = hw
      /\ istat = [i \in Intfs |-> NoStat] /\ off = [i \in Intfs |-> NoCnt]
      /\ calc = NoCalc /\ calc.pc = "idle" /\ raced = {} /\ cleared = {}
  BY <1>1 DEF StatInit, NoCalc
<1>3. /\ cnt \in [Threads -> [Intfs -> CntType]] /\ hw \in [Intfs -> HwType]
      /\ NoHw.tx = 0 /\ NoHw.miss = 0 /\ NoCnt.in = 0 /\ NoCnt.out = 0 /\ calc \in CalcType
      /\ NoStat.in = 0 /\ NoStat.out = 0 /\ NoStat.tx_ok = 0 /\ NoStat.tx_error = 0
      /\ istat \in [Intfs -> StatType] /\ off \in [Intfs -> OffType]
  BY <1>2, NoneTyped DEF NoHw, NoCnt, NoStat
<1>4. \A i \in Intfs : /\ hw[i] = NoHw /\ lasthw[i] = NoHw /\ istat[i] = NoStat /\ off[i] = NoCnt
                       /\ \A t \in Threads : oldcnt[t][i] = NoCnt /\ cnt[t][i] = NoCnt
  BY <1>2
<1>5. IntfTypeOK
  <2>1. \A t \in Threads, i \in Intfs :
          oldcnt[t][i].in <= cnt[t][i].in /\ oldcnt[t][i].out <= cnt[t][i].out
    BY <1>3, <1>4
  <2>2. \A i \in Intfs : lasthw[i].tx <= hw[i].tx /\ lasthw[i].miss <= hw[i].miss
    BY <1>3, <1>4
  <2>3. /\ ports \in {"boot", "found", "none", "named", "linked", "up"}
        /\ icnt \in 0 .. MaxIntf
        /\ wire \subseteq Intfs /\ link \subseteq Intfs /\ macs \subseteq Intfs
        /\ main = "free"
    BY IntfSizes DEF IntfInit, IntfUp, StatInit
  <2>4. nports \in 0 .. MaxIntf
    BY IntfSizes DEF IntfInit, IntfUp
  <2>5. lasthw \in [Intfs -> HwType] /\ oldcnt \in [Threads -> [Intfs -> CntType]]
    BY <1>2, <1>3
  <2>6. inProcess \in BOOLEAN /\ first \in BOOLEAN
    BY Zenon DEF IntfInit, IntfUp, StatInit
  <2> QED BY <1>2, <1>3, <2>1, <2>2, <2>3, <2>4, <2>5, <2>6 DEF IntfTypeOK
<1>6. PortsInv
  BY IntfSizes DEF PortsInv, IntfInit, IntfUp, StatInit
<1>7. CalcInv
  BY <1>2 DEF CalcInv
<1>8. \A i \in Intfs : /\ Total(oldcnt, i, "in") = 0 /\ Total(oldcnt, i, "out") = 0
                       /\ Total(cnt, i, "out") = 0
  BY <1>4, TotalZero
<1>9. CollectedInv
  BY <1>2, <1>3, <1>4, <1>8 DEF CollectedInv
<1>10. LoadedInv
  BY <1>2 DEF LoadedInv
<1>11. SentInv
  BY <1>2, <1>3, <1>4, <1>8 DEF SentInv
<1>12. TxInv
  BY <1>2, <1>3, <1>4 DEF TxInv, SentUpTo
<1> QED BY <1>5, <1>6, <1>7, <1>9, <1>10, <1>11, <1>12 DEF IntfInv

\* No step of VPP, of its hardware or of restd disturbs the statistics.
LEMMA IntfNext ==
  ASSUME IntfInv, [Next]_vars
  PROVE  IntfInv'
<1>1. CASE PortStep
  BY <1>1, PortsFoundStep, StartPortsStep, LinksStep, OpenPortsStep DEF PortStep
<1>2. CASE Period
  BY <1>2, StatTickStep, LinksStep DEF Period
<1>3. CASE CalcStep
  BY <1>3, CalcPhyStep, CalcThreadStep, CalcLoadStep, CalcStoreCountsStep, CalcStorePhyStep,
     CalcStoreErrorStep DEF CalcStep
<1>4. CASE Packet
  BY <1>4, CountStep, CountHwStep, WireChangeStep DEF Packet
<1>5. CASE Restart
  BY <1>5, IntfRestartStep DEF Restart
<1>6. CASE (\E w \in Workers : Hit(w)) \/ Poll \/ SyncRead \/ SyncStore
  BY <1>6, IntfSame DEF Hit, Poll, SyncRead, SyncStore
<1>7. CASE Serve \/ \E c \in ConsoleCmds : Console(c)
  <2>1. main = "free" /\ main' = "cmd" /\ UNCHANGED <<statVars, portVars>>
    BY <1>7 DEF Serve, Console
  <2> QED BY <2>1, MainHandOn
<1>8. CASE SyncBase \/ ClearRebase
  <2>1. main = "cmd" /\ UNCHANGED <<statVars, portVars>>
    BY <1>8 DEF SyncBase, ClearRebase
  <2>2. main' \in {"cmd", "reply"}
    BY <1>8, <2>1 DEF SyncBase, ClearRebase, NextWorker
  <2> QED BY <2>1, <2>2, MainHandOn
<1>9. CASE ClearZero \/ RunShow \/ Reply
  <2>1. main \in {"cmd", "reply"} /\ main' \in {"free", "cmd", "reply"} /\ UNCHANGED <<statVars, portVars>>
    BY <1>9 DEF ClearZero, RunShow, Reply
  <2> QED BY <2>1, MainHandOn
<1>10. CASE RunIntfSync
  <2>1. CASE ~ inProcess /\ icnt > 0
    BY <1>10, <2>1, SyncCalcStep DEF RunIntfSync
  <2>2. CASE ~ (~ inProcess /\ icnt > 0)
    <3>1. main = "cmd" /\ main' = "reply" /\ UNCHANGED <<statVars, portVars>>
      BY <1>10, <2>2 DEF RunIntfSync, statVars
    <3> QED BY <3>1, MainHandOn
  <2> QED BY <2>1, <2>2
<1>11. CASE RunIntfClear
  BY <1>11, ZeroedStep DEF RunIntfClear
<1>12. CASE \E c \in RestCmds : QuickFail(c) \/ \E p \in Ports, lost \in BOOLEAN : Send(c, p, lost)
  BY <1>12, IntfSame DEF QuickFail, Send
<1>13. CASE Receive \/ TimeOut \/ AfterGet \/ AfterPatch \/ AfterOther
  BY <1>13, IntfSame DEF Receive, TimeOut, AfterGet, AfterPatch, AfterOther
<1>14. CASE \E names \in SUBSET Intfs : PatchIntf(names)
  BY <1>14, IntfSame DEF PatchIntf
<1>15. CASE PatchNext
  BY <1>15, ZeroedStep DEF PatchNext
<1>16. CASE UNCHANGED vars
  BY <1>16, IntfSame DEF vars
<1> QED BY <1>1, <1>2, <1>3, <1>4, <1>5, <1>6, <1>7, <1>8, <1>9, <1>10, <1>11, <1>12, <1>13,
           <1>14, <1>15, <1>16 DEF Next, CmdStep

\* What the threads counted is in shared memory, zeroed, or in the hands of the
\* calculation (update_interface_stat_multi), however restd's zeroing falls in between.
THEOREM IntfInvariance == Spec => []IntfInv
<1>1. Init => IntfInv
  BY IntfInit0 DEF Init
<1> QED BY <1>1, IntfNext, PTL DEF Spec

\* calculate_single_interface, clean_interface_stat and
\* update_intf_phy_stat_process: whatever the workers, the hardware, the two
\* callers of the calculation, restd and restarts do, every packet collected
\* is shown or was cleared once, and traffic finds the ports published; no more
\* packets are shown as sent than as put out for interfaces that were never
\* cleared, and the errors never wrap for those not cleared during a
\* calculation.
THEOREM IntfStatAlwaysSound == Spec => []IntfStatSound
<1>1. IntfInv => IntfStatSound
  <2> SUFFICES ASSUME IntfInv PROVE IntfStatSound
    OBVIOUS
  <2>1. CollectedOnce
    <3>1. ASSUME main # "calc", NEW i \in Intfs
          PROVE  /\ istat[i]["in"] + off[i]["in"] = Total(oldcnt, i, "in")
                 /\ istat[i]["out"] + off[i]["out"] = Total(oldcnt, i, "out")
      BY <3>1 DEF IntfInv, IntfTypeOK, CollectedInv, Adding
    <3> QED BY <3>1 DEF CollectedOnce
  <2>2. TxOkWithinOut /\ TxErrorBounded
    BY DEF IntfInv, TxInv, TxOkWithinOut, TxErrorBounded
  <2>3. PortsReadyBeforeTraffic
    BY DEF IntfInv, PortsInv, PortsReadyBeforeTraffic
  <2> QED BY <2>1, <2>2, <2>3 DEF IntfStatSound
<1> QED BY <1>1, IntfInvariance, PTL

-----------------------------------------------------------------------------
(* The commands: types and numbers *)

LEMMA CliSizes ==
  /\ NWorkers \in Nat \ {0} /\ HitMod \in Nat \ {0} /\ RetryTime \in Nat \ {0} /\ 0 \notin Ports
  /\ Workers = 1 .. NWorkers /\ 1 \in Workers /\ 0 \in 0 .. HitMod - 1 /\ 0 \in 0 .. NWorkers
BY CliAssumption DEF Workers

LEMMA NoCmdTyped == NoCmd \in CmdType /\ NoCmd.req \in ReqType /\ NoCmd.req.id = 0 /\ NoCmd.req.seq = 0
                    /\ NoCmd.pc = "none" /\ NoCmd.name = "none"
BY CliSizes DEF NoCmd, CmdType, ReqType

LEMMA BeginCmd ==
  ASSUME NEW name \in ConsoleCmds, NEW req \in ReqType, Begin(name, req)
  PROVE  /\ cmd' \in CmdType /\ cmd'.name = name /\ cmd'.req = req /\ cmd'.w = 1
         /\ cmd'.pc \in PcOf(name) /\ cmd'.pc \notin {"none", "store", "base"}
         /\ name = "acl_clear" => cmd'.pc = "rebase"
<1> DEFINE pc == CASE name = "acl_sync"      -> "read"
                   [] name = "acl_clear"     -> "rebase"
                   [] name = "acl_clear_one" -> "zero"
                   [] OTHER                  -> "run"
<1>1. cmd' = [NoCmd EXCEPT !.name = name, !.req = req, !.w = 1, !.pc = pc]
  BY DEF Begin
<1>2. pc \in PcOf(name) /\ pc \in {"read", "rebase", "zero", "run"}
      /\ (name = "acl_clear" => pc = "rebase")
  BY DEF PcOf
<1> HIDE DEF pc
<1>3. 1 \in 0 .. NWorkers
  BY CliSizes
<1> QED BY <1>1, <1>2, <1>3, NoCmdTyped DEF CmdType

\* the invariant of the commands without that of the hits
NetOK == CliTypeOK /\ NetInv

\* Steps that leave the commands alone.
LEMMA NetSame ==
  ASSUME NetOK, UNCHANGED <<aclVars, netVars, cmd, restVars>>, main' = main \/ main # "cmd"
  PROVE  NetOK'
<1>1. CliTypeOK'
  BY DEF NetOK, CliTypeOK, aclVars, netVars, restVars
<1>2. NetInv'
  BY DEF NetOK, NetInv, Mine, netVars, restVars
<1> QED BY <1>1, <1>2 DEF NetOK

\* Steps that change nothing but the hits.
LEMMA NetAcl ==
  ASSUME NetOK, UNCHANGED <<netVars, cmd, cl, main>>,
         glob' \in [Workers -> 0 .. HitMod - 1], old' \in [Workers -> 0 .. HitMod - 1],
         hit' \in Nat, aoff' \in Int, hits' \in Nat, missed' \in Nat, clearedAt' \in Nat,
         report' \in [val : Int, bound : Int]
  PROVE  NetOK'
<1>1. CliTypeOK'
  BY DEF NetOK, CliTypeOK, netVars
<1>2. NetInv'
  BY DEF NetOK, NetInv, Mine, netVars
<1> QED BY <1>1, <1>2 DEF NetOK

\* The command goes on: at another place, or it is done.
LEMMA NetCmd ==
  ASSUME NetOK, UNCHANGED <<netVars, cl, clearedAt, report>>,
         old' \in [Workers -> 0 .. HitMod - 1], glob' = glob, hits' = hits,
         hit' \in Nat, aoff' \in Int, missed' \in Nat,
         cmd' \in CmdType, cmd'.req = cmd.req, cmd'.name = cmd.name,
         cmd'.pc \in PcOf(cmd.name) \cup {"none"}, cmd'.pc # "none" => main' = "cmd" /\ cmd'.w \in Workers
  PROVE  NetOK'
<1>1. CliTypeOK'
  BY DEF NetOK, CliTypeOK, netVars
<1>2. NetInv'
  BY DEF NetOK, NetInv, Mine, netVars
<1> QED BY <1>1, <1>2 DEF NetOK

\* restd goes on without a new number.
LEMMA NetCall ==
  ASSUME NetOK, UNCHANGED <<srvq, event, cmd, main, glob, old, hits, missed>>,
         hit' \in Nat, aoff' \in Int, clearedAt' \in Nat, report' \in [val : Int, bound : Int],
         rxq' \in [Ports -> Seq([id : Nat, seq : Nat])],
         \A p \in Ports : \A k \in 1 .. Len(rxq'[p]) :
           rxq'[p][k].id = rxq'[p][k].seq /\ rxq'[p][k].seq <= cl.seq,
         cl' \in CallType, cl'.id = cl.id, cl'.seq = cl.seq,
         cl'.pc = "wait" => cl.pc = "wait" /\ cl'.cmd = cl.cmd /\ cl'.port = cl.port /\ cl'.tries > 0,
         cl'.got # 0 => cl'.got = cl.id
  PROVE  NetOK'
<1>1. CliTypeOK'
  BY DEF NetOK, CliTypeOK
<1>2. NetInv'
  BY DEF NetOK, NetInv, Mine
<1> QED BY <1>1, <1>2 DEF NetOK

LEMMA HitNet ==
  ASSUME NetOK, NEW w \in Workers, Hit(w)
  PROVE  NetOK'
<1>1. (glob[w] + 1) % HitMod \in 0 .. HitMod - 1
  BY CliSizes, ModInc DEF NetOK, CliTypeOK
<1>2. glob' \in [Workers -> 0 .. HitMod - 1]
  BY <1>1 DEF NetOK, CliTypeOK, Hit
<1> QED BY <1>2, NetAcl DEF NetOK, CliTypeOK, Hit, intfVars, restVars

LEMMA PollNet ==
  ASSUME NetOK, Poll
  PROVE  NetOK'
<1>1. CliTypeOK'
  BY DEF NetOK, CliTypeOK, Poll, intfVars, aclVars, restVars
<1>2. NetInv'
  BY DEF NetOK, NetInv, Mine, Poll, restVars
<1> QED BY <1>1, <1>2 DEF NetOK

LEMMA SeqElement ==
  ASSUME NEW S, NEW s \in Seq(S), NEW k \in 1 .. Len(s)
  PROVE  s[k] \in S
OBVIOUS

LEMMA HeadTail ==
  ASSUME NEW S, NEW s \in Seq(S), s # <<>>
  PROVE  /\ Head(s) \in S /\ Head(s) = s[1] /\ 1 \in 1 .. Len(s)
         /\ Tail(s) \in Seq(S)
         /\ \A k \in 1 .. Len(Tail(s)) : Tail(s)[k] = s[k + 1] /\ k + 1 \in 1 .. Len(s)
<1>1. Len(s) \in Nat /\ Len(s) # 0
  OBVIOUS
<1>2. 1 \in 1 .. Len(s)
  BY <1>1
<1>3. Head(s) \in S /\ Head(s) = s[1]
  BY <1>2
<1>4. Tail(s) \in Seq(S) /\ Len(Tail(s)) = Len(s) - 1
  OBVIOUS
<1>5. \A k \in 1 .. Len(Tail(s)) : Tail(s)[k] = s[k + 1] /\ k + 1 \in 1 .. Len(s)
  BY <1>1, <1>4
<1> QED BY <1>2, <1>3, <1>4, <1>5

LEMMA ServeNet ==
  ASSUME NetOK, Serve
  PROVE  /\ NetOK' /\ UNCHANGED <<aclVars, rxq, restVars>>
         /\ cmd.pc = "none" /\ cmd'.pc \notin {"none", "store", "base"} /\ cmd'.w = 1
         /\ cmd'.name = "acl_clear" => cmd'.pc = "rebase"
<1> DEFINE m == Head(srvq)
           req == [id |-> m.id, seq |-> m.seq, port |-> m.port]
<1>1. srvq \in Seq([id : Nat, seq : Nat, port : Ports, cmd : RestCmds]) /\ srvq # <<>>
      /\ srvq' = Tail(srvq)
  BY DEF NetOK, CliTypeOK, Serve
<1>2. m = srvq[1] /\ 1 \in 1 .. Len(srvq) /\ m \in [id : Nat, seq : Nat, port : Ports, cmd : RestCmds]
  BY <1>1, HeadTail
<1>3. srvq' \in Seq([id : Nat, seq : Nat, port : Ports, cmd : RestCmds])
      /\ \A k \in 1 .. Len(srvq') : srvq'[k] = srvq[k + 1] /\ k + 1 \in 1 .. Len(srvq)
  BY <1>1, HeadTail
<1>4. m.cmd \in ConsoleCmds /\ req \in ReqType
  BY <1>2 DEF ConsoleCmds, ReqType
<1>5. Begin(m.cmd, req) /\ main' = "cmd" /\ event' = FALSE /\ UNCHANGED <<aclVars, rxq, restVars>>
  BY DEF Serve
<1>6. Mine(m, m.cmd, cl)
  BY <1>2 DEF NetOK, NetInv
<1>7. req.id = m.id /\ req.seq = m.seq
  OBVIOUS
<1> HIDE DEF m, req
<1>8. /\ cmd' \in CmdType /\ cmd'.name = m.cmd /\ cmd'.req = req /\ cmd'.w = 1
      /\ cmd'.pc \in PcOf(m.cmd) /\ cmd'.pc \notin {"none", "store", "base"}
      /\ m.cmd = "acl_clear" => cmd'.pc = "rebase"
  BY <1>4, <1>5, BeginCmd
<1>9. CliTypeOK'
  BY <1>3, <1>5, <1>8 DEF NetOK, CliTypeOK, aclVars, restVars
<1>10. NetInv'
  <2>1. UNCHANGED cl /\ UNCHANGED rxq
    BY <1>5 DEF restVars
  <2>2. \A k \in 1 .. Len(srvq') : Mine(srvq'[k], srvq'[k].cmd, cl')
    BY <1>3, <2>1 DEF NetOK, NetInv, Mine
  <2>3. Mine(cmd.req, cmd.name, cl)'
    BY <1>6, <1>7, <1>8, <2>1 DEF Mine
  <2> QED BY <1>8, <2>1, <2>2, <2>3, CliSizes DEF NetOK, NetInv
<1>11. cmd.pc = "none"
  BY DEF Serve, NetOK, CliTypeOK
<1> QED BY <1>5, <1>8, <1>9, <1>10, <1>11 DEF NetOK

LEMMA ConsoleNet ==
  ASSUME NetOK, NEW c \in ConsoleCmds, Console(c)
  PROVE  /\ NetOK' /\ UNCHANGED <<aclVars, rxq, restVars>>
         /\ cmd.pc = "none" /\ cmd'.pc \notin {"none", "store", "base"} /\ cmd'.req.seq = 0
<1>1. Begin(c, NoCmd.req) /\ main' = "cmd" /\ UNCHANGED <<aclVars, netVars, restVars>>
  BY DEF Console
<1>2. /\ cmd' \in CmdType /\ cmd'.name = c /\ cmd'.req = NoCmd.req /\ cmd'.w = 1
      /\ cmd'.pc \in PcOf(c) /\ cmd'.pc \notin {"none", "store", "base"}
  BY <1>1, BeginCmd, NoCmdTyped
<1>3. CliTypeOK'
  BY <1>1, <1>2 DEF NetOK, CliTypeOK, aclVars, netVars, restVars
<1>4. NetInv'
  <2>1. UNCHANGED cl /\ UNCHANGED srvq /\ UNCHANGED rxq
    BY <1>1 DEF restVars, netVars
  <2>2. cl.seq \in Nat
    BY DEF NetOK, CliTypeOK, CallType
  <2>3. Mine(cmd.req, cmd.name, cl)'
    BY <1>2, <2>1, <2>2, NoCmdTyped DEF Mine, NetOK, NetInv
  <2> QED BY <1>2, <2>1, <2>3, CliSizes DEF NetOK, NetInv, Mine
<1>5. cmd.pc = "none"
  BY DEF Console, NetOK, CliTypeOK
<1>6. UNCHANGED rxq
  BY <1>1 DEF netVars
<1> QED BY <1>1, <1>2, <1>3, <1>4, <1>5, <1>6, NoCmdTyped DEF NetOK

\* What a worker gained lies within the width of its counter.
LEMMA GainedType ==
  ASSUME NetOK, NEW w \in Workers
  PROVE  Gained(w) \in 0 .. HitMod - 1 /\ Gained(w) \in Nat
<1>1. glob[w] \in 0 .. HitMod - 1 /\ old[w] \in 0 .. HitMod - 1
  BY DEF NetOK, CliTypeOK
<1>2. Gained(w) \in 0 .. HitMod - 1
  BY <1>1, CliSizes, ModSub DEF Gained
<1> QED BY <1>2, CliSizes

\* The loop over the workers.
LEMMA NextWorkerCmd ==
  ASSUME NetOK, main = "cmd", cmd.pc # "none",
         NEW pc \in PcOf(cmd.name) \cap {"read", "rebase"},
         NEW done \in {"zero", "reply"}, done \in PcOf(cmd.name) \cup {"reply"},
         NextWorker(pc, done)
  PROVE  /\ cmd' \in CmdType /\ cmd'.req = cmd.req /\ cmd'.name = cmd.name
         /\ cmd'.pc \in PcOf(cmd.name) \cup {"none"}
         /\ cmd'.pc # "none" => main' = "cmd" /\ cmd'.w \in Workers
         /\ \/ cmd.w < NWorkers /\ cmd'.pc = pc /\ cmd'.w = cmd.w + 1
            \/ cmd.w = NWorkers /\ cmd'.pc = (IF done = "reply" THEN "none" ELSE done)
               /\ cmd'.w = cmd.w
<1>1. cmd \in CmdType /\ cmd.w \in Workers
  BY DEF NetOK, CliTypeOK, NetInv
<1>2. CASE cmd.w < NWorkers
  <2>1. cmd' = [cmd EXCEPT !.w = cmd.w + 1, !.pc = pc] /\ main' = main
    BY <1>2 DEF NextWorker
  <2>2. cmd.w + 1 \in Workers /\ cmd.w + 1 \in 0 .. NWorkers
    BY <1>1, <1>2, CliSizes
  <2> QED BY <1>1, <1>2, <2>1, <2>2 DEF CmdType
<1>3. CASE ~ cmd.w < NWorkers
  <2>1. cmd.w = NWorkers
    BY <1>1, <1>3, CliSizes
  <2>2. CASE done = "reply"
    BY <1>1, <1>3, <2>1, <2>2 DEF NextWorker, CmdType
  <2>3. CASE done # "reply"
    BY <1>1, <1>3, <2>1, <2>3 DEF NextWorker, CmdType
  <2> QED BY <2>2, <2>3
<1> QED BY <1>2, <1>3

LEMMA SyncReadNet ==
  ASSUME NetOK, SyncRead
  PROVE  NetOK'
<1>1. cmd \in CmdType /\ cmd.pc = "read" /\ cmd.w \in Workers /\ main = "cmd" /\ main' = main
  BY DEF NetOK, CliTypeOK, NetInv, SyncRead, intfVars
<1>2. cmd.name = "acl_sync"
  BY <1>1 DEF NetOK, NetInv, PcOf
<1>3. hit + Gained(cmd.w) \in Nat /\ glob[cmd.w] \in 0 .. HitMod - 1 /\ aoff \in Int
  BY <1>1, GainedType DEF NetOK, CliTypeOK
<1>4. cmd' = [cmd EXCEPT !.pc = "store", !.tmp = hit + Gained(cmd.w), !.seen = glob[cmd.w], !.off = aoff]
  BY DEF SyncRead
<1>5. cmd' \in CmdType /\ cmd'.req = cmd.req /\ cmd'.name = cmd.name /\ cmd'.pc = "store"
      /\ cmd'.w = cmd.w
  BY <1>1, <1>3, <1>4 DEF CmdType
<1>6. cmd'.pc \in PcOf(cmd.name)
  BY <1>2, <1>5 DEF PcOf
<1> QED BY <1>1, <1>5, <1>6, NetCmd DEF SyncRead, aclVars, restVars, NetOK, CliTypeOK

LEMMA SyncStoreNet ==
  ASSUME NetOK, SyncStore
  PROVE  NetOK'
<1>1. cmd \in CmdType /\ cmd.pc = "store" /\ cmd.w \in Workers /\ main = "cmd" /\ main' = main
  BY DEF NetOK, CliTypeOK, NetInv, SyncStore, intfVars
<1>2. cmd.name = "acl_sync"
  BY <1>1 DEF NetOK, NetInv, PcOf
<1>3. cmd' = [cmd EXCEPT !.pc = "base"] /\ hit' \in Nat /\ aoff' \in Int
  BY <1>1 DEF SyncStore, CmdType
<1>4. cmd' \in CmdType /\ cmd'.req = cmd.req /\ cmd'.name = cmd.name /\ cmd'.pc = "base"
      /\ cmd'.w = cmd.w
  BY <1>1, <1>3 DEF CmdType
<1>5. cmd'.pc \in PcOf(cmd.name)
  BY <1>2, <1>4 DEF PcOf
<1> QED BY <1>1, <1>3, <1>4, <1>5, NetCmd DEF SyncStore, restVars, NetOK, CliTypeOK

LEMMA SyncBaseNet ==
  ASSUME NetOK, SyncBase
  PROVE  NetOK' /\ cmd.name = "acl_sync" /\ cmd.w \in Workers /\ cmd'.pc \in {"read", "none"}
<1>1. cmd \in CmdType /\ cmd.pc = "base" /\ cmd.w \in Workers /\ main = "cmd"
  BY DEF NetOK, CliTypeOK, NetInv, SyncBase
<1>2. cmd.name = "acl_sync"
  BY <1>1 DEF NetOK, NetInv, PcOf
<1>3. NextWorker("read", "reply") /\ "read" \in PcOf(cmd.name) \cap {"read", "rebase"}
  BY <1>2 DEF SyncBase, PcOf
<1>4. /\ cmd' \in CmdType /\ cmd'.req = cmd.req /\ cmd'.name = cmd.name
      /\ cmd'.pc \in PcOf(cmd.name) \cup {"none"}
      /\ cmd'.pc # "none" => main' = "cmd" /\ cmd'.w \in Workers
      /\ cmd'.pc \in {"read", "none"}
  BY <1>1, <1>3, NextWorkerCmd
<1>5. old' \in [Workers -> 0 .. HitMod - 1]
  BY <1>1 DEF SyncBase, NetOK, CliTypeOK
<1>6. missed' \in Nat
  <2>1. (glob[cmd.w] - cmd.seen) % HitMod \in 0 .. HitMod - 1
    <3>1. glob[cmd.w] \in 0 .. HitMod - 1 /\ cmd.seen \in 0 .. HitMod - 1
      BY <1>1 DEF NetOK, CliTypeOK, CmdType
    <3> QED BY <3>1, CliSizes, ModSub
  <2>2. (glob[cmd.w] - cmd.seen) % HitMod \in Nat
    BY <2>1, CliSizes
  <2> QED BY <2>2 DEF SyncBase, NetOK, CliTypeOK
<1>7. NetOK'
  BY <1>4, <1>5, <1>6, NetCmd DEF SyncBase, restVars, NetOK, CliTypeOK
<1> QED BY <1>1, <1>2, <1>4, <1>7

LEMMA ClearRebaseNet ==
  ASSUME NetOK, ClearRebase
  PROVE  /\ NetOK' /\ cmd.name \in {"acl_clear", "acl_clear_one"} /\ cmd.w \in Workers
         /\ cmd'.req = cmd.req /\ cmd'.name = cmd.name
         /\ \/ cmd.w < NWorkers /\ cmd'.pc = "rebase" /\ cmd'.w = cmd.w + 1
            \/ cmd.w = NWorkers /\ cmd'.pc = (IF cmd.name = "acl_clear" THEN "zero" ELSE "none")
<1>1. cmd \in CmdType /\ cmd.pc = "rebase" /\ cmd.w \in Workers /\ main = "cmd"
  BY DEF NetOK, CliTypeOK, NetInv, ClearRebase
<1>2. cmd.name \in {"acl_clear", "acl_clear_one"}
  BY <1>1 DEF NetOK, NetInv, PcOf
<1> DEFINE done == IF cmd.name = "acl_clear" THEN "zero" ELSE "reply"
<1>3. NextWorker("rebase", done) /\ "rebase" \in PcOf(cmd.name) \cap {"read", "rebase"}
      /\ done \in {"zero", "reply"} /\ done \in PcOf(cmd.name) \cup {"reply"}
      /\ (IF done = "reply" THEN "none" ELSE done) = (IF cmd.name = "acl_clear" THEN "zero" ELSE "none")
  BY <1>2 DEF ClearRebase, PcOf
<1> HIDE DEF done
<1>4. /\ cmd' \in CmdType /\ cmd'.req = cmd.req /\ cmd'.name = cmd.name
      /\ cmd'.pc \in PcOf(cmd.name) \cup {"none"}
      /\ cmd'.pc # "none" => main' = "cmd" /\ cmd'.w \in Workers
      /\ \/ cmd.w < NWorkers /\ cmd'.pc = "rebase" /\ cmd'.w = cmd.w + 1
         \/ cmd.w = NWorkers /\ cmd'.pc = (IF cmd.name = "acl_clear" THEN "zero" ELSE "none")
  BY <1>1, <1>3, NextWorkerCmd
<1>5. old' \in [Workers -> 0 .. HitMod - 1]
  BY <1>1 DEF ClearRebase, Rebased, NetOK, CliTypeOK
<1>6. aoff' \in Int
  BY <1>1, GainedType DEF ClearRebase, NetOK, CliTypeOK
<1>7. NetOK'
  BY <1>4, <1>5, <1>6, NetCmd DEF ClearRebase, restVars, NetOK, CliTypeOK
<1> QED BY <1>1, <1>2, <1>4, <1>7

LEMMA ClearZeroNet ==
  ASSUME NetOK, ClearZero
  PROVE  /\ NetOK' /\ cmd.name \in {"acl_clear", "acl_clear_one"}
         /\ cmd'.req = cmd.req /\ cmd'.name = cmd.name
         /\ cmd'.pc = (IF cmd.name = "acl_clear_one" THEN "rebase" ELSE "none")
<1>1. cmd \in CmdType /\ cmd.pc = "zero" /\ cmd.w \in Workers /\ main = "cmd"
  BY DEF NetOK, CliTypeOK, NetInv, ClearZero
<1>2. cmd.name \in {"acl_clear", "acl_clear_one"}
  BY <1>1 DEF NetOK, NetInv, PcOf
<1>3. hit' \in Nat /\ aoff' \in Int
  BY DEF ClearZero, ZeroHit, NetOK, CliTypeOK
<1>4. /\ cmd' = [cmd EXCEPT !.pc = IF cmd.name = "acl_clear_one" THEN "rebase" ELSE "none"]
      /\ cmd.name = "acl_clear_one" => main' = main
  BY DEF ClearZero
<1>5. /\ cmd' \in CmdType /\ cmd'.req = cmd.req /\ cmd'.name = cmd.name /\ cmd'.w = cmd.w
      /\ cmd'.pc = (IF cmd.name = "acl_clear_one" THEN "rebase" ELSE "none")
  BY <1>1, <1>4 DEF CmdType
<1>6. cmd'.pc \in PcOf(cmd.name) \cup {"none"} /\ (cmd'.pc # "none" => main' = "cmd")
  BY <1>1, <1>2, <1>4, <1>5 DEF PcOf
<1>7. NetOK'
  BY <1>1, <1>3, <1>5, <1>6, NetCmd DEF ClearZero, restVars, NetOK, CliTypeOK
<1> QED BY <1>2, <1>5, <1>7

LEMMA RunNet ==
  ASSUME NetOK, RunIntfSync \/ RunIntfClear \/ RunShow
  PROVE  /\ NetOK' /\ UNCHANGED <<aclVars, rxq, restVars>>
         /\ cmd.pc = "run" /\ cmd'.pc = "none" /\ cmd'.req = cmd.req
<1>1. cmd \in CmdType /\ cmd' = [cmd EXCEPT !.pc = "none"] /\ UNCHANGED <<aclVars, netVars, restVars>>
  BY DEF NetOK, CliTypeOK, RunIntfSync, RunIntfClear, RunShow
<1>2. cmd' \in CmdType /\ cmd'.req = cmd.req /\ cmd'.name = cmd.name /\ cmd'.pc = "none"
  BY <1>1 DEF CmdType
<1>3. cmd.pc = "run" /\ UNCHANGED rxq
  BY <1>1 DEF RunIntfSync, RunIntfClear, RunShow, netVars
<1>4. NetOK'
  BY <1>1, <1>2, NetCmd DEF aclVars, restVars, NetOK, CliTypeOK
<1> QED BY <1>1, <1>2, <1>3, <1>4

LEMMA ReplyNet ==
  ASSUME NetOK, Reply
  PROVE  /\ NetOK' /\ UNCHANGED <<aclVars, restVars>>
         /\ cmd.pc = "none" /\ cmd'.pc = "none" /\ cmd'.req.seq = 0
         /\ \A p \in Ports : \A k \in 1 .. Len(rxq'[p]) :
              \/ rxq'[p][k].seq = cmd.req.seq
              \/ k \in 1 .. Len(rxq[p]) /\ rxq'[p][k] = rxq[p][k]
<1>1. main = "reply" /\ cmd' = NoCmd /\ UNCHANGED <<aclVars, srvq, event, restVars>>
  BY DEF Reply
<1> DEFINE a == [id |-> cmd.req.id, seq |-> cmd.req.seq]
<1>2. cl \in CallType /\ cmd.req \in ReqType /\ rxq \in [Ports -> Seq([id : Nat, seq : Nat])]
  BY DEF NetOK, CliTypeOK, CmdType
<1>3. a \in [id : Nat, seq : Nat] /\ a.id = a.seq /\ a.seq <= cl.seq /\ a.seq = cmd.req.seq
  BY <1>2 DEF ReqType, NetOK, NetInv, Mine
<1>4. /\ rxq' \in [Ports -> Seq([id : Nat, seq : Nat])]
      /\ \A p \in Ports : \A k \in 1 .. Len(rxq'[p]) :
           /\ rxq'[p][k].id = rxq'[p][k].seq /\ rxq'[p][k].seq <= cl.seq
           /\ \/ rxq'[p][k].seq = cmd.req.seq
              \/ k \in 1 .. Len(rxq[p]) /\ rxq'[p][k] = rxq[p][k]
  <2>1. CASE ~(cmd.req.port # 0 /\ cmd.req.port = cl.port)
    BY <1>2, <2>1 DEF Reply, NetOK, NetInv
  <2>2. CASE cmd.req.port # 0 /\ cmd.req.port = cl.port
    <3>1. rxq' = [rxq EXCEPT ![cl.port] = Append(rxq[cl.port], a)]
      BY <2>2 DEF Reply
    <3>2. cl.port \in Ports
      BY <1>2, <2>2 DEF CallType
    <3> HIDE DEF a
    <3>3. rxq[cl.port] \in Seq([id : Nat, seq : Nat])
      BY <1>2, <3>2
    <3>4. Append(rxq[cl.port], a) \in Seq([id : Nat, seq : Nat])
          /\ Len(Append(rxq[cl.port], a)) = Len(rxq[cl.port]) + 1
          /\ Append(rxq[cl.port], a)[Len(rxq[cl.port]) + 1] = a
          /\ \A k \in 1 .. Len(rxq[cl.port]) : Append(rxq[cl.port], a)[k] = rxq[cl.port][k]
      BY <1>3, <3>3
    <3>5. rxq' \in [Ports -> Seq([id : Nat, seq : Nat])]
      BY <1>2, <3>1, <3>4
    <3>6. ASSUME NEW p \in Ports, NEW k \in 1 .. Len(rxq'[p])
          PROVE  /\ rxq'[p][k].id = rxq'[p][k].seq /\ rxq'[p][k].seq <= cl.seq
                 /\ \/ rxq'[p][k].seq = cmd.req.seq
                    \/ k \in 1 .. Len(rxq[p]) /\ rxq'[p][k] = rxq[p][k]
      <4>1. CASE p # cl.port
        BY <1>2, <3>1, <3>6, <4>1 DEF NetOK, NetInv
      <4>2. CASE p = cl.port
        <5>1. rxq'[p] = Append(rxq[cl.port], a)
          BY <1>2, <3>1, <3>2, <4>2
        <5>2. k \in 1 .. Len(rxq[cl.port]) \/ k = Len(rxq[cl.port]) + 1
          BY <3>3, <3>4, <5>1
        <5>3. CASE k = Len(rxq[cl.port]) + 1
          BY <1>3, <3>4, <5>1, <5>3
        <5>4. CASE k \in 1 .. Len(rxq[cl.port])
          BY <3>2, <3>4, <4>2, <5>1, <5>4 DEF NetOK, NetInv
        <5> QED BY <5>2, <5>3, <5>4
      <4> QED BY <4>1, <4>2
    <3> QED BY <3>5, <3>6
  <2> QED BY <2>1, <2>2
<1>5. CliTypeOK'
  BY <1>1, <1>4, NoCmdTyped DEF NetOK, CliTypeOK, aclVars, restVars
<1>6. NetInv'
  <2>1. cl.seq \in Nat
    BY <1>2 DEF CallType
  <2>2. Mine(cmd.req, cmd.name, cl)'
    BY <1>1, <2>1, NoCmdTyped DEF Mine, NetOK, NetInv, restVars
  <2> QED BY <1>1, <1>4, <2>2, NoCmdTyped DEF NetOK, NetInv, restVars
<1>7. cmd.pc = "none"
  BY <1>1 DEF NetOK, CliTypeOK
<1> QED BY <1>1, <1>4, <1>5, <1>6, <1>7, NoCmdTyped DEF NetOK

LEMMA QuickFailNet ==
  ASSUME NetOK, NEW c \in RestCmds, QuickFail(c)
  PROVE  NetOK'
<1>1. cl' = [cl EXCEPT !.pc = "after", !.cmd = c, !.got = 0] /\ cl \in CallType
  BY DEF QuickFail, NetOK, CliTypeOK
<1>2. cl' \in CallType /\ cl'.id = cl.id /\ cl'.seq = cl.seq /\ cl'.pc = "after" /\ cl'.got = 0
  BY <1>1 DEF CallType
<1> QED BY <1>2, NetCall DEF QuickFail, intfVars, aclVars, netVars, NetOK, CliTypeOK, NetInv

LEMMA SendNet ==
  ASSUME NetOK, NEW c \in RestCmds, NEW p \in Ports, NEW lost \in BOOLEAN, Send(c, p, lost)
  PROVE  NetOK'
<1> DEFINE m == [id |-> cl.id + 1, seq |-> cl.seq + 1, port |-> p, cmd |-> c]
           MT == [id : Nat, seq : Nat, port : Ports, cmd : RestCmds]
<1>1. cl \in CallType /\ hits \in Nat /\ srvq \in Seq(MT)
  BY DEF NetOK, CliTypeOK
<1>2. cl' = [cl EXCEPT !.pc = "wait", !.cmd = c, !.id = cl.id + 1, !.seq = cl.seq + 1, !.port = p,
                       !.tries = RetryTime, !.got = 0, !.at = hits]
  BY DEF Send
<1>3. cl.id \in Nat /\ cl.seq \in Nat /\ RetryTime \in 0 .. RetryTime /\ RetryTime > 0 /\ p # 0
  BY <1>1, CliSizes DEF CallType
<1>4. /\ cl' \in CallType /\ cl'.id = cl.id + 1 /\ cl'.seq = cl.seq + 1 /\ cl'.pc = "wait"
      /\ cl'.port = p /\ cl'.tries = RetryTime /\ cl'.got = 0 /\ cl'.cmd = c
  <2> DEFINE i == cl.id + 1
             q == cl.seq + 1
  <2>1. cl' = [cl EXCEPT !.pc = "wait", !.cmd = c, !.id = i, !.seq = q, !.port = p,
                         !.tries = RetryTime, !.got = 0, !.at = hits]
    BY <1>2
  <2>2. i \in Nat /\ q \in Nat
    BY <1>3
  <2> HIDE DEF i, q
  <2>3. cl' \in CallType
    BY <1>1, <1>3, <2>1, <2>2 DEF CallType
  <2>4. /\ cl'.id = i /\ cl'.seq = q /\ cl'.pc = "wait"
        /\ cl'.port = p /\ cl'.tries = RetryTime /\ cl'.got = 0 /\ cl'.cmd = c
    BY <1>1, <2>1 DEF CallType
  <2> QED BY <2>3, <2>4 DEF i, q
<1>5. cl.id = cl.seq
  BY DEF NetOK, NetInv
<1>6. m \in MT /\ m.id = cl.id + 1 /\ m.seq = cl.seq + 1 /\ m.cmd = c
  BY <1>3
<1>7. UNCHANGED <<main, aclVars, event, rxq, cmd, clearedAt, report>>
  BY DEF Send, intfVars
<1>8. srvq' = IF lost THEN srvq ELSE Append(srvq, m)
  BY DEF Send
<1> HIDE DEF m
<1>9. srvq' \in Seq(MT) /\ \A k \in 1 .. Len(srvq') : srvq'[k] = m \/
        (k \in 1 .. Len(srvq) /\ srvq'[k] = srvq[k])
  <2> HIDE DEF MT
  <2>1. CASE lost
    BY <1>1, <1>8, <2>1
  <2>2. CASE ~ lost
    BY <1>1, <1>6, <1>8, <2>2
  <2> QED BY <2>1, <2>2
<1>10. CliTypeOK'
  BY <1>3, <1>4, <1>7, <1>9 DEF NetOK, CliTypeOK, aclVars
<1>11. NetInv'
  <2>1. \A k \in 1 .. Len(srvq') : Mine(srvq'[k], srvq'[k].cmd, cl')
    <3> SUFFICES ASSUME NEW k \in 1 .. Len(srvq') PROVE Mine(srvq'[k], srvq'[k].cmd, cl')
      OBVIOUS
    <3>1. CASE srvq'[k] = m
      BY <1>3, <1>4, <1>5, <1>6, <3>1 DEF Mine
    <3>2. CASE k \in 1 .. Len(srvq) /\ srvq'[k] = srvq[k]
      <4>1. srvq[k] \in MT /\ srvq[k].seq <= cl.seq /\ srvq[k].id = srvq[k].seq
        <5>1. srvq[k] \in MT
          BY <1>1, <3>2, SeqElement
        <5> QED BY <3>2, <5>1 DEF NetOK, NetInv, Mine
      <4> QED BY <1>3, <1>4, <3>2, <4>1 DEF Mine
    <3> QED BY <1>9, <3>1, <3>2
  <2>2. Mine(cmd.req, cmd.name, cl')
    <3>1. cmd.req.seq <= cl.seq /\ cmd.req.id = cmd.req.seq /\ cmd.req.seq \in Nat
      BY DEF NetOK, NetInv, Mine, CliTypeOK, CmdType, ReqType
    <3> QED BY <1>3, <1>4, <3>1 DEF Mine
  <2>3. \A q \in Ports : \A k \in 1 .. Len(rxq[q]) :
          rxq[q][k].id = rxq[q][k].seq /\ rxq[q][k].seq <= cl.seq + 1
    <3> SUFFICES ASSUME NEW q \in Ports, NEW k \in 1 .. Len(rxq[q])
                 PROVE  rxq[q][k].id = rxq[q][k].seq /\ rxq[q][k].seq <= cl.seq + 1
      OBVIOUS
    <3>1. rxq[q] \in Seq([id : Nat, seq : Nat])
      BY DEF NetOK, CliTypeOK
    <3>2. rxq[q][k] \in [id : Nat, seq : Nat]
      BY <3>1, SeqElement
    <3>3. rxq[q][k].id = rxq[q][k].seq /\ rxq[q][k].seq <= cl.seq
      BY DEF NetOK, NetInv
    <3> QED BY <1>3, <3>2, <3>3
  <2>4. cl.seq + 1 > 0
    BY <1>3
  <2> QED BY <1>4, <1>5, <1>7, <2>1, <2>2, <2>3, <2>4 DEF NetOK, NetInv
<1> QED BY <1>10, <1>11 DEF NetOK

LEMMA ReceiveNet ==
  ASSUME NetOK, Receive
  PROVE  /\ NetOK' /\ cl.pc = "wait" /\ cl'.at = cl.at /\ cl'.seq = cl.seq /\ cl'.cmd = cl.cmd
         /\ \A p \in Ports : \A k \in 1 .. Len(rxq'[p]) :
              \E j \in 1 .. Len(rxq[p]) : rxq'[p][k] = rxq[p][j]
         /\ cl'.got # 0 => \/ cl.got # 0
                           \/ \E p \in Ports : \E k \in 1 .. Len(rxq[p]) : rxq[p][k].seq = cl.seq
<1> DEFINE AT == [id : Nat, seq : Nat]
           a == Head(rxq[cl.port])
<1>1. cl \in CallType /\ cl.pc = "wait" /\ cl.port \in Ports /\ rxq \in [Ports -> Seq(AT)]
  BY DEF NetOK, CliTypeOK, Receive, CallType
<1>2. rxq[cl.port] # <<>> /\ rxq' = [rxq EXCEPT ![cl.port] = Tail(rxq[cl.port])]
  BY DEF Receive
<1>3. rxq[cl.port] \in Seq(AT)
  BY <1>1
<1> HIDE DEF AT
<1>4. /\ a \in AT /\ a = rxq[cl.port][1] /\ 1 \in 1 .. Len(rxq[cl.port])
      /\ Tail(rxq[cl.port]) \in Seq(AT)
      /\ \A k \in 1 .. Len(Tail(rxq[cl.port])) :
           /\ Tail(rxq[cl.port])[k] = rxq[cl.port][k + 1] /\ k + 1 \in 1 .. Len(rxq[cl.port])
  BY <1>2, <1>3, HeadTail
<1>5. rxq' \in [Ports -> Seq(AT)]
  BY <1>1, <1>2, <1>4
<1>6. \A p \in Ports : \A k \in 1 .. Len(rxq'[p]) :
        /\ rxq'[p][k].id = rxq'[p][k].seq /\ rxq'[p][k].seq <= cl.seq
        /\ \E j \in 1 .. Len(rxq[p]) : rxq'[p][k] = rxq[p][j]
  <2> SUFFICES ASSUME NEW p \in Ports, NEW k \in 1 .. Len(rxq'[p])
               PROVE  /\ rxq'[p][k].id = rxq'[p][k].seq /\ rxq'[p][k].seq <= cl.seq
                      /\ \E j \in 1 .. Len(rxq[p]) : rxq'[p][k] = rxq[p][j]
    OBVIOUS
  <2>1. CASE p # cl.port
    BY <1>1, <1>2, <2>1 DEF NetOK, NetInv
  <2>2. CASE p = cl.port
    <3>1. rxq'[p] = Tail(rxq[cl.port])
      BY <1>1, <1>2, <2>2
    <3> QED BY <1>1, <1>4, <2>2, <3>1 DEF NetOK, NetInv
  <2> QED BY <2>1, <2>2
<1>7. a.id = a.seq /\ a.id \in Nat
  BY <1>1, <1>4 DEF NetOK, NetInv, AT
<1>8. cl' = IF Matches(a) THEN [cl EXCEPT !.pc = "after", !.failed = FALSE, !.got = a.id]
            ELSE IF cl.tries > 1 THEN [cl EXCEPT !.tries = cl.tries - 1]
            ELSE [cl EXCEPT !.pc = "after", !.failed = TRUE, !.tries = 0]
  BY DEF Receive
<1> HIDE DEF a
<1>9. /\ cl' \in CallType /\ cl'.id = cl.id /\ cl'.seq = cl.seq
      /\ cl'.pc = "wait" => cl'.cmd = cl.cmd /\ cl'.port = cl.port /\ cl'.tries > 0
      /\ cl'.got # 0 => cl'.got = cl.id
      /\ cl'.at = cl.at /\ cl'.cmd = cl.cmd
      /\ cl'.got # 0 => cl.got # 0 \/ a.seq = cl.seq
  <2>1. cl.tries \in 0 .. RetryTime /\ cl.id = cl.seq /\ (cl.got # 0 => cl.got = cl.id)
    BY <1>1 DEF CallType, NetOK, NetInv
  <2>2. CASE Matches(a)
    <3>1. cl' = [cl EXCEPT !.pc = "after", !.failed = FALSE, !.got = a.id] /\ a.id = cl.id
      BY <1>7, <1>8, <2>1, <2>2 DEF Matches
    <3> QED BY <1>1, <1>7, <2>2, <3>1 DEF CallType, Matches
  <2>3. CASE ~ Matches(a) /\ cl.tries > 1
    <3>1. cl' = [cl EXCEPT !.tries = cl.tries - 1]
      BY <1>8, <2>3
    <3>2. cl.tries - 1 \in 0 .. RetryTime /\ cl.tries - 1 > 0
      BY <2>1, <2>3, CliSizes
    <3> QED BY <1>1, <2>1, <3>1, <3>2 DEF CallType
  <2>4. CASE ~ Matches(a) /\ ~ cl.tries > 1
    <3>1. cl' = [cl EXCEPT !.pc = "after", !.failed = TRUE, !.tries = 0]
      BY <1>8, <2>4
    <3>2. 0 \in 0 .. RetryTime
      BY CliSizes
    <3> QED BY <1>1, <2>1, <3>1, <3>2 DEF CallType
  <2> QED BY <2>2, <2>3, <2>4
<1>10. NetOK'
  BY <1>1, <1>5, <1>6, <1>9, NetCall DEF AT, Receive, intfVars, aclVars, NetOK, CliTypeOK
<1> QED BY <1>1, <1>4, <1>6, <1>9, <1>10

LEMMA TimeOutNet ==
  ASSUME NetOK, TimeOut
  PROVE  NetOK'
<1>1. cl' = [cl EXCEPT !.pc = "after", !.failed = TRUE, !.port = 0] /\ cl \in CallType
  BY DEF TimeOut, NetOK, CliTypeOK
<1>2. cl' \in CallType /\ cl'.id = cl.id /\ cl'.seq = cl.seq /\ cl'.pc = "after" /\ cl'.got = cl.got
  BY <1>1 DEF CallType
<1> QED BY <1>2, NetCall DEF TimeOut, intfVars, aclVars, netVars, NetOK, CliTypeOK, NetInv

LEMMA AfterNet ==
  ASSUME NetOK, AfterGet \/ AfterPatch \/ AfterOther
  PROVE  NetOK'
<1>1. cl' = [cl EXCEPT !.pc = "idle", !.cmd = "none", !.got = 0] /\ cl \in CallType
  BY DEF AfterGet, AfterPatch, AfterOther, NetOK, CliTypeOK
<1>2. cl' \in CallType /\ cl'.id = cl.id /\ cl'.seq = cl.seq /\ cl'.pc = "idle" /\ cl'.got = 0
      /\ cl.at \in Nat
  BY <1>1 DEF CallType
<1>3. AsCInt(hit) \in Int /\ hits - clearedAt \in Int
  <2>1. hit % HitMod \in Int /\ hits \in Nat /\ clearedAt \in Nat
    BY CliSizes DEF NetOK, CliTypeOK
  <2> DEFINE m == hit % HitMod
  <2>2. AsCInt(hit) = IF m >= HitMod \div 2 THEN m - HitMod ELSE m
    BY DEF AsCInt
  <2>3. m \in Int
    BY <2>1
  <2> HIDE DEF m
  <2> QED BY <2>1, <2>2, <2>3, CliSizes
<1>4. report' \in [val : Int, bound : Int]
  BY <1>3 DEF AfterGet, AfterPatch, AfterOther, NetOK, CliTypeOK
<1>5. hit' \in Nat /\ aoff' \in Int
  BY DEF AfterGet, AfterPatch, AfterOther, ZeroHit, aclVars, NetOK, CliTypeOK
<1>6. clearedAt' \in Nat
  BY <1>2 DEF AfterGet, AfterPatch, AfterOther, NetOK, CliTypeOK
<1>7. UNCHANGED <<srvq, event, rxq, cmd, main, glob, old, hits, missed>>
  BY DEF AfterGet, AfterPatch, AfterOther, intfVars, aclVars, netVars
<1> QED BY <1>2, <1>4, <1>5, <1>6, <1>7, NetCall DEF NetOK, CliTypeOK, NetInv

LEMMA PatchNet ==
  ASSUME NetOK, IntfInv, (\E names \in SUBSET Intfs : PatchIntf(names)) \/ PatchNext
  PROVE  NetOK'
<1>1. cl \in CallType /\ UNCHANGED <<aclVars, netVars, cmd, clearedAt, report, main>>
  BY DEF NetOK, CliTypeOK, PatchIntf, PatchNext, intfVars
<1>2. cl' \in CallType /\ cl'.id = cl.id /\ cl'.seq = cl.seq /\ cl'.pc # "wait" /\ cl'.got = cl.got
  <2>1. CASE \E names \in SUBSET Intfs : PatchIntf(names)
    <3>1. PICK names \in SUBSET Intfs : PatchIntf(names)
      BY <2>1
    <3>2. icnt \in 0 .. MaxIntf
      BY DEF IntfInv, IntfTypeOK
    <3>3. PatchRange(names) \subseteq Intfs
      BY <3>1, <3>2, IntfSizes DEF PatchRange
    <3>4. cl' = [cl EXCEPT !.pc = "zero", !.todo = PatchRange(names)]
      BY <3>1 DEF PatchIntf
    <3> QED BY <1>1, <3>3, <3>4 DEF CallType
  <2>2. CASE PatchNext
    <3>1. PICK i \in cl.todo :
            cl' = [cl EXCEPT !.todo = @ \ {i}, !.pc = IF cl.todo = {i} THEN "idle" ELSE "zero"]
      BY <2>2 DEF PatchNext
    <3> QED BY <1>1, <3>1 DEF CallType
  <2> QED BY <2>1, <2>2
<1> QED BY <1>1, <1>2, NetCall DEF aclVars, netVars, NetOK, CliTypeOK, NetInv

LEMMA RestartNet ==
  ASSUME NetOK, Restart
  PROVE  NetOK'
<1>1. /\ glob' = [w \in Workers |-> 0] /\ old' = glob' /\ aoff' = hits - hit - missed
      /\ srvq' = <<>> /\ event' = FALSE /\ cmd' = NoCmd
      /\ UNCHANGED <<hit, hits, missed, rxq, restVars>>
  BY DEF Restart
<1>2. glob' \in [Workers -> 0 .. HitMod - 1] /\ old' \in [Workers -> 0 .. HitMod - 1] /\ aoff' \in Int
  BY <1>1, CliSizes DEF NetOK, CliTypeOK
<1>3. srvq' \in Seq([id : Nat, seq : Nat, port : Ports, cmd : RestCmds]) /\ Len(srvq') = 0
  BY <1>1
<1>4. CliTypeOK'
  BY <1>1, <1>2, <1>3, NoCmdTyped DEF NetOK, CliTypeOK, restVars
<1>5. NetInv'
  <2>1. cl.seq \in Nat
    BY DEF NetOK, CliTypeOK, CallType
  <2>2. Mine(cmd.req, cmd.name, cl)'
    BY <1>1, <2>1, NoCmdTyped DEF Mine, NetOK, NetInv, restVars
  <2>3. \A k \in 1 .. Len(srvq') : Mine(srvq'[k], srvq'[k].cmd, cl')
    BY <1>3
  <2> QED BY <1>1, <2>2, <2>3, NoCmdTyped DEF NetOK, NetInv, restVars
<1> QED BY <1>4, <1>5 DEF NetOK

LEMMA NetInit ==
  ASSUME Init
  PROVE  NetOK
<1>1. /\ cl = [pc |-> "idle", cmd |-> "none", id |-> 0, seq |-> 0, port |-> 0,
               tries |-> 0, failed |-> FALSE, got |-> 0, at |-> 0, todo |-> {}]
      /\ srvq = <<>> /\ rxq = [p \in Ports |-> <<>>] /\ cmd = NoCmd /\ event = FALSE
      /\ hit = 0 /\ hits = 0 /\ aoff = 0 /\ missed = 0 /\ clearedAt = 0
      /\ report = [val |-> 0, bound |-> 0]
  BY DEF Init
<1>2. cl \in CallType /\ cl.pc = "idle" /\ cl.id = 0 /\ cl.seq = 0 /\ cl.got = 0
  <2>1. 0 \in 0 .. RetryTime
    BY CliSizes
  <2> QED BY <1>1, <2>1 DEF CallType
<1>3. srvq \in Seq([id : Nat, seq : Nat, port : Ports, cmd : RestCmds]) /\ Len(srvq) = 0
  BY <1>1
<1>4. rxq \in [Ports -> Seq([id : Nat, seq : Nat])] /\ \A p \in Ports : Len(rxq[p]) = 0
  BY <1>1
<1>5. glob \in [Workers -> 0 .. HitMod - 1] /\ old = glob
  <2>1. HitMod - 1 \in 0 .. HitMod - 1
    BY CliSizes
  <2> QED BY <2>1, CliSizes DEF Init
<1>6. CliTypeOK
  <2>1. event \in BOOLEAN
    BY <1>1, Zenon
  <2>2. hit \in Nat /\ aoff \in Int /\ hits \in Nat /\ missed \in Nat /\ clearedAt \in Nat
    BY <1>1
  <2>3. report \in [val : Int, bound : Int]
    BY <1>1
  <2>4. cmd \in CmdType /\ cmd.pc = "none"
    BY <1>1, NoCmdTyped DEF NoCmd
  <2>5. old \in [Workers -> 0 .. HitMod - 1]
    BY <1>5, Zenon
  <2>6. cl.pc = "wait" => cl.port # 0 /\ cl.tries > 0
    BY <1>2
  <2> QED BY <1>2, <1>3, <1>4, <1>5, <2>1, <2>2, <2>3, <2>4, <2>5, <2>6, Zenon DEF CliTypeOK
<1>7. NetInv
  BY <1>1, <1>2, <1>3, <1>4, NoCmdTyped DEF NetInv, Mine
<1> QED BY <1>6, <1>7 DEF NetOK

\* The steps of IntfStat leave the commands alone and take the main thread
\* from no command.
LEMMA IntfStepsApart ==
  ASSUME IntfInv, PortStep \/ Period \/ CalcStep \/ Packet
  PROVE  UNCHANGED <<aclVars, netVars, cmd, restVars>> /\ (main' = main \/ main # "cmd")
<1>1. UNCHANGED <<aclVars, netVars, cmd, restVars>>
  BY DEF PortStep, Period, CalcStep, Packet, Others
<1>2. CASE PortStep
  BY <1>1, <1>2 DEF PortStep, PortsFound, StartPorts, FirstLinks, OpenPorts, IntfInv, PortsInv
<1>3. CASE Period
  BY <1>1, <1>3 DEF Period, StatTick, LinkTick
<1>4. CASE CalcStep
  <2>1. calc.pc # "idle"
    BY <1>4 DEF CalcStep, CalcPhy, CalcThread, CalcLoad, CalcStoreCounts, CalcStorePhy, CalcStoreError
  <2> QED BY <1>1, <2>1 DEF IntfInv, IntfTypeOK
<1>5. CASE Packet
  BY <1>1, <1>5 DEF Packet, Count, CountHw, WireChange
<1> QED BY <1>1, <1>2, <1>3, <1>4, <1>5

LEMMA NetNext ==
  ASSUME IntfInv, NetOK, [Next]_vars
  PROVE  NetOK'
<1>1. CASE PortStep \/ Period \/ CalcStep \/ Packet
  BY <1>1, IntfStepsApart, NetSame
<1>2. CASE Restart
  BY <1>2, RestartNet
<1>3. CASE \E w \in Workers : Hit(w)
  BY <1>3, HitNet
<1>4. CASE Poll \/ Serve \/ \E c \in ConsoleCmds : Console(c)
  BY <1>4, PollNet, ServeNet, ConsoleNet
<1>5. CASE CmdStep
  BY <1>5, SyncReadNet, SyncStoreNet, SyncBaseNet, ClearRebaseNet, ClearZeroNet, RunNet, ReplyNet
     DEF CmdStep
<1>6. CASE \E c \in RestCmds : QuickFail(c)
  BY <1>6, QuickFailNet
<1>7. CASE \E c \in RestCmds, p \in Ports, lost \in BOOLEAN : Send(c, p, lost)
  BY <1>7, SendNet
<1>8. CASE Receive \/ TimeOut \/ AfterGet \/ AfterPatch \/ AfterOther
  BY <1>8, ReceiveNet, TimeOutNet, AfterNet
<1>9. CASE (\E names \in SUBSET Intfs : PatchIntf(names)) \/ PatchNext
  BY <1>9, PatchNet
<1>10. CASE UNCHANGED vars
  BY <1>10, NetSame DEF vars, intfVars
<1> QED BY <1>1, <1>2, <1>3, <1>4, <1>5, <1>6, <1>7, <1>8, <1>9, <1>10 DEF Next

\* No request or answer under way carries a number that vpp-udp-client has not
\* given out, and one with the newest number is for the command that waits.
THEOREM NetInvariance == Spec => [](IntfInv /\ NetOK)
<1>1. Init => NetOK
  BY NetInit
<1>2. IntfInv /\ NetOK /\ [Next]_vars => NetOK'
  BY NetNext
<1> QED BY <1>1, <1>2, IntfInvariance, PTL DEF Spec

\* sendmsgtoserver_rest: whatever is lost or comes late, and whichever closed
\* socket's port a new one gets, a call returns the answer to its own command.
THEOREM AnswerAlwaysMine == Spec => []AnswerIsMine
<1>1. NetOK => AnswerIsMine
  BY DEF NetOK, NetInv, AnswerIsMine
<1> QED BY <1>1, NetInvariance, PTL

\* The types of all variables, at every moment.
THEOREM CliTypeCorrect == Spec => []TypeOK
<1>1. IntfInv /\ NetOK => TypeOK
  BY DEF IntfInv, NetOK, TypeOK
<1> QED BY <1>1, NetInvariance, PTL

-----------------------------------------------------------------------------
(* Every hit is accounted for *)

Counts == [Workers -> 0 .. HitMod - 1]

LEMMA GainNat ==
  ASSUME NEW a \in 0 .. HitMod - 1, NEW b \in 0 .. HitMod - 1
  PROVE  (a - b) % HitMod \in Nat /\ (a - b) % HitMod \in 0 .. HitMod - 1
         /\ (a = b => (a - b) % HitMod = 0)
<1>1. (a - b) % HitMod \in 0 .. HitMod - 1
      /\ (a - b) % HitMod = IF a >= b THEN a - b ELSE (a - b) + HitMod
  BY CliSizes, ModSub
<1>2. a = b => (a - b) % HitMod = 0
  BY <1>1
<1>3. (a - b) % HitMod \in Nat
  BY <1>1, CliSizes
<1> QED BY <1>1, <1>2, <1>3

LEMMA PendingNat ==
  ASSUME NEW g \in Counts, NEW o \in Counts, NEW c \in CmdType
  PROVE  /\ \A w \in Workers : PendingOf(g, o, c)[w] \in Nat
         /\ \A w \in Workers : PendingOf(g, o, c)[w] \in 0 .. HitMod - 1
         /\ SumTo(PendingOf(g, o, c), NWorkers) \in Nat
<1> DEFINE f == PendingOf(g, o, c)
<1>1. ASSUME NEW w \in Workers
      PROVE  f[w] \in Nat /\ f[w] \in 0 .. HitMod - 1
  <2>1. g[w] \in 0 .. HitMod - 1 /\ o[w] \in 0 .. HitMod - 1 /\ c.seen \in 0 .. HitMod - 1
    BY DEF Counts, CmdType
  <2>2. f[w] = (g[w] - c.seen) % HitMod \/ f[w] = (g[w] - o[w]) % HitMod
    BY DEF PendingOf
  <2> HIDE DEF f
  <2> QED BY <2>1, <2>2, GainNat
<1> HIDE DEF f
<1>2. SumTo(f, NWorkers) \in Nat
  BY <1>1, CliSizes, SumNat
<1> QED BY <1>1, <1>2 DEF f

\* A command that neither was nor is between the loads and the base of a
\* worker makes no difference to what is pending.
LEMMA PendingGained ==
  ASSUME NEW g, NEW o, NEW c, NEW d, c.pc \notin {"store", "base"}, d.pc \notin {"store", "base"}
  PROVE  PendingOf(g, o, c) = PendingOf(g, o, d)
BY DEF PendingOf

LEMMA HitsTyped ==
  ASSUME NetOK
  PROVE  /\ glob \in Counts /\ old \in Counts /\ cmd \in CmdType
         /\ hit \in Nat /\ hits \in Nat /\ missed \in Nat /\ aoff \in Int
         /\ Stored \in Nat /\ StoredOff \in Int /\ PendingSum \in Nat
         /\ \A w \in Workers : Pending[w] \in Nat /\ Pending[w] \in 0 .. HitMod - 1
<1>1. /\ glob \in Counts /\ old \in Counts /\ cmd \in CmdType
      /\ hit \in Nat /\ hits \in Nat /\ missed \in Nat /\ aoff \in Int
  BY DEF NetOK, CliTypeOK, Counts
<1>2. Stored \in Nat /\ StoredOff \in Int
  BY <1>1 DEF Stored, StoredOff, CmdType
<1> QED BY <1>1, <1>2, PendingNat DEF Pending, PendingSum

LEMMA HitsTypedNext ==
  ASSUME NetOK'
  PROVE  /\ glob' \in Counts /\ old' \in Counts /\ cmd' \in CmdType
         /\ hit' \in Nat /\ hits' \in Nat /\ missed' \in Nat /\ aoff' \in Int
         /\ Stored' \in Nat /\ StoredOff' \in Int /\ PendingSum' \in Nat
         /\ \A w \in Workers : Pending'[w] \in Nat
<1>1. /\ glob' \in Counts /\ old' \in Counts /\ cmd' \in CmdType
      /\ hit' \in Nat /\ hits' \in Nat /\ missed' \in Nat /\ aoff' \in Int
  BY DEF NetOK, CliTypeOK, Counts
<1>2. Stored' \in Nat /\ StoredOff' \in Int
  BY <1>1 DEF Stored, StoredOff, CmdType
<1> QED BY <1>1, <1>2, PendingNat DEF Pending, PendingSum

\* What a step of VPP or restd that counts no hit does to the hits: none is
\* lost, and none enters the counter that was not on its way to it.
Conserves ==
  /\ hits' = hits
  /\ Stored' + PendingSum' <= Stored + PendingSum
  /\ Stored' + StoredOff' + missed' + PendingSum' = Stored + StoredOff + missed + PendingSum
  /\ cmd'.pc = "store" => hit' <= hit

LEMMA ConservesSame ==
  ASSUME NetOK, UNCHANGED aclVars,
         cmd' = cmd \/ (cmd.pc \notin {"store", "base"} /\ cmd'.pc \notin {"store", "base"})
  PROVE  Conserves
<1>1. Stored \in Nat /\ StoredOff \in Int /\ PendingSum \in Nat /\ hit \in Nat /\ missed \in Nat
  BY HitsTyped
<1>2. PendingSum' = PendingSum
  <2>1. PendingOf(glob, old, cmd') = PendingOf(glob, old, cmd)
    BY PendingGained
  <2> QED BY <2>1 DEF PendingSum, Pending, aclVars
<1>3. Stored' = Stored /\ StoredOff' = StoredOff
  BY DEF Stored, StoredOff, aclVars
<1>4. hits' = hits /\ hit' = hit /\ missed' = missed
  BY DEF aclVars
<1> QED BY <1>1, <1>2, <1>3, <1>4 DEF Conserves

\* what is pending when only that of worker v changes
LEMMA PendingMoves ==
  ASSUME NetOK, NetOK', NEW v \in Workers, \A w \in Workers : w # v => Pending'[w] = Pending[w]
  PROVE  PendingSum' = PendingSum + (Pending'[v] - Pending[v])
         /\ Pending[v] \in Nat /\ Pending'[v] \in Nat
<1>1. \A w \in Workers : Pending[w] \in Int /\ Pending'[w] \in Int
  BY HitsTyped, HitsTypedNext
<1> DEFINE f == Pending
           g == Pending'
<1>2. v \in 1 .. NWorkers /\ \A w \in 1 .. NWorkers : f[w] \in Int /\ g[w] \in Int
  BY <1>1, CliSizes
<1>3. \A w \in 1 .. NWorkers : w # v => g[w] = f[w]
  BY CliSizes
<1>4. SumTo(g, NWorkers) = SumTo(f, NWorkers) + (g[v] - f[v])
  <2> HIDE DEF f, g
  <2>1. NWorkers \in Nat
    BY CliSizes
  <2> QED BY <1>2, <1>3, <2>1, SumPoint
<1> QED BY <1>4, HitsTyped, HitsTypedNext DEF PendingSum

LEMMA HitConserves ==
  ASSUME NetOK, NEW w \in Workers, Hit(w)
  PROVE  /\ hits' = hits + 1 /\ hit' = hit /\ cmd' = cmd
         /\ Stored' = Stored /\ StoredOff' = StoredOff /\ missed' = missed
         /\ PendingSum' <= PendingSum + 1
         /\ Pending[w] < HitMod - 1 => PendingSum' = PendingSum + 1
<1>1. NetOK'
  BY HitNet
<1>2. glob' = [glob EXCEPT ![w] = (@ + 1) % HitMod]
      /\ UNCHANGED <<old, hit, aoff, missed, cmd>> /\ hits' = hits + 1
  BY DEF Hit
<1>3. \A v \in Workers : v # w => Pending'[v] = Pending[v]
  BY <1>2, HitsTyped DEF Pending, PendingOf, Counts
<1>4. Pending'[w] = IF Pending[w] = HitMod - 1 THEN 0 ELSE Pending[w] + 1
  <2>1. glob[w] \in 0 .. HitMod - 1 /\ old[w] \in 0 .. HitMod - 1 /\ cmd.seen \in 0 .. HitMod - 1
    BY HitsTyped DEF Counts, CmdType
  <2>2. glob'[w] = (glob[w] + 1) % HitMod
    BY <1>2, HitsTyped DEF Counts
  <2> DEFINE base == IF cmd.pc \in {"store", "base"} /\ w = cmd.w THEN cmd.seen ELSE old[w]
  <2>3. Pending[w] = (glob[w] - base) % HitMod /\ Pending'[w] = (glob'[w] - base) % HitMod
    BY <1>2 DEF Pending, PendingOf
  <2>4. base \in 0 .. HitMod - 1
    BY <2>1
  <2> HIDE DEF base
  <2>5. (((glob[w] + 1) % HitMod) - base) % HitMod
          = IF (glob[w] - base) % HitMod = HitMod - 1 THEN 0 ELSE ((glob[w] - base) % HitMod) + 1
    BY <2>1, <2>4, CliSizes, GainStep
  <2> QED BY <2>2, <2>3, <2>5
<1>5. PendingSum' = PendingSum + (Pending'[w] - Pending[w])
      /\ Pending[w] \in Nat /\ Pending'[w] \in Nat /\ PendingSum \in Nat /\ PendingSum' \in Nat
  BY <1>1, <1>3, PendingMoves, HitsTyped, HitsTypedNext
<1>6. Stored' = Stored /\ StoredOff' = StoredOff
  BY <1>2 DEF Stored, StoredOff
<1>7. HitMod \in Nat
  BY CliSizes
<1>8. PendingSum' <= PendingSum + 1 /\ (Pending[w] < HitMod - 1 => PendingSum' = PendingSum + 1)
  BY <1>4, <1>5, <1>7
<1> QED BY <1>2, <1>6, <1>8

LEMMA SyncReadConserves ==
  ASSUME NetOK, SyncRead
  PROVE  Conserves
<1>1. NetOK' /\ cmd.w \in Workers /\ cmd.pc = "read"
  BY SyncReadNet DEF SyncRead, NetOK, NetInv
<1>2. UNCHANGED <<glob, old, hit, hits, aoff, missed>>
  BY DEF SyncRead, aclVars
<1>3. cmd'.w = cmd.w /\ cmd'.pc = "store" /\ cmd'.seen = glob[cmd.w] /\ cmd'.off = aoff
      /\ cmd'.tmp = hit + Gained(cmd.w)
  BY HitsTyped DEF SyncRead, CmdType
<1>4. \A v \in Workers : v # cmd.w => Pending'[v] = Pending[v]
  BY <1>1, <1>2, <1>3 DEF Pending, PendingOf
<1>5. Pending[cmd.w] = Gained(cmd.w)
  BY <1>1 DEF Pending, PendingOf, Gained
<1>6. Pending'[cmd.w] = 0
  <2>1. Pending'[cmd.w] = (glob[cmd.w] - glob[cmd.w]) % HitMod
    BY <1>1, <1>2, <1>3 DEF Pending, PendingOf
  <2>2. glob[cmd.w] \in 0 .. HitMod - 1
    BY <1>1, HitsTyped DEF Counts
  <2> QED BY <2>1, <2>2, GainNat
<1>7. PendingSum' = PendingSum + (Pending'[cmd.w] - Pending[cmd.w]) /\ PendingSum \in Nat
      /\ Pending[cmd.w] \in Nat
  BY <1>1, <1>4, PendingMoves, HitsTyped
<1>8. Stored = hit /\ StoredOff = aoff /\ Stored' = hit + Gained(cmd.w) /\ StoredOff' = aoff
  BY <1>1, <1>3 DEF Stored, StoredOff
<1>9. hit \in Nat /\ aoff \in Int /\ missed \in Nat
  BY HitsTyped
<1>10. Stored' + PendingSum' = Stored + PendingSum /\ StoredOff' = StoredOff
  BY <1>5, <1>6, <1>7, <1>8, <1>9
<1>11. PendingSum' \in Nat /\ Stored' \in Nat /\ Stored \in Nat /\ StoredOff \in Int
  BY <1>1, HitsTyped, HitsTypedNext
<1> QED BY <1>2, <1>7, <1>9, <1>10, <1>11 DEF Conserves

LEMMA SyncStoreConserves ==
  ASSUME NetOK, SyncStore
  PROVE  Conserves
<1>1. NetOK' /\ cmd.pc = "store"
  BY SyncStoreNet DEF SyncStore
<1>2. UNCHANGED <<glob, old, hits, missed>> /\ hit' = cmd.tmp /\ aoff' = cmd.off
  BY DEF SyncStore
<1>3. cmd'.w = cmd.w /\ cmd'.pc = "base" /\ cmd'.seen = cmd.seen
  BY HitsTyped DEF SyncStore, CmdType
<1>4. PendingSum' = PendingSum
  BY <1>1, <1>2, <1>3 DEF PendingSum, Pending, PendingOf
<1>5. Stored' = Stored /\ StoredOff' = StoredOff
  BY <1>1, <1>2, <1>3 DEF Stored, StoredOff
<1>6. Stored \in Nat /\ StoredOff \in Int /\ PendingSum \in Nat /\ missed \in Nat
  BY HitsTyped
<1> QED BY <1>2, <1>3, <1>4, <1>5, <1>6 DEF Conserves

LEMMA SyncBaseConserves ==
  ASSUME NetOK, SyncBase
  PROVE  Conserves
<1>1. NetOK' /\ cmd.w \in Workers /\ cmd.pc = "base" /\ cmd'.pc \in {"read", "none"}
  BY SyncBaseNet DEF SyncBase
<1>2. UNCHANGED <<glob, hit, hits, aoff>> /\ old' = [old EXCEPT ![cmd.w] = glob[cmd.w]]
      /\ missed' = missed + ((glob[cmd.w] - cmd.seen) % HitMod)
  BY DEF SyncBase
<1>3. \A v \in Workers : v # cmd.w => Pending'[v] = Pending[v]
  BY <1>1, <1>2, HitsTyped DEF Pending, PendingOf, Counts
<1>4. Pending[cmd.w] = (glob[cmd.w] - cmd.seen) % HitMod
  BY <1>1 DEF Pending, PendingOf
<1>5. Pending'[cmd.w] = 0
  <2>1. old'[cmd.w] = glob[cmd.w] /\ glob[cmd.w] \in 0 .. HitMod - 1
    BY <1>1, <1>2, HitsTyped DEF Counts
  <2>2. Pending'[cmd.w] = (glob[cmd.w] - glob[cmd.w]) % HitMod
    BY <1>1, <1>2, <2>1 DEF Pending, PendingOf
  <2> QED BY <2>1, <2>2, GainNat
<1>6. PendingSum' = PendingSum + (Pending'[cmd.w] - Pending[cmd.w]) /\ PendingSum \in Nat
      /\ Pending[cmd.w] \in Nat /\ PendingSum' \in Nat
  BY <1>1, <1>3, PendingMoves, HitsTyped, HitsTypedNext
<1>7. Stored' = Stored /\ StoredOff' = StoredOff
  BY <1>1, <1>2 DEF Stored, StoredOff
<1>8. missed' = missed + Pending[cmd.w] /\ PendingSum' = PendingSum - Pending[cmd.w]
  BY <1>2, <1>4, <1>5, <1>6
<1>9. Stored \in Nat /\ StoredOff \in Int /\ missed \in Nat
  BY HitsTyped
<1> QED BY <1>1, <1>2, <1>6, <1>7, <1>8, <1>9 DEF Conserves

LEMMA ClearRebaseConserves ==
  ASSUME NetOK, ClearRebase
  PROVE  Conserves
<1>1. NetOK' /\ cmd.w \in Workers /\ cmd.pc = "rebase" /\ cmd'.pc \in {"rebase", "zero", "none"}
  BY ClearRebaseNet DEF ClearRebase
<1>2. UNCHANGED <<glob, hit, hits, missed>> /\ old' = [old EXCEPT ![cmd.w] = glob[cmd.w]]
      /\ aoff' = aoff + Gained(cmd.w)
  BY DEF ClearRebase, Rebased
<1>3. \A v \in Workers : v # cmd.w => Pending'[v] = Pending[v]
  BY <1>1, <1>2, HitsTyped DEF Pending, PendingOf, Counts
<1>4. Pending[cmd.w] = Gained(cmd.w)
  BY <1>1 DEF Pending, PendingOf, Gained
<1>5. Pending'[cmd.w] = 0
  <2>1. old'[cmd.w] = glob[cmd.w] /\ glob[cmd.w] \in 0 .. HitMod - 1
    BY <1>1, <1>2, HitsTyped DEF Counts
  <2>2. Pending'[cmd.w] = (glob[cmd.w] - glob[cmd.w]) % HitMod
    BY <1>1, <1>2, <2>1 DEF Pending, PendingOf
  <2> QED BY <2>1, <2>2, GainNat
<1>6. PendingSum' = PendingSum + (Pending'[cmd.w] - Pending[cmd.w]) /\ PendingSum \in Nat
      /\ Pending[cmd.w] \in Nat /\ PendingSum' \in Nat
  BY <1>1, <1>3, PendingMoves, HitsTyped, HitsTypedNext
<1>7. Stored' = Stored /\ StoredOff = aoff /\ StoredOff' = aoff'
  BY <1>1, <1>2 DEF Stored, StoredOff
<1>8. aoff' = aoff + Pending[cmd.w] /\ PendingSum' = PendingSum - Pending[cmd.w]
  BY <1>2, <1>4, <1>5, <1>6
<1>9. Stored \in Nat /\ aoff \in Int /\ missed \in Nat
  BY HitsTyped
<1> QED BY <1>1, <1>2, <1>6, <1>7, <1>8, <1>9 DEF Conserves

\* VPP and restd zero the counter in shared memory, also while "sync" is
\* about to store to it.
LEMMA ZeroHitConserves ==
  ASSUME NetOK, ZeroHit, UNCHANGED <<glob, old, hits, missed>>,
         cmd' = cmd \/ (cmd.pc \notin {"store", "base"} /\ cmd'.pc \notin {"store", "base"})
  PROVE  Conserves /\ (cmd'.pc # "store" => Stored' = 0) /\ PendingSum' = PendingSum
<1>1. PendingSum' = PendingSum
  <2>1. PendingOf(glob, old, cmd') = PendingOf(glob, old, cmd)
    BY PendingGained
  <2> QED BY <2>1 DEF PendingSum, Pending
<1>2. hit' = 0 /\ aoff' = aoff + hit
  BY DEF ZeroHit
<1>3. Stored \in Nat /\ StoredOff \in Int /\ PendingSum \in Nat /\ missed \in Nat /\ hit \in Nat
      /\ aoff \in Int
  BY HitsTyped
<1>4. CASE cmd.pc = "store"
  <2>1. cmd' = cmd
    BY <1>4
  <2>2. Stored' = Stored /\ StoredOff' = StoredOff
    BY <1>4, <2>1 DEF Stored, StoredOff
  <2> QED BY <1>1, <1>2, <1>3, <1>4, <2>1, <2>2 DEF Conserves
<1>5. CASE cmd.pc # "store"
  <2>1. cmd'.pc # "store"
    BY <1>5
  <2>2. Stored = hit /\ StoredOff = aoff /\ Stored' = 0 /\ StoredOff' = aoff + hit
    BY <1>2, <1>5, <2>1 DEF Stored, StoredOff
  <2> QED BY <1>1, <1>2, <1>3, <2>1, <2>2 DEF Conserves
<1> QED BY <1>4, <1>5

LEMMA RestartHits ==
  ASSUME NetOK, Restart
  PROVE  /\ hits' = hits /\ cmd'.pc = "none" /\ hit' = hit
         /\ Stored' + PendingSum' = hit
         /\ Stored' + StoredOff' + missed' + PendingSum' = hits
<1>1. /\ glob' = [w \in Workers |-> 0] /\ old' = glob' /\ aoff' = hits - hit - missed
      /\ cmd' = NoCmd /\ UNCHANGED <<hit, hits, missed>>
  BY DEF Restart
<1>2. cmd'.pc = "none"
  BY <1>1, NoCmdTyped
<1>3. PendingSum' = 0
  <2> DEFINE f == Pending'
  <2>1. ASSUME NEW w \in Workers PROVE f[w] = 0
    <3>1. f[w] = (glob'[w] - old'[w]) % HitMod /\ glob'[w] = 0 /\ old'[w] = 0
      BY <1>1, <1>2 DEF Pending, PendingOf
    <3>2. (0 - 0) % HitMod = 0
      BY CliSizes, GainNat
    <3> HIDE DEF f
    <3> QED BY <3>1, <3>2
  <2> HIDE DEF f
  <2>2. SumTo(f, NWorkers) = 0
    BY <2>1, CliSizes, SumZero
  <2> QED BY <2>2 DEF f, PendingSum
<1>4. Stored' = hit /\ StoredOff' = hits - hit - missed
  BY <1>1, <1>2 DEF Stored, StoredOff
<1>5. hit \in Nat /\ hits \in Nat /\ missed \in Nat
  BY HitsTyped
<1> QED BY <1>1, <1>2, <1>3, <1>4, <1>5

LEMMA CmdStepConserves ==
  ASSUME NetOK, CmdStep
  PROVE  Conserves
<1>1. CASE SyncRead \/ SyncStore \/ SyncBase \/ ClearRebase
  BY <1>1, SyncReadConserves, SyncStoreConserves, SyncBaseConserves, ClearRebaseConserves
<1>2. CASE ClearZero
  <2>1. cmd.pc = "zero" /\ cmd'.pc \in {"rebase", "none"}
    BY <1>2, ClearZeroNet DEF ClearZero
  <2> QED BY <1>2, <2>1, ZeroHitConserves DEF ClearZero
<1>3. CASE RunIntfSync \/ RunIntfClear \/ RunShow
  <2>1. cmd.pc = "run" /\ cmd'.pc = "none" /\ UNCHANGED aclVars
    BY <1>3, RunNet
  <2> QED BY <2>1, ConservesSame
<1>4. CASE Reply
  <2>1. cmd.pc = "none" /\ cmd'.pc = "none" /\ UNCHANGED aclVars
    BY <1>4, ReplyNet
  <2> QED BY <2>1, ConservesSame
<1> QED BY <1>1, <1>2, <1>3, <1>4 DEF CmdStep

LEMMA StepConserves ==
  ASSUME IntfInv, NetOK, [Next]_vars
  PROVE  Conserves \/ Restart \/ \E w \in Workers : Hit(w)
<1>1. CASE PortStep \/ Period \/ CalcStep \/ Packet
  BY <1>1, IntfStepsApart, ConservesSame
<1>2. CASE Serve
  <2>1. cmd.pc = "none" /\ cmd'.pc \notin {"store", "base"} /\ UNCHANGED aclVars
    BY <1>2, ServeNet
  <2> QED BY <2>1, ConservesSame
<1>3. ASSUME NEW c \in ConsoleCmds, Console(c) PROVE Conserves
  <2>1. cmd.pc = "none" /\ cmd'.pc \notin {"store", "base"} /\ UNCHANGED aclVars
    BY <1>3, ConsoleNet
  <2> QED BY <2>1, ConservesSame
<1>4. CASE CmdStep
  BY <1>4, CmdStepConserves
<1>5. CASE AfterPatch
  BY <1>5, ZeroHitConserves DEF AfterPatch
<1>6. CASE \/ Poll \/ Receive \/ TimeOut \/ AfterGet \/ AfterOther \/ PatchNext
           \/ \E c \in RestCmds : QuickFail(c)
           \/ \E c \in RestCmds, p \in Ports, lost \in BOOLEAN : Send(c, p, lost)
           \/ \E names \in SUBSET Intfs : PatchIntf(names)
           \/ UNCHANGED vars
  <2>1. UNCHANGED <<aclVars, cmd>>
    BY <1>6 DEF Poll, Receive, TimeOut, AfterGet, AfterOther, PatchNext, QuickFail, Send, PatchIntf, vars
  <2> QED BY <2>1, ConservesSame
<1> QED BY <1>1, <1>2, <1>3, <1>4, <1>5, <1>6 DEF Next

LEMMA HitsNext ==
  ASSUME IntfInv, NetOK, NoWrap, HitsInv, [Next]_vars
  PROVE  HitsInv'
<1>1. NetOK'
  BY NetNext
<1>2. Stored \in Nat /\ StoredOff \in Int /\ PendingSum \in Nat /\ missed \in Nat /\ hits \in Nat
  BY HitsTyped
<1>3. Stored' \in Nat /\ StoredOff' \in Int /\ PendingSum' \in Nat /\ missed' \in Nat
  BY <1>1, HitsTypedNext
<1>4. CASE Conserves
  BY <1>2, <1>3, <1>4 DEF Conserves, HitsInv
<1>5. CASE Restart
  BY <1>5, RestartHits DEF HitsInv
<1>6. ASSUME NEW w \in Workers, Hit(w) PROVE HitsInv'
  <2>1. Pending[w] < HitMod - 1
    BY DEF NoWrap
  <2>2. /\ hits' = hits + 1 /\ Stored' = Stored /\ StoredOff' = StoredOff /\ missed' = missed
        /\ PendingSum' = PendingSum + 1
    BY <1>6, <2>1, HitConserves
  <2> QED BY <1>2, <2>2 DEF HitsInv
<1> QED BY <1>4, <1>5, <1>6, StepConserves

LEMMA PendingInit ==
  ASSUME Init
  PROVE  PendingSum = 0 /\ Stored = 0 /\ StoredOff = 0 /\ cmd.pc = "none"
<1>1. NetOK
  BY NetInit
<1>2. cmd.pc = "none" /\ old = glob /\ hit = 0 /\ aoff = 0
  BY NoCmdTyped DEF Init
<1> DEFINE f == Pending
<1>3. ASSUME NEW w \in Workers PROVE f[w] = 0
  <2>1. glob[w] \in 0 .. HitMod - 1
    BY <1>1, HitsTyped DEF Counts
  <2>2. f[w] = (glob[w] - glob[w]) % HitMod
    BY <1>2 DEF Pending, PendingOf
  <2> QED BY <2>1, <2>2, GainNat
<1> HIDE DEF f
<1>4. SumTo(f, NWorkers) = 0
  BY <1>3, CliSizes, SumZero
<1> QED BY <1>2, <1>4 DEF f, PendingSum, Stored, StoredOff

\* AllGained is what is pending when no command is being executed.
LEMMA AllGainedPending ==
  ASSUME cmd.pc \notin {"store", "base"}
  PROVE  AllGained = PendingSum
<1>1. [w \in Workers |-> Gained(w)] = Pending
  BY DEF Pending, PendingOf, Gained
<1> QED BY <1>1 DEF AllGained, PendingSum

-----------------------------------------------------------------------------
(* Nothing from before a clear is reported *)

\* NoneBefore(x) in the next state, for a number of this one
NoneBeforeNext(x) ==
  /\ Stored' + PendingSum' <= hits' - x
  /\ cmd'.pc = "store" => hit' <= hits' - x

LEMMA SumBelow ==
  ASSUME NEW a \in Nat, NEW b \in Nat, NEW h \in Nat, NEW x \in Int, a + b <= h - x,
         NEW c \in Nat, NEW d \in Nat
  PROVE  /\ c + d <= a + b => c + d <= h - x
         /\ d <= b + 1 => a + d <= (h + 1) - x
OBVIOUS

\* The hits of before x stay out.
LEMMA NoneStays ==
  ASSUME IntfInv, NetOK, [Next]_vars
  PROVE  hits' >= hits /\ \A x \in Int : NoneBefore(x) => NoneBeforeNext(x)
<1>1. NetOK'
  BY NetNext
<1>2. Stored \in Nat /\ PendingSum \in Nat /\ hits \in Nat /\ hit \in Nat
  BY HitsTyped
<1>3. Stored' \in Nat /\ PendingSum' \in Nat /\ hits' \in Nat /\ hit' \in Nat
  BY <1>1, HitsTypedNext
<1>4. cmd.pc # "store" => Stored = hit
  BY DEF Stored
<1>5. ASSUME NEW x \in Int, NoneBefore(x) PROVE hit <= hits - x
  BY <1>2, <1>4, <1>5 DEF NoneBefore
<1>6. CASE Conserves
  <2>1. hits' = hits
    BY <1>6 DEF Conserves
  <2>2. cmd'.pc = "store" => hit' <= hit
    BY <1>6 DEF Conserves
  <2>3. Stored' + PendingSum' <= Stored + PendingSum
    BY <1>6 DEF Conserves
  <2>4. ASSUME NEW x \in Int, NoneBefore(x) PROVE NoneBeforeNext(x)
    <3>1. Stored + PendingSum <= hits - x /\ hit <= hits - x
      BY <1>5, <2>4 DEF NoneBefore
    <3>2. Stored' + PendingSum' <= hits - x
      BY <1>2, <1>3, <2>3, <3>1, SumBelow
    <3>3. cmd'.pc = "store" => hit' <= hits - x
      BY <1>2, <1>3, <2>2, <3>1
    <3> QED BY <2>1, <3>2, <3>3 DEF NoneBeforeNext
  <2> QED BY <1>2, <2>1, <2>4
<1>7. CASE Restart
  <2>1. hits' = hits /\ cmd'.pc = "none" /\ Stored' + PendingSum' = hit
    BY <1>7, RestartHits
  <2> QED BY <1>2, <1>5, <2>1 DEF NoneBeforeNext
<1>8. ASSUME NEW w \in Workers, Hit(w)
      PROVE  hits' >= hits /\ \A x \in Int : NoneBefore(x) => NoneBeforeNext(x)
  <2>1. hits' = hits + 1 /\ hit' = hit /\ cmd' = cmd
    BY <1>8, HitConserves
  <2>2. Stored' = Stored
    BY <1>8, HitConserves
  <2>3. PendingSum' <= PendingSum + 1
    BY <1>8, HitConserves
  <2>4. ASSUME NEW x \in Int, NoneBefore(x) PROVE NoneBeforeNext(x)
    <3>1. Stored + PendingSum <= hits - x /\ hit <= hits - x
      BY <1>5, <2>4 DEF NoneBefore
    <3>2. Stored + PendingSum' <= (hits + 1) - x
      BY <1>2, <1>3, <2>3, <3>1, SumBelow
    <3>3. hit' <= (hits + 1) - x
      BY <1>2, <2>1, <3>1
    <3> QED BY <2>1, <2>2, <3>2, <3>3 DEF NoneBeforeNext
  <2> QED BY <1>2, <2>1, <2>4
<1> QED BY <1>6, <1>7, <1>8, StepConserves

\* What a step has to show of the call that waits.
LEMMA ClearKeeps ==
  ASSUME IntfInv, NetOK, ClearInv, [Next]_vars,
         NoneBefore(clearedAt'), NothingBeforeClear',
         cl'.at = cl.at,
         cl'.got # 0 /\ cl'.cmd = "acl_clear" => NoneBefore(cl.at),
         cl'.pc = "wait" /\ cl'.cmd = "acl_clear" =>
           /\ \A p \in Ports : \A k \in 1 .. Len(rxq'[p]) :
                rxq'[p][k].seq = cl'.seq => NoneBefore(cl.at)
           /\ cmd'.req.seq = cl'.seq => ClearUnderWay'
  PROVE  ClearInv'
<1>1. NetOK'
  BY NetNext
<1>2. hits \in Nat /\ hits' \in Nat /\ cl.at \in Int /\ clearedAt' \in Int
  BY <1>1 DEF NetOK, CliTypeOK, CallType
<1>3. hits' >= hits /\ \A x \in Int : NoneBefore(x) => NoneBeforeNext(x)
  BY NoneStays
<1>4. NoneBefore(cl.at) => NoneBefore(cl.at)'
  <2>1. NoneBefore(cl.at) => NoneBeforeNext(cl.at)
    BY <1>2, <1>3
  <2> QED BY <2>1 DEF NoneBeforeNext, NoneBefore
<1>5. NoneBefore(clearedAt)'
  <2>1. NoneBeforeNext(clearedAt')
    BY <1>2, <1>3
  <2> QED BY <2>1 DEF NoneBeforeNext, NoneBefore
<1>6. (cl.at <= hits)'
  BY <1>2, <1>3 DEF ClearInv
<1> QED BY <1>4, <1>5, <1>6 DEF ClearInv

\* The clear for the call that waits is executed as the clear of its rule.
LEMMA ClearMine ==
  ASSUME NetOK, cl.pc = "wait", cl.cmd = "acl_clear", cmd.req.seq = cl.seq
  PROVE  cmd.name = "acl_clear" /\ cmd.pc \in {"rebase", "zero", "none"} /\ cl.seq > 0
BY DEF NetOK, NetInv, Mine, PcOf

LEMMA UnderWaySame ==
  ASSUME IntfInv, NetOK, [Next]_vars, ClearUnderWay, UNCHANGED <<glob, old, hits, cmd>>,
         cl'.at = cl.at
  PROVE  ClearUnderWay'
<1>1. cl.at \in Int
  BY DEF NetOK, CliTypeOK, CallType
<1>2. NoneBefore(cl.at) => NoneBefore(cl.at)'
  <2>1. NoneBefore(cl.at) => NoneBeforeNext(cl.at)
    BY <1>1, NoneStays
  <2> QED BY <2>1 DEF NoneBeforeNext, NoneBefore
<1>3. RebasedSum' = RebasedSum
  BY DEF RebasedSum, RebasedOf
<1>4. AllGained' = AllGained
  BY DEF AllGained, Gained
<1> QED BY <1>2, <1>3, <1>4 DEF ClearUnderWay

\* Steps that leave the call, its answers, the commands and the hits alone.
LEMMA ClearSame ==
  ASSUME IntfInv, NetOK, ClearInv, [Next]_vars,
         UNCHANGED <<glob, old, hits, cmd, rxq, restVars>>
  PROVE  ClearInv'
<1>1. UNCHANGED cl /\ UNCHANGED clearedAt /\ UNCHANGED report
  BY DEF restVars
<1>2. NothingBeforeClear' /\ NoneBefore(clearedAt')
  BY <1>1 DEF ClearInv, NothingBeforeClear
<1>3. cl.pc = "wait" /\ cl.cmd = "acl_clear" /\ cmd.req.seq = cl.seq => ClearUnderWay'
  BY <1>1, UnderWaySame DEF ClearInv
<1> QED BY <1>1, <1>2, <1>3, ClearKeeps DEF ClearInv

\* Steps of restd that end a call, or are part of none.
LEMMA ClearEnds ==
  ASSUME IntfInv, NetOK, ClearInv, [Next]_vars, UNCHANGED <<clearedAt, report>>,
         cl'.at = cl.at, cl'.pc # "wait", cl'.got # 0 => cl'.got = cl.got /\ cl'.cmd = cl.cmd
  PROVE  ClearInv'
<1>1. NothingBeforeClear' /\ NoneBefore(clearedAt')
  BY DEF ClearInv, NothingBeforeClear
<1> QED BY <1>1, ClearKeeps DEF ClearInv

LEMMA AllGainedPendingNext ==
  ASSUME cmd'.pc \notin {"store", "base"}
  PROVE  AllGained' = PendingSum'
<1>1. [w \in Workers |-> Gained(w)]' = Pending'
  BY DEF Pending, PendingOf, Gained
<1> QED BY <1>1 DEF AllGained, PendingSum

LEMMA RebasedNat ==
  ASSUME NEW g \in Counts, NEW o \in Counts, NEW c \in CmdType
  PROVE  \A w \in Workers : RebasedOf(g, o, c)[w] \in Nat
<1>1. ASSUME NEW w \in Workers PROVE RebasedOf(g, o, c)[w] \in Nat
  <2>1. g[w] \in 0 .. HitMod - 1 /\ o[w] \in 0 .. HitMod - 1
    BY DEF Counts
  <2>2. (g[w] - o[w]) % HitMod \in Nat
    BY <2>1, GainNat
  <2>3. RebasedOf(g, o, c)[w] = IF w < c.w THEN (g[w] - o[w]) % HitMod ELSE 0
    BY DEF RebasedOf
  <2> QED BY <2>2, <2>3
<1> QED BY <1>1

LEMMA OneMore ==
  ASSUME NEW a \in Int, NEW b \in Int, b <= a + 1, NEW h \in Nat, NEW x \in Nat, a <= h - x
  PROVE  b <= (h + 1) - x
OBVIOUS

LEMMA HitUnderWay ==
  ASSUME IntfInv, NetOK, NEW w \in Workers, Hit(w), [Next]_vars, ClearUnderWay
  PROVE  ClearUnderWay'
<1>1. NetOK' /\ hits' = hits + 1 /\ cmd' = cmd /\ cl' = cl /\ hits \in Nat
  BY HitNet, HitsTyped DEF Hit, restVars
<1>2. glob' = [glob EXCEPT ![w] = (glob[w] + 1) % HitMod] /\ old' = old
  BY DEF Hit
<1>3. glob \in Counts /\ old \in Counts /\ cmd \in CmdType /\ glob' \in Counts /\ cl.at \in Nat
  BY <1>1, HitsTyped, HitsTypedNext DEF NetOK, CliTypeOK, CallType
<1>4. RebasedSum' <= RebasedSum + 1 /\ RebasedSum \in Int /\ RebasedSum' \in Int
  <2> DEFINE f == RebasedOf(glob, old, cmd)
             g == RebasedOf(glob', old, cmd)
  <2>1. \A v \in Workers : f[v] \in Nat /\ g[v] \in Nat
    BY <1>3, RebasedNat
  <2>2. \A v \in Workers : v # w => g[v] = f[v]
    BY <1>2, <1>3 DEF RebasedOf, Counts
  <2>3. g[w] <= f[w] + 1
    <3>1. glob[w] \in 0 .. HitMod - 1 /\ old[w] \in 0 .. HitMod - 1
          /\ glob'[w] = (glob[w] + 1) % HitMod
      BY <1>2, <1>3 DEF Counts
    <3> DEFINE d == (glob[w] - old[w]) % HitMod
               e == (((glob[w] + 1) % HitMod) - old[w]) % HitMod
    <3>2. e = (IF d = HitMod - 1 THEN 0 ELSE d + 1) /\ d \in Nat
      BY <3>1, CliSizes, GainStep, GainNat
    <3>3. f[w] = (IF w < cmd.w THEN d ELSE 0) /\ g[w] = (IF w < cmd.w THEN e ELSE 0)
      BY <3>1 DEF RebasedOf
    <3> HIDE DEF d, e, f, g
    <3>4. e <= d + 1
      BY <3>2
    <3> QED BY <3>2, <3>3, <3>4
  <2>4. RebasedSum = SumTo(f, NWorkers) /\ RebasedSum' = SumTo(g, NWorkers)
    BY <1>1, <1>2 DEF RebasedSum
  <2> HIDE DEF f, g
  <2>5. NWorkers \in Nat /\ w \in 1 .. NWorkers /\ \A v \in 1 .. NWorkers : f[v] \in Int /\ g[v] \in Int
    BY <2>1, CliSizes
  <2>6. \A v \in 1 .. NWorkers : v # w => g[v] = f[v]
    BY <2>2, CliSizes
  <2>7. SumTo(g, NWorkers) = SumTo(f, NWorkers) + (g[w] - f[w]) /\ SumTo(f, NWorkers) \in Int
    BY <2>5, <2>6, SumPoint
  <2>8. f[w] \in Nat /\ g[w] \in Nat
    BY <2>1
  <2> QED BY <2>3, <2>4, <2>7, <2>8
<1>5. cmd.pc = "zero" => AllGained' <= AllGained + 1 /\ AllGained \in Int /\ AllGained' \in Int
  <2>1. PendingSum' <= PendingSum + 1
    BY HitConserves
  <2>2. cmd.pc = "zero" => AllGained = PendingSum /\ AllGained' = PendingSum'
    BY <1>1, AllGainedPending, AllGainedPendingNext
  <2>3. PendingSum \in Nat /\ PendingSum' \in Nat
    BY <1>1, HitsTyped, HitsTypedNext
  <2> QED BY <2>1, <2>2, <2>3
<1>6. NoneBefore(cl.at) => NoneBefore(cl.at)'
  <2>1. NoneBefore(cl.at) => NoneBeforeNext(cl.at)
    BY <1>3, NoneStays
  <2> QED BY <1>1, <2>1 DEF NoneBeforeNext, NoneBefore
<1>7. cmd.pc = "rebase" => RebasedSum' <= (hits + 1) - cl.at
  <2>1. cmd.pc = "rebase" => RebasedSum <= hits - cl.at
    BY DEF ClearUnderWay
  <2> QED BY <1>1, <1>3, <1>4, <2>1, OneMore
<1>8. cmd.pc = "zero" => AllGained' <= (hits + 1) - cl.at
  <2>1. cmd.pc = "zero" => AllGained <= hits - cl.at
    BY DEF ClearUnderWay
  <2> QED BY <1>1, <1>3, <1>5, <2>1, OneMore
<1> QED BY <1>1, <1>6, <1>7, <1>8 DEF ClearUnderWay

\* A rebased worker has gained nothing.
LEMMA RebaseUnderWay ==
  ASSUME IntfInv, NetOK, ClearRebase, ClearUnderWay, cmd.name = "acl_clear"
  PROVE  ClearUnderWay'
<1>1. /\ NetOK' /\ cmd.w \in Workers /\ cmd.pc = "rebase"
      /\ \/ cmd.w < NWorkers /\ cmd'.pc = "rebase" /\ cmd'.w = cmd.w + 1
         \/ cmd.w = NWorkers /\ cmd'.pc = "zero"
  BY ClearRebaseNet DEF ClearRebase
<1>2. UNCHANGED <<glob, hits, cl>> /\ old' = [old EXCEPT ![cmd.w] = glob[cmd.w]]
  BY DEF ClearRebase, Rebased, restVars
<1>3. glob \in Counts /\ old \in Counts /\ NWorkers \in Nat /\ Workers = 1 .. NWorkers
  BY HitsTyped, CliSizes
<1>4. old'[cmd.w] = glob[cmd.w] /\ (glob[cmd.w] - old'[cmd.w]) % HitMod = 0
  <2>1. glob[cmd.w] \in 0 .. HitMod - 1 /\ old'[cmd.w] = glob[cmd.w]
    BY <1>1, <1>2, <1>3 DEF Counts
  <2> QED BY <2>1, GainNat
<1>5. RebasedSum <= hits - cl.at
  BY <1>1 DEF ClearUnderWay
<1>6. CASE cmd.w < NWorkers /\ cmd'.pc = "rebase" /\ cmd'.w = cmd.w + 1
  <2>1. ASSUME NEW v \in Workers
        PROVE  (IF v < cmd.w + 1 THEN (glob[v] - old'[v]) % HitMod ELSE 0)
                 = (IF v < cmd.w THEN (glob[v] - old[v]) % HitMod ELSE 0)
    <3>1. CASE v = cmd.w
      <4>1. v < cmd.w + 1 /\ ~ (v < cmd.w)
        BY <1>1, <1>3, <3>1
      <4> QED BY <1>4, <3>1, <4>1
    <3>2. CASE v # cmd.w
      <4>1. old'[v] = old[v] /\ (v < cmd.w + 1 <=> v < cmd.w)
        BY <1>1, <1>2, <1>3, <3>2 DEF Counts
      <4> QED BY <4>1
    <3> QED BY <3>1, <3>2
  <2>2. RebasedOf(glob', old', cmd') = RebasedOf(glob, old, cmd)
    BY <1>2, <1>6, <2>1, Zenon DEF RebasedOf
  <2>3. RebasedSum' = RebasedSum
    BY <2>2 DEF RebasedSum
  <2> QED BY <1>2, <1>5, <1>6, <2>3 DEF ClearUnderWay
<1>7. CASE cmd.w = NWorkers /\ cmd'.pc = "zero"
  <2>1. ASSUME NEW v \in Workers
        PROVE  (glob[v] - old'[v]) % HitMod
                 = (IF v < cmd.w THEN (glob[v] - old[v]) % HitMod ELSE 0)
    <3>1. CASE v = cmd.w
      <4>1. ~ (v < cmd.w)
        BY <1>1, <1>3, <3>1
      <4> QED BY <1>4, <3>1, <4>1
    <3>2. CASE v # cmd.w
      <4>1. old'[v] = old[v] /\ v < cmd.w
        BY <1>1, <1>2, <1>3, <1>7, <3>2 DEF Counts
      <4> QED BY <4>1
    <3> QED BY <3>1, <3>2
  <2>2. [v \in Workers |-> (glob'[v] - old'[v]) % HitMod] = RebasedOf(glob, old, cmd)
    BY <1>2, <2>1, Zenon DEF RebasedOf
  <2>3. AllGained' = RebasedSum
    BY <2>2 DEF RebasedSum, AllGained, Gained
  <2> QED BY <1>2, <1>5, <1>7, <2>3 DEF ClearUnderWay
<1> QED BY <1>1, <1>6, <1>7

LEMMA ZeroUnderWay ==
  ASSUME IntfInv, NetOK, ClearZero, ClearUnderWay, cmd.name = "acl_clear"
  PROVE  ClearUnderWay'
<1>1. cmd.pc = "zero" /\ cmd'.pc = "none" /\ NetOK'
  BY ClearZeroNet DEF ClearZero
<1>2. UNCHANGED <<hits, cl>>
  BY DEF ClearZero, restVars
<1>3. Stored' = 0 /\ PendingSum' = PendingSum /\ PendingSum \in Nat
  BY <1>1, ZeroHitConserves, HitsTyped DEF ClearZero
<1>4. AllGained = PendingSum
  BY <1>1, AllGainedPending
<1>5. PendingSum <= hits - cl.at
  BY <1>1, <1>4 DEF ClearUnderWay
<1>6. Stored' + PendingSum' <= hits' - cl'.at
  BY <1>2, <1>3, <1>5
<1> QED BY <1>1, <1>6 DEF ClearUnderWay, NoneBefore

LEMMA ServeUnderWay ==
  ASSUME IntfInv, NetOK, Serve, cl.at <= hits, cmd'.name = "acl_clear"
  PROVE  ClearUnderWay'
<1>1. NetOK' /\ cmd'.pc = "rebase" /\ cmd'.w = 1 /\ UNCHANGED <<aclVars, cl>>
  BY ServeNet DEF restVars
<1> DEFINE f == RebasedOf(glob', old', cmd')
<1>2. \A w \in 1 .. NWorkers : f[w] = 0
  <2> SUFFICES ASSUME NEW w \in 1 .. NWorkers PROVE f[w] = 0
    OBVIOUS
  <2>1. w \in Workers /\ ~ (w < 1)
    BY CliSizes
  <2> QED BY <1>1, <2>1 DEF RebasedOf
<1>3. RebasedSum' = SumTo(f, NWorkers)
  BY DEF RebasedSum
<1> HIDE DEF f
<1>4. RebasedSum' = 0
  BY <1>2, <1>3, CliSizes, SumZero
<1>5. cl.at \in Nat /\ hits \in Nat /\ hits' = hits /\ cl'.at = cl.at
  BY <1>1 DEF NetOK, CliTypeOK, CallType, aclVars
<1>6. RebasedSum' <= hits' - cl'.at
  BY <1>4, <1>5
<1> QED BY <1>1, <1>6 DEF ClearUnderWay

\* The steps of the main thread.
LEMMA CmdStepClear ==
  ASSUME IntfInv, NetOK, ClearInv, [Next]_vars, CmdStep
  PROVE  ClearInv'
<1>1. UNCHANGED cl /\ UNCHANGED clearedAt /\ UNCHANGED report
  BY DEF CmdStep, SyncRead, SyncStore, SyncBase, ClearRebase, ClearZero, RunIntfSync, RunIntfClear,
         RunShow, Reply, restVars
<1>2. NothingBeforeClear' /\ NoneBefore(clearedAt')
  BY <1>1 DEF ClearInv, NothingBeforeClear
<1>3. ASSUME cl.pc = "wait", cl.cmd = "acl_clear"
      PROVE  /\ \A p \in Ports : \A k \in 1 .. Len(rxq'[p]) :
                  rxq'[p][k].seq = cl.seq => NoneBefore(cl.at)
             /\ cmd'.req.seq = cl.seq => ClearUnderWay'
  <2>1. \A p \in Ports : \A k \in 1 .. Len(rxq[p]) : rxq[p][k].seq = cl.seq => NoneBefore(cl.at)
    BY <1>3 DEF ClearInv
  <2>2. cmd.req.seq = cl.seq =>
          ClearUnderWay /\ cmd.name = "acl_clear" /\ cmd.pc \in {"rebase", "zero", "none"}
    BY <1>3, ClearMine DEF ClearInv
  <2>3. CASE SyncRead \/ SyncStore \/ SyncBase
    <3>1. UNCHANGED rxq /\ cmd.pc \in {"read", "store", "base"} /\ cmd'.req = cmd.req
      BY <2>3, HitsTyped DEF SyncRead, SyncStore, SyncBase, NextWorker, netVars, CmdType
    <3> QED BY <2>1, <2>2, <3>1
  <2>4. CASE ClearRebase
    <3>1. UNCHANGED rxq /\ cmd'.req = cmd.req
      BY <2>4, ClearRebaseNet DEF ClearRebase, netVars
    <3> QED BY <2>1, <2>2, <2>4, <3>1, RebaseUnderWay
  <2>5. CASE ClearZero
    <3>1. UNCHANGED rxq /\ cmd'.req = cmd.req
      BY <2>5, ClearZeroNet DEF ClearZero, netVars
    <3> QED BY <2>1, <2>2, <2>5, <3>1, ZeroUnderWay
  <2>6. CASE RunIntfSync \/ RunIntfClear \/ RunShow
    <3>1. UNCHANGED rxq /\ cmd'.req = cmd.req /\ cmd.pc = "run"
      BY <2>6, RunNet
    <3> QED BY <2>1, <2>2, <3>1
  <2>7. CASE Reply
    <3>1. /\ cmd'.req.seq = 0 /\ cmd.pc = "none"
          /\ \A p \in Ports : \A k \in 1 .. Len(rxq'[p]) :
               \/ rxq'[p][k].seq = cmd.req.seq
               \/ k \in 1 .. Len(rxq[p]) /\ rxq'[p][k] = rxq[p][k]
      BY <2>7, ReplyNet
    <3>2. cl.seq # 0
      BY <1>3 DEF NetOK, NetInv
    <3>3. cmd.req.seq = cl.seq => NoneBefore(cl.at)
      BY <2>2, <3>1 DEF ClearUnderWay
    <3> QED BY <2>1, <3>1, <3>2, <3>3
  <2> QED BY <2>3, <2>4, <2>5, <2>6, <2>7 DEF CmdStep
<1>4. cl'.got # 0 /\ cl'.cmd = "acl_clear" => NoneBefore(cl.at)
  BY <1>1 DEF ClearInv
<1> QED BY <1>1, <1>2, <1>3, <1>4, ClearKeeps

\* A new command is begun.
LEMMA BeginClear ==
  ASSUME IntfInv, NetOK, ClearInv, [Next]_vars, Serve \/ \E c \in ConsoleCmds : Console(c)
  PROVE  ClearInv'
<1>1. UNCHANGED cl /\ UNCHANGED clearedAt /\ UNCHANGED report /\ UNCHANGED rxq
  BY ServeNet, ConsoleNet DEF restVars
<1>2. NothingBeforeClear' /\ NoneBefore(clearedAt')
  BY <1>1 DEF ClearInv, NothingBeforeClear
<1>3. ASSUME cl.pc = "wait", cl.cmd = "acl_clear", cmd'.req.seq = cl.seq
      PROVE  ClearUnderWay'
  <2>1. cl.seq # 0 /\ NetOK'
    BY <1>3, NetNext DEF NetOK, NetInv
  <2>2. CASE Serve
    <3>1. cmd'.name = "acl_clear"
      BY <1>1, <1>3, <2>1 DEF NetOK, NetInv, Mine
    <3> QED BY <2>2, <3>1, ServeUnderWay DEF ClearInv
  <2>3. CASE \E c \in ConsoleCmds : Console(c)
    BY <1>3, <2>1, <2>3, ConsoleNet
  <2> QED BY <2>2, <2>3
<1> QED BY <1>1, <1>2, <1>3, ClearKeeps DEF ClearInv

LEMMA HitClear ==
  ASSUME IntfInv, NetOK, ClearInv, [Next]_vars, NEW w \in Workers, Hit(w)
  PROVE  ClearInv'
<1>1. UNCHANGED cl /\ UNCHANGED clearedAt /\ UNCHANGED report /\ UNCHANGED rxq /\ UNCHANGED cmd
  BY DEF Hit, restVars, netVars
<1>2. NothingBeforeClear' /\ NoneBefore(clearedAt')
  BY <1>1 DEF ClearInv, NothingBeforeClear
<1>3. cl.pc = "wait" /\ cl.cmd = "acl_clear" /\ cmd.req.seq = cl.seq => ClearUnderWay'
  BY HitUnderWay DEF ClearInv
<1> QED BY <1>1, <1>2, <1>3, ClearKeeps DEF ClearInv

LEMMA RestartClear ==
  ASSUME IntfInv, NetOK, ClearInv, [Next]_vars, Restart
  PROVE  ClearInv'
<1>1. UNCHANGED cl /\ UNCHANGED clearedAt /\ UNCHANGED report /\ UNCHANGED rxq /\ cmd' = NoCmd
  BY DEF Restart, restVars
<1>2. NothingBeforeClear' /\ NoneBefore(clearedAt')
  BY <1>1 DEF ClearInv, NothingBeforeClear
<1>3. cl.pc = "wait" => cmd'.req.seq # cl.seq
  BY <1>1, NoCmdTyped DEF NetOK, NetInv
<1> QED BY <1>1, <1>2, <1>3, ClearKeeps DEF ClearInv

LEMMA ReceiveClear ==
  ASSUME IntfInv, NetOK, ClearInv, [Next]_vars, Receive
  PROVE  ClearInv'
<1>1. UNCHANGED <<clearedAt, report, glob, old, hits, cmd>>
  BY DEF Receive, aclVars
<1>2. NothingBeforeClear' /\ NoneBefore(clearedAt')
  BY <1>1 DEF ClearInv, NothingBeforeClear
<1>3. /\ cl.pc = "wait" /\ cl'.at = cl.at /\ cl'.seq = cl.seq /\ cl'.cmd = cl.cmd
      /\ \A p \in Ports : \A k \in 1 .. Len(rxq'[p]) :
           \E j \in 1 .. Len(rxq[p]) : rxq'[p][k] = rxq[p][j]
      /\ cl'.got # 0 => \/ cl.got # 0
                        \/ \E p \in Ports : \E k \in 1 .. Len(rxq[p]) : rxq[p][k].seq = cl.seq
  BY ReceiveNet
<1>4. cl.cmd = "acl_clear" =>
        \A p \in Ports : \A k \in 1 .. Len(rxq[p]) : rxq[p][k].seq = cl.seq => NoneBefore(cl.at)
  BY <1>3 DEF ClearInv
<1>5. cl'.got # 0 /\ cl'.cmd = "acl_clear" => NoneBefore(cl.at)
  BY <1>3, <1>4 DEF ClearInv
<1>6. cl.cmd = "acl_clear" =>
        \A p \in Ports : \A k \in 1 .. Len(rxq'[p]) : rxq'[p][k].seq = cl.seq => NoneBefore(cl.at)
  BY <1>3, <1>4
<1>7. cl.cmd = "acl_clear" /\ cmd.req.seq = cl.seq => ClearUnderWay'
  BY <1>1, <1>3, UnderWaySame DEF ClearInv
<1> QED BY <1>1, <1>2, <1>3, <1>5, <1>6, <1>7, ClearKeeps

\* AsCInt reads no more than there is.
LEMMA CIntBelow ==
  ASSUME NEW n \in Nat
  PROVE  AsCInt(n) <= n /\ AsCInt(n) \in Int
<1>1. n % HitMod \in 0 .. HitMod - 1 /\ n % HitMod <= n
  BY CliSizes
<1> DEFINE m == n % HitMod
<1>2. AsCInt(n) = m \/ AsCInt(n) = m - HitMod
  BY DEF AsCInt
<1> HIDE DEF m
<1>3. m \in Int /\ m <= n /\ HitMod \in Nat
  BY <1>1, CliSizes DEF m
<1> QED BY <1>2, <1>3

LEMMA AfterClear ==
  ASSUME IntfInv, NetOK, ClearInv, [Next]_vars, AfterGet \/ AfterPatch \/ AfterOther
  PROVE  ClearInv'
<1>1. /\ cl' = [cl EXCEPT !.pc = "idle", !.cmd = "none", !.got = 0] /\ cl \in CallType
  BY DEF AfterGet, AfterPatch, AfterOther, NetOK, CliTypeOK
<1>2. cl'.pc = "idle" /\ cl'.at = cl.at /\ cl'.got = 0
  BY <1>1 DEF CallType
<1>3. NoneBefore(clearedAt')
  <2>1. clearedAt' = clearedAt
        \/ (clearedAt' = cl.at /\ cl.got # 0 /\ cl.cmd = "acl_clear")
    BY DEF AfterGet, AfterPatch, AfterOther
  <2> QED BY <2>1 DEF ClearInv
<1>4. NothingBeforeClear'
  <2>1. CASE report' = report
    BY <2>1 DEF ClearInv, NothingBeforeClear
  <2>2. CASE AfterGet
    <3>1. report' = [val |-> AsCInt(hit), bound |-> hits - clearedAt]
      BY <2>2 DEF AfterGet
    <3>2. hit \in Nat /\ hits \in Nat /\ clearedAt \in Nat /\ Stored \in Nat /\ PendingSum \in Nat
      BY HitsTyped DEF NetOK, CliTypeOK
    <3>3. Stored + PendingSum <= hits - clearedAt /\ (cmd.pc = "store" => hit <= hits - clearedAt)
          /\ (cmd.pc # "store" => Stored = hit)
      BY DEF ClearInv, NoneBefore, Stored
    <3>4. hit <= hits - clearedAt
      BY <3>2, <3>3
    <3>5. AsCInt(hit) <= hits - clearedAt
      <4>1. AsCInt(hit) <= hit /\ AsCInt(hit) \in Int
        BY <3>2, CIntBelow
      <4> QED BY <3>2, <3>4, <4>1
    <3> QED BY <3>1, <3>5 DEF NothingBeforeClear
  <2> QED BY <2>1, <2>2 DEF AfterPatch, AfterOther
<1> QED BY <1>2, <1>3, <1>4, ClearKeeps

\* A call that starts has a number that nothing under way carries.
LEMMA SendClear ==
  ASSUME IntfInv, NetOK, ClearInv, [Next]_vars,
         NEW c \in RestCmds, NEW p \in Ports, NEW lost \in BOOLEAN, Send(c, p, lost)
  PROVE  ClearInv'
<1>1. cl' = [cl EXCEPT !.pc = "wait", !.cmd = c, !.id = @ + 1, !.seq = @ + 1,
                       !.port = p, !.tries = RetryTime, !.got = 0, !.at = hits] /\ cl \in CallType
  BY DEF Send, NetOK, CliTypeOK
<1>2. cl'.seq = cl.seq + 1 /\ cl'.got = 0 /\ cl'.at = hits
  BY <1>1 DEF CallType
<1>3. UNCHANGED <<aclVars, rxq, cmd, clearedAt, report>>
  BY DEF Send
<1>4. cl.seq \in Nat /\ hits \in Nat /\ hits' = hits /\ clearedAt \in Int
  BY <1>3 DEF NetOK, CliTypeOK, CallType, aclVars
<1>5. \A q \in Ports : \A k \in 1 .. Len(rxq[q]) : rxq[q][k].seq # cl.seq + 1
  <2> SUFFICES ASSUME NEW q \in Ports, NEW k \in 1 .. Len(rxq[q]) PROVE rxq[q][k].seq # cl.seq + 1
    OBVIOUS
  <2>1. rxq[q][k].seq <= cl.seq
    BY DEF NetOK, NetInv
  <2>2. rxq[q] \in Seq([id : Nat, seq : Nat])
    BY DEF NetOK, CliTypeOK
  <2>3. rxq[q][k].seq \in Nat
    <3>1. rxq[q][k] \in [id : Nat, seq : Nat]
      BY <2>2, SeqElement
    <3> QED BY <3>1
  <2> QED BY <1>4, <2>1, <2>3
<1>6. cmd.req.seq # cl.seq + 1
  <2>1. cmd.req.seq \in Nat /\ cmd.req.seq <= cl.seq
    BY HitsTyped DEF CmdType, ReqType, NetOK, NetInv, Mine
  <2> QED BY <1>4, <2>1
<1>7. NothingBeforeClear'
  BY <1>3 DEF ClearInv, NothingBeforeClear
<1>8. NoneBefore(clearedAt)'
  <2>1. NoneBeforeNext(clearedAt)
    BY <1>4, NoneStays DEF ClearInv
  <2> QED BY <1>3, <2>1 DEF NoneBeforeNext, NoneBefore
<1>9. (cl.at <= hits)'
  BY <1>2, <1>4
<1> QED BY <1>2, <1>3, <1>5, <1>6, <1>7, <1>8, <1>9 DEF ClearInv

LEMMA ClearNext ==
  ASSUME IntfInv, NetOK, ClearInv, [Next]_vars
  PROVE  ClearInv'
<1>1. CASE PortStep \/ Period \/ CalcStep \/ Packet
  <2>1. UNCHANGED <<aclVars, netVars, cmd, restVars>>
    BY <1>1, IntfStepsApart
  <2> QED BY <2>1, ClearSame DEF aclVars, netVars
<1>2. CASE Restart
  BY <1>2, RestartClear
<1>3. CASE \E w \in Workers : Hit(w)
  BY <1>3, HitClear
<1>4. CASE Poll \/ UNCHANGED vars
  BY <1>4, ClearSame DEF Poll, vars, aclVars, netVars
<1>5. CASE Serve \/ \E c \in ConsoleCmds : Console(c)
  BY <1>5, BeginClear
<1>6. CASE CmdStep
  BY <1>6, CmdStepClear
<1>7. CASE \E c \in RestCmds : QuickFail(c)
  <2>1. PICK c \in RestCmds : QuickFail(c)
    BY <1>7
  <2>2. cl' = [cl EXCEPT !.pc = "after", !.cmd = c, !.got = 0] /\ cl \in CallType
        /\ UNCHANGED <<clearedAt, report>>
    BY <2>1 DEF QuickFail, NetOK, CliTypeOK
  <2>3. cl'.at = cl.at /\ cl'.pc = "after" /\ cl'.got = 0
    BY <2>2 DEF CallType
  <2> QED BY <2>2, <2>3, ClearEnds
<1>8. CASE \E c \in RestCmds, p \in Ports, lost \in BOOLEAN : Send(c, p, lost)
  BY <1>8, SendClear
<1>9. CASE Receive
  BY <1>9, ReceiveClear
<1>10. CASE TimeOut
  <2>1. cl' = [cl EXCEPT !.pc = "after", !.failed = TRUE, !.port = 0] /\ cl \in CallType
        /\ UNCHANGED <<clearedAt, report>>
    BY <1>10 DEF TimeOut, NetOK, CliTypeOK
  <2>2. cl'.at = cl.at /\ cl'.pc = "after" /\ cl'.got = cl.got /\ cl'.cmd = cl.cmd
    BY <2>1 DEF CallType
  <2> QED BY <2>1, <2>2, ClearEnds
<1>11. CASE AfterGet \/ AfterPatch \/ AfterOther
  BY <1>11, AfterClear
<1>12. CASE (\E names \in SUBSET Intfs : PatchIntf(names)) \/ PatchNext
  <2>1. /\ cl'.at = cl.at /\ cl'.pc # "wait" /\ cl'.got = cl.got /\ cl'.cmd = cl.cmd
        /\ UNCHANGED <<clearedAt, report>>
    <3>1. cl \in CallType
      BY DEF NetOK, CliTypeOK
    <3>2. CASE \E names \in SUBSET Intfs : PatchIntf(names)
      BY <3>1, <3>2 DEF PatchIntf, CallType
    <3>3. CASE PatchNext
      BY <3>1, <3>3 DEF PatchNext, CallType
    <3> QED BY <1>12, <3>2, <3>3
  <2> QED BY <2>1, ClearEnds
<1> QED BY <1>1, <1>2, <1>3, <1>4, <1>5, <1>6, <1>7, <1>8, <1>9, <1>10, <1>11, <1>12 DEF Next

LEMMA ClearInit ==
  ASSUME Init
  PROVE  ClearInv
<1>1. hits = 0 /\ clearedAt = 0 /\ hit = 0 /\ report = [val |-> 0, bound |-> 0]
      /\ cl = [pc |-> "idle", cmd |-> "none", id |-> 0, seq |-> 0, port |-> 0,
               tries |-> 0, failed |-> FALSE, got |-> 0, at |-> 0, todo |-> {}]
  BY DEF Init
<1>2. cl.at = 0 /\ cl.got = 0 /\ cl.pc = "idle"
  BY <1>1
<1>3. PendingSum = 0 /\ Stored = 0 /\ cmd.pc = "none"
  BY PendingInit
<1>4. NoneBefore(clearedAt) /\ cl.at <= hits /\ NothingBeforeClear
  BY <1>1, <1>2, <1>3 DEF NoneBefore, NothingBeforeClear
<1> QED BY <1>2, <1>4 DEF ClearInv

\* What acl_clear answered, or is answering, holds at every step: nothing that is
\* stored or pending, or that AclStatHandler reported, was hit before the clear.
THEOREM ClearInvariance == Spec => []ClearInv
<1>1. Init => ClearInv
  BY ClearInit
<1>2. IntfInv /\ NetOK /\ ClearInv /\ [Next]_vars => ClearInv'
  BY ClearNext
<1> QED BY <1>1, <1>2, NetInvariance, PTL DEF Spec

\* AclStatHandler: whatever is lost, comes late or runs at the same time, and
\* even if a worker's counter wraps, restd never reports more hits than were
\* made since the last clear that VPP answered was sent.
THEOREM NeverReportsMore == Spec => []NothingBeforeClear
<1>1. ClearInv => NothingBeforeClear
  BY DEF ClearInv
<1> QED BY <1>1, ClearInvariance, PTL

\* As long as no worker counts 2^32 hits between two collections, no hit is
\* lost or counted twice but those between the two reads of a worker's
\* counter, and what is reported was made since the last clear.
THEOREM HitsAlwaysSound == Spec /\ []NoWrap => []HitsSound
<1>1. Init => HitsInv
  <2> SUFFICES ASSUME Init PROVE HitsInv
    OBVIOUS
  <2>1. PendingSum = 0 /\ Stored = 0 /\ StoredOff = 0 /\ missed = 0 /\ hits = 0
    BY PendingInit DEF Init
  <2> QED BY <2>1 DEF HitsInv
<1>2. IntfInv /\ NetOK /\ NoWrap /\ HitsInv /\ [Next]_vars => HitsInv'
  BY HitsNext
<1>3. IntfInv /\ NetOK /\ HitsInv /\ ClearInv => HitsSound
  <2> SUFFICES ASSUME IntfInv, NetOK, HitsInv, ClearInv PROVE HitsSound
    OBVIOUS
  <2>1. TypeOK /\ NothingBeforeClear
    BY DEF IntfInv, NetOK, TypeOK, ClearInv
  <2>2. HitsAccountedFor
    <3> SUFFICES ASSUME main # "cmd" PROVE hit + aoff + missed + AllGained = hits
      BY DEF HitsAccountedFor
    <3>1. cmd.pc = "none"
      BY DEF NetOK, CliTypeOK
    <3>2. AllGained = PendingSum /\ Stored = hit /\ StoredOff = aoff
      BY <3>1, AllGainedPending DEF Stored, StoredOff
    <3> QED BY <3>2 DEF HitsInv
  <2> QED BY <2>1, <2>2 DEF HitsSound
<1> QED BY <1>1, <1>2, <1>3, NetInvariance, ClearInvariance, PTL DEF Spec
=============================================================================
