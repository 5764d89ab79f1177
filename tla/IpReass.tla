------------------------------- MODULE IpReass -------------------------------
(***************************************************************************)
(* Reassembly of IP fragments: a hash table of datagrams under per-bucket  *)
(* spinlocks, with a timeout for each of them on the timer wheel of the    *)
(* worker that saw its first fragment.                                     *)
(*                                                                         *)
(* ip4_frag_proc runs between hashLock and hashUnlock and is one step.     *)
(* The timeout handler is two: it reads hash_index from its timer_info     *)
(* before it has the lock.  Time is abstracted to what SfTimer promises:   *)
(* a timer can be taken out of its slot while it is early; afterwards its  *)
(* timer_info can only be zeroed for the handler to find.                  *)
(***************************************************************************)
EXTENDS Integers, FiniteSets, Sequences, Functions

CONSTANTS
  NumWorkers,
  Pkt,                  \* the fragments (buffers) that may arrive, each once
  PktKey,               \* addresses, id and layer of a fragment
  PktOff, PktSize,      \* fragment offset in bytes and payload length
  UINT16,               \* 2^16: offsets, lengths and their sums are uint16_t
  PktDeep,              \* fragments of a layer that may not be reassembled
  PktLast,              \* TRUE: the "more fragments" bit is clear
  BucketOf,             \* bucket of a key (hash & (hashsize - 1))
  WorkerOf,             \* worker that sf_pkt_handoff chooses for a key
  Handoff,              \* FALSE: any worker may receive any fragment
  Node,                 \* hash nodes in hash_ip_reass_pool
  Info,                 \* timer_infos in the pool
  NULL,
  MAX_CACHE_PKTS,       \* IP_REASS_MAX_CACHE_PKTS
  MAX_DATA_SIZE         \* SF_HUGE_PKT_MAX_DATA_SIZE, less the bytes before IP

Workers == 0 .. NumWorkers - 1
Keys    == {PktKey[p] : p \in Pkt}
Buckets == {0} \cup {BucketOf[k] : k \in Keys}

\* The contents of a timer_info, and of a live hash node
InfoType == [pnode : Node \cup {NULL}, hash_index : Buckets]
NodeType ==
  [key : Keys, frags : Seq(Pkt), cache_pkt_num : 0 .. MAX_CACHE_PKTS - 1,
   total_len : 0 .. UINT16 - 1, meet_len : 0 .. UINT16 - 1, timer_info : Info]

ASSUME IpReassAssumption ==
  /\ NumWorkers \in Nat \ {0}
  /\ UINT16 \in Nat \ {0}
  /\ \A p \in Pkt : PktOff[p] \in 0 .. UINT16 - 1 /\ PktSize[p] \in 0 .. UINT16 - 1
  /\ \A p \in Pkt : PktLast[p] \in BOOLEAN
  /\ \A k \in Keys : BucketOf[k] \in Nat /\ WorkerOf[k] \in Workers
  /\ PktDeep \subseteq Pkt
  /\ Handoff \in BOOLEAN
  /\ NULL \notin Node \cup Info \cup Pkt \cup NodeType
  /\ MAX_CACHE_PKTS \in Nat \ {0}
  /\ MAX_DATA_SIZE \in Nat

VARIABLES
  node,        \* the hash nodes: contents, or NULL when in the pool
  lock,        \* bucket spinlocks: held or not
  info,        \* contents of the timer_infos that are in use: pnode, hash_index
  timer,       \* where each timer_info is
  wheel,       \* worker on whose wheel it is
  pc, cur,     \* a worker: idle, about to lock for packet or timer cur
  hidx,        \* the hash_index the timeout handler read before locking
  out,         \* what became of each packet
  built,       \* lengths of the datagrams put together so far
  asm          \* a worker's datagrams between reassembly and ip_reass_forward

vars == <<node, lock, info, timer, wheel, pc, cur, hidx, out, built, asm>>

\* A zeroed timer_info; also stands for what nobody looks at, in one that is
\* free or lost
Zero == [pnode |-> NULL, hash_index |-> 0]

\* "early": in its slot, before safe_clib_time; "late": still in its slot;
\* "queued": given to the handler; "lost": nobody has a pointer to it
TimerStates == {"free", "early", "late", "queued", "lost"}

\* "unseen", "taken" by a worker, "cached" in a node, and then sent on "alone"
\* or below the "whole", with which it is "forwarded"
Fates == {"unseen", "taken", "cached", "alone", "whole", "forwarded"}

Init ==
  /\ node = [n \in Node |-> NULL]
  /\ lock = [b \in Buckets |-> FALSE]
  /\ info = [t \in Info |-> Zero]
  /\ timer = [t \in Info |-> "free"]
  /\ wheel = [t \in Info |-> 0]
  /\ pc = [w \in Workers |-> "idle"]
  /\ cur = [w \in Workers |-> NULL]
  /\ hidx = [w \in Workers |-> 0]
  /\ out = [p \in Pkt |-> "unseen"]
  /\ built = {}
  /\ asm = [w \in Workers |-> <<>>]

-----------------------------------------------------------------------------
(* A fragment                                                              *)

Arrive(w, p) ==
  /\ pc[w] = "idle"
  /\ out[p] = "unseen"
  /\ Handoff => w = WorkerOf[PktKey[p]]
  /\ pc' = [pc EXCEPT ![w] = "frag"]
  /\ cur' = [cur EXCEPT ![w] = p]
  /\ out' = [out EXCEPT ![p] = "taken"]
  /\ UNCHANGED <<node, lock, info, timer, wheel, hidx, built, asm>>

\* The worker has the bucket's lock and handles fragment p in one step.
InLock(w) ==
  /\ pc[w] = "frag"
  /\ ~lock[BucketOf[PktKey[cur[w]]]]
  /\ pc' = [pc EXCEPT ![w] = "idle"]
  /\ cur' = [cur EXCEPT ![w] = NULL]
  /\ UNCHANGED <<lock, hidx>>

\* hashFindNode_memcmp
Found(p) == {n \in Node : node[n] # NULL /\ node[n].key = PktKey[p]}

\* The buckets' chains are abstracted to the set of live nodes.
HashInsertNode(n, data) == node' = [node EXCEPT ![n] = data]
HashFreeNode(n) == node' = [node EXCEPT ![n] = NULL]

\* Mutant: a fragment that is cached already is cached again.
Duplicate_Ignored(n, p) == FALSE
Duplicate(n, p) == \E q \in Range(node[n].frags) : PktOff[q] = PktOff[p]

\* The node's counters once p is appended.  The two lengths are sums that are
\* kept in 16 bits.
CacheNum(n)  == node[n].cache_pkt_num + 1
TotalLen(n, p) ==
  IF PktLast[p] THEN (PktOff[p] + PktSize[p]) % UINT16 ELSE node[n].total_len
MeetLen(n, p) == (node[n].meet_len + PktSize[p]) % UINT16

Appended(n, p) ==
  [node[n] EXCEPT !.frags = Append(@, p), !.cache_pkt_num = CacheNum(n),
                  !.total_len = TotalLen(n, p), !.meet_len = MeetLen(n, p)]

TooMany(n) == CacheNum(n) >= MAX_CACHE_PKTS
TooLarge(n, p) == PktLast[p] /\ TotalLen(n, p) > MAX_DATA_SIZE

\* What goes on unassembled when p makes the datagram fail.
\* Mutant: the fragment just received is forgotten.
GivenUp_Cached(n, p) == node[n].frags
GivenUp(n, p) == Append(node[n].frags, p)

\* The buffers of a list go on to the same place.
Emit(list, fate) ==
  out' = [q \in Pkt |-> IF q \in Range(list) THEN fate ELSE out[q]]

\* Mutant: a busy timer is left alone.
StopLate_Nothing(t) == UNCHANGED <<info, timer>>
\* sf_stop_timer_void_tw after safe_clib_time
StopLate(t) ==
  /\ info' = [info EXCEPT ![t] = Zero]
  /\ UNCHANGED timer

\* ip_reass_delete_timer, then hashFreeNode and free_ip_reass_hash_node
DropNode(n) ==
  LET t == node[n].timer_info
  IN /\ IF timer[t] = "early"
        THEN /\ timer' = [timer EXCEPT ![t] = "free"]
             /\ info' = [info EXCEPT ![t] = Zero]
             /\ wheel' = [wheel EXCEPT ![t] = 0]
        ELSE StopLate(t) /\ UNCHANGED wheel
     /\ HashFreeNode(n)

\* ip_reass_layers of the interface, which may be configured at any time, is
\* below the layer of this packet: it goes on before any lock is taken.
FragLayer(w) ==
  /\ pc[w] = "frag"
  /\ cur[w] \in PktDeep
  /\ Emit(<<cur[w]>>, "alone")
  /\ pc' = [pc EXCEPT ![w] = "idle"]
  /\ cur' = [cur EXCEPT ![w] = NULL]
  /\ UNCHANGED <<node, lock, info, timer, wheel, hidx, built, asm>>

FragDuplicate(w) ==
  /\ InLock(w)
  /\ \E n \in Found(cur[w]) : Duplicate(n, cur[w])
  /\ Emit(<<cur[w]>>, "alone")
  /\ UNCHANGED <<node, info, timer, wheel, built, asm>>

\* Too many or too large: all that is cached goes on unassembled.
FragGiveUp(w) ==
  /\ InLock(w)
  /\ \E n \in Found(cur[w]) :
       /\ ~Duplicate(n, cur[w])
       /\ TooMany(n) \/ TooLarge(n, cur[w])
       /\ Emit(GivenUp(n, cur[w]), "alone")
       /\ DropNode(n)
  /\ UNCHANGED <<built, asm>>

\* The lengths meet: ip4_frag_build_pkt makes one packet of the fragments,
\* or, without a buffer for it, they go on unassembled.
FragComplete(w) ==
  /\ InLock(w)
  /\ \E n \in Found(cur[w]) :
       LET p == cur[w]
       IN /\ ~Duplicate(n, p)
          /\ ~TooMany(n) /\ ~TooLarge(n, p)
          /\ MeetLen(n, p) = TotalLen(n, p)
          /\ \/ /\ Emit(Append(node[n].frags, p), "whole")
                /\ built' = built \cup {TotalLen(n, p)}
                /\ asm' = [asm EXCEPT ![w] = Append(@, Append(node[n].frags, p))]
             \/ /\ Emit(GivenUp(n, p), "alone")
                /\ UNCHANGED <<built, asm>>
          /\ DropNode(n)

FragAppend(w) ==
  /\ InLock(w)
  /\ \E n \in Found(cur[w]) :
       LET p == cur[w]
       IN /\ ~Duplicate(n, p)
          /\ ~TooMany(n) /\ ~TooLarge(n, p)
          /\ MeetLen(n, p) # TotalLen(n, p)
          /\ node' = [node EXCEPT ![n] = Appended(n, p)]
          /\ Emit(<<p>>, "cached")
  /\ UNCHANGED <<info, timer, wheel, built, asm>>

\* alloc_node_from_pool: the nodes of a pool are alike, so that it does not
\* matter which of the free ones is handed out.
FromPool(free) == IF free = {} THEN {} ELSE {CHOOSE x \in free : TRUE}

\* What a new node holds
FirstNode(p, t) ==
  [key |-> PktKey[p], frags |-> <<p>>, cache_pkt_num |-> 0,
   total_len |-> IF PktLast[p] THEN (PktOff[p] + PktSize[p]) % UINT16 ELSE 0,
   meet_len |-> PktSize[p], timer_info |-> t]

\* The first fragment: a node, and a timer on this worker's wheel
FragFirst(w, n, t) ==
  LET p == cur[w]
  IN /\ InLock(w)
     /\ Found(p) = {}
     /\ n \in FromPool({m \in Node : node[m] = NULL})
     /\ t \in FromPool({s \in Info : timer[s] = "free"})
     /\ HashInsertNode(n, FirstNode(p, t))
     /\ info' = [info EXCEPT ![t] = [pnode |-> n,
                                     hash_index |-> BucketOf[PktKey[p]]]]
     /\ timer' = [timer EXCEPT ![t] = "early"]
     /\ wheel' = [wheel EXCEPT ![t] = w]
     /\ Emit(<<p>>, "cached")
     /\ UNCHANGED <<built, asm>>

\* No node or no timer for it: the fragment goes on alone.
FragFirstFail(w) ==
  /\ InLock(w)
  /\ Found(cur[w]) = {}
  /\ \/ \A n \in Node : node[n] # NULL
     \/ \A t \in Info : timer[t] # "free"
  /\ Emit(<<cur[w]>>, "alone")
  /\ UNCHANGED <<node, info, timer, wheel, built, asm>>

-----------------------------------------------------------------------------
(* The timeout                                                             *)

\* safe_clib_time passes
TimerLate(t) ==
  /\ timer[t] = "early"
  /\ timer' = [timer EXCEPT ![t] = "late"]
  /\ UNCHANGED <<node, lock, info, wheel, pc, cur, hidx, out, built, asm>>

\* Mutant: only the first worker's wheel is polled.
Polling_First == {0}
\* The workers on which sf_timer_input is set to polling
Polling == Workers

\* sf_timer_input passes the timer_info on to the handler of its group.
TimerFire(t) ==
  /\ timer[t] = "late"
  /\ wheel[t] \in Polling
  /\ pc[wheel[t]] = "idle"
  /\ timer' = [timer EXCEPT ![t] = "queued"]
  /\ UNCHANGED <<node, lock, info, wheel, pc, cur, hidx, out, built, asm>>

\* The handler picks up a timer_info and reads which bucket to lock.
HandlerRead(w, t) ==
  /\ pc[w] = "idle"
  /\ timer[t] = "queued" /\ wheel[t] = w
  /\ pc' = [pc EXCEPT ![w] = "timeout"]
  /\ cur' = [cur EXCEPT ![w] = t]
  /\ hidx' = [hidx EXCEPT ![w] = info[t].hash_index]
  /\ UNCHANGED <<node, lock, info, timer, wheel, out, built, asm>>

\* hashLock with the index read before, hashUnlock with the index found now
LockAfter(w) == [[lock EXCEPT ![hidx[w]] = TRUE]
                         EXCEPT ![info[cur[w]].hash_index] = FALSE]

LockPass(w) ==
  /\ pc[w] = "timeout"
  /\ ~lock[hidx[w]]
  /\ lock' = LockAfter(w)
  /\ pc' = [pc EXCEPT ![w] = "idle"]
  /\ cur' = [cur EXCEPT ![w] = NULL]
  /\ wheel' = [wheel EXCEPT ![cur[w]] = 0]
  /\ hidx' = [hidx EXCEPT ![w] = 0]
  /\ UNCHANGED <<built, asm>>

\* Stopped while it was busy: only the timer_info is left to free.
HandlerStopped(w) ==
  /\ LockPass(w)
  /\ info[cur[w]].pnode = NULL
  /\ timer' = [timer EXCEPT ![cur[w]] = "free"]
  /\ UNCHANGED <<node, info, out>>

\* split_frag_buffer_on_fail follows the chain of fragments.
TimedOut(n) == node[n].frags

\* Timed out: the fragments go on alone and the node is freed.  Nobody frees
\* the timer_info.
HandlerTimeout(w) ==
  LET n == info[cur[w]].pnode
  IN /\ LockPass(w)
     /\ n # NULL
     /\ Emit(TimedOut(n), "alone")
     /\ HashFreeNode(n)
     /\ timer' = [timer EXCEPT ![cur[w]] = "lost"]
     /\ info' = [info EXCEPT ![cur[w]] = Zero]

-----------------------------------------------------------------------------
(* The reassembled packet, a copy with the fragments as its children, has  *)
(* been decoded and classified.                                            *)

\* The number of buffers below it, summed up when it was built
followed_nodes_cnt(list) == Len(list)

\* The array in which the tree comes to lie, without its root: a fragment has
\* no children, so that its brother lies next to it.
split_frag_buffer(list) == SubSeq(list, 1, followed_nodes_cnt(list))

\* The fragments follow the action of the rule that the whole datagram hit, or
\* are dropped together if there is none.
Forward(w) ==
  /\ asm[w] # <<>>
  /\ Emit(split_frag_buffer(Head(asm[w])), "forwarded")
  /\ asm' = [asm EXCEPT ![w] = Tail(@)]
  /\ UNCHANGED <<node, lock, info, timer, wheel, pc, cur, hidx, built>>

-----------------------------------------------------------------------------
WorkerStep(w) ==
  \/ FragLayer(w)
  \/ FragDuplicate(w)
  \/ FragGiveUp(w)
  \/ FragComplete(w)
  \/ FragAppend(w)
  \/ \E n \in Node, t \in Info : FragFirst(w, n, t)
  \/ FragFirstFail(w)
  \/ \E t \in Info : HandlerRead(w, t)
  \/ HandlerStopped(w)
  \/ HandlerTimeout(w)
  \/ Forward(w)

Next ==
  \/ \E w \in Workers, p \in Pkt : Arrive(w, p)
  \/ \E w \in Workers : WorkerStep(w)
  \/ \E t \in Info : TimerLate(t) \/ TimerFire(t)

Spec == Init /\ [][Next]_vars

\* Time passes and every worker keeps polling.
FairSpec ==
  /\ Spec
  /\ \A w \in Workers : WF_vars(WorkerStep(w))
  /\ \A t \in Info : WF_vars(TimerLate(t)) /\ SF_vars(TimerFire(t))

-----------------------------------------------------------------------------
(* Properties                                                              *)

\* Type invariant: every variable keeps the range the C declarations give it.
TypeOK ==
  /\ node \in [Node -> NodeType \cup {NULL}]
  /\ lock \in [Buckets -> BOOLEAN]
  /\ info \in [Info -> InfoType]
  /\ timer \in [Info -> TimerStates]
  /\ wheel \in [Info -> Workers]
  /\ pc \in [Workers -> {"idle", "frag", "timeout"}]
  /\ cur \in [Workers -> Pkt \cup Info \cup {NULL}]
  /\ hidx \in [Workers -> Buckets]
  /\ out \in [Pkt -> Fates]
  /\ built \subseteq Nat
  /\ asm \in [Workers -> Seq(Seq(Pkt))]

\* No buffer is lost, sent twice or still cached after it was sent, on any of
\* the ways out: a worker has the fragment, or it is in exactly one live node,
\* or below a packet that was put together; a live node lists only cached
\* fragments of its own datagram, and lists them once.
BuffersConserved ==
  /\ \A p \in Pkt : out[p] = "taken" =>
       \E w \in Workers : pc[w] = "frag" /\ cur[w] = p
  /\ \A p \in Pkt : out[p] = "cached" =>
       Cardinality({n \in Node : node[n] # NULL /\ p \in Range(node[n].frags)}) = 1
  /\ \A n \in Node : node[n] # NULL =>
       /\ IsInjective(node[n].frags)
       /\ \A p \in Range(node[n].frags) :
            out[p] = "cached" /\ PktKey[p] = node[n].key
  /\ \A p \in Pkt : out[p] = "whole" =>
       \E w \in Workers : \E list \in Range(asm[w]) : p \in Range(list)
  /\ \A w \in Workers : \A list \in Range(asm[w]) :
       IsInjective(list) /\ \A p \in Range(list) : out[p] = "whole"

\* A datagram is put together only from fragments that cover it without a gap,
\* provided that those offered for it are as some sender cut them: they are not
\* empty, end within the 16 bits of the length of a datagram, do not overlap,
\* and none lies behind the last.  Without the bound on where they end the code
\* does not keep to it: meet_len and total_len wrap, and may meet when bytes
\* are missing.
AsSent(k) ==
  /\ \A p \in Pkt : PktKey[p] = k =>
       PktSize[p] > 0 /\ PktOff[p] + PktSize[p] < UINT16
  /\ \A p, q \in Pkt :
       PktKey[p] = k /\ PktKey[q] = k /\ PktOff[p] < PktOff[q]
         => ~PktLast[p] /\ PktOff[p] + PktSize[p] <= PktOff[q]
InWhole == {"whole", "forwarded"}
WholeMeansComplete ==
  \A p \in Pkt : out[p] \in InWhole /\ AsSent(PktKey[p]) =>
    LET parts == {q \in Pkt : PktKey[q] = PktKey[p] /\ out[q] \in InWhole}
    IN /\ \E q \in parts : PktOff[q] = 0
       /\ \A q \in parts :
            PktLast[q] \/ \E r \in parts : PktOff[r] = PktOff[q] + PktSize[q]

\* Every datagram that waits has a timer that will find it, and a timer that
\* can still fire points to a live node and its bucket, or to nothing.
TimerFindsNode ==
  /\ \A n \in Node : node[n] # NULL =>
       LET t == node[n].timer_info
       IN /\ timer[t] \in {"early", "late", "queued"}
          /\ info[t] = [pnode |-> n, hash_index |-> BucketOf[node[n].key]]
  /\ \A t \in Info : timer[t] \in {"early", "late", "queued"} =>
       \/ info[t] = Zero
       \/ node[info[t].pnode] # NULL /\ node[info[t].pnode].timer_info = t

\* Every bucket lock is released by the worker that took it: between steps
\* no lock is held ("judge if the timer is busy first" before stopping it).
LocksReleased == \A b \in Buckets : ~lock[b]

\* A timer_info whose timer has expired goes back to the pool.  The code does
\* not keep to it: HandlerTimeout loses one.
InfosReturned == \A t \in Info : timer[t] # "lost"

\* A datagram longer than a huge packet buffer is not put together ("total len
\* too long").  The code does not keep to it when the last fragment is the first
\* to arrive.
BuiltFits == \A len \in built : len <= MAX_DATA_SIZE

Waiting == {p \in Pkt : out[p] \in {"cached", "whole"}}

\* Fragments do not wait for ever, although others of their datagram are lost:
\* once no more arrive, all that are cached complete, are given up or time out,
\* and the complete ones reach the actions or the drop node.
CachedIsSent == Waiting # {} ~> Waiting = {}

\* Every fragment is in one place and every datagram within its limits, whichever
\* of the ways out of ip4_frag_proc and of the timeout it takes.
FragmentsAccounted == TypeOK /\ BuffersConserved

\* A timeout that races the last fragment finds a live datagram or nothing, and
\* leaves no bucket locked.
TimeoutSafe == TimerFindsNode /\ LocksReleased

\* A buffer that was sent on is never touched again, by a fragment that comes
\* late or by a timeout.
SentOnce ==
  [][\A p \in Pkt : out[p] \in {"alone", "forwarded"} => out'[p] = out[p]]_vars

-----------------------------------------------------------------------------
(* The inductive invariant                                                 *)

Live == {n \in Node : node[n] # NULL}
Pending == {"early", "late", "queued"}

\* A worker that waits for a lock has a fragment nobody else has, or a timer of
\* its own wheel.
WorkerInv ==
  \A w \in Workers :
    /\ pc[w] = "frag" => cur[w] \in Pkt /\ out[cur[w]] = "taken"
    /\ pc[w] = "timeout" =>
         cur[w] \in Info /\ timer[cur[w]] = "queued" /\ wheel[cur[w]] = w
    /\ \A v \in Workers :
         pc[w] = "frag" /\ pc[v] = "frag" /\ cur[w] = cur[v] => w = v

\* A live node and its timer point to each other.
TimerInv ==
  /\ \A n \in Live :
       LET t == node[n].timer_info
       IN /\ timer[t] \in Pending
          /\ info[t] = [pnode |-> n, hash_index |-> BucketOf[node[n].key]]
  /\ \A t \in Info : timer[t] \in Pending =>
       \/ info[t] = Zero
       \/ info[t].pnode \in Live /\ node[info[t].pnode].timer_info = t

\* A datagram has one live node, which lists its cached fragments once.
NodeInv ==
  /\ \A m, n \in Live : node[m].key = node[n].key => m = n
  /\ \A n \in Live :
       /\ IsInjective(node[n].frags)
       /\ \A p \in Range(node[n].frags) :
            out[p] = "cached" /\ PktKey[p] = node[n].key
  /\ \A p \in Pkt : out[p] = "cached" =>
       \E n \in Live : p \in Range(node[n].frags)

\* A buffer below a packet that was put together is below one only.
AsmInv ==
  /\ \A p \in Pkt : out[p] = "whole" =>
       \E w \in Workers : \E i \in DOMAIN asm[w] : p \in Range(asm[w][i])
  /\ \A w \in Workers : \A i \in DOMAIN asm[w] :
       /\ IsInjective(asm[w][i])
       /\ \A p \in Range(asm[w][i]) :
            /\ out[p] = "whole"
            /\ \A v \in Workers : \A j \in DOMAIN asm[v] :
                 p \in Range(asm[v][j]) => v = w /\ j = i

TakenHeld ==
  \A p \in Pkt : out[p] = "taken" =>
    \E w \in Workers : pc[w] = "frag" /\ cur[w] = p

IInv == TypeOK /\ WorkerInv /\ TimerInv /\ NodeInv /\ AsmInv /\ TakenHeld

\* The bytes that a set of fragments covers
Covered(f) == UNION {PktOff[p] .. PktOff[p] + PktSize[p] - 1 : p \in f}

\* meet_len counts the bytes that are covered, if no sum wraps, and total_len is
\* where the last fragment ends, in 16 bits, if it is there.
CoverInv ==
  \A n \in Live :
    LET f == Range(node[n].frags)
    IN /\ \A p, q \in f : PktOff[p] = PktOff[q] => p = q
       /\ AsSent(node[n].key) =>
            /\ IsFiniteSet(Covered(f))
            /\ Cardinality(Covered(f)) = node[n].meet_len
       /\ \/ node[n].total_len = 0 /\ \A p \in f : ~PktLast[p]
          \/ \E p \in f : /\ PktLast[p]
                           /\ node[n].total_len = (PktOff[p] + PktSize[p]) % UINT16

\* With the handoff, what belongs to a datagram belongs to one worker, so that
\* nobody stops a timer while its handler waits for the lock.
OwnerInv ==
  /\ \A w \in Workers : pc[w] = "frag" => WorkerOf[PktKey[cur[w]]] = w
  /\ \A n \in Live : wheel[node[n].timer_info] = WorkerOf[node[n].key]
  /\ \A w \in Workers :
       pc[w] = "timeout" => hidx[w] = info[cur[w]].hash_index
  /\ LocksReleased
=============================================================================
