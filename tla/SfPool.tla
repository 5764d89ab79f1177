------------------------------- MODULE SfPool --------------------------------
(***************************************************************************)
(* sf_pool: fixed-size memory nodes shared by the packet workers.          *)
(*                                                                         *)
(* Each worker allocates from and frees to a private stack without a lock. *)
(* Nodes pushed above stack_max_len are also chained, through their own    *)
(* first word, into a local free list; when that list has fill_free_size   *)
(* nodes it is spliced onto the global free list under the spinlock.  An   *)
(* empty stack is refilled from the global list, or with new memory, under *)
(* the same lock.  A node may be freed by a worker that did not allocate   *)
(* it (timers and reassembled packets do).                                 *)
(***************************************************************************)
EXTENDS Integers, Sequences, FiniteSets

CONSTANTS
  NumWorkers,
  LocalCacheSize,   \* local_cache_size = stack_max_len
  FillFreeSize,     \* fill_free_size = free_list_max_len = increase_size
  InitPerWorker,    \* init_size_per_worker
  IncMax            \* pool_mem_inc_max

\* sf_pool_init stops with an error when fill_free_size > local_cache_size;
\* the pools of this program have init_size_per_worker >= local_cache_size.
ASSUME SfPoolAssumption ==
  /\ NumWorkers \in Nat \ {0}
  /\ FillFreeSize \in Nat \ {0}
  /\ LocalCacheSize \in Nat /\ FillFreeSize <= LocalCacheSize
  /\ InitPerWorker \in Nat /\ LocalCacheSize <= InitPerWorker
  /\ IncMax \in Nat

VARIABLES
  next,              \* first word of every node; a user's data overlays it
  freelist, free_cnt, total_cnt, pool_mem_inc_time, spin_lock,
  stack,             \* local_pool_stack[0 .. current_stack_len - 1]
  free_list_len, local_free_list, local_last_node,
  pc,                \* where the worker is inside alloc or free
  held               \* nodes the application has

globalVars == <<freelist, free_cnt, total_cnt, pool_mem_inc_time>>
localVars  == <<free_list_len, local_free_list, local_last_node>>
vars == <<next, globalVars, spin_lock, stack, localVars, pc, held>>

Workers  == 0 .. NumWorkers - 1
InitSize == InitPerWorker * NumWorkers
MaxNodes == InitSize + FillFreeSize * IncMax
Node     == 1 .. MaxNodes     \* addresses, in the order of allocation
NULL     == 0
Junk     == -1                \* whatever a user or fresh memory left there
NoOwner  == -1

\* sf_pool_init and sf_pool_init_local: node i + 1 is pushed on top of node i,
\* then each worker in turn takes LocalCacheSize nodes from the list.
Init ==
  /\ next = [n \in Node |-> IF n <= InitSize THEN n - 1 ELSE Junk]
  /\ freelist = InitSize - NumWorkers * LocalCacheSize
  /\ free_cnt = InitSize - NumWorkers * LocalCacheSize
  /\ total_cnt = InitSize
  /\ pool_mem_inc_time = 0
  /\ spin_lock = NoOwner
  /\ stack = [w \in Workers |->
                [i \in 1 .. LocalCacheSize |->
                   InitSize - w * LocalCacheSize - (i - 1)]]
  /\ free_list_len = [w \in Workers |-> 0]
  /\ local_free_list = [w \in Workers |-> NULL]
  /\ local_last_node = [w \in Workers |-> NULL]
  /\ pc = [w \in Workers |-> "run"]
  /\ held = {}

-----------------------------------------------------------------------------
(* alloc_node_from_pool                                                    *)

\* Mutant: the spinlock is not waited for.
SpinFree_Ignored == TRUE
SpinFree == spin_lock = NoOwner

\* The local list after a pop that leaves len nodes on the stack.
LastAfterPop(w, len) ==
  IF len = LocalCacheSize THEN NULL ELSE local_last_node[w]

Pop(w) ==
  LET len  == Len(stack[w]) - 1
      node == stack[w][len + 1]
  IN /\ pc[w] \in {"run", "pop"}
     /\ len >= 0
     /\ stack' = [stack EXCEPT ![w] = SubSeq(@, 1, len)]
     /\ IF len >= LocalCacheSize
        THEN /\ free_list_len' = [free_list_len EXCEPT ![w] = @ - 1]
             /\ local_free_list' =
                  [local_free_list EXCEPT ![w] =
                     IF len > LocalCacheSize THEN stack[w][len] ELSE NULL]
             /\ local_last_node' =
                  [local_last_node EXCEPT ![w] = LastAfterPop(w, len)]
        ELSE UNCHANGED localVars
     /\ held' = held \cup {node}
     /\ next' = [next EXCEPT ![node] = Junk]
     /\ pc' = [pc EXCEPT ![w] = "run"]
     /\ UNCHANGED <<globalVars, spin_lock>>

\* sf_pool_fill_cache: the branch is chosen by free_cnt under the lock.
FillLock(w) ==
  /\ pc[w] = "run"
  /\ stack[w] = <<>>
  /\ SpinFree
  /\ spin_lock' = w
  /\ pc' = [pc EXCEPT ![w] = IF free_cnt = 0 THEN "grow" ELSE "take"]
  /\ UNCHANGED <<next, globalVars, stack, localVars, held>>

MoreToTake(w) == freelist # NULL /\ Len(stack[w]) < FillFreeSize

FillTake(w) ==
  /\ pc[w] = "take"
  /\ MoreToTake(w)
  /\ stack' = [stack EXCEPT ![w] = Append(@, freelist)]
  /\ freelist' = next[freelist]
  /\ UNCHANGED <<next, free_cnt, total_cnt, pool_mem_inc_time, spin_lock,
                 localVars, pc, held>>

FillTaken(w) ==
  /\ pc[w] = "take"
  /\ ~MoreToTake(w)
  /\ free_cnt' = free_cnt - Len(stack[w])
  /\ spin_lock' = NoOwner
  /\ pc' = [pc EXCEPT ![w] = IF stack[w] = <<>> THEN "run" ELSE "pop"]
  /\ UNCHANGED <<next, freelist, total_cnt, pool_mem_inc_time, stack,
                 localVars, held>>

MayGrow == pool_mem_inc_time < IncMax

\* sf_pool_increase_nodes
FillGrow(w) ==
  /\ pc[w] = "grow"
  /\ MayGrow
  /\ stack' = [stack EXCEPT ![w] =
                 [i \in 1 .. FillFreeSize |-> total_cnt + i]]
  /\ total_cnt' = total_cnt + FillFreeSize
  /\ pool_mem_inc_time' = pool_mem_inc_time + 1
  /\ spin_lock' = NoOwner
  /\ pc' = [pc EXCEPT ![w] = "pop"]
  /\ UNCHANGED <<next, freelist, free_cnt, localVars, held>>

unlock_on_fail == spin_lock' = NoOwner

\* The limit is reached, or clib_mem_alloc fails: the caller gets NULL.
FillFail(w) ==
  /\ pc[w] = "grow"
  /\ unlock_on_fail
  /\ pc' = [pc EXCEPT ![w] = "run"]
  /\ UNCHANGED <<next, globalVars, stack, localVars, held>>

-----------------------------------------------------------------------------
(* free_node_to_pool                                                       *)

\* Mutant: the list is recycled one node late.
RecycleDue_Late(n) == n > FillFreeSize
RecycleDue(n) == n >= FillFreeSize

Free(w, n) ==
  /\ pc[w] = "run"
  /\ n \in held
  /\ held' = held \ {n}
  /\ stack' = [stack EXCEPT ![w] = Append(@, n)]
  /\ IF Len(stack[w]) + 1 > LocalCacheSize
     THEN /\ next' = [next EXCEPT ![n] = local_free_list[w]]
          /\ local_free_list' = [local_free_list EXCEPT ![w] = n]
          /\ free_list_len' = [free_list_len EXCEPT ![w] = @ + 1]
          /\ local_last_node' = [local_last_node EXCEPT ![w] =
                                   IF @ = NULL THEN n ELSE @]
          /\ pc' = [pc EXCEPT ![w] = IF RecycleDue(free_list_len[w] + 1)
                                     THEN "recycle" ELSE "run"]
     ELSE UNCHANGED <<next, localVars, pc>>
  /\ UNCHANGED <<globalVars, spin_lock>>

\* sf_pool_recycle_cache: under the lock the tail is tied to the global list,
RecycleLock(w) ==
  /\ pc[w] = "recycle"
  /\ SpinFree
  /\ spin_lock' = w
  /\ next' = [next EXCEPT ![local_last_node[w]] = freelist]
  /\ pc' = [pc EXCEPT ![w] = "splice"]
  /\ UNCHANGED <<globalVars, stack, localVars, held>>

\* Mutant: the list is counted as one node.
FreeCntAfterRecycle_One == free_cnt + 1
FreeCntAfterRecycle == free_cnt + FillFreeSize

\* then the head becomes the global head and the local list is forgotten.
RecycleSplice(w) ==
  /\ pc[w] = "splice"
  /\ freelist' = local_free_list[w]
  /\ free_cnt' = FreeCntAfterRecycle
  /\ spin_lock' = NoOwner
  /\ stack' = [stack EXCEPT ![w] = SubSeq(@, 1, Len(@) - FillFreeSize)]
  /\ local_free_list' = [local_free_list EXCEPT ![w] = NULL]
  /\ local_last_node' = [local_last_node EXCEPT ![w] = NULL]
  /\ free_list_len' = [free_list_len EXCEPT ![w] = 0]
  /\ pc' = [pc EXCEPT ![w] = "run"]
  /\ UNCHANGED <<next, total_cnt, pool_mem_inc_time, held>>

-----------------------------------------------------------------------------
\* The steps a worker must take to return from an alloc or a free
Step(w) ==
  \/ pc[w] = "pop" /\ Pop(w)
  \/ FillTake(w)
  \/ FillTaken(w)
  \/ FillGrow(w)
  \/ FillFail(w)
  \/ RecycleLock(w)
  \/ RecycleSplice(w)

Next ==
  \E w \in Workers :
    \/ Step(w)
    \/ pc[w] = "run" /\ Pop(w)
    \/ FillLock(w)
    \/ \E n \in Node : Free(w, n)

Spec == Init /\ [][Next]_vars

-----------------------------------------------------------------------------
(* Properties                                                              *)

\* Type invariant: every variable keeps the range the C declarations give it.
TypeOK ==
  /\ next \in [Node -> Node \cup {NULL, Junk}]
  /\ freelist \in Node \cup {NULL}
  /\ free_cnt \in 0 .. MaxNodes
  /\ total_cnt \in 0 .. MaxNodes
  /\ pool_mem_inc_time \in 0 .. IncMax
  /\ spin_lock \in Workers \cup {NoOwner}
  /\ stack \in [Workers -> Seq(Node)]
  /\ free_list_len \in [Workers -> 0 .. FillFreeSize]
  /\ local_free_list \in [Workers -> Node \cup {NULL}]
  /\ local_last_node \in [Workers -> Node \cup {NULL}]
  /\ pc \in [Workers -> {"run", "pop", "take", "grow", "recycle", "splice"}]
  /\ held \subseteq Node

\* The k-th node of the chain that starts at h
Walk(h) ==
  LET at[k \in 0 .. MaxNodes + 1] ==
        IF k = 0 THEN h
        ELSE IF at[k - 1] \in Node THEN next[at[k - 1]] ELSE at[k - 1]
  IN at
Chain(h) == LET at == Walk(h) IN {at[k] : k \in 0 .. MaxNodes} \cap Node
Ends(h)  == Walk(h)[MaxNodes + 1] = NULL

Stacked(w) == {stack[w][i] : i \in 1 .. Len(stack[w])}

\* No node is lost, handed out twice or free in two places, whichever workers
\* allocate and free: held nodes, the stacks and the global list are disjoint,
\* hold each node once and are all of the pool's memory.
NodesConserved ==
  LET global == Chain(freelist)
  IN /\ held \cup global \cup UNION {Stacked(w) : w \in Workers}
          = 1 .. total_cnt
     /\ held \cap global = {}
     /\ \A w \in Workers :
          /\ Stacked(w) \cap (held \cup global) = {}
          /\ Cardinality(Stacked(w)) = Len(stack[w])
          /\ \A v \in Workers \ {w} : Stacked(w) \cap Stacked(v) = {}

\* The chain of the global list is never broken by a user's data, and free_cnt,
\* which alone decides between reuse and new memory, is its exact length.
FreeCntExact ==
  /\ Ends(freelist)
  /\ spin_lock = NoOwner => free_cnt = Cardinality(Chain(freelist))

\* A push never runs past the stack_max_len + free_list_max_len entries that
\* sf_pool_init_local reserved for the stack.
StackInBounds ==
  \A w \in Workers :
    /\ Len(stack[w]) <= LocalCacheSize + FillFreeSize
    /\ pc[w] = "run" => Len(stack[w]) < LocalCacheSize + FillFreeSize

\* The local list that a recycle gives away is exactly the part of the stack
\* above stack_max_len, newest first, so that the stack can forget it.
ListIsStackTop ==
  \A w \in Workers : pc[w] # "splice" =>
    LET top == Len(stack[w]) - LocalCacheSize
        at  == Walk(local_free_list[w])
    IN /\ free_list_len[w] = IF top > 0 THEN top ELSE 0
       /\ \A k \in 0 .. free_list_len[w] - 1 :
            at[k] = stack[w][Len(stack[w]) - k]
       /\ at[free_list_len[w]] = NULL
       /\ local_last_node[w] =
            IF top > 0 THEN stack[w][LocalCacheSize + 1] ELSE NULL

\* An allocation gives up only when the global list is empty.
FailsOnlyWhenEmpty ==
  [][\A w \in Workers :
       pc[w] \in {"take", "grow"} /\ pc'[w] = "run"
         => freelist = NULL]_vars

\* The spinlock is held exactly by a worker that is inside sf_pool_fill_cache
\* or sf_pool_recycle_cache: no way out of them keeps it, and no two workers
\* are inside at once.
LockHeldInside ==
  \A w \in Workers : spin_lock = w <=> pc[w] \in {"take", "grow", "splice"}

\* Every node is in one place, and the count of the global list, by which the
\* pool decides to grow, is exact: whichever workers allocate and free.
NodesAccounted == NodesConserved /\ FreeCntExact

\* The local stack, the free list that is threaded through its top and the lock
\* of the global list agree between any two steps of any worker.
CachesSound == TypeOK /\ StackInBounds /\ ListIsStackTop /\ LockHeldInside
=============================================================================
