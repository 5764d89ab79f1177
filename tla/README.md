# A TLA+ verification project for Tapplet

Tapplet is a set of VPP plugins, with a management server, that captures
traffic: packets are decoded, reassembled, classified by ACL rules, and sent on
to other interfaces, load-balanced or wrapped into GRE, VXLAN or ERSPAN. This
directory holds TLA+ models of the packet path, of the data structures under it
and of the management around it, TLC configurations that check them on small
instances, and TLAPS proofs for every size of instance. Paths below are relative
to the root of the repository, which `PROJECT.json` calls `src/`.

`PROJECT.json` is the index: for every definition that models code it names the
lines it stands for, for every run what it checks, for every property a mutant
of the model that breaks it, and it lists the hazards of the code that the
properties are aimed at.

## 1. The system

### Processes and how they interact

* **VPP** (`src/`) has a main thread and one worker thread for each core. The
  workers run the packet graph on frames of packets without sharing, as far as
  possible; the main thread runs processes such as the ACL synchronisation, the
  collection of statistics and the server of commands.
* **restd** (`rest/`) is a tornado server. Requests run one after the other on
  one thread, without yielding; a download or an upload of the configuration and
  the request for an ACL synchronisation go on in threads of their own.
* **Shared memory** (`nshell-lib/shm-manage`) holds the configuration and some
  statistics. restd writes it through the C functions of
  `nshell-lib/sf_plugin_api`, VPP reads it; it survives the death of both. What
  coordinates them is a handful of words in it: `acl_sync_flag`, `sync_lock`.
  The configuration part is saved to a file, which survives the machine.
* **CLI over UDP** (`src/sf_main/other/cli_udp_server.c`,
  `nshell-lib/vpp-udp-client`): restd asks VPP for what is not in shared memory.

The path of a packet: `sf-dpdk-input` -> handoff to the worker that its
addresses hash to -> (`sf_hugepkt_input`, which gathers a packet of several
segments into one block) -> `sf_eth_input` -> `sf_ip4_input` or `sf_ip6_input`
-> reassembly when it is a fragment -> `sf_udp_input` or `sf_tcp_input` ->
`sf_acl_entry` -> (`ip_reass_forward`, which splits a reassembled packet again)
-> `sf_action_main` -> encapsulation and load balancing -> `sf_pkt_output`,
`sf_hugepkt_output`, or `sf_pkt_drop`.

### Components

| Component | State | Operations | What is hard | What makes it correct | Module |
|---|---|---|---|---|---|
| ACL sync (`src/acl`) | `acl_sync_flag`, `acl_sync_times`, the live `rte_acl` table, one lock per worker | ask for a sync, build, swap, wait for the workers, free; classify a frame | workers read a pointer while it is swapped; three threads of two processes write the flag; either process may die | no freed table is used, none leaks, frames see whole tables, every request is answered | `AclSync` |
| ACL rules (`sf_acl_*.c`) | `rule_map`, `map_rule`, bitmaps, hash chains | PUT, POST, atomic POST, DELETE, reset | long sequences of edits; a roll-back half-way; a count that sticks | ids and slots are one to one, a request that is refused with an answer changes nothing | `AclRules` |
| Memory pools (`src/sf_lib/sf_pool`) | a stack and a list per worker, a global list under a spinlock | alloc, free, refill, recycle, grow | a node is freed by another worker; list and stack overlay each other | nodes are conserved, stacks stay in bounds | `SfPool` |
| Timers (`src/sf_lib/sf_timer`) | a wheel per worker | submit, poll, fire, stop | late polls; a stop from another worker without a lock | no timer early, passed over or lost; no stop writes into a chunk being fired | `SfTimer` |
| IP reassembly (`src/ip_reass`) | a hash table with a lock per bucket, a timer for each datagram | a fragment, a timeout, forwarding | the timeout races the last fragment; order, duplicates, loss; pools run dry | buffers are conserved, only complete datagrams are built, nothing waits for ever | `IpReass` |
| Decoding (`src/sf_main/nodes/decode`) | the window and the layers of a packet | one node for each protocol, two loops each | lengths that lie, cut headers, two copies of the code | the window stays inside, layers are those sent, both loops agree | `PktDecode` |
| Receiving, handoff, huge packets, output, drop (`src/sf_main/nodes`, `src/dpdk`) | buffers, blocks, frame queues, tx queues, counters | one node each | full queues, lack of buffers, interfaces that go down | each buffer and block is in one place, what is sent is what came, counters balance | `PktTransport` |
| Actions, encapsulation, load balancing (`src/actions`) | actions in shared memory, arrays and rotation shared by the workers | apply; POST, PUT, PATCH, DELETE | restd rewrites what workers use, load by load | actions are complete once they are written, headers fit, a choice is made and is a configured one | `Actions` |
| ACL and interface statistics, ports (`acl_cli.c`, `sf_interface_stat.c`) | counters per thread, bases, totals in shared memory | count, fold, clear; start of the ports | unsynchronised reads and clears, wrap-around | nothing is counted twice or lost silently | `CliStat`, `IntfStat` |
| CLI over UDP | a socket on each side | request, answer, time-out | loss, late answers, merged events | an answer belongs to its request; every request is taken | `CliStat` |
| Shared memory (`nshell-lib/shm-manage`) | the segment, its map, the saved file | create, lay out, check, save, load, delete | a crash or a full disk between two steps, another build | the segment is sound, what reached the file comes back whole | `ShmConf` |
| Configuration in restd (`rest/tapplet`) | `sync_lock`, the archive | PUT, reset, save, download, upload | threads against requests; a lock that survives its owner | the lock has an owner and is released; an archive is one configuration | `RestConf` |

## 2. The modules

`AclSync` -> `AclSyncRefinement` (implements `AclTable`) -> `MC_AclSync`,
`AclProofs`; `AclRules` -> `MC_AclRules`, `AclProofs`; `SfTimer` ->
`MC_SfTimer`, `SfLibProofs`; `SfPool` -> `MC_SfPool`, `SfLibProofs`; `IpReass`
-> `MC_IpReass`, `PktInputProofs`; `PktDecode` -> `MC_PktDecode`,
`PktInputProofs`; `PktTransport` -> `MC_PktTransport`, `PktTransportInvariant` ->
`PktTransportProofs`; `Actions` -> `MC_Actions`, `ActionsProofs`; `IntfStat` ->
`CliStat` -> `MC_CliStat`, `CliStatProofs`; `ShmConf` -> `RestConf` -> `MC_RestConf`,
`RestConfProofs`. An arrow is an EXTENDS; the proofs of both ACL modules, of both
modules of `sf_lib`, and of decoding and reassembly stand together, so that
`AclRules`, `SfTimer` and `PktDecode` have names of their own for what every module
has (`RulesSpec`, `TimerSpec`, `DecodeSpec`).
`CliStat` and `RestConf` are compositions: the first of the commands with the
statistics they run on VPP's main thread, the second of restd with the segment,
the file, VPP's start and the tools. Variables and actions have the names of the
fields and functions they stand for wherever TLA+ allows it. An operator whose
comment begins with "mutant" is a wrong form of the operator after it; no
specification uses it.

### AclSync, AclTable, AclSyncRefinement

Three kinds of actors share the variables.

* *restd*: `AclConfig` (an edit of one rule), `AclSyncPatch` and the thread it
  starts (`AclRuleSync`), `ResetAllConfig`, and an upload (`UploadStart`,
  `UploadRule`, `UploadEnd`), which holds `sync_lock` while it writes rules one
  by one on another thread. `AclRequestAllowed` and `RequestAllowed` are the
  tests of `BaseHandler.prepare`.
* *the VPP main thread*: `SyncProcessWake` is the two-second loop of
  `acl_sync_process.c`; `TableCreate`, `TableAddRule`, `TableBuild` and
  `TableSetupFail` are `rte_acl_table_setup`; `TableSwap`, `GraceLock`,
  `GraceUnlock` (one worker's lock at a time) and `TableRetire` are the swap,
  the grace period and the free; `SyncFinish` answers in the flag.
* *the workers*: `WorkerLock`, `WorkerCheck`, `WorkerLoad`,
  `WorkerClassified`, `WorkerUnlock` are one frame in `sf_acl_entry`. The code
  tests the pointer and then passes it to the library. Whether these are one
  load or two depends on the build: `LoadsOnce`.

`RestCrash` and `VppCrash` take away what lives in a process and leave the
shared memory. Rule contents are small numbers, the two address families are
one range of slots, and there is one rule group because `MAX_RULE_GROUP_CNT`
is 1. DPDK's `rte_acl` is external and modelled by what the code relies on: a
name that is known gives back the old context, and a context has to be freed.

`AclTable` is what packets may expect: one current rule set, replaced in one
step. `AclSyncRefinement` maps `AclSync` to it, with the contents of the live
context as the table.

### AclRules

One request at a time, as restd works. `Put`, `Post`, `Delete` and `Reset` are
one step each; an atomic POST takes one step for each rule
(`PostAtomicRule`), and a refusal (`PostAtomicRefused`) starts a roll-back of
one step for each rule created (`PostAtomicRollBack`). A malformed rule is not
refused but raises an exception that only the handler catches
(`PostAtomicRaised`): then there is no roll-back. The hash table is
modelled link by link, with `acl_hash_free` as it is written: it reads
`hash_prev` where `hash_next` is meant. `acl_hash_find` yields `Hang` when it
would follow a circle for ever, and `hung` records that restd did. The hash
function and the contents of rules are constants.

### SfPool

The local stack is a sequence, and the first word of every node (`next`) is a
variable of its own, because the local free list is threaded through the nodes
on top of the stack and a user's data overwrites it. Steps under the spinlock
are separate actions, so that the model shows what the lock is for. A node may
be freed by any worker.

### SfTimer

One wheel, polled by its worker at any time, on time or late. `PollExpire`
reads the clock, `TurnTick` turns the wheel by one bucket, `DrainChunk` fires a
chunk and frees it; a poll ends when it has fired a chunk's worth of timers and
leaves the rest (`PollLeftOver`). Any worker stops a timer: `StopCheck` reads
the clock and `StopClear` writes the slot, with time in between; `StopBusy` is
the stop after `safe_clib_time`. Time is counted in fractions of a tick.

### IpReass

`ip4_frag_proc` runs under the lock of a bucket and is one step, with an action
for each way through it: `FragLayer`, `FragDuplicate`, `FragGiveUp`,
`FragComplete`, `FragAppend`, `FragFirst`, `FragFirstFail`. The timeout handler
is two (`HandlerRead`, then `HandlerStopped` or `HandlerTimeout`), since it
reads `hash_index` before it has the lock and reads it again to unlock. The
timer is reduced to what `SfTimer` shows: it can be taken out of its slot while
it is early, and afterwards it can only be zeroed for the handler to find.
A datagram that is complete travels as a copy with its fragments below it
(`asm`) through decoding and ACL; `Forward` is `ip_reass_forward`, which lays the
tree out in an array and sends every fragment to the action of the whole.
`MAX_IP_WDATA` is 1 in this build, so that trees have one level. `ip6_reass.c`
is the same procedure on another header and is covered by the same actions.
Chains of hash nodes are sets; the list of fragments is a sequence. With
`Handoff` TRUE all fragments of a datagram come to one worker; with FALSE any
worker may get any of them, as on an interface with several queues.

### PktDecode

A packet is the list of headers that its bytes spell, with the lengths they
declare and the number of bytes that were received. A node takes the packets of
its frame two at a time while four or more are left and then one by one; the
source writes both loops out, and they are two actions here (`EthTwo`, `EthOne`
and so on), with two decoders for IPv6, where the loops differ. What a node keeps
is the window (`cur`, `len`, in 16 bits) and the layers it records. The reference
for the recorded layers (`Hdr`, `HdrEnd`, `Complete`) is stated on the packet, not
on the decoders.

### PktTransport

Every worker runs one node at a time on a frame; `cur` is that node with its
local arrays. There is an action for each loop of each node: receiving in fours
and singly with the segments of a packet listed in its buffer, the handoff and
its queues, `sf_hugepkt_input`, `sf_pkt_output`, `sf_hugepkt_output`,
`sf_pkt_drop`, and the transmission, where workers that share a queue spin for
its lock. Buffers are in the mempool, in a worker's free list, or in a frame;
blocks are in the pool of their worker or hold a packet. Decoding and actions are
one node between them. `SetAdmin`, `SetHandoff` and `ClearHandoff` change the
switches of an interface while packets are under way.

### Actions

`get_action_forward_path` lists the nodes a packet visits; the three
encapsulations put headers in front of it, each a record of the lengths, version
and sequence number that it announces. Because nothing is locked, the choice of
an interface (`round_robin`, `wrr` and the hash modes with the array of usable
interfaces that all workers share), the counter of ERSPAN and the writes of restd
are modelled load by load and store by store. `memcpy` and `memset` store pieces of
the action (`Pieces`, sets of fields) in an order that nothing says (`Copy`): a worker
may use an action that is half the old and half the new one. Requests are sequences of
items or operations; translation of the JSON object, its checks and the weights
(`sf_gcd.h`) are operators. A weight is checked as a number of Python and stored as a
C int (`c_int`), which may leave 0 or less of it (`CutWeights`); the greatest common
divisor of such weights is that of C's remainders but for its sign (`CutDivisors`), and
restd dies where a remainder is a fault (`GcdFault`). A scenario is a configuration, the
frames of the workers, the links and one event.

### CliStat and IntfStat

`IntfStat` has the counters of the threads and of the hardware, their collection
into shared memory step by step (each counter is loaded and stored, and restd may
zero it in between), the flag between the two callers of the calculation, and the
start of the ports. `CliStat` adds the hits of an ACL rule with their 32-bit
counters, both commands on them, the server (a queue of datagrams and an event
that merges), and the client in restd with its time-out, its retries and the
second in which it does not send. Datagrams may be lost or late.

### ShmConf and RestConf

Memory is a function of offsets; a region has a name, a kind and a length, and
modules register them in the order in which they were linked, which differs
between builds. `ShmConf` has VPP's start (`VppStart`, `VppStep`: link, check,
map, run the init functions, load the file), the saving and loading in blocks, with
the buffer of stdio between `fwrite` and the disk (`WriteBlock`, `FlushAndWrite`,
`SaveClose`), the tools, a full disk, crashes and the stop of the machine. `RestConf` adds restd:
linking, PUT of interfaces with its setters and its refusals half-way, reset,
save, download and upload on the second thread with one step for each module,
the flag of an ACL sync as a field of the configuration, and the lock.

## 3. What the runs check

A property named in a run is often a conjunction of parts, each with a comment of
its own in the module; the table names them.

| Run | Properties and their parts | Instance |
|---|---|---|
| `acl_sync` | `FlagSound` (`FlagGuardsSync`, `OnlyCrashStrands`), `TablesSafe` (`NoUseAfterFree`, `BuildIsPrivate`, `NoContextLeak`, `ClassifyNotNull`), `AtomicTable` (refinement of `AclTable`), `SyncSettles`, `SyncOkMeansInstalled` | 2 workers, 2 slots, 2 table addresses, 1 upload, 1 crash |
| `pool` | `CachesSound` (`StackInBounds`, `ListIsStackTop`, `LockHeldInside`), `NodesAccounted` (`NodesConserved`, `FreeCntExact`), `FailsOnlyWhenEmpty` | 2 workers, stacks and lists of 2, growth once |
| `timer` | `StopInTime`, `OnTime` (`NotEarly`, `NotPassedOver`), `AllFire` | 2 timers of 2, 4 or 5 ticks, a wheel of 4, chunks of 1, 12 units of half a tick |
| `reass` | `FragmentsAccounted` (`BuffersConserved`), `WholeMeansComplete`, `TimeoutSafe` (`TimerFindsNode`, `LocksReleased`), `CachedIsSent` | 7 fragments of 3 datagrams, 2 nodes, 2 timers, 2 workers |
| `acl_rules` | `CountsExact` (`NodeCntExact`), `MapsAgree`, `RollBackRestores`, `OneRuleAtATime` | 3 ids, 2 slots per family, 4 contents, a count that sticks at 2 |
| `acl_rules_hang` (violation) | `FindReturns` | the same |
| `decode` | `WindowSound` (`WindowInside`, `RecordedInside`), `SameInBothLoops`, `LayersSound` (`LayersAsSent`, `CutMeansError`), `DeliveredOnce` (`ActionsSeeWholePacket`, `EachBufferOnce`) | frames of 8 with every shape of packet, cut at every header boundary and one byte before it |
| `transport` | `Conserved` (`BuffersConserved`, `BlocksConserved`), `SentSound` (`SentWhole`, `ArraysInBounds`, `BlockForEveryPacket`), `QueuesSound` (`SameFlowSameWorker`, `OneSenderPerQueue`), `CountsBalance` | 2 workers, 20 buffers, 5 blocks each, frames of 9, queues of 1 frame, 1 tx queue, 1 change of configuration |
| `transport_twice` (violation) | `DropFreesOnce` | the same |
| `actions` | `RequestsSound` (`UsableIsValid`, `ReadIsWritten`), `EncapSound` (`LeavesAsConfigured`, `TunnelsWellFormed`, `HeadersFit`), `PickSound` (`ChosenWasConfigured`, `RealArrayInBounds`, `NoNeedlessDrop`), `WeightsSound` (`WeightedPickEnds`, `SharesFollowWeights`) | 2 workers, 3 interfaces, 2 actions that are copied in 3 pieces, C ints of 4 bits, the scenarios of `MC_Actions` |
| `cli_stat` | `AnswerIsMine`, `HitsSound` (`HitsAccountedFor`, `NothingBeforeClear`), `IntfStatSound` (`CollectedOnce`, `TxOkWithinOut`, `TxErrorBounded`, `PortsReadyBeforeTraffic`), `RequestsTaken` | 2 threads, 2 workers, 2 interfaces, 2 UDP ports, counters modulo 16, the scenarios of `MC_CliStat` |
| `rest_conf` | `ShmSound` (`LayoutSound`, `OwnRegions`, `FatalExplained`, `LinkedAfterStart`), `SavedSurvives` (`SyncSurvivesReboot`, `LoadedWhole`), `RoundTrip` (`DownloadIsSnapshot`, `UploadRestores`, `DownloadLoads`), `LocksOwned` (`LockExplained`, `FlagOwned`), `LockReleased` | four builds of 5 regions, one of them with another region of the same length, the scenarios of `MC_RestConf` |

The type invariant of a module is part of the first group of its run.

### Why the bounds are enough

* Two workers are what it takes for a race in `AclSync` (one that the main
  thread has passed in the grace period and one that it has not), in `SfPool`
  (two users of the lock), in `PktTransport` and in `Actions`. Two table
  addresses are what can be alive at a time. One crash at every point is enough
  because a restart forgets all of its process.
* The pool's sizes make every branch happen: a stack that runs over its limit
  by one node and by a full list, one that runs empty, a refill from a list
  that is too short, growth, and growth refused.
* The wheel of four buckets is turned more than once, by single and by several
  ticks; tick counts include the smallest one, a whole turn, and one that is
  refused. With chunks of one timer a poll leaves work behind.
* The fragments include a duplicate, one that never comes, one too many, a
  datagram too long for a buffer, one whose lengths wrap, and more datagrams than
  nodes or timers.
* The rules fill a table, share a bucket, and make the count stick; a
  `node_cnt` limit of 2 stands for 255.
* A frame of eight packets passes through the loop over two and through the loop
  over one in every decoding node; the packet in question stands in both, with
  packets of another kind between. Lengths are real ones: 14, 4, 20, 40, 8, and so
  are the numbers of VLAN tags whose count wraps, 256 and 257.
* In `PktTransport` nine packets take the loops over four, over two and over one.
  A block is three buffers long, a frame queue holds one frame, and the free lists
  are filled by four, so that splitting fails, queues are full and both workers
  meet on the one tx queue.
* `Actions`, `CliStat` and `RestConf` are checked on scenarios: a record that says
  what may happen in a behaviour and how often. Within a scenario everything may
  interleave; between them they contain every action, every pair of activities that
  share state, and one crash or loss at every point.

Bounds on behaviours, all named constants or fields of a scenario: `MaxUploads`,
`MaxCrashes`, `MaxNow`, `MaxSwitches`, `MaxGen`; `TimesMod` stands for 2^31,
`HitMod` for 2^32, `UINT16` of `IpReass` for 2^16, `INT_RANGE` of `Actions` for 2^32. Deadlock is checked in the ACL sync and the pool runs. It is
switched off where the system may come to rest: all packets have been handled,
the requests of the scenario are done, time is up, or restd is caught in a circle.

### Fairness

* Weak fairness of the main thread's, a worker's and the sync thread's steps in
  `AclSync`: they are threads that the operating system runs; VPP workers poll
  for ever.
* Strong fairness of `GraceLock`: the main thread spins for a lock that a
  worker frees after each frame and takes again for the next one; a spinlock
  gives no order, so what is assumed is that it is had at last.
* `IpReass`: time passes (`TimerLate`), and a worker comes back to poll its
  wheel between packets (strong fairness of `TimerFire`, which needs the worker
  to be at the top of its loop). No fragment is ever assumed to arrive.
* `SfTimer`: the clock runs up to its bound, the wheel is polled, and a stop
  that has begun ends. `AllFire` speaks only of timers that are due two ticks
  before the end of time.
* `CliStat`: weak fairness of what VPP's main thread does (polling the socket,
  serving, running a command or a calculation). Nothing is assumed of restd, of
  the network or of the workers.
* `RestConf`: weak fairness of `RestdStep`, the work that a thread of restd has
  begun. No request, crash or restart is assumed to happen.

## 4. What is proved

The theorems hold for every value of the constants that satisfies the named
assumption of the module: any number of workers, packets, nodes, rules, threads,
interfaces and scenarios, where a run has two or three. Where a theorem has a
hypothesis of its own it is said below, and what happens without it.

**AclSync** (`AclProofs`, assumption `AclSyncAssumption`: any number of
workers, none included, at least one slot, any set of table addresses without
NULL). The inductive invariant `IInv` is `TypeOK` with

* `MainInv`: the place where the main thread is tells which of its local
  pointers are set;
* `LockInv`: a worker inside a frame holds its lock, and the main thread holds
  at most one, that of the worker it is at;
* `NameInv`: DPDK knows exactly the live, the new and the old table, and the two
  alternating names keep the new one apart from the other two;
* `WorkerInv`: a worker has the live table or the old one, and only the live
  one once the main thread has passed its lock; a build that loads the pointer
  once never hands NULL to the library;
* `FlagInv`: the flag is STILL during a sync, PREPARE while restd's thread has
  yet to run, and a flag or a lock without an owner is the trace of a crash.

`NoUseAfterFree` is not inductive alone: that the old table is free of users
when the grace period ends needs `WorkerInv`, which needs `LockInv` for the
worker whose lock is held; that a new table is not the live one needs
`NameInv`. `Invariance` is the invariant; `TypeCorrect`,
`TableNeverFreedInUse`, `TableBuiltInPrivate`, `TablesNotLeaked` and
`SyncRunsUnderFlag` follow from it, and with them `TablesAlwaysSafe` and
`FlagAlwaysSound`, the groups that the run checks. The theorems hold for
`LoadsOnce` FALSE as well, which no run covers. `TableIsAtomic` shows `Spec => A!Spec`:
`TableSwap` is `Install`, the load of the pointer is `Begin`, the end of the
call is `End`, `VppCrash` is `Restart`, and everything else is a stutter, which
needs the invariant because a table that is built or freed must not be one that
a frame is matched against.

**SfTimer** (`SfLibProofs`, assumption `SfTimerAssumption`). The invariant
says that the wheel is not ahead of the clock (`WheelInv`), that the distance
of a slot from the current bucket, counted around the wheel, is the time that
its timer has left (`SlotInv`), and that a stop in progress began before
`safe_clib_time` (`StopInv`). The step that matters is `TurnTick`: turning the
wheel brings every slot one place nearer and empties exactly those that are due
(lemma `OneNearer`). `TimerTypeCorrect`, `StopsInTime`, `NeverEarly`,
`NeverPassedOver` and, of these, `AlwaysOnTime` follow. Two assumptions come from the callers: at least two
ticks are asked for (reassembly asks for 30), and a stop, once it has looked at
the clock, is over within two ticks. The code enforces neither.

**AclRules** (`AclProofs`, assumption `AclRulesAssumption`: any numbers of
ids and slots, any contents and hash function). The invariant `RulesInv` is
`MapsAgree` with the types of the maps, and `PostKeeps`: the rules that an
atomic POST has not created are as they were, and it creates only where there
was none. The key lemma is `SlotIsFree`: although the chains are unsound, the
slot that `tuple_try_map_new_rule` takes is one that no id is mapped to, since a
slot that was found is used only if `map_rule` is 0, and otherwise the bitmap
decides. `MapsAlwaysAgree`, `RollBackAlwaysRestores` and `OneRuleChanges`
follow. `CountsAlwaysExact` is about `node_cnt`, which an insertion increments up
to its limit and a release decrements: the invariant adds that the cardinality of
the rules of a slot is the count until it sticks, and every action changes both.

**SfPool** (`SfLibProofs`, assumption `SfPoolAssumption`: a local list is not
longer than a stack, a stack not longer than what a worker is given at the
start). The properties walk chains of `next` words of any length; the proof does
not. Its invariant says that there is a sequence `g` of nodes which the chain from
`freelist` links (`ChainIs`), that the local list is the part of the stack above
`LocalCacheSize` (`TopList`), and that every node of the pool is on one stack at one
place, once in `g`, or held (`Home`). Each way a node moves is a lemma on these
values (`HomePop` and its like), and what a walk along a chain finds follows from
`g` by induction over a set. `free_cnt` is `Len(g)` whenever the lock is free and
differs by what is in the hands of the worker inside it otherwise (`Counted`).
`NodesAlwaysAccounted`, `CachesAlwaysSound` and the action property
`AlwaysFailsOnlyWhenEmpty` follow.

**IpReass** (`PktInputProofs`, assumption `IpReassAssumption`). `IInv`: a live node
and its timer point to each other, and a timer that can still fire points to a live
node or was zeroed (`TimerInv`); a datagram has one live node that lists its
fragments once (`NodeInv`); a fragment below a packet that was put together is below
one only (`AsmInv`); what a worker waits with is its own (`WorkerInv`). From it
`FragmentsAlwaysAccounted`, `TimerAlwaysFinds` and, as an action property,
`AlwaysSentOnce`. `AlwaysComplete` (`WholeMeansComplete`) rests on `CoverInv`:
`meet_len`, to which the code adds the length of each fragment, is the number of
bytes covered, so that with `total_len` equal to it there is no gap; this is a
statement about cardinalities of unions of intervals. It is stated for datagrams
whose fragments are as some sender cut them (`AsSent`): not empty, apart from each
other, and within 16 bits; otherwise the code's sum, which wraps, means nothing. `TimeoutAlwaysSafe` is proved under `Handoff`: what
belongs to a datagram then belongs to one worker (`OwnerInv`). Without the handoff
the handler does leave a lock (section 6), so that this hypothesis cannot go.

**PktDecode** (`PktInputProofs`, assumptions `FrameAssumption`,
`L2OffsetAssumption`: frames of any size of packets of any shape, with any number of
VLAN tags). `StageInv` says
that a packet that waits for a node has been decoded so far as decoding it alone
would have done (`AfterEth`, `AfterIp`, `AfterL4`, `Decoded`); both loops keep it,
whatever the other packets of the frame are, since each packet is in one frame
(`EachBufferOnce`). `AlwaysSameInBothLoops` and `AlwaysDeliveredOnce` follow, and
`AlwaysWindowSound` and `AlwaysLayersSound` reduce to one packet, without frames:
there an induction over the stages, and over the chains of VLAN tags and of IPv6
extension headers, shows that the window moves by what was recorded and never past
what was received, and that what is recorded is the header that was sent. The two
exceptions are part of `LayersSound`: an IPv6 packet with the protocol 0xff
(`NamesInvalid`), and a packet cut in its VLAN tags.

**IntfStat and CliStat** (`CliStatProofs`, assumptions `IntfAssumption`,
`CliAssumption`). `IntfInv` says where the packets counted by the threads are at
each step of a calculation, while restd may zero the statistics between load and
store: in shared memory, in the part that was zeroed, or in the locals of the
calculation (`CollectedInv`, sums over any number of threads); that what was loaded
is still there unless it was zeroed (`LoadedInv`); and that the hardware's counter,
read before those of the threads, is not ahead of them (`SentInv`), without which
`tx_error` would turn negative (`TxInv`). `IntfStatAlwaysSound` follows.
`AnswerAlwaysMine` rests on `NetInv`: nothing under way carries a number that was not
given out, and what carries the newest one is for the command that waits.
`NeverReportsMore` (`NothingBeforeClear`) is unconditional: neither a wrap of a
worker's counter nor a restart of VPP makes restd report a hit from before a clear
that was answered; `ClearInv` follows the clear through the server to the answer.
`HitsAlwaysSound` has the hypothesis `NoWrap`, that no worker gains 2^32 hits between
two collections: the code takes differences modulo 2^32, so that such hits are lost;
the counters may wrap any number of times otherwise.

**ShmConf and RestConf** (`RestConfProofs`, assumptions `SizesAssumption`,
`RegsAssumption`, `PutsAssumption`: any builds, with any regions of any lengths in any
order, as long as no name is registered twice and the four regions that restd looks up
are there and as long as it uses them; any bodies of PUT requests, any scenarios). `LInv`
consists of the types and

* `LockInv`: restd works on one thing at a time; while it does, the lock of the segment
  it is linked to is set, and a lock without work was left by a restd that died;
* `BuildInv`: the segment that VPP lays out is not ready and is not the one restd is
  linked to. Without it `LockInv` is not inductive: `StartMaps` clears the lock;
* `HurtInv`: while no start was cut and the version is the same, the segment under the
  key is one that VPP accepts, or VPP is making it. `FatalAlwaysExplained` follows;
* `LayInv`: a segment that is ready has the layout of the version that made it
  (`LaidOut`), the one under way has it as far as the loop has come.

`LayoutAlwaysSound` follows from `LayInv` by facts about the operators of the layout:
`InsertReg` keeps a list sorted and adds one element (`InsertSorted`, `SortFacts`), a
kind's registrations are a part of the list (`KindFacts`), neither sorting nor splitting
changes the sum of the lengths (`LenOfInserted`, `LenOfConcat`), so that the regions end
where the segment ends (`OffFacts`). These are inductions over the length of a list,
written as statements about sets of numbers (`UpTo`); that the recursive functions exist
is proved as well (`SortedExist`, `KindExist`, `LenSumsExist`, `ItemsExist`).

`LocksAlwaysOwned` adds `FlagInv` and `ItemInv`. The flag of an ACL sync is a cell of
the configuration like any other, so that its ownership depends on what every writer of
memory touches: in a segment that is laid out no field of a request, of an upload or of
the statistics is the flag's cell (`FlagApart`, which needs the layout), a reset spares
it, a load marks the segment, and a segment becomes ready with its memory still zero.
For an upload this needs `ItemInv`, that an archive names no other fields than those a
download writes.

**PktTransport** (`PktTransportInvariant`, which has the invariant and the lemmas of the
nodes that give nothing away, and `PktTransportProofs`; assumptions `PacketAssumption`,
`CapacityAssumption`: any number of workers but none, numbered as the code numbers them;
any finite set of buffers; any number of interfaces, blocks and tx queues, any lengths of
frames and queues; any bursts of packets with at least one segment and a hash that is a
number). `Conserved` and `QueuesSound` are proved. The balances of `Conserved` count a
buffer in lists that are flattened out of the run, the frames and the queues of every
worker; the proof weighs instead. A place is a node and a buffer (`Pairs`), a weight is a
function of places (`Holds` of a buffer, `Fills` of a block, `One` of a place), and the
load of a worker is the weight of its lists (`Load`, `Lists`). `WorkerCount` and
`HeldCount` show at the end that the weights are the counts. `Sound` says this of a view
of the state:

* `BufferBalance`: the mempool, the loads, the drops and the free lists of all workers
  and the lost buffers sum up to one for each buffer; `BlockBalance` is the same for the
  blocks of one worker that are not spoilt;
* `AllFit`: a packet at a place fits it (`Fit`). Its segments begin with its own buffer, it
  is marked as huge where the node takes that for granted, it has an interface to go out
  to, and if it was handed over it is at the worker its addresses hash to. The balance is
  not inductive without it: what a packet holds at a node depends on the mark;
* `RunInv`: the local arrays of a node. The buffers to drop are collected in
  `sf_hugepkt_input` only, and what the tx function has prepared is what it will send.

A view, because a node handles two or four packets in one step: `Sound` is shown of the
view after each packet (`Mid`, one lemma per node, as `HugeTook`), so that the loop over
one packet and the loop over several follow from the same lemma. What a packet's step may
do to the others is in `Kept` and `MovedBalance`: what it does not take and does not add
is as it was, and since a buffer balances to one, nobody else holds what it frees. The
invariant `IInv` adds `InputInv` (a worker receives when it has nothing else to do),
`LockInv` (a worker with a tx queue holds its lock), and `SeenInv` (a flow reached the
actions at the worker it hashes to). `PacketsAreConserved` and `QueuesAreSound` follow
from `Invariant`. What is left out of the conservation is what the code loses: the
buffers of a packet too long for a block (`lost`) and blocks that are freed twice
(`spoilt`, run `transport_twice`).

**Actions** (`ActionsProofs`, assumptions `SizesAssumption`, `IntAssumption`,
`PiecesAssumption`, `ScenariosAssumption`: any number of workers, interfaces, actions and
of picks; any width of a C int; any pieces that together are the whole action; any
configuration that requests could have left with no weight cut to 0 or less, any frames
and any requests with values of the types JSON has). The
invariant `Inv` has a part for each of those who meet in an action.

* `ActInv`: an action with a reference that is not being copied (`Torn`) has the shape
  that the checks of a request leave (`Shape`: `Base` of it, which is the action without
  its place in the rotation), and its divisor and its largest weight are those of its
  weights (`Weighted`), unless a C int cut one.
* `RestInv`: what restd has done so far of a write. A field in none of the pieces that are
  left to copy is that of the new struct (`Copied`: but for the place in the rotation, to
  which workers store meanwhile), so that at the end of the copy the action is the new one
  and has no reference; the weights are computed before it gets one. `UsableIsValid` is
  not inductive without it.
* `Frames`: where a packet is tells what it carries. In front of an encapsulation node
  the rest of its list is the rest of the order of its action's encapsulations, and the
  headers it has are those before (`PktAt`, `AtEncap`, `AtBalance`); a packet that left
  has them all (`PktDone`). All of this is said of the action only while the packet's
  version is the action's (`Match`: a packet that reads an action while it is copied gets
  version 0, which none has), and otherwise only what every packet keeps: its
  lengths (`Lengths`) and the room its headers take (`Room`).
* `RunAt`: a worker in the middle of a node has the packet and the numbers it loaded.

What one side does to the other is one lemma each: restd's steps make an action `Later`,
with a new version or alike, and everything above survives that (`FramesLater`,
`RunLater`, `DoneLater`); a worker's steps store only its place in the rotation, which
none of it speaks of (`TurnKept`).

`RequestsAreSound` needs, besides, that reading back a shape gives a request that is
accepted and makes the same shape (`ReadBack`): vni and port go through their bytes, the
arrays through sequences, the records of the JSON object key by key. That the divisor
computed by Euclid's algorithm divides every weight, and that the recursive functions
exist, are inductions over numbers (`EuclidExists`, `DivisorsExist`). `EncapIsSound` is the
conjunction of what a packet that left satisfies.

The invariants were checked by TLC on the runs' instances before they were
proved. Attempts at the proofs corrected the models in five places: the history `hot`
of `FlagOwned` did not see a file that `sf_load_shm` loads into a segment without a map; `WholeMeansComplete`
assumed only that fragments do not overlap, which is not enough when one lies behind the
last; two CASE expressions of the decoders and of the actions had guards that overlap,
so that TLA+ does not say which arm is meant (the code's order is now written out);
the number of ports that the start of the ports publishes had no type; and the set of
all packets of `Actions` was a UNION and a \cup without parentheses, which two parsers
read in two ways.

## 5. What is only model-checked

* Liveness (`SyncSettles`, `AllFire`, `CachedIsSent`, `RequestsTaken`,
  `LockReleased`), which is out of the prover's reach, as is `ENABLED`.
* `SyncOkMeansInstalled` of `AclSync`, which relates the answer to the contents of a
  table that was built over many steps.
* `SentSound` of `PktTransport`. `ArraysInBounds` and `BlockForEveryPacket` are claimed
  for the instance of the run: that a block is there, and that the array of segments does
  not run over, depends on how many segments the ports deliver in one round, which the
  code does not check. `SentWhole` needs the sum of the lengths of the pieces, an induction
  over the pieces of every packet on top of `IInv`.
* `CountsBalance` of `PktTransport`, which compares the counters with the set of all
  packets sent.
* `PickSound` of `Actions`. `RealArrayInBounds` does not hold in general: several workers
  fill the shared array at once, and their interfaces together may be more than its row
  has, which is why the run's fit. `ChosenWasConfigured` rests on it. `NoNeedlessDrop` and
  `WeightsSound` are statements about whole turns of a rotation, sums of what many steps
  picked, and nonlinear in the weights.
* `OwnRegions` and `LinkedAfterStart` of `ShmSound`: a running VPP finds its regions in
  an old segment unless another build with the same total length made it, which
  `check_shm_main` does not tell apart (section 6); and that restd does not link during a
  load depends on the length of a file that two saves may have written together.
* `SavedSurvives` and `RoundTrip`, which compare memory, file and archive over many
  steps.

The violations are counterexamples of TLC.

## 6. Where the code does not do what it says

Two are runs of their own, with their findings in `PROJECT.json`:

* `acl_rules_hang`: freeing a slot in the middle of a hash chain leaves it linked
  (`sf_acl_hash.c:147`); used again it closes a circle, and `acl_hash_find` never
  returns.
* `transport_twice`: the block of a gathered packet for an interface that is down
  is freed by `sf_pkt_output` (`sf_pkt_output.c:162`) and again by `sf_pkt_drop`.

The following are stated as definitions of the modules and can be checked by
naming them in the configuration of the run:

* `AclSync!RulesChangeOnlyWhenIdle`: an upload rewrites ACL rules whatever the
  flag says (`rest/tapplet/sys_conf_handler.py:205`), although
  `rest/basic_handler/base_handler.py:32` says "check acl lock if is gong to
  change acl shm". "ok" may then be answered for a table that is half old.
* `AclRules!NoDuplicates` (three slots): freeing the head of a chain hides the
  rest of it (`sf_acl_hash.c:133`), so that a rule can be configured twice;
  `sf_acl_tuple_api.c:779` says "check duplicate".
* `IpReass!InfosReturned`: a timeout never gives its `timer_info` back
  (`ip_reass_on_timer.c:151`); the handler of the timer test does
  (`src/test/timer_test/test.c:373`, "free_timer_info(timer_data);").
* `IpReass!LocksReleased` with `Handoff` FALSE: a timer that is stopped while its
  handler waits for the lock makes the handler unlock bucket 0, and the other one
  stays locked (`ip_reass_on_timer.c:107`; `sf_timer.h:209` asks to "judge if the
  timer is busy first").
* `IpReass!BuiltFits` (a fragment c1 of size 4 before c2): when the last fragment
  comes first, the length is not checked (`ip4_reass.c:456`; line 350 has "total
  len too long").
* `PktTransport!NeverAllWaiting` with three workers and a `QueueLen` of 1: each hands one
  frame to the worker behind it and then spins for a slot in the queue of the one in
  front (`sf_pkt_handoff.c:383`), which the third has filled, and none of them empties
  its own queue meanwhile. With a `QueueLen` of 2 three workers that receive one frame
  each do not come to it, and two workers never do. Nothing in the code relates the
  length of the queues (the default of VPP, `sf_handoff_feature.c:120`) to the number of
  workers and of frames they may hand over before they look at their queues.
* `Actions!SequenceUnique`: two workers may take the same number of ERSPAN
  (`node_action_encap_erspan.c:214`, below "make Sequence Number unique").

Others are written into the models as the code has them, and the properties say
where they are left out:

* an atomic POST with a malformed `rule_cfg` (no dictionary, or a field of a type
  ctypes does not take: `tuple_tools.py:60-85`) raises an exception that leaves
  `update_acl_config` and is caught in the handler (`acl_handler.py:521-525`); the
  roll-back under "delete all created rule" (`acl_handler.py:316`) is skipped and
  the rules created before it stay, although the request is answered with an error;
* reassembly: `total_len` and `meet_len` are 16 bits wide (`sf_ip_reass.h:49`) and
  nothing checks that a fragment ends within them, that it is not empty, or that
  fragments do not overlap: such fragments may add up (`ip4_reass.c:374`) while bytes
  are missing. `WholeMeansComplete` is about fragments as a sender makes them;
* decoding: a header length below five words is accepted for IPv4; a packet cut in
  its VLAN tags is not marked as an error (`sf_eth_tool.h:42`); an extension
  header that ends with the packet makes it one; a complete IPv6 packet with the
  protocol 0xff is taken for one too, which is the value of `IP_PRO_INVALID`
  (`common_header.h:233`, `sf_ip6_input.c:197`), where IPv4 takes it for an unknown
  protocol; VLAN tags are counted in 8 bits (`sf_eth_tool.h:36`), so that of 256 none
  is recorded;
* the segments of a packet too long for a block are never freed
  (`sf_huge_pkt_intput.c:160`);
* three encapsulations over IPv6 need 202 of the 128 bytes in front of a packet;
  a weighted rotation of more than 64 picks may drop although an interface is up;
  interface id 0 reads `admin_status[-1]` (`sf_interface_tools.h:46`); the `inner_*`
  modes of load balancing raise a KeyError (`action_utils.py:213`);
* weights are only checked to be above 0 (`action_utils.py:226-236`) and then cut to a C
  int (`action_class.py:147`): of 2^32 nothing is left, and 2^31 becomes negative. Such an
  action is accepted and used; GET shows weights that a PATCH is refused for; the rotation
  may never find a weight that reaches `cw`, so that the worker stays in the loop of
  `action_tools.h:110-125`; and a first weight of 0 before others makes `calc_gcd` divide
  by 0 (`sf_gcd.h:9`), which ends restd;
* a worker that reads an action while `memcpy` or `memset` is at work on it
  (`action_api.c:208`) may still find the reference and get parts of two actions; only
  `ChosenWasConfigured`, `HeadersFit` and the lengths of `TunnelsWellFormed` hold then;
* hits that come between the two reads of a worker's counter are not counted
  (`acl_cli.c:63`); restd zeroes the counters whether or not VPP answered
  (`acl_handler.py:757`); for a second after a failure commands are answered without
  being sent; PATCH of all interfaces leaves out the last one
  (`interface_handler.py:864`); packets before the first tick count as errors;
* a save is answered with OK although the file is cut: `fclose`, which writes what stdio
  still holds, is not checked (`shm_utils.c:176`), and neither is the length that was
  written; nothing calls `fsync`. The file is then refused at the next load, so that VPP
  starts with the default configuration. `SyncSurvivesReboot` leaves such saves out
  (`cut`), and takes the machine to stop with its files on the disk;
* `check_shm_main` (`shm_main.c:187`) only compares the total length: a build with other
  regions of the same total length runs in the old segment, with NULL where
  `update_shm_map_map` (`shm_map.c:131`) finds no region of that name. `OwnRegions`
  leaves it out (`TakenForEqual`);
* the saved file is removed before the new one is written (`shm_utils.c:111`);
  `SAVED_CONFIG_LOAD_FINISH` is never used, so that a load cut by a crash is taken
  for complete; a broken ACL file makes an upload skip the remaining modules
  (`conf_acl.py:24`); an interface of type loopback is written as one word and read
  as another (`interface_handler.py:133` and `339`); a refused MAC address is written
  from uninitialised memory (`sf_intf_api.c:246`); restd stays linked to a segment
  that was deleted (`nshellutils.py:32`).

## 7. What is not modelled

* The contents of packets and rules: bytes, addresses, checksums, masks. The
  models only tell apart what control depends on.
* Of the DPDK plugin in `src/dpdk`, VPP's own with small changes: start-up of
  the devices, quality of service, the CLI and the format functions. Receiving, the
  tx queues and the free lists of buffers are in `PktTransport`. The libraries of
  VPP and DPDK are taken as their users take them.
* `sf_cli`, a client that keeps no state of the system, the web pages, the
  tests (`auto-test`, `src/test`), packaging and build files.
* Login and cookies of restd, GETs that only read, rates of the interfaces, the
  counters of the reassembly, tracing and logging.
* Nested reassembly, which `MAX_IP_WDATA` = 1 excludes.
* Memory ordering: the models are sequentially consistent. Tapplet runs on
  x86_64, where the stores that matter here are not reordered.
* A restd whose numbers of requests begin again after a restart, so that a late answer
  to the one before it could carry a number that it uses.
* A crash of restd in the middle of an ACL request; the code has nothing that
  would notice it afterwards.

## 8. Plan

What remains is to prove more: `DownloadIsSnapshot` of `RestConf` on top of `LInv`, since
a change needs the lock to be free, and `SentWhole` of `PktTransport` on top of `IInv`.
Compositions worth adding: `IpReass` with `SfTimer` in place of its abstract timer, and
`AclRules` under the flag of `AclSync`, so that a table is built from the maps.
