------------------------------- MODULE AclSync -------------------------------
(***************************************************************************)
(* How an ACL rule set travels from the REST server to the packet workers. *)
(*                                                                         *)
(* The rules live in shared memory.  restd edits them and asks for a sync  *)
(* by raising acl_sync_flag; the sync process of the VPP main thread       *)
(* builds a fresh rte_acl context from the rules, swaps the pointer the    *)
(* workers read, passes once through every worker's lock as a grace        *)
(* period, and frees the old context.  The shared memory (rules, flag,     *)
(* sync_lock) survives a crash of either process; the contexts do not.     *)
(*                                                                         *)
(* MAX_RULE_GROUP_CNT is 1 in this build, so there is one rule group.      *)
(***************************************************************************)
EXTENDS Integers

CONSTANTS
  NumWorkers,   \* packet workers are 0 .. NumWorkers - 1
  NumSlots,     \* MAX_TUPLE4_RULE_PER_GROUP + MAX_TUPLE6_RULE_PER_GROUP
  MaxVal,       \* rule contents are 1 .. MaxVal; 0 is an unmapped slot
  Ctx,          \* addresses rte_acl_create can return
  NULL,
  TimesMod,     \* acl_sync_times is kept modulo this (2^31 in the code)
  LoadsOnce,    \* TRUE: the build loads v46_context once per frame (-O3)
  MaxUploads,   \* bound: configuration uploads in a behaviour
  MaxCrashes    \* bound: crashes of VPP and of restd in a behaviour

ASSUME AclSyncAssumption ==
  /\ NumWorkers \in Nat
  /\ NumSlots \in Nat \ {0}
  /\ MaxVal \in Nat \ {0}
  /\ NULL \notin Ctx
  /\ TimesMod \in Nat \ {0}
  /\ LoadsOnce \in BOOLEAN
  /\ MaxUploads \in Nat
  /\ MaxCrashes \in Nat

VARIABLES
  \* shared memory
  acl_sync_flag, acl_sync_times, rules, sync_lock,
  \* restd: the acl_rule_sync thread and the upload (executor) thread
  syncThread, loader,
  \* VPP main thread inside sync_all_rules
  pc, si, gi, newCtx, oldCtx, syncRet,
  \* sf_acl_main, pre_table_name_model, and the contexts DPDK knows
  v46_context, nameModel, ctxName, content,
  \* acl_sync_locks and the workers inside sf_acl_entry
  lock, wpc, wctx,
  \* bounds
  uploads, crashes

shmVars    == <<acl_sync_flag, acl_sync_times, rules, sync_lock>>
restVars   == <<syncThread, loader>>
mainVars   == <<pc, si, gi, newCtx, oldCtx, syncRet>>
tableVars  == <<v46_context, nameModel, ctxName, content>>
workerVars == <<wpc, wctx>>
boundVars  == <<uploads, crashes>>
vars == <<shmVars, restVars, mainVars, tableVars, lock, workerVars, boundVars>>

-----------------------------------------------------------------------------
ACL_STILL_SYNC   == 3
ACL_NEED_SYNC    == 2
ACL_PREPARE_SYNC == 1
ACL_SYNC_OK      == 0
ACL_SYNC_FAILED  == -2
SyncFlags == {ACL_STILL_SYNC, ACL_NEED_SYNC, ACL_PREPARE_SYNC,
              ACL_SYNC_OK, ACL_SYNC_FAILED}

Workers  == 0 .. NumWorkers - 1
Slots    == 1 .. NumSlots
Vals     == 0 .. MaxVal
RuleSets == [Slots -> Vals]
NoRules  == [s \in Slots |-> 0]

\* Owners of a worker's spinlock
Unlocked == "unlocked"
Worker   == "worker"
Main     == "main"

\* A context DPDK does not know, never created or freed; what the memory of a
\* freed context holds is taken to be no rules.
Freed == -1

MainPCs   == {"wait", "create", "add", "build", "swap", "grace", "unlock",
              "retire", "finish"}
WorkerPCs == {"idle", "locked", "checked", "classify", "dispatch"}

\* The rules a context answers for; a NULL context matches nothing.
RulesOf(c) == IF c = NULL THEN NoRules ELSE content[c]

\* Contexts that DPDK's list holds under name model n
Named(n) == {c \in Ctx : ctxName[c] = n}

Init ==
  /\ acl_sync_flag = ACL_SYNC_OK
  /\ acl_sync_times = 0
  /\ rules = NoRules
  /\ sync_lock = 0
  /\ syncThread = "none"
  /\ loader = "none"
  /\ pc = "wait" /\ si = 1 /\ gi = 0
  /\ newCtx = NULL /\ oldCtx = NULL /\ syncRet = 0
  /\ v46_context = NULL
  /\ nameModel = 0
  /\ ctxName = [c \in Ctx |-> Freed]
  /\ content = [c \in Ctx |-> NoRules]
  /\ lock = [w \in Workers |-> Unlocked]
  /\ wpc = [w \in Workers |-> "idle"]
  /\ wctx = [w \in Workers |-> NULL]
  /\ uploads = 0 /\ crashes = 0

-----------------------------------------------------------------------------
(* restd.  Requests run one at a time on the tornado thread and do not     *)
(* yield, so a handler is one step; prepare() has refused it first when    *)
(* the shared memory lock is taken or, for /acl, when a sync is under way. *)

RequestAllowed == sync_lock = 0

AclRequestAllowed == RequestAllowed /\ acl_sync_flag <= 0

\* Mutant: an early return leaves the shared memory locked.
unlock_shm_mem_Forgotten == UNCHANGED sync_lock
unlock_shm_mem == sync_lock' = 0

\* POST, PUT or DELETE on /acl/config: one slot gets a rule or loses it.
AclConfig(s, v) ==
  /\ AclRequestAllowed
  /\ rules' = [rules EXCEPT ![s] = v]
  /\ UNCHANGED <<acl_sync_flag, acl_sync_times, sync_lock, restVars, mainVars,
                 tableVars, lock, workerVars, boundVars>>

\* PATCH /acl/sync
AclSyncPatch ==
  /\ AclRequestAllowed
  /\ acl_sync_flag' = ACL_PREPARE_SYNC
  /\ syncThread' = "running"
  /\ UNCHANGED <<acl_sync_times, rules, sync_lock, loader, mainVars, tableVars,
                 lock, workerVars, boundVars>>

\* The thread that AclSyncPatch started
AclRuleSync ==
  /\ syncThread = "running"
  /\ acl_sync_flag' = IF acl_sync_flag # ACL_STILL_SYNC
                      THEN ACL_NEED_SYNC ELSE ACL_SYNC_FAILED
  /\ syncThread' = "none"
  /\ UNCHANGED <<acl_sync_times, rules, sync_lock, loader, mainVars, tableVars,
                 lock, workerVars, boundVars>>

\* PATCH /system/config: reset everything; the ACL part keeps flag and times.
ResetAllConfig ==
  /\ RequestAllowed
  /\ acl_sync_flag <= 0
  /\ rules' = NoRules
  /\ UNCHANGED <<acl_sync_flag, acl_sync_times, sync_lock, restVars, mainVars,
                 tableVars, lock, workerVars, boundVars>>

\* POST /system/config: takes sync_lock, loads on another thread, releases.
UploadStart ==
  /\ RequestAllowed
  /\ uploads < MaxUploads
  /\ sync_lock' = 1
  /\ loader' = "running"
  /\ uploads' = uploads + 1
  /\ UNCHANGED <<acl_sync_flag, acl_sync_times, rules, syncThread, mainVars,
                 tableVars, lock, workerVars, crashes>>

UploadRule(s, v) ==
  /\ loader = "running"
  /\ rules' = [rules EXCEPT ![s] = v]
  /\ UNCHANGED <<acl_sync_flag, acl_sync_times, sync_lock, restVars, mainVars,
                 tableVars, lock, workerVars, boundVars>>

UploadEnd ==
  /\ loader = "running"
  /\ loader' = "none"
  /\ unlock_shm_mem
  /\ UNCHANGED <<acl_sync_flag, acl_sync_times, rules, syncThread, mainVars,
                 tableVars, lock, workerVars, boundVars>>

\* restd dies and is started again: its threads are gone, shared memory stays.
RestCrash ==
  /\ crashes < MaxCrashes
  /\ syncThread' = "none"
  /\ loader' = "none"
  /\ crashes' = crashes + 1
  /\ UNCHANGED <<shmVars, mainVars, tableVars, lock, workerVars, uploads>>

-----------------------------------------------------------------------------
(* The sync process of the VPP main thread                                 *)

\* Mutant: a sync cut short by a crash is not noticed.
StillLeftOver_Ignored == FALSE
StillLeftOver == acl_sync_flag = ACL_STILL_SYNC

\* It wakes every two seconds; a leftover STILL means VPP died in a sync.
SyncProcessWake ==
  /\ pc = "wait"
  /\ \/ /\ StillLeftOver
        /\ acl_sync_flag' = ACL_SYNC_FAILED
        /\ pc' = pc
     \/ /\ acl_sync_flag = ACL_NEED_SYNC
        /\ acl_sync_flag' = ACL_STILL_SYNC
        /\ pc' = "create"
  /\ UNCHANGED <<acl_sync_times, rules, sync_lock, restVars, si, gi, newCtx,
                 oldCtx, syncRet, tableVars, lock, workerVars, boundVars>>

\* rte_acl_create: returns the context that already has this name, if any.
Creatable == IF Named(nameModel) # {} THEN Named(nameModel) ELSE Named(Freed)

TableCreate(c) ==
  /\ pc = "create"
  /\ c \in Creatable
  /\ ctxName' = [ctxName EXCEPT ![c] = nameModel]
  /\ newCtx' = c
  /\ pc' = "add"
  /\ UNCHANGED <<shmVars, restVars, si, gi, oldCtx, syncRet, v46_context,
                 nameModel, content, lock, workerVars, boundVars>>

\* Mutant: the loop leaves out the last slot.
TableAddRule_Short ==
  /\ pc = "add"
  /\ content' = IF rules[si] # 0 /\ si < NumSlots
                THEN [content EXCEPT ![newCtx] = [@ EXCEPT ![si] = rules[si]]]
                ELSE content
  /\ IF si = NumSlots THEN pc' = "build" /\ si' = 1
                      ELSE pc' = pc /\ si' = si + 1
  /\ UNCHANGED <<shmVars, restVars, gi, newCtx, oldCtx, syncRet, v46_context,
                 nameModel, ctxName, lock, workerVars, boundVars>>
\* One turn of the loop over the rule slots
TableAddRule ==
  /\ pc = "add"
  /\ content' = IF rules[si] # 0
                THEN [content EXCEPT ![newCtx] = [@ EXCEPT ![si] = rules[si]]]
                ELSE content
  /\ IF si = NumSlots THEN pc' = "build" /\ si' = 1
                      ELSE pc' = pc /\ si' = si + 1
  /\ UNCHANGED <<shmVars, restVars, gi, newCtx, oldCtx, syncRet, v46_context,
                 nameModel, ctxName, lock, workerVars, boundVars>>

\* rte_acl_table_free; NULL is accepted and nothing happens.
TableFree(c) ==
  IF c = NULL THEN UNCHANGED <<ctxName, content>>
  ELSE /\ ctxName' = [ctxName EXCEPT ![c] = Freed]
       /\ content' = [content EXCEPT ![c] = NoRules]

\* No rule was added: the context is freed and NULL is installed instead.
TableBuild ==
  /\ pc = "build"
  /\ IF content[newCtx] = NoRules
     THEN TableFree(newCtx) /\ newCtx' = NULL
     ELSE UNCHANGED <<ctxName, content, newCtx>>
  /\ pc' = "swap"
  /\ UNCHANGED <<shmVars, restVars, si, gi, oldCtx, syncRet, v46_context,
                 nameModel, lock, workerVars, boundVars>>

\* setup_on_error: create, add or build failed; nothing is swapped.
TableSetupFail ==
  /\ pc \in {"create", "add", "build"}
  /\ TableFree(newCtx)
  /\ newCtx' = NULL
  /\ si' = 1
  /\ syncRet' = -1
  /\ pc' = "finish"
  /\ UNCHANGED <<shmVars, restVars, gi, oldCtx, v46_context, nameModel,
                 lock, workerVars, boundVars>>

\* Mutant: the old table is freed without waiting for the workers.
AfterSwap_NoGrace == "retire"
AfterSwap == IF NumWorkers = 0 THEN "retire" ELSE "grace"

TableSwap ==
  /\ pc = "swap"
  /\ oldCtx' = v46_context
  /\ v46_context' = newCtx
  /\ pc' = AfterSwap
  /\ UNCHANGED <<shmVars, restVars, si, gi, newCtx, syncRet, nameModel,
                 ctxName, content, lock, workerVars, boundVars>>

\* sf_rte_table_sync: lock and unlock each worker's lock in turn.
GraceLock ==
  /\ pc = "grace"
  /\ lock[gi] = Unlocked
  /\ lock' = [lock EXCEPT ![gi] = Main]
  /\ pc' = "unlock"
  /\ UNCHANGED <<shmVars, restVars, si, gi, newCtx, oldCtx, syncRet,
                 tableVars, workerVars, boundVars>>

LastWorker == NumWorkers - 1

GraceUnlock ==
  /\ pc = "unlock"
  /\ lock' = [lock EXCEPT ![gi] = Unlocked]
  /\ IF gi = LastWorker THEN pc' = "retire" /\ gi' = 0
                        ELSE pc' = "grace" /\ gi' = gi + 1
  /\ UNCHANGED <<shmVars, restVars, si, newCtx, oldCtx, syncRet, tableVars,
                 workerVars, boundVars>>

FlipName == IF newCtx # NULL THEN 1 - nameModel ELSE nameModel

\* The name model flips when a context was installed; the old one is freed.
TableRetire ==
  /\ pc = "retire"
  /\ nameModel' = FlipName
  /\ TableFree(oldCtx)
  /\ oldCtx' = NULL
  /\ newCtx' = NULL
  /\ pc' = "finish"
  /\ UNCHANGED <<shmVars, restVars, si, gi, syncRet, v46_context, lock,
                 workerVars, boundVars>>

TimesIncrement == (acl_sync_times + 1) % TimesMod

SyncFinish ==
  /\ pc = "finish"
  /\ IF syncRet # 0
     THEN /\ acl_sync_flag' = ACL_SYNC_FAILED
          /\ UNCHANGED acl_sync_times
     ELSE /\ acl_sync_flag' = ACL_SYNC_OK
          /\ acl_sync_times' = TimesIncrement
  /\ syncRet' = 0
  /\ pc' = "wait"
  /\ UNCHANGED <<rules, sync_lock, restVars, si, gi, newCtx, oldCtx,
                 tableVars, lock, workerVars, boundVars>>

-----------------------------------------------------------------------------
(* A worker in sf_acl_entry: one frame under its own lock                  *)

WorkerLock(w) ==
  /\ wpc[w] = "idle"
  /\ lock[w] = Unlocked
  /\ lock' = [lock EXCEPT ![w] = Worker]
  /\ wpc' = [wpc EXCEPT ![w] = "locked"]
  /\ UNCHANGED <<shmVars, restVars, mainVars, tableVars, wctx, boundVars>>

\* if (sf_acl_main.v46_context[0] != NULL)
WorkerCheck(w) ==
  /\ wpc[w] = "locked"
  /\ wpc' = [wpc EXCEPT ![w] = IF v46_context = NULL THEN "dispatch"
                               ELSE "checked"]
  /\ wctx' = [wctx EXCEPT ![w] = v46_context]
  /\ UNCHANGED <<shmVars, restVars, mainVars, tableVars, lock, boundVars>>

\* Mutant: the pointer is read again after the check, unless it is NULL by then.
ClassifyArg_Again(w) == IF v46_context # NULL THEN v46_context ELSE wctx[w]
\* The argument of rte_acl_classify: a build without optimisation loads the
\* shared pointer a second time.
ClassifyArg(w) == IF LoadsOnce THEN wctx[w] ELSE v46_context

WorkerLoad(w) ==
  /\ wpc[w] = "checked"
  /\ wpc' = [wpc EXCEPT ![w] = "classify"]
  /\ wctx' = [wctx EXCEPT ![w] = ClassifyArg(w)]
  /\ UNCHANGED <<shmVars, restVars, mainVars, tableVars, lock, boundVars>>

WorkerClassified(w) ==
  /\ wpc[w] = "classify"
  /\ wpc' = [wpc EXCEPT ![w] = "dispatch"]
  /\ wctx' = [wctx EXCEPT ![w] = NULL]
  /\ UNCHANGED <<shmVars, restVars, mainVars, tableVars, lock, boundVars>>

WorkerUnlock(w) ==
  /\ wpc[w] = "dispatch"
  /\ wpc' = [wpc EXCEPT ![w] = "idle"]
  /\ lock' = [lock EXCEPT ![w] = Unlocked]
  /\ UNCHANGED <<shmVars, restVars, mainVars, tableVars, wctx, boundVars>>

\* VPP dies and is started again: it links the shared memory it finds.
VppCrash ==
  /\ crashes < MaxCrashes
  /\ pc' = "wait" /\ si' = 1 /\ gi' = 0
  /\ newCtx' = NULL /\ oldCtx' = NULL /\ syncRet' = 0
  /\ v46_context' = NULL
  /\ nameModel' = 0
  /\ ctxName' = [c \in Ctx |-> Freed]
  /\ content' = [c \in Ctx |-> NoRules]
  /\ lock' = [w \in Workers |-> Unlocked]
  /\ wpc' = [w \in Workers |-> "idle"]
  /\ wctx' = [w \in Workers |-> NULL]
  /\ crashes' = crashes + 1
  /\ UNCHANGED <<shmVars, restVars, uploads>>

-----------------------------------------------------------------------------
RestNext ==
  \/ \E s \in Slots, v \in Vals : AclConfig(s, v)
  \/ AclSyncPatch
  \/ AclRuleSync
  \/ ResetAllConfig
  \/ UploadStart
  \/ \E s \in Slots, v \in Vals : UploadRule(s, v)
  \/ UploadEnd
  \/ RestCrash

MainNext ==
  \/ SyncProcessWake
  \/ \E c \in Ctx : TableCreate(c)
  \/ TableAddRule
  \/ TableBuild
  \/ TableSetupFail
  \/ TableSwap
  \/ GraceLock
  \/ GraceUnlock
  \/ TableRetire
  \/ SyncFinish

WorkerNext(w) ==
  \/ WorkerLock(w)
  \/ WorkerCheck(w)
  \/ WorkerLoad(w)
  \/ WorkerClassified(w)
  \/ WorkerUnlock(w)

Next ==
  \/ RestNext
  \/ MainNext
  \/ VppCrash
  \/ \E w \in Workers : WorkerNext(w)

Spec == Init /\ [][Next]_vars

\* Scheduling: the process and the threads run when they can.  The main thread
\* spins on a lock that a worker frees between frames, hence strong fairness.
Fairness ==
  /\ WF_vars(AclRuleSync)
  /\ WF_vars(MainNext)
  /\ SF_vars(GraceLock)
  /\ \A w \in Workers : WF_vars(WorkerNext(w))

FairSpec == Spec /\ Fairness

-----------------------------------------------------------------------------
(* Properties                                                              *)

\* Type invariant: every variable keeps the range the C types give it.
TypeOK ==
  /\ acl_sync_flag \in SyncFlags
  /\ acl_sync_times \in 0 .. TimesMod - 1
  /\ rules \in RuleSets
  /\ sync_lock \in {0, 1}
  /\ syncThread \in {"none", "running"} /\ loader \in {"none", "running"}
  /\ pc \in MainPCs
  /\ si \in Slots
  /\ gi \in Nat
  /\ newCtx \in Ctx \cup {NULL} /\ oldCtx \in Ctx \cup {NULL}
  /\ syncRet \in {0, -1}
  /\ v46_context \in Ctx \cup {NULL}
  /\ nameModel \in {0, 1}
  /\ ctxName \in [Ctx -> {0, 1, Freed}]
  /\ content \in [Ctx -> RuleSets]
  /\ lock \in [Workers -> {Unlocked, Worker, Main}]
  /\ wpc \in [Workers -> WorkerPCs]
  /\ wctx \in [Workers -> Ctx \cup {NULL}]
  /\ uploads \in 0 .. MaxUploads
  /\ crashes \in 0 .. MaxCrashes

\* The context a worker has read for its frame is not freed under it: the pass
\* through the worker locks in sf_rte_table_sync is a grace period.
NoUseAfterFree ==
  \A w \in Workers : wctx[w] # NULL => ctxName[wctx[w]] # Freed

\* A context under construction is never the one in use: rte_acl_create would
\* hand out the live context if the alternating table name were already taken.
BuildIsPrivate ==
  pc \in {"add", "build"} =>
    /\ newCtx # v46_context
    /\ \A w \in Workers : wctx[w] # newCtx

\* Between syncs DPDK holds the live context and nothing else, whichever way
\* the last sync ended, so that a long run of syncs leaks no table.
NoContextLeak ==
  pc = "wait" => {c \in Ctx : ctxName[c] # Freed} = {v46_context} \ {NULL}

\* rte_acl_classify is not called with NULL: the NULL check in sf_acl_entry
\* and the call see one value of the pointer (builds that load it once).
ClassifyNotNull ==
  LoadsOnce => \A w \in Workers : wpc[w] = "classify" => wctx[w] # NULL

\* While sync_rte_tuple_rules runs the flag says so, and so refuses requests.
FlagGuardsSync ==
  pc # "wait" => acl_sync_flag = ACL_STILL_SYNC /\ syncThread = "none"

\* restd died between raising PREPARE and the thread turning it into NEED
Stranded == acl_sync_flag = ACL_PREPARE_SYNC /\ syncThread = "none"

\* A flag or a lock that nobody will lower again needs a crash of restd.
OnlyCrashStrands ==
  Stranded \/ (sync_lock = 1 /\ loader = "none") => crashes > 0

\* Whatever syncs, uploads and crashes interleave, no frame is classified with a
\* freed, half built or missing table, and no table is left behind.
TablesSafe == NoUseAfterFree /\ BuildIsPrivate /\ NoContextLeak /\ ClassifyNotNull

\* The flag and the lock in shared memory always have an owner that will lower
\* them, on whichever side of the shared memory, unless restd died.
FlagSound == TypeOK /\ FlagGuardsSync /\ OnlyCrashStrands

\* "sync ok" is reported only when the workers' table holds exactly the rules
\* that shared memory holds at that moment, as long as no configuration was uploaded
\* (an upload does not look at the flag: RulesChangeOnlyWhenIdle).
SyncOkMeansInstalled ==
  [][pc = "finish" /\ acl_sync_flag' = ACL_SYNC_OK /\ uploads = 0
       => RulesOf(v46_context) = rules]_vars

\* The rules are changed only when no sync is requested or under way, as the
\* check in BaseHandler.prepare intends.  The code does not keep to it: an upload
\* (UploadRule) changes them whatever the flag says.
RulesChangeOnlyWhenIdle == [][rules' # rules => acl_sync_flag <= 0]_vars

\* Every requested sync is answered with "ok" or "failed", unless restd died
\* in the instant between the two flag values it writes.
SyncSettles == acl_sync_flag > 0 ~> (acl_sync_flag <= 0 \/ Stranded)
-----------------------------------------------------------------------------
(* The inductive invariant behind the safety properties                    *)

Swapped == {"grace", "unlock", "retire"}

\* The main thread is past worker w in its pass through the locks.
Passed(w) ==
  \/ pc = "retire"
  \/ pc = "grace" /\ w < gi
  \/ pc = "unlock" /\ w <= gi

\* Where the main thread is tells which of its local pointers are set.
MainInv ==
  /\ IF pc \in {"grace", "unlock"} THEN gi \in Workers ELSE gi = 0
  /\ pc \in {"add", "build"} => newCtx # NULL
  /\ newCtx # NULL => pc \in {"add", "build", "swap"} \cup Swapped
  /\ oldCtx # NULL => pc \in Swapped

\* A worker inside a frame holds its lock; the main thread holds one at most.
LockInv ==
  \A w \in Workers :
    /\ lock[w] = Worker <=> wpc[w] # "idle"
    /\ lock[w] = Main <=> (pc = "unlock" /\ gi = w)

\* DPDK holds the live, the new and the old context, and the two name models
\* keep the new one apart from the other two.
NameInv ==
  /\ \A c \in Ctx : ctxName[c] # Freed <=> c \in {v46_context, newCtx, oldCtx}
  /\ newCtx # NULL => ctxName[newCtx] = nameModel
  /\ oldCtx # NULL => ctxName[oldCtx] = 1 - nameModel
  /\ pc \in Swapped => v46_context = newCtx
  /\ pc \notin Swapped /\ v46_context # NULL
       => ctxName[v46_context] = 1 - nameModel

\* A worker's context is the live or the old one, and the live one once the
\* main thread has passed that worker's lock; a build that loads it once has one.
WorkerInv ==
  \A w \in Workers :
    /\ wctx[w] # NULL =>
         /\ wpc[w] \in {"checked", "classify"}
         /\ wctx[w] \in {v46_context, oldCtx}
         /\ Passed(w) => wctx[w] = v46_context
    /\ LoadsOnce /\ wpc[w] \in {"checked", "classify"} => wctx[w] # NULL

\* The flag and the rest thread agree about who is responsible for a sync.
FlagInv ==
  /\ pc # "wait" => acl_sync_flag = ACL_STILL_SYNC
  /\ syncThread = "running" => acl_sync_flag = ACL_PREPARE_SYNC
  /\ loader = "running" => sync_lock = 1
  /\ OnlyCrashStrands

IInv == TypeOK /\ MainInv /\ LockInv /\ NameInv /\ WorkerInv /\ FlagInv
=============================================================================
