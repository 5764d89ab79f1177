------------------------------ MODULE AclRules -------------------------------
(***************************************************************************)
(* The ACL rules that restd keeps in shared memory.                        *)
(*                                                                         *)
(* The rules a client names (outer ids) are mapped to the slots of two     *)
(* tables, one for each address family, that hold the rules' contents.     *)
(* A bitmap says which slots are used; a hash table of chained slots finds *)
(* the slot with given contents, so that no rule is configured twice.      *)
(*                                                                         *)
(* restd handles one request at a time.  A request for one rule is a step; *)
(* an atomic POST of several rules takes one step for each of them.        *)
(***************************************************************************)
EXTENDS Integers, FiniteSets

CONSTANTS
  MAX_RULE,        \* MAX_RULE_PER_GROUP, the outer rule ids
  MAX_TUPLE,       \* MAX_TUPLE4_RULE_PER_GROUP = MAX_TUPLE6_RULE_PER_GROUP
  Cfg,             \* valid contents of rules
  Family,          \* address families (rule types)
  FamilyOf,        \* is_ipv6 of a rule
  BucketOf,        \* hash of a rule's contents
  CNT_MAX,         \* 0xFF, where node_cnt sticks
  NONE, Hang

Outer   == 1 .. MAX_RULE
Actual  == 1 .. MAX_TUPLE
Buckets == {BucketOf[c] : c \in Cfg}

ASSUME AclRulesAssumption ==
  /\ MAX_RULE \in Nat \ {0} /\ MAX_TUPLE \in Nat \ {0}
  /\ CNT_MAX \in Nat \ {0}
  /\ FamilyOf \in [Cfg -> Family]
  /\ BucketOf \in [Cfg -> Buckets]
  /\ NONE \notin Cfg /\ NONE \notin [type : Family, actual : Actual]
  /\ Hang \notin Int

VARIABLES
  rule_map,     \* of each outer id: NONE, or rule_type and actual_rule_id
  rule_cfg,     \* contents of the slots
  map_rule,     \* outer id a slot is mapped to, or 0
  bitmap,       \* used slots
  hash,         \* buckets (head, node_cnt) and links (next, prev) of the slots
  post,         \* an atomic POST in progress
  hung          \* restd is in a loop that does not end

tables == <<rule_map, rule_cfg, map_rule, bitmap, hash>>
ruleVars   == <<tables, post, hung>>

EmptyHash == [head |-> [b \in Buckets |-> 0], node_cnt |-> [b \in Buckets |-> 0],
              next |-> [a \in Actual |-> 0], prev |-> [a \in Actual |-> 0]]

\* The rule that an outer id stands for
RuleAt(o) ==
  IF rule_map[o] = NONE THEN NONE
  ELSE rule_cfg[rule_map[o].type][rule_map[o].actual]
Rules == [o \in Outer |-> RuleAt(o)]

NoPost == [phase |-> "idle", created |-> {}, before |-> NONE]

\* The shared memory is zeroed.
Zeroed ==
  [rule_map |-> [o \in Outer |-> NONE],
   rule_cfg |-> [f \in Family |-> [a \in Actual |-> NONE]],
   map_rule |-> [f \in Family |-> [a \in Actual |-> 0]],
   bitmap   |-> [f \in Family |-> {}],
   hash     |-> [f \in Family |-> EmptyHash]]

RulesInit ==
  /\ rule_map = Zeroed.rule_map /\ rule_cfg = Zeroed.rule_cfg
  /\ map_rule = Zeroed.map_rule /\ bitmap = Zeroed.bitmap
  /\ hash = Zeroed.hash
  /\ post = NoPost
  /\ hung = FALSE

-----------------------------------------------------------------------------
(* The hash table: sf_acl_hash.c                                           *)

Least(S) == CHOOSE k \in S : \A j \in S : k <= j

\* The k-th slot of the chain of bucket b
Chain(f, b) ==
  LET at[k \in 0 .. MAX_TUPLE] ==
        IF k = 0 THEN hash[f].head[b]
        ELSE IF at[k - 1] = 0 THEN 0 ELSE hash[f].next[at[k - 1]]
  IN at

\* The places in the chain where contents c are found
Hits(c) ==
  {k \in 0 .. MAX_TUPLE :
     LET a == Chain(FamilyOf[c], BucketOf[c])[k]
     IN a \in Actual /\ rule_cfg[FamilyOf[c]][a] = c}

\* acl_hash_find: the first slot with contents c, or 0; a chain that runs in a
\* circle without it is followed for ever.
acl_hash_find(c) ==
  LET at == Chain(FamilyOf[c], BucketOf[c])
  IN IF hash[FamilyOf[c]].node_cnt[BucketOf[c]] = 0 THEN 0
     ELSE IF Hits(c) # {} THEN at[Least(Hits(c))]
     ELSE IF at[MAX_TUPLE] = 0 THEN 0 ELSE Hang

CntAfterInsert(n) == IF n = CNT_MAX THEN n ELSE n + 1

\* acl_hash_insert: at the head of the chain
acl_hash_insert(h, b, a) ==
  LET first == h.head[b]
      prev0 == [h.prev EXCEPT ![a] = 0]
  IN [head     |-> [h.head EXCEPT ![b] = a],
      node_cnt |-> [h.node_cnt EXCEPT ![b] = CntAfterInsert(@)],
      next     |-> [h.next EXCEPT ![a] = first],
      prev     |-> IF first = 0 THEN prev0 ELSE [prev0 EXCEPT ![first] = a]]

\* Mutant: the count of the bucket is not brought down.
CntAfterFree_Kept(n) == n
CntAfterFree(n) == IF n = CNT_MAX THEN n ELSE n - 1

\* acl_hash_free, which reads hash_prev where hash_next is meant (133, 137,
\* 147): hash_rule_next is hash_rule_prev, and no hash_next is written.
acl_hash_free(h, b, a) ==
  LET p     == h.prev[a]
      prev0 == [h.prev EXCEPT ![a] = 0]
  IN [head     |-> IF p = 0 THEN [h.head EXCEPT ![b] = 0] ELSE h.head,
      node_cnt |-> [h.node_cnt EXCEPT ![b] = CntAfterFree(@)],
      next     |-> h.next,
      prev     |-> IF p = 0 THEN prev0 ELSE [prev0 EXCEPT ![p] = p]]

-----------------------------------------------------------------------------
(* Deleting and mapping a rule                                             *)

\* Mutant: the bitmap is not looked at.
Unused_Any(f) == Actual
Unused(f) == Actual \ bitmap[f]

\* tuple_bitmap_get_first_unused
FirstUnused(f) == IF Unused(f) = {} THEN 0 ELSE Least(Unused(f))

\* The tables after acl_delete_old_map and tuple_delete_old_map: nothing but
\* rule_map is touched when the outer id has no rule.
\* Mutant: the slot stays marked as used.
BitmapWithout_Kept(o) == bitmap
BitmapWithout(o) ==
  IF rule_map[o] = NONE THEN bitmap
  ELSE [bitmap EXCEPT ![rule_map[o].type] = @ \ {rule_map[o].actual}]

MapRuleWithout(o) ==
  IF rule_map[o] = NONE THEN map_rule
  ELSE [map_rule EXCEPT ![rule_map[o].type][rule_map[o].actual] = 0]

HashWithout(o) ==
  IF rule_map[o] = NONE THEN hash
  ELSE LET f == rule_map[o].type
           a == rule_map[o].actual
       IN [hash EXCEPT ![f] = acl_hash_free(@, BucketOf[rule_cfg[f][a]], a)]

DeleteRule(o) ==
  /\ rule_map' = [rule_map EXCEPT ![o] = NONE]
  /\ map_rule' = MapRuleWithout(o)
  /\ bitmap' = BitmapWithout(o)
  /\ hash' = HashWithout(o)
  /\ UNCHANGED rule_cfg

\* Map outer id o to slot a with contents c; what o was mapped to is deleted.
InstallRule(o, c, a) ==
  LET f == FamilyOf[c]
  IN /\ rule_cfg' = [rule_cfg EXCEPT ![f][a] = c]
     /\ rule_map' = [rule_map EXCEPT ![o] = [type |-> f, actual |-> a]]
     /\ map_rule' = [MapRuleWithout(o) EXCEPT ![f][a] = o]
     /\ bitmap' = [BitmapWithout(o) EXCEPT ![f] = @ \cup {a}]
     /\ hash' = [HashWithout(o) EXCEPT ![f] =
                   acl_hash_insert(@, BucketOf[c], a)]

\* tuple_try_map_new_rule, by its answer.  A slot with the same contents that
\* no outer id is mapped to is taken again.
Slot(c) == IF acl_hash_find(c) = 0 THEN FirstUnused(FamilyOf[c])
           ELSE acl_hash_find(c)

Answer(o, c, check_old) ==
  IF check_old /\ rule_map[o] # NONE THEN "old rule exist"
  ELSE IF acl_hash_find(c) = Hang THEN "hang"
  ELSE IF Slot(c) = 0 THEN "rule full"
  ELSE IF acl_hash_find(c) = 0 \/ map_rule[FamilyOf[c]][Slot(c)] = 0 THEN "new"
  ELSE IF map_rule[FamilyOf[c]][Slot(c)] = o THEN "same"
  ELSE "duplicate rule"

TryMap(o, c, check_old) ==
  \/ /\ Answer(o, c, check_old) = "new"
     /\ InstallRule(o, c, Slot(c))
     /\ UNCHANGED hung
  \/ /\ Answer(o, c, check_old) = "hang"
     /\ hung' = TRUE
     /\ UNCHANGED tables

-----------------------------------------------------------------------------
(* Requests                                                                *)

Free == post = NoPost /\ ~hung

\* PUT replaces the rule, POST refuses to; one rule of a request that is not
\* atomic.  A refused rule, or one that is there already, changes nothing.
Put(o, c) == Free /\ TryMap(o, c, FALSE) /\ UNCHANGED post

Post(o, c) == Free /\ TryMap(o, c, TRUE) /\ UNCHANGED post

\* DELETE of an outer id without a rule is answered OK too.
Delete(o) ==
  /\ Free
  /\ rule_map[o] # NONE
  /\ DeleteRule(o)
  /\ UNCHANGED <<post, hung>>

\* PATCH of the configuration: the ACL memory is zeroed, unless the flag that
\* AclSync models says that a synchronisation is under way.
Reset ==
  /\ Free
  /\ rule_map' = Zeroed.rule_map /\ rule_cfg' = Zeroed.rule_cfg
  /\ map_rule' = Zeroed.map_rule /\ bitmap' = Zeroed.bitmap
  /\ hash' = Zeroed.hash
  /\ UNCHANGED <<post, hung>>

\* update_acl_config with atomic_op, one step for each rule of the request
PostAtomic ==
  /\ Free
  /\ post' = [phase |-> "apply", created |-> {}, before |-> Rules]
  /\ UNCHANGED <<tables, hung>>

PostAtomicRule(o, c) ==
  /\ post.phase = "apply" /\ ~hung
  /\ TryMap(o, c, TRUE)
  /\ post' = IF hung' THEN post ELSE [post EXCEPT !.created = @ \cup {o}]

\* Mutant: the rules are left as they are.
ToRollBack_None == {}
ToRollBack == post.created

\* The first rule, or group, that is refused with an answer ends it: what was
\* created is deleted.  Invalid ids and contents are refused as well, so this is
\* possible at any time.
PostAtomicRefused ==
  /\ post.phase = "apply" /\ ~hung
  /\ post' = [post EXCEPT !.phase = "rollback", !.created = ToRollBack]
  /\ UNCHANGED <<tables, hung>>

\* A rule_cfg that is no dictionary, or has fields of other types than those
\* that are expected, raises an exception.  Nothing catches it before the
\* handler, which only answers: what was created stays.
PostAtomicRaised ==
  /\ post.phase = "apply" /\ ~hung
  /\ post' = [post EXCEPT !.phase = "raised"]
  /\ UNCHANGED <<tables, hung>>

PostAtomicRollBack(o) ==
  /\ post.phase = "rollback"
  /\ o \in post.created
  /\ DeleteRule(o)
  /\ post' = [post EXCEPT !.created = @ \ {o}]
  /\ UNCHANGED hung

\* The end of the request's rules, or of the ones to delete, or the exception's
\* answer
PostAtomicEnd ==
  /\ \/ post.phase = "apply" /\ ~hung
     \/ post.phase = "rollback" /\ post.created = {}
     \/ post.phase = "raised"
  /\ post' = NoPost
  /\ UNCHANGED <<tables, hung>>

RulesNext ==
  \/ \E o \in Outer, c \in Cfg : Put(o, c) \/ Post(o, c) \/ PostAtomicRule(o, c)
  \/ \E o \in Outer : Delete(o) \/ PostAtomicRollBack(o)
  \/ Reset
  \/ PostAtomic
  \/ PostAtomicRefused
  \/ PostAtomicRaised
  \/ PostAtomicEnd

RulesSpec == RulesInit /\ [][RulesNext]_ruleVars

-----------------------------------------------------------------------------
(* Properties                                                              *)

Links == 0 .. MAX_TUPLE

\* Every index in the shared tables is a slot, an outer id or 0, and node_cnt
\* keeps to its eight bits (it does not run below 0).
RulesTypeOK ==
  /\ rule_map \in [Outer -> [type : Family, actual : Actual] \cup {NONE}]
  /\ rule_cfg \in [Family -> [Actual -> Cfg \cup {NONE}]]
  /\ map_rule \in [Family -> [Actual -> 0 .. MAX_RULE]]
  /\ bitmap \in [Family -> SUBSET Actual]
  /\ hash \in [Family -> [head : [Buckets -> Links],
                          node_cnt : [Buckets -> 0 .. CNT_MAX],
                          next : [Actual -> Links], prev : [Actual -> Links]]]
  /\ post \in [phase : {"idle", "apply", "rollback", "raised"},
               created : SUBSET Outer,
               before : [Outer -> Cfg \cup {NONE}] \cup {NONE}]
  /\ hung \in BOOLEAN

\* Outer ids and slots are mapped to each other one to one: a mapped slot is
\* marked as used and holds a rule of its own family, and a slot that is
\* marked as used is the slot of the rule it names.  This is what every
\* request relies on, also after the hash table has lost slots.
MapsAgree ==
  /\ \A o \in Outer : rule_map[o] # NONE =>
       LET f == rule_map[o].type
           a == rule_map[o].actual
       IN /\ map_rule[f][a] = o
          /\ a \in bitmap[f]
          /\ rule_cfg[f][a] \in Cfg /\ FamilyOf[rule_cfg[f][a]] = f
  /\ \A f \in Family, a \in Actual :
       /\ a \in bitmap[f] <=> map_rule[f][a] # 0
       /\ map_rule[f][a] # 0 =>
            rule_map[map_rule[f][a]] = [type |-> f, actual |-> a]

\* The slots of mapped rules whose contents hash to bucket b
InBucket(f, b) ==
  {a \in Actual : map_rule[f][a] # 0 /\ BucketOf[rule_cfg[f][a]] = b}

\* node_cnt counts the mapped rules of its bucket until it sticks at its
\* limit, so acl_hash_find may take 0 for an empty bucket and the count never
\* wraps, whatever the links of the chain have come to.
NodeCntExact ==
  \A f \in Family, b \in Buckets :
    hash[f].node_cnt[b] # CNT_MAX =>
      hash[f].node_cnt[b] = Cardinality(InBucket(f, b))

\* The counts of the hash table stay in their eight bits and exact below the limit.
CountsExact == RulesTypeOK /\ NodeCntExact

\* When the roll-back of an atomic POST that was refused ends, the
\* configuration is what it was before the request.  That is not so when an
\* exception ended the request (acl_handler.py:521-525 skips the roll-back of
\* 315-339): then the rules it created stay, each where there was none before,
\* and no other rule is changed.
RollBackRestores ==
  /\ (post.phase = "rollback" /\ post.created = {}) => Rules = post.before
  /\ post.phase = "raised" =>
       \A o \in Outer :
         IF o \in post.created THEN post.before[o] = NONE /\ RuleAt(o) # NONE
         ELSE RuleAt(o) = post.before[o]

\* A step of a request changes the rule of one outer id, the one it is for;
\* only a reset clears them all.  No rule is ever changed through the slot of
\* another one.
OneRuleAtATime ==
  [][\/ \E o \in Outer : \A p \in Outer \ {o} : Rules'[p] = Rules[p]
     \/ \A o \in Outer : Rules'[o] = NONE]_ruleVars

\* What the duplicate check is for: no two outer ids have the same contents.
\* It fails: acl_hash_free cuts the rest of the chain off when the head is
\* freed, and acl_hash_find does not find those slots any more.
NoDuplicates ==
  \A o, p \in Outer : (o # p /\ RuleAt(o) # NONE) => RuleAt(o) # RuleAt(p)

\* acl_hash_find returns a rule id.  It fails: a slot freed in the middle of
\* a chain stays linked, and inserting it again at the head closes a circle
\* in which a search for other contents never ends.
FindReturns == ~hung
=============================================================================
