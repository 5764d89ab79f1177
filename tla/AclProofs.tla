------------------------------ MODULE AclProofs ------------------------------
(***************************************************************************)
(* Proofs about the ACL.                                                   *)
(*                                                                         *)
(* First the rules in shared memory, for any number of rules, slots and    *)
(* contents and any hash function.  Nothing there depends on the links of  *)
(* the hash table: a search may miss a slot or never end, and the maps     *)
(* between outer ids and slots still agree.  What they rest on is that a   *)
(* request only takes a slot that no outer id is mapped to (SlotIsFree).   *)
(*                                                                         *)
(* Then the sync, for any number of workers, rule slots and contexts: the  *)
(* table swap never frees a table in use, and the flag protocol guards the *)
(* sync.                                                                   *)
(***************************************************************************)
EXTENDS AclRules, AclSyncRefinement, FiniteSetTheorems, WellFoundedInduction, TLAPS

-----------------------------------------------------------------------------

\* A set of slots that is not empty has a least one.
LEMMA LeastIn ==
  ASSUME NEW S, S \subseteq Nat, S # {}
  PROVE  Least(S) \in S
<1> DEFINE R == OpToRel(<, Nat)
<1>1. \E x \in S : \A y \in S : ~(<<y, x>> \in R)
  <2>1. IsWellFoundedOn(R, Nat)  BY NatLessThanWellFounded
  <2> HIDE DEF R
  <2> QED  BY <2>1, WFMin
<1>2. PICK x \in S : \A y \in S : ~(<<y, x>> \in R)  BY <1>1
<1>3. \A y \in S : x <= y
  <2> TAKE y \in S
  <2>1. x \in Nat /\ y \in Nat  OBVIOUS
  <2>2. ~(y < x)  BY <1>2, <2>1 DEF OpToRel
  <2> QED  BY <2>1, <2>2
<1> QED  BY <1>2, <1>3 DEF Least

\* The types of the variables that the maps and the POST are made of
MapTypes ==
  /\ rule_map \in [Outer -> [type : Family, actual : Actual] \cup {NONE}]
  /\ rule_cfg \in [Family -> [Actual -> Cfg \cup {NONE}]]
  /\ map_rule \in [Family -> [Actual -> 0 .. MAX_RULE]]
  /\ bitmap \in [Family -> SUBSET Actual]

Maps == MapTypes /\ MapsAgree

\* Of an atomic POST: what it has not created is as it was before, it creates
\* rules only where there was none, and they are there until they are deleted.
PostKeeps ==
  post.phase # "idle" =>
    /\ post.before \in [Outer -> Cfg \cup {NONE}]
    /\ \A o \in Outer :
         IF o \in post.created THEN post.before[o] = NONE /\ RuleAt(o) # NONE
                               ELSE RuleAt(o) = post.before[o]

RulesInv ==
  /\ Maps
  /\ post \in [phase : {"idle", "apply", "rollback", "raised"},
               created : SUBSET Outer,
               before : [Outer -> Cfg \cup {NONE}] \cup {NONE}]
  /\ hung \in BOOLEAN
  /\ PostKeeps

-----------------------------------------------------------------------------

\* tuple_try_map_new_rule only takes a slot that no outer id is mapped to.
LEMMA SlotIsFree ==
  ASSUME Maps, NEW o \in Outer, NEW c \in Cfg, NEW check_old \in BOOLEAN,
         Answer(o, c, check_old) = "new"
  PROVE  /\ Slot(c) \in Actual
         /\ map_rule[FamilyOf[c]][Slot(c)] = 0
<1> DEFINE f == FamilyOf[c]
<1>0. f \in Family  BY AclRulesAssumption
<1>1. /\ acl_hash_find(c) # Hang
      /\ Slot(c) # 0
      /\ acl_hash_find(c) = 0 \/ map_rule[f][Slot(c)] = 0
  BY DEF Answer
<1>2. CASE acl_hash_find(c) = 0
  <2>1. Slot(c) = FirstUnused(f)  BY <1>2 DEF Slot
  <2>2. Unused(f) # {} /\ Slot(c) = Least(Unused(f))  BY <2>1, <1>1 DEF FirstUnused
  <2>3. Unused(f) \subseteq Nat  BY DEF Unused, Actual
  <2>4. Slot(c) \in Unused(f)  BY <2>2, <2>3, LeastIn
  <2> QED  BY <2>4, <1>0 DEF Unused, Maps, MapsAgree
<1>3. CASE acl_hash_find(c) # 0
  <2>1. Slot(c) = acl_hash_find(c)  BY <1>3 DEF Slot
  <2>2. /\ Hits(c) # {}
        /\ Slot(c) = Chain(f, BucketOf[c])[Least(Hits(c))]
    BY <2>1, <1>1, <1>3 DEF acl_hash_find
  <2>3. Hits(c) \subseteq Nat  BY AclRulesAssumption DEF Hits
  <2>4. Least(Hits(c)) \in Hits(c)  BY <2>2, <2>3, LeastIn
  <2>5. Slot(c) \in Actual  BY <2>2, <2>4 DEF Hits
  <2> QED  BY <2>5, <1>1, <1>3
<1> QED  BY <1>2, <1>3

\* Deleting a rule keeps the maps and the rules of all other outer ids.
LEMMA DeleteKeeps ==
  ASSUME Maps, NEW o \in Outer, DeleteRule(o)
  PROVE  /\ Maps'
         /\ RuleAt(o)' = NONE
         /\ \A p \in Outer \ {o} : RuleAt(p)' = RuleAt(p)
<1> USE DEF Maps, MapTypes
<1>1. CASE rule_map[o] = NONE
  <2>1. UNCHANGED <<rule_cfg, map_rule, bitmap>> /\ rule_map' = rule_map
    BY <1>1 DEF DeleteRule, MapRuleWithout, BitmapWithout
  <2> QED  BY <1>1, <2>1 DEF MapsAgree, RuleAt
<1>2. CASE rule_map[o] # NONE
  <2> DEFINE f == rule_map[o].type
             a == rule_map[o].actual
  <2>1. f \in Family /\ a \in Actual /\ rule_map[o] = [type |-> f, actual |-> a]
    BY <1>2
  <2>2. /\ rule_map' = [rule_map EXCEPT ![o] = NONE]
        /\ map_rule' = [map_rule EXCEPT ![f][a] = 0]
        /\ bitmap' = [bitmap EXCEPT ![f] = @ \ {a}]
        /\ rule_cfg' = rule_cfg
    BY <1>2 DEF DeleteRule, MapRuleWithout, BitmapWithout
  <2> HIDE DEF f, a
  <2>3. MapTypes'  BY <2>1, <2>2, AclRulesAssumption
  <2>4. map_rule[f][a] = o  BY <1>2 DEF MapsAgree, f, a
  <2>5. \A p \in Outer \ {o} : rule_map'[p] = rule_map[p]  BY <2>2
  <2>6. \A p \in Outer \ {o} : rule_map[p] # NONE =>
          rule_map[p].type # f \/ rule_map[p].actual # a
    BY <2>4 DEF MapsAgree
  <2>7. \A g \in Family, b \in Actual : (g # f \/ b # a) =>
          /\ map_rule'[g][b] = map_rule[g][b]
          /\ b \in bitmap'[g] <=> b \in bitmap[g]
          /\ map_rule[g][b] # o
    <3> TAKE g \in Family, b \in Actual
    <3> HAVE g # f \/ b # a
    <3>1. map_rule'[g][b] = map_rule[g][b]  BY <2>1, <2>2
    <3>2. b \in bitmap'[g] <=> b \in bitmap[g]  BY <2>1, <2>2
    <3>3. map_rule[g][b] # o
      <4> SUFFICES ASSUME map_rule[g][b] = o PROVE FALSE  OBVIOUS
      <4>1. map_rule[g][b] # 0  BY DEF Outer
      <4>2. rule_map[o] = [type |-> g, actual |-> b]  BY <4>1 DEF MapsAgree
      <4> QED  BY <4>2, <2>1
    <3> QED  BY <3>1, <3>2, <3>3
  <2>8. map_rule'[f][a] = 0 /\ a \notin bitmap'[f]  BY <2>1, <2>2
  <2>9. MapsAgree'
    <3>1. ASSUME NEW p \in Outer, rule_map'[p] # NONE
          PROVE  LET g == rule_map'[p].type
                     b == rule_map'[p].actual
                 IN /\ map_rule'[g][b] = p
                    /\ b \in bitmap'[g]
                    /\ rule_cfg'[g][b] \in Cfg /\ FamilyOf[rule_cfg'[g][b]] = g
      <4>1. p # o /\ rule_map'[p] = rule_map[p] /\ rule_map[p] # NONE
        BY <3>1, <2>2
      <4>2. rule_map[p].type \in Family /\ rule_map[p].actual \in Actual  BY <4>1
      <4>3. rule_map[p].type # f \/ rule_map[p].actual # a  BY <4>1, <2>6
      <4> QED  BY <4>1, <4>2, <4>3, <2>2, <2>7 DEF MapsAgree
    <3>2. ASSUME NEW g \in Family, NEW b \in Actual
          PROVE  /\ b \in bitmap'[g] <=> map_rule'[g][b] # 0
                 /\ map_rule'[g][b] # 0 =>
                      rule_map'[map_rule'[g][b]] = [type |-> g, actual |-> b]
      <4>1. CASE g = f /\ b = a  BY <4>1, <2>8
      <4>2. CASE g # f \/ b # a
        <5>1. /\ map_rule'[g][b] = map_rule[g][b]
              /\ b \in bitmap'[g] <=> b \in bitmap[g]
              /\ map_rule[g][b] # o
          BY <4>2, <2>7
        <5>2. map_rule[g][b] # 0 => map_rule[g][b] \in Outer \ {o}
          BY <5>1, AclRulesAssumption DEF Outer
        <5> QED  BY <5>1, <5>2, <2>5 DEF MapsAgree
      <4> QED  BY <4>1, <4>2
    <3> QED  BY <3>1, <3>2 DEF MapsAgree
  <2>10. RuleAt(o)' = NONE  BY <2>2 DEF RuleAt
  <2>11. \A p \in Outer \ {o} : RuleAt(p)' = RuleAt(p)  BY <2>2, <2>5 DEF RuleAt
  <2> QED  BY <2>3, <2>9, <2>10, <2>11
<1> QED  BY <1>1, <1>2

\* What is left of the maps when the rule of o is taken out of them
LEMMA WithoutRule ==
  ASSUME Maps, NEW o \in Outer
  PROVE  /\ MapRuleWithout(o) \in [Family -> [Actual -> 0 .. MAX_RULE]]
         /\ BitmapWithout(o) \in [Family -> SUBSET Actual]
         /\ \A g \in Family, b \in Actual :
              /\ MapRuleWithout(o)[g][b] = IF map_rule[g][b] = o THEN 0
                                           ELSE map_rule[g][b]
              /\ b \in BitmapWithout(o)[g] <=> MapRuleWithout(o)[g][b] # 0
<1> USE DEF Maps, MapTypes
<1>1. CASE rule_map[o] = NONE
  <2>1. MapRuleWithout(o) = map_rule /\ BitmapWithout(o) = bitmap
    BY <1>1 DEF MapRuleWithout, BitmapWithout
  <2>2. ASSUME NEW g \in Family, NEW b \in Actual, map_rule[g][b] = o PROVE FALSE
    <3>1. map_rule[g][b] # 0  BY <2>2 DEF Outer
    <3>2. rule_map[o] = [type |-> g, actual |-> b]  BY <2>2, <3>1 DEF MapsAgree
    <3> QED  BY <1>1, <3>2, AclRulesAssumption
  <2> QED  BY <2>1, <2>2 DEF MapsAgree
<1>2. CASE rule_map[o] # NONE
  <2> DEFINE f == rule_map[o].type
             a == rule_map[o].actual
  <2>1. f \in Family /\ a \in Actual /\ rule_map[o] = [type |-> f, actual |-> a]
    BY <1>2
  <2>2. /\ MapRuleWithout(o) = [map_rule EXCEPT ![f][a] = 0]
        /\ BitmapWithout(o) = [bitmap EXCEPT ![f] = @ \ {a}]
    BY <1>2 DEF MapRuleWithout, BitmapWithout
  <2>3. map_rule[f][a] = o  BY <1>2 DEF MapsAgree
  <2> HIDE DEF f, a
  <2>4. ASSUME NEW g \in Family, NEW b \in Actual, map_rule[g][b] = o
        PROVE  g = f /\ b = a
    <3>1. map_rule[g][b] # 0  BY <2>4 DEF Outer
    <3>2. rule_map[o] = [type |-> g, actual |-> b]  BY <2>4, <3>1 DEF MapsAgree
    <3> QED  BY <3>2, <2>1
  <2>5. ASSUME NEW g \in Family, NEW b \in Actual
        PROVE  /\ MapRuleWithout(o)[g][b] = IF map_rule[g][b] = o THEN 0
                                            ELSE map_rule[g][b]
               /\ b \in BitmapWithout(o)[g] <=> MapRuleWithout(o)[g][b] # 0
    <3>1. CASE g = f /\ b = a  BY <3>1, <2>1, <2>2, <2>3
    <3>2. CASE g # f \/ b # a
      <4>1. MapRuleWithout(o)[g][b] = map_rule[g][b]  BY <3>2, <2>1, <2>2
      <4>2. b \in BitmapWithout(o)[g] <=> b \in bitmap[g]  BY <3>2, <2>1, <2>2
      <4>3. map_rule[g][b] # o  BY <3>2, <2>4
      <4>4. b \in bitmap[g] <=> map_rule[g][b] # 0  BY DEF MapsAgree
      <4> HIDE DEF Maps, MapTypes
      <4> QED  BY <4>1, <4>2, <4>3, <4>4
    <3> QED  BY <3>1, <3>2
  <2>6. /\ MapRuleWithout(o) \in [Family -> [Actual -> 0 .. MAX_RULE]]
        /\ BitmapWithout(o) \in [Family -> SUBSET Actual]
    BY <2>1, <2>2, AclRulesAssumption
  <2> QED  BY <2>5, <2>6
<1> QED  BY <1>1, <1>2

\* Mapping o to a slot that no outer id is mapped to keeps the maps and the
\* rules of all other outer ids.
LEMMA InstallKeeps ==
  ASSUME Maps, NEW o \in Outer, NEW c \in Cfg, NEW a \in Actual,
         map_rule[FamilyOf[c]][a] = 0, InstallRule(o, c, a)
  PROVE  /\ Maps'
         /\ RuleAt(o)' # NONE
         /\ \A p \in Outer \ {o} : RuleAt(p)' = RuleAt(p)
<1> USE DEF Maps, MapTypes
<1> DEFINE f == FamilyOf[c]
           M == MapRuleWithout(o)
           B == BitmapWithout(o)
<1>0. f \in Family  BY AclRulesAssumption
<1>1. /\ rule_cfg' = [rule_cfg EXCEPT ![f][a] = c]
      /\ rule_map' = [rule_map EXCEPT ![o] = [type |-> f, actual |-> a]]
      /\ map_rule' = [M EXCEPT ![f][a] = o]
      /\ bitmap' = [B EXCEPT ![f] = @ \cup {a}]
  BY DEF InstallRule
<1>2. /\ M \in [Family -> [Actual -> 0 .. MAX_RULE]]
      /\ B \in [Family -> SUBSET Actual]
      /\ \A g \in Family, b \in Actual :
           /\ M[g][b] = IF map_rule[g][b] = o THEN 0 ELSE map_rule[g][b]
           /\ b \in B[g] <=> M[g][b] # 0
  BY WithoutRule
<1>3. map_rule[f][a] = 0  OBVIOUS
<1> HIDE DEF M, B, f
<1>4. o \in 0 .. MAX_RULE /\ o # 0  BY AclRulesAssumption DEF Outer
<1>5. MapTypes'  BY <1>0, <1>1, <1>2, <1>4
<1>6. /\ map_rule'[f][a] = o /\ a \in bitmap'[f] /\ rule_cfg'[f][a] = c
      /\ rule_map'[o] = [type |-> f, actual |-> a]
  BY <1>0, <1>1, <1>2
<1>7. \A g \in Family, b \in Actual : (g # f \/ b # a) =>
        /\ map_rule'[g][b] = M[g][b]
        /\ b \in bitmap'[g] <=> b \in B[g]
        /\ rule_cfg'[g][b] = rule_cfg[g][b]
  BY <1>0, <1>1, <1>2
<1>8. ASSUME NEW p \in Outer \ {o}
      PROVE  /\ rule_map'[p] = rule_map[p]
             /\ rule_map[p] # NONE =>
                  LET g == rule_map[p].type
                      b == rule_map[p].actual
                  IN /\ g \in Family /\ b \in Actual /\ (g # f \/ b # a)
                     /\ map_rule'[g][b] = p
                     /\ b \in bitmap'[g]
                     /\ rule_cfg'[g][b] = rule_cfg[g][b]
                     /\ rule_cfg[g][b] \in Cfg /\ FamilyOf[rule_cfg[g][b]] = g
  <2>1. rule_map'[p] = rule_map[p]  BY <1>1
  <2>2. CASE rule_map[p] # NONE
    <3> DEFINE g == rule_map[p].type
               b == rule_map[p].actual
    <3>1. g \in Family /\ b \in Actual  BY <2>2
    <3>2. map_rule[g][b] = p /\ rule_cfg[g][b] \in Cfg /\ FamilyOf[rule_cfg[g][b]] = g
      BY <2>2 DEF MapsAgree
    <3> HIDE DEF g, b
    <3>3. p # 0  BY DEF Outer
    <3>4. g # f \/ b # a  BY <1>3, <3>2, <3>3
    <3>5. M[g][b] = p  BY <1>2, <3>1, <3>2
    <3>6. /\ map_rule'[g][b] = p /\ b \in bitmap'[g]
          /\ rule_cfg'[g][b] = rule_cfg[g][b]
      BY <1>2, <1>7, <3>1, <3>3, <3>4, <3>5
    <3> QED  BY <2>1, <3>1, <3>2, <3>4, <3>6 DEF g, b
  <2> QED  BY <2>1, <2>2
<1>9. MapsAgree'
  <2>1. ASSUME NEW p \in Outer, rule_map'[p] # NONE
        PROVE  LET g == rule_map'[p].type
                   b == rule_map'[p].actual
               IN /\ map_rule'[g][b] = p
                  /\ b \in bitmap'[g]
                  /\ rule_cfg'[g][b] \in Cfg /\ FamilyOf[rule_cfg'[g][b]] = g
    <3>1. CASE p = o
      <4>1. rule_map'[o].type = f /\ rule_map'[o].actual = a  BY <1>6
      <4> QED  BY <3>1, <4>1, <1>6 DEF f
    <3>2. CASE p # o  BY <2>1, <3>2, <1>8
    <3> QED  BY <3>1, <3>2
  <2>2. ASSUME NEW g \in Family, NEW b \in Actual
        PROVE  /\ b \in bitmap'[g] <=> map_rule'[g][b] # 0
               /\ map_rule'[g][b] # 0 =>
                    rule_map'[map_rule'[g][b]] = [type |-> g, actual |-> b]
    <3>1. CASE g = f /\ b = a  BY <3>1, <1>4, <1>6
    <3>2. CASE g # f \/ b # a
      <4>1. /\ map_rule'[g][b] = M[g][b]
            /\ b \in bitmap'[g] <=> M[g][b] # 0
        BY <3>2, <1>2, <1>7
      <4>2. ASSUME M[g][b] # 0
            PROVE  rule_map'[M[g][b]] = [type |-> g, actual |-> b]
        <5>1. M[g][b] = map_rule[g][b] /\ map_rule[g][b] # o /\ map_rule[g][b] # 0
          BY <4>2, <1>2
        <5>2. map_rule[g][b] \in Outer \ {o}  BY <5>1, AclRulesAssumption DEF Outer
        <5>3. rule_map[map_rule[g][b]] = [type |-> g, actual |-> b]
          BY <5>1 DEF MapsAgree
        <5> QED  BY <5>1, <5>2, <5>3, <1>8
      <4> QED  BY <4>1, <4>2
    <3> QED  BY <3>1, <3>2
  <2> QED  BY <2>1, <2>2 DEF MapsAgree
<1>10. \A p \in Outer \ {o} : RuleAt(p)' = RuleAt(p)  BY <1>8 DEF RuleAt
<1>11. RuleAt(o)' # NONE
  <2>1. rule_map'[o] # NONE /\ rule_cfg'[f][a] # NONE
    BY <1>0, <1>6, AclRulesAssumption
  <2> QED  BY <2>1, <1>6 DEF RuleAt
<1> QED  BY <1>5, <1>9, <1>10, <1>11

\* A request that is not refused keeps the maps and all other rules; a POST
\* (check_old) only maps an outer id that has no rule.
LEMMA TryMapKeeps ==
  ASSUME Maps, NEW o \in Outer, NEW c \in Cfg, NEW check_old \in BOOLEAN,
         TryMap(o, c, check_old)
  PROVE  /\ Maps'
         /\ hung' # hung => UNCHANGED <<rule_map, rule_cfg>>
         /\ check_old => RuleAt(o) = NONE \/ hung'
         /\ RuleAt(o)' # NONE \/ hung' = TRUE
         /\ \A p \in Outer \ {o} : RuleAt(p)' = RuleAt(p)
<1>1. CASE /\ Answer(o, c, check_old) = "new"
           /\ InstallRule(o, c, Slot(c))
           /\ UNCHANGED hung
  <2>1. Slot(c) \in Actual /\ map_rule[FamilyOf[c]][Slot(c)] = 0
    BY <1>1, SlotIsFree
  <2>2. Maps' /\ RuleAt(o)' # NONE /\ \A p \in Outer \ {o} : RuleAt(p)' = RuleAt(p)
    BY <1>1, <2>1, InstallKeeps
  <2>3. check_old => rule_map[o] = NONE  BY <1>1 DEF Answer
  <2> QED  BY <1>1, <2>2, <2>3 DEF RuleAt
<1>2. CASE hung' = TRUE /\ UNCHANGED tables
  BY <1>2 DEF tables, Maps, MapTypes, MapsAgree, RuleAt
<1> QED  BY <1>1, <1>2 DEF TryMap

\* What a step does to the rules: at most one of them changes, or a reset
\* clears them all.
RulesStep ==
  \/ \E o \in Outer : \A p \in Outer \ {o} : RuleAt(p)' = RuleAt(p)
  \/ \A o \in Outer : RuleAt(o)' = NONE

LEMMA InitRules == RulesInit => RulesInv
<1> SUFFICES ASSUME RulesInit PROVE RulesInv  OBVIOUS
<1> USE DEF RulesInit, Zeroed
<1>1. MapTypes  BY AclRulesAssumption DEF MapTypes
<1>2. MapsAgree  BY DEF MapsAgree
<1> QED  BY <1>1, <1>2 DEF RulesInv, Maps, NoPost, PostKeeps

\* The type of what RuleAt returns
LEMMA RuleAtType ==
  ASSUME Maps, NEW o \in Outer
  PROVE  RuleAt(o) \in Cfg \cup {NONE}
BY DEF Maps, MapTypes, RuleAt

LEMMA NextRules ==
  ASSUME RulesInv, [RulesNext]_ruleVars
  PROVE  RulesInv' /\ RulesStep
<1> USE DEF RulesInv
<1>0. Outer # {}  BY AclRulesAssumption DEF Outer
<1>1. ASSUME NEW o \in Outer, NEW c \in Cfg, Put(o, c) \/ Post(o, c)
      PROVE  RulesInv' /\ RulesStep
  <2>1. PICK check_old \in BOOLEAN :
          post = NoPost /\ post' = post /\ TryMap(o, c, check_old)
    BY <1>1 DEF Put, Post, Free
  <2>2. Maps' /\ \A p \in Outer \ {o} : RuleAt(p)' = RuleAt(p)
    BY <2>1, TryMapKeeps
  <2>3. hung' \in BOOLEAN  BY <2>1 DEF TryMap
  <2>4. PostKeeps'  BY <2>1 DEF PostKeeps, NoPost
  <2> QED  BY <2>1, <2>2, <2>3, <2>4 DEF RulesStep
<1>2. ASSUME NEW o \in Outer, NEW c \in Cfg, PostAtomicRule(o, c)
      PROVE  RulesInv' /\ RulesStep
  <2>1. /\ post.phase = "apply" /\ hung = FALSE
        /\ TryMap(o, c, TRUE)
        /\ post' = IF hung' THEN post ELSE [post EXCEPT !.created = @ \cup {o}]
    BY <1>2 DEF PostAtomicRule
  <2>2. /\ Maps'
        /\ hung' # hung => UNCHANGED <<rule_map, rule_cfg>>
        /\ RuleAt(o) = NONE \/ hung'
        /\ RuleAt(o)' # NONE \/ hung' = TRUE
        /\ \A p \in Outer \ {o} : RuleAt(p)' = RuleAt(p)
    BY <2>1, TryMapKeeps
  <2>3. hung' \in BOOLEAN  BY <2>1 DEF TryMap
  <2>4. CASE hung' = TRUE
    <3>1. post' = post /\ UNCHANGED <<rule_map, rule_cfg>>  BY <2>1, <2>2, <2>4
    <3>2. PostKeeps'  BY <3>1 DEF PostKeeps, RuleAt
    <3> QED  BY <2>2, <2>3, <3>1, <3>2 DEF RulesStep
  <2>5. CASE hung' = FALSE
    <3>1. post' = [post EXCEPT !.created = @ \cup {o}]  BY <2>1, <2>5
    <3>2. /\ post'.phase = post.phase /\ post'.before = post.before
          /\ post'.created = post.created \cup {o}
      BY <3>1
    <3>3. ASSUME NEW p \in Outer
          PROVE  IF p \in post'.created
                 THEN post'.before[p] = NONE /\ RuleAt(p)' # NONE
                 ELSE RuleAt(p)' = post'.before[p]
      <4>1. IF p \in post.created THEN post.before[p] = NONE /\ RuleAt(p) # NONE
            ELSE RuleAt(p) = post.before[p]
        BY <2>1 DEF PostKeeps
      <4>2. CASE p = o  BY <4>1, <4>2, <3>2, <2>2, <2>5
      <4>3. CASE p # o  BY <4>1, <4>3, <3>2, <2>2
      <4> QED  BY <4>2, <4>3
    <3>4. PostKeeps'  BY <2>1, <3>2, <3>3 DEF PostKeeps
    <3> QED  BY <2>2, <2>3, <3>1, <3>4 DEF RulesStep
  <2> QED  BY <2>3, <2>4, <2>5
<1>3. ASSUME NEW o \in Outer, Delete(o)
      PROVE  RulesInv' /\ RulesStep
  <2>1. post = NoPost /\ post' = post /\ hung' = hung /\ DeleteRule(o)
    BY <1>3 DEF Delete, Free
  <2>2. Maps' /\ \A p \in Outer \ {o} : RuleAt(p)' = RuleAt(p)
    BY <2>1, DeleteKeeps
  <2>3. PostKeeps'  BY <2>1 DEF PostKeeps, NoPost
  <2> QED  BY <2>1, <2>2, <2>3 DEF RulesStep
<1>4. ASSUME NEW o \in Outer, PostAtomicRollBack(o)
      PROVE  RulesInv' /\ RulesStep
  <2>1. /\ post.phase = "rollback" /\ o \in post.created
        /\ post' = [post EXCEPT !.created = @ \ {o}]
        /\ hung' = hung /\ DeleteRule(o)
    BY <1>4 DEF PostAtomicRollBack
  <2>2. /\ Maps' /\ RuleAt(o)' = NONE
        /\ \A p \in Outer \ {o} : RuleAt(p)' = RuleAt(p)
    BY <2>1, DeleteKeeps
  <2>3. /\ post'.phase = post.phase /\ post'.before = post.before
        /\ post'.created = post.created \ {o}
    BY <2>1
  <2>4. ASSUME NEW p \in Outer
        PROVE  IF p \in post'.created
               THEN post'.before[p] = NONE /\ RuleAt(p)' # NONE
               ELSE RuleAt(p)' = post'.before[p]
    <3>1. IF p \in post.created THEN post.before[p] = NONE /\ RuleAt(p) # NONE
          ELSE RuleAt(p) = post.before[p]
      BY <2>1 DEF PostKeeps
    <3>2. CASE p = o  BY <3>1, <3>2, <2>1, <2>2, <2>3
    <3>3. CASE p # o  BY <3>1, <3>3, <2>2, <2>3
    <3> QED  BY <3>2, <3>3
  <2>5. PostKeeps'  BY <2>1, <2>3, <2>4 DEF PostKeeps
  <2> QED  BY <2>1, <2>2, <2>5 DEF RulesStep
<1>5. CASE Reset
  <2> USE <1>5 DEF Reset, Zeroed
  <2>1. MapTypes'  BY AclRulesAssumption DEF MapTypes
  <2>2. MapsAgree'  BY DEF MapsAgree
  <2>3. PostKeeps'  BY DEF PostKeeps, NoPost, Free
  <2>4. \A o \in Outer : RuleAt(o)' = NONE  BY DEF RuleAt
  <2> QED  BY <2>1, <2>2, <2>3, <2>4 DEF Maps, RulesStep
<1>6. ASSUME UNCHANGED tables
      PROVE  /\ Maps' /\ RulesStep
             /\ \A o \in Outer : RuleAt(o)' = RuleAt(o)
  BY <1>0, <1>6 DEF tables, Maps, MapTypes, MapsAgree, RuleAt, RulesStep
<1>7. CASE PostAtomic
  <2>1. /\ post' = [phase |-> "apply", created |-> {}, before |-> Rules]
        /\ UNCHANGED tables /\ hung' = hung
    BY <1>7 DEF PostAtomic
  <2>2. Rules \in [Outer -> Cfg \cup {NONE}]  BY RuleAtType DEF Rules
  <2>3. \A o \in Outer : RuleAt(o)' = Rules[o]  BY <1>6, <2>1 DEF Rules
  <2>4. PostKeeps'  BY <2>1, <2>2, <2>3 DEF PostKeeps
  <2> QED  BY <1>6, <2>1, <2>2, <2>4
<1>8. CASE PostAtomicRefused
  <2>1. /\ post.phase = "apply"
        /\ post' = [post EXCEPT !.phase = "rollback", !.created = @]
        /\ UNCHANGED tables /\ hung' = hung
    BY <1>8 DEF PostAtomicRefused, ToRollBack
  <2>2. /\ post'.phase = "rollback" /\ post'.created = post.created
        /\ post'.before = post.before
    BY <2>1
  <2>3. PostKeeps'  BY <1>6, <2>1, <2>2 DEF PostKeeps
  <2> QED  BY <1>6, <2>1, <2>3
<1>11. CASE PostAtomicRaised
  <2>1. /\ post.phase = "apply"
        /\ post' = [post EXCEPT !.phase = "raised"]
        /\ UNCHANGED tables /\ hung' = hung
    BY <1>11 DEF PostAtomicRaised
  <2>2. /\ post'.phase = "raised" /\ post'.created = post.created
        /\ post'.before = post.before
    BY <2>1
  <2>3. PostKeeps'  BY <1>6, <2>1, <2>2 DEF PostKeeps
  <2> QED  BY <1>6, <2>1, <2>3
<1>9. CASE PostAtomicEnd
  <2>1. post' = NoPost /\ UNCHANGED tables /\ hung' = hung
    BY <1>9 DEF PostAtomicEnd
  <2> QED  BY <1>6, <2>1 DEF PostKeeps, NoPost
<1>10. CASE UNCHANGED ruleVars
  <2>1. UNCHANGED tables /\ post' = post /\ hung' = hung  BY <1>10 DEF ruleVars
  <2> QED  BY <1>6, <2>1 DEF PostKeeps
<1> QED
  BY <1>1, <1>2, <1>3, <1>4, <1>5, <1>7, <1>8, <1>9, <1>10, <1>11 DEF RulesNext

-----------------------------------------------------------------------------

\* RulesInv is an inductive invariant of the rules in shared memory.
THEOREM RulesInvariance == RulesSpec => []RulesInv
<1>1. RulesInit => RulesInv  BY InitRules
<1>2. RulesInv /\ [RulesNext]_ruleVars => RulesInv'  BY NextRules
<1> QED  BY <1>1, <1>2, PTL DEF RulesSpec

\* Outer ids and slots are mapped to each other one to one, for any number of
\* rules and any hash function.
THEOREM MapsAlwaysAgree == RulesSpec => []MapsAgree
<1>1. RulesInv => MapsAgree  BY DEF RulesInv, Maps
<1> QED  BY <1>1, RulesInvariance, PTL

\* When the roll-back of an atomic POST that was refused ends, every rule is
\* what it was before the request; when an exception ended the request instead,
\* the rules it created are the only ones that differ.
THEOREM RollBackAlwaysRestores == RulesSpec => []RollBackRestores
<1>1. ASSUME RulesInv, post.phase = "rollback", post.created = {}
      PROVE  Rules = post.before
  <2>1. /\ post.before \in [Outer -> Cfg \cup {NONE}]
        /\ \A o \in Outer : RuleAt(o) = post.before[o]
    BY <1>1 DEF RulesInv, PostKeeps
  <2> QED  BY <2>1 DEF Rules
<1>2. ASSUME RulesInv, post.phase = "raised", NEW o \in Outer
      PROVE  IF o \in post.created THEN post.before[o] = NONE /\ RuleAt(o) # NONE
             ELSE RuleAt(o) = post.before[o]
  BY <1>2 DEF RulesInv, PostKeeps
<1>3. RulesInv => RollBackRestores  BY <1>1, <1>2 DEF RollBackRestores
<1> QED  BY <1>3, RulesInvariance, PTL

\* No step of a request changes two rules, except a reset.
THEOREM OneRuleChanges == RulesSpec => OneRuleAtATime
<1> DEFINE OneOrNone ==
           \/ \E o \in Outer : \A p \in Outer \ {o} : Rules'[p] = Rules[p]
           \/ \A o \in Outer : Rules'[o] = NONE
<1>1. RulesInv /\ [RulesNext]_ruleVars => [OneOrNone]_ruleVars
  <2> SUFFICES ASSUME RulesInv, [RulesNext]_ruleVars PROVE OneOrNone  OBVIOUS
  <2>1. RulesStep  BY NextRules
  <2>2. \A o \in Outer : Rules[o] = RuleAt(o) /\ Rules'[o] = RuleAt(o)'
    BY DEF Rules
  <2> QED  BY <2>1, <2>2 DEF RulesStep
<1>2. RulesSpec => [][OneOrNone]_ruleVars  BY <1>1, RulesInvariance, PTL DEF RulesSpec
<1> QED  BY <1>2 DEF OneRuleAtATime

-----------------------------------------------------------------------------
(* The counts of the hash table                                            *)

\* InBucket of the maps mr and the contents rc
BucketSet(mr, rc, f, b) == {a \in Actual : mr[f][a] # 0 /\ BucketOf[rc[f][a]] = b}

HashType == [head : [Buckets -> Links], node_cnt : [Buckets -> 0 .. CNT_MAX],
             next : [Actual -> Links], prev : [Actual -> Links]]

\* The tables h of both families count what the maps mr have in the buckets.
CountsAre(h, mr, rc) ==
  /\ h \in [Family -> HashType]
  /\ \A f \in Family, b \in Buckets :
       h[f].node_cnt[b] # CNT_MAX =>
         h[f].node_cnt[b] = Cardinality(BucketSet(mr, rc, f, b))

LEMMA BucketFinite ==
  ASSUME NEW mr, NEW rc, NEW f, NEW b
  PROVE  IsFiniteSet(BucketSet(mr, rc, f, b)) /\ Cardinality(BucketSet(mr, rc, f, b)) \in Nat
<1>1. IsFiniteSet(Actual)
  BY AclRulesAssumption, FS_Interval DEF Actual
<1>2. BucketSet(mr, rc, f, b) \subseteq Actual
  BY DEF BucketSet
<1> QED BY <1>1, <1>2, FS_Subset, FS_CardinalityType

LEMMA BucketIn ==
  ASSUME NEW c \in Cfg
  PROVE  BucketOf[c] \in Buckets
BY DEF Buckets

\* acl_hash_free of the rule that o is mapped to
LEMMA FreeCounts ==
  ASSUME Maps, NEW o \in Outer, CountsAre(hash, map_rule, rule_cfg)
  PROVE  CountsAre(HashWithout(o), MapRuleWithout(o), rule_cfg)
<1>1. CASE rule_map[o] = NONE
  BY <1>1 DEF HashWithout, MapRuleWithout
<1>2. CASE rule_map[o] # NONE
  <2> DEFINE f == rule_map[o].type
             a == rule_map[o].actual
             B == BucketOf[rule_cfg[f][a]]
             M == [map_rule EXCEPT ![f][a] = 0]
             h == hash[f]
             h2 == acl_hash_free(h, B, a)
  <2>1. f \in Family /\ a \in Actual /\ a \in Links /\ a # 0 /\ 0 \in Links
    BY <1>2, AclRulesAssumption DEF Maps, MapTypes, Actual, Links
  <2>2. /\ map_rule[f][a] = o /\ rule_cfg[f][a] \in Cfg /\ o # 0
    BY <1>2 DEF Maps, MapsAgree, Outer
  <2>3. B \in Buckets
    BY <2>2, BucketIn
  <2>4. HashWithout(o) = [hash EXCEPT ![f] = h2] /\ MapRuleWithout(o) = M
    BY <1>2 DEF HashWithout, MapRuleWithout
  <2>5. map_rule \in [Family -> [Actual -> 0 .. MAX_RULE]] /\ h \in HashType
    BY <2>1 DEF Maps, MapTypes, CountsAre
  <2> HIDE DEF f, a
  <2>6. a \in BucketSet(map_rule, rule_cfg, f, B)
    BY <2>1, <2>2 DEF BucketSet
  <2>7. \A g \in Family, b \in Actual :
          M[g][b] = IF g = f /\ b = a THEN 0 ELSE map_rule[g][b]
    BY <2>1, <2>5
  <2> HIDE DEF B, M, h
  <2>8. h.node_cnt[B] # CNT_MAX => h.node_cnt[B] = Cardinality(BucketSet(map_rule, rule_cfg, f, B))
    BY <2>1, <2>3 DEF CountsAre, h
  <2>9. /\ Cardinality(BucketSet(map_rule, rule_cfg, f, B)) \in Nat \ {0}
        /\ Cardinality(BucketSet(map_rule, rule_cfg, f, B) \ {a})
             = Cardinality(BucketSet(map_rule, rule_cfg, f, B)) - 1
    <3>1. IsFiniteSet(BucketSet(map_rule, rule_cfg, f, B))
      BY BucketFinite
    <3>2. /\ Cardinality(BucketSet(map_rule, rule_cfg, f, B) \ {a})
             = Cardinality(BucketSet(map_rule, rule_cfg, f, B)) - 1
      BY <2>6, <3>1, FS_RemoveElement
    <3>3. Cardinality(BucketSet(map_rule, rule_cfg, f, B)) # 0
      BY <2>6, <3>1, FS_EmptySet
    <3> QED BY <3>2, <3>3, BucketFinite
  <2>10. /\ h.node_cnt[B] \in 0 .. CNT_MAX /\ CntAfterFree(h.node_cnt[B]) \in 0 .. CNT_MAX
         /\ CntAfterFree(h.node_cnt[B]) # CNT_MAX =>
              CntAfterFree(h.node_cnt[B]) = Cardinality(BucketSet(map_rule, rule_cfg, f, B) \ {a})
    <3>1. h.node_cnt[B] \in 0 .. CNT_MAX
      BY <2>3, <2>5 DEF HashType
    <3> QED BY <2>8, <2>9, <3>1, AclRulesAssumption DEF CntAfterFree
  <2>11. h2.node_cnt = [h.node_cnt EXCEPT ![B] = CntAfterFree(@)]
    BY DEF acl_hash_free
  <2>12. h2 \in HashType
    <3>1. h.prev[a] \in Links
      BY <2>1, <2>5 DEF HashType
    <3>2. [h.prev EXCEPT ![a] = 0] \in [Actual -> Links]
      BY <2>1, <2>5 DEF HashType
    <3>3. [h.node_cnt EXCEPT ![B] = CntAfterFree(@)] \in [Buckets -> 0 .. CNT_MAX]
      BY <2>3, <2>5, <2>10 DEF HashType
    <3>4. [h.head EXCEPT ![B] = 0] \in [Buckets -> Links] /\ h.head \in [Buckets -> Links]
      BY <2>1, <2>5 DEF HashType
    <3>5. [[h.prev EXCEPT ![a] = 0] EXCEPT ![h.prev[a]] = h.prev[a]] \in [Actual -> Links]
      BY <3>1, <3>2
    <3>6. h.next \in [Actual -> Links]
      BY <2>5 DEF HashType
    <3> QED BY <3>2, <3>3, <3>4, <3>5, <3>6 DEF HashType, acl_hash_free
  <2> HIDE DEF h2
  <2>13. BucketSet(M, rule_cfg, f, B) = BucketSet(map_rule, rule_cfg, f, B) \ {a}
    BY <2>1, <2>7 DEF BucketSet
  <2>14. ASSUME NEW g \in Family, NEW b \in Buckets, g # f \/ b # B
         PROVE  BucketSet(M, rule_cfg, g, b) = BucketSet(map_rule, rule_cfg, g, b)
    <3>1. ASSUME NEW x \in Actual
          PROVE  x \in BucketSet(M, rule_cfg, g, b) <=> x \in BucketSet(map_rule, rule_cfg, g, b)
      <4>1. CASE g = f /\ x = a
        BY <2>14, <4>1 DEF BucketSet, B
      <4>2. CASE ~(g = f /\ x = a)
        BY <2>7, <4>2 DEF BucketSet
      <4> QED BY <4>1, <4>2
    <3> QED BY <3>1 DEF BucketSet
  <2>15. [hash EXCEPT ![f] = h2] \in [Family -> HashType]
    BY <2>1, <2>12 DEF CountsAre
  <2>16. ASSUME NEW g \in Family, NEW b \in Buckets
         PROVE  [hash EXCEPT ![f] = h2][g].node_cnt[b] # CNT_MAX =>
                  [hash EXCEPT ![f] = h2][g].node_cnt[b] = Cardinality(BucketSet(M, rule_cfg, g, b))
    <3>1. CASE g = f /\ b = B
      <4>1. [hash EXCEPT ![f] = h2][g].node_cnt[b] = CntAfterFree(h.node_cnt[B])
        BY <2>1, <2>3, <2>5, <2>11, <3>1 DEF CountsAre, HashType
      <4> QED BY <2>10, <2>13, <3>1, <4>1
    <3>2. CASE g # f \/ b # B
      <4>1. [hash EXCEPT ![f] = h2][g].node_cnt[b] = hash[g].node_cnt[b]
        <5>1. CASE g # f
          BY <5>1 DEF CountsAre
        <5>2. CASE g = f /\ b # B
          BY <2>1, <2>5, <2>11, <5>2 DEF CountsAre, HashType, h
        <5> QED BY <3>2, <5>1, <5>2
      <4> QED BY <2>14, <3>2, <4>1 DEF CountsAre
    <3> QED BY <3>1, <3>2
  <2> QED BY <2>4, <2>15, <2>16 DEF CountsAre
<1> QED BY <1>1, <1>2

\* a count below the limit can be incremented
LEMMA BelowMax ==
  \A n, m : m \in Nat /\ n \in 0 .. m /\ n # m => n + 1 \in 0 .. m
OBVIOUS

\* acl_hash_insert of a slot that no rule is mapped to
LEMMA InsertCounts ==
  ASSUME NEW H, NEW M \in [Family -> [Actual -> 0 .. MAX_RULE]],
         rule_cfg \in [Family -> [Actual -> Cfg \cup {NONE}]],
         NEW o \in Outer, NEW c \in Cfg, NEW a \in Actual,
         CountsAre(H, M, rule_cfg), M[FamilyOf[c]][a] = 0
  PROVE  CountsAre([H EXCEPT ![FamilyOf[c]] = acl_hash_insert(@, BucketOf[c], a)],
                   [M EXCEPT ![FamilyOf[c]][a] = o],
                   [rule_cfg EXCEPT ![FamilyOf[c]][a] = c])
<1> DEFINE f == FamilyOf[c]
           B == BucketOf[c]
           M2 == [M EXCEPT ![f][a] = o]
           rc == [rule_cfg EXCEPT ![f][a] = c]
           h == H[f]
           h2 == acl_hash_insert(h, B, a)
           H2 == [H EXCEPT ![f] = h2]
<1>1. f \in Family /\ B \in Buckets /\ a \in Links /\ 0 \in Links /\ o # 0
  BY AclRulesAssumption, BucketIn DEF Actual, Links, Outer
<1>2. h \in HashType /\ M[f][a] = 0
  BY <1>1 DEF CountsAre
<1> HIDE DEF f
<1>3. \A g \in Family, b \in Actual :
        /\ M2[g][b] = IF g = f /\ b = a THEN o ELSE M[g][b]
        /\ rc[g][b] = IF g = f /\ b = a THEN c ELSE rule_cfg[g][b]
  BY <1>1
<1> HIDE DEF M2, rc
<1>4. a \notin BucketSet(M, rule_cfg, f, B)
  BY <1>2 DEF BucketSet
<1>5. BucketSet(M2, rc, f, B) = BucketSet(M, rule_cfg, f, B) \cup {a}
  BY <1>1, <1>3 DEF BucketSet
<1>6. ASSUME NEW g \in Family, NEW b \in Buckets, g # f \/ b # B
      PROVE  BucketSet(M2, rc, g, b) = BucketSet(M, rule_cfg, g, b)
  <2>1. ASSUME NEW x \in Actual
        PROVE  x \in BucketSet(M2, rc, g, b) <=> x \in BucketSet(M, rule_cfg, g, b)
    <3>1. CASE g = f /\ x = a
      <4>1. rc[g][x] = c /\ M[g][x] = 0 /\ b # B
        BY <1>2, <1>3, <1>6, <3>1
      <4> QED BY <4>1 DEF BucketSet
    <3>2. CASE ~(g = f /\ x = a)
      BY <1>3, <3>2 DEF BucketSet
    <3> QED BY <3>1, <3>2
  <2> QED BY <2>1 DEF BucketSet
<1> HIDE DEF B, h
<1>7. Cardinality(BucketSet(M2, rc, f, B)) = Cardinality(BucketSet(M, rule_cfg, f, B)) + 1
  BY <1>4, <1>5, BucketFinite, FS_AddElement
<1>8. h.node_cnt[B] # CNT_MAX => h.node_cnt[B] = Cardinality(BucketSet(M, rule_cfg, f, B))
  BY <1>1 DEF CountsAre, h
<1>9. /\ CntAfterInsert(h.node_cnt[B]) \in 0 .. CNT_MAX
      /\ CntAfterInsert(h.node_cnt[B]) # CNT_MAX =>
           CntAfterInsert(h.node_cnt[B]) = Cardinality(BucketSet(M2, rc, f, B))
  <2>1. h.node_cnt[B] \in 0 .. CNT_MAX
    BY <1>1, <1>2 DEF HashType
  <2>2. Cardinality(BucketSet(M, rule_cfg, f, B)) \in Nat
    BY BucketFinite
  <2>3. CASE h.node_cnt[B] = CNT_MAX
    BY <2>1, <2>3 DEF CntAfterInsert
  <2>4. CASE h.node_cnt[B] # CNT_MAX
    <3>1. CntAfterInsert(h.node_cnt[B]) = h.node_cnt[B] + 1
      BY <2>4 DEF CntAfterInsert
    <3>2. h.node_cnt[B] + 1 \in 0 .. CNT_MAX
      <4>1. CNT_MAX \in Nat
        BY AclRulesAssumption
      <4> QED BY <2>1, <2>4, <4>1, BelowMax
    <3>3. h.node_cnt[B] + 1 = Cardinality(BucketSet(M2, rc, f, B))
      BY <1>7, <1>8, <2>2, <2>4
    <3> QED BY <3>1, <3>2, <3>3
  <2> QED BY <2>3, <2>4
<1>10. h2.node_cnt = [h.node_cnt EXCEPT ![B] = CntAfterInsert(@)]
  BY DEF acl_hash_insert
<1>11. h2 \in HashType
  <2>1. h.head[B] \in Links /\ [h.head EXCEPT ![B] = a] \in [Buckets -> Links]
    BY <1>1, <1>2 DEF HashType
  <2>2. [h.node_cnt EXCEPT ![B] = CntAfterInsert(@)] \in [Buckets -> 0 .. CNT_MAX]
    BY <1>2, <1>9 DEF HashType
  <2>3. [h.next EXCEPT ![a] = h.head[B]] \in [Actual -> Links]
    BY <1>2, <2>1 DEF HashType
  <2>4. [h.prev EXCEPT ![a] = 0] \in [Actual -> Links]
    BY <1>1, <1>2 DEF HashType
  <2>5. [[h.prev EXCEPT ![a] = 0] EXCEPT ![h.head[B]] = a] \in [Actual -> Links]
    BY <1>1, <2>4
  <2> QED BY <2>1, <2>2, <2>3, <2>4, <2>5 DEF HashType, acl_hash_insert
<1> HIDE DEF h2
<1>12. H2 \in [Family -> HashType]
  BY <1>1, <1>11 DEF CountsAre
<1>13. ASSUME NEW g \in Family, NEW b \in Buckets
       PROVE  H2[g].node_cnt[b] # CNT_MAX =>
                H2[g].node_cnt[b] = Cardinality(BucketSet(M2, rc, g, b))
  <2>1. CASE g = f /\ b = B
    <3>1. H2[g].node_cnt[b] = CntAfterInsert(h.node_cnt[B])
      BY <1>1, <1>2, <1>10, <2>1 DEF CountsAre, HashType
    <3> QED BY <1>9, <2>1, <3>1
  <2>2. CASE g # f \/ b # B
    <3>1. H2[g].node_cnt[b] = H[g].node_cnt[b]
      <4>1. CASE g # f
        BY <4>1 DEF CountsAre
      <4>2. CASE g = f /\ b # B
        BY <1>1, <1>2, <1>10, <4>2 DEF CountsAre, HashType, h
      <4> QED BY <2>2, <4>1, <4>2
    <3> QED BY <1>6, <2>2, <3>1 DEF CountsAre
  <2> QED BY <2>1, <2>2
<1>14. CountsAre(H2, M2, rc)
  BY <1>12, <1>13 DEF CountsAre
<1> QED BY <1>14 DEF M2, rc, f, h2, h, B

\* node_cnt of every bucket is exact until it sticks.
Counts == CountsAre(hash, map_rule, rule_cfg)

LEMMA ZeroCounts ==
  ASSUME NEW h, NEW mr, NEW rc, h = Zeroed.hash, mr = Zeroed.map_rule
  PROVE  CountsAre(h, mr, rc)
<1>1. h = [f \in Family |-> EmptyHash] /\ mr = [f \in Family |-> [a \in Actual |-> 0]]
  BY DEF Zeroed
<1>2. EmptyHash \in HashType
  BY AclRulesAssumption DEF EmptyHash, HashType, Links
<1>3. \A f \in Family, b \in Buckets : BucketSet(mr, rc, f, b) = {}
  BY <1>1 DEF BucketSet
<1>4. \A f \in Family, b \in Buckets : h[f].node_cnt[b] = 0
  BY <1>1 DEF EmptyHash
<1>5. Cardinality({}) = 0
  BY FS_EmptySet
<1> QED BY <1>1, <1>2, <1>3, <1>4, <1>5 DEF CountsAre

LEMMA NextCounts ==
  ASSUME RulesInv, Counts, [RulesNext]_ruleVars
  PROVE  Counts'
<1>0. Maps
  BY DEF RulesInv
<1>1. ASSUME UNCHANGED tables PROVE Counts'
  BY <1>1 DEF tables, Counts
<1>2. ASSUME NEW o \in Outer, DeleteRule(o) PROVE Counts'
  <2>1. CountsAre(HashWithout(o), MapRuleWithout(o), rule_cfg)
    BY <1>0, FreeCounts DEF Counts
  <2>2. hash' = HashWithout(o) /\ map_rule' = MapRuleWithout(o) /\ rule_cfg' = rule_cfg
    BY <1>2 DEF DeleteRule
  <2> QED BY <2>1, <2>2 DEF Counts
<1>3. ASSUME NEW o \in Outer, NEW c \in Cfg, NEW check_old \in BOOLEAN, TryMap(o, c, check_old)
      PROVE  Counts'
  <2>1. CASE Answer(o, c, check_old) = "new" /\ InstallRule(o, c, Slot(c))
    <3> DEFINE a == Slot(c)
    <3>1. a \in Actual /\ map_rule[FamilyOf[c]][a] = 0
      BY <1>0, <2>1, SlotIsFree
    <3>2. InstallRule(o, c, a)
      BY <2>1
    <3> HIDE DEF a
    <3>3. /\ rule_cfg' = [rule_cfg EXCEPT ![FamilyOf[c]][a] = c]
          /\ map_rule' = [MapRuleWithout(o) EXCEPT ![FamilyOf[c]][a] = o]
          /\ hash' = [HashWithout(o) EXCEPT ![FamilyOf[c]] = acl_hash_insert(@, BucketOf[c], a)]
      BY <3>2 DEF InstallRule
    <3>4. /\ MapRuleWithout(o) \in [Family -> [Actual -> 0 .. MAX_RULE]]
          /\ MapRuleWithout(o)[FamilyOf[c]][a] = 0
      BY <1>0, <3>1, WithoutRule, AclRulesAssumption
    <3>5. CountsAre(HashWithout(o), MapRuleWithout(o), rule_cfg)
      BY <1>0, FreeCounts DEF Counts
    <3>6. rule_cfg \in [Family -> [Actual -> Cfg \cup {NONE}]]
      BY <1>0 DEF Maps, MapTypes
    <3>7. CountsAre(hash', map_rule', rule_cfg')
      BY <3>1, <3>3, <3>4, <3>5, <3>6, InsertCounts
    <3> QED BY <3>7 DEF Counts
  <2> QED BY <1>1, <1>3, <2>1 DEF TryMap
<1>4. CASE Reset
  BY <1>4, ZeroCounts DEF Reset, Counts
<1>5. ASSUME NEW o \in Outer, NEW c \in Cfg, Put(o, c) \/ Post(o, c) \/ PostAtomicRule(o, c)
      PROVE  Counts'
  BY <1>3, <1>5 DEF Put, Post, PostAtomicRule
<1>6. ASSUME NEW o \in Outer, Delete(o) \/ PostAtomicRollBack(o)
      PROVE  Counts'
  BY <1>2, <1>6 DEF Delete, PostAtomicRollBack
<1>7. CASE \/ PostAtomic \/ PostAtomicRefused
           \/ PostAtomicRaised \/ PostAtomicEnd
  BY <1>1, <1>7
  DEF PostAtomic, PostAtomicRefused, PostAtomicRaised, PostAtomicEnd
<1>8. CASE UNCHANGED ruleVars
  BY <1>1, <1>8 DEF ruleVars
<1> QED BY <1>4, <1>5, <1>6, <1>7, <1>8 DEF RulesNext

\* The counts of the buckets never run below 0 or over their eight bits, and
\* below the limit they are exact, whatever the links have come to: a bucket
\* that acl_hash_find takes for empty is empty.
THEOREM CountsAlwaysExact == RulesSpec => []CountsExact
<1>1. RulesInit => RulesInv /\ Counts
  BY InitRules, ZeroCounts DEF RulesInit, Counts
<1>2. RulesInv /\ Counts /\ [RulesNext]_ruleVars => (RulesInv /\ Counts)'
  BY NextRules, NextCounts
<1>3. RulesInv /\ Counts => CountsExact
  <2> SUFFICES ASSUME RulesInv, Counts PROVE CountsExact
    OBVIOUS
  <2>1. RulesTypeOK
    BY DEF RulesTypeOK, RulesInv, Maps, MapTypes, Counts, CountsAre, HashType
  <2>2. \A f \in Family, b \in Buckets : BucketSet(map_rule, rule_cfg, f, b) = InBucket(f, b)
    BY DEF BucketSet, InBucket
  <2>3. NodeCntExact
    BY <2>2 DEF NodeCntExact, Counts, CountsAre
  <2> QED BY <2>1, <2>3 DEF CountsExact
<1> QED BY <1>1, <1>2, <1>3, PTL DEF RulesSpec

-----------------------------------------------------------------------------
(* The sync                                                                *)

\* The first state of the sync protocol satisfies the inductive invariant.
LEMMA InitIInv == Init => IInv
<1> SUFFICES ASSUME Init PROVE IInv
  OBVIOUS
<1> USE AclSyncAssumption DEF Init
<1>1. TypeOK
  <2>1. 0 \in 0 .. TimesMod - 1 /\ 1 \in Slots
    BY DEF Slots
  <2>2. NoRules \in RuleSets
    BY DEF NoRules, RuleSets, Vals
  <2>3. ACL_SYNC_OK \in SyncFlags
    BY DEF SyncFlags
  <2>4. QED BY <2>1, <2>2, <2>3 DEF TypeOK, MainPCs, WorkerPCs
<1>2. MainInv
  BY DEF MainInv, Swapped
<1>3. LockInv
  BY DEF LockInv, Unlocked, Worker, Main
<1>4. NameInv
  BY DEF NameInv, Swapped, Freed
<1>5. WorkerInv
  BY DEF WorkerInv
<1>6. FlagInv
  BY DEF FlagInv, OnlyCrashStrands, Stranded, ACL_SYNC_OK, ACL_PREPARE_SYNC
<1>7. QED BY <1>1, <1>2, <1>3, <1>4, <1>5, <1>6 DEF IInv


USE DEF vars, shmVars, restVars, mainVars, tableVars, workerVars, boundVars,
        ACL_STILL_SYNC, ACL_NEED_SYNC, ACL_PREPARE_SYNC, ACL_SYNC_OK,
        ACL_SYNC_FAILED, Unlocked, Worker, Main, Freed, unlock_shm_mem,
        StillLeftOver, AfterSwap, LastWorker, FlipName, TimesIncrement,
        ClassifyArg

\* Freeing a table leaves the list of contexts and their rules well typed.
LEMMA TableFreeType ==
  ASSUME TypeOK, NEW c \in Ctx \cup {NULL}, TableFree(c)
  PROVE  ctxName' \in [Ctx -> {0, 1, Freed}] /\ content' \in [Ctx -> RuleSets]
<1>1. CASE c = NULL
  BY <1>1 DEF TableFree, TypeOK
<1>2. CASE c # NULL
  <2>1. NoRules \in RuleSets
    BY AclSyncAssumption DEF NoRules, RuleSets, Vals
  <2>2. QED BY <1>2, <2>1 DEF TableFree, TypeOK
<1>3. QED BY <1>1, <1>2

\* Every step keeps the variables in their ranges.
LEMMA TypeStep == ASSUME IInv, [Next]_vars PROVE TypeOK'
<1> USE AclSyncAssumption DEF IInv, TypeOK, MainInv, MainPCs, WorkerPCs, SyncFlags, RuleSets, NoRules
<1>1. ASSUME NEW s \in Slots, NEW v \in Vals, AclConfig(s, v) PROVE TypeOK'
  BY <1>1 DEF AclConfig, Slots, Vals
<1>2. CASE AclSyncPatch
  BY <1>2 DEF AclSyncPatch
<1>3. CASE AclRuleSync
  BY <1>3 DEF AclRuleSync
<1>4. CASE ResetAllConfig
  BY <1>4 DEF ResetAllConfig, Slots, Vals
<1>5. CASE UploadStart
  BY <1>5 DEF UploadStart
<1>6. ASSUME NEW s \in Slots, NEW v \in Vals, UploadRule(s, v) PROVE TypeOK'
  BY <1>6 DEF UploadRule, Slots, Vals
<1>7. CASE UploadEnd
  BY <1>7 DEF UploadEnd
<1>8. CASE RestCrash
  BY <1>8 DEF RestCrash
<1>9. CASE SyncProcessWake
  BY <1>9 DEF SyncProcessWake
<1>10. ASSUME NEW c \in Ctx, TableCreate(c) PROVE TypeOK'
  BY <1>10 DEF TableCreate, Slots, Vals
<1>11. CASE TableAddRule
  <2>1. content' \in [Ctx -> [Slots -> Vals]]
    <3>1. newCtx \in Ctx /\ rules[si] \in Vals
      BY <1>11 DEF TableAddRule
    <3>2. [content[newCtx] EXCEPT ![si] = rules[si]] \in [Slots -> Vals]
      BY <3>1
    <3>3. QED BY <1>11, <3>1, <3>2 DEF TableAddRule
  <2>2. si' \in Slots /\ pc' \in MainPCs
    BY <1>11 DEF TableAddRule, Slots
  <2>3. QED BY <1>11, <2>1, <2>2 DEF TableAddRule
<1>12. CASE TableBuild
  BY <1>12, TableFreeType DEF TableBuild, Slots, Vals
<1>13. CASE TableSetupFail
  <2>1. ctxName' \in [Ctx -> {0, 1, Freed}] /\ content' \in [Ctx -> RuleSets]
    <3>1. newCtx \in Ctx \cup {NULL} /\ TableFree(newCtx)
      BY <1>13 DEF TableSetupFail
    <3>2. QED BY <3>1, TableFreeType
  <2>2. QED BY <1>13, <2>1 DEF TableSetupFail, Slots
<1>14. CASE TableSwap
  BY <1>14 DEF TableSwap
<1>15. CASE GraceLock
  BY <1>15 DEF GraceLock
<1>16. CASE GraceUnlock
  BY <1>16 DEF GraceUnlock
<1>17. CASE TableRetire
  BY <1>17, TableFreeType DEF TableRetire, Slots, Vals
<1>18. CASE SyncFinish
  BY <1>18 DEF SyncFinish
<1>19. CASE VppCrash
  BY <1>19 DEF VppCrash, Slots, Vals
<1>20. ASSUME NEW w \in Workers, WorkerLock(w) PROVE TypeOK'
  BY <1>20 DEF WorkerLock
<1>21. ASSUME NEW w \in Workers, WorkerCheck(w) PROVE TypeOK'
  BY <1>21 DEF WorkerCheck
<1>22. ASSUME NEW w \in Workers, WorkerLoad(w) PROVE TypeOK'
  BY <1>22 DEF WorkerLoad
<1>23. ASSUME NEW w \in Workers, WorkerClassified(w) PROVE TypeOK'
  BY <1>23 DEF WorkerClassified
<1>24. ASSUME NEW w \in Workers, WorkerUnlock(w) PROVE TypeOK'
  BY <1>24 DEF WorkerUnlock
<1>25. CASE UNCHANGED vars
  BY <1>25
<1>26. QED
  BY  <1>1, <1>2, <1>3, <1>4, <1>5, <1>6, <1>7, <1>8, <1>9, <1>10, <1>11,
      <1>12, <1>13, <1>14, <1>15, <1>16, <1>17, <1>18, <1>19, <1>20,
      <1>21, <1>22, <1>23, <1>24, <1>25
  DEF Next, RestNext, MainNext, WorkerNext

\* Every step keeps the main thread's locals in line with where it is.
LEMMA MainStep == ASSUME IInv, [Next]_vars PROVE MainInv'
<1> USE AclSyncAssumption DEF IInv, TypeOK, MainInv, Swapped, MainPCs, Workers
<1>1. CASE RestNext
  BY <1>1 DEF RestNext, AclConfig, AclSyncPatch, AclRuleSync, ResetAllConfig, UploadStart, UploadRule, UploadEnd, RestCrash
<1>2. CASE SyncProcessWake
  BY <1>2 DEF SyncProcessWake
<1>3. ASSUME NEW c \in Ctx, TableCreate(c) PROVE MainInv'
  BY <1>3 DEF TableCreate
<1>4. CASE TableAddRule
  BY <1>4 DEF TableAddRule
<1>5. CASE TableBuild
  BY <1>5 DEF TableBuild
<1>6. CASE TableSetupFail
  BY <1>6 DEF TableSetupFail
<1>7. CASE TableSwap
  BY <1>7 DEF TableSwap
<1>8. CASE GraceLock
  BY <1>8 DEF GraceLock
<1>9. CASE GraceUnlock
  BY <1>9 DEF GraceUnlock
<1>10. CASE TableRetire
  BY <1>10 DEF TableRetire
<1>11. CASE SyncFinish
  BY <1>11 DEF SyncFinish
<1>12. CASE VppCrash
  BY <1>12 DEF VppCrash
<1>13. ASSUME NEW w \in Workers, WorkerLock(w) PROVE MainInv'
  BY <1>13 DEF WorkerLock
<1>14. ASSUME NEW w \in Workers, WorkerCheck(w) PROVE MainInv'
  BY <1>14 DEF WorkerCheck
<1>15. ASSUME NEW w \in Workers, WorkerLoad(w) PROVE MainInv'
  BY <1>15 DEF WorkerLoad
<1>16. ASSUME NEW w \in Workers, WorkerClassified(w) PROVE MainInv'
  BY <1>16 DEF WorkerClassified
<1>17. ASSUME NEW w \in Workers, WorkerUnlock(w) PROVE MainInv'
  BY <1>17 DEF WorkerUnlock
<1>18. CASE UNCHANGED vars
  BY <1>18
<1>19. QED
  BY  <1>1, <1>2, <1>3, <1>4, <1>5, <1>6, <1>7, <1>8, <1>9, <1>10, <1>11,
      <1>12, <1>13, <1>14, <1>15, <1>16, <1>17, <1>18
  DEF Next, MainNext, WorkerNext

\* Every step keeps the locks in line with who is inside.
LEMMA LockStep == ASSUME IInv, [Next]_vars PROVE LockInv'
<1> USE AclSyncAssumption DEF IInv, TypeOK, MainInv, LockInv, Workers, WorkerPCs
<1>1. CASE RestNext
  BY <1>1 DEF RestNext, AclConfig, AclSyncPatch, AclRuleSync, ResetAllConfig, UploadStart, UploadRule, UploadEnd, RestCrash
<1>2. CASE SyncProcessWake
  BY <1>2 DEF SyncProcessWake
<1>3. ASSUME NEW c \in Ctx, TableCreate(c) PROVE LockInv'
  BY <1>3 DEF TableCreate
<1>4. CASE TableAddRule
  BY <1>4 DEF TableAddRule
<1>5. CASE TableBuild
  BY <1>5 DEF TableBuild
<1>6. CASE TableSetupFail
  BY <1>6 DEF TableSetupFail
<1>7. CASE TableSwap
  BY <1>7 DEF TableSwap
<1>8. CASE GraceLock
  BY <1>8 DEF GraceLock
<1>9. CASE GraceUnlock
  BY <1>9 DEF GraceUnlock
<1>10. CASE TableRetire
  BY <1>10 DEF TableRetire
<1>11. CASE SyncFinish
  BY <1>11 DEF SyncFinish
<1>12. CASE VppCrash
  BY <1>12 DEF VppCrash
<1>13. ASSUME NEW w \in Workers, WorkerLock(w) PROVE LockInv'
  BY <1>13 DEF WorkerLock
<1>14. ASSUME NEW w \in Workers, WorkerCheck(w) PROVE LockInv'
  BY <1>14 DEF WorkerCheck
<1>15. ASSUME NEW w \in Workers, WorkerLoad(w) PROVE LockInv'
  BY <1>15 DEF WorkerLoad
<1>16. ASSUME NEW w \in Workers, WorkerClassified(w) PROVE LockInv'
  BY <1>16 DEF WorkerClassified
<1>17. ASSUME NEW w \in Workers, WorkerUnlock(w) PROVE LockInv'
  BY <1>17 DEF WorkerUnlock
<1>18. CASE UNCHANGED vars
  BY <1>18
<1>19. QED
  BY  <1>1, <1>2, <1>3, <1>4, <1>5, <1>6, <1>7, <1>8, <1>9, <1>10, <1>11,
      <1>12, <1>13, <1>14, <1>15, <1>16, <1>17, <1>18
  DEF Next, MainNext, WorkerNext

\* Every step keeps the context names apart.
LEMMA NameStep == ASSUME IInv, [Next]_vars PROVE NameInv'
<1> USE AclSyncAssumption DEF IInv, TypeOK, MainInv, NameInv, Swapped
<1>1. CASE RestNext
  BY <1>1 DEF RestNext, AclConfig, AclSyncPatch, AclRuleSync, ResetAllConfig, UploadStart, UploadRule, UploadEnd, RestCrash
<1>2. CASE SyncProcessWake
  BY <1>2 DEF SyncProcessWake
<1>3. ASSUME NEW c \in Ctx, TableCreate(c) PROVE NameInv'
  BY <1>3 DEF TableCreate, TableFree, Creatable, Named
<1>4. CASE TableAddRule
  BY <1>4 DEF TableAddRule
<1>5. CASE TableBuild
  BY <1>5 DEF TableBuild, TableFree, Creatable, Named
<1>6. CASE TableSetupFail
  BY <1>6 DEF TableSetupFail, TableFree, Creatable, Named
<1>7. CASE TableSwap
  BY <1>7 DEF TableSwap
<1>8. CASE GraceLock
  BY <1>8 DEF GraceLock
<1>9. CASE GraceUnlock
  BY <1>9 DEF GraceUnlock
<1>10. CASE TableRetire
  BY <1>10 DEF TableRetire, TableFree, Creatable, Named
<1>11. CASE SyncFinish
  BY <1>11 DEF SyncFinish
<1>12. CASE VppCrash
  BY <1>12 DEF VppCrash
<1>13. ASSUME NEW w \in Workers, WorkerLock(w) PROVE NameInv'
  BY <1>13 DEF WorkerLock
<1>14. ASSUME NEW w \in Workers, WorkerCheck(w) PROVE NameInv'
  BY <1>14 DEF WorkerCheck
<1>15. ASSUME NEW w \in Workers, WorkerLoad(w) PROVE NameInv'
  BY <1>15 DEF WorkerLoad
<1>16. ASSUME NEW w \in Workers, WorkerClassified(w) PROVE NameInv'
  BY <1>16 DEF WorkerClassified
<1>17. ASSUME NEW w \in Workers, WorkerUnlock(w) PROVE NameInv'
  BY <1>17 DEF WorkerUnlock
<1>18. CASE UNCHANGED vars
  BY <1>18
<1>19. QED
  BY  <1>1, <1>2, <1>3, <1>4, <1>5, <1>6, <1>7, <1>8, <1>9, <1>10, <1>11,
      <1>12, <1>13, <1>14, <1>15, <1>16, <1>17, <1>18
  DEF Next, MainNext, WorkerNext

\* Every step keeps the workers on the live or the old context.
LEMMA WorkerStep == ASSUME IInv, [Next]_vars PROVE WorkerInv'
<1> USE AclSyncAssumption DEF IInv, TypeOK, MainInv, LockInv, NameInv, WorkerInv, Swapped, Passed, Workers
<1>1. CASE RestNext
  BY <1>1 DEF RestNext, AclConfig, AclSyncPatch, AclRuleSync, ResetAllConfig, UploadStart, UploadRule, UploadEnd, RestCrash
<1>2. CASE SyncProcessWake
  BY <1>2 DEF SyncProcessWake
<1>3. ASSUME NEW c \in Ctx, TableCreate(c) PROVE WorkerInv'
  BY <1>3 DEF TableCreate
<1>4. CASE TableAddRule
  BY <1>4 DEF TableAddRule
<1>5. CASE TableBuild
  BY <1>5 DEF TableBuild
<1>6. CASE TableSetupFail
  BY <1>6 DEF TableSetupFail
<1>7. CASE TableSwap
  BY <1>7 DEF TableSwap
<1>8. CASE GraceLock
  BY <1>8 DEF GraceLock
<1>9. CASE GraceUnlock
  BY <1>9 DEF GraceUnlock
<1>10. CASE TableRetire
  BY <1>10 DEF TableRetire
<1>11. CASE SyncFinish
  BY <1>11 DEF SyncFinish
<1>12. CASE VppCrash
  BY <1>12 DEF VppCrash
<1>13. ASSUME NEW w \in Workers, WorkerLock(w) PROVE WorkerInv'
  BY <1>13 DEF WorkerLock
<1>14. ASSUME NEW w \in Workers, WorkerCheck(w) PROVE WorkerInv'
  BY <1>14 DEF WorkerCheck
<1>15. ASSUME NEW w \in Workers, WorkerLoad(w) PROVE WorkerInv'
  BY <1>15 DEF WorkerLoad
<1>16. ASSUME NEW w \in Workers, WorkerClassified(w) PROVE WorkerInv'
  BY <1>16 DEF WorkerClassified
<1>17. ASSUME NEW w \in Workers, WorkerUnlock(w) PROVE WorkerInv'
  BY <1>17 DEF WorkerUnlock
<1>18. CASE UNCHANGED vars
  BY <1>18
<1>19. QED
  BY  <1>1, <1>2, <1>3, <1>4, <1>5, <1>6, <1>7, <1>8, <1>9, <1>10, <1>11,
      <1>12, <1>13, <1>14, <1>15, <1>16, <1>17, <1>18
  DEF Next, MainNext, WorkerNext

\* Every step keeps the flag in line with the sync under way.
LEMMA FlagStep == ASSUME IInv, [Next]_vars PROVE FlagInv'
<1> USE AclSyncAssumption DEF IInv, TypeOK, FlagInv, OnlyCrashStrands, Stranded, SyncFlags, RequestAllowed
<1>1. ASSUME NEW s \in Slots, NEW v \in Vals, AclConfig(s, v) PROVE FlagInv'
  BY <1>1 DEF AclConfig
<1>2. CASE AclSyncPatch
  BY <1>2 DEF AclSyncPatch, AclRequestAllowed
<1>3. CASE AclRuleSync
  BY <1>3 DEF AclRuleSync
<1>4. CASE ResetAllConfig
  BY <1>4 DEF ResetAllConfig
<1>5. CASE UploadStart
  BY <1>5 DEF UploadStart
<1>6. ASSUME NEW s \in Slots, NEW v \in Vals, UploadRule(s, v) PROVE FlagInv'
  BY <1>6 DEF UploadRule
<1>7. CASE UploadEnd
  BY <1>7 DEF UploadEnd
<1>8. CASE RestCrash
  BY <1>8 DEF RestCrash
<1>9. CASE SyncProcessWake
  BY <1>9 DEF SyncProcessWake
<1>10. ASSUME NEW c \in Ctx, TableCreate(c) PROVE FlagInv'
  BY <1>10 DEF TableCreate
<1>11. CASE TableAddRule
  BY <1>11 DEF TableAddRule
<1>12. CASE TableBuild
  BY <1>12 DEF TableBuild
<1>13. CASE TableSetupFail
  BY <1>13 DEF TableSetupFail
<1>14. CASE TableSwap
  BY <1>14 DEF TableSwap
<1>15. CASE GraceLock
  BY <1>15 DEF GraceLock
<1>16. CASE GraceUnlock
  BY <1>16 DEF GraceUnlock
<1>17. CASE TableRetire
  BY <1>17 DEF TableRetire
<1>18. CASE SyncFinish
  BY <1>18 DEF SyncFinish
<1>19. CASE VppCrash
  BY <1>19 DEF VppCrash
<1>20. ASSUME NEW w \in Workers, WorkerLock(w) PROVE FlagInv'
  BY <1>20 DEF WorkerLock
<1>21. ASSUME NEW w \in Workers, WorkerCheck(w) PROVE FlagInv'
  BY <1>21 DEF WorkerCheck
<1>22. ASSUME NEW w \in Workers, WorkerLoad(w) PROVE FlagInv'
  BY <1>22 DEF WorkerLoad
<1>23. ASSUME NEW w \in Workers, WorkerClassified(w) PROVE FlagInv'
  BY <1>23 DEF WorkerClassified
<1>24. ASSUME NEW w \in Workers, WorkerUnlock(w) PROVE FlagInv'
  BY <1>24 DEF WorkerUnlock
<1>25. CASE UNCHANGED vars
  BY <1>25
<1>26. QED
  BY  <1>1, <1>2, <1>3, <1>4, <1>5, <1>6, <1>7, <1>8, <1>9, <1>10, <1>11,
      <1>12, <1>13, <1>14, <1>15, <1>16, <1>17, <1>18, <1>19, <1>20,
      <1>21, <1>22, <1>23, <1>24, <1>25
  DEF Next, RestNext, MainNext, WorkerNext

\* The inductive invariant holds in every reachable state.
THEOREM Invariance == Spec => []IInv
<1>1. IInv /\ [Next]_vars => IInv'
  BY TypeStep, MainStep, LockStep, NameStep, WorkerStep, FlagStep DEF IInv
<1>2. QED BY InitIInv, <1>1, PTL DEF Spec

\* The variables keep the ranges of their C types; acl_sync_times never runs
\* into the negative numbers that mean an error.
THEOREM TypeCorrect == Spec => []TypeOK
<1>1. IInv => TypeOK
  BY DEF IInv
<1>2. QED BY Invariance, <1>1, PTL

\* For any number of workers and contexts, no frame is classified with a freed
\* table.
THEOREM TableNeverFreedInUse == Spec => []NoUseAfterFree
<1>1. IInv => NoUseAfterFree
  BY DEF IInv, TypeOK, NameInv, WorkerInv, NoUseAfterFree
<1>2. QED BY Invariance, <1>1, PTL

\* For any number of workers and contexts, rules are never added to a table
\* that workers can reach.
THEOREM TableBuiltInPrivate == Spec => []BuildIsPrivate
<1>1. IInv => BuildIsPrivate
  BY DEF IInv, TypeOK, MainInv, NameInv, WorkerInv, BuildIsPrivate, Swapped
<1>2. QED BY Invariance, <1>1, PTL

\* However many syncs succeed or fail, no table is leaked.
THEOREM TablesNotLeaked == Spec => []NoContextLeak
<1>1. IInv => NoContextLeak
  BY AclSyncAssumption
  DEF IInv, TypeOK, MainInv, NameInv, NoContextLeak, Swapped
<1>2. QED BY Invariance, <1>1, PTL

\* The sync runs only under the flag that makes restd refuse requests.
THEOREM SyncRunsUnderFlag == Spec => []FlagGuardsSync
<1>1. IInv => FlagGuardsSync
  BY DEF IInv, TypeOK, FlagInv, FlagGuardsSync
<1>2. QED BY Invariance, <1>1, PTL

\* A flag or a lock in shared memory that nobody will lower is the work of a restd
\* that died, however many workers, rules and uploads there are; and the flag
\* covers every step of the sync.
THEOREM FlagAlwaysSound == Spec => []FlagSound
<1>1. IInv => FlagSound
  BY DEF IInv, TypeOK, FlagInv, FlagGuardsSync, FlagSound
<1>2. QED BY Invariance, <1>1, PTL

\* The swap of the tables is safe for any number of workers, rules and contexts:
\* no frame meets a freed table, one under construction or, in a build that
\* loads the pointer once, none at all; and none is leaked.
THEOREM TablesAlwaysSafe == Spec => []TablesSafe
<1>1. IInv => ClassifyNotNull
  BY DEF IInv, WorkerInv, ClassifyNotNull
<1>2. []IInv => []ClassifyNotNull
  BY <1>1, PTL
<1>3. NoUseAfterFree /\ BuildIsPrivate /\ NoContextLeak /\ ClassifyNotNull => TablesSafe
  BY DEF TablesSafe
<1>4. QED
  BY Invariance, TableNeverFreedInUse, TableBuiltInPrivate, TablesNotLeaked,
     <1>2, <1>3, PTL

-----------------------------------------------------------------------------
(* AclSync implements AclTable                                             *)

\* What the packets see is the same when neither the pointers nor the rules
\* of a context in use change.
LEMMA NothingSeen ==
  ASSUME IInv, v46_context' = v46_context, wctx' = wctx, wpc' = wpc,
         \A c \in Ctx : content'[c] # content[c] =>
            c # v46_context /\ \A w \in Workers : Matching(w) => wctx[w] # c
  PROVE  table' = table /\ frame' = frame
<1>1. table' = table
  BY DEF IInv, TypeOK, table, RulesOf
<1>2. \A w \in Workers : Matching(w)' <=> Matching(w)
  BY DEF Matching
<1>3. \A w \in Workers : Matching(w) => content'[wctx[w]] = content[wctx[w]]
  BY DEF Matching, IInv, TypeOK
<1>4. frame' = frame
  BY <1>2, <1>3 DEF frame
<1>5. QED BY <1>1, <1>4

\* Freeing a context that nobody can reach is not seen.
LEMMA FreeNotSeen ==
  ASSUME IInv, NEW c \in Ctx \cup {NULL}, TableFree(c),
         v46_context' = v46_context, wctx' = wctx, wpc' = wpc,
         c # NULL => c # v46_context /\ \A w \in Workers : wctx[w] # c
  PROVE  table' = table /\ frame' = frame
<1>1. \A d \in Ctx : content'[d] # content[d] => d = c /\ c # NULL
  BY DEF TableFree, IInv, TypeOK
<1>2. QED BY <1>1, NothingSeen

\* A step of a worker changes its own entry of the abstract frames only.
LEMMA FrameOfOne ==
  ASSUME IInv, NEW w \in Workers, content' = content,
         \A v \in Workers : v # w => wctx'[v] = wctx[v] /\ wpc'[v] = wpc[v]
  PROVE  frame' = [frame EXCEPT ![w] = frame'[w]]
  BY DEF frame, Matching

\* The initial states of the sync protocol are initial states of AclTable.
LEMMA RefineInit == Init => A!Init
  BY AclSyncAssumption DEF Init, A!Init, table, frame, RulesOf, Matching

\* Every step of the sync protocol is a step of AclTable or is not seen.
LEMMA RefineNext ==
  ASSUME IInv, [Next]_vars PROVE [A!Next]_<<table, frame>>
<1> USE AclSyncAssumption
<1>1. CASE RestNext
  <2>1. UNCHANGED <<tableVars, workerVars>>
    BY <1>1 DEF RestNext, AclConfig, AclSyncPatch, AclRuleSync,
       ResetAllConfig, UploadStart, UploadRule, UploadEnd, RestCrash
  <2>2. QED BY <2>1, NothingSeen
<1>2. CASE SyncProcessWake \/ GraceLock \/ GraceUnlock \/ SyncFinish
  <2>1. UNCHANGED <<tableVars, workerVars>>
    BY <1>2 DEF SyncProcessWake, GraceLock, GraceUnlock, SyncFinish
  <2>2. QED BY <2>1, NothingSeen
<1>3. ASSUME NEW c \in Ctx, TableCreate(c) PROVE table' = table /\ frame' = frame
  BY <1>3, NothingSeen DEF TableCreate
<1>4. CASE TableAddRule
  <2>1. newCtx \in Ctx /\ BuildIsPrivate
    BY <1>4 DEF IInv, TypeOK, MainInv, NameInv, WorkerInv, BuildIsPrivate,
                Swapped, TableAddRule
  <2>2. \A c \in Ctx : content'[c] # content[c] => c = newCtx
    BY <1>4, <2>1 DEF TableAddRule, IInv, TypeOK
  <2>3. QED BY <1>4, <2>1, <2>2, NothingSeen DEF TableAddRule, BuildIsPrivate
<1>5. CASE TableBuild
  <2>1. newCtx \in Ctx /\ BuildIsPrivate
    BY <1>5 DEF IInv, TypeOK, MainInv, NameInv, WorkerInv, BuildIsPrivate,
                Swapped, TableBuild
  <2>2. CASE content[newCtx] = NoRules
    BY <1>5, <2>1, <2>2, FreeNotSeen DEF TableBuild, BuildIsPrivate
  <2>3. CASE content[newCtx] # NoRules
    BY <1>5, <2>3, NothingSeen DEF TableBuild
  <2>4. QED BY <2>2, <2>3
<1>6. CASE TableSetupFail
  <2>1. newCtx \in Ctx \cup {NULL} /\ TableFree(newCtx)
    BY <1>6 DEF IInv, TypeOK, TableSetupFail
  <2>2. newCtx # NULL =>
          newCtx # v46_context /\ \A w \in Workers : wctx[w] # newCtx
    BY <1>6 DEF IInv, TypeOK, MainInv, NameInv, WorkerInv, Swapped,
                TableSetupFail
  <2>3. QED BY <1>6, <2>1, <2>2, FreeNotSeen DEF TableSetupFail
<1>7. CASE TableSwap
  <2>1. table' \in RuleSets
    BY <1>7 DEF TableSwap, table, RulesOf, IInv, TypeOK, NoRules, RuleSets,
                Vals
  <2>2. frame' = frame
    BY <1>7 DEF TableSwap, frame, Matching
  <2>3. QED BY <2>1, <2>2 DEF A!Next, A!Install
<1>8. CASE TableRetire
  <2>1. oldCtx \in Ctx \cup {NULL} /\ TableFree(oldCtx)
    BY <1>8 DEF IInv, TypeOK, TableRetire
  <2>2. oldCtx # NULL =>
          oldCtx # v46_context /\ \A w \in Workers : wctx[w] # oldCtx
    BY <1>8 DEF IInv, TypeOK, MainInv, NameInv, WorkerInv, Swapped, Passed,
                TableRetire
  <2>3. QED BY <1>8, <2>1, <2>2, FreeNotSeen DEF TableRetire
<1>9. CASE VppCrash
  <2>1. table' = NoRules
    BY <1>9 DEF VppCrash, table, RulesOf
  <2>2. frame' = [w \in Workers |-> Idle]
    BY <1>9 DEF VppCrash, frame, Matching
  <2>3. QED BY <2>1, <2>2 DEF A!Next, A!Restart
<1>10. ASSUME NEW w \in Workers, WorkerLock(w) \/ WorkerUnlock(w)
       PROVE  table' = table /\ frame' = frame
  <2>1. table' = table
    BY <1>10 DEF WorkerLock, WorkerUnlock, table, RulesOf
  <2>2. \A v \in Workers : Matching(v)' <=> Matching(v)
    BY <1>10 DEF WorkerLock, WorkerUnlock, Matching, IInv, TypeOK
  <2>3. QED BY <1>10, <2>1, <2>2 DEF WorkerLock, WorkerUnlock, frame
<1>11. ASSUME NEW w \in Workers,
              WorkerCheck(w) \/ WorkerLoad(w) \/ WorkerClassified(w)
       PROVE  [A!Next]_<<table, frame>>
  <2>1. table' = table
    BY <1>11 DEF WorkerCheck, WorkerLoad, WorkerClassified, table, RulesOf
  <2>2. frame' = [frame EXCEPT ![w] = frame'[w]]
    BY <1>11, FrameOfOne DEF WorkerCheck, WorkerLoad, WorkerClassified,
                             IInv, TypeOK
  <2>3. CASE frame'[w] = Idle
    BY <2>1, <2>2, <2>3 DEF A!Next, A!End
  <2>4. CASE frame'[w] # Idle
    <3>1. Matching(w)'
      BY <2>4 DEF frame
    <3>2. CASE Matching(w)
      <4>1. wctx'[w] = wctx[w] /\ content' = content
        BY <1>11, <3>1, <3>2
        DEF WorkerCheck, WorkerLoad, WorkerClassified, Matching, IInv, TypeOK
      <4>2. frame'[w] = frame[w]
        BY <3>1, <3>2, <4>1 DEF frame
      <4>3. frame' = frame
        BY <2>2, <4>2 DEF frame
      <4>4. QED BY <2>1, <4>3
    <3>3. CASE ~Matching(w)
      <4>1. wctx'[w] = v46_context /\ v46_context # NULL /\ content' = content
        BY <1>11, <3>1, <3>3
        DEF WorkerCheck, WorkerLoad, WorkerClassified, Matching, IInv, TypeOK
      <4>2. frame'[w] = table /\ frame[w] = Idle
        BY <3>1, <3>3, <4>1 DEF frame, table, RulesOf
      <4>3. QED BY <2>1, <2>2, <4>2 DEF A!Next, A!Begin
    <3>4. QED BY <3>2, <3>3
  <2>5. QED BY <2>3, <2>4
<1>12. CASE UNCHANGED vars
  BY <1>12, NothingSeen
<1>13. QED
  BY <1>1, <1>2, <1>3, <1>4, <1>5, <1>6, <1>7, <1>8, <1>9, <1>10, <1>11,
     <1>12
  DEF Next, MainNext, WorkerNext

\* The sync protocol implements the atomic table, for any number of workers,
\* rule slots and contexts, crashes and uploads included.
THEOREM TableIsAtomic == Spec => AtomicTable
<1>1. IInv /\ [Next]_vars => [A!Next]_<<table, frame>>
  BY RefineNext
<1>2. QED BY Invariance, RefineInit, <1>1, PTL DEF Spec, AtomicTable, A!Spec
=============================================================================
