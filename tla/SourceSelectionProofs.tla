------------------------ MODULE SourceSelectionProofs ------------------------
(***************************************************************************)
(* What resolve_plan and the stage promise for every card and recipe.      *)
(*                                                                         *)
(* A selection fits the card, and, for a recipe like the one this port     *)
(* ships (one ABI, no container rule), it is never a guess.                *)
(*                                                                         *)
(* What is committed is what one undisturbed run makes of it.  That is not *)
(* inductive: FreshInv adds that whatever lies in the stage belongs to the *)
(* fingerprint in state.json (OfState), that a run which extracts or       *)
(* processes works for that fingerprint (StateIsOfRun), and that a file of *)
(* the plan has just the stamps of the hooks before the current one        *)
(* (FilesAreTraced, over Trace).  A hook finds its place among those of a  *)
(* file by counting the hooks before it (Before, Nth).                     *)
(*                                                                         *)
(* With OneStepInv, which ties the plan of a run to the card that is in,   *)
(* every run implements an install that is a single step.                  *)
(***************************************************************************)
EXTENDS StageResume, FiniteSetTheorems, SequenceTheorems, TLAPS

(* The recipe of the port: extractor.json has one ABI, no rule that takes  *)
(* an APK as a whole, and a name for each rule.                            *)
OneAbi == Len(Abis) = 1

Kinds == {"entry", "entries", "file", "entry_or_file"}

PlainRules == /\ \A i \in DOMAIN Rules : Rules[i].kind \in Kinds
              /\ \A i, j \in DOMAIN Rules : Rules[i].id = Rules[j].id => i = j
-----------------------------------------------------------------------------
(* Every group of a card sees the same loose files.                        *)
LEMMA LooseIsShared ==
  ASSUME NEW found, NEW g \in Groups(found)
  PROVE  g.loose = Loose(found) /\ g.source \in {"apk-set", "bundle", "companion"}
BY DEF Groups, AllGroups, BundleGroups, DirectGroups, Group

(* A plan comes from a group and an ABI that build.                        *)
LEMMA PlanHasOrigin ==
  ASSUME NEW found, NEW p \in Plans(found)
  PROVE  \E g \in Groups(found), abi \in AbiSet : p = PlanOf(g, abi) /\ Builds(g, abi)
BY DEF Plans

LEMMA ItemHasRule ==
  ASSUME NEW g, NEW abi, NEW x \in Items(g, abi)
  PROVE  \E i \in DOMAIN Rules : x \in RuleItems(i, g, abi)
BY RulesAssumption DEF Items, ItemsUpTo

(* With one ABI there is one rank.                                         *)
LEMMA OneAbiOnly ==
  ASSUME OneAbi
  PROVE  \A a, b \in AbiSet : a = b
BY AbisAssumption DEF OneAbi, AbiSet

(* A nonempty set of naturals has a least element.  The numbers below all  *)
(* of it would otherwise be closed under successor: a finite set that is   *)
(* mapped one to one into itself without 0.                                *)
LEMMA LeastOf ==
  ASSUME NEW S, S \subseteq Nat, S # {}
  PROVE  \E n \in S : \A m \in S : n <= m
<1>1. SUFFICES ASSUME \A n \in S : \E m \in S : m < n
               PROVE  FALSE
  OBVIOUS
<1>2. PICK top \in S : TRUE
  OBVIOUS
<1> DEFINE Below == {k \in 0..top : \A n \in S : k < n}
           succ == [k \in Below |-> k + 1]
<1>3. 0 \in Below
  <2>1. SUFFICES ASSUME NEW n \in S, ~(0 < n)
                 PROVE  FALSE
    BY <1>2
  <2>2. PICK m \in S : m < n
    BY <1>1
  <2> QED BY <2>1, <2>2
<1>4. \A k \in Below : k + 1 \in Below
  <2>1. SUFFICES ASSUME NEW k \in Below, NEW n \in S, ~(k + 1 < n)
                 PROVE  FALSE
    BY <1>2
  <2>2. PICK m \in S : m < n
    BY <1>1
  <2> QED BY <2>1, <2>2
<1>5. IsFiniteSet(Below)
  <2>1. IsFiniteSet(0..top)
    BY <1>2, FS_Interval
  <2>2. Below \in SUBSET (0..top)
    OBVIOUS
  <2> HIDE DEF Below
  <2> QED BY <2>1, <2>2, FS_Subset
<1>6. IsFiniteSet(Below \ {0}) /\ Cardinality(Below \ {0}) = Cardinality(Below) - 1
  BY <1>3, <1>5, FS_RemoveElement
<1>7. succ \in Injection(Below, Below \ {0})
  BY <1>4 DEF Injection, IsInjective
<1>8. Cardinality(Below) <= Cardinality(Below \ {0})
  BY <1>6, <1>7, FS_Injection
<1>9. Cardinality(Below) \in Nat
  BY <1>5, FS_CardinalityType
<1> QED BY <1>6, <1>8, <1>9

(* The place of an ABI in abi_order.                                       *)
LEMMA AbiHasRank ==
  ASSUME NEW abi \in AbiSet
  PROVE  AbiRank(abi) \in Nat
<1> DEFINE places == {i \in DOMAIN Abis : Abis[i] = abi}
<1>1. DOMAIN Abis = 1..Len(Abis) /\ Len(Abis) \in Nat
  BY AbisAssumption
<1>2. places \subseteq Nat /\ places # {}
  BY <1>1 DEF AbiSet
<1>3. PICK i \in places : \A j \in places : i <= j
  <2> HIDE DEF places
  <2> QED BY <1>2, LeastOf
<1>4. \E k \in DOMAIN Abis : Abis[k] = abi /\ \A j \in DOMAIN Abis : Abis[j] = abi => k <= j
  BY <1>3
<1>5. AbiRank(abi) \in DOMAIN Abis
  BY <1>4 DEF AbiRank
<1> QED BY <1>1, <1>5

(* The best of some plans is one of them.                                  *)
LEMMA BestIsThere ==
  ASSUME NEW found, Plans(found) # {}
  PROVE  Best(Plans(found)) \in Plans(found)
<1> DEFINE ps == Plans(found)
           Abi(p) == AbiRank(p.abi)
           Source(p) == SourceRank[p.group.source]
           abis == {Abi(p) : p \in ps}
<1>1. \A p \in ps : p.group.source \in {"apk-set", "bundle", "companion"} /\ p.abi \in AbiSet
  BY PlanHasOrigin, LooseIsShared DEF PlanOf
<1>2. \A p \in ps : Abi(p) \in Nat
  BY <1>1, AbiHasRank
<1>3. \A p \in ps : Source(p) \in Nat
  BY <1>1, SMT DEF SourceRank
<1> HIDE DEF Abi, Source, ps
<1>4. PICK a \in abis : \A b \in abis : a <= b
  <2>1. abis \subseteq Nat /\ abis # {}
    BY <1>2 DEF ps
  <2> HIDE DEF abis
  <2> QED BY <2>1, LeastOf
<1> DEFINE sources == {Source(p) : p \in {q \in ps : Abi(q) = a}}
<1>5. PICK s \in sources : \A t \in sources : s <= t
  <2>1. sources \subseteq Nat /\ sources # {}
    BY <1>3, <1>4
  <2> HIDE DEF sources
  <2> QED BY <2>1, LeastOf
<1>6. PICK p \in ps : Abi(p) = a /\ Source(p) = s
  BY <1>5
<1>7. ASSUME NEW q \in ps PROVE Preferred(p, q)
  <2>1. Abi(q) \in Nat /\ Abi(p) \in Nat /\ Abi(p) <= Abi(q)
    BY <1>2, <1>4, <1>6
  <2>2. CASE Abi(q) = Abi(p)
    <3>1. Source(p) <= Source(q)
      BY <1>5, <1>6, <2>2
    <3> QED BY <2>2, <3>1 DEF Preferred, Abi, Source
  <2>3. CASE Abi(p) < Abi(q)
    BY <2>3 DEF Preferred, Abi
  <2> QED BY <2>1, <2>2, <2>3
<1> QED BY <1>6, <1>7 DEF Best, ps

(* What a selection went through.                                          *)
LEMMA Resolved ==
  ASSUME NEW from, Resolve(from) # NoPlan
  PROVE  /\ ~Aborted(Searched(from))
         /\ Plans(Searched(from)) # {}
         /\ Resolve(from) = Best(Plans(Searched(from)))
         /\ \A p, q \in Plans(Searched(from)) : Fingerprint(p.items) = Fingerprint(q.items)
BY DEF Resolve
-----------------------------------------------------------------------------
(* An item whose CRC is not known is a loose file that its rule accepts.   *)
LEMMA InexactIsLoose ==
  ASSUME NEW i \in DOMAIN Rules, NEW g, NEW abi,
         NEW x \in RuleItems(i, g, abi), ~x.exact
  PROVE  /\ Rules[i].kind # "entries"
         /\ \E h \in FileHits(Rules[i], g, abi) : x.data = h.data
<1>1. Rules[i].kind # "entries"
  BY DEF RuleItems, ManyItems, Item
<1>2. x \in OneItems(Rules[i], g, abi)
  BY <1>1 DEF RuleItems
<1>3. FileHits(Rules[i], g, abi) # {} /\
      x = Item(Rules[i], CHOOSE h \in FileHits(Rules[i], g, abi) : TRUE, abi, FALSE)
  BY <1>2 DEF OneItems, Item
<1> QED BY <1>1, <1>3 DEF Item

LEMMA ItemIsOfRule ==
  ASSUME NEW i \in DOMAIN Rules, NEW g, NEW abi, NEW x \in RuleItems(i, g, abi)
  PROVE  x.rule = Rules[i].id
<1>1. CASE Rules[i].kind = "entries"
  <2>1. PICK h \in AllHits(Rules[i], g, abi) : x = Item(Rules[i], h, abi, TRUE)
    BY <1>1 DEF RuleItems, ManyItems
  <2> QED BY <2>1 DEF Item
<1>2. CASE Rules[i].kind # "entries"
  <2>1. x \in OneItems(Rules[i], g, abi)
    BY <1>2 DEF RuleItems
  <2>2. \E h, e : x = Item(Rules[i], h, abi, e)
    BY <2>1, Zenon DEF OneItems
  <2> QED BY <2>2 DEF Item
<1> QED BY <1>1, <1>2

(* Which whole files a rule may take does not depend on the group.         *)
LEMMA FilesAreShared ==
  ASSUME NEW found, NEW g \in Groups(found), NEW k \in Groups(found),
         NEW i \in DOMAIN Rules, NEW abi, PlainRules
  PROVE  FileHits(Rules[i], g, abi) = FileHits(Rules[i], k, abi)
<1>1. g.loose = k.loose
  BY LooseIsShared
<1>2. WholeFiles(Rules[i], g) = WholeFiles(Rules[i], k)
  BY <1>1 DEF WholeFiles, PlainRules, Kinds
<1> QED BY <1>2 DEF FileHits

LEMMA RuleDidNotFail ==
  ASSUME NEW g, NEW abi, Builds(g, abi), NEW i \in DOMAIN Rules
  PROVE  ~RuleFails(i, g, abi)
BY RulesAssumption, SMT DEF Builds, FailsBefore

(* Two sets with the same fingerprint write the same files.                *)
LEMMA SameFiles ==
  ASSUME OneAbi, PlainRules, NEW from,
         NEW p \in Plans(Searched(from)), NEW q \in Plans(Searched(from)),
         Fingerprint(p.items) = Fingerprint(q.items)
  PROVE  Contents(p.items) \subseteq Contents(q.items)
<1> DEFINE found == Searched(from)
<1>1. PICK g \in Groups(found), abi \in AbiSet : p = PlanOf(g, abi) /\ Builds(g, abi)
  BY PlanHasOrigin
<1>2. PICK k \in Groups(found) : q = PlanOf(k, abi) /\ Builds(k, abi)
  BY PlanHasOrigin, OneAbiOnly
<1>3. p.items = Items(g, abi) /\ q.items = Items(k, abi)
  BY <1>1, <1>2 DEF PlanOf
<1>4. SUFFICES ASSUME NEW x \in Items(g, abi)
               PROVE  <<x.dest, x.data>> \in Contents(q.items)
  BY <1>3 DEF Contents
<1>5. PICK y \in Items(k, abi) :
        /\ y.rule = x.rule /\ y.dest = x.dest
        /\ (IF y.exact THEN <<y.data>> ELSE << >>) = (IF x.exact THEN <<x.data>> ELSE << >>)
  <2>1. [rule |-> x.rule, dest |-> x.dest, size |-> Size[x.data],
         crc |-> IF x.exact THEN <<x.data>> ELSE << >>] \in Fingerprint(p.items)
    BY <1>3 DEF Fingerprint
  <2>2. [rule |-> x.rule, dest |-> x.dest, size |-> Size[x.data],
         crc |-> IF x.exact THEN <<x.data>> ELSE << >>] \in Fingerprint(q.items)
    BY <2>1
  <2> QED BY <2>2, <1>3 DEF Fingerprint
<1>6. PICK i \in DOMAIN Rules : x \in RuleItems(i, g, abi)
  BY ItemHasRule
<1>7. PICK j \in DOMAIN Rules : y \in RuleItems(j, k, abi)
  BY ItemHasRule
<1>8. i = j
  BY <1>5, <1>6, <1>7, ItemIsOfRule DEF PlainRules
<1>9. y.data = x.data
  <2>1. CASE x.exact
    BY <2>1, <1>5
  <2>2. CASE ~x.exact
    <3>1. ~y.exact
      BY <2>2, <1>5
    <3>2. PICK h \in FileHits(Rules[i], g, abi) : x.data = h.data
      BY <2>2, <1>6, InexactIsLoose
    <3>3. PICK l \in FileHits(Rules[i], g, abi) : y.data = l.data
      BY <3>1, <1>7, <1>8, InexactIsLoose, FilesAreShared
    <3>4. Rules[i].kind # "entries"
      BY <2>2, <1>6, InexactIsLoose
    <3>5. ~OneFails(Rules[i], g, abi)
      BY <3>4, <1>1, RuleDidNotFail DEF RuleFails
    <3>6. h.data \in OneData(Rules[i], g, abi) /\ l.data \in OneData(Rules[i], g, abi)
      BY DEF OneData
    <3> QED BY <3>2, <3>3, <3>5, <3>6 DEF OneFails
  <2> QED BY <2>1, <2>2
<1> QED BY <1>3, <1>5, <1>9 DEF Contents

(* For every card: whatever the installer selects, no other set it could   *)
(* have built from the same files would have written anything else         *)
(* (resolve_plan, "keep one version").                                     *)
THEOREM SelectionIsNoGuess ==
  ASSUME OneAbi, PlainRules, NEW from
  PROVE  NoGuess(from)
<1>1. SUFFICES ASSUME Resolve(from) # NoPlan, NEW p \in Plans(Searched(from))
               PROVE  Contents(p.items) = Contents(Resolve(from).items)
  BY DEF NoGuess
<1>2. Resolve(from) \in Plans(Searched(from))
  BY <1>1, Resolved, BestIsThere
<1>3. Fingerprint(p.items) = Fingerprint(Resolve(from).items)
  BY <1>1, <1>2, Resolved
<1>4. Contents(p.items) \subseteq Contents(Resolve(from).items)
  BY <1>2, <1>3, SameFiles
<1>5. Contents(Resolve(from).items) \subseteq Contents(p.items)
  BY <1>2, <1>3, SameFiles
<1> QED BY <1>4, <1>5
-----------------------------------------------------------------------------
(* Every rule before the last was tried without an error.                  *)
LEMMA NothingFailedBefore ==
  ASSUME NEW g, NEW abi, Builds(g, abi), NEW i \in DOMAIN Rules
  PROVE  ~FailsBefore(i, g, abi)
<1>1. \A j \in 1..i - 1 : ~RuleFails(j, g, abi)
  BY RulesAssumption, RuleDidNotFail
<1>2. ~Conflicting(ItemsUpTo(Len(Rules), g, abi))
  <2>1. Len(Rules) + 1 - 1 = Len(Rules)
    BY RulesAssumption
  <2> QED BY <2>1 DEF Builds, FailsBefore
<1>3. ItemsUpTo(i - 1, g, abi) \subseteq ItemsUpTo(Len(Rules), g, abi)
  <2>1. 1..i - 1 \subseteq 1..Len(Rules)
    BY RulesAssumption
  <2> QED BY <2>1 DEF ItemsUpTo
<1>4. ~Conflicting(ItemsUpTo(i - 1, g, abi))
  BY <1>2, <1>3 DEF Conflicting
<1> QED BY <1>1, <1>4 DEF FailsBefore

LEMMA RuleGivesItem ==
  ASSUME NEW g, NEW abi, Builds(g, abi), NEW i \in DOMAIN Rules,
         Rules[i].required, Rules[i].kind # "entries"
  PROVE  \E x \in RuleItems(i, g, abi) :
            x.rule = Rules[i].id /\ x.data \in Rules[i].accept[abi]
<1> DEFINE one == MemberHits(Rules[i], g, abi)
           file == FileHits(Rules[i], g, abi)
<1>1. one \cup file # {}
  BY RuleDidNotFail DEF RuleFails, OneFails, OneData
<1>2. \A h \in one \cup file : h.data \in Rules[i].accept[abi]
  BY DEF MemberHits, FileHits, Valid
<1>3. RuleItems(i, g, abi) = OneItems(Rules[i], g, abi)
  BY DEF RuleItems
<1>4. CASE one # {}
  <2> DEFINE h == CHOOSE c \in one : TRUE
  <2>1. h \in one
    BY <1>4
  <2>2. Item(Rules[i], h, abi, TRUE) \in OneItems(Rules[i], g, abi)
    BY <1>4 DEF OneItems
  <2> QED BY <2>1, <2>2, <1>2, <1>3 DEF Item
<1>5. CASE one = {} /\ file # {}
  <2> DEFINE h == CHOOSE c \in file : TRUE
  <2>1. h \in file
    BY <1>5
  <2>2. Item(Rules[i], h, abi, FALSE) \in OneItems(Rules[i], g, abi)
    BY <1>5 DEF OneItems
  <2> QED BY <2>1, <2>2, <1>2, <1>3 DEF Item
<1> QED BY <1>1, <1>4, <1>5

(* For every card: a selection has no two files for one portable path,     *)
(* writes under the commit roots alone, and holds what each required rule  *)
(* asks for (_choose_many, build_plan_for, _under_any_commit).             *)
THEOREM SelectionFits ==
  ASSUME NEW from, Resolve(from) # NoPlan
  PROVE  Portable(Resolve(from))
<1> DEFINE found == Searched(from)
           plan == Resolve(from)
<1>1. plan \in Plans(found)
  BY Resolved, BestIsThere
<1>2. PICK g \in Groups(found), abi \in AbiSet : plan = PlanOf(g, abi) /\ Builds(g, abi)
  BY <1>1, PlanHasOrigin
<1>3. plan.items = Items(g, abi) /\ plan.abi = abi
  BY <1>2 DEF PlanOf
<1>4. ~Aborts(g, abi)
  BY Resolved DEF Aborted
<1>5. \A x, y \in plan.items : Fold[x.dest] = Fold[y.dest] => x = y
  <2>1. Len(Rules) + 1 - 1 = Len(Rules)
    BY RulesAssumption
  <2> QED BY <2>1, <1>2, <1>3 DEF Builds, FailsBefore, Conflicting, Items
<1>6. \A x \in plan.items : x.dest \in Covered
  BY <1>2, <1>3, <1>4, ItemHasRule, RuleDidNotFail, NothingFailedBefore DEF Aborts
<1>7. \A i \in DOMAIN Rules : Rules[i].required /\ Rules[i].kind # "entries" =>
         \E x \in plan.items : x.rule = Rules[i].id /\ x.data \in Rules[i].accept[plan.abi]
  <2>1. SUFFICES ASSUME NEW i \in DOMAIN Rules, Rules[i].required, Rules[i].kind # "entries"
                 PROVE  \E x \in Items(g, abi) :
                           x.rule = Rules[i].id /\ x.data \in Rules[i].accept[abi]
    BY <1>3
  <2>2. RuleItems(i, g, abi) \subseteq Items(g, abi)
    BY RulesAssumption DEF Items, ItemsUpTo
  <2> QED BY <2>1, <2>2, <1>2, RuleGivesItem
<1> HIDE DEF plan
<1> QED BY <1>5, <1>6, <1>7 DEF Portable, plan
-----------------------------------------------------------------------------
(* What a run selects when it reads the card through the cache that        *)
(* earlier runs left is as good: these are the invariants of StageResume.  *)
THEOREM ChoiceIsAlwaysCertain ==
  ASSUME OneAbi, PlainRules
  PROVE  Spec => []ChoiceIsCertain
<1>1. ChoiceIsCertain
  BY SelectionIsNoGuess DEF ChoiceIsCertain
<1> QED BY <1>1, PTL

(* The run is a record: what the steps do to its fields is known then.     *)
RunIsRecord ==
    run = [pc |-> run.pc, plan |-> run.plan, hook |-> run.hook, todo |-> run.todo]

PortableInv == RunIsRecord /\ ChoiceIsPortable

LEMMA RecordStep ==
  ASSUME RunIsRecord, [Next]_vars
  PROVE  RunIsRecord'
<1> USE DEF RunIsRecord, Off, At
<1>1. CASE Launch
  BY <1>1 DEF Launch
<1>2. CASE Select
  <2> HIDE DEF RunIsRecord
  <2>1. CASE run' = Off
    BY <2>1 DEF RunIsRecord
  <2>2. CASE run' # Off
    <3> DEFINE plan == Resolve(Read)
               chosen == [abi |-> plan.abi, items |-> plan.items]
    <3>1. run' = [run EXCEPT !.pc = "prepare", !.plan = chosen]
      BY <1>2, <2>2 DEF Select
    <3> HIDE DEF chosen
    <3> QED BY <3>1 DEF RunIsRecord
  <2> QED BY <2>1, <2>2
<1>3. CASE Expand \/ Swap \/ Copy \/ Adopt \/ run' = run
  BY <1>3 DEF Expand, Swap, Copy, Adopt
<1>4. CASE Prepare
  BY <1>4 DEF Prepare
<1>5. CASE Wipe
  BY <1>5 DEF Wipe
<1>6. CASE Extracted \/ SkipHook \/ StartHook
  BY <1>6 DEF Extracted, SkipHook, StartHook
<1>7. CASE Process
  BY <1>7 DEF Process
<1>8. CASE EndHook
  <2>1. run' = Off \/ run' = [run EXCEPT !.pc = "hook", !.hook = @ + 1]
    BY <1>8 DEF EndHook
  <2> QED BY <2>1
<1>9. CASE Check
  BY <1>9 DEF Check, AfterFailure
<1>10. CASE Discard
  BY <1>10 DEF Discard
<1>11. CASE Commit \/ Stop
  BY <1>11 DEF Commit, Stop
<1> QED
  BY <1>1, <1>2, <1>3, <1>4, <1>5, <1>6, <1>7, <1>8, <1>9, <1>10, <1>11
     DEF Next, RunStep, vars

(* Only Select comes to "prepare".                                         *)
LEMMA OnlySelectPlans ==
  ASSUME RunIsRecord, Next, ~Select, run' # run
  PROVE  run'.pc # "prepare"
<1> USE DEF RunIsRecord, Off, At
<1>1. CASE Launch
  BY <1>1 DEF Launch
<1>2. CASE Expand \/ Swap \/ Copy \/ Adopt
  BY <1>2 DEF Expand, Swap, Copy, Adopt
<1>3. CASE Prepare
  BY <1>3 DEF Prepare
<1>4. CASE Wipe
  BY <1>4 DEF Wipe
<1>5. CASE Extracted \/ SkipHook \/ StartHook
  BY <1>5 DEF Extracted, SkipHook, StartHook
<1>6. CASE Process
  BY <1>6 DEF Process
<1>7. CASE EndHook
  <2> DEFINE next == run.hook + 1
  <2>1. run' = Off \/ run' = [run EXCEPT !.pc = "hook", !.hook = next]
    BY <1>7 DEF EndHook
  <2> HIDE DEF next
  <2>2. CASE run' = Off
    BY <2>2
  <2>3. CASE run' = [run EXCEPT !.pc = "hook", !.hook = next]
    <3>1. run'.pc = "hook"
      BY <2>3
    <3> QED BY <3>1
  <2> QED BY <2>1, <2>2, <2>3
<1>8. CASE Check
  BY <1>8 DEF Check, AfterFailure
<1>9. CASE Discard
  BY <1>9 DEF Discard
<1>10. CASE Commit \/ Stop
  BY <1>10 DEF Commit, Stop
<1> QED
  BY <1>1, <1>2, <1>3, <1>4, <1>5, <1>6, <1>7, <1>8, <1>9, <1>10
     DEF Next, RunStep

LEMMA PortableStep ==
  ASSUME PortableInv, [Next]_vars
  PROVE  PortableInv'
<1> USE DEF PortableInv
<1>1. RunIsRecord'
  BY RecordStep
<1>2. CASE Select
  <2> DEFINE plan == Resolve(Read)
  <2>1. CASE plan = NoPlan
    BY <1>1, <1>2, <2>1 DEF Select, Off, ChoiceIsPortable
  <2>2. CASE plan # NoPlan
    <3>1. Portable(plan)
      BY <2>2, SelectionFits
    <3> DEFINE chosen == [abi |-> plan.abi, items |-> plan.items]
    <3>2. run' = [run EXCEPT !.pc = "prepare", !.plan = chosen]
      BY <1>2, <2>2 DEF Select
    <3>3. Portable(chosen)
      BY <3>1 DEF Portable
    <3> HIDE DEF plan, chosen
    <3>4. run'.plan = chosen
      BY <3>2 DEF RunIsRecord
    <3> QED BY <1>1, <3>3, <3>4 DEF ChoiceIsPortable
  <2> QED BY <2>1, <2>2
<1>3. CASE run' = run
  BY <1>1, <1>3 DEF ChoiceIsPortable
<1>4. CASE ~Select /\ run' # run
  <2>1. run'.pc # "prepare"
    BY <1>4, OnlySelectPlans DEF vars
  <2> QED BY <1>1, <2>1 DEF ChoiceIsPortable
<1> QED BY <1>2, <1>3, <1>4

(* Nothing but a selection that fits the card reaches the stage.           *)
THEOREM ChoiceIsAlwaysPortable == Spec => []ChoiceIsPortable
<1>1. Init => PortableInv
  BY DEF Init, Off, PortableInv, RunIsRecord, ChoiceIsPortable
<1>2. PortableInv /\ [Next]_vars => PortableInv'
  BY PortableStep
<1>3. PortableInv => ChoiceIsPortable
  BY DEF PortableInv
<1> QED BY <1>1, <1>2, <1>3, PTL DEF Spec
-----------------------------------------------------------------------------
(* With every APK of every bundle in the cache, the run reads the card.    *)
LEMMA ReadIsCard ==
  ASSUME card \in Card, \A b \in Bundles : \A a \in b.inner : Cached(b, a)
  PROVE  Read = card
<1>1. ASSUME NEW f \in card, f \in Bundles PROVE AsRead(f) = f
  <2>1. f \in UNION Card
    OBVIOUS
  <2>2. ASSUME NEW a \in f.inner PROVE Opened(f, a.slot) = a
    <3>1. a \in Inners /\ cache[<<f.token, a.slot>>] = a.data
      BY <1>1, <2>1 DEF Inners, Cached
    <3>2. \A b \in Inners : b.slot = a.slot /\ b.data = a.data => b = a
      BY <3>1, ContentAssumption
    <3> QED BY <3>1, <3>2 DEF Opened
  <2>3. {Opened(f, a.slot) : a \in f.inner} = f.inner
    BY <2>2
  <2>4. AsRead(f) = [f EXCEPT !.inner = f.inner]
    <3>1. f.shape = "bundle"
      BY <1>1 DEF Bundles, Shaped
    <3> QED BY <1>1, <2>3, <3>1 DEF AsRead
  <2> QED BY <2>1, <2>4, CardAssumption
<1>2. \A f \in card : AsRead(f) = f
  BY <1>1 DEF AsRead
<1> QED BY <1>2 DEF Read

OnCardInv == RunIsRecord /\ card \in Card /\ SelectedIsOnCard

LEMMA OnCardStep ==
  ASSUME OnCardInv, [Next]_vars
  PROVE  OnCardInv'
<1> USE DEF OnCardInv
<1>1. RunIsRecord'
  BY RecordStep
<1>2. card' \in Card
  BY LaterAssumption
     DEF Next, vars, world, kept, Rests, Launch, Adopt, Adopts, RunStep, Expand, Select, Prepare, Wipe, Copy,
         Extracted, SkipHook, StartHook, Process, EndHook, Check, Discard, Commit, Stop, Swap, Meddles
<1>3. CASE Select
  <2> DEFINE plan == Resolve(Read)
  <2>1. Resolve(card) = plan
    <3>1. Read = card
      BY <1>3, ReadIsCard DEF Select
    <3> QED BY <3>1
  <2>2. card' = card
    BY <1>3 DEF Select, Rests, world
  <2>3. CASE plan = NoPlan
    BY <1>1, <1>2, <1>3, <2>3 DEF Select, Off, SelectedIsOnCard
  <2>4. CASE plan # NoPlan
    <3> DEFINE chosen == [abi |-> plan.abi, items |-> plan.items]
    <3>1. run' = [run EXCEPT !.pc = "prepare", !.plan = chosen]
      BY <1>3, <2>4 DEF Select
    <3>2. chosen.items = plan.items
      OBVIOUS
    <3> HIDE DEF plan, chosen
    <3>3. run'.plan = chosen
      BY <3>1 DEF RunIsRecord
    <3>4. Choice[card] = plan
      BY <2>1 DEF Choice
    <3>5. Choice' = Choice
      BY DEF Choice
    <3> QED BY <1>1, <1>2, <2>2, <2>4, <3>2, <3>3, <3>4, <3>5 DEF SelectedIsOnCard
  <2> QED BY <2>3, <2>4
<1>4. CASE UNCHANGED vars
  BY <1>1, <1>2, <1>4 DEF vars, SelectedIsOnCard, Choice
<1>5. CASE ~Select /\ run' # run
  <2>1. run'.pc # "prepare"
    BY <1>5, OnlySelectPlans DEF vars
  <2> QED BY <1>1, <1>2, <2>1 DEF SelectedIsOnCard
<1>6. CASE Next /\ ~Select /\ run' = run
  <2>1. card' = card \/ run = Off
    BY <1>6
       DEF Next, world, kept, Rests, Launch, Adopt, Adopts, RunStep, Expand, Prepare, Wipe, Copy,
         Extracted, SkipHook, StartHook, Process, EndHook, Check, Discard, Commit, Stop, Swap, Meddles
  <2>2. run = Off => run'.pc # "prepare"
    BY <1>6 DEF Off
  <2>3. card' = card => SelectedIsOnCard'
    BY <1>6 DEF SelectedIsOnCard, Choice
  <2> QED BY <1>1, <1>2, <2>1, <2>2, <2>3 DEF SelectedIsOnCard
<1> QED BY <1>3, <1>4, <1>5, <1>6

(* The APKs of a bundle are those of this bundle, whatever other runs and  *)
(* other bundles have left in the cache.                                   *)
THEOREM SelectedIsAlwaysOnCard == Spec => []SelectedIsOnCard
<1>1. Init => OnCardInv
  BY DEF Init, Off, OnCardInv, RunIsRecord, SelectedIsOnCard
<1>2. OnCardInv /\ [Next]_vars => OnCardInv'
  BY OnCardStep
<1>3. OnCardInv => SelectedIsOnCard
  BY DEF OnCardInv
<1> QED BY <1>1, <1>2, <1>3, PTL DEF Spec
-----------------------------------------------------------------------------
(* What a run works on is a plan for some card: it fits the stage.         *)
LEMMA ChosenFits ==
  ASSUME NEW p \in Chosen
  PROVE  /\ p # NoPlan
         /\ p.abi \in AbiSet
         /\ DestsOf(p.items) \subseteq Dest
         /\ \A x, y \in p.items : x.dest = y.dest => x = y
<1>1. PICK c \in Card : Resolve(c) # NoPlan /\ p = [abi |-> Resolve(c).abi, items |-> Resolve(c).items]
  BY DEF Chosen
<1>2. Resolve(c) \in Plans(Searched(c))
  BY <1>1, Resolved, BestIsThere
<1>3. p.abi = Resolve(c).abi /\ p.items = Resolve(c).items
  BY <1>1
<1>4. Portable(Resolve(c))
  BY <1>1, SelectionFits
<1>5. p.abi \in AbiSet
  BY <1>2, <1>3, PlanHasOrigin DEF PlanOf
<1>6. DestsOf(p.items) \subseteq Dest
  BY <1>3, <1>4, DestAssumption DEF Portable, DestsOf
<1>7. \A x, y \in p.items : x.dest = y.dest => x = y
  BY <1>3, <1>4 DEF Portable
<1> QED BY <1>5, <1>6, <1>7, NoPlanAssumption

(* The fields of the run, from its start to its end.                       *)
RunOK(r) ==
    /\ r = [pc |-> r.pc, plan |-> r.plan, hook |-> r.hook, todo |-> r.todo]
    /\ r.pc \in Steps
    /\ IF r.pc \in {"off", "expand"} THEN r.plan = NoPlan ELSE r.plan \in Chosen
    /\ r.hook \in 1..Len(Hooks) + 1
    /\ r.pc = "process" => r.hook \in Hook
    /\ r.pc \notin {"hook", "process", "commit", "discard"} => r.hook = 1
    /\ r.pc = "commit" => r.hook \notin Hook
    /\ IF r.pc = "process" THEN r.todo \subseteq Touches(r.hook) ELSE r.todo = {}

LEMMA OffIsOK == RunOK(Off) /\ RunOK([Off EXCEPT !.pc = "expand"])
<1>1. 1 \in 1..Len(Hooks) + 1
  BY HooksAssumption
<1>2. RunOK(Off)
  BY <1>1 DEF RunOK, Off, Steps
<1>3. RunOK([Off EXCEPT !.pc = "expand"])
  <2>1. [Off EXCEPT !.pc = "expand"] = [pc |-> "expand", plan |-> NoPlan, hook |-> 1, todo |-> {}]
    BY DEF Off
  <2> QED BY <2>1, <1>1 DEF RunOK, Steps
<1> QED BY <1>2, <1>3

(* Select takes up a plan for the card.                                    *)
LEMMA SelectIsOK ==
  ASSUME RunOK(run), card \in Card, Select
  PROVE  RunOK(run')
<1> DEFINE plan == Resolve(Read)
           chosen == [abi |-> plan.abi, items |-> plan.items]
<1>1. CASE plan = NoPlan
  BY <1>1, OffIsOK DEF Select
<1>2. CASE plan # NoPlan
  <2>1. Read = card
    BY ReadIsCard DEF Select
  <2>2. chosen \in Chosen
    BY <1>2, <2>1 DEF Chosen
  <2>3. run' = [run EXCEPT !.pc = "prepare", !.plan = chosen] /\ run.pc = "expand"
    BY <1>2 DEF Select
  <2> HIDE DEF chosen, plan
  <2> QED BY <2>2, <2>3 DEF RunOK, Steps
<1> QED BY <1>1, <1>2

LEMMA RunStaysOK ==
  ASSUME RunOK(run), card \in Card, [Next]_vars
  PROVE  RunOK(run')
<1>1. CASE Launch
  BY <1>1, OffIsOK DEF Launch
<1>2. CASE Select
  BY <1>2, SelectIsOK
<1>3. CASE run' = run
  BY <1>3
<1>4. CASE run' = Off
  BY <1>4, OffIsOK
<1>5. CASE Prepare
  BY <1>5 DEF Prepare, At, RunOK, Steps
<1>6. CASE Wipe
  BY <1>6 DEF Wipe, At, RunOK, Steps
<1>7. CASE Extracted
  BY <1>7 DEF Extracted, At, RunOK, Steps
<1>8. CASE SkipHook
  BY <1>8, HooksAssumption DEF SkipHook, RunOK, Steps, Hook
<1>9. CASE StartHook
  BY <1>9 DEF StartHook, RunOK, Steps
<1>10. CASE Process
  <2>1. PICK d \in run.todo : run' = [run EXCEPT !.todo = @ \ {d}]
    BY <1>10 DEF Process
  <2> QED BY <1>10, <2>1 DEF Process, RunOK, Steps
<1>11. CASE EndHook
  <2>1. CASE run' = Off
    BY <2>1, OffIsOK
  <2>2. CASE run' # Off
    <3> DEFINE next == run.hook + 1
    <3>1. run' = [run EXCEPT !.pc = "hook", !.hook = next] /\ run.pc = "process" /\ run.todo = {}
      BY <1>11, <2>2 DEF EndHook
    <3>2. next \in 1..Len(Hooks) + 1
      BY <3>1, HooksAssumption DEF RunOK, Hook
    <3> HIDE DEF next
    <3> QED BY <3>1, <3>2 DEF RunOK, Steps
  <2> QED BY <2>1, <2>2
<1>12. CASE Check
  BY <1>12 DEF Check, AfterFailure, At, RunOK, Steps
<1>13. CASE Discard \/ Commit \/ Stop \/ Expand \/ Copy \/ Swap \/ Adopt
  BY <1>3, <1>4, <1>13 DEF Discard, Commit, Stop, Expand, Copy, Swap, Adopt
<1> QED
  BY <1>1, <1>2, <1>3, <1>5, <1>6, <1>7, <1>8, <1>9, <1>10, <1>11, <1>12, <1>13
     DEF Next, RunStep, vars

(* Everything else a run changes.                                          *)
TypeInv ==
    /\ RunOK(run)
    /\ card \in Card
    /\ cache \in [Slots -> {Nothing} \cup {a.data : a \in Inners}]
    /\ stage = [d \in Dest |-> stage[d]] /\ parts \subseteq Dest /\ litter \in BOOLEAN
    /\ marks \in [Hook -> 0..MaxRecipe]
    /\ recipe \in Recipe
    /\ swaps \in 0..MaxSwaps /\ stops \in 0..MaxStops

WorldOK == /\ card \in Card /\ recipe \in Recipe
           /\ swaps \in 0..MaxSwaps /\ stops \in 0..MaxStops

LEMMA WorldStaysOK ==
  ASSUME WorldOK, [Next]_vars
  PROVE  WorldOK'
<1> USE DEF WorldOK
<1>1. CASE RunStep \/ Launch \/ Adopt \/ UNCHANGED vars
  BY <1>1
     DEF vars, world, Rests, Launch, Adopt, Adopts, RunStep, Expand, Select, Prepare, Wipe, Copy,
         Extracted, SkipHook, StartHook, Process, EndHook, Check, Discard, Commit
<1>2. CASE Stop
  BY <1>2, BoundsAssumption DEF Stop, world
<1>3. CASE Swap
  BY <1>3, BoundsAssumption, LaterAssumption DEF Swap, Meddles, Recipe
<1> QED BY <1>1, <1>2, <1>3 DEF Next

LEMMA MarksStayOK ==
  ASSUME TypeInv, [Next]_vars
  PROVE  marks' \in [Hook -> 0..MaxRecipe]
<1> USE DEF TypeInv
<1>1. CASE Wipe
  BY <1>1, BoundsAssumption DEF Wipe
<1>2. CASE EndHook
  BY <1>2, BoundsAssumption DEF EndHook, Recipe
<1>3. CASE marks' = marks
  BY <1>3
<1> QED
  BY <1>1, <1>2, <1>3
     DEF Next, vars, kept, world, Rests, Launch, Adopt, Adopts, RunStep, Expand, Select, Prepare, Copy,
         Extracted, SkipHook, StartHook, Process, Check, Discard, Commit, Stop, Swap, Meddles

(* Only APKs of the card enter the cache.                                  *)
LEMMA CacheStaysOK ==
  ASSUME TypeInv, [Next]_vars
  PROVE  cache' \in [Slots -> {Nothing} \cup {a.data : a \in Inners}]
<1> USE DEF TypeInv
<1>1. CASE Expand
  <2>1. PICK b \in Bundles : \E a \in b.inner :
                 cache' = [cache EXCEPT ![<<b.token, a.slot>>] = a.data]
    BY <1>1 DEF Expand
  <2>2. b \in UNION Card
    BY <2>1 DEF Bundles, Shaped, Searched, Candidates
  <2>3. b.inner \subseteq Inners
    BY <2>2 DEF Inners
  <2> QED BY <2>1, <2>3
<1>2. CASE Commit
  BY <1>2 DEF Commit
<1>3. CASE cache' = cache
  BY <1>3
<1> QED
  BY <1>1, <1>2, <1>3
     DEF Next, vars, kept, world, Rests, Launch, Adopt, Adopts, RunStep, Select, Prepare, Wipe, Copy,
         Extracted, SkipHook, StartHook, Process, EndHook, Check, Discard, Stop, Swap, Meddles

StageOK == stage = [d \in Dest |-> stage[d]] /\ parts \subseteq Dest /\ litter \in BOOLEAN

LEMMA StageStaysOK ==
  ASSUME TypeInv, [Next]_vars
  PROVE  StageOK'
<1> USE DEF TypeInv, StageOK
<1>1. ASSUME RemoveStaged PROVE StageOK'
  BY <1>1 DEF RemoveStaged
<1>2. CASE Wipe
  BY <1>1, <1>2 DEF Wipe
<1>3. CASE Discard
  BY <1>1, <1>3 DEF Discard
<1>4. CASE Copy
  <2>1. PlannedDests \subseteq Dest
    BY <1>4, ChosenFits DEF Copy, RunOK, PlannedDests, DestsOf
  <2> QED BY <1>4, <2>1 DEF Copy
<1>5. CASE Process
  BY <1>5 DEF Process
<1>6. CASE Commit
  BY <1>6 DEF Commit, Empty
<1>7. CASE Stop
  BY <1>7 DEF Stop
<1>8. CASE UNCHANGED <<stage, parts, litter>>
  BY <1>8
<1> QED
  BY <1>2, <1>3, <1>4, <1>5, <1>6, <1>7, <1>8
     DEF Next, vars, kept, world, Rests, Launch, Adopt, Adopts, RunStep, Expand, Select, Prepare,
         Extracted, SkipHook, StartHook, EndHook, Check, Swap

LEMMA TypeStep ==
  ASSUME TypeInv, [Next]_vars
  PROVE  TypeInv'
<1>1. RunOK(run')
  BY RunStaysOK DEF TypeInv
<1>2. WorldOK'
  BY WorldStaysOK DEF TypeInv, WorldOK
<1>3. marks' \in [Hook -> 0..MaxRecipe]
  BY MarksStayOK
<1>4. cache' \in [Slots -> {Nothing} \cup {a.data : a \in Inners}]
  BY CacheStaysOK
<1>5. StageOK'
  BY StageStaysOK
<1> QED BY <1>1, <1>2, <1>3, <1>4, <1>5 DEF TypeInv, WorldOK, StageOK

LEMMA TypeInit ==
  ASSUME Init
  PROVE  TypeInv
<1> USE DEF Init
<1>1. RunOK(run)
  BY OffIsOK
<1>2. cache \in [Slots -> {Nothing} \cup {a.data : a \in Inners}]
  OBVIOUS
<1>3. stage = [d \in Dest |-> stage[d]] /\ parts \subseteq Dest /\ litter \in BOOLEAN
  BY DEF Empty
<1>4. marks \in [Hook -> 0..MaxRecipe]
  BY BoundsAssumption
<1>5. recipe \in Recipe /\ swaps \in 0..MaxSwaps /\ stops \in 0..MaxStops
  BY BoundsAssumption DEF Recipe
<1> QED BY <1>1, <1>2, <1>3, <1>4, <1>5 DEF TypeInv

LEMMA TypeInvIsTypeOK ==
  ASSUME TypeInv
  PROVE  TypeOK
<1> USE DEF TypeInv
<1>1. \A s \in Slots : cache[s] = Nothing \/ \E a \in Inners : cache[s] = a.data
  OBVIOUS
<1>2. DOMAIN stage = Dest
  OBVIOUS
<1>3. run.todo \subseteq Dest
  BY HooksAssumption DEF RunOK, Touches, Hook
<1>4. run.pc \notin {"off", "expand"} <=> run.plan # NoPlan
  BY NoPlanAssumption DEF RunOK
<1> QED BY <1>1, <1>2, <1>3, <1>4 DEF TypeOK, RunOK

(* Types, and the steps of a run: it has a plan from its selection to its  *)
(* end and never without one, and it ends before another begins.           *)
THEOREM StageTypeOK == Spec => []TypeOK
<1>1. Spec => []TypeInv
  BY TypeInit, TypeStep, PTL DEF Spec
<1> QED BY <1>1, TypeInvIsTypeOK, PTL
-----------------------------------------------------------------------------
(* The hooks that have to do with a file, and their places among them.     *)
Through(d) == {h \in Hook : d \in Touches(h)}

Before(d, k) == {h \in Through(d) : h < k}

Nth(d, i) == CHOOSE h \in Through(d) : Cardinality(Before(d, h)) = i - 1

LEMMA BeforeIsFinite ==
  ASSUME NEW d, NEW k
  PROVE  IsFiniteSet(Before(d, k)) /\ Cardinality(Before(d, k)) \in Nat
<1>1. IsFiniteSet(1..Len(Hooks))
  BY HooksAssumption, FS_Interval
<1>2. Before(d, k) \in SUBSET (1..Len(Hooks))
  BY HooksAssumption DEF Before, Through, Hook
<1>3. IsFiniteSet(Before(d, k))
  BY <1>1, <1>2, FS_Subset
<1> QED BY <1>3, FS_CardinalityType

(* A hook has fewer before it than any later one.                          *)
LEMMA BeforeGrows ==
  ASSUME NEW d, NEW h \in Through(d), NEW k \in Nat, h < k
  PROVE  Cardinality(Before(d, h)) < Cardinality(Before(d, k))
<1>1. h \in Nat
  BY HooksAssumption DEF Through, Hook
<1>2. Before(d, h) \in SUBSET Before(d, k)
  <2>1. Through(d) \subseteq Nat
    BY HooksAssumption DEF Through, Hook
  <2> QED BY <1>1, <2>1 DEF Before
<1>3. h \in Before(d, k) /\ h \notin Before(d, h)
  BY <1>1 DEF Before
<1>4. Cardinality(Before(d, h)) <= Cardinality(Before(d, k))
  BY <1>2, BeforeIsFinite, FS_Subset
<1>5. Cardinality(Before(d, h)) # Cardinality(Before(d, k))
  BY <1>2, <1>3, BeforeIsFinite, FS_Subset
<1> QED BY <1>4, <1>5, BeforeIsFinite

LEMMA PlacesDiffer ==
  ASSUME NEW d, NEW h \in Through(d), NEW k \in Through(d),
         Cardinality(Before(d, h)) = Cardinality(Before(d, k))
  PROVE  h = k
<1>1. h \in Nat /\ k \in Nat
  BY HooksAssumption DEF Through, Hook
<1>2. CASE h < k
  BY <1>1, <1>2, BeforeGrows, BeforeIsFinite
<1>3. CASE k < h
  BY <1>1, <1>3, BeforeGrows, BeforeIsFinite
<1> QED BY <1>1, <1>2, <1>3

LEMMA NthIsNext ==
  ASSUME NEW d, NEW k \in Through(d)
  PROVE  Nth(d, Cardinality(Before(d, k)) + 1) = k
<1> DEFINE n == Cardinality(Before(d, k))
<1>1. n \in Nat /\ n + 1 - 1 = n
  BY BeforeIsFinite
<1>2. \A h \in Through(d) : Cardinality(Before(d, h)) = n => h = k
  BY PlacesDiffer
<1> HIDE DEF n
<1>3. (CHOOSE h \in Through(d) : Cardinality(Before(d, h)) = n) = k
  BY <1>2 DEF n
<1> QED BY <1>1, <1>3 DEF Nth, n

(* The first places belong to the hooks before k: as many places as hooks, *)
(* and no two in one.                                                      *)
LEMMA NthIsBefore ==
  ASSUME NEW d, NEW k \in Nat, NEW i \in 1..Cardinality(Before(d, k))
  PROVE  Nth(d, i) \in Before(d, k)
<1> DEFINE B == Before(d, k)
           n == Cardinality(B)
           place == [h \in B |-> Cardinality(Before(d, h)) + 1]
<1>1. n \in Nat /\ IsFiniteSet(B)
  BY BeforeIsFinite
<1>2. IsFiniteSet(1..n) /\ Cardinality(1..n) = n
  BY <1>1, FS_Interval
<1>3. \A h \in B : h \in Through(d) /\ h < k
  BY DEF Before
<1>4. \A h \in B : Cardinality(Before(d, h)) \in Nat /\ Cardinality(Before(d, h)) < n
  BY <1>3, BeforeIsFinite, BeforeGrows
<1> HIDE DEF B, n
<1>5. place \in [B -> 1..n]
  BY <1>1, <1>4
<1>6. place \in Injection(B, 1..n)
  <2>1. ASSUME NEW g \in B, NEW h \in B, place[g] = place[h] PROVE g = h
    <3>1. Cardinality(Before(d, g)) = Cardinality(Before(d, h))
      BY <2>1, <1>4
    <3> QED BY <3>1, <1>3, PlacesDiffer
  <2> QED BY <1>5, <2>1 DEF Injection, IsInjective
<1>7. place \in Surjection(B, 1..n)
  BY <1>2, <1>6, FS_Injection DEF n
<1>8. PICK h \in B : place[h] = i
  BY <1>7 DEF Surjection, n, B
<1>9. h \in Through(d) /\ i = Cardinality(Before(d, h)) + 1
  BY <1>3, <1>8
<1>10. Nth(d, i) = h
  BY <1>9, NthIsNext
<1> QED BY <1>10 DEF B

LEMMA BeforeFirst == ASSUME NEW d PROVE Before(d, 1) = {} /\ Cardinality(Before(d, 1)) = 0
BY HooksAssumption, FS_EmptySet DEF Before, Through, Hook

LEMMA BeforeLast == ASSUME NEW d PROVE Before(d, Len(Hooks) + 1) = Through(d)
BY HooksAssumption DEF Before, Through, Hook

LEMMA BeforeNext ==
  ASSUME NEW d, NEW k \in Hook
  PROVE  IF d \in Touches(k)
         THEN Cardinality(Before(d, k + 1)) = Cardinality(Before(d, k)) + 1
         ELSE Before(d, k + 1) = Before(d, k)
<1>1. \A h \in Hook : (h < k + 1 <=> h < k \/ h = k) /\ ~(k < k)
  BY HooksAssumption DEF Hook
<1>2. CASE d \in Touches(k)
  <2>1. Before(d, k + 1) = Before(d, k) \cup {k} /\ k \notin Before(d, k)
    BY <1>1, <1>2, Zenon DEF Before, Through
  <2>2. Cardinality(Before(d, k) \cup {k}) = Cardinality(Before(d, k)) + 1
    BY <2>1, BeforeIsFinite, FS_AddElement
  <2> QED BY <1>2, <2>1, <2>2
<1>3. CASE d \notin Touches(k)
  <2>1. Before(d, k + 1) = Before(d, k)
    BY <1>1, <1>3, Zenon DEF Before, Through
  <2> QED BY <1>3, <2>1
<1> QED BY <1>2, <1>3
-----------------------------------------------------------------------------
(* What the hooks before k have left on a file of a plan.                  *)
Mark(d, i, items, r) == [hook |-> Nth(d, i), recipe |-> r, source |-> Contents(items)]

MarksBefore(d, k, items, r) == [i \in 1..Cardinality(Before(d, k)) |-> Mark(d, i, items, r)]

DataFor(d, items) == (CHOOSE x \in items : x.dest = d).data

Trace(d, k, items, r) == <<DataFor(d, items)>> \o MarksBefore(d, k, items, r)

LEMMA MarksAreSeq ==
  ASSUME NEW d, NEW k, NEW items, NEW r, NEW n \in Nat, Cardinality(Before(d, k)) <= n
  PROVE  /\ MarksBefore(d, k, items, r) \in Seq({Mark(d, i, items, r) : i \in 1..n})
         /\ Len(MarksBefore(d, k, items, r)) = Cardinality(Before(d, k))
<1> DEFINE m == Cardinality(Before(d, k))
           T == {Mark(d, i, items, r) : i \in 1..n}
           f == MarksBefore(d, k, items, r)
<1>1. m \in Nat
  BY BeforeIsFinite
<1>2. f = [i \in 1..m |-> Mark(d, i, items, r)]
  BY DEF MarksBefore
<1>3. \A i \in 1..m : Mark(d, i, items, r) \in T
  BY <1>1
<1> HIDE DEF m, T, f
<1>4. f \in [1..m -> T]
  BY <1>2, <1>3
<1>5. f \in Seq(T)
  BY <1>1, <1>4
<1>6. Len(f) = m
  BY <1>1, <1>4, <1>5, LenProperties
<1> QED BY <1>5, <1>6 DEF m, T, f

(* Nothing has been over an extracted file.                                *)
LEMMA TraceFirst ==
  ASSUME NEW d, NEW items, NEW r
  PROVE  Trace(d, 1, items, r) = <<DataFor(d, items)>>
<1>1. MarksBefore(d, 1, items, r) = << >>
  BY BeforeFirst, SMT DEF MarksBefore
<1>2. <<DataFor(d, items)>> \in Seq({DataFor(d, items)})
  OBVIOUS
<1>3. <<DataFor(d, items)>> \o << >> = <<DataFor(d, items)>>
  BY <1>2, ConcatEmptySeq
<1> QED BY <1>1, <1>3 DEF Trace

(* A hook adds its stamp to the files it has to do with, and to no other.  *)
LEMMA TraceRests ==
  ASSUME NEW k \in Hook, NEW d, d \notin Touches(k), NEW items, NEW r
  PROVE  Trace(d, k + 1, items, r) = Trace(d, k, items, r)
BY BeforeNext DEF Trace, MarksBefore

LEMMA TraceGrows ==
  ASSUME NEW k \in Hook, NEW d \in Touches(k), NEW items, NEW r, NEW e,
         e = [hook |-> k, recipe |-> r, source |-> Contents(items)]
  PROVE  Trace(d, k + 1, items, r) = Append(Trace(d, k, items, r), e)
<1> DEFINE n == Cardinality(Before(d, k))
           T == {Mark(d, i, items, r) : i \in 1..n + 1}
           S == {DataFor(d, items)} \cup T
           t == MarksBefore(d, k, items, r)
           u == MarksBefore(d, k + 1, items, r)
<1>1. n \in Nat /\ Cardinality(Before(d, k + 1)) = n + 1
  BY BeforeNext, BeforeIsFinite
<1>2. e = Mark(d, n + 1, items, r)
  BY NthIsNext DEF Mark, Through
<1>3. t \in Seq(T) /\ Len(t) = n
  <2>1. n + 1 \in Nat /\ Cardinality(Before(d, k)) <= n + 1
    BY <1>1
  <2> QED BY <2>1, MarksAreSeq, Zenon
<1>4. u \in Seq(T) /\ Len(u) = n + 1
  <2>1. n + 1 \in Nat /\ Cardinality(Before(d, k + 1)) <= n + 1
    BY <1>1
  <2>2. u \in Seq(T) /\ Len(u) = Cardinality(Before(d, k + 1))
    BY <2>1, MarksAreSeq, Zenon
  <2> QED BY <1>1, <2>2
<1>5. e \in T
  BY <1>1, <1>2
<1>6. \A i \in 1..n : t[i] = Mark(d, i, items, r)
  BY DEF MarksBefore
<1>7. \A i \in 1..n + 1 : u[i] = Mark(d, i, items, r)
  BY <1>1 DEF MarksBefore
<1> HIDE DEF n, T, t, u
<1>8. Append(t, e) = u
  <2>1. Append(t, e) \in Seq(T) /\ Len(Append(t, e)) = n + 1
    BY <1>3, <1>5, AppendProperties
  <2>2. \A i \in 1..n + 1 : Append(t, e)[i] = u[i]
    BY <1>1, <1>2, <1>3, <1>5, <1>6, <1>7, AppendProperties
  <2> QED BY <1>4, <2>1, <2>2, SeqEqual
<1>9. Append(<<DataFor(d, items)>> \o t, e) = <<DataFor(d, items)>> \o Append(t, e)
  <2>1. <<DataFor(d, items)>> \in Seq(S) /\ <<e>> \in Seq(S)
    BY <1>5
  <2>2. t \in Seq(S)
    BY <1>3, SeqMonotonic
  <2>3. Append(t, e) = t \o <<e>>
    BY <1>5, <2>2, AppendIsConcat
  <2>4. Append(<<DataFor(d, items)>> \o t, e) = (<<DataFor(d, items)>> \o t) \o <<e>>
    BY <1>5, <2>1, <2>2, AppendIsConcat, ConcatProperties
  <2> QED BY <2>1, <2>2, <2>3, <2>4, ConcatAssociative
<1> QED BY <1>8, <1>9 DEF Trace, t, u

(* A hook finds nothing of its own on a file that came up to it.           *)
LEMMA TraceIsWithout ==
  ASSUME NEW k \in Hook, NEW d, NEW items, NEW r, NEW s, s = Trace(d, k, items, r)
  PROVE  \A i \in 2..Len(s) : s[i].hook # k
<1> DEFINE n == Cardinality(Before(d, k))
           T == {Mark(d, i, items, r) : i \in 1..n}
           S == {DataFor(d, items)} \cup T
           t == MarksBefore(d, k, items, r)
<1>1. n \in Nat /\ k \in Nat
  BY BeforeIsFinite, HooksAssumption DEF Hook
<1>2. t \in Seq(T) /\ Len(t) = n
  BY <1>1, MarksAreSeq
<1>3. \A i \in 1..n : t[i] = Mark(d, i, items, r)
  BY DEF MarksBefore
<1>4. \A i \in 1..n : Mark(d, i, items, r).hook # k
  <2>1. \A i \in 1..n : Nth(d, i) \in Before(d, k)
    BY <1>1, NthIsBefore
  <2>2. k \notin Before(d, k)
    BY <1>1 DEF Before
  <2> QED BY <2>1, <2>2 DEF Mark
<1> HIDE DEF n, T, t
<1>5. <<DataFor(d, items)>> \in Seq(S) /\ Len(<<DataFor(d, items)>>) = 1
  OBVIOUS
<1>6. t \in Seq(S)
  BY <1>2, SeqMonotonic
<1>7. /\ Len(s) = n + 1
      /\ \A i \in 1..n + 1 : s[i] = IF i <= 1 THEN <<DataFor(d, items)>>[i] ELSE t[i - 1]
  <2>1. s = <<DataFor(d, items)>> \o t
    BY DEF Trace, t
  <2> QED BY <1>1, <1>2, <1>5, <1>6, <2>1, ConcatProperties
<1>8. ASSUME NEW i \in 2..n + 1 PROVE s[i].hook # k
  <2>1. i - 1 \in 1..n /\ i \in 1..n + 1 /\ ~(i <= 1)
    BY <1>1
  <2>2. s[i] = Mark(d, i - 1, items, r)
    BY <1>3, <1>7, <2>1
  <2> QED BY <1>4, <2>1, <2>2
<1> QED BY <1>7, <1>8
-----------------------------------------------------------------------------
(* What the stage holds, by what state.json says it is for.                *)
Made(d) == \E h \in Hook : d \in Hooks[h].makes

MadeFor(h, items, r) == <<Nothing, [hook |-> h, recipe |-> r, source |-> Contents(items)]>>

(* Nothing is staged without a state, and nothing but files of the plan    *)
(* the state is of and files that hooks made from such a plan.             *)
OfState(files, st) ==
    /\ st = NoState => files = Empty
    /\ \A d \in Dest : files[d] # Nothing => Made(d) \/ \E x \in st.print : x.dest = d
    /\ \A h \in Hook : \A d \in Hooks[h].makes : files[d] # Nothing =>
           \E p \in Chosen : /\ Fingerprint(p.items) = st.print
                             /\ files[d] = MadeFor(h, p.items, st.recipe)

StageIsOfState == OfState(stage, state)

StateIsOfRun == run.pc \in {"extract", "hook", "process", "commit"} => state = Expected

(* How many hooks a file of the plan has behind it.                        *)
Reached(d) == IF run.pc = "process" /\ d \notin run.todo THEN run.hook + 1 ELSE run.hook

FilesAreTraced ==
    run.pc \in {"hook", "process", "commit"} =>
        \A d \in PlannedDests : stage[d] = Trace(d, Reached(d), run.plan.items, recipe)

MadeAreThere ==
    run.pc = "commit" => \A h \in Hook : \A d \in Hooks[h].makes : stage[d] # Nothing

FreshInv == /\ TypeInv
            /\ StageIsOfState /\ StateIsOfRun /\ FilesAreTraced /\ MadeAreThere
            /\ CommittedIsFresh

Keeps == run'.plan = run.plan /\ run'.hook = run.hook /\ run'.todo = run.todo

(* What the steps that work on the stage do to the run.                    *)
LEMMA RunMoves ==
  ASSUME RunOK(run)
  PROVE  /\ Prepare => /\ run.pc = "prepare" /\ Keeps
                       /\ \/ run'.pc = "extract" /\ state \in {NoState, Expected}
                             /\ state' = Expected
                          \/ run'.pc = "wipe" /\ state' = state
         /\ Extracted => run.pc = "extract" /\ run'.pc = "hook" /\ Keeps
         /\ SkipHook => /\ run.pc = "hook" /\ run'.pc = "hook" /\ run'.plan = run.plan
                        /\ run'.hook = run.hook + 1
         /\ StartHook => /\ run.pc = "hook" /\ run'.pc = "process" /\ run'.plan = run.plan
                         /\ run'.hook = run.hook /\ run'.todo = Touches(run.hook)
         /\ Check => run.pc = "hook" /\ Keeps /\ (run'.pc = "discard" \/ (run'.pc = "commit" /\ SetIsValid))
<1> USE DEF RunOK, Keeps, At
<1>1. ASSUME Prepare
      PROVE  /\ run.pc = "prepare" /\ Keeps
             /\ \/ run'.pc = "extract" /\ state \in {NoState, Expected} /\ state' = Expected
                \/ run'.pc = "wipe" /\ state' = state
  <2>1. CASE state \in {NoState, Expected}
    <3>1. run' = [run EXCEPT !.pc = "extract"] /\ state' = Expected /\ run.pc = "prepare"
      BY <1>1, <2>1 DEF Prepare
    <3>2. run'.pc = "extract" /\ Keeps
      BY <3>1
    <3> QED BY <2>1, <3>1, <3>2
  <2>2. CASE state \notin {NoState, Expected}
    <3>1. run' = [run EXCEPT !.pc = "wipe"] /\ state' = state /\ run.pc = "prepare"
      BY <1>1, <2>2 DEF Prepare
    <3>2. run'.pc = "wipe" /\ Keeps
      BY <3>1
    <3> QED BY <3>1, <3>2
  <2> QED BY <2>1, <2>2
<1>2. Extracted => run.pc = "extract" /\ run'.pc = "hook" /\ Keeps
  BY DEF Extracted
<1>3. ASSUME SkipHook
      PROVE  /\ run.pc = "hook" /\ run'.pc = "hook" /\ run'.plan = run.plan
             /\ run'.hook = run.hook + 1
  <2> DEFINE next == run.hook + 1
  <2>1. run' = [run EXCEPT !.hook = next] /\ run.pc = "hook"
    BY <1>3 DEF SkipHook
  <2> HIDE DEF next
  <2>2. run'.pc = "hook" /\ run'.plan = run.plan /\ run'.hook = next
    BY <2>1
  <2> QED BY <2>1, <2>2 DEF next
<1>4. StartHook => /\ run.pc = "hook" /\ run'.pc = "process" /\ run'.plan = run.plan
                   /\ run'.hook = run.hook /\ run'.todo = Touches(run.hook)
  BY DEF StartHook
<1>5. ASSUME Check
      PROVE  run.pc = "hook" /\ Keeps /\ (run'.pc = "discard" \/ (run'.pc = "commit" /\ SetIsValid))
  <2>1. run.pc = "hook"
    BY <1>5 DEF Check
  <2>2. CASE SetIsValid /\ run' = [run EXCEPT !.pc = "commit"]
    <3>1. run'.pc = "commit" /\ Keeps
      BY <2>2
    <3> QED BY <2>1, <2>2, <3>1
  <2>3. CASE run' = [run EXCEPT !.pc = "discard"]
    <3>1. run' = [run EXCEPT !.pc = "discard"]
      BY <2>3
    <3>2. run'.pc = "discard" /\ run'.plan = run.plan /\ run'.hook = run.hook /\ run'.todo = run.todo
      BY <3>1
    <3> QED BY <2>1, <3>2, Zenon
  <2> QED BY <1>5, <2>2, <2>3 DEF Check, AfterFailure
<1> HIDE DEF Keeps, RunOK, At
<1> QED BY <1>1, <1>2, <1>3, <1>4, <1>5

(* One file of a hook is done, and then the hook is.                       *)
LEMMA ProcessMoves ==
  ASSUME RunOK(run), stage = [d \in Dest |-> stage[d]], Process
  PROVE  \E d \in run.todo :
            /\ run.pc = "process" /\ run'.pc = "process" /\ run'.plan = run.plan
            /\ run'.hook = run.hook /\ run'.todo = run.todo \ {d} /\ state' = state
            /\ stage' = [stage EXCEPT ![d] = IF d \in Hooks[run.hook].makes
                                             THEN <<Nothing, Stamp(run.hook)>>
                                             ELSE Append(stage[d], Stamp(run.hook))]
<1>1. PICK d \in run.todo :
         /\ stage' = [stage EXCEPT ![d] = IF d \in Hooks[run.hook].makes
                                          THEN <<Nothing, Stamp(run.hook)>>
                                          ELSE Append(stage[d], Stamp(run.hook))]
         /\ run' = [run EXCEPT !.todo = @ \ {d}]
  BY DEF Process
<1>2. run.pc = "process" /\ state' = state
  BY DEF Process
<1>3. /\ run'.pc = "process" /\ run'.plan = run.plan
      /\ run'.hook = run.hook /\ run'.todo = run.todo \ {d}
  BY <1>1, <1>2 DEF RunOK
<1> QED BY <1>1, <1>2, <1>3

LEMMA EndHookMoves ==
  ASSUME RunOK(run), EndHook
  PROVE  /\ run.pc = "process" /\ run.todo = {}
         /\ \/ run' = Off
            \/ run'.pc = "hook" /\ run'.plan = run.plan /\ run'.hook = run.hook + 1
<1> DEFINE next == run.hook + 1
<1>1. /\ run.pc = "process" /\ run.todo = {}
      /\ run' = Off \/ run' = [run EXCEPT !.pc = "hook", !.hook = next]
  BY DEF EndHook
<1> HIDE DEF next
<1>2. CASE run' = [run EXCEPT !.pc = "hook", !.hook = next]
  <2>1. run'.pc = "hook" /\ run'.plan = run.plan /\ run'.hook = next
    BY <1>2 DEF RunOK
  <2> QED BY <1>1, <2>1 DEF next
<1> QED BY <1>1, <1>2

(* The other steps leave the run without a plan in its hands, or leave it. *)
LEMMA OthersMove ==
  ASSUME RunOK(run), Next, ~RunStep \/ Expand \/ Select \/ Discard \/ Commit
  PROVE  run'.pc \notin {"extract", "hook", "process", "commit"}
<1>1. CASE Launch
  BY <1>1 DEF Launch, Off
<1>2. CASE Expand
  BY <1>2 DEF Expand
<1>3. CASE Select
  <2> DEFINE plan == Resolve(Read)
             chosen == [abi |-> plan.abi, items |-> plan.items]
  <2>1. run' = Off \/ run' = [run EXCEPT !.pc = "prepare", !.plan = chosen]
    BY <1>3 DEF Select
  <2> HIDE DEF chosen
  <2>2. CASE run' = Off
    BY <2>2 DEF Off
  <2>3. CASE run' = [run EXCEPT !.pc = "prepare", !.plan = chosen]
    <3>1. run'.pc = "prepare"
      BY <2>3 DEF RunOK
    <3> QED BY <3>1
  <2> QED BY <2>1, <2>2, <2>3
<1>4. CASE Discard
  BY <1>4 DEF Discard, Off
<1>5. CASE Commit \/ Stop \/ Swap \/ Adopt
  BY <1>5 DEF Commit, Stop, Swap, Adopt, Off
<1> QED BY <1>1, <1>2, <1>3, <1>4, <1>5 DEF Next
-----------------------------------------------------------------------------
LEMMA EmptyIsOfState == ASSUME NEW st PROVE OfState(Empty, st)
<1>1. \A d \in Dest : Empty[d] = Nothing
  BY DEF Empty
<1>2. \A h \in Hook : Hooks[h].makes \subseteq Dest
  BY HooksAssumption DEF Hook
<1> QED BY <1>1, <1>2 DEF OfState

LEMMA ExpectedIsState ==
  ASSUME recipe \in Recipe, run.plan \in Chosen
  PROVE  /\ Expected # NoState
         /\ Expected.recipe = recipe /\ Expected.print = Fingerprint(run.plan.items)
<1>1. Expected \in [recipe : Recipe, print : {Fingerprint(p.items) : p \in Chosen}, abi : AbiSet]
  BY ChosenFits DEF Expected
<1> QED BY <1>1, NoStateAssumption DEF Expected

LEMMA RemoveKeepsOfState ==
  ASSUME TypeInv, StageIsOfState, RemoveStaged
  PROVE  OfState(stage', state)
<1>1. CASE stage' = stage
  BY <1>1 DEF StageIsOfState
<1>2. CASE stage' # stage
  <2>1. PICK d \in Dest : stage[d] # Nothing /\ stage' = [stage EXCEPT ![d] = Nothing]
    BY <1>2 DEF RemoveStaged
  <2>2. state # NoState
    BY <2>1 DEF StageIsOfState, OfState, Empty
  <2>3. \A e \in Dest : stage'[e] # Nothing => stage'[e] = stage[e]
    BY <2>1 DEF TypeInv
  <2>4. \A h \in Hook : Hooks[h].makes \subseteq Dest
    BY HooksAssumption DEF Hook
  <2> QED BY <2>2, <2>3, <2>4 DEF StageIsOfState, OfState
<1> QED BY <1>1, <1>2

(* A file of the plan is in the fingerprint of the plan, and no hook makes *)
(* it.                                                                     *)
LEMMA PlannedIsPrinted ==
  ASSUME OrderlyHooks, run.plan \in Chosen, NEW d \in PlannedDests
  PROVE  /\ d \in Dest
         /\ \E x \in Fingerprint(run.plan.items) : x.dest = d
         /\ ~Made(d)
<1>1. PICK x \in run.plan.items : x.dest = d
  BY DEF PlannedDests
<1>2. d \in DestsOf(run.plan.items)
  BY <1>1 DEF DestsOf
<1>3. d \in Dest
  BY <1>2, ChosenFits
<1>4. \E y \in Fingerprint(run.plan.items) : y.dest = d
  <2> DEFINE y == [rule |-> x.rule, dest |-> x.dest, size |-> Size[x.data],
                   crc |-> IF x.exact THEN <<x.data>> ELSE << >>]
  <2>1. y \in Fingerprint(run.plan.items)
    BY DEF Fingerprint
  <2>2. y.dest = d
    BY <1>1
  <2> QED BY <2>1, <2>2
<1>5. ~Made(d)
  BY <1>2 DEF Made, OrderlyHooks
<1> QED BY <1>3, <1>4, <1>5

LEMMA CopyKeepsOfState ==
  ASSUME OrderlyHooks, TypeInv, StageIsOfState, StateIsOfRun, Copy
  PROVE  OfState(stage', state)
<1>1. run.pc = "extract" /\ run.plan \in Chosen /\ state = Expected
  BY DEF Copy, TypeInv, RunOK, StateIsOfRun
<1>2. state # NoState /\ state.print = Fingerprint(run.plan.items)
  BY <1>1, ExpectedIsState DEF TypeInv
<1>3. CASE stage' = stage
  BY <1>3 DEF StageIsOfState
<1>4. CASE stage' # stage
  <2>1. PICK d \in PlannedDests : stage' = [stage EXCEPT ![d] = <<Planned(d).data>>]
    BY <1>4 DEF Copy
  <2>2. d \in Dest /\ (\E x \in state.print : x.dest = d) /\ ~Made(d)
    BY <1>1, <1>2, PlannedIsPrinted
  <2>3. \A e \in Dest : e # d => stage'[e] = stage[e]
    BY <2>1 DEF TypeInv
  <2>4. \A h \in Hook : Hooks[h].makes \subseteq Dest /\ d \notin Hooks[h].makes
    BY <2>2, HooksAssumption DEF Hook, Made
  <2> QED BY <1>2, <2>2, <2>3, <2>4 DEF StageIsOfState, OfState
<1> QED BY <1>3, <1>4

LEMMA ProcessKeepsOfState ==
  ASSUME OrderlyHooks, TypeInv, StageIsOfState, StateIsOfRun, Process
  PROVE  OfState(stage', state)
<1> DEFINE k == run.hook
<1>1. run.pc = "process" /\ run.plan \in Chosen /\ k \in Hook /\ run.todo \subseteq Touches(k)
  BY DEF Process, TypeInv, RunOK
<1>2. state = Expected /\ state # NoState /\ state.print = Fingerprint(run.plan.items)
      /\ state.recipe = recipe
  BY <1>1, ExpectedIsState DEF TypeInv, StateIsOfRun
<1>3. PICK d \in run.todo :
         stage' = [stage EXCEPT ![d] = IF d \in Hooks[k].makes
                                      THEN <<Nothing, Stamp(k)>>
                                      ELSE Append(stage[d], Stamp(k))]
  BY ProcessMoves DEF TypeInv
<1>4. d \in Dest /\ \A h \in Hook : Hooks[h].makes \subseteq Dest
  BY <1>1, HooksAssumption DEF Touches, Hook
<1>5. \A e \in Dest : e # d => stage'[e] = stage[e]
  BY <1>3 DEF TypeInv
<1>6. CASE d \in Hooks[k].makes
  <2>1. stage'[d] = MadeFor(k, run.plan.items, state.recipe)
    BY <1>2, <1>3, <1>4, <1>6 DEF TypeInv, MadeFor, Stamp
  <2>2. \A h \in Hook : d \in Hooks[h].makes => h = k
    BY <1>1, <1>6 DEF OrderlyHooks, Touches
  <2>3. Made(d)
    BY <1>1, <1>6 DEF Made
  <2> QED BY <1>1, <1>2, <1>4, <1>5, <2>1, <2>2, <2>3 DEF StageIsOfState, OfState
<1>7. CASE d \notin Hooks[k].makes
  <2>1. d \in DestsOf(run.plan.items)
    BY <1>1, <1>7 DEF OrderlyHooks, Touches
  <2>2. (\E x \in state.print : x.dest = d) /\ ~Made(d)
    BY <1>1, <1>2, <2>1, PlannedIsPrinted DEF PlannedDests, DestsOf
  <2>3. \A h \in Hook : d \notin Hooks[h].makes
    BY <2>2 DEF Made
  <2> QED BY <1>2, <1>4, <1>5, <2>2, <2>3 DEF StageIsOfState, OfState
<1> QED BY <1>6, <1>7

LEMMA StageStaysOfState ==
  ASSUME OrderlyHooks, TypeInv, StageIsOfState, StateIsOfRun, [Next]_vars
  PROVE  StageIsOfState'
<1>1. SUFFICES OfState(stage', state')
  BY DEF StageIsOfState
<1>2. CASE Prepare
  <2>1. stage' = stage
    BY <1>2 DEF Prepare
  <2>2. state' = state \/ (state = NoState /\ stage = Empty)
    BY <1>2, RunMoves DEF TypeInv, StageIsOfState, OfState
  <2> QED BY <2>1, <2>2, EmptyIsOfState DEF StageIsOfState
<1>3. CASE Wipe
  <2>1. CASE RemoveStaged /\ state' = state
    BY <2>1, RemoveKeepsOfState
  <2>2. CASE stage' = stage /\ (state' = state \/ stage = Empty)
    BY <2>2, EmptyIsOfState DEF StageIsOfState
  <2> QED BY <1>3, <2>1, <2>2 DEF Wipe, StageIsEmpty
<1>4. CASE Discard
  <2>1. CASE RemoveStaged /\ state' = state
    BY <2>1, RemoveKeepsOfState
  <2>2. CASE stage' = stage /\ stage = Empty
    BY <2>2, EmptyIsOfState
  <2> QED BY <1>4, <2>1, <2>2 DEF Discard, StageIsEmpty
<1>5. CASE Copy
  BY <1>5, CopyKeepsOfState DEF Copy
<1>6. CASE Process
  BY <1>6, ProcessKeepsOfState DEF Process
<1>7. CASE Commit
  BY <1>7, EmptyIsOfState DEF Commit
<1>8. CASE stage' = stage /\ state' = state
  BY <1>8 DEF StageIsOfState
<1> QED
  BY <1>2, <1>3, <1>4, <1>5, <1>6, <1>7, <1>8
     DEF Next, vars, kept, world, Rests, Launch, Adopt, Adopts, RunStep, Expand, Select,
         Extracted, SkipHook, StartHook, EndHook, Check, Stop, Swap, Meddles

Working == {"extract", "hook", "process", "commit"}

(* Whoever works on the stage has written what it is for, and keeps to it. *)
LEMMA StateStaysOfRun ==
  ASSUME TypeInv, StateIsOfRun, [Next]_vars
  PROVE  StateIsOfRun'
<1> USE DEF Working
<1>1. ASSUME run.pc \in Working, run'.plan = run.plan, recipe' = recipe, state' = state
      PROVE  StateIsOfRun'
  BY <1>1 DEF StateIsOfRun, Expected
<1>2. ASSUME run'.pc \notin Working
      PROVE  StateIsOfRun'
  BY <1>2 DEF StateIsOfRun
<1>3. CASE Prepare
  <2>1. run'.plan = run.plan /\ recipe' = recipe
    BY <1>3, RunMoves DEF TypeInv, Keeps, Prepare, Rests, world
  <2>2. run'.pc \notin Working \/ state' = Expected
    BY <1>3, RunMoves DEF TypeInv
  <2> QED BY <2>1, <2>2 DEF StateIsOfRun, Expected
<1>4. CASE Wipe
  <2>1. run.pc = "wipe" /\ recipe' = recipe
    BY <1>4 DEF Wipe, Rests, world
  <2>2. CASE run' = run
    BY <2>1, <2>2, <1>2
  <2>3. CASE run' # run
    <3>1. state' = Expected /\ run' = [run EXCEPT !.pc = "extract"]
      BY <1>4, <2>3 DEF Wipe, At
    <3>2. run'.plan = run.plan
      BY <3>1 DEF TypeInv, RunOK
    <3> QED BY <2>1, <3>1, <3>2 DEF StateIsOfRun, Expected
  <2> QED BY <2>2, <2>3
<1>5. CASE Extracted \/ SkipHook \/ StartHook \/ Check
  <2>1. run.pc \in Working /\ run'.plan = run.plan
    BY <1>5, RunMoves DEF TypeInv, Keeps
  <2>2. recipe' = recipe /\ state' = state
    BY <1>5 DEF Extracted, SkipHook, StartHook, Check, Rests, world, kept
  <2> QED BY <2>1, <2>2, <1>1
<1>6. CASE Process
  <2>1. run.pc \in Working /\ run'.plan = run.plan
    BY <1>6, ProcessMoves DEF TypeInv
  <2>2. recipe' = recipe /\ state' = state
    BY <1>6 DEF Process, Rests, world
  <2> QED BY <2>1, <2>2, <1>1
<1>7. CASE EndHook
  <2>1. recipe' = recipe /\ state' = state
    BY <1>7 DEF EndHook, Rests, world
  <2>2. run.pc \in Working /\ (run' = Off \/ run'.plan = run.plan)
    BY <1>7, EndHookMoves DEF TypeInv
  <2>3. CASE run' = Off
    BY <2>3, <1>2 DEF Off
  <2> QED BY <2>1, <2>2, <2>3, <1>1
<1>8. CASE Copy
  <2>1. run' = run /\ recipe' = recipe /\ state' = state /\ run.pc \in Working
    BY <1>8 DEF Copy, Rests, world
  <2> QED BY <2>1, <1>1
<1>9. CASE Next /\ (~RunStep \/ Expand \/ Select \/ Discard \/ Commit)
  BY <1>9, <1>2, OthersMove DEF TypeInv
<1>10. CASE UNCHANGED vars
  BY <1>10 DEF vars, StateIsOfRun, Expected
<1> QED BY <1>3, <1>4, <1>5, <1>6, <1>7, <1>8, <1>9, <1>10 DEF Next, RunStep

(* A hook with a file to rewrite never takes over a file of another run:   *)
(* the file has come back from the payload, without its stamp.             *)
LEMMA SkippedRewritesNothing ==
  ASSUME OrderlyHooks, TypeInv, FilesAreTraced, SkipHook
  PROVE  Hooks[run.hook].rewrites = {}
<1> DEFINE k == run.hook
<1>1. run.pc = "hook" /\ k \in Hook /\ CheckpointValid(k) /\ run.plan \in Chosen
  BY DEF SkipHook, HookDone, TypeInv, RunOK
<1>2. SUFFICES ASSUME Hooks[k].rewrites # {}
               PROVE  FALSE
  OBVIOUS
<1>3. PICK d \in Hooks[k].checks : d \in Hooks[k].rewrites
  BY <1>1, <1>2 DEF CheckpointValid, OrderlyHooks
<1>4. d \in PlannedDests
  BY <1>1, <1>3 DEF OrderlyHooks, DestsOf, PlannedDests
<1>5. stage[d] = Trace(d, k, run.plan.items, recipe)
  BY <1>1, <1>4 DEF FilesAreTraced, Reached
<1>6. \A i \in 2..Len(stage[d]) : stage[d][i].hook # k
  BY <1>1, <1>5, TraceIsWithout
<1> QED BY <1>1, <1>3, <1>6 DEF CheckpointValid

(* What a run asks of the files of its plan, seen from the next state.     *)
LEMMA FilesStayTraced ==
  ASSUME OrderlyHooks, TypeInv, FilesAreTraced, [Next]_vars
  PROVE  FilesAreTraced'
<1> DEFINE items == run.plan.items
           k == run.hook
<1>1. ASSUME run'.pc \notin {"hook", "process", "commit"}
      PROVE  FilesAreTraced'
  BY <1>1 DEF FilesAreTraced
<1>2. CASE Extracted
  <2>1. /\ run.pc = "extract" /\ run'.pc = "hook" /\ run'.plan = run.plan
        /\ run'.hook = 1
    BY <1>2, RunMoves DEF TypeInv, RunOK, Keeps
  <2>2. stage' = stage /\ recipe' = recipe
    BY <1>2 DEF Extracted, kept, Rests, world
  <2>3. ASSUME NEW d \in PlannedDests
        PROVE  stage[d] = Trace(d, 1, items, recipe)
    BY <1>2, TraceFirst DEF Extracted, Resumes, Planned, DataFor
  <2> QED BY <2>1, <2>2, <2>3 DEF FilesAreTraced, Reached, PlannedDests
<1>3. CASE SkipHook
  <2>1. /\ run.pc = "hook" /\ run'.pc = "hook" /\ run'.plan = run.plan
        /\ run'.hook = k + 1 /\ k \in Hook /\ run.plan \in Chosen
    BY <1>3, RunMoves DEF TypeInv, RunOK, SkipHook
  <2>2. stage' = stage /\ recipe' = recipe
    BY <1>3 DEF SkipHook, kept, Rests, world
  <2>3. ASSUME NEW d \in PlannedDests
        PROVE  stage[d] = Trace(d, k + 1, items, recipe)
    <3>1. d \notin Touches(k)
      BY <1>3, <2>1, SkippedRewritesNothing DEF Touches, OrderlyHooks, PlannedDests, DestsOf
    <3>2. stage[d] = Trace(d, k, items, recipe)
      BY <2>1 DEF FilesAreTraced, Reached
    <3> QED BY <2>1, <3>1, <3>2, TraceRests
  <2> QED BY <2>1, <2>2, <2>3 DEF FilesAreTraced, Reached, PlannedDests
<1>4. CASE StartHook
  <2>1. /\ run.pc = "hook" /\ run'.pc = "process" /\ run'.plan = run.plan
        /\ run'.hook = k /\ run'.todo = Touches(k) /\ k \in Hook
    BY <1>4, RunMoves DEF TypeInv, StartHook
  <2>2. stage' = stage /\ recipe' = recipe
    BY <1>4 DEF StartHook, kept, Rests, world
  <2>3. ASSUME NEW d \in PlannedDests
        PROVE  stage[d] = Trace(d, IF d \notin Touches(k) THEN k + 1 ELSE k, items, recipe)
    <3>1. stage[d] = Trace(d, k, items, recipe)
      BY <2>1 DEF FilesAreTraced, Reached
    <3>2. d \notin Touches(k) => Trace(d, k + 1, items, recipe) = Trace(d, k, items, recipe)
      <4> HIDE DEF items, k
      <4> QED BY <2>1, TraceRests
    <3> QED BY <3>1, <3>2
  <2> QED BY <2>1, <2>2, <2>3 DEF FilesAreTraced, Reached, PlannedDests
<1>5. CASE Process
  <2>1. PICK e \in run.todo :
            /\ run.pc = "process" /\ run'.pc = "process" /\ run'.plan = run.plan
            /\ run'.hook = k /\ run'.todo = run.todo \ {e}
            /\ stage' = [stage EXCEPT ![e] = IF e \in Hooks[k].makes
                                             THEN <<Nothing, Stamp(k)>>
                                             ELSE Append(stage[e], Stamp(k))]
    BY <1>5, ProcessMoves DEF TypeInv
  <2>2. recipe' = recipe
    BY <1>5 DEF Process, Rests, world
  <2>3. k \in Hook /\ run.plan \in Chosen /\ e \in Touches(k)
    BY <2>1 DEF TypeInv, RunOK
  <2>4. e \in Dest
    BY <2>3, HooksAssumption DEF Touches, Hook
  <2>5. ASSUME NEW d \in PlannedDests
        PROVE  stage'[d] = Trace(d, IF d \notin run.todo \ {e} THEN k + 1 ELSE k, items, recipe)
    <3>1. stage[d] = Trace(d, IF d \notin run.todo THEN k + 1 ELSE k, items, recipe)
      BY <2>1 DEF FilesAreTraced, Reached
    <3>2. CASE d # e
      <4>1. stage'[d] = stage[d]
        BY <2>1, <2>4, <3>2 DEF TypeInv
      <4>2. d \notin run.todo \ {e} <=> d \notin run.todo
        BY <3>2
      <4> QED BY <3>1, <4>1, <4>2, Zenon
    <3>3. CASE d = e
      <4>1. d \notin Hooks[k].makes
        BY <2>3 DEF OrderlyHooks, PlannedDests, DestsOf
      <4>2. stage'[d] = Append(stage[d], Stamp(k))
        BY <2>1, <2>4, <3>3, <4>1 DEF TypeInv
      <4>3. stage[d] = Trace(d, k, items, recipe)
        BY <3>1, <3>3
      <4>4. Trace(d, k + 1, items, recipe) = Append(Trace(d, k, items, recipe), Stamp(k))
        <5>1. Stamp(k) = [hook |-> k, recipe |-> recipe, source |-> Contents(items)]
          BY DEF Stamp
        <5> HIDE DEF items, k
        <5> QED BY <2>3, <3>3, <5>1, TraceGrows
      <4> QED BY <3>3, <4>2, <4>3, <4>4
    <3> QED BY <3>2, <3>3
  <2> QED BY <2>1, <2>2, <2>5 DEF FilesAreTraced, Reached, PlannedDests
<1>6. CASE EndHook
  <2>1. /\ run.pc = "process" /\ run.todo = {}
        /\ \/ run' = Off
           \/ run'.pc = "hook" /\ run'.plan = run.plan /\ run'.hook = k + 1
    BY <1>6, EndHookMoves DEF TypeInv
  <2>2. stage' = stage /\ recipe' = recipe
    BY <1>6 DEF EndHook, Rests, world
  <2>3. CASE run' = Off
    BY <2>3, <1>1 DEF Off
  <2>4. CASE run'.pc = "hook" /\ run'.plan = run.plan /\ run'.hook = k + 1
    BY <2>1, <2>2, <2>4 DEF FilesAreTraced, Reached, PlannedDests
  <2> QED BY <2>1, <2>3, <2>4
<1>7. CASE Check
  <2>1. run.pc = "hook" /\ Keeps /\ run'.pc \in {"discard", "commit"}
    BY <1>7, RunMoves DEF TypeInv
  <2>2. stage' = stage /\ recipe' = recipe
    BY <1>7 DEF Check, kept, Rests, world
  <2>3. run'.pc # "process" /\ run'.plan = run.plan /\ run'.hook = k
    BY <2>1 DEF Keeps
  <2>4. \A d \in PlannedDests : stage[d] = Trace(d, k, items, recipe)
    BY <2>1 DEF FilesAreTraced, Reached
  <2> QED BY <2>2, <2>3, <2>4 DEF FilesAreTraced, Reached, PlannedDests
<1>8. CASE Prepare
  BY <1>8, <1>1, RunMoves DEF TypeInv
<1>9. CASE Wipe
  <2>1. run.pc = "wipe" /\ (run' = run \/ run' = [run EXCEPT !.pc = "extract"])
    BY <1>9 DEF Wipe, At
  <2>2. run'.pc \in {"wipe", "extract"}
    BY <2>1 DEF TypeInv, RunOK
  <2> QED BY <2>2, <1>1
<1>10. CASE Copy
  BY <1>10, <1>1 DEF Copy
<1>11. CASE Next /\ (~RunStep \/ Expand \/ Select \/ Discard \/ Commit)
  BY <1>11, <1>1, OthersMove DEF TypeInv
<1>12. CASE UNCHANGED vars
  BY <1>12 DEF vars, FilesAreTraced, Reached, PlannedDests
<1> QED
  BY <1>2, <1>3, <1>4, <1>5, <1>6, <1>7, <1>8, <1>9, <1>10, <1>11, <1>12 DEF Next, RunStep

(* Only a set that is valid is committed.                                  *)
LEMMA OnlyCheckCommits ==
  ASSUME TypeInv, Next, run'.pc = "commit", run' # run
  PROVE  SetIsValid /\ run'.plan = run.plan /\ stage' = stage
<1>1. CASE Check
  <2>1. Keeps /\ SetIsValid
    BY <1>1, RunMoves DEF TypeInv
  <2>2. stage' = stage
    BY <1>1 DEF Check, kept
  <2> QED BY <2>1, <2>2 DEF Keeps
<1>2. CASE Extracted \/ SkipHook \/ StartHook \/ Prepare
  BY <1>2, RunMoves DEF TypeInv
<1>3. CASE Process
  BY <1>3, ProcessMoves DEF TypeInv
<1>4. CASE EndHook
  <2>1. run' = Off \/ run'.pc = "hook"
    BY <1>4, EndHookMoves DEF TypeInv
  <2> QED BY <2>1 DEF Off
<1>5. CASE Wipe
  <2>1. run' = run \/ run' = [run EXCEPT !.pc = "extract"]
    BY <1>5 DEF Wipe, At
  <2>2. run'.pc = "extract"
    BY <2>1 DEF TypeInv, RunOK
  <2> QED BY <2>2
<1>6. CASE Copy
  BY <1>6 DEF Copy
<1>7. CASE ~RunStep \/ Expand \/ Select \/ Discard \/ Commit
  BY <1>7, OthersMove DEF TypeInv
<1> QED BY <1>1, <1>2, <1>3, <1>4, <1>5, <1>6, <1>7 DEF RunStep

LEMMA CommitIsTheEnd ==
  ASSUME run.pc = "commit", Next
  PROVE  run' = Off
<1>1. run # Off
  BY DEF Off
<1> QED
  BY <1>1 DEF Next, Launch, Adopt, Adopts, RunStep, Expand, Select, Prepare, Wipe, Copy, Extracted, SkipHook,
              StartHook, Process, EndHook, Check, Discard, Commit, Stop, Swap

LEMMA MadeStayThere ==
  ASSUME TypeInv, MadeAreThere, [Next]_vars
  PROVE  MadeAreThere'
<1>1. CASE run'.pc # "commit"
  BY <1>1 DEF MadeAreThere
<1>2. CASE run'.pc = "commit" /\ run' # run /\ Next
  <2>1. SetIsValid /\ stage' = stage
    BY <1>2, OnlyCheckCommits
  <2> QED BY <2>1 DEF SetIsValid, MadeAreThere
<1>3. CASE run'.pc = "commit" /\ run' = run /\ Next
  BY <1>3, CommitIsTheEnd DEF Off
<1>4. CASE UNCHANGED vars
  BY <1>4 DEF vars, MadeAreThere
<1> QED BY <1>1, <1>2, <1>3, <1>4

(* Where sizes tell, what a fingerprint is of is known.                    *)
LEMMA PrintTells ==
  ASSUME SizesTell, NEW h \in Hook, Hooks[h].makes # {},
         NEW p \in Chosen, NEW q \in Chosen,
         Fingerprint(p.items) = Fingerprint(q.items)
  PROVE  Contents(p.items) \subseteq Contents(q.items)
<1>1. SUFFICES ASSUME NEW x \in p.items
               PROVE  <<x.dest, x.data>> \in Contents(q.items)
  BY DEF Contents
<1> DEFINE Crc(z) == IF z.exact THEN <<z.data>> ELSE << >>
           Seen(z) == [rule |-> z.rule, dest |-> z.dest, size |-> Size[z.data], crc |-> Crc(z)]
<1>2. PICK y \in q.items : Seen(y) = Seen(x)
  <2>1. Seen(x) \in Fingerprint(p.items)
    BY DEF Fingerprint
  <2>2. Seen(x) \in Fingerprint(q.items)
    BY <2>1
  <2> QED BY <2>2 DEF Fingerprint
<1>3. y.dest = x.dest /\ Size[y.data] = Size[x.data] /\ Crc(y) = Crc(x)
  <2> HIDE DEF Crc
  <2> QED BY <1>2
<1>4. y.data = x.data
  <2>1. CASE x.exact
    BY <1>3, <2>1
  <2>2. CASE ~x.exact
    <3>1. ~y.exact
      BY <1>3, <2>2
    <3> QED BY <1>3, <2>2, <3>1 DEF SizesTell
  <2> QED BY <2>1, <2>2
<1> QED BY <1>3, <1>4 DEF Contents

LEMMA FreshIsTraced ==
  ASSUME NEW items, NEW r, NEW d \in Dest, \E x \in items : x.dest = d
  PROVE  Fresh(items, r)[d] = Trace(d, Len(Hooks) + 1, items, r)
<1>1. StampsOf(d, items, r) = MarksBefore(d, Len(Hooks) + 1, items, r)
  BY BeforeLast DEF StampsOf, MarksBefore, Mark, Nth, Before, Through
<1> QED BY <1>1 DEF Fresh, Trace, DataFor

(* A file that one hook alone has to do with has one stamp.                *)
LEMMA FreshIsMade ==
  ASSUME OrderlyHooks, NEW items, NEW r, NEW h \in Hook, NEW d \in Hooks[h].makes,
         ~(\E x \in items : x.dest = d)
  PROVE  Fresh(items, r)[d] = MadeFor(h, items, r)
<1>1. Through(d) = {h}
  BY DEF Through, OrderlyHooks, Touches
<1>2. d \in Dest
  BY HooksAssumption DEF Hook
<1>3. Before(d, h) = {}
  <2>1. ~(h < h)
    BY HooksAssumption DEF Hook
  <2> QED BY <1>1, <2>1 DEF Before
<1>4. Cardinality(Through(d)) = 1 /\ Nth(d, 1) = h
  <2>1. Cardinality(Through(d)) = 1
    BY <1>1, FS_Singleton, Zenon
  <2>2. Cardinality(Before(d, h)) = 0
    BY <1>3, FS_EmptySet, Zenon
  <2>3. Nth(d, Cardinality(Before(d, h)) + 1) = h
    BY <1>1, NthIsNext
  <2>4. Cardinality(Before(d, h)) + 1 = 1
    BY <2>2
  <2> QED BY <2>1, <2>3, <2>4, Zenon
<1>5. StampsOf(d, items, r) = [i \in 1..1 |-> [hook |-> h, recipe |-> r, source |-> Contents(items)]]
  <2>1. StampsOf(d, items, r) = [i \in 1..Cardinality(Through(d)) |-> Mark(d, i, items, r)]
    BY DEF StampsOf, Mark, Nth, Before, Through
  <2>2. \A i \in 1..1 : Mark(d, i, items, r) = [hook |-> h, recipe |-> r, source |-> Contents(items)]
    BY <1>4 DEF Mark
  <2> QED BY <1>4, <2>1, <2>2
<1>6. Fresh(items, r)[d] = <<Nothing>> \o StampsOf(d, items, r)
  BY <1>2 DEF Fresh
<1> DEFINE e == [hook |-> h, recipe |-> r, source |-> Contents(items)]
<1>7. StampsOf(d, items, r) = <<e>>
  <2> HIDE DEF e
  <2>1. StampsOf(d, items, r) = [i \in 1..1 |-> e]
    BY <1>5 DEF e
  <2>2. [i \in 1..1 |-> e] = <<e>>
    OBVIOUS
  <2> QED BY <2>1, <2>2
<1>8. <<Nothing>> \o <<e>> = <<Nothing, e>>
  <2> HIDE DEF e
  <2> DEFINE S == {Nothing, e}
             t == <<Nothing>> \o <<e>>
             u == <<Nothing, e>>
  <2>1. <<Nothing>> \in Seq(S) /\ <<e>> \in Seq(S) /\ Len(<<Nothing>>) = 1 /\ Len(<<e>>) = 1
    OBVIOUS
  <2>2. t \in Seq(S) /\ Len(t) = 2 /\ t[1] = Nothing /\ t[2] = e
    BY <2>1, ConcatProperties
  <2>3. u \in Seq(S) /\ Len(u) = 2 /\ u[1] = Nothing /\ u[2] = e
    OBVIOUS
  <2>4. \A i \in 1..Len(t) : t[i] = u[i]
    BY <2>2, <2>3
  <2> QED BY <2>2, <2>3, <2>4, SeqEqual
<1> QED BY <1>6, <1>7, <1>8 DEF MadeFor

(* The stage that is committed is the one an undisturbed run makes.        *)
LEMMA CommitsFresh ==
  ASSUME OrderlyHooks, SizesTell, FreshInv, Commit
  PROVE  stage = Fresh(run.plan.items, recipe)
<1> DEFINE items == run.plan.items
           last == Len(Hooks) + 1
<1>1. /\ run.pc = "commit" /\ run.plan \in Chosen /\ run.hook = last
      /\ stage = [d \in Dest |-> stage[d]]
  BY HooksAssumption DEF Commit, FreshInv, TypeInv, RunOK, Hook
<1>2. state = Expected /\ state.print = Fingerprint(items) /\ state.recipe = recipe
  BY <1>1, ExpectedIsState DEF FreshInv, TypeInv, StateIsOfRun
<1>3. ASSUME NEW d \in Dest
      PROVE  stage[d] = Fresh(items, recipe)[d]
  <2>1. CASE \E x \in items : x.dest = d
    <3>1. stage[d] = Trace(d, last, items, recipe)
      BY <1>1, <2>1 DEF FreshInv, FilesAreTraced, Reached, PlannedDests
    <3> QED BY <2>1, <3>1, FreshIsTraced
  <2>2. CASE ~(\E x \in items : x.dest = d) /\ Made(d)
    <3>1. PICK h \in Hook : d \in Hooks[h].makes
      BY <2>2 DEF Made
    <3>2. stage[d] # Nothing
      BY <1>1, <3>1 DEF FreshInv, MadeAreThere
    <3>3. PICK p \in Chosen : Fingerprint(p.items) = Fingerprint(items)
                              /\ stage[d] = MadeFor(h, p.items, recipe)
      BY <1>2, <3>1, <3>2 DEF FreshInv, StageIsOfState, OfState
    <3>4. Contents(p.items) = Contents(items)
      <4>1. Contents(p.items) \subseteq Contents(items)
        BY <1>1, <3>1, <3>3, PrintTells
      <4>2. Contents(items) \subseteq Contents(p.items)
        BY <1>1, <3>1, <3>3, PrintTells
      <4> QED BY <4>1, <4>2
    <3>5. stage[d] = MadeFor(h, items, recipe)
      BY <3>3, <3>4 DEF MadeFor
    <3> QED BY <2>2, <3>1, <3>5, FreshIsMade
  <2>3. CASE ~(\E x \in items : x.dest = d) /\ ~Made(d)
    <3>1. ~(\E x \in Fingerprint(items) : x.dest = d)
      BY <2>3 DEF Fingerprint
    <3>2. stage[d] = Nothing
      BY <1>2, <2>3, <3>1 DEF FreshInv, StageIsOfState, OfState
    <3>3. Fresh(items, recipe)[d] = Nothing
      BY <2>3 DEF Fresh, Made
    <3> QED BY <3>2, <3>3
  <2> QED BY <2>1, <2>2, <2>3
<1>4. Fresh(items, recipe) = [d \in Dest |-> Fresh(items, recipe)[d]]
  BY DEF Fresh
<1> HIDE DEF items
<1>5. [d \in Dest |-> stage[d]] = [d \in Dest |-> Fresh(items, recipe)[d]]
  BY <1>3
<1> QED BY <1>1, <1>4, <1>5 DEF items

LEMMA FreshStep ==
  ASSUME OrderlyHooks, SizesTell, FreshInv, [Next]_vars
  PROVE  FreshInv'
<1>1. TypeInv' /\ StageIsOfState' /\ StateIsOfRun' /\ FilesAreTraced' /\ MadeAreThere'
  BY TypeStep, StageStaysOfState, StateStaysOfRun, FilesStayTraced, MadeStayThere DEF FreshInv
<1>2. CommittedIsFresh'
  <2>1. CASE Commit
    <3>1. live' = [tree |-> stage, recipe |-> recipe, marker |-> recipe,
                      items |-> run.plan.items]
      BY <2>1 DEF Commit
    <3>2. stage = Fresh(run.plan.items, recipe)
      BY <2>1, CommitsFresh
    <3>3. live'.tree = Fresh(live'.items, live'.recipe)
      BY <3>1, <3>2
    <3> QED BY <3>3 DEF CommittedIsFresh
  <2>2. CASE live' \in {live, NoPayload}
    BY <2>2 DEF CommittedIsFresh, FreshInv
  <2>3. CASE Adopts
    BY <2>3 DEF Adopts, CommittedIsFresh, FreshInv
  <2> QED
    BY <2>1, <2>2, <2>3
       DEF Next, vars, kept, world, Rests, Launch, Adopt, RunStep, Expand, Select, Prepare, Wipe, Copy,
           Extracted, SkipHook, StartHook, Process, EndHook, Check, Discard, Stop, Swap, Meddles
<1> QED BY <1>1, <1>2 DEF FreshInv

LEMMA FreshInit == ASSUME Init PROVE FreshInv
<1>1. TypeInv
  BY TypeInit
<1>2. StageIsOfState
  BY EmptyIsOfState DEF Init, StageIsOfState
<1>3. run.pc = "off" /\ live = NoPayload
  BY DEF Init, Off
<1> QED BY <1>1, <1>2, <1>3
           DEF FreshInv, StateIsOfRun, FilesAreTraced, MadeAreThere, CommittedIsFresh

(* However often an install was cut short, resumed, repeated over another  *)
(* card or upgraded on the way: what is put in place is what one           *)
(* undisturbed run makes of that payload (extract_plan, run_hooks,         *)
(* _prepare_stage_state).  Of the hooks it is asked what OrderlyHooks      *)
(* says, and of loose files, if hooks make files, what SizesTell says.     *)
THEOREM CommittedIsAlwaysFresh ==
  ASSUME OrderlyHooks, SizesTell
  PROVE  Spec => []CommittedIsFresh
<1>1. Init => FreshInv
  BY FreshInit
<1>2. FreshInv /\ [Next]_vars => FreshInv'
  BY FreshStep
<1>3. FreshInv => CommittedIsFresh
  BY DEF FreshInv
<1> QED BY <1>1, <1>2, <1>3, PTL DEF Spec
-----------------------------------------------------------------------------
(* A run works on what the card that is in gives, for a version that is    *)
(* not installed, and commits nothing the whole set refuses.               *)
PlanIsOfCard ==
    run.plan # NoPlan => Choice[card] # NoPlan /\ run.plan.items = Choice[card].items

RunIsWanted == run # Off => Outdated

CommitIsSound == run.pc = "commit" => \A x \in run.plan.items : x.data \notin Faulty

OneStepInv == FreshInv /\ PlanIsOfCard /\ RunIsWanted /\ CommitIsSound

(* While a run goes on, nobody else changes anything.                      *)
LEMMA WorldRests ==
  ASSUME Next, run # Off
  PROVE  UNCHANGED <<card, recipe>> /\ (live' = live \/ (Commit /\ run' = Off))
BY DEF Next, world, Rests, Launch, Adopt, Adopts, RunStep, Expand, Select, Prepare, Wipe, Copy, Extracted,
       SkipHook, StartHook, Process, EndHook, Check, Discard, Commit, Stop, Swap

LEMMA OffRests ==
  ASSUME Next, run = Off
  PROVE  \/ Launch /\ UNCHANGED <<card, recipe, live>>
         \/ Swap /\ run' = Off
         \/ Adopts /\ run' = Off
<1>1. run.pc = "off"
  BY DEF Off
<1> QED
  BY <1>1 DEF Next, world, Rests, Launch, Adopt, Adopts, RunStep, Expand, Select, Prepare, Wipe, Copy,
              Extracted, SkipHook, StartHook, Process, EndHook, Check, Discard, Commit, Stop,
              Swap

(* Only Select gives a run its plan.                                       *)
LEMMA PlanStays ==
  ASSUME TypeInv, Next, ~Select
  PROVE  run'.plan \in {run.plan, NoPlan}
<1> USE DEF TypeInv
<1>1. CASE run' = run \/ run' = Off \/ Launch
  BY <1>1 DEF Off, Launch
<1>2. CASE Prepare \/ Extracted \/ SkipHook \/ StartHook \/ Check
  BY <1>2, RunMoves DEF Keeps
<1>3. CASE Process
  BY <1>3, ProcessMoves
<1>4. CASE EndHook
  BY <1>4, EndHookMoves DEF Off
<1>5. CASE Wipe
  <2>1. run' = run \/ run' = [run EXCEPT !.pc = "extract"]
    BY <1>5 DEF Wipe, At
  <2> QED BY <2>1 DEF RunOK
<1> QED
  BY <1>1, <1>2, <1>3, <1>4, <1>5
     DEF Next, RunStep, Expand, Copy, Discard, Commit, Stop, Swap, Adopt

LEMMA SelectTakesTheCards ==
  ASSUME TypeInv, Select, run'.plan # NoPlan
  PROVE  Choice[card] # NoPlan /\ run'.plan.items = Choice[card].items
<1> DEFINE plan == Resolve(Read)
           chosen == [abi |-> plan.abi, items |-> plan.items]
<1>1. Choice[card] = plan
  <2>1. Read = card
    BY ReadIsCard DEF Select, TypeInv
  <2> QED BY <2>1 DEF Choice, TypeInv
<1>2. CASE plan = NoPlan
  BY <1>2 DEF Select, Off
<1>3. CASE plan # NoPlan
  <2>1. run' = [run EXCEPT !.pc = "prepare", !.plan = chosen]
    BY <1>3 DEF Select
  <2>2. chosen.items = plan.items
    OBVIOUS
  <2> HIDE DEF plan, chosen
  <2>3. run'.plan = chosen
    BY <2>1 DEF TypeInv, RunOK
  <2> QED BY <1>1, <1>3, <2>2, <2>3
<1> QED BY <1>2, <1>3

LEMMA PlanStaysOfCard ==
  ASSUME TypeInv, PlanIsOfCard, Next
  PROVE  PlanIsOfCard'
<1>1. Choice' = Choice
  BY DEF Choice
<1>2. CASE run = Off
  <2>1. run'.plan = NoPlan
    BY <1>2, OffRests DEF Launch, Off
  <2> QED BY <2>1 DEF PlanIsOfCard
<1>3. CASE run # Off /\ Select
  <2>1. card' = card
    BY <1>3, WorldRests
  <2> QED BY <1>1, <1>3, <2>1, SelectTakesTheCards DEF PlanIsOfCard
<1>4. CASE run # Off /\ ~Select
  <2>1. card' = card
    BY <1>4, WorldRests
  <2> QED BY <1>1, <1>4, <2>1, PlanStays DEF PlanIsOfCard
<1> QED BY <1>2, <1>3, <1>4

LEMMA RunStaysWanted ==
  ASSUME RunIsWanted, Next
  PROVE  RunIsWanted'
<1>1. CASE run = Off
  <2>1. CASE Launch /\ UNCHANGED <<card, recipe, live>>
    BY <2>1 DEF Launch, RunIsWanted, Outdated
  <2>2. CASE run' = Off
    <3>1. Off' = Off
      BY DEF Off
    <3> QED BY <2>2, <3>1 DEF RunIsWanted
  <2> QED BY <1>1, <2>1, <2>2, OffRests
<1>2. CASE run # Off
  <2>1. Off' = Off
    BY DEF Off
  <2> QED BY <1>2, <2>1, WorldRests DEF RunIsWanted, Outdated
<1> QED BY <1>1, <1>2

LEMMA CommitStaysSound ==
  ASSUME TypeInv, CommitIsSound, Next
  PROVE  CommitIsSound'
<1>1. CASE run'.pc # "commit"
  BY <1>1 DEF CommitIsSound
<1>2. CASE run'.pc = "commit" /\ run' # run
  BY <1>2, OnlyCheckCommits DEF SetIsValid, CommitIsSound
<1>3. CASE run' = run
  BY <1>3 DEF CommitIsSound
<1> QED BY <1>1, <1>2, <1>3

LEMMA OneStepKeeps ==
  ASSUME OrderlyHooks, SizesTell, OneStepInv, [Next]_vars
  PROVE  OneStepInv'
<1>1. FreshInv'
  BY FreshStep DEF OneStepInv
<1>2. CASE Next
  BY <1>1, <1>2, PlanStaysOfCard, RunStaysWanted, CommitStaysSound DEF OneStepInv, FreshInv
<1>3. CASE UNCHANGED vars
  BY <1>1, <1>3 DEF vars, OneStepInv, PlanIsOfCard, RunIsWanted, Outdated, CommitIsSound, Choice, Off
<1> QED BY <1>2, <1>3

(* A step of a run, of the player or of an upgrade is one of the promised  *)
(* steps, or changes nothing that is promised.                             *)
LEMMA StepIsOneStep ==
  ASSUME OrderlyHooks, SizesTell, OneStepInv, [Next]_vars
  PROVE  [Installs \/ Adopts \/ Meddles]_<<card, live, recipe>>
<1> USE DEF OneStepInv, FreshInv
<1>1. CASE UNCHANGED vars
  BY <1>1 DEF vars
<1>2. CASE Next /\ run = Off
  BY <1>2, OffRests DEF Swap
<1>3. CASE Next /\ run # Off /\ live' = live
  BY <1>3, WorldRests
<1>4. CASE Next /\ run # Off /\ Commit /\ live' # live
  <2>1. run.pc = "commit" /\ run.plan \in Chosen
    BY <1>4 DEF Commit, TypeInv, RunOK
  <2>2. Choice[card] # NoPlan /\ run.plan.items = Choice[card].items
    BY <2>1, NoPlanAssumption DEF PlanIsOfCard
  <2>3. stage = Fresh(Choice[card].items, recipe)
    BY <1>4, <2>2, CommitsFresh
  <2>4. live' = [tree |-> Fresh(Choice[card].items, recipe), recipe |-> recipe,
                 marker |-> recipe, items |-> Choice[card].items]
    BY <1>4, <2>2, <2>3 DEF Commit
  <2>5. Outdated
    BY <1>4 DEF RunIsWanted
  <2>6. \A x \in Choice[card].items : x.data \notin Faulty
    BY <2>1, <2>2 DEF CommitIsSound
  <2>7. UNCHANGED <<card, recipe>>
    BY <1>4, WorldRests
  <2> QED BY <1>4, <2>2, <2>4, <2>5, <2>6, <2>7 DEF Installs
<1> QED BY <1>1, <1>2, <1>3, <1>4, WorldRests

(* Cut short, resumed, repeated, over another card or after an upgrade:    *)
(* for the player an install is one step, from the card that is in to the  *)
(* payload one undisturbed run makes of it (install_command).              *)
THEOREM InstallIsOneStep ==
  ASSUME OrderlyHooks, SizesTell
  PROVE  Spec => InstallsInOneStep
<1>1. Init => OneStepInv
  <2> SUFFICES ASSUME Init PROVE OneStepInv
    OBVIOUS
  <2>1. FreshInv
    BY FreshInit
  <2>2. run = Off /\ run.plan = NoPlan /\ run.pc = "off"
    BY DEF Init, Off
  <2> QED BY <2>1, <2>2 DEF OneStepInv, PlanIsOfCard, RunIsWanted, CommitIsSound
<1>2. OneStepInv /\ [Next]_vars => OneStepInv'
  BY OneStepKeeps
<1>3. OneStepInv /\ [Next]_vars => [Installs \/ Adopts \/ Meddles]_<<card, live, recipe>>
  BY StepIsOneStep
<1>4. Init => card \in Card /\ live = NoPayload /\ recipe = 1
  BY DEF Init
<1> QED BY <1>1, <1>2, <1>3, <1>4, PTL DEF Spec, InstallsInOneStep
=============================================================================
