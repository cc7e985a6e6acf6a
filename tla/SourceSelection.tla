--------------------------- MODULE SourceSelection ---------------------------
(***************************************************************************)
(* How nxextract.py turns the files a player has put on the card into a    *)
(* plan: discovery, grouping, the rules of the recipe and the choice among *)
(* the sets that match.  The operators are pure: a card in, a plan out.    *)
(*                                                                         *)
(* Member names and destinations are members of small sets; a pattern is   *)
(* the set of names it matches.  A content (Data) stands for a size and a  *)
(* CRC together.                                                           *)
(***************************************************************************)
EXTENDS Naturals, Sequences, FiniteSets

CONSTANTS Abis,       \* abi_order of the recipe, a sequence
          Rules,      \* "extract" of the recipe, a sequence of records
          Accepted,   \* "packages" of the recipe; {} accepts every application
          Covered,    \* the destinations under a commit root
          Fold,       \* portable_path_key of names and destinations
          Size,       \* size of a content
          Stripped,   \* the name does not start with strip_prefix
          NoPackage,  \* an APK without a readable manifest
          NoPlan      \* no plan

ASSUME AbisAssumption == Abis \in Seq(STRING) /\ Len(Abis) >= 1
ASSUME RulesAssumption == Len(Rules) \in Nat /\ DOMAIN Rules = 1..Len(Rules)

(* A file of the card is a record: name, dir (which search directory),     *)
(* shape (what zip_classification makes of it, "plain" if it is no ZIP),   *)
(* known (its suffix is one of the extensions), obb, sound (the archive    *)
(* opens), package, base (its manifest names no split), members (a         *)
(* function from names to contents), inner (the APKs inside a bundle), and *)
(* data, its own content.                                                  *)
(*                                                                         *)
(* A rule: id, kind ("entry", "entries", "file", "entry_or_file" or        *)
(* "container"), scopes, required, and per ABI its patterns, the contents  *)
(* "validate" accepts, the destination of each name, and the file counts   *)
(* it accepts.                                                             *)
-----------------------------------------------------------------------------
(* discover_inputs: the first search directory that holds a candidate.  In *)
(* the first one every regular file is a candidate (sniff_all_in_primary). *)
Candidates(card, d) == {f \in card : f.dir = d /\ (f.known \/ d = 1)}

Searched(card) ==
    LET filled == {f.dir : f \in {g \in card : g \in Candidates(card, g.dir)}}
    IN IF filled = {} THEN {}
       ELSE Candidates(card, CHOOSE d \in filled : \A e \in filled : d <= e)

Shaped(found, shape) == {f \in found : f.shape = shape}

(* A plain file with a known suffix; an OBB that is a ZIP is both.         *)
Loose(found) == {f \in found : \/ f.shape = "plain" /\ f.known
                               \/ f.shape = "archive" /\ f.obb}

Packages(archives) == {a.package : a \in archives}

(* build_candidate_groups: what one group offers to the rules.             *)
Group(archives, found, package, source) ==
    [archives |-> archives \cup Shaped(found, "archive"),
     loose |-> Loose(found), package |-> package, source |-> source]

BundleGroups(found) ==
    {Group(b.inner \cup {b}, found, CHOOSE p \in Packages(b.inner) : TRUE, "bundle") :
        b \in Shaped(found, "bundle")}

DirectGroups(found) ==
    {Group({a \in Shaped(found, "apk") : a.package = p}, found, p, "apk-set") :
        p \in Packages(Shaped(found, "apk"))}

AllGroups(found) ==
    LET packed == BundleGroups(found) \cup DirectGroups(found)
    IN IF packed = {} /\ (Shaped(found, "archive") # {} \/ Loose(found) # {})
       THEN {Group({}, found, NoPackage, "companion")}
       ELSE packed

(* input.packages: another application's set is left out; a set without a  *)
(* package stays, its contents decide.                                     *)
Groups(found) ==
    {g \in AllGroups(found) :
        Accepted = {} \/ g.package = NoPackage \/ g.package \in Accepted}

(* What makes the whole selection raise SourceError.                       *)
Refused(found) ==
    \/ \E f \in found : f.shape # "plain" /\ ~f.sound
    \/ \E b \in Shaped(found, "bundle") :
           \/ \E a \in b.inner : ~a.sound \/ a.package = NoPackage
           \/ Cardinality(Packages(b.inner)) # 1
    \/ Groups(found) = {}
-----------------------------------------------------------------------------
(* The rules.  A hit is a member, or a whole file, that matches.           *)

Scope(a) == IF a.shape = "apk" THEN "apk" ELSE "bundle"

(* _candidate_members, for the k-th pattern.                               *)
Hits(rule, g, abi, k) ==
    UNION {{[from |-> a, name |-> n, data |-> a.members[n]] :
               n \in DOMAIN a.members \cap rule.patterns[abi][k]} :
              a \in {b \in g.archives : Scope(b) \in rule.scopes}}

AllHits(rule, g, abi) ==
    UNION {Hits(rule, g, abi, k) : k \in DOMAIN rule.patterns[abi]}

(* _assert_portable_selection: two members of one archive selected by one  *)
(* pattern that a case-insensitive card would merge; nothing catches it.   *)
Collides(rule, g, abi) ==
    /\ rule.kind \in {"entry", "entries", "entry_or_file"}
    /\ \E k \in DOMAIN rule.patterns[abi] : \E x, y \in Hits(rule, g, abi, k) :
           x.from = y.from /\ x.name # y.name /\ Fold[x.name] = Fold[y.name]

Valid(hits, rule, abi) == {h \in hits : h.data \in rule.accept[abi]}

(* The first pattern with a valid candidate.                               *)
MemberHits(rule, g, abi) ==
    LET Useful(k) == Valid(Hits(rule, g, abi, k), rule, abi)
        patterns == DOMAIN rule.patterns[abi]
        first == {k \in patterns : \A j \in patterns : j < k => Useful(j) = {}}
    IN IF rule.kind \in {"entry", "entry_or_file"} THEN UNION {Useful(k) : k \in first}
       ELSE {}

(* _candidate_loose, and _candidate_containers: the base APK itself.       *)
WholeFiles(rule, g) ==
    CASE rule.kind = "container" ->
             {a \in g.archives : Scope(a) \in rule.scopes /\ a.base}
      [] rule.kind \in {"file", "entry_or_file"} -> g.loose
      [] OTHER -> {}

FileHits(rule, g, abi) ==
    Valid({[from |-> f, name |-> f.name, data |-> f.data] :
              f \in {w \in WholeFiles(rule, g) :
                        \E k \in DOMAIN rule.patterns[abi] :
                            w.name \in rule.patterns[abi][k]}},
          rule, abi)

(* SourceItem; "exact" says that its CRC is known from a ZIP directory.    *)
Item(rule, h, abi, exact) ==
    [rule |-> rule.id, dest |-> rule.into[abi][h.name], data |-> h.data, exact |-> exact]

(* _choose_one: every candidate must be the same content.                  *)
OneData(rule, g, abi) ==
    {h.data : h \in MemberHits(rule, g, abi) \cup FileHits(rule, g, abi)}

OneItems(rule, g, abi) ==
    IF MemberHits(rule, g, abi) # {}
    THEN {Item(rule, CHOOSE h \in MemberHits(rule, g, abi) : TRUE, abi, TRUE)}
    ELSE IF FileHits(rule, g, abi) # {}
    THEN {Item(rule, CHOOSE h \in FileHits(rule, g, abi) : TRUE, abi, FALSE)}
    ELSE {}

OneFails(rule, g, abi) == \/ \E x, y \in OneData(rule, g, abi) : x # y
                          \/ OneData(rule, g, abi) = {} /\ rule.required

(* _choose_many: the whole tree, without looking into its files.           *)
ManyItems(rule, g, abi) ==
    {i \in {Item(rule, h, abi, TRUE) : h \in AllHits(rule, g, abi)} : i.dest # Stripped}

Conflicting(items) == \E x, y \in items : x # y /\ Fold[x.dest] = Fold[y.dest]

ManyFails(rule, g, abi) ==
    \/ AllHits(rule, g, abi) = {} /\ rule.required
    \/ Conflicting(ManyItems(rule, g, abi))
    \/ /\ AllHits(rule, g, abi) # {}
       /\ Cardinality(ManyItems(rule, g, abi)) \notin rule.counts
-----------------------------------------------------------------------------
(* build_plan_for.                                                         *)

RuleItems(i, g, abi) ==
    IF Rules[i].kind = "entries" THEN ManyItems(Rules[i], g, abi)
    ELSE OneItems(Rules[i], g, abi)

RuleFails(i, g, abi) ==
    IF Rules[i].kind = "entries" THEN ManyFails(Rules[i], g, abi)
    ELSE OneFails(Rules[i], g, abi)

ItemsUpTo(n, g, abi) == UNION {RuleItems(i, g, abi) : i \in 1..n}

Items(g, abi) == ItemsUpTo(Len(Rules), g, abi)

(* A PlanError before rule n: this set is no candidate.                    *)
FailsBefore(n, g, abi) == \/ \E i \in 1..n - 1 : RuleFails(i, g, abi)
                          \/ Conflicting(ItemsUpTo(n - 1, g, abi))

(* An error resolve_plan does not catch: nothing is selected at all.       *)
Aborts(g, abi) ==
    \E i \in DOMAIN Rules :
        /\ ~FailsBefore(i, g, abi)
        /\ \/ Collides(Rules[i], g, abi)
           \/ ~RuleFails(i, g, abi) /\ \E x \in RuleItems(i, g, abi) : x.dest \notin Covered

Builds(g, abi) == ~FailsBefore(Len(Rules) + 1, g, abi) /\ Items(g, abi) # {}
-----------------------------------------------------------------------------
(* resolve_plan.                                                           *)

(* Mutant: the CRC is left out.                                            *)
FingerprintBySize(items) ==
    {[rule |-> x.rule, dest |-> x.dest, size |-> Size[x.data], crc |-> << >>] : x \in items}

Fingerprint(items) ==
    {[rule |-> x.rule, dest |-> x.dest, size |-> Size[x.data],
      crc |-> IF x.exact THEN <<x.data>> ELSE << >>] : x \in items}

PlanOf(g, abi) == [group |-> g, abi |-> abi, items |-> Items(g, abi)]

AbiSet == {Abis[i] : i \in DOMAIN Abis}

Plans(found) == {PlanOf(p[1], p[2]) :
                    p \in {q \in Groups(found) \X AbiSet : Builds(q[1], q[2])}}

SourceRank == [source \in {"apk-set", "bundle", "companion"} |->
                  CASE source = "apk-set" -> 0 [] source = "bundle" -> 1 [] OTHER -> 2]

AbiRank(abi) == CHOOSE i \in DOMAIN Abis :
                    Abis[i] = abi /\ \A j \in DOMAIN Abis : Abis[j] = abi => i <= j

Preferred(p, q) == \/ AbiRank(p.abi) < AbiRank(q.abi)
                   \/ /\ AbiRank(p.abi) = AbiRank(q.abi)
                      /\ SourceRank[p.group.source] <= SourceRank[q.group.source]

(* The description breaks the last ties.                                   *)
Best(plans) == CHOOSE p \in plans : \A q \in plans : Preferred(p, q)

Aborted(found) == \E g \in Groups(found), abi \in AbiSet : Aborts(g, abi)

Resolve(card) ==
    LET found == Searched(card)
        plans == Plans(found)
    IN IF \/ Refused(found) \/ Aborted(found)
          \/ plans = {}
          \/ \E p, q \in plans : Fingerprint(p.items) # Fingerprint(q.items)
       THEN NoPlan ELSE Best(plans)
-----------------------------------------------------------------------------
(* What a plan writes where.                                               *)
Contents(items) == {<<x.dest, x.data>> : x \in items}

(* The installer never guesses: if it selects, every other set it could    *)
(* have built from this card writes the same files ("multiple different    *)
(* payload sets match; keep one version", resolve_plan).                   *)
NoGuess(card) ==
    LET plan == Resolve(card)
    IN plan # NoPlan =>
           \A p \in Plans(Searched(card)) : Contents(p.items) = Contents(plan.items)

(* A plan fits every card: no two of its items share a portable path, all  *)
(* lie under the commit roots, and each rule has given what it must        *)
(* (_choose_many, build_plan_for, _under_any_commit).                      *)
Portable(plan) ==
    /\ \A x, y \in plan.items : Fold[x.dest] = Fold[y.dest] => x = y
    /\ \A x \in plan.items : x.dest \in Covered
    /\ \A i \in DOMAIN Rules : Rules[i].required /\ Rules[i].kind # "entries" =>
           \E x \in plan.items : x.rule = Rules[i].id /\ x.data \in Rules[i].accept[plan.abi]
=============================================================================
