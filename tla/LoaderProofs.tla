---------------------------- MODULE LoaderProofs ----------------------------
(* Theorems about the registry of imports (ImportRegistry) and about the phases
   of a guest library under calls from its own callbacks and code (NxLoader). *)
EXTENDS NxLoader, ImportRegistry, SequenceTheorems, TLAPS

-----------------------------------------------------------------------------
(* The registry.  The invariant says of the copy what BestOffer says of the
   registry, with the offers merged so far beside those that were taken. *)

(* Every entry of E is in S, or one that outranks it. *)
Above(S, E) == \A e \in E : \E f \in S : f.name = e.name /\ (f = e \/ Outranks(f, e))

Merged == {table[i] : i \in 1..(next - 1)}

RegistryInv ==
    /\ RegistryTypeOK
    /\ BestOffer
    /\ table # <<>> => /\ Best(staged, accepted \cup Merged)
                       /\ Above(staged, entries)

LEMMA RanksAreOrdered ==
    ASSUME NEW o \in Offer, NEW p \in Offer, NEW q \in Offer,
           Outranks(o, p), Outranks(p, q) \/ SameRank(p, q)
    PROVE  Outranks(o, q)
<1>1. o.priority \in Nat /\ p.priority \in Nat /\ q.priority \in Nat
  BY PrioritiesAreOrdered DEF Offer
<1>2. p.priority > q.priority \/ p.priority = q.priority
  BY DEF Outranks, SameRank
<1>3. CASE o.priority > p.priority
  <2>1. o.priority > q.priority
    BY <1>1, <1>2, <1>3
  <2> QED
    BY <2>1 DEF Outranks
<1>4. CASE o.priority = p.priority /\ ~o.weak /\ p.weak
  <2>1. CASE p.priority > q.priority
    <3>1. o.priority > q.priority
      BY <1>4, <2>1
    <3> QED
      BY <3>1 DEF Outranks
  <2>2. CASE SameRank(p, q)
    BY Zenon, <1>4, <2>2 DEF SameRank, Outranks
  <2> QED
    BY Zenon, <1>4, <2>1, <2>2 DEF Outranks
<1> QED
  BY Zenon, <1>3, <1>4 DEF Outranks

(* One offer more: the copy stays the best of what was merged. *)
LEMMA MergeKeepsBest ==
    ASSUME RegistryTypeOK, NEW A \in SUBSET Offer, Best(staged, A),
           NEW o \in Offer,
           \/ Wins(o) /\ staged' = Replace(o)
           \/ Yields(o) /\ staged' = staged
    PROVE  /\ staged' \subseteq Offer
           /\ \A e, f \in staged' : e.name = f.name => e = f
           /\ Best(staged', A \cup {o})
<1>1. CASE Wins(o) /\ staged' = Replace(o)
  <2>1. staged' \subseteq Offer /\ staged' \subseteq A \cup {o}
    BY <1>1 DEF RegistryTypeOK, Best, Replace
  <2>2. \A e, f \in staged' : e.name = f.name => e = f
    BY <1>1 DEF RegistryTypeOK, Replace, Rivals
  <2>3. ASSUME NEW p \in A \cup {o}
        PROVE  \E e \in staged' : /\ e.name = p.name
                                  /\ \/ Outranks(e, p)
                                     \/ SameRank(e, p) /\ e.address = p.address
    <3>1. CASE p = o
      <4>1. o \in staged' /\ SameRank(o, o)
        BY <1>1 DEF Replace, SameRank
      <4> QED
        BY <3>1, <4>1
    <3>2. CASE p \in A
      <4>1. PICK e \in staged : /\ e.name = p.name
                                /\ \/ Outranks(e, p)
                                   \/ SameRank(e, p) /\ e.address = p.address
        BY <3>2 DEF Best
      <4>2. CASE e \in Rivals(o)
        <5>1. Outranks(o, e) /\ e.name = o.name
          BY <1>1, <4>2 DEF Wins, Beats, Rivals
        <5>2. e \in Offer /\ p \in Offer
          BY <3>2 DEF RegistryTypeOK
        <5>3. Outranks(o, p)
          BY <4>1, <5>1, <5>2, RanksAreOrdered
        <5>4. o \in staged'
          BY <1>1 DEF Replace
        <5> QED
          BY <4>1, <5>1, <5>3, <5>4
      <4>3. CASE e \notin Rivals(o)
        <5>1. e \in staged'
          BY <1>1, <4>3 DEF Replace
        <5> QED
          BY <4>1, <5>1
      <4> QED
        BY <4>2, <4>3
    <3> QED
      BY <3>1, <3>2
  <2> QED
    BY <2>1, <2>2, <2>3 DEF Best
<1>2. CASE Yields(o) /\ staged' = staged
  <2>1. PICK e \in staged : /\ e.name = o.name
                            /\ \/ Outranks(e, o)
                               \/ SameRank(e, o) /\ e.address = o.address
    BY <1>2 DEF Yields, Rivals, Beats, SameRank
  <2> QED
    BY <1>2, <2>1 DEF RegistryTypeOK, Best
<1> QED
  BY <1>1, <1>2

(* One offer more: the copy loses no entry but to one that outranks it. *)
LEMMA MergeKeepsAbove ==
    ASSUME RegistryTypeOK, Above(staged, entries), NEW o \in Offer,
           \/ Wins(o) /\ staged' = Replace(o)
           \/ Yields(o) /\ staged' = staged
    PROVE  Above(staged', entries)
<1> SUFFICES ASSUME NEW e \in entries
             PROVE  \E f \in staged' : f.name = e.name /\ (f = e \/ Outranks(f, e))
  BY DEF Above
<1>1. PICK f \in staged : f.name = e.name /\ (f = e \/ Outranks(f, e))
  BY DEF Above
<1>2. CASE Yields(o) /\ staged' = staged
  BY <1>1, <1>2
<1>3. CASE Wins(o) /\ staged' = Replace(o)
  <2>1. CASE f \in Rivals(o)
    <3>1. Outranks(o, f) /\ f.name = o.name /\ o \in staged'
      BY <1>3, <2>1 DEF Wins, Beats, Rivals, Replace
    <3>2. e \in Offer /\ f \in Offer
      BY DEF RegistryTypeOK
    <3>3. Outranks(o, e)
      <4>1. CASE f = e
        BY <3>1, <4>1
      <4>2. CASE Outranks(f, e)
        BY <3>1, <3>2, <4>2, RanksAreOrdered
      <4> QED
        BY <1>1, <4>1, <4>2
    <3> QED
      BY <1>1, <3>1, <3>3
  <2>2. CASE f \notin Rivals(o)
    <3>1. f \in staged'
      BY <1>3, <2>2 DEF Replace
    <3> QED
      BY <1>1, <3>1
  <2> QED
    BY <2>1, <2>2
<1> QED
  BY <1>2, <1>3

LEMMA RegistryStep == RegistryInv /\ [RegistryNext]_registryVars => RegistryInv'
<1> SUFFICES ASSUME RegistryInv, [RegistryNext]_registryVars
             PROVE  RegistryInv'
  OBVIOUS
<1>1. CASE StartTable
  <2>1. table' \in Seq(Offer) /\ Merged' = {}
    BY <1>1 DEF StartTable, Tables, Merged
  <2>2. RegistryTypeOK'
    BY <1>1, <2>1 DEF StartTable, RegistryInv, RegistryTypeOK
  <2>3. BestOffer' /\ Best(staged', accepted' \cup Merged')
    BY <1>1, <2>1 DEF StartTable, RegistryInv, BestOffer, Best
  <2>4. Above(staged', entries')
    BY <1>1 DEF StartTable, Above
  <2> QED
    BY <2>2, <2>3, <2>4 DEF RegistryInv, Best
<1>2. CASE MergeOffer
  <2> DEFINE o == table[next]
  <2>1. next \in 1..Len(table) /\ next + 1 \in 1..(Len(table) + 1)
    BY <1>2 DEF MergeOffer, Merging, RegistryInv, RegistryTypeOK
  <2>2. o \in Offer
    BY <2>1 DEF RegistryInv, RegistryTypeOK
  <2>3. Merged' = Merged \cup {o} /\ Merged \subseteq Offer
    BY <1>2, <2>1 DEF MergeOffer, Merged, RegistryInv, RegistryTypeOK
  <2>4. accepted \cup Merged \in SUBSET Offer
    BY <2>3 DEF RegistryInv, RegistryTypeOK
  <2>5. Best(staged, accepted \cup Merged)
    BY <1>2 DEF MergeOffer, Merging, RegistryInv
  <2>6. \/ Wins(o) /\ staged' = Replace(o)
        \/ Yields(o) /\ staged' = staged
    BY <1>2 DEF MergeOffer
  <2>7. RegistryTypeOK
    BY DEF RegistryInv
  <2>8. /\ staged' \subseteq Offer
        /\ \A e, f \in staged' : e.name = f.name => e = f
        /\ Best(staged', (accepted \cup Merged) \cup {o})
    <3> HIDE DEF o
    <3> QED
      BY <2>2, <2>4, <2>5, <2>6, <2>7, MergeKeepsBest
  <2>9. RegistryTypeOK'
    BY <1>2, <2>1, <2>7, <2>8 DEF MergeOffer, RegistryTypeOK
  <2>10. Best(staged', accepted' \cup Merged')
    <3>1. accepted' \cup Merged' = (accepted \cup Merged) \cup {o}
      BY <1>2, <2>3 DEF MergeOffer
    <3> QED
      BY <2>8, <3>1
  <2>11. BestOffer'
    BY <1>2 DEF MergeOffer, RegistryInv, BestOffer
  <2>12. Above(staged', entries')
    <3>1. Above(staged, entries) /\ entries' = entries
      BY <1>2 DEF MergeOffer, Merging, RegistryInv
    <3>2. Above(staged', entries)
      <4> HIDE DEF o
      <4> QED
        BY <2>2, <2>6, <2>7, <3>1, MergeKeepsAbove
    <3> QED
      BY <3>1, <3>2
  <2> QED
    BY <2>9, <2>10, <2>11, <2>12 DEF RegistryInv, Best
<1>3. CASE Abandon
  BY <1>3 DEF Abandon, RegistryInv, RegistryTypeOK, BestOffer
<1>4. CASE PublishTable
  <2>1. {table[i] : i \in DOMAIN table} = Merged
    BY <1>4 DEF PublishTable, Merged, RegistryInv, RegistryTypeOK
  <2>2. BestOffer'
    BY <1>4, <2>1 DEF PublishTable, RegistryInv, BestOffer
  <2>3. RegistryTypeOK'
    BY <1>4, <2>1 DEF PublishTable, RegistryInv, RegistryTypeOK, Merged
  <2> QED
    BY <1>4, <2>2, <2>3 DEF PublishTable, RegistryInv
<1>5. CASE UNCHANGED registryVars
  BY <1>5, SMTT(30) DEF registryVars, RegistryInv, RegistryTypeOK, BestOffer, Best, Above,
          Merged
<1> QED
  BY <1>1, <1>2, <1>3, <1>4, <1>5 DEF RegistryNext

LEMMA RegistryStart == RegistryInit => RegistryInv
  BY DEF RegistryInit, RegistryInv, RegistryTypeOK, BestOffer, Best

(* Whatever providers come, in any order, with any tables: each name has one
   entry in the registry (nxloader_registry_invariant). *)
THEOREM OneEntryPerName == RegistrySpec => []RegistryTypeOK
<1>1. RegistryInv => RegistryTypeOK
  BY DEF RegistryInv
<1> QED
  BY <1>1, RegistryStart, RegistryStep, PTL DEF RegistrySpec

(* For any names, priorities and tables, the entry of a name is the best of all
   that was ever taken (nxloader_registry_add_provider). *)
THEOREM EntriesAreTheBest == RegistrySpec => []BestOffer
<1>1. RegistryInv => BestOffer
  BY DEF RegistryInv
<1> QED
  BY <1>1, RegistryStart, RegistryStep, PTL DEF RegistrySpec

(* For any providers, in any order: a name is rebound only by an offer that
   outranks the one before (nxloader_registry_add_provider). *)
THEOREM EntriesOnlyEverRise == RegistrySpec => EntriesOnlyRise
<1>1. RegistryInv /\ [RegistryNext]_registryVars =>
        [\A e \in entries :
           \E f \in entries' : f.name = e.name /\ (f = e \/ Outranks(f, e))]_registryVars
  <2> SUFFICES ASSUME RegistryInv, [RegistryNext]_registryVars,
                      NEW e \in entries
               PROVE  \E f \in entries' : /\ f.name = e.name
                                          /\ f = e \/ Outranks(f, e)
    OBVIOUS
  <2>1. CASE PublishTable
    BY <2>1 DEF PublishTable, RegistryInv, Above
  <2>2. CASE entries' = entries
    BY <2>2
  <2> QED
    BY <2>1, <2>2 DEF RegistryNext, StartTable, MergeOffer, Abandon, registryVars
<1> QED
  BY <1>1, RegistryStart, RegistryStep, PTL DEF RegistrySpec, EntriesOnlyRise

-----------------------------------------------------------------------------
(* The phases of a module.  What holds of every state reached: only the last
   call runs in the loader's own code; callback_active is set exactly while a
   callback of the module is on the stack; a module has further calls above one
   of its own only where that one is in guest code, and they are look-ups of
   exports; each call finds its module in the phase it was entered in; what a
   callback did is known to the code or has failed its call already; the image
   fits the phase. *)

LastRuns == \A i \in 1..Len(stack) : stack[i].at = "run" => i = Len(stack)

Marks == \A m \in Modules :
            active[m] <=> \E i \in 1..Len(stack) : /\ stack[i].mod = m
                                                   /\ stack[i].at = "callback"

Shadows == \A i, j \in 1..Len(stack) :
              i < j /\ stack[i].mod = stack[j].mod
                => stack[i].at = "guest" /\ stack[j].op = "find"

GuestPhase(op) == IF op = "initializers" THEN "INITIALIZING" ELSE "JNI_LOADING"

\* The phase of the module fits the call.
Fits(c) ==
    IF c.at = "guest"
    THEN /\ c.op \in {"initializers", "onload"} /\ ~c.touched
         /\ state[c.mod] = GuestPhase(c.op)
    ELSE /\ state[c.mod] \in Required(c.op) \/ Published(c)
         /\ c.at = "callback" => CallsBack(c)

CallsFit == \A i \in 1..Len(stack) : Fits(stack[i])

Noticed == \A i \in 1..Len(stack) :
              /\ stack[i].at = "run" => (stack[i].touched => stack[i].failed)
              /\ stack[i].at = "callback" =>
                   (stack[i].touched => stack[i].failed \/ violation[stack[i].mod])

Bound == {"FINALIZED", "INITIALIZING", "INITIALIZED", "JNI_LOADING", "READY"}

\* The image fits the phase.
Imaged(m) ==
    LET s == state[m]
        g == image[m] IN
      /\ s \in {"NONE", "EMPTY"} => g = NoImage
      /\ s \in {"LOADED", "RELOCATED"} => ~g.sealed /\ g.imports = 0
      /\ s = "LOADED" => g.local = 0
      /\ s \in {"RELOCATED", "RESOLVED"} \cup Bound => g.local = 1
      /\ s \in {"RESOLVED"} \cup Bound => g.imports = 1
      /\ s \in Bound => g.sealed
      /\ s \in {"LOADED", "RELOCATED", "RESOLVED"} \cup Bound => g.mapped
      /\ s \in {"LOADED", "RELOCATED", "RESOLVED", "FINALIZED"} => g.ran = 0
      /\ s \in Bound \ {"FINALIZED"} => g.ran = 1
      /\ s \in {"LOADED", "RELOCATED", "RESOLVED", "FINALIZED", "INITIALIZING",
                "INITIALIZED"} => g.entered = 0

\* A module that is sealed and not past finalize is in a finalize that failed.
SealInProgress == \A m \in Modules :
    state[m] = "RESOLVED" /\ image[m].sealed =>
      \E i \in 1..Len(stack) : /\ stack[i].mod = m /\ stack[i].op = "finalize"
                               /\ stack[i].failed /\ stack[i].at # "guest"

LoaderInv == /\ TypeOK /\ LastRuns /\ Marks /\ Shadows /\ CallsFit /\ Noticed
             /\ \A m \in Modules : Imaged(m)
             /\ SealInProgress

-----------------------------------------------------------------------------
(* The stack. *)

LEMMA TopFacts ==
    ASSUME TypeOK, stack # <<>>
    PROVE  /\ Len(stack) \in Nat /\ Len(stack) \in 1..Len(stack)
           /\ Top = stack[Len(stack)] /\ Top \in Call
           /\ \A i \in 1..Len(stack) : stack[i] \in Call
<1>1. stack \in Seq(Call)
  BY DEF TypeOK
<1>2. Len(stack) \in Nat \ {0}
  BY <1>1, EmptySeq
<1>3. \A i \in 1..Len(stack) : stack[i] \in Call
  BY <1>1, ElementOfSeq
<1> QED
  BY <1>2, <1>3 DEF Top

LEMMA RetopFacts ==
    ASSUME TypeOK, stack # <<>>, NEW c \in Call
    PROVE  /\ Retop(c) \in Seq(Call) /\ Len(Retop(c)) = Len(stack)
           /\ \A i \in 1..Len(stack) :
                Retop(c)[i] = IF i = Len(stack) THEN c ELSE stack[i]
<1>1. stack \in Seq(Call) /\ Len(stack) \in 1..Len(stack)
  BY TopFacts DEF TypeOK
<1> QED
  BY <1>1, ExceptSeq DEF Retop

LEMMA PopFacts ==
    ASSUME TypeOK, stack # <<>>
    PROVE  /\ Pop \in Seq(Call) /\ Len(Pop) = Len(stack) - 1
           /\ \A i \in 1..(Len(stack) - 1) : Pop[i] = stack[i]
<1>1. Len(stack) \in Nat \ {0} /\ \A i \in 1..(Len(stack) - 1) : stack[i] \in Call
  BY TopFacts
<1>2. 1 \in Int /\ Len(stack) - 1 \in Int
  BY <1>1
<1>3. /\ SubSeq(stack, 1, Len(stack) - 1) \in Seq(Call)
      /\ Len(SubSeq(stack, 1, Len(stack) - 1))
           = IF 1 <= Len(stack) - 1 THEN Len(stack) - 1 - 1 + 1 ELSE 0
      /\ \A i \in 1..(Len(stack) - 1 - 1 + 1) :
           SubSeq(stack, 1, Len(stack) - 1)[i] = stack[1 + i - 1]
  BY <1>1, <1>2, SubSeqProperties
<1>4. (IF 1 <= Len(stack) - 1 THEN Len(stack) - 1 - 1 + 1 ELSE 0) = Len(stack) - 1
  <2> DEFINE n == Len(stack)
  <2>1. n \in Nat /\ n >= 1
    BY <1>1
  <2> HIDE DEF n
  <2>2. (IF 1 <= n - 1 THEN n - 1 - 1 + 1 ELSE 0) = n - 1
    <3>1. CASE 1 <= n - 1
      BY <2>1, <3>1
    <3>2. CASE ~(1 <= n - 1)
      BY <2>1, <3>2
    <3> QED
      BY <3>1, <3>2
  <2> QED
    BY <2>2 DEF n
<1>5. ASSUME NEW i \in 1..(Len(stack) - 1)
      PROVE  SubSeq(stack, 1, Len(stack) - 1)[i] = stack[i]
  <2>1. 1 + i - 1 = i /\ i \in 1..(Len(stack) - 1 - 1 + 1)
    BY <1>1
  <2> QED
    BY <1>3, <2>1
<1> QED
  BY <1>3, <1>4, <1>5 DEF Pop

(* Code outside the loader calls it for a module without an active callback: all
   the calls that are under way for the module are in guest code. *)
LEMMA OnlyGuests ==
    ASSUME LoaderInv, Outside, NEW m \in Modules, ~active[m],
           NEW i \in 1..Len(stack), stack[i].mod = m
    PROVE  /\ stack[i].at = "guest"
           /\ state[m] \in {"INITIALIZING", "JNI_LOADING"}
<1>1. stack # <<>>
  <2>1. stack = <<>> => Len(stack) = 0
    BY EmptySeq
  <2> QED
    BY <2>1
<1>2. stack[i] \in Call /\ Top = stack[Len(stack)]
  BY <1>1, TopFacts DEF LoaderInv
<1>3. stack[i].at # "callback"
  BY DEF LoaderInv, Marks
<1>4. stack[i].at # "run"
  BY <1>1, <1>2 DEF LoaderInv, LastRuns, Outside
<1>5. stack[i].at = "guest"
  BY <1>2, <1>3, <1>4 DEF Call
<1> QED
  BY <1>5 DEF LoaderInv, CallsFit, Fits, GuestPhase

(* A call that is not a look-up is alone with its module. *)
LEMMA TopIsAlone ==
    ASSUME LoaderInv, stack # <<>>, Top.op # "find",
           NEW i \in 1..Len(stack), stack[i].mod = Top.mod
    PROVE  i = Len(stack)
<1>1. Len(stack) \in Nat /\ Len(stack) \in 1..Len(stack) /\ Top = stack[Len(stack)]
  BY TopFacts DEF LoaderInv
<1> QED
  BY <1>1 DEF LoaderInv, Shadows

(* Fits only looks at the phase of the call's own module. *)
LEMMA FitsIsLocal ==
    ASSUME NEW c \in Call, Fits(c), state'[c.mod] = state[c.mod]
    PROVE  Fits(c)'
  BY DEF Fits, Published

LEMMA CallIsAlive ==
    ASSUME LoaderInv
    PROVE  InUseIsAlive
<1> SUFFICES ASSUME NEW i \in DOMAIN stack
             PROVE  state[stack[i].mod] # "NONE"
  BY DEF InUseIsAlive
<1>1. i \in 1..Len(stack)
  BY LenProperties DEF LoaderInv, TypeOK
<1>2. stack[i] \in Call /\ Fits(stack[i])
  BY <1>1, ElementOfSeq DEF LoaderInv, TypeOK, CallsFit
<1> QED
  BY <1>2 DEF Fits, GuestPhase, Required, Published, Call, Phases

-----------------------------------------------------------------------------
(* The steps of code outside the loader. *)

LEMMA CreateStep ==
    ASSUME LoaderInv, NEW m \in Modules, Create(m)
    PROVE  LoaderInv'
<1>1. TypeOK'
  BY DEF LoaderInv, TypeOK, Create, States, Image, NoImage
<1>2. ASSUME NEW i \in 1..Len(stack)
      PROVE  stack[i] \in Call /\ stack[i].mod \in Modules /\ stack[i].mod # m
  <2>1. stack[i] \in Call /\ i \in DOMAIN stack
    BY ElementOfSeq, LenProperties DEF LoaderInv, TypeOK
  <2> QED
    BY <2>1, CallIsAlive DEF Create, InUseIsAlive, Call
<1>3. LastRuns' /\ Marks' /\ Shadows' /\ Noticed'
  BY DEF LoaderInv, Create, LastRuns, Marks, Shadows, Noticed
<1>4. CallsFit'
  <2> SUFFICES ASSUME NEW i \in 1..Len(stack) PROVE Fits(stack[i])'
    BY DEF CallsFit, Create
  <2>1. Fits(stack[i]) /\ state'[stack[i].mod] = state[stack[i].mod]
    BY <1>2 DEF LoaderInv, CallsFit, Create, TypeOK
  <2>2. stack'[i] = stack[i]
    BY DEF Create
  <2> QED
    BY <1>2, <2>1, <2>2 DEF Fits, Published
<1>5. ASSUME NEW n \in Modules PROVE Imaged(n)'
  BY DEF LoaderInv, TypeOK, Create, Imaged, Bound
<1>6. SealInProgress'
  BY DEF LoaderInv, TypeOK, Create, SealInProgress, NoImage
<1> QED
  BY <1>1, <1>3, <1>4, <1>5, <1>6 DEF LoaderInv

LEMMA RefusedStep ==
    ASSUME LoaderInv, NEW m \in Modules, Refused(m)
    PROVE  LoaderInv'
<1>1. stack \in Seq(Call) /\ Len(stack) \in Nat /\ DOMAIN stack = 1..Len(stack)
  BY LenProperties DEF LoaderInv, TypeOK
<1>2. \A i \in 1..Len(stack) : stack[i] \in Call
  BY <1>1, ElementOfSeq
<1>3. stack' = [i \in 1..Len(stack) |->
                  [stack[i] EXCEPT !.touched =
                     @ \/ (stack[i].mod = m /\ stack[i].at = "callback")]]
  BY <1>1 DEF Refused
<1>4. /\ stack' \in Seq(Call) /\ Len(stack') = Len(stack)
      /\ \A i \in 1..Len(stack) :
           stack'[i] = [stack[i] EXCEPT !.touched =
                          @ \/ (stack[i].mod = m /\ stack[i].at = "callback")]
  <2>1. \A i \in 1..Len(stack) :
          [stack[i] EXCEPT !.touched =
             @ \/ (stack[i].mod = m /\ stack[i].at = "callback")] \in Call
    BY <1>2 DEF Call
  <2>2. stack' \in [1..Len(stack) -> Call]
    BY <1>3, <2>1
  <2> QED
    BY <1>1, <1>3, <2>2, SeqDef
<1>5. \A i \in 1..Len(stack) :
        /\ stack'[i] \in Call
        /\ stack'[i].op = stack[i].op /\ stack'[i].mod = stack[i].mod
        /\ stack'[i].at = stack[i].at /\ stack'[i].failed = stack[i].failed
        /\ stack'[i].touched = (stack[i].touched \/
                                (stack[i].mod = m /\ stack[i].at = "callback"))
  <2> SUFFICES ASSUME NEW i \in 1..Len(stack)
               PROVE  /\ stack'[i] \in Call
                      /\ stack'[i].op = stack[i].op /\ stack'[i].mod = stack[i].mod
                      /\ stack'[i].at = stack[i].at /\ stack'[i].failed = stack[i].failed
                      /\ stack'[i].touched = (stack[i].touched \/
                                (stack[i].mod = m /\ stack[i].at = "callback"))
    OBVIOUS
  <2> DEFINE b == stack[i].touched \/ (stack[i].mod = m /\ stack[i].at = "callback")
  <2>1. stack[i] \in Call /\ stack'[i] = [stack[i] EXCEPT !.touched = b]
    BY <1>2, <1>4
  <2>2. b \in BOOLEAN
    BY <2>1 DEF Call
  <2> HIDE DEF b
  <2>3. /\ stack'[i] \in Call
        /\ stack'[i].op = stack[i].op /\ stack'[i].mod = stack[i].mod
        /\ stack'[i].at = stack[i].at /\ stack'[i].failed = stack[i].failed
        /\ stack'[i].touched = b
    BY <2>1, <2>2 DEF Call
  <2> QED
    BY <2>3 DEF b
<1>6. /\ state' = state /\ active' = active /\ image' = image
      /\ violation' = [violation EXCEPT ![m] = TRUE]
  BY DEF Refused
<1>7. TypeOK'
  BY <1>4, <1>6 DEF LoaderInv, TypeOK
<1>8. LastRuns' /\ Marks' /\ Shadows'
  BY <1>4, <1>5, <1>6 DEF LoaderInv, LastRuns, Marks, Shadows
<1>9. CallsFit'
  <2> SUFFICES ASSUME NEW i \in 1..Len(stack) PROVE Fits(stack[i])'
    BY <1>4 DEF CallsFit
  <2>1. Fits(stack[i])
    BY DEF LoaderInv, CallsFit
  <2>2. stack[i].at = "guest" => stack'[i].touched = stack[i].touched
    BY <1>2, <1>5 DEF Call
  <2> QED
    BY <1>5, <1>6, <2>1, <2>2 DEF Fits, Published, CallsBack
<1>10. Noticed'
  <2> SUFFICES ASSUME NEW i \in 1..Len(stack)
               PROVE  /\ stack'[i].at = "run" => (stack'[i].touched => stack'[i].failed)
                      /\ stack'[i].at = "callback" =>
                           (stack'[i].touched =>
                              stack'[i].failed \/ violation'[stack'[i].mod])
    BY <1>4 DEF Noticed
  <2>1. /\ stack[i].at = "run" => (stack[i].touched => stack[i].failed)
        /\ stack[i].at = "callback" =>
             (stack[i].touched => stack[i].failed \/ violation[stack[i].mod])
    BY DEF LoaderInv, Noticed
  <2>2. stack[i].at = "run" => (stack'[i].touched => stack'[i].failed)
    BY <1>5, <2>1
  <2>3. ASSUME stack[i].at = "callback", stack'[i].touched
        PROVE  stack'[i].failed \/ violation'[stack'[i].mod]
    <3>1. CASE stack[i].mod = m
      BY <1>5, <1>6, <3>1 DEF LoaderInv, TypeOK
    <3>2. CASE stack[i].mod # m
      <4>1. stack[i].touched
        BY <1>5, <2>3, <3>2
      <4>2. violation'[stack[i].mod] = violation[stack[i].mod]
        BY <1>6, <3>2 DEF LoaderInv, TypeOK
      <4> QED
        BY <1>5, <2>1, <2>3, <4>1, <4>2
    <3> QED
      BY <3>1, <3>2
  <2> QED
    BY <1>5, <2>2, <2>3
<1>11. ASSUME NEW n \in Modules PROVE Imaged(n)'
  BY <1>6 DEF LoaderInv, Imaged
<1>12. SealInProgress'
  BY <1>4, <1>5, <1>6 DEF LoaderInv, SealInProgress
<1> QED
  BY <1>7, <1>8, <1>9, <1>10, <1>11, <1>12 DEF LoaderInv

LEMMA EnterStep ==
    ASSUME LoaderInv, NEW m \in Modules, NEW op \in Phases, Enter(op, m)
    PROVE  LoaderInv'
<1> DEFINE c == [op |-> op, mod |-> m, at |-> "run", failed |-> FALSE,
                 touched |-> FALSE]
<1>1. stack \in Seq(Call) /\ Len(stack) \in Nat
  BY LenProperties DEF LoaderInv, TypeOK
<1>2. c \in Call
  BY DEF Call
<1>3. /\ stack' \in Seq(Call) /\ Len(stack') = Len(stack) + 1
      /\ stack'[Len(stack) + 1] = c
      /\ \A i \in 1..Len(stack) : stack'[i] = stack[i] /\ stack[i] \in Call
  BY <1>1, <1>2, ElementOfSeq DEF Enter, Push
<1>4. UNCHANGED <<state, active, violation, image>>
  BY DEF Enter, Push
<1>5. \A i \in 1..Len(stack') : i = Len(stack') \/ i \in 1..Len(stack)
  BY <1>1, <1>3
<1>6. Outside /\ ~active[m] /\ state[m] \in Required(op) /\ Len(stack) < MaxDepth
  BY DEF Enter, Push
<1>7. \A i \in 1..Len(stack) : stack[i].mod = m => stack[i].at = "guest" /\ op = "find"
  <2> SUFFICES ASSUME NEW i \in 1..Len(stack), stack[i].mod = m
               PROVE  stack[i].at = "guest" /\ op = "find"
    OBVIOUS
  <2>1. stack[i].at = "guest" /\ state[m] \in {"INITIALIZING", "JNI_LOADING"}
    BY <1>6, OnlyGuests
  <2> QED
    BY <1>6, <2>1 DEF Required, Phases
<1> HIDE DEF c
<1>8. c.mod = m /\ c.op = op /\ c.at = "run" /\ ~c.touched /\ ~c.failed
  BY DEF c
<1>9. TypeOK'
  BY <1>1, <1>3, <1>4, <1>6, DepthIsNatural DEF LoaderInv, TypeOK
<1>10. LastRuns'
  <2> SUFFICES ASSUME NEW i \in 1..Len(stack') , stack'[i].at = "run"
               PROVE  i = Len(stack')
    BY DEF LastRuns
  <2>1. CASE i \in 1..Len(stack)
    <3>1. stack # <<>> /\ Top = stack[Len(stack)] /\ i = Len(stack)
      <4>1. i = Len(stack)
        BY <1>3, <2>1 DEF LoaderInv, LastRuns
      <4>2. stack = <<>> => Len(stack) = 0
        OBVIOUS
      <4> QED
        BY <1>1, <2>1, <4>1, <4>2 DEF Top
    <3> QED
      BY <1>3, <1>6, <2>1, <3>1 DEF Outside
  <2> QED
    BY <1>5, <2>1
<1>11. Marks'
  BY <1>3, <1>4, <1>5, <1>8, <1>1 DEF LoaderInv, Marks
<1>12. Shadows'
  BY <1>1, <1>3, <1>5, <1>7, <1>8 DEF LoaderInv, Shadows
<1>13. CallsFit'
  <2> SUFFICES ASSUME NEW i \in 1..Len(stack') PROVE Fits(stack[i])'
    BY DEF CallsFit
  <2>1. CASE i \in 1..Len(stack)
    BY <1>3, <1>4, <2>1 DEF LoaderInv, CallsFit, Fits, Published, CallsBack
  <2>2. CASE i = Len(stack')
    BY <1>3, <1>4, <1>6, <1>8, <2>2 DEF Fits, Published
  <2> QED
    BY <1>5, <2>1, <2>2
<1>14. Noticed'
  BY <1>3, <1>4, <1>5, <1>8 DEF LoaderInv, Noticed
<1>15. ASSUME NEW n \in Modules PROVE Imaged(n)'
  BY <1>4 DEF LoaderInv, Imaged
<1>16. SealInProgress'
  BY <1>1, <1>3, <1>4 DEF LoaderInv, SealInProgress
<1> QED
  BY <1>9, <1>10, <1>11, <1>12, <1>13, <1>14, <1>15, <1>16 DEF LoaderInv

LEMMA InstallHookStep ==
    ASSUME LoaderInv, NEW m \in Modules, InstallHook(m)
    PROVE  LoaderInv'
<1>1. /\ UNCHANGED <<state, active, violation, stack>>
      /\ image' = [image EXCEPT ![m].hooked = TRUE] /\ state[m] = "RESOLVED"
  BY DEF InstallHook
<1>2. TypeOK'
  BY <1>1 DEF LoaderInv, TypeOK, Image
<1>3. LastRuns' /\ Marks' /\ Shadows' /\ Noticed'
  BY <1>1 DEF LoaderInv, LastRuns, Marks, Shadows, Noticed
<1>4. CallsFit'
  BY <1>1 DEF LoaderInv, CallsFit, Fits, Published
<1>5. ASSUME NEW n \in Modules PROVE Imaged(n)'
  BY <1>1 DEF LoaderInv, TypeOK, Image, Imaged, Bound
<1>6. SealInProgress'
  BY <1>1 DEF LoaderInv, TypeOK, Image, SealInProgress
<1> QED
  BY <1>2, <1>3, <1>4, <1>5, <1>6 DEF LoaderInv

LEMMA DestroyStep ==
    ASSUME LoaderInv, NEW m \in Modules, Destroy(m)
    PROVE  LoaderInv'
<1>1. /\ Outside /\ ~active[m]
      /\ state[m] \notin {"NONE", "INITIALIZING", "JNI_LOADING"}
      /\ state' = [state EXCEPT ![m] = "NONE"]
      /\ violation' = [violation EXCEPT ![m] = FALSE]
      /\ image' = [image EXCEPT ![m] = NoImage]
      /\ UNCHANGED <<active, stack>>
  BY DEF Destroy, Free
<1>2. TypeOK'
  BY <1>1 DEF LoaderInv, TypeOK, States, Image, NoImage
<1>3. ASSUME NEW i \in 1..Len(stack)
      PROVE  stack[i] \in Call /\ stack[i].mod \in Modules /\ stack[i].mod # m
  <2>1. stack[i] \in Call
    BY ElementOfSeq DEF LoaderInv, TypeOK
  <2> QED
    BY <1>1, <2>1, OnlyGuests DEF Call
<1>4. LastRuns' /\ Marks' /\ Shadows'
  BY <1>1 DEF LoaderInv, LastRuns, Marks, Shadows
<1>5. Noticed'
  <2> SUFFICES ASSUME NEW i \in 1..Len(stack)
               PROVE  violation'[stack[i].mod] = violation[stack[i].mod]
    BY <1>1 DEF LoaderInv, Noticed
  <2> QED
    BY <1>1, <1>3 DEF LoaderInv, TypeOK
<1>6. CallsFit'
  <2> SUFFICES ASSUME NEW i \in 1..Len(stack) PROVE Fits(stack[i])'
    BY <1>1 DEF CallsFit
  <2>1. Fits(stack[i]) /\ state'[stack[i].mod] = state[stack[i].mod]
    BY <1>1, <1>3 DEF LoaderInv, CallsFit, TypeOK
  <2> QED
    BY <1>1, <2>1 DEF Fits, Published
<1>7. ASSUME NEW n \in Modules PROVE Imaged(n)'
  BY <1>1 DEF LoaderInv, TypeOK, Imaged, Bound
<1>8. SealInProgress'
  BY <1>1 DEF LoaderInv, TypeOK, SealInProgress, NoImage
<1> QED
  BY <1>2, <1>4, <1>5, <1>6, <1>7, <1>8 DEF LoaderInv

-----------------------------------------------------------------------------
(* The steps of the call on top of the stack.  They leave the calls below it as
   they are: those of the same module are in guest code, and where the phase
   moves there are none. *)

LEMMA OthersStay ==
    ASSUME LoaderInv, stack # <<>>, state' \in [Modules -> States],
           \/ state' = state
           \/ /\ Top.op # "find"
              /\ \A m \in Modules \ {Top.mod} : state'[m] = state[m],
           NEW i \in 1..Len(stack), i # Len(stack)
    PROVE  stack[i] \in Call /\ Fits(stack[i]) /\ state'[stack[i].mod] = state[stack[i].mod]
<1>1. stack[i] \in Call /\ Fits(stack[i])
  BY TopFacts DEF LoaderInv, CallsFit
<1>2. CASE state' = state
  BY <1>1, <1>2
<1>3. CASE /\ Top.op # "find"
           /\ \A m \in Modules \ {Top.mod} : state'[m] = state[m]
  <2>1. stack[i].mod # Top.mod
    BY <1>3, TopIsAlone
  <2> QED
    BY <1>1, <1>3, <2>1 DEF Call
<1> QED
  BY <1>1, <1>2, <1>3

LEMMA RetopStep ==
    ASSUME LoaderInv, stack # <<>>, NEW c \in Call, c.op = Top.op, c.mod = Top.mod,
           stack' = Retop(c), NEW v \in BOOLEAN,
           violation' = [violation EXCEPT ![Top.mod] = v],
           active' = [active EXCEPT ![Top.mod] = (c.at = "callback")],
           state' \in [Modules -> States],
           \/ state' = state
           \/ /\ Top.op # "find"
              /\ \A m \in Modules \ {Top.mod} : state'[m] = state[m],
           Fits(c)',
           c.at = "run" => (c.touched => c.failed),
           c.at = "callback" => (c.touched => c.failed \/ v)
    PROVE  /\ active' \in [Modules -> BOOLEAN] /\ violation' \in [Modules -> BOOLEAN]
           /\ stack' \in Seq(Call) /\ Len(stack') = Len(stack)
           /\ LastRuns' /\ Marks' /\ Shadows' /\ CallsFit' /\ Noticed'
<1>1. /\ Len(stack) \in Nat /\ Len(stack) \in 1..Len(stack)
      /\ Top = stack[Len(stack)] /\ Top \in Call
      /\ \A i \in 1..Len(stack) : stack[i] \in Call
  BY TopFacts DEF LoaderInv
<1>2. /\ stack' \in Seq(Call) /\ Len(stack') = Len(stack)
      /\ \A i \in 1..Len(stack) : stack'[i] = IF i = Len(stack) THEN c ELSE stack[i]
  BY RetopFacts DEF LoaderInv
<1>3. active' \in [Modules -> BOOLEAN] /\ violation' \in [Modules -> BOOLEAN]
  BY <1>1 DEF LoaderInv, TypeOK
<1>4. \A i \in 1..Len(stack) : i # Len(stack) /\ stack[i].mod = Top.mod
                                 => stack[i].at = "guest"
  BY <1>1 DEF LoaderInv, Shadows
<1>5. LastRuns'
  BY <1>1, <1>2 DEF LoaderInv, LastRuns
<1>6. Shadows'
  BY <1>1, <1>2 DEF LoaderInv, Shadows
<1>7. Marks'
  <2> SUFFICES ASSUME NEW m \in Modules
               PROVE  active'[m] <=> \E i \in 1..Len(stack) :
                                        stack'[i].mod = m /\ stack'[i].at = "callback"
    BY <1>2 DEF Marks
  <2>1. CASE m = Top.mod
    <3>1. active'[m] <=> c.at = "callback"
      BY <2>1 DEF LoaderInv, TypeOK
    <3>2. \A i \in 1..Len(stack) : stack'[i].mod = m /\ stack'[i].at = "callback"
                                     => c.at = "callback"
      BY <1>2, <1>4, <2>1
    <3>3. c.at = "callback" => /\ Len(stack) \in 1..Len(stack)
                               /\ stack'[Len(stack)].mod = m
                               /\ stack'[Len(stack)].at = "callback"
      BY <1>1, <1>2, <2>1
    <3> QED
      BY <3>1, <3>2, <3>3
  <2>2. CASE m # Top.mod
    <3>1. active'[m] = active[m]
      BY <2>2 DEF LoaderInv, TypeOK
    <3>2. \A i \in 1..Len(stack) :
            (stack'[i].mod = m /\ stack'[i].at = "callback")
               <=> (stack[i].mod = m /\ stack[i].at = "callback")
      BY <1>1, <1>2, <2>2
    <3>3. active[m] <=> \E i \in 1..Len(stack) :
                           stack[i].mod = m /\ stack[i].at = "callback"
      BY DEF LoaderInv, Marks
    <3> QED
      BY <3>1, <3>2, <3>3
  <2> QED
    BY <2>1, <2>2
<1>8. CallsFit'
  <2> SUFFICES ASSUME NEW i \in 1..Len(stack) PROVE Fits(stack[i])'
    BY <1>2 DEF CallsFit
  <2>1. CASE i = Len(stack)
    BY <1>2, <2>1 DEF Fits, Published
  <2>2. CASE i # Len(stack)
    <3>1. Fits(stack[i]) /\ state'[stack[i].mod] = state[stack[i].mod]
      BY <2>2, OthersStay
    <3> QED
      BY <1>2, <2>2, <3>1 DEF Fits, Published
  <2> QED
    BY <2>1, <2>2
<1>9. Noticed'
  <2> SUFFICES ASSUME NEW i \in 1..Len(stack)
               PROVE  /\ stack'[i].at = "run" => (stack'[i].touched => stack'[i].failed)
                      /\ stack'[i].at = "callback" =>
                           (stack'[i].touched =>
                              stack'[i].failed \/ violation'[stack'[i].mod])
    BY <1>2 DEF Noticed
  <2>1. CASE i = Len(stack)
    <3>1. violation'[c.mod] = v
      BY <1>1 DEF LoaderInv, TypeOK, Call
    <3> QED
      BY <1>2, <2>1, <3>1
  <2>2. CASE i # Len(stack)
    <3>1. stack'[i] = stack[i]
      BY <1>2, <2>2
    <3>2. stack[i].at = "callback" => violation'[stack[i].mod] = violation[stack[i].mod]
      BY <1>1, <1>4, <2>2 DEF LoaderInv, TypeOK, Call
    <3> QED
      BY <3>1, <3>2 DEF LoaderInv, Noticed
  <2> QED
    BY <2>1, <2>2
<1> QED
  BY <1>2, <1>3, <1>5, <1>6, <1>7, <1>8, <1>9

LEMMA PopStep ==
    ASSUME LoaderInv, stack # <<>>, Top.at # "callback", stack' = Pop,
           UNCHANGED <<active, violation>>, state' \in [Modules -> States],
           \/ state' = state
           \/ /\ Top.op # "find"
              /\ \A m \in Modules \ {Top.mod} : state'[m] = state[m]
    PROVE  /\ stack' \in Seq(Call) /\ Len(stack') = Len(stack) - 1
           /\ LastRuns' /\ Marks' /\ Shadows' /\ CallsFit' /\ Noticed'
<1>1. /\ Len(stack) \in Nat /\ Len(stack) \in 1..Len(stack)
      /\ Top = stack[Len(stack)] /\ Top \in Call
      /\ \A i \in 1..Len(stack) : stack[i] \in Call
  BY TopFacts DEF LoaderInv
<1>2. /\ stack' \in Seq(Call) /\ Len(stack') = Len(stack) - 1
      /\ \A i \in 1..Len(stack') : stack'[i] = stack[i]
  BY PopFacts DEF LoaderInv
<1>3. \A i \in 1..Len(stack') : i \in 1..Len(stack) /\ i # Len(stack)
  BY <1>1, <1>2
<1>4. \A i \in 1..Len(stack) : i # Len(stack) => i \in 1..Len(stack')
  BY <1>1, <1>2
<1>5. LastRuns'
  BY <1>2, <1>3 DEF LoaderInv, LastRuns
<1>6. Shadows'
  BY <1>2, <1>3 DEF LoaderInv, Shadows
<1>7. Marks'
  <2> SUFFICES ASSUME NEW m \in Modules
               PROVE  active[m] <=> \E i \in 1..Len(stack') :
                                       stack'[i].mod = m /\ stack'[i].at = "callback"
    BY DEF Marks
  <2>1. active[m] <=> \E i \in 1..Len(stack) :
                         stack[i].mod = m /\ stack[i].at = "callback"
    BY DEF LoaderInv, Marks
  <2>2. \A i \in 1..Len(stack) : stack[i].at = "callback" => i # Len(stack)
    BY <1>1
  <2> QED
    BY <1>2, <1>3, <1>4, <2>1, <2>2
<1>8. CallsFit'
  <2> SUFFICES ASSUME NEW i \in 1..Len(stack') PROVE Fits(stack[i])'
    BY DEF CallsFit
  <2>1. Fits(stack[i]) /\ state'[stack[i].mod] = state[stack[i].mod]
    BY <1>3, OthersStay
  <2> QED
    BY <1>2, <2>1 DEF Fits, Published
<1>9. Noticed'
  BY <1>2, <1>3 DEF LoaderInv, Noticed
<1> QED
  BY <1>2, <1>5, <1>6, <1>7, <1>8, <1>9

(* A module whose call runs in the loader's own code has no active callback: no
   call of its own below is in one. *)
LEMMA InsideIsAlone ==
    ASSUME LoaderInv, Inside
    PROVE  /\ stack # <<>> /\ Top \in Call /\ Top.mod \in Modules /\ Fits(Top)
           /\ ~active[Top.mod] /\ active[Top.mod] \in BOOLEAN
           /\ violation[Top.mod] \in BOOLEAN
<1>1. /\ Len(stack) \in Nat /\ Len(stack) \in 1..Len(stack)
      /\ Top = stack[Len(stack)] /\ Top \in Call
      /\ \A i \in 1..Len(stack) : stack[i] \in Call
  BY TopFacts DEF LoaderInv, Inside
<1>2. Top.mod \in Modules
  BY <1>1 DEF Call
<1>3. \A i \in 1..Len(stack) : stack[i].mod = Top.mod => stack[i].at # "callback"
  BY <1>1 DEF LoaderInv, Shadows, Inside
<1>4. ~active[Top.mod]
  BY <1>2, <1>3 DEF LoaderInv, Marks
<1>5. Fits(Top)
  BY <1>1 DEF LoaderInv, CallsFit
<1> QED
  BY <1>1, <1>2, <1>4, <1>5 DEF LoaderInv, TypeOK, Inside

LEMMA SealStays ==
    ASSUME LoaderInv, stack # <<>>, NEW c \in Call, c.op = Top.op, c.mod = Top.mod,
           Top.failed => c.failed, c.at # "guest", stack' = Retop(c),
           UNCHANGED <<state, image>>
    PROVE  SealInProgress'
<1>1. /\ Len(stack) \in 1..Len(stack) /\ Top = stack[Len(stack)]
      /\ Len(stack') = Len(stack)
      /\ \A i \in 1..Len(stack) : stack'[i] = IF i = Len(stack) THEN c ELSE stack[i]
  BY TopFacts, RetopFacts DEF LoaderInv
<1> SUFFICES ASSUME NEW n \in Modules, state[n] = "RESOLVED", image[n].sealed
             PROVE  \E i \in 1..Len(stack) :
                       /\ stack'[i].mod = n /\ stack'[i].op = "finalize"
                       /\ stack'[i].failed /\ stack'[i].at # "guest"
  BY <1>1 DEF SealInProgress
<1>2. PICK i \in 1..Len(stack) : /\ stack[i].mod = n /\ stack[i].op = "finalize"
                                 /\ stack[i].failed /\ stack[i].at # "guest"
  BY DEF LoaderInv, SealInProgress
<1> QED
  BY <1>1, <1>2

LEMMA CallbackBeginsStep ==
    ASSUME LoaderInv, CallbackBegins
    PROVE  LoaderInv'
<1>1. /\ stack # <<>> /\ Top \in Call /\ Top.mod \in Modules /\ Fits(Top)
      /\ Inside
  BY InsideIsAlone DEF CallbackBegins
<1>2. PICK c \in Call : c = [Top EXCEPT !.at = "callback"]
  BY <1>1 DEF Call
<1>3. /\ c.op = Top.op /\ c.mod = Top.mod /\ c.at = "callback"
      /\ c.failed = Top.failed /\ c.touched = Top.touched
  BY <1>1, <1>2 DEF Call
<1>4. /\ stack' = Retop(c) /\ UNCHANGED <<state, image>>
      /\ violation' = [violation EXCEPT ![Top.mod] = FALSE]
      /\ active' = [active EXCEPT ![Top.mod] = (c.at = "callback")]
      /\ CallsBack(Top)
  BY <1>2, <1>3 DEF CallbackBegins
<1>5. c.touched => c.failed
  BY <1>1, <1>3, TopFacts DEF LoaderInv, Noticed, Inside
<1>6. Fits(c)'
  BY <1>1, <1>3, <1>4 DEF Fits, Published, CallsBack, Inside
<1>7. /\ active' \in [Modules -> BOOLEAN] /\ violation' \in [Modules -> BOOLEAN]
      /\ stack' \in Seq(Call) /\ Len(stack') = Len(stack)
      /\ LastRuns' /\ Marks' /\ Shadows' /\ CallsFit' /\ Noticed'
  BY <1>1, <1>3, <1>4, <1>5, <1>6, RetopStep DEF LoaderInv, TypeOK
<1>8. TypeOK'
  BY <1>4, <1>7 DEF LoaderInv, TypeOK
<1>9. ASSUME NEW n \in Modules PROVE Imaged(n)'
  BY <1>4 DEF LoaderInv, Imaged
<1>10. SealInProgress'
  BY <1>1, <1>3, <1>4, SealStays
<1> QED
  BY <1>7, <1>8, <1>9, <1>10 DEF LoaderInv

LEMMA CallbackEndsStep ==
    ASSUME LoaderInv, NEW rejected \in BOOLEAN, CallbackEnds(rejected)
    PROVE  LoaderInv'
<1>1. stack # <<>> /\ Top.at = "callback"
  BY DEF CallbackEnds, Unwind
<1>2. /\ Top \in Call /\ Top.mod \in Modules /\ Fits(Top)
      /\ Len(stack) \in 1..Len(stack) /\ Top = stack[Len(stack)]
      /\ violation[Top.mod] \in BOOLEAN
  BY <1>1, TopFacts DEF LoaderInv, CallsFit, Call, TypeOK
<1>3. PICK c \in Call :
        c = [Top EXCEPT !.at = "run", !.failed = @ \/ (rejected \/ violation[Top.mod])]
  BY <1>2 DEF Call
<1>4. /\ c.op = Top.op /\ c.mod = Top.mod /\ c.at = "run" /\ c.touched = Top.touched
      /\ c.failed = (Top.failed \/ (rejected \/ violation[Top.mod]))
  BY <1>2, <1>3 DEF Call
<1>5. /\ stack' = Retop(c) /\ UNCHANGED <<state, image>>
      /\ violation' = [violation EXCEPT ![Top.mod] = FALSE]
      /\ active' = [active EXCEPT ![Top.mod] = (c.at = "callback")]
  BY <1>3, <1>4 DEF CallbackEnds, Unwind
<1>6. c.touched => c.failed
  BY <1>1, <1>2, <1>4 DEF LoaderInv, Noticed
<1>7. Fits(c)'
  BY <1>1, <1>2, <1>4, <1>5 DEF Fits, Published
<1>8. /\ active' \in [Modules -> BOOLEAN] /\ violation' \in [Modules -> BOOLEAN]
      /\ stack' \in Seq(Call) /\ Len(stack') = Len(stack)
      /\ LastRuns' /\ Marks' /\ Shadows' /\ CallsFit' /\ Noticed'
  BY <1>1, <1>2, <1>4, <1>5, <1>6, <1>7, RetopStep DEF LoaderInv, TypeOK
<1>9. TypeOK'
  BY <1>5, <1>8 DEF LoaderInv, TypeOK
<1>10. ASSUME NEW n \in Modules PROVE Imaged(n)'
  BY <1>5 DEF LoaderInv, Imaged
<1>11. SealInProgress'
  BY <1>1, <1>2, <1>4, <1>5, SealStays
<1> QED
  BY <1>8, <1>9, <1>10, <1>11 DEF LoaderInv

LEMMA FailsStep ==
    ASSUME LoaderInv, Fails
    PROVE  LoaderInv'
<1>1. /\ stack # <<>> /\ Top \in Call /\ Top.mod \in Modules /\ Fits(Top)
      /\ Top.at = "run" /\ ~active[Top.mod] /\ violation[Top.mod] \in BOOLEAN
      /\ Len(stack) \in 1..Len(stack) /\ Top = stack[Len(stack)]
  BY InsideIsAlone, TopFacts DEF LoaderInv, Fails, Inside
<1>2. PICK c \in Call : c = [Top EXCEPT !.failed = TRUE]
  BY <1>1 DEF Call
<1>3. /\ c.op = Top.op /\ c.mod = Top.mod /\ c.at = "run" /\ c.failed
      /\ c.touched = Top.touched
  BY <1>1, <1>2 DEF Call
<1>4. \/ image' = image
      \/ Top.op = "finalize" /\ image' = [image EXCEPT ![Top.mod].sealed = TRUE]
  BY DEF Fails
<1>5. stack' = Retop(c) /\ UNCHANGED <<state, active, violation>>
  BY <1>2 DEF Fails
<1>6. /\ active' = [active EXCEPT ![Top.mod] = (c.at = "callback")]
      /\ violation' = [violation EXCEPT ![Top.mod] = violation[Top.mod]]
  BY <1>1, <1>3, <1>5 DEF LoaderInv, TypeOK
<1>7. Fits(c)'
  BY <1>1, <1>3, <1>5 DEF Fits, Published
<1>8. /\ active' \in [Modules -> BOOLEAN] /\ violation' \in [Modules -> BOOLEAN]
      /\ stack' \in Seq(Call) /\ Len(stack') = Len(stack)
      /\ LastRuns' /\ Marks' /\ Shadows' /\ CallsFit' /\ Noticed'
  BY <1>1, <1>3, <1>5, <1>6, <1>7, RetopStep DEF LoaderInv, TypeOK
<1>9. /\ image' \in [Modules -> Image]
      /\ \A n \in Modules :
           /\ image'[n].local <= 1 /\ image'[n].imports <= 1
           /\ image'[n].ran <= 1 /\ image'[n].entered <= 1
  <2>1. CASE image' = image
    BY <2>1 DEF LoaderInv, TypeOK
  <2>2. CASE image' = [image EXCEPT ![Top.mod].sealed = TRUE]
    <3>1. PICK m \in Modules : m = Top.mod
      BY <1>1
    <3>2. image' = [image EXCEPT ![m].sealed = TRUE]
      BY <2>2, <3>1
    <3> QED
      BY <3>2, ZenonT(60) DEF LoaderInv, TypeOK, Image
  <2> QED
    BY <1>4, <2>1, <2>2
<1>10. TypeOK'
  BY <1>5, <1>8, <1>9 DEF LoaderInv, TypeOK
<1>11. Top.op = "finalize" => state[Top.mod] = "RESOLVED"
  BY <1>1 DEF Fits, Required, Published
<1>12. ASSUME NEW n \in Modules PROVE Imaged(n)'
  <2>1. CASE image' = image
    BY <1>5, <2>1 DEF LoaderInv, Imaged
  <2>2. CASE Top.op = "finalize" /\ image' = [image EXCEPT ![Top.mod].sealed = TRUE]
    BY <1>5, <1>11, <2>2 DEF LoaderInv, TypeOK, Image, Imaged, Bound
  <2> QED
    BY <1>4, <2>1, <2>2
<1>13. SealInProgress'
  <2> SUFFICES ASSUME NEW n \in Modules, state[n] = "RESOLVED", image'[n].sealed
               PROVE  \E i \in 1..Len(stack) :
                         /\ stack'[i].mod = n /\ stack'[i].op = "finalize"
                         /\ stack'[i].failed /\ stack'[i].at # "guest"
    BY <1>5, <1>8 DEF SealInProgress
  <2>1. \A i \in 1..Len(stack) : stack'[i] = IF i = Len(stack) THEN c ELSE stack[i]
    BY <1>1, <1>5, RetopFacts DEF LoaderInv
  <2>2. CASE image[n].sealed
    <3>1. PICK i \in 1..Len(stack) : /\ stack[i].mod = n /\ stack[i].op = "finalize"
                                     /\ stack[i].failed /\ stack[i].at # "guest"
      BY <2>2 DEF LoaderInv, SealInProgress
    <3> QED
      BY <1>1, <1>3, <2>1, <3>1
  <2>3. CASE ~image[n].sealed
    <3>1. n = Top.mod /\ Top.op = "finalize"
      BY <1>1, <1>4, <2>3 DEF LoaderInv, TypeOK
    <3> QED
      BY <1>1, <1>3, <2>1, <3>1
  <2> QED
    BY <2>2, <2>3
<1> QED
  BY <1>8, <1>10, <1>12, <1>13 DEF LoaderInv

LEMMA PublishImageStep ==
    ASSUME LoaderInv, PublishImage
    PROVE  LoaderInv'
<1>1. /\ stack # <<>> /\ Top \in Call /\ Top.mod \in Modules /\ Fits(Top)
      /\ Top.at = "run" /\ Top.op = "load" /\ state[Top.mod] = "EMPTY"
      /\ Len(stack) \in 1..Len(stack) /\ Top = stack[Len(stack)]
  BY InsideIsAlone, TopFacts DEF LoaderInv, PublishImage, Inside
<1>2. /\ state' = [state EXCEPT ![Top.mod] = "LOADED"]
      /\ image' = [image EXCEPT ![Top.mod].mapped = TRUE]
      /\ UNCHANGED <<active, violation, stack>>
  BY DEF PublishImage
<1>3. TypeOK'
  <2>1. state' \in [Modules -> States]
    BY <1>2 DEF LoaderInv, TypeOK, States
  <2>2. /\ image' \in [Modules -> Image]
        /\ \A n \in Modules :
             /\ image'[n].local <= 1 /\ image'[n].imports <= 1
             /\ image'[n].ran <= 1 /\ image'[n].entered <= 1
    <3>1. PICK m \in Modules : m = Top.mod
      BY <1>1
    <3>2. image' = [image EXCEPT ![m].mapped = TRUE]
      BY <1>2, <3>1
    <3> QED
      BY <3>2, ZenonT(60) DEF LoaderInv, TypeOK, Image
  <2> QED
    BY <1>2, <2>1, <2>2 DEF LoaderInv, TypeOK
<1>4. LastRuns' /\ Marks' /\ Shadows' /\ Noticed'
  BY <1>2 DEF LoaderInv, LastRuns, Marks, Shadows, Noticed
<1>5. CallsFit'
  <2> SUFFICES ASSUME NEW i \in 1..Len(stack) PROVE Fits(stack[i])'
    BY <1>2 DEF CallsFit
  <2>1. CASE i = Len(stack)
    <3>1. stack'[i] = Top /\ state'[Top.mod] = "LOADED"
      BY <1>1, <1>2, <2>1 DEF LoaderInv, TypeOK
    <3> QED
      BY <1>1, <3>1 DEF Fits, Published
  <2>2. CASE i # Len(stack)
    <3>1. /\ Top.op # "find" /\ state' \in [Modules -> States]
          /\ \A m \in Modules \ {Top.mod} : state'[m] = state[m]
      BY <1>1, <1>2, <1>3 DEF LoaderInv, TypeOK
    <3>2. Fits(stack[i]) /\ state'[stack[i].mod] = state[stack[i].mod]
      BY <1>1, <2>2, <3>1, OthersStay
    <3> QED
      BY <1>2, <3>2 DEF Fits, Published
  <2> QED
    BY <2>1, <2>2
<1>6. ASSUME NEW n \in Modules PROVE Imaged(n)'
  <2>1. CASE n = Top.mod
    <3>1. image[n] = NoImage
      BY <1>1, <2>1 DEF LoaderInv, Imaged
    <3>2. state'[n] = "LOADED" /\ image'[n] = [NoImage EXCEPT !.mapped = TRUE]
      BY <1>1, <1>2, <2>1, <3>1 DEF LoaderInv, TypeOK
    <3> QED
      BY <3>2 DEF Imaged, Bound, NoImage
  <2>2. CASE n # Top.mod
    BY <1>2, <2>2 DEF LoaderInv, TypeOK, Imaged
  <2> QED
    BY <2>1, <2>2
<1>7. SealInProgress'
  BY <1>1, <1>2 DEF LoaderInv, TypeOK, SealInProgress, Image
<1> QED
  BY <1>3, <1>4, <1>5, <1>6, <1>7 DEF LoaderInv

(* A call that returns takes no seal with it: the module of a finalize that failed
   is not in the phase it had any more. *)
LEMMA SealSurvivesPop ==
    ASSUME LoaderInv, stack # <<>>, stack' = Pop,
           \A n \in Modules : state'[n] = "RESOLVED" /\ image'[n].sealed
              => /\ state[n] = "RESOLVED" /\ image[n].sealed
                 /\ Top.mod = n => Top.op # "finalize" \/ ~Top.failed
    PROVE  SealInProgress'
<1>1. /\ Len(stack) \in Nat /\ Len(stack) \in 1..Len(stack) /\ Top = stack[Len(stack)]
      /\ Len(stack') = Len(stack) - 1
      /\ \A i \in 1..(Len(stack) - 1) : stack'[i] = stack[i]
  BY TopFacts, PopFacts DEF LoaderInv
<1> SUFFICES ASSUME NEW n \in Modules, state'[n] = "RESOLVED", image'[n].sealed
             PROVE  \E i \in 1..Len(stack') :
                       /\ stack'[i].mod = n /\ stack'[i].op = "finalize"
                       /\ stack'[i].failed /\ stack'[i].at # "guest"
  BY DEF SealInProgress
<1>2. state[n] = "RESOLVED" /\ image[n].sealed
  OBVIOUS
<1>3. PICK i \in 1..Len(stack) : /\ stack[i].mod = n /\ stack[i].op = "finalize"
                                 /\ stack[i].failed /\ stack[i].at # "guest"
  BY <1>2 DEF LoaderInv, SealInProgress
<1>4. i # Len(stack)
  BY <1>1, <1>3
<1>5. i \in 1..(Len(stack) - 1)
  BY <1>1, <1>4
<1> QED
  BY <1>1, <1>3, <1>5

LEMMA ReturnFailureStep ==
    ASSUME LoaderInv, ReturnFailure
    PROVE  LoaderInv'
<1>1. /\ stack # <<>> /\ Top \in Call /\ Top.mod \in Modules /\ Fits(Top)
      /\ Top.at = "run" /\ Top.failed
  BY InsideIsAlone DEF ReturnFailure, Inside
<1>2. PICK m \in Modules : m = Top.mod
  BY <1>1
<1>3. /\ stack' = Pop /\ UNCHANGED <<active, violation>>
      /\ image' = IF Top.op = "load" THEN [image EXCEPT ![m] = NoImage] ELSE image
  BY <1>2 DEF ReturnFailure
<1>4. PICK s \in AfterFailure(Top) : state' = [state EXCEPT ![m] = s]
  BY <1>2 DEF ReturnFailure
<1>5. \/ Top.op = "load" /\ s \in {"EMPTY", "ERROR"}
      \/ Top.op \in {"relocate", "resolve", "find"} /\ s = state[m]
      \/ Top.op \in {"finalize", "initializers", "onload"} /\ s = "ERROR"
  BY <1>1, <1>2, <1>4 DEF AfterFailure, Call, Phases
<1> HIDE <1>4
<1>6. state' = [state EXCEPT ![m] = s]
  BY <1>4
<1>7. state' \in [Modules -> States]
  BY <1>5, <1>6 DEF LoaderInv, TypeOK, States
<1>8. state' = state \/ (Top.op # "find" /\ \A n \in Modules \ {m} : state'[n] = state[n])
  BY <1>5, <1>6 DEF LoaderInv, TypeOK
<1>9. /\ stack' \in Seq(Call) /\ Len(stack') = Len(stack) - 1
      /\ LastRuns' /\ Marks' /\ Shadows' /\ CallsFit' /\ Noticed'
  BY <1>1, <1>2, <1>3, <1>7, <1>8, PopStep
<1>10. TypeOK'
  <2>1. image' \in [Modules -> Image] /\ \A n \in Modules :
           /\ image'[n].local <= 1 /\ image'[n].imports <= 1
           /\ image'[n].ran <= 1 /\ image'[n].entered <= 1
    <3>1. CASE image' = [image EXCEPT ![m] = NoImage]
      BY <3>1 DEF LoaderInv, TypeOK, Image, NoImage
    <3>2. CASE image' = image
      BY <3>2 DEF LoaderInv, TypeOK
    <3> QED
      BY <1>3, <3>1, <3>2
  <2>2. Len(stack') <= MaxDepth
    BY <1>1, <1>9, TopFacts, DepthIsNatural DEF LoaderInv, TypeOK
  <2> QED
    BY <1>3, <1>7, <1>9, <2>1, <2>2 DEF LoaderInv, TypeOK
<1>11. ASSUME NEW n \in Modules PROVE Imaged(n)'
  <2>1. CASE n # m
    BY <1>3, <1>6, <2>1 DEF LoaderInv, TypeOK, Imaged
  <2>2. CASE n = m
    <3>1. state'[n] = s
      BY <1>6, <2>2 DEF LoaderInv, TypeOK
    <3>2. CASE Top.op = "load" /\ s \in {"EMPTY", "ERROR"}
      <4>1. image'[n] = NoImage
        BY <1>3, <2>2, <3>2 DEF LoaderInv, TypeOK
      <4> QED
        BY <3>1, <3>2, <4>1 DEF Imaged, Bound
    <3>3. CASE Top.op \in {"relocate", "resolve", "find"} /\ s = state[m]
      BY <1>3, <2>2, <3>1, <3>3 DEF LoaderInv, Imaged
    <3>4. CASE Top.op \in {"finalize", "initializers", "onload"} /\ s = "ERROR"
      BY <3>1, <3>4 DEF Imaged, Bound
    <3> QED
      BY <1>5, <3>2, <3>3, <3>4
  <2> QED
    BY <2>1, <2>2
<1>12. SealInProgress'
  <2> SUFFICES ASSUME NEW n \in Modules, state'[n] = "RESOLVED", image'[n].sealed
               PROVE  /\ state[n] = "RESOLVED" /\ image[n].sealed
                      /\ Top.mod = n => Top.op # "finalize" \/ ~Top.failed
    BY <1>1, <1>3, SealSurvivesPop
  <2>1. CASE n # m
    BY <1>2, <1>3, <1>6, <2>1 DEF LoaderInv, TypeOK
  <2>2. CASE n = m
    <3>1. s = "RESOLVED"
      BY <1>6, <2>2 DEF LoaderInv, TypeOK
    <3>2. Top.op \in {"relocate", "resolve", "find"} /\ s = state[m]
      BY <1>5, <3>1
    <3> QED
      BY <1>3, <2>2, <3>1, <3>2
  <2> QED
    BY <2>1, <2>2
<1> QED
  BY <1>9, <1>10, <1>11, <1>12 DEF LoaderInv

(* The image of a phase that is over fits the phase it leads to. *)
LEMMA DoneImage ==
    ASSUME LoaderInv, NEW m \in Modules,
           \/ /\ state[m] = "LOADED" /\ state' = [state EXCEPT ![m] = "RELOCATED"]
              /\ image' = [image EXCEPT ![m].local = @ + 1]
           \/ /\ state[m] = "RELOCATED" /\ state' = [state EXCEPT ![m] = "RESOLVED"]
              /\ image' = [image EXCEPT ![m].imports = @ + 1]
           \/ /\ state[m] = "RESOLVED" /\ state' = [state EXCEPT ![m] = "FINALIZED"]
              /\ image' = [image EXCEPT ![m].sealed = TRUE]
           \/ state' = state /\ image' = image
           \/ /\ state[m] \in {"INITIALIZED", "JNI_LOADING"}
              /\ state' = [state EXCEPT ![m] = "READY"]
              /\ image' = image
           \/ /\ state[m] = "FINALIZED" /\ state' = [state EXCEPT ![m] = "INITIALIZING"]
              /\ image' = [image EXCEPT ![m].ran = @ + 1]
           \/ /\ state[m] = "INITIALIZED" /\ state' = [state EXCEPT ![m] = "JNI_LOADING"]
              /\ image' = [image EXCEPT ![m].entered = @ + 1]
           \/ /\ state[m] = "INITIALIZING" /\ state' = [state EXCEPT ![m] = "INITIALIZED"]
              /\ image' = image
           \/ state' = [state EXCEPT ![m] = "ERROR"] /\ image' = image
    PROVE  /\ state' \in [Modules -> States] /\ image' \in [Modules -> Image]
           /\ \A n \in Modules \ {m} : state'[n] = state[n] /\ image'[n] = image[n]
           /\ \A n \in Modules : /\ image'[n].local <= 1 /\ image'[n].imports <= 1
                                 /\ image'[n].ran <= 1 /\ image'[n].entered <= 1
           /\ \A n \in Modules : Imaged(n)'
           /\ \A n \in Modules : state'[n] = "RESOLVED" /\ image'[n].sealed
                => state[n] = "RESOLVED" /\ image[n].sealed
<1>1. /\ state \in [Modules -> States] /\ image \in [Modules -> Image]
      /\ \A n \in Modules : /\ image[n].local <= 1 /\ image[n].imports <= 1
                            /\ image[n].ran <= 1 /\ image[n].entered <= 1
      /\ \A n \in Modules : Imaged(n)
  BY DEF LoaderInv, TypeOK
<1>2. state' \in [Modules -> States]
  BY <1>1 DEF States
<1>3. \A n \in Modules \ {m} : state'[n] = state[n] /\ image'[n] = image[n]
  BY <1>1
<1>4. Imaged(m)
  BY <1>1
<1>5. image[m] \in Image
  BY <1>1
<1>6. /\ image' \in [Modules -> Image] /\ Imaged(m)'
      /\ image'[m].local <= 1 /\ image'[m].imports <= 1
      /\ image'[m].ran <= 1 /\ image'[m].entered <= 1
      /\ state'[m] = "RESOLVED" /\ image'[m].sealed
           => state[m] = "RESOLVED" /\ image[m].sealed
  <2>1. CASE /\ state[m] = "LOADED" /\ state' = [state EXCEPT ![m] = "RELOCATED"]
             /\ image' = [image EXCEPT ![m].local = @ + 1]
    BY <1>1, <1>4, <1>5, <2>1 DEF Imaged, Bound, Image
  <2>2. CASE /\ state[m] = "RELOCATED" /\ state' = [state EXCEPT ![m] = "RESOLVED"]
             /\ image' = [image EXCEPT ![m].imports = @ + 1]
    BY <1>1, <1>4, <1>5, <2>2 DEF Imaged, Bound, Image
  <2>3. CASE /\ state[m] = "RESOLVED" /\ state' = [state EXCEPT ![m] = "FINALIZED"]
             /\ image' = [image EXCEPT ![m].sealed = TRUE]
    BY <1>1, <1>4, <1>5, <2>3 DEF Imaged, Bound, Image
  <2>4. CASE state' = state /\ image' = image
    BY <1>1, <2>4 DEF Imaged
  <2>5. CASE /\ state[m] \in {"INITIALIZED", "JNI_LOADING"}
             /\ state' = [state EXCEPT ![m] = "READY"] /\ image' = image
    BY <1>1, <1>4, <2>5 DEF Imaged, Bound
  <2>6. CASE /\ state[m] = "FINALIZED" /\ state' = [state EXCEPT ![m] = "INITIALIZING"]
             /\ image' = [image EXCEPT ![m].ran = @ + 1]
    BY <1>1, <1>4, <1>5, <2>6 DEF Imaged, Bound, Image
  <2>7. CASE /\ state[m] = "INITIALIZED" /\ state' = [state EXCEPT ![m] = "JNI_LOADING"]
             /\ image' = [image EXCEPT ![m].entered = @ + 1]
    BY <1>1, <1>4, <1>5, <2>7 DEF Imaged, Bound, Image
  <2>8. CASE /\ state[m] = "INITIALIZING" /\ state' = [state EXCEPT ![m] = "INITIALIZED"]
             /\ image' = image
    BY <1>1, <1>4, <2>8 DEF Imaged, Bound
  <2>9. CASE state' = [state EXCEPT ![m] = "ERROR"] /\ image' = image
    BY <1>1, <2>9 DEF Imaged, Bound
  <2> QED
    BY <2>1, <2>2, <2>3, <2>4, <2>5, <2>6, <2>7, <2>8, <2>9
<1>7. \A n \in Modules : n # m => (Imaged(n)' <=> Imaged(n))
  BY <1>3 DEF Imaged
<1> QED
  BY <1>1, <1>2, <1>3, <1>6, <1>7

LEMMA ReturnDoneStep ==
    ASSUME LoaderInv, ReturnDone
    PROVE  LoaderInv'
<1>1. /\ stack # <<>> /\ Top \in Call /\ Top.mod \in Modules /\ Fits(Top)
      /\ Top.at = "run" /\ ~Top.failed
  BY InsideIsAlone DEF ReturnDone, Inside
<1>2. PICK m \in Modules : m = Top.mod
  BY <1>1
<1>3. stack' = Pop /\ UNCHANGED <<active, violation>>
  BY DEF ReturnDone
<1>4. \/ /\ Top.op = "relocate" /\ state[m] = "LOADED"
         /\ state' = [state EXCEPT ![m] = "RELOCATED"]
         /\ image' = [image EXCEPT ![m].local = @ + 1]
      \/ /\ Top.op = "resolve" /\ state[m] = "RELOCATED"
         /\ state' = [state EXCEPT ![m] = "RESOLVED"]
         /\ image' = [image EXCEPT ![m].imports = @ + 1]
      \/ /\ Top.op = "finalize" /\ state[m] = "RESOLVED"
         /\ state' = [state EXCEPT ![m] = "FINALIZED"]
         /\ image' = [image EXCEPT ![m].sealed = TRUE]
      \/ state' = state /\ image' = image
      \/ /\ Top.op = "onload" /\ state[m] = "INITIALIZED"
         /\ state' = [state EXCEPT ![m] = "READY"]
         /\ image' = image
  BY <1>1, <1>2 DEF ReturnDone, Fits, Required, Published
<1>5. /\ state' \in [Modules -> States] /\ image' \in [Modules -> Image]
      /\ \A n \in Modules \ {m} : state'[n] = state[n] /\ image'[n] = image[n]
      /\ \A n \in Modules : /\ image'[n].local <= 1 /\ image'[n].imports <= 1
                            /\ image'[n].ran <= 1 /\ image'[n].entered <= 1
      /\ \A n \in Modules : Imaged(n)'
      /\ \A n \in Modules : state'[n] = "RESOLVED" /\ image'[n].sealed
           => state[n] = "RESOLVED" /\ image[n].sealed
  BY <1>4, DoneImage
<1>6. state' = state \/ (Top.op # "find" /\ \A n \in Modules \ {Top.mod} : state'[n] = state[n])
  BY <1>2, <1>4, <1>5
<1>7. /\ stack' \in Seq(Call) /\ Len(stack') = Len(stack) - 1
      /\ LastRuns' /\ Marks' /\ Shadows' /\ CallsFit' /\ Noticed'
  BY <1>1, <1>3, <1>5, <1>6, PopStep
<1>8. TypeOK'
  <2>1. Len(stack') <= MaxDepth
    BY <1>1, <1>7, TopFacts, DepthIsNatural DEF LoaderInv, TypeOK
  <2> QED
    BY <1>3, <1>5, <1>7, <2>1 DEF LoaderInv, TypeOK
<1>9. SealInProgress'
  BY <1>1, <1>3, <1>5, SealSurvivesPop
<1> QED
  BY <1>5, <1>7, <1>8, <1>9 DEF LoaderInv

LEMMA EnterGuestStep ==
    ASSUME LoaderInv, EnterGuest
    PROVE  LoaderInv'
<1>1. /\ stack # <<>> /\ Top \in Call /\ Top.mod \in Modules /\ Fits(Top)
      /\ Top.at = "run" /\ ~Top.failed /\ ~active[Top.mod]
      /\ violation[Top.mod] \in BOOLEAN
      /\ Len(stack) \in 1..Len(stack) /\ Top = stack[Len(stack)]
  BY InsideIsAlone, TopFacts DEF LoaderInv, EnterGuest, Inside
<1>2. PICK m \in Modules : m = Top.mod
  BY <1>1
<1>3. PICK c \in Call : c = [Top EXCEPT !.at = "guest"]
  BY <1>1 DEF Call
<1>4. /\ c.op = Top.op /\ c.mod = Top.mod /\ c.at = "guest"
      /\ c.failed = Top.failed /\ c.touched = Top.touched
  BY <1>1, <1>3 DEF Call
<1>5. stack' = Retop(c) /\ UNCHANGED <<active, violation>>
  BY <1>3 DEF EnterGuest
<1>6. \/ /\ Top.op = "initializers" /\ state[m] = "FINALIZED"
         /\ state' = [state EXCEPT ![m] = "INITIALIZING"]
         /\ image' = [image EXCEPT ![m].ran = @ + 1]
      \/ /\ Top.op = "onload" /\ state[m] = "INITIALIZED"
         /\ state' = [state EXCEPT ![m] = "JNI_LOADING"]
         /\ image' = [image EXCEPT ![m].entered = @ + 1]
  BY <1>1, <1>2 DEF EnterGuest, Fits, Required, Published
<1>7. /\ state' \in [Modules -> States] /\ image' \in [Modules -> Image]
      /\ \A n \in Modules \ {m} : state'[n] = state[n] /\ image'[n] = image[n]
      /\ \A n \in Modules : /\ image'[n].local <= 1 /\ image'[n].imports <= 1
                            /\ image'[n].ran <= 1 /\ image'[n].entered <= 1
      /\ \A n \in Modules : Imaged(n)'
      /\ \A n \in Modules : state'[n] = "RESOLVED" /\ image'[n].sealed
           => state[n] = "RESOLVED" /\ image[n].sealed
  BY <1>6, DoneImage
<1>8. ~c.touched
  BY <1>1, <1>4 DEF LoaderInv, Noticed
<1>9. Fits(c)'
  <2>1. state'[m] = GuestPhase(c.op) /\ c.op \in {"initializers", "onload"}
    BY <1>4, <1>6 DEF LoaderInv, TypeOK, GuestPhase
  <2> QED
    BY <1>2, <1>4, <1>8, <2>1 DEF Fits
<1>10. /\ active' = [active EXCEPT ![Top.mod] = (c.at = "callback")]
       /\ violation' = [violation EXCEPT ![Top.mod] = violation[Top.mod]]
  BY <1>1, <1>4, <1>5 DEF LoaderInv, TypeOK
<1>11. Top.op # "find" /\ \A n \in Modules \ {Top.mod} : state'[n] = state[n]
  BY <1>2, <1>6, <1>7
<1>12. /\ stack' \in Seq(Call) /\ Len(stack') = Len(stack)
       /\ LastRuns' /\ Marks' /\ Shadows' /\ CallsFit' /\ Noticed'
  BY <1>1, <1>4, <1>5, <1>7, <1>9, <1>10, <1>11, RetopStep
<1>13. TypeOK'
  BY <1>5, <1>7, <1>12 DEF LoaderInv, TypeOK
<1>14. SealInProgress'
  <2> SUFFICES ASSUME NEW n \in Modules, state[n] = "RESOLVED", image[n].sealed
               PROVE  \E i \in 1..Len(stack) :
                         /\ stack'[i].mod = n /\ stack'[i].op = "finalize"
                         /\ stack'[i].failed /\ stack'[i].at # "guest"
    BY <1>7, <1>12 DEF SealInProgress
  <2>1. PICK i \in 1..Len(stack) : /\ stack[i].mod = n /\ stack[i].op = "finalize"
                                   /\ stack[i].failed /\ stack[i].at # "guest"
    BY DEF LoaderInv, SealInProgress
  <2>2. stack'[i] = stack[i]
    BY <1>1, <1>5, <2>1, RetopFacts DEF LoaderInv
  <2> QED
    BY <2>1, <2>2
<1> QED
  BY <1>7, <1>12, <1>13, <1>14 DEF LoaderInv

LEMMA GuestReturnsStep ==
    ASSUME LoaderInv, NEW b \in BOOLEAN, GuestReturns(b)
    PROVE  LoaderInv'
<1>1. stack # <<>> /\ Top.at = "guest"
  BY DEF GuestReturns
<1>2. Top \in Call /\ Top.mod \in Modules /\ Fits(Top)
  BY <1>1, TopFacts DEF LoaderInv, CallsFit, Call
<1>3. PICK m \in Modules : m = Top.mod
  BY <1>2
<1>4. stack' = Pop /\ UNCHANGED <<active, violation>> /\ image' = image
  BY DEF GuestReturns
<1>5. \/ /\ state[m] = "INITIALIZING"
         /\ state' = [state EXCEPT ![m] = "INITIALIZED"]
      \/ /\ state[m] = "JNI_LOADING"
         /\ state' = [state EXCEPT ![m] = "READY"]
      \/ state' = [state EXCEPT ![m] = "ERROR"]
  BY <1>1, <1>2, <1>3 DEF GuestReturns, Fits, GuestPhase
<1>6. /\ state' \in [Modules -> States] /\ image' \in [Modules -> Image]
      /\ \A n \in Modules \ {m} : state'[n] = state[n] /\ image'[n] = image[n]
      /\ \A n \in Modules : /\ image'[n].local <= 1 /\ image'[n].imports <= 1
                            /\ image'[n].ran <= 1 /\ image'[n].entered <= 1
      /\ \A n \in Modules : Imaged(n)'
      /\ \A n \in Modules : state'[n] = "RESOLVED" /\ image'[n].sealed
           => state[n] = "RESOLVED" /\ image[n].sealed
  BY <1>4, <1>5, DoneImage
<1>7. Top.op \in {"initializers", "onload"}
  BY <1>1, <1>2 DEF Fits
<1>8. /\ stack' \in Seq(Call) /\ Len(stack') = Len(stack) - 1
      /\ LastRuns' /\ Marks' /\ Shadows' /\ CallsFit' /\ Noticed'
  BY <1>1, <1>3, <1>4, <1>6, <1>7, PopStep
<1>9. TypeOK'
  <2>1. Len(stack') <= MaxDepth
    BY <1>1, <1>8, TopFacts, DepthIsNatural DEF LoaderInv, TypeOK
  <2> QED
    BY <1>4, <1>6, <1>8, <2>1 DEF LoaderInv, TypeOK
<1>10. SealInProgress'
  BY <1>1, <1>4, <1>6, <1>7, SealSurvivesPop
<1> QED
  BY <1>6, <1>8, <1>9, <1>10 DEF LoaderInv

-----------------------------------------------------------------------------
LEMMA LoaderStart == Init => LoaderInv
<1> SUFFICES ASSUME Init PROVE LoaderInv
  OBVIOUS
<1>1. stack = <<>> /\ stack \in Seq(Call) /\ Len(stack) = 0
  BY EmptySeq DEF Init
<1>2. 1..Len(stack) = {}
  BY <1>1
<1>3. TypeOK
  BY <1>1, DepthIsNatural DEF Init, TypeOK, States, Image, NoImage
<1>4. LastRuns /\ Marks /\ Shadows /\ CallsFit /\ Noticed
  BY <1>2 DEF Init, LastRuns, Marks, Shadows, CallsFit, Noticed
<1>5. ASSUME NEW m \in Modules PROVE Imaged(m)
  BY DEF Init, Imaged, Bound
<1>6. SealInProgress
  BY DEF Init, SealInProgress
<1> QED
  BY <1>3, <1>4, <1>5, <1>6 DEF LoaderInv

LEMMA LoaderStep == LoaderInv /\ [Next]_vars => LoaderInv'
<1> SUFFICES ASSUME LoaderInv, [Next]_vars PROVE LoaderInv'
  OBVIOUS
<1>1. CASE UNCHANGED vars
  BY <1>1 DEF vars, LoaderInv, TypeOK, LastRuns, Marks, Shadows, CallsFit, Fits,
     Published, CallsBack, Noticed, Imaged, SealInProgress
<1>2. ASSUME NEW m \in Modules,
             \/ Create(m) \/ Refused(m) \/ InstallHook(m) \/ Destroy(m)
             \/ \E op \in Phases : Enter(op, m)
      PROVE  LoaderInv'
  BY <1>2, CreateStep, RefusedStep, InstallHookStep, DestroyStep, EnterStep
<1>3. CASE CallbackBegins \/ Fails \/ PublishImage \/ EnterGuest \/ ReturnFailure
           \/ ReturnDone
  BY <1>3, CallbackBeginsStep, FailsStep, PublishImageStep, EnterGuestStep,
     ReturnFailureStep, ReturnDoneStep
<1>4. ASSUME NEW b \in BOOLEAN, CallbackEnds(b) \/ GuestReturns(b)
      PROVE  LoaderInv'
  BY <1>4, CallbackEndsStep, GuestReturnsStep
<1> QED
  BY <1>1, <1>2, <1>3, <1>4 DEF Next

(* The inductive invariant of the loader holds in every behaviour. *)
THEOREM LoaderKeepsItsInvariant == Spec => []LoaderInv
<1>1. Init => LoaderInv
  BY LoaderStart
<1>2. LoaderInv /\ [Next]_vars => LoaderInv'
  BY LoaderStep
<1> QED
  BY <1>1, <1>2, PTL DEF Spec

(* For any set of libraries and any depth of nesting: relocations of each kind are
   written once in a module's life, its initializers run once and JNI_OnLoad is
   entered once (nxloader_module_relocate, resolve, call_initializers,
   call_jni_onload). *)
THEOREM PhasesHappenOnce == Spec => []TypeOK
<1>1. LoaderInv => TypeOK
  BY DEF LoaderInv
<1> QED
  BY <1>1, LoaderKeepsItsInvariant, PTL

(* nxloader_module_destroy, called from any callback or any guest code, never
   frees a module that a call in progress still works on. *)
THEOREM CallsKeepTheirModule == Spec => []InUseIsAlive
<1>1. LoaderInv => InUseIsAlive
  BY CallIsAlive
<1> QED
  BY <1>1, LoaderKeepsItsInvariant, PTL

(* Guest code runs in a module that is complete and stays in its phase, although
   only call_initializers looks at the phase again when it returns. *)
THEOREM GuestIsNeverDisturbed == Spec => []GuestIsUndisturbed
<1>1. ASSUME LoaderInv PROVE GuestIsUndisturbed
  <2>1. DOMAIN stack = 1..Len(stack)
    BY <1>1, LenProperties DEF LoaderInv, TypeOK
  <2> SUFFICES ASSUME NEW i \in 1..Len(stack), stack[i].at = "guest"
               PROVE  LET m == stack[i].mod IN
                        /\ state[m] = IF stack[i].op = "initializers"
                                      THEN "INITIALIZING" ELSE "JNI_LOADING"
                        /\ image[m].mapped /\ image[m].sealed
                        /\ image[m].local = 1 /\ image[m].imports = 1
                        /\ image[m].ran = 1
                        /\ ~stack[i].touched
    BY <2>1 DEF GuestIsUndisturbed
  <2>2. stack[i] \in Call /\ stack[i].mod \in Modules
    <3>1. stack \in Seq(Call)
      BY <1>1 DEF LoaderInv, TypeOK
    <3>2. stack[i] \in Call
      BY <3>1, ElementOfSeq
    <3> QED
      BY <3>2 DEF Call
  <2>3. Fits(stack[i]) /\ Imaged(stack[i].mod)
    BY <1>1, <2>2 DEF LoaderInv, CallsFit
  <2> QED
    BY <2>3 DEF Fits, GuestPhase, Imaged, Bound
<1> QED
  BY <1>1, LoaderKeepsItsInvariant, PTL

(* nxloader_callback_begin never meets another active callback of its module: the
   flag needs no count. *)
THEOREM OneCallbackAtATime == Spec => []NobodyElseCallsBack
<1>1. LoaderInv => NobodyElseCallsBack
  BY InsideIsAlone DEF NobodyElseCallsBack
<1> QED
  BY <1>1, LoaderKeepsItsInvariant, PTL

-----------------------------------------------------------------------------
(* Only a return takes a call off the stack. *)
LEMMA OnlyReturnsPop ==
    ASSUME LoaderInv, [Next]_vars, Len(stack') < Len(stack)
    PROVE  ReturnFailure \/ ReturnDone \/ \E b \in BOOLEAN : GuestReturns(b)
<1>1. stack \in Seq(Call) /\ Len(stack) \in Nat /\ DOMAIN stack = 1..Len(stack)
  BY LenProperties DEF LoaderInv, TypeOK
<1>2. stack' # stack
  BY <1>1
<1>3. ASSUME NEW m \in Modules, Refused(m) PROVE FALSE
  <2>1. LoaderInv'
    BY <1>3, RefusedStep
  <2>2. Len(stack') \in Nat /\ DOMAIN stack' = 1..Len(stack')
    BY <2>1, LenProperties DEF LoaderInv, TypeOK
  <2>3. DOMAIN stack' = DOMAIN stack
    BY <1>3 DEF Refused
  <2>4. Len(stack) \in 1..Len(stack) /\ Len(stack) \notin 1..Len(stack')
    BY <1>1, <2>2
  <2> QED
    BY <1>1, <2>2, <2>3, <2>4
<1>4. ASSUME NEW m \in Modules, NEW op \in Phases, Enter(op, m) PROVE FALSE
  <2>1. [op |-> op, mod |-> m, at |-> "run", failed |-> FALSE, touched |-> FALSE]
          \in Call
    BY DEF Call
  <2>2. Len(stack') = Len(stack) + 1
    BY <1>1, <1>4, <2>1 DEF Enter, Push
  <2> QED
    BY <1>1, <2>2
<1>5. ASSUME stack # <<>>, NEW c, stack' = Retop(c) PROVE FALSE
  <2>1. DOMAIN stack' = DOMAIN stack
    BY <1>5 DEF Retop
  <2>2. Len(stack') = Len(stack)
    BY <1>1, <1>5, <2>1 DEF Retop
  <2> QED
    BY <1>1, <2>2
<1>6. ~(CallbackBegins \/ Fails \/ EnterGuest)
  BY <1>5 DEF CallbackBegins, Fails, EnterGuest, Inside
<1>7. \A b \in BOOLEAN : ~CallbackEnds(b)
  BY <1>5 DEF CallbackEnds, Unwind
<1>8. ~PublishImage /\ ~UNCHANGED vars
      /\ \A m \in Modules : ~Create(m) /\ ~InstallHook(m) /\ ~Destroy(m)
  BY <1>2 DEF PublishImage, vars, Create, InstallHook, Destroy, Free
<1> QED
  BY <1>3, <1>4, <1>6, <1>7, <1>8 DEF Next

(* A call whose own callback called its module never publishes its phase: the
   violation is seen at the end of that callback (nxloader_callback_end). *)
THEOREM TouchedIsNeverPublished == Spec => TouchedIsNotPublished
<1>1. ASSUME LoaderInv, [Next]_vars, Len(stack') < Len(stack), Top.touched
      PROVE  state'[Top.mod] \notin Reached(Top.op)
  <2>1. CASE ReturnFailure
    <3>1. /\ Top \in Call /\ Top.mod \in Modules /\ Fits(Top) /\ Top.at = "run"
      BY <1>1, <2>1, InsideIsAlone DEF ReturnFailure, Inside
    <3>2. PICK s \in AfterFailure(Top) : state' = [state EXCEPT ![Top.mod] = s]
      BY <2>1 DEF ReturnFailure
    <3>3. state'[Top.mod] = s
      BY <1>1, <3>1, <3>2 DEF LoaderInv, TypeOK
    <3>4. \/ Top.op = "load" /\ s \in {"EMPTY", "ERROR"}
          \/ Top.op = "relocate" /\ s = "LOADED"
          \/ Top.op = "resolve" /\ s = "RELOCATED"
          \/ Top.op = "find"
          \/ Top.op \in {"finalize", "initializers", "onload"} /\ s = "ERROR"
      BY <3>1, <3>2 DEF AfterFailure, Call, Phases, Fits, Required, Published
    <3> QED
      BY <3>3, <3>4 DEF Reached
  <2>2. ~ReturnDone
    <3> SUFFICES ASSUME ReturnDone PROVE FALSE
      OBVIOUS
    <3>1. stack # <<>> /\ Top.at = "run" /\ ~Top.failed
      BY DEF ReturnDone, Inside
    <3> QED
      BY <1>1, <3>1, TopFacts DEF LoaderInv, Noticed
  <2>3. ASSUME NEW b \in BOOLEAN, GuestReturns(b) PROVE FALSE
    <3>1. stack # <<>> /\ Top.at = "guest"
      BY <2>3 DEF GuestReturns
    <3>2. Fits(Top)
      BY <1>1, <3>1, TopFacts DEF LoaderInv, CallsFit
    <3> QED
      BY <1>1, <3>1, <3>2 DEF Fits
  <2> QED
    BY <1>1, <2>1, <2>2, <2>3, OnlyReturnsPop
<1>2. LoaderInv /\ [Next]_vars
        => [Len(stack') < Len(stack) /\ Top.touched
              => state'[Top.mod] \notin Reached(Top.op)]_vars
  BY <1>1
<1> QED
  BY <1>2, LoaderKeepsItsInvariant, PTL DEF Spec, TouchedIsNotPublished

(* After nxloader_module_finalize has protected an image no relocation, no import
   and no hook is written to it, whatever was in progress. *)
THEOREM SealedIsNeverWritten == Spec => SealedIsNotWritten
<1> DEFINE Kept(m) == /\ image'[m].sealed
                      /\ image'[m].local = image[m].local
                      /\ image'[m].imports = image[m].imports
                      /\ image'[m].hooked = image[m].hooked
<1>1. ASSUME LoaderInv, [Next]_vars, NEW m \in Modules, image[m].sealed,
             state'[m] # "NONE"
      PROVE  Kept(m)
  <2>1. /\ state \in [Modules -> States] /\ image \in [Modules -> Image]
        /\ Imaged(m) /\ state[m] \notin {"NONE", "EMPTY", "LOADED", "RELOCATED"}
    BY <1>1 DEF LoaderInv, TypeOK, Imaged, NoImage
  <2>2. image[m] \in Image
    BY <2>1
  <2>3. ASSUME NEW n \in Modules, Create(n) PROVE Kept(m)
    BY <1>1, <2>1, <2>3 DEF Create
  <2>4. ASSUME NEW n \in Modules, InstallHook(n) PROVE Kept(m)
    <3>1. n # m
      <4> SUFFICES ASSUME n = m PROVE FALSE
        OBVIOUS
      <4>1. Outside /\ ~active[m] /\ state[m] = "RESOLVED"
        BY <2>4 DEF InstallHook
      <4>2. PICK i \in 1..Len(stack) : stack[i].mod = m /\ stack[i].at # "guest"
        BY <1>1, <4>1 DEF LoaderInv, SealInProgress
      <4> QED
        BY <1>1, <4>1, <4>2, OnlyGuests
    <3> QED
      BY <1>1, <2>1, <2>4, <3>1 DEF InstallHook
  <2>5. ASSUME NEW n \in Modules, Destroy(n) PROVE Kept(m)
    BY <1>1, <2>1, <2>5 DEF Destroy, Free
  <2>6. CASE image' = image
    BY <1>1, <2>6
  <2>7. CASE Fails
    <3>1. \/ image' = image
          \/ image' = [image EXCEPT ![Top.mod].sealed = TRUE]
      BY <2>7 DEF Fails
    <3>2. PICK t : t = Top.mod
      OBVIOUS
    <3>3. CASE image' = [image EXCEPT ![t].sealed = TRUE]
      BY <1>1, <2>1, <2>2, <3>3 DEF Image
    <3> QED
      BY <2>6, <3>1, <3>2, <3>3
  <2>8. CASE PublishImage
    BY <1>1, <2>1, <2>8 DEF PublishImage
  <2>9. CASE ReturnFailure
    <3>1. Top \in Call /\ Fits(Top) /\ Top.at = "run"
      BY <1>1, <2>9, InsideIsAlone DEF ReturnFailure, Inside
    <3>2. image' = IF Top.op = "load" THEN [image EXCEPT ![Top.mod] = NoImage] ELSE image
      BY <2>9 DEF ReturnFailure
    <3>3. Top.op = "load" => state[Top.mod] \in {"EMPTY", "LOADED"}
      BY <3>1 DEF Fits, Required, Published
    <3>4. CASE Top.op = "load"
      BY <1>1, <2>1, <3>2, <3>3, <3>4
    <3> QED
      BY <2>6, <3>2, <3>4
  <2>10. CASE ReturnDone
    <3>1. Top \in Call /\ Top.mod \in Modules /\ Fits(Top) /\ Top.at = "run"
      BY <1>1, <2>10, InsideIsAlone DEF ReturnDone, Inside
    <3>2. PICK t \in Modules : t = Top.mod
      BY <3>1
    <3>3. \/ state[t] = "LOADED" /\ image' = [image EXCEPT ![t].local = @ + 1]
          \/ state[t] = "RELOCATED" /\ image' = [image EXCEPT ![t].imports = @ + 1]
          \/ image' = [image EXCEPT ![t].sealed = TRUE]
          \/ image' = image
      BY <2>10, <3>1, <3>2 DEF ReturnDone, Fits, Required, Published
    <3>4. CASE state[t] = "LOADED" /\ image' = [image EXCEPT ![t].local = @ + 1]
      BY <1>1, <2>1, <3>4
    <3>5. CASE state[t] = "RELOCATED" /\ image' = [image EXCEPT ![t].imports = @ + 1]
      BY <1>1, <2>1, <3>5
    <3>6. CASE image' = [image EXCEPT ![t].sealed = TRUE]
      BY <1>1, <2>1, <2>2, <3>6 DEF Image
    <3> QED
      BY <2>6, <3>3, <3>4, <3>5, <3>6
  <2>11. CASE EnterGuest
    <3>1. PICK t : t = Top.mod
      OBVIOUS
    <3>2. \/ image' = [image EXCEPT ![t].ran = @ + 1]
          \/ image' = [image EXCEPT ![t].entered = @ + 1]
      BY <2>11, <3>1 DEF EnterGuest
    <3> QED
      BY <1>1, <2>1, <2>2, <3>2 DEF Image
  <2>12. \/ image' = image \/ Fails \/ PublishImage \/ ReturnFailure \/ ReturnDone
         \/ EnterGuest
         \/ \E n \in Modules : Create(n) \/ InstallHook(n) \/ Destroy(n)
    BY <1>1 DEF Next, vars, Refused, Enter, Push, CallbackBegins, CallbackEnds,
       Unwind, GuestReturns
  <2> QED
    BY <2>3, <2>4, <2>5, <2>6, <2>7, <2>8, <2>9, <2>10, <2>11, <2>12
<1>2. LoaderInv /\ [Next]_vars
        => [\A m \in Modules : image[m].sealed /\ state'[m] # "NONE" => Kept(m)]_vars
  BY <1>1
<1> QED
  BY <1>2, LoaderKeepsItsInvariant, PTL DEF Spec, SealedIsNotWritten

=============================================================================
