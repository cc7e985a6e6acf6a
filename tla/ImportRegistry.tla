--------------------------- MODULE ImportRegistry ---------------------------
(* The registry of import providers of vendor/nxloader
   (src/vendor/nxloader/src/nxloader_registry.c): the names a guest library may
   import, each with the one address that answers it.  A provider offers a table
   of symbols at one priority: the port's host functions at 100, the exports of
   libc++_shared.so at 50 (ct_framework.c).  A table is merged into a copy of the
   registry one offer at a time, and the copy takes the registry's place when
   the table is through.  A table may name a symbol twice.  The code sorts the
   offers by name first: those for different names do not meet, and a collision
   ends the whole table, so the table's own order does for the model. *)
EXTENDS Naturals, Sequences, FiniteSets

CONSTANTS
    Names, Addresses,
    Priorities,     \* the priorities of providers
    MaxTable,       \* bound: symbols a provider offers
    MaxAccepted     \* bound: offers that were ever taken

ASSUME PrioritiesAreOrdered == Priorities \subseteq Nat

VARIABLES
    entries,    \* registry->entries
    staged,     \* the copy
    table,      \* provider->symbols, empty while none is merged
    next,       \* the next of them
    accepted    \* history: the offers of every provider that was taken

registryVars == <<entries, staged, table, next, accepted>>

Offer == [name: Names, address: Addresses, priority: Priorities, weak: BOOLEAN]

\* The order of two offers: the priority, then the strength.
Outranks(o, p) == \/ o.priority > p.priority
                  \/ o.priority = p.priority /\ ~o.weak /\ p.weak
SameRank(o, p) == o.priority = p.priority /\ o.weak = p.weak

\* What one provider may bring.
Tables == {t \in UNION {[1..n -> Offer] : n \in 1..MaxTable} :
             \A i, j \in DOMAIN t : t[i].priority = t[j].priority}

RegistryInit == /\ entries = {} /\ accepted = {}
                /\ staged = {} /\ table = <<>> /\ next = 1

\* nxloader_registry_add_provider begins.
StartTable ==
    /\ table = <<>> /\ Cardinality(accepted) < MaxAccepted
    /\ table' \in Tables
    /\ staged' = entries /\ next' = 1
    /\ UNCHANGED <<entries, accepted>>

Merging == table # <<>> /\ next <= Len(table)
Rivals(o) == {e \in staged : e.name = o.name}

\* Mutant: an offer that outranks an entry is put beside it.
KeepRival(o) == staged \cup {o}

\* winner = candidate.
Replace(o) == (staged \ Rivals(o)) \cup {o}

\* Mutant: a strong symbol beats a weak one of any priority.
ByStrength(o, p) == \/ ~o.weak /\ p.weak
                    \/ o.weak = p.weak /\ o.priority > p.priority

\* The `order' of the code is positive.
Beats(o, p) == Outranks(o, p)

\* Mutant: the last of two equal offers wins.
WinsTies(o) == \A e \in Rivals(o) : ~Beats(e, o)

\* An offer for a new name, or one that outranks what is there.
Wins(o) == \A e \in Rivals(o) : Beats(o, e)

\* The same rank and the same address, or a lower rank.
Yields(o) == \E e \in Rivals(o) : \/ Beats(e, o)
                                  \/ SameRank(o, e) /\ e.address = o.address

MergeOffer ==
    /\ Merging
    /\ \/ Wins(table[next])   /\ staged' = Replace(table[next])
       \/ Yields(table[next]) /\ staged' = staged
    /\ next' = next + 1
    /\ UNCHANGED <<entries, table, accepted>>

\* NXLOADER_ECOLLISION, or no memory for an entry: the copy is thrown away.
Abandon ==
    /\ Merging
    /\ table' = <<>> /\ staged' = {} /\ next' = 1
    /\ UNCHANGED <<entries, accepted>>

\* *registry = staged.
PublishTable ==
    /\ table # <<>> /\ next > Len(table)
    /\ entries' = staged
    /\ accepted' = accepted \cup {table[i] : i \in DOMAIN table}
    /\ table' = <<>> /\ staged' = {} /\ next' = 1

RegistryNext == StartTable \/ MergeOffer \/ Abandon \/ PublishTable

RegistrySpec == RegistryInit /\ [][RegistryNext]_registryVars

-----------------------------------------------------------------------------
(* nxloader_registry_invariant, on which the binary search of every import
   relies: each name has one entry.  The copy has the same property while
   providers with repeated and competing symbols are merged into it. *)
RegistryTypeOK ==
    /\ entries \subseteq Offer /\ staged \subseteq Offer /\ accepted \subseteq Offer
    /\ table \in Seq(Offer) /\ next \in 1..(Len(table) + 1)
    /\ \A S \in {entries, staged} : \A e, f \in S : e.name = f.name => e = f

(* What a name is bound to does not depend on the order in which providers
   came: among all the offers of all the providers that were taken, the entry is
   the best, no other address was offered at its rank, and there is nothing
   from a provider that was refused. *)
Best(S, offers) ==
    /\ S \subseteq offers
    /\ \A o \in offers : \E e \in S :
         /\ e.name = o.name
         /\ Outranks(e, o) \/ (SameRank(e, o) /\ e.address = o.address)

BestOffer == Best(entries, accepted)

(* A provider that comes later never rebinds a name unless it outranks the one
   before: what the host offers at 100 stays when libc++ exports the same name
   at 50, and two providers of equal rank never take turns. *)
EntriesOnlyRise ==
    [][\A e \in entries :
         \E f \in entries' : f.name = e.name /\ (f = e \/ Outranks(f, e))]_registryVars
=============================================================================
