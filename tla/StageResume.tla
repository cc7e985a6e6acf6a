----------------------------- MODULE StageResume -----------------------------
(***************************************************************************)
(* What nxextract.py keeps between two runs so that an interrupted install *)
(* goes on where it stopped: the APKs taken out of a bundle (source-cache),*)
(* the staged items, the hooks that are done, and state.json, which says   *)
(* for which recipe and payload all that was made.  A run can be killed    *)
(* between any two steps, the player can put other files on the card, and  *)
(* the port can be upgraded.                                               *)
(*                                                                         *)
(* The content of a staged file is a sequence: what was extracted, then    *)
(* one stamp for each hook that rewrote it.  commit_stage is one step here *)
(* (PayloadTransaction models it).                                         *)
(***************************************************************************)
EXTENDS SourceSelection

CONSTANTS Card,       \* the sets of files the player can put on the card
          Later,      \* bound: the cards it can be changed for
          Good,       \* the cards the port must install from
          Hooks,      \* "hooks" of the recipe, a sequence of records
          Dest,       \* paths of the stage
          Faulty,     \* contents each rule accepts and the whole set does not
          Nothing,    \* no file
          NoState,    \* state.json does not exist
          NoPayload,  \* nothing is installed
          MaxRecipe,  \* bound: versions of the port
          MaxSwaps,   \* bound: changes of the card or of the payload
          MaxStops    \* bound: runs that are cut short

VARIABLES card, cache, stage, parts, litter, state, marks, run, recipe, live,
          swaps, stops

vars == <<card, cache, stage, parts, litter, state, marks, run, recipe, live,
          swaps, stops>>

kept == <<cache, stage, parts, litter, state, marks>>

world == <<card, recipe, swaps>>
ASSUME CardAssumption == \A f \in UNION Card : f = [x \in DOMAIN f |-> f[x]]
ASSUME LaterAssumption == Later \subseteq Card
ASSUME BoundsAssumption == MaxRecipe \in Nat \ {0} /\ MaxSwaps \in Nat /\ MaxStops \in Nat
ASSUME DestAssumption == Covered \subseteq Dest
ASSUME HooksAssumption ==
    /\ Len(Hooks) \in Nat /\ DOMAIN Hooks = 1..Len(Hooks)
    /\ \A h \in DOMAIN Hooks : Hooks[h].rewrites \cup Hooks[h].makes \subseteq Dest
-----------------------------------------------------------------------------
Recipe == 1..MaxRecipe

Hook == DOMAIN Hooks

(* A hook: the staged files it rewrites in place, those it makes, and the  *)
(* files its checkpoint looks at.                                          *)
Touches(h) == Hooks[h].rewrites \cup Hooks[h].makes

(* The files of a bundle are cached under a token of its path, size and    *)
(* modification time, and the position and name inside it.                 *)
Slots == UNION {UNION {{<<f.token, a.slot>> : a \in f.inner} : f \in c} : c \in Card}

Inners == UNION {f.inner : f \in UNION Card}

(* Size and CRC identify an APK.                                           *)
ASSUME ContentAssumption == \A a, b \in Inners : a.data = b.data /\ a.slot = b.slot => a = b

Bundles == Shaped(Searched(card), "bundle")

(* What the run reads: the inner APKs come from the cache.                 *)
Opened(b, slot) == CHOOSE a \in Inners : a.slot = slot /\ a.data = cache[<<b.token, slot>>]

AsRead(f) == IF f.shape # "bundle" \/ f \notin Bundles THEN f
             ELSE [f EXCEPT !.inner = {Opened(f, a.slot) : a \in f.inner}]

Read == {AsRead(f) : f \in card}

Empty == [d \in Dest |-> Nothing]

Off == [pc |-> "off", plan |-> NoPlan, hook |-> 1, todo |-> {}]

At(pc) == [run EXCEPT !.pc = pc]

(* Mutant: the fingerprint of the plan is forgotten.                       *)
ExpectedByRecipe == [recipe |-> recipe, print |-> {}, abi |-> run.plan.abi]

(* What _prepare_stage_state writes to state.json.                         *)
Expected == [recipe |-> recipe, print |-> Fingerprint(run.plan.items), abi |-> run.plan.abi]

Planned(d) == CHOOSE x \in run.plan.items : x.dest = d

PlannedDests == {x.dest : x \in run.plan.items}

Stamp(h) == [hook |-> h, recipe |-> recipe, source |-> Contents(run.plan.items)]

(* What a run may have to work on, for all the cards there are.            *)
Chosen == {[abi |-> p.abi, items |-> p.items] :
               p \in {q \in {Resolve(c) : c \in Card} : q # NoPlan}}

DestsOf(items) == {x.dest : x \in items}

ASSUME NoPlanAssumption == NoPlan \notin Chosen
ASSUME NoStateAssumption ==
    NoState \notin [recipe : Recipe, print : {Fingerprint(p.items) : p \in Chosen}, abi : AbiSet]

(* Mutant: any file of the right name.                                     *)
ResumesIfThere(d) == stage[d] # Nothing

(* _resume_item_valid: size and CRC, or the bytes of the loose file.       *)
Resumes(d) == stage[d] = <<Planned(d).data>>

(* _checkpoint_valid: each file of the checkpoint has been through the     *)
(* hook.  It cannot tell how often, nor of which version the hook was.     *)
CheckpointValid(h) ==
    /\ Hooks[h].checks # {}
    /\ \A d \in Hooks[h].checks :
           stage[d] # Nothing /\ \E i \in 2..Len(stage[d]) : stage[d][i].hook = h

(* Mutant: the record of the hook is enough.                               *)
HookDoneIfMarked(h) == marks[h] = recipe

HookDone(h) == marks[h] = recipe /\ CheckpointValid(h)
-----------------------------------------------------------------------------
Init == /\ card \in Card
        /\ cache = [s \in Slots |-> Nothing]
        /\ stage = Empty /\ parts = {} /\ litter = FALSE
        /\ state = NoState
        /\ marks = [h \in Hook |-> 0]
        /\ run = Off
        /\ recipe = 1
        /\ live = NoPayload
        /\ swaps = 0 /\ stops = 0

Rests == UNCHANGED <<world, live, stops>>

(* A good payload has the marker of this version of the port.              *)
Outdated == live # NoPayload => live.marker # recipe

(* A run that finds no good payload; a good one returns before it looks.   *)
Launch == /\ run = Off /\ Outdated
          /\ run' = [Off EXCEPT !.pc = "expand"]
          /\ UNCHANGED kept /\ Rests

(* What is installed may pass the checks of the new version as it is       *)
(* (try_adopt_existing): it gets a marker and nothing is installed.        *)
Adopts == /\ live # NoPayload /\ Outdated
          /\ live' = [tree |-> live.tree, recipe |-> live.recipe, marker |-> recipe,
                      items |-> live.items]
          /\ UNCHANGED <<card, recipe>>

Adopt == /\ run = Off /\ Adopts
         /\ UNCHANGED <<kept, run, swaps, stops>>

(* Mutant: the cached copy is taken by its name.                           *)
CachedByName(b, a) == cache[<<b.token, a.slot>>] # Nothing

(* _zip_member_cache_valid.                                                *)
Cached(b, a) == cache[<<b.token, a.slot>>] = a.data

(* _copy_zip_member_resume of one APK of a bundle.  Its .part file is      *)
(* removed before the next attempt.                                        *)
Expand == /\ run.pc = "expand"
          /\ \E b \in Bundles : \E a \in b.inner :
                 /\ ~Cached(b, a)
                 /\ cache' = [cache EXCEPT ![<<b.token, a.slot>>] = a.data]
          /\ UNCHANGED <<stage, parts, litter, state, marks, run>> /\ Rests

Select == /\ run.pc = "expand"
          /\ \A b \in Bundles : \A a \in b.inner : Cached(b, a)
          /\ \E plan \in {Resolve(Read)} :
                 run' = IF plan = NoPlan THEN Off
                        ELSE [run EXCEPT !.pc = "prepare",
                                         !.plan = [abi |-> plan.abi, items |-> plan.items]]
          /\ UNCHANGED kept /\ Rests

(* _prepare_stage_state: what was made for something else goes, file by    *)
(* file, before state.json says what the stage is for now.                 *)
Prepare == /\ run.pc = "prepare"
           /\ IF state \in {NoState, Expected}
              THEN state' = Expected /\ run' = At("extract")
              ELSE run' = At("wipe") /\ UNCHANGED state
           /\ UNCHANGED <<cache, stage, parts, litter, marks>> /\ Rests

StageIsEmpty == stage = Empty /\ parts = {} /\ ~litter

RemoveStaged == \/ /\ \E d \in Dest : stage[d] # Nothing /\ stage' = [stage EXCEPT ![d] = Nothing]
                   /\ UNCHANGED <<parts, litter>>
                \/ /\ parts # {} \/ litter
                   /\ parts' = {} /\ litter' = FALSE /\ UNCHANGED stage

Wipe == /\ run.pc = "wipe"
        /\ \/ RemoveStaged /\ UNCHANGED <<marks, run, state>>
           \/ /\ StageIsEmpty
              /\ \E h \in Hook : marks[h] # 0 /\ marks' = [marks EXCEPT ![h] = 0]
              /\ UNCHANGED <<stage, parts, litter, run, state>>
           \/ /\ StageIsEmpty /\ \A h \in Hook : marks[h] = 0
              /\ state' = Expected /\ run' = At("extract")
              /\ UNCHANGED <<stage, parts, litter, marks>>
        /\ UNCHANGED cache /\ Rests

(* extract_plan: an item that does not resume is written to a temporary    *)
(* file (_copy_item), which then takes its name.                           *)
Copy == /\ run.pc = "extract"
        /\ \E d \in PlannedDests :
               /\ ~Resumes(d)
               /\ \/ /\ d \notin parts
                     /\ parts' = parts \cup {d} /\ UNCHANGED stage
                  \/ /\ d \in parts
                     /\ parts' = parts \ {d}
                     /\ stage' = [stage EXCEPT ![d] = <<Planned(d).data>>]
        /\ UNCHANGED <<cache, litter, state, marks, run>> /\ Rests

Extracted == /\ run.pc = "extract"
             /\ \A d \in PlannedDests : Resumes(d)
             /\ run' = At("hook")
             /\ UNCHANGED kept /\ Rests

(* run_hooks, in the order of the recipe.                                  *)
SkipHook == /\ run.pc = "hook" /\ run.hook \in Hook
            /\ HookDone(run.hook)
            /\ run' = [run EXCEPT !.hook = @ + 1]
            /\ UNCHANGED kept /\ Rests

StartHook == /\ run.pc = "hook" /\ run.hook \in Hook
             /\ ~HookDone(run.hook)
             /\ run' = [run EXCEPT !.pc = "process", !.todo = Touches(run.hook)]
             /\ UNCHANGED kept /\ Rests

(* The hook's own work (external): one file at a time.                     *)
Process == /\ run.pc = "process"
           /\ \E d \in run.todo :
                  /\ stage' = [stage EXCEPT ![d] =
                         IF d \in Hooks[run.hook].makes
                         THEN <<Nothing, Stamp(run.hook)>>
                         ELSE Append(stage[d], Stamp(run.hook))]
                  /\ run' = [run EXCEPT !.todo = @ \ {d}]
           /\ UNCHANGED <<cache, parts, litter, state, marks>> /\ Rests

(* It has returned 0; its checkpoint, if it has one, must hold.            *)
EndHook == /\ run.pc = "process" /\ run.todo = {}
           /\ IF Hooks[run.hook].checks = {} \/ CheckpointValid(run.hook)
              THEN /\ marks' = [marks EXCEPT ![run.hook] = recipe]
                   /\ run' = [run EXCEPT !.pc = "hook", !.hook = @ + 1]
              ELSE run' = Off /\ UNCHANGED marks
           /\ UNCHANGED <<cache, stage, parts, litter, state>> /\ Rests

(* validate_recipe_outputs of the stage: a temporary file fails a tree.    *)
SetIsValid == /\ parts = {}
              /\ \A x \in run.plan.items : x.data \notin Faulty
              /\ \A h \in Hook : \A d \in Hooks[h].makes : stage[d] # Nothing

(* Mutant: the set that failed stays.                                      *)
AfterFailureKeep == Off

(* Mutant: it stays planned.                                               *)
AfterFailureAsIs == At("off")

AfterFailure == At("discard")

(* A file nobody planned passes where the recipe's counts allow it.        *)
Check == /\ run.pc = "hook" /\ run.hook \notin Hook
         /\ \/ SetIsValid /\ run' = At("commit")
            \/ (~SetIsValid \/ litter) /\ run' = AfterFailure
         /\ UNCHANGED kept /\ Rests

(* A set that failed must not be resumed: stage first, then state.json.    *)
Discard == /\ run.pc = "discard"
           /\ \/ RemoveStaged /\ UNCHANGED <<state, run>>
              \/ /\ StageIsEmpty /\ state' = NoState /\ run' = Off
                 /\ UNCHANGED <<stage, parts, litter>>
           /\ UNCHANGED <<cache, marks>> /\ Rests

(* commit_stage and _finalize_published_transaction.  state.json and the   *)
(* records of the hooks stay.                                              *)
Commit == /\ run.pc = "commit"
          /\ live' = [tree |-> stage, recipe |-> recipe, marker |-> recipe,
                      items |-> run.plan.items]
          /\ stage' = Empty /\ parts' = {} /\ litter' = FALSE
          /\ cache' = [s \in Slots |-> Nothing]
          /\ run' = Off
          /\ UNCHANGED <<state, marks, world, stops>>

RunStep == \/ Expand \/ Select \/ Prepare \/ Wipe \/ Copy \/ Extracted
           \/ SkipHook \/ StartHook \/ Process \/ EndHook
           \/ Check \/ Discard \/ Commit

(* A run raises, or is killed, anywhere: the UI has gone, the card is      *)
(* full, the commit was rolled back, the power went.  An error removes the *)
(* temporary file of its copy, a kill leaves it, and a hook that is killed *)
(* may leave files of its own.                                             *)
Stop == /\ run # Off /\ stops < MaxStops
        /\ run' = Off /\ stops' = stops + 1
        /\ parts' \in {parts, {}}
        /\ litter' \in {litter, litter \/ run.pc = "process"}
        /\ UNCHANGED <<cache, stage, state, marks, world, live>>

(* The player changes the card or loses the payload; the port is upgraded. *)
Meddles == \/ card' \in Later \ {card} /\ UNCHANGED <<live, recipe>>
           \/ live # NoPayload /\ live' = NoPayload /\ UNCHANGED <<card, recipe>>
           \/ recipe < MaxRecipe /\ recipe' = recipe + 1 /\ UNCHANGED <<card, live>>

(* Between runs.                                                           *)
Swap == /\ run = Off /\ swaps < MaxSwaps
        /\ swaps' = swaps + 1
        /\ Meddles
        /\ UNCHANGED <<kept, run, stops>>

Next == Launch \/ Adopt \/ RunStep \/ Stop \/ Swap

Spec == Init /\ [][Next]_vars

(* A run that is not cut short goes on, and the player tries again.        *)
FairSpec == Spec /\ WF_vars(RunStep) /\ WF_vars(Launch)
-----------------------------------------------------------------------------
Stamps == [hook : Hook, recipe : Recipe,
           source : SUBSET UNION {Contents(p.items) :
               p \in UNION {Plans(Searched(c)) : c \in Card}}]

Steps == {"off", "expand", "prepare", "wipe", "extract", "hook", "process",
          "discard", "commit"}

TypeOK ==
    /\ card \in Card
    /\ \A s \in Slots : cache[s] = Nothing \/ \E a \in Inners : cache[s] = a.data
    /\ DOMAIN stage = Dest /\ parts \subseteq Dest /\ litter \in BOOLEAN
    /\ marks \in [Hook -> 0..MaxRecipe]
    /\ run.pc \in Steps /\ run.hook \in 1..Len(Hooks) + 1 /\ run.todo \subseteq Dest
    /\ run.pc \notin {"off", "expand"} <=> run.plan # NoPlan
    /\ recipe \in Recipe
    /\ swaps \in 0..MaxSwaps /\ stops \in 0..MaxStops

(* What a run with nothing to resume makes of some items: each hook has    *)
(* been through each of its files once, in the order of the recipe.        *)
StampsOf(d, items, r) ==
    LET through == {h \in Hook : d \in Touches(h)}
        After(h) == Cardinality({g \in through : g < h})
    IN [i \in 1..Cardinality(through) |->
           [hook |-> CHOOSE h \in through : After(h) = i - 1,
            recipe |-> r, source |-> Contents(items)]]

Fresh(items, r) ==
    [d \in Dest |->
        IF \E x \in items : x.dest = d
        THEN <<(CHOOSE x \in items : x.dest = d).data>> \o StampsOf(d, items, r)
        ELSE IF \E h \in Hook : d \in Hooks[h].makes
        THEN <<Nothing>> \o StampsOf(d, items, r)
        ELSE Nothing]

(* Hooks that can be resumed.  They rewrite files of the payload alone, no *)
(* two have to do with a file that one of them makes, and a checkpoint of  *)
(* a hook that rewrites something looks at a file it rewrites.             *)
OrderlyHooks ==
    /\ \A h \in Hook, p \in Chosen : /\ Hooks[h].rewrites \subseteq DestsOf(p.items)
                                     /\ Hooks[h].makes \cap DestsOf(p.items) = {}
    /\ \A h, g \in Hook : h # g => Hooks[h].makes \cap Touches(g) = {}
    /\ \A h \in Hook : Hooks[h].rewrites # {} /\ Hooks[h].checks # {} =>
                           Hooks[h].checks \cap Hooks[h].rewrites # {}

(* A loose file enters the fingerprint by its size: with hooks that make   *)
(* files, the size has to tell apart two loose files for one destination.  *)
SizesTell ==
    (\E h \in Hook : Hooks[h].makes # {}) =>
        \A p, q \in Chosen : \A x \in p.items, y \in q.items :
            ~x.exact /\ ~y.exact /\ x.dest = y.dest /\ Size[x.data] = Size[y.data]
                => x.data = y.data

(* What an interrupted, resumed or repeated install puts in place, file by *)
(* file of the plan and its hooks, is what one undisturbed run would have: *)
(* nothing of another payload, nothing half processed, no hook twice or    *)
(* left out (extract_plan, run_hooks, _prepare_stage_state).               *)
CommittedIsFresh == live # NoPayload => live.tree = Fresh(live.items, live.recipe)

(* What a run with an empty cache selects.                                 *)
Choice == [c \in Card |-> Resolve(c)]

(* What was selected is what lies on the card, although the APKs of a      *)
(* bundle are read from a cache that other runs and other bundles filled   *)
(* (_bundle_cache_token, _zip_member_cache_valid).                         *)
SelectedIsOnCard ==
    run.pc = "prepare" =>
        /\ Choice[card] # NoPlan
        /\ Contents(run.plan.items) = Contents(Choice[card].items)

(* What the player sees of it all: an install is one step, from the card   *)
(* that is in to what one undisturbed run makes of it, and only where      *)
(* there is nothing for this version yet.                                  *)
Installs == /\ live' # live /\ UNCHANGED <<card, recipe>>
            /\ Outdated
            /\ Choice[card] # NoPlan
            /\ \A x \in Choice[card].items : x.data \notin Faulty
            /\ live' = [tree |-> Fresh(Choice[card].items, recipe), recipe |-> recipe,
                        marker |-> recipe, items |-> Choice[card].items]

InstallsInOneStep == /\ card \in Card /\ live = NoPayload /\ recipe = 1
                     /\ [][Installs \/ Adopts \/ Meddles]_<<card, live, recipe>>

(* The choice never guesses and fits the card (see SourceSelection).       *)
ChoiceIsCertain == run.pc = "prepare" => NoGuess(Read)

ChoiceIsPortable == run.pc = "prepare" => Portable(run.plan)

(* A player with a good source on the card is not locked out by what       *)
(* earlier runs left: in the end the payload is installed ("repetir a      *)
(* instalacao apenas revalida o mesmo stage e reprova de novo para         *)
(* sempre", install_command).                                              *)
GoodSourceInstalls == []<>(live # NoPayload \/ card \notin Good)
=============================================================================
