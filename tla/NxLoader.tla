------------------------------ MODULE NxLoader ------------------------------
(* The life of a guest library in vendor/nxloader (src/vendor/nxloader/src):
   the phases of a module and what may call into the loader while one of them
   runs.  A phase runs host callbacks (log, alias, relocation hook, filter of
   initializers) and guest code (initializers, JNI_OnLoad) on the caller's
   stack, and each of those may call the loader again, for this module or for
   another.  `stack' holds the calls that have not returned, the innermost
   last: the loader has one thread and no lock.

   The host is any host that passes live modules: it calls any function at any
   time it runs.  A call the loader refuses for the module's phase changes
   nothing and is left out; a call it refuses for an active callback leaves its
   mark (Refused).  Reads of the module (get_info, get_state, needed, soname,
   vma_to_pointer, find_relocation, find_arm_exidx, registry_add_module) change
   nothing but that mark.  Modules are of the process's own ABI, as
   ct_loader_module_create asks. *)
EXTENDS Naturals, Sequences

CONSTANTS
    Modules,    \* the libraries: libc++_shared.so and libchrono.so in the port
    MaxDepth    \* bound: calls into the loader that are nested in one another

ASSUME DepthIsNatural == MaxDepth \in Nat

VARIABLES
    state,      \* module->state, or "NONE" where no module is allocated
    active,     \* module->callback_active
    violation,  \* module->callback_violation
    image,      \* what was done to the mapped image
    stack       \* the calls in progress

vars == <<state, active, violation, image, stack>>

States == {"NONE", "EMPTY", "LOADED", "RELOCATED", "RESOLVED", "FINALIZED",
           "INITIALIZING", "INITIALIZED", "JNI_LOADING", "READY", "ERROR"}

Phases == {"load", "relocate", "resolve", "finalize", "initializers", "onload",
           "find"}

\* The phases a call may find its module in.
Required(op) ==
    CASE op = "load"         -> {"EMPTY"}
      [] op = "relocate"     -> {"LOADED"}
      [] op = "resolve"      -> {"RELOCATED"}
      [] op = "finalize"     -> {"RESOLVED"}
      [] op = "initializers" -> {"FINALIZED"}
      [] op = "onload"       -> {"INITIALIZED"}
      [] op = "find"         -> States \ {"NONE", "EMPTY", "ERROR"}

\* local, imports: how often the two kinds of relocation were written; ran,
\* entered: how often the initializers and JNI_OnLoad were.
Image == [mapped: BOOLEAN, local: Nat, imports: Nat, hooked: BOOLEAN,
          sealed: BOOLEAN, ran: Nat, entered: Nat]

NoImage == [mapped |-> FALSE, local |-> 0, imports |-> 0, hooked |-> FALSE,
            sealed |-> FALSE, ran |-> 0, entered |-> 0]

\* at: in the loader's own code, in a host callback, or in guest code.
\* touched: history, a callback of this call called the same module.
Call == [op: Phases, mod: Modules, at: {"run", "callback", "guest"},
         failed: BOOLEAN, touched: BOOLEAN]

Init == /\ state = [m \in Modules |-> "NONE"]
        /\ active = [m \in Modules |-> FALSE]
        /\ violation = [m \in Modules |-> FALSE]
        /\ image = [m \in Modules |-> NoImage]
        /\ stack = <<>>

-----------------------------------------------------------------------------
Top == stack[Len(stack)]
Pop == SubSeq(stack, 1, Len(stack) - 1)
Retop(c) == [stack EXCEPT ![Len(stack)] = c]

\* Host or guest code runs, and may call the loader.
Outside == stack # <<>> => Top.at # "run"
Inside == stack # <<>> /\ Top.at = "run"

\* nxloader_module_create.
Create(m) ==
    /\ Outside /\ state[m] = "NONE"
    /\ state' = [state EXCEPT ![m] = "EMPTY"]
    /\ image' = [image EXCEPT ![m] = NoImage]
    /\ UNCHANGED <<active, violation, stack>>

\* nxloader_module_callback_guard: any function called for a module whose
\* callback runs, a read or destroy included.
Refused(m) ==
    /\ Outside /\ active[m]
    /\ violation' = [violation EXCEPT ![m] = TRUE]
    /\ stack' = [i \in DOMAIN stack |->
                   [stack[i] EXCEPT !.touched =
                      @ \/ (stack[i].mod = m /\ stack[i].at = "callback")]]
    /\ UNCHANGED <<state, active, image>>

Push(op, m) ==
    /\ Outside /\ Len(stack) < MaxDepth
    /\ state[m] \in Required(op)
    /\ stack' = Append(stack, [op |-> op, mod |-> m, at |-> "run",
                               failed |-> FALSE, touched |-> FALSE])
    /\ UNCHANGED <<state, active, violation, image>>

\* Mutant: the guard is not asked by one function.
EnterRelocate(op, m) == (op # "relocate" => ~active[m]) /\ Push(op, m)

\* A function of a phase passes the guard and the check of the phase.
Enter(op, m) == ~active[m] /\ Push(op, m)

\* Mutant: hooks can be put in until the guest runs.
InstallHookLate(m) ==
    /\ Outside /\ ~active[m] /\ state[m] \in {"RESOLVED", "FINALIZED"}
    /\ image' = [image EXCEPT ![m].hooked = TRUE]
    /\ UNCHANGED <<state, active, violation, stack>>

\* nxloader_module_install_hook: writes guest text, in a module that is resolved.
InstallHook(m) ==
    /\ Outside /\ ~active[m] /\ state[m] = "RESOLVED"
    /\ image' = [image EXCEPT ![m].hooked = TRUE]
    /\ UNCHANGED <<state, active, violation, stack>>

Free(m) ==
    /\ Outside /\ ~active[m]
    /\ state' = [state EXCEPT ![m] = "NONE"]
    /\ violation' = [violation EXCEPT ![m] = FALSE]
    /\ image' = [image EXCEPT ![m] = NoImage]
    /\ UNCHANGED <<active, stack>>

\* Mutant: the module is thought idle while JNI_OnLoad runs.
DestroyLoading(m) == state[m] \notin {"NONE", "INITIALIZING"} /\ Free(m)

\* nxloader_module_destroy: a no-op while guest code of the module runs.
Destroy(m) == state[m] \notin {"NONE", "INITIALIZING", "JNI_LOADING"} /\ Free(m)

-----------------------------------------------------------------------------
\* Calls back only to report that it failed (finalize), or not at all.
CallsBack(c) == /\ c.op # "onload"
                /\ c.op = "finalize" => c.failed

\* nxloader_callback_begin.  It finds no other callback of the module active:
\* NobodyElseCallsBack.
CallbackBegins ==
    /\ Inside /\ CallsBack(Top) /\ ~active[Top.mod]
    /\ active' = [active EXCEPT ![Top.mod] = TRUE]
    /\ violation' = [violation EXCEPT ![Top.mod] = FALSE]
    /\ stack' = Retop([Top EXCEPT !.at = "callback"])
    /\ UNCHANGED <<state, image>>

\* The hook and the filter may reject what they are asked about.
MayReject(c) == c.op \in {"relocate", "resolve", "initializers"}

\* A loaded image is already published when the call ends with its last log.
Published(c) == c.op = "load" /\ state[c.mod] = "LOADED"

Unwind(failure) ==
    /\ Top.at = "callback"
    /\ active' = [active EXCEPT ![Top.mod] = FALSE]
    /\ violation' = [violation EXCEPT ![Top.mod] = FALSE]
    /\ stack' = Retop([Top EXCEPT !.at = "run", !.failed = @ \/ failure])
    /\ UNCHANGED <<state, image>>

\* Mutant: what the log of a loaded image returns is not looked at.
CallbackEndsLog(rejected) ==
    /\ stack # <<>> /\ (rejected => MayReject(Top))
    /\ Unwind(rejected \/ (violation[Top.mod] /\ ~Published(Top)))

\* Mutant: the filter's answer is taken whatever else it did.
CallbackEndsFilter(rejected) ==
    /\ stack # <<>> /\ (rejected => MayReject(Top))
    /\ Unwind(rejected \/ (violation[Top.mod] /\ Top.op # "initializers"))

\* nxloader_callback_end: the call fails if its module was touched meanwhile.
CallbackEnds(rejected) ==
    /\ stack # <<>> /\ (rejected => MayReject(Top))
    /\ Unwind(rejected \/ violation[Top.mod])

\* What is wrong with the file, an import or the memory ends a call.  Some pages
\* may be protected when a later one is refused.
Fails ==
    /\ Inside /\ ~Top.failed /\ ~Published(Top)
    /\ \/ UNCHANGED image
       \/ /\ Top.op = "finalize"
          /\ image' = [image EXCEPT ![Top.mod].sealed = TRUE]
    /\ stack' = Retop([Top EXCEPT !.failed = TRUE])
    /\ UNCHANGED <<state, active, violation>>

\* The tail of nxloader_module_load_memory, up to its log.
PublishImage ==
    /\ Inside /\ Top.op = "load" /\ ~Top.failed /\ state[Top.mod] = "EMPTY"
    /\ state' = [state EXCEPT ![Top.mod] = "LOADED"]
    /\ image' = [image EXCEPT ![Top.mod].mapped = TRUE]
    /\ UNCHANGED <<active, violation, stack>>

\* The state a call that failed leaves.  A file that could not be read leaves an
\* empty module, relocations that failed can be tried again.
AfterFailure(c) ==
    CASE c.op = "load" /\ state[c.mod] = "EMPTY" -> {"EMPTY", "ERROR"}
      [] c.op \in {"relocate", "resolve", "find"} -> {state[c.mod]}
      [] OTHER -> {"ERROR"}

ReturnFailure ==
    /\ Inside /\ Top.failed
    /\ \E s \in AfterFailure(Top) : state' = [state EXCEPT ![Top.mod] = s]
    /\ image' = IF Top.op = "load" THEN [image EXCEPT ![Top.mod] = NoImage]
                                   ELSE image
    /\ stack' = Pop
    /\ UNCHANGED <<active, violation>>

\* nxloader_module_relocate and resolve write all that is pending, finalize has
\* protected every page, and the phase is over.
ReturnDone ==
    /\ Inside /\ ~Top.failed
    /\ \/ /\ Top.op = "relocate"
          /\ state' = [state EXCEPT ![Top.mod] = "RELOCATED"]
          /\ image' = [image EXCEPT ![Top.mod].local = @ + 1]
       \/ /\ Top.op = "resolve"
          /\ state' = [state EXCEPT ![Top.mod] = "RESOLVED"]
          /\ image' = [image EXCEPT ![Top.mod].imports = @ + 1]
       \/ /\ Top.op = "finalize"
          /\ state' = [state EXCEPT ![Top.mod] = "FINALIZED"]
          /\ image' = [image EXCEPT ![Top.mod].sealed = TRUE]
       \/ /\ Top.op = "find" \/ Published(Top)
          /\ UNCHANGED <<state, image>>
       \/ /\ Top.op = "onload"   \* no such export, and it is optional
          /\ state' = [state EXCEPT ![Top.mod] = "READY"]
          /\ UNCHANGED image
    /\ stack' = Pop
    /\ UNCHANGED <<active, violation>>

\* The plan is complete and every filter has answered: the guest is called.
EnterGuest ==
    /\ Inside /\ ~Top.failed
    /\ \/ /\ Top.op = "initializers"
          /\ state' = [state EXCEPT ![Top.mod] = "INITIALIZING"]
          /\ image' = [image EXCEPT ![Top.mod].ran = @ + 1]
       \/ /\ Top.op = "onload"
          /\ state' = [state EXCEPT ![Top.mod] = "JNI_LOADING"]
          /\ image' = [image EXCEPT ![Top.mod].entered = @ + 1]
    /\ stack' = Retop([Top EXCEPT !.at = "guest"])
    /\ UNCHANGED <<active, violation>>

\* The guest returns; call_initializers looks at the phase again,
\* call_jni_onload only at the version it was given.
GuestReturns(accepted) ==
    /\ stack # <<>> /\ Top.at = "guest"
    /\ LET done == IF Top.op = "initializers"
                   THEN IF state[Top.mod] = "INITIALIZING" THEN "INITIALIZED"
                                                           ELSE "ERROR"
                   ELSE IF accepted THEN "READY" ELSE "ERROR"
       IN  state' = [state EXCEPT ![Top.mod] = done]
    /\ stack' = Pop
    /\ UNCHANGED <<active, violation, image>>

Next == \/ \E m \in Modules :
             \/ Create(m) \/ Refused(m) \/ InstallHook(m) \/ Destroy(m)
             \/ \E op \in Phases : Enter(op, m)
        \/ CallbackBegins \/ Fails \/ PublishImage \/ EnterGuest
        \/ ReturnFailure \/ ReturnDone
        \/ \E b \in BOOLEAN : CallbackEnds(b) \/ GuestReturns(b)

Spec == Init /\ [][Next]_vars

-----------------------------------------------------------------------------
\* Types.  The ranges of the counters say that, whatever is nested in what, the
\* relocations of each kind are written once in the life of a module (a REL
\* relocation applied twice would add the base to itself), its initializers run
\* once and JNI_OnLoad is entered once.
TypeOK ==
    /\ state \in [Modules -> States]
    /\ active \in [Modules -> BOOLEAN]
    /\ violation \in [Modules -> BOOLEAN]
    /\ image \in [Modules -> Image]
    /\ \A m \in Modules : /\ image[m].local <= 1 /\ image[m].imports <= 1
                          /\ image[m].ran <= 1 /\ image[m].entered <= 1
    /\ stack \in Seq(Call) /\ Len(stack) <= MaxDepth

\* nxloader_module_destroy is "a safe no-op" where it must be (nxloader.h:284):
\* a call that has not returned never finds its module freed, whoever destroyed
\* what from a callback or from the guest.
InUseIsAlive == \A i \in DOMAIN stack : state[stack[i].mod] # "NONE"

\* Guest code runs only in an image that is mapped, relocated once, bound once
\* and sealed, whose preflight nobody disturbed, and the phase does not move
\* under it: what call_initializers checks when the guest returns, and
\* call_jni_onload does not.
GuestIsUndisturbed ==
    \A i \in DOMAIN stack : stack[i].at = "guest" =>
      LET m == stack[i].mod IN
        /\ state[m] = IF stack[i].op = "initializers" THEN "INITIALIZING"
                                                      ELSE "JNI_LOADING"
        /\ image[m].mapped /\ image[m].sealed
        /\ image[m].local = 1 /\ image[m].imports = 1 /\ image[m].ran = 1
        /\ ~stack[i].touched

\* A module has one callback active at a time, and none when a call for it
\* reaches nxloader_callback_begin.
NobodyElseCallsBack == Inside => ~active[Top.mod]

\* The phase a call that succeeds leaves its module in.
Reached(op) ==
    CASE op = "load"         -> {"LOADED"}
      [] op = "relocate"     -> {"RELOCATED"}
      [] op = "resolve"      -> {"RESOLVED"}
      [] op = "finalize"     -> {"FINALIZED"}
      [] op = "initializers" -> {"INITIALIZED"}
      [] op = "onload"       -> {"READY"}
      [] op = "find"         -> {}

\* "The violation is sticky until that callback returns: the enclosing API fails
\* with NXLOADER_EREENTRANT before publishing its transaction" (nxloader.h:157):
\* a call that returns after one of its callbacks called its own module has
\* published nothing, or takes back what it has.
TouchedIsNotPublished ==
    [][Len(stack') < Len(stack) /\ Top.touched
         => state'[Top.mod] \notin Reached(Top.op)]_vars

\* Once finalize has protected the image nothing writes to it again: no
\* relocation and no hook of a call that began before.
SealedIsNotWritten ==
    [][\A m \in Modules :
         image[m].sealed /\ state'[m] # "NONE"
           => /\ image'[m].sealed
              /\ image'[m].local = image[m].local
              /\ image'[m].imports = image[m].imports
              /\ image'[m].hooked = image[m].hooked]_vars
=============================================================================
