---------------------------- MODULE ImportHooks ----------------------------
(***************************************************************************)
(* How the runtime detector gets its hooks into a workload's process       *)
(* (scripts/aibom-scripts/runtime_detector.py): _PostImportHookFinder on   *)
(* sys.meta_path, the imports of the process's threads, and the claim on   *)
(* the first model load in the transformers hook.                          *)
(*                                                                         *)
(* An import is a frame on its thread's stack; a module's top level and a  *)
(* hook may import other modules, which puts a frame on top.  CPython's    *)
(* import system is external: a thread that loads a module holds the       *)
(* module's lock until the loader's exec_module, the hook included, is     *)
(* over, and sys.meta_path is walked by index, while others change it.     *)
(***************************************************************************)
EXTENDS Naturals, Sequences, SequencesExt

CONSTANTS
  Importers,    \* threads that import
  Modules,
  Triggers,     \* the keys of _LAZY_TRIGGERS
  Imports,      \* the modules that a module imports at its top level
  HookImports,  \* the modules that a hook makes its own module import
  Archive,      \* modules whose loader is one shared instance (zipimporter)
  Script,       \* the modules that each thread of the workload imports
  Models,       \* how many models the main thread loads
  MaxFaults     \* bound: module executions, hooks and model loads that raise

ASSUME HooksAssumption ==
  /\ Triggers \subseteq Modules /\ Archive \subseteq Modules
  /\ Imports \in [Modules -> SUBSET Modules]
  /\ HookImports \in [Triggers -> SUBSET Modules]
  /\ Script \in [Importers -> Seq(Modules)]
  /\ Models \in Nat /\ MaxFaults \in Nat

VARIABLES
  metaPath,  \* sys.meta_path
  pending,   \* the finder's _pending
  modules,   \* sys.modules: absent, being loaded, or loaded
  hook,      \* what became of each trigger's hook
  stack,     \* the imports each thread is in, the innermost last
  script,    \* the imports each thread still has before it
  shared,    \* the wrappers on the shared loader's exec_module
  loads,     \* the from_pretrained calls in progress, the innermost last
  claimed,   \* the transformers hook's claimed[0]
  model,     \* _runtime_info["model_name"]
  next,      \* how many models have been loaded
  faults     \* exceptions so far

importVars == <<metaPath, pending, modules, hook, stack, script, shared>>
modelVars  == <<loads, claimed, model, next>>
hookVars   == <<importVars, modelVars, faults>>

Frame(m) == [name |-> m, pc |-> "import", at |-> 1, chain |-> {}, todo |-> {}]

Innermost(t) == Last(stack[t])

\* Thread t's innermost import goes on as f.
GoOn(t, f) == stack' = [stack EXCEPT ![t] = Append(Front(@), f)]

At(t, where) == stack[t] # <<>> /\ Innermost(t).pc = where

\* Some thread is loading m: it has m's lock.
Loading(m) ==
  \E t \in Importers : \E i \in DOMAIN stack[t] :
    stack[t][i].name = m /\ stack[t][i].pc # "import"

-----------------------------------------------------------------------------
(* An import *)

\* The workload's next import statement.
Statement(t) ==
  /\ stack[t] = <<>> /\ script[t] # <<>>
  /\ stack' = [stack EXCEPT ![t] = <<Frame(Head(script[t]))>>]
  /\ script' = [script EXCEPT ![t] = Tail(@)]
  /\ UNCHANGED <<metaPath, pending, modules, hook, shared, modelVars, faults>>

\* A loaded module is bound; otherwise the module's lock is waited for.
Enter(t) ==
  LET f == Innermost(t) IN
  /\ At(t, "import")
  /\ \/ /\ modules[f.name] = "loaded"
        /\ stack' = [stack EXCEPT ![t] = Front(@)]
     \/ /\ modules[f.name] # "loaded" /\ ~Loading(f.name)
        /\ GoOn(t, [f EXCEPT !.pc = "find"])
  /\ UNCHANGED <<metaPath, pending, modules, hook, script, shared,
                 modelVars, faults>>

\* Mutant: only the outermost import is looked after, like the wrapper of
\* builtins.__import__ that the finder replaced.
Wraps_Outermost(t, m) == m \in pending /\ Len(stack[t]) = 1

\* The detector's finder has the spec from the finders after it and wraps the
\* loader of a pending trigger.  (Those finders do not ask back, which is what
\* _resolving is for.)
Wraps(t, m) == m \in pending

\* One finder of sys.meta_path is asked; past the end nothing was found.
find_spec(t) ==
  LET f == Innermost(t)
      finder == metaPath[f.at]
      wraps == finder = "detector" /\ Wraps(t, f.name)
      own == wraps /\ f.name \notin Archive
  IN
  /\ At(t, "find")
  /\ \/ /\ f.at > Len(metaPath)
        /\ GoOn(t, [f EXCEPT !.pc = "raised"])
        /\ UNCHANGED shared
     \/ /\ f.at <= Len(metaPath) /\ (wraps \/ finder = "path")
        /\ GoOn(t, [f EXCEPT !.pc = "load", !.chain = IF own THEN {f.name} ELSE {}])
        /\ shared' = IF wraps /\ ~own THEN shared \cup {f.name} ELSE shared
     \/ /\ f.at <= Len(metaPath) /\ ~(wraps \/ finder = "path")
        /\ GoOn(t, [f EXCEPT !.at = @ + 1])
        /\ UNCHANGED shared
  /\ UNCHANGED <<metaPath, pending, modules, hook, script, modelVars, faults>>

\* importlib.util.find_spec, by which libraries ask whether a module could be
\* imported: the loader is wrapped, and nothing is loaded.
Probe(t, m) ==
  /\ \/ stack[t] = <<>> \/ At(t, "exec")
  /\ modules[m] = "absent" /\ m \in Archive /\ m \notin shared
  /\ "detector" \in Range(metaPath) /\ Wraps(t, m)
  /\ shared' = shared \cup {m}
  /\ UNCHANGED <<metaPath, pending, modules, hook, stack, script,
                 modelVars, faults>>

\* The module enters sys.modules, and exec_module is looked up on the loader.
Load(t) ==
  LET f == Innermost(t) IN
  /\ At(t, "load")
  /\ GoOn(t, [f EXCEPT !.pc = "exec", !.todo = Imports[f.name],
                !.chain = IF f.name \in Archive THEN shared ELSE @])
  /\ modules' = [modules EXCEPT ![f.name] = "loading"]
  /\ UNCHANGED <<metaPath, pending, hook, script, shared, modelVars, faults>>

\* The module's top level, or its hook, imports another module.
Nested(t) ==
  LET f == Innermost(t) IN
  /\ At(t, "exec") \/ At(t, "hook")
  /\ \E m \in f.todo :
       stack' = [stack EXCEPT ![t] =
                   Append(Append(Front(@), [f EXCEPT !.todo = @ \ {m}]), Frame(m))]
  /\ UNCHANGED <<metaPath, pending, modules, hook, script, shared,
                 modelVars, faults>>

\* The wrapper's finally: it is removed once its own module has run.
Restore(f) ==
  shared' = IF f.name \in Archive /\ f.name \in f.chain THEN {} ELSE shared

Fires(f) == f.name \in f.chain

\* The module has executed.
Executed(t) ==
  LET f == Innermost(t) IN
  /\ At(t, "exec") /\ f.todo = {}
  /\ Restore(f)
  /\ GoOn(t, [f EXCEPT !.pc = IF Fires(f) THEN "claim" ELSE "bind"])
  /\ UNCHANGED <<metaPath, pending, modules, hook, script, modelVars, faults>>

\* Its execution raises, and the module leaves sys.modules.
Raises(t, below) ==
  LET f == Last(below) IN
  /\ f.pc = "exec"
  /\ Restore(f)
  /\ modules' = [modules EXCEPT ![f.name] = "absent"]
  /\ stack' = [stack EXCEPT ![t] = Append(Front(below), [f EXCEPT !.pc = "raised"])]
  /\ UNCHANGED hook

ExecRaises(t) ==
  /\ At(t, "exec") /\ faults < MaxFaults
  /\ Raises(t, stack[t])
  /\ faults' = faults + 1
  /\ UNCHANGED <<metaPath, pending, script, modelVars>>

-----------------------------------------------------------------------------
(* fire *)

\* Mutant: the hook runs inside _claim_lock.
ClaimHeldAt_Hook == {"pop", "hook"}

\* Where a thread holds _claim_lock.
ClaimHeldAt == {"pop"}

_claim(t) ==
  LET f == Innermost(t) IN
  /\ At(t, "claim")
  /\ \A u \in Importers : \A i \in DOMAIN stack[u] :
       stack[u][i].pc \notin ClaimHeldAt
  /\ GoOn(t, [f EXCEPT !.pc = "pop"])
  /\ UNCHANGED <<metaPath, pending, modules, hook, script, shared,
                 modelVars, faults>>

\* The hook is taken from _pending; the finder goes with the last one.
Pop(t) ==
  LET f == Innermost(t) IN
  /\ At(t, "pop")
  /\ pending' = pending \ {f.name}
  /\ metaPath' = IF pending' = {} THEN SelectSeq(metaPath, LAMBDA x : x # "detector")
                 ELSE metaPath
  /\ GoOn(t, IF f.name \in pending
             THEN [f EXCEPT !.pc = "hook", !.todo = HookImports[f.name]]
             ELSE [f EXCEPT !.pc = "bind"])
  /\ UNCHANGED <<modules, hook, script, shared, modelVars, faults>>

\* The hook patches its module, or raises, which fire swallows.
Hook(t) ==
  LET f == Innermost(t) IN
  /\ At(t, "hook")
  /\ \/ /\ f.todo = {}
        /\ hook' = [hook EXCEPT ![f.name] = "installed"]
        /\ UNCHANGED faults
     \/ /\ faults < MaxFaults /\ faults' = faults + 1
        /\ hook' = [hook EXCEPT ![f.name] = "failed"]
  /\ GoOn(t, [f EXCEPT !.pc = "bind"])
  /\ UNCHANGED <<metaPath, pending, modules, script, shared, modelVars>>

\* The import system takes the module for loaded and gives up its lock.
Bind(t) ==
  LET f == Innermost(t) IN
  /\ At(t, "bind")
  /\ modules' = [modules EXCEPT ![f.name] = "loaded"]
  /\ stack' = [stack EXCEPT ![t] = Front(@)]
  /\ UNCHANGED <<metaPath, pending, hook, script, shared, modelVars, faults>>

\* A failed import's exception reaches the code that imported: the workload,
\* which may try again, or a module, which may catch it, or a hook, which
\* ends.
Propagate(t) ==
  LET f == Innermost(t)
      below == Front(stack[t])
  IN
  /\ At(t, "raised")
  /\ \/ /\ below = <<>>
        /\ stack' = [stack EXCEPT ![t] = <<>>]
        /\ \/ script' = [script EXCEPT ![t] = <<f.name>> \o @]
           \/ UNCHANGED script
        /\ UNCHANGED <<modules, hook, shared>>
     \/ /\ below # <<>> /\ Last(below).pc = "exec"
        /\ stack' = [stack EXCEPT ![t] = below]
        /\ UNCHANGED <<modules, hook, shared, script>>
     \/ below # <<>> /\ Raises(t, below) /\ UNCHANGED script
     \/ /\ below # <<>> /\ Last(below).pc = "hook"
        /\ hook' = [hook EXCEPT ![Last(below).name] = "failed"]
        /\ stack' = [stack EXCEPT ![t] = Append(Front(below), [Last(below) EXCEPT !.pc = "bind"])]
        /\ UNCHANGED <<modules, shared, script>>
  /\ UNCHANGED <<metaPath, pending, modelVars, faults>>

-----------------------------------------------------------------------------
(* The transformers hook's from_pretrained *)

\* The main thread loads a model, by itself or from inside another load; the
\* first to enter has the claim.
_patched_from_pretrained ==
  /\ hook["transformers"] = "installed" /\ next < Models
  /\ loads' = Append(loads, [model |-> next + 1, primary |-> ~claimed])
  /\ claimed' = TRUE
  /\ next' = next + 1
  /\ UNCHANGED <<importVars, model, faults>>

\* Mutant: whichever load fails gives the claim back.
LoadFails_AnyReleases ==
  /\ loads # <<>> /\ faults < MaxFaults
  /\ loads' = Front(loads)
  /\ claimed' = FALSE
  /\ faults' = faults + 1
  /\ UNCHANGED <<importVars, model, next>>

\* A load that fails gives the claim back if it has it.
LoadFails ==
  /\ loads # <<>> /\ faults < MaxFaults
  /\ loads' = Front(loads)
  /\ claimed' = (claimed /\ ~Last(loads).primary)
  /\ faults' = faults + 1
  /\ UNCHANGED <<importVars, model, next>>

\* A load that succeeds is recorded if it has the claim, unless looking at the
\* model raises, which the hook swallows.
LoadEnds ==
  /\ loads # <<>>
  /\ loads' = Front(loads)
  /\ \/ /\ model' = IF Last(loads).primary THEN Last(loads).model ELSE model
        /\ UNCHANGED faults
     \/ /\ Last(loads).primary /\ faults < MaxFaults
        /\ faults' = faults + 1
        /\ UNCHANGED model
  /\ UNCHANGED <<importVars, claimed, next>>

-----------------------------------------------------------------------------
\* install_hooks_lazy at interpreter startup.  A trigger that is already
\* imported gets its hook at once; the finder is not inserted when all are.
install_hooks_lazy(already) ==
  /\ modules = [m \in Modules |-> IF m \in already THEN "loaded" ELSE "absent"]
  /\ hook = [m \in Triggers |-> IF m \in already THEN "installed" ELSE "none"]
  /\ pending = Triggers \ already
  /\ metaPath = (IF already = Triggers THEN <<>> ELSE <<"detector">>)
                   \o <<"builtin", "path">>

HooksInit ==
  /\ \E already \in SUBSET {m \in Triggers : HookImports[m] = {}} :
       install_hooks_lazy(already)
  /\ stack = [t \in Importers |-> <<>>]
  /\ script = Script
  /\ shared = {}
  /\ loads = <<>> /\ claimed = FALSE /\ model = 0 /\ next = 0
  /\ faults = 0

\* What a thread goes on doing once it has begun an import.
ImportStep(t) ==
  \/ Enter(t) \/ find_spec(t) \/ Load(t) \/ Nested(t) \/ Executed(t)
  \/ ExecRaises(t) \/ _claim(t) \/ Pop(t) \/ Hook(t) \/ Bind(t)
  \/ Propagate(t)

ModelStep == _patched_from_pretrained \/ LoadFails \/ LoadEnds

-----------------------------------------------------------------------------
(* Properties *)

\* A framework that any thread can have bound a name from has been through
\* its hook: whether it is imported by the workload, by another module, by a
\* hook or by two threads at once, and after imports of it that failed; a hook
\* that raises is tried only once (_PostImportHookFinder: "before the import
\* statement that loaded it binds anything").
BoundIsHooked ==
  \A m \in Triggers : modules[m] = "loaded" => hook[m] # "none"

\* The model on record is the first that the process loaded: nothing replaces
\* it, and no load nested in another one is ever recorded, whichever of them
\* fail (_patched_from_pretrained, claimed).
FirstModelKept ==
  [][model' # model => model = 0 /\ Len(loads) = 1]_model

=============================================================================
