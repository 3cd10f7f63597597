--------------------------- MODULE DetectorHooks ---------------------------
(***************************************************************************)
(* The runtime detector of one process from the interpreter's start: its   *)
(* threads import frameworks and get their hooks (ImportHooks), and through *)
(* the hooks it records data, and flushes it (RuntimeDetector).            *)
(***************************************************************************)
EXTENDS RuntimeDetector, ImportHooks

CONSTANT Host  \* the process

ASSUME HostAssumption == Initial = {Host} /\ "main" \in Importers

allVars == <<vars, hookVars>>

Importing == \E t \in Importers : stack[t] # <<>> \/ script[t] # <<>>

\* Bound: the workload uses its data when every import is over and every hook
\* is in place, in behaviours in which nothing has raised so far, and then
\* loads no models.
Settled ==
  /\ ~Importing /\ next = 0 /\ faults = 0
  /\ \A m \in Triggers : hook[m] = "installed"

UsesData == pc[Host]["main"] # "run" \/ mem[Host] # {} \/ life[Host] # "running"

ImportBegins(t) == Statement(t) \/ \E m \in Modules : Probe(t, m)

\* The main thread loads models when it is in no import.
LoadsModels == ~UsesData /\ stack["main"] = <<>> /\ ModelStep

\* The main thread's imports wait for its model loads.
ImportsStep ==
  \E t \in Importers :
    /\ t = "main" => loads = <<>>
    /\ ImportStep(t) \/ ImportBegins(t)

DataStep == ProcessStep(Host) \/ \E t \in Threads : ThreadStep(Host, t)

HostedNext ==
  \/ (ImportsStep \/ LoadsModels) /\ UNCHANGED vars
  \/ Settled /\ DataStep /\ UNCHANGED hookVars

\* As for the detector's threads, an import that has begun goes on, and so
\* does a model load.
HostedSpec ==
  /\ Init /\ HooksInit /\ [][HostedNext]_allVars
  /\ Fairness
  /\ \A t \in Importers : WF_hookVars(ImportStep(t))
  /\ WF_hookVars(LoadEnds)

\* An import that a thread has begun comes to an end: two threads whose
\* modules and hooks import each other's frameworks do not wait for each other
\* (_claim: "holding a lock across an import risks deadlocking against another
\* thread's module lock").
ImportsEnd == \A t \in Importers : stack[t] # <<>> ~> stack[t] = <<>>

=============================================================================
