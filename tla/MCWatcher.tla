------------------------------ MODULE MCWatcher ------------------------------
(***************************************************************************)
(* Model-checking instances of Watcher: the sets of API calls that fail.   *)
(***************************************************************************)
EXTENDS Watcher

\* Every call except the list of postprocess Jobs and the write of the inputs,
\* whose failures the code does not survive.
AllButListAndWrite == Calls \ {"list_pp", "write_inputs"}

\* Nor the pod list (a failed one counts as "no pods") and the best-effort
\* event.
Survivable == AllButListAndWrite \ {"list_pods", "event"}

=============================================================================
