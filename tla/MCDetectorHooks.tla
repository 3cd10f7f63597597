-------------------------- MODULE MCDetectorHooks --------------------------
(***************************************************************************)
(* A process in no git checkout whose main thread imports a helper module  *)
(* and transformers, while another thread imports torch and transformers.  *)
(* The helper imports torch at its top level, and the transformers hook    *)
(* makes the lazy transformers import it.  torch and the helper come from  *)
(* one zip archive.                                                        *)
(***************************************************************************)
EXTENDS DetectorHooks

NoTrees == [p \in Procs |-> 0]
OwnArgs == [p \in Procs |-> [k \in ArgKeys |-> {p}]]

TopLevel ==
  [m \in Modules |-> IF m = "helper" THEN {"torch"} ELSE {}]
OfHook ==
  [m \in Triggers |-> IF m = "transformers" THEN {"torch"} ELSE {}]
TwoThreads ==
  [t \in Importers |-> IF t = "main" THEN <<"helper", "transformers">>
                       ELSE <<"torch", "transformers">>]

=============================================================================
