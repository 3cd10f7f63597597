------------------------- MODULE MCRuntimeDetector -------------------------
(***************************************************************************)
(* Model-checking instances of RuntimeDetector: which working tree each    *)
(* process runs in, and what its argv says.                                *)
(***************************************************************************)
EXTENDS RuntimeDetector

OwnTrees == [p \in Procs |-> p]
NoTrees  == [p \in Procs |-> 0]

\* The first process is in a tree, a child it forks is not.
FirstsTree == [p \in Procs |-> IF p = 1 THEN 1 ELSE 0]

NoArgs == [p \in Procs |-> [k \in ArgKeys |-> {}]]

\* Both processes are told the epochs, differently, and only the first one
\* the learning rate.
TwoArgs ==
  [p \in Procs |-> [k \in ArgKeys |-> IF k = "epochs" \/ p = 1 THEN {p} ELSE {}]]

=============================================================================
