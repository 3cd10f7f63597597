----------------------------- MODULE OutputFile -----------------------------
(***************************************************************************)
(* What the file $AIBOM_DATASET_OUTPUT promises those who read it: it is   *)
(* replaced as a whole, and what it once listed it goes on listing.        *)
(***************************************************************************)
CONSTANT Items    \* what the training processes can detect
VARIABLE listed   \* what the file lists

Init == listed = {}

\* A process folds what it has detected into the file.
Write == listed \subseteq listed' /\ listed' \subseteq Items

Spec == Init /\ [][Write]_listed

=============================================================================
