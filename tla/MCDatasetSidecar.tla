-------------------------- MODULE MCDatasetSidecar --------------------------
(***************************************************************************)
(* A model-checking instance of DatasetSidecar: one pod's file is written  *)
(* twice, the others' once.                                                *)
(***************************************************************************)
EXTENDS DatasetSidecar

CONSTANT Busy
ASSUME Busy \in Pods

OneBusy == [p \in Pods |-> IF p = Busy THEN 2 ELSE 1]

=============================================================================
