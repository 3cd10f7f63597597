------------------------------- MODULE Absent -------------------------------
(***************************************************************************)
(* The value of a field that is not there (Python's None, a missing key).  *)
(***************************************************************************)
EXTENDS Integers

CONSTANT None

\* It is not a number, nor one of the texts it could be confused with.
ASSUME AbsentAssumption ==
  None \notin Int /\ None \notin {"Complete", "Completed", "Failed", "OOMKilled"}

=============================================================================
