------------------------------- MODULE MCRecords -------------------------------
(* Records with three calls: two writers and a reader, or a writer and two      *)
(* readers, are what it takes to contradict an answer.                          *)
EXTENDS Records, TLC

\* No definition tells one call from another.
CallSymmetry == Permutations(Calls)
================================================================================
