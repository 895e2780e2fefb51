------------------------------ MODULE MCVectorRun ------------------------------
(* Instances of VectorRun for TLC: one entry, its work items and their tasks. *)
EXTENDS VectorRun

OneEntry == [i \in Items |-> 1]

\* Task 0 has one episode, task 1 the others: the second slot waits for task 1.
OneThenRest == [i \in Items |-> IF i = 0 THEN 0 ELSE 1]

\* Two episodes per task.
TwoByTwo == [i \in Items |-> i \div 2]
=============================================================================
