------------------------------ MODULE MCShardRun ------------------------------
(* Instances of ShardRun for TLC: the entries' work items and their tasks. *)
EXTENDS ShardRun

\* One entry of three items: task 0 has two episodes, task 1 one.
OneEntry   == [i \in Items |-> 1]
TwoTasks   == [i \in Items |-> IF i < 2 THEN 0 ELSE 1]

\* One entry with two tasks of two episodes each, for four items.
TwoByTwo   == [i \in Items |-> i \div 2]

\* Two entries: tasks of two episodes and of one in the first, one of one in the second.
ThreeAndOne == [i \in Items |-> IF i < 3 THEN 1 ELSE 2]
TwoThenOnes == [i \in Items |-> IF i < 2 THEN 0 ELSE i - 1]
=============================================================================
