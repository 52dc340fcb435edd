---------------------------- MODULE MCSqlTasks ------------------------------
(* Instances of SqlTasks. *)
EXTENDS SqlTasks, TLC

\* Every task is run each second and is over after one.
EverySecond == [t \in Targets |-> [repeat_interval |-> 1, retry_interval |-> 1, timeout |-> 1]]

Alike == Permutations(Scans) \cup Permutations(Hosts)
=============================================================================
