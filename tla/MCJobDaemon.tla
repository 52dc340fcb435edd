---------------------------- MODULE MCJobDaemon -----------------------------
(***************************************************************************)
(* Instances of JobDaemon.  The functions of its constants are given here; *)
(* a cfg chooses among them.                                               *)
(***************************************************************************)
EXTENDS JobDaemon, TLC

CONSTANTS d1, d2, m1, m2, h1, h2, c1, c2, n1, n2

\* Every daemon on one machine, or each on its own.
OneMachine == [d \in Daemons |-> m1]
OwnMachine == [d \in Daemons |-> IF d = d1 THEN m1 ELSE m2]

Identities == [m \in Machines |-> IF m = m1 THEN n1 ELSE n2]

\* A machine keeps its name, or is a container that may come up under another.
OwnNames == [m \in Machines |-> IF m = m1 THEN {h1} ELSE {h2}]
Renamed == [m \in Machines |-> {h1, h2}]

AllRoles == [d \in Daemons |-> Commands]

\* A command run every second and stopped after one; a service that is never stopped.
ShortJobs == [c \in Commands |-> [repeat_interval |-> 1, retry_interval |-> 1, timeout |-> 1]]
JobAndService == [c \in Commands |->
    IF c = c1 THEN [repeat_interval |-> 1, retry_interval |-> 1, timeout |-> 1]
              ELSE [repeat_interval |-> 0, retry_interval |-> 0, timeout |-> 0]]

Two == [c \in Commands |-> 2]

Ids == Permutations(Pids) \cup Permutations(LogIds)

\* A row nothing refers to is the same state whatever it last said: no action reads it.
Seen == <<[l \in LogIds |-> IF Forgettable(l) THEN NoRow ELSE job_runs[l]],
          latest, live, file, hostname, pc, tracked, rows, snap, todo, child>>
=============================================================================
