-------------------------- MODULE JobDaemonProofs ---------------------------
(***************************************************************************)
(* What JobDaemon promises for every number of daemons, machines, commands *)
(* and runs: its type invariant; that a live run keeps its row and that no *)
(* sync command is worked on twice on one host, while no command is taken  *)
(* out of the file; and that a result falls only to a start-up recovery.   *)
(***************************************************************************)
EXTENDS JobDaemon, TLAPS

-----------------------------------------------------------------------------
(* The inductive invariant, one part per fact the claim rests on. *)

\* Nobody takes a command out of the file.
FileIsWhole == \A c \in Commands : file[c] # "absent"

\* ... so a daemon that recovers has read them all.
WholeFileWasRead == \A d \in Daemons : pc[d] = "recover" => Commands \subseteq todo[d]

\* A row that exists is the run of a command, and a daemon holds only rows that exist.
RowsAreRuns ==
    /\ \A l \in LogIds : job_runs[l].status # "none" => job_runs[l].cmd \in Commands
    /\ \A d \in Daemons : \A l \in tracked[d] \cup rows[d] : job_runs[l].status # "none"

\* A recorded process is what its row says it is, and lives on a machine that is up under that name.
RowsTellTheTruth ==
    \A x \in live : x.log # NoLog =>
        /\ job_runs[x.log].status # "none"
        /\ job_runs[x.log].cmd = x.cmd
        /\ job_runs[x.log].host = x.host
        /\ job_runs[x.log].pid = x.pid
        /\ \E m \in Machines : /\ x.host = hostname[m]
                               /\ job_runs[x.log].node \in {NoNode, Identity[m]}

\* The child a daemon is about to record is a command's, and its number is nobody else's.
ChildIsKnown ==
    \A d \in Daemons : pc[d] = "spawned" =>
        /\ child[d].cmd \in Commands
        /\ child[d].pid \in Pids
        /\ \A x \in live : x.host = Host(d) /\ x.pid = child[d].pid => x.cmd = child[d].cmd

\* The unique index: one running row per sync command and host.
OneClaim ==
    \A k, l \in LogIds :
        /\ Running(k) /\ Running(l)
        /\ job_runs[k].cmd = job_runs[l].cmd /\ job_runs[k].cmd \notin Async
        /\ job_runs[k].host = job_runs[l].host
        => k = l

ClaimInv ==
    /\ TypeOK
    /\ FileIsWhole
    /\ WholeFileWasRead
    /\ RowsAreRuns
    /\ RowsTellTheTruth
    /\ ChildIsKnown
    /\ OneClaim
    /\ LiveRunHoldsItsRow

\* A shutdown closes the row of a child only after it has stopped it.
StoppedAreGone ==
    \A d \in Daemons : pc[d] = "stopping" => \A x \in live : x.log \notin tracked[d] \ rows[d]

\* Why a result is written once: a run has one owner, and what the owner still tracks is running or was
\* closed as timeout by a recovery; a collection and a shutdown go over tracked rows only.
OneOwner ==
    /\ \A d \in Daemons :
           /\ \A l \in tracked[d] : job_runs[l].status \in {"running", "timeout"}
           /\ pc[d] \in {"collect", "stopping"} => rows[d] \subseteq tracked[d]
    /\ \A d, e \in Daemons : d # e => tracked[d] \cap tracked[e] = {}
-----------------------------------------------------------------------------
(* Types. *)

\* Closing rows leaves a table of rows (update_job_run writes one of the statuses).
LEMMA ClosedType ==
    ASSUME TypeOK, NEW L, NEW status \in RunStatuses
    PROVE  /\ Closed(L, status) \in [LogIds -> Row]
           /\ \A l \in LogIds :
                  /\ l \notin L => Closed(L, status)[l] = job_runs[l]
                  /\ l \in L => /\ Closed(L, status)[l].status = status
                              /\ Closed(L, status)[l].cmd = job_runs[l].cmd
                              /\ Closed(L, status)[l].host = job_runs[l].host
                              /\ Closed(L, status)[l].node = job_runs[l].node
                              /\ Closed(L, status)[l].pid = job_runs[l].pid
                              /\ Closed(L, status)[l].age = job_runs[l].age
<1>1. \A l \in LogIds : job_runs[l] \in Row
  BY DEF TypeOK
<1>2. \A l \in LogIds : [job_runs[l] EXCEPT !.status = status] \in Row
  BY <1>1 DEF Row
<1>3. QED
  BY <1>1, <1>2 DEF Closed, Row

\* An inserted row is a row, the latest of its command, and no other row is touched (insert_job_run).
LEMMA InsertType ==
    ASSUME TypeOK, NEW l \in LogIds, NEW c \in Commands \cup {NoCommand}, NEW h \in Hosts,
           NEW n \in Nodes \cup {NoNode}, NEW p \in Pids \cup {NoPid}, NEW status \in RunStatuses,
           insert_job_run(l, c, h, n, p, status)
    PROVE  /\ job_runs' \in [LogIds -> Row]
           /\ latest' \in [Commands -> LogIds \cup {NoLog}]
           /\ \A k \in LogIds : k # l => job_runs'[k] = job_runs[k]
           /\ job_runs'[l].status = status
           /\ job_runs'[l].cmd = c
           /\ job_runs'[l].host = h
           /\ job_runs'[l].pid = p
           /\ job_runs'[l].node \in {NoNode, n}
<1> DEFINE row == [cmd |-> c, host |-> h, node |-> IF c \in Async THEN NoNode ELSE n,
                   pid |-> p, status |-> status, age |-> 0]
<1>1. row \in Row
  BY DaemonConstants DEF Row
<1>2. job_runs' = [job_runs EXCEPT ![l] = row] /\ latest' = [latest EXCEPT ![c] = l]
  BY DEF insert_job_run
<1>3. QED
  BY <1>1, <1>2 DEF TypeOK

\* Time only makes rows older.
LEMMA OlderType ==
    ASSUME NEW r \in Row
    PROVE  /\ Older(r) \in Row
           /\ Older(r).status = r.status /\ Older(r).cmd = r.cmd /\ Older(r).host = r.host
           /\ Older(r).node = r.node /\ Older(r).pid = r.pid /\ Older(r).age >= r.age
<1>1. MaxAge \in Nat
  BY DaemonConstants
<1>2. CASE r.status = "none" \/ r.age = MaxAge
  BY <1>1, <1>2 DEF Older, Row
<1>3. CASE ~(r.status = "none" \/ r.age = MaxAge)
  <2>1. Older(r) = [r EXCEPT !.age = r.age + 1]
    BY <1>3 DEF Older
  <2>2. r.age \in 0 .. MaxAge /\ r.age # MaxAge
    BY <1>3 DEF Row
  <2>3. r.age + 1 \in 0 .. MaxAge /\ r.age + 1 >= r.age
    BY <1>1, <2>2
  <2>4. QED
    BY <2>1, <2>3 DEF Row
<1>4. QED
  BY <1>2, <1>3

\* The daemons start in type.
LEMMA TypeInit == ASSUME Init PROVE TypeOK
  BY DaemonConstants DEF Init, TypeOK, Row, NoRow, NoSnap, NoChild, RunStatuses, ERROR_STATUSES

\* Every step keeps the types: one case per action of Next.
LEMMA TypeNext == ASSUME TypeOK, [Next]_vars PROVE TypeOK'
<1> USE DEF TypeOK
<1>0. \A d \in Daemons : Host(d) \in Hosts
  BY DaemonConstants DEF Host
<1>1. {"done", "error", "timeout"} \subseteq RunStatuses
  BY DEF RunStatuses, ERROR_STATUSES
<1>2. ASSUME NEW d \in Daemons, Start(d) PROVE TypeOK'
  BY <1>2 DEF Start
<1>3. ASSUME NEW d \in Daemons, NEW l \in LogIds, RecoverRow(d, l) PROVE TypeOK'
  BY <1>1, <1>3, ClosedType DEF RecoverRow
<1>4. ASSUME NEW d \in Daemons, NEW l \in LogIds, CollectStillRunning(d, l) PROVE TypeOK'
  BY <1>4 DEF CollectStillRunning
<1>5. ASSUME NEW d \in Daemons, NEW l \in LogIds, CollectTimedOut(d, l) PROVE TypeOK'
  BY <1>1, <1>5, ClosedType DEF CollectTimedOut
<1>6. ASSUME NEW d \in Daemons, NEW l \in LogIds, NEW status \in {"done", "error"},
             CollectExited(d, l, status)
      PROVE  TypeOK'
  BY <1>1, <1>6, ClosedType DEF CollectExited
<1>7. ASSUME NEW d \in Daemons, Snapshot(d) PROVE TypeOK'
  <2>1. \A c \in Commands : [log |-> latest[c],
            status |-> IF latest[c] = NoLog THEN "none" ELSE job_runs[latest[c]].status]
            \in [log : LogIds \cup {NoLog}, status : RunStatuses \cup {"none"}]
    BY DEF Row
  <2>2. QED
    BY <1>7, <2>1, DaemonConstants DEF Snapshot
<1>8. ASSUME NEW d \in Daemons, NEW c \in Commands, Skip(d, c) \/ LaunchFailsUnrecorded(d, c)
      PROVE  TypeOK'
  BY <1>8 DEF Skip, LaunchFailsUnrecorded
<1>9. ASSUME NEW d \in Daemons, NEW c \in Commands, NEW p \in Pids, Launch(d, c, p) PROVE TypeOK'
  <2>1. [host |-> Host(d), pid |-> p, cmd |-> c, log |-> NoLog] \in Process
    BY <1>0 DEF Process
  <2>2. QED
    BY <1>9, <2>1 DEF Launch
<1>10. ASSUME NEW d \in Daemons, NEW c \in Commands, NEW l \in LogIds, LaunchFails(d, c, l)
       PROVE  TypeOK'
  <2>1. insert_job_run(l, c, Host(d), NoNode, NoPid, "error")
    BY <1>10 DEF LaunchFails
  <2>2. job_runs' \in [LogIds -> Row] /\ latest' \in [Commands -> LogIds \cup {NoLog}]
    BY <1>0, <1>1, <2>1, InsertType
  <2>3. QED
    BY <1>10, <2>2 DEF LaunchFails
<1>11. ASSUME NEW d \in Daemons, NEW l \in LogIds, Record(d, l) PROVE TypeOK'
  <2>1. /\ child[d].cmd \in Commands \cup {NoCommand} /\ child[d].pid \in Pids \cup {NoPid}
        /\ Identity[MachineOf[d]] \in Nodes \cup {NoNode}
    BY DaemonConstants
  <2>2. insert_job_run(l, child[d].cmd, Host(d), Identity[MachineOf[d]], child[d].pid, "running")
    BY <1>11 DEF Record
  <2>3. job_runs' \in [LogIds -> Row] /\ latest' \in [Commands -> LogIds \cup {NoLog}]
    BY <1>0, <2>1, <2>2, InsertType DEF RunStatuses
  <2>4. \A x \in live : x \in Process /\ [x EXCEPT !.log = l] \in Process
    BY DEF Process
  <2>5. live' \subseteq Process
    BY <1>11, <2>4 DEF Record
  <2>6. QED
    BY <1>11, <2>3, <2>5 DEF Record, NoChild
<1>12. ASSUME NEW d \in Daemons, Refused(d) PROVE TypeOK'
  <2>1. /\ live' \subseteq live
        /\ child' = [child EXCEPT ![d] = NoChild] /\ pc' = [pc EXCEPT ![d] = "scan"]
        /\ UNCHANGED <<job_runs, latest, file, hostname, tracked, rows, snap, todo>>
    BY <1>12 DEF Refused
  <2>2. QED
    BY <2>1 DEF NoChild
<1>13. ASSUME NEW d \in Daemons, RecordFails(d) \/ ScanFails(d) \/ EndScan(d) PROVE TypeOK'
  <2>1. NextScan(d) => /\ pc' \in [Daemons -> {"down", "recover", "collect", "scan", "spawned", "stopping"}]
                       /\ rows' \in [Daemons -> SUBSET LogIds]
                       /\ todo' \in [Daemons -> SUBSET Commands]
                       /\ snap' \in [Daemons -> [Commands -> [log : LogIds \cup {NoLog},
                                                            status : RunStatuses \cup {"none"}]]]
    BY DEF NextScan, NoSnap
  <2>2. /\ NextScan(d) /\ UNCHANGED <<job_runs, latest, live, file, hostname, tracked>>
        /\ child' \in {child, [child EXCEPT ![d] = NoChild]}
    BY <1>13 DEF RecordFails, ScanFails, EndScan
  <2>3. child' \in [Daemons -> [cmd : Commands \cup {NoCommand}, pid : Pids \cup {NoPid}]]
    <3>1. NoChild \in [cmd : Commands \cup {NoCommand}, pid : Pids \cup {NoPid}]
      BY DEF NoChild
    <3>2. child \in [Daemons -> [cmd : Commands \cup {NoCommand}, pid : Pids \cup {NoPid}]]
      OBVIOUS
    <3>3. child' = child \/ child' = [child EXCEPT ![d] = NoChild]
      BY <2>2
    <3>4. QED
      BY <3>1, <3>2, <3>3
  <2>4. QED
    BY <2>1, <2>2, <2>3
<1>14. ASSUME NEW d \in Daemons, StopBegins(d) \/ StopEnds(d) PROVE TypeOK'
  <2>1. CASE StopBegins(d)
    BY <2>1 DEF StopBegins, NoSnap, NoChild
  <2>2. CASE StopEnds(d)
    BY <2>2 DEF StopEnds, Outlives, Forget, NoSnap, NoChild
  <2>3. QED
    BY <1>14, <2>1, <2>2
<1>14a. ASSUME NEW d \in Daemons, NEW l \in LogIds, StopChild(d, l) PROVE TypeOK'
  BY <1>14a DEF StopChild, Stopped
<1>14b. ASSUME NEW d \in Daemons, NEW l \in LogIds, CloseStopped(d, l) PROVE TypeOK'
  BY <1>1, <1>14b, ClosedType DEF CloseStopped
<1>14c. ASSUME NEW d \in Daemons, NEW l \in LogIds, RecordErrs(d, l) PROVE TypeOK'
  <2>1. insert_job_run(l, child[d].cmd, Host(d), NoNode, NoPid, "error")
    BY <1>14c DEF RecordErrs
  <2>2. job_runs' \in [LogIds -> Row] /\ latest' \in [Commands -> LogIds \cup {NoLog}]
    BY <1>0, <1>1, <2>1, InsertType
  <2>3. QED
    BY <1>14c, <2>2 DEF RecordErrs, NoChild
<1>14d. ASSUME NEW d \in Daemons, RecordErrsUnrecorded(d) PROVE TypeOK'
  BY <1>14d DEF RecordErrsUnrecorded, NoChild
<1>15. ASSUME NEW d \in Daemons, Crash(d) PROVE TypeOK'
  BY <1>15 DEF Crash, Forget, NoSnap, NoChild
<1>16. ASSUME NEW m \in Machines, NEW h \in Hosts, Reboot(m, h) PROVE TypeOK'
  BY <1>16 DEF Reboot, Forget, NoSnap, NoChild
<1>17. ASSUME NEW x \in live, ProcessExits(x) PROVE TypeOK'
  BY <1>17 DEF ProcessExits, daemonVars
<1>18. ASSUME NEW m \in Machines, NEW p \in Pids, StrangerStarts(m, p) PROVE TypeOK'
  BY <1>18 DEF StrangerStarts, daemonVars, Process
<1>19. ASSUME NEW c \in Commands, NEW state \in {"active", "inactive", "absent"}, EditFile(c, state)
       PROVE  TypeOK'
  BY <1>19 DEF EditFile, daemonVars
<1>20. ASSUME Tick PROVE TypeOK'
  BY <1>20, OlderType DEF Tick, daemonVars
<1>21. CASE UNCHANGED vars
  BY <1>21 DEF vars
<1>22. QED
  BY <1>2, <1>3, <1>4, <1>5, <1>6, <1>7, <1>8, <1>9, <1>10, <1>11, <1>12, <1>13, <1>14, <1>14a,
     <1>14b, <1>14c, <1>14d, <1>15, <1>16, <1>17, <1>18, <1>19, <1>20, <1>21 DEF Next, Work, Disturb

\* Every behaviour of the daemons keeps the store, the processes and the daemons' own tables in type.
THEOREM TypeCorrect == Spec => []TypeOK
  BY TypeInit, TypeNext, PTL DEF Spec
-----------------------------------------------------------------------------
(* The claim. *)

\* A command's timeout is a number, and 0 exactly for a service (AppCommand.timeout_disabled).
LEMMA TimeoutType ==
    ASSUME NEW c \in Commands
    PROVE  Timeout(c) \in Int /\ (Timeout(c) = 0 <=> timeout_disabled(c))
<1>1. Window[c].timeout \in Int
  BY DaemonConstants
<1>2. QED
  BY <1>1 DEF Timeout, timeout_disabled, Default, Unset

\* Time does not take the end of the grace back.
LEMMA PastGraceStays ==
    ASSUME TypeOK, TypeOK', NEW l \in LogIds, job_runs[l].cmd \in Commands,
           job_runs'[l].cmd = job_runs[l].cmd, job_runs'[l].age >= job_runs[l].age, PastGrace(l)
    PROVE  PastGrace(l)'
<1>1. job_runs[l].age \in Int /\ job_runs'[l].age \in Int /\ Grace \in Int
  BY DaemonConstants DEF TypeOK, Row
<1>2. Timeout(job_runs[l].cmd) \in Int
  BY TimeoutType
<1>3. Timeout(job_runs'[l].cmd) = Timeout(job_runs[l].cmd)
  BY DEF Timeout
<1>4. ~timeout_disabled(job_runs'[l].cmd)
  BY DEF PastGrace, timeout_disabled
<1>5. QED
  BY <1>1, <1>2, <1>3, <1>4 DEF PastGrace

(***************************************************************************)
(* What the start-up verdict is worth.  It reads a pid, a host and a node  *)
(* off the row and one bit off the process table; this says that what it   *)
(* frees was not being worked on, or was another host's and given up on.   *)
(***************************************************************************)
LEMMA RecoveredIsDead ==
    ASSUME TypeOK, RowsAreRuns, RowsTellTheTruth,
           NEW d \in Daemons, Commands \subseteq todo[d], NEW l \in LogIds, Recovers(d, l), NEW x \in live, x.log = l
    PROVE  PastGrace(l)
<1> DEFINE r == job_runs[l]
           here == Host(d)
           me == Identity[MachineOf[d]]
<1>1. /\ r.status # "none" /\ r.cmd = x.cmd /\ r.host = x.host /\ r.pid = x.pid
      /\ r.host # NoHost /\ r.pid # NoPid
  <2>1. x \in Process /\ x.log # NoLog
    BY DaemonConstants DEF TypeOK
  <2>2. x.host # NoHost /\ x.pid # NoPid
    BY <2>1, DaemonConstants DEF Process
  <2>3. QED
    BY <2>1, <2>2 DEF RowsTellTheTruth
<1>2. r.cmd \in Commands
  BY <1>1 DEF RowsAreRuns
<1>3. startup_verdict(row_metadata(r), here, r.age, Timeout(r.cmd),
                      is_pid_alive(here, r.pid) /\ r.host = here, Grace, me, r.host).reap
  BY <1>2 DEF Recovers
<1>4. /\ claim_owner(row_metadata(r), r.host).pid = r.pid
      /\ claim_owner(row_metadata(r), r.host).host = r.host
      /\ row_metadata(r).claim_node \in {NoNode, r.node}
  BY <1>1 DEF claim_owner, row_metadata, claim_fields, LegacyHost
<1>5. r.host # here
  <2>1. SUFFICES ASSUME r.host = here PROVE FALSE
    OBVIOUS
  <2>2. is_pid_alive(here, r.pid)
    BY <1>1, <2>1 DEF is_pid_alive
  <2>3. QED
    BY <1>1, <1>3, <1>4, <2>1, <2>2 DEF startup_verdict, Keep
<1>6. ~LeftByAnEarlierHostOfThisNode(row_metadata(r), r.host, here, me)
  <2>1. SUFFICES ASSUME LeftByAnEarlierHostOfThisNode(row_metadata(r), r.host, here, me) PROVE FALSE
    OBVIOUS
  <2>2. r.node = me /\ me # NoNode
    BY <1>4, <2>1 DEF LeftByAnEarlierHostOfThisNode
  <2>3. PICK m \in Machines : x.host = hostname[m] /\ r.node \in {NoNode, Identity[m]}
    BY DaemonConstants DEF RowsTellTheTruth
  <2>4. MachineOf[d] \in Machines /\ Identity[m] = Identity[MachineOf[d]]
    BY <2>2, <2>3, DaemonConstants
  <2>5. m = MachineOf[d]
    BY <2>2, <2>4, MachinesAreDistinct
  <2>6. QED
    BY <1>1, <1>5, <2>3, <2>5 DEF Host
<1>7. Timeout(r.cmd) # 0 /\ r.age >= Timeout(r.cmd) + Grace
  BY <1>1, <1>3, <1>4, <1>5, <1>6 DEF startup_verdict, reap_verdict, owner_verdict, Keep, Reap
<1>8. QED
  BY <1>2, <1>7, TimeoutType DEF PastGrace

\* What a step may do to a row that it does not write anew: let it age, or close it when no process
\* works for it or when its grace is over.
KeptOrClosed(l) ==
    /\ job_runs'[l].cmd = job_runs[l].cmd
    /\ job_runs'[l].host = job_runs[l].host
    /\ job_runs'[l].node = job_runs[l].node
    /\ job_runs'[l].pid = job_runs[l].pid
    /\ job_runs'[l].age >= job_runs[l].age
    /\ \/ job_runs'[l].status = job_runs[l].status
       \/ /\ job_runs[l].status # "none"
          /\ job_runs'[l].status \notin {"none", "running"}
          /\ \A x \in live' : x.log = l => PastGrace(l)

\* A step that starts no process and writes no new row keeps the claim.
LEMMA ClosingKeepsClaim ==
    ASSUME ClaimInv, TypeOK', FileIsWhole', live' \subseteq live, UNCHANGED hostname,
           \A d \in Daemons : \A l \in tracked'[d] \cup rows'[d] : job_runs[l].status # "none",
           \A d \in Daemons : /\ pc'[d] = "spawned" => pc[d] = "spawned" /\ child'[d] = child[d]
                              /\ pc'[d] = "recover" => Commands \subseteq todo'[d],
           \A l \in LogIds : KeptOrClosed(l)
    PROVE  ClaimInv'
<1> USE DEF ClaimInv
<1>2. RowsAreRuns'
  <2>1. \A l \in LogIds : /\ job_runs'[l].cmd = job_runs[l].cmd
                          /\ job_runs'[l].status # "none" <=> job_runs[l].status # "none"
    BY DEF KeptOrClosed
  <2>2. QED
    BY <2>1 DEF RowsAreRuns, TypeOK
<1>3. RowsTellTheTruth'
  <2>1. SUFFICES ASSUME NEW x \in live', x.log # NoLog
                 PROVE  /\ job_runs'[x.log].status # "none"
                        /\ job_runs'[x.log].cmd = x.cmd
                        /\ job_runs'[x.log].host = x.host
                        /\ job_runs'[x.log].pid = x.pid
                        /\ \E m \in Machines : /\ x.host = hostname'[m]
                                               /\ job_runs'[x.log].node \in {NoNode, Identity[m]}
    BY DEF RowsTellTheTruth
  <2>2. x \in live /\ x.log \in LogIds
    BY <2>1 DEF TypeOK, Process
  <2>3. KeptOrClosed(x.log)
    BY <2>2
  <2>4. QED
    BY <2>1, <2>2, <2>3 DEF RowsTellTheTruth, KeptOrClosed
<1>4. ChildIsKnown'
  BY DEF ChildIsKnown, Host
<1>5. OneClaim'
  BY DEF OneClaim, KeptOrClosed, Running
<1>6. LiveRunHoldsItsRow'
  <2>1. SUFFICES ASSUME NEW x \in live', x.log # NoLog
                 PROVE  (Running(x.log) \/ PastGrace(x.log))'
    BY DEF LiveRunHoldsItsRow
  <2>2. x \in live /\ x.log \in LogIds
    BY <2>1 DEF TypeOK, Process
  <2>3. KeptOrClosed(x.log) /\ job_runs[x.log].cmd \in Commands
    BY <2>1, <2>2 DEF RowsTellTheTruth, RowsAreRuns
  <2>4. PastGrace(x.log) => PastGrace(x.log)'
    BY <2>2, <2>3, PastGraceStays DEF KeptOrClosed
  <2>5. Running(x.log) \/ PastGrace(x.log)
    BY <2>1, <2>2 DEF LiveRunHoldsItsRow
  <2>6. QED
    BY <2>2, <2>3, <2>4, <2>5 DEF KeptOrClosed, Running
<1>7. WholeFileWasRead'
  BY DEF WholeFileWasRead
<1>8. QED
  BY <1>2, <1>3, <1>4, <1>5, <1>6, <1>7

\* A row that is not written is kept.
LEMMA SameRowIsKept ==
    ASSUME TypeOK, NEW l \in LogIds, job_runs'[l] = job_runs[l]
    PROVE  KeptOrClosed(l)
<1>1. job_runs[l].age \in Int
  BY DaemonConstants DEF TypeOK, Row
<1>2. QED
  BY <1>1 DEF KeptOrClosed

\* update_job_run closes a row as the claim allows, when nobody works for what it closes.
LEMMA ClosedIsKeptOrClosed ==
    ASSUME TypeOK, NEW L, NEW status \in {"done", "error", "timeout"}, job_runs' = Closed(L, status),
           \A l \in L : /\ job_runs[l].status # "none"
                        /\ \A x \in live' : x.log = l => PastGrace(l)
    PROVE  \A l \in LogIds : KeptOrClosed(l)
<1>1. status \in RunStatuses
  BY DEF RunStatuses, ERROR_STATUSES
<1>2. \A l \in LogIds : job_runs[l].age \in Int
  BY DaemonConstants DEF TypeOK, Row
<1>3. QED
  BY <1>1, <1>2, ClosedType DEF KeptOrClosed

\* Writing a row that nothing refers to keeps what the live processes' rows say, whatever it says.
LEMMA InsertIsFresh ==
    ASSUME TypeOK, NEW l \in LogIds, Forgettable(l), NEW x \in live, x.log # NoLog
    PROVE  x.log # l /\ x.log \in LogIds
  BY DEF Forgettable, Alive, TypeOK, Process

\* A child that is launched and not yet recorded disturbs no claim (subprocess.Popen).
LEMMA LaunchKeepsClaim ==
    ASSUME ClaimInv, TypeOK', NEW d \in Daemons, NEW c \in Commands, NEW p \in Pids, Launch(d, c, p)
    PROVE  ClaimInv'
<1> DEFINE new == [host |-> Host(d), pid |-> p, cmd |-> c, log |-> NoLog]
<1> USE DEF ClaimInv
<1>1. /\ live' = live \cup {new} /\ PidFree(Host(d), p)
      /\ UNCHANGED <<job_runs, file, hostname, tracked, rows>>
      /\ child' = [child EXCEPT ![d] = [cmd |-> c, pid |-> p]]
      /\ pc' = [pc EXCEPT ![d] = "spawned"]
  BY DEF Launch
<1>2. FileIsWhole' /\ RowsAreRuns' /\ OneClaim'
  BY <1>1 DEF FileIsWhole, RowsAreRuns, OneClaim, Running
<1>3. RowsTellTheTruth' /\ LiveRunHoldsItsRow'
  BY <1>1 DEF RowsTellTheTruth, LiveRunHoldsItsRow, Running, PastGrace
<1>4. ChildIsKnown'
  <2>1. SUFFICES ASSUME NEW e \in Daemons, pc'[e] = "spawned"
                 PROVE  /\ child'[e].cmd \in Commands /\ child'[e].pid \in Pids
                        /\ \A x \in live' : x.host = Host(e) /\ x.pid = child'[e].pid
                                             => x.cmd = child'[e].cmd
    BY <1>1 DEF ChildIsKnown, Host
  <2>2. CASE e = d
    BY <1>1, <2>2 DEF PidFree, is_pid_alive, TypeOK
  <2>3. CASE e # d
    <3>1. pc[e] = "spawned" /\ child'[e] = child[e]
      BY <1>1, <2>1, <2>3 DEF TypeOK
    <3>2. Host(e) = Host(d) => child[e].pid # p
      BY <1>1 DEF PidFree
    <3>3. QED
      BY <1>1, <3>1, <3>2 DEF ChildIsKnown
  <2>4. QED
    BY <2>2, <2>3
<1>5. WholeFileWasRead'
  BY DEF Launch, WholeFileWasRead, TypeOK
<1>6. QED
  BY <1>2, <1>3, <1>4, <1>5

\* A process of somebody else disturbs no claim, whatever free number it takes.
LEMMA StrangerKeepsClaim ==
    ASSUME ClaimInv, TypeOK', NEW m \in Machines, NEW p \in Pids, StrangerStarts(m, p)
    PROVE  ClaimInv'
<1> DEFINE new == [host |-> hostname[m], pid |-> p, cmd |-> NoCommand, log |-> NoLog]
<1> USE DEF ClaimInv
<1>1. /\ live' = live \cup {new} /\ PidFree(hostname[m], p)
      /\ UNCHANGED <<job_runs, file, hostname, pc, tracked, rows, child>>
  BY DEF StrangerStarts, daemonVars
<1>2. FileIsWhole' /\ RowsAreRuns' /\ OneClaim'
  BY <1>1 DEF FileIsWhole, RowsAreRuns, OneClaim, Running
<1>3. RowsTellTheTruth' /\ LiveRunHoldsItsRow'
  BY <1>1 DEF RowsTellTheTruth, LiveRunHoldsItsRow, Running, PastGrace
<1>4. ChildIsKnown'
  <2>1. \A e \in Daemons : Host(e) = hostname[m] => child[e].pid # p
    BY <1>1 DEF PidFree
  <2>2. QED
    BY <1>1, <2>1 DEF ChildIsKnown, Host
<1>5. WholeFileWasRead'
  BY DEF StrangerStarts, daemonVars, WholeFileWasRead
<1>6. QED
  BY <1>2, <1>3, <1>4, <1>5

\* The error row of a command that could not be started disturbs no claim (record_start_failure).
LEMMA ErrorRowKeepsClaim ==
    ASSUME ClaimInv, TypeOK', NEW d \in Daemons, NEW c \in Commands, NEW l \in LogIds,
           insert_job_run(l, c, Host(d), NoNode, NoPid, "error"), Forgettable(l),
           UNCHANGED <<live, file, hostname, tracked, rows>>,
           \A e \in Daemons : /\ pc'[e] = "spawned" => pc[e] = "spawned" /\ child'[e] = child[e]
                              /\ pc'[e] = "recover" => pc[e] = "recover" /\ todo'[e] = todo[e]
    PROVE  ClaimInv'
<1> USE DEF ClaimInv
<1>2. Host(d) \in Hosts /\ "error" \in RunStatuses
  BY DaemonConstants DEF TypeOK, Host, RunStatuses, ERROR_STATUSES
<1>3. /\ \A k \in LogIds : k # l => job_runs'[k] = job_runs[k]
      /\ job_runs'[l].status = "error" /\ job_runs'[l].cmd = c
  BY <1>2, InsertType
<1>4. FileIsWhole' /\ ChildIsKnown'
  BY DEF FileIsWhole, ChildIsKnown, Host
<1>5. RowsAreRuns'
  <2>1. \A e \in Daemons : tracked[e] \cup rows[e] \subseteq LogIds
    BY DEF TypeOK
  <2>2. QED
    BY <1>3, <2>1 DEF RowsAreRuns
<1>6. OneClaim'
  BY <1>3 DEF OneClaim, Running
<1>7. \A x \in live : x.log # NoLog => job_runs'[x.log] = job_runs[x.log]
  BY <1>3, InsertIsFresh
<1>8. RowsTellTheTruth' /\ LiveRunHoldsItsRow'
  BY <1>7 DEF RowsTellTheTruth, LiveRunHoldsItsRow, Running, PastGrace
<1>9. WholeFileWasRead'
  BY DEF WholeFileWasRead
<1>10. QED
  BY <1>4, <1>5, <1>6, <1>8, <1>9

\* The insert that the unique index lets through: the child becomes a recorded run.
LEMMA RecordKeepsClaim ==
    ASSUME ClaimInv, TypeOK', NEW d \in Daemons, NEW l \in LogIds, Record(d, l)
    PROVE  ClaimInv'
<1> DEFINE c == child[d].cmd
           p == child[d].pid
           n == Identity[MachineOf[d]]
           Mine(x) == x.host = Host(d) /\ x.pid = p
<1> USE DEF ClaimInv
<1>1. /\ pc[d] = "spawned" /\ (c \in Async \/ ~claim_held(c, Host(d))) /\ Forgettable(l)
      /\ insert_job_run(l, c, Host(d), n, p, "running")
      /\ live' = {IF Mine(x) THEN [x EXCEPT !.log = l] ELSE x : x \in live}
      /\ tracked' = [tracked EXCEPT ![d] = @ \cup {l}]
      /\ child' = [child EXCEPT ![d] = NoChild]
      /\ pc' = [pc EXCEPT ![d] = "scan"]
      /\ UNCHANGED <<file, hostname, rows>>
  BY DEF Record
<1>2. /\ c \in Commands /\ p \in Pids /\ Host(d) \in Hosts /\ n \in Nodes \cup {NoNode}
      /\ MachineOf[d] \in Machines /\ "running" \in RunStatuses
      /\ \A x \in live : Mine(x) => x.cmd = c
  BY <1>1, DaemonConstants DEF TypeOK, ChildIsKnown, Host, RunStatuses
<1>3. /\ \A k \in LogIds : k # l => job_runs'[k] = job_runs[k]
      /\ job_runs'[l].status = "running" /\ job_runs'[l].cmd = c /\ job_runs'[l].host = Host(d)
      /\ job_runs'[l].pid = p /\ job_runs'[l].node \in {NoNode, n}
  BY <1>1, <1>2, InsertType
<1>4. FileIsWhole'
  BY <1>1 DEF FileIsWhole
<1>5. RowsAreRuns'
  <2>1. \A k \in LogIds : job_runs'[k].status # "none" => job_runs'[k].cmd \in Commands
    BY <1>2, <1>3 DEF RowsAreRuns
  <2>2. \A e \in Daemons : tracked'[e] \cup rows'[e] \subseteq tracked[e] \cup rows[e] \cup {l}
    BY <1>1 DEF TypeOK
  <2>3. \A e \in Daemons : tracked[e] \cup rows[e] \subseteq LogIds
    BY DEF TypeOK
  <2>4. \A e \in Daemons : \A k \in tracked'[e] \cup rows'[e] : job_runs'[k].status # "none"
    BY <1>3, <2>2, <2>3 DEF RowsAreRuns
  <2>5. QED
    BY <2>1, <2>4 DEF RowsAreRuns
<1>6. OneClaim'
  <2>1. \A k \in LogIds : c \notin Async /\ Running(k) /\ job_runs[k].cmd = c
                           => job_runs[k].host # Host(d)
    BY <1>1 DEF claim_held
  <2>2. QED
    BY <1>2, <1>3, <2>1 DEF OneClaim, Running
<1>7. \A y \in live' : y.log # NoLog =>
          \/ y \in live /\ job_runs'[y.log] = job_runs[y.log]
          \/ y.log = l /\ y.host = Host(d) /\ y.pid = p /\ y.cmd = c
  <2>1. SUFFICES ASSUME NEW x \in live,
                        NEW y, y = IF Mine(x) THEN [x EXCEPT !.log = l] ELSE x, y.log # NoLog
                 PROVE  \/ y \in live /\ job_runs'[y.log] = job_runs[y.log]
                        \/ y.log = l /\ y.host = Host(d) /\ y.pid = p /\ y.cmd = c
    BY <1>1
  <2>2. x \in Process
    BY DEF TypeOK
  <2>3. CASE Mine(x)
    BY <1>2, <2>1, <2>2, <2>3 DEF Process
  <2>4. CASE ~Mine(x)
    <3>1. y = x
      BY <2>1, <2>4
    <3>2. QED
      BY <1>1, <1>3, <2>1, <3>1, InsertIsFresh
  <2>5. QED
    BY <2>3, <2>4
<1>8. RowsTellTheTruth'
  <2>1. SUFFICES ASSUME NEW y \in live', y.log # NoLog
                 PROVE  /\ job_runs'[y.log].status # "none"
                        /\ job_runs'[y.log].cmd = y.cmd
                        /\ job_runs'[y.log].host = y.host
                        /\ job_runs'[y.log].pid = y.pid
                        /\ \E m \in Machines : /\ y.host = hostname[m]
                                               /\ job_runs'[y.log].node \in {NoNode, Identity[m]}
    BY <1>1 DEF RowsTellTheTruth
  <2>2. CASE y \in live /\ job_runs'[y.log] = job_runs[y.log]
    BY <2>1, <2>2 DEF RowsTellTheTruth
  <2>3. CASE y.log = l /\ y.host = Host(d) /\ y.pid = p /\ y.cmd = c
    <3>1. MachineOf[d] \in Machines /\ y.host = hostname[MachineOf[d]]
      BY <1>2, <2>3 DEF Host
    <3>2. QED
      BY <1>3, <2>3, <3>1
  <2>4. QED
    BY <1>7, <2>1, <2>2, <2>3
<1>9. LiveRunHoldsItsRow'
  <2>1. SUFFICES ASSUME NEW y \in live', y.log # NoLog
                 PROVE  (Running(y.log) \/ PastGrace(y.log))'
    BY DEF LiveRunHoldsItsRow
  <2>2. CASE y \in live /\ job_runs'[y.log] = job_runs[y.log]
    BY <2>1, <2>2 DEF LiveRunHoldsItsRow, Running, PastGrace
  <2>3. CASE y.log = l
    BY <1>3, <2>3 DEF Running
  <2>4. QED
    BY <1>7, <2>1, <2>2, <2>3
<1>10. ChildIsKnown'
  <2>1. \A e \in Daemons : pc'[e] = "spawned" => pc[e] = "spawned" /\ child'[e] = child[e]
    BY <1>1 DEF TypeOK
  <2>2. \A y \in live' : \E x \in live : y.host = x.host /\ y.pid = x.pid /\ y.cmd = x.cmd
    <3>1. \A x \in live : LET y == [x EXCEPT !.log = l]
                          IN  y.host = x.host /\ y.pid = x.pid /\ y.cmd = x.cmd
      BY DEF TypeOK, Process
    <3>2. QED
      BY <1>1, <3>1
  <2>3. QED
    BY <1>1, <2>1, <2>2 DEF ChildIsKnown, Host
<1>11. WholeFileWasRead'
  BY DEF Record, WholeFileWasRead, TypeOK
<1>12. QED
  BY <1>4, <1>5, <1>6, <1>8, <1>9, <1>10, <1>11

\* A reboot takes the processes of its machine with it, so those that are left keep their names.
LEMMA RebootKeepsClaim ==
    ASSUME ClaimInv, TypeOK', NEW m \in Machines, NEW h \in Hosts, Reboot(m, h)
    PROVE  ClaimInv'
<1> USE DEF ClaimInv
<1>1. /\ hostname' = [hostname EXCEPT ![m] = h]
      /\ live' = {x \in live : x.host # hostname[m]}
      /\ UNCHANGED <<job_runs, file>>
      /\ \A d \in Daemons : \/ MachineOf[d] = m /\ pc'[d] = "down" /\ tracked'[d] = {} /\ rows'[d] = {}
                           \/ /\ MachineOf[d] # m /\ pc'[d] = pc[d] /\ tracked'[d] = tracked[d]
                              /\ rows'[d] = rows[d] /\ child'[d] = child[d]
  BY DEF Reboot, Forget
<1>2. FileIsWhole' /\ RowsAreRuns' /\ OneClaim'
  BY <1>1 DEF FileIsWhole, RowsAreRuns, OneClaim, Running
<1>3. RowsTellTheTruth'
  <2>1. SUFFICES ASSUME NEW x \in live', x.log # NoLog
                 PROVE  /\ job_runs[x.log].status # "none"
                        /\ job_runs[x.log].cmd = x.cmd
                        /\ job_runs[x.log].host = x.host
                        /\ job_runs[x.log].pid = x.pid
                        /\ \E k \in Machines : /\ x.host = hostname'[k]
                                               /\ job_runs[x.log].node \in {NoNode, Identity[k]}
    BY <1>1 DEF RowsTellTheTruth
  <2>2. x \in live /\ x.host # hostname[m]
    BY <1>1
  <2>3. PICK k \in Machines : x.host = hostname[k] /\ job_runs[x.log].node \in {NoNode, Identity[k]}
    BY <2>1, <2>2 DEF RowsTellTheTruth
  <2>4. hostname'[k] = hostname[k]
    BY <1>1, <2>2, <2>3 DEF TypeOK
  <2>5. QED
    BY <2>1, <2>2, <2>3, <2>4 DEF RowsTellTheTruth
<1>4. LiveRunHoldsItsRow'
  BY <1>1 DEF LiveRunHoldsItsRow, Running, PastGrace
<1>5. ChildIsKnown'
  <2>1. \A d \in Daemons : pc'[d] = "spawned" =>
            /\ pc[d] = "spawned" /\ child'[d] = child[d]
            /\ hostname'[MachineOf[d]] = hostname[MachineOf[d]]
    BY <1>1, DaemonConstants DEF TypeOK
  <2>2. QED
    BY <1>1, <2>1 DEF ChildIsKnown, Host
<1>6. WholeFileWasRead'
  BY DEF Reboot, Forget, WholeFileWasRead
<1>7. QED
  BY <1>2, <1>3, <1>4, <1>5, <1>6

\* The claim holds before anything runs.
LEMMA ClaimInit == ASSUME Init PROVE ClaimInv
  BY TypeInit DEF Init, ClaimInv, FileIsWhole, WholeFileWasRead, RowsAreRuns, RowsTellTheTruth, ChildIsKnown, OneClaim,
                  LiveRunHoldsItsRow, NoRow, Running

\* What has been stopped stays stopped: most steps start nothing and put nothing in a shutdown's hands.
LEMMA StoppedStay ==
    ASSUME StoppedAreGone, live' \subseteq live,
           \A e \in Daemons : pc'[e] = "stopping" =>
               pc[e] = "stopping" /\ tracked'[e] \ rows'[e] \subseteq tracked[e] \ rows[e]
    PROVE  StoppedAreGone'
  BY DEF StoppedAreGone

LEMMA StoppedNext == ASSUME TypeOK, StoppedAreGone, [Next]_vars PROVE StoppedAreGone'
<1> USE DEF TypeOK
<1>n. NoLog \notin LogIds
  BY DaemonConstants
<1>1. ASSUME NEW d \in Daemons, Start(d) PROVE StoppedAreGone'
  BY <1>1, StoppedStay DEF Start
<1>2. ASSUME NEW d \in Daemons, NEW l \in LogIds, RecoverRow(d, l) PROVE StoppedAreGone'
  <2>1. UNCHANGED <<live, pc, tracked>> /\ pc[d] = "recover" /\ rows' = [rows EXCEPT ![d] = @ \ {l}]
    BY <1>2 DEF RecoverRow
  <2>2. QED
    BY <2>1, StoppedStay
<1>3. ASSUME NEW d \in Daemons, NEW l \in LogIds,
             CollectStillRunning(d, l) \/ CollectTimedOut(d, l) \/ \E s \in {"done", "error"} : CollectExited(d, l, s)
      PROVE  StoppedAreGone'
  <2>1. /\ UNCHANGED pc /\ pc[d] = "collect" /\ live' \subseteq live
        /\ \A e \in Daemons : e # d => tracked'[e] = tracked[e] /\ rows'[e] = rows[e]
    BY <1>3 DEF CollectStillRunning, CollectTimedOut, CollectExited
  <2>2. QED
    BY <2>1, StoppedStay
<1>4. ASSUME NEW d \in Daemons,
             Snapshot(d) \/ \E c \in Commands : Skip(d, c) \/ LaunchFailsUnrecorded(d, c)
      PROVE  StoppedAreGone'
  BY <1>4, StoppedStay DEF Snapshot, Skip, LaunchFailsUnrecorded
<1>5. ASSUME NEW d \in Daemons, NEW c \in Commands, NEW p \in Pids, Launch(d, c, p) PROVE StoppedAreGone'
  <2>1. /\ live' = live \cup {[host |-> Host(d), pid |-> p, cmd |-> c, log |-> NoLog]}
        /\ pc' = [pc EXCEPT ![d] = "spawned"] /\ UNCHANGED <<tracked, rows>>
    BY <1>5 DEF Launch
  <2>2. QED
    BY <2>1, <1>n DEF StoppedAreGone
<1>6. ASSUME NEW d \in Daemons, NEW c \in Commands, NEW l \in LogIds, LaunchFails(d, c, l) PROVE StoppedAreGone'
  BY <1>6, StoppedStay DEF LaunchFails
<1>7. ASSUME NEW d \in Daemons, NEW l \in LogIds, Record(d, l) PROVE StoppedAreGone'
  <2>1. /\ Forgettable(l) /\ pc' = [pc EXCEPT ![d] = "scan"] /\ tracked' = [tracked EXCEPT ![d] = @ \cup {l}]
        /\ UNCHANGED rows
    BY <1>7 DEF Record
  <2>2. \A y \in live' : y.log = l \/ y \in live
    <3>1. \A x \in live : [x EXCEPT !.log = l].log = l
      BY DEF Process
    <3>2. live' = {IF x.host = Host(d) /\ x.pid = child[d].pid THEN [x EXCEPT !.log = l] ELSE x : x \in live}
      BY <1>7 DEF Record
    <3>3. ASSUME NEW y \in live' PROVE y.log = l \/ y \in live
      <4>1. PICK x \in live : y = IF x.host = Host(d) /\ x.pid = child[d].pid THEN [x EXCEPT !.log = l] ELSE x
        BY <3>2, <3>3
      <4>2. QED
        BY <3>1, <4>1
    <3>4. QED
      BY <3>3
  <2>3. \A e \in Daemons : l \notin tracked[e]
    BY <2>1 DEF Forgettable
  <2>4. \A e \in Daemons : pc'[e] = "stopping" => pc[e] = "stopping" /\ tracked'[e] = tracked[e]
    BY <2>1
  <2>5. QED
    BY <2>1, <2>2, <2>3, <2>4 DEF StoppedAreGone
<1>8. ASSUME NEW d \in Daemons, Refused(d) \/ RecordErrsUnrecorded(d) \/ \E l \in LogIds : RecordErrs(d, l)
      PROVE  StoppedAreGone'
  <2>1. /\ live' \subseteq live /\ pc' = [pc EXCEPT ![d] = "scan"] /\ UNCHANGED <<tracked, rows>>
    BY <1>8 DEF Refused, RecordErrsUnrecorded, RecordErrs
  <2>2. QED
    BY <2>1, StoppedStay
<1>9. ASSUME NEW d \in Daemons, RecordFails(d) \/ ScanFails(d) \/ EndScan(d) PROVE StoppedAreGone'
  <2>1. /\ UNCHANGED <<live, tracked>> /\ pc' = [pc EXCEPT ![d] = "collect"]
        /\ \A e \in Daemons : e # d => rows'[e] = rows[e]
    BY <1>9 DEF RecordFails, ScanFails, EndScan, NextScan
  <2>2. QED
    BY <2>1, StoppedStay
<1>10. ASSUME NEW d \in Daemons, StopBegins(d) PROVE StoppedAreGone'
  BY <1>10 DEF StopBegins, StoppedAreGone
<1>11. ASSUME NEW d \in Daemons, NEW l \in LogIds, StopChild(d, l) PROVE StoppedAreGone'
  <2>1. /\ live' = live \ Stopped({l}) /\ UNCHANGED <<pc, tracked>> /\ rows' = [rows EXCEPT ![d] = @ \ {l}]
    BY <1>11 DEF StopChild
  <2>2. \A x \in live' : x \in live /\ x.log # l
    BY <2>1 DEF Stopped
  <2>3. QED
    BY <2>1, <2>2 DEF StoppedAreGone
<1>12. ASSUME NEW d \in Daemons, NEW l \in LogIds, CloseStopped(d, l) PROVE StoppedAreGone'
  <2>1. UNCHANGED <<live, pc, rows>> /\ tracked' = [tracked EXCEPT ![d] = @ \ {l}]
    BY <1>12 DEF CloseStopped
  <2>2. QED
    BY <2>1, StoppedStay
<1>13. ASSUME NEW D, Forget(D), live' \subseteq live PROVE StoppedAreGone'
  <2>1. \A e \in Daemons : \/ pc'[e] = "down"
                           \/ pc'[e] = pc[e] /\ tracked'[e] = tracked[e] /\ rows'[e] = rows[e]
    BY <1>13 DEF Forget
  <2>2. QED
    BY <1>13, <2>1, StoppedStay
<1>14. ASSUME NEW d \in Daemons, StopEnds(d) \/ Crash(d) PROVE StoppedAreGone'
  BY <1>13, <1>14 DEF StopEnds, Crash, Outlives
<1>15. ASSUME NEW m \in Machines, NEW h \in Hosts, Reboot(m, h) PROVE StoppedAreGone'
  <2>1. Forget({d \in Daemons : MachineOf[d] = m}) /\ live' \subseteq live
    BY <1>15 DEF Reboot
  <2>2. QED
    BY <1>13, <2>1
<1>16. ASSUME NEW m \in Machines, NEW p \in Pids, StrangerStarts(m, p) PROVE StoppedAreGone'
  <2>1. /\ live' = live \cup {[host |-> hostname[m], pid |-> p, cmd |-> NoCommand, log |-> NoLog]}
        /\ UNCHANGED <<pc, tracked, rows>>
    BY <1>16 DEF StrangerStarts, daemonVars
  <2>2. QED
    BY <2>1, <1>n DEF StoppedAreGone
<1>17. ASSUME \/ \E x \in live : ProcessExits(x)
              \/ \E c \in Commands, state \in {"active", "inactive", "absent"} : EditFile(c, state)
              \/ Tick
              \/ UNCHANGED vars
       PROVE  StoppedAreGone'
  <2>1. live' \subseteq live /\ UNCHANGED <<pc, tracked, rows>>
    BY <1>17 DEF ProcessExits, EditFile, Tick, daemonVars, vars
  <2>2. QED
    BY <2>1, StoppedStay
<1>18. QED
  BY <1>1, <1>2, <1>3, <1>4, <1>5, <1>6, <1>7, <1>8, <1>9, <1>10, <1>11, <1>12, <1>14, <1>15, <1>16, <1>17
     DEF Next, Work, Disturb

\* Every step keeps the claim that leaves every command in the file.
LEMMA ClaimNext == ASSUME ClaimInv, StoppedAreGone, [Next]_vars, FileIsWhole' PROVE ClaimInv'
<1>0. TypeOK /\ TypeOK' /\ FileIsWhole'
  BY TypeNext DEF ClaimInv
<1>1. \A d \in Daemons : \A l \in tracked[d] \cup rows[d] : l \in LogIds /\ job_runs[l].status # "none"
  BY <1>0 DEF ClaimInv, RowsAreRuns, TypeOK
<1>r. \A d \in Daemons : pc[d] = "recover" => Commands \subseteq todo[d]
  BY DEF ClaimInv, WholeFileWasRead
<1>2. UNCHANGED job_runs => \A l \in LogIds : KeptOrClosed(l)
  BY <1>0, SameRowIsKept
<1>3. ASSUME NEW d \in Daemons, Start(d) PROVE ClaimInv'
  <2>1. \A e \in Daemons : \A l \in tracked'[e] \cup rows'[e] : job_runs[l].status # "none"
    BY <1>0, <1>1, <1>3 DEF Start, Running, TypeOK
  <2>2. \A e \in Daemons : /\ pc'[e] = "spawned" => pc[e] = "spawned" /\ child'[e] = child[e]
                           /\ pc'[e] = "recover" => Commands \subseteq todo'[e]
    BY <1>0, <1>r, <1>3 DEF Start, TypeOK, ClaimInv, FileIsWhole
  <2>3. live' \subseteq live /\ UNCHANGED <<job_runs, file, hostname>>
    BY <1>3 DEF Start
  <2>4. QED
    BY <1>0, <1>2, <2>1, <2>2, <2>3, ClosingKeepsClaim
<1>4. ASSUME NEW d \in Daemons, NEW l \in LogIds, RecoverRow(d, l) PROVE ClaimInv'
  <2>1. /\ l \in rows[d] /\ pc[d] = "recover" /\ UNCHANGED <<live, hostname, pc, tracked, todo, child>>
        /\ \A e \in Daemons : tracked'[e] \cup rows'[e] \subseteq tracked[e] \cup rows[e]
    BY <1>0, <1>4 DEF RecoverRow, TypeOK
  <2>2. CASE ~Recovers(d, l)
    <3>1. UNCHANGED job_runs
      BY <1>4, <2>2 DEF RecoverRow
    <3>2. QED
      BY <1>0, <1>1, <1>r, <1>2, <2>1, <3>1, ClosingKeepsClaim
  <2>3. CASE Recovers(d, l)
    <3>1. job_runs' = Closed({l}, "timeout")
      BY <1>4, <2>3 DEF RecoverRow
    <3>2. \A x \in live' : x.log = l => PastGrace(l)
      BY <1>0, <1>r, <2>1, <2>3, RecoveredIsDead DEF ClaimInv
    <3>3. \A k \in LogIds : KeptOrClosed(k)
      BY <1>0, <1>1, <2>1, <3>1, <3>2, ClosedIsKeptOrClosed
    <3>4. QED
      BY <1>0, <1>1, <1>r, <2>1, <3>3, ClosingKeepsClaim
  <2>4. QED
    BY <2>2, <2>3
<1>5. ASSUME NEW d \in Daemons, NEW l \in LogIds, CollectStillRunning(d, l) PROVE ClaimInv'
  <2>1. /\ UNCHANGED <<job_runs, live, hostname, pc, todo, child>>
        /\ \A e \in Daemons : tracked'[e] \cup rows'[e] \subseteq tracked[e] \cup rows[e]
    BY <1>0, <1>5 DEF CollectStillRunning, TypeOK
  <2>2. QED
    BY <1>0, <1>1, <1>r, <1>2, <2>1, ClosingKeepsClaim
<1>6. ASSUME NEW d \in Daemons, NEW l \in LogIds, CollectTimedOut(d, l) PROVE ClaimInv'
  <2>1. /\ l \in rows[d] /\ job_runs' = Closed({l}, "timeout") /\ live' = live \ Stopped({l})
        /\ UNCHANGED <<hostname, pc, todo, child>>
        /\ \A e \in Daemons : tracked'[e] \cup rows'[e] \subseteq tracked[e] \cup rows[e]
    BY <1>0, <1>6 DEF CollectTimedOut, TypeOK
  <2>2. \A x \in live' : x.log # l
    BY <2>1 DEF Stopped
  <2>3. \A k \in LogIds : KeptOrClosed(k)
    <3>1. \A k \in {l} : /\ job_runs[k].status # "none"
                         /\ \A x \in live' : x.log = k => PastGrace(k)
      BY <1>1, <2>1, <2>2
    <3>2. job_runs' = Closed({l}, "timeout")
      BY <2>1
    <3>3. QED
      BY <1>0, <3>1, <3>2, ClosedIsKeptOrClosed
  <2>4. QED
    BY <1>0, <1>1, <1>r, <2>1, <2>3, ClosingKeepsClaim
<1>7. ASSUME NEW d \in Daemons, NEW l \in LogIds, NEW status \in {"done", "error"},
             CollectExited(d, l, status)
      PROVE  ClaimInv'
  <2>1. /\ l \in rows[d] /\ job_runs' = Closed({l}, status) /\ ~Alive(l)
        /\ UNCHANGED <<live, hostname, pc, todo, child>>
        /\ \A e \in Daemons : tracked'[e] \cup rows'[e] \subseteq tracked[e] \cup rows[e]
    BY <1>0, <1>7 DEF CollectExited, TypeOK
  <2>2. \A x \in live' : x.log # l
    BY <2>1 DEF Alive
  <2>3. \A k \in LogIds : KeptOrClosed(k)
    <3>1. \A k \in {l} : /\ job_runs[k].status # "none"
                         /\ \A x \in live' : x.log = k => PastGrace(k)
      BY <1>1, <2>1, <2>2
    <3>2. job_runs' = Closed({l}, status)
      BY <2>1
    <3>3. QED
      BY <1>0, <3>1, <3>2, ClosedIsKeptOrClosed
  <2>4. QED
    BY <1>0, <1>1, <1>r, <2>1, <2>3, ClosingKeepsClaim
<1>8. ASSUME NEW d \in Daemons,
             Snapshot(d) \/ \E c \in Commands : Skip(d, c) \/ LaunchFailsUnrecorded(d, c)
      PROVE  ClaimInv'
  <2>1. /\ UNCHANGED <<job_runs, live, file, hostname, tracked, rows, child>>
        /\ \A e \in Daemons : /\ pc'[e] = "spawned" => pc[e] = "spawned"
                              /\ pc'[e] = "recover" => pc[e] = "recover" /\ todo'[e] = todo[e]
    BY <1>0, <1>8 DEF Snapshot, Skip, LaunchFailsUnrecorded, MayLaunch, TypeOK
  <2>2. QED
    BY <1>0, <1>1, <1>r, <1>2, <2>1, ClosingKeepsClaim
<1>9. ASSUME NEW d \in Daemons, Refused(d) PROVE ClaimInv'
  <2>1. /\ live' \subseteq live /\ UNCHANGED <<job_runs, file, hostname, tracked, rows>>
        /\ child' = [child EXCEPT ![d] = NoChild] /\ pc' = [pc EXCEPT ![d] = "scan"]
        /\ UNCHANGED todo
    BY <1>9 DEF Refused
  <2>2. \A e \in Daemons : /\ pc'[e] = "spawned" => pc[e] = "spawned" /\ child'[e] = child[e]
                           /\ pc'[e] = "recover" => pc[e] = "recover"
    BY <1>0, <2>1 DEF TypeOK
  <2>3. QED
    BY <1>0, <1>1, <1>r, <1>2, <2>1, <2>2, ClosingKeepsClaim
<1>10. ASSUME NEW d \in Daemons, RecordFails(d) \/ ScanFails(d) \/ EndScan(d) PROVE ClaimInv'
  <2>1. /\ NextScan(d) /\ UNCHANGED <<job_runs, live, file, hostname, tracked>>
        /\ child' \in {child, [child EXCEPT ![d] = NoChild]}
    BY <1>10 DEF RecordFails, ScanFails, EndScan
  <2>2. /\ pc' = [pc EXCEPT ![d] = "collect"] /\ rows' = [rows EXCEPT ![d] = tracked[d]]
        /\ todo' = [todo EXCEPT ![d] = {}]
    BY <2>1 DEF NextScan
  <2>3. \A e \in Daemons : /\ pc'[e] = "spawned" => pc[e] = "spawned" /\ child'[e] = child[e]
                           /\ pc'[e] = "recover" => pc[e] = "recover" /\ todo'[e] = todo[e]
                           /\ tracked'[e] \cup rows'[e] \subseteq tracked[e] \cup rows[e]
    BY <1>0, <2>1, <2>2 DEF TypeOK
  <2>4. QED
    BY <1>0, <1>1, <1>r, <1>2, <2>1, <2>3, ClosingKeepsClaim
<1>11. ASSUME NEW d \in Daemons, StopBegins(d) \/ StopEnds(d) \/ RecordErrsUnrecorded(d) PROVE ClaimInv'
  <2>1. live' \subseteq live /\ UNCHANGED <<job_runs, file, hostname>>
    BY <1>11 DEF StopBegins, StopEnds, RecordErrsUnrecorded, Outlives
  <2>2. \A e \in Daemons : /\ pc'[e] = "spawned" => pc[e] = "spawned" /\ child'[e] = child[e]
                           /\ pc'[e] = "recover" => pc[e] = "recover" /\ todo'[e] = todo[e]
                           /\ tracked'[e] \cup rows'[e] \subseteq tracked[e] \cup rows[e]
    <3>1. CASE StopBegins(d)
      BY <1>0, <3>1 DEF StopBegins, TypeOK
    <3>2. CASE StopEnds(d)
      BY <3>2 DEF StopEnds, Forget
    <3>3. CASE RecordErrsUnrecorded(d)
      BY <1>0, <3>3 DEF RecordErrsUnrecorded, TypeOK
    <3>4. QED
      BY <1>11, <3>1, <3>2, <3>3
  <2>3. QED
    BY <1>0, <1>1, <1>r, <1>2, <2>1, <2>2, ClosingKeepsClaim
<1>11a. ASSUME NEW d \in Daemons, NEW l \in LogIds, StopChild(d, l) PROVE ClaimInv'
  <2>1. /\ live' \subseteq live /\ UNCHANGED <<job_runs, file, hostname, pc, todo, child>>
        /\ \A e \in Daemons : tracked'[e] \cup rows'[e] \subseteq tracked[e] \cup rows[e]
    BY <1>0, <1>11a DEF StopChild, TypeOK
  <2>2. QED
    BY <1>0, <1>1, <1>r, <1>2, <2>1, ClosingKeepsClaim
<1>11b. ASSUME NEW d \in Daemons, NEW l \in LogIds, CloseStopped(d, l) PROVE ClaimInv'
  <2>1. /\ pc[d] = "stopping" /\ l \in tracked[d] /\ l \notin rows[d]
        /\ UNCHANGED <<live, file, hostname, pc, todo, child>>
        /\ \A e \in Daemons : tracked'[e] \cup rows'[e] \subseteq tracked[e] \cup rows[e]
    BY <1>0, <1>11b DEF CloseStopped, TypeOK
  <2>2. \A x \in live' : x.log # l
    BY <2>1 DEF StoppedAreGone
  <2>3. \A k \in LogIds : KeptOrClosed(k)
    <3>1. CASE job_runs' = Closed({l}, "timeout")
      <4>1. \A k \in {l} : /\ job_runs[k].status # "none"
                           /\ \A x \in live' : x.log = k => PastGrace(k)
        BY <1>1, <2>1, <2>2
      <4>2. QED
        BY <1>0, <3>1, <4>1, ClosedIsKeptOrClosed
    <3>2. CASE UNCHANGED job_runs
      BY <1>2, <3>2
    <3>3. QED
      BY <1>11b, <3>1, <3>2 DEF CloseStopped
  <2>4. QED
    BY <1>0, <1>1, <1>r, <2>1, <2>3, ClosingKeepsClaim
<1>12. ASSUME NEW d \in Daemons, Crash(d) PROVE ClaimInv'
  <2>1. \A e \in Daemons : /\ pc'[e] = "spawned" => pc[e] = "spawned" /\ child'[e] = child[e]
                           /\ pc'[e] = "recover" => pc[e] = "recover" /\ todo'[e] = todo[e]
                           /\ tracked'[e] \cup rows'[e] \subseteq tracked[e] \cup rows[e]
    BY <1>12 DEF Crash, Forget
  <2>2. UNCHANGED <<job_runs, live, file, hostname>>
    BY <1>12 DEF Crash
  <2>3. QED
    BY <1>0, <1>1, <1>r, <1>2, <2>1, <2>2, ClosingKeepsClaim
<1>13. ASSUME NEW x \in live, ProcessExits(x) PROVE ClaimInv'
  <2>1. live' \subseteq live /\ UNCHANGED <<job_runs, file, hostname, pc, tracked, rows, todo, child>>
    BY <1>13 DEF ProcessExits, daemonVars
  <2>2. QED
    BY <1>0, <1>1, <1>r, <1>2, <2>1, ClosingKeepsClaim
<1>14. ASSUME Tick PROVE ClaimInv'
  <2>1. /\ \A l \in LogIds : job_runs[l] \in Row /\ job_runs'[l] = Older(job_runs[l])
        /\ UNCHANGED <<live, file, hostname, pc, tracked, rows, todo, child>>
    BY <1>0, <1>14 DEF Tick, daemonVars, TypeOK
  <2>2. \A l \in LogIds : KeptOrClosed(l)
    BY <2>1, OlderType DEF KeptOrClosed
  <2>3. QED
    BY <1>0, <1>1, <1>r, <2>1, <2>2, ClosingKeepsClaim
<1>15. CASE UNCHANGED vars
  <2>1. UNCHANGED <<job_runs, live, file, hostname, pc, tracked, rows, todo, child>>
    BY <1>15 DEF vars
  <2>2. QED
    BY <1>0, <1>1, <1>r, <1>2, <2>1, ClosingKeepsClaim
<1>16. ASSUME NEW c \in Commands, NEW state \in {"active", "inactive", "absent"}, EditFile(c, state)
       PROVE  ClaimInv'
  <2>1. UNCHANGED <<job_runs, live, hostname, pc, tracked, rows, todo, child>>
    BY <1>16 DEF EditFile, daemonVars
  <2>2. QED
    BY <1>0, <1>1, <1>r, <1>2, <2>1, ClosingKeepsClaim
<1>17. CASE \E d \in Daemons, c \in Commands, p \in Pids : Launch(d, c, p)
  BY <1>0, <1>17, LaunchKeepsClaim
<1>18. ASSUME NEW d \in Daemons, NEW c \in Commands, NEW l \in LogIds, LaunchFails(d, c, l) PROVE ClaimInv'
  <2>1. /\ insert_job_run(l, c, Host(d), NoNode, NoPid, "error") /\ Forgettable(l)
        /\ UNCHANGED <<live, file, hostname, pc, tracked, rows, child>> /\ pc[d] = "scan"
        /\ todo' = [todo EXCEPT ![d] = @ \ {c}]
    BY <1>18 DEF LaunchFails, MayLaunch
  <2>2. \A e \in Daemons : pc'[e] = "recover" => todo'[e] = todo[e]
    BY <1>0, <2>1 DEF TypeOK
  <2>3. QED
    BY <1>0, <2>1, <2>2, ErrorRowKeepsClaim
<1>18a. ASSUME NEW d \in Daemons, NEW l \in LogIds, RecordErrs(d, l) PROVE ClaimInv'
  <2>1. /\ insert_job_run(l, child[d].cmd, Host(d), NoNode, NoPid, "error") /\ Forgettable(l)
        /\ UNCHANGED <<live, file, hostname, tracked, rows, todo>>
        /\ child[d].cmd \in Commands
    BY <1>18a DEF RecordErrs, ClaimInv, ChildIsKnown
  <2>2. \A e \in Daemons : /\ pc'[e] = "spawned" => pc[e] = "spawned" /\ child'[e] = child[e]
                           /\ pc'[e] = "recover" => pc[e] = "recover"
    BY <1>0, <1>18a DEF RecordErrs, TypeOK
  <2>3. QED
    BY <1>0, <2>1, <2>2, ErrorRowKeepsClaim
<1>19. CASE \E d \in Daemons, l \in LogIds : Record(d, l)
  BY <1>0, <1>19, RecordKeepsClaim
<1>20. CASE \E m \in Machines, h \in Hosts : Reboot(m, h)
  BY <1>0, <1>20, RebootKeepsClaim
<1>21. CASE \E m \in Machines, p \in Pids : StrangerStarts(m, p)
  BY <1>0, <1>21, StrangerKeepsClaim
<1>22. QED
  BY <1>3, <1>4, <1>5, <1>6, <1>7, <1>8, <1>9, <1>10, <1>11, <1>11a, <1>11b, <1>12, <1>13, <1>14, <1>15,
     <1>16, <1>17, <1>18, <1>18a, <1>19, <1>20, <1>21 DEF Next, Work, Disturb

\* The invariant's point: two recorded processes of one sync command on one host have one row, and a
\* row names one process.
LEMMA OneClaimIsOneCopy == ASSUME ClaimInv PROVE NoSecondCopy
<1> USE DEF ClaimInv
<1>1. SUFFICES ASSUME NEW x \in live, NEW y \in live,
                      x.host = y.host, x.cmd = y.cmd, x.cmd \in Commands \ Async,
                      x.log # NoLog, y.log # NoLog, ~PastGrace(x.log), ~PastGrace(y.log)
               PROVE  x = y
  BY DEF NoSecondCopy
<1>2. x \in Process /\ y \in Process /\ x.log \in LogIds /\ y.log \in LogIds
  BY <1>1 DEF TypeOK, Process
<1>3. Running(x.log) /\ Running(y.log)
  BY <1>1 DEF LiveRunHoldsItsRow
<1>4. x.log = y.log
  BY <1>1, <1>2, <1>3 DEF RowsTellTheTruth, OneClaim
<1>5. x.pid = y.pid
  BY <1>1, <1>4 DEF RowsTellTheTruth
<1>6. QED
  BY <1>1, <1>2, <1>4, <1>5 DEF Process

\* However many daemons, machines, restarts, reboots and new host names: as long as no command is
\* taken out of the file, a live recorded run keeps its row (recover_stale_running_jobs,
\* collect_running_commands and close_running_on_shutdown never free a claim under a working process).
THEOREM LiveRunsKeepTheirRows == Spec /\ []FileIsWhole => []LiveRunHoldsItsRow
<1>1. ClaimInv => LiveRunHoldsItsRow
  BY DEF ClaimInv
<1>2. Init => ClaimInv /\ StoppedAreGone
  BY ClaimInit DEF Init, StoppedAreGone
<1>3. ClaimInv /\ StoppedAreGone /\ [Next]_vars /\ FileIsWhole' => ClaimInv' /\ StoppedAreGone'
  BY ClaimNext, StoppedNext DEF ClaimInv
<1>4. QED
  BY <1>1, <1>2, <1>3, PTL DEF Spec

\* ... and no sync command's recorded work is done twice at once on one host (start_app_command and
\* the unique index it relies on).
THEOREM NoSecondCopyEver == Spec /\ []FileIsWhole => []NoSecondCopy
<1>1. ClaimInv => NoSecondCopy
  BY OneClaimIsOneCopy
<1>2. Init => ClaimInv /\ StoppedAreGone
  BY ClaimInit DEF Init, StoppedAreGone
<1>3. ClaimInv /\ StoppedAreGone /\ [Next]_vars /\ FileIsWhole' => ClaimInv' /\ StoppedAreGone'
  BY ClaimNext, StoppedNext DEF ClaimInv
<1>4. QED
  BY <1>1, <1>2, <1>3, PTL DEF Spec
-----------------------------------------------------------------------------
(* Results. *)

\* The fact that is about one step: a result is changed only under a recovery that holds its row.
ResultsStay ==
    \A l \in LogIds :
        /\ job_runs[l].status \in {"done", "error"} /\ ~Forgettable(l)
        /\ job_runs'[l].status # job_runs[l].status
        => \E d \in Daemons : pc[d] = "recover" /\ l \in rows[d]

\* A step that writes no status, and lets no daemon hold more.
LEMMA UnwrittenStays ==
    ASSUME TypeOK, OneOwner, \A l \in LogIds : job_runs'[l].status = job_runs[l].status,
           \A d \in Daemons : /\ tracked'[d] \subseteq tracked[d]
                              /\ pc'[d] \in {"collect", "stopping"} => rows'[d] \subseteq tracked'[d]
    PROVE  OneOwner' /\ ResultsStay
<1>1. \A d \in Daemons : tracked[d] \subseteq LogIds
  BY DEF TypeOK
<1>2. QED
  BY <1>1 DEF OneOwner, ResultsStay

\* The owner closes a row and lets go of it.
LEMMA OwnerCloses ==
    ASSUME TypeOK, OneOwner, NEW d \in Daemons, NEW l \in tracked[d], NEW status \in {"done", "error", "timeout"},
           job_runs' = Closed({l}, status),
           \A e \in Daemons : /\ tracked'[e] = tracked[e] \ (IF e = d THEN {l} ELSE {})
                              /\ pc'[e] \in {"collect", "stopping"} => rows'[e] \subseteq tracked'[e]
    PROVE  OneOwner' /\ ResultsStay
<1>1. status \in RunStatuses
  BY DEF RunStatuses, ERROR_STATUSES
<1>2. \A k \in LogIds : k # l => job_runs'[k] = job_runs[k]
  BY <1>1, ClosedType
<1>3. \A e \in Daemons : tracked[e] \subseteq LogIds /\ l \notin tracked'[e]
  BY DEF TypeOK, OneOwner
<1>4. OneOwner'
  <2>1. \A e \in Daemons : \A k \in tracked'[e] : k \in tracked[e] /\ job_runs'[k] = job_runs[k]
    BY <1>2, <1>3
  <2>2. QED
    BY <2>1 DEF OneOwner
<1>5. ResultsStay
  <2>1. job_runs[l].status \notin {"done", "error"}
    BY DEF OneOwner
  <2>2. QED
    BY <1>2, <2>1 DEF ResultsStay
<1>6. QED
  BY <1>4, <1>5

\* Writing a new row over one that nobody needs.
LEMMA InsertingStays ==
    ASSUME TypeOK, OneOwner, NEW d \in Daemons, NEW l \in LogIds, Forgettable(l),
           \A k \in LogIds : k # l => job_runs'[k] = job_runs[k],
           \A e \in Daemons : /\ tracked'[e] = tracked[e] \/ (e = d /\ tracked'[e] = tracked[e] \cup {l})
                              /\ l \in tracked'[e] => job_runs'[l].status = "running"
                              /\ pc'[e] \in {"collect", "stopping"} => rows'[e] \subseteq tracked'[e]
    PROVE  OneOwner' /\ ResultsStay
<1>1. \A e \in Daemons : tracked[e] \subseteq LogIds /\ l \notin tracked[e]
  BY DEF TypeOK, Forgettable
<1>2. OneOwner'
  BY <1>1 DEF OneOwner
<1>3. ResultsStay
  BY DEF ResultsStay
<1>4. QED
  BY <1>2, <1>3

\* One step of any of the daemons.
LEMMA OwnerNext ==
    ASSUME TypeOK, OneOwner, [Next]_vars
    PROVE  OneOwner' /\ ResultsStay
<1> DEFINE Goal == OneOwner' /\ ResultsStay
<1>r. \A e \in Daemons : pc[e] \in {"collect", "stopping"} => rows[e] \subseteq tracked[e]
  BY DEF OneOwner
<1>1. ASSUME NEW d \in Daemons, Start(d) PROVE Goal
  <2>1. /\ UNCHANGED <<job_runs, tracked>>
        /\ \A e \in Daemons : pc'[e] \in {"collect", "stopping"} => rows'[e] \subseteq tracked'[e]
    BY <1>1, <1>r DEF Start, TypeOK
  <2>2. QED
    BY <2>1, UnwrittenStays
<1>2. ASSUME NEW d \in Daemons, NEW l \in LogIds, RecoverRow(d, l) PROVE Goal
  <2>1. /\ UNCHANGED <<pc, tracked>> /\ pc[d] = "recover" /\ l \in rows[d]
        /\ \A e \in Daemons : rows'[e] \subseteq rows[e]
    BY <1>2 DEF RecoverRow, TypeOK
  <2>2. CASE ~Recovers(d, l)
    <3>1. UNCHANGED job_runs
      BY <1>2, <2>2 DEF RecoverRow
    <3>2. QED
      BY <2>1, <1>r, <3>1, UnwrittenStays
  <2>3. CASE Recovers(d, l)
    <3>1. job_runs' = Closed({l}, "timeout") /\ "timeout" \in RunStatuses
      BY <1>2, <2>3 DEF RecoverRow, RunStatuses, ERROR_STATUSES
    <3>2. /\ \A k \in LogIds : k # l => job_runs'[k] = job_runs[k]
          /\ job_runs'[l].status = "timeout"
      BY <3>1, ClosedType
    <3>3. OneOwner'
      <4>1. \A e \in Daemons : tracked[e] \subseteq LogIds
        BY DEF TypeOK
      <4>2. QED
        BY <2>1, <3>2, <4>1 DEF OneOwner
    <3>4. ResultsStay
      BY <2>1, <3>2 DEF ResultsStay
    <3>5. QED
      BY <3>3, <3>4
  <2>4. QED
    BY <2>2, <2>3
<1>3. ASSUME NEW d \in Daemons, NEW l \in LogIds, CollectStillRunning(d, l) \/ StopChild(d, l) PROVE Goal
  <2>1. /\ UNCHANGED <<job_runs, tracked, pc>> /\ \A e \in Daemons : rows'[e] \subseteq rows[e]
    BY <1>3 DEF CollectStillRunning, StopChild, TypeOK
  <2>2. QED
    BY <2>1, <1>r, UnwrittenStays
<1>4. ASSUME NEW d \in Daemons, NEW l \in LogIds, NEW status \in {"done", "error", "timeout"},
             (CollectTimedOut(d, l) /\ status = "timeout") \/ CollectExited(d, l, status)
      PROVE  Goal
  <2>1. /\ pc[d] = "collect" /\ UNCHANGED pc /\ l \in rows[d] /\ tracked' = [tracked EXCEPT ![d] = @ \ {l}]
        /\ rows' = [rows EXCEPT ![d] = @ \ {l}]
    BY <1>4 DEF CollectTimedOut, CollectExited
  <2>2. job_runs' = Closed({l}, status) /\ l \in tracked[d]
    BY <1>4, <1>r, <2>1 DEF CollectTimedOut, CollectExited
  <2>3. \A e \in Daemons : /\ tracked'[e] = tracked[e] \ (IF e = d THEN {l} ELSE {})
                           /\ pc'[e] \in {"collect", "stopping"} => rows'[e] \subseteq tracked'[e]
    BY <1>r, <2>1 DEF TypeOK
  <2>4. QED
    BY <2>2, <2>3, OwnerCloses
<1>5. ASSUME NEW d \in Daemons,
             \/ Snapshot(d) \/ Refused(d) \/ RecordErrsUnrecorded(d)
             \/ \E c \in Commands : Skip(d, c) \/ LaunchFailsUnrecorded(d, c)
             \/ \E c \in Commands, p \in Pids : Launch(d, c, p)
      PROVE  Goal
  <2>1. /\ UNCHANGED <<job_runs, tracked, rows>>
        /\ pc' \in {pc, [pc EXCEPT ![d] = "scan"], [pc EXCEPT ![d] = "spawned"]}
    BY <1>5 DEF Snapshot, Skip, LaunchFailsUnrecorded, Refused, RecordErrsUnrecorded, Launch
  <2>2. \A e \in Daemons : pc'[e] \in {"collect", "stopping"} => rows'[e] \subseteq tracked'[e]
    BY <1>r, <2>1 DEF TypeOK
  <2>3. QED
    BY <2>1, <2>2, UnwrittenStays
<1>6. ASSUME NEW d \in Daemons, NEW l \in LogIds, RecordErrs(d, l) \/ \E c \in Commands : LaunchFails(d, c, l)
      PROVE  Goal
  <2>1. /\ Forgettable(l) /\ \E c : insert_job_run(l, c, Host(d), NoNode, NoPid, "error")
        /\ UNCHANGED <<tracked, rows>> /\ pc' \in {pc, [pc EXCEPT ![d] = "scan"]}
    BY <1>6 DEF LaunchFails, RecordErrs
  <2>2. \A k \in LogIds : k # l => job_runs'[k] = job_runs[k]
    BY <2>1 DEF insert_job_run, TypeOK
  <2>3. \A e \in Daemons : /\ tracked'[e] = tracked[e]
                           /\ l \notin tracked'[e]
                           /\ pc'[e] \in {"collect", "stopping"} => rows'[e] \subseteq tracked'[e]
    BY <1>r, <2>1 DEF TypeOK, Forgettable
  <2>4. QED
    BY <2>1, <2>2, <2>3, InsertingStays
<1>7. ASSUME NEW d \in Daemons, NEW l \in LogIds, Record(d, l) PROVE Goal
  <2>1. /\ insert_job_run(l, child[d].cmd, Host(d), Identity[MachineOf[d]], child[d].pid, "running")
        /\ Forgettable(l) /\ tracked' = [tracked EXCEPT ![d] = @ \cup {l}] /\ pc' = [pc EXCEPT ![d] = "scan"]
        /\ UNCHANGED rows
    BY <1>7 DEF Record
  <2>2. /\ \A k \in LogIds : k # l => job_runs'[k] = job_runs[k]
        /\ job_runs'[l].status = "running"
    BY <2>1 DEF insert_job_run, TypeOK
  <2>3. \A e \in Daemons : /\ tracked'[e] = tracked[e] \/ (e = d /\ tracked'[e] = tracked[e] \cup {l})
                           /\ pc'[e] \in {"collect", "stopping"} => rows'[e] \subseteq tracked'[e]
    BY <1>r, <2>1 DEF TypeOK
  <2>4. QED
    BY <2>1, <2>2, <2>3, InsertingStays
<1>8. ASSUME NEW d \in Daemons, RecordFails(d) \/ ScanFails(d) \/ EndScan(d) \/ StopBegins(d) PROVE Goal
  <2>1. /\ UNCHANGED <<job_runs, tracked>> /\ rows' = [rows EXCEPT ![d] = tracked[d]]
        /\ \A e \in Daemons : e # d => pc'[e] = pc[e]
    BY <1>8 DEF RecordFails, ScanFails, EndScan, NextScan, StopBegins, TypeOK
  <2>2. \A e \in Daemons : pc'[e] \in {"collect", "stopping"} => rows'[e] \subseteq tracked'[e]
    BY <1>r, <2>1 DEF TypeOK
  <2>3. QED
    BY <2>1, <2>2, UnwrittenStays
<1>9. ASSUME NEW d \in Daemons, NEW l \in LogIds, CloseStopped(d, l) PROVE Goal
  <2>1. /\ pc[d] = "stopping" /\ UNCHANGED <<pc, rows>> /\ l \in tracked[d] /\ l \notin rows[d]
        /\ tracked' = [tracked EXCEPT ![d] = @ \ {l}]
        /\ job_runs' = Closed({l}, "timeout") \/ UNCHANGED job_runs
    BY <1>9 DEF CloseStopped
  <2>2. \A e \in Daemons : /\ tracked'[e] = tracked[e] \ (IF e = d THEN {l} ELSE {})
                           /\ pc'[e] \in {"collect", "stopping"} => rows'[e] \subseteq tracked'[e]
    BY <1>r, <2>1 DEF TypeOK
  <2>3. CASE job_runs' = Closed({l}, "timeout")
    BY <2>1, <2>2, <2>3, OwnerCloses
  <2>4. CASE UNCHANGED job_runs
    BY <2>2, <2>4, UnwrittenStays
  <2>5. QED
    BY <2>1, <2>3, <2>4
<1>10. ASSUME NEW D, Forget(D), UNCHANGED job_runs PROVE Goal
  <2>1. \A e \in Daemons : \/ pc'[e] = "down" /\ tracked'[e] = {}
                           \/ pc'[e] = pc[e] /\ tracked'[e] = tracked[e] /\ rows'[e] = rows[e]
    BY <1>10 DEF Forget
  <2>2. QED
    BY <1>10, <1>r, <2>1, UnwrittenStays
<1>11. ASSUME NEW d \in Daemons, Crash(d) \/ StopEnds(d) PROVE Goal
  BY <1>10, <1>11 DEF Crash, StopEnds
<1>12. ASSUME NEW m \in Machines, NEW h \in Hosts, Reboot(m, h) PROVE Goal
  <2>1. Forget({d \in Daemons : MachineOf[d] = m}) /\ UNCHANGED job_runs
    BY <1>12 DEF Reboot
  <2>2. QED
    BY <1>10, <2>1
<1>13. ASSUME \/ \E x \in live : ProcessExits(x)
              \/ \E m \in Machines, p \in Pids : StrangerStarts(m, p)
              \/ \E c \in Commands, state \in {"active", "inactive", "absent"} : EditFile(c, state)
              \/ Tick
              \/ UNCHANGED vars
       PROVE  Goal
  <2>1. /\ UNCHANGED <<pc, tracked, rows>>
        /\ UNCHANGED job_runs \/ Tick
    BY <1>13 DEF ProcessExits, StrangerStarts, EditFile, Tick, daemonVars, vars
  <2>2. \A l \in LogIds : job_runs'[l].status = job_runs[l].status
    <3>1. \A l \in LogIds : Older(job_runs[l]).status = job_runs[l].status
      BY OlderType DEF TypeOK
    <3>2. QED
      BY <2>1, <3>1 DEF Tick
  <2>3. QED
    BY <1>r, <2>1, <2>2, UnwrittenStays
<1>14. QED
  BY <1>1, <1>2, <1>3, <1>4, <1>5, <1>6, <1>7, <1>8, <1>9, <1>11, <1>12, <1>13
     DEF Next, Work, Disturb

\* However many daemons share a store, a result once written falls only to a start-up recovery that had
\* read the row as running (recover_stale_running_jobs): collection and shutdown close only rows their
\* daemon tracks, a row has one owner, and an owner that has written a result has let go of it - which is
\* why update_job_run need not ask there, and has to in a recovery.
THEOREM ResultsFallOnlyToRecovery == Spec => ResultsAreKept
<1>1. Init => TypeOK /\ OneOwner
  BY TypeInit DEF Init, OneOwner
<1>2. TypeOK /\ OneOwner /\ [Next]_vars => TypeOK' /\ OneOwner'
  BY TypeNext, OwnerNext
<1>3. TypeOK /\ OneOwner /\ [Next]_vars => [ResultsStay]_vars
  BY OwnerNext
<1>4. QED
  BY <1>1, <1>2, <1>3, PTL DEF Spec, ResultsAreKept, ResultsStay
=============================================================================
