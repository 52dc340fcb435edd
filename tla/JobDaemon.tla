----------------------------- MODULE JobDaemon ------------------------------
(***************************************************************************)
(* The app-command daemon, dbabrain/jobs/daemon.py, over the runtime store's *)
(* job_runs table, dbabrain/db/store_job_runs.py, and the operating system *)
(* whose processes it starts.                                              *)
(*                                                                         *)
(* Several daemons may share one store: on one machine, or on machines of  *)
(* their own.  A daemon may be stopped or killed at any point, a machine   *)
(* may reboot, a container may come back under a new host name, a child    *)
(* may outlive the daemon that started it, a pid may be used again, the    *)
(* file of app commands may be edited and the store may fail.              *)
(*                                                                         *)
(* Time is the age of a row: seconds since its started_at, which stop      *)
(* counting at MaxAge, past every threshold the rules compare with.  The   *)
(* store never reuses a log_id; the model lets a row that is finished and  *)
(* that nothing refers to be forgotten, so that finitely many ids serve an *)
(* unbounded number of runs.                                               *)
(***************************************************************************)
EXTENDS RunClaim, DueRule, FiniteSets

CONSTANTS
    Daemons, Machines, Hosts, Nodes, Commands, Pids, LogIds,
    NoCommand, NoLog,
    MachineOf,      \* the machine a daemon runs on
    Identity,       \* the node_identity of a machine's tool root, or NoNode
    HostNames,      \* the host names a machine may come up under
    RoleCommands,   \* the commands whose node_role a daemon's node has
    Window,         \* a command's time_window: repeat_interval, retry_interval, timeout
    Async,          \* the commands declared run_mode async
    MaxParallel,    \* their cap
    Windowed,       \* the commands whose allowed-hours window may be closed
    Requestable,    \* the commands an operator may ask to run now
    Editable,       \* the commands an operator may deactivate, remove and add again
    StrangerPids,   \* the pids a process of somebody else may take
    Grace,          \* FOREIGN_HOST_GRACE_SECONDS
    MaxAge,         \* bound: the age at which a row's clock stops
    ChildrenSurvive,\* may a child outlive its daemon?
    SpawnMayFail,   \* may subprocess.Popen raise?
    StoreMayFail    \* may a store call fail for a moment?

ASSUME DaemonConstants ==
    /\ MachineOf \in [Daemons -> Machines]
    /\ Identity \in [Machines -> Nodes \cup {NoNode}]
    /\ HostNames \in [Machines -> SUBSET Hosts]
    /\ RoleCommands \in [Daemons -> SUBSET Commands]
    /\ Window \in [Commands -> [repeat_interval : Int, retry_interval : Int, timeout : Int]]
    /\ MaxParallel \in [Commands -> Nat \ {0}]
    /\ Async \subseteq Commands /\ Windowed \subseteq Commands
    /\ Requestable \subseteq Commands /\ Editable \subseteq Commands
    /\ StrangerPids \subseteq Pids
    /\ Grace \in Nat /\ MaxAge \in Nat
    /\ {ChildrenSurvive, SpawnMayFail, StoreMayFail} \subseteq BOOLEAN
    /\ NoCommand \notin Commands /\ NoLog \notin LogIds
    /\ NoPid \notin Pids /\ NoHost \notin Hosts /\ NoNode \notin Nodes

\* Two machines never have one host name, and a node identity belongs to one tool root.
ASSUME MachinesAreDistinct ==
    \A m, n \in Machines : m # n =>
        /\ HostNames[m] \cap HostNames[n] = {}
        /\ Identity[m] = Identity[n] => Identity[m] = NoNode

VARIABLES
    job_runs,   \* the store: log_id -> row
    latest,     \* max(log_id) of each job_code
    live,       \* the processes of every machine
    file,       \* app_commands.json: is a command active, inactive or absent?
    hostname,   \* the name each machine has now
    pc,         \* where each daemon is
    tracked,    \* its running_commands, by log_id
    rows,       \* the rows a loop of it has still to look at
    snap,       \* its latest_runs: log_id and status, as read by this scan
    todo,       \* the commands it read from the file: all it holds while it recovers, and then the
                \* active ones its scan has still to look at
    child       \* the child it has launched and not yet recorded

vars == <<job_runs, latest, live, file, hostname, pc, tracked, rows, snap, todo, child>>
daemonVars == <<pc, tracked, rows, snap, todo, child>>

NoRow == [cmd |-> NoCommand, host |-> NoHost, node |-> NoNode, pid |-> NoPid,
          status |-> "none", age |-> 0]
NoChild == [cmd |-> NoCommand, pid |-> NoPid]
NoSnap == [c \in Commands |-> [log |-> NoLog, status |-> "none"]]

Row == [cmd : Commands \cup {NoCommand}, host : Hosts \cup {NoHost},
        node : Nodes \cup {NoNode}, pid : Pids \cup {NoPid},
        status : RunStatuses \cup {"none"}, age : 0 .. MaxAge]
Process == [host : Hosts, pid : Pids, cmd : Commands \cup {NoCommand},
            log : LogIds \cup {NoLog}]

TypeOK ==
    /\ job_runs \in [LogIds -> Row]
    /\ latest \in [Commands -> LogIds \cup {NoLog}]
    /\ live \subseteq Process
    /\ file \in [Commands -> {"active", "inactive", "absent"}]
    /\ hostname \in [Machines -> Hosts]
    /\ pc \in [Daemons -> {"down", "recover", "collect", "scan", "spawned", "stopping"}]
    /\ tracked \in [Daemons -> SUBSET LogIds]
    /\ rows \in [Daemons -> SUBSET LogIds]
    /\ snap \in [Daemons -> [Commands -> [log : LogIds \cup {NoLog},
                                          status : RunStatuses \cup {"none"}]]]
    /\ todo \in [Daemons -> SUBSET Commands]
    /\ child \in [Daemons -> [cmd : Commands \cup {NoCommand}, pid : Pids \cup {NoPid}]]
-----------------------------------------------------------------------------
(* The machine and the process table. *)

Host(d) == hostname[MachineOf[d]]

\* process_liveness.is_pid_alive: is some process holding this number?
is_pid_alive(h, p) == \E x \in live : x.host = h /\ x.pid = p

\* The process a row was written for, by its start marker.
Alive(l) == \E x \in live : x.log = l

\* A number is free when no process has it and no daemon has yet to reap a child that had it.
PidFree(h, p) ==
    /\ ~is_pid_alive(h, p)
    /\ \A d \in Daemons : Host(d) = h =>
           /\ child[d].pid # p
           /\ \A l \in tracked[d] : job_runs[l].pid # p

\* stop_process_tree: the child of this row, told from a stranger by its marker, and all under it.
Stopped(L) == {x \in live : x.log \in L}
-----------------------------------------------------------------------------
(* The store. *)

Running(l) == job_runs[l].status = "running"
Finished(l) == job_runs[l].status \in RunStatuses \ {"running"}

\* Nothing reads this row again: no reader asks for it and no daemon or process refers to it.
Forgettable(l) ==
    /\ ~Running(l)
    /\ ~Alive(l)
    /\ \A c \in Commands : latest[c] # l
    /\ \A d \in Daemons : /\ l \notin tracked[d] \cup rows[d]
                          /\ \A c \in Commands : snap[d][c].log # l

\* Altered: the index is not there.
claim_held_Unindexed(c, h) == FALSE

\* ux_job_runs_claim: one running row per (claim_key, host_name); an async row has no claim_key.
claim_held(c, h) ==
    \E l \in LogIds : Running(l) /\ job_runs[l].cmd = c /\ job_runs[l].host = h

\* insert_job_run of a running row, with the claim of a sync command's child.
insert_job_run(l, c, h, n, p, status) ==
    /\ job_runs' = [job_runs EXCEPT ![l] =
           [cmd |-> c, host |-> h, node |-> IF c \in Async THEN NoNode ELSE n,
            pid |-> p, status |-> status, age |-> 0]]
    /\ latest' = [latest EXCEPT ![c] = l]

\* Altered: a word no reader of the table knows.
Closed_OddWord(L, status) == [l \in LogIds |-> IF l \in L THEN [job_runs[l] EXCEPT !.status = "closed"]
                                               ELSE job_runs[l]]

\* update_job_run without only_if_running: whatever the row says now.
Closed(L, status) == [l \in LogIds |-> IF l \in L THEN [job_runs[l] EXCEPT !.status = status]
                                       ELSE job_runs[l]]
-----------------------------------------------------------------------------
(* The rules the daemon asks. *)

Timeout(c) == Default(Window[c].timeout, 300)
timeout_disabled(c) == Window[c].timeout = 0

count_in_flight(d, c) == Cardinality({l \in tracked[d] : job_runs[l].cmd = c})

\* run_mode.may_start: one for sync, up to the cap for async.
may_start(d, c) ==
    IF c \in Async THEN count_in_flight(d, c) < MaxParallel[c]
                   ELSE \A l \in tracked[d] : job_runs[l].cmd # c

\* app_command_due, from the snapshot of this scan.
app_command_is_due(d, c) ==
    LET read == snap[d][c]
    IN  due_from_row(Window[c],
                     IF read.log = NoLog THEN NeverRan ELSE job_runs[read.log].age,
                     read.status, 60, 300, Unset, c \notin Async)

\* The metadata of a daemon's row: the claim of a sync command, and always the child's pid.
row_metadata(r) ==
    LET base == [claim_pid |-> NoPid, claim_host |-> NoHost, claim_node |-> NoNode,
                 pid |-> r.pid, host_name |-> NoHost]
    IN  IF r.cmd \in Async THEN base ELSE claim_fields(base, r.pid, r.host, r.node)

\* The branch of recover_stale_running_jobs for a command the file no longer holds.
RemovedIsOurs(d, r) == r.node = NoNode \/ r.node = Identity[MachineOf[d]]

\* Altered: a service's row is closed at start-up whatever the verdict.
Recovers_AnyService(d, l) == timeout_disabled(job_runs[l].cmd)

\* Does the start-up recovery of d close this row?
Recovers(d, l) ==
    LET r == job_runs[l]
    IN  IF r.cmd \notin todo[d] THEN RemovedIsOurs(d, r)
        ELSE /\ r.cmd \in RoleCommands[d]
             /\ startup_verdict(row_metadata(r), Host(d), r.age, Timeout(r.cmd),
                                is_pid_alive(Host(d), r.pid) /\ r.host = Host(d), Grace,
                                Identity[MachineOf[d]], r.host).reap
-----------------------------------------------------------------------------
Init ==
    /\ job_runs = [l \in LogIds |-> NoRow]
    /\ latest = [c \in Commands |-> NoLog]
    /\ live = {}
    /\ file = [c \in Commands |-> "active"]
    /\ hostname \in {f \in [Machines -> Hosts] : \A m \in Machines : f[m] \in HostNames[m]}
    /\ pc = [d \in Daemons |-> "down"]
    /\ tracked = [d \in Daemons |-> {}]
    /\ rows = [d \in Daemons |-> {}]
    /\ snap = [d \in Daemons |-> NoSnap]
    /\ todo = [d \in Daemons |-> {}]
    /\ child = [d \in Daemons |-> NoChild]
-----------------------------------------------------------------------------
(* Start-up: main up to the loop, and recover_stale_running_jobs. *)

\* Altered: nothing is recovered.
Start_RecoversNothing(d) ==
    /\ pc[d] = "down"
    /\ pc' = [pc EXCEPT ![d] = "recover"]
    /\ todo' = [todo EXCEPT ![d] = {c \in Commands : file[c] # "absent"}]
    /\ UNCHANGED <<job_runs, latest, live, file, hostname, tracked, rows, snap, child>>

Start(d) ==
    /\ pc[d] = "down"
    /\ pc' = [pc EXCEPT ![d] = "recover"]
    /\ todo' = [todo EXCEPT ![d] = {c \in Commands : file[c] # "absent"}]
    /\ rows' = [rows EXCEPT ![d] = {l \in LogIds : Running(l)}]
    /\ UNCHANGED <<job_runs, latest, live, file, hostname, tracked, snap, child>>

RecoverRow(d, l) ==
    /\ pc[d] = "recover"
    /\ l \in rows[d]
    /\ rows' = [rows EXCEPT ![d] = @ \ {l}]
    /\ job_runs' = IF Recovers(d, l) THEN Closed({l}, "timeout") ELSE job_runs
    /\ UNCHANGED <<latest, live, file, hostname, pc, tracked, snap, todo, child>>
-----------------------------------------------------------------------------
(* One scan: run_scheduler_scan.  It collects first, every child it tracks. *)

NextScan(d) ==
    /\ pc' = [pc EXCEPT ![d] = "collect"]
    /\ rows' = [rows EXCEPT ![d] = tracked[d]]
    /\ todo' = [todo EXCEPT ![d] = {}]
    /\ snap' = [snap EXCEPT ![d] = NoSnap]

\* collect_running_commands leaves a child alone that is running and within its timeout.
CollectStillRunning(d, l) ==
    /\ pc[d] = "collect"
    /\ l \in rows[d]
    /\ Alive(l)
    /\ timeout_disabled(job_runs[l].cmd) \/ job_runs[l].age <= Timeout(job_runs[l].cmd)
    /\ rows' = [rows EXCEPT ![d] = @ \ {l}]
    /\ UNCHANGED <<job_runs, latest, live, file, hostname, pc, tracked, snap, todo, child>>

\* ... stops one that overran it, and closes its row.
CollectTimedOut(d, l) ==
    /\ pc[d] = "collect"
    /\ l \in rows[d]
    /\ Alive(l)
    /\ ~timeout_disabled(job_runs[l].cmd)
    /\ job_runs[l].age > Timeout(job_runs[l].cmd)
    /\ live' = live \ Stopped({l})
    /\ job_runs' = Closed({l}, "timeout")
    /\ tracked' = [tracked EXCEPT ![d] = @ \ {l}]
    /\ rows' = [rows EXCEPT ![d] = @ \ {l}]
    /\ UNCHANGED <<latest, file, hostname, pc, snap, todo, child>>

\* Altered: the closed run stays in running_commands.
CollectExited_NotPopped(d, l, status) ==
    /\ pc[d] = "collect"
    /\ l \in rows[d]
    /\ ~Alive(l)
    /\ job_runs' = Closed({l}, status)
    /\ rows' = [rows EXCEPT ![d] = @ \ {l}]
    /\ UNCHANGED <<latest, live, file, hostname, pc, tracked, snap, todo, child>>

\* ... and closes the row of one that has exited, by its exit code.
CollectExited(d, l, status) ==
    /\ pc[d] = "collect"
    /\ l \in rows[d]
    /\ ~Alive(l)
    /\ job_runs' = Closed({l}, status)
    /\ tracked' = [tracked EXCEPT ![d] = @ \ {l}]
    /\ rows' = [rows EXCEPT ![d] = @ \ {l}]
    /\ UNCHANGED <<latest, live, file, hostname, pc, snap, todo, child>>

\* All is collected - a daemon that has just recovered has nothing to collect - and the file and the
\* latest run of every command are read, once for the whole scan.
Snapshot(d) ==
    /\ pc[d] \in {"recover", "collect"}
    /\ rows[d] = {}
    /\ pc' = [pc EXCEPT ![d] = "scan"]
    /\ todo' = [todo EXCEPT ![d] = {c \in RoleCommands[d] : file[c] = "active"}]
    /\ snap' = [snap EXCEPT ![d] = [c \in Commands |->
           [log |-> latest[c],
            status |-> IF latest[c] = NoLog THEN "none" ELSE job_runs[latest[c]].status]]]
    /\ UNCHANGED <<job_runs, latest, live, file, hostname, tracked, rows, child>>

\* A command is passed over: in flight, outside its window, or not due.
Skip(d, c) ==
    /\ pc[d] = "scan"
    /\ c \in todo[d]
    /\ \/ ~may_start(d, c)
       \/ c \in Windowed
       \/ ~app_command_is_due(d, c)
    /\ todo' = [todo EXCEPT ![d] = @ \ {c}]
    /\ UNCHANGED <<job_runs, latest, live, file, hostname, pc, tracked, rows, snap, child>>

\* start_app_command is reached: by the schedule, or by a request that overrides it.
MayLaunch(d, c) ==
    /\ pc[d] = "scan"
    /\ c \in todo[d]
    /\ may_start(d, c)
    /\ app_command_is_due(d, c) \/ c \in Requestable

\* subprocess.Popen, before the row is written.
Launch(d, c, p) ==
    /\ MayLaunch(d, c)
    /\ PidFree(Host(d), p)
    /\ live' = live \cup {[host |-> Host(d), pid |-> p, cmd |-> c, log |-> NoLog]}
    /\ child' = [child EXCEPT ![d] = [cmd |-> c, pid |-> p]]
    /\ todo' = [todo EXCEPT ![d] = @ \ {c}]
    /\ pc' = [pc EXCEPT ![d] = "spawned"]
    /\ UNCHANGED <<job_runs, latest, file, hostname, tracked, rows, snap>>

\* Popen raised: record_start_failure writes an error row and the scan goes on.
LaunchFails(d, c, l) ==
    /\ SpawnMayFail
    /\ MayLaunch(d, c)
    /\ Forgettable(l)
    /\ insert_job_run(l, c, Host(d), NoNode, NoPid, "error")
    /\ todo' = [todo EXCEPT ![d] = @ \ {c}]
    /\ UNCHANGED <<live, file, hostname, pc, tracked, rows, snap, child>>

\* ... or, where the store cannot take that row, only the scan goes on.
LaunchFailsUnrecorded(d, c) ==
    /\ SpawnMayFail /\ StoreMayFail
    /\ MayLaunch(d, c)
    /\ todo' = [todo EXCEPT ![d] = @ \ {c}]
    /\ UNCHANGED <<job_runs, latest, live, file, hostname, pc, tracked, rows, snap, child>>

\* The row is written and with it, for a sync command, the claim: the child is tracked.
Record(d, l) ==
    LET c == child[d].cmd
        p == child[d].pid
    IN  /\ pc[d] = "spawned"
        /\ c \in Async \/ ~claim_held(c, Host(d))
        /\ Forgettable(l)
        /\ insert_job_run(l, c, Host(d), Identity[MachineOf[d]], p, "running")
        /\ live' = {IF x.host = Host(d) /\ x.pid = p THEN [x EXCEPT !.log = l] ELSE x : x \in live}
        /\ tracked' = [tracked EXCEPT ![d] = @ \cup {l}]
        /\ child' = [child EXCEPT ![d] = NoChild]
        /\ pc' = [pc EXCEPT ![d] = "scan"]
        /\ UNCHANGED <<file, hostname, rows, snap, todo>>

\* RunAlreadyClaimed: the child just launched is the duplicate, and is the one that stops.
Refused(d) ==
    LET c == child[d].cmd
        p == child[d].pid
    IN  /\ pc[d] = "spawned"
        /\ c \notin Async /\ claim_held(c, Host(d))
        /\ live' = {x \in live : ~(x.host = Host(d) /\ x.pid = p)}
        /\ child' = [child EXCEPT ![d] = NoChild]
        /\ pc' = [pc EXCEPT ![d] = "scan"]
        /\ UNCHANGED <<job_runs, latest, file, hostname, tracked, rows, snap, todo>>

\* The store went away at the insert: the exception leaves the scan, and the child is left to itself.
RecordFails(d) ==
    /\ StoreMayFail
    /\ pc[d] = "spawned"
    /\ child' = [child EXCEPT ![d] = NoChild]
    /\ NextScan(d)
    /\ UNCHANGED <<job_runs, latest, live, file, hostname, tracked>>

\* The insert failed otherwise, which is taken for a command that could not be started: an error row, or
\* where the store cannot take that row nothing, and the scan goes on.  The child is left to itself too.
RecordErrs(d, l) ==
    /\ StoreMayFail
    /\ pc[d] = "spawned"
    /\ Forgettable(l)
    /\ insert_job_run(l, child[d].cmd, Host(d), NoNode, NoPid, "error")
    /\ child' = [child EXCEPT ![d] = NoChild]
    /\ pc' = [pc EXCEPT ![d] = "scan"]
    /\ UNCHANGED <<live, file, hostname, tracked, rows, snap, todo>>

RecordErrsUnrecorded(d) ==
    /\ StoreMayFail
    /\ pc[d] = "spawned"
    /\ child' = [child EXCEPT ![d] = NoChild]
    /\ pc' = [pc EXCEPT ![d] = "scan"]
    /\ UNCHANGED <<job_runs, latest, live, file, hostname, tracked, rows, snap, todo>>

EndScan(d) ==
    /\ pc[d] = "scan"
    /\ todo[d] = {}
    /\ NextScan(d)
    /\ UNCHANGED <<job_runs, latest, live, file, hostname, tracked, child>>

\* The store failed at any other call of the scan: main waits it out and scans again.
ScanFails(d) ==
    /\ StoreMayFail
    /\ pc[d] \in {"collect", "scan"}
    /\ NextScan(d)
    /\ UNCHANGED <<job_runs, latest, live, file, hostname, tracked, child>>
-----------------------------------------------------------------------------
(* The end of a daemon. *)

Forget(D) ==
    /\ pc' = [d \in Daemons |-> IF d \in D THEN "down" ELSE pc[d]]
    /\ tracked' = [d \in Daemons |-> IF d \in D THEN {} ELSE tracked[d]]
    /\ rows' = [d \in Daemons |-> IF d \in D THEN {} ELSE rows[d]]
    /\ snap' = [d \in Daemons |-> IF d \in D THEN NoSnap ELSE snap[d]]
    /\ todo' = [d \in Daemons |-> IF d \in D THEN {} ELSE todo[d]]
    /\ child' = [d \in Daemons |-> IF d \in D THEN NoChild ELSE child[d]]

\* What is left when a daemon ends.  Where a child cannot survive it, the daemon is the first process
\* of a container and the container ends with it.
Outlives(d) == IF ChildrenSurvive THEN live ELSE {x \in live : x.host # Host(d)}

\* SIGTERM, wherever the daemon is: close_running_on_shutdown takes the tracked children one by one.  A
\* child that is launched and not yet tracked is not among them.
StopBegins(d) ==
    /\ pc[d] \notin {"down", "stopping"}
    /\ pc' = [pc EXCEPT ![d] = "stopping"]
    /\ rows' = [rows EXCEPT ![d] = tracked[d]]
    /\ snap' = [snap EXCEPT ![d] = NoSnap]
    /\ todo' = [todo EXCEPT ![d] = {}]
    /\ child' = [child EXCEPT ![d] = NoChild]
    /\ UNCHANGED <<job_runs, latest, live, file, hostname, tracked>>

\* Altered: the rows are closed and the children are left running.
StopChild_Spared(d, l) ==
    /\ pc[d] = "stopping"
    /\ l \in rows[d]
    /\ rows[d] = tracked[d]
    /\ rows' = [rows EXCEPT ![d] = @ \ {l}]
    /\ UNCHANGED <<job_runs, latest, live, file, hostname, pc, tracked, snap, todo, child>>

\* A child is stopped, once the row of the one before it is closed ...
StopChild(d, l) ==
    /\ pc[d] = "stopping"
    /\ l \in rows[d]
    /\ rows[d] = tracked[d]
    /\ live' = live \ Stopped({l})
    /\ rows' = [rows EXCEPT ![d] = @ \ {l}]
    /\ UNCHANGED <<job_runs, latest, file, hostname, pc, tracked, snap, todo, child>>

\* ... and then its own row is, unless the store fails, which is swallowed.
CloseStopped(d, l) ==
    /\ pc[d] = "stopping"
    /\ l \in tracked[d] \ rows[d]
    /\ \/ job_runs' = Closed({l}, "timeout")
       \/ StoreMayFail /\ UNCHANGED job_runs
    /\ tracked' = [tracked EXCEPT ![d] = @ \ {l}]
    /\ UNCHANGED <<latest, live, file, hostname, pc, rows, snap, todo, child>>

StopEnds(d) ==
    /\ pc[d] = "stopping"
    /\ tracked[d] = {}
    /\ live' = Outlives(d)
    /\ Forget({d})
    /\ UNCHANGED <<job_runs, latest, file, hostname>>

\* SIGKILL, or an exception main does not wait out: nothing is stopped and nothing is closed.
Crash(d) ==
    /\ ChildrenSurvive
    /\ pc[d] # "down"
    /\ Forget({d})
    /\ UNCHANGED <<job_runs, latest, live, file, hostname>>

\* The machine restarts, or the container is recreated under another name: every process is gone.
Reboot(m, h) ==
    /\ h \in HostNames[m]
    /\ hostname' = [hostname EXCEPT ![m] = h]
    /\ live' = {x \in live : x.host # hostname[m]}
    /\ Forget({d \in Daemons : MachineOf[d] = m})
    /\ UNCHANGED <<job_runs, latest, file>>
-----------------------------------------------------------------------------
(* Everybody else. *)

ProcessExits(x) ==
    /\ x \in live
    /\ live' = live \ {x}
    /\ UNCHANGED <<job_runs, latest, file, hostname, daemonVars>>

StrangerStarts(m, p) ==
    /\ p \in StrangerPids
    /\ PidFree(hostname[m], p)
    /\ live' = live \cup {[host |-> hostname[m], pid |-> p, cmd |-> NoCommand, log |-> NoLog]}
    /\ UNCHANGED <<job_runs, latest, file, hostname, daemonVars>>

EditFile(c, state) ==
    /\ c \in Editable
    /\ file[c] # state
    /\ file' = [file EXCEPT ![c] = state]
    /\ UNCHANGED <<job_runs, latest, live, hostname, daemonVars>>

Older(r) == IF r.status = "none" \/ r.age = MaxAge THEN r ELSE [r EXCEPT !.age = @ + 1]

Tick ==
    /\ job_runs' = [l \in LogIds |-> Older(job_runs[l])]
    /\ UNCHANGED <<latest, live, file, hostname, daemonVars>>
-----------------------------------------------------------------------------
\* What a daemon that is up does next.
Work(d) ==
    \/ \E l \in LogIds : RecoverRow(d, l)
    \/ \E l \in LogIds : CollectStillRunning(d, l)
    \/ \E l \in LogIds : CollectTimedOut(d, l)
    \/ \E l \in LogIds, status \in {"done", "error"} : CollectExited(d, l, status)
    \/ Snapshot(d)
    \/ \E c \in Commands : Skip(d, c)
    \/ \E c \in Commands, p \in Pids : Launch(d, c, p)
    \/ \E c \in Commands, l \in LogIds : LaunchFails(d, c, l)
    \/ \E c \in Commands : LaunchFailsUnrecorded(d, c)
    \/ \E l \in LogIds : Record(d, l)
    \/ Refused(d)
    \/ RecordFails(d)
    \/ \E l \in LogIds : RecordErrs(d, l)
    \/ RecordErrsUnrecorded(d)
    \/ ScanFails(d)
    \/ EndScan(d)
    \/ \E l \in LogIds : StopChild(d, l)
    \/ \E l \in LogIds : CloseStopped(d, l)
    \/ StopEnds(d)

\* What may befall it.
Disturb ==
    \/ \E d \in Daemons : StopBegins(d)
    \/ \E d \in Daemons : Crash(d)
    \/ \E m \in Machines, h \in Hosts : Reboot(m, h)
    \/ \E x \in live : ProcessExits(x)
    \/ \E m \in Machines, p \in Pids : StrangerStarts(m, p)
    \/ \E c \in Commands, state \in {"active", "inactive", "absent"} : EditFile(c, state)

Next ==
    \/ \E d \in Daemons : Start(d)
    \/ \E d \in Daemons : Work(d)
    \/ Disturb
    \/ Tick

Spec == Init /\ [][Next]_vars
-----------------------------------------------------------------------------
(* What makes the daemon correct. *)

\* The rule gives up another host's run only this long after its start.
PastGrace(l) ==
    /\ ~timeout_disabled(job_runs[l].cmd)
    /\ job_runs[l].age >= Timeout(job_runs[l].cmd) + Grace

\* A claim is never taken from a process that is working: as long as a recorded child is alive its
\* row says running, whoever restarts, stops, crashes or recovers - except what another host could
\* not see and gave up on after the timeout and the grace (run_claim.py:14-20).
LiveRunHoldsItsRow ==
    \A x \in live : x.log # NoLog => Running(x.log) \/ PastGrace(x.log)

\* A sync command's recorded work is never done twice at once on one host: not by two daemons, not by
\* a daemon and a child that outlived the one before it (daemon.py:956-958).
NoSecondCopy ==
    \A x, y \in live :
        /\ x.host = y.host /\ x.cmd = y.cmd /\ x.cmd \in Commands \ Async
        /\ x.log # NoLog /\ y.log # NoLog
        /\ ~PastGrace(x.log) /\ ~PastGrace(y.log)
        => x = y

\* The result a daemon wrote of its run, done or error, is lost in one way only: to the start-up recovery
\* of a daemon that had read the row as running before it was written.  Nobody else writes it again: no
\* second collection, no shutdown, no daemon beside the owner.  (The recovery does not ask for
\* only_if_running, which the pass that reads first and decides later "needs", store_job_runs.py:236-241.)
ResultsAreKept ==
    [][\A l \in LogIds :
           /\ job_runs[l].status \in {"done", "error"} /\ ~Forgettable(l)
           /\ job_runs'[l].status # job_runs[l].status
           => \E d \in Daemons : pc[d] = "recover" /\ l \in rows[d]]_vars

-----------------------------------------------------------------------------
(***************************************************************************)
(* The scheduling is fair as far as the code makes it so: main loops for   *)
(* ever, a service manager starts a daemon that has ended, and time passes. *)
(* A daemon that is killed again and again gets nothing done, so what      *)
(* follows is promised once the daemons stay up.                           *)
(***************************************************************************)
Fairness ==
    /\ \A d \in Daemons : WF_vars(Start(d)) /\ WF_vars(Work(d))
    /\ WF_vars(Tick)

FairSpec == Spec /\ Fairness

\* ... and, more than the code promises, some process that is alive ends.
FairSpecWorkEnds == FairSpec /\ WF_vars(\E x \in live : ProcessExits(x))

StayUp == <>[](\A d \in Daemons : pc[d] # "down")

Repeating == {c \in Commands : Window[c].repeat_interval > 0}

\* A scheduled command the file keeps active is started again and again: no run that was left behind,
\* by a crash, a stop, a reboot, an edit or a new host name, blocks it for good
\* (docs/03_app_command_daemon.md, Stale RUNNING Job Recovery: "never permanently blocks a scheduled
\* command").
CommandsKeepRunning ==
    StayUp => \A c \in Repeating : <>[](file[c] = "active") =>
        []<>(\E l \in LogIds : Running(l) /\ job_runs[l].cmd = c /\ job_runs[l].age = 0)
=============================================================================
