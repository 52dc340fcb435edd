------------------------------ MODULE SqlTasks ------------------------------
(***************************************************************************)
(* The SQL task runner, dbabrain/sql_tasks/runner.py, over the sql_runs    *)
(* table of a shared store, dbabrain/db/store_sql_runs.py.                 *)
(*                                                                         *)
(* APP-SQL_TASKS is async: several scans run at once, each a process that  *)
(* sweeps the rows left `running`, lists what is due and works through its *)
(* list.  A run asked for by hand sweeps and runs one task.  The `running` *)
(* row is the claim; the process named in it is the scan, not one task.    *)
(*                                                                         *)
(* A step is one store call with the local work around it.  Time is the    *)
(* seconds since an instant, which stop counting at MaxAge.  A task is one *)
(* target of one command; the wall-clock window is left out.               *)
(***************************************************************************)
EXTENDS RunClaim, DueRule, FiniteSetsExt

CONSTANTS
    Scans,          \* the pids scans run under
    Hosts,
    Targets,        \* the tasks, numbered in the order of the file
    Window,         \* a target's time_window
    Hands,          \* the targets an operator may run by hand
    Grace,          \* FOREIGN_HOST_GRACE_SECONDS
    OperatorCloses, \* may an operator close a row with close-run?
    StopMayFail,    \* may a process refuse to be stopped?
    MaxRuns,        \* bound: the rows of the table
    MaxAge          \* bound: the age at which a clock stops

Ids == 1 .. MaxRuns
Ages == 0 .. MaxAge

NoRow == [key |-> 0, host |-> NoHost, pid |-> NoPid, status |-> "none", age |-> 0, freed_by |-> NoHost]

Row == [key : Targets \cup {0}, host : Hosts \cup {NoHost}, pid : Scans \cup {NoPid},
        status : {"none", "running", "done", "error"}, age : Ages,
        freed_by : Hosts \cup {NoHost, "operator"}]

ASSUME SqlConstants ==
    /\ Targets \subseteq Nat \ {0} /\ Hands \subseteq Targets
    /\ NoHost \notin Hosts /\ NoPid \notin Scans /\ NoNode \notin Hosts
    /\ "operator" \notin Hosts \cup {NoHost}
    /\ Window \in [Targets -> [repeat_interval : Int, retry_interval : Int, timeout : Int]]
    /\ Grace \in Nat /\ MaxRuns \in Nat /\ MaxAge \in Nat
    /\ {OperatorCloses, StopMayFail} \subseteq BOOLEAN

VARIABLES
    sql_runs,   \* the table: sql_run_id -> row
    scan,       \* what each pid is doing
    alerts      \* how often a failure of each row was reported

vars == <<sql_runs, scan, alerts>>

\* A pid no scan has.
Down == [pc |-> "down", host |-> NoHost, hand |-> FALSE, rows |-> <<>>, busy |-> {},
         todo |-> {}, listed |-> 0, start |-> 0, run |-> 0, wrote |-> {}]

Readings == UNION {[R -> Ages] : R \in SUBSET Ids}

Scan == [pc : {"down", "sweep", "close", "read", "work", "probed", "running", "deliver"},
         host : Hosts \cup {NoHost}, hand : BOOLEAN,
         rows : Readings,           \* the rows to sweep, and their ages then
         busy : SUBSET Targets,     \* the targets whose latest done or running row is running
         todo : SUBSET Targets,     \* what it still has to run
         listed : Ages,             \* seconds since listed_at
         start : Ages,              \* seconds since the run's `started`
         run : Ids \cup {0},        \* the row it works under
         wrote : SUBSET Ids]        \* the rows whose claim carries this process's start marker

TypeOK ==
    /\ sql_runs \in [Ids -> Row]
    /\ scan \in [Scans -> Scan]
    /\ alerts \in [Ids -> 0 .. 3]

Init ==
    /\ sql_runs = [r \in Ids |-> NoRow]
    /\ scan = [s \in Scans |-> Down]
    /\ alerts = [r \in Ids |-> 0]
-----------------------------------------------------------------------------
(* The table. *)

Rows == {r \in Ids : sql_runs[r].status # "none"}
Running == {r \in Rows : sql_runs[r].status = "running"}
RowsOf(t) == {r \in Rows : sql_runs[r].key = t}

\* Every row still running, not one per task.
fetch_running_sql_runs == Running

\* The newest done or running row of a target is running.
IsBusy(t) ==
    LET R == {r \in RowsOf(t) : sql_runs[r].status \in {"done", "running"}}
    IN  R # {} /\ Max(R) \in Running

\* Altered: the index is not there.
claim_held_Unindexed(t, h) == FALSE

\* ux_sql_runs_claim: one running row per (run_key, host_name).
claim_held(t, h) == \E r \in Running : sql_runs[r].key = t /\ sql_runs[r].host = h

\* sql_run_started_since: the store compares two texts of one clock.  Two clocks that have both
\* stopped at MaxAge may stand for either order.
StartedSince(t, s) == \E r \in RowsOf(t) : sql_runs[r].age <= scan[s].listed
NotStartedSince(t, s) ==
    \A r \in RowsOf(t) : sql_runs[r].age >= scan[s].listed /\ (sql_runs[r].age = scan[s].listed => scan[s].listed = MaxAge)

\* update_sql_run.  freed_by remembers who took the claim from under its owner.
Close(r, by) == [sql_runs EXCEPT ![r].status = "error", ![r].freed_by = IF by = NoHost THEN @ ELSE by]
Reported(r) == [alerts EXCEPT ![r] = IF @ < 3 THEN @ + 1 ELSE @]
-----------------------------------------------------------------------------
(* mark_stale_running_sql_runs. *)

\* A scan begins: it reads the file and the running rows.
StartScan(s, h) ==
    /\ scan[s].pc = "down"
    /\ scan' = [scan EXCEPT ![s] = [Down EXCEPT !.pc = "sweep", !.host = h,
                     !.rows = [r \in fetch_running_sql_runs |-> sql_runs[r].age]]]
    /\ UNCHANGED <<sql_runs, alerts>>

\* run-sql-id --force: the rows of the one task are swept, and it is run whether due or not.
RunByHand(s, h, t) ==
    /\ scan[s].pc = "down"
    /\ t \in Hands
    /\ scan' = [scan EXCEPT ![s] = [Down EXCEPT !.pc = "sweep", !.host = h, !.hand = TRUE, !.todo = {t},
                     !.rows = [r \in {q \in fetch_running_sql_runs : sql_runs[q].key = t} |-> sql_runs[r].age]]]
    /\ UNCHANGED <<sql_runs, alerts>>

ClaimOf(r) == [claim_pid |-> sql_runs[r].pid, claim_host |-> sql_runs[r].host,
                 claim_node |-> sql_runs[r].host, pid |-> NoPid, host_name |-> sql_runs[r].host]

\* Some scan of that host has the number.
is_pid_alive(h, p) == scan[p].pc # "down" /\ scan[p].host = h

\* The claim's start marker is this process's.
HasItsMarker(r) == r \in scan[sql_runs[r].pid].wrote

Verdict(s, r) ==
    LET h == scan[s].host
        timeout == Window[sql_runs[r].key].timeout
        pid_alive == sql_runs[r].host = h /\ is_pid_alive(h, sql_runs[r].pid)
    IN  reap_verdict(ClaimOf(r), h, scan[s].rows[r], timeout, pid_alive, Grace, h, sql_runs[r].host, TRUE)

Drop(rows, r) == [q \in DOMAIN rows \ {r} |-> rows[q]]

Sweeping(s) == scan[s].pc = "sweep" /\ DOMAIN scan[s].rows # {}
This(s) == Min(DOMAIN scan[s].rows)

\* The owner is at work and within its timeout, or cannot be asked.
SweepKeeps(s) ==
    /\ Sweeping(s)
    /\ ~Verdict(s, This(s)).reap
    /\ scan' = [scan EXCEPT ![s].rows = Drop(@, This(s))]
    /\ UNCHANGED <<sql_runs, alerts>>

\* Altered: the owner is left to work on.
stop_overdue_owner_Leaves(s, r) == {}

\* stop_overdue_owner: the processes it may stop, on this host and only by the claim's own marker.
stop_overdue_owner(s, r) ==
    {p \in {sql_runs[r].pid} : /\ Verdict(s, r).timed_out
                               /\ sql_runs[r].host = scan[s].host
                               /\ is_pid_alive(scan[s].host, p)
                               /\ HasItsMarker(r)}

\* The row is over: its owner is stopped before the row is closed.
SweepJudges(s) ==
    /\ Sweeping(s)
    /\ Verdict(s, This(s)).reap
    /\ \E stopped \in {stop_overdue_owner(s, This(s))} \cup (IF StopMayFail THEN {{}} ELSE {}) :
           scan' = [p \in Scans |-> IF p = s THEN [scan[s] EXCEPT !.pc = "close"]
                                    ELSE IF p \in stopped THEN Down ELSE scan[p]]
    /\ UNCHANGED <<sql_runs, alerts>>

\* Altered: the row is closed once, and reported by everyone who read it.
SweepCloses_AllReport(s) ==
    /\ scan[s].pc = "close"
    /\ sql_runs' = IF This(s) \in Running THEN Close(This(s), scan[s].host) ELSE sql_runs
    /\ alerts' = Reported(This(s))
    /\ scan' = [scan EXCEPT ![s].pc = "sweep", ![s].rows = Drop(@, This(s))]

\* Closed only while it is still running, and reported by the one whose close landed.
SweepCloses(s) ==
    LET r == This(s)
    IN  /\ scan[s].pc = "close"
        /\ \/ /\ r \in Running
              /\ sql_runs' = Close(r, scan[s].host)
              /\ alerts' = Reported(r)
           \/ /\ r \notin Running
              /\ UNCHANGED <<sql_runs, alerts>>
        /\ scan' = [scan EXCEPT ![s].pc = "sweep", ![s].rows = Drop(@, r)]

\* close_orphaned_run: an operator closes a row the sweep will not, whoever works under it.
CloseByHand(r) ==
    /\ OperatorCloses
    /\ r \in Running
    /\ sql_runs' = Close(r, "operator")
    /\ UNCHANGED <<scan, alerts>>
-----------------------------------------------------------------------------
(* run_scheduler_scan and run_one_sql_task. *)

Swept(s) == scan[s].pc = "sweep" /\ DOMAIN scan[s].rows = {}

\* listed_at, and the first of the two readings.
List(s) ==
    /\ Swept(s) /\ ~scan[s].hand
    /\ scan' = [scan EXCEPT ![s].pc = "read", ![s].listed = 0, ![s].busy = {t \in Targets : IsBusy(t)}]
    /\ UNCHANGED <<sql_runs, alerts>>

\* due_sql_tasks, on one target: the newest row of any status drives the schedule.
IsDue(t) ==
    LET last == Max(RowsOf(t))
    IN  due_from_row(Window[t], IF RowsOf(t) = {} THEN NeverRan ELSE sql_runs[last].age,
                     IF RowsOf(t) = {} THEN "none" ELSE sql_runs[last].status,
                     Window[t].repeat_interval, Unset, 300, TRUE)

\* The second reading, and the list.
ReadLatest(s) ==
    /\ scan[s].pc = "read"
    /\ scan' = [scan EXCEPT ![s].pc = "work", ![s].busy = {},
                            ![s].todo = {t \in Targets \ scan[s].busy : IsDue(t)}]
    /\ UNCHANGED <<sql_runs, alerts>>

\* By hand nothing is listed.
GoOn(s) ==
    /\ Swept(s) /\ scan[s].hand
    /\ scan' = [scan EXCEPT ![s].pc = "work"]
    /\ UNCHANGED <<sql_runs, alerts>>

Job(s) == Min(scan[s].todo)
NextJob(s) == [scan EXCEPT ![s].pc = "work", ![s].todo = @ \ {Job(s)}, ![s].run = 0, ![s].start = 0]

\* The probe finds a run of it: another scan took it since this one listed it.
TakenByAnother(s) ==
    /\ scan[s].pc = "work" /\ scan[s].todo # {} /\ ~scan[s].hand
    /\ StartedSince(Job(s), s)
    /\ scan' = NextJob(s)
    /\ UNCHANGED <<sql_runs, alerts>>

\* The probe finds none, or there is no probe; the run's `started` is read off the clock.
Probe(s) ==
    /\ scan[s].pc = "work" /\ scan[s].todo # {}
    /\ scan[s].hand \/ NotStartedSince(Job(s), s)
    /\ scan' = [scan EXCEPT ![s].pc = "probed", ![s].start = 0]
    /\ UNCHANGED <<sql_runs, alerts>>

\* bound: the table takes no more rows.
Full == Rows = Ids

\* The sql_run_id the store gives out next.
IsNext(r) == r \in Ids \ Rows /\ \A q \in Ids \ Rows : r <= q

\* insert_sql_run: the row is the claim.
Claim(s) ==
    /\ scan[s].pc = "probed"
    /\ ~claim_held(Job(s), scan[s].host)
    /\ \E r \in Ids :
          /\ IsNext(r)
          /\ sql_runs' = [sql_runs EXCEPT ![r] = [key |-> Job(s), host |-> scan[s].host, pid |-> s,
                              status |-> "running", age |-> scan[s].start, freed_by |-> NoHost]]
          /\ scan' = [scan EXCEPT ![s].pc = "running", ![s].run = r, ![s].wrote = @ \cup {r}, ![s].start = 0]
    /\ UNCHANGED alerts

\* RunAlreadyClaimed: a scan goes on to its next task, a run by hand ends.  (A table at its bound
\* refuses too.)
Refused(s) ==
    /\ scan[s].pc = "probed"
    /\ claim_held(Job(s), scan[s].host) \/ Full
    /\ scan' = IF scan[s].hand THEN [scan EXCEPT ![s] = Down] ELSE NextJob(s)
    /\ UNCHANGED <<sql_runs, alerts>>

\* The owner writes its result, whatever the row says by now.
RunDone(s) ==
    /\ scan[s].pc = "running"
    /\ sql_runs' = [sql_runs EXCEPT ![scan[s].run].status = "done"]
    /\ scan' = [scan EXCEPT ![s].pc = "deliver"]
    /\ UNCHANGED alerts

\* The handler records the failure, unguarded as well, and reports it.
RunFails(s) ==
    /\ scan[s].pc = "running"
    /\ sql_runs' = Close(scan[s].run, NoHost)
    /\ alerts' = Reported(scan[s].run)
    /\ scan' = NextJob(s)

\* Neither result could be written, and not for an outage: the scan counts an error and goes on.
NotRecorded(s) ==
    /\ scan[s].pc = "running"
    /\ scan' = NextJob(s)
    /\ UNCHANGED <<sql_runs, alerts>>

Delivers(s) ==
    /\ scan[s].pc = "deliver"
    /\ scan' = NextJob(s)
    /\ UNCHANGED <<sql_runs, alerts>>

\* A message about the result cannot be queued: the handler records the run as failed.
DeliveryFails(s) ==
    /\ scan[s].pc = "deliver"
    /\ sql_runs' = Close(scan[s].run, NoHost)
    /\ alerts' = Reported(scan[s].run)
    /\ scan' = NextJob(s)

ScanEnds(s) ==
    /\ scan[s].pc = "work" /\ scan[s].todo = {}
    /\ scan' = [scan EXCEPT ![s] = Down]
    /\ UNCHANGED <<sql_runs, alerts>>

\* The daemon kills the command at its timeout, the machine goes down, or the store is away.
Dies(s) ==
    /\ scan[s].pc # "down"
    /\ scan' = [scan EXCEPT ![s] = Down]
    /\ UNCHANGED <<sql_runs, alerts>>

Older(a) == IF a < MaxAge THEN a + 1 ELSE a

Listed == {"read", "work", "probed", "running", "deliver"}

\* A second passes.
Tick ==
    /\ sql_runs' = [r \in Ids |-> IF r \in Rows THEN [sql_runs[r] EXCEPT !.age = Older(@)] ELSE sql_runs[r]]
    /\ scan' = [s \in Scans |->
                   [scan[s] EXCEPT !.listed = IF scan[s].pc \in Listed /\ ~scan[s].hand THEN Older(@) ELSE @,
                                        !.start = IF scan[s].pc = "probed" THEN Older(@) ELSE @]]
    /\ UNCHANGED alerts

Works(s) ==
    \/ SweepKeeps(s) \/ SweepJudges(s) \/ SweepCloses(s) \/ GoOn(s) \/ List(s) \/ ReadLatest(s)
    \/ TakenByAnother(s) \/ Probe(s) \/ Claim(s) \/ Refused(s)
    \/ RunDone(s) \/ RunFails(s) \/ NotRecorded(s) \/ Delivers(s) \/ DeliveryFails(s) \/ ScanEnds(s)

Next ==
    \/ \E s \in Scans : Works(s) \/ Dies(s)
    \/ \E s \in Scans, h \in Hosts : StartScan(s, h) \/ \E t \in Targets : RunByHand(s, h, t)
    \/ \E r \in Ids : CloseByHand(r)
    \/ Tick

Spec == Init /\ [][Next]_vars
-----------------------------------------------------------------------------
Here(r) == {NoHost, sql_runs[r].host}

\* Two scans of one host never work on one task at the same time, however they overlap, are killed,
\* run out of time or are swept: the index refuses the second claim, and a sweep stops an overdue
\* owner before it frees the claim (runner.py:681-684).  Only an operator's close-run, or a sweep of
\* another host, which cannot stop it, takes the claim from under a process at work.
OneAtATime ==
    \A s, p \in Scans :
        LET r == scan[s].run  q == scan[p].run
        IN  /\ s # p /\ scan[s].pc = "running" /\ scan[p].pc = "running"
            /\ scan[s].host = scan[p].host /\ sql_runs[r].key = sql_runs[q].key
            => sql_runs[r].freed_by \notin Here(r) \/ sql_runs[q].freed_by \notin Here(q)

\* Ten scans read the same dead run; one reports it (runner.py:695-697), and never beside its owner's
\* own report unless a sweep of another host gave up a process it could not stop.
ReportedOnce ==
    \A r \in Ids : alerts[r] <= IF sql_runs[r].freed_by \in Here(r) \cup {"operator"} THEN 1 ELSE 2

\* A run that has ended keeps its ending (docstring of close_orphaned_run): no sweep that read the row
\* while it ran writes over its result.  The owner itself turns its `done` into `error` when the
\* message about it cannot be queued, and ends a row that was freed from under it.
ResultIsFinal ==
    [][\A r \in Rows :
          /\ sql_runs[r].status # "running"
          /\ sql_runs'[r].status # sql_runs[r].status
          => \/ sql_runs[r].freed_by \notin Here(r)
             \/ \E s \in Scans : scan[s].pc = "deliver" /\ scan[s].run = r]_vars
=============================================================================
