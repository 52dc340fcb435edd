# TLA+ models of dbabrain

dbabrain runs the routine work of database administration: it starts commands on a schedule,
collects metrics, runs SQL tasks, backups and restores, reports, and talks to operators through a
console and Telegram. What keeps all of this together is one daemon per node, a table of runs in a
shared store, and a handful of small rules about who may start what, and when. This project models
that core: the rules, the daemon, the table, the processes it starts and the queue of "run now"
requests; and three of the apps that run inside those processes, chosen because they have a protocol
of their own: the queue of outgoing Telegram messages, the SQL task runner, and the copy of backups
to a repository.

Paths below are relative to `src/dbabrain/` unless they start with `docs/`.

## 1. The system: inventory

| Part | State it keeps | Operations | Hard because | What makes it correct |
|---|---|---|---|---|
| Run claim rule, `lib/run_claim.py` | none (pure) | who owns a `running` row; may it be closed, by a sweep, by a daemon that starts | several spellings of an owner, host names that change, pids that mean nothing on another host | a live owner is never robbed; a dead one never blocks |
| Due rule, `lib/time_window.py` | none (pure) | is a run due, from its schedule and its latest row | run-once, manual, unset, zero, failed, still running, early-start grace | never twice at once, never early, never given up after a failure |
| App-command daemon, `jobs/daemon.py` with `lib/run_mode.py`, `lib/process_liveness.py`, `lib/node_identity.py` | `running_commands`, the snapshot of a scan | recover, collect, scan, start, stop | crashes between launch, insert and track; children that survive; several daemons; outages | one copy of a sync command, no live run loses its row, no owner writes a result twice, every command keeps running |
| Runs table, `db/store_job_runs.py`, `db/store_schema.py` | `job_runs`, unique index on (`claim_key`, `host_name`) of running rows | insert, update, latest per command, running rows, archive | read-then-write from several processes | a closed row stays as it was closed |
| Run requests, `db/run_requests.py` and the daemon's side of it | `app_command_requests` | request, cancel, claim, mark started, release, expire, close | two consoles and daemons between each other's statements; a daemon that dies holding one | one run per request, and no request that waits for ever |
| Store outage waiter, `lib/store_outage.py` | attempts, seconds waited | wait, recovered | budget and back-off over several outages | bounded wait per outage, fresh budget after a success |
| SQL task runner, `sql_tasks/`, `db/store_sql_runs.py` | `sql_runs` | list, probe, claim, run, deliver, sweep, close by hand | overlapping async scans that sweep each other's rows and stop each other's processes | one run of a task at a time, one report of a failure, no result written over |
| Metrics engine, `metrics/` | metric rows | collect in batches | timeouts per server | every due metric collected, none twice |
| Telegram app, `telegram/`, `db/store_telegram.py` | conversations, send queue, pauses | poll, take, send in pieces, mark, hand back, requeue | a pass killed with a row in flight, limits in the middle of a message, two senders | what reads `sent` is whole, nothing is lost, a second copy only where the code says so, order within a chat |
| Repository copy, `backup_restore/offload.py`, `copy_gate.py`, `db/backup_catalog.py` | `backup_files`, the files on two hosts | list, claim, copy, prove, release, expire, scrub | deletes that rely on what was read a step ago; a pass that dies between a delete and its row | every backup within its retention can be restored; the newest chain stays in both places; the server is freed |
| Backup and restore, the rest of `backup_restore/` | run rows, restore steps | schedule, run, drill | long runs and a stale-run check beside them | no second restore beside a live one, no result overwritten |
| Reports, SLA, SRE, control, common CLI, transport, logging | little or none | render, compute, copy, print | I/O | mostly outside a model's reach |
| Web host, `webhost/`, `db/web_auth_store.py`, `db/lockdown_store.py` | accounts, sessions, the open lockdown | log in, revoke, lock down | several nodes, one store | one open lockdown, ended by hand only |
| Configuration, `db/config_store.py`, `db/config_sync.py`; file lock, `lib/file_lock.py` | mirrored records; a lock file | sync, edit, soft removal; lock | two writers of one file | nothing dropped, nothing invented |

How they interact. A service manager starts the daemon. The daemon reads `app_commands.json`, asks
the due rule about each command with the latest row of the runs table, starts a child process, writes
the row with a claim (pid, host, node identity), and on later scans reaps the child and closes the
row. When it starts it asks the claim rule which `running` rows are nobody's. Consoles put rows into
`app_command_requests`; the daemon claims one, starts its command out of schedule and marks the
request. SQL tasks, metrics, backups and restores run inside those children and use the same two
rules against their own rows. All of them share one SQLite or PostgreSQL store and nothing else: there
are no locks between processes except the unique indexes and the conditional updates.

The hazards this exposes the code to are listed, each at its line, in `PROJECT.json`.

## 2. Modules

| Module | Models | Composes |
|---|---|---|
| `RunClaim` | `lib/run_claim.py`: `claim_owner`, `_owner_verdict`, `reap_verdict`, `startup_verdict` | |
| `DueRule` | `lib/time_window.py`: `repeat_due`, `explain_due`, `due_from_row`, the wall-clock window | |
| `StoreOutage` | `lib/store_outage.py`, and the loops of the daemon's `main` that wait the store out | |
| `JobDaemon` | the daemon, the runs table, the process tables of the machines, the file of commands | `RunClaim`, `DueRule` |
| `RunRequests` | the request queue, its consoles and the daemon's side of it | |
| `TelegramQueue` | `telegram/send_queue.py` over `telegram_send_messages`, and the calls to Telegram | `Outbox`, which it implements |
| `Outbox` | abstract: what the send queue promises its producers | |
| `SqlTasks` | `sql_tasks/runner.py` over `sql_runs` | `RunClaim`, `DueRule` |
| `Offload` | `backup_restore/offload.py` over the backup catalogue and the files of two hosts | |
| `JobDaemonProofs`, `RunRequestsProofs`, `TelegramQueueProofs`, `SqlTasksProofs`, `OffloadProofs` | theorems | the module of that name |
| `RulesProofs` | theorems about the three pure rules and the outage waiter, as `MCRules` asks them | `MCRules` |
| `NumberLemmas` | what `Min` of a set of numbers is | |
| `MCRules`, `MCJobDaemon`, `MCTelegramQueue`, `MCSqlTasks`, `MCOffload` | the instances TLC checks; `MCRules` asks the three pure rules in one run | |
| `MCSendQueue` | the send queue and whether anybody has run `send-one` on it yet | `MCTelegramQueue` |

**RunClaim and DueRule** are operators with the code's names. A verdict keeps what callers branch on
(`reap`, `timed_out`; `due`) and leaves the sentence out. The grace of `_due_grace_seconds` is five per
cent of an interval, a fraction of a second, so the rule counts in twentieths and stays exact. A window
of the wall clock is a set of weekdays and a pair of bounds for each part of a date.

**StoreOutage.** An error is the chain of exceptions `sqlstate` walks, each link with a code or none and
with or without one of the transient phrases. The actions are the ways a pass of either loop of `main`
can go (`PassFails`, `Initialized`, `GoodPass`, `Locked`), and the three places of `main` that ask no waiter:
start-up recovery between the loops (`Recovered`, `RecoveryFails`), the drain of a `--once` daemon behind them
(`Drained`, `DrainFails`), and an SQLite error other than a lock (`OtherSqliteError`). The waiter keeps
`backoff`, which is `2 ** attempts`. `slept` and `waits` count what was slept since the store last answered,
apart from what the waiter remembers.

**JobDaemon.** `job_runs` maps a log id to a row; `latest` is `max(log_id)` per command; `live` is the
set of processes, each with its host, pid, command and, once `insert_job_run` has returned, the row
written for it. A daemon is at `down`, `recover`, `collect`, `scan`, `spawned` or `stopping`. The actions follow
`main` and `run_scheduler_scan`:

| Actions | Code |
|---|---|
| `Start`, `RecoverRow` | `main` up to its loop; `recover_stale_running_jobs` reads the running rows once and closes them one by one |
| `CollectStillRunning`, `CollectTimedOut`, `CollectExited` | `collect_running_commands`, one child per step |
| `Snapshot`, `Skip`, `EndScan` | the reads at the head of a scan, a command that is passed over, the end |
| `Launch`, `Record`, `Refused` | `start_app_command`: Popen, then the insert, which the index may refuse |
| `LaunchFails`, `LaunchFailsUnrecorded` | a Popen that fails: `record_start_failure`, and its own failure |
| `RecordFails`, `RecordErrs`, `RecordErrsUnrecorded` | the insert after Popen fails: store trouble leaves the scan, any other error is recorded as a failed start, or is not; the child runs on |
| `ScanFails` | any other store call of the scan that fails |
| `StopBegins`, `StopChild`, `CloseStopped`, `StopEnds` | `close_running_on_shutdown`: each child is stopped and then its row closed, and the daemon may be killed in between |
| `Crash`, `Reboot` | SIGKILL, a machine or container that comes back, perhaps under another name |
| `ProcessExits`, `StrangerStarts`, `EditFile`, `Tick` | the rest of the world |

A step is what no other process can come between: one store call with the local work around it.
`todo` holds what the daemon read of the file, so an edit between the read and the use is possible. A
pid is free when no process has it and no daemon still has a child of that number to reap, as the
kernel keeps it.

**RunRequests.** One step is one statement, or the statements of one transaction that are safe against
each other. `cancel_request`, `expire_stale` and `claim` read and then write in separate steps, because
neither backend locks what was read. A start succeeds, is refused by the command's claim, fails, or fails
after the command was launched (`LaunchUnrecorded`: the insert raised). A daemon ends by `Stop`, which closes
the rows the store takes, or by `Crash`, and then any of its children may live on; `Start` closes the runs of
the life before but those (`outlived`). Each call the daemon makes to the queue may fail (`Trouble`), which
the code swallows: `FinishFails`, `SweepFails`, `ReadFails`, `ClaimFails`, `MarkFails`, `ReleaseFails`.

**TelegramQueue.** A message is its row and the pieces it goes out in: a document (piece 0) and the
parts of a long text. `rows` is the table with the age of a row in flight and the pieces a resumed send
skips (`parts_delivered`, `document_delivered`); `thread` is where each chat's thread of each sender is;
`shown` is what the chat has seen, which no code knows.

| Actions | Code |
|---|---|
| `Queue` | `insert_telegram_send_message`, called by every app that has something to say |
| `StartPass`, `Fetch`, `EndPass` | `send_pending_messages`: requeue what is stale, read rows and pauses, give each chat a thread, write the pauses |
| `StartOne` | the `send-one` command |
| `GiveUpForNow`, `ReadRow`, `mark_processing` | `send_chat` and the head of `send_one_message`: budget, read, take |
| `Delivered`, `Refused`, `AnswerLost`, `RateLimited` | one call to Telegram and what came of it |
| `record_sent`, `NotRecorded`, `mark_failed`, `reset_pending` | how the attempt ends |
| `ThreadFails`, `Killed` | a store call that raises; a process that ends |

`Outbox` has three actions: a message is accepted, a piece of it is shown, it is settled.
`KeepsItsPromise` is that specification under the mapping in which a row pending or in flight is waiting;
`KeepsItsPromiseUnaided` says it of every step before the first `send-one`.

**SqlTasks.** A scan is a process; the row it works under names the process, not the task. The sweep reads
the running rows once (`StartScan`, `RunByHand`), judges each by the age it had then, stops an overdue
owner of its own host (`SweepJudges`) and closes the row in a later step (`SweepCloses`). Then
`List`, `ReadLatest`, and for each task `TakenByAnother` or `Probe`, `Claim` or `Refused`, and
`RunDone`/`Delivers`, `RunFails`, `DeliveryFails` or `NotRecorded`. `CloseByHand` is `close-run`. A pid may
be used again by a later scan; `wrote` is the start marker by which the sweep tells the two apart.

**Offload.** The files of one database, numbered in the order they ended; `server` and `repo` hold what a
hash would say of each file in its two places. A pass goes through `List`, `Claim`, `HashSources`,
`HashTargets`, `CopyFile`, `MarkCopied`; `ReadFloor`, `Rehash`, `RefuseRelease`,
`DeleteSources`, `MarkPruned`; `Plan`, `DeleteCopies`, `MarkExpired`: one step per call to a host or the
store, and it may die between any two (`Dies`). `ItemsRaise` is a batch that raises while its files are
looked up, before the `try` that fails its rows; `CopyRaises` one that raises behind it; `HeldByTheDead` a
claim of a dead pass that is not reaped. Around it backups are recorded, files outlive their retention,
the scrub looks at the server, and something outside may remove or change a file.

## 3. Runs

| Run | Checks | Result |
|---|---|---|
| `rules` | the shared rules against references of their own. *Claim*, every row a store can hold against every reaper, as time passes and the owner may die: the verdicts are the docstring's table (`FreesExactlyTheTable`), never free a live owner here that nobody stops (`ReapedUnstoppedIsDead`), are never taken back (`VerdictsAreStable`). *Due*, a catalogue of schedules around each threshold: `RunningHoldsTheNext`, `IntervalIsKept`, `FailureIsRetried`, `DueIsStable`. *Window*, through whole weeks of a small clock: `OpensAndClosesOnItsBounds`, `WindowComesRound`. *Outage*: an outage of the two loops is waited for in full and no longer (`OutageIsWaitedOut`), and a definite answer is never waited on (`OnlyNotNowIsWaitedFor`) | holds |
| `same_host` | two daemons on one host, surviving children, reused pids, store failures, shutdowns that are cut short: `TypeOK`, `LiveRunHoldsItsRow`, `NoSecondCopy`, and a result is written over by nobody but a start-up recovery with an old reading (`ResultsAreKept`) | holds |
| `one_daemon` | one daemon with an async job and a service, and all disturbances but edits: `NoSecondCopy` | holds |
| `two_hosts` | two daemons on two hosts: `LiveRunHoldsItsRow`, with the grace for another host's run | holds |
| `container` | a container recreated under another name, commands edited: `CommandsKeepRunning` under fairness | holds |
| `requests` | one daemon with children that may outlive it and a store that may fail, two consoles that request and withdraw: nothing is launched for a request that has its run (`NothingAfterTheRecordedRun`), `EndedStays`, and under fairness `PendingIsResolved` and `StartedIsResolved` | holds |
| `send_queue` | two passes and a `send-one` over one message of three pieces: `TypeOK`, `SentIsWhole`, `RepeatsAreExcused`, `RequeuesOnlyTheAbandoned`, and, until the first `send-one`, the refinement of `Outbox` by two passes (`KeepsItsPromiseUnaided`) | holds |
| `send_live` | three messages of two chats, a pass with room for two rows: `NothingOvertakes`, and under fairness `EveryMessageIsSettled` | holds |
| `offload` | two passes of a host over two chains, killed anywhere: `NothingLost`, `ReleasedIsVouchedFor`, `VerifiedIsThere`, `RepositoryKeepsTheNewestChain`, `ExpiresWithItsChain` | holds |
| `offload_live` | one pass with room for one file, and a file that changes on its server or on the repository: `ServerKeepsTheNewestChain`, and under fairness `EveryBackupIsProven`, `TheServerIsFreed` | holds |
| `sql_tasks` | two scans on any of two hosts, runs by hand, `close-run`: `OneAtATime`, `ReportedOnce`, `ResultIsFinal` | holds |
| `orphan` | `CommandsKeepRunning` where a child may outlive its daemon | violated |

The type invariants of `RunRequests` and `Offload` are proved and no run lists them; that of `SqlTasks` is a
part of its inductive invariant.

Every property of a run that holds has a mutant, listed in `PROJECT.json`: an altered definition (marked
"Altered" beside the one it replaces) with which TLC finds that property violated.

### What the violated run shows

A child outlives its daemon; the daemon that comes back finds its pid alive and keeps the row; the child
then ends. No scan looks at a `running` row nobody tracks, so past its timeout the command is due, is
launched, and is refused by the row's claim, at every scan until the daemon is restarted.
`docs/03_app_command_daemon.md:236-238` promises the opposite.

### Disagreements met that are not among the runs

* With two daemons on a host, `recover_stale_running_jobs` may write `timeout` over a `done` the other
  wrote after the rows were read: it calls `update_job_run` without `only_if_running`
  (`jobs/daemon.py:1324`; the parameter's comment, `db/store_job_runs.py:237-240`, describes this very
  loss). `ResultsAreKept` names this as the one way in which a result is lost, and is checked with two
  daemons and proved for any.
* `max_parallel` counts the children this daemon tracks (`jobs/daemon.py:873`); async children that
  outlived an earlier one are not counted, while `lib/run_mode.py:42` speaks of processes alive at once.
* `cancel_request` reads `pending` and writes `cancelled` later without asking again
  (`db/run_requests.py:170`); a request withdrawn while a daemon holds it is still run, and
  `mark_started` writes over the word. `EndedStays` says what is left of "final".
* `explain_due` asks the repeat interval before it looks at a failure (`lib/time_window.py:619`): a
  `retry_interval` longer than the `repeat_interval` backs nothing off (`lib/time_window.py:126-128`).
* The insert fails after Popen (`jobs/daemon.py:953`): the child is neither stopped nor tracked, and the
  next scan starts another, against "one live subprocess per `app_command_id`"
  (`docs/03_app_command_daemon.md:290`). Allowed in `same_host` and `one_daemon`, whose properties speak
  of recorded children. If the command was asked for, its request goes back to the queue as one whose start
  "failed before anything ran" (`jobs/daemon.py:620`, `db/run_requests.py:263`) and is started again, by
  the same daemon. `NothingAfterTheRecordedRun` says what is left of one run per request.
* Start-up closes the row of a command the file no longer holds without asking whether its pid is alive
  (`jobs/daemon.py:1254`); put back, the command is started beside it, against `jobs/daemon.py:957-958`.
  The two safety theorems assume `FileIsWhole` for this reason.
* `claim` reads back a request that is `claimed`, not one that *it* claimed (`db/run_requests.py:239`), so
  the loser of a race also comes away with it, against `db/run_requests.py:224-226`. `requests` is
  therefore about one daemon.
* A daemon that dies between `claim` and `mark_started`, or is refused the command's claim
  (`jobs/daemon.py:971`), leaves the request `claimed` for ever, which `jobs/daemon.py:620-621` means to
  avoid; the sweeps look at `pending` and `started`. So does one whose `mark_started`, or whose `release`,
  was refused by the store, if the daemon then dies before it collects the run.
* `close_finished` is to close what "a daemon killed between starting a command and reaping it" left
  `started` (`db/run_requests.py:294-304`). Where the child outlived that daemon its row is kept at start-up
  and no scan closes it (the `orphan` run), so the badge stays although the run has ended, until the daemon
  is started again. `StartedIsResolved` names this exception (`Kept`).
* Start-up recovery reads and writes the store between the two loops that wait it out
  (`jobs/daemon.py:346`): an outage in it ends the daemon, although "a daemon started *during* a store
  restart must wait for it exactly as a running one does" (`jobs/daemon.py:310`). `StoreOutage` has the
  step (`RecoveryFails`). The same is true of a `--once` daemon that waits for its children: it collects them
  through the store outside the loop's `try` (`jobs/daemon.py:391-394`, `DrainFails`); and of an
  `sqlite3.OperationalError` that is not a lock, which is raised again without asking the waiter
  (`jobs/daemon.py:379`, `OtherSqliteError`). `OutageIsWaitedOut` is about the two loops.
* Telegram: "a chat's messages must arrive in the order they were written"
  (`telegram/send_queue.py:84-85`) does not survive a pass that was killed with a row in flight (the next
  pass sends the rows behind it first), a pass on a second node, or `send-one`; `NothingOvertakes` says
  what is left. What was delivered of a row is read before the row is taken
  (`telegram/send_queue.py:245,252`), so a resume may be out of date and show parts again. `send-one` has
  no timeout, so the stale window does not cover it, and it may write onto a row that a pass has taken
  meanwhile; the refinement is therefore for queues without it. With as many paused chats as `limit`
  (50), a pass takes only rows it then defers: `EveryChatFits` rules that out.
* SQL tasks: (a) between `sql_run_started_since` and the insert (`sql_tasks/runner.py:477`, `:892`) another
  scan may start and finish the task, and it runs again, which the comment there means to prevent; (b) the
  pid of an overdue row is the scan's, so a sweep with an old reading stops a scan that has finished that
  task and is on its next; (c) a message that cannot be queued turns `done` into `error`
  (`sql_tasks/runner.py:1185`) and SQL that was committed is retried; (d) a sweep of another host closes
  rows past their timeout whose process it cannot stop, and that process later writes its own result over
  it; a scan killed between the close and the alert loses the alert.
* Repository copy: the claim is per host (`db/store_schema.py:54`), so two hosts can run one entry at a
  time, and `NothingLost` is checked for one host. `expiry_plan` looks only at copies that are verified, so
  a dependent whose delete failed, or whose copy was refused, does not hold its full. The lockdown is read
  once per pass (`backup_restore/offload.py:661`) and the expiry on the repository does not ask for it. A
  pass that dies between the delete of a source and its row leaves a row the scrub reports `missing`; and
  a pass with an older list then marks a good copy `failed` and its row `missing`
  (`backup_restore/offload.py:367-373`).
* Repository copy, a batch that raises: `_items` is called before the `try` that fails the rows
  (`backup_restore/offload.py:305`, `:335`). A file that is not under `backup_dir` on a share (`:195-197`) or a
  folder that cannot be listed (`:276`) fails no row and sets no pause, the release and the expiry of the run
  are left out, and the next pass takes the same batch, although failures are to "never fill the batch and
  starve the files written since" (`db/backup_catalog.py:980-981`). Safety is checked with it (`ItemsRaise`); the
  two liveness properties hold where it stops, which `FairSpec` assumes. A directory that is gone when it is
  listed has no file to be missing, so its row stays `present`; and the claim of a dead pass stays where the
  entry has no timeout or its pid is somebody's (`backup_restore/schedule.py:177`, `HeldByTheDead`).

## 4. Bounds, and why they are enough

* **Age.** A row's age stops at `MaxAge`. The sample commands run every second and time out after one;
  the bound is past every threshold that run compares with, so older rows behave as a row of that age.
  `Grace` is 5 where every daemon is on one host (no rule reads it there) and 1 where it matters.
* **Log ids.** The store never reuses one; the model forgets a finished row that nothing refers to
  (`Forgettable`), so two or three ids serve runs without end. The view `Seen` identifies states that
  differ only in such rows, which no action reads.
* **Pids.** Two, so that a child can meet a duplicate or a stranger with its number; one in `container`,
  where liveness is checked without symmetry. Pids and log ids are interchangeable, and permuting them
  is a symmetry in the runs that check safety only.
* **Daemons, hosts, commands.** Every conflict in the code is between two parties. Two commands only
  where they differ (`one_daemon`: an async job and a run-once service that never times out).
* **Requests.** Two: one that is in work and one that is queued behind it. The store fails at one call of a
  behaviour (`MaxLapses`), whichever it is, so each failure meets every state that crashes, stops and consoles
  can bring about; what several failures do together the two safety theorems cover, for any number.
* **Instants.** `MCRules` looks at the seconds at, before and after each threshold of its intervals,
  including 600 s, where 5% meets the cap of 30 s. Its clock has four hours of two minutes, which is enough
  for a range to wrap, to be a single value and to have neither bound; weekdays are none, one, or all. The
  budget of an outage is 100 s with waits of at most 30, so the waits 2, 4, 8, 16, 30, 30, 10 all occur,
  the last one cut to what is left; an error is a chain of at most two links.
* **Messages.** `send_queue` has one message, for its properties speak of one row and its pieces, and
  three senders that cross over it, two of them passes, so that one may outlive its hold on the row; the document and two parts make every place where it can break off.
  `send_live` has two messages in one chat and a third in another behind them, and a batch of two, so the
  older chat could starve the younger.
* **SQL tasks.** Two scans and two rows: every conflict is between the process at work and one that
  sweeps or claims. All thresholds are one second, so ages stop at one.
* **Files.** Two fulls and a log: a chain to keep, one to release and expire, and a file that depends on
  a full. In `offload` the first is a directory, which is never released and does expire, alone or in one
  plan with its log, any part of which may be deleted; in
  `offload_live` the log was written while the second full ran, so its chain begins with the log. Two
  passes see `PerPass` 1, so that each has files left over.

Three runs turn the deadlock check off. In `rules` the clocks stop at their bounds and a daemon that has
ended stays so; in `offload` and `offload_live` a pass that finds nothing to do changes nothing.

## 5. Fairness

`WF(Start(d))`: a service manager restarts a daemon that has ended. `WF(Work(d))`: `main` loops for
ever, and waits out store failures. `WF(Tick)`, `WF(GrowsOld(r))`: time passes. In `RunRequests`,
`SF(CollectRun)`: a child that was started ends, or is stopped at its timeout, so a scan finds it ended
although it finds it running on the scans before; `WF(SurvivorEnds)`: so does one that outlived its daemon.
The store's failures have no fairness and are bounded in number, so they end. A daemon that is killed again and again gets nothing
done, so each liveness property is stated under `StayUp`: from some point on the daemons stay up; and
`CommandsKeepRunning` of the commands that stay active in the file. `orphan` adds that processes end
(`FairSpecWorkEnds`), which makes its counterexample stronger: even then the command is blocked.
No fairness is given to crashes, edits, consoles or to the exit of a process.

`TelegramQueue`: the daemon starts a pass again and again (`WF(StartPass)`), a pass and its threads go on,
pauses end and time passes. `EveryMessageIsSettled` assumes for the chat of the message that from some
point on (`Calm`) no process is killed, the store answers, Telegram no longer limits this chat and a pass
reaches it within its budget; of every other chat nothing is assumed. `Offload`: passes come a second
apart (`WF(List)`) and do their work; from some point on none is killed, cut off, refused by the claim of a
dead one, or raises in `_items` (the last is an assumption about the catalogue and the hosts that nothing in the
code makes true, see above); and, strong, the copy of a file
that is tried again and again arrives once, a delete is done once. `MCRules`: the wall clock goes on.

## 6. Proofs

`JobDaemonProofs` proves, for any numbers of daemons, machines, hosts, commands, pids and log ids that
satisfy `DaemonConstants` (the types of the constants) and `MachinesAreDistinct` (two machines never
share a host name; a node identity belongs to one tool root):

* `TypeCorrect`: `Spec => []TypeOK`.
* `LiveRunsKeepTheirRows`: `Spec /\ []FileIsWhole => []LiveRunHoldsItsRow`.
* `NoSecondCopyEver`: `Spec /\ []FileIsWhole => []NoSecondCopy`.
* `ResultsFallOnlyToRecovery`: `Spec => ResultsAreKept`.

`FileIsWhole` says that no command is taken out of the file (it may be deactivated). It is needed: the
counterexample without it is among the disagreements above.

*The argument.* Neither safety property is inductive. That a live run keeps its row rests on start-up
recovery judging rightly, and that on the row saying truly where its process lives. `ClaimInv` adds what
the claim rests on: a row that exists is a run of a command (`RowsAreRuns`); a recorded process has the
command, host and pid its row names, on a machine whose present name and identity the row carries
(`RowsTellTheTruth`); a child that is not yet recorded is alone with its pid (`ChildIsKnown`), so
`Record` attaches the row to the right process; a recovering daemon has read the whole file
(`WholeFileWasRead`); and the index holds (`OneClaim`). The lemma `RecoveredIsDead` is the heart: if
`startup_verdict` frees a row, its process is gone or the row is past timeout and grace. On this host
because the pid is not alive; for an earlier name of this node because a machine has one name at a time;
for another host because of the grace; and a row without an owner has no process. `NoSecondCopy` follows:
two recorded live children of one command on one host would be two running rows with one claim.

A shutdown that goes child by child needs `StoppedAreGone`: the child whose row is closed next has no
process. For the results, `OneOwner` says that a row is tracked by one daemon at most, and by the one that
wrote it only as long as the row has no result: an owner that has collected a run has let go of it, so
neither a second collection nor a shutdown meets its result again. A recovery reads rows it does not own,
which is why the exception is in the property and why `update_job_run` would have to ask there.

`TelegramQueueProofs` proves, for any messages, chats, parts, senders, retry counts, timeouts and floors
that satisfy `QueueConstants`:

* `QueueTypeCorrect`: `Spec => []TypeOK`.
* `SentReachedTheChat`: `Spec => []SentIsWhole`, send-one included.
* `RequeueIsSafe`: `Spec => RequeuesOnlyTheAbandoned`.
* `NoUnexcusedRepeat`: `Spec => []RepeatsAreExcused`.
* `ChatsKeepTheirOrder`: `Spec => NothingOvertakes`.
* `PassesKeepThePromise`: `Spec => KeepsItsPromise` where `Hands = {}`.

*The argument.* `QueueInv` adds to the type and `SentIsWhole`: a thread with a row in hand belongs to a
process that is sending, and the row to its chat (`ThreadsMakeSense`); what a row or a thread believes
delivered has been shown, and a thread about to record has shown all (`NothingIsImagined`), which makes
`SentIsWhole` inductive although every retry, resume and hand-over may start from a different belief; and
a row in the hands of a pass has been in flight no longer than the pass has lived (`HoldersAreYoung`).
From the last, a row older than `stale_in_flight_seconds`, which is above the timeout, is in no living
pass's hands: that is `RequeueIsSafe`. For the refinement `OneHolder` says that a row in hand is in flight
and in one sender's hands, which needs that nobody without a timeout takes rows; then no unconditional
update ever meets a settled row, and `RefinementStep` maps every step to a step of `Outbox` or a stutter.

`RepeatsAreExcused` needs the converse of `NothingIsImagined`: what was shown is known. `Accounts` says so of
every message that nothing has excused: while it waits its row knows exactly what the chat has seen, and
while it is in flight it has one holder, whose thread does. Each way in which that knowledge is lost (a lost
answer, a refusal after parts have landed, a row left in flight that comes back, one taken on an old reading)
is one of the excuses; a limit, however often it breaks a message off, is none. `NothingOvertakes` rests on `InTurn`: rows come in the order of
their numbers; what a pass has left of a chat is in that order behind what it has in hand; and for a pass
that has the queue to itself everything older that still waits is among what it was given. The lemma
`FetchedInOrder` is about the query: of a chat a pass is given the oldest rows, although `limit` cuts across
chats, because an older row of the same chat has fewer rows in front of it.

`RulesProofs` proves the ten safety properties of the run `rules` for the specification itself, for every set of
rows, reapers, schedules, windows, errors and every budget that the assumptions of the rules allow: the claim
table (`TheTableIsFreed`, `NobodyIsReapedAtWork`, `VerdictsStayGiven`), the due rule
(`ARunningRunHoldsTheNext`, `IntervalsAreKept`, `FailuresAreRetried`, `WhatIsDueStaysDue`), the window
(`WindowsTurnOnTheirBounds`) and the outage (`OutagesAreWaitedOut`, `DefiniteAnswersAreNotWaitedFor`). The
questions about pure rules need no more than the types; each rule gets a lemma with what it answers
(`SweepSays`, `StartupSays`, `DueSays`), from which its properties follow. The outage needs an invariant: between the first
failure of a loop and the store's next answer the waiter has counted every second slept (`WaiterCounts`), and a
transient error is let out of a loop only with the budget spent (`LetOut`); the places that ask no waiter end in
a phase of their own.

`RunRequestsProofs` proves `RequestsTypeCorrect` for any daemons, consoles, commands and requests, and for a
store with one daemon (`OneDaemon`):

* `NothingLaunchedAfterItsRun`: `Spec => NothingAfterTheRecordedRun`.
* `RequestEndedStays`: `Spec => EndedStays`.

With two daemons both are false, by the claim that reads back what another has claimed
(`db/run_requests.py:239`, above). *The argument.* Between a read and its write only a console can come, and a
console can only cancel. `Once` says what that leaves: a request that has a run in the books is never open to a
claim again (`StartedRows`); what `expire_stale` has read has not been claimed since (`SweptRows`); what is
tracked has its run (`TrackedRows`); what is in hand is as the daemon read or wrote it, or cancelled
(`HeldRows`). A launch that could not be recorded is in no book, and the theorem says nothing of it.

`OffloadProofs` proves, for any files, chains, passes and harm from outside that satisfy `OffloadConstants`, and
any number of hosts:

* `OffloadTypeCorrect`: `Spec => []TypeOK`.
* `OnePassWorksAtATime`: at most one pass of a host is between its claim and its end.
* `ReleasedStaysVouchedFor`: `Spec => []ReleasedIsVouchedFor`.
* `ServerKeepsItsNewestChain`: `Spec => []ServerKeepsTheNewestChain`.

and where all passes are of one host (`OneHostRuns`; the claim is per host, so with two hosts what a pass has
read on the repository may be gone when it relies on it): `NoBackupIsLost`, `VerifiedCopiesAreThere`,
`RepositoryKeepsItsNewestChain`, `FullsExpireWithTheirChain`.

*The argument.* A pass deletes on the strength of what it read some steps ago, and the catalogue may say a file
is present that another pass has deleted and not yet recorded. `ServerInv` and `RepoInv` therefore do not say
that what the catalogue lists is there, but that it is there *or older than a chain whose full is there*
(`Covered`), and the same of everything a pass is about to delete. To keep this when a set of fulls is
deleted at once one needs the latest chain to survive: `ChainsStay`, from the greatest element of a finite set
(`GreatestExists`). `RepoInv` adds that what a pass has proven good stays so until it acts (no other pass works),
that what it is about to delete on the server is good on the repository, and that what it expires, and all
that depends on it, has outlived its retention.

`SqlTasksProofs` proves, for any scans, hosts, tasks, windows, rows and pids that satisfy `SqlConstants`, where a
process that is stopped ends (`~StopMayFail`; where one survives SIGKILL, `stop_overdue_owner` says so in the
message and the row is closed all the same):

* `TasksRunOneAtATime`: `Spec => []OneAtATime`.
* `FailuresAreReportedOnce`: `Spec => []ReportedOnce`.
* `ResultsAreFinal`: `Spec => ResultIsFinal`.

*The argument.* A sweep judges a row by an old reading and closes it a step later. `JudgedRight` says that in
between nobody works under the row, if the sweep is of its host: it was dead, or past its timeout and stopped
(`TheLivingAreTimedOut`: the rule frees the row of a living process of this host only with `timed_out`, and then
it is stopped first), and a row is never worked under again. So a scan at work finds its claim freed from
outside or not at all (`FreedFromOutside`), and the index (`OneClaim`) does the rest. `WholeRows` and
`FreedFromOutside` also count the reports: none while a row runs, and at most one when its owner comes to report.

What stays with TLC is liveness, for the prover has no fairness: `CommandsKeepRunning`, `PendingIsResolved`,
`StartedIsResolved`, `EveryMessageIsSettled`, `EveryBackupIsProven`, `TheServerIsFreed`, `WindowComesRound`. Every
other property of a run that holds is stated by a theorem, `KeepsItsPromiseUnaided` by `PassesKeepThePromise`
for a queue nobody sends from by hand.

## 7. What is left out

*Daemon*: the history sweeps, the daemon-state file, the forwarding of keys to children, the log lines, and
processes that survive SIGKILL (`stop_process_tree` returning false or raising, which the shutdown swallows
before it closes the row), and log files that cannot be written. `JobDaemon` lets a `Windowed` command
be skipped at any time instead of asking the clock. *Due rule*: the next-due time; parsing and validation.
*Outage*: the seconds of the back-off for a locked SQLite. *Telegram*: receiving, conversations, commands,
how a text is split, how long a pause is. *SQL tasks*: what SQL is run and how, output files, wall-clock
windows, rows of tasks that are no longer in the file, tasks of several files; a process that refuses to be
stopped is in the model (`StopMayFail`) but in no run. *Repository copy*: one database per entry, a full is
one file, no certificates or control files, verdicts other than ok; the three lists are read in one step,
the rounds of one file's copy are one step, and so are a failed copy's two updates of its row; a dead pass's
claim is known while its slot is not used again.

## Not modelled

Taking backups, their schedule and the restore workflow (vendor commands on other hosts; the claim they use
is `RunClaim`'s), the metrics engine, the web host and the configuration mirror: in the plan. Reports, SLA,
SRE, control, the command line, transport and logging are queries, arithmetic on their own data, rendering
and I/O, with no protocol that a model of states would add to. They are most of the repository's lines:
the models cover the code in which two processes meet, and that is a small part of it.

## 8. Plan

Done: the rules, `JobDaemon`, `RunRequests`, `TelegramQueue` with `Outbox`, `SqlTasks`, `Offload`; a theorem for
every safety property that a run checks. Next:

1. Proofs: an exclusive slot per (command, host) as the abstract specification `JobDaemon` implements for sync
   commands; what is left of `SqlTasks` where a process may refuse to be stopped; what is left of the requests
   with two daemons.
2. `BackupSchedule`: the schedule rows of backups and restores and their stale-run check; the restore
   workflow's steps.
3. The archive of `job_runs` beside the requests' `close_finished`, which reads what it may have moved.
4. `Lockdown`, `WebSessions`, `ConfigSync`; the metrics engine's collection.
5. Composition: `RunRequests` with `JobDaemon`, so that the request's run is the row of the table.
