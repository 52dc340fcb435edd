---------------------------- MODULE RunRequests -----------------------------
(***************************************************************************)
(* The "run now" queue: dbabrain/db/run_requests.py, its table             *)
(* app_command_requests, and the daemon's side of it in                    *)
(* dbabrain/jobs/daemon.py.                                                *)
(*                                                                         *)
(* A step is one statement, or the statements of one method that no other  *)
(* connection can come between: a read that decides and the write that     *)
(* follows it are two steps, because neither backend locks what was read.  *)
(* How a command is started is JobDaemon's; here a start succeeds, is      *)
(* refused by the claim on the command, or fails, before or after the      *)
(* command was launched.  A call on the queue may fail too: the daemon     *)
(* swallows that and goes on, and so does the console's user.              *)
(***************************************************************************)
EXTENDS Integers, FiniteSets

CONSTANTS
    Daemons, Clients, Commands,
    MaxRequests,    \* bound: the requests ever made
    MaxLapses,      \* bound: how often the store fails in the middle of the daemon's work
    NoCommand, NoDaemon,
    MayCancel       \* may an operator withdraw a request?

ASSUME RequestConstants ==
    /\ MaxRequests \in Nat /\ MaxLapses \in Nat
    /\ MayCancel \in BOOLEAN
    /\ NoCommand \notin Commands /\ NoDaemon \notin Daemons

Ids == 1 .. MaxRequests
NoId == 0

OpenStatuses == {"pending", "claimed", "started"}
FinalStatuses == {"done", "cancelled", "expired"}

VARIABLES
    requests,   \* the table: request_id -> row
    starts,     \* how often a command has been launched for a request (history)
    runs,       \* the job_runs row a daemon wrote for a request
    pc,         \* where each daemon is in its scan
    req,        \* the request it holds
    stale,      \* the pending requests its expire_stale has read
    wanted,     \* the commands with a pending request, as its scan read them
    tracked,    \* the requests whose runs it tracks
    outlived,   \* the requests whose runs outlived the daemon that started them
    client,     \* what each console is doing
    lapses      \* how often the store has failed (history)

vars == <<requests, starts, runs, pc, req, stale, wanted, tracked, outlived, client, lapses>>
daemonVars == <<pc, req, stale, wanted, tracked, outlived>>

NoRequest == [cmd |-> NoCommand, status |-> "none", old |-> FALSE, run |-> NoDaemon]
IdleClient == [at |-> "idle", cmd |-> NoCommand, id |-> NoId]

TypeOK ==
    /\ requests \in [Ids -> [cmd : Commands \cup {NoCommand},
                             status : OpenStatuses \cup FinalStatuses \cup {"none"},
                             old : BOOLEAN, run : Daemons \cup {NoDaemon}]]
    /\ starts \in [Ids -> Nat]
    /\ runs \in [Daemons -> [Ids -> {"none", "running", "finished"}]]
    /\ pc \in [Daemons -> {"down", "collect", "finish", "expire", "close", "scan", "claim",
                           "drop", "start", "mark", "release"}]
    /\ req \in [Daemons -> Ids \cup {NoId}]
    /\ stale \in [Daemons -> SUBSET Ids]
    /\ wanted \in [Daemons -> SUBSET Commands]
    /\ tracked \in [Daemons -> SUBSET Ids]
    /\ outlived \in [Daemons -> SUBSET Ids]
    /\ client \in [Clients -> [at : {"idle", "insert", "cancel"}, cmd : Commands \cup {NoCommand},
                               id : Ids \cup {NoId}]]
    /\ lapses \in 0 .. MaxLapses

Init ==
    /\ requests = [r \in Ids |-> NoRequest]
    /\ starts = [r \in Ids |-> 0]
    /\ runs = [d \in Daemons |-> [r \in Ids |-> "none"]]
    /\ pc = [d \in Daemons |-> "down"]
    /\ req = [d \in Daemons |-> NoId]
    /\ stale = [d \in Daemons |-> {}]
    /\ wanted = [d \in Daemons |-> {}]
    /\ tracked = [d \in Daemons |-> {}]
    /\ outlived = [d \in Daemons |-> {}]
    /\ client = [k \in Clients |-> IdleClient]
    /\ lapses = 0
-----------------------------------------------------------------------------
(* The table. *)

Status(r) == requests[r].status
Has(r, s) == requests[r].status = s

\* pending_for, and the unique index on the pending row of a command.
PendingFor(c) == {r \in Ids : Has(r, "pending") /\ requests[r].cmd = c}

\* An UPDATE ... WHERE request_id = ?, whatever the row says.
Set(r, s) == [requests EXCEPT ![r].status = s]

\* open_requests keeps the last open row of a command; the daemon then keeps the pending ones.
LastOpen(c) ==
    {r \in Ids : /\ Status(r) \in OpenStatuses /\ requests[r].cmd = c
                 /\ \A q \in Ids : Status(q) \in OpenStatuses /\ requests[q].cmd = c => q <= r}
open_run_requests == {c \in Commands : \E r \in LastOpen(c) : Has(r, "pending")}
-----------------------------------------------------------------------------
(* The console: request_run and cancel_request. *)

\* request_run reads first: a command that is already waiting is not queued again.
RequestReads(k, c) ==
    /\ client[k] = IdleClient
    /\ PendingFor(c) = {}
    /\ \E r \in Ids : Has(r, "none")
    /\ client' = [client EXCEPT ![k] = [at |-> "insert", cmd |-> c, id |-> NoId]]
    /\ UNCHANGED <<requests, starts, runs, daemonVars, lapses>>

\* ... then inserts the next row, unless the index refuses it.
RequestInserts(k) ==
    LET c == client[k].cmd
    IN  /\ client[k].at = "insert"
        /\ client' = [client EXCEPT ![k] = IdleClient]
        /\ \/ /\ PendingFor(c) = {}
              /\ \E r \in Ids :
                     /\ Has(r, "none")
                     /\ \A q \in Ids : Has(q, "none") => r <= q
                     /\ requests' = [requests EXCEPT ![r] =
                            [cmd |-> c, status |-> "pending", old |-> FALSE, run |-> NoDaemon]]
           \/ PendingFor(c) # {} /\ UNCHANGED requests
           \/ (\A r \in Ids : ~Has(r, "none")) /\ UNCHANGED requests
        /\ UNCHANGED <<starts, runs, daemonVars, lapses>>

CancelReads(k, r) ==
    /\ MayCancel
    /\ client[k] = IdleClient
    /\ Has(r, "pending")
    /\ client' = [client EXCEPT ![k] = [at |-> "cancel", cmd |-> NoCommand, id |-> r]]
    /\ UNCHANGED <<requests, starts, runs, daemonVars, lapses>>

CancelWrites(k) ==
    /\ client[k].at = "cancel"
    /\ requests' = Set(client[k].id, "cancelled")
    /\ client' = [client EXCEPT ![k] = IdleClient]
    /\ UNCHANGED <<starts, runs, daemonVars, lapses>>

\* More than DEFAULT_REQUEST_TTL_SECONDS pass and nobody has picked it up.
GrowsOld(r) ==
    /\ Has(r, "pending") /\ ~requests[r].old
    /\ requests' = [requests EXCEPT ![r].old = TRUE]
    /\ UNCHANGED <<starts, runs, daemonVars, client, lapses>>
-----------------------------------------------------------------------------
(* The daemon: a scan collects, sweeps the queue, reads it and claims. *)

Goto(d, s) == pc' = [pc EXCEPT ![d] = s]

\* The store fails for a moment.
Lapse == lapses < MaxLapses /\ lapses' = lapses + 1

\* Start-up recovery closes the runs of the life before, except those whose process is still there: it
\* keeps their rows, and nothing looks at them again before the next start-up.
Start(d) ==
    /\ pc[d] = "down"
    /\ Goto(d, "collect")
    /\ runs' = [runs EXCEPT ![d] = [r \in Ids |->
           IF @[r] = "running" /\ r \notin outlived[d] THEN "finished" ELSE @[r]]]
    /\ UNCHANGED <<requests, starts, req, stale, wanted, tracked, outlived, client, lapses>>

Forget(d) ==
    /\ Goto(d, "down")
    /\ req' = [req EXCEPT ![d] = NoId]
    /\ stale' = [stale EXCEPT ![d] = {}]
    /\ wanted' = [wanted EXCEPT ![d] = {}]
    /\ tracked' = [tracked EXCEPT ![d] = {}]

\* The daemon is killed, or ends by an error, wherever it is.  A child ends with it or lives on; one whose
\* number a stranger takes looks the same to the next start-up.
Crash(d, survivors) ==
    /\ pc[d] # "down"
    /\ survivors \subseteq tracked[d]
    /\ Forget(d)
    /\ outlived' = [outlived EXCEPT ![d] = @ \cup survivors]
    /\ UNCHANGED <<requests, starts, runs, client, lapses>>

\* SIGTERM: close_running_on_shutdown stops the children and closes the rows the store takes, and leaves
\* the requests to a later sweep.
Stop(d, closed) ==
    /\ pc[d] # "down"
    /\ closed \subseteq tracked[d]
    /\ Forget(d)
    /\ runs' = [runs EXCEPT ![d] = [r \in Ids |-> IF r \in closed THEN "finished" ELSE @[r]]]
    /\ UNCHANGED <<requests, starts, outlived, client, lapses>>

\* A child that outlived its daemon ends.  Nobody is told.
SurvivorEnds(d, r) ==
    /\ r \in outlived[d]
    /\ outlived' = [outlived EXCEPT ![d] = @ \ {r}]
    /\ UNCHANGED <<requests, starts, runs, pc, req, stale, wanted, tracked, client, lapses>>

\* collect_running_commands closes the run of a process that has ended ...
CollectRun(d, r) ==
    /\ pc[d] = "collect"
    /\ r \in tracked[d]
    /\ runs' = [runs EXCEPT ![d][r] = "finished"]
    /\ req' = [req EXCEPT ![d] = r]
    /\ Goto(d, "finish")
    /\ UNCHANGED <<requests, starts, stale, wanted, tracked, outlived, client, lapses>>

\* ... and then the request it answered, with mark_done.
FinishRequest(d) ==
    /\ pc[d] = "finish"
    /\ requests' = Set(req[d], "done")
    /\ tracked' = [tracked EXCEPT ![d] = @ \ {req[d]}]
    /\ req' = [req EXCEPT ![d] = NoId]
    /\ Goto(d, "collect")
    /\ UNCHANGED <<starts, runs, stale, wanted, outlived, client, lapses>>

\* The store would not take that: the run is let go of all the same.
FinishFails(d) ==
    /\ Lapse
    /\ pc[d] = "finish"
    /\ tracked' = [tracked EXCEPT ![d] = @ \ {req[d]}]
    /\ req' = [req EXCEPT ![d] = NoId]
    /\ Goto(d, "collect")
    /\ UNCHANGED <<requests, starts, runs, stale, wanted, outlived, client>>

\* Altered: requests of any status are read.
SweepReads_AnyStatus(d) ==
    /\ pc[d] = "collect"
    /\ stale' = [stale EXCEPT ![d] = {r \in Ids : ~Has(r, "none") /\ requests[r].old}]
    /\ Goto(d, "expire")
    /\ UNCHANGED <<requests, starts, runs, req, wanted, tracked, outlived, client, lapses>>

\* Altered: nothing is read.
SweepReads_Nothing(d) ==
    /\ pc[d] = "collect"
    /\ Goto(d, "expire")
    /\ UNCHANGED <<requests, starts, runs, req, stale, wanted, tracked, outlived, client, lapses>>

\* sweep_run_requests: expire_stale reads the pending requests that are too old ...
SweepReads(d) ==
    /\ pc[d] = "collect"
    /\ stale' = [stale EXCEPT ![d] = {r \in Ids : Has(r, "pending") /\ requests[r].old}]
    /\ Goto(d, "expire")
    /\ UNCHANGED <<requests, starts, runs, req, wanted, tracked, outlived, client, lapses>>

\* ... and expires each of them,
SweepExpires(d, r) ==
    /\ pc[d] = "expire"
    /\ r \in stale[d]
    /\ requests' = Set(r, "expired")
    /\ stale' = [stale EXCEPT ![d] = @ \ {r}]
    /\ UNCHANGED <<starts, runs, pc, req, wanted, tracked, outlived, client, lapses>>

\* Altered: only the daemon that reaps a run closes its request.
CloseFinished_Never(d) ==
    /\ pc[d] = "expire"
    /\ stale[d] = {}
    /\ Goto(d, "close")
    /\ UNCHANGED <<requests, starts, runs, req, stale, wanted, tracked, outlived, client, lapses>>

\* and close_finished closes the started requests whose run has finished.  The update is guarded by
\* the status it was chosen for, so reading and writing are one step.
CloseFinished(d) ==
    /\ pc[d] = "expire"
    /\ stale[d] = {}
    /\ requests' = [r \in Ids |->
           IF /\ Has(r, "started") /\ requests[r].run # NoDaemon
              /\ runs[requests[r].run][r] = "finished"
           THEN [requests[r] EXCEPT !.status = "done"] ELSE requests[r]]
    /\ Goto(d, "close")
    /\ UNCHANGED <<starts, runs, req, stale, wanted, tracked, outlived, client, lapses>>

\* Either half of the sweep fails, and the sweep is over: expire_stale, with nothing expired, or
\* close_finished after it.
SweepFails(d) ==
    /\ Lapse
    /\ pc[d] = "collect" \/ (pc[d] = "expire" /\ stale[d] = {})
    /\ Goto(d, "close")
    /\ UNCHANGED <<requests, starts, runs, req, stale, wanted, tracked, outlived, client>>

ReadsQueue(d) ==
    /\ pc[d] = "close"
    /\ wanted' = [wanted EXCEPT ![d] = open_run_requests]
    /\ Goto(d, "scan")
    /\ UNCHANGED <<requests, starts, runs, req, stale, tracked, outlived, client, lapses>>

\* "Empty when the queue cannot be read."
ReadFails(d) ==
    /\ Lapse
    /\ pc[d] = "close"
    /\ Goto(d, "scan")
    /\ UNCHANGED <<requests, starts, runs, req, stale, wanted, tracked, outlived, client>>

EndScan(d) ==
    /\ pc[d] = "scan"
    /\ wanted[d] = {}
    /\ Goto(d, "collect")
    /\ UNCHANGED <<requests, starts, runs, req, stale, wanted, tracked, outlived, client, lapses>>

\* The command is in flight, or the pending request could not be read: it waits for a later scan.
RequestWaits(d, c) ==
    /\ pc[d] = "scan"
    /\ c \in wanted[d]
    /\ wanted' = [wanted EXCEPT ![d] = @ \ {c}]
    /\ UNCHANGED <<requests, starts, runs, pc, req, stale, tracked, outlived, client, lapses>>

\* claim: the pending request is read; one that is too old is to be expired instead.
ClaimReads(d, c) ==
    /\ pc[d] = "scan"
    /\ c \in wanted[d]
    /\ wanted' = [wanted EXCEPT ![d] = @ \ {c}]
    /\ \/ PendingFor(c) = {} /\ UNCHANGED <<pc, req>>
       \/ \E r \in PendingFor(c) :
              /\ req' = [req EXCEPT ![d] = r]
              /\ Goto(d, IF requests[r].old THEN "drop" ELSE "claim")
    /\ UNCHANGED <<requests, starts, runs, stale, tracked, outlived, client, lapses>>

\* _finish(EXPIRED) writes whatever the row says by now.
ClaimExpires(d) ==
    /\ pc[d] = "drop"
    /\ requests' = Set(req[d], "expired")
    /\ req' = [req EXCEPT ![d] = NoId]
    /\ Goto(d, "scan")
    /\ UNCHANGED <<starts, runs, stale, wanted, tracked, outlived, client, lapses>>

\* The conditional UPDATE, and the SELECT of a claimed row with this id in the same transaction: the
\* row that comes back is the answer.
ClaimWrites(d) ==
    /\ pc[d] = "claim"
    /\ requests' = IF Has(req[d], "pending") THEN Set(req[d], "claimed") ELSE requests
    /\ IF requests'[req[d]].status = "claimed"
       THEN Goto(d, "start") /\ UNCHANGED req
       ELSE Goto(d, "scan") /\ req' = [req EXCEPT ![d] = NoId]
    /\ UNCHANGED <<starts, runs, stale, wanted, tracked, outlived, client, lapses>>

\* claim, or its expiry, fails: nothing was written, or it was and the answer was lost.
ClaimFails(d) ==
    /\ Lapse
    /\ pc[d] \in {"claim", "drop"}
    /\ \/ UNCHANGED requests
       \/ pc[d] = "claim" /\ Has(req[d], "pending") /\ requests' = Set(req[d], "claimed")
       \/ pc[d] = "drop" /\ requests' = Set(req[d], "expired")
    /\ req' = [req EXCEPT ![d] = NoId]
    /\ Goto(d, "scan")
    /\ UNCHANGED <<starts, runs, stale, wanted, tracked, outlived, client>>

\* Altered: a start whose note fails is taken for a failed start.
Starts_ThenReleases(d) ==
    /\ pc[d] = "start"
    /\ starts' = [starts EXCEPT ![req[d]] = @ + 1]
    /\ runs' = [runs EXCEPT ![d][req[d]] = "running"]
    /\ Goto(d, "release")
    /\ UNCHANGED <<requests, req, stale, wanted, tracked, outlived, client, lapses>>

\* start_app_command has launched the command and written its row.
Starts(d) ==
    /\ pc[d] = "start"
    /\ starts' = [starts EXCEPT ![req[d]] = @ + 1]
    /\ runs' = [runs EXCEPT ![d][req[d]] = "running"]
    /\ tracked' = [tracked EXCEPT ![d] = @ \cup {req[d]}]
    /\ Goto(d, "mark")
    /\ UNCHANGED <<requests, req, stale, wanted, outlived, client, lapses>>

\* mark_started.
MarkStarted(d) ==
    /\ pc[d] = "mark"
    /\ requests' = [requests EXCEPT ![req[d]].status = "started", ![req[d]].run = d]
    /\ req' = [req EXCEPT ![d] = NoId]
    /\ Goto(d, "scan")
    /\ UNCHANGED <<starts, runs, stale, wanted, tracked, outlived, client, lapses>>

\* The store would not take that: the command runs all the same, and its request stays claimed until the
\* run is collected.
MarkFails(d) ==
    /\ Lapse
    /\ pc[d] = "mark"
    /\ req' = [req EXCEPT ![d] = NoId]
    /\ Goto(d, "scan")
    /\ UNCHANGED <<requests, starts, runs, stale, wanted, tracked, outlived, client>>

\* RunAlreadyClaimed: start_app_command returns as it does after a start.
StartRefused(d) ==
    /\ pc[d] = "start"
    /\ req' = [req EXCEPT ![d] = NoId]
    /\ Goto(d, "scan")
    /\ UNCHANGED <<requests, starts, runs, stale, wanted, tracked, outlived, client, lapses>>

\* The command could not be launched.
StartFails(d) ==
    /\ pc[d] = "start"
    /\ Goto(d, "release")
    /\ UNCHANGED <<requests, starts, runs, req, stale, wanted, tracked, outlived, client, lapses>>

\* The command was launched and its row could not be written.  The daemon takes that for a start that
\* failed "before anything ran", and the child runs on, in nobody's books.
LaunchUnrecorded(d) ==
    /\ Lapse
    /\ pc[d] = "start"
    /\ starts' = [starts EXCEPT ![req[d]] = @ + 1]
    /\ Goto(d, "release")
    /\ UNCHANGED <<requests, runs, req, stale, wanted, tracked, outlived, client>>

\* The scan goes on, or, where the store has gone away, is left and begun again.
AfterRelease(d) ==
    /\ req' = [req EXCEPT ![d] = NoId]
    /\ \/ Goto(d, "scan") /\ UNCHANGED wanted
       \/ Goto(d, "collect") /\ wanted' = [wanted EXCEPT ![d] = {}]

\* release: back to pending if it is still claimed and the index has room for it.
Release(d) ==
    /\ pc[d] = "release"
    /\ requests' = IF Has(req[d], "claimed") /\ PendingFor(requests[req[d]].cmd) = {}
                   THEN Set(req[d], "pending") ELSE requests
    /\ AfterRelease(d)
    /\ UNCHANGED <<starts, runs, stale, tracked, outlived, client, lapses>>

\* ... or not: the request stays claimed.
ReleaseFails(d) ==
    /\ Lapse
    /\ pc[d] = "release"
    /\ AfterRelease(d)
    /\ UNCHANGED <<requests, starts, runs, stale, tracked, outlived, client>>
-----------------------------------------------------------------------------
Console(k) ==
    \/ \E c \in Commands : RequestReads(k, c)
    \/ RequestInserts(k)
    \/ \E r \in Ids : CancelReads(k, r)
    \/ CancelWrites(k)

Work(d) ==
    \/ \E r \in Ids : CollectRun(d, r)
    \/ FinishRequest(d)
    \/ SweepReads(d)
    \/ \E r \in Ids : SweepExpires(d, r)
    \/ CloseFinished(d)
    \/ ReadsQueue(d)
    \/ \E c \in Commands : RequestWaits(d, c)
    \/ \E c \in Commands : ClaimReads(d, c)
    \/ ClaimExpires(d)
    \/ ClaimWrites(d)
    \/ Starts(d)
    \/ MarkStarted(d)
    \/ StartRefused(d)
    \/ StartFails(d)
    \/ Release(d)
    \/ EndScan(d)

\* What a store that fails for a moment does to it.
Trouble(d) ==
    \/ FinishFails(d)
    \/ SweepFails(d)
    \/ ReadFails(d)
    \/ ClaimFails(d)
    \/ LaunchUnrecorded(d)
    \/ MarkFails(d)
    \/ ReleaseFails(d)

Next ==
    \/ \E k \in Clients : Console(k)
    \/ \E r \in Ids : GrowsOld(r)
    \/ \E d \in Daemons : Start(d) \/ Work(d) \/ Trouble(d)
    \/ \E d \in Daemons, children \in SUBSET Ids : Crash(d, children) \/ Stop(d, children)
    \/ \E d \in Daemons, r \in Ids : SurvivorEnds(d, r)

Spec == Init /\ [][Next]_vars
-----------------------------------------------------------------------------
\* A run has been written for this request.
Recorded(r) == \E d \in Daemons : runs[d][r] # "none"

\* One request, one run: whatever is cancelled, released, expired, restarted or fails around it, nothing
\* more is launched for a request once a run is recorded for it.  (Before, it may be: a command that was
\* launched and whose row was refused goes back to the queue and is launched again, though release is for
\* a start that "failed before anything ran", run_requests.py:263 and daemon.py:620.)
NothingAfterTheRecordedRun ==
    [][\A r \in Ids : Recorded(r) => starts'[r] = starts[r]]_vars

\* What has ended stays ended, through every sweep and restart: a request that is done or expired is
\* never queued, started or closed again (run_requests.py:68, "Everything else is final"), and the only
\* word that may still replace its own is that of a console that read it while it was pending.
EndedStays ==
    [][\A r \in Ids : Status(r) \in {"done", "expired"}
                      => requests'[r].status \in {Status(r), "cancelled"}]_vars

(***************************************************************************)
(* The daemon's loop runs for ever, a daemon that ended is started again,  *)
(* a process it started ends or is timed out (a service, which has no      *)
(* timeout, is asked for but once), a child that outlived its daemon ends, *)
(* and a request that waits grows old.  A daemon that is killed again and  *)
(* again promises nothing, and neither does one whose store keeps failing. *)
(***************************************************************************)
Fairness ==
    /\ \A d \in Daemons :
           /\ WF_vars(Start(d)) /\ WF_vars(Work(d))
           /\ SF_vars(\E r \in Ids : CollectRun(d, r))
           /\ WF_vars(\E r \in Ids : SurvivorEnds(d, r))
    /\ \A r \in Ids : WF_vars(GrowsOld(r))

FairSpec == Spec /\ Fairness

StayUp == <>[](\A d \in Daemons : pc[d] # "down")

\* No request waits for ever: it is claimed, withdrawn, or expires.
PendingIsResolved == StayUp => \A r \in Ids : Has(r, "pending") ~> ~Has(r, "pending")

\* The run of this request outlived its daemon: its row was kept at a start-up and nobody tracks it.
Kept(r) == \E d \in Daemons : /\ requests[r].run = d /\ pc[d] # "down"
                              /\ runs[d][r] = "running" /\ r \notin tracked[d]

\* A badge stays for ever in one way only.  A request whose run was reaped, stopped or found dead leaves
\* `started`, also when the note of its end was lost or its daemon was killed between starting the command
\* and reaping it; one whose run was found alive at a start-up keeps it, although the run ends (docstring
\* of close_finished, run_requests.py:294-304).
StartedIsResolved ==
    StayUp => \A r \in Ids : Has(r, "started") ~> (Status(r) \in FinalStatuses \/ Kept(r))
=============================================================================
