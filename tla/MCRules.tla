------------------------------ MODULE MCRules -------------------------------
(***************************************************************************)
(* The rules the apps share, each put to every question of a small         *)
(* catalogue: a behaviour picks a subject and stays with it.               *)
(*                                                                         *)
(*   "claim"   a running row judged by a reaper, while time passes and the *)
(*             owner may die (RunClaim)                                    *)
(*   "due"     a schedule and its latest run, as seconds pass (DueRule)    *)
(*   "window"  a wall-clock window, as the clock goes round (DueRule)      *)
(*   "outage"  a daemon whose store goes away and comes back (StoreOutage) *)
(***************************************************************************)
EXTENDS RunClaim, DueRule, StoreOutage

CONSTANTS
    Pids, Hosts, Nodes,     \* processes, host names and node identities
    ThisHost,               \* the reaper's host
    Timeouts,               \* the timeouts a row is judged with, 0 for a service
    Grace,                  \* FOREIGN_HOST_GRACE_SECONDS
    MaxElapsed,             \* bound: the age at which a row's clock stops
    Repeats, Retries, TimeoutValues,    \* the values of a TimeWindow
    Instants,               \* bound: the seconds since a start that are looked at
    LastHour, LastMinute,   \* bounds: the hours of a day and the minutes of an hour
    WeekdaySets             \* the weekdays a window may allow

ASSUME RuleConstants ==
    /\ ThisHost \in Hosts /\ NoHost \notin Hosts
    /\ NoPid \notin Pids /\ NoNode \notin Nodes
    /\ Timeouts \subseteq Nat /\ Grace \in Nat /\ MaxElapsed \in Nat
    /\ Repeats \cup Retries \cup TimeoutValues \subseteq Int /\ Instants \subseteq Nat
    /\ LastHour \in Nat /\ LastMinute \in Nat
    /\ WeekdaySets \subseteq SUBSET (1 .. 7)

VARIABLES
    subject,    \* which rule is asked
    asked,      \* what it is asked about
    elapsed,    \* seconds since the row, or the latest run, was started
    alive,      \* is a process with the recorded pid alive on this host?
    clock       \* the wall clock

vars == <<subject, asked, elapsed, alive, clock, outageVars>>

Midnight == [weekday |-> 1, hour |-> 0, minute |-> 0, year |-> 2026, month |-> 9, day |-> 14]

\* The rows, and who judges them: the node he is, if he was told, and whether he is the SQL-task reaper.
ClaimQuestions ==
    [meta : Metadata(Pids, Hosts, Nodes), host_fallback : Hosts \cup {NoHost},
     this_node : Nodes \cup {NoNode}, timeout : Timeouts, at_timeout : BOOLEAN]

DueQuestions ==
    [window : [repeat_interval : Repeats \cup {Unset, MANUAL_ONLY}, retry_interval : Retries \cup {Unset},
               timeout : TimeoutValues \cup {Unset}],
     status : RunStatuses,      \* the latest run's
     async : BOOLEAN]           \* run_mode async: its own run in flight does not hold the next

\* Windows over the day of the week, the hour and the minute; the other parts are unset.
Bound(hour, minute) == [p \in DateParts |-> CASE p = "hour" -> hour [] p = "minute" -> minute [] OTHER -> Unset]
Bounds == {Bound(h, m) : h \in 0 .. LastHour \cup {Unset}, m \in 0 .. LastMinute \cup {Unset}}
WindowQuestions == [weekdays : WeekdaySets, from : Bounds, to : Bounds]

Init ==
    /\ OutageInit
    /\ clock = Midnight
    /\ \/ subject = "claim" /\ asked \in ClaimQuestions /\ elapsed = 0 /\ alive \in BOOLEAN
       \/ subject = "due" /\ asked \in DueQuestions /\ elapsed \in {NeverRan, 0} /\ alive = FALSE
       \/ subject = "window" /\ asked \in WindowQuestions /\ elapsed = 0 /\ alive = FALSE
       \/ subject = "outage" /\ asked = "nothing" /\ elapsed = 0 /\ alive = FALSE

TimePasses ==
    /\ elapsed # NeverRan
    /\ elapsed' \in CASE subject = "claim" -> {elapsed + 1} \cap 0 .. MaxElapsed
                      [] subject = "due" -> {t \in Instants : t > elapsed}
                      [] OTHER -> {}
    /\ UNCHANGED <<subject, asked, alive, clock, outageVars>>

OwnerDies ==
    /\ subject = "claim" /\ alive
    /\ alive' = FALSE
    /\ UNCHANGED <<subject, asked, elapsed, clock, outageVars>>

\* A minute on: an hour on after the last, a day on after the last hour.
MinutePasses ==
    LET newHour == clock.minute = LastMinute
        newDay == newHour /\ clock.hour = LastHour
    IN  /\ subject = "window"
        /\ clock' = [clock EXCEPT !.minute = IF newHour THEN 0 ELSE @ + 1,
                                  !.hour = IF newDay THEN 0 ELSE IF newHour THEN @ + 1 ELSE @,
                                  !.weekday = IF newDay THEN (@ % 7) + 1 ELSE @]
        /\ UNCHANGED <<subject, asked, elapsed, alive, outageVars>>

StoreIsAsked ==
    /\ subject = "outage"
    /\ OutageNext
    /\ UNCHANGED <<subject, asked, elapsed, alive, clock>>

Next == TimePasses \/ OwnerDies \/ MinutePasses \/ StoreIsAsked

Spec == Init /\ [][Next]_vars /\ WF_vars(MinutePasses)
-----------------------------------------------------------------------------
(***************************************************************************)
(* The claim rule.  The table of its docstring (run_claim.py:14-20), one   *)
(* predicate per line of it, is written from who owns the row and without  *)
(* the code's order of tests.                                              *)
(***************************************************************************)
Owner == claim_owner(asked.meta, asked.host_fallback)

\* What the callers pass as pid_alive: the question is asked only of this host's processes.
PidAlive == Owner.pid # NoPid /\ Owner.host = ThisHost /\ alive

Sweep == reap_verdict(asked.meta, ThisHost, elapsed, asked.timeout, PidAlive, Grace, asked.this_node,
                      asked.host_fallback, asked.at_timeout)
Startup == startup_verdict(asked.meta, ThisHost, elapsed, asked.timeout, PidAlive, Grace,
                           asked.this_node, asked.host_fallback)

Unowned == Owner.pid = NoPid \/ Owner.host = NoHost
OwnedHere == ~Unowned /\ Owner.host = ThisHost
OwnedByMyPast ==
    ~Unowned /\ ~OwnedHere /\ asked.meta.claim_node # NoNode /\ asked.meta.claim_node = asked.this_node
OwnedElsewhere == ~Unowned /\ ~OwnedHere /\ ~OwnedByMyPast

TableSaysFree ==
    \/ OwnedHere /\ ~alive
    \/ OwnedByMyPast
    \/ OwnedElsewhere /\ asked.timeout > 0 /\ elapsed - Grace >= asked.timeout
    \/ Unowned /\ asked.timeout > 0 /\ elapsed >= asked.timeout

\* The ordinary reaper frees a row exactly when the docstring's table says so, and the SQL-task
\* reaper adds the rows past a timeout they have (run_claim.py:14-30).
FreesExactlyTheTable ==
    subject = "claim" =>
        (Sweep.reap <=> \/ TableSaysFree
                        \/ asked.at_timeout /\ asked.timeout > 0 /\ elapsed >= asked.timeout)

\* A row closed without `timed_out` has no process left to stop: the callers stop an owner only on
\* timed_out, so any other reap of a live owner here would free the claim under a working process.
ReapedUnstoppedIsDead ==
    subject = "claim" =>
        \A v \in {Sweep, Startup} : v.reap /\ ~v.timed_out => ~(OwnedHere /\ alive)

\* Neither time nor the owner's death takes a verdict back: a row once free stays free, so a reaper
\* that acts on an answer read a moment ago closes nothing it would now have to keep.
VerdictsAreStable ==
    [][subject = "claim" => (Sweep.reap => Sweep'.reap) /\ (Startup.reap => Startup'.reap)]_vars
-----------------------------------------------------------------------------
(***************************************************************************)
(* The due rule, asked as the daemon asks it: a failed command retries     *)
(* after 60 s, an unstated timeout is 300 s.                               *)
(***************************************************************************)
Due == due_from_row(asked.window, elapsed, asked.status, 60, 300, Unset, ~asked.async)

Retry == IF asked.window.retry_interval = Unset THEN 60 ELSE asked.window.retry_interval
StaleAfter == IF asked.window.timeout = 0 THEN Retry
              ELSE IF asked.window.timeout = Unset THEN 300 ELSE asked.window.timeout

\* A run that is still going holds the next one until it is past its timeout, however short its
\* repeat interval: the second restore of 2026-09-14 (time_window.py:608-616).
RunningHoldsTheNext ==
    subject = "due" =>
        (asked.status = "running" /\ ~asked.async /\ elapsed # NeverRan /\ elapsed < StaleAfter => ~Due)

\* A repeating run is never early by more than 5% of its interval or by more than 30 seconds, and is
\* due at the latest when the interval has passed (docstring of repeat_due).
IntervalIsKept ==
    subject = "due" =>
        (asked.window.repeat_interval > 0 /\ asked.status = "done" /\ elapsed # NeverRan =>
            LET early == asked.window.repeat_interval - elapsed
            IN  /\ Due => 20 * early <= asked.window.repeat_interval /\ early <= 30
                /\ early <= 0 => Due)

\* What has failed comes back: after its retry interval a failed run is due again whatever the
\* repeat interval is, run-once included, and a manual entry never is (docstring of explain_due).
FailureIsRetried ==
    subject = "due" =>
        (asked.status \in ERROR_STATUSES /\ elapsed # NeverRan =>
            /\ asked.window.repeat_interval = MANUAL_ONLY => ~Due
            /\ asked.window.repeat_interval # MANUAL_ONLY /\ elapsed >= Retry => Due)

\* A schedule does not change its mind: without a new run, what is due stays due.  The daemon decides
\* from a snapshot taken at the start of a scan and starts the command later in it.
DueIsStable == [][subject = "due" => (Due => Due')]_vars
-----------------------------------------------------------------------------
Open == is_time_window_open(asked, clock)

\* Where a part of the window begins and ends, an unset bound being the first or the last value.
First(part) == IF asked.from[part] = Unset THEN 0 ELSE asked.from[part]
Last(part, end) == IF asked.to[part] = Unset THEN end ELSE asked.to[part]

\* A window opens and closes on its bounds: seen minute by minute within one day, it opens only as an
\* hour or a minute that is a first one begins, and closes only as a last one ends, wrapping ranges
\* included (time_window.py:377-392, "22->6 would never be open").
OpensAndClosesOnItsBounds ==
    [][subject = "window" /\ clock'.weekday = clock.weekday =>
        /\ ~Open /\ Open' => \/ clock'.minute = First("minute")
                             \/ clock'.hour = First("hour")
        /\ Open /\ ~Open' => \/ clock.minute = Last("minute", LastMinute)
                             \/ clock.hour = Last("hour", LastHour)]_vars

\* A window with a weekday in it comes round: while the clock runs it is open again and again, be its
\* ranges wrapped or not; only the empty set of days means never (docstring of parse_weekdays).
WindowComesRound == []<>(subject = "window" => asked.weekdays = {} \/ Open)
-----------------------------------------------------------------------------
\* One outage is waited for in full and no longer: without an answer the daemon sleeps no more than the
\* budget, and it ends on a "not now" with less than that slept only where it asks no waiter, however many
\* outages and lock retries came before (docstring of OutageWaiter; the try blocks of daemon.py:315-322
\* and 353-390).  It asks none in start-up recovery (347-348), in the drain of --once (391-394) and about
\* an sqlite3.OperationalError that is not a lock (379): "failed" is the end it comes to there.
OutageIsWaitedOut ==
    /\ slept <= BUDGET_SECONDS
    /\ phase = "raised" /\ NotNow(error) => slept = BUDGET_SECONDS

\* A definite answer is never waited on, whatever words come with it: only a "not now" is slept for
\* (docstring of is_transient).
OnlyNotNowIsWaitedFor ==
    [][waits' > waits => NotNow(error')]_vars
=============================================================================
