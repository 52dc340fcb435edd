---------------------------- MODULE StoreOutage -----------------------------
(***************************************************************************)
(* How the daemon waits for a store that is away: the rule of              *)
(* dbabrain/lib/store_outage.py, and the two loops of main in              *)
(* dbabrain/jobs/daemon.py that follow it, with what main does between     *)
(* and after them, where nothing is waited for.                            *)
(*                                                                         *)
(* An error is the chain of exceptions that sqlstate walks, outermost      *)
(* first.  A link carries the server's code, if any, and whether its text  *)
(* has one of TRANSIENT_PHRASES.                                           *)
(***************************************************************************)
EXTENDS Integers, Sequences, FiniteSetsExt

CONSTANTS
    NoCode,                 \* sqlstate's ""
    TRANSIENT_SQLSTATES,    \* the codes that say "not now"
    DEFINITE_SQLSTATES,     \* some of the codes that say "no"
    BUDGET_SECONDS,         \* what may be slept for one outage
    MAX_WAIT_SECONDS,       \* the longest single wait
    MaxChain, MaxLocks      \* bounds: the length of a chain, the lock retries in a row

ASSUME OutageConstants ==
    /\ NoCode \notin TRANSIENT_SQLSTATES \cup DEFINITE_SQLSTATES
    /\ TRANSIENT_SQLSTATES \cap DEFINITE_SQLSTATES = {}
    /\ {BUDGET_SECONDS, MAX_WAIT_SECONDS} \subseteq Nat \ {0}
    /\ MaxChain \in Nat /\ MaxLocks \in Nat

VARIABLES
    phase,      \* where main is: a loop, the steps outside them, or how it ended
    waiter,     \* the OutageWaiter of the loop
    locks,      \* _db_lock_retries
    error,      \* the error the waiter was asked about last
    slept,      \* seconds slept for the store since it last answered
    waits       \* in how many waits

outageVars == <<phase, waiter, locks, error, slept, waits>>

Links == [code : TRANSIENT_SQLSTATES \cup DEFINITE_SQLSTATES \cup {NoCode}, phrase : BOOLEAN]
Errors == UNION {[1 .. n -> Links] : n \in 1 .. MaxChain}

\* The code nearest the top of the chain.
sqlstate(e) ==
    LET coded == {i \in DOMAIN e : e[i].code # NoCode}
    IN  IF coded = {} THEN NoCode ELSE e[Min(coded)].code

\* Altered: the words are believed beside the code.
is_transient_TextToo(e) == sqlstate(e) \in TRANSIENT_SQLSTATES \/ e[1].phrase

\* A code is trusted alone; the words of the outermost error are read when there is none.
is_transient(e) ==
    IF sqlstate(e) # NoCode THEN sqlstate(e) \in TRANSIENT_SQLSTATES ELSE e[1].phrase

\* `attempts` is kept as 2 ** attempts, the seconds it stands for.
Fresh == [backoff |-> 1, waited |-> 0]

\* The waiter's answer, 0 for None, and the waiter after it.
wait_for(w, e) ==
    LET remaining == BUDGET_SECONDS - w.waited
        wait == Min({MAX_WAIT_SECONDS, 2 * w.backoff, remaining})
    IN  IF ~is_transient(e) \/ remaining <= 0
        THEN [wait |-> 0, waiter |-> w]
        ELSE [wait |-> wait, waiter |-> [backoff |-> 2 * w.backoff, waited |-> w.waited + wait]]

\* Altered: the seconds of the outage that is over are kept.
recovered_KeepsWaited(w) == [w EXCEPT !.backoff = 1]

recovered(w) == Fresh

OutageInit ==
    /\ phase = "starting" /\ waiter = Fresh /\ locks = 0
    /\ error = <<>> /\ slept = 0 /\ waits = 0

\* The store answered: an outage, if there was one, is over.
Answered == error' = <<>> /\ slept' = 0 /\ waits' = 0

\* A pass of either loop fails: it is waited for, or it is let out and main returns 1.
PassFails(e) ==
    LET answer == wait_for(waiter, e)
    IN  /\ phase \in {"starting", "scanning"}
        /\ error' = e
        /\ waiter' = answer.waiter
        /\ slept' = slept + answer.wait
        /\ waits' = IF answer.wait = 0 THEN waits ELSE waits + 1
        /\ phase' = IF answer.wait = 0 THEN "raised" ELSE phase
        /\ UNCHANGED locks

\* store.initialize() returns.
Initialized ==
    /\ phase = "starting"
    /\ phase' = "recovering"
    /\ Answered
    /\ UNCHANGED <<waiter, locks>>

\* recover_stale_running_jobs is in neither loop: what it raises ends the daemon as it is.
RecoveryFails(e) ==
    /\ phase = "recovering"
    /\ phase' = "failed"
    /\ error' = e
    /\ UNCHANGED <<waiter, locks, slept, waits>>

\* The scan loop starts with a waiter of its own.
Recovered ==
    /\ phase = "recovering"
    /\ phase' = "scanning"
    /\ waiter' = Fresh /\ locks' = 0
    /\ Answered

\* A scan and its sweeps go through; with --once, the daemon leaves the loop's try to drain its children.
GoodPass(once) ==
    /\ phase = "scanning"
    /\ waiter' = recovered(waiter) /\ locks' = 0
    /\ Answered
    /\ phase' = IF once THEN "draining" ELSE "scanning"

\* collect_running_commands has closed the last of them.
Drained ==
    /\ phase = "draining"
    /\ phase' = "finished"
    /\ UNCHANGED <<waiter, locks, error, slept, waits>>

\* What collect_running_commands raises there is let out as it is, and so is, from a scan, an
\* sqlite3.OperationalError that is not "database is locked": the waiter is asked of neither.
DrainFails(e) ==
    /\ phase = "draining"
    /\ phase' = "failed"
    /\ error' = e
    /\ UNCHANGED <<waiter, locks, slept, waits>>

OtherSqliteError(e) ==
    /\ phase = "scanning" /\ e[1].code = NoCode
    /\ phase' = "failed"
    /\ error' = e
    /\ UNCHANGED <<waiter, locks, slept, waits>>

\* "database is locked" has a back-off of its own and asks no waiter.
Locked ==
    /\ phase = "scanning" /\ locks < MaxLocks
    /\ locks' = locks + 1
    /\ UNCHANGED <<phase, waiter, error, slept, waits>>

OutageNext ==
    \/ \E e \in Errors : PassFails(e)
    \/ Initialized
    \/ \E e \in Errors : RecoveryFails(e)
    \/ Recovered
    \/ \E once \in BOOLEAN : GoodPass(once)
    \/ Drained
    \/ \E e \in Errors : DrainFails(e) \/ OtherSqliteError(e)
    \/ Locked
-----------------------------------------------------------------------------
\* The store said "not now": no definite code stands before a transient one, and words are taken
\* for an answer only from an error without any code.
NotNow(e) ==
    \/ \E i \in DOMAIN e : /\ e[i].code \in TRANSIENT_SQLSTATES
                           /\ \A j \in 1 .. i - 1 : e[j].code = NoCode
    \/ e[1].phrase /\ \A i \in DOMAIN e : e[i].code = NoCode
=============================================================================
