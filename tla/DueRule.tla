------------------------------ MODULE DueRule -------------------------------
(***************************************************************************)
(* The scheduling rule every app shares: dbabrain/lib/time_window.py,      *)
(* explain_due and the helpers it is made of.                              *)
(*                                                                         *)
(* Times are whole seconds since the previous run's anchor (its started_at *)
(* column): `elapsed` is now - last_run, and `elapsed = NeverRan` stands   *)
(* for last_run = None.  The sentence of a DueVerdict and its next_due_at  *)
(* are left out; the answer is the `due` flag.                             *)
(***************************************************************************)
EXTENDS Integers

RUN_ONCE == 0
MANUAL_ONLY == -1

\* repeat_interval, retry_interval and timeout are `int | None` in a TimeWindow.
Unset == -2

\* The anchor of a row that does not exist.
NeverRan == -1

\* The statuses the product writes that are in ERROR_STATUSES, and the others.
ERROR_STATUSES == {"error", "timeout"}
RunStatuses == {"running", "done"} \cup ERROR_STATUSES

Default(value, default) == IF value = Unset THEN default ELSE value

(***************************************************************************)
(* _due_grace_seconds is min(interval * 5%, 30 s, interval), a fraction of *)
(* a second.  It is kept exact by counting in twentieths of a second.      *)
(***************************************************************************)
Twentieths == 20

\* Altered: five per cent of any interval, however long.
due_grace_twentieths_Uncapped(interval) == IF interval <= 0 THEN 0 ELSE interval

due_grace_twentieths(interval) ==
    IF interval <= 0 THEN 0
    ELSE IF interval <= 30 * Twentieths THEN interval ELSE 30 * Twentieths

\* Repeat-interval due check with the run-once and manual conventions.
repeat_due(elapsed, repeat_interval, default) ==
    LET interval == Default(repeat_interval, default)
    IN  /\ repeat_interval # MANUAL_ONLY
        /\ \/ elapsed = NeverRan
           \/ /\ repeat_interval # RUN_ONCE
              /\ interval # Unset
              /\ Twentieths * elapsed >= Twentieths * interval - due_grace_twentieths(interval)

\* Altered: due at that very second only.
elapsed_verdict_Exactly(elapsed, allowed) == elapsed = allowed

\* A recovery is due once `allowed` seconds have passed; no grace here.
elapsed_verdict(elapsed, allowed) == elapsed >= allowed

\* Altered: the interval is read before the status.
explain_due_IntervalFirst(elapsed, last_status, window, default_repeat, running_blocks) ==
    \/ repeat_due(elapsed, window.repeat_interval, default_repeat)
    \/ last_status \in ERROR_STATUSES /\ elapsed_verdict(elapsed, Default(window.retry_interval, 60))

\* Altered: a run-once entry is never started again, failed or not.
explain_due_OnceIsOnce(elapsed, last_status, window, default_repeat, running_blocks) ==
    /\ window.repeat_interval # MANUAL_ONLY
    /\ \/ repeat_due(elapsed, window.repeat_interval, default_repeat)
       \/ /\ window.repeat_interval # RUN_ONCE
          /\ last_status \in ERROR_STATUSES
          /\ elapsed_verdict(elapsed, Default(window.retry_interval, 60))

(***************************************************************************)
(* explain_due.  The previous run's status is read before the interval: a  *)
(* run that outlives its own repeat interval must still block the next.    *)
(* `window` is what its caller resolved; timeout_disabled is timeout = 0.  *)
(***************************************************************************)
explain_due(elapsed, last_status, window, default_repeat, running_blocks) ==
    LET once == window.repeat_interval = RUN_ONCE
        retry == Default(window.retry_interval, 60)
        stale_grace == IF window.timeout = 0 THEN retry ELSE Default(window.timeout, 300)
        failed == last_status \in ERROR_STATUSES
        running == last_status = "running"
    IN  /\ window.repeat_interval # MANUAL_ONLY
        /\ \/ elapsed = NeverRan
           \/ once /\ failed /\ elapsed_verdict(elapsed, retry)
           \/ once /\ running /\ elapsed_verdict(elapsed, stale_grace)
           \/ ~once /\ running /\ running_blocks /\ elapsed_verdict(elapsed, stale_grace)
           \/ /\ ~once /\ ~(running /\ running_blocks)
              /\ \/ repeat_due(elapsed, window.repeat_interval, default_repeat)
                 \/ failed /\ elapsed_verdict(elapsed, retry)

\* due_from_row: the caller's defaults fill in what the entry leaves unset.  The wall-clock window is
\* not checked here: the daemon passes no local_now.
due_from_row(window, elapsed, last_status, retry_default, timeout_default, default_repeat, blocks) ==
    explain_due(elapsed, last_status,
                [window EXCEPT !.retry_interval = Default(@, retry_default),
                               !.timeout = Default(@, timeout_default)],
                default_repeat, blocks)

(***************************************************************************)
(* The wall-clock window, time_window_closed_reason.  A window is          *)
(* [weekdays, from, to]: `weekdays` the ISO days it allows, 1..7 when the  *)
(* entry has none, and a bound or Unset for each part of the date.         *)
(***************************************************************************)
DateParts == {"year", "month", "day", "hour", "minute"}

\* Altered: a range that wraps is read as one that does not.
OutsideRange_NoWrap(from, to, value) ==
    (from # Unset /\ value < from) \/ (to # Unset /\ value > to)

\* Altered: the upper bound is where the range ends, not its last value.
OutsideRange_HalfOpen(from, to, value) ==
    IF from # Unset /\ to # Unset /\ from > to
    THEN value < from /\ value >= to
    ELSE (from # Unset /\ value < from) \/ (to # Unset /\ value >= to)

\* Both bounds are inclusive; one range in which `from` is above `to` goes round.
OutsideRange(from, to, value) ==
    IF from # Unset /\ to # Unset /\ from > to
    THEN value < from /\ value > to
    ELSE (from # Unset /\ value < from) \/ (to # Unset /\ value > to)

is_time_window_open(window, current) ==
    /\ current.weekday \in window.weekdays
    /\ \A part \in DateParts : ~OutsideRange(window.from[part], window.to[part], current[part])
=============================================================================
