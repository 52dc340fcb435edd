---------------------------- MODULE RulesProofs -----------------------------
(***************************************************************************)
(* Proofs about the rules the apps share, for any rows, schedules,         *)
(* windows, clocks and errors.                                             *)
(***************************************************************************)
EXTENDS MCRules, NumberLemmas

ClaimTypes == subject = "claim" => asked \in ClaimQuestions /\ elapsed \in Nat
DueTypes == subject = "due" => asked \in DueQuestions /\ elapsed \in Nat \cup {NeverRan}
WindowTypes ==
    subject = "window" => asked \in WindowQuestions
ClockTypes ==
    clock \in [weekday : 1 .. 7, hour : 0 .. LastHour, minute : 0 .. LastMinute,
               year : Nat, month : Nat, day : Nat]

\* The waiter, and what main's loops have slept with it.
WaiterTypes ==
    /\ waiter \in [backoff : Nat \ {0}, waited : 0 .. BUDGET_SECONDS]
    /\ slept \in 0 .. BUDGET_SECONDS /\ waits \in Nat

\* Between the first failure of a loop and the store's next answer the waiter has counted every second.
WaiterCounts == phase \in {"starting", "scanning", "raised"} => slept = waiter.waited
LetOut == phase = "raised" => error \in Errors /\ (is_transient(error) => slept = BUDGET_SECONDS)

RulesInv ==
    /\ alive \in BOOLEAN
    /\ ClaimTypes /\ DueTypes /\ WindowTypes /\ ClockTypes
    /\ WaiterTypes /\ WaiterCounts /\ LetOut
-----------------------------------------------------------------------------
(* Errors. *)

LEMMA ErrorParts ==
    ASSUME NEW e \in Errors
    PROVE  \E n \in Nat \ {0} : e \in [1 .. n -> Links]
  BY OutageConstants DEF Errors

\* is_transient follows the chain to its first code, and says what the chain says.
LEMMA TransientIsNotNow ==
    ASSUME NEW e \in Errors
    PROVE  is_transient(e) <=> NotNow(e)
<1>1. PICK n \in Nat \ {0} : e \in [1 .. n -> Links]
  BY ErrorParts
<1> DEFINE coded == {i \in DOMAIN e : e[i].code # NoCode}
<1>2. \A i \in 1 .. n : e[i] \in Links
  BY <1>1
<1>3. DOMAIN e = 1 .. n /\ 1 \in 1 .. n
  BY <1>1
<1>4. CASE coded = {}
  <2>1. sqlstate(e) = NoCode
    BY <1>4 DEF sqlstate
  <2>2. \A i \in DOMAIN e : e[i].code = NoCode
    BY <1>4
  <2>3. QED
    BY <2>1, <2>2, OutageConstants DEF is_transient, NotNow
<1>5. CASE coded # {}
  <2> DEFINE m == Min(coded)
  <2>1. coded \subseteq Nat
    BY <1>3
  <2>2. m \in coded /\ \A i \in coded : m <= i
    BY <1>5, <2>1, MinIsLeast
  <2>3. sqlstate(e) = e[m].code /\ e[m].code # NoCode
    BY <1>5, <2>2 DEF sqlstate
  <2> HIDE DEF m
  <2>4. m \in 1 .. n /\ \A j \in 1 .. m - 1 : e[j].code = NoCode
    BY <1>3, <2>2
  <2>5. is_transient(e) <=> e[m].code \in TRANSIENT_SQLSTATES
    BY <2>3 DEF is_transient
  <2>6. ASSUME NotNow(e) PROVE e[m].code \in TRANSIENT_SQLSTATES
    <3>1. PICK i \in DOMAIN e : e[i].code \in TRANSIENT_SQLSTATES /\ \A j \in 1 .. i - 1 : e[j].code = NoCode
      BY <2>6, <2>2, <2>3 DEF NotNow
    <3>2. i \in coded
      BY <3>1, OutageConstants
    <3>3. m <= i /\ ~(m < i)
      BY <3>1, <3>2, <2>2, <2>3, <2>4, <1>3
    <3>4. m = i
      BY <3>3, <2>4, <1>3
    <3>5. QED
      BY <3>1, <3>4
  <2>7. QED
    BY <2>4, <2>5, <2>6, <1>3 DEF NotNow
<1>6. QED
  BY <1>4, <1>5

\* What the waiter answers: nothing for a definite error or when the budget is spent, and otherwise a
\* wait that the budget still has.
LEMMA WaitForAnswers ==
    ASSUME NEW e, NEW w \in [backoff : Nat \ {0}, waited : 0 .. BUDGET_SECONDS]
    PROVE  /\ wait_for(w, e).waiter \in [backoff : Nat \ {0}, waited : 0 .. BUDGET_SECONDS]
           /\ wait_for(w, e).wait \in Nat
           /\ wait_for(w, e).waiter.waited = w.waited + wait_for(w, e).wait
           /\ wait_for(w, e).wait = 0 => (is_transient(e) => w.waited = BUDGET_SECONDS)
           /\ wait_for(w, e).wait # 0 => is_transient(e)
<1> DEFINE remaining == BUDGET_SECONDS - w.waited
           wait == Min({MAX_WAIT_SECONDS, 2 * w.backoff, remaining})
<1>1. /\ w.backoff \in Nat \ {0} /\ w.waited \in 0 .. BUDGET_SECONDS
      /\ BUDGET_SECONDS \in Nat \ {0} /\ MAX_WAIT_SECONDS \in Nat \ {0} /\ remaining \in Nat
  BY OutageConstants
<1>2. CASE ~is_transient(e) \/ remaining <= 0
  <2>1. wait_for(w, e) = [wait |-> 0, waiter |-> w]
    BY <1>2 DEF wait_for
  <2>2. remaining <= 0 => w.waited = BUDGET_SECONDS
    BY <1>1
  <2> HIDE DEF remaining
  <2>3. QED
    BY <1>1, <1>2, <2>1, <2>2
<1>3. CASE is_transient(e) /\ remaining > 0
  <2>1. wait \in {MAX_WAIT_SECONDS, 2 * w.backoff, remaining} /\ wait <= remaining
    <3> DEFINE S == {MAX_WAIT_SECONDS, 2 * w.backoff, remaining}
    <3>1. S \subseteq Nat /\ S # {} /\ remaining \in S
      BY <1>1
    <3> HIDE DEF S
    <3>2. Min(S) \in S /\ Min(S) <= remaining
      BY <3>1, MinIsLeast
    <3>3. QED
      BY <3>2 DEF S
  <2> HIDE DEF wait
  <2>2. wait \in Nat \ {0} /\ w.waited + wait \in 0 .. BUDGET_SECONDS
    BY <1>1, <1>3, <2>1
  <2>3. wait_for(w, e) = [wait |-> wait, waiter |-> [backoff |-> 2 * w.backoff, waited |-> w.waited + wait]]
    BY <1>1, <1>3 DEF wait_for, wait
  <2>4. 2 * w.backoff \in Nat \ {0}
    BY <1>1
  <2>5. QED
    BY <1>3, <2>2, <2>3, <2>4
<1>4. QED
  BY <1>1, <1>2, <1>3
-----------------------------------------------------------------------------
(* The invariant. *)

LEMMA RulesInitially == Init => RulesInv
<1> SUFFICES ASSUME Init PROVE RulesInv
  OBVIOUS
<1>1. alive \in BOOLEAN /\ ClaimTypes /\ DueTypes /\ WindowTypes
  <2>1. 0 \in Nat
    OBVIOUS
  <2>2. CASE subject = "claim" /\ asked \in ClaimQuestions /\ elapsed = 0 /\ alive \in BOOLEAN
    BY <2>1, <2>2 DEF ClaimTypes, DueTypes, WindowTypes
  <2>3. CASE subject = "due" /\ asked \in DueQuestions /\ elapsed \in {NeverRan, 0} /\ alive = FALSE
    BY <2>1, <2>3 DEF ClaimTypes, DueTypes, WindowTypes
  <2>4. CASE subject = "window" /\ asked \in WindowQuestions /\ elapsed = 0 /\ alive = FALSE
    BY <2>4 DEF ClaimTypes, DueTypes, WindowTypes
  <2>5. CASE subject = "outage" /\ asked = "nothing" /\ elapsed = 0 /\ alive = FALSE
    BY <2>5 DEF ClaimTypes, DueTypes, WindowTypes
  <2>6. QED
    BY <2>2, <2>3, <2>4, <2>5 DEF Init
<1>2. ClockTypes
  BY RuleConstants DEF Init, ClockTypes, Midnight
<1>3. WaiterTypes /\ WaiterCounts /\ LetOut
  BY OutageConstants DEF Init, OutageInit, Fresh, WaiterTypes, WaiterCounts, LetOut
<1>4. QED
  BY <1>1, <1>2, <1>3 DEF RulesInv

\* Nothing but the store's answers touches the waiter.
LEMMA WaiterLeftAlone ==
    ASSUME RulesInv, UNCHANGED outageVars
    PROVE  WaiterTypes' /\ WaiterCounts' /\ LetOut'
  BY DEF RulesInv, outageVars, WaiterTypes, WaiterCounts, LetOut

LEMMA PassFailsWaits ==
    ASSUME RulesInv, NEW e \in Errors, PassFails(e)
    PROVE  WaiterTypes' /\ WaiterCounts' /\ LetOut' /\ (waits' > waits => is_transient(error'))
<1> DEFINE a == wait_for(waiter, e)
<1>1. waiter \in [backoff : Nat \ {0}, waited : 0 .. BUDGET_SECONDS]
  BY DEF RulesInv, WaiterTypes
<1>2. /\ a.waiter \in [backoff : Nat \ {0}, waited : 0 .. BUDGET_SECONDS]
      /\ a.wait \in Nat
      /\ a.waiter.waited = waiter.waited + a.wait
      /\ a.wait = 0 => (is_transient(e) => waiter.waited = BUDGET_SECONDS)
      /\ a.wait # 0 => is_transient(e)
  BY <1>1, WaitForAnswers
<1>3. /\ phase \in {"starting", "scanning"}
      /\ error' = e /\ waiter' = a.waiter /\ slept' = slept + a.wait
      /\ waits' = (IF a.wait = 0 THEN waits ELSE waits + 1)
      /\ phase' = (IF a.wait = 0 THEN "raised" ELSE phase)
  BY DEF PassFails
<1> HIDE DEF a
<1>4. slept = waiter.waited /\ slept \in 0 .. BUDGET_SECONDS /\ waits \in Nat
  BY <1>3 DEF RulesInv, WaiterCounts, WaiterTypes
<1>5. slept' = waiter'.waited
  BY <1>2, <1>3, <1>4
<1>6. slept' \in 0 .. BUDGET_SECONDS
  BY <1>2, <1>3, <1>5
<1>7. waits' \in Nat /\ (waits' > waits => a.wait # 0)
  BY <1>3, <1>4
<1>8. WaiterTypes'
  BY <1>2, <1>3, <1>6, <1>7 DEF WaiterTypes
<1>9. WaiterCounts'
  BY <1>5 DEF WaiterCounts
<1>10. ASSUME phase' = "raised" PROVE is_transient(e) => slept' = BUDGET_SECONDS
  <2>1. a.wait = 0
    BY <1>3, <1>10
  <2>2. QED
    BY <2>1, <1>2, <1>3, <1>4, OutageConstants
<1>11. LetOut'
  BY <1>3, <1>10 DEF LetOut
<1>12. QED
  BY <1>2, <1>3, <1>7, <1>8, <1>9, <1>11

LEMMA StoreIsAskedPreserves ==
    ASSUME RulesInv, OutageNext
    PROVE  WaiterTypes' /\ WaiterCounts' /\ LetOut'
<1>1. CASE \E e \in Errors : PassFails(e)
  BY <1>1, PassFailsWaits
<1>2. CASE Initialized
  BY <1>2, OutageConstants DEF Initialized, Answered, RulesInv, WaiterTypes, WaiterCounts, LetOut
<1>3. CASE \E e \in Errors : RecoveryFails(e)
  BY <1>3 DEF RecoveryFails, RulesInv, WaiterTypes, WaiterCounts, LetOut
<1>4. CASE Recovered
  BY <1>4, OutageConstants DEF Recovered, Answered, Fresh, RulesInv, WaiterTypes, WaiterCounts, LetOut
<1>5. CASE \E once \in BOOLEAN : GoodPass(once)
  BY <1>5, OutageConstants DEF GoodPass, recovered, Answered, Fresh, RulesInv, WaiterTypes, WaiterCounts, LetOut
<1>6. CASE Locked
  BY <1>6 DEF Locked, RulesInv, WaiterTypes, WaiterCounts, LetOut
<1>7. CASE Drained \/ \E e \in Errors : DrainFails(e) \/ OtherSqliteError(e)
  BY <1>7 DEF Drained, DrainFails, OtherSqliteError, RulesInv, WaiterTypes, WaiterCounts, LetOut
<1>8. QED
  BY <1>1, <1>2, <1>3, <1>4, <1>5, <1>6, <1>7 DEF OutageNext

\* A minute leaves the clock a clock.
LEMMA MinutePassesKeepsTime ==
    ASSUME RulesInv, MinutePasses
    PROVE  ClockTypes'
<1> DEFINE newHour == clock.minute = LastMinute
           newDay == newHour /\ clock.hour = LastHour
<1>1. /\ clock.weekday \in 1 .. 7 /\ clock.hour \in 0 .. LastHour /\ clock.minute \in 0 .. LastMinute
      /\ LastHour \in Nat /\ LastMinute \in Nat /\ ClockTypes
  BY RuleConstants DEF RulesInv, ClockTypes
<1>2. clock' = [clock EXCEPT !.minute = IF newHour THEN 0 ELSE @ + 1,
                             !.hour = IF newDay THEN 0 ELSE IF newHour THEN @ + 1 ELSE @,
                             !.weekday = IF newDay THEN (@ % 7) + 1 ELSE @]
  BY DEF MinutePasses
<1>3. (clock.weekday % 7) + 1 \in 1 .. 7
  BY <1>1
<1>4. (IF newHour THEN 0 ELSE clock.minute + 1) \in 0 .. LastMinute
  BY <1>1
<1>5. (IF newDay THEN 0 ELSE IF newHour THEN clock.hour + 1 ELSE clock.hour) \in 0 .. LastHour
  BY <1>1
<1>6. QED
  BY <1>1, <1>2, <1>3, <1>4, <1>5 DEF ClockTypes

LEMMA RulesStep ==
    ASSUME RulesInv, [Next]_vars
    PROVE  RulesInv'
<1>1. CASE TimePasses
  <2>1. UNCHANGED <<subject, asked, alive, clock, outageVars>> /\ elapsed # NeverRan
    BY <1>1 DEF TimePasses
  <2>2. subject = "claim" => elapsed' \in Nat
    BY <1>1 DEF TimePasses
  <2>3. subject = "due" => elapsed' \in Nat
    BY <1>1, RuleConstants DEF TimePasses
  <2>4. QED
    BY <2>1, <2>2, <2>3, WaiterLeftAlone DEF RulesInv, ClaimTypes, DueTypes, WindowTypes, ClockTypes
<1>2. CASE OwnerDies
  BY <1>2, WaiterLeftAlone DEF OwnerDies, RulesInv, ClaimTypes, DueTypes, WindowTypes, ClockTypes
<1>3. CASE MinutePasses
  <2>1. UNCHANGED <<subject, asked, elapsed, alive, outageVars>>
    BY <1>3 DEF MinutePasses
  <2>2. QED
    BY <1>3, <2>1, WaiterLeftAlone, MinutePassesKeepsTime DEF RulesInv, ClaimTypes, DueTypes, WindowTypes
<1>4. CASE StoreIsAsked
  <2>1. UNCHANGED <<subject, asked, elapsed, alive, clock>> /\ OutageNext
    BY <1>4 DEF StoreIsAsked
  <2>2. QED
    BY <2>1, StoreIsAskedPreserves DEF RulesInv, ClaimTypes, DueTypes, WindowTypes, ClockTypes
<1>5. CASE UNCHANGED vars
  BY <1>5, WaiterLeftAlone DEF vars, RulesInv, ClaimTypes, DueTypes, WindowTypes, ClockTypes
<1>6. QED
  BY <1>1, <1>2, <1>3, <1>4, <1>5 DEF Next

LEMMA RulesHold == Spec => []RulesInv
  BY RulesInitially, RulesStep, PTL DEF Spec
-----------------------------------------------------------------------------
(* The store's outage. *)

\* One outage is waited for in full and no longer: wherever main asks the waiter, which it does in the try
\* blocks of its two loops, a "not now" ends it only after the whole budget, through any number of outages,
\* answers, lock retries and failures that the waiter is not asked about.
THEOREM OutagesAreWaitedOut == Spec => []OutageIsWaitedOut
<1>1. RulesInv => OutageIsWaitedOut
  BY TransientIsNotNow, OutageConstants DEF RulesInv, WaiterTypes, LetOut, OutageIsWaitedOut
<1>2. QED
  BY <1>1, RulesHold, PTL

\* Only a "not now" is slept for, whatever the chain of exceptions and its words (is_transient).
THEOREM DefiniteAnswersAreNotWaitedFor == Spec => OnlyNotNowIsWaitedFor
<1>1. ASSUME RulesInv, [Next]_vars PROVE [waits' > waits => NotNow(error')]_vars
  <2>1. SUFFICES ASSUME waits' > waits PROVE NotNow(error')
    OBVIOUS
  <2>2. waits \in Nat
    BY <1>1 DEF RulesInv, WaiterTypes
  <2>3. PICK e \in Errors : PassFails(e)
    BY <1>1, <2>1, <2>2 DEF Next, vars, TimePasses, OwnerDies, MinutePasses, StoreIsAsked, outageVars, OutageNext,
         Initialized, Recovered, RecoveryFails, GoodPass, Drained, DrainFails, OtherSqliteError, Locked, Answered
  <2>4. is_transient(error') /\ error' = e
    BY <1>1, <2>1, <2>3, PassFailsWaits DEF PassFails
  <2>5. QED
    BY <2>4, TransientIsNotNow
<1>2. QED
  BY <1>1, RulesHold, PTL DEF Spec, OnlyNotNowIsWaitedFor
-----------------------------------------------------------------------------
(* The due rule. *)

\* The parts of a schedule.
LEMMA Schedule ==
    ASSUME RulesInv, subject = "due"
    PROVE  /\ asked.window.repeat_interval \in Int /\ asked.window.retry_interval \in Int
           /\ asked.window.timeout \in Int /\ asked.window = [repeat_interval |-> asked.window.repeat_interval,
                  retry_interval |-> asked.window.retry_interval, timeout |-> asked.window.timeout]
           /\ asked.status \in RunStatuses /\ asked.async \in BOOLEAN
           /\ elapsed \in Nat \cup {-1}
  BY RuleConstants DEF RulesInv, DueTypes, DueQuestions, Unset, MANUAL_ONLY, NeverRan

\* When a schedule is due, in the words of explain_due with the caller's defaults filled in.
LEMMA DueSays ==
    ASSUME RulesInv, subject = "due"
    PROVE  Due <=>
             /\ asked.window.repeat_interval # -1
             /\ \/ elapsed = -1
                \/ asked.status \in {"error", "timeout"} /\ elapsed >= Retry
                \/ /\ asked.status = "running" /\ (asked.window.repeat_interval = 0 \/ ~asked.async)
                   /\ elapsed >= StaleAfter
                \/ /\ asked.window.repeat_interval \notin {0, -2} /\ ~(asked.status = "running" /\ ~asked.async)
                   /\ 20 * elapsed >= 20 * asked.window.repeat_interval
                                        - due_grace_twentieths(asked.window.repeat_interval)
  BY Schedule DEF Due, due_from_row, explain_due, repeat_due, elapsed_verdict, Default, Retry, StaleAfter,
       ERROR_STATUSES, RUN_ONCE, MANUAL_ONLY, Unset, NeverRan, Twentieths, RunStatuses

\* The seconds a running or a failed run is given.
LEMMA AllowedIsANumber ==
    ASSUME RulesInv, subject = "due"
    PROVE  Retry \in Int /\ StaleAfter \in Int
  BY Schedule DEF Retry, StaleAfter, Unset

LEMMA GraceIsSmall ==
    ASSUME NEW i \in Int
    PROVE  /\ due_grace_twentieths(i) \in Nat
           /\ i > 0 => due_grace_twentieths(i) <= i /\ due_grace_twentieths(i) <= 600
  BY DEF due_grace_twentieths, Twentieths

\* A run that is going holds the next until its timeout, whatever its interval (explain_due).
THEOREM ARunningRunHoldsTheNext == Spec => []RunningHoldsTheNext
<1>1. RulesInv => RunningHoldsTheNext
  BY Schedule, DueSays, AllowedIsANumber DEF RunningHoldsTheNext, NeverRan
<1>2. QED
  BY <1>1, RulesHold, PTL

\* No run is earlier than its grace allows or later than its interval (repeat_due).
THEOREM IntervalsAreKept == Spec => []IntervalIsKept
<1>1. ASSUME RulesInv PROVE IntervalIsKept
  <2> DEFINE repeat == asked.window.repeat_interval
  <2>1. SUFFICES ASSUME subject = "due", repeat > 0, asked.status = "done", elapsed # NeverRan
                 PROVE  /\ Due => 20 * (repeat - elapsed) <= repeat /\ repeat - elapsed <= 30
                        /\ repeat - elapsed <= 0 => Due
    BY DEF IntervalIsKept
  <2>2. repeat \in Int /\ elapsed \in Nat
    BY <1>1, <2>1, Schedule DEF NeverRan
  <2>3. due_grace_twentieths(repeat) \in Nat /\ due_grace_twentieths(repeat) <= repeat /\ due_grace_twentieths(repeat) <= 600
    BY <2>1, <2>2, GraceIsSmall
  <2>4. Due <=> 20 * elapsed >= 20 * repeat - due_grace_twentieths(repeat)
    BY <1>1, <2>1, <2>2, DueSays
  <2> HIDE DEF repeat
  <2>5. QED
    BY <2>2, <2>3, <2>4
<1>2. QED
  BY <1>1, RulesHold, PTL

\* What has failed is due again after its retry interval, unless it is manual (explain_due).
THEOREM FailuresAreRetried == Spec => []FailureIsRetried
<1>1. RulesInv => FailureIsRetried
  BY Schedule, DueSays DEF FailureIsRetried, MANUAL_ONLY, ERROR_STATUSES, NeverRan
<1>2. QED
  BY <1>1, RulesHold, PTL

\* What is due stays due until it is run.
THEOREM WhatIsDueStaysDue == Spec => DueIsStable
<1>1. ASSUME RulesInv, RulesInv', [Next]_vars PROVE [subject = "due" => (Due => Due')]_vars
  <2>1. SUFFICES ASSUME subject = "due", Due, ~UNCHANGED vars PROVE Due'
    OBVIOUS
  <2>2. TimePasses
    BY <1>1, <2>1 DEF Next, OwnerDies, MinutePasses, StoreIsAsked
  <2>3. subject' = subject /\ asked' = asked /\ elapsed # NeverRan /\ elapsed' > elapsed
    BY <2>1, <2>2 DEF TimePasses
  <2>4. elapsed \in Nat /\ elapsed' \in Nat
    BY <1>1, <2>1, <2>3, Schedule, RuleConstants DEF NeverRan, RulesInv, DueTypes
  <2>5. asked.window.repeat_interval \in Int /\ due_grace_twentieths(asked.window.repeat_interval) \in Nat
    BY <1>1, <2>1, Schedule, GraceIsSmall
  <2>6. Retry' = Retry /\ StaleAfter' = StaleAfter
    BY <2>3 DEF Retry, StaleAfter
  <2> DEFINE T == /\ asked.window.repeat_interval # -1
                  /\ \/ elapsed' = -1
                     \/ asked.status \in {"error", "timeout"} /\ elapsed' >= Retry
                     \/ /\ asked.status = "running" /\ (asked.window.repeat_interval = 0 \/ ~asked.async)
                        /\ elapsed' >= StaleAfter
                     \/ /\ asked.window.repeat_interval \notin {0, -2} /\ ~(asked.status = "running" /\ ~asked.async)
                        /\ 20 * elapsed' >= 20 * asked.window.repeat_interval
                                              - due_grace_twentieths(asked.window.repeat_interval)
  <2>7. T
    BY <1>1, <2>1, <2>3, <2>4, <2>5, DueSays, AllowedIsANumber
  <2>8. T => Due'
    BY <1>1, <2>1, <2>3, Schedule, <2>4 DEF Due, due_from_row, explain_due, repeat_due, elapsed_verdict, Default, Retry, StaleAfter,
       ERROR_STATUSES, RUN_ONCE, MANUAL_ONLY, Unset, NeverRan, Twentieths, RunStatuses
  <2>9. QED
    BY <2>7, <2>8
<1>2. QED
  BY <1>1, RulesHold, PTL DEF Spec, DueIsStable
-----------------------------------------------------------------------------
(* The claim rule. *)

\* The parts of a question about a row.
LEMMA Question ==
    ASSUME RulesInv, subject = "claim"
    PROVE  /\ asked.meta.claim_pid \in Pids \cup {NoPid} /\ asked.meta.pid \in Pids \cup {NoPid}
           /\ asked.meta.claim_host \in Hosts \cup {NoHost} /\ asked.meta.host_name \in Hosts \cup {NoHost}
           /\ asked.meta.claim_node \in Nodes \cup {NoNode} /\ asked.this_node \in Nodes \cup {NoNode}
           /\ asked.host_fallback \in Hosts \cup {NoHost}
           /\ asked.timeout \in Nat /\ asked.at_timeout \in BOOLEAN
           /\ elapsed \in Nat /\ alive \in BOOLEAN
  BY RuleConstants DEF RulesInv, ClaimTypes, ClaimQuestions, Metadata

LEMMA OwnerParts ==
    ASSUME RulesInv, subject = "claim"
    PROVE  Owner.pid \in Pids \cup {NoPid} /\ Owner.host \in Hosts \cup {NoHost}
  BY Question DEF Owner, claim_owner, LegacyHost

\* What owner_verdict answers, by whom the row is owned.
LEMMA OwnerVerdictSays ==
    ASSUME RulesInv, subject = "claim", NEW pid_alive \in BOOLEAN
    PROVE  LET v == owner_verdict(asked.meta, ThisHost, elapsed, asked.timeout, pid_alive, Grace,
                                  asked.this_node, asked.host_fallback)
           IN  /\ v \in {Keep, Reap}
               /\ v = Reap <=> \/ OwnedHere /\ ~pid_alive
                               \/ OwnedByMyPast
                               \/ OwnedElsewhere /\ asked.timeout > 0 /\ elapsed - Grace >= asked.timeout
                               \/ Unowned /\ asked.timeout > 0 /\ elapsed >= asked.timeout
  BY Question, OwnerParts, RuleConstants DEF owner_verdict, Owner, OwnedHere, OwnedByMyPast, OwnedElsewhere, Unowned,
       LeftByAnEarlierHostOfThisNode, Keep, Reap

LEMMA PidAliveIsBoolean ==
    ASSUME RulesInv, subject = "claim"
    PROVE  PidAlive \in BOOLEAN /\ (PidAlive <=> Owner.pid # NoPid /\ Owner.host = ThisHost /\ alive)
  BY DEF PidAlive

\* What a sweep and a starting daemon answer.
LEMMA SweepSays ==
    ASSUME RulesInv, subject = "claim"
    PROVE  /\ Sweep.reap <=> \/ TableSaysFree
                             \/ asked.at_timeout /\ asked.timeout > 0 /\ elapsed >= asked.timeout
           /\ Sweep.reap /\ ~Sweep.timed_out => TableSaysFree
<1> DEFINE v == owner_verdict(asked.meta, ThisHost, elapsed, asked.timeout, PidAlive, Grace,
                              asked.this_node, asked.host_fallback)
<1>1. v \in {Keep, Reap} /\ (v = Reap <=> TableSaysFree)
  <2>1. OwnedHere /\ ~PidAlive <=> OwnedHere /\ ~alive
    BY PidAliveIsBoolean DEF OwnedHere, Unowned
  <2>2. QED
    BY <2>1, PidAliveIsBoolean, OwnerVerdictSays DEF TableSaysFree
<1>2. Sweep = IF ~v.reap /\ asked.at_timeout /\ asked.timeout # 0 /\ elapsed >= asked.timeout
              THEN [reap |-> TRUE, timed_out |-> TRUE] ELSE v
  BY DEF Sweep, reap_verdict
<1> HIDE DEF v
<1>3. asked.timeout \in Nat
  BY Question
<1>4. QED
  BY <1>1, <1>2, <1>3 DEF Keep, Reap

LEMMA StartupSays ==
    ASSUME RulesInv, subject = "claim"
    PROVE  Startup.reap <=>
             \/ OwnedByMyPast
             \/ OwnedElsewhere /\ asked.timeout > 0 /\ elapsed - Grace >= asked.timeout
             \/ Owner.pid # NoPid /\ Owner.host = ThisHost /\ ~alive
             \/ Owner.pid # NoPid /\ Owner.host = NoHost
             \/ Owner.pid = NoPid
<1>1. CASE Owner.pid # NoPid /\ Owner.host # NoHost /\ Owner.host # ThisHost
  <2> DEFINE v == owner_verdict(asked.meta, ThisHost, elapsed, asked.timeout, FALSE, Grace,
                                asked.this_node, asked.host_fallback)
  <2>1. /\ v \in {Keep, Reap}
        /\ v = Reap <=> \/ OwnedByMyPast
                        \/ OwnedElsewhere /\ asked.timeout > 0 /\ elapsed - Grace >= asked.timeout
    BY <1>1, OwnerVerdictSays DEF OwnedHere, Unowned
  <2>2. Startup = v
    BY <1>1 DEF Startup, startup_verdict, reap_verdict, Owner
  <2> HIDE DEF v
  <2>3. QED
    BY <1>1, <2>1, <2>2 DEF Keep, Reap
<1>2. CASE Owner.pid # NoPid /\ Owner.host \in {NoHost, ThisHost}
  <2>1. Startup = IF PidAlive THEN Keep ELSE Reap
    BY <1>2 DEF Startup, startup_verdict, Owner
  <2>2. PidAlive <=> Owner.host = ThisHost /\ alive
    BY <1>2, PidAliveIsBoolean
  <2>3. ~OwnedByMyPast /\ ~OwnedElsewhere
    BY <1>2 DEF OwnedByMyPast, OwnedElsewhere, OwnedHere, Unowned
  <2>4. QED
    BY <1>2, <2>1, <2>2, <2>3, RuleConstants DEF Keep, Reap
<1>3. CASE Owner.pid = NoPid
  <2>1. Startup = Reap
    BY <1>3 DEF Startup, startup_verdict, Owner
  <2>2. QED
    BY <1>3, <2>1 DEF Reap
<1>4. QED
  BY <1>1, <1>2, <1>3

\* The reaper frees exactly the rows the table of run_claim.py frees.
THEOREM TheTableIsFreed == Spec => []FreesExactlyTheTable
<1>1. RulesInv => FreesExactlyTheTable
  BY SweepSays DEF FreesExactlyTheTable
<1>2. QED
  BY <1>1, RulesHold, PTL

\* No verdict without `timed_out` frees the row of a process that works here (reap_verdict,
\* startup_verdict).
THEOREM NobodyIsReapedAtWork == Spec => []ReapedUnstoppedIsDead
<1>1. ASSUME RulesInv PROVE ReapedUnstoppedIsDead
  <2>1. SUFFICES ASSUME subject = "claim", OwnedHere, alive
                 PROVE  ~(Sweep.reap /\ ~Sweep.timed_out) /\ ~Startup.reap
    BY DEF ReapedUnstoppedIsDead
  <2>2. ~TableSaysFree
    BY <2>1 DEF TableSaysFree, OwnedByMyPast, OwnedElsewhere, OwnedHere
  <2>3. ~Startup.reap
    BY <1>1, <2>1, StartupSays, RuleConstants DEF OwnedByMyPast, OwnedElsewhere, OwnedHere, Unowned
  <2>4. QED
    BY <1>1, <2>1, <2>2, <2>3, SweepSays
<1>2. QED
  BY <1>1, RulesHold, PTL

\* The two lemmas above, as one fact about a state.
StartupFrees ==
    \/ OwnedByMyPast
    \/ OwnedElsewhere /\ asked.timeout > 0 /\ elapsed - Grace >= asked.timeout
    \/ Owner.pid # NoPid /\ Owner.host = ThisHost /\ ~alive
    \/ Owner.pid # NoPid /\ Owner.host = NoHost
    \/ Owner.pid = NoPid
VerdictsAsTold ==
    subject = "claim" =>
        /\ Sweep.reap <=> \/ TableSaysFree
                          \/ asked.at_timeout /\ asked.timeout > 0 /\ elapsed >= asked.timeout
        /\ Startup.reap <=> StartupFrees

\* Neither time nor the owner's death takes a verdict back.
THEOREM VerdictsStayGiven == Spec => VerdictsAreStable
<1>1. RulesInv => VerdictsAsTold
  BY SweepSays, StartupSays DEF VerdictsAsTold, StartupFrees
<1>2. ASSUME RulesInv, RulesInv', VerdictsAsTold, VerdictsAsTold', [Next]_vars
      PROVE  [subject = "claim" => (Sweep.reap => Sweep'.reap) /\ (Startup.reap => Startup'.reap)]_vars
  <2>1. SUFFICES ASSUME subject = "claim", ~UNCHANGED vars
                 PROVE  (Sweep.reap => Sweep'.reap) /\ (Startup.reap => Startup'.reap)
    OBVIOUS
  <2>2. TimePasses \/ OwnerDies
    BY <1>2, <2>1 DEF Next, MinutePasses, StoreIsAsked
  <2>3. subject' = subject /\ asked' = asked /\ elapsed' >= elapsed /\ (alive' => alive)
        /\ elapsed \in Nat /\ elapsed' \in Nat
    <3>1. elapsed \in Nat /\ elapsed' \in Nat /\ subject' = subject /\ asked' = asked
      BY <1>2, <2>1, <2>2 DEF TimePasses, OwnerDies, RulesInv, ClaimTypes
    <3>2. elapsed' >= elapsed
      BY <2>1, <2>2, <3>1 DEF TimePasses, OwnerDies
    <3>3. alive' => alive
      BY <2>2 DEF TimePasses, OwnerDies
    <3>4. QED
      BY <3>1, <3>2, <3>3
  <2>4. asked.timeout \in Nat /\ Grace \in Nat
    BY <1>2, <2>1, Question, RuleConstants
  <2>5. (Owner' = Owner) /\ (Unowned' <=> Unowned) /\ (OwnedHere' <=> OwnedHere)
        /\ (OwnedByMyPast' <=> OwnedByMyPast) /\ (OwnedElsewhere' <=> OwnedElsewhere)
    BY <2>3 DEF Owner, Unowned, OwnedHere, OwnedByMyPast, OwnedElsewhere
  <2>6. TableSaysFree => TableSaysFree'
    BY <2>3, <2>4, <2>5 DEF TableSaysFree
  <2>7. StartupFrees => StartupFrees'
    BY <2>3, <2>4, <2>5, RuleConstants DEF StartupFrees
  <2>8. /\ Sweep.reap <=> \/ TableSaysFree
                          \/ asked.at_timeout /\ asked.timeout > 0 /\ elapsed >= asked.timeout
        /\ Startup.reap <=> StartupFrees
    BY <1>2, <2>1 DEF VerdictsAsTold
  <2>9. /\ Sweep'.reap <=> \/ TableSaysFree'
                           \/ asked.at_timeout /\ asked.timeout > 0 /\ elapsed' >= asked.timeout
        /\ Startup'.reap <=> StartupFrees'
    BY <1>2, <2>1, <2>3 DEF VerdictsAsTold
  <2>10. QED
    BY <2>3, <2>4, <2>6, <2>7, <2>8, <2>9
<1>3. QED
  BY <1>1, <1>2, RulesHold, PTL DEF Spec, VerdictsAreStable
-----------------------------------------------------------------------------
(* The wall-clock window. *)

\* A window's bounds, and the parts of the date that are left open.
LEMMA WindowParts ==
    ASSUME RulesInv, subject = "window"
    PROVE  /\ \A b \in {asked.from, asked.to} :
                  /\ b["hour"] \in 0 .. LastHour \cup {-2} /\ b["minute"] \in 0 .. LastMinute \cup {-2}
                  /\ \A p \in {"year", "month", "day"} : b[p] = -2
           /\ asked.weekdays \subseteq 1 .. 7
<1>1. asked.from \in Bounds /\ asked.to \in Bounds /\ asked.weekdays \in WeekdaySets
  BY DEF RulesInv, WindowTypes, WindowQuestions
<1>2. ASSUME NEW b \in Bounds
      PROVE  /\ b["hour"] \in 0 .. LastHour \cup {-2} /\ b["minute"] \in 0 .. LastMinute \cup {-2}
             /\ \A p \in {"year", "month", "day"} : b[p] = -2
  BY DEF Bounds, Bound, DateParts, Unset
<1>3. QED
  BY <1>1, <1>2, RuleConstants

\* A window is open when the day, the hour and the minute are in it.
HourIn(h) == ~OutsideRange(asked.from["hour"], asked.to["hour"], h)
MinuteIn(m) == ~OutsideRange(asked.from["minute"], asked.to["minute"], m)
OpenAsTold ==
    subject = "window" =>
        (Open <=> clock.weekday \in asked.weekdays /\ HourIn(clock.hour) /\ MinuteIn(clock.minute))

LEMMA OpenSays == RulesInv => OpenAsTold
<1> SUFFICES ASSUME RulesInv, subject = "window" PROVE OpenAsTold
  BY DEF OpenAsTold
<1>1. clock["hour"] = clock.hour /\ clock["minute"] = clock.minute
  BY DEF RulesInv, ClockTypes
<1>2. \A p \in {"year", "month", "day"} : ~OutsideRange(asked.from[p], asked.to[p], clock[p])
  BY WindowParts DEF OutsideRange, Unset
<1>3. Open <=> /\ clock.weekday \in asked.weekdays
               /\ ~OutsideRange(asked.from["hour"], asked.to["hour"], clock["hour"])
               /\ ~OutsideRange(asked.from["minute"], asked.to["minute"], clock["minute"])
  BY <1>2 DEF Open, is_time_window_open, DateParts
<1>4. QED
  BY <1>1, <1>3 DEF OpenAsTold, HourIn, MinuteIn

\* One part of the date, moving on by one or going round from its last value to 0: it comes into its
\* range only at the first value and leaves it only after the last.
LEMMA RangeIsEnteredAtItsFirst ==
    ASSUME NEW end \in Nat, NEW from \in 0 .. end \cup {-2}, NEW to \in 0 .. end \cup {-2},
           NEW v \in 0 .. end, NEW w \in 0 .. end, w = (IF v = end THEN 0 ELSE v + 1)
    PROVE  /\ OutsideRange(from, to, v) /\ ~OutsideRange(from, to, w) => w = (IF from = -2 THEN 0 ELSE from)
           /\ ~OutsideRange(from, to, v) /\ OutsideRange(from, to, w) => v = (IF to = -2 THEN end ELSE to)
  BY DEF OutsideRange, Unset

\* A window opens only as a first hour or minute begins and closes only as a last one ends
\* (time_window_closed_reason), wrapping ranges included.
THEOREM WindowsTurnOnTheirBounds == Spec => OpensAndClosesOnItsBounds
<1>1. ASSUME RulesInv, RulesInv', OpenAsTold, OpenAsTold', [Next]_vars
      PROVE  [subject = "window" /\ clock'.weekday = clock.weekday =>
                /\ ~Open /\ Open' => \/ clock'.minute = First("minute")
                                     \/ clock'.hour = First("hour")
                /\ Open /\ ~Open' => \/ clock.minute = Last("minute", LastMinute)
                                     \/ clock.hour = Last("hour", LastHour)]_vars
  <2>1. SUFFICES ASSUME subject = "window", clock'.weekday = clock.weekday, ~UNCHANGED vars
                 PROVE  /\ ~Open /\ Open' => \/ clock'.minute = First("minute")
                                             \/ clock'.hour = First("hour")
                        /\ Open /\ ~Open' => \/ clock.minute = Last("minute", LastMinute)
                                             \/ clock.hour = Last("hour", LastHour)
    OBVIOUS
  <2>2. MinutePasses
    BY <1>1, <2>1 DEF Next, TimePasses, OwnerDies, StoreIsAsked
  <2> DEFINE h == clock.hour
             m == clock.minute
             hn == clock'.hour
             mn == clock'.minute
  <2>3. h \in 0 .. LastHour /\ hn \in 0 .. LastHour /\ m \in 0 .. LastMinute /\ mn \in 0 .. LastMinute
        /\ clock.weekday \in 1 .. 7 /\ LastHour \in Nat /\ LastMinute \in Nat
    BY <1>1, RuleConstants DEF RulesInv, ClockTypes
  <2>4. /\ mn = (IF m = LastMinute THEN 0 ELSE m + 1)
        /\ hn = (IF m = LastMinute /\ h = LastHour THEN 0 ELSE IF m = LastMinute THEN h + 1 ELSE h)
        /\ clock'.weekday = (IF m = LastMinute /\ h = LastHour THEN (clock.weekday % 7) + 1 ELSE clock.weekday)
    BY <1>1, <2>2 DEF MinutePasses, RulesInv, ClockTypes
  <2>5. ~(m = LastMinute /\ h = LastHour)
    BY <2>1, <2>3, <2>4
  <2>6. hn = h \/ hn = (IF h = LastHour THEN 0 ELSE h + 1)
    BY <2>3, <2>4, <2>5
  <2>7. asked' = asked /\ subject' = subject
    BY <2>2 DEF MinutePasses
  <2>8. /\ Open <=> clock.weekday \in asked.weekdays /\ HourIn(h) /\ MinuteIn(m)
        /\ Open' <=> clock.weekday \in asked.weekdays /\ HourIn(hn) /\ MinuteIn(mn)
    BY <1>1, <2>1, <2>7 DEF OpenAsTold, HourIn, MinuteIn
  <2>9. /\ ~MinuteIn(m) /\ MinuteIn(mn) => mn = First("minute")
        /\ MinuteIn(m) /\ ~MinuteIn(mn) => m = Last("minute", LastMinute)
    <3> DEFINE from == asked.from["minute"]
               to == asked.to["minute"]
    <3>1. from \in 0 .. LastMinute \cup {-2} /\ to \in 0 .. LastMinute \cup {-2}
      BY <1>1, <2>1, WindowParts
    <3>2. /\ First("minute") = (IF from = -2 THEN 0 ELSE from)
          /\ Last("minute", LastMinute) = (IF to = -2 THEN LastMinute ELSE to)
      BY DEF First, Last, Unset
    <3>3. (MinuteIn(m) <=> ~OutsideRange(from, to, m)) /\ (MinuteIn(mn) <=> ~OutsideRange(from, to, mn))
      BY DEF MinuteIn
    <3> HIDE DEF from, to, m, mn
    <3>4. QED
      BY <2>3, <2>4, <3>1, <3>2, <3>3, RangeIsEnteredAtItsFirst
  <2>10. /\ ~HourIn(h) /\ HourIn(hn) => hn = First("hour")
         /\ HourIn(h) /\ ~HourIn(hn) => h = Last("hour", LastHour)
    <3> DEFINE from == asked.from["hour"]
               to == asked.to["hour"]
    <3>1. from \in 0 .. LastHour \cup {-2} /\ to \in 0 .. LastHour \cup {-2}
      BY <1>1, <2>1, WindowParts
    <3>2. /\ First("hour") = (IF from = -2 THEN 0 ELSE from)
          /\ Last("hour", LastHour) = (IF to = -2 THEN LastHour ELSE to)
      BY DEF First, Last, Unset
    <3>3. (HourIn(h) <=> ~OutsideRange(from, to, h)) /\ (HourIn(hn) <=> ~OutsideRange(from, to, hn))
      BY DEF HourIn
    <3> HIDE DEF from, to, h, hn
    <3>4. QED
      BY <2>3, <2>6, <3>1, <3>2, <3>3, RangeIsEnteredAtItsFirst
  <2> HIDE DEF h, m, hn, mn
  <2>11. QED
    BY <2>8, <2>9, <2>10 DEF h, m, hn, mn
<1>2. QED
  BY <1>1, OpenSays, RulesHold, PTL DEF Spec, OpensAndClosesOnItsBounds
=============================================================================
