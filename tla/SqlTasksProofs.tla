--------------------------- MODULE SqlTasksProofs ---------------------------
(***************************************************************************)
(* Proofs about the SQL task runner, for any number of scans, hosts, tasks *)
(* and rows, with any windows.                                             *)
(***************************************************************************)
EXTENDS SqlTasks, NumberLemmas

AtWork(s) == scan[s].pc \in {"running", "deliver"}

\* The row a scan works under is its own, on its host, and carries its marker.
OwnsItsRow ==
    \A s \in Scans : AtWork(s) =>
        LET r == scan[s].run
        IN  /\ r \in Rows /\ r \in scan[s].wrote
            /\ sql_runs[r].pid = s /\ sql_runs[r].host = scan[s].host

\* A row is somebody's; while it is running nobody has freed or reported it.
WholeRows ==
    \A r \in Ids :
        /\ r \in Rows => sql_runs[r].pid \in Scans /\ sql_runs[r].host \in Hosts
        /\ r \notin Rows \/ r \in Running => sql_runs[r].freed_by = NoHost /\ alerts[r] = 0

\* ux_sql_runs_claim.
OneClaim ==
    \A r, q \in Running : sql_runs[r].key = sql_runs[q].key /\ sql_runs[r].host = sql_runs[q].host => r = q

\* A row a scan has read is in the table, and one its own host's sweep has judged has nobody working under it.
JudgedRight ==
    \A s \in Scans :
        /\ scan[s].pc \in {"sweep", "close"} => scan[s].host \in Hosts /\ DOMAIN scan[s].rows \subseteq Rows
        /\ scan[s].pc = "close" =>
               /\ DOMAIN scan[s].rows # {}
               /\ sql_runs[This(s)].host = scan[s].host =>
                      \A p \in Scans : ~(scan[p].pc = "running" /\ scan[p].run = This(s))

\* What a scan in work may meet: its claim freed, by an operator or by another host, never by its own.
FreedFromOutside ==
    \A s \in Scans : AtWork(s) =>
        LET r == scan[s].run
        IN  /\ scan[s].pc = "running" => r \in Running \/ sql_runs[r].freed_by \notin Here(r)
            /\ scan[s].pc = "deliver" => r \notin Running
            /\ sql_runs[r].freed_by # sql_runs[r].host
            /\ alerts[r] <= IF sql_runs[r].freed_by \in {NoHost, "operator"} THEN 0 ELSE 1

HasAJob ==
    \A s \in Scans : /\ scan[s].pc = "probed" => scan[s].todo # {}
                     /\ scan[s].pc # "down" => scan[s].host \in Hosts

Inv == TypeOK /\ OwnsItsRow /\ WholeRows /\ OneClaim /\ JudgedRight /\ FreedFromOutside /\ HasAJob /\ ReportedOnce
-----------------------------------------------------------------------------
(* Types. *)

LEMMA ReadingsAre ==
    ASSUME NEW f
    PROVE  f \in Readings <=> DOMAIN f \subseteq Ids /\ f \in [DOMAIN f -> Ages]
  BY DEF Readings

LEMMA Numbers == 0 \in Ages /\ Ids \subseteq Nat /\ Ages \subseteq Nat /\ 0 \notin Ids /\ MaxAge \in Ages
  BY SqlConstants DEF Ages, Ids

LEMMA ScanParts ==
    ASSUME TypeOK, NEW s \in Scans
    PROVE  /\ scan[s] \in Scan
           /\ scan[s].pc \in {"down", "sweep", "close", "read", "work", "probed", "running", "deliver"}
           /\ scan[s].host \in Hosts \cup {NoHost} /\ scan[s].hand \in BOOLEAN
           /\ scan[s].rows \in Readings /\ scan[s].busy \subseteq Targets /\ scan[s].todo \subseteq Targets
           /\ scan[s].listed \in Ages /\ scan[s].start \in Ages /\ scan[s].run \in Ids \cup {0}
           /\ scan[s].wrote \subseteq Ids
<1>1. scan[s] \in Scan
  BY DEF TypeOK
<1>2. QED
  BY <1>1 DEF Scan

LEMMA RowParts ==
    ASSUME TypeOK, NEW r \in Ids
    PROVE  /\ sql_runs[r] \in Row
           /\ sql_runs[r].key \in Targets \cup {0} /\ sql_runs[r].host \in Hosts \cup {NoHost}
           /\ sql_runs[r].pid \in Scans \cup {NoPid}
           /\ sql_runs[r].status \in {"none", "running", "done", "error"} /\ sql_runs[r].age \in Ages
           /\ sql_runs[r].freed_by \in Hosts \cup {NoHost, "operator"}
           /\ alerts[r] \in 0 .. 3
  BY DEF TypeOK, Row

LEMMA DownIsAScan == Down \in Scan /\ Down.pc = "down"
<1>1. <<>> \in Readings
  <2>1. DOMAIN <<>> = {}
    OBVIOUS
  <2>2. <<>> \in [{} -> Ages]
    OBVIOUS
  <2>3. QED
    BY <2>1, <2>2, ReadingsAre
<1>2. QED
  BY <1>1, Numbers DEF Down, Scan

LEMMA DropReads ==
    ASSUME NEW f \in Readings, NEW r
    PROVE  Drop(f, r) \in Readings /\ DOMAIN Drop(f, r) = DOMAIN f \ {r}
  BY ReadingsAre DEF Drop

\* The row a sweep has come to, and the task a scan has.
LEMMA ThisIsRead ==
    ASSUME TypeOK, NEW s \in Scans, DOMAIN scan[s].rows # {}
    PROVE  This(s) \in DOMAIN scan[s].rows /\ This(s) \in Ids
<1>1. DOMAIN scan[s].rows \subseteq Ids
  BY ScanParts, ReadingsAre
<1>2. QED
  BY <1>1, Numbers, MinIsLeast DEF This

LEMMA JobIsATarget ==
    ASSUME TypeOK, NEW s \in Scans, scan[s].todo # {}
    PROVE  Job(s) \in Targets
<1>1. scan[s].todo \subseteq Nat
  BY ScanParts, SqlConstants
<1>2. QED
  BY <1>1, ScanParts, MinIsLeast DEF Job

\* A step that puts one scan elsewhere.
LEMMA OneMoves ==
    ASSUME TypeOK, NEW s \in Scans, NEW t \in Scan, scan' = [scan EXCEPT ![s] = t]
    PROVE  /\ scan' \in [Scans -> Scan] /\ scan'[s] = t
           /\ \A p \in Scans : p # s => scan'[p] = scan[p]
  BY DEF TypeOK

\* A step that leaves the table alone and puts one scan where it neither works nor is about to close.
LEMMA QuietStep ==
    ASSUME Inv, NEW s \in Scans, NEW t \in Scan, scan' = [scan EXCEPT ![s] = t], UNCHANGED <<sql_runs, alerts>>,
           t.pc \notin {"running", "deliver", "close"},
           t.pc = "sweep" => DOMAIN t.rows \subseteq Rows,
           t.pc # "down" => t.host \in Hosts,
           t.pc = "probed" => t.todo # {}
    PROVE  Inv'
<1>1. TypeOK /\ scan' \in [Scans -> Scan] /\ scan'[s] = t /\ \A p \in Scans : p # s => scan'[p] = scan[p]
  BY OneMoves DEF Inv
<1>2. TypeOK'
  BY <1>1 DEF TypeOK
<1>3. Rows' = Rows /\ Running' = Running
  BY DEF Rows, Running
<1>4. \A p \in Scans : AtWork(p)' => p # s /\ AtWork(p)
  BY <1>1 DEF AtWork
<1>5. OwnsItsRow'
  BY <1>1, <1>3, <1>4 DEF Inv, OwnsItsRow
<1>6. WholeRows' /\ OneClaim' /\ ReportedOnce'
  BY <1>3 DEF Inv, WholeRows, OneClaim, ReportedOnce, Here
<1>7. JudgedRight'
  <2>1. SUFFICES ASSUME NEW p \in Scans
                 PROVE  /\ scan'[p].pc \in {"sweep", "close"} => scan'[p].host \in Hosts /\ DOMAIN scan'[p].rows \subseteq Rows
                        /\ scan'[p].pc = "close" =>
                               /\ DOMAIN scan'[p].rows # {}
                               /\ sql_runs[This(p)'].host = scan'[p].host =>
                                      \A x \in Scans : ~(scan'[x].pc = "running" /\ scan'[x].run = This(p)')
    BY <1>3 DEF JudgedRight
  <2>2. CASE p = s
    BY <1>1, <2>2
  <2>3. CASE p # s
    <3>1. scan'[p] = scan[p] /\ This(p)' = This(p)
      BY <1>1, <2>3 DEF This
    <3>2. \A x \in Scans : scan'[x].pc = "running" => scan'[x] = scan[x]
      BY <1>1
    <3>3. QED
      BY <3>1, <3>2 DEF Inv, JudgedRight
  <2>4. QED
    BY <2>2, <2>3
<1>8. FreedFromOutside'
  BY <1>1, <1>3, <1>4 DEF Inv, FreedFromOutside, Here
<1>9. HasAJob'
  BY <1>1 DEF Inv, HasAJob
<1>10. QED
  BY <1>2, <1>5, <1>6, <1>7, <1>8, <1>9 DEF Inv
-----------------------------------------------------------------------------
(* The quiet steps. *)

LEMMA RunningAreRows == Running \subseteq Rows /\ Rows \subseteq Ids
  BY DEF Running, Rows

\* What a sweep reads.
LEMMA ReadingOfRows ==
    ASSUME TypeOK, NEW S, S \subseteq Running
    PROVE  [r \in S |-> sql_runs[r].age] \in Readings /\ DOMAIN [r \in S |-> sql_runs[r].age] \subseteq Rows
<1> DEFINE f == [r \in S |-> sql_runs[r].age]
<1>1. DOMAIN f = S /\ S \subseteq Ids /\ S \subseteq Rows
  BY RunningAreRows
<1>2. \A r \in S : sql_runs[r].age \in Ages
  BY <1>1, RowParts
<1>3. f \in [S -> Ages]
  BY <1>2
<1> HIDE DEF f
<1>4. f \in Readings
  BY <1>1, <1>3, ReadingsAre
<1>5. QED
  BY <1>1, <1>4 DEF f

LEMMA StartScanPreserves ==
    ASSUME Inv, NEW s \in Scans, NEW h \in Hosts, StartScan(s, h)
    PROVE  Inv'
<1> DEFINE f == [r \in Running |-> sql_runs[r].age]
           t == [Down EXCEPT !.pc = "sweep", !.host = h, !.rows = f]
<1>1. f \in Readings /\ DOMAIN f \subseteq Rows
  BY ReadingOfRows DEF Inv
<1>2. scan' = [scan EXCEPT ![s] = t] /\ UNCHANGED <<sql_runs, alerts>>
  BY DEF StartScan, fetch_running_sql_runs
<1> HIDE DEF f
<1>3. t \in Scan /\ t.pc = "sweep" /\ t.rows = f /\ t.host = h
  BY <1>1, DownIsAScan DEF Down, Scan
<1> HIDE DEF t
<1>4. QED
  BY <1>1, <1>2, <1>3, QuietStep

LEMMA RunByHandPreserves ==
    ASSUME Inv, NEW s \in Scans, NEW h \in Hosts, NEW j \in Targets, RunByHand(s, h, j)
    PROVE  Inv'
<1> DEFINE S == {q \in Running : sql_runs[q].key = j}
           f == [r \in S |-> sql_runs[r].age]
           t == [Down EXCEPT !.pc = "sweep", !.host = h, !.hand = TRUE, !.todo = {j}, !.rows = f]
<1>1. f \in Readings /\ DOMAIN f \subseteq Rows
  BY ReadingOfRows DEF Inv
<1>2. scan' = [scan EXCEPT ![s] = t] /\ UNCHANGED <<sql_runs, alerts>>
  BY DEF RunByHand, fetch_running_sql_runs
<1> HIDE DEF f
<1>3. t \in Scan /\ t.pc = "sweep" /\ t.rows = f /\ t.host = h
  BY <1>1, DownIsAScan DEF Down, Scan
<1> HIDE DEF t
<1>4. QED
  BY <1>1, <1>2, <1>3, QuietStep

\* A scan that goes down.
LEMMA DownPreserves ==
    ASSUME Inv, NEW s \in Scans, scan' = [scan EXCEPT ![s] = Down], UNCHANGED <<sql_runs, alerts>>
    PROVE  Inv'
  BY DownIsAScan, QuietStep

LEMMA SweepKeepsPreserves ==
    ASSUME Inv, NEW s \in Scans, SweepKeeps(s)
    PROVE  Inv'
<1> DEFINE f == Drop(scan[s].rows, This(s))
           t == [scan[s] EXCEPT !.rows = f]
<1>1. TypeOK /\ scan[s].pc = "sweep" /\ UNCHANGED <<sql_runs, alerts>>
  BY DEF Inv, SweepKeeps, Sweeping
<1>2. f \in Readings /\ DOMAIN f \subseteq DOMAIN scan[s].rows
  <2>1. scan[s].rows \in Readings
    BY <1>1, ScanParts
  <2>2. QED
    BY <2>1, DropReads
<1>3. scan' = [scan EXCEPT ![s] = t]
  BY <1>1 DEF SweepKeeps, TypeOK
<1> HIDE DEF f
<1>4. t \in Scan /\ t.pc = "sweep" /\ t.rows = f /\ t.host = scan[s].host
  BY <1>1, <1>2, ScanParts DEF Scan
<1> HIDE DEF t
<1>5. scan[s].host \in Hosts /\ DOMAIN scan[s].rows \subseteq Rows
  BY <1>1 DEF Inv, JudgedRight
<1>6. QED
  BY <1>1, <1>2, <1>3, <1>4, <1>5, QuietStep

LEMMA ListPreserves ==
    ASSUME Inv, NEW s \in Scans, List(s)
    PROVE  Inv'
<1> DEFINE busy == {t \in Targets : IsBusy(t)}
<1>1. TypeOK /\ scan[s].pc = "sweep" /\ UNCHANGED <<sql_runs, alerts>>
  BY DEF Inv, List, Swept
<1>2. scan' = [scan EXCEPT ![s].pc = "read", ![s].listed = 0, ![s].busy = busy]
  BY DEF List
<1>3. busy \in SUBSET Targets
  OBVIOUS
<1> HIDE DEF busy
<1> DEFINE t == [scan[s] EXCEPT !.pc = "read", !.listed = 0, !.busy = busy]
<1>4. scan' = [scan EXCEPT ![s] = t]
  BY <1>1, <1>2 DEF TypeOK
<1>5. t \in Scan /\ t.pc = "read" /\ t.host = scan[s].host
  BY <1>1, <1>3, ScanParts, Numbers DEF Scan
<1> HIDE DEF t
<1>6. scan[s].host \in Hosts
  BY <1>1 DEF Inv, HasAJob
<1>7. QED
  BY <1>1, <1>4, <1>5, <1>6, QuietStep

LEMMA ReadLatestPreserves ==
    ASSUME Inv, NEW s \in Scans, ReadLatest(s)
    PROVE  Inv'
<1> DEFINE todo == {t \in Targets \ scan[s].busy : IsDue(t)}
<1>1. TypeOK /\ scan[s].pc = "read" /\ UNCHANGED <<sql_runs, alerts>>
  BY DEF Inv, ReadLatest
<1>2. scan' = [scan EXCEPT ![s].pc = "work", ![s].busy = {}, ![s].todo = todo]
  BY DEF ReadLatest
<1>3. todo \in SUBSET Targets
  OBVIOUS
<1> HIDE DEF todo
<1> DEFINE t == [scan[s] EXCEPT !.pc = "work", !.busy = {}, !.todo = todo]
<1>4. scan' = [scan EXCEPT ![s] = t]
  BY <1>1, <1>2 DEF TypeOK
<1>5. t \in Scan /\ t.pc = "work" /\ t.host = scan[s].host
  BY <1>1, <1>3, ScanParts DEF Scan
<1> HIDE DEF t
<1>6. scan[s].host \in Hosts
  BY <1>1 DEF Inv, HasAJob
<1>7. QED
  BY <1>1, <1>4, <1>5, <1>6, QuietStep

LEMMA GoOnPreserves ==
    ASSUME Inv, NEW s \in Scans, GoOn(s)
    PROVE  Inv'
<1>1. TypeOK /\ scan[s].pc = "sweep" /\ UNCHANGED <<sql_runs, alerts>>
  BY DEF Inv, GoOn, Swept
<1> DEFINE t == [scan[s] EXCEPT !.pc = "work"]
<1>2. scan' = [scan EXCEPT ![s] = t]
  BY <1>1 DEF GoOn, TypeOK
<1>3. t \in Scan /\ t.pc = "work" /\ t.host = scan[s].host
  BY <1>1, ScanParts DEF Scan
<1> HIDE DEF t
<1>4. scan[s].host \in Hosts
  BY <1>1 DEF Inv, HasAJob
<1>5. QED
  BY <1>1, <1>2, <1>3, <1>4, QuietStep

LEMMA ProbePreserves ==
    ASSUME Inv, NEW s \in Scans, Probe(s)
    PROVE  Inv'
<1>1. TypeOK /\ scan[s].pc = "work" /\ scan[s].todo # {} /\ UNCHANGED <<sql_runs, alerts>>
  BY DEF Inv, Probe
<1> DEFINE t == [scan[s] EXCEPT !.pc = "probed", !.start = 0]
<1>2. scan' = [scan EXCEPT ![s] = t]
  BY <1>1 DEF Probe, TypeOK
<1>3. t \in Scan /\ t.pc = "probed" /\ t.host = scan[s].host /\ t.todo = scan[s].todo
  BY <1>1, ScanParts, Numbers DEF Scan
<1> HIDE DEF t
<1>4. scan[s].host \in Hosts
  BY <1>1 DEF Inv, HasAJob
<1>5. QED
  BY <1>1, <1>2, <1>3, <1>4, QuietStep

\* The scan as it is when it goes on to its next task.
NextOf(s) == [scan[s] EXCEPT !.pc = "work", !.todo = @ \ {Job(s)}, !.run = 0, !.start = 0]

LEMMA NextJobIs ==
    ASSUME TypeOK, NEW s \in Scans
    PROVE  /\ NextJob(s) = [scan EXCEPT ![s] = NextOf(s)]
           /\ NextOf(s) \in Scan /\ NextOf(s).pc = "work" /\ NextOf(s).host = scan[s].host
<1>1. NextJob(s) = [scan EXCEPT ![s] = NextOf(s)]
  BY DEF NextJob, NextOf, TypeOK
<1>2. NextOf(s) \in Scan /\ NextOf(s).pc = "work" /\ NextOf(s).host = scan[s].host
  BY ScanParts, Numbers DEF NextOf, Scan
<1>3. QED
  BY <1>1, <1>2

LEMMA NextJobPreserves ==
    ASSUME Inv, NEW s \in Scans, scan[s].pc # "down", scan' = NextJob(s), UNCHANGED <<sql_runs, alerts>>
    PROVE  Inv'
<1>1. scan[s].host \in Hosts /\ TypeOK
  BY DEF Inv, HasAJob
<1>2. QED
  BY <1>1, NextJobIs, QuietStep
-----------------------------------------------------------------------------
(* A sweep. *)

\* The rule of run_claim.py, on a row whose owner is alive on the sweep's host: only past its timeout.
LEMMA TheLivingAreTimedOut ==
    ASSUME WholeRows, NEW s \in Scans, NEW r \in Rows, sql_runs[r].host = scan[s].host,
           is_pid_alive(scan[s].host, sql_runs[r].pid), Verdict(s, r).reap
    PROVE  Verdict(s, r).timed_out
<1>1. sql_runs[r].pid # NoPid /\ sql_runs[r].host # NoHost
  BY SqlConstants, RunningAreRows DEF WholeRows
<1> DEFINE v == owner_verdict(ClaimOf(r), scan[s].host, scan[s].rows[r], Window[sql_runs[r].key].timeout, TRUE, Grace,
                              scan[s].host, sql_runs[r].host)
<1>2. claim_owner(ClaimOf(r), sql_runs[r].host) = [pid |-> sql_runs[r].pid, host |-> sql_runs[r].host]
  BY <1>1 DEF claim_owner, ClaimOf
<1>3. v = Keep
  BY <1>1, <1>2 DEF owner_verdict, LeftByAnEarlierHostOfThisNode
<1>4. Verdict(s, r) = v \/ Verdict(s, r) = [reap |-> TRUE, timed_out |-> TRUE]
  <2>1. (sql_runs[r].host = scan[s].host /\ is_pid_alive(scan[s].host, sql_runs[r].pid)) = TRUE
    BY DEF is_pid_alive
  <2>2. Verdict(s, r) = reap_verdict(ClaimOf(r), scan[s].host, scan[s].rows[r], Window[sql_runs[r].key].timeout, TRUE,
                                     Grace, scan[s].host, sql_runs[r].host, TRUE)
    BY <2>1 DEF Verdict
  <2>3. QED
    BY <2>2 DEF reap_verdict
<1> HIDE DEF v
<1>5. QED
  BY <1>3, <1>4 DEF Keep

LEMMA SweepJudgesPreserves ==
    ASSUME Inv, ~StopMayFail, NEW s \in Scans, SweepJudges(s)
    PROVE  Inv'
<1> DEFINE r == This(s)
           stopped == stop_overdue_owner(s, r)
           t == [scan[s] EXCEPT !.pc = "close"]
<1>1. TypeOK /\ scan[s].pc = "sweep" /\ DOMAIN scan[s].rows # {} /\ Verdict(s, r).reap
      /\ UNCHANGED <<sql_runs, alerts>>
  BY DEF Inv, SweepJudges, Sweeping
<1>2. scan' = [p \in Scans |-> IF p = s THEN t ELSE IF p \in stopped THEN Down ELSE scan[p]]
  BY DEF SweepJudges
<1>3. t \in Scan /\ t.pc = "close" /\ t.rows = scan[s].rows /\ t.host = scan[s].host
  BY <1>1, ScanParts DEF Scan
<1>4. scan[s].host \in Hosts /\ DOMAIN scan[s].rows \subseteq Rows
  BY <1>1 DEF Inv, JudgedRight
<1>5. r \in DOMAIN scan[s].rows /\ r \in Rows
  BY <1>1, <1>4, ThisIsRead
<1>6. ASSUME NEW x \in Scans, scan[x].pc = "running", scan[x].run = r, sql_runs[r].host = scan[s].host
      PROVE  x \in stopped
  <2>1. r \in scan[x].wrote /\ sql_runs[r].pid = x /\ sql_runs[r].host = scan[x].host
    BY <1>6 DEF Inv, OwnsItsRow, AtWork
  <2>2. is_pid_alive(scan[s].host, x)
    BY <1>6, <2>1 DEF is_pid_alive
  <2>3. Verdict(s, r).timed_out
    BY <1>1, <1>5, <1>6, <2>1, <2>2, TheLivingAreTimedOut DEF Inv
  <2>4. QED
    BY <1>6, <2>1, <2>2, <2>3 DEF stop_overdue_owner, HasItsMarker
<1> HIDE DEF t, stopped
<1>7. scan'[s] = t /\ \A p \in Scans : p # s => scan'[p] = scan[p] \/ scan'[p].pc = "down"
  BY <1>2, DownIsAScan
<1>8. \A p \in Scans : p # s /\ p \in stopped => scan'[p].pc = "down"
  BY <1>2, DownIsAScan
<1>9. TypeOK'
  <2>1. scan' \in [Scans -> Scan]
    BY <1>1, <1>2, <1>3, DownIsAScan, ScanParts
  <2>2. QED
    BY <1>1, <2>1 DEF TypeOK
<1>10. Rows' = Rows /\ Running' = Running
  BY <1>1 DEF Rows, Running
<1>11. \A p \in Scans : AtWork(p)' => p # s /\ AtWork(p) /\ scan'[p] = scan[p]
  BY <1>3, <1>7 DEF AtWork
<1>12. OwnsItsRow'
  BY <1>1, <1>10, <1>11 DEF Inv, OwnsItsRow
<1>13. WholeRows' /\ OneClaim' /\ ReportedOnce'
  BY <1>1, <1>10 DEF Inv, WholeRows, OneClaim, ReportedOnce, Here
<1>14. FreedFromOutside'
  BY <1>1, <1>10, <1>11 DEF Inv, FreedFromOutside, Here
<1>15. HasAJob'
  BY <1>3, <1>4, <1>7 DEF Inv, HasAJob
<1>16. JudgedRight'
  <2>1. SUFFICES ASSUME NEW p \in Scans
                 PROVE  /\ scan'[p].pc \in {"sweep", "close"} => scan'[p].host \in Hosts /\ DOMAIN scan'[p].rows \subseteq Rows
                        /\ scan'[p].pc = "close" =>
                               /\ DOMAIN scan'[p].rows # {}
                               /\ sql_runs[This(p)'].host = scan'[p].host =>
                                      \A x \in Scans : ~(scan'[x].pc = "running" /\ scan'[x].run = This(p)')
    BY <1>1, <1>10 DEF JudgedRight
  <2>2. \A x \in Scans : scan'[x].pc = "running" => x # s /\ scan'[x] = scan[x]
    BY <1>3, <1>7
  <2>3. CASE p = s
    <3>1. This(p)' = r
      BY <1>3, <1>7, <2>3 DEF This
    <3>2. ASSUME NEW x \in Scans, scan'[x].pc = "running", scan'[x].run = r, sql_runs[r].host = scan[s].host
          PROVE  FALSE
      <4>1. x # s /\ x \in stopped
        BY <1>6, <2>2, <3>2
      <4>2. QED
        BY <1>8, <3>2, <4>1
    <3>3. QED
      BY <1>1, <1>3, <1>4, <1>7, <2>3, <3>1, <3>2
  <2>4. CASE p # s /\ scan'[p] = scan[p]
    <3>1. This(p)' = This(p)
      BY <2>4 DEF This
    <3>2. QED
      BY <2>2, <2>4, <3>1 DEF Inv, JudgedRight
  <2>5. CASE p # s /\ scan'[p].pc = "down"
    BY <2>5
  <2>6. QED
    BY <1>7, <2>3, <2>4, <2>5
<1>17. QED
  BY <1>9, <1>12, <1>13, <1>14, <1>15, <1>16 DEF Inv
-----------------------------------------------------------------------------
(* The end of a row. *)

\* A row ends: its identity and every other row stay, and of the scans nobody begins to work or to close.
RowEnds(r) ==
    /\ sql_runs' \in [Ids -> Row] /\ alerts' \in [Ids -> 0 .. 3] /\ scan' \in [Scans -> Scan]
    /\ sql_runs'[r].status \in {"done", "error"}
    /\ sql_runs'[r].key = sql_runs[r].key /\ sql_runs'[r].host = sql_runs[r].host /\ sql_runs'[r].pid = sql_runs[r].pid
    /\ \A q \in Ids : q # r => sql_runs'[q] = sql_runs[q] /\ alerts'[q] = alerts[q]
    /\ \A p \in Scans :
          /\ scan'[p].pc \in {"running", "deliver"} =>
                /\ AtWork(p) /\ (scan'[p].pc = "running" => scan[p].pc = "running")
                /\ scan'[p].run = scan[p].run /\ scan'[p].wrote = scan[p].wrote /\ scan'[p].host = scan[p].host
          /\ scan'[p].pc = "close" => scan'[p] = scan[p]
          /\ scan'[p].pc = "sweep" => DOMAIN scan'[p].rows \subseteq Rows
          /\ scan'[p].pc = "probed" => scan'[p].todo # {}
          /\ scan'[p].pc # "down" => scan'[p].host \in Hosts

LEMMA RowEndsPreserves ==
    ASSUME Inv, NEW r \in Rows, RowEnds(r)
    PROVE  /\ TypeOK' /\ OwnsItsRow' /\ WholeRows' /\ OneClaim' /\ JudgedRight' /\ HasAJob'
           /\ Rows' = Rows /\ Running' = Running \ {r}
<1>1. TypeOK'
  BY DEF RowEnds, TypeOK
<1>2. r \in Ids /\ \A q \in Ids : /\ sql_runs'[q].key = sql_runs[q].key /\ sql_runs'[q].host = sql_runs[q].host
                                  /\ sql_runs'[q].pid = sql_runs[q].pid
  BY RunningAreRows DEF RowEnds
<1>3. Rows' = Rows
  BY DEF Rows, RowEnds
<1>4. Running' = Running \ {r}
  BY <1>3, RunningAreRows DEF Running, RowEnds
<1>5. OwnsItsRow'
  <2>1. SUFFICES ASSUME NEW p \in Scans, scan'[p].pc \in {"running", "deliver"}
                 PROVE  /\ scan'[p].run \in Rows /\ scan'[p].run \in scan'[p].wrote
                        /\ sql_runs'[scan'[p].run].pid = p /\ sql_runs'[scan'[p].run].host = scan'[p].host
    BY <1>3 DEF OwnsItsRow, AtWork
  <2>2. AtWork(p) /\ scan'[p].run = scan[p].run /\ scan'[p].wrote = scan[p].wrote /\ scan'[p].host = scan[p].host
    BY <2>1 DEF RowEnds
  <2>3. QED
    BY <1>2, <2>2, RunningAreRows DEF Inv, OwnsItsRow
<1>6. WholeRows'
  BY <1>2, <1>3, <1>4 DEF Inv, WholeRows, RowEnds
<1>7. OneClaim'
  BY <1>2, <1>4, RunningAreRows DEF Inv, OneClaim
<1>8. JudgedRight'
  <2>1. SUFFICES ASSUME NEW p \in Scans
                 PROVE  /\ scan'[p].pc \in {"sweep", "close"} => scan'[p].host \in Hosts /\ DOMAIN scan'[p].rows \subseteq Rows
                        /\ scan'[p].pc = "close" =>
                               /\ DOMAIN scan'[p].rows # {}
                               /\ sql_runs'[This(p)'].host = scan'[p].host =>
                                      \A x \in Scans : ~(scan'[x].pc = "running" /\ scan'[x].run = This(p)')
    BY <1>3 DEF JudgedRight
  <2>2. \A x \in Scans : scan'[x].pc = "running" => scan[x].pc = "running" /\ scan'[x].run = scan[x].run
    BY DEF RowEnds
  <2>3. CASE scan'[p].pc = "close"
    <3>1. scan'[p] = scan[p] /\ This(p)' = This(p)
      BY <2>3 DEF RowEnds, This
    <3>2. scan[p].host \in Hosts /\ DOMAIN scan[p].rows \subseteq Rows /\ DOMAIN scan[p].rows # {}
      BY <2>3, <3>1 DEF Inv, JudgedRight
    <3>3. This(p) \in Ids
      BY <3>2, ThisIsRead DEF Inv
    <3>4. QED
      BY <1>2, <2>2, <2>3, <3>1, <3>2, <3>3 DEF Inv, JudgedRight
  <2>4. CASE scan'[p].pc # "close"
    BY <2>4 DEF RowEnds
  <2>5. QED
    BY <2>3, <2>4
<1>9. HasAJob'
  BY DEF HasAJob, RowEnds
<1>10. QED
  BY <1>1, <1>3, <1>4, <1>5, <1>6, <1>7, <1>8, <1>9

\* update_sql_run with an error.
LEMMA CloseDoes ==
    ASSUME TypeOK, NEW r \in Ids, NEW by \in Hosts \cup {NoHost, "operator"}, sql_runs' = Close(r, by)
    PROVE  /\ sql_runs' \in [Ids -> Row] /\ sql_runs'[r].status = "error"
           /\ sql_runs'[r].key = sql_runs[r].key /\ sql_runs'[r].host = sql_runs[r].host
           /\ sql_runs'[r].pid = sql_runs[r].pid
           /\ sql_runs'[r].freed_by = (IF by = NoHost THEN sql_runs[r].freed_by ELSE by)
           /\ \A q \in Ids : q # r => sql_runs'[q] = sql_runs[q]
<1> DEFINE t == [sql_runs[r] EXCEPT !.status = "error", !.freed_by = IF by = NoHost THEN @ ELSE by]
<1>1. sql_runs' = [sql_runs EXCEPT ![r] = t]
  BY DEF Close, TypeOK
<1>2. /\ t \in Row /\ t.status = "error" /\ t.key = sql_runs[r].key /\ t.host = sql_runs[r].host
      /\ t.pid = sql_runs[r].pid /\ t.freed_by = (IF by = NoHost THEN sql_runs[r].freed_by ELSE by)
  BY RowParts DEF Row
<1> HIDE DEF t
<1>3. QED
  BY <1>1, <1>2 DEF TypeOK

LEMMA ReportedDoes ==
    ASSUME TypeOK, NEW r \in Ids, alerts' = Reported(r)
    PROVE  /\ alerts' \in [Ids -> 0 .. 3] /\ alerts'[r] <= alerts[r] + 1
           /\ \A q \in Ids : q # r => alerts'[q] = alerts[q]
<1>1. alerts \in [Ids -> 0 .. 3] /\ alerts[r] \in 0 .. 3
  BY DEF TypeOK
<1>2. alerts' = [alerts EXCEPT ![r] = IF alerts[r] < 3 THEN alerts[r] + 1 ELSE alerts[r]]
  BY DEF Reported
<1>3. QED
  BY <1>1, <1>2

LEMMA SweepClosesPreserves ==
    ASSUME Inv, NEW s \in Scans, SweepCloses(s)
    PROVE  Inv'
<1> DEFINE r == This(s)
           f == Drop(scan[s].rows, r)
           t == [scan[s] EXCEPT !.pc = "sweep", !.rows = f]
<1>1. TypeOK /\ scan[s].pc = "close"
  BY DEF Inv, SweepCloses
<1>2. scan' = [scan EXCEPT ![s] = t]
  BY <1>1 DEF SweepCloses, TypeOK
<1>3. scan[s].host \in Hosts /\ DOMAIN scan[s].rows \subseteq Rows /\ DOMAIN scan[s].rows # {}
  BY <1>1 DEF Inv, JudgedRight
<1>4. r \in Rows /\ r \in Ids
  BY <1>1, <1>3, ThisIsRead
<1>5. f \in Readings /\ DOMAIN f \subseteq Rows
  <2>1. scan[s].rows \in Readings
    BY <1>1, ScanParts
  <2>2. QED
    BY <1>3, <2>1, DropReads
<1> HIDE DEF f
<1>6. t \in Scan /\ t.pc = "sweep" /\ t.rows = f /\ t.host = scan[s].host
  BY <1>1, <1>5, ScanParts DEF Scan
<1> HIDE DEF t
<1>7. CASE UNCHANGED <<sql_runs, alerts>>
  BY <1>2, <1>3, <1>5, <1>6, <1>7, QuietStep
<1>8. CASE r \in Running /\ sql_runs' = Close(r, scan[s].host) /\ alerts' = Reported(r)
  <2>1. scan' \in [Scans -> Scan] /\ scan'[s] = t /\ \A p \in Scans : p # s => scan'[p] = scan[p]
    BY <1>1, <1>2, <1>6, OneMoves
  <2>2. /\ sql_runs' \in [Ids -> Row] /\ sql_runs'[r].status = "error"
        /\ sql_runs'[r].key = sql_runs[r].key /\ sql_runs'[r].host = sql_runs[r].host
        /\ sql_runs'[r].pid = sql_runs[r].pid
        /\ sql_runs'[r].freed_by = scan[s].host
        /\ \A q \in Ids : q # r => sql_runs'[q] = sql_runs[q]
    BY <1>1, <1>3, <1>4, <1>8, CloseDoes, SqlConstants
  <2>3. /\ alerts' \in [Ids -> 0 .. 3] /\ alerts'[r] <= alerts[r] + 1
        /\ \A q \in Ids : q # r => alerts'[q] = alerts[q]
    BY <1>1, <1>4, <1>8, ReportedDoes
  <2>4. alerts[r] = 0 /\ alerts'[r] <= 1 /\ alerts'[r] \in Nat
    BY <1>4, <1>8, <2>3 DEF Inv, WholeRows
  <2>5. RowEnds(r)
    BY <1>3, <1>5, <1>6, <2>1, <2>2, <2>3 DEF RowEnds, AtWork, Inv, HasAJob, JudgedRight
  <2>6. /\ TypeOK' /\ OwnsItsRow' /\ WholeRows' /\ OneClaim' /\ JudgedRight' /\ HasAJob'
        /\ Rows' = Rows /\ Running' = Running \ {r}
    BY <1>4, <2>5, RowEndsPreserves
  <2> HIDE DEF r
  <2>7. FreedFromOutside'
    <3>1. SUFFICES ASSUME NEW p \in Scans, scan'[p].pc \in {"running", "deliver"}, NEW q, q = scan'[p].run
                   PROVE  /\ scan'[p].pc = "running" => q \in Running' \/ sql_runs'[q].freed_by \notin {NoHost, sql_runs'[q].host}
                          /\ scan'[p].pc = "deliver" => q \notin Running'
                          /\ sql_runs'[q].freed_by # sql_runs'[q].host
                          /\ alerts'[q] <= IF sql_runs'[q].freed_by \in {NoHost, "operator"} THEN 0 ELSE 1
      BY DEF FreedFromOutside, AtWork, Here
    <3>2. p # s /\ scan'[p] = scan[p] /\ q = scan[p].run /\ AtWork(p) /\ q \in Ids
      BY <1>6, <2>1, <3>1, RunningAreRows DEF AtWork, Inv, OwnsItsRow
    <3>3. CASE q # r
      BY <2>2, <2>3, <2>6, <3>1, <3>2, <3>3 DEF Inv, FreedFromOutside, Here
    <3>4. CASE q = r
      <4>1. scan[p].pc = "running"
        BY <1>8, <3>1, <3>2, <3>4 DEF Inv, FreedFromOutside
      <4>2. sql_runs[r].host # scan[s].host
        BY <1>1, <3>2, <3>4, <4>1 DEF Inv, JudgedRight, r
      <4>3. scan[s].host \notin {NoHost, "operator"}
        BY <1>3, SqlConstants
      <4>4. QED
        BY <2>2, <2>4, <2>6, <3>2, <3>4, <4>1, <4>2, <4>3
    <3>5. QED
      BY <3>3, <3>4
  <2>8. ReportedOnce'
    <3>1. SUFFICES ASSUME NEW q \in Ids
                   PROVE  alerts'[q] <= IF sql_runs'[q].freed_by \in {NoHost, sql_runs'[q].host} \cup {"operator"} THEN 1 ELSE 2
      BY DEF ReportedOnce, Here
    <3>2. CASE q # r
      BY <2>2, <2>3, <3>2 DEF Inv, ReportedOnce, Here
    <3>3. CASE q = r
      BY <2>4, <3>3
    <3>4. QED
      BY <3>2, <3>3
  <2>9. QED
    BY <2>6, <2>7, <2>8 DEF Inv
<1>9. QED
  BY <1>7, <1>8 DEF SweepCloses

LEMMA CloseByHandPreserves ==
    ASSUME Inv, NEW r \in Ids, CloseByHand(r)
    PROVE  Inv'
<1>1. TypeOK /\ r \in Running /\ r \in Rows /\ sql_runs' = Close(r, "operator") /\ UNCHANGED <<scan, alerts>>
  BY RunningAreRows DEF Inv, CloseByHand
<1>2. /\ sql_runs' \in [Ids -> Row] /\ sql_runs'[r].status = "error"
      /\ sql_runs'[r].key = sql_runs[r].key /\ sql_runs'[r].host = sql_runs[r].host
      /\ sql_runs'[r].pid = sql_runs[r].pid
      /\ sql_runs'[r].freed_by = "operator"
      /\ \A q \in Ids : q # r => sql_runs'[q] = sql_runs[q]
  BY <1>1, CloseDoes, SqlConstants
<1>3. alerts[r] = 0 /\ sql_runs[r].host \in Hosts
  BY <1>1 DEF Inv, WholeRows
<1>4. RowEnds(r)
  BY <1>1, <1>2 DEF RowEnds, AtWork, Inv, HasAJob, JudgedRight, TypeOK
<1>5. /\ TypeOK' /\ OwnsItsRow' /\ WholeRows' /\ OneClaim' /\ JudgedRight' /\ HasAJob'
      /\ Rows' = Rows /\ Running' = Running \ {r}
  BY <1>1, <1>4, RowEndsPreserves
<1>6. FreedFromOutside'
  <2>1. SUFFICES ASSUME NEW p \in Scans, AtWork(p), NEW q, q = scan[p].run
                 PROVE  /\ scan[p].pc = "running" => q \in Running' \/ sql_runs'[q].freed_by \notin {NoHost, sql_runs'[q].host}
                        /\ scan[p].pc = "deliver" => q \notin Running'
                        /\ sql_runs'[q].freed_by # sql_runs'[q].host
                        /\ alerts[q] <= IF sql_runs'[q].freed_by \in {NoHost, "operator"} THEN 0 ELSE 1
    BY <1>1 DEF FreedFromOutside, AtWork, Here
  <2>2. q \in Ids
    BY <2>1, RunningAreRows DEF Inv, OwnsItsRow
  <2>3. CASE q # r
    BY <1>2, <1>5, <2>1, <2>2, <2>3 DEF Inv, FreedFromOutside, Here
  <2>4. CASE q = r
    BY <1>2, <1>3, <1>5, <2>4, SqlConstants
  <2>5. QED
    BY <2>3, <2>4
<1>7. ReportedOnce'
  <2>1. SUFFICES ASSUME NEW q \in Ids
                 PROVE  alerts[q] <= IF sql_runs'[q].freed_by \in {NoHost, sql_runs'[q].host} \cup {"operator"} THEN 1 ELSE 2
    BY <1>1 DEF ReportedOnce, Here
  <2>2. CASE q # r
    BY <1>2, <2>2 DEF Inv, ReportedOnce, Here
  <2>3. CASE q = r
    BY <1>2, <1>3, <2>3
  <2>4. QED
    BY <2>2, <2>3
<1>8. QED
  BY <1>5, <1>6, <1>7 DEF Inv

\* The owner records a failure, while it works or while it delivers, and goes on.
LEMMA OwnerFails ==
    ASSUME Inv, NEW s \in Scans, AtWork(s), NEW r, r = scan[s].run,
           sql_runs' = Close(r, NoHost), alerts' = Reported(r), scan' = NextJob(s)
    PROVE  Inv'
<1>1. TypeOK /\ r \in Rows /\ r \in Ids /\ sql_runs[r].pid = s
  BY RunningAreRows DEF Inv, OwnsItsRow
<1>2. /\ sql_runs' \in [Ids -> Row] /\ sql_runs'[r].status = "error"
      /\ sql_runs'[r].key = sql_runs[r].key /\ sql_runs'[r].host = sql_runs[r].host
      /\ sql_runs'[r].pid = sql_runs[r].pid
      /\ sql_runs'[r].freed_by = sql_runs[r].freed_by
      /\ \A q \in Ids : q # r => sql_runs'[q] = sql_runs[q]
  BY <1>1, CloseDoes
<1>3. /\ alerts' \in [Ids -> 0 .. 3] /\ alerts'[r] <= alerts[r] + 1
      /\ \A q \in Ids : q # r => alerts'[q] = alerts[q]
  BY <1>1, ReportedDoes
<1>4. scan' \in [Scans -> Scan] /\ scan'[s].pc = "work" /\ scan'[s].host = scan[s].host
      /\ \A p \in Scans : p # s => scan'[p] = scan[p]
  BY <1>1, NextJobIs, OneMoves
<1>5. scan[s].host \in Hosts
  BY DEF Inv, HasAJob, AtWork
<1>6. RowEnds(r)
  BY <1>2, <1>3, <1>4, <1>5 DEF RowEnds, AtWork, Inv, HasAJob, JudgedRight
<1>7. /\ TypeOK' /\ OwnsItsRow' /\ WholeRows' /\ OneClaim' /\ JudgedRight' /\ HasAJob'
      /\ Rows' = Rows /\ Running' = Running \ {r}
  BY <1>1, <1>6, RowEndsPreserves
<1>8. FreedFromOutside'
  <2>1. SUFFICES ASSUME NEW p \in Scans, scan'[p].pc \in {"running", "deliver"}, NEW q, q = scan'[p].run
                 PROVE  /\ scan'[p].pc = "running" => q \in Running' \/ sql_runs'[q].freed_by \notin {NoHost, sql_runs'[q].host}
                        /\ scan'[p].pc = "deliver" => q \notin Running'
                        /\ sql_runs'[q].freed_by # sql_runs'[q].host
                        /\ alerts'[q] <= IF sql_runs'[q].freed_by \in {NoHost, "operator"} THEN 0 ELSE 1
    BY DEF FreedFromOutside, AtWork, Here
  <2>2. p # s /\ scan'[p] = scan[p] /\ q = scan[p].run /\ AtWork(p)
    BY <1>4, <2>1 DEF AtWork
  <2>3. q \in Ids /\ q # r
    BY <1>1, <2>2, RunningAreRows DEF Inv, OwnsItsRow
  <2>4. QED
    BY <1>2, <1>3, <1>7, <2>1, <2>2, <2>3 DEF Inv, FreedFromOutside, Here
<1>9. ReportedOnce'
  <2>1. SUFFICES ASSUME NEW q \in Ids
                 PROVE  alerts'[q] <= IF sql_runs'[q].freed_by \in {NoHost, sql_runs'[q].host} \cup {"operator"} THEN 1 ELSE 2
    BY DEF ReportedOnce, Here
  <2>2. CASE q # r
    BY <1>2, <1>3, <2>2 DEF Inv, ReportedOnce, Here
  <2>3. CASE q = r
    <3>1. /\ sql_runs[r].freed_by # sql_runs[r].host
          /\ alerts[r] <= IF sql_runs[r].freed_by \in {NoHost, "operator"} THEN 0 ELSE 1
      BY DEF Inv, FreedFromOutside
    <3>2. alerts[r] \in Nat /\ alerts'[r] \in Nat
      BY <1>1, <1>3 DEF TypeOK
    <3>3. QED
      BY <1>2, <1>3, <2>3, <3>1, <3>2
  <2>4. QED
    BY <2>2, <2>3
<1>10. QED
  BY <1>7, <1>8, <1>9 DEF Inv

LEMMA RunDonePreserves ==
    ASSUME Inv, NEW s \in Scans, RunDone(s)
    PROVE  Inv'
<1> DEFINE r == scan[s].run
           row == [sql_runs[r] EXCEPT !.status = "done"]
           t == [scan[s] EXCEPT !.pc = "deliver"]
<1>1. TypeOK /\ scan[s].pc = "running" /\ AtWork(s) /\ UNCHANGED alerts
  BY DEF Inv, RunDone, AtWork
<1>2. r \in Rows /\ r \in Ids /\ sql_runs[r].pid = s
  BY <1>1, RunningAreRows DEF Inv, OwnsItsRow
<1>3. sql_runs' = [sql_runs EXCEPT ![r] = row] /\ scan' = [scan EXCEPT ![s] = t]
  BY <1>1, <1>2 DEF RunDone, TypeOK
<1>4. /\ row \in Row /\ row.status = "done" /\ row.key = sql_runs[r].key /\ row.host = sql_runs[r].host
      /\ row.pid = sql_runs[r].pid /\ row.freed_by = sql_runs[r].freed_by
  BY <1>1, <1>2, RowParts DEF Row
<1>5. t \in Scan /\ t.pc = "deliver" /\ t.run = r /\ t.host = scan[s].host /\ t.wrote = scan[s].wrote
  BY <1>1, ScanParts DEF Scan
<1> HIDE DEF row, t
<1>6. scan' \in [Scans -> Scan] /\ scan'[s] = t /\ \A p \in Scans : p # s => scan'[p] = scan[p]
  BY <1>1, <1>3, <1>5, OneMoves
<1>7. sql_runs' \in [Ids -> Row] /\ sql_runs'[r] = row /\ \A q \in Ids : q # r => sql_runs'[q] = sql_runs[q]
  BY <1>1, <1>2, <1>3, <1>4 DEF TypeOK
<1>8. scan[s].host \in Hosts
  BY <1>1 DEF Inv, HasAJob
<1>9. RowEnds(r)
  BY <1>1, <1>4, <1>5, <1>6, <1>7, <1>8 DEF RowEnds, AtWork, Inv, HasAJob, JudgedRight, TypeOK
<1>10. /\ TypeOK' /\ OwnsItsRow' /\ WholeRows' /\ OneClaim' /\ JudgedRight' /\ HasAJob'
       /\ Rows' = Rows /\ Running' = Running \ {r}
  BY <1>2, <1>9, RowEndsPreserves
<1>11. \A q \in Ids : sql_runs'[q].freed_by = sql_runs[q].freed_by /\ sql_runs'[q].host = sql_runs[q].host
  BY <1>4, <1>7
<1>12. FreedFromOutside'
  <2>1. SUFFICES ASSUME NEW p \in Scans, scan'[p].pc \in {"running", "deliver"}, NEW q, q = scan'[p].run
                 PROVE  /\ scan'[p].pc = "running" => q \in Running' \/ sql_runs'[q].freed_by \notin {NoHost, sql_runs'[q].host}
                        /\ scan'[p].pc = "deliver" => q \notin Running'
                        /\ sql_runs'[q].freed_by # sql_runs'[q].host
                        /\ alerts[q] <= IF sql_runs'[q].freed_by \in {NoHost, "operator"} THEN 0 ELSE 1
    BY <1>1 DEF FreedFromOutside, AtWork, Here
  <2>2. CASE p = s
    <3>1. q = r /\ scan'[p].pc = "deliver"
      BY <1>5, <1>6, <2>1, <2>2
    <3>2. QED
      BY <1>1, <1>2, <1>10, <1>11, <3>1 DEF Inv, FreedFromOutside
  <2>3. CASE p # s
    <3>1. scan'[p] = scan[p] /\ q = scan[p].run /\ AtWork(p)
      BY <1>6, <2>1, <2>3 DEF AtWork
    <3>2. q \in Ids /\ q # r
      BY <1>2, <2>3, <3>1, RunningAreRows DEF Inv, OwnsItsRow
    <3>3. QED
      BY <1>10, <1>11, <2>1, <3>1, <3>2 DEF Inv, FreedFromOutside, Here
  <2>4. QED
    BY <2>2, <2>3
<1>13. ReportedOnce'
  BY <1>1, <1>11 DEF Inv, ReportedOnce, Here
<1>14. QED
  BY <1>10, <1>12, <1>13 DEF Inv
-----------------------------------------------------------------------------
(* A row begins, and time passes. *)

LEMMA ClaimPreserves ==
    ASSUME Inv, NEW s \in Scans, Claim(s)
    PROVE  Inv'
<1>1. TypeOK /\ scan[s].pc = "probed" /\ ~claim_held(Job(s), scan[s].host) /\ UNCHANGED alerts
  BY DEF Inv, Claim
<1>2. PICK r \in Ids :
          /\ r \notin Rows
          /\ sql_runs' = [sql_runs EXCEPT ![r] = [key |-> Job(s), host |-> scan[s].host, pid |-> s,
                              status |-> "running", age |-> scan[s].start, freed_by |-> NoHost]]
          /\ scan' = [scan EXCEPT ![s].pc = "running", ![s].run = r, ![s].wrote = @ \cup {r}, ![s].start = 0]
  BY DEF Claim, IsNext
<1> DEFINE row == [key |-> Job(s), host |-> scan[s].host, pid |-> s,
                   status |-> "running", age |-> scan[s].start, freed_by |-> NoHost]
           t == [scan[s] EXCEPT !.pc = "running", !.run = r, !.wrote = @ \cup {r}, !.start = 0]
<1>3. scan[s].host \in Hosts /\ scan[s].host # NoHost /\ Job(s) \in Targets
  BY <1>1, JobIsATarget, SqlConstants DEF Inv, HasAJob
<1>4. /\ row \in Row /\ row.status = "running" /\ row.key = Job(s) /\ row.host = scan[s].host
      /\ row.pid = s /\ row.freed_by = NoHost
  BY <1>1, <1>3, ScanParts DEF Row
<1>5. /\ t \in Scan /\ t.pc = "running" /\ t.run = r /\ t.host = scan[s].host /\ r \in t.wrote
  BY <1>1, <1>2, ScanParts, Numbers DEF Scan
<1>6. sql_runs' = [sql_runs EXCEPT ![r] = row] /\ scan' = [scan EXCEPT ![s] = t]
  BY <1>1, <1>2 DEF TypeOK
<1> HIDE DEF row, t
<1>7. scan' \in [Scans -> Scan] /\ scan'[s] = t /\ \A p \in Scans : p # s => scan'[p] = scan[p]
  BY <1>1, <1>5, <1>6, OneMoves
<1>8. sql_runs' \in [Ids -> Row] /\ sql_runs'[r] = row /\ \A q \in Ids : q # r => sql_runs'[q] = sql_runs[q]
  BY <1>1, <1>4, <1>6 DEF TypeOK
<1>9. TypeOK'
  BY <1>1, <1>7, <1>8 DEF TypeOK
<1>10. Rows' = Rows \cup {r} /\ Running' = Running \cup {r}
  BY <1>4, <1>8 DEF Rows, Running
<1>11. \A p \in Scans : AtWork(p) => scan[p].run \in Rows /\ scan[p].run # r
  BY <1>2 DEF Inv, OwnsItsRow
<1>12. \A q \in Rows : q \in Ids /\ q # r /\ sql_runs'[q] = sql_runs[q]
  BY <1>2, <1>8, RunningAreRows
<1>13. alerts[r] = 0
  BY <1>2 DEF Inv, WholeRows
<1>14. OwnsItsRow'
  <2>1. SUFFICES ASSUME NEW p \in Scans, scan'[p].pc \in {"running", "deliver"}
                 PROVE  /\ scan'[p].run \in Rows' /\ scan'[p].run \in scan'[p].wrote
                        /\ sql_runs'[scan'[p].run].pid = p /\ sql_runs'[scan'[p].run].host = scan'[p].host
    BY DEF OwnsItsRow, AtWork
  <2>2. CASE p = s
    BY <1>4, <1>5, <1>7, <1>8, <1>10, <2>2
  <2>3. CASE p # s
    <3>1. scan'[p] = scan[p] /\ AtWork(p)
      BY <1>7, <2>1, <2>3 DEF AtWork
    <3>2. QED
      BY <1>10, <1>11, <1>12, <3>1 DEF Inv, OwnsItsRow
  <2>4. QED
    BY <2>2, <2>3
<1>15. WholeRows'
  <2>1. SUFFICES ASSUME NEW q \in Ids
                 PROVE  /\ q \in Rows' => sql_runs'[q].pid \in Scans /\ sql_runs'[q].host \in Hosts
                        /\ q \notin Rows' \/ q \in Running' => sql_runs'[q].freed_by = NoHost /\ alerts[q] = 0
    BY <1>1 DEF WholeRows
  <2>2. CASE q = r
    BY <1>3, <1>4, <1>8, <1>13, <2>2
  <2>3. CASE q # r
    BY <1>8, <1>10, <2>3 DEF Inv, WholeRows
  <2>4. QED
    BY <2>2, <2>3
<1>16. OneClaim'
  <2>1. SUFFICES ASSUME NEW q \in Running', NEW x \in Running',
                        sql_runs'[q].key = sql_runs'[x].key, sql_runs'[q].host = sql_runs'[x].host
                 PROVE  q = x
    BY DEF OneClaim
  <2>2. \A y \in Running : ~(sql_runs[y].key = Job(s) /\ sql_runs[y].host = scan[s].host)
    BY <1>1 DEF claim_held
  <2>3. \A y \in Running : sql_runs'[y] = sql_runs[y] /\ y # r
    BY <1>12, RunningAreRows
  <2>4. CASE q = r \/ x = r
    BY <1>4, <1>8, <1>10, <2>1, <2>2, <2>3, <2>4
  <2>5. CASE q # r /\ x # r
    BY <1>10, <2>1, <2>3, <2>5 DEF Inv, OneClaim
  <2>6. QED
    BY <2>4, <2>5
<1>17. JudgedRight'
  <2>1. SUFFICES ASSUME NEW p \in Scans, scan'[p].pc \in {"sweep", "close"}
                 PROVE  /\ scan'[p].host \in Hosts /\ DOMAIN scan'[p].rows \subseteq Rows'
                        /\ scan'[p].pc = "close" =>
                               /\ DOMAIN scan'[p].rows # {}
                               /\ sql_runs'[This(p)'].host = scan'[p].host =>
                                      \A x \in Scans : ~(scan'[x].pc = "running" /\ scan'[x].run = This(p)')
    BY DEF JudgedRight
  <2>2. p # s /\ scan'[p] = scan[p] /\ This(p)' = This(p)
    BY <1>5, <1>7, <2>1 DEF This
  <2>3. scan[p].host \in Hosts /\ DOMAIN scan[p].rows \subseteq Rows
    BY <2>1, <2>2 DEF Inv, JudgedRight
  <2>4. CASE scan[p].pc = "close"
    <3>1. DOMAIN scan[p].rows # {}
      BY <2>4 DEF Inv, JudgedRight
    <3>2. This(p) \in Rows
      BY <1>1, <2>3, <3>1, ThisIsRead
    <3>3. This(p) # r /\ sql_runs'[This(p)] = sql_runs[This(p)]
      BY <1>12, <3>2
    <3>4. ASSUME NEW x \in Scans, scan'[x].pc = "running", scan'[x].run = This(p), sql_runs[This(p)].host = scan[p].host
          PROVE  FALSE
      <4>1. x # s
        BY <1>5, <1>7, <3>3, <3>4
      <4>2. scan'[x] = scan[x]
        BY <1>7, <4>1
      <4>3. QED
        BY <2>4, <3>4, <4>2 DEF Inv, JudgedRight
    <3>5. QED
      BY <1>10, <2>2, <2>3, <3>1, <3>3, <3>4
  <2>5. QED
    BY <1>10, <2>2, <2>3, <2>4
<1>18. FreedFromOutside'
  <2>1. SUFFICES ASSUME NEW p \in Scans, scan'[p].pc \in {"running", "deliver"}, NEW q, q = scan'[p].run
                 PROVE  /\ scan'[p].pc = "running" => q \in Running' \/ sql_runs'[q].freed_by \notin {NoHost, sql_runs'[q].host}
                        /\ scan'[p].pc = "deliver" => q \notin Running'
                        /\ sql_runs'[q].freed_by # sql_runs'[q].host
                        /\ alerts[q] <= IF sql_runs'[q].freed_by \in {NoHost, "operator"} THEN 0 ELSE 1
    BY <1>1 DEF FreedFromOutside, AtWork, Here
  <2>2. CASE p = s
    BY <1>3, <1>4, <1>5, <1>7, <1>8, <1>10, <1>13, <2>1, <2>2
  <2>3. CASE p # s
    <3>1. scan'[p] = scan[p] /\ q = scan[p].run /\ AtWork(p)
      BY <1>7, <2>1, <2>3 DEF AtWork
    <3>2. q # r /\ sql_runs'[q] = sql_runs[q]
      BY <1>11, <1>12, <3>1
    <3>3. QED
      BY <1>10, <2>1, <3>1, <3>2 DEF Inv, FreedFromOutside, Here
  <2>4. QED
    BY <2>2, <2>3
<1>19. HasAJob'
  BY <1>3, <1>5, <1>7 DEF Inv, HasAJob
<1>20. ReportedOnce'
  <2>1. SUFFICES ASSUME NEW q \in Ids
                 PROVE  alerts[q] <= IF sql_runs'[q].freed_by \in {NoHost, sql_runs'[q].host} \cup {"operator"} THEN 1 ELSE 2
    BY <1>1 DEF ReportedOnce, Here
  <2>2. CASE q # r
    BY <1>8, <2>2 DEF Inv, ReportedOnce, Here
  <2>3. CASE q = r
    BY <1>13, <2>3
  <2>4. QED
    BY <2>2, <2>3
<1>21. QED
  BY <1>9, <1>14, <1>15, <1>16, <1>17, <1>18, <1>19, <1>20 DEF Inv

LEMMA OlderIsAnAge ==
    ASSUME NEW a \in Ages
    PROVE  Older(a) \in Ages
  BY SqlConstants DEF Older, Ages

LEMMA TickPreserves ==
    ASSUME Inv, Tick
    PROVE  Inv'
<1>1. TypeOK /\ UNCHANGED alerts
  BY DEF Inv, Tick
<1>2. \A q \in Ids : /\ sql_runs'[q] \in Row
                     /\ sql_runs'[q].key = sql_runs[q].key /\ sql_runs'[q].host = sql_runs[q].host
                     /\ sql_runs'[q].pid = sql_runs[q].pid /\ sql_runs'[q].status = sql_runs[q].status
                     /\ sql_runs'[q].freed_by = sql_runs[q].freed_by
  <2>1. SUFFICES ASSUME NEW q \in Ids
                 PROVE  /\ sql_runs'[q] \in Row
                        /\ sql_runs'[q].key = sql_runs[q].key /\ sql_runs'[q].host = sql_runs[q].host
                        /\ sql_runs'[q].pid = sql_runs[q].pid /\ sql_runs'[q].status = sql_runs[q].status
                        /\ sql_runs'[q].freed_by = sql_runs[q].freed_by
    OBVIOUS
  <2>2. sql_runs'[q] = IF q \in Rows THEN [sql_runs[q] EXCEPT !.age = Older(sql_runs[q].age)] ELSE sql_runs[q]
    BY DEF Tick
  <2>3. Older(sql_runs[q].age) \in Ages
    BY <1>1, RowParts, OlderIsAnAge
  <2>4. QED
    BY <1>1, <2>2, <2>3, RowParts DEF Row
<1>3. \A p \in Scans : /\ scan'[p] \in Scan /\ scan'[p].pc = scan[p].pc /\ scan'[p].host = scan[p].host
                       /\ scan'[p].rows = scan[p].rows /\ scan'[p].todo = scan[p].todo
                       /\ scan'[p].run = scan[p].run /\ scan'[p].wrote = scan[p].wrote
  <2>1. SUFFICES ASSUME NEW p \in Scans
                 PROVE  /\ scan'[p] \in Scan /\ scan'[p].pc = scan[p].pc /\ scan'[p].host = scan[p].host
                        /\ scan'[p].rows = scan[p].rows /\ scan'[p].todo = scan[p].todo
                        /\ scan'[p].run = scan[p].run /\ scan'[p].wrote = scan[p].wrote
    OBVIOUS
  <2> DEFINE listed == IF scan[p].pc \in Listed /\ ~scan[p].hand THEN Older(scan[p].listed) ELSE scan[p].listed
             start == IF scan[p].pc = "probed" THEN Older(scan[p].start) ELSE scan[p].start
  <2>2. scan'[p] = [scan[p] EXCEPT !.listed = listed, !.start = start]
    BY DEF Tick
  <2>3. listed \in Ages /\ start \in Ages
    BY <1>1, ScanParts, OlderIsAnAge
  <2> HIDE DEF listed, start
  <2>4. QED
    BY <1>1, <2>2, <2>3, ScanParts DEF Scan
<1>4. TypeOK'
  <2>1. sql_runs' = [r \in Ids |-> sql_runs'[r]] /\ scan' = [s \in Scans |-> scan'[s]]
    BY DEF Tick
  <2>2. sql_runs' \in [Ids -> Row] /\ scan' \in [Scans -> Scan]
    BY <1>2, <1>3, <2>1
  <2>3. QED
    BY <1>1, <2>2 DEF TypeOK
<1>5. Rows' = Rows
  BY <1>2 DEF Rows
<1>6. Running' = Running
  BY <1>2, <1>5, RunningAreRows DEF Running
<1>7. \A p \in Scans : (AtWork(p)' <=> AtWork(p)) /\ This(p)' = This(p)
  BY <1>3 DEF AtWork, This
<1>8. OwnsItsRow'
  BY <1>2, <1>3, <1>5, <1>7, RunningAreRows DEF Inv, OwnsItsRow
<1>9. WholeRows'
  BY <1>1, <1>2, <1>5, <1>6 DEF Inv, WholeRows
<1>10. OneClaim'
  BY <1>2, <1>6, RunningAreRows DEF Inv, OneClaim
<1>11. JudgedRight'
  <2>1. \A p \in Scans : scan[p].pc = "close" => This(p) \in Ids
    BY <1>1, ThisIsRead DEF Inv, JudgedRight
  <2>2. QED
    BY <1>2, <1>3, <1>5, <1>7, <2>1 DEF Inv, JudgedRight
<1>12. FreedFromOutside'
  <2>1. SUFFICES ASSUME NEW p \in Scans, AtWork(p), NEW q, q = scan[p].run
                 PROVE  /\ scan[p].pc = "running" => q \in Running \/ sql_runs'[q].freed_by \notin {NoHost, sql_runs'[q].host}
                        /\ scan[p].pc = "deliver" => q \notin Running
                        /\ sql_runs'[q].freed_by # sql_runs'[q].host
                        /\ alerts[q] <= IF sql_runs'[q].freed_by \in {NoHost, "operator"} THEN 0 ELSE 1
    BY <1>1, <1>3, <1>6, <1>7 DEF FreedFromOutside, Here
  <2>2. q \in Ids
    BY <2>1, RunningAreRows DEF Inv, OwnsItsRow
  <2>3. QED
    BY <1>2, <2>1, <2>2 DEF Inv, FreedFromOutside, Here
<1>13. HasAJob'
  BY <1>3 DEF Inv, HasAJob
<1>14. ReportedOnce'
  BY <1>1, <1>2 DEF Inv, ReportedOnce, Here
<1>15. QED
  BY <1>4, <1>8, <1>9, <1>10, <1>11, <1>12, <1>13, <1>14 DEF Inv
-----------------------------------------------------------------------------
(* The theorems. *)

LEMMA InvInitially == Init => Inv
<1> SUFFICES ASSUME Init PROVE Inv
  OBVIOUS
<1>1. \A r \in Ids : sql_runs[r] = NoRow /\ alerts[r] = 0
  BY DEF Init
<1>2. \A s \in Scans : scan[s] = Down /\ scan[s].pc = "down"
  BY DownIsAScan DEF Init
<1>3. NoRow \in Row /\ NoRow.status = "none" /\ NoRow.freed_by = NoHost
  BY Numbers DEF NoRow, Row
<1>4. Rows = {} /\ Running = {}
  BY <1>1, <1>3 DEF Rows, Running
<1>5. TypeOK
  BY <1>3, DownIsAScan DEF Init, TypeOK
<1>6. OwnsItsRow /\ JudgedRight /\ FreedFromOutside /\ HasAJob
  BY <1>2 DEF OwnsItsRow, JudgedRight, FreedFromOutside, HasAJob, AtWork
<1>7. WholeRows /\ OneClaim /\ ReportedOnce
  BY <1>1, <1>3, <1>4 DEF WholeRows, OneClaim, ReportedOnce, Here
<1>8. QED
  BY <1>5, <1>6, <1>7 DEF Inv

LEMMA InvStep ==
    ASSUME Inv, ~StopMayFail, [Next]_vars
    PROVE  Inv'
<1>1. ASSUME NEW s \in Scans, Works(s) PROVE Inv'
  <2>1. CASE SweepKeeps(s)
    BY <2>1, SweepKeepsPreserves
  <2>2. CASE SweepJudges(s)
    BY <2>2, SweepJudgesPreserves
  <2>3. CASE SweepCloses(s)
    BY <2>3, SweepClosesPreserves
  <2>4. CASE GoOn(s)
    BY <2>4, GoOnPreserves
  <2>5. CASE List(s)
    BY <2>5, ListPreserves
  <2>6. CASE ReadLatest(s)
    BY <2>6, ReadLatestPreserves
  <2>7. CASE TakenByAnother(s)
    BY <2>7, NextJobPreserves DEF TakenByAnother
  <2>8. CASE Probe(s)
    BY <2>8, ProbePreserves
  <2>9. CASE Claim(s)
    BY <2>9, ClaimPreserves
  <2>10. CASE Refused(s)
    BY <2>10, NextJobPreserves, DownPreserves DEF Refused
  <2>11. CASE RunDone(s)
    BY <2>11, RunDonePreserves
  <2>12. CASE RunFails(s)
    BY <2>12, OwnerFails DEF RunFails, AtWork
  <2>13. CASE NotRecorded(s)
    BY <2>13, NextJobPreserves DEF NotRecorded
  <2>14. CASE Delivers(s)
    BY <2>14, NextJobPreserves DEF Delivers
  <2>15. CASE DeliveryFails(s)
    BY <2>15, OwnerFails DEF DeliveryFails, AtWork
  <2>16. CASE ScanEnds(s)
    BY <2>16, DownPreserves DEF ScanEnds
  <2>17. QED
    BY <1>1, <2>1, <2>2, <2>3, <2>4, <2>5, <2>6, <2>7, <2>8, <2>9, <2>10, <2>11, <2>12, <2>13, <2>14, <2>15, <2>16 DEF Works
<1>2. ASSUME NEW s \in Scans, Dies(s) PROVE Inv'
  BY <1>2, DownPreserves DEF Dies
<1>3. ASSUME NEW s \in Scans, NEW h \in Hosts, StartScan(s, h) PROVE Inv'
  BY <1>3, StartScanPreserves
<1>4. ASSUME NEW s \in Scans, NEW h \in Hosts, NEW t \in Targets, RunByHand(s, h, t) PROVE Inv'
  BY <1>4, RunByHandPreserves
<1>5. ASSUME NEW r \in Ids, CloseByHand(r) PROVE Inv'
  BY <1>5, CloseByHandPreserves
<1>6. CASE Tick
  BY <1>6, TickPreserves
<1>7. CASE UNCHANGED vars
  BY <1>7 DEF vars, Inv, TypeOK, OwnsItsRow, WholeRows, OneClaim, JudgedRight, FreedFromOutside, HasAJob, ReportedOnce,
       AtWork, Rows, Running, This, Here
<1>8. QED
  BY <1>1, <1>2, <1>3, <1>4, <1>5, <1>6, <1>7 DEF Next

LEMMA InvHolds == ASSUME ~StopMayFail PROVE Spec => []Inv
  BY InvInitially, InvStep, PTL DEF Spec

\* Two scans of a host work on one task at the same time only after the claim of one of them was taken
\* by an operator or by another host, for processes that can be stopped (stop_overdue_owner).
THEOREM TasksRunOneAtATime == ASSUME ~StopMayFail PROVE Spec => []OneAtATime
<1>1. ASSUME Inv PROVE OneAtATime
  <2>1. SUFFICES ASSUME NEW s \in Scans, NEW p \in Scans, NEW r, NEW q, r = scan[s].run, q = scan[p].run,
                        s # p, scan[s].pc = "running", scan[p].pc = "running",
                        scan[s].host = scan[p].host, sql_runs[r].key = sql_runs[q].key
                 PROVE  sql_runs[r].freed_by \notin Here(r) \/ sql_runs[q].freed_by \notin Here(q)
    BY DEF OneAtATime
  <2>2. /\ sql_runs[r].pid = s /\ sql_runs[r].host = scan[s].host
        /\ sql_runs[q].pid = p /\ sql_runs[q].host = scan[p].host
    BY <1>1, <2>1 DEF Inv, OwnsItsRow, AtWork
  <2>3. ~(r \in Running /\ q \in Running)
    BY <1>1, <2>1, <2>2 DEF Inv, OneClaim
  <2>4. QED
    BY <1>1, <2>1, <2>3 DEF Inv, FreedFromOutside, AtWork
<1>2. QED
  BY <1>1, InvHolds, PTL

\* Of all the scans that read a dead run one reports it, and not beside its owner unless another host
\* took the claim (mark_stale_running_sql_runs).
THEOREM FailuresAreReportedOnce == ASSUME ~StopMayFail PROVE Spec => []ReportedOnce
<1>1. Inv => ReportedOnce
  BY DEF Inv
<1>2. QED
  BY <1>1, InvHolds, PTL

\* A run that has ended keeps its ending: nobody but its owner changes it, at the delivery, or where the
\* row was freed from outside (close_orphaned_run).
THEOREM ResultsAreFinal == ASSUME ~StopMayFail PROVE Spec => ResultIsFinal
<1> DEFINE Final == \A r \in Rows :
                      /\ sql_runs[r].status # "running"
                      /\ sql_runs'[r].status # sql_runs[r].status
                      => \/ sql_runs[r].freed_by \notin Here(r)
                         \/ \E s \in Scans : scan[s].pc = "deliver" /\ scan[s].run = r
<1>1. ASSUME Inv, [Next]_vars PROVE [Final]_vars
  <2>1. SUFFICES ASSUME NEW r \in Rows, sql_runs[r].status # "running", sql_runs'[r].status # sql_runs[r].status
                 PROVE  \/ sql_runs[r].freed_by \notin Here(r)
                        \/ \E s \in Scans : scan[s].pc = "deliver" /\ scan[s].run = r
    OBVIOUS
  <2>2. r \in Ids /\ r \notin Running /\ TypeOK
    BY <1>1, <2>1, RunningAreRows DEF Running, Inv
  <2>3. ASSUME NEW q \in Ids, NEW by \in Hosts \cup {NoHost, "operator"}, sql_runs' = Close(q, by) PROVE q = r
    BY <2>1, <2>2, <2>3, CloseDoes
  <2>4. ASSUME NEW s \in Scans, AtWork(s), scan[s].run = r
        PROVE  sql_runs[r].freed_by \notin Here(r) \/ scan[s].pc = "deliver"
    BY <1>1, <2>2, <2>4 DEF Inv, FreedFromOutside, AtWork
  <2>5. ASSUME NEW s \in Scans, AtWork(s), scan[s].run # r PROVE ~RunDone(s) /\ ~RunFails(s) /\ ~DeliveryFails(s)
    <3>1. scan[s].run \in Ids
      BY <1>1, <2>5, RunningAreRows DEF Inv, OwnsItsRow
    <3>2. ~RunDone(s)
      BY <2>1, <2>2, <2>5, <3>1 DEF RunDone, TypeOK
    <3>3. ~RunFails(s) /\ ~DeliveryFails(s)
      BY <2>3, <2>5, <3>1 DEF RunFails, DeliveryFails
    <3>4. QED
      BY <3>2, <3>3
  <2>6. ASSUME NEW s \in Scans PROVE ~SweepCloses(s)
    <3>1. SUFFICES ASSUME SweepCloses(s) PROVE FALSE
      OBVIOUS
    <3>2. scan[s].pc = "close" /\ This(s) \in Running /\ sql_runs' = Close(This(s), scan[s].host)
      BY <2>1, <3>1 DEF SweepCloses
    <3>3. scan[s].host \in Hosts /\ This(s) \in Ids
      BY <3>2, <1>1, RunningAreRows DEF Inv, JudgedRight
    <3>4. QED
      BY <2>2, <2>3, <3>2, <3>3
  <2>7. ASSUME NEW q \in Ids PROVE ~CloseByHand(q)
    BY <2>2, <2>3 DEF CloseByHand
  <2>8. ASSUME NEW s \in Scans PROVE ~Claim(s)
    BY <2>1, <2>2 DEF Claim, IsNext, TypeOK
  <2>9. ~Tick
    <3>1. SUFFICES ASSUME Tick PROVE FALSE
      OBVIOUS
    <3>2. sql_runs'[r] = [sql_runs[r] EXCEPT !.age = Older(sql_runs[r].age)]
      BY <2>2, <3>1 DEF Tick
    <3>3. QED
      BY <2>1, <2>2, <3>2, RowParts DEF Row
  <2>10. sql_runs' # sql_runs
    BY <2>1
  <2>11. PICK s \in Scans : RunDone(s) \/ RunFails(s) \/ DeliveryFails(s)
    BY <1>1, <2>6, <2>7, <2>8, <2>9, <2>10 DEF Next, Works, Dies, StartScan, RunByHand, SweepKeeps, SweepJudges, GoOn, List,
         ReadLatest, TakenByAnother, Probe, Refused, NotRecorded, Delivers, ScanEnds, vars
  <2>12. AtWork(s)
    BY <2>11 DEF RunDone, RunFails, DeliveryFails, AtWork
  <2>13. QED
    BY <2>4, <2>5, <2>11, <2>12
<1>2. QED
  BY <1>1, InvHolds, PTL DEF Spec, ResultIsFinal
=============================================================================
