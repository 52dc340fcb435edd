------------------------ MODULE TelegramQueueProofs -------------------------
(***************************************************************************)
(* Proofs about the queue of outgoing messages, for any messages, chats,   *)
(* passes and hand-run senders.                                            *)
(***************************************************************************)
EXTENDS TelegramQueue, FiniteSetTheorems, TLAPS

\* A thread with a row in hand works for its chat, in a process that is up.
ThreadsMakeSense ==
    \A s \in Senders, c \in Chats :
        /\ thread[s][c].stage # "idle" => /\ thread[s][c].row \in Messages
                                          /\ Chat[thread[s][c].row] = c
                                          /\ pass[s].phase = "sending"
        /\ \A m \in thread[s][c].todo : Chat[m] = c

\* A row a pass holds has been in flight no longer than the pass has been up.
HoldersAreYoung ==
    \A p \in Passes, m \in Messages :
        Holds(p, m) /\ rows[m].status = "flight" => rows[m].age <= pass[p].age

\* What a row or a thread knows of as delivered has reached the chat.
NothingIsImagined ==
    /\ \A m \in Messages : rows[m].known \subseteq shown[m]
    /\ \A s \in Senders, c \in Chats :
           thread[s][c].stage # "idle" =>
               /\ thread[s][c].known \subseteq shown[thread[s][c].row]
               /\ thread[s][c].gone \subseteq shown[thread[s][c].row]
    /\ \A s \in Senders, c \in Chats :
           thread[s][c].stage = "record" => Pieces(thread[s][c].row) \subseteq shown[thread[s][c].row]

QueueInv == TypeOK /\ ThreadsMakeSense /\ HoldersAreYoung /\ NothingIsImagined /\ SentIsWhole

LEMMA InitQueueInv == Init => QueueInv
  <1> SUFFICES ASSUME Init PROVE QueueInv
    OBVIOUS
  <1> USE QueueConstants
  <1>1. stale_in_flight_seconds \in Nat /\ 0 \in 0..MaxAge
    BY DEF stale_in_flight_seconds, MaxAge
  <1>2. TypeOK
    BY <1>1 DEF TypeOK, Init, Statuses, Stages, Off, Idle, Waiting, At, Pieces
  <1>3. ThreadsMakeSense /\ HoldersAreYoung /\ NothingIsImagined /\ SentIsWhole
    BY DEF Init, ThreadsMakeSense, HoldersAreYoung, NothingIsImagined, SentIsWhole, Off, Idle, Waiting, At, Holds, Chats
  <1> QED
    BY <1>2, <1>3 DEF QueueInv
-----------------------------------------------------------------------------
\* The types of a row and of a thread.
ARow == [status : Statuses, age : 0..MaxAge, known : SUBSET Nat]
AThread == [stage : Stages, todo : SUBSET Messages, row : Messages \cup {None},
            known : SUBSET Nat, gone : SUBSET Nat, tries : 0..(RetryCount - 1)]

LEMMA WindowType == MaxAge \in Nat /\ stale_in_flight_seconds \in Nat /\ stale_in_flight_seconds > Timeout
  BY QueueConstants DEF MaxAge, stale_in_flight_seconds

LEMMA WaitingIsAThread ==
    ASSUME NEW todo \in SUBSET Messages
    PROVE  Waiting(todo) \in AThread
  BY QueueConstants DEF Waiting, At, AThread, Stages

\* One thread moves, and no other.
LEMMA ThreadMoves ==
    ASSUME TypeOK, NEW s \in Senders, NEW c \in Chats, NEW t \in AThread, SetThread(s, c, t)
    PROVE  /\ thread' \in [Senders -> [Chats -> AThread]]
           /\ thread'[s][c] = t
           /\ \A q \in Senders, d \in Chats : q # s \/ d # c => thread'[q][d] = thread[q][d]
  BY DEF TypeOK, SetThread, AThread

(***************************************************************************)
(* All steps of a thread have one shape: the thread moves, its row may be  *)
(* rewritten, and a piece of it may be shown.  The conditions below are    *)
(* what each of them has to meet.                                          *)
(***************************************************************************)
LEMMA ThreadStepPreserves ==
    ASSUME QueueInv, NEW s \in Senders, NEW c \in Chats, NEW m \in Messages, NEW t \in AThread,
           NEW r \in ARow, NEW new \in SUBSET Pieces(m),
           Chat[m] = c,
           pass[s].phase = "sending",
           SetThread(s, c, t),
           rows' = [rows EXCEPT ![m] = r],
           shown' = [shown EXCEPT ![m] = @ \cup new],
           repeated' \in SUBSET Messages, excused' \in SUBSET Messages,
           UNCHANGED paused,
           pass' \in {pass, [pass EXCEPT ![s].limited = @ \cup {c}]},
           t.todo \subseteq thread[s][c].todo,
           t.stage # "idle" => /\ t.row = m
                               /\ t.known \subseteq shown'[m] /\ t.gone \subseteq shown'[m],
           t.stage = "record" => Pieces(m) \subseteq shown'[m],
           t.stage \in {"send", "record", "reset", "fail"} =>
               r.age = 0 \/ (Holds(s, m) /\ r.age = rows[m].age /\ r.status = rows[m].status),
           r.status = "flight" => r.age = 0 \/ (r.age = rows[m].age /\ rows[m].status = "flight"),
           r.known \subseteq shown'[m],
           r.status = "sent" => Pieces(m) \subseteq shown'[m]
    PROVE  QueueInv'
  <1> USE DEF QueueInv
  <1>1. /\ thread' \in [Senders -> [Chats -> AThread]]
        /\ thread'[s][c] = t
        /\ \A q \in Senders, d \in Chats : q # s \/ d # c => thread'[q][d] = thread[q][d]
    BY ThreadMoves
  <1>2. /\ rows' \in [Messages -> ARow] /\ rows'[m] = r
        /\ \A n \in Messages : n # m => rows'[n] = rows[n]
    BY DEF TypeOK, ARow
  <1>3. /\ shown' \in [Messages -> SUBSET Nat]
        /\ \A n \in Messages : shown[n] \subseteq shown'[n] /\ shown'[n] \subseteq Pieces(n)
    BY QueueConstants DEF TypeOK, Pieces
  <1>4. /\ pass' \in [Senders -> [phase : {"off", "started", "sending"}, age : 0..Timeout,
                                  limited : SUBSET Chats, alone : BOOLEAN]]
        /\ \A q \in Senders : pass'[q].phase = pass[q].phase /\ pass'[q].age = pass[q].age
    <2>1. CASE pass' = pass
      BY <2>1 DEF TypeOK
    <2>2. CASE pass' = [pass EXCEPT ![s].limited = @ \cup {c}]
      <3>1. \A q \in Senders : /\ pass'[q] = IF q = s THEN [pass[s] EXCEPT !.limited = @ \cup {c}] ELSE pass[q]
                               /\ pass[q] \in [phase : {"off", "started", "sending"}, age : 0..Timeout,
                                              limited : SUBSET Chats, alone : BOOLEAN]
        BY <2>2 DEF TypeOK
      <3>2. [pass[s] EXCEPT !.limited = @ \cup {c}] \in [phase : {"off", "started", "sending"}, age : 0..Timeout,
                                                         limited : SUBSET Chats, alone : BOOLEAN]
        BY <3>1
      <3> QED
        BY <2>2, <3>1, <3>2 DEF TypeOK
    <2> QED
      BY <2>1, <2>2
  <1>5. TypeOK'
    BY <1>1, <1>2, <1>3, <1>4 DEF TypeOK, ARow, AThread, MaxAge, stale_in_flight_seconds
  <1>6. ThreadsMakeSense'
    <2> SUFFICES ASSUME NEW q \in Senders, NEW d \in Chats
                 PROVE  /\ thread'[q][d].stage # "idle" => /\ thread'[q][d].row \in Messages
                                                          /\ Chat[thread'[q][d].row] = d
                                                          /\ pass'[q].phase = "sending"
                        /\ \A n \in thread'[q][d].todo : Chat[n] = d
      BY DEF ThreadsMakeSense
    <2>1. CASE q = s /\ d = c
      BY <1>1, <1>4, <2>1 DEF ThreadsMakeSense
    <2>2. CASE ~(q = s /\ d = c)
      <3>1. thread'[q][d] = thread[q][d] /\ pass'[q].phase = pass[q].phase
        BY <1>1, <1>4, <2>2
      <3> QED
        BY <3>1 DEF ThreadsMakeSense
    <2> QED
      BY <2>1, <2>2
  <1>7. HoldersAreYoung'
    <2> SUFFICES ASSUME NEW p \in Passes, NEW n \in Messages, Holds(p, n)', rows'[n].status = "flight"
                 PROVE  rows'[n].age <= pass'[p].age
      BY DEF HoldersAreYoung
    <2>1. p \in Senders /\ Chat[n] \in Chats
      BY DEF Senders, Chats
    <2>2. pass[p].age \in Nat /\ pass'[p].age = pass[p].age
      BY <1>4, <2>1, QueueConstants DEF TypeOK
    <2>3. CASE n = m /\ r.age = 0
      BY <1>2, <2>2, <2>3
    <2>4. CASE n = m /\ r.age # 0
      <3>1. r.age = rows[m].age /\ rows[m].status = "flight"
        BY <1>2, <2>4
      <3>2. Holds(p, m)
        <4>1. CASE p = s
          BY <1>1, <2>1, <2>4, <4>1 DEF Holds
        <4>2. CASE p # s
          BY <1>1, <2>1, <2>4, <4>2 DEF Holds
        <4> QED
          BY <4>1, <4>2
      <3> QED
        BY <1>2, <2>2, <2>4, <3>1, <3>2 DEF HoldersAreYoung
    <2>5. CASE n # m
      <3>1. Holds(p, n)
        <4>1. CASE p = s /\ Chat[n] = c
          BY <1>1, <2>1, <2>5, <4>1 DEF Holds
        <4>2. CASE ~(p = s /\ Chat[n] = c)
          BY <1>1, <2>1, <4>2 DEF Holds
        <4> QED
          BY <4>1, <4>2
      <3> QED
        BY <1>2, <2>2, <2>5, <3>1 DEF HoldersAreYoung
    <2> QED
      BY <2>3, <2>4, <2>5
  <1>8. NothingIsImagined'
    <2>1. \A n \in Messages : rows'[n].known \subseteq shown'[n]
      BY <1>2, <1>3 DEF NothingIsImagined
    <2>2. ASSUME NEW q \in Senders, NEW d \in Chats, thread'[q][d].stage # "idle"
          PROVE  /\ thread'[q][d].known \subseteq shown'[thread'[q][d].row]
                 /\ thread'[q][d].gone \subseteq shown'[thread'[q][d].row]
                 /\ thread'[q][d].stage = "record" => Pieces(thread'[q][d].row) \subseteq shown'[thread'[q][d].row]
      <3>1. CASE q = s /\ d = c
        BY <1>1, <2>2, <3>1
      <3>2. CASE ~(q = s /\ d = c)
        <4>1. thread'[q][d] = thread[q][d]
          BY <1>1, <3>2
        <4>2. thread[q][d].row \in Messages
          BY <2>2, <4>1 DEF ThreadsMakeSense
        <4> QED
          BY <1>3, <2>2, <4>1, <4>2 DEF NothingIsImagined
      <3> QED
        BY <3>1, <3>2
    <2> QED
      BY <2>1, <2>2 DEF NothingIsImagined
  <1>9. SentIsWhole'
    BY <1>2, <1>3 DEF SentIsWhole
  <1> QED
    BY <1>5, <1>6, <1>7, <1>8, <1>9

LEMMA InHand ==
    ASSUME QueueInv, NEW s \in Senders, NEW c \in Chats, NEW stage \in Stages \ {"idle"}, AtWork(s, c, stage)
    PROVE  /\ thread[s][c] \in AThread /\ thread[s][c].stage = stage /\ pass[s].phase = "sending"
           /\ thread[s][c].row \in Messages /\ Chat[thread[s][c].row] = c
           /\ rows[thread[s][c].row] \in ARow /\ shown[thread[s][c].row] \subseteq Pieces(thread[s][c].row)
           /\ rows[thread[s][c].row].known \subseteq shown[thread[s][c].row]
           /\ rows[thread[s][c].row].status = "sent" =>
                  Pieces(thread[s][c].row) \subseteq shown[thread[s][c].row]
           /\ thread[s][c].known \subseteq shown[thread[s][c].row]
           /\ thread[s][c].gone \subseteq shown[thread[s][c].row]
           /\ stage = "record" => Pieces(thread[s][c].row) \subseteq shown[thread[s][c].row]
           /\ stage # "read" => Holds(s, thread[s][c].row)
  <1>1. /\ thread[s][c] \in AThread /\ thread[s][c].stage = stage /\ pass[s].phase = "sending"
        /\ thread[s][c].row \in Messages /\ Chat[thread[s][c].row] = c
    BY DEF QueueInv, TypeOK, AThread, AtWork, ThreadsMakeSense
  <1>2. stage # "read" => Holds(s, thread[s][c].row)
    BY <1>1 DEF Holds, Stages
  <1> QED
    BY <1>1, <1>2 DEF QueueInv, TypeOK, ARow, NothingIsImagined, SentIsWhole

LEMMA OverType ==
    ASSUME NEW t \in AThread, NEW stage \in Stages
    PROVE  /\ Over(t, stage) \in AThread /\ Over(t, stage).stage = stage /\ Over(t, stage).row = t.row
           /\ Over(t, stage).todo = t.todo /\ Over(t, stage).known = {} /\ Over(t, stage).gone = {}
  <1>1. Over(t, stage) = [stage |-> stage, todo |-> t.todo, row |-> t.row, known |-> {}, gone |-> {}, tries |-> 0]
    BY DEF Over, At
  <1>2. t.todo \in SUBSET Messages /\ t.row \in Messages \cup {None} /\ 0 \in 0..(RetryCount - 1)
    BY QueueConstants DEF AThread
  <1> QED
    BY <1>1, <1>2 DEF AThread

LEMMA AttemptType ==
    ASSUME NEW t \in AThread, NEW gone \in SUBSET Nat, t.stage # "idle"
    PROVE  /\ Attempt(t, gone) \in AThread /\ Attempt(t, gone).row = t.row /\ Attempt(t, gone).todo = t.todo
           /\ Attempt(t, gone).stage \in {"send", "record"}
           /\ Attempt(t, gone).known \subseteq t.known /\ Attempt(t, gone).gone \subseteq gone
           /\ Attempt(t, gone).stage = "record" => Pieces(t.row) \subseteq gone
  <1>1. CASE Complete(t.row, gone)
    <2>1. Attempt(t, gone) = Over(t, "record") /\ "record" \in Stages
      BY <1>1 DEF Attempt, Stages
    <2> QED
      BY <1>1, <2>1, OverType DEF Complete
  <1>2. CASE ~Complete(t.row, gone)
    BY <1>2 DEF Attempt, AThread, Stages
  <1> QED
    BY <1>1, <1>2

LEMMA FailedAttemptType ==
    ASSUME NEW t \in AThread, t.stage = "send"
    PROVE  /\ FailedAttempt(t) \in AThread /\ FailedAttempt(t).row = t.row /\ FailedAttempt(t).todo = t.todo
           /\ FailedAttempt(t).stage \in {"send", "fail"}
           /\ FailedAttempt(t).known \subseteq t.known /\ FailedAttempt(t).gone \subseteq t.known
  <1>1. CASE t.tries + 1 < RetryCount
    <2>1. FailedAttempt(t) = [t EXCEPT !.tries = t.tries + 1, !.gone = t.known]
      BY <1>1 DEF FailedAttempt
    <2>2. t.tries + 1 \in 0..(RetryCount - 1) /\ t.known \in SUBSET Nat
      BY <1>1, QueueConstants DEF AThread
    <2> QED
      BY <2>1, <2>2 DEF AThread
  <1>2. CASE ~(t.tries + 1 < RetryCount)
    <2>1. FailedAttempt(t) = Over(t, "fail") /\ "fail" \in Stages
      BY <1>2 DEF FailedAttempt, Stages
    <2> QED
      BY <2>1, OverType
  <1> QED
    BY <1>1, <1>2
-----------------------------------------------------------------------------
\* A thread that goes on to other rows, or to none, changes nothing else.
LEMMA LetsGo ==
    ASSUME QueueInv, NEW s \in Senders, NEW c \in Chats, NEW todo \in SUBSET thread[s][c].todo,
           pass[s].phase = "sending",
           SetThread(s, c, Waiting(todo)), UNCHANGED <<rows, pass, paused, shown, repeated, excused>>
    PROVE  QueueInv'
  <1>1. PICK m \in Messages : Chat[m] = c
    BY DEF Chats
  <1>2. todo \in SUBSET Messages /\ Waiting(todo) \in AThread
    BY WaitingIsAThread DEF QueueInv, TypeOK
  <1>3. /\ rows[m] \in ARow /\ rows' = [rows EXCEPT ![m] = rows[m]]
        /\ shown' = [shown EXCEPT ![m] = @ \cup {}] /\ shown'[m] = shown[m]
        /\ repeated' \in SUBSET Messages /\ excused' \in SUBSET Messages
        /\ rows[m].known \subseteq shown[m]
        /\ rows[m].status = "sent" => Pieces(m) \subseteq shown[m]
    BY DEF QueueInv, TypeOK, ARow, NothingIsImagined, SentIsWhole
  <1>4. Waiting(todo).stage = "idle" /\ Waiting(todo).todo = todo
    BY DEF Waiting, At
  <1> QED
    <2>1. pass' \in {pass, [pass EXCEPT ![s].limited = @ \cup {c}]} /\ UNCHANGED paused
      OBVIOUS
    <2>2. {} \in SUBSET Pieces(m)
      OBVIOUS
    <2>3. rows[m].status = "flight" => (rows[m].age = rows[m].age /\ rows[m].status = "flight")
      OBVIOUS
    <2> QED
      BY <1>1, <1>2, <1>3, <1>4, <2>1, <2>2, <2>3, ThreadStepPreserves

LEMMA GiveUpPreserves ==
    ASSUME QueueInv, NEW s \in Senders, NEW c \in Chats, GiveUpForNow(s, c)
    PROVE  QueueInv'
  BY LetsGo DEF GiveUpForNow, Idle, AtNext

LEMMA ThreadFailsPreserves ==
    ASSUME QueueInv, NEW s \in Senders, NEW c \in Chats, ThreadFails(s, c)
    PROVE  QueueInv'
  BY LetsGo DEF ThreadFails, Idle, AtNext, AtWork

LEMMA NotRecordedPreserves ==
    ASSUME QueueInv, NEW s \in Senders, NEW c \in Chats, NotRecorded(s, c)
    PROVE  QueueInv'
  BY LetsGo DEF NotRecorded, NextRow, AtWork

LEMMA ReadRowPreserves ==
    ASSUME QueueInv, NEW s \in Senders, NEW c \in Chats, ReadRow(s, c)
    PROVE  QueueInv'
  <1>1. PICK m \in thread[s][c].todo :
            SetThread(s, c, IF rows[m].status = "pending" THEN At("read", thread[s][c].todo \ {m}, m, rows[m].known)
                            ELSE Waiting(thread[s][c].todo \ {m}))
    BY DEF ReadRow
  <1> DEFINE rest == thread[s][c].todo \ {m}
             t == At("read", rest, m, rows[m].known)
  <1>2. /\ pass[s].phase = "sending" /\ UNCHANGED <<rows, pass, paused, shown, repeated, excused>>
        /\ rest \in SUBSET thread[s][c].todo
    BY DEF ReadRow, AtNext
  <1>3. CASE rows[m].status # "pending"
    BY <1>1, <1>2, <1>3, LetsGo
  <1>4. CASE rows[m].status = "pending"
    <2>1. /\ m \in Messages /\ Chat[m] = c /\ rest \in SUBSET Messages
          /\ rows[m] \in ARow /\ rows' = [rows EXCEPT ![m] = rows[m]]
          /\ shown' = [shown EXCEPT ![m] = @ \cup {}] /\ shown'[m] = shown[m]
          /\ repeated' \in SUBSET Messages /\ excused' \in SUBSET Messages
          /\ rows[m].known \subseteq shown[m]
      BY <1>1, <1>2 DEF QueueInv, TypeOK, ARow, NothingIsImagined, ThreadsMakeSense
    <2>2. SetThread(s, c, t) /\ UNCHANGED paused /\ pass' \in {pass, [pass EXCEPT ![s].limited = @ \cup {c}]}
      BY <1>1, <1>2, <1>4
    <2>3. rest \subseteq thread[s][c].todo /\ {} \in SUBSET Pieces(m)
      OBVIOUS
    <2> HIDE DEF rest
    <2>4. /\ t \in AThread /\ t.stage = "read" /\ t.row = m /\ t.todo = rest
          /\ t.known = rows[m].known /\ t.gone = {}
      <3>1. rows[m].known \in SUBSET Nat /\ 0 \in 0..(RetryCount - 1)
        BY <2>1, QueueConstants DEF ARow
      <3> QED
        BY <2>1, <3>1 DEF AThread, Stages, At
    <2> HIDE DEF t
    <2> QED
      BY <1>2, <1>4, <2>1, <2>2, <2>3, <2>4, ThreadStepPreserves
  <1> QED
    BY <1>3, <1>4

LEMMA MarkPreserves ==
    ASSUME QueueInv, NEW s \in Senders, NEW c \in Chats, mark_processing(s, c)
    PROVE  QueueInv'
  <1> DEFINE t == thread[s][c]
             m == t.row
             u == Attempt(t, t.known)
             r == [rows[m] EXCEPT !.status = "flight", !.age = 0]
  <1>1. /\ t \in AThread /\ t.stage = "read" /\ pass[s].phase = "sending" /\ m \in Messages /\ Chat[m] = c
        /\ rows[m] \in ARow /\ rows[m].known \subseteq shown[m] /\ t.known \subseteq shown[m]
    BY InHand DEF mark_processing, Stages
  <1>2. CASE rows[m].status # "pending"
    <2>1. SetThread(s, c, Waiting(t.todo)) /\ UNCHANGED <<rows, pass, paused, shown, repeated, excused>>
      BY <1>2 DEF mark_processing, NextRow
    <2> QED
      BY <1>1, <2>1, LetsGo
  <1>3. CASE rows[m].status = "pending"
    <2>1. /\ rows' = [rows EXCEPT ![m] = r] /\ SetThread(s, c, u)
          /\ excused' \in {excused, excused \cup {m}} /\ UNCHANGED <<pass, paused, shown, repeated>>
      BY <1>3 DEF mark_processing, SetRow
    <2>2. /\ r \in ARow /\ r.age = 0 /\ r.status = "flight" /\ r.known = rows[m].known
      <3>1. 0 \in 0..MaxAge
        BY WindowType
      <3> QED
        BY <1>1, <3>1 DEF ARow, Statuses
    <2>3. /\ u \in AThread /\ u.row = m /\ u.todo = t.todo /\ u.stage \in {"send", "record"}
          /\ u.known \subseteq t.known /\ u.gone \subseteq t.known
          /\ u.stage = "record" => Pieces(m) \subseteq t.known
      <3>1. t.known \in SUBSET Nat
        BY <1>1 DEF AThread
      <3> QED
        BY <1>1, <3>1, AttemptType
    <2>4. /\ shown' = [shown EXCEPT ![m] = @ \cup {}] /\ shown'[m] = shown[m] /\ {} \in SUBSET Pieces(m)
          /\ repeated' \in SUBSET Messages /\ excused' \in SUBSET Messages /\ UNCHANGED paused
          /\ pass' \in {pass, [pass EXCEPT ![s].limited = @ \cup {c}]}
      BY <1>1, <2>1 DEF QueueInv, TypeOK
    <2> HIDE DEF u, r, m
    <2> QED
      BY <1>1, <2>1, <2>2, <2>3, <2>4, ThreadStepPreserves
  <1> QED
    BY <1>2, <1>3

\* A step of an attempt leaves the row alone: what the thread then knows has been shown.
LEMMA AttemptPreserves ==
    ASSUME QueueInv, NEW s \in Senders, NEW c \in Chats, NEW t \in AThread, NEW new \in SUBSET Pieces(thread[s][c].row),
           AtWork(s, c, "send"), SetThread(s, c, t),
           shown' = [shown EXCEPT ![thread[s][c].row] = @ \cup new],
           repeated' \in {repeated, repeated \cup {thread[s][c].row}},
           excused' \in {excused, excused \cup {thread[s][c].row}},
           UNCHANGED <<rows, pass, paused>>,
           t.row = thread[s][c].row, t.todo = thread[s][c].todo,
           t.known \subseteq thread[s][c].known \cup thread[s][c].gone \cup new,
           t.gone \subseteq thread[s][c].known \cup thread[s][c].gone \cup new,
           t.stage = "record" => Pieces(thread[s][c].row) \subseteq thread[s][c].gone \cup new
    PROVE  QueueInv'
  <1> DEFINE m == thread[s][c].row
  <1>1. /\ pass[s].phase = "sending" /\ m \in Messages /\ Chat[m] = c /\ Holds(s, m)
        /\ rows[m] \in ARow /\ rows[m].known \subseteq shown[m]
        /\ rows[m].status = "sent" => Pieces(m) \subseteq shown[m]
        /\ thread[s][c].known \subseteq shown[m] /\ thread[s][c].gone \subseteq shown[m]
    BY InHand DEF Stages
  <1>2. shown'[m] = shown[m] \cup new
    BY <1>1 DEF QueueInv, TypeOK
  <1>3. /\ rows' = [rows EXCEPT ![m] = rows[m]] /\ UNCHANGED paused
        /\ repeated' \in SUBSET Messages /\ excused' \in SUBSET Messages
        /\ pass' \in {pass, [pass EXCEPT ![s].limited = @ \cup {c}]}
    BY <1>1 DEF QueueInv, TypeOK
  <1>4. /\ t.known \subseteq shown'[m] /\ t.gone \subseteq shown'[m] /\ rows[m].known \subseteq shown'[m]
        /\ t.stage = "record" => Pieces(m) \subseteq shown'[m]
        /\ rows[m].status = "sent" => Pieces(m) \subseteq shown'[m]
    BY <1>1, <1>2
  <1>5. t.row = m /\ t.todo \subseteq thread[s][c].todo /\ new \in SUBSET Pieces(m)
        /\ shown' = [shown EXCEPT ![m] = @ \cup new]
    OBVIOUS
  <1> HIDE DEF m
  <1> QED
    BY <1>1, <1>3, <1>4, <1>5, ThreadStepPreserves

LEMMA DeliveredPreserves ==
    ASSUME QueueInv, NEW s \in Senders, NEW c \in Chats, Delivered(s, c)
    PROVE  QueueInv'
  <1> DEFINE t == thread[s][c]
  <1>1. /\ t \in AThread /\ t.stage = "send" /\ t.row \in Messages /\ AtWork(s, c, "send")
    BY InHand DEF Delivered, Stages
  <1>2. PICK i \in Pieces(t.row) :
            /\ Shows(t.row, i)
            /\ SetThread(s, c, Attempt([t EXCEPT !.known = IF i = 0 THEN @ \cup {0} ELSE @], t.gone \cup {i}))
    BY DEF Delivered
  <1> DEFINE b == [t EXCEPT !.known = IF i = 0 THEN @ \cup {0} ELSE @]
             u == Attempt(b, t.gone \cup {i})
  <1>3. i \in Nat /\ t.gone \cup {i} \in SUBSET Nat
    BY <1>1, QueueConstants DEF Pieces, AThread
  <1>4. /\ b \in AThread /\ b.stage = "send" /\ b.row = t.row /\ b.todo = t.todo /\ b.known \subseteq t.known \cup {i}
    BY <1>1, <1>3 DEF AThread
  <1> HIDE DEF b
  <1>5. /\ u \in AThread /\ u.row = t.row /\ u.todo = t.todo /\ u.known \subseteq t.known \cup {i}
        /\ u.gone \subseteq t.gone \cup {i}
        /\ u.stage = "record" => Pieces(t.row) \subseteq t.gone \cup {i}
    BY <1>3, <1>4, AttemptType
  <1>6. /\ SetThread(s, c, u) /\ UNCHANGED <<rows, pass, paused>> /\ excused' \in {excused, excused \cup {t.row}}
        /\ shown' = [shown EXCEPT ![t.row] = @ \cup {i}]
        /\ repeated' \in {repeated, repeated \cup {t.row}}
        /\ {i} \in SUBSET Pieces(t.row)
    BY <1>2 DEF Delivered, Shows, b
  <1> HIDE DEF u
  <1> QED
    <2>1. /\ u.known \subseteq t.known \cup t.gone \cup {i} /\ u.gone \subseteq t.known \cup t.gone \cup {i}
      BY <1>5
    <2> QED
      BY <1>1, <1>5, <1>6, <2>1, AttemptPreserves

LEMMA RefusedPreserves ==
    ASSUME QueueInv, NEW s \in Senders, NEW c \in Chats, Refused(s, c) \/ AnswerLost(s, c)
    PROVE  QueueInv'
  <1> DEFINE t == thread[s][c]
             u == FailedAttempt(t)
  <1>1. t \in AThread /\ t.stage = "send" /\ t.row \in Messages /\ AtWork(s, c, "send")
    BY InHand DEF Refused, AnswerLost, Stages
  <1>2. /\ u \in AThread /\ u.row = t.row /\ u.todo = t.todo /\ u.stage \in {"send", "fail"}
        /\ u.known \subseteq t.known /\ u.gone \subseteq t.known
    BY <1>1, FailedAttemptType
  <1>3. /\ SetThread(s, c, u) /\ UNCHANGED <<rows, pass, paused>>
        /\ excused' \in {excused, excused \cup {t.row}}
    BY DEF Refused, AnswerLost
  <1>4. PICK new \in SUBSET Pieces(t.row) : /\ shown' = [shown EXCEPT ![t.row] = @ \cup new]
                                            /\ repeated' \in {repeated, repeated \cup {t.row}}
    <2>1. CASE Refused(s, c)
      <3>1. shown' = [shown EXCEPT ![t.row] = @ \cup {}] /\ repeated' = repeated
        BY <1>1, <2>1 DEF Refused, QueueInv, TypeOK
      <3>2. {} \in SUBSET Pieces(t.row)
        OBVIOUS
      <3> QED
        BY <3>1, <3>2
    <2>2. CASE AnswerLost(s, c)
      <3>1. PICK i \in Pieces(t.row) : Shows(t.row, i)
        BY <2>2 DEF AnswerLost
      <3>2. {i} \in SUBSET Pieces(t.row) /\ shown' = [shown EXCEPT ![t.row] = @ \cup {i}]
            /\ repeated' \in {repeated, repeated \cup {t.row}}
        BY <3>1 DEF Shows
      <3> QED
        BY <3>2
    <2> QED
      BY <2>1, <2>2
  <1> HIDE DEF u
  <1> QED
    BY <1>1, <1>2, <1>3, <1>4, AttemptPreserves

LEMMA RateLimitedPreserves ==
    ASSUME QueueInv, NEW s \in Senders, NEW c \in Chats, RateLimited(s, c)
    PROVE  QueueInv'
  <1> DEFINE t == thread[s][c]
  <1>1. t \in AThread /\ t.stage = "send" /\ t.row \in Messages /\ AtWork(s, c, "send")
    BY InHand DEF RateLimited, Stages
  <1>2. PICK u \in AThread : /\ SetThread(s, c, u) /\ u.row = t.row /\ u.todo = t.todo
                             /\ u.known = t.gone /\ u.gone \subseteq t.gone /\ u.stage \in {"send", "reset"}
    <2>1. CASE s \in Hands /\ t.tries + 1 < RetryCount
      <3>1. SetThread(s, c, [t EXCEPT !.known = t.gone, !.tries = t.tries + 1])
        BY <2>1 DEF RateLimited
      <3>2. t.tries + 1 \in 0..(RetryCount - 1) /\ t.gone \in SUBSET Nat
        BY <1>1, <2>1, QueueConstants DEF AThread
      <3> DEFINE u == [t EXCEPT !.known = t.gone, !.tries = t.tries + 1]
      <3>3. u \in AThread /\ u.row = t.row /\ u.todo = t.todo /\ u.known = t.gone /\ u.gone = t.gone /\ u.stage = "send"
        BY <1>1, <3>2 DEF AThread
      <3> QED
        BY <3>1, <3>3
    <2>2. CASE ~(s \in Hands /\ t.tries + 1 < RetryCount)
      <3>1. SetThread(s, c, At("reset", t.todo, t.row, t.gone))
        BY <2>2 DEF RateLimited
      <3> DEFINE u == At("reset", t.todo, t.row, t.gone)
      <3>2. u \in AThread /\ u.row = t.row /\ u.todo = t.todo /\ u.known = t.gone /\ u.gone = {} /\ u.stage = "reset"
        BY <1>1, QueueConstants DEF AThread, At, Stages
      <3> QED
        BY <3>1, <3>2
    <2> QED
      BY <2>1, <2>2
  <1>3. /\ UNCHANGED <<rows, pass, paused>> /\ excused' \in {excused, excused \cup {t.row}}
        /\ repeated' \in {repeated, repeated \cup {t.row}} /\ {} \in SUBSET Pieces(t.row)
        /\ shown' = [shown EXCEPT ![t.row] = @ \cup {}]
    BY <1>1 DEF RateLimited, QueueInv, TypeOK
  <1> QED
    BY <1>1, <1>2, <1>3, AttemptPreserves

LEMMA RecordPreserves ==
    ASSUME QueueInv, NEW s \in Senders, NEW c \in Chats, record_sent(s, c) \/ mark_failed(s, c)
    PROVE  QueueInv'
  <1> DEFINE t == thread[s][c]
             m == t.row
  <1>1. /\ t \in AThread /\ pass[s].phase = "sending" /\ m \in Messages /\ Chat[m] = c
        /\ rows[m] \in ARow /\ rows[m].known \subseteq shown[m]
        /\ t.stage = "record" => Pieces(m) \subseteq shown[m]
    BY InHand DEF record_sent, mark_failed, Stages
  <1>2. PICK r \in ARow : /\ rows' = [rows EXCEPT ![m] = r] /\ r.known = rows[m].known
                          /\ r.status \in {"sent", "failed"} /\ r.age = 0
                          /\ r.status = "sent" => Pieces(m) \subseteq shown[m]
    <2>1. 0 \in 0..MaxAge
      BY WindowType
    <2>2. CASE record_sent(s, c)
      <3> DEFINE r == [rows[m] EXCEPT !.status = "sent", !.age = 0]
      <3>1. rows' = [rows EXCEPT ![m] = r] /\ t.stage = "record"
        BY <2>2 DEF record_sent, SetRow, AtWork
      <3>2. r \in ARow /\ r.known = rows[m].known /\ r.status = "sent" /\ r.age = 0
        BY <1>1, <2>1 DEF ARow, Statuses
      <3> QED
        BY <1>1, <3>1, <3>2
    <2>3. CASE mark_failed(s, c)
      <3> DEFINE r == [rows[m] EXCEPT !.status = "failed", !.age = 0]
      <3>1. rows' = [rows EXCEPT ![m] = r]
        BY <2>3 DEF mark_failed, SetRow
      <3>2. r \in ARow /\ r.known = rows[m].known /\ r.status = "failed" /\ r.age = 0
        BY <1>1, <2>1 DEF ARow, Statuses
      <3> QED
        BY <3>1, <3>2
    <2> QED
      BY <2>2, <2>3
  <1>3. SetThread(s, c, Waiting(t.todo)) /\ UNCHANGED <<pass, paused, shown, repeated, excused>>
    BY DEF record_sent, mark_failed, NextRow
  <1>4. Waiting(t.todo) \in AThread /\ Waiting(t.todo).stage = "idle" /\ Waiting(t.todo).todo = t.todo
    BY <1>1, WaitingIsAThread DEF Waiting, At, AThread
  <1>5. /\ shown' = [shown EXCEPT ![m] = @ \cup {}] /\ shown'[m] = shown[m] /\ {} \in SUBSET Pieces(m)
        /\ repeated' \in SUBSET Messages /\ excused' \in SUBSET Messages /\ UNCHANGED paused
        /\ pass' \in {pass, [pass EXCEPT ![s].limited = @ \cup {c}]}
    BY <1>1, <1>3 DEF QueueInv, TypeOK
  <1> HIDE DEF m
  <1> QED
    BY <1>1, <1>2, <1>3, <1>4, <1>5, ThreadStepPreserves

LEMMA ResetPreserves ==
    ASSUME QueueInv, NEW s \in Senders, NEW c \in Chats, reset_pending(s, c)
    PROVE  QueueInv'
  <1> DEFINE t == thread[s][c]
             m == t.row
             r == [rows[m] EXCEPT !.status = "pending", !.age = 0, !.known = Merged(rows[m].known, t.known)]
  <1>1. /\ t \in AThread /\ pass[s].phase = "sending" /\ m \in Messages /\ Chat[m] = c
        /\ rows[m] \in ARow /\ rows[m].known \subseteq shown[m] /\ t.known \subseteq shown[m]
    BY InHand DEF reset_pending, Stages
  <1>2. Merged(rows[m].known, t.known) \subseteq rows[m].known \cup t.known
    BY DEF Merged
  <1>3. /\ rows' = [rows EXCEPT ![m] = r] /\ SetThread(s, c, Waiting({}))
        /\ pass' \in {pass, [pass EXCEPT ![s].limited = @ \cup {c}]}
        /\ UNCHANGED <<paused, shown, repeated, excused>>
    BY DEF reset_pending, SetRow, Idle
  <1>4. r \in ARow /\ r.status = "pending" /\ r.age = 0 /\ r.known \subseteq shown[m]
    <2>1. 0 \in 0..MaxAge
      BY WindowType
    <2>2. Merged(rows[m].known, t.known) \in SUBSET Nat
      BY <1>1, <1>2 DEF ARow, AThread
    <2> QED
      BY <1>1, <1>2, <2>1, <2>2 DEF ARow, Statuses
  <1>5. Waiting({}) \in AThread /\ Waiting({}).stage = "idle" /\ Waiting({}).todo = {}
    BY WaitingIsAThread DEF Waiting, At
  <1>6. /\ shown' = [shown EXCEPT ![m] = @ \cup {}] /\ shown'[m] = shown[m] /\ {} \in SUBSET Pieces(m)
        /\ repeated' \in SUBSET Messages /\ excused' \in SUBSET Messages /\ UNCHANGED paused
    BY <1>1, <1>3 DEF QueueInv, TypeOK
  <1> HIDE DEF m, r
  <1> QED
    BY <1>1, <1>3, <1>4, <1>5, <1>6, ThreadStepPreserves
-----------------------------------------------------------------------------
\* The steps of a process and of the world.
LEMMA QueuePreserves ==
    ASSUME QueueInv, NEW m \in Messages, Queue(m)
    PROVE  QueueInv'
  <1> USE DEF QueueInv
  <1> DEFINE r == [rows[m] EXCEPT !.status = "pending"]
  <1>1. /\ rows' = [rows EXCEPT ![m] = r] /\ UNCHANGED <<pass, thread, paused, shown, repeated, excused>>
    BY DEF Queue, SetRow
  <1>2. /\ rows \in [Messages -> ARow] /\ r \in ARow /\ r.status = "pending" /\ r.known = rows[m].known
    BY DEF TypeOK, ARow, Statuses
  <1>3. /\ rows' \in [Messages -> ARow] /\ rows'[m] = r
        /\ \A n \in Messages : n # m => rows'[n] = rows[n]
    BY <1>1, <1>2
  <1> HIDE DEF r
  <1>4. TypeOK'
    BY <1>1, <1>3 DEF TypeOK, ARow, MaxAge, stale_in_flight_seconds
  <1>5. ThreadsMakeSense'
    BY <1>1 DEF ThreadsMakeSense
  <1>6. HoldersAreYoung'
    BY <1>1, <1>2, <1>3 DEF HoldersAreYoung, Holds
  <1>7. NothingIsImagined'
    BY <1>1, <1>2, <1>3 DEF NothingIsImagined
  <1>8. SentIsWhole'
    BY <1>1, <1>2, <1>3 DEF SentIsWhole
  <1> QED
    BY <1>4, <1>5, <1>6, <1>7, <1>8

\* The type of a process.
APass == [phase : {"off", "started", "sending"}, age : 0..Timeout, limited : SUBSET Chats, alone : BOOLEAN]

LEMMA OffIsAPass == Off \in APass /\ Off.phase = "off" /\ Off.age = 0
  BY QueueConstants DEF Off, APass

LEMMA ComesUpType ==
    ASSUME TypeOK, NEW s \in Senders, NEW phase \in {"started", "sending"}, ComesUp(s, phase)
    PROVE  /\ pass' \in [Senders -> APass] /\ pass'[s].phase = phase
           /\ \A q \in Senders \ {s} : pass'[q].phase = pass[q].phase /\ pass'[q].age = pass[q].age
  <1> DEFINE a == \A r \in Senders \ {s} : ~Up(r)
             new == [Off EXCEPT !.phase = phase, !.alone = a]
  <1>1. a \in BOOLEAN
    OBVIOUS
  <1> HIDE DEF a
  <1>2. new \in APass /\ new.phase = phase
    BY <1>1, OffIsAPass DEF APass
  <1>3. \A q \in Senders : pass[q] \in APass
    BY DEF TypeOK, APass
  <1>4. pass' = [q \in Senders |-> IF q = s THEN new ELSE [pass[q] EXCEPT !.alone = FALSE]]
    BY DEF ComesUp, a
  <1> HIDE DEF new
  <1> QED
    BY <1>2, <1>3, <1>4 DEF APass

(***************************************************************************)
(* The steps of a process, and of time: no message moves on, no thread     *)
(* takes a row, and what is held ages no faster than its holder.           *)
(***************************************************************************)
LEMMA WorldStepPreserves ==
    ASSUME QueueInv,
           rows' \in [Messages -> ARow], pass' \in [Senders -> APass],
           thread' \in [Senders -> [Chats -> AThread]], paused' \subseteq Chats,
           UNCHANGED <<shown, repeated>>, excused' \subseteq Messages,
           \A m \in Messages : /\ rows'[m].known = rows[m].known
                               /\ rows'[m].status \in {"sent", "flight"} => rows[m].status = rows'[m].status,
           \A s \in Senders, c \in Chats :
               /\ thread'[s][c].stage # "idle" => thread'[s][c] = thread[s][c] /\ pass'[s].phase = "sending"
               /\ \A m \in thread'[s][c].todo : Chat[m] = c,
           \A p \in Passes, m \in Messages :
               Holds(p, m) /\ Holds(p, m)' /\ rows'[m].status = "flight" /\ rows[m].age <= pass[p].age
               => rows'[m].age <= pass'[p].age
    PROVE  QueueInv'
  <1> USE DEF QueueInv
  <1>1. TypeOK'
    BY DEF TypeOK, ARow, APass, AThread, MaxAge, stale_in_flight_seconds
  <1>2. ThreadsMakeSense'
    BY DEF ThreadsMakeSense
  <1>3. HoldersAreYoung'
    <2> SUFFICES ASSUME NEW p \in Passes, NEW m \in Messages, Holds(p, m)', rows'[m].status = "flight"
                 PROVE  rows'[m].age <= pass'[p].age
      BY DEF HoldersAreYoung
    <2>1. p \in Senders /\ Chat[m] \in Chats
      BY DEF Senders, Chats
    <2>2. Holds(p, m)
      BY <2>1 DEF Holds
    <2> QED
      BY <2>2 DEF HoldersAreYoung
  <1>4. NothingIsImagined'
    <2>1. \A m \in Messages : rows'[m].known \subseteq shown'[m]
      BY DEF NothingIsImagined
    <2>2. ASSUME NEW s \in Senders, NEW c \in Chats, thread'[s][c].stage # "idle"
          PROVE  /\ thread'[s][c].known \subseteq shown'[thread'[s][c].row]
                 /\ thread'[s][c].gone \subseteq shown'[thread'[s][c].row]
                 /\ thread'[s][c].stage = "record" => Pieces(thread'[s][c].row) \subseteq shown'[thread'[s][c].row]
      <3>1. thread'[s][c] = thread[s][c] /\ shown' = shown
        BY <2>2
      <3> QED
        BY <2>2, <3>1 DEF NothingIsImagined
    <2> QED
      BY <2>1, <2>2 DEF NothingIsImagined
  <1>5. SentIsWhole'
    BY DEF SentIsWhole
  <1> QED
    BY <1>1, <1>2, <1>3, <1>4, <1>5

LEMMA StateTypes ==
    ASSUME QueueInv
    PROVE  /\ rows \in [Messages -> ARow] /\ pass \in [Senders -> APass]
           /\ thread \in [Senders -> [Chats -> AThread]] /\ paused \subseteq Chats /\ excused \subseteq Messages
  BY DEF QueueInv, TypeOK, ARow, APass, AThread

\* A process that is not sending has no row in hand.
LEMMA OnlySendersHold ==
    ASSUME QueueInv, NEW s \in Senders, pass[s].phase # "sending"
    PROVE  /\ \A c \in Chats : thread[s][c].stage = "idle"
           /\ \A m \in Messages : ~Holds(s, m)
  <1>1. \A c \in Chats : thread[s][c].stage = "idle"
    BY DEF QueueInv, ThreadsMakeSense
  <1> QED
    BY <1>1 DEF Holds, Chats

LEMMA StartPassPreserves ==
    ASSUME QueueInv, NEW p \in Passes, StartPass(p)
    PROVE  QueueInv'
  <1>1. p \in Senders /\ pass[p].phase # "sending"
    BY DEF StartPass, Up, Senders
  <1>2. /\ pass' \in [Senders -> APass]
        /\ \A q \in Senders \ {p} : pass'[q].phase = pass[q].phase /\ pass'[q].age = pass[q].age
    BY <1>1, ComesUpType DEF QueueInv, StartPass
  <1>3. ASSUME NEW m \in Messages
        PROVE  /\ rows'[m] \in ARow /\ rows'[m].known = rows[m].known
               /\ rows'[m].status \in {"sent", "flight"} => rows'[m] = rows[m]
    <2>1. rows[m] \in ARow /\ 0 \in 0..MaxAge
      BY WindowType, StateTypes
    <2>2. rows'[m] = IF m \in requeue_stale THEN [rows[m] EXCEPT !.status = "pending", !.age = 0] ELSE rows[m]
      BY DEF StartPass
    <2>3. CASE m \in requeue_stale
      BY <2>1, <2>2, <2>3 DEF ARow, Statuses
    <2>4. CASE m \notin requeue_stale
      BY <2>1, <2>2, <2>4
    <2> QED
      BY <2>3, <2>4
  <1>4. rows' \in [Messages -> ARow]
    <2>1. rows' = [m \in Messages |-> rows'[m]]
      BY DEF StartPass
    <2> QED
      BY <1>3, <2>1
  <1>5. requeue_stale \subseteq Messages
    BY DEF requeue_stale
  <1>6. /\ UNCHANGED <<thread, paused, shown, repeated>> /\ excused' \subseteq Messages
    BY <1>5, StateTypes DEF StartPass
  <1>7. ASSUME NEW s \in Senders, NEW c \in Chats
        PROVE  /\ thread'[s][c].stage # "idle" => thread'[s][c] = thread[s][c] /\ pass'[s].phase = "sending"
               /\ \A m \in thread'[s][c].todo : Chat[m] = c
    <2>1. s = p => thread[s][c].stage = "idle"
      BY <1>1, OnlySendersHold
    <2> QED
      BY <1>2, <1>6, <2>1 DEF QueueInv, ThreadsMakeSense
  <1>8. ASSUME NEW q \in Passes, NEW m \in Messages, Holds(q, m), rows'[m].status = "flight",
               rows[m].age <= pass[q].age
        PROVE  rows'[m].age <= pass'[q].age
    <2>1. q \in Senders \ {p}
      BY <1>1, <1>8, OnlySendersHold DEF Senders
    <2> QED
      BY <1>2, <1>3, <1>8, <2>1
  <1> QED
    BY <1>2, <1>3, <1>4, <1>6, <1>7, <1>8, StateTypes, WorldStepPreserves

LEMMA FetchPreserves ==
    ASSUME QueueInv, NEW p \in Passes, Fetch(p)
    PROVE  QueueInv'
  <1>1. p \in Senders /\ pass[p].phase = "started" /\ UNCHANGED <<rows, paused, shown, repeated, excused>>
    BY DEF Fetch, Senders
  <1>2. /\ pass' \in [Senders -> APass]
        /\ \A q \in Senders : pass'[q].age = pass[q].age
        /\ \A q \in Senders \ {p} : pass'[q] = pass[q]
    BY <1>1, StateTypes DEF Fetch, APass
  <1>3. fetch_pending \subseteq Messages
    BY DEF fetch_pending, candidates, Pending
  <1>4. ASSUME NEW c \in Chats
        PROVE  /\ thread'[p][c] \in AThread /\ thread'[p][c].stage = "idle"
               /\ \A m \in thread'[p][c].todo : Chat[m] = c
    <2>1. thread'[p][c] = IF c \in paused THEN Idle ELSE Waiting({m \in fetch_pending : Chat[m] = c})
      BY <1>1, StateTypes DEF Fetch
    <2>2. PICK todo \in SUBSET Messages : thread'[p][c] = Waiting(todo) /\ \A m \in todo : Chat[m] = c
      BY <1>3, <2>1 DEF Idle
    <2> QED
      BY <2>2, WaitingIsAThread DEF Waiting, At
  <1>5. \A q \in Senders \ {p} : thread'[q] = thread[q]
    BY <1>1, StateTypes DEF Fetch
  <1>6. thread' \in [Senders -> [Chats -> AThread]]
    <2>1. thread'[p] \in [Chats -> AThread]
      <3>1. thread'[p] = [c \in Chats |-> thread'[p][c]]
        BY <1>1, StateTypes DEF Fetch
      <3> QED
        BY <1>4, <3>1
    <2> QED
      BY <1>1, <2>1, StateTypes DEF Fetch
  <1>7. ASSUME NEW s \in Senders, NEW c \in Chats
        PROVE  /\ thread'[s][c].stage # "idle" => thread'[s][c] = thread[s][c] /\ pass'[s].phase = "sending"
               /\ \A m \in thread'[s][c].todo : Chat[m] = c
    <2>1. CASE s = p
      BY <1>4, <2>1
    <2>2. CASE s # p
      BY <1>2, <1>5, <2>2 DEF QueueInv, ThreadsMakeSense
    <2> QED
      BY <2>1, <2>2
  <1>8. \A q \in Passes : q \in Senders
    BY DEF Senders
  <1> QED
    BY <1>1, <1>2, <1>6, <1>7, <1>8, StateTypes, WorldStepPreserves

LEMMA StartOnePreserves ==
    ASSUME QueueInv, NEW h \in Hands, NEW n \in Messages, StartOne(h, n)
    PROVE  QueueInv'
  <1>1. h \in Senders /\ h \notin Passes /\ pass[h].phase # "sending" /\ Chat[n] \in Chats
        /\ UNCHANGED <<rows, paused, shown, repeated, excused>>
    BY QueueConstants DEF StartOne, Up, Senders, Chats
  <1>2. /\ pass' \in [Senders -> APass] /\ pass'[h].phase = "sending"
        /\ \A q \in Senders \ {h} : pass'[q].phase = pass[q].phase /\ pass'[q].age = pass[q].age
    BY <1>1, ComesUpType DEF QueueInv, StartOne
  <1>3. {n} \in SUBSET Messages /\ Waiting({n}) \in AThread /\ Waiting({n}).stage = "idle" /\ Waiting({n}).todo = {n}
    <2>1. {n} \in SUBSET Messages
      OBVIOUS
    <2> QED
      BY <2>1, WaitingIsAThread DEF Waiting, At
  <1>4. /\ thread' \in [Senders -> [Chats -> AThread]]
        /\ thread'[h][Chat[n]] = Waiting({n})
        /\ \A q \in Senders, d \in Chats : q # h \/ d # Chat[n] => thread'[q][d] = thread[q][d]
    BY <1>1, <1>3, ThreadMoves DEF QueueInv, StartOne
  <1>5. ASSUME NEW s \in Senders, NEW c \in Chats
        PROVE  /\ thread'[s][c].stage # "idle" => thread'[s][c] = thread[s][c] /\ pass'[s].phase = "sending"
               /\ \A m \in thread'[s][c].todo : Chat[m] = c
    <2>1. CASE s = h /\ c = Chat[n]
      BY <1>3, <1>4, <2>1
    <2>2. CASE ~(s = h /\ c = Chat[n])
      <3>1. thread'[s][c] = thread[s][c]
        BY <1>4, <2>2
      <3> QED
        BY <1>2, <3>1 DEF QueueInv, ThreadsMakeSense
    <2> QED
      BY <2>1, <2>2
  <1>6. \A q \in Passes : q \in Senders \ {h}
    BY <1>1 DEF Senders
  <1> QED
    BY <1>1, <1>2, <1>4, <1>5, <1>6, StateTypes, WorldStepPreserves

\* A process that ends, by itself or not, lets go of all its rows.
LEMMA EndPreserves ==
    ASSUME QueueInv, NEW s \in Senders, EndPass(s) \/ Killed(s)
    PROVE  QueueInv'
  <1>1. /\ pass' = [pass EXCEPT ![s] = Off] /\ UNCHANGED <<rows, shown, repeated, excused>>
        /\ paused' \subseteq Chats
    BY StateTypes DEF EndPass, Killed, APass
  <1>2. pass' \in [Senders -> APass] /\ \A q \in Senders \ {s} : pass'[q] = pass[q]
    BY <1>1, OffIsAPass, StateTypes
  <1>3. Idle \in AThread /\ Idle.stage = "idle" /\ Idle.todo = {}
    BY WaitingIsAThread DEF Idle, Waiting, At
  <1>4. /\ thread' \in [Senders -> [Chats -> AThread]] /\ \A c \in Chats : thread'[s][c] = Idle
        /\ \A q \in Senders \ {s} : thread'[q] = thread[q]
    <2>1. CASE EndPass(s)
      BY <2>1, StateTypes DEF EndPass
    <2>2. CASE Killed(s)
      BY <1>3, <2>2, StateTypes DEF Killed
    <2> QED
      BY <2>1, <2>2
  <1>5. ASSUME NEW q \in Senders, NEW c \in Chats
        PROVE  /\ thread'[q][c].stage # "idle" => thread'[q][c] = thread[q][c] /\ pass'[q].phase = "sending"
               /\ \A m \in thread'[q][c].todo : Chat[m] = c
    <2>1. CASE q = s
      BY <1>3, <1>4, <2>1
    <2>2. CASE q # s
      BY <1>2, <1>4, <2>2 DEF QueueInv, ThreadsMakeSense
    <2> QED
      BY <2>1, <2>2
  <1>6. ASSUME NEW p \in Passes, NEW m \in Messages, Holds(p, m)'
        PROVE  pass'[p].age = pass[p].age
    <2>1. p \in Senders /\ Chat[m] \in Chats
      BY DEF Senders, Chats
    <2>2. p # s
      BY <1>3, <1>4, <1>6, <2>1 DEF Holds
    <2> QED
      BY <1>2, <2>1, <2>2
  <1> QED
    BY <1>1, <1>2, <1>4, <1>5, <1>6, StateTypes, WorldStepPreserves

LEMMA PauseEndsPreserves ==
    ASSUME QueueInv, NEW c \in Chats, PauseEnds(c)
    PROVE  QueueInv'
  <1>1. UNCHANGED <<rows, pass, thread, shown, repeated, excused>> /\ paused' \subseteq Chats
    BY StateTypes DEF PauseEnds
  <1>2. \A s \in Senders, d \in Chats : /\ thread[s][d].stage # "idle" => pass[s].phase = "sending"
                                        /\ \A m \in thread[s][d].todo : Chat[m] = d
    BY DEF QueueInv, ThreadsMakeSense
  <1> QED
    BY <1>1, <1>2, StateTypes, WorldStepPreserves

LEMMA TickPreserves ==
    ASSUME QueueInv, Tick
    PROVE  QueueInv'
  <1>1. ASSUME NEW s \in Senders
        PROVE  /\ pass'[s] \in APass /\ pass'[s].phase = pass[s].phase
               /\ s \in Passes /\ Up(s) => pass'[s].age = pass[s].age + 1
    <2>1. pass[s] \in APass /\ (s \in Passes /\ Up(s) => pass[s].age < Timeout)
      BY StateTypes DEF Tick
    <2>2. pass'[s] = IF Up(s) /\ s \in Passes THEN [pass[s] EXCEPT !.age = @ + 1] ELSE pass[s]
      BY DEF Tick
    <2>3. CASE Up(s) /\ s \in Passes
      <3>1. pass[s].age + 1 \in 0..Timeout
        BY <2>1, <2>3, QueueConstants DEF APass
      <3> QED
        BY <2>1, <2>2, <2>3, <3>1 DEF APass
    <2> QED
      BY <2>1, <2>2, <2>3
  <1>2. ASSUME NEW m \in Messages
        PROVE  /\ rows'[m] \in ARow /\ rows'[m].known = rows[m].known /\ rows'[m].status = rows[m].status
               /\ rows'[m].age <= rows[m].age + 1 /\ rows[m].age \in Nat
    <2>1. rows[m] \in ARow /\ rows[m].age \in 0..MaxAge /\ MaxAge \in Nat
      BY StateTypes, WindowType DEF ARow
    <2>2. rows'[m] = IF rows[m].status = "flight" /\ rows[m].age < MaxAge
                     THEN [rows[m] EXCEPT !.age = @ + 1] ELSE rows[m]
      BY DEF Tick
    <2>3. CASE rows[m].status = "flight" /\ rows[m].age < MaxAge
      <3>1. rows[m].age + 1 \in 0..MaxAge
        BY <2>1, <2>3
      <3> QED
        BY <2>1, <2>2, <2>3, <3>1 DEF ARow
    <2> QED
      BY <2>1, <2>2, <2>3
  <1>3. rows' \in [Messages -> ARow] /\ pass' \in [Senders -> APass]
    <2>1. rows' = [m \in Messages |-> rows'[m]] /\ pass' = [s \in Senders |-> pass'[s]]
      BY DEF Tick
    <2> QED
      BY <1>1, <1>2, <2>1
  <1>4. UNCHANGED <<thread, paused, shown, repeated, excused>>
    BY DEF Tick
  <1>5. ASSUME NEW s \in Senders, NEW c \in Chats
        PROVE  /\ thread'[s][c].stage # "idle" => thread'[s][c] = thread[s][c] /\ pass'[s].phase = "sending"
               /\ \A m \in thread'[s][c].todo : Chat[m] = c
    BY <1>1, <1>4 DEF QueueInv, ThreadsMakeSense
  <1>6. ASSUME NEW p \in Passes, NEW m \in Messages, Holds(p, m), rows[m].age <= pass[p].age
        PROVE  rows'[m].age <= pass'[p].age
    <2>1. p \in Senders /\ Up(p)
      BY <1>6, OnlySendersHold DEF Senders, Up
    <2>2. pass'[p].age = pass[p].age + 1 /\ pass[p].age \in Nat /\ pass'[p].age \in Nat /\ rows'[m].age \in Nat
      BY <1>1, <1>2, <2>1, StateTypes, WindowType, QueueConstants DEF APass, ARow
    <2> QED
      BY <1>2, <1>6, <2>2
  <1> QED
    BY <1>2, <1>3, <1>4, <1>5, <1>6, StateTypes, WorldStepPreserves
-----------------------------------------------------------------------------
LEMMA ThreadNextPreserves ==
    ASSUME QueueInv, NEW s \in Senders, NEW c \in Chats,
           ThreadWorks(s, c) \/ RateLimited(s, c) \/ StoreFails(s, c)
    PROVE  QueueInv'
  BY GiveUpPreserves, ReadRowPreserves, MarkPreserves, DeliveredPreserves, RefusedPreserves, RecordPreserves,
     ResetPreserves, RateLimitedPreserves, NotRecordedPreserves, ThreadFailsPreserves
  DEF ThreadWorks, StoreFails

LEMMA NextPreserves == QueueInv /\ [Next]_vars => QueueInv'
  <1> SUFFICES ASSUME QueueInv, [Next]_vars PROVE QueueInv'
    OBVIOUS
  <1>1. CASE UNCHANGED vars
    BY <1>1 DEF vars, QueueInv, TypeOK, ThreadsMakeSense, HoldersAreYoung, NothingIsImagined, SentIsWhole,
                Holds, MaxAge, stale_in_flight_seconds
  <1>2. CASE \E m \in Messages : Queue(m)
    BY <1>2, QueuePreserves
  <1>3. CASE \E p \in Passes : StartPass(p) \/ Fetch(p)
    BY <1>3, StartPassPreserves, FetchPreserves
  <1>4. CASE \E h \in Hands, m \in Messages : StartOne(h, m)
    BY <1>4, StartOnePreserves
  <1>5. CASE \E s \in Senders : EndPass(s) \/ Killed(s)
    BY <1>5, EndPreserves
  <1>6. CASE \E s \in Senders, c \in Chats : ThreadWorks(s, c) \/ RateLimited(s, c) \/ StoreFails(s, c)
    BY <1>6, ThreadNextPreserves
  <1>7. CASE \E c \in Chats : PauseEnds(c)
    BY <1>7, PauseEndsPreserves
  <1>8. CASE Tick
    BY <1>8, TickPreserves
  <1> QED
    BY <1>1, <1>2, <1>3, <1>4, <1>5, <1>6, <1>7, <1>8 DEF Next

\* The invariant holds always.
THEOREM QueueInvariant == Spec => []QueueInv
  BY InitQueueInv, NextPreserves, PTL DEF Spec

\* Every state is well typed: the rows a producer writes and the threads of any number of senders.
THEOREM QueueTypeCorrect == Spec => []TypeOK
  <1>1. QueueInv => TypeOK
    BY DEF QueueInv
  <1> QED
    BY <1>1, QueueInvariant, PTL

\* A row that reads `sent` reached its chat whole, for any number of senders of either kind and any parts,
\* although a send may be broken off and resumed by another (send_queue.py:266-279).
THEOREM SentReachedTheChat == Spec => []SentIsWhole
  <1>1. QueueInv => SentIsWhole
    BY DEF QueueInv
  <1> QED
    BY <1>1, QueueInvariant, PTL

\* What a pass puts back is in the hands of no live pass, whatever the timeout and the floor of the window
\* (stale_in_flight_seconds, send_queue.py:58-64): the window is wider than any pass is old.
THEOREM RequeueIsSafe == Spec => RequeuesOnlyTheAbandoned
  <1> DEFINE Safe == \A m \in Messages, p, q \in Passes :
        (~Up(p) /\ Up(p)' /\ rows[m].status = "flight" /\ rows'[m].status = "pending") => ~Holds(q, m)
  <1>1. QueueInv /\ [Next]_vars => Safe
    <2> SUFFICES ASSUME QueueInv, [Next]_vars, NEW m \in Messages, NEW p \in Passes, NEW q \in Passes,
                        ~Up(p), Up(p)', rows[m].status = "flight", rows'[m].status = "pending", Holds(q, m)
                 PROVE  FALSE
      OBVIOUS
    <2>1. StartPass(p)
      <3> p \in Senders
        BY DEF Senders
      <3>1. \A r \in Passes : StartPass(r) => r = p
        <4> SUFFICES ASSUME NEW r \in Passes, StartPass(r), r # p PROVE FALSE
          OBVIOUS
        <4>1. r \in Senders
          BY DEF Senders
        <4>2. pass'[p].phase = pass[p].phase
          BY <4>1, ComesUpType DEF QueueInv, StartPass
        <4> QED
          BY <4>2 DEF Up
      <3>2. rows' # rows /\ pass' # pass
        BY DEF Up
      <3>3. \A s \in Senders, c \in Chats : ~reset_pending(s, c)
        <4> SUFFICES ASSUME NEW s \in Senders, NEW c \in Chats, reset_pending(s, c) PROVE FALSE
          OBVIOUS
        <4>1. pass' = [pass EXCEPT ![s].limited = @ \cup {c}]
          BY DEF reset_pending
        <4>2. pass'[p].phase = pass[p].phase
          BY <4>1, StateTypes DEF APass
        <4> QED
          BY <4>2 DEF Up
      <3>4. ~Tick
        <4> SUFFICES ASSUME Tick PROVE FALSE
          OBVIOUS
        <4>1. pass'[p].phase = pass[p].phase
          BY StateTypes DEF Tick, APass
        <4> QED
          BY <4>1 DEF Up
      <3>5. \A n \in Messages : ~Queue(n)
        BY <3>2 DEF Queue
      <3>6. \A r \in Passes : ~Fetch(r)
        BY <3>2 DEF Fetch
      <3>7. \A h \in Hands, n \in Messages : ~StartOne(h, n)
        BY <3>2 DEF StartOne
      <3>8. \A s \in Senders : ~EndPass(s) /\ ~Killed(s)
        BY <3>2 DEF EndPass, Killed
      <3>9. \A c \in Chats : ~PauseEnds(c)
        BY <3>2 DEF PauseEnds
      <3>10. \A s \in Senders, c \in Chats : ~(ThreadWorks(s, c) \/ RateLimited(s, c) \/ StoreFails(s, c))
        <4> SUFFICES ASSUME NEW s \in Senders, NEW c \in Chats,
                            ThreadWorks(s, c) \/ RateLimited(s, c) \/ StoreFails(s, c)
                     PROVE  FALSE
          OBVIOUS
        <4>1. pass' = pass \/ reset_pending(s, c)
          BY DEF ThreadWorks, StoreFails, GiveUpForNow, ReadRow, mark_processing, Delivered, Refused, AnswerLost,
                 record_sent, mark_failed, RateLimited, NotRecorded, ThreadFails
        <4> QED
          BY <3>2, <3>3, <4>1
      <3> QED
        BY <3>1, <3>2, <3>4, <3>5, <3>6, <3>7, <3>8, <3>9, <3>10 DEF Next, vars
    <2>2. rows[m].age > stale_in_flight_seconds
      BY <2>1 DEF StartPass, requeue_stale
    <2>3. q \in Senders /\ pass[q].age \in 0..Timeout /\ rows[m].age \in Nat
      BY StateTypes, WindowType DEF Senders, APass, ARow
    <2>4. rows[m].age <= pass[q].age
      BY DEF QueueInv, HoldersAreYoung
    <2> QED
      BY <2>2, <2>3, <2>4, WindowType, QueueConstants
  <1>2. Spec => [][QueueInv /\ [Next]_vars]_vars
    BY QueueInvariant, PTL DEF Spec
  <1>3. (QueueInv /\ [Next]_vars) => Safe
    BY <1>1
  <1> QED
    BY <1>2, <1>3, PTL DEF RequeuesOnlyTheAbandoned
-----------------------------------------------------------------------------
(***************************************************************************)
(* The refinement, for passes alone.  Every update of a row but the one    *)
(* that takes it is unconditional; what makes them safe is that a row has  *)
(* one holder, and that it stays in flight while it has.                   *)
(***************************************************************************)
OneHolder ==
    \A s \in Senders, m \in Messages : Holds(s, m) =>
        rows[m].status = "flight" /\ \A q \in Senders : Holds(q, m) => q = s

OutboxStep == [Promise!Next]_<<OutboxState, shown>>

HeldStages == {"send", "record", "reset", "fail"}

LEMMA HoldsMoves ==
    ASSUME QueueInv, NEW s \in Senders, NEW c \in Chats, NEW t \in AThread, SetThread(s, c, t),
           NEW q \in Senders, NEW m \in Messages, Holds(q, m)'
    PROVE  IF q = s /\ Chat[m] = c THEN t.stage \in HeldStages /\ t.row = m ELSE Holds(q, m)
  <1>1. /\ thread'[s][c] = t
        /\ \A r \in Senders, d \in Chats : r # s \/ d # c => thread'[r][d] = thread[r][d]
    BY ThreadMoves DEF QueueInv
  <1>2. Chat[m] \in Chats
    BY DEF Chats
  <1> QED
    BY <1>1, <1>2 DEF Holds, HeldStages

\* Nobody takes a row, and what is still held is still in flight.
LEMMA NobodyTakes ==
    ASSUME OneHolder,
           \A q \in Senders, m \in Messages : Holds(q, m)' => Holds(q, m) /\ rows'[m].status = "flight"
    PROVE  OneHolder'
  BY DEF OneHolder

\* A step that settles nothing and shows nothing is not seen from outside.
LEMMA Unseen ==
    ASSUME UNCHANGED shown,
           \A m \in Messages : \/ rows'[m].status = rows[m].status
                               \/ {rows[m].status, rows'[m].status} \subseteq {"pending", "flight"}
    PROVE  OutboxStep
  <1>1. OutboxState' = OutboxState
    BY DEF OutboxState
  <1> QED
    BY <1>1 DEF OutboxStep

LEMMA QueueAccepts ==
    ASSUME QueueInv, OneHolder, NEW m \in Messages, Queue(m)
    PROVE  OneHolder' /\ OutboxStep
  <1>1. /\ rows[m].status = "none" /\ rows'[m].status = "pending" /\ UNCHANGED <<thread, shown>>
        /\ \A n \in Messages : n # m => rows'[n] = rows[n]
    BY StateTypes DEF Queue, SetRow, ARow
  <1>2. OneHolder'
    BY <1>1, NobodyTakes DEF OneHolder, Holds
  <1>3. Promise!Accept(m)
    <2>1. OutboxState[m] = "none"
      BY <1>1 DEF OutboxState
    <2>2. OutboxState' = [OutboxState EXCEPT ![m] = "waiting"]
      BY <1>1 DEF OutboxState
    <2> QED
      BY <1>1, <2>1, <2>2 DEF Promise!Accept
  <1> QED
    BY <1>2, <1>3 DEF OutboxStep, Promise!Next

LEMMA StartPassUnseen ==
    ASSUME QueueInv, OneHolder, NEW p \in Passes, Hands = {}, StartPass(p)
    PROVE  OneHolder' /\ OutboxStep
  <1>1. \A s \in Senders, m \in Messages : Holds(s, m) => m \notin requeue_stale
    <2> SUFFICES ASSUME NEW s \in Senders, NEW m \in Messages, Holds(s, m), m \in requeue_stale PROVE FALSE
      OBVIOUS
    <2>1. s \in Passes /\ rows[m].status = "flight" /\ rows[m].age > stale_in_flight_seconds
      BY DEF Senders, requeue_stale
    <2>2. rows[m].age <= pass[s].age /\ pass[s].age \in 0..Timeout /\ rows[m].age \in Nat
      BY <2>1, StateTypes, WindowType DEF QueueInv, HoldersAreYoung, APass, ARow
    <2> QED
      BY <2>1, <2>2, WindowType, QueueConstants
  <1>2. /\ UNCHANGED <<thread, shown>>
        /\ \A m \in Messages : IF m \in requeue_stale THEN rows[m].status = "flight" /\ rows'[m].status = "pending"
                                                      ELSE rows'[m] = rows[m]
    BY StateTypes DEF StartPass, requeue_stale, ARow
  <1>3. OneHolder'
    BY <1>1, <1>2, NobodyTakes DEF OneHolder, Holds
  <1> QED
    BY <1>2, <1>3, Unseen

LEMMA ProcessUnseen ==
    ASSUME QueueInv, OneHolder,
           \/ \E p \in Passes : Fetch(p)
           \/ \E s \in Senders : EndPass(s) \/ Killed(s)
           \/ \E c \in Chats : PauseEnds(c)
           \/ Tick
    PROVE  OneHolder' /\ OutboxStep
  <1>1. UNCHANGED shown /\ \A m \in Messages : rows'[m].status = rows[m].status
    <2>1. CASE Tick
      BY <2>1, StateTypes DEF Tick, ARow
    <2> QED
      BY <2>1 DEF Fetch, EndPass, Killed, PauseEnds
  <1>2. Idle.stage = "idle" /\ \A todo : Waiting(todo).stage = "idle"
    BY DEF Idle, Waiting, At
  <1>3. ASSUME NEW q \in Senders, NEW d \in Chats, thread'[q][d].stage # "idle"
        PROVE  thread'[q][d] = thread[q][d]
    <2>1. CASE \E p \in Passes : Fetch(p)
      <3>1. PICK p \in Passes : Fetch(p)
        BY <2>1
      <3>2. q = p => thread'[q][d].stage = "idle"
        BY <1>2, <3>1, StateTypes DEF Fetch
      <3> QED
        BY <1>3, <3>1, <3>2, StateTypes DEF Fetch
    <2>2. CASE \E s \in Senders : Killed(s)
      <3>1. PICK s \in Senders : Killed(s)
        BY <2>2
      <3>2. q = s => thread'[q][d].stage = "idle"
        BY <1>2, <3>1, StateTypes DEF Killed
      <3> QED
        BY <1>3, <3>1, <3>2, StateTypes DEF Killed
    <2> QED
      BY <2>1, <2>2 DEF EndPass, PauseEnds, Tick
  <1>4. \A q \in Senders, m \in Messages : Holds(q, m)' => Holds(q, m)
    BY <1>3 DEF Holds, Chats
  <1>5. OneHolder'
    BY <1>1, <1>4, NobodyTakes DEF OneHolder
  <1> QED
    BY <1>1, <1>5, Unseen

\* The thread lets go of its row, if it had one, and the row is left alone.
LEMMA LetsGoUnseen ==
    ASSUME QueueInv, OneHolder, NEW s \in Senders, NEW c \in Chats, NEW t \in AThread, SetThread(s, c, t),
           t.stage \in {"idle", "read"}, UNCHANGED <<rows, shown>>
    PROVE  OneHolder' /\ OutboxStep
  <1>1. \A q \in Senders, m \in Messages : Holds(q, m)' => Holds(q, m)
    BY HoldsMoves DEF HeldStages
  <1>2. OneHolder'
    BY <1>1, NobodyTakes DEF OneHolder
  <1> QED
    BY <1>2, Unseen

\* The steps that move a thread to a row it does not hold, or to none.
LEMMA IdleStepsMove ==
    ASSUME QueueInv, NEW s \in Senders, NEW c \in Chats,
           GiveUpForNow(s, c) \/ ReadRow(s, c) \/ NotRecorded(s, c) \/ ThreadFails(s, c)
    PROVE  \E t \in AThread : SetThread(s, c, t) /\ t.stage \in {"idle", "read"}
  <1>1. thread[s][c] \in AThread /\ thread[s][c].todo \in SUBSET Messages
    BY StateTypes DEF AThread
  <1>2. CASE ReadRow(s, c)
    <2>1. PICK m \in thread[s][c].todo :
            SetThread(s, c, IF rows[m].status = "pending" THEN At("read", thread[s][c].todo \ {m}, m, rows[m].known)
                            ELSE Waiting(thread[s][c].todo \ {m}))
      BY <1>2 DEF ReadRow
    <2>2. m \in Messages /\ rows[m].known \in SUBSET Nat /\ thread[s][c].todo \ {m} \in SUBSET Messages
      BY <1>1, StateTypes DEF ARow
    <2>3. At("read", thread[s][c].todo \ {m}, m, rows[m].known) \in AThread
      BY <2>2, QueueConstants DEF At, AThread, Stages
    <2>4. Waiting(thread[s][c].todo \ {m}) \in AThread
      BY <2>2, WaitingIsAThread
    <2> QED
      BY <2>1, <2>3, <2>4 DEF At, Waiting
  <1>3. CASE GiveUpForNow(s, c) \/ NotRecorded(s, c) \/ ThreadFails(s, c)
    <2>1. PICK todo \in SUBSET Messages : SetThread(s, c, Waiting(todo))
      BY <1>1, <1>3 DEF GiveUpForNow, NotRecorded, ThreadFails, Idle, NextRow
    <2> QED
      BY <2>1, WaitingIsAThread DEF Waiting, At
  <1> QED
    BY <1>2, <1>3

LEMMA IdleStepsUnseen ==
    ASSUME QueueInv, OneHolder, NEW s \in Senders, NEW c \in Chats,
           GiveUpForNow(s, c) \/ ReadRow(s, c) \/ NotRecorded(s, c) \/ ThreadFails(s, c)
    PROVE  OneHolder' /\ OutboxStep
  <1>1. UNCHANGED <<rows, shown>>
    BY DEF GiveUpForNow, ReadRow, NotRecorded, ThreadFails
  <1> QED
    BY <1>1, IdleStepsMove, LetsGoUnseen

LEMMA MarkUnseen ==
    ASSUME QueueInv, OneHolder, NEW s \in Senders, NEW c \in Chats, mark_processing(s, c)
    PROVE  OneHolder' /\ OutboxStep
  <1> DEFINE t == thread[s][c]
             m == t.row
             u == Attempt(t, t.known)
  <1>1. t \in AThread /\ t.stage = "read" /\ m \in Messages /\ Chat[m] = c /\ rows[m] \in ARow
    BY InHand DEF mark_processing, Stages
  <1>2. CASE rows[m].status # "pending"
    <2>1. SetThread(s, c, Waiting(t.todo)) /\ UNCHANGED <<rows, shown>>
      BY <1>2 DEF mark_processing, NextRow
    <2>2. Waiting(t.todo) \in AThread /\ Waiting(t.todo).stage = "idle"
      BY <1>1, WaitingIsAThread DEF Waiting, At, AThread
    <2> QED
      BY <2>1, <2>2, LetsGoUnseen
  <1>3. CASE rows[m].status = "pending"
    <2>1. /\ rows' = [rows EXCEPT ![m] = [rows[m] EXCEPT !.status = "flight", !.age = 0]]
          /\ SetThread(s, c, u) /\ UNCHANGED shown
      BY <1>3 DEF mark_processing, SetRow
    <2>2. /\ rows'[m].status = "flight" /\ \A n \in Messages : n # m => rows'[n] = rows[n]
      BY <1>1, <2>1, StateTypes DEF ARow
    <2>3. u \in AThread /\ u.row = m
      <3>1. t.known \in SUBSET Nat
        BY <1>1 DEF AThread
      <3> QED
        BY <1>1, <3>1, AttemptType
    <2>4. \A q \in Senders : ~Holds(q, m)
      BY <1>1, <1>3 DEF OneHolder
    <2> HIDE DEF m, u
    <2>5. \A q \in Senders, n \in Messages : Holds(q, n)' => (q = s /\ n = m) \/ (n # m /\ Holds(q, n))
      BY <2>1, <2>3, <2>4, HoldsMoves
    <2>6. OneHolder'
      BY <2>2, <2>5 DEF OneHolder
    <2>7. OutboxStep
      BY <1>3, <2>1, <2>2, Unseen
    <2> QED
      BY <2>6, <2>7
  <1> QED
    BY <1>2, <1>3

\* A call to Telegram: the row stays in hand, and a piece of it may be shown.
LEMMA AttemptShows ==
    ASSUME QueueInv, OneHolder, NEW s \in Senders, NEW c \in Chats, AtWork(s, c, "send"),
           NEW t \in AThread, SetThread(s, c, t), t.row = thread[s][c].row, UNCHANGED rows,
           \/ UNCHANGED shown
           \/ \E i \in Pieces(thread[s][c].row) : Shows(thread[s][c].row, i)
    PROVE  OneHolder' /\ OutboxStep
  <1> DEFINE m == thread[s][c].row
  <1>1. m \in Messages /\ Chat[m] = c /\ Holds(s, m)
    BY InHand DEF Stages
  <1>2. rows[m].status = "flight"
    BY <1>1 DEF OneHolder
  <1> HIDE DEF m
  <1>3. \A q \in Senders, n \in Messages : Holds(q, n)' => Holds(q, n)
    BY <1>1, HoldsMoves DEF m
  <1>4. OneHolder'
    BY <1>3, NobodyTakes DEF OneHolder
  <1>5. CASE UNCHANGED shown
    BY <1>4, <1>5, Unseen
  <1>6. CASE \E i \in Pieces(m) : Shows(m, i)
    <2>1. PICK i \in Pieces(m) : shown' = [shown EXCEPT ![m] = @ \cup {i}]
      BY <1>6 DEF Shows
    <2>2. OutboxState[m] = "waiting" /\ OutboxState' = OutboxState
      BY <1>1, <1>2 DEF OutboxState
    <2>3. Promise!Show(m, i)
      BY <2>1, <2>2 DEF Promise!Show
    <2>4. [n \in Messages |-> Pieces(n)][m] = Pieces(m)
      BY <1>1
    <2>5. Promise!Next
      BY <1>1, <2>1, <2>3, <2>4 DEF Promise!Next
    <2> QED
      BY <1>4, <2>5 DEF OutboxStep
  <1> QED
    BY <1>5, <1>6 DEF m

\* Whatever comes of the call, the thread stays with its row.
LEMMA CallMoves ==
    ASSUME QueueInv, NEW s \in Senders, NEW c \in Chats,
           Delivered(s, c) \/ Refused(s, c) \/ AnswerLost(s, c) \/ RateLimited(s, c)
    PROVE  /\ AtWork(s, c, "send")
           /\ \E u \in AThread : /\ SetThread(s, c, u) /\ u.stage \in HeldStages
                                 /\ u.row = thread[s][c].row /\ u.todo = thread[s][c].todo
  <1> DEFINE t == thread[s][c]
             Stays(u) == u \in AThread /\ u.stage \in HeldStages /\ u.row = t.row /\ u.todo = t.todo
  <1>1. t \in AThread /\ t.stage = "send" /\ t.row \in Messages /\ AtWork(s, c, "send")
    BY InHand DEF Delivered, Refused, AnswerLost, RateLimited, Stages
  <1>2. CASE Delivered(s, c)
    <2>1. PICK i \in Pieces(t.row) :
            SetThread(s, c, Attempt([t EXCEPT !.known = IF i = 0 THEN @ \cup {0} ELSE @], t.gone \cup {i}))
      BY <1>2 DEF Delivered
    <2> DEFINE b == [t EXCEPT !.known = IF i = 0 THEN @ \cup {0} ELSE @]
    <2>2. i \in Nat /\ t.gone \cup {i} \in SUBSET Nat
      BY <1>1, QueueConstants DEF Pieces, AThread
    <2>3. b \in AThread /\ b.stage = "send" /\ b.row = t.row /\ b.todo = t.todo
      BY <1>1, <2>2 DEF AThread
    <2> HIDE DEF b
    <2>4. Stays(Attempt(b, t.gone \cup {i}))
      BY <2>2, <2>3, AttemptType DEF HeldStages
    <2> QED
      BY <1>1, <2>1, <2>4 DEF b
  <1>3. CASE Refused(s, c) \/ AnswerLost(s, c)
    <2>1. SetThread(s, c, FailedAttempt(t))
      BY <1>3 DEF Refused, AnswerLost
    <2>2. Stays(FailedAttempt(t))
      BY <1>1, FailedAttemptType DEF HeldStages
    <2> QED
      BY <1>1, <2>1, <2>2
  <1>4. CASE RateLimited(s, c)
    <2>1. CASE s \in Hands /\ t.tries + 1 < RetryCount
      <3> DEFINE u == [t EXCEPT !.known = t.gone, !.tries = t.tries + 1]
      <3>1. t.tries + 1 \in 0..(RetryCount - 1) /\ t.gone \in SUBSET Nat
        BY <1>1, <2>1, QueueConstants DEF AThread
      <3>2. SetThread(s, c, u)
        BY <1>4, <2>1 DEF RateLimited
      <3>3. Stays(u)
        BY <1>1, <3>1 DEF AThread, HeldStages
      <3> QED
        BY <1>1, <3>2, <3>3
    <2>2. CASE ~(s \in Hands /\ t.tries + 1 < RetryCount)
      <3> DEFINE u == At("reset", t.todo, t.row, t.gone)
      <3>1. SetThread(s, c, u)
        BY <1>4, <2>2 DEF RateLimited
      <3>2. Stays(u)
        BY <1>1, QueueConstants DEF AThread, At, Stages, HeldStages
      <3> QED
        BY <1>1, <3>1, <3>2
    <2> QED
      BY <2>1, <2>2
  <1> QED
    BY <1>2, <1>3, <1>4

LEMMA CallsShow ==
    ASSUME QueueInv, OneHolder, NEW s \in Senders, NEW c \in Chats,
           Delivered(s, c) \/ Refused(s, c) \/ AnswerLost(s, c) \/ RateLimited(s, c)
    PROVE  OneHolder' /\ OutboxStep
  <1>1. /\ UNCHANGED rows
        /\ UNCHANGED shown \/ \E i \in Pieces(thread[s][c].row) : Shows(thread[s][c].row, i)
    BY DEF Delivered, Refused, AnswerLost, RateLimited
  <1>2. AtWork(s, c, "send")
    BY CallMoves
  <1>3. PICK u \in AThread : SetThread(s, c, u) /\ u.row = thread[s][c].row
    BY CallMoves
  <1> QED
    BY <1>1, <1>2, <1>3, AttemptShows

\* The write that ends a row's turn finds it in flight, and its writer lets go of it.
LEMMA WritesSettle ==
    ASSUME QueueInv, OneHolder, NEW s \in Senders, NEW c \in Chats,
           record_sent(s, c) \/ mark_failed(s, c) \/ reset_pending(s, c)
    PROVE  OneHolder' /\ OutboxStep
  <1> DEFINE t == thread[s][c]
             m == t.row
  <1>1. /\ t \in AThread /\ t.todo \in SUBSET Messages /\ m \in Messages /\ Chat[m] = c /\ rows[m] \in ARow
        /\ Holds(s, m) /\ shown[m] \subseteq Pieces(m)
        /\ t.stage = "record" => Pieces(m) \subseteq shown[m]
    BY InHand DEF record_sent, mark_failed, reset_pending, Stages, AThread
  <1>2. rows[m].status = "flight" /\ \A q \in Senders : Holds(q, m) => q = s
    BY <1>1 DEF OneHolder
  <1>3. PICK todo \in SUBSET Messages : SetThread(s, c, Waiting(todo))
    BY <1>1 DEF record_sent, mark_failed, reset_pending, NextRow, Idle
  <1>4. /\ UNCHANGED shown /\ \A n \in Messages : n # m => rows'[n] = rows[n]
        /\ \/ rows'[m].status = "sent" /\ t.stage = "record"
           \/ rows'[m].status \in {"failed", "pending"}
    <2>1. CASE record_sent(s, c)
      BY <1>1, <2>1, StateTypes DEF record_sent, SetRow, AtWork, ARow
    <2>2. CASE mark_failed(s, c)
      BY <1>1, <2>2, StateTypes DEF mark_failed, SetRow, ARow
    <2>3. CASE reset_pending(s, c)
      BY <1>1, <2>3, StateTypes DEF reset_pending, SetRow, ARow
    <2> QED
      BY <2>1, <2>2, <2>3
  <1> HIDE DEF m
  <1>5. Waiting(todo) \in AThread /\ Waiting(todo).stage = "idle"
    BY WaitingIsAThread DEF Waiting, At
  <1>6. \A q \in Senders, n \in Messages : Holds(q, n)' => n # m /\ Holds(q, n)
    BY <1>1, <1>2, <1>3, <1>5, HoldsMoves DEF HeldStages
  <1>7. OneHolder'
    BY <1>4, <1>6, NobodyTakes DEF OneHolder
  <1>8. CASE rows'[m].status = "pending"
    BY <1>2, <1>4, <1>7, <1>8, Unseen
  <1>9. CASE rows'[m].status \in {"sent", "failed"}
    <2> DEFINE how == rows'[m].status
    <2>1. OutboxState[m] = "waiting" /\ OutboxState' = [OutboxState EXCEPT ![m] = how]
      BY <1>1, <1>2, <1>4, <1>9 DEF OutboxState
    <2>2. how = "sent" => shown[m] = [n \in Messages |-> Pieces(n)][m]
      BY <1>1, <1>4
    <2> HIDE DEF how
    <2>3. Promise!Settle(m, how)
      BY <1>4, <2>1, <2>2 DEF Promise!Settle
    <2>4. how \in {"sent", "failed"}
      BY <1>9 DEF how
    <2>5. Promise!Next
      BY <1>1, <2>3, <2>4 DEF Promise!Next
    <2> QED
      BY <1>7, <2>5 DEF OutboxStep
  <1> QED
    BY <1>4, <1>8, <1>9

LEMMA RefinementStep ==
    ASSUME Hands = {}, QueueInv, OneHolder, [Next]_vars
    PROVE  OneHolder' /\ OutboxStep
  <1>1. CASE UNCHANGED vars
    BY <1>1, Unseen DEF vars, OneHolder, Holds
  <1>2. CASE \E m \in Messages : Queue(m)
    BY <1>2, QueueAccepts
  <1>3. CASE \E p \in Passes : StartPass(p)
    BY <1>3, StartPassUnseen
  <1>4. CASE \/ \E p \in Passes : Fetch(p)
             \/ \E s \in Senders : EndPass(s) \/ Killed(s)
             \/ \E c \in Chats : PauseEnds(c)
             \/ Tick
    BY <1>4, ProcessUnseen
  <1>5. CASE \E s \in Senders, c \in Chats : ThreadWorks(s, c) \/ RateLimited(s, c) \/ StoreFails(s, c)
    <2>1. PICK s \in Senders, c \in Chats : ThreadWorks(s, c) \/ RateLimited(s, c) \/ StoreFails(s, c)
      BY <1>5
    <2> QED
      BY <2>1, IdleStepsUnseen, MarkUnseen, CallsShow, WritesSettle DEF ThreadWorks, StoreFails
  <1> QED
    BY <1>1, <1>2, <1>3, <1>4, <1>5 DEF Next

\* Where nobody sends by hand, any number of passes implement the outbox: a message is settled once, as
\* sent only when its chat has all of it, and nothing of it is shown afterwards.
THEOREM PassesKeepThePromise ==
    ASSUME Hands = {}
    PROVE  Spec => KeepsItsPromise
  <1>1. Init => OneHolder /\ Promise!Init
    <2> SUFFICES ASSUME Init PROVE OneHolder /\ Promise!Init
      OBVIOUS
    <2>1. OneHolder
      BY DEF Init, OneHolder, Holds, Idle, Waiting, At, Chats
    <2>2. OutboxState = [m \in Messages |-> "none"]
      BY DEF Init, OutboxState
    <2> QED
      BY <2>1, <2>2 DEF Init, Promise!Init
  <1>2. QueueInv /\ OneHolder /\ [Next]_vars => OneHolder' /\ [Promise!Next]_(Promise!vars)
    BY RefinementStep DEF OutboxStep, Promise!vars
  <1>3. Spec => [](QueueInv /\ OneHolder)
    BY <1>1, <1>2, QueueInvariant, PTL DEF Spec
  <1> QED
    BY <1>1, <1>2, <1>3, QueueInvariant, PTL DEF Spec, KeepsItsPromise, Promise!Spec
-----------------------------------------------------------------------------
(***************************************************************************)
(* Repeats.  Of a message nothing excuses, somebody always has the true    *)
(* account of what was shown: the row while it waits, and its one holder   *)
(* while it is in flight.                                                  *)
(***************************************************************************)
SoFar(m, t) ==
    /\ t.stage = "send" => rows[m].known \subseteq t.known /\ t.known \subseteq t.gone /\ t.gone = shown[m]
    /\ t.stage = "reset" => rows[m].known \subseteq t.known /\ t.known = shown[m]

AccountOf(m) ==
    /\ rows[m].status \in {"none", "pending"} => shown[m] = rows[m].known
    /\ \A s \in Senders : Holds(s, m) =>
           /\ rows[m].status = "flight"
           /\ \A q \in Senders : Holds(q, m) => q = s
           /\ SoFar(m, thread[s][Chat[m]])

Accounts == RepeatsAreExcused /\ \A m \in Messages \ excused : AccountOf(m)

\* A message the step leaves alone: nobody takes it, and who still holds it is where it was.
LEMMA LeftAlone ==
    ASSUME NEW m \in Messages, AccountOf(m),
           shown'[m] = shown[m], rows'[m].status = rows[m].status, rows'[m].known = rows[m].known,
           \A q \in Senders : Holds(q, m)' => Holds(q, m) /\ thread'[q][Chat[m]] = thread[q][Chat[m]]
    PROVE  AccountOf(m)'
  BY DEF AccountOf, SoFar

\* A step in which no message moves: at most, some are excused.
LEMMA NothingMoves ==
    ASSUME Accounts, UNCHANGED <<shown, repeated>>, excused \subseteq excused',
           \A m \in Messages \ excused' : rows'[m].status = rows[m].status /\ rows'[m].known = rows[m].known,
           \A q \in Senders, d \in Chats : thread'[q][d].stage # "idle" => thread'[q][d] = thread[q][d]
    PROVE  Accounts'
  <1>1. RepeatsAreExcused'
    BY DEF Accounts, RepeatsAreExcused
  <1>2. ASSUME NEW m \in Messages \ excused'
        PROVE  AccountOf(m)'
    <2>1. AccountOf(m) /\ Chat[m] \in Chats
      BY DEF Accounts, Chats
    <2>2. \A q \in Senders : Holds(q, m)' => Holds(q, m) /\ thread'[q][Chat[m]] = thread[q][Chat[m]]
      BY <2>1 DEF Holds
    <2> QED
      BY <2>1, <2>2, LeftAlone
  <1> QED
    BY <1>1, <1>2 DEF Accounts

LEMMA QueueAccounts ==
    ASSUME QueueInv, Accounts, NEW m \in Messages, Queue(m)
    PROVE  Accounts'
  <1>1. /\ rows[m].status = "none" /\ rows'[m].status = "pending" /\ rows'[m].known = rows[m].known
        /\ UNCHANGED <<thread, shown, repeated, excused>>
        /\ \A n \in Messages : n # m => rows'[n] = rows[n]
    BY StateTypes DEF Queue, SetRow, ARow
  <1>2. ASSUME NEW n \in Messages \ excused'
        PROVE  AccountOf(n)'
    <2>1. AccountOf(n)
      BY <1>1 DEF Accounts
    <2>2. CASE n = m
      BY <1>1, <2>1, <2>2 DEF AccountOf, Holds
    <2>3. CASE n # m
      BY <1>1, <2>1, <2>3, LeftAlone DEF Holds
    <2> QED
      BY <2>2, <2>3
  <1> QED
    BY <1>1, <1>2 DEF Accounts, RepeatsAreExcused

\* Starting, ending and killing a process, a send-one, a pause and the clock.
LEMMA ProcessAccounts ==
    ASSUME QueueInv, Accounts,
           \/ \E p \in Passes : StartPass(p) \/ Fetch(p)
           \/ \E h \in Hands, m \in Messages : StartOne(h, m)
           \/ \E s \in Senders : EndPass(s) \/ Killed(s)
           \/ \E c \in Chats : PauseEnds(c)
           \/ Tick
    PROVE  Accounts'
  <1>1. UNCHANGED <<shown, repeated>> /\ excused \subseteq excused'
    BY DEF StartPass, Fetch, StartOne, EndPass, Killed, PauseEnds, Tick
  <1>2. \A m \in Messages \ excused' : rows'[m].status = rows[m].status /\ rows'[m].known = rows[m].known
    <2>1. CASE Tick
      BY <2>1, StateTypes DEF Tick, ARow
    <2>2. CASE \E p \in Passes : StartPass(p)
      BY <2>2 DEF StartPass
    <2> QED
      BY <2>1, <2>2 DEF Fetch, StartOne, EndPass, Killed, PauseEnds
  <1>3. Idle.stage = "idle" /\ \A todo : Waiting(todo).stage = "idle"
    BY DEF Idle, Waiting, At
  <1>4. ASSUME NEW q \in Senders, NEW d \in Chats, thread'[q][d].stage # "idle"
        PROVE  thread'[q][d] = thread[q][d]
    <2>1. CASE \E p \in Passes : Fetch(p)
      <3>1. PICK p \in Passes : Fetch(p)
        BY <2>1
      <3>2. q = p => thread'[q][d].stage = "idle"
        BY <1>3, <3>1, StateTypes DEF Fetch
      <3> QED
        BY <1>4, <3>1, <3>2, StateTypes DEF Fetch
    <2>2. CASE \E s \in Senders : Killed(s)
      <3>1. PICK s \in Senders : Killed(s)
        BY <2>2
      <3>2. q = s => thread'[q][d].stage = "idle"
        BY <1>3, <3>1, StateTypes DEF Killed
      <3> QED
        BY <1>4, <3>1, <3>2, StateTypes DEF Killed
    <2>3. CASE \E h \in Hands, m \in Messages : StartOne(h, m)
      <3>1. PICK h \in Hands, m \in Messages : StartOne(h, m)
        BY <2>3
      <3>2. h \in Senders /\ Chat[m] \in Chats /\ {m} \in SUBSET Messages
        BY DEF Senders, Chats
      <3>3. Waiting({m}) \in AThread
        BY <3>2, WaitingIsAThread
      <3>4. /\ thread'[h][Chat[m]] = Waiting({m})
            /\ \A r \in Senders, e \in Chats : r # h \/ e # Chat[m] => thread'[r][e] = thread[r][e]
        BY <3>1, <3>2, <3>3, ThreadMoves DEF QueueInv, StartOne
      <3> QED
        BY <1>3, <1>4, <3>4
    <2> QED
      BY <2>1, <2>2, <2>3 DEF StartPass, EndPass, PauseEnds, Tick
  <1> QED
    BY <1>1, <1>2, <1>4, NothingMoves

\* A thread takes no row, or lets go of the one it has.
LEMMA LetsGoAccounts ==
    ASSUME QueueInv, Accounts, NEW s \in Senders, NEW c \in Chats, NEW t \in AThread, SetThread(s, c, t),
           t.stage \in {"idle", "read"}, UNCHANGED <<rows, shown, repeated, excused>>
    PROVE  Accounts'
  <1>1. \A q \in Senders, d \in Chats : q # s \/ d # c => thread'[q][d] = thread[q][d]
    BY ThreadMoves DEF QueueInv
  <1>2. ASSUME NEW m \in Messages \ excused'
        PROVE  AccountOf(m)'
    <2>1. AccountOf(m) /\ Chat[m] \in Chats
      BY DEF Accounts, Chats
    <2>2. \A q \in Senders : Holds(q, m)' => Holds(q, m) /\ thread'[q][Chat[m]] = thread[q][Chat[m]]
      BY <1>1, <2>1, HoldsMoves DEF HeldStages
    <2> QED
      BY <2>1, <2>2, LeftAlone
  <1> QED
    BY <1>2 DEF Accounts, RepeatsAreExcused

LEMMA IdleStepsAccount ==
    ASSUME QueueInv, Accounts, NEW s \in Senders, NEW c \in Chats,
           GiveUpForNow(s, c) \/ ReadRow(s, c) \/ NotRecorded(s, c) \/ ThreadFails(s, c)
    PROVE  Accounts'
  <1>1. UNCHANGED <<rows, shown, repeated, excused>>
    BY DEF GiveUpForNow, ReadRow, NotRecorded, ThreadFails
  <1>2. PICK t \in AThread : SetThread(s, c, t) /\ t.stage \in {"idle", "read"}
    BY IdleStepsMove
  <1> QED
    BY <1>1, <1>2, LetsGoAccounts

\* A step of a thread with a row: all other messages are left alone.
LEMMA OthersAreLeftAlone ==
    ASSUME QueueInv, Accounts, NEW s \in Senders, NEW c \in Chats, NEW t \in AThread, SetThread(s, c, t),
           NEW m \in Messages, t.stage # "idle" => t.row = m,
           excused \subseteq excused',
           \A n \in Messages : n # m => rows'[n] = rows[n] /\ shown'[n] = shown[n],
           RepeatsAreExcused',
           m \notin excused' => AccountOf(m)'
    PROVE  Accounts'
  <1>1. /\ thread'[s][c] = t
        /\ \A q \in Senders, d \in Chats : q # s \/ d # c => thread'[q][d] = thread[q][d]
    BY ThreadMoves DEF QueueInv
  <1>2. ASSUME NEW n \in Messages \ excused', n # m
        PROVE  AccountOf(n)'
    <2>1. AccountOf(n) /\ Chat[n] \in Chats
      BY DEF Accounts, Chats
    <2>2. \A q \in Senders : Holds(q, n)' => Holds(q, n) /\ thread'[q][Chat[n]] = thread[q][Chat[n]]
      <3> SUFFICES ASSUME NEW q \in Senders, Holds(q, n)'
                   PROVE  Holds(q, n) /\ thread'[q][Chat[n]] = thread[q][Chat[n]]
        OBVIOUS
      <3>1. ~(q = s /\ Chat[n] = c)
        BY <1>2, HoldsMoves DEF HeldStages
      <3> QED
        BY <1>1, <2>1, <3>1, HoldsMoves
    <2> QED
      BY <1>2, <2>1, <2>2, LeftAlone
  <1> QED
    BY <1>2 DEF Accounts

\* The one holder of a row that is in flight has its account.
LEMMA TheHolderKnows ==
    ASSUME QueueInv, NEW s \in Senders, NEW c \in Chats, NEW t \in AThread, SetThread(s, c, t),
           NEW m \in Messages, Chat[m] = c, \A q \in Senders : Holds(q, m) => q = s,
           rows'[m].status = "flight",
           t.stage = "send" => rows'[m].known \subseteq t.known /\ t.known \subseteq t.gone /\ t.gone = shown'[m],
           t.stage = "reset" => rows'[m].known \subseteq t.known /\ t.known = shown'[m]
    PROVE  AccountOf(m)'
  <1>1. thread'[s][Chat[m]] = t
    BY ThreadMoves DEF QueueInv
  <1>2. \A q \in Senders : Holds(q, m)' => q = s
    BY HoldsMoves
  <1> QED
    BY <1>1, <1>2 DEF AccountOf, SoFar

LEMMA AttemptGoesOn ==
    ASSUME NEW t \in AThread, NEW gone, Attempt(t, gone).stage = "send"
    PROVE  Attempt(t, gone).known = t.known /\ Attempt(t, gone).gone = gone
  BY DEF Attempt, Over, At, AThread

LEMMA MarkAccounts ==
    ASSUME QueueInv, Accounts, NEW s \in Senders, NEW c \in Chats, mark_processing(s, c)
    PROVE  Accounts'
  <1> DEFINE t == thread[s][c]
             u == Attempt(t, t.known)
  <1>1. PICK m \in Messages :
            m = t.row /\ t \in AThread /\ t.stage = "read" /\ Chat[m] = c /\ rows[m] \in ARow
    BY InHand DEF mark_processing, Stages
  <1>2. CASE rows[m].status # "pending"
    <2>1. SetThread(s, c, Waiting(t.todo)) /\ UNCHANGED <<rows, shown, repeated, excused>>
      BY <1>1, <1>2 DEF mark_processing, NextRow
    <2>2. Waiting(t.todo) \in AThread /\ Waiting(t.todo).stage = "idle"
      BY <1>1, WaitingIsAThread DEF Waiting, At, AThread
    <2> QED
      BY <2>1, <2>2, LetsGoAccounts
  <1>3. CASE rows[m].status = "pending"
    <2>1. /\ rows' = [rows EXCEPT ![m] = [rows[m] EXCEPT !.status = "flight", !.age = 0]]
          /\ SetThread(s, c, u) /\ UNCHANGED <<shown, repeated>>
          /\ excused' = IF t.known = rows[m].known THEN excused ELSE excused \cup {m}
      BY <1>1, <1>3 DEF mark_processing, SetRow
    <2>2. /\ rows'[m].status = "flight" /\ rows'[m].known = rows[m].known
          /\ \A n \in Messages : n # m => rows'[n] = rows[n]
      BY <1>1, <2>1, StateTypes DEF ARow
    <2>3. /\ u \in AThread /\ u.row = m /\ u.stage \in {"send", "record"}
          /\ u.stage = "send" => u.known = t.known /\ u.gone = t.known
      <3>1. t.known \in SUBSET Nat
        BY <1>1 DEF AThread
      <3> QED
        BY <1>1, <3>1, AttemptType, AttemptGoesOn
    <2> HIDE DEF u
    <2>4. m \notin excused' => AccountOf(m)'
      <3> SUFFICES ASSUME m \notin excused' PROVE AccountOf(m)'
        OBVIOUS
      <3>1. AccountOf(m) /\ t.known = rows[m].known
        BY <1>1, <2>1 DEF Accounts
      <3>2. shown'[m] = t.known /\ \A q \in Senders : ~Holds(q, m)
        BY <1>3, <2>1, <3>1 DEF AccountOf
      <3>3. /\ u.stage = "send" => rows'[m].known \subseteq u.known /\ u.known \subseteq u.gone /\ u.gone = shown'[m]
            /\ u.stage # "reset"
        BY <2>2, <2>3, <3>1, <3>2
      <3> HIDE DEF t
      <3> QED
        BY <1>1, <2>1, <2>2, <2>3, <3>2, <3>3, TheHolderKnows
    <2>5. RepeatsAreExcused' /\ excused \subseteq excused'
      BY <2>1 DEF Accounts, RepeatsAreExcused
    <2>6. \A n \in Messages : n # m => rows'[n] = rows[n] /\ shown'[n] = shown[n]
      BY <2>1, <2>2
    <2> HIDE DEF t
    <2> QED
      BY <2>1, <2>3, <2>4, <2>5, <2>6, OthersAreLeftAlone
  <1> QED
    BY <1>2, <1>3

\* A thread that sends a message nothing excuses is its one holder, and has sent what was shown.
LEMMA TheSenderKnows ==
    ASSUME QueueInv, Accounts, NEW s \in Senders, NEW c \in Chats, AtWork(s, c, "send"),
           NEW m \in Messages, m = thread[s][c].row, m \notin excused
    PROVE  /\ rows[m].status = "flight" /\ \A q \in Senders : Holds(q, m) => q = s
           /\ rows[m].known \subseteq thread[s][c].known
           /\ thread[s][c].known \subseteq thread[s][c].gone /\ thread[s][c].gone = shown[m]
  <1>1. thread[s][c].stage = "send" /\ Chat[m] = c /\ Holds(s, m)
    BY InHand DEF Stages
  <1>2. AccountOf(m)
    BY DEF Accounts
  <1> QED
    BY <1>1, <1>2 DEF AccountOf, SoFar

\* A call to Telegram, whatever comes of it.
LEMMA CallAccounts ==
    ASSUME QueueInv, Accounts, NEW s \in Senders, NEW c \in Chats, AtWork(s, c, "send"),
           NEW m \in Messages, m = thread[s][c].row,
           NEW t \in AThread, SetThread(s, c, t), t.row = m,
           \A n \in Messages : n # m => shown'[n] = shown[n],
           rows' = rows, repeated' = repeated, excused \subseteq excused',
           m \notin excused' =>
               /\ t.stage = "send" => thread[s][c].known \subseteq t.known /\ t.known \subseteq t.gone /\ t.gone = shown'[m]
               /\ t.stage = "reset" => thread[s][c].known \subseteq t.known /\ t.known = shown'[m]
    PROVE  Accounts'
  <1>1. Chat[m] = c
    BY InHand DEF Stages
  <1>2. RepeatsAreExcused'
    BY DEF Accounts, RepeatsAreExcused
  <1>3. m \notin excused' => AccountOf(m)'
    <2> SUFFICES ASSUME m \notin excused' PROVE AccountOf(m)'
      OBVIOUS
    <2>1. /\ rows'[m].status = "flight" /\ \A q \in Senders : Holds(q, m) => q = s
          /\ rows'[m].known \subseteq thread[s][c].known
      BY TheSenderKnows
    <2>2. /\ t.stage = "send" => rows'[m].known \subseteq t.known /\ t.known \subseteq t.gone /\ t.gone = shown'[m]
          /\ t.stage = "reset" => rows'[m].known \subseteq t.known /\ t.known = shown'[m]
      BY <2>1
    <2> QED
      BY <1>1, <2>1, <2>2, TheHolderKnows
  <1> QED
    BY <1>2, <1>3, OthersAreLeftAlone

\* What the sender has not sent has not been shown, or the message is excused.
LEMMA NotYetShown ==
    ASSUME QueueInv, Accounts, NEW s \in Senders, NEW c \in Chats, AtWork(s, c, "send"),
           NEW m \in Messages, m = thread[s][c].row,
           NEW i \in Pieces(m), IsNext(i, thread[s][c]), Shows(m, i)
    PROVE  /\ repeated' = repeated /\ i \in Nat /\ shown'[m] = shown[m] \cup {i}
           /\ \A n \in Messages : n # m => shown'[n] = shown[n]
  <1>1. i \notin thread[s][c].gone /\ i \in Nat
    BY QueueConstants DEF IsNext, Pieces
  <1>2. m \notin excused => i \notin shown[m]
    BY <1>1, TheSenderKnows
  <1> QED
    BY <1>1, <1>2 DEF Shows, QueueInv, TypeOK

LEMMA DeliveredAccounts ==
    ASSUME QueueInv, Accounts, NEW s \in Senders, NEW c \in Chats, Delivered(s, c)
    PROVE  Accounts'
  <1> DEFINE t == thread[s][c]
  <1>1. PICK m \in Messages : m = t.row /\ t \in AThread /\ t.stage = "send" /\ AtWork(s, c, "send")
    BY InHand DEF Delivered, Stages
  <1>2. PICK i \in Pieces(m) :
          /\ IsNext(i, t) /\ Shows(m, i)
          /\ SetThread(s, c, Attempt([t EXCEPT !.known = IF i = 0 THEN @ \cup {0} ELSE @], t.gone \cup {i}))
    BY <1>1 DEF Delivered
  <1> DEFINE b == [t EXCEPT !.known = IF i = 0 THEN @ \cup {0} ELSE @]
             u == Attempt(b, t.gone \cup {i})
  <1>3. /\ repeated' = repeated /\ i \in Nat /\ shown'[m] = shown[m] \cup {i}
        /\ \A n \in Messages : n # m => shown'[n] = shown[n]
    BY <1>1, <1>2, NotYetShown
  <1>4. /\ b \in AThread /\ b.stage = "send" /\ b.row = m
        /\ t.known \subseteq b.known /\ b.known \subseteq t.known \cup {i}
    BY <1>1, <1>3 DEF AThread
  <1>5. t.gone \cup {i} \in SUBSET Nat
    BY <1>1, <1>3 DEF AThread
  <1>6. SetThread(s, c, u) /\ rows' = rows /\ excused' = excused
    BY <1>2 DEF Delivered
  <1> HIDE DEF b
  <1>7. /\ u \in AThread /\ u.row = m /\ u.stage \in {"send", "record"}
        /\ u.stage = "send" => u.known = b.known /\ u.gone = t.gone \cup {i}
    <2> DEFINE g == t.gone \cup {i}
    <2>1. g \in SUBSET Nat
      BY <1>5
    <2> HIDE DEF g
    <2>2. /\ Attempt(b, g) \in AThread /\ Attempt(b, g).row = m /\ Attempt(b, g).stage \in {"send", "record"}
          /\ Attempt(b, g).stage = "send" => Attempt(b, g).known = b.known /\ Attempt(b, g).gone = g
      BY <1>4, <2>1, AttemptType, AttemptGoesOn
    <2> QED
      BY <2>2 DEF g
  <1> HIDE DEF u
  <1>8. m \notin excused' => t.known \subseteq t.gone /\ t.gone = shown[m]
    BY <1>1, <1>6, TheSenderKnows
  <1>9. m \notin excused' /\ u.stage = "send" =>
            t.known \subseteq u.known /\ u.known \subseteq u.gone /\ u.gone = shown'[m]
    BY <1>3, <1>4, <1>7, <1>8
  <1> QED
    BY <1>1, <1>3, <1>6, <1>7, <1>9, CallAccounts

LEMMA FailuresAccount ==
    ASSUME QueueInv, Accounts, NEW s \in Senders, NEW c \in Chats, Refused(s, c) \/ AnswerLost(s, c)
    PROVE  Accounts'
  <1> DEFINE t == thread[s][c]
             u == FailedAttempt(t)
  <1>1. PICK m \in Messages : m = t.row /\ t \in AThread /\ t.stage = "send" /\ AtWork(s, c, "send")
    BY InHand DEF Refused, AnswerLost, Stages
  <1>2. SetThread(s, c, u) /\ rows' = rows /\ excused \subseteq excused'
    BY DEF Refused, AnswerLost
  <1>3. u \in AThread /\ u.row = m /\ u.stage \in {"send", "fail"}
    BY <1>1, FailedAttemptType
  <1>4. u.stage = "send" => u.known = t.known /\ u.gone = t.known
    BY <1>1 DEF FailedAttempt, Over, At, AThread
  <1> HIDE DEF u
  <1>5. CASE Refused(s, c)
    <2>1. shown' = shown /\ repeated' = repeated /\ (m \notin excused' => m \notin excused /\ t.gone = t.known)
      BY <1>1, <1>5 DEF Refused
    <2>2. m \notin excused' => t.gone = shown'[m]
      BY <1>1, <2>1, TheSenderKnows
    <2>3. m \notin excused' /\ u.stage = "send" =>
              t.known \subseteq u.known /\ u.known \subseteq u.gone /\ u.gone = shown'[m]
      BY <1>4, <2>1, <2>2
    <2> QED
      BY <1>1, <1>2, <1>3, <2>1, <2>3, CallAccounts
  <1>6. CASE AnswerLost(s, c)
    <2>1. PICK i \in Pieces(m) : IsNext(i, t) /\ Shows(m, i)
      BY <1>1, <1>6 DEF AnswerLost
    <2>2. repeated' = repeated /\ \A n \in Messages : n # m => shown'[n] = shown[n]
      BY <1>1, <2>1, NotYetShown
    <2>3. m \in excused'
      BY <1>1, <1>6 DEF AnswerLost
    <2> QED
      BY <1>1, <1>2, <1>3, <2>2, <2>3, CallAccounts
  <1> QED
    BY <1>5, <1>6

LEMMA RateLimitAccounts ==
    ASSUME QueueInv, Accounts, NEW s \in Senders, NEW c \in Chats, RateLimited(s, c)
    PROVE  Accounts'
  <1> DEFINE t == thread[s][c]
  <1>1. PICK m \in Messages : m = t.row /\ t \in AThread /\ t.stage = "send" /\ AtWork(s, c, "send")
    BY InHand DEF RateLimited, Stages
  <1>2. rows' = rows /\ shown' = shown /\ repeated' = repeated /\ excused' = excused
    BY DEF RateLimited
  <1>3. m \notin excused' => t.known \subseteq t.gone /\ t.gone = shown'[m]
    BY <1>1, <1>2, TheSenderKnows
  <1>4. CASE s \in Hands /\ t.tries + 1 < RetryCount
    <2> DEFINE u == [t EXCEPT !.known = t.gone, !.tries = t.tries + 1]
    <2>1. t.tries + 1 \in 0..(RetryCount - 1) /\ t.gone \in SUBSET Nat
      BY <1>1, <1>4, QueueConstants DEF AThread
    <2>2. SetThread(s, c, u)
      BY <1>4 DEF RateLimited
    <2>3. u \in AThread /\ u.row = m /\ u.stage = "send" /\ u.known = t.gone /\ u.gone = t.gone
      BY <1>1, <2>1 DEF AThread
    <2> HIDE DEF u
    <2>4. m \notin excused' => t.known \subseteq u.known /\ u.known \subseteq u.gone /\ u.gone = shown'[m]
      BY <1>3, <2>3
    <2> QED
      BY <1>1, <1>2, <2>2, <2>3, <2>4, CallAccounts
  <1>5. CASE ~(s \in Hands /\ t.tries + 1 < RetryCount)
    <2> DEFINE u == At("reset", t.todo, t.row, t.gone)
    <2>1. SetThread(s, c, u)
      BY <1>5 DEF RateLimited
    <2>2. u \in AThread /\ u.row = m /\ u.stage = "reset" /\ u.known = t.gone
      BY <1>1, QueueConstants DEF AThread, At, Stages
    <2> HIDE DEF u
    <2>3. m \notin excused' => t.known \subseteq u.known /\ u.known = shown'[m]
      BY <1>3, <2>2
    <2> QED
      BY <1>1, <1>2, <2>1, <2>2, <2>3, CallAccounts
  <1> QED
    BY <1>4, <1>5

\* What is merged into a row that knew no more is exactly what is told of.
LEMMA MergedIsKnown ==
    ASSUME NEW old \in SUBSET Nat, NEW known \in SUBSET Nat, old \subseteq known
    PROVE  Merged(old, known) = known
  BY DEF Merged

LEMMA WritesAccount ==
    ASSUME QueueInv, Accounts, NEW s \in Senders, NEW c \in Chats,
           record_sent(s, c) \/ mark_failed(s, c) \/ reset_pending(s, c)
    PROVE  Accounts'
  <1> DEFINE t == thread[s][c]
  <1>1. PICK m \in Messages : /\ m = t.row /\ t \in AThread /\ t.todo \in SUBSET Messages
                              /\ Chat[m] = c /\ rows[m] \in ARow /\ Holds(s, m)
    BY InHand DEF record_sent, mark_failed, reset_pending, Stages, AThread
  <1>2. PICK todo \in SUBSET Messages : SetThread(s, c, Waiting(todo))
    BY <1>1 DEF record_sent, mark_failed, reset_pending, NextRow, Idle
  <1>3. UNCHANGED <<shown, repeated, excused>>
    BY DEF record_sent, mark_failed, reset_pending
  <1>4. /\ \A n \in Messages : n # m => rows'[n] = rows[n]
        /\ \/ rows'[m].status \in {"sent", "failed"}
           \/ /\ rows'[m].status = "pending" /\ t.stage = "reset"
              /\ rows'[m].known = Merged(rows[m].known, t.known)
    <2>1. CASE record_sent(s, c)
      BY <1>1, <2>1, StateTypes DEF record_sent, SetRow, ARow
    <2>2. CASE mark_failed(s, c)
      BY <1>1, <2>2, StateTypes DEF mark_failed, SetRow, ARow
    <2>3. CASE reset_pending(s, c)
      BY <1>1, <2>3, StateTypes DEF reset_pending, SetRow, ARow, AtWork
    <2> QED
      BY <2>1, <2>2, <2>3
  <1>5. Waiting(todo) \in AThread /\ Waiting(todo).stage = "idle"
    BY WaitingIsAThread DEF Waiting, At
  <1>6. m \notin excused' => AccountOf(m)'
    <2> SUFFICES ASSUME m \notin excused' PROVE AccountOf(m)'
      OBVIOUS
    <2>1. AccountOf(m)
      BY <1>1, <1>3 DEF Accounts
    <2>2. /\ \A q \in Senders : Holds(q, m) => q = s
          /\ t.stage = "reset" => rows[m].known \subseteq t.known /\ t.known = shown[m]
      BY <1>1, <2>1 DEF AccountOf, SoFar
    <2>3. rows[m].known \in SUBSET Nat /\ t.known \in SUBSET Nat
      BY <1>1 DEF ARow, AThread
    <2>4. rows'[m].status \in {"none", "pending"} => shown'[m] = rows'[m].known
      BY <1>3, <1>4, <2>2, <2>3, MergedIsKnown
    <2>5. \A q \in Senders : ~Holds(q, m)'
      BY <1>1, <1>2, <1>5, <2>2, HoldsMoves DEF HeldStages
    <2> QED
      BY <2>4, <2>5 DEF AccountOf
  <1>7. RepeatsAreExcused' /\ excused \subseteq excused'
    BY <1>3 DEF Accounts, RepeatsAreExcused
  <1> QED
    BY <1>1, <1>2, <1>3, <1>4, <1>5, <1>6, <1>7, OthersAreLeftAlone

LEMMA AccountsStep == QueueInv /\ Accounts /\ [Next]_vars => Accounts'
  <1> SUFFICES ASSUME QueueInv, Accounts, [Next]_vars PROVE Accounts'
    OBVIOUS
  <1>1. CASE UNCHANGED vars
    BY <1>1 DEF vars, Accounts, AccountOf, SoFar, Holds, RepeatsAreExcused
  <1>2. CASE \E m \in Messages : Queue(m)
    BY <1>2, QueueAccounts
  <1>3. CASE \/ \E p \in Passes : StartPass(p) \/ Fetch(p)
             \/ \E h \in Hands, m \in Messages : StartOne(h, m)
             \/ \E s \in Senders : EndPass(s) \/ Killed(s)
             \/ \E c \in Chats : PauseEnds(c)
             \/ Tick
    BY <1>3, ProcessAccounts
  <1>4. CASE \E s \in Senders, c \in Chats : ThreadWorks(s, c) \/ RateLimited(s, c) \/ StoreFails(s, c)
    <2>1. PICK s \in Senders, c \in Chats : ThreadWorks(s, c) \/ RateLimited(s, c) \/ StoreFails(s, c)
      BY <1>4
    <2> QED
      BY <2>1, IdleStepsAccount, MarkAccounts, DeliveredAccounts, FailuresAccount, RateLimitAccounts, WritesAccount
      DEF ThreadWorks, StoreFails
  <1> QED
    BY <1>1, <1>2, <1>3, <1>4 DEF Next

\* A chat sees a piece twice only where the code says it may, for any number of messages, pieces, passes and
\* hand-run senders: a rate limit, a resumed send and a call refused before a part landed cost no duplicate
\* (send_queue.py:266-279, api.py:146-153).
THEOREM NoUnexcusedRepeat == Spec => []RepeatsAreExcused
  <1>1. Init => Accounts
    BY DEF Init, Accounts, AccountOf, RepeatsAreExcused, Holds, Idle, Waiting, At, Chats
  <1>2. Accounts => RepeatsAreExcused
    BY DEF Accounts
  <1> QED
    BY <1>1, <1>2, AccountsStep, QueueInvariant, PTL DEF Spec
-----------------------------------------------------------------------------
(***************************************************************************)
(* Order.  What a thread has to do is the rows it was given and the one it *)
(* is at.  A pass that has the queue to itself is given, of each chat, the *)
(* oldest rows, and leaves none of them behind before a younger one.       *)
(***************************************************************************)
WorkOf(t) == t.todo \cup (IF t.stage = "idle" THEN {} ELSE {t.row})

OldestFirst(c, t) ==
    /\ \A m \in WorkOf(t), n \in Messages :
           n < m /\ Chat[n] = c /\ rows[n].status \in {"none", "pending"} => n \in WorkOf(t)
    /\ t.stage \in HeldStages => rows[t.row].status = "flight"

QueuedInOrder ==
    \A m, n \in Messages : n < m /\ rows[m].status # "none" => rows[n].status # "none"

WorkIsQueued ==
    \A s \in Senders, c \in Chats :
        /\ pass[s].phase # "sending" => thread[s][c].todo = {}
        /\ \A m \in WorkOf(thread[s][c]) : rows[m].status # "none"
        /\ thread[s][c].stage # "idle" => \A n \in thread[s][c].todo : thread[s][c].row < n

AloneInOrder ==
    \A p \in Passes : pass[p].alone =>
        /\ \A q \in Senders : Up(q) => q = p
        /\ \A c \in Chats : OldestFirst(c, thread[p][c])

InTurn == QueuedInOrder /\ WorkIsQueued /\ AloneInOrder

\* What a pass is given of a chat is the oldest that is pending: of two rows it is given the older one too.
LEMMA FetchedInOrder ==
    ASSUME NEW m \in fetch_pending, NEW n \in Pending, n < m, Chat[n] = Chat[m]
    PROVE  n \in fetch_pending
  <1> DEFINE Rank(k) == {j \in Pending : Chat[j] = Chat[k] /\ j <= k}
  <1>1. Pending \subseteq Messages /\ IsFiniteSet(Pending) /\ Pending \subseteq Nat /\ m \in Pending
    <2>1. Pending \subseteq Messages
      BY DEF Pending
    <2> QED
      BY <2>1, FS_Subset, QueueConstants DEF fetch_pending, candidates
  <1>2. \A k \in Pending : IsFiniteSet(Rank(k)) /\ chat_rank(k) \in Nat
    <2> SUFFICES ASSUME NEW k \in Pending PROVE IsFiniteSet(Rank(k)) /\ chat_rank(k) \in Nat
      OBVIOUS
    <2>1. Rank(k) \subseteq Pending
      OBVIOUS
    <2>2. IsFiniteSet(Rank(k))
      BY <1>1, <2>1, FS_Subset
    <2> QED
      BY <2>2, FS_CardinalityType DEF chat_rank
  <1>3. n \in Nat /\ m \in Nat
    BY <1>1
  <1>4. chat_rank(n) <= chat_rank(m)
    <2>1. Rank(n) \subseteq Rank(m)
      <3> SUFFICES ASSUME NEW j \in Pending, Chat[j] = Chat[n], j <= n PROVE Chat[j] = Chat[m] /\ j <= m
        OBVIOUS
      <3>1. j \in Nat
        BY <1>1
      <3> QED
        BY <1>3, <3>1
    <2>2. Cardinality(Rank(n)) <= Cardinality(Rank(m))
      BY <1>1, <1>2, <2>1, FS_Subset
    <2> QED
      BY <2>2 DEF chat_rank
  <1>5. m \in candidates /\ Cardinality(InFront(m)) < Limit
    BY DEF fetch_pending
  <1>6. n \in candidates
    <2>1. chat_rank(m) <= PerChat
      BY <1>5 DEF candidates
    <2>2. chat_rank(m) \in Nat /\ chat_rank(n) \in Nat /\ PerChat \in Nat
      BY <1>1, <1>2, QueueConstants
    <2>3. chat_rank(n) <= PerChat
      BY <1>4, <2>1, <2>2
    <2> QED
      BY <2>3 DEF candidates
  <1>7. InFront(n) \subseteq InFront(m)
    <2> SUFFICES ASSUME NEW j \in InFront(n) PROVE j \in InFront(m)
      OBVIOUS
    <2>1. j \in Nat /\ chat_rank(j) \in Nat /\ chat_rank(n) \in Nat /\ chat_rank(m) \in Nat
      BY <1>1, <1>2 DEF InFront, candidates
    <2> QED
      BY <1>3, <1>4, <2>1 DEF InFront
  <1>8. IsFiniteSet(InFront(m))
    <2>1. InFront(m) \subseteq Pending
      BY DEF InFront, candidates
    <2> QED
      BY <1>1, <2>1, FS_Subset
  <1>9. Cardinality(InFront(n)) <= Cardinality(InFront(m)) /\ Cardinality(InFront(n)) \in Nat
        /\ Cardinality(InFront(m)) \in Nat
    BY <1>7, <1>8, FS_Subset, FS_CardinalityType
  <1> QED
    BY <1>5, <1>6, <1>9, QueueConstants DEF fetch_pending

LEMMA InitInTurn == Init => InTurn
  <1> SUFFICES ASSUME Init PROVE InTurn
    OBVIOUS
  <1>1. \A s \in Senders, c \in Chats : thread[s][c] = Idle
    BY DEF Init
  <1>2. Idle.stage = "idle" /\ Idle.todo = {} /\ WorkOf(Idle) = {}
    BY DEF Idle, Waiting, At, WorkOf
  <1>3. WorkIsQueued
    BY <1>1, <1>2 DEF WorkIsQueued
  <1>4. QueuedInOrder
    BY DEF Init, QueuedInOrder
  <1>5. AloneInOrder
    <2>1. \A p \in Passes : p \in Senders /\ pass[p] = Off /\ ~Off.alone
      BY DEF Init, Senders, Off
    <2> QED
      BY <2>1 DEF AloneInOrder
  <1> QED
    BY <1>3, <1>4, <1>5 DEF InTurn

\* The steps of one thread.
LEMMA ThreadTurn ==
    ASSUME QueueInv, InTurn, NEW s \in Senders, NEW c \in Chats, NEW t \in AThread, SetThread(s, c, t),
           pass[s].phase = "sending",
           NEW m \in Messages, Chat[m] = c, rows[m].status # "none", rows'[m].status # "none",
           \A n \in Messages : n # m => rows'[n].status = rows[n].status,
           \A q \in Senders : pass'[q].phase = pass[q].phase /\ pass'[q].alone = pass[q].alone,
           t.todo \subseteq thread[s][c].todo,
           t.stage # "idle" => t.row \in WorkOf(thread[s][c]) /\ \A n \in t.todo : t.row < n,
           \/ WorkOf(t) = {} /\ t.stage = "idle"
           \/ s \in Passes /\ pass[s].alone =>
                  /\ rows'[m].status = "pending" => rows[m].status = "pending"
                  /\ \A n \in WorkOf(thread[s][c]) : n \in WorkOf(t) \/ rows'[n].status \notin {"none", "pending"}
                  /\ t.stage \in HeldStages => rows'[t.row].status = "flight"
    PROVE  InTurn'
  <1>1. /\ thread'[s][c] = t
        /\ \A q \in Senders, d \in Chats : q # s \/ d # c => thread'[q][d] = thread[q][d]
    BY ThreadMoves DEF QueueInv
  <1>2. WorkOf(t) \subseteq WorkOf(thread[s][c]) /\ WorkOf(thread[s][c]) \subseteq Messages
    BY DEF WorkOf, QueueInv, TypeOK, ThreadsMakeSense
  <1>3. \A n \in Messages : rows'[n].status = "none" <=> rows[n].status = "none"
    OBVIOUS
  <1>4. QueuedInOrder'
    BY <1>3 DEF InTurn, QueuedInOrder
  <1>5. WorkIsQueued'
    <2> SUFFICES ASSUME NEW q \in Senders, NEW d \in Chats
                 PROVE  /\ pass'[q].phase # "sending" => thread'[q][d].todo = {}
                        /\ \A n \in WorkOf(thread'[q][d]) : rows'[n].status # "none"
                        /\ thread'[q][d].stage # "idle" => \A n \in thread'[q][d].todo : thread'[q][d].row < n
      BY DEF WorkIsQueued, WorkOf
    <2>1. WorkOf(thread[q][d]) \subseteq Messages
      BY DEF WorkOf, QueueInv, TypeOK, ThreadsMakeSense
    <2>2. CASE q = s /\ d = c
      BY <1>1, <1>2, <1>3, <2>2 DEF InTurn, WorkIsQueued
    <2>3. CASE ~(q = s /\ d = c)
      <3>1. thread'[q][d] = thread[q][d] /\ pass'[q].phase = pass[q].phase
        BY <1>1, <2>3
      <3> QED
        BY <1>3, <2>1, <3>1 DEF InTurn, WorkIsQueued
    <2> QED
      BY <2>2, <2>3
  <1>6. AloneInOrder'
    <2> SUFFICES ASSUME NEW p \in Passes, pass'[p].alone
                 PROVE  /\ \A q \in Senders : Up(q)' => q = p
                        /\ \A d \in Chats : OldestFirst(d, thread[p][d])'
      BY DEF AloneInOrder
    <2>1. p \in Senders /\ pass[p].alone
      BY DEF Senders
    <2>2. /\ \A q \in Senders : Up(q) => q = p
          /\ \A d \in Chats : OldestFirst(d, thread[p][d])
      BY <2>1 DEF InTurn, AloneInOrder
    <2>3. p = s
      BY <2>2 DEF Up
    <2>4. \A q \in Senders : Up(q)' => q = p
      BY <2>2 DEF Up
    <2>5. ASSUME NEW d \in Chats
          PROVE  OldestFirst(d, thread[p][d])'
      <3>1. CASE d # c
        <4>1. thread'[p][d] = thread[p][d]
          BY <1>1, <2>1, <3>1
        <4>2. \A n \in Messages : Chat[n] = d => rows'[n].status = rows[n].status
          BY <3>1
        <4>3. thread[p][d].stage \in HeldStages => thread[p][d].row \in Messages /\ Chat[thread[p][d].row] = d
          BY <2>1 DEF HeldStages, QueueInv, ThreadsMakeSense
        <4> QED
          BY <2>2, <4>1, <4>2, <4>3 DEF OldestFirst, WorkOf
      <3>2. CASE d = c
        <4>1. thread'[p][d] = t /\ OldestFirst(c, thread[s][c])
          BY <1>1, <2>2, <2>3, <3>2
        <4>2. CASE WorkOf(t) = {} /\ t.stage = "idle"
          BY <3>2, <4>1, <4>2 DEF OldestFirst, HeldStages, WorkOf
        <4>3. CASE /\ rows'[m].status = "pending" => rows[m].status = "pending"
                   /\ \A n \in WorkOf(thread[s][c]) : n \in WorkOf(t) \/ rows'[n].status \notin {"none", "pending"}
                   /\ t.stage \in HeldStages => rows'[t.row].status = "flight"
          <5>1. ASSUME NEW k \in WorkOf(t), NEW n \in Messages, n < k, Chat[n] = c,
                       rows'[n].status \in {"none", "pending"}
                PROVE  n \in WorkOf(t)
            <6>1. rows[n].status \in {"none", "pending"}
              BY <4>3, <5>1
            <6>2. n \in WorkOf(thread[s][c])
              BY <1>2, <4>1, <5>1, <6>1 DEF OldestFirst
            <6> QED
              BY <4>3, <5>1, <6>2
          <5> QED
            BY <3>2, <4>1, <4>3, <5>1 DEF OldestFirst, WorkOf
        <4> QED
          BY <2>1, <2>3, <4>2, <4>3
      <3> QED
        BY <3>1, <3>2
    <2> QED
      BY <2>4, <2>5
  <1> QED
    BY <1>4, <1>5, <1>6 DEF InTurn

LEMMA WorkType ==
    ASSUME QueueInv, InTurn, NEW s \in Senders, NEW c \in Chats, NEW m \in WorkOf(thread[s][c])
    PROVE  m \in Messages /\ Chat[m] = c /\ rows[m].status # "none"
  BY DEF WorkOf, QueueInv, TypeOK, ThreadsMakeSense, InTurn, WorkIsQueued

\* While a pass is alone, the row in its hands is in flight.
LEMMA AloneInFlight ==
    ASSUME QueueInv, InTurn, NEW s \in Senders, NEW c \in Chats, s \in Passes, pass[s].alone,
           thread[s][c].stage \in HeldStages
    PROVE  rows[thread[s][c].row].status = "flight"
  BY DEF InTurn, AloneInOrder, OldestFirst

\* The thread gives up what it has to do.
LEMMA DropsAllTurn ==
    ASSUME QueueInv, InTurn, NEW s \in Senders, NEW c \in Chats, GiveUpForNow(s, c) \/ ThreadFails(s, c)
    PROVE  InTurn'
  <1>1. SetThread(s, c, Idle) /\ rows' = rows /\ pass' = pass /\ pass[s].phase = "sending"
    BY DEF GiveUpForNow, ThreadFails, AtNext, AtWork
  <1>2. PICK m \in WorkOf(thread[s][c]) : TRUE
    BY DEF GiveUpForNow, ThreadFails, AtNext, AtWork, WorkOf
  <1>3. m \in Messages /\ Chat[m] = c /\ rows[m].status # "none"
    BY WorkType
  <1>4. Idle \in AThread /\ Idle.stage = "idle" /\ Idle.todo = {} /\ WorkOf(Idle) = {}
    BY WaitingIsAThread DEF Idle, Waiting, At, WorkOf
  <1>5. /\ rows'[m].status # "none" /\ Idle.todo \subseteq thread[s][c].todo
        /\ \A n \in Messages : n # m => rows'[n].status = rows[n].status
        /\ \A q \in Senders : pass'[q].phase = pass[q].phase /\ pass'[q].alone = pass[q].alone
    BY <1>1, <1>3, <1>4
  <1> HIDE DEF Idle
  <1> QED
    BY <1>1, <1>3, <1>4, <1>5, ThreadTurn

\* The thread drops the row it is at, which waits no longer, and goes on.
LEMMA GoesOnTurn ==
    ASSUME QueueInv, InTurn, NEW s \in Senders, NEW c \in Chats, NEW m \in Messages, NEW todo,
           m \in WorkOf(thread[s][c]), WorkOf(thread[s][c]) \ {m} = todo, todo \subseteq thread[s][c].todo,
           pass[s].phase = "sending", SetThread(s, c, Waiting(todo)),
           \A n \in Messages : n # m => rows'[n].status = rows[n].status,
           rows'[m].status # "none",
           s \in Passes /\ pass[s].alone => rows'[m].status # "pending",
           pass' = pass
    PROVE  InTurn'
  <1>1. Chat[m] = c /\ rows[m].status # "none" /\ todo \in SUBSET Messages
    BY WorkType DEF QueueInv, TypeOK
  <1> DEFINE t == Waiting(todo)
  <1>2. t \in AThread /\ t.stage = "idle" /\ t.todo = todo /\ WorkOf(t) = todo
    BY <1>1, WaitingIsAThread DEF Waiting, At, WorkOf
  <1>3. \A q \in Senders : pass'[q].phase = pass[q].phase /\ pass'[q].alone = pass[q].alone
    OBVIOUS
  <1>4. s \in Passes /\ pass[s].alone =>
                /\ rows'[m].status = "pending" => rows[m].status = "pending"
                /\ \A n \in WorkOf(thread[s][c]) : n \in WorkOf(t) \/ rows'[n].status \notin {"none", "pending"}
                /\ t.stage \in HeldStages => rows'[t.row].status = "flight"
    BY <1>2 DEF HeldStages
  <1>5. SetThread(s, c, t) /\ t.todo \subseteq thread[s][c].todo
    BY <1>2
  <1> HIDE DEF t
  <1> QED
    BY <1>1, <1>2, <1>3, <1>4, <1>5, ThreadTurn

LEMMA ReadRowTurn ==
    ASSUME QueueInv, InTurn, NEW s \in Senders, NEW c \in Chats, ReadRow(s, c)
    PROVE  InTurn'
  <1>1. PICK m \in thread[s][c].todo :
            /\ \A n \in thread[s][c].todo \ {m} : m < n
            /\ SetThread(s, c, IF rows[m].status = "pending" THEN At("read", thread[s][c].todo \ {m}, m, rows[m].known)
                               ELSE Waiting(thread[s][c].todo \ {m}))
    BY DEF ReadRow
  <1> DEFINE rest == thread[s][c].todo \ {m}
             t == At("read", rest, m, rows[m].known)
  <1>2. pass[s].phase = "sending" /\ thread[s][c].stage = "idle" /\ rows' = rows /\ pass' = pass
    BY DEF ReadRow, AtNext
  <1>3. WorkOf(thread[s][c]) = thread[s][c].todo /\ m \in WorkOf(thread[s][c])
    BY <1>2 DEF WorkOf
  <1>4. m \in Messages /\ Chat[m] = c /\ rows[m].status # "none" /\ rows[m] \in ARow /\ rest \in SUBSET Messages
    BY <1>3, WorkType, StateTypes DEF AThread
  <1>5. /\ rows'[m].status # "none" /\ rest \subseteq thread[s][c].todo
        /\ \A n \in Messages : n # m => rows'[n].status = rows[n].status
        /\ \A q \in Senders : pass'[q].phase = pass[q].phase /\ pass'[q].alone = pass[q].alone
        /\ rows'[m].status = "pending" => rows[m].status = "pending"
    BY <1>2, <1>4
  <1>6. CASE rows[m].status # "pending"
    <2>1. SetThread(s, c, Waiting(rest)) /\ WorkOf(thread[s][c]) \ {m} = rest /\ rows'[m].status # "pending"
      BY <1>1, <1>2, <1>3, <1>6
    <2> HIDE DEF rest
    <2> QED
      BY <1>2, <1>3, <1>4, <1>5, <2>1, GoesOnTurn
  <1>7. CASE rows[m].status = "pending"
    <2>1. SetThread(s, c, t) /\ \A n \in rest : m < n
      BY <1>1, <1>7
    <2>2. WorkOf(thread[s][c]) = rest \cup {m}
      BY <1>3
    <2> HIDE DEF rest
    <2>3. t \in AThread /\ t.stage = "read" /\ t.row = m /\ t.todo = rest
      BY <1>4, QueueConstants DEF At, AThread, ARow, Stages
    <2> HIDE DEF t
    <2>4. WorkOf(t) = WorkOf(thread[s][c]) /\ t.stage \notin HeldStages
      BY <2>2, <2>3 DEF WorkOf, HeldStages
    <2> QED
      BY <1>2, <1>3, <1>4, <1>5, <2>1, <2>3, <2>4, ThreadTurn
  <1> QED
    BY <1>6, <1>7

\* A step in which the thread stays with its row.
LEMMA StaysTurn ==
    ASSUME QueueInv, InTurn, NEW s \in Senders, NEW c \in Chats, NEW t \in AThread, SetThread(s, c, t),
           pass[s].phase = "sending", thread[s][c].stage # "idle",
           NEW m \in Messages, m = thread[s][c].row, t.row = m, t.todo = thread[s][c].todo, t.stage # "idle",
           \A n \in Messages : n # m => rows'[n].status = rows[n].status,
           rows'[m].status # "none", pass' = pass,
           s \in Passes /\ pass[s].alone => rows'[m].status = "flight"
    PROVE  InTurn'
  <1>1. m \in WorkOf(thread[s][c]) /\ WorkOf(t) = WorkOf(thread[s][c])
    BY DEF WorkOf
  <1>2. Chat[m] = c /\ rows[m].status # "none" /\ \A n \in t.todo : t.row < n
    BY <1>1, WorkType DEF InTurn, WorkIsQueued
  <1>3. /\ \A q \in Senders : pass'[q].phase = pass[q].phase /\ pass'[q].alone = pass[q].alone
        /\ t.todo \subseteq thread[s][c].todo
    OBVIOUS
  <1> QED
    BY <1>1, <1>2, <1>3, ThreadTurn

LEMMA MarkTurn ==
    ASSUME QueueInv, InTurn, NEW s \in Senders, NEW c \in Chats, mark_processing(s, c)
    PROVE  InTurn'
  <1> DEFINE t == thread[s][c]
             u == Attempt(t, t.known)
  <1>1. PICK m \in Messages : /\ m = t.row /\ t \in AThread /\ t.stage = "read" /\ rows[m] \in ARow
                              /\ pass[s].phase = "sending"
    BY InHand DEF mark_processing, Stages
  <1>2. m \in WorkOf(t)
    BY <1>1 DEF WorkOf
  <1>3. rows[m].status # "none" /\ pass' = pass
    BY <1>2, WorkType DEF mark_processing
  <1>4. CASE rows[m].status # "pending"
    <2>1. SetThread(s, c, Waiting(t.todo)) /\ rows' = rows
      BY <1>1, <1>4 DEF mark_processing, NextRow
    <2>2. WorkOf(t) \ {m} = t.todo
      BY <1>1, QueueConstants DEF WorkOf, InTurn, WorkIsQueued, AThread
    <2> QED
      BY <1>1, <1>2, <1>3, <1>4, <2>1, <2>2, GoesOnTurn
  <1>5. CASE rows[m].status = "pending"
    <2>1. /\ rows' = [rows EXCEPT ![m] = [rows[m] EXCEPT !.status = "flight", !.age = 0]]
          /\ SetThread(s, c, u)
      BY <1>1, <1>5 DEF mark_processing, SetRow
    <2>2. rows'[m].status = "flight" /\ \A n \in Messages : n # m => rows'[n].status = rows[n].status
      BY <1>1, <2>1, StateTypes DEF ARow
    <2>3. u \in AThread /\ u.row = m /\ u.todo = t.todo /\ u.stage # "idle"
      <3>1. t.known \in SUBSET Nat
        BY <1>1 DEF AThread
      <3> QED
        BY <1>1, <3>1, AttemptType
    <2> HIDE DEF u
    <2> QED
      BY <1>1, <1>3, <2>1, <2>2, <2>3, StaysTurn
  <1> QED
    BY <1>4, <1>5

LEMMA CallTurn ==
    ASSUME QueueInv, InTurn, NEW s \in Senders, NEW c \in Chats,
           Delivered(s, c) \/ Refused(s, c) \/ AnswerLost(s, c) \/ RateLimited(s, c)
    PROVE  InTurn'
  <1> DEFINE t == thread[s][c]
  <1>1. AtWork(s, c, "send")
    BY CallMoves
  <1>2. PICK m \in Messages : m = t.row /\ t.stage = "send" /\ pass[s].phase = "sending"
    BY <1>1, InHand DEF Stages
  <1>3. PICK u \in AThread : SetThread(s, c, u) /\ u.stage \in HeldStages /\ u.row = m /\ u.todo = t.todo
    BY <1>2, CallMoves
  <1>4. rows' = rows /\ pass' = pass
    BY DEF Delivered, Refused, AnswerLost, RateLimited
  <1>5. rows'[m].status # "none"
    <2>1. m \in WorkOf(t)
      BY <1>2 DEF WorkOf
    <2> QED
      BY <1>4, <2>1, WorkType
  <1>6. s \in Passes /\ pass[s].alone => rows'[m].status = "flight"
    BY <1>2, <1>4, AloneInFlight DEF HeldStages
  <1>7. u.stage # "idle" /\ t.stage # "idle" /\ \A n \in Messages : n # m => rows'[n].status = rows[n].status
    BY <1>2, <1>3, <1>4 DEF HeldStages
  <1> QED
    BY <1>2, <1>3, <1>4, <1>5, <1>6, <1>7, StaysTurn

LEMMA EndsTurn ==
    ASSUME QueueInv, InTurn, NEW s \in Senders, NEW c \in Chats,
           record_sent(s, c) \/ NotRecorded(s, c) \/ mark_failed(s, c)
    PROVE  InTurn'
  <1> DEFINE t == thread[s][c]
  <1>1. PICK m \in Messages : /\ m = t.row /\ t \in AThread /\ t.stage \in HeldStages /\ rows[m] \in ARow
                              /\ pass[s].phase = "sending"
    BY InHand DEF record_sent, NotRecorded, mark_failed, Stages, HeldStages
  <1>2. m \in WorkOf(t) /\ WorkOf(t) \ {m} = t.todo
    BY <1>1, QueueConstants DEF WorkOf, HeldStages, InTurn, WorkIsQueued, AThread
  <1>3. SetThread(s, c, Waiting(t.todo)) /\ pass' = pass
    BY DEF record_sent, NotRecorded, mark_failed, NextRow
  <1>4. /\ \A n \in Messages : n # m => rows'[n].status = rows[n].status
        /\ rows'[m].status \in {"sent", "failed"} \/ rows' = rows
    <2>1. CASE record_sent(s, c)
      BY <1>1, <2>1, StateTypes DEF record_sent, SetRow, ARow
    <2>2. CASE mark_failed(s, c)
      BY <1>1, <2>2, StateTypes DEF mark_failed, SetRow, ARow
    <2>3. CASE NotRecorded(s, c)
      BY <2>3 DEF NotRecorded
    <2> QED
      BY <2>1, <2>2, <2>3
  <1>5. rows[m].status # "none"
    BY <1>2, WorkType
  <1>6. s \in Passes /\ pass[s].alone => rows[m].status = "flight"
    BY <1>1, AloneInFlight
  <1>7. rows'[m].status # "none" /\ (s \in Passes /\ pass[s].alone => rows'[m].status # "pending")
    BY <1>4, <1>5, <1>6
  <1> QED
    BY <1>1, <1>2, <1>3, <1>4, <1>7, GoesOnTurn

LEMMA ResetTurn ==
    ASSUME QueueInv, InTurn, NEW s \in Senders, NEW c \in Chats, reset_pending(s, c)
    PROVE  InTurn'
  <1> DEFINE t == thread[s][c]
  <1>1. PICK m \in Messages : /\ m = t.row /\ t.stage = "reset" /\ rows[m] \in ARow /\ Chat[m] = c
                              /\ pass[s].phase = "sending"
    BY InHand DEF reset_pending, Stages
  <1>2. rows[m].status # "none"
    <2>1. m \in WorkOf(t)
      BY <1>1 DEF WorkOf
    <2> QED
      BY <2>1, WorkType
  <1>3. rows'[m].status = "pending" /\ \A n \in Messages : n # m => rows'[n].status = rows[n].status
    BY <1>1, StateTypes DEF reset_pending, SetRow, ARow
  <1>4. \A q \in Senders : pass'[q].phase = pass[q].phase /\ pass'[q].alone = pass[q].alone
    <2>1. pass' = [pass EXCEPT ![s].limited = @ \cup {c}]
      BY DEF reset_pending
    <2> QED
      BY <2>1, StateTypes DEF APass
  <1>5. Idle \in AThread /\ Idle.stage = "idle" /\ Idle.todo = {} /\ WorkOf(Idle) = {} /\ SetThread(s, c, Idle)
    BY WaitingIsAThread DEF Idle, Waiting, At, WorkOf, reset_pending
  <1>6. Idle.todo \subseteq t.todo /\ rows'[m].status # "none"
    BY <1>3, <1>5
  <1> HIDE DEF Idle
  <1> QED
    BY <1>1, <1>2, <1>3, <1>4, <1>5, <1>6, ThreadTurn

\* The steps of a process and of the world.
LEMMA QueueTurn ==
    ASSUME QueueInv, InTurn, NEW m \in Messages, Queue(m)
    PROVE  InTurn'
  <1>1. /\ rows[m].status = "none" /\ rows'[m].status = "pending"
        /\ \A n \in Messages : n # m => rows'[n].status = rows[n].status
        /\ \A n \in Messages : n < m => rows[n].status # "none"
        /\ UNCHANGED <<pass, thread>>
    BY StateTypes DEF Queue, SetRow, ARow
  <1>2. m \in Nat /\ \A n \in Messages : n \in Nat
    BY QueueConstants
  <1>3. QueuedInOrder'
    <2> SUFFICES ASSUME NEW k \in Messages, NEW n \in Messages, n < k, rows'[k].status # "none"
                 PROVE  rows'[n].status # "none"
      BY DEF QueuedInOrder
    <2>1. CASE k = m
      BY <1>1, <1>2, <2>1
    <2>2. CASE k # m
      BY <1>1, <2>2 DEF InTurn, QueuedInOrder
    <2> QED
      BY <2>1, <2>2
  <1>4. \A s \in Senders, c \in Chats : \A n \in WorkOf(thread[s][c]) : n \in Messages /\ rows[n].status # "none"
    BY WorkType
  <1>5. WorkIsQueued'
    <2>1. \A s \in Senders, c \in Chats : \A n \in WorkOf(thread[s][c]) : rows'[n].status # "none"
      BY <1>1, <1>4
    <2> QED
      BY <1>1, <2>1 DEF InTurn, WorkIsQueued, WorkOf
  <1>6. ASSUME NEW p \in Passes, pass[p].alone, NEW c \in Chats
        PROVE  OldestFirst(c, thread[p][c])'
    <2>1. p \in Senders /\ OldestFirst(c, thread[p][c])
      BY <1>6 DEF InTurn, AloneInOrder, Senders
    <2>2. ASSUME NEW k \in WorkOf(thread[p][c]), NEW n \in Messages, n < k, Chat[n] = c,
                 rows'[n].status \in {"none", "pending"}
          PROVE  n \in WorkOf(thread[p][c])
      <3>1. rows[n].status # "none"
        BY <1>4, <2>1, <2>2 DEF InTurn, QueuedInOrder
      <3> QED
        BY <1>1, <2>1, <2>2, <3>1 DEF OldestFirst
    <2>3. thread[p][c].stage \in HeldStages => rows'[thread[p][c].row].status = "flight"
      <3>1. thread[p][c].stage \in HeldStages => thread[p][c].row \in Messages
        BY <2>1 DEF QueueInv, ThreadsMakeSense, HeldStages
      <3> QED
        BY <1>1, <2>1, <3>1 DEF OldestFirst
    <2> QED
      BY <1>1, <2>2, <2>3 DEF OldestFirst, WorkOf
  <1>7. AloneInOrder'
    <2>1. \A p \in Passes : pass[p].alone => \A q \in Senders : Up(q) => q = p
      BY DEF InTurn, AloneInOrder
    <2> QED
      BY <1>1, <1>6, <2>1 DEF AloneInOrder, Up
  <1> QED
    BY <1>3, <1>5, <1>7 DEF InTurn

\* Nobody comes up, no row moves, and a thread is as it was or has nothing to do.
LEMMA NobodyComesTurn ==
    ASSUME QueueInv, InTurn,
           \A m \in Messages : rows'[m].status = rows[m].status,
           \A q \in Senders : (pass'[q].alone => pass[q].alone) /\ (pass'[q].phase # "off" => pass[q].phase # "off"),
           \A q \in Senders, c \in Chats :
               \/ thread'[q][c] = thread[q][c] /\ pass'[q].phase = pass[q].phase
               \/ thread'[q][c].stage = "idle" /\ thread'[q][c].todo = {}
    PROVE  InTurn'
  <1>1. QueuedInOrder'
    BY DEF InTurn, QueuedInOrder
  <1>2. WorkIsQueued'
    <2> SUFFICES ASSUME NEW q \in Senders, NEW d \in Chats
                 PROVE  /\ pass'[q].phase # "sending" => thread'[q][d].todo = {}
                        /\ \A n \in WorkOf(thread'[q][d]) : rows'[n].status # "none"
                        /\ thread'[q][d].stage # "idle" => \A n \in thread'[q][d].todo : thread'[q][d].row < n
      BY DEF WorkIsQueued, WorkOf
    <2>1. CASE thread'[q][d] = thread[q][d] /\ pass'[q].phase = pass[q].phase
      <3>1. \A n \in WorkOf(thread[q][d]) : n \in Messages /\ rows[n].status # "none"
        BY WorkType
      <3> QED
        BY <2>1, <3>1 DEF InTurn, WorkIsQueued
    <2>2. CASE thread'[q][d].stage = "idle" /\ thread'[q][d].todo = {}
      BY <2>2 DEF WorkOf
    <2> QED
      BY <2>1, <2>2
  <1>3. AloneInOrder'
    <2> SUFFICES ASSUME NEW p \in Passes, pass'[p].alone
                 PROVE  /\ \A q \in Senders : Up(q)' => q = p
                        /\ \A d \in Chats : OldestFirst(d, thread[p][d])'
      BY DEF AloneInOrder
    <2>1. p \in Senders /\ pass[p].alone
      BY DEF Senders
    <2>2. /\ \A q \in Senders : Up(q) => q = p
          /\ \A d \in Chats : OldestFirst(d, thread[p][d])
      BY <2>1 DEF InTurn, AloneInOrder
    <2>3. \A q \in Senders : Up(q)' => q = p
      BY <2>2 DEF Up
    <2>4. ASSUME NEW d \in Chats
          PROVE  OldestFirst(d, thread[p][d])'
      <3>1. CASE thread'[p][d] = thread[p][d]
        <4>1. thread[p][d].stage \in HeldStages => thread[p][d].row \in Messages
          BY <2>1 DEF QueueInv, ThreadsMakeSense, HeldStages
        <4> QED
          BY <2>2, <3>1, <4>1 DEF OldestFirst, WorkOf
      <3>2. CASE thread'[p][d].stage = "idle" /\ thread'[p][d].todo = {}
        BY <3>2 DEF OldestFirst, WorkOf, HeldStages
      <3> QED
        BY <2>1, <3>1, <3>2
    <2> QED
      BY <2>3, <2>4
  <1> QED
    BY <1>1, <1>2, <1>3 DEF InTurn

LEMMA EndTurn ==
    ASSUME QueueInv, InTurn, NEW s \in Senders, EndPass(s) \/ Killed(s)
    PROVE  InTurn'
  <1>1. rows' = rows /\ pass' = [pass EXCEPT ![s] = Off]
    BY DEF EndPass, Killed
  <1>2. \A q \in Senders : (pass'[q].alone => pass[q].alone) /\ (pass'[q].phase # "off" => pass[q].phase # "off")
    BY <1>1, StateTypes DEF Off
  <1>3. ASSUME NEW q \in Senders, NEW c \in Chats
        PROVE  \/ thread'[q][c] = thread[q][c] /\ pass'[q].phase = pass[q].phase
               \/ thread'[q][c].stage = "idle" /\ thread'[q][c].todo = {}
    <2>1. CASE q # s
      <3>1. thread'[q] = thread[q]
        BY <2>1, StateTypes DEF EndPass, Killed
      <3> QED
        BY <1>1, <2>1, <3>1, StateTypes
    <2>2. CASE q = s
      <3>1. thread'[q][c] = Idle
        <4>1. CASE EndPass(s)
          BY <2>2, <4>1 DEF EndPass
        <4>2. CASE Killed(s)
          BY <2>2, <4>2, StateTypes DEF Killed
        <4> QED
          BY <4>1, <4>2
      <3> QED
        BY <3>1 DEF Idle, Waiting, At
    <2> QED
      BY <2>1, <2>2
  <1> QED
    BY <1>1, <1>2, <1>3, NobodyComesTurn

LEMMA TimeTurn ==
    ASSUME QueueInv, InTurn, Tick \/ \E c \in Chats : PauseEnds(c)
    PROVE  InTurn'
  <1>1. thread' = thread /\ \A m \in Messages : rows'[m].status = rows[m].status
    <2>1. CASE Tick
      BY <2>1, StateTypes DEF Tick, ARow
    <2>2. CASE \E c \in Chats : PauseEnds(c)
      BY <2>2 DEF PauseEnds
    <2> QED
      BY <2>1, <2>2
  <1>2. \A q \in Senders : pass'[q].alone = pass[q].alone /\ pass'[q].phase = pass[q].phase
    <2>1. CASE Tick
      BY <2>1, StateTypes DEF Tick, APass
    <2>2. CASE \E c \in Chats : PauseEnds(c)
      BY <2>2 DEF PauseEnds
    <2> QED
      BY <2>1, <2>2
  <1> QED
    BY <1>1, <1>2, NobodyComesTurn

\* Who comes up takes the queue from those that had it to themselves.
LEMMA ComesUpAlone ==
    ASSUME QueueInv, NEW s \in Senders, NEW phase \in {"started", "sending"}, ComesUp(s, phase)
    PROVE  /\ \A q \in Senders \ {s} : ~pass'[q].alone
           /\ pass'[s].alone => \A q \in Senders \ {s} : ~Up(q)
           /\ \A q \in Senders \ {s} : pass'[q].phase = pass[q].phase
  <1>1. \A q \in Senders \ {s} : pass'[q] = [pass[q] EXCEPT !.alone = FALSE] /\ pass[q] \in APass
    BY StateTypes DEF ComesUp
  <1>2. pass'[s] = [Off EXCEPT !.phase = phase, !.alone = \A q \in Senders \ {s} : ~Up(q)]
    BY DEF ComesUp
  <1>3. \A q \in Senders \ {s} : ~pass'[q].alone /\ pass'[q].phase = pass[q].phase
    BY <1>1 DEF APass
  <1>4. pass'[s].alone => \A q \in Senders \ {s} : ~Up(q)
    BY <1>2 DEF Off
  <1> QED
    BY <1>3, <1>4

\* A process that is not sending has nothing to do.
LEMMA NothingToDo ==
    ASSUME QueueInv, InTurn, NEW s \in Senders, pass[s].phase # "sending", NEW c \in Chats
    PROVE  thread[s][c].stage = "idle" /\ thread[s][c].todo = {} /\ WorkOf(thread[s][c]) = {}
  BY OnlySendersHold DEF InTurn, WorkIsQueued, WorkOf

LEMMA StartPassTurn ==
    ASSUME QueueInv, InTurn, NEW p \in Passes, StartPass(p)
    PROVE  InTurn'
  <1>1. p \in Senders /\ pass[p].phase # "sending" /\ thread' = thread
    BY DEF StartPass, Up, Senders
  <1>2. /\ \A q \in Senders \ {p} : ~pass'[q].alone /\ pass'[q].phase = pass[q].phase
        /\ pass'[p].alone => \A q \in Senders \ {p} : ~Up(q)
    BY <1>1, ComesUpAlone DEF StartPass
  <1>3. pass'[p].phase = "started"
    BY <1>1, ComesUpType DEF QueueInv, StartPass
  <1>4. \A m \in Messages : rows'[m].status = "none" <=> rows[m].status = "none"
    <2> SUFFICES ASSUME NEW m \in Messages PROVE rows'[m].status = "none" <=> rows[m].status = "none"
      OBVIOUS
    <2>1. rows'[m] = IF m \in requeue_stale THEN [rows[m] EXCEPT !.status = "pending", !.age = 0] ELSE rows[m]
      BY DEF StartPass
    <2> QED
      BY <2>1, StateTypes DEF requeue_stale, ARow
  <1>5. QueuedInOrder'
    BY <1>4 DEF InTurn, QueuedInOrder
  <1>6. \A s \in Senders, c \in Chats :
            /\ pass'[s].phase # "sending" => thread[s][c].todo = {}
            /\ \A m \in WorkOf(thread[s][c]) : rows'[m].status # "none"
            /\ thread[s][c].stage # "idle" => \A n \in thread[s][c].todo : thread[s][c].row < n
    <2> SUFFICES ASSUME NEW s \in Senders, NEW c \in Chats
                 PROVE  /\ pass'[s].phase # "sending" => thread[s][c].todo = {}
                        /\ \A m \in WorkOf(thread[s][c]) : rows'[m].status # "none"
                        /\ thread[s][c].stage # "idle" => \A n \in thread[s][c].todo : thread[s][c].row < n
      OBVIOUS
    <2>1. \A m \in WorkOf(thread[s][c]) : m \in Messages /\ rows[m].status # "none"
      BY WorkType
    <2> QED
      BY <1>1, <1>2, <1>4, <2>1, NothingToDo DEF InTurn, WorkIsQueued
  <1>7. WorkIsQueued'
    BY <1>1, <1>6 DEF WorkIsQueued, WorkOf
  <1>8. AloneInOrder'
    <2> SUFFICES ASSUME NEW r \in Passes, pass'[r].alone
                 PROVE  /\ \A q \in Senders : Up(q)' => q = r
                        /\ \A c \in Chats : OldestFirst(c, thread[r][c])'
      BY DEF AloneInOrder
    <2>1. r = p
      BY <1>2 DEF Senders
    <2>2. \A q \in Senders : Up(q)' => q = r
      BY <1>2, <2>1 DEF Up
    <2>3. \A c \in Chats : thread'[p][c].stage = "idle" /\ thread'[p][c].todo = {}
      BY <1>1, NothingToDo
    <2> QED
      BY <2>1, <2>2, <2>3 DEF OldestFirst, WorkOf, HeldStages
  <1> QED
    BY <1>5, <1>7, <1>8 DEF InTurn

LEMMA FetchTurn ==
    ASSUME QueueInv, InTurn, NEW p \in Passes, Fetch(p)
    PROVE  InTurn'
  <1>1. p \in Senders /\ rows' = rows /\ pass[p].phase = "started" /\ pass' = [pass EXCEPT ![p].phase = "sending"]
    BY DEF Fetch, Senders
  <1>2. \A q \in Senders : /\ pass'[q].alone = pass[q].alone
                           /\ pass'[q].phase = IF q = p THEN "sending" ELSE pass[q].phase
    BY <1>1, StateTypes DEF APass
  <1>3. \A q \in Senders, c \in Chats : q # p => thread'[q][c] = thread[q][c]
    BY <1>1, StateTypes DEF Fetch
  <1>4. ASSUME NEW c \in Chats
        PROVE  /\ thread'[p][c].stage = "idle"
               /\ thread'[p][c].todo = IF c \in paused THEN {} ELSE {m \in fetch_pending : Chat[m] = c}
    <2>1. thread'[p][c] = IF c \in paused THEN Idle ELSE Waiting({m \in fetch_pending : Chat[m] = c})
      BY <1>1, StateTypes DEF Fetch
    <2> QED
      BY <2>1 DEF Idle, Waiting, At
  <1>5. \A m \in fetch_pending : m \in Messages /\ rows[m].status = "pending"
    BY DEF fetch_pending, candidates, Pending
  <1>6. QueuedInOrder'
    BY <1>1 DEF InTurn, QueuedInOrder
  <1>7. WorkIsQueued'
    <2> SUFFICES ASSUME NEW q \in Senders, NEW d \in Chats
                 PROVE  /\ pass'[q].phase # "sending" => thread'[q][d].todo = {}
                        /\ \A n \in WorkOf(thread'[q][d]) : rows'[n].status # "none"
                        /\ thread'[q][d].stage # "idle" => \A n \in thread'[q][d].todo : thread'[q][d].row < n
      BY DEF WorkIsQueued, WorkOf
    <2>1. CASE q = p
      BY <1>1, <1>2, <1>4, <1>5, <2>1 DEF WorkOf
    <2>2. CASE q # p
      <3>1. thread'[q][d] = thread[q][d] /\ pass'[q].phase = pass[q].phase
        BY <1>2, <1>3, <2>2
      <3> QED
        BY <1>1, <3>1 DEF InTurn, WorkIsQueued
    <2> QED
      BY <2>1, <2>2
  <1>8. AloneInOrder'
    <2> SUFFICES ASSUME NEW r \in Passes, pass'[r].alone
                 PROVE  /\ \A q \in Senders : Up(q)' => q = r
                        /\ \A c \in Chats : OldestFirst(c, thread[r][c])'
      BY DEF AloneInOrder
    <2>1. r \in Senders /\ pass[r].alone
      BY <1>2 DEF Senders
    <2>2. \A q \in Senders : Up(q) => q = r
      BY <2>1 DEF InTurn, AloneInOrder
    <2>3. r = p
      BY <1>1, <2>2 DEF Up
    <2>4. \A q \in Senders : Up(q)' => q = r
      BY <1>2, <2>2, <2>3 DEF Up
    <2>5. ASSUME NEW c \in Chats
          PROVE  OldestFirst(c, thread[r][c])'
      <3>1. WorkOf(thread'[p][c]) = IF c \in paused THEN {} ELSE {m \in fetch_pending : Chat[m] = c}
        BY <1>4 DEF WorkOf
      <3>2. ASSUME NEW m \in WorkOf(thread'[p][c]), NEW n \in Messages, n < m, Chat[n] = c,
                   rows'[n].status \in {"none", "pending"}
            PROVE  n \in WorkOf(thread'[p][c])
        <4>1. c \notin paused /\ m \in fetch_pending /\ Chat[m] = c
          BY <3>1, <3>2
        <4>2. rows[n].status = "pending"
          BY <1>1, <1>5, <3>2, <4>1 DEF InTurn, QueuedInOrder
        <4>3. n \in Pending
          BY <4>2 DEF Pending
        <4>4. n \in fetch_pending
          BY <3>2, <4>1, <4>3, FetchedInOrder
        <4> QED
          BY <3>1, <3>2, <4>1, <4>4
      <3>3. thread'[p][c].stage \notin HeldStages
        BY <1>4 DEF HeldStages
      <3> QED
        BY <2>3, <3>2, <3>3 DEF OldestFirst, WorkOf
    <2> QED
      BY <2>4, <2>5
  <1> QED
    BY <1>6, <1>7, <1>8 DEF InTurn

LEMMA StartOneTurn ==
    ASSUME QueueInv, InTurn, NEW h \in Hands, NEW m \in Messages, StartOne(h, m)
    PROVE  InTurn'
  <1>1. h \in Senders /\ h \notin Passes /\ Chat[m] \in Chats /\ rows' = rows /\ rows[m].status # "none"
    BY QueueConstants DEF StartOne, Senders, Chats
  <1>2. \A q \in Senders \ {h} : ~pass'[q].alone /\ pass'[q].phase = pass[q].phase
    BY <1>1, ComesUpAlone DEF StartOne
  <1>3. pass'[h].phase = "sending"
    BY <1>1, ComesUpType DEF QueueInv, StartOne
  <1>4. {m} \in SUBSET Messages /\ Waiting({m}) \in AThread /\ Waiting({m}).stage = "idle" /\ Waiting({m}).todo = {m}
    <2>1. {m} \in SUBSET Messages
      OBVIOUS
    <2> QED
      BY <2>1, WaitingIsAThread DEF Waiting, At
  <1>5. /\ thread'[h][Chat[m]] = Waiting({m})
        /\ \A q \in Senders, d \in Chats : q # h \/ d # Chat[m] => thread'[q][d] = thread[q][d]
    BY <1>1, <1>4, ThreadMoves DEF QueueInv, StartOne
  <1>6. QueuedInOrder'
    BY <1>1 DEF InTurn, QueuedInOrder
  <1>7. WorkIsQueued'
    <2> SUFFICES ASSUME NEW q \in Senders, NEW d \in Chats
                 PROVE  /\ pass'[q].phase # "sending" => thread'[q][d].todo = {}
                        /\ \A n \in WorkOf(thread'[q][d]) : rows'[n].status # "none"
                        /\ thread'[q][d].stage # "idle" => \A n \in thread'[q][d].todo : thread'[q][d].row < n
      BY DEF WorkIsQueued, WorkOf
    <2>1. CASE q = h /\ d = Chat[m]
      BY <1>1, <1>3, <1>4, <1>5, <2>1 DEF WorkOf
    <2>2. CASE ~(q = h /\ d = Chat[m])
      <3>1. thread'[q][d] = thread[q][d] /\ (pass'[q].phase # "sending" => pass[q].phase # "sending")
        BY <1>2, <1>3, <1>5, <2>2
      <3> QED
        BY <1>1, <3>1 DEF InTurn, WorkIsQueued
    <2> QED
      BY <2>1, <2>2
  <1>8. AloneInOrder'
    <2>1. \A p \in Passes : ~pass'[p].alone
      BY <1>1, <1>2 DEF Senders
    <2> QED
      BY <2>1 DEF AloneInOrder
  <1> QED
    BY <1>6, <1>7, <1>8 DEF InTurn

LEMMA InTurnStep == QueueInv /\ InTurn /\ [Next]_vars => InTurn'
  <1> SUFFICES ASSUME QueueInv, InTurn, [Next]_vars PROVE InTurn'
    OBVIOUS
  <1>1. CASE UNCHANGED vars
    BY <1>1 DEF vars, InTurn, QueuedInOrder, WorkIsQueued, AloneInOrder, OldestFirst, WorkOf, Up
  <1>2. CASE \E m \in Messages : Queue(m)
    BY <1>2, QueueTurn
  <1>3. CASE \E p \in Passes : StartPass(p) \/ Fetch(p)
    BY <1>3, StartPassTurn, FetchTurn
  <1>4. CASE \E h \in Hands, m \in Messages : StartOne(h, m)
    BY <1>4, StartOneTurn
  <1>5. CASE \E s \in Senders : EndPass(s) \/ Killed(s)
    BY <1>5, EndTurn
  <1>6. CASE Tick \/ \E c \in Chats : PauseEnds(c)
    BY <1>6, TimeTurn
  <1>7. CASE \E s \in Senders, c \in Chats : ThreadWorks(s, c) \/ RateLimited(s, c) \/ StoreFails(s, c)
    <2>1. PICK s \in Senders, c \in Chats : ThreadWorks(s, c) \/ RateLimited(s, c) \/ StoreFails(s, c)
      BY <1>7
    <2> QED
      BY <2>1, DropsAllTurn, ReadRowTurn, MarkTurn, CallTurn, EndsTurn, ResetTurn DEF ThreadWorks, StoreFails
  <1> QED
    BY <1>1, <1>2, <1>3, <1>4, <1>5, <1>6, <1>7 DEF Next

\* Within a chat nothing overtakes, for any number of messages, chats and senders and every limit: what a
\* pass that has the queue to itself takes in hand is the oldest that waits (docstring of send_pending_messages).
THEOREM ChatsKeepTheirOrder == Spec => NothingOvertakes
  <1> DEFINE First == \A p \in Passes, m \in Messages : pass[p].alone /\ Holds(p, m) =>
                 \A n \in Messages : n < m /\ Chat[n] = Chat[m] => rows[n].status \notin {"none", "pending"}
  <1>1. QueueInv /\ InTurn => First
    <2> SUFFICES ASSUME QueueInv, InTurn, NEW p \in Passes, NEW m \in Messages, pass[p].alone, Holds(p, m),
                        NEW n \in Messages, n < m, Chat[n] = Chat[m], rows[n].status \in {"none", "pending"}
                 PROVE  FALSE
      OBVIOUS
    <2> DEFINE t == thread[p][Chat[m]]
    <2>1. p \in Senders /\ Chat[m] \in Chats /\ m \in Nat /\ n \in Nat
      BY QueueConstants DEF Senders, Chats
    <2>2. t.stage # "idle" /\ t.row = m
      BY DEF Holds
    <2>3. OldestFirst(Chat[m], t) /\ m \in WorkOf(t)
      BY <2>1, <2>2 DEF InTurn, AloneInOrder, WorkOf
    <2>4. n \in WorkOf(t)
      BY <2>3 DEF OldestFirst
    <2>5. n \in t.todo
      BY <2>1, <2>2, <2>4 DEF WorkOf
    <2>6. m < n
      BY <2>1, <2>2, <2>5 DEF InTurn, WorkIsQueued
    <2> QED
      BY <2>1, <2>6
  <1>2. Spec => []First
    BY <1>1, InitInTurn, InTurnStep, QueueInvariant, PTL DEF Spec
  <1>3. First => \A p \in Passes, m \in Messages :
            (pass[p].alone /\ Holds(p, m) /\ shown[m] = {} /\ shown'[m] # {})
            => \A n \in Messages : n < m /\ Chat[n] = Chat[m] => rows[n].status \notin {"none", "pending"}
    OBVIOUS
  <1> QED
    BY <1>2, <1>3, PTL DEF NothingOvertakes
=============================================================================
