--------------------------- MODULE TelegramQueue ----------------------------
(***************************************************************************)
(* The queue of outgoing Telegram messages: dbabrain/telegram/send_queue   *)
(* over the table telegram_send_messages (dbabrain/db/store_telegram).     *)
(*                                                                         *)
(* Senders work on one store.  A send pass is a process of APP-TELEGRAM:   *)
(* the daemon starts it again and again and kills it at its timeout, and   *)
(* every node may run one.  In it each chat has a thread of its own.  A    *)
(* `send-one` is a command run by hand: no timeout, and it waits out       *)
(* Telegram's rate limit instead of handing the row back.                  *)
(*                                                                         *)
(* A step is one store call, or one call to Telegram.  A message is its    *)
(* row: what it says is left out, but not that it goes out in pieces, a    *)
(* document (piece 0) and the parts of a long text (pieces 1..Parts).      *)
(***************************************************************************)
EXTENDS Integers, FiniteSets

CONSTANTS
    Messages,       \* send_tlgmsg_ids, in the order the rows are written
    Chat,           \* tlgchat_id of each
    Parts,          \* how many messages its text is split into
    Document,       \* does the row carry a document?
    Passes,         \* the send passes that may run beside each other
    Hands,          \* the send-one commands run by hand
    PerChat,        \* send_per_chat
    Limit,          \* limit: the rows one pass takes in all
    RetryCount,     \* retry_count
    Timeout,        \* APP-TELEGRAM's timeout, in ticks
    StaleFloor,     \* STALE_IN_FLIGHT_SECONDS, in ticks
    None            \* no message

Chats == {Chat[m] : m \in Messages}
Senders == Passes \cup Hands
Pieces(m) == (IF Document[m] THEN {0} ELSE {}) \cup 1..Parts[m]

ASSUME QueueConstants ==
    /\ Messages \subseteq Nat /\ IsFiniteSet(Messages) /\ None \notin Messages
    /\ Parts \in [Messages -> Nat] /\ Document \in [Messages -> BOOLEAN]
    /\ \A m \in Messages : Pieces(m) # {}
    /\ Passes \cap Hands = {}
    /\ PerChat \in Nat \ {0} /\ Limit \in Nat /\ RetryCount \in Nat \ {0}
    /\ Timeout \in Nat \ {0} /\ StaleFloor \in Nat

\* Fewer chats than `limit`, so that a pass takes at least the oldest row of each.
ASSUME EveryChatFits == Cardinality(Chats) <= Limit

VARIABLES
    rows,       \* telegram_send_messages: status, time in flight, and the pieces a resumed send skips
    pass,       \* of each sender: is its process up, since when, and which chats it met a limit in
    thread,     \* of each sender and chat: the rows left and the one in hand
    paused,     \* the pauses file: chats whose pause is running
    shown,      \* the pieces of each message that have reached its chat
    repeated,   \* history: messages of which a piece has reached it again without an excuse
    excused     \* history: messages of which the code knows that a piece may go out again

vars == <<rows, pass, thread, paused, shown, repeated, excused>>

\* stale_in_flight_seconds: no pass outlives its timeout, and this is at least twice that.
stale_in_flight_seconds == IF StaleFloor > 2 * Timeout THEN StaleFloor ELSE 2 * Timeout

\* Bound: a row in flight grows no older than one tick past every window.
MaxAge == stale_in_flight_seconds + 1

\* A thread at some stage with a row, the pieces of it that are known to be delivered, and rows to follow.
At(stage, todo, row, known) ==
    [stage |-> stage, todo |-> todo, row |-> row, known |-> known, gone |-> {}, tries |-> 0]

\* A thread with rows still to send (oldest first) and none in hand.
Waiting(todo) == At("idle", todo, None, {})
Idle == Waiting({})
Off == [phase |-> "off", age |-> 0, limited |-> {}, alone |-> FALSE]

\* The sender has taken the row and is not done with it.
Holds(s, m) == LET t == thread[s][Chat[m]]
               IN  t.stage \in {"send", "record", "reset", "fail"} /\ t.row = m
Up(s) == pass[s].phase # "off"

Pending == {m \in Messages : rows[m].status = "pending"}

SetRow(m, r) == rows' = [rows EXCEPT ![m] = r]
SetThread(s, c, t) == thread' = [thread EXCEPT ![s][c] = t]

\* The thread goes on to its next row.
NextRow(t) == Waiting(t.todo)

Init ==
    /\ rows = [m \in Messages |-> [status |-> "none", age |-> 0, known |-> {}]]
    /\ pass = [s \in Senders |-> Off]
    /\ thread = [s \in Senders |-> [c \in Chats |-> Idle]]
    /\ paused = {}
    /\ shown = [m \in Messages |-> {}]
    /\ repeated = {}
    /\ excused = {}
-----------------------------------------------------------------------------
\* insert_telegram_send_message: a producer queues the next message.
Queue(m) ==
    /\ rows[m].status = "none"
    /\ \A n \in Messages : n < m => rows[n].status # "none"
    /\ SetRow(m, [rows[m] EXCEPT !.status = "pending"])
    /\ UNCHANGED <<pass, thread, paused, shown, repeated, excused>>

\* A process comes up beside those that run, and none of them is alone any more.
ComesUp(s, phase) ==
    pass' = [q \in Senders |->
        IF q = s THEN [Off EXCEPT !.phase = phase, !.alone = \A r \in Senders \ {s} : ~Up(r)]
        ELSE [pass[q] EXCEPT !.alone = FALSE]]

\* Altered: whatever is in flight goes back, however long it has been there.
requeue_stale_AtOnce == {m \in Messages : rows[m].status = "flight"}

\* requeue_stale_telegram_send_messages: in flight for longer than the window.
requeue_stale ==
    {m \in Messages : rows[m].status = "flight" /\ rows[m].age > stale_in_flight_seconds}

\* A pass starts, and puts the stale rows back first.
StartPass(p) ==
    /\ ~Up(p)
    /\ ComesUp(p, "started")
    /\ rows' = [m \in Messages |->
           IF m \in requeue_stale THEN [rows[m] EXCEPT !.status = "pending", !.age = 0] ELSE rows[m]]
    /\ excused' = excused \cup requeue_stale
    /\ UNCHANGED <<thread, paused, shown, repeated>>

\* ROW_NUMBER() OVER (PARTITION BY tlgchat_id ...) of a pending row.
chat_rank(m) == Cardinality({n \in Pending : Chat[n] = Chat[m] /\ n <= m})

\* The oldest pending rows of each chat.
candidates == {m \in Pending : chat_rank(m) <= PerChat}

\* ORDER BY the rank in the chat, then the age: what comes before a row.
InFront(m) ==
    {n \in candidates : \/ chat_rank(n) < chat_rank(m)
                        \/ chat_rank(n) = chat_rank(m) /\ n < m}

\* Altered: the oldest rows of the whole queue, as until 0.25.0.
fetch_pending_OldestOfAll == {m \in Pending : Cardinality({n \in Pending : n < m}) < Limit}

\* fetch_pending_telegram_send_messages: the oldest of each chat, interleaved, `limit` in all.
fetch_pending == {m \in candidates : Cardinality(InFront(m)) < Limit}

\* The pass reads its rows and the pauses, and gives each chat's rows to a thread; the rows of a chat
\* that is paused are deferred.
Fetch(p) ==
    /\ pass[p].phase = "started"
    /\ pass' = [pass EXCEPT ![p].phase = "sending"]
    /\ thread' = [thread EXCEPT ![p] = [c \in Chats |->
           IF c \in paused THEN Idle ELSE Waiting({m \in fetch_pending : Chat[m] = c})]]
    /\ UNCHANGED <<rows, paused, shown, repeated, excused>>

\* `send-one` is run for one row.
StartOne(h, m) ==
    /\ ~Up(h)
    /\ rows[m].status # "none"
    /\ ComesUp(h, "sending")
    /\ SetThread(h, Chat[m], Waiting({m}))
    /\ UNCHANGED <<rows, paused, shown, repeated, excused>>

\* out_of_budget: half of the timeout is spent (a hand-run sender has no budget).
OutOfBudget(s) == s \in Passes /\ 2 * pass[s].age >= Timeout

\* The thread is between two rows, and there is a next one.
AtNext(s, c) == pass[s].phase = "sending" /\ thread[s][c].stage = "idle" /\ thread[s][c].todo # {}

\* The rest of a chat's rows is left for the next pass.
GiveUpForNow(s, c) ==
    /\ AtNext(s, c)
    /\ OutOfBudget(s)
    /\ SetThread(s, c, Idle)
    /\ UNCHANGED <<rows, pass, paused, shown, repeated, excused>>

\* send_one_message reads the oldest row left, and with it what an earlier attempt delivered
\* (parts_delivered, document_delivered).
ReadRow(s, c) ==
    /\ AtNext(s, c)
    /\ ~OutOfBudget(s)
    /\ \E m \in thread[s][c].todo :
        LET rest == thread[s][c].todo \ {m}
        IN  /\ \A n \in rest : m < n
            /\ SetThread(s, c, IF rows[m].status = "pending"
                               THEN At("read", rest, m, rows[m].known)
                               ELSE Waiting(rest))
    /\ UNCHANGED <<rows, pass, paused, shown, repeated, excused>>

AtWork(s, c, stage) == pass[s].phase = "sending" /\ thread[s][c].stage = stage

\* Everything that is to be sent has been.
Complete(m, gone) == Pieces(m) \subseteq gone

\* What is left to know of an attempt that is over: how it ended.
Over(t, stage) == At(stage, t.todo, t.row, {})

\* The next call of an attempt that has sent these pieces, or its end.
Attempt(t, gone) ==
    IF Complete(t.row, gone) THEN Over(t, "record") ELSE [t EXCEPT !.stage = "send", !.gone = gone]

\* mark_telegram_send_message_processing: the row is taken if it is still pending.  If another sender
\* sent some of it since it was read, what was read is out of date.
mark_processing(s, c) ==
    LET t == thread[s][c]
        m == t.row
    IN  /\ AtWork(s, c, "read")
        /\ IF rows[m].status = "pending"
           THEN /\ SetRow(m, [rows[m] EXCEPT !.status = "flight", !.age = 0])
                /\ SetThread(s, c, Attempt(t, t.known))
                /\ excused' = IF t.known = rows[m].known THEN excused ELSE excused \cup {m}
           ELSE /\ SetThread(s, c, NextRow(t))
                /\ UNCHANGED <<rows, excused>>
        /\ UNCHANGED <<pass, paused, shown, repeated>>
-----------------------------------------------------------------------------
\* The piece the next call carries: the document first, then the parts in order.
IsNext(i, t) ==
    /\ i \in Pieces(t.row) \ t.gone
    /\ \A j \in Pieces(t.row) \ t.gone : i <= j

Shows(m, i) ==
    /\ shown' = [shown EXCEPT ![m] = @ \cup {i}]
    /\ repeated' = IF i \in shown[m] /\ m \notin excused THEN repeated \cup {m} ELSE repeated

\* Telegram takes the piece and says so.  A document is remembered from then on, a part is not.
Delivered(s, c) ==
    LET t == thread[s][c]
    IN  /\ AtWork(s, c, "send")
        /\ \E i \in Pieces(t.row) :
            /\ IsNext(i, t)
            /\ Shows(t.row, i)
            /\ SetThread(s, c, Attempt([t EXCEPT !.known = IF i = 0 THEN @ \cup {0} ELSE @], t.gone \cup {i}))
        /\ UNCHANGED <<rows, pass, paused, excused>>

\* Altered: one attempt too many.
FailedAttempt_OneMore(t) ==
    IF t.tries < RetryCount THEN [t EXCEPT !.tries = @ + 1, !.gone = t.known] ELSE Over(t, "fail")

\* Altered: the retry goes on after the piece that failed.
FailedAttempt_SkipsIt(t) ==
    IF t.tries + 1 < RetryCount
    THEN [t EXCEPT !.tries = @ + 1, !.gone = @ \cup {i \in Pieces(t.row) : IsNext(i, t)}]
    ELSE Over(t, "fail")

\* A failed attempt: the next one starts where this one did, the document excepted.
FailedAttempt(t) ==
    IF t.tries + 1 < RetryCount THEN [t EXCEPT !.tries = @ + 1, !.gone = t.known]
    ELSE Over(t, "fail")

\* The call fails and Telegram does not have the piece.  The parts before it go out again.
Refused(s, c) ==
    LET t == thread[s][c]
    IN  /\ AtWork(s, c, "send")
        /\ SetThread(s, c, FailedAttempt(t))
        /\ excused' = IF t.gone = t.known THEN excused ELSE excused \cup {t.row}
        /\ UNCHANGED <<rows, pass, paused, shown, repeated>>

\* The call fails, for the answer was lost, and Telegram has the piece.
AnswerLost(s, c) ==
    LET t == thread[s][c]
    IN  /\ AtWork(s, c, "send")
        /\ \E i \in Pieces(t.row) : IsNext(i, t) /\ Shows(t.row, i)
        /\ SetThread(s, c, FailedAttempt(t))
        /\ excused' = excused \cup {t.row}
        /\ UNCHANGED <<rows, pass, paused>>

\* HTTP 429 (after the waits inside send_message), which says what was delivered before it.  A pass hands
\* the row back at once; by hand it is waited out and tried again, as often as any other failure.
RateLimited(s, c) ==
    LET t == thread[s][c]
    IN  /\ AtWork(s, c, "send")
        /\ SetThread(s, c, IF s \in Hands /\ t.tries + 1 < RetryCount
                           THEN [t EXCEPT !.known = t.gone, !.tries = @ + 1]
                           ELSE At("reset", t.todo, t.row, t.gone))
        /\ UNCHANGED <<rows, pass, paused, shown, repeated, excused>>
-----------------------------------------------------------------------------
\* _record_sent, within its three attempts.
record_sent(s, c) ==
    LET t == thread[s][c]
        m == t.row
    IN  /\ AtWork(s, c, "record")
        /\ SetRow(m, [rows[m] EXCEPT !.status = "sent", !.age = 0])
        /\ SetThread(s, c, NextRow(t))
        /\ UNCHANGED <<pass, paused, shown, repeated, excused>>

\* _record_sent gives up: the row stays in flight, and the thread goes on.
NotRecorded(s, c) ==
    /\ AtWork(s, c, "record")
    /\ SetThread(s, c, NextRow(thread[s][c]))
    /\ UNCHANGED <<rows, pass, paused, shown, repeated, excused>>

\* mark_telegram_send_message_failed.
mark_failed(s, c) ==
    LET t == thread[s][c]
        m == t.row
    IN  /\ AtWork(s, c, "fail")
        /\ SetRow(m, [rows[m] EXCEPT !.status = "failed", !.age = 0])
        /\ SetThread(s, c, NextRow(t))
        /\ UNCHANGED <<pass, paused, shown, repeated, excused>>

\* Altered: the row comes back with nothing of what was delivered.
reset_pending_Forgets(s, c) ==
    LET t == thread[s][c]
        m == t.row
    IN  /\ AtWork(s, c, "reset")
        /\ SetRow(m, [rows[m] EXCEPT !.status = "pending", !.age = 0])
        /\ SetThread(s, c, Idle)
        /\ pass' = [pass EXCEPT ![s].limited = @ \cup {c}]
        /\ UNCHANGED <<paused, shown, repeated, excused>>

\* What the row is told: the parts, if there are any to tell of, and the document.
Merged(old, known) ==
    LET parts == IF known \subseteq {0} THEN old \ {0} ELSE known \ {0}
    IN  parts \cup ((old \cup known) \cap {0})

\* Altered: the chat's next row is tried, as if only this one had been limited.
reset_pending_GoesOn(s, c) ==
    LET t == thread[s][c]
        m == t.row
    IN  /\ AtWork(s, c, "reset")
        /\ SetRow(m, [rows[m] EXCEPT !.status = "pending", !.age = 0, !.known = Merged(@, t.known)])
        /\ SetThread(s, c, NextRow(t))
        /\ pass' = [pass EXCEPT ![s].limited = @ \cup {c}]
        /\ UNCHANGED <<paused, shown, repeated, excused>>

\* reset_telegram_send_message_pending, with what was delivered merged into the row's metadata; the
\* rest of the chat's rows wait with it, and the chat is to be paused.
reset_pending(s, c) ==
    LET t == thread[s][c]
        m == t.row
    IN  /\ AtWork(s, c, "reset")
        /\ SetRow(m, [rows[m] EXCEPT !.status = "pending", !.age = 0, !.known = Merged(@, t.known)])
        /\ SetThread(s, c, Idle)
        /\ pass' = [pass EXCEPT ![s].limited = @ \cup {c}]
        /\ UNCHANGED <<paused, shown, repeated, excused>>

\* A store call raises: this chat's thread ends, and its row stays as it is.
ThreadFails(s, c) ==
    /\ AtNext(s, c) \/ \E stage \in {"read", "fail", "reset"} : AtWork(s, c, stage)
    /\ SetThread(s, c, Idle)
    /\ UNCHANGED <<rows, pass, paused, shown, repeated, excused>>
-----------------------------------------------------------------------------
\* All threads are done: the pass writes the pauses (send-one keeps none) and ends.
EndPass(s) ==
    /\ pass[s].phase = "sending"
    /\ \A c \in Chats : thread[s][c] = Idle
    /\ paused' = IF s \in Passes THEN paused \cup pass[s].limited ELSE paused
    /\ pass' = [pass EXCEPT ![s] = Off]
    /\ UNCHANGED <<rows, thread, shown, repeated, excused>>

\* The process is killed, by the daemon at its timeout or by anything else at any time.
Killed(s) ==
    /\ Up(s)
    /\ pass' = [pass EXCEPT ![s] = Off]
    /\ thread' = [thread EXCEPT ![s] = [c \in Chats |-> Idle]]
    /\ UNCHANGED <<rows, paused, shown, repeated, excused>>

\* The seconds Telegram asked for are over (or the file was lost).
PauseEnds(c) ==
    /\ c \in paused
    /\ paused' = paused \ {c}
    /\ UNCHANGED <<rows, pass, thread, shown, repeated, excused>>

\* Time passes.  The daemon lets no pass live past its timeout.
Tick ==
    /\ \A p \in Passes : Up(p) => pass[p].age < Timeout
    /\ \/ \E p \in Passes : Up(p)
       \/ \E m \in Messages : rows[m].status = "flight" /\ rows[m].age < MaxAge
    /\ pass' = [s \in Senders |-> IF Up(s) /\ s \in Passes THEN [pass[s] EXCEPT !.age = @ + 1] ELSE pass[s]]
    /\ rows' = [m \in Messages |-> IF rows[m].status = "flight" /\ rows[m].age < MaxAge
                                   THEN [rows[m] EXCEPT !.age = @ + 1] ELSE rows[m]]
    /\ UNCHANGED <<thread, paused, shown, repeated, excused>>

\* The steps of a thread that depend on nothing but itself and the store.
ThreadWorks(s, c) ==
    \/ GiveUpForNow(s, c) \/ ReadRow(s, c) \/ mark_processing(s, c)
    \/ Delivered(s, c) \/ Refused(s, c) \/ AnswerLost(s, c)
    \/ record_sent(s, c) \/ mark_failed(s, c) \/ reset_pending(s, c)

StoreFails(s, c) == NotRecorded(s, c) \/ ThreadFails(s, c)

Next ==
    \/ \E m \in Messages : Queue(m)
    \/ \E p \in Passes : StartPass(p) \/ Fetch(p)
    \/ \E h \in Hands, m \in Messages : StartOne(h, m)
    \/ \E s \in Senders : EndPass(s) \/ Killed(s)
    \/ \E s \in Senders, c \in Chats :
           ThreadWorks(s, c) \/ RateLimited(s, c) \/ StoreFails(s, c)
    \/ \E c \in Chats : PauseEnds(c)
    \/ Tick

Spec == Init /\ [][Next]_vars
-----------------------------------------------------------------------------
Statuses == {"none", "pending", "flight", "sent", "failed"}
Stages == {"idle", "read", "send", "record", "reset", "fail"}

TypeOK ==
    /\ rows \in [Messages -> [status : Statuses, age : 0..MaxAge, known : SUBSET Nat]]
    /\ pass \in [Senders -> [phase : {"off", "started", "sending"}, age : 0..Timeout,
                             limited : SUBSET Chats, alone : BOOLEAN]]
    /\ thread \in [Senders -> [Chats -> [stage : Stages, todo : SUBSET Messages, row : Messages \cup {None},
                                         known : SUBSET Nat, gone : SUBSET Nat, tries : 0..(RetryCount - 1)]]]
    /\ paused \subseteq Chats
    /\ shown \in [Messages -> SUBSET Nat] /\ \A m \in Messages : shown[m] \subseteq Pieces(m)
    /\ repeated \subseteq Messages /\ excused \subseteq Messages

\* A row that reads `sent` reached its chat whole, also when a limit, a kill or a refusal broke it off and
\* another pass went on in the middle (parts_delivered and document_delivered, send_queue.py:266-279).
SentIsWhole ==
    \A m \in Messages : rows[m].status = "sent" => shown[m] = Pieces(m)

\* A chat sees a piece twice only where the code says it may: the row was left in flight and came back, a
\* call failed after parts had landed or its answer was lost, or two senders crossed.  A rate limit alone
\* costs no duplicate (send_queue.py:266-279, api.py:146-153).
RepeatsAreExcused == repeated = {}

\* "Past older_than_seconds no pass can still own it" (store_telegram.py:789): what a pass puts back is
\* in the hands of no other pass that lives.
RequeuesOnlyTheAbandoned ==
    [][\A m \in Messages, p, q \in Passes :
        (~Up(p) /\ Up(p)' /\ rows[m].status = "flight" /\ rows'[m].status = "pending") => ~Holds(q, m)]_vars

\* Within a chat nothing overtakes: when a pass that has had the queue to itself first shows a message,
\* every older one of the chat is settled, or was left in flight by a pass that did not finish
\* (docstring of send_pending_messages).
NothingOvertakes ==
    [][\A p \in Passes, m \in Messages :
        (pass[p].alone /\ Holds(p, m) /\ shown[m] = {} /\ shown'[m] # {})
        => \A n \in Messages : n < m /\ Chat[n] = Chat[m] => rows[n].status \notin {"none", "pending"}]_vars

(***************************************************************************)
(* What the queue promises its producers (module Outbox).  Where a row is  *)
(* in the hands of a pass, or left by one, it is waiting.                  *)
(***************************************************************************)
OutboxState == [m \in Messages |->
    IF rows[m].status \in {"pending", "flight"} THEN "waiting" ELSE rows[m].status]

Promise == INSTANCE Outbox WITH
    Whole <- [m \in Messages |-> Pieces(m)], state <- OutboxState, seen <- shown

\* Where nobody sends by hand the passes keep that promise: they settle a message once, as sent only when
\* the chat has all of it, and show nothing of it afterwards, although each update of a row but the one
\* that takes it is unconditional (store_telegram.py:810-905).
KeepsItsPromise == Promise!Spec

(***************************************************************************)
(* The daemon starts a pass again and again, a pass does its work, and     *)
(* time passes.  Nothing is assumed of producers, limits, failures, kills  *)
(* or of the commands run by hand.                                         *)
(***************************************************************************)
Fairness ==
    /\ \A p \in Passes : WF_vars(StartPass(p)) /\ WF_vars(Fetch(p)) /\ WF_vars(EndPass(p))
    /\ \A p \in Passes, c \in Chats : WF_vars(ThreadWorks(p, c))
    /\ \A c \in Chats : WF_vars(PauseEnds(c))
    /\ WF_vars(Tick)

FairSpec == Spec /\ Fairness

Settled(m) == rows[m].status \in {"sent", "failed"}

\* From some point on no process is killed and the store answers, and of this chat: Telegram limits it no
\* more, and a pass comes to it within its budget.
Calm(c) ==
    <>[][\A s \in Senders : /\ ~Killed(s)
                           /\ \A d \in Chats : ~StoreFails(s, d)
                           /\ ~RateLimited(s, c) /\ ~GiveUpForNow(s, c)]_vars

\* No message is lost and no chat waits behind another: what is queued, or was left in flight by a pass
\* that died, is sent or failed in the end, even if Telegram limits every other chat for ever.
EveryMessageIsSettled ==
    \A m \in Messages : Calm(Chat[m]) => (rows[m].status \in {"pending", "flight"} ~> Settled(m))
=============================================================================
