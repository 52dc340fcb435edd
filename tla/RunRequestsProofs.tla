------------------------- MODULE RunRequestsProofs --------------------------
(***************************************************************************)
(* Proofs about the "run now" queue, for any requests, commands and        *)
(* consoles: type correctness for any number of daemons, and, for a store  *)
(* with one daemon, that nothing is launched for a request after its run   *)
(* and that an end is an end.                                              *)
(***************************************************************************)
EXTENDS RunRequests, TLAPS

\* What a table can hold.
ARequest == [cmd : Commands \cup {NoCommand}, status : OpenStatuses \cup FinalStatuses \cup {"none"},
             old : BOOLEAN, run : Daemons \cup {NoDaemon}]
Stages == {"down", "collect", "finish", "expire", "close", "scan", "claim", "drop", "start", "mark", "release"}
AClient == [at : {"idle", "insert", "cancel"}, cmd : Commands \cup {NoCommand}, id : Ids \cup {NoId}]

\* What a daemon may do.
Daemon(d) == \/ Start(d) \/ Work(d) \/ Trouble(d)
             \/ \E S \in SUBSET Ids : Crash(d, S) \/ Stop(d, S)
             \/ \E r \in Ids : SurvivorEnds(d, r)

\* A daemon that is to write a request holds one.
InHand == \A d \in Daemons : pc[d] \in {"finish", "claim", "drop", "start", "mark", "release"} => req[d] \in Ids

(***************************************************************************)
(* The inductive invariant behind NothingAfterTheRecordedRun and           *)
(* EndedStays, in a store with one daemon: between reading a request and writing it only a  *)
(* console can come, and all a console can do is to cancel.                *)
(***************************************************************************)
OneDaemon == \A d, e \in Daemons : d = e

\* The requests a run is recorded for.
Books == {r \in Ids : Recorded(r)}

\* They are never open to a claim again.
StartedRows == \A r \in Ids : r \in Books => Status(r) \in {"claimed", "started", "done", "cancelled"}

\* What expire_stale has read has not been claimed since.
SweptRows ==
    \A d \in Daemons : /\ stale[d] # {} => pc[d] = "expire"
                       /\ \A r \in stale[d] : r \notin Books /\ Status(r) \in {"pending", "cancelled"}

\* What is tracked was started.
TrackedRows ==
    \A d \in Daemons : /\ \A r \in tracked[d] : r \in Books
                       /\ pc[d] = "finish" => req[d] \in tracked[d]

\* What the daemon holds is as it read or wrote it, or cancelled.
HeldRows ==
    \A d \in Daemons :
        /\ pc[d] \in {"claim", "drop"} => req[d] \notin Books /\ Status(req[d]) \in {"pending", "cancelled"}
        /\ pc[d] \in {"start", "release"} => req[d] \notin Books /\ Status(req[d]) \in {"claimed", "cancelled"}
        /\ pc[d] = "mark" => req[d] \in Books /\ Status(req[d]) \in {"claimed", "cancelled"}

Once == TypeOK /\ InHand /\ StartedRows /\ SweptRows /\ TrackedRows /\ HeldRows

\* An update of one status leaves a table of requests.
LEMMA SetType ==
    ASSUME TypeOK, NEW r, NEW s \in OpenStatuses \cup FinalStatuses
    PROVE  Set(r, s) \in [Ids -> ARequest]
<1>1. requests \in [Ids -> ARequest] /\ s \in OpenStatuses \cup FinalStatuses \cup {"none"}
  BY DEF TypeOK, ARequest
<1>2. \A q \in Ids : [requests[q] EXCEPT !.status = s] \in ARequest
  BY <1>1 DEF ARequest
<1>3. QED
  BY <1>1, <1>2 DEF Set

LEMMA TypeInit == Init => TypeOK
  BY RequestConstants DEF Init, TypeOK, NoRequest, IdleClient, OpenStatuses, FinalStatuses

LEMMA ConsoleType ==
    ASSUME TypeOK, NEW k \in Clients, Console(k)
    PROVE  TypeOK'
<1>1. UNCHANGED <<starts, runs, pc, req, stale, wanted, tracked, outlived, lapses>>
  BY DEF Console, RequestReads, RequestInserts, CancelReads, CancelWrites, daemonVars
<1>2. client' \in [Clients -> AClient]
  <2>1. client \in [Clients -> AClient] /\ IdleClient \in AClient
    BY DEF TypeOK, AClient, IdleClient
  <2>2. \A c \in Commands : [at |-> "insert", cmd |-> c, id |-> NoId] \in AClient
    BY DEF AClient
  <2>3. \A r \in Ids : [at |-> "cancel", cmd |-> NoCommand, id |-> r] \in AClient
    BY DEF AClient
  <2>4. QED
    BY <2>1, <2>2, <2>3 DEF Console, RequestReads, RequestInserts, CancelReads, CancelWrites
<1>3. requests' \in [Ids -> ARequest]
  <2>1. ASSUME RequestInserts(k) PROVE requests' \in [Ids -> ARequest]
    <3>1. client[k].cmd \in Commands \cup {NoCommand} /\ requests \in [Ids -> ARequest]
      BY DEF TypeOK, ARequest
    <3>2. [cmd |-> client[k].cmd, status |-> "pending", old |-> FALSE, run |-> NoDaemon] \in ARequest
      BY <3>1 DEF ARequest, OpenStatuses
    <3>3. QED
      BY <2>1, <3>1, <3>2 DEF RequestInserts
  <2>2. ASSUME CancelWrites(k) PROVE requests' \in [Ids -> ARequest]
    BY <2>2, SetType DEF CancelWrites, FinalStatuses
  <2>3. QED
    BY <2>1, <2>2 DEF Console, RequestReads, CancelReads, TypeOK, ARequest
<1>4. QED
  BY <1>1, <1>2, <1>3 DEF TypeOK, ARequest, AClient

LEMMA TroubleType ==
    ASSUME TypeOK, InHand, NEW d \in Daemons, Trouble(d)
    PROVE  TypeOK'
<1> USE DEF Goto
<1>1. lapses' \in 0 .. MaxLapses
  <2>1. Lapse
    BY DEF Trouble, FinishFails, SweepFails, ReadFails, ClaimFails, LaunchUnrecorded, MarkFails, ReleaseFails
  <2>2. QED
    BY <2>1, RequestConstants DEF Lapse, TypeOK
<1>2. CASE FinishFails(d)
  BY <1>1, <1>2 DEF FinishFails, TypeOK
<1>3. CASE SweepFails(d) \/ ReadFails(d) \/ MarkFails(d)
  BY <1>1, <1>3 DEF SweepFails, ReadFails, MarkFails, TypeOK
<1>4. CASE ClaimFails(d)
  <2>1. requests' \in [Ids -> ARequest]
    BY <1>4, SetType DEF ClaimFails, OpenStatuses, FinalStatuses, TypeOK, ARequest
  <2>2. QED
    BY <1>1, <1>4, <2>1 DEF ClaimFails, TypeOK, ARequest
<1>5. CASE LaunchUnrecorded(d)
  <2>1. starts \in [Ids -> Nat] /\ starts' = [starts EXCEPT ![req[d]] = @ + 1] /\ req[d] \in Ids
    BY <1>5 DEF LaunchUnrecorded, TypeOK, InHand
  <2>2. starts' \in [Ids -> Nat]
    BY <2>1
  <2>3. QED
    BY <1>1, <1>5, <2>2 DEF LaunchUnrecorded, TypeOK
<1>6. CASE ReleaseFails(d)
  BY <1>1, <1>6 DEF ReleaseFails, AfterRelease, TypeOK
<1>7. QED
  BY <1>2, <1>3, <1>4, <1>5, <1>6 DEF Trouble

LEMMA DaemonType ==
    ASSUME TypeOK, InHand, NEW d \in Daemons, Daemon(d)
    PROVE  TypeOK'
<1> USE DEF Goto
<1>1. CASE Start(d)
  BY <1>1 DEF Start, TypeOK
<1>2. CASE \E S \in SUBSET Ids : Crash(d, S) \/ Stop(d, S)
  <2>1. PICK S \in SUBSET Ids : Crash(d, S) \/ Stop(d, S)
    BY <1>2
  <2>2. /\ pc' \in [Daemons -> Stages] /\ req' \in [Daemons -> Ids \cup {NoId}] /\ stale' \in [Daemons -> SUBSET Ids]
        /\ wanted' \in [Daemons -> SUBSET Commands] /\ tracked' \in [Daemons -> SUBSET Ids]
        /\ UNCHANGED <<requests, starts, client, lapses>>
    BY <2>1 DEF Crash, Stop, Forget, TypeOK, Stages
  <2>3. CASE Crash(d, S)
    <3>1. outlived' \in [Daemons -> SUBSET Ids] /\ runs' = runs
      BY <2>3 DEF Crash, TypeOK
    <3>2. QED
      BY <2>2, <3>1 DEF TypeOK, Stages
  <2>4. CASE Stop(d, S)
    <3>1. /\ runs \in [Daemons -> [Ids -> {"none", "running", "finished"}]] /\ outlived' = outlived
          /\ runs' = [runs EXCEPT ![d] = [r \in Ids |-> IF r \in S THEN "finished" ELSE runs[d][r]]]
      BY <2>4 DEF Stop, TypeOK
    <3>2. runs' \in [Daemons -> [Ids -> {"none", "running", "finished"}]]
      BY <3>1
    <3>3. QED
      BY <2>2, <3>1, <3>2 DEF TypeOK, Stages
  <2>5. QED
    BY <2>1, <2>3, <2>4
<1>3. CASE \E r \in Ids : CollectRun(d, r)
  BY <1>3 DEF CollectRun, TypeOK
<1>4. CASE FinishRequest(d)
  <2>1. requests' \in [Ids -> ARequest]
    BY <1>4, SetType DEF FinishRequest, FinalStatuses
  <2>2. QED
    BY <1>4, <2>1 DEF FinishRequest, TypeOK, ARequest
<1>5. CASE SweepReads(d)
  BY <1>5 DEF SweepReads, TypeOK
<1>6. CASE \E r \in Ids : SweepExpires(d, r)
  <2>1. requests' \in [Ids -> ARequest]
    BY <1>6, SetType DEF SweepExpires, FinalStatuses
  <2>2. QED
    BY <1>6, <2>1 DEF SweepExpires, TypeOK, ARequest
<1>7. CASE CloseFinished(d)
  <2>1. \A r \in Ids : requests[r] \in ARequest /\ [requests[r] EXCEPT !.status = "done"] \in ARequest
    <3>1. requests \in [Ids -> ARequest] /\ "done" \in OpenStatuses \cup FinalStatuses \cup {"none"}
      BY DEF TypeOK, ARequest, FinalStatuses
    <3>2. QED
      BY <3>1 DEF ARequest
  <2>2. requests' \in [Ids -> ARequest]
    BY <1>7, <2>1 DEF CloseFinished
  <2>3. QED
    BY <1>7, <2>2 DEF CloseFinished, TypeOK, ARequest
<1>8. CASE ReadsQueue(d)
  BY <1>8 DEF ReadsQueue, open_run_requests, TypeOK
<1>9. CASE EndScan(d) \/ \E c \in Commands : RequestWaits(d, c)
  <2>1. UNCHANGED <<requests, starts, runs, req, stale, tracked, outlived, client, lapses>>
    BY <1>9 DEF EndScan, RequestWaits
  <2>2. pc' \in [Daemons -> Stages] /\ wanted' \in [Daemons -> SUBSET Commands]
    <3>1. CASE EndScan(d)
      BY <3>1 DEF EndScan, TypeOK, Stages
    <3>2. CASE \E c \in Commands : RequestWaits(d, c)
      <4>1. PICK c \in Commands : RequestWaits(d, c)
        BY <3>2
      <4>2. pc' = pc /\ wanted' = [wanted EXCEPT ![d] = @ \ {c}]
        BY <4>1 DEF RequestWaits
      <4>3. pc \in [Daemons -> Stages] /\ wanted \in [Daemons -> SUBSET Commands]
        BY DEF TypeOK, Stages
      <4>4. QED
        BY <4>2, <4>3
    <3>3. QED
      BY <1>9, <3>1, <3>2
  <2>3. QED
    BY <2>1, <2>2 DEF TypeOK, Stages
<1>10. CASE \E c \in Commands : ClaimReads(d, c)
  <2>1. UNCHANGED <<requests, starts, runs, stale, tracked, outlived, client, lapses>>
    BY <1>10 DEF ClaimReads
  <2>2. wanted' \in [Daemons -> SUBSET Commands]
    BY <1>10 DEF ClaimReads, TypeOK
  <2>3. pc' \in [Daemons -> Stages]
    BY <1>10 DEF ClaimReads, TypeOK, Stages
  <2>4. req' \in [Daemons -> Ids \cup {NoId}]
    BY <1>10 DEF ClaimReads, PendingFor, TypeOK
  <2>5. QED
    BY <2>1, <2>2, <2>3, <2>4 DEF TypeOK, Stages
<1>11. CASE ClaimExpires(d)
  <2>1. requests' \in [Ids -> ARequest]
    BY <1>11, SetType DEF ClaimExpires, FinalStatuses
  <2>2. QED
    BY <1>11, <2>1 DEF ClaimExpires, TypeOK, ARequest
<1>12. CASE ClaimWrites(d)
  <2>1. requests' \in [Ids -> ARequest]
    BY <1>12, SetType DEF ClaimWrites, OpenStatuses, TypeOK, ARequest
  <2>2. QED
    BY <1>12, <2>1 DEF ClaimWrites, TypeOK, ARequest
<1>13. CASE Starts(d)
  <2>1. req[d] \in Ids \cup {NoId} /\ UNCHANGED <<requests, req, stale, wanted, outlived, client, lapses>>
    BY <1>13 DEF Starts, TypeOK
  <2>2. starts' \in [Ids -> Nat]
    <3>1. starts \in [Ids -> Nat] /\ starts' = [starts EXCEPT ![req[d]] = @ + 1] /\ req[d] \in Ids
      BY <1>13 DEF Starts, TypeOK, InHand
    <3>2. QED
      BY <3>1
  <2>3. runs' \in [Daemons -> [Ids -> {"none", "running", "finished"}]]
    BY <1>13, <2>1 DEF Starts, TypeOK
  <2>4. pc' \in [Daemons -> Stages]
    BY <1>13 DEF Starts, TypeOK, Stages
  <2>5. tracked' \in [Daemons -> SUBSET Ids]
    BY <1>13, <2>1 DEF Starts, TypeOK, InHand
  <2>6. QED
    BY <2>1, <2>2, <2>3, <2>4, <2>5 DEF TypeOK, Stages
<1>14. CASE MarkStarted(d)
  <2>1. requests' \in [Ids -> ARequest]
    <3>1. requests \in [Ids -> ARequest] /\ "started" \in OpenStatuses \cup FinalStatuses \cup {"none"}
      BY DEF TypeOK, ARequest, OpenStatuses
    <3>2. \A r \in Ids : [[requests[r] EXCEPT !.status = "started"] EXCEPT !.run = d] \in ARequest
      BY <3>1 DEF ARequest
    <3>3. requests' = [requests EXCEPT ![req[d]] = [[requests[req[d]] EXCEPT !.status = "started"] EXCEPT !.run = d]]
      BY <1>14, <3>1, Zenon DEF MarkStarted
    <3>4. QED
      BY <3>1, <3>2, <3>3
  <2>2. QED
    BY <1>14, <2>1 DEF MarkStarted, TypeOK, ARequest
<1>15. CASE StartRefused(d) \/ StartFails(d)
  BY <1>15 DEF StartRefused, StartFails, TypeOK
<1>16. CASE Release(d)
  <2>1. requests' \in [Ids -> ARequest]
    BY <1>16, SetType DEF Release, OpenStatuses, TypeOK, ARequest
  <2>2. QED
    BY <1>16, <2>1 DEF Release, AfterRelease, TypeOK, ARequest
<1>17. CASE \E r \in Ids : SurvivorEnds(d, r)
  BY <1>17 DEF SurvivorEnds, TypeOK
<1>18. CASE Trouble(d)
  BY <1>18, TroubleType
<1>19. QED
  BY <1>1, <1>2, <1>3, <1>4, <1>5, <1>6, <1>7, <1>8, <1>9, <1>10, <1>11, <1>12, <1>13, <1>14, <1>15, <1>16,
     <1>17, <1>18 DEF Work, Daemon

LEMMA TypeNext == TypeOK /\ InHand /\ [Next]_vars => TypeOK'
<1> SUFFICES ASSUME TypeOK, InHand, [Next]_vars PROVE TypeOK'
  OBVIOUS
<1>1. CASE \E r \in Ids : GrowsOld(r)
  <2>1. requests \in [Ids -> ARequest] /\ \A r \in Ids : [requests[r] EXCEPT !.old = TRUE] \in ARequest
    <3>1. requests \in [Ids -> ARequest]
      BY DEF TypeOK, ARequest
    <3>2. QED
      BY <3>1, Zenon DEF ARequest
  <2>2. requests' \in [Ids -> ARequest]
    BY <1>1, <2>1 DEF GrowsOld
  <2>3. QED
    BY <1>1, <2>2 DEF GrowsOld, daemonVars, TypeOK, ARequest
<1>2. CASE UNCHANGED vars
  BY <1>2 DEF vars, TypeOK
<1>3. QED
  BY <1>1, <1>2, ConsoleType, DaemonType DEF Next, Daemon

LEMMA InHandInit == Init => InHand
  BY DEF Init, InHand

LEMMA InHandNext == TypeOK /\ InHand /\ [Next]_vars => InHand'
<1> SUFFICES ASSUME TypeOK, InHand, [Next]_vars PROVE InHand'
  OBVIOUS
<1>1. CASE UNCHANGED <<pc, req>>
  BY <1>1 DEF InHand
<1>2. ASSUME NEW d \in Daemons, Daemon(d) PROVE InHand'
  <2>1. pc \in [Daemons -> Stages] /\ req \in [Daemons -> Ids \cup {NoId}]
    BY DEF TypeOK, Stages
  <2>2. \A e \in Daemons : e # d => pc'[e] = pc[e] /\ req'[e] = req[e]
    <3> USE DEF Goto
    <3>1. Start(d) \/ (\E S \in SUBSET Ids : Crash(d, S) \/ Stop(d, S)) \/ (\E r \in Ids : SurvivorEnds(d, r))
          => \A e \in Daemons : e # d => pc'[e] = pc[e] /\ req'[e] = req[e]
      BY <2>1 DEF Start, Crash, Stop, Forget, SurvivorEnds
    <3>2. (\E r \in Ids : CollectRun(d, r)) \/ FinishRequest(d) \/ SweepReads(d) \/ CloseFinished(d)
          => \A e \in Daemons : e # d => pc'[e] = pc[e] /\ req'[e] = req[e]
      BY <2>1 DEF CollectRun, FinishRequest, SweepReads, CloseFinished
    <3>3. (\E r \in Ids : SweepExpires(d, r)) \/ (\E c \in Commands : RequestWaits(d, c))
          => \A e \in Daemons : e # d => pc'[e] = pc[e] /\ req'[e] = req[e]
      BY <2>1 DEF SweepExpires, RequestWaits
    <3>4. ReadsQueue(d) \/ EndScan(d) \/ (\E c \in Commands : ClaimReads(d, c)) \/ ClaimExpires(d)
          => \A e \in Daemons : e # d => pc'[e] = pc[e] /\ req'[e] = req[e]
      BY <2>1 DEF ReadsQueue, EndScan, ClaimReads, ClaimExpires
    <3>5. ClaimWrites(d) \/ Starts(d) \/ MarkStarted(d) \/ StartRefused(d) \/ StartFails(d) \/ Release(d)
          => \A e \in Daemons : e # d => pc'[e] = pc[e] /\ req'[e] = req[e]
      BY <2>1 DEF ClaimWrites, Starts, MarkStarted, StartRefused, StartFails, Release, AfterRelease
    <3>6. Trouble(d) => \A e \in Daemons : e # d => pc'[e] = pc[e] /\ req'[e] = req[e]
      BY <2>1 DEF Trouble, FinishFails, SweepFails, ReadFails, ClaimFails, LaunchUnrecorded, MarkFails,
                  ReleaseFails, AfterRelease
    <3>7. QED
      BY <1>2, <3>1, <3>2, <3>3, <3>4, <3>5, <3>6 DEF Work, Daemon
  <2>3. pc'[d] \in {"finish", "claim", "drop", "start", "mark", "release"} => req'[d] \in Ids
    <3>1. CASE \E r \in Ids : CollectRun(d, r)
      BY <3>1, <2>1 DEF CollectRun, Goto
    <3>2. CASE \E c \in Commands : ClaimReads(d, c)
      BY <3>2, <2>1 DEF ClaimReads, PendingFor, Goto
    <3>3. CASE ClaimWrites(d) \/ Starts(d) \/ StartFails(d)
      BY <3>3, <2>1 DEF ClaimWrites, Starts, StartFails, Goto, InHand
    <3>4. CASE FinishRequest(d) \/ ClaimExpires(d) \/ MarkStarted(d) \/ StartRefused(d) \/ Release(d)
      BY <3>4, <2>1 DEF FinishRequest, ClaimExpires, MarkStarted, StartRefused, Release, AfterRelease, Goto
    <3>5. CASE Start(d) \/ SweepReads(d) \/ CloseFinished(d) \/ ReadsQueue(d) \/ EndScan(d)
      BY <3>5, <2>1 DEF Start, SweepReads, CloseFinished, ReadsQueue, EndScan, Goto
    <3>6. CASE (\E r \in Ids : SweepExpires(d, r)) \/ (\E c \in Commands : RequestWaits(d, c))
      BY <3>6, <2>1 DEF SweepExpires, RequestWaits, InHand
    <3>7. CASE \E S \in SUBSET Ids : Crash(d, S) \/ Stop(d, S)
      BY <3>7, <2>1 DEF Crash, Stop, Forget, Goto
    <3>8. CASE \E r \in Ids : SurvivorEnds(d, r)
      BY <3>8, <2>1 DEF SurvivorEnds, InHand
    <3>9. CASE Trouble(d)
      BY <3>9, <2>1 DEF Trouble, FinishFails, SweepFails, ReadFails, ClaimFails, LaunchUnrecorded, MarkFails,
                        ReleaseFails, AfterRelease, Goto, InHand
    <3>10. QED
      BY <1>2, <3>1, <3>2, <3>3, <3>4, <3>5, <3>6, <3>7, <3>8, <3>9 DEF Work, Daemon
  <2>4. QED
    BY <2>2, <2>3 DEF InHand
<1>3. QED
  BY <1>1, <1>2 DEF Next, Daemon, vars, daemonVars, Console, RequestReads, RequestInserts, CancelReads, CancelWrites,
                   GrowsOld

\* The table, the daemons and the consoles keep their types, for any number of each; a daemon that is to
\* mark, release or finish a request has the id of one.
THEOREM RequestsTypeCorrect == Spec => [](TypeOK /\ InHand)
<1>1. Init => TypeOK /\ InHand
  BY TypeInit, InHandInit
<1>2. TypeOK /\ InHand /\ [Next]_vars => (TypeOK /\ InHand)'
  BY TypeNext, InHandNext
<1>3. QED
  BY <1>1, <1>2, PTL DEF Spec
-----------------------------------------------------------------------------
\* What an update of one row makes of the statuses.
LEMMA SetStatus ==
    ASSUME TypeOK, NEW r \in Ids, NEW s
    PROVE  \A q \in Ids : Set(r, s)[q].status = IF q = r THEN s ELSE Status(q)
<1>1. requests \in [Ids -> ARequest]
  BY DEF TypeOK, ARequest
<1>2. \A q \in Ids : [requests[q] EXCEPT !.status = s].status = s
  BY <1>1 DEF ARequest
<1>3. QED
  BY <1>1, <1>2 DEF Set, Status

Parts == StartedRows /\ SweptRows /\ TrackedRows /\ HeldRows

\* A console, or time, writes new rows and cancels: no part of the invariant minds.
LEMMA ConsoleRows ==
    ASSUME Once, Books' = Books /\ UNCHANGED <<pc, req, stale, tracked>>,
           \A q \in Ids : \/ requests'[q].status \in {Status(q), "cancelled"}
                          \/ Status(q) = "none" /\ requests'[q].status = "pending"
    PROVE  Parts'
<1> USE DEF Once, Status
<1>1. StartedRows'
  BY DEF StartedRows
<1>2. SweptRows'
  BY DEF SweptRows, TypeOK
<1>3. TrackedRows'
  BY DEF TrackedRows
<1>4. HeldRows'
  BY DEF HeldRows, InHand
<1>5. QED
  BY <1>1, <1>2, <1>3, <1>4 DEF Parts

LEMMA ConsoleOnce ==
    ASSUME Once, NEW k \in Clients, Console(k)
    PROVE  Parts'
<1>1. Books' = Books /\ UNCHANGED <<pc, req, stale, tracked>>
  BY DEF Console, RequestReads, RequestInserts, CancelReads, CancelWrites, daemonVars, Books, Recorded
<1>2. \A q \in Ids : \/ requests'[q].status \in {Status(q), "cancelled"}
                     \/ Status(q) = "none" /\ requests'[q].status = "pending"
  <2>1. CASE RequestInserts(k)
    <3>1. requests \in [Ids -> ARequest]
      BY DEF Once, TypeOK, ARequest
    <3>2. QED
      BY <2>1, <3>1 DEF RequestInserts, Status, Has
  <2>2. CASE CancelWrites(k)
    <3>1. CASE client[k].id \in Ids
      BY <2>2, <3>1, SetStatus DEF CancelWrites, Status, Once
    <3>2. CASE client[k].id \notin Ids
      <4>1. requests \in [Ids -> ARequest]
        BY DEF Once, TypeOK, ARequest
      <4>2. QED
        BY <2>2, <3>2, <4>1 DEF CancelWrites, Status, Set
    <3>3. QED
      BY <3>1, <3>2
  <2>3. QED
    BY <2>1, <2>2 DEF Console, RequestReads, CancelReads, Status
<1>3. QED
  BY <1>1, <1>2, ConsoleRows

LEMMA TimeOnce ==
    ASSUME Once, NEW r \in Ids, GrowsOld(r)
    PROVE  Parts'
<1>1. requests \in [Ids -> ARequest] /\ \A q \in Ids : [requests[q] EXCEPT !.old = TRUE].status = requests[q].status
  BY DEF Once, TypeOK, ARequest
<1>2. \A q \in Ids : requests'[q].status = Status(q)
  BY <1>1 DEF GrowsOld, Status
<1>3. QED
  BY <1>2, ConsoleRows DEF GrowsOld, daemonVars, Books, Recorded

\* The daemon's steps that write no row and hold no request.
LEMMA IdleOnce ==
    ASSUME OneDaemon, Once, NEW d \in Daemons, Books' = Books,
           \A q \in Ids : requests'[q].status = Status(q) \/ (Status(q) = "started" /\ requests'[q].status = "done"),
           stale'[d] = {}, tracked'[d] \subseteq tracked[d],
           pc'[d] \in {"down", "collect", "close", "scan"}
    PROVE  Parts'
<1> USE DEF Once, OneDaemon, Status
<1>1. StartedRows'
  BY DEF StartedRows
<1>2. SweptRows'
  BY DEF SweptRows
<1>3. TrackedRows'
  BY DEF TrackedRows
<1>4. HeldRows'
  BY DEF HeldRows
<1>5. QED
  BY <1>1, <1>2, <1>3, <1>4 DEF Parts

\* A step after which the daemon holds a request: it is as the stage wants it, and nothing swept is left.
LEMMA HoldingOnce ==
    ASSUME OneDaemon, NEW d \in Daemons, NEW r, NEW stage,
           pc'[d] = stage, req'[d] = r, stale'[d] = {},
           stage = "finish" => r \in tracked'[d],
           \A q \in tracked'[d] : q \in Books',
           stage \in {"claim", "drop"} => r \notin Books' /\ requests'[r].status \in {"pending", "cancelled"},
           stage \in {"start", "release"} => r \notin Books' /\ requests'[r].status \in {"claimed", "cancelled"},
           stage = "mark" => r \in Books' /\ requests'[r].status \in {"claimed", "cancelled"}
    PROVE  SweptRows' /\ TrackedRows' /\ HeldRows'
<1> USE DEF OneDaemon, Status
<1>1. SweptRows'
  BY DEF SweptRows
<1>2. TrackedRows'
  BY DEF TrackedRows
<1>3. HeldRows'
  BY DEF HeldRows
<1>4. QED
  BY <1>1, <1>2, <1>3

\* The part of the invariant about the rows alone, where a start is not noted.
LEMMA RowsOnce ==
    ASSUME Once, Books' = Books,
           \A q \in Ids : \/ requests'[q].status = Status(q)
                          \/ requests'[q].status \in {"claimed", "started", "done", "cancelled"}
                          \/ q \notin Books
    PROVE  StartedRows'
  BY DEF Once, StartedRows, Status

\* A row that is closed stays in the books, and only a start enters one.
LEMMA BooksKept ==
    ASSUME Once, NEW d \in Daemons,
           \/ runs' = runs
           \/ Start(d)
           \/ \E r \in Ids : CollectRun(d, r)
           \/ \E S \in SUBSET Ids : Stop(d, S)
    PROVE  Books' = Books
<1>a. runs \in [Daemons -> [Ids -> {"none", "running", "finished"}]]
  BY DEF Once, TypeOK
<1>b. \A r \in tracked[d] : Recorded(r)
  BY DEF Once, TrackedRows, Books
<1>1. CASE runs' = runs
  BY <1>1 DEF Books, Recorded
<1>2. CASE Start(d)
  <2>1. \A e \in Daemons, r \in Ids : runs'[e][r] = "none" <=> runs[e][r] = "none"
    BY <1>2, <1>a DEF Start
  <2>2. QED
    BY <2>1 DEF Books, Recorded
<1>3. ASSUME NEW S \in SUBSET tracked[d],
             \A e \in Daemons, r \in Ids : runs'[e][r] = IF e = d /\ r \in S THEN "finished" ELSE runs[e][r]
      PROVE  Books' = Books
  <2>1. \A r \in Ids : Recorded(r)' <=> Recorded(r)
    <3>1. ASSUME NEW r \in Ids, Recorded(r)' PROVE Recorded(r)
      BY <3>1, <1>3, <1>b DEF Recorded
    <3>2. ASSUME NEW r \in Ids, Recorded(r) PROVE Recorded(r)'
      BY <3>2, <1>3, <1>b DEF Recorded
    <3>3. QED
      BY <3>1, <3>2
  <2>2. QED
    BY <2>1 DEF Books
<1>4. CASE \E r \in Ids : CollectRun(d, r)
  <2>1. PICK r \in Ids : r \in tracked[d] /\ runs' = [runs EXCEPT ![d][r] = "finished"]
    BY <1>4 DEF CollectRun
  <2>2. \A e \in Daemons, q \in Ids : runs'[e][q] = IF e = d /\ q \in {r} THEN "finished" ELSE runs[e][q]
    BY <2>1, <1>a
  <2>3. QED
    <3>1. {r} \in SUBSET tracked[d]
      BY <2>1
    <3>2. QED
      BY <2>2, <3>1, <1>3
<1>5. CASE \E S \in SUBSET Ids : Stop(d, S)
  <2>1. PICK S \in SUBSET Ids : Stop(d, S)
    BY <1>5
  <2>2. /\ S \subseteq tracked[d]
        /\ runs' = [runs EXCEPT ![d] = [r \in Ids |-> IF r \in S THEN "finished" ELSE runs[d][r]]]
    BY <2>1 DEF Stop
  <2>3. \A e \in Daemons, q \in Ids : runs'[e][q] = IF e = d /\ q \in S THEN "finished" ELSE runs[e][q]
    BY <2>2, <1>a
  <2>4. QED
    BY <2>2, <2>3, <1>3
<1>6. QED
  BY <1>1, <1>2, <1>4, <1>5

LEMMA DaemonOnce ==
    ASSUME OneDaemon, Once, NEW d \in Daemons, Daemon(d)
    PROVE  Parts'
<1> USE DEF Goto
<1>a. /\ TypeOK /\ InHand /\ StartedRows /\ SweptRows /\ TrackedRows /\ HeldRows
      /\ requests \in [Ids -> ARequest]
  BY DEF Once, TypeOK, ARequest
<1>b. /\ pc \in [Daemons -> Stages] /\ req \in [Daemons -> Ids \cup {NoId}]
      /\ stale \in [Daemons -> SUBSET Ids] /\ tracked \in [Daemons -> SUBSET Ids]
  BY <1>a DEF TypeOK, Stages
<1>c. /\ pc[d] # "expire" => stale[d] = {}
      /\ \A q \in tracked[d] : q \in Books
  BY <1>a DEF SweptRows, TrackedRows
<1>d. pc[d] \in {"finish", "claim", "drop", "start", "mark", "release"} => req[d] \in Ids
  BY <1>a DEF InHand
<1>e. runs' = runs => Books' = Books
  BY BooksKept
<1>1. CASE \/ Start(d) \/ ReadsQueue(d) \/ EndScan(d) \/ StartRefused(d) \/ FinishFails(d) \/ SweepFails(d)
           \/ ReadFails(d) \/ MarkFails(d) \/ ReleaseFails(d) \/ \E c \in Commands : RequestWaits(d, c)
           \/ \E S \in SUBSET Ids : Crash(d, S) \/ Stop(d, S)
  <2>1. Books' = Books
    <3>1. CASE \/ ReadsQueue(d) \/ EndScan(d) \/ StartRefused(d) \/ FinishFails(d) \/ SweepFails(d)
               \/ ReadFails(d) \/ MarkFails(d) \/ ReleaseFails(d) \/ \E c \in Commands : RequestWaits(d, c)
               \/ \E S \in SUBSET Ids : Crash(d, S)
      BY <3>1, <1>e DEF ReadsQueue, EndScan, StartRefused, FinishFails, SweepFails, ReadFails, MarkFails,
                        ReleaseFails, RequestWaits, Crash
    <3>2. QED
      BY <1>1, <3>1, BooksKept
  <2>2. /\ UNCHANGED requests /\ stale'[d] = {} /\ tracked'[d] \subseteq tracked[d]
        /\ pc'[d] \in {"down", "collect", "close", "scan"}
    BY <1>1, <1>b, <1>c DEF Start, Crash, Stop, Forget, ReadsQueue, EndScan, StartRefused, RequestWaits, FinishFails,
                            SweepFails, ReadFails, MarkFails, ReleaseFails, AfterRelease
  <2>3. QED
    BY <2>1, <2>2, IdleOnce DEF Status
<1>2. CASE \E r \in Ids : CollectRun(d, r)
  <2>1. PICK r \in Ids : CollectRun(d, r)
    BY <1>2
  <2>2. /\ pc'[d] = "finish" /\ req'[d] = r /\ Books' = Books /\ UNCHANGED <<requests, tracked, stale>>
        /\ r \in tracked[d] /\ stale[d] = {}
    BY <2>1, <1>b, <1>c, BooksKept DEF CollectRun
  <2>3. StartedRows'
    BY <2>2, RowsOnce DEF Status
  <2>4. QED
    BY <2>2, <2>3, <1>c, HoldingOnce DEF Parts
<1>3. CASE FinishRequest(d)
  <2>1. /\ pc'[d] = "collect" /\ Books' = Books /\ UNCHANGED <<stale>> /\ stale[d] = {} /\ tracked'[d] \subseteq tracked[d]
        /\ requests' = Set(req[d], "done")
    BY <1>3, <1>b, <1>c, <1>e DEF FinishRequest
  <2>2. \A q \in Ids : requests'[q].status \in {Status(q), "done"}
    BY <1>3, <1>a, <1>d, <2>1, SetStatus DEF FinishRequest
  <2>3. StartedRows'
    BY <2>1, <2>2, RowsOnce
  <2>4. SweptRows' /\ TrackedRows' /\ HeldRows'
    BY <2>1, <1>c, HoldingOnce
  <2>5. QED
    BY <2>3, <2>4 DEF Parts
<1>4. CASE SweepReads(d)
  <2>1. /\ pc'[d] = "expire" /\ Books' = Books /\ UNCHANGED <<requests, tracked>>
        /\ stale'[d] = {r \in Ids : Has(r, "pending") /\ requests[r].old}
    BY <1>4, <1>b, <1>e DEF SweepReads
  <2>2. StartedRows'
    BY <2>1, RowsOnce DEF Status
  <2>3. \A r \in stale'[d] : r \in Ids /\ r \notin Books /\ requests[r].status = "pending"
    BY <2>1, <1>a DEF Has, StartedRows, Status
  <2>4. SweptRows'
    BY <2>1, <2>3 DEF SweptRows, Status, OneDaemon
  <2>5. TrackedRows' /\ HeldRows'
    BY <2>1, <1>c DEF TrackedRows, HeldRows, OneDaemon
  <2>6. QED
    BY <2>2, <2>4, <2>5 DEF Parts
<1>5. CASE \E r \in Ids : SweepExpires(d, r)
  <2>1. PICK r \in Ids : SweepExpires(d, r)
    BY <1>5
  <2>2. /\ pc' = pc /\ pc[d] = "expire" /\ Books' = Books /\ UNCHANGED <<tracked>> /\ r \in stale[d]
        /\ stale'[d] = stale[d] \ {r} /\ requests' = Set(r, "expired")
    BY <2>1, <1>b, <1>e DEF SweepExpires
  <2>3. \A q \in Ids : requests'[q].status = IF q = r THEN "expired" ELSE Status(q)
    BY <2>2, <1>a, SetStatus
  <2>4. r \notin Books
    BY <2>2, <1>a DEF SweptRows
  <2>5. StartedRows'
    BY <2>2, <2>3, <2>4, RowsOnce
  <2>6. SweptRows'
    BY <2>2, <2>3, <1>a, <1>b DEF SweptRows, OneDaemon, Status
  <2>7. TrackedRows' /\ HeldRows'
    BY <2>2, <1>c DEF TrackedRows, HeldRows, OneDaemon
  <2>8. QED
    BY <2>5, <2>6, <2>7 DEF Parts
<1>6. CASE CloseFinished(d)
  <2>1. /\ pc'[d] = "close" /\ Books' = Books /\ UNCHANGED <<tracked>> /\ stale'[d] = {}
    BY <1>6, <1>b, <1>e DEF CloseFinished
  <2>2. \A q \in Ids : [requests[q] EXCEPT !.status = "done"].status = "done"
    BY <1>a DEF ARequest
  <2>3. \A q \in Ids : requests'[q].status = Status(q) \/ (Status(q) = "started" /\ requests'[q].status = "done")
    BY <1>6, <2>2 DEF CloseFinished, Status, Has
  <2>4. QED
    BY <2>1, <2>3, IdleOnce
<1>7. CASE \E c \in Commands : ClaimReads(d, c)
  <2>1. PICK c \in Commands : ClaimReads(d, c)
    BY <1>7
  <2>2. Books' = Books /\ UNCHANGED <<requests, stale, tracked>> /\ pc[d] = "scan" /\ stale[d] = {}
    BY <2>1, <1>c, <1>e DEF ClaimReads
  <2>3. CASE UNCHANGED <<pc, req>>
    BY <2>2, <2>3, IdleOnce DEF Status
  <2>4. CASE \E r \in PendingFor(c) : /\ req' = [req EXCEPT ![d] = r]
                                      /\ pc' = [pc EXCEPT ![d] = IF requests[r].old THEN "drop" ELSE "claim"]
    <3>1. PICK r \in PendingFor(c) : req'[d] = r /\ pc'[d] \in {"drop", "claim"}
      BY <2>4, <1>b
    <3>2. r \in Ids /\ requests[r].status = "pending" /\ r \notin Books
      BY <1>a DEF PendingFor, Has, StartedRows, Status
    <3>3. StartedRows'
      BY <2>2, RowsOnce DEF Status
    <3>4. QED
      BY <2>2, <3>1, <3>2, <3>3, <1>c, HoldingOnce DEF Parts
  <2>5. QED
    BY <2>1, <2>3, <2>4 DEF ClaimReads
<1>8. CASE ClaimExpires(d)
  <2>1. /\ pc'[d] = "scan" /\ Books' = Books /\ UNCHANGED <<stale, tracked>> /\ stale[d] = {} /\ req[d] \in Ids
        /\ requests' = Set(req[d], "expired") /\ req[d] \notin Books
    BY <1>8, <1>a, <1>b, <1>c, <1>d, <1>e DEF ClaimExpires, HeldRows
  <2>2. \A q \in Ids : requests'[q].status = IF q = req[d] THEN "expired" ELSE Status(q)
    BY <2>1, <1>a, SetStatus
  <2>3. StartedRows'
    BY <2>1, <2>2, RowsOnce
  <2>4. SweptRows' /\ TrackedRows' /\ HeldRows'
    BY <2>1, <1>c, HoldingOnce
  <2>5. QED
    BY <2>3, <2>4 DEF Parts
<1>9. CASE ClaimWrites(d)
  <2>1. /\ Books' = Books /\ UNCHANGED <<stale, tracked>> /\ stale[d] = {} /\ req[d] \in Ids /\ req[d] \notin Books
        /\ Status(req[d]) \in {"pending", "cancelled"} /\ pc[d] = "claim"
    BY <1>9, <1>a, <1>c, <1>d, <1>e DEF ClaimWrites, HeldRows
  <2>2. CASE Has(req[d], "pending")
    <3>1. requests' = Set(req[d], "claimed")
      BY <1>9, <2>2 DEF ClaimWrites
    <3>2. \A q \in Ids : requests'[q].status = IF q = req[d] THEN "claimed" ELSE Status(q)
      BY <3>1, <2>1, <1>a, SetStatus
    <3>3. pc'[d] = "start" /\ req' = req
      BY <1>9, <2>1, <3>2, <1>b DEF ClaimWrites
    <3>4. StartedRows'
      BY <2>1, <3>2, RowsOnce
    <3>5. SweptRows' /\ TrackedRows' /\ HeldRows'
      BY <2>1, <3>2, <3>3, <1>c, HoldingOnce
    <3>6. QED
      BY <3>4, <3>5 DEF Parts
  <2>3. CASE ~Has(req[d], "pending")
    <3>1. requests' = requests /\ requests[req[d]].status = "cancelled"
      BY <1>9, <2>1, <2>3 DEF ClaimWrites, Has, Status
    <3>2. pc'[d] = "scan"
      BY <1>9, <3>1, <1>b DEF ClaimWrites
    <3>3. QED
      BY <2>1, <3>1, <3>2, IdleOnce DEF Status
  <2>4. QED
    BY <2>2, <2>3
<1>10. CASE Starts(d)
  <2>1. /\ UNCHANGED <<requests, req, stale>> /\ stale[d] = {} /\ req[d] \in Ids /\ req[d] \notin Books
        /\ Status(req[d]) \in {"claimed", "cancelled"}
    BY <1>10, <1>a, <1>c, <1>d DEF Starts, HeldRows
  <2>2. /\ runs \in [Daemons -> [Ids -> {"none", "running", "finished"}]]
        /\ runs' = [runs EXCEPT ![d][req[d]] = "running"]
    BY <1>10, <1>a DEF Starts, TypeOK
  <2>3. Books' = Books \cup {req[d]}
    <3>1. \A e \in Daemons, q \in Ids : runs'[e][q] = IF e = d /\ q = req[d] THEN "running" ELSE runs[e][q]
      BY <2>1, <2>2
    <3>2. ASSUME NEW q \in Ids PROVE Recorded(q)' <=> Recorded(q) \/ q = req[d]
      BY <3>1 DEF Recorded
    <3>3. QED
      BY <2>1, <3>2 DEF Books
  <2>4. pc'[d] = "mark" /\ tracked'[d] = tracked[d] \cup {req[d]}
    BY <1>10, <1>b DEF Starts
  <2>5. StartedRows'
    BY <2>1, <2>3, <1>a DEF StartedRows, Status
  <2>6. \A q \in tracked'[d] : q \in Books'
    BY <2>1, <2>3, <2>4, <1>b, <1>c
  <2>7. SweptRows' /\ TrackedRows' /\ HeldRows'
    BY <2>1, <2>3, <2>4, <2>6, HoldingOnce DEF Status
  <2>8. QED
    BY <2>5, <2>7 DEF Parts
<1>11. CASE MarkStarted(d)
  <2>1. /\ Books' = Books /\ UNCHANGED <<stale, tracked>> /\ stale[d] = {} /\ req[d] \in Ids /\ pc'[d] = "scan"
    BY <1>11, <1>b, <1>c, <1>d, <1>e DEF MarkStarted
  <2>2. requests' = [requests EXCEPT ![req[d]] = [[requests[req[d]] EXCEPT !.status = "started"] EXCEPT !.run = d]]
    BY <1>11, <1>a, Zenon DEF MarkStarted
  <2>3. \A q \in Ids : [[requests[q] EXCEPT !.status = "started"] EXCEPT !.run = d].status = "started"
    BY <1>a DEF ARequest
  <2>4. \A q \in Ids : requests'[q].status \in {Status(q), "started"}
    BY <2>1, <2>2, <2>3, <1>a DEF Status
  <2>5. StartedRows'
    BY <2>1, <2>4, RowsOnce
  <2>6. SweptRows' /\ TrackedRows' /\ HeldRows'
    BY <2>1, <1>c, HoldingOnce
  <2>7. QED
    BY <2>5, <2>6 DEF Parts
<1>12. CASE StartFails(d) \/ LaunchUnrecorded(d)
  <2>1. /\ Books' = Books /\ UNCHANGED <<requests, req, stale, tracked>> /\ stale[d] = {} /\ req[d] \in Ids
        /\ pc'[d] = "release" /\ req[d] \notin Books /\ Status(req[d]) \in {"claimed", "cancelled"}
    BY <1>12, <1>a, <1>b, <1>c, <1>d, <1>e DEF StartFails, LaunchUnrecorded, HeldRows
  <2>2. StartedRows'
    BY <2>1, RowsOnce DEF Status
  <2>3. SweptRows' /\ TrackedRows' /\ HeldRows'
    BY <2>1, <1>c, HoldingOnce DEF Status
  <2>4. QED
    BY <2>2, <2>3 DEF Parts
<1>13. CASE Release(d)
  <2>1. /\ Books' = Books /\ UNCHANGED <<stale, tracked>> /\ stale[d] = {} /\ req[d] \in Ids
        /\ pc'[d] \in {"scan", "collect"} /\ req[d] \notin Books
    BY <1>13, <1>a, <1>b, <1>c, <1>d, <1>e DEF Release, AfterRelease, HeldRows
  <2>2. \A q \in Ids : requests'[q].status = Status(q) \/ q = req[d]
    BY <1>13, <2>1, <1>a, SetStatus DEF Release, Status
  <2>3. StartedRows'
    BY <2>1, <2>2, RowsOnce
  <2>4. SweptRows' /\ TrackedRows' /\ HeldRows'
    BY <2>1, <1>c, HoldingOnce
  <2>5. QED
    BY <2>3, <2>4 DEF Parts
<1>14. CASE ClaimFails(d)
  <2>1. /\ Books' = Books /\ UNCHANGED <<stale, tracked>> /\ stale[d] = {} /\ req[d] \in Ids
        /\ pc'[d] = "scan" /\ req[d] \notin Books
    BY <1>14, <1>a, <1>b, <1>c, <1>d, <1>e DEF ClaimFails, HeldRows
  <2>2. \A q \in Ids : requests'[q].status = Status(q) \/ q = req[d]
    BY <1>14, <2>1, <1>a, SetStatus DEF ClaimFails, Status
  <2>3. StartedRows'
    BY <2>1, <2>2, RowsOnce
  <2>4. SweptRows' /\ TrackedRows' /\ HeldRows'
    BY <2>1, <1>c, HoldingOnce
  <2>5. QED
    BY <2>3, <2>4 DEF Parts
<1>15. CASE \E r \in Ids : SurvivorEnds(d, r)
  <2>1. Books' = Books /\ UNCHANGED <<requests, pc, req, stale, tracked>>
    BY <1>15, <1>e DEF SurvivorEnds
  <2>2. QED
    BY <2>1, ConsoleRows DEF Status
<1>16. QED
  BY <1>1, <1>2, <1>3, <1>4, <1>5, <1>6, <1>7, <1>8, <1>9, <1>10, <1>11, <1>12, <1>13, <1>14, <1>15
     DEF Work, Trouble, Daemon

LEMMA OnceNext == OneDaemon /\ Once /\ [Next]_vars => Once'
<1> SUFFICES ASSUME OneDaemon, Once, [Next]_vars PROVE Once'
  OBVIOUS
<1>1. (TypeOK /\ InHand)'
  BY TypeNext, InHandNext DEF Once
<1>2. Parts'
  <2>1. CASE UNCHANGED vars
    BY <2>1, ConsoleRows DEF vars, Status, Books, Recorded
  <2>2. QED
    BY <2>1, ConsoleOnce, TimeOnce, DaemonOnce DEF Next, Daemon
<1>3. QED
  BY <1>1, <1>2 DEF Once, Parts

LEMMA OnceInit == Init => Once
<1> SUFFICES ASSUME Init PROVE Once
  OBVIOUS
<1>1. TypeOK /\ InHand
  BY TypeInit, InHandInit
<1>2. StartedRows /\ SweptRows /\ TrackedRows /\ HeldRows
  BY DEF Init, StartedRows, SweptRows, TrackedRows, HeldRows, Books, Recorded
<1>3. QED
  BY <1>1, <1>2 DEF Once

\* What one step may launch.
LaunchesFirst == \A r \in Ids : Recorded(r) => starts'[r] = starts[r]

LEMMA LaunchesNext == Once /\ [Next]_vars => [LaunchesFirst]_vars
<1> SUFFICES ASSUME Once, Next PROVE LaunchesFirst
  BY DEF vars
<1>1. CASE starts' = starts
  BY <1>1 DEF LaunchesFirst
<1>2. ASSUME NEW d \in Daemons, Starts(d) \/ LaunchUnrecorded(d) PROVE LaunchesFirst
  <2>1. /\ req[d] \in Ids /\ ~Recorded(req[d]) /\ starts \in [Ids -> Nat]
        /\ starts' = [starts EXCEPT ![req[d]] = @ + 1]
    BY <1>2 DEF Starts, LaunchUnrecorded, Once, TypeOK, InHand, HeldRows, Books
  <2>2. QED
    BY <2>1 DEF LaunchesFirst
<1>3. QED
  <2>1. ASSUME NEW d \in Daemons, Daemon(d) PROVE starts' = starts \/ Starts(d) \/ LaunchUnrecorded(d)
    BY <2>1 DEF Daemon, Start, Work, Trouble, Crash, Stop, SurvivorEnds, CollectRun, FinishRequest, SweepReads,
       SweepExpires, CloseFinished, ReadsQueue, RequestWaits, ClaimReads, ClaimExpires, ClaimWrites, MarkStarted,
       StartRefused, StartFails, Release, EndScan, FinishFails, SweepFails, ReadFails, ClaimFails, MarkFails, ReleaseFails
  <2>2. ASSUME NEW k \in Clients, Console(k) PROVE starts' = starts
    BY <2>2 DEF Console, RequestReads, RequestInserts, CancelReads, CancelWrites
  <2>3. QED
    BY <1>1, <1>2, <2>1, <2>2 DEF Next, Daemon, GrowsOld

\* In a store with one daemon, through every kill, failed statement and launch that could not be recorded,
\* and whatever the consoles do: once a run is recorded for a request nothing more is launched for it.
\* Claim, release and the two expiries may each come between a console's read and its write, and none
\* opens a request again that has its run.
THEOREM NothingLaunchedAfterItsRun ==
    ASSUME OneDaemon PROVE Spec => NothingAfterTheRecordedRun
<1>1. Init => Once
  BY OnceInit
<1>2. Once /\ [Next]_vars => Once'
  BY OnceNext
<1>3. Once /\ [Next]_vars => [LaunchesFirst]_vars
  BY LaunchesNext
<1>4. QED
  BY <1>1, <1>2, <1>3, PTL DEF Spec, NothingAfterTheRecordedRun, LaunchesFirst
-----------------------------------------------------------------------------
\* The fact that is about one step: what is done or expired stays so, or is cancelled.
EndStays ==
    \A r \in Ids : Status(r) \in {"done", "expired"} => requests'[r].status \in {Status(r), "cancelled"}

LEMMA ConsoleEnds ==
    ASSUME TypeOK, NEW k \in Clients, Console(k)
    PROVE  EndStays
<1>1. requests \in [Ids -> ARequest]
  BY DEF TypeOK, ARequest
<1>2. CASE RequestInserts(k)
  BY <1>1, <1>2 DEF RequestInserts, EndStays, Status, Has
<1>3. CASE CancelWrites(k)
  <2>1. CASE client[k].id \in Ids
    BY <1>3, <2>1, SetStatus DEF CancelWrites, EndStays
  <2>2. CASE client[k].id \notin Ids
    BY <1>1, <1>3, <2>2 DEF CancelWrites, EndStays, Status, Set
  <2>3. QED
    BY <2>1, <2>2
<1>4. QED
  BY <1>2, <1>3 DEF Console, RequestReads, CancelReads, EndStays, Status

LEMMA DaemonEnds ==
    ASSUME Once, NEW d \in Daemons, Daemon(d)
    PROVE  EndStays
<1> USE DEF Once
<1>1. requests \in [Ids -> ARequest]
  BY DEF TypeOK, ARequest
<1>2. CASE UNCHANGED requests
  BY <1>2 DEF EndStays, Status
<1>3. CASE FinishRequest(d)
  <2>1. req[d] \in Ids /\ Status(req[d]) # "expired" /\ requests' = Set(req[d], "done")
    BY <1>3 DEF FinishRequest, InHand, TrackedRows, StartedRows
  <2>2. QED
    BY <2>1, SetStatus DEF EndStays
<1>4. CASE \E r \in Ids : SweepExpires(d, r)
  <2>1. PICK r \in Ids : Status(r) \in {"pending", "cancelled"} /\ requests' = Set(r, "expired")
    BY <1>4 DEF SweepExpires, SweptRows
  <2>2. QED
    BY <2>1, SetStatus DEF EndStays
<1>5. CASE CloseFinished(d)
  BY <1>1, <1>5 DEF CloseFinished, EndStays, Status, Has
<1>6. CASE ClaimExpires(d)
  <2>1. req[d] \in Ids /\ Status(req[d]) \in {"pending", "cancelled"} /\ requests' = Set(req[d], "expired")
    BY <1>6 DEF ClaimExpires, InHand, HeldRows
  <2>2. QED
    BY <2>1, SetStatus DEF EndStays
<1>7. CASE ClaimWrites(d) /\ requests' # requests
  <2>1. req[d] \in Ids /\ Status(req[d]) = "pending" /\ requests' = Set(req[d], "claimed")
    BY <1>7 DEF ClaimWrites, InHand, Has, Status
  <2>2. QED
    BY <2>1, SetStatus DEF EndStays
<1>8. CASE MarkStarted(d)
  <2>1. req[d] \in Ids /\ Status(req[d]) \in {"claimed", "cancelled"}
    BY <1>8 DEF MarkStarted, InHand, HeldRows
  <2>2. \A q \in Ids : q # req[d] => requests'[q] = requests[q]
    BY <1>1, <1>8, <2>1 DEF MarkStarted
  <2>3. QED
    BY <2>1, <2>2 DEF EndStays, Status
<1>9. CASE Release(d) /\ requests' # requests
  <2>1. req[d] \in Ids /\ Status(req[d]) = "claimed" /\ requests' = Set(req[d], "pending")
    BY <1>9 DEF Release, InHand, Has, Status
  <2>2. QED
    BY <2>1, SetStatus DEF EndStays
<1>10. CASE ClaimFails(d)
  <2>1. /\ req[d] \in Ids /\ Status(req[d]) \in {"pending", "cancelled"}
        /\ \/ UNCHANGED requests
           \/ \E s \in {"claimed", "expired"} : requests' = Set(req[d], s)
    BY <1>10 DEF ClaimFails, InHand, HeldRows
  <2>2. QED
    BY <2>1, SetStatus DEF EndStays, Status
<1>11. QED
  BY <1>2, <1>3, <1>4, <1>5, <1>6, <1>7, <1>8, <1>9, <1>10 DEF Daemon, Work, Trouble, Start, Crash, Stop,
     SurvivorEnds, CollectRun, SweepReads, ReadsQueue, EndScan, RequestWaits, ClaimReads, Starts, StartRefused,
     StartFails, FinishFails, SweepFails, ReadFails, LaunchUnrecorded, MarkFails, ReleaseFails

LEMMA EndsNext == Once /\ [Next]_vars => [EndStays]_vars
<1> SUFFICES ASSUME Once, Next PROVE EndStays
  BY DEF vars
<1>1. CASE \E r \in Ids : GrowsOld(r)
  <2>1. requests \in [Ids -> ARequest] /\ \A q \in Ids : [requests[q] EXCEPT !.old = TRUE].status = requests[q].status
    BY DEF Once, TypeOK, ARequest
  <2>2. QED
    BY <1>1, <2>1 DEF GrowsOld, EndStays, Status
<1>2. QED
  BY <1>1, ConsoleEnds, DaemonEnds DEF Next, Once, Daemon

\* With one daemon on the store, an end is an end: no sweep, restart, late mark or release opens a
\* request that is done or expired or gives it another end, and only the console that read it while it
\* was pending may still write its cancellation over it.
THEOREM RequestEndedStays ==
    ASSUME OneDaemon PROVE Spec => EndedStays
<1>1. Init => Once
  BY OnceInit
<1>2. Once /\ [Next]_vars => Once'
  BY OnceNext
<1>3. Once /\ [Next]_vars => [EndStays]_vars
  BY EndsNext
<1>4. QED
  BY <1>1, <1>2, <1>3, PTL DEF Spec, EndedStays, EndStays
=============================================================================
