------------------------------ MODULE Offload -------------------------------
(***************************************************************************)
(* The repository copy of a backup entry: dbabrain/backup_restore/offload  *)
(* over the backup catalogue (dbabrain/db/backup_catalog) and the copy     *)
(* gate (dbabrain/backup_restore/copy_gate).                               *)
(*                                                                         *)
(* A pass lists what there is to do, claims the entry, copies files to the *)
(* repository and proves each by its hash, deletes on the server what is   *)
(* proven, and deletes on the repository what has outlived its retention.  *)
(* Passes are processes: two may run beside each other, and any may be     *)
(* killed between two steps.  A step is one call, to the store or to a     *)
(* host.                                                                   *)
(*                                                                         *)
(* The backups are those of one database, numbered in the order they       *)
(* ended.  A file's bytes are what a hash says of them: "good" is what the *)
(* backup recorded, "bad" anything else.                                   *)
(***************************************************************************)
EXTENDS Integers, FiniteSets, FiniteSetsExt

CONSTANTS
    Files,          \* backup files, numbered by backup_ended_at
    Fulls,          \* those of the level full; the others depend on the full before them
    Start,          \* chain_start of a full: the first file that ended after its run began
    Directories,    \* base backups that are directories (HASHED_MEMBER)
    StayYoung,      \* files that never outlive their retention: 0 keeps a level for good
    Passes,
    Host,           \* the host each pass runs on
    PerPass,        \* offload_files_per_pass
    DeleteSource,   \* offload_delete_source
    Lockdowns,      \* may a pass find a lockdown on?
    Harmable        \* Bound: <<place, file, what becomes of it>>: what something outside may do

ASSUME OffloadConstants ==
    /\ Files \subseteq Nat /\ IsFiniteSet(Files)
    /\ Fulls \subseteq Files /\ Directories \subseteq Fulls
    /\ Start \in [Fulls -> Files] /\ \A g \in Fulls : Start[g] <= g
    /\ \A g, h \in Fulls : g < h => g < Start[h]
    /\ StayYoung \subseteq Files
    /\ PerPass \in Nat \ {0} /\ Harmable \subseteq {"server", "repo"} \X Files \X {"none", "bad"}
    /\ DeleteSource \in BOOLEAN /\ Lockdowns \in BOOLEAN

VARIABLES
    rows,       \* backup_files: state, offload_state, whether source_deleted_at is set, the pause of a failed copy
    server,     \* the bytes of each file on its server
    repo,       \* and on the repository
    past,       \* files older than the retention of their level
    pass,       \* of each pass: its step and what it has read
    harmed      \* history: files something outside has removed or changed

vars == <<rows, server, repo, past, pass, harmed>>

Off == [stage |-> "off", copies |-> {}, sources |-> {}, expire |-> FALSE, todo |-> {}, good |-> {}, gone |-> {}]

Up(p) == pass[p].stage \notin {"off", "dead"}
Recorded == {f \in Files : rows[f].state # "none"}
SetRow(f, r) == rows' = [rows EXCEPT ![f] = r]
SetPass(p, t) == pass' = [pass EXCEPT ![p] = t]

\* The first n of a set of files, oldest first.
Oldest(n, S) == {f \in S : Cardinality({g \in S : g < f}) < n}
IsFirst(f, S) == f \in S /\ \A g \in S : f <= g

Init ==
    /\ rows = [f \in Files |-> [state |-> "none", copy |-> "pending", released |-> FALSE, pause |-> "over"]]
    /\ server = [f \in Files |-> "none"]
    /\ repo = [f \in Files |-> "none"]
    /\ past = {}
    /\ pass = [p \in Passes |-> Off]
    /\ harmed = {}
-----------------------------------------------------------------------------
\* record_backup: a backup run has ended and its file is catalogued, waiting for its copy.
Record(f) ==
    /\ rows[f].state = "none"
    /\ \A g \in Files : g < f => rows[g].state # "none"
    /\ server' = [server EXCEPT ![f] = "good"]
    /\ SetRow(f, [rows[f] EXCEPT !.state = "present"])
    /\ UNCHANGED <<repo, past, pass, harmed>>

\* A file outlives the retention of its level, after the older ones of that level.
OutlivesRetention(f) ==
    /\ f \in Recorded \ (past \cup StayYoung)
    /\ \A g \in Files \ past : (g \in Fulls <=> f \in Fulls) => g >= f
    /\ past' = past \cup {f}
    /\ UNCHANGED <<rows, server, repo, pass, harmed>>

\* Something that is not the offload removes or changes a file, on the server or on the repository.
Harm(f) ==
    /\ harmed' = harmed \cup {f}
    /\ \E v \in {"none", "bad"} :
           \/ /\ <<"server", f, v>> \in Harmable /\ server[f] # "none"
              /\ server' = [server EXCEPT ![f] = v] /\ UNCHANGED repo
           \/ /\ <<"repo", f, v>> \in Harmable /\ repo[f] # "none"
              /\ repo' = [repo EXCEPT ![f] = v] /\ UNCHANGED server
    /\ UNCHANGED <<rows, past, pass>>

\* verify_backup_files: the scrub holds a file on its server to its recorded checksum.  A file that is
\* gone reads "pruned" when the backup script's own retention may have taken it, and "missing" if not.
Scrub(f) ==
    /\ rows[f].state \notin {"none", "pruned"}
    /\ \E s \in (CASE server[f] = "good" -> {"present"}
                   [] server[f] = "bad"  -> {"mismatch"}
                   [] server[f] = "none" -> {"missing", "pruned"}) :
           SetRow(f, [rows[f] EXCEPT !.state = s])
    /\ UNCHANGED <<server, repo, past, pass, harmed>>

\* offload_retry_interval_seconds are over; passes come a second apart, so one has looked meanwhile.
PauseEnds(f) ==
    /\ rows[f].pause = "seen"
    /\ SetRow(f, [rows[f] EXCEPT !.pause = "over"])
    /\ UNCHANGED <<server, repo, past, pass, harmed>>
-----------------------------------------------------------------------------
(***************************************************************************)
(* What the catalogue answers.                                             *)
(***************************************************************************)

ToCopy == {f \in Files : rows[f].state = "present" /\ rows[f].copy \in {"pending", "failed"}}

\* Altered: the failures that wait out their pause are dropped from the batch, not kept out of it.
files_to_offload_LimitFirst == {f \in Oldest(PerPass, ToCopy) : rows[f].pause = "over"}

\* files_to_offload: still on the server, no proven copy, and no pause after a failure.
files_to_offload == Oldest(PerPass, {f \in ToCopy : rows[f].pause = "over"})

\* Altered: the newest chain begins where its full ended.
Floors_AtTheEnd == {g \in Fulls : rows[g].state = "present"}

\* _chain_floor_sql: where the chains begin whose full the catalogue has on the server.
Floors == {Start[g] : g \in {g \in Fulls : rows[g].state = "present"}}

\* Altered: older than every chain on the server.
BelowFloor_OfAll(f) == Floors # {} /\ \A s \in Floors : f < s

\* Older than the newest chain on the server; with no full there, nothing is.
BelowFloor(f) == \E s \in Floors : f < s

\* files_to_release: proven, still on the server, below its newest chain and no directory.
files_to_release ==
    Oldest(PerPass, {f \in Files \ Directories : /\ rows[f].state = "present" /\ rows[f].copy = "verified"
                                                 /\ ~rows[f].released /\ BelowFloor(f)})

\* repository_copies: what the catalogue has on the repository.
Copies == {f \in Files : rows[f].copy = "verified"}

\* The full on the repository whose chain a copy belongs to: the last one begun before it ended.
Owns(g, f) == Start[g] <= f /\ \A h \in Copies \cap Fulls : Start[h] <= f => h <= g

\* Altered: the newest chain expires like every other.
expiry_plan_NewestToo ==
    LET fulls == Copies \cap Fulls
    IN  IF fulls = {} THEN {} ELSE Copies \cap past

\* The last full on the repository begins its chain after the file.
BeforeTheNewest(f) ==
    \E g \in Copies \cap Fulls : f < Start[g] /\ \A h \in Copies \cap Fulls : h <= g

\* Altered: a full goes by its own age.
expiry_plan_FullAlone == {f \in Copies \cap past : BeforeTheNewest(f)}

\* expiry_plan: past its retention, not in the newest chain; a full only with all that depends on it.
expiry_plan ==
    {f \in Copies \cap past :
        /\ BeforeTheNewest(f)
        /\ f \in Fulls => \A d \in Copies \ Fulls : Owns(f, d) => d \in past}

\* Altered: the store takes whatever a pass reports.
TakesFailure_Always(f) == TRUE

\* _hold_offload: the store takes a failure of a copy only while its source has not been deleted for it.
TakesFailure(f) == ~rows[f].released
-----------------------------------------------------------------------------
(***************************************************************************)
(* A pass.                                                                 *)
(***************************************************************************)

\* run_offloads: the lists are read before the claim, and whether a lockdown is on with them.  With
\* nothing to do no run is started.
List(p) ==
    /\ ~Up(p)
    /\ \E locked \in {FALSE, Lockdowns} :
           LET t == [Off EXCEPT !.copies = files_to_offload,
                                !.sources = IF DeleteSource /\ ~locked THEN files_to_release ELSE {},
                                !.expire = expiry_plan # {}]
           IN  SetPass(p, IF t = Off THEN Off ELSE [t EXCEPT !.stage = "listed"])
    /\ rows' = [f \in Files |-> IF rows[f].pause = "fresh" THEN [rows[f] EXCEPT !.pause = "seen"] ELSE rows[f]]
    /\ UNCHANGED <<server, repo, past, harmed>>

\* Altered: a run takes no claim.
Claimed_Never(h) == FALSE

\* A live pass of the host holds the entry.
Claimed(h) == \E q \in Passes : Host[q] = h /\ Up(q) /\ pass[q].stage # "listed"

\* _run_one: copy, then release, then expire, each if its list had something.
AfterRelease(t) == IF t.expire THEN [Off EXCEPT !.stage = "plan", !.expire = TRUE] ELSE Off
AfterCopy(t) == IF t.sources # {} THEN [Off EXCEPT !.stage = "floor", !.sources = t.sources, !.expire = t.expire]
                ELSE AfterRelease(t)

\* start_run, refused while another pass of the host holds the claim.
Claim(p) ==
    /\ pass[p].stage = "listed"
    /\ SetPass(p, CASE Claimed(Host[p]) -> Off
                    [] ~Claimed(Host[p]) /\ pass[p].copies # {} -> [pass[p] EXCEPT !.stage = "hash"]
                    [] OTHER -> AfterCopy(pass[p]))
    /\ UNCHANGED <<rows, server, repo, past, harmed>>

\* The claim of a pass that died is reaped (see RunClaim), or holds the entry still: the entry has no
\* timeout (reap_stale_runs), or a process of somebody else has the pid.
HeldByTheDead(p) ==
    /\ pass[p].stage = "listed" /\ ~Claimed(Host[p])
    /\ \E q \in Passes : Host[q] = Host[p] /\ pass[q].stage = "dead"
    /\ SetPass(p, Off)
    /\ UNCHANGED <<rows, server, repo, past, harmed>>

\* Files are left to try, or the rows of the whole batch are written next.
Copying(t) == IF t.todo # {} THEN [t EXCEPT !.stage = "copy"] ELSE [t EXCEPT !.stage = "mark", !.todo = t.copies]

\* _items finds the batch's files, listing each directory, and copy_verified_batch has them hashed on their
\* server; only unchanged ones go on.  A directory that was gone when it was listed has no file that could
\* be missing from it.
HashSources(p) ==
    /\ pass[p].stage = "hash"
    /\ LET gone == {f \in pass[p].copies : server[f] = "none"}
       IN  \E unlisted \in SUBSET (gone \cap Directories) :
               SetPass(p, [pass[p] EXCEPT !.stage = "look", !.gone = gone \ unlisted,
                                          !.todo = {f \in pass[p].copies : server[f] = "good"}])
    /\ UNCHANGED <<rows, server, repo, past, harmed>>

\* _items raises, for a host that lists nothing or a file that is not under the share's folder, or the run's
\* row is refused: the run is over with no row failed and no pause, its release and its expiry left out, and
\* the next pass takes the same batch.
ItemsRaise(p) ==
    /\ pass[p].stage = "hash"
    /\ SetPass(p, Off)
    /\ UNCHANGED <<rows, server, repo, past, harmed>>

\* The repository hashed: what is there with the same bytes is not copied.
HashTargets(p) ==
    /\ pass[p].stage = "look"
    /\ SetPass(p, Copying([pass[p] EXCEPT !.todo = {f \in @ : repo[f] # "good"},
                                          !.good = {f \in pass[p].todo : repo[f] = "good"}]))
    /\ UNCHANGED <<rows, server, repo, past, harmed>>

\* What may stand on the repository after the rounds of one file: what stood there, when no copy
\* arrived (it is written under a partial name), the bytes of the source, or garbled ones.
Arrives(f) == {repo[f]} \cup (IF server[f] = "none" THEN {} ELSE {server[f], "bad"})

\* The rounds of a file: it is proven when its hash there is the source's.
CopyFile(p, f) ==
    /\ pass[p].stage = "copy" /\ IsFirst(f, pass[p].todo)
    /\ \E v \in Arrives(f) :
           /\ repo' = [repo EXCEPT ![f] = v]
           /\ SetPass(p, Copying([pass[p] EXCEPT !.todo = @ \ {f}, !.good = IF v = "good" THEN @ \cup {f} ELSE @]))
    /\ UNCHANGED <<rows, server, past, harmed>>

\* From the hashes on, a host that does not answer fails every row of the batch, and the run ends in error.
CopyRaises(p) ==
    /\ pass[p].stage \in {"hash", "look", "copy"}
    /\ SetPass(p, [pass[p] EXCEPT !.stage = "raised", !.todo = pass[p].copies, !.good = {}, !.gone = {}])
    /\ UNCHANGED <<rows, server, repo, past, harmed>>

\* The rows of a batch are written one by one; after a raise the run is over with the last.
Marking(t) == CASE t.todo # {} -> t
                [] t.todo = {} /\ t.stage = "raised" -> Off
                [] OTHER -> AfterCopy(t)

\* The row of a copy that is not proven.  A file that was gone from its server leaves the set to copy.
Failed(r, gone) ==
    [r EXCEPT !.copy = "failed", !.pause = "fresh",
              !.state = IF gone /\ r.state # "pruned" THEN "missing" ELSE r.state]

\* Altered: a copy that travelled without an error is verified.
MarkCopied_OnItsWord(p, f) ==
    /\ pass[p].stage \in {"mark", "raised"} /\ IsFirst(f, pass[p].todo)
    /\ LET t == [pass[p] EXCEPT !.todo = @ \ {f}]
       IN  \/ /\ repo[f] # "none"
              /\ SetRow(f, [rows[f] EXCEPT !.copy = "verified"])
              /\ SetPass(p, Marking(t))
           \/ /\ repo[f] = "none" /\ TakesFailure(f)
              /\ SetRow(f, Failed(rows[f], f \in t.gone))
              /\ SetPass(p, Marking(t))
           \/ /\ repo[f] = "none" /\ ~TakesFailure(f)
              /\ SetPass(p, Off)
              /\ UNCHANGED rows
    /\ UNCHANGED <<server, repo, past, harmed>>

\* offload_entry: a row of the batch is verified or failed; the store may refuse, which ends the run.
MarkCopied(p, f) ==
    /\ pass[p].stage \in {"mark", "raised"} /\ IsFirst(f, pass[p].todo)
    /\ LET t == [pass[p] EXCEPT !.todo = @ \ {f}]
       IN  \/ /\ f \in t.good
              /\ SetRow(f, [rows[f] EXCEPT !.copy = "verified"])
              /\ SetPass(p, Marking(t))
           \/ /\ f \notin t.good /\ TakesFailure(f)
              /\ SetRow(f, Failed(rows[f], f \in t.gone))
              /\ SetPass(p, Marking(t))
           \/ /\ f \notin t.good /\ ~TakesFailure(f)
              /\ SetPass(p, Off)
              /\ UNCHANGED rows
    /\ UNCHANGED <<server, repo, past, harmed>>
-----------------------------------------------------------------------------
\* release_sources: the floor is read again, and the listed files at or above it are kept.
ReadFloor(p) ==
    /\ pass[p].stage = "floor"
    /\ LET candidates == {f \in pass[p].sources \ Directories : BelowFloor(f)}
       IN  SetPass(p, IF candidates = {} THEN AfterRelease(pass[p])
                      ELSE [pass[p] EXCEPT !.stage = "rehash", !.todo = candidates, !.sources = {}])
    /\ UNCHANGED <<rows, server, repo, past, harmed>>

\* The next step of a release once no candidate is left to refuse.
ToDelete(t) == IF t.todo # {} THEN [t EXCEPT !.stage = "refuse"]
               ELSE IF t.good # {} THEN [t EXCEPT !.stage = "delete", !.todo = t.good, !.good = {}]
               ELSE AfterRelease(t)

\* The copies are hashed again, right before the delete that relies on them.
Rehash(p) ==
    /\ pass[p].stage = "rehash"
    /\ SetPass(p, ToDelete([pass[p] EXCEPT !.todo = {f \in @ : repo[f] # "good"},
                                           !.good = {f \in pass[p].todo : repo[f] = "good"}]))
    /\ UNCHANGED <<rows, server, repo, past, harmed>>

\* A copy that changed or vanished: failed, and its source kept.
RefuseRelease(p, f) ==
    /\ pass[p].stage = "refuse" /\ IsFirst(f, pass[p].todo)
    /\ IF TakesFailure(f)
       THEN /\ SetRow(f, [rows[f] EXCEPT !.copy = "failed"])
            /\ SetPass(p, ToDelete([pass[p] EXCEPT !.todo = @ \ {f}]))
       ELSE SetPass(p, Off) /\ UNCHANGED rows
    /\ UNCHANGED <<server, repo, past, harmed>>

\* delete-files answers file by file, "not_found" counting as deleted; or the answer is an error and
\* no row is written, whatever it has deleted.
Deleted(todo, disk) == {S \in SUBSET todo : \A f \in todo : disk[f] = "none" => f \in S}

\* The delete at the source.
DeleteSources(p) ==
    /\ pass[p].stage = "delete"
    /\ \E S \in Deleted(pass[p].todo, server), answered \in BOOLEAN :
           /\ server' = [f \in Files |-> IF f \in S THEN "none" ELSE server[f]]
           /\ SetPass(p, IF S = {} \/ ~answered THEN AfterRelease(pass[p])
                         ELSE [pass[p] EXCEPT !.stage = "prune", !.todo = S])
    /\ UNCHANGED <<rows, repo, past, harmed>>

\* The row says pruned and source_deleted_at, which the store takes only for a copy that was verified.
MarkPruned(p, f) ==
    /\ pass[p].stage = "prune" /\ IsFirst(f, pass[p].todo)
    /\ IF rows[f].copy \in {"verified", "expired"}
       THEN /\ SetRow(f, [rows[f] EXCEPT !.state = "pruned", !.released = TRUE])
            /\ LET t == [pass[p] EXCEPT !.todo = @ \ {f}]
               IN  SetPass(p, IF t.todo = {} THEN AfterRelease(t) ELSE t)
       ELSE SetPass(p, Off) /\ UNCHANGED rows
    /\ UNCHANGED <<server, repo, past, harmed>>
-----------------------------------------------------------------------------
\* prune_repository: the plan is made again.
Plan(p) ==
    /\ pass[p].stage = "plan"
    /\ SetPass(p, IF expiry_plan = {} THEN Off ELSE [pass[p] EXCEPT !.stage = "cull", !.todo = expiry_plan])
    /\ UNCHANGED <<rows, server, repo, past, harmed>>

\* The delete on the repository.
DeleteCopies(p) ==
    /\ pass[p].stage = "cull"
    /\ \E S \in Deleted(pass[p].todo, repo), answered \in BOOLEAN :
           /\ repo' = [f \in Files |-> IF f \in S THEN "none" ELSE repo[f]]
           /\ SetPass(p, IF S = {} \/ ~answered THEN Off ELSE [pass[p] EXCEPT !.stage = "expire", !.todo = S])
    /\ UNCHANGED <<rows, server, past, harmed>>

\* A copy whose files are gone is expired.
MarkExpired(p, f) ==
    /\ pass[p].stage = "expire" /\ IsFirst(f, pass[p].todo)
    /\ SetRow(f, [rows[f] EXCEPT !.copy = "expired"])
    /\ SetPass(p, IF pass[p].todo = {f} THEN Off ELSE [pass[p] EXCEPT !.todo = @ \ {f}])
    /\ UNCHANGED <<server, repo, past, harmed>>

\* The pass is killed, or raises where nothing is written before the run's own error row.
Dies(p) ==
    /\ Up(p)
    /\ SetPass(p, [Off EXCEPT !.stage = "dead"])
    /\ UNCHANGED <<rows, server, repo, past, harmed>>

Works(p) ==
    \/ Claim(p) \/ HashSources(p) \/ HashTargets(p) \/ ReadFloor(p) \/ Rehash(p)
    \/ DeleteSources(p) \/ Plan(p) \/ DeleteCopies(p)
    \/ \E f \in Files : \/ CopyFile(p, f) \/ MarkCopied(p, f) \/ RefuseRelease(p, f)
                        \/ MarkPruned(p, f) \/ MarkExpired(p, f)

\* What keeps it from its work.
Fails(p) == HeldByTheDead(p) \/ ItemsRaise(p) \/ CopyRaises(p) \/ Dies(p)

Next ==
    \/ \E f \in Files : Record(f) \/ OutlivesRetention(f) \/ Harm(f) \/ Scrub(f) \/ PauseEnds(f)
    \/ \E p \in Passes : List(p) \/ Works(p) \/ Fails(p)

Spec == Init /\ [][Next]_vars
-----------------------------------------------------------------------------
TypeOK ==
    /\ rows \in [Files -> [state : {"none", "present", "missing", "mismatch", "pruned"},
                           copy : {"pending", "verified", "failed", "expired"},
                           released : BOOLEAN, pause : {"over", "fresh", "seen"}]]
    /\ server \in [Files -> {"none", "good", "bad"}]
    /\ repo \in [Files -> {"none", "good", "bad"}]
    /\ past \subseteq Files /\ harmed \subseteq Files
    /\ pass \in [Passes -> [stage : {"off", "dead", "listed", "hash", "look", "copy", "mark", "raised", "floor",
                                     "rehash", "refuse", "delete", "prune", "plan", "cull", "expire"},
                            copies : SUBSET Files, sources : SUBSET Files, expire : BOOLEAN,
                            todo : SUBSET Files, good : SUBSET Files, gone : SUBSET Files]]

(* Whatever the passes do, and wherever one is killed, a backup younger than its retention can be      *)
(* restored from one of the two places, unless something outside has taken or changed it               *)
(* (offload.py: "The source is released only on proof").                                               *)
NothingLost == \A f \in Recorded \ (past \cup harmed) : "good" \in {server[f], repo[f]}

(* A source that was deleted for its copy has a row that vouches for the copy: a pass with an older    *)
(* list, which finds the source gone, does not take that back (_hold_offload).                         *)
ReleasedIsVouchedFor == \A f \in Files : rows[f].released => rows[f].copy \in {"verified", "expired"}

(* A row that says verified names a copy that is there: the catalogue is what a restore from the       *)
(* repository and the release read, and only retention or something outside makes it wrong.            *)
VerifiedIsThere == \A f \in Copies \ (past \cup harmed) : repo[f] = "good"

(* What has left the server for the repository is older than a chain whose full the server still       *)
(* has: the newest chain stays, with what was written while its full ran (release_sources).            *)
ServerKeepsTheNewestChain ==
    \A f \in Files : rows[f].released =>
        \E g \in Fulls : f < Start[g] /\ (server[g] = "good" \/ g \in harmed)

(* What has expired on the repository is older than a chain whose full is there: the repository can    *)
(* restore its latest point, whatever the retention (expiry_plan, rule 2).                             *)
RepositoryKeepsTheNewestChain ==
    \A f \in Files : rows[f].copy = "expired" =>
        \E g \in Fulls : f < Start[g] /\ (repo[g] = "good" \/ g \in harmed)

(* A full expires only when every copy that depends on it has outlived its own retention, whichever of *)
(* the deletions failed and whatever became older between the plan and the row (expiry_plan, rule 3).  *)
ExpiresWithItsChain ==
    [][\A g \in Fulls : rows[g].copy # "expired" /\ rows'[g].copy = "expired" =>
           \A d \in Copies \ Fulls : Owns(g, d) => d \in past]_vars

\* Passes come again and again.  Where the copy of a file is tried again and again it arrives once, where
\* deletes are one is done.  In the end no pass is killed or cut off, no dead one keeps its claim, and no
\* batch has a file that _items raises for: that file would be in the next batch too.
FairSpec ==
    /\ Spec
    /\ <>[][\A p \in Passes : ~Fails(p)]_vars
    /\ \A p \in Passes :
           /\ WF_vars(List(p)) /\ WF_vars(Works(p))
           /\ \A f \in Files : SF_vars(CopyFile(p, f) /\ repo'[f] = "good")
           /\ SF_vars(DeleteSources(p) /\ server' # server)
    /\ \A f \in Files : WF_vars(PauseEnds(f))

(* A file whose copy is refused for ever, changed or gone at its source, holds up no other: every      *)
(* backup whose file nothing outside touches is proven on the repository (files_to_offload: failures   *)
(* "never fill the batch and starve the files written since").  That is so of the failures a row is    *)
(* marked with.  A file that _items raises for is marked with none and does starve them, so that the   *)
(* raises end is an assumption (FairSpec), which nothing in the code makes true.                       *)
EveryBackupIsProven ==
    \A f \in Files : f \in Recorded ~> rows[f].copy \in {"verified", "expired"} \/ f \in harmed

\* A full the catalogue has on the server begins a chain after the file.
NotNewest(f) == \E g \in Fulls : rows[g].state = "present" /\ f < Start[g]

(* What may leave the server does, if no lockdown comes and the batches before it do not raise in      *)
(* _items for ever: a proven file below the newest chain is deleted there.                             *)
TheServerIsFreed ==
    \A f \in Files \ Directories :
        f \in Copies /\ NotNewest(f) ~> server[f] = "none" \/ ~NotNewest(f) \/ f \in harmed
=============================================================================
