--------------------------- MODULE OffloadProofs ----------------------------
(***************************************************************************)
(* Proofs about the repository copy of a backup entry, for any files,      *)
(* chains, passes and harm from outside.                                   *)
(***************************************************************************)
EXTENDS Offload, FiniteSetTheorems, WellFoundedInduction, TLAPS

Stages == {"off", "dead", "listed", "hash", "look", "copy", "mark", "raised", "floor",
           "rehash", "refuse", "delete", "prune", "plan", "cull", "expire"}
APass == [stage : Stages, copies : SUBSET Files, sources : SUBSET Files, expire : BOOLEAN,
          todo : SUBSET Files, good : SUBSET Files, gone : SUBSET Files]
ARow == [state : {"none", "present", "missing", "mismatch", "pruned"},
         copy : {"pending", "verified", "failed", "expired"},
         released : BOOLEAN, pause : {"over", "fresh", "seen"}]
Disk == [Files -> {"none", "good", "bad"}]

\* The entry is worked on by one pass of a host (Claimed).
Working(p) == pass[p].stage \notin {"off", "dead", "listed"}
OnePassWorks == \A p, q \in Passes : Host[p] = Host[q] /\ Working(p) /\ Working(q) => p = q

\* A file a disk has as it was recorded, or something outside has touched.
Kept(disk, f) == disk[f] = "good" \/ f \in harmed
\* A file older than a chain whose full the disk has.
Covered(disk, f) == \E g \in Fulls : f < Start[g] /\ Kept(disk, g)
-----------------------------------------------------------------------------
(***************************************************************************)
(* The server, for any number of hosts.  What a pass is about to delete,   *)
(* or has deleted, is older than a chain that is there.                    *)
(***************************************************************************)
ServerSound(t) ==
    /\ t.stage \in {"rehash", "refuse", "delete", "prune"} => \A f \in t.todo : Covered(server, f)
    /\ t.stage = "refuse" => \A f \in t.good : Covered(server, f)
ServerRows ==
    \A f \in Files : /\ rows[f].state = "present" => Kept(server, f) \/ Covered(server, f)
                     /\ rows[f].released => Covered(server, f)

ServerInv == TypeOK /\ ServerRows /\ \A p \in Passes : ServerSound(pass[p])

(***************************************************************************)
(* The repository, when the passes of an entry run on one host: between    *)
(* what a pass has read there and what it does no other pass comes.        *)
(***************************************************************************)
OneHostRuns == \A p, q \in Passes : Host[p] = Host[q]

RepoSound(t) ==
    /\ t.stage = "copy" => \A f \in t.todo : repo[f] # "good"
    /\ t.stage \in {"copy", "mark", "refuse"} => \A f \in t.good : Kept(repo, f)
    /\ t.stage = "raised" => t.good = {}
    /\ t.stage = "delete" => \A f \in t.todo : Kept(repo, f)
    /\ t.stage \in {"cull", "expire"} =>
           /\ \A f \in t.todo : f \in past /\ Covered(repo, f)
           /\ \A g \in t.todo \cap Fulls : \A d \in Copies \ Fulls : Owns(g, d) => d \in past
RepoRows ==
    \A f \in Files : /\ rows[f].copy = "expired" => Covered(repo, f)
                     /\ rows[f].copy = "verified" => Kept(repo, f) \/ Covered(repo, f)

\* What a pass works on has been recorded.
Holds(t) == t.copies \cup t.sources \cup t.todo \cup t.good
Known == Copies \subseteq Recorded /\ \A p \in Passes : Holds(pass[p]) \subseteq Recorded

RepoInv ==
    /\ TypeOK /\ OnePassWorks /\ Known
    /\ NothingLost /\ VerifiedIsThere /\ RepoRows
    /\ \A p \in Passes : RepoSound(pass[p])
-----------------------------------------------------------------------------
(* What the helpers of a pass make of its record. *)

LEMMA OffType == Off \in APass /\ Off.stage = "off"
  BY DEF Off, APass, Stages

LEMMA StageType ==
    ASSUME NEW t \in APass, NEW s \in Stages
    PROVE  /\ [t EXCEPT !.stage = s] \in APass
           /\ [t EXCEPT !.stage = s].stage = s
  BY DEF APass

LEMMA AfterReleaseType ==
    ASSUME NEW t \in APass
    PROVE  AfterRelease(t) \in APass /\ AfterRelease(t).stage \in {"off", "plan"}
  BY DEF AfterRelease, Off, APass, Stages

LEMMA AfterCopyType ==
    ASSUME NEW t \in APass
    PROVE  AfterCopy(t) \in APass /\ AfterCopy(t).stage \in {"off", "plan", "floor"}
<1>1. [Off EXCEPT !.stage = "floor", !.sources = t.sources, !.expire = t.expire] \in APass
  BY DEF Off, APass, Stages
<1>2. [Off EXCEPT !.stage = "floor", !.sources = t.sources, !.expire = t.expire].stage = "floor"
  BY DEF Off
<1>3. QED
  BY <1>1, <1>2, AfterReleaseType DEF AfterCopy

LEMMA CopyingType ==
    ASSUME NEW t \in APass
    PROVE  /\ Copying(t) \in APass /\ Copying(t).good = t.good
           /\ \/ Copying(t).stage = "copy" /\ Copying(t).todo = t.todo
              \/ Copying(t).stage = "mark"
  BY DEF Copying, APass, Stages

LEMMA MarkingType ==
    ASSUME NEW t \in APass
    PROVE  /\ Marking(t) \in APass
           /\ Marking(t) = t \/ Marking(t).stage \in {"off", "plan", "floor"}
  BY OffType, AfterCopyType DEF Marking

LEMMA ToDeleteType ==
    ASSUME NEW t \in APass
    PROVE  /\ ToDelete(t) \in APass
           /\ \/ ToDelete(t).stage = "refuse" /\ ToDelete(t).todo = t.todo /\ ToDelete(t).good = t.good
              \/ ToDelete(t).stage = "delete" /\ ToDelete(t).todo = t.good
              \/ ToDelete(t).stage \in {"off", "plan"}
<1>1. CASE t.todo # {}
  BY <1>1 DEF ToDelete, APass, Stages
<1>2. CASE t.todo = {} /\ t.good # {}
  BY <1>2 DEF ToDelete, APass, Stages
<1>3. CASE t.todo = {} /\ t.good = {}
  BY <1>3, AfterReleaseType DEF ToDelete
<1>4. QED
  BY <1>1, <1>2, <1>3

\* The row of a copy that is not proven.
LEMMA FailedType ==
    ASSUME NEW r \in ARow, NEW gone
    PROVE  /\ Failed(r, gone) \in ARow
           /\ Failed(r, gone).copy = "failed" /\ Failed(r, gone).released = r.released
           /\ Failed(r, gone).state \in {r.state, "missing"}
           /\ r.state # "none" => Failed(r, gone).state # "none"
  BY DEF Failed, ARow

LEMMA TypeParts ==
    TypeOK <=> /\ rows \in [Files -> ARow] /\ server \in Disk /\ repo \in Disk
               /\ past \subseteq Files /\ harmed \subseteq Files /\ pass \in [Passes -> APass]
  BY DEF TypeOK, ARow, Disk, APass, Stages

LEMMA TypeInit == Init => TypeOK
<1> SUFFICES ASSUME Init PROVE TypeOK
  OBVIOUS
<1>1. rows \in [Files -> ARow]
  BY DEF Init, ARow
<1>2. server \in Disk /\ repo \in Disk /\ past \subseteq Files /\ harmed \subseteq Files
  BY DEF Init, Disk
<1>3. pass \in [Passes -> APass]
  BY OffType DEF Init
<1>4. QED
  BY <1>1, <1>2, <1>3, TypeParts

\* What is outside the passes.
Outside == \E f \in Files : Record(f) \/ OutlivesRetention(f) \/ Harm(f) \/ Scrub(f) \/ PauseEnds(f)

LEMMA OutsideType ==
    ASSUME TypeOK, Outside
    PROVE  TypeOK'
<1>a. /\ rows \in [Files -> ARow] /\ server \in Disk /\ repo \in Disk
      /\ past \subseteq Files /\ harmed \subseteq Files /\ pass \in [Passes -> APass]
  BY TypeParts
<1>b. PICK f \in Files : Record(f) \/ OutlivesRetention(f) \/ Harm(f) \/ Scrub(f) \/ PauseEnds(f)
  BY DEF Outside
<1>1. pass' = pass
  BY <1>b DEF Record, OutlivesRetention, Harm, Scrub, PauseEnds
<1>2. past' \subseteq Files /\ harmed' \subseteq Files
  BY <1>a, <1>b DEF Record, OutlivesRetention, Harm, Scrub, PauseEnds, Recorded
<1>3. server' \in Disk /\ repo' \in Disk
  BY <1>a, <1>b DEF Record, OutlivesRetention, Harm, Scrub, PauseEnds, Disk
<1>4. rows' \in [Files -> ARow]
  <2>1. \A s \in {"present", "missing", "mismatch", "pruned"} : [rows[f] EXCEPT !.state = s] \in ARow
    BY <1>a DEF ARow
  <2>2. [rows[f] EXCEPT !.pause = "over"] \in ARow
    BY <1>a DEF ARow
  <2>3. CASE Scrub(f)
    <3>1. PICK s \in {"present", "missing", "mismatch", "pruned"} : rows' = [rows EXCEPT ![f] = [rows[f] EXCEPT !.state = s]]
      BY <2>3, <1>a DEF Scrub, SetRow, Disk
    <3>2. QED
      BY <3>1, <2>1, <1>a
  <2>4. CASE Record(f)
    BY <2>1, <2>4, <1>a DEF Record, SetRow
  <2>5. CASE PauseEnds(f)
    BY <2>2, <2>5, <1>a DEF PauseEnds, SetRow
  <2>6. QED
    BY <2>3, <2>4, <2>5, <1>a, <1>b DEF OutlivesRetention, Harm
<1>5. QED
  BY <1>a, <1>1, <1>2, <1>3, <1>4 DEF TypeOK, ARow, Disk, APass, Stages

\* A pass ends where it stands, with no row written.
Ends(p) == HeldByTheDead(p) \/ ItemsRaise(p) \/ Dies(p)

\* A pass's step writes its own record.
PassStep(p) == List(p) \/ Works(p) \/ CopyRaises(p) \/ Ends(p)

\* It is off then, or dead.
LEMMA EndsEffect ==
    ASSUME TypeOK, NEW p \in Passes, Ends(p)
    PROVE  pass' \in [Passes -> APass] /\ pass'[p].stage \in {"off", "dead"}
<1>a. pass \in [Passes -> APass]
  BY TypeParts
<1>1. CASE HeldByTheDead(p) \/ ItemsRaise(p)
  BY <1>1, <1>a, OffType DEF HeldByTheDead, ItemsRaise, SetPass
<1>2. CASE Dies(p)
  BY <1>2, <1>a, OffType, StageType DEF Dies, SetPass, Stages
<1>3. QED
  BY <1>1, <1>2 DEF Ends

\* What List makes of its pass, and what it lists.
LEMMA ListEffect ==
    ASSUME TypeOK, NEW p \in Passes, List(p)
    PROVE  \E t \in APass : /\ pass' = [pass EXCEPT ![p] = t]
                            /\ t.stage \in {"off", "listed"} /\ t.todo = {} /\ t.good = {}
                            /\ t.copies \subseteq files_to_offload /\ t.sources \subseteq files_to_release
<1>1. files_to_offload \subseteq Files /\ files_to_release \subseteq Files
  BY DEF files_to_offload, files_to_release, Oldest, ToCopy
<1>2. PICK locked \in {FALSE, Lockdowns} :
          LET t == [Off EXCEPT !.copies = files_to_offload,
                               !.sources = IF DeleteSource /\ ~locked THEN files_to_release ELSE {},
                               !.expire = expiry_plan # {}]
          IN  SetPass(p, IF t = Off THEN Off ELSE [t EXCEPT !.stage = "listed"])
  BY DEF List
<1> DEFINE t == [Off EXCEPT !.copies = files_to_offload,
                            !.sources = IF DeleteSource /\ ~locked THEN files_to_release ELSE {},
                            !.expire = expiry_plan # {}]
<1>3. /\ t \in APass /\ t.todo = {} /\ t.good = {}
      /\ t.copies \subseteq files_to_offload /\ t.sources \subseteq files_to_release
  BY <1>1 DEF Off, APass, Stages
<1>4. pass' = [pass EXCEPT ![p] = IF t = Off THEN Off ELSE [t EXCEPT !.stage = "listed"]]
  BY <1>2 DEF SetPass
<1> HIDE DEF t
<1>5. CASE t = Off
  BY <1>3, <1>4, <1>5, OffType
<1>6. CASE t # Off
  <2> DEFINE u == [t EXCEPT !.stage = "listed"]
  <2>1. /\ u \in APass /\ u.stage = "listed" /\ u.todo = t.todo /\ u.good = t.good
        /\ u.copies = t.copies /\ u.sources = t.sources
    BY <1>3 DEF APass, Stages
  <2>2. pass' = [pass EXCEPT ![p] = u]
    BY <1>4, <1>6
  <2>3. QED
    BY <1>3, <2>1, <2>2
<1>7. QED
  BY <1>5, <1>6

LEMMA PassesType ==
    ASSUME TypeOK, NEW p \in Passes, PassStep(p)
    PROVE  \E t \in APass : pass' = [pass EXCEPT ![p] = t]
<1> USE DEF SetPass
<1>a. pass \in [Passes -> APass] /\ pass[p] \in APass
  BY TypeParts
<1>1. CASE List(p)
  BY <1>1, ListEffect
<1>2. CASE Claim(p)
  <2>1. [pass[p] EXCEPT !.stage = "hash"] \in APass
    BY <1>a, StageType DEF Stages
  <2>2. QED
    BY <1>2, <1>a, <2>1, OffType, AfterCopyType DEF Claim
<1>3. CASE HashSources(p)
  <2>1. \A gone \in SUBSET pass[p].copies :
            [pass[p] EXCEPT !.stage = "look", !.gone = gone,
                            !.todo = {f \in pass[p].copies : server[f] = "good"}] \in APass
    BY <1>a DEF APass, Stages
  <2>2. QED
    BY <1>3, <2>1 DEF HashSources
<1>4. CASE HashTargets(p)
  <2>1. [pass[p] EXCEPT !.todo = {f \in @ : repo[f] # "good"},
                        !.good = {f \in pass[p].todo : repo[f] = "good"}] \in APass
    BY <1>a DEF APass, Stages
  <2>2. QED
    BY <1>4, <2>1, CopyingType DEF HashTargets
<1>5. CASE \E f \in Files : CopyFile(p, f)
  <2>1. PICK f \in Files, v \in {"none", "good", "bad"} :
            pass' = [pass EXCEPT ![p] = Copying([pass[p] EXCEPT !.todo = @ \ {f}, !.good = IF v = "good" THEN @ \cup {f} ELSE @])]
    BY <1>5, TypeParts DEF CopyFile, Arrives, Disk
  <2>2. [pass[p] EXCEPT !.todo = @ \ {f}, !.good = IF v = "good" THEN @ \cup {f} ELSE @] \in APass
    BY <1>a DEF APass
  <2>3. QED
    BY <2>1, <2>2, CopyingType
<1>6. CASE CopyRaises(p)
  <2>1. [pass[p] EXCEPT !.stage = "raised", !.todo = pass[p].copies, !.good = {}, !.gone = {}] \in APass
    BY <1>a DEF APass, Stages
  <2>2. QED
    BY <1>6, <2>1 DEF CopyRaises
<1>7. CASE \E f \in Files : MarkCopied(p, f)
  <2>1. PICK f \in Files : MarkCopied(p, f)
    BY <1>7
  <2>2. [pass[p] EXCEPT !.todo = @ \ {f}] \in APass
    BY <1>a DEF APass
  <2>3. QED
    BY <2>1, <2>2, OffType, MarkingType DEF MarkCopied
<1>8. CASE ReadFloor(p)
  <2> DEFINE candidates == {f \in pass[p].sources \ Directories : BelowFloor(f)}
  <2>1. candidates \subseteq Files
    BY <1>a DEF APass
  <2>2. [pass[p] EXCEPT !.stage = "rehash", !.todo = candidates, !.sources = {}] \in APass
    <3> HIDE DEF candidates
    <3>1. QED
      BY <1>a, <2>1 DEF APass, Stages
  <2>3. QED
    BY <1>8, <1>a, <2>2, AfterReleaseType DEF ReadFloor
<1>9. CASE Rehash(p)
  <2>1. [pass[p] EXCEPT !.todo = {f \in @ : repo[f] # "good"},
                        !.good = {f \in pass[p].todo : repo[f] = "good"}] \in APass
    BY <1>a DEF APass, Stages
  <2>2. QED
    BY <1>9, <2>1, ToDeleteType DEF Rehash
<1>10. CASE \E f \in Files : RefuseRelease(p, f)
  <2>1. PICK f \in Files : RefuseRelease(p, f)
    BY <1>10
  <2>2. [pass[p] EXCEPT !.todo = @ \ {f}] \in APass
    BY <1>a DEF APass
  <2>3. QED
    BY <2>1, <2>2, OffType, ToDeleteType DEF RefuseRelease
<1>11. CASE DeleteSources(p)
  <2>1. PICK S \in SUBSET pass[p].todo, answered \in BOOLEAN :
            pass' = [pass EXCEPT ![p] = IF S = {} \/ ~answered THEN AfterRelease(pass[p])
                                        ELSE [pass[p] EXCEPT !.stage = "prune", !.todo = S]]
    BY <1>11 DEF DeleteSources, Deleted
  <2>2. [pass[p] EXCEPT !.stage = "prune", !.todo = S] \in APass
    BY <1>a DEF APass, Stages
  <2>3. QED
    BY <2>1, <2>2, <1>a, AfterReleaseType
<1>12. CASE \E f \in Files : MarkPruned(p, f)
  <2>1. PICK f \in Files : MarkPruned(p, f)
    BY <1>12
  <2>2. [pass[p] EXCEPT !.todo = @ \ {f}] \in APass
    BY <1>a DEF APass
  <2>3. QED
    BY <2>1, <2>2, OffType, AfterReleaseType DEF MarkPruned
<1>13. CASE Plan(p)
  <2>1. expiry_plan \subseteq Files
    BY DEF expiry_plan, Copies
  <2>2. [pass[p] EXCEPT !.stage = "cull", !.todo = expiry_plan] \in APass
    BY <1>a, <2>1 DEF APass, Stages
  <2>3. QED
    BY <1>13, <2>2, OffType DEF Plan
<1>14. CASE DeleteCopies(p)
  <2>1. PICK S \in SUBSET pass[p].todo, answered \in BOOLEAN :
            pass' = [pass EXCEPT ![p] = IF S = {} \/ ~answered THEN Off
                                        ELSE [pass[p] EXCEPT !.stage = "expire", !.todo = S]]
    BY <1>14 DEF DeleteCopies, Deleted
  <2>2. [pass[p] EXCEPT !.stage = "expire", !.todo = S] \in APass
    BY <1>a DEF APass, Stages
  <2>3. QED
    BY <2>1, <2>2, OffType
<1>15. CASE \E f \in Files : MarkExpired(p, f)
  <2>1. PICK f \in Files : MarkExpired(p, f)
    BY <1>15
  <2>2. [pass[p] EXCEPT !.todo = @ \ {f}] \in APass
    BY <1>a DEF APass
  <2>3. QED
    BY <2>1, <2>2, OffType DEF MarkExpired
<1>16. CASE Ends(p)
  BY <1>16, OffType, StageType DEF Ends, HeldByTheDead, ItemsRaise, Dies, Stages
<1>17. QED
  BY <1>1, <1>2, <1>3, <1>4, <1>5, <1>6, <1>7, <1>8, <1>9, <1>10, <1>11, <1>12, <1>13, <1>14, <1>15, <1>16
     DEF PassStep, Works

\* What MarkCopied does to the row and to its pass.
LEMMA MarkCopiedEffect ==
    ASSUME TypeOK, NEW p \in Passes, NEW f \in Files, MarkCopied(p, f)
    PROVE  /\ pass[p].stage \in {"mark", "raised"} /\ f \in pass[p].todo
           /\ UNCHANGED <<server, repo, past, harmed>>
           /\ \/ f \in pass[p].good /\ rows' = [rows EXCEPT ![f] = [rows[f] EXCEPT !.copy = "verified"]]
              \/ f \notin pass[p].good /\ ~rows[f].released /\ \E gone \in BOOLEAN : rows' = [rows EXCEPT ![f] = Failed(rows[f], gone)]
              \/ rows' = rows
           /\ \/ pass' = [pass EXCEPT ![p] = [pass[p] EXCEPT !.todo = @ \ {f}]]
              \/ \E t \in APass : t.stage \in {"off", "plan", "floor"} /\ pass' = [pass EXCEPT ![p] = t]
<1>a. pass[p] \in APass
  BY TypeParts
<1> DEFINE t == [pass[p] EXCEPT !.todo = @ \ {f}]
<1>1. t \in APass /\ t.good = pass[p].good
  BY <1>a DEF APass
<1>2. /\ pass[p].stage \in {"mark", "raised"} /\ IsFirst(f, pass[p].todo)
      /\ \/ f \in t.good /\ SetRow(f, [rows[f] EXCEPT !.copy = "verified"]) /\ SetPass(p, Marking(t))
         \/ f \notin t.good /\ TakesFailure(f) /\ SetRow(f, Failed(rows[f], f \in t.gone)) /\ SetPass(p, Marking(t))
         \/ f \notin t.good /\ ~TakesFailure(f) /\ SetPass(p, Off) /\ UNCHANGED rows
      /\ UNCHANGED <<server, repo, past, harmed>>
  BY Zenon DEF MarkCopied
<1> HIDE DEF t
<1>3. \/ pass' = [pass EXCEPT ![p] = t]
      \/ \E u \in APass : u.stage \in {"off", "plan", "floor"} /\ pass' = [pass EXCEPT ![p] = u]
  BY <1>1, <1>2, MarkingType, OffType DEF SetPass
<1>4. (f \in t.gone) \in BOOLEAN
  OBVIOUS
<1>5. QED
  BY <1>1, <1>2, <1>3, <1>4 DEF t, IsFirst, SetRow, TakesFailure

\* What a pass writes to the catalogue: List notes the pauses it has seen, the others one row.
LEMMA PassRowsType ==
    ASSUME TypeOK, NEW p \in Passes, PassStep(p)
    PROVE  rows' \in [Files -> ARow]
<1> USE DEF SetRow
<1>a. rows \in [Files -> ARow]
  BY TypeParts
<1>1. CASE List(p)
  <2>1. \A f \in Files : [rows[f] EXCEPT !.pause = "seen"] \in ARow
    BY <1>a DEF ARow
  <2>2. QED
    BY <1>1, <1>a, <2>1 DEF List
<1>2. \A f \in Files : \A c \in {"verified", "failed", "expired"} : [rows[f] EXCEPT !.copy = c] \in ARow
  BY <1>a DEF ARow
<1>3. \A f \in Files : [rows[f] EXCEPT !.state = "pruned", !.released = TRUE] \in ARow
  BY <1>a DEF ARow
<1>4. CASE \E f \in Files : MarkCopied(p, f)
  <2>1. PICK f \in Files : MarkCopied(p, f)
    BY <1>4
  <2>2. \/ rows' = [rows EXCEPT ![f] = [rows[f] EXCEPT !.copy = "verified"]]
        \/ \E gone \in BOOLEAN : rows' = [rows EXCEPT ![f] = Failed(rows[f], gone)]
        \/ rows' = rows
    BY <2>1, MarkCopiedEffect
  <2>3. \A gone \in BOOLEAN : Failed(rows[f], gone) \in ARow
    BY <1>a, FailedType
  <2>4. QED
    BY <2>2, <2>3, <1>a, <1>2
<1>5. CASE \E f \in Files : RefuseRelease(p, f) \/ MarkPruned(p, f) \/ MarkExpired(p, f)
  BY <1>5, <1>a, <1>2, <1>3 DEF RefuseRelease, MarkPruned, MarkExpired
<1>6. QED
  BY <1>1, <1>4, <1>5, <1>a DEF PassStep, Works, Claim, HashSources, HashTargets, ReadFloor, Rehash, DeleteSources,
     Plan, DeleteCopies, CopyFile, CopyRaises, Ends, HeldByTheDead, ItemsRaise, Dies

\* Only the deletes and the copy touch a disk, and no pass makes a file older or harms it.
LEMMA PassDisks ==
    ASSUME NEW p \in Passes, PassStep(p)
    PROVE  /\ UNCHANGED <<past, harmed>>
           /\ server' = server \/ DeleteSources(p)
           /\ repo' = repo \/ DeleteCopies(p) \/ \E f \in Files : CopyFile(p, f)
  BY DEF PassStep, List, Works, Claim, HashSources, HashTargets, ReadFloor, Rehash, DeleteSources,
     Plan, DeleteCopies, CopyFile, CopyRaises, Ends, HeldByTheDead, ItemsRaise, Dies,
     MarkCopied, RefuseRelease, MarkPruned, MarkExpired

LEMMA PassType ==
    ASSUME TypeOK, NEW p \in Passes, PassStep(p)
    PROVE  TypeOK'
<1>a. server \in Disk /\ repo \in Disk /\ pass \in [Passes -> APass] /\ past \subseteq Files /\ harmed \subseteq Files
  BY TypeParts
<1>1. pass' \in [Passes -> APass] /\ rows' \in [Files -> ARow]
  BY <1>a, PassesType, PassRowsType
<1>2. past' = past /\ harmed' = harmed
  BY PassDisks
<1>3. server' \in Disk
  BY <1>a, PassDisks DEF DeleteSources, Disk
<1>4. repo' \in Disk
  BY <1>a, PassDisks DEF DeleteCopies, CopyFile, Arrives, Disk
<1>5. QED
  BY <1>a, <1>1, <1>2, <1>3, <1>4 DEF TypeOK, ARow, Disk, APass, Stages

\* A step is one outside the passes, one of a pass, or none.
LEMMA Steps ==
    ASSUME [Next]_vars
    PROVE  Outside \/ (\E p \in Passes : PassStep(p)) \/ UNCHANGED vars
  BY DEF Next, Outside, PassStep, Fails, Ends

LEMMA TypeNext == TypeOK /\ [Next]_vars => TypeOK'
<1> SUFFICES ASSUME TypeOK, [Next]_vars PROVE TypeOK'
  OBVIOUS
<1>1. CASE UNCHANGED vars
  BY <1>1 DEF vars, TypeOK
<1>2. QED
  BY <1>1, Steps, OutsideType, PassType

\* The catalogue, the disks and the passes keep their types.
THEOREM OffloadTypeCorrect == Spec => []TypeOK
  BY TypeInit, TypeNext, PTL DEF Spec
-----------------------------------------------------------------------------
(* The claim: at most one pass of a host works on the entry. *)

\* A pass comes to work only by its claim.
LEMMA WorksByClaim ==
    ASSUME TypeOK, NEW p \in Passes, PassStep(p), Working(p)', ~Working(p)
    PROVE  Claim(p) /\ ~Claimed(Host[p])
<1>a. pass \in [Passes -> APass]
  BY TypeParts
<1>1. ASSUME List(p) PROVE FALSE
  BY <1>1, <1>a, ListEffect DEF Working
<1>2. ASSUME Ends(p) PROVE FALSE
  BY <1>2, EndsEffect DEF Working
<1>3. Claim(p)
  BY <1>1, <1>2 DEF PassStep, Works, HashSources, HashTargets, ReadFloor, Rehash, DeleteSources,
     Plan, DeleteCopies, CopyFile, CopyRaises, MarkCopied, RefuseRelease, MarkPruned, MarkExpired, Working
<1>4. ASSUME Claimed(Host[p]) PROVE FALSE
  BY <1>3, <1>4, <1>a, OffType DEF Claim, SetPass, Working
<1>5. QED
  BY <1>3, <1>4

LEMMA OnePassInit == Init => OnePassWorks
  BY OffType DEF Init, OnePassWorks, Working

LEMMA OnePassNext == TypeOK /\ OnePassWorks /\ [Next]_vars => OnePassWorks'
<1> SUFFICES ASSUME TypeOK, OnePassWorks, [Next]_vars PROVE OnePassWorks'
  OBVIOUS
<1>1. CASE UNCHANGED pass
  BY <1>1 DEF OnePassWorks, Working
<1>2. ASSUME NEW p \in Passes, PassStep(p) PROVE OnePassWorks'
  <2>1. pass \in [Passes -> APass] /\ \A q \in Passes : q # p => pass'[q] = pass[q]
    BY <1>2, PassesType, TypeParts
  <2>2. CASE ~Working(p)'
    BY <2>1, <2>2 DEF OnePassWorks, Working
  <2>3. CASE Working(p)' /\ Working(p)
    BY <2>1, <2>3 DEF OnePassWorks, Working
  <2>4. CASE Working(p)' /\ ~Working(p)
    <3>1. ~Claimed(Host[p])
      BY <1>2, <2>4, WorksByClaim
    <3>2. \A q \in Passes : Host[q] = Host[p] => ~Working(q)
      BY <3>1 DEF Claimed, Up, Working
    <3>3. QED
      BY <2>1, <3>2 DEF OnePassWorks, Working
  <2>5. QED
    BY <2>2, <2>3, <2>4
<1>3. QED
  BY <1>1, <1>2, Steps DEF Outside, vars, Record, OutlivesRetention, Harm, Scrub, PauseEnds

\* For any number of hosts, at most one pass of a host is between its claim and its end: the lists were
\* read before the claim, everything that is hashed, written or deleted comes after it (run_offloads).
THEOREM OnePassWorksAtATime == Spec => []OnePassWorks
<1>1. Init => TypeOK /\ OnePassWorks
  BY TypeInit, OnePassInit
<1>2. TypeOK /\ OnePassWorks /\ [Next]_vars => (TypeOK /\ OnePassWorks)'
  BY TypeNext, OnePassNext
<1>3. QED
  BY <1>1, <1>2, PTL DEF Spec
-----------------------------------------------------------------------------
(* The catalogue's word for a source that was deleted. *)

LEMMA VouchedNext == TypeOK /\ ReleasedIsVouchedFor /\ [Next]_vars => ReleasedIsVouchedFor'
<1> SUFFICES ASSUME TypeOK, ReleasedIsVouchedFor, [Next]_vars PROVE ReleasedIsVouchedFor'
  OBVIOUS
<1> USE DEF SetRow, ReleasedIsVouchedFor
<1>a. rows \in [Files -> ARow]
  BY TypeParts
<1>1. CASE UNCHANGED rows
  BY <1>1
<1>2. CASE Outside
  <2>1. PICK f \in Files : Record(f) \/ OutlivesRetention(f) \/ Harm(f) \/ Scrub(f) \/ PauseEnds(f)
    BY <1>2 DEF Outside
  <2>2. CASE Record(f) \/ Scrub(f)
    <3>1. PICK s : rows' = [rows EXCEPT ![f] = [rows[f] EXCEPT !.state = s]]
      BY <2>2 DEF Record, Scrub
    <3>2. [rows[f] EXCEPT !.state = s].released = rows[f].released /\ [rows[f] EXCEPT !.state = s].copy = rows[f].copy
      BY <1>a DEF ARow
    <3>3. QED
      BY <1>a, <3>1, <3>2
  <2>3. CASE PauseEnds(f)
    <3>1. [rows[f] EXCEPT !.pause = "over"].released = rows[f].released /\ [rows[f] EXCEPT !.pause = "over"].copy = rows[f].copy
      BY <1>a DEF ARow
    <3>2. QED
      BY <1>a, <2>3, <3>1 DEF PauseEnds
  <2>4. QED
    BY <2>1, <2>2, <2>3, <1>1 DEF OutlivesRetention, Harm
<1>3. ASSUME NEW p \in Passes, PassStep(p) PROVE ReleasedIsVouchedFor'
  <2>1. CASE List(p)
    <3>1. \A f \in Files : /\ [rows[f] EXCEPT !.pause = "seen"].released = rows[f].released
                           /\ [rows[f] EXCEPT !.pause = "seen"].copy = rows[f].copy
      BY <1>a DEF ARow
    <3>2. QED
      BY <2>1, <3>1 DEF List
  <2>2. CASE \E f \in Files : MarkCopied(p, f)
    <3>1. PICK f \in Files : MarkCopied(p, f)
      BY <2>2
    <3>2. CASE rows' = [rows EXCEPT ![f] = [rows[f] EXCEPT !.copy = "verified"]]
      <4>1. [rows[f] EXCEPT !.copy = "verified"].copy = "verified"
        BY <1>a DEF ARow
      <4>2. QED
        BY <1>a, <3>2, <4>1
    <3>3. CASE ~rows[f].released /\ \E gone \in BOOLEAN : rows' = [rows EXCEPT ![f] = Failed(rows[f], gone)]
      BY <1>a, <3>3, FailedType
    <3>4. QED
      BY <1>1, <3>1, <3>2, <3>3, MarkCopiedEffect
  <2>3. CASE \E f \in Files : RefuseRelease(p, f)
    <3>1. PICK f \in Files : RefuseRelease(p, f)
      BY <2>3
    <3>2. [rows[f] EXCEPT !.copy = "failed"].released = rows[f].released
      BY <1>a DEF ARow
    <3>3. QED
      BY <1>a, <1>1, <3>1, <3>2 DEF RefuseRelease, TakesFailure
  <2>4. CASE \E f \in Files : MarkPruned(p, f)
    <3>1. PICK f \in Files : MarkPruned(p, f)
      BY <2>4
    <3>2. [rows[f] EXCEPT !.state = "pruned", !.released = TRUE].copy = rows[f].copy
      BY <1>a DEF ARow
    <3>3. QED
      BY <1>a, <1>1, <3>1, <3>2 DEF MarkPruned
  <2>5. CASE \E f \in Files : MarkExpired(p, f)
    <3>1. PICK f \in Files : MarkExpired(p, f)
      BY <2>5
    <3>2. [rows[f] EXCEPT !.copy = "expired"].copy = "expired"
      BY <1>a DEF ARow
    <3>3. QED
      BY <1>a, <3>1, <3>2 DEF MarkExpired
  <2>6. QED
    BY <1>1, <1>3, <2>1, <2>2, <2>3, <2>4, <2>5 DEF PassStep, Works, Claim, HashSources, HashTargets, ReadFloor, Rehash,
       DeleteSources, Plan, DeleteCopies, CopyFile, CopyRaises, Ends, HeldByTheDead, ItemsRaise, Dies
<1>4. QED
  BY <1>1, <1>2, <1>3, Steps DEF vars

\* For any number of hosts, a source that was deleted for its copy has a row that vouches for the copy:
\* the failure a pass with an older list reports is refused by _hold_offload (TakesFailure), and
\* files are pruned only while their row still vouches (MarkPruned).
THEOREM ReleasedStaysVouchedFor == Spec => []ReleasedIsVouchedFor
<1>1. Init => TypeOK /\ ReleasedIsVouchedFor
  BY TypeInit DEF Init, ReleasedIsVouchedFor
<1>2. TypeOK /\ ReleasedIsVouchedFor /\ [Next]_vars => (TypeOK /\ ReleasedIsVouchedFor)'
  BY TypeNext, VouchedNext
<1>3. QED
  BY <1>1, <1>2, PTL DEF Spec
-----------------------------------------------------------------------------
(* Chains. *)

\* A finite set of numbers that is not empty has a greatest.
LEMMA GreatestExists ==
    ASSUME NEW S, S \subseteq Nat, IsFiniteSet(S), S # {}
    PROVE  \E m \in S : \A x \in S : x <= m
<1> DEFINE Topless == {X \in SUBSET S : X # {} /\ ~\E m \in X : \A x \in X : x <= m}
<1>1. SUFFICES ASSUME Topless # {} PROVE FALSE
  OBVIOUS
<1>2. IsWellFoundedOn(StrictSubsetOrdering(S), SUBSET S)
  BY FS_StrictSubsetOrderingWellFounded, FS_FiniteSubsetsOfFinite
<1>3. Topless \subseteq SUBSET S
  OBVIOUS
<1> HIDE DEF Topless
<1>4. PICK X \in Topless : \A Y \in Topless : ~(<<Y, X>> \in StrictSubsetOrdering(S))
  BY <1>1, <1>2, <1>3, WFMin
<1>5. X \in SUBSET S /\ X # {} /\ ~\E m \in X : \A x \in X : x <= m
  BY DEF Topless
<1>6. PICK x \in X : TRUE
  BY <1>5
<1>7. X \ {x} \notin Topless
  BY <1>4, <1>5, <1>6 DEF StrictSubsetOrdering
<1>8. CASE X \ {x} = {}
  <2>1. \A y \in X : y <= x
    BY <1>5, <1>6, <1>8
  <2>2. QED
    BY <2>1, <1>5
<1>9. CASE X \ {x} # {}
  <2>1. PICK m \in X \ {x} : \A y \in X \ {x} : y <= m
    BY <1>5, <1>7, <1>9 DEF Topless
  <2>2. m \in Nat /\ x \in Nat /\ \A y \in X : y \in Nat
    BY <1>5, <1>6
  <2>3. (\A y \in X : y <= m) \/ (\A y \in X : y <= x)
    BY <2>1, <2>2
  <2>4. QED
    BY <1>5, <1>6, <2>1, <2>3
<1>10. QED
  BY <1>8, <1>9

\* A chain begins no later than its full, and after every full before it.
LEMMA ChainOrder ==
    ASSUME NEW g \in Fulls, NEW h \in Fulls
    PROVE  /\ g \in Nat /\ Start[g] \in Nat /\ Start[g] <= g
           /\ g < h => g < Start[h] /\ Start[g] < Start[h]
<1>1. g \in Nat /\ h \in Nat /\ Start[g] \in Nat /\ Start[h] \in Nat
  BY OffloadConstants
<1>2. Start[g] <= g /\ (g < h => g < Start[h])
  BY OffloadConstants
<1>3. QED
  BY <1>1, <1>2

(***************************************************************************)
(* K are the fulls a disk has.  Files are deleted that are all older than  *)
(* a chain of K: then what was older than a chain of K still is, for the   *)
(* last full of K is not among what is deleted.                            *)
(***************************************************************************)
LEMMA ChainsStay ==
    ASSUME NEW K \in SUBSET Fulls, NEW S,
           \A x \in S \cap K : \E g \in K : x < Start[g],
           NEW f \in Nat, \E g \in K : f < Start[g]
    PROVE  \E g \in K \ S : f < Start[g]
<1>1. K \subseteq Nat /\ IsFiniteSet(K)
  BY OffloadConstants, FS_Subset
<1>2. PICK m \in K : \A g \in K : g <= m
  BY <1>1, GreatestExists
<1>3. m \notin S
  <2>1. SUFFICES ASSUME m \in S PROVE FALSE
    OBVIOUS
  <2>2. PICK g \in K : m < Start[g]
    BY <2>1
  <2>3. Start[g] <= g /\ g <= m /\ g \in Nat /\ m \in Nat /\ Start[g] \in Nat
    BY <1>2, ChainOrder
  <2>4. QED
    BY <2>2, <2>3
<1>4. f < Start[m]
  <2>1. PICK g \in K : f < Start[g]
    OBVIOUS
  <2>2. g = m \/ g < m
    BY <1>1, <1>2
  <2>3. Start[g] \in Nat /\ Start[m] \in Nat /\ (g < m => Start[g] < Start[m])
    BY ChainOrder
  <2>4. QED
    BY <2>1, <2>2, <2>3
<1>5. QED
  BY <1>3, <1>4
-----------------------------------------------------------------------------
(* What a step does to a row. *)

LEMMA OutsideRow ==
    ASSUME TypeOK, Outside, NEW f \in Files
    PROVE  /\ rows'[f].copy = rows[f].copy /\ rows'[f].released = rows[f].released
           /\ \/ rows'[f].state = rows[f].state
              \/ server'[f] = "good"
              \/ rows[f].state # "none" /\ rows'[f].state \in {"missing", "mismatch", "pruned"}
           /\ rows[f].state # "none" => rows'[f].state # "none"
<1>a. rows \in [Files -> ARow] /\ server \in Disk
  BY TypeParts
<1>b. PICK g \in Files : Record(g) \/ OutlivesRetention(g) \/ Harm(g) \/ Scrub(g) \/ PauseEnds(g)
  BY DEF Outside
<1>1. ASSUME NEW s PROVE /\ [rows[g] EXCEPT !.state = s].copy = rows[g].copy
                         /\ [rows[g] EXCEPT !.state = s].released = rows[g].released
                         /\ [rows[g] EXCEPT !.state = s].state = s
  BY <1>a DEF ARow
<1>2. CASE Record(g)
  <2>1. server'[g] = "good" /\ rows' = [rows EXCEPT ![g] = [rows[g] EXCEPT !.state = "present"]]
    BY <1>2, <1>a DEF Record, SetRow, Disk
  <2>2. QED
    BY <1>a, <1>1, <2>1
<1>3. CASE Scrub(g)
  <2>1. PICK s \in {"present", "missing", "mismatch", "pruned"} :
            /\ rows' = [rows EXCEPT ![g] = [rows[g] EXCEPT !.state = s]]
            /\ s = "present" => server[g] = "good"
    BY <1>3, <1>a DEF Scrub, SetRow, Disk
  <2>2. server' = server /\ rows[g].state # "none"
    BY <1>3 DEF Scrub
  <2>3. QED
    BY <1>a, <1>1, <2>1, <2>2
<1>4. CASE PauseEnds(g)
  <2>1. LET r == [rows[g] EXCEPT !.pause = "over"]
        IN  r.copy = rows[g].copy /\ r.released = rows[g].released /\ r.state = rows[g].state
    BY <1>a DEF ARow
  <2>2. QED
    BY <1>4, <1>a, <2>1 DEF PauseEnds, SetRow
<1>5. QED
  BY <1>b, <1>2, <1>3, <1>4 DEF OutlivesRetention, Harm

LEMMA PassRow ==
    ASSUME TypeOK, NEW p \in Passes, PassStep(p), NEW f \in Files
    PROVE  /\ rows'[f].state \in {rows[f].state, "missing", "pruned"}
           /\ rows'[f].state # rows[f].state => f \in pass[p].todo
           /\ rows[f].state # "none" => rows'[f].state # "none"
           /\ rows'[f].released => rows[f].released \/ (pass[p].stage = "prune" /\ f \in pass[p].todo)
           /\ rows'[f].copy = "verified" =>
                  rows[f].copy = "verified" \/ (pass[p].stage \in {"mark", "raised"} /\ f \in pass[p].todo \cap pass[p].good)
           /\ rows'[f].copy = "expired" =>
                  rows[f].copy = "expired" \/ (pass[p].stage = "expire" /\ f \in pass[p].todo)
<1> USE DEF SetRow
<1>a. rows \in [Files -> ARow]
  BY TypeParts
<1>0. CASE UNCHANGED rows
  BY <1>0
<1>1. CASE List(p)
  <2>1. LET r == [rows[f] EXCEPT !.pause = "seen"]
        IN  r.copy = rows[f].copy /\ r.released = rows[f].released /\ r.state = rows[f].state
    BY <1>a DEF ARow
  <2>2. QED
    BY <1>1, <2>1 DEF List
<1>2. ASSUME NEW g \in Files, NEW s
      PROVE  LET r == [rows[g] EXCEPT !.copy = s]
             IN  r.copy = s /\ r.released = rows[g].released /\ r.state = rows[g].state
  BY <1>a DEF ARow
<1>3. CASE \E g \in Files : MarkCopied(p, g)
  <2>1. PICK g \in Files : MarkCopied(p, g)
    BY <1>3
  <2>2. CASE g \in pass[p].good /\ rows' = [rows EXCEPT ![g] = [rows[g] EXCEPT !.copy = "verified"]]
    BY <1>a, <1>2, <2>1, <2>2, MarkCopiedEffect
  <2>3. CASE \E gone \in BOOLEAN : rows' = [rows EXCEPT ![g] = Failed(rows[g], gone)]
    <3>1. PICK gone \in BOOLEAN : rows' = [rows EXCEPT ![g] = Failed(rows[g], gone)]
      BY <2>3
    <3>2. g \in pass[p].todo
      BY <2>1, MarkCopiedEffect
    <3>3. QED
      BY <1>a, <3>1, <3>2, FailedType
  <2>4. QED
    BY <1>0, <2>1, <2>2, <2>3, MarkCopiedEffect
<1>4. CASE \E g \in Files : RefuseRelease(p, g)
  <2>1. PICK g \in Files : rows' = rows \/ rows' = [rows EXCEPT ![g] = [rows[g] EXCEPT !.copy = "failed"]]
    BY <1>4 DEF RefuseRelease
  <2>2. LET r == [rows[g] EXCEPT !.copy = "failed"]
        IN  r.copy = "failed" /\ r.released = rows[g].released /\ r.state = rows[g].state
    BY <1>2
  <2>3. QED
    BY <1>0, <1>a, <2>1, <2>2
<1>5. CASE \E g \in Files : MarkPruned(p, g)
  <2>1. PICK g \in Files : MarkPruned(p, g)
    BY <1>5
  <2>2. LET r == [rows[g] EXCEPT !.state = "pruned", !.released = TRUE]
        IN  r.copy = rows[g].copy /\ r.state = "pruned"
    BY <1>a DEF ARow
  <2>3. QED
    BY <1>a, <2>1, <2>2 DEF MarkPruned, IsFirst
<1>6. CASE \E g \in Files : MarkExpired(p, g)
  BY <1>6, <1>a, <1>2 DEF MarkExpired, IsFirst
<1>7. QED
  BY <1>0, <1>1, <1>3, <1>4, <1>5, <1>6 DEF PassStep, Works, Claim, HashSources, HashTargets, ReadFloor, Rehash,
     DeleteSources, Plan, DeleteCopies, CopyFile, CopyRaises, Ends, HeldByTheDead, ItemsRaise, Dies
-----------------------------------------------------------------------------
(* The server. *)

\* Whatever a step does, a file older than a chain the server has stays so; and a file it has stays
\* there, or is older than such a chain.
LEMMA ServerCoverStays ==
    ASSUME ServerInv, [Next]_vars, NEW f \in Files
    PROVE  /\ Covered(server, f) => Covered(server, f)'
           /\ Kept(server, f) => Kept(server, f)' \/ Covered(server, f)'
<1> USE DEF Covered, Kept
<1>a. server \in Disk /\ TypeOK /\ harmed \subseteq Files /\ Fulls \subseteq Files
  BY TypeParts, OffloadConstants DEF ServerInv
<1>1. CASE UNCHANGED <<server, harmed>>
  BY <1>1
<1>2. CASE \E p \in Passes : DeleteSources(p)
  <2>1. PICK p \in Passes : DeleteSources(p)
    BY <1>2
  <2>2. PICK S \in SUBSET pass[p].todo : server' = [g \in Files |-> IF g \in S THEN "none" ELSE server[g]]
    BY <2>1 DEF DeleteSources, Deleted
  <2>3. harmed' = harmed /\ \A x \in S : \E g \in Fulls : x < Start[g] /\ (server[g] = "good" \/ g \in harmed)
    BY <2>1, <2>2 DEF DeleteSources, ServerInv, ServerSound
  <2> DEFINE K == {g \in Fulls : server[g] = "good" \/ g \in harmed}
  <2>4. \A x \in Files : (\E g \in K : x < Start[g]) => \E g \in K \ S : x < Start[g]
    <3>1. K \in SUBSET Fulls /\ \A x \in S \cap K : \E g \in K : x < Start[g]
      BY <2>3
    <3>2. Files \subseteq Nat
      BY OffloadConstants
    <3> HIDE DEF K
    <3>3. ASSUME NEW x \in Files, \E g \in K : x < Start[g] PROVE \E g \in K \ S : x < Start[g]
      <4>1. x \in Nat
        BY <3>2
      <4>2. QED
        BY <3>1, <3>3, <4>1, ChainsStay
    <3>4. QED
      BY <3>3
  <2>5. \A g \in K \ S : server'[g] = "good" \/ g \in harmed'
    BY <1>a, <2>2, <2>3
  <2>6. Covered(server, f) => Covered(server, f)'
    BY <2>4, <2>5
  <2>7. CASE f \in S
    BY <2>3, <2>6, <2>7
  <2>8. CASE f \notin S
    BY <2>2, <2>3, <2>6, <2>8
  <2>9. QED
    BY <2>7, <2>8
<1>3. CASE Outside
  <2>1. PICK g \in Files : Record(g) \/ OutlivesRetention(g) \/ Harm(g) \/ Scrub(g) \/ PauseEnds(g)
    BY <1>3 DEF Outside
  <2>2. \A h \in Files : server[h] = "good" \/ h \in harmed => server'[h] = "good" \/ h \in harmed'
    BY <1>a, <2>1 DEF Record, OutlivesRetention, Harm, Scrub, PauseEnds, Disk
  <2>3. QED
    BY <1>a, <2>2
<1>4. QED
  BY <1>1, <1>2, <1>3, Steps, PassDisks DEF vars

LEMMA ServerRowsNext == ServerInv /\ [Next]_vars => ServerRows'
<1> SUFFICES ASSUME ServerInv, [Next]_vars, NEW f \in Files
             PROVE  /\ rows'[f].state = "present" => Kept(server, f)' \/ Covered(server, f)'
                    /\ rows'[f].released => Covered(server, f)'
  BY DEF ServerRows
<1>a. TypeOK /\ (rows[f].state = "present" => Kept(server, f) \/ Covered(server, f))
             /\ (rows[f].released => Covered(server, f))
  BY DEF ServerInv, ServerRows
<1>1. CASE UNCHANGED vars
  BY <1>1, <1>a, ServerCoverStays DEF vars
<1>2. CASE Outside
  <2>1. server'[f] = "good" => Kept(server, f)'
    BY DEF Kept
  <2>2. QED
    BY <1>2, <1>a, <2>1, OutsideRow, ServerCoverStays
<1>3. ASSUME NEW p \in Passes, PassStep(p)
      PROVE  /\ rows'[f].state = "present" => Kept(server, f)' \/ Covered(server, f)'
             /\ rows'[f].released => Covered(server, f)'
  <2>1. pass[p].stage = "prune" /\ f \in pass[p].todo => Covered(server, f)
    BY DEF ServerInv, ServerSound
  <2>2. QED
    BY <1>3, <1>a, <2>1, PassRow, ServerCoverStays
<1>4. QED
  BY <1>1, <1>2, <1>3, Steps

\* The steps of a pass that are not of its release leave it in another stage.
LEMMA NotReleasing ==
    ASSUME TypeOK, NEW p \in Passes, PassStep(p),
           ~(ReadFloor(p) \/ Rehash(p) \/ DeleteSources(p) \/ \E f \in Files : RefuseRelease(p, f) \/ MarkPruned(p, f))
    PROVE  pass'[p].stage \notin {"rehash", "refuse", "delete", "prune"}
<1> USE DEF SetPass
<1>a. pass \in [Passes -> APass] /\ pass[p] \in APass
  BY TypeParts
<1>1. CASE List(p)
  BY <1>1, <1>a, ListEffect
<1>2. CASE Claim(p)
  <2>1. [pass[p] EXCEPT !.stage = "hash"].stage = "hash"
    BY <1>a DEF APass
  <2>2. QED
    BY <1>2, <1>a, <2>1, OffType, AfterCopyType DEF Claim
<1>3. CASE HashSources(p)
  BY <1>3, <1>a DEF HashSources, APass
<1>4. CASE HashTargets(p)
  <2>1. [pass[p] EXCEPT !.todo = {f \in @ : repo[f] # "good"},
                        !.good = {f \in pass[p].todo : repo[f] = "good"}] \in APass
    BY <1>a DEF APass, Stages
  <2>2. QED
    BY <1>4, <1>a, <2>1, CopyingType DEF HashTargets
<1>5. CASE \E f \in Files : CopyFile(p, f)
  <2>1. PICK f \in Files, v \in {"none", "good", "bad"} :
            pass' = [pass EXCEPT ![p] = Copying([pass[p] EXCEPT !.todo = @ \ {f}, !.good = IF v = "good" THEN @ \cup {f} ELSE @])]
    BY <1>5, TypeParts DEF CopyFile, Arrives, Disk
  <2>2. [pass[p] EXCEPT !.todo = @ \ {f}, !.good = IF v = "good" THEN @ \cup {f} ELSE @] \in APass
    BY <1>a DEF APass
  <2>3. QED
    BY <2>1, <2>2, <1>a, CopyingType
<1>6. CASE CopyRaises(p)
  BY <1>6, <1>a DEF CopyRaises, APass
<1>7. CASE \E f \in Files : MarkCopied(p, f)
  <2>1. PICK f \in Files : MarkCopied(p, f)
    BY <1>7
  <2>2. [pass[p] EXCEPT !.todo = @ \ {f}].stage = pass[p].stage
    BY <1>a DEF APass
  <2>3. QED
    BY <1>a, <2>1, <2>2, MarkCopiedEffect
<1>8. CASE Plan(p)
  <2>1. [pass[p] EXCEPT !.stage = "cull", !.todo = expiry_plan].stage = "cull"
    BY <1>a DEF APass
  <2>2. QED
    BY <1>8, <1>a, <2>1, OffType DEF Plan
<1>9. CASE DeleteCopies(p)
  <2>1. \A S : [pass[p] EXCEPT !.stage = "expire", !.todo = S].stage = "expire"
    BY <1>a DEF APass
  <2>2. QED
    BY <1>9, <1>a, <2>1, OffType DEF DeleteCopies
<1>10. CASE \E f \in Files : MarkExpired(p, f)
  <2>1. \A S : [pass[p] EXCEPT !.todo = S].stage = pass[p].stage
    BY <1>a DEF APass
  <2>2. QED
    BY <1>10, <1>a, <2>1, OffType DEF MarkExpired
<1>11. CASE Ends(p)
  BY <1>11, EndsEffect
<1>12. QED
  BY <1>1, <1>2, <1>3, <1>4, <1>5, <1>6, <1>7, <1>8, <1>9, <1>10, <1>11 DEF PassStep, Works

\* What a pass comes to hold for its release was older than a chain on the server when it did.
LEMMA OwnServerSound ==
    ASSUME ServerInv, NEW p \in Passes, PassStep(p)
    PROVE  ServerSound(pass'[p])
<1> USE DEF SetPass
<1>a. TypeOK /\ pass \in [Passes -> APass] /\ pass[p] \in APass /\ ServerSound(pass[p])
  BY TypeParts DEF ServerInv
<1>1. CASE ReadFloor(p)
  <2> DEFINE candidates == {f \in pass[p].sources \ Directories : BelowFloor(f)}
  <2>1. \A f \in candidates : Covered(server, f)
    <3>1. SUFFICES ASSUME NEW f \in Files, BelowFloor(f) PROVE Covered(server, f)
      BY <1>a DEF APass
    <3>2. PICK g \in Fulls : rows[g].state = "present" /\ f < Start[g]
      BY <3>1 DEF BelowFloor, Floors
    <3>3. Kept(server, g) \/ Covered(server, g)
      BY <3>2, OffloadConstants DEF ServerInv, ServerRows
    <3>4. CASE Kept(server, g)
      BY <3>2, <3>4 DEF Covered
    <3>5. CASE Covered(server, g)
      <4>1. PICK h \in Fulls : g < Start[h] /\ Kept(server, h)
        BY <3>5 DEF Covered
      <4>2. f \in Nat /\ g \in Nat /\ Start[g] \in Nat /\ Start[h] \in Nat /\ Start[g] <= g
        BY ChainOrder, OffloadConstants
      <4>3. f < Start[h]
        BY <3>2, <4>1, <4>2
      <4>4. QED
        BY <4>1, <4>3 DEF Covered
    <3>6. QED
      BY <3>3, <3>4, <3>5
  <2>2. pass'[p] = IF candidates = {} THEN AfterRelease(pass[p])
                   ELSE [pass[p] EXCEPT !.stage = "rehash", !.todo = candidates, !.sources = {}]
    BY <1>1, <1>a DEF ReadFloor
  <2> HIDE DEF candidates
  <2>3. CASE candidates = {}
    BY <1>a, <2>2, <2>3, AfterReleaseType DEF ServerSound
  <2>4. CASE candidates # {}
    <3>1. pass'[p].stage = "rehash" /\ pass'[p].todo = candidates
      BY <1>a, <2>2, <2>4 DEF APass
    <3>2. QED
      BY <2>1, <3>1 DEF ServerSound
  <2>5. QED
    BY <2>3, <2>4
<1>2. CASE Rehash(p)
  <2> DEFINE t == [pass[p] EXCEPT !.todo = {f \in @ : repo[f] # "good"},
                                  !.good = {f \in pass[p].todo : repo[f] = "good"}]
  <2>1. t \in APass /\ t.todo \cup t.good \subseteq pass[p].todo
    BY <1>a DEF APass
  <2>2. pass'[p] = ToDelete(t) /\ pass[p].stage = "rehash"
    BY <1>2, <1>a DEF Rehash
  <2> HIDE DEF t
  <2>3. \A f \in t.todo \cup t.good : Covered(server, f)
    BY <1>a, <2>1, <2>2 DEF ServerSound
  <2>4. QED
    BY <2>1, <2>2, <2>3, ToDeleteType DEF ServerSound
<1>3. CASE \E f \in Files : RefuseRelease(p, f)
  <2>1. PICK f \in Files : RefuseRelease(p, f)
    BY <1>3
  <2> DEFINE t == [pass[p] EXCEPT !.todo = @ \ {f}]
  <2>2. t \in APass /\ t.todo \subseteq pass[p].todo /\ t.good = pass[p].good
    BY <1>a DEF APass
  <2>3. (pass'[p] = ToDelete(t) \/ pass'[p] = Off) /\ pass[p].stage = "refuse"
    BY <2>1, <1>a DEF RefuseRelease
  <2> HIDE DEF t
  <2>4. \A g \in t.todo \cup t.good : Covered(server, g)
    BY <1>a, <2>2, <2>3 DEF ServerSound
  <2>5. QED
    BY <2>2, <2>3, <2>4, ToDeleteType, OffType DEF ServerSound
<1>4. CASE DeleteSources(p)
  <2>1. PICK S \in SUBSET pass[p].todo : pass'[p] = AfterRelease(pass[p]) \/ pass'[p] = [pass[p] EXCEPT !.stage = "prune", !.todo = S]
    BY <1>4, <1>a DEF DeleteSources, Deleted
  <2>2. [pass[p] EXCEPT !.stage = "prune", !.todo = S].stage = "prune" /\ [pass[p] EXCEPT !.stage = "prune", !.todo = S].todo = S
    BY <1>a DEF APass
  <2>3. \A f \in pass[p].todo : Covered(server, f)
    BY <1>4, <1>a DEF DeleteSources, ServerSound
  <2>4. QED
    BY <1>a, <2>1, <2>2, <2>3, AfterReleaseType DEF ServerSound
<1>5. CASE \E f \in Files : MarkPruned(p, f)
  <2>1. PICK f \in Files : MarkPruned(p, f)
    BY <1>5
  <2> DEFINE t == [pass[p] EXCEPT !.todo = @ \ {f}]
  <2>2. t \in APass /\ t.todo \subseteq pass[p].todo /\ t.stage = pass[p].stage
    BY <1>a DEF APass
  <2>3. pass'[p] \in {Off, AfterRelease(t), t} /\ pass[p].stage = "prune"
    BY <2>1, <1>a DEF MarkPruned
  <2> HIDE DEF t
  <2>4. QED
    BY <1>a, <2>2, <2>3, AfterReleaseType, OffType DEF ServerSound
<1>6. QED
  BY <1>1, <1>2, <1>3, <1>4, <1>5, <1>a, NotReleasing DEF ServerSound

LEMMA ServerSoundNext == ServerInv /\ [Next]_vars => \A q \in Passes : ServerSound(pass[q])'
<1> SUFFICES ASSUME ServerInv, [Next]_vars, NEW q \in Passes PROVE ServerSound(pass[q])'
  OBVIOUS
<1>a. pass \in [Passes -> APass] /\ ServerSound(pass[q]) /\ TypeOK
  BY TypeParts DEF ServerInv
<1>b. pass'[q] \in APass
  BY <1>a, TypeNext DEF TypeOK, APass, Stages
<1>1. ServerSound(pass'[q])
  <2>1. CASE pass'[q] = pass[q]
    BY <1>a, <2>1
  <2>2. CASE PassStep(q)
    BY <2>2, OwnServerSound
  <2>3. QED
    BY <1>a, <2>1, <2>2, Steps, PassesType DEF Outside, vars, Record, OutlivesRetention, Harm, Scrub, PauseEnds
<1>2. \A f \in Files : Covered(server, f) => Covered(server, f)'
  BY ServerCoverStays
<1>3. QED
  BY <1>b, <1>1, <1>2 DEF ServerSound, APass

LEMMA ServerInit == Init => ServerInv
<1> SUFFICES ASSUME Init PROVE ServerInv
  OBVIOUS
<1>1. TypeOK
  BY TypeInit
<1>2. ServerRows
  BY DEF Init, ServerRows
<1>3. \A p \in Passes : ServerSound(pass[p])
  BY OffType DEF Init, ServerSound
<1>4. QED
  BY <1>1, <1>2, <1>3 DEF ServerInv

\* For any number of hosts, what has left the server for the repository is older than a chain whose full
\* the server still has, or that something outside has harmed: the floor is read from the catalogue,
\* which may not know yet of a file another pass has deleted (release_sources).
THEOREM ServerKeepsItsNewestChain == Spec => []ServerKeepsTheNewestChain
<1>1. Init => ServerInv
  BY ServerInit
<1>2. ServerInv /\ [Next]_vars => ServerInv'
  <2>1. ServerInv /\ [Next]_vars => TypeOK'
    BY TypeNext DEF ServerInv
  <2>2. QED
    BY <2>1, ServerRowsNext, ServerSoundNext DEF ServerInv
<1>3. ServerInv => ServerKeepsTheNewestChain
  BY DEF ServerInv, ServerRows, ServerKeepsTheNewestChain, Covered, Kept
<1>4. QED
  BY <1>1, <1>2, <1>3, PTL DEF Spec
-----------------------------------------------------------------------------
(* What the passes work on, for any number of hosts. *)

LEMMA HelpersHold ==
    ASSUME NEW t \in APass
    PROVE  /\ Holds(Off) = {} /\ Holds(AfterRelease(t)) = {} /\ Holds(AfterCopy(t)) \subseteq Holds(t)
           /\ Holds(Copying(t)) \subseteq Holds(t)
           /\ Holds(ToDelete(t)) \subseteq Holds(t)
           /\ Holds(Marking(t)) \subseteq Holds(t)
<1>1. Holds(Off) = {} /\ Holds(AfterRelease(t)) = {}
  BY DEF Holds, AfterRelease, Off
<1>2. Holds(AfterCopy(t)) \subseteq Holds(t)
  <2>1. Holds([Off EXCEPT !.stage = "floor", !.sources = t.sources, !.expire = t.expire]) \subseteq Holds(t)
    BY DEF Holds, Off
  <2>2. QED
    BY <1>1, <2>1 DEF AfterCopy
<1>3. Holds(Copying(t)) \subseteq Holds(t)
  BY DEF Copying, Holds, APass
<1>4. Holds(ToDelete(t)) \subseteq Holds(t)
  <2>1. Holds([t EXCEPT !.stage = "refuse"]) \subseteq Holds(t)
    BY DEF Holds, APass
  <2>2. Holds([t EXCEPT !.stage = "delete", !.todo = t.good, !.good = {}]) \subseteq Holds(t)
    BY DEF Holds, APass
  <2>3. QED
    BY <1>1, <2>1, <2>2 DEF ToDelete
<1>5. Holds(Marking(t)) \subseteq Holds(t)
  BY <1>1, <1>2 DEF Marking
<1>6. QED
  BY <1>1, <1>2, <1>3, <1>4, <1>5

LEMMA PassHolds ==
    ASSUME TypeOK, NEW p \in Passes, PassStep(p)
    PROVE  Holds(pass'[p]) \subseteq Holds(pass[p]) \cup Recorded \cup Copies
<1> USE DEF SetPass
<1>a. pass \in [Passes -> APass] /\ pass[p] \in APass
  BY TypeParts
<1>b. Holds(Off) = {}
  BY <1>a, HelpersHold
<1>c. ASSUME NEW f PROVE LET t == [pass[p] EXCEPT !.todo = @ \ {f}] IN t \in APass /\ Holds(t) \subseteq Holds(pass[p])
  BY <1>a DEF APass, Holds
<1>1. CASE List(p)
  <2>1. PICK t \in APass : /\ pass' = [pass EXCEPT ![p] = t] /\ t.todo = {} /\ t.good = {}
                           /\ t.copies \subseteq files_to_offload /\ t.sources \subseteq files_to_release
    BY <1>1, ListEffect
  <2>2. files_to_offload \subseteq Recorded /\ files_to_release \subseteq Recorded
    BY DEF files_to_offload, files_to_release, Oldest, ToCopy, Recorded
  <2>3. QED
    BY <1>a, <2>1, <2>2 DEF Holds
<1>2. CASE Claim(p)
  <2>1. Holds([pass[p] EXCEPT !.stage = "hash"]) \subseteq Holds(pass[p])
    BY <1>a DEF APass, Holds
  <2>2. QED
    BY <1>2, <1>a, <1>b, <2>1, HelpersHold DEF Claim
<1>3. CASE HashSources(p)
  BY <1>3, <1>a DEF HashSources, APass, Holds
<1>4. CASE HashTargets(p) \/ Rehash(p)
  <2> DEFINE t == [pass[p] EXCEPT !.todo = {f \in @ : repo[f] # "good"},
                                  !.good = {f \in pass[p].todo : repo[f] = "good"}]
  <2>1. t \in APass /\ Holds(t) \subseteq Holds(pass[p])
    BY <1>a DEF APass, Holds
  <2>2. pass'[p] \in {Copying(t), ToDelete(t)}
    BY <1>4, <1>a DEF HashTargets, Rehash
  <2> HIDE DEF t
  <2>3. QED
    BY <2>1, <2>2, HelpersHold
<1>5. CASE \E f \in Files : CopyFile(p, f)
  <2>1. PICK f \in Files, v \in {"none", "good", "bad"} :
            /\ f \in pass[p].todo
            /\ pass' = [pass EXCEPT ![p] = Copying([pass[p] EXCEPT !.todo = @ \ {f}, !.good = IF v = "good" THEN @ \cup {f} ELSE @])]
    BY <1>5, TypeParts DEF CopyFile, Arrives, Disk, IsFirst
  <2> DEFINE t == [pass[p] EXCEPT !.todo = @ \ {f}, !.good = IF v = "good" THEN @ \cup {f} ELSE @]
  <2>2. t \in APass /\ Holds(t) \subseteq Holds(pass[p])
    BY <1>a, <2>1 DEF APass, Holds
  <2>3. pass'[p] = Copying(t)
    BY <1>a, <2>1
  <2> HIDE DEF t
  <2>4. QED
    BY <2>2, <2>3, HelpersHold
<1>6. CASE CopyRaises(p)
  BY <1>6, <1>a DEF CopyRaises, APass, Holds
<1>7. CASE \E f \in Files : MarkCopied(p, f) \/ RefuseRelease(p, f) \/ MarkPruned(p, f) \/ MarkExpired(p, f)
  <2>1. PICK f \in Files : MarkCopied(p, f) \/ RefuseRelease(p, f) \/ MarkPruned(p, f) \/ MarkExpired(p, f)
    BY <1>7
  <2> DEFINE t == [pass[p] EXCEPT !.todo = @ \ {f}]
  <2>2. t \in APass /\ Holds(t) \subseteq Holds(pass[p])
    BY <1>c
  <2>3. pass'[p] \in {t, Off, Marking(t), ToDelete(t), AfterRelease(t)}
    BY <2>1, <1>a DEF MarkCopied, RefuseRelease, MarkPruned, MarkExpired
  <2> HIDE DEF t
  <2>4. QED
    BY <1>b, <2>2, <2>3, HelpersHold
<1>8. CASE ReadFloor(p)
  <2> DEFINE candidates == {f \in pass[p].sources \ Directories : BelowFloor(f)}
  <2>1. candidates \subseteq Holds(pass[p])
    BY DEF Holds
  <2>2. pass'[p] = IF candidates = {} THEN AfterRelease(pass[p])
                   ELSE [pass[p] EXCEPT !.stage = "rehash", !.todo = candidates, !.sources = {}]
    BY <1>8, <1>a DEF ReadFloor
  <2> HIDE DEF candidates
  <2>3. Holds([pass[p] EXCEPT !.stage = "rehash", !.todo = candidates, !.sources = {}]) \subseteq Holds(pass[p])
    BY <1>a, <2>1 DEF APass, Holds
  <2>4. QED
    BY <1>a, <2>2, <2>3, HelpersHold
<1>9. CASE DeleteSources(p) \/ DeleteCopies(p)
  <2>1. PICK S \in SUBSET pass[p].todo, s \in {"prune", "expire"} :
            pass'[p] \in {Off, AfterRelease(pass[p]), [pass[p] EXCEPT !.stage = s, !.todo = S]}
    BY <1>9, <1>a DEF DeleteSources, DeleteCopies, Deleted
  <2>2. Holds([pass[p] EXCEPT !.stage = s, !.todo = S]) \subseteq Holds(pass[p])
    BY <1>a DEF APass, Holds
  <2>3. QED
    BY <1>a, <1>b, <2>1, <2>2, HelpersHold
<1>10. CASE Plan(p)
  <2>1. expiry_plan \subseteq Copies
    BY DEF expiry_plan
  <2>2. Holds([pass[p] EXCEPT !.stage = "cull", !.todo = expiry_plan]) \subseteq Holds(pass[p]) \cup Copies
    BY <1>a, <2>1 DEF APass, Holds
  <2>3. QED
    BY <1>10, <1>a, <1>b, <2>2 DEF Plan
<1>11. CASE Ends(p)
  BY <1>11, <1>a DEF Ends, HeldByTheDead, ItemsRaise, Dies, Off, Holds
<1>12. QED
  BY <1>1, <1>2, <1>3, <1>4, <1>5, <1>6, <1>7, <1>8, <1>9, <1>10, <1>11 DEF PassStep, Works

\* What was recorded stays so.
LEMMA RecordedStays == TypeOK /\ [Next]_vars => Recorded \subseteq Recorded'
  BY Steps, OutsideRow, PassRow DEF Recorded, vars

LEMMA KnownNext == TypeOK /\ Known /\ [Next]_vars => Known'
<1> SUFFICES ASSUME TypeOK, Known, [Next]_vars PROVE Known'
  OBVIOUS
<1>a. Recorded \subseteq Recorded' /\ pass \in [Passes -> APass]
  BY RecordedStays, TypeParts
<1>1. CASE UNCHANGED vars
  BY <1>1 DEF vars, Known, Copies, Recorded, Holds
<1>2. CASE Outside
  <2>1. pass' = pass
    BY <1>2 DEF Outside, Record, OutlivesRetention, Harm, Scrub, PauseEnds
  <2>2. Copies' = Copies
    BY <1>2, OutsideRow DEF Copies
  <2>3. QED
    BY <1>a, <2>1, <2>2 DEF Known, Holds
<1>3. ASSUME NEW p \in Passes, PassStep(p) PROVE Known'
  <2>1. Copies' \subseteq Copies \cup Holds(pass[p])
    BY <1>3, PassRow DEF Copies, Holds
  <2>2. \A q \in Passes : Holds(pass'[q]) \subseteq Recorded
    BY <1>3, <1>a, PassesType, PassHolds DEF Known
  <2>3. QED
    BY <1>a, <2>1, <2>2 DEF Known, Holds
<1>4. QED
  BY <1>1, <1>2, <1>3, Steps
-----------------------------------------------------------------------------
(* The repository, when one host runs the passes. *)

\* A file older than a chain the repository has stays so, and a copy that is there stays, or is older
\* than such a chain; one within its retention that nothing outside touches stays good.
LEMMA RepoCoverStays ==
    ASSUME RepoInv, [Next]_vars, NEW f \in Files
    PROVE  /\ Covered(repo, f) => Covered(repo, f)'
           /\ Kept(repo, f) => Kept(repo, f)' \/ Covered(repo, f)'
           /\ repo[f] = "good" => repo'[f] = "good" \/ f \in past' \cup harmed'
<1> USE DEF Covered, Kept
<1>a. repo \in Disk /\ TypeOK /\ harmed \subseteq Files /\ Fulls \subseteq Files
  BY TypeParts, OffloadConstants DEF RepoInv
<1>1. CASE UNCHANGED <<repo, harmed>>
  BY <1>1
<1>2. CASE \E p \in Passes : DeleteCopies(p)
  <2>1. PICK p \in Passes : DeleteCopies(p)
    BY <1>2
  <2>2. PICK S \in SUBSET pass[p].todo : repo' = [g \in Files |-> IF g \in S THEN "none" ELSE repo[g]]
    BY <2>1 DEF DeleteCopies, Deleted
  <2>3. /\ harmed' = harmed /\ past' = past /\ S \subseteq past
        /\ \A x \in S : \E g \in Fulls : x < Start[g] /\ (repo[g] = "good" \/ g \in harmed)
    BY <2>1, <2>2 DEF DeleteCopies, RepoInv, RepoSound
  <2> DEFINE K == {g \in Fulls : repo[g] = "good" \/ g \in harmed}
  <2>4. \A x \in Files : (\E g \in K : x < Start[g]) => \E g \in K \ S : x < Start[g]
    <3>1. K \in SUBSET Fulls /\ \A x \in S \cap K : \E g \in K : x < Start[g]
      BY <2>3
    <3>2. Files \subseteq Nat
      BY OffloadConstants
    <3> HIDE DEF K
    <3>3. ASSUME NEW x \in Files, \E g \in K : x < Start[g] PROVE \E g \in K \ S : x < Start[g]
      <4>1. x \in Nat
        BY <3>2
      <4>2. QED
        BY <3>1, <3>3, <4>1, ChainsStay
    <3>4. QED
      BY <3>3
  <2>5. \A g \in K \ S : repo'[g] = "good" \/ g \in harmed'
    BY <1>a, <2>2, <2>3
  <2>6. Covered(repo, f) => Covered(repo, f)'
    BY <2>4, <2>5
  <2>7. CASE f \in S
    BY <2>3, <2>6, <2>7
  <2>8. CASE f \notin S
    BY <2>2, <2>3, <2>6, <2>8
  <2>9. QED
    BY <2>7, <2>8
<1>3. ASSUME \A h \in Files : /\ repo[h] = "good" \/ h \in harmed => repo'[h] = "good" \/ h \in harmed'
                              /\ repo[h] = "good" => repo'[h] = "good" \/ h \in harmed'
      PROVE  /\ Covered(repo, f) => Covered(repo, f)'
             /\ Kept(repo, f) => Kept(repo, f)' \/ Covered(repo, f)'
             /\ repo[f] = "good" => repo'[f] = "good" \/ f \in past' \cup harmed'
  BY <1>a, <1>3
<1>4. CASE \E p \in Passes, g \in Files : CopyFile(p, g)
  <2>1. PICK p \in Passes, g \in Files : CopyFile(p, g)
    BY <1>4
  <2>2. repo[g] # "good"
    BY <2>1 DEF CopyFile, IsFirst, RepoInv, RepoSound
  <2>3. harmed' = harmed /\ \A h \in Files : h # g => repo'[h] = repo[h]
    BY <2>1, <1>a DEF CopyFile, Disk
  <2>4. QED
    BY <2>2, <2>3, <1>3
<1>5. CASE Outside
  <2>1. PICK g \in Files : Record(g) \/ OutlivesRetention(g) \/ Harm(g) \/ Scrub(g) \/ PauseEnds(g)
    BY <1>5 DEF Outside
  <2>2. \A h \in Files : /\ repo[h] = "good" \/ h \in harmed => repo'[h] = "good" \/ h \in harmed'
                         /\ repo[h] = "good" => repo'[h] = "good" \/ h \in harmed'
    BY <1>a, <2>1 DEF Record, OutlivesRetention, Harm, Scrub, PauseEnds, Disk
  <2>3. QED
    BY <2>2, <1>3
<1>6. QED
  BY <1>1, <1>2, <1>4, <1>5, Steps, PassDisks DEF vars

\* Time and harm only grow.
LEMMA HistoryGrows ==
    ASSUME [Next]_vars
    PROVE  past \subseteq past' /\ harmed \subseteq harmed'
<1>1. ASSUME Outside PROVE past \subseteq past' /\ harmed \subseteq harmed'
  BY <1>1 DEF Outside, Record, OutlivesRetention, Harm, Scrub, PauseEnds
<1>2. QED
  BY <1>1, Steps, PassDisks DEF vars

LEMMA RepoRowsNext == RepoInv /\ [Next]_vars => RepoRows'
<1> SUFFICES ASSUME RepoInv, [Next]_vars, NEW f \in Files
             PROVE  /\ rows'[f].copy = "expired" => Covered(repo, f)'
                    /\ rows'[f].copy = "verified" => Kept(repo, f)' \/ Covered(repo, f)'
  BY DEF RepoRows
<1>a. /\ TypeOK
      /\ rows[f].copy = "expired" => Covered(repo, f)
      /\ rows[f].copy = "verified" => Kept(repo, f) \/ Covered(repo, f)
  BY DEF RepoInv, RepoRows
<1>1. CASE rows'[f].copy = rows[f].copy
  BY <1>1, <1>a, RepoCoverStays
<1>2. ASSUME NEW p \in Passes, PassStep(p)
      PROVE  /\ rows'[f].copy = "expired" => Covered(repo, f)'
             /\ rows'[f].copy = "verified" => Kept(repo, f)' \/ Covered(repo, f)'
  <2>1. pass[p].stage = "expire" /\ f \in pass[p].todo => Covered(repo, f)
    BY DEF RepoInv, RepoSound
  <2>2. pass[p].stage \in {"mark", "raised"} /\ f \in pass[p].good => Kept(repo, f)
    BY DEF RepoInv, RepoSound
  <2>3. QED
    BY <1>2, <1>a, <2>1, <2>2, PassRow, RepoCoverStays
<1>3. QED
  BY <1>1, <1>2, <1>a, Steps, OutsideRow DEF vars

LEMMA VerifiedNext == RepoInv /\ [Next]_vars => VerifiedIsThere'
<1> SUFFICES ASSUME RepoInv, [Next]_vars, NEW f \in Files, rows'[f].copy = "verified", f \notin past' \cup harmed'
             PROVE  repo'[f] = "good"
  BY DEF VerifiedIsThere, Copies
<1>a. TypeOK /\ f \notin past \cup harmed /\ (rows[f].copy = "verified" => repo[f] = "good")
  BY HistoryGrows DEF RepoInv, VerifiedIsThere, Copies
<1>1. ASSUME NEW p \in Passes, PassStep(p) PROVE repo[f] = "good"
  <2>1. pass[p].stage \in {"mark", "raised"} /\ f \in pass[p].good => repo[f] = "good" \/ f \in harmed
    BY DEF RepoInv, RepoSound, Kept
  <2>2. QED
    BY <1>1, <1>a, <2>1, PassRow
<1>2. repo[f] = "good"
  BY <1>1, <1>a, Steps, OutsideRow DEF vars
<1>3. QED
  BY <1>2, RepoCoverStays

LEMMA NothingLostNext == RepoInv /\ [Next]_vars => NothingLost'
<1> SUFFICES ASSUME RepoInv, [Next]_vars, NEW f \in Files, rows'[f].state # "none", f \notin past' \cup harmed'
             PROVE  server'[f] = "good" \/ repo'[f] = "good"
  BY DEF NothingLost, Recorded
<1>a. TypeOK /\ server \in Disk /\ f \notin past \cup harmed
  BY TypeParts, HistoryGrows DEF RepoInv
<1>b. rows[f].state # "none" => server[f] = "good" \/ repo[f] = "good"
  BY <1>a DEF RepoInv, NothingLost, Recorded
<1>1. CASE repo[f] = "good"
  BY <1>1, RepoCoverStays
<1>2. CASE UNCHANGED vars
  BY <1>2, <1>b DEF vars
<1>3. CASE Outside
  <2>1. server[f] = "good" => server'[f] = "good"
    BY <1>3, <1>a DEF Outside, Record, OutlivesRetention, Harm, Scrub, PauseEnds, Disk
  <2>2. rows[f].state # "none" \/ server'[f] = "good"
    BY <1>3, <1>a, OutsideRow
  <2>3. QED
    BY <1>1, <1>b, <2>1, <2>2
<1>4. ASSUME NEW p \in Passes, PassStep(p) PROVE server'[f] = "good" \/ repo'[f] = "good"
  <2>1. rows[f].state # "none"
    BY <1>4, <1>a, PassRow DEF RepoInv, Known, Holds, Recorded
  <2>2. CASE server' = server
    BY <1>1, <1>b, <2>1, <2>2
  <2>3. CASE DeleteSources(p)
    <3>1. PICK S \in SUBSET pass[p].todo : server' = [g \in Files |-> IF g \in S THEN "none" ELSE server[g]]
      BY <2>3 DEF DeleteSources, Deleted
    <3>2. \A g \in S : repo[g] = "good" \/ g \in harmed
      BY <2>3, <3>1 DEF DeleteSources, RepoInv, RepoSound, Kept
    <3>3. QED
      BY <1>1, <1>a, <1>b, <2>1, <3>1, <3>2
  <2>4. QED
    BY <1>4, <2>2, <2>3, PassDisks
<1>5. QED
  BY <1>2, <1>3, <1>4, Steps

\* The stages in which what a pass has read of the repository does not matter.
Careless == {"off", "dead", "listed", "hash", "look", "floor", "rehash", "prune", "plan"}

LEMMA CarelessSteps ==
    ASSUME TypeOK, NEW p \in Passes,
           \/ List(p) \/ Claim(p) \/ Ends(p) \/ HashSources(p) \/ ReadFloor(p) \/ DeleteSources(p)
           \/ \E f \in Files : MarkPruned(p, f)
    PROVE  pass'[p].stage \in Careless
<1> USE DEF SetPass
<1>a. pass \in [Passes -> APass] /\ pass[p] \in APass
  BY TypeParts
<1>b. ASSUME NEW s, NEW S PROVE /\ [pass[p] EXCEPT !.stage = s].stage = s
                                /\ [pass[p] EXCEPT !.stage = s, !.todo = S].stage = s
                                /\ [pass[p] EXCEPT !.stage = s, !.todo = S, !.sources = {}].stage = s
                                /\ [pass[p] EXCEPT !.todo = S].stage = pass[p].stage
                                /\ [pass[p] EXCEPT !.todo = S] \in APass \/ S \notin SUBSET Files
  BY <1>a DEF APass
<1>1. CASE List(p)
  BY <1>1, <1>a, ListEffect DEF Careless
<1>2. CASE Claim(p)
  BY <1>2, <1>a, <1>b, OffType, AfterCopyType DEF Claim, Careless
<1>3. CASE Ends(p)
  BY <1>3, EndsEffect DEF Careless
<1>4. CASE HashSources(p)
  <2>1. PICK gone, todo : pass' = [pass EXCEPT ![p] = [pass[p] EXCEPT !.stage = "look", !.gone = gone, !.todo = todo]]
    BY <1>4 DEF HashSources
  <2>2. QED
    BY <1>a, <2>1 DEF APass, Careless
<1>5. CASE ReadFloor(p)
  BY <1>5, <1>a, <1>b, AfterReleaseType DEF ReadFloor, Careless
<1>6. CASE DeleteSources(p)
  <2>1. PICK S : pass'[p] \in {AfterRelease(pass[p]), [pass[p] EXCEPT !.stage = "prune", !.todo = S]}
    BY <1>6, <1>a DEF DeleteSources
  <2>2. [pass[p] EXCEPT !.stage = "prune", !.todo = S].stage = "prune"
    BY <1>b
  <2>3. QED
    BY <1>a, <2>1, <2>2, AfterReleaseType DEF Careless
<1>7. CASE \E f \in Files : MarkPruned(p, f)
  <2>1. PICK f \in Files : MarkPruned(p, f)
    BY <1>7
  <2> DEFINE t == [pass[p] EXCEPT !.todo = @ \ {f}]
  <2>2. t \in APass /\ t.stage = pass[p].stage
    BY <1>a DEF APass
  <2>3. pass'[p] \in {Off, AfterRelease(t), t} /\ pass[p].stage = "prune"
    BY <2>1, <1>a DEF MarkPruned
  <2> HIDE DEF t
  <2>4. QED
    BY <2>2, <2>3, AfterReleaseType, OffType DEF Careless
<1>8. QED
  BY <1>1, <1>2, <1>3, <1>4, <1>5, <1>6, <1>7

\* What a pass holds stays sound in every step that leaves the copies of the catalogue alone and makes
\* none of the repository's files good.
LEMMA SoundStays ==
    ASSUME RepoInv, [Next]_vars, NEW q \in Passes, RepoSound(pass'[q]), Copies' = Copies,
           \A f \in Files : repo[f] # "good" => repo'[f] # "good",
           \A f \in Files : Kept(repo, f) => Kept(repo, f)'
    PROVE  RepoSound(pass[q])'
<1>1. \A f \in Files : Covered(repo, f) => Covered(repo, f)'
  BY RepoCoverStays
<1>2. past \subseteq past' /\ pass'[q].todo \subseteq Files /\ pass'[q].good \subseteq Files
  <2>1. pass' \in [Passes -> APass]
    BY TypeNext DEF RepoInv, TypeOK, APass, Stages
  <2>2. QED
    BY <2>1, HistoryGrows DEF APass
<1>3. \A g, d : Owns(g, d)' <=> Owns(g, d)
  BY DEF Owns
<1>4. pass'[q].stage \in {"cull", "expire"} =>
           /\ \A f \in pass'[q].todo : f \in past' /\ Covered(repo, f)'
           /\ \A g \in pass'[q].todo \cap Fulls : \A d \in Copies' \ Fulls : Owns(g, d)' => d \in past'
  BY <1>1, <1>2, <1>3 DEF RepoSound
<1>5. /\ pass'[q].stage = "copy" => \A f \in pass'[q].todo : repo'[f] # "good"
      /\ pass'[q].stage \in {"copy", "mark", "refuse"} => \A f \in pass'[q].good : Kept(repo, f)'
      /\ pass'[q].stage = "raised" => pass'[q].good = {}
      /\ pass'[q].stage = "delete" => \A f \in pass'[q].todo : Kept(repo, f)'
  BY <1>2 DEF RepoSound
<1>6. QED
  BY <1>4, <1>5 DEF RepoSound

\* A step that touches neither the repository nor the copies of the catalogue.
LEMMA SoundStaysQuietly ==
    ASSUME RepoInv, [Next]_vars, NEW q \in Passes, RepoSound(pass'[q]), Copies' = Copies, UNCHANGED <<repo, harmed>>
    PROVE  RepoSound(pass[q])'
<1>1. \A f \in Files : (repo[f] # "good" => repo'[f] # "good") /\ (Kept(repo, f) => Kept(repo, f)')
  BY DEF Kept
<1>2. QED
  BY <1>1, SoundStays

\* A pass that copies, verifies, refuses or expires holds what is sound after its own step.
LEMMA OwnRepoSound ==
    ASSUME RepoInv, [Next]_vars, NEW p \in Passes, PassStep(p)
    PROVE  RepoSound(pass[p])'
<1> USE DEF SetPass
<1>a. TypeOK /\ pass \in [Passes -> APass] /\ pass[p] \in APass /\ RepoSound(pass[p]) /\ rows \in [Files -> ARow]
  BY TypeParts DEF RepoInv
<1>b. harmed' = harmed /\ past' = past
  BY PassDisks
<1>1. CASE \/ List(p) \/ Claim(p) \/ Ends(p) \/ HashSources(p) \/ ReadFloor(p) \/ DeleteSources(p)
           \/ \E f \in Files : MarkPruned(p, f)
  BY <1>1, <1>a, CarelessSteps DEF Careless, RepoSound
<1>2. CASE HashTargets(p) \/ Rehash(p)
  <2> DEFINE t == [pass[p] EXCEPT !.todo = {f \in @ : repo[f] # "good"},
                                  !.good = {f \in pass[p].todo : repo[f] = "good"}]
  <2>1. /\ t \in APass
        /\ \A f \in t.todo : repo[f] # "good"
        /\ \A f \in t.good : repo[f] = "good"
    BY <1>a DEF APass
  <2>2. UNCHANGED <<repo, rows>> /\ pass'[p] \in {Copying(t), ToDelete(t)}
    BY <1>2, <1>a DEF HashTargets, Rehash
  <2> HIDE DEF t
  <2>3. CASE pass'[p] = Copying(t)
    BY <2>1, <2>2, <2>3, CopyingType DEF RepoSound, Kept
  <2>4. CASE pass'[p] = ToDelete(t)
    BY <2>1, <2>2, <2>4, ToDeleteType DEF RepoSound, Kept
  <2>5. QED
    BY <2>2, <2>3, <2>4
<1>3. CASE \E f \in Files : CopyFile(p, f)
  <2>1. PICK f \in Files, v \in {"none", "good", "bad"} :
            /\ f \in pass[p].todo /\ pass[p].stage = "copy" /\ repo' = [repo EXCEPT ![f] = v]
            /\ pass' = [pass EXCEPT ![p] = Copying([pass[p] EXCEPT !.todo = @ \ {f}, !.good = IF v = "good" THEN @ \cup {f} ELSE @])]
    BY <1>3, TypeParts DEF CopyFile, Arrives, Disk, IsFirst, RepoInv
  <2> DEFINE t == [pass[p] EXCEPT !.todo = @ \ {f}, !.good = IF v = "good" THEN @ \cup {f} ELSE @]
  <2>2. /\ t \in APass /\ t.todo = pass[p].todo \ {f}
        /\ t.good = IF v = "good" THEN pass[p].good \cup {f} ELSE pass[p].good
    BY <1>a DEF APass
  <2>3. pass'[p] = Copying(t)
    BY <1>a, <2>1
  <2> HIDE DEF t
  <2>4. /\ repo \in Disk /\ pass[p].todo \subseteq Files /\ pass[p].good \subseteq Files
        /\ \A g \in pass[p].todo : repo[g] # "good"
        /\ \A g \in pass[p].good : repo[g] = "good" \/ g \in harmed
    BY <1>a, <2>1, TypeParts DEF APass, RepoSound, Kept
  <2>5. \A g \in t.todo : repo'[g] # "good"
    BY <2>1, <2>2, <2>4 DEF Disk
  <2>6. \A g \in t.good : repo'[g] = "good" \/ g \in harmed'
    <3>1. \A g \in pass[p].good : repo'[g] = "good" \/ g \in harmed'
      BY <1>b, <2>1, <2>4 DEF Disk
    <3>2. v = "good" => repo'[f] = "good"
      BY <2>1, <2>4 DEF Disk
    <3>3. QED
      BY <2>2, <3>1, <3>2
  <2>7. QED
    BY <2>2, <2>3, <2>5, <2>6, CopyingType DEF RepoSound, Kept
<1>4. CASE CopyRaises(p)
  <2>1. pass'[p].stage = "raised" /\ pass'[p].good = {}
    BY <1>4, <1>a DEF CopyRaises, APass
  <2>2. QED
    BY <2>1 DEF RepoSound
<1>5. CASE \E f \in Files : MarkCopied(p, f)
  <2>1. PICK f \in Files : MarkCopied(p, f)
    BY <1>5
  <2>2. repo' = repo /\ pass[p].stage \in {"mark", "raised"}
    BY <1>a, <2>1, MarkCopiedEffect
  <2> DEFINE t == [pass[p] EXCEPT !.todo = @ \ {f}]
  <2>3. t.stage = pass[p].stage /\ t.good = pass[p].good
    BY <1>a DEF APass
  <2>4. pass'[p] = t \/ pass'[p].stage \in {"off", "plan", "floor"}
    <3>1. \/ pass' = [pass EXCEPT ![p] = t]
          \/ \E u \in APass : u.stage \in {"off", "plan", "floor"} /\ pass' = [pass EXCEPT ![p] = u]
      BY <1>a, <2>1, MarkCopiedEffect
    <3> HIDE DEF t
    <3>2. QED
      BY <1>a, <3>1
  <2> HIDE DEF t
  <2>5. CASE pass'[p] = t
    BY <1>a, <1>b, <2>2, <2>3, <2>5 DEF RepoSound, Kept
  <2>6. CASE pass'[p].stage \in {"off", "plan", "floor"}
    BY <2>6 DEF RepoSound
  <2>7. QED
    BY <2>4, <2>5, <2>6
<1>6. CASE \E f \in Files : RefuseRelease(p, f)
  <2>1. PICK f \in Files : RefuseRelease(p, f)
    BY <1>6
  <2> DEFINE t == [pass[p] EXCEPT !.todo = @ \ {f}]
  <2>2. t \in APass /\ t.good = pass[p].good
    BY <1>a DEF APass
  <2>3. pass'[p] \in {Off, ToDelete(t)} /\ repo' = repo /\ pass[p].stage = "refuse"
    BY <1>a, <2>1 DEF RefuseRelease
  <2> HIDE DEF t
  <2>4. \A g \in t.good : repo[g] = "good" \/ g \in harmed
    BY <1>a, <2>2, <2>3 DEF RepoSound, Kept
  <2>5. QED
    BY <1>b, <2>2, <2>3, <2>4, ToDeleteType, OffType DEF RepoSound, Kept
<1>7. CASE Plan(p)
  <2>1. UNCHANGED <<rows, repo>> /\ Copies' = Copies
    BY <1>7 DEF Plan, Copies
  <2>2. CASE expiry_plan = {}
    BY <1>7, <1>a, <2>2, OffType DEF Plan, RepoSound
  <2>3. CASE expiry_plan # {}
    <3>1. pass'[p] = [pass[p] EXCEPT !.stage = "cull", !.todo = expiry_plan]
      BY <1>7, <1>a, <2>3 DEF Plan
    <3>2. pass'[p] \in APass /\ pass'[p].stage = "cull" /\ pass'[p].todo = expiry_plan
      <4>1. expiry_plan \subseteq Files
        BY DEF expiry_plan, Copies
      <4>2. QED
        BY <1>a, <3>1, <4>1 DEF APass, Stages
    <3>3. \A f \in expiry_plan : f \in past /\ Covered(repo, f)
      <4>1. SUFFICES ASSUME NEW f \in Files, f \in past, BeforeTheNewest(f) PROVE Covered(repo, f)
        BY DEF expiry_plan, Copies
      <4>2. PICK g \in Fulls : g \in Copies /\ f < Start[g]
        BY <4>1 DEF BeforeTheNewest
      <4>3. Kept(repo, g) \/ Covered(repo, g)
        BY <4>2 DEF Copies, RepoInv, RepoRows
      <4>4. CASE Kept(repo, g)
        BY <4>2, <4>4 DEF Covered
      <4>5. CASE Covered(repo, g)
        <5>1. PICK h \in Fulls : g < Start[h] /\ Kept(repo, h)
          BY <4>5 DEF Covered
        <5>2. f \in Nat /\ g \in Nat /\ Start[g] \in Nat /\ Start[h] \in Nat /\ Start[g] <= g
          BY ChainOrder, OffloadConstants
        <5>3. f < Start[h]
          BY <4>2, <5>1, <5>2
        <5>4. QED
          BY <5>1, <5>3 DEF Covered
      <4>6. QED
        BY <4>3, <4>4, <4>5
    <3>4. \A g \in expiry_plan \cap Fulls : \A d \in Copies \ Fulls : Owns(g, d) => d \in past
      BY DEF expiry_plan
    <3>5. RepoSound(pass'[p])
      BY <3>2, <3>3, <3>4 DEF RepoSound
    <3>6. QED
      BY <1>b, <2>1, <3>5, SoundStaysQuietly
  <2>4. QED
    BY <2>2, <2>3
<1>8. CASE DeleteCopies(p)
  <2>1. PICK S \in SUBSET pass[p].todo : pass'[p] \in {Off, [pass[p] EXCEPT !.stage = "expire", !.todo = S]}
    BY <1>8, <1>a DEF DeleteCopies, Deleted
  <2>2. CASE pass'[p] = Off
    BY <2>2, OffType DEF RepoSound
  <2>3. CASE pass'[p] = [pass[p] EXCEPT !.stage = "expire", !.todo = S]
    <3>1. pass'[p].stage = "expire" /\ pass'[p].todo = S
      BY <1>a, <2>3 DEF APass
    <3>2. /\ Copies' = Copies /\ S \subseteq Files
          /\ \A f \in S : f \in past /\ Covered(repo, f)
          /\ \A g \in S \cap Fulls : \A d \in Copies \ Fulls : Owns(g, d) => d \in past
      BY <1>8, <1>a DEF DeleteCopies, Copies, RepoSound, APass
    <3>3. \A f \in S : Covered(repo, f)'
      BY <3>2, RepoCoverStays
    <3>4. \A g, d : Owns(g, d)' <=> Owns(g, d)
      BY <3>2 DEF Owns
    <3>5. \A g \in S \cap Fulls : \A d \in Copies' \ Fulls : Owns(g, d)' => d \in past'
      BY <1>b, <3>2, <3>4
    <3>6. QED
      BY <1>b, <3>1, <3>2, <3>3, <3>5 DEF RepoSound
  <2>4. QED
    BY <2>1, <2>2, <2>3
<1>9. CASE \E f \in Files : MarkExpired(p, f)
  <2>1. PICK f \in Files : MarkExpired(p, f)
    BY <1>9
  <2>2. /\ pass[p].stage = "expire" /\ f \in pass[p].todo /\ \A g \in pass[p].todo : f <= g
        /\ UNCHANGED <<repo, past, harmed>> /\ pass'[p] \in {Off, [pass[p] EXCEPT !.todo = @ \ {f}]}
    BY <1>a, <2>1 DEF MarkExpired, IsFirst
  <2>3. CASE pass'[p] = Off
    BY <2>3, OffType DEF RepoSound
  <2>4. CASE pass'[p] = [pass[p] EXCEPT !.todo = @ \ {f}]
    <3>1. pass'[p].stage = "expire" /\ pass'[p].todo = pass[p].todo \ {f}
      BY <1>a, <2>2, <2>4 DEF APass
    <3>2. \A g \in Files : g \in Copies' <=> g \in Copies /\ g # f
      <4>1. [rows[f] EXCEPT !.copy = "expired"].copy = "expired"
        BY <1>a DEF ARow
      <4>2. rows' = [rows EXCEPT ![f] = [rows[f] EXCEPT !.copy = "expired"]]
        BY <2>1 DEF MarkExpired, SetRow
      <4>3. QED
        BY <1>a, <4>1, <4>2 DEF Copies
    <3>3. ASSUME NEW g \in pass[p].todo \cap Fulls, NEW d \in Copies' \ Fulls, Owns(g, d)'
          PROVE  d \in past
      <4>1. d \in Copies \ Fulls
        BY <3>2, <3>3 DEF Copies
      <4>2. Start[g] <= d
        BY <3>3 DEF Owns
      <4>3. ASSUME NEW h \in Copies \cap Fulls, Start[h] <= d PROVE h <= g
        <5>1. CASE h = f
          BY <2>2, <3>3, <5>1
        <5>2. CASE h # f
          <6>1. h \in Copies' \cap Fulls
            BY <3>2, <4>3, <5>2, OffloadConstants
          <6>2. QED
            BY <3>3, <4>3, <6>1 DEF Owns
        <5>3. QED
          BY <5>1, <5>2
      <4>4. Owns(g, d)
        BY <4>2, <4>3 DEF Owns
      <4>5. QED
        BY <1>a, <2>2, <3>3, <4>1, <4>4 DEF RepoSound
    <3>4. \A g \in pass[p].todo : g \in past' /\ Covered(repo, g)'
      BY <1>a, <2>2 DEF RepoSound, Covered, Kept
    <3>5. QED
      BY <1>b, <3>1, <3>3, <3>4 DEF RepoSound
  <2>5. QED
    BY <2>2, <2>3, <2>4
<1>10. QED
  BY <1>1, <1>2, <1>3, <1>4, <1>5, <1>6, <1>7, <1>8, <1>9 DEF PassStep, Works

LEMMA RepoSoundNext == OneHostRuns /\ RepoInv /\ [Next]_vars => \A q \in Passes : RepoSound(pass[q])'
<1> SUFFICES ASSUME OneHostRuns, RepoInv, [Next]_vars, NEW q \in Passes PROVE RepoSound(pass[q])'
  OBVIOUS
<1>a. TypeOK /\ pass \in [Passes -> APass] /\ RepoSound(pass[q]) /\ repo \in Disk
  BY TypeParts DEF RepoInv
<1>1. CASE UNCHANGED vars
  <2>1. Copies' = Copies /\ pass'[q] = pass[q] /\ UNCHANGED <<repo, harmed>>
    BY <1>1 DEF vars, Copies
  <2>2. QED
    BY <1>a, <2>1, SoundStaysQuietly
<1>2. CASE Outside
  <2>1. Copies' = Copies
    BY <1>2, <1>a, OutsideRow DEF Copies
  <2>2. PICK g \in Files : Record(g) \/ OutlivesRetention(g) \/ Harm(g) \/ Scrub(g) \/ PauseEnds(g)
    BY <1>2 DEF Outside
  <2>3. pass'[q] = pass[q]
    BY <2>2 DEF Record, OutlivesRetention, Harm, Scrub, PauseEnds
  <2>4. \A f \in Files : /\ repo[f] # "good" => repo'[f] # "good"
                         /\ repo[f] = "good" \/ f \in harmed => repo'[f] = "good" \/ f \in harmed'
    BY <1>a, <2>2 DEF Record, OutlivesRetention, Harm, Scrub, PauseEnds, Disk
  <2>5. QED
    BY <1>a, <2>1, <2>3, <2>4, SoundStays DEF Kept
<1>3. ASSUME NEW p \in Passes, PassStep(p), p # q PROVE RepoSound(pass[q])'
  <2>1. pass'[q] = pass[q]
    BY <1>3, <1>a, PassesType
  <2>2. CASE ~Working(q)
    BY <2>1, <2>2 DEF Working, RepoSound
  <2>3. CASE Working(q)
    <3>1. ~Working(p)
      BY <1>3, <2>3 DEF OneHostRuns, RepoInv, OnePassWorks
    <3>2. List(p) \/ Claim(p) \/ Ends(p)
      BY <1>3, <3>1 DEF PassStep, Works, HashSources, HashTargets, ReadFloor, Rehash, DeleteSources, Plan, DeleteCopies,
         CopyFile, CopyRaises, MarkCopied, RefuseRelease, MarkPruned, MarkExpired, Working
    <3>3. UNCHANGED <<repo, harmed>>
      BY <3>2 DEF List, Claim, Ends, HeldByTheDead, ItemsRaise, Dies
    <3>4. Copies' = Copies
      <4>1. \A f \in Files : [rows[f] EXCEPT !.pause = "seen"].copy = rows[f].copy
        BY <1>a, TypeParts DEF ARow
      <4>2. QED
        BY <3>2, <4>1 DEF List, Claim, Ends, HeldByTheDead, ItemsRaise, Dies, Copies
    <3>5. QED
      BY <1>a, <2>1, <3>3, <3>4, SoundStaysQuietly
  <2>4. QED
    BY <2>2, <2>3
<1>4. QED
  BY <1>1, <1>2, <1>3, Steps, OwnRepoSound

LEMMA RepoInit == Init => RepoInv
<1> SUFFICES ASSUME Init PROVE RepoInv
  OBVIOUS
<1>1. TypeOK /\ OnePassWorks
  BY TypeInit, OnePassInit
<1>2. Known /\ NothingLost /\ VerifiedIsThere /\ RepoRows
  BY DEF Init, Known, Holds, Off, Copies, Recorded, NothingLost, VerifiedIsThere, RepoRows
<1>3. \A p \in Passes : RepoSound(pass[p])
  BY OffType DEF Init, RepoSound
<1>4. QED
  BY <1>1, <1>2, <1>3 DEF RepoInv

LEMMA RepoNext == OneHostRuns /\ RepoInv /\ [Next]_vars => RepoInv'
<1> SUFFICES ASSUME OneHostRuns, RepoInv, [Next]_vars PROVE RepoInv'
  OBVIOUS
<1>1. (TypeOK /\ OnePassWorks /\ Known)'
  BY TypeNext, OnePassNext, KnownNext DEF RepoInv
<1>2. (NothingLost /\ VerifiedIsThere /\ RepoRows)'
  BY NothingLostNext, VerifiedNext, RepoRowsNext
<1>3. (\A p \in Passes : RepoSound(pass[p]))'
  BY RepoSoundNext
<1>4. QED
  BY <1>1, <1>2, <1>3 DEF RepoInv

\* When one host runs the passes, no pass, whenever killed or cut off, loses a backup: one within its
\* retention that nothing outside has touched is good on the server or on the repository
\* (release_sources hashes the copy again before the delete that relies on it).
THEOREM NoBackupIsLost ==
    ASSUME OneHostRuns PROVE Spec => []NothingLost
<1>1. Init => RepoInv
  BY RepoInit
<1>2. RepoInv /\ [Next]_vars => RepoInv'
  BY RepoNext
<1>3. RepoInv => NothingLost
  BY DEF RepoInv
<1>4. QED
  BY <1>1, <1>2, <1>3, PTL DEF Spec

\* ... a row that says verified names a copy that is there and good (offload_entry writes it after the
\* rounds of the whole batch, so the proof must outlast the files copied in between) ...
THEOREM VerifiedCopiesAreThere ==
    ASSUME OneHostRuns PROVE Spec => []VerifiedIsThere
<1>1. Init => RepoInv
  BY RepoInit
<1>2. RepoInv /\ [Next]_vars => RepoInv'
  BY RepoNext
<1>3. RepoInv => VerifiedIsThere
  BY DEF RepoInv
<1>4. QED
  BY <1>1, <1>2, <1>3, PTL DEF Spec

\* ... what has expired on the repository is older than a chain whose full is there, although the
\* catalogue the plan is made from may still list what a failed pass has deleted (expiry_plan) ...
THEOREM RepositoryKeepsItsNewestChain ==
    ASSUME OneHostRuns PROVE Spec => []RepositoryKeepsTheNewestChain
<1>1. Init => RepoInv
  BY RepoInit
<1>2. RepoInv /\ [Next]_vars => RepoInv'
  BY RepoNext
<1>3. RepoInv => RepositoryKeepsTheNewestChain
  BY DEF RepoInv, RepoRows, RepositoryKeepsTheNewestChain, Covered, Kept
<1>4. QED
  BY <1>1, <1>2, <1>3, PTL DEF Spec

\* The fact that is about one step: a full that expires leaves nobody behind.
NoneLeftBehind ==
    \A g \in Fulls : rows[g].copy # "expired" /\ rows'[g].copy = "expired" =>
        \A d \in Copies \ Fulls : Owns(g, d) => d \in past

LEMMA ExpiryNext == RepoInv /\ [Next]_vars => NoneLeftBehind
<1> SUFFICES ASSUME RepoInv, [Next]_vars, NEW g \in Fulls, rows[g].copy # "expired", rows'[g].copy = "expired",
                    NEW d \in Copies \ Fulls, Owns(g, d)
             PROVE  d \in past
  BY DEF NoneLeftBehind
<1>1. g \in Files /\ TypeOK
  BY OffloadConstants DEF RepoInv
<1>2. PICK p \in Passes : pass[p].stage = "expire" /\ g \in pass[p].todo
  BY <1>1, Steps, OutsideRow, PassRow DEF vars
<1>3. QED
  BY <1>2 DEF RepoInv, RepoSound

\* ... and a full expires only when every copy that depends on it has outlived its own retention: the
\* rows are written oldest first, so that one written before changes nobody's chain (prune_repository).
THEOREM FullsExpireWithTheirChain ==
    ASSUME OneHostRuns PROVE Spec => ExpiresWithItsChain
<1>1. Init => RepoInv
  BY RepoInit
<1>2. RepoInv /\ [Next]_vars => RepoInv'
  BY RepoNext
<1>3. RepoInv /\ [Next]_vars => [NoneLeftBehind]_vars
  BY ExpiryNext
<1>4. QED
  BY <1>1, <1>2, <1>3, PTL DEF Spec, ExpiresWithItsChain, NoneLeftBehind
=============================================================================
