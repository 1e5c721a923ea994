---------------------------- MODULE PayloadStore ----------------------------
(***************************************************************************)
(* The payload files of the spool and what a loss of power leaves of them: *)
(* Save (stage, fsync, publish by rename), its fallback for roots between  *)
(* which renameat fails with EXDEV, Remove, the cleanup of NewPayloadStore *)
(* and QuarantineOrphans.                                                  *)
(*                                                                         *)
(* A directory is followed by its place: loc is where the running system   *)
(* sees it, dloc where it is after a loss of power; has and dhas are the   *)
(* files in it, likewise.  The file system is external: a rename is atomic *)
(* and is durable once the target's parent is synced, a file once it and   *)
(* its parent are; until then a loss of power may or may not undo it.      *)
(*                                                                         *)
(* The record store appears only as `rec`, the ids with a row.             *)
(***************************************************************************)
EXTENDS Naturals

CONSTANTS Ids,
          Files,       \* attachments/ and message.json
          MaxFaults    \* bound on failing system calls and losses of power

\* Every payload has a message.json.
ASSUME PayloadAssumption == MaxFaults \in Nat /\ Files # {}

VARIABLES
  xdev,       \* renameat between two roots fails with EXDEV
  proc,       \* the process
  pc,         \* the Save, Remove or quarantine of each payload
  loc, dloc,  \* where each of its directories is: now, and on disk
  has, dhas,  \* which files it has: now, and on disk
  rec,        \* ids with a record
  begun,      \* history: payloads whose removal has begun
  whole,      \* history: orphans that recovery found complete
  undone,     \* history: orphans whose removal failed after the copy
  faults

view == <<loc, has>>
stored == <<dloc, dhas>>
fs == <<view, stored>>
vars == <<xdev, proc, pc, fs, rec, begun, whole, undone, faults>>

\* The directory Save stages, the publish temp it is copied to, the copy under
\* payload-orphans/.
Dirs == {"staged", "copied", "orphaned"}

Places == {"none", "staging", "temp", "payloads", "orphans"}

\* The root that holds a place: publish temps live under payloads/.
Root(p) == IF p = "temp" THEN "payloads" ELSE p

Phases == {"idle", "staging", "copying", "renamed", "synced", "saved", "done",
           "removing", "failed", "lost", "moved", "setaside", "clearing"}

TypeOK ==
  /\ xdev \in BOOLEAN
  /\ proc \in {"down", "recovering", "serving"}
  /\ pc \in [Ids -> Phases]
  /\ loc \in [Ids -> [Dirs -> Places]] /\ dloc \in [Ids -> [Dirs -> Places]]
  /\ has \in [Ids -> [Dirs -> SUBSET Files]] /\ dhas \in [Ids -> [Dirs -> SUBSET Files]]
  /\ rec \subseteq Ids /\ begun \subseteq Ids /\ whole \subseteq Ids /\ undone \subseteq Ids
  /\ faults \in 0..MaxFaults

Init ==
  /\ xdev \in BOOLEAN
  /\ proc = "down"
  /\ pc = [i \in Ids |-> "idle"]
  /\ loc = [i \in Ids |-> [d \in Dirs |-> "none"]] /\ dloc = loc
  /\ has = [i \in Ids |-> [d \in Dirs |-> {}]] /\ dhas = has
  /\ rec = {} /\ begun = {} /\ whole = {} /\ undone = {}
  /\ faults = 0

Fault == faults < MaxFaults /\ faults' = faults + 1

\* Complete under a root, as the running system sees it and on disk.
Intact(i, p) == \E d \in Dirs : loc[i][d] = p /\ has[i][d] = Files
Durable(i, p) == \E d \in Dirs : dloc[i][d] = p /\ dhas[i][d] = Files

Published(i) == {d \in Dirs : loc[i][d] = "payloads"}
----------------------------------------------------------------------------
(* What the system calls do.                                               *)

To(i, p) == pc' = [pc EXCEPT ![i] = p]

\* createDirectoryAt and its two siblings: mkdir, fsync it and its parent.
Create(i, d, p) ==
  /\ loc' = [loc EXCEPT ![i][d] = p] /\ dloc' = [dloc EXCEPT ![i][d] = p]
  /\ has' = [has EXCEPT ![i][d] = {}] /\ dhas' = [dhas EXCEPT ![i][d] = {}]

\* Write a temporary file, fsync it, rename it, fsync the directory.
writeRegularFileAt(i, d, f) ==
  /\ has' = [has EXCEPT ![i][d] = @ \cup {f}]
  /\ dhas' = [dhas EXCEPT ![i][d] = @ \cup {f}]
  /\ UNCHANGED <<loc, dloc>>

Rename(i, d, p) == loc' = [loc EXCEPT ![i][d] = p] /\ UNCHANGED <<has, stored>>

\* What is on disk after a sync of root p: entries that came or went.
SyncedLoc(p) ==
  [i \in Ids |-> [d \in Dirs |->
     IF Root(loc[i][d]) = p \/ (loc[i][d] = "none" /\ Root(dloc[i][d]) = p)
     THEN loc[i][d] ELSE dloc[i][d]]]

syncFD(p) == dloc' = SyncedLoc(p) /\ UNCHANGED <<view, dhas>>

\* A deferred removeEntryTreeAt whose error is ignored: the directories in S are
\* gone, or some are not.
Discard(i, S) ==
  /\ \E T \in SUBSET S :
       /\ loc' = [loc EXCEPT ![i] = [d \in Dirs |-> IF d \in T THEN "none" ELSE @[d]]]
       /\ has' = [has EXCEPT ![i] = [d \in Dirs |-> IF d \in T THEN {} ELSE @[d]]]
  /\ UNCHANGED stored
----------------------------------------------------------------------------
(* Save.                                                                   *)

Rest == <<xdev, proc, rec, begun, whole, undone>>

createStagingDirectoryAt(i) ==
  /\ proc = "serving" /\ pc[i] = "idle"
  /\ Create(i, "staged", "staging")
  /\ To(i, "staging")
  /\ UNCHANGED <<Rest, faults>>

\* Each file of the payload; the code writes message.json last, here any order will do.
WriteStaged(i, f) ==
  /\ pc[i] = "staging" /\ f \notin has[i]["staged"]
  /\ writeRegularFileAt(i, "staged", f)
  /\ UNCHANGED <<Rest, pc, faults>>

\* renameDirectory; on EXDEV publishViaPayloadTemp copies into payloads/ first.
Publish(i) ==
  /\ pc[i] = "staging" /\ has[i]["staged"] = Files
  /\ IF xdev THEN Create(i, "copied", "temp") /\ To(i, "copying")
             ELSE Rename(i, "staged", "payloads") /\ To(i, "renamed")
  /\ UNCHANGED <<Rest, faults>>

CopyStaged(i, f) ==
  /\ pc[i] = "copying" /\ f \in has[i]["staged"] \ has[i]["copied"]
  /\ writeRegularFileAt(i, "copied", f)
  /\ UNCHANGED <<Rest, pc, faults>>

RenameTemp(i) ==
  /\ pc[i] = "copying" /\ has[i]["copied"] = has[i]["staged"]
  /\ Rename(i, "copied", "payloads")
  /\ To(i, "renamed")
  /\ UNCHANGED <<Rest, faults>>

\* Save returns without the sync of payloads/.
SyncPublishedSkipped(i) ==
  /\ pc[i] = "renamed"
  /\ To(i, "synced")
  /\ UNCHANGED <<Rest, fs, faults>>

SyncPublished(i) ==
  /\ pc[i] = "renamed"
  /\ syncFD("payloads")
  /\ To(i, "synced")
  /\ UNCHANGED <<Rest, faults>>

\* The last step of both ways to publish: sync staging/, or throw away the staged
\* directory that was copied.
SaveReturns(i) ==
  /\ pc[i] = "synced"
  /\ IF xdev THEN Discard(i, {"staged"}) ELSE syncFD("staging")
  /\ To(i, "saved")
  /\ UNCHANGED <<Rest, faults>>

\* Any system call of Save fails; the deferred functions clean up what is staged
\* or temporary.  What has been renamed stays.
SaveFails(i) ==
  /\ pc[i] \in {"staging", "copying", "renamed"} \/ (pc[i] = "synced" /\ ~xdev)
  /\ Fault
  /\ Discard(i, {d \in Dirs : loc[i][d] \in {"staging", "temp"}})
  /\ To(i, "failed")
  /\ UNCHANGED Rest
----------------------------------------------------------------------------
(* insertRecord and the Remove that follows its failure.                   *)

InsertRecord(i) ==
  /\ pc[i] = "saved"
  /\ rec' = rec \cup {i}
  /\ To(i, "done")
  /\ UNCHANGED <<xdev, proc, fs, begun, whole, undone, faults>>

InsertRecordFails(i) ==
  /\ pc[i] = "saved" /\ Fault
  /\ rec' \in {rec, rec \cup {i}}
  /\ To(i, "removing")
  /\ UNCHANGED <<xdev, proc, fs, begun, whole, undone>>

\* removeEntryTreeAt takes a published directory apart: one file,
RemoveFile(i, f) ==
  /\ pc[i] \in {"removing", "clearing"}
  /\ \E d \in Published(i) : f \in has[i][d] /\ has' = [has EXCEPT ![i][d] = @ \ {f}]
  /\ begun' = begun \cup {i}
  /\ UNCHANGED <<xdev, proc, pc, loc, stored, rec, whole, undone, faults>>

\* then the directory, and the sync of payloads/.
RemoveDirectory(i) ==
  /\ pc[i] = "removing"
  /\ \E d \in Published(i) :
       /\ has[i][d] = {}
       /\ loc' = [loc EXCEPT ![i][d] = "none"]
       /\ dloc' = [dloc EXCEPT ![i][d] = "none"] /\ dhas' = [dhas EXCEPT ![i][d] = {}]
  /\ To(i, "failed")
  /\ UNCHANGED <<xdev, proc, has, rec, begun, whole, undone, faults>>

\* Remove stops with an error, which Enqueue ignores.
RemoveFails(i) ==
  /\ pc[i] = "removing" /\ Fault
  /\ To(i, "failed")
  /\ UNCHANGED <<Rest, fs>>
----------------------------------------------------------------------------
(* The process.                                                            *)

\* The entries, and the files, that differ between the running system and the disk.
Moved == {x \in Ids \X Dirs : loc[x[1]][x[2]] # dloc[x[1]][x[2]]}
Touched == {x \in Ids \X Dirs \X Files :
              (x[3] \in has[x[1]][x[2]]) # (x[3] \in dhas[x[1]][x[2]])}

Down ==
  /\ proc' = "down"
  /\ pc' = [i \in Ids |-> IF pc[i] \in {"idle", "done", "failed"} THEN pc[i] ELSE "lost"]

\* The machine, or only the process, stops: every change that was not synced is
\* there or is not.
PowerLoss ==
  /\ proc # "down" /\ Fault
  /\ Down
  /\ \E U \in SUBSET Moved, V \in SUBSET Touched :
       /\ loc' = [i \in Ids |-> [d \in Dirs |->
                    IF <<i, d>> \in U THEN dloc[i][d] ELSE loc[i][d]]]
       /\ has' = [i \in Ids |-> [d \in Dirs |->
                    {f \in Files : /\ loc'[i][d] # "none"
                                   /\ (f \in has[i][d]) # (<<i, d, f>> \in V)}]]
  /\ dloc' = loc'
  /\ dhas' = has'
  /\ UNCHANGED <<xdev, rec, begun, whole, undone>>

Cleared(P, l) ==
  [i \in Ids |-> [d \in Dirs |-> IF loc[i][d] \in P THEN "none" ELSE l[i][d]]]

\* The files of the directories that stay.
Kept(P, h) == [i \in Ids |-> [d \in Dirs |-> IF loc[i][d] \in P THEN {} ELSE h[i][d]]]

\* NewPayloadStore that cleans only staging/.
OpenKeepsTemps ==
  /\ proc = "down"
  /\ proc' = "recovering"
  /\ loc' = Cleared({"staging"}, loc) /\ dloc' = Cleared({"staging"}, dloc)
  /\ has' = Kept({"staging"}, has) /\ dhas' = Kept({"staging"}, dhas)
  /\ whole' = {i \in Ids \ rec : Intact(i, "payloads")}
  /\ undone' = {}
  /\ UNCHANGED <<xdev, pc, rec, begun, faults>>

\* NewPayloadStore: removeTreeContentsFD(staging), cleanupPayloadTemps.  `whole`
\* notes what recovery starts from.
Open ==
  /\ proc = "down"
  /\ proc' = "recovering"
  /\ loc' = Cleared({"staging", "temp"}, loc) /\ dloc' = Cleared({"staging", "temp"}, dloc)
  /\ has' = Kept({"staging", "temp"}, has) /\ dhas' = Kept({"staging", "temp"}, dhas)
  /\ whole' = {i \in Ids \ rec : Intact(i, "payloads")}
  /\ undone' = {}
  /\ UNCHANGED <<xdev, pc, rec, begun, faults>>

\* QuarantineOrphans, one entry without a record: rename, or on EXDEV copy.
QuarantineOrphan(i) ==
  /\ proc = "recovering" /\ i \notin rec /\ pc[i] \notin {"moved", "setaside", "clearing"}
  /\ \E d \in Published(i) :
       IF xdev THEN Create(i, "orphaned", "orphans") /\ To(i, "setaside")
               ELSE Rename(i, d, "orphans") /\ To(i, "moved")
  /\ UNCHANGED <<Rest, faults>>

\* syncFD(payloads), then syncFD(orphans), after the rename; the second makes it durable.
SyncQuarantined(i) ==
  /\ pc[i] = "moved"
  /\ syncFD("orphans")
  /\ To(i, "lost")
  /\ UNCHANGED <<Rest, faults>>

\* copyDirectoryTreeAt into payload-orphans/.
CopyOrphan(i, f) ==
  /\ pc[i] = "setaside"
  /\ \E d \in Published(i) : f \in has[i][d] \ has[i]["orphaned"]
  /\ writeRegularFileAt(i, "orphaned", f)
  /\ UNCHANGED <<Rest, pc, faults>>

\* The source is removed while the copy is still being made.
ClearSourceEarly(i) ==
  /\ pc[i] = "setaside"
  /\ To(i, "clearing")
  /\ UNCHANGED <<Rest, fs, faults>>

\* The copy is complete; copyAndRemoveOrphan goes on to remove the source.
ClearSource(i) ==
  /\ pc[i] = "setaside"
  /\ \E d \in Published(i) : has[i]["orphaned"] = has[i][d]
  /\ To(i, "clearing")
  /\ UNCHANGED <<Rest, fs, faults>>

SourceCleared(i) ==
  /\ pc[i] = "clearing"
  /\ \E d \in Published(i) :
       /\ has[i][d] = {}
       /\ loc' = [loc EXCEPT ![i][d] = "none"]
       /\ dloc' = [dloc EXCEPT ![i][d] = "none"] /\ dhas' = [dhas EXCEPT ![i][d] = {}]
  /\ To(i, "lost")
  /\ UNCHANGED <<Rest, has, faults>>

\* A sync after the rename, the copy or the removal of the source fails: the copy is
\* thrown away and the startup ends with the error.
QuarantineFails(i) ==
  /\ pc[i] \in {"moved", "setaside", "clearing"} /\ Fault
  /\ Discard(i, {"orphaned"})
  /\ undone' = IF pc[i] = "clearing" THEN undone \cup {i} ELSE undone
  /\ Down
  /\ UNCHANGED <<xdev, rec, begun, whole>>

Serve ==
  /\ proc = "recovering"
  /\ \A i \in Ids : /\ pc[i] \notin {"moved", "setaside", "clearing"}
                    /\ i \in rec \/ Published(i) = {}
  /\ proc' = "serving"
  /\ UNCHANGED <<xdev, pc, fs, rec, begun, whole, undone, faults>>

Next ==
  \/ PowerLoss \/ Open \/ Serve
  \/ \E i \in Ids :
       \/ createStagingDirectoryAt(i) \/ Publish(i) \/ RenameTemp(i) \/ SyncPublished(i)
       \/ SaveReturns(i) \/ SaveFails(i) \/ InsertRecord(i) \/ InsertRecordFails(i)
       \/ RemoveDirectory(i) \/ RemoveFails(i) \/ QuarantineOrphan(i) \/ SyncQuarantined(i)
       \/ ClearSource(i) \/ SourceCleared(i) \/ QuarantineFails(i)
       \/ \E f \in Files : \/ WriteStaged(i, f) \/ CopyStaged(i, f)
                           \/ RemoveFile(i, f) \/ CopyOrphan(i, f)

Spec == Init /\ [][Next]_vars
----------------------------------------------------------------------------
\* "crash-safe payload commit semantics": once Save has returned, a loss of power
\* at any later point leaves the complete payload under payloads/, and it stays
\* there for as long as its record exists, unless Remove was called for it.
SavedIsDurable ==
  \A i \in Ids :
    pc[i] \in {"saved", "done"} \/ (i \in rec /\ pc[i] # "removing" /\ i \notin begun)
      => Durable(i, "payloads")

\* "canceled or failed writes do not leave partially published entries under
\* payloads/", and QuarantineOrphans fails on an entry that is not a record id, and with
\* it the startup: when recovery scans payloads/, no publish temp of a dead process is
\* left, nothing in staging/ has outlived the start, and an entry without all of its files
\* is one whose removal had begun, never the trace of a Save that failed, crashed or lost
\* power.
RecoveryFindsOnlyRecords ==
  proc = "recovering" =>
    \A i \in Ids :
      /\ \A d \in Dirs : {loc[i][d], dloc[i][d]} \cap {"staging", "temp"} = {}
      /\ \A d \in Published(i) : has[i][d] = Files \/ i \in begun

\* Recovery destroys no evidence: an orphan that was complete when recovery began
\* is complete, on disk, under payloads/ or payload-orphans/ at every moment,
\* power losses during the move included (unless the removal of the source failed,
\* in which case copyAndRemoveOrphan removes the copy again).
OrphanKept ==
  \A i \in whole \ undone : Durable(i, "payloads") \/ Durable(i, "orphans")
----------------------------------------------------------------------------
(* The inductive invariant of PayloadProofs.                               *)

Saving == {"staging", "copying", "renamed", "synced", "saved", "removing"}
Quarantining == {"moved", "setaside", "clearing"}

\* The directory that is published: on EXDEV the copy, otherwise the staged one.
Target == IF xdev THEN "copied" ELSE "staged"

\* All files are there and on disk.
Complete(i, d) == has[i][d] = Files /\ dhas[i][d] = Files

\* The payload is published, its copy is in payload-orphans/, or it was moved there
\* (and the loss of power may move it back).
Stored(i) == loc[i][Target] = "payloads" /\ dloc[i][Target] = "payloads" /\ Complete(i, Target)
Aside(i) ==
  loc[i]["orphaned"] = "orphans" /\ dloc[i]["orphaned"] = "orphans" /\ Complete(i, "orphaned")
MovedAway(i) ==
  /\ loc[i][Target] = "orphans" /\ dloc[i][Target] \in {"payloads", "orphans"}
  /\ Complete(i, Target)

\* Who runs when, and whose record exists.
PhaseInv(i) ==
  /\ pc[i] \in Saving => proc = "serving"
  /\ pc[i] \in Quarantining => proc = "recovering"
  /\ i \in rec => pc[i] \in {"done", "removing", "failed", "lost"}
  /\ pc[i] = "done" => i \in rec
  /\ i \in whole => i \notin rec /\ pc[i] \in {"failed", "lost"} \cup Quarantining
  /\ pc[i] = "idle" => \A d \in Dirs : loc[i][d] = "none" /\ dloc[i][d] = "none"

\* What is, or may come back, under payloads/ is the published directory, complete unless
\* its removal has begun; staged directories and publish temps are where the disk has
\* them; no process survives with one, and a start clears them.
DirInv(i) ==
  /\ \A d \in Dirs :
       /\ "payloads" \in {loc[i][d], dloc[i][d]} => d = Target /\ (Complete(i, d) \/ i \in begun)
       /\ loc[i][d] \in {"staging", "temp"} => dloc[i][d] = loc[i][d]
       /\ has[i][d] \subseteq dhas[i][d]
       /\ proc # "serving" =>
            /\ dloc[i][d] \in {"staging", "temp"} => loc[i][d] = dloc[i][d]
            /\ loc[i][d] = "payloads" => dloc[i][d] = "payloads"
       /\ proc = "recovering" => {loc[i][d], dloc[i][d]} \cap {"staging", "temp"} = {}
  /\ {loc[i]["orphaned"], dloc[i]["orphaned"]} \subseteq {"none", "orphans"}
  /\ pc[i] \in {"setaside", "clearing"} =>
       loc[i]["orphaned"] = "orphans" /\ dloc[i]["orphaned"] = "orphans"

\* How far the payload has come by each step of Save.
SaveInv(i) ==
  /\ pc[i] = "staging" => has[i]["staged"] = dhas[i]["staged"]
  /\ pc[i] = "copying" =>
       xdev /\ has[i]["copied"] = dhas[i]["copied"] /\ has[i]["staged"] = Files
  /\ pc[i] = "renamed" => loc[i][Target] = "payloads" /\ Complete(i, Target)
  /\ \/ pc[i] \in {"synced", "saved", "done"}
     \/ i \notin begun /\ (pc[i] = "removing" \/ i \in rec)
     => Stored(i)

\* Where an orphan is by each step of the quarantine.
OrphanInv(i) ==
  i \in whole \ undone =>
    /\ Stored(i) \/ Aside(i) \/ MovedAway(i)
    /\ pc[i] = "clearing" => Aside(i)
    /\ pc[i] = "moved" => MovedAway(i)
    /\ proc = "recovering" /\ pc[i] # "clearing" /\ (Published(i) # {} \/ pc[i] = "setaside")
       => Stored(i)

PayloadInv(i) == PhaseInv(i) /\ DirInv(i) /\ SaveInv(i) /\ OrphanInv(i)

IInv == TypeOK /\ \A i \in Ids : PayloadInv(i)
============================================================================
