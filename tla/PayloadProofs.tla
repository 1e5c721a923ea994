--------------------------- MODULE PayloadProofs ---------------------------
(***************************************************************************)
(* The theorems about PayloadStore, for any set of payloads, of files and   *)
(* any number of faults.  Every step works on one payload, syncs a root or  *)
(* stops or starts the process; PayloadInv(i) speaks of payload i alone, so *)
(* it is enough to show it for the payload at work (Same covers the rest),  *)
(* for a sync (Sync) and for the steps of the process.                      *)
(***************************************************************************)
EXTENDS PayloadStore, TLAPS

FsType ==
  /\ loc \in [Ids -> [Dirs -> Places]] /\ dloc \in [Ids -> [Dirs -> Places]]
  /\ has \in [Ids -> [Dirs -> SUBSET Files]] /\ dhas \in [Ids -> [Dirs -> SUBSET Files]]

\* The directories of every other payload stay as they are,
Others(i) ==
  \A k \in Ids \ {i} :
    loc'[k] = loc[k] /\ dloc'[k] = dloc[k] /\ has'[k] = has[k] /\ dhas'[k] = dhas[k]

\* and so do these directories of this payload.
Leaves(i, S) ==
  \A e \in S :
    /\ loc'[i][e] = loc[i][e] /\ dloc'[i][e] = dloc[i][e]
    /\ has'[i][e] = has[i][e] /\ dhas'[i][e] = dhas[i][e]
-----------------------------------------------------------------------------
(* What the system calls do to the four functions.                         *)

\* An entry of a directory is changed, and nothing else.
LEMMA Put ==
  ASSUME NEW S, NEW g \in [Ids -> [Dirs -> S]], NEW i \in Ids, NEW d \in Dirs, NEW v \in S,
         NEW h, h = [g EXCEPT ![i][d] = v]
  PROVE  /\ h \in [Ids -> [Dirs -> S]]
         /\ \A k \in Ids \ {i} : h[k] = g[k]
         /\ \A e \in Dirs \ {d} : h[i][e] = g[i][e]
         /\ h[i][d] = v
<1>1. h = [g EXCEPT ![i] = [g[i] EXCEPT ![d] = v]]
  OBVIOUS
<1>2. g[i] \in [Dirs -> S]
  OBVIOUS
<1>3. h \in [Ids -> [Dirs -> S]]
  BY <1>1, <1>2, Zenon
<1> QED BY <1>1, <1>2, <1>3, Zenon

\* createDirectoryAt makes one directory, empty.
LEMMA Creates ==
  ASSUME FsType, NEW i \in Ids, NEW d \in Dirs, NEW p \in Places, Create(i, d, p)
  PROVE  /\ FsType' /\ Others(i) /\ Leaves(i, Dirs \ {d})
         /\ loc'[i][d] = p /\ dloc'[i][d] = p /\ has'[i][d] = {} /\ dhas'[i][d] = {}
BY Put DEF Create, FsType, Others, Leaves

\* writeRegularFileAt adds one file, on disk as well.
LEMMA Writes ==
  ASSUME FsType, NEW i \in Ids, NEW d \in Dirs, NEW f \in Files, writeRegularFileAt(i, d, f)
  PROVE  /\ FsType' /\ Others(i) /\ Leaves(i, Dirs \ {d}) /\ UNCHANGED <<loc, dloc>>
         /\ has'[i][d] = has[i][d] \cup {f} /\ dhas'[i][d] = dhas[i][d] \cup {f}
<1>1. has[i][d] \cup {f} \in SUBSET Files /\ dhas[i][d] \cup {f} \in SUBSET Files
  BY Zenon DEF FsType
<1>2. /\ has' = [has EXCEPT ![i][d] = has[i][d] \cup {f}]
      /\ dhas' = [dhas EXCEPT ![i][d] = dhas[i][d] \cup {f}]
      /\ UNCHANGED <<loc, dloc>>
  BY Zenon DEF writeRegularFileAt, FsType
<1> QED BY <1>1, <1>2, Put DEF FsType, Others, Leaves

\* A rename changes the place of one directory, for the running system.
LEMMA Renames ==
  ASSUME FsType, NEW i \in Ids, NEW d \in Dirs, NEW p \in Places, Rename(i, d, p)
  PROVE  /\ FsType' /\ Others(i) /\ Leaves(i, Dirs \ {d}) /\ UNCHANGED <<has, dloc, dhas>>
         /\ loc'[i][d] = p
BY Put DEF Rename, stored, FsType, Others, Leaves

\* A sync makes the entries of a root durable.
LEMMA Syncs ==
  ASSUME FsType, NEW p, syncFD(p)
  PROVE  /\ FsType' /\ UNCHANGED <<loc, has, dhas>>
         /\ \A k \in Ids, e \in Dirs :
              dloc'[k][e] = IF \/ Root(loc[k][e]) = p
                               \/ loc[k][e] = "none" /\ Root(dloc[k][e]) = p
                            THEN loc[k][e] ELSE dloc[k][e]
<1>1. UNCHANGED <<loc, has, dhas>> /\ dloc' = SyncedLoc(p)
  BY Zenon DEF syncFD, view
<1>2. dloc' \in [Ids -> [Dirs -> Places]]
  BY <1>1, Zenon DEF FsType, SyncedLoc
<1> QED BY <1>1, <1>2, Zenon DEF FsType, SyncedLoc

\* A clean-up whose error is ignored removes directories of one set, or not.
LEMMA Discards ==
  ASSUME FsType, NEW i \in Ids, NEW S, Discard(i, S)
  PROVE  /\ FsType' /\ Others(i) /\ Leaves(i, Dirs \ S) /\ UNCHANGED <<dloc, dhas>>
         /\ \A e \in Dirs : \/ loc'[i][e] = loc[i][e] /\ has'[i][e] = has[i][e]
                            \/ loc'[i][e] = "none" /\ has'[i][e] = {}
<1>1. PICK T \in SUBSET S :
        /\ loc' = [loc EXCEPT ![i] = [d \in Dirs |-> IF d \in T THEN "none" ELSE loc[i][d]]]
        /\ has' = [has EXCEPT ![i] = [d \in Dirs |-> IF d \in T THEN {} ELSE has[i][d]]]
  BY Zenon DEF Discard, FsType
<1>2. UNCHANGED <<dloc, dhas>>
  BY Zenon DEF Discard, stored
<1>3. loc' \in [Ids -> [Dirs -> Places]]
  <2>1. [d \in Dirs |-> IF d \in T THEN "none" ELSE loc[i][d]] \in [Dirs -> Places]
    BY DEF FsType, Places
  <2> QED BY <1>1, <2>1, Zenon DEF FsType
<1>4. has' \in [Ids -> [Dirs -> SUBSET Files]]
  <2>1. [d \in Dirs |-> IF d \in T THEN {} ELSE has[i][d]] \in [Dirs -> SUBSET Files]
    BY ZenonT(60) DEF FsType
  <2> QED BY <1>1, <2>1, Zenon DEF FsType
<1>5. /\ \A k \in Ids \ {i} : loc'[k] = loc[k] /\ has'[k] = has[k]
      /\ \A e \in Dirs : /\ loc'[i][e] = IF e \in T THEN "none" ELSE loc[i][e]
                         /\ has'[i][e] = IF e \in T THEN {} ELSE has[i][e]
  BY <1>1, Zenon DEF FsType
<1> QED BY <1>2, <1>3, <1>4, <1>5, Zenon DEF FsType, Others, Leaves

\* removeEntryTreeAt and the sync take a directory away for good.
LEMMA Vanishes ==
  ASSUME FsType, NEW i \in Ids, NEW d \in Dirs,
         loc' = [loc EXCEPT ![i][d] = "none"], dloc' = [dloc EXCEPT ![i][d] = "none"],
         dhas' = [dhas EXCEPT ![i][d] = {}], has' = has
  PROVE  /\ FsType' /\ Others(i) /\ Leaves(i, Dirs \ {d})
         /\ loc'[i][d] = "none" /\ dloc'[i][d] = "none" /\ has'[i][d] = has[i][d]
         /\ dhas'[i][d] = {}
BY Put DEF FsType, Others, Leaves, Places

\* The phase of one payload changes.
LEMMA Phase ==
  ASSUME pc \in [Ids -> Phases], NEW i \in Ids, NEW p \in Phases, To(i, p)
  PROVE  pc' \in [Ids -> Phases] /\ pc'[i] = p /\ \A k \in Ids \ {i} : pc'[k] = pc[k]
BY Zenon DEF To
-----------------------------------------------------------------------------
(* The invariant of one payload.                                           *)

\* The history of payload k stays as it is, and so do its record and the process.
Steady(k) ==
  /\ xdev' = xdev /\ proc' = proc
  /\ k \in rec' <=> k \in rec
  /\ k \in begun' <=> k \in begun
  /\ k \in whole' <=> k \in whole
  /\ k \in undone' <=> k \in undone

\* A payload that a step does not touch keeps its invariant.
LEMMA Same ==
  ASSUME NEW k \in Ids, PayloadInv(k), Steady(k), pc'[k] = pc[k],
         loc'[k] = loc[k], dloc'[k] = dloc[k], has'[k] = has[k], dhas'[k] = dhas[k]
  PROVE  PayloadInv(k)'
<1>1. Target' = Target /\ Published(k)' = Published(k)
  BY Zenon DEF Steady, Target, Published
<1>2. \A d \in Dirs : Complete(k, d)' <=> Complete(k, d)
  BY Zenon DEF Complete
<1>3. (Stored(k)' <=> Stored(k)) /\ (Aside(k)' <=> Aside(k)) /\ (MovedAway(k)' <=> MovedAway(k))
  BY <1>1, <1>2, Zenon DEF Stored, Aside, MovedAway, Dirs, Complete
<1>4. PhaseInv(k)'
  BY Zenon DEF PayloadInv, PhaseInv, Steady
<1>5. DirInv(k)'
  BY <1>1, <1>2, Zenon DEF PayloadInv, DirInv, Steady
<1>6. SaveInv(k)'
  BY <1>1, <1>3, Zenon DEF PayloadInv, SaveInv, Steady, Complete
<1>7. OrphanInv(k)'
  BY <1>1, <1>3, Zenon DEF PayloadInv, OrphanInv, Steady
<1> QED BY <1>4, <1>5, <1>6, <1>7, Zenon DEF PayloadInv

\* A sync does not disturb what can be under payloads/.
LEMMA SyncDirs ==
  ASSUME NEW k \in Ids, DirInv(k), Steady(k),
         pc'[k] \in {"setaside", "clearing"} => pc'[k] = pc[k],
         loc'[k] = loc[k], has'[k] = has[k], dhas'[k] = dhas[k],
         \A e \in Dirs : dloc'[k][e] \in {loc[k][e], dloc[k][e]}
  PROVE  DirInv(k)'
<1>1. Target' = Target /\ \A d \in Dirs : Complete(k, d)' <=> Complete(k, d)
  BY Zenon DEF Steady, Target, Complete
<1>2. \A d \in Dirs :
        /\ "payloads" \in {loc'[k][d], dloc'[k][d]}
           => d = Target' /\ (Complete(k, d)' \/ k \in begun')
        /\ loc'[k][d] \in {"staging", "temp"} => dloc'[k][d] = loc'[k][d]
        /\ has'[k][d] \subseteq dhas'[k][d]
  BY <1>1, ZenonT(60) DEF DirInv, Steady
<1>3. \A d \in Dirs :
        /\ proc' # "serving" =>
             /\ dloc'[k][d] \in {"staging", "temp"} => loc'[k][d] = dloc'[k][d]
             /\ loc'[k][d] = "payloads" => dloc'[k][d] = "payloads"
        /\ proc' = "recovering" => {loc'[k][d], dloc'[k][d]} \cap {"staging", "temp"} = {}
  BY ZenonT(60) DEF DirInv, Steady
<1>4. /\ {loc'[k]["orphaned"], dloc'[k]["orphaned"]} \subseteq {"none", "orphans"}
      /\ pc'[k] \in {"setaside", "clearing"} =>
           loc'[k]["orphaned"] = "orphans" /\ dloc'[k]["orphaned"] = "orphans"
  BY Zenon DEF DirInv, Dirs
<1> QED BY <1>2, <1>3, <1>4, Zenon DEF DirInv

\* A sync of any root keeps the invariant of every payload.
LEMMA Sync ==
  ASSUME NEW k \in Ids, PayloadInv(k), Steady(k), pc'[k] = pc[k],
         loc'[k] = loc[k], has'[k] = has[k], dhas'[k] = dhas[k],
         \A e \in Dirs : dloc'[k][e] \in {loc[k][e], dloc[k][e]}
  PROVE  PayloadInv(k)'
<1>1. Target' = Target /\ Published(k)' = Published(k) /\ Target \in Dirs
  BY Zenon DEF Steady, Target, Published, Dirs
<1>2. \A d \in Dirs : Complete(k, d)' <=> Complete(k, d)
  BY Zenon DEF Complete
<1>3. Stored(k) => Stored(k)'
  BY <1>1, <1>2, Zenon DEF Stored
<1>4. Aside(k) => Aside(k)'
  BY <1>2, Zenon DEF Aside, Dirs
<1>5. MovedAway(k) => MovedAway(k)'
  BY <1>1, <1>2, Zenon DEF MovedAway
<1>6. PhaseInv(k)'
  BY Zenon DEF PayloadInv, PhaseInv, Steady
<1>7. DirInv(k)'
  BY SyncDirs, Zenon DEF PayloadInv
<1>8. SaveInv(k)'
  BY <1>1, <1>2, <1>3, Zenon DEF PayloadInv, SaveInv, Steady
<1>9. OrphanInv(k)'
  BY <1>1, <1>3, <1>4, <1>5, Zenon DEF PayloadInv, OrphanInv, Steady
<1> QED BY <1>6, <1>7, <1>8, <1>9, Zenon DEF PayloadInv

\* It is enough to look at the payload a step works on.
LEMMA OneAtWork ==
  ASSUME IInv, NEW i \in Ids, Others(i), \A k \in Ids \ {i} : pc'[k] = pc[k] /\ Steady(k),
         TypeOK', PayloadInv(i)'
  PROVE  IInv'
<1>1. ASSUME NEW k \in Ids \ {i} PROVE PayloadInv(k)'
  BY Same, Zenon DEF IInv, Others
<1> QED BY <1>1, Zenon DEF IInv
-----------------------------------------------------------------------------
(* Save.                                                                   *)

\* The staging directory is made.
LEMMA CreateStep ==
  ASSUME IInv, NEW i \in Ids, createStagingDirectoryAt(i)
  PROVE  IInv'
<1>1. FsType /\ pc \in [Ids -> Phases] /\ PayloadInv(i)
  BY Zenon DEF IInv, TypeOK, FsType
<1>2. /\ FsType' /\ Others(i) /\ Leaves(i, Dirs \ {"staged"})
      /\ loc'[i]["staged"] = "staging" /\ dloc'[i]["staged"] = "staging"
      /\ has'[i]["staged"] = {} /\ dhas'[i]["staged"] = {}
  BY <1>1, Creates, Zenon DEF createStagingDirectoryAt, Dirs, Places
<1>3. pc' \in [Ids -> Phases] /\ pc'[i] = "staging" /\ \A k \in Ids \ {i} : pc'[k] = pc[k]
  BY <1>1, Phase, Zenon DEF createStagingDirectoryAt, Phases
<1>4. UNCHANGED <<Rest, faults>> /\ proc = "serving" /\ pc[i] = "idle"
  BY Zenon DEF createStagingDirectoryAt
<1>5. TypeOK' /\ \A k \in Ids : Steady(k)
  BY <1>2, <1>3, <1>4, Zenon DEF IInv, TypeOK, FsType, Rest, Steady
<1>6. PhaseInv(i)'
  BY <1>1, <1>3, <1>4, Zenon DEF PayloadInv, PhaseInv, Rest, Saving, Quarantining
<1>7. DirInv(i)'
  <2>1. \A d \in Dirs \ {"staged"} : loc'[i][d] = "none" /\ dloc'[i][d] = "none"
    BY <1>1, <1>2, <1>4, Zenon DEF Leaves, PayloadInv, PhaseInv
  <2>2. \A d \in Dirs : has'[i][d] \subseteq dhas'[i][d]
    BY <1>1, <1>2, Zenon DEF Leaves, PayloadInv, DirInv
  <2> QED BY <1>2, <1>3, <1>4, <2>1, <2>2, Zenon DEF DirInv, Rest, Dirs
<1>8. SaveInv(i)'
  BY <1>1, <1>2, <1>3, <1>4, Zenon DEF PayloadInv, PhaseInv, SaveInv, Rest
<1>9. OrphanInv(i)'
  BY <1>1, <1>4, Zenon DEF PayloadInv, PhaseInv, OrphanInv, Rest, Quarantining
<1> QED BY <1>2, <1>3, <1>5, <1>6, <1>7, <1>8, <1>9, OneAtWork, Zenon DEF PayloadInv

\* While Save is at work on a payload there is no record of it, and it is no orphan.
LEMMA NoRecordYet ==
  ASSUME NEW i \in Ids, PayloadInv(i), pc[i] \in Saving \ {"removing"}
  PROVE  i \notin rec /\ i \notin whole /\ proc = "serving"
BY Zenon DEF PayloadInv, PhaseInv, Saving, Quarantining

\* A file is written, into the staged directory or into its copy.
LEMMA WriteStep ==
  ASSUME IInv, NEW i \in Ids, NEW f \in Files, WriteStaged(i, f) \/ CopyStaged(i, f)
  PROVE  IInv'
<1> DEFINE d == IF pc[i] = "staging" THEN "staged" ELSE "copied"
<1>1. FsType /\ pc \in [Ids -> Phases] /\ PayloadInv(i)
  BY Zenon DEF IInv, TypeOK, FsType
<1>2. /\ pc[i] \in {"staging", "copying"} /\ d \in Dirs /\ writeRegularFileAt(i, d, f)
      /\ UNCHANGED <<Rest, pc, faults>>
  BY Zenon DEF WriteStaged, CopyStaged, Dirs
<1>3. /\ FsType' /\ Others(i) /\ Leaves(i, Dirs \ {d}) /\ UNCHANGED <<loc, dloc>>
      /\ has'[i][d] = has[i][d] \cup {f} /\ dhas'[i][d] = dhas[i][d] \cup {f}
  BY <1>1, <1>2, Writes
<1>4. TypeOK' /\ \A k \in Ids : Steady(k)
  BY <1>2, <1>3, Zenon DEF IInv, TypeOK, FsType, Rest, Steady
<1>5. i \notin rec /\ i \notin whole /\ proc = "serving"
  BY <1>1, <1>2, NoRecordYet, Zenon DEF Saving
<1>6. PhaseInv(i)'
  BY <1>1, <1>2, <1>3, Zenon DEF PayloadInv, PhaseInv, Rest
<1>7. DirInv(i)'
  <2>1. \A e \in Dirs : Complete(i, e) => Complete(i, e)'
    BY <1>1, <1>3, ZenonT(60) DEF Complete, Leaves
  <2>2. \A e \in Dirs : has'[i][e] \subseteq dhas'[i][e]
    BY <1>1, <1>3, Zenon DEF Leaves, PayloadInv, DirInv
  <2>3. Target' = Target
    BY <1>2, Zenon DEF Rest, Target
  <2> QED BY <1>1, <1>2, <1>3, <2>1, <2>2, <2>3, Zenon DEF PayloadInv, DirInv, Rest
<1>8. SaveInv(i)'
  <2>1. CASE pc[i] = "staging"
    BY <1>1, <1>2, <1>3, <1>5, <2>1, Zenon DEF PayloadInv, SaveInv, Rest, Dirs
  <2>2. CASE pc[i] = "copying"
    <3>1. has'[i]["staged"] = has[i]["staged"]
      BY <1>3, <2>2, Zenon DEF Leaves, Dirs
    <3> QED BY <1>1, <1>2, <1>3, <1>5, <2>2, <3>1, Zenon DEF PayloadInv, SaveInv, Rest, Dirs
  <2> QED BY <1>2, <2>1, <2>2, Zenon
<1>9. OrphanInv(i)'
  BY <1>2, <1>5, Zenon DEF OrphanInv, Rest
<1> QED BY <1>2, <1>3, <1>4, <1>6, <1>7, <1>8, <1>9, OneAtWork, Zenon DEF PayloadInv

\* The staged directory is renamed into payloads/, or on EXDEV the publish temp is made.
LEMMA PublishStep ==
  ASSUME IInv, NEW i \in Ids, Publish(i)
  PROVE  IInv'
<1>1. FsType /\ pc \in [Ids -> Phases] /\ PayloadInv(i)
  BY Zenon DEF IInv, TypeOK, FsType
<1>2. pc[i] = "staging" /\ UNCHANGED <<Rest, faults>> /\ Complete(i, "staged")
  BY <1>1, Zenon DEF Publish, PayloadInv, SaveInv, Complete
<1>3. i \notin rec /\ i \notin whole /\ proc = "serving"
  BY <1>1, <1>2, NoRecordYet, Zenon DEF Saving
<1>4. OrphanInv(i)'
  BY <1>2, <1>3, Zenon DEF OrphanInv, Rest
<1>5. CASE xdev
  <2>1. /\ FsType' /\ Others(i) /\ Leaves(i, Dirs \ {"copied"})
        /\ loc'[i]["copied"] = "temp" /\ dloc'[i]["copied"] = "temp"
        /\ has'[i]["copied"] = {} /\ dhas'[i]["copied"] = {}
    BY <1>1, <1>5, Creates, Zenon DEF Publish, Dirs, Places
  <2>2. pc' \in [Ids -> Phases] /\ pc'[i] = "copying" /\ \A k \in Ids \ {i} : pc'[k] = pc[k]
    BY <1>1, <1>5, Phase, Zenon DEF Publish, Phases
  <2>3. TypeOK' /\ \A k \in Ids : Steady(k)
    BY <1>2, <2>1, <2>2, Zenon DEF IInv, TypeOK, FsType, Rest, Steady
  <2>4. PhaseInv(i)'
    BY <1>2, <1>3, <2>2, Zenon DEF PhaseInv, Rest, Saving, Quarantining
  <2>5. DirInv(i)'
    <3>1. Target' = Target /\ Target \in Dirs /\ Target = "copied"
      BY <1>2, <1>5, Zenon DEF Rest, Target, Dirs
    <3>2. \A d \in Dirs \ {"copied"} :
            "payloads" \notin {loc'[i][d], dloc'[i][d]} /\ has'[i][d] \subseteq dhas'[i][d]
            /\ (loc'[i][d] \in {"staging", "temp"} => dloc'[i][d] = loc'[i][d])
      BY <1>1, <2>1, <3>1, ZenonT(60) DEF PayloadInv, DirInv, Leaves
    <3>3. {loc'[i]["orphaned"], dloc'[i]["orphaned"]} \subseteq {"none", "orphans"}
      BY <1>1, <2>1, Zenon DEF PayloadInv, DirInv, Leaves, Dirs
    <3> QED BY <1>2, <1>3, <2>1, <2>2, <3>1, <3>2, <3>3, Zenon DEF DirInv, Rest
  <2>6. SaveInv(i)'
    BY <1>2, <1>3, <1>5, <2>1, <2>2, Zenon DEF SaveInv, Rest, Complete, Leaves, Dirs
  <2> QED BY <1>4, <2>1, <2>2, <2>3, <2>4, <2>5, <2>6, OneAtWork, Zenon DEF PayloadInv
<1>6. CASE ~xdev
  <2>1. /\ FsType' /\ Others(i) /\ Leaves(i, Dirs \ {"staged"}) /\ UNCHANGED <<has, dloc, dhas>>
        /\ loc'[i]["staged"] = "payloads"
    BY <1>1, <1>6, Renames, Zenon DEF Publish, Dirs, Places
  <2>2. pc' \in [Ids -> Phases] /\ pc'[i] = "renamed" /\ \A k \in Ids \ {i} : pc'[k] = pc[k]
    BY <1>1, <1>6, Phase, Zenon DEF Publish, Phases
  <2>3. TypeOK' /\ \A k \in Ids : Steady(k)
    BY <1>2, <2>1, <2>2, Zenon DEF IInv, TypeOK, FsType, Rest, Steady
  <2>4. PhaseInv(i)'
    BY <1>2, <1>3, <2>2, Zenon DEF PhaseInv, Rest, Saving, Quarantining
  <2>5. Target' = "staged" /\ Target = "staged" /\ Complete(i, "staged")'
    BY <1>2, <1>6, <2>1, Zenon DEF Rest, Target, Complete
  <2>6. DirInv(i)'
    <3>1. \A d \in Dirs \ {"staged"} :
            "payloads" \notin {loc'[i][d], dloc'[i][d]}
            /\ (loc'[i][d] \in {"staging", "temp"} => dloc'[i][d] = loc'[i][d])
      BY <1>1, <2>1, <2>5, Zenon DEF PayloadInv, DirInv, Leaves
    <3>2. \A d \in Dirs : has'[i][d] \subseteq dhas'[i][d]
      BY <1>1, <2>1, Zenon DEF PayloadInv, DirInv
    <3>3. {loc'[i]["orphaned"], dloc'[i]["orphaned"]} \subseteq {"none", "orphans"}
      BY <1>1, <2>1, Zenon DEF PayloadInv, DirInv, Leaves, Dirs
    <3> QED BY <1>2, <1>3, <2>1, <2>2, <2>5, <3>1, <3>2, <3>3, Zenon DEF DirInv, Rest
  <2>7. SaveInv(i)'
    BY <1>2, <1>3, <2>1, <2>2, <2>5, Zenon DEF SaveInv, Rest
  <2> QED BY <1>4, <2>1, <2>2, <2>3, <2>4, <2>6, <2>7, OneAtWork, Zenon DEF PayloadInv
<1> QED BY <1>5, <1>6, Zenon

\* The publish temp, a complete copy, is renamed to its final name.
LEMMA RenameStep ==
  ASSUME IInv, NEW i \in Ids, RenameTemp(i)
  PROVE  IInv'
<1>1. FsType /\ pc \in [Ids -> Phases] /\ PayloadInv(i)
  BY Zenon DEF IInv, TypeOK, FsType
<1>2. pc[i] = "copying" /\ UNCHANGED <<Rest, faults>> /\ Complete(i, "copied") /\ xdev
  BY <1>1, Zenon DEF RenameTemp, PayloadInv, SaveInv, Complete
<1>3. i \notin rec /\ i \notin whole /\ proc = "serving"
  BY <1>1, <1>2, NoRecordYet, Zenon DEF Saving
<1>4. /\ FsType' /\ Others(i) /\ Leaves(i, Dirs \ {"copied"}) /\ UNCHANGED <<has, dloc, dhas>>
      /\ loc'[i]["copied"] = "payloads"
  BY <1>1, Renames, Zenon DEF RenameTemp, Dirs, Places
<1>5. pc' \in [Ids -> Phases] /\ pc'[i] = "renamed" /\ \A k \in Ids \ {i} : pc'[k] = pc[k]
  BY <1>1, Phase, Zenon DEF RenameTemp, Phases
<1>6. TypeOK' /\ \A k \in Ids : Steady(k)
  BY <1>2, <1>4, <1>5, Zenon DEF IInv, TypeOK, FsType, Rest, Steady
<1>7. PhaseInv(i)' /\ OrphanInv(i)'
  BY <1>2, <1>3, <1>5, Zenon DEF PhaseInv, OrphanInv, Rest, Saving, Quarantining
<1>8. Target' = "copied" /\ Target = "copied" /\ Complete(i, "copied")'
  BY <1>2, <1>4, Zenon DEF Rest, Target, Complete
<1>9. DirInv(i)'
  <2>1. \A d \in Dirs \ {"copied"} :
          "payloads" \notin {loc'[i][d], dloc'[i][d]}
          /\ (loc'[i][d] \in {"staging", "temp"} => dloc'[i][d] = loc'[i][d])
    BY <1>1, <1>4, <1>8, Zenon DEF PayloadInv, DirInv, Leaves
  <2>2. \A d \in Dirs : has'[i][d] \subseteq dhas'[i][d]
    BY <1>1, <1>4, Zenon DEF PayloadInv, DirInv
  <2>3. {loc'[i]["orphaned"], dloc'[i]["orphaned"]} \subseteq {"none", "orphans"}
    BY <1>1, <1>4, Zenon DEF PayloadInv, DirInv, Leaves, Dirs
  <2> QED BY <1>2, <1>3, <1>4, <1>5, <1>8, <2>1, <2>2, <2>3, Zenon DEF DirInv, Rest
<1>10. SaveInv(i)'
  BY <1>2, <1>3, <1>4, <1>5, <1>8, Zenon DEF SaveInv, Rest
<1> QED BY <1>4, <1>5, <1>6, <1>7, <1>9, <1>10, OneAtWork, Zenon DEF PayloadInv

\* A sync of a root with a change of phase: the other payloads keep their invariant.
LEMMA SyncOthers ==
  ASSUME IInv, NEW i \in Ids, NEW p, syncFD(p), UNCHANGED <<Rest, faults>>,
         pc' \in [Ids -> Phases], \A k \in Ids \ {i} : pc'[k] = pc[k]
  PROVE  /\ TypeOK' /\ FsType' /\ \A k \in Ids \ {i} : PayloadInv(k)'
         /\ UNCHANGED <<loc, has, dhas>>
         /\ \A e \in Dirs : dloc'[i][e] \in {loc[i][e], dloc[i][e]}
         /\ \A e \in Dirs : Root(loc[i][e]) = p => dloc'[i][e] = loc[i][e]
<1>1. FsType
  BY Zenon DEF IInv, TypeOK, FsType
<1>2. /\ FsType' /\ UNCHANGED <<loc, has, dhas>>
      /\ \A k \in Ids, e \in Dirs :
           dloc'[k][e] = IF \/ Root(loc[k][e]) = p
                            \/ loc[k][e] = "none" /\ Root(dloc[k][e]) = p
                         THEN loc[k][e] ELSE dloc[k][e]
  BY <1>1, Syncs
<1>3. TypeOK' /\ \A k \in Ids : Steady(k)
  BY <1>2, Zenon DEF IInv, TypeOK, FsType, Rest, Steady
<1>4. ASSUME NEW k \in Ids \ {i} PROVE PayloadInv(k)'
  <2>1. \A e \in Dirs : dloc'[k][e] \in {loc[k][e], dloc[k][e]}
    BY <1>2, Zenon
  <2> QED BY <1>2, <1>3, <2>1, Sync, Zenon DEF IInv
<1> QED BY <1>2, <1>3, <1>4, Zenon

\* The sync of payloads/ makes the published directory durable.
LEMMA SyncStep ==
  ASSUME IInv, NEW i \in Ids, SyncPublished(i)
  PROVE  IInv'
<1>1. FsType /\ pc \in [Ids -> Phases] /\ PayloadInv(i)
  BY Zenon DEF IInv, TypeOK, FsType
<1>2. pc[i] = "renamed" /\ UNCHANGED <<Rest, faults>> /\ syncFD("payloads")
  BY Zenon DEF SyncPublished
<1>3. pc' \in [Ids -> Phases] /\ pc'[i] = "synced" /\ \A k \in Ids \ {i} : pc'[k] = pc[k]
  BY <1>1, Phase, Zenon DEF SyncPublished, Phases
<1>4. /\ TypeOK' /\ FsType' /\ \A k \in Ids \ {i} : PayloadInv(k)'
      /\ UNCHANGED <<loc, has, dhas>>
      /\ \A e \in Dirs : dloc'[i][e] \in {loc[i][e], dloc[i][e]}
      /\ \A e \in Dirs : Root(loc[i][e]) = "payloads" => dloc'[i][e] = loc[i][e]
  BY <1>2, <1>3, SyncOthers, Zenon
<1>5. i \notin rec /\ i \notin whole /\ proc = "serving"
  BY <1>1, <1>2, NoRecordYet, Zenon DEF Saving
<1>6. PhaseInv(i)' /\ OrphanInv(i)'
  BY <1>2, <1>3, <1>5, Zenon DEF PhaseInv, OrphanInv, Rest, Saving, Quarantining
<1>7. Target' = Target /\ Target \in Dirs /\ \A d \in Dirs : Complete(i, d)' <=> Complete(i, d)
  BY <1>2, <1>4, Zenon DEF Rest, Target, Complete, Dirs
<1>8. Stored(i)'
  BY <1>1, <1>2, <1>4, <1>7, Zenon DEF PayloadInv, SaveInv, Stored, Root
<1>9. DirInv(i)'
  BY <1>1, <1>2, <1>3, <1>4, SyncDirs, Zenon DEF PayloadInv, Rest, Steady
<1>10. SaveInv(i)'
  BY <1>3, <1>8, Zenon DEF SaveInv
<1> QED BY <1>4, <1>6, <1>9, <1>10, Zenon DEF IInv, PayloadInv

\* Save returns: staging/ is synced, or the directory that was copied is thrown away.
LEMMA ReturnStep ==
  ASSUME IInv, NEW i \in Ids, SaveReturns(i)
  PROVE  IInv'
<1>1. FsType /\ pc \in [Ids -> Phases] /\ PayloadInv(i)
  BY Zenon DEF IInv, TypeOK, FsType
<1>2. pc[i] = "synced" /\ UNCHANGED <<Rest, faults>> /\ Stored(i)
  BY <1>1, Zenon DEF SaveReturns, PayloadInv, SaveInv
<1>3. pc' \in [Ids -> Phases] /\ pc'[i] = "saved" /\ \A k \in Ids \ {i} : pc'[k] = pc[k]
  BY <1>1, Phase, Zenon DEF SaveReturns, Phases
<1>4. i \notin rec /\ i \notin whole /\ proc = "serving"
  BY <1>1, <1>2, NoRecordYet, Zenon DEF Saving
<1>5. PhaseInv(i)' /\ OrphanInv(i)'
  BY <1>2, <1>3, <1>4, Zenon DEF PhaseInv, OrphanInv, Rest, Saving, Quarantining
<1>6. Target' = Target /\ Target \in Dirs
  BY <1>2, Zenon DEF Rest, Target, Dirs
<1>7. CASE xdev
  <2>1. /\ FsType' /\ Others(i) /\ Leaves(i, Dirs \ {"staged"}) /\ UNCHANGED <<dloc, dhas>>
        /\ \A e \in Dirs : \/ loc'[i][e] = loc[i][e] /\ has'[i][e] = has[i][e]
                           \/ loc'[i][e] = "none" /\ has'[i][e] = {}
    BY <1>1, <1>7, Discards, Zenon DEF SaveReturns
  <2>2. TypeOK' /\ \A k \in Ids : Steady(k)
    BY <1>2, <1>3, <2>1, Zenon DEF IInv, TypeOK, FsType, Rest, Steady
  <2>3. Target = "copied"
    BY <1>7, Zenon DEF Target
  <2>4. Stored(i)'
    BY <1>2, <1>6, <2>1, <2>3, Zenon DEF Stored, Complete, Leaves, Dirs
  <2>5. DirInv(i)'
    <3>1. \A d \in Dirs :
            /\ "payloads" \in {loc'[i][d], dloc'[i][d]}
               => d = Target' /\ (Complete(i, d)' \/ i \in begun')
            /\ loc'[i][d] \in {"staging", "temp"} => dloc'[i][d] = loc'[i][d]
            /\ has'[i][d] \subseteq dhas'[i][d]
      BY <1>1, <1>2, <1>6, <2>1, <2>4, Zenon DEF PayloadInv, DirInv, Rest, Stored
    <3>2. {loc'[i]["orphaned"], dloc'[i]["orphaned"]} \subseteq {"none", "orphans"}
      BY <1>1, <2>1, Zenon DEF PayloadInv, DirInv, Dirs
    <3> QED BY <1>2, <1>3, <1>4, <3>1, <3>2, Zenon DEF DirInv, Rest
  <2>6. SaveInv(i)'
    BY <1>3, <2>4, Zenon DEF SaveInv
  <2> QED BY <1>3, <1>5, <2>1, <2>2, <2>5, <2>6, OneAtWork, Zenon DEF PayloadInv
<1>8. CASE ~xdev
  <2>1. /\ TypeOK' /\ FsType' /\ \A k \in Ids \ {i} : PayloadInv(k)'
        /\ UNCHANGED <<loc, has, dhas>>
        /\ \A e \in Dirs : dloc'[i][e] \in {loc[i][e], dloc[i][e]}
    BY <1>2, <1>3, <1>8, SyncOthers, Zenon DEF SaveReturns
  <2>2. Stored(i)'
    BY <1>2, <1>6, <2>1, Zenon DEF Stored, Complete
  <2>3. DirInv(i)'
    BY <1>1, <1>2, <1>3, <2>1, SyncDirs, Zenon DEF PayloadInv, Rest, Steady
  <2>4. SaveInv(i)'
    BY <1>3, <2>2, Zenon DEF SaveInv
  <2> QED BY <1>5, <2>1, <2>3, <2>4, Zenon DEF IInv, PayloadInv
<1> QED BY <1>7, <1>8, Zenon

\* A Save that fails leaves nothing staged or temporary that it can remove.
LEMMA SaveFailsStep ==
  ASSUME IInv, NEW i \in Ids, SaveFails(i)
  PROVE  IInv'
<1> DEFINE S == {d \in Dirs : loc[i][d] \in {"staging", "temp"}}
<1>1. FsType /\ pc \in [Ids -> Phases] /\ PayloadInv(i)
  BY Zenon DEF IInv, TypeOK, FsType
<1>2. pc[i] \in Saving \ {"removing"} /\ UNCHANGED Rest /\ faults' \in 0..MaxFaults
  BY PayloadAssumption DEF SaveFails, Saving, Fault, IInv, TypeOK
<1>3. pc' \in [Ids -> Phases] /\ pc'[i] = "failed" /\ \A k \in Ids \ {i} : pc'[k] = pc[k]
  BY <1>1, Phase, Zenon DEF SaveFails, Phases
<1>4. i \notin rec /\ i \notin whole /\ proc = "serving"
  BY <1>1, <1>2, NoRecordYet, Zenon
<1>5. /\ FsType' /\ Others(i) /\ Leaves(i, Dirs \ S) /\ UNCHANGED <<dloc, dhas>>
      /\ \A e \in Dirs : \/ loc'[i][e] = loc[i][e] /\ has'[i][e] = has[i][e]
                         \/ loc'[i][e] = "none" /\ has'[i][e] = {}
  BY <1>1, Discards, Zenon DEF SaveFails
<1>6. TypeOK' /\ \A k \in Ids : Steady(k)
  BY <1>2, <1>3, <1>5, Zenon DEF IInv, TypeOK, FsType, Rest, Steady
<1>7. PhaseInv(i)' /\ OrphanInv(i)' /\ SaveInv(i)'
  BY <1>2, <1>3, <1>4, Zenon DEF PhaseInv, OrphanInv, SaveInv, Rest, Saving, Quarantining
<1>8. DirInv(i)'
  <2>1. ASSUME NEW d \in Dirs
        PROVE  /\ "payloads" \in {loc'[i][d], dloc'[i][d]}
                  => d = Target' /\ (Complete(i, d)' \/ i \in begun')
               /\ loc'[i][d] \in {"staging", "temp"} => dloc'[i][d] = loc'[i][d]
               /\ has'[i][d] \subseteq dhas'[i][d]
    <3>1. Target' = Target
      BY <1>2, Zenon DEF Rest, Target
    <3>2. CASE d \in S
      <4>1. loc[i][d] # "payloads" /\ dloc[i][d] # "payloads"
        BY <1>1, <3>2, Zenon DEF PayloadInv, DirInv
      <4> QED BY <1>1, <1>2, <1>5, <3>1, <4>1, Zenon DEF PayloadInv, DirInv, Rest
    <3>3. CASE d \notin S
      BY <1>1, <1>2, <1>5, <3>1, <3>3, ZenonT(60) DEF PayloadInv, DirInv, Rest, Leaves, Complete
    <3> QED BY <3>2, <3>3, Zenon
  <2>2. {loc'[i]["orphaned"], dloc'[i]["orphaned"]} \subseteq {"none", "orphans"}
    BY <1>1, <1>5, Zenon DEF PayloadInv, DirInv, Dirs
  <2> QED BY <1>2, <1>3, <1>4, <2>1, <2>2, Zenon DEF DirInv, Rest
<1> QED BY <1>3, <1>5, <1>6, <1>7, <1>8, OneAtWork, Zenon DEF PayloadInv
-----------------------------------------------------------------------------
(* insertRecord and Remove.                                                *)

\* A record is inserted, or the insert fails and Remove begins; a Remove that stops.
LEMMA InsertStep ==
  ASSUME IInv, NEW i \in Ids, InsertRecord(i) \/ InsertRecordFails(i) \/ RemoveFails(i)
  PROVE  IInv'
<1>1. FsType /\ pc \in [Ids -> Phases] /\ PayloadInv(i)
  BY Zenon DEF IInv, TypeOK, FsType
<1>2. /\ pc[i] \in {"saved", "removing"} /\ UNCHANGED <<xdev, proc, begun, whole, undone>>
      /\ UNCHANGED <<loc, dloc, has, dhas>> /\ faults' \in 0..MaxFaults
      /\ rec' \in {rec, rec \cup {i}}
  BY PayloadAssumption
     DEF InsertRecord, InsertRecordFails, RemoveFails, Rest, fs, view, stored, Fault, IInv, TypeOK
<1>3. /\ pc' \in [Ids -> Phases] /\ pc'[i] \in {"done", "removing", "failed"}
      /\ \A k \in Ids \ {i} : pc'[k] = pc[k]
      /\ pc'[i] = "done" => i \in rec'
      /\ pc'[i] = "removing" => pc[i] = "saved"
      /\ pc'[i] = "done" => pc[i] = "saved"
      /\ pc'[i] = "failed" => rec' = rec /\ pc[i] = "removing"
  BY <1>1, Phase, Zenon DEF InsertRecord, InsertRecordFails, RemoveFails, Phases, Rest
<1>4. i \notin whole /\ proc = "serving"
  BY <1>1, <1>2, Zenon DEF PayloadInv, PhaseInv, Saving, Quarantining
<1>5. TypeOK' /\ Others(i) /\ \A k \in Ids \ {i} : Steady(k)
  BY <1>2, <1>3, Zenon DEF IInv, TypeOK, Others, Steady
<1>6. PhaseInv(i)' /\ OrphanInv(i)'
  BY <1>2, <1>3, <1>4, Zenon DEF PhaseInv, OrphanInv, Saving, Quarantining
<1>7. Target' = Target /\ \A d \in Dirs : Complete(i, d)' <=> Complete(i, d)
  BY <1>2, Zenon DEF Target, Complete
<1>8. DirInv(i)'
  BY <1>1, <1>2, <1>3, <1>7, Zenon DEF PayloadInv, DirInv
<1>9. SaveInv(i)'
  <2>1. Stored(i)' <=> Stored(i)
    BY <1>2, <1>7, Zenon DEF Stored, Complete
  <2>2. CASE pc[i] = "saved"
    BY <1>1, <1>2, <1>3, <2>1, <2>2, Zenon DEF PayloadInv, SaveInv
  <2>3. CASE pc[i] = "removing"
    BY <1>1, <1>2, <1>3, <2>1, <2>3, Zenon DEF PayloadInv, SaveInv
  <2> QED BY <1>2, <2>2, <2>3, Zenon
<1> QED BY <1>3, <1>5, <1>6, <1>8, <1>9, OneAtWork, Zenon DEF PayloadInv

\* One file of a published directory is removed, by Remove or after a copy.
LEMMA RemoveFileStep ==
  ASSUME IInv, NEW i \in Ids, NEW f \in Files, RemoveFile(i, f)
  PROVE  IInv'
<1>1. FsType /\ pc \in [Ids -> Phases] /\ PayloadInv(i)
  BY Zenon DEF IInv, TypeOK, FsType
<1>2. PICK d \in Published(i) : f \in has[i][d] /\ has' = [has EXCEPT ![i][d] = has[i][d] \ {f}]
  BY <1>1, Zenon DEF RemoveFile, FsType, Published
<1>3. d \in Dirs /\ d = Target /\ d # "orphaned" /\ loc[i][d] = "payloads"
  BY <1>1, <1>2, Zenon DEF Published, PayloadInv, DirInv
<1>4. /\ pc[i] \in {"removing", "clearing"} /\ begun' = begun \cup {i}
      /\ UNCHANGED <<xdev, proc, pc, loc, dloc, dhas, rec, whole, undone, faults>>
  BY Zenon DEF RemoveFile, stored
<1>5. has[i][d] \ {f} \in SUBSET Files
  BY <1>1, <1>3, Zenon DEF FsType
<1>6. /\ has' \in [Ids -> [Dirs -> SUBSET Files]] /\ \A k \in Ids \ {i} : has'[k] = has[k]
      /\ \A e \in Dirs \ {d} : has'[i][e] = has[i][e]
      /\ has'[i][d] = has[i][d] \ {f}
  BY <1>1, <1>2, <1>3, <1>5, Put DEF FsType
<1>7. TypeOK' /\ Others(i) /\ \A k \in Ids \ {i} : pc'[k] = pc[k] /\ Steady(k)
  BY <1>4, <1>6, Zenon DEF IInv, TypeOK, Others, Steady
<1>8. PhaseInv(i)'
  BY <1>1, <1>4, Zenon DEF PayloadInv, PhaseInv
<1>9. DirInv(i)'
  <2>1. Target' = Target /\ i \in begun'
    BY <1>4, Zenon DEF Target
  <2>2. \A e \in Dirs : has'[i][e] \subseteq dhas'[i][e]
    BY <1>1, <1>3, <1>4, <1>6, Zenon DEF PayloadInv, DirInv
  <2> QED BY <1>1, <1>4, <2>1, <2>2, Zenon DEF PayloadInv, DirInv
<1>10. SaveInv(i)'
  BY <1>4, Zenon DEF SaveInv
<1>11. OrphanInv(i)'
  <2>1. pc[i] = "clearing" /\ Aside(i) => Aside(i)'
    BY <1>3, <1>4, <1>6, Zenon DEF Aside, Complete, Dirs
  <2> QED BY <1>1, <1>4, <2>1, Zenon DEF PayloadInv, PhaseInv, OrphanInv, Quarantining
<1> QED BY <1>7, <1>8, <1>9, <1>10, <1>11, OneAtWork, Zenon DEF PayloadInv

\* An empty published directory is removed: Remove is done, or the source of a copy gone.
LEMMA RemoveDirectoryStep ==
  ASSUME IInv, NEW i \in Ids, RemoveDirectory(i) \/ SourceCleared(i)
  PROVE  IInv'
<1>1. FsType /\ pc \in [Ids -> Phases] /\ PayloadInv(i)
  BY Zenon DEF IInv, TypeOK, FsType
<1>2. PICK d \in Published(i) :
        /\ has[i][d] = {}
        /\ loc' = [loc EXCEPT ![i][d] = "none"]
        /\ dloc' = [dloc EXCEPT ![i][d] = "none"] /\ dhas' = [dhas EXCEPT ![i][d] = {}]
  BY Zenon DEF RemoveDirectory, SourceCleared
<1>3. d \in Dirs /\ d = Target /\ d # "orphaned" /\ loc[i][d] = "payloads"
  BY <1>1, <1>2, Zenon DEF Published, PayloadInv, DirInv
<1>4. UNCHANGED <<xdev, proc, has, rec, begun, whole, undone, faults>>
  BY Zenon DEF RemoveDirectory, SourceCleared, Rest
<1>5. /\ pc' \in [Ids -> Phases] /\ \A k \in Ids \ {i} : pc'[k] = pc[k]
      /\ \/ pc[i] = "removing" /\ pc'[i] = "failed"
         \/ pc[i] = "clearing" /\ pc'[i] = "lost"
  BY <1>1, Phase, Zenon DEF RemoveDirectory, SourceCleared, Phases
<1>6. /\ FsType' /\ Others(i) /\ Leaves(i, Dirs \ {d})
      /\ loc'[i][d] = "none" /\ dloc'[i][d] = "none" /\ has'[i][d] = {} /\ dhas'[i][d] = {}
  BY <1>1, <1>2, <1>3, <1>4, Vanishes, Zenon
<1>7. TypeOK' /\ \A k \in Ids : Steady(k)
  BY <1>4, <1>5, <1>6, Zenon DEF IInv, TypeOK, FsType, Steady
<1>8. PhaseInv(i)'
  BY <1>1, <1>4, <1>5, Zenon DEF PayloadInv, PhaseInv, Saving, Quarantining
<1>9. DirInv(i)'
  <2>1. Target' = Target
    BY <1>4, Zenon DEF Target
  <2>2. \A e \in Dirs : /\ loc'[i][e] = IF e = d THEN "none" ELSE loc[i][e]
                        /\ dloc'[i][e] = IF e = d THEN "none" ELSE dloc[i][e]
                        /\ has'[i][e] \subseteq dhas'[i][e]
                        /\ e # d /\ Complete(i, e) => Complete(i, e)'
    BY <1>1, <1>6, Zenon DEF PayloadInv, DirInv, Leaves, Complete
  <2>3. \A e \in Dirs :
          /\ "payloads" \in {loc'[i][e], dloc'[i][e]}
             => e = Target' /\ (Complete(i, e)' \/ i \in begun')
          /\ loc'[i][e] \in {"staging", "temp"} => dloc'[i][e] = loc'[i][e]
          /\ proc' # "serving" =>
               /\ dloc'[i][e] \in {"staging", "temp"} => loc'[i][e] = dloc'[i][e]
               /\ loc'[i][e] = "payloads" => dloc'[i][e] = "payloads"
          /\ proc' = "recovering" => {loc'[i][e], dloc'[i][e]} \cap {"staging", "temp"} = {}
    BY <1>1, <1>4, <2>1, <2>2, ZenonT(60) DEF PayloadInv, DirInv
  <2>4. {loc'[i]["orphaned"], dloc'[i]["orphaned"]} \subseteq {"none", "orphans"}
    BY <1>1, <1>3, <2>2, Zenon DEF PayloadInv, DirInv, Dirs
  <2> QED BY <1>5, <2>2, <2>3, <2>4, Zenon DEF DirInv
<1>10. SaveInv(i)'
  \* The directory was emptied file by file, so the removal has begun.
  <2>1. pc[i] = "removing" => i \in begun
    BY <1>1, <1>2, <1>3, PayloadAssumption, Zenon DEF PayloadInv, SaveInv, Stored, Complete
  <2>2. pc[i] = "clearing" => i \notin rec
    BY <1>1, Zenon DEF PayloadInv, PhaseInv, Quarantining
  <2> QED BY <1>4, <1>5, <2>1, <2>2, Zenon DEF SaveInv
<1>11. OrphanInv(i)'
  <2>1. pc[i] = "clearing" /\ Aside(i) => Aside(i)'
    BY <1>3, <1>6, Zenon DEF Aside, Complete, Leaves, Dirs
  <2>2. Published(i)' = {}
    BY <1>1, <1>3, <1>6 DEF Published, Leaves, PayloadInv, DirInv
  <2> QED BY <1>1, <1>4, <1>5, <2>1, <2>2, Zenon DEF PayloadInv, PhaseInv, OrphanInv, Quarantining
<1> QED BY <1>5, <1>6, <1>7, <1>8, <1>9, <1>10, <1>11, OneAtWork, Zenon DEF PayloadInv
-----------------------------------------------------------------------------
(* QuarantineOrphans.                                                      *)

\* An orphan is renamed into payload-orphans/, or on EXDEV its copy is begun.
LEMMA QuarantineStep ==
  ASSUME IInv, NEW i \in Ids, QuarantineOrphan(i)
  PROVE  IInv'
<1>1. FsType /\ pc \in [Ids -> Phases] /\ PayloadInv(i)
  BY Zenon DEF IInv, TypeOK, FsType
<1>2. /\ proc = "recovering" /\ i \notin rec /\ pc[i] \notin Quarantining
      /\ UNCHANGED <<Rest, faults>>
  BY Zenon DEF QuarantineOrphan, Quarantining
<1>3. PICK d \in Published(i) :
        IF xdev THEN Create(i, "orphaned", "orphans") /\ To(i, "setaside")
                ELSE Rename(i, d, "orphans") /\ To(i, "moved")
  BY Zenon DEF QuarantineOrphan
<1>4. d \in Dirs /\ d = Target /\ d # "orphaned" /\ loc[i][d] = "payloads"
  BY <1>1, <1>3, Zenon DEF Published, PayloadInv, DirInv
<1>5. i \in whole \ undone => Stored(i)
  BY <1>1, <1>2, <1>3, Zenon DEF PayloadInv, OrphanInv, Quarantining
<1>6. dloc[i][d] = "payloads" /\ Target' = Target
  BY <1>1, <1>2, <1>4, Zenon DEF PayloadInv, DirInv, Rest, Target
<1>7. CASE xdev
  <2>1. /\ FsType' /\ Others(i) /\ Leaves(i, Dirs \ {"orphaned"})
        /\ loc'[i]["orphaned"] = "orphans" /\ dloc'[i]["orphaned"] = "orphans"
        /\ has'[i]["orphaned"] = {} /\ dhas'[i]["orphaned"] = {}
    BY <1>1, <1>3, <1>7, Creates, Zenon DEF Dirs, Places
  <2>2. pc' \in [Ids -> Phases] /\ pc'[i] = "setaside" /\ \A k \in Ids \ {i} : pc'[k] = pc[k]
    BY <1>1, <1>3, <1>7, Phase, Zenon DEF Phases
  <2>3. TypeOK' /\ \A k \in Ids : Steady(k)
    BY <1>2, <2>1, <2>2, Zenon DEF IInv, TypeOK, FsType, Rest, Steady
  <2>4. PhaseInv(i)'
    BY <1>1, <1>2, <2>2, Zenon DEF PayloadInv, PhaseInv, Rest, Saving, Quarantining
  <2>5. DirInv(i)'
    <3>1. \A e \in Dirs : e # "orphaned" =>
            /\ loc'[i][e] = loc[i][e] /\ dloc'[i][e] = dloc[i][e]
            /\ has'[i][e] = has[i][e] /\ dhas'[i][e] = dhas[i][e]
            /\ Complete(i, e)' <=> Complete(i, e)
      BY <2>1, Zenon DEF Leaves, Complete
    <3>2. \A e \in Dirs :
            /\ "payloads" \in {loc'[i][e], dloc'[i][e]}
               => e = Target' /\ (Complete(i, e)' \/ i \in begun')
            /\ loc'[i][e] \in {"staging", "temp"} => dloc'[i][e] = loc'[i][e]
            /\ has'[i][e] \subseteq dhas'[i][e]
      BY <1>1, <1>2, <1>6, <2>1, <3>1, ZenonT(60) DEF PayloadInv, DirInv, Rest
    <3>3. \A e \in Dirs :
            /\ loc'[i][e] = "payloads" => dloc'[i][e] = "payloads"
            /\ {loc'[i][e], dloc'[i][e]} \cap {"staging", "temp"} = {}
      BY <1>1, <1>2, <2>1, <3>1, ZenonT(60) DEF PayloadInv, DirInv
    <3>4. \A e \in Dirs :
            loc'[i][e] \notin {"staging", "temp"} /\ dloc'[i][e] \notin {"staging", "temp"}
      BY <3>3, Zenon
    <3> QED BY <2>1, <2>2, <3>2, <3>3, <3>4, Zenon DEF DirInv
  <2>6. SaveInv(i)'
    BY <1>2, <2>2, Zenon DEF SaveInv, Rest
  <2>7. OrphanInv(i)'
    <3>1. Stored(i) => Stored(i)'
      BY <1>4, <1>6, <2>1, Zenon DEF Stored, Complete, Leaves
    <3> QED BY <1>2, <1>5, <2>2, <3>1, Zenon DEF OrphanInv, Rest
  <2> QED BY <2>1, <2>2, <2>3, <2>4, <2>5, <2>6, <2>7, OneAtWork, Zenon DEF PayloadInv
<1>8. CASE ~xdev
  <2>1. /\ FsType' /\ Others(i) /\ Leaves(i, Dirs \ {d}) /\ UNCHANGED <<has, dloc, dhas>>
        /\ loc'[i][d] = "orphans"
    BY <1>1, <1>3, <1>4, <1>8, Renames, Zenon DEF Places
  <2>2. pc' \in [Ids -> Phases] /\ pc'[i] = "moved" /\ \A k \in Ids \ {i} : pc'[k] = pc[k]
    BY <1>1, <1>3, <1>8, Phase, Zenon DEF Phases
  <2>3. TypeOK' /\ \A k \in Ids : Steady(k)
    BY <1>2, <2>1, <2>2, Zenon DEF IInv, TypeOK, FsType, Rest, Steady
  <2>4. PhaseInv(i)'
    BY <1>1, <1>2, <2>2, Zenon DEF PayloadInv, PhaseInv, Rest, Saving, Quarantining
  <2>5. DirInv(i)'
    <3>1. \A e \in Dirs : /\ loc'[i][e] = IF e = d THEN "orphans" ELSE loc[i][e]
                          /\ Complete(i, e)' <=> Complete(i, e)
      BY <2>1, Zenon DEF Leaves, Complete
    <3>2. \A e \in Dirs :
            /\ "payloads" \in {loc'[i][e], dloc'[i][e]}
               => e = Target' /\ (Complete(i, e)' \/ i \in begun')
            /\ loc'[i][e] \in {"staging", "temp"} => dloc'[i][e] = loc'[i][e]
            /\ has'[i][e] \subseteq dhas'[i][e]
      BY <1>1, <1>2, <1>6, <2>1, <3>1, Zenon DEF PayloadInv, DirInv, Rest
    <3>3. \A e \in Dirs :
            /\ dloc'[i][e] \in {"staging", "temp"} => loc'[i][e] = dloc'[i][e]
            /\ loc'[i][e] = "payloads" => dloc'[i][e] = "payloads"
            /\ {loc'[i][e], dloc'[i][e]} \cap {"staging", "temp"} = {}
      BY <1>1, <1>2, <1>6, <2>1, <3>1, Zenon DEF PayloadInv, DirInv
    <3>4. {loc'[i]["orphaned"], dloc'[i]["orphaned"]} \subseteq {"none", "orphans"}
      BY <1>1, <1>4, <2>1, <3>1, Zenon DEF PayloadInv, DirInv, Dirs
    <3> QED BY <2>2, <3>2, <3>3, <3>4, Zenon DEF DirInv
  <2>6. SaveInv(i)'
    BY <1>2, <2>2, Zenon DEF SaveInv, Rest
  <2>7. OrphanInv(i)'
    <3>1. Stored(i) => MovedAway(i)'
      BY <1>4, <1>6, <2>1, Zenon DEF Stored, MovedAway, Complete
    <3>2. Published(i)' = {}
      BY <1>1, <1>4, <2>1, ZenonT(60) DEF Published, Leaves, PayloadInv, DirInv
    <3> QED BY <1>2, <1>5, <2>2, <3>1, <3>2, Zenon DEF OrphanInv, Rest
  <2> QED BY <2>1, <2>2, <2>3, <2>4, <2>5, <2>6, <2>7, OneAtWork, Zenon DEF PayloadInv
<1> QED BY <1>7, <1>8, Zenon

\* The sync of payload-orphans/ after the rename.
LEMMA SyncQuarantinedStep ==
  ASSUME IInv, NEW i \in Ids, SyncQuarantined(i)
  PROVE  IInv'
<1>1. FsType /\ pc \in [Ids -> Phases] /\ PayloadInv(i)
  BY Zenon DEF IInv, TypeOK, FsType
<1>2. pc[i] = "moved" /\ UNCHANGED <<Rest, faults>> /\ syncFD("orphans")
  BY Zenon DEF SyncQuarantined
<1>3. pc' \in [Ids -> Phases] /\ pc'[i] = "lost" /\ \A k \in Ids \ {i} : pc'[k] = pc[k]
  BY <1>1, Phase, Zenon DEF SyncQuarantined, Phases
<1>4. /\ TypeOK' /\ FsType' /\ \A k \in Ids \ {i} : PayloadInv(k)'
      /\ UNCHANGED <<loc, has, dhas>>
      /\ \A e \in Dirs : dloc'[i][e] \in {loc[i][e], dloc[i][e]}
  BY <1>2, <1>3, SyncOthers, Zenon
<1>5. PhaseInv(i)'
  BY <1>1, <1>2, <1>3, Zenon DEF PayloadInv, PhaseInv, Rest, Saving, Quarantining
<1>6. Target' = Target /\ Target \in Dirs /\ \A d \in Dirs : Complete(i, d)' <=> Complete(i, d)
  BY <1>2, <1>4, Zenon DEF Rest, Target, Complete, Dirs
<1>7. DirInv(i)'
  BY <1>1, <1>2, <1>3, <1>4, SyncDirs, Zenon DEF PayloadInv, Rest, Steady
<1>8. SaveInv(i)'
  BY <1>1, <1>2, <1>3, Zenon DEF PayloadInv, PhaseInv, SaveInv, Rest, Quarantining
<1>9. OrphanInv(i)'
  <2>1. MovedAway(i) => MovedAway(i)' /\ Published(i)' = {}
    BY <1>1, <1>4, <1>6, ZenonT(60) DEF MovedAway, Published, PayloadInv, DirInv
  <2> QED BY <1>1, <1>2, <1>3, <2>1, Zenon DEF PayloadInv, OrphanInv, Rest
<1> QED BY <1>4, <1>5, <1>7, <1>8, <1>9, Zenon DEF IInv, PayloadInv

\* A file is copied into payload-orphans/.
LEMMA CopyOrphanStep ==
  ASSUME IInv, NEW i \in Ids, NEW f \in Files, CopyOrphan(i, f)
  PROVE  IInv'
<1>1. FsType /\ pc \in [Ids -> Phases] /\ PayloadInv(i)
  BY Zenon DEF IInv, TypeOK, FsType
<1>2. /\ pc[i] = "setaside" /\ writeRegularFileAt(i, "orphaned", f)
      /\ UNCHANGED <<Rest, pc, faults>>
  BY Zenon DEF CopyOrphan
<1>3. /\ FsType' /\ Others(i) /\ Leaves(i, Dirs \ {"orphaned"}) /\ UNCHANGED <<loc, dloc>>
      /\ has'[i]["orphaned"] = has[i]["orphaned"] \cup {f}
      /\ dhas'[i]["orphaned"] = dhas[i]["orphaned"] \cup {f}
  BY <1>1, <1>2, Writes, Zenon DEF Dirs
<1>4. TypeOK' /\ \A k \in Ids : Steady(k)
  BY <1>2, <1>3, Zenon DEF IInv, TypeOK, FsType, Rest, Steady
<1>5. PhaseInv(i)'
  BY <1>1, <1>2, <1>3, Zenon DEF PayloadInv, PhaseInv, Rest
<1>6. Target' = Target /\ Target \in Dirs \ {"orphaned"}
  BY <1>2, Zenon DEF Rest, Target, Dirs
<1>7. DirInv(i)'
  <2>1. \A e \in Dirs : has'[i][e] \subseteq dhas'[i][e]
    BY <1>1, <1>3, Zenon DEF Leaves, PayloadInv, DirInv
  <2>2. \A e \in Dirs : Complete(i, e) => Complete(i, e)'
    BY <1>1, <1>3, Zenon DEF Complete, Leaves
  <2> QED BY <1>1, <1>2, <1>3, <1>6, <2>1, <2>2, Zenon DEF PayloadInv, DirInv, Rest
<1>8. SaveInv(i)'
  BY <1>1, <1>2, Zenon DEF PayloadInv, PhaseInv, SaveInv, Rest, Quarantining
<1>9. OrphanInv(i)'
  <2>1. Stored(i) => Stored(i)'
    BY <1>3, <1>6, Zenon DEF Stored, Complete, Leaves
  <2> QED BY <1>1, <1>2, <2>1, Zenon DEF PayloadInv, PhaseInv, OrphanInv, Rest, Quarantining
<1> QED BY <1>2, <1>3, <1>4, <1>5, <1>7, <1>8, <1>9, OneAtWork, Zenon DEF PayloadInv

\* The copy is complete when the removal of the source begins.
LEMMA ClearStep ==
  ASSUME IInv, NEW i \in Ids, ClearSource(i)
  PROVE  IInv'
<1>1. FsType /\ pc \in [Ids -> Phases] /\ PayloadInv(i)
  BY Zenon DEF IInv, TypeOK, FsType
<1>2. /\ pc[i] = "setaside" /\ UNCHANGED <<Rest, faults>> /\ UNCHANGED <<loc, dloc, has, dhas>>
      /\ \E d \in Published(i) : has[i]["orphaned"] = has[i][d]
  BY Zenon DEF ClearSource, fs, view, stored
<1>3. pc' \in [Ids -> Phases] /\ pc'[i] = "clearing" /\ \A k \in Ids \ {i} : pc'[k] = pc[k]
  BY <1>1, Phase, Zenon DEF ClearSource, Phases
<1>4. TypeOK' /\ Others(i) /\ \A k \in Ids : Steady(k)
  BY <1>2, <1>3, Zenon DEF IInv, TypeOK, Others, Rest, Steady
<1>5. PhaseInv(i)'
  BY <1>1, <1>2, <1>3, Zenon DEF PayloadInv, PhaseInv, Rest, Saving, Quarantining
<1>6. DirInv(i)'
  <2>1. Target' = Target /\ \A e \in Dirs : Complete(i, e)' <=> Complete(i, e)
    BY <1>2, Zenon DEF Rest, Target, Complete
  <2> QED BY <1>1, <1>2, <1>3, <2>1, Zenon DEF PayloadInv, DirInv, Rest
<1>7. SaveInv(i)'
  BY <1>1, <1>2, <1>3, Zenon DEF PayloadInv, PhaseInv, SaveInv, Rest, Quarantining
<1>8. OrphanInv(i)'
  <2>1. Stored(i) => has[i]["orphaned"] = Files
    BY <1>1, <1>2, Zenon DEF Stored, Complete, Published, PayloadInv, DirInv
  <2>2. has[i]["orphaned"] = Files => dhas[i]["orphaned"] = Files
    <3>1. has[i]["orphaned"] \subseteq dhas[i]["orphaned"]
      BY <1>1, Zenon DEF PayloadInv, DirInv, Dirs
    <3>2. dhas[i]["orphaned"] \subseteq Files
      BY <1>1, Zenon DEF FsType, Dirs
    <3> QED BY <3>1, <3>2, Zenon
  <2>3. Stored(i) => Aside(i)'
    BY <1>1, <1>2, <2>1, <2>2, Zenon DEF Aside, Complete, PayloadInv, DirInv
  <2> QED BY <1>1, <1>2, <1>3, <2>3, Zenon DEF PayloadInv, PhaseInv, OrphanInv, Rest, Quarantining
<1> QED BY <1>3, <1>4, <1>5, <1>6, <1>7, <1>8, OneAtWork, Zenon DEF PayloadInv
-----------------------------------------------------------------------------
(* The process.                                                            *)

\* A payload at the end of the process: what was at work on it is forgotten.
LEMMA Downs ==
  ASSUME IInv, Down, NEW k \in Ids
  PROVE  /\ pc' \in [Ids -> Phases] /\ proc' = "down"
         /\ pc'[k] \in {"idle", "done", "failed", "lost"}
         /\ pc'[k] = "done" => pc[k] = "done"
         /\ pc'[k] = "idle" => pc[k] = "idle"
         /\ pc'[k] \notin {"failed", "lost"} => pc'[k] = pc[k]
BY Zenon DEF Down, IInv, TypeOK, Phases

\* The invariant of a payload when the process ends and its directories are kept.
LEMMA EndStep ==
  ASSUME IInv, Down, NEW k \in Ids, proc # "serving",
         UNCHANGED <<xdev, rec, begun, whole>>, UNCHANGED <<dloc, dhas>>,
         undone \subseteq undone',
         k \in whole \ undone' => pc[k] # "clearing" \/ Aside(k)',
         \A e \in Dirs \ {"orphaned"} : loc'[k][e] = loc[k][e] /\ has'[k][e] = has[k][e],
         \/ loc'[k]["orphaned"] = loc[k]["orphaned"] /\ has'[k]["orphaned"] = has[k]["orphaned"]
         \/ /\ loc'[k]["orphaned"] = "none" /\ has'[k]["orphaned"] = {}
            /\ pc[k] \in Quarantining
  PROVE  PayloadInv(k)'
<1>1. FsType /\ PayloadInv(k)
  BY Zenon DEF IInv, TypeOK, FsType
<1>2. /\ proc' = "down" /\ pc'[k] \in {"idle", "done", "failed", "lost"}
      /\ pc'[k] = "done" => pc[k] = "done"
      /\ pc'[k] = "idle" => pc[k] = "idle"
  BY Downs, Zenon
<1>3. Target' = Target /\ Target \in Dirs \ {"orphaned"}
  BY Zenon DEF Target, Dirs
<1>4. (Stored(k) => Stored(k)') /\ (MovedAway(k) => MovedAway(k)')
  BY <1>3, Zenon DEF Stored, MovedAway, Complete
<1>5. PhaseInv(k)'
  <2>1. pc'[k] = "idle" => \A d \in Dirs : loc'[k][d] = "none" /\ dloc'[k][d] = "none"
    BY <1>1, <1>2, Zenon DEF PayloadInv, PhaseInv
  <2>2. k \in rec' => pc'[k] \in {"done", "removing", "failed", "lost"}
    BY <1>1, <1>2, Zenon DEF PayloadInv, PhaseInv
  <2>3. k \in whole' => k \notin rec' /\ pc'[k] \in {"failed", "lost"} \cup Quarantining
    BY <1>1, <1>2, Zenon DEF PayloadInv, PhaseInv, Quarantining
  <2> QED BY <1>1, <1>2, <2>1, <2>2, <2>3, Zenon DEF PayloadInv, PhaseInv, Saving, Quarantining
<1>6. DirInv(k)'
  <2>1. \A e \in Dirs \ {"orphaned"} : Complete(k, e)' <=> Complete(k, e)
    BY Zenon DEF Complete
  <2>2. \A e \in Dirs \ {"orphaned"} :
          /\ "payloads" \in {loc'[k][e], dloc'[k][e]}
             => e = Target' /\ (Complete(k, e)' \/ k \in begun')
          /\ loc'[k][e] \in {"staging", "temp"} => dloc'[k][e] = loc'[k][e]
          /\ has'[k][e] \subseteq dhas'[k][e]
          /\ dloc'[k][e] \in {"staging", "temp"} => loc'[k][e] = dloc'[k][e]
          /\ loc'[k][e] = "payloads" => dloc'[k][e] = "payloads"
    BY <1>1, <1>3, <2>1, ZenonT(60) DEF PayloadInv, DirInv
  <2>3. /\ {loc'[k]["orphaned"], dloc'[k]["orphaned"]} \subseteq {"none", "orphans"}
        /\ has'[k]["orphaned"] \subseteq dhas'[k]["orphaned"]
    BY <1>1, Zenon DEF PayloadInv, DirInv, Dirs
  <2> QED BY <1>2, <2>2, <2>3, Zenon DEF DirInv
<1>7. SaveInv(k)'
  <2>1. ASSUME pc'[k] = "done" \/ (k \notin begun /\ k \in rec) PROVE Stored(k)
    BY <1>1, <1>2, <2>1, Zenon DEF PayloadInv, SaveInv
  <2> QED BY <1>2, <1>4, <2>1, Zenon DEF SaveInv
<1>8. OrphanInv(k)'
  <2>1. SUFFICES ASSUME k \in whole' \ undone'
                 PROVE  Stored(k)' \/ Aside(k)' \/ MovedAway(k)'
    BY <1>2, Zenon DEF OrphanInv
  <2>2. k \in whole \ undone
    BY <2>1, Zenon
  <2>3. CASE Aside(k)'
    BY <2>3, Zenon
  <2>4. CASE pc[k] # "clearing"
    <3>1. CASE pc[k] \in Quarantining
      <4>1. proc = "recovering"
        BY <1>1, <3>1, Zenon DEF PayloadInv, PhaseInv
      <4> QED BY <1>1, <1>4, <2>2, <2>4, <3>1, <4>1, Zenon DEF PayloadInv, OrphanInv, Quarantining
    <3>2. CASE pc[k] \notin Quarantining
      <4>1. Aside(k) => Aside(k)'
        BY <3>2, Zenon DEF Aside, Complete
      <4> QED BY <1>1, <1>4, <2>2, <4>1, Zenon DEF PayloadInv, OrphanInv
    <3> QED BY <3>1, <3>2, Zenon
  <2> QED BY <2>1, <2>2, <2>3, <2>4, Zenon
<1> QED BY <1>5, <1>6, <1>7, <1>8, Zenon DEF PayloadInv

\* A failing quarantine throws the copy away and ends the start.
LEMMA QuarantineFailsStep ==
  ASSUME IInv, NEW i \in Ids, QuarantineFails(i)
  PROVE  IInv'
<1>1. FsType /\ pc \in [Ids -> Phases] /\ \A k \in Ids : PayloadInv(k)
  BY Zenon DEF IInv, TypeOK, FsType
<1>2. /\ pc[i] \in Quarantining /\ Down /\ UNCHANGED <<xdev, rec, begun, whole>>
      /\ undone' = IF pc[i] = "clearing" THEN undone \cup {i} ELSE undone
      /\ faults' \in 0..MaxFaults
  BY PayloadAssumption DEF QuarantineFails, Quarantining, Fault, IInv, TypeOK
<1>3. /\ FsType' /\ Others(i) /\ Leaves(i, Dirs \ {"orphaned"}) /\ UNCHANGED <<dloc, dhas>>
      /\ \A e \in Dirs : \/ loc'[i][e] = loc[i][e] /\ has'[i][e] = has[i][e]
                         \/ loc'[i][e] = "none" /\ has'[i][e] = {}
  BY <1>1, Discards, Zenon DEF QuarantineFails
<1>4. proc = "recovering"
  BY <1>1, <1>2, Zenon DEF PayloadInv, PhaseInv
<1>5. TypeOK'
  BY <1>2, <1>3, Downs, Zenon DEF IInv, TypeOK, FsType
<1>6. PayloadInv(i)'
  BY <1>2, <1>3, <1>4, EndStep, Zenon DEF Leaves, Dirs
<1>7. ASSUME NEW k \in Ids \ {i} PROVE PayloadInv(k)'
  <2>1. loc'[k] = loc[k] /\ dloc'[k] = dloc[k] /\ has'[k] = has[k] /\ dhas'[k] = dhas[k]
    BY <1>3, Zenon DEF Others
  <2>2. k \in whole \ undone /\ pc[k] = "clearing" => Aside(k)'
    BY <1>1, <2>1, Zenon DEF PayloadInv, OrphanInv, Aside, Complete
  <2>3. k \in undone' <=> k \in undone
    BY <1>2, Zenon
  <2> QED BY <1>2, <1>3, <1>4, <2>1, <2>2, <2>3, EndStep, Zenon
<1> QED BY <1>5, <1>6, <1>7, Zenon DEF IInv

\* The machine stops: what was not synced may be undone.
LEMMA PowerLossStep ==
  ASSUME IInv, PowerLoss
  PROVE  IInv'
<1>1. FsType /\ \A k \in Ids : PayloadInv(k)
  BY Zenon DEF IInv, TypeOK, FsType
<1>2. Down /\ UNCHANGED <<xdev, rec, begun, whole, undone>> /\ faults' \in 0..MaxFaults
  BY PayloadAssumption DEF PowerLoss, Fault, IInv, TypeOK
<1>3. PICK U \in SUBSET Moved, V \in SUBSET Touched :
        /\ loc' = [i \in Ids |-> [d \in Dirs |->
                     IF <<i, d>> \in U THEN dloc[i][d] ELSE loc[i][d]]]
        /\ has' = [i \in Ids |-> [d \in Dirs |->
                     {f \in Files : /\ loc'[i][d] # "none"
                                    /\ (f \in has[i][d]) # (<<i, d, f>> \in V)}]]
  BY Zenon DEF PowerLoss
<1>4. dloc' = loc' /\ dhas' = has'
  BY Zenon DEF PowerLoss
<1>5. loc' \in [Ids -> [Dirs -> Places]] /\ has' \in [Ids -> [Dirs -> SUBSET Files]]
  BY <1>1, <1>3, Zenon DEF FsType
<1>6. TypeOK'
  <2>1. pc' \in [Ids -> Phases] /\ proc' = "down"
    BY <1>2, Zenon DEF Down, IInv, TypeOK, Phases
  <2> QED BY <1>2, <1>4, <1>5, <2>1, Zenon DEF IInv, TypeOK
<1>7. ASSUME NEW k \in Ids PROVE PayloadInv(k)'
  <2>1. \A d \in Dirs : loc'[k][d] \in {loc[k][d], dloc[k][d]}
    BY <1>3, Zenon
  \* A complete directory stays complete, wherever it is.
  <2>2. ASSUME NEW d \in Dirs, Complete(k, d), loc'[k][d] # "none"
        PROVE  Complete(k, d)'
    <3>1. \A f \in Files : <<k, d, f>> \notin V
      <4>1. ASSUME NEW f \in Files, <<k, d, f>> \in V PROVE FALSE
        <5>1. <<k, d, f>> \in Touched
          BY <1>3, <4>1, Zenon
        <5> QED BY <2>2, <5>1, Zenon DEF Touched, Complete
      <4> QED BY <4>1, Zenon
    <3>2. has'[k][d] = {f \in Files : /\ loc'[k][d] # "none"
                                      /\ (f \in has[k][d]) # (<<k, d, f>> \in V)}
      BY <1>3, Zenon
    <3>3. has'[k][d] = Files
      BY <2>2, <3>1, <3>2, Zenon DEF Complete
    <3> QED BY <1>4, <3>3, Zenon DEF Complete
  <2>3. Target' = Target /\ Target \in Dirs
    BY <1>2, Zenon DEF Target, Dirs
  <2>4. Stored(k) => Stored(k)'
    BY <1>4, <2>1, <2>2, <2>3, Zenon DEF Stored
  <2>5. Aside(k) => Aside(k)'
    BY <1>4, <2>1, <2>2, Zenon DEF Aside, Dirs
  <2>6. MovedAway(k) => MovedAway(k)' \/ Stored(k)'
    BY <1>4, <2>1, <2>2, <2>3, Zenon DEF MovedAway, Stored
  <2>7. /\ proc' = "down" /\ pc'[k] \in {"idle", "done", "failed", "lost"}
        /\ pc'[k] = "done" => pc[k] = "done"
        /\ pc'[k] = "idle" => pc[k] = "idle"
    BY <1>2, Downs, Zenon
  <2>8. PhaseInv(k)'
    <3>1. pc'[k] = "idle" => \A d \in Dirs : loc'[k][d] = "none" /\ dloc'[k][d] = "none"
      BY <1>1, <1>4, <2>1, <2>7 DEF PayloadInv, PhaseInv
    <3>2. k \in rec' => pc'[k] \in {"done", "removing", "failed", "lost"}
      BY <1>1, <1>2, <2>7, Zenon DEF PayloadInv, PhaseInv
    <3>3. k \in whole' => k \notin rec' /\ pc'[k] \in {"failed", "lost"} \cup Quarantining
      BY <1>1, <1>2, <2>7, Zenon DEF PayloadInv, PhaseInv, Quarantining
    <3> QED
      BY <1>1, <1>2, <2>7, <3>1, <3>2, <3>3, Zenon
         DEF PayloadInv, PhaseInv, Saving, Quarantining
  <2>9. DirInv(k)'
    <3>1. ASSUME NEW d \in Dirs, loc'[k][d] = "payloads"
          PROVE  d = Target' /\ (Complete(k, d)' \/ k \in begun')
      BY <1>1, <1>2, <2>1, <2>2, <2>3, <3>1, Zenon DEF PayloadInv, DirInv
    <3>2. loc'[k]["orphaned"] \in {"none", "orphans"}
      BY <1>1, <2>1, Zenon DEF PayloadInv, DirInv, Dirs
    <3> QED BY <1>4, <2>7, <3>1, <3>2, Zenon DEF DirInv
  <2>10. SaveInv(k)'
    <3>1. ASSUME pc'[k] = "done" \/ (k \notin begun /\ k \in rec) PROVE Stored(k)
      BY <1>1, <2>7, <3>1, Zenon DEF PayloadInv, SaveInv
    <3> QED BY <1>2, <2>4, <2>7, <3>1, Zenon DEF SaveInv
  <2>11. OrphanInv(k)'
    BY <1>1, <1>2, <2>4, <2>5, <2>6, <2>7, Zenon DEF PayloadInv, OrphanInv
  <2> QED BY <2>8, <2>9, <2>10, <2>11, Zenon DEF PayloadInv
<1> QED BY <1>6, <1>7, Zenon DEF IInv

\* A start clears staging/ and the publish temps, and notes the complete orphans.
LEMMA OpenStep ==
  ASSUME IInv, Open
  PROVE  IInv'
<1> DEFINE P == {"staging", "temp"}
<1>1. FsType /\ \A k \in Ids : PayloadInv(k)
  BY Zenon DEF IInv, TypeOK, FsType
<1>2. /\ proc = "down" /\ proc' = "recovering" /\ UNCHANGED <<xdev, pc, rec, begun, faults>>
      /\ whole' = {i \in Ids \ rec : Intact(i, "payloads")} /\ undone' = {}
      /\ loc' = Cleared(P, loc) /\ dloc' = Cleared(P, dloc)
      /\ has' = Kept(P, has) /\ dhas' = Kept(P, dhas)
  BY Zenon DEF Open
<1>3. TypeOK'
  <2>1. loc' \in [Ids -> [Dirs -> Places]] /\ dloc' \in [Ids -> [Dirs -> Places]]
    BY <1>1, <1>2, Zenon DEF FsType, Cleared, Places
  <2>2. has' \in [Ids -> [Dirs -> SUBSET Files]] /\ dhas' \in [Ids -> [Dirs -> SUBSET Files]]
    BY <1>1, <1>2, Zenon DEF FsType, Kept
  <2> QED BY <1>2, <2>1, <2>2, Zenon DEF IInv, TypeOK
<1>4. ASSUME NEW k \in Ids PROVE PayloadInv(k)'
  <2>1. \A d \in Dirs :
          /\ loc'[k][d] = IF loc[k][d] \in P THEN "none" ELSE loc[k][d]
          /\ dloc'[k][d] = IF loc[k][d] \in P THEN "none" ELSE dloc[k][d]
          /\ has'[k][d] = IF loc[k][d] \in P THEN {} ELSE has[k][d]
          /\ dhas'[k][d] = IF loc[k][d] \in P THEN {} ELSE dhas[k][d]
    BY <1>2, Zenon DEF Cleared, Kept
  <2>2. Target' = Target /\ Target \in Dirs
    BY <1>2, Zenon DEF Target, Dirs
  <2>3. Stored(k) => Stored(k)'
    BY <2>1, <2>2, Zenon DEF Stored, Complete
  <2>4. pc[k] \in {"idle", "done", "failed", "lost"}
    BY <1>1, <1>2, Zenon DEF PayloadInv, PhaseInv, Saving, Quarantining, IInv, TypeOK, Phases
  \* A complete orphan is complete on disk.
  <2>5. k \in whole' => Stored(k) /\ pc[k] \in {"failed", "lost"}
    <3>1. SUFFICES ASSUME k \in whole' PROVE Stored(k) /\ pc[k] \in {"failed", "lost"}
      OBVIOUS
    <3>2. k \notin rec /\ Intact(k, "payloads")
      BY <1>2, <3>1, Zenon
    <3>3. PICK d \in Dirs : loc[k][d] = "payloads" /\ has[k][d] = Files
      BY <3>2, Zenon DEF Intact
    <3>4. d = Target /\ dloc[k][d] = "payloads" /\ has[k][d] \subseteq dhas[k][d]
      BY <1>1, <1>2, <3>3, Zenon DEF PayloadInv, DirInv
    <3>5. dhas[k][d] \subseteq Files
      BY <1>1, Zenon DEF FsType
    <3>6. Stored(k)
      BY <3>3, <3>4, <3>5, Zenon DEF Stored, Complete
    <3> QED BY <1>1, <2>4, <3>2, <3>3, <3>6, Zenon DEF PayloadInv, PhaseInv
  <2>6. PhaseInv(k)'
    <3>1. pc'[k] = "idle" => \A d \in Dirs : loc'[k][d] = "none" /\ dloc'[k][d] = "none"
      BY <1>1, <1>2, <2>1 DEF PayloadInv, PhaseInv
    <3>2. k \in whole' => k \notin rec'
      BY <1>2, Zenon
    <3> QED
      BY <1>1, <1>2, <2>4, <2>5, <3>1, <3>2, Zenon
         DEF PayloadInv, PhaseInv, Saving, Quarantining
  <2>7. DirInv(k)'
    <3>1. ASSUME NEW d \in Dirs
          PROVE  /\ "payloads" \in {loc'[k][d], dloc'[k][d]}
                    => d = Target' /\ (Complete(k, d)' \/ k \in begun')
                 /\ {loc'[k][d], dloc'[k][d]} \cap {"staging", "temp"} = {}
                 /\ has'[k][d] \subseteq dhas'[k][d]
                 /\ loc'[k][d] = "payloads" => dloc'[k][d] = "payloads"
      <4>1. CASE loc[k][d] \in P
        BY <2>1, <4>1, Zenon
      <4>2. CASE loc[k][d] \notin P
        <5>1. /\ loc'[k][d] = loc[k][d] /\ dloc'[k][d] = dloc[k][d]
              /\ has'[k][d] = has[k][d] /\ dhas'[k][d] = dhas[k][d]
          BY <2>1, <4>2, Zenon
        <5>2. dloc[k][d] \notin P
          BY <1>1, <1>2, <4>2, Zenon DEF PayloadInv, DirInv
        <5> QED BY <1>1, <1>2, <2>2, <4>2, <5>1, <5>2, ZenonT(60) DEF PayloadInv, DirInv, Complete
      <4> QED BY <4>1, <4>2, Zenon
    <3>2. {loc'[k]["orphaned"], dloc'[k]["orphaned"]} \subseteq {"none", "orphans"}
      BY <1>1, <2>1, Zenon DEF PayloadInv, DirInv, Dirs
    <3> QED BY <1>2, <2>4, <3>1, <3>2, Zenon DEF DirInv
  <2>8. SaveInv(k)'
    BY <1>1, <1>2, <2>3, <2>4, Zenon DEF PayloadInv, SaveInv
  <2>9. OrphanInv(k)'
    BY <1>2, <2>3, <2>5, Zenon DEF OrphanInv
  <2> QED BY <2>6, <2>7, <2>8, <2>9, Zenon DEF PayloadInv
<1> QED BY <1>3, <1>4, Zenon DEF IInv

\* The start is over.
LEMMA ServeStep ==
  ASSUME IInv, Serve
  PROVE  IInv'
<1>1. /\ proc = "recovering" /\ proc' = "serving"
      /\ UNCHANGED <<xdev, pc, loc, dloc, has, dhas, rec, begun, whole, undone, faults>>
      /\ \A k \in Ids : pc[k] \notin Quarantining
  BY Zenon DEF Serve, fs, view, stored, Quarantining
<1>2. TypeOK'
  BY <1>1, Zenon DEF IInv, TypeOK
<1>3. ASSUME NEW k \in Ids PROVE PayloadInv(k)'
  <2>1. PayloadInv(k)
    BY Zenon DEF IInv
  <2>2. Target' = Target /\ \A d \in Dirs : Complete(k, d)' <=> Complete(k, d)
    BY <1>1, Zenon DEF Target, Complete
  <2>3. (Stored(k)' <=> Stored(k)) /\ (Aside(k)' <=> Aside(k)) /\ (MovedAway(k)' <=> MovedAway(k))
    BY <1>1, <2>2, Zenon DEF Stored, Aside, MovedAway, Complete
  <2>4. PhaseInv(k)'
    BY <1>1, <2>1, Zenon DEF PayloadInv, PhaseInv
  <2>5. DirInv(k)'
    BY <1>1, <2>1, <2>2, Zenon DEF PayloadInv, DirInv
  <2>6. SaveInv(k)'
    BY <1>1, <2>1, <2>2, <2>3, Zenon DEF PayloadInv, SaveInv, Complete
  <2>7. OrphanInv(k)'
    BY <1>1, <2>1, <2>3, Zenon DEF PayloadInv, OrphanInv, Quarantining
  <2> QED BY <2>4, <2>5, <2>6, <2>7, Zenon DEF PayloadInv
<1> QED BY <1>2, <1>3, Zenon DEF IInv
-----------------------------------------------------------------------------
(* The theorems.                                                           *)

\* The empty spool satisfies the invariant.
LEMMA InitIInv == Init => IInv
<1> SUFFICES ASSUME Init PROVE IInv
  OBVIOUS
<1>1. TypeOK
  BY PayloadAssumption DEF Init, TypeOK, Places, Phases
<1>2. ASSUME NEW k \in Ids PROVE PayloadInv(k)
  <2>1. /\ pc[k] = "idle" /\ rec = {} /\ whole = {} /\ proc = "down"
        /\ \A d \in Dirs : /\ loc[k][d] = "none" /\ dloc[k][d] = "none"
                           /\ has[k][d] = {} /\ dhas[k][d] = {}
    BY Zenon DEF Init
  <2> QED
    BY <2>1, Zenon
       DEF PayloadInv, PhaseInv, DirInv, SaveInv, OrphanInv, Dirs, Saving, Quarantining
<1> QED BY <1>1, <1>2, Zenon DEF IInv

\* No step of Save, Remove, the start, the quarantine or a loss of power breaks the
\* invariant that says where each payload is, and on which disk state it can rely.
THEOREM Invariance == Spec => []IInv
<1>1. ASSUME IInv, [Next]_vars PROVE IInv'
  <2>1. CASE UNCHANGED vars
    <3>1. UNCHANGED <<xdev, proc, pc, loc, dloc, has, dhas, rec, begun, whole, undone, faults>>
      BY <2>1, Zenon DEF vars, fs, view, stored
    <3>2. TypeOK'
      BY <1>1, <3>1, Zenon DEF IInv, TypeOK
    <3>3. ASSUME NEW k \in Ids PROVE PayloadInv(k)'
      BY <1>1, <3>1, Same, Zenon DEF IInv, Steady
    <3> QED BY <3>2, <3>3, Zenon DEF IInv
  <2>2. CASE PowerLoss \/ Open \/ Serve
    BY <1>1, <2>2, PowerLossStep, OpenStep, ServeStep, Zenon
  <2>3. ASSUME NEW i \in Ids,
               \/ createStagingDirectoryAt(i) \/ Publish(i) \/ RenameTemp(i)
               \/ SyncPublished(i) \/ SaveReturns(i) \/ SaveFails(i)
        PROVE  IInv'
    BY <1>1, <2>3, CreateStep, PublishStep, RenameStep, SyncStep, ReturnStep, SaveFailsStep, Zenon
  <2>4. ASSUME NEW i \in Ids,
               \/ InsertRecord(i) \/ InsertRecordFails(i) \/ RemoveDirectory(i)
               \/ RemoveFails(i) \/ SourceCleared(i)
        PROVE  IInv'
    BY <1>1, <2>4, InsertStep, RemoveDirectoryStep, Zenon
  <2>5. ASSUME NEW i \in Ids,
               \/ QuarantineOrphan(i) \/ SyncQuarantined(i) \/ ClearSource(i)
               \/ QuarantineFails(i)
        PROVE  IInv'
    BY <1>1, <2>5, QuarantineStep, SyncQuarantinedStep, ClearStep, QuarantineFailsStep, Zenon
  <2>6. ASSUME NEW i \in Ids, NEW f \in Files,
               \/ WriteStaged(i, f) \/ CopyStaged(i, f) \/ RemoveFile(i, f) \/ CopyOrphan(i, f)
        PROVE  IInv'
    BY <1>1, <2>6, WriteStep, RemoveFileStep, CopyOrphanStep, Zenon
  <2> QED BY <1>1, <2>1, <2>2, <2>3, <2>4, <2>5, <2>6, Zenon DEF Next
<1> QED BY <1>1, InitIInv, PTL DEF Spec

\* Once Save has returned, the complete payload is on disk under payloads/ until Remove
\* takes it away: no loss of power, failing call or recovery undoes it.
THEOREM SavedDurable == Spec => []SavedIsDurable
<1>1. IInv => SavedIsDurable
  <2>1. ASSUME IInv, NEW i \in Ids, Stored(i) PROVE Durable(i, "payloads")
    BY <2>1, Zenon DEF Stored, Complete, Durable, Target, Dirs
  <2>2. ASSUME IInv, NEW i \in Ids,
               pc[i] \in {"saved", "done"} \/ (i \in rec /\ pc[i] # "removing" /\ i \notin begun)
        PROVE  Stored(i)
    BY <2>2, Zenon DEF IInv, PayloadInv, SaveInv
  <2> QED BY <2>1, <2>2, Zenon DEF SavedIsDurable
<1> QED BY <1>1, Invariance, PTL

\* Recovery meets no staged directory and no publish temp of a dead process, and only
\* complete payloads or ones whose removal had begun.
THEOREM RecoveryClean == Spec => []RecoveryFindsOnlyRecords
<1>1. IInv => RecoveryFindsOnlyRecords
  BY Zenon DEF IInv, PayloadInv, DirInv, RecoveryFindsOnlyRecords, Published, Complete
<1> QED BY <1>1, Invariance, PTL

\* An orphan that recovery found complete is complete on disk at every moment of its
\* move to payload-orphans/, by rename or by copy.
THEOREM OrphansKept == Spec => []OrphanKept
<1>1. IInv => OrphanKept
  <2>1. ASSUME IInv, NEW i \in whole \ undone
        PROVE  Durable(i, "payloads") \/ Durable(i, "orphans")
    <3>1. i \in Ids
      BY <2>1, Zenon DEF IInv, TypeOK
    <3>2. Stored(i) \/ Aside(i) \/ MovedAway(i)
      BY <2>1, <3>1, Zenon DEF IInv, PayloadInv, OrphanInv
    <3>3. Target \in Dirs /\ "orphaned" \in Dirs
      BY Zenon DEF Target, Dirs
    <3> QED BY <3>2, <3>3, Zenon DEF Stored, Aside, MovedAway, Complete, Durable
  <2> QED BY <2>1, Zenon DEF OrphanKept
<1> QED BY <1>1, Invariance, PTL
============================================================================
