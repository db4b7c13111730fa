------------------------- MODULE EditDurableProofs --------------------------
(***************************************************************************)
(* A commit that has answered is not undone, as long as at most one file   *)
(* operation fails.                                                        *)
(***************************************************************************)
EXTENDS EditOverlayProofs

(* What recovery and an undone commit put back is never the content of a   *)
(* commit that has answered: until it answers, the files it has replaced   *)
(* hold its own versions, and when it answers its directory is gone.       *)

Own(s) == {s} \X (1..MaxVersions)
InFlight == Journalled \cup {"discard"}

(* The entries of a directory that recovery would restore.                 *)
Unmarked(s) ==
  IF snap[s].phase = "committing" THEN DOMAIN snap[s].orig \ snap[s].renamed ELSE {}

Staging(s) ==
  /\ \A f \in DOMAIN edits[s] : edits[s][f] \in Own(s)
  /\ s \in acked => /\ pc[s] = "idle" /\ snap[s] = NoDir
                    /\ status[s] \in {"committed", "rolled_back", "lost"}
  /\ pc[s] = "ack" => snap[s] = NoDir

Renaming(s) ==
  /\ pc[s] \in {"lock", "check", "snapshot", "manifest"} => renamed[s] = {}
  /\ pc[s] = "rename" => tmp[at[s]] \in Own(s)
  /\ pc[s] \in InFlight => \A f \in renamed[s] : disk[f] \in Own(s)
  /\ pc[s] = "done" => files[s] = renamed[s]
  /\ pc[s] \in {"tmp", "rename", "done"} /\ faults = 0 => renamed[s] \subseteq snap[s].renamed

Journal(s) ==
  /\ pc[s] \in InFlight \cup {"manifest"} => DOMAIN snap[s].orig = files[s]
  /\ Unmarked(s) # {} => s \in recovering \/ pc[s] \in InFlight
  /\ s \in recovering => files[s] \subseteq Unmarked(s)
  /\ \A f \in Unmarked(s) : ReadFile(disk[f]) = snap[s].orig[f] \/ disk[f] \in Own(s)

RecoveryApart ==
  recovering # {} => \A s, t \in Session : s # t => Unmarked(s) \cap Unmarked(t) = {}

DurableInv ==
  /\ \A s \in Session : Staging(s) /\ Renaming(s) /\ Journal(s)
  /\ RecoveryApart

(* Only session s moves, on the files it has locked, and answers for none  *)
(* but itself.                                                             *)
Moves(s) ==
  /\ pc[s] # "idle" /\ OnlyCommit(s)
  /\ \A t \in Session \ {s} : status'[t] = status[t] /\ (t \in acked' <=> t \in acked)
  /\ \A f \in File \ held[s] : tmp'[f] = tmp[f]

(* Outside recovery, what a directory would restore is locked.             *)
LEMMA UnmarkedHeld ==
  ASSUME OverlayInv, DurableInv, recovering = {}, NEW s \in Session
  PROVE  Unmarked(s) \subseteq held[s] /\ Unmarked(s) \subseteq File
<1>1. CASE Unmarked(s) = {}
  BY <1>1
<1>2. CASE Unmarked(s) # {}
  <2>1. pc[s] \in InFlight /\ DOMAIN snap[s].orig = files[s]
    BY <1>2 DEF DurableInv, Journal
  <2>2. held[s] = files[s] /\ files[s] \subseteq File
    BY <2>1 DEF OverlayInv, SessionInv, TypeOK, CommitType, InFlight, Journalled
  <2> QED BY <2>1, <2>2 DEF Unmarked
<1> QED BY <1>1, <1>2

(* A step of one commit leaves the others their files and directories.     *)
LEMMA DurableFrame ==
  ASSUME OverlayInv, DurableInv, NEW s \in Session, Moves(s),
         Staging(s)', Renaming(s)', Journal(s)'
  PROVE  DurableInv'
<1>1. recovering = {} /\ recovering' = {}
  BY DEF Moves, OnlyCommit, OverlayInv, RecoveryAlone
<1>2. ASSUME NEW t \in Session, t # s PROVE Staging(t)' /\ Renaming(t)' /\ Journal(t)'
  <2>1. Staging(t) /\ Renaming(t) /\ Journal(t) /\ SessionInv(t)
    BY DEF DurableInv, OverlayInv
  <2>2. /\ pc'[t] = pc[t] /\ files'[t] = files[t] /\ held'[t] = held[t]
        /\ renamed'[t] = renamed[t] /\ at'[t] = at[t] /\ snap'[t] = snap[t]
        /\ edits' = edits /\ status'[t] = status[t] /\ (t \in acked' <=> t \in acked)
        /\ Unmarked(t)' = Unmarked(t)
    BY <1>2 DEF Moves, OnlyCommit, Unmarked
  <2>3. \A f \in held[t] : f \in File /\ disk'[f] = disk[f] /\ tmp'[f] = tmp[f]
    BY <1>2 DEF Moves, OnlyCommit, OverlayInv, LocksApart, TypeOK, CommitType
  <2>4. faults' = 0 => faults = 0
    <3>1. faults \in Nat
      BY BoundsAreNumbers DEF OverlayInv, TypeOK, CountType
    <3> QED BY <3>1 DEF Moves, OnlyCommit
  <2>5. Staging(t)'
    BY <2>1, <2>2 DEF Staging
  <2>6. Renaming(t)'
    <3>1. pc[t] \in InFlight => held[t] = files[t] /\ renamed[t] \subseteq files[t]
      BY <2>1 DEF SessionInv, InFlight, Journalled, OverlayInv, TypeOK, CommitType
    <3>2. pc[t] = "rename" => at[t] \in held[t]
      BY <2>1 DEF SessionInv
    <3> QED BY <2>1, <2>2, <2>3, <2>4, <3>1, <3>2 DEF Renaming
  <2>7. Journal(t)'
    <3>1. Unmarked(t) \subseteq held[t]
      BY <1>1, UnmarkedHeld
    <3> QED BY <1>1, <2>1, <2>2, <2>3, <3>1 DEF Journal
  <2> QED BY <2>5, <2>6, <2>7
<1> QED BY <1>1, <1>2 DEF DurableInv, RecoveryApart

(* The types the steps below rely on.                                      *)
LEMMA DurableTypes ==
  ASSUME OverlayInv, DurableInv, NEW s \in Session
  PROVE  /\ pc \in [Session -> Steps \cup {"idle"}] /\ files \in [Session -> SUBSET File]
         /\ held \in [Session -> SUBSET File] /\ renamed \in [Session -> SUBSET File]
         /\ at \in [Session -> File \cup {0}] /\ snap \in [Session -> Snapshot]
         /\ disk \in [File -> Text \cup {Absent}] /\ tmp \in [File -> Text \cup {Absent}]
         /\ status \in [Session -> Status] /\ faults \in Nat
         /\ renamed[s] \subseteq files[s] /\ SessionInv(s)
         /\ Staging(s) /\ Renaming(s) /\ Journal(s)
BY BoundsAreNumbers DEF OverlayInv, TypeOK, DiskType, MemoryType, CommitType, CountType, DurableInv

(* Taking locks and comparing touch neither files nor directories.         *)
LEMMA LockDurable ==
  ASSUME OverlayInv, DurableInv, NEW s \in Session, lockFiles(s) \/ ConflictCheck(s)
  PROVE  DurableInv'
<1> USE DEF GoTo, Return, memory, counts
<1>1. Moves(s)
  <2>1. CASE lockFiles(s)
    BY <2>1, DurableTypes DEF Moves, OnlyCommit, lockFiles
  <2>2. CASE ConflictCheck(s)
    BY <2>2, DurableTypes DEF Moves, OnlyCommit, ConflictCheck
  <2> QED BY <2>1, <2>2
<1>2. Unmarked(s)' = Unmarked(s) /\ pc'[s] \notin InFlight /\ recovering' = recovering
  BY DurableTypes DEF Unmarked, lockFiles, ConflictCheck, InFlight, Journalled
<1>3. Staging(s)'
  BY DurableTypes DEF Staging, lockFiles, ConflictCheck
<1>4. Renaming(s)'
  BY <1>2, DurableTypes DEF Renaming, lockFiles, ConflictCheck
<1>5. Journal(s)'
  <2>1. recovering = {} /\ pc[s] \notin InFlight
    BY DEF lockFiles, ConflictCheck, OverlayInv, RecoveryAlone, InFlight, Journalled
  <2>2. pc'[s] # "manifest"
    BY DurableTypes DEF lockFiles, ConflictCheck
  <2> QED BY <1>2, <2>1, <2>2, DurableTypes DEF Journal
<1> QED BY <1>1, <1>3, <1>4, <1>5, DurableFrame

(* A missing directory restores nothing.                                   *)
LEMMA NoDirUnmarked ==
  ASSUME NEW s \in Session, snap'[s] = NoDir PROVE Unmarked(s)' = {}
BY DEF Unmarked, NoDir

(* A step after which the directory of s restores nothing.                 *)
LEMMA ClearedJournal ==
  ASSUME OverlayInv, NEW s \in Session, pc[s] # "idle", UNCHANGED recovering,
         Unmarked(s)' = {}, pc'[s] \notin InFlight, pc'[s] # "manifest"
  PROVE  Journal(s)'
<1>1. recovering = {}
  BY DEF OverlayInv, RecoveryAlone
<1> QED BY <1>1 DEF Journal

(* A directory without manifest is not one that recovery restores.         *)
LEMMA WriteSnapshotDurable ==
  ASSUME OverlayInv, DurableInv, NEW s \in Session, WriteSnapshot(s) PROVE DurableInv'
<1> USE DEF GoTo, Return, NoFault, Fault, memory
<1>1. Moves(s)
  BY DurableTypes DEF Moves, OnlyCommit, WriteSnapshot
<1>2. Staging(s)'
  BY DurableTypes DEF Staging, WriteSnapshot
<1>3. Renaming(s)'
  BY DurableTypes DEF Renaming, WriteSnapshot, InFlight, Journalled
<1>4. Journal(s)'
  <2>0. recovering = {} /\ recovering' = recovering
    BY DEF WriteSnapshot, OverlayInv, RecoveryAlone
  <2>1. CASE snap' = [snap EXCEPT ![s] = NoDir] /\ pc' = [pc EXCEPT ![s] = "idle"]
    BY <2>0, <2>1, NoDirUnmarked, ClearedJournal, DurableTypes DEF WriteSnapshot, InFlight, Journalled
  <2>2. CASE /\ snap' = [snap EXCEPT ![s] =
                  [phase |-> "bare", orig |-> [f \in files[s] |-> original[s][f]], renamed |-> {}]]
             /\ pc' = [pc EXCEPT ![s] = "manifest"] /\ UNCHANGED files
    <3>1. Unmarked(s)' = {} /\ DOMAIN snap'[s].orig = files'[s] /\ pc'[s] = "manifest"
      BY <2>2, DurableTypes DEF Unmarked
    <3> QED BY <2>0, <3>1 DEF Journal
  <2> QED BY <2>1, <2>2 DEF WriteSnapshot
<1> QED BY <1>1, <1>2, <1>3, <1>4, DurableFrame

(* The first manifest lists files that are all still as captured.          *)
LEMMA WriteManifestDurable ==
  ASSUME OverlayInv, DurableInv, NEW s \in Session, WriteManifest(s) PROVE DurableInv'
<1> USE DEF GoTo, Return, NoFault, Fault, memory
<1>1. Moves(s)
  BY DurableTypes DEF Moves, OnlyCommit, WriteManifest
<1>2. CASE snap' = [snap EXCEPT ![s] = NoDir] /\ Return(s)
  <2>1. Staging(s)' /\ Renaming(s)'
    BY <1>2, DurableTypes DEF Staging, Renaming, WriteManifest, InFlight, Journalled
  <2>2. Journal(s)'
    BY <1>2, NoDirUnmarked, ClearedJournal, DurableTypes DEF WriteManifest, InFlight, Journalled
  <2> QED BY <1>1, <2>1, <2>2, DurableFrame
<1>3. CASE /\ snap' = [snap EXCEPT ![s].phase = "committing"] /\ pc' = [pc EXCEPT ![s] = "tmp"]
           /\ UNCHANGED <<files, held, renamed, at>>
  <2>1. snap'[s].orig = snap[s].orig /\ pc'[s] = "tmp" /\ pc[s] = "manifest" /\ s \notin acked
    BY <1>3, PhaseUpdate, DurableTypes DEF WriteManifest, Staging
  <2>2. UNCHANGED <<disk, tmp, edits, acked, recovering, status>> /\ recovering = {}
    BY DEF WriteManifest, OverlayInv, RecoveryAlone
  <2>3. Staging(s)' /\ renamed[s] = {}
    BY <2>1, <2>2, DurableTypes DEF Staging, Renaming
  <2>4. Renaming(s)'
    BY <1>3, <2>1, <2>2, <2>3, DurableTypes DEF Renaming
  <2>5. \A f \in DOMAIN snap[s].orig : ReadFile(disk[f]) = snap[s].orig[f]
    <3>1. DOMAIN snap[s].orig = files[s] /\ AsCaptured(s) /\ Copied(s)
      BY <2>1, DurableTypes DEF Journal, SessionInv, Checked
    <3> QED BY <2>3, <3>1 DEF AsCaptured, Copied
  <2>6. Journal(s)'
    BY <1>3, <2>1, <2>2, <2>5, DurableTypes DEF Journal, Unmarked, InFlight, Journalled
  <2> QED BY <1>1, <2>3, <2>4, <2>6, DurableFrame
<1> QED BY <1>2, <1>3 DEF WriteManifest

(* The temporary file holds the session's own version.                     *)
LEMMA WriteTmpDurable ==
  ASSUME OverlayInv, DurableInv, NEW s \in Session, WriteTmp(s) PROVE DurableInv'
<1> USE DEF GoTo, NoFault, Fault, memory
<1>1. Moves(s)
  <2>1. files[s] = held[s] /\ pc[s] = "tmp"
    BY DurableTypes DEF WriteTmp, SessionInv
  <2>2. OnlyCommit(s)
    BY <2>1, DurableTypes DEF OnlyCommit, WriteTmp
  <2>3. \A f \in File \ held[s] : tmp'[f] = tmp[f]
    BY <2>1, DurableTypes DEF WriteTmp
  <2> QED BY <2>1, <2>2, <2>3 DEF Moves, WriteTmp
<1>2. /\ pc[s] = "tmp" /\ pc'[s] \in {"done", "rename", "restore"}
      /\ UNCHANGED <<disk, snap, edits, acked, status, files, renamed, recovering>>
  BY DurableTypes DEF WriteTmp
<1>3. Staging(s)'
  BY <1>2, DurableTypes DEF Staging
<1>4. Renaming(s)'
  <2>1. pc'[s] = "done" => files[s] = renamed[s]
    BY DurableTypes DEF WriteTmp
  <2>2. ASSUME pc'[s] = "rename" PROVE tmp'[at'[s]] \in Own(s)
    <3>1. PICK f \in files[s] : at' = [at EXCEPT ![s] = f] /\ tmp' = [tmp EXCEPT ![f] = edits[s][f]]
      BY <2>2, DurableTypes DEF WriteTmp
    <3>2. f \in File /\ edits[s][f] \in Own(s)
      BY <1>2, DurableTypes DEF Staging, SessionInv
    <3> QED BY <3>1, <3>2, DurableTypes
  <2>3. faults' = 0 => faults = 0
    <3>1. faults' = faults \/ faults' = faults + 1
      BY DEF WriteTmp
    <3>2. faults \in Nat
      BY DurableTypes
    <3> QED BY <3>1, <3>2
  <2>4. Renaming(s) /\ pc[s] \in InFlight
    BY <1>2, DurableTypes DEF InFlight, Journalled
  <2> QED BY <1>2, <2>1, <2>2, <2>3, <2>4 DEF Renaming
<1>5. Journal(s)'
  <2>1. Unmarked(s)' = Unmarked(s)
    BY <1>2 DEF Unmarked
  <2> QED BY <1>2, <2>1, DurableTypes DEF Journal, InFlight, Journalled
<1> QED BY <1>1, <1>3, <1>4, <1>5, DurableFrame

(* The rename puts the session's own version in place.                     *)
LEMMA RenameDurable ==
  ASSUME OverlayInv, DurableInv, NEW s \in Session, Rename(s) PROVE DurableInv'
<1> USE DEF GoTo, NoFault, Fault, memory
<1>0. /\ pc[s] = "rename" /\ at[s] \in files[s] \ renamed[s] /\ at[s] \in File
      /\ held[s] = files[s] /\ tmp[at[s]] \in Own(s)
  BY DurableTypes DEF Rename, SessionInv, Renaming
<1>1. Moves(s)
  BY <1>0, DurableTypes DEF Moves, OnlyCommit, Rename
<1>2. /\ pc'[s] \in {"mark", "restore"}
      /\ UNCHANGED <<snap, edits, acked, status, files, recovering>>
  BY DurableTypes DEF Rename
<1>3. Staging(s)'
  BY <1>0, <1>2, DurableTypes DEF Staging
<1>4. \A f \in File : disk'[f] = disk[f] \/ disk'[f] \in Own(s)
  BY <1>0, DurableTypes DEF Rename
<1>5. Renaming(s)'
  <2>1. \A f \in renamed'[s] : disk'[f] \in Own(s)
    BY <1>0, <1>4, DurableTypes DEF Rename, Renaming, InFlight, Journalled
  <2> QED BY <1>2, <2>1 DEF Renaming
<1>6. Journal(s)'
  <2>1. Unmarked(s)' = Unmarked(s) /\ Unmarked(s) \subseteq File
    BY <1>0, <1>2, DurableTypes DEF Unmarked, Journal, InFlight, Journalled
  <2>2. Journal(s) /\ pc[s] \in InFlight /\ pc'[s] \in InFlight
    BY <1>0, <1>2, DurableTypes DEF InFlight, Journalled
  <2>3. \A f \in Unmarked(s)' : ReadFile(disk'[f]) = snap'[s].orig[f] \/ disk'[f] \in Own(s)
    BY <1>2, <1>4, <2>1, <2>2 DEF Journal
  <2> QED BY <1>2, <2>1, <2>2, <2>3 DEF Journal
<1> QED BY <1>1, <1>3, <1>5, <1>6, DurableFrame

(* Marking takes entries from what recovery would restore.                 *)
LEMMA MarkRenamedDurable ==
  ASSUME OverlayInv, DurableInv, NEW s \in Session, MarkRenamed(s) PROVE DurableInv'
<1> USE DEF GoTo, NoFault, Fault, memory
<1>1. Moves(s)
  BY DurableTypes DEF Moves, OnlyCommit, MarkRenamed
<1>2. /\ pc[s] = "mark" /\ pc'[s] = "tmp"
      /\ UNCHANGED <<disk, tmp, edits, acked, status, files, renamed, recovering>>
  BY DurableTypes DEF MarkRenamed
<1>3. Staging(s)'
  BY <1>2, DurableTypes DEF Staging
<1>4. /\ snap'[s].orig = snap[s].orig /\ snap'[s].phase = snap[s].phase
      /\ faults' = 0 => snap'[s].renamed = renamed[s]
      /\ snap'[s].renamed \in {snap[s].renamed, renamed[s]}
  BY DurableTypes DEF MarkRenamed, Snapshot
<1>5. Renaming(s)'
  BY <1>2, <1>4, DurableTypes DEF Renaming, InFlight, Journalled
<1>6. Journal(s)'
  <2>0. /\ DOMAIN snap[s].orig = files[s]
        /\ \A f \in files[s] \ renamed[s] : ReadFile(disk[f]) = snap[s].orig[f]
    <3>1. DOMAIN snap[s].orig = files[s] /\ AsCaptured(s) /\ Copied(s)
      BY <1>2, DurableTypes DEF Journal, SessionInv, Checked, InFlight, Journalled
    <3> QED BY <3>1 DEF AsCaptured, Copied
  <2>1. \A f \in Unmarked(s)' : ReadFile(disk[f]) = snap[s].orig[f] \/ disk[f] \in Own(s)
    <3>1. CASE snap'[s].renamed = renamed[s]
      BY <1>4, <2>0, <3>1 DEF Unmarked
    <3>2. CASE snap'[s].renamed = snap[s].renamed
      BY <1>4, <3>2, DurableTypes DEF Unmarked, Journal
    <3> QED BY <1>4, <3>1, <3>2
  <2> QED BY <1>2, <1>4, <2>1, DurableTypes DEF Journal, InFlight, Journalled, OverlayInv, RecoveryAlone
<1> QED BY <1>1, <1>3, <1>5, <1>6, DurableFrame

(* With at most one failing operation, the manifest that could not be      *)
(* written last was the only one: the directory that stays marks all files.*)
LEMMA MarkCommittedDurable ==
  ASSUME MaxFaults <= 1, OverlayInv, DurableInv, NEW s \in Session, MarkCommitted(s)
  PROVE  DurableInv'
<1> USE DEF GoTo, Return, NoFault, Fault, memory
<1>1. Moves(s)
  BY DurableTypes DEF Moves, OnlyCommit, MarkCommitted
<1>2. /\ pc[s] = "done" /\ pc'[s] \in {"idle", "remove"}
      /\ UNCHANGED <<disk, tmp, edits, acked, status, recovering>>
  BY DurableTypes DEF MarkCommitted
<1>3. Staging(s)' /\ Renaming(s)'
  BY <1>2, DurableTypes DEF Staging, Renaming, InFlight, Journalled
<1>4. Unmarked(s)' = {}
  <2>1. CASE snap' = [snap EXCEPT ![s].phase = "committed", ![s].renamed = renamed[s]]
    <3>1. snap'[s].phase = "committed"
      BY <2>1, DurableTypes DEF Snapshot
    <3> QED BY <3>1 DEF Unmarked
  <2>2. CASE Fault /\ UNCHANGED snap
    <3>1. faults = 0
      BY <2>2, DurableTypes, BoundsAreNumbers
    <3> QED BY <1>2, <2>2, <3>1, DurableTypes DEF Unmarked, Renaming, Journal, InFlight, Journalled
  <2> QED BY <2>1, <2>2 DEF MarkCommitted
<1>5. Journal(s)'
  BY <1>2, <1>4, ClearedJournal DEF InFlight, Journalled
<1> QED BY <1>1, <1>3, <1>5, DurableFrame

(* Undoing puts back what the directory says.                              *)
LEMMA RestoreDurable ==
  ASSUME OverlayInv, DurableInv, NEW s \in Session, Restore(s) PROVE DurableInv'
<1> USE DEF GoTo, NoFault, Fault, memory
<1>0. /\ pc[s] = "restore" /\ held[s] = files[s] /\ DOMAIN snap[s].orig = files[s]
      /\ UNCHANGED <<tmp, snap, edits, acked, status, files, at, recovering>>
      /\ Unmarked(s)' = Unmarked(s) /\ files[s] \subseteq File
  BY DurableTypes DEF Restore, SessionInv, Journal, Unmarked, InFlight, Journalled
<1>1. \A f \in files[s] : snap[s].orig[f] \in Text /\ snap[s].orig[f] # Absent
  <2>1. snap[s].orig \in Partial
    BY DurableTypes DEF Snapshot
  <2> QED BY <1>0, <2>1, PartialMember DEF Text, Absent, Empty, Old, Staged
<1>2. CASE renamed[s] = {} /\ pc' = [pc EXCEPT ![s] = "discard"] /\ UNCHANGED <<disk, renamed, faults>>
  <2>1. Moves(s) /\ pc'[s] = "discard"
    BY <1>0, <1>2, DurableTypes DEF Moves, OnlyCommit, Restore
  <2>2. /\ Staging(s) /\ Renaming(s) /\ Journal(s)
        /\ pc[s] \in InFlight /\ pc'[s] \in InFlight
    BY <1>0, <2>1, DurableTypes DEF InFlight, Journalled
  <2>3. Staging(s)' /\ Renaming(s)'
    BY <1>0, <1>2, <2>1, <2>2 DEF Staging, Renaming
  <2>4. Journal(s)'
    BY <1>0, <1>2, <2>2 DEF Journal
  <2> QED BY <2>1, <2>3, <2>4, DurableFrame
<1>3. ASSUME NEW f \in renamed[s], UNCHANGED pc, renamed' = [renamed EXCEPT ![s] = @ \ {f}],
             \/ faults' = faults /\ disk' = [disk EXCEPT ![f] = snap[s].orig[f]]
             \/ faults' = faults + 1 /\ UNCHANGED disk
      PROVE  DurableInv'
  <2>0. f \in files[s] /\ f \in File
    BY <1>0, DurableTypes
  <2>1. Moves(s)
    BY <1>0, <1>3, <2>0, DurableTypes DEF Moves, OnlyCommit, Restore
  <2>2. \A g \in File : disk'[g] = disk[g] \/ (g = f /\ disk'[g] = snap[s].orig[g])
    BY <1>3, <2>0, DurableTypes
  <2>3. Staging(s)' /\ Renaming(s)'
    <3>1. renamed'[s] = renamed[s] \ {f} /\ renamed[s] \subseteq File
      BY <1>3, DurableTypes
    <3> QED BY <1>0, <1>3, <2>2, <3>1, DurableTypes DEF Staging, Renaming, InFlight, Journalled
  <2>4. Journal(s)'
    <3>1. Unmarked(s) \subseteq files[s]
      BY <1>0 DEF Unmarked
    <3>2. \A g \in Unmarked(s) : ReadFile(disk'[g]) = snap[s].orig[g] \/ disk'[g] \in Own(s)
      BY <1>0, <1>1, <2>2, <3>1, DurableTypes DEF Journal, ReadFile
    <3> QED BY <1>0, <1>3, <3>2, DurableTypes DEF Journal, InFlight, Journalled
  <2> QED BY <2>1, <2>3, <2>4, DurableFrame
<1> QED BY <1>2, <1>3 DEF Restore

(* The steps that end a commit leave no directory behind.                  *)
LEMMA EndDurable ==
  ASSUME OverlayInv, DurableInv, NEW s \in Session, Discard(s) \/ RemoveSnapshot(s) \/ Acknowledge(s)
  PROVE  DurableInv'
<1> USE DEF GoTo, Return, memory, counts
<1>1. Moves(s)
  BY DurableTypes DEF Moves, OnlyCommit, Discard, RemoveSnapshot, Acknowledge
<1>2. snap'[s] = NoDir /\ pc'[s] \in {"idle", "ack"} /\ UNCHANGED <<edits, recovering>>
  BY DurableTypes DEF Discard, RemoveSnapshot, Acknowledge, Staging
<1>3. Staging(s)'
  <2>1. s \in acked' => pc'[s] = "idle" /\ status'[s] = "committed"
    BY DurableTypes DEF Discard, RemoveSnapshot, Acknowledge, Staging
  <2> QED BY <1>2, <2>1, DurableTypes DEF Staging
<1>4. Renaming(s)'
  BY <1>2 DEF Renaming, InFlight, Journalled
<1>5. Journal(s)'
  <2>1. pc[s] # "idle"
    BY DEF Discard, RemoveSnapshot, Acknowledge
  <2> QED BY <1>2, <2>1, NoDirUnmarked, ClearedJournal DEF InFlight, Journalled
<1> QED BY <1>1, <1>3, <1>4, <1>5, DurableFrame

(* Calls on an idle session, whose directory restores nothing.             *)
LEMMA HostDurable ==
  ASSUME OverlayInv, DurableInv, NEW s \in Session, Host(s) PROVE DurableInv'
<1> USE DEF Idle, Serving, memory, counts, commit
<1>1. /\ recovering = {} /\ pc[s] = "idle" /\ renamed[s] = {}
      /\ UNCHANGED <<disk, tmp, recovering, held, renamed, at, faults, acked>>
  BY DurableTypes DEF Host, Begin, Validate, Rollback, CommitBegin, WriteFile, SessionInv
<1>2. /\ pc'[s] \in {"idle", "lock"} /\ snap'[s] \in {snap[s], NoDir}
      /\ s \in acked => status[s] # "none" /\ status[s] # "open" /\ status[s] # "validated"
  BY DurableTypes DEF Host, Begin, Validate, Rollback, CommitBegin, WriteFile, Staging
<1>3. s \in acked' => pc'[s] = "idle" /\ snap'[s] = NoDir /\ status'[s] = "rolled_back"
  BY <1>1, <1>2, DurableTypes DEF Host, Begin, Validate, Rollback, CommitBegin, WriteFile, Staging
<1>4. \A f \in DOMAIN edits'[s] : edits'[s][f] \in Own(s)
  <2>1. CASE edits'[s] = edits[s] \/ edits'[s] = Nothing
    BY <2>1, DurableTypes DEF Staging, Nothing
  <2>2. ASSUME NEW f \in File, WriteFile(s, f) PROVE \A g \in DOMAIN edits'[s] : edits'[s][g] \in Own(s)
    <3>1. edits \in [Session -> Partial] /\ versions'[s] \in 1..MaxVersions
      <4>1. /\ edits \in [Session -> Partial] /\ versions \in [Session -> 0..MaxVersions]
            /\ versions[s] < MaxVersions /\ versions' = [versions EXCEPT ![s] = versions[s] + 1]
        BY <2>2 DEF WriteFile, OverlayInv, TypeOK, MemoryType
      <4>2. versions[s] + 1 \in 1..MaxVersions
        BY <4>1, BoundsAreNumbers
      <4> QED BY <4>1, <4>2
    <3>2. edits'[s] = Put(edits[s], f, <<s, versions'[s]>>)
      BY <2>2, <3>1 DEF WriteFile
    <3>3. \A g \in DOMAIN edits[s] : edits[s][g] \in Own(s)
      BY DurableTypes DEF Staging
    <3>4. <<s, versions'[s]>> \in Own(s)
      BY <3>1 DEF Own
    <3> QED BY <3>2, <3>3, <3>4 DEF Put
  <2>3. edits \in [Session -> Partial]
    BY DEF OverlayInv, TypeOK, MemoryType
  <2> QED BY <2>1, <2>2, <2>3 DEF Host, Begin, Validate, Rollback, CommitBegin
<1>5. Staging(s)' /\ Renaming(s)'
  BY <1>1, <1>2, <1>3, <1>4 DEF Staging, Renaming, InFlight, Journalled
<1>6. Journal(s)'
  <2>1. Unmarked(s) = {}
    BY <1>1, DurableTypes DEF Journal, InFlight, Journalled
  <2>2. Unmarked(s)' = {}
    BY <1>2, <2>1 DEF Unmarked, NoDir
  <2> QED BY <1>1, <1>2, <2>2 DEF Journal, InFlight, Journalled
<1>7. ASSUME NEW t \in Session, t # s PROVE Staging(t)' /\ Renaming(t)' /\ Journal(t)'
  <2>1. /\ pc'[t] = pc[t] /\ files'[t] = files[t] /\ snap'[t] = snap[t] /\ edits'[t] = edits[t]
        /\ status'[t] = status[t]
    <3>1. edits \in [Session -> Partial]
      BY DEF OverlayInv, TypeOK, MemoryType
    <3> QED BY SMTT(20), <1>7, <3>1, DurableTypes DEF Host, Begin, Validate, Rollback, CommitBegin, WriteFile
  <2>2. Unmarked(t)' = Unmarked(t)
    BY <2>1 DEF Unmarked
  <2>3. Staging(t) /\ Renaming(t) /\ Journal(t)
    BY DEF DurableInv
  <2>4. Staging(t)'
    BY <1>1, <2>1, <2>3 DEF Staging
  <2>5. Renaming(t)'
    BY <1>1, <2>1, <2>3 DEF Renaming
  <2>6. Journal(t)'
    BY <1>1, <2>1, <2>2, <2>3 DEF Journal
  <2> QED BY <2>4, <2>5, <2>6
<1> QED BY <1>1, <1>5, <1>6, <1>7 DEF DurableInv, RecoveryApart

(* A crash hands the directories to recovery; the mutexes had kept them    *)
(* apart.                                                                  *)
LEMMA CrashDurable ==
  ASSUME OverlayInv, DurableInv, Crash PROVE DurableInv'
<1>1. /\ UNCHANGED <<disk, tmp, snap, edits, acked>>
      /\ \A s \in Session : /\ pc'[s] = "idle" /\ renamed'[s] = {}
                            /\ files'[s] = Unmarked(s) /\ Unmarked(s)' = Unmarked(s)
                            /\ (Unmarked(s) # {} => s \in recovering')
                            /\ status'[s] = IF status[s] = "none" THEN "none" ELSE "lost"
  BY DEF Crash, Unmarked
<1>2. ASSUME NEW s \in Session PROVE Staging(s)' /\ Renaming(s)' /\ Journal(s)'
  <2>1. Staging(s) /\ Journal(s)
    BY DEF DurableInv
  <2>2. Staging(s)'
    BY <1>1, <2>1 DEF Staging
  <2>3. Renaming(s)' /\ Journal(s)'
    BY <1>1, <2>1 DEF Renaming, Journal, InFlight, Journalled
  <2> QED BY <2>2, <2>3
<1>3. \A s, t \in Session : s # t => Unmarked(s) \cap Unmarked(t) = {}
  <2>1. CASE recovering = {}
    BY <2>1, UnmarkedHeld DEF OverlayInv, LocksApart
  <2>2. CASE recovering # {}
    BY <2>2 DEF DurableInv, RecoveryApart
  <2> QED BY <2>1, <2>2
<1>4. RecoveryApart'
  BY <1>1, <1>3 DEF RecoveryApart
<1> QED BY <1>2, <1>4 DEF DurableInv

(* Recovery restores a file that only its own directory lists.             *)
LEMMA RecoverEntryDurable ==
  ASSUME OverlayInv, DurableInv, NEW s \in Session, RecoverEntry(s) PROVE DurableInv'
<1> USE DEF NoFault, Fault, memory
<1>1. PICK f \in files[s] :
        /\ files' = [files EXCEPT ![s] = @ \ {f}]
        /\ \/ disk' = [disk EXCEPT ![f] = IF ReadFile(@) = snap[s].orig[f] THEN @ ELSE snap[s].orig[f]]
           \/ UNCHANGED disk
  BY DEF RecoverEntry
<1>2. /\ s \in recovering /\ \A t \in Session : pc[t] = "idle" /\ Unmarked(t)' = Unmarked(t)
      /\ UNCHANGED <<snap, pc, edits, acked, status, recovering, renamed>>
  BY DEF RecoverEntry, OverlayInv, RecoveryAlone, Unmarked
<1>3. f \in Unmarked(s) /\ \A t \in Session \ {s} : f \notin Unmarked(t)
  BY <1>2, DurableTypes DEF Journal, DurableInv, RecoveryApart
<1>4. \A t \in Session : Unmarked(t) \subseteq File /\ \A g \in Unmarked(t) : snap[t].orig[g] # Absent
  <2>1. ASSUME NEW t \in Session PROVE snap[t].orig \in Partial
    BY <2>1 DEF OverlayInv, TypeOK, Snapshot
  <2> QED BY <2>1, PartialMember DEF Unmarked, Text, Absent, Empty, Old, Staged
<1>5. ASSUME NEW t \in Session PROVE Staging(t)' /\ Renaming(t)' /\ Journal(t)'
  <2>1. Staging(t) /\ Journal(t) /\ files'[t] \subseteq files[t]
    BY <1>1, DurableTypes DEF DurableInv
  <2>2. Staging(t)' /\ Renaming(t)'
    BY <1>2, <2>1 DEF Staging, Renaming, InFlight, Journalled
  <2>3. \A g \in Unmarked(t) : ReadFile(disk'[g]) = snap[t].orig[g] \/ disk'[g] \in Own(t)
    <3>1. CASE t = s
      <4> SUFFICES ASSUME NEW g \in Unmarked(t)
                   PROVE  ReadFile(disk'[g]) = snap[t].orig[g] \/ disk'[g] \in Own(t)
        OBVIOUS
      <4>1. g \in File /\ snap[t].orig[g] # Absent
        BY <1>4
      <4>2. CASE g = f
        <5>1. CASE UNCHANGED disk
          BY <2>1, <5>1 DEF Journal
        <5>2. CASE disk' = [disk EXCEPT ![f] = IF ReadFile(@) = snap[s].orig[f] THEN @ ELSE snap[s].orig[f]]
          <6>1. f \in DOMAIN disk
            BY <4>1, <4>2, DurableTypes
          <6>2. disk'[g] = IF ReadFile(disk[g]) = snap[t].orig[g] THEN disk[g] ELSE snap[t].orig[g]
            BY <3>1, <4>2, <5>2, <6>1
          <6> QED BY <4>1, <6>2 DEF ReadFile
        <5> QED BY <1>1, <5>1, <5>2
      <4>3. CASE g # f
        <5>1. disk'[g] = disk[g]
          BY <1>1, <4>1, <4>3, DurableTypes
        <5> QED BY <2>1, <5>1 DEF Journal
      <4> QED BY <4>2, <4>3
    <3>2. CASE t # s
      <4>1. \A g \in Unmarked(t) : disk'[g] = disk[g]
        BY <1>1, <1>3, <1>4, <3>2, DurableTypes
      <4> QED BY <2>1, <4>1 DEF Journal
    <3> QED BY <3>1, <3>2
  <2>4. Journal(t)'
    BY <1>2, <2>1, <2>3 DEF Journal, InFlight, Journalled
  <2> QED BY <2>2, <2>4
<1>6. RecoveryApart'
  BY <1>2 DEF DurableInv, RecoveryApart
<1> QED BY <1>5, <1>6 DEF DurableInv

(* A directory that recovery is done with restores nothing any more.       *)
LEMMA RecoverDoneDurable ==
  ASSUME OverlayInv, DurableInv, NEW s \in Session, RecoverDone(s) PROVE DurableInv'
<1> USE DEF memory, commit, counts
<1>1. /\ s \in recovering /\ files[s] = {} /\ recovering' = recovering \ {s}
      /\ \A t \in Session : pc[t] = "idle"
      /\ UNCHANGED <<disk, pc, files, edits, acked, status, renamed>>
  BY DEF RecoverDone, OverlayInv, RecoveryAlone
<1>2. /\ Unmarked(s)' = {} /\ (snap[s] = NoDir => snap'[s] = NoDir)
      /\ \A t \in Session \ {s} : snap'[t] = snap[t] /\ Unmarked(t)' = Unmarked(t)
  BY DurableTypes DEF RecoverDone, Unmarked, NoDir
<1>3. ASSUME NEW t \in Session PROVE Staging(t)' /\ Renaming(t)' /\ Journal(t)'
  <2>1. Staging(t) /\ Journal(t)
    BY DEF DurableInv
  <2>2. Staging(t)' /\ Renaming(t)'
    BY <1>1, <1>2, <2>1 DEF Staging, Renaming, InFlight, Journalled
  <2>3. Journal(t)'
    BY <1>1, <1>2, <2>1 DEF Journal, InFlight, Journalled
  <2> QED BY <2>2, <2>3
<1>4. RecoveryApart'
  BY <1>1, <1>2 DEF DurableInv, RecoveryApart
<1> QED BY <1>3, <1>4 DEF DurableInv

(* An outside edit is of a file that is not locked.                        *)
LEMMA ExternalEditDurable ==
  ASSUME OverlayInv, DurableInv, NEW f \in File, ExternalEdit(f) PROVE DurableInv'
<1> USE DEF memory, commit, Serving
<1>1. /\ recovering = {} /\ Free(f)
      /\ UNCHANGED <<tmp, snap, pc, files, edits, acked, status, renamed, at, recovering, faults>>
  BY DEF ExternalEdit
<1>2. ASSUME NEW t \in Session PROVE Staging(t)' /\ Renaming(t)' /\ Journal(t)'
  <2>1. Staging(t) /\ Renaming(t) /\ Journal(t) /\ Unmarked(t)' = Unmarked(t)
    BY <1>1 DEF DurableInv, Unmarked
  <2>2. \A g \in held[t] : g \in File /\ disk'[g] = disk[g]
    BY <1>1, DurableTypes DEF ExternalEdit, Free
  <2>3. Unmarked(t) \subseteq held[t]
    BY <1>1, UnmarkedHeld
  <2>4. pc[t] \in InFlight => renamed[t] \subseteq held[t]
    BY DurableTypes DEF SessionInv, InFlight, Journalled
  <2>5. Staging(t)'
    BY <1>1, <2>1 DEF Staging
  <2>6. Renaming(t)'
    BY <1>1, <2>1, <2>2, <2>4 DEF Renaming
  <2>7. Journal(t)'
    BY <1>1, <2>1, <2>2, <2>3 DEF Journal
  <2> QED BY <2>5, <2>6, <2>7
<1> QED BY <1>1, <1>2 DEF DurableInv, RecoveryApart

(* Every step keeps the invariant.                                         *)
LEMMA NextDurable ==
  ASSUME MaxFaults <= 1, OverlayInv, DurableInv, [Next]_vars PROVE DurableInv'
<1>1. CASE UNCHANGED vars
  <2> USE <1>1 DEF vars, memory, commit, counts
  <2>1. \A s \in Session : Unmarked(s)' = Unmarked(s)
    BY DEF Unmarked
  <2>2. ASSUME NEW s \in Session PROVE Staging(s)' /\ Renaming(s)' /\ Journal(s)'
    <3>1. Staging(s) /\ Renaming(s) /\ Journal(s)
      BY DEF DurableInv
    <3>2. Staging(s)'
      BY <3>1 DEF Staging
    <3>3. Renaming(s)'
      BY <3>1 DEF Renaming
    <3>4. Journal(s)'
      BY <2>1, <3>1 DEF Journal
    <3> QED BY <3>2, <3>3, <3>4
  <2> QED BY <2>1, <2>2 DEF DurableInv, RecoveryApart
<1>2. ASSUME NEW s \in Session, Commit(s) PROVE DurableInv'
  BY <1>2, LockDurable, WriteSnapshotDurable, WriteManifestDurable, WriteTmpDurable, RenameDurable,
     MarkRenamedDurable, MarkCommittedDurable, RestoreDurable, EndDurable DEF Commit
<1> QED BY <1>1, <1>2, HostDurable, CrashDurable, RecoverEntryDurable, RecoverDoneDurable,
           ExternalEditDurable DEF Next, recoverAll

(* No session has staged anything yet.                                     *)
LEMMA InitDurable == Init => DurableInv
<1> SUFFICES ASSUME Init PROVE DurableInv
  OBVIOUS
<1>1. \A s \in Session : snap[s] = NoDir /\ Unmarked(s) = {}
  BY DEF Init, Unmarked, NoDir
<1> QED BY <1>1 DEF Init, DurableInv, Staging, Renaming, Journal, RecoveryApart, Nothing, InFlight,
              Journalled

(* A step that changes a file and neither renames onto it nor edits it     *)
(* from outside restores it from a directory whose session has not         *)
(* answered.                                                               *)
LEMMA OnlyUnanswered ==
  ASSUME OverlayInv, DurableInv, Next, NEW f \in File, disk'[f] # disk[f], externals' = externals,
         \A t \in Session : f \notin renamed'[t] \ renamed[t]
  PROVE  \E t \in Session : disk[f] \in Own(t) /\ t \notin acked
<1> USE DEF GoTo, Return, commit
<1>1. ASSUME NEW s \in Session, Commit(s) PROVE \E t \in Session : disk[f] \in Own(t) /\ t \notin acked
  <2>1. CASE Rename(s)
    <3>1. at[s] \in files[s] \ renamed[s] /\ disk' = [disk EXCEPT ![at[s]] = tmp[at[s]]]
          /\ renamed' = [renamed EXCEPT ![s] = @ \cup {at[s]}]
      BY <2>1, DurableTypes DEF Rename, SessionInv
    <3> QED BY <3>1, DurableTypes
  <2>2. CASE Restore(s)
    <3>1. f \in renamed[s] /\ pc[s] = "restore"
      BY <2>2, DurableTypes DEF Restore
    <3> QED BY <3>1, DurableTypes DEF Renaming, Staging, InFlight, Journalled
  <2>3. CASE lockFiles(s) \/ ConflictCheck(s) \/ WriteSnapshot(s) \/ WriteManifest(s)
             \/ WriteTmp(s) \/ MarkRenamed(s)
    BY <2>3 DEF lockFiles, ConflictCheck, WriteSnapshot, WriteManifest, WriteTmp, MarkRenamed
  <2>4. CASE MarkCommitted(s) \/ Discard(s) \/ RemoveSnapshot(s) \/ Acknowledge(s)
    BY <2>4 DEF MarkCommitted, Discard, RemoveSnapshot, Acknowledge
  <2> QED BY <1>1, <2>1, <2>2, <2>3, <2>4 DEF Commit
<1>2. ASSUME NEW s \in Session, RecoverEntry(s) PROVE disk[f] \in Own(s) /\ s \notin acked
  <2>1. f \in files[s] /\ s \in recovering /\ ReadFile(disk[f]) # snap[s].orig[f]
    BY <1>2, DurableTypes DEF RecoverEntry
  <2>2. f \in Unmarked(s) /\ disk[f] \in Own(s)
    BY <2>1, DurableTypes DEF Journal
  <2>3. snap[s] # NoDir
    BY <2>2 DEF Unmarked, NoDir
  <2> QED BY <2>2, <2>3, DurableTypes DEF Staging
<1>3. ASSUME NEW s \in Session, RecoverDone(s) \/ Host(s) PROVE FALSE
  BY <1>3 DEF RecoverDone, Host, Begin, Validate, Rollback, CommitBegin, WriteFile
<1>4. ~Crash
  BY DEF Crash
<1>5. ASSUME NEW g \in File, ExternalEdit(g) PROVE FALSE
  <2>1. externals \in Nat
    BY BoundsAreNumbers DEF OverlayInv, TypeOK, CountType
  <2>2. externals' = externals + 1
    BY <1>5 DEF ExternalEdit
  <2> QED BY SMTT(20), <2>1, <2>2
<1>6. CASE \E s \in Session : Commit(s)
  BY <1>1, <1>6
<1>7. CASE \E s \in Session : RecoverEntry(s)
  BY <1>2, <1>7
<1> QED BY <1>3, <1>4, <1>5, <1>6, <1>7, Zenon DEF Next, recoverAll

(* A commit that has answered success is not undone by the rollback of     *)
(* another or by recovery, as long as at most one file operation fails:    *)
(* with a second failing manifest write, a directory that recovery reads   *)
(* outlives its commit and lists files that later commits replace.         *)
THEOREM OverlayCommitDurable ==
  ASSUME MaxFaults <= 1
  PROVE  Spec => CommitDurable
<1>1. OverlayInv /\ DurableInv /\ [Next]_vars => DurableInv'
  BY NextDurable
<1>2. ASSUME OverlayInv, DurableInv, [Next]_vars, NEW f \in File,
             disk[f] \in Staged, disk[f][1] \in acked, disk'[f] # disk[f]
      PROVE  externals' # externals \/ \E t \in Session : f \in renamed'[t] \ renamed[t]
  <2> SUFFICES ASSUME externals' = externals, \A t \in Session : f \notin renamed'[t] \ renamed[t]
               PROVE  FALSE
    OBVIOUS
  <2>1. Next
    BY <1>2 DEF vars
  <2>2. PICK t \in Session : disk[f] \in Own(t) /\ t \notin acked
    BY <1>2, <2>1, OnlyUnanswered
  <2> QED BY <1>2, <2>2 DEF Own
<1>3. OverlayInv /\ DurableInv /\ [Next]_vars =>
        [\A f \in File : disk[f] \in Staged /\ disk[f][1] \in acked /\ disk'[f] # disk[f]
           => externals' # externals \/ \E t \in Session : f \in renamed'[t] \ renamed[t]]_vars
  BY <1>2
<1> QED BY <1>1, <1>3, InitDurable, OverlayInvariant, PTL DEF Spec, CommitDurable
=============================================================================
