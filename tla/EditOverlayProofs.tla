------------------------- MODULE EditOverlayProofs --------------------------
(***************************************************************************)
(* The inductive invariant of the edit sessions, action by action.  A      *)
(* commit moves alone on the files it has locked, so one frame lemma       *)
(* carries the invariant of the other sessions over all its steps.         *)
(* It gives the journal, the undoing of a failed commit and the absence of *)
(* lost updates and, with the order of the mutexes, of circular waits, for *)
(* any number of sessions, files, failures and crashes.                    *)
(***************************************************************************)
EXTENDS EditOverlay, FiniteSetTheorems, TLAPS

(* Partial functions, without the union.                                   *)
LEMMA PartialMember ==
  ASSUME NEW fn
  PROVE  fn \in Partial <=>
           /\ fn = [x \in DOMAIN fn |-> fn[x]]
           /\ DOMAIN fn \subseteq File /\ \A x \in DOMAIN fn : fn[x] \in Text
BY DEF Partial

(* A missing directory counts as an empty snapshot.                        *)
LEMMA NoDirType == Nothing \in Partial /\ NoDir \in Snapshot
<1>1. Nothing \in Partial
  BY PartialMember DEF Nothing
<1> QED BY <1>1 DEF NoDir, Snapshot

(* Rewriting the manifest of one directory keeps the copies.               *)
LEMMA PhaseUpdate ==
  ASSUME snap \in [Session -> Snapshot], NEW s \in Session,
         snap' = [snap EXCEPT ![s].phase = "committing"]
  PROVE  /\ snap' \in [Session -> Snapshot]
         /\ snap'[s].orig = snap[s].orig /\ snap'[s].phase = "committing"
BY DEF Snapshot

(* ... and so does recording the renamed files.                            *)
LEMMA MarkUpdate ==
  ASSUME snap \in [Session -> Snapshot], NEW s \in Session, NEW R \in SUBSET File,
         snap' = [snap EXCEPT ![s].renamed = R]
  PROVE  /\ snap' \in [Session -> Snapshot]
         /\ snap'[s].orig = snap[s].orig /\ snap'[s].phase = snap[s].phase
BY DEF Snapshot

(* Only session s moves, on the files it has locked.                       *)
OnlyCommit(s) ==
  /\ \A t \in Session \ {s} :
       /\ pc'[t] = pc[t] /\ files'[t] = files[t] /\ held'[t] = held[t]
       /\ renamed'[t] = renamed[t] /\ at'[t] = at[t] /\ snap'[t] = snap[t]
  /\ \A f \in File \ held[s] : disk'[f] = disk[f]
  /\ UNCHANGED <<edits, original, recovering>>
  /\ faults' = faults \/ faults' = faults + 1

(* What one commit does on its locked files leaves every other session's   *)
(* part of the invariant as it was.                                        *)
LEMMA CommitFrame ==
  ASSUME OverlayInv, NEW s \in Session, pc[s] # "idle", OnlyCommit(s), TypeOK',
         held'[s] \subseteq held[s] \/ (LocksApart)', SessionInv(s)'
  PROVE  OverlayInv'
<1>1. LocksApart'
  BY DEF OnlyCommit, OverlayInv, LocksApart, TypeOK, CommitType
<1>2. RecoveryAlone'
  BY DEF OnlyCommit, OverlayInv, RecoveryAlone
<1>4. RecoveryCopied'
  BY DEF OnlyCommit, OverlayInv, RecoveryAlone, RecoveryCopied
<1>3. ASSUME NEW t \in Session, t # s PROVE SessionInv(t)'
  <2>1. SessionInv(t) /\ held[s] \cap held[t] = {}
    BY <1>3 DEF OverlayInv, LocksApart
  <2>2. pc[t] \notin {"idle", "lock"} => (AsCaptured(t)' <=> AsCaptured(t))
    BY <1>3, <2>1 DEF AsCaptured, OnlyCommit, SessionInv, OverlayInv, TypeOK, CommitType
  <2>3. Copied(t)' <=> Copied(t)
    BY <1>3 DEF Copied, OnlyCommit
  <2> QED BY <1>3, <2>1, <2>2, <2>3
       DEF SessionInv, OnlyCommit, Checked, Undoing, Journalled, OverlayInv, TypeOK, CountType
<1> QED BY <1>1, <1>2, <1>4, <1>3 DEF OverlayInv

(* Taking a free mutex keeps the locks of two commits apart.               *)
LEMMA lockFilesInv ==
  ASSUME OverlayInv, NEW s \in Session, lockFiles(s) PROVE OverlayInv'
<1> USE DEF GoTo, Return, Fault, NoFault, Steps, memory, commit, counts
<1>1. (DiskType /\ snap \in [Session -> Snapshot])'
  BY NoDirType, PartialMember DEF lockFiles, OverlayInv, TypeOK, DiskType, CommitType, MemoryType, SessionInv, Journalled, Copied
<1>2. (MemoryType /\ CommitType /\ CountType)'
  BY BoundsAreNumbers DEF lockFiles, Lowest, OverlayInv, TypeOK, MemoryType, CommitType, CountType, Status
<1>3. OnlyCommit(s) /\ (held'[s] \subseteq held[s] \/ (LocksApart)')
  BY DEF lockFiles, Lowest, OnlyCommit, OverlayInv, TypeOK, CommitType, DiskType, SessionInv, LocksApart, Free
<1>4. SessionInv(s)'
  BY DEF lockFiles, OverlayInv, TypeOK, CommitType, DiskType, SessionInv, Checked, Undoing, Journalled, AsCaptured, Copied, CountType
<1> QED BY <1>1, <1>2, <1>3, <1>4, CommitFrame DEF lockFiles, TypeOK

(* A commit that passes the comparison has all its files as captured.      *)
LEMMA ConflictCheckInv ==
  ASSUME OverlayInv, NEW s \in Session, ConflictCheck(s) PROVE OverlayInv'
<1> USE DEF GoTo, Return, Fault, NoFault, Steps, memory, commit, counts
<1>1. (DiskType /\ snap \in [Session -> Snapshot])'
  BY NoDirType, PartialMember DEF ConflictCheck, OverlayInv, TypeOK, DiskType, CommitType, MemoryType, SessionInv, Journalled, Copied
<1>2. (MemoryType /\ CommitType /\ CountType)'
  BY BoundsAreNumbers DEF ConflictCheck, OverlayInv, TypeOK, MemoryType, CommitType, CountType, Status
<1>3. OnlyCommit(s) /\ (held'[s] \subseteq held[s] \/ (LocksApart)')
  BY DEF ConflictCheck, OnlyCommit, OverlayInv, TypeOK, CommitType, DiskType, SessionInv, LocksApart, Free
<1>4. SessionInv(s)'
  BY DEF ConflictCheck, OverlayInv, TypeOK, CommitType, DiskType, SessionInv, Checked, Undoing, Journalled, AsCaptured, Copied, CountType
<1> QED BY <1>1, <1>2, <1>3, <1>4, CommitFrame DEF ConflictCheck, TypeOK

(* The snapshot holds the captured originals.                              *)
LEMMA WriteSnapshotInv ==
  ASSUME OverlayInv, NEW s \in Session, WriteSnapshot(s) PROVE OverlayInv'
<1> USE DEF GoTo, Return, Fault, NoFault, Steps, memory, commit, counts
<1>1. (DiskType /\ snap \in [Session -> Snapshot])'
  <2> DEFINE copies == [f \in files[s] |-> original[s][f]]
  <2>1. copies \in Partial
    <3>1. original[s] \in Partial /\ files[s] \subseteq DOMAIN original[s] /\ files[s] \subseteq File
      BY DEF WriteSnapshot, OverlayInv, TypeOK, MemoryType, CommitType, SessionInv
    <3> QED BY <3>1, PartialMember
  <2>2. [phase |-> "bare", orig |-> copies, renamed |-> {}] \in Snapshot
    BY <2>1 DEF Snapshot
  <2> HIDE DEF copies
  <2> QED BY <2>2, NoDirType DEF copies, WriteSnapshot, OverlayInv, TypeOK, DiskType
<1>2. (MemoryType /\ CommitType /\ CountType)'
  BY BoundsAreNumbers DEF WriteSnapshot, OverlayInv, TypeOK, MemoryType, CommitType, CountType, Status
<1>3. OnlyCommit(s) /\ (held'[s] \subseteq held[s] \/ (LocksApart)')
  BY DEF WriteSnapshot, OnlyCommit, OverlayInv, TypeOK, CommitType, DiskType, SessionInv
<1>4. SessionInv(s)'
  BY SMTT(40) DEF WriteSnapshot, OverlayInv, TypeOK, CommitType, SessionInv,
     Checked, Undoing, Journalled, AsCaptured, Copied, CountType
<1> QED BY <1>1, <1>2, <1>3, <1>4, CommitFrame DEF WriteSnapshot, TypeOK

(* The manifest makes the snapshot one that recovery reads.                *)
LEMMA WriteManifestInv ==
  ASSUME OverlayInv, NEW s \in Session, WriteManifest(s) PROVE OverlayInv'
<1> USE DEF GoTo, Return, Fault, NoFault, Steps, memory, commit, counts
<1>1. (DiskType /\ snap \in [Session -> Snapshot])'
  <2>1. CASE snap' = [snap EXCEPT ![s].phase = "committing"]
    BY <2>1, PhaseUpdate DEF WriteManifest, OverlayInv, TypeOK, DiskType
  <2>2. CASE snap' = [snap EXCEPT ![s] = NoDir]
    BY <2>2, NoDirType DEF WriteManifest, OverlayInv, TypeOK, DiskType
  <2> QED BY <2>1, <2>2 DEF WriteManifest
<1>2. (MemoryType /\ CommitType /\ CountType)'
  BY BoundsAreNumbers DEF WriteManifest, OverlayInv, TypeOK, MemoryType, CommitType, CountType, Status
<1>3. OnlyCommit(s) /\ (held'[s] \subseteq held[s] \/ (LocksApart)')
  BY DEF WriteManifest, OnlyCommit, OverlayInv, TypeOK, CommitType, DiskType, SessionInv
<1>4. SessionInv(s)'
  <2>1. CASE snap' = [snap EXCEPT ![s].phase = "committing"] /\ pc' = [pc EXCEPT ![s] = "tmp"]
    <3>1. snap'[s].orig = snap[s].orig /\ snap'[s].phase = "committing"
      BY <2>1, PhaseUpdate DEF OverlayInv, TypeOK
    <3>2. UNCHANGED <<files, held, renamed, original, edits, disk>>
      BY <2>1 DEF WriteManifest, OverlayInv, TypeOK, CommitType
    <3> QED BY <2>1, <3>1, <3>2 DEF WriteManifest, OverlayInv, TypeOK, CommitType, SessionInv,
     Checked, Undoing, Journalled, AsCaptured, Copied, CountType
  <2>2. CASE pc' = [pc EXCEPT ![s] = "idle"]
    BY <2>2 DEF WriteManifest, OverlayInv, TypeOK, CommitType, SessionInv,
     Checked, Undoing, Journalled, AsCaptured, Copied, CountType
  <2> QED BY <2>1, <2>2 DEF WriteManifest
<1> QED BY <1>1, <1>2, <1>3, <1>4, CommitFrame DEF WriteManifest, TypeOK

(* Writing a temporary file changes no file of the project.                *)
LEMMA WriteTmpInv ==
  ASSUME OverlayInv, NEW s \in Session, WriteTmp(s) PROVE OverlayInv'
<1> USE DEF GoTo, Return, Fault, NoFault, Steps, memory, commit, counts
<1>1. (DiskType /\ snap \in [Session -> Snapshot])'
  <2>1. \A f \in files[s] : f \in File /\ edits[s][f] \in Text
    <3>1. edits[s] \in Partial /\ files[s] \subseteq DOMAIN edits[s] /\ files[s] \subseteq File
      BY DEF WriteTmp, OverlayInv, TypeOK, MemoryType, CommitType, SessionInv
    <3> QED BY <3>1, PartialMember
  <2> QED BY <2>1 DEF WriteTmp, OverlayInv, TypeOK, DiskType
<1>2. (MemoryType /\ CommitType /\ CountType)'
  BY BoundsAreNumbers DEF WriteTmp, OverlayInv, TypeOK, MemoryType, CommitType, CountType, Status
<1>3. OnlyCommit(s) /\ (held'[s] \subseteq held[s] \/ (LocksApart)')
  BY DEF WriteTmp, OnlyCommit, OverlayInv, TypeOK, CommitType, DiskType, SessionInv
<1>4. SessionInv(s)'
  BY SMTT(40) DEF WriteTmp, OverlayInv, TypeOK, CommitType, SessionInv,
     Checked, Undoing, Journalled, AsCaptured, Copied, CountType
<1> QED BY <1>1, <1>2, <1>3, <1>4, CommitFrame DEF WriteTmp, TypeOK

(* A rename replaces a file of the commit that is still as captured.       *)
LEMMA RenameInv ==
  ASSUME OverlayInv, NEW s \in Session, Rename(s) PROVE OverlayInv'
<1> USE DEF GoTo, Return, Fault, NoFault, Steps, memory, commit, counts
<1>1. (DiskType /\ snap \in [Session -> Snapshot])'
  BY DEF Rename, OverlayInv, TypeOK, DiskType, CommitType, SessionInv
<1>2. (MemoryType /\ CommitType /\ CountType)'
  BY BoundsAreNumbers DEF Rename, OverlayInv, TypeOK, MemoryType, CommitType, CountType, Status, SessionInv
<1>3. OnlyCommit(s) /\ (held'[s] \subseteq held[s] \/ (LocksApart)')
  BY DEF Rename, OnlyCommit, OverlayInv, TypeOK, CommitType, DiskType, SessionInv
<1>4. SessionInv(s)'
  <2>1. /\ pc[s] = "rename" /\ SessionInv(s) /\ at[s] \in File /\ faults \in Nat
        /\ renamed \in [Session -> SUBSET File] /\ disk \in [File -> Text \cup {Absent}]
    BY BoundsAreNumbers DEF Rename, OverlayInv, TypeOK, CommitType, DiskType, SessionInv, CountType
  <2>2. UNCHANGED <<edits, original, snap, files, held, at>>
    BY DEF Rename
  <2>3. pc \in [Session -> Steps \cup {"idle"}]
    BY DEF OverlayInv, TypeOK, CommitType
  <2>4. CASE NoFault /\ GoTo(s, "mark") /\ disk' = [disk EXCEPT ![at[s]] = tmp[at[s]]]
             /\ renamed' = [renamed EXCEPT ![s] = @ \cup {at[s]}]
    <3>1. pc'[s] = "mark" /\ renamed'[s] = renamed[s] \cup {at[s]}
      BY <2>1, <2>3, <2>4
    <3>2. \A f \in File : f # at[s] => disk'[f] = disk[f]
      BY <2>1, <2>4
    <3>3. AsCaptured(s)'
      <4>1. AsCaptured(s) /\ files[s] \subseteq File
        BY <2>1 DEF SessionInv, Checked, OverlayInv, TypeOK, CommitType
      <4> QED BY <2>2, <3>1, <3>2, <4>1 DEF AsCaptured
    <3>4. Copied(s)'
      BY <2>1, <2>2 DEF SessionInv, Journalled, Copied
    <3> QED BY <2>1, <2>2, <3>1, <3>3, <3>4 DEF SessionInv, Checked, Undoing, Journalled
  <2>5. CASE Fault /\ GoTo(s, "restore") /\ UNCHANGED <<disk, renamed>>
    <3>1. pc'[s] = "restore" /\ faults' = faults + 1
      BY <2>3, <2>5
    <3>2. AsCaptured(s)' /\ Copied(s)'
      BY <2>1, <2>2, <2>5 DEF SessionInv, Checked, Journalled, AsCaptured, Copied
    <3> QED BY <2>1, <2>2, <3>1, <3>2 DEF SessionInv, Checked, Undoing, Journalled
  <2> QED BY <2>4, <2>5 DEF Rename
<1> QED BY <1>1, <1>2, <1>3, <1>4, CommitFrame DEF Rename, TypeOK

(* Rewriting the manifest keeps the originals.                             *)
LEMMA MarkRenamedInv ==
  ASSUME OverlayInv, NEW s \in Session, MarkRenamed(s) PROVE OverlayInv'
<1> USE DEF GoTo, Return, Fault, NoFault, Steps, memory, commit, counts
<1>0. /\ snap' \in [Session -> Snapshot]
      /\ snap'[s].orig = snap[s].orig /\ snap'[s].phase = snap[s].phase
  BY MarkUpdate DEF MarkRenamed, OverlayInv, TypeOK, CommitType
<1>1. (DiskType /\ snap \in [Session -> Snapshot])'
  BY <1>0 DEF MarkRenamed, OverlayInv, TypeOK, DiskType
<1>2. (MemoryType /\ CommitType /\ CountType)'
  BY BoundsAreNumbers DEF MarkRenamed, OverlayInv, TypeOK, MemoryType, CommitType, CountType, Status
<1>3. OnlyCommit(s) /\ (held'[s] \subseteq held[s] \/ (LocksApart)')
  BY DEF MarkRenamed, OnlyCommit, OverlayInv, TypeOK, CommitType, DiskType, SessionInv
<1>4. SessionInv(s)'
  BY <1>0 DEF MarkRenamed, OverlayInv, TypeOK, CommitType, SessionInv,
     Checked, Undoing, Journalled, AsCaptured, Copied, CountType
<1> QED BY <1>1, <1>2, <1>3, <1>4, CommitFrame DEF MarkRenamed, TypeOK

(* The last manifest ends the commit.                                      *)
LEMMA MarkCommittedInv ==
  ASSUME OverlayInv, NEW s \in Session, MarkCommitted(s) PROVE OverlayInv'
<1> USE DEF GoTo, Return, Fault, NoFault, Steps, memory, commit, counts
<1>1. (DiskType /\ snap \in [Session -> Snapshot])'
  BY SMTT(20) DEF MarkCommitted, OverlayInv, TypeOK, DiskType, CommitType, Snapshot
<1>2. (MemoryType /\ CommitType /\ CountType)'
  BY BoundsAreNumbers DEF MarkCommitted, OverlayInv, TypeOK, MemoryType, CommitType, CountType, Status
<1>3. OnlyCommit(s) /\ (held'[s] \subseteq held[s] \/ (LocksApart)')
  BY DEF MarkCommitted, OnlyCommit, OverlayInv, TypeOK, CommitType, DiskType, SessionInv
<1>4. SessionInv(s)'
  BY DEF MarkCommitted, OverlayInv, TypeOK, CommitType, SessionInv,
     Checked, Undoing, Journalled, AsCaptured, CountType
<1> QED BY <1>1, <1>2, <1>3, <1>4, CommitFrame DEF MarkCommitted, TypeOK

(* Each restored file is as captured again, unless a second operation      *)
(* fails.                                                                  *)
LEMMA RestoreInv ==
  ASSUME OverlayInv, NEW s \in Session, Restore(s) PROVE OverlayInv'
<1> USE DEF GoTo, Return, Fault, NoFault, Steps, memory, commit, counts
<1>0. \A f \in renamed[s] : /\ f \in files[s] /\ f \in File
                             /\ snap[s].orig[f] = original[s][f]
                             /\ original[s][f] \in Text
  <2>1. /\ original[s] \in Partial /\ files[s] \subseteq DOMAIN original[s]
        /\ renamed[s] \subseteq files[s] /\ files[s] \subseteq File /\ Copied(s)
    BY DEF Restore, OverlayInv, TypeOK, MemoryType, CommitType, SessionInv, Journalled
  <2> QED BY <2>1, PartialMember DEF Copied
<1>1. (DiskType /\ snap \in [Session -> Snapshot])'
  BY <1>0 DEF Restore, OverlayInv, TypeOK, DiskType
<1>2. (MemoryType /\ CommitType /\ CountType)'
  BY BoundsAreNumbers DEF Restore, OverlayInv, TypeOK, MemoryType, CommitType, CountType, Status
<1>3. OnlyCommit(s) /\ (held'[s] \subseteq held[s] \/ (LocksApart)')
  BY SMTT(40) DEF Restore, OnlyCommit, OverlayInv, TypeOK, CommitType, DiskType, SessionInv
<1>4. SessionInv(s)'
  <2>1. CASE renamed[s] = {} /\ pc' = [pc EXCEPT ![s] = "discard"] /\ UNCHANGED <<disk, renamed, faults>>
    BY <2>1 DEF Restore, OverlayInv, TypeOK, CommitType, SessionInv,
     Checked, Undoing, Journalled, AsCaptured, Copied, CountType
  <2>2. ASSUME NEW f \in renamed[s], UNCHANGED pc,
               renamed' = [renamed EXCEPT ![s] = @ \ {f}],
               \/ faults' = faults /\ disk' = [disk EXCEPT ![f] = snap[s].orig[f]]
               \/ faults' = faults + 1 /\ UNCHANGED disk
        PROVE  SessionInv(s)'
    <3>1. pc[s] = "restore" /\ faults \in Nat /\ faults # 0 /\ (faults = 1 => AsCaptured(s))
      BY DEF Restore, OverlayInv, TypeOK, CountType, SessionInv, Undoing
    <3>2. faults' # 0 /\ (faults' = 1 => faults = 1 /\ disk' = [disk EXCEPT ![f] = snap[s].orig[f]])
      BY <2>2, <3>1
    <3>3. faults' = 1 => AsCaptured(s)'
      <4>1. original[s][f] # Absent
        BY <1>0 DEF Text, Absent, Empty, Old, Staged
      <4> QED BY SMTT(40), <1>0, <2>2, <3>1, <3>2, <4>1
          DEF AsCaptured, ReadFile, Restore, OverlayInv, TypeOK, DiskType, CommitType
    <3> QED BY <2>2, <3>1, <3>2, <3>3 DEF Restore, OverlayInv, TypeOK, CommitType, SessionInv,
               Checked, Undoing, Journalled, Copied
  <2> QED BY <2>1, <2>2 DEF Restore
<1> QED BY <1>1, <1>2, <1>3, <1>4, CommitFrame DEF Restore, TypeOK

(* The error return gives the mutexes back.                                *)
LEMMA DiscardInv ==
  ASSUME OverlayInv, NEW s \in Session, Discard(s) PROVE OverlayInv'
<1> USE DEF GoTo, Return, Fault, NoFault, Steps, memory, commit, counts
<1>1. (DiskType /\ snap \in [Session -> Snapshot])'
  BY NoDirType, PartialMember DEF Discard, OverlayInv, TypeOK, DiskType, CommitType, MemoryType, SessionInv, Journalled, Copied
<1>2. (MemoryType /\ CommitType /\ CountType)'
  BY BoundsAreNumbers DEF Discard, OverlayInv, TypeOK, MemoryType, CommitType, CountType, Status
<1>3. OnlyCommit(s) /\ (held'[s] \subseteq held[s] \/ (LocksApart)')
  BY DEF Discard, OnlyCommit, OverlayInv, TypeOK, CommitType, DiskType, SessionInv, LocksApart, Free
<1>4. SessionInv(s)'
  <2>1. pc'[s] = "idle" /\ held'[s] = {} /\ renamed'[s] = {} /\ UNCHANGED <<edits, original>>
    BY DEF Discard, OverlayInv, TypeOK, CommitType
  <2>2. DOMAIN edits[s] \subseteq DOMAIN original[s]
    BY DEF OverlayInv, SessionInv
  <2> QED BY <2>1, <2>2 DEF SessionInv, Checked, Undoing, Journalled
<1> QED BY <1>1, <1>2, <1>3, <1>4, CommitFrame DEF Discard, TypeOK

(* Removing the snapshot of a finished commit.                             *)
LEMMA RemoveSnapshotInv ==
  ASSUME OverlayInv, NEW s \in Session, RemoveSnapshot(s) PROVE OverlayInv'
<1> USE DEF GoTo, Return, Fault, NoFault, Steps, memory, commit, counts
<1>1. (DiskType /\ snap \in [Session -> Snapshot])'
  BY NoDirType, PartialMember DEF RemoveSnapshot, OverlayInv, TypeOK, DiskType, CommitType, MemoryType, SessionInv, Journalled, Copied
<1>2. (MemoryType /\ CommitType /\ CountType)'
  BY BoundsAreNumbers DEF RemoveSnapshot, OverlayInv, TypeOK, MemoryType, CommitType, CountType, Status
<1>3. OnlyCommit(s) /\ (held'[s] \subseteq held[s] \/ (LocksApart)')
  BY DEF RemoveSnapshot, OnlyCommit, OverlayInv, TypeOK, CommitType, DiskType, SessionInv, LocksApart, Free
<1>4. SessionInv(s)'
  BY DEF RemoveSnapshot, OverlayInv, TypeOK, CommitType, DiskType, SessionInv, Checked, Undoing, Journalled, AsCaptured, Copied, CountType
<1> QED BY <1>1, <1>2, <1>3, <1>4, CommitFrame DEF RemoveSnapshot, TypeOK

(* The success return gives the mutexes back.                              *)
LEMMA AcknowledgeInv ==
  ASSUME OverlayInv, NEW s \in Session, Acknowledge(s) PROVE OverlayInv'
<1> USE DEF GoTo, Return, Fault, NoFault, Steps, memory, commit, counts
<1>1. (DiskType /\ snap \in [Session -> Snapshot])'
  BY NoDirType, PartialMember DEF Acknowledge, OverlayInv, TypeOK, DiskType, CommitType, MemoryType, SessionInv, Journalled, Copied
<1>2. (MemoryType /\ CommitType /\ CountType)'
  BY BoundsAreNumbers DEF Acknowledge, OverlayInv, TypeOK, MemoryType, CommitType, CountType, Status
<1>3. OnlyCommit(s) /\ (held'[s] \subseteq held[s] \/ (LocksApart)')
  <2>1. pc \in [Session -> Steps \cup {"idle"}] /\ at \in [Session -> File \cup {0}]
    BY DEF OverlayInv, TypeOK, CommitType
  <2>2. /\ files \in [Session -> SUBSET File] /\ held \in [Session -> SUBSET File]
        /\ renamed \in [Session -> SUBSET File]
    BY DEF OverlayInv, TypeOK, CommitType
  <2> QED BY <2>1, <2>2 DEF Acknowledge, OnlyCommit
<1>4. SessionInv(s)'
  <2>1. pc'[s] = "idle" /\ held'[s] = {} /\ renamed'[s] = {} /\ UNCHANGED <<edits, original>>
    BY DEF Acknowledge, OverlayInv, TypeOK, CommitType
  <2>2. DOMAIN edits[s] \subseteq DOMAIN original[s]
    BY DEF OverlayInv, SessionInv
  <2> QED BY <2>1, <2>2 DEF SessionInv, Checked, Undoing, Journalled
<1> QED BY <1>1, <1>2, <1>3, <1>4, CommitFrame DEF Acknowledge, TypeOK

-----------------------------------------------------------------------------

(* A step that moves no commit: Begin, Validate and Rollback.              *)
LEMMA HostFrame ==
  ASSUME OverlayInv, NEW s \in Session, Begin(s) \/ Validate(s) \/ Rollback(s)
  PROVE  OverlayInv'
<1> USE DEF Idle, memory, commit, counts
<1>1. DiskType' /\ CountType' /\ CommitType' /\ (snap \in [Session -> Snapshot])'
  BY NoDirType DEF Begin, Validate, Rollback, OverlayInv, TypeOK, DiskType, CountType, CommitType
<1>2. MemoryType'
  BY NoDirType DEF Begin, Validate, Rollback, OverlayInv, TypeOK, MemoryType, Status
<1>3. LocksApart' /\ RecoveryAlone' /\ RecoveryCopied'
  BY DEF Begin, Validate, Rollback, Serving, OverlayInv, LocksApart, RecoveryAlone, RecoveryCopied
<1>4. ASSUME NEW t \in Session PROVE SessionInv(t)'
  <2>1. UNCHANGED <<disk, original, pc, files, held, renamed, at, faults>>
        /\ (t # s => snap'[t] = snap[t] /\ edits'[t] = edits[t])
        /\ (edits' = edits \/ edits'[s] = Nothing) /\ pc[s] = "idle"
    BY DEF Begin, Validate, Rollback, OverlayInv, TypeOK, MemoryType
  <2>2. SessionInv(t)
    BY DEF OverlayInv
  <2>3. CASE t # s
    <3>1. AsCaptured(t)' = AsCaptured(t) /\ Copied(t)' = Copied(t)
      BY <2>1, <2>3 DEF AsCaptured, Copied
    <3> QED BY <2>1, <2>2, <2>3, <3>1 DEF SessionInv
  <2>4. CASE t = s
    <3>1. DOMAIN edits'[s] \subseteq DOMAIN original'[s]
      BY <2>1, <2>2, <2>4 DEF SessionInv, Nothing
    <3> QED BY <2>1, <2>2, <2>4, <3>1 DEF SessionInv, Checked, Undoing, Journalled
  <2> QED BY <2>3, <2>4
<1> QED BY <1>1, <1>2, <1>3, <1>4 DEF OverlayInv, TypeOK

(* Staging more content for a file keeps both maps well formed.            *)
LEMMA PutPartial ==
  ASSUME NEW fn \in Partial, NEW f \in File, NEW c \in Text
  PROVE  Put(fn, f, c) \in Partial /\ DOMAIN Put(fn, f, c) = DOMAIN fn \cup {f}
BY PartialMember DEF Put

(* WriteFile captures the original of every file it stages.                *)
LEMMA WriteFileInv ==
  ASSUME OverlayInv, NEW s \in Session, NEW f \in File, WriteFile(s, f) PROVE OverlayInv'
<1> USE DEF Idle, commit
<1>1. versions'[s] \in 1..MaxVersions /\ versions' \in [Session -> 0..MaxVersions]
  <2>1. /\ versions \in [Session -> 0..MaxVersions] /\ versions[s] < MaxVersions
        /\ versions' = [versions EXCEPT ![s] = versions[s] + 1]
    BY DEF WriteFile, OverlayInv, TypeOK, MemoryType
  <2>2. versions[s] + 1 \in 1..MaxVersions
    BY <2>1, BoundsAreNumbers
  <2> QED BY <2>1, <2>2
<1>2. <<s, versions'[s]>> \in Text /\ ReadFile(disk[f]) \in Text
  BY <1>1 DEF Text, Staged, ReadFile, OverlayInv, TypeOK, DiskType
<1>3. edits[s] \in Partial /\ original[s] \in Partial /\ DOMAIN edits[s] \subseteq DOMAIN original[s]
  BY DEF OverlayInv, TypeOK, MemoryType, SessionInv
<1>4. /\ edits'[s] \in Partial /\ original'[s] \in Partial
      /\ DOMAIN edits'[s] \subseteq DOMAIN original'[s]
  <2>1. edits'[s] = Put(edits[s], f, <<s, versions'[s]>>)
        /\ original'[s] = IF f \in DOMAIN original[s] THEN original[s]
                          ELSE Put(original[s], f, ReadFile(disk[f]))
    BY DEF WriteFile, OverlayInv, TypeOK, MemoryType
  <2>2. edits'[s] \in Partial /\ DOMAIN edits'[s] = DOMAIN edits[s] \cup {f}
    <3> DEFINE put == Put(edits[s], f, <<s, versions'[s]>>)
    <3>1. put \in Partial /\ DOMAIN put = DOMAIN edits[s] \cup {f}
      BY <1>2, <1>3, PutPartial
    <3> HIDE DEF put
    <3>2. edits'[s] = put
      BY <2>1 DEF put
    <3> QED BY <3>1, <3>2
  <2>3. original'[s] \in Partial /\ DOMAIN original'[s] = DOMAIN original[s] \cup {f}
    <3>1. CASE f \in DOMAIN original[s]
      BY <1>3, <2>1, <3>1
    <3>2. CASE f \notin DOMAIN original[s]
      <4>1. original'[s] = Put(original[s], f, ReadFile(disk[f]))
        BY <2>1, <3>2
      <4> QED BY <1>2, <1>3, <4>1, PutPartial
    <3> QED BY <3>1, <3>2
  <2> QED BY <1>3, <2>2, <2>3
<1>5. \A t \in Session \ {s} : edits'[t] = edits[t] /\ original'[t] = original[t]
  BY DEF WriteFile, OverlayInv, TypeOK, MemoryType
<1>6. TypeOK'
  <2>1. edits' \in [Session -> Partial] /\ original' \in [Session -> Partial]
    <3>1. \A t \in Session : edits'[t] \in Partial /\ original'[t] \in Partial
      BY <1>4, <1>5 DEF OverlayInv, TypeOK, MemoryType
    <3>2. /\ edits' = [t \in Session |-> edits'[t]]
          /\ original' = [t \in Session |-> original'[t]]
      BY DEF WriteFile, OverlayInv, TypeOK, MemoryType
    <3> QED BY <3>1, <3>2
  <2> QED BY <1>1, <2>1 DEF WriteFile, OverlayInv, TypeOK, MemoryType, DiskType, CommitType, CountType
<1>7. LocksApart' /\ RecoveryAlone' /\ RecoveryCopied'
  BY DEF WriteFile, Serving, OverlayInv, LocksApart, RecoveryAlone, RecoveryCopied
<1>8. ASSUME NEW t \in Session PROVE SessionInv(t)'
  <2>1. UNCHANGED <<disk, snap, pc, files, held, renamed, at, faults>> /\ pc[s] = "idle"
    BY DEF WriteFile
  <2>2. CASE t = s
    BY <1>4, <2>1, <2>2 DEF OverlayInv, SessionInv, Checked, Undoing, Journalled
  <2>3. CASE t # s
    <3>1. (AsCaptured(t)' <=> AsCaptured(t)) /\ (Copied(t)' <=> Copied(t))
      BY <1>5, <2>1, <2>3 DEF AsCaptured, Copied
    <3>2. SessionInv(t)
      BY DEF OverlayInv
    <3> QED BY <1>5, <2>1, <2>3, <3>1, <3>2 DEF SessionInv, Journalled
  <2> QED BY <2>2, <2>3
<1> QED BY <1>6, <1>7, <1>8 DEF OverlayInv

(* Commit collects staged files and holds none yet.                        *)
LEMMA CommitBeginInv ==
  ASSUME OverlayInv, NEW s \in Session, CommitBegin(s) PROVE OverlayInv'
<1> USE DEF Idle, Serving, memory, counts
<1>1. DOMAIN edits[s] \subseteq File /\ held[s] = {} /\ renamed[s] = {}
  BY PartialMember DEF CommitBegin, OverlayInv, TypeOK, MemoryType, SessionInv
<1>2. TypeOK'
  BY <1>1 DEF CommitBegin, OverlayInv, TypeOK, DiskType, MemoryType, CommitType, CountType, Steps
<1>3. LocksApart' /\ RecoveryAlone' /\ RecoveryCopied'
  BY DEF CommitBegin, OverlayInv, LocksApart, RecoveryAlone, RecoveryCopied
<1>4. ASSUME NEW t \in Session PROVE SessionInv(t)'
  <2>1. UNCHANGED <<disk, snap, edits, original, held, renamed, at, faults>>
    BY DEF CommitBegin
  <2>2. CASE t = s
    <3>1. pc'[s] = "lock" /\ files'[s] = DOMAIN edits[s] /\ DOMAIN edits[s] \subseteq DOMAIN original[s]
      BY DEF CommitBegin, OverlayInv, TypeOK, CommitType, SessionInv
    <3> QED BY <2>1, <2>2, <3>1 DEF SessionInv, Checked, Undoing, Journalled
  <2>3. CASE t # s
    <3>1. pc'[t] = pc[t] /\ files'[t] = files[t] /\ SessionInv(t)
      BY <2>3 DEF CommitBegin, OverlayInv, TypeOK, CommitType
    <3>2. (AsCaptured(t)' <=> AsCaptured(t)) /\ (Copied(t)' <=> Copied(t))
      BY <2>1, <3>1 DEF AsCaptured, Copied
    <3> QED BY <2>1, <3>1, <3>2 DEF SessionInv
  <2> QED BY <2>2, <2>3
<1> QED BY <1>2, <1>3, <1>4 DEF OverlayInv

-----------------------------------------------------------------------------

(* A crash releases everything and leaves the directories to recovery.     *)
LEMMA CrashInv ==
  ASSUME OverlayInv, Crash PROVE OverlayInv'
<1>1. \A s \in Session : snap[s].orig \in Partial /\ DOMAIN snap[s].orig \subseteq File
  BY PartialMember DEF OverlayInv, TypeOK, Snapshot
<1>2. TypeOK'
  <2>1. DiskType' /\ (snap \in [Session -> Snapshot])'
    BY DEF Crash, OverlayInv, TypeOK, DiskType
  <2>2. MemoryType'
    BY DEF Crash, OverlayInv, TypeOK, MemoryType, Status
  <2>3. CommitType'
    BY <1>1 DEF Crash, CommitType
  <2>4. CountType'
    BY BoundsAreNumbers DEF Crash, OverlayInv, TypeOK, CountType
  <2> QED BY <2>1, <2>2, <2>3, <2>4 DEF TypeOK
<1>3. LocksApart' /\ RecoveryAlone' /\ RecoveryCopied'
  BY DEF Crash, OverlayInv, TypeOK, LocksApart, RecoveryAlone, RecoveryCopied
<1>4. ASSUME NEW t \in Session PROVE SessionInv(t)'
  BY DEF Crash, OverlayInv, SessionInv, Checked, Undoing, Journalled
<1> QED BY <1>2, <1>3, <1>4 DEF OverlayInv

(* Recovery runs before any commit; it restores what the copies hold.      *)
LEMMA RecoverEntryInv ==
  ASSUME OverlayInv, NEW s \in Session, RecoverEntry(s) PROVE OverlayInv'
<1> USE DEF memory
<1>1. PICK f \in files[s] :
        /\ files' = [files EXCEPT ![s] = @ \ {f}] /\ tmp' = [tmp EXCEPT ![f] = Absent]
        /\ \/ NoFault /\ disk' = [disk EXCEPT ![f] =
                            IF ReadFile(@) = snap[s].orig[f] THEN @ ELSE snap[s].orig[f]]
           \/ Fault /\ UNCHANGED disk
  BY DEF RecoverEntry
<1>2. f \in File /\ snap[s].orig[f] \in Text
  <2>1. snap[s].orig \in Partial /\ f \in DOMAIN snap[s].orig
    BY DEF RecoveryCopied, RecoverEntry, OverlayInv, TypeOK, Snapshot
  <2> QED BY <2>1, PartialMember
<1>3. renamed[s] = {} /\ \A t \in Session : pc[t] = "idle" /\ held[t] = {}
  BY DEF RecoverEntry, OverlayInv, RecoveryAlone, SessionInv, RecoveryCopied
<1>4. DiskType'
  BY <1>1, <1>2 DEF OverlayInv, TypeOK, DiskType
<1>5. TypeOK'
  BY SMTT(40), <1>1, <1>3, <1>4, BoundsAreNumbers
  DEF RecoverEntry, NoFault, Fault, OverlayInv, TypeOK, MemoryType, CommitType, CountType
<1>6. LocksApart' /\ RecoveryAlone' /\ RecoveryCopied'
  BY <1>1, <1>3 DEF RecoverEntry, OverlayInv, TypeOK, CommitType, LocksApart, RecoveryAlone, RecoveryCopied
<1>7. ASSUME NEW t \in Session PROVE SessionInv(t)'
  BY <1>3 DEF RecoverEntry, OverlayInv, SessionInv, Checked, Undoing, Journalled
<1> QED BY <1>5, <1>6, <1>7 DEF OverlayInv

(* Recovery removes a directory it has dealt with.                         *)
LEMMA RecoverDoneInv ==
  ASSUME OverlayInv, NEW s \in Session, RecoverDone(s) PROVE OverlayInv'
<1> USE DEF memory, commit, counts
<1>1. \A t \in Session : pc[t] = "idle"
  BY DEF RecoverDone, OverlayInv, RecoveryAlone
<1>2. TypeOK'
  BY NoDirType DEF RecoverDone, OverlayInv, TypeOK, DiskType, MemoryType, CommitType, CountType
<1>3. LocksApart' /\ RecoveryAlone' /\ RecoveryCopied'
  BY <1>1 DEF RecoverDone, OverlayInv, TypeOK, CommitType, LocksApart, RecoveryAlone, RecoveryCopied
<1>4. ASSUME NEW t \in Session PROVE SessionInv(t)'
  BY <1>1 DEF RecoverDone, OverlayInv, SessionInv, Checked, Undoing, Journalled
<1> QED BY <1>2, <1>3, <1>4 DEF OverlayInv

(* An outside edit keeps away from locked files, so it leaves every commit *)
(* its captured files.                                                     *)
LEMMA ExternalEditInv ==
  ASSUME OverlayInv, NEW f \in File, ExternalEdit(f) PROVE OverlayInv'
<1> USE DEF memory, commit
<1>1. externals' \in 1..MaxExternal
  BY BoundsAreNumbers DEF ExternalEdit, OverlayInv, TypeOK, CountType
<1>2. <<External, externals'>> \in Text
  BY <1>1 DEF Text
<1>3. TypeOK'
  BY <1>1, <1>2 DEF ExternalEdit, OverlayInv, TypeOK, DiskType, MemoryType, CommitType, CountType
<1>4. LocksApart' /\ RecoveryAlone' /\ RecoveryCopied'
  BY DEF ExternalEdit, OverlayInv, LocksApart, RecoveryAlone, RecoveryCopied
<1>5. ASSUME NEW t \in Session PROVE SessionInv(t)'
  <2>1. pc[t] \notin {"idle", "lock"} => (AsCaptured(t)' <=> AsCaptured(t))
    <3>1. SUFFICES ASSUME pc[t] \notin {"idle", "lock"} PROVE AsCaptured(t)' <=> AsCaptured(t)
      OBVIOUS
    <3>2. f \notin files[t]
      BY <3>1 DEF ExternalEdit, Free, OverlayInv, SessionInv
    <3>3. files[t] \subseteq File
      BY DEF OverlayInv, TypeOK, CommitType
    <3>4. \A x \in File \ {f} : disk'[x] = disk[x]
      BY DEF ExternalEdit, OverlayInv, TypeOK, DiskType
    <3> QED BY <3>2, <3>3, <3>4 DEF ExternalEdit, AsCaptured
  <2> QED BY <2>1 DEF ExternalEdit, OverlayInv, SessionInv, Copied, Checked, Undoing, Journalled
<1> QED BY <1>3, <1>4, <1>5 DEF OverlayInv

-----------------------------------------------------------------------------

(* Every step of Commit keeps the invariant.                               *)
LEMMA CommitInv ==
  ASSUME OverlayInv, NEW s \in Session, Commit(s) PROVE OverlayInv'
BY lockFilesInv, ConflictCheckInv, WriteSnapshotInv, WriteManifestInv, WriteTmpInv, RenameInv,
   MarkRenamedInv, MarkCommittedInv, RestoreInv, DiscardInv, RemoveSnapshotInv, AcknowledgeInv
   DEF Commit

(* Every step keeps the invariant.                                         *)
LEMMA NextInv ==
  ASSUME OverlayInv, [Next]_vars PROVE OverlayInv'
<1>1. CASE Next
  BY <1>1, CommitInv, HostFrame, WriteFileInv, CommitBeginInv, RecoverEntryInv, RecoverDoneInv,
     CrashInv, ExternalEditInv DEF Next, Host, recoverAll
<1>2. CASE UNCHANGED vars
  <2> USE DEF vars, memory, commit, counts
  <2>1. TypeOK'
    BY <1>2 DEF OverlayInv, TypeOK, DiskType, MemoryType, CommitType, CountType
  <2>2. LocksApart' /\ RecoveryAlone' /\ RecoveryCopied'
    BY <1>2 DEF OverlayInv, LocksApart, RecoveryAlone, RecoveryCopied
  <2>3. ASSUME NEW s \in Session PROVE SessionInv(s)'
    <3>1. AsCaptured(s)' = AsCaptured(s) /\ Copied(s)' = Copied(s)
      BY <1>2 DEF AsCaptured, Copied
    <3> QED BY <1>2, <3>1 DEF OverlayInv, SessionInv
  <2> QED BY <2>1, <2>2, <2>3 DEF OverlayInv
<1> QED BY <1>1, <1>2

(* The invariant holds at the start.                                       *)
LEMMA InitInv == Init => OverlayInv
<1> SUFFICES ASSUME Init PROVE OverlayInv
  OBVIOUS
<1>1. DiskType
  BY DEF Init, DiskType, Text
<1>2. MemoryType /\ snap \in [Session -> Snapshot]
  BY NoDirType, BoundsAreNumbers DEF Init, MemoryType, Status
<1>3. CommitType /\ CountType
  BY BoundsAreNumbers DEF Init, CommitType, CountType
<1>4. LocksApart /\ RecoveryAlone /\ RecoveryCopied /\ \A s \in Session : SessionInv(s)
  BY DEF Init, LocksApart, RecoveryAlone, RecoveryCopied, SessionInv, Checked, Undoing, Journalled
<1> QED BY <1>1, <1>2, <1>3, <1>4 DEF OverlayInv, TypeOK

(* The inductive invariant of the edit sessions.                           *)
THEOREM OverlayInvariant == Spec => []OverlayInv
BY InitInv, NextInv, PTL DEF Spec

(* The state of sessions, files and snapshot directories is well formed.   *)
THEOREM OverlayTypeOK == Spec => []TypeOK
<1>1. OverlayInv => TypeOK
  BY DEF OverlayInv
<1> QED BY <1>1, OverlayInvariant, PTL

(* While Commit changes files, the originals lie in a snapshot directory   *)
(* that recovery reads, however commits, failures and crashes interleave.  *)
THEOREM OverlayWriteAhead == Spec => []WriteAhead
<1>1. OverlayInv => WriteAhead
  BY DEF OverlayInv, SessionInv, WriteAhead, Journalled, Copied
<1> QED BY <1>1, OverlayInvariant, PTL

(* A Commit stopped by the only failing file operation has put back every  *)
(* file before it returns (restoreFromManifest).                           *)
THEOREM OverlayFailedCommitRestores == Spec => []FailedCommitRestores
<1>1. OverlayInv => FailedCommitRestores
  BY DEF OverlayInv, SessionInv, FailedCommitRestores, Undoing, AsCaptured
<1> QED BY <1>1, OverlayInvariant, PTL

(* Only Rename adds to the renamed files, and only the file at hand.       *)
LEMMA OnlyRename ==
  ASSUME OverlayInv, Next, NEW s \in Session, NEW f \in renamed'[s] \ renamed[s]
  PROVE  Rename(s) /\ f = at[s]
<1> USE DEF GoTo, Return, commit, OverlayInv, TypeOK, CommitType
<1>1. ASSUME NEW t \in Session, Commit(t) PROVE Rename(s) /\ f = at[s]
  <2>1. CASE Rename(t)
    <3>1. renamed' = renamed \/ renamed' = [renamed EXCEPT ![t] = @ \cup {at[t]}]
      BY <2>1 DEF Rename
    <3>2. s = t /\ f = at[t]
      BY <3>1
    <3> QED BY <2>1, <3>2
  <2>2. CASE Restore(t)
    BY <2>2 DEF Restore
  <2>3. CASE lockFiles(t) \/ ConflictCheck(t) \/ WriteSnapshot(t) \/ WriteManifest(t)
             \/ WriteTmp(t) \/ MarkRenamed(t)
    BY <2>3 DEF lockFiles, ConflictCheck, WriteSnapshot, WriteManifest, WriteTmp, MarkRenamed
  <2>4. CASE MarkCommitted(t) \/ Discard(t) \/ RemoveSnapshot(t) \/ Acknowledge(t)
    BY <2>4 DEF MarkCommitted, Discard, RemoveSnapshot, Acknowledge
  <2> QED BY <1>1, <2>1, <2>2, <2>3, <2>4 DEF Commit
<1>2. ASSUME NEW t \in Session, Host(t) PROVE FALSE
  BY <1>2 DEF Host, Begin, Validate, Rollback, CommitBegin, WriteFile
<1>3. recoverAll => FALSE
  BY DEF recoverAll, RecoverEntry, RecoverDone
<1>4. Crash \/ (\E g \in File : ExternalEdit(g)) => FALSE
  BY DEF Crash, ExternalEdit
<1> QED BY <1>1, <1>2, <1>3, <1>4 DEF Next

(* A rename of Commit replaces exactly the content the session captured:   *)
(* the comparison under the mutexes loses no other commit or outside edit. *)
THEOREM OverlayNoLostUpdate == Spec => NoLostUpdate
<1>1. ASSUME OverlayInv, [Next]_vars, NEW s \in Session, NEW f \in renamed'[s] \ renamed[s]
      PROVE  ReadFile(disk[f]) = original[s][f]
  <2>1. Next
    BY <1>1 DEF vars, commit
  <2>2. Rename(s) /\ f = at[s]
    BY <1>1, <2>1, OnlyRename
  <2> QED BY <1>1, <2>2 DEF Rename, OverlayInv, SessionInv, Checked, AsCaptured
<1>2. OverlayInv /\ [Next]_vars =>
        [\A s \in Session : \A f \in renamed'[s] \ renamed[s] :
           ReadFile(disk[f]) = original[s][f]]_vars
  BY <1>1
<1> QED BY <1>2, OverlayInvariant, PTL DEF Spec, NoLostUpdate

-----------------------------------------------------------------------------
(* Commits under way cannot all be waiting: the one that wants the last of *)
(* the wanted files waits for somebody who, in order, wants a later one.   *)

(* A set of numbers has a least element,                                   *)
LEMMA LeastNat ==
  ASSUME NEW T, T \subseteq Nat, T # {}
  PROVE  \E x \in T : \A y \in T : x <= y
<1> DEFINE R == {ss \in Nat \X Nat : ss[1] < ss[2]}
<1>1. IsWellFoundedOn(R, Nat)
  BY NatLessThanWellFounded, Zenon DEF OpToRel
<1> HIDE DEF R
<1>2. PICK x \in T : \A y \in T : ~ (<<y, x>> \in R)
  BY <1>1, WFMin, Zenon
<1>3. \A y \in T : ~(y < x)
  BY <1>2 DEF R
<1> QED BY <1>3

(* finitely many numbers have a bound,                                     *)
LEMMA SequenceBounded ==
  ASSUME NEW n \in Nat, NEW v \in [1..n -> Nat]
  PROVE  \E b \in Nat : \A j \in 1..n : v[j] <= b
<1> DEFINE Bounded(k) == \E b \in Nat : \A j \in 1..k : v[j] <= b
           C == {k \in 0..n : ~Bounded(k)}
<1>1. C = {}
  <2> SUFFICES ASSUME C # {} PROVE FALSE
    OBVIOUS
  <2>1. C \subseteq Nat
    OBVIOUS
  <2>2. PICK k \in C : \A y \in C : k <= y
    BY <2>1, LeastNat
  <2>3. k \in 0..n /\ ~Bounded(k)
    OBVIOUS
  <2>4. 0 \in Nat /\ \A j \in 1..0 : v[j] <= 0
    OBVIOUS
  <2>5. Bounded(0)
    BY <2>4
  <2> HIDE DEF Bounded
  <2>6. k # 0
    BY <2>3, <2>5
  <2>7. k \in 1..n /\ k - 1 \in 0..n /\ ~(k <= k - 1)
    BY <2>3, <2>6
  <2>8. Bounded(k - 1)
    BY <2>2, <2>7
  <2>9. PICK b \in Nat : \A j \in 1..(k - 1) : v[j] <= b
    BY <2>8 DEF Bounded
  <2> HIDE DEF C
  <2>10. b + v[k] \in Nat /\ \A j \in 1..k : v[j] <= b + v[k]
    BY <2>7, <2>9
  <2> QED BY <2>3, <2>10 DEF Bounded
<1>2. n \in 0..n
  OBVIOUS
<1> QED BY <1>1, <1>2

(* and a number attached to each member of a finite set has a greatest.    *)
LEMMA FiniteMax ==
  ASSUME NEW A, A # {}, IsFiniteSet(A), NEW g \in [A -> Nat]
  PROVE  \E x \in A : \A y \in A : g[y] <= g[x]
<1>1. PICK n \in Nat : ExistsSurjection(1..n, A)
  BY FS_NatSurjection
<1>2. PICK h \in Surjection(1..n, A) : TRUE
  BY <1>1 DEF ExistsSurjection
<1>3. h \in [1..n -> A] /\ \A t \in A : \E k \in 1..n : h[k] = t
  BY <1>2, Zenon DEF Surjection
<1> DEFINE v == [j \in 1..n |-> g[h[j]]]
           U == {b \in Nat : \A a \in A : g[a] <= b}
<1>4. v \in [1..n -> Nat]
  BY <1>3
<1>5. PICK b \in Nat : \A j \in 1..n : v[j] <= b
  BY <1>4, SequenceBounded
<1>6. b \in U
  BY <1>3, <1>5
<1>7. PICK m \in U : \A y \in U : m <= y
  BY <1>6, LeastNat
<1>8. \E x \in A : g[x] = m
  <2> SUFFICES ASSUME \A x \in A : g[x] # m PROVE FALSE
    OBVIOUS
  <2>1. m # 0
    BY <1>7
  <2>2. m - 1 \in U
    BY <1>7, <2>1
  <2> QED BY <1>7, <2>2
<1> QED BY <1>7, <1>8

Active == {s \in Session : pc[s] # "idle"}

(* Mutexes are taken in order, and only finitely many commits are under    *)
(* way.                                                                    *)
HeldInOrder ==
  \A s \in Session : pc[s] = "lock" =>
    \A f \in held[s], g \in files[s] \ held[s] : f < g
LockInv == HeldInOrder /\ IsFiniteSet(Active)

(* A step that begins no commit and takes no mutex.                        *)
LEMMA LockFrame ==
  ASSUME LockInv, \A s \in Session : pc'[s] = pc[s] \/ pc'[s] # "lock",
         \A s \in Session : pc'[s] # "idle" => pc[s] # "idle",
         \A s \in Session : pc'[s] = "lock" => held'[s] = held[s] /\ files'[s] = files[s]
  PROVE  LockInv'
<1>1. HeldInOrder'
  BY DEF LockInv, HeldInOrder
<1>2. Active' \in SUBSET Active
  BY DEF Active
<1>3. IsFiniteSet(Active)
  BY DEF LockInv
<1> HIDE DEF Active
<1> QED BY <1>1, <1>2, <1>3, FS_Subset DEF LockInv

(* A commit begins without mutexes.                                        *)
LEMMA LockCommitBegin ==
  ASSUME OverlayInv, LockInv, NEW s \in Session, CommitBegin(s) PROVE LockInv'
<1>0. /\ pc' = [pc EXCEPT ![s] = "lock"] /\ held' = held /\ pc[s] = "idle"
      /\ files' = [files EXCEPT ![s] = DOMAIN edits[s]]
      /\ pc \in [Session -> Steps \cup {"idle"}] /\ files \in [Session -> SUBSET File]
      /\ held[s] = {}
  BY DEF CommitBegin, Idle, OverlayInv, TypeOK, CommitType, SessionInv
<1>1. HeldInOrder'
  BY <1>0 DEF LockInv, HeldInOrder
<1>2. Active' = Active \cup {s}
  BY <1>0 DEF Active
<1>3. IsFiniteSet(Active)
  BY DEF LockInv
<1> HIDE DEF Active
<1> QED BY <1>1, <1>2, <1>3, FS_AddElement DEF LockInv

(* lockFiles takes the lowest file that is left.                           *)
LEMMA LockLockFiles ==
  ASSUME OverlayInv, LockInv, NEW s \in Session, lockFiles(s) PROVE LockInv'
<1>0. /\ pc \in [Session -> Steps \cup {"idle"}] /\ held \in [Session -> SUBSET File]
      /\ files[s] \subseteq Nat
  BY FilesNumbered DEF OverlayInv, TypeOK, CommitType
<1>1. CASE GoTo(s, "check") /\ UNCHANGED <<held, files>>
  BY <1>0, <1>1, LockFrame DEF GoTo, lockFiles
<1>2. CASE \E f \in Lowest(files[s] \ held[s]) :
             held' = [held EXCEPT ![s] = @ \cup {f}] /\ UNCHANGED <<pc, files>>
  <2>1. PICK f \in files[s] \ held[s] :
          /\ \A g \in files[s] \ held[s] : f <= g
          /\ held' = [held EXCEPT ![s] = @ \cup {f}] /\ UNCHANGED <<pc, files>>
    BY <1>2 DEF Lowest
  <2>2. \A x \in held'[s], g \in files[s] \ held'[s] : x < g
    <3> SUFFICES ASSUME NEW x \in held[s] \cup {f}, NEW g \in files[s] \ (held[s] \cup {f})
                 PROVE  x < g
      BY <1>0, <2>1
    <3>1. CASE x \in held[s]
      BY <3>1 DEF lockFiles, LockInv, HeldInOrder
    <3>2. CASE x = f
      BY <1>0, <2>1, <3>2
    <3> QED BY <3>1, <3>2
  <2>3. HeldInOrder'
    BY <1>0, <2>1, <2>2 DEF LockInv, HeldInOrder
  <2>4. Active' = Active
    BY <2>1 DEF Active
  <2> QED BY <2>3, <2>4 DEF LockInv
<1> QED BY <1>1, <1>2 DEF lockFiles

(* Every step keeps the order.                                             *)
LEMMA NextLock ==
  ASSUME OverlayInv, LockInv, [Next]_vars PROVE LockInv'
<1> USE DEF GoTo, Return, commit
<1>t. /\ pc \in [Session -> Steps \cup {"idle"}] /\ held \in [Session -> SUBSET File]
      /\ files \in [Session -> SUBSET File]
  BY DEF OverlayInv, TypeOK, CommitType
<1>1. ASSUME NEW s \in Session,
             ConflictCheck(s) \/ WriteSnapshot(s) \/ WriteManifest(s) \/ WriteTmp(s)
             \/ Rename(s) \/ MarkRenamed(s)
      PROVE  LockInv'
  BY <1>1, <1>t, LockFrame DEF ConflictCheck, WriteSnapshot, WriteManifest, WriteTmp,
                               Rename, MarkRenamed
<1>2. ASSUME NEW s \in Session,
             MarkCommitted(s) \/ Restore(s) \/ Discard(s) \/ RemoveSnapshot(s) \/ Acknowledge(s)
      PROVE  LockInv'
  BY <1>2, <1>t, LockFrame DEF MarkCommitted, Restore, Discard, RemoveSnapshot, Acknowledge
<1>3. ASSUME NEW s \in Session, Begin(s) \/ Validate(s) \/ Rollback(s) \/ (\E f \in File : WriteFile(s, f))
      PROVE  LockInv'
  BY <1>3, <1>t, LockFrame DEF Begin, Validate, Rollback, WriteFile
<1>4. ASSUME NEW s \in Session, RecoverEntry(s) \/ RecoverDone(s) PROVE LockInv'
  <2>1. \A t \in Session : pc[t] = "idle" /\ pc' = pc
    BY <1>4 DEF RecoverEntry, RecoverDone, OverlayInv, RecoveryAlone
  <2> QED BY <2>1, LockFrame
<1>5. CASE Crash
  BY <1>5, LockFrame DEF Crash
<1>6. CASE \E f \in File : ExternalEdit(f)
  BY <1>6, LockFrame DEF ExternalEdit
<1>7. CASE UNCHANGED vars
  BY <1>7, LockFrame DEF vars
<1> QED BY <1>1, <1>2, <1>3, <1>4, <1>5, <1>6, <1>7, LockCommitBegin, LockLockFiles
        DEF Next, Host, Commit, recoverAll

(* No commit is under way.                                                 *)
LEMMA InitLock == Init => LockInv
<1>1. Init => HeldInOrder /\ Active = {}
  BY DEF Init, HeldInOrder, Active
<1> HIDE DEF Active
<1> QED BY <1>1, FS_EmptySet DEF LockInv

(* Commits never wait for each other in a circle: lockFiles takes the      *)
(* mutexes in sorted order, whatever files the sessions share.             *)
THEOREM OverlayNoLockCycle == Spec => []NoLockCycle
<1>1. ASSUME OverlayInv, LockInv PROVE NoLockCycle
  <2> SUFFICES ASSUME NEW s0 \in Session, pc[s0] # "idle", \A s \in Active : Waiting(s)
               PROVE  FALSE
    BY DEF NoLockCycle, Active
  <2> DEFINE want == [s \in Active |-> CHOOSE f \in Lowest(files[s] \ held[s]) : TRUE]
  <2>1. ASSUME NEW s \in Active
        PROVE  /\ want[s] \in files[s] \ held[s] /\ want[s] \in Nat /\ pc[s] = "lock"
               /\ \E t \in Active : want[s] \in held[t]
    <3>1. s \in Session /\ files[s] \subseteq Nat /\ pc[s] = "lock"
      BY <1>1, <2>1, FilesNumbered DEF Active, OverlayInv, TypeOK, CommitType, Waiting
    <3>2. PICK f \in Lowest(files[s] \ held[s]) : ~Free(f)
      BY <2>1 DEF Waiting
    <3>3. want[s] \in Lowest(files[s] \ held[s])
      BY <3>2
    <3> HIDE DEF want
    <3>4. want[s] = f /\ f \in files[s] \ held[s]
      BY <3>1, <3>2, <3>3 DEF Lowest
    <3>5. PICK t \in Session : f \in held[t]
      BY <3>2 DEF Free
    <3>6. t \in Active
      BY <1>1, <3>5 DEF Active, OverlayInv, SessionInv
    <3> QED BY <3>1, <3>4, <3>5, <3>6
  <2>2. want \in [Active -> Nat]
    <3>1. \A s \in Active : want[s] \in Nat
      BY <2>1
    <3> QED BY <3>1
  <2> HIDE DEF want
  <2>3. Active # {} /\ IsFiniteSet(Active)
    BY <1>1 DEF Active, LockInv
  <2>4. PICK m \in Active : \A s \in Active : want[s] <= want[m]
    BY <2>2, <2>3, FiniteMax
  <2>5. PICK t \in Active : want[m] \in held[t]
    BY <2>1
  <2>6. want[m] < want[t]
    BY <1>1, <2>1, <2>5 DEF LockInv, HeldInOrder, Active
  <2> QED BY <2>2, <2>4, <2>6
<1>2. OverlayInv /\ LockInv /\ [Next]_vars => LockInv'
  BY NextLock
<1> QED BY <1>1, <1>2, InitLock, OverlayInvariant, PTL DEF Spec
=============================================================================
