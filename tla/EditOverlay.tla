---------------------------- MODULE EditOverlay ----------------------------
(***************************************************************************)
(* Edit sessions of the code-intelligence server: edits are staged in      *)
(* memory, and Commit writes them file by file behind a snapshot directory *)
(* from which the next start recovers.  Sessions commit concurrently, file *)
(* operations fail, and the process crashes between any two of them.       *)
(*                                                                         *)
(* Contents are versions: Old is what a file held before, <<s, n>> the     *)
(* n-th edit of session s, <<External, n>> an edit made outside.  Files    *)
(* are numbered in the order sort.Strings gives their names.  Removing a   *)
(* snapshot directory, whose error the code ignores, succeeds.             *)
(***************************************************************************)
EXTENDS Naturals, FiniteSets

CONSTANTS
    Session,      \* ids Begin hands out
    File,         \* the files sessions touch
    Existing,     \* ... those that exist at the start
    External,     \* whoever edits files without a session
    MaxVersions,  \* edits of one session, bound
    MaxExternal,  \* edits made outside, bound
    MaxFaults,    \* failing file operations, bound
    MaxCrashes    \* crashes of the process, bound

ASSUME FilesNumbered == File \subseteq Nat /\ Existing \subseteq File
ASSUME ExternalIsNoSession == External \notin Session
ASSUME BoundsAreNumbers ==
    {MaxVersions, MaxExternal, MaxFaults, MaxCrashes} \subseteq Nat

VARIABLES
    disk,        \* File -> content, or Absent
    tmp,         \* File -> content of the .tmp_ci file, or Absent
    snap,        \* Session -> its snapshot directory
    status,      \* Session -> EditSession.Status, "none" before Begin
    edits,       \* Session -> EditSession.Edits
    original,    \* Session -> EditSession.Original
    pc,          \* Session -> where its Commit is
    files,       \* Session -> the files its Commit collected
    held,        \* Session -> the files whose mutex it holds
    renamed,     \* Session -> the files its Commit has renamed
    at,          \* Session -> the file its Commit is writing
    errors,      \* sessions whose last validation found some
    recovering,  \* snapshot directories recoverAll has yet to deal with
    acked,       \* sessions whose Commit has answered success
    versions,    \* Session -> edits so far
    externals, faults, crashes

memory == <<status, edits, original, errors, acked>>
commit == <<pc, files, held, renamed, at>>
counts == <<versions, externals, faults, crashes>>
vars == <<disk, tmp, snap, memory, commit, recovering, counts>>

Absent == <<"absent", 0>>
Empty == <<"empty", 0>>
Old == <<"old", 0>>
Staged == Session \X (1..MaxVersions)
Text == {Empty, Old} \cup Staged \cup ({External} \X (1..MaxExternal))

\* os.ReadFile with a missing file read as no bytes.
ReadFile(c) == IF c = Absent THEN Empty ELSE c

Nothing == [f \in {} |-> Empty]
NoDir == [phase |-> "none", orig |-> Nothing, renamed |-> {}]
Steps == {"lock", "check", "snapshot", "manifest", "tmp", "rename", "mark",
          "restore", "discard", "done", "remove", "ack"}
Status == {"none", "open", "validated", "committed", "rolled_back", "conflict",
           "lost"}

Init ==
    /\ disk = [f \in File |-> IF f \in Existing THEN Old ELSE Absent]
    /\ tmp = [f \in File |-> Absent]
    /\ snap = [s \in Session |-> NoDir]
    /\ status = [s \in Session |-> "none"]
    /\ edits = [s \in Session |-> Nothing]
    /\ original = [s \in Session |-> Nothing]
    /\ pc = [s \in Session |-> "idle"]
    /\ files = [s \in Session |-> {}]
    /\ held = [s \in Session |-> {}]
    /\ renamed = [s \in Session |-> {}]
    /\ at = [s \in Session |-> 0]
    /\ errors = {} /\ recovering = {} /\ acked = {}
    /\ versions = [s \in Session |-> 0]
    /\ externals = 0 /\ faults = 0 /\ crashes = 0

-----------------------------------------------------------------------------
(* The calls of the host.  It waits for the answer to a Commit before it   *)
(* uses the session again, and recovery ends before the first call.        *)

Serving == recovering = {}
Idle(s) == Serving /\ pc[s] = "idle"

Begin(s) ==
    /\ Idle(s) /\ status[s] = "none"
    /\ status' = [status EXCEPT ![s] = "open"]
    /\ UNCHANGED <<disk, tmp, snap, edits, original, errors, acked, commit,
                   recovering, counts>>

Put(fn, f, c) == [x \in DOMAIN fn \cup {f} |-> IF x = f THEN c ELSE fn[x]]

\* The original is captured on the first touch; the status is left alone.
WriteFile(s, f) ==
    /\ Idle(s) /\ status[s] \in {"open", "validated"}
    /\ versions[s] < MaxVersions
    /\ versions' = [versions EXCEPT ![s] = @ + 1]
    /\ original' = [original EXCEPT ![s] =
                       IF f \in DOMAIN @ THEN @ ELSE Put(@, f, ReadFile(disk[f]))]
    /\ edits' = [edits EXCEPT ![s] = Put(@, f, <<s, versions'[s]>>)]
    /\ UNCHANGED <<disk, tmp, snap, status, errors, acked, commit, recovering,
                   externals, faults, crashes>>

\* Only a clean validation changes the status; diagnostics of a later one are
\* remembered and make Commit refuse, as the status "open" does.
Validate(s) ==
    /\ Idle(s) /\ status[s] \in {"open", "validated"}
    /\ \/ status' = [status EXCEPT ![s] = "validated"] /\ errors' = errors \ {s}
       \/ status[s] = "validated" /\ errors' = errors \cup {s} /\ UNCHANGED status
    /\ UNCHANGED <<disk, tmp, snap, edits, original, acked, commit, recovering,
                   counts>>

Rollback(s) ==
    /\ Idle(s) /\ status[s] \notin {"none", "lost"}
    /\ status' = [status EXCEPT ![s] = "rolled_back"]
    /\ edits' = [edits EXCEPT ![s] = Nothing]
    /\ snap' = [snap EXCEPT ![s] = NoDir]
    /\ errors' = errors \ {s}
    /\ UNCHANGED <<disk, tmp, original, acked, commit, recovering, counts>>

CommitBegin(s) ==
    /\ Idle(s) /\ status[s] = "validated" /\ s \notin errors
    /\ pc' = [pc EXCEPT ![s] = "lock"]
    /\ files' = [files EXCEPT ![s] = DOMAIN edits[s]]
    /\ UNCHANGED <<disk, tmp, snap, memory, held, renamed, at, recovering, counts>>

-----------------------------------------------------------------------------
(* Commit, one file operation at a time.                                   *)

GoTo(s, p) == pc' = [pc EXCEPT ![s] = p]

\* Mutant: an early return without the unlock.
ReturnLocked(s) ==
    /\ GoTo(s, "idle") /\ UNCHANGED held
    /\ files' = [files EXCEPT ![s] = {}]
    /\ renamed' = [renamed EXCEPT ![s] = {}] /\ at' = [at EXCEPT ![s] = 0]

\* The deferred unlock, and the end of the call's own variables.
Return(s) ==
    /\ GoTo(s, "idle")
    /\ held' = [held EXCEPT ![s] = {}] /\ files' = [files EXCEPT ![s] = {}]
    /\ renamed' = [renamed EXCEPT ![s] = {}] /\ at' = [at EXCEPT ![s] = 0]

Fault == faults < MaxFaults /\ faults' = faults + 1
NoFault == UNCHANGED faults

Lowest(S) == {f \in S : \A g \in S : f <= g}
Free(f) == \A t \in Session : f \notin held[t]

\* Mutant: the mutexes are taken in the order of the map.
lockFilesUnsorted(s) ==
    /\ pc[s] = "lock"
    /\ \/ \E f \in files[s] \ held[s] :
            Free(f) /\ held' = [held EXCEPT ![s] = @ \cup {f}] /\ UNCHANGED pc
       \/ files[s] = held[s] /\ GoTo(s, "check") /\ UNCHANGED held
    /\ UNCHANGED <<disk, tmp, snap, memory, files, renamed, at, recovering,
                   counts>>

\* lockFiles: in sorted order, waiting for each.
lockFiles(s) ==
    /\ pc[s] = "lock"
    /\ \/ files[s] = held[s] /\ GoTo(s, "check") /\ UNCHANGED held
       \/ \E f \in Lowest(files[s] \ held[s]) :
            Free(f) /\ held' = [held EXCEPT ![s] = @ \cup {f}] /\ UNCHANGED pc
    /\ UNCHANGED <<disk, tmp, snap, memory, files, renamed, at, recovering,
                   counts>>

\* Mutant: the files are compared before they are locked, not after.
ConflictCheckSkipped(s) ==
    /\ pc[s] = "check"
    /\ GoTo(s, "snapshot")
    /\ UNCHANGED <<disk, tmp, snap, memory, files, held, renamed, at,
                   recovering, counts>>

\* All originals are compared while the locks are held.
ConflictCheck(s) ==
    /\ pc[s] = "check"
    /\ IF \A f \in DOMAIN original[s] : ReadFile(disk[f]) = original[s][f]
       THEN GoTo(s, "snapshot") /\ UNCHANGED <<status, files, held, renamed, at>>
       ELSE Return(s) /\ status' = [status EXCEPT ![s] = "conflict"]
    /\ UNCHANGED <<disk, tmp, snap, edits, original, errors, acked, recovering,
                   counts>>

\* The directory and the copies of the originals, removed again on failure.
WriteSnapshot(s) ==
    /\ pc[s] = "snapshot"
    /\ \/ /\ NoFault /\ GoTo(s, "manifest") /\ UNCHANGED <<files, held, renamed, at>>
          /\ snap' = [snap EXCEPT ![s] =
                [phase |-> "bare", orig |-> [f \in files[s] |-> original[s][f]],
                 renamed |-> {}]]
       \/ Fault /\ Return(s) /\ snap' = [snap EXCEPT ![s] = NoDir]
    /\ UNCHANGED <<disk, tmp, memory, recovering, versions, externals, crashes>>

\* Mutant: a manifest that cannot be written does not stop the commit.
WriteManifestAnyway(s) ==
    /\ pc[s] = "manifest" /\ GoTo(s, "tmp")
    /\ \/ NoFault /\ snap' = [snap EXCEPT ![s].phase = "committing"]
       \/ Fault /\ UNCHANGED snap
    /\ UNCHANGED <<disk, tmp, memory, files, held, renamed, at, recovering,
                   versions, externals, crashes>>

WriteManifest(s) ==
    /\ pc[s] = "manifest"
    /\ \/ /\ NoFault /\ GoTo(s, "tmp") /\ UNCHANGED <<files, held, renamed, at>>
          /\ snap' = [snap EXCEPT ![s].phase = "committing"]
       \/ Fault /\ Return(s) /\ snap' = [snap EXCEPT ![s] = NoDir]
    /\ UNCHANGED <<disk, tmp, memory, recovering, versions, externals, crashes>>

\* The loop over the files, in the order the map gave them.
WriteTmp(s) ==
    /\ pc[s] = "tmp"
    /\ \/ /\ files[s] = renamed[s]
          /\ NoFault /\ GoTo(s, "done") /\ UNCHANGED <<tmp, at>>
       \/ \E f \in files[s] \ renamed[s] :
            /\ at' = [at EXCEPT ![s] = f]
            /\ \/ /\ NoFault /\ GoTo(s, "rename")
                  /\ tmp' = [tmp EXCEPT ![f] = edits[s][f]]
               \/ Fault /\ GoTo(s, "restore") /\ UNCHANGED tmp
    /\ UNCHANGED <<disk, snap, memory, files, held, renamed, recovering,
                   versions, externals, crashes>>

Rename(s) ==
    /\ pc[s] = "rename"
    /\ tmp' = [tmp EXCEPT ![at[s]] = Absent]
    /\ \/ /\ NoFault /\ GoTo(s, "mark")
          /\ disk' = [disk EXCEPT ![at[s]] = tmp[at[s]]]
          /\ renamed' = [renamed EXCEPT ![s] = @ \cup {at[s]}]
       \/ Fault /\ GoTo(s, "restore") /\ UNCHANGED <<disk, renamed>>
    /\ UNCHANGED <<snap, memory, files, held, at, recovering, versions,
                   externals, crashes>>

\* The manifest is written again after each rename; a failure is ignored.
MarkRenamed(s) ==
    /\ pc[s] = "mark"
    /\ GoTo(s, "tmp")
    /\ \/ NoFault /\ snap' = [snap EXCEPT ![s].renamed = renamed[s]]
       \/ Fault /\ UNCHANGED snap
    /\ UNCHANGED <<disk, tmp, memory, files, held, renamed, at, recovering,
                   versions, externals, crashes>>

\* Mutant: restoring stops short of the last file.
RestoreOneShort(s) ==
    /\ pc[s] = "restore"
    /\ \/ /\ Cardinality(renamed[s]) <= 1
          /\ GoTo(s, "discard") /\ UNCHANGED <<disk, renamed>>
       \/ \E f \in renamed[s] :
            /\ disk' = [disk EXCEPT ![f] = snap[s].orig[f]]
            /\ renamed' = [renamed EXCEPT ![s] = @ \ {f}]
            /\ UNCHANGED pc
    /\ UNCHANGED <<tmp, snap, memory, files, held, at, recovering, counts>>

\* restoreFromManifest: the files renamed so far get their originals back; a
\* failing write is logged and the file left as it is.
Restore(s) ==
    /\ pc[s] = "restore"
    /\ \/ /\ renamed[s] = {}
          /\ GoTo(s, "discard") /\ UNCHANGED <<disk, renamed, faults>>
       \/ \E f \in renamed[s] :
            /\ \/ NoFault /\ disk' = [disk EXCEPT ![f] = snap[s].orig[f]]
               \/ Fault /\ UNCHANGED disk
            /\ renamed' = [renamed EXCEPT ![s] = @ \ {f}]
            /\ UNCHANGED pc
    /\ UNCHANGED <<tmp, snap, memory, files, held, at, recovering, versions,
                   externals, crashes>>

\* The error return after restoring: the session stays validated.
Discard(s) ==
    /\ pc[s] = "discard"
    /\ snap' = [snap EXCEPT ![s] = NoDir]
    /\ Return(s)
    /\ UNCHANGED <<disk, tmp, memory, recovering, counts>>

\* The manifest with phase committed; when it cannot be written the directory
\* is kept.
MarkCommitted(s) ==
    /\ pc[s] = "done"
    /\ \/ /\ NoFault /\ GoTo(s, "remove") /\ UNCHANGED <<files, held, renamed, at>>
          /\ snap' = [snap EXCEPT ![s].phase = "committed",
                                  ![s].renamed = renamed[s]]
       \/ Fault /\ Return(s) /\ UNCHANGED snap
    /\ UNCHANGED <<disk, tmp, memory, recovering, versions, externals, crashes>>

RemoveSnapshot(s) ==
    /\ pc[s] = "remove"
    /\ snap' = [snap EXCEPT ![s] = NoDir]
    /\ GoTo(s, "ack")
    /\ UNCHANGED <<disk, tmp, memory, files, held, renamed, at, recovering, counts>>

Acknowledge(s) ==
    /\ pc[s] = "ack"
    /\ status' = [status EXCEPT ![s] = "committed"]
    /\ acked' = acked \cup {s}
    /\ Return(s)
    /\ UNCHANGED <<disk, tmp, snap, edits, original, errors, recovering, counts>>

-----------------------------------------------------------------------------
(* Crashes, recovery and the world outside.                                *)

\* The sessions are gone with the process (what they staged is kept here for
\* the properties only); NewManager then reads every snapshot directory.  For
\* a directory under recovery, files holds the entries still to be restored.
Crash ==
    /\ crashes < MaxCrashes
    /\ crashes' = crashes + 1
    /\ status' = [s \in Session |-> IF status[s] = "none" THEN "none" ELSE "lost"]
    /\ pc' = [s \in Session |-> "idle"]
    /\ held' = [s \in Session |-> {}]
    /\ recovering' = {s \in Session : snap[s].phase # "none"}
    /\ files' = [s \in Session |->
                    IF snap[s].phase = "committing"
                    THEN DOMAIN snap[s].orig \ snap[s].renamed ELSE {}]
    /\ renamed' = [s \in Session |-> {}] /\ at' = [s \in Session |-> 0]
    /\ errors' = {}
    /\ UNCHANGED <<disk, tmp, snap, edits, original, acked, versions,
                   externals, faults>>

\* recoverCommitting: an entry that is not marked renamed gets its original
\* back and loses its temporary file.
RecoverEntry(s) ==
    /\ s \in recovering
    /\ \E f \in files[s] :
        /\ files' = [files EXCEPT ![s] = @ \ {f}]
        /\ tmp' = [tmp EXCEPT ![f] = Absent]
        /\ \/ /\ NoFault
              /\ disk' = [disk EXCEPT ![f] =
                            IF ReadFile(@) = snap[s].orig[f] THEN @ ELSE snap[s].orig[f]]
           \/ Fault /\ UNCHANGED disk
    /\ UNCHANGED <<snap, memory, pc, held, renamed, at, recovering, versions,
                   externals, crashes>>

\* Mutant: the directory stays.
RecoverDoneKeeps(s) ==
    /\ s \in recovering /\ files[s] = {}
    /\ recovering' = recovering \ {s}
    /\ UNCHANGED <<disk, tmp, snap, memory, commit, counts>>

\* recoverAll removes the directory, unless it has no manifest.
RecoverDone(s) ==
    /\ s \in recovering /\ files[s] = {}
    /\ recovering' = recovering \ {s}
    /\ snap' = [snap EXCEPT ![s] = IF @.phase = "bare" THEN @ ELSE NoDir]
    /\ UNCHANGED <<disk, tmp, memory, commit, counts>>

\* A file is edited without a session; not while a commit holds it, and not
\* between a crash and the end of the recovery.
ExternalEdit(f) ==
    /\ Serving /\ Free(f) /\ externals < MaxExternal
    /\ externals' = externals + 1
    /\ disk' = [disk EXCEPT ![f] = <<External, externals'>>]
    /\ UNCHANGED <<tmp, snap, memory, commit, recovering, versions, faults, crashes>>

Commit(s) ==
    \/ lockFiles(s) \/ ConflictCheck(s) \/ WriteSnapshot(s) \/ WriteManifest(s)
    \/ WriteTmp(s) \/ Rename(s) \/ MarkRenamed(s) \/ MarkCommitted(s)
    \/ Restore(s) \/ Discard(s) \/ RemoveSnapshot(s) \/ Acknowledge(s)

recoverAll == \E s \in Session : RecoverEntry(s) \/ RecoverDone(s)

Host(s) ==
    \/ Begin(s) \/ Validate(s) \/ Rollback(s) \/ CommitBegin(s)
    \/ \E f \in File : WriteFile(s, f)

Next ==
    \/ \E s \in Session : Host(s) \/ Commit(s)
    \/ recoverAll \/ Crash
    \/ \E f \in File : ExternalEdit(f)

Spec == Init /\ [][Next]_vars

-----------------------------------------------------------------------------

\* What maps from some files to texts.
Partial == UNION {[D -> Text] : D \in SUBSET File}
Snapshot == [phase : {"none", "bare", "committing", "committed"}, orig : Partial,
             renamed : SUBSET File]

DiskType ==
    disk \in [File -> Text \cup {Absent}] /\ tmp \in [File -> Text \cup {Absent}]
MemoryType ==
    /\ status \in [Session -> Status]
    /\ edits \in [Session -> Partial] /\ original \in [Session -> Partial]
    /\ errors \subseteq Session /\ acked \subseteq Session
    /\ versions \in [Session -> 0..MaxVersions]
CommitType ==
    /\ pc \in [Session -> Steps \cup {"idle"}] /\ at \in [Session -> File \cup {0}]
    /\ files \in [Session -> SUBSET File] /\ held \in [Session -> SUBSET File]
    /\ renamed \in [Session -> SUBSET File]
    /\ recovering \subseteq Session
    /\ \A s \in Session : held[s] \subseteq files[s] /\ renamed[s] \subseteq files[s]
CountType ==
    externals \in 0..MaxExternal /\ faults \in 0..MaxFaults /\ crashes \in 0..MaxCrashes

TypeOK ==
    DiskType /\ snap \in [Session -> Snapshot] /\ MemoryType /\ CommitType /\ CountType

\* Conflict detection: the rename of a commit only ever replaces the content
\* the session saw when it first touched the file, so no commit and no outside
\* edit in between is lost (Commit's hash check and per-file mutexes).
NoLostUpdate ==
    [][\A s \in Session : \A f \in renamed'[s] \ renamed[s] :
          ReadFile(disk[f]) = original[s][f]]_vars

\* While a commit is changing files, the original of each of its files lies in
\* its snapshot directory, which recovery would read (Commit steps 3 and 4).
WriteAhead ==
    \A s \in Session : pc[s] \in {"tmp", "rename", "mark", "restore", "done"} =>
        /\ snap[s].phase = "committing"
        /\ \A f \in files[s] : f \in DOMAIN snap[s].orig
                               /\ snap[s].orig[f] = original[s][f]

\* A commit that has answered success is never undone by another session's
\* rollback or by recovery: its content gives way only to a later commit or to
\* an outside edit.
CommitDurable ==
    [][\A f \in File : disk[f] \in Staged /\ disk[f][1] \in acked /\ disk'[f] # disk[f]
          => externals' # externals \/ \E t \in Session : f \in renamed'[t] \ renamed[t]]_vars

\* A commit stopped by one failing file operation has put back every file
\* before it returns the error (restoreFromManifest).
FailedCommitRestores ==
    \A s \in Session : pc[s] = "discard" /\ faults = 1 =>
        \A f \in files[s] : ReadFile(disk[f]) = original[s][f]

Waiting(s) == pc[s] = "lock" /\ \E f \in Lowest(files[s] \ held[s]) : ~Free(f)

\* Commits never wait for each other in a circle: of those in flight one can
\* always go on (lockFiles takes the mutexes in sorted order).
NoLockCycle ==
    (\E s \in Session : pc[s] # "idle") =>
        \E s \in Session : pc[s] # "idle" /\ ~Waiting(s)

\* "manages atomic edit sessions with crash recovery": when nothing is in
\* flight, no session is left with one file changed and another not.
AllOrNothing ==
    Serving /\ (\A s \in Session : pc[s] = "idle") =>
        \A s \in Session : \A f, g \in DOMAIN edits[s] :
            ~(disk[f] = edits[s][f] /\ ReadFile(disk[g]) = original[s][g])

-----------------------------------------------------------------------------
(* Why: the mutexes of a commit keep its files as it compared them.        *)

Checked == {"snapshot", "manifest", "tmp", "rename", "mark"}
Undoing == {"restore", "discard"}
Journalled == {"tmp", "rename", "mark", "restore", "done"}

LocksApart == \A s, t \in Session : s # t => held[s] \cap held[t] = {}

RecoveryAlone == recovering # {} => \A s \in Session : pc[s] = "idle"

\* What recovery has yet to restore is in the directory it reads.
RecoveryCopied == \A s \in recovering : files[s] \subseteq DOMAIN snap[s].orig

\* A file the commit has not renamed, or has put back, is as it was captured.
AsCaptured(s) == \A f \in files[s] \ renamed[s] : ReadFile(disk[f]) = original[s][f]

\* The snapshot holds the originals.
Copied(s) == \A f \in files[s] : f \in DOMAIN snap[s].orig
                                /\ snap[s].orig[f] = original[s][f]

SessionInv(s) ==
    /\ pc[s] = "idle" => held[s] = {} /\ renamed[s] = {}
    /\ pc[s] \notin {"idle", "lock"} => held[s] = files[s]
    /\ DOMAIN edits[s] \subseteq DOMAIN original[s]
    /\ pc[s] # "idle" => files[s] \subseteq DOMAIN edits[s]
    /\ pc[s] \in Checked => AsCaptured(s)
    /\ pc[s] = "rename" => at[s] \in files[s] \ renamed[s]
    /\ pc[s] \in Undoing => faults # 0
    /\ pc[s] \in Undoing => (faults = 1 => AsCaptured(s))
    /\ pc[s] = "discard" => renamed[s] = {}
    /\ pc[s] = "manifest" => Copied(s)
    /\ pc[s] \in Journalled => snap[s].phase = "committing" /\ Copied(s)

OverlayInv ==
    /\ TypeOK /\ LocksApart /\ RecoveryAlone /\ RecoveryCopied
    /\ \A s \in Session : SessionInv(s)
=============================================================================
