----------------------------- MODULE Workspace -----------------------------
(***************************************************************************)
(* The files of one task while its steps run side by side: the built-in    *)
(* file tools (core_tools.go, replace_batch.go), the shared knowledge      *)
(* board (shared_context.go), side-loaded results and the hourly sweep     *)
(* (asset_manager.go), the snapshot taken before a step and the rollback   *)
(* after its failure (staged_workspace.go), and the record of external     *)
(* effects that a failed step leaves (effect_tracker.go).                  *)
(*                                                                         *)
(* A file is the set of its lines.  Every step owns one line of the files  *)
(* a task starts with, <<s, "old">>, and edits leave <<s, "new">>.  The    *)
(* board is one file of the task directory, its lines the entries          *)
(* <<serial, id, author>>; a side-loaded result is a file named by its     *)
(* step and the second it was written in.                                  *)
(***************************************************************************)
EXTENDS Naturals, Sequences, FiniteSets

CONSTANTS
  Step, File,
  Settings,      \* of the configuration and the graph: <<staging, session, locked>>
  Second,        \* the seconds that name side-loaded files
  Probe,         \* what a registered prober may answer
  Reversal,      \* how a registered compensator may end
  MaxCalls,      \* tool calls of one step
  MaxFaults      \* sweeps after a quiet period, and failed renames, in all

VARIABLES
  staging,       \* system.staging_enabled
  session,       \* the graph has a workspace root
  locked,        \* the steps declare the same TargetFile
  dir,           \* the task directory, .staging, manifest and artifact list apart
  root,          \* the files of the session's workspace root
  cas,           \* .staging/snapshots: the contents kept there
  snapDir,       \* that directory exists
  journal,       \* .staging/journal.json
  serial,        \* entries and results written so far
  refs,          \* side-loaded results the task's records point at
  at,            \* where each step is
  pre,           \* its snapshot
  seen,          \* its scan of the directory in Rollback
  edit,          \* what its batch_replace read
  jcopy,         \* the journal as its MarkRolledBack loaded it
  seq,           \* its board object's counter
  records,       \* EffectTracker: the effects of each step
  tracker,       \* the task has a tracker
  review,        \* steps with an effect flagged for review
  over,          \* the task was cancelled
  calls, faults,
  shared,        \* steps that ran beside another one
  swept,         \* steps whose snapshots the sweep removed
  raced,         \* a journal was rewritten from a copy that missed an entry
  reached,       \* steps with an external effect not reported as harmless
  settled,       \* steps all of whose external effects were dealt with
  strays         \* temporary files left beside their target

place == <<dir, root, cas, snapDir, journal, serial, refs>>
run == <<at, pre, seen, edit, jcopy, seq>>
effect == <<records, tracker, review, over, reached, settled>>
ghost == <<shared, swept, raced, strays>>
setting == <<staging, session, locked>>
vars == <<place, run, effect, ghost, setting, calls, faults>>

Absent == {<<"none", "absent">>}
Board == <<"board", "">>
InTask(f) == <<"file", f>>
Path == {InTask(f) : f \in File} \cup {Board} \cup (Step \X Second)
Original == {<<s, "old">> : s \in Step}
NoFiles == [f \in File |-> Absent]
NoSnapshot == [p \in Path |-> Absent]
NoEdit == [root |-> NoFiles, task |-> NoFiles]
Active(s) == at[s] \notin {"idle", "ok", "blocked"}

Init ==
    /\ \E c \in Settings : staging = c[1] /\ session = c[2] /\ locked = c[3]
    /\ dir \in {[p \in Path |-> IF \E f \in File : p = InTask(f) THEN g[p[2]] ELSE Absent] :
                    g \in [File -> IF session THEN {Absent} ELSE {Absent, {}, Original}]}
    /\ root \in IF session THEN [File -> {Absent, Original}] ELSE {NoFiles}
    /\ cas = {} /\ snapDir = FALSE /\ journal = <<>>
    /\ serial = 0 /\ refs = {}
    /\ at = [s \in Step |-> "idle"] /\ pre = [s \in Step |-> NoSnapshot]
    /\ seen = [s \in Step |-> NoSnapshot] /\ edit = [s \in Step |-> NoEdit]
    /\ jcopy = [s \in Step |-> <<>>] /\ seq = [s \in Step |-> 0]
    /\ records = [s \in Step |-> <<>>] /\ tracker = FALSE /\ review = {} /\ over = FALSE
    /\ calls = [s \in Step |-> 0] /\ faults = 0
    /\ shared = {} /\ swept = {} /\ raced = FALSE /\ reached = {} /\ settled = {}
    /\ strays = {}

----------------------------------------------------------------------------
(* Snapshots.  An empty file is in the index but not in the store.          *)

Stored(d) == {d[p] : p \in {q \in Path : d[q] # Absent}}

snapshotAll(d) == Stored(d) \ {{}}

\* Mutant: nothing can be stored a second time.
StoresOnce(d) == snapDir /\ snapshotAll(d) \cap cas = {}

\* Without its directory only contents that are already there can be stored.
CanStore(d) == snapDir \/ snapshotAll(d) \subseteq cas

\* NewStagedWorkspace makes the directory, then the index is taken.
TakePreStepSnapshot(s) ==
    /\ pre' = [pre EXCEPT ![s] = dir]
    /\ cas' = cas \cup snapshotAll(dir)
    /\ snapDir' = TRUE

\* A step that declares a TargetFile holds its lock until it returns.
Acquire(s) == locked => \A t \in Step : ~Active(t)

\* executeStep up to the spawn: the lock, the snapshot when staging is on,
\* and a board object of its own, counting from zero.
Begin(s) ==
    /\ at[s] = "idle" /\ ~over
    /\ Acquire(s)
    /\ at' = [at EXCEPT ![s] = "run"]
    /\ seq' = [seq EXCEPT ![s] = 0]
    /\ IF staging THEN TakePreStepSnapshot(s) ELSE UNCHANGED <<pre, cas, snapDir>>
    /\ shared' = IF \E t \in Step \ {s} : Active(t)
                 THEN shared \cup {s} \cup {t \in Step : Active(t)} ELSE shared
    /\ UNCHANGED <<dir, root, journal, serial, refs, seen, edit, jcopy, effect,
                   swept, raced, strays, setting, calls, faults>>

----------------------------------------------------------------------------
(* The tools.  Every built-in call, failed or not, ends in RecordEffect.    *)

classifySideEffect(tool) ==
    CASE tool \in {"read_file", "decompress"} -> "none"
      [] tool \in {"write_file", "batch_replace", "execute_code"} -> "file"
      [] tool = "get_" -> "none"
      [] OTHER -> "api"

\* Mutant: only the built-in tools are recorded.
RecordFileEffect(s, tool) ==
    /\ records' = [records EXCEPT ![s] =
          IF classifySideEffect(tool) = "file" THEN Append(@, "file") ELSE @]
    /\ tracker' = TRUE

RecordEffect(s, tool) ==
    /\ records' = [records EXCEPT ![s] = Append(@, classifySideEffect(tool))]
    /\ tracker' = TRUE

Calls(s) == at[s] = "run" /\ calls[s] < MaxCalls /\ calls' = [calls EXCEPT ![s] = @ + 1]

\* resolvePath: the workspace root when the session has one.
resolvePath == IF session THEN "root" ELSE "task"

\* Only write_file undoes a leading repetition of the root's own name; the
\* result tells whether the path still has one.
correctNestedSessionPath(nested) == nested /\ ~session

\* resolveExistingPath: the root first, then the task directory.
resolveExistingPath(f, nested) ==
    IF session /\ ~nested /\ root[f] # Absent THEN "root"
    ELSE IF ~nested /\ dir[InTask(f)] # Absent THEN "task" ELSE "missing"

Content(w, f) == IF w = "root" THEN root[f] ELSE dir[InTask(f)]

Put(w, f, c) ==
    /\ root' = IF w = "root" THEN [root EXCEPT ![f] = c] ELSE root
    /\ dir' = IF w = "task" THEN [dir EXCEPT ![InTask(f)] = c] ELSE dir

\* write_file.  A path that repeats the root's name is written without it.
WriteFile(s, f, c, nested) ==
    /\ Calls(s) /\ ~correctNestedSessionPath(nested)
    /\ Put(resolvePath, f, c)
    /\ RecordEffect(s, "write_file")
    /\ UNCHANGED <<cas, snapDir, journal, serial, refs, run, review, over, reached,
                   settled, shared, swept, raced, strays, setting, faults>>

\* execute_code runs in the directory write_file writes to; a script may
\* write, empty or remove a file and still fail.
executeCode(s, f, c) ==
    /\ Calls(s)
    /\ Put(resolvePath, f, c)
    /\ RecordEffect(s, "execute_code")
    /\ UNCHANGED <<cas, snapDir, journal, serial, refs, run, review, over, reached,
                   settled, shared, swept, raced, strays, setting, faults>>

\* ExecuteBatchReplace, first phase: the files are read and every old text
\* is found; the replacements go to temporary files beside them.
BatchRead(s, fs) ==
    /\ Calls(s) /\ fs # {}
    /\ \A f \in fs : resolveExistingPath(f, FALSE) # "missing"
    /\ \A f \in fs : <<s, "old">> \in Content(resolveExistingPath(f, FALSE), f)
    /\ LET read(w) == [f \in File |->
              IF f \in fs /\ resolveExistingPath(f, FALSE) = w THEN Content(w, f) ELSE Absent]
       IN edit' = [edit EXCEPT ![s] = [root |-> read("root"), task |-> read("task")]]
    /\ at' = [at EXCEPT ![s] = "batch"]
    /\ RecordEffect(s, "batch_replace")
    /\ UNCHANGED <<place, pre, seen, jcopy, seq, review, over, reached, settled, ghost, setting,
                   faults>>

Replaced(s, read) ==
    [f \in File |-> IF read[f] = Absent THEN Absent
                    ELSE (read[f] \ {<<s, "old">>}) \cup {<<s, "new">>}]

Renamed(d, text) == [f \in File |-> IF text[f] = Absent THEN d[f] ELSE text[f]]

TaskFiles == [f \in File |-> dir[InTask(f)]]
WithFiles(fs) == [p \in Path |-> IF \E f \in File : p = InTask(f) THEN fs[p[2]] ELSE dir[p]]

\* Second phase: the temporary files take the place of the originals.
BatchCommit(s) ==
    /\ at[s] = "batch"
    /\ root' = Renamed(root, Replaced(s, edit[s].root))
    /\ dir' = WithFiles(Renamed(TaskFiles, Replaced(s, edit[s].task)))
    /\ edit' = [edit EXCEPT ![s] = NoEdit]
    /\ at' = [at EXCEPT ![s] = "run"]
    /\ UNCHANGED <<cas, snapDir, journal, serial, refs, pre, seen, jcopy, seq, effect,
                   ghost, setting, calls, faults>>

TargetOf(s) == {f \in File : edit[s].root[f] # Absent \/ edit[s].task[f] # Absent}

\* A rename that fails: what was renamed gets its original back, and every
\* temporary file but the one that could not be renamed is removed.
CleansUp(f) == strays \cup {f}

BatchFails(s) ==
    /\ at[s] = "batch" /\ faults < MaxFaults /\ faults' = faults + 1
    /\ \E f \in TargetOf(s), renamed \in SUBSET TargetOf(s) :
          LET undo(read) == [g \in File |-> IF g \in renamed \ {f} THEN read[g] ELSE Absent]
          IN /\ root' = Renamed(root, undo(edit[s].root))
             /\ dir' = WithFiles(Renamed(TaskFiles, undo(edit[s].task)))
             /\ strays' = CleansUp(f)
    /\ edit' = [edit EXCEPT ![s] = NoEdit]
    /\ at' = [at EXCEPT ![s] = "run"]
    /\ UNCHANGED <<cas, snapDir, journal, serial, refs, pre, seen, jcopy, seq, effect,
                   shared, swept, raced, setting, calls>>

\* A call of an external tool.  It may have taken effect whatever it answered.
ExternalCall(s) ==
    /\ Calls(s)
    /\ RecordEffect(s, "create_")
    /\ reached' = reached \cup {s}
    /\ UNCHANGED <<place, run, review, over, settled, ghost, setting, faults>>

\* shared_context_write: the id comes from the step's own counter, the line
\* goes to the task's file.  The call is not recorded as an effect.
WriteEntry(s) ==
    /\ Calls(s)
    /\ seq' = [seq EXCEPT ![s] = @ + 1]
    /\ serial' = serial + 1
    /\ dir' = [dir EXCEPT ![Board] = (@ \ Absent) \cup {<<serial + 1, seq'[s], s>>}]
    /\ UNCHANGED <<root, cas, snapDir, journal, refs, at, pre, seen, edit, jcopy,
                   effect, ghost, setting, faults>>

\* ReadAll and ReadRecent: the last entries of the file, newest first.
ReadRecent(limit) ==
    LET all == dir[Board] \ Absent
    IN {e \in all : Cardinality({d \in all : d[1] > e[1]}) < limit}

\* AssetManager.Handle: a large result goes to a file named by the step and
\* the second.
Handle(s, clock) ==
    /\ Calls(s)
    /\ serial' = serial + 1
    /\ dir' = [dir EXCEPT ![<<s, clock>>] = {<<serial + 1, 0, s>>}]
    /\ refs' = refs \cup {<<s, clock, serial + 1>>}
    /\ UNCHANGED <<root, cas, snapDir, journal, run, effect, ghost, setting,
                   faults>>

----------------------------------------------------------------------------
(* The end of a step.                                                       *)

AppendJournalEntry(s, status) ==
    IF CanStore(dir)
    THEN /\ journal' = Append(journal, [step |-> s, status |-> status, rolled |-> FALSE])
         /\ cas' = cas \cup snapshotAll(dir)
    ELSE UNCHANGED <<journal, cas>>

\* RecordPostStepSnapshot of a step that succeeded.
Succeed(s) ==
    /\ at[s] = "run"
    /\ IF staging THEN AppendJournalEntry(s, "completed") ELSE UNCHANGED <<journal, cas>>
    /\ at' = [at EXCEPT ![s] = "ok"]
    /\ pre' = [pre EXCEPT ![s] = NoSnapshot]
    /\ UNCHANGED <<dir, root, snapDir, serial, refs, seen, edit, jcopy, seq,
                   effect, ghost, setting, calls, faults>>

\* A step out of retries: the snapshot after it, and the scan with which
\* Rollback begins.
Fail(s) ==
    /\ at[s] = "run"
    /\ IF staging
       THEN /\ AppendJournalEntry(s, "failed")
            /\ seen' = [seen EXCEPT ![s] = dir]
            /\ at' = [at EXCEPT ![s] = "rollback"]
       ELSE /\ at' = [at EXCEPT ![s] = "compensate"]
            /\ UNCHANGED <<seen, journal, cas>>
    /\ UNCHANGED <<dir, root, snapDir, serial, refs, pre, edit, jcopy, seq,
                   effect, ghost, setting, calls, faults>>

\* Files of the snapshot that the scan found changed or gone.
Differs(s) == {p \in Path : pre[s][p] # Absent /\ seen[s][p] # pre[s][p]}

\* Mutant: the files a step made stay.
NoExtra(s) == {}

\* Mutant: side-loaded files are always taken for the step's own.
AllBut(s) == {p \in Path : pre[s][p] = Absent \/ p \in Step \X Second}

\* Files the scan found that the snapshot has not.
Extra(s) == {p \in Path : pre[s][p] = Absent /\ seen[s][p] # Absent}

Recoverable(s) == {p \in Differs(s) : pre[s][p] \in cas}

\* Rollback with everything in the store: the files of the snapshot are
\* written back and the others removed.
Restore(s) ==
    /\ at[s] = "rollback"
    /\ Differs(s) \subseteq Recoverable(s)
    /\ dir' = [p \in Path |-> IF p \in Differs(s) THEN pre[s][p]
                              ELSE IF p \in Extra(s) THEN Absent ELSE dir[p]]
    /\ seen' = [seen EXCEPT ![s] = NoSnapshot]
    /\ at' = [at EXCEPT ![s] = "load"]
    /\ UNCHANGED <<root, cas, snapDir, journal, serial, refs, pre, edit, jcopy, seq,
                   effect, ghost, setting, calls, faults>>

\* Rollback that meets a content the store has not: it stops there, after
\* the files the iteration happened to take first.
RestoreStops(s) ==
    /\ at[s] = "rollback"
    /\ ~(Differs(s) \subseteq Recoverable(s))
    /\ \E done \in SUBSET Recoverable(s) :
          dir' = [p \in Path |-> IF p \in done THEN pre[s][p] ELSE dir[p]]
    /\ seen' = [seen EXCEPT ![s] = NoSnapshot]
    /\ at' = [at EXCEPT ![s] = "compensate"]
    /\ UNCHANGED <<root, cas, snapDir, journal, serial, refs, pre, edit, jcopy,
                   seq, effect, ghost, setting, calls, faults>>

\* MarkRolledBack loads the journal, marks the step's last entry and writes
\* the whole of it again; the mutex is the step's own.
loadJournal(s) ==
    /\ at[s] = "load"
    /\ jcopy' = [jcopy EXCEPT ![s] = journal]
    /\ at' = [at EXCEPT ![s] = "mark"]
    /\ UNCHANGED <<place, pre, seen, edit, seq, effect, ghost, setting, calls, faults>>

EntriesOf(j, s) == {i \in DOMAIN j : j[i].step = s}

LastMarked(j, s) ==
    [i \in DOMAIN j |->
        IF i \in EntriesOf(j, s) /\ \A k \in EntriesOf(j, s) : k <= i
        THEN [j[i] EXCEPT !.rolled = TRUE] ELSE j[i]]

writeJournal(s) ==
    /\ at[s] = "mark"
    /\ journal' = LastMarked(jcopy[s], s)
    /\ raced' = (raced \/ jcopy[s] # journal)
    /\ jcopy' = [jcopy EXCEPT ![s] = <<>>]
    /\ at' = [at EXCEPT ![s] = "compensate"]
    /\ UNCHANGED <<dir, root, cas, snapDir, serial, refs, pre, seen, edit, seq,
                   effect, shared, swept, strays, setting, calls, faults>>

\* compensateExternal: harmless, reversed, or for a person to look at.
compensateExternal(probe, reversal) ==
    CASE probe = "not_applied" -> "skipped"
      [] probe = "applied" /\ reversal = "done" -> "compensated"
      [] OTHER -> "needs_review"

compensateOne(class, probe, reversal) ==
    CASE class = "none" -> "skipped"
      [] class = "file" -> "file_rollback"
      [] OTHER -> compensateExternal(probe, reversal)

\* handleStepFailure: every effect of the step, the last one first.
CompensateStep(s) ==
    /\ at[s] = "compensate"
    /\ tracker' = TRUE
    /\ \E probe \in [DOMAIN records[s] -> Probe], reversal \in Reversal :
          LET answer == {compensateOne(records[s][i], probe[i], reversal) : i \in DOMAIN records[s]}
          IN /\ review' = IF "needs_review" \in answer THEN review \cup {s} ELSE review
             /\ settled' = IF answer \cap {"skipped", "compensated"} # {} THEN settled \cup {s}
                           ELSE settled
    /\ at' = [at EXCEPT ![s] = "blocked"]
    /\ pre' = [pre EXCEPT ![s] = NoSnapshot]
    /\ UNCHANGED <<place, seen, edit, jcopy, seq, records, over, reached, ghost, setting,
                   calls, faults>>

----------------------------------------------------------------------------
(* Beside the steps.                                                        *)

\* CancelTask, or finalize once nothing runs: the tracker is dropped.
ClearEffectTracker ==
    /\ tracker /\ ~over /\ over' = TRUE
    /\ tracker' = FALSE /\ review' = {}
    /\ records' = [s \in Step |-> <<>>]
    /\ UNCHANGED <<place, run, reached, settled, ghost, setting, calls, faults>>

CleanupStaging == cas' = {} /\ snapDir' = FALSE /\ journal' = <<>>

\* The hourly sweep meets a directory at whose top nothing was made or
\* removed for longer than the retention, an hour at least: of the phases
\* of a step only its run lasts that long.  Task directories themselves are
\* counted as candidates, never removed.
sweepOnce ==
    /\ staging /\ (\E s \in Step : Active(s)) /\ \A s \in Step : Active(s) => at[s] = "run"
    /\ faults < MaxFaults /\ faults' = faults + 1
    /\ CleanupStaging
    /\ swept' = swept \cup {s \in Step : Active(s)}
    /\ UNCHANGED <<dir, root, serial, refs, run, effect, shared, raced, strays, setting, calls>>

Next ==
    \/ \E s \in Step :
          \/ Begin(s)
          \/ \E f \in File :
                \/ \E nested \in BOOLEAN, c \in {{}, {<<s, "new">>}} : WriteFile(s, f, c, nested)
                \/ \E c \in {Absent, {}, {<<s, "new">>}} : executeCode(s, f, c)
          \/ \E fs \in SUBSET File : BatchRead(s, fs)
          \/ BatchCommit(s) \/ BatchFails(s)
          \/ ExternalCall(s) \/ WriteEntry(s) \/ (\E clock \in Second : Handle(s, clock))
          \/ Succeed(s) \/ Fail(s)
          \/ Restore(s) \/ RestoreStops(s) \/ loadJournal(s) \/ writeJournal(s)
          \/ CompensateStep(s)
    \/ ClearEffectTracker \/ sweepOnce

Spec == Init /\ [][Next]_vars
----------------------------------------------------------------------------

\* The shape of the state; a step waits for its rollback only under staging,
\* and only a step inside batch_replace has read files to replace.
TypeOK ==
    /\ staging \in BOOLEAN /\ session \in BOOLEAN /\ locked \in BOOLEAN
    /\ DOMAIN dir = Path /\ DOMAIN root = File
    /\ at \in [Step -> {"idle", "run", "batch", "rollback", "load", "mark", "compensate", "ok",
                        "blocked"}]
    /\ \A s \in Step : at[s] \in {"rollback", "load", "mark"} => staging
    /\ \A s \in Step : edit[s] # NoEdit <=> at[s] = "batch"
    /\ \A s \in Step : Len(records[s]) <= MaxCalls

\* A failed step that ran alone leaves the task directory exactly as it
\* found it, with its journal entry marked, provided it found no empty file
\* and its snapshots were not swept away meanwhile (Rollback, MarkRolledBack).
RollbackExact ==
    \A s \in Step :
        /\ staging /\ at[s] = "compensate"
        /\ s \notin shared \cup swept /\ \A p \in Path : pre[s][p] # {}
        => /\ dir = pre[s]
           /\ \E i \in EntriesOf(journal, s) : journal[i].rolled

\* Every step that ended has its entry in the journal, unless a sweep came
\* by or a rewrite missed it (RecordPostStepSnapshot, MarkRolledBack).
JournalComplete ==
    staging /\ ~raced /\ faults = 0 =>
        \A s \in Step : at[s] \in {"ok", "blocked"} => EntriesOf(journal, s) # {}

\* A side-loaded result of a step that succeeded alone stays: what later
\* steps roll back is theirs (Handle, Rollback).
ResultsKept ==
    \A r \in refs : at[r[1]] = "ok" /\ r[1] \notin shared => dir[<<r[1], r[2]>>] # Absent

\* A blocked step that reached out to an external system has that effect
\* dealt with or flagged, unless the task was cancelled first, which drops
\* the records (recordEffect, CompensateStep, ClearEffectTracker).
EffectsFaced ==
    \A s \in reached : at[s] = "blocked" /\ ~over => s \in review \cup settled

\* The entries of the board are only ever added to.
AppendOnly == [][(dir[Board] \ Absent) \subseteq dir'[Board]]_vars

\* Two entries that a reader sees have different ids.
IdsUnique == \A d, e \in ReadRecent(10) : d[2] = e[2] => d = e

\* Rollback restores the directory to exactly the state of the snapshot.
RollbackRestores ==
    \A s \in Step : staging /\ at[s] = "compensate" /\ s \notin shared \cup swept => dir = pre[s]

\* Every step that ended has its entry.
JournalKept ==
    staging /\ faults = 0 =>
        \A s \in Step : at[s] \in {"ok", "blocked"} => EntriesOf(journal, s) # {}

\* What a step has just written it can read back under the same path.
ReadsBack ==
    [][\A s \in Step, f \in File, n \in BOOLEAN :
          (\E c \in {{}, {<<s, "new">>}} : WriteFile(s, f, c, n)) => resolveExistingPath(f, n)' # "missing"]_vars

\* A batch that fails leaves no temporary file.
TempsCleaned == strays = {}

\* A cancelled task none of whose steps runs any more has no tracker.
TrackerReleased == over /\ (\A s \in Step : ~Active(s)) => ~tracker
============================================================================
