--------------------------- MODULE ConfigStore ---------------------------
(***************************************************************************)
(* The configuration registry on disk (config/): CommitOps, the write-ahead*)
(* log of VORTEX_WAL_ENABLED, snapshots split over section files and a      *)
(* main file, the check against hand edits, compaction, rollback, reload    *)
(* and restart.  A configuration is the list kept in the main file (items:  *)
(* patches of a slice, which do not commute with their own repetition) and  *)
(* the set of entries of the section files (sect).  A commit is the number  *)
(* of its patch.                                                            *)
(***************************************************************************)
EXTENDS Integers, Sequences, SequencesExt, FiniteSets

CONSTANTS
  Committer,    \* goroutines in CommitOps
  MaxOps,       \* bound on patches and hand edits
  SectionOps,   \* the patches of an entry of a section
  MaxCrashes    \* bound on crashes

VARIABLES
  walMode,      \* VORTEX_WAL_ENABLED
  mem,          \* Registry: [items, sect]
  main,         \* main file: [present, ok, items, ckpt]
  sect,         \* section files
  bak,          \* .bak copy of the main file
  wal,          \* the log: commits, or Torn
  stale,        \* the main file is newer than the loaded snapshot
  due,          \* ... or than the watcher's lastMod
  compactor,    \* the compactor was created
  commit,       \* [at, op, snap] of each committer
  force,        \* PersistForceSnapshot under r.Mu: [at, snap, again]
  acked,        \* patches reported as committed, and hand edits
  nextOp, crashes,
  disturbed     \* a case outside DurableOnce has happened

configVars == <<walMode, mem, main, sect, bak, wal, stale, due, compactor,
                commit, force, acked, nextOp, crashes, disturbed>>

Op == 1..MaxOps
Torn == 0
NoCommit == 0
Nothing == [items |-> <<>>, sect |-> {}, ckpt |-> NoCommit]
NoFile == [present |-> FALSE, ok |-> TRUE, items |-> <<>>, ckpt |-> NoCommit]
Free == [at |-> "idle", op |-> 0, snap |-> Nothing]
Unforced == [at |-> "idle", snap |-> Nothing, again |-> FALSE]

TypeOK ==
  /\ walMode \in BOOLEAN /\ stale \in BOOLEAN /\ due \in BOOLEAN
  /\ compactor \in BOOLEAN /\ disturbed \in BOOLEAN
  /\ Range(mem.items) \subseteq Op /\ mem.sect \subseteq SectionOps
  /\ Range(main.items) \subseteq Op /\ main.ckpt \in Op \cup {NoCommit}
  /\ sect \subseteq SectionOps
  /\ Range(wal) \subseteq Op \cup {Torn}
  /\ acked \subseteq Op
  /\ nextOp \in 1..(MaxOps + 1) /\ crashes \in 0..MaxCrashes
  /\ \A c \in Committer : commit[c].at \in {"idle", "append", "check", "sections", "main"}
  /\ force.at \in {"idle", "main", "clear", "clear again"}

Init ==
  /\ walMode \in BOOLEAN
  /\ mem = [items |-> <<>>, sect |-> {}]
  /\ main \in {NoFile, [NoFile EXCEPT !.present = TRUE]}
  /\ sect = {} /\ bak = main
  /\ wal = <<>> /\ compactor = walMode
  /\ stale = FALSE /\ due = FALSE
  /\ commit = [c \in Committer |-> Free] /\ force = Unforced
  /\ acked = {} /\ nextOp = 1 /\ crashes = 0 /\ disturbed = FALSE

----------------------------------------------------------------------------
(* Patches and the log.                                                    *)

\* ApplyPatch: an entry of a section is set, a slice grows.
ApplyPatch(m, o) ==
  IF o \in SectionOps THEN [m EXCEPT !.sect = @ \cup {o}]
  ELSE [m EXCEPT !.items = Append(@, o)]

\* The commits of a log up to its first unreadable line.
Readable(log) ==
  LET bad == {i \in DOMAIN log : log[i] = Torn}
  IN IF bad = {} THEN log ELSE SubSeq(log, 1, (CHOOSE i \in bad : \A j \in bad : i <= j) - 1)

\* LastCommitID passes over lines it cannot read.
LastCommitID(log) ==
  LET good == SelectSeq(log, LAMBDA o : o # Torn)
  IN IF good = <<>> THEN NoCommit ELSE Last(good)

\* Mutant: the checkpoint is ignored.
ReplayEverything(m, log, since) == FoldLeft(ApplyPatch, m, Readable(log))

\* ReplaySince: what follows the checkpoint, or the whole log when it is absent.
ReplaySince(m, log, since) ==
  LET good == Readable(log)
      at == {i \in DOMAIN log : log[i] = since /\ since # NoCommit}
      first == IF at = {} THEN 1 ELSE (CHOOSE i \in at : \A j \in at : i <= j) + 1
  IN FoldLeft(ApplyPatch, m, SubSeq(good, first, Len(good)))

\* ReplayUntil: from the first line to the commit, or to the end.
ReplayUntil(m, log, upTo) ==
  LET at == {i \in DOMAIN log : log[i] = upTo}
      last == IF at = {} THEN Len(log) ELSE CHOOSE i \in at : \A j \in at : i <= j
  IN FoldLeft(ApplyPatch, m, SubSeq(log, 1, last))

----------------------------------------------------------------------------
(* CommitOps.                                                              *)

Unlocked == force.at = "idle"          \* r.Mu is free
Busy == {c \in Committer : commit[c].at # "idle"}
Writing == {c \in Committer : commit[c].at \in {"sections", "main"}}
Late == {c \in Committer : commit[c].at = "append"}
Disturb(p) == disturbed' = (disturbed \/ p)
snapshot == [items |-> mem.items, sect |-> mem.sect,
             ckpt |-> IF walMode THEN LastCommitID(wal) ELSE NoCommit]

\* The patch is applied to memory under the lock, which is then released.
CommitApply(c) ==
  /\ Unlocked /\ commit[c].at = "idle" /\ nextOp \in Op
  /\ mem' = ApplyPatch(mem, nextOp)
  /\ commit' = [commit EXCEPT ![c] = [Free EXCEPT !.at = IF walMode THEN "append" ELSE "check",
                                                 !.op = nextOp]]
  /\ nextOp' = nextOp + 1
  /\ UNCHANGED <<walMode, main, sect, bak, wal, stale, due, compactor, force, acked,
                 crashes, disturbed>>

\* A later operation of the patch fails: the first ones stay applied.
CommitRejected(c) ==
  /\ Unlocked /\ commit[c].at = "idle" /\ nextOp \in Op
  /\ mem' = ApplyPatch(mem, nextOp)
  /\ nextOp' = nextOp + 1
  /\ UNCHANGED <<walMode, main, sect, bak, wal, stale, due, compactor, commit, force,
                 acked, crashes, disturbed>>

\* wal.Append, outside the lock: it is written and synced, or it fails.
CommitAppend(c) ==
  /\ commit[c].at = "append"
  /\ commit' = [commit EXCEPT ![c] = Free]
  /\ \/ wal' = Append(wal, commit[c].op) /\ acked' = acked \cup {commit[c].op}
     \/ UNCHANGED <<wal, acked>>
  /\ UNCHANGED <<walMode, mem, main, sect, bak, stale, due, compactor, force, nextOp,
                 crashes, disturbed>>

\* Mutant: the file is overwritten whatever has happened to it.
NeverStale == TRUE

\* checkNotStaleForPersist
checkNotStaleForPersist == ~(main.present /\ stale)

\* Persist: check and snapshot under the read lock; a stale file is an error.
PersistCheck(c) ==
  /\ Unlocked /\ commit[c].at = "check"
  /\ commit' = [commit EXCEPT ![c] =
                  IF checkNotStaleForPersist THEN [@ EXCEPT !.at = "sections", !.snap = snapshot]
                  ELSE Free]
  /\ Disturb(Writing # {})
  /\ UNCHANGED <<walMode, mem, main, sect, bak, wal, stale, due, compactor, force, acked,
                 nextOp, crashes>>

\* writeSplit, outside the lock: the sections ...
PersistSections(c) ==
  /\ commit[c].at = "sections"
  /\ sect' = commit[c].snap.sect
  /\ commit' = [commit EXCEPT ![c].at = "main"]
  /\ UNCHANGED <<walMode, mem, main, bak, wal, stale, due, compactor, force, acked,
                 nextOp, crashes, disturbed>>

WriteMain(s) ==
  /\ main' = [present |-> TRUE, ok |-> TRUE, items |-> s.items, ckpt |-> s.ckpt]
  /\ stale' = FALSE /\ due' = TRUE

\* ... then the main file, and the loaded snapshot is the file just written.
PersistMain(c) ==
  /\ commit[c].at = "main"
  /\ WriteMain(commit[c].snap)
  /\ acked' = acked \cup {commit[c].op}
  /\ commit' = [commit EXCEPT ![c] = Free]
  /\ UNCHANGED <<walMode, mem, sect, bak, wal, compactor, force, nextOp, crashes, disturbed>>

----------------------------------------------------------------------------
(* Compaction and rollback hold r.Mu through PersistForceSnapshot.         *)

\* Compact: archive, snapshot, sections.
CompactStart ==
  /\ compactor /\ Unlocked /\ wal # <<>> /\ checkNotStaleForPersist
  /\ sect' = mem.sect
  /\ force' = [at |-> "main", snap |-> snapshot, again |-> TRUE]
  /\ Disturb(Late # {})
  /\ UNCHANGED <<walMode, mem, main, bak, wal, stale, due, compactor, commit, acked,
                 nextOp, crashes>>

\* RollbackTo: the base snapshot, the log from its start up to the commit.
RollbackTo(upTo) ==
  LET m == ReplayUntil([items |-> main.items, sect |-> sect], wal, upTo)
  IN /\ walMode /\ Unlocked /\ main.present /\ main.ok
     /\ mem' = m
     /\ sect' = m.sect
     /\ force' = [at |-> "main", again |-> FALSE,
                  snap |-> [items |-> m.items, sect |-> m.sect, ckpt |-> LastCommitID(wal)]]
     /\ acked' = acked \cap (Range(m.items) \cup m.sect)
     /\ bak' = IF bak.present THEN bak ELSE main
     /\ Disturb(Busy # {} \/ main.ckpt \in Range(wal))
     /\ UNCHANGED <<walMode, main, wal, stale, due, compactor, commit, nextOp, crashes>>

ForceMain ==
  /\ force.at = "main"
  /\ WriteMain(force.snap)
  /\ force' = [force EXCEPT !.at = "clear"]
  /\ UNCHANGED <<walMode, mem, sect, bak, wal, compactor, commit, acked, nextOp, crashes, disturbed>>

\* wal.Clear, which Compact calls a second time.
ForceClear ==
  /\ force.at \in {"clear", "clear again"}
  /\ wal' = <<>>
  /\ force' = IF force.at = "clear" /\ force.again THEN [force EXCEPT !.at = "clear again"]
              ELSE Unforced
  /\ UNCHANGED <<walMode, mem, main, sect, bak, stale, due, compactor, commit, acked,
                 nextOp, crashes, disturbed>>

----------------------------------------------------------------------------
(* Reload, hand edits, crash and restart.                                  *)

\* loadWithFallbackLocked: the main file is copied to .bak when there is no
\* .bak, before it is parsed; an unreadable one is replaced by the .bak.
Copied == IF bak.present THEN bak ELSE main
Restored == IF main.ok THEN main ELSE Copied
Kept == IF main.ok THEN Copied ELSE NoFile

\* loadLocked: what the files hold replaces memory; without a readable main
\* file the defaults are added to what memory has.
loadLocked(m) ==
  IF Restored.present /\ Restored.ok THEN [items |-> Restored.items, sect |-> sect] ELSE m

\* StartWatcher's poll.  It does not replay the log.
Reload ==
  /\ Unlocked /\ due
  /\ mem' = loadLocked(mem)
  /\ main' = Restored /\ bak' = Kept
  /\ stale' = (stale /\ ~Restored.ok)
  /\ due' = FALSE
  /\ Disturb(~main.ok \/ Busy # {} \/ wal # <<>>)
  /\ UNCHANGED <<walMode, sect, wal, compactor, commit, force, acked, nextOp, crashes>>

\* Registry.Load, asked for by an operator: an unreadable file is an error.
Load ==
  /\ Unlocked /\ main.present /\ main.ok
  /\ mem' = [items |-> main.items, sect |-> sect]
  /\ stale' = FALSE
  /\ Disturb(Busy # {} \/ wal # <<>>)
  /\ UNCHANGED <<walMode, main, sect, bak, wal, due, compactor, commit, force, acked,
                 nextOp, crashes>>

\* Someone edits the main file, well or badly.
HandEdit(well) ==
  /\ main.present /\ main.ok /\ nextOp \in Op \ SectionOps
  /\ main' = IF well THEN [main EXCEPT !.items = Append(@, nextOp)] ELSE [main EXCEPT !.ok = FALSE]
  /\ acked' = IF well THEN acked \cup {nextOp} ELSE acked
  /\ nextOp' = nextOp + 1
  /\ stale' = TRUE /\ due' = TRUE
  /\ Disturb(~well \/ Writing # {} \/ ~Unlocked)
  /\ UNCHANGED <<walMode, mem, sect, bak, wal, compactor, commit, force, crashes>>

\* The process dies, perhaps inside an append, and NewRegistry starts over:
\* files, then the log after the checkpoint; a log with an unreadable line is
\* set aside once its first commits are applied, and no compactor is made.
Restart ==
  \E torn \in (IF Late # {} THEN BOOLEAN ELSE {FALSE}) :
    LET log == IF torn THEN Append(wal, Torn) ELSE wal
        bad == walMode /\ Torn \in Range(log)
        base == loadLocked([items |-> <<>>, sect |-> {}])
    IN /\ crashes < MaxCrashes
       /\ crashes' = crashes + 1
       /\ mem' = IF walMode THEN ReplaySince(base, log, Restored.ckpt) ELSE base
       /\ main' = Restored /\ bak' = Kept
       /\ wal' = IF bad THEN <<>> ELSE log
       /\ compactor' = (walMode /\ ~bad)
       /\ stale' = FALSE /\ due' = FALSE
       /\ commit' = [c \in Committer |-> Free] /\ force' = Unforced
       /\ Disturb(bad \/ ~main.ok)
       /\ UNCHANGED <<walMode, sect, acked, nextOp>>

Next ==
  \/ \E c \in Committer : \/ CommitApply(c) \/ CommitRejected(c) \/ CommitAppend(c)
                          \/ PersistCheck(c) \/ PersistSections(c) \/ PersistMain(c)
  \/ CompactStart \/ ForceMain \/ ForceClear
  \/ \E o \in Range(wal) : RollbackTo(o)
  \/ Reload \/ Load \/ Restart
  \/ \E well \in BOOLEAN : HandEdit(well)

Spec == Init /\ [][Next]_configVars

----------------------------------------------------------------------------
(* Properties.                                                             *)

\* What a restart would make of the files now.
Recovered ==
  LET base == [items |-> main.items, sect |-> sect]
  IN IF walMode THEN ReplaySince(base, wal, main.ckpt) ELSE base

\* Every commit that was reported, and every hand edit, survives a crash at
\* any point (between the section files and the main file, between a snapshot
\* and the clearing of the log) and is applied exactly once, unless a
\* compaction met a commit between its memory and its log, a reload met an
\* uncompacted log, two writers overlapped, or a file was unreadable.
DurableOnce ==
  disturbed \/ \A o \in acked :
    IF o \in SectionOps THEN o \in Recovered.sect
    ELSE Cardinality({i \in DOMAIN Recovered.items : Recovered.items[i] = o}) = 1

\* "r's in-memory state always includes every commit appended so far."
MemoryHoldsLog == \A o \in Range(wal) \ {Torn} : o \in Range(mem.items) \cup mem.sect

=============================================================================
