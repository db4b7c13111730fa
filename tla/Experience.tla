----------------------------- MODULE Experience -----------------------------
(***************************************************************************)
(* The experience store's task patterns (store/experience_record.go,       *)
(* experience_lifecycle.go, experience_pruner.go, jit_candidate_ops.go,    *)
(* experience_skills.go): completed tasks are merged by what they did into *)
(* patterns, found again by an index and by a token cache, and written to  *)
(* disk as whole snapshots by whoever asks for it.                         *)
(*                                                                         *)
(* The other sections PersistAll writes travel with the same snapshot; the *)
(* pattern file stands for them.                                           *)
(***************************************************************************)
EXTENDS Integers, FiniteSets

CONSTANTS
    Key,          \* step sequences
    JitKey,       \* those of Key that name a generated tool
    MaxPatterns,  \* patterns kept before the oldest are evicted
    EvictShare,   \* one part in EvictShare of them goes
    MaxChanges,   \* bound: completions and replays recorded
    MaxStarts     \* bound: starts of the process

VARIABLES
    patterns,  \* TaskPatterns: id -> [key, samples, seen]
    index,     \* sequenceKeyIndex: key -> id
    tokens,    \* patternTokensCache: ids it holds, or NoCache
    file,      \* task_patterns.json, and the change it reflects
    saver,     \* the calls of PersistAll in progress
    inFlight,  \* persistInFlight
    nextId, changes, starts, mode,
    owed,      \* ghost: a change no save has been started for
    overtaken, \* ghost: an older snapshot was written over a newer one
    stale,     \* ghost: keys whose pattern start-up pruned
    replayed   \* ghost: patterns a replay inserted behind the token cache

experienceVars == <<patterns, index, tokens, file, saver, inFlight, nextId, changes,
                    starts, mode, owed, overtaken, stale, replayed>>

NoCache == {0}

NoKey == "nokey"

\* "record": the save RecordTaskCompletion starts. "caller": a synchronous one of
\* reflection, re-indexing or failure classification.
Saver == {"record", "caller"}

Idle == [pc |-> "idle", snap |-> <<>>, at |-> 0]

Init ==
    /\ patterns = <<>> /\ index = <<>> /\ tokens = NoCache
    /\ file = [patterns |-> <<>>, at |-> 0]
    /\ saver = [s \in Saver |-> Idle]
    /\ inFlight = FALSE
    /\ nextId = 1 /\ changes = 0 /\ starts = 1 /\ mode = "up"
    /\ owed = FALSE /\ overtaken = FALSE /\ stale = {} /\ replayed = {}

-----------------------------------------------------------------------------
(* Recording *)

With(f, k, v) == [x \in DOMAIN f \cup {k} |-> IF x = k THEN v ELSE f[x]]

Minus(f, ks) == [x \in DOMAIN f \ ks |-> f[x]]

\* A missing entry of a Go map reads as the zero pattern: no key, no samples.
At(ps, id) ==
    IF id \in DOMAIN ps THEN ps[id] ELSE [key |-> NoKey, samples |-> 0, seen |-> 0]

Merged(ps, id) ==
    With(ps, id, [At(ps, id) EXCEPT !.samples = @ + 1, !.seen = changes + 1])

New(k) == [key |-> k, samples |-> 1, seen |-> changes + 1]

\* At the cap, the patterns seen longest ago make room.
Evicted ==
    LET n == Cardinality(DOMAIN patterns)
        older(i) == {j \in DOMAIN patterns : patterns[j].seen < patterns[i].seen}
    IN  IF n < MaxPatterns THEN {}
        ELSE {i \in DOMAIN patterns : Cardinality(older(i)) < n \div EvictShare}

\* Variant: the index keeps the keys of evicted patterns.
IndexKept(gone) == index

IndexCleaned(gone) == Minus(index, {patterns[i].key : i \in gone})

\* A key that is known is merged, even when the index points to a pattern that
\* is no longer there. A task without a tool call has no key and never merges.
upsertTaskPattern(k) ==
    IF k \in DOMAIN index
    THEN /\ patterns' = Merged(patterns, index[k])
         /\ tokens' = IF index[k] \in DOMAIN patterns THEN tokens ELSE NoCache
         /\ UNCHANGED <<index, nextId>>
    ELSE LET gone == Evicted
         IN  /\ patterns' = With(Minus(patterns, gone), nextId, New(k))
             /\ index' = IF k = NoKey THEN IndexCleaned(gone)
                         ELSE With(IndexCleaned(gone), k, nextId)
             /\ tokens' = NoCache
             /\ nextId' = nextId + 1

\* The save is started unless one is in flight; that one counts this change only
\* if it has not taken its snapshot yet.
RecordTaskCompletion(k) ==
    /\ mode = "up"
    /\ changes < MaxChanges
    /\ changes' = changes + 1
    /\ upsertTaskPattern(k)
    /\ IF inFlight
       THEN /\ owed' = (owed \/ saver["record"].pc # "started")
            /\ UNCHANGED <<saver, inFlight>>
       ELSE /\ inFlight' = TRUE
            /\ saver' = [saver EXCEPT !["record"] = [Idle EXCEPT !.pc = "started"]]
            /\ UNCHANGED owed
    /\ UNCHANGED <<file, starts, mode, overtaken, stale, replayed>>

\* A replayed mutation is merged or inserted under its candidate's id. Neither the
\* token cache nor the disk is told.
UpsertTaskPatternFromReplay(k) ==
    /\ mode = "up"
    /\ changes < MaxChanges
    /\ changes' = changes + 1
    /\ IF k \in DOMAIN index
       THEN /\ patterns' = Merged(patterns, index[k])
            /\ replayed' = replayed \cup ({index[k]} \ DOMAIN patterns)
            /\ UNCHANGED <<index, nextId>>
       ELSE /\ patterns' = With(patterns, nextId, New(k))
            /\ index' = With(index, k, nextId)
            /\ nextId' = nextId + 1
            /\ replayed' = replayed \cup {nextId}
    /\ owed' = TRUE
    /\ UNCHANGED <<tokens, file, saver, inFlight, starts, mode, overtaken, stale>>

\* QuerySimilarPatterns fills the token cache when it is empty.
QuerySimilarPatterns ==
    /\ mode = "up"
    /\ patterns # <<>>
    /\ tokens = NoCache
    /\ tokens' = DOMAIN patterns
    /\ replayed' = {}
    /\ UNCHANGED <<patterns, index, file, saver, inFlight, nextId, changes, starts,
                   mode, owed, overtaken, stale>>

-----------------------------------------------------------------------------
(* PersistAll: a snapshot under the lock, files outside it *)

PersistStart ==
    /\ mode = "up"
    /\ saver["caller"].pc = "idle"
    /\ saver' = [saver EXCEPT !["caller"] = [Idle EXCEPT !.pc = "started"]]
    /\ UNCHANGED <<patterns, index, tokens, file, inFlight, nextId, changes, starts,
                   mode, owed, overtaken, stale, replayed>>

PersistSnapshot(s) ==
    /\ saver[s].pc = "started"
    /\ saver' = [saver EXCEPT ![s] = [pc |-> "writing", snap |-> patterns, at |-> changes]]
    /\ owed' = FALSE
    /\ UNCHANGED <<patterns, index, tokens, file, inFlight, nextId, changes, starts,
                   mode, overtaken, stale, replayed>>

\* Writers are not ordered among themselves.
PersistWrite(s) ==
    /\ saver[s].pc = "writing"
    /\ file' = [patterns |-> saver[s].snap, at |-> saver[s].at]
    /\ overtaken' = (IF saver[s].at < file.at THEN TRUE
                     ELSE IF saver[s].at > file.at THEN FALSE ELSE overtaken)
    /\ saver' = [saver EXCEPT ![s] = Idle]
    /\ inFlight' = (inFlight /\ s # "record")
    /\ UNCHANGED <<patterns, index, tokens, nextId, changes, starts, mode, owed, stale,
                   replayed>>

-----------------------------------------------------------------------------
(* The life of the process *)

\* Variant: shutdown does not wait for the asynchronous save.
StopsAtOnce == TRUE

WaitAsyncSaves == saver["record"] = Idle

\* An orderly shutdown waits for the saves under way and starts none. Background
\* callers of PersistAll are waited for by the engine before that.
Shutdown ==
    /\ mode = "up"
    /\ WaitAsyncSaves
    /\ saver["caller"] = Idle
    /\ mode' = "down"
    /\ UNCHANGED <<patterns, index, tokens, file, saver, inFlight, nextId, changes,
                   starts, owed, overtaken, stale, replayed>>

\* A crash tears the file that is being written: it does not parse any more.
Crash ==
    /\ mode = "up" /\ starts < MaxStarts
    /\ mode' = "crashed"
    /\ \/ UNCHANGED file
       \/ /\ \E s \in Saver : saver[s].pc = "writing"
          /\ file' = [patterns |-> <<>>, at |-> 0]
    /\ saver' = [s \in Saver |-> Idle]
    /\ inFlight' = FALSE
    /\ UNCHANGED <<patterns, index, tokens, nextId, changes, starts, owed, overtaken,
                   stale, replayed>>

\* Rebuilt on load: of two patterns with one key the index takes either.
Indexes(ps) ==
    LET keys == {ps[i].key : i \in DOMAIN ps} \ {NoKey}
    IN  {f \in [keys -> DOMAIN ps] : \A k \in keys : ps[f[k]].key = k}

\* Start-up deletes the patterns that name a generated tool which did not survive
\* the restart, after the index was built.
PruneStaleJITRefs(ps, live) ==
    {i \in DOMAIN ps : ps[i].key \in JitKey /\ ps[i].key \notin live}

Start ==
    /\ mode \in {"down", "crashed"} /\ starts < MaxStarts
    /\ starts' = starts + 1
    /\ mode' = "up"
    /\ \E live \in SUBSET JitKey :
         LET gone == PruneStaleJITRefs(file.patterns, live)
         IN  /\ patterns' = Minus(file.patterns, gone)
             /\ stale' = {file.patterns[i].key : i \in gone}
    /\ index' \in Indexes(file.patterns)
    /\ tokens' = NoCache
    /\ file' = [file EXCEPT !.at = changes]
    /\ owed' = FALSE /\ overtaken' = FALSE /\ replayed' = {}
    /\ UNCHANGED <<saver, inFlight, nextId, changes>>

Next ==
    \/ \E k \in Key \cup {NoKey} : RecordTaskCompletion(k)
    \/ \E k \in Key : UpsertTaskPatternFromReplay(k)
    \/ QuerySimilarPatterns
    \/ PersistStart
    \/ \E s \in Saver : PersistSnapshot(s) \/ PersistWrite(s)
    \/ Shutdown \/ Crash \/ Start

Spec == Init /\ [][Next]_experienceVars

-----------------------------------------------------------------------------
(* Properties *)

\* Patterns, index and savers have their shape; the file is never ahead.
TypeOK ==
    /\ \A i \in DOMAIN patterns : patterns[i].key \in Key \cup {NoKey}
    /\ DOMAIN index \subseteq Key
    /\ file.at <= changes
    /\ \A s \in Saver : saver[s].pc \in {"idle", "started", "writing"}
    /\ inFlight <=> saver["record"].pc # "idle"

\* The index finds history: it leads from each key to a live pattern of that key,
\* through merging, eviction, replay and restart, save for keys whose pattern
\* start-up pruned.
IndexFindsHistory ==
    mode = "up" =>
        \A k \in DOMAIN index \ stale :
            index[k] \in DOMAIN patterns /\ patterns[index[k]].key = k

\* The same without the exception: what upsertTaskPattern's own eviction is
\* careful about (experience_record.go, audit L-MED-5).
IndexNeverStale ==
    mode = "up" =>
        \A k \in DOMAIN index :
            index[k] \in DOMAIN patterns /\ patterns[index[k]].key = k

\* What one composition did is told by one pattern, except for a key whose
\* pattern was pruned at start-up.
OnePatternPerKey ==
    \A i, j \in DOMAIN patterns :
        /\ patterns[i].key = patterns[j].key
        /\ patterns[i].key \notin {NoKey} \cup stale
        => i = j

\* Every pattern can be retrieved: a filled token cache covers it, unless a
\* replay inserted it behind the cache.
Retrievable ==
    tokens = NoCache \/ DOMAIN patterns \subseteq tokens \cup replayed

\* After an orderly shutdown the disk holds everything that was recorded, unless
\* a change came after the snapshot of the save that was running (or from a
\* replay, which starts none), or a slower save wrote an older snapshot last.
ShutdownKeepsAll ==
    mode = "down" => file.at = changes \/ owed \/ overtaken

=============================================================================
