------------------------------- MODULE Archive -------------------------------
(***************************************************************************)
(* The context archive (core/context_archive.go): step results and chat    *)
(* turns are appended to memory and to one line-oriented file; searches    *)
(* read what the file gained, rebuild a text index when it is dirty and    *)
(* answer from memory; the cycle breaker marks items stale by rewriting    *)
(* the file from memory.                                                   *)
(*                                                                         *)
(* An item is a number; TaskOf and NodeOf of an item are kept in the item. *)
(* Node ids are step ids, which tasks choose for themselves: two tasks may *)
(* use the same one. No caller gives an item a TTL or deletes by scope.    *)
(***************************************************************************)
EXTENDS Integers, Sequences, SequencesExt, FiniteSets

CONSTANTS
    Task, Step,
    maxInMemoryItems,
    MaxItems,    \* bound: items appended
    MaxFaults    \* bound: failed writes, torn lines and restarts

VARIABLES
    file,      \* lines of context.jsonl: items, or Torn
    items,     \* in memory
    offset,    \* lastOffset, in lines
    dirty,     \* indexDirty
    docs,      \* the text index: node id -> number of the item indexed
    build,     \* BuildIndex between its snapshot and its result
    answer,    \* the latest answer of a search
    count, faults,
    hidden,    \* ghost: items of the file that memory has skipped or dropped
    marked,    \* ghost: items marked stale, in this process or before
    unmarked,  \* ghost: those whose mark did not reach the file
    behind     \* ghost: items appended or read while an index was built

archiveVars == <<file, items, offset, dirty, docs, build, answer, count, faults,
                 hidden, marked, unmarked, behind>>

Torn == [n |-> 0, task |-> "none", step |-> "none", stale |-> FALSE]

Unbuilt == [s \in {} |-> 0]

NoBuild == [on |-> FALSE, snap |-> <<>>]

NoAnswer == [via |-> "none", got |-> {}]

Numbers(lines) == {lines[i].n : i \in DOMAIN lines} \ {0}

Init ==
    /\ file = <<>> /\ items = <<>> /\ offset = 0
    /\ dirty = FALSE /\ docs = Unbuilt /\ build = NoBuild
    /\ answer = NoAnswer /\ count = 0 /\ faults = 0
    /\ hidden = {} /\ marked = {} /\ unmarked = {} /\ behind = {}

-----------------------------------------------------------------------------
(* Appending and reading *)

\* The newest maxInMemoryItems are kept.
Capped(s) == IF Len(s) > maxInMemoryItems
             THEN SubSeq(s, Len(s) - maxInMemoryItems + 1, Len(s)) ELSE s

\* A line written behind a torn one is read as part of it.
WriteLine(f, it) ==
    IF f # <<>> /\ Last(f) = Torn THEN f ELSE Append(f, it)

\* Lines at or before the offset count as read, whether or not they were.
Skipped(f, its, off) ==
    Numbers(SubSeq(f, 1, off)) \ Numbers(its)

\* archive.Append: memory first, then the file, then the offset jumps to its end.
AppendItem(t, s) ==
    LET it == [n |-> count + 1, task |-> t, step |-> s, stale |-> FALSE]
    IN  /\ count < MaxItems
        /\ count' = count + 1
        /\ items' = Capped(Append(items, it))
        /\ dirty' = TRUE
        /\ behind' = IF build.on THEN behind \cup {it.n} ELSE behind
        /\ \/ /\ file' = WriteLine(file, it)
              /\ offset' = Len(file')
              /\ UNCHANGED faults
           \/ /\ faults < MaxFaults      \* the write failed: memory keeps the item
              /\ faults' = faults + 1
              /\ UNCHANGED <<file, offset>>
        /\ hidden' = hidden \cup Skipped(file', items', offset')
        /\ UNCHANGED <<docs, build, answer, marked, unmarked>>

\* Variant: the offset stays where reading began.
OffsetKept(f) == offset

OffsetAfterLoad(f) == Len(f)

\* Reads the lines behind the offset up to a malformed one; the decoder has
\* consumed the rest as well.
Load ==
    LET fresh  == SubSeq(file, offset + 1, Len(file))
        good   == {k \in 0..Len(fresh) : \A i \in 1..k : fresh[i] # Torn}
        upTo   == CHOOSE k \in good : \A j \in good : j <= k
        new    == SubSeq(fresh, 1, upTo)
    IN  /\ items' = Capped(items \o new)
        /\ offset' = OffsetAfterLoad(file)
        /\ dirty' = (dirty \/ upTo > 0)
        /\ hidden' = hidden \cup Skipped(file, items', offset')

-----------------------------------------------------------------------------
(* Searching *)

\* Search begins: load, then snapshot for the index if it has to be rebuilt.
SearchStart ==
    /\ ~build.on
    /\ Load
    /\ IF dirty' \/ docs = Unbuilt
       THEN build' = [on |-> TRUE, snap |-> items'] /\ behind' = {}
       ELSE UNCHANGED <<build, behind>>
    /\ UNCHANGED <<file, docs, answer, count, faults, marked, unmarked>>

\* One document per node id: of several items with one id the last is indexed.
DocsOf(snap) ==
    [s \in {snap[i].step : i \in DOMAIN snap} |->
        snap[CHOOSE i \in DOMAIN snap :
                /\ snap[i].step = s
                /\ \A j \in DOMAIN snap : snap[j].step = s => j <= i].n]

\* BuildIndex clears the flag without looking at what arrived meanwhile.
BuildIndex ==
    /\ build.on
    /\ docs' = DocsOf(build.snap)
    /\ dirty' = FALSE
    /\ build' = NoBuild
    /\ UNCHANGED <<file, items, offset, answer, count, faults, hidden,
                   marked, unmarked, behind>>

InScope(t) == {i \in DOMAIN items : items[i].task = t}

\* Variant: stale items are recalled like any other.
AnyItem(is) == is

filterActiveItems(is) == {i \in is : ~items[i].stale}

\* Search answers from memory: its task's items, without the stale ones.
Search(t) ==
    /\ ~build.on
    /\ answer' = [via |-> "search",
                  got |-> {items[i].n : i \in filterActiveItems(InScope(t))}]
    /\ answer' # answer
    /\ UNCHANGED <<file, items, offset, dirty, docs, build, count, faults, hidden,
                   marked, unmarked, behind>>

\* SearchRecentStepSummaries: load, then the task's items whatever their status.
SearchRecentStepSummaries(t) ==
    /\ Load
    /\ answer' = [via |-> "recent",
                  got |-> {items'[i].n : i \in {j \in DOMAIN items' : items'[j].task = t}}]
    /\ answer' # answer
    /\ behind' = IF build.on THEN behind \cup (Numbers(items') \ Numbers(items)) ELSE behind
    /\ UNCHANGED <<file, docs, build, count, faults, marked, unmarked>>

-----------------------------------------------------------------------------
(* Marking *)

\* The cycle breaker's fuse: mark in memory, then write the file from memory. A
\* failed write is only warned about.
MarkStaleByStep(t, ss) ==
    LET hit(i) == items[i].task = t /\ items[i].step \in ss /\ ~items[i].stale
        now    == {items[i].n : i \in {j \in DOMAIN items : hit(j)}}
        after  == [i \in DOMAIN items |->
                      IF hit(i) THEN [items[i] EXCEPT !.stale = TRUE] ELSE items[i]]
    IN  /\ \E i \in DOMAIN items : hit(i)
        /\ items' = after
        /\ dirty' = TRUE
        /\ marked' = marked \cup now
        /\ \/ /\ file' = after
              /\ offset' = Len(after)
              /\ unmarked' = {}
              /\ UNCHANGED faults
           \/ /\ faults < MaxFaults
              /\ faults' = faults + 1
              /\ unmarked' = unmarked \cup now
              /\ UNCHANGED <<file, offset>>
        /\ UNCHANGED <<docs, build, answer, count, hidden, behind>>

\* The process ends, perhaps while a line is being written. Nothing is loaded at
\* the start: that is left to the first search.
Restart ==
    /\ faults < MaxFaults
    /\ faults' = faults + 1
    /\ \/ UNCHANGED file
       \/ file' = Append(file, Torn)
    /\ items' = <<>> /\ offset' = 0
    /\ dirty' = FALSE /\ docs' = Unbuilt /\ build' = NoBuild
    /\ answer' = NoAnswer /\ hidden' = {} /\ behind' = {}
    /\ UNCHANGED <<count, marked, unmarked>>

Next ==
    \/ \E t \in Task, s \in Step : AppendItem(t, s)
    \/ SearchStart
    \/ BuildIndex
    \/ \E t \in Task : Search(t) \/ SearchRecentStepSummaries(t)
    \/ \E t \in Task, ss \in SUBSET Step : MarkStaleByStep(t, ss)
    \/ Restart

Spec == Init /\ [][Next]_archiveVars

-----------------------------------------------------------------------------
(* Properties *)

\* Memory never outgrows its limit, and the offset stays within the file.
TypeOK ==
    /\ Len(items) <= maxInMemoryItems
    /\ offset \in 0..Len(file)
    /\ \A i \in DOMAIN items : items[i].n \in 1..count

\* An item is in memory at most once: the incremental read never re-reads what an
\* append has already put there.
NoEcho ==
    \A i, j \in DOMAIN items : items[i].n = items[j].n => i = j

\* Rewriting the file to mark items stale forgets no item, except those memory
\* never read or no longer holds.
ForgetsHiddenOnly == Numbers(file) \ Numbers(file') \subseteq hidden
RewriteKeepsHistory == [][ForgetsHiddenOnly]_archiveVars

\* The same without the exception, as the comment of the archive has it.
HistoryKept ==
    [][Numbers(file) \subseteq Numbers(file')]_archiveVars

\* An item once marked stale, in this or in an earlier process, is not recalled
\* by Search, unless its mark did not reach the file.
FindsNoMarked ==
    answer' # answer /\ answer'.via = "search" => answer'.got \cap marked \subseteq unmarked
SearchSkipsStale == [][FindsNoMarked]_archiveVars

\* No way of recalling returns them: the memory of a failing step "should not be
\* recalled in future searches" (context_archive.go:624).
NeverRecallsStale ==
    [][answer' # answer => answer'.got \cap marked \subseteq unmarked]_archiveVars

\* A clean index knows every item in memory, unless the item came while the index
\* was being built or shares its node id with a later one.
IndexCovers ==
    ~dirty /\ ~build.on /\ docs # Unbuilt =>
        \A i \in DOMAIN items :
            \/ items[i].n \in behind
            \/ /\ items[i].step \in DOMAIN docs
               /\ docs[items[i].step] = items[i].n
            \/ \E j \in DOMAIN items : j > i /\ items[j].step = items[i].step

=============================================================================
