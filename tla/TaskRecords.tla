---------------------------- MODULE TaskRecords ----------------------------
(***************************************************************************)
(* What is recorded of a task outside the engine's memory, and what is     *)
(* answered about it: manifest.json and the rows of the tasks and          *)
(* task_steps tables, persistGraph with its 200 ms debounce, the second    *)
(* manifest writer in finalize, delivery, cancellation, Clear, eviction,   *)
(* retention, forking a task and loading everything after a restart.       *)
(*                                                                         *)
(* A task is a chain of two steps; what a step does is left to the other   *)
(* modules.  Sharing a directory with a second engine is GraphFence's.     *)
(***************************************************************************)
EXTENDS Naturals, Sequences, FiniteSets

CONSTANTS
    Dir,            \* the task ids, in directory order
    MaxCompleted,   \* rows of ended tasks that retention keeps
    MaxOps, MaxFaults

VARIABLES
    swarm,          \* ACAIS_MODE: executors start as a watchdog
    graph,          \* the engine's graphs
    drive,          \* the executor of each: none, watch, run
    busy,           \* the steps a goroutine executes
    manifest, row,  \* manifest.json of each directory, the tasks table
    order,          \* the rows, latest update first
    result,         \* the task_steps table: steps with a stored result
    recent,         \* tasks persisted less than 200 ms ago
    deliver,        \* tasks whose delivery goroutine has not ended
    fork,           \* a fork between copying the directory and its first save
    ops, faults,
    ended,          \* ghost: how each task ended, for good
    cleared,        \* ghost: tasks that were cleared
    unsaved,        \* ghost: tasks a save of whose row failed
    skipped,        \* ghost: tasks the save of whose cancellation was debounced
    half            \* ghost: tasks a crash left with a half-made copy

records == <<swarm, graph, drive, busy, manifest, row, order, result, recent, deliver, fork,
             ops, faults, ended, cleared, unsaved, skipped, half>>

Task == {Dir[i] : i \in DOMAIN Dir}
Step == {1, 2}

None       == [status |-> "none", steps |-> [s \in Step |-> "pending"], art |-> "none", id |-> "", of |-> ""]
NoFork     == [of |-> "", to |-> "", graph |-> None]
Terminal   == {"completed", "completed_with_skips", "failed", "cancelled"}
Prunable   == {"completed", "failed", "aborted"}

isTerminalStatus(status) == status \in Terminal

Ready(g, s) == g.steps[s] = "pending" /\ (s = 1 \/ g.steps[1] \in {"ok", "skipped"})

\* Every output of the second step is the task's artifact.
buildArtifacts(g) == IF g.steps[2] = "ok" THEN "draft" ELSE "none"

StaleDict(g) == [g EXCEPT !.status = "running"]

\* Of the fields told apart here the status dictionary leaves out the parent.
ToStatusDict(g) == [g EXCEPT !.of = ""]

----------------------------------------------------------------------------
(* persistGraph.  The manifest is marshalled before the artifacts are      *)
(* rebuilt; saving the row may fail, which is only logged.                 *)

Debounced(t) == t \in recent

Rebuilt(t, g) == IF Debounced(t) THEN g ELSE [g EXCEPT !.art = buildArtifacts(g)]

SaveTask(t, status) ==
    \/ /\ row' = [row EXCEPT ![t] = status]
       /\ order' = <<t>> \o SelectSeq(order, LAMBDA u : u # t)
       /\ UNCHANGED <<faults, unsaved>>
    \/ /\ faults < MaxFaults
       /\ faults' = faults + 1
       /\ unsaved' = unsaved \cup {t}
       /\ UNCHANGED <<row, order>>

persistGraph(t, g) ==
    IF Debounced(t)
    THEN UNCHANGED <<manifest, row, order, recent, faults, unsaved>>
    ELSE /\ manifest' = [manifest EXCEPT ![t] = g]
         /\ recent' = recent \cup {t}
         /\ SaveTask(t, g.status)

----------------------------------------------------------------------------
(* Submission and execution.                                               *)

Executor == IF swarm THEN "watch" ELSE "run"

Submit(t) ==
    /\ ops < MaxOps /\ ops' = ops + 1
    /\ graph[t] = None /\ manifest[t] = None /\ t \notin cleared /\ fork.to # t
    /\ LET g == [None EXCEPT !.status = "running", !.id = t]
       IN  graph' = [graph EXCEPT ![t] = g] /\ persistGraph(t, g)
    /\ drive' = [drive EXCEPT ![t] = Executor]
    /\ UNCHANGED <<swarm, busy, result, deliver, fork, ended, cleared, skipped, half>>

\* After the delay a watchdog takes over a task on which nothing happened.
hasActivity(g) == \E s \in Step : g.steps[s] \in {"running", "ok", "partial"}

swarmWatchdog(t) ==
    /\ drive[t] = "watch"
    /\ drive' = [drive EXCEPT ![t] =
            IF graph[t].status = "running" /\ ~ hasActivity(graph[t]) THEN "run" ELSE "none"]
    /\ UNCHANGED <<swarm, graph, busy, manifest, row, order, result, recent, deliver, fork, ops,
                   faults, ended, cleared, unsaved, skipped, half>>

\* The checkpoint before the ready steps; the one after them is debounced.
Launch(t) ==
    /\ drive[t] = "run" /\ graph[t].status = "running" /\ ~ \E s \in Step : <<t, s>> \in busy
    /\ \E s \in Step :
        /\ Ready(graph[t], s)
        /\ graph' = [graph EXCEPT ![t] = [Rebuilt(t, graph[t]) EXCEPT !.steps[s] = "running"]]
        /\ busy' = busy \cup {<<t, s>>}
    /\ persistGraph(t, graph[t])
    /\ UNCHANGED <<swarm, drive, result, deliver, fork, ops, ended, cleared, skipped, half>>

\* The end of executeStep: the spawn stored its result, the graph is saved.
\* A graph that was cleared is saved too, by the pointer the goroutine has.
Finish(t) ==
    \E s \in Step : \E st \in {"ok", "failed"} :
        /\ <<t, s>> \in busy
        /\ busy' = busy \ {<<t, s>>}
        /\ result' = IF st = "ok" THEN result \cup {<<t, s>>} ELSE result
        /\ graph[t] # None
        /\ LET g == [graph[t] EXCEPT !.steps[s] = st]
           IN  graph' = [graph EXCEPT ![t] = Rebuilt(t, g)] /\ persistGraph(t, g)
        /\ UNCHANGED <<swarm, drive, deliver, fork, ops, ended, cleared, skipped, half>>

Over(g) == \A s \in Step : g.steps[s] \in {"ok", "failed", "skipped"} \/ (s = 2 /\ g.steps[1] = "failed")

FinalStatus(g) == IF \E s \in Step : g.steps[s] = "failed" THEN "failed" ELSE "completed"

KeepsPersist(t) == recent

\* lastPersistAt is forgotten, so that the save of the delivery is written.
ForgetsPersist(t) == recent \ {t}

\* finalize: saved, waiters told, then the manifest written over with the
\* status dictionary; the delivery goroutine is started.
Finalize(t) ==
    /\ drive[t] = "run" /\ graph[t].status = "running" /\ Over(graph[t])
    /\ ~ \E s \in Step : <<t, s>> \in busy
    /\ LET g == [graph[t] EXCEPT !.status = FinalStatus(graph[t])]
       IN  /\ graph' = [graph EXCEPT ![t] = Rebuilt(t, g)]
           /\ manifest' = [manifest EXCEPT ![t] = ToStatusDict(g)]
           /\ IF Debounced(t) THEN UNCHANGED <<row, order, faults, unsaved>> ELSE SaveTask(t, g.status)
           /\ ended' = [ended EXCEPT ![t] = g.status]
    /\ recent' = ForgetsPersist(t)
    /\ deliver' = deliver \cup {t}
    /\ drive' = [drive EXCEPT ![t] = "none"]
    /\ UNCHANGED <<swarm, busy, result, fork, ops, cleared, skipped, half>>

\* The artifact is published, then the graph saved once more.
deliverArtifacts(t) ==
    /\ t \in deliver
    /\ deliver' = deliver \ {t}
    /\ graph[t] # None
    /\ LET g == [graph[t] EXCEPT !.art = IF graph[t].art = "draft" THEN "published" ELSE graph[t].art]
       IN  graph' = [graph EXCEPT ![t] = Rebuilt(t, g)] /\ persistGraph(t, g)
    /\ UNCHANGED <<swarm, drive, busy, result, fork, ops, ended, cleared, skipped, half>>

----------------------------------------------------------------------------
(* Control.                                                                *)

\* The wait for the step goroutines is over when they are, or after 5 s.
CancelTask(t) ==
    /\ ops < MaxOps /\ ops' = ops + 1
    /\ graph[t].status = "running"
    /\ LET g == [graph[t] EXCEPT !.status = "cancelled"]
       IN  graph' = [graph EXCEPT ![t] = Rebuilt(t, g)] /\ persistGraph(t, g)
    /\ drive' = [drive EXCEPT ![t] = "none"]
    /\ ended' = [ended EXCEPT ![t] = "cancelled"]
    /\ skipped' = IF Debounced(t) THEN skipped \cup {t} ELSE skipped
    /\ UNCHANGED <<swarm, busy, result, deliver, fork, cleared, half>>

\* Clear waits for the steps, then deletes the results.  The manifest and
\* the row stay.
Clear(t) ==
    /\ ops < MaxOps /\ ops' = ops + 1
    /\ graph[t] # None /\ t \notin deliver
    /\ graph' = [graph EXCEPT ![t] = None]
    /\ drive' = [drive EXCEPT ![t] = "none"]
    /\ busy' = {b \in busy : b[1] # t}
    /\ recent' = recent \ {t}
    /\ result' = {r \in result : r[1] # t}
    /\ cleared' = cleared \cup {t}
    /\ UNCHANGED <<swarm, manifest, row, order, deliver, fork, faults, ended, unsaved, skipped, half>>

\* A terminal graph is dropped 30 minutes later.
Evict(t) ==
    /\ isTerminalStatus(graph[t].status) /\ t \notin deliver /\ ~ \E s \in Step : <<t, s>> \in busy
    /\ graph' = [graph EXCEPT ![t] = None]
    /\ drive' = [drive EXCEPT ![t] = "none"]
    /\ UNCHANGED <<swarm, busy, manifest, row, order, result, recent, deliver, fork, ops, faults,
                   ended, cleared, unsaved, skipped, half>>

\* 200 ms pass.
Tick ==
    /\ recent # {} /\ recent' = {}
    /\ UNCHANGED <<swarm, graph, drive, busy, manifest, row, order, result, deliver, fork, ops,
                   faults, ended, cleared, unsaved, skipped, half>>

----------------------------------------------------------------------------
(* Retention: rows of ended tasks but the latest, and the results of tasks *)
(* that have no row.                                                       *)

Kept ==
    LET endedRows == SelectSeq(order, LAMBDA u : row[u] \in Prunable)
    IN  {endedRows[i] : i \in {i \in DOMAIN endedRows : i <= MaxCompleted}}

AnyRow(t) == TRUE

PrunableRow(t) == row[t] \in Prunable

RunCompaction ==
    LET pruned == {t \in Task : PrunableRow(t) /\ t \notin Kept}
    IN  /\ ops < MaxOps /\ ops' = ops + 1
        /\ row' = [t \in Task |-> IF t \in pruned THEN "none" ELSE row[t]]
        /\ order' = SelectSeq(order, LAMBDA u : u \notin pruned)
        /\ result' = {r \in result : row'[r[1]] # "none"}
        /\ UNCHANGED <<swarm, graph, drive, busy, manifest, recent, deliver, fork, faults, ended,
                       cleared, unsaved, skipped, half>>

----------------------------------------------------------------------------
(* Forking at a step: the graph is copied, its directory with everything   *)
(* in it, and only then is the copy saved under its own id.                *)

isDownstream(s, at) == s > at

Forked(g, to, at) ==
    [g EXCEPT !.status = "running", !.id = to, !.of = g.id,
              !.steps = [s \in Step |-> IF s = at THEN "ok"
                                        ELSE IF isDownstream(s, at) THEN "pending" ELSE g.steps[s]]]

ForkCopy(t) ==
    /\ ops < MaxOps /\ ops' = ops + 1
    /\ graph[t] # None /\ fork = NoFork
    /\ \E to \in Task, at \in Step :
        /\ graph[to] = None /\ manifest[to] = None /\ to \notin cleared
        /\ fork' = [of |-> t, to |-> to, graph |-> Forked(graph[t], to, at)]
        /\ manifest' = [manifest EXCEPT ![to] = manifest[t]]
    /\ UNCHANGED <<swarm, graph, drive, busy, row, order, result, recent, deliver, faults, ended,
                   cleared, unsaved, skipped, half>>

ForkStart ==
    /\ fork # NoFork
    /\ graph' = [graph EXCEPT ![fork.to] = Rebuilt(fork.to, fork.graph)]
    /\ persistGraph(fork.to, fork.graph)
    /\ drive' = [drive EXCEPT ![fork.to] = Executor]
    /\ fork' = NoFork
    /\ UNCHANGED <<swarm, busy, result, deliver, ops, ended, cleared, skipped, half>>

----------------------------------------------------------------------------
(* A crash, and the restart: the directories are read in their order, a    *)
(* task already loaded is not replaced, running ones go on.                *)

Zombies(g) == [g EXCEPT !.steps = [s \in Step |-> IF g.steps[s] = "running" THEN "pending" ELSE g.steps[s]]]

loadGraphs(m) ==
    [t \in Task |->
        LET named == {i \in DOMAIN Dir : m[Dir[i]] # None /\ m[Dir[i]].id = t}
        IN  IF named = {} THEN None
            ELSE LET first == CHOOSE i \in named : \A j \in named : i <= j
                     g     == m[Dir[first]]
                 IN  IF g.status = "running" THEN Zombies(g) ELSE g]

Restart ==
    /\ faults < MaxFaults /\ faults' = faults + 1
    /\ graph' = loadGraphs(manifest)
    /\ drive' = [t \in Task |-> IF graph'[t].status = "running" THEN Executor ELSE "none"]
    /\ busy' = {} /\ recent' = {} /\ deliver' = {} /\ fork' = NoFork
    /\ half' = IF fork = NoFork THEN half ELSE half \cup {fork.of}
    /\ UNCHANGED <<swarm, manifest, row, order, result, ops, ended, cleared, unsaved, skipped>>

----------------------------------------------------------------------------
(* What is answered about a task.                                          *)

GetStatus(t) == IF graph[t] # None THEN graph[t].status ELSE row[t]

\* The task list: directories not in memory, a running one as orphaned.
ListGraphs(t) ==
    IF graph[t] # None THEN graph[t].status
    ELSE IF manifest[t] = None THEN "none"
    ELSE IF manifest[t].status \in {"running", "blocked"} THEN "orphaned"
    ELSE manifest[t].status

----------------------------------------------------------------------------
Init ==
    /\ swarm \in BOOLEAN
    /\ graph = [t \in Task |-> None] /\ drive = [t \in Task |-> "none"] /\ busy = {}
    /\ manifest = [t \in Task |-> None] /\ row = [t \in Task |-> "none"] /\ order = <<>>
    /\ result = {} /\ recent = {} /\ deliver = {} /\ fork = NoFork
    /\ ops = 0 /\ faults = 0
    /\ ended = [t \in Task |-> "no"] /\ cleared = {} /\ unsaved = {} /\ skipped = {} /\ half = {}

Engine(t) == swarmWatchdog(t) \/ Launch(t) \/ Finish(t) \/ Finalize(t) \/ deliverArtifacts(t)

Next ==
    \/ \E t \in Task : Submit(t) \/ Engine(t) \/ CancelTask(t) \/ Clear(t) \/ Evict(t) \/ ForkCopy(t)
    \/ ForkStart \/ Tick \/ RunCompaction \/ Restart

\* Executors, deliveries and a fork that was begun go on.
Spec == Init /\ [][Next]_records /\ (\A t \in Task : WF_records(Engine(t))) /\ WF_records(ForkStart)

----------------------------------------------------------------------------
(* Properties.                                                             *)

Graphs == [status : {"none", "running", "completed", "failed", "cancelled"},
           steps : [Step -> {"pending", "running", "ok", "failed"}],
           art : {"none", "draft", "published"}, id : Task \cup {""}, of : Task \cup {""}]

\* The shape of the records; only a running task has an executor that runs
\* it, and every row has its place in the order of the updates.
TypeOK ==
    /\ \A t \in Task : graph[t] \in Graphs /\ manifest[t] \in Graphs
    /\ drive \in [Task -> {"none", "watch", "run"}]
    /\ busy \subseteq Task \X Step /\ result \subseteq Task \X Step
    /\ row \in [Task -> {"none", "running", "completed", "failed", "cancelled"}]
    /\ \A t \in Task : (row[t] # "none") <=> (\E i \in DOMAIN order : order[i] = t)
    /\ \A t \in Task : drive[t] = "run" => graph[t].status = "running"

\* A task that ended never runs again, however often the engine restarts,
\* unless the save of its cancellation was debounced or a crash left a
\* half-made copy of its directory (persistGraph, finalize, loadGraphs).
EndedStaysEnded ==
    \A t \in Task : ended[t] # "no" /\ t \notin skipped \cup half =>
        graph[t] = None \/ graph[t].status = ended[t]

\* While a task runs, what its first step stored is there for the second:
\* retention deletes results whose task has no row, so this rests on the
\* row that the submission saves before anything runs (RunCompaction).
LiveResultsKept ==
    \A t \in Task :
        /\ graph[t].status = "running" /\ graph[t].of = "" /\ graph[t].steps[1] = "ok"
        /\ t \notin unsaved \cup cleared \cup half
        => <<t, 1>> \in result

\* A task that ended while the engine stays up has its end in the tasks
\* table at last, although the save in finalize is usually debounced: the
\* one after the delivery is not (finalize, deliverArtifacts).
HasEnded(t) == ended[t] \in {"completed", "failed"}
EndKnown(t) == row[t] \in Terminal \/ faults > 0 \/ t \in cleared \/ row[t] = "none"
EndRecorded == \A t \in Task : HasEnded(t) ~> EndKnown(t)

\* Of a task that left memory, the status query (which reads the row) and
\* the task list (which reads the manifest) say the same, when nothing failed
\* and no cancellation was debounced (GetStatus, ListGraphs).
AnswersAgree ==
    \A t \in Task : graph[t] = None /\ row[t] # "none" /\ faults = 0 /\ t \notin skipped =>
        ListGraphs(t) = IF GetStatus(t) = "running" THEN "orphaned" ELSE GetStatus(t)

\* A task that ended, and is no longer in memory, is answered with how it
\* ended.
EvictedKnown ==
    \A t \in Task : ended[t] # "no" /\ graph[t] = None /\ row[t] # "none" => GetStatus(t) = ended[t]

\* No persist that matters is skipped: a cancelled task is not running
\* again after a restart.
CancelHolds == \A t \in Task : ended[t] = "cancelled" /\ half = {} => graph[t].status # "running"

\* A cleared task is not made again.
ClearedStaysGone == \A t \in cleared : graph[t] = None

\* A fork, like every running task, gets to its end.
ForkEnds == \A t \in Task : graph[t].status = "running" ~> graph[t].status # "running"
============================================================================
