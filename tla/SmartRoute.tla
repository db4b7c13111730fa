---------------------------- MODULE SmartRoute ----------------------------
(***************************************************************************)
(* One single-step task from submission to verdict: the smart-routing fast  *)
(* path of SubmitWithSessionIR (core/scheduler_submit.go), which spawns     *)
(* without a run loop; the decisions and fulfilments that answer it; the    *)
(* run loop that a delegation, a resume or a restart starts beside it; the  *)
(* control operations of core/scheduler_taskctl.go; the debounced manifest  *)
(* (persistGraph) and loadGraphs after a crash.                             *)
(***************************************************************************)
EXTENDS Integers

CONSTANTS
  MaxRefine,     \* the step's MaxAutoRefine
  MaxRestarts,   \* bound on crashes
  MaxControls    \* bound on cancel, suspend, resume, clear and evict

VARIABLES
  criteria,   \* the step declares exit criteria
  graph,      \* [live, smart, status, step, decision]; live: in s.graphs
  manifest,   \* the graph as last written to manifest.json
  recent,     \* persistGraph wrote less than 200 ms ago
  done,       \* doneChans entry: "none", "open", "closed"
  ctx,        \* cancelFuncs entry: "none", "live", "fired"
  fast,       \* fast-path goroutine: [at, result, refined]
  loop,       \* run: [at, life, verdict]; life: under lifecycleCtx
  fulfil,     \* a FulfillStep between its two phases
  saving,     \* a persistGraph is still to be made
  events,     \* terminal events published
  controls, restarts,
  retried,    \* a retry was answered on a smart-routed graph
  doubled     \* resumed while the fast path was still under way

routeVars == <<criteria, graph, manifest, recent, done, ctx, fast, loop, fulfil,
               saving, events, controls, restarts, retried, doubled>>

Absent == [live |-> FALSE, smart |-> TRUE, status |-> "absent", step |-> "pending",
           decision |-> "none"]
NoFast == [at |-> "none", result |-> "none", refined |-> 0]
NoLoop == [at |-> "none", life |-> FALSE, verdict |-> "none"]
Results == {"ok", "fallback", "partial", "delegation", "failed", "error"}
Verdict == {"completed", "completed_with_skips", "failed"}

TypeOK ==
  /\ graph.status \in {"absent", "running", "suspended", "cancelled"} \cup Verdict
  /\ graph.step \in {"pending", "running", "ok", "partial", "failed", "blocked", "skipped"}
  /\ graph.decision \in {"none", "plan", "delegation", "failed"}
  /\ done \in {"none", "open", "closed"} /\ ctx \in {"none", "live", "fired"}
  /\ fast.at \in {"new", "none", "spawn", "verify", "assign", "decide", "persist", "done", "event"}
  /\ fast.refined \in 0..MaxRefine
  /\ loop.at \in {"none", "scan", "step", "final", "publish"}
  /\ events \in 0..3 /\ controls \in 0..MaxControls /\ restarts \in 0..MaxRestarts

Init ==
  /\ criteria \in BOOLEAN
  /\ graph = Absent /\ manifest = Absent /\ recent = FALSE
  /\ done = "none" /\ ctx = "none"
  /\ fast = [NoFast EXCEPT !.at = "new"] /\ loop = NoLoop
  /\ fulfil = FALSE /\ saving = FALSE /\ events = 0
  /\ controls = 0 /\ restarts = 0 /\ retried = FALSE /\ doubled = FALSE

----------------------------------------------------------------------------
(* The manifest.                                                           *)

\* persistGraph, which returns early within 200 ms of the last write.
persistGraph ==
  IF recent THEN UNCHANGED <<manifest, recent>> ELSE manifest' = graph /\ recent' = TRUE

SaveLater ==
  /\ saving
  /\ saving' = FALSE
  /\ persistGraph
  /\ UNCHANGED <<criteria, graph, done, ctx, fast, loop, fulfil, events, controls, restarts, retried, doubled>>

Debounced ==
  /\ recent /\ recent' = FALSE
  /\ UNCHANGED <<criteria, graph, manifest, done, ctx, fast, loop, fulfil, saving, events,
                 controls, restarts, retried, doubled>>

----------------------------------------------------------------------------
(* The fast path.                                                          *)

\* Mutant: the channel is left open.
KeepOpen(d) == d

broadcastDone(d) == IF d = "open" THEN "closed" ELSE d

\* The minimal graph is registered; in delegation mode with planner-first the
\* step is parked on the host's plan and nothing is spawned.
Submit(plan) ==
  /\ fast.at = "new"
  /\ graph' = [live |-> TRUE, smart |-> TRUE, status |-> "running",
               step |-> IF plan THEN "blocked" ELSE "pending",
               decision |-> IF plan THEN "plan" ELSE "none"]
  /\ fast' = [NoFast EXCEPT !.at = IF plan THEN "none" ELSE "spawn"]
  /\ ctx' = "live" /\ done' = "open" /\ saving' = TRUE
  /\ UNCHANGED <<criteria, manifest, recent, loop, fulfil, events, controls, restarts, retried, doubled>>

\* spawner.Spawn returns, or the deterministic contract is met without it.
SpawnReturns ==
  /\ fast.at = "spawn"
  /\ \E r \in Results :
       fast' = [fast EXCEPT !.result = r,
                            !.at = IF criteria /\ r \in {"ok", "fallback", "partial"}
                                   THEN "verify" ELSE "assign"]
  /\ UNCHANGED <<criteria, graph, manifest, recent, done, ctx, loop, fulfil, saving, events,
                 controls, restarts, retried, doubled>>

\* Mutant: one refinement too many.
RefineOnceMore(n) == n <= MaxRefine

MayRefine(n) == n < MaxRefine

\* verifyExitCriteria: passed, refined with another spawn, or exhausted.
Audit ==
  /\ fast.at = "verify"
  /\ \/ fast' = [fast EXCEPT !.at = "assign"] /\ UNCHANGED graph
     \/ /\ MayRefine(fast.refined)
        /\ fast' = [fast EXCEPT !.at = "spawn", !.refined = @ + 1]
        /\ UNCHANGED graph
     \/ /\ ~MayRefine(fast.refined)
        /\ fast' = [fast EXCEPT !.at = "assign"]
        /\ graph' = [graph EXCEPT !.step = "failed", !.status = "failed"]
  /\ UNCHANGED <<criteria, manifest, recent, done, ctx, loop, fulfil, saving, events, controls,
                 restarts, retried, doubled>>

\* Mutant: a partial result completes the graph.
PartialIsDone(g, r) ==
  IF r = "delegation" THEN [g EXCEPT !.step = "blocked"]
  ELSE IF r = "partial" THEN [g EXCEPT !.step = "partial", !.status = "completed"]
  ELSE IF r \in {"failed", "error"} THEN [g EXCEPT !.step = "failed", !.status = "failed"]
  ELSE IF g.step = "failed" THEN g ELSE [g EXCEPT !.step = "ok", !.status = "completed"]

\* The result of the spawn decides step and graph, whatever the graph's status.
AssignedResult(g, r) ==
  IF r = "delegation" THEN [g EXCEPT !.step = "blocked"]
  ELSE IF r = "partial" THEN [g EXCEPT !.step = "partial", !.status = "failed"]
  ELSE IF r \in {"failed", "error"} THEN [g EXCEPT !.step = "failed", !.status = "failed"]
  ELSE IF g.step = "failed" THEN g ELSE [g EXCEPT !.step = "ok", !.status = "completed"]

Assign ==
  /\ fast.at = "assign"
  /\ graph' = AssignedResult(graph, fast.result)
  /\ fast' = [fast EXCEPT !.at = IF fast.result = "delegation" THEN "decide" ELSE "persist"]
  /\ UNCHANGED <<criteria, manifest, recent, done, ctx, loop, fulfil, saving, events, controls,
                 restarts, retried, doubled>>

\* A delegation is a decision, and a run loop is started beside it.
Decide ==
  /\ fast.at = "decide"
  /\ graph' = [graph EXCEPT !.decision = "delegation"]
  /\ fast' = NoFast
  /\ loop' = IF loop.at = "none" THEN [NoLoop EXCEPT !.at = "scan"] ELSE loop
  /\ UNCHANGED <<criteria, manifest, recent, done, ctx, fulfil, saving, events, controls,
                 restarts, retried, doubled>>

\* persistGraph, broadcastDone, the terminal event.
FastPersist ==
  /\ fast.at = "persist"
  /\ persistGraph
  /\ fast' = [fast EXCEPT !.at = "done"]
  /\ UNCHANGED <<criteria, graph, done, ctx, loop, fulfil, saving, events, controls, restarts, retried, doubled>>

FastDone ==
  /\ fast.at = "done"
  /\ done' = broadcastDone(done)
  /\ fast' = [fast EXCEPT !.at = "event"]
  /\ UNCHANGED <<criteria, graph, manifest, recent, ctx, loop, fulfil, saving, events, controls,
                 restarts, retried, doubled>>

FastEvent ==
  /\ fast.at = "event"
  /\ events' = events + 1
  /\ fast' = NoFast
  /\ UNCHANGED <<criteria, graph, manifest, recent, done, ctx, loop, fulfil, saving, controls,
                 restarts, retried, doubled>>

FastPath == SpawnReturns \/ Audit \/ Assign \/ Decide \/ FastPersist \/ FastDone \/ FastEvent

----------------------------------------------------------------------------
(* The run loop over the one step (DagScheduler has the loop in full).     *)

Stopped == ~graph.live \/ (ctx = "fired" /\ ~loop.life)

LoopReturns ==
  /\ loop.at = "scan"
  /\ Stopped \/ (graph.step = "pending" /\ graph.status # "running")
  /\ loop' = NoLoop
  /\ UNCHANGED <<criteria, graph, manifest, recent, done, ctx, fast, fulfil, saving, events,
                 controls, restarts, retried, doubled>>

LoopStarts ==
  /\ loop.at = "scan" /\ ~Stopped /\ graph.step = "pending" /\ graph.status = "running"
  /\ persistGraph
  /\ graph' = [graph EXCEPT !.step = "running"]
  /\ loop' = [loop EXCEPT !.at = "step"]
  /\ UNCHANGED <<criteria, done, ctx, fast, fulfil, saving, events, controls, restarts, retried, doubled>>

\* The step ends: a success, a failure past its retries, or a delegation.
LoopStep ==
  /\ loop.at = "step"
  /\ \E r \in {"ok", "failed", "delegation"} :
       graph' = [graph EXCEPT !.step = IF r = "delegation" THEN "blocked" ELSE r,
                              !.decision = IF r = "ok" THEN @ ELSE r]
  /\ loop' = [loop EXCEPT !.at = "scan"]
  /\ saving' = TRUE
  /\ UNCHANGED <<criteria, manifest, recent, done, ctx, fast, fulfil, events, controls,
                 restarts, retried, doubled>>

Settled(g) == g.step \notin {"pending", "running"}
FinalStatus(g) ==
  CASE g.step \in {"failed", "blocked"} -> "failed"
    [] g.step = "skipped" -> "completed_with_skips"
    [] OTHER -> "completed"

\* Mutant: finalize runs again on a graph that has its verdict.
finalizeAlways(g) == TRUE

\* finalize's guard against a second call.
finalizeApplies(g) == g.status \notin Verdict

\* finalize reads under the lock ...
LoopFinal ==
  /\ loop.at = "scan" /\ ~Stopped /\ Settled(graph) /\ graph.decision = "none"
  /\ loop' = IF finalizeApplies(graph) THEN [loop EXCEPT !.at = "final", !.verdict = FinalStatus(graph)]
             ELSE NoLoop
  /\ UNCHANGED <<criteria, graph, manifest, recent, done, ctx, fast, fulfil, saving, events,
                 controls, restarts, retried, doubled>>

\* ... sets the status in a second critical section ...
LoopSets ==
  /\ loop.at = "final"
  /\ graph' = [graph EXCEPT !.status = loop.verdict]
  /\ loop' = [loop EXCEPT !.at = "publish"]
  /\ UNCHANGED <<criteria, manifest, recent, done, ctx, fast, fulfil, saving, events, controls,
                 restarts, retried, doubled>>

\* ... then publishes, closes the channel and writes the manifest itself, past
\* the debounce.
LoopPublishes ==
  /\ loop.at = "publish"
  /\ manifest' = graph /\ recent' = FALSE
  /\ events' = events + 1
  /\ done' = broadcastDone(done)
  /\ loop' = NoLoop
  /\ UNCHANGED <<criteria, graph, ctx, fast, fulfil, saving, controls, restarts, retried, doubled>>

RunLoop == LoopReturns \/ LoopStarts \/ LoopStep \/ LoopFinal \/ LoopSets \/ LoopPublishes

----------------------------------------------------------------------------
(* Answers.                                                                *)

\* finalizeSmartRoutedAfterDecision, under the same lock as the answer.
Concluded(g) == [g EXCEPT !.status = FinalStatus(g)]

Answered(choice) ==
  LET g == [graph EXCEPT !.decision = "none"]
  IN CASE choice = "skip" -> [g EXCEPT !.step = "skipped"]
       [] choice = "retry" -> [g EXCEPT !.step = "pending"]
       [] choice = "abort" -> [g EXCEPT !.status = "failed"]

\* SubmitDecision, with an option of the decision (a delegation offers no
\* retry): a smart-routed graph is finalized in the same call.
SubmitDecision(choice) ==
  LET g == Answered(choice)
  IN /\ graph.live /\ graph.decision # "none"
     /\ choice = "retry" => graph.decision = "failed"
     /\ graph' = IF g.smart THEN Concluded(g) ELSE g
     /\ events' = IF g.smart THEN events + 1 ELSE events
     /\ done' = IF g.smart THEN broadcastDone(done) ELSE "open"
     /\ retried' = (retried \/ (g.smart /\ choice = "retry"))
     /\ saving' = TRUE
     /\ UNCHANGED <<criteria, manifest, recent, ctx, fast, loop, fulfil, controls, restarts, doubled>>

\* FulfillStep reads, writes the result to the store outside the lock ...
FulfillStart ==
  /\ graph.live /\ graph.decision = "delegation" /\ ~fulfil
  /\ fulfil' = TRUE
  /\ UNCHANGED <<criteria, graph, manifest, recent, done, ctx, fast, loop, saving, events,
                 controls, restarts, retried, doubled>>

\* ... and looks the decision up again before it applies the result.
FulfillApply ==
  /\ fulfil
  /\ fulfil' = FALSE
  /\ IF graph.live /\ graph.decision = "delegation"
     THEN /\ graph' = [graph EXCEPT !.step = "ok", !.decision = "none",
                                    !.status = IF graph.smart THEN "completed" ELSE @]
          /\ done' = IF ~graph.smart THEN "open" ELSE broadcastDone(done)
          /\ saving' = TRUE
     ELSE UNCHANGED <<graph, done, saving>>
  /\ UNCHANGED <<criteria, manifest, recent, ctx, fast, loop, events, controls, restarts, retried, doubled>>

\* The host's plan replaces the step; an executor runs it under lifecycleCtx.
FulfillPlan ==
  /\ graph.live /\ graph.decision = "plan"
  /\ graph' = [graph EXCEPT !.decision = "none", !.step = "pending", !.smart = FALSE,
                            !.status = "running"]
  /\ loop' = [NoLoop EXCEPT !.at = "scan", !.life = TRUE]
  /\ saving' = TRUE
  /\ UNCHANGED <<criteria, manifest, recent, done, ctx, fast, fulfil, events, controls,
                 restarts, retried, doubled>>

----------------------------------------------------------------------------
(* Control operations, eviction, crash.                                    *)

Control == controls < MaxControls /\ controls' = controls + 1

\* CancelTask: the context, then the status, whatever it was.
CancelTask ==
  /\ Control /\ graph.live /\ ctx # "none"
  /\ ctx' = "fired"
  /\ graph' = [graph EXCEPT !.status = "cancelled"]
  /\ saving' = TRUE
  /\ UNCHANGED <<criteria, manifest, recent, done, fast, loop, fulfil, events, restarts, retried, doubled>>

\* Mutant: a task that is not running is suspended too.
SuspendsAny(g) == TRUE

Suspendable(g) == g.status = "running"

SuspendTask ==
  /\ Control /\ graph.live /\ ctx # "none" /\ Suspendable(graph)
  /\ ctx' = "fired"
  /\ graph' = [graph EXCEPT !.status = "suspended"]
  /\ saving' = TRUE
  /\ UNCHANGED <<criteria, manifest, recent, done, fast, loop, fulfil, events, restarts, retried, doubled>>

\* ResumeSuspendedTask: waitStepDrain has seen the run loop's step end, and
\* does not know of the fast path's goroutine.
ResumeSuspendedTask ==
  /\ Control /\ graph.live /\ graph.status = "suspended"
  /\ loop.at \in {"none", "scan"}
  /\ doubled' = (doubled \/ fast.at # "none")
  /\ graph' = [graph EXCEPT !.status = "running",
                            !.step = IF @ = "running" THEN "pending" ELSE @]
  /\ ctx' = "live" /\ done' = IF done = "none" THEN "open" ELSE done
  /\ loop' = [NoLoop EXCEPT !.at = "scan"]
  /\ saving' = TRUE
  /\ UNCHANGED <<criteria, manifest, recent, fast, fulfil, events, restarts, retried>>

\* Clear; evictTerminalGraphs forgets a terminal graph the same way.
Forget ==
  /\ Control /\ graph.live
  /\ graph' = [graph EXCEPT !.live = FALSE]
  /\ ctx' = IF graph.status \in Verdict \cup {"cancelled"} THEN "none" ELSE "fired"
  /\ done' = "none" /\ recent' = FALSE
  /\ UNCHANGED <<criteria, manifest, fast, loop, fulfil, saving, events, restarts, retried, doubled>>

\* getOrReloadGraphLocked, for an answer to a forgotten task.
Revive ==
  /\ ~graph.live /\ manifest # Absent /\ fast.at = "none" /\ loop.at = "none" /\ ~saving
  /\ graph' = [manifest EXCEPT !.live = TRUE]
  /\ UNCHANGED <<criteria, manifest, recent, done, ctx, fast, loop, fulfil, saving, events,
                 controls, restarts, retried, doubled>>

\* A crash, then loadGraphs: a running task gets an executor.
Restart ==
  /\ restarts < MaxRestarts /\ manifest # Absent
  /\ restarts' = restarts + 1
  /\ LET runs == manifest.status = "running"
     IN /\ graph' = [manifest EXCEPT !.live = TRUE,
                                     !.step = IF runs /\ @ = "running" THEN "pending" ELSE @]
        /\ ctx' = IF runs THEN "live" ELSE "none"
        /\ done' = IF runs THEN "open" ELSE "none"
        /\ loop' = IF runs THEN [NoLoop EXCEPT !.at = "scan"] ELSE NoLoop
  /\ fast' = NoFast /\ fulfil' = FALSE /\ saving' = FALSE /\ recent' = FALSE /\ events' = 0
  /\ UNCHANGED <<criteria, manifest, controls, retried, doubled>>

Next ==
  \/ \E plan \in BOOLEAN : Submit(plan)
  \/ FastPath \/ RunLoop \/ SaveLater \/ Debounced
  \/ \E choice \in {"skip", "retry", "abort"} : SubmitDecision(choice)
  \/ FulfillStart \/ FulfillApply \/ FulfillPlan
  \/ CancelTask \/ SuspendTask \/ ResumeSuspendedTask \/ Forget \/ Revive \/ Restart

\* Goroutines run; answers and control operations need not come.
Fairness == WF_routeVars(FastPath) /\ WF_routeVars(RunLoop) /\ WF_routeVars(SaveLater)

Spec == Init /\ [][Next]_routeVars /\ Fairness

----------------------------------------------------------------------------
(* Properties.                                                             *)

View(g) == IF g.status = "running" /\ g.decision # "none" THEN "waiting" ELSE g.status

\* The statuses a caller can see follow TaskLifecycle: the fast path, the run
\* loop, the answers and a late result never take a verdict back, unless a resume
\* gave the task a second executor.
Lifecycle == INSTANCE TaskLifecycle WITH seen <- View(graph), saved <- View(manifest)
FollowsLifecycle == Lifecycle!Spec

\* Without control operations the terminal event is published at most once:
\* finalize's guard absorbs the run loop that a delegation leaves behind.
VerdictOnce == controls = 0 => events <= 1

\* A task reported completed has a successful step, unless a retry was
\* answered on a smart-routed graph (HonestVerdict is refuted by that answer)
\* or a resume gave it a second executor.
HonestUnlessRetried == graph.status = "completed" => graph.step = "ok" \/ retried \/ doubled

\* "Terminal failure so the task never reports "completed" on a non-ok result."
HonestVerdict == graph.status = "completed" => graph.step = "ok"

\* A spawned fast path ends with its waiters woken, or parked on a decision,
\* unless somebody took control or the process died.
Spawned == fast.at = "spawn"
Woken == done = "closed" \/ graph.decision # "none" \/ controls > 0 \/ restarts > 0
WaitersWoken == Spawned ~> Woken

=============================================================================
