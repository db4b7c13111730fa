-------------------------- MODULE SmartRouteProofs --------------------------
(***************************************************************************)
(* The statuses a caller sees of a smart-routed task implement             *)
(* TaskLifecycle, a task that nobody interferes with gets one terminal     *)
(* event, and a completed one has a successful step: for any number of     *)
(* refinements, control operations and restarts.  Then the tool calls of   *)
(* steps: what the read cache answers and what the effect tracker records. *)
(***************************************************************************)
EXTENDS SmartRoute, TLAPS

Graph == [live : BOOLEAN, smart : BOOLEAN,
          status : {"absent", "running", "suspended", "cancelled"} \cup Verdict,
          step : {"pending", "running", "ok", "partial", "failed", "blocked", "skipped"},
          decision : {"none", "plan", "delegation", "failed"}]
Fast == [at : {"new", "none", "spawn", "verify", "assign", "decide", "persist", "done", "event"},
         result : Results \cup {"none"}, refined : Int]
Loop == [at : {"none", "scan", "step", "final", "publish"}, life : BOOLEAN,
         verdict : Verdict \cup {"none"}]

RouteType ==
  /\ graph \in Graph /\ manifest \in Graph /\ fast \in Fast /\ loop \in Loop
  /\ loop.at = "final" => loop.verdict \in Verdict
  /\ events \in Nat /\ controls \in Nat
  /\ doubled \in BOOLEAN

(* Before the submission there is nothing, afterwards always a status.     *)
Known ==
  /\ fast.at = "new" => graph = Absent /\ manifest = Absent /\ loop = NoLoop
                        /\ ~saving /\ ~doubled /\ events = 0
  /\ fast.at # "new" => graph.status # "absent"
  /\ manifest = Absent \/ manifest.status # "absent"

(* A task parked on the host's plan never had a fast path.                 *)
PlanFirst ==
  doubled \/ fast.at # "none" => graph.decision # "plan" /\ manifest.decision # "plan"

(* A verdict leaves no decision behind, and "completed" means it.          *)
Sound(g) ==
  /\ g.decision # "none" => g.step \in {"blocked", "failed"} /\ g.status \notin Verdict
  /\ g.step = "partial" => g.status \in {"failed", "cancelled"}
  /\ g.status = "completed" => g.step = "ok" \/ retried

(* The fast path works alone, on a task without a verdict.                 *)
Unjudged == {"running", "suspended", "cancelled"}
FastAlone ==
  /\ fast.at # "none" => loop.at = "none" /\ graph.decision = "none"
  /\ fast.at \in {"spawn", "verify"} => graph.status \in Unjudged /\ graph.step = "pending"
  /\ fast.at = "verify" => fast.result \in {"ok", "fallback", "partial"}
  /\ fast.at = "assign" =>
       /\ graph.status \in Unjudged \/ (graph.status = "failed" /\ graph.step = "failed")
       /\ graph.step = "pending" \/ (graph.step = "failed" /\
                                     fast.result \in {"ok", "fallback", "partial"})
  /\ fast.at = "decide" => graph.status \in Unjudged /\ graph.step = "blocked"

(* The run loop works on a task without a verdict or a decision, and what  *)
(* finalize has read still holds when it writes.                           *)
LoopAlone ==
  /\ loop.at # "none" => graph.step # "partial"
  /\ loop.at \in {"step", "final", "publish"} => graph.decision = "none"
  /\ loop.at \in {"step", "final"} => graph.status \notin Verdict
  /\ loop.at = "step" => graph.step = "running"
  /\ loop.at = "final" => Settled(graph) /\ loop.verdict = FinalStatus(graph)

(* While nobody has taken control, the terminal event is the last step.    *)
Undisturbed ==
  /\ ~doubled /\ (graph.live \/ fast.at = "new") /\ events \in {0, 1}
  /\ events = 1 => /\ graph.status \in Verdict /\ graph.decision = "none"
                  /\ fast.at = "none" /\ loop.at \in {"none", "scan"}
  /\ loop.at = "publish" => graph.status \in Verdict
  /\ fast.at \in {"persist", "done", "event"} => graph.status \in Verdict
  /\ fast.at = "assign" /\ graph.step = "failed" => graph.status = "failed"

(* A step that TaskLifecycle allows or does not see.                       *)
Simulated == Lifecycle!Next \/ UNCHANGED Lifecycle!lifeVars

RouteInv ==
  /\ RouteType /\ Known /\ PlanFirst
  /\ ~doubled => Sound(graph) /\ Sound(manifest) /\ FastAlone /\ LoopAlone
  /\ controls = 0 => Undisturbed

----------------------------------------------------------------------------
(* Every action keeps the invariant.                                       *)

(* Before the submission.                                                  *)
LEMMA RouteInitInv == Init => RouteInv
<1> SUFFICES ASSUME Init PROVE RouteInv
  OBVIOUS
<1>1. RouteType
  <2>1. Absent \in Graph /\ NoLoop \in Loop
    BY DEF Graph, Loop, Absent, NoLoop, Verdict
  <2>2. fast = [at |-> "new", result |-> "none", refined |-> 0]
    BY DEF Init, NoFast
  <2>3. fast \in Fast
    BY <2>2 DEF Fast
  <2> QED BY <2>1, <2>3 DEF RouteType, Init, NoLoop
<1> USE DEF Init, Absent, NoFast, NoLoop, Verdict
<1>2. Known /\ PlanFirst
  BY DEF Known, PlanFirst
<1>3. Sound(graph) /\ Sound(manifest) /\ FastAlone /\ LoopAlone /\ Undisturbed
  BY DEF Sound, FastAlone, LoopAlone, Undisturbed
<1> QED BY <1>1, <1>2, <1>3 DEF RouteInv

(* The submission of a task that does not exist yet.                       *)
LEMMA SubmitInv ==
  ASSUME RouteInv, NEW plan \in BOOLEAN, Submit(plan)
  PROVE  RouteInv' /\ Simulated
<1>1. RouteType'
  <2>0. graph \in Graph /\ manifest \in Graph /\ fast \in Fast /\ loop \in Loop
    BY DEF RouteInv, RouteType
  <2>1. graph' \in Graph /\ manifest' \in Graph
    BY <2>0 DEF Submit, NoFast, NoLoop, Graph, Verdict
  <2>2. fast' \in Fast /\ loop' \in Loop
    BY <2>0 DEF Submit, NoFast, NoLoop, Fast, Loop, Results
  <2>3. loop'.at = "final" => loop'.verdict \in Verdict
    BY <2>0 DEF Submit, NoFast, NoLoop, RouteInv, RouteType, Loop, Verdict
  <2>4. events' \in Nat /\ controls' \in Nat /\ doubled' \in BOOLEAN
    BY DEF Submit, NoFast, NoLoop, RouteInv, RouteType
  <2> QED BY <2>1, <2>2, <2>3, <2>4 DEF RouteType
<1> USE DEF Submit, NoFast, NoLoop, RouteInv, RouteType, Graph, Fast, Loop, Verdict, Absent
<1>2. Known' /\ PlanFirst'
  BY DEF Known, PlanFirst, NoLoop
<1>3. ~doubled' => Sound(graph)' /\ Sound(manifest)'
  BY DEF Sound, FastAlone, LoopAlone, Known, Unjudged
<1>4. ~doubled' => FastAlone' /\ LoopAlone'
  BY DEF Sound, FastAlone, LoopAlone, Known, Unjudged, Results
<1>5. controls' = 0 => Undisturbed'
  BY DEF Sound, FastAlone, LoopAlone, Known, Undisturbed
<1>6. Simulated
  BY DEF Sound, FastAlone, LoopAlone, Known, PlanFirst, Unjudged, Simulated, View,
         Lifecycle!lifeVars, Lifecycle!Next, Lifecycle!Submit, Lifecycle!Active
<1> QED BY <1>1, <1>2, <1>3, <1>4, <1>5, <1>6

(* A result waits for its audit or its assignment.                         *)
LEMMA SpawnReturnsInv ==
  ASSUME RouteInv, SpawnReturns
  PROVE  RouteInv' /\ Simulated
<1>1. RouteType'
  <2>0. graph \in Graph /\ manifest \in Graph /\ fast \in Fast /\ loop \in Loop
    BY DEF RouteInv, RouteType
  <2>1. graph' \in Graph /\ manifest' \in Graph
    BY <2>0 DEF SpawnReturns, Graph, Verdict
  <2>2. fast' \in Fast /\ loop' \in Loop
    BY <2>0 DEF SpawnReturns, Fast, Loop, Results
  <2>3. loop'.at = "final" => loop'.verdict \in Verdict
    BY <2>0 DEF SpawnReturns, RouteInv, RouteType, Loop, Verdict
  <2>4. events' \in Nat /\ controls' \in Nat /\ doubled' \in BOOLEAN
    BY DEF SpawnReturns, RouteInv, RouteType
  <2> QED BY <2>1, <2>2, <2>3, <2>4 DEF RouteType
<1> USE DEF SpawnReturns, RouteInv, RouteType, Graph, Fast, Loop, Verdict, Absent
<1>2. Known' /\ PlanFirst'
  BY DEF Known, PlanFirst, NoLoop
<1>3. ~doubled' => Sound(graph)' /\ Sound(manifest)'
  BY DEF Sound, FastAlone, LoopAlone, Known, Unjudged
<1>4. ~doubled' => FastAlone' /\ LoopAlone'
  BY DEF Sound, FastAlone, LoopAlone, Known, Unjudged, Results
<1>5. controls' = 0 => Undisturbed'
  BY DEF Sound, FastAlone, LoopAlone, Known, Undisturbed
<1>6. Simulated
  BY DEF Sound, FastAlone, LoopAlone, Known, PlanFirst, Unjudged, Simulated, View,
         Lifecycle!lifeVars
<1> QED BY <1>1, <1>2, <1>3, <1>4, <1>5, <1>6

(* Exhausted refinements fail step and graph together.                     *)
LEMMA AuditInv ==
  ASSUME RouteInv, Audit
  PROVE  RouteInv' /\ Simulated
<1>t. graph \in Graph /\ manifest \in Graph /\ fast \in Fast /\ loop \in Loop
  BY DEF RouteInv, RouteType
<1>g. graph' = graph \/ graph' = [graph EXCEPT !.step = "failed", !.status = "failed"]
  BY DEF Audit
<1>r. /\ fast.at = "verify"
      /\ \/ fast' = [fast EXCEPT !.at = "assign"]
         \/ fast' = [fast EXCEPT !.at = "spawn", !.refined = fast.refined + 1] /\ graph' = graph
      /\ UNCHANGED <<manifest, loop, saving, events, controls, retried, doubled>>
  BY DEF Audit
<1>f. /\ graph' \in Graph
      /\ graph'.live = graph.live /\ graph'.decision = graph.decision
      /\ \/ graph'.step = graph.step /\ graph'.status = graph.status
         \/ graph'.step = "failed" /\ graph'.status = "failed"
  BY <1>t, <1>g DEF Graph, Verdict
<1>1. RouteType'
  <2>1. fast' \in Fast
    <3>1. [fast EXCEPT !.at = "assign"] \in Fast
      BY <1>t DEF Fast
    <3>2. ASSUME NEW k \in Int PROVE [fast EXCEPT !.at = "spawn", !.refined = k] \in Fast
      BY <1>t DEF Fast
    <3>3. fast.refined + 1 \in Int
      BY <1>t DEF Fast
    <3> QED BY <1>r, <3>1, <3>2, <3>3
  <2>2. loop' \in Loop
    BY <1>t, <1>r DEF Loop, NoLoop
  <2>3. loop'.at = "final" => loop'.verdict \in Verdict
    BY <1>t, <1>r DEF RouteInv, RouteType, Loop, NoLoop
  <2>4. events' \in Nat /\ controls' \in Nat /\ manifest' \in Graph
    BY <1>t, <1>r DEF RouteInv, RouteType
  <2>5. doubled' \in BOOLEAN
    BY <1>r DEF RouteInv, RouteType
  <2> QED BY <1>f, <2>1, <2>2, <2>3, <2>4, <2>5 DEF RouteType
<1> USE DEF RouteInv, RouteType, Fast, Loop, Verdict, Absent, NoFast, NoLoop
<1>2. Known' /\ PlanFirst'
  BY <1>r, <1>f DEF Known, PlanFirst
<1>3. ~doubled' => Sound(graph)' /\ Sound(manifest)'
  BY <1>r, <1>f DEF Sound, FastAlone, LoopAlone, Known, Unjudged
<1>4. ~doubled' => FastAlone' /\ LoopAlone'
  BY <1>r, <1>f DEF Sound, FastAlone, LoopAlone, Known, Unjudged
<1>5. controls' = 0 => Undisturbed'
  BY <1>r, <1>f DEF Sound, FastAlone, LoopAlone, Known, Undisturbed
<1>6. Simulated
  BY <1>r, <1>f DEF Sound, FastAlone, LoopAlone, Known, PlanFirst, Unjudged, Simulated, View,
         Lifecycle!lifeVars, Lifecycle!Next, Lifecycle!Finish, Lifecycle!LateResult,
         Lifecycle!Active, Lifecycle!Held, Lifecycle!Verdict
<1> QED BY <1>1, <1>2, <1>3, <1>4, <1>5, <1>6

(* The result becomes the verdict of a task that had none.                 *)
LEMMA AssignInv ==
  ASSUME RouteInv, Assign
  PROVE  RouteInv' /\ Simulated
<1>t. graph \in Graph /\ manifest \in Graph /\ fast \in Fast /\ loop \in Loop
  BY DEF RouteInv, RouteType
<1>g. \/ graph' = [graph EXCEPT !.step = "blocked"] /\ fast.result = "delegation"
      \/ /\ fast.result # "delegation"
         /\ \/ graph' = [graph EXCEPT !.step = "partial", !.status = "failed"]
            \/ graph' = [graph EXCEPT !.step = "failed", !.status = "failed"]
            \/ graph' = graph /\ graph.step = "failed"
            \/ graph' = [graph EXCEPT !.step = "ok", !.status = "completed"] /\ graph.step # "failed"
  BY DEF Assign, AssignedResult
<1>r. /\ fast.at = "assign"
      /\ \/ fast.result = "delegation" /\ fast' = [fast EXCEPT !.at = "decide"]
         \/ fast.result # "delegation" /\ fast' = [fast EXCEPT !.at = "persist"]
      /\ UNCHANGED <<manifest, loop, saving, events, controls, retried, doubled>>
  BY DEF Assign
<1>f. /\ graph' \in Graph
      /\ graph'.live = graph.live /\ graph'.decision = graph.decision
      /\ \/ fast.result = "delegation" /\ graph'.step = "blocked" /\ graph'.status = graph.status
         \/ /\ fast.result # "delegation"
            /\ \/ graph'.step \in {"partial", "failed"} /\ graph'.status = "failed"
               \/ graph'.step = "ok" /\ graph'.status = "completed" /\ graph.step # "failed"
               \/ graph' = graph /\ graph.step = "failed"
  <2>1. CASE graph' = [graph EXCEPT !.step = "blocked"] /\ fast.result = "delegation"
    BY <1>t, <2>1 DEF Graph
  <2>2. ASSUME NEW st \in {"partial", "failed"},
               graph' = [graph EXCEPT !.step = st, !.status = "failed"]
        PROVE  /\ graph' \in Graph /\ graph'.live = graph.live /\ graph'.decision = graph.decision
               /\ graph'.step = st /\ graph'.status = "failed"
    BY <1>t, <2>2 DEF Graph, Verdict
  <2>3. ASSUME graph' = [graph EXCEPT !.step = "ok", !.status = "completed"]
        PROVE  /\ graph' \in Graph /\ graph'.live = graph.live /\ graph'.decision = graph.decision
               /\ graph'.step = "ok" /\ graph'.status = "completed"
    BY <1>t, <2>3 DEF Graph, Verdict
  <2> QED BY <1>t, <1>g, <2>1, <2>2, <2>3
<1>1. RouteType'
  <2>1. fast' \in Fast
    BY <1>t, <1>r DEF Fast, NoFast
  <2>2. loop' \in Loop
    BY <1>t, <1>r DEF Loop, NoLoop
  <2>3. loop'.at = "final" => loop'.verdict \in Verdict
    BY <1>t, <1>r DEF RouteInv, RouteType, Loop, NoLoop
  <2>4. events' \in Nat /\ controls' \in Nat /\ manifest' \in Graph
    BY <1>t, <1>r DEF RouteInv, RouteType
  <2>5. doubled' \in BOOLEAN
    BY <1>r DEF RouteInv, RouteType
  <2> QED BY <1>f, <2>1, <2>2, <2>3, <2>4, <2>5 DEF RouteType
<1> USE DEF RouteInv, RouteType, Fast, Loop, Verdict, Absent, NoFast, NoLoop
<1>2. Known' /\ PlanFirst'
  BY <1>r, <1>f DEF Known, PlanFirst
<1>3. ~doubled' => Sound(graph)' /\ Sound(manifest)'
  BY <1>r, <1>f DEF Sound, FastAlone, LoopAlone, Known, Unjudged
<1>4. ~doubled' => FastAlone' /\ LoopAlone'
  BY <1>r, <1>f DEF Sound, FastAlone, LoopAlone, Known, Unjudged
<1>5. controls' = 0 => Undisturbed'
  BY <1>r, <1>f DEF Sound, FastAlone, LoopAlone, Known, Undisturbed
<1>6. Simulated
  BY <1>t, <1>r, <1>f DEF Sound, FastAlone, LoopAlone, Known, PlanFirst, Unjudged, Simulated,
         View,
         Lifecycle!lifeVars, Lifecycle!Next, Lifecycle!Finish, Lifecycle!LateResult,
         Lifecycle!Active, Lifecycle!Held, Lifecycle!Verdict, Graph
<1> QED BY <1>1, <1>2, <1>3, <1>4, <1>5, <1>6

(* A delegation leaves the fast path for a decision and a run loop.        *)
LEMMA DecideInv ==
  ASSUME RouteInv, Decide
  PROVE  RouteInv' /\ Simulated
<1>t. graph \in Graph /\ manifest \in Graph /\ fast \in Fast /\ loop \in Loop
  BY DEF RouteInv, RouteType
<1>g. graph' = [graph EXCEPT !.decision = "delegation"]
  BY DEF Decide
<1>r. /\ fast.at = "decide" /\ fast' = NoFast
      /\ loop' = loop \/ (loop' = [NoLoop EXCEPT !.at = "scan"] /\ loop.at = "none")
      /\ UNCHANGED <<manifest, saving, events, controls, retried, doubled>>
  BY DEF Decide
<1>f. /\ graph' \in Graph
      /\ graph'.live = graph.live /\ graph'.decision = "delegation"
      /\ graph'.step = graph.step /\ graph'.status = graph.status
  BY <1>t, <1>g DEF Graph, Verdict
<1>1. RouteType'
  <2>1. fast' \in Fast
    BY <1>t, <1>r DEF Fast, NoFast
  <2>2. loop' \in Loop
    BY <1>t, <1>r DEF Loop, NoLoop
  <2>3. loop'.at = "final" => loop'.verdict \in Verdict
    BY <1>t, <1>r DEF RouteInv, RouteType, Loop, NoLoop
  <2>4. events' \in Nat /\ controls' \in Nat /\ manifest' \in Graph
    BY <1>t, <1>r DEF RouteInv, RouteType
  <2>5. doubled' \in BOOLEAN
    BY <1>r DEF RouteInv, RouteType
  <2> QED BY <1>f, <2>1, <2>2, <2>3, <2>4, <2>5 DEF RouteType
<1> USE DEF RouteInv, RouteType, Fast, Loop, Verdict, Absent, NoFast, NoLoop
<1>2. Known' /\ PlanFirst'
  BY <1>r, <1>f DEF Known, PlanFirst
<1>3. ~doubled' => Sound(graph)' /\ Sound(manifest)'
  BY <1>r, <1>f DEF Sound, FastAlone, LoopAlone, Known, Unjudged
<1>4. ~doubled' => FastAlone' /\ LoopAlone'
  BY <1>r, <1>f DEF Sound, FastAlone, LoopAlone, Known, Unjudged
<1>5. controls' = 0 => Undisturbed'
  BY <1>r, <1>f DEF Sound, FastAlone, LoopAlone, Known, Undisturbed
<1>6. Simulated
  BY <1>r, <1>f DEF Sound, FastAlone, LoopAlone, Known, PlanFirst, Unjudged, Simulated, View,
         Lifecycle!lifeVars, Lifecycle!Next, Lifecycle!Park
<1> QED BY <1>1, <1>2, <1>3, <1>4, <1>5, <1>6

(* The fast path saves what it has assigned.                               *)
LEMMA FastPersistInv ==
  ASSUME RouteInv, FastPersist
  PROVE  RouteInv' /\ Simulated
<1>1. RouteType'
  <2>0. graph \in Graph /\ manifest \in Graph /\ fast \in Fast /\ loop \in Loop
    BY DEF RouteInv, RouteType
  <2>1. graph' \in Graph /\ manifest' \in Graph
    BY <2>0 DEF FastPersist, persistGraph, Graph, Verdict
  <2>2. fast' \in Fast /\ loop' \in Loop
    BY <2>0 DEF FastPersist, persistGraph, Fast, Loop, Results
  <2>3. loop'.at = "final" => loop'.verdict \in Verdict
    BY <2>0 DEF FastPersist, persistGraph, RouteInv, RouteType, Loop, Verdict
  <2>4. events' \in Nat /\ controls' \in Nat /\ doubled' \in BOOLEAN
    BY DEF FastPersist, persistGraph, RouteInv, RouteType
  <2> QED BY <2>1, <2>2, <2>3, <2>4 DEF RouteType
<1> USE DEF FastPersist, persistGraph, RouteInv, RouteType, Graph, Fast, Loop, Verdict, Absent
<1>2. Known' /\ PlanFirst'
  BY DEF Known, PlanFirst, NoLoop
<1>3. ~doubled' => Sound(graph)' /\ Sound(manifest)'
  BY DEF Sound, FastAlone, LoopAlone, Known, Unjudged
<1>4. ~doubled' => FastAlone' /\ LoopAlone'
  BY DEF Sound, FastAlone, LoopAlone, Known, Unjudged, Results
<1>5. controls' = 0 => Undisturbed'
  BY DEF Sound, FastAlone, LoopAlone, Known, Undisturbed
<1>6. Simulated
  BY DEF Sound, FastAlone, LoopAlone, Known, PlanFirst, Unjudged, Simulated, View,
         Lifecycle!lifeVars, Lifecycle!Next, Lifecycle!Save
<1> QED BY <1>1, <1>2, <1>3, <1>4, <1>5, <1>6

(* Waking the waiters changes nothing a caller reads.                      *)
LEMMA FastDoneInv ==
  ASSUME RouteInv, FastDone
  PROVE  RouteInv' /\ Simulated
<1>1. RouteType'
  <2>0. graph \in Graph /\ manifest \in Graph /\ fast \in Fast /\ loop \in Loop
    BY DEF RouteInv, RouteType
  <2>1. graph' \in Graph /\ manifest' \in Graph
    BY <2>0 DEF FastDone, Graph, Verdict
  <2>2. fast' \in Fast /\ loop' \in Loop
    BY <2>0 DEF FastDone, Fast, Loop, Results
  <2>3. loop'.at = "final" => loop'.verdict \in Verdict
    BY <2>0 DEF FastDone, RouteInv, RouteType, Loop, Verdict
  <2>4. events' \in Nat /\ controls' \in Nat /\ doubled' \in BOOLEAN
    BY DEF FastDone, RouteInv, RouteType
  <2> QED BY <2>1, <2>2, <2>3, <2>4 DEF RouteType
<1> USE DEF FastDone, RouteInv, RouteType, Graph, Fast, Loop, Verdict, Absent
<1>2. Known' /\ PlanFirst'
  BY DEF Known, PlanFirst, NoLoop
<1>3. ~doubled' => Sound(graph)' /\ Sound(manifest)'
  BY DEF Sound, FastAlone, LoopAlone, Known, Unjudged
<1>4. ~doubled' => FastAlone' /\ LoopAlone'
  BY DEF Sound, FastAlone, LoopAlone, Known, Unjudged, Results
<1>5. controls' = 0 => Undisturbed'
  BY DEF Sound, FastAlone, LoopAlone, Known, Undisturbed
<1>6. Simulated
  BY DEF Sound, FastAlone, LoopAlone, Known, PlanFirst, Unjudged, Simulated, View,
         Lifecycle!lifeVars
<1> QED BY <1>1, <1>2, <1>3, <1>4, <1>5, <1>6

(* The terminal event of the fast path, after its verdict.                 *)
LEMMA FastEventInv ==
  ASSUME RouteInv, FastEvent
  PROVE  RouteInv' /\ Simulated
<1>1. RouteType'
  <2>0. graph \in Graph /\ manifest \in Graph /\ fast \in Fast /\ loop \in Loop
    BY DEF RouteInv, RouteType
  <2>1. graph' \in Graph /\ manifest' \in Graph
    BY <2>0 DEF FastEvent, NoFast, Graph, Verdict
  <2>2. fast' \in Fast /\ loop' \in Loop
    BY <2>0 DEF FastEvent, NoFast, Fast, Loop, Results
  <2>3. loop'.at = "final" => loop'.verdict \in Verdict
    BY <2>0 DEF FastEvent, NoFast, RouteInv, RouteType, Loop, Verdict
  <2>4. events' \in Nat /\ controls' \in Nat /\ doubled' \in BOOLEAN
    BY DEF FastEvent, NoFast, RouteInv, RouteType
  <2> QED BY <2>1, <2>2, <2>3, <2>4 DEF RouteType
<1> USE DEF FastEvent, NoFast, RouteInv, RouteType, Graph, Fast, Loop, Verdict, Absent
<1>2. Known' /\ PlanFirst'
  BY DEF Known, PlanFirst, NoLoop
<1>3. ~doubled' => Sound(graph)' /\ Sound(manifest)'
  BY DEF Sound, FastAlone, LoopAlone, Known, Unjudged
<1>4. ~doubled' => FastAlone' /\ LoopAlone'
  BY DEF Sound, FastAlone, LoopAlone, Known, Unjudged, Results
<1>5. controls' = 0 => Undisturbed'
  BY DEF Sound, FastAlone, LoopAlone, Known, Undisturbed
<1>6. Simulated
  BY DEF Sound, FastAlone, LoopAlone, Known, PlanFirst, Unjudged, Simulated, View,
         Lifecycle!lifeVars
<1> QED BY <1>1, <1>2, <1>3, <1>4, <1>5, <1>6

(* A run loop that stops.                                                  *)
LEMMA LoopReturnsInv ==
  ASSUME RouteInv, LoopReturns
  PROVE  RouteInv' /\ Simulated
<1>1. RouteType'
  <2>0. graph \in Graph /\ manifest \in Graph /\ fast \in Fast /\ loop \in Loop
    BY DEF RouteInv, RouteType
  <2>1. graph' \in Graph /\ manifest' \in Graph
    BY <2>0 DEF LoopReturns, NoLoop, Graph, Verdict
  <2>2. fast' \in Fast /\ loop' \in Loop
    BY <2>0 DEF LoopReturns, NoLoop, Fast, Loop, Results
  <2>3. loop'.at = "final" => loop'.verdict \in Verdict
    BY <2>0 DEF LoopReturns, NoLoop, RouteInv, RouteType, Loop, Verdict
  <2>4. events' \in Nat /\ controls' \in Nat /\ doubled' \in BOOLEAN
    BY DEF LoopReturns, NoLoop, RouteInv, RouteType
  <2> QED BY <2>1, <2>2, <2>3, <2>4 DEF RouteType
<1> USE DEF LoopReturns, NoLoop, RouteInv, RouteType, Graph, Fast, Loop, Verdict, Absent
<1>2. Known' /\ PlanFirst'
  BY DEF Known, PlanFirst, NoLoop
<1>3. ~doubled' => Sound(graph)' /\ Sound(manifest)'
  BY DEF Sound, FastAlone, LoopAlone, Known, Unjudged
<1>4. ~doubled' => FastAlone' /\ LoopAlone'
  BY DEF Sound, FastAlone, LoopAlone, Known, Unjudged, Results
<1>5. controls' = 0 => Undisturbed'
  BY DEF Sound, FastAlone, LoopAlone, Known, Undisturbed
<1>6. Simulated
  BY DEF Sound, FastAlone, LoopAlone, Known, PlanFirst, Unjudged, Simulated, View,
         Lifecycle!lifeVars
<1> QED BY <1>1, <1>2, <1>3, <1>4, <1>5, <1>6

(* A run loop starts a pending step: no fast path, no decision.            *)
LEMMA LoopStartsInv ==
  ASSUME RouteInv, LoopStarts
  PROVE  RouteInv' /\ Simulated
<1>1. RouteType'
  <2>0. graph \in Graph /\ manifest \in Graph /\ fast \in Fast /\ loop \in Loop
    BY DEF RouteInv, RouteType
  <2>1. graph' \in Graph /\ manifest' \in Graph
    BY <2>0 DEF LoopStarts, persistGraph, Graph, Verdict
  <2>2. fast' \in Fast /\ loop' \in Loop
    BY <2>0 DEF LoopStarts, persistGraph, Fast, Loop, Results
  <2>3. loop'.at = "final" => loop'.verdict \in Verdict
    BY <2>0 DEF LoopStarts, persistGraph, RouteInv, RouteType, Loop, Verdict
  <2>4. events' \in Nat /\ controls' \in Nat /\ doubled' \in BOOLEAN
    BY DEF LoopStarts, persistGraph, RouteInv, RouteType
  <2> QED BY <2>1, <2>2, <2>3, <2>4 DEF RouteType
<1> USE DEF LoopStarts, persistGraph, RouteInv, RouteType, Graph, Fast, Loop, Verdict, Absent
<1>2. Known' /\ PlanFirst'
  BY DEF Known, PlanFirst, NoLoop
<1>3. ~doubled' => Sound(graph)' /\ Sound(manifest)'
  BY DEF Sound, FastAlone, LoopAlone, Known, Unjudged
<1>4. ~doubled' => FastAlone' /\ LoopAlone'
  BY DEF Sound, FastAlone, LoopAlone, Known, Unjudged, Results
<1>5. controls' = 0 => Undisturbed'
  BY DEF Sound, FastAlone, LoopAlone, Known, Undisturbed
<1>6. Simulated
  BY DEF Sound, FastAlone, LoopAlone, Known, PlanFirst, Unjudged, Simulated, View,
         Lifecycle!lifeVars, Lifecycle!Next, Lifecycle!Save
<1> QED BY <1>1, <1>2, <1>3, <1>4, <1>5, <1>6

(* A step of the run loop ends well, or parks the task.                    *)
LEMMA LoopStepInv ==
  ASSUME RouteInv, LoopStep
  PROVE  RouteInv' /\ Simulated
<1>t. graph \in Graph /\ manifest \in Graph /\ fast \in Fast /\ loop \in Loop
  BY DEF RouteInv, RouteType
<1>g. \/ graph' = [graph EXCEPT !.step = "ok"]
      \/ graph' = [graph EXCEPT !.step = "failed", !.decision = "failed"]
      \/ graph' = [graph EXCEPT !.step = "blocked", !.decision = "delegation"]
  <2>1. graph \in Graph
    BY DEF RouteInv, RouteType
  <2>2. [graph EXCEPT !.step = "ok", !.decision = graph.decision] = [graph EXCEPT !.step = "ok"]
    BY <2>1 DEF Graph
  <2>3. PICK r \in {"ok", "failed", "delegation"} :
          graph' = [graph EXCEPT !.step = IF r = "delegation" THEN "blocked" ELSE r,
                                 !.decision = IF r = "ok" THEN graph.decision ELSE r]
    BY DEF LoopStep
  <2> QED BY <2>2, <2>3
<1>r. /\ loop.at = "step" /\ loop' = [loop EXCEPT !.at = "scan"]
      /\ UNCHANGED <<manifest, fast, events, controls, retried, doubled>>
  BY DEF LoopStep
<1>f. /\ graph' \in Graph
      /\ graph'.live = graph.live /\ graph'.status = graph.status
      /\ \/ graph'.step = "ok" /\ graph'.decision = graph.decision
         \/ graph'.step \in {"failed", "blocked"} /\ graph'.decision \in {"failed", "delegation"}
  BY <1>t, <1>g DEF Graph, Verdict
<1>1. RouteType'
  <2>1. fast' \in Fast
    BY <1>t, <1>r DEF Fast, NoFast
  <2>2. loop' \in Loop
    BY <1>t, <1>r DEF Loop, NoLoop
  <2>3. loop'.at = "final" => loop'.verdict \in Verdict
    BY <1>t, <1>r DEF RouteInv, RouteType, Loop, NoLoop
  <2>4. events' \in Nat /\ controls' \in Nat /\ manifest' \in Graph
    BY <1>t, <1>r DEF RouteInv, RouteType
  <2>5. doubled' \in BOOLEAN
    BY <1>r DEF RouteInv, RouteType
  <2> QED BY <1>f, <2>1, <2>2, <2>3, <2>4, <2>5 DEF RouteType
<1> USE DEF RouteInv, RouteType, Fast, Loop, Verdict, Absent, NoFast, NoLoop
<1>2. Known' /\ PlanFirst'
  BY <1>r, <1>f DEF Known, PlanFirst
<1>3. ~doubled' => Sound(graph)' /\ Sound(manifest)'
  BY <1>r, <1>f DEF Sound, FastAlone, LoopAlone, Known, Unjudged
<1>4. ~doubled' => FastAlone' /\ LoopAlone'
  BY <1>r, <1>f DEF Sound, FastAlone, LoopAlone, Known, Unjudged
<1>5. controls' = 0 => Undisturbed'
  BY <1>r, <1>f DEF Sound, FastAlone, LoopAlone, Known, Undisturbed
<1>6. Simulated
  BY <1>r, <1>f DEF Sound, FastAlone, LoopAlone, Known, PlanFirst, Unjudged, Simulated, View,
         Lifecycle!lifeVars, Lifecycle!Next, Lifecycle!Park
<1> QED BY <1>1, <1>2, <1>3, <1>4, <1>5, <1>6

(* finalize reads the verdict of a settled step without decision.          *)
LEMMA LoopFinalInv ==
  ASSUME RouteInv, LoopFinal
  PROVE  RouteInv' /\ Simulated
<1>1. RouteType'
  <2>0. graph \in Graph /\ manifest \in Graph /\ fast \in Fast /\ loop \in Loop
    BY DEF RouteInv, RouteType
  <2>1. graph' \in Graph /\ manifest' \in Graph
    BY <2>0 DEF LoopFinal, NoLoop, finalizeApplies, Settled, FinalStatus, Graph, Verdict
  <2>5. FinalStatus(graph) \in Verdict
    BY DEF FinalStatus, Verdict
  <2>2. fast' \in Fast /\ loop' \in Loop
    BY <2>0, <2>5 DEF LoopFinal, NoLoop, Fast, Loop
  <2>3. loop'.at = "final" => loop'.verdict \in Verdict
    BY <2>0 DEF LoopFinal, NoLoop, finalizeApplies, Settled, FinalStatus, RouteInv, RouteType,
         Loop, Verdict
  <2>4. events' \in Nat /\ controls' \in Nat /\ doubled' \in BOOLEAN
    BY DEF LoopFinal, NoLoop, finalizeApplies, Settled, FinalStatus, RouteInv, RouteType
  <2> QED BY <2>1, <2>2, <2>3, <2>4 DEF RouteType
<1> USE DEF LoopFinal, NoLoop, finalizeApplies, Settled, FinalStatus, RouteInv, RouteType,
         Graph, Fast, Loop, Verdict, Absent
<1>2. Known' /\ PlanFirst'
  BY DEF Known, PlanFirst, NoLoop
<1>3. ~doubled' => Sound(graph)' /\ Sound(manifest)'
  BY DEF Sound, FastAlone, LoopAlone, Known, Unjudged
<1>4. ~doubled' => FastAlone' /\ LoopAlone'
  BY DEF Sound, FastAlone, LoopAlone, Known, Unjudged, Results
<1>5. controls' = 0 => Undisturbed'
  BY DEF Sound, FastAlone, LoopAlone, Known, Undisturbed
<1>6. Simulated
  BY DEF Sound, FastAlone, LoopAlone, Known, PlanFirst, Unjudged, Simulated, View,
         Lifecycle!lifeVars
<1> QED BY <1>1, <1>2, <1>3, <1>4, <1>5, <1>6

(* finalize writes the verdict it has read.                                *)
LEMMA LoopSetsInv ==
  ASSUME RouteInv, LoopSets
  PROVE  RouteInv' /\ Simulated
<1>t. graph \in Graph /\ manifest \in Graph /\ fast \in Fast /\ loop \in Loop
  BY DEF RouteInv, RouteType
<1>g. graph' = [graph EXCEPT !.status = loop.verdict] /\ loop.verdict \in Verdict
  BY DEF LoopSets, RouteInv, RouteType
<1>r. /\ loop.at = "final" /\ loop' = [loop EXCEPT !.at = "publish"]
      /\ UNCHANGED <<manifest, fast, saving, events, controls, retried, doubled>>
  BY DEF LoopSets
<1>f. /\ graph' \in Graph
      /\ graph'.live = graph.live /\ graph'.status = loop.verdict /\ loop.verdict \in Verdict
      /\ graph'.step = graph.step /\ graph'.decision = graph.decision
  BY <1>t, <1>g DEF Graph, Verdict
<1>1. RouteType'
  <2>1. fast' \in Fast
    BY <1>t, <1>r DEF Fast, NoFast
  <2>2. loop' \in Loop
    BY <1>t, <1>r DEF Loop, NoLoop
  <2>3. loop'.at = "final" => loop'.verdict \in Verdict
    BY <1>t, <1>r DEF RouteInv, RouteType, Loop, NoLoop
  <2>4. events' \in Nat /\ controls' \in Nat /\ manifest' \in Graph
    BY <1>t, <1>r DEF RouteInv, RouteType
  <2>5. doubled' \in BOOLEAN
    BY <1>r DEF RouteInv, RouteType
  <2> QED BY <1>f, <2>1, <2>2, <2>3, <2>4, <2>5 DEF RouteType
<1> USE DEF RouteInv, RouteType, Fast, Loop, Verdict, Absent, NoFast, NoLoop
<1>2. Known' /\ PlanFirst'
  BY <1>r, <1>f DEF Known, PlanFirst
<1>v. ~doubled /\ loop.verdict = "completed" => graph.step = "ok"
  BY <1>t, <1>r DEF LoopAlone, Settled, FinalStatus, Graph
<1>3. ~doubled' => Sound(graph)' /\ Sound(manifest)'
  BY <1>r, <1>f, <1>v DEF Sound, LoopAlone
<1>4. ~doubled' => FastAlone' /\ LoopAlone'
  BY <1>r, <1>f DEF Sound, FastAlone, LoopAlone, Known, Unjudged
<1>5. controls' = 0 => Undisturbed'
  BY <1>r, <1>f DEF Sound, FastAlone, LoopAlone, Known, Undisturbed
<1>6. Simulated
  BY <1>t, <1>r, <1>f DEF Sound, FastAlone, LoopAlone, Known, PlanFirst, Unjudged, Simulated,
         View,
         Lifecycle!lifeVars, Lifecycle!Next, Lifecycle!Finish, Lifecycle!LateResult,
         Lifecycle!Active, Lifecycle!Held, Lifecycle!Verdict, Graph
<1> QED BY <1>1, <1>2, <1>3, <1>4, <1>5, <1>6

(* finalize saves and publishes.                                           *)
LEMMA LoopPublishesInv ==
  ASSUME RouteInv, LoopPublishes
  PROVE  RouteInv' /\ Simulated
<1>1. RouteType'
  <2>0. graph \in Graph /\ manifest \in Graph /\ fast \in Fast /\ loop \in Loop
    BY DEF RouteInv, RouteType
  <2>1. graph' \in Graph /\ manifest' \in Graph
    BY <2>0 DEF LoopPublishes, NoLoop, Graph, Verdict
  <2>2. fast' \in Fast /\ loop' \in Loop
    BY <2>0 DEF LoopPublishes, NoLoop, Fast, Loop, Results
  <2>3. loop'.at = "final" => loop'.verdict \in Verdict
    BY <2>0 DEF LoopPublishes, NoLoop, RouteInv, RouteType, Loop, Verdict
  <2>4. events' \in Nat /\ controls' \in Nat /\ doubled' \in BOOLEAN
    BY DEF LoopPublishes, NoLoop, RouteInv, RouteType
  <2> QED BY <2>1, <2>2, <2>3, <2>4 DEF RouteType
<1> USE DEF LoopPublishes, NoLoop, RouteInv, RouteType, Graph, Fast, Loop, Verdict, Absent
<1>2. Known' /\ PlanFirst'
  BY DEF Known, PlanFirst, NoLoop
<1>3. ~doubled' => Sound(graph)' /\ Sound(manifest)'
  BY DEF Sound, FastAlone, LoopAlone, Known, Unjudged
<1>4. ~doubled' => FastAlone' /\ LoopAlone'
  BY DEF Sound, FastAlone, LoopAlone, Known, Unjudged, Results
<1>5. controls' = 0 => Undisturbed'
  BY DEF Sound, FastAlone, LoopAlone, Known, Undisturbed
<1>6. Simulated
  BY DEF Sound, FastAlone, LoopAlone, Known, PlanFirst, Unjudged, Simulated, View,
         Lifecycle!lifeVars, Lifecycle!Next, Lifecycle!Save
<1> QED BY <1>1, <1>2, <1>3, <1>4, <1>5, <1>6

(* A manifest written late has the state of now.                           *)
LEMMA SaveLaterInv ==
  ASSUME RouteInv, SaveLater
  PROVE  RouteInv' /\ Simulated
<1>1. RouteType'
  <2>0. graph \in Graph /\ manifest \in Graph /\ fast \in Fast /\ loop \in Loop
    BY DEF RouteInv, RouteType
  <2>1. graph' \in Graph /\ manifest' \in Graph
    BY <2>0 DEF SaveLater, persistGraph, Graph, Verdict
  <2>2. fast' \in Fast /\ loop' \in Loop
    BY <2>0 DEF SaveLater, persistGraph, Fast, Loop, Results
  <2>3. loop'.at = "final" => loop'.verdict \in Verdict
    BY <2>0 DEF SaveLater, persistGraph, RouteInv, RouteType, Loop, Verdict
  <2>4. events' \in Nat /\ controls' \in Nat /\ doubled' \in BOOLEAN
    BY DEF SaveLater, persistGraph, RouteInv, RouteType
  <2> QED BY <2>1, <2>2, <2>3, <2>4 DEF RouteType
<1> USE DEF SaveLater, persistGraph, RouteInv, RouteType, Graph, Fast, Loop, Verdict, Absent
<1>2. Known' /\ PlanFirst'
  BY DEF Known, PlanFirst, NoLoop
<1>3. ~doubled' => Sound(graph)' /\ Sound(manifest)'
  BY DEF Sound, FastAlone, LoopAlone, Known, Unjudged
<1>4. ~doubled' => FastAlone' /\ LoopAlone'
  BY DEF Sound, FastAlone, LoopAlone, Known, Unjudged, Results
<1>5. controls' = 0 => Undisturbed'
  BY DEF Sound, FastAlone, LoopAlone, Known, Undisturbed
<1>6. Simulated
  BY DEF Sound, FastAlone, LoopAlone, Known, PlanFirst, Unjudged, Simulated, View,
         Lifecycle!lifeVars, Lifecycle!Next, Lifecycle!Save
<1> QED BY <1>1, <1>2, <1>3, <1>4, <1>5, <1>6

(* The debounce passes.                                                    *)
LEMMA DebouncedInv ==
  ASSUME RouteInv, Debounced
  PROVE  RouteInv' /\ Simulated
<1>1. RouteType'
  <2>0. graph \in Graph /\ manifest \in Graph /\ fast \in Fast /\ loop \in Loop
    BY DEF RouteInv, RouteType
  <2>1. graph' \in Graph /\ manifest' \in Graph
    BY <2>0 DEF Debounced, Graph, Verdict
  <2>2. fast' \in Fast /\ loop' \in Loop
    BY <2>0 DEF Debounced, Fast, Loop, Results
  <2>3. loop'.at = "final" => loop'.verdict \in Verdict
    BY <2>0 DEF Debounced, RouteInv, RouteType, Loop, Verdict
  <2>4. events' \in Nat /\ controls' \in Nat /\ doubled' \in BOOLEAN
    BY DEF Debounced, RouteInv, RouteType
  <2> QED BY <2>1, <2>2, <2>3, <2>4 DEF RouteType
<1> USE DEF Debounced, RouteInv, RouteType, Graph, Fast, Loop, Verdict, Absent
<1>2. Known' /\ PlanFirst'
  BY DEF Known, PlanFirst, NoLoop
<1>3. ~doubled' => Sound(graph)' /\ Sound(manifest)'
  BY DEF Sound, FastAlone, LoopAlone, Known, Unjudged
<1>4. ~doubled' => FastAlone' /\ LoopAlone'
  BY DEF Sound, FastAlone, LoopAlone, Known, Unjudged, Results
<1>5. controls' = 0 => Undisturbed'
  BY DEF Sound, FastAlone, LoopAlone, Known, Undisturbed
<1>6. Simulated
  BY DEF Sound, FastAlone, LoopAlone, Known, PlanFirst, Unjudged, Simulated, View,
         Lifecycle!lifeVars
<1> QED BY <1>1, <1>2, <1>3, <1>4, <1>5, <1>6

(* An answer settles the parked step, or judges the task with it.          *)
LEMMA SubmitDecisionInv ==
  ASSUME RouteInv, NEW choice \in {"skip", "retry", "abort"}, SubmitDecision(choice)
  PROVE  RouteInv' /\ Simulated
<1>t. graph \in Graph /\ manifest \in Graph /\ fast \in Fast /\ loop \in Loop
  BY DEF RouteInv, RouteType
<1>r. /\ graph.live /\ graph.decision # "none"
      /\ UNCHANGED <<manifest, fast, loop, controls, doubled>> /\ (retried => retried')
  BY DEF SubmitDecision
<1>f. /\ graph' \in Graph /\ graph'.live = graph.live /\ graph'.decision = "none"
      /\ events' = events \/ (events' = events + 1 /\ graph'.status \in Verdict)
      /\ graph'.step \in {graph.step, "skipped", "pending"}
      /\ graph'.status \in {graph.status} \cup Verdict
      /\ graph'.status = "completed" =>
           graph.status = "completed" \/ retried' \/ graph.step \notin {"failed", "blocked"}
  <2> DEFINE g == Answered(choice)
  <2>0. /\ graph' = (IF g.smart THEN Concluded(g) ELSE g)
        /\ events' = (IF g.smart THEN events + 1 ELSE events)
        /\ g.smart /\ choice = "retry" => retried'
    BY DEF SubmitDecision
  <2>1. /\ g \in Graph /\ g.live = graph.live /\ g.decision = "none"
        /\ g.step \in {graph.step, "skipped", "pending"}
        /\ g.status \in {graph.status, "failed"}
        /\ choice = "skip" => g.step = "skipped"
        /\ choice = "abort" => g.step = graph.step
    BY <1>t DEF Answered, Graph, Verdict
  <2> HIDE DEF g
  <2>2. /\ Concluded(g) \in Graph /\ Concluded(g).live = g.live
        /\ Concluded(g).decision = g.decision /\ Concluded(g).step = g.step
        /\ Concluded(g).status = FinalStatus(g) /\ FinalStatus(g) \in Verdict
    BY <2>1 DEF Concluded, FinalStatus, Graph, Verdict
  <2>3. FinalStatus(g) = "completed" => choice = "retry" \/ graph.step \notin {"failed", "blocked"}
    BY <2>1 DEF FinalStatus
  <2>4. CASE g.smart
    BY <2>0, <2>1, <2>2, <2>3, <2>4 DEF Verdict
  <2>5. CASE ~g.smart
    BY <2>0, <2>1, <2>5 DEF Verdict
  <2> QED BY <2>4, <2>5
<1>1. RouteType'
  <2>1. fast' \in Fast
    BY <1>t, <1>r DEF Fast, NoFast
  <2>2. loop' \in Loop
    BY <1>t, <1>r DEF Loop, NoLoop
  <2>3. loop'.at = "final" => loop'.verdict \in Verdict
    BY <1>t, <1>r DEF RouteInv, RouteType, Loop, NoLoop
  <2>4. events' \in Nat /\ controls' \in Nat /\ manifest' \in Graph
    BY <1>t, <1>r, <1>f DEF RouteInv, RouteType
  <2>5. doubled' \in BOOLEAN
    BY <1>r DEF RouteInv, RouteType
  <2> QED BY <1>f, <2>1, <2>2, <2>3, <2>4, <2>5 DEF RouteType
<1> USE DEF RouteInv, RouteType, Fast, Loop, Verdict, Absent, NoFast, NoLoop
<1>2. Known' /\ PlanFirst'
  BY <1>r, <1>f DEF Known, PlanFirst
<1>3. ~doubled' => Sound(graph)' /\ Sound(manifest)'
  BY <1>r, <1>f DEF Sound, FastAlone, LoopAlone, Known, Unjudged
<1>4. ~doubled' => FastAlone' /\ LoopAlone'
  BY <1>r, <1>f DEF Sound, FastAlone, LoopAlone, Known, Unjudged
<1>5. controls' = 0 => Undisturbed'
  BY <1>r, <1>f DEF Sound, FastAlone, LoopAlone, Known, Undisturbed
<1>6. Simulated
  BY <1>t, <1>r, <1>f DEF Sound, FastAlone, LoopAlone, Known, PlanFirst, Unjudged, Simulated,
         View,
         Lifecycle!lifeVars, Lifecycle!Next, Lifecycle!Proceed, Lifecycle!Finish,
         Lifecycle!LateResult, Lifecycle!Active, Lifecycle!Held, Lifecycle!Verdict, Graph
<1> QED BY <1>1, <1>2, <1>3, <1>4, <1>5, <1>6

(* A fulfilment begins.                                                    *)
LEMMA FulfillStartInv ==
  ASSUME RouteInv, FulfillStart
  PROVE  RouteInv' /\ Simulated
<1>1. RouteType'
  <2>0. graph \in Graph /\ manifest \in Graph /\ fast \in Fast /\ loop \in Loop
    BY DEF RouteInv, RouteType
  <2>1. graph' \in Graph /\ manifest' \in Graph
    BY <2>0 DEF FulfillStart, Graph, Verdict
  <2>2. fast' \in Fast /\ loop' \in Loop
    BY <2>0 DEF FulfillStart, Fast, Loop, Results
  <2>3. loop'.at = "final" => loop'.verdict \in Verdict
    BY <2>0 DEF FulfillStart, RouteInv, RouteType, Loop, Verdict
  <2>4. events' \in Nat /\ controls' \in Nat /\ doubled' \in BOOLEAN
    BY DEF FulfillStart, RouteInv, RouteType
  <2> QED BY <2>1, <2>2, <2>3, <2>4 DEF RouteType
<1> USE DEF FulfillStart, RouteInv, RouteType, Graph, Fast, Loop, Verdict, Absent
<1>2. Known' /\ PlanFirst'
  BY DEF Known, PlanFirst, NoLoop
<1>3. ~doubled' => Sound(graph)' /\ Sound(manifest)'
  BY DEF Sound, FastAlone, LoopAlone, Known, Unjudged
<1>4. ~doubled' => FastAlone' /\ LoopAlone'
  BY DEF Sound, FastAlone, LoopAlone, Known, Unjudged, Results
<1>5. controls' = 0 => Undisturbed'
  BY DEF Sound, FastAlone, LoopAlone, Known, Undisturbed
<1>6. Simulated
  BY DEF Sound, FastAlone, LoopAlone, Known, PlanFirst, Unjudged, Simulated, View,
         Lifecycle!lifeVars
<1> QED BY <1>1, <1>2, <1>3, <1>4, <1>5, <1>6

(* A fulfilment applies only to a task that is still parked.               *)
LEMMA FulfillApplyInv ==
  ASSUME RouteInv, FulfillApply
  PROVE  RouteInv' /\ Simulated
<1>t. graph \in Graph /\ manifest \in Graph /\ fast \in Fast /\ loop \in Loop
  BY DEF RouteInv, RouteType
<1>g. \/ graph' = graph
      \/ /\ graph.decision = "delegation"
         /\ \/ graph' = [graph EXCEPT !.step = "ok", !.decision = "none", !.status = "completed"]
            \/ graph' = [graph EXCEPT !.step = "ok", !.decision = "none"]
  <2>1. graph \in Graph
    BY DEF RouteInv, RouteType
  <2>2. [graph EXCEPT !.step = "ok", !.decision = "none", !.status = graph.status]
          = [graph EXCEPT !.step = "ok", !.decision = "none"]
    BY <2>1 DEF Graph
  <2> QED BY <2>2 DEF FulfillApply
<1>r. /\ UNCHANGED <<manifest, fast, loop, events, controls, retried, doubled>>
      /\ graph' = graph => saving' = saving \/ fast.at # "new"
  BY DEF FulfillApply, RouteInv, Known, Absent
<1>f. /\ graph' \in Graph
      /\ graph'.live = graph.live
      /\ \/ graph' = graph
         \/ /\ graph.decision = "delegation" /\ graph'.decision = "none" /\ graph'.step = "ok"
            /\ graph'.status \in {graph.status, "completed"}
  BY <1>t, <1>g DEF Graph, Verdict
<1>1. RouteType'
  <2>1. fast' \in Fast
    BY <1>t, <1>r DEF Fast, NoFast
  <2>2. loop' \in Loop
    BY <1>t, <1>r DEF Loop, NoLoop
  <2>3. loop'.at = "final" => loop'.verdict \in Verdict
    BY <1>t, <1>r DEF RouteInv, RouteType, Loop, NoLoop
  <2>4. events' \in Nat /\ controls' \in Nat /\ manifest' \in Graph
    BY <1>t, <1>r DEF RouteInv, RouteType
  <2>5. doubled' \in BOOLEAN
    BY <1>r DEF RouteInv, RouteType
  <2> QED BY <1>f, <2>1, <2>2, <2>3, <2>4, <2>5 DEF RouteType
<1> USE DEF RouteInv, RouteType, Fast, Loop, Verdict, Absent, NoFast, NoLoop
<1>2. Known' /\ PlanFirst'
  BY <1>r, <1>f DEF Known, PlanFirst
<1>3. ~doubled' => Sound(graph)' /\ Sound(manifest)'
  BY <1>r, <1>f DEF Sound, FastAlone, LoopAlone, Known, Unjudged
<1>4. ~doubled' => FastAlone' /\ LoopAlone'
  BY <1>r, <1>f DEF Sound, FastAlone, LoopAlone, Known, Unjudged
<1>5. controls' = 0 => Undisturbed'
  BY <1>r, <1>f DEF Sound, FastAlone, LoopAlone, Known, Undisturbed
<1>6. Simulated
  BY <1>t, <1>r, <1>f DEF Sound, FastAlone, LoopAlone, Known, PlanFirst, Unjudged, Simulated,
         View,
         Lifecycle!lifeVars, Lifecycle!Next, Lifecycle!Proceed, Lifecycle!Finish,
         Lifecycle!LateResult, Lifecycle!Active, Lifecycle!Held, Lifecycle!Verdict, Graph
<1> QED BY <1>1, <1>2, <1>3, <1>4, <1>5, <1>6

(* A plan arrives only for a task that never had a fast path.              *)
LEMMA FulfillPlanInv ==
  ASSUME RouteInv, FulfillPlan
  PROVE  RouteInv' /\ Simulated
<1>t. graph \in Graph /\ manifest \in Graph /\ fast \in Fast /\ loop \in Loop
  BY DEF RouteInv, RouteType
<1>g. graph' = [graph EXCEPT !.decision = "none", !.step = "pending", !.smart = FALSE,
                             !.status = "running"]
  BY DEF FulfillPlan
<1>r. /\ graph.live /\ graph.decision = "plan" /\ loop' = [NoLoop EXCEPT !.at = "scan", !.life = TRUE]
      /\ UNCHANGED <<manifest, fast, events, controls, retried, doubled>>
  BY DEF FulfillPlan
<1>f. /\ graph' \in Graph
      /\ graph'.live = graph.live /\ graph'.decision = "none" /\ graph'.step = "pending"
      /\ graph'.status = "running"
  BY <1>t, <1>g DEF Graph, Verdict
<1>1. RouteType'
  <2>1. fast' \in Fast
    BY <1>t, <1>r DEF Fast, NoFast
  <2>2. loop' \in Loop
    BY <1>t, <1>r DEF Loop, NoLoop
  <2>3. loop'.at = "final" => loop'.verdict \in Verdict
    BY <1>t, <1>r DEF RouteInv, RouteType, Loop, NoLoop
  <2>4. events' \in Nat /\ controls' \in Nat /\ manifest' \in Graph
    BY <1>t, <1>r DEF RouteInv, RouteType
  <2>5. doubled' \in BOOLEAN
    BY <1>r DEF RouteInv, RouteType
  <2> QED BY <1>f, <2>1, <2>2, <2>3, <2>4, <2>5 DEF RouteType
<1> USE DEF RouteInv, RouteType, Fast, Loop, Verdict, Absent, NoFast, NoLoop
<1>2. Known' /\ PlanFirst'
  BY <1>r, <1>f DEF Known, PlanFirst
<1>3. ~doubled' => Sound(graph)' /\ Sound(manifest)'
  BY <1>r, <1>f DEF Sound, FastAlone, LoopAlone, Known, Unjudged
<1>4. ~doubled' => FastAlone' /\ LoopAlone'
  BY <1>r, <1>f DEF Sound, FastAlone, LoopAlone, Known, Unjudged
<1>5. controls' = 0 => Undisturbed'
  BY <1>r, <1>f DEF Sound, FastAlone, LoopAlone, Known, Undisturbed
<1>6. Simulated
  BY <1>t, <1>r, <1>f DEF Sound, FastAlone, LoopAlone, Known, PlanFirst, Unjudged, Simulated,
         View,
         Lifecycle!lifeVars, Lifecycle!Next, Lifecycle!Proceed, Lifecycle!PlanArrives,
         Lifecycle!Held, Graph
<1> QED BY <1>1, <1>2, <1>3, <1>4, <1>5, <1>6

(* CancelTask, from any status.                                            *)
LEMMA CancelTaskInv ==
  ASSUME RouteInv, CancelTask
  PROVE  RouteInv' /\ Simulated
<1>1. RouteType'
  <2>0. graph \in Graph /\ manifest \in Graph /\ fast \in Fast /\ loop \in Loop
    BY DEF RouteInv, RouteType
  <2>1. graph' \in Graph /\ manifest' \in Graph
    BY <2>0 DEF CancelTask, Control, Graph, Verdict
  <2>2. fast' \in Fast /\ loop' \in Loop
    BY <2>0 DEF CancelTask, Control, Fast, Loop, Results
  <2>3. loop'.at = "final" => loop'.verdict \in Verdict
    BY <2>0 DEF CancelTask, Control, RouteInv, RouteType, Loop, Verdict
  <2>4. events' \in Nat /\ controls' \in Nat /\ doubled' \in BOOLEAN
    BY DEF CancelTask, Control, RouteInv, RouteType
  <2> QED BY <2>1, <2>2, <2>3, <2>4 DEF RouteType
<1> USE DEF CancelTask, Control, RouteInv, RouteType, Graph, Fast, Loop, Verdict, Absent
<1>2. Known' /\ PlanFirst'
  BY DEF Known, PlanFirst, NoLoop
<1>3. ~doubled' => Sound(graph)' /\ Sound(manifest)'
  BY DEF Sound, FastAlone, LoopAlone, Known, Unjudged
<1>4. ~doubled' => FastAlone' /\ LoopAlone'
  BY DEF Sound, FastAlone, LoopAlone, Known, Unjudged, Results, Settled,
         FinalStatus
<1>5. controls' = 0 => Undisturbed'
  BY DEF Sound, FastAlone, LoopAlone, Known, Undisturbed
<1>6. Simulated
  BY DEF Sound, FastAlone, LoopAlone, Known, PlanFirst, Unjudged, Simulated, View,
         Lifecycle!lifeVars, Lifecycle!Next, Lifecycle!Cancel
<1> QED BY <1>1, <1>2, <1>3, <1>4, <1>5, <1>6

(* SuspendTask, of a running task.                                         *)
LEMMA SuspendTaskInv ==
  ASSUME RouteInv, SuspendTask
  PROVE  RouteInv' /\ Simulated
<1>1. RouteType'
  <2>0. graph \in Graph /\ manifest \in Graph /\ fast \in Fast /\ loop \in Loop
    BY DEF RouteInv, RouteType
  <2>1. graph' \in Graph /\ manifest' \in Graph
    BY <2>0 DEF SuspendTask, Control, Suspendable, Graph, Verdict
  <2>2. fast' \in Fast /\ loop' \in Loop
    BY <2>0 DEF SuspendTask, Control, Suspendable, Fast, Loop, Results
  <2>3. loop'.at = "final" => loop'.verdict \in Verdict
    BY <2>0 DEF SuspendTask, Control, Suspendable, RouteInv, RouteType, Loop, Verdict
  <2>4. events' \in Nat /\ controls' \in Nat /\ doubled' \in BOOLEAN
    BY DEF SuspendTask, Control, Suspendable, RouteInv, RouteType
  <2> QED BY <2>1, <2>2, <2>3, <2>4 DEF RouteType
<1> USE DEF SuspendTask, Control, Suspendable, RouteInv, RouteType, Graph, Fast, Loop, Verdict,
         Absent
<1>2. Known' /\ PlanFirst'
  BY DEF Known, PlanFirst, NoLoop
<1>3. ~doubled' => Sound(graph)' /\ Sound(manifest)'
  BY DEF Sound, FastAlone, LoopAlone, Known, Unjudged
<1>4. ~doubled' => FastAlone' /\ LoopAlone'
  BY DEF Sound, FastAlone, LoopAlone, Known, Unjudged, Results, Settled,
         FinalStatus
<1>5. controls' = 0 => Undisturbed'
  BY DEF Sound, FastAlone, LoopAlone, Known, Undisturbed
<1>6. Simulated
  BY DEF Sound, FastAlone, LoopAlone, Known, PlanFirst, Unjudged, Simulated, View,
         Lifecycle!lifeVars, Lifecycle!Next, Lifecycle!Suspend, Lifecycle!Active
<1> QED BY <1>1, <1>2, <1>3, <1>4, <1>5, <1>6

(* A resume gives the task one executor, or is recorded as doubling it.    *)
LEMMA ResumeInv ==
  ASSUME RouteInv, ResumeSuspendedTask
  PROVE  RouteInv' /\ Simulated
<1>t. graph \in Graph /\ manifest \in Graph /\ fast \in Fast /\ loop \in Loop
  BY DEF RouteInv, RouteType
<1>g. graph' = [graph EXCEPT !.status = "running",
                             !.step = IF @ = "running" THEN "pending" ELSE @]
  BY DEF ResumeSuspendedTask
<1>r. /\ graph.live /\ graph.status = "suspended" /\ controls' = controls + 1
      /\ doubled' = (doubled \/ fast.at # "none") /\ loop.at \in {"none", "scan"}
      /\ loop' = [NoLoop EXCEPT !.at = "scan"]
      /\ UNCHANGED <<manifest, fast, events, retried>>
  BY DEF ResumeSuspendedTask, Control
<1>f. /\ graph' \in Graph
      /\ graph'.live = graph.live /\ graph'.decision = graph.decision /\ graph'.status = "running"
      /\ graph'.step = graph.step \/ (graph.step = "running" /\ graph'.step = "pending")
  BY <1>t, <1>g DEF Graph, Verdict
<1>1. RouteType'
  <2>1. fast' \in Fast
    BY <1>t, <1>r DEF Fast, NoFast
  <2>2. loop' \in Loop
    BY <1>t, <1>r DEF Loop, NoLoop
  <2>3. loop'.at = "final" => loop'.verdict \in Verdict
    BY <1>t, <1>r DEF RouteInv, RouteType, Loop, NoLoop
  <2>4. events' \in Nat /\ controls' \in Nat /\ manifest' \in Graph
    BY <1>t, <1>r DEF RouteInv, RouteType
  <2>5. doubled' \in BOOLEAN
    BY <1>r DEF RouteInv, RouteType
  <2> QED BY <1>f, <2>1, <2>2, <2>3, <2>4, <2>5 DEF RouteType
<1> USE DEF RouteInv, RouteType, Fast, Loop, Verdict, Absent, NoFast, NoLoop
<1>2. Known' /\ PlanFirst'
  BY <1>r, <1>f DEF Known, PlanFirst
<1>3. ~doubled' => Sound(graph)' /\ Sound(manifest)'
  BY <1>r, <1>f DEF Sound, FastAlone, LoopAlone, Known, Unjudged
<1>4. ~doubled' => FastAlone' /\ LoopAlone'
  BY <1>r, <1>f DEF Sound, FastAlone, LoopAlone, Known, Unjudged
<1>5. controls' = 0 => Undisturbed'
  BY <1>r, <1>f DEF Sound, FastAlone, LoopAlone, Known, Undisturbed
<1>6. Simulated
  BY <1>r, <1>f DEF Sound, FastAlone, LoopAlone, Known, PlanFirst, Unjudged, Simulated, View,
         Lifecycle!lifeVars, Lifecycle!Next, Lifecycle!Resume, Lifecycle!Active
<1> QED BY <1>1, <1>2, <1>3, <1>4, <1>5, <1>6

(* Forgetting or reloading a task keeps the type of its graph.             *)
LEMMA LiveOfGraph ==
  ASSUME NEW g \in Graph, NEW b \in BOOLEAN PROVE [g EXCEPT !.live = b] \in Graph
BY DEF Graph

(* A forgotten task keeps its status in the manifest.                      *)
LEMMA ForgetInv ==
  ASSUME RouteInv, Forget
  PROVE  RouteInv' /\ Simulated
<1>0. /\ graph.live /\ graph' = [graph EXCEPT !.live = FALSE] /\ controls' = controls + 1
      /\ UNCHANGED <<manifest, fast, loop, saving, events, retried, doubled>>
  BY DEF Forget, Control
<1>1. RouteType'
  <2>0. graph \in Graph /\ manifest \in Graph /\ fast \in Fast /\ loop \in Loop
    BY DEF RouteInv, RouteType
  <2>1. graph' \in Graph /\ manifest' \in Graph
    BY <1>0, <2>0, LiveOfGraph
  <2>2. fast' \in Fast /\ loop' \in Loop
    BY <1>0, <2>0
  <2>3. loop'.at = "final" => loop'.verdict \in Verdict
    BY <1>0, <2>0 DEF RouteInv, RouteType, Loop, Verdict
  <2>4. events' \in Nat /\ controls' \in Nat /\ doubled' \in BOOLEAN
    BY <1>0 DEF RouteInv, RouteType
  <2> QED BY <2>1, <2>2, <2>3, <2>4 DEF RouteType
<1> USE DEF RouteInv, RouteType, Graph, Fast, Loop, Verdict, Absent
<1>2. Known' /\ PlanFirst'
  BY <1>0 DEF Known, PlanFirst, NoLoop
<1>3. ~doubled' => Sound(graph)' /\ Sound(manifest)'
  BY <1>0 DEF Sound, FastAlone, LoopAlone, Known, Unjudged
<1>4. ~doubled' => FastAlone' /\ LoopAlone'
  BY <1>0 DEF Sound, FastAlone, LoopAlone, Known, Unjudged, Results, Settled,
         FinalStatus
<1>5. controls' = 0 => Undisturbed'
  BY <1>0 DEF Sound, FastAlone, LoopAlone, Known, Undisturbed
<1>6. Simulated
  BY <1>0 DEF Sound, FastAlone, LoopAlone, Known, PlanFirst, Unjudged, Simulated, View,
         Lifecycle!lifeVars
<1> QED BY <1>1, <1>2, <1>3, <1>4, <1>5, <1>6

(* A task is reloaded with the status it was saved with.                   *)
LEMMA ReviveInv ==
  ASSUME RouteInv, Revive
  PROVE  RouteInv' /\ Simulated
<1>1. RouteType'
  <2>0. graph \in Graph /\ manifest \in Graph /\ fast \in Fast /\ loop \in Loop
    BY DEF RouteInv, RouteType
  <2>1. graph' \in Graph /\ manifest' \in Graph
    BY <2>0, LiveOfGraph DEF Revive
  <2>2. fast' \in Fast /\ loop' \in Loop
    BY <2>0 DEF Revive, Fast, Loop, Results
  <2>3. loop'.at = "final" => loop'.verdict \in Verdict
    BY <2>0 DEF Revive, RouteInv, RouteType, Loop, Verdict
  <2>4. events' \in Nat /\ controls' \in Nat /\ doubled' \in BOOLEAN
    BY DEF Revive, RouteInv, RouteType
  <2> QED BY <2>1, <2>2, <2>3, <2>4 DEF RouteType
<1> USE DEF Revive, RouteInv, RouteType, Graph, Fast, Loop, Verdict, Absent
<1>2. Known' /\ PlanFirst'
  BY DEF Known, PlanFirst, NoLoop
<1>3. ~doubled' => Sound(graph)' /\ Sound(manifest)'
  BY DEF Sound, FastAlone, LoopAlone, Known, Unjudged
<1>4. ~doubled' => FastAlone' /\ LoopAlone'
  BY DEF Sound, FastAlone, LoopAlone, Known, Unjudged, Results
<1>5. controls' = 0 => Undisturbed'
  BY DEF Sound, FastAlone, LoopAlone, Known, Undisturbed
<1>6. Simulated
  BY DEF Sound, FastAlone, LoopAlone, Known, PlanFirst, Unjudged, Simulated, View,
         Lifecycle!lifeVars, Lifecycle!Next, Lifecycle!Reload
<1> QED BY <1>1, <1>2, <1>3, <1>4, <1>5, <1>6

(* A restart reloads it too, and starts a run loop on a running task.      *)
LEMMA RestartInv ==
  ASSUME RouteInv, Restart
  PROVE  RouteInv' /\ Simulated
<1>t. graph \in Graph /\ manifest \in Graph /\ fast \in Fast /\ loop \in Loop
  BY DEF RouteInv, RouteType
<1>g. graph' = [manifest EXCEPT !.live = TRUE,
                 !.step = IF manifest.status = "running" /\ @ = "running" THEN "pending" ELSE @]
  BY DEF Restart
<1>r. /\ manifest # Absent /\ fast' = NoFast /\ events' = 0
      /\ loop' = NoLoop \/ (manifest.status = "running" /\ loop' = [NoLoop EXCEPT !.at = "scan"])
      /\ UNCHANGED <<manifest, controls, retried, doubled>>
  BY DEF Restart
<1>f. /\ graph' \in Graph
      /\ graph'.live /\ graph'.decision = manifest.decision /\ graph'.status = manifest.status
      /\ graph'.step = manifest.step \/ (manifest.step = "running" /\ graph'.step = "pending")
  BY <1>t, <1>g DEF Graph, Verdict
<1>1. RouteType'
  <2>1. fast' \in Fast
    BY <1>t, <1>r DEF Fast, NoFast
  <2>2. loop' \in Loop
    <3>1. NoLoop \in Loop /\ [NoLoop EXCEPT !.at = "scan"] \in Loop
      BY DEF Loop, NoLoop
    <3> QED BY <1>r, <3>1
  <2>3. loop'.at = "final" => loop'.verdict \in Verdict
    BY <1>t, <1>r DEF RouteInv, RouteType, Loop, NoLoop
  <2>4. events' \in Nat /\ controls' \in Nat /\ manifest' \in Graph
    BY <1>t, <1>r DEF RouteInv, RouteType
  <2>5. doubled' \in BOOLEAN
    BY <1>r DEF RouteInv, RouteType
  <2> QED BY <1>f, <2>1, <2>2, <2>3, <2>4, <2>5 DEF RouteType
<1> USE DEF RouteInv, RouteType, Fast, Loop, Verdict, Absent, NoFast, NoLoop
<1>2. Known' /\ PlanFirst'
  BY <1>r, <1>f DEF Known, PlanFirst
<1>3. ~doubled' => Sound(graph)' /\ Sound(manifest)'
  BY <1>r, <1>f DEF Sound, FastAlone, LoopAlone, Known, Unjudged
<1>4. ~doubled' => FastAlone' /\ LoopAlone'
  BY <1>r, <1>f DEF Sound, FastAlone, LoopAlone, Known, Unjudged
<1>5. controls' = 0 => Undisturbed'
  BY <1>r, <1>f DEF Sound, FastAlone, LoopAlone, Known, Undisturbed
<1>6. Simulated
  BY <1>r, <1>f DEF Sound, FastAlone, LoopAlone, Known, PlanFirst, Unjudged, Simulated, View,
         Lifecycle!lifeVars, Lifecycle!Next, Lifecycle!Reload
<1> QED BY <1>1, <1>2, <1>3, <1>4, <1>5, <1>6

----------------------------------------------------------------------------
(* Every step keeps the invariant and is a step of TaskLifecycle.          *)
LEMMA RouteNext ==
  ASSUME RouteInv, [Next]_routeVars
  PROVE  RouteInv' /\ Simulated
<1>1. CASE FastPath
  BY <1>1, SpawnReturnsInv, AuditInv, AssignInv, DecideInv, FastPersistInv, FastDoneInv,
     FastEventInv DEF FastPath
<1>2. CASE RunLoop
  BY <1>2, LoopReturnsInv, LoopStartsInv, LoopStepInv, LoopFinalInv, LoopSetsInv,
     LoopPublishesInv DEF RunLoop
<1>3. CASE \E choice \in {"skip", "retry", "abort"} : SubmitDecision(choice)
  BY <1>3, SubmitDecisionInv
<1>4. CASE \/ \E plan \in BOOLEAN : Submit(plan)
           \/ SaveLater \/ Debounced \/ FulfillStart \/ FulfillApply \/ FulfillPlan
  BY <1>4, SubmitInv, SaveLaterInv, DebouncedInv, FulfillStartInv, FulfillApplyInv, FulfillPlanInv
<1>5. CASE CancelTask \/ SuspendTask \/ ResumeSuspendedTask \/ Forget \/ Revive \/ Restart
  BY <1>5, CancelTaskInv, SuspendTaskInv, ResumeInv, ForgetInv, ReviveInv, RestartInv
<1>6. CASE UNCHANGED routeVars
  <2> USE <1>6 DEF routeVars
  <2>1. RouteType' /\ Known' /\ PlanFirst' /\ Simulated
    BY DEF RouteInv, RouteType, Known, PlanFirst, Simulated, View, Lifecycle!lifeVars
  <2>2. /\ ~doubled' => Sound(graph)' /\ Sound(manifest)' /\ FastAlone' /\ LoopAlone'
        /\ controls' = 0 => Undisturbed'
    BY DEF RouteInv, Sound, FastAlone, LoopAlone, Undisturbed
  <2> QED BY <2>1, <2>2 DEF RouteInv
<1> QED BY <1>1, <1>2, <1>3, <1>4, <1>5, <1>6 DEF Next

(* The inductive invariant of a smart-routed task.                         *)
THEOREM RouteInvariant == Spec => []RouteInv
<1>1. RouteInv /\ [Next]_routeVars => RouteInv'
  BY RouteNext
<1> QED BY <1>1, RouteInitInv, PTL DEF Spec

(* What callers see of the task follows TaskLifecycle: the fast path, the  *)
(* run loop, answers, fulfilments and late results never take a verdict    *)
(* back, unless a resume gave the task a second executor.                  *)
THEOREM RouteFollowsLifecycle == Spec => FollowsLifecycle
<1>1. Init => Lifecycle!Init
  BY DEF Init, Lifecycle!Init, View, Absent
<1>2. RouteInv /\ [Next]_routeVars => [Lifecycle!Next]_Lifecycle!lifeVars
  BY RouteNext DEF Simulated
<1> QED BY <1>1, <1>2, RouteInvariant, PTL DEF Spec, FollowsLifecycle, Lifecycle!Spec

(* Without control operations at most one terminal event is published      *)
(* after a start: finalize's guard absorbs the run loop that a delegation  *)
(* leaves behind.                                                          *)
THEOREM RouteVerdictOnce == Spec => []VerdictOnce
<1>1. RouteInv => VerdictOnce
  BY DEF RouteInv, Undisturbed, VerdictOnce
<1> QED BY <1>1, RouteInvariant, PTL

(* A completed task has a successful step, but for a retry answered on a   *)
(* smart-routed graph and a second executor.                               *)
THEOREM RouteHonestUnlessRetried == Spec => []HonestUnlessRetried
<1>1. RouteInv => HonestUnlessRetried
  BY DEF RouteInv, Sound, HonestUnlessRetried
<1> QED BY <1>1, RouteInvariant, PTL

-----------------------------------------------------------------------------
(* The calls of the steps to a tool server, its read cache and the effect  *)
(* tracker, as an instance that keeps the names of ToolCalls.              *)

CONSTANTS Step, ReadKey, WriteKey, Marked, HardCap, MaxEntries, MaxCalls, MaxVersion
VARIABLES version, cache, steps, late, records, ran, overlapped
Tools == INSTANCE ToolCalls

Calls == [at : {"idle", "calling", "executed", "lost"}, key : Tools!Key \cup {-1},
          got : Int, retried : BOOLEAN]
Answers == [Tools!Key -> Int]
Stepping == [call : Calls, turnKeys : SUBSET Tools!Key, calls : Int,
             count : Answers, streak : Answers, last : Answers]

ToolTypes ==
  /\ version \in Nat /\ cache \in [ReadKey -> Int] /\ steps \in [Step -> Stepping]
  /\ late \subseteq Step /\ records \in [Step -> Nat] /\ ran \in [Step -> Nat]
  /\ overlapped \in BOOLEAN

(* A call that is over has left nothing, one in flight has a key.          *)
Tidy(c) == IF c.at = "idle" THEN c = Tools!Idle ELSE c.key \in Tools!Key

(* The executions of a write in flight that no record covers yet: that of  *)
(* its first attempt, and that of the repeated one.                        *)
Owed(c) == IF c.key \notin WriteKey \/ c.at = "idle" THEN 0
           ELSE (IF c.retried THEN 1 ELSE 0) + (IF c.at \in {"executed", "lost"} THEN 1 ELSE 0)

Writes(c) == c.at # "idle" /\ c.key \in WriteKey

(* While nothing overlapped: an answer that has arrived is current, a      *)
(* write in flight is alone and has emptied the cache, and without one the *)
(* cache is current.                                                       *)
Alone ==
  /\ late = {}
  /\ \A s \in Step : steps[s].call.at = "executed" => steps[s].call.got = version
  /\ \A s \in Step : Writes(steps[s].call) =>
       /\ \A t \in Step \ {s} : steps[t].call.at = "idle"
       /\ \A k \in ReadKey : cache[k] = -1
  /\ (\A s \in Step : ~Writes(steps[s].call)) => \A k \in ReadKey : cache[k] \in {-1, version}

ToolInv ==
  /\ ToolTypes
  /\ \A s \in Step : Tidy(steps[s].call)
  /\ \A s \in Step : ran[s] + Tools!Coming(s) <= 2 * records[s] + Owed(steps[s].call)
  /\ ~overlapped => Alone

USE DEF Tools!None

(* Counting a call and noting a result leave the call in flight alone.     *)
LEMMA CountedKeeps ==
  ASSUME NEW s \in Step, steps \in [Step -> Stepping], NEW k \in Tools!Key
  PROVE  Tools!Counted(s, k) \in Stepping /\ Tools!Counted(s, k).call = steps[s].call
<1>1. steps[s] \in Stepping
  OBVIOUS
<1> DEFINE keys == steps[s].turnKeys \cup {k}
           number == steps[s].calls + 1
           counts == [steps[s].count EXCEPT ![k] = @ + 1]
<1>2. keys \in SUBSET Tools!Key /\ number \in Int /\ counts \in Answers
  BY <1>1 DEF Stepping, Answers
<1>3. Tools!Counted(s, k) = [steps[s] EXCEPT !.turnKeys = keys, !.calls = number, !.count = counts]
  BY <1>1 DEF Tools!Counted, Stepping, Answers
<1> HIDE DEF keys, number, counts
<1> QED BY <1>1, <1>2, <1>3, Zenon DEF Stepping

LEMMA NoteKeeps ==
  ASSUME NEW st \in Stepping, NEW k \in Tools!Key, NEW v \in Int, NEW f \in BOOLEAN
  PROVE  Tools!noteToolResult(st, k, v, f) \in Stepping /\ Tools!noteToolResult(st, k, v, f).call = st.call
<1> DEFINE answer == IF k \in Marked /\ ~f THEN 1000 + v ELSE v
<1>1. answer \in Int
  OBVIOUS
<1>2. [st EXCEPT !.streak[k] = @ + 1] \in Stepping
  BY DEF Stepping, Answers
<1> HIDE DEF answer
<1>3. [st EXCEPT !.last[k] = answer, !.streak[k] = 1] \in Stepping
  <2> DEFINE lasts == [st.last EXCEPT ![k] = answer]
             streaks == [st.streak EXCEPT ![k] = 1]
  <2>1. lasts \in Answers /\ streaks \in Answers
    BY <1>1 DEF Stepping, Answers
  <2>2. [st EXCEPT !.last[k] = answer, !.streak[k] = 1] = [st EXCEPT !.last = lasts, !.streak = streaks]
    BY DEF Stepping, Answers
  <2> HIDE DEF lasts, streaks
  <2> QED BY <2>1, <2>2, Zenon DEF Stepping
<1>4. [st EXCEPT !.streak[k] = @ + 1].call = st.call
  BY DEF Stepping
<1>5. [st EXCEPT !.last[k] = answer, !.streak[k] = 1].call = st.call
  BY DEF Stepping
<1>6. Tools!noteToolResult(st, k, v, f) = IF st.last[k] = answer
        THEN [st EXCEPT !.streak[k] = @ + 1]
        ELSE [st EXCEPT !.last[k] = answer, !.streak[k] = 1]
  BY DEF Tools!noteToolResult, answer
<1> QED BY <1>2, <1>3, <1>4, <1>5, <1>6

(* A step that leaves every call, the cache and the counters as they are.  *)
LEMMA SameCalls ==
  ASSUME ToolInv, steps' \in [Step -> Stepping], \A t \in Step : steps'[t].call = steps[t].call,
         UNCHANGED <<version, cache, late, records, ran, overlapped>>
  PROVE  ToolInv'
<1>1. ToolTypes' /\ (\A s \in Step : Tidy(steps[s].call))'
  BY DEF ToolInv, ToolTypes, Tidy, Tools!Idle, Tools!Key
<1>2. (\A s \in Step : ran[s] + Tools!Coming(s) <= 2 * records[s] + Owed(steps[s].call))'
  BY DEF ToolInv, Tools!Coming, Owed
<1>3. (~overlapped => Alone)'
  BY DEF ToolInv, Alone, Writes
<1> QED BY <1>1, <1>2, <1>3 DEF ToolInv

(* A step s whose call becomes c.                                          *)
Becomes(s, c) ==
  /\ steps' \in [Step -> Stepping] /\ Tidy(c)
  /\ steps'[s].call = c
  /\ \A t \in Step \ {s} : steps'[t].call = steps[t].call

LEMMA SetCall ==
  ASSUME ToolTypes, NEW s \in Step, NEW st \in Stepping, NEW c \in Calls, Tidy(c),
         steps' = [steps EXCEPT ![s] = [st EXCEPT !.call = c]]
  PROVE  Becomes(s, c)
<1>1. [st EXCEPT !.call = c] \in Stepping /\ [st EXCEPT !.call = c].call = c
  BY DEF Stepping
<1> QED BY <1>1 DEF Becomes, ToolTypes

(* What the records cover after a step of one call.                        *)
LEMMA RecordsCover ==
  ASSUME ToolInv, NEW s \in Step, NEW c, Becomes(s, c), records' \in [Step -> Nat], ran' \in [Step -> Nat],
         \A t \in Step \ {s} : ran'[t] = ran[t] /\ records'[t] = records[t] /\ (t \in late' <=> t \in late),
         ran'[s] + Tools!Coming(s)' <= 2 * records'[s] + Owed(c)
  PROVE  (\A t \in Step : ran[t] + Tools!Coming(t) <= 2 * records[t] + Owed(steps[t].call))'
<1> SUFFICES ASSUME NEW t \in Step
             PROVE  ran'[t] + Tools!Coming(t)' <= 2 * records'[t] + Owed(steps'[t].call)
  BY DEF Owed
<1>1. CASE t = s
  BY <1>1 DEF Becomes
<1>2. CASE t # s
  <2>1. Tools!Coming(t)' = Tools!Coming(t)
    BY <1>2 DEF Tools!Coming
  <2> QED BY <1>2, <2>1 DEF Becomes, ToolInv
<1> QED BY <1>1, <1>2

LEMMA TidyStays ==
  ASSUME ToolInv, NEW s \in Step, NEW c, Becomes(s, c)
  PROVE  (\A t \in Step : Tidy(steps[t].call))'
<1> SUFFICES ASSUME NEW t \in Step PROVE Tidy(steps'[t].call)
  BY DEF Tidy, Tools!Idle, Tools!Key
<1> QED BY DEF Becomes, ToolInv

(* The bound of a step before its call changes.                            *)
LEMMA Before ==
  ASSUME ToolInv, NEW s \in Step
  PROVE  /\ steps[s] \in Stepping /\ steps[s].call \in Calls /\ Tidy(steps[s].call)
         /\ ran[s] \in Nat /\ records[s] \in Nat /\ Tools!Coming(s) \in {0, 1} /\ Owed(steps[s].call) \in 0..2
         /\ ran[s] + Tools!Coming(s) <= 2 * records[s] + Owed(steps[s].call)
<1>1. steps[s] \in Stepping /\ steps[s].call \in Calls
  BY DEF ToolInv, ToolTypes, Stepping
<1> QED BY <1>1 DEF ToolInv, ToolTypes, Tools!Coming, Owed

(* A call is made, refused or answered from the cache.                     *)
LEMMA NoCallKeeps ==
  ASSUME ToolInv, NEW s \in Step,
         Tools!NewTurn(s) \/ Tools!RefuseCall(s) \/ Tools!BlockCall(s) \/ Tools!ReadHit(s)
  PROVE  ToolInv'
<1> DEFINE keeps(st) == st \in Stepping /\ st.call = steps[s].call
<1>0. steps \in [Step -> Stepping] /\ steps[s] \in Stepping /\ cache \in [ReadKey -> Int]
  BY DEF ToolInv, ToolTypes
<1>1. ASSUME NEW st, keeps(st), steps' = [steps EXCEPT ![s] = st],
             UNCHANGED <<version, cache, late, records, ran, overlapped>>
      PROVE  ToolInv'
  <2>1. steps' \in [Step -> Stepping] /\ \A t \in Step : steps'[t].call = steps[t].call
    BY <1>0, <1>1
  <2> QED BY <1>1, <2>1, SameCalls
<1>2. CASE Tools!NewTurn(s)
  <2>1. keeps([steps[s] EXCEPT !.turnKeys = {}])
    BY <1>0 DEF Stepping
  <2>2. steps' = [steps EXCEPT ![s] = [steps[s] EXCEPT !.turnKeys = {}]]
    BY <1>0, <1>2 DEF Tools!NewTurn
  <2> HIDE DEF keeps
  <2> QED BY <1>1, <1>2, <2>1, <2>2, Zenon DEF Tools!NewTurn
<1>3. CASE Tools!RefuseCall(s)
  <2>1. PICK k \in Tools!Key : steps' = [steps EXCEPT ![s].turnKeys = @ \cup {k}, ![s].calls = @ + 1]
    BY <1>3, Zenon DEF Tools!RefuseCall
  <2>2. steps' = [steps EXCEPT ![s] = [steps[s] EXCEPT !.turnKeys = @ \cup {k}, !.calls = @ + 1]]
    BY <1>0, <2>1, Zenon
  <2>3. keeps([steps[s] EXCEPT !.turnKeys = @ \cup {k}, !.calls = @ + 1])
    <3>1. steps[s].turnKeys \cup {k} \in SUBSET Tools!Key /\ steps[s].calls + 1 \in Int
      BY <1>0 DEF Stepping
    <3> QED BY <1>0, <3>1, Zenon DEF Stepping
  <2> HIDE DEF keeps
  <2> QED BY <1>1, <1>3, <2>2, <2>3, Zenon DEF Tools!RefuseCall
<1>4. CASE Tools!BlockCall(s)
  <2>1. PICK k \in Tools!Key : steps' = [steps EXCEPT ![s] = Tools!Counted(s, k)]
    BY <1>4, Zenon DEF Tools!BlockCall
  <2> QED BY <1>0, <1>1, <1>4, <2>1, CountedKeeps, Zenon DEF Tools!BlockCall
<1>5. CASE Tools!ReadHit(s)
  <2>1. PICK k \in ReadKey :
          steps' = [steps EXCEPT ![s] = Tools!noteToolResult(Tools!Counted(s, k), k, cache[k], TRUE)]
    BY <1>5, Zenon DEF Tools!ReadHit
  <2>2. k \in Tools!Key /\ cache[k] \in Int
    BY <1>0 DEF Tools!Key
  <2>3. keeps(Tools!noteToolResult(Tools!Counted(s, k), k, cache[k], TRUE))
    <3>1. keeps(Tools!Counted(s, k))
      BY <1>0, <2>2, CountedKeeps
    <3> QED BY <2>2, <3>1, NoteKeeps, Zenon
  <2> HIDE DEF keeps
  <2> QED BY <1>1, <1>5, <2>1, <2>3, Zenon DEF Tools!ReadHit
<1> QED BY <1>2, <1>3, <1>4, <1>5

Called(k) == [Tools!Idle EXCEPT !.at = "calling", !.key = k]

LEMMA CalledIs ==
  ASSUME NEW k \in Tools!Key
  PROVE  /\ Called(k).at = "calling" /\ Called(k).key = k /\ ~Called(k).retried
         /\ Called(k) \in Calls /\ Tidy(Called(k)) /\ Owed(Called(k)) = 0
<1>1. Tools!Idle \in Calls /\ Tools!Idle.retried = FALSE
  BY DEF Tools!Idle, Calls
<1>2. /\ Called(k) \in Calls /\ Called(k).at = "calling" /\ Called(k).key = k
      /\ Called(k).retried = FALSE
  BY <1>1, Zenon DEF Called, Calls
<1> QED BY <1>2 DEF Tidy, Owed

(* A call that starts: its step had none.                                  *)
LEMMA Starts ==
  ASSUME ToolInv, NEW s \in Step, NEW k \in Tools!Key, steps[s].call = Tools!Idle,
         steps' = [steps EXCEPT ![s] = [Tools!Counted(s, k) EXCEPT
                     !.call = [Tools!Idle EXCEPT !.at = "calling", !.key = k]]],
         UNCHANGED <<version, late, records, ran>>
  PROVE  /\ Becomes(s, Called(k)) /\ (\A t \in Step : Tidy(steps[t].call))'
         /\ (\A t \in Step : ran[t] + Tools!Coming(t) <= 2 * records[t] + Owed(steps[t].call))'
<1>1. ToolTypes /\ steps \in [Step -> Stepping]
  BY DEF ToolInv, ToolTypes
<1>2. Becomes(s, Called(k))
  BY <1>1, CountedKeeps, CalledIs, SetCall, Zenon DEF Called
<1>3. Owed(steps[s].call) = 0
  BY DEF Owed, Tools!Idle
<1>4. ran'[s] + Tools!Coming(s)' <= 2 * records'[s] + Owed(Called(k))
  <2>1. Tools!Coming(s)' = Tools!Coming(s)
    BY DEF Tools!Coming
  <2> QED BY <1>3, <2>1, CalledIs, Before
<1>5. records' \in [Step -> Nat] /\ ran' \in [Step -> Nat]
  BY <1>1 DEF ToolTypes
<1> QED BY <1>2, <1>4, <1>5, TidyStays, RecordsCover

LEMMA StartWriteKeeps ==
  ASSUME ToolInv, NEW s \in Step, Tools!StartWrite(s) PROVE ToolInv'
<1>1. PICK k \in WriteKey :
        /\ steps[s].call = Tools!Idle /\ cache' = Tools!Invalidate
        /\ steps' = [steps EXCEPT ![s] = [Tools!Counted(s, k) EXCEPT
                       !.call = [Tools!Idle EXCEPT !.at = "calling", !.key = k]]]
        /\ overlapped' = (overlapped \/ Tools!Overlaps(s, k))
        /\ UNCHANGED <<version, late, records, ran>>
  BY Zenon DEF Tools!StartWrite
<1>2. k \in Tools!Key
  BY DEF Tools!Key
<1>3. /\ Becomes(s, Called(k)) /\ (\A t \in Step : Tidy(steps[t].call))'
      /\ (\A t \in Step : ran[t] + Tools!Coming(t) <= 2 * records[t] + Owed(steps[t].call))'
  BY <1>1, <1>2, Starts, Zenon
<1>4. cache' = [x \in ReadKey |-> -1]
  BY <1>1 DEF Tools!Invalidate
<1>5. ToolTypes'
  BY <1>1, <1>3, <1>4 DEF ToolInv, ToolTypes, Becomes
<1>6. ASSUME ~overlapped' PROVE Alone'
  <2>1. ~overlapped /\ late = {} /\ \A t \in Step \ {s} : steps[t].call = Tools!Idle
    BY <1>1, <1>6, Zenon DEF Tools!Overlaps, Tools!InFlight, ToolInv, Alone
  <2>2. \A t \in Step \ {s} : steps'[t].call = Tools!Idle
    BY <1>3, <2>1 DEF Becomes
  <2>3. \A t \in Step \ {s} : steps'[t].call.at = "idle"
    BY <2>2 DEF Tools!Idle
  <2>4. steps'[s].call.at = "calling" /\ steps'[s].call.key = k
    BY <1>2, <1>3, CalledIs DEF Becomes
  <2> QED BY <1>1, <1>4, <2>1, <2>3, <2>4 DEF Alone, Writes
<1> QED BY <1>3, <1>5, <1>6 DEF ToolInv

LEMMA StartReadKeeps ==
  ASSUME ToolInv, ReadKey \cap WriteKey = {}, NEW s \in Step, Tools!StartRead(s) PROVE ToolInv'
<1>1. PICK k \in ReadKey :
        /\ steps[s].call = Tools!Idle /\ cache' = [cache EXCEPT ![k] = -1]
        /\ steps' = [steps EXCEPT ![s] = [Tools!Counted(s, k) EXCEPT
                       !.call = [Tools!Idle EXCEPT !.at = "calling", !.key = k]]]
        /\ overlapped' = (overlapped \/ Tools!Overlaps(s, k))
        /\ UNCHANGED <<version, late, records, ran>>
  BY Zenon DEF Tools!StartRead
<1>2. k \in Tools!Key /\ k \notin WriteKey
  BY DEF Tools!Key
<1>3. /\ Becomes(s, Called(k)) /\ (\A t \in Step : Tidy(steps[t].call))'
      /\ (\A t \in Step : ran[t] + Tools!Coming(t) <= 2 * records[t] + Owed(steps[t].call))'
  BY <1>1, <1>2, Starts, Zenon
<1>4. cache' \in [ReadKey -> Int] /\ \A x \in ReadKey : cache'[x] \in {-1, cache[x]}
  BY <1>1 DEF ToolInv, ToolTypes
<1>5. ToolTypes'
  BY <1>1, <1>3, <1>4 DEF ToolInv, ToolTypes, Becomes
<1>6. ASSUME ~overlapped' PROVE Alone'
  <2>1. ~overlapped /\ Alone
    BY <1>1, <1>6, Zenon DEF ToolInv
  <2>2. \A t \in Step \ {s} : ~Writes(steps[t].call)
    <3> SUFFICES ASSUME NEW t \in Step \ {s}, Writes(steps[t].call) PROVE FALSE
      OBVIOUS
    <3>1. steps[t].call # Tools!Idle
      BY DEF Writes, Tools!Idle
    <3> QED BY <1>1, <1>6, <3>1, Zenon DEF Tools!Overlaps, Tools!InFlight, Tools!Writing, Writes
  <2>3. steps'[s].call.at = "calling" /\ steps'[s].call.key = k /\ ~Writes(steps'[s].call)
    BY <1>2, <1>3, CalledIs DEF Becomes, Writes
  <2>4. ~Writes(steps[s].call)
    BY <1>1 DEF Writes, Tools!Idle
  <2>5. \A t \in Step : ~Writes(steps[t].call) /\ ~Writes(steps'[t].call)
    BY <1>3, <2>2, <2>3, <2>4 DEF Becomes
  <2>6. \A t \in Step : steps'[t].call.at = "executed" => steps'[t].call.got = version'
    BY <1>1, <1>3, <2>1, <2>3 DEF Becomes, Alone
  <2>7. \A x \in ReadKey : cache'[x] \in {-1, version'}
    BY <1>1, <1>4, <2>1, <2>5 DEF Alone
  <2> QED BY <1>1, <2>1, <2>5, <2>6, <2>7 DEF Alone, Writes
<1> QED BY <1>3, <1>5, <1>6, Zenon DEF ToolInv

(* A step of the call in flight of s, which stays a call of its key.       *)
LEMMA CallSteps ==
  ASSUME ToolInv, NEW s \in Step, NEW c \in Calls, steps[s].call.at # "idle",
         c.at # "idle", c.key = steps[s].call.key,
         steps' = [steps EXCEPT ![s].call = c]
  PROVE  Becomes(s, c)
<1>1. steps' = [steps EXCEPT ![s] = [steps[s] EXCEPT !.call = c]]
  BY DEF ToolInv, ToolTypes
<1>2. Tidy(c)
  BY Before DEF Tidy
<1> QED BY <1>1, <1>2, Before, SetCall, Zenon DEF ToolInv

(* Such a step, when no write is executed, leaves the others undisturbed.  *)
LEMMA AloneStays ==
  ASSUME ToolInv, NEW s \in Step, NEW c, Becomes(s, c), steps[s].call.at # "idle",
         c.at # "idle", c.key = steps[s].call.key, c.at = "executed" => c.got = version,
         Alone, UNCHANGED <<version, cache, late>>
  PROVE  Alone'
<1>1. \A t \in Step : /\ Writes(steps'[t].call) = Writes(steps[t].call)
                      /\ steps'[t].call.at = "idle" <=> steps[t].call.at = "idle"
                      /\ steps'[t].call.at = "executed" => steps'[t].call.got = version
  BY DEF Becomes, Alone, Writes
<1> QED BY <1>1 DEF Alone

LEMMA AnsweredCall ==
  ASSUME NEW c \in Calls, NEW a \in {"executed", "lost"}, NEW v \in Int,
         NEW d, d = [c EXCEPT !.at = a, !.got = v]
  PROVE  d \in Calls
BY Zenon DEF Calls

LEMMA ExecuteKeeps ==
  ASSUME ToolInv, NEW s \in Step, Tools!Execute(s) PROVE ToolInv'
<1> DEFINE c0 == steps[s].call
           v == IF c0.key \in WriteKey THEN version + 1 ELSE version
<1>1. c0.at = "calling" /\ version' = v /\ UNCHANGED <<cache, late, records, overlapped>>
      /\ ran' = [ran EXCEPT ![s] = IF c0.key \in WriteKey THEN @ + 1 ELSE @]
  BY DEF Tools!Execute
<1>2. PICK a \in {"executed", "lost"} : steps' = [steps EXCEPT ![s].call.at = a, ![s].call.got = v]
  BY Zenon DEF Tools!Execute
<1> DEFINE c == [c0 EXCEPT !.at = a, !.got = v]
<1>3. steps \in [Step -> Stepping] /\ steps[s] \in Stepping /\ c0 \in Calls /\ version \in Nat
  BY Before DEF ToolInv, ToolTypes
<1>4. v \in Nat /\ v \in Int /\ a \in {"executed", "lost"}
  BY <1>2, <1>3
<1> HIDE DEF v
<1>5. c \in Calls /\ c.at = a /\ c.got = v /\ c.key = c0.key /\ c.retried = c0.retried
  <2>1. c = [c0 EXCEPT !.at = a, !.got = v]
    OBVIOUS
  <2>2. c0 \in Calls
    BY <1>3
  <2>3. v \in Int
    BY <1>4
  <2>4. a \in {"executed", "lost"}
    BY <1>4
  <2> HIDE DEF c, c0
  <2>5. c \in Calls
    BY <2>1, <2>2, <2>3, <2>4, AnsweredCall, Zenon
  <2>6. c.at = a /\ c.got = v
    BY <2>1, <2>2 DEF Calls
  <2>7. c.key = c0.key /\ c.retried = c0.retried
    BY <2>1, <2>2 DEF Calls
  <2> QED BY <2>5, <2>6, <2>7
<1>6. steps' = [steps EXCEPT ![s].call = c]
  BY <1>2, <1>3, Zenon DEF Stepping, Calls
<1> HIDE DEF c
<1>7. Becomes(s, c)
  BY <1>1, <1>5, <1>6, CallSteps, Zenon
<1>8. ran' \in [Step -> Nat] /\ records' \in [Step -> Nat]
  <2> DEFINE n == IF c0.key \in WriteKey THEN ran[s] + 1 ELSE ran[s]
  <2>1. ran \in [Step -> Nat] /\ records \in [Step -> Nat] /\ n \in Nat
    BY DEF ToolInv, ToolTypes
  <2>2. ran' = [ran EXCEPT ![s] = n]
    BY <1>1
  <2> HIDE DEF n
  <2> QED BY <1>1, <2>1, <2>2
<1>9. ToolTypes'
  BY <1>1, <1>4, <1>7, <1>8, Zenon DEF ToolInv, ToolTypes, Becomes
<1>10. (\A t \in Step : ran[t] + Tools!Coming(t) <= 2 * records[t] + Owed(steps[t].call))'
  <2>1. Tools!Coming(s)' = Tools!Coming(s) /\ records'[s] = records[s]
    BY <1>1, Zenon DEF Tools!Coming
  <2>2. c0.key \in WriteKey => Owed(c) = Owed(c0) + 1 /\ ran'[s] = ran[s] + 1
    <3>1. c0.key \in WriteKey => Owed(c) = Owed(c0) + 1
      BY <1>1, <1>4, <1>5 DEF Owed
    <3>2. c0.key \in WriteKey => ran'[s] = ran[s] + 1
      BY <1>1 DEF ToolInv, ToolTypes
    <3> QED BY <3>1, <3>2
  <2>3. c0.key \notin WriteKey => Owed(c) = Owed(c0) /\ ran'[s] = ran[s]
    <3>1. c0.key \notin WriteKey => Owed(c) = Owed(c0)
      BY <1>5 DEF Owed
    <3>2. c0.key \notin WriteKey => ran'[s] = ran[s]
      BY <1>1 DEF ToolInv, ToolTypes
    <3> QED BY <3>1, <3>2
  <2>4. ran'[s] + Tools!Coming(s)' <= 2 * records'[s] + Owed(c)
    <3> DEFINE m == ran[s]
               n == records[s]
               o == Owed(c0)
               w == Tools!Coming(s)
    <3>1. m \in Nat /\ n \in Nat /\ o \in 0..2 /\ w \in {0, 1} /\ m + w <= 2 * n + o
      BY Before, Zenon
    <3>2. CASE c0.key \in WriteKey
      <4>1. ran'[s] = m + 1 /\ Tools!Coming(s)' = w /\ records'[s] = n /\ Owed(c) = o + 1
        BY <2>1, <2>2, <3>2, Zenon
      <4> HIDE DEF m, n, o, w
      <4>2. (m + 1) + w <= 2 * n + (o + 1)
        BY <3>1
      <4> QED BY <4>1, <4>2, Zenon
    <3>3. CASE c0.key \notin WriteKey
      BY <2>1, <2>3, <3>1, <3>3, Zenon
    <3> QED BY <3>2, <3>3, Zenon
  <2>5. \A t \in Step \ {s} : ran'[t] = ran[t]
    BY <1>1 DEF ToolInv, ToolTypes
  <2> QED BY <1>1, <1>7, <1>8, <2>4, <2>5, RecordsCover, Zenon
<1>11. ASSUME ~overlapped' PROVE Alone'
  <2>1. Alone
    BY <1>1, <1>11 DEF ToolInv
  <2>2. CASE c0.key \notin WriteKey
    <3>1. v = version
      BY <2>2 DEF v
    <3> QED BY <1>1, <1>2, <1>5, <1>7, <2>1, <3>1, AloneStays
  <2>3. CASE c0.key \in WriteKey
    <3>1. Writes(c0) /\ Writes(c)
      BY <1>1, <1>5, <2>3 DEF Writes
    <3>2. (\A t \in Step \ {s} : steps'[t].call.at = "idle") /\ \A k \in ReadKey : cache'[k] = -1
      BY <1>1, <1>7, <2>1, <3>1 DEF Alone, Becomes
    <3> QED BY <1>1, <1>5, <1>7, <2>1, <3>1, <3>2, Zenon DEF Alone, Becomes, Writes
  <2> QED BY <2>2, <2>3
<1> QED BY <1>7, <1>9, <1>10, <1>11, TidyStays, Zenon DEF ToolInv

(* The request is lost, or repeated after a lost one.                      *)
LEMMA ConnectionKeeps ==
  ASSUME ToolInv, NEW s \in Step, Tools!LoseRequest(s) \/ Tools!Reconnect(s) PROVE ToolInv'
<1> DEFINE c0 == steps[s].call
<1>1. PICK c \in Calls : /\ steps' = [steps EXCEPT ![s].call = c]
                         /\ c0.at # "idle" /\ c.at \in {"calling", "lost"} /\ c.key = c0.key
                         /\ Owed(c) >= Owed(c0) /\ Owed(c) \in 0..2
  <2>0. steps \in [Step -> Stepping] /\ steps[s] \in Stepping /\ c0 \in Calls
    BY Before DEF ToolInv, ToolTypes
  <2>1. CASE Tools!LoseRequest(s)
    <3> DEFINE c == [c0 EXCEPT !.at = "lost"]
    <3>1. c \in Calls /\ c.at = "lost" /\ c.key = c0.key /\ c.retried = c0.retried
      BY <2>0 DEF Calls
    <3>2. steps' = [steps EXCEPT ![s].call = c] /\ c0.at = "calling"
      BY <2>0, <2>1 DEF Tools!LoseRequest, Stepping, Calls
    <3> HIDE DEF c
    <3>3. Owed(c) >= Owed(c0) /\ Owed(c) \in 0..2
      BY <2>0, <3>1, <3>2 DEF Owed, Calls
    <3> QED BY <3>1, <3>2, <3>3, Zenon
  <2>2. CASE Tools!Reconnect(s)
    <3> DEFINE c == [c0 EXCEPT !.at = "calling", !.retried = TRUE]
    <3>1. c \in Calls /\ c.at = "calling" /\ c.key = c0.key /\ c.retried
      BY <2>0, Zenon DEF Calls
    <3>2. steps' = [steps EXCEPT ![s].call = c] /\ c0.at = "lost" /\ ~c0.retried
      BY <2>0, <2>2 DEF Tools!Reconnect, Stepping, Calls
    <3> HIDE DEF c
    <3>3. Owed(c) >= Owed(c0) /\ Owed(c) \in 0..2
      BY <2>0, <3>1, <3>2 DEF Owed, Calls
    <3> QED BY <3>1, <3>2, <3>3, Zenon
  <2> QED BY <2>1, <2>2
<1>2. UNCHANGED <<version, cache, late, records, ran, overlapped>>
  BY DEF Tools!LoseRequest, Tools!Reconnect
<1>3. Becomes(s, c)
  BY <1>1, CallSteps, Zenon
<1>4. ToolTypes'
  BY <1>2, <1>3 DEF ToolInv, ToolTypes, Becomes
<1>5. (\A t \in Step : ran[t] + Tools!Coming(t) <= 2 * records[t] + Owed(steps[t].call))'
  <2>1. Tools!Coming(s)' = Tools!Coming(s)
    BY <1>2 DEF Tools!Coming
  <2>2. ran'[s] + Tools!Coming(s)' <= 2 * records'[s] + Owed(c)
    BY <1>1, <1>2, <2>1, Before
  <2> QED BY <1>2, <1>3, <1>4, <2>2, RecordsCover DEF ToolTypes
<1>6. ASSUME ~overlapped' PROVE Alone'
  BY <1>1, <1>2, <1>3, <1>6, AloneStays DEF ToolInv
<1> QED BY <1>3, <1>4, <1>5, <1>6, TidyStays DEF ToolInv

LEMMA IdleOwes == Tools!Idle.at = "idle" /\ Tidy(Tools!Idle) /\ Owed(Tools!Idle) = 0
BY DEF Tidy, Owed, Tools!Idle

(* A call that ends, with the record of its effect.                        *)
LEMMA Ends ==
  ASSUME ToolInv, NEW s \in Step, NEW st \in Stepping, steps[s].call.at # "idle", st.call = Tools!Idle,
         steps' = [steps EXCEPT ![s] = st], UNCHANGED <<version, ran>>,
         records' = Tools!recordEffect(s, steps[s].call.key),
         \A t \in Step \ {s} : t \in late' <=> t \in late, late' \subseteq Step,
         s \in late' /\ s \notin late => steps[s].call.key \in WriteKey /\ steps[s].call.at = "calling"
  PROVE  /\ Becomes(s, Tools!Idle) /\ (\A t \in Step : Tidy(steps[t].call))'
         /\ (\A t \in Step : ran[t] + Tools!Coming(t) <= 2 * records[t] + Owed(steps[t].call))'
         /\ records' \in [Step -> Nat]
<1> DEFINE c0 == steps[s].call
<1>1. Tidy(Tools!Idle) /\ Owed(Tools!Idle) = 0
  BY DEF Tidy, Owed, Tools!Idle
<1>2. Becomes(s, Tools!Idle)
  BY <1>1 DEF Becomes, ToolInv, ToolTypes
<1>3. records' = [records EXCEPT ![s] = IF c0.key \in WriteKey THEN @ + 1 ELSE @]
  BY DEF Tools!recordEffect
<1>4. records' \in [Step -> Nat] /\ ran' \in [Step -> Nat]
      /\ records'[s] = (IF c0.key \in WriteKey THEN records[s] + 1 ELSE records[s])
      /\ \A t \in Step \ {s} : records'[t] = records[t]
  <2> DEFINE n == IF c0.key \in WriteKey THEN records[s] + 1 ELSE records[s]
  <2>1. records \in [Step -> Nat] /\ ran \in [Step -> Nat]
    BY DEF ToolInv, ToolTypes
  <2>2. n \in Nat
    BY <2>1
  <2>3. records' = [records EXCEPT ![s] = n]
    BY <1>3
  <2> HIDE DEF n
  <2>4. records' \in [Step -> Nat] /\ records'[s] = n /\ \A t \in Step \ {s} : records'[t] = records[t]
    BY <2>1, <2>2, <2>3
  <2> QED BY <2>1, <2>4 DEF n
<1>5. \A t \in Step \ {s} : ran'[t] = ran[t] /\ records'[t] = records[t]
  BY <1>4
<1>6. records'[s] = IF c0.key \in WriteKey THEN records[s] + 1 ELSE records[s]
  BY <1>4
<1>7. Tools!Coming(s)' \in {0, 1} /\ (Tools!Coming(s)' = 1 /\ Tools!Coming(s) = 0 => c0.key \in WriteKey /\ c0.at = "calling")
  BY DEF Tools!Coming
<1>8. /\ c0.key \notin WriteKey => Owed(c0) = 0
      /\ c0.at = "calling" => Owed(c0) <= 1
  BY DEF Owed
<1>9. ran'[s] + Tools!Coming(s)' <= 2 * records'[s] + Owed(Tools!Idle)
  <2> DEFINE m == ran[s]
             n == records[s]
             o == Owed(c0)
             w == Tools!Coming(s)
             z == Tools!Coming(s)'
  <2>1. m \in Nat /\ n \in Nat /\ o \in 0..2 /\ w \in {0, 1} /\ m + w <= 2 * n + o
    BY Before, Zenon
  <2>2. ran'[s] = m /\ z \in {0, 1} /\ (z = 1 /\ w = 0 => c0.key \in WriteKey /\ c0.at = "calling")
        /\ (c0.at = "calling" => o <= 1) /\ (c0.key \notin WriteKey => o = 0)
    BY <1>7, <1>8, Zenon
  <2>3. CASE c0.key \in WriteKey
    <3>1. records'[s] = n + 1
      BY <1>6, <2>3, Zenon
    <3> HIDE DEF m, n, o, w, z
    <3>2. m + z <= 2 * (n + 1) + 0
      BY <2>1, <2>2
    <3> QED BY <1>1, <2>2, <3>1, <3>2, Zenon DEF z
  <2>4. CASE c0.key \notin WriteKey
    <3>1. records'[s] = n
      BY <1>6, <2>4, Zenon
    <3> HIDE DEF m, n, o, w, z
    <3>2. m + z <= 2 * n + 0
      BY <2>1, <2>2, <2>4
    <3> QED BY <1>1, <2>2, <3>1, <3>2, Zenon DEF z
  <2> QED BY <2>3, <2>4, Zenon
<1> QED BY <1>2, <1>4, <1>5, <1>9, TidyStays, RecordsCover, Zenon

(* When a call has ended alone, what it leaves in the cache is current.    *)
LEMMA AloneEnds ==
  ASSUME ToolInv, NEW s \in Step, Becomes(s, Tools!Idle), steps[s].call.at # "idle", Alone,
         UNCHANGED <<version, late>>,
         \A k \in ReadKey : cache'[k] \in {-1, version, cache[k]},
         cache' = cache \/ steps[s].call.key \notin WriteKey
  PROVE  Alone'
<1>1. steps'[s].call.at = "idle" /\ ~Writes(steps'[s].call)
  BY DEF Becomes, Tools!Idle, Writes
<1>2. CASE Writes(steps[s].call)
  <2>1. \A t \in Step : steps'[t].call.at = "idle"
    <3>1. \A t \in Step \ {s} : steps[t].call.at = "idle" /\ steps'[t].call = steps[t].call
      BY <1>2, Zenon DEF Alone, Becomes
    <3> QED BY <1>1, <3>1
  <2>2. \A k \in ReadKey : cache[k] = -1
    BY <1>2, Zenon DEF Alone
  <2>3. \A k \in ReadKey : cache'[k] \in {-1, version}
    BY <2>2
  <2> QED BY <2>1, <2>3 DEF Alone, Writes
<1>3. CASE ~Writes(steps[s].call)
  <2>1. \A t \in Step : steps'[t].call.at = "executed" => steps'[t].call.got = version
    BY <1>1, Zenon DEF Alone, Becomes
  <2>2. ASSUME NEW t \in Step, Writes(steps'[t].call) PROVE FALSE
    BY <1>1, <2>2 DEF Alone, Becomes
  <2>3. \A k \in ReadKey : cache'[k] \in {-1, version}
    <3>1. \A t \in Step : ~Writes(steps[t].call)
      BY <1>1, <1>3, <2>2 DEF Becomes
    <3> QED BY <3>1 DEF Alone
  <2> QED BY <2>1, <2>2, <2>3 DEF Alone
<1> QED BY <1>2, <1>3

LEMMA PutIs ==
  ASSUME NEW k, NEW v
  PROVE  \/ Tools!Put(k, v) = [x \in ReadKey |-> IF x = k THEN v ELSE -1]
         \/ Tools!Put(k, v) = [cache EXCEPT ![k] = v]
BY Zenon DEF Tools!Put

LEMMA SucceedKeeps ==
  ASSUME ToolInv, ReadKey \cap WriteKey = {}, NEW s \in Step, Tools!Succeed(s) PROVE ToolInv'
<1> DEFINE k == steps[s].call.key
           v == steps[s].call.got
           st == Tools!noteToolResult([steps[s] EXCEPT !.call = Tools!Idle], k, v, FALSE)
<1>0. steps[s].call.at = "executed" /\ steps[s] \in Stepping /\ v \in Int /\ k \in Tools!Key
  BY Before DEF Tools!Succeed, Calls, Tidy
<1>1. cache' = IF k \in ReadKey THEN Tools!Put(k, v) ELSE cache
  BY DEF Tools!Succeed
<1>2. steps' = [steps EXCEPT ![s] = st] /\ records' = Tools!recordEffect(s, k)
      /\ UNCHANGED <<version, late, ran, overlapped>>
  BY DEF Tools!Succeed, ToolInv, ToolTypes
<1>3. Tools!Idle \in Calls
  BY DEF Tools!Idle, Calls
<1>4. [steps[s] EXCEPT !.call = Tools!Idle] \in Stepping /\ [steps[s] EXCEPT !.call = Tools!Idle].call = Tools!Idle
  BY <1>0, <1>3 DEF Stepping
<1>5. st \in Stepping /\ st.call = Tools!Idle
  BY <1>0, <1>4, NoteKeeps, Zenon
<1> HIDE DEF st
<1>6. /\ Becomes(s, Tools!Idle) /\ (\A t \in Step : Tidy(steps[t].call))'
      /\ (\A t \in Step : ran[t] + Tools!Coming(t) <= 2 * records[t] + Owed(steps[t].call))'
      /\ records' \in [Step -> Nat]
  BY <1>0, <1>2, <1>5, Ends, Zenon DEF ToolInv, ToolTypes
<1>7. cache' \in [ReadKey -> Int] /\ \A x \in ReadKey : cache'[x] \in {-1, v, cache[x]}
  <2>1. cache \in [ReadKey -> Int]
    BY DEF ToolInv, ToolTypes
  <2>2. CASE cache' = [x \in ReadKey |-> IF x = k THEN v ELSE -1]
    BY <1>0, <2>2
  <2>3. CASE cache' = [cache EXCEPT ![k] = v]
    BY <1>0, <2>1, <2>3, Zenon
  <2>4. CASE cache' = cache
    BY <2>1, <2>4
  <2> QED BY <1>1, <2>2, <2>3, <2>4, PutIs, Zenon
<1>8. ToolTypes'
  BY <1>2, <1>6, <1>7 DEF ToolInv, ToolTypes, Becomes
<1>9. ASSUME ~overlapped' PROVE Alone'
  <2>1. Alone
    BY <1>2, <1>9, Zenon DEF ToolInv
  <2>2. v = version
    BY <1>0, <2>1, Zenon DEF Alone
  <2>3. cache' = cache \/ k \notin WriteKey
    BY <1>1
  <2> QED BY <1>0, <1>2, <1>6, <1>7, <2>1, <2>2, <2>3, AloneEnds, Zenon
<1> QED BY <1>6, <1>8, <1>9 DEF ToolInv

LEMMA FailKeeps ==
  ASSUME ToolInv, NEW s \in Step, Tools!FailAgain(s) \/ Tools!TimeOut(s) PROVE ToolInv'
<1> DEFINE c0 == steps[s].call
           st == [steps[s] EXCEPT !.call = Tools!Idle]
<1>0. steps[s].call.at # "idle" /\ steps[s] \in Stepping
  BY Before DEF Tools!FailAgain, Tools!TimeOut
<1>1. /\ steps' = [steps EXCEPT ![s] = st] /\ records' = Tools!recordEffect(s, c0.key)
      /\ UNCHANGED <<version, cache, ran>>
  BY DEF Tools!FailAgain, Tools!TimeOut, ToolInv, ToolTypes
<1>2. \/ late' = late /\ overlapped' = overlapped
      \/ late' = late \cup {s} /\ overlapped' = TRUE /\ c0.key \in WriteKey /\ c0.at = "calling"
  BY DEF Tools!FailAgain, Tools!TimeOut
<1>3. Tools!Idle \in Calls
  BY DEF Tools!Idle, Calls
<1>4. st \in Stepping /\ st.call = Tools!Idle
  BY <1>0, <1>3 DEF Stepping
<1> HIDE DEF st
<1>5. /\ Becomes(s, Tools!Idle) /\ (\A t \in Step : Tidy(steps[t].call))'
      /\ (\A t \in Step : ran[t] + Tools!Coming(t) <= 2 * records[t] + Owed(steps[t].call))'
      /\ records' \in [Step -> Nat]
  BY <1>0, <1>1, <1>2, <1>4, Ends, Zenon DEF ToolInv, ToolTypes
<1>6. ToolTypes'
  BY <1>1, <1>2, <1>5, Zenon DEF ToolInv, ToolTypes, Becomes
<1>7. ASSUME ~overlapped' PROVE Alone'
  <2>1. Alone /\ late' = late
    BY <1>2, <1>7 DEF ToolInv
  <2> QED BY <1>0, <1>1, <1>5, <2>1, AloneEnds, Zenon
<1> QED BY <1>5, <1>6, <1>7, Zenon DEF ToolInv

LEMMA LateWriteKeeps ==
  ASSUME ToolInv, NEW s \in Step, Tools!LateWrite(s) PROVE ToolInv'
<1>1. /\ s \in late /\ late' = late \ {s} /\ version' = version + 1
      /\ ran' = [ran EXCEPT ![s] = @ + 1] /\ UNCHANGED <<cache, steps, records, overlapped>>
  BY DEF Tools!LateWrite
<1>2. ToolTypes' /\ (\A t \in Step : Tidy(steps[t].call))'
  <2>1. version' \in Nat /\ ran' \in [Step -> Nat] /\ late' \subseteq Step
    BY <1>1 DEF ToolInv, ToolTypes
  <2>2. ToolTypes'
    BY <1>1, <2>1 DEF ToolInv, ToolTypes
  <2>3. \A t \in Step : Tidy(steps'[t].call)
    BY <1>1 DEF ToolInv
  <2> QED BY <2>2, <2>3 DEF Tidy
<1>3. ASSUME NEW t \in Step PROVE ran'[t] + Tools!Coming(t)' <= 2 * records'[t] + Owed(steps'[t].call)
  <2>1. ran'[t] + Tools!Coming(t)' = ran[t] + Tools!Coming(t)
    BY <1>1 DEF Tools!Coming, ToolInv, ToolTypes
  <2> QED BY <1>1, <2>1, Before
<1>4. overlapped
  BY <1>1, Zenon DEF ToolInv, Alone
<1> QED BY <1>1, <1>2, <1>3, <1>4, Zenon DEF ToolInv, Owed

LEMMA ToolInvariant ==
  ASSUME ReadKey \cap WriteKey = {}
  PROVE  Tools!Init /\ [][Tools!Next]_(Tools!toolVars) => []ToolInv
<1>1. ASSUME Tools!Init PROVE ToolInv
  <2>1. /\ steps \in [Step -> Stepping] /\ \A s \in Step : steps[s].call = Tools!Idle
    <3>1. Tools!Idle \in Calls
      BY DEF Tools!Idle, Calls
    <3> QED BY <1>1, <3>1 DEF Tools!Init, Stepping, Answers
  <2>2. \A s \in Step : /\ Tidy(steps[s].call) /\ Owed(steps[s].call) = 0
                        /\ steps[s].call.at = "idle"
    BY <2>1, IdleOwes, Zenon
  <2>3. ToolTypes
    <3>1. version = 0 /\ cache = [k \in ReadKey |-> -1] /\ late = {} /\ overlapped = FALSE
          /\ records = [s \in Step |-> 0] /\ ran = [s \in Step |-> 0]
      BY <1>1 DEF Tools!Init
    <3>2. version \in Nat /\ cache \in [ReadKey -> Int] /\ records \in [Step -> Nat] /\ ran \in [Step -> Nat]
      BY <3>1
    <3>3. late \subseteq Step /\ overlapped \in BOOLEAN
      BY <3>1, Zenon
    <3> QED BY <2>1, <3>2, <3>3 DEF ToolTypes
  <2>4. Alone
    BY <1>1, <2>2 DEF Tools!Init, Alone, Writes
  <2>5. \A s \in Step : ran[s] + Tools!Coming(s) <= 2 * records[s] + Owed(steps[s].call)
    BY <1>1, <2>2 DEF Tools!Init, Tools!Coming
  <2> QED BY <2>2, <2>3, <2>4, <2>5 DEF ToolInv
<1>2. ASSUME ToolInv, [Tools!Next]_(Tools!toolVars) PROVE ToolInv'
  <2>1. CASE Tools!Next
    BY <1>2, <2>1, NoCallKeeps, StartWriteKeeps, StartReadKeeps, ExecuteKeeps, ConnectionKeeps,
       SucceedKeeps, FailKeeps, LateWriteKeeps DEF Tools!Next
  <2>2. CASE UNCHANGED Tools!toolVars
    <3>1. steps' \in [Step -> Stepping]
      BY <1>2, <2>2 DEF ToolInv, ToolTypes, Tools!toolVars
    <3> QED BY <1>2, <2>2, <3>1, SameCalls DEF Tools!toolVars
  <2> QED BY <1>2, <2>1, <2>2
<1> QED BY <1>1, <1>2, PTL

(* Invalidating before the write runs is enough for calls that follow one  *)
(* another: as long as no write overlapped another call of the server and  *)
(* none was abandoned, a cached read is what the server would answer now,  *)
(* for any number of steps, keys and entries and whatever connections      *)
(* break.                                                                  *)
THEOREM ToolCoherentAlone ==
  ASSUME ReadKey \cap WriteKey = {}
  PROVE  Tools!Init /\ [][Tools!Next]_(Tools!toolVars) => []Tools!CoherentAlone
<1>1. ASSUME ToolInv PROVE Tools!CoherentAlone
  <2>1. ASSUME NEW s \in Step, Writes(steps[s].call) PROVE Tools!Writing(s)
    <3>1. steps[s].call # Tools!Idle
      BY <2>1 DEF Writes, Tools!Idle
    <3> QED BY <2>1, <3>1 DEF Tools!Writing, Tools!InFlight, Writes
  <2> QED BY <1>1, <2>1 DEF Tools!CoherentAlone, Tools!Cached, ToolInv, Alone
<1> QED BY <1>1, ToolInvariant, PTL

(* When a step has no call in flight, each write the server executed for   *)
(* it, be it repeated by the reconnect or late, is covered by a record of  *)
(* the effect tracker, and a record stands for at most two executions.     *)
THEOREM ToolEffectsAccounted ==
  ASSUME ReadKey \cap WriteKey = {}
  PROVE  Tools!Init /\ [][Tools!Next]_(Tools!toolVars) => []Tools!EffectsAccounted
<1>1. ASSUME ToolInv PROVE Tools!EffectsAccounted
  <2>1. ASSUME NEW s \in Step, ~Tools!InFlight(s)
        PROVE  ran[s] + Tools!Coming(s) <= 2 * records[s]
    <3>1. Owed(steps[s].call) = 0
      BY <2>1, IdleOwes, Zenon DEF Tools!InFlight
    <3> QED BY <1>1, <3>1, Before
  <2> QED BY <2>1, Zenon DEF Tools!EffectsAccounted
<1> QED BY <1>1, ToolInvariant, PTL
=============================================================================
