------------------------------ MODULE Submission ------------------------------
(***************************************************************************)
(* A submission on its way to a running graph (core/scheduler_submit.go):  *)
(* the gates, the expansion of a directory skill, the planner that may     *)
(* replace a lone step by a plan (core/scheduler_planner.go), the parser   *)
(* of plans (schemas/plan_dag.go), the two reads of the review setting,    *)
(* the graph and its executor, and the plan a host hands in for a plan     *)
(* delegation (core/scheduler_status.go, core/scheduler_surgery.go).       *)
(*                                                                         *)
(* A dependency is written by a model or a caller: <<id, TRUE>> is the id  *)
(* with blanks around it. A plan is its steps plus what its worst step     *)
(* says in role_id and allowed_tools and how deep its JSON is wrapped.     *)
(* What a step does, and how it fails, is the business of DagScheduler.    *)
(***************************************************************************)
EXTENDS Integers, Sequences, SequencesExt, FiniteSets

CONSTANTS
    PlanId,      \* identifiers a plan uses
    First, Rest, \* identifiers of the caller's first and second step
    Chain,       \* the steps of a directory skill, in order
    plannerParseAttempts,
    MaxFulfils,  \* bound: plans a host hands in
    MaxReloads   \* bound: reloads that change require_plan_review

VARIABLES
    cfg,       \* review, first (enable_planner_first), delegation, directory
    call,      \* the submission: where it is, its inputs, what it has read;
               \* gap is a ghost: the plan in use does not cover the request
    graph,     \* the task graph once it is registered
    executor,  \* whether an executor drives it
    fulfils, reloads,
    flipped,   \* ghost: the two reads of require_plan_review differed
    order,     \* ghost: <<before, after>> as the caller or the plan declared
    approved,  \* ghost: ApprovePlan succeeded
    refused    \* ghost: steps of plans that were answered with an error

submissionVars == <<cfg, call, graph, executor, fulfils, reloads, flipped, order,
                    approved, refused>>

Ref == PlanId \X BOOLEAN

Known(r) == ~r[2]

\* The steps of an answer, in its order, each with at most one dependency.
Deps == {{}} \cup {{r} : r \in Ref}

PlanSteps == {<<[id |-> a, deps |-> d]>> : a \in PlanId, d \in Deps}
             \cup {<<[id |-> a, deps |-> d], [id |-> b, deps |-> e]>> :
                      a \in PlanId, b \in PlanId, d \in Deps, e \in Deps}

Answer == [steps : PlanSteps, depth : {0}, role : {"worker"}, tools : {"act"}]
          \cup [steps : {<<[id |-> a, deps |-> {}]>> : a \in PlanId}, depth : {0, 5, 9},
                role : {"worker", "none", "stranger"},
                tools : {"none", "read", "act", "unknown", "blank"}]

NoGraph == [status |-> "none", steps |-> [s \in {} |-> {}], smart |-> FALSE,
            parked |-> FALSE]

Idle == [at |-> "idle", inputs |-> <<>>, attempt |-> 0, act |-> FALSE, review |-> FALSE,
         gap |-> FALSE]

Init ==
    /\ cfg \in [review : BOOLEAN, first : BOOLEAN, delegation : BOOLEAN, directory : BOOLEAN]
    /\ call = Idle /\ graph = NoGraph /\ executor = FALSE
    /\ fulfils = 0 /\ reloads = 0
    /\ flipped = FALSE /\ order = {} /\ approved = FALSE /\ refused = {}

-----------------------------------------------------------------------------
(* Parsing a plan *)

\* The wrappers {"result": ...} taken off before the parser is called.
unwrapPlanEnvelope(depth) == IF depth > 4 THEN depth - 4 ELSE 0

\* The parser looks for steps through that many further wrappers.
findPlanStepsIn(depth) == depth <= 4

StepIds(steps) == {steps[i].id : i \in DOMAIN steps}

DistinctIds(steps) == Cardinality(StepIds(steps)) = Len(steps)

\* A step without a role takes the only allowed one; no list allows every role.
RoleAccepted(role, allowed) ==
    IF role = "none" THEN Cardinality(allowed) = 1
    ELSE allowed = {} \/ role \in allowed

\* References are compared without the blanks around them.
DependenciesKnown(steps) ==
    \A i \in DOMAIN steps : \A r \in steps[i].deps :
        r[1] \in StepIds(steps) /\ r[1] # steps[i].id

NoCycleFound(steps) == FALSE

\* Cycles are looked for in the references as written.
findPlanCycle(steps) ==
    \E S \in (SUBSET StepIds(steps)) \ {{}} :
        \A s \in S : \E i \in DOMAIN steps :
            steps[i].id = s /\ \E r \in steps[i].deps : Known(r) /\ r[1] \in S

\* Tool names need a server, names of the catalog, and at least one name.
ToolsAccepted(tools, opt) ==
    \/ tools = "none"
    \/ opt.server /\ tools # "blank" /\ (opt.catalog => tools # "unknown")

ParsePlanDAG(answer, depth, opt) ==
    /\ findPlanStepsIn(depth)
    /\ Len(answer.steps) <= opt.max
    /\ DistinctIds(answer.steps)
    /\ RoleAccepted(answer.role, opt.roles)
    /\ DependenciesKnown(answer.steps)
    /\ ~findPlanCycle(answer.steps)
    /\ ToolsAccepted(answer.tools, opt)

\* The pool's roles without the engine's own, of which one is left here.
plannerAllowedRoles == {"worker"}

\* The tools of the servers bound to the caller's role are known.
plannerToolCatalog == TRUE

PlannerOptions == [roles |-> plannerAllowedRoles, catalog |-> plannerToolCatalog,
                   server |-> TRUE, max |-> 2]

\* A host's plan is parsed without roles, catalog or server.
HostOptions == [roles |-> {}, catalog |-> FALSE, server |-> FALSE, max |-> 12]

\* A request for an effect whose plan names tools, none of which has one.
planCoverageGap(answer) == call.act /\ answer.tools = "read"

-----------------------------------------------------------------------------
(* The gates *)

\* The scope, session, size, complexity and role checks: any may refuse.
Refused ==
    /\ call.at = "idle"
    /\ call' = [call EXCEPT !.at = "refused"]
    /\ UNCHANGED <<cfg, graph, executor, fulfils, reloads, flipped, order, approved, refused>>

Submitted == {<<[id |-> First, deps |-> {}]>>}
             \cup {<<[id |-> First, deps |-> {}], [id |-> Rest, deps |-> d]>> :
                      d \in SUBSET {<<First, FALSE>>}}

Chained == [i \in DOMAIN Chain |->
              [id |-> Chain[i], deps |-> IF i = 1 THEN {} ELSE {<<Chain[i - 1], FALSE>>}]]

\* The steps of the skill replace the first input; a later input without
\* dependencies waits for the last of them.
expandSkills(inputs) ==
    Chained \o [i \in 1 .. Len(inputs) - 1 |->
                  IF inputs[i + 1].deps = {}
                  THEN [inputs[i + 1] EXCEPT !.deps = {<<Last(Chain), FALSE>>}]
                  ELSE inputs[i + 1]]

\* What the steps were declared to wait for.
Waits(steps) == UNION {{<<r[1], steps[i].id>> : r \in steps[i].deps} : i \in DOMAIN steps}

Enter(inputs, act) ==
    /\ call.at = "idle"
    /\ LET final == IF cfg.directory THEN expandSkills(inputs) ELSE inputs IN
       /\ call' = [call EXCEPT !.inputs = final, !.act = act,
                      !.at = IF Len(final) = 1 /\ cfg.first /\ ~cfg.delegation
                             THEN "planning" ELSE "route"]
       /\ order' = IF cfg.directory /\ Len(inputs) > 1
                   THEN Waits(Chained) \cup {<<Last(Chain), Rest>>} ELSE Waits(final)
    /\ UNCHANGED <<cfg, graph, executor, fulfils, reloads, flipped, approved, refused>>

-----------------------------------------------------------------------------
(* The planner *)

\* The spawn fails or its time is up: the submission goes on as it was.
PlannerFails ==
    /\ call.at = "planning"
    /\ call' = [call EXCEPT !.at = "route"]
    /\ UNCHANGED <<cfg, graph, executor, fulfils, reloads, flipped, order, approved, refused>>

AnyParsed(answer) == ParsePlanDAG(answer, unwrapPlanEnvelope(answer.depth), PlannerOptions)

\* An answer is used when it parses and covers the request.
Usable(answer) ==
    /\ ParsePlanDAG(answer, unwrapPlanEnvelope(answer.depth), PlannerOptions)
    /\ ~planCoverageGap(answer)

PlannerAnswers(answer) ==
    /\ call.at = "planning"
    /\ \/ /\ Usable(answer)
          /\ call' = [call EXCEPT !.at = "route", !.inputs = answer.steps,
                         !.gap = planCoverageGap(answer)]
          /\ order' = Waits(answer.steps)
       \/ /\ ~Usable(answer)
          /\ call' = IF call.attempt + 1 < plannerParseAttempts
                     THEN [call EXCEPT !.attempt = @ + 1]
                     ELSE [call EXCEPT !.at = "route"]
          /\ UNCHANGED order
    /\ UNCHANGED <<cfg, graph, executor, fulfils, reloads, flipped, approved, refused>>

-----------------------------------------------------------------------------
(* The graph *)

ReadReview ==
    /\ call.at = "route"
    /\ call' = [call EXCEPT !.at = "build", !.review = cfg.review]
    /\ UNCHANGED <<cfg, graph, executor, fulfils, reloads, flipped, order, approved, refused>>

Fresh(steps) == [s \in StepIds(steps) |->
                    [deps |-> (CHOOSE x \in Range(steps) : x.id = s).deps, status |-> "pending"]]

Lone == Len(call.inputs) = 1 /\ ~call.review /\ call.inputs[1].deps = {}

\* One step alone is run by the submission's own goroutine, or parked on the
\* host as a request for a plan.
SmartRoute ==
    /\ call.at = "build" /\ Lone
    /\ call' = [call EXCEPT !.at = "done"]
    /\ graph' = [status |-> "running", smart |-> TRUE,
                 parked |-> cfg.delegation /\ cfg.first,
                 steps |-> IF cfg.delegation /\ cfg.first
                           THEN [Fresh(call.inputs) EXCEPT ![call.inputs[1].id].status = "blocked"]
                           ELSE Fresh(call.inputs)]
    /\ executor' = ~(cfg.delegation /\ cfg.first)
    /\ UNCHANGED <<cfg, fulfils, reloads, flipped, order, approved, refused>>

\* The setting is read a second time for the status of the graph.
BuildGraph ==
    /\ call.at = "build" /\ ~Lone
    /\ call' = [call EXCEPT !.at = "start"]
    /\ graph' = [status |-> IF cfg.review THEN "review" ELSE "running",
                 smart |-> FALSE, parked |-> FALSE, steps |-> Fresh(call.inputs)]
    /\ flipped' = (cfg.review # call.review)
    /\ UNCHANGED <<cfg, executor, fulfils, reloads, order, approved, refused>>

\* The executor is started on the first reading of the setting.
StartExecutor ==
    /\ call.at = "start"
    /\ call' = [call EXCEPT !.at = "done"]
    /\ executor' = (executor \/ ~call.review)
    /\ UNCHANGED <<cfg, graph, fulfils, reloads, flipped, order, approved, refused>>

ApprovePlan ==
    /\ graph.status = "review"
    /\ graph' = [graph EXCEPT !.status = "running"]
    /\ executor' = TRUE /\ approved' = TRUE
    /\ UNCHANGED <<cfg, call, fulfils, reloads, flipped, order, refused>>

Reload ==
    /\ reloads < MaxReloads
    /\ reloads' = reloads + 1
    /\ cfg' = [cfg EXCEPT !.review = ~@]
    /\ UNCHANGED <<call, graph, executor, fulfils, flipped, order, approved, refused>>

-----------------------------------------------------------------------------
(* A plan handed in by the host *)

Ids == DOMAIN graph.steps

\* The plan's steps are added one by one, up to the first whose id is taken.
Clash(steps) == {i \in DOMAIN steps : steps[i].id \in Ids}

Injected(steps) ==
    IF Clash(steps) = {} THEN steps
    ELSE SubSeq(steps, 1, (CHOOSE i \in Clash(steps) : \A j \in Clash(steps) : i <= j) - 1)

\* The delegated step is deprecated before the plan's steps are added, and
\* every reference to it is dropped.
Surgery(steps) ==
    [s \in Ids \cup StepIds(Injected(steps)) |->
        IF s = First THEN [graph.steps[s] EXCEPT !.status = "deprecated"]
        ELSE IF s \in Ids THEN graph.steps[s]
        ELSE [Fresh(Injected(steps))[s] EXCEPT !.deps = @ \ {<<First, FALSE>>}]]

FulfillPlan(answer) ==
    /\ graph.parked /\ fulfils < MaxFulfils
    /\ ParsePlanDAG(answer, answer.depth, HostOptions)
    /\ fulfils' = fulfils + 1
    /\ \/ /\ Clash(answer.steps) = {}
          /\ graph' = [graph EXCEPT !.steps = Surgery(answer.steps), !.parked = FALSE,
                          !.smart = FALSE, !.status = "running"]
          /\ executor' = TRUE
          /\ order' = order \cup Waits(answer.steps)
          /\ UNCHANGED refused
       \/ /\ Clash(answer.steps) # {}
          /\ graph' = [graph EXCEPT !.steps = Surgery(answer.steps)]
          /\ refused' = refused \cup (StepIds(answer.steps) \ Ids)
          /\ UNCHANGED <<executor, order>>
    /\ UNCHANGED <<cfg, call, reloads, flipped, approved>>

-----------------------------------------------------------------------------
(* Running the graph *)

Done == {"ok", "deprecated"}

\* A reference that names no step of the graph holds nothing up.
ReadyStep(s) ==
    /\ graph.steps[s].status = "pending"
    /\ \A r \in graph.steps[s].deps :
          Known(r) /\ r[1] \in Ids => graph.steps[r[1]].status = "ok"

LaunchesWhenever == executor

\* The run loop leaves when the graph is not running.
Launches == executor /\ graph.status = "running"

Launch(s) ==
    /\ Launches /\ ReadyStep(s)
    /\ graph' = [graph EXCEPT !.steps[s].status = "running"]
    /\ UNCHANGED <<cfg, call, executor, fulfils, reloads, flipped, order, approved, refused>>

Finish(s) ==
    /\ graph.steps[s].status = "running"
    /\ graph' = [graph EXCEPT !.steps[s].status = "ok"]
    /\ UNCHANGED <<cfg, call, executor, fulfils, reloads, flipped, order, approved, refused>>

\* An executor that finds the graph under review leaves without a step.
Leave ==
    /\ executor /\ graph.status = "review"
    /\ executor' = FALSE
    /\ UNCHANGED <<cfg, call, graph, fulfils, reloads, flipped, order, approved, refused>>

Next ==
    \/ Refused \/ PlannerFails \/ ReadReview \/ SmartRoute \/ BuildGraph \/ StartExecutor
    \/ ApprovePlan \/ Reload \/ Leave
    \/ \E inputs \in Submitted, act \in BOOLEAN : Enter(inputs, act)
    \/ \E answer \in Answer : PlannerAnswers(answer) \/ FulfillPlan(answer)
    \/ \E s \in Ids : Launch(s) \/ Finish(s)

Fairness ==
    /\ WF_submissionVars(StartExecutor)
    /\ WF_submissionVars(\E s \in Ids : Launch(s))
    /\ WF_submissionVars(\E s \in Ids : Finish(s))

Spec == Init /\ [][Next]_submissionVars /\ Fairness
-----------------------------------------------------------------------------
TypeOK ==
    /\ call.at \in {"idle", "refused", "planning", "route", "build", "start", "done"}
    /\ call.attempt \in 0 .. plannerParseAttempts - 1
    /\ graph.status \in {"none", "review", "running"}
    /\ executor \in BOOLEAN /\ fulfils \in 0 .. MaxFulfils
    /\ \A s \in Ids : graph.steps[s].status \in
          {"pending", "running", "ok", "blocked", "deprecated"}

\* A graph that was registered for review starts no step before it is
\* approved, although the submission may start an executor for it.
ReviewHeld ==
    call.at \in {"start", "done"} /\ graph.status = "review" =>
        ~approved /\ \A s \in Ids : graph.steps[s].status = "pending"

\* A graph published as running has an executor, unless the review setting
\* changed between the submission's two readings of it or it waits for a plan.
Driven ==
    call.at = "done" /\ graph.status = "running" => executor \/ graph.parked \/ flipped

\* A plan that lacks the effect the request asks for is never executed, even
\* when the planner's last attempt produced it.
CoversRequest == graph.status # "none" => ~call.gap

\* Every accepted plan can be run to its end: the steps of a driven graph all
\* finish.
Accepted == call.at = "done" /\ graph.status = "running" /\ executor
AllRan == \A s \in Ids : graph.steps[s].status \in Done
PlannedRuns == Accepted ~> AllRan

\* A step starts only after the steps its plan, or the caller, declared it to
\* depend on: "Any subsequent inputs are appended and depend on the last step
\* of the expansion." The code loses the order of an input that names the
\* step a directory skill replaced, and of a reference with blanks around it.
PlanOrderKept ==
    \A e \in order :
        e[1] \in Ids /\ e[2] \in Ids /\ graph.steps[e[2]].status \in {"running", "ok"}
            => graph.steps[e[1]].status = "ok"

\* The steps of a plan that was answered with an error never run.
RefusedNeverRuns ==
    \A s \in refused \cap Ids : graph.steps[s].status = "pending"
=============================================================================
