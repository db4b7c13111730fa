---------------------------- MODULE DagScheduler ----------------------------
(***************************************************************************)
(* One task graph of DirectedEngine under one executor: the run loop, the  *)
(* step goroutines it launches, the decisions both park on the graph and   *)
(* the callers that answer them.  An action is one critical section of     *)
(* s.Mu (or one step between two of them); the model call of a step is its *)
(* outcome.                                                                *)
(*                                                                         *)
(* Plan is the submitted DAG (schemas.StepInput) together with the         *)
(* outcomes the model calls of a step may have.  FollowUp names the step   *)
(* handleStepFailure injects in place of a failed one, NoStep where the    *)
(* spawn depth is used up; it is not among the Submitted steps.  Choice is *)
(* the set of answers the callers give, of which at most MaxRequeues put a *)
(* step back to work.                                                      *)
(***************************************************************************)
EXTENDS Naturals, FiniteSets

-----------------------------------------------------------------------------
(* The value part of schemas.TaskGraph: the statuses of steps and graphs and *)
(* the questions the engine asks of a graph.  A graph is given by st, the    *)
(* status of every step identifier ("absent" for one that names no step: an  *)
(* unknown dependency, or a follow-up not yet injected), and deps, the       *)
(* DependsOn set of every step.                                              *)

StepStatus == {"pending", "running", "ok", "partial", "failed", "blocked",
               "skipped", "deprecated", "suspended"}
GraphStatus == {"running", "blocked", "completed", "completed_with_skips",
                "failed", "cancelled", "suspended", "orphaned",
                "pending_review"}

\* Step.IsTerminal: a suspended step is not terminal, a blocked one is.
StepIsTerminal(status) == status \in
    {"ok", "partial", "failed", "skipped", "blocked", "deprecated"}

\* isTerminalStatus, "no further transitions expected".
isTerminalStatus(status) ==
    status \in {"completed", "completed_with_skips", "failed", "cancelled"}

\* The steps that are really in graph.Steps.
Present(st) == {s \in DOMAIN st : st[s] # "absent"}

\* Mutant: any terminal upstream will do.
SatisfiesTerminal(status) == StepIsTerminal(status) \/ status = "absent"

\* What satisfies a dependency; an identifier that names no step is ignored.
Satisfies(status) == status \in {"ok", "partial", "skipped", "absent"}

\* depsSatisfiedFor, the rule surgery shares with ReadySteps.
depsSatisfiedFor(st, deps, s) == \A d \in deps[s] : Satisfies(st[d])

\* TaskGraph.ReadySteps.
ReadySteps(st, deps) ==
    {s \in DOMAIN st : st[s] = "pending" /\ depsSatisfiedFor(st, deps, s)}

\* TaskGraph.IsTerminal.
IsTerminal(st) == \A s \in Present(st) : StepIsTerminal(st[s])

\* Mutant: any step whose dependencies have all ended.
InsufficientAny(st, deps) ==
    {s \in DOMAIN st :
        /\ st[s] = "pending"
        /\ deps[s] # {} /\ \A d \in deps[s] : StepIsTerminal(st[d])}

\* Mutant: only blocked upstreams are looked for.
InsufficientBlocked(st, deps) ==
    {s \in DOMAIN st :
        /\ st[s] = "pending"
        /\ \A d \in deps[s] : StepIsTerminal(st[d])
        /\ \E d \in deps[s] : st[d] = "blocked"}

\* detectUpstreamInsufficient: a pending step all of whose dependencies are
\* known and terminal, one of them without a result.  The code returns the
\* first one of a map iteration, that is, any of them.
Insufficient(st, deps) ==
    {s \in DOMAIN st :
        /\ st[s] = "pending"
        /\ \A d \in deps[s] : StepIsTerminal(st[d])
        /\ \E d \in deps[s] : st[d] \notin {"ok", "partial"}}

\* Mutant: a blocked step does not fail the graph.
FinalStatusFailedOnly(st, parked) ==
    IF parked THEN "blocked"
    ELSE IF \E s \in Present(st) : st[s] = "failed" THEN "failed"
    ELSE IF Present(st) # {} /\ \A s \in Present(st) : st[s] = "skipped"
         THEN "completed_with_skips"
    ELSE "completed"

\* The verdict finalize derives from the steps of a graph.
FinalStatus(st, parked) ==
    IF parked THEN "blocked"
    ELSE IF \E s \in Present(st) : st[s] \in {"failed", "blocked"} THEN "failed"
    ELSE IF Present(st) # {} /\ \A s \in Present(st) : st[s] = "skipped"
         THEN "completed_with_skips"
    ELSE "completed"

-----------------------------------------------------------------------------
(* The plan and the state of an engine *)

CONSTANTS Step, NoStep, Submitted, Plan, Choice,
          MaxConcurrent, MaxRetries, MaxAutoRefine, MaxSkips, MaxRequeues

\* What a model call, or the error handling around it, makes of a step.
Outcome == {"ok", "delegation", "approval", "failure", "capability", "uncertain",
            "context", "default", "retryable", "auth", "bad_request",
            "missing_dependency", "role_missing", "skill_missing",
            "max_turns", "escalation", "panic"}

StepInput == [DependsOn : SUBSET Step, FallbackFor : Step \cup {NoStep},
              FollowUp : Step \cup {NoStep}, RoleID : {"worker", "auditor"},
              OnFailure : {"ask", "skip", "abort"},
              ExitCriteria : {"none", "checked"}, MaxLoopRounds : Nat,
              Budget : {"ample", "overrun", "exhausted"},
              Outcomes : SUBSET Outcome]

\* The option list of every addDecision call, by the reason for the call.
Offer ==
    [upstream    |-> {"skip", "abort", "rewrite_dag"},
     exhausted   |-> {"skip", "abort"},
     defaulted   |-> {"skip", "abort"},
     delegation  |-> {"fulfill", "skip", "abort"},
     escalation  |-> {"skip", "abort"},
     max_turns   |-> {"resume_more_turns", "refine_and_retry",
                      "escalate_model", "retry", "skip", "abort"},
     environment |-> {"skip", "abort", "retry_with_skill"},
     approval    |-> {"approve", "reject"},
     role        |-> {"create_role", "retry", "skip", "abort"},
     skill       |-> {"create_skill", "retry", "skip", "abort"},
     failure     |-> {"skip", "abort", "retry", "refine_and_retry"},
     capability  |-> {"skip", "abort", "retry", "refine_and_retry",
                      "retry_with_skill"},
     context     |-> {"skip", "abort", "retry", "refine_and_retry",
                      "retry_with_context", "rewrite_dag"},
     exit        |-> {"skip", "abort", "retry"},
     fuse        |-> {"abort", "refine_and_retry"},
     overrun     |-> {"confirm_abort", "continue"},
     budget      |-> {"resume", "abort"}]
Cause == DOMAIN Offer

\* The answers of applyDecisionChoiceLocked and FulfillStep.  Those that carry
\* a caller-written graph (rewrite_dag, replan) are not given in this model.
Requeue == {"retry", "resume_more_turns", "refine_and_retry", "create_skill",
            "create_role", "retry_with_skill", "approve", "continue"}
Handled == Requeue \cup
    {"skip", "abort", "confirm_abort", "reject", "fulfill", "rewrite_dag"}

\* All the option names.  The last three are refused as they are offered: the
\* first two want an argument after a colon, "resume" has no case.
OptionName == Handled \cup {"escalate_model", "retry_with_context", "resume"}

ASSUME SchedulerAssumption ==
    /\ NoStep \notin Step
    /\ Submitted \subseteq Step
    /\ Plan \in [Step -> StepInput]
    /\ \A s \in Step : Plan[s].FollowUp # NoStep =>
          /\ Plan[s].FollowUp \notin Submitted
          /\ Plan[Plan[s].FollowUp].DependsOn = {}
    /\ Choice \subseteq Handled \ {"rewrite_dag"}
    /\ MaxConcurrent \in Nat \ {0}
    /\ {MaxRetries, MaxAutoRefine, MaxSkips, MaxRequeues} \subseteq Nat

VARIABLES
    steps,       \* status of every step, "absent" outside graph.Steps
    released,    \* deprecated steps, stripped from every DependsOn
    graph,       \* graph.Status
    pending,     \* graph.PendingDecisions
    raised,      \* how many decisions were ever parked, the next identifier
    skips,       \* graph.ConsecutiveSkips
    requeues,    \* how many answers put a step back to work
    ctx,         \* "live" or "cancelled", the context of the executor
    fulfilling,  \* steps between FulfillStep's unlock and handleStepSuccess
    pc,          \* where the run loop is
    ready,       \* its snapshot of ready steps, less the launched ones
    target,      \* the step detectUpstreamInsufficient returned
    verdict,     \* the status finalize is about to set
    gor,         \* where the goroutine of every step is
    cause,       \* the reason for the decision it is about to park
    retry,       \* RetryCount
    refine,      \* AutoRefineCount
    rounds,      \* CycleCounters of the loop a step closes
    alerted      \* whether the budget sentinel reached its last tier

graphVars == <<steps, released, graph>>
decVars   == <<pending, raised, skips, requeues>>
loopVars  == <<pc, ready, target, verdict>>
gorVars   == <<gor, cause>>
countVars == <<retry, refine, rounds, alerted>>
callVars  == <<ctx, fulfilling>>
vars == <<graphVars, decVars, loopVars, gorVars, countVars, callVars>>

Deps == [s \in Step |-> Plan[s].DependsOn \ released]
Alive == {s \in Step : gor[s] # "none"}

Decision == [id : Nat, step : Step, cause : Cause, options : SUBSET OptionName]

Init ==
    /\ steps = [s \in Step |-> IF s \in Submitted THEN "pending" ELSE "absent"]
    /\ released = {} /\ graph = "running"
    /\ pending = {} /\ raised = 0 /\ skips = 0 /\ requeues = 0
    /\ ctx = "live" /\ fulfilling = {}
    /\ pc = "top" /\ ready = {} /\ target = NoStep /\ verdict = "none"
    /\ gor = [s \in Step |-> "none"] /\ cause = [s \in Step |-> "none"]
    /\ retry = [s \in Step |-> 0] /\ refine = [s \in Step |-> 0]
    /\ rounds = [s \in Step |-> 0] /\ alerted = "no"

-----------------------------------------------------------------------------
(* Decisions *)

\* filterSkipOptions: after MaxSkips skips in a row, or when skipping cannot
\* help, "skip" is not offered and "abort" always is.
filterSkipOptions(c) ==
    IF skips >= MaxSkips \/ c \in {"context", "capability"}
    THEN (Offer[c] \ {"skip"}) \cup {"abort"}
    ELSE Offer[c]

\* addDecision: nothing is parked on a graph that has already ended.
addDecision(s, c) ==
    /\ IF isTerminalStatus(graph)
       THEN UNCHANGED <<pending, raised>>
       ELSE /\ pending' = pending \cup
                   {[id |-> raised, step |-> s, cause |-> c,
                     options |-> filterSkipOptions(c)]}
            /\ raised' = raised + 1
    /\ UNCHANGED <<skips, requeues>>

\* applyDecisionChoiceLocked, what an answer makes of the step it is about.
AnsweredStatus(c, status) ==
    CASE c = "skip"       -> "skipped"
      [] c = "reject"     -> "failed"
      [] c \in Requeue    -> "pending"
      [] OTHER            -> status

\* Mutant: any answer but an abort sets the graph running again.
SubmitDecisionReopens(d, c) ==
    /\ c \in Choice \cap d.options /\ c # "fulfill"
    /\ c \in Requeue => requeues < MaxRequeues
    /\ steps' = [steps EXCEPT ![d.step] = AnsweredStatus(c, @)]
    /\ graph' = IF c \in {"abort", "confirm_abort"} THEN "failed" ELSE "running"
    /\ ctx' = IF c = "confirm_abort" THEN "cancelled" ELSE ctx
    /\ retry' = retry
    /\ skips' = IF c = "skip" THEN skips + 1 ELSE 0
    /\ requeues' = IF c \in Requeue THEN requeues + 1 ELSE requeues
    /\ pending' = pending \ {d}
    /\ UNCHANGED <<released, raised, fulfilling, loopVars, gorVars, refine,
                   rounds, alerted>>

\* Mutant: the answered decision is not removed.
SubmitDecisionKeeps(d, c) ==
    /\ c \in Choice \cap d.options /\ c # "fulfill"
    /\ c \in Requeue => requeues < MaxRequeues
    /\ steps' = [steps EXCEPT ![d.step] = AnsweredStatus(c, @)]
    /\ requeues' = IF c \in Requeue THEN requeues + 1 ELSE requeues
    /\ UNCHANGED <<released, graph, pending, raised, skips, callVars, loopVars,
                   gorVars, countVars>>

\* SubmitDecisionWithPayload: the answer, the skip streak and the removal of
\* the decision are one critical section.  Answers the switch has no case for
\* are refused and leave the decision parked.
SubmitDecision(d, c) ==
    /\ c \in Choice \cap d.options /\ c # "fulfill"
    /\ c \in Requeue => requeues < MaxRequeues
    /\ steps' = [steps EXCEPT ![d.step] = AnsweredStatus(c, @)]
    /\ graph' = IF c \in {"abort", "confirm_abort"} THEN "failed" ELSE graph
    /\ ctx' = IF c = "confirm_abort" THEN "cancelled" ELSE ctx
    /\ retry' = IF c \in Requeue \ {"continue"}
                THEN [retry EXCEPT ![d.step] = 0] ELSE retry
    /\ skips' = IF c = "skip" THEN skips + 1 ELSE 0
    /\ requeues' = IF c \in Requeue THEN requeues + 1 ELSE requeues
    /\ pending' = pending \ {d}
    /\ UNCHANGED <<released, raised, fulfilling, loopVars, gorVars, refine,
                   rounds, alerted>>

\* FulfillStep: the step is done and its decision gone in one critical
\* section; handleStepSuccess follows after the lock is released and sets the
\* status a second time.
FulfillStep(d) ==
    /\ d.cause = "delegation" /\ "fulfill" \in Choice \cap d.options
    /\ steps' = [steps EXCEPT ![d.step] = "ok"]
    /\ pending' = pending \ {d}
    /\ fulfilling' = fulfilling \cup {d.step}
    /\ UNCHANGED <<released, graph, raised, skips, requeues, ctx, loopVars,
                   gorVars, countVars>>

\* Mutant: the second half writes back the status the first half read.
FulfillSuccessStale(s) ==
    /\ s \in fulfilling
    /\ fulfilling' = fulfilling \ {s}
    /\ steps' = [steps EXCEPT ![s] = "blocked"]
    /\ UNCHANGED <<released, graph, ctx, decVars, loopVars, gorVars, countVars>>

FulfillSuccess(s) ==
    /\ s \in fulfilling
    /\ fulfilling' = fulfilling \ {s}
    /\ steps' = [steps EXCEPT ![s] = "ok"]
    /\ UNCHANGED <<released, graph, ctx, decVars, loopVars, gorVars, countVars>>

-----------------------------------------------------------------------------
(* The run loop *)

\* The top of the loop: the context, then a snapshot under the read lock.
Snapshot ==
    /\ pc = "top" /\ ctx = "live"
    /\ ready' = ReadySteps(steps, Deps)
    /\ pc' = IF graph = "blocked" THEN "wait"
             ELSE IF ready' = {} THEN "empty" ELSE "check"
    /\ UNCHANGED <<target, verdict, graphVars, decVars, gorVars, countVars,
                   callVars>>

\* ctx.Done() at the top, while waiting, or while taking a semaphore slot or
\* waiting at the barrier; the last two give the goroutines a grace period and
\* return whether or not it was enough.
Cancelled ==
    /\ pc \in {"top", "wait", "launch", "barrier"} /\ ctx = "cancelled"
    /\ pc' = "exit"
    /\ UNCHANGED <<ready, target, verdict, graphVars, decVars, gorVars,
                   countVars, callVars>>

\* Mutant: parked decisions do not hold finalization back.
EmptyIgnoresDecisions ==
    /\ pc = "empty"
    /\ pc' = IF IsTerminal(steps) THEN "final"
             ELSE IF pending # {} THEN "wait" ELSE "detect"
    /\ UNCHANGED <<ready, target, verdict, graphVars, decVars, gorVars,
                   countVars, callVars>>

\* Mutant: with nothing ready and nothing parked the graph must be over.
EmptyIgnoresSteps ==
    /\ pc = "empty"
    /\ pc' = IF pending # {} THEN "wait" ELSE "final"
    /\ UNCHANGED <<ready, target, verdict, graphVars, decVars, gorVars,
                   countVars, callVars>>

\* Nothing is ready: finalize, wait for an answer, or look for the reason.
Empty ==
    /\ pc = "empty"
    /\ pc' = IF pending # {} THEN "wait"
             ELSE IF IsTerminal(steps) THEN "final" ELSE "detect"
    /\ UNCHANGED <<ready, target, verdict, graphVars, decVars, gorVars,
                   countVars, callVars>>

\* A notification or the safety timer.
Wake ==
    /\ pc = "wait"
    /\ pc' = "top"
    /\ UNCHANGED <<ready, target, verdict, graphVars, decVars, gorVars,
                   countVars, callVars>>

\* Mutant: the loop sleeps as it did before the decision node was added.
DetectSleeps ==
    /\ pc = "detect"
    /\ pc' = "wait"
    /\ UNCHANGED <<ready, target, verdict, graphVars, decVars, gorVars,
                   countVars, callVars>>

\* Mutant: the step found is not handed on.
DetectForgets ==
    /\ pc = "detect"
    /\ pc' = IF Insufficient(steps, Deps) = {} THEN "wait" ELSE "decide"
    /\ UNCHANGED <<ready, target, verdict, graphVars, decVars, gorVars,
                   countVars, callVars>>

\* detectUpstreamInsufficient ...
Detect ==
    /\ pc = "detect"
    /\ \/ /\ target' \in Insufficient(steps, Deps)
          /\ pc' = "decide"
       \/ /\ Insufficient(steps, Deps) = {}
          /\ pc' = "wait" /\ UNCHANGED target
    /\ UNCHANGED <<ready, verdict, graphVars, decVars, gorVars, countVars,
                   callVars>>

\* Mutant: the decision is lost.
DecideParksNothing ==
    /\ pc = "decide"
    /\ pc' = "top" /\ target' = NoStep
    /\ UNCHANGED <<ready, verdict, graphVars, decVars, gorVars, countVars,
                   callVars>>

\* ... and the decision the loop parks on the step it found.
Decide ==
    /\ pc = "decide"
    /\ addDecision(target, "upstream")
    /\ pc' = "top" /\ target' = NoStep
    /\ UNCHANGED <<ready, verdict, graphVars, gorVars, countVars, callVars>>

\* finalize computes the verdict under the lock and gives the lock back ...
Finalize ==
    /\ pc = "final"
    /\ IF graph \in {"completed", "completed_with_skips", "failed"}
       THEN pc' = "exit" /\ UNCHANGED verdict
       ELSE pc' = "publish" /\ verdict' = FinalStatus(steps, pending # {})
    /\ UNCHANGED <<ready, target, graphVars, decVars, gorVars, countVars,
                   callVars>>

\* ... before setGraphStatus writes it.
Publish ==
    /\ pc = "publish"
    /\ graph' = verdict
    /\ pc' = "exit" /\ verdict' = "none"
    /\ UNCHANGED <<steps, released, ready, target, decVars, gorVars, countVars,
                   callVars>>

\* The status is read again before anything is launched.
Check ==
    /\ pc = "check"
    /\ pc' = IF graph = "running" THEN "launch" ELSE "exit"
    /\ UNCHANGED <<ready, target, verdict, graphVars, decVars, gorVars,
                   countVars, callVars>>

\* One step of the snapshot gets a semaphore slot and a goroutine, whatever
\* its status is by now.
Launch(s) ==
    /\ pc = "launch" /\ s \in ready
    /\ Cardinality(Alive) < MaxConcurrent
    /\ ready' = ready \ {s}
    /\ gor' = [gor EXCEPT ![s] = "entry"]
    /\ pc' = IF ready' = {} THEN "barrier" ELSE "launch"
    /\ UNCHANGED <<target, verdict, cause, graphVars, decVars, countVars,
                   callVars>>

Barrier ==
    /\ pc = "barrier" /\ Alive = {}
    /\ pc' = "top"
    /\ UNCHANGED <<ready, target, verdict, graphVars, decVars, gorVars,
                   countVars, callVars>>

-----------------------------------------------------------------------------
(* A step goroutine *)

\* The step gets a status and its goroutine goes on, or ends ("none").
Move(s, status, at) ==
    /\ steps' = [steps EXCEPT ![s] = status]
    /\ gor' = [gor EXCEPT ![s] = at]
    /\ UNCHANGED <<released, graph, cause>>

\* The step gets a status and a decision is next.
Park(s, status, c) ==
    /\ steps' = [steps EXCEPT ![s] = status]
    /\ gor' = [gor EXCEPT ![s] = "deciding"]
    /\ cause' = [cause EXCEPT ![s] = c]
    /\ UNCHANGED <<released, graph>>

\* The token budget is used up before the step starts.
CheckBudget(s) ==
    /\ gor[s] = "entry" /\ Plan[s].Budget = "exhausted"
    /\ Park(s, "blocked", "budget")
    /\ UNCHANGED <<decVars, loopVars, countVars, callVars>>

\* The cost sentinel's last tier, once per task: RequestAutonomousAbort parks a
\* decision on a step that is about to run all the same.
RequestAutonomousAbort(s) ==
    /\ gor[s] = "entry" /\ Plan[s].Budget = "overrun" /\ alerted = "no"
    /\ addDecision(s, "overrun")
    /\ alerted' = "yes"
    /\ gor' = [gor EXCEPT ![s] = "begin"]
    /\ UNCHANGED <<cause, retry, refine, rounds, graphVars, loopVars, callVars>>

\* The step is marked running; a retry count left over from before may already
\* be past its limit, and then the loop body never runs.
MarkRunning(s) ==
    /\ \/ gor[s] = "begin"
       \/ /\ gor[s] = "entry" /\ Plan[s].Budget # "exhausted"
          /\ Plan[s].Budget = "overrun" => alerted = "yes"
    /\ Move(s, "running", IF retry[s] <= MaxRetries THEN "spawn" ELSE "exhausted")
    /\ UNCHANGED <<decVars, loopVars, countVars, callVars>>

\* Where a goroutine goes when handleOutput returns.
AfterOutput(s) == IF Plan[s].ExitCriteria = "checked" THEN "verify" ELSE "none"

Outcomes(s) == IF gor[s] = "spawn" THEN Plan[s].Outcomes ELSE {}

\* handleStepSuccess.
Succeed(s) ==
    /\ "ok" \in Outcomes(s)
    /\ Move(s, "ok", AfterOutput(s))
    /\ UNCHANGED <<decVars, loopVars, countVars, callVars>>

\* An error worth another attempt: rate limits, transport errors, an output
\* the sieve rejects.
Retry(s) ==
    /\ "retryable" \in Outcomes(s)
    /\ retry' = [retry EXCEPT ![s] = @ + 1]
    /\ gor' = [gor EXCEPT ![s] = IF retry'[s] <= MaxRetries THEN @
                                 ELSE "exhausted"]
    /\ UNCHANGED <<cause, refine, rounds, alerted, graphVars, decVars, loopVars,
                   callVars>>

\* The same with the context gone: the goroutine returns as it stands.
Abandon(s) ==
    /\ "retryable" \in Outcomes(s) /\ ctx = "cancelled"
    /\ retry' = [retry EXCEPT ![s] = @ + 1]
    /\ gor' = [gor EXCEPT ![s] = "none"]
    /\ UNCHANGED <<cause, refine, rounds, alerted, graphVars, decVars, loopVars,
                   callVars>>

\* recover() in the goroutine's deferred function: nothing else happens.
Panic(s) ==
    /\ "panic" \in Outcomes(s)
    /\ gor' = [gor EXCEPT ![s] = "none"]
    /\ UNCHANGED <<cause, graphVars, decVars, loopVars, countVars, callVars>>

\* "Exhausted retries", where an authentication error ends at once; and
\* handleDefaultFailure.  maybeBlock follows in a critical section of its own.
Fail(s) ==
    /\ \/ /\ gor[s] = "exhausted" \/ "auth" \in Outcomes(s)
          /\ cause' = [cause EXCEPT ![s] = "exhausted"]
       \/ /\ "default" \in Outcomes(s)
          /\ cause' = [cause EXCEPT ![s] = "defaulted"]
    /\ steps' = [steps EXCEPT ![s] = "failed"]
    /\ gor' = [gor EXCEPT ![s] = "failing"]
    /\ UNCHANGED <<released, graph, decVars, loopVars, countVars, callVars>>

Dependents(s) == {x \in Step : s \in Deps[x]}
Fallbacks(s) == {f \in Present(steps) : Plan[f].FallbackFor = s}

\* maybeBlock: a fallback is put to work whatever it did before; without one
\* the pending dependents are blocked.
maybeBlock(s) ==
    /\ gor[s] = "failing"
    /\ \/ \E f \in Fallbacks(s) :
             /\ steps' = [steps EXCEPT ![f] = "pending"]
             /\ gor' = [gor EXCEPT ![s] = "none"]
             /\ cause' = [cause EXCEPT ![s] = "none"]
       \/ /\ Fallbacks(s) = {}
          /\ steps' = [x \in Step |->
                IF x \in Dependents(s) /\ steps[x] = "pending" THEN "blocked"
                ELSE steps[x]]
          /\ gor' = [gor EXCEPT ![s] = "deciding"]
          /\ UNCHANGED cause
    /\ UNCHANGED <<released, graph, decVars, loopVars, countVars, callVars>>

\* The outcomes that block the step and ask.
Block(s) ==
    /\ \/ "delegation" \in Outcomes(s) /\ Park(s, "blocked", "delegation")
       \/ "escalation" \in Outcomes(s) /\ Park(s, "blocked", "escalation")
       \/ "max_turns" \in Outcomes(s) /\ Park(s, "blocked", "max_turns")
       \/ /\ "missing_dependency" \in Outcomes(s)
          /\ Park(s, "blocked", "environment")
    /\ UNCHANGED <<decVars, loopVars, countVars, callVars>>

\* emitMountApprovalDecision: the step stays running.
AskApproval(s) ==
    /\ "approval" \in Outcomes(s)
    /\ Park(s, steps[s], "approval")
    /\ UNCHANGED <<decVars, loopVars, countVars, callVars>>

\* A role or a skill is not found: setStepAndGraphStatus blocks the step and
\* sets the graph running, whatever it was.
ResourceMissing(s) ==
    /\ \/ /\ "role_missing" \in Outcomes(s)
          /\ cause' = [cause EXCEPT ![s] = "role"]
       \/ /\ "skill_missing" \in Outcomes(s)
          /\ cause' = [cause EXCEPT ![s] = "skill"]
    /\ steps' = [steps EXCEPT ![s] = "blocked"]
    /\ graph' = "running"
    /\ gor' = [gor EXCEPT ![s] = "deciding"]
    /\ UNCHANGED <<released, decVars, loopVars, countVars, callVars>>

\* "graceful degradation" of a bad request.
Degrade(s) ==
    /\ "bad_request" \in Outcomes(s)
    /\ Move(s, "skipped", "none")
    /\ UNCHANGED <<decVars, loopVars, countVars, callVars>>

\* handleStepFailure, first tryBacktrack: the dependencies are asked to
\* supplement their output and the step waits for them ...
LoopsBack(s) == "context" \in Outcomes(s) /\ Deps[s] # {}
                /\ Plan[s].MaxLoopRounds > 0

LoopSteps(s) == {s} \cup (Deps[s] \cap Present(steps))

Backtrack(s) ==
    /\ LoopsBack(s) /\ rounds[s] < Plan[s].MaxLoopRounds
    /\ rounds' = [rounds EXCEPT ![s] = @ + 1]
    /\ steps' = [x \in Step |-> IF x \in LoopSteps(s) THEN "pending"
                                ELSE steps[x]]
    /\ gor' = [gor EXCEPT ![s] = "none"]
    /\ UNCHANGED <<released, graph, cause, retry, refine, alerted, decVars,
                   loopVars, callVars>>

\* ... or, after MaxLoopRounds, the fuse suspends them all and asks.
Fuse(s) ==
    /\ LoopsBack(s) /\ rounds[s] = Plan[s].MaxLoopRounds
    /\ rounds' = [rounds EXCEPT ![s] = 0]
    /\ steps' = [x \in Step |-> IF x \in LoopSteps(s) THEN "suspended"
                                ELSE steps[x]]
    /\ gor' = [gor EXCEPT ![s] = "deciding"]
    /\ cause' = [cause EXCEPT ![s] = "fuse"]
    /\ UNCHANGED <<released, graph, retry, refine, alerted, decVars, loopVars,
                   callVars>>

\* Then the follow-up step: mutateGraphTopologyLocked deprecates the step,
\* skips the audits of it, and releaseDeprecatedDeps strips it from every
\* DependsOn and revives what was blocked for its sake alone.
Spawns(s) ==
    /\ {"context", "uncertain"} \cap Outcomes(s) # {}
    /\ Plan[s].FollowUp # NoStep /\ steps[Plan[s].FollowUp] = "absent"

\* Mutant: hasPendingDecisionFor is not asked.
RevivedDespiteDecision(s) ==
    {x \in Dependents(s) :
        /\ steps[x] = "blocked"
        /\ \A d \in Deps[x] \ {s} : Satisfies(steps[d])}

Revived(s) ==
    {x \in Dependents(s) :
        /\ steps[x] = "blocked"
        /\ \A d \in pending : d.step # x
        /\ \A d \in Deps[x] \ {s} : Satisfies(steps[d])}

SpawnFollowUp(s) ==
    /\ Spawns(s)
    /\ "uncertain" \in Outcomes(s) \/ ~LoopsBack(s)
    /\ released' = released \cup {s}
    /\ steps' = [x \in Step |->
          CASE x = s -> "deprecated"
            [] x = Plan[s].FollowUp -> "pending"
            [] /\ x \in Dependents(s) /\ steps[x] = "pending"
               /\ Plan[x].RoleID = "auditor" -> "skipped"
            [] x \in Revived(s) -> "pending"
            [] OTHER -> steps[x]]
    /\ rounds' = [x \in Step |-> IF x \in Dependents(s) THEN 0 ELSE rounds[x]]
    /\ gor' = [gor EXCEPT ![s] = "none"]
    /\ UNCHANGED <<graph, cause, retry, refine, alerted, decVars, loopVars,
                   callVars>>

\* The failure classes that reach the rest of handleStepFailure, and the cause
\* of the decision each of them leads to.
Unhandled(s) ==
    {o \in Outcomes(s) \cap {"failure", "capability", "uncertain", "context"} :
        /\ o = "context" => ~LoopsBack(s)
        /\ o \in {"context", "uncertain"} => ~Spawns(s)}
CauseOf(o) == IF o = "uncertain" THEN "failure" ELSE o

\* Then a fallback that has not run yet, which takes over ...
PendingFallbacks(s) == {f \in Fallbacks(s) : steps[f] = "pending"}

Substitute(s) ==
    /\ Unhandled(s) # {} /\ PendingFallbacks(s) # {}
    /\ Move(s, "failed", "none")
    /\ UNCHANGED <<decVars, loopVars, countVars, callVars>>

\* ... or else the step is blocked and the caller asked.
Ask(s) ==
    /\ Fallbacks(s) \ PendingFallbacks(s) # {} \/ Fallbacks(s) = {}
    /\ \E o \in Unhandled(s) : Park(s, "blocked", CauseOf(o))
    /\ UNCHANGED <<decVars, loopVars, countVars, callVars>>

\* addDecision called from the goroutine; a missing role or dependency first
\* asks applyStepFailurePolicy.
StepDecision(s) ==
    /\ gor[s] = "deciding"
    /\ IF cause[s] \in {"role", "environment"} /\ Plan[s].OnFailure # "ask"
       THEN /\ IF Plan[s].OnFailure = "skip"
               THEN steps' = [steps EXCEPT ![s] = "skipped"] /\ UNCHANGED graph
               ELSE graph' = "failed" /\ UNCHANGED steps
            /\ UNCHANGED decVars
       ELSE addDecision(s, cause[s]) /\ UNCHANGED <<steps, graph>>
    /\ gor' = [gor EXCEPT ![s] =
          IF cause[s] \in {"delegation", "approval", "failure", "capability",
                           "context", "fuse", "defaulted"}
          THEN AfterOutput(s) ELSE "none"]
    /\ cause' = [cause EXCEPT ![s] = "none"]
    /\ UNCHANGED <<released, loopVars, countVars, callVars>>

\* Phase 4, Auto-Audit: only a step that is still OK is verified ...
Verified(s) ==
    /\ gor[s] = "verify"
    /\ gor' = [gor EXCEPT ![s] = "none"]
    /\ UNCHANGED <<cause, graphVars, decVars, loopVars, countVars, callVars>>

\* ... and one that does not meet its exit criteria is refined in place ...
Refine(s) ==
    /\ gor[s] = "verify" /\ steps[s] = "ok" /\ refine[s] < MaxAutoRefine
    /\ refine' = [refine EXCEPT ![s] = @ + 1]
    /\ Move(s, "pending", IF ctx = "live" THEN "spawn" ELSE "none")
    /\ UNCHANGED <<retry, rounds, alerted, decVars, loopVars, callVars>>

\* ... as often as allowed.
RefineExhausted(s) ==
    /\ gor[s] = "verify" /\ steps[s] = "ok" /\ refine[s] = MaxAutoRefine
    /\ Park(s, "blocked", "exit")
    /\ UNCHANGED <<decVars, loopVars, countVars, callVars>>

-----------------------------------------------------------------------------
Run == Snapshot \/ Cancelled \/ Empty \/ Wake \/ Detect \/ Decide \/ Finalize
       \/ Publish \/ Check \/ (\E s \in Step : Launch(s)) \/ Barrier

executeStep(s) ==
    \/ CheckBudget(s) \/ RequestAutonomousAbort(s) \/ MarkRunning(s)
    \/ Succeed(s) \/ Retry(s) \/ Abandon(s) \/ Panic(s) \/ Fail(s)
    \/ maybeBlock(s) \/ Block(s) \/ AskApproval(s) \/ ResourceMissing(s)
    \/ Degrade(s) \/ Backtrack(s) \/ Fuse(s) \/ SpawnFollowUp(s)
    \/ Substitute(s) \/ Ask(s) \/ StepDecision(s) \/ Verified(s) \/ Refine(s)
    \/ RefineExhausted(s)

Answer == \E d \in pending : FulfillStep(d) \/ \E c \in Choice : SubmitDecision(d, c)

Next == Run \/ (\E s \in Step : executeStep(s) \/ FulfillSuccess(s)) \/ Answer

Spec == Init /\ [][Next]_vars

\* The loop's timers and the goroutines keep running, a call that started
\* returns, and whoever owns a decision answers it in the end.
Fairness ==
    /\ WF_vars(Run)
    /\ \A s \in Step : WF_vars(executeStep(s)) /\ WF_vars(FulfillSuccess(s))
    /\ WF_vars(Answer)

FairSpec == Spec /\ Fairness

-----------------------------------------------------------------------------
(* Properties *)

TypeOK ==
    /\ steps \in [Step -> StepStatus \cup {"absent"}]
    /\ released \subseteq Step /\ graph \in GraphStatus
    /\ pending \subseteq Decision /\ raised \in Nat
    /\ skips \in Nat /\ requeues \in Nat
    /\ ctx \in {"live", "cancelled"} /\ fulfilling \subseteq Step
    /\ pc \in {"top", "check", "launch", "barrier", "empty", "detect", "decide",
               "final", "publish", "wait", "exit"}
    /\ ready \subseteq Step /\ target \in Step \cup {NoStep}
    /\ (pc = "decide") => target \in Step
    /\ verdict \in GraphStatus \cup {"none"}
    /\ (pc = "publish") => verdict \in GraphStatus
    /\ gor \in [Step -> {"none", "entry", "begin", "spawn", "exhausted",
                         "failing", "deciding", "verify"}]
    /\ cause \in [Step -> Cause \cup {"none"}]
    /\ \A s \in Step : gor[s] \in {"failing", "deciding"} => cause[s] \in Cause
    /\ retry \in [Step -> Nat] /\ refine \in [Step -> Nat]
    /\ rounds \in [Step -> Nat] /\ alerted \in {"no", "yes"}

\* Work done on a step: it is in the hands of the run loop or its goroutine,
\* and the model call is not over.
Working(s) == \/ pc = "launch" /\ s \in ready
              \/ gor[s] \in {"entry", "begin", "spawn", "exhausted"}

\* ReadySteps "returns steps whose dependencies are all satisfied": they still
\* are when a step is launched and for as long as its model call lasts,
\* although the loop works through a snapshot.
StartedOnSatisfied ==
    \A s \in Step : Working(s) => \A x \in Deps[s] :
        steps[x] \in {"ok", "partial", "skipped", "absent"}

\* A step with an unanswered decision is not executed ("while its envelope is
\* still outstanding", hasPendingDecisionFor), and no step has two decisions.
EnvelopeHeld ==
    \A d \in pending : ~Working(d.step) /\ \A e \in pending :
                            e.step = d.step => e = d

\* The loop sleeps only when somebody can wake it: on a running graph at rest
\* there is a decision to answer, a step to launch, a step to ask about, or
\* nothing left to do.
NeverStuck ==
    pc = "wait" /\ graph = "running" /\ ctx = "live" =>
        \/ pending # {} \/ IsTerminal(steps)
        \/ ReadySteps(steps, Deps) # {} \/ Insufficient(steps, Deps) # {}

\* A graph reported completed has no unfinished, failed or blocked step, no
\* goroutine at work and no decision still waiting for its caller.
HonestCompletion ==
    graph \in {"completed", "completed_with_skips"} =>
        /\ pending = {} /\ Alive = {}
        /\ \A s \in Present(steps) : steps[s] \in
              {"ok", "partial", "skipped", "deprecated"}

\* detectUpstreamInsufficient's "spurious decisions": an upstream decision is
\* parked only where some dependency ended without success.
UpstreamJustified ==
    \A d \in pending : d.cause = "upstream" =>
        \E u \in Deps[d.step] : steps[u] \in {"failed", "blocked", "deprecated"}

\* finalize's verdict "blocked" is "currently unreachable": the loop never
\* finalizes over a parked decision.
NeverFinalizeParked == verdict # "blocked"

\* isTerminalStatus, "no further transitions expected": what an abort or
\* finalize sets stays.
TerminalStable == [][isTerminalStatus(graph) => graph' = graph]_vars

\* The result of a step is not thrown away or computed again, except when its
\* own goroutine finds that it misses the exit criteria.
ResultsKept ==
    [][\A s \in Step : steps[s] = "ok" /\ gor[s] # "verify" => steps'[s] = "ok"]_vars

\* "if it transitions to non-running mid-loop, the per-step ctx.Done() check
\* and executeStep's context propagation handle graceful bailout": no step is
\* launched on a graph that is not running any more.
NoLaunchAfterEnd ==
    [][\A s \in Step : gor[s] = "none" /\ gor'[s] = "entry" => graph = "running"]_vars

\* filterSkipOptions, "too many skips in a row, force a real choice":
\* max_consecutive_skips caps how many decisions in a row end in a skip.
SkipsBounded == skips <= MaxSkips

\* Every option a parked decision offers has a handler.
OptionsHandled == \A d \in pending : d.options \subseteq Handled

\* The loop sleeps "instead of busy-wait polling": it keeps reaching a place
\* where it waits for an event, a goroutine or nothing any more.
NoBusyWait == []<>(pc \in {"wait", "barrier", "exit"})

\* Once every decision is answered the executor comes to its end.
Terminates == <>(pc = "exit")

-----------------------------------------------------------------------------
(* The plans and answers for which the properties hold: nothing is skipped,  *)
(* no step stands in for another or is sent back by a dependent, and a step  *)
(* with exit criteria, pending while it is refined, asks nobody for help.    *)
(* The runs that leave this class show what each restriction is there for.   *)

Plain ==
    /\ Submitted = Step /\ "skip" \notin Choice
    /\ \A s \in Step :
        /\ Plan[s].FallbackFor = NoStep /\ Plan[s].FollowUp = NoStep
        /\ Plan[s].MaxLoopRounds = 0 /\ Plan[s].Budget # "overrun"
        /\ Plan[s].OnFailure # "skip" /\ "bad_request" \notin Plan[s].Outcomes
        /\ Plan[s].ExitCriteria = "checked" =>
              "delegation" \notin Plan[s].Outcomes /\ "approval" \notin Plan[s].Outcomes

\* The roles and skills of the plan exist: ResourceMissing never sets an ended
\* graph running.
Resourced == \A s \in Step :
    "role_missing" \notin Plan[s].Outcomes /\ "skill_missing" \notin Plan[s].Outcomes

\* No model call panics: the step of one that does stays running for good.
NoPanic == \A s \in Step : "panic" \notin Plan[s].Outcomes

\* DependsOn is acyclic: rank decreases from a step to its dependencies.
Acyclic == \E rank \in [Step -> Nat] :
    \A s \in Step : \A x \in Plan[s].DependsOn : rank[x] < rank[s]

\* A step nobody will ever touch again.
Dead(u) == /\ steps[u] \in {"failed", "blocked"} /\ gor[u] = "none"
           /\ \A d \in pending : d.step # u

\* A step detectUpstreamInsufficient found, its decision parked or about to be.
Stranded(t) == /\ steps[t] \in {"pending", "blocked"} /\ gor[t] = "none"
               /\ \E u \in Deps[t] : Dead(u)

Batch(s) == gor[s] # "none" \/ (pc \in {"check", "launch"} /\ s \in ready)

\* No step is skipped, deprecated or suspended and no DependsOn is cut.
OnlyPlainStatuses ==
    /\ released = {}
    /\ \A s \in Step : steps[s] \in {"pending", "running", "ok", "failed", "blocked"}

\* The barrier: goroutines live only between a launch and the barrier.
BarrierHolds == pc \notin {"launch", "barrier", "exit"} => \A s \in Step : gor[s] = "none"

\* The steps to launch are untouched since the snapshot.
SnapshotFresh ==
    pc \in {"check", "launch"} => \A s \in ready :
        /\ steps[s] = "pending" /\ gor[s] = "none"
        /\ \A d \in pending : d.step # s

\* A batch works on satisfied dependencies, none of which is in the batch.
BatchSound ==
    \A s \in Step : Batch(s) => \A x \in Deps[s] : steps[x] = "ok" /\ ~Batch(x)

\* What the status of a step is while its goroutine is alive.
GoroutineStatus ==
    \A s \in Step :
        /\ gor[s] = "begin" => FALSE
        /\ gor[s] \in {"spawn", "exhausted"} =>
              \/ steps[s] = "running"
              \/ steps[s] = "pending" /\ Plan[s].ExitCriteria = "checked"
        /\ gor[s] = "failing" => /\ steps[s] = "failed"
                                /\ cause[s] \in {"exhausted", "defaulted"}
        /\ gor[s] = "deciding" => steps[s] \in {"running", "failed", "blocked"}
        /\ gor[s] = "deciding" => cause[s] # "upstream"
        /\ gor[s] = "deciding" /\ cause[s] = "delegation" =>
              "delegation" \in Plan[s].Outcomes
        /\ gor[s] = "verify" => Plan[s].ExitCriteria = "checked"

\* What the status of a step is while a decision is parked on it.
DecisionStatus ==
    \A d \in pending :
        /\ gor[d.step] \in {"none", "verify"}
        /\ d.cause = "upstream" => Stranded(d.step)
        /\ d.cause # "upstream" => steps[d.step] \in {"running", "failed", "blocked"}
        /\ d.cause = "delegation" => "delegation" \in Plan[d.step].Outcomes

OneEach == \A d, e \in pending : d.step = e.step => d = e

\* Until handleStepSuccess has run, a fulfilled step is left alone.
FulfilledAtRest == \A s \in fulfilling : steps[s] = "ok" /\ gor[s] = "none"

\* The loop looks for a stranded step only when no decision is parked.
DetectAlone ==
    /\ pc \in {"detect", "decide"} => pending = {}
    /\ pc = "decide" => Stranded(target) /\ steps[target] = "pending"

PlainInv == /\ OnlyPlainStatuses /\ BarrierHolds /\ SnapshotFresh /\ BatchSound
            /\ GoroutineStatus /\ DecisionStatus /\ OneEach /\ FulfilledAtRest
            /\ DetectAlone

\* Behind HonestCompletion, for every plan: from the moment the loop decides to
\* finalize, nobody is left who could change the graph for the worse.
Good(st) == \A s \in Step : st[s] \in {"ok", "partial", "skipped", "deprecated", "absent"}
Done == graph \in {"completed", "completed_with_skips"}

CompletionInv ==
    /\ BarrierHolds
    /\ pc \in {"final", "publish"} => pending = {} /\ IsTerminal(steps)
    /\ pc = "publish" /\ verdict \in {"completed", "completed_with_skips"} => Good(steps)
    /\ verdict # "blocked"
    /\ Done => /\ pc = "exit" /\ pending = {} /\ Good(steps)
               /\ \A s \in Step : gor[s] = "none"

\* Behind TerminalStable: an ended graph is an aborted one, or one whose loop
\* is gone, and finalize publishes only on a graph that runs.
StableInv ==
    /\ graph \in {"running", "completed", "completed_with_skips", "failed"}
    /\ verdict \in {"none", "completed", "completed_with_skips", "failed"}
    /\ pc = "publish" => graph = "running" /\ verdict # "none"

\* Behind NeverStuck: a running step has its goroutine or a decision, unless
\* the graph was aborted.
RunningOwned ==
    ctx = "live" /\ graph # "failed" => \A s \in Step : steps[s] = "running" =>
        gor[s] \notin {"none", "verify"} \/ \E d \in pending : d.step = s

\* Behind ResultsKept: a goroutine that has not begun finds its step pending.
EntryPending == \A s \in Step : gor[s] = "entry" => steps[s] = "pending"
=============================================================================
