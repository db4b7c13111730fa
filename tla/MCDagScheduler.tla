--------------------------- MODULE MCDagScheduler ---------------------------
(***************************************************************************)
(* Plans for TLC.  W is a plain worker step without dependencies; every    *)
(* plan is W with the fields that matter to its run replaced.              *)
(***************************************************************************)
EXTENDS DagScheduler

CONSTANTS a, b, c, d

W == [DependsOn |-> {}, FallbackFor |-> NoStep, FollowUp |-> NoStep,
      RoleID |-> "worker", OnFailure |-> "ask", ExitCriteria |-> "none",
      MaxLoopRounds |-> 0, Budget |-> "ample", Outcomes |-> {"ok"}]

\* A diamond: b and c run in parallel once a is done, d after both.
Diamond ==
    [s \in Step |->
        CASE s = a -> [W EXCEPT !.Outcomes = {"ok", "delegation", "approval"}]
          [] s = b -> [W EXCEPT !.DependsOn = {a},
                          !.Outcomes = {"ok", "failure", "retryable", "delegation"}]
          [] s = c -> [W EXCEPT !.DependsOn = {a},
                          !.Outcomes = {"ok", "approval", "auth"}]
          [] s = d -> [W EXCEPT !.DependsOn = {b, c}, !.ExitCriteria = "checked",
                          !.Outcomes = {"ok", "default", "escalation"}]]
WithoutSkip == {"abort", "retry", "approve", "reject", "fulfill"}
WithSkip == (WithoutSkip \cup {"skip"}) \ {"abort"}

\* Two failing steps in parallel and one that needs both.
Join ==
    [s \in Step |->
        CASE s = a -> [W EXCEPT !.Outcomes = {"ok", "failure", "approval"}]
          [] s = b -> [W EXCEPT !.Outcomes = {"ok", "failure", "delegation"}]
          [] s = c -> [W EXCEPT !.DependsOn = {a, b}, !.Outcomes = {"ok", "failure"}]]
OnlySkip == {"skip"}
OnlyAbort == {"abort"}

\* The loop of the cycle breaker and the surgery of a follow-up step (d for a);
\* b hands its work out, c finds the output of a wanting.
Loop ==
    [s \in Step |->
        CASE s = a -> [W EXCEPT !.FollowUp = d, !.Outcomes = {"ok", "context"}]
          [] s = b -> [W EXCEPT !.DependsOn = {a}, !.Outcomes = {"ok", "delegation"}]
          [] s = c -> [W EXCEPT !.DependsOn = {a}, !.MaxLoopRounds = 1,
                          !.Outcomes = {"ok", "context"}]
          [] s = d -> W]
LoopChoice == {"abort", "refine_and_retry", "fulfill"}

\* Everything else a step can meet: budgets, exit criteria, policies, missing
\* roles and skills, a panic, a fallback.
Odds ==
    [s \in Step |->
        CASE s = a -> [W EXCEPT !.Budget = "overrun", !.ExitCriteria = "checked",
                          !.Outcomes = {"ok", "retryable", "role_missing", "max_turns"}]
          [] s = b -> [W EXCEPT !.DependsOn = {a}, !.OnFailure = "skip",
                          !.Outcomes = {"ok", "missing_dependency", "failure",
                                        "default", "panic", "bad_request"}]
          [] s = c -> [W EXCEPT !.FallbackFor = b, !.OnFailure = "abort",
                          !.Outcomes = {"ok", "role_missing", "skill_missing",
                                        "capability", "uncertain"}]
          [] s = d -> [W EXCEPT !.DependsOn = {b}, !.Budget = "exhausted"]]
OddChoice == Handled \ {"rewrite_dag"}

\* A step and its fallback, which is pending, hence ready, from the start.
Backup ==
    [s \in Step |->
        CASE s = a -> [W EXCEPT !.Outcomes = {"default"}]
          [] s = b -> [W EXCEPT !.FallbackFor = a, !.Outcomes = {"delegation"}]]

\* Two independent steps, one blocked on a decision, one without its role.
Roleless ==
    [s \in Step |->
        CASE s = a -> [W EXCEPT !.Outcomes = {"failure"}]
          [] s = b -> [W EXCEPT !.Outcomes = {"role_missing"}]]

\* A step that asks its dependency for more, and a sibling.
Wanting ==
    [s \in Step |->
        CASE s = a -> W
          [] s = b -> [W EXCEPT !.DependsOn = {a}]
          [] s = c -> [W EXCEPT !.DependsOn = {a}, !.MaxLoopRounds = 1,
                          !.Outcomes = {"context"}]]
OnlyRefine == {"refine_and_retry"}

\* The budget alarm on a single step.
Alarm == [s \in Step |-> [W EXCEPT !.Budget = "overrun"]]
OnlyContinue == {"continue"}
Broke == [s \in Step |-> [W EXCEPT !.Budget = "exhausted"]]
=============================================================================
