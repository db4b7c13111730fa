--------------------------- MODULE DagTypeProofs ----------------------------
(***************************************************************************)
(* Type correctness of the DAG scheduler, and what holds of its completion *)
(* for every plan: a graph published as completed has no failed, blocked or *)
(* unfinished step, and the loop finalizes only with no decision pending.  *)
(* Last, the goroutine of a step keeps the invariant of plain plans: it    *)
(* changes the status of its own step, or blocks dependents outside the    *)
(* batch.                                                                  *)
(***************************************************************************)
EXTENDS DagScheduler, TLAPS

USE SchedulerAssumption

\* The option lists are sets of strings, and these are the reasons for asking.
LEMMA OfferType ==
    /\ \A x \in Cause : Offer[x] \in SUBSET OptionName
    /\ {"upstream", "exhausted", "defaulted", "delegation", "escalation",
        "max_turns", "environment", "approval", "role", "skill", "failure",
        "capability", "context", "exit", "fuse", "overrun", "budget"} = Cause
<1>1. {"upstream", "exhausted", "defaulted", "delegation", "escalation",
       "max_turns", "environment", "approval", "role", "skill", "failure",
       "capability", "context", "exit", "fuse", "overrun", "budget"} = Cause
  BY DEF Cause, Offer
<1>2. ASSUME NEW x \in Cause PROVE Offer[x] \in SUBSET OptionName
  BY <1>1 DEF Offer, OptionName, Handled, Requeue
<1>. QED
  BY <1>1, <1>2

\* What addDecision parks is a decision.
LEMMA AddDecisionType ==
    ASSUME TypeOK, NEW s \in Step, NEW x \in Cause, addDecision(s, x)
    PROVE  /\ pending' \subseteq Decision /\ raised' \in Nat
           /\ skips' \in Nat /\ requeues' \in Nat
<1>1. filterSkipOptions(x) \in SUBSET OptionName
  <2>1. Offer[x] \in SUBSET OptionName /\ "abort" \in OptionName
    BY OfferType DEF OptionName, Handled
  <2> DEFINE Y == Offer[x]
  <2> HIDE DEF Y
  <2>2. (Y \in SUBSET OptionName) => (Y \ {"skip"}) \cup {"abort"} \in SUBSET OptionName
    BY <2>1
  <2>. QED
    BY <2>1, <2>2 DEF filterSkipOptions, Y
<1>2. [id |-> raised, step |-> s, cause |-> x, options |-> filterSkipOptions(x)]
         \in Decision
  BY <1>1 DEF Decision, TypeOK
<1> HIDE DEF Decision
<1>. QED
  BY <1>2 DEF addDecision, TypeOK

\* The initial state is well typed.
LEMMA InitType == Init => TypeOK
BY DEF Init, TypeOK, StepStatus, GraphStatus

\* FinalStatus is a graph status.
LEMMA FinalStatusType == \A st, p : FinalStatus(st, p) \in GraphStatus
BY DEF FinalStatus, GraphStatus

\* Every step of the run loop keeps the types.
LEMMA RunType == TypeOK /\ Run => TypeOK'
<1> SUFFICES ASSUME TypeOK, Run PROVE TypeOK'
  OBVIOUS
<1> USE DEF graphVars, decVars, loopVars, gorVars, countVars, callVars
<1>1. CASE Snapshot
  BY <1>1 DEF Snapshot, TypeOK, ReadySteps
<1>2. CASE Cancelled
  BY <1>2 DEF Cancelled, TypeOK
<1>3. CASE Empty
  BY <1>3 DEF Empty, TypeOK
<1>4. CASE Wake
  BY <1>4 DEF Wake, TypeOK
<1>5. CASE Detect
  BY <1>5 DEF Detect, TypeOK, Insufficient
<1>6. CASE Decide
  BY <1>6, AddDecisionType, OfferType DEF Decide, TypeOK
<1>7. CASE Finalize
  BY <1>7, FinalStatusType DEF Finalize, TypeOK
<1>8. CASE Publish
  BY <1>8 DEF Publish, TypeOK
<1>9. CASE Check
  BY <1>9 DEF Check, TypeOK
<1>10. CASE Barrier
  BY <1>10 DEF Barrier, TypeOK
<1>11. CASE \E s \in Step : Launch(s)
  BY <1>11 DEF Launch, TypeOK
<1>. QED
  BY <1>1, <1>2, <1>3, <1>4, <1>5, <1>6, <1>7, <1>8, <1>9, <1>10, <1>11 DEF Run

\* Every step of a step goroutine keeps the types.
LEMMA StepType ==
    ASSUME TypeOK, NEW s \in Step, executeStep(s)
    PROVE  TypeOK'
<1> USE DEF graphVars, decVars, loopVars, gorVars, countVars, callVars
<1>1. CASE CheckBudget(s)
  BY <1>1, OfferType DEF CheckBudget, TypeOK, StepStatus, GraphStatus, Move, Park
<1>2. CASE RequestAutonomousAbort(s)
  BY <1>2, AddDecisionType, OfferType DEF RequestAutonomousAbort, TypeOK, StepStatus, GraphStatus, Move, Park
<1>3. CASE MarkRunning(s)
  BY <1>3, OfferType DEF MarkRunning, TypeOK, StepStatus, GraphStatus, Move, Park
<1>4. CASE Succeed(s)
  BY <1>4, OfferType DEF Succeed, TypeOK, StepStatus, GraphStatus, Move, Park, AfterOutput
<1>5. CASE Retry(s)
  BY <1>5, OfferType DEF Retry, TypeOK, StepStatus, GraphStatus, Move, Park
<1>6. CASE Abandon(s)
  BY <1>6, OfferType DEF Abandon, TypeOK, StepStatus, GraphStatus, Move, Park
<1>7. CASE Panic(s)
  BY <1>7, OfferType DEF Panic, TypeOK, StepStatus, GraphStatus, Move, Park
<1>8. CASE Fail(s)
  BY <1>8, OfferType DEF Fail, TypeOK, StepStatus, GraphStatus, Move, Park
<1>9. CASE maybeBlock(s)
  BY <1>9, OfferType DEF maybeBlock, TypeOK, StepStatus, GraphStatus, Move, Park, Dependents, Fallbacks, Present
<1>10. CASE Block(s)
  BY <1>10, OfferType DEF Block, TypeOK, StepStatus, GraphStatus, Move, Park
<1>11. CASE AskApproval(s)
  BY <1>11, OfferType DEF AskApproval, TypeOK, StepStatus, GraphStatus, Move, Park
<1>12. CASE ResourceMissing(s)
  BY <1>12, OfferType DEF ResourceMissing, TypeOK, StepStatus, GraphStatus, Move, Park
<1>13. CASE Degrade(s)
  BY <1>13, OfferType DEF Degrade, TypeOK, StepStatus, GraphStatus, Move, Park
<1>14. CASE Backtrack(s)
  BY <1>14, OfferType DEF Backtrack, TypeOK, StepStatus, GraphStatus, Move, Park
<1>15. CASE Fuse(s)
  BY <1>15, OfferType DEF Fuse, TypeOK, StepStatus, GraphStatus, Move, Park
<1>16. CASE SpawnFollowUp(s)
  BY <1>16, OfferType DEF SpawnFollowUp, TypeOK, StepStatus, GraphStatus, Move, Park, Dependents, Revived
<1>17. CASE Substitute(s)
  BY <1>17, OfferType DEF Substitute, TypeOK, StepStatus, GraphStatus, Move, Park
<1>18. CASE Ask(s)
  BY <1>18, OfferType DEF Ask, TypeOK, StepStatus, GraphStatus, Move, Park, CauseOf, Unhandled
<1>19. CASE StepDecision(s)
  BY <1>19, AddDecisionType, OfferType DEF StepDecision, TypeOK, StepStatus, GraphStatus, Move, Park, AfterOutput
<1>20. CASE Verified(s)
  BY <1>20, OfferType DEF Verified, TypeOK, StepStatus, GraphStatus, Move, Park
<1>21. CASE Refine(s)
  BY <1>21, OfferType DEF Refine, TypeOK, StepStatus, GraphStatus, Move, Park
<1>22. CASE RefineExhausted(s)
  BY <1>22, OfferType DEF RefineExhausted, TypeOK, StepStatus, GraphStatus, Move, Park
<1>. QED
  BY <1>1, <1>2, <1>3, <1>4, <1>5, <1>6, <1>7, <1>8, <1>9, <1>10, <1>11, <1>12, <1>13, <1>14, <1>15, <1>16, <1>17, <1>18, <1>19, <1>20, <1>21, <1>22 DEF executeStep

\* Answers keep the types.
LEMMA AnswerType == TypeOK /\ Answer => TypeOK'
<1> SUFFICES ASSUME TypeOK, Answer PROVE TypeOK'
  OBVIOUS
<1> USE DEF graphVars, decVars, loopVars, gorVars, countVars, callVars
<1>1. PICK d \in pending : FulfillStep(d) \/ \E x \in Choice : SubmitDecision(d, x)
  BY DEF Answer
<1>2. d \in Decision /\ d.step \in Step
  BY DEF TypeOK, Decision
<1>3. CASE FulfillStep(d)
  BY <1>2, <1>3 DEF FulfillStep, TypeOK, StepStatus
<1>4. ASSUME NEW x \in Choice, SubmitDecision(d, x) PROVE TypeOK'
  <2>1. \A z \in StepStatus \cup {"absent"} :
           AnsweredStatus(x, z) \in StepStatus \cup {"absent"}
    BY DEF AnsweredStatus, StepStatus
  <2>. QED
    BY <1>2, <1>4, <2>1 DEF SubmitDecision, TypeOK, GraphStatus
<1>. QED
  BY <1>1, <1>3, <1>4

\* Type correctness: whatever the plan, the answers and the limits are.
THEOREM DagTypeOK == Spec => []TypeOK
<1>1. Init => TypeOK
  BY InitType
<1>2. TypeOK /\ [Next]_vars => TypeOK'
  <2> SUFFICES ASSUME TypeOK, [Next]_vars PROVE TypeOK'
    OBVIOUS
  <2>1. CASE Run
    BY <2>1, RunType
  <2>2. ASSUME NEW s \in Step, executeStep(s) PROVE TypeOK'
    BY <2>2, StepType
  <2>3. ASSUME NEW s \in Step, FulfillSuccess(s) PROVE TypeOK'
    BY <2>3 DEF FulfillSuccess, TypeOK, StepStatus, decVars, loopVars, gorVars,
                countVars
  <2>4. CASE Answer
    BY <2>4, AnswerType
  <2>5. CASE UNCHANGED vars
    BY <2>5 DEF vars, graphVars, decVars, loopVars, gorVars, countVars, callVars,
                TypeOK
  <2>. QED
    BY <2>1, <2>2, <2>3, <2>4, <2>5 DEF Next
<1>. QED
  BY <1>1, <1>2, PTL DEF Spec

-----------------------------------------------------------------------------
(* Completion, for every plan *)

\* What a goroutine can do to the loop and to the status of the graph.
LEMMA StepFrame ==
    ASSUME TypeOK, NEW s \in Step, executeStep(s)
    PROVE  /\ gor[s] # "none" /\ pc' = pc /\ verdict' = verdict
           /\ graph' \in {graph, "running", "failed"}
           /\ Resourced => graph' \in {graph, "failed"}
           /\ \A x \in Step : gor[x] = "none" => gor'[x] = "none"
<1> USE DEF graphVars, decVars, loopVars, gorVars, countVars, callVars, Outcomes,
            Move, Park, Resourced
<1>1. CASE CheckBudget(s)
  BY <1>1 DEF CheckBudget, TypeOK
<1>2. CASE RequestAutonomousAbort(s)
  BY <1>2 DEF RequestAutonomousAbort, TypeOK
<1>3. CASE MarkRunning(s)
  BY <1>3 DEF MarkRunning, TypeOK
<1>4. CASE Succeed(s)
  BY <1>4 DEF Succeed, TypeOK
<1>5. CASE Retry(s)
  BY <1>5 DEF Retry, TypeOK
<1>6. CASE Abandon(s)
  BY <1>6 DEF Abandon, TypeOK
<1>7. CASE Panic(s)
  BY <1>7 DEF Panic, TypeOK
<1>8. CASE Fail(s)
  BY <1>8 DEF Fail, TypeOK
<1>9. CASE maybeBlock(s)
  BY <1>9 DEF maybeBlock, TypeOK
<1>10. CASE Block(s)
  BY <1>10 DEF Block, TypeOK
<1>11. CASE AskApproval(s)
  BY <1>11 DEF AskApproval, TypeOK
<1>12. CASE ResourceMissing(s)
  BY <1>12 DEF ResourceMissing, TypeOK
<1>13. CASE Degrade(s)
  BY <1>13 DEF Degrade, TypeOK
<1>14. CASE Backtrack(s)
  BY <1>14 DEF Backtrack, TypeOK, LoopsBack
<1>15. CASE Fuse(s)
  BY <1>15 DEF Fuse, TypeOK, LoopsBack
<1>16. CASE SpawnFollowUp(s)
  BY <1>16 DEF SpawnFollowUp, TypeOK, Spawns
<1>17. CASE Substitute(s)
  BY <1>17 DEF Substitute, TypeOK, Unhandled
<1>18. CASE Ask(s)
  BY <1>18 DEF Ask, TypeOK, Unhandled
<1>19. CASE StepDecision(s)
  BY <1>19 DEF StepDecision, TypeOK
<1>20. CASE Verified(s)
  BY <1>20 DEF Verified, TypeOK
<1>21. CASE Refine(s)
  BY <1>21 DEF Refine, TypeOK
<1>22. CASE RefineExhausted(s)
  BY <1>22 DEF RefineExhausted, TypeOK
<1>. QED
  BY <1>1, <1>2, <1>3, <1>4, <1>5, <1>6, <1>7, <1>8, <1>9, <1>10, <1>11, <1>12, <1>13, <1>14, <1>15, <1>16, <1>17, <1>18, <1>19, <1>20, <1>21, <1>22 DEF executeStep

\* A graph reported completed is complete, and finalize never sees a parked
\* decision, whatever the plan and the answers are.
THEOREM CompletionInvariant == Spec => []CompletionInv
<1> USE DEF graphVars, decVars, loopVars, gorVars, countVars, callVars
<1>1. Init => CompletionInv
  BY DEF Init, CompletionInv, BarrierHolds, Done
<1>2. TypeOK /\ CompletionInv /\ [Next]_vars => CompletionInv'
  <2> SUFFICES ASSUME TypeOK, CompletionInv, [Next]_vars PROVE CompletionInv'
    OBVIOUS
  <2>1. ASSUME NEW s \in Step, executeStep(s) PROVE CompletionInv'
    <3>1. pc \in {"launch", "barrier", "exit"} /\ ~Done
      BY <2>1, StepFrame DEF CompletionInv, BarrierHolds
    <3>2. pc' \in {"launch", "barrier", "exit"} /\ ~Done' /\ verdict' = verdict
      BY <2>1, <3>1, StepFrame DEF Done
    <3>. QED
      BY <3>2 DEF CompletionInv, BarrierHolds
  <2>2. ASSUME NEW s \in Step, FulfillSuccess(s) PROVE CompletionInv'
    <3>1. steps'[s] = "ok" /\ \A x \in Step : x # s => steps'[x] = steps[x]
      BY <2>2 DEF FulfillSuccess, TypeOK
    <3>2. UNCHANGED <<graph, pending, pc, verdict, gor>>
      BY <2>2 DEF FulfillSuccess
    <3>3. (IsTerminal(steps) => IsTerminal(steps')) /\ (Good(steps) => Good(steps'))
      BY <3>1, <2>2 DEF IsTerminal, Present, Good, StepIsTerminal, TypeOK, FulfillSuccess
    <3>. QED
      BY <3>2, <3>3 DEF CompletionInv, BarrierHolds, Done
  <2>3. CASE Answer
    <3>1. /\ pending # {} /\ pc' = pc /\ verdict' = verdict /\ gor' = gor
          /\ graph' \in {graph, "failed"}
      BY <2>3 DEF Answer, FulfillStep, SubmitDecision
    <3>. QED
      BY <3>1 DEF CompletionInv, BarrierHolds, Done
  <2>4. CASE Run
    <3>1. CASE Snapshot
      BY <3>1 DEF Snapshot, CompletionInv, BarrierHolds, Done
    <3>2. CASE Cancelled
      BY <3>2 DEF Cancelled, CompletionInv, BarrierHolds, Done
    <3>3. CASE Empty
      BY <3>3 DEF Empty, CompletionInv, BarrierHolds, Done
    <3>4. CASE Wake
      BY <3>4 DEF Wake, CompletionInv, BarrierHolds, Done
    <3>5. CASE Detect
      BY <3>5 DEF Detect, CompletionInv, BarrierHolds, Done
    <3>6. CASE Decide
      BY <3>6 DEF Decide, CompletionInv, BarrierHolds, Done
    <3>7. CASE Finalize
      <4>1. pending = {} /\ IsTerminal(steps)
        BY <3>7 DEF Finalize, CompletionInv
      <4>2. /\ FinalStatus(steps, pending # {}) # "blocked"
            /\ FinalStatus(steps, pending # {}) \in {"completed", "completed_with_skips"}
                  => Good(steps)
        BY <4>1 DEF FinalStatus, Good, IsTerminal, Present, StepIsTerminal, TypeOK,
                    StepStatus
      <4>. QED
        BY <3>7, <4>1, <4>2 DEF Finalize, CompletionInv, BarrierHolds, Done
    <3>8. CASE Publish
      BY <3>8 DEF Publish, CompletionInv, BarrierHolds, Done
    <3>9. CASE Check
      BY <3>9 DEF Check, CompletionInv, BarrierHolds, Done
    <3>10. CASE \E s \in Step : Launch(s)
      BY <3>10 DEF Launch, CompletionInv, BarrierHolds, Done
    <3>11. CASE Barrier
      BY <3>11 DEF Barrier, CompletionInv, BarrierHolds, Done, Alive
    <3>. QED
      BY <2>4, <3>1, <3>2, <3>3, <3>4, <3>5, <3>6, <3>7, <3>8, <3>9, <3>10, <3>11 DEF Run
  <2>5. CASE UNCHANGED vars
    BY <2>5 DEF vars, CompletionInv, BarrierHolds, Done
  <2>. QED
    BY <2>1, <2>2, <2>3, <2>4, <2>5 DEF Next
<1>. QED
  BY <1>1, <1>2, DagTypeOK, PTL DEF Spec

\* HonestCompletion holds for every plan.
THEOREM DagHonestCompletion == Spec => []HonestCompletion
<1>1. TypeOK /\ CompletionInv => HonestCompletion
  BY DEF CompletionInv, HonestCompletion, Good, Done, Alive, Present, TypeOK
<1>. QED
  BY <1>1, CompletionInvariant, DagTypeOK, PTL

\* finalize never finalizes over a parked decision, for every plan.
THEOREM DagNeverFinalizeParked == Spec => []NeverFinalizeParked
<1>1. CompletionInv => NeverFinalizeParked
  BY DEF CompletionInv, NeverFinalizeParked
<1>. QED
  BY <1>1, CompletionInvariant, PTL

\* StableInv is inductive together with CompletionInv when no role or skill is
\* missing.
THEOREM StableInvariant == ASSUME Resourced PROVE Spec => []StableInv
<1> USE DEF graphVars, decVars, loopVars, gorVars, countVars, callVars
<1>1. Init => StableInv
  BY DEF Init, StableInv
<1>2. TypeOK /\ CompletionInv /\ StableInv /\ [Next]_vars => StableInv'
  <2> SUFFICES ASSUME TypeOK, CompletionInv, StableInv, [Next]_vars PROVE StableInv'
    OBVIOUS
  <2>1. ASSUME NEW s \in Step, executeStep(s) PROVE StableInv'
    <3>1. pc # "publish" /\ pc' = pc /\ verdict' = verdict /\ graph' \in {graph, "failed"}
      BY <2>1, StepFrame DEF CompletionInv, BarrierHolds
    <3>. QED
      BY <3>1 DEF StableInv
  <2>2. ASSUME NEW s \in Step, FulfillSuccess(s) PROVE StableInv'
    BY <2>2 DEF FulfillSuccess, StableInv
  <2>3. CASE Answer
    <3>1. /\ pending # {} /\ pc' = pc /\ verdict' = verdict
          /\ graph' \in {graph, "failed"}
      BY <2>3 DEF Answer, FulfillStep, SubmitDecision
    <3>. QED
      BY <3>1 DEF CompletionInv, StableInv
  <2>4. CASE Run
    <3>1. CASE Finalize
      <4>1. FinalStatus(steps, pending # {}) \in {"completed", "completed_with_skips", "failed"}
        BY <3>1 DEF Finalize, CompletionInv, FinalStatus
      <4>. QED
        BY <3>1, <4>1 DEF Finalize, StableInv
    <3>2. CASE Publish
      BY <3>2 DEF Publish, StableInv
    <3>3. CASE Snapshot \/ Cancelled \/ Empty \/ Wake \/ Detect \/ Decide
      BY <3>3 DEF Snapshot, Cancelled, Empty, Wake, Detect, Decide, StableInv
    <3>4. CASE Check \/ Barrier \/ \E s \in Step : Launch(s)
      BY <3>4 DEF Check, Barrier, Launch, StableInv
    <3>. QED
      BY <2>4, <3>1, <3>2, <3>3, <3>4 DEF Run
  <2>5. CASE UNCHANGED vars
    BY <2>5 DEF vars, StableInv
  <2>. QED
    BY <2>1, <2>2, <2>3, <2>4, <2>5 DEF Next
<1>. QED
  BY <1>1, <1>2, DagTypeOK, CompletionInvariant, PTL DEF Spec

\* "no further transitions expected": where every role and skill exists, what
\* an abort or finalize sets stays, for every plan and every order of answers.
THEOREM DagTerminalStable == ASSUME Resourced PROVE Spec => TerminalStable
<1> USE DEF graphVars, decVars, loopVars, gorVars, countVars, callVars
<1>1. TypeOK /\ CompletionInv /\ StableInv /\ [Next]_vars
         => [isTerminalStatus(graph) => graph' = graph]_vars
  <2> SUFFICES ASSUME TypeOK, CompletionInv, StableInv, Next, isTerminalStatus(graph)
               PROVE  graph' = graph
    OBVIOUS
  <2>0. graph \in {"completed", "completed_with_skips", "failed"}
    BY DEF StableInv, isTerminalStatus
  <2>1. ASSUME NEW s \in Step, executeStep(s) PROVE graph' = graph
    <3>1. ~Done /\ graph' \in {graph, "failed"}
      BY <2>1, StepFrame DEF CompletionInv
    <3>. QED
      BY <2>0, <3>1 DEF Done
  <2>2. ASSUME NEW s \in Step, FulfillSuccess(s) PROVE graph' = graph
    BY <2>2 DEF FulfillSuccess
  <2>3. CASE Answer
    <3>1. pending # {} /\ graph' \in {graph, "failed"}
      BY <2>3 DEF Answer, FulfillStep, SubmitDecision
    <3>. QED
      BY <2>0, <3>1 DEF CompletionInv, Done
  <2>4. CASE Run
    <3>1. ~Publish
      BY <2>0 DEF Publish, StableInv
    <3>2. CASE Snapshot \/ Cancelled \/ Empty \/ Wake \/ Detect \/ Decide \/ Finalize
      BY <3>2 DEF Snapshot, Cancelled, Empty, Wake, Detect, Decide, Finalize
    <3>3. CASE Check \/ Barrier \/ \E s \in Step : Launch(s)
      BY <3>3 DEF Check, Barrier, Launch
    <3>. QED
      BY <2>4, <3>1, <3>2, <3>3 DEF Run
  <2>. QED
    BY <2>1, <2>2, <2>3, <2>4 DEF Next
<1>. QED
  BY <1>1, DagTypeOK, CompletionInvariant, StableInvariant, PTL DEF Spec, TerminalStable

HIDE SchedulerAssumption

-----------------------------------------------------------------------------
(* The goroutine of a step *)

\* A step of the goroutine of s that concerns s alone.
OwnStep(s, p, g, q) ==
    /\ steps' = [steps EXCEPT ![s] = p]
    /\ gor' = [gor EXCEPT ![s] = g]
    /\ cause' = [cause EXCEPT ![s] = q]
    /\ UNCHANGED <<released, pending, fulfilling, pc, ready, target>>

\* GoroutineStatus of one step.
StatusFits(s, p, g, q) ==
    /\ g # "begin"
    /\ g \in {"spawn", "exhausted"} =>
          p = "running" \/ (p = "pending" /\ Plan[s].ExitCriteria = "checked")
    /\ g = "failing" => p = "failed" /\ q \in {"exhausted", "defaulted"}
    /\ g = "deciding" => p \in {"running", "failed", "blocked"} /\ q # "upstream"
    /\ g = "deciding" /\ q = "delegation" => "delegation" \in Plan[s].Outcomes
    /\ g = "verify" => Plan[s].ExitCriteria = "checked"

\* GoroutineStatus is StatusFits of every step.
LEMMA FitsEach == GoroutineStatus <=> \A s \in Step : StatusFits(s, steps[s], gor[s], cause[s])
BY DEF GoroutineStatus, StatusFits

PlainStatus == {"pending", "running", "ok", "failed", "blocked"}

\* Such a step keeps the invariant if it keeps a decision's step as it is.
LEMMA OwnStepInv ==
    ASSUME TypeOK, PlainInv, NEW s \in Step, gor[s] # "none",
           NEW p \in PlainStatus, NEW g, NEW q, OwnStep(s, p, g, q),
           StatusFits(s, p, g, q),
           (\A d \in pending : d.step # s) \/ (p = steps[s] /\ g = "none")
    PROVE  PlainInv'
<1>p. /\ OnlyPlainStatuses /\ BarrierHolds /\ SnapshotFresh /\ BatchSound
      /\ GoroutineStatus /\ DecisionStatus /\ OneEach /\ FulfilledAtRest
  BY DEF PlainInv
<1>t. ready \subseteq Step /\ fulfilling \subseteq Step /\ \A d \in pending : d.step \in Step
  BY DEF TypeOK, Decision
<1>1. /\ \A x \in Step : x # s => steps'[x] = steps[x] /\ gor'[x] = gor[x]
                                  /\ cause'[x] = cause[x]
      /\ steps'[s] = p /\ gor'[s] = g /\ cause'[s] = q
      /\ UNCHANGED <<released, pending, fulfilling, pc, ready, target>>
  BY DEF OwnStep, TypeOK
<1>2. Deps' = Deps /\ \A x \in Step : Deps[x] \in SUBSET Step
  BY <1>1, SchedulerAssumption DEF Deps, StepInput
<1>3. \A d \in pending : d.step \in Step
  BY DEF TypeOK, Decision
<1>4. pc \in {"launch", "barrier", "exit"}
  BY <1>p DEF BarrierHolds
<1>5. \A x \in Step : Dead(x) => Dead(x)'
  BY <1>1, <1>3 DEF Dead
<1>6. \A x \in Step : Stranded(x) => Stranded(x)'
  BY <1>1, <1>2, <1>5 DEF Stranded
<1>7. OnlyPlainStatuses'
  BY <1>1, <1>p DEF OnlyPlainStatuses, PlainStatus
<1>8. BarrierHolds' /\ DetectAlone'
  BY <1>1, <1>4 DEF BarrierHolds, DetectAlone
<1>9. SnapshotFresh'
  <2> SUFFICES ASSUME pc \in {"check", "launch"}, NEW x \in ready
               PROVE  steps'[x] = "pending" /\ gor'[x] = "none" /\ \A d \in pending : d.step # x
    BY <1>1 DEF SnapshotFresh
  <2>1. /\ x \in Step /\ steps[x] = "pending" /\ gor[x] = "none"
        /\ \A d \in pending : d.step # x
    BY <1>p, <1>t DEF SnapshotFresh
  <2>. QED
    BY <1>1, <2>1
<1>10. \A x \in Step : Batch(x)' => Batch(x)
  BY <1>1 DEF Batch
<1>11. BatchSound'
  <2> SUFFICES ASSUME NEW x \in Step, Batch(x)', NEW y \in Deps[x]
               PROVE  steps'[y] = "ok" /\ ~Batch(y)'
    BY <1>2 DEF BatchSound
  <2>1. y \in Step /\ steps[y] = "ok" /\ ~Batch(y)
    BY <1>2, <1>10, <1>p DEF BatchSound
  <2>2. y # s
    BY <2>1 DEF Batch
  <2>. QED
    BY <1>1, <1>10, <2>1, <2>2
<1>12. GoroutineStatus'
  <2>1. \A x \in Step : StatusFits(x, steps'[x], gor'[x], cause'[x])
    BY <1>1, <1>p, FitsEach
  <2>. QED
    BY <2>1 DEF StatusFits, GoroutineStatus
<1>13. DecisionStatus'
  BY <1>1, <1>3, <1>6, <1>p DEF DecisionStatus
<1>14. OneEach' /\ FulfilledAtRest'
  BY <1>1, <1>p, <1>t DEF OneEach, FulfilledAtRest
<1>. QED
  BY <1>7, <1>8, <1>9, <1>11, <1>12, <1>13, <1>14 DEF PlainInv

\* A plain step has no fallback, no follow-up and no loop.
LEMMA PlainStep ==
    ASSUME Plain, TypeOK, NEW s \in Step
    PROVE  /\ Fallbacks(s) = {} /\ ~LoopsBack(s) /\ ~Spawns(s)
           /\ ~RequestAutonomousAbort(s) /\ ~Degrade(s) /\ ~Backtrack(s)
           /\ ~Fuse(s) /\ ~SpawnFollowUp(s) /\ ~Substitute(s)
<1>1. Fallbacks(s) = {}
  <2>1. \A x \in Step : Plan[x].FallbackFor = NoStep
    BY DEF Plain
  <2>2. s # NoStep
    BY SchedulerAssumption
  <2>3. DOMAIN steps = Step
    BY DEF TypeOK
  <2>. QED
    BY <2>1, <2>2, <2>3 DEF Fallbacks, Present
<1>2. ~LoopsBack(s) /\ ~Spawns(s)
  <2>1. Plan[s].MaxLoopRounds = 0 /\ Plan[s].FollowUp = NoStep
    BY DEF Plain
  <2>2. ~LoopsBack(s)
    BY <2>1 DEF LoopsBack
  <2>. QED
    BY <2>1, <2>2 DEF Spawns
<1>3. ~RequestAutonomousAbort(s) /\ ~Degrade(s)
  BY DEF Plain, RequestAutonomousAbort, Degrade, Outcomes
<1>. QED
  BY <1>1, <1>2, <1>3 DEF Backtrack, Fuse, SpawnFollowUp, Substitute,
                          PendingFallbacks

\* maybeBlock touches no step of the batch and no step of a decision.
LEMMA MaybeBlockInv ==
    ASSUME Plain, TypeOK, PlainInv, NEW s \in Step, maybeBlock(s)
    PROVE  PlainInv'
<1>p. /\ OnlyPlainStatuses /\ BarrierHolds /\ SnapshotFresh /\ BatchSound
      /\ GoroutineStatus /\ DecisionStatus /\ OneEach /\ FulfilledAtRest
  BY DEF PlainInv
<1>t. ready \subseteq Step /\ fulfilling \subseteq Step /\ \A d \in pending : d.step \in Step
  BY DEF TypeOK, Decision
<1> DEFINE Cut == {x \in Step : s \in Deps[x] /\ steps[x] = "pending"}
<1>1. /\ \A x \in Step \ Cut : steps'[x] = steps[x]
      /\ \A x \in Cut : steps[x] = "pending" /\ steps'[x] = "blocked"
      /\ \A x \in Step : x # s => gor'[x] = gor[x]
      /\ gor[s] = "failing" /\ gor'[s] = "deciding"
      /\ UNCHANGED <<released, pending, fulfilling, pc, ready, target, cause>>
  <2>1. Fallbacks(s) = {}
    BY PlainStep
  <2>2. /\ steps' = [x \in Step |-> IF x \in Dependents(s) /\ steps[x] = "pending" THEN "blocked"
                                  ELSE steps[x]]
        /\ gor[s] = "failing" /\ gor' = [gor EXCEPT ![s] = "deciding"]
        /\ UNCHANGED <<released, pending, fulfilling, pc, ready, target, cause>>
    BY <2>1 DEF maybeBlock, decVars, loopVars, callVars
  <2>3. \A x \in Step : gor'[x] = IF x = s THEN "deciding" ELSE gor[x]
    BY <2>2 DEF TypeOK
  <2>. QED
    BY <2>2, <2>3 DEF Dependents
<1>2. Deps' = Deps /\ \A x \in Step : Deps[x] \in SUBSET Step
  BY <1>1, SchedulerAssumption DEF Deps, StepInput
<1>3. \A d \in pending : d.step \in Step
  BY DEF TypeOK, Decision
<1>4. pc \in {"launch", "barrier", "exit"}
  BY <1>1, <1>p DEF BarrierHolds
<1>5. \A x \in Cut : ~Batch(x)
  BY <1>1, <1>2, <1>p DEF BatchSound, Batch
<1>6. s \notin Cut /\ Cut \subseteq Step
  BY <1>1, <1>p DEF GoroutineStatus
<1> HIDE DEF Cut
<1>7. \A x \in Step : Dead(x) => Dead(x)'
  BY <1>1, <1>3 DEF Dead
<1>8. \A x \in Step : Stranded(x) => Stranded(x)'
  BY <1>1, <1>2, <1>7 DEF Stranded
<1>9. OnlyPlainStatuses'
  BY <1>1, <1>p DEF OnlyPlainStatuses
<1>10. BarrierHolds' /\ DetectAlone'
  BY <1>1, <1>4 DEF BarrierHolds, DetectAlone
<1>11. SnapshotFresh'
  <2> SUFFICES ASSUME pc \in {"check", "launch"}, NEW x \in ready
               PROVE  steps'[x] = "pending" /\ gor'[x] = "none" /\ \A d \in pending : d.step # x
    BY <1>1 DEF SnapshotFresh
  <2>1. /\ x \in Step /\ steps[x] = "pending" /\ gor[x] = "none"
        /\ \A d \in pending : d.step # x
    BY <1>p, <1>t DEF SnapshotFresh
  <2>2. Batch(x)
    BY DEF Batch
  <2>. QED
    BY <1>1, <1>5, <2>1, <2>2
<1>12. \A x \in Step : Batch(x)' <=> Batch(x)
  BY <1>1 DEF Batch
<1>13. BatchSound'
  <2> SUFFICES ASSUME NEW x \in Step, Batch(x)', NEW y \in Deps[x]
               PROVE  steps'[y] = "ok" /\ ~Batch(y)'
    BY <1>2 DEF BatchSound
  <2>1. y \in Step /\ steps[y] = "ok" /\ ~Batch(y)
    BY <1>2, <1>12, <1>p DEF BatchSound
  <2>. QED
    BY <1>1, <1>12, <2>1
<1>14. GoroutineStatus'
  <2>1. ASSUME NEW x \in Cut PROVE StatusFits(x, steps'[x], gor'[x], cause'[x])
    <3>1. x \in Step /\ gor[x] = "none"
      BY <1>5, <1>6 DEF Batch
    <3>. QED
      BY <1>1, <1>6, <3>1 DEF StatusFits
  <2>2. StatusFits(s, steps'[s], gor'[s], cause'[s])
    <3>1. StatusFits(s, steps[s], gor[s], cause[s])
      BY <1>p, FitsEach
    <3>. QED
      BY <1>1, <1>6, <3>1 DEF StatusFits
  <2>3. \A x \in Step : StatusFits(x, steps'[x], gor'[x], cause'[x])
    BY <1>1, <1>p, <2>1, <2>2, FitsEach
  <2>. QED
    BY <2>3 DEF StatusFits, GoroutineStatus
<1>15. DecisionStatus'
  BY <1>1, <1>3, <1>8, <1>p DEF DecisionStatus
<1>16. OneEach' /\ FulfilledAtRest'
  BY <1>1, <1>p, <1>t DEF OneEach, FulfilledAtRest
<1>. QED
  BY <1>9, <1>10, <1>11, <1>13, <1>14, <1>15, <1>16 DEF PlainInv

\* A decision parked by a goroutine is the only one on its step.
LEMMA StepDecisionInv ==
    ASSUME Plain, TypeOK, PlainInv, NEW s \in Step, StepDecision(s)
    PROVE  PlainInv'
<1>p. /\ OnlyPlainStatuses /\ BarrierHolds /\ SnapshotFresh /\ BatchSound
      /\ GoroutineStatus /\ DecisionStatus /\ OneEach /\ FulfilledAtRest
  BY DEF PlainInv
<1>t. ready \subseteq Step /\ fulfilling \subseteq Step /\ \A d \in pending : d.step \in Step
  BY DEF TypeOK, Decision
<1> DEFINE g == gor'[s]
<1> USE DEF graphVars, decVars, loopVars, gorVars, countVars, callVars
<1>1. /\ gor[s] = "deciding" /\ cause[s] \in Cause
      /\ g \in {"none", "verify"}
      /\ g = "verify" => Plan[s].ExitCriteria = "checked"
      /\ gor' = [gor EXCEPT ![s] = g] /\ cause' = [cause EXCEPT ![s] = "none"]
      /\ UNCHANGED <<released, steps, fulfilling, pc, ready, target>>
  BY DEF StepDecision, AfterOutput, TypeOK, Plain
<1>2. \A d \in pending : d.step # s
  BY <1>1, <1>p DEF DecisionStatus
<1>3. steps' = [steps EXCEPT ![s] = steps[s]] /\ steps[s] \in PlainStatus
  BY <1>1, <1>p DEF TypeOK, OnlyPlainStatuses, PlainStatus
<1> HIDE DEF g
<1>4. CASE pending' = pending
  <2>1. OwnStep(s, steps[s], g, "none") /\ StatusFits(s, steps[s], g, "none")
    BY <1>1, <1>3, <1>4 DEF OwnStep, StatusFits
  <2>. QED
    BY <1>1, <1>2, <1>3, <2>1, OwnStepInv
<1>5. CASE pending' # pending
  <2>1. PICK e \in Decision : /\ pending' = pending \cup {e}
                             /\ e.step = s /\ e.cause = cause[s]
    <3>1. addDecision(s, cause[s])
      BY <1>5 DEF StepDecision
    <3>2. [id |-> raised, step |-> s, cause |-> cause[s],
           options |-> filterSkipOptions(cause[s])] \in pending'
      BY <1>5, <3>1 DEF addDecision
    <3>3. pending' \subseteq Decision
      BY <1>1, <3>1, AddDecisionType
    <3>. QED
      BY <1>5, <3>1, <3>2, <3>3 DEF addDecision
  <2>2. /\ \A x \in Step : x # s => gor'[x] = gor[x] /\ cause'[x] = cause[x]
        /\ gor'[s] = g /\ cause'[s] = "none"
        /\ steps' = steps
    BY <1>1 DEF TypeOK
  <2>3. Deps' = Deps /\ \A x \in Step : Deps[x] \in SUBSET Step
    BY <1>1, SchedulerAssumption DEF Deps, StepInput
  <2>4. \A d \in pending : d.step \in Step
    BY DEF TypeOK, Decision
  <2>5. pc \in {"launch", "barrier", "exit"}
    BY <1>1, <1>p DEF BarrierHolds
  <2>6. \A x \in Step : Dead(x) => Dead(x)'
    BY <1>1, <2>1, <2>2 DEF Dead
  <2>7. \A x \in Step : Stranded(x) => Stranded(x)'
    BY <1>1, <2>2, <2>3, <2>6 DEF Stranded
  <2>8. OnlyPlainStatuses' /\ BarrierHolds' /\ DetectAlone'
    BY <1>1, <2>5, <1>p DEF OnlyPlainStatuses, BarrierHolds, DetectAlone
  <2>9. SnapshotFresh'
    <3> SUFFICES ASSUME pc \in {"check", "launch"}, NEW x \in ready
                 PROVE  steps[x] = "pending" /\ gor'[x] = "none" /\ \A d \in pending' : d.step # x
      BY <1>1 DEF SnapshotFresh
    <3>1. /\ x \in Step /\ steps[x] = "pending" /\ gor[x] = "none"
          /\ \A d \in pending : d.step # x
      BY <1>p, <1>t DEF SnapshotFresh
    <3>. QED
      BY <1>1, <2>1, <2>2, <3>1
  <2>10. \A x \in Step : Batch(x)' => Batch(x)
    BY <1>1, <2>2 DEF Batch
  <2>11. BatchSound'
    <3> SUFFICES ASSUME NEW x \in Step, Batch(x)', NEW y \in Deps[x]
                 PROVE  steps[y] = "ok" /\ ~Batch(y)'
      BY <2>2, <2>3 DEF BatchSound
    <3>1. y \in Step /\ steps[y] = "ok" /\ ~Batch(y)
      BY <2>3, <2>10, <1>p DEF BatchSound
    <3>. QED
      BY <2>10, <3>1
  <2>12. GoroutineStatus'
    <3>1. StatusFits(s, steps'[s], gor'[s], cause'[s])
      BY <1>1, <2>2 DEF StatusFits
    <3>2. \A x \in Step : StatusFits(x, steps'[x], gor'[x], cause'[x])
      BY <2>2, <3>1, <1>p, FitsEach
    <3>. QED
      BY <3>2 DEF StatusFits, GoroutineStatus
  <2>13. DecisionStatus'
    <3>1. /\ cause[s] # "upstream" /\ steps[s] \in {"running", "failed", "blocked"}
          /\ cause[s] = "delegation" => "delegation" \in Plan[s].Outcomes
      BY <1>1, <1>p DEF GoroutineStatus
    <3>. QED
      BY <1>1, <1>2, <2>1, <2>2, <2>4, <2>7, <3>1, <1>p DEF DecisionStatus
  <2>14. OneEach' /\ FulfilledAtRest'
    <3>1. ASSUME NEW d \in pending', NEW b \in pending', d.step = b.step PROVE d = b
      BY <1>2, <1>p, <2>1, <3>1 DEF OneEach
    <3>2. ASSUME NEW x \in fulfilling PROVE x \in Step /\ steps[x] = "ok" /\ gor'[x] = "none"
      <4>1. x \in Step /\ steps[x] = "ok" /\ gor[x] = "none"
        BY <1>p, <1>t DEF FulfilledAtRest
      <4>. QED
        BY <1>1, <2>2, <4>1
    <3>. QED
      BY <1>1, <3>1, <3>2 DEF OneEach, FulfilledAtRest
  <2>. QED
    BY <2>8, <2>9, <2>11, <2>12, <2>13, <2>14 DEF PlainInv
<1>. QED
  BY <1>4, <1>5

\* Every step of a goroutine keeps the invariant.
LEMMA StepInv ==
    ASSUME Plain, TypeOK, PlainInv, NEW s \in Step, executeStep(s)
    PROVE  PlainInv'
<1> USE DEF graphVars, decVars, loopVars, gorVars, countVars, callVars
<1>a. /\ steps = [steps EXCEPT ![s] = steps[s]] /\ cause = [cause EXCEPT ![s] = cause[s]]
      /\ gor = [gor EXCEPT ![s] = gor[s]]
      /\ steps[s] \in PlainStatus
      /\ {"ok", "running", "pending", "failed", "blocked"} \subseteq PlainStatus
  BY DEF TypeOK, PlainInv, OnlyPlainStatuses, PlainStatus
<1>b. gor[s] \notin {"none", "verify"} => \A d \in pending : d.step # s
  BY DEF PlainInv, DecisionStatus
<1>c. gor[s] = "verify" /\ steps[s] = "ok" => \A d \in pending : d.step # s
  BY DEF PlainInv, DecisionStatus, Stranded
<1>d. /\ gor[s] = "spawn" =>
            \/ steps[s] = "running"
            \/ steps[s] = "pending" /\ Plan[s].ExitCriteria = "checked"
      /\ gor[s] # "begin"
      /\ gor[s] = "verify" => Plan[s].ExitCriteria = "checked"
      /\ Plan[s].ExitCriteria = "checked" =>
            "delegation" \notin Plan[s].Outcomes /\ "approval" \notin Plan[s].Outcomes
  BY DEF PlainInv, GoroutineStatus, Plain
<1>1. CASE CheckBudget(s)
  <2>1. gor[s] # "none" /\ OwnStep(s, "blocked", "deciding", "budget")
    BY <1>1, <1>a, <1>d DEF CheckBudget, OwnStep, Move, Park, Outcomes, TypeOK
  <2>2. StatusFits(s, "blocked", "deciding", "budget")
    BY <1>1, <1>a, <1>d DEF CheckBudget, StatusFits, Move, Park, Outcomes, TypeOK
  <2>3. (\A d \in pending : d.step # s) \/ ("blocked" = steps[s] /\ "deciding" = "none")
    BY <1>1, <1>b, <1>c DEF CheckBudget, Outcomes
  <2>. QED
    BY <1>a, <2>1, <2>2, <2>3, OwnStepInv
<1>2. CASE MarkRunning(s)
  <2>1. gor[s] # "none" /\ OwnStep(s, "running", gor'[s], cause[s])
    BY <1>2, <1>a, <1>d DEF MarkRunning, OwnStep, Move, Park, Outcomes, TypeOK
  <2>2. StatusFits(s, "running", gor'[s], cause[s])
    BY <1>2, <1>a, <1>d DEF MarkRunning, StatusFits, Move, Park, Outcomes, TypeOK
  <2>3. (\A d \in pending : d.step # s) \/ ("running" = steps[s] /\ gor'[s] = "none")
    BY <1>2, <1>b, <1>c DEF MarkRunning, Outcomes
  <2>. QED
    BY <1>a, <2>1, <2>2, <2>3, OwnStepInv
<1>3. CASE Succeed(s)
  <2>1. gor[s] # "none" /\ OwnStep(s, "ok", AfterOutput(s), cause[s])
    BY <1>3, <1>a, <1>d DEF Succeed, OwnStep, Move, Park, Outcomes, TypeOK, AfterOutput
  <2>2. StatusFits(s, "ok", AfterOutput(s), cause[s])
    BY <1>3, <1>a, <1>d DEF Succeed, StatusFits, Move, Park, Outcomes, TypeOK, AfterOutput
  <2>3. (\A d \in pending : d.step # s) \/ ("ok" = steps[s] /\ AfterOutput(s) = "none")
    BY <1>3, <1>b, <1>c DEF Succeed, Outcomes, AfterOutput
  <2>. QED
    BY <1>a, <2>1, <2>2, <2>3, OwnStepInv
<1>4. CASE Retry(s)
  <2>1. gor[s] # "none" /\ OwnStep(s, steps[s], gor'[s], cause[s])
    BY <1>4, <1>a, <1>d DEF Retry, OwnStep, Move, Park, Outcomes, TypeOK
  <2>2. StatusFits(s, steps[s], gor'[s], cause[s])
    BY <1>4, <1>a, <1>d DEF Retry, StatusFits, Move, Park, Outcomes, TypeOK
  <2>3. (\A d \in pending : d.step # s) \/ (steps[s] = steps[s] /\ gor'[s] = "none")
    BY <1>4, <1>b, <1>c DEF Retry, Outcomes
  <2>. QED
    BY <1>a, <2>1, <2>2, <2>3, OwnStepInv
<1>5. CASE Abandon(s)
  <2>1. gor[s] # "none" /\ OwnStep(s, steps[s], "none", cause[s])
    BY <1>5, <1>a, <1>d DEF Abandon, OwnStep, Move, Park, Outcomes, TypeOK
  <2>2. StatusFits(s, steps[s], "none", cause[s])
    BY <1>5, <1>a, <1>d DEF Abandon, StatusFits, Move, Park, Outcomes, TypeOK
  <2>3. (\A d \in pending : d.step # s) \/ (steps[s] = steps[s] /\ "none" = "none")
    BY <1>5, <1>b, <1>c DEF Abandon, Outcomes
  <2>. QED
    BY <1>a, <2>1, <2>2, <2>3, OwnStepInv
<1>6. CASE Panic(s)
  <2>1. gor[s] # "none" /\ OwnStep(s, steps[s], "none", cause[s])
    BY <1>6, <1>a, <1>d DEF Panic, OwnStep, Move, Park, Outcomes, TypeOK
  <2>2. StatusFits(s, steps[s], "none", cause[s])
    BY <1>6, <1>a, <1>d DEF Panic, StatusFits, Move, Park, Outcomes, TypeOK
  <2>3. (\A d \in pending : d.step # s) \/ (steps[s] = steps[s] /\ "none" = "none")
    BY <1>6, <1>b, <1>c DEF Panic, Outcomes
  <2>. QED
    BY <1>a, <2>1, <2>2, <2>3, OwnStepInv
<1>7. CASE Fail(s)
  <2>1. gor[s] # "none" /\ OwnStep(s, "failed", "failing", cause'[s])
    BY <1>7, <1>a, <1>d DEF Fail, OwnStep, Move, Park, Outcomes, TypeOK
  <2>2. StatusFits(s, "failed", "failing", cause'[s])
    BY <1>7, <1>a, <1>d DEF Fail, StatusFits, Move, Park, Outcomes, TypeOK
  <2>3. (\A d \in pending : d.step # s) \/ ("failed" = steps[s] /\ "failing" = "none")
    BY <1>7, <1>b, <1>c DEF Fail, Outcomes
  <2>. QED
    BY <1>a, <2>1, <2>2, <2>3, OwnStepInv
<1>8. CASE Block(s)
  <2>1. gor[s] # "none" /\ OwnStep(s, "blocked", "deciding", cause'[s])
    BY <1>8, <1>a, <1>d DEF Block, OwnStep, Move, Park, Outcomes, TypeOK
  <2>2. StatusFits(s, "blocked", "deciding", cause'[s])
    BY <1>8, <1>a, <1>d DEF Block, StatusFits, Move, Park, Outcomes, TypeOK
  <2>3. (\A d \in pending : d.step # s) \/ ("blocked" = steps[s] /\ "deciding" = "none")
    BY <1>8, <1>b, <1>c DEF Block, Outcomes
  <2>. QED
    BY <1>a, <2>1, <2>2, <2>3, OwnStepInv
<1>9. CASE AskApproval(s)
  <2>1. gor[s] # "none" /\ OwnStep(s, steps[s], "deciding", "approval")
    BY <1>9, <1>a, <1>d DEF AskApproval, OwnStep, Move, Park, Outcomes, TypeOK
  <2>2. StatusFits(s, steps[s], "deciding", "approval")
    BY <1>9, <1>a, <1>d DEF AskApproval, StatusFits, Move, Park, Outcomes, TypeOK
  <2>3. (\A d \in pending : d.step # s) \/ (steps[s] = steps[s] /\ "deciding" = "none")
    BY <1>9, <1>b, <1>c DEF AskApproval, Outcomes
  <2>. QED
    BY <1>a, <2>1, <2>2, <2>3, OwnStepInv
<1>10. CASE ResourceMissing(s)
  <2>1. gor[s] # "none" /\ OwnStep(s, "blocked", "deciding", cause'[s])
    BY <1>10, <1>a, <1>d DEF ResourceMissing, OwnStep, Move, Park, Outcomes, TypeOK
  <2>2. StatusFits(s, "blocked", "deciding", cause'[s])
    BY <1>10, <1>a, <1>d DEF ResourceMissing, StatusFits, Move, Park, Outcomes, TypeOK
  <2>3. (\A d \in pending : d.step # s) \/ ("blocked" = steps[s] /\ "deciding" = "none")
    BY <1>10, <1>b, <1>c DEF ResourceMissing, Outcomes
  <2>. QED
    BY <1>a, <2>1, <2>2, <2>3, OwnStepInv
<1>11. CASE Ask(s)
  <2>1. gor[s] # "none" /\ OwnStep(s, "blocked", "deciding", cause'[s])
    <3>1. PICK o \in Unhandled(s) : Park(s, "blocked", CauseOf(o))
      BY <1>11 DEF Ask
    <3>2. gor[s] # "none" /\ UNCHANGED <<pending, fulfilling, pc, ready, target>>
      BY <1>11 DEF Ask, Unhandled, Outcomes
    <3>. QED
      BY <1>a, <1>d, <3>1, <3>2 DEF Park, OwnStep, TypeOK
  <2>2. StatusFits(s, "blocked", "deciding", cause'[s])
    <3>1. PICK o \in Unhandled(s) : Park(s, "blocked", CauseOf(o))
      BY <1>11 DEF Ask
    <3>2. cause'[s] = CauseOf(o) /\ CauseOf(o) \in {"failure", "capability", "context"}
      BY <3>1 DEF Park, CauseOf, Unhandled, TypeOK
    <3>. QED
      BY <3>2 DEF StatusFits
  <2>3. (\A d \in pending : d.step # s) \/ ("blocked" = steps[s] /\ "deciding" = "none")
    BY <1>11, <1>b, <1>c DEF Ask, Outcomes, Unhandled, CauseOf
  <2>. QED
    BY <1>a, <2>1, <2>2, <2>3, OwnStepInv
<1>12. CASE Verified(s)
  <2>1. gor[s] # "none" /\ OwnStep(s, steps[s], "none", cause[s])
    BY <1>12, <1>a, <1>d DEF Verified, OwnStep, Move, Park, Outcomes, TypeOK
  <2>2. StatusFits(s, steps[s], "none", cause[s])
    BY <1>12, <1>a, <1>d DEF Verified, StatusFits, Move, Park, Outcomes, TypeOK
  <2>3. (\A d \in pending : d.step # s) \/ (steps[s] = steps[s] /\ "none" = "none")
    BY <1>12, <1>b, <1>c DEF Verified, Outcomes
  <2>. QED
    BY <1>a, <2>1, <2>2, <2>3, OwnStepInv
<1>13. CASE Refine(s)
  <2>1. gor[s] # "none" /\ OwnStep(s, "pending", gor'[s], cause[s])
    BY <1>13, <1>a, <1>d DEF Refine, OwnStep, Move, Park, Outcomes, TypeOK
  <2>2. StatusFits(s, "pending", gor'[s], cause[s])
    BY <1>13, <1>a, <1>d DEF Refine, StatusFits, Move, Park, Outcomes, TypeOK
  <2>3. (\A d \in pending : d.step # s) \/ ("pending" = steps[s] /\ gor'[s] = "none")
    BY <1>13, <1>b, <1>c DEF Refine, Outcomes
  <2>. QED
    BY <1>a, <2>1, <2>2, <2>3, OwnStepInv
<1>14. CASE RefineExhausted(s)
  <2>1. gor[s] # "none" /\ OwnStep(s, "blocked", "deciding", "exit")
    BY <1>14, <1>a, <1>d DEF RefineExhausted, OwnStep, Move, Park, Outcomes, TypeOK
  <2>2. StatusFits(s, "blocked", "deciding", "exit")
    BY <1>14, <1>a, <1>d DEF RefineExhausted, StatusFits, Move, Park, Outcomes, TypeOK
  <2>3. (\A d \in pending : d.step # s) \/ ("blocked" = steps[s] /\ "deciding" = "none")
    BY <1>14, <1>b, <1>c DEF RefineExhausted, Outcomes
  <2>. QED
    BY <1>a, <2>1, <2>2, <2>3, OwnStepInv
<1>15. CASE maybeBlock(s)
  BY <1>15, MaybeBlockInv
<1>16. CASE StepDecision(s)
  BY <1>16, StepDecisionInv
<1>. QED
  BY <1>1, <1>2, <1>3, <1>4, <1>5, <1>6, <1>7, <1>8, <1>9, <1>10, <1>11, <1>12, <1>13, <1>14, <1>15, <1>16, PlainStep DEF executeStep
=============================================================================
