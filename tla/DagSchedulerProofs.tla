------------------------- MODULE DagSchedulerProofs -------------------------
(***************************************************************************)
(* The run loop and the answers keep the invariant of plain plans, and     *)
(* what follows from it: no step starts on an unsatisfied dependency, none *)
(* executes while a decision on it is open, and each upstream decision has a *)
(* failed dependency to point at.                                          *)
(***************************************************************************)
EXTENDS DagTypeProofs, WellFoundedInduction

\* Among natural numbers there is a least.
LEMMA LeastNat ==
    ASSUME NEW T, T \subseteq Nat, T # {}
    PROVE  \E m \in T : \A n \in T : m <= n
<1> DEFINE R == {p \in Nat \X Nat : p[1] < p[2]}
<1>1. IsWellFoundedOn(R, Nat)
  BY NatLessThanWellFounded, Zenon DEF OpToRel
<1> HIDE DEF R
<1>2. PICK m \in T : \A n \in T : <<n, m>> \notin R
  BY <1>1, WFMin, Zenon
<1>3. \A n \in T : ~(n < m)
  BY <1>2 DEF R
<1>. QED
  BY <1>3

\* Among steps there is one of least rank.
LEMMA LeastStep ==
    ASSUME NEW P \in SUBSET Step, NEW w \in P, NEW rank \in [Step -> Nat]
    PROVE  \E s \in P : \A x \in P : ~(rank[x] < rank[s])
<1> DEFINE T == {rank[s] : s \in P}
<1>1. T \subseteq Nat /\ T # {}
  OBVIOUS
<1>2. PICK m \in T : \A n \in T : m <= n
  BY <1>1, LeastNat
<1>3. PICK s \in P : rank[s] = m
  OBVIOUS
<1>4. ASSUME NEW x \in P PROVE ~(rank[x] < rank[s])
  <2>1. rank[x] \in Nat /\ m \in Nat /\ m <= rank[x]
    BY <1>1, <1>2
  <2>. QED
    BY <1>3, <2>1
<1>. QED
  BY <1>4

USE SchedulerAssumption

\* The invariant does not mention the rest of the state.
LEMMA StutterInv ==
    ASSUME TypeOK, PlainInv,
           UNCHANGED <<steps, released, gor, cause, pending, fulfilling, pc, ready, target>>
    PROVE  PlainInv'
<1>2. Deps' = Deps
  BY DEF Deps
<1>3. \A x \in Step : (Dead(x)' <=> Dead(x)) /\ (Batch(x)' <=> Batch(x))
  BY DEF Dead, Batch
<1>4. \A x \in Step : Stranded(x)' <=> Stranded(x)
  BY <1>2, <1>3 DEF Stranded, Deps, StepInput
<1>5. OnlyPlainStatuses' /\ BarrierHolds' /\ SnapshotFresh' /\ OneEach' /\ FulfilledAtRest'
  BY DEF PlainInv, OnlyPlainStatuses, BarrierHolds, SnapshotFresh, OneEach, FulfilledAtRest
<1>6. BatchSound'
  BY <1>2, <1>3 DEF PlainInv, BatchSound, Deps, StepInput
<1>7. GoroutineStatus'
  BY DEF PlainInv, GoroutineStatus
<1>8. DecisionStatus' /\ DetectAlone'
  BY <1>4 DEF PlainInv, DecisionStatus, DetectAlone, TypeOK, Decision
<1>. QED
  BY <1>5, <1>6, <1>7, <1>8 DEF PlainInv

\* A step of the loop that only moves on keeps the invariant if nothing is
\* launched and the barrier is passed by nobody too early.
LEMMA LoopMoveInv ==
    ASSUME TypeOK, PlainInv,
           UNCHANGED <<steps, released, gor, cause, pending, fulfilling, ready, target>>,
           pc' \notin {"launch", "barrier", "exit"} => \A s \in Step : gor[s] = "none",
           pc' \notin {"check", "decide"}, pc' = "launch" => pc = "check",
           pc' = "detect" => pending = {}
    PROVE  PlainInv'
<1>1. Deps' = Deps
  BY DEF Deps
<1>2. \A x \in Step : (Dead(x)' <=> Dead(x)) /\ (Stranded(x)' <=> Stranded(x))
  BY <1>1 DEF Stranded, Dead
<1>3. \A x \in Step : Batch(x)' => Batch(x)
  BY DEF Batch
<1>4. \A d \in pending : d.step \in Step
  BY DEF TypeOK, Decision
<1>5. \A x \in Step : Deps[x] \in SUBSET Step
  BY DEF Deps, StepInput
<1>6. OnlyPlainStatuses' /\ BarrierHolds' /\ GoroutineStatus' /\ OneEach' /\ FulfilledAtRest'
  BY DEF PlainInv, OnlyPlainStatuses, BarrierHolds, GoroutineStatus, OneEach,
         FulfilledAtRest
<1>7. SnapshotFresh' /\ DetectAlone'
  BY DEF PlainInv, SnapshotFresh, DetectAlone
<1>8. BatchSound'
  BY <1>1, <1>3, <1>5 DEF PlainInv, BatchSound
<1>9. DecisionStatus'
  BY <1>2, <1>4 DEF PlainInv, DecisionStatus
<1>. QED
  BY <1>6, <1>7, <1>8, <1>9 DEF PlainInv

\* The snapshot is sound: a ready step has no decision parked on it, because a
\* stranded one has a dependency that failed.
LEMMA SnapshotInv == ASSUME TypeOK, PlainInv, Snapshot PROVE PlainInv'
<1> USE DEF graphVars, decVars, loopVars, gorVars, countVars, callVars
<1>1. /\ UNCHANGED <<steps, released, gor, cause, pending, fulfilling, target>>
      /\ ready' = ReadySteps(steps, Deps) /\ pc' \in {"wait", "empty", "check"}
      /\ \A s \in Step : gor[s] = "none"
  BY DEF Snapshot, PlainInv, BarrierHolds
<1>2. Deps' = Deps /\ \A x \in Step : Deps[x] \in SUBSET Step
  BY <1>1 DEF Deps, StepInput
<1>3. \A x \in Step : (Dead(x)' <=> Dead(x)) /\ (Stranded(x)' <=> Stranded(x))
  BY <1>1, <1>2 DEF Stranded, Dead
<1>4. \A d \in pending : d.step \in Step
  BY DEF TypeOK, Decision
<1>5. \A s \in ready' : s \in Step /\ steps[s] = "pending" /\ \A x \in Deps[s] : steps[x] = "ok"
  BY <1>1, <1>2 DEF ReadySteps, depsSatisfiedFor, Satisfies, TypeOK, PlainInv,
                    OnlyPlainStatuses
<1>6. \A s \in ready' : ~Stranded(s)
  BY <1>2, <1>5 DEF Stranded, Dead
<1>7. \A s \in ready' : \A d \in pending : d.step # s
  BY <1>4, <1>5, <1>6 DEF PlainInv, DecisionStatus
<1>8. SnapshotFresh'
  BY <1>1, <1>5, <1>7 DEF SnapshotFresh
<1>9. BatchSound'
  BY <1>1, <1>2, <1>5 DEF BatchSound, Batch
<1>10. OnlyPlainStatuses' /\ BarrierHolds' /\ GoroutineStatus' /\ OneEach' /\ FulfilledAtRest'
       /\ DetectAlone'
  BY <1>1 DEF PlainInv, OnlyPlainStatuses, BarrierHolds, GoroutineStatus, OneEach,
              FulfilledAtRest, DetectAlone
<1>11. DecisionStatus'
  BY <1>1, <1>3, <1>4 DEF PlainInv, DecisionStatus
<1>. QED
  BY <1>8, <1>9, <1>10, <1>11 DEF PlainInv

\* What detectUpstreamInsufficient returns is stranded for good.
LEMMA DetectInv == ASSUME TypeOK, PlainInv, Detect PROVE PlainInv'
<1> USE DEF graphVars, decVars, loopVars, gorVars, countVars, callVars
<1>1. /\ UNCHANGED <<steps, released, gor, cause, pending, fulfilling, ready>>
      /\ pending = {} /\ \A s \in Step : gor[s] = "none"
  BY DEF Detect, PlainInv, BarrierHolds, DetectAlone
<1>2. CASE pc' = "wait"
  <2>1. UNCHANGED target
    BY <1>2 DEF Detect
  <2>. QED
    BY <1>1, <1>2, <2>1, LoopMoveInv
<1>3. CASE pc' = "decide" /\ target' \in Insufficient(steps, Deps)
  <2>1. Deps' = Deps /\ \A x \in Step : Deps[x] \in SUBSET Step
    BY <1>1 DEF Deps, StepInput
  <2>2. /\ target' \in Step /\ steps[target'] = "pending"
        /\ \E u \in Deps[target'] : StepIsTerminal(steps[u]) /\ steps[u] \notin {"ok", "partial"}
    BY <1>3 DEF Insufficient, TypeOK
  <2>3. PICK u \in Deps[target'] : u \in Step /\ steps[u] \in {"failed", "blocked"}
    BY <2>1, <2>2 DEF StepIsTerminal, PlainInv, OnlyPlainStatuses
  <2>4. Dead(u)' /\ u \in Deps'[target']
    BY <1>1, <2>1, <2>3 DEF Dead
  <2>5. Stranded(target)'
    BY <1>1, <2>2, <2>4 DEF Stranded
  <2>6. DetectAlone'
    BY <1>1, <2>2, <2>5 DEF DetectAlone
  <2>7. OnlyPlainStatuses' /\ BarrierHolds' /\ GoroutineStatus' /\ OneEach' /\ FulfilledAtRest'
        /\ DecisionStatus'
    BY <1>1 DEF PlainInv, OnlyPlainStatuses, BarrierHolds, GoroutineStatus, OneEach,
                FulfilledAtRest, DecisionStatus
  <2>8. SnapshotFresh' /\ BatchSound'
    BY <1>1, <1>3 DEF SnapshotFresh, BatchSound, Batch
  <2>. QED
    BY <2>6, <2>7, <2>8 DEF PlainInv
<1>. QED
  BY <1>2, <1>3 DEF Detect

\* The decision the loop parks is alone, on a step nothing else will touch.
LEMMA DecideInv == ASSUME TypeOK, PlainInv, Decide PROVE PlainInv'
<1> USE DEF graphVars, decVars, loopVars, gorVars, countVars, callVars
<1>1. PICK w \in Step : w = target
  BY DEF Decide, TypeOK
<1>2. /\ UNCHANGED <<steps, released, gor, cause, fulfilling, ready>>
      /\ pc' = "top" /\ pending = {} /\ \A s \in Step : gor[s] = "none"
      /\ Stranded(w) /\ steps[w] = "pending"
  BY <1>1 DEF Decide, PlainInv, BarrierHolds, DetectAlone
<1>3. Deps' = Deps
  BY <1>2 DEF Deps
<1>4. /\ \A d \in pending' : d.step = w /\ d.cause = "upstream"
      /\ \A d, e \in pending' : d = e
  <2>1. \/ pending' = pending
        \/ pending' = pending \cup {[id |-> raised, step |-> w, cause |-> "upstream",
                                    options |-> filterSkipOptions("upstream")]}
    BY <1>1 DEF Decide, addDecision
  <2>2. pending' = {} \/ \E o : pending' = {[id |-> raised, step |-> w, cause |-> "upstream",
                                           options |-> o]}
    BY Zenon, <1>2, <2>1, {} \cup {[id |-> raised, step |-> w, cause |-> "upstream",
         options |-> filterSkipOptions("upstream")]}
         = {[id |-> raised, step |-> w, cause |-> "upstream",
             options |-> filterSkipOptions("upstream")]}
  <2>. QED
    BY <2>2
<1>5. Stranded(w)'
  <2>1. PICK u \in Deps[w] : Dead(u)
    BY <1>2 DEF Stranded
  <2>2. Dead(u)'
    BY <1>2, <1>4, <2>1 DEF Dead
  <2>. QED
    BY <1>2, <1>3, <2>1, <2>2 DEF Stranded
<1>6. OnlyPlainStatuses' /\ BarrierHolds' /\ GoroutineStatus' /\ FulfilledAtRest'
      /\ SnapshotFresh' /\ BatchSound' /\ DetectAlone'
  BY <1>2 DEF PlainInv, OnlyPlainStatuses, BarrierHolds, GoroutineStatus,
              FulfilledAtRest, SnapshotFresh, BatchSound, Batch, DetectAlone
<1>. QED
  BY <1>2, <1>4, <1>5, <1>6 DEF PlainInv, DecisionStatus, OneEach

\* A launched step joins a batch it already belonged to.
LEMMA LaunchInv ==
    ASSUME TypeOK, PlainInv, NEW s \in Step, Launch(s) PROVE PlainInv'
<1> USE DEF graphVars, decVars, loopVars, gorVars, countVars, callVars
<1>1. /\ UNCHANGED <<steps, released, cause, pending, fulfilling, target>>
      /\ pc = "launch" /\ pc' \in {"launch", "barrier"} /\ s \in ready
      /\ ready' = ready \ {s} /\ gor'[s] = "entry"
      /\ \A x \in Step : x # s => gor'[x] = gor[x]
  BY DEF Launch, TypeOK
<1>2. Deps' = Deps /\ \A x \in Step : Deps[x] \in SUBSET Step
  BY <1>1 DEF Deps, StepInput
<1>3. \A d \in pending : d.step \in Step /\ d.step # s
  BY <1>1 DEF TypeOK, Decision, PlainInv, SnapshotFresh
<1>4. steps[s] = "pending"
  BY <1>1 DEF PlainInv, SnapshotFresh
<1>5. \A x \in Step : Dead(x) => Dead(x)'
  BY <1>1, <1>4 DEF Dead
<1>6. \A x \in Step : x # s /\ Stranded(x) => Stranded(x)'
  BY <1>1, <1>2, <1>5 DEF Stranded
<1>7. \A x \in Step : Batch(x)' => Batch(x)
  BY <1>1 DEF Batch
<1>8. BatchSound'
  BY <1>1, <1>2, <1>7 DEF PlainInv, BatchSound
<1>9. DecisionStatus'
  BY <1>1, <1>3, <1>6 DEF PlainInv, DecisionStatus
<1>10. OnlyPlainStatuses' /\ BarrierHolds' /\ OneEach' /\ DetectAlone'
  BY <1>1 DEF PlainInv, OnlyPlainStatuses, BarrierHolds, OneEach, DetectAlone
<1>11. GoroutineStatus'
  BY <1>1 DEF PlainInv, GoroutineStatus
<1>12. FulfilledAtRest' /\ SnapshotFresh'
  <2>1. FulfilledAtRest'
    BY <1>1, <1>4 DEF PlainInv, FulfilledAtRest, TypeOK
  <2>2. ASSUME NEW x \in ready' PROVE x \in ready /\ x # s /\ x \in Step
    BY <1>1, <2>2 DEF TypeOK
  <2>3. SnapshotFresh'
    BY <1>1, <2>2 DEF PlainInv, SnapshotFresh
  <2>. QED
    BY <2>1, <2>3
<1>. QED
  BY <1>8, <1>9, <1>10, <1>11, <1>12 DEF PlainInv

\* Every step of the run loop keeps the invariant.
LEMMA RunInv == ASSUME TypeOK, PlainInv, Run PROVE PlainInv'
<1> USE DEF graphVars, decVars, loopVars, gorVars, countVars, callVars
<1>a. pc \notin {"launch", "barrier", "exit"} => \A s \in Step : gor[s] = "none"
  BY DEF PlainInv, BarrierHolds
<1>1. CASE Snapshot
  BY <1>1, SnapshotInv
<1>2. CASE Detect
  BY <1>2, DetectInv
<1>3. CASE Decide
  BY <1>3, DecideInv
<1>4. CASE \E s \in Step : Launch(s)
  BY <1>4, LaunchInv
<1>5. CASE Cancelled
  BY <1>5, LoopMoveInv DEF Cancelled
<1>6. CASE Empty
  BY <1>6, <1>a, LoopMoveInv DEF Empty
<1>7. CASE Wake
  BY <1>7, <1>a, LoopMoveInv DEF Wake
<1>8. CASE Finalize
  BY <1>8, <1>a, LoopMoveInv DEF Finalize
<1>9. CASE Publish
  BY <1>9, <1>a, LoopMoveInv DEF Publish
<1>10. CASE Check
  BY <1>10, <1>a, LoopMoveInv DEF Check
<1>11. CASE Barrier
  BY <1>11, LoopMoveInv DEF Barrier, Alive
<1>. QED
  BY <1>1, <1>2, <1>3, <1>4, <1>5, <1>6, <1>7, <1>8, <1>9, <1>10, <1>11 DEF Run

\* An answer concerns a step no batch uses.
LEMMA AnswerInv == ASSUME Plain, TypeOK, PlainInv, Answer PROVE PlainInv'
<1> USE DEF graphVars, decVars, loopVars, gorVars, countVars, callVars
<1>1. PICK d \in pending : FulfillStep(d) \/ \E z \in Choice : SubmitDecision(d, z)
  BY DEF Answer
<1> DEFINE w == d.step
<1>2. w \in Step /\ \A e \in pending : e.step \in Step
  BY DEF TypeOK, Decision
<1>3. /\ \A x \in Step : x # w => steps'[x] = steps[x]
      /\ pending' = pending \ {d}
      /\ UNCHANGED <<released, gor, cause, pc, ready, target>>
  BY <1>1, <1>2 DEF FulfillStep, SubmitDecision, TypeOK
<1>4. /\ steps'[w] \in PlainStatus
      /\ \/ UNCHANGED fulfilling
         \/ fulfilling' = fulfilling \cup {w} /\ steps'[w] = "ok" /\ gor[w] = "none"
  <2>1. CASE FulfillStep(d)
    <3>1. steps'[w] = "ok" /\ fulfilling' = fulfilling \cup {w}
      BY <1>2, <2>1 DEF FulfillStep, TypeOK
    <3>2. gor[w] \in {"none", "verify"} /\ "delegation" \in Plan[w].Outcomes
      BY <2>1 DEF FulfillStep, PlainInv, DecisionStatus
    <3>3. gor[w] = "none"
      BY <1>2, <3>2 DEF PlainInv, GoroutineStatus, Plain
    <3>. QED
      BY <3>1, <3>3 DEF PlainStatus
  <2>2. ASSUME NEW z \in Choice, SubmitDecision(d, z)
        PROVE  steps'[w] \in PlainStatus /\ UNCHANGED fulfilling
    BY <1>2, <2>2 DEF SubmitDecision, AnsweredStatus, Plain, PlainStatus, PlainInv,
                      OnlyPlainStatuses, TypeOK
  <2>. QED
    BY <1>1, <2>1, <2>2
<1>5. /\ gor[w] \in {"none", "verify"} /\ steps[w] # "ok"
      /\ \A e \in pending' : e \in pending /\ e.step # w
      /\ pc \notin {"detect", "decide"}
  BY <1>3 DEF PlainInv, DecisionStatus, Stranded, OneEach, DetectAlone
<1> HIDE DEF w
<1>6. Deps' = Deps /\ \A x \in Step : Deps[x] \in SUBSET Step
  BY <1>3 DEF Deps, StepInput
<1>7. \A x \in Step : Dead(x) => Dead(x)'
  BY <1>3, <1>5 DEF Dead, w
<1>8. \A x \in Step : x # w /\ Stranded(x) => Stranded(x)'
  BY <1>3, <1>6, <1>7 DEF Stranded
<1>9. OnlyPlainStatuses'
  BY <1>2, <1>3, <1>4 DEF PlainInv, OnlyPlainStatuses, PlainStatus
<1>10. BarrierHolds' /\ DetectAlone' /\ OneEach'
  BY <1>3, <1>5 DEF PlainInv, BarrierHolds, DetectAlone, OneEach
<1>11. SnapshotFresh'
  <2>1. ASSUME pc \in {"check", "launch"}, NEW x \in ready PROVE x \in Step /\ x # w
    <3>1. x \in Step
      BY <2>1 DEF TypeOK
    <3>2. \A e \in pending : e.step # x
      BY <2>1 DEF PlainInv, SnapshotFresh
    <3>. QED
      BY <3>1, <3>2 DEF w
  <2>2. ASSUME pc \in {"check", "launch"}, NEW x \in ready
        PROVE  steps'[x] = steps[x] /\ gor'[x] = gor[x]
    BY <1>3, <1>5, <2>1, <2>2
  <2>3. \A e \in pending' : e \in pending
    BY <1>5
  <2>4. UNCHANGED <<pc, ready>>
    BY <1>3
  <2>. QED
    BY <2>2, <2>3, <2>4 DEF PlainInv, SnapshotFresh
<1>12. BatchSound'
  BY <1>3, <1>5, <1>6 DEF PlainInv, BatchSound, Batch
<1>13. GoroutineStatus'
  BY <1>2, <1>3, <1>5 DEF PlainInv, GoroutineStatus
<1>14. DecisionStatus'
  BY <1>2, <1>3, <1>5, <1>8 DEF PlainInv, DecisionStatus
<1>15. FulfilledAtRest'
  BY <1>3, <1>4, <1>5 DEF PlainInv, FulfilledAtRest, TypeOK
<1>. QED
  BY <1>9, <1>10, <1>11, <1>12, <1>13, <1>14, <1>15 DEF PlainInv

\* handleStepSuccess after FulfillStep finds the step as FulfillStep left it.
LEMMA FulfillSuccessInv ==
    ASSUME TypeOK, PlainInv, NEW s \in Step, FulfillSuccess(s) PROVE PlainInv'
<1> USE DEF graphVars, decVars, loopVars, gorVars, countVars, callVars
<1>1. /\ UNCHANGED <<steps, released, gor, cause, pending, pc, ready, target>>
      /\ fulfilling' \subseteq fulfilling
  BY DEF FulfillSuccess, PlainInv, FulfilledAtRest, TypeOK
<1>2. Deps' = Deps
  BY <1>1 DEF Deps
<1>3. \A x \in Step : (Dead(x)' <=> Dead(x)) /\ (Batch(x)' <=> Batch(x))
  BY <1>1 DEF Dead, Batch
<1>4. \A x \in Step : Stranded(x)' <=> Stranded(x)
  BY <1>1, <1>2, <1>3 DEF Stranded, Deps, StepInput
<1>5. OnlyPlainStatuses' /\ BarrierHolds' /\ SnapshotFresh' /\ OneEach' /\ FulfilledAtRest'
  BY <1>1 DEF PlainInv, OnlyPlainStatuses, BarrierHolds, SnapshotFresh, OneEach, FulfilledAtRest
<1>6. BatchSound'
  BY <1>1, <1>2, <1>3 DEF PlainInv, BatchSound, Deps, StepInput
<1>7. GoroutineStatus'
  BY <1>1 DEF PlainInv, GoroutineStatus
<1>8. DecisionStatus' /\ DetectAlone'
  BY <1>1, <1>4 DEF PlainInv, DecisionStatus, DetectAlone, TypeOK, Decision
<1>. QED
  BY <1>5, <1>6, <1>7, <1>8 DEF PlainInv

\* The invariant of plain plans is inductive.
THEOREM PlainInvariant == ASSUME Plain PROVE Spec => [](TypeOK /\ PlainInv)
<1>1. Init => TypeOK /\ PlainInv
  <2>1. Init => PlainInv
    BY DEF Init, Plain, PlainInv, OnlyPlainStatuses, BarrierHolds, SnapshotFresh,
           BatchSound, GoroutineStatus, DecisionStatus, OneEach, FulfilledAtRest,
           DetectAlone, Batch
  <2>. QED
    BY <2>1, InitType
<1>2. TypeOK /\ PlainInv /\ [Next]_vars => PlainInv'
  <2> SUFFICES ASSUME TypeOK, PlainInv, [Next]_vars PROVE PlainInv'
    OBVIOUS
  <2>1. CASE Run
    BY <2>1, RunInv
  <2>2. ASSUME NEW s \in Step, executeStep(s) PROVE PlainInv'
    BY <2>2, StepInv
  <2>3. ASSUME NEW s \in Step, FulfillSuccess(s) PROVE PlainInv'
    BY <2>3, FulfillSuccessInv
  <2>4. CASE Answer
    BY <2>4, AnswerInv
  <2>5. CASE UNCHANGED vars
    BY <2>5, StutterInv DEF vars, graphVars, decVars, loopVars, gorVars, countVars,
                            callVars
  <2>. QED
    BY <2>1, <2>2, <2>3, <2>4, <2>5 DEF Next
<1>. QED
  BY <1>1, <1>2, DagTypeOK, PTL DEF Spec

\* ReadySteps' promise outlives the snapshot: on a plain plan a step is launched
\* and executed only on satisfied dependencies.
THEOREM DagStartedOnSatisfied == ASSUME Plain PROVE Spec => []StartedOnSatisfied
<1>1. TypeOK /\ PlainInv => StartedOnSatisfied
  BY DEF PlainInv, BatchSound, Batch, StartedOnSatisfied, Working
<1>. QED
  BY <1>1, PlainInvariant, PTL

\* On a plain plan no step is executed while a decision on it is outstanding,
\* and no step has two.
THEOREM DagEnvelopeHeld == ASSUME Plain PROVE Spec => []EnvelopeHeld
<1>1. TypeOK /\ PlainInv => EnvelopeHeld
  BY DEF PlainInv, DecisionStatus, OneEach, SnapshotFresh, EnvelopeHeld, Working
<1>. QED
  BY <1>1, PlainInvariant, PTL

\* On a plain plan every upstream decision has a failed or blocked dependency
\* behind it for as long as it is parked.
THEOREM DagUpstreamJustified == ASSUME Plain PROVE Spec => []UpstreamJustified
<1>1. TypeOK /\ PlainInv => UpstreamJustified
  BY DEF PlainInv, DecisionStatus, Stranded, Dead, UpstreamJustified
<1>. QED
  BY <1>1, PlainInvariant, PTL

-----------------------------------------------------------------------------
(* Results are kept, and the loop never sleeps over work it could do *)

\* What a goroutine does to its own step and to the others: it blocks pending
\* ones, and leaves its own step running only with a decision or a way to go on.
OwnMoves(s) ==
    /\ \A x \in Step : x # s =>
         /\ gor'[x] = gor[x]
         /\ \/ steps'[x] = steps[x]
            \/ gor[x] = "none" /\ steps[x] = "pending" /\ steps'[x] = "blocked"
    /\ gor'[s] # "entry" /\ gor[s] # "none"
    /\ ctx' = ctx /\ pending \subseteq pending'
    /\ NoPanic /\ ctx = "live" /\ steps'[s] = "running" =>
         \/ gor'[s] \notin {"none", "verify"}
         \/ gor[s] = "verify" /\ steps[s] = "running"
         \/ isTerminalStatus(graph) /\ graph' = graph
         \/ graph' = "failed"
         \/ \E d \in pending' : d.step = s

\* Every step of a goroutine is of that kind.
LEMMA OwnFrame ==
    ASSUME Plain, TypeOK, PlainInv, NEW s \in Step, executeStep(s)
    PROVE  OwnMoves(s)
<1> USE DEF graphVars, decVars, loopVars, gorVars, countVars, callVars, Outcomes,
            Move, Park, OwnMoves
<1>1. CASE CheckBudget(s)
  BY <1>1 DEF CheckBudget, TypeOK
<1>2. CASE MarkRunning(s)
  BY <1>2 DEF MarkRunning, TypeOK
<1>3. CASE Succeed(s)
  BY <1>3 DEF Succeed, TypeOK, AfterOutput
<1>4. CASE Retry(s)
  BY <1>4 DEF Retry, TypeOK
<1>5. CASE Abandon(s)
  BY <1>5 DEF Abandon, TypeOK
<1>6. CASE Panic(s)
  BY <1>6 DEF Panic, TypeOK, NoPanic
<1>7. CASE Fail(s)
  BY <1>7 DEF Fail, TypeOK
<1>8. CASE Block(s)
  BY <1>8 DEF Block, TypeOK
<1>9. CASE AskApproval(s)
  BY <1>9 DEF AskApproval, TypeOK
<1>10. CASE ResourceMissing(s)
  BY <1>10 DEF ResourceMissing, TypeOK
<1>11. CASE Ask(s)
  <2>1. PICK o \in Unhandled(s) : Park(s, "blocked", CauseOf(o))
    BY <1>11 DEF Ask
  <2>2. UNCHANGED <<ctx, pending>>
    BY <1>11 DEF Ask
  <2>3. gor[s] # "none"
    BY <2>1 DEF Unhandled
  <2>4. /\ steps'[s] = "blocked" /\ gor'[s] = "deciding"
        /\ \A x \in Step : x # s => steps'[x] = steps[x] /\ gor'[x] = gor[x]
    BY <2>1 DEF TypeOK
  <2>. QED
    BY <2>2, <2>3, <2>4
<1>12. CASE Verified(s)
  BY <1>12 DEF Verified, TypeOK
<1>13. CASE Refine(s)
  BY <1>13 DEF Refine, TypeOK
<1>14. CASE RefineExhausted(s)
  BY <1>14 DEF RefineExhausted, TypeOK
<1>15. CASE maybeBlock(s)
  <2> DEFINE Cut == {x \in Step : s \in Deps[x] /\ steps[x] = "pending"}
  <2>1. /\ \A x \in Step \ Cut : steps'[x] = steps[x]
        /\ \A x \in Cut : steps[x] = "pending" /\ steps'[x] = "blocked"
        /\ \A x \in Step : x # s => gor'[x] = gor[x]
        /\ gor[s] = "failing" /\ gor'[s] = "deciding"
        /\ UNCHANGED <<ctx, pending>>
    <3>1. /\ steps' = [x \in Step |->
                IF x \in Dependents(s) /\ steps[x] = "pending" THEN "blocked" ELSE steps[x]]
          /\ gor' = [gor EXCEPT ![s] = "deciding"] /\ gor[s] = "failing"
          /\ UNCHANGED <<ctx, pending>>
      BY <1>15, PlainStep DEF maybeBlock
    <3>2. gor \in [Step -> {"none", "entry", "begin", "spawn", "exhausted", "failing",
                            "deciding", "verify"}]
      BY DEF TypeOK
    <3>. QED
      BY <3>1, <3>2 DEF Dependents
  <2>2. \A x \in Cut : gor[x] = "none"
    BY <2>1 DEF PlainInv, BatchSound, Batch
  <2> HIDE DEF Cut
  <2>. QED
    BY <2>1, <2>2
<1>16. CASE StepDecision(s)
  <2>1. /\ UNCHANGED <<steps, ctx>>
        /\ gor[s] = "deciding" /\ gor'[s] # "entry"
        /\ \A x \in Step : x # s => gor'[x] = gor[x]
    BY <1>16 DEF StepDecision, AfterOutput, TypeOK, Plain
  <2>2. \/ graph' = "failed" /\ pending' = pending
        \/ isTerminalStatus(graph) /\ graph' = graph /\ pending' = pending
        \/ pending \subseteq pending' /\ \E d \in pending' : d.step = s
    <3>1. CASE addDecision(s, cause[s]) /\ UNCHANGED graph
      <4>1. CASE isTerminalStatus(graph)
        BY <3>1, <4>1 DEF addDecision
      <4>2. CASE ~isTerminalStatus(graph)
        <5> DEFINE e == [id |-> raised, step |-> s, cause |-> cause[s],
                         options |-> filterSkipOptions(cause[s])]
        <5>1. pending' = pending \cup {e}
          BY <3>1, <4>2 DEF addDecision
        <5>2. e.step = s
          OBVIOUS
        <5> HIDE DEF e
        <5>. QED
          BY <5>1, <5>2
      <4>. QED
        BY <4>1, <4>2
    <3>2. CASE graph' = "failed" /\ UNCHANGED decVars
      BY <3>2
    <3>. QED
      BY <1>16, <3>1, <3>2 DEF StepDecision, Plain
  <2>. QED
    BY <2>1, <2>2
<1>. QED
  BY <1>1, <1>2, <1>3, <1>4, <1>5, <1>6, <1>7, <1>8, <1>9, <1>10, <1>11, <1>12, <1>13, <1>14, <1>15, <1>16, PlainStep DEF executeStep

\* A step that was answered is not done, and its goroutine is past the model call.
LEMMA AnswerFrame ==
    ASSUME Plain, TypeOK, PlainInv, Answer
    PROVE  \E d \in pending :
              /\ d.step \in Step /\ steps[d.step] # "ok"
              /\ gor[d.step] \in {"none", "verify"} /\ UNCHANGED gor
              /\ pending' = pending \ {d}
              /\ \A x \in Step : x # d.step => steps'[x] = steps[x]
              /\ steps'[d.step] # "running" \/ graph' = "failed"
              /\ graph' \in {graph, "failed"} /\ (ctx' = "live" => ctx = "live")
<1> USE DEF graphVars, decVars, loopVars, gorVars, countVars, callVars
<1>1. PICK d \in pending : FulfillStep(d) \/ \E z \in Choice : SubmitDecision(d, z)
  BY DEF Answer
<1>2. d.step \in Step
  BY DEF TypeOK, Decision
<1>3. steps[d.step] # "ok" /\ gor[d.step] \in {"none", "verify"}
  BY DEF PlainInv, DecisionStatus, Stranded
<1>4. CASE FulfillStep(d)
  BY <1>2, <1>3, <1>4 DEF FulfillStep, TypeOK
<1>5. ASSUME NEW z \in Choice, SubmitDecision(d, z)
      PROVE  /\ UNCHANGED gor /\ pending' = pending \ {d}
             /\ \A x \in Step : x # d.step => steps'[x] = steps[x]
             /\ steps'[d.step] # "running" \/ graph' = "failed"
             /\ graph' \in {graph, "failed"} /\ (ctx' = "live" => ctx = "live")
  <2>1. z \in Requeue \cup {"abort", "confirm_abort", "reject"}
    BY <1>5 DEF SubmitDecision, Plain, Handled
  <2>2. steps'[d.step] = AnsweredStatus(z, steps[d.step])
    BY <1>2, <1>5 DEF SubmitDecision, TypeOK
  <2>3. steps'[d.step] # "running" \/ z \in {"abort", "confirm_abort"}
    BY <2>1, <2>2 DEF AnsweredStatus, Requeue
  <2>. QED
    BY <1>2, <1>5, <2>3 DEF SubmitDecision, TypeOK
<1>. QED
  BY <1>1, <1>2, <1>3, <1>4, <1>5

\* On a plain plan a goroutine that has not begun finds its step pending.
THEOREM EntryInvariant == ASSUME Plain PROVE Spec => []EntryPending
<1> USE DEF graphVars, decVars, loopVars, gorVars, countVars, callVars
<1>1. Init => EntryPending
  BY DEF Init, EntryPending
<1>2. TypeOK /\ PlainInv /\ EntryPending /\ [Next]_vars => EntryPending'
  <2> SUFFICES ASSUME TypeOK, PlainInv, EntryPending, [Next]_vars PROVE EntryPending'
    OBVIOUS
  <2>1. ASSUME NEW s \in Step, executeStep(s) PROVE EntryPending'
    <3>1. \A x \in Step : gor'[x] = "entry" => gor[x] = "entry" /\ steps'[x] = steps[x]
      <4>1. OwnMoves(s)
        BY <2>1, OwnFrame
      <4>. QED
        BY <4>1 DEF OwnMoves
    <3>. QED
      BY <3>1 DEF EntryPending
  <2>2. ASSUME NEW s \in Step, FulfillSuccess(s) PROVE EntryPending'
    BY <2>2 DEF FulfillSuccess, PlainInv, FulfilledAtRest, EntryPending, TypeOK
  <2>3. CASE Answer
    BY <2>3, AnswerFrame DEF EntryPending
  <2>4. CASE Run
    <3>1. ASSUME NEW s \in Step, Launch(s) PROVE EntryPending'
      BY <3>1 DEF Launch, PlainInv, SnapshotFresh, EntryPending, TypeOK
    <3>2. CASE Snapshot \/ Cancelled \/ Empty \/ Wake \/ Detect \/ Decide
      BY <3>2 DEF Snapshot, Cancelled, Empty, Wake, Detect, Decide, EntryPending
    <3>3. CASE Finalize \/ Publish \/ Check \/ Barrier
      BY <3>3 DEF Finalize, Publish, Check, Barrier, EntryPending
    <3>. QED
      BY <2>4, <3>1, <3>2, <3>3 DEF Run
  <2>5. CASE UNCHANGED vars
    BY <2>5 DEF vars, EntryPending
  <2>. QED
    BY <2>1, <2>2, <2>3, <2>4, <2>5 DEF Next
<1>. QED
  BY <1>1, <1>2, PlainInvariant, PTL DEF Spec

\* On a plain plan the result of a step is kept: no goroutine, answer or late
\* handleStepSuccess takes back an "ok" but the step's own exit criteria.
THEOREM DagResultsKept == ASSUME Plain PROVE Spec => ResultsKept
<1> USE DEF graphVars, decVars, loopVars, gorVars, countVars, callVars
<1> DEFINE Kept == \A s \in Step : steps[s] = "ok" /\ gor[s] # "verify" => steps'[s] = "ok"
<1>1. TypeOK /\ PlainInv /\ EntryPending /\ [Next]_vars => [Kept]_vars
  <2> SUFFICES ASSUME TypeOK, PlainInv, EntryPending, Next PROVE Kept
    OBVIOUS
  <2>1. ASSUME NEW s \in Step, executeStep(s) PROVE Kept
    <3>0. OwnMoves(s)
      BY <2>1, OwnFrame
    <3>1. gor[s] # "none" /\ gor[s] \in {"none", "entry", "begin", "spawn", "exhausted",
                                        "failing", "deciding", "verify"}
      BY <3>0 DEF TypeOK, OwnMoves
    <3>2. gor[s] # "verify" => steps[s] # "ok"
      BY <3>1 DEF EntryPending, PlainInv, GoroutineStatus
    <3>3. \A x \in Step : x # s => steps'[x] = steps[x] \/ steps[x] = "pending"
      BY <3>0 DEF OwnMoves
    <3>. QED
      BY <3>2, <3>3
  <2>2. ASSUME NEW s \in Step, FulfillSuccess(s) PROVE Kept
    BY <2>2 DEF FulfillSuccess, TypeOK
  <2>3. CASE Answer
    BY <2>3, AnswerFrame
  <2>4. CASE Run
    <3>1. CASE Snapshot \/ Cancelled \/ Empty \/ Wake \/ Detect \/ Decide
      BY <3>1 DEF Snapshot, Cancelled, Empty, Wake, Detect, Decide
    <3>2. CASE Finalize \/ Publish \/ Check \/ Barrier \/ \E s \in Step : Launch(s)
      BY <3>2 DEF Finalize, Publish, Check, Barrier, Launch
    <3>. QED
      BY <2>4, <3>1, <3>2 DEF Run
  <2>. QED
    BY <2>1, <2>2, <2>3, <2>4 DEF Next
<1>. QED
  BY <1>1, PlainInvariant, EntryInvariant, PTL DEF Spec, ResultsKept

\* A running step belongs to somebody, when no model call panics and no role or
\* skill is missing.
THEOREM RunningInvariant ==
    ASSUME Plain, Resourced, NoPanic PROVE Spec => []RunningOwned
<1> USE DEF graphVars, decVars, loopVars, gorVars, countVars, callVars
<1>1. Init => RunningOwned
  BY DEF Init, RunningOwned
<1>2. TypeOK /\ PlainInv /\ CompletionInv /\ StableInv /\ RunningOwned /\ [Next]_vars
         => RunningOwned'
  <2> SUFFICES ASSUME TypeOK, PlainInv, CompletionInv, StableInv, RunningOwned, [Next]_vars,
                      (ctx = "live" /\ graph # "failed")',
                      NEW x \in Step, steps'[x] = "running"
               PROVE  gor'[x] \notin {"none", "verify"} \/ \E d \in pending' : d.step = x
    BY DEF RunningOwned
  <2>1. ASSUME NEW s \in Step, executeStep(s)
        PROVE  gor'[x] \notin {"none", "verify"} \/ \E d \in pending' : d.step = x
    <3>0. OwnMoves(s)
      BY <2>1, OwnFrame
    <3>1. ctx = "live" /\ pending \subseteq pending'
      BY <3>0 DEF OwnMoves
    <3>2. graph' \in {graph, "failed"} /\ graph # "failed"
      BY <2>1, StepFrame
    <3>3. ~isTerminalStatus(graph)
      BY <2>1, StepFrame DEF CompletionInv, StableInv, isTerminalStatus, Done
    <3>4. CASE x = s
      <4>1. \/ gor'[s] \notin {"none", "verify"}
            \/ gor[s] = "verify" /\ steps[s] = "running"
            \/ \E d \in pending' : d.step = s
        BY <3>0, <3>1, <3>2, <3>3, <3>4 DEF OwnMoves
      <4>2. gor[s] = "verify" /\ steps[s] = "running" => \E d \in pending : d.step = s
        BY <3>1, <3>2 DEF RunningOwned
      <4>. QED
        BY <3>1, <3>4, <4>1, <4>2
    <3>5. CASE x # s
      <4>1. gor'[x] = gor[x] /\ steps[x] = "running"
        BY <3>0, <3>5 DEF OwnMoves
      <4>2. gor[x] \notin {"none", "verify"} \/ \E d \in pending : d.step = x
        BY <3>1, <3>2, <4>1 DEF RunningOwned
      <4>. QED
        BY <3>1, <4>1, <4>2
    <3>. QED
      BY <3>4, <3>5
  <2>2. ASSUME NEW s \in Step, FulfillSuccess(s)
        PROVE  gor'[x] \notin {"none", "verify"} \/ \E d \in pending' : d.step = x
    BY <2>2 DEF FulfillSuccess, RunningOwned, TypeOK
  <2>3. CASE Answer
    <3>1. PICK d \in pending :
              /\ UNCHANGED gor /\ pending' = pending \ {d}
              /\ \A y \in Step : y # d.step => steps'[y] = steps[y]
              /\ steps'[d.step] # "running"
              /\ graph # "failed" /\ ctx = "live"
      BY <2>3, AnswerFrame
    <3>. QED
      BY <3>1 DEF RunningOwned
  <2>4. CASE Run
    <3>1. ASSUME NEW s \in Step, Launch(s)
          PROVE  gor'[x] \notin {"none", "verify"} \/ \E d \in pending' : d.step = x
      BY <3>1 DEF Launch, RunningOwned, TypeOK
    <3>2. CASE Snapshot \/ Cancelled \/ Empty \/ Wake \/ Detect \/ Finalize
      BY <3>2 DEF Snapshot, Cancelled, Empty, Wake, Detect, Finalize, RunningOwned
    <3>3. CASE Decide
      BY <3>3 DEF Decide, addDecision, RunningOwned
    <3>4. CASE Publish
      BY <3>4 DEF Publish, StableInv, RunningOwned
    <3>5. CASE Check \/ Barrier
      BY <3>5 DEF Check, Barrier, RunningOwned
    <3>. QED
      BY <2>4, <3>1, <3>2, <3>3, <3>4, <3>5 DEF Run
  <2>5. CASE UNCHANGED vars
    BY <2>5 DEF vars, RunningOwned
  <2>. QED
    BY <2>1, <2>2, <2>3, <2>4, <2>5 DEF Next
<1>. QED
  BY <1>1, <1>2, PlainInvariant, CompletionInvariant, StableInvariant, PTL DEF Spec

\* The loop never sleeps over work: on a plain acyclic plan of any size and
\* shape, a running graph at rest has a decision to answer, a step to launch, a
\* step to ask about, or nothing left to do.
THEOREM DagNeverStuck ==
    ASSUME Plain, Resourced, NoPanic, Acyclic PROVE Spec => []NeverStuck
<1>1. TypeOK /\ PlainInv /\ RunningOwned => NeverStuck
  <2> SUFFICES ASSUME TypeOK, PlainInv, RunningOwned, pc = "wait", graph = "running",
                      ctx = "live", pending = {}, ~IsTerminal(steps)
               PROVE  ReadySteps(steps, Deps) # {} \/ Insufficient(steps, Deps) # {}
    BY DEF NeverStuck
  <2>1. \A s \in Step : steps[s] \in {"pending", "ok", "failed", "blocked"}
    BY DEF PlainInv, BarrierHolds, OnlyPlainStatuses, RunningOwned
  <2>2. PICK w \in Step : steps[w] = "pending"
    BY <2>1 DEF IsTerminal, Present, StepIsTerminal, TypeOK
  <2>3. PICK rank \in [Step -> Nat] :
            \A s \in Step : \A x \in Plan[s].DependsOn : rank[x] < rank[s]
    BY DEF Acyclic
  <2> DEFINE P == {y \in Step : steps[y] = "pending"}
  <2>4. P \in SUBSET Step /\ w \in P
    BY <2>2
  <2>5. PICK s \in P : \A x \in P : ~(rank[x] < rank[s])
    BY <2>4, LeastStep
  <2>6. s \in Step /\ steps[s] = "pending"
    OBVIOUS
  <2>7. \A x \in Step : steps[x] = "pending" => ~(rank[x] < rank[s])
    BY <2>5
  <2> HIDE DEF P
  <2>8. Deps[s] \subseteq Plan[s].DependsOn /\ Plan[s].DependsOn \subseteq Step
    BY <2>6 DEF Deps, StepInput
  <2>9. ASSUME NEW x \in Deps[s] PROVE x \in Step /\ steps[x] # "pending"
    <3>1. x \in Step /\ rank[x] < rank[s]
      BY <2>3, <2>6, <2>8
    <3>. QED
      BY <2>7, <3>1
  <2>10. \A x \in Deps[s] : steps[x] \in {"ok", "failed", "blocked"}
    BY <2>1, <2>9
  <2>11. CASE \A x \in Deps[s] : steps[x] = "ok"
    BY <2>6, <2>11 DEF ReadySteps, depsSatisfiedFor, Satisfies, TypeOK
  <2>12. CASE \E x \in Deps[s] : steps[x] # "ok"
    BY <2>6, <2>10, <2>12 DEF Insufficient, StepIsTerminal, TypeOK
  <2>. QED
    BY <2>11, <2>12
<1>. QED
  BY <1>1, PlainInvariant, RunningInvariant, PTL
=============================================================================
