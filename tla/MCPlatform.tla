----------------------------- MODULE MCPlatform -----------------------------
(***************************************************************************)
(* Instances of the modules around the scheduler: submission, verdicts,    *)
(* records, observers, schedules, start and stop, configuration and logs.  *)
(* `part` is chosen initially from Parts and says which part runs; the parts *)
(* do not share state here (the modules that compose two of them do that   *)
(* themselves), so they take turns using the same variables: x1 is the first *)
(* variable of whichever module runs, and what it does not need stays 0.   *)
(***************************************************************************)
EXTENDS Integers, Sequences

CONSTANT Parts

VARIABLES part,
          x1, x2, x3, x4, x5, x6, x7, x8, x9, x10, x11, x12, x13, x14, x15, x16,
          x17, x18, x19

Rest19 == <<x19>>
Rest16 == <<x16, x17, x18, Rest19>>
Rest15 == <<x15, Rest16>>
Rest13 == <<x13, x14, Rest15>>
Rest11 == <<x11, x12, Rest13>>
vars == <<part, x1, x2, x3, x4, x5, x6, x7, x8, x9, x10, Rest11>>

Off19 == x19 = 0
Off16 == x16 = 0 /\ x17 = 0 /\ x18 = 0 /\ Off19
Off15 == x15 = 0 /\ Off16
Off13 == x13 = 0 /\ x14 = 0 /\ Off15
Off11 == x11 = 0 /\ x12 = 0 /\ Off13

-----------------------------------------------------------------------------
(* The instances. *)

\* A calendar of two minutes, two hours, two days, one month and three weekdays.
Fields == <<<<0, 1>>, <<0, 1>>, <<1, 2>>, <<1, 1>>, <<0, 2>>>>

\* Schedules of each kind: once, at an interval, and by fields of a cron expression.
Every == [kind |-> "star", lo |-> 0, hi |-> 0, step |-> 1]
Field(a, b) == <<[kind |-> "range", lo |-> a, hi |-> b, step |-> 1]>>
Always == <<<<Every>>, <<Every>>, <<Every>>, <<Every>>, <<Every>>>>
Defined(kind, runAt, every, expr, max) ==
  [kind |-> kind, runAt |-> runAt, every |-> every, expr |-> expr, max |-> max]
Definitions ==
  {Defined("once", 1, 0, Always, 0), Defined("interval", 0, 2, Always, 1),
   Defined("cron", 0, 0, [Always EXCEPT ![1] = Field(1, 1)], 2),
   Defined("cron", 0, 0, [Always EXCEPT ![3] = Field(2, 2), ![5] = Field(1, 2)], 0)}

Sr == INSTANCE SmartRoute WITH
        MaxRefine <- 1, MaxRestarts <- 1, MaxControls <- 2,
        criteria <- x1, graph <- x2, manifest <- x3, recent <- x4, done <- x5,
        ctx <- x6, fast <- x7, loop <- x8, fulfil <- x9, saving <- x10,
        events <- x11, controls <- x12, restarts <- x13, retried <- x14,
        doubled <- x15

Sb == INSTANCE Submission WITH
        PlanId <- {"p1", "p2", "s1"}, First <- "s1", Rest <- "s2",
        Chain <- <<"c1", "c2">>, plannerParseAttempts <- 2, MaxFulfils <- 2,
        MaxReloads <- 1,
        cfg <- x1, call <- x2, graph <- x3, executor <- x4, fulfils <- x5,
        reloads <- x6, flipped <- x7, order <- x8, approved <- x9, refused <- x10

\* Two operations on two tasks, and ...
Rc == INSTANCE TaskRecords WITH
        Dir <- <<"t1", "t2">>, MaxCompleted <- 0, MaxOps <- 2, MaxFaults <- 0,
        swarm <- x1, graph <- x2, drive <- x3, busy <- x4, manifest <- x5,
        row <- x6, order <- x7, result <- x8, recent <- x9, deliver <- x10,
        fork <- x11, ops <- x12, faults <- x13, ended <- x14, cleared <- x15,
        unsaved <- x16, skipped <- x17, half <- x18

\* ... one that meets a failing database.
Rf == INSTANCE TaskRecords WITH
        Dir <- <<"t1", "t2">>, MaxCompleted <- 0, MaxOps <- 1, MaxFaults <- 1,
        swarm <- x1, graph <- x2, drive <- x3, busy <- x4, manifest <- x5,
        row <- x6, order <- x7, result <- x8, recent <- x9, deliver <- x10,
        fork <- x11, ops <- x12, faults <- x13, ended <- x14, cleared <- x15,
        unsaved <- x16, skipped <- x17, half <- x18

Ob == INSTANCE Observers WITH
        Step <- {"a", "b"}, Watcher <- {"gate", "quality", "acp"},
        PerTaskTokens <- 1, MaxTries <- 1, MaxSubs <- 3, MaxLoops <- 1,
        MaxResumes <- 1,
        task <- x1, step <- x2, tries <- x3, subs <- x4, slot <- x5, pub <- x6,
        usage <- x7, suspended <- x8, window <- x9, told <- x10, spent <- x11,
        loops <- x12, resumes <- x13, unheard <- x14

Sc == INSTANCE Schedules WITH
        Instance <- {"i1", "i2"}, Backend <- "file", FieldRange <- Fields,
        Horizon <- 12, Day <- 3, Hour <- 1, RecoverAfter <- 1, MaxClock <- 3,
        MaxOps <- 1, MaxCrashes <- 1,
        clock <- x1, def <- x2, row <- x3, saved <- x4, wrote <- x5, behind <- x6,
        locks <- x7, work <- x8, mon <- x9, stop <- x10, fired <- x11, twice <- x12,
        ops <- x13, crashes <- x14

Lc == INSTANCE Lifecycle WITH
        Task <- {"t1"}, MaxVersion <- 2, Modes <- {"exec", "stdio", "sse", "acp"},
        MaxRuns <- 2,
        mode <- x1, phase <- x2, at <- x3, defers <- x4, hasDB <- x5, open <- x6,
        ctxs <- x7, loop <- x8, executor <- x9, step <- x10, save <- x11,
        child <- x12, disk <- x13, role <- x14, pin <- x15, uses <- x16,
        runs <- x17, late <- x18, outlived <- x19

Co == INSTANCE ConfigStore WITH
        Committer <- {"c1", "c2"}, MaxOps <- 3, SectionOps <- {2}, MaxCrashes <- 1,
        walMode <- x1, mem <- x2, main <- x3, sect <- x4, bak <- x5, wal <- x6,
        stale <- x7, due <- x8, compactor <- x9, commit <- x10, force <- x11,
        acked <- x12, nextOp <- x13, crashes <- x14, disturbed <- x15

El == INSTANCE EventLog WITH
        ChanCap <- 2, SubCap <- 1, MaxSize <- 0, MaxEvents <- 4, MaxTicks <- 1,
        MaxFaults <- 1,
        next <- x1, chan <- x2, closed <- x3, file <- x4, size <- x5, rotated <- x6,
        gz <- x7, clock <- x8, sub <- x9, faults <- x10, lost <- x11, clashed <- x12

-----------------------------------------------------------------------------
Init ==
  /\ part \in Parts
  /\ \/ part = "route"      /\ Sr!Init /\ Off16
     \/ part = "submission" /\ Sb!Init /\ Off11
     \/ part = "records"    /\ Rc!Init /\ Off19
     \/ part = "faulty"     /\ Rf!Init /\ Off19
     \/ part = "observers"  /\ Ob!Init /\ Off15
     \/ part = "schedules"  /\ Sc!Init /\ Off15
     \/ part = "lifecycle"  /\ Lc!Init
     \/ part = "config"     /\ Co!Init /\ Off16
     \/ part = "log"        /\ El!Init /\ Off13

Next ==
  \/ part = "route"      /\ Sr!Next /\ UNCHANGED <<part, Rest16>>
  \/ part = "submission" /\ Sb!Next /\ UNCHANGED <<part, Rest11>>
  \/ part = "records"    /\ Rc!Next /\ UNCHANGED <<part, Rest19>>
  \/ part = "faulty"     /\ Rf!Next /\ UNCHANGED <<part, Rest19>>
  \/ part = "observers"  /\ Ob!Next /\ UNCHANGED <<part, Rest15>>
  \/ part = "schedules"  /\ Sc!Next /\ UNCHANGED <<part, Rest15>>
  \/ part = "lifecycle"  /\ Lc!Next /\ UNCHANGED <<part>>
  \/ part = "config"     /\ Co!Next /\ UNCHANGED <<part, Rest16>>
  \/ part = "log"        /\ El!Next /\ UNCHANGED <<part, Rest13>>

\* The goroutines of each part; what people, models and the operating system do need
\* not happen.
First ==
  \/ part = "route"      /\ Sr!FastPath /\ UNCHANGED <<part, Rest16>>
  \/ part = "submission" /\ Sb!StartExecutor /\ UNCHANGED <<part, Rest11>>
  \/ part = "records"    /\ Rc!Engine("t1") /\ UNCHANGED <<part, Rest19>>
  \/ part = "observers"  /\ Ob!Deliver("a") /\ UNCHANGED <<part, Rest15>>
  \/ part = "schedules"  /\ Sc!Steps("i1") /\ UNCHANGED <<part, Rest15>>
  \/ part = "lifecycle"  /\ Lc!Work /\ UNCHANGED <<part>>
  \/ part = "log"        /\ El!Writer /\ UNCHANGED <<part, Rest13>>
Second ==
  \/ part = "route"      /\ Sr!RunLoop /\ UNCHANGED <<part, Rest16>>
  \/ part = "submission" /\ (\E s \in Sb!Ids : Sb!Launch(s)) /\ UNCHANGED <<part, Rest11>>
  \/ part = "records"    /\ Rc!Engine("t2") /\ UNCHANGED <<part, Rest19>>
  \/ part = "observers"  /\ Ob!Deliver("b") /\ UNCHANGED <<part, Rest15>>
  \/ part = "schedules"  /\ Sc!Steps("i2") /\ UNCHANGED <<part, Rest15>>
  \/ part = "lifecycle"  /\ Lc!Shutdown /\ UNCHANGED <<part>>
  \/ part = "log"        /\ El!Compress /\ UNCHANGED <<part, Rest13>>
Third ==
  \/ part = "route"      /\ Sr!SaveLater /\ UNCHANGED <<part, Rest16>>
  \/ part = "submission" /\ (\E s \in Sb!Ids : Sb!Finish(s)) /\ UNCHANGED <<part, Rest11>>
  \/ part = "records"    /\ Rc!ForkStart /\ UNCHANGED <<part, Rest19>>
  \/ part = "observers"  /\ Ob!Deliver("engine") /\ UNCHANGED <<part, Rest15>>
  \/ part = "log"        /\ El!CloseReturns /\ UNCHANGED <<part, Rest13>>

Spec == Init /\ [][Next]_vars /\ WF_vars(First) /\ WF_vars(Second) /\ WF_vars(Third)

-----------------------------------------------------------------------------
(* Properties. Each is stated, with its reason, in the module it comes from. *)

\* The types of the parts' state.
TypeOK ==
  /\ part = "route" => Sr!TypeOK
  /\ part = "submission" => Sb!TypeOK
  /\ part = "records" => Rc!TypeOK
  /\ part = "faulty" => Rf!TypeOK
  /\ part = "observers" => Ob!TypeOK
  /\ part = "schedules" => Sc!TypeOK
  /\ part = "lifecycle" => Lc!TypeOK
  /\ part = "config" => Co!TypeOK
  /\ part = "log" => El!TypeOK

\* A success that is reported was earned and stays what it is: one verdict per task, plans
\* held until reviewed, roles credited and budgets enforced as spent, and the same answer
\* to every way of asking.
VerdictEarned ==
  /\ part = "route" => Sr!VerdictOnce /\ Sr!HonestUnlessRetried
  /\ part = "submission" => Sb!ReviewHeld /\ Sb!CoversRequest
  /\ part = "records" => Rc!EndedStaysEnded /\ Rc!AnswersAgree
  /\ part = "faulty" => Rf!EndedStaysEnded /\ Rf!AnswersAgree
  /\ part = "observers" => Ob!RoleSuccessEarned /\ Ob!OverBudgetStopped

\* What was recorded is found again: committed configuration, log lines and the
\* results of tasks that still need them.
RecordKept ==
  /\ part = "config" => Co!DurableOnce
  /\ part = "log" => El!LinesKept /\ El!ClosedIsWritten
  /\ part = "records" => Rc!LiveResultsKept
  /\ part = "faulty" => Rf!LiveResultsKept

\* Whatever runs concurrently keeps its order: schedules fire once per window, a graph
\* has its executor, stores close after their users, interrupted tasks are resumed,
\* subscribers are exactly the living ones.
RunsOrderly ==
  /\ part = "schedules" => Sc!OncePerWindow
  /\ part = "submission" => Sb!Driven
  /\ part = "lifecycle" => Lc!ClosedAfterUse /\ Lc!InterruptedResumed
  /\ part = "observers" => Ob!SubscribedExactly /\ Ob!OverWhenTold

\* The statuses of a smart-routed task that a caller can see implement TaskLifecycle
\* (SmartRoute!FollowsLifecycle); a behaviour of another part is a task never submitted.
Task == INSTANCE TaskLifecycle WITH
          seen <- IF part = "route" THEN Sr!View(x2) ELSE "absent",
          saved <- IF part = "route" THEN Sr!View(x3) ELSE "absent",
          doubled <- IF part = "route" THEN x15 ELSE FALSE
FollowsLifecycle == Task!Spec

\* What begins comes to an end: waiters are woken, accepted plans run, ends reach the
\* task table, deliveries, stops and shutdowns return.
Owed(n) ==
  \/ part = "route" /\ n = 1 /\ Sr!Spawned
  \/ part = "submission" /\ n = 1 /\ Sb!Accepted
  \/ part = "records" /\ Rc!HasEnded(<<"t1", "t2">>[n])
  \/ part = "observers" /\ Ob!Delivering(<<"a", "engine">>[n])
  \/ part = "schedules" /\ Sc!Stopping(<<"i1", "i2">>[n])
  \/ part = "lifecycle" /\ n = 1 /\ Lc!Unwinding
  \/ part = "log" /\ n = 1 /\ El!Closing
Paid(n) ==
  \/ part = "route" /\ Sr!Woken
  \/ part = "submission" /\ Sb!AllRan
  \/ part = "records" /\ Rc!EndKnown(<<"t1", "t2">>[n])
  \/ part \notin {"route", "submission", "records"} /\ ~Owed(n)
Ends == (Owed(1) ~> Paid(1)) /\ (Owed(2) ~> Paid(2))
=============================================================================
