----------------------------- MODULE Observers -----------------------------
(***************************************************************************)
(* The event bus (core/obs/event_bus.go) and those who listen to it while  *)
(* a task runs: the budget gate (core/budget_gate.go), the quality tracker *)
(* (core/quality_tracker.go) and the ACP session that tells a client how   *)
(* its task ended (transport_acp.go).                                      *)
(*                                                                         *)
(* Publish copies the list of handlers under the lock and then calls them  *)
(* one after the other in the publisher's own goroutine, so a publication  *)
(* is a process of its own: pub[p] holds the handlers that p has still to  *)
(* call.  The publishers are the goroutines of the steps and the engine's  *)
(* finalizer.  Three places of the program publish on behalf of a step:    *)
(* the log interceptor when a spawn returns, the engine when it accepts    *)
(* the output, and the loop guardian when it stops a call.                 *)
(***************************************************************************)
EXTENDS Integers, Sequences, FiniteSets

CONSTANTS Step,           \* steps of the task; each has its own role
          Watcher,        \* those who subscribe: "gate", "quality", "acp"
          PerTaskTokens,  \* budget of the task, in completions
          MaxTries,       \* spawns of one step (bound)
          MaxSubs,        \* length of the list of handlers (bound): it only
                          \* shrinks when nobody is subscribed
          MaxLoops,       \* calls the guardian stops (bound)
          MaxResumes      \* times a person resumes the task (bound)

VARIABLES task,       \* status of the graph
          step,       \* what each step's goroutine is doing
          tries,      \* spawns of each step so far
          subs,       \* handlers of the bus; Gone is a tombstone
          slot,       \* index captured by each subscriber's unsubscribe
          pub,        \* publications under way
          usage,      \* tokens the gate has counted for the task
          suspended,  \* the gate's note that it has suspended the task
          window,     \* samples of the tracker, as key and outcome: the key is a
                      \* role, "global" or "task"
          told,       \* what the ACP client has been told of the task's end
          spent,      \* tokens the task's completions really used
          loops,      \* calls stopped by the guardian
          resumes,    \* times the task was resumed
          unheard     \* a publication missed the gate

vars == <<task, step, tries, subs, slot, pub, usage, suspended, window, told,
          spent, loops, resumes, unheard>>

Gone == "gone"
Engine == "engine"
Publisher == Step \cup {Engine}
Key == Step \cup {"global", "task"}
Terminal == {"completed", "failed"}

Event(type, tokens, key) == [type |-> type, tokens |-> tokens, key |-> key]
Idle == [ev |-> Event("none", 0, "global"), todo |-> <<>>, at |-> "idle"]

----------------------------------------------------------------------------
(* The bus.                                                                *)

\* The handlers that a publication calls: a copy of the list, without the
\* tombstones.
Handlers == SelectSeq(subs, LAMBDA h : h # Gone)

Publish(p, ev) ==
    /\ pub[p].at = "idle"
    /\ pub' = [pub EXCEPT ![p] = IF Handlers = <<>> THEN Idle
                                 ELSE [ev |-> ev, todo |-> Handlers, at |-> "next"]]
    /\ unheard' = (unheard \/ slot["gate"] = 0)

SubscribeWithCancel(w) ==
    /\ slot[w] = 0
    /\ Len(subs) < MaxSubs
    /\ subs' = Append(subs, w)
    /\ slot' = [slot EXCEPT ![w] = Len(subs) + 1]
    /\ UNCHANGED <<task, step, tries, pub, usage, suspended, window, told, spent,
                   loops, resumes, unheard>>

\* A bug: the list is compacted, though the other subscribers captured their
\* indices.
Shifted(list) == SelectSeq(list, LAMBDA h : h # Gone)

\* The list after a tombstone was placed: reset once only tombstones are left.
Tombstoned(list) ==
    IF \A i \in DOMAIN list : list[i] = Gone THEN <<>> ELSE list

\* The unsubscribe function; it runs once.
Unsubscribe(w) ==
    /\ slot[w] # 0
    /\ subs' = Tombstoned([i \in DOMAIN subs |-> IF i = slot[w] THEN Gone ELSE subs[i]])
    /\ slot' = [slot EXCEPT ![w] = 0]
    /\ UNCHANGED <<task, step, tries, pub, usage, suspended, window, told, spent,
                   loops, resumes, unheard>>

\* The program stops: the gate and the tracker are unwired, for good.
Unwire ==
    /\ slot["gate"] # 0
    /\ subs' = Tombstoned([i \in DOMAIN subs |->
                              IF i \in {slot["gate"], slot["quality"]} THEN Gone
                              ELSE subs[i]])
    /\ slot' = [slot EXCEPT !["gate"] = 0, !["quality"] = 0]
    /\ UNCHANGED <<task, step, tries, pub, usage, suspended, window, told, spent,
                   loops, resumes, unheard>>

----------------------------------------------------------------------------
(* The handlers, in the publisher's goroutine.                             *)

Next1(p) == IF Len(pub[p].todo) = 1 THEN Idle
            ELSE [pub[p] EXCEPT !.todo = Tail(@), !.at = "next"]

Calls(p, w) == pub[p].at = "next" /\ Head(pub[p].todo) = w

\* A bug: the limit itself is taken for exhausted only one token later.
LateThreshold(n) == n > PerTaskTokens + 1

checkThreshold(n) == n > PerTaskTokens

\* OnStepCompleted: count the tokens, and read under the same lock whether
\* the task was suspended already.  An event without tokens ends there.
GateCounts(p) ==
    /\ Calls(p, "gate")
    /\ pub[p].ev.type \in {"step_completed", "step_failed"}
    /\ LET n    == usage + pub[p].ev.tokens
           over == /\ pub[p].ev.tokens > 0
                   /\ pub[p].ev.type = "step_completed"
                   /\ ~suspended
                   /\ checkThreshold(n)
       IN  /\ usage' = IF pub[p].ev.type = "step_completed" THEN n ELSE usage
           /\ pub' = [pub EXCEPT ![p] = IF over THEN [@ EXCEPT !.at = "suspend"]
                                        ELSE Next1(p)]
    /\ UNCHANGED <<task, step, tries, subs, slot, suspended, window, told, spent,
                   loops, resumes, unheard>>

\* SuspendTask: refused unless the task is running, else its context is
\* cancelled and the call waits for the steps to drain.
SuspendTask(p) ==
    /\ pub[p].at = "suspend"
    /\ IF task = "running"
       THEN /\ task' = "suspended"
            /\ pub' = [pub EXCEPT ![p].at = "drain"]
       ELSE /\ pub' = [pub EXCEPT ![p] = Next1(p)]
            /\ UNCHANGED task
    /\ UNCHANGED <<step, tries, subs, slot, usage, suspended, window, told, spent,
                   loops, resumes, unheard>>

\* A bug: the wait has no time-out.
WaitsForAll == \A s \in Step : step[s] \in {"pending", "ok"} /\ pub[s].at = "idle"

\* waitStepDrain returns when every step has ended or after five seconds,
\* that is, at any time.  The goroutine that waits is itself one of those the
\* wait is for, so it is the time-out that ends it.
waitStepDrain == TRUE

GateMarks(p) ==
    /\ pub[p].at = "drain"
    /\ waitStepDrain
    /\ suspended' = TRUE
    /\ pub' = [pub EXCEPT ![p] = Next1(p)]
    /\ UNCHANGED <<task, step, tries, subs, slot, usage, window, told, spent,
                   loops, resumes, unheard>>

\* onTaskTerminal: the task's account is closed.
GateResets(p) ==
    /\ Calls(p, "gate")
    /\ pub[p].ev.type \in {"task_completed", "task_failed"}
    /\ usage' = 0
    /\ suspended' = FALSE
    /\ pub' = [pub EXCEPT ![p] = Next1(p)]
    /\ UNCHANGED <<task, step, tries, subs, slot, window, told, spent, loops,
                   resumes, unheard>>

\* Record: one sample per event, under the role of the step, "global" when
\* the payload names none, or "task".
TrackerRecords(p) ==
    /\ Calls(p, "quality")
    /\ LET ok == pub[p].ev.type \in {"step_completed", "task_completed"}
       IN  window' = window \cup {<<pub[p].ev.key, IF ok THEN "ok" ELSE "fail">>}
    /\ pub' = [pub EXCEPT ![p] = Next1(p)]
    /\ UNCHANGED <<task, step, tries, subs, slot, usage, suspended, told, spent,
                   loops, resumes, unheard>>

\* The event bridge of the ACP session: a terminal event becomes a
\* notification to the client; other events do not reach it.
BridgeTells(p) ==
    /\ Calls(p, "acp")
    /\ told' = IF pub[p].ev.key = "task" THEN Append(told, pub[p].ev.type) ELSE told
    /\ pub' = [pub EXCEPT ![p] = Next1(p)]
    /\ UNCHANGED <<task, step, tries, subs, slot, usage, suspended, window, spent,
                   loops, resumes, unheard>>

----------------------------------------------------------------------------
(* Those who publish.                                                      *)

StartStep(s) ==
    /\ task = "running"
    /\ step[s] = "pending"
    /\ pub[s].at = "idle"
    /\ tries[s] < MaxTries
    /\ step' = [step EXCEPT ![s] = "running"]
    /\ tries' = [tries EXCEPT ![s] = @ + 1]
    /\ UNCHANGED <<task, subs, slot, pub, usage, suspended, window, told, spent,
                   loops, resumes, unheard>>

\* checkSieveGuardian: a repeated call is stopped and logged as task_failed,
\* which the logger publishes too; the spawn goes on.
GuardianStops(s) ==
    /\ step[s] = "running"
    /\ loops < MaxLoops
    /\ Publish(s, Event("task_failed", 0, "task"))
    /\ loops' = loops + 1
    /\ UNCHANGED <<task, step, tries, subs, slot, usage, suspended, window, told,
                   spent, resumes>>

\* LogInterceptor: a spawn that returned without an error is logged as
\* step_completed, whatever the status of its output; one that returned an
\* error as step_failed.  Neither payload names the role.
InterceptorLogs(s) ==
    /\ step[s] = "running"
    /\ \E r \in {"accepted", "rejected", "error"} :
          /\ Publish(s, Event(IF r = "error" THEN "step_failed" ELSE "step_completed",
                              0, "global"))
          /\ step' = [step EXCEPT ![s] = r]
    /\ UNCHANGED <<task, tries, subs, slot, usage, suspended, window, told, spent,
                   loops, resumes>>

\* handleStepSuccess: the engine publishes the completion with its tokens and
\* its role.
handleStepSuccess(s) ==
    /\ step[s] = "accepted"
    /\ Publish(s, Event("step_completed", 1, s))
    /\ step' = [step EXCEPT ![s] = "ok"]
    /\ spent' = spent + 1
    /\ UNCHANGED <<task, tries, subs, slot, usage, suspended, window, told, loops,
                   resumes>>

\* The engine publishes the failure; the step is tried again while tries are
\* left, and only the event of a step that is given up names the role.
handleStepFailure(s) ==
    /\ step[s] \in {"rejected", "error"}
    /\ Publish(s, Event("step_failed", 0, IF tries[s] < MaxTries THEN "global" ELSE s))
    /\ step' = [step EXCEPT ![s] = IF tries[s] < MaxTries THEN "pending" ELSE "failed"]
    /\ UNCHANGED <<task, tries, subs, slot, usage, suspended, window, told, spent,
                   loops, resumes>>

\* A person resumes the task.  The gate is not told.
ResumeSuspendedTask ==
    /\ task = "suspended"
    /\ resumes < MaxResumes
    /\ task' = "running"
    /\ resumes' = resumes + 1
    /\ UNCHANGED <<step, tries, subs, slot, pub, usage, suspended, window, told,
                   spent, loops, unheard>>

\* finalize: the status is set first and published then; it does nothing when
\* the status is terminal already.
Ended == IF \E s \in Step : step[s] = "failed" THEN "failed" ELSE "completed"

finalize ==
    /\ task = "running"
    /\ \A s \in Step : step[s] \in {"ok", "failed"}
    /\ task' = Ended
    /\ Publish(Engine, Event(IF Ended = "failed" THEN "task_failed" ELSE "task_completed",
                             0, "task"))
    /\ UNCHANGED <<step, tries, subs, slot, usage, suspended, window, told, spent,
                   loops, resumes>>

----------------------------------------------------------------------------

Init ==
    /\ task = "running"
    /\ step = [s \in Step |-> "pending"]
    /\ tries = [s \in Step |-> 0]
    /\ subs = <<"gate", "quality", "acp">>
    /\ slot = [w \in Watcher |-> CASE w = "gate" -> 1 [] w = "quality" -> 2 [] OTHER -> 3]
    /\ pub = [p \in Publisher |-> Idle]
    /\ usage = 0 /\ suspended = FALSE
    /\ window = {}
    /\ told = <<>>
    /\ spent = 0 /\ loops = 0 /\ resumes = 0 /\ unheard = FALSE

Deliver(p) == \/ GateCounts(p) \/ SuspendTask(p) \/ GateMarks(p) \/ GateResets(p)
              \/ TrackerRecords(p) \/ BridgeTells(p)

\* An ACP session comes and goes.
Wiring == \/ Unsubscribe("acp") \/ SubscribeWithCancel("acp")
          \/ Unwire

Next ==
    \/ \E p \in Publisher : Deliver(p)
    \/ \E s \in Step : \/ StartStep(s) \/ GuardianStops(s) \/ InterceptorLogs(s)
                       \/ handleStepSuccess(s) \/ handleStepFailure(s)
    \/ ResumeSuspendedTask
    \/ finalize
    \/ Wiring

\* Goroutines that call handlers are scheduled.
Fairness == \A p \in Publisher : WF_vars(Deliver(p))

Spec == Init /\ [][Next]_vars /\ Fairness

----------------------------------------------------------------------------

TypeOK ==
    /\ task \in Terminal \cup {"running", "suspended"}
    /\ step \in [Step -> {"pending", "running", "accepted", "rejected", "error",
                          "ok", "failed"}]
    /\ \A i \in DOMAIN subs : subs[i] \in Watcher \cup {Gone}
    /\ slot \in [Watcher -> 0..MaxSubs]
    /\ \A p \in Publisher : pub[p].at \in {"idle", "next", "suspend", "drain"}
    /\ window \subseteq Key \X {"ok", "fail"}
    /\ usage \in 0..spent

\* However subscribers come and go, the bus holds exactly those that are
\* subscribed, each where its unsubscribe function will look for it.
SubscribedExactly ==
    /\ \A w \in Watcher : slot[w] # 0 => slot[w] <= Len(subs) /\ subs[slot[w]] = w
    /\ \A i \in DOMAIN subs : subs[i] # Gone => slot[subs[i]] = i

\* A client that was told that its task ended finds it ended, and is told
\* once, unless the loop guardian stopped a call of the task.
OverWhenTold ==
    loops = 0 => /\ told # <<>> => task \in Terminal
                 /\ Len(told) <= 1

\* Once the events are delivered, a task that spent more than its budget is
\* not running, unless it was resumed, the guardian's event closed its
\* account, or the gate was unwired.
OverBudgetStopped ==
    (/\ \A p \in Publisher : pub[p].at = "idle"
     /\ spent > PerTaskTokens
     /\ resumes = 0 /\ loops = 0 /\ ~unheard)
    => task # "running"

\* The tracker credits a role with a success only when the engine accepted a
\* step of that role.
RoleSuccessEarned == \A s \in Step : <<s, "ok">> \in window => step[s] = "ok"

\* Every publication comes to its end, also the one whose handler suspends
\* the task and waits for the steps to drain.
Delivering(p) == pub[p].at # "idle"
DeliveryEnds == \A p \in Publisher : Delivering(p) ~> ~Delivering(p)

\* What the event bridge of the ACP session says of itself: what it forwards
\* are terminal events.
TerminalMeansOver == told # <<>> => task \in Terminal

============================================================================
