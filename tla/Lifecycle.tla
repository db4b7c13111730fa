---------------------------- MODULE Lifecycle ----------------------------
(***************************************************************************)
(* The life of one process of the program: main and runHub (or runExec)    *)
(* start the services one after the other, each leaving a deferred closer; *)
(* a transport serves until a signal, the end of its input or a server     *)
(* error; the closers then run last in, first out.  Tasks found running on *)
(* disk are taken up while the engine is being built; executors, their     *)
(* step goroutines, background saves and the periodic loops go on during   *)
(* the shut-down until the closer that stops them has run.                 *)
(***************************************************************************)
EXTENDS Naturals, SequencesExt

CONSTANTS
    Task,        \* task ids
    MaxVersion,  \* bound: the versions of the tasks' role are 1..MaxVersion
    Modes,       \* the ways this instance starts the program
    MaxRuns      \* bound: starts of the program

VARIABLES
    mode,        \* "exec", "stdio", "sse" or "acp"
    phase,       \* "boot", "serve", "unwind", "over" or "dead"
    at,          \* the next service to start
    defers,      \* the deferred closers, the last one to run first
    hasDB,       \* InitDB succeeded
    open,        \* resources that are open
    ctxs,        \* contexts not cancelled
    loop,        \* the periodic goroutines that are running
    executor,    \* task -> "none", "loop" or "grace"
    step,        \* task -> position of its step goroutine in StepWork, 0 when it has none
    save,        \* a background save of the experience store is in flight
    child,       \* child processes that are running
    disk,        \* task -> status in its manifest: "none", "running" or "over"
    role,        \* the version of the role in the registry
    pin,         \* task -> version recorded in task_baselines (0 when none)
    uses,        \* task -> version its executor works with (0 while it has none)
    runs,        \* starts so far
    late,        \* who used a resource after it was closed: "engine", a loop
    outlived     \* a step goroutine outlived its executor's grace period

procVars == <<mode, phase, at, defers, hasDB, open, ctxs>>
workVars == <<loop, executor, step, save, child, disk, role, pin, uses>>
vars == <<procVars, workVars, runs, late, outlived>>

Loop == {"compactor", "telemetry", "syncer", "field", "replay", "ticker", "archive"}

\* what one step goroutine touches, in the order of doSpawn: the MCP clients of
\* its role, the cost record of the call, a JIT session, its result, its event
StepWork == <<"mcp", "costs", "jit", "db", "logger">>

(***************************************************************************)
(* Start-up                                                                *)
(***************************************************************************)

\* main: what both modes start
Common == <<"registry", "logger", "db", "store", "compactor">>

\* runExec: the engine and its wiring, with no closer of their own
ExecStartup == Common \o <<"engine", "wiring", "archive">>

\* runHub, in the order of its statements: what runs before the engine, the engine and what
\* is set on it, the goroutines that use it, the tools' side
HubStores == <<"telemetry", "syncer", "field">>
HubEngine == <<"engine", "costs", "wiring">>
HubLoops == <<"gel", "replay", "schedules", "ticker">>
HubSurface == <<"archive", "gate", "subsystems", "clients">>
HubStartup == Common \o HubStores \o HubEngine \o HubLoops \o HubSurface

Startup == IF mode = "exec" THEN ExecStartup ELSE HubStartup

\* mutant: the two defer statements in the other order
EngineFirst == <<"engine", "saves">>

\* the wait for background saves is deferred before the engine's Stop, so that it runs after it
WiringDefers == <<"saves", "engine">>

\* the closers a service defers, in the order of the defer statements
Deferred(service) ==
    CASE service = "registry"  -> <<"root">>
      [] service = "db"        -> IF hasDB THEN <<"db">> ELSE <<>>
      [] service = "wiring"    -> WiringDefers
      [] service = "clients"   -> <<"mcp", "jit">>
      [] service \in {"logger", "syncer", "field", "costs", "gel", "schedules", "ticker",
                      "archive", "gate"} -> <<service>>
      [] OTHER                 -> <<>>

\* runExec defers nothing: main's own closers are all there is
DefersOf(service) ==
    IF mode = "exec" /\ service \notin {"registry", "logger", "db"} THEN <<>> ELSE Deferred(service)

\* the services that run a loop; the compactor and the replay scheduler need the database
StartsLoop(service) == service \in Loop /\ (service \in {"compactor", "replay"} => hasDB)

Opens(service) ==
    {r \in {"logger", "db", "costs", "gel", "gate"} : r = service /\ (r = "db" => hasDB)}

\* the context a service derives or makes: the root, the engine's, one per loop
MakesContext(service) ==
    CASE service = "registry" -> {"root"}
      [] service = "engine"   -> {"life"}
      [] service \in {"syncer", "field", "ticker", "archive"} -> {service}
      [] OTHER -> {}

\* applyPinnedBaseline: needs the BaselineStore, which main sets after NewDirectedEngine
\* has returned ("wiring"), so while loadGraphs runs there is none
applyPinnedBaseline(t, wired) == IF wired /\ hasDB /\ pin[t] # 0 THEN pin[t] ELSE role

\* mutant: only tasks with a baseline are taken up
ResumesPinned(t) == disk[t] = "running" /\ pin[t] # 0

\* loadGraphs: every manifest that says "running" gets an executor
Resumes(t) == disk[t] = "running"

loadGraphs ==
    /\ executor' = [t \in Task |-> IF Resumes(t) THEN "loop" ELSE executor[t]]
    /\ uses' = [t \in Task |-> IF Resumes(t) THEN applyPinnedBaseline(t, FALSE) ELSE uses[t]]

\* NewSpawner starts one goroutine, which builds the tool embeddings (refreshWg)
NewSpawner == {"refresh"}

\* one service started
StartService ==
    /\ phase = "boot" /\ at <= Len(Startup)
    /\ LET service == Startup[at] IN
       /\ defers' = Reverse(DefersOf(service)) \o defers
       /\ open' = open \cup Opens(service)
       /\ ctxs' = ctxs \cup MakesContext(service)
       /\ loop' = loop \cup {l \in {service} : StartsLoop(l)}
                       \cup (IF service = "engine" THEN NewSpawner ELSE {})
       /\ IF service = "engine" THEN loadGraphs ELSE UNCHANGED <<executor, uses>>
    /\ at' = at + 1
    /\ UNCHANGED <<mode, phase, hasDB, step, save, child, disk, role, pin, runs, late, outlived>>

\* the process is gone, its goroutines and open files with it
Gone ==
    /\ at' = 1 /\ defers' = <<>> /\ open' = {} /\ ctxs' = {} /\ loop' = {} /\ save' = FALSE
    /\ executor' = [t \in Task |-> "none"] /\ step' = [t \in Task |-> 0]
    /\ uses' = [t \in Task |-> 0]

\* log.Fatalf: the process ends at once and no deferred closer runs
Fatal ==
    /\ phase = "boot" /\ at <= Len(Startup)
    /\ Startup[at] \in {"registry", "logger", "store", "subsystems"}
    /\ phase' = "dead" /\ child' = {} /\ late' = {} /\ outlived' = FALSE
    /\ Gone
    /\ UNCHANGED <<mode, hasDB, disk, role, pin, runs>>

\* the transport takes over (in exec mode: the one tool call)
Listen ==
    /\ phase = "boot" /\ at > Len(Startup)
    /\ phase' = "serve"
    /\ UNCHANGED <<mode, at, defers, hasDB, open, ctxs, workVars, runs, late, outlived>>

(***************************************************************************)
(* Work                                                                    *)
(***************************************************************************)

Alive == phase \in {"boot", "serve", "unwind"}

\* a resource used: remembered when it is closed by then (one that is not wired yet is nil,
\* and skipped)
Use(who, what) ==
    late' = IF phase = "unwind" /\ what \notin open THEN late \cup {who} ELSE late

\* SubmitWithSessionIR: pinBaseline records the role's version, the executor starts
Submit(t) ==
    /\ phase = "serve" /\ disk[t] = "none"
    /\ disk' = [disk EXCEPT ![t] = "running"]
    /\ pin' = [pin EXCEPT ![t] = IF hasDB THEN role ELSE 0]
    /\ uses' = [uses EXCEPT ![t] = role]
    /\ executor' = [executor EXCEPT ![t] = "loop"]
    /\ UNCHANGED <<procVars, loop, step, save, child, role, runs, late, outlived>>

\* run starts the goroutine of a ready step, unless its context is cancelled
StartStep(t) ==
    /\ Alive /\ executor[t] = "loop" /\ "life" \in ctxs /\ step[t] = 0
    /\ step' = [step EXCEPT ![t] = 1]
    /\ UNCHANGED <<procVars, loop, executor, save, child, disk, role, pin, uses, runs, late, outlived>>

\* one thing the step goroutine does; the external call it makes may take any time.
\* A client or session it needs is started when there is none
DoStep(t) ==
    /\ Alive /\ step[t] \in 1..Len(StepWork)
    /\ LET what == StepWork[step[t]] IN
       IF what \in {"mcp", "jit"}
       THEN child' = child \cup {what} /\ UNCHANGED late
       ELSE /\ UNCHANGED child
            /\ IF (what = "db" /\ ~hasDB) \/ (what = "costs" /\ mode = "exec")
               THEN UNCHANGED late ELSE Use("engine", what)
    /\ step' = [step EXCEPT ![t] = (step[t] + 1) % (Len(StepWork) + 1)]
    /\ UNCHANGED <<procVars, loop, executor, save, disk, role, pin, uses, runs, outlived>>

\* finalize: the manifest says so; reflection starts a background save
FinishTask(t) ==
    /\ Alive /\ executor[t] = "loop" /\ "life" \in ctxs /\ step[t] = 0
    /\ disk' = [disk EXCEPT ![t] = "over"]
    /\ executor' = [executor EXCEPT ![t] = "none"]
    /\ save' = hasDB
    /\ Use("engine", "logger")
    /\ UNCHANGED <<procVars, loop, step, child, role, pin, uses, runs, outlived>>

\* the save writes to the database, under a time limit of its own
SaveDone ==
    /\ Alive /\ save
    /\ save' = FALSE
    /\ Use("engine", "db")
    /\ UNCHANGED <<procVars, loop, executor, step, child, disk, role, pin, uses, runs, outlived>>

\* run sees its context cancelled: it leaves at once, or waits for its step goroutines
CancelledRun(t) ==
    /\ Alive /\ executor[t] = "loop" /\ "life" \notin ctxs
    /\ executor' = [executor EXCEPT ![t] = IF step[t] = 0 THEN "none" ELSE "grace"]
    /\ UNCHANGED <<procVars, loop, step, save, child, disk, role, pin, uses, runs, late, outlived>>

\* mutant: the wait for the step goroutines has no time limit
WaitsForSteps(t) == executor[t] = "grace" /\ step[t] = 0

\* run's wait ends with its step goroutines or after five seconds, whichever is first
GraceEnds(t) == executor[t] = "grace"

GraceOver(t) ==
    /\ Alive /\ GraceEnds(t)
    /\ executor' = [executor EXCEPT ![t] = "none"]
    /\ outlived' = (outlived \/ step[t] # 0)
    /\ UNCHANGED <<procVars, loop, step, save, child, disk, role, pin, uses, runs, late>>

\* the context that ends a loop: the compactor, the telemetry exporter and the
\* replay scheduler run under main's root context, the others have their own
ContextOf(l) == IF l \in {"compactor", "telemetry", "replay"} THEN "root" ELSE l

\* the passes: the compactor and the replay scheduler query the database while their
\* context lasts, the syncer and the ticker write an event whatever the outcome; a
\* telemetry sync or a pruning of the archive uses none of the resources
RunCompaction == IF "root" \in ctxs THEN Use("loop", "db") ELSE UNCHANGED late
SyncAll == Use("loop", "logger")
runOnce == Use("loop", "logger")
Sync == UNCHANGED late

LoopPass(l) ==
    /\ Alive /\ l \in loop
    /\ \/ l \in {"compactor", "replay"} /\ RunCompaction
       \/ l = "syncer" /\ SyncAll
       \/ l = "ticker" /\ runOnce
       \/ l \in {"telemetry", "archive", "field"} /\ Sync
    /\ UNCHANGED <<procVars, loop, executor, step, save, child, disk, role, pin, uses, runs, outlived>>

\* the build of the tool embeddings that NewSpawner started ends, at the latest after
\* its thirty seconds
RefreshDone ==
    /\ Alive /\ "refresh" \in loop
    /\ loop' = loop \ {"refresh"}
    /\ UNCHANGED <<procVars, executor, step, save, child, disk, role, pin, uses, runs, late, outlived>>

\* the loops that see their context's end between two passes leave (one that is in a pass
\* is one that has not left yet)
LoopsQuit ==
    /\ Alive /\ \E l \in loop \cap Loop : ContextOf(l) \notin ctxs
    /\ loop' = {l \in loop : l \in Loop => ContextOf(l) \in ctxs}
    /\ UNCHANGED <<procVars, executor, step, save, child, disk, role, pin, uses, runs, late, outlived>>

(***************************************************************************)
(* Shut-down                                                               *)
(***************************************************************************)

Cancelled == ctxs' = ctxs \ {"root"}

\* stdio: a signal cancels the root context before the server is waited for; the end of
\* the input, or a server error, cancels nothing
WaitForServerOrSignal == Cancelled \/ UNCHANGED ctxs

\* SSE: a signal or a server error cancels the root context
serveSSE == Cancelled

\* ACP returns at the end of its input
ServeACP == UNCHANGED ctxs

StopServing ==
    /\ phase = "serve"
    /\ phase' = "unwind"
    /\ \/ mode = "stdio" /\ WaitForServerOrSignal
       \/ mode = "sse" /\ serveSSE
       \/ mode = "acp" /\ ServeACP
       \/ mode = "exec" /\ UNCHANGED ctxs
    /\ UNCHANGED <<mode, at, defers, hasDB, open, workVars, runs, late, outlived>>

\* ServeACP and runExec leave signals to the runtime, which ends the process; a crash
\* ends it in any mode
Kill ==
    /\ phase \in {"serve", "unwind"}
    /\ phase' = "dead" /\ child' = {} /\ late' = {} /\ outlived' = FALSE
    /\ Gone
    /\ UNCHANGED <<mode, hasDB, disk, role, pin, runs>>

\* Stop cancels the engine's context and waits for the executors (bgWg); WaitAsyncSaves
\* waits for the saves, CloseMCPConnections for the embeddings; the others return at once
Blocks(closer) ==
    \/ closer = "engine" /\ ("life" \in ctxs \/ \E t \in Task : executor[t] # "none")
    \/ closer = "saves" /\ save
    \/ closer = "mcp" /\ "refresh" \in loop

\* Stop, first half
CancelLife ==
    /\ phase = "unwind" /\ defers # <<>> /\ Head(defers) = "engine" /\ "life" \in ctxs
    /\ ctxs' = ctxs \ {"life"}
    /\ UNCHANGED <<mode, phase, at, defers, hasDB, open, workVars, runs, late, outlived>>

\* one deferred closer has run: CloseMCPConnections and CloseAll end the child
\* processes there are, the Stop methods cancel their loop's context
RunDeferred ==
    /\ phase = "unwind" /\ defers # <<>> /\ ~Blocks(Head(defers))
    /\ open' = open \ {Head(defers)}
    /\ ctxs' = ctxs \ {Head(defers)}
    /\ child' = child \ {Head(defers)}
    /\ defers' = Tail(defers)
    /\ UNCHANGED <<mode, phase, at, hasDB, loop, executor, step, save, disk, role, pin, uses,
                   runs, late, outlived>>

\* main returns: every goroutine is gone, child processes are not
Return ==
    /\ phase = "unwind" /\ defers = <<>>
    /\ phase' = "over"
    /\ Gone
    /\ UNCHANGED <<mode, hasDB, child, disk, role, pin, runs, late, outlived>>

\* the program started again, perhaps with another role file in its workspace
Restart ==
    /\ phase \in {"over", "dead"} /\ runs < MaxRuns
    /\ mode' \in Modes /\ hasDB' \in BOOLEAN
    /\ role' \in {role, role + 1} \cap 1..MaxVersion
    /\ phase' = "boot" /\ child' = {} /\ late' = {} /\ outlived' = FALSE
    /\ runs' = runs + 1
    /\ UNCHANGED <<at, defers, open, ctxs, loop, executor, step, save, disk, pin, uses>>

Init ==
    /\ mode \in Modes /\ hasDB \in BOOLEAN /\ role = 1
    /\ phase = "boot" /\ at = 1 /\ defers = <<>> /\ open = {} /\ ctxs = {}
    /\ loop = {}
    /\ executor = [t \in Task |-> "none"] /\ step = [t \in Task |-> 0]
    /\ save = FALSE /\ child = {} /\ late = {} /\ outlived = FALSE
    /\ disk = [t \in Task |-> "none"]
    /\ pin = [t \in Task |-> 0] /\ uses = [t \in Task |-> 0]
    /\ runs = 1

Shutdown == CancelLife \/ RunDeferred \/ Return
Work == SaveDone \/ RefreshDone \/ \E t \in Task : CancelledRun(t) \/ GraceOver(t)
Loops == LoopsQuit \/ \E l \in Loop : LoopPass(l)

Next ==
    \/ StartService \/ Fatal \/ Listen \/ StopServing \/ Kill \/ Restart
    \/ \E t \in Task : Submit(t) \/ StartStep(t) \/ DoStep(t) \/ FinishTask(t)
    \/ Work \/ Loops \/ Shutdown

\* the closers, the executors' wait and the saves go on; a step's external call,
\* the loops' passes and the callers may take any time
Spec == Init /\ [][Next]_vars /\ WF_vars(Work) /\ WF_vars(Shutdown)

(***************************************************************************)
(* Properties                                                              *)
(***************************************************************************)

TypeOK ==
    /\ mode \in Modes /\ phase \in {"boot", "serve", "unwind", "over", "dead"}
    /\ at \in 1..(Len(HubStartup) + 1) /\ hasDB \in BOOLEAN
    /\ open \subseteq {"logger", "db", "costs", "gel", "gate"}
    /\ ctxs \subseteq {"root", "life", "syncer", "field", "ticker", "archive"}
    /\ loop \subseteq Loop \cup {"refresh"}
    /\ executor \in [Task -> {"none", "loop", "grace"}]
    /\ step \in [Task -> 0..Len(StepWork)]
    /\ save \in BOOLEAN /\ child \subseteq {"mcp", "jit"}
    /\ disk \in [Task -> {"none", "running", "over"}]
    /\ role \in 1..MaxVersion /\ pin \in [Task -> 0..MaxVersion] /\ uses \in [Task -> 0..MaxVersion]
    /\ Len(defers) <= 15 /\ late \subseteq {"engine", "loop"}

\* In a hub nothing the engine runs touches the database, the cost records or the log
\* after they are closed, unless a step goroutine outlived its executor's grace period:
\* the engine's Stop, then the wait for saves, come before the stores' closers
\* (main.go:424-430).
ClosedAfterUse ==
    mode # "exec" /\ ~outlived => "engine" \notin late

\* Once the program serves, every task whose manifest says "running" has an executor,
\* whichever process started it and however that process ended (loadGraphs).
InterruptedResumed ==
    phase = "serve" => \A t \in Task : disk[t] = "running" => executor[t] # "none"

\* A shut-down that began ends, or the process is killed: no closer waits for ever,
\* though the external call of a step may never return.
Unwinding == phase = "unwind"
ShutdownEnds == Unwinding ~> ~Unwinding

\* "Close all cached MCP subprocesses and JIT sessions on shutdown to prevent orphaned
\* processes" (main.go:526-527): a hub that has shut down leaves no child process.
NoOrphans == phase = "over" /\ mode # "exec" => child = {}

\* "pins SOP/Role versions at task creation time so resumed tasks use the pinned version
\* instead of the live registry" (core/scheduler.go:121-122): an executor works with the
\* version its task was pinned to.
PinnedRoleUsed ==
    \A t \in Task : executor[t] # "none" /\ hasDB /\ pin[t] # 0 => uses[t] = pin[t]
=============================================================================
