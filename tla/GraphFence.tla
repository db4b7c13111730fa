----------------------------- MODULE GraphFence -----------------------------
(***************************************************************************)
(* The cross-process fence of one task directory (core/scheduler_fence.go) *)
(* with the writers that consult it (core/scheduler.go, persistGraph) and  *)
(* the operations that start, stop and forget an executor.                 *)
(*                                                                         *)
(* An Engine is one incarnation of the process: fenceOwnerToken puts pid,  *)
(* boot time and a counter in the owner, so a restart is another Engine.   *)
(* A Writer is one goroutine of an engine that calls persistGraph.  Every  *)
(* file operation and every sync.Map operation is a step of its own.       *)
(***************************************************************************)
EXTENDS Naturals, FiniteSets
LOCAL INSTANCE TLC

CONSTANTS Engine,        \* process incarnations sharing outputs/<taskID>
          Writer,        \* goroutines of one engine that may persist
          None,          \* "absent": no file, no map entry
          MaxPersists,   \* bound: persistGraph calls of each writer
          MaxControls    \* bound: suspend/resume/clear calls of one engine

(* graphFence: the content of fence.json.                                  *)
Token == [owner : Engine, seq : Nat \ {0}]

ASSUME FenceAssumption ==
  /\ None \notin Token
  /\ MaxPersists \in Nat
  /\ MaxControls \in Nat

VARIABLES fence,         \* outputs/<taskID>/fence.json
          tmp,           \* fence.json.tmp: one name, shared by every claimer
          manifest,      \* outputs/<taskID>/manifest.json: its writer and status
          loaded,        \* whether e holds the graph in s.graphs
          status,        \* graph.Status in e's memory
          exec,          \* the executor whose cancel is in fenceCancels
          fences,        \* s.fences[taskID] of each engine
          fenceBroken,   \* the engines with an entry in s.fenceBroken
          w,             \* the state of each writer goroutine
          persists,      \* persistGraph calls made by each writer
          controls       \* control calls made on each engine

files == <<fence, tmp, manifest>>
engine == <<loaded, status, exec, fences, fenceBroken>>
vars == <<files, engine, w, persists, controls>>

Loaded == {"no", "yes", "crashed"}
Status == {"running", "suspended"}
Exec == {"none", "submitting", "live", "stopped"}
PC == {"idle", "compare", "manifest", "stamp", "stampcmp", "claim", "tmp",
       "rename", "remove", "reread", "store", "lose", "cancel"}

WriterState == [pc : PC, mine : Token \cup {None}, after : Token \cup {None},
                attempt : 0..2, status : Status]

(* A writer at a control point with its locals cleared.                    *)
Fresh(pc, attempt) == [pc |-> pc, mine |-> None, after |-> None,
                       attempt |-> attempt, status |-> "running"]
IdleWriter == Fresh("idle", 0)

Init ==
  /\ fence = None /\ tmp = None /\ manifest = None
  /\ loaded = [e \in Engine |-> "no"]
  /\ status = [e \in Engine |-> "running"]
  /\ exec = [e \in Engine |-> "none"]
  /\ fences = [e \in Engine |-> None]
  /\ fenceBroken = {}
  /\ w = [e \in Engine |-> [i \in Writer |-> IdleWriter]]
  /\ persists = [e \in Engine |-> [i \in Writer |-> 0]]
  /\ controls = [e \in Engine |-> 0]

(* Where a writer is; no writer of e is inside persistGraph.               *)
At(e, i, pc) == w[e][i].pc = pc
Quiet(e) == \A i \in Writer : At(e, i, "idle")

-----------------------------------------------------------------------------
(* Starting, stopping and forgetting an executor.                          *)

(* startGraphExecutor: a fresh child context, its cancel in fenceCancels;  *)
(* no claim is written here and fenceBroken is left as it is.              *)
startGraphExecutor(e) == exec' = [exec EXCEPT ![e] = "live"]

(* SubmitWithSessionIR, multi-step path: the graph is new, nobody else     *)
(* knows of the directory yet; its first persist returns before the        *)
(* executor is started.                                                    *)
Submit(e) ==
  /\ manifest = None /\ \A f \in Engine : loaded[f] = "no" /\ exec[f] = "none"
  /\ loaded' = [loaded EXCEPT ![e] = "yes"]
  /\ exec' = [exec EXCEPT ![e] = "submitting"]
  /\ UNCHANGED <<files, status, fences, fenceBroken, w, persists, controls>>

SubmitStart(e) ==
  /\ exec[e] = "submitting" /\ manifest # None /\ Quiet(e)
  /\ startGraphExecutor(e)
  /\ UNCHANGED <<files, loaded, status, fences, fenceBroken, w, persists, controls>>

(* loadGraphs: adopt the directory unless the graph is already in memory;  *)
(* only a manifest that says "running" gets an executor.                   *)
loadGraphs(e) ==
  /\ manifest # None /\ loaded[e] = "no"
  /\ loaded' = [loaded EXCEPT ![e] = "yes"]
  /\ status' = [status EXCEPT ![e] = manifest.status]
  /\ IF manifest.status = "running" THEN startGraphExecutor(e) ELSE UNCHANGED exec
  /\ UNCHANGED <<files, fences, fenceBroken, w, persists, controls>>

Control(e) ==
  /\ controls[e] < MaxControls
  /\ controls' = [controls EXCEPT ![e] = @ + 1]

(* SuspendTask: cancel the task context; its persistGraph is a Persist.    *)
SuspendTask(e) ==
  /\ Control(e)
  /\ loaded[e] = "yes" /\ status[e] = "running"
  /\ status' = [status EXCEPT ![e] = "suspended"]
  /\ exec' = [exec EXCEPT ![e] = "stopped"]
  /\ UNCHANGED <<files, loaded, fences, fenceBroken, w, persists>>

(* ResumeSuspendedTask: a new context and a new executor.                  *)
ResumeSuspendedTask(e) ==
  /\ Control(e)
  /\ loaded[e] = "yes" /\ status[e] = "suspended"
  /\ status' = [status EXCEPT ![e] = "running"]
  /\ startGraphExecutor(e)
  /\ UNCHANGED <<files, loaded, fences, fenceBroken, w, persists>>

(* Clear: forget the graph, cancel, then dropFence.  The output directory  *)
(* and a goroutine that outlives the five-second drain stay behind.        *)
Clear(e) ==
  /\ Control(e)
  /\ loaded[e] = "yes"
  /\ loaded' = [loaded EXCEPT ![e] = "no"]
  /\ status' = [status EXCEPT ![e] = "running"]
  /\ exec' = [exec EXCEPT ![e] = "stopped"]
  /\ fences' = [fences EXCEPT ![e] = None]
  /\ fenceBroken' = fenceBroken \ {e}
  /\ UNCHANGED <<files, w, persists>>

(* The process dies between any two steps.  Its successor is another       *)
(* Engine; what it left in the directory stays.                            *)
Crash(e) ==
  /\ Control(e)
  /\ loaded[e] = "yes"
  /\ loaded' = [loaded EXCEPT ![e] = "crashed"]
  /\ status' = [status EXCEPT ![e] = "running"]
  /\ exec' = [exec EXCEPT ![e] = "none"]
  /\ fences' = [fences EXCEPT ![e] = None]
  /\ fenceBroken' = fenceBroken \ {e}
  /\ w' = [w EXCEPT ![e] = [i \in Writer |-> IdleWriter]]
  /\ UNCHANGED <<files, persists>>

-----------------------------------------------------------------------------
(* persistGraph, one writer goroutine (e, i).                              *)

GoTo(e, i, pc) == w' = [w EXCEPT ![e][i].pc = pc]
Restart(e, i, pc) == w' = [w EXCEPT ![e][i] = Fresh(pc, 0)]
Return(e, i) == Restart(e, i, "idle")

(* The two in-memory loads of holdsFence: a sticky loss refuses, no claim  *)
(* of this process allows.  The call may come from the executor, from a    *)
(* control operation, or from a step goroutine of a cancelled executor.    *)
Persist(e, i) ==
  /\ At(e, i, "idle") /\ persists[e][i] < MaxPersists
  /\ loaded[e] = "yes" \/ exec[e] = "stopped"
  /\ exec[e] = "submitting" => Quiet(e) /\ manifest = None
  /\ persists' = [persists EXCEPT ![e][i] = @ + 1]
  /\ w' = [w EXCEPT ![e][i] =
             IF e \in fenceBroken THEN Fresh("lose", 0)
             ELSE [pc |-> IF fences[e] = None THEN "manifest" ELSE "compare",
                   mine |-> fences[e], after |-> None, attempt |-> 0,
                   status |-> status[e]]]
  /\ UNCHANGED <<files, engine, controls>>

(* Mutant: our claim has to be newer than the one on disk, itself included *)
holdsFenceNewer(e, i) ==
  /\ At(e, i, "compare")
  /\ IF fence = None \/ fence.seq < w[e][i].mine.seq
     THEN GoTo(e, i, "manifest") ELSE Restart(e, i, "lose")
  /\ UNCHANGED <<files, engine, persists, controls>>

(* holdsFence reads fence.json: absent or equal to our claim is held.      *)
holdsFence(e, i) ==
  /\ At(e, i, "compare")
  /\ IF fence \in {None, w[e][i].mine} THEN GoTo(e, i, "manifest") ELSE Restart(e, i, "lose")
  /\ UNCHANGED <<files, engine, persists, controls>>

(* The 200ms debounce returns after the fence check and before any write.  *)
Debounce(e, i) ==
  /\ At(e, i, "manifest")
  /\ Return(e, i)
  /\ UNCHANGED <<files, engine, persists, controls>>

(* WriteFile of manifest.json, outside every lock; only a write that       *)
(* succeeded is stamped.                                                   *)
WriteManifest(e, i) ==
  /\ At(e, i, "manifest")
  /\ manifest' = [by |-> e, status |-> w[e][i].status]
  /\ Restart(e, i, "stamp")
  /\ UNCHANGED <<fence, tmp, engine, persists, controls>>

(* The start of claimFence lifts a recorded loss.                          *)
BeginClaim(e, i) ==
  /\ fenceBroken' = fenceBroken \ {e}
  /\ w' = [w EXCEPT ![e][i] = Fresh("claim", 1)]

(* stampFence: our claim, still on disk, is left alone; else claim.        *)
stampFence(e, i) ==
  \/ /\ At(e, i, "stamp") /\ fences[e] = None
     /\ BeginClaim(e, i)
     /\ UNCHANGED <<files, loaded, status, exec, fences, persists, controls>>
  \/ /\ At(e, i, "stamp") /\ fences[e] # None
     /\ w' = [w EXCEPT ![e][i].pc = "stampcmp", ![e][i].mine = fences[e]]
     /\ UNCHANGED <<files, engine, persists, controls>>
  \/ /\ At(e, i, "stampcmp") /\ fence = w[e][i].mine
     /\ Return(e, i)
     /\ UNCHANGED <<files, engine, persists, controls>>
  \/ /\ At(e, i, "stampcmp") /\ fence # w[e][i].mine
     /\ BeginClaim(e, i)
     /\ UNCHANGED <<files, loaded, status, exec, fences, persists, controls>>

(* Mutant: the first claim of a directory is numbered 0.                   *)
ClaimReadFromZero(e, i) ==
  /\ At(e, i, "claim")
  /\ w' = [w EXCEPT ![e][i].pc = "tmp",
                    ![e][i].mine =
                      [owner |-> e, seq |-> IF fence = None THEN 0 ELSE fence.seq + 1]]
  /\ UNCHANGED <<files, engine, persists, controls>>

(* claimFence: our next token is one past the sequence read from disk.     *)
ClaimRead(e, i) ==
  /\ At(e, i, "claim")
  /\ w' = [w EXCEPT ![e][i].pc = "tmp",
                    ![e][i].mine =
                      [owner |-> e, seq |-> IF fence = None THEN 1 ELSE fence.seq + 1]]
  /\ UNCHANGED <<files, engine, persists, controls>>

(* writeGraphFence, first half: the token goes to the shared tmp name.     *)
WriteTmp(e, i) ==
  /\ At(e, i, "tmp")
  /\ tmp' = w[e][i].mine
  /\ GoTo(e, i, "rename")
  /\ UNCHANGED <<fence, manifest, engine, persists, controls>>

(* writeGraphFence, second half: the rename publishes whatever tmp holds,  *)
(* and fails while another claimer has renamed it away.  A failed rename   *)
(* is retried or, after three, given up.                                   *)
Rename(e, i) ==
  /\ At(e, i, "rename")
  /\ IF tmp # None
     THEN fence' = tmp /\ tmp' = None /\ GoTo(e, i, "reread")
     ELSE UNCHANGED <<fence, tmp>> /\ GoTo(e, i, "remove")
  /\ UNCHANGED <<manifest, engine, persists, controls>>

(* Giving up removes the tmp, whoever wrote it by then, and claimFence     *)
(* forgets the claim.  A retry that finds a tmp again is a Rename.         *)
RemoveTmp(e, i) ==
  /\ At(e, i, "remove")
  /\ \/ /\ tmp' = None
        /\ fences' = [fences EXCEPT ![e] = None]
        /\ Return(e, i)
     \/ /\ tmp # None
        /\ GoTo(e, i, "rename")
        /\ UNCHANGED <<tmp, fences>>
  /\ UNCHANGED <<fence, manifest, loaded, status, exec, fenceBroken, persists, controls>>

ClaimReread(e, i) ==
  /\ At(e, i, "reread")
  /\ w' = [w EXCEPT ![e][i].pc = "store", ![e][i].after = fence]
  /\ UNCHANGED <<files, engine, persists, controls>>

(* Mutant: after the second lost attempt no loss is recorded.              *)
ClaimStoreGivingUp(e, i) ==
  /\ At(e, i, "store")
  /\ fences' = [fences EXCEPT ![e] = w[e][i].after]
  /\ IF w[e][i].after = w[e][i].mine \/ w[e][i].attempt = 2 THEN Return(e, i)
     ELSE w' = [w EXCEPT ![e][i] = Fresh("claim", 2)]
  /\ UNCHANGED <<files, loaded, status, exec, fenceBroken, persists, controls>>

(* The token found on disk is recorded, ours or not; not ours is one more  *)
(* attempt, and after the second a loss.                                   *)
ClaimStore(e, i) ==
  /\ At(e, i, "store")
  /\ fences' = [fences EXCEPT ![e] = w[e][i].after]
  /\ IF w[e][i].after = w[e][i].mine THEN Return(e, i)
     ELSE IF w[e][i].attempt = 1
     THEN w' = [w EXCEPT ![e][i] = Fresh("claim", 2)]
     ELSE Restart(e, i, "lose")
  /\ UNCHANGED <<files, loaded, status, exec, fenceBroken, persists, controls>>

(* recordFenceLoss: LoadOrStore decides who goes on to cancel.             *)
RecordLoss(e, i) ==
  /\ At(e, i, "lose")
  /\ fenceBroken' = fenceBroken \cup {e}
  /\ IF e \in fenceBroken THEN Return(e, i) ELSE GoTo(e, i, "cancel")
  /\ UNCHANGED <<files, loaded, status, exec, fences, persists, controls>>

(* recordFenceLoss cancels the executor registered in fenceCancels, which  *)
(* dropFence may have removed.                                             *)
CancelExecutor(e, i) ==
  /\ At(e, i, "cancel")
  /\ exec' = [exec EXCEPT ![e] = IF @ = "live" THEN "stopped" ELSE @]
  /\ Return(e, i)
  /\ UNCHANGED <<files, loaded, status, fences, fenceBroken, persists, controls>>

WriterStep(e, i) ==
  \/ holdsFence(e, i) \/ WriteManifest(e, i) \/ stampFence(e, i)
  \/ ClaimRead(e, i) \/ WriteTmp(e, i) \/ Rename(e, i) \/ RemoveTmp(e, i)
  \/ ClaimReread(e, i) \/ ClaimStore(e, i)
  \/ RecordLoss(e, i) \/ CancelExecutor(e, i)

ControlStep(e) ==
  SuspendTask(e) \/ ResumeSuspendedTask(e) \/ Clear(e) \/ Crash(e)

Next ==
  \E e \in Engine :
    \/ Submit(e) \/ SubmitStart(e) \/ loadGraphs(e) \/ ControlStep(e)
    \/ \E i \in Writer : Persist(e, i) \/ Debounce(e, i) \/ WriterStep(e, i)

Spec == Init /\ [][Next]_vars

-----------------------------------------------------------------------------
(* Properties.                                                             *)

(* Every variable has its type: tokens on disk, in fences and in a         *)
(* writer's locals are owned claims or absent.                             *)
TypeOK ==
  /\ fence \in Token \cup {None} /\ tmp \in Token \cup {None}
  /\ manifest \in [by : Engine, status : Status] \cup {None}
  /\ loaded \in [Engine -> Loaded]
  /\ status \in [Engine -> Status]
  /\ exec \in [Engine -> Exec]
  /\ fences \in [Engine -> Token \cup {None}]
  /\ fenceBroken \subseteq Engine
  /\ w \in [Engine -> [Writer -> WriterState]]
  /\ persists \in [Engine -> [Writer -> Nat]]
  /\ controls \in [Engine -> 0..MaxControls]

(* The token e would compare next is the one on disk, so e's next persist  *)
(* will be allowed to write.                                               *)
BelievesItHolds(e) == fence # None /\ fences[e] = fence /\ e \notin fenceBroken

(* claimFence: "two claimers converge on one holder instead of both        *)
(* believing they hold".  claimFence records a rival's token as its own    *)
(* while it retries, so this only holds of engines no writer of which is   *)
(* inside persistGraph.                                                    *)
OneHolder ==
  \A e, f \in Engine :
    Quiet(e) /\ Quiet(f) /\ BelievesItHolds(e) /\ BelievesItHolds(f) => e = f

(* Fencing stops the stale executor, never the last one: while nobody      *)
(* suspends, clears or kills an engine, some executor keeps driving the    *)
(* task however the claims of the engines interleave.                      *)
SomeoneDrives ==
  (\E e \in Engine : exec[e] # "none") /\ (\A e \in Engine : controls[e] = 0)
    => \E e \in Engine : exec[e] \in {"submitting", "live"}

(* recordFenceLoss: "Losing means stopping, not just muting".  An engine   *)
(* whose loss is recorded, once its writers are done, drives nothing.      *)
LosingMeansStopping ==
  \A e \in Engine : e \in fenceBroken /\ Quiet(e) => exec[e] # "live"

(* persistGraph: "Writing requires holding".  A writer that had a claim to *)
(* compare and was let through compared a claim of its own engine.         *)
WritingRequiresHolding ==
  \A e \in Engine, i \in Writer :
    At(e, i, "manifest") /\ w[e][i].mine # None => w[e][i].mine.owner = e

(* claimFence: "Two lost attempts means another process is actively        *)
(* contending for the same task".  A loss is only ever recorded while      *)
(* another live engine has the task or is still writing it.                *)
LossNeedsRival ==
  \A e \in Engine :
    e \in fenceBroken => \E f \in Engine \ {e} : loaded[f] = "yes" \/ exec[f] = "stopped"

(* The sequence on disk is the epoch of the claims and never goes back.    *)
SeqMonotonic ==
  [][fence # None => fence' # None /\ fence'.seq >= fence.seq]_vars

-----------------------------------------------------------------------------
(* No action tells two incarnations, or two goroutines of one, apart.      *)
Interchangeable == Permutations(Engine) \cup Permutations(Writer)
=============================================================================
