---------------------------- MODULE ChatHarness ----------------------------
(***************************************************************************)
(* ChatHarness.Run (pkg/chat/chat_harness.go): one chat turn of a session   *)
(* as a bounded loop of provider calls and tool calls, with its one-shot    *)
(* corrections (steers), the replay of cached reads, the mounting of a      *)
(* large input and the delegation to the orchestrator.                      *)
(***************************************************************************)
EXTENDS Integers

CONSTANTS
  MaxTurns,      \* h.MaxTurns
  MaxCalls,      \* bound on the tool calls of one response
  StreakLimit,   \* VORTEX_CODE_EXEC_STREAK
  MaxDefects     \* maxContractDefectSteers

VARIABLES
  at,            \* "start", "turn", "stream", "tools", "end"
  turn, left,    \* left: tool calls of the response still to execute
  overflowed,    \* overflowRetried
  noText, nudged, lastOK, turnOK,
  streak, execSteered,
  artifacts,     \* the declared artifacts: "missing", "defective", "complete"
  complete,      \* contractSteers
  defects,       \* contractDefectSteers
  steer,         \* PendingSteer
  cached,        \* the read's result is in the sieve's cache
  stale,         \* ... and the workspace has changed since
  staleShown,    \* such a result was replayed
  behind,        \* something else than a completed action changed the workspace
  background,    \* a delegated task is running
  cancelled, outcome, indexed

chatVars == <<at, turn, left, overflowed, noText, nudged, lastOK, turnOK,
              streak, execSteered, artifacts, complete, defects, steer, cached, stale,
              staleShown, behind, background, cancelled, outcome, indexed>>

Tool == {"read", "write", "exec", "delegate", "status"}

TypeOK ==
  /\ at \in {"start", "turn", "stream", "tools", "end"}
  /\ turn \in 0..MaxTurns /\ left \in 0..MaxCalls
  /\ noText \in 0..2 /\ streak \in 0..StreakLimit
  /\ complete \in 0..1 /\ defects \in 0..MaxDefects
  /\ artifacts \in {"missing", "defective", "complete"}
  /\ outcome \in {"none", "done", "delegated", "error", "max_turns"}

Init ==
  /\ at = "start" /\ turn = 0 /\ left = 0 /\ overflowed = FALSE
  /\ noText = 0 /\ nudged = FALSE /\ lastOK = FALSE /\ turnOK = FALSE
  /\ streak = 0 /\ execSteered = FALSE
  /\ artifacts = "missing" /\ complete = 0 /\ defects = 0 /\ steer = FALSE
  /\ cached = FALSE /\ stale = FALSE /\ staleShown = FALSE /\ behind = FALSE
  /\ background = FALSE /\ cancelled = FALSE /\ outcome = "none" /\ indexed = FALSE

steers == <<overflowed, noText, nudged, lastOK, turnOK, streak, execSteered,
            complete, defects, steer>>
workspace == <<artifacts, cached, stale, staleShown, behind, background>>

\* The deferred indexTurn: text and no error.
Finish(o) ==
  /\ at' = "end" /\ outcome' = o
  /\ indexed' = (o = "done")
  /\ UNCHANGED <<left, cancelled>>

----------------------------------------------------------------------------

\* An input of more than half the window is mounted as a file; one that does
\* not fit at all is delegated, and mounted when that fails.
MountInput ==
  /\ at = "start"
  /\ \/ at' = "turn" /\ UNCHANGED <<outcome, indexed, left, cancelled, background>>
     \/ Finish("delegated") /\ background' = TRUE
  /\ UNCHANGED <<turn, steers, artifacts, cached, stale, staleShown, behind>>

BeginTurn ==
  /\ at = "turn"
  /\ IF turn = MaxTurns THEN Finish("max_turns")
     ELSE IF cancelled THEN Finish("error")
     ELSE at' = "stream" /\ UNCHANGED <<outcome, indexed, left, cancelled>>
  /\ UNCHANGED <<turn, steers, workspace>>

\* Mutant: the retry after an overflow is not latched.
AlwaysRetry == TRUE

MayRetryOverflow == ~overflowed

\* The stream fails: repetitive output costs a turn, the first overflow of
\* the context is retried with a truncated input (turn-- and continue).
StreamFails ==
  /\ at = "stream"
  /\ \/ /\ at' = "turn" /\ turn' = turn + 1
        /\ UNCHANGED <<steers, outcome, indexed, left, cancelled>>
     \/ /\ MayRetryOverflow
        /\ at' = "turn" /\ overflowed' = TRUE
        /\ UNCHANGED <<turn, noText, nudged, lastOK, turnOK, streak, execSteered,
                       complete, defects, steer, outcome, indexed, left, cancelled>>
     \/ Finish("error") /\ UNCHANGED <<turn, steers>>
  /\ UNCHANGED workspace

\* A response without tool calls is the answer.
Answer ==
  /\ at = "stream"
  /\ Finish("done")
  /\ UNCHANGED <<turn, steers, workspace>>

\* A response with n tool calls, with text or without: three silent turns in a
\* row draw one reminder per run, unless the last turn's tools gave something.
\* DetectPlanDrift may leave a steer for the last result of the turn.
ToolCalls(n, text) ==
  LET silent == IF text THEN 0 ELSE noText + 1
  IN /\ at = "stream"
     /\ at' = "tools" /\ left' = n /\ turnOK' = FALSE
     /\ noText' = silent % 3
     /\ nudged' = (nudged \/ (silent = 3 /\ ~lastOK))
     /\ steer' \in {steer, TRUE}
     /\ UNCHANGED <<turn, overflowed, lastOK, streak, execSteered, complete,
                    defects, workspace, cancelled, outcome, indexed>>

----------------------------------------------------------------------------
(* Tool calls.                                                             *)

\* After a call: the next one, or the next turn.
AfterCall(ok) ==
  /\ left' = left - 1
  /\ turnOK' = (turnOK \/ ok)
  /\ IF left = 1 THEN at' = "turn" /\ turn' = turn + 1 /\ lastOK' = (turnOK \/ ok)
     ELSE UNCHANGED <<at, turn, lastOK>>

\* The last result of a turn carries the pending steer, the completion marker
\* (once) or the list of defects (MaxDefects times).
LastResult(files) ==
  IF left = 1
  THEN /\ steer' = FALSE
       /\ complete' = IF complete = 0 /\ files = "complete" THEN 1 ELSE complete
       /\ defects' = IF complete = 0 /\ files = "defective" /\ defects < MaxDefects
                     THEN defects + 1 ELSE defects
  ELSE UNCHANGED <<steer, complete, defects>>

\* A cached read is replayed; the loop continues past LastResult.
Replay ==
  /\ at = "tools" /\ cached
  /\ AfterCall(FALSE)
  /\ staleShown' = (staleShown \/ stale)
  /\ UNCHANGED <<overflowed, noText, nudged, streak, execSteered, complete,
                 defects, steer, artifacts, cached, stale, behind, background, cancelled,
                 outcome, indexed>>

\* Mutant: completed actions keep the cache.
NeverClears(tool) == FALSE

\* toolResultPolicyFor: what is no read and no poll is an action.
ClearsCache(tool) == tool \in {"write", "exec", "delegate"}

Changes(tool) == tool \in {"write", "exec"}

\* A call succeeds: results of reads are cached, actions clear the cache; a streak
\* of execute_code without a write is pointed out once.
CallSucceeds(tool) ==
  /\ at = "tools" /\ (tool = "read" => ~cached)
  /\ AfterCall(TRUE)
  /\ artifacts' \in IF Changes(tool) THEN {"missing", "defective", "complete"} ELSE {artifacts}
  /\ cached' = ((cached /\ ~ClearsCache(tool)) \/ tool = "read")
  /\ stale' = ((stale \/ Changes(tool)) /\ cached /\ ~ClearsCache(tool))
  /\ background' = (background \/ tool = "delegate")
  /\ streak' = IF tool = "write" THEN 0
               ELSE IF tool = "exec" /\ streak < StreakLimit THEN streak + 1 ELSE streak
  /\ execSteered' = (execSteered \/ (tool = "exec" /\ streak' = StreakLimit))
  /\ LastResult(artifacts')
  /\ UNCHANGED <<overflowed, noText, nudged, staleShown, behind, cancelled, outcome, indexed>>

\* A call fails, possibly after it has done something; the cache is kept.
CallFails(tool) ==
  /\ at = "tools" /\ (tool = "read" => ~cached)
  /\ AfterCall(FALSE)
  /\ \E did \in (IF Changes(tool) THEN BOOLEAN ELSE {FALSE}) :
       /\ stale' = (stale \/ (did /\ cached))
       /\ behind' = (behind \/ did)
  /\ LastResult(artifacts)
  /\ UNCHANGED <<overflowed, noText, nudged, streak, execSteered, artifacts, cached,
                 staleShown, background, cancelled, outcome, indexed>>

----------------------------------------------------------------------------
(* The environment.                                                        *)

BackgroundWrites ==
  /\ background /\ ~behind
  /\ behind' = TRUE /\ stale' = cached
  /\ UNCHANGED <<at, turn, left, steers, artifacts, cached, staleShown, background, cancelled,
                 outcome, indexed>>

Cancel ==
  /\ ~cancelled /\ at # "end" /\ cancelled' = TRUE
  /\ UNCHANGED <<at, turn, left, steers, workspace, outcome, indexed>>

Run ==
  \/ MountInput \/ BeginTurn \/ StreamFails \/ Answer
  \/ \E n \in 1..MaxCalls, text \in BOOLEAN : ToolCalls(n, text)
  \/ Replay
  \/ \E tool \in Tool : CallSucceeds(tool) \/ CallFails(tool)

Next == Run \/ BackgroundWrites \/ Cancel

\* Run is one goroutine whose calls all have deadlines.
Spec == Init /\ [][Next]_chatVars /\ WF_chatVars(Run)

----------------------------------------------------------------------------
(* Properties.                                                             *)

\* Run always returns: the retry of an overflowed turn, which does not count
\* as a turn, cannot be taken for ever.
Over == at = "end"
RunEnds == <>Over

\* "[CACHED REPLAY -- same query as before; no database changes since last
\* call.]": a replayed read is older than no change made by a completed action
\* of the run.  (A failed action, or a delegated task in the background, may
\* have changed the workspace: behind.)
ReplayIsFresh == staleShown => behind

=============================================================================
