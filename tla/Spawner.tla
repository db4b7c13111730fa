------------------------------ MODULE Spawner ------------------------------
(***************************************************************************)
(* doSpawn (core/spawner_dospawn.go): the turn loop that drives one step.  *)
(* A turn asks the candidate providers one after the other for a response, *)
(* then completes the step, nudges the model or executes tool calls.  What *)
(* a provider answers and when another step puts a provider on cooldown is *)
(* up to the environment.  The trace of executed tool calls is kept as the *)
(* kinds of calls in it; tool execution itself is module ToolCalls, the    *)
(* loop detector module Sieve.                                             *)
(***************************************************************************)
EXTENDS Integers

CONSTANTS
  MaxTurns,          \* calculateMaxTurns
  Candidates,        \* number of candidate provider configurations
  MaxDuplicates,     \* maxConsecutiveDuplicates
  GraceTurns,        \* StagnationGraceTurns
  MaxParseFailures,  \* maxConsecutiveParseFailures
  MaxEmptyRetries,   \* maxEmptyRespRetries
  FSOnlyStreakLimit, \* 0 switches the guard off
  ZeroEffectNudge,   \* feature flag
  MidAbandonNudge    \* feature flag

VARIABLES
  pc,         \* where doSpawn is
  turn,
  cand,       \* candidate being tried in this turn
  hasTools,   \* the role has skills or MCP bindings
  loop,       \* the counters and flags carried from turn to turn
  trace,      \* kinds of the tool interactions so far: "read", "write"
  effective,  \* candidate that produced the last response, 0 if none
  stored,     \* trace in the task store for this step, or Nothing
  cooling,    \* candidates on rate-limit cooldown
  cancelled,  \* the task's context
  result      \* [kind, why] once doSpawn has returned

spawnVars == <<pc, turn, cand, hasTools, loop, trace, effective, stored, cooling,
          cancelled, result>>

Nothing == {"nothing"}
Pending == [kind |-> "none", why |-> "running"]

TypeOK ==
  /\ pc \in {"prepare", "turn", "candidate", "retry", "respond", "asleep", "done"}
  /\ turn \in 0..MaxTurns
  /\ cand \in 1..Candidates
  /\ hasTools \in BOOLEAN
  /\ loop \in [parseFailures : 0..MaxParseFailures,
               emptyRetries : 0..MaxEmptyRetries + 1,
               sieveHits : 0..2,
               repeats : 0..MaxTurns,
               hinted : BOOLEAN,
               hintAt : 0..MaxTurns,
               fsStreak : 0..MaxTurns,
               zeroEffectNudged : BOOLEAN,
               midAbandonNudged : BOOLEAN]
  /\ trace \subseteq {"read", "write"}
  /\ effective \in 0..Candidates
  /\ stored \in SUBSET {"read", "write"} \cup {Nothing}
  /\ cooling \subseteq 1..Candidates
  /\ cancelled \in BOOLEAN
  /\ result.kind \in {"none", "ok", "partial", "failed", "delegation", "error"}

Init ==
  /\ pc = "prepare"
  /\ turn = 0
  /\ cand = 1
  /\ hasTools \in BOOLEAN
  /\ loop = [parseFailures |-> 0, emptyRetries |-> 0, sieveHits |-> 0,
             repeats |-> 0, hinted |-> FALSE, hintAt |-> 0, fsStreak |-> 0,
             zeroEffectNudged |-> FALSE, midAbandonNudged |-> FALSE]
  /\ trace = {}
  /\ effective = 0
  /\ stored = Nothing
  /\ cooling = {}
  /\ cancelled = FALSE
  /\ result = Pending

(***************************************************************************)
(* Ways to leave a turn.                                                   *)
(***************************************************************************)
Return(kind, why) ==
  /\ pc' = "done"
  /\ result' = [kind |-> kind, why |-> why]
  /\ UNCHANGED <<turn, cand>>

persistTraceOnError == stored' = trace

NextTurn ==
  /\ pc' = "turn"
  /\ turn' = turn + 1
  /\ UNCHANGED <<cand, result>>

\* continue turnLoop without leaving the turn it is in.
RepeatTurn ==
  /\ pc' = "turn"
  /\ UNCHANGED <<turn, cand, result>>

NextCandidate ==
  /\ pc' = "candidate"
  /\ cand' = cand + 1
  /\ UNCHANGED <<turn, result>>

LastCandidate == cand = Candidates

(***************************************************************************)
(* prepareSpawn, and the head of a turn.                                   *)
(***************************************************************************)
Prepare ==
  /\ pc = "prepare"
  /\ \/ Return("error", "prepare")
     \/ Return("failed", "early")
     \/ Return("delegation", "early")
     \/ pc' = "turn" /\ UNCHANGED <<turn, cand, result>>
  /\ UNCHANGED <<hasTools, loop, trace, effective, stored, cooling, cancelled>>

BeginTurn ==
  /\ pc = "turn"
  /\ turn < MaxTurns
  /\ IF cancelled
     THEN Return("failed", "cancelled")
     ELSE pc' = "candidate" /\ cand' = 1 /\ UNCHANGED <<turn, result>>
  /\ UNCHANGED <<hasTools, loop, trace, effective, stored, cooling, cancelled>>

MaxTurnsExhausted ==
  /\ pc = "turn"
  /\ turn = MaxTurns
  /\ persistTraceOnError
  /\ Return("error", "max_turns")
  /\ UNCHANGED <<hasTools, loop, trace, effective, cooling, cancelled>>

(***************************************************************************)
(* One candidate.                                                          *)
(***************************************************************************)
SkipCooling ==
  /\ pc = "candidate"
  /\ cand \in cooling
  /\ ~LastCandidate
  /\ NextCandidate
  /\ UNCHANGED <<hasTools, loop, trace, effective, stored, cooling, cancelled>>

Usable == pc = "candidate" /\ (cand \notin cooling \/ LastCandidate)

\* providers.Get fails; the last candidate's error is returned as it is.
NoProvider ==
  /\ Usable
  /\ IF LastCandidate THEN Return("error", "no_provider") ELSE NextCandidate
  /\ UNCHANGED <<hasTools, loop, trace, effective, stored, cooling, cancelled>>

\* The prompt does not render, or the context audit stays critical.
NoPrompt ==
  /\ Usable
  /\ Return("failed", "prompt") \/ Return("error", "escalation")
  /\ UNCHANGED <<hasTools, loop, trace, effective, stored, cooling, cancelled>>

Delegate ==
  /\ Usable
  /\ Return("delegation", "provider")
  /\ UNCHANGED <<hasTools, loop, trace, effective, stored, cooling, cancelled>>

Respond ==
  /\ Usable
  /\ pc' = "respond"
  /\ effective' = cand
  /\ UNCHANGED <<turn, cand, result, hasTools, loop, trace, stored, cooling, cancelled>>

\* A context-limit error and something to compress: one more call.
CompressAndRetry ==
  /\ Usable
  /\ pc' = "retry"
  /\ UNCHANGED <<turn, cand, result, hasTools, loop, trace, effective, stored,
                 cooling, cancelled>>

RetrySucceeds ==
  /\ pc = "retry"
  /\ pc' = "respond"
  /\ effective' = cand
  /\ UNCHANGED <<turn, cand, result, hasTools, loop, trace, stored, cooling, cancelled>>

\* Mutation: an empty response retried without counting and without using up a turn.
EmptyResponseFree ==
  /\ Usable
  /\ IF ~LastCandidate THEN NextCandidate ELSE RepeatTurn
  /\ UNCHANGED <<loop, stored, hasTools, trace, effective, cooling, cancelled>>

\* Zero tokens, no calls, no text.
EmptyResponse ==
  LET retries == loop.emptyRetries + 1
  IN /\ Usable
     /\ IF ~LastCandidate
        THEN NextCandidate /\ UNCHANGED <<loop, stored>>
        ELSE /\ loop' = [loop EXCEPT !.emptyRetries = retries]
             /\ IF retries <= MaxEmptyRetries
                THEN NextTurn /\ UNCHANGED stored
                ELSE persistTraceOnError /\ Return("error", "empty_response")
     /\ UNCHANGED <<hasTools, trace, effective, cooling, cancelled>>

CallFails ==
  /\ Usable \/ pc = "retry"
  /\ \E retryable \in BOOLEAN :
       IF retryable /\ ~LastCandidate
       THEN NextCandidate /\ UNCHANGED stored
       ELSE persistTraceOnError /\ Return("error", "provider")
  /\ UNCHANGED <<hasTools, loop, trace, effective, cooling, cancelled>>

(***************************************************************************)
(* The response.                                                           *)
(***************************************************************************)
HeartbeatEnds ==
  /\ pc = "respond"
  /\ Return("ok", "heartbeat") \/ Return("failed", "heartbeat")
  /\ UNCHANGED <<hasTools, loop, trace, effective, stored, cooling, cancelled>>

HeartbeatSleep ==
  /\ pc = "respond"
  /\ pc' = "asleep"
  /\ UNCHANGED <<turn, cand, result, hasTools, loop, trace, effective, stored,
                 cooling, cancelled>>

WakeUp ==
  /\ pc = "asleep"
  /\ NextTurn \/ (cancelled /\ Return("failed", "cancelled"))
  /\ UNCHANGED <<hasTools, loop, trace, effective, stored, cooling, cancelled>>

\* completeTurn: no tool calls.  A hollow output is ParseOutput's fallback, a
\* partial with confidence 0.3.
Outputs ==
  {[status |-> "ok", low |-> FALSE, hollow |-> FALSE],
   [status |-> "partial", low |-> FALSE, hollow |-> FALSE],
   [status |-> "partial", low |-> TRUE, hollow |-> FALSE],
   [status |-> "partial", low |-> TRUE, hollow |-> TRUE],
   [status |-> "failed", low |-> FALSE, hollow |-> FALSE]}

TurnsLeft == turn < MaxTurns - 1

noToolNudge(out) ==
  /\ TurnsLeft
  /\ trace = {}
  /\ out.low \/ (turn = 0 /\ out.status # "ok")

\* Mutation: the gate left out.
zeroEffectGateNever(out) == FALSE

zeroEffectGate(out) ==
  /\ ZeroEffectNudge
  /\ ~loop.zeroEffectNudged
  /\ trace # {}
  /\ out.status = "ok" \/ out.hollow
  /\ TurnsLeft
  /\ "write" \notin trace

midAbandonGate(status, out) ==
  /\ MidAbandonNudge
  /\ ~loop.midAbandonNudged
  /\ trace # {}
  /\ status = "partial"
  /\ ~out.hollow
  /\ TurnsLeft
  /\ "write" \notin trace

completeTurn(out, malformed) ==
  LET failures == IF out.hollow THEN loop.parseFailures + 1 ELSE 0
      parsed == [loop EXCEPT !.parseFailures = failures]
      status == IF hasTools /\ trace = {} /\ out.status = "ok" THEN "partial"
                ELSE out.status
  IN \/ /\ failures >= MaxParseFailures
        /\ loop' = parsed
        /\ Return(out.status, "spin")
        /\ UNCHANGED stored
     \/ /\ failures < MaxParseFailures
        /\ \/ /\ malformed \/ noToolNudge(out)
              /\ loop' = parsed
              /\ NextTurn
              /\ UNCHANGED stored
           \/ /\ ~malformed /\ ~noToolNudge(out)
              /\ zeroEffectGate(out)
              /\ loop' = [parsed EXCEPT !.zeroEffectNudged = TRUE]
              /\ NextTurn
              /\ UNCHANGED stored
           \/ /\ ~malformed /\ ~noToolNudge(out) /\ ~zeroEffectGate(out)
              /\ midAbandonGate(status, out)
              /\ loop' = [parsed EXCEPT !.midAbandonNudged = TRUE]
              /\ NextTurn
              /\ UNCHANGED stored
           \/ /\ ~malformed /\ ~noToolNudge(out) /\ ~zeroEffectGate(out)
              /\ ~midAbandonGate(status, out)
              /\ loop' = parsed
              /\ stored' = trace
              /\ Return(status, "answer")

CompleteTurn ==
  /\ pc = "respond"
  /\ \E out \in Outputs, malformed \in BOOLEAN : completeTurn(out, malformed)
  /\ UNCHANGED <<hasTools, trace, effective, cooling, cancelled>>

\* The loop detector intercepts the calls: one correction, then a best-effort
\* answer or a failure.
sieveGuardianTurn ==
  /\ pc = "respond"
  /\ loop' = [loop EXCEPT !.sieveHits = @ + 1]
  /\ IF loop.sieveHits = 0
     THEN NextTurn
     ELSE Return("partial", "loop") \/ Return("failed", "loop")
  /\ UNCHANGED <<hasTools, trace, effective, stored, cooling, cancelled>>

stagnationStep(repeats) ==
  IF repeats <= MaxDuplicates THEN "none"
  ELSE IF ~loop.hinted THEN "hint"
  ELSE IF repeats > loop.hintAt + GraceTurns THEN "kill"
  ELSE "grace"

\* Tool calls: `kinds` are the interactions added to the trace (none when all
\* were refused), `repeat` compares the turn's hash with the previous one.
ToolTurn ==
  /\ pc = "respond"
  /\ \E kinds \in SUBSET {"read", "write"}, fsOnly \in BOOLEAN,
        repeat \in {"same", "different", "untracked"} :
       LET repeats == CASE repeat = "same" -> loop.repeats + 1
                        [] repeat = "different" -> 1
                        [] repeat = "untracked" -> 0
           decision == stagnationStep(repeats)
           streak == IF fsOnly THEN loop.fsStreak + 1 ELSE 0
           grown == trace \cup kinds
       IN /\ repeat = "same" => loop.repeats > 0
          /\ trace' = grown
          /\ loop' = [loop EXCEPT
                        !.repeats = repeats,
                        !.hinted = @ \/ decision = "hint",
                        !.hintAt = IF decision = "hint" THEN repeats ELSE @,
                        !.fsStreak = IF decision = "kill" THEN @ ELSE streak]
          /\ IF decision = "kill"
             THEN Return("partial", "stagnation") /\ UNCHANGED stored
             ELSE IF FSOnlyStreakLimit > 0 /\ streak >= FSOnlyStreakLimit
             THEN stored' = grown /\ Return("error", "fs_only_stall")
             ELSE NextTurn /\ UNCHANGED stored
  /\ UNCHANGED <<hasTools, effective, cooling, cancelled>>

(***************************************************************************)
(* The environment: cooldowns set by other steps and expiring, CancelTask. *)
(***************************************************************************)
Cool ==
  /\ pc # "done"
  /\ \E c \in 1..Candidates :
       cooling' = IF c \in cooling THEN cooling \ {c} ELSE cooling \cup {c}
  /\ UNCHANGED <<pc, turn, cand, hasTools, loop, trace, effective, stored,
                 cancelled, result>>

Cancel ==
  /\ pc # "done"
  /\ ~cancelled
  /\ cancelled' = TRUE
  /\ UNCHANGED <<pc, turn, cand, hasTools, loop, trace, effective, stored,
                 cooling, result>>

doSpawn ==
  \/ Prepare \/ BeginTurn \/ MaxTurnsExhausted
  \/ SkipCooling \/ NoProvider \/ NoPrompt \/ Delegate \/ Respond
  \/ CompressAndRetry \/ RetrySucceeds \/ EmptyResponse \/ CallFails
  \/ HeartbeatEnds \/ HeartbeatSleep \/ WakeUp
  \/ CompleteTurn \/ sieveGuardianTurn \/ ToolTurn

Next == doSpawn \/ Cool \/ Cancel

(***************************************************************************)
(* Properties.                                                             *)
(***************************************************************************)
\* A final answer of status ok from a role with tools is earned: the step
\* executed a tool call, and if all it did was read, it has been told once
\* that nothing it did could have changed anything, or was on its last turn
\* (the gates of completeTurn; a heartbeat completion bypasses them all).
OkIsEarned ==
  result.kind = "ok" /\ result.why = "answer" /\ hasTools =>
    /\ trace # {}
    /\ ZeroEffectNudge => \/ "write" \in trace
                          \/ loop.zeroEffectNudged
                          \/ turn = MaxTurns - 1

\* Whatever the providers answer, doSpawn returns: every path through a turn
\* ends the step, moves to the next candidate or uses up a turn.
Done == pc = "done"
StepEnds == <>Done
=============================================================================
