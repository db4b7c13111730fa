------------------------------- MODULE Sieve -------------------------------
(***************************************************************************)
(* The loop detector in front of tool execution (core/sieve).  A step      *)
(* proposes batches of tool calls; InspectToolCalls accepts a batch or     *)
(* reports InfiniteLoopDetected from the step's history of call hashes.    *)
(* The repetition threshold is one number for the whole process: every     *)
(* finished task adjusts it (ClearHistory), also for the tasks still       *)
(* running.  A call is the hash of its name and canonical arguments.       *)
(*                                                                         *)
(* The step modelled is a model that got stuck: after a free prefix it     *)
(* repeats one cycle of calls for ever.                                    *)
(***************************************************************************)
EXTENDS Integers, Sequences, FiniteSets, SequencesExt, FiniteSetsExt

CONSTANTS
  Call,               \* hashes of ordinary calls
  Poll,               \* hashes of polling calls, exempt from the checks
  MaxPeriod,          \* longest cycle a stuck model repeats
  MaxPrefix,          \* longest free prefix before it gets stuck
  ThresholdMin,       \* adaptiveThresholdMin
  ThresholdMax,       \* adaptiveThresholdMax
  RelaxConsecutive,   \* adaptiveRelaxConsecutive
  MaxHistory,         \* maxToolHistoryPerTask
  MaxEvictions,       \* bound on evictions of this step's history
  MaxMade             \* bound on the calls of a script (polls may repeat for ever)

VARIABLES
  script,       \* [prefix, cycle]: the calls the stuck model makes
  made,         \* calls of the script accepted or intercepted so far
  history,      \* toolHistory[taskID:stepID]
  intercepted,  \* interceptStats[taskID].interceptedHashes
  threshold,    \* ToolRepetitionThreshold
  cleanTasks,   \* consecutiveCleanTasks
  evictions,    \* times the map's overflow dropped this history
  phase         \* "running", "stopped" by an interception, "cleared"

sieveVars == <<script, made, history, intercepted, threshold, cleanTasks,
               evictions, phase>>

Scripts ==
  [prefix : SeqOf(Call, MaxPrefix),
   cycle : SeqOf(Call \cup Poll, MaxPeriod) \ {<<>>}]

ScriptAt(i) ==
  LET p == Len(script.prefix)
  IN IF i <= p THEN script.prefix[i]
     ELSE script.cycle[1 + ((i - p - 1) % Len(script.cycle))]

TypeOK ==
  /\ script \in Scripts
  /\ made \in 0..MaxMade + 1
  /\ history \in Seq(Call \cup Poll)
  /\ Len(history) <= MaxHistory
  /\ intercepted \subseteq Call
  /\ threshold \in ThresholdMin..ThresholdMax
  /\ cleanTasks \in 0..RelaxConsecutive
  /\ evictions \in 0..MaxEvictions
  /\ phase \in {"running", "stopped", "cleared"}

Init ==
  /\ script \in Scripts
  /\ made = 0
  /\ history = <<>>
  /\ intercepted = {}
  /\ threshold \in ThresholdMin..ThresholdMax
  /\ cleanTasks = 0
  /\ evictions = 0
  /\ phase = "running"

(***************************************************************************)
(* The checks of InspectToolCalls on one call k against the history h.     *)
(***************************************************************************)
LastOf(h, n) == SubSeq(h, Len(h) - n + 1, Len(h))

Occurrences(h, k) == Cardinality({i \in DOMAIN h : h[i] = k})

consecutiveCount(h, k) ==
  Max({n \in 0..Len(h) : \A i \in Len(h) - n + 1..Len(h) : h[i] = k})

\* At least threshold times, and half of the last 2 * threshold calls.
DenseInWindow(h, k) ==
  LET window == LastOf(h, Min({2 * threshold, Len(h)}))
      inWindow == Occurrences(window, k)
  IN inWindow >= threshold /\ 2 * inWindow >= Len(window)

\* Mutation: no bound on the total number of repetitions.
TotalReachedNever(h, k) == FALSE

TotalReached(h, k) == Occurrences(h, k) >= 2 * threshold

IsLoop(h, k) ==
  \/ consecutiveCount(h, k) >= threshold
  \/ DenseInWindow(h, k)
  \/ TotalReached(h, k)

\* The history, the new call included, ends with threshold rounds of one
\* cycle of period 4.
detectCycle(h) ==
  /\ Len(h) >= 4 * threshold
  /\ \A i \in Len(h) - 4 * threshold + 1..Len(h) - 4 : h[i] = h[i + 4]

\* One iteration of the loop over the batch: st.hit is the intercepted hash,
\* after which the remaining calls are not looked at.
InspectCall(st, k) ==
  IF st.hit # {} THEN st
  ELSE IF k \notin Poll /\ IsLoop(st.history, k)
  THEN [st EXCEPT !.hit = {k}, !.seen = @ + 1]
  ELSE LET longer == Append(st.history, k)
           kept == LastOf(longer, Min({MaxHistory, Len(longer)}))
       IN [history |-> kept,
           hit |-> IF k \notin Poll /\ detectCycle(kept) THEN {k} ELSE {},
           seen |-> st.seen + 1]

\* The next one or two calls of the script arrive as one batch.
InspectToolCalls ==
  /\ phase = "running"
  /\ made < MaxMade
  /\ \E n \in 1..2 :
       LET batch == [i \in 1..n |-> ScriptAt(made + i)]
           st == FoldLeft(InspectCall,
                          [history |-> history, hit |-> {}, seen |-> 0], batch)
       IN /\ made' = made + st.seen
          /\ history' = st.history
          /\ intercepted' = intercepted \cup st.hit
          /\ phase' = IF st.hit = {} THEN "running" ELSE "stopped"
  /\ UNCHANGED <<script, threshold, cleanTasks, evictions>>

\* Adaptive threshold: a finished task with `distinct` intercepted hashes.
\* The counter of clean tasks is only ever compared with RelaxConsecutive, so
\* it saturates there.
Adapt(distinct) ==
  LET clean == Min({cleanTasks + 1, RelaxConsecutive})
      lower == clean >= RelaxConsecutive /\ threshold > ThresholdMin
  IN IF distinct = 0
     THEN /\ threshold' = IF lower THEN threshold - 1 ELSE threshold
          /\ cleanTasks' = IF lower THEN 0 ELSE clean
     ELSE /\ cleanTasks' = 0
          /\ threshold' = IF distinct >= 2 /\ threshold < ThresholdMax
                          THEN threshold + 1 ELSE threshold

ClearHistory ==
  /\ phase = "stopped"
  /\ Adapt(Cardinality(intercepted))
  /\ history' = <<>>
  /\ intercepted' = {}
  /\ phase' = "cleared"
  /\ UNCHANGED <<script, made, evictions>>

\* Another task ends and clears its own history: the shared threshold moves
\* under the running step.
OtherTaskDone ==
  /\ phase = "running"
  /\ \E distinct \in 0..2 : Adapt(distinct)
  /\ UNCHANGED <<script, made, history, intercepted, evictions, phase>>

\* More than maxToolHistoryTasks histories are tracked: an inspection of
\* another step deletes every fourth of them, this one among them.
EvictedByOther ==
  /\ phase = "running"
  /\ evictions < MaxEvictions
  /\ history # <<>>
  /\ history' = <<>>
  /\ evictions' = evictions + 1
  /\ UNCHANGED <<script, made, intercepted, threshold, cleanTasks, phase>>

Next == InspectToolCalls \/ ClearHistory \/ OtherTaskDone \/ EvictedByOther

(***************************************************************************)
(* Properties.                                                             *)
(***************************************************************************)
\* A model stuck in a cycle of ordinary calls is intercepted before it starts
\* round 2 * threshold + 1 of the cycle, for the largest threshold in use, whatever it
\* did before and however other tasks move the threshold meanwhile; each
\* eviction of its history costs at most one more such run.  The check that
\* covers cycles of period 3 is the total count, of period 4 detectCycle.
CycleCaught ==
  Range(script.cycle) \cap Poll = {} =>
    made <= Len(script.prefix)
            + (1 + evictions) * (2 * ThresholdMax * Len(script.cycle) + 1)
=============================================================================
