----------------------------- MODULE ToolCalls -----------------------------
(***************************************************************************)
(* processToolCalls (core/spawner_tool_exec.go): the parallel steps of the *)
(* engine calling the tools of one MCP server through the process-wide     *)
(* read cache (core/tool_read_cache.go).  A call is a key: the tool's name *)
(* and its canonical arguments.  The server is a version number: a read    *)
(* answers the version it saw, a write makes the next one.  A broken       *)
(* connection loses the request or only its answer, and the code then      *)
(* repeats the call once; a call that times out may still be executed      *)
(* later.                                                                  *)
(***************************************************************************)
EXTENDS Integers, FiniteSets

CONSTANTS
  Step,          \* steps running in parallel, all using this server
  ReadKey,       \* cacheable read calls
  WriteKey,      \* state-changing calls
  Marked,        \* reads whose answer redactAndMarkUntrusted rewrites
  HardCap,       \* dedupHardCap
  MaxEntries,    \* readCacheMaxEntries
  MaxCalls,      \* bound on the calls of each step: [Step -> Nat]
  MaxVersion     \* bound on the writes the server executes

VARIABLES
  version,       \* state of the external server
  cache,         \* domainReadCache.entries: version cached for a read, or None
  steps,         \* toolExecState of each step, and its call in flight
  late,          \* steps whose abandoned write the server may still execute
  records,       \* EffectTracker: writes recorded for a step
  ran,           \* writes the server executed for a step
  overlapped     \* a write was in flight together with another call, or abandoned

toolVars == <<version, cache, steps, late, records, ran, overlapped>>

Key == ReadKey \cup WriteKey
None == -1
Idle == [at |-> "idle", key |-> None, got |-> None, retried |-> FALSE]

TypeOK ==
  /\ version \in 0..MaxVersion
  /\ cache \in [ReadKey -> 0..MaxVersion \cup {None}]
  /\ DOMAIN steps = Step
  /\ \A s \in Step :
       /\ steps[s].call.at \in {"idle", "calling", "executed", "lost"}
       /\ steps[s].turnKeys \subseteq Key
       /\ \A k \in Key : /\ steps[s].count[k] \in 0..MaxCalls[s]
                         /\ steps[s].streak[k] \in 0..HardCap
       /\ steps[s].calls \in 0..MaxCalls[s]
  /\ late \subseteq Step
  /\ records \in [Step -> Nat]
  /\ ran \in [Step -> Nat]
  /\ overlapped \in BOOLEAN

Init ==
  /\ version = 0
  /\ cache = [k \in ReadKey |-> None]
  /\ steps = [s \in Step |->
                [call |-> Idle, turnKeys |-> {}, calls |-> 0,
                 count |-> [k \in Key |-> 0],
                 streak |-> [k \in Key |-> 0],
                 last |-> [k \in Key |-> None]]]
  /\ late = {}
  /\ records = [s \in Step |-> 0]
  /\ ran = [s \in Step |-> 0]
  /\ overlapped = FALSE

(***************************************************************************)
(* The read cache.                                                         *)
(***************************************************************************)
Cached == {k \in ReadKey : cache[k] # None}

\* Mutation: a write leaves the cached reads alone.
NoInvalidate == cache

Invalidate == [k \in ReadKey |-> None]

\* Put drops the whole cache first when it holds the maximum.
Put(k, v) ==
  IF Cardinality(Cached) >= MaxEntries
  THEN [x \in ReadKey |-> IF x = k THEN v ELSE None]
  ELSE [cache EXCEPT ![k] = v]

\* noteToolResult on an answer that came from the server or from the cache:
\* the cache keeps the text before redaction, so the two may differ.
noteToolResult(st, k, v, fromCache) ==
  LET answer == IF k \in Marked /\ ~fromCache THEN 1000 + v ELSE v
  IN IF st.last[k] = answer
     THEN [st EXCEPT !.streak[k] = @ + 1]
     ELSE [st EXCEPT !.last[k] = answer, !.streak[k] = 1]

(***************************************************************************)
(* One call of a turn, up to its first access to shared state.             *)
(***************************************************************************)
\* A new provider response: a fresh TurnIdempotencyContext.
NewTurn(s) ==
  /\ steps[s].call = Idle
  /\ steps[s].turnKeys # {}
  /\ steps[s].calls < MaxCalls[s]
  /\ steps' = [steps EXCEPT ![s].turnKeys = {}]
  /\ UNCHANGED <<version, cache, late, records, ran, overlapped>>

\* A1, the hard cap on identical answers, and the third identical call
\* without a reason: the call is answered without being made.
Refused(s, k, reason) ==
  \/ k \in steps[s].turnKeys
  \/ steps[s].streak[k] >= HardCap
  \/ steps[s].count[k] >= 2 /\ ~reason

RefuseCall(s) ==
  \E k \in Key, reason \in BOOLEAN :
    /\ steps[s].call = Idle
    /\ steps[s].calls < MaxCalls[s]
    /\ Refused(s, k, reason)
    /\ steps' = [steps EXCEPT ![s].turnKeys = @ \cup {k}, ![s].calls = @ + 1]
    /\ UNCHANGED <<version, cache, late, records, ran, overlapped>>

\* The call is counted, also when it then goes no further: built-in tools
\* the role may not use, a write without a reason while require_write_reason
\* (reloadable) is set, a tool the server does not serve.
Counted(s, k) ==
  [steps[s] EXCEPT !.turnKeys = @ \cup {k}, !.calls = @ + 1, !.count[k] = @ + 1]

BlockCall(s) ==
  \E k \in Key, reason \in BOOLEAN :
    /\ steps[s].call = Idle
    /\ steps[s].calls < MaxCalls[s]
    /\ ~Refused(s, k, reason)
    /\ steps' = [steps EXCEPT ![s] = Counted(s, k)]
    /\ UNCHANGED <<version, cache, late, records, ran, overlapped>>

InFlight(s) == steps[s].call # Idle
Writing(s) == InFlight(s) /\ steps[s].call.key \in WriteKey

\* Does starting key k in step s bring a write and another call together?
Overlaps(s, k) ==
  \/ late # {}
  \/ \E t \in Step \ {s} : InFlight(t) /\ (k \in WriteKey \/ Writing(t))

StartWrite(s) ==
  \E k \in WriteKey, reason \in BOOLEAN :
    /\ steps[s].call = Idle
    /\ steps[s].calls < MaxCalls[s]
    /\ ~Refused(s, k, reason)
    /\ cache' = Invalidate
    /\ steps' = [steps EXCEPT ![s] = [Counted(s, k) EXCEPT
                   !.call = [Idle EXCEPT !.at = "calling", !.key = k]]]
    /\ overlapped' = (overlapped \/ Overlaps(s, k))
    /\ UNCHANGED <<version, late, records, ran>>

\* A cached answer within its TTL is replayed, nothing is executed.
ReadHit(s) ==
  \E k \in ReadKey, reason \in BOOLEAN :
    /\ steps[s].call = Idle
    /\ steps[s].calls < MaxCalls[s]
    /\ ~Refused(s, k, reason)
    /\ cache[k] # None
    /\ steps' = [steps EXCEPT ![s] = noteToolResult(Counted(s, k), k, cache[k], TRUE)]
    /\ UNCHANGED <<version, cache, late, records, ran, overlapped>>

\* No entry, or one past its TTL, which Get deletes.
StartRead(s) ==
  \E k \in ReadKey, reason \in BOOLEAN :
    /\ steps[s].call = Idle
    /\ steps[s].calls < MaxCalls[s]
    /\ ~Refused(s, k, reason)
    /\ cache' = [cache EXCEPT ![k] = None]
    /\ steps' = [steps EXCEPT ![s] = [Counted(s, k) EXCEPT
                   !.call = [Idle EXCEPT !.at = "calling", !.key = k]]]
    /\ overlapped' = (overlapped \/ Overlaps(s, k))
    /\ UNCHANGED <<version, late, records, ran>>

(***************************************************************************)
(* The server and the connection.                                          *)
(***************************************************************************)
\* The server executes the request; its answer arrives or is lost with the
\* connection.
Execute(s) ==
  LET k == steps[s].call.key
      v == IF k \in WriteKey THEN version + 1 ELSE version
  IN /\ steps[s].call.at = "calling"
     /\ v <= MaxVersion
     /\ version' = v
     /\ ran' = [ran EXCEPT ![s] = IF k \in WriteKey THEN @ + 1 ELSE @]
     /\ \E at \in {"executed", "lost"} :
          steps' = [steps EXCEPT ![s].call.at = at, ![s].call.got = v]
     /\ UNCHANGED <<cache, late, records, overlapped>>

\* The process died before it saw the request.
LoseRequest(s) ==
  /\ steps[s].call.at = "calling"
  /\ steps' = [steps EXCEPT ![s].call.at = "lost"]
  /\ UNCHANGED <<version, cache, late, records, ran, overlapped>>

\* An abandoned write reaches the server after all.
LateWrite(s) ==
  /\ s \in late
  /\ version < MaxVersion
  /\ late' = late \ {s}
  /\ version' = version + 1
  /\ ran' = [ran EXCEPT ![s] = @ + 1]
  /\ UNCHANGED <<cache, steps, records, overlapped>>

(***************************************************************************)
(* The answer.  Every path through an executed call ends in recordEffect.  *)
(***************************************************************************)
\* Mutation: only the success path records the effect.
recordEffectOnSuccess(s, k) ==
  [records EXCEPT ![s] = IF k \in WriteKey /\ steps[s].call.at = "executed"
                         THEN @ + 1 ELSE @]

recordEffect(s, k) ==
  [records EXCEPT ![s] = IF k \in WriteKey THEN @ + 1 ELSE @]

Succeed(s) ==
  LET k == steps[s].call.key
      v == steps[s].call.got
  IN /\ steps[s].call.at = "executed"
     /\ cache' = IF k \in ReadKey THEN Put(k, v) ELSE cache
     /\ steps' = [steps EXCEPT ![s] =
                    noteToolResult([@ EXCEPT !.call = Idle], k, v, FALSE)]
     /\ records' = recordEffect(s, k)
     /\ UNCHANGED <<version, late, ran, overlapped>>

\* A connection error: evict the client and repeat the call once.
Reconnect(s) ==
  /\ steps[s].call.at = "lost"
  /\ ~steps[s].call.retried
  /\ steps' = [steps EXCEPT ![s].call.at = "calling", ![s].call.retried = TRUE]
  /\ UNCHANGED <<version, cache, late, records, ran, overlapped>>

FailAgain(s) ==
  LET k == steps[s].call.key
  IN /\ steps[s].call.at = "lost"
     /\ steps[s].call.retried
     /\ steps' = [steps EXCEPT ![s].call = Idle]
     /\ records' = recordEffect(s, k)
     /\ UNCHANGED <<version, cache, late, ran, overlapped>>

\* The tool's own deadline passes first; the request stays with the server.
TimeOut(s) ==
  LET k == steps[s].call.key
  IN /\ steps[s].call.at \in {"calling", "executed"}
     /\ steps' = [steps EXCEPT ![s].call = Idle]
     /\ records' = recordEffect(s, k)
     /\ IF k \in WriteKey /\ steps[s].call.at = "calling"
        THEN late' = late \cup {s} /\ overlapped' = TRUE
        ELSE UNCHANGED <<late, overlapped>>
     /\ UNCHANGED <<version, cache, ran>>

Next ==
  \E s \in Step :
    \/ NewTurn(s) \/ RefuseCall(s) \/ BlockCall(s)
    \/ StartWrite(s) \/ ReadHit(s) \/ StartRead(s)
    \/ Execute(s) \/ LoseRequest(s) \/ LateWrite(s)
    \/ Succeed(s) \/ Reconnect(s) \/ FailAgain(s) \/ TimeOut(s)

(***************************************************************************)
(* Properties.                                                             *)
(***************************************************************************)
\* "A state-changing call on an mcpID invalidates every cached read for that
\* server (Invalidate), keeping the cache coherent with external writes"
\* (tool_read_cache.go): while no write is in flight, a cached read is what
\* the server would answer now.
CacheCoherent ==
  (\A s \in Step : ~Writing(s)) /\ late = {} =>
    \A k \in Cached : cache[k] = version

\* The cache is coherent as long as no write ever overlapped another call of
\* the server and none was abandoned: invalidating before the write runs is
\* enough for calls that follow one another, in one step or in several, and
\* whatever connection errors and retries happen.
CoherentAlone ==
  ~overlapped /\ (\A s \in Step : ~Writing(s)) => \A k \in Cached : cache[k] = version

\* The execution still to come of an abandoned write.
Coming(s) == IF s \in late THEN 1 ELSE 0

\* Compensation can see every write: when a step has no call in flight, each
\* write the server executed for it, be it one whose answer was lost, that
\* was repeated by the reconnect or that arrived late, is covered by a
\* record, and one record stands for at most two executions.
EffectsAccounted ==
  \A s \in Step : ~InFlight(s) => ran[s] + Coming(s) <= 2 * records[s]
=============================================================================
