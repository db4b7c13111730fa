------------------------------ MODULE Providers ------------------------------
(***************************************************************************)
(* Calls of model providers: the candidates of a spawn                     *)
(* (core/spawner_dospawn.go), the pools of registered instances            *)
(* (providers/router.go), the factory and its cache (providers/factory.go),*)
(* the retrying and the fallback wrapper (providers/retry.go, fallback.go),*)
(* the adapters of the wire protocols, and the cooldown a rate-limited step*)
(* leaves behind (core/scheduler_dag_exec.go, config/registry_impl.go).    *)
(*                                                                         *)
(* An instance is named by its cache key.  Time is abstracted to whether a *)
(* deadline that was set has passed.                                       *)
(***************************************************************************)
EXTENDS Integers, Sequences, FiniteSets

CONSTANTS
    Key,          \* cache keys of provider configurations
    Pool,         \* pools: names of configured providers
    PoolOf,       \* [Key -> Pool]: the pool a key's slot belongs to
    Parent,       \* [Pool -> Key]: the key of the pool's own configuration
    Instance,     \* keys of configured instances, registered at start
    FallbackOf,   \* [Pool -> Seq(Key)]: its fallback_chain
    AdaptersOf,   \* [Key -> SUBSET Adapter]: the protocols its type may name
    Broken,       \* keys no provider can be built for
    Candidates,   \* Seq(Pool): the candidates of every spawn, in order
    Helper,       \* keys that calls outside spawns use
    Step,         \* steps being run
    MaxRetries,   \* RetryingProvider.MaxRetries
    FailLimit,    \* failures after which a slot counts as broken (3)
    MaxSpawns,    \* bound: spawns of a step
    MaxReloads    \* bound: reloads of the configuration

VARIABLES
    slots,      \* [Key -> slot of the global router]; kept with the cache
    cooldown,   \* [Pool -> "none" | "cooling"]: Registry.ProviderHealth
    wasCooling, \* pools with WasCoolingDown
    spawn,      \* [Step -> the provider call under way]
    providerID, \* [Step -> the pool of its last successful spawn, or None]
    reloads,
    late,       \* ghost: slots limited after a spawn found them healthy
    backups     \* ghost: the instances are registered

providerVars == <<slots, cooldown, wasCooling, spawn, providerID, reloads, late, backups>>

None == "none"

Unregistered == [status |-> "none", fails |-> 0, passed |-> FALSE]
Fresh == [status |-> "healthy", fails |-> 0, passed |-> FALSE]

Idle == [pc |-> "idle", cand |-> 0, chosen |-> None, using |-> <<>>, attempt |-> 0,
         err |-> None, tried |-> {}, done |-> 0]

\* RegisterConfiguredInstances: every instance that can be built gets a slot,
\* and so does every provider of the fallback chain it inherits.
Registered(sl, k) ==
    LET made == ({k} \cup {FallbackOf[PoolOf[k]][i] : i \in 1..Len(FallbackOf[PoolOf[k]])})
                \ Broken
    IN  IF k \in Broken THEN sl
        ELSE [j \in Key |-> IF j \in made /\ sl[j].status = "none" THEN Fresh ELSE sl[j]]

RegisterConfiguredInstances ==
    [j \in Key |->
        IF \E k \in Instance : Registered([i \in Key |-> Unregistered], k)[j] = Fresh
        THEN Fresh ELSE Unregistered]

\* A step may have been spawned before, by an earlier round of its loop.
Init ==
    /\ slots = RegisterConfiguredInstances
    /\ cooldown = [p \in Pool |-> "none"] /\ wasCooling = {}
    /\ spawn = [s \in Step |-> Idle]
    /\ \E p \in {None, Candidates[1]} : providerID = [s \in Step |-> p]
    /\ reloads = 0 /\ late = {} /\ backups = TRUE

-----------------------------------------------------------------------------
(* The router of slots *)

\* Mutant: the state of a slot is not looked at.
AnySlot(slot) == slot.status # "none"

IsHealthy(slot) ==
    \/ slot.status = "healthy"
    \/ slot.status \in {"limited", "error"} /\ slot.passed

ReportSuccess(k) ==
    IF slots[k].status = "none" THEN slots ELSE [slots EXCEPT ![k] = Fresh]

ReportRateLimit(k) ==
    IF slots[k].status = "none" THEN slots
    ELSE [slots EXCEPT ![k] = [status |-> "limited", passed |-> FALSE,
                               fails |-> IF @.fails < FailLimit THEN @.fails + 1
                                                                ELSE @.fails]]

\* A slot counts as broken from the third failure on; one failure moves the
\* time of the last error.
ReportError(k) ==
    IF slots[k].status = "none" THEN slots
    ELSE LET n == IF slots[k].fails < FailLimit THEN slots[k].fails + 1 ELSE FailLimit
         IN  [slots EXCEPT ![k] =
                [@ EXCEPT !.fails = n,
                          !.status = IF n >= FailLimit THEN "error" ELSE @,
                          !.passed = IF n >= FailLimit THEN FALSE
                                     ELSE @ /\ slots[k].status = "limited"]]

\* Next and NextPareto: a slot that was waiting and is chosen starts afresh.
ResetChosen(k) ==
    IF slots[k].status \in {"limited", "error"} THEN [slots EXCEPT ![k] = Fresh] ELSE slots

Elapse(k) ==
    /\ slots[k].status \in {"limited", "error"} /\ ~slots[k].passed
    /\ slots' = [slots EXCEPT ![k].passed = TRUE]
    /\ late' = late \ {k}
    /\ UNCHANGED <<cooldown, wasCooling, spawn, providerID, reloads, backups>>

-----------------------------------------------------------------------------
(* The candidates of a spawn *)

Last(s) == spawn[s].cand = Len(Candidates)

Begin(s) ==
    /\ spawn[s].pc = "idle" /\ spawn[s].done < MaxSpawns
    /\ spawn' = [spawn EXCEPT ![s] = [Idle EXCEPT !.pc = "pick", !.cand = 1,
                                                  !.done = spawn[s].done + 1]]
    /\ UNCHANGED <<slots, cooldown, wasCooling, providerID, reloads, late, backups>>

IsCoolingDown(p) == cooldown[p] = "cooling"

\* CheckRecovery: a pool is seen cooling, and later seen recovered once.
CheckRecovery(p) ==
    IF IsCoolingDown(p) THEN wasCooling \cup {p} ELSE wasCooling \ {p}

PickCandidate(s) ==
    LET p == Candidates[spawn[s].cand]
    IN  /\ spawn[s].pc = "pick"
        /\ \/ /\ IsCoolingDown(p) /\ ~Last(s)
              /\ spawn' = [spawn EXCEPT ![s].cand = @ + 1]
              /\ UNCHANGED wasCooling
           \/ /\ ~(IsCoolingDown(p) /\ ~Last(s))
              /\ wasCooling' = CheckRecovery(p)
              /\ spawn' = [spawn EXCEPT ![s].pc = "route"]
        /\ UNCHANGED <<slots, cooldown, providerID, reloads, late, backups>>

\* The health of the slots is read under one lock ...
ReadSlots(s) ==
    LET p == Candidates[spawn[s].cand]
        healthy == {k \in Key : PoolOf[k] = p /\ IsHealthy(slots[k])}
    IN  /\ spawn[s].pc = "route"
        /\ \/ \E k \in healthy :
                 spawn' = [spawn EXCEPT ![s].pc = "reset", ![s].chosen = k]
           \/ /\ healthy = {}
              /\ spawn' = [spawn EXCEPT ![s].pc = "get"]
        /\ UNCHANGED <<slots, cooldown, wasCooling, providerID, reloads, late, backups>>

\* ... and the chosen slot is reset under another.  Its provider is the one
\* the factory cached, without the fallback chain.
TakeSlot(s) ==
    LET k == spawn[s].chosen
    IN  /\ spawn[s].pc = "reset"
        /\ slots' = ResetChosen(k)
        /\ late' = late \ {k}
        /\ spawn' = [spawn EXCEPT ![s].pc = "call", ![s].using = <<k>>, ![s].attempt = 0,
                                  ![s].chosen = None]
        /\ UNCHANGED <<cooldown, wasCooling, providerID, reloads, backups>>

Buildable(q) == SelectSeq(q, LAMBDA k : k \notin Broken)

\* What Get returns: the cached provider as it is, a new one with its chain.
Built(p) ==
    LET k == Parent[p]
    IN  IF slots[k].status # "none" THEN <<k>>
        ELSE <<k>> \o Buildable(FallbackOf[p])

Get(s) ==
    LET p == Candidates[spawn[s].cand]
        k == Parent[p]
    IN  /\ spawn[s].pc = "get"
        /\ \/ /\ k \notin Broken
              /\ slots' = Registered(slots, k)
              /\ spawn' = [spawn EXCEPT ![s].pc = "call", ![s].using = Built(p),
                                        ![s].attempt = 0]
           \/ /\ k \in Broken
              /\ spawn' = [spawn EXCEPT ![s] =
                    IF Last(s) THEN [@ EXCEPT !.pc = "failed", !.err = "fatal"]
                    ELSE [@ EXCEPT !.pc = "pick", !.cand = @ + 1]]
              /\ UNCHANGED slots
        /\ UNCHANGED <<cooldown, wasCooling, providerID, reloads, late, backups>>

-----------------------------------------------------------------------------
(* One provider call *)

Current(s) == Head(spawn[s].using)

\* What a provider's endpoint does with a request: an answer in text or tool
\* calls, an answer with neither, a refusal (429, 5xx or a timeout, 401 or 403
\* or no such model, 400), an answer nobody can read, a connection that breaks.
Wire == {"text", "tools", "blank", "limited", "server", "denied", "bad", "garbled", "cut"}

\* How the adapters read the status of an HTTP answer.
HTTPStatus(w) == IF w \in {"limited", "server", "denied"} THEN {w} ELSE {"fatal"}

OpenAIComplete(w) ==
    CASE w \in {"text", "tools"} -> {"ok"}
      [] w = "blank" -> {"empty", "fatal"}   \* a choice without content, or no choice
      [] OTHER -> HTTPStatus(w)

\* Lines that cannot be read are skipped, and a stream that brought nothing is
\* asked for again without streaming.
OpenAIStream(w) ==
    CASE w \in {"text", "tools"} -> {"ok"}
      [] w \in {"blank", "garbled"} -> UNION {OpenAIComplete(v) : v \in Wire}
      [] OTHER -> HTTPStatus(w)

AnthropicComplete(w) ==
    CASE w \in {"text", "tools"} -> {"ok"}
      [] w = "blank" -> {"empty"}
      [] OTHER -> HTTPStatus(w)

AnthropicStream(w) ==
    CASE w \in {"text", "tools"} -> {"ok"}
      [] w \in {"blank", "garbled"} -> {"empty"}
      [] OTHER -> HTTPStatus(w)

GeminiComplete(w) ==
    CASE w \in {"text", "tools"} -> {"ok"}
      [] OTHER -> HTTPStatus(w)

\* A stream that breaks after a part of the text is an answer.
GeminiStream(w) ==
    CASE w \in {"text", "tools"} -> {"ok"}
      [] w \in {"blank", "garbled"} -> UNION {GeminiComplete(v) : v \in Wire}
      [] w = "cut" -> {"ok", "fatal"}
      [] OTHER -> HTTPStatus(w)

\* No tools are offered, and only the text of an answer is read.
OllamaComplete(w) ==
    CASE w = "text" -> {"ok"}
      [] w = "tools" -> {"empty"}
      [] w = "blank" -> {"empty", "fatal"}
      [] OTHER -> HTTPStatus(w)

\* A script says what went wrong in words: a rate limit by its prefix, the rest
\* by whatever the message contains.
ScriptComplete(w) ==
    CASE w \in {"text", "tools"} -> {"ok"}
      [] w = "blank" -> {"empty"}
      [] w = "limited" -> {"limited", "fatal"}
      [] w \in {"server", "denied"} -> {w, "fatal"}
      [] OTHER -> {"fatal"}

\* Any failure of the program is the same kind of error; its words may mention
\* a timeout or a status.
ExternalComplete(w) ==
    CASE w \in {"text", "tools"} -> {"ok"}
      [] w = "blank" -> {"empty"}
      [] w \in {"server", "denied"} -> {w, "fatal"}
      [] OTHER -> {"fatal"}

\* Answers come as tool calls, and those of too little confidence are left out;
\* a 429 is an error like any other, and of a 5xx only a timeout is known.
SystemOneComplete(w) ==
    CASE w \in {"text", "tools"} -> {"ok", "empty"}
      [] w = "blank" -> {"empty"}
      [] w = "server" -> {"server", "fatal"}
      [] w = "denied" -> {"denied"}
      [] OTHER -> {"fatal"}

\* The host answers by delegation: the call itself always fails.
HostComplete(w) == {"fatal"}

Adapter == {"openai", "anthropic", "gemini", "ollama", "script", "external", "systemone",
            "host"}

\* The outcomes of one streaming call, and of one that does not stream.
Streamed == [k \in Key |->
    UNION {CASE a = "openai" -> OpenAIStream(w)
             [] a = "anthropic" -> AnthropicStream(w)
             [] a = "gemini" -> GeminiStream(w)
             [] a = "ollama" -> OllamaComplete(w)
             [] a = "script" -> ScriptComplete(w)
             [] a = "external" -> ExternalComplete(w)
             [] a = "systemone" -> SystemOneComplete(w)
             [] a = "host" -> HostComplete(w) : a \in AdaptersOf[k], w \in Wire}]

Completed == [k \in Key |->
    UNION {CASE a = "openai" -> OpenAIComplete(w)
             [] a = "anthropic" -> AnthropicComplete(w)
             [] a = "gemini" -> GeminiComplete(w)
             [] OTHER -> Streamed[k] : a \in AdaptersOf[k], w \in Wire}]

isRetryable(o) == o \in {"limited", "server"}

\* isRetryableError: what sends the spawn to its next candidate.
isRetryableError(e) == e \in {"limited", "server", "denied"}

ReportedError(k, o) == IF o = "limited" THEN ReportRateLimit(k) ELSE ReportError(k)

\* Nobody who has already found this slot healthy knows of the limit.
LateFor(k, o) ==
    IF o = "limited" /\ \E t \in Step : spawn[t].chosen = k THEN late \cup {k} ELSE late

\* Mutant: the same candidate is tried again.
SameAgain(c, e) ==
    IF isRetryableError(e) THEN [c EXCEPT !.pc = "pick", !.using = <<>>]
    ELSE [c EXCEPT !.pc = "failed", !.err = e, !.using = <<>>]

\* The candidate is given up: the next one, or the end of the spawn.
GiveUp(c, e) ==
    IF isRetryableError(e) /\ c.cand < Len(Candidates)
    THEN [c EXCEPT !.pc = "pick", !.cand = @ + 1, !.using = <<>>]
    ELSE [c EXCEPT !.pc = "failed", !.err = e, !.using = <<>>]

Answered(s, o) ==
    /\ o \in {"ok", "empty"}
    /\ slots' = ReportSuccess(Current(s))
    /\ late' = late \ {Current(s)}
    /\ \/ /\ o = "ok"
          /\ spawn' = [spawn EXCEPT ![s] = [Idle EXCEPT !.done = spawn[s].done]]
          /\ providerID' = [providerID EXCEPT ![s] = Candidates[spawn[s].cand]]
       \/ /\ o = "empty"
          /\ spawn' = [spawn EXCEPT ![s] =
                IF Last(s) THEN [@ EXCEPT !.pc = "failed", !.err = "empty", !.using = <<>>]
                ELSE [@ EXCEPT !.pc = "pick", !.cand = @ + 1, !.using = <<>>]]
          /\ UNCHANGED providerID

Retried(s, o) ==
    /\ isRetryable(o) /\ spawn[s].attempt < MaxRetries
    /\ spawn' = [spawn EXCEPT ![s].attempt = @ + 1]
    /\ UNCHANGED <<slots, late, providerID>>

\* The wait between two attempts ends with the caller's context: the error is
\* returned without a report to the router.
WaitCut(s, o) ==
    /\ isRetryable(o) /\ spawn[s].attempt < MaxRetries
    /\ spawn' = [spawn EXCEPT ![s] = GiveUp(@, "server")]
    /\ UNCHANGED <<slots, late, providerID>>

Failed(s, o) ==
    /\ o \notin {"ok", "empty"}
    /\ isRetryable(o) => spawn[s].attempt = MaxRetries
    /\ slots' = ReportedError(Current(s), o)
    /\ late' = LateFor(Current(s), o)
    /\ spawn' = [spawn EXCEPT ![s] =
          LET c == [@ EXCEPT !.tried = @ \cup {Current(s)}]
          IN  IF Len(c.using) > 1
              THEN [c EXCEPT !.using = Tail(@), !.attempt = 0]
              ELSE GiveUp(c, o)]
    /\ UNCHANGED providerID

Call(s) ==
    /\ spawn[s].pc = "call"
    /\ \E o \in Streamed[Current(s)] : Answered(s, o) \/ Retried(s, o) \/ WaitCut(s, o) \/ Failed(s, o)
    /\ UNCHANGED <<cooldown, wasCooling, reloads, backups>>

\* A call outside spawns (a reflection, a generated role, a probe), which uses
\* the cached provider and reports to its slot in the same way.
OneShot(k) ==
    /\ k \in Helper /\ slots[k].status # "none"
    /\ \E o \in Completed[k] :
          slots' = IF o \in {"ok", "empty"} THEN ReportSuccess(k) ELSE ReportedError(k, o)
    /\ late' = IF slots'[k].status = "limited" THEN LateFor(k, "limited") ELSE late \ {k}
    /\ UNCHANGED <<cooldown, wasCooling, spawn, providerID, reloads, backups>>

-----------------------------------------------------------------------------
(* The scheduler after a failed spawn *)

\* Only a rate limit starts a cooldown, for the pool of the step's last
\* successful spawn; the step is then spawned again while it has retries.
Cools(s) == IF spawn[s].err = "limited" THEN providerID[s] ELSE None

HandleError(s) ==
    /\ spawn[s].pc = "failed"
    /\ cooldown' = [p \in Pool |-> IF p = Cools(s) THEN "cooling" ELSE cooldown[p]]
    /\ spawn' = [spawn EXCEPT ![s] =
          [Idle EXCEPT !.done = IF spawn[s].err = "limited" THEN spawn[s].done
                                                            ELSE MaxSpawns]]
    /\ UNCHANGED <<slots, wasCooling, providerID, reloads, late, backups>>

CooldownEnds(p) ==
    /\ IsCoolingDown(p)
    /\ cooldown' = [cooldown EXCEPT ![p] = "none"]
    /\ UNCHANGED <<slots, wasCooling, spawn, providerID, reloads, late, backups>>

\* The config subsystem's reload: the cache and every slot are dropped.
Reload ==
    /\ reloads < MaxReloads
    /\ reloads' = reloads + 1
    /\ slots' = [k \in Key |-> Unregistered]
    /\ late' = {}
    /\ backups' = FALSE
    /\ UNCHANGED <<cooldown, wasCooling, spawn, providerID>>

Next ==
    \/ \E s \in Step : Begin(s) \/ PickCandidate(s) \/ ReadSlots(s) \/ TakeSlot(s)
                       \/ Get(s) \/ Call(s) \/ HandleError(s)
    \/ \E k \in Key : Elapse(k) \/ OneShot(k)
    \/ \E p \in Pool : CooldownEnds(p)
    \/ Reload

\* Calls return: every attempt has a timeout, and the retries are counted.
Advance(s) ==
    PickCandidate(s) \/ ReadSlots(s) \/ TakeSlot(s) \/ Get(s) \/ Call(s) \/ HandleError(s)

Fairness == \A s \in Step : WF_providerVars(Advance(s))

Spec == Init /\ [][Next]_providerVars /\ Fairness

-----------------------------------------------------------------------------
(* Properties *)

TypeOK ==
    /\ slots \in [Key -> [status : {"none", "healthy", "limited", "error"},
                          fails : 0..FailLimit, passed : BOOLEAN]]
    /\ cooldown \in [Pool -> {"none", "cooling"}] /\ wasCooling \subseteq Pool
    /\ \A s \in Step : /\ spawn[s].pc \in {"idle", "pick", "route", "reset", "get", "call",
                                           "failed"}
                       /\ spawn[s].cand \in 0..Len(Candidates)
                       /\ spawn[s].attempt \in 0..MaxRetries
                       /\ spawn[s].pc = "call" => spawn[s].using # <<>>
                       /\ spawn[s].done \in 0..MaxSpawns
    /\ providerID \in [Step -> Pool \cup {None}]
    /\ reloads \in 0..MaxReloads /\ late \subseteq Key /\ backups \in BOOLEAN

\* A rate limit reported for a slot is respected until its time has passed: the
\* slot becomes healthy before only because a call on it was answered, or
\* because a spawn had already found it healthy when the limit was reported
\* and resets it afterwards (router.go: IsHealthy, ReportRateLimit, Next).
HealsByAnswer ==
    \A k \in Key :
        (slots[k].status = "limited" /\ ~slots[k].passed /\ slots'[k].status = "healthy")
        => \/ k \in late \/ OneShot(k)
           \/ \E s \in Step : spawn[s].pc = "call" /\ Current(s) = k
                              /\ spawn'[s].pc # "call"
LimitKept == [][HealsByAnswer]_providerVars

\* A spawn that has begun comes to an answer or to an error: every attempt,
\* every candidate and every fallback is used up in the end, whatever the
\* slots and the cooldowns do meanwhile (spawner_dospawn.go, retry.go).
Spawning(s) == spawn[s].pc # "idle"
SpawnEnds == \A s \in Step : Spawning(s) ~> ~Spawning(s)

\* A provider configured with a fallback_chain has the chain tried before a
\* spawn fails on it (config/types.go: "FallbackChain is an ordered list of
\* provider configs to try as fallbacks when the primary provider fails").
\* Broken by the code: the chain is wrapped around the provider only in the
\* call that first builds it.
FallbackTried ==
    \A s \in Step :
        (spawn[s].pc = "failed" /\ spawn[s].err = "fatal" /\ spawn[s].tried # {})
        => \A k \in spawn[s].tried :
              \A i \in 1..Len(FallbackOf[PoolOf[k]]) :
                 FallbackOf[PoolOf[k]][i] \in spawn[s].tried \cup Broken

\* A step that fails on a rate limit leaves the pool that limited it cooling
\* down, so that other steps pass it by (spawner_dospawn.go: "a provider marked
\* as cooling down after a 429").  Broken by the code: the step names the pool
\* of its last success, and none before its first.
LimitedPoolCools ==
    [][\A s \in Step :
          (spawn[s].pc = "failed" /\ spawn[s].err = "limited" /\ spawn'[s].pc = "idle")
          => cooldown'[Candidates[spawn[s].cand]] = "cooling"]_providerVars

\* A configured instance has its slot whenever a spawn looks for one (main.go:
\* "Must happen before any task is spawned").  Broken by a reload.
BackupsKnown == backups

=============================================================================
