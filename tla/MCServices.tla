----------------------------- MODULE MCServices -----------------------------
(***************************************************************************)
(* Instances of the modules around the agents: chat, memory, skills, model *)
(* providers, tool discovery, prompts and roles.                           *)
(* `part` is chosen initially from Parts and says which part runs; the parts *)
(* do not share state here (the modules that compose two of them do that   *)
(* themselves), so they take turns using the same variables: x1 is the first *)
(* variable of whichever module runs, and what it does not need stays 0.   *)
(***************************************************************************)
EXTENDS Integers, Sequences

CONSTANT Parts

VARIABLES part,
          x1, x2, x3, x4, x5, x6, x7, x8, x9, x10, x11, x12, x13, x14, x15, x16,
          x17, x18, x19, x20, x21, x22

Rest21 == <<x21, x22>>
Rest15 == <<x15, x16, x17, x18, x19, x20, Rest21>>
Rest14 == <<x14, Rest15>>
Rest13 == <<x13, Rest14>>
Rest12 == <<x12, Rest13>>
Rest11 == <<x11, Rest12>>
Rest10 == <<x10, Rest11>>
Rest9 == <<x9, Rest10>>
Rest8 == <<x8, Rest9>>
vars == <<part, x1, x2, x3, x4, x5, x6, x7, Rest8>>

Off21 == x21 = 0 /\ x22 = 0
Off15 == x15 = 0 /\ x16 = 0 /\ x17 = 0 /\ x18 = 0 /\ x19 = 0 /\ x20 = 0 /\ Off21
Off14 == x14 = 0 /\ Off15
Off13 == x13 = 0 /\ Off14
Off12 == x12 = 0 /\ Off13
Off11 == x11 = 0 /\ Off12
Off10 == x10 = 0 /\ Off11
Off9 == x9 = 0 /\ Off10
Off8 == x8 = 0 /\ Off9

-----------------------------------------------------------------------------
(* The instances. *)

\* The kinds of provider that a slot of each key may be configured as.
Adapters == [k \in {"a0", "a1", "b0"} |->
               CASE k = "a0" -> {"openai"}
                 [] k = "a1" -> {"gemini", "anthropic"}
                 [] k = "b0" -> {"ollama", "systemone", "host", "script", "external"}]

\* Prompts by the sizes of their parts: one fits when tier 3 is gone, one not at all.
Sized(role, profile, listed, shots, rules, long, many) ==
  [size |-> [c \in {"role_instruction", "user_profile", "grounding", "past_precedents",
                    "failure_profile", "cookbook", "skills", "few_shot", "tree_path",
                    "constraints", "anti_pattern", "similar_task", "active_context",
                    "archive_summary", "shape_mismatch"} |->
               CASE c = "role_instruction" -> role
                 [] c = "user_profile" -> profile
                 [] c \in {"cookbook", "skills"} -> listed
                 [] c = "few_shot" -> shots
                 [] c = "constraints" -> rules
                 [] c \in {"past_precedents", "active_context"} -> 1
                 [] OTHER -> 0],
   long |-> long, manySkills |-> many]
Requests == {Sized(1, 3, 1, 1, 1, TRUE, FALSE), Sized(1, 3, 1, 2, 4, FALSE, TRUE)}

\* Context windows: roomy, below the configured limit, tight, and taken up by the
\* answer and the tool definitions.
Window(max, reserve, eff, hint, out, tools) ==
  [max |-> max, reserve |-> reserve, eff |-> eff, limit |-> 0, hint |-> hint,
   out |-> out, tools |-> tools]
Limits == {Window(20, 2, 0, "", 2, 1), Window(12, 2, 9, "terse", 1, 0),
           Window(9, 1, 0, "verbose", 1, 0), Window(12, 1, 12, "", 4, 4)}
Prompts == {<<"goal", "plain">>, <<"goal", "prog", "err", "info", "info", "info">>}
Text(lines) == [kind |-> "text", lines |-> lines]
Json(lines) == [kind |-> "json", lines |-> lines]
Answers == {Text(<<"plain">>), Json(<<"plain", "goal", "err", "info", "plain">>)}
Results == {Text(<<"err", "info", "info", "errnoise", "progerr">>),
            Json(<<"plain", "info", "err", "plain", "goal">>),
            [kind |-> "jsonl", lines |-> <<"plain", "err", "info", "plain", "plain">>],
            Text(<<"sig", "err", "plain", "plain", "close", "plain">>)}

\* Every text of up to five characters, in every way of cutting it.
Ts == INSTANCE ThinkStream WITH
        MaxText <- 5,
        whole <- x1, stream <- x2, inThinking <- x3, pending <- x4, shown <- x5,
        thought <- x6, closed <- x7

Ch == INSTANCE ChatHarness WITH
        MaxTurns <- 2, MaxCalls <- 2, StreakLimit <- 2, MaxDefects <- 1,
        at <- x1, turn <- x2, left <- x3, overflowed <- x4, noText <- x5,
        nudged <- x6, lastOK <- x7, turnOK <- x8, streak <- x9, execSteered <- x10,
        artifacts <- x11, complete <- x12, defects <- x13, steer <- x14,
        cached <- x15, stale <- x16, staleShown <- x17, behind <- x18,
        background <- x19, cancelled <- x20, outcome <- x21, indexed <- x22

\* Two requests on one session, with an eviction and one crash.
Cs == INSTANCE ChatSession WITH
        Request <- {"r1", "r2"}, MaxMsg <- 3, maxChatMessages <- 2, EvictShare <- 2,
        MaxFaults <- 1,
        backend <- x1, objs <- x2, cached <- x3, rows <- x4, file <- x5, req <- x6,
        nextMsg <- x7, acked <- x8, faults <- x9, disturbed <- x10, raced <- x11

\* Two cycles, as many as a promotion takes here.
Rp == INSTANCE ReplayCycle WITH
        FailedTask <- {"t1"}, promotionThreshold <- 3, MaxCycles <- 2,
        MaxReboots <- 1,
        hist <- x1, cycle <- x2, todo <- x3, queue <- x4, trials <- x5,
        candidates <- x6, samples <- x7, judged <- x8, reboots <- x9

\* Two background goroutines ...
Sg == INSTANCE SkillGrowth WITH
        MaxTools <- 2, Worker <- {"w1", "w2"}, MinUses <- 1, MaxTasks <- 1,
        tool <- x1, skills <- x2, affinity <- x3, archived <- x4, registered <- x5,
        job <- x6, refl <- x7, tasks <- x8, merged <- x9, unsynced <- x10,
        raced <- x11, rewritten <- x12

\* ... enough tools for a merge of two ...
Sm == INSTANCE SkillGrowth WITH
        MaxTools <- 3, Worker <- {"w1"}, MinUses <- 1, MaxTasks <- 1,
        tool <- x1, skills <- x2, affinity <- x3, archived <- x4, registered <- x5,
        job <- x6, refl <- x7, tasks <- x8, merged <- x9, unsynced <- x10,
        raced <- x11, rewritten <- x12

\* ... and enough tasks for a variant to be used and pruned.
Su == INSTANCE SkillGrowth WITH
        MaxTools <- 2, Worker <- {"w1"}, MinUses <- 1, MaxTasks <- 2,
        tool <- x1, skills <- x2, affinity <- x3, archived <- x4, registered <- x5,
        job <- x6, refl <- x7, tasks <- x8, merged <- x9, unsynced <- x10,
        raced <- x11, rewritten <- x12

Xp == INSTANCE Experience WITH
        Key <- {"k1", "j1"}, JitKey <- {"j1"}, MaxPatterns <- 2, EvictShare <- 2,
        MaxChanges <- 3, MaxStarts <- 2,
        patterns <- x1, index <- x2, tokens <- x3, file <- x4, saver <- x5,
        inFlight <- x6, nextId <- x7, changes <- x8, starts <- x9, mode <- x10,
        owed <- x11, overtaken <- x12, stale <- x13, replayed <- x14

\* Three items where two fit in memory.
Ar == INSTANCE Archive WITH
        Task <- {"t1", "t2"}, Step <- {"s1"}, maxInMemoryItems <- 2, MaxItems <- 3,
        MaxFaults <- 1,
        file <- x1, items <- x2, offset <- x3, dirty <- x4, docs <- x5, build <- x6,
        answer <- x7, count <- x8, faults <- x9, hidden <- x10, marked <- x11,
        unmarked <- x12, behind <- x13

Hb == INSTANCE Hub WITH
        Skill <- {"s1", "j1"}, JitSkill <- {"j1"}, Finder <- {"f1"},
        Writer <- {"w1"}, Provider <- {"p1"}, Default <- "p1", circuitMaxFail <- 2,
        MaxWrites <- 1, MaxEmbeds <- 3,
        session <- x1, skills <- x2, made <- x3, tools <- x4, reading <- x5,
        announced <- x6, writing <- x7, find <- x8, embed <- x9,
        circuitBroken <- x10, writes <- x11, embeds <- x12, moved <- x13,
        streak <- x14

\* A pool of two slots, its configured fallback, and a second candidate.
Pv == INSTANCE Providers WITH
        Key <- {"a0", "a1", "b0"}, Pool <- {"A", "B"},
        PoolOf <- [k \in {"a0", "a1", "b0"} |-> IF k = "b0" THEN "B" ELSE "A"],
        Parent <- [p \in {"A", "B"} |-> IF p = "A" THEN "a0" ELSE "b0"],
        Instance <- {"a1"},
        FallbackOf <- [p \in {"A", "B"} |-> IF p = "A" THEN <<"b0">> ELSE <<>>],
        AdaptersOf <- Adapters, Broken <- {"a0"}, Candidates <- <<"A", "B">>,
        Helper <- {"a0", "a1"}, Step <- {"s1"}, MaxRetries <- 1, FailLimit <- 2,
        MaxSpawns <- 2, MaxReloads <- 1,
        slots <- x1, cooldown <- x2, wasCooling <- x3, spawn <- x4,
        providerID <- x5, reloads <- x6, late <- x7, backups <- x8

\* Two servers, one of which the request asks for and which needs approval ...
En == INSTANCE SpawnEntry WITH
        MCP <- {"m1", "m2"}, Tool <- {"t1", "t2"},
        Serves <- [m \in {"m1", "m2"} |-> IF m = "m1" THEN {"t1"} ELSE {"t2"}],
        Stdio <- {"m1", "m2"}, Bound <- [m \in {"m1"} |-> {"t1"}],
        Extra <- [m \in {"m2"} |-> {}],
        Policy <- [m \in {"m1", "m2"} |-> IF m = "m1" THEN "open" ELSE "approval"],
        SkillApproval <- TRUE, Requires <- {}, Dynamic <- FALSE, Manifest <- FALSE,
        Lazy <- FALSE, Always <- [m \in {"m1", "m2"} |-> {}], Privileged <- {},
        Discovery <- {}, ProgressiveMin <- 3, DiscoveryMin <- 2,
        Cost <- [t \in {"t1", "t2"} |-> IF t = "t1" THEN 2 ELSE 1], Budget <- 2,
        Spawn <- {"x1", "x2"}, None <- "none", Planner <- {"x2"}, MaxRenewals <- 0,
        defs <- x1, avail <- x2, lock <- x3, broken <- x4, off <- x5,
        approved <- x6, skillOK <- x7, admin <- x8, sp <- x9, renewals <- x10

\* ... discovery when routing first meets a server, a capability to find, and a
\* binding that lists a tool its server does not have ...
Ey == INSTANCE SpawnEntry WITH
        MCP <- {"m1", "m2"}, Tool <- {"t1", "t2"},
        Serves <- [m \in {"m1", "m2"} |-> IF m = "m1" THEN {"t1"} ELSE {"t2"}],
        Stdio <- {"m1", "m2"}, Bound <- [m \in {"m1"} |-> {"t2"}],
        Extra <- [m \in {"m2"} |-> {}], Policy <- [m \in {"m1", "m2"} |-> "open"],
        SkillApproval <- FALSE, Requires <- {"t1"}, Dynamic <- FALSE,
        Manifest <- FALSE, Lazy <- TRUE, Always <- [m \in {"m1", "m2"} |-> {}],
        Privileged <- {}, Discovery <- {}, ProgressiveMin <- 3, DiscoveryMin <- 2,
        Cost <- [t \in {"t1", "t2"} |-> IF t = "t1" THEN 2 ELSE 1], Budget <- 2,
        Spawn <- {"x1", "x2"}, None <- "none", Planner <- {"x2"}, MaxRenewals <- 1,
        defs <- x1, avail <- x2, lock <- x3, broken <- x4, off <- x5,
        approved <- x6, skillOK <- x7, admin <- x8, sp <- x9, renewals <- x10

\* ... a server for administrators only ...
Eg == INSTANCE SpawnEntry WITH
        MCP <- {"m1", "m2"}, Tool <- {"t1", "t2"},
        Serves <- [m \in {"m1", "m2"} |-> IF m = "m1" THEN {"t1"} ELSE {"t2"}],
        Stdio <- {"m1", "m2"}, Bound <- [m \in {"m1"} |-> {"t1"}],
        Extra <- [m \in {"m2"} |-> {}],
        Policy <- [m \in {"m1", "m2"} |-> IF m = "m1" THEN "open" ELSE "admin_only"],
        SkillApproval <- TRUE, Requires <- {}, Dynamic <- FALSE, Manifest <- FALSE,
        Lazy <- FALSE, Always <- [m \in {"m1", "m2"} |-> {}], Privileged <- {},
        Discovery <- {}, ProgressiveMin <- 3, DiscoveryMin <- 2,
        Cost <- [t \in {"t1", "t2"} |-> IF t = "t1" THEN 2 ELSE 1], Budget <- 2,
        Spawn <- {"x1"}, None <- "none", Planner <- {}, MaxRenewals <- 1,
        defs <- x1, avail <- x2, lock <- x3, broken <- x4, off <- x5,
        approved <- x6, skillOK <- x7, admin <- x8, sp <- x9, renewals <- x10

\* ... and a manifest, whose servers are taken as they are.
Em == INSTANCE SpawnEntry WITH
        MCP <- {"m1", "m2"}, Tool <- {"t1", "t2"},
        Serves <- [m \in {"m1", "m2"} |-> IF m = "m1" THEN {"t1"} ELSE {"t2"}],
        Stdio <- {"m1", "m2"}, Bound <- [m \in {"m1"} |-> {"t1"}],
        Extra <- [m \in {"m2"} |-> {}],
        Policy <- [m \in {"m1", "m2"} |-> IF m = "m1" THEN "open" ELSE "approval"],
        SkillApproval <- TRUE, Requires <- {}, Dynamic <- FALSE, Manifest <- TRUE,
        Lazy <- FALSE, Always <- [m \in {"m1", "m2"} |-> {}], Privileged <- {},
        Discovery <- {}, ProgressiveMin <- 3, DiscoveryMin <- 2,
        Cost <- [t \in {"t1", "t2"} |-> IF t = "t1" THEN 2 ELSE 1], Budget <- 2,
        Spawn <- {"x1"}, None <- "none", Planner <- {}, MaxRenewals <- 1,
        defs <- x1, avail <- x2, lock <- x3, broken <- x4, off <- x5,
        approved <- x6, skillOK <- x7, admin <- x8, sp <- x9, renewals <- x10

\* Two spawns and a preview, and ...
Pr == INSTANCE Prompt WITH
        Spawn <- {"a", "b"}, Budget <- 6, Marker <- 1, Short <- 1,
        WarmConfig <- 600, WarmFloor <- 500, MaxDurations <- 0,
        pc <- x1, prompt <- x2, shapes <- x3, trace <- x4, warnedOf <- x5,
        profile <- x6, warm <- x7, durations <- x8, crossed <- x9

\* ... one spawn whose duration moves the budget of its next prompt.
Pw == INSTANCE Prompt WITH
        Spawn <- {"a"}, Budget <- 6, Marker <- 1, Short <- 1, WarmConfig <- 600,
        WarmFloor <- 500, MaxDurations <- 1,
        pc <- x1, prompt <- x2, shapes <- x3, trace <- x4, warnedOf <- x5,
        profile <- x6, warm <- x7, durations <- x8, crossed <- x9

Sq == INSTANCE Squeeze WITH
        Line <- {"plain", "err", "prog", "progerr", "info", "errnoise", "sparse", "sig", "close", "goal", "f1", "f2"},
        Errors <- {"err", "progerr", "errnoise"}, Progress <- {"prog", "progerr"},
        Noise <- {"info", "errnoise"}, Sparse <- {"sparse"}, Signature <- {"sig"},
        Closing <- {"close"}, Anchors <- {"goal"}, NoiseKept <- 1, ShortItems <- 3,
        HeadCount <- 1, TailCount <- 1, KeepLines <- 1, CodeMin <- 4, BodyMax <- 2,
        KeepFirst <- 1, KeepLast <- 2, TruncatePasses <- 2,
        MaxFullObservations <- 1, SummaryRoom <- 2, MaxBody <- 4, YamlHeader <- 1,
        JsonIndent <- 1, SystemText <- <<"rule", "snap", "snap">>,
        Facts <- {"f1", "f2"}, KeyFacts <- {"f1"}, HandoffMin <- 1,
        SummaryBudget <- 1, Settings <- Limits, MaxTurns <- 2,
        limits <- x1, blocks <- x2, at <- x3, level <- x4, audited <- x5,
        before <- x6, upstream <- x7, result <- x8, cands <- x9, turns <- x10

\* Two spawns, with and without the clean-ups ...
Cn == INSTANCE SpawnChain WITH
        Spawn <- {"x1", "x2"}, Graph <- {"g1"}, MCP <- {"m1"},
        Configured <- {"coder", "orchestrator_default"}, Earlier <- {"old1"},
        Asked <- {"", "new"}, Desc <- {"", "d1"}, Slug <- {"helper"},
        Bound <- {"m1"}, Installed <- {},
        Settings <- {<<TRUE, FALSE, FALSE, "strict">>, <<FALSE, TRUE, FALSE, "off">>, <<FALSE, FALSE, TRUE, "warn">>},
        MaxDynamic <- 1,
        ephemeral <- x1, dynamic <- x2, repair <- x3, slop <- x4, roles <- x5,
        session <- x6, installed <- x7, clock <- x8, pc <- x9, req <- x10,
        asked <- x11, target <- x12, made <- x13, degraded <- x14, mounted <- x15,
        result <- x16, subs <- x17, pruned <- x18, nameless <- x19,
        overlapped <- x20

\* ... and one without the default role.
Cb == INSTANCE SpawnChain WITH
        Spawn <- {"x1"}, Graph <- {"g1"}, MCP <- {"m1"}, Configured <- {"coder"},
        Earlier <- {"old1", "old2"}, Asked <- {"", "new"}, Desc <- {"", "d1"},
        Slug <- {"helper"}, Bound <- {"m1"}, Installed <- {},
        Settings <- {<<TRUE, FALSE, FALSE, "strict">>, <<FALSE, TRUE, FALSE, "off">>, <<FALSE, FALSE, TRUE, "warn">>},
        MaxDynamic <- 1,
        ephemeral <- x1, dynamic <- x2, repair <- x3, slop <- x4, roles <- x5,
        session <- x6, installed <- x7, clock <- x8, pc <- x9, req <- x10,
        asked <- x11, target <- x12, made <- x13, degraded <- x14, mounted <- x15,
        result <- x16, subs <- x17, pruned <- x18, nameless <- x19,
        overlapped <- x20

Ex == INSTANCE Extensions WITH
        Client <- {"c1", "c2"}, Ref <- {"r1"}, Bundle <- {"k1"},
        MultiStep <- {"k1"}, NonStandard <- {}, MaxVersion <- 2,
        Hint <- {"h1", "h2"}, Tree <- <<"p1", "p2", "p3">>, Skipped <- {"p2"},
        Matches <- {<<"h1", "p3">>}, cookbookMaxFiles <- 1,
        maxResourceCacheEntries <- 3, Hooks <- 2, Lua <- {1},
        Filters <- {<<1, "role">>}, MaxOps <- 2, MaxFaults <- 1,
        origin <- x1, cache <- x2, books <- x3, templates <- x4, files <- x5,
        ptr <- x6, pending <- x7, active <- x8, sops <- x9, index <- x10, cl <- x11,
        ops <- x12, faults <- x13, torn <- x14

-----------------------------------------------------------------------------
Init ==
  /\ part \in Parts
  /\ \/ part = "stream"     /\ Ts!Init /\ Off8
     \/ part = "chat"       /\ Ch!Init
     \/ part = "chats"      /\ Cs!Init /\ Off12
     \/ part = "replay"     /\ Rp!Init /\ Off10
     \/ part = "skills"     /\ Sg!Init /\ Off13
     \/ part = "merging"    /\ Sm!Init /\ Off13
     \/ part = "pruning"    /\ Su!Init /\ Off13
     \/ part = "experience" /\ Xp!Init /\ Off15
     \/ part = "archive"    /\ Ar!Init /\ Off14
     \/ part = "hub"        /\ Hb!Init /\ Off15
     \/ part = "providers"  /\ Pv!Init /\ Off9
     \/ part = "entry"      /\ En!Init /\ Off11
     \/ part = "lazy"       /\ Ey!Init /\ Off11
     \/ part = "gated"      /\ Eg!Init /\ Off11
     \/ part = "manifest"   /\ Em!Init /\ Off11
     \/ part = "prompt"     /\ Pr!Init /\ Off10
     \/ part = "warming"    /\ Pw!Init /\ Off10
     \/ part = "squeeze"    /\ Sq!Init /\ Off11
     \/ part = "chain"      /\ Cn!Init /\ Off21
     \/ part = "bare"       /\ Cb!Init /\ Off21
     \/ part = "extensions" /\ Ex!Init /\ Off15

Next ==
  \/ part = "stream"     /\ Ts!Next /\ UNCHANGED <<part, Rest8>>
  \/ part = "chat"       /\ Ch!Next /\ UNCHANGED <<part>>
  \/ part = "chats"      /\ Cs!Next /\ UNCHANGED <<part, Rest12>>
  \/ part = "replay"     /\ Rp!Next /\ UNCHANGED <<part, Rest10>>
  \/ part = "skills"     /\ Sg!Next /\ UNCHANGED <<part, Rest13>>
  \/ part = "merging"    /\ Sm!Next /\ UNCHANGED <<part, Rest13>>
  \/ part = "pruning"    /\ Su!Next /\ UNCHANGED <<part, Rest13>>
  \/ part = "experience" /\ Xp!Next /\ UNCHANGED <<part, Rest15>>
  \/ part = "archive"    /\ Ar!Next /\ UNCHANGED <<part, Rest14>>
  \/ part = "hub"        /\ Hb!Next /\ UNCHANGED <<part, Rest15>>
  \/ part = "providers"  /\ Pv!Next /\ UNCHANGED <<part, Rest9>>
  \/ part = "entry"      /\ En!Next /\ UNCHANGED <<part, Rest11>>
  \/ part = "lazy"       /\ Ey!Next /\ UNCHANGED <<part, Rest11>>
  \/ part = "gated"      /\ Eg!Next /\ UNCHANGED <<part, Rest11>>
  \/ part = "manifest"   /\ Em!Next /\ UNCHANGED <<part, Rest11>>
  \/ part = "prompt"     /\ Pr!Next /\ UNCHANGED <<part, Rest10>>
  \/ part = "warming"    /\ Pw!Next /\ UNCHANGED <<part, Rest10>>
  \/ part = "squeeze"    /\ Sq!Next /\ UNCHANGED <<part, Rest11>>
  \/ part = "chain"      /\ Cn!Next /\ UNCHANGED <<part, Rest21>>
  \/ part = "bare"       /\ Cb!Next /\ UNCHANGED <<part, Rest21>>
  \/ part = "extensions" /\ Ex!Next /\ UNCHANGED <<part, Rest15>>

\* The run of a chat, a search and a spawn are goroutines that wait for nothing but
\* the registry's lock; the second goroutine is the one that changes the registry.
Goroutine ==
  \/ part = "chat"       /\ Ch!Run /\ UNCHANGED <<part>>
  \/ part = "hub"        /\ Hb!Search("f1") /\ UNCHANGED <<part, Rest15>>
  \/ part = "providers"  /\ Pv!Advance("s1") /\ UNCHANGED <<part, Rest9>>
Registrar ==
  \/ part = "hub"        /\ Hb!Write("w1") /\ UNCHANGED <<part, Rest15>>

Spec == Init /\ [][Next]_vars /\ WF_vars(Goroutine) /\ WF_vars(Registrar)

-----------------------------------------------------------------------------
(* Properties. Each is stated, with its reason, in the module it comes from. *)

\* The types of the parts' state.
TypeOK ==
  /\ part = "stream" => Ts!TypeOK
  /\ part = "chat" => Ch!TypeOK
  /\ part = "chats" => Cs!TypeOK
  /\ part = "replay" => Rp!TypeOK
  /\ part = "skills" => Sg!TypeOK
  /\ part = "merging" => Sm!TypeOK
  /\ part = "pruning" => Su!TypeOK
  /\ part = "experience" => Xp!TypeOK
  /\ part = "archive" => Ar!TypeOK
  /\ part = "hub" => Hb!TypeOK
  /\ part = "providers" => Pv!TypeOK
  /\ part = "entry" => En!TypeOK
  /\ part = "lazy" => Ey!TypeOK
  /\ part = "gated" => Eg!TypeOK
  /\ part = "manifest" => Em!TypeOK
  /\ part = "prompt" => Pr!TypeOK
  /\ part = "warming" => Pw!TypeOK
  /\ part = "squeeze" => Sq!TypeOK
  /\ part = "chain" => Cn!TypeOK
  /\ part = "bare" => Cb!TypeOK
  /\ part = "extensions" => Ex!TypeOK

\* What is answered from a cache or an index agrees with what it stands for: replayed
\* reads (chat harness), the experience and archive indexes, the chat's leaf, roles
\* reused by hash, guidance found for a hint, hooks in their active order.
AnswersCurrent ==
  /\ part = "chat" => Ch!ReplayIsFresh
  /\ part = "chats" => Cs!LeafKnown
  /\ part = "experience" => Xp!IndexFindsHistory /\ Xp!OnePatternPerKey /\ Xp!Retrievable
  /\ part = "archive" => Ar!NoEcho /\ Ar!IndexCovers
  /\ part = "chain" => Cn!ReusedByHash
  /\ part = "bare" => Cb!ReusedByHash
  /\ part = "extensions" => Ex!HintHonoured /\ Ex!IndexIsActive

\* What was acknowledged, learned or said survives eviction, clean-up, truncation,
\* cutting into chunks and an orderly shutdown.
NothingLost ==
  /\ part = "stream" => Ts!ChunkingIrrelevant
  /\ part = "chats" => Cs!AckedSurvives
  /\ part = "skills" => Sg!LineageKept /\ Sg!PermanentHasScript
  /\ part = "merging" => Sm!LineageKept /\ Sm!PermanentHasScript
  /\ part = "pruning" => Su!LineageKept /\ Su!PermanentHasScript
  /\ part = "experience" => Xp!ShutdownKeepsAll
  /\ part = "entry" => En!ListKept
  /\ part = "lazy" => Ey!ListKept
  /\ part = "gated" => Eg!ListKept
  /\ part = "manifest" => Em!ListKept
  /\ part = "squeeze" => Sq!ErrorsKept /\ Sq!ResultWhole /\ Sq!UpstreamReachable

\* Nobody gets more than was granted: promotion is earned, an archive final, tools are
\* mounted as approved and asked of a server that offers them, a role that stands in
\* for another is named; and what is sent to a model keeps to its budget by giving up the
\* right things in the right order.
WithinGrants ==
  /\ part = "replay" => Rp!PromotionEarned /\ Rp!ArchivedIsFinal
  /\ part = "skills" => Sg!VerifiedIsPermanent /\ Sg!ArchivedUnregistered
  /\ part = "merging" => Sm!VerifiedIsPermanent /\ Sm!ArchivedUnregistered
  /\ part = "pruning" => Su!VerifiedIsPermanent /\ Su!ArchivedUnregistered
  /\ part = "entry" => En!MountedAsApproved /\ En!AsksForNew /\ En!RoutedToOffering /\ En!DiscoveredOnce /\ En!RoutedWithinBudget
  /\ part = "lazy" => Ey!MountedAsApproved /\ Ey!AsksForNew /\ Ey!RoutedToOffering /\ Ey!DiscoveredOnce /\ Ey!RoutedWithinBudget
  /\ part = "gated" => Eg!MountedAsApproved /\ Eg!AsksForNew /\ Eg!RoutedToOffering /\ Eg!DiscoveredOnce /\ Eg!RoutedWithinBudget
  /\ part = "manifest" => Em!MountedAsApproved /\ Em!AsksForNew /\ Em!RoutedToOffering /\ Em!DiscoveredOnce /\ Em!RoutedWithinBudget
  /\ part = "chain" => Cn!SubstitutionTold /\ Cn!RoleHeld /\ Cn!SkippedExtras
  /\ part = "bare" => Cb!SubstitutionTold /\ Cb!RoleHeld /\ Cb!SkippedExtras
  /\ part = "extensions" => Ex!LastActionWins
  /\ part = "prompt" => Pr!TrimsInOrder /\ Pr!OwnUnlessCrossed
  /\ part = "warming" => Pw!TrimsInOrder /\ Pw!OwnUnlessCrossed
  /\ part = "squeeze" => Sq!SentFits /\ Sq!RetryIsSmaller

\* What no step may do: forget archived items that memory has seen, recall by search
\* what was marked stale, hand out a skill without its tool, or heal a rate-limited
\* slot before its time without an answer.
StepsAllowed ==
  [][/\ part = "archive" => Ar!ForgetsHiddenOnly /\ Ar!FindsNoMarked
     /\ part = "hub" => Hb!FoundHasTool
     /\ part = "providers" => Pv!HealsByAnswer]_vars

\* What begins comes to an end: the run of a chat, a search, a spawn with its retries
\* and fallbacks, and the wait of a writer for the registry's lock.
Begun ==
  \/ part = "chat" /\ ~Ch!Over
  \/ part = "hub" /\ Hb!Finding("f1")
  \/ part = "providers" /\ Pv!Spawning("s1")
Waiting == part = "hub" /\ Hb!WriterWaits
Wedged == part = "hub" /\ Hb!Wedged
Ends == (Begun ~> (~Begun \/ Wedged)) /\ (Waiting ~> (~Waiting \/ Wedged))
=============================================================================
