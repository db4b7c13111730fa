------------------------------ MODULE MCAgents ------------------------------
(***************************************************************************)
(* Instances of the modules around one agent step: its turns, tool calls,  *)
(* tool servers, judgement, interpreters, commands and workspace.          *)
(* `part` is chosen initially from Parts and says which part runs; the parts *)
(* do not share state here (the modules that compose two of them do that   *)
(* themselves), so they take turns using the same variables: x1 is the first *)
(* variable of whichever module runs, and what it does not need stays 0.   *)
(***************************************************************************)
EXTENDS Integers, Sequences

CONSTANT Parts

VARIABLES part,
          x1, x2, x3, x4, x5, x6, x7, x8, x9, x10, x11, x12, x13, x14, x15, x16,
          x17, x18, x19, x20, x21, x22, x23, x24, x25, x26, x27, x28

Rest15 == <<x15, x16, x17, x18, x19, x20, x21, x22, x23, x24, x25, x26, x27, x28>>
Rest12 == <<x12, x13, x14, Rest15>>
Rest10 == <<x10, x11, Rest12>>
Rest9 == <<x9, Rest10>>
Rest8 == <<x8, Rest9>>
Rest4 == <<x4, x5, x6, x7, Rest8>>
vars == <<part, x1, x2, x3, Rest4>>

Off15 == x15 = 0 /\ x16 = 0 /\ x17 = 0 /\ x18 = 0 /\ x19 = 0 /\ x20 = 0 /\ x21 = 0 /\ x22 = 0 /\ x23 = 0 /\ x24 = 0 /\ x25 = 0 /\ x26 = 0 /\ x27 = 0 /\ x28 = 0
Off12 == x12 = 0 /\ x13 = 0 /\ x14 = 0 /\ Off15
Off10 == x10 = 0 /\ x11 = 0 /\ Off12
Off9 == x9 = 0 /\ Off10
Off8 == x8 = 0 /\ Off9
Off4 == x4 = 0 /\ x5 = 0 /\ x6 = 0 /\ x7 = 0 /\ Off8

-----------------------------------------------------------------------------
(* The instances. *)


\* Four turns of two candidates, one repetition allowed, one turn of grace.
Sp == INSTANCE Spawner WITH
        MaxTurns <- 4, Candidates <- 2, MaxDuplicates <- 1, GraceTurns <- 1,
        MaxParseFailures <- 2, MaxEmptyRetries <- 1, FSOnlyStreakLimit <- 2,
        ZeroEffectNudge <- TRUE, MidAbandonNudge <- TRUE,
        pc <- x1, turn <- x2, cand <- x3, hasTools <- x4, loop <- x5, trace <- x6,
        effective <- x7, stored <- x8, cooling <- x9, cancelled <- x10,
        result <- x11

\* s2 makes a single call: it is the interfering one.
Tc == INSTANCE ToolCalls WITH
        Step <- {"s1", "s2"}, ReadKey <- {"r"}, WriteKey <- {"w"}, Marked <- {"r"},
        HardCap <- 2, MaxEntries <- 1, MaxVersion <- 2,
        MaxCalls <- [s \in {"s1", "s2"} |-> IF s = "s1" THEN 3 ELSE 1],
        version <- x1, cache <- x2, steps <- x3, late <- x4, records <- x5,
        ran <- x6, overlapped <- x7

\* Thresholds 2 and 3 of 2..6; a history of 20 covers 2 * 3 rounds of period 3.
Sv == INSTANCE Sieve WITH
        Call <- {"a", "b", "c"}, Poll <- {"q"}, MaxPeriod <- 3, MaxPrefix <- 0,
        ThresholdMin <- 2, ThresholdMax <- 3, RelaxConsecutive <- 2,
        MaxHistory <- 20, MaxEvictions <- 1, MaxMade <- 40,
        script <- x1, made <- x2, history <- x3, intercepted <- x4, threshold <- x5,
        cleanTasks <- x6, evictions <- x7, phase <- x8

\* Two callers of two servers that share one place in the cache.
Mc == INSTANCE McpClients WITH
        Caller <- {"c1", "c2"}, Server <- {"m1", "m2"}, MaxCache <- 1,
        MaxClients <- 2, MaxBreaks <- 1, PatternKill <- TRUE,
        clients <- x1, started <- x2, processCache <- x3, failed <- x4,
        handshake <- x5, callers <- x6, breaks <- x7, closed <- x8

Ms == INSTANCE McpSessions WITH
        Caller <- {"c1", "c2"}, Key <- {"k1", "k2"}, MaxCache <- 1,
        sessionCache <- x1, lock <- x2, remote <- x3

Ve == INSTANCE Verification WITH
        Criteria <- {"", "regex", "file", "json", "keyword"},
        CheckLists <- {<<>>, <<"file_exists", "command_pass">>, <<"code_entities", "plan_checkboxes">>},
        MaxAutoRefine <- 1, maxSkips <- 1, DeciderRole <- TRUE, MaxSpawns <- 2,
        conf <- x1, status <- x2, out <- x3, ws <- x4, at <- x5, round <- x6,
        rubrics <- x7, verdict <- x8, said <- x9, refines <- x10, spawns <- x11,
        dec <- x12, recent <- x13, skips <- x14

\* Interpreters only ...
Ji == INSTANCE Execution WITH
        Step <- {"s1"}, Caller <- {"c1", "c2"}, Lang <- {"python", "node", "sql"},
        Blocked <- {FALSE}, MaxSpawns <- 2, MaxRuns <- 0, MaxChunks <- 0,
        confirmSemSize <- 1,
        sessions <- x1, sess <- x2, mu <- x3, calls <- x4, ended <- x5,
        stopped <- x6, run <- x7, runs <- x8, cut <- x9

\* ... and commands only.
Cm == INSTANCE Execution WITH
        Step <- {"s1"}, Caller <- {}, Lang <- {}, Blocked <- {TRUE, FALSE},
        MaxSpawns <- 0, MaxRuns <- 1, MaxChunks <- 3, confirmSemSize <- 2,
        sessions <- x1, sess <- x2, mu <- x3, calls <- x4, ended <- x5,
        stopped <- x6, run <- x7, runs <- x8, cut <- x9

\* Two steps in one workspace ...
Ws == INSTANCE Workspace WITH
        Step <- {"s1", "s2"}, File <- {"a"},
        Settings <- {<<TRUE, FALSE, FALSE>>, <<TRUE, FALSE, TRUE>>, <<FALSE, TRUE, FALSE>>},
        Second <- {"t0"}, Probe <- {"applied", "not_applied"},
        Reversal <- {"done", "failed"}, MaxCalls <- 1, MaxFaults <- 0,
        staging <- x1, session <- x2, locked <- x3, dir <- x4, root <- x5,
        cas <- x6, snapDir <- x7, journal <- x8, serial <- x9, refs <- x10,
        at <- x11, pre <- x12, seen <- x13, edit <- x14, jcopy <- x15, seq <- x16,
        records <- x17, tracker <- x18, review <- x19, over <- x20, calls <- x21,
        faults <- x22, shared <- x23, swept <- x24, raced <- x25, reached <- x26,
        settled <- x27, strays <- x28

\* ... and one step, with a sweep of its temporary files or a failed rename.
Wf == INSTANCE Workspace WITH
        Step <- {"s1"}, File <- {"a"},
        Settings <- {<<TRUE, FALSE, FALSE>>, <<TRUE, FALSE, TRUE>>, <<FALSE, TRUE, FALSE>>},
        Second <- {"t0"}, Probe <- {"applied", "not_applied"},
        Reversal <- {"done", "failed"}, MaxCalls <- 2, MaxFaults <- 1,
        staging <- x1, session <- x2, locked <- x3, dir <- x4, root <- x5,
        cas <- x6, snapDir <- x7, journal <- x8, serial <- x9, refs <- x10,
        at <- x11, pre <- x12, seen <- x13, edit <- x14, jcopy <- x15, seq <- x16,
        records <- x17, tracker <- x18, review <- x19, over <- x20, calls <- x21,
        faults <- x22, shared <- x23, swept <- x24, raced <- x25, reached <- x26,
        settled <- x27, strays <- x28

-----------------------------------------------------------------------------
Init ==
  /\ part \in Parts
  /\ \/ part = "spawner"   /\ Sp!Init /\ Off12
     \/ part = "tools"     /\ Tc!Init /\ Off8
     \/ part = "sieve"     /\ Sv!Init /\ Off9
     \/ part = "clients"   /\ Mc!Init /\ Off9
     \/ part = "sessions"  /\ Ms!Init /\ Off4
     \/ part = "verify"    /\ Ve!Init /\ Off15
     \/ part = "jit"       /\ Ji!Init /\ Off10
     \/ part = "command"   /\ Cm!Init /\ Off10
     \/ part = "workspace" /\ Ws!Init
     \/ part = "sweeps"    /\ Wf!Init

Next ==
  \/ part = "spawner"   /\ Sp!Next /\ UNCHANGED <<part, Rest12>>
  \/ part = "tools"     /\ Tc!Next /\ UNCHANGED <<part, Rest8>>
  \/ part = "sieve"     /\ Sv!Next /\ UNCHANGED <<part, Rest9>>
  \/ part = "clients"   /\ Mc!Next /\ UNCHANGED <<part, Rest9>>
  \/ part = "sessions"  /\ Ms!Next /\ UNCHANGED <<part, Rest4>>
  \/ part = "verify"    /\ Ve!Next /\ UNCHANGED <<part, Rest15>>
  \/ part = "jit"       /\ Ji!Next /\ UNCHANGED <<part, Rest10>>
  \/ part = "command"   /\ Cm!Next /\ UNCHANGED <<part, Rest10>>
  \/ part = "workspace" /\ Ws!Next /\ UNCHANGED <<part>>
  \/ part = "sweeps"    /\ Wf!Next /\ UNCHANGED <<part>>

\* doSpawn and the judgement of a step never wait for anything without a timeout; what
\* people, models and the operating system do need not happen.
Goroutine ==
  \/ part = "spawner"   /\ Sp!doSpawn /\ UNCHANGED <<part, Rest12>>
  \/ part = "verify"    /\ Ve!Judge /\ UNCHANGED <<part, Rest15>>
Unattended ==
  \/ part = "verify"    /\ Ve!maybeAutoResolveNonInteractive /\ UNCHANGED <<part, Rest15>>
Decider ==
  \/ part = "verify"    /\ Ve!resolveNonInteractiveDecision /\ UNCHANGED <<part, Rest15>>

Spec == Init /\ [][Next]_vars /\ WF_vars(Goroutine) /\ WF_vars(Unattended) /\ WF_vars(Decider)

-----------------------------------------------------------------------------
(* Properties. Each is stated, with its reason, in the module it comes from. *)

\* The types of the parts' state.
TypeOK ==
  /\ part = "spawner" => Sp!TypeOK
  /\ part = "tools" => Tc!TypeOK
  /\ part = "sieve" => Sv!TypeOK
  /\ part = "clients" => Mc!TypeOK
  /\ part = "sessions" => Ms!TypeOK
  /\ part = "verify" => Ve!TypeOK
  /\ part = "jit" => Ji!TypeOK
  /\ part = "command" => Cm!TypeOK
  /\ part = "workspace" => Ws!TypeOK
  /\ part = "sweeps" => Wf!TypeOK

\* An ok is earned: the answer of a role with tools used them (spawner), and the step
\* passed the checks it was given (verify).
OkIsEarned ==
  /\ part = "spawner" => Sp!OkIsEarned
  /\ part = "verify" => Ve!OkIsJudged

\* Whatever a stuck model repeats, the sieve intercepts it in bounded time.
CycleCaught == part = "sieve" => Sv!CycleCaught

\* What calls share and what they change is accounted for: cached reads when calls do not
\* overlap, the record of executed writes, the processes of servers and interpreters,
\* handshakes, the journal of effects and the workspace a rollback restores.
EffectsAccounted ==
  /\ part = "tools" => Tc!CoherentAlone /\ Tc!EffectsAccounted
  /\ part = "clients" => Mc!NoOrphan
  /\ part = "sessions" => Ms!HandshakeOnce
  /\ part = "jit" => Ji!NoLeakedProcess
  /\ part = "workspace" => Ws!RollbackExact /\ Ws!JournalComplete /\ Ws!ResultsKept /\ Ws!EffectsFaced
  /\ part = "sweeps" => Wf!RollbackExact /\ Wf!JournalComplete /\ Wf!ResultsKept /\ Wf!EffectsFaced

\* A command is taken to wait for input only on the last thing read from it.
PromptIsLast == [][part = "command" => Cm!AsksAfterPrompt]_vars

\* A step ends and is judged, and an unattended question is answered.
Working ==
  \/ part = "spawner" /\ ~Sp!Done
  \/ part = "verify" /\ Ve!Judging
Asked == part = "verify" /\ Ve!Asked
Ends == (Working ~> ~Working) /\ (Asked ~> (part = "verify" /\ Ve!Answered))
=============================================================================
