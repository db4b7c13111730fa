---------------------------- MODULE Verification ----------------------------
(***************************************************************************)
(* How the engine judges the output of a step and, when nobody watches,    *)
(* answers its own decisions: verifyExitCriteria and the debate of         *)
(* core/scheduler_decision_audit.go, the checks of                         *)
(* core/verify/deterministic_verifier.go, the refine loop around them in   *)
(* core/scheduler_dag_exec.go, and the unattended mode of                  *)
(* core/scheduler_decision_gate.go.                                        *)
(*                                                                         *)
(* One step is followed.  A spawn leaves an output and a workspace behind; *)
(* the cheap checks are functions of these two, every question to a model  *)
(* is an action whose answer is free.  Time is modelled where the code     *)
(* looks at it: the thirty seconds after an automatic answer.              *)
(***************************************************************************)
EXTENDS Integers, Sequences, FiniteSets

CONSTANTS Criteria,     \* exit criteria a step may have: "", "regex", "file",
                        \* "json", "keyword"
          CheckLists,   \* sequences of deterministic checks a step may have
          MaxAutoRefine,
          maxSkips,     \* skips in a row after which skip is not offered
          DeciderRole,  \* is a decider role configured
          MaxSpawns     \* spawns of the step (bound)

VARIABLES conf,     \* the step as submitted
          status,   \* status of the step
          out,      \* the output being judged
          ws,       \* the workspace after the spawn
          at,       \* where the judgement is
          round,    \* round of the debate
          rubrics,  \* rubrics were generated and kept
          verdict,  \* outcome of the last judgement: passed, and failure type
          said,     \* the auditor's last answer
          refines,  \* AutoRefineCount
          spawns,
          dec,      \* the pending decision: its type, options and handling
          recent,   \* an automatic answer was given in the last thirty seconds
          skips     \* consecutive skips

vars == <<conf, status, out, ws, at, round, rubrics, verdict, said, refines, spawns,
          dec, recent, skips>>

Category == {"timeout", "permission", "conflict", "schema", "logic"}
Answer == {"PASS"} \cup Category
NoDec == [type |-> "none", options |-> {}, handled |-> "no"]
Fresh == [passed |-> TRUE, type |-> "none"]

\* What a model says: an object with the output's fields, alone, in a fence or
\* between other words, whose "result" is an object, missing (attachments
\* alone), or a text that is JSON, repairable to JSON, or neither.
Text == [wrap : {"bare", "fenced", "embedded"},
         result : {"object", "none", "json", "repairable", "text"}]

\* ParseOutput: a result that is a text is kept under "raw", but only when the
\* object stands alone; otherwise the output is partial and is not judged.
ParseOutput(t) ==
    CASE t.result = "object" -> "map"
      [] t.result = "none" -> "empty"
      [] t.wrap # "bare" -> "partial"
      [] t.result = "json" -> "raw-json"
      [] t.result = "repairable" -> "raw-repairable"
      [] OTHER -> "raw-text"

Form == {ParseOutput(t) : t \in Text} \ {"partial"}
Output == [meets : BOOLEAN, form : Form, artifact : BOOLEAN]
Workspace == [file : {"absent", "empty", "small", "large"}, open : BOOLEAN,
              entities : BOOLEAN, command : BOOLEAN]

----------------------------------------------------------------------------
(* The checks that cost nothing.                                           *)

\* validateArtifactContract
validateArtifactContract == conf.contract => out.artifact

FileExistsVerifier == ws.file \in {"small", "large"}
CommandPassVerifier == ws.command
PlanCheckboxVerifier == ws.file # "absent" /\ ~ws.open
CodeEntityVerifier == ws.entities

Holds(check) ==
    CASE check = "file_exists" -> FileExistsVerifier
      [] check = "command_pass" -> CommandPassVerifier
      [] check = "plan_checkboxes" -> PlanCheckboxVerifier
      [] check = "code_entities" -> CodeEntityVerifier
      [] OTHER -> TRUE

\* A bug: the loop returns after the first check.
OnlyFirstCheck(list) ==
    IF list # <<>> /\ ~Holds(list[1]) THEN [passed |-> FALSE, type |-> "logic"] ELSE Fresh

\* RunDeterministicChecks: the first check that fails decides; a check of an
\* unknown type is passed over.
RunDeterministicChecks(list) ==
    LET bad == {i \in DOMAIN list : ~Holds(list[i])}
    IN  IF bad = {} THEN Fresh
        ELSE LET first == CHOOSE i \in bad : \A j \in bad : i <= j
             IN  [passed |-> FALSE,
                  type |-> IF list[first] = "file_exists" THEN "schema" ELSE "logic"]

\* The criterion "regex:" or "file:"; a file has to be larger than 1024 bytes.
Matches == IF conf.criterion = "regex" THEN out.meets ELSE ws.file = "large"

\* verifyJSONCriterion
verifyJSONCriterion ==
    IF out.form \in {"map", "raw-json", "raw-repairable"} THEN Fresh
    ELSE [passed |-> FALSE, type |-> "schema"]

\* The end of verifyExitCriteria: JSON, or the criterion as a keyword.  A regex
\* or file criterion comes here when the auditor fails; its own text, prefix
\* included, is then looked for and not found.
LastCheck ==
    IF conf.criterion = "json" THEN verifyJSONCriterion
    ELSE IF conf.criterion = "keyword" /\ out.meets THEN Fresh
    ELSE [passed |-> FALSE, type |-> "logic"]

\* Everything verifyExitCriteria does before it asks a model.
Cheap ==
    LET checks == RunDeterministicChecks(conf.checks)
    IN  IF ~validateArtifactContract THEN [passed |-> FALSE, type |-> "schema"]
        ELSE IF conf.criterion \in {"regex", "file"} /\ ~conf.verifier
             THEN IF Matches THEN Fresh ELSE [passed |-> FALSE, type |-> "logic"]
        ELSE IF ~checks.passed THEN checks
        ELSE IF conf.verifier THEN [passed |-> TRUE, type |-> "ask"]
        ELSE LastCheck

\* The auditor's answer as the engine reads it.  The result of a spawn is a
\* map, which is printed with "map[" in front, so that no answer begins with
\* PASS; the failure type is looked for anywhere in the text.
Rendered(answer) == <<"map[", answer>>
HasPrefix(text, word) == text[1] = word
Read(answer) ==
    IF HasPrefix(Rendered(answer), "PASS") THEN Fresh
    ELSE [passed |-> FALSE, type |-> IF answer = "PASS" THEN "logic" ELSE answer]

----------------------------------------------------------------------------
(* The judgement.                                                          *)

Keep == UNCHANGED <<conf, spawns, dec, recent, skips, out, ws>>


\* The outputs and workspaces a spawn may leave, up to what the step's
\* configuration tells apart.
NoOutput == [meets |-> TRUE, form |-> "map", artifact |-> TRUE]
NoWorkspace == [file |-> "absent", open |-> FALSE, entities |-> FALSE, command |-> FALSE]
Looks(check) == \E i \in DOMAIN conf.checks : conf.checks[i] = check
Told == {o \in Output : /\ conf.contract \/ o.artifact
                        /\ IF conf.criterion = "json" THEN o.meets ELSE o.form = "map"
                        /\ conf.criterion \in {"", "file"} => o.meets}
Left == {w \in Workspace :
            /\ conf.criterion = "file" \/ Looks("file_exists") \/ Looks("plan_checkboxes")
                  \/ w.file = "absent"
            /\ Looks("plan_checkboxes") \/ ~w.open
            /\ Looks("code_entities") \/ ~w.entities
            /\ Looks("command_pass") \/ ~w.command}

\* A spawn ends well: the step is marked ok, and judged if it has a criterion.
Spawned ==
    /\ status = "pending"
    /\ spawns < MaxSpawns
    /\ spawns' = spawns + 1
    /\ out' \in Told
    /\ ws' \in Left
    /\ status' = "ok"
    /\ at' = IF conf.criterion = "" THEN "done" ELSE "verify"
    /\ said' = "nothing"
    /\ verdict' = Fresh
    /\ skips' = IF conf.criterion = "" THEN 0 ELSE skips
    /\ UNCHANGED <<conf, round, rubrics, refines, dec, recent>>

Judged(v) ==
    /\ verdict' = v
    /\ at' = "judged"

verifyExitCriteria ==
    /\ at = "verify"
    /\ IF Cheap.type # "ask" THEN Judged(Cheap) /\ UNCHANGED round
       ELSE /\ at' = IF conf.debate THEN "critic" ELSE IF rubrics THEN "audit" ELSE "rubrics"
            /\ round' = 1
            /\ UNCHANGED verdict
    /\ UNCHANGED <<status, rubrics, said, refines>>
    /\ Keep

\* generateDynamicRubrics: kept with the step when it succeeds, else the
\* built-in rules serve.
generateDynamicRubrics ==
    /\ at = "rubrics"
    /\ at' = "audit"
    /\ rubrics' \in BOOLEAN
    /\ UNCHANGED <<status, round, verdict, said, refines>>
    /\ Keep

\* The audit; when it cannot be had, the last check decides.
Audit ==
    /\ at = "audit"
    /\ \/ \E a \in Answer : said' = a /\ Judged(Read(a))
       \/ said' = "error" /\ Judged(LastCheck)
    /\ UNCHANGED <<status, round, rubrics, refines>>
    /\ Keep

\* runCriticAudit: here an error is a failure.
runCriticAudit ==
    /\ at = "critic"
    /\ \E a \in Answer \cup {"error"} :
          LET v == IF a = "error" THEN [passed |-> FALSE, type |-> "logic"] ELSE Read(a)
          IN  /\ said' = a
              /\ verdict' = v
              /\ at' = IF ~v.passed /\ round < conf.rounds THEN "synthesize" ELSE "judged"
    /\ UNCHANGED <<status, round, rubrics, refines>>
    /\ Keep

\* A bug: the proposer's turn does not count as a round.
SameRound(r) == r

NextRound(r) == r + 1

\* runProposerSynthesize: the revised text goes to the next round, an error
\* ends the debate with the last verdict.
runProposerSynthesize ==
    /\ at = "synthesize"
    /\ \/ at' = "critic" /\ round' = NextRound(round)
       \/ at' = "judged" /\ UNCHANGED round
    /\ UNCHANGED <<status, rubrics, verdict, said, refines>>
    /\ Keep

\* A bug: the refine counter is not compared.
RefinesAlways == TRUE

MayRefine == refines < MaxAutoRefine

Pend(type, options) == [type |-> type, options |-> options, handled |-> "no"]

\* filterSkipOptions
filterSkipOptions(options) == IF skips >= maxSkips THEN (options \ {"skip"}) \cup {"abort"}
                              ELSE options

\* The refine loop of executeStep.
Settle ==
    /\ at = "judged"
    /\ at' = "done"
    /\ IF verdict.passed THEN UNCHANGED <<status, out, ws, refines, dec>> /\ skips' = 0
       ELSE /\ out' = NoOutput /\ ws' = NoWorkspace
            /\ IF MayRefine
               THEN status' = "pending" /\ refines' = refines + 1 /\ UNCHANGED <<dec, skips>>
               ELSE /\ status' = "blocked"
                    /\ dec' = Pend("step_failed",
                                   filterSkipOptions({"skip", "abort", "retry"}))
                    /\ UNCHANGED <<refines, skips>>
    /\ round' = 0 /\ said' = "nothing" /\ verdict' = Fresh
    /\ UNCHANGED <<conf, rubrics, spawns, recent>>

\* tryPlannerReplan: the planner's steps, if it gives any that can be used,
\* make "replan" an option of the abort decision.
tryPlannerReplan == {{"confirm_abort", "continue"}, {"replan", "confirm_abort", "continue"}}

\* The other decisions a spawn may end in.
OtherDecision ==
    /\ status = "pending"
    /\ spawns < MaxSpawns
    /\ spawns' = spawns + 1
    /\ status' = "blocked"
    /\ dec' \in {Pend("max_turns_exhausted",
                      filterSkipOptions({"resume_more_turns", "refine_and_retry",
                                         "escalate_model", "retry", "skip", "abort"})),
                 Pend("human_approval_required",
                      filterSkipOptions({"approve", "abort", "skip"}))}
                \cup {Pend("autonomous_abort", o) : o \in tryPlannerReplan}
    /\ UNCHANGED <<conf, out, ws, at, round, rubrics, verdict, said, refines, recent, skips>>

----------------------------------------------------------------------------
(* The unattended mode.                                                    *)

\* maybeAutoResolveNonInteractive, called by addDecision: nothing is done for
\* a step of the critical tier, nor within thirty seconds of the last answer.
maybeAutoResolveNonInteractive ==
    /\ dec.handled = "no" /\ dec.type # "none"
    /\ dec' = [dec EXCEPT !.handled = IF conf.critical THEN "left" ELSE
                                      IF recent THEN "limited" ELSE "deciding"]
    /\ recent' = (recent \/ ~conf.critical)
    /\ UNCHANGED <<conf, status, out, ws, at, round, rubrics, verdict, said, refines,
                   spawns, skips>>

Preferred ==
    CASE dec.type = "step_failed" -> <<"skip", "retry", "refine_and_retry", "abort">>
      [] dec.type = "max_turns_exhausted" -> <<"resume_more_turns">>
      [] dec.type = "autonomous_abort" -> <<"continue">>
      [] OTHER -> <<>>

\* defaultNonInteractiveChoice: the first preference that is offered.
defaultNonInteractiveChoice ==
    LET offered == {i \in DOMAIN Preferred : Preferred[i] \in dec.options}
    IN  IF offered = {} THEN ""
        ELSE Preferred[CHOOSE i \in offered : \A j \in offered : i <= j]

\* What SubmitDecision does with a choice.
Apply(choice) ==
    /\ status' = CASE choice = "skip" -> "skipped"
                   [] choice \in {"abort", "confirm_abort"} -> "aborted"
                   [] OTHER -> "pending"
    /\ skips' = IF choice = "skip" THEN skips + 1 ELSE skips
    /\ dec' = NoDec

\* A bug: the fallback is forgotten when the decider fails.
NoFallback == ""

Fallback == defaultNonInteractiveChoice

\* spawnDecider: the decider's text names an offered option as a word, the
\* longest one if it names several; no other choice comes of it.
spawnDecider == IF DeciderRole THEN dec.options ELSE {}

\* resolveNonInteractiveDecision: an approval waits for a person; else the
\* decider names an offered option, or the default is taken.  An empty choice
\* leaves the decision to a person.
resolveNonInteractiveDecision ==
    /\ dec.handled = "deciding"
    /\ LET choices == IF dec.type = "human_approval_required" THEN {""}
                      ELSE {Fallback} \cup spawnDecider
       IN  \E c \in choices :
              IF c = ""
              THEN dec' = [dec EXCEPT !.handled = "left"] /\ UNCHANGED <<status, skips>>
              ELSE Apply(c)
    /\ UNCHANGED <<conf, out, ws, at, round, rubrics, verdict, said, refines, spawns,
                   recent>>

\* A person answers what was left to them.
SubmitDecision ==
    /\ dec.handled \in {"left", "limited"}
    /\ \E c \in dec.options : Apply(c)
    /\ UNCHANGED <<conf, out, ws, at, round, rubrics, verdict, said, refines, spawns,
                   recent>>

ThirtySeconds ==
    /\ recent
    /\ recent' = FALSE
    /\ UNCHANGED <<conf, status, out, ws, at, round, rubrics, verdict, said, refines,
                   spawns, dec, skips>>

----------------------------------------------------------------------------

Config == [criterion : Criteria, checks : CheckLists, verifier : BOOLEAN,
           debate : BOOLEAN, rounds : 1..2, contract : BOOLEAN, critical : BOOLEAN]

Init ==
    /\ conf \in Config
    /\ conf.debate => conf.verifier
    /\ conf.rounds = 2 => conf.debate
    /\ conf.critical => conf.criterion = "json"
    /\ status = "pending" /\ at = "done"
    /\ out = NoOutput /\ ws = NoWorkspace
    /\ round = 0 /\ rubrics = FALSE /\ verdict = Fresh /\ said = "nothing"
    /\ refines = 0 /\ spawns = 0 /\ dec = NoDec /\ recent = FALSE /\ skips = 0

Judge == \/ verifyExitCriteria \/ generateDynamicRubrics \/ Audit \/ runCriticAudit
         \/ runProposerSynthesize \/ Settle

Next == \/ Spawned \/ OtherDecision \/ Judge
        \/ maybeAutoResolveNonInteractive \/ resolveNonInteractiveDecision
        \/ SubmitDecision \/ ThirtySeconds

\* The engine's goroutines run on; a person need not answer.
Fairness == /\ WF_vars(Judge)
            /\ WF_vars(maybeAutoResolveNonInteractive)
            /\ WF_vars(resolveNonInteractiveDecision)

Spec == Init /\ [][Next]_vars /\ Fairness

----------------------------------------------------------------------------

TypeOK ==
    /\ conf \in Config
    /\ status \in {"pending", "ok", "blocked", "skipped", "aborted"}
    /\ at \in {"done", "verify", "rubrics", "audit", "critic", "synthesize", "judged"}
    /\ round \in 0..2 /\ refines \in 0..MaxAutoRefine
    /\ verdict.type \in Category \cup {"none"}
    /\ dec.handled \in {"no", "deciding", "limited", "left"}

\* A step that ends as ok has passed: its artifact, its deterministic checks
\* (which a regex or file criterion without an auditor bypasses) and its
\* criterion hold for the output and the workspace it leaves, whichever way
\* the refine loop, the audit and its failures went.
OkIsJudged ==
    (status = "ok" /\ at = "done" /\ conf.criterion # "") =>
        /\ validateArtifactContract
        /\ conf.criterion \in {"regex", "file"} /\ ~conf.verifier => Matches
        /\ conf.verifier \/ conf.criterion \notin {"regex", "file"} =>
              \A i \in DOMAIN conf.checks : Holds(conf.checks[i])
        /\ conf.criterion = "json" => out.form \notin {"empty", "raw-text"}

\* No debate and no refinement goes on for ever.
Judging == at # "done"
JudgementEnds == Judging ~> ~Judging

\* In the unattended mode a decision is answered, unless it was left to a
\* person: the step is critical, the decision is an approval, or the last
\* automatic answer was less than thirty seconds ago.
Asked ==
    /\ dec.type \notin {"none", "human_approval_required"} /\ dec.handled = "no"
    /\ ~conf.critical /\ ~recent
Answered == dec.type = "none" \/ dec.handled = "limited"
UnattendedAnswers == Asked ~> Answered

\* What the comment of maybeAutoResolveNonInteractive says of the unattended
\* mode: a decision that would block for ever is resolved.
NeverBlocksForEver ==
    (dec.type = "step_failed" /\ ~conf.critical) ~> dec.type = "none"

\* What the prompt of the audit agrees with the auditor: an output is
\* accepted when the answer is PASS.
PassMeansPass == (said = "PASS" /\ at = "judged") => verdict.passed

============================================================================
