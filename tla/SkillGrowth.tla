---------------------------- MODULE SkillGrowth ----------------------------
(***************************************************************************)
(* How the orchestrator grows its own tools: the JIT manager                *)
(* (core/jit/jit.go) registers scripts that live for a while, reflection    *)
(* (core/reflection.go, core/reflection_jit_source.go) turns successful     *)
(* traces into generated skills, merges and promotes them, and the          *)
(* experience store (store/experience_skills.go, experience_record.go)      *)
(* keeps their lineage and prunes the poor ones.                            *)
(*                                                                          *)
(* One capability is modelled: skills of different capabilities never meet. *)
(* A skill's affinity is abstracted to whether it has the samples to be     *)
(* judged, and whether it is high or low by more than the pruning margin.   *)
(***************************************************************************)
EXTENDS Integers, FiniteSets

CONSTANTS
    MaxTools,   \* bound: ids RegisterTool may draw
    Worker,     \* background goroutines of the reflection engine
    MinUses,    \* uses that make a skill promotable
    MaxTasks    \* bound: tasks that finish

ToolId == 1 .. MaxTools

NoParent == 0

VARIABLES
    tool,       \* per id: [dyn, file, static, marked, timer]
    skills,     \* GeneratedSkills: id -> [parent, uses, good, verified, dormant]
    affinity,   \* SkillAffinities: id -> "few", "high" or "low"
    archived,   \* ArchivedSkills
    registered, \* /skills of the configuration registry
    job,        \* per worker: what it is doing
    refl,       \* the reflection pass in progress
    tasks,
    merged,     \* ghost: skills made by a hybrid merge
    unsynced,   \* ghost: skills whose registry commit failed, or pruned by cost
    raced,      \* ghost: tools promoted while their clean-up was under way
    rewritten   \* ghost: skill records overwritten by a late registration

growthVars == <<tool, skills, affinity, archived, registered, job, refl,
                tasks, merged, unsynced, raced, rewritten>>

NoTool == [dyn |-> FALSE, file |-> FALSE, static |-> FALSE, marked |-> FALSE,
           timer |-> "none"]

NoJob == [kind |-> "none", pc |-> "idle", id |-> NoParent, parent |-> NoParent]

NoPass == [pc |-> "idle", used |-> {}, pruned |-> {}, ok |-> FALSE]

Fresh(parent) ==
    [parent |-> parent, uses |-> 0, good |-> TRUE, verified |-> FALSE, dormant |-> FALSE]

\* The process starts empty, or with what an earlier one left: a promoted root
\* and perhaps a variant of it that was never promoted.
Root == [Fresh(NoParent) EXCEPT !.uses = MinUses, !.verified = TRUE]

Loaded(n) ==
    /\ tool = [i \in ToolId |->
                  CASE i = 1 /\ n > 0 -> [NoTool EXCEPT !.file = TRUE, !.static = TRUE]
                    [] i = 2 /\ n > 1 -> [NoTool EXCEPT !.timer = "fired"]
                    [] OTHER -> NoTool]
    /\ skills = [i \in 1 .. n |-> IF i = 1 THEN Root ELSE Fresh(1)]
    /\ registered = 1 .. n
    /\ affinity \in {[i \in ToolId |-> CASE i = 1 /\ n > 0 -> a
                                         [] i = 2 /\ n > 1 -> b
                                         [] OTHER -> "few"] :
                         a, b \in {"few", "high", "low"}}

Init ==
    /\ \E n \in 0 .. 2 : Loaded(n)
    /\ archived = {}
    /\ job = [w \in Worker |-> NoJob]
    /\ refl = NoPass
    /\ tasks = 0
    /\ merged = {} /\ unsynced = {} /\ raced = {} /\ rewritten = {}

-----------------------------------------------------------------------------
(* The JIT manager *)

\* Ids are drawn afresh; the least unused one stands for any of them.
Unused(i) == tool[i] = NoTool /\ \A j \in 1 .. i - 1 : tool[j] # NoTool

GetMCP(i) == tool[i].dyn \/ tool[i].static

\* The script is written, the tool is callable, the clean-up timer is armed.
RegisterTool(t, i) ==
    [t EXCEPT ![i] = [NoTool EXCEPT !.dyn = TRUE, !.file = TRUE, !.timer = "armed"]]

\* The jit subsystem's create action.
CreateTool(i) ==
    /\ Unused(i)
    /\ tool' = RegisterTool(tool, i)
    /\ UNCHANGED <<skills, affinity, archived, registered, job, refl, tasks,
                   merged, unsynced, raced, rewritten>>

\* Variant: the clean-up does not ask whether the tool was promoted.
CleansPromoted(i) == TRUE

\* scheduleCleanup asks the promoted map only once, before it removes anything.
CleansUp(i) == ~tool[i].marked

TimerFires(i) ==
    /\ tool[i].timer = "armed"
    /\ tool' = [tool EXCEPT ![i].timer = IF CleansUp(i) THEN "due" ELSE "fired"]
    /\ UNCHANGED <<skills, affinity, archived, registered, job, refl, tasks,
                   merged, unsynced, raced, rewritten>>

TimerRemoves(i) ==
    /\ tool[i].timer = "due"
    /\ tool' = [tool EXCEPT ![i].dyn = FALSE, ![i].file = FALSE, ![i].timer = "fired"]
    /\ UNCHANGED <<skills, affinity, archived, registered, job, refl, tasks,
                   merged, unsynced, raced, rewritten>>

-----------------------------------------------------------------------------
(* Generated skills in the experience store *)

Added(ss, i, rec) == [j \in DOMAIN ss \cup {i} |-> IF j = i THEN rec ELSE ss[j]]

Without(ss, gone) == [j \in DOMAIN ss \ gone |-> ss[j]]

IncrementGeneratedSkillUsage(ss, i) ==
    IF i \in DOMAIN ss THEN [ss EXCEPT ![i].uses = @ + 1] ELSE ss

\* A tool seen in a successful trace becomes a skill without a parent.
captureTraceJITSkills(ss, used) ==
    [j \in DOMAIN ss \cup used |->
        IF j \notin DOMAIN ss THEN Fresh(NoParent)
        ELSE IF j \in used THEN [ss[j] EXCEPT !.uses = @ + 1] ELSE ss[j]]

\* A skipped step spoils the success rate, a completed one counts for it; with
\* the few uses of this model one miss keeps the rate at or below 80%.
updateSkillMetabolicCost(ss, used, ok) ==
    [j \in DOMAIN ss |->
        IF j \in used THEN [ss[j] EXCEPT !.uses = @ + 1, !.good = @ /\ ok] ELSE ss[j]]

Roots == {i \in DOMAIN skills : skills[i].parent = NoParent}

\* Variant: roots are judged like every other skill.
PrunableRootsToo(i) == affinity[i] = "low"

Prunable(i) == skills[i].parent # NoParent /\ affinity[i] = "low"

PruneSkills ==
    {i \in DOMAIN skills :
        /\ Prunable(i)
        /\ \E j \in DOMAIN skills \ {i} : affinity[j] = "high"}

-----------------------------------------------------------------------------
(* ReflectOnTask, one pass at a time *)

\* A task ended whose step used some tool or skill: exposures and traces are
\* credited, then RecordTaskCompletion takes the completed and skipped steps
\* only.
ReflectOnTask(used, status) ==
    /\ refl = NoPass
    /\ tasks < MaxTasks
    /\ \A i \in used : GetMCP(i)
    /\ tasks' = tasks + 1
    /\ LET ok == status = "ok"
           captured == IF ok THEN captureTraceJITSkills(skills, used) ELSE skills
           recorded == IF status = "failed" THEN captured
                       ELSE updateSkillMetabolicCost(captured, used, ok)
       IN  /\ skills' = recorded
           /\ refl' = [pc |-> "prune", used |-> used, pruned |-> {}, ok |-> ok]
    /\ affinity' \in {[affinity EXCEPT ![i] = a] :
                         i \in used, a \in {"few", "high", "low"}} \cup {affinity}
    /\ UNCHANGED <<tool, archived, registered, job, merged, unsynced, raced,
                   rewritten>>

ReflectPrune ==
    /\ refl.pc = "prune"
    /\ LET gone == PruneSkills
       IN  /\ skills' = Without(skills, gone)
           /\ archived' = archived \cup gone
           /\ refl' = [refl EXCEPT !.pc = "commit", !.pruned = gone]
    /\ UNCHANGED <<tool, affinity, registered, job, tasks, merged,
                   unsynced, raced, rewritten>>

\* Variant: the pruned skills stay in the registry.
KeepsRegistry(gone) == registered

LeavesRegistry(gone) == registered \ gone

\* The pruned skills leave the registry, unless the commit is refused. Then the
\* scan for merges is started in the background.
ReflectCommit ==
    /\ refl.pc = "commit"
    /\ \/ /\ registered' = LeavesRegistry(refl.pruned)
          /\ UNCHANGED unsynced
       \/ /\ refl.pruned # {}
          /\ unsynced' = unsynced \cup refl.pruned
          /\ UNCHANGED registered
    /\ \E w \in Worker :
         /\ job[w] = NoJob
         /\ job' = [job EXCEPT ![w] = [NoJob EXCEPT !.kind = "merge", !.pc = "scan"]]
    /\ refl' = [refl EXCEPT !.pc = "promote", !.pruned = {}]
    /\ UNCHANGED <<tool, skills, affinity, archived, tasks, merged,
                   raced, rewritten>>

\* maybePromoteSkill's gate.
Promotable(i) ==
    /\ i \in DOMAIN skills
    /\ ~skills[i].verified
    /\ skills[i].uses >= MinUses /\ skills[i].good

\* PromotePermanent marks the tool before it looks it up.
PromoteMark(i) ==
    /\ refl.pc = "promote" /\ i \in refl.used
    /\ IF Promotable(i)
       THEN /\ tool' = [tool EXCEPT ![i].marked = TRUE]
            /\ refl' = IF GetMCP(i) THEN [refl EXCEPT !.pc = "persist"]
                       ELSE [refl EXCEPT !.used = @ \ {i}]
            /\ raced' = IF tool[i].timer = "due" THEN raced \cup {i} ELSE raced
       ELSE /\ refl' = [refl EXCEPT !.used = @ \ {i}]
            /\ UNCHANGED <<tool, raced>>
    /\ UNCHANGED <<skills, affinity, archived, registered, job, tasks, 
                   merged, unsynced, rewritten>>

Verified(ss, i) == IF i \in DOMAIN ss THEN [ss EXCEPT ![i].verified = TRUE] ELSE ss

\* Variant: the skill counts as verified whether or not the commit succeeded.
VerifiedAnyway(committed) == TRUE

VerifiedIf(committed) == committed

PromoteCommit(i) ==
    /\ refl.pc = "persist" /\ i \in refl.used
    /\ \E committed \in BOOLEAN :
         /\ tool' = [tool EXCEPT ![i].static = @ \/ committed]
         /\ skills' = IF VerifiedIf(committed) THEN Verified(skills, i) ELSE skills
    /\ refl' = [refl EXCEPT !.pc = "promote", !.used = @ \ {i}]
    /\ UNCHANGED <<affinity, archived, registered, job, tasks, merged,
                   unsynced, raced, rewritten>>

\* A successful step that looks novel is crystallised in the background, unless
\* too many already are.
ReflectEnd ==
    /\ refl.pc = "promote" /\ refl.used = {}
    /\ refl' = NoPass
    /\ \/ UNCHANGED job
       \/ /\ refl.ok
          /\ \E w \in Worker :
               /\ job[w] = NoJob
               /\ job' = [job EXCEPT ![w] = [NoJob EXCEPT !.kind = "crystallize",
                                                          !.pc = "llm"]]
    /\ UNCHANGED <<tool, skills, affinity, archived, registered, tasks, 
                   merged, unsynced, raced, rewritten>>

-----------------------------------------------------------------------------
(* The background goroutines *)

\* ScanForHybridMerge: with two verified variants of proven quality whose source
\* is at hand, a model is asked for one that unifies them.
MergeScan(w) ==
    /\ job[w].pc = "scan"
    /\ LET good == {i \in DOMAIN skills : skills[i].verified /\ skills[i].good}
       IN  job' = [job EXCEPT ![w].pc = IF Cardinality(good) >= 2 THEN "llm" ELSE "cost"]
    /\ UNCHANGED <<tool, skills, affinity, archived, registered, refl, tasks,
                   merged, unsynced, raced, rewritten>>

\* The model answers, or it does not: then a merge still prunes by cost.
ModelAnswers(w) ==
    /\ job[w].pc = "llm"
    /\ \/ \E i \in ToolId :
            /\ Unused(i)
            /\ tool' = RegisterTool(tool, i)
            /\ job' = [job EXCEPT ![w].pc = "register", ![w].id = i]
       \/ /\ job' = [job EXCEPT ![w] = IF @.kind = "merge" THEN [@ EXCEPT !.pc = "cost"]
                                       ELSE NoJob]
          /\ UNCHANGED tool
    /\ UNCHANGED <<skills, affinity, archived, registered, refl, tasks, 
                   merged, unsynced, raced, rewritten>>

AfterRegistration(w) ==
    IF job[w].kind = "merge" THEN [job[w] EXCEPT !.pc = "verify"] ELSE NoJob

\* registerAsSkill: a tool already captured from a trace, or a similar unproven
\* skill, only gains a use.
RegisterKnown(w) ==
    /\ job[w].pc = "register"
    /\ \E i \in DOMAIN skills :
         /\ i = job[w].id \/ (job[w].id \notin DOMAIN skills /\ GetMCP(i)
                              /\ ~skills[i].verified)
         /\ skills' = IncrementGeneratedSkillUsage(skills, i)
    /\ job' = [job EXCEPT ![w] = AfterRegistration(w)]
    /\ UNCHANGED <<tool, affinity, archived, registered, refl, tasks, merged,
                   unsynced, raced, rewritten>>

\* Otherwise the root of the capability, if there is one, becomes its parent.
RegisterRoot(w) ==
    /\ job[w].pc = "register"
    /\ job[w].id \notin DOMAIN skills
    /\ \E p \in IF Roots = {} THEN {NoParent} ELSE Roots :
         job' = [job EXCEPT ![w].pc = "commit", ![w].parent = p]
    /\ UNCHANGED <<tool, skills, affinity, archived, registered, refl, tasks,
                   merged, unsynced, raced, rewritten>>

RegisterCommit(w) ==
    /\ job[w].pc = "commit"
    /\ \/ registered' = registered \cup {job[w].id} /\ UNCHANGED unsynced
       \/ unsynced' = unsynced \cup {job[w].id} /\ UNCHANGED registered
    /\ job' = [job EXCEPT ![w].pc = "add"]
    /\ UNCHANGED <<tool, skills, affinity, archived, refl, tasks, merged,
                   raced, rewritten>>

AddGeneratedSkill(w) ==
    /\ job[w].pc = "add"
    /\ skills' = Added(skills, job[w].id, Fresh(job[w].parent))
    /\ merged' = IF job[w].kind = "merge" THEN merged \cup {job[w].id} ELSE merged
    /\ rewritten' = IF job[w].id \in DOMAIN skills THEN rewritten \cup {job[w].id}
                    ELSE rewritten
    /\ job' = [job EXCEPT ![w] = AfterRegistration(w)]
    /\ UNCHANGED <<tool, affinity, archived, registered, refl, tasks, 
                   unsynced, raced>>

\* A merged skill is verified on the spot; its tool keeps its three days to live.
MergeVerify(w) ==
    /\ job[w].pc = "verify"
    /\ skills' = Verified(skills, job[w].id)
    /\ merged' = merged \cup {job[w].id}
    /\ job' = [job EXCEPT ![w].pc = "cost", ![w].id = NoParent]
    /\ UNCHANGED <<tool, affinity, archived, registered, refl, tasks, unsynced,
                   raced, rewritten>>

\* PruneByMetabolicROI: a costly variant turns dormant, a dormant one unused for
\* long is archived. Its caller does not take the ids out of the registry.
PruneByMetabolicROI(w) ==
    /\ job[w].pc = "cost"
    /\ job' = [job EXCEPT ![w] = NoJob]
    /\ \/ UNCHANGED <<skills, archived, unsynced>>
       \/ \E i \in DOMAIN skills :
            /\ skills[i].parent # NoParent
            /\ IF skills[i].dormant
               THEN /\ skills' = Without(skills, {i})
                    /\ archived' = archived \cup {i}
                    /\ unsynced' = unsynced \cup {i}
               ELSE /\ skills[i].uses > 0
                    /\ skills' = [skills EXCEPT ![i].dormant = TRUE]
                    /\ UNCHANGED <<archived, unsynced>>
    /\ UNCHANGED <<tool, affinity, registered, refl, tasks, merged, raced,
                   rewritten>>

Next ==
    \/ \E i \in ToolId : \/ CreateTool(i) \/ TimerFires(i) \/ TimerRemoves(i)
                         \/ PromoteMark(i) \/ PromoteCommit(i)
    \/ \E used \in SUBSET ToolId, status \in {"ok", "skipped", "failed"} :
         Cardinality(used) <= 1 /\ ReflectOnTask(used, status)
    \/ ReflectPrune \/ ReflectCommit \/ ReflectEnd
    \/ \E w \in Worker : \/ MergeScan(w) \/ ModelAnswers(w) \/ RegisterKnown(w)
                         \/ RegisterRoot(w) \/ RegisterCommit(w) \/ AddGeneratedSkill(w)
                         \/ MergeVerify(w) \/ PruneByMetabolicROI(w)

Spec == Init /\ [][Next]_growthVars

-----------------------------------------------------------------------------
(* Properties *)

\* Tools, skills and jobs have their shape; a skill is live or archived.
TypeOK ==
    /\ \A i \in ToolId : tool[i].timer \in {"armed", "due"} => tool[i].dyn
    /\ DOMAIN skills \subseteq ToolId
    /\ archived \subseteq ToolId /\ registered \subseteq ToolId
    /\ \A i \in DOMAIN skills : skills[i].parent \in ToolId \cup {NoParent}
    /\ refl.pc \in {"idle", "prune", "commit", "promote", "persist"}

\* A tool that was made permanent keeps its script: the clean-up of its temporary
\* registration never takes the file away, except when promotion came between the
\* clean-up's look at the promoted map and its removal.
PermanentHasScript ==
    \A i \in ToolId \ raced : tool[i].static => tool[i].file

\* A skill is verified only with a tool that survives: promotion wrote the tool
\* to the registry first. Merged skills are the exception, they are verified
\* with a temporary tool.
VerifiedIsPermanent ==
    \A i \in DOMAIN skills :
        skills[i].verified => tool[i].static \/ i \in merged

\* Lineage is never broken: the parent of every live skill is itself live and a
\* root, whatever was pruned meanwhile, unless the parent's record was written
\* anew by a registration that overtook its capture.
LineageKept ==
    \A i \in DOMAIN skills :
        LET p == skills[i].parent
        IN  p # NoParent /\ p \notin rewritten => p \in Roots

\* The registry offers no archived skill: what pruning archived has left it, once
\* the pass that pruned it has committed and unless that commit was refused.
ArchivedUnregistered ==
    \A i \in archived \cap registered :
        i \in unsynced \cup refl.pruned \cup DOMAIN skills

\* What registration intends (reflection.go, registerAsSkill): a capability has
\* one root, later skills are its variants.
OneRoot == Cardinality(Roots) <= 1

=============================================================================
