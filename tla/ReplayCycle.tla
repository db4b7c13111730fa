---------------------------- MODULE ReplayCycle ----------------------------
(***************************************************************************)
(* The offline replay scheduler (core/replay_scheduler.go): every cycle    *)
(* takes the tasks that failed lately, mutates the call that failed, has   *)
(* each variant judged, and feeds the survivors to the experience store    *)
(* (store/jit_candidate_ops.go) under a grayscale controller that promotes *)
(* or archives them.                                                       *)
(*                                                                         *)
(* A history is abstracted to what the cycle reads from it: the class of   *)
(* its root cause, whether a failed step is found, whether that step's     *)
(* tool has an equivalent and whether its arguments hold a number.         *)
(***************************************************************************)
EXTENDS Integers, Sequences, FiniteSets

CONSTANTS
    FailedTask,          \* tasks that ScanFailedTasks may return
    promotionThreshold,  \* successes in a row that promote a candidate
    MaxCycles,           \* bound: replay cycles
    MaxReboots           \* bound: restarts of the process

VARIABLES
    hist,      \* per task, what its trajectory says
    cycle,     \* replay cycles begun
    todo,      \* tasks of this cycle still to be replayed
    queue,     \* variants of the current task still to be judged
    trials,    \* GrayscaleController.trials, in memory only
    candidates,\* ExperienceStore.JITCandidates: candidate -> status
    samples,   \* ExperienceStore.TaskPatterns: mutation type -> samples
    judged,    \* ghost: verdicts on each candidate since the process started
    reboots

replayVars ==
    <<hist, cycle, todo, queue, trials, candidates, samples, judged, reboots>>

Variant == {"exit_criteria", "trim", "experience_ref", "swap", "perturb"}

MutationType == {"rewrite", "toolchain", "perturbation"}

History == [cause : MutationType \cup {"none", "unfixable"}, failed : BOOLEAN,
            alternative : BOOLEAN, number : BOOLEAN]

TypeOf(v) ==
    CASE v = "swap" -> "toolchain"
      [] v = "perturb" -> "perturbation"
      [] OTHER -> "rewrite"

\* The id is a hash of task, step, type and payload. The perturbed payload is
\* drawn at random, so that variant is a new candidate in every cycle.
candidateID(t, v) ==
    [task |-> t, variant |-> v, draw |-> IF v = "perturb" THEN cycle ELSE 0]

Candidate == [task : FailedTask, variant : Variant, draw : 0 .. MaxCycles]

Verdict == {"verified", "rejected", "no_verifier"}

NoTrial == [succ |-> 0, promoted |-> FALSE, archived |-> FALSE]

Init ==
    /\ hist \in [FailedTask -> History]
    /\ cycle = 0
    /\ todo = {}
    /\ queue = <<>>
    /\ trials = <<>>
    /\ candidates = <<>>
    /\ samples = [m \in MutationType |-> 0]
    /\ judged = <<>>
    /\ reboots = 0

-----------------------------------------------------------------------------
(* One cycle, begun by the six-hour ticker (Start): a ticker never runs two. *)

\* mapCauseToMutation: no recorded cause means every mutation is tried.
WantedTypes(h) ==
    CASE h.cause = "none" -> MutationType
      [] h.cause = "unfixable" -> {}
      [] OTHER -> {h.cause}

\* The variants Mutate makes of the failed call, in its order.
Mutate(h) ==
    <<"exit_criteria", "trim", "experience_ref">>
    \o (IF h.alternative THEN <<"swap">> ELSE <<>>)
    \o (IF h.number THEN <<"perturb">> ELSE <<>>)

\* Whichever tasks failed or were aborted in the last seven days.
ScanFailedTasks == SUBSET FailedTask

\* The last event that names a failure tells the step.
findFailedStep(h) == h.failed

\* Start: the ticker begins a cycle only when the one before it is over.
Idle == todo = {} /\ queue = <<>>

RunReplayCycle ==
    /\ Idle
    /\ cycle < MaxCycles
    /\ cycle' = cycle + 1
    /\ todo' \in ScanFailedTasks
    /\ UNCHANGED <<hist, queue, trials, candidates, samples, judged, reboots>>

\* LoadHistory, the cause, the failed step, ForkTask and the filtered variants.
\* An unreadable trajectory log skips the task.
ReplayTask(t) ==
    /\ queue = <<>>
    /\ t \in todo
    /\ todo' = todo \ {t}
    /\ \E readable \in BOOLEAN :
         LET h == hist[t]
             wanted == {v \in Variant : TypeOf(v) \in WantedTypes(h)}
         IN  queue' = IF readable /\ findFailedStep(h)
                      THEN LET vs == SelectSeq(Mutate(h), LAMBDA v : v \in wanted)
                           IN  [i \in 1 .. Len(vs) |-> <<t, vs[i]>>]
                      ELSE <<>>
    /\ UNCHANGED <<hist, cycle, trials, candidates, samples, judged, reboots>>

-----------------------------------------------------------------------------
(* The grayscale controller. *)

TrialOf(ts, c) == IF c \in DOMAIN ts THEN ts[c] ELSE NoTrial

Put(f, c, x) == [d \in DOMAIN f \cup {c} |-> IF d = c THEN x ELSE f[d]]

RecordOutcome(ts, c, success) ==
    LET st == TrialOf(ts, c)
    IN  Put(ts, c, IF success THEN [st EXCEPT !.succ = @ + 1]
                              ELSE [st EXCEPT !.succ = 0, !.archived = TRUE])

\* Variant of ShouldPromote: one success short of the threshold suffices.
ShouldPromoteEarly(ts, c) ==
    LET st == TrialOf(ts, c)
    IN  ~st.promoted /\ ~st.archived /\ st.succ + 1 >= promotionThreshold

ShouldPromote(ts, c) ==
    LET st == TrialOf(ts, c)
    IN  ~st.promoted /\ ~st.archived /\ st.succ >= promotionThreshold

\* Variant of IsArchived: the archive is not consulted.
ArchiveIgnored(ts, c) == FALSE

IsArchived(ts, c) == TrialOf(ts, c).archived

\* What writeBack leaves of the trials: the outcome is recorded once more, and
\* a candidate with a long enough streak is promoted.
TrialsAfterWriteBack(ts, c, success) ==
    LET recorded == RecordOutcome(ts, c, success)
    IN  IF ShouldPromote(recorded, c)
        THEN [recorded EXCEPT ![c].promoted = TRUE]
        ELSE recorded

-----------------------------------------------------------------------------
(* processMutation of the first variant of the queue, and its write-back. *)

AddJITCandidate(cs, c, success) ==
    Put(cs, c, IF success THEN "audited" ELSE "pending")

UpsertTaskPatternFromReplay(s, v) == [s EXCEPT ![TypeOf(v)] = @ + 1]

Written(verdict) == verdict \in {"verified", "no_verifier"}

\* verifyMutation: without a verifier and without a provider of another family
\* nobody judges; an auditor that could not be spawned counts as a rejection.
Judge(verdict) ==
    LET c == candidateID(queue[1][1], queue[1][2])
        success == verdict = "verified"
        ts == IF verdict = "no_verifier" THEN trials
              ELSE RecordOutcome(trials, c, success)
    IN  /\ ~IsArchived(trials, c)
        /\ trials' = IF Written(verdict) THEN TrialsAfterWriteBack(ts, c, success)
                     ELSE ts
        /\ candidates' = IF Written(verdict)
                         THEN AddJITCandidate(candidates, c, success)
                         ELSE candidates
        /\ samples' = IF Written(verdict)
                      THEN UpsertTaskPatternFromReplay(samples, queue[1][2])
                      ELSE samples
        /\ judged' = Put(judged, c, Append(IF c \in DOMAIN judged THEN judged[c] ELSE <<>>,
                                          verdict))

\* An archived candidate is recorded as such and not judged again.
SkipArchived ==
    /\ IsArchived(trials, candidateID(queue[1][1], queue[1][2]))
    /\ UNCHANGED <<trials, candidates, samples, judged>>

processMutation ==
    /\ queue # <<>>
    /\ \/ \E verdict \in Verdict : Judge(verdict)
       \/ SkipArchived
    /\ queue' = Tail(queue)
    /\ UNCHANGED <<hist, cycle, todo, reboots>>

\* The process restarts: the trials were never stored, the candidates and the
\* patterns are read back from the experience store.
Reboot ==
    /\ reboots < MaxReboots
    /\ reboots' = reboots + 1
    /\ todo' = {} /\ queue' = <<>>
    /\ trials' = <<>>
    /\ judged' = <<>>
    /\ UNCHANGED <<hist, cycle, candidates, samples>>

Next ==
    \/ RunReplayCycle
    \/ \E t \in FailedTask : ReplayTask(t)
    \/ processMutation
    \/ Reboot

Spec == Init /\ [][Next]_replayVars

-----------------------------------------------------------------------------
(* Properties *)

\* The scheduler's state has its shape, and only a judged candidate has a trial.
TypeOK ==
    /\ hist \in [FailedTask -> History]
    /\ cycle \in 0 .. MaxCycles /\ reboots \in 0 .. MaxReboots
    /\ todo \subseteq FailedTask
    /\ \A i \in DOMAIN queue : queue[i] \in FailedTask \X Variant
    /\ DOMAIN trials \subseteq Candidate /\ DOMAIN judged = DOMAIN trials
    /\ \A c \in DOMAIN candidates : candidates[c] \in {"pending", "audited"}

Verdicts(c, vs) ==
    Cardinality({i \in DOMAIN judged[c] : judged[c][i] \in vs})

\* A candidate is promoted only by verification: the judgements that led to its
\* promotion were all favourable, never a rejection (an auditor that could not
\* run counts as one) or a skip, and enough of them. Two records are made of each verification.
PromotionEarned ==
    \A c \in DOMAIN trials :
        trials[c].promoted =>
            \E n \in DOMAIN judged[c] :
                /\ 2 * n >= promotionThreshold
                /\ \A i \in 1 .. n : judged[c][i] = "verified"

\* The documented rule for variants nobody could verify (replay_scheduler.go,
\* processMutation): such a skip is neutral, so a candidate is archived only
\* after a verification really ran and did not pass.
SkipIsNeutral ==
    \A c \in DOMAIN trials :
        trials[c].archived => Verdicts(c, {"rejected"}) > 0

\* An archived candidate has had its last judgement: nothing it does in a later
\* cycle is recorded or written back while the process lives.
ArchivedIsFinal ==
    \A c \in DOMAIN trials :
        trials[c].archived =>
            \A i \in DOMAIN judged[c] : judged[c][i] # "verified" => i = Len(judged[c])

=============================================================================
