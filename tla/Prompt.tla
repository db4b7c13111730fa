------------------------------- MODULE Prompt -------------------------------
(***************************************************************************)
(* The system prompt of a spawn: which blocks core/prompt_assembler.go     *)
(* puts together and in which order, how core/prompt_governance.go trims   *)
(* them to the model's budget, and what the one assembler, which all       *)
(* spawns share, keeps between its calls (the tool trace it warns from,    *)
(* the budget of the warm context, the profile of the last prompt).        *)
(*                                                                         *)
(* A block is its category, its tier and its size in tokens; the words are *)
(* left out.  Two spawns, and a preview asked for by the user interface,   *)
(* interleave at the points where the shared fields are read and written.  *)
(***************************************************************************)
EXTENDS Integers, Sequences, FiniteSets, FiniteSetsExt

CONSTANTS Spawn,          \* the spawns
          Requests,       \* what a spawn may ask for: sizes of its blocks
          Budget,         \* tokens the model's tier allows the system prompt
          Marker,         \* size of the note a truncated block ends with
          Short,          \* size of a compressed instruction
          WarmConfig,     \* configured budget of the warm context
          WarmFloor,      \* the least it is tightened to
          MaxDurations    \* durations recorded (bound)

VARIABLES pc,        \* where each spawn is
          prompt,    \* its blocks, as built and after trimming
          shapes,    \* do the tool results of its trace differ in shape
          trace,     \* recentInteractions: whose trace the assembler holds
          warnedOf,  \* whose trace the warning in its prompt is about
          profile,   \* lastProfile: whose system ring and whose outer ring
          warm,      \* dynamicWarmBudget
          durations,
          crossed    \* spawns between whose set and use another call came

vars == <<pc, prompt, shapes, trace, warnedOf, profile, warm, durations,
          crossed>>

None == "none"

----------------------------------------------------------------------------
(* The blocks.                                                             *)

\* The categories in the order Build appends their blocks.
Order == <<"role_instruction", "user_profile", "grounding", "past_precedents",
           "failure_profile", "cookbook", "skills", "few_shot", "tree_path",
           "constraints", "anti_pattern", "similar_task", "active_context",
           "archive_summary", "shape_mismatch">>

\* The tier of a category; the prompt of a single skill is protected, a list
\* of skills is not.
Tier(cat, r) ==
    CASE cat \in {"role_instruction", "user_profile", "grounding"} -> "tier1"
      [] cat \in {"failure_profile", "cookbook", "archive_summary", "shape_mismatch"} -> "tier2"
      [] cat = "skills" -> IF r.manySkills THEN "tier2" ELSE "protected"
      [] cat \in {"past_precedents", "few_shot", "tree_path"} -> "tier3"
      [] OTHER -> "protected"

\* CompressRoleInstruction: a long instruction keeps its first and its last
\* paragraphs.  Only the role's instruction passes through it while building.
CompressRoleInstruction(size, long) == IF long THEN Short ELSE size

Block(cat, r) ==
    [cat |-> cat, tier |-> Tier(cat, r), long |-> r.long /\ cat = "user_profile",
     size |-> IF cat = "role_instruction" THEN CompressRoleInstruction(r.size[cat], r.long)
              ELSE r.size[cat]]

\* The blocks of Build, in order; what is empty is not appended.
Build(r, warns) ==
    LET cats == SelectSeq(Order, LAMBDA c : IF c = "shape_mismatch" THEN warns
                                            ELSE r.size[c] > 0)
    IN  [i \in DOMAIN cats |->
            IF cats[i] = "shape_mismatch"
            THEN [cat |-> "shape_mismatch", tier |-> "tier2", long |-> FALSE, size |-> 1]
            ELSE Block(cats[i], r)]

----------------------------------------------------------------------------
(* The budget.                                                             *)

Tokens(bs, I) == MapThenSumSet(LAMBDA i : bs[i].size, I)
EstimateBlocksTokens(bs) == Tokens(bs, DOMAIN bs)
Of(bs, tier) == {i \in DOMAIN bs : bs[i].tier = tier}
Before(I, i) == {j \in I : j < i}

\* A bug: blocks are dropped from the front whatever their tier.
dropAny(bs, tier) ==
    LET total == EstimateBlocksTokens(bs)
        gone == {i \in DOMAIN bs : total - Tokens(bs, Before(DOMAIN bs, i)) > Budget}
    IN  [k \in 1..(Len(bs) - Cardinality(gone)) |-> bs[k + Cardinality(gone)]]

\* dropTier: blocks of the tier are dropped in order until the rest fits.
dropTier(bs, tier) ==
    LET total == EstimateBlocksTokens(bs)
        gone == {i \in Of(bs, tier) : total - Tokens(bs, Before(Of(bs, tier), i)) > Budget}
        kept == SelectSeq([i \in DOMAIN bs |-> i], LAMBDA i : i \notin gone)
    IN  [k \in DOMAIN kept |-> bs[kept[k]]]

\* compressTier1: instructions are compressed in order until the rest fits.
Saving(b) == IF b.tier = "tier1" /\ b.long /\ b.size > Short THEN b.size - Short ELSE 0
compressTier1(bs) ==
    LET total == EstimateBlocksTokens(bs)
        saved(i) == MapThenSumSet(LAMBDA j : Saving(bs[j]), Before(DOMAIN bs, i))
    IN  [i \in DOMAIN bs |-> IF total - saved(i) > Budget
                             THEN [bs[i] EXCEPT !.size = @ - Saving(bs[i])] ELSE bs[i]]

\* hardTruncate: what is not protected is kept in order while it fits in what
\* the protected blocks leave; the first block that does not is cut, and of
\* every block after it nothing but the note is left.
hardTruncate(bs) ==
    LET free == DOMAIN bs \ Of(bs, "protected")
        room == Budget - Tokens(bs, Of(bs, "protected"))
        left(i) == room - Tokens(bs, Before(free, i))
        fits(i) == bs[i].size <= left(i)
    IN  IF room < 0 THEN bs
        ELSE [i \in DOMAIN bs |->
                 IF i \notin free \/ \A j \in Before(free, i + 1) : fits(j) THEN bs[i]
                 ELSE [bs[i] EXCEPT
                          !.size = Marker + (IF \A j \in Before(free, i) : fits(j)
                                             THEN left(i) ELSE 0)]]

Fits(bs) == EstimateBlocksTokens(bs) <= Budget

\* EnforceBudget
EnforceBudget(bs) ==
    LET a == IF Fits(bs) THEN bs ELSE dropTier(bs, "tier3")
        b == IF Fits(a) THEN a ELSE dropTier(a, "tier2")
        c == IF Fits(b) THEN b ELSE compressTier1(b)
    IN  IF Fits(c) THEN c ELSE hardTruncate(c)

----------------------------------------------------------------------------
(* The calls.  The user interface's preview is a caller of its own.        *)

Caller == Spawn \cup {"preview"}
NoPrompt == [built |-> <<>>, sent |-> <<>>]

\* A bug: an empty trace does not replace the last one.
TraceKept(s) == IF s = "preview" THEN trace ELSE s

TraceOf(s) == IF s = "preview" THEN None ELSE s

\* buildSystemPrompt sets the trace in the shared assembler; a preview has
\* none.
SetRecentInteractions(s) ==
    /\ pc[s] = "start"
    /\ pc' = [pc EXCEPT ![s] = "build"]
    /\ trace' = TraceOf(s)
    /\ crossed' = crossed \cup {t \in Caller : pc[t] = "build"}
    /\ UNCHANGED <<prompt, shapes, warnedOf, profile, warm, durations>>

\* shapeMismatchBlock and CheckDataShapeMismatch
shapeMismatchBlock == IF trace # None /\ shapes[trace] THEN trace ELSE None

\* Build itself, up to the profile it leaves.
BuildPrompt(s) ==
    /\ pc[s] = "build"
    /\ pc' = [pc EXCEPT ![s] = "call"]
    /\ warnedOf' = [warnedOf EXCEPT ![s] = shapeMismatchBlock]
    /\ \E r \in Requests :
          LET built == Build(r, shapeMismatchBlock # None)
          IN  prompt' = [prompt EXCEPT ![s] = [built |-> built, sent |-> EnforceBudget(built)]]
    /\ profile' = [system |-> s, ring |-> None]
    /\ crossed' = crossed \cup {t \in Caller : pc[t] = "call"}
    /\ UNCHANGED <<shapes, trace, warm, durations>>

\* The provider has answered: UpdateOuterRing completes the last profile.
UpdateOuterRing(s) ==
    /\ pc[s] = "call"
    /\ pc' = [pc EXCEPT ![s] = IF s = "preview" THEN "done" ELSE "record"]
    /\ profile' = IF s = "preview" THEN profile ELSE [profile EXCEPT !.ring = s]
    /\ prompt' = [prompt EXCEPT ![s] = NoPrompt]
    /\ UNCHANGED <<shapes, trace, warnedOf, warm, durations, crossed>>

\* A bug: relaxing is not capped.
RelaxUncapped(b) == (b * 105) \div 100

Relax(b) == LET n == (b * 105) \div 100 IN IF n > WarmConfig THEN WarmConfig ELSE n
Tighten(b) == LET n == (b * 9) \div 10 IN IF n < WarmFloor THEN WarmFloor ELSE n

\* getEffectiveWarmBudget
getEffectiveWarmBudget == IF warm > 0 THEN warm ELSE WarmConfig

\* RecordSubagentDuration: longer than the baseline, shorter than half of it,
\* or neither.
RecordSubagentDuration(s) ==
    /\ pc[s] = "record"
    /\ durations < MaxDurations
    /\ durations' = durations + 1
    /\ pc' = [pc EXCEPT ![s] = "start"]
    /\ LET b == IF warm = 0 THEN WarmConfig ELSE warm
       IN  warm' \in {Tighten(b), Relax(b), b}
    /\ shapes' \in {[shapes EXCEPT ![s] = v] : v \in BOOLEAN}
    /\ UNCHANGED <<prompt, trace, warnedOf, profile, crossed>>

Init ==
    /\ pc = [s \in Caller |-> "start"]
    /\ shapes \in [Spawn -> BOOLEAN]
    /\ prompt = [s \in Caller |-> NoPrompt]
    /\ trace = None /\ warnedOf = [s \in Caller |-> None]
    /\ profile = [system |-> None, ring |-> None]
    /\ warm = 0
    /\ durations = 0 /\ crossed = {}

Next == \E s \in Caller : \/ SetRecentInteractions(s) \/ BuildPrompt(s)
                          \/ UpdateOuterRing(s) \/ RecordSubagentDuration(s)

Spec == Init /\ [][Next]_vars

----------------------------------------------------------------------------

Protected(bs) == SelectSeq(bs, LAMBDA b : b.tier = "protected")
Has(bs, tier) == \E i \in DOMAIN bs : bs[i].tier = tier
Built == {s \in Caller : prompt[s].built # <<>>}

TypeOK ==
    /\ pc \in [Caller -> {"start", "build", "call", "record", "done"}]
    /\ trace \in Spawn \cup {None} /\ durations \in 0..MaxDurations
    /\ warm \in {0} \cup WarmFloor..WarmConfig

\* Trimming keeps what it must: the hard rules, the output contract, a single
\* skill's prompt and the warnings stay word for word and in their order; a
\* cookbook or a summary goes only when no precedent, example or tree path is
\* left, and an instruction is touched only when neither is; and the prompt
\* then fits, up to the notes of truncated blocks, unless the protected
\* blocks alone do not.
TrimsInOrder ==
    \A s \in Built :
        LET b == prompt[s].built
            t == prompt[s].sent
        IN  /\ Protected(t) = Protected(b)
            /\ Has(t, "tier3") => \A x \in {"tier1", "tier2"} :
                  SelectSeq(t, LAMBDA k : k.tier = x) = SelectSeq(b, LAMBDA k : k.tier = x)
            /\ Has(t, "tier2") =>
                  SelectSeq(t, LAMBDA k : k.tier = "tier1")
                     = SelectSeq(b, LAMBDA k : k.tier = "tier1")
            /\ \/ EstimateBlocksTokens(t) <= Budget + Marker * Len(t)
               \/ Tokens(b, Of(b, "protected")) > Budget

\* A prompt warns of the results of its own spawn, and the profile shown to
\* the user has both rings from one prompt, as long as no other call came
\* between a spawn's setting of the shared fields and its use of them.
OwnUnlessCrossed ==
    /\ \A s \in Caller : warnedOf[s] \in {None, s} \/ s \in crossed
    /\ profile.ring \in {None, profile.system} \/ crossed # {}

\* What the comment of recentInteractions says: the interactions are those of
\* the current step.
WarnsOfOwn == \A s \in Caller : warnedOf[s] \in {None, s}

\* What the comment of EnforceBudget says of the role's instructions: they are
\* never fully dropped.
InstructionKept ==
    \A s \in Built : \A i \in DOMAIN prompt[s].sent :
        LET b == prompt[s].sent[i]
        IN  b.tier = "tier1" =>
               b.size > Marker \/ \E j \in DOMAIN prompt[s].built : prompt[s].built[j] = b

\* What the comment of RecordSubagentDuration says: the warm budget is at most
\* the configured one.
WarmWithinConfig == warm <= WarmConfig

============================================================================
