------------------------------ MODULE Squeeze ------------------------------
(***************************************************************************)
(* One agent's conversation against the model's context window: the hand-  *)
(* over of upstream context (applyRefBasedHandoff), the audit of every     *)
(* request (ContextManager.Audit), the compression it decides on (Squeeze),*)
(* the compression after the provider refuses a request as too long        *)
(* (compressUserBlocksToBudget) and the truncation of tool results         *)
(* (OutputProcessor.Wrap).                                                 *)
(*                                                                         *)
(* A text is a sequence of lines, a line is a member of Line, and two      *)
(* lines are the same text when they are the same member.  What the        *)
(* regular expressions of the code tell apart are subsets of Line.  A line *)
(* counts one token.  The thresholds of the code (3 noise lines, 5         *)
(* paragraphs, 15 lines of code, ...) are constants, so that short texts   *)
(* reach every branch.                                                     *)
(***************************************************************************)
EXTENDS Integers, Sequences, FiniteSets, FiniteSetsExt, SequencesExt

CONSTANTS
    Line,           \* the lines a text is made of
    Errors,         \* match reErrorKeyword or reStackTrace
    Progress,       \* match rtkReProgress
    Noise,          \* match reLogNoise
    Sparse,         \* mostly white space (paragraphDensity <= 0.5)
    Signature,      \* match reCodeSignature
    Closing,        \* close the body a signature opens
    Anchors,        \* contain a marker of NewContextManager
    NoiseKept,      \* noise lines kept in a row
    ShortItems,     \* array items and paragraphs that are not pruned
    HeadCount, TailCount,
    KeepLines,      \* lines kept of a middle paragraph
    CodeMin, BodyMax,
    KeepFirst, KeepLast, TruncatePasses,
    MaxFullObservations, SummaryRoom,
    MaxBody, YamlHeader, JsonIndent,
    SystemText,     \* the lines of the system block
    Prompts, Answers, Results,   \* first texts, assistant texts, raw tool results
    Facts,          \* top-level keys of the upstream context
    KeyFacts,       \* the keys that match a fidelity anchor
    HandoffMin, SummaryBudget,
    Settings,       \* provider configurations of one provider name
    MaxTurns

VARIABLES
    limits,     \* the provider configuration of the candidate
    blocks,     \* userBlocks
    at,         \* where the turn is
    level,      \* the audit's decision
    audited,    \* the configuration the audit took its limits from
    before,     \* the blocks the last compression started from
    upstream,   \* the upstream context: in the prompt, told, stored
    result,     \* the last tool result and what Wrap made of it
    cands,      \* candidates tried in this turn
    turns

vars == <<limits, blocks, at, level, audited, before, upstream, result, cands, turns>>

Blank == "blank"
Note  == "note"       \* the marker a compression leaves behind

\* A line holds one text, or the whole of a JSON array; a block is plain text,
\* a JSON array with its items, a tool observation or the summary of one.
Plain(ls) == <<>> \o [i \in 1..Len(ls) |-> {ls[i]}]
Text(ls)  == [kind |-> "text", parts |-> ls]
OneLine(b) == b.kind \in {"json", "sum"}
Lines(b)  == IF OneLine(b) THEN <<UNION ToSet(b.parts)>> ELSE b.parts
Meets(l, S) == l \cap S # {}

EstimateTokens(ls) == Cardinality({i \in DOMAIN ls : ls[i] # {Blank}})
estimateBlocksTokens(bs) == MapThenSumSet(LAMBDA i : EstimateTokens(bs[i].parts), DOMAIN bs)

----------------------------------------------------------------------------
(* The compressions of one text.                                           *)

\* The elements of s at the positions P holds of, in order.
Pick(s, P(_)) ==
    LET kept == SelectSeq([i \in 1..Len(s) |-> i], P)
    IN  <<>> \o [n \in 1..Len(kept) |-> s[kept[n]]]
\* Every position of s through F.
Map(s, F(_)) == <<>> \o [i \in 1..Len(s) |-> F(i)]

\* Noise up to line i, in a row: blank lines, errors and plain lines reset
\* the count, dropped progress lines do not.
Streak(ls, i) ==
    LET resets == {j \in 1..i : ~ Meets(ls[j], Progress)
                                /\ (Meets(ls[j], Errors) \/ ~ Meets(ls[j], Noise))}
        last   == Max(resets \cup {0})
    IN  Cardinality({j \in last + 1..i : ~ Meets(ls[j], Progress)})

\* A bug: noise is looked for before errors.
KeptNoiseFirst(ls, i) ==
    ~ Meets(ls[i], Progress) /\ ~ Meets(ls[i], Noise)

KeptLine(ls, i) ==
    /\ ~ Meets(ls[i], Progress)
    /\ Meets(ls[i], Errors) \/ Streak(ls, i) <= NoiseKept

TrimSpace(ls) ==
    LET full == {i \in DOMAIN ls : ls[i] # {Blank}}
    IN  IF full = {} THEN <<>> ELSE SubSeq(ls, Min(full), Max(full))

\* A JSON array or a summary is one line: it stays or goes as a whole.
applyLogCompress(b) ==
    LET ls   == Lines(b)
        kept == Pick(ls, LAMBDA i : KeptLine(ls, i))
    IN  [b EXCEPT !.parts = IF OneLine(b) THEN IF kept = <<>> THEN <<>> ELSE @
                            ELSE TrimSpace(kept)]

\* An array of more than ShortItems items keeps its head, its tail and its
\* errors; every run that is left out becomes one note.
compressJSONNode(items) ==
    LET n        == Len(items)
        keep(i)  == i <= HeadCount \/ i > n - TailCount \/ Meets(items[i], Errors)
        first(i) == ~ keep(i) /\ keep(i - 1)
        noted    == Map(items, LAMBDA i : IF keep(i) THEN items[i] ELSE {Note})
    IN  IF n <= ShortItems THEN items ELSE Pick(noted, LAMBDA i : keep(i) \/ first(i))

applyJSONCompress(b) ==
    [b EXCEPT !.parts = IF b.kind = "json" THEN compressJSONNode(@) ELSE @]

\* A body runs from its signature to the first closing line, the next
\* signature or the end of the text; a long one becomes a note.
applyCodeCompress(b) ==
    LET ls        == b.parts
        n         == Len(ls)
        open(i)   == {j \in 1..i : Meets(ls[j], Signature)}
        start(i)  == Max(open(i))
        inBody(i) == /\ open(i) # {}
                     /\ ~ Meets(ls[i], Signature)
                     /\ \A j \in start(i) + 1..i : ~ Meets(ls[j], Closing)
        body(i)   == {j \in 1..n : inBody(j) /\ start(j) = start(i)}
        long(i)   == inBody(i) /\ Cardinality(body(i)) > BodyMax
        noted     == Map(ls, LAMBDA i : IF long(i) THEN {Note} ELSE ls[i])
    IN  IF OneLine(b) \/ n < CodeMin \/ open(n) = {} THEN b
        ELSE [b EXCEPT !.parts = Pick(noted, LAMBDA i : long(i) => i = Min(body(i)))]

\* At the blank lines, or every line when there is none.
splitParagraphs(ls) ==
    LET n       == Len(ls)
        blanks  == {i \in 1..n : ls[i] = {Blank}}
        starts(i) == blanks = {} \/ (i \notin blanks /\ (i = 1 \/ i - 1 \in blanks))
        stop(i) == IF blanks = {} THEN i ELSE Max({j \in i..n : i..j \cap blanks = {}})
    IN  Pick(Map(ls, LAMBDA i : IF starts(i) THEN SubSeq(ls, i, stop(i)) ELSE <<>>), starts)

compressParagraph(p) ==
    IF Len(p) <= KeepLines THEN p ELSE Append(SubSeq(p, 1, KeepLines), {Note})

\* Repeated paragraphs go; then head and tail stay, dense paragraphs of the
\* middle are cut and sparse ones go.
ApplySemanticPruning(b) ==
    LET ps       == splitParagraphs(Lines(b))
        uniq     == Pick(ps, LAMBDA i : \A j \in 1..i - 1 : ps[j] # ps[i])
        n        == Len(uniq)
        mid(i)   == i > HeadCount /\ i <= n - TailCount
        dense(i) == 2 * Cardinality({k \in DOMAIN uniq[i] : Meets(uniq[i][k], Sparse)}) < Len(uniq[i])
        cut      == Pick(Map(uniq, LAMBDA i : IF mid(i) THEN compressParagraph(uniq[i]) ELSE uniq[i]),
                         LAMBDA i : mid(i) => dense(i))
        sep      == IF {Blank} \in ToSet(Lines(b)) THEN <<{Blank}>> ELSE <<>>
        kept     == IF n <= ShortItems THEN uniq ELSE cut
        joined   == FoldLeft(LAMBDA s, p : s \o sep \o p, <<>>, kept)
    IN  IF Len(ps) <= ShortItems THEN b
        ELSE [b EXCEPT !.parts = TrimSpace(joined)]

squeezeUserBlock(b, l) ==
    LET light == applyCodeCompress(applyJSONCompress(applyLogCompress(b)))
    IN  IF l = "light" THEN light ELSE ApplySemanticPruning(light)

\* Long lines of the system text that were seen before go.
applySessionDedup(ls) ==
    Pick(ls, LAMBDA i : \A j \in 1..i - 1 : ls[j] # ls[i])

\* The flat text: all the blocks, one after the other.  It is a JSON document
\* only when it is a single JSON block.
Flat(bs) ==
    IF Len(bs) = 1 THEN bs[1] ELSE Text(FoldLeft(LAMBDA s, b : s \o Lines(b), <<>>, bs))

AnchorsOf(ls) == (UNION ToSet(ls)) \cap Anchors

\* VerifyAnchors: the flat text is what is compared, after the same
\* compression of the whole.
VerifyAnchors(bs, l) ==
    AnchorsOf(Flat(bs).parts) \subseteq AnchorsOf(squeezeUserBlock(Flat(bs), l).parts)

----------------------------------------------------------------------------
(* The audit.                                                              *)

applyCompressionHint(eff, max, hint) ==
    CASE hint = "terse"   -> eff \div 2
      [] hint = "verbose" -> Min({(eff * 3) \div 2, max})
      [] OTHER            -> eff

\* What the spawner fills in of the request's tool schemas: nothing.
countMCPServers(s) == 0

\* A bug: the reply's share is not looked at.
NoOutputPressure(s, cap, total) == FALSE

OutputPressure(s, cap, total) ==
    s.out > 0 /\ total <= s.max /\ cap - s.out > 0 /\ total > cap - s.out

Audit(s, volatile) ==
    LET uncompressible == countMCPServers(s)
        total   == volatile + uncompressible
        reserve == IF s.max - s.reserve <= 0 THEN 0 ELSE s.reserve
        cap     == s.max - reserve
        limit   == IF s.limit = 0 THEN cap ELSE s.limit
        eff     == applyCompressionHint(IF s.eff <= 0 THEN cap ELSE s.eff, cap, s.hint)
        room    == Max({eff - uncompressible - reserve, 0})
    IN  CASE s.max <= 0                        -> "none"
          [] 4 * uncompressible > 3 * s.max    -> "critical"
          [] OutputPressure(s, cap, total)     -> "aggressive"
          [] total > limit \/ total > cap      -> "critical"
          [] volatile > room                   -> "aggressive"
          [] volatile > room \div 2            -> "light"
          [] OTHER                             -> "none"

SystemTokens(l) == IF l = "none" THEN Len(SystemText) ELSE Len(applySessionDedup(SystemText))

\* What the provider counts: the reply and the tool schemas are in the window.
Sent == SystemTokens(level) + estimateBlocksTokens(blocks)
Refused == limits.max > 0 /\ Sent + limits.tools + limits.out > limits.max

----------------------------------------------------------------------------
(* After the provider refused the request.                                 *)

contextInputBudget(s) ==
    LET room == s.max - Max({s.reserve, s.out})
    IN  IF s.max <= 0 \/ room <= 0 THEN 0 ELSE (room * 85) \div 100

truncateBlockText(ls, keep) ==
    LET head == (keep * 6) \div 10
        tail == keep - head
    IN  IF Len(ls) <= keep THEN ls
        ELSE SubSeq(ls, 1, head) \o <<{Note}>> \o SubSeq(ls, Len(ls) - tail + 1, Len(ls))

Marker == Text(<<{Note}>>)

dropMiddle(bs) ==
    IF Len(bs) <= KeepFirst + KeepLast THEN bs
    ELSE SubSeq(bs, 1, KeepFirst) \o <<Marker>> \o SubSeq(bs, Len(bs) - KeepLast + 1, Len(bs))

\* The largest block gives way to what the others leave of the budget.
cutLargest(bs, budget) ==
    LET size(i)   == EstimateTokens(bs[i].parts)
        texts     == {i \in DOMAIN bs : bs[i] # Marker /\ size(i) > 0}
        big       == Min({i \in texts : \A j \in texts : size(j) <= size(i)})
        allowed   == Max({budget - (estimateBlocksTokens(bs) - size(big)), 0})
        keep      == Max({k \in 0..Len(bs[big].parts) :
                            EstimateTokens(truncateBlockText(bs[big].parts, k)) <= allowed} \cup {0})
        cut       == truncateBlockText(bs[big].parts, keep)
    IN  IF estimateBlocksTokens(bs) <= budget \/ texts = {} THEN bs
        ELSE IF EstimateTokens(cut) >= size(big) THEN bs
        ELSE [bs EXCEPT ![big].parts = cut]

Shrunk(bs, changed) == [blocks |-> bs, changed |-> changed]

\* A bug: blocks are dropped by position, and a large one stays.
compressByCount(bs, budget) == Shrunk(dropMiddle(bs), TRUE)

\* Whether the history was too long to be kept whole counts as a change, the
\* marker of an earlier compression included.
compressUserBlocksToBudget(bs, budget) ==
    LET short  == dropMiddle(bs)
        after[p \in 0..TruncatePasses] == IF p = 0 THEN short ELSE cutLargest(after[p - 1], budget)
        cut    == IF budget <= 0 THEN short ELSE after[TruncatePasses]
    IN  IF bs = <<>> \/ (budget > 0 /\ estimateBlocksTokens(bs) <= budget) THEN Shrunk(bs, FALSE)
        ELSE Shrunk(cut, Len(bs) > KeepFirst + KeepLast \/ cut # bs)

----------------------------------------------------------------------------
(* Tool results and upstream context.                                      *)

\* A document of short values: rendered as YAML, whole or a prefix of its
\* items with a header that says so.
truncateJSONFields(ls) ==
    LET fits == {k \in 0..Len(ls) : k + YamlHeader + 1 <= MaxBody}
    IN  IF Len(ls) + YamlHeader <= MaxBody THEN ls
        ELSE IF fits = {} THEN <<{Note}>>
        ELSE <<{Note}>> \o SubSeq(ls, 1, Max(fits))

\* Whole records, as many as fit beside the header; none is no answer.
truncateJSONLines(ls) ==
    LET fits == {k \in 1..Len(ls) : k + YamlHeader + 1 <= MaxBody}
    IN  IF Len(ls) < 2 \/ fits = {} THEN <<>> ELSE <<{Note}>> \o SubSeq(ls, 1, Max(fits))

HeadAndTail(ls) ==
    LET half == MaxBody \div 2
    IN  SubSeq(ls, 1, half) \o <<{Note}>> \o SubSeq(ls, Len(ls) - half + 1, Len(ls))

Body(parts, whole) == [parts |-> parts, whole |-> whole]

\* A bug: every long result is cut in the middle.
truncateAny(r) ==
    IF Len(r.lines) <= MaxBody THEN Body(Plain(r.lines), TRUE)
    ELSE Body(HeadAndTail(Plain(r.lines)), r.kind = "text")

truncate(r) ==
    LET ls  == Plain(r.lines)
        len == Len(ls) + (IF r.kind = "json" THEN JsonIndent ELSE 0)
    IN  CASE len <= MaxBody -> Body(ls, TRUE)
          [] len > MaxBody /\ r.kind = "json" -> Body(truncateJSONFields(ls), TRUE)
          [] len > MaxBody /\ r.kind = "jsonl" /\ truncateJSONLines(ls) # <<>> ->
                Body(truncateJSONLines(ls), TRUE)
          [] OTHER -> Body(HeadAndTail(ls), r.kind = "text")

\* The first line of an observation, or what fits of an earlier summary.
extractFirstLine(b) ==
    IF b.kind = "sum" THEN SubSeq(b.parts, 1, Min({Len(b.parts), SummaryRoom}))
    ELSE SubSeq(b.parts, 1, Min({Len(b.parts), 1}))

\* All observations but the last few are summarised, summaries again.
CompactOldObservations(bs) ==
    LET obs == {i \in DOMAIN bs : bs[i].kind \in {"obs", "sum"}}
        old == {i \in obs : Cardinality({j \in obs : j >= i}) > MaxFullObservations}
    IN  Map(bs, LAMBDA i :
            IF i \in old THEN [kind |-> "sum", parts |-> <<{Note}>> \o extractFirstLine(bs[i])] ELSE bs[i])

appendTurnObservation(bs, answer, body) ==
    CompactOldObservations(bs \o <<answer, [kind |-> "obs", parts |-> body.parts]>>)

\* The facts in map order, as many as the budget takes.
Summarize(F) == {T \in SUBSET F : Cardinality(T) = Min({Cardinality(F), SummaryBudget})}

\* A bug: a context that could not be stored is only pointed at.
HandoffLost(F, stores, summarizes) ==
    IF Cardinality(F) > HandoffMin
    THEN {[told |-> {}, stored |-> IF stores THEN F ELSE {}]}
    ELSE {[told |-> F, stored |-> {}]}

applyRefBasedHandoff(F, stores, summarizes) ==
    IF Cardinality(F) > HandoffMin /\ stores
    THEN {[told |-> T, stored |-> F] : T \in IF summarizes THEN Summarize(F) ELSE {{}}}
    ELSE {[told |-> F, stored |-> {}]}

----------------------------------------------------------------------------
Init ==
    /\ limits \in Settings
    /\ blocks = <<>> /\ at = "start" /\ level = "none" /\ audited = limits
    /\ before = <<>> /\ upstream = [all |-> {}, told |-> {}, stored |-> {}]
    /\ result = [kind |-> "text", lines |-> <<>>, parts |-> <<>>, whole |-> TRUE]
    /\ cands = 1 /\ turns = 0

\* The first user block: the task, and the upstream context or its pointer.
Prepare ==
    /\ at = "start"
    /\ \E p \in Prompts, F \in SUBSET Facts, stores, summarizes \in BOOLEAN :
         \E h \in applyRefBasedHandoff(F, stores, summarizes) :
            /\ upstream' = [all |-> F, told |-> h.told, stored |-> h.stored]
            /\ blocks' = <<Text(Plain(p) \o (IF F = {} THEN <<>> ELSE <<{Blank}, h.told \cup {Note}>>))>>
    /\ at' = "turn"
    /\ UNCHANGED <<limits, level, audited, before, result, cands, turns>>

\* The limits are those of some configuration with the provider's name.
AuditTurn ==
    /\ at = "turn"
    /\ \E s \in Settings :
         /\ audited' = s
         /\ level' = Audit(s, SystemTokens("none") + estimateBlocksTokens(blocks))
    /\ at' = IF level' = "none" THEN "call" ELSE "squeeze"
    /\ UNCHANGED <<limits, blocks, before, upstream, result, cands, turns>>

SqueezeTurn ==
    /\ at = "squeeze"
    /\ before' = blocks
    /\ blocks' = Map(blocks, LAMBDA i : squeezeUserBlock(blocks[i], level))
    /\ at' = IF level = "critical" \/ (level = "aggressive" /\ ~ VerifyAnchors(blocks, level))
             THEN "escalated" ELSE "call"
    /\ UNCHANGED <<limits, level, audited, upstream, result, cands, turns>>

\* The provider answers, or refuses a request that does not fit its window.
StreamComplete ==
    /\ at \in {"call", "retry"}
    /\ ~ Refused
    /\ at' = "answered"
    /\ UNCHANGED <<limits, blocks, level, audited, before, upstream, result, cands, turns>>

CompressAndRetry ==
    /\ at = "call" /\ Refused
    /\ LET res == compressUserBlocksToBudget(blocks, contextInputBudget(limits))
       IN  /\ blocks' = res.blocks
           /\ before' = IF res.changed THEN blocks ELSE before
           /\ at' = IF res.changed THEN "retry" ELSE "refused"
    /\ UNCHANGED <<limits, level, audited, upstream, result, cands, turns>>

RetryRefused ==
    /\ at = "retry" /\ Refused
    /\ at' = "refused"
    /\ UNCHANGED <<limits, blocks, level, audited, before, upstream, result, cands, turns>>

\* The history stays as it was compressed; the next candidate is audited anew.
NextCandidate ==
    /\ at = "refused"
    /\ \/ cands < 2 /\ cands' = cands + 1 /\ at' = "turn" /\ limits' \in Settings \ {limits}
       \/ cands' = cands /\ at' = "failed" /\ limits' = limits
    /\ UNCHANGED <<blocks, level, audited, before, upstream, result, turns>>

ToolTurn ==
    /\ at = "answered" /\ turns < MaxTurns
    /\ \E a \in Answers, r \in Results :
         LET b == truncate(r)
         IN  /\ result' = [kind |-> r.kind, lines |-> r.lines, parts |-> b.parts, whole |-> b.whole]
             /\ blocks' = appendTurnObservation(blocks, [kind |-> a.kind, parts |-> Plain(a.lines)], b)
    /\ turns' = turns + 1 /\ cands' = 1 /\ at' = "turn"
    /\ UNCHANGED <<limits, level, audited, before, upstream>>

Finish ==
    /\ at = "answered"
    /\ at' = "done"
    /\ UNCHANGED <<limits, blocks, level, audited, before, upstream, result, cands, turns>>

Next ==
    \/ Prepare \/ AuditTurn \/ SqueezeTurn \/ StreamComplete \/ CompressAndRetry
    \/ RetryRefused \/ NextCandidate \/ ToolTurn \/ Finish

Spec == Init /\ [][Next]_vars

----------------------------------------------------------------------------
Over == at \in {"done", "failed", "escalated"}

TypeOK ==
    /\ limits \in Settings /\ audited \in Settings
    /\ level \in {"none", "light", "aggressive", "critical"}
    /\ at \in {"start", "turn", "squeeze", "call", "retry", "refused", "answered"} \/ Over
    /\ turns \in 0..MaxTurns /\ cands \in 1..2
    /\ \A i \in DOMAIN blocks :
         /\ blocks[i].kind \in {"text", "json", "obs", "sum"}
         /\ UNION ToSet(blocks[i].parts) \subseteq Line \cup {Blank, Note}

\* Audited against its own limits, a request that is sent whole or lightly
\* compressed leaves the reply its room: prompt and reply fit the window.
SentFits ==
    at = "call" /\ level \in {"none", "light"} /\ audited = limits
        /\ limits.max > 0 /\ limits.out < limits.max - limits.reserve =>
    Sent + limits.out <= limits.max

\* Light compression keeps every error line that is not also a progress line,
\* unless it stands in a body of code.
ErrorsKept ==
    at = "call" /\ level = "light" =>
    \A i \in DOMAIN before :
        LET was == before[i].parts
            now == UNION ToSet(blocks[i].parts)
            code == \E k \in DOMAIN was : Meets(was[k], Signature)
            gone == OneLine(before[i]) /\ Meets(UNION ToSet(was), Progress)
        IN  code \/ gone \/
            \A k \in DOMAIN was :
                Meets(was[k], Errors) /\ ~ Meets(was[k], Progress) => was[k] \subseteq now

\* A refused request is sent again only with less in it.
RetryIsSmaller ==
    at = "retry" => estimateBlocksTokens(blocks) < estimateBlocksTokens(before)

\* A JSON document stays readable: it is never cut in the middle, and what
\* was left out is announced.
ResultWhole ==
    result.kind = "json" =>
       /\ result.whole
       /\ Len(result.parts) < Len(result.lines) => {Note} \in ToSet(result.parts)

\* Upstream context is in the prompt or in a stored artifact, never in neither.
UpstreamReachable == upstream.all \subseteq upstream.told \cup upstream.stored

\* The anchors of the conversation survive every compression.
AnchorsKept ==
    at = "call" /\ level # "none" =>
    AnchorsOf(Flat(before).parts) \subseteq AnchorsOf(Flat(blocks).parts)

\* The audit sees everything that is sent: a request it passes is not refused.
PassedIsAccepted ==
    at = "call" /\ level = "none" /\ audited = limits /\ limits.out < limits.max - limits.reserve => ~ Refused

\* The history is shrunk until it fits the budget of the call.
RetryFits ==
    at = "retry" /\ contextInputBudget(limits) > 0 =>
    estimateBlocksTokens(blocks) <= contextInputBudget(limits)

\* The summary of the upstream context keeps the values of its anchor fields.
KeyFactsTold == upstream.told # {} => upstream.all \cap KeyFacts \subseteq upstream.told

\* A summary still shows the first line of its observation.
SummaryTells ==
    \A i \in DOMAIN blocks : blocks[i].kind = "sum" =>
        \E k \in DOMAIN blocks[i].parts : blocks[i].parts[k] # {Note}
============================================================================
