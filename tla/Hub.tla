--------------------------------- MODULE Hub ---------------------------------
(***************************************************************************)
(* The context hub (core/hub.go) over the configuration registry           *)
(* (config/registry_impl.go): a skill is looked up by capability in the    *)
(* session, in the registry and among the generated skills; texts are      *)
(* embedded by the first provider that answers, behind a circuit breaker;  *)
(* tools and skills come and go under the registry's lock.                 *)
(*                                                                         *)
(* The lock is Go's sync.RWMutex: once a writer has called Lock no further *)
(* reader gets in, not even one that already holds it for reading.         *)
(***************************************************************************)
EXTENDS Integers, FiniteSets

CONSTANTS
    Skill,          \* ids of skills
    JitSkill,       \* those with the prefix "jit_": each backed by a tool
    Finder,         \* callers of FindSkillByCapability
    Writer,         \* callers that change the registry
    Provider,       \* providers with an embedding model
    Default,        \* DefaultEmbeddingProvider
    circuitMaxFail,
    MaxWrites,      \* bound: changes of the registry
    MaxEmbeds       \* bound: texts embedded

VARIABLES
    session,   \* skills of the task's session
    skills,    \* Registry.Skills
    made,      \* generated skills of the experience store
    tools,     \* tools that exist (MCPs and DynamicMCPs)
    reading,   \* finders that hold the lock for reading
    announced, \* the writer that has called Lock, or None
    writing,   \* the writer that holds the lock, or None
    find,      \* [Finder -> what it is doing]
    embed,     \* the embedding under way
    circuitBroken,
    writes, embeds,
    moved,     \* ghost: finders during whose search the tools changed
    streak     \* ghost: failures of a provider since it last answered

hubVars == <<session, skills, made, tools, reading, announced, writing, find, embed,
             circuitBroken, writes, embeds, moved, streak>>

None == "none"

Resting == [pc |-> "idle", todo |-> {}, live |-> {}, found |-> None]

NoEmbed == [pc |-> "idle", todo |-> {}, by |-> None]

Init ==
    /\ session \in SUBSET Skill /\ skills \in SUBSET Skill /\ made \in SUBSET JitSkill
    /\ tools \in SUBSET JitSkill
    /\ reading = {} /\ announced = None /\ writing = None
    /\ find = [f \in Finder |-> Resting]
    /\ embed = NoEmbed
    /\ circuitBroken = [p \in Provider |-> 0]
    /\ writes = 0 /\ embeds = 0 /\ moved = {}
    /\ streak = [p \in Provider |-> 0]

-----------------------------------------------------------------------------
(* The lock *)

MayRLock == announced = None /\ writing = None

\* Lock first shuts out new readers, then waits for those inside.
Announce(w) ==
    /\ announced = None /\ writing = None
    /\ writes < MaxWrites
    /\ announced' = w
    /\ writes' = writes + 1
    /\ UNCHANGED <<session, skills, made, tools, reading, writing, find, embed,
                   circuitBroken, embeds, moved, streak>>

Acquire(w) ==
    /\ announced = w
    /\ reading = {}
    /\ announced' = None /\ writing' = w
    /\ UNCHANGED <<session, skills, made, tools, reading, find, embed, circuitBroken,
                   writes, embeds, moved, streak>>

Searching == {f \in Finder : find[f].pc # "idle"}

\* RegisterDynamicMCP, UnregisterDynamicMCP, and a commit that adds or removes a
\* skill.
Change(w) ==
    /\ writing = w
    /\ writing' = None
    /\ \/ \E t \in JitSkill : tools' \in {tools \cup {t}, tools \ {t}} /\ UNCHANGED skills
       \/ \E s \in Skill : skills' \in {skills \cup {s}, skills \ {s}} /\ UNCHANGED tools
    /\ moved' = IF tools' = tools THEN moved ELSE moved \cup Searching
    /\ UNCHANGED <<session, made, reading, announced, find, embed, circuitBroken,
                   writes, embeds, streak>>

-----------------------------------------------------------------------------
(* FindSkillByCapability *)

\* Variant: every registered skill counts as usable.
AlwaysAlive(s) == TRUE

skillToolAlive(s) == s \notin JitSkill \/ s \in tools

\* Whether and which candidate matches the description is the caller's text.
Matches(cands) == cands \cup {None}

Ends(f, r) == find' = [find EXCEPT ![f] = [Resting EXCEPT !.found = r]]

\* Session skills are probed without the lock held; each probe of a tool takes it.
FindSession(f) ==
    /\ find[f].pc = "idle"
    /\ session \cap JitSkill # {} => MayRLock
    /\ moved' = moved \ {f}
    /\ \E m \in Matches({s \in session : skillToolAlive(s)}) :
         IF m # None THEN Ends(f, m)
         ELSE find' = [find EXCEPT ![f] = [Resting EXCEPT !.pc = "lock"]]
    /\ UNCHANGED <<session, skills, made, tools, reading, announced, writing, embed,
                   circuitBroken, writes, embeds, streak>>

FindLock(f) ==
    /\ find[f].pc = "lock"
    /\ MayRLock
    /\ reading' = reading \cup {f}
    /\ find' = [find EXCEPT ![f] = [Resting EXCEPT !.pc = "scan", !.todo = skills]]
    /\ UNCHANGED <<session, skills, made, tools, announced, writing, embed,
                   circuitBroken, writes, embeds, moved, streak>>

\* The probe of a tool, GetMCP, takes the lock that the scan already holds.
FindProbe(f) ==
    /\ find[f].pc = "scan"
    /\ \E s \in find[f].todo :
         /\ s \in JitSkill => MayRLock
         /\ find' = [find EXCEPT ![f].todo = @ \ {s},
                                 ![f].live = IF skillToolAlive(s) THEN @ \cup {s} ELSE @]
    /\ UNCHANGED <<session, skills, made, tools, reading, announced, writing, embed,
                   circuitBroken, writes, embeds, moved, streak>>

\* Variant: the scan returns its match with the lock held.
KeepsReading(f) == reading

Released(f) == reading \ {f}

FindUnlock(f) ==
    /\ find[f].pc = "scan" /\ find[f].todo = {}
    /\ reading' = Released(f)
    /\ \E m \in Matches(find[f].live) :
         IF m # None THEN Ends(f, m)
         ELSE find' = [find EXCEPT ![f] = [Resting EXCEPT !.pc = "made"]]
    /\ UNCHANGED <<session, skills, made, tools, announced, writing, embed,
                   circuitBroken, writes, embeds, moved, streak>>

FindGenerated(f) ==
    /\ find[f].pc = "made"
    /\ made # {} => MayRLock
    /\ \E m \in Matches({s \in made : skillToolAlive(s)}) : Ends(f, m)
    /\ UNCHANGED <<session, skills, made, tools, reading, announced, writing, embed,
                   circuitBroken, writes, embeds, moved, streak>>

-----------------------------------------------------------------------------
(* embedWithFallbackInner *)

isEmbeddingCircuitOpen(p) == circuitBroken[p] >= circuitMaxFail

\* The default provider first, then the others in any order.
EmbedStart ==
    /\ embed.pc = "idle" /\ embeds < MaxEmbeds
    /\ MayRLock
    /\ embeds' = embeds + 1
    /\ embed' = [pc |-> "try", todo |-> Provider, by |-> None]
    /\ UNCHANGED <<session, skills, made, tools, reading, announced, writing, find,
                   circuitBroken, writes, moved, streak>>

NextProvider(p) ==
    /\ p \in embed.todo
    /\ Default \in embed.todo => p = Default

Least(a, b) == IF a < b THEN a ELSE b

\* A failure that is not a rate limit is counted.
recordEmbeddingFailure(p, kind) ==
    IF kind = "429" THEN circuitBroken ELSE [circuitBroken EXCEPT ![p] = @ + 1]

\* An open circuit is skipped without a call. An answer clears no count.
EmbedTry(p) ==
    /\ embed.pc = "try"
    /\ NextProvider(p)
    /\ \/ /\ isEmbeddingCircuitOpen(p)
          /\ embed' = [embed EXCEPT !.todo = @ \ {p}]
          /\ UNCHANGED <<circuitBroken, streak>>
       \/ /\ ~isEmbeddingCircuitOpen(p)
          /\ embed' = [pc |-> "done", todo |-> {}, by |-> p]
          /\ streak' = [streak EXCEPT ![p] = 0]
          /\ UNCHANGED circuitBroken
       \/ /\ ~isEmbeddingCircuitOpen(p)
          /\ \E kind \in {"429", "error"} :
               /\ circuitBroken' = recordEmbeddingFailure(p, kind)
               /\ streak' = IF kind = "429" THEN streak
                            ELSE [streak EXCEPT ![p] = Least(@ + 1, circuitMaxFail)]
          /\ embed' = [embed EXCEPT !.todo = @ \ {p}]
    /\ UNCHANGED <<session, skills, made, tools, reading, announced, writing, find,
                   writes, embeds, moved>>

EmbedEnd ==
    /\ embed.pc = "done" \/ (embed.pc = "try" /\ embed.todo = {})
    /\ embed' = NoEmbed
    /\ UNCHANGED <<session, skills, made, tools, reading, announced, writing, find,
                   circuitBroken, writes, embeds, moved, streak>>

Next ==
    \/ \E w \in Writer : Announce(w) \/ Acquire(w) \/ Change(w)
    \/ \E f \in Finder :
         FindSession(f) \/ FindLock(f) \/ FindProbe(f) \/ FindUnlock(f) \/ FindGenerated(f)
    \/ EmbedStart \/ EmbedEnd
    \/ \E p \in Provider : EmbedTry(p)

\* Every goroutine that can run does: a search goes on, and so does a writer
\* once it has asked for the lock.
Search(f) == FindLock(f) \/ FindProbe(f) \/ FindUnlock(f) \/ FindGenerated(f)
Write(w) == Acquire(w) \/ Change(w)

Spec ==
    /\ Init /\ [][Next]_hubVars
    /\ \A f \in Finder : WF_hubVars(Search(f))
    /\ \A w \in Writer : WF_hubVars(Write(w))

-----------------------------------------------------------------------------
(* Properties *)

\* The lock excludes, and the breaker counts up to its limit.
TypeOK ==
    /\ writing # None => reading = {} /\ announced = None
    /\ {f \in Finder : find[f].pc = "scan"} \subseteq reading
    /\ \A p \in Provider : circuitBroken[p] \in 0..circuitMaxFail

\* A finder inside the lock that must take it again, while a writer waits.
Reentering(f) ==
    /\ find[f].pc = "scan"
    /\ find[f].todo # {} /\ find[f].todo \subseteq JitSkill

Wedged == announced # None /\ \E f \in reading : Reentering(f)

\* Whoever asks for the registry's lock gets it and every search ends, unless a
\* search is about to take the lock a second time while a writer waits.
WriterWaits == announced # None
Finding(f) == find[f].pc # "idle"
LockMoves ==
    /\ WriterWaits ~> (~WriterWaits \/ Wedged)
    /\ \A f \in Finder : Finding(f) ~> (~Finding(f) \/ Wedged)

\* No registry lookup holds the lock across a call that takes it: "sync.RWMutex
\* is NOT reentrant and deadlocks if a writer is waiting"
\* (capability_navigator.go:106).
NeverWedged == ~Wedged

\* A skill handed out has its tool, unless tools changed during the search.
FoundHasTool ==
    \A f \in Finder :
        find'[f].pc = "idle" /\ find[f].pc # "idle" /\ find'[f].found \in JitSkill =>
            find'[f].found \in tools \/ f \in moved
HandsOutLive == [][FoundHasTool]_hubVars

\* A circuit opens after consecutive failures only: an answer in between starts
\* the count anew ("consecutive non-429 failure count", hub.go:60).
OpensOnConsecutive ==
    [][\A p \in Provider :
         isEmbeddingCircuitOpen(p)' /\ ~isEmbeddingCircuitOpen(p) =>
             streak'[p] >= circuitMaxFail]_hubVars

=============================================================================
