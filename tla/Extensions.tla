----------------------------- MODULE Extensions -----------------------------
(***************************************************************************)
(* What the engine takes in from outside: texts and repositories fetched   *)
(* and cached (resources.go, prompt_manager.go, cookbook_syncer.go),       *)
(* skills imported, synchronised and promoted (external_skill_adapter.go,  *)
(* tools/subsystems_admin.go), and the scripts hooked to task events       *)
(* (hook_runner.go, WireHooks).                                            *)
(*                                                                         *)
(* Clients are goroutines that each do one of these things at a time and   *)
(* share the caches, the cookbook directory and the registry.  A remote    *)
(* text is its version; a cookbook is the set of files it was put          *)
(* together from.                                                          *)
(***************************************************************************)
EXTENDS Naturals, Sequences, FiniteSets

CONSTANTS
  Client,
  Ref,           \* prompt references
  Bundle,        \* skill bundles of the repository that is synchronised
  MultiStep,     \* bundles whose body has headings or a numbered list
  NonStandard,   \* bundles that break a naming rule of the standard
  MaxVersion,    \* versions a remote text goes through
  Hint,          \* task descriptions a cookbook is fetched for
  Tree,          \* paths of the cookbook repository, in listing order
  Skipped,       \* paths without prose
  Matches,       \* <<hint, path>>: the path shares a word with the hint
  cookbookMaxFiles,
  maxResourceCacheEntries,
  Hooks, Lua,    \* number of hooks configured, and which of them are Lua scripts
  Filters,       \* <<hook, feature>>: the hook's filter asks for the feature
  MaxOps, MaxFaults

VARIABLES
  origin,        \* the version each remote text has now
  cache,         \* ResourceLoader.cache, single texts
  books,         \* ResourceLoader.cache, cookbooks by hint
  templates,     \* PromptManager.templates
  files, ptr,    \* the cookbook directory: content files, and key -> content
  pending, active, sops, index,   \* PendingSkills, Skills, SOPs, capability index
  cl,            \* what each client is doing
  ops, faults,   \* calls started, faults so far
  torn           \* a content file was cut short by a crash, or taken for written

loader == <<origin, cache, books, templates>>
disk == <<files, ptr>>
registry == <<pending, active, sops, index>>
vars == <<loader, disk, registry, cl, ops, faults, torn>>

Range1(s) == {s[i] : i \in 1..Len(s)}
Text == Ref \cup Bundle
Book == SUBSET Range1(Tree)
None == <<>>
Whole(v) == <<"text", v>>
Cut(v) == <<"cut", v>>
ErrorPage == <<"page">>
Idle == [pc |-> "idle", key |-> "", got |-> None, todo |-> {}, book |-> {}, next |-> "",
         ran |-> <<>>]
NoSkill == [dir |-> "", meta |-> ""]

Init ==
    /\ origin = [t \in Text |-> 1]
    /\ cache = [t \in Text |-> None]
    /\ books = [h \in Hint |-> None]
    /\ templates = [r \in Ref |-> None]
    /\ files = [b \in Book |-> "none"]
    /\ ptr = [h \in Hint |-> {}]
    /\ pending = [b \in Bundle |-> NoSkill] /\ active = [b \in Bundle |-> NoSkill]
    /\ sops = {} /\ index = {}
    /\ cl = [c \in Client |-> Idle]
    /\ ops = 0 /\ faults = 0 /\ torn = FALSE

Begins(c) == cl[c] = Idle /\ ops < MaxOps /\ ops' = ops + 1
At(c, place) == cl[c].pc = place
Goes(c, r) == cl' = [cl EXCEPT ![c] = r]
Ends(c) == Goes(c, Idle)

Publishes(t) ==
    /\ origin[t] < MaxVersion
    /\ origin' = [origin EXCEPT ![t] = @ + 1]
    /\ UNCHANGED <<cache, books, templates, disk, registry, cl, ops, faults, torn>>

----------------------------------------------------------------------------
(* Single texts.                                                            *)

Cached == {t \in Text : cache[t] # None} \cup {h \in Hint : books[h] # None}

\* cacheSetLocked: above the cap every fourth entry goes, the new one stays.
cacheSetLocked(key, texts, bs) ==
    LET all == Cached \cup {key}
    IN \E gone \in SUBSET all :
          /\ IF Cardinality(all) > maxResourceCacheEntries
             THEN Cardinality(gone) = Cardinality(all) \div 4 ELSE gone = {}
          /\ cache' = [t \in Text |-> IF t \in gone \ {key} THEN None ELSE texts[t]]
          /\ books' = [h \in Hint |-> IF h \in gone \ {key} THEN None ELSE bs[h]]

\* Fetch: what is cached is returned; anything else is asked for.
Fetch(c, t, then) ==
    IF cache[t] # None
    THEN Goes(c, [cl[c] EXCEPT !.pc = then, !.key = t, !.got = cache[t]])
    ELSE Goes(c, [cl[c] EXCEPT !.pc = "fetch", !.key = t, !.next = then])

\* A read error after the response began, and a status other than 200, both
\* pass for content.
Answered(c) ==
    /\ At(c, "fetch")
    /\ \E v \in {Whole(origin[cl[c].key]), Cut(origin[cl[c].key]), ErrorPage} :
          /\ v # Whole(origin[cl[c].key]) => faults < MaxFaults
          /\ faults' = faults + (IF v = Whole(origin[cl[c].key]) THEN 0 ELSE 1)
          /\ Goes(c, [cl[c] EXCEPT !.pc = "store", !.got = v])
    /\ UNCHANGED <<loader, disk, registry, ops, torn>>

\* A rejected URL or a failed request.  A prompt is then not rendered; a
\* synchronisation goes on without the file.
FetchFails(c) ==
    /\ At(c, "fetch") /\ faults < MaxFaults /\ faults' = faults + 1
    /\ IF cl[c].next = "saved" THEN Goes(c, [cl[c] EXCEPT !.pc = "download", !.got = None])
       ELSE Ends(c)
    /\ UNCHANGED <<loader, disk, registry, ops, torn>>

Store(c) ==
    /\ At(c, "store")
    /\ cacheSetLocked(cl[c].key, [cache EXCEPT ![cl[c].key] = cl[c].got], books)
    /\ Goes(c, [cl[c] EXCEPT !.pc = cl[c].next])
    /\ UNCHANGED <<origin, templates, disk, registry, ops, faults, torn>>

GetPrompt(c, r) ==
    /\ Begins(c)
    /\ Fetch(c, r, "render")
    /\ UNCHANGED <<loader, disk, registry, faults, torn>>

\* Render parses a reference once and keeps the template.
Render(c) ==
    /\ At(c, "render")
    /\ templates' = IF templates[cl[c].key] # None THEN templates
                    ELSE [templates EXCEPT ![cl[c].key] = cl[c].got]
    /\ Ends(c)
    /\ UNCHANGED <<origin, cache, books, disk, registry, ops, faults, torn>>

----------------------------------------------------------------------------
(* Cookbooks.                                                               *)

\* fetchRepoTreeRecursive keeps the paths that look like prose.
Listed == SelectSeq(Tree, LAMBDA p : p \notin Skipped)

Prefix(s) == {s[i] : i \in 1..(IF Len(s) < cookbookMaxFiles THEN Len(s) ELSE cookbookMaxFiles)}

\* selectRelevantCookbookFiles: everything when it fits, the best matches
\* otherwise, the first files when nothing matches.
selectRelevantCookbookFiles(h) ==
    LET good == SelectSeq(Listed, LAMBDA p : <<h, p>> \in Matches)
    IN IF Len(Listed) <= cookbookMaxFiles \/ good = <<>> THEN Prefix(Listed) ELSE Prefix(good)

\* Mutant: the cache on disk is kept by repository alone.
DiskBySource(h) == CHOOSE k \in Hint : TRUE

DiskKey(h) == h

\* FetchCookbook: memory, then disk, then the repository.
FetchCookbook(c, h) ==
    /\ Begins(c)
    /\ LET onDisk == ptr[DiskKey(h)] # {} /\ files[ptr[DiskKey(h)]] # "none"
       IN IF books[h] # None THEN UNCHANGED <<cache, books, cl>>
          ELSE IF onDisk
          THEN /\ cacheSetLocked(h, cache, [books EXCEPT ![h] =
                     <<ptr[DiskKey(h)], files[ptr[DiskKey(h)]]>>])
               /\ UNCHANGED cl
          ELSE Goes(c, [Idle EXCEPT !.pc = "list", !.key = h]) /\ UNCHANGED <<cache, books>>
    /\ UNCHANGED <<origin, templates, disk, registry, faults, torn>>

ListTree(c) ==
    /\ At(c, "list")
    /\ Goes(c, [cl[c] EXCEPT !.pc = "raw", !.todo = selectRelevantCookbookFiles(cl[c].key)])
    /\ UNCHANGED <<loader, disk, registry, ops, faults, torn>>

ListFails(c) ==
    /\ At(c, "list") /\ faults < MaxFaults /\ faults' = faults + 1
    /\ Ends(c)
    /\ UNCHANGED <<loader, disk, registry, ops, torn>>

\* fetchRaw: a file that cannot be read is left out.
fetchRaw(c) ==
    /\ At(c, "raw") /\ cl[c].todo # {}
    /\ LET f == CHOOSE p \in cl[c].todo : TRUE
       IN \/ /\ Goes(c, [cl[c] EXCEPT !.todo = @ \ {f}, !.book = @ \cup {f}])
             /\ UNCHANGED faults
          \/ /\ faults < MaxFaults /\ faults' = faults + 1
             /\ Goes(c, [cl[c] EXCEPT !.todo = @ \ {f}])
    /\ UNCHANGED <<loader, disk, registry, ops, torn>>

\* saveCookbookToDisk, the content: written unless a file of that name is
\* there, and not in one step.
SaveContent(c) ==
    /\ At(c, "raw") /\ cl[c].todo = {}
    /\ torn' = (torn \/ files[cl[c].book] = "part")
    /\ IF cl[c].book = {} THEN Ends(c) /\ UNCHANGED files
       ELSE IF files[cl[c].book] = "none"
       THEN /\ files' = [files EXCEPT ![cl[c].book] = "part"]
            /\ Goes(c, [cl[c] EXCEPT !.pc = "writing"])
       ELSE Goes(c, [cl[c] EXCEPT !.pc = "pointer"]) /\ UNCHANGED files
    /\ UNCHANGED <<loader, ptr, registry, ops, faults>>

ContentWritten(c) ==
    /\ At(c, "writing")
    /\ files' = [files EXCEPT ![cl[c].book] = "whole"]
    /\ Goes(c, [cl[c] EXCEPT !.pc = "pointer"])
    /\ UNCHANGED <<loader, ptr, registry, ops, faults, torn>>

SavePointer(c) ==
    /\ At(c, "pointer")
    /\ ptr' = [ptr EXCEPT ![DiskKey(cl[c].key)] = cl[c].book]
    /\ Goes(c, [cl[c] EXCEPT !.pc = "keep"])
    /\ UNCHANGED <<loader, files, registry, ops, faults, torn>>

KeepBook(c) ==
    /\ At(c, "keep")
    /\ cacheSetLocked(cl[c].key, cache, [books EXCEPT ![cl[c].key] = <<cl[c].book, "whole">>])
    /\ Ends(c)
    /\ UNCHANGED <<origin, templates, disk, registry, ops, faults, torn>>

----------------------------------------------------------------------------
(* Skills from outside.                                                     *)

\* parseExternalSkillFile: a file without readable front matter is a skill
\* named after its directory.
parseExternalSkillFile(text) == IF text[1] = "text" THEN "described" ELSE "bare"

\* deriveCapability: the word a skill is found by.
deriveCapability(b, meta) == IF meta = "described" THEN b ELSE "external"

\* The standard's rules, for the standard discovery paths only.
validateStandardSkillMeta(b, meta) == b \notin NonStandard /\ meta = "described"

\* walkImport stages a bundle, and registers a multi-step one as an SOP.
walkImport(b, d, text) ==
    /\ pending' = [pending EXCEPT ![b] = [dir |-> d, meta |-> parseExternalSkillFile(text)]]
    /\ sops' = IF b \in MultiStep THEN sops \cup {b} ELSE sops

\* import_skills.
ImportSkillDirectory(c, b) ==
    /\ Begins(c)
    /\ \E text \in {Whole(origin[b]), Cut(origin[b])} : walkImport(b, "local", text)
    /\ UNCHANGED <<loader, disk, active, index, cl, faults, torn>>

\* ImportStandardDiscoveryPaths: what breaks a rule is passed over.
ImportStandardSkills(c, b) ==
    /\ Begins(c)
    /\ \E text \in {Whole(origin[b]), Cut(origin[b])} :
          IF validateStandardSkillMeta(b, parseExternalSkillFile(text))
          THEN walkImport(b, "local", text) ELSE UNCHANGED <<pending, sops>>
    /\ UNCHANGED <<loader, disk, active, index, cl, faults, torn>>

\* sync_skills makes a temporary directory and lists the repository, ...
SyncSkills(c) ==
    /\ Begins(c)
    /\ Goes(c, [Idle EXCEPT !.pc = "repo"])
    /\ UNCHANGED <<loader, disk, registry, faults, torn>>

FetchRepoContents(c) ==
    /\ At(c, "repo")
    /\ \/ /\ Goes(c, [cl[c] EXCEPT !.pc = "download", !.todo = Bundle])
          /\ UNCHANGED faults
       \/ /\ faults < MaxFaults /\ faults' = faults + 1
          /\ Goes(c, [cl[c] EXCEPT !.pc = "download"])
    /\ UNCHANGED <<loader, disk, registry, ops, torn>>

\* ... downloads every file through Fetch, ...
Download(c) ==
    /\ At(c, "download") /\ cl[c].todo # {}
    /\ LET b == CHOOSE x \in cl[c].todo : TRUE
       IN IF cache[b] # None
          THEN Goes(c, [cl[c] EXCEPT !.pc = "saved", !.key = b, !.got = cache[b], !.todo = @ \ {b}])
          ELSE Goes(c, [cl[c] EXCEPT !.pc = "fetch", !.key = b, !.next = "saved",
                                     !.todo = @ \ {b}])
    /\ UNCHANGED <<loader, disk, registry, ops, faults, torn>>

\* ... imports it, ...
ImportDownloaded(c) ==
    /\ At(c, "saved")
    /\ walkImport(cl[c].key, c, cl[c].got)
    /\ Goes(c, [cl[c] EXCEPT !.pc = "download"])
    /\ UNCHANGED <<loader, disk, active, index, ops, faults, torn>>

Removed(skills, c) ==
    [b \in Bundle |-> IF skills[b].dir = c THEN [skills[b] EXCEPT !.dir = "removed"]
                      ELSE skills[b]]

\* ... and removes the directory on return.
SyncReturns(c) ==
    /\ At(c, "download") /\ cl[c].todo = {}
    /\ pending' = Removed(pending, c) /\ active' = Removed(active, c)
    /\ Ends(c)
    /\ UNCHANGED <<loader, disk, sops, index, ops, faults, torn>>

\* promote_skill moves the skill under the registry's lock ...
Promote(c, b) ==
    /\ Begins(c) /\ pending[b] # NoSkill
    /\ active' = [active EXCEPT ![b] = pending[b]]
    /\ pending' = [pending EXCEPT ![b] = NoSkill]
    /\ Goes(c, [Idle EXCEPT !.pc = "refresh"])
    /\ UNCHANGED <<loader, disk, sops, index, faults, torn>>

\* Mutant: the index stays as it was.
NotRebuilt == index

Rebuilt == {deriveCapability(b, active[b].meta) : b \in {x \in Bundle : active[x] # NoSkill}}

\* ... and rebuilds the capability index after releasing it.
Refresh(c) ==
    /\ At(c, "refresh")
    /\ index' = Rebuilt
    /\ Ends(c)
    /\ UNCHANGED <<loader, disk, pending, active, sops, ops, faults, torn>>

----------------------------------------------------------------------------
(* Hooks.                                                                   *)

Feature == {p[2] : p \in Filters}

\* matchFilter: every condition the hook states holds of the event.
matchFilter(h, event) == \A f \in Feature : <<h, f>> \in Filters => f \in event

\* WireHooks runs the hooks of the point whose filter matches the event.
RunHooks(c) ==
    /\ Begins(c)
    /\ \E event \in SUBSET Feature :
          Goes(c, [Idle EXCEPT !.pc = "hooks", !.todo = {h \in 1..Hooks : matchFilter(h, event)},
                               !.got = [by |-> 0, notes |-> <<>>]])
    /\ UNCHANGED <<loader, disk, registry, faults, torn>>

\* Mutant: the first action stays.
FirstAction(result, h, acts, notes) ==
    [by |-> IF acts /\ result.by = 0 THEN h ELSE result.by, notes |-> result.notes \o notes]

\* An action replaces the result and its annotations; annotations are then
\* appended.
Aggregated(result, h, acts, notes) ==
    IF acts THEN [by |-> h, notes |-> notes \o notes]
    ELSE [result EXCEPT !.notes = @ \o notes]

\* What a script answers.  No annotation is read from a Lua script; a
\* subprocess that answers anything but JSON answers nothing.
runLua == [acts : BOOLEAN, notes : {<<>>}]
runSubprocess(h) == [acts : BOOLEAN, notes : {<<>>, <<h>>}]
Outcome(h) == IF h \in Lua THEN runLua ELSE runSubprocess(h)

Upcoming(c) == CHOOSE x \in cl[c].todo : \A y \in cl[c].todo : x <= y

RunOne(c) ==
    /\ At(c, "hooks") /\ cl[c].todo # {}
    /\ LET h == Upcoming(c)
       IN \E o \in Outcome(h) :
             Goes(c, [cl[c] EXCEPT !.todo = @ \ {h},
                                   !.got = Aggregated(@, h, o.acts, o.notes),
                                   !.ran = Append(@, <<h, o.acts, o.notes>>)])
    /\ UNCHANGED <<loader, disk, registry, ops, faults, torn>>

\* A script that was changed, fails or takes too long is passed over.
HookSkipped(c) ==
    /\ At(c, "hooks") /\ cl[c].todo # {}
    /\ Goes(c, [cl[c] EXCEPT !.todo = @ \ {Upcoming(c)}])
    /\ UNCHANGED <<loader, disk, registry, ops, faults, torn>>

\* The caller drops the result.
HooksEnd(c) ==
    /\ At(c, "hooks") /\ cl[c].todo = {}
    /\ Ends(c)
    /\ UNCHANGED <<loader, disk, registry, ops, faults, torn>>

----------------------------------------------------------------------------

\* The process dies: memory is lost, a file being written stays in part.
Crash ==
    /\ faults < MaxFaults /\ faults' = faults + 1
    /\ cache' = [t \in Text |-> None] /\ books' = [h \in Hint |-> None]
    /\ templates' = [r \in Ref |-> None]
    /\ pending' = [b \in Bundle |-> NoSkill] /\ active' = [b \in Bundle |-> NoSkill]
    /\ sops' = {} /\ index' = {}
    /\ cl' = [c \in Client |-> Idle]
    /\ torn' = (torn \/ \E c \in Client : At(c, "writing"))
    /\ UNCHANGED <<origin, disk, ops>>

Next ==
    \/ \E t \in Text : Publishes(t)
    \/ \E c \in Client :
          \/ \E r \in Ref : GetPrompt(c, r)
          \/ Answered(c) \/ FetchFails(c) \/ Store(c) \/ Render(c)
          \/ \E h \in Hint : FetchCookbook(c, h)
          \/ ListTree(c) \/ ListFails(c) \/ fetchRaw(c)
          \/ SaveContent(c) \/ ContentWritten(c) \/ SavePointer(c) \/ KeepBook(c)
          \/ \E b \in Bundle : \/ ImportSkillDirectory(c, b)
                              \/ ImportStandardSkills(c, b) \/ Promote(c, b)
          \/ SyncSkills(c) \/ FetchRepoContents(c) \/ Download(c) \/ ImportDownloaded(c) \/ SyncReturns(c)
          \/ Refresh(c) \/ RunHooks(c) \/ RunOne(c) \/ HookSkipped(c) \/ HooksEnd(c)
    \/ Crash

Spec == Init /\ [][Next]_vars

----------------------------------------------------------------------------
(* Properties.                                                              *)

TypeOK ==
    /\ origin \in [Text -> 1..MaxVersion]
    /\ ptr \in [Hint -> Book]
    /\ files \in [Book -> {"none", "part", "whole"}]
    /\ \A h \in Hint : books[h] # None => books[h][1] \in Book \ {{}}
    /\ Cardinality(Cached) <= maxResourceCacheEntries + 1
    /\ sops \subseteq Bundle /\ index \subseteq Bundle \cup {"external"}

\* A cookbook served for a task is one selected for that task, whether it
\* was just fetched, came from memory or from the directory an earlier
\* process left; and it is the whole text that was saved, unless a crash
\* or another client's unfinished write cut the file.
HintHonoured ==
    \A h \in Hint : books[h] # None =>
       /\ books[h][1] \subseteq selectRelevantCookbookFiles(h)
       /\ books[h][2] = "part" => torn

\* Once no promotion is under way the capability index knows exactly the
\* promoted skills: overlapping promotions leave none out and a staged skill
\* is never in it.
IndexIsActive ==
    (\A c \in Client : ~At(c, "refresh")) => 
       index = {IF active[b].meta = "bare" THEN "external" ELSE b :
                   b \in {x \in Bundle : active[x] # NoSkill}}

\* The result of a run of hooks is that of the last hook that answered with
\* an action.
LastActionWins ==
    \A c \in Client : At(c, "hooks") =>
       LET acted == {r \in Range1(cl[c].ran) : r[2]}
       IN IF acted = {} THEN cl[c].got.by = 0
          ELSE \E r \in acted : r[1] = cl[c].got.by /\ \A q \in acted : q[1] <= r[1]

\* What is cached is the text the remote had, not an error or a part of it.
FetchedIsWhole == \A t \in Text : cache[t] = None \/ cache[t][1] = "text"

\* The directory of a registered skill exists.
SkillDirLives == \A b \in Bundle : pending[b].dir # "removed" /\ active[b].dir # "removed"

\* A staged skill cannot be found before it is promoted, as an SOP either.
StagedUntilPromoted == sops \subseteq {b \in Bundle : active[b] # NoSkill}

\* Every annotation of every hook that ran is in the result, once.
AnnotationsKept ==
    \A c \in Client : At(c, "hooks") =>
       \A r \in Range1(cl[c].ran) : r[3] # <<>> =>
          Cardinality({i \in 1..Len(cl[c].got.notes) : cl[c].got.notes[i] = r[1]}) = 1
=============================================================================
