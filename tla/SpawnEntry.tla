----------------------------- MODULE SpawnEntry -----------------------------
(***************************************************************************)
(* How a step gets its tools: prepareSpawn validates the role, gates       *)
(* skills and MCP servers by their mount policy, discovers the tools of    *)
(* the servers, routes a subset of them into the schema budget, and        *)
(* buildMCPServers offers what is left to the model, whose calls           *)
(* ResolveToolMCP sends to a server.  Several spawns run at once over one  *)
(* registry, and a configuration reload replaces its definitions.          *)
(*                                                                         *)
(* A binding is the set of its AllowedTools; as in the code (IsRestricted, *)
(* config/types.go) the empty list stands for every tool of the server.    *)
(***************************************************************************)
EXTENDS Integers, FiniteSets, FiniteSetsExt, SequencesExt

CONSTANTS
    MCP, Tool,
    Serves,         \* what a server's tools/list answers, [MCP -> SUBSET Tool]
    Stdio,          \* the servers with a command; the others are remote
    Bound,          \* the role's MCPBindings, [subset of MCP -> SUBSET Tool]
    Extra,          \* the request's AdditionalMCPs, of the same shape
    Policy,         \* mount policy, [MCP -> {"open", "approval", "admin_only"}]
    SkillApproval,  \* TRUE: a skill of the request needs approval
    Requires,       \* the tools the role's RequiredCapabilities name
    Dynamic,        \* the role's AllowDynamicMCPs
    Manifest,       \* TRUE: the role declares its mounts in a manifest
    Lazy,           \* System.LazyDiscovery
    Always,         \* AlwaysInclude of a server, [MCP -> SUBSET Tool]
    Privileged,     \* the blocklist of tools routing never selects
    Discovery,      \* tools that only list or search
    ProgressiveMin, DiscoveryMin,
    Cost, Budget,   \* tokens of a tool's schema; MaxToolSchemaTokens
    Spawn, None,
    Planner,        \* those of Spawn that only discover, before a plan is made
    MaxRenewals     \* reloads

VARIABLES
    defs,       \* FullToolDefinitions: how often each tool is listed there
    avail,      \* AvailableTools
    lock,       \* the per-server discovery lock
    broken,     \* servers whose client last failed to start
    off,        \* servers marked Disabled
    approved,   \* ApprovedMCPMounts of the task graph
    skillOK,    \* ApprovedSkillMounts holds the skill
    admin,      \* the submitter is an administrator
    sp,         \* the spawns
    renewals    \* reloads so far

vars == <<defs, avail, lock, broken, off, approved, skillOK, admin, sp,
          renewals>>
registry == <<defs, avail, lock, broken, off, renewals>>

Ended == {"idle", "failed", "blocked", "approval", "delegated", "done"}
Phases == Ended \cup {"check", "skills", "predisc", "resolve", "disc", "route",
                      "mode", "build", "listing", "call"}

NewSpawn == [pc |-> "idle", back |-> "idle", todo |-> {}, cur |-> None,
             lost |-> FALSE, held |-> {}, mounts |-> {}, bind |-> [m \in MCP |-> {}],
             full |-> [m \in MCP |-> {}], used |-> 0, emptied |-> {},
             offered |-> [m \in MCP |-> {}], asks |-> {},
             tool |-> None, target |-> None, moved |-> FALSE]

\* One type invariant: the registry's and the spawns' fields, and one holder
\* per discovery lock, which is the spawn that lists that server's tools.
TypeOK ==
    /\ defs \in [MCP -> [Tool -> 0 .. Cardinality(Spawn)]]
    /\ avail \in [MCP -> SUBSET Tool]
    /\ lock \in [MCP -> Spawn \cup {None}]
    /\ \A x \in Spawn : sp[x].pc \in Phases /\ sp[x].used \in Nat
    /\ \A m \in MCP, x \in Spawn :
          lock[m] = x <=> sp[x].pc = "listing" /\ sp[x].cur = m

Init ==
    /\ defs = [m \in MCP |-> [t \in Tool |-> 0]]
    /\ avail = [m \in MCP |-> {}]
    /\ lock = [m \in MCP |-> None]
    /\ broken = {} /\ off = {} /\ approved = {} /\ skillOK = FALSE
    /\ admin \in BOOLEAN
    /\ sp = [x \in Spawn |-> NewSpawn]
    /\ renewals = 0

mcpActive(m) == m \notin off
Known(m) == {t \in Tool : defs[m][t] > 0}

-----------------------------------------------------------------------------
(* Entry checks.                                                           *)

Go(x, s) == sp' = [sp EXCEPT ![x] = s]

Start(x) ==
    /\ sp[x].pc = "idle" /\ x \notin Planner
    /\ Go(x, [NewSpawn EXCEPT !.pc = "check"])
    /\ UNCHANGED <<registry, approved, skillOK, admin>>

\* Before a plan is requested, the servers of the planner's role are
\* discovered, or all of them; whether one is switched off is not looked at.
ensureMCPDiscoveryForRole(x) ==
    /\ sp[x].pc = "idle" /\ x \in Planner
    /\ \E ms \in {DOMAIN Bound, MCP} :
          Go(x, [NewSpawn EXCEPT !.pc = "predisc", !.todo = ms \cap Stdio])
    /\ UNCHANGED <<registry, approved, skillOK, admin>>

PlannerReady(x) ==
    /\ x \in Planner /\ sp[x].pc = "predisc" /\ sp[x].todo = {}
    /\ Go(x, [sp[x] EXCEPT !.pc = "done"])
    /\ UNCHANGED <<registry, approved, skillOK, admin>>

\* validateCapabilities: what the role requires must already be among the
\* tools some active server is known to have, or be found as a skill.
MissingCapabilities == Requires \ UNION {avail[m] : m \in {n \in MCP : mcpActive(n)}}

\* Every missing capability has a skill in the registry, or not.
tryFindSkillsForMissing == BOOLEAN

validateCapabilities(x) ==
    /\ sp[x].pc = "check"
    /\ \/ /\ MissingCapabilities = {} \/ Dynamic
          /\ Go(x, [sp[x] EXCEPT !.pc = "skills"])
       \/ /\ MissingCapabilities # {}
          /\ \E covered \in tryFindSkillsForMissing :
                Go(x, [sp[x] EXCEPT !.pc = IF covered THEN "skills" ELSE "blocked"])
    /\ UNCHANGED <<registry, approved, skillOK, admin>>

\* resolveSkills: a skill with an approval policy ends the spawn with a
\* request for approval; then the servers to discover are collected.
resolveSkills(x) ==
    /\ sp[x].pc = "skills"
    /\ \/ /\ SkillApproval /\ ~skillOK /\ ~admin
          /\ Go(x, [sp[x] EXCEPT !.pc = "approval", !.asks = {None}])
       \/ /\ ~SkillApproval \/ skillOK \/ admin
          /\ Go(x, [sp[x] EXCEPT
                !.pc = IF Manifest \/ Lazy THEN "resolve" ELSE "predisc",
                !.todo = IF Manifest \/ Lazy THEN {}
                         ELSE (DOMAIN Bound \cup DOMAIN Extra) \cap Stdio])
    /\ UNCHANGED <<registry, approved, skillOK, admin>>

-----------------------------------------------------------------------------
(* Discovery, under a lock per server.                                     *)

\* discoverStdioMCP up to the request: without a client it is over, and with
\* definitions already there nothing is asked.
Asks(m) == Known(m) = {}
AsksAnyway(m) == TRUE
NeedsListing(m) == Asks(m)

\* The server's lock is taken, and its client started.
DiscoverBegin(x, m) ==
    /\ sp[x].pc \in {"predisc", "disc"} /\ m \in sp[x].todo
    /\ \/ /\ (~mcpActive(m) /\ x \notin Planner) \/ m \notin Stdio
          /\ Go(x, [sp[x] EXCEPT !.todo = @ \ {m}])
          /\ UNCHANGED <<lock, broken>>
       \/ /\ mcpActive(m) \/ x \in Planner
          /\ m \in Stdio /\ lock[m] = None
          /\ \E up \in BOOLEAN :
                /\ broken' = IF up THEN broken \ {m} ELSE broken \cup {m}
                /\ IF up /\ NeedsListing(m)
                   THEN /\ lock' = [lock EXCEPT ![m] = x]
                        /\ Go(x, [sp[x] EXCEPT !.pc = "listing", !.cur = m,
                                  !.back = sp[x].pc, !.lost = FALSE])
                   ELSE /\ Go(x, [sp[x] EXCEPT !.todo = @ \ {m}])
                        /\ UNCHANGED lock
    /\ UNCHANGED <<defs, avail, off, renewals, approved, skillOK, admin>>

\* The answer of tools/list (or list_tools): the definitions and the names are
\* appended to the definition the spawn holds, which after a reload is no
\* longer the registry's.  A remote server only gets its definitions.
AppendTools(m) ==
    /\ defs' = [defs EXCEPT ![m] = [t \in Tool |->
                    @[t] + IF t \in Serves[m] THEN 1 ELSE 0]]
    /\ avail' = IF m \in Stdio THEN [avail EXCEPT ![m] = @ \cup Serves[m]] ELSE avail

\* visibleTools (core/mcp_toggle.go): the enabled tools, cut to the binding.
visibleTools(known, allowed) ==
    IF allowed = {} THEN known ELSE known \cap allowed

DiscoverEnd(x) ==
    LET m == sp[x].cur IN
    /\ sp[x].pc = "listing"
    /\ lock' = [lock EXCEPT ![m] = None]
    /\ \E ok \in BOOLEAN :
       /\ IF ok /\ ~sp[x].lost THEN AppendTools(m) ELSE UNCHANGED <<defs, avail>>
       /\ Go(x, [sp[x] EXCEPT !.pc = sp[x].back, !.lost = FALSE,
              !.held = IF ok /\ sp[x].lost /\ sp[x].back = "build" THEN Serves[m] ELSE {},
              !.todo = IF sp[x].back \in {"build", "route"} THEN @ ELSE @ \ {m},
              !.cur = IF sp[x].back \in {"build", "route"} THEN m ELSE None])
    /\ UNCHANGED <<broken, off, renewals, approved, skillOK, admin>>

-----------------------------------------------------------------------------
(* Bindings and the mount gate.                                            *)

\* ResolveToolBindings: a request's non-empty list replaces the role's.
Binding(m) ==
    IF m \in DOMAIN Extra /\ (m \notin DOMAIN Bound \/ Extra[m] # {})
    THEN Extra[m] ELSE Bound[m]

\* resolveMountPolicyGate
Allowed(m) == Policy[m] = "open" \/ admin \/ (Policy[m] = "approval" /\ m \in approved)
AllowedUnasked(m) == Policy[m] \in {"open", "approval"} \/ admin
MayMount(m) == Allowed(m)
MustAsk(m) == Policy[m] = "approval" /\ ~MayMount(m)

\* ResolveFinalMCPs: a list is cut to the tools known so far; one that keeps
\* nothing is refused, or means every tool for an administrator.
FinalList(m) == IF avail[m] = {} THEN Binding(m) ELSE Binding(m) \cap avail[m]
Hallucinated(m) == Binding(m) # {} /\ FinalList(m) = {}

\* ResolveCapabilitiesToBindings: a manifest's servers with what it lists.
ManifestBinding(m) == Bound[m]

resolveMCPBindings(x) ==
    LET wanted == IF Manifest THEN DOMAIN Bound ELSE DOMAIN Bound \cup DOMAIN Extra
        extra  == wanted \ DOMAIN Bound
        mount(ms) == [sp[x] EXCEPT
            !.pc = IF Lazy THEN "route" ELSE "disc", !.mounts = ms, !.todo = ms,
            !.bind = [m \in MCP |-> IF m \notin ms THEN {}
                                    ELSE IF Manifest THEN ManifestBinding(m) ELSE FinalList(m)],
            !.full = [m \in MCP |-> IF m \in ms THEN Binding(m) ELSE {}]]
    IN
    /\ x \notin Planner
    /\ sp[x].pc = "resolve" \/ (sp[x].pc = "predisc" /\ sp[x].todo = {})
    /\ \/ /\ Manifest
          /\ Go(x, mount(wanted))
       \/ /\ ~Manifest
          /\ \E m \in extra : ~MayMount(m) /\ ~MustAsk(m)
          /\ Go(x, [sp[x] EXCEPT !.pc = "failed"])
       \/ /\ ~Manifest /\ \A m \in extra : MayMount(m) \/ MustAsk(m)
          /\ \E m \in extra : MustAsk(m)
          /\ Go(x, [sp[x] EXCEPT !.pc = "approval", !.asks = {m \in extra : MustAsk(m)}])
       \/ /\ ~Manifest /\ \A m \in extra : MayMount(m)
          /\ ~admin
          /\ \E m \in wanted : Hallucinated(m)
          /\ Go(x, [sp[x] EXCEPT !.pc = "failed"])
       \/ /\ ~Manifest /\ \A m \in extra : MayMount(m)
          /\ admin \/ \A m \in wanted : ~Hallucinated(m)
          /\ Go(x, mount(wanted))
    /\ UNCHANGED <<registry, approved, skillOK, admin>>

\* The second discovery pass is over (ensureMCPDiscovery): routing starts,
\* except for a manifest's bindings, which are taken as they are.
Discovered(x) ==
    /\ sp[x].pc = "disc" /\ sp[x].todo = {}
    /\ Go(x, [sp[x] EXCEPT !.pc = IF Manifest THEN "mode" ELSE "route",
                           !.todo = IF Manifest THEN {} ELSE sp[x].mounts])
    /\ UNCHANGED <<registry, approved, skillOK, admin>>

-----------------------------------------------------------------------------
(* Routing into the schema budget.                                         *)

Spent(ts) == MapThenSumSet(LAMBDA t : Cost[t], ts)

\* One candidate after the other, the one of best rank first; what does not
\* fit is skipped, but the very first tool of the call always fits.
Fits(t, used) == used = 0 \/ used + Cost[t] =< Budget
Greedy(order, used) ==
    FoldLeft(LAMBDA acc, t : IF Fits(t, acc.used)
                             THEN [used |-> acc.used + Cost[t], ts |-> acc.ts \cup {t}]
                             ELSE acc,
             [used |-> used, ts |-> {}], order)
GreedyAfresh(order, used) ==
    LET g == Greedy(order, 0) IN [used |-> used + g.used, ts |-> g.ts]
Select(order, used) == Greedy(order, used)

\* Progressive disclosure: with enough list and search tools, only those.
Progressive(ts) ==
    IF Cardinality(ts) > ProgressiveMin /\ Cardinality(ts \cap Discovery) >= DiscoveryMin
    THEN ts \cap Discovery ELSE ts

\* What is always included is appended, never past a binding's own list.
Included(m, list) == (Always[m] \cap avail[m]) \cap (IF list = {} THEN Tool ELSE list)

\* Which tools are relevant, and their order, come from the ranks of
\* embeddings, words and the scoring service: any order of any subset.
Ranked(cand) == UNION {SetToSeqs(relevant) : relevant \in SUBSET cand}

\* If nothing was relevant, the candidates as they come, while the budget of
\* the call is not used up.
Fallback(sel, cand, used) ==
    IF sel.ts = {} /\ used < Budget
    THEN {Select(order, used) : order \in SetToSeqs(cand)} ELSE {sel}

\* The hook that discovers a server when routing first meets it.
LazyHook(x, m) ==
    /\ lock[m] = None
    /\ \/ /\ NeedsListing(m)
          /\ lock' = [lock EXCEPT ![m] = x]
          /\ Go(x, [sp[x] EXCEPT !.pc = "listing", !.cur = m, !.back = "route",
                                 !.lost = FALSE])
       \/ /\ Go(x, [sp[x] EXCEPT !.cur = m])
          /\ UNCHANGED lock

\* Route for one binding.
RouteOne(x, m) ==
    LET s    == sp[x]
        list == s.bind[m]
        cand == IF list = {} THEN avail[m] ELSE list \cap avail[m]
    IN
    /\ s.pc = "route" /\ m \in s.todo
    /\ s.cur = None \/ s.cur = m
    /\ IF Lazy /\ m \in Stdio /\ avail[m] = {} /\ s.cur # m
       THEN LazyHook(x, m)
       ELSE /\ \E order \in Ranked(cand) :
                \E got \in Fallback(Select(order, s.used), cand, s.used) :
                   LET out == (Progressive(got.ts) \ Privileged) \cup Included(m, list)
                   IN Go(x, [s EXCEPT !.todo = @ \ {m}, !.cur = None,
                             !.bind[m] = out, !.used = got.used,
                             !.emptied = IF out = {} THEN @ \cup {m} ELSE @])
            /\ UNCHANGED lock
    /\ UNCHANGED <<defs, avail, broken, off, renewals, approved, skillOK, admin>>

Routed(x) ==
    /\ sp[x].pc = "route" /\ sp[x].todo = {}
    /\ Go(x, [sp[x] EXCEPT !.pc = "mode"])
    /\ UNCHANGED <<registry, approved, skillOK, admin>>

\* tryDelegationMode: the host runs the step itself, or the model is offered
\* the servers.
tryDelegationMode(x) ==
    /\ sp[x].pc = "mode"
    /\ \E delegated \in BOOLEAN :
          Go(x, [sp[x] EXCEPT !.pc = IF delegated THEN "delegated" ELSE "build",
                              !.todo = IF delegated THEN {} ELSE sp[x].mounts])
    /\ UNCHANGED <<registry, approved, skillOK, admin>>

-----------------------------------------------------------------------------
(* Offering the servers and calling a tool.                                *)

\* buildMCPServers for one binding: discover once more if nothing is known
\* (a remote server for the first time), then offer what the binding shows.
BuildOne(x, m) ==
    LET s == sp[x] IN
    /\ s.pc = "build" /\ m \in s.todo /\ (s.cur = None \/ s.cur = m)
    /\ \/ /\ ~mcpActive(m)
          /\ Go(x, [s EXCEPT !.todo = @ \ {m}, !.cur = None]) /\ UNCHANGED lock
       \/ /\ mcpActive(m) /\ s.cur # m /\ lock[m] = None /\ NeedsListing(m)
          /\ lock' = [lock EXCEPT ![m] = x]
          /\ Go(x, [s EXCEPT !.pc = "listing", !.cur = m, !.back = "build", !.lost = FALSE])
       \/ /\ mcpActive(m) /\ lock[m] = None /\ (s.cur = m \/ ~Asks(m))
          /\ Go(x, [s EXCEPT !.todo = @ \ {m}, !.cur = None, !.held = {},
                             !.offered[m] = visibleTools(s.held \cup Known(m), s.bind[m])])
          /\ UNCHANGED lock
    /\ UNCHANGED <<defs, avail, broken, off, renewals, approved, skillOK, admin>>

Built(x) ==
    /\ sp[x].pc = "build" /\ sp[x].todo = {}
    /\ Go(x, [sp[x] EXCEPT !.pc = "call"])
    /\ UNCHANGED <<registry, approved, skillOK, admin>>

\* ResolveToolMCP, tier by tier.  Off servers are passed over throughout.
Unrestricted(x) == {m \in sp[x].mounts : sp[x].bind[m] = {} /\ mcpActive(m)}
Tier1(x, t) == {m \in Unrestricted(x) : t \in avail[m]}
Tier2(x, t) == {m \in sp[x].mounts \ Unrestricted(x) : mcpActive(m) /\ t \in sp[x].bind[m]}
Score(m) == (IF avail[m] # {} THEN 1 ELSE 0) + (IF Known(m) # {} THEN 1 ELSE 0)
            - (IF m \in broken THEN 10 ELSE 0)
Tier3(x) == {m \in Unrestricted(x) : /\ Score(m) >= 1
                                     /\ \A n \in Unrestricted(x) : Score(n) =< Score(m)}
Tier3First(x, t) == IF Tier3(x) # {} THEN Tier3(x) ELSE Tier1(x, t) \cup Tier2(x, t)
ResolveToolMCP(x, t) ==
    CASE Tier1(x, t) # {} -> Tier1(x, t)
      [] Tier1(x, t) = {} /\ Tier2(x, t) # {} -> Tier2(x, t)
      [] OTHER -> Tier3(x)

Call(x) ==
    /\ sp[x].pc = "call"
    /\ \/ /\ \A m \in MCP : sp[x].offered[m] = {}
          /\ Go(x, [sp[x] EXCEPT !.pc = "done"])
       \/ \E m \in MCP : \E t \in sp[x].offered[m] :
             LET to == ResolveToolMCP(x, t) IN
             \/ to = {} /\ Go(x, [sp[x] EXCEPT !.pc = "done", !.tool = t])
             \/ \E n \in to : Go(x, [sp[x] EXCEPT !.pc = "done", !.tool = t, !.target = n])
    /\ UNCHANGED <<registry, approved, skillOK, admin>>

-----------------------------------------------------------------------------
(* What happens around the spawns.                                         *)

\* ApproveMCPMounts and ApproveSkillMounts on the graph.
ApproveMounts(asked) ==
    /\ approved' = approved \cup (asked \ {None})
    /\ skillOK' = (skillOK \/ None \in asked)

\* The decision on an approval step: what it listed is approved on the graph
\* and the step runs again, or it is refused.
Decide(x) ==
    /\ sp[x].pc = "approval"
    /\ \/ /\ ApproveMounts(sp[x].asks)
          /\ Go(x, [NewSpawn EXCEPT !.pc = "check"])
       \/ /\ Go(x, [sp[x] EXCEPT !.pc = "failed"])
          /\ UNCHANGED <<approved, skillOK>>
    /\ UNCHANGED <<registry, admin>>

Offers(s) == s.pc \in {"build", "call"} \/ (s.pc = "listing" /\ s.back = "build")

\* A configuration reload puts fresh definitions in the registry, some of
\* them now marked Disabled.
Reload ==
    /\ renewals < MaxRenewals /\ renewals' = renewals + 1
    /\ defs' = [m \in MCP |-> [t \in Tool |-> 0]]
    /\ avail' = [m \in MCP |-> {}]
    /\ off' \in {{}} \cup {{m} : m \in MCP}
    /\ sp' = [x \in Spawn |-> [sp[x] EXCEPT
                 !.lost = sp[x].pc = "listing", !.moved = @ \/ Offers(sp[x])]]
    /\ UNCHANGED <<lock, broken, approved, skillOK, admin>>

Advance(x) ==
    \/ PlannerReady(x) \/ validateCapabilities(x) \/ resolveSkills(x)
    \/ \E m \in MCP : DiscoverBegin(x, m) \/ RouteOne(x, m) \/ BuildOne(x, m)
    \/ DiscoverEnd(x) \/ resolveMCPBindings(x) \/ Discovered(x)
    \/ Routed(x) \/ tryDelegationMode(x) \/ Built(x) \/ Call(x)

Next ==
    \/ \E x \in Spawn : Start(x) \/ ensureMCPDiscoveryForRole(x) \/ Advance(x) \/ Decide(x)
    \/ Reload

Spec == Init /\ [][Next]_vars /\ \A x \in Spawn : SF_vars(Advance(x))

-----------------------------------------------------------------------------
(* Properties.                                                             *)

\* However many spawns discover a server at once, and whatever is reloaded
\* meanwhile, each of its tools is listed once.
DiscoveredOnce == \A m \in MCP, t \in Tool : defs[m][t] =< 1

\* The routed tools of one spawn keep within the token ceiling of the whole
\* call, or there is a single one; what is always included comes on top.
RoutedWithinBudget ==
    \A x \in Spawn : sp[x].used > Budget =>
        \E t \in Tool : sp[x].used = Cost[t]

\* A server offered by a spawn that asked for it on top of its role was
\* allowed by its policy, or approved in the task's graph beforehand.
MountedAsApproved ==
    \A x \in Spawn : ~Manifest => \A m \in sp[x].mounts \ DOMAIN Bound : Allowed(m)

\* A step is never asked again for what was approved in its task, unless
\* another spawn's request was decided while this one waited.
AsksForNew ==
    \A x \in Spawn : sp[x].pc = "approval" /\ (\A y \in Spawn \ {x} : sp[y].pc = "idle")
        => sp[x].asks \cap (approved \cup IF skillOK THEN {None} ELSE {}) = {}

\* A restricted binding's list bounds what is offered, unless routing left
\* nothing of it, which the rest of the code reads as no restriction.
ListKept ==
    \A x \in Spawn : \A m \in sp[x].mounts \ sp[x].emptied :
        sp[x].full[m] # {} /\ ~admin => sp[x].offered[m] \subseteq sp[x].full[m] \cup Always[m]

\* A call goes to a server that offered the tool, when a local server offered
\* it and no reload came while the servers were offered or after.
RoutedToOffering ==
    \A x \in Spawn :
        LET s == sp[x] IN
        s.target # None /\ ~s.moved /\ (\E m \in Stdio : s.tool \in s.offered[m])
            => s.tool \in s.offered[s.target]

\* Every spawn that enters comes to an end: no two of them wait for each
\* other's discovery locks.
EntryEnds == \A x \in Spawn : (sp[x].pc = "check") ~> (sp[x].pc \in Ended)

\* As the comments on Route and its fall-back say, the token ceiling holds
\* across all bindings of a call: what the model is offered keeps within it.
BudgetNotBypassed ==
    \A x \in Spawn : sp[x].pc = "call" =>
        LET cost == MapThenSumSet(LAMBDA m : Spent(sp[x].offered[m] \ Always[m]), MCP)
        IN cost > Budget => \E t \in Tool : cost = Cost[t]

\* As ResolveToolMCP's comment says, it finds the server that owns the tool.
RoutedToOwner ==
    \A x \in Spawn : sp[x].target # None /\ ~sp[x].moved
        => sp[x].tool \in Serves[sp[x].target]
=============================================================================
