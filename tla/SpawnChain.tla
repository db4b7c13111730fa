----------------------------- MODULE SpawnChain -----------------------------
(***************************************************************************)
(* The interceptors every spawn passes before and after its agent runs     *)
(* (interceptor.go, builtin_interceptors.go, external_interceptor.go,      *)
(* anti_slop.go, audit_interceptor.go), and the generation of a role that  *)
(* a request names and nobody has defined (role_generator.go).             *)
(*                                                                         *)
(* Spawns run side by side and share the registry's roles; the spawns of   *)
(* one task share its session roles.  A request without a graph is one of  *)
(* the engine's own (a decider, a planner): it carries no hub.             *)
(***************************************************************************)
EXTENDS Naturals, FiniteSets

CONSTANTS
  Spawn, Graph, MCP,
  Configured,    \* roles of the configuration
  Earlier,       \* roles generated and persisted by earlier runs
  Asked,         \* role ids a request may carry, "" among them
  Desc,          \* task descriptions, "" among them
  Slug,          \* ids the name that a model invents may come down to
  Bound,         \* MCPs a configured role is bound to
  Installed,     \* MCPs whose command is on the path at the start
  Settings,      \* <<ephemeral generation, dynamic generation, auto repair, anti slop>>
  MaxDynamic     \* generated roles the registry keeps

VARIABLES
  ephemeral, dynamic, repair, slop,     \* configuration
  roles,         \* registry.Roles
  session,       \* the session roles of each graph
  installed,     \* MCPs whose command is on the path
  clock,         \* generations so far, the order of generated_at
  pc, req,       \* each spawn: where it is, its request as the chain rewrote it
  asked,         \* the role id it came with
  target,        \* the role its CleanupExpiredRoles found the oldest
  made,          \* the id of the role generated for it
  degraded,      \* MCPs its health check took out
  mounted,       \* MCPs its agent was given
  result,        \* what the chain returned
  subs,          \* substitutions recorded in the graphs
  pruned,        \* roles the clean-up removed
  nameless,      \* spawns let through under an id the generator did not use
  overlapped     \* two generations for one description ran side by side

conf == <<ephemeral, dynamic, repair, slop>>
shared == <<roles, session, installed, clock, subs>>
local == <<pc, req, asked, target, made, degraded, mounted, result>>
ghost == <<pruned, nameless, overlapped>>
vars == <<conf, shared, local, ghost>>

Default == "orchestrator_default"
RoleId == (Configured \cup Earlier \cup Asked \cup Slug \cup {Default, "role_hash"}) \ {""}
Absent == [hash |-> "absent", born |-> 0]
BindsOf(r) == IF r \in Configured THEN Bound ELSE {}

Request == [role : Asked \cup RoleId, task : Desc \cup {"edited"}, graph : Graph \cup {""},
            extra : SUBSET MCP]
NoRequest == [role |-> "", task |-> "", graph |-> "", extra |-> {}]

Init ==
    /\ \E c \in Settings : ephemeral = c[1] /\ dynamic = c[2] /\ repair = c[3] /\ slop = c[4]
    /\ \E order \in [Earlier -> 1..Cardinality(Earlier)] :
          /\ \A a, b \in Earlier : a # b => order[a] # order[b]
          /\ roles = [r \in RoleId |->
                        IF r \in Configured THEN [hash |-> "configured", born |-> 0]
                        ELSE IF r \in Earlier THEN [hash |-> r, born |-> order[r]] ELSE Absent]
    /\ session = [g \in Graph |-> {}]
    /\ installed = Installed
    /\ clock = Cardinality(Earlier)
    /\ pc = [s \in Spawn |-> "idle"]
    /\ req = [s \in Spawn |-> NoRequest]
    /\ asked = [s \in Spawn |-> ""]
    /\ target = [s \in Spawn |-> ""]
    /\ made = [s \in Spawn |-> ""]
    /\ degraded = [s \in Spawn |-> {}]
    /\ mounted = [s \in Spawn |-> {}]
    /\ result = [s \in Spawn |-> "none"]
    /\ subs = {}
    /\ pruned = {} /\ nameless = {} /\ overlapped = FALSE

Goto(s, place) == pc' = [pc EXCEPT ![s] = place]

\* The spawn returns r to its caller, and nothing of it is left.
Returns(s, r) ==
    /\ Goto(s, "done")
    /\ result' = [result EXCEPT ![s] = r]
    /\ req' = [req EXCEPT ![s] = NoRequest]
    /\ asked' = [asked EXCEPT ![s] = ""]
    /\ made' = [made EXCEPT ![s] = ""]
    /\ degraded' = [degraded EXCEPT ![s] = {}]
    /\ mounted' = [mounted EXCEPT ![s] = {}]
    /\ UNCHANGED target

\* ContextHub.GetRole: the session's roles before the registry's; an empty
\* id names nothing.
GetRole(q) == IF q.role = "" THEN FALSE
              ELSE \/ q.graph # "" /\ q.role \in session[q.graph]
                   \/ roles[q.role] # Absent

----------------------------------------------------------------------------
(* On the way in.                                                           *)

\* Mutant: the request keeps what the health check took out.
NotFiltered(extra, gone) == extra

Filtered(extra, gone) == extra \ gone

\* AuditInterceptor notes the entry; HealthCheckInterceptor looks for the
\* commands of the MCPs of a registered role and of the request, repairs
\* what a script can repair, and takes the rest out of the request.
HealthCheck(s) ==
    \E q \in Request :
       /\ pc[s] = "idle" /\ q.role \in Asked /\ q.task \in Desc
       /\ LET known == q.role # "" /\ roles[q.role] # Absent
              missing == IF known THEN (BindsOf(q.role) \cup q.extra) \ installed ELSE {}
          IN \E fixed \in (IF repair THEN SUBSET missing ELSE {{}}) :
                /\ installed' = installed \cup fixed
                /\ degraded' = [degraded EXCEPT ![s] = missing \ fixed]
                /\ req' = [req EXCEPT ![s] = [q EXCEPT !.extra = Filtered(@, missing \ fixed)]]
                /\ subs' = IF q.graph = "" THEN subs
                           ELSE subs \cup {<<s, "mcp_degraded", m>> : m \in missing \ fixed}
       /\ asked' = [asked EXCEPT ![s] = q.role]
       /\ Goto(s, "resolve")
       /\ UNCHANGED <<conf, roles, session, clock, target, made, mounted, result, ghost>>

\* The role an earlier generation made for the same description.
SameHash(s) == {r \in RoleId : roles[r] # Absent /\ roles[r].hash = req[s].task}

\* LogInterceptor: a role that exists goes on; one that does not is
\* generated for the task alone, for everyone, or replaced by the default.
Exists(s) ==
    /\ pc[s] = "resolve" /\ GetRole(req[s])
    /\ Goto(s, "chain")
    /\ UNCHANGED <<conf, shared, req, asked, target, made, degraded, mounted, result, ghost>>

NothingAsked(s) ==
    /\ pc[s] = "resolve" /\ req[s].role = "" /\ req[s].task = ""
    /\ Returns(s, "error")
    /\ UNCHANGED <<conf, shared, ghost>>

Missing(s) == pc[s] = "resolve" /\ ~GetRole(req[s]) /\ (req[s].role # "" \/ req[s].task # "")

Ephemeral(s) == ephemeral /\ req[s].graph # ""

StartEphemeral(s) ==
    /\ Missing(s) /\ Ephemeral(s)
    /\ Goto(s, "generate")
    /\ UNCHANGED <<conf, shared, req, asked, target, made, degraded, mounted, result, ghost>>

\* Mutant: reuse whatever is asked.
NoReuse(s) == {}

Reusable(s) == SameHash(s)

\* GetOrCreateRole, the check: a role made for the same description stands
\* in.  The request keeps the id it came with.
Reuse(s) ==
    /\ Missing(s) /\ ~Ephemeral(s) /\ dynamic /\ Reusable(s) # {}
    /\ Goto(s, "chain")
    /\ nameless' = nameless \cup {s}
    /\ UNCHANGED <<conf, shared, req, asked, target, made, degraded, mounted, result, pruned,
                   overlapped>>

Generating(s) == pc[s] \in {"prune", "generate", "commit"}

Dynamic == {r \in RoleId : roles[r] # Absent /\ roles[r].born > 0}

\* CleanupExpiredRoles lists the generated roles and picks the oldest ...
StartDynamic(s) ==
    /\ Missing(s) /\ ~Ephemeral(s) /\ dynamic /\ Reusable(s) = {}
    /\ IF Cardinality(Dynamic) > MaxDynamic
       THEN /\ \E r \in Dynamic : /\ \A d \in Dynamic : roles[r].born <= roles[d].born
                                  /\ target' = [target EXCEPT ![s] = r]
            /\ Goto(s, "prune")
       ELSE Goto(s, "generate") /\ UNCHANGED target
    /\ overlapped' = (overlapped \/ \E t \in Spawn \ {s} : Generating(t) /\ ~Ephemeral(t)
                                                           /\ req[t].task = req[s].task)
    /\ UNCHANGED <<conf, shared, req, asked, made, degraded, mounted, result, pruned, nameless>>

\* ... and removes it in a commit of its own.
CleanupExpiredRoles(s) ==
    /\ pc[s] = "prune"
    /\ roles' = [roles EXCEPT ![target[s]] = Absent]
    /\ pruned' = pruned \cup {target[s]}
    /\ target' = [target EXCEPT ![s] = ""]
    /\ Goto(s, "generate")
    /\ UNCHANGED <<conf, session, installed, clock, subs, req, asked, made, degraded, mounted,
                   result, nameless, overlapped>>

\* slugifyID: the name the model gave, or a hash when nothing is left of it.
slugifyID == Slug \cup {"role_hash"}

\* GenerateRoleObjects: provider, cookbook and model answered, and the
\* answer could be read.  The id asked for is kept.
GenerateRoleObjects(s) ==
    /\ pc[s] = "generate"
    /\ \E id \in IF req[s].role # "" THEN {req[s].role} ELSE slugifyID :
          made' = [made EXCEPT ![s] = id]
    /\ Goto(s, "commit")
    /\ UNCHANGED <<conf, shared, req, asked, target, degraded, mounted, result, ghost>>

\* The ephemeral role goes into the graph, under the id the request carries
\* from here on.
SetSessionRole(s) ==
    /\ pc[s] = "commit" /\ Ephemeral(s)
    /\ req' = [req EXCEPT ![s].role = made[s]]
    /\ session' = [session EXCEPT ![req[s].graph] = @ \cup {made[s]}]
    /\ subs' = subs \cup {<<s, "ephemeral_role", made[s]>>}
    /\ Goto(s, "chain")
    /\ UNCHANGED <<conf, roles, installed, clock, asked, target, made, degraded, mounted, result,
                   ghost>>

\* GenerateRole adds the role to the registry for every task; what it
\* returns is dropped.
GenerateRole(s) ==
    /\ pc[s] = "commit" /\ ~Ephemeral(s)
    /\ clock' = clock + 1
    /\ roles' = [roles EXCEPT ![made[s]] = [hash |-> req[s].task, born |-> clock + 1]]
    /\ nameless' = IF made[s] = req[s].role THEN nameless ELSE nameless \cup {s}
    /\ Goto(s, "chain")
    /\ UNCHANGED <<conf, session, installed, subs, req, asked, target, made, degraded, mounted,
                   result, pruned, overlapped>>

\* Mutant: the fallback leaves no trace in the graph.
FallbackSilent(s) == subs

FallbackTold(s) == subs \cup {<<s, "role_fallback", Default>>}

\* tryDefaultRoleFallback, when generation failed or is switched off.
tryDefaultRoleFallback(s) ==
    IF roles[Default] # Absent
    THEN /\ req' = [req EXCEPT ![s].role = Default]
         /\ session' = IF req[s].graph = "" THEN session
                       ELSE [session EXCEPT ![req[s].graph] = @ \cup {Default}]
         /\ subs' = IF req[s].graph = "" THEN subs ELSE FallbackTold(s)
         /\ Goto(s, "chain")
         /\ UNCHANGED <<asked, target, made, degraded, mounted, result>>
    ELSE Returns(s, "error") /\ UNCHANGED <<session, subs>>

GenerationFails(s) ==
    /\ pc[s] = "generate"
    /\ tryDefaultRoleFallback(s)
    /\ UNCHANGED <<conf, roles, installed, clock, ghost>>

NoGeneration(s) ==
    /\ Missing(s) /\ ~Ephemeral(s) /\ ~dynamic
    /\ tryDefaultRoleFallback(s)
    /\ UNCHANGED <<conf, roles, installed, clock, ghost>>

\* The configured scripts, innermost.  One that fails, times out, was
\* changed since it was configured or has no runtime is passed over; one
\* that works may change the task, and no script changes the role.
Intercept(s) ==
    /\ pc[s] = "chain"
    /\ \E t \in {req[s].task, "edited"} : req' = [req EXCEPT ![s].task = t]
    /\ Goto(s, "prepare")
    /\ UNCHANGED <<conf, shared, asked, target, made, degraded, mounted, result, ghost>>

----------------------------------------------------------------------------
(* The agent, and the way out.                                              *)

\* prepareSpawn looks the role up again, through a hub made on the spot for
\* a request without one.
Prepare(s) ==
    /\ pc[s] = "prepare" /\ GetRole(req[s])
    /\ mounted' = [mounted EXCEPT ![s] = BindsOf(req[s].role) \cup req[s].extra]
    /\ Goto(s, "run")
    /\ UNCHANGED <<conf, shared, req, asked, target, made, degraded, result, ghost>>

RoleNotFound(s) ==
    /\ pc[s] = "prepare" /\ ~GetRole(req[s])
    /\ Returns(s, "error")
    /\ UNCHANGED <<conf, shared, ghost>>

\* AntiSlopInterceptor: filler above the threshold is an error in strict
\* mode and a warning otherwise.
ScanOutput(filler) ==
    CASE slop = "off" \/ ~filler -> "clean"
      [] slop = "strict" -> "block"
      [] OTHER -> "warn"

\* The answer passes AntiSlop, Log and Audit on its way out.
Answer(s) ==
    /\ pc[s] = "run"
    /\ \E filler \in BOOLEAN :
          Returns(s, CASE ScanOutput(filler) = "clean" -> "ok"
                       [] ScanOutput(filler) = "warn" -> "warned"
                       [] OTHER -> "error")
    /\ UNCHANGED <<conf, shared, ghost>>

AgentFails(s) ==
    /\ pc[s] = "run"
    /\ Returns(s, "error")
    /\ UNCHANGED <<conf, shared, ghost>>

Step(s) ==
    \/ HealthCheck(s) \/ Exists(s) \/ NothingAsked(s)
    \/ StartEphemeral(s) \/ SetSessionRole(s)
    \/ Reuse(s) \/ StartDynamic(s) \/ CleanupExpiredRoles(s) \/ GenerateRole(s)
    \/ GenerateRoleObjects(s) \/ GenerationFails(s) \/ NoGeneration(s)
    \/ Intercept(s) \/ Prepare(s) \/ RoleNotFound(s) \/ Answer(s) \/ AgentFails(s)

Next == \E s \in Spawn : Step(s)

Spec == Init /\ [][Next]_vars

----------------------------------------------------------------------------
(* Properties.                                                              *)

TypeOK ==
    /\ roles \in [RoleId -> [hash : Desc \cup Earlier \cup {"configured", "absent"}, born : Nat]]
    /\ session \in [Graph -> SUBSET RoleId]
    /\ req \in [Spawn -> Request]
    /\ \A s \in Spawn : /\ result[s] \in {"none", "ok", "warned", "error"}
                        /\ result[s] # "none" <=> pc[s] = "done"
                        /\ pc[s] = "prune" => target[s] \in RoleId
                        /\ pc[s] = "commit" => made[s] \in RoleId

\* A spawn that role resolution let through finds its role when the agent is
\* prepared, however long the interceptors in between take, unless a
\* clean-up of another spawn removed the role or the generator used an id of
\* its own.
RoleHeld ==
    \A s \in Spawn : pc[s] \in {"chain", "prepare"} =>
       GetRole(req[s]) \/ req[s].role \in pruned \/ s \in nameless

\* Without two generations for one description side by side, a description
\* has at most one generated role.
ReusedByHash ==
    ~overlapped => \A a, b \in Dynamic : a # b => roles[a].hash # roles[b].hash

\* A step of a task that runs under another role than it asked for leaves a
\* record of the substitution in the graph.
SubstitutionTold ==
    \A s \in Spawn :
       pc[s] \in {"chain", "prepare", "run"} /\ req[s].graph # "" /\ req[s].role # asked[s] =>
          \E x \in subs : x[1] = s /\ x[3] = req[s].role

\* An MCP that the request added and the health check took out is started
\* only if the role itself is bound to it.
SkippedExtras ==
    \A s \in Spawn : mounted[s] \cap degraded[s] \subseteq BindsOf(req[s].role)

\* A spawn that was let through is never refused for want of a role.
PassedHasRole == \A s \in Spawn : pc[s] = "prepare" => GetRole(req[s])

\* What the health check took out is not started.
DegradedNotStarted == \A s \in Spawn : mounted[s] \cap degraded[s] = {}

\* The clean-up takes a role only when enough younger ones stay.
KeepsRecent ==
    [][\A r \in Dynamic : roles'[r] = Absent =>
          Cardinality({d \in Dynamic : roles[d].born > roles[r].born}) >= MaxDynamic]_vars

\* A role of the configuration is not replaced by a generated one.
ConfiguredKept == \A r \in Configured : roles[r].born = 0
=============================================================================
