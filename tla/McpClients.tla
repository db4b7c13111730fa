---------------------------- MODULE McpClients ----------------------------
(***************************************************************************)
(* The stdio clients of MCPConnectionManager (core/mcp_manager.go) and the *)
(* subprocess behind each of them (client/client.go).  Callers (tool calls *)
(* and discoveries of parallel steps) ask ensureMCPClient for a server's   *)
(* client, send a request and reconnect once when the connection broke.    *)
(* The manager's mutex is not held while a process is started, initialized *)
(* or used, so every step below is one critical section or one operation   *)
(* outside it.                                                             *)
(***************************************************************************)
EXTENDS Integers, FiniteSets

CONSTANTS
  Caller,      \* goroutines calling tools
  Server,      \* configured stdio MCP servers
  MaxCache,    \* maxMCPCacheSize
  MaxClients,  \* bound on the subprocesses ever started
  MaxBreaks,   \* bound on the processes and pipes breaking by themselves
  PatternKill  \* FALSE when the flag DisablePatternKill is set

VARIABLES
  clients,     \* MCPClient by number: [server, proc, reader, ready]
  started,     \* clients started so far
  processCache,\* number of the cached client of a server, 0 if none
  failed,      \* mcpSpawnFailures: servers in the ledger
  handshake,   \* handshakeLocks: the caller holding a server's lock, or None
  callers,     \* [at, server, cli, retried] of each caller
  breaks,      \* processes that died or closed their pipe by themselves
  closed       \* CloseAll has run: the program is shutting down

mcpVars == <<clients, started, processCache, failed, handshake, callers, breaks,
             closed>>

None == "none"
Client == 1..MaxClients
Unused == [server |-> None, proc |-> "gone", reader |-> "dead", ready |-> FALSE]
Idle == [at |-> "idle", server |-> None, cli |-> 0, retried |-> FALSE]

TypeOK ==
  /\ clients \in [Client -> [server : Server \cup {None},
                             proc : {"running", "gone"},
                             reader : {"running", "dead"},
                             ready : BOOLEAN]]
  /\ started \in 0..MaxClients
  /\ processCache \in [Server -> 0..MaxClients]
  /\ failed \subseteq Server
  /\ handshake \in [Server -> Caller \cup {None}]
  /\ callers \in [Caller -> [at : {"idle", "sweep", "start", "store", "handshake",
                                   "initialize", "close", "use", "broken", "again"},
                             server : Server \cup {None},
                             cli : 0..MaxClients,
                             retried : BOOLEAN]]
  /\ breaks \in 0..MaxBreaks
  /\ closed \in BOOLEAN

Init ==
  /\ clients = [n \in Client |-> Unused]
  /\ started = 0
  /\ processCache = [s \in Server |-> 0]
  /\ failed = {}
  /\ handshake = [s \in Server |-> None]
  /\ callers = [c \in Caller |-> Idle]
  /\ breaks = 0
  /\ closed = FALSE

IsDead(n) == clients[n].reader = "dead"
LiveClient(n) == n # 0 /\ clients[n].reader = "running"

\* Close: kill the process tree, reap it and wait for the reader.
Closed(n) == [n EXCEPT !.proc = "gone", !.reader = "dead"]
Close(n) == [clients EXCEPT ![n] = Closed(@)]

Goto(c, at) == callers' = [callers EXCEPT ![c].at = at]

(***************************************************************************)
(* ensureMCPClient.                                                        *)
(***************************************************************************)
\* The cache lookup.  A dead client is only dropped from the cache.
Lookup(s) ==
  IF LiveClient(processCache[s])
  THEN [at |-> "handshake", cli |-> processCache[s], cache |-> processCache]
  ELSE [at |-> "sweep", cli |-> 0, cache |-> [processCache EXCEPT ![s] = 0]]

Ensure(c) ==
  /\ callers[c].at \in {"idle", "again"}
  /\ callers[c].at = "idle" => ~closed
  /\ \E s \in IF callers[c].at = "idle" THEN Server ELSE {callers[c].server} :
       LET found == Lookup(s)
       IN /\ processCache' = found.cache
          /\ callers' = [callers EXCEPT ![c] =
                           [@ EXCEPT !.at = found.at, !.server = s, !.cli = found.cli]]
  /\ UNCHANGED <<clients, started, failed, handshake, breaks, closed>>

\* Orphan cleanup before the start: every process with the server's command
\* line is killed, the client of a concurrent caller too.
Sweep(c) ==
  LET s == callers[c].server
  IN /\ callers[c].at = "sweep"
     /\ clients' = [n \in Client |->
                      IF PatternKill /\ clients[n].server = s
                      THEN [clients[n] EXCEPT !.proc = "gone"] ELSE clients[n]]
     /\ Goto(c, "start")
     /\ UNCHANGED <<started, processCache, failed, handshake, breaks, closed>>

NewMCPClient(c) ==
  /\ callers[c].at = "start"
  /\ started < MaxClients
  /\ started' = started + 1
  /\ clients' = [clients EXCEPT ![started'] =
                   [server |-> callers[c].server, proc |-> "running",
                    reader |-> "running", ready |-> FALSE]]
  /\ callers' = [callers EXCEPT ![c].at = "store", ![c].cli = started']
  /\ UNCHANGED <<processCache, failed, handshake, breaks, closed>>

StartFails(c) ==
  /\ callers[c].at = "start"
  /\ failed' = failed \cup {callers[c].server}
  /\ callers' = [callers EXCEPT ![c] = Idle]
  /\ UNCHANGED <<clients, started, processCache, handshake, breaks, closed>>

Cached == {s \in Server : processCache[s] # 0}

\* Mutation: the new client replaces whatever was stored meanwhile.
StoreBlindly(c) ==
  LET s == callers[c].server
  IN /\ callers[c].at = "store"
     /\ processCache' = [processCache EXCEPT ![s] = callers[c].cli]
     /\ Goto(c, "handshake")
     /\ UNCHANGED <<clients, started, failed, handshake, breaks, closed>>

\* Back under the lock: another caller's live client wins; otherwise store
\* the new one, evicting an arbitrary client from a full cache.
Store(c) ==
  LET s == callers[c].server
      old == processCache[s]
      new == callers[c].cli
  IN /\ callers[c].at = "store"
     /\ \/ /\ LiveClient(old)
           /\ clients' = Close(new)
           /\ callers' = [callers EXCEPT ![c].at = "handshake", ![c].cli = old]
           /\ UNCHANGED processCache
        \/ /\ ~LiveClient(old)
           /\ Cardinality(Cached) < MaxCache
           /\ processCache' = [processCache EXCEPT ![s] = new]
           /\ Goto(c, "handshake")
           /\ UNCHANGED clients
        \/ /\ ~LiveClient(old)
           /\ Cardinality(Cached) >= MaxCache
           /\ \E victim \in Cached :
                /\ clients' = Close(processCache[victim])
                /\ processCache' = [processCache EXCEPT ![victim] = 0, ![s] = new]
           /\ Goto(c, "handshake")
     /\ UNCHANGED <<started, failed, handshake, breaks, closed>>

LockHandshake(c) ==
  LET s == callers[c].server
  IN /\ callers[c].at = "handshake"
     /\ handshake[s] = None
     /\ IF clients[callers[c].cli].ready
        THEN Goto(c, "use") /\ UNCHANGED handshake
        ELSE /\ handshake' = [handshake EXCEPT ![s] = c]
             /\ Goto(c, "initialize")
     /\ UNCHANGED <<clients, started, processCache, failed, breaks, closed>>

Initialized(c) ==
  LET n == callers[c].cli
  IN /\ callers[c].at = "initialize"
     /\ clients[n].proc = "running" /\ ~IsDead(n)
     /\ clients' = [clients EXCEPT ![n].ready = TRUE]
     /\ handshake' = [handshake EXCEPT ![callers[c].server] = None]
     /\ Goto(c, "use")
     /\ UNCHANGED <<started, processCache, failed, breaks, closed>>

\* Timeout, error answer or a dead process: out of the cache if it is still
\* the cached one, then into the ledger, then closed.
InitializeFails(c) ==
  LET s == callers[c].server
  IN /\ callers[c].at = "initialize"
     /\ processCache' = IF processCache[s] = callers[c].cli
                        THEN [processCache EXCEPT ![s] = 0] ELSE processCache
     /\ failed' = failed \cup {s}
     /\ Goto(c, "close")
     /\ UNCHANGED <<clients, started, handshake, breaks, closed>>

CloseFailed(c) ==
  /\ callers[c].at = "close"
  /\ clients' = Close(callers[c].cli)
  /\ handshake' = [handshake EXCEPT ![callers[c].server] = None]
  /\ callers' = [callers EXCEPT ![c] = Idle]
  /\ UNCHANGED <<started, processCache, failed, breaks, closed>>

(***************************************************************************)
(* SendRequest, and the reconnect of processToolCalls.                     *)
(***************************************************************************)
\* An answer, an error answer or a timeout ends the call; an answer takes the
\* server off the ledger (clearMCPSpawnFailed, after a discovery).
Answered(c) ==
  LET n == callers[c].cli
  IN /\ callers[c].at = "use"
     /\ clients[n].proc = "running" /\ ~IsDead(n)
     /\ \/ failed' = failed \ {callers[c].server}
        \/ UNCHANGED failed
     /\ callers' = [callers EXCEPT ![c] = Idle]
     /\ UNCHANGED <<clients, started, processCache, handshake, breaks, closed>>

\* The reader found the pipe closed: IsConnectionError.
ConnectionBroke(c) ==
  /\ callers[c].at = "use"
  /\ IsDead(callers[c].cli)
  /\ IF callers[c].retried
     THEN callers' = [callers EXCEPT ![c] = Idle]
     ELSE Goto(c, "broken")
  /\ UNCHANGED <<clients, started, processCache, failed, handshake, breaks, closed>>

\* EvictClient closes whatever is cached for the server now; then the second
\* and last attempt looks the server up again (Ensure).
EvictClient(c) ==
  LET s == callers[c].server
  IN /\ callers[c].at = "broken"
     /\ clients' = IF processCache[s] = 0 THEN clients ELSE Close(processCache[s])
     /\ processCache' = [processCache EXCEPT ![s] = 0]
     /\ callers' = [callers EXCEPT ![c] =
                      [at |-> "again", server |-> s, cli |-> 0, retried |-> TRUE]]
     /\ UNCHANGED <<started, failed, handshake, breaks, closed>>

(***************************************************************************)
(* Processes, the ledger's time limit, shutdown.                           *)
(***************************************************************************)
ProcessDies(n) ==
  /\ clients[n].proc = "running"
  /\ breaks < MaxBreaks
  /\ breaks' = breaks + 1
  /\ clients' = [clients EXCEPT ![n].proc = "gone"]
  /\ UNCHANGED <<started, processCache, failed, handshake, callers, closed>>

\* The server closes its stdout and keeps running.
PipeCloses(n) ==
  /\ clients[n].proc = "running"
  /\ ~IsDead(n)
  /\ breaks < MaxBreaks
  /\ breaks' = breaks + 1
  /\ clients' = [clients EXCEPT ![n].reader = "dead"]
  /\ UNCHANGED <<started, processCache, failed, handshake, callers, closed>>

\* readLoop sees the end of a dead process's output, wakes every waiter.
readLoopEnds(n) ==
  /\ clients[n].proc = "gone"
  /\ ~IsDead(n)
  /\ clients' = [clients EXCEPT ![n].reader = "dead"]
  /\ UNCHANGED <<started, processCache, failed, handshake, callers, breaks, closed>>

\* hasMCPSpawnFailed drops an entry older than mcpSpawnFailureTTL.
LedgerExpires(s) ==
  /\ s \in failed
  /\ failed' = failed \ {s}
  /\ UNCHANGED <<clients, started, processCache, handshake, callers, breaks, closed>>

CloseAll ==
  /\ ~closed
  /\ closed' = TRUE
  /\ clients' = [n \in Client |->
                   IF \E s \in Server : processCache[s] = n
                   THEN Closed(clients[n]) ELSE clients[n]]
  /\ processCache' = [s \in Server |-> 0]
  /\ UNCHANGED <<started, failed, handshake, callers, breaks>>

Next ==
  \/ \E c \in Caller :
       \/ Ensure(c) \/ Sweep(c) \/ NewMCPClient(c) \/ StartFails(c) \/ Store(c)
       \/ LockHandshake(c) \/ Initialized(c) \/ InitializeFails(c) \/ CloseFailed(c)
       \/ Answered(c) \/ ConnectionBroke(c) \/ EvictClient(c)
  \/ \E n \in Client : ProcessDies(n) \/ PipeCloses(n) \/ readLoopEnds(n)
  \/ \E s \in Server : LedgerExpires(s)
  \/ CloseAll

(***************************************************************************)
(* Properties.                                                             *)
(***************************************************************************)
\* No subprocess is lost: one that runs with its pipe open is in the cache, or
\* a caller is about to store it or to close it.  However the callers race to
\* start, evict and fail the clients of a server, CloseAll and EvictClient can
\* reach every process except those that closed their own stdout.
NoOrphan ==
  \A n \in Client :
    clients[n].proc = "running" /\ ~IsDead(n) =>
      \/ \E s \in Server : processCache[s] = n
      \/ \E c \in Caller : callers[c].cli = n /\ callers[c].at \in {"store", "close"}

\* A client is initialized by one caller at a time and is never used before:
\* C-7's handshake lock.
UsedInitialized ==
  \A c \in Caller :
    /\ callers[c].at = "use" => clients[callers[c].cli].ready
    /\ callers[c].at \in {"initialize", "close"} =>
         handshake[callers[c].server] = c

\* "CloseAll closes every cached MCP subprocess client. Call on shutdown to
\* prevent orphaned subprocesses": once it has run, no server runs on.
ClosedForGood ==
  closed => \A n \in Client : clients[n].proc = "gone"
=============================================================================
