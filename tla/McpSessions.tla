--------------------------- MODULE McpSessions ---------------------------
(***************************************************************************)
(* Remote (HTTP) MCP servers: callRemoteMCPTool and the session cache of   *)
(* MCPConnectionManager (core/mcp_manager.go).  A key is a server and a    *)
(* tenant.  A session id is "sid", or "" when performRemoteMCPHandshake     *)
(* failed: the empty id is cached like any other.                          *)
(***************************************************************************)
EXTENDS Integers, FiniteSets

CONSTANTS
  Caller,       \* concurrent calls
  Key,          \* (server, tenant) pairs of one server: they share its lock
  MaxCache      \* maxMCPCacheSize

VARIABLES
  sessionCache, \* remoteSessionCache: session of a key, or Absent
  lock,         \* handshakeLocks entry of the server: its holder, or None
  remote        \* [at, key, attempt, sid] of each call

sessionVars == <<sessionCache, lock, remote>>

Absent == "absent"
Session == {"sid", ""}
None == "none"
Idle == [at |-> "idle", key |-> None, attempt |-> 0, sid |-> ""]

TypeOK ==
  /\ sessionCache \in [Key -> Session \cup {Absent}]
  /\ lock \in Caller \cup {None}
  /\ remote \in [Caller -> [at : {"idle", "peek", "lock", "handshake", "put", "send"},
                            key : Key \cup {None}, attempt : 0..1,
                            sid : Session]]

Init ==
  /\ sessionCache = [k \in Key |-> Absent]
  /\ lock = None
  /\ remote = [c \in Caller |-> Idle]

Cached(k) == sessionCache[k] # Absent

\* delete(remoteSessionCache, k) for every key of the set
Remove(keys) ==
  sessionCache' = [k \in Key |-> IF k \in keys THEN Absent ELSE sessionCache[k]]

\* callRemoteMCPTool, or discoverRemoteMCPTools, which does not try again;
\* arguments and URL are good.
Call(c) ==
  /\ remote[c].at = "idle"
  /\ \E k \in Key, attempt \in 0..1 :
       remote' = [remote EXCEPT ![c] =
                    [Idle EXCEPT !.at = "peek", !.key = k, !.attempt = attempt]]
  /\ UNCHANGED <<sessionCache, lock>>

\* ensureRemoteMCPSession: the check before the per-server lock ...
Peek(c) ==
  LET k == remote[c].key
  IN /\ remote[c].at = "peek"
     /\ remote' = [remote EXCEPT ![c] =
                     IF Cached(k) THEN [@ EXCEPT !.at = "send", !.sid = sessionCache[k]]
                     ELSE [@ EXCEPT !.at = "lock"]]
     /\ UNCHANGED <<sessionCache, lock>>

\* Mutation: no second look at the cache under the lock.
LockAndHandshake(c) ==
  /\ remote[c].at = "lock"
  /\ lock = None
  /\ lock' = c
  /\ remote' = [remote EXCEPT ![c].at = "handshake"]
  /\ UNCHANGED sessionCache

\* ... and the one under it.
DoubleCheck(c) ==
  LET k == remote[c].key
  IN /\ remote[c].at = "lock"
     /\ lock = None
     /\ IF Cached(k)
        THEN /\ remote' = [remote EXCEPT ![c].at = "send", ![c].sid = sessionCache[k]]
             /\ UNCHANGED lock
        ELSE /\ lock' = c
             /\ remote' = [remote EXCEPT ![c].at = "handshake"]
     /\ UNCHANGED sessionCache

performRemoteMCPHandshake(c) ==
  /\ remote[c].at = "handshake"
  /\ \E sid \in Session : remote' = [remote EXCEPT ![c].at = "put", ![c].sid = sid]
  /\ UNCHANGED <<sessionCache, lock>>

\* Store the session; an arbitrary entry leaves a full cache.
PutSession(c) ==
  LET k == remote[c].key
      full == {x \in Key : Cached(x)}
      victims == IF Cardinality(full) >= MaxCache THEN full ELSE {k}
  IN /\ remote[c].at = "put"
     /\ \E victim \in victims :
          LET out == IF Cardinality(full) >= MaxCache THEN {victim} ELSE {}
          IN sessionCache' = [x \in Key |-> CASE x = k -> remote[c].sid
                                              [] x # k /\ x \in out -> Absent
                                              [] OTHER -> sessionCache[x]]
     /\ lock' = None
     /\ remote' = [remote EXCEPT ![c].at = "send"]

\* The request is answered, successfully or not.
Answered(c) ==
  /\ remote[c].at = "send"
  /\ remote' = [remote EXCEPT ![c] = Idle]
  /\ UNCHANGED <<sessionCache, lock>>

\* 401 on the first attempt: forget the key's session and the credential, and
\* try once more.
Unauthorized(c) ==
  /\ remote[c].at = "send"
  /\ IF remote[c].attempt = 0
     THEN /\ Remove({remote[c].key})
          /\ remote' = [remote EXCEPT ![c].at = "peek", ![c].attempt = 1]
     ELSE /\ remote' = [remote EXCEPT ![c] = Idle]
          /\ UNCHANGED sessionCache
  /\ UNCHANGED lock

\* Configuration reload.
InvalidateSessionCache ==
  /\ Remove(Key)
  /\ UNCHANGED <<lock, remote>>

Next ==
  \/ \E c \in Caller :
       \/ Call(c) \/ Peek(c) \/ DoubleCheck(c) \/ performRemoteMCPHandshake(c)
       \/ PutSession(c) \/ Answered(c) \/ Unauthorized(c)
  \/ InvalidateSessionCache

(***************************************************************************)
(* Property.                                                               *)
(***************************************************************************)
\* Concurrent first accesses do not repeat the handshake ("doesn't trigger N
\* duplicate handshakes"): while a call shakes hands for a key, nobody else
\* does, and no session for it is cached that the call could have used.
HandshakeOnce ==
  \A c \in Caller :
    remote[c].at \in {"handshake", "put"} =>
      /\ ~Cached(remote[c].key)
      /\ \A d \in Caller \ {c} : remote[d].at \notin {"handshake", "put"}
=============================================================================
