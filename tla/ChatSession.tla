---------------------------- MODULE ChatSession ----------------------------
(***************************************************************************)
(* The message tree of a chat session and its persistence                   *)
(* (pkg/chat/chat_session.go, store/chat_backend_sqlite.go): requests that  *)
(* append and persist concurrently, the cap on messages, the cache of       *)
(* sessions, and reloading from the database or from the JSON file.         *)
(* Messages are numbered in the order of their creation; 0 is none.         *)
(***************************************************************************)
EXTENDS Integers, FiniteSets, FiniteSetsExt

CONSTANTS
  Request,           \* concurrent callers of the session
  MaxMsg,            \* bound on messages
  maxChatMessages,
  EvictShare,        \* one message in this many is dropped beyond it (4 in the code)
  MaxFaults          \* bound on faults, failing rows, cache evictions and clears

VARIABLES
  backend,     \* an IChatBackend is configured
  objs,        \* ChatSession objects of the session in memory
  cached,      \* the one in ChatSessionStore.sessions, or 0
  rows,        \* database: [msgs, leaf]
  file,        \* JSON file: [ok, msgs, leaf]
  req,         \* each request: [at, obj, mine, snap]
  nextMsg,
  acked,       \* messages whose request's Persist returned
  faults,
  disturbed,   \* a case outside AckedSurvives has happened
  raced        \* ... or outside LeafKnown

sessionVars == <<backend, objs, cached, rows, file, req, nextMsg, acked, faults,
                 disturbed, raced>>

Msg == 1..MaxMsg
Slot == 1..(Cardinality(Request) + 1)
Fresh == [msgs |-> {}, leaf |-> 0, dirty |-> {}]
NoFile == [ok |-> FALSE, msgs |-> {}, leaf |-> 0]
Idle == [at |-> "idle", obj |-> 0, mine |-> {}, snap |-> Fresh]

TypeOK ==
  /\ cached \in Slot \cup {0}
  /\ rows.msgs \subseteq Msg /\ file.msgs \subseteq Msg
  /\ nextMsg \in 1..(MaxMsg + 1)
  /\ \A o \in Slot : objs[o].msgs \cup objs[o].dirty \subseteq Msg /\ objs[o].leaf \in Msg \cup {0}
  /\ \A r \in Request : req[r].at \in {"idle", "user", "reply", "persist", "rows", "file"}

Init ==
  /\ backend \in BOOLEAN
  /\ objs = [o \in Slot |-> Fresh] /\ cached = 0
  /\ rows = [msgs |-> {}, leaf |-> 0] /\ file = NoFile
  /\ req = [r \in Request |-> Idle]
  /\ nextMsg = 1 /\ acked = {} /\ faults = 0 /\ disturbed = FALSE /\ raced = FALSE

Fault == faults < MaxFaults /\ faults' = faults + 1
Disturb(p) == disturbed' = (disturbed \/ p)
Using(o) == {r \in Request : req[r].obj = o /\ req[r].at # "idle"}
Saving == {r \in Request : req[r].at \in {"rows", "file"}}

----------------------------------------------------------------------------

\* Mutant: the file is preferred to the database.
FileFirst(r, f, db) ==
  IF f.ok THEN [msgs |-> f.msgs, leaf |-> f.leaf, dirty |-> {}] ELSE Fresh

\* loadLocked: the rows when there are any, else the file.
loadLocked(r, f, db) ==
  IF db /\ r.msgs # {} THEN [Fresh EXCEPT !.msgs = r.msgs, !.leaf = r.leaf]
  ELSE IF f.ok THEN [msgs |-> f.msgs, leaf |-> f.leaf, dirty |-> {}]
  ELSE Fresh

\* GetOrCreate.
GetOrCreate(r) ==
  /\ req[r].at = "idle" /\ nextMsg \in Msg
  /\ LET o == IF cached # 0 THEN cached ELSE Min({k \in Slot : Using(k) = {}})
     IN /\ objs' = IF cached # 0 THEN objs
                   ELSE [objs EXCEPT ![o] = loadLocked(rows, file, backend)]
        /\ cached' = o
        /\ req' = [req EXCEPT ![r] = [Idle EXCEPT !.at = "user", !.obj = o]]
  /\ UNCHANGED <<backend, rows, file, nextMsg, acked, faults, disturbed, raced>>

\* The oldest share is dropped when the cap is passed.
Evicted(s) ==
  LET n == IF Cardinality(s.msgs) > maxChatMessages THEN Cardinality(s.msgs) \div EvictShare ELSE 0
  IN {m \in s.msgs : Cardinality({k \in s.msgs : k <= m}) <= n}

\* AppendUserMessage makes the message the leaf, under a parent of the client's
\* choice or the leaf before it; AppendMessage adds the reply, dropping nothing.
AppendUserMessage(r) ==
  LET s == objs[req[r].obj]
      t == [s EXCEPT !.msgs = @ \cup {nextMsg}]
      u == [t EXCEPT !.msgs = @ \ Evicted(t), !.leaf = nextMsg, !.dirty = @ \cup {nextMsg}]
  IN /\ req[r].at = "user" /\ nextMsg \in Msg
     /\ objs' = [objs EXCEPT ![req[r].obj] = u]
     /\ req' = [req EXCEPT ![r].at = "reply", ![r].mine = {nextMsg}]
     /\ nextMsg' = nextMsg + 1
     /\ Disturb(Evicted(t) # {})
     /\ raced' = (raced \/ Saving # {})
     /\ UNCHANGED <<backend, cached, rows, file, acked, faults>>

AppendMessage(r) ==
  LET s == objs[req[r].obj]
  IN /\ req[r].at = "reply" /\ nextMsg \in Msg
     /\ objs' = [objs EXCEPT ![req[r].obj] = [s EXCEPT !.msgs = @ \cup {nextMsg}, !.leaf = nextMsg,
                                                      !.dirty = @ \cup {nextMsg}]]
     /\ req' = [req EXCEPT ![r].at = "persist", ![r].mine = @ \cup {nextMsg}]
     /\ nextMsg' = nextMsg + 1
     /\ raced' = (raced \/ Saving # {})
     /\ UNCHANGED <<backend, cached, rows, file, acked, faults, disturbed>>

\* A request repeated with a message id that was seen is refused.
Refused(r) ==
  /\ req[r].at = "user"
  /\ req' = [req EXCEPT ![r] = Idle]
  /\ UNCHANGED <<backend, objs, cached, rows, file, nextMsg, acked, faults,
                 disturbed, raced>>

\* Persist: messages and dirty list are taken under the session's lock ...
PersistTake(r) ==
  LET o == req[r].obj
  IN /\ req[r].at \in {"reply", "persist"}
     /\ req' = [req EXCEPT ![r].at = IF backend THEN "rows" ELSE "file", ![r].snap = objs[o]]
     /\ objs' = [objs EXCEPT ![o].dirty = {}]
     /\ Disturb(~backend /\ Saving # {})
     /\ raced' = (raced \/ Saving # {})
     /\ UNCHANGED <<backend, cached, rows, file, nextMsg, acked, faults>>

\* Mutant: the dirty list is not saved.
NothingSaved(snap) == {}

\* ... the session row takes the leaf of this moment, the message rows the
\* dirty messages; an error is logged and forgotten ...
Saved(snap) == snap.dirty \cap snap.msgs

SaveRows(r) ==
  /\ req[r].at = "rows"
  /\ \E fails \in BOOLEAN :
       /\ IF fails THEN Fault ELSE UNCHANGED faults
       /\ rows' = [msgs |-> IF fails THEN rows.msgs ELSE rows.msgs \cup Saved(req[r].snap),
                   leaf |-> objs[req[r].obj].leaf]
       /\ Disturb(fails)
  /\ req' = [req EXCEPT ![r].at = "file"]
  /\ UNCHANGED <<backend, objs, cached, file, nextMsg, acked, raced>>

\* ... and the whole snapshot replaces the file.
SaveFile(r) ==
  LET s == req[r].snap
  IN /\ req[r].at = "file"
     /\ file' = [ok |-> TRUE, msgs |-> s.msgs, leaf |-> s.leaf]
     /\ acked' = acked \cup req[r].mine
     /\ req' = [req EXCEPT ![r] = Idle]
     /\ UNCHANGED <<backend, objs, cached, rows, nextMsg, faults, disturbed, raced>>

\* Clear: the rows and the file stay.
Clear ==
  /\ Fault /\ cached # 0 /\ objs[cached] # Fresh
  /\ objs' = [objs EXCEPT ![cached] = Fresh]
  /\ acked' = {}
  /\ Disturb(Using(cached) # {}) /\ raced' = (raced \/ Using(cached) # {})
  /\ UNCHANGED <<backend, cached, rows, file, req, nextMsg>>

\* Other sessions crowd this one out of the cache.
EvictSession ==
  /\ Fault /\ cached # 0 /\ cached' = 0
  /\ Disturb(Using(cached) # {} \/ objs[cached].dirty # {})
  /\ raced' = (raced \/ Using(cached) # {} \/ objs[cached].dirty # {})
  /\ objs' = IF Using(cached) = {} THEN [objs EXCEPT ![cached] = Fresh] ELSE objs
  /\ UNCHANGED <<backend, rows, file, req, nextMsg, acked>>

\* Messages another request's Persist has taken off the dirty list and not yet
\* written.
InFlight == UNION {Saved(req[r].snap) : r \in {q \in Request : req[q].at = "rows"}}

\* The process dies, perhaps while os.WriteFile has truncated the file.
Crash ==
  /\ Fault
  /\ \E torn \in (IF \E r \in Request : req[r].at = "file" THEN BOOLEAN ELSE {FALSE}) :
       /\ file' = IF torn THEN NoFile ELSE file
       /\ Disturb((torn /\ ~backend) \/ (acked \cap InFlight) \ rows.msgs # {})
  /\ objs' = [o \in Slot |-> Fresh] /\ cached' = 0
  /\ req' = [r \in Request |-> Idle]
  /\ UNCHANGED <<backend, rows, nextMsg, acked, raced>>

Next ==
  \/ \E r \in Request :
       \/ GetOrCreate(r) \/ AppendUserMessage(r) \/ AppendMessage(r)
       \/ Refused(r) \/ PersistTake(r) \/ SaveRows(r) \/ SaveFile(r)
  \/ Clear \/ EvictSession \/ Crash

Spec == Init /\ [][Next]_sessionVars

----------------------------------------------------------------------------
(* Properties.                                                             *)

Loaded == loadLocked(rows, file, backend)

\* With a database, concurrent requests lose nothing: once Persist has
\* returned, a reload has the request's messages, or another request's Persist
\* that took them is about to write them.  Dying in between, a cap, a failed
\* row, an eviction in use, or overlapping writers of the file alone, is beyond
\* what the code promises.
AckedSurvives == disturbed \/ acked \subseteq Loaded.msgs \cup InFlight

\* The leaf a reload starts from is one of its messages, unless a message was
\* appended between Persist's snapshot and its rows.
LeafKnown == disturbed \/ raced \/ Loaded.leaf \in Loaded.msgs \cup {0}

=============================================================================
