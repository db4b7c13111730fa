---------------------------- MODULE AgentProofs -----------------------------
(***************************************************************************)
(* What the parts around one agent step guarantee for any number of        *)
(* callers, servers, keys, turns and criteria.  Each part is an instance   *)
(* of its module that keeps the names of its constants and variables.      *)
(***************************************************************************)
EXTENDS Integers, Sequences, FiniteSets, TLAPS

CONSTANT Caller

-----------------------------------------------------------------------------
(* Interpreters.                                                           *)

CONSTANTS Step, Lang, Blocked, MaxSpawns, MaxRuns, MaxChunks, confirmSemSize
VARIABLES sessions, sess, mu, calls, ended, stopped, run, runs, cut
Jit == INSTANCE Execution

Calling == [pc : {"idle", "lookup", "spawn", "install", "locksess", "eval"},
            step : Step \cup {Jit!IdleCall.step}, own : Nat, use : Nat]

JitTypes ==
  /\ sess \in Seq(Jit!JITSession) /\ sessions \in [Step -> 0..Len(sess)]
  /\ calls \in [Caller -> Calling]

(* A caller owns an interpreter from its spawn to its installation.        *)
Owns(c) ==
  /\ calls[c].pc # "idle" => calls[c].step \in Step
  /\ calls[c].pc # "install" => calls[c].own = 0
  /\ calls[c].pc = "install" => /\ calls[c].own \in 1..Len(sess)
                                /\ sess[calls[c].own].step = calls[c].step

Reached(i) ==
  sess[i].proc = "live" => \/ sessions[sess[i].step] = i
                           \/ sess[i].closing
                           \/ \E c \in Caller : calls[c].own = i

JitInv ==
  /\ JitTypes
  /\ \A st \in Step : sessions[st] # 0 => sess[sessions[st]].step = st
  /\ \A c \in Caller : Owns(c)
  /\ \A i \in 1..Len(sess) : Reached(i)

(* The same interpreters, none of them brought to life or given to another *)
(* step, and no Close forgotten.                                           *)
SameSessions(f, g) ==
  /\ g \in Seq(Jit!JITSession) /\ Len(g) = Len(f)
  /\ \A i \in 1..Len(f) : /\ g[i].step = f[i].step
                          /\ g[i].proc = "live" => /\ f[i].proc = "live"
                                                   /\ f[i].closing => g[i].closing

LEMMA ClosedSession ==
  ASSUME NEW f \in Seq(Jit!JITSession), NEW i \in 1..Len(f)
  PROVE  SameSessions(f, Jit!Closed(f, i)) /\ Jit!Closed(f, i)[i].proc = "closed"
<1> DEFINE q == [f[i] EXCEPT !.proc = "closed", !.closing = FALSE]
<1>1. f[i] \in Jit!JITSession
  OBVIOUS
<1>2. q \in Jit!JITSession /\ q.step = f[i].step /\ q.proc = "closed"
  BY <1>1 DEF Jit!JITSession
<1>3. Jit!Closed(f, i) = [f EXCEPT ![i] = q]
  BY DEF Jit!Closed
<1> HIDE DEF q
<1> QED BY <1>2, <1>3 DEF SameSessions

LEMMA StartedClosing ==
  ASSUME NEW f \in Seq(Jit!JITSession), NEW S
  PROVE  /\ SameSessions(f, Jit!StartClosing(f, S))
         /\ \A i \in (1..Len(f)) \cap S : Jit!StartClosing(f, S)[i].closing
<1>1. \A q \in Jit!JITSession : /\ [q EXCEPT !.closing = TRUE] \in Jit!JITSession
                                /\ [q EXCEPT !.closing = TRUE].step = q.step
                                /\ [q EXCEPT !.closing = TRUE].proc = q.proc
                                /\ [q EXCEPT !.closing = TRUE].closing
  BY DEF Jit!JITSession
<1>2. \A i \in 1..Len(f) : f[i] \in Jit!JITSession
  OBVIOUS
<1> QED BY <1>1, <1>2 DEF SameSessions, Jit!StartClosing

LEMMA TimerSet ==
  ASSUME NEW f \in Seq(Jit!JITSession), NEW i \in 1..Len(f), NEW b \in BOOLEAN
  PROVE  SameSessions(f, [f EXCEPT ![i].timer = b])
<1> DEFINE q == [f[i] EXCEPT !.timer = b]
<1>1. f[i] \in Jit!JITSession
  OBVIOUS
<1>2. q \in Jit!JITSession /\ q.step = f[i].step /\ q.proc = f[i].proc /\ q.closing = f[i].closing
  BY <1>1 DEF Jit!JITSession
<1>3. [f EXCEPT ![i].timer = b] = [f EXCEPT ![i] = q]
  OBVIOUS
<1> HIDE DEF q
<1> QED BY <1>2, <1>3 DEF SameSessions

(* A step keeps the invariant if it keeps the interpreters, and whatever   *)
(* runs on stays reached.                                                  *)
LEMMA JitKeeps ==
  ASSUME JitInv, SameSessions(sess, sess'), sessions' \in [Step -> 0..Len(sess)],
         \A st \in Step : sessions'[st] # 0 => sess[sessions'[st]].step = st,
         calls' \in [Caller -> Calling], \A c \in Caller : Owns(c)',
         \A i \in 1..Len(sess) : sess'[i].proc = "live" =>
           /\ sessions[sess[i].step] = i => sessions'[sess[i].step] = i \/ sess'[i].closing
           /\ \A c \in Caller : calls[c].own = i =>
                calls'[c].own = i \/ sessions'[sess[i].step] = i \/ sess'[i].closing
  PROVE  JitInv'
<1>1. JitTypes'
  BY DEF JitTypes, SameSessions
<1>2. ASSUME NEW i \in 1..Len(sess) PROVE Reached(i)'
  BY DEF JitInv, Reached, SameSessions
<1>3. \A st \in Step : sessions'[st] # 0 => sess'[sessions'[st]].step = st
  BY DEF JitInv, JitTypes, SameSessions
<1> QED BY <1>1, <1>2, <1>3 DEF JitInv, SameSessions

(* The calls of one caller.                                                *)
LEMMA CallMoves ==
  ASSUME JitInv, NEW c \in Caller, NEW r \in Calling, calls' = [calls EXCEPT ![c] = r],
         SameSessions(sess, sess'), r.pc # "install", r.own = 0,
         r.pc # "idle" => r.step \in Step
  PROVE  /\ calls' \in [Caller -> Calling] /\ \A d \in Caller : Owns(d)'
         /\ \A d \in Caller : d # c => calls'[d] = calls[d]
<1>1. calls \in [Caller -> Calling] /\ Len(sess) \in Nat
  BY DEF JitInv, JitTypes
<1>2. calls' \in [Caller -> Calling] /\ calls'[c] = r
      /\ \A d \in Caller : d # c => calls'[d] = calls[d]
  BY <1>1
<1>3. ASSUME NEW d \in Caller, d # c PROVE Owns(d)'
  <2>1. Owns(d) /\ calls'[d] = calls[d]
    BY <1>2, <1>3 DEF JitInv
  <2> QED BY <2>1 DEF Owns, SameSessions
<1>4. Owns(c)'
  BY <1>2 DEF Owns
<1> QED BY <1>2, <1>3, <1>4

LEMMA IdleIsCalling == Jit!IdleCall \in Calling /\ Jit!IdleCall.own = 0 /\ Jit!IdleCall.pc = "idle"
BY DEF Calling, Jit!IdleCall

LEMMA EvalKeeps ==
  ASSUME JitInv, NEW c \in Caller, Jit!Eval(c) \/ Jit!EvalStarts(c) \/ Jit!EvalEnds(c)
  PROVE  JitInv'
<1>1. calls \in [Caller -> Calling] /\ calls[c] \in Calling /\ Owns(c)
  BY DEF JitInv, JitTypes
<1>2. PICK r \in Calling : /\ calls' = [calls EXCEPT ![c] = r]
                           /\ r.own = 0 /\ r.pc # "install" /\ (r.pc # "idle" => r.step \in Step)
  <2>1. CASE Jit!Eval(c)
    <3>1. PICK st \in Step : calls' = [calls EXCEPT ![c] = [Jit!IdleCall EXCEPT !.pc = "lookup", !.step = st]]
      BY <2>1 DEF Jit!Eval
    <3> DEFINE q == [Jit!IdleCall EXCEPT !.pc = "lookup", !.step = st]
    <3>2. q \in Calling /\ q.own = 0 /\ q.pc = "lookup" /\ q.step = st
      BY IdleIsCalling DEF Calling
    <3> HIDE DEF q
    <3> QED BY <3>1, <3>2 DEF q
  <2>2. CASE calls' = Jit!Release(calls, c)
    BY <2>2, IdleIsCalling DEF Jit!Release
  <2>3. CASE calls[c].pc = "locksess" /\ calls' = [calls EXCEPT ![c].pc = "eval"]
    <3> DEFINE q == [calls[c] EXCEPT !.pc = "eval"]
    <3>1. q \in Calling /\ q.own = calls[c].own /\ q.pc = "eval" /\ q.step = calls[c].step
      BY <1>1 DEF Calling
    <3>2. calls' = [calls EXCEPT ![c] = q]
      BY <2>3
    <3> HIDE DEF q
    <3> QED BY <1>1, <2>3, <3>1, <3>2 DEF Owns
  <2> QED BY <2>1, <2>2, <2>3 DEF Jit!EvalStarts, Jit!EvalEnds
<1>3. UNCHANGED <<sess, sessions>> /\ calls[c].pc # "install"
  BY DEF Jit!Eval, Jit!EvalStarts, Jit!EvalEnds
<1>4. SameSessions(sess, sess')
  BY <1>3 DEF SameSessions, JitInv, JitTypes
<1>5. /\ calls' \in [Caller -> Calling] /\ \A d \in Caller : Owns(d)'
      /\ \A d \in Caller : d # c => calls'[d] = calls[d]
  BY <1>2, <1>4, CallMoves
<1>6. calls[c].own = 0
  BY <1>1, <1>3 DEF Owns
<1>7. sessions \in [Step -> 0..Len(sess)] /\ \A st \in Step : sessions[st] # 0 => sess[sessions[st]].step = st
  BY DEF JitInv, JitTypes
<1> QED BY <1>3, <1>4, <1>5, <1>6, <1>7, JitKeeps

LEMMA LookupKeeps ==
  ASSUME JitInv, NEW c \in Caller, Jit!Lookup(c) PROVE JitInv'
<1> DEFINE st == calls[c].step  i == sessions[st]
<1>1. /\ calls[c].pc = "lookup" /\ calls[c] \in Calling /\ Owns(c) /\ st \in Step
      /\ i \in 0..Len(sess) /\ Len(sess) \in Nat /\ sess \in Seq(Jit!JITSession)
      /\ calls \in [Caller -> Calling] /\ sessions \in [Step -> 0..Len(sess)]
      /\ \A t \in Step : sessions[t] # 0 => sess[sessions[t]].step = t
  <2>1. /\ calls[c].pc = "lookup" /\ Owns(c) /\ sess \in Seq(Jit!JITSession)
        /\ calls \in [Caller -> Calling] /\ sessions \in [Step -> 0..Len(sess)]
        /\ \A t \in Step : sessions[t] # 0 => sess[sessions[t]].step = t
    BY DEF JitInv, JitTypes, Jit!Lookup
  <2>2. st \in Step
    BY <2>1 DEF Owns
  <2> QED BY <2>1, <2>2
<1>2. SameSessions(sess, sess)
  BY <1>1 DEF SameSessions
<1>3. calls[c].own = 0
  BY <1>1 DEF Owns
<1>4. CASE /\ calls' = [calls EXCEPT ![c].pc = "locksess", ![c].use = i]
           /\ UNCHANGED <<sessions, sess>>
  <2> DEFINE q == [calls[c] EXCEPT !.pc = "locksess", !.use = i]
  <2>1. q \in Calling /\ q.own = 0 /\ q.pc = "locksess" /\ q.step = st
    <3>1. i \in Nat
      BY <1>1
    <3> HIDE DEF i
    <3> QED BY <1>1, <1>3, <3>1 DEF Calling
  <2>2. calls' = [calls EXCEPT ![c] = q]
    BY <1>4
  <2> HIDE DEF q, i
  <2>3. SameSessions(sess, sess')
    BY <1>2, <1>4
  <2>4. /\ calls' \in [Caller -> Calling] /\ \A d \in Caller : Owns(d)'
        /\ \A d \in Caller : d # c => calls'[d] = calls[d]
    BY <1>1, <2>1, <2>2, <2>3, CallMoves
  <2> QED BY <1>1, <1>3, <1>4, <2>3, <2>4, JitKeeps
<1>5. CASE UNCHANGED <<sessions, sess, calls>>
  BY <1>5 DEF JitInv, JitTypes, Owns, Reached
<1>6. CASE /\ calls' = [calls EXCEPT ![c].pc = "spawn"]
           /\ sessions' = [sessions EXCEPT ![st] = 0]
           /\ sess' = IF i = 0 THEN sess ELSE Jit!Closed(sess, i)
  <2> DEFINE q == [calls[c] EXCEPT !.pc = "spawn"]
  <2>1. q \in Calling /\ q.own = 0 /\ q.pc = "spawn" /\ q.step = st
    BY <1>1, <1>3 DEF Calling
  <2>2. calls' = [calls EXCEPT ![c] = q]
    BY <1>6
  <2> HIDE DEF q
  <2>3. SameSessions(sess, sess') /\ (i # 0 => sess'[i].proc = "closed")
    BY <1>1, <1>2, <1>6, ClosedSession
  <2>4. /\ calls' \in [Caller -> Calling] /\ \A d \in Caller : Owns(d)'
        /\ \A d \in Caller : d # c => calls'[d] = calls[d]
    BY <1>1, <2>1, <2>2, <2>3, CallMoves
  <2>5. /\ sessions' \in [Step -> 0..Len(sess)]
        /\ \A t \in Step : sessions'[t] # 0 => sess[sessions'[t]].step = t
        /\ \A t \in Step : t # st => sessions'[t] = sessions[t]
    BY <1>1, <1>6
  <2>6. ASSUME NEW j \in 1..Len(sess), sess'[j].proc = "live", sessions[sess[j].step] = j
        PROVE  sessions'[sess[j].step] = j
    <3>1. sess[j].step \in Step
      <4>1. sess[j] \in Jit!JITSession
        BY <1>1
      <4> QED BY <4>1 DEF Jit!JITSession
    <3> QED BY <1>1, <2>3, <2>5, <2>6, <3>1
  <2> HIDE DEF i, st
  <2> QED BY <1>3, <2>3, <2>4, <2>5, <2>6, JitKeeps
<1> QED BY <1>4, <1>5, <1>6 DEF Jit!Lookup

LEMMA SpawnKeeps ==
  ASSUME JitInv, NEW c \in Caller, Jit!Spawn(c) PROVE JitInv'
<1>1. /\ calls[c].pc = "spawn" /\ calls[c] \in Calling /\ calls[c].own = 0 /\ calls[c].step \in Step
      /\ calls \in [Caller -> Calling] /\ sessions \in [Step -> 0..Len(sess)]
      /\ sess \in Seq(Jit!JITSession) /\ Len(sess) \in Nat /\ sessions' = sessions
      /\ \A t \in Step : sessions[t] # 0 => sess[sessions[t]].step = t
  BY DEF JitInv, JitTypes, Jit!Spawn, Owns
<1>2. CASE calls' = Jit!Release(calls, c) /\ UNCHANGED sess
  <2>1. SameSessions(sess, sess')
    BY <1>1, <1>2 DEF SameSessions
  <2>2. /\ calls' \in [Caller -> Calling] /\ \A d \in Caller : Owns(d)'
        /\ \A d \in Caller : d # c => calls'[d] = calls[d]
    BY <1>2, <2>1, CallMoves, IdleIsCalling DEF Jit!Release
  <2> QED BY <1>1, <1>2, <2>1, <2>2, JitKeeps
<1>3. CASE /\ sess' = Append(sess, Jit!NewSession(calls[c].step))
           /\ calls' = [calls EXCEPT ![c].pc = "install", ![c].own = Len(sess) + 1]
  <2> DEFINE n == Len(sess) + 1  q == [calls[c] EXCEPT !.pc = "install", !.own = n]
  <2>1. q \in Calling /\ q.own = n /\ q.pc = "install" /\ q.step = calls[c].step
    <3>1. n \in Nat
      BY <1>1
    <3> HIDE DEF n
    <3> QED BY <1>1, <3>1 DEF Calling
  <2>2. calls' = [calls EXCEPT ![c] = q]
    BY <1>3
  <2> HIDE DEF q
  <2>3. Jit!NewSession(calls[c].step) \in Jit!JITSession
        /\ Jit!NewSession(calls[c].step).step = calls[c].step
    BY <1>1 DEF Jit!NewSession, Jit!JITSession
  <2>4. /\ sess' \in Seq(Jit!JITSession) /\ Len(sess') = n /\ sess'[n].step = calls[c].step
        /\ \A j \in 1..Len(sess) : sess'[j] = sess[j]
    BY <1>1, <1>3, <2>3
  <2>5. /\ calls' \in [Caller -> Calling] /\ calls'[c] = q
        /\ \A d \in Caller : d # c => calls'[d] = calls[d]
    BY <1>1, <2>1, <2>2
  <2>6. JitTypes'
    BY <1>1, <2>4, <2>5 DEF JitTypes
  <2>7. ASSUME NEW d \in Caller PROVE Owns(d)'
    <3>1. CASE d = c
      BY <1>1, <2>1, <2>4, <2>5, <3>1 DEF Owns
    <3>2. CASE d # c
      <4>1. Owns(d)
        BY DEF JitInv
      <4> QED BY <1>1, <2>4, <2>5, <3>2, <4>1 DEF Owns
    <3> QED BY <3>1, <3>2
  <2>8. ASSUME NEW j \in 1..n PROVE Reached(j)'
    <3>1. CASE j = n
      BY <2>1, <2>5, <3>1 DEF Reached
    <3>2. CASE j \in 1..Len(sess)
      <4>1. Reached(j)
        BY <3>2 DEF JitInv
      <4>2. sess'[j] = sess[j] /\ \A d \in Caller : calls[d].own = j => calls'[d].own = j
        BY <1>1, <2>4, <2>5, <3>2
      <4> QED BY <1>1, <4>1, <4>2 DEF Reached
    <3> QED BY <1>1, <3>1, <3>2
  <2>9. \A t \in Step : sessions'[t] # 0 => sess'[sessions'[t]].step = t
    BY <1>1, <2>4
  <2> QED BY <2>4, <2>6, <2>7, <2>8, <2>9 DEF JitInv
<1> QED BY <1>2, <1>3 DEF Jit!Spawn

LEMMA InstallKeeps ==
  ASSUME JitInv, stopped \in BOOLEAN, NEW c \in Caller, Jit!Install(c) PROVE JitInv'
<1> DEFINE st == calls[c].step  own == calls[c].own  i == sessions[st]
<1>1. /\ calls[c].pc = "install" /\ Owns(c) /\ sess \in Seq(Jit!JITSession)
      /\ calls \in [Caller -> Calling] /\ sessions \in [Step -> 0..Len(sess)]
      /\ \A t \in Step : sessions[t] # 0 => sess[sessions[t]].step = t
  BY DEF JitInv, JitTypes, Jit!Install
<1>2. st \in Step /\ own \in 1..Len(sess) /\ sess[own].step = st /\ calls[c] \in Calling
  BY <1>1 DEF Owns
<1>3. i \in 0..Len(sess) /\ Len(sess) \in Nat
  BY <1>1, <1>2
<1>4. SameSessions(sess, sess)
  BY <1>1 DEF SameSessions
<1>5. ASSUME NEW u \in Nat, calls' = [calls EXCEPT ![c].pc = "locksess", ![c].own = 0, ![c].use = u],
             SameSessions(sess, sess')
      PROVE  /\ calls' \in [Caller -> Calling] /\ \A d \in Caller : Owns(d)'
             /\ \A d \in Caller : d # c => calls'[d] = calls[d]
  <2> DEFINE q == [calls[c] EXCEPT !.pc = "locksess", !.own = 0, !.use = u]
  <2>1. q \in Calling /\ q.own = 0 /\ q.pc = "locksess" /\ q.step = st
    BY <1>2 DEF Calling
  <2>2. calls' = [calls EXCEPT ![c] = q]
    BY <1>5
  <2> HIDE DEF q
  <2> QED BY <1>2, <1>5, <2>1, <2>2, CallMoves
<1>6. CASE /\ sess' = Jit!LoserCloses(sess, own) /\ UNCHANGED sessions
           /\ calls' = [calls EXCEPT ![c].pc = "locksess", ![c].own = 0, ![c].use = i]
  <2>1. SameSessions(sess, sess') /\ sess'[own].proc = "closed"
    BY <1>1, <1>2, <1>6, ClosedSession DEF Jit!LoserCloses
  <2>2. i \in Nat
    BY <1>3
  <2> HIDE DEF i, st
  <2>3. /\ calls' \in [Caller -> Calling] /\ \A d \in Caller : Owns(d)'
        /\ \A d \in Caller : d # c => calls'[d] = calls[d]
    BY <1>5, <1>6, <2>1, <2>2
  <2> QED BY <1>1, <1>6, <2>1, <2>3, JitKeeps
<1>7. CASE UNCHANGED <<sessions, sess, calls>>
  BY <1>7 DEF JitInv, JitTypes, Owns, Reached
<1>8. CASE /\ sess' = LET s == IF i = 0 THEN sess ELSE Jit!Closed(sess, i)
                      IN  [s EXCEPT ![own].timer = ~stopped]
           /\ sessions' = [sessions EXCEPT ![st] = own]
           /\ calls' = [calls EXCEPT ![c].pc = "locksess", ![c].own = 0, ![c].use = own]
  <2> DEFINE s == IF i = 0 THEN sess ELSE Jit!Closed(sess, i)
  <2>1. SameSessions(sess, s) /\ (i # 0 => s[i].proc = "closed")
    BY <1>1, <1>3, <1>4, ClosedSession
  <2>2. PICK b \in BOOLEAN : sess' = [s EXCEPT ![own].timer = b]
    <3>1. sess' = [s EXCEPT ![own].timer = ~stopped]
      BY <1>8
    <3>2. (~stopped) \in BOOLEAN
      BY Zenon
    <3> QED BY <3>1, <3>2
  <2> HIDE DEF s
  <2>3. SameSessions(s, sess')
    <3>1. s \in Seq(Jit!JITSession) /\ own \in 1..Len(s)
      BY <1>2, <2>1 DEF SameSessions
    <3> QED BY <2>2, <3>1, TimerSet
  <2>4. SameSessions(sess, sess') /\ (i # 0 => sess'[i].proc # "live")
    BY <1>3, <2>1, <2>3 DEF SameSessions
  <2>5. own \in Nat
    BY <1>2, <1>3
  <2>6. /\ calls' \in [Caller -> Calling] /\ \A d \in Caller : Owns(d)'
        /\ \A d \in Caller : d # c => calls'[d] = calls[d]
    <3> HIDE DEF own
    <3> QED BY <1>5, <1>8, <2>4, <2>5
  <2>7. /\ sessions' \in [Step -> 0..Len(sess)] /\ sessions'[st] = own
        /\ \A t \in Step : sessions'[t] # 0 => sess[sessions'[t]].step = t
        /\ \A t \in Step : t # st => sessions'[t] = sessions[t]
    BY <1>1, <1>2, <1>3, <1>8
  <2>8. ASSUME NEW j \in 1..Len(sess), sess'[j].proc = "live", sessions[sess[j].step] = j
        PROVE  sessions'[sess[j].step] = j
    <3>1. sess[j].step \in Step
      <4>1. sess[j] \in Jit!JITSession
        BY <1>1
      <4> QED BY <4>1 DEF Jit!JITSession
    <3> QED BY <1>3, <2>4, <2>7, <2>8, <3>1
  <2>9. ASSUME NEW j \in 1..Len(sess), NEW d \in Caller, calls[d].own = j
        PROVE  calls'[d].own = j \/ sessions'[sess[j].step] = j
    BY <1>2, <2>6, <2>7, <2>9
  <2> HIDE DEF i, st, own
  <2> QED BY <2>4, <2>6, <2>7, <2>8, <2>9, JitKeeps
<1> QED BY <1>6, <1>7, <1>8 DEF Jit!Install

(* What CloseSession leaves registered, and what it starts to close.       *)
LEMMA CloseKeeps ==
  ASSUME JitInv, NEW st \in Step, NEW f, SameSessions(sess, f), Jit!CloseSession(st, f),
         UNCHANGED calls
  PROVE  JitInv'
<1>1. /\ sess \in Seq(Jit!JITSession) /\ sessions \in [Step -> 0..Len(sess)] /\ Len(sess) \in Nat
      /\ f \in Seq(Jit!JITSession) /\ Len(f) = Len(sess)
      /\ \A t \in Step : sessions[t] # 0 => sess[sessions[t]].step = t
      /\ calls \in [Caller -> Calling]
  BY DEF JitInv, JitTypes, SameSessions
<1>2. /\ sessions' = [sessions EXCEPT ![st] = 0]
      /\ sess' = IF sessions[st] = 0 THEN f ELSE Jit!StartClosing(f, {sessions[st]})
  BY DEF Jit!CloseSession
<1>3. SameSessions(f, sess') /\ (sessions[st] # 0 => sess'[sessions[st]].closing)
  <2>1. CASE sessions[st] = 0
    BY <1>1, <1>2, <2>1 DEF SameSessions
  <2>2. CASE sessions[st] # 0
    <3>1. sessions[st] \in 1..Len(f)
      BY <1>1, <2>2
    <3> QED BY <1>1, <1>2, <2>2, <3>1, StartedClosing
  <2> QED BY <2>1, <2>2
<1>4. SameSessions(sess, sess')
  BY <1>3 DEF SameSessions
<1>5. /\ sessions' \in [Step -> 0..Len(sess)]
      /\ \A t \in Step : sessions'[t] # 0 => sess[sessions'[t]].step = t
      /\ \A t \in Step : t # st => sessions'[t] = sessions[t]
  BY <1>1, <1>2
<1>6. ASSUME NEW j \in 1..Len(sess), sessions[sess[j].step] = j
      PROVE  sessions'[sess[j].step] = j \/ sess'[j].closing
  <2>1. sess[j] \in Jit!JITSession
    BY <1>1
  <2>2. sess[j].step \in Step
    BY <2>1 DEF Jit!JITSession
  <2> QED BY <1>1, <1>3, <1>5, <1>6, <2>2
<1>7. \A d \in Caller : Owns(d)'
  <2>1. \A d \in Caller : Owns(d)
    BY DEF JitInv
  <2> QED BY <1>4, <2>1 DEF Owns, SameSessions
<1> QED BY <1>1, <1>4, <1>5, <1>6, <1>7, JitKeeps

LEMMA SessionMoves ==
  ASSUME JitInv, NEW i \in 1..Len(sess),
         Jit!Dies(i) \/ Jit!Expires(i) \/ Jit!TimerFires(i) \/ Jit!CloseEnds(i)
  PROVE  JitInv'
<1>1. /\ sess \in Seq(Jit!JITSession) /\ sessions \in [Step -> 0..Len(sess)]
      /\ \A t \in Step : sessions[t] # 0 => sess[sessions[t]].step = t
      /\ calls \in [Caller -> Calling] /\ \A d \in Caller : Owns(d)
  BY DEF JitInv, JitTypes
<1>2. sess[i] \in Jit!JITSession
  BY <1>1
<1>3. ASSUME SameSessions(sess, sess'), UNCHANGED <<sessions, calls>> PROVE JitInv'
  <2>1. \A d \in Caller : Owns(d)'
    BY <1>1, <1>3 DEF Owns, SameSessions
  <2> QED BY <1>1, <1>3, <2>1, JitKeeps
<1>4. CASE Jit!Dies(i)
  <2> DEFINE q == [sess[i] EXCEPT !.proc = "dead"]
  <2>1. q \in Jit!JITSession /\ q.step = sess[i].step /\ q.proc = "dead"
    BY <1>2 DEF Jit!JITSession
  <2>2. sess' = [sess EXCEPT ![i] = q] /\ UNCHANGED <<sessions, calls>>
    BY <1>4 DEF Jit!Dies
  <2> HIDE DEF q
  <2> QED BY <1>1, <1>3, <2>1, <2>2 DEF SameSessions
<1>5. CASE Jit!Expires(i)
  <2> DEFINE q == [sess[i] EXCEPT !.expired = TRUE]
  <2>1. /\ q \in Jit!JITSession /\ q.step = sess[i].step /\ q.proc = sess[i].proc
        /\ q.closing = sess[i].closing
    BY <1>2 DEF Jit!JITSession
  <2>2. sess' = [sess EXCEPT ![i] = q] /\ UNCHANGED <<sessions, calls>>
    BY <1>5 DEF Jit!Expires
  <2> HIDE DEF q
  <2> QED BY <1>1, <1>3, <2>1, <2>2 DEF SameSessions
<1>6. CASE Jit!TimerFires(i)
  <2>1. SameSessions(sess, [sess EXCEPT ![i].timer = FALSE])
    BY <1>1, TimerSet
  <2>2. sess[i].step \in Step
    BY <1>2 DEF Jit!JITSession
  <2>3. /\ Jit!CloseSession(sess[i].step, [sess EXCEPT ![i].timer = FALSE])
        /\ UNCHANGED calls
    BY <1>6 DEF Jit!TimerFires
  <2> QED BY <2>1, <2>2, <2>3, CloseKeeps
<1>7. CASE Jit!CloseEnds(i)
  BY <1>1, <1>3, <1>7, ClosedSession DEF Jit!CloseEnds
<1> QED BY <1>4, <1>5, <1>6, <1>7

LEMMA StepEndsKeeps ==
  ASSUME JitInv, NEW st \in Step, Jit!StepEnds(st) PROVE JitInv'
<1>1. SameSessions(sess, sess)
  BY DEF SameSessions, JitInv, JitTypes
<1> QED BY <1>1, CloseKeeps DEF Jit!StepEnds

LEMMA CloseAllKeeps ==
  ASSUME JitInv, Jit!CloseAll PROVE JitInv'
<1> DEFINE f == [i \in 1..Len(sess) |-> [sess[i] EXCEPT !.timer = FALSE]]
           S == {sessions[st] : st \in Step} \ {0}
<1>1. /\ sess \in Seq(Jit!JITSession) /\ sessions \in [Step -> 0..Len(sess)] /\ Len(sess) \in Nat
      /\ calls \in [Caller -> Calling] /\ \A d \in Caller : Owns(d)
  BY DEF JitInv, JitTypes
<1>2. /\ sess' = Jit!StartClosing(f, S) /\ sessions' = [st \in Step |-> 0] /\ UNCHANGED calls
  BY DEF Jit!CloseAll, Jit!Session
<1>3. SameSessions(sess, f)
  <2>1. \A q \in Jit!JITSession : /\ [q EXCEPT !.timer = FALSE] \in Jit!JITSession
                                  /\ [q EXCEPT !.timer = FALSE].step = q.step
                                  /\ [q EXCEPT !.timer = FALSE].proc = q.proc
                                  /\ [q EXCEPT !.timer = FALSE].closing = q.closing
    BY DEF Jit!JITSession
  <2>2. \A i \in 1..Len(sess) : sess[i] \in Jit!JITSession
    BY <1>1
  <2>3. f \in Seq(Jit!JITSession) /\ Len(f) = Len(sess)
    BY <1>1, <2>1, <2>2
  <2> QED BY <2>1, <2>2, <2>3 DEF SameSessions
<1> HIDE DEF f
<1>4. f \in Seq(Jit!JITSession) /\ Len(f) = Len(sess)
  BY <1>3 DEF SameSessions
<1>5. SameSessions(f, sess') /\ \A i \in (1..Len(sess)) \cap S : sess'[i].closing
  <2> HIDE DEF S
  <2> QED BY <1>2, <1>4, StartedClosing
<1>6. SameSessions(sess, sess')
  BY <1>3, <1>5 DEF SameSessions
<1>7. ASSUME NEW j \in 1..Len(sess), sessions[sess[j].step] = j PROVE sess'[j].closing
  <2>1. sess[j] \in Jit!JITSession
    BY <1>1
  <2>2. sess[j].step \in Step
    BY <2>1 DEF Jit!JITSession
  <2>3. j \in S
    BY <1>1, <1>7, <2>2
  <2> QED BY <1>5, <2>3
<1>8. \A d \in Caller : Owns(d)'
  BY <1>1, <1>2, <1>6 DEF Owns, SameSessions
<1> QED BY <1>1, <1>2, <1>6, <1>7, <1>8, JitKeeps

LEMMA CommandApart == Jit!Command => UNCHANGED <<sessions, sess, calls, stopped>>
BY DEF Jit!Command, Jit!Run, Jit!Writes, Jit!WritesErr, Jit!ReadOut, Jit!Confirm, Jit!IdleTimerFires,
       Jit!ExecCtxDone, Jit!Exits, Jit!WaitReturns, Jit!SelectDone, Jit!Collect, Jit!Answered, Jit!jitVars

Stoppable == stopped \in BOOLEAN

LEMMA StoppedBoolean == Jit!Init /\ [][Jit!Next]_(Jit!vars) => []Stoppable
<1>1. Jit!Next => stopped' \in {stopped, TRUE}
  BY CommandApart DEF Jit!Next, Jit!Calls, Jit!Eval, Jit!Lookup, Jit!Spawn, Jit!Install, Jit!EvalStarts,
     Jit!EvalEnds, Jit!Dies, Jit!Expires, Jit!TimerFires, Jit!CloseEnds, Jit!StepEnds, Jit!CloseAll
<1>2. Stoppable /\ [Jit!Next]_(Jit!vars) => Stoppable'
  BY <1>1 DEF Stoppable, Jit!vars, Jit!jitVars
<1>3. Jit!Init => Stoppable
  BY DEF Stoppable, Jit!Init
<1> QED BY <1>2, <1>3, PTL

LEMMA JitInvariant == Jit!Init /\ [][Jit!Next]_(Jit!vars) => []JitInv
<1>1. ASSUME Jit!Init PROVE JitInv
  <2>1. sess = <<>> /\ sessions = [st \in Step |-> 0] /\ calls = [c \in Caller |-> Jit!IdleCall]
    BY <1>1 DEF Jit!Init
  <2>2. JitTypes /\ Len(sess) = 0
    BY <2>1, IdleIsCalling DEF JitTypes
  <2>3. \A c \in Caller : Owns(c)
    BY <2>1, IdleIsCalling DEF Owns
  <2> QED BY <2>1, <2>2, <2>3 DEF JitInv
<1>2. ASSUME JitInv, Stoppable, Jit!Next PROVE JitInv'
  <2>1. CASE Jit!Command
    BY <1>2, <2>1, CommandApart DEF JitInv, JitTypes, Owns, Reached
  <2> QED BY <1>2, <2>1, EvalKeeps, LookupKeeps, SpawnKeeps, InstallKeeps, SessionMoves, StepEndsKeeps,
             CloseAllKeeps DEF Stoppable, Jit!Next, Jit!Calls, Jit!Session
<1>3. ASSUME JitInv, UNCHANGED Jit!vars PROVE JitInv'
  BY <1>3 DEF JitInv, JitTypes, Owns, Reached, Jit!vars, Jit!jitVars
<1> QED BY <1>1, <1>2, <1>3, StoppedBoolean, PTL

(* An interpreter that still runs is registered under its step, about to   *)
(* be installed by the caller that spawned it, or has a Close waiting for  *)
(* it: the unlocked spawn, the second look, the TTL timers and the end of  *)
(* a step leave no process behind, for any number of callers and steps.    *)
THEOREM JitNoLeakedProcess == Jit!Init /\ [][Jit!Next]_(Jit!vars) => []Jit!NoLeakedProcess
<1>1. JitInv => Jit!NoLeakedProcess
  BY DEF JitInv, Reached, Jit!NoLeakedProcess, Jit!Session
<1> QED BY <1>1, JitInvariant, PTL

-----------------------------------------------------------------------------
(* Remote tool servers: the handshake lock and the session cache.          *)

CONSTANTS Key, MaxCache
VARIABLES sessionCache, lock, remote
Sessions == INSTANCE McpSessions

(* A call that shakes hands holds the lock, and found nothing cached.      *)
Shaking(c) ==
  remote[c].at \in {"handshake", "put"} => lock = c /\ ~Sessions!Cached(remote[c].key)

SessionInv ==
  /\ Sessions!TypeOK
  /\ \A c \in Caller : Shaking(c) /\ (remote[c].at # "idle" => remote[c].key \in Key)

Remote == [at : {"idle", "peek", "lock", "handshake", "put", "send"},
           key : Key \cup {"none"}, attempt : 0..1, sid : {"sid", ""}]
Cache == [Key -> {"sid", "", "absent"}]

LEMMA SessionTypes ==
  Sessions!TypeOK <=> sessionCache \in Cache /\ lock \in Caller \cup {"none"}
                      /\ remote \in [Caller -> Remote]
BY DEF Sessions!TypeOK, Cache, Remote, Sessions!Session, Sessions!Absent, Sessions!None

(* A step of call c keeps the invariant if c is right and the cache and    *)
(* the lock serve whoever else is shaking hands.                           *)
LEMMA CallKeeps ==
  ASSUME SessionInv, NEW c \in Caller, NEW r \in Remote, remote' = [remote EXCEPT ![c] = r],
         sessionCache' \in Cache, lock' \in Caller \cup {"none"},
         r.at # "idle" => r.key \in Key,
         r.at \in {"handshake", "put"} => lock' = c /\ sessionCache'[r.key] = "absent",
         \A d \in Caller \ {c} : remote[d].at \in {"handshake", "put"}
           => lock' = d /\ sessionCache'[remote[d].key] = "absent"
  PROVE  SessionInv'
<1>1. remote \in [Caller -> Remote]
  BY SessionTypes DEF SessionInv
<1>2. remote' \in [Caller -> Remote] /\ remote'[c] = r
      /\ \A d \in Caller \ {c} : remote'[d] = remote[d]
  BY <1>1
<1>3. Sessions!TypeOK'
  BY <1>2 DEF Sessions!TypeOK, Cache, Remote, Sessions!Session, Sessions!Absent, Sessions!None
<1>4. \A d \in Caller : Shaking(d)'
  BY <1>2 DEF Shaking, Sessions!Cached, Sessions!Absent
<1>5. \A d \in Caller : remote'[d].at # "idle" => remote'[d].key \in Key
  BY <1>2 DEF SessionInv
<1> QED BY <1>3, <1>4, <1>5 DEF SessionInv

LEMMA SessionStep ==
  ASSUME "none" \notin Caller, SessionInv, Sessions!Next
  PROVE  SessionInv'
<1> USE DEF Sessions!Absent, Sessions!Session, Sessions!None
<1>0. /\ sessionCache \in Cache /\ lock \in Caller \cup {"none"} /\ remote \in [Caller -> Remote]
      /\ \A c \in Caller : remote[c].at # "idle" => remote[c].key \in Key
      /\ \A c \in Caller : remote[c].at \in {"handshake", "put"}
            => lock = c /\ sessionCache[remote[c].key] = "absent"
  BY SessionTypes DEF SessionInv, Shaking, Sessions!Cached
<1>1. ASSUME NEW c \in Caller, NEW r \in Remote, remote' = [remote EXCEPT ![c] = r],
             UNCHANGED sessionCache, lock' = lock,
             r.at # "idle" => r.key \in Key, r.at \notin {"handshake", "put"}
      PROVE  SessionInv'
  BY <1>0, <1>1, CallKeeps
<1>2. ASSUME NEW c \in Caller, Sessions!Call(c) PROVE SessionInv'
  <2>1. PICK k \in Key, a \in 0..1 :
          remote' = [remote EXCEPT ![c] = [Sessions!Idle EXCEPT !.at = "peek", !.key = k, !.attempt = a]]
    BY <1>2 DEF Sessions!Call
  <2> DEFINE r == [Sessions!Idle EXCEPT !.at = "peek", !.key = k, !.attempt = a]
  <2>2. r \in Remote /\ r.at = "peek" /\ r.key = k
    <3>1. Sessions!Idle \in Remote
      BY DEF Remote, Sessions!Idle
    <3> QED BY <3>1 DEF Remote
  <2> QED BY <1>1, <1>2, <2>1, <2>2 DEF Sessions!Call
<1>3. ASSUME NEW c \in Caller, Sessions!Peek(c) PROVE SessionInv'
  <2> DEFINE r == IF sessionCache[remote[c].key] # "absent"
                  THEN [remote[c] EXCEPT !.at = "send", !.sid = sessionCache[remote[c].key]]
                  ELSE [remote[c] EXCEPT !.at = "lock"]
  <2>1. remote[c].key \in Key
    BY <1>0, <1>3 DEF Sessions!Peek
  <2>2. r \in Remote /\ r.at \in {"send", "lock"} /\ r.key = remote[c].key
    BY <1>0, <2>1 DEF Remote, Cache
  <2>3. remote' = [remote EXCEPT ![c] = r]
    BY <1>3 DEF Sessions!Peek, Sessions!Cached
  <2> QED BY <1>1, <1>3, <2>1, <2>2, <2>3 DEF Sessions!Peek
<1>4. ASSUME NEW c \in Caller, Sessions!DoubleCheck(c) PROVE SessionInv'
  <2>1. remote[c].key \in Key /\ lock = "none" /\ UNCHANGED sessionCache
    BY <1>0, <1>4 DEF Sessions!DoubleCheck
  <2>2. CASE sessionCache[remote[c].key] # "absent"
    <3> DEFINE r == [remote[c] EXCEPT !.at = "send", !.sid = sessionCache[remote[c].key]]
    <3>1. r \in Remote /\ r.at = "send" /\ r.key = remote[c].key
      BY <1>0, <2>1, <2>2 DEF Remote, Cache
    <3>2. remote' = [remote EXCEPT ![c] = r] /\ lock' = lock
      BY <1>0, <1>4, <2>2 DEF Sessions!DoubleCheck, Sessions!Cached
    <3> QED BY <1>1, <2>1, <3>1, <3>2
  <2>3. CASE sessionCache[remote[c].key] = "absent"
    <3> DEFINE r == [remote[c] EXCEPT !.at = "handshake"]
    <3>1. r \in Remote /\ r.at = "handshake" /\ r.key = remote[c].key
      BY <1>0 DEF Remote
    <3>2. remote' = [remote EXCEPT ![c] = r] /\ lock' = c
      BY <1>0, <1>4, <2>3 DEF Sessions!DoubleCheck, Sessions!Cached
    <3>3. \A d \in Caller : remote[d].at \notin {"handshake", "put"}
      BY <1>0, <2>1
    <3> HIDE DEF r
    <3> QED BY <1>0, <2>1, <2>3, <3>1, <3>2, <3>3, CallKeeps
  <2> QED BY <2>2, <2>3
<1>5. ASSUME NEW c \in Caller, Sessions!performRemoteMCPHandshake(c) PROVE SessionInv'
  <2>1. PICK sid \in {"sid", ""} : remote' = [remote EXCEPT ![c].at = "put", ![c].sid = sid]
    BY <1>5 DEF Sessions!performRemoteMCPHandshake
  <2> DEFINE r == [remote[c] EXCEPT !.at = "put", !.sid = sid]
  <2>2. r \in Remote /\ r.at = "put" /\ r.key = remote[c].key
    BY <1>0 DEF Remote
  <2>3. remote' = [remote EXCEPT ![c] = r]
    BY <1>0, <2>1
  <2> HIDE DEF r
  <2>4. /\ remote[c].at = "handshake" /\ lock' = lock /\ UNCHANGED sessionCache
        /\ remote[c].key \in Key
    BY <1>0, <1>5 DEF Sessions!performRemoteMCPHandshake
  <2> QED BY <1>0, <2>2, <2>3, <2>4, CallKeeps
<1>6. ASSUME NEW c \in Caller, Sessions!PutSession(c) PROVE SessionInv'
  <2>1. sessionCache' \in Cache /\ lock' = "none" /\ remote[c].at = "put"
    BY <1>0, <1>6 DEF Sessions!PutSession, Cache, Remote
  <2> DEFINE r == [remote[c] EXCEPT !.at = "send"]
  <2>2. r \in Remote /\ r.at = "send" /\ r.key = remote[c].key
    BY <1>0 DEF Remote
  <2>3. remote' = [remote EXCEPT ![c] = r]
    BY <1>0, <1>6 DEF Sessions!PutSession
  <2> HIDE DEF r
  <2>4. \A d \in Caller \ {c} : remote[d].at \notin {"handshake", "put"}
    BY <1>0, <2>1
  <2> QED BY <1>0, <2>1, <2>2, <2>3, <2>4, CallKeeps
<1>7. ASSUME NEW c \in Caller, Sessions!Answered(c) PROVE SessionInv'
  <2>1. Sessions!Idle \in Remote /\ Sessions!Idle.at = "idle"
    BY DEF Sessions!Idle, Remote
  <2> QED BY <1>1, <1>7, <2>1 DEF Sessions!Answered
<1>8. ASSUME NEW c \in Caller, Sessions!Unauthorized(c) PROVE SessionInv'
  <2>1. CASE remote[c].attempt = 0
    <3> DEFINE r == [remote[c] EXCEPT !.at = "peek", !.attempt = 1]
    <3>1. r \in Remote /\ r.at = "peek" /\ r.key = remote[c].key
      <4>1. remote[c] \in Remote /\ 1 \in 0..1
        BY <1>0
      <4> QED BY <4>1 DEF Remote
    <3>2. remote' = [remote EXCEPT ![c] = r] /\ lock' = lock /\ remote[c].at = "send"
      BY <1>0, <1>8, <2>1 DEF Sessions!Unauthorized
    <3>3. sessionCache' \in Cache /\ \A k \in Key : sessionCache[k] = "absent" => sessionCache'[k] = "absent"
      BY <1>0, <1>8, <2>1 DEF Sessions!Unauthorized, Sessions!Remove, Cache
    <3> HIDE DEF r
    <3> QED BY <1>0, <3>1, <3>2, <3>3, CallKeeps
  <2>2. CASE remote[c].attempt # 0
    <3>1. Sessions!Idle \in Remote /\ Sessions!Idle.at = "idle"
      BY DEF Sessions!Idle, Remote
    <3> QED BY <1>1, <1>8, <2>2, <3>1 DEF Sessions!Unauthorized
  <2> QED BY <2>1, <2>2
<1>9. ASSUME Sessions!InvalidateSessionCache PROVE SessionInv'
  <2>1. sessionCache' \in Cache /\ \A k \in Key : sessionCache'[k] = "absent"
    BY <1>9 DEF Sessions!InvalidateSessionCache, Sessions!Remove, Cache
  <2>2. UNCHANGED <<lock, remote>>
    BY <1>9 DEF Sessions!InvalidateSessionCache
  <2>3. Sessions!TypeOK'
    BY <1>0, <2>1, <2>2 DEF Sessions!TypeOK, Cache, Remote
  <2> QED BY <1>0, <2>1, <2>2, <2>3 DEF SessionInv, Shaking, Sessions!Cached
<1> QED BY <1>2, <1>3, <1>4, <1>5, <1>6, <1>7, <1>8, <1>9 DEF Sessions!Next

(* Concurrent first accesses to a remote server shake hands once: while a  *)
(* call does, no other does, and there was no session it could have used.  *)
(* For any number of calls and keys and any cache size, whatever 401s and  *)
(* reloads remove meanwhile.                                               *)
THEOREM McpHandshakeOnce ==
  ASSUME "none" \notin Caller
  PROVE  Sessions!Init /\ [][Sessions!Next]_(Sessions!sessionVars) => []Sessions!HandshakeOnce
<1>1. Sessions!Init => SessionInv
  <2> SUFFICES ASSUME Sessions!Init PROVE SessionInv
    OBVIOUS
  <2>1. Sessions!Idle \in Remote /\ Sessions!Idle.at = "idle"
    BY DEF Sessions!Idle, Remote, Sessions!None
  <2>2. /\ sessionCache \in Cache /\ lock = "none"
        /\ remote = [c \in Caller |-> Sessions!Idle]
    BY DEF Sessions!Init, Cache, Sessions!Absent, Sessions!None
  <2>3. Sessions!TypeOK
    BY <2>1, <2>2, SessionTypes
  <2> QED BY <2>1, <2>2, <2>3 DEF SessionInv, Shaking
<1>2. SessionInv /\ [Sessions!Next]_(Sessions!sessionVars) => SessionInv'
  <2>1. ASSUME SessionInv, UNCHANGED Sessions!sessionVars PROVE SessionInv'
    BY <2>1 DEF Sessions!sessionVars, SessionInv, Sessions!TypeOK, Shaking, Sessions!Cached
  <2> QED BY <2>1, SessionStep
<1>3. SessionInv => Sessions!HandshakeOnce
  BY DEF SessionInv, Shaking, Sessions!HandshakeOnce
<1> QED BY <1>1, <1>2, <1>3, PTL

-----------------------------------------------------------------------------
(* Tool servers run as subprocesses.                                       *)

CONSTANTS Server, MaxClients, MaxBreaks, PatternKill
VARIABLES clients, started, processCache, failed, handshake, callers, breaks, closed
Clients == INSTANCE McpClients

Record == [server : Server \cup {"none"}, proc : {"running", "gone"},
           reader : {"running", "dead"}, ready : BOOLEAN]
Place == {"idle", "sweep", "start", "store", "handshake", "initialize", "close", "use",
          "broken", "again"}
Asking == [at : Place, server : Server \cup {"none"}, cli : 0..MaxClients, retried : BOOLEAN]

ClientTypes ==
  /\ clients \in [1..MaxClients -> Record] /\ started \in 0..MaxClients
  /\ processCache \in [Server -> 0..started] /\ failed \subseteq Server
  /\ handshake \in [Server -> Caller \cup {"none"}]
  /\ callers \in [Caller -> Asking] /\ breaks \in 0..MaxBreaks /\ closed \in BOOLEAN

(* A caller knows its server and, once it has one, a client that was       *)
(* started; it initializes under the server's lock and uses what is ready. *)
Knows(c) ==
  /\ callers[c].at # "idle" => callers[c].server \in Server
  /\ callers[c].cli <= started
  /\ callers[c].at \in {"store", "handshake", "initialize", "close", "use"} => callers[c].cli # 0
  /\ callers[c].at = "use" => clients[callers[c].cli].ready
  /\ callers[c].at \in {"initialize", "close"} => handshake[callers[c].server] = c

Alive(n) == clients[n].proc = "running" /\ clients[n].reader = "running"
Kept(n) ==
  Alive(n) =>
    \/ \E s \in Server : processCache[s] = n
    \/ \E c \in Caller : callers[c].cli = n /\ callers[c].at \in {"store", "close"}

ClientInv ==
  /\ ClientTypes
  /\ \A c \in Caller : Knows(c)
  /\ \A n \in 1..MaxClients : Kept(n)

(* Closing a client keeps its record well typed, and whether it was ready. *)
LEMMA CloseClient ==
  ASSUME clients \in [1..MaxClients -> Record], NEW n
  PROVE  /\ Clients!Close(n) \in [1..MaxClients -> Record]
         /\ \A m \in 1..MaxClients : /\ Clients!Close(n)[m].ready = clients[m].ready
                                     /\ m # n => Clients!Close(n)[m] = clients[m]
         /\ n \in 1..MaxClients => Clients!Close(n)[n].proc = "gone"
<1>1. \A q \in Record : Clients!Closed(q) \in Record /\ Clients!Closed(q).ready = q.ready
                        /\ Clients!Closed(q).proc = "gone"
  BY DEF Clients!Closed, Record
<1> QED BY <1>1 DEF Clients!Close

(* A step of caller c that starts no client keeps what the others know.    *)
LEMMA CallerKeeps ==
  ASSUME MaxClients \in Nat, ClientInv, NEW c \in Caller, NEW r \in Asking,
         callers' = [callers EXCEPT ![c] = r], UNCHANGED <<started, breaks, closed>>,
         clients' \in [1..MaxClients -> Record], processCache' \in [Server -> 0..started],
         failed' \subseteq Server, handshake' \in [Server -> Caller \cup {"none"}],
         \A n \in 1..MaxClients : clients[n].ready => clients'[n].ready,
         \A d \in Caller \ {c} : callers[d].at \in {"initialize", "close"}
           => handshake'[callers[d].server] = d,
         Knows(c)', \A n \in 1..MaxClients : Kept(n)'
  PROVE  ClientInv'
<1>1. callers \in [Caller -> Asking] /\ started \in 0..MaxClients
      /\ breaks \in 0..MaxBreaks /\ closed \in BOOLEAN
  BY DEF ClientInv, ClientTypes
<1>2. callers' \in [Caller -> Asking] /\ \A d \in Caller \ {c} : callers'[d] = callers[d]
  BY <1>1
<1>3. ClientTypes'
  BY <1>1, <1>2 DEF ClientTypes
<1>4. ASSUME NEW d \in Caller \ {c} PROVE Knows(d)'
  <2>1. Knows(d) /\ callers[d] \in Asking
    BY <1>1 DEF ClientInv
  <2>2. callers[d].cli \in 0..MaxClients
    BY <2>1 DEF Asking
  <2> QED BY <1>1, <1>2, <2>1, <2>2 DEF Knows
<1> QED BY <1>3, <1>4 DEF ClientInv

(* A client stays in somebody's hands when c moves.                        *)
LEMMA KeptByMove ==
  ASSUME ClientInv, NEW c \in Caller, NEW r, callers' = [callers EXCEPT ![c] = r],
         NEW n \in 1..MaxClients, Alive(n)' => Alive(n),
         Alive(n)' => \A s \in Server : processCache[s] = n => \E t \in Server : processCache'[t] = n,
         Alive(n)' /\ callers[c].cli = n /\ callers[c].at \in {"store", "close"}
           => \/ \E s \in Server : processCache'[s] = n
              \/ r.cli = n /\ r.at \in {"store", "close"}
  PROVE  Kept(n)'
<1>1. callers \in [Caller -> Asking] /\ Kept(n)
  BY DEF ClientInv, ClientTypes
<1>2. callers'[c] = r /\ \A d \in Caller \ {c} : callers'[d] = callers[d]
  BY <1>1
<1> QED BY <1>1, <1>2 DEF Kept

(* What every action starts from.                                          *)
LEMMA ClientFacts ==
  ASSUME MaxClients \in Nat, ClientInv, NEW c \in Caller
  PROVE  /\ clients \in [1..MaxClients -> Record] /\ started \in 0..MaxClients
         /\ processCache \in [Server -> 0..started] /\ failed \subseteq Server
         /\ handshake \in [Server -> Caller \cup {"none"}]
         /\ callers \in [Caller -> Asking] /\ callers[c] \in Asking
         /\ callers[c].cli \in 0..started /\ Knows(c)
         /\ \A d \in Caller \ {c} : callers[d].at \in {"initialize", "close"}
              => handshake[callers[d].server] = d /\ callers[d].server \in Server
         /\ \A s \in Server : processCache[s] \in 0..MaxClients
<1>1. ClientTypes /\ \A d \in Caller : Knows(d)
  BY DEF ClientInv
<1>2. callers[c].cli \in 0..MaxClients
  BY <1>1 DEF ClientTypes, Asking
<1> QED BY <1>1, <1>2 DEF ClientTypes, Knows

(* A caller that only moves on holds no client that is not stored.         *)
LEMMA CallerMoves ==
  ASSUME MaxClients \in Nat, ClientInv, NEW c \in Caller, NEW r \in Asking,
         callers' = [callers EXCEPT ![c] = r],
         callers[c].at \notin {"store", "close"},
         UNCHANGED <<clients, started, processCache, handshake, breaks, closed>>,
         failed' \subseteq Server, Knows(c)'
  PROVE  ClientInv'
<1>1. ASSUME NEW n \in 1..MaxClients PROVE Kept(n)'
  <2>1. Alive(n)' => Alive(n)
    BY DEF Alive
  <2> QED BY <2>1, KeptByMove
<1> QED BY <1>1, ClientFacts, CallerKeeps

(* A caller's record after a move of the code.                             *)
LEMMA AskingMoves ==
  ASSUME NEW q \in Asking, NEW a \in Place
  PROVE  /\ [q EXCEPT !.at = a] \in Asking
         /\ [q EXCEPT !.at = a].at = a /\ [q EXCEPT !.at = a].server = q.server
         /\ [q EXCEPT !.at = a].cli = q.cli
BY DEF Asking

(* A caller that has ended or given up.                                    *)
LEMMA IdleIsAsking ==
  ASSUME MaxClients \in Nat
  PROVE  Clients!Idle \in Asking /\ Clients!Idle.at = "idle" /\ Clients!Idle.cli = 0
BY DEF Clients!Idle, Clients!None, Asking, Place

LEMMA EnsureKeeps ==
  ASSUME MaxClients \in Nat, ClientInv, NEW c \in Caller, Clients!Ensure(c)
  PROVE  ClientInv'
<1>0. PICK s \in Server :
        /\ processCache' = Clients!Lookup(s).cache
        /\ callers' = [callers EXCEPT ![c] = [@ EXCEPT !.at = Clients!Lookup(s).at, !.server = s,
                                                       !.cli = Clients!Lookup(s).cli]]
  <2>1. callers[c].at # "idle" => callers[c].server \in Server
    BY ClientFacts DEF Knows
  <2>2. PICK s \in IF callers[c].at = "idle" THEN Server ELSE {callers[c].server} :
          /\ processCache' = Clients!Lookup(s).cache
          /\ callers' = [callers EXCEPT ![c] = [@ EXCEPT !.at = Clients!Lookup(s).at, !.server = s,
                                                         !.cli = Clients!Lookup(s).cli]]
    BY Zenon DEF Clients!Ensure
  <2>3. s \in Server
    BY <2>1, <2>2
  <2> QED BY <2>2, <2>3
<1>1. callers[c].at \in {"idle", "again"}
      /\ UNCHANGED <<clients, started, failed, handshake, breaks, closed>>
  BY DEF Clients!Ensure
<1> DEFINE r == [callers[c] EXCEPT !.at = Clients!Lookup(s).at, !.server = s,
                                   !.cli = Clients!Lookup(s).cli]
<1>2. CASE Clients!LiveClient(processCache[s])
  <2>1. /\ Clients!Lookup(s).at = "handshake" /\ Clients!Lookup(s).cli = processCache[s]
        /\ processCache' = processCache
    BY <1>0, <1>2 DEF Clients!Lookup
  <2>2. processCache[s] \in 1..started /\ processCache[s] \in 0..MaxClients
    BY <1>2, ClientFacts DEF Clients!LiveClient
  <2>3. r \in Asking /\ r.at = "handshake" /\ r.server = s /\ r.cli = processCache[s]
    <3>1. callers[c] \in Asking /\ "handshake" \in Place
      BY ClientFacts DEF Place
    <3> QED BY <2>1, <2>2, <3>1 DEF Asking
  <2>4. callers' = [callers EXCEPT ![c] = r]
    BY <1>0
  <2> HIDE DEF r
  <2>5. Knows(c)'
    BY <1>1, <2>2, <2>3, <2>4, ClientFacts DEF Knows
  <2> QED BY <1>1, <2>1, <2>3, <2>4, <2>5, ClientFacts, CallerMoves
<1>3. CASE ~Clients!LiveClient(processCache[s])
  <2>1. /\ Clients!Lookup(s).at = "sweep" /\ Clients!Lookup(s).cli = 0
        /\ processCache' = [processCache EXCEPT ![s] = 0]
    BY <1>0, <1>3 DEF Clients!Lookup
  <2>2. r \in Asking /\ r.at = "sweep" /\ r.server = s /\ r.cli = 0
    <3>1. callers[c] \in Asking /\ "sweep" \in Place /\ 0 \in 0..MaxClients
      BY ClientFacts DEF Place
    <3> QED BY <2>1, <3>1 DEF Asking
  <2>3. callers' = [callers EXCEPT ![c] = r]
    BY <1>0
  <2> HIDE DEF r
  <2>4. Knows(c)'
    BY <1>1, <2>2, <2>3, ClientFacts DEF Knows
  <2>5. ASSUME NEW n \in 1..MaxClients PROVE Kept(n)'
    <3>1. Alive(n)' => Alive(n)
      BY <1>1 DEF Alive
    <3>2. ASSUME Alive(n), NEW t \in Server, processCache[t] = n PROVE processCache'[t] = n
      <4>1. t # s
        BY <1>3, <3>2 DEF Alive, Clients!LiveClient
      <4> QED BY <2>1, <3>2, <4>1, ClientFacts
    <3> QED BY <1>1, <2>3, <3>1, <3>2, KeptByMove
  <2>6. processCache' \in [Server -> 0..started]
    BY <2>1, ClientFacts
  <2> QED BY <1>1, <2>2, <2>3, <2>4, <2>5, <2>6, ClientFacts, CallerKeeps
<1> QED BY <1>2, <1>3

LEMMA SweepKeeps ==
  ASSUME MaxClients \in Nat, ClientInv, NEW c \in Caller, Clients!Sweep(c)
  PROVE  ClientInv'
<1>1. /\ callers[c].at = "sweep" /\ callers' = [callers EXCEPT ![c].at = "start"]
      /\ UNCHANGED <<started, processCache, failed, handshake, breaks, closed>>
  BY DEF Clients!Sweep, Clients!Goto
<1>2. /\ clients' \in [1..MaxClients -> Record]
      /\ \A n \in 1..MaxClients : /\ clients'[n].ready = clients[n].ready
                                  /\ clients'[n] = clients[n] \/ clients'[n].proc = "gone"
  <2>1. \A q \in Record : [q EXCEPT !.proc = "gone"] \in Record
                          /\ [q EXCEPT !.proc = "gone"].ready = q.ready
                          /\ [q EXCEPT !.proc = "gone"].proc = "gone"
    BY DEF Record
  <2> QED BY <2>1, ClientFacts DEF Clients!Sweep, Clients!Client
<1> DEFINE r == [callers[c] EXCEPT !.at = "start"]
<1>3. r \in Asking /\ r.at = "start" /\ r.server = callers[c].server /\ r.cli = callers[c].cli
  <2>1. callers[c] \in Asking /\ "start" \in Place
    BY ClientFacts DEF Place
  <2> QED BY <2>1, AskingMoves
<1>4. callers' = [callers EXCEPT ![c] = r]
  BY <1>1, ClientFacts
<1> HIDE DEF r
<1>5. Knows(c)'
  BY <1>1, <1>3, <1>4, ClientFacts DEF Knows
<1>6. ASSUME NEW n \in 1..MaxClients PROVE Kept(n)'
  <2>1. Alive(n)' => Alive(n)
    BY <1>2 DEF Alive
  <2> QED BY <1>1, <1>4, <2>1, KeptByMove
<1> QED BY <1>1, <1>2, <1>3, <1>4, <1>5, <1>6, ClientFacts, CallerKeeps

LEMMA NewClientKeeps ==
  ASSUME MaxClients \in Nat, ClientInv, NEW c \in Caller, Clients!NewMCPClient(c)
  PROVE  ClientInv'
<1> DEFINE q == [server |-> callers[c].server, proc |-> "running", reader |-> "running", ready |-> FALSE]
           r == [callers[c] EXCEPT !.at = "store", !.cli = started']
<1>1. /\ callers[c].at = "start" /\ started < MaxClients /\ started' = started + 1
      /\ clients' = [clients EXCEPT ![started'] = q]
      /\ callers' = [callers EXCEPT ![c].at = "store", ![c].cli = started']
      /\ UNCHANGED <<processCache, failed, handshake, breaks, closed>>
  BY DEF Clients!NewMCPClient
<1>2. started' \in 1..MaxClients /\ started \in Nat
  BY <1>1, ClientFacts
<1>3. q \in Record /\ callers[c].server \in Server
  BY <1>1, ClientFacts DEF Record, Knows
<1>4. r \in Asking /\ r.at = "store" /\ r.server = callers[c].server /\ r.cli = started'
  <2>1. callers[c] \in Asking /\ "store" \in Place /\ started' \in 0..MaxClients
    BY <1>2, ClientFacts DEF Place
  <2> QED BY <2>1 DEF Asking
<1>5. callers' = [callers EXCEPT ![c] = r]
  BY <1>1, ClientFacts
<1> HIDE DEF r, q
<1>6. /\ clients' \in [1..MaxClients -> Record]
      /\ \A n \in 1..MaxClients : n # started' => clients'[n] = clients[n]
  BY <1>1, <1>2, <1>3, ClientFacts
<1>7. callers' \in [Caller -> Asking] /\ callers'[c] = r
      /\ \A d \in Caller \ {c} : callers'[d] = callers[d]
  BY <1>4, <1>5, ClientFacts
<1>8. ClientTypes'
  <2>1. processCache' \in [Server -> 0..started']
    BY <1>1, <1>2, ClientFacts
  <2>2. breaks' \in 0..MaxBreaks /\ closed' \in BOOLEAN
    BY <1>1 DEF ClientInv, ClientTypes
  <2> QED BY <1>1, <1>2, <1>6, <1>7, <2>1, <2>2, ClientFacts DEF ClientTypes
<1>9. ASSUME NEW d \in Caller PROVE Knows(d)'
  <2>1. CASE d = c
    BY <1>2, <1>3, <1>4, <1>7, <2>1 DEF Knows
  <2>2. CASE d # c
    <3>1. Knows(d) /\ callers[d].cli \in 0..started
      BY ClientFacts
    <3> QED BY <1>1, <1>2, <1>6, <1>7, <2>2, <3>1, ClientFacts DEF Knows
  <2> QED BY <2>1, <2>2
<1>10. ASSUME NEW n \in 1..MaxClients PROVE Kept(n)'
  <2>1. CASE n = started'
    BY <1>4, <1>7, <2>1 DEF Kept
  <2>2. CASE n # started'
    <3>1. Alive(n)' => Alive(n)
      BY <1>6, <2>2 DEF Alive
    <3> QED BY <1>1, <1>5, <3>1, KeptByMove
  <2> QED BY <2>1, <2>2
<1> QED BY <1>8, <1>9, <1>10 DEF ClientInv

(* A caller that gives up, or is answered, held nothing.                   *)
LEMMA EndKeeps ==
  ASSUME MaxClients \in Nat, ClientInv, NEW c \in Caller,
         Clients!StartFails(c) \/ Clients!Answered(c) \/ Clients!ConnectionBroke(c)
  PROVE  ClientInv'
<1>1. /\ callers[c].at \in {"start", "use"} /\ failed' \subseteq Server
      /\ UNCHANGED <<clients, started, processCache, handshake, breaks, closed>>
  <2>1. callers[c].at # "idle" => callers[c].server \in Server
    BY ClientFacts DEF Knows
  <2> QED BY <2>1, ClientFacts DEF Clients!StartFails, Clients!Answered, Clients!ConnectionBroke
<1>2. CASE callers' = [callers EXCEPT ![c] = Clients!Idle]
  <2>1. callers'[c] = Clients!Idle
    BY <1>2, ClientFacts
  <2>2. Knows(c)'
    BY <1>1, <2>1, IdleIsAsking, ClientFacts DEF Knows
  <2> QED BY <1>1, <1>2, <2>2, IdleIsAsking, CallerMoves
<1>3. CASE callers' = [callers EXCEPT ![c].at = "broken"]
  <2> DEFINE r == [callers[c] EXCEPT !.at = "broken"]
  <2>1. callers[c] \in Asking /\ "broken" \in Place
    BY ClientFacts DEF Place
  <2>2. r \in Asking /\ r.at = "broken" /\ r.server = callers[c].server /\ r.cli = callers[c].cli
    BY <2>1, AskingMoves
  <2>3. callers' = [callers EXCEPT ![c] = r]
    BY <1>3, ClientFacts
  <2> HIDE DEF r
  <2>4. Knows(c)'
    BY <1>1, <2>2, <2>3, ClientFacts DEF Knows
  <2> QED BY <1>1, <2>2, <2>3, <2>4, CallerMoves
<1> QED BY <1>2, <1>3 DEF Clients!StartFails, Clients!Answered, Clients!ConnectionBroke, Clients!Goto

(* Of two clients started at once, the one not stored is closed; the one   *)
(* evicted is closed; the one replaced was dead.                           *)
LEMMA StoreKeeps ==
  ASSUME MaxClients \in Nat, ClientInv, NEW c \in Caller, Clients!Store(c)
  PROVE  ClientInv'
<1> DEFINE s == callers[c].server
           new == callers[c].cli
           r == [callers[c] EXCEPT !.at = "handshake"]
<1>1. /\ callers[c].at = "store" /\ s \in Server /\ new \in 1..started
      /\ UNCHANGED <<started, failed, handshake, breaks, closed>>
  BY ClientFacts DEF Clients!Store, Knows
<1>2. r \in Asking /\ r.at = "handshake" /\ r.server = s /\ r.cli = new
  <2>1. callers[c] \in Asking /\ "handshake" \in Place
    BY ClientFacts DEF Place
  <2> QED BY <2>1, AskingMoves
<1>3. CASE /\ Clients!LiveClient(processCache[s]) /\ clients' = Clients!Close(new)
           /\ callers' = [callers EXCEPT ![c].at = "handshake", ![c].cli = processCache[s]]
           /\ UNCHANGED processCache
  <2> DEFINE q == [callers[c] EXCEPT !.at = "handshake", !.cli = processCache[s]]
  <2>1. processCache[s] \in 1..started /\ processCache[s] \in 0..MaxClients
    BY <1>1, <1>3, ClientFacts DEF Clients!LiveClient
  <2>2. q \in Asking /\ q.at = "handshake" /\ q.server = s /\ q.cli = processCache[s]
    <3>1. callers[c] \in Asking /\ "handshake" \in Place
      BY ClientFacts DEF Place
    <3> QED BY <2>1, <3>1 DEF Asking
  <2>3. callers' = [callers EXCEPT ![c] = q]
    BY <1>3, ClientFacts
  <2> HIDE DEF q, r
  <2>4. Knows(c)'
    BY <1>1, <2>1, <2>2, <2>3, ClientFacts DEF Knows
  <2>5. /\ clients' \in [1..MaxClients -> Record] /\ clients'[new].proc = "gone"
        /\ \A n \in 1..MaxClients : clients'[n].ready = clients[n].ready /\ (n # new => clients'[n] = clients[n])
    BY <1>1, <1>3, ClientFacts, CloseClient
  <2>6. ASSUME NEW n \in 1..MaxClients PROVE Kept(n)'
    <3>1. (Alive(n)' => Alive(n)) /\ (Alive(n)' => n # new)
      BY <2>5 DEF Alive
    <3> QED BY <1>1, <1>3, <2>3, <3>1, KeptByMove
  <2>7. /\ processCache' \in [Server -> 0..started] /\ failed' \subseteq Server
        /\ handshake' \in [Server -> Caller \cup {"none"}]
        /\ \A d \in Caller \ {c} : callers[d].at \in {"initialize", "close"}
             => handshake'[callers[d].server] = d
    BY <1>1, <1>3, ClientFacts
  <2> HIDE DEF s, new
  <2> QED BY <1>1, <2>2, <2>3, <2>4, <2>5, <2>6, <2>7, CallerKeeps
<1>4. ASSUME ~Clients!LiveClient(processCache[s]), callers' = [callers EXCEPT ![c] = r],
             clients' \in [1..MaxClients -> Record], processCache'[s] = new,
             processCache' \in [Server -> 0..started],
             \A n \in 1..MaxClients : /\ clients'[n].ready = clients[n].ready
                                      /\ clients'[n] = clients[n] \/ clients'[n].proc = "gone",
             \A t \in Server \ {s} : processCache[t] # 0 =>
                processCache'[t] = processCache[t] \/ clients'[processCache[t]].proc = "gone"
      PROVE  ClientInv'
  <2> HIDE DEF r
  <2>1. Knows(c)'
    BY <1>1, <1>2, <1>4, ClientFacts DEF Knows
  <2>2. ASSUME NEW n \in 1..MaxClients PROVE Kept(n)'
    <3>1. Alive(n)' => Alive(n)
      BY <1>4 DEF Alive
    <3>2. ASSUME Alive(n)', NEW t \in Server, processCache[t] = n PROVE processCache'[t] = n
      <4>1. t # s
        BY <1>4, <3>1, <3>2 DEF Alive, Clients!LiveClient
      <4> QED BY <1>4, <3>2, <4>1 DEF Alive
    <3> QED BY <1>1, <1>4, <3>1, <3>2, KeptByMove
  <2> QED BY <1>1, <1>2, <1>4, <2>1, <2>2, ClientFacts, CallerKeeps
<1>5. callers' = [callers EXCEPT ![c].at = "handshake"] => callers' = [callers EXCEPT ![c] = r]
  BY ClientFacts
<1>6. CASE /\ ~Clients!LiveClient(processCache[s]) /\ processCache' = [processCache EXCEPT ![s] = new]
           /\ callers' = [callers EXCEPT ![c].at = "handshake"] /\ UNCHANGED clients
  <2>1. /\ processCache' \in [Server -> 0..started] /\ processCache'[s] = new
        /\ \A t \in Server \ {s} : processCache'[t] = processCache[t]
    BY <1>1, <1>6, ClientFacts
  <2> HIDE DEF r, s, new
  <2> QED BY <1>4, <1>5, <1>6, <2>1, ClientFacts
<1>7. CASE /\ ~Clients!LiveClient(processCache[s]) /\ callers' = [callers EXCEPT ![c].at = "handshake"]
           /\ \E victim \in Clients!Cached :
                /\ clients' = Clients!Close(processCache[victim])
                /\ processCache' = [processCache EXCEPT ![victim] = 0, ![s] = new]
  <2>1. PICK victim \in Server : /\ processCache[victim] # 0
                                 /\ clients' = Clients!Close(processCache[victim])
                                 /\ processCache' = [processCache EXCEPT ![victim] = 0, ![s] = new]
    BY <1>7 DEF Clients!Cached
  <2>2. /\ processCache' \in [Server -> 0..started] /\ processCache'[s] = new
        /\ \A t \in Server \ {s, victim} : processCache'[t] = processCache[t]
    <3>1. processCache \in [Server -> 0..started] /\ 0 \in 0..started /\ new \in 0..started
      BY <1>1, ClientFacts
    <3> HIDE DEF s, new
    <3> QED BY <1>1, <2>1, <3>1
  <2>3. /\ clients' \in [1..MaxClients -> Record] /\ clients'[processCache[victim]].proc = "gone"
        /\ \A n \in 1..MaxClients : /\ clients'[n].ready = clients[n].ready
                                    /\ n # processCache[victim] => clients'[n] = clients[n]
    <3>1. processCache[victim] \in 1..MaxClients
      BY <2>1, ClientFacts
    <3> QED BY <2>1, <3>1, ClientFacts, CloseClient
  <2> HIDE DEF r, s, new
  <2> QED BY <1>4, <1>5, <1>7, <2>2, <2>3
<1> QED BY <1>3, <1>6, <1>7 DEF Clients!Store, Clients!Goto

(* Under the server's lock the client is initialized, or taken out of the  *)
(* cache by the caller that then closes it.                                *)
LEMMA HandshakeKeeps ==
  ASSUME MaxClients \in Nat, "none" \notin Caller, ClientInv, NEW c \in Caller,
         Clients!LockHandshake(c) \/ Clients!Initialized(c) \/ Clients!InitializeFails(c)
  PROVE  ClientInv'
<1> DEFINE s == callers[c].server
           n == callers[c].cli
<1>1. /\ callers[c].at \in {"handshake", "initialize"} /\ s \in Server
      /\ n \in 1..started /\ n \in 1..MaxClients /\ UNCHANGED <<started, breaks, closed>>
      /\ callers[c].at = "initialize" => handshake[s] = c
  BY ClientFacts DEF Clients!LockHandshake, Clients!Initialized, Clients!InitializeFails, Knows
<1> HIDE DEF s, n
<1>2. ASSUME NEW a \in {"use", "initialize", "close"}, callers' = [callers EXCEPT ![c].at = a],
             clients' \in [1..MaxClients -> Record], processCache' \in [Server -> 0..started],
             failed' \subseteq Server, handshake' \in [Server -> Caller \cup {"none"}],
             \A m \in 1..MaxClients : /\ clients[m].ready => clients'[m].ready
                                      /\ clients'[m].proc = clients[m].proc
                                      /\ clients'[m].reader = clients[m].reader,
             \A t \in Server : handshake'[t] # handshake[t] => t = s /\ handshake[t] \in {c, "none"},
             \A t \in Server : processCache'[t] # processCache[t] => processCache[t] = n /\ a = "close",
             a = "use" => clients'[n].ready, a # "use" => handshake'[s] = c
      PROVE  ClientInv'
  <2> DEFINE r == [callers[c] EXCEPT !.at = a]
  <2>1. callers[c] \in Asking /\ a \in Place
    BY <1>2, ClientFacts DEF Place
  <2>2. r \in Asking /\ r.at = a /\ r.server = s /\ r.cli = n
    BY <2>1, AskingMoves DEF s, n
  <2>3. callers' = [callers EXCEPT ![c] = r]
    BY <1>2, ClientFacts
  <2> HIDE DEF r
  <2>4. callers'[c] = r
    BY <2>3, ClientFacts
  <2>5. Knows(c)'
    <3>1. n <= started /\ n # 0
      BY <1>1, ClientFacts
    <3> QED BY <1>1, <1>2, <2>2, <2>4, <3>1 DEF Knows
  <2>6. ASSUME NEW m \in 1..MaxClients PROVE Kept(m)'
    <3>1. (Alive(m)' => Alive(m)) /\ Kept(m)
      BY <1>2 DEF Alive, ClientInv
    <3>2. CASE \A t \in Server : processCache[t] = m => processCache'[t] = m
      BY <1>1, <2>3, <3>1, <3>2, KeptByMove
    <3>3. CASE m = n /\ a = "close"
      BY <2>2, <2>4, <3>3 DEF Kept
    <3> QED BY <1>2, <3>2, <3>3
  <2>7. \A d \in Caller \ {c} : callers[d].at \in {"initialize", "close"}
           => handshake'[callers[d].server] = d
    BY <1>2, ClientFacts
  <2> QED BY <1>1, <1>2, <2>2, <2>3, <2>5, <2>6, <2>7, CallerKeeps
<1>3. CASE Clients!LockHandshake(c)
  <2>1. /\ handshake[s] = "none" /\ UNCHANGED <<clients, processCache, failed>>
        /\ \/ /\ clients[n].ready /\ callers' = [callers EXCEPT ![c].at = "use"]
              /\ UNCHANGED handshake
           \/ /\ handshake' = [handshake EXCEPT ![s] = c]
              /\ callers' = [callers EXCEPT ![c].at = "initialize"]
    BY <1>3 DEF Clients!LockHandshake, Clients!Goto, Clients!None, s, n
  <2>2. CASE clients[n].ready /\ callers' = [callers EXCEPT ![c].at = "use"] /\ UNCHANGED handshake
    BY <1>2, <2>1, <2>2, ClientFacts
  <2>3. CASE handshake' = [handshake EXCEPT ![s] = c] /\ callers' = [callers EXCEPT ![c].at = "initialize"]
    <3>1. /\ handshake' \in [Server -> Caller \cup {"none"}] /\ handshake'[s] = c
          /\ \A t \in Server \ {s} : handshake'[t] = handshake[t]
      BY <1>1, <2>3, ClientFacts
    <3> QED BY <1>2, <2>1, <2>3, <3>1, ClientFacts
  <2> QED BY <2>1, <2>2, <2>3
<1>4. CASE Clients!Initialized(c)
  <2>1. /\ callers[c].at = "initialize" /\ clients' = [clients EXCEPT ![n].ready = TRUE]
        /\ handshake' = [handshake EXCEPT ![s] = "none"]
        /\ callers' = [callers EXCEPT ![c].at = "use"] /\ UNCHANGED <<processCache, failed>>
    BY <1>4 DEF Clients!Initialized, Clients!Goto, Clients!None, s, n
  <2>2. /\ handshake' \in [Server -> Caller \cup {"none"}]
        /\ \A t \in Server \ {s} : handshake'[t] = handshake[t]
    BY <1>1, <2>1, ClientFacts
  <2>3. clients \in [1..MaxClients -> Record] /\ clients[n] \in Record
    BY <1>1, ClientFacts
  <2>4. /\ [clients[n] EXCEPT !.ready = TRUE] \in Record
        /\ [clients[n] EXCEPT !.ready = TRUE].ready
        /\ [clients[n] EXCEPT !.ready = TRUE].proc = clients[n].proc
        /\ [clients[n] EXCEPT !.ready = TRUE].reader = clients[n].reader
    BY <2>3 DEF Record
  <2>5. /\ clients' \in [1..MaxClients -> Record] /\ clients'[n].ready
        /\ \A m \in 1..MaxClients : /\ clients[m].ready => clients'[m].ready
                                    /\ clients'[m].proc = clients[m].proc
                                    /\ clients'[m].reader = clients[m].reader
    BY <1>1, <2>1, <2>3, <2>4
  <2> QED BY <1>1, <1>2, <2>1, <2>2, <2>5, ClientFacts
<1>5. CASE Clients!InitializeFails(c)
  <2>1. /\ callers[c].at = "initialize" /\ failed' = failed \cup {s}
        /\ processCache' = IF processCache[s] = n THEN [processCache EXCEPT ![s] = 0] ELSE processCache
        /\ callers' = [callers EXCEPT ![c].at = "close"] /\ UNCHANGED <<clients, handshake>>
    BY <1>5 DEF Clients!InitializeFails, Clients!Goto, s, n
  <2>2. /\ processCache' \in [Server -> 0..started]
        /\ \A t \in Server : processCache'[t] # processCache[t] => processCache[t] = n
    BY <1>1, <2>1, ClientFacts
  <2>3. failed' \subseteq Server
    BY <1>1, <2>1, ClientFacts
  <2> QED BY <1>1, <1>2, <2>1, <2>2, <2>3, ClientFacts
<1> QED BY <1>3, <1>4, <1>5

(* The failed client is closed.                                            *)
LEMMA CloseFailedKeeps ==
  ASSUME MaxClients \in Nat, ClientInv, NEW c \in Caller, Clients!CloseFailed(c)
  PROVE  ClientInv'
<1> DEFINE s == callers[c].server
           n == callers[c].cli
<1>1. /\ callers[c].at = "close" /\ s \in Server /\ n \in 1..MaxClients /\ handshake[s] = c
      /\ clients' = Clients!Close(n) /\ handshake' = [handshake EXCEPT ![s] = "none"]
      /\ callers' = [callers EXCEPT ![c] = Clients!Idle]
      /\ UNCHANGED <<started, processCache, failed, breaks, closed>>
  BY ClientFacts DEF Clients!CloseFailed, Clients!None, Knows
<1> HIDE DEF s, n
<1>2. /\ clients' \in [1..MaxClients -> Record] /\ clients'[n].proc = "gone"
      /\ \A m \in 1..MaxClients : clients'[m].ready = clients[m].ready /\ (m # n => clients'[m] = clients[m])
  BY <1>1, ClientFacts, CloseClient
<1>3. /\ handshake' \in [Server -> Caller \cup {"none"}]
      /\ \A t \in Server \ {s} : handshake'[t] = handshake[t]
  BY <1>1, ClientFacts
<1>4. Knows(c)'
  <2>1. callers'[c] = Clients!Idle
    BY <1>1, ClientFacts
  <2> QED BY <1>1, <2>1, IdleIsAsking, ClientFacts DEF Knows
<1>5. ASSUME NEW m \in 1..MaxClients PROVE Kept(m)'
  <2>1. (Alive(m)' => Alive(m)) /\ (Alive(m)' => m # n)
    BY <1>2 DEF Alive
  <2> QED BY <1>1, <2>1, KeptByMove DEF n
<1>6. \A d \in Caller \ {c} : callers[d].at \in {"initialize", "close"}
        => handshake'[callers[d].server] = d
  BY <1>1, <1>3, ClientFacts
<1>7. processCache' \in [Server -> 0..started] /\ failed' \subseteq Server
  BY <1>1, ClientFacts
<1> QED BY <1>1, <1>2, <1>3, <1>4, <1>5, <1>6, <1>7, IdleIsAsking, CallerKeeps

(* EvictClient closes whatever it takes out of the cache.                  *)
LEMMA EvictKeeps ==
  ASSUME MaxClients \in Nat, ClientInv, NEW c \in Caller, Clients!EvictClient(c)
  PROVE  ClientInv'
<1> DEFINE s == callers[c].server
           r == [at |-> "again", server |-> s, cli |-> 0, retried |-> TRUE]
<1>1. /\ callers[c].at = "broken" /\ s \in Server
      /\ clients' = IF processCache[s] = 0 THEN clients ELSE Clients!Close(processCache[s])
      /\ processCache' = [processCache EXCEPT ![s] = 0] /\ callers' = [callers EXCEPT ![c] = r]
      /\ UNCHANGED <<started, failed, handshake, breaks, closed>>
  BY ClientFacts DEF Clients!EvictClient, Knows
<1>2. r \in Asking /\ r.at = "again" /\ r.server = s /\ r.cli = 0
  BY <1>1 DEF Asking, Place
<1> HIDE DEF s, r
<1>3. /\ clients' \in [1..MaxClients -> Record]
      /\ processCache[s] # 0 => clients'[processCache[s]].proc = "gone"
      /\ \A m \in 1..MaxClients : /\ clients'[m].ready = clients[m].ready
                                  /\ m # processCache[s] => clients'[m] = clients[m]
  <2>1. processCache[s] \in 0..MaxClients /\ clients \in [1..MaxClients -> Record]
    BY <1>1, ClientFacts
  <2>2. CASE processCache[s] = 0
    BY <1>1, <2>1, <2>2
  <2>3. CASE processCache[s] # 0
    BY <1>1, <2>1, <2>3, CloseClient
  <2> QED BY <2>2, <2>3
<1>4. /\ processCache' \in [Server -> 0..started]
      /\ \A t \in Server \ {s} : processCache'[t] = processCache[t]
  BY <1>1, ClientFacts
<1>5. Knows(c)'
  <2>1. callers'[c] = r
    BY <1>1, ClientFacts
  <2>2. s \in Server /\ 0 <= started /\ started' = started
    BY <1>1, ClientFacts
  <2> QED BY <1>2, <2>1, <2>2 DEF Knows
<1>6. ASSUME NEW m \in 1..MaxClients PROVE Kept(m)'
  <2>1. (Alive(m)' => Alive(m)) /\ (Alive(m)' => m # processCache[s])
    BY <1>3 DEF Alive
  <2> QED BY <1>1, <1>4, <2>1, KeptByMove
<1>7. /\ failed' \subseteq Server /\ handshake' \in [Server -> Caller \cup {"none"}]
      /\ \A d \in Caller \ {c} : callers[d].at \in {"initialize", "close"}
           => handshake'[callers[d].server] = d
  BY <1>1, ClientFacts
<1> QED BY <1>1, <1>2, <1>3, <1>4, <1>5, <1>6, <1>7, CallerKeeps

(* What processes, time and shutdown do to the clients.                    *)
LEMMA WorldKeeps ==
  ASSUME MaxClients \in Nat, MaxBreaks \in Nat, ClientInv,
         \/ \E n \in 1..MaxClients : \/ Clients!ProcessDies(n) \/ Clients!PipeCloses(n)
                                     \/ Clients!readLoopEnds(n)
         \/ \E s \in Server : Clients!LedgerExpires(s)
         \/ Clients!CloseAll
  PROVE  ClientInv'
<1>0. ClientTypes /\ \A c \in Caller : Knows(c) /\ callers[c].cli \in 0..MaxClients
  BY DEF ClientInv, ClientTypes, Asking
<1>1. ASSUME clients' \in [1..MaxClients -> Record], processCache' \in [Server -> 0..started],
             failed' \subseteq Server, breaks' \in 0..MaxBreaks, closed' \in BOOLEAN,
             UNCHANGED <<started, handshake, callers>>,
             \A n \in 1..MaxClients : clients[n].ready => clients'[n].ready,
             \A n \in 1..MaxClients : Alive(n)' =>
               Alive(n) /\ \A s \in Server : processCache[s] = n => processCache'[s] = n
      PROVE  ClientInv'
  <2>1. ClientTypes'
    BY <1>0, <1>1 DEF ClientTypes
  <2>2. ASSUME NEW c \in Caller PROVE Knows(c)'
    <3>1. Knows(c) /\ callers[c].cli \in 0..MaxClients
      BY <1>0
    <3>2. callers[c].at = "use" => clients'[callers[c].cli].ready
      BY <1>1, <3>1 DEF Knows
    <3> QED BY <1>1, <3>1, <3>2 DEF Knows
  <2>3. ASSUME NEW n \in 1..MaxClients PROVE Kept(n)'
    BY <1>1 DEF Kept, ClientInv
  <2> QED BY <2>1, <2>2, <2>3 DEF ClientInv
<1>2. ASSUME NEW n \in 1..MaxClients,
             Clients!ProcessDies(n) \/ Clients!PipeCloses(n) \/ Clients!readLoopEnds(n)
      PROVE  ClientInv'
  <2>1. PICK q \in Record : /\ clients' = [clients EXCEPT ![n] = q] /\ q.ready = clients[n].ready
                            /\ q.proc = "gone" \/ q.reader = "dead"
    <3>1. clients \in [1..MaxClients -> Record] /\ clients[n] \in Record
      BY <1>0 DEF ClientTypes
    <3>2. CASE clients' = [clients EXCEPT ![n].proc = "gone"]
      <4> DEFINE p == [clients[n] EXCEPT !.proc = "gone"]
      <4>1. p \in Record /\ p.ready = clients[n].ready /\ p.proc = "gone"
        BY <3>1 DEF Record
      <4>2. clients' = [clients EXCEPT ![n] = p]
        BY <3>1, <3>2
      <4> QED BY <4>1, <4>2
    <3>3. CASE clients' = [clients EXCEPT ![n].reader = "dead"]
      <4> DEFINE p == [clients[n] EXCEPT !.reader = "dead"]
      <4>1. p \in Record /\ p.ready = clients[n].ready /\ p.reader = "dead"
        BY <3>1 DEF Record
      <4>2. clients' = [clients EXCEPT ![n] = p]
        BY <3>1, <3>3
      <4> QED BY <4>1, <4>2
    <3> QED BY <1>2, <3>2, <3>3 DEF Clients!ProcessDies, Clients!PipeCloses, Clients!readLoopEnds
  <2>2. /\ UNCHANGED <<started, processCache, failed, handshake, callers, closed>>
        /\ breaks' \in 0..MaxBreaks
    BY <1>0, <1>2 DEF Clients!ProcessDies, Clients!PipeCloses, Clients!readLoopEnds, ClientTypes
  <2>3. /\ clients' \in [1..MaxClients -> Record] /\ clients'[n] = q
        /\ \A m \in 1..MaxClients : m # n => clients'[m] = clients[m]
    BY <1>0, <2>1 DEF ClientTypes
  <2>4. ASSUME NEW m \in 1..MaxClients
        PROVE (clients[m].ready => clients'[m].ready) /\ (Alive(m)' => Alive(m))
    BY <2>1, <2>3 DEF Alive
  <2> QED BY <1>0, <1>1, <2>2, <2>3, <2>4 DEF ClientTypes
<1>3. ASSUME NEW s \in Server, Clients!LedgerExpires(s) PROVE ClientInv'
  <2>1. failed' = failed \ {s} /\ UNCHANGED <<clients, started, processCache, handshake, callers, breaks, closed>>
    BY <1>3 DEF Clients!LedgerExpires
  <2> QED BY <1>0, <1>1, <2>1 DEF ClientTypes, Alive
<1>4. ASSUME Clients!CloseAll PROVE ClientInv'
  <2>1. \A q \in Record : /\ Clients!Closed(q) \in Record /\ Clients!Closed(q).ready = q.ready
                          /\ Clients!Closed(q).proc = "gone"
    BY DEF Clients!Closed, Record
  <2>2. clients' = [n \in 1..MaxClients |-> IF \E s \in Server : processCache[s] = n
                                            THEN Clients!Closed(clients[n]) ELSE clients[n]]
        /\ processCache' = [s \in Server |-> 0] /\ closed' = TRUE
        /\ UNCHANGED <<started, failed, handshake, callers, breaks>>
    BY <1>4 DEF Clients!CloseAll, Clients!Client
  <2>3. clients' \in [1..MaxClients -> Record]
    BY <1>0, <2>1, <2>2 DEF ClientTypes
  <2>4. ASSUME NEW n \in 1..MaxClients
        PROVE  /\ clients[n].ready => clients'[n].ready
               /\ Alive(n)' => Alive(n) /\ \A s \in Server : processCache[s] # n
    BY <1>0, <2>1, <2>2 DEF ClientTypes, Alive
  <2>5. processCache' \in [Server -> 0..started]
    BY <1>0, <2>2 DEF ClientTypes
  <2> QED BY <1>0, <1>1, <2>2, <2>3, <2>4, <2>5 DEF ClientTypes
<1> QED BY <1>2, <1>3, <1>4

LEMMA InitClients ==
  ASSUME MaxClients \in Nat, MaxBreaks \in Nat, Clients!Init PROVE ClientInv
<1>1. Clients!Unused \in Record /\ ~(Clients!Unused.proc = "running")
  BY DEF Clients!Unused, Clients!None, Record
<1>2. /\ clients = [n \in 1..MaxClients |-> Clients!Unused] /\ started = 0
      /\ processCache = [s \in Server |-> 0] /\ failed = {}
      /\ handshake = [s \in Server |-> "none"] /\ callers = [c \in Caller |-> Clients!Idle]
      /\ breaks = 0 /\ closed = FALSE
  BY DEF Clients!Init, Clients!Client, Clients!None
<1>3. ClientTypes
  <2>1. clients \in [1..MaxClients -> Record] /\ callers \in [Caller -> Asking]
    BY <1>1, <1>2, IdleIsAsking
  <2>2. started \in 0..MaxClients /\ breaks \in 0..MaxBreaks /\ processCache \in [Server -> 0..started]
    BY <1>2
  <2> QED BY <1>2, <2>1, <2>2 DEF ClientTypes
<1>4. ASSUME NEW c \in Caller PROVE Knows(c)
  BY <1>2, IdleIsAsking DEF Knows
<1>5. ASSUME NEW n \in 1..MaxClients PROVE Kept(n)
  BY <1>1, <1>2 DEF Kept, Alive
<1> QED BY <1>3, <1>4, <1>5 DEF ClientInv

LEMMA ClientInvariant ==
  ASSUME MaxClients \in Nat, MaxBreaks \in Nat, "none" \notin Caller
  PROVE  Clients!Init /\ [][Clients!Next]_(Clients!mcpVars) => []ClientInv
<1>1. ASSUME ClientInv, Clients!Next PROVE ClientInv'
  <2>1. ASSUME NEW c \in Caller,
               \/ Clients!Ensure(c) \/ Clients!Sweep(c) \/ Clients!NewMCPClient(c)
               \/ Clients!StartFails(c) \/ Clients!Store(c) \/ Clients!LockHandshake(c)
               \/ Clients!Initialized(c) \/ Clients!InitializeFails(c) \/ Clients!CloseFailed(c)
               \/ Clients!Answered(c) \/ Clients!ConnectionBroke(c) \/ Clients!EvictClient(c)
        PROVE  ClientInv'
    BY <1>1, <2>1, EnsureKeeps, SweepKeeps, NewClientKeeps, EndKeeps, StoreKeeps, HandshakeKeeps,
       CloseFailedKeeps, EvictKeeps
  <2> QED BY <1>1, <2>1, WorldKeeps DEF Clients!Next, Clients!Client
<1>2. ASSUME ClientInv, UNCHANGED Clients!mcpVars PROVE ClientInv'
  BY <1>2 DEF Clients!mcpVars, ClientInv, ClientTypes, Knows, Kept, Alive
<1> QED BY <1>1, <1>2, InitClients, PTL

(* However callers race to start, store, evict and fail the clients of a   *)
(* server, a subprocess that runs with its pipe open is in the cache, or a *)
(* caller is about to store it or to close it: CloseAll and EvictClient    *)
(* reach it.  For any number of callers, servers and clients and any cache *)
(* size.                                                                   *)
THEOREM McpNoOrphan ==
  ASSUME MaxClients \in Nat, MaxBreaks \in Nat, "none" \notin Caller
  PROVE  Clients!Init /\ [][Clients!Next]_(Clients!mcpVars) => []Clients!NoOrphan
<1>1. ASSUME ClientInv PROVE Clients!NoOrphan
  <2>1. \A n \in 1..MaxClients : clients[n] \in Record
    BY <1>1 DEF ClientInv, ClientTypes
  <2>2. \A n \in 1..MaxClients : clients[n].reader \in {"running", "dead"}
    BY <2>1 DEF Record
  <2> QED BY <1>1, <2>2 DEF ClientInv, Kept, Alive, Clients!NoOrphan, Clients!Client, Clients!IsDead
<1> QED BY <1>1, ClientInvariant, PTL

(* A client is initialized by one caller at a time, under its server's     *)
(* lock, and is not used before it is.                                     *)
THEOREM McpUsedInitialized ==
  ASSUME MaxClients \in Nat, MaxBreaks \in Nat, "none" \notin Caller
  PROVE  Clients!Init /\ [][Clients!Next]_(Clients!mcpVars) => []Clients!UsedInitialized
<1>1. ClientInv => Clients!UsedInitialized
  BY DEF ClientInv, Knows, Clients!UsedInitialized
<1> QED BY <1>1, ClientInvariant, PTL

-----------------------------------------------------------------------------
(* The turns of an agent: what a step that reports success has done.       *)

CONSTANTS MaxTurns, Candidates, MaxDuplicates, GraceTurns, MaxParseFailures, MaxEmptyRetries,
          FSOnlyStreakLimit, ZeroEffectNudge, MidAbandonNudge
VARIABLES pc, turn, cand, hasTools, loop, trace, effective, stored, cooling, cancelled, result
Spawn == INSTANCE Spawner

Loop == [parseFailures : Nat, emptyRetries : Nat, sieveHits : Nat, repeats : Nat,
         hinted : BOOLEAN, hintAt : Nat, fsStreak : Nat, zeroEffectNudged : BOOLEAN,
         midAbandonNudged : BOOLEAN]

(* A turn that has begun is not beyond the last, and only a step that has  *)
(* returned has a result.                                                  *)
SpawnInv ==
  /\ loop \in Loop /\ turn \in 0..MaxTurns
  /\ pc \in {"candidate", "retry", "respond", "asleep"} => turn < MaxTurns
  /\ pc # "done" => result.kind = "none"
  /\ Spawn!OkIsEarned

(* A step that goes on.                                                    *)
LEMMA GoesOn ==
  ASSUME SpawnInv, loop' \in Loop, turn' \in 0..MaxTurns, result' = result, pc # "done",
         pc' \in {"candidate", "retry", "respond", "asleep"} => turn' < MaxTurns
  PROVE  SpawnInv'
<1>1. result'.kind = "none"
  BY DEF SpawnInv
<1> QED BY <1>1 DEF SpawnInv, Spawn!OkIsEarned

(* A step that returns what is not the answer of a completed turn.         *)
LEMMA Returns ==
  ASSUME SpawnInv, loop' \in Loop, NEW k, NEW w, Spawn!Return(k, w), k # "ok" \/ w # "answer"
  PROVE  SpawnInv'
<1>1. pc' = "done" /\ result'.kind = k /\ result'.why = w /\ turn' = turn
  BY DEF Spawn!Return
<1> QED BY <1>1 DEF SpawnInv, Spawn!OkIsEarned

LEMMA Moves ==
  ASSUME MaxTurns \in Nat, SpawnInv, loop' \in Loop, pc \in {"candidate", "retry", "respond", "asleep"}
  PROVE  /\ Spawn!NextTurn => SpawnInv'
         /\ Spawn!NextCandidate => SpawnInv'
         /\ Spawn!RepeatTurn => SpawnInv'
<1>1. turn \in 0..MaxTurns /\ turn < MaxTurns /\ turn + 1 \in 0..MaxTurns
  BY DEF SpawnInv
<1>2. ASSUME Spawn!NextTurn PROVE SpawnInv'
  BY <1>1, <1>2, GoesOn DEF Spawn!NextTurn
<1>3. ASSUME Spawn!NextCandidate PROVE SpawnInv'
  BY <1>1, <1>3, GoesOn DEF Spawn!NextCandidate
<1>4. ASSUME Spawn!RepeatTurn PROVE SpawnInv'
  BY <1>1, <1>4, GoesOn DEF Spawn!RepeatTurn
<1> QED BY <1>2, <1>3, <1>4

(* A turn that calls no tool: the gates stand before an ok.                *)
LEMMA Completes ==
  ASSUME MaxTurns \in Nat, SpawnInv, Spawn!CompleteTurn
  PROVE  SpawnInv'
<1>1. PICK out \in Spawn!Outputs, malformed \in BOOLEAN : Spawn!completeTurn(out, malformed)
  BY DEF Spawn!CompleteTurn
<1> DEFINE failures == IF out.hollow THEN loop.parseFailures + 1 ELSE 0
           parsed == [loop EXCEPT !.parseFailures = failures]
           status == IF hasTools /\ trace = {} /\ out.status = "ok" THEN "partial" ELSE out.status
<1>2. /\ pc = "respond" /\ UNCHANGED <<hasTools, trace>> /\ turn \in 0..MaxTurns /\ turn < MaxTurns
      /\ loop \in Loop
  BY DEF Spawn!CompleteTurn, SpawnInv
<1>3. parsed \in Loop /\ parsed.zeroEffectNudged = loop.zeroEffectNudged
  BY <1>2 DEF Loop
<1> HIDE DEF failures
<1>4. /\ [parsed EXCEPT !.zeroEffectNudged = TRUE] \in Loop
      /\ [parsed EXCEPT !.midAbandonNudged = TRUE] \in Loop
  BY <1>3 DEF Loop
<1> HIDE DEF parsed, status
<1>5. CASE loop' = parsed /\ Spawn!Return(out.status, "spin")
  BY <1>3, <1>5, Returns
<1>6. CASE loop' \in {parsed, [parsed EXCEPT !.zeroEffectNudged = TRUE], [parsed EXCEPT !.midAbandonNudged = TRUE]}
           /\ Spawn!NextTurn
  BY <1>2, <1>3, <1>4, <1>6, Moves
<1>7. CASE loop' = parsed /\ ~Spawn!noToolNudge(out) /\ ~Spawn!zeroEffectGate(out) /\ Spawn!Return(status, "answer")
  <2>1. CASE status # "ok"
    BY <1>3, <1>7, <2>1, Returns
  <2>2. CASE status = "ok"
    <3>1. out.status = "ok" /\ (hasTools => trace # {})
      BY <2>2 DEF status
    <3>2. ~Spawn!TurnsLeft => turn = MaxTurns - 1
      BY <1>2 DEF Spawn!TurnsLeft
    <3>3. hasTools /\ ZeroEffectNudge => \/ "write" \in trace \/ loop.zeroEffectNudged
                                         \/ turn = MaxTurns - 1
      BY <1>7, <3>1, <3>2 DEF Spawn!zeroEffectGate
    <3>4. pc' = "done" /\ turn' = turn
      BY <1>7 DEF Spawn!Return
    <3>5. Spawn!OkIsEarned'
      BY <1>2, <1>3, <1>7, <3>1, <3>3, <3>4 DEF Spawn!OkIsEarned
    <3> QED BY <1>2, <1>3, <1>7, <3>4, <3>5 DEF SpawnInv
  <2> QED BY <2>1, <2>2
<1> QED BY <1>1, <1>5, <1>6, <1>7 DEF Spawn!completeTurn, failures, parsed, status

LEMMA ToolsRun ==
  ASSUME MaxTurns \in Nat, SpawnInv, Spawn!ToolTurn
  PROVE  SpawnInv'
<1>1. PICK n \in Nat, m \in Nat, h \in Nat, b \in BOOLEAN :
        /\ loop' = [loop EXCEPT !.repeats = n, !.hinted = b, !.hintAt = h, !.fsStreak = m]
        /\ \/ Spawn!Return("partial", "stagnation")
           \/ Spawn!Return("error", "fs_only_stall")
           \/ Spawn!NextTurn
  <2>1. PICK kinds \in SUBSET {"read", "write"}, fsOnly \in BOOLEAN, repeat \in {"same", "different", "untracked"} :
          LET repeats == CASE repeat = "same" -> loop.repeats + 1
                           [] repeat = "different" -> 1
                           [] repeat = "untracked" -> 0
              decision == Spawn!stagnationStep(repeats)
              streak == IF fsOnly THEN loop.fsStreak + 1 ELSE 0
              grown == trace \cup kinds
          IN /\ repeat = "same" => loop.repeats > 0
             /\ trace' = grown
             /\ loop' = [loop EXCEPT
                           !.repeats = repeats,
                           !.hinted = @ \/ decision = "hint",
                           !.hintAt = IF decision = "hint" THEN repeats ELSE @,
                           !.fsStreak = IF decision = "kill" THEN @ ELSE streak]
             /\ IF decision = "kill"
                THEN Spawn!Return("partial", "stagnation") /\ UNCHANGED stored
                ELSE IF FSOnlyStreakLimit > 0 /\ streak >= FSOnlyStreakLimit
                THEN stored' = grown /\ Spawn!Return("error", "fs_only_stall")
                ELSE Spawn!NextTurn /\ UNCHANGED stored
    BY Zenon DEF Spawn!ToolTurn
  <2> DEFINE repeats == CASE repeat = "same" -> loop.repeats + 1
                          [] repeat = "different" -> 1
                          [] repeat = "untracked" -> 0
             decision == Spawn!stagnationStep(repeats)
             streak == IF fsOnly THEN loop.fsStreak + 1 ELSE 0
  <2>2. /\ loop.repeats \in Nat /\ loop.fsStreak \in Nat /\ loop.hintAt \in Nat /\ loop.hinted \in BOOLEAN
    BY DEF SpawnInv, Loop
  <2>3. repeats \in Nat /\ streak \in Nat
    BY <2>2
  <2>4. /\ loop' = [loop EXCEPT !.repeats = repeats,
                                !.hinted = @ \/ decision = "hint",
                                !.hintAt = IF decision = "hint" THEN repeats ELSE @,
                                !.fsStreak = IF decision = "kill" THEN @ ELSE streak]
        /\ \/ Spawn!Return("partial", "stagnation")
           \/ Spawn!Return("error", "fs_only_stall")
           \/ Spawn!NextTurn
    BY <2>1
  <2> HIDE DEF repeats, streak, decision
  <2>5. /\ (loop.hinted \/ decision = "hint") \in BOOLEAN
        /\ (IF decision = "hint" THEN repeats ELSE loop.hintAt) \in Nat
        /\ (IF decision = "kill" THEN loop.fsStreak ELSE streak) \in Nat
    BY <2>2, <2>3
  <2> QED BY <2>3, <2>4, <2>5
<1>2. loop' \in Loop
  BY <1>1 DEF SpawnInv, Loop
<1>3. pc = "respond"
  BY DEF Spawn!ToolTurn
<1> QED BY <1>1, <1>2, <1>3, Moves, Returns

LEMMA TurnKeeps ==
  ASSUME MaxTurns \in Nat, SpawnInv, Spawn!Next
  PROVE  SpawnInv'
<1>0. loop \in Loop /\ turn \in 0..MaxTurns
  BY DEF SpawnInv
<1>1. CASE Spawn!Prepare
  BY <1>0, <1>1, Returns, GoesOn DEF Spawn!Prepare
<1>2. CASE Spawn!BeginTurn
  BY <1>0, <1>2, Returns, GoesOn DEF Spawn!BeginTurn
<1>3. CASE Spawn!MaxTurnsExhausted
  BY <1>0, <1>3, Returns DEF Spawn!MaxTurnsExhausted
<1>4. CASE Spawn!SkipCooling \/ Spawn!NoProvider
  BY <1>0, <1>4, Returns, Moves DEF Spawn!SkipCooling, Spawn!NoProvider, Spawn!Usable
<1>5. CASE Spawn!NoPrompt \/ Spawn!Delegate
  BY <1>0, <1>5, Returns DEF Spawn!NoPrompt, Spawn!Delegate
<1>6. CASE Spawn!Respond \/ Spawn!CompressAndRetry \/ Spawn!RetrySucceeds \/ Spawn!HeartbeatSleep
  <2>1. /\ pc \in {"candidate", "retry", "respond"} /\ turn < MaxTurns
        /\ UNCHANGED <<loop, turn, result>>
    BY <1>6 DEF Spawn!Respond, Spawn!CompressAndRetry, Spawn!RetrySucceeds, Spawn!HeartbeatSleep, Spawn!Usable, SpawnInv
  <2> QED BY <1>0, <2>1, GoesOn
<1>7. CASE Spawn!EmptyResponse
  <2>1. pc = "candidate"
    BY <1>7 DEF Spawn!EmptyResponse, Spawn!Usable
  <2>2. [loop EXCEPT !.emptyRetries = loop.emptyRetries + 1] \in Loop
    BY <1>0 DEF Loop
  <2>3. loop' \in Loop
    BY <1>0, <1>7, <2>2 DEF Spawn!EmptyResponse
  <2> QED BY <1>7, <2>1, <2>3, Moves, Returns DEF Spawn!EmptyResponse
<1>8. CASE Spawn!CallFails
  <2>1. pc \in {"candidate", "retry"}
    BY <1>8 DEF Spawn!CallFails, Spawn!Usable
  <2> QED BY <1>0, <1>8, <2>1, Moves, Returns DEF Spawn!CallFails
<1>9. CASE Spawn!HeartbeatEnds \/ Spawn!WakeUp
  BY <1>0, <1>9, Returns, Moves DEF Spawn!HeartbeatEnds, Spawn!WakeUp
<1>10. CASE Spawn!sieveGuardianTurn
  <2>1. loop' \in Loop /\ pc = "respond"
    BY <1>0, <1>10 DEF Spawn!sieveGuardianTurn, Loop
  <2> QED BY <1>10, <2>1, Moves, Returns DEF Spawn!sieveGuardianTurn
<1>11. CASE Spawn!Cool \/ Spawn!Cancel
  <2>1. UNCHANGED <<pc, turn, loop, result>> /\ pc # "done"
    BY <1>11 DEF Spawn!Cool, Spawn!Cancel
  <2>2. pc \in {"candidate", "retry", "respond", "asleep"} => turn < MaxTurns
    BY DEF SpawnInv
  <2> QED BY <1>0, <2>1, <2>2, GoesOn
<1> QED BY <1>1, <1>2, <1>3, <1>4, <1>5, <1>6, <1>7, <1>8, <1>9, <1>10, <1>11, Completes, ToolsRun
     DEF Spawn!Next, Spawn!doSpawn

(* An ok that a step with tools answers is earned: it executed a tool call, *)
(* and if it only read, it was told so once or was on its last turn.  For  *)
(* any number of turns, candidates and limits, and whatever the providers  *)
(* answer.                                                                 *)
THEOREM SpawnOkIsEarned ==
  ASSUME MaxTurns \in Nat
  PROVE  Spawn!Init /\ [][Spawn!Next]_(Spawn!spawnVars) => []Spawn!OkIsEarned
<1>1. ASSUME Spawn!Init PROVE SpawnInv
  <2>1. loop \in Loop
    BY <1>1 DEF Spawn!Init, Loop
  <2>2. pc = "prepare" /\ turn = 0 /\ result = [kind |-> "none", why |-> "running"]
    BY <1>1 DEF Spawn!Init, Spawn!Pending
  <2>3. result.kind = "none"
    BY <2>2
  <2>4. turn \in 0..MaxTurns
    BY <2>2
  <2> QED BY <2>1, <2>2, <2>3, <2>4 DEF Spawn!OkIsEarned, SpawnInv
<1>2. ASSUME SpawnInv, UNCHANGED Spawn!spawnVars PROVE SpawnInv'
  BY <1>2 DEF SpawnInv, Spawn!OkIsEarned, Spawn!spawnVars
<1>3. SpawnInv => Spawn!OkIsEarned
  BY DEF SpawnInv
<1> QED BY <1>1, <1>2, <1>3, TurnKeeps, PTL

-----------------------------------------------------------------------------
(* The judgement of a step's output.                                       *)

CONSTANTS Criteria, CheckLists, MaxAutoRefine, maxSkips, DeciderRole
VARIABLES conf, status, out, ws, at, round, rubrics, verdict, said, refines, spawns, dec, recent, skips
Verify == INSTANCE Verification

(* What an output has to pass before a model is asked about it.            *)
Screened == /\ Verify!validateArtifactContract /\ conf.verifier
            /\ \A i \in DOMAIN conf.checks : Verify!Holds(conf.checks[i])

(* What OkIsJudged says of the output and the workspace.                   *)
Passes ==
  /\ Verify!validateArtifactContract
  /\ conf.criterion \in {"regex", "file"} /\ ~conf.verifier => Verify!Matches
  /\ conf.verifier \/ conf.criterion \notin {"regex", "file"} =>
        \A i \in DOMAIN conf.checks : Verify!Holds(conf.checks[i])
  /\ conf.criterion = "json" => out.form \notin {"empty", "raw-text"}

JudgeInv ==
  /\ at \in {"rubrics", "audit", "critic", "synthesize"} => Screened
  /\ at = "synthesize" => ~verdict.passed
  /\ at = "judged" /\ verdict.passed => Passes
  /\ at = "done" /\ status = "ok" /\ conf.criterion # "" => Passes

(* No answer of the auditor is read as a pass.                             *)
LEMMA NeverRead == \A a : ~Verify!Read(a).passed
BY DEF Verify!Read, Verify!HasPrefix, Verify!Rendered

LEMMA ChecksRun ==
  ASSUME NEW list, Verify!RunDeterministicChecks(list).passed
  PROVE  \A i \in DOMAIN list : Verify!Holds(list[i])
BY DEF Verify!RunDeterministicChecks, Verify!Fresh

LEMMA LastPasses ==
  ASSUME Verify!LastCheck.passed
  PROVE  conf.criterion = "json" => out.form \notin {"empty", "raw-text"}
BY DEF Verify!LastCheck, Verify!verifyJSONCriterion, Verify!Fresh

(* The cheap checks decide, or the output is screened and a model asked.   *)
LEMMA CheapDecides ==
  /\ Verify!Cheap.type # "ask" /\ Verify!Cheap.passed => Passes
  /\ Verify!Cheap.type = "ask" => Screened
<1> DEFINE checks == Verify!RunDeterministicChecks(conf.checks)
<1>1. checks.passed => \A i \in DOMAIN conf.checks : Verify!Holds(conf.checks[i])
  BY ChecksRun
<1>2. checks.type # "ask"
  BY DEF Verify!RunDeterministicChecks, Verify!Fresh
<1>3. Verify!LastCheck.type # "ask" 
  BY DEF Verify!LastCheck, Verify!verifyJSONCriterion, Verify!Fresh
<1> HIDE DEF checks
<1>4. Verify!Cheap = IF ~Verify!validateArtifactContract THEN [passed |-> FALSE, type |-> "schema"]
        ELSE IF conf.criterion \in {"regex", "file"} /\ ~conf.verifier
             THEN IF Verify!Matches THEN Verify!Fresh ELSE [passed |-> FALSE, type |-> "logic"]
        ELSE IF ~checks.passed THEN checks
        ELSE IF conf.verifier THEN [passed |-> TRUE, type |-> "ask"]
        ELSE Verify!LastCheck
  BY DEF Verify!Cheap, checks
<1>5. CASE ~Verify!validateArtifactContract
  BY <1>4, <1>5
<1>6. CASE Verify!validateArtifactContract /\ conf.criterion \in {"regex", "file"} /\ ~conf.verifier
  BY <1>4, <1>6 DEF Passes, Verify!Fresh
<1>7. CASE Verify!validateArtifactContract /\ ~(conf.criterion \in {"regex", "file"} /\ ~conf.verifier)
  <2>1. CASE ~checks.passed
    BY <1>2, <1>4, <1>7, <2>1
  <2>2. CASE checks.passed /\ conf.verifier
    BY <1>1, <1>4, <1>7, <2>2 DEF Screened
  <2>3. CASE checks.passed /\ ~conf.verifier
    <3>1. Verify!Cheap = Verify!LastCheck
      BY <1>4, <1>7, <2>3
    <3> QED BY <1>1, <1>3, <1>7, <2>3, <3>1, LastPasses DEF Passes
  <2> QED BY <2>1, <2>2, <2>3
<1> QED BY <1>5, <1>6, <1>7

(* The output, the workspace and the configuration stay.                   *)
LEMMA PassesStays ==
  ASSUME UNCHANGED <<conf, out, ws>> PROVE (Passes' <=> Passes) /\ (Screened' <=> Screened)
BY DEF Passes, Screened, Verify!validateArtifactContract, Verify!Matches, Verify!Holds,
       Verify!FileExistsVerifier, Verify!CommandPassVerifier, Verify!PlanCheckboxVerifier, Verify!CodeEntityVerifier

LEMMA JudgeKeeps ==
  ASSUME JudgeInv, Verify!Next PROVE JudgeInv'
<1>1. CASE Verify!Spawned
  BY <1>1 DEF Verify!Spawned, JudgeInv
<1>2. CASE Verify!OtherDecision
  <2>1. status' # "ok" /\ UNCHANGED <<conf, out, ws, at, verdict>>
    BY <1>2 DEF Verify!OtherDecision
  <2> QED BY <2>1, PassesStays DEF JudgeInv
<1>3. CASE Verify!verifyExitCriteria
  <2>1. UNCHANGED <<conf, out, ws>>
    BY <1>3 DEF Verify!verifyExitCriteria, Verify!Keep
  <2>2. CASE Verify!Cheap.type # "ask"
    <3>1. verdict' = Verify!Cheap /\ at' = "judged"
      BY <1>3, <2>2 DEF Verify!verifyExitCriteria, Verify!Judged
    <3> QED BY <2>1, <2>2, <3>1, CheapDecides, PassesStays DEF JudgeInv
  <2>3. CASE Verify!Cheap.type = "ask"
    <3>1. at' \in {"critic", "audit", "rubrics"}
      BY <1>3, <2>3 DEF Verify!verifyExitCriteria
    <3> QED BY <2>1, <2>3, <3>1, CheapDecides, PassesStays DEF JudgeInv
  <2> QED BY <2>2, <2>3
<1>4. CASE Verify!generateDynamicRubrics
  <2>1. at = "rubrics" /\ at' = "audit" /\ UNCHANGED <<conf, out, ws>>
    BY <1>4 DEF Verify!generateDynamicRubrics, Verify!Keep
  <2> QED BY <2>1, PassesStays DEF JudgeInv
<1>5. CASE Verify!Audit
  <2>1. at = "audit" /\ at' = "judged" /\ UNCHANGED <<conf, out, ws>>
    BY <1>5 DEF Verify!Audit, Verify!Keep, Verify!Judged
  <2>2. verdict'.passed => verdict' = Verify!LastCheck
    BY <1>5, NeverRead DEF Verify!Audit, Verify!Judged
  <2>3. verdict'.passed => Passes
    BY <2>1, <2>2, LastPasses DEF JudgeInv, Screened, Passes
  <2> QED BY <2>1, <2>3, PassesStays DEF JudgeInv
<1>6. CASE Verify!runCriticAudit
  <2>1. at = "critic" /\ UNCHANGED <<conf, out, ws>> /\ at' \in {"synthesize", "judged"}
    BY <1>6 DEF Verify!runCriticAudit, Verify!Keep
  <2>2. ~verdict'.passed
    BY <1>6, NeverRead DEF Verify!runCriticAudit
  <2> QED BY <2>1, <2>2, PassesStays DEF JudgeInv
<1>7. CASE Verify!runProposerSynthesize
  <2>1. at = "synthesize" /\ UNCHANGED <<conf, out, ws, verdict>> /\ at' \in {"critic", "judged"}
    BY <1>7 DEF Verify!runProposerSynthesize, Verify!Keep
  <2> QED BY <2>1, PassesStays DEF JudgeInv
<1>8. CASE Verify!Settle
  <2>1. at = "judged" /\ at' = "done" /\ UNCHANGED conf
    BY <1>8 DEF Verify!Settle
  <2>2. CASE verdict.passed
    <3>1. UNCHANGED <<out, ws>>
      BY <1>8, <2>2 DEF Verify!Settle
    <3> QED BY <2>1, <2>2, <3>1, PassesStays DEF JudgeInv
  <2>3. CASE ~verdict.passed
    <3>1. status' # "ok"
      BY <1>8, <2>3 DEF Verify!Settle
    <3> QED BY <2>1, <3>1 DEF JudgeInv
  <2> QED BY <2>2, <2>3
<1>9. CASE Verify!maybeAutoResolveNonInteractive \/ Verify!ThirtySeconds
  <2>1. UNCHANGED <<conf, out, ws, at, verdict, status>>
    BY <1>9 DEF Verify!maybeAutoResolveNonInteractive, Verify!ThirtySeconds
  <2> QED BY <2>1, PassesStays DEF JudgeInv
<1>10. CASE Verify!resolveNonInteractiveDecision \/ Verify!SubmitDecision
  <2>1. UNCHANGED <<conf, out, ws, at, verdict>>
    BY <1>10 DEF Verify!resolveNonInteractiveDecision, Verify!SubmitDecision
  <2>2. status' = status \/ status' # "ok"
    BY <1>10 DEF Verify!resolveNonInteractiveDecision, Verify!SubmitDecision, Verify!Apply
  <2> QED BY <2>1, <2>2, PassesStays DEF JudgeInv
<1> QED BY <1>1, <1>2, <1>3, <1>4, <1>5, <1>6, <1>7, <1>8, <1>9, <1>10 DEF Verify!Next, Verify!Judge

(* A step that ends as ok passed its artifact contract, its checks and its *)
(* criterion on the output and the workspace it leaves, for any criteria,  *)
(* lists of checks and number of refinements, and however the audit, the   *)
(* debate and their failures went.                                         *)
THEOREM VerifyOkIsJudged == Verify!Init /\ [][Verify!Next]_(Verify!vars) => []Verify!OkIsJudged
<1>1. Verify!Init => JudgeInv
  BY DEF Verify!Init, JudgeInv
<1>2. ASSUME JudgeInv, UNCHANGED Verify!vars PROVE JudgeInv'
  <2>1. UNCHANGED <<conf, out, ws, at, verdict, status>>
    BY <1>2 DEF Verify!vars
  <2> QED BY <1>2, <2>1, PassesStays DEF JudgeInv
<1>3. JudgeInv => Verify!OkIsJudged
  BY DEF JudgeInv, Passes, Verify!OkIsJudged
<1> QED BY <1>1, <1>2, <1>3, JudgeKeeps, PTL

=============================================================================
