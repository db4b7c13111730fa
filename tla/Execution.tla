----------------------------- MODULE Execution -----------------------------
(***************************************************************************)
(* Code that the program runs on behalf of a step.                         *)
(*                                                                         *)
(*   JITSessionManager     one long-lived interpreter per (task, step),    *)
(*   (core/jit)            looked up, spawned without the lock, installed  *)
(*                         after a second look, evicted by its TTL, closed *)
(*                         when the step ends and on shutdown              *)
(*   ControlledExecutor    one command with its readers, its idle and      *)
(*   (core/executor.go)    total timers, the detection of a process that   *)
(*                         waits for input, and the second run of a script *)
(*                                                                         *)
(* Abstracted: a session is a number, in the order of the spawns; code and *)
(* output are not modelled, except that a chunk of output may look like a  *)
(* prompt; time is the order in which timers fire.                         *)
(***************************************************************************)
EXTENDS Integers, Sequences, FiniteSets, TLC

CONSTANTS Step,          \* the (task, step) pairs that evaluate code
          Caller,        \* concurrent calls of jit.eval
          Lang,          \* the languages callers ask for
          Blocked,       \* whether the command of the run is a TUI program
          MaxSpawns,     \* bound: interpreters spawned
          MaxRuns,       \* bound: commands run
          MaxChunks,     \* bound: chunks a command writes to stdout
          confirmSemSize \* pending confirmations of a prompt

VARIABLES sessions,  \* Step -> the session registered under its key, 0 for none
          sess,      \* the sessions spawned so far
          mu,        \* the caller that holds the manager's lock, "" for none
          calls,     \* Caller -> the progress of its jit.eval
          ended,     \* steps that have ended
          stopped,   \* CloseAll has closed stopCh
          run,       \* the command being run
          runs,      \* commands run so far
          cut        \* ghost: sessions closed by the timer of an older one

jitVars == <<sessions, sess, mu, calls, ended, stopped, cut>>
runVars == <<run, runs>>
vars == <<jitVars, runVars>>

Session == 1 .. Len(sess)

-----------------------------------------------------------------------------
(* Interpreters. *)

JITSession == [step : Step, proc : {"live", "dead", "closed"},
               expired : BOOLEAN, timer : BOOLEAN, closing : BOOLEAN]

NewSession(st) == [step |-> st, proc |-> "live", expired |-> FALSE,
                   timer |-> FALSE, closing |-> FALSE]

IdleCall == [pc |-> "idle", step |-> CHOOSE st \in Step : TRUE,
             own |-> 0, use |-> 0]

\* IsDead is false and ExpiresAt is in the future.
Usable(i) == /\ sess[i].proc = "live"
             /\ ~sess[i].expired

\* JITSession.mu: some caller is inside Eval on session i.
Evaluating(i) == \E c \in Caller : calls[c].pc = "eval" /\ calls[c].use = i

\* JITSession.Close, which waits for the session's own lock.
Closed(f, i) == [f EXCEPT ![i].proc = "closed", ![i].closing = FALSE]

\* Close called without the manager's lock: the caller waits for the session
\* in the background of everything else.
StartClosing(f, S) == [i \in DOMAIN f |->
                         IF i \in S THEN [f[i] EXCEPT !.closing = TRUE] ELSE f[i]]

\* normalizeLang: node and bun are aliases of js, so their own runtimes are
\* never asked for.
normalizeLang(l) == CASE l \in {"js", "javascript", "ts", "node", "bun"} -> "js"
                      [] l \in {"python", "py"} -> "python"
                      [] OTHER -> l

\* The catalogue of backends: lang -> whether it is compiled in.
Capability == ("js" :> TRUE) @@ ("lua" :> TRUE)
              @@ ("python" :> FALSE) @@ ("node" :> FALSE) @@ ("bun" :> FALSE)

\* PreflightCheckDetailed: a backend is declared, it is there (a host program
\* may not be), and staticSafetyLint, whose patterns are not modelled, passes.
PreflightCheckDetailed(l, found, clean) ==
  /\ normalizeLang(l) \in DOMAIN Capability
  /\ Capability[normalizeLang(l)] \/ found
  /\ clean

\* jit.eval: the preflight gate, then the embedded engine (a fresh VM that
\* leaves nothing behind) or the step's session.
Eval(c) == \E st \in Step \ ended, l \in Lang, found, clean \in BOOLEAN :
  /\ calls[c].pc = "idle"
  /\ PreflightCheckDetailed(l, found, clean)
  /\ ~Capability[normalizeLang(l)]
  /\ Len(sess) < MaxSpawns
  /\ calls' = [calls EXCEPT ![c] = [IdleCall EXCEPT !.pc = "lookup", !.step = st]]
  /\ UNCHANGED <<sessions, sess, mu, ended, stopped, cut, runVars>>

Release(f, c) == [f EXCEPT ![c] = IdleCall]

\* GetOrCreateSession, first half: under the lock, a usable session is returned
\* and any other is evicted. Its Close may have to wait, with the lock held, for
\* an Eval that is still running.
Lookup(c) ==
  LET st == calls[c].step
      i == sessions[st] IN
  /\ calls[c].pc = "lookup"
  /\ mu \in {"", c}
  /\ IF i # 0 /\ Usable(i)
     THEN /\ calls' = [calls EXCEPT ![c].pc = "locksess", ![c].use = i]
          /\ mu' = ""
          /\ UNCHANGED <<sessions, sess>>
     ELSE IF i # 0 /\ Evaluating(i)
     THEN /\ mu = ""
          /\ mu' = c
          /\ UNCHANGED <<sessions, sess, calls>>
     ELSE /\ calls' = [calls EXCEPT ![c].pc = "spawn"]
          /\ mu' = ""
          /\ sessions' = [sessions EXCEPT ![st] = 0]
          /\ sess' = IF i = 0 THEN sess ELSE Closed(sess, i)
  /\ UNCHANGED <<ended, stopped, cut, runVars>>

\* The interpreter is spawned without the lock, or cannot be.
Spawn(c) ==
  /\ calls[c].pc = "spawn"
  /\ \/ /\ Len(sess) < MaxSpawns
        /\ sess' = Append(sess, NewSession(calls[c].step))
        /\ calls' = [calls EXCEPT ![c].pc = "install", ![c].own = Len(sess) + 1]
     \/ /\ calls' = Release(calls, c)
        /\ UNCHANGED sess
  /\ UNCHANGED <<sessions, mu, ended, stopped, cut, runVars>>

\* The loser of a race closes its own interpreter and uses the other's.
LoserLeaves(f, own) == f

LoserCloses(f, own) == Closed(f, own)

\* GetOrCreateSession, second half: the double check and the TTL goroutine,
\* which returns at once after a shutdown.
Install(c) ==
  LET st == calls[c].step
      own == calls[c].own
      i == sessions[st] IN
  /\ calls[c].pc = "install"
  /\ mu \in {"", c}
  /\ IF i # 0 /\ Usable(i)
     THEN /\ sess' = LoserCloses(sess, own)
          /\ calls' = [calls EXCEPT ![c].pc = "locksess", ![c].own = 0, ![c].use = i]
          /\ mu' = ""
          /\ UNCHANGED sessions
     ELSE IF i # 0 /\ Evaluating(i)
     THEN /\ mu = ""
          /\ mu' = c
          /\ UNCHANGED <<sessions, sess, calls>>
     ELSE /\ sess' = LET s == IF i = 0 THEN sess ELSE Closed(sess, i)
                     IN [s EXCEPT ![own].timer = ~stopped]
          /\ sessions' = [sessions EXCEPT ![st] = own]
          /\ calls' = [calls EXCEPT ![c].pc = "locksess", ![c].own = 0, ![c].use = own]
          /\ mu' = ""
  /\ UNCHANGED <<ended, stopped, cut, runVars>>

\* JITSession.Eval takes the session's lock. On a process that has gone the
\* request fails at once.
EvalStarts(c) ==
  LET i == calls[c].use IN
  /\ calls[c].pc = "locksess"
  /\ ~Evaluating(i)
  /\ calls' = IF sess[i].proc = "live"
              THEN [calls EXCEPT ![c].pc = "eval"]
              ELSE Release(calls, c)
  /\ UNCHANGED <<sessions, sess, mu, ended, stopped, cut, runVars>>

\* The answer, or the call's own timeout.
EvalEnds(c) ==
  /\ calls[c].pc = "eval"
  /\ calls' = Release(calls, c)
  /\ UNCHANGED <<sessions, sess, mu, ended, stopped, cut, runVars>>

\* The interpreter dies by itself: a crash or its memory limit.
Dies(i) ==
  /\ sess[i].proc = "live"
  /\ sess' = [sess EXCEPT ![i].proc = "dead"]
  /\ UNCHANGED <<sessions, mu, calls, ended, stopped, cut, runVars>>

Expires(i) ==
  /\ sess[i].proc # "closed"
  /\ ~sess[i].expired
  /\ sess' = [sess EXCEPT ![i].expired = TRUE]
  /\ UNCHANGED <<sessions, mu, calls, ended, stopped, cut, runVars>>

\* CloseSession removes whatever is registered under the key.
CloseSession(st, f) ==
  /\ mu = ""
  /\ sessions' = [sessions EXCEPT ![st] = 0]
  /\ sess' = IF sessions[st] = 0 THEN f ELSE StartClosing(f, {sessions[st]})

\* The TTL of session i runs out: CloseSession by the key, not by the session.
TimerFires(i) ==
  LET st == sess[i].step
      f == [sess EXCEPT ![i].timer = FALSE] IN
  /\ sess[i].timer
  /\ sess[i].expired
  /\ ~stopped
  /\ CloseSession(st, f)
  /\ cut' = IF sessions[st] \in {0, i} \/ ~Usable(sessions[st])
            THEN cut ELSE cut \cup {sessions[st]}
  /\ UNCHANGED <<mu, calls, ended, stopped, runVars>>

\* A Close that waited gets the session's lock.
CloseEnds(i) ==
  /\ sess[i].closing
  /\ ~Evaluating(i)
  /\ sess' = Closed(sess, i)
  /\ UNCHANGED <<sessions, mu, calls, ended, stopped, cut, runVars>>

\* executeStep, on success and on failure, closes the step's session.
StepEnds(st) ==
  /\ st \notin ended
  /\ ended' = ended \cup {st}
  /\ CloseSession(st, sess)
  /\ UNCHANGED <<mu, calls, stopped, cut, runVars>>

\* CloseAll, on shutdown.
CloseAll ==
  /\ ~stopped
  /\ mu = ""
  /\ stopped' = TRUE
  /\ sess' = StartClosing([i \in Session |-> [sess[i] EXCEPT !.timer = FALSE]],
                          {sessions[st] : st \in Step} \ {0})
  /\ sessions' = [st \in Step |-> 0]
  /\ UNCHANGED <<mu, calls, ended, cut, runVars>>

-----------------------------------------------------------------------------
(* Commands. *)

NoRun == [at |-> "none", monitor |-> FALSE, diagnostic |-> FALSE,
          proc |-> "none", unread |-> <<>>, read |-> 0, last |-> "text",
          pending |-> {}, stderr |-> FALSE, waited |-> FALSE, lost |-> FALSE,
          status |-> "", times |-> 0]

\* CheckCommand rejects a program that needs a terminal.
CheckCommand(tui) == ~tui

\* orchestrator_run_command: what the handler makes of its arguments. A command
\* that is to run through a script file (use_script_path, for a shell with a
\* body and without diagnostic_mode) gets an executor that does not watch for
\* prompts.
Options == \E tui \in Blocked, watch, diagnostic, script \in BOOLEAN :
  run' = IF ~CheckCommand(tui)
         THEN [NoRun EXCEPT !.at = "answered", !.status = "error"]
         ELSE [NoRun EXCEPT !.at = "running", !.proc = "live", !.times = 1,
                            !.diagnostic = diagnostic,
                            !.monitor = watch /\ ~(script /\ ~diagnostic)]

\* ControlledExecutor.Run up to its select: the guard, the pipes, the process.
\* A rejected command is answered with an error and no process.
Run ==
  /\ run.at = "none"
  /\ runs < MaxRuns
  /\ runs' = runs + 1
  /\ Options
  /\ UNCHANGED jitVars

Written == run.read + Len(run.unread)

\* The process writes to stdout: text, or text that looks like a prompt.
Writes == \E chunk \in {"text", "prompt"} :
  /\ run.proc = "live"
  /\ Written < MaxChunks
  /\ run' = [run EXCEPT !.unread = Append(@, chunk)]
  /\ UNCHANGED <<jitVars, runs>>

\* ... or to stderr, which io.Copy collects and which rearms no timer.
WritesErr ==
  /\ run.proc = "live"
  /\ ~run.stderr
  /\ run' = [run EXCEPT !.stderr = TRUE]
  /\ UNCHANGED <<jitVars, runs>>

\* The stdout monitor: every read rearms the idle timer, and a chunk that
\* matches a pattern starts a confirmation unless the semaphore is full.
ReadOut ==
  /\ run.at \in {"running", "selected"}
  /\ run.unread # <<>>
  /\ ~run.waited
  /\ LET chunk == Head(run.unread)
         n == run.read + 1 IN
     run' = [run EXCEPT
               !.unread = Tail(@), !.read = n, !.last = chunk, !.stderr = FALSE,
               !.pending = IF /\ run.monitor
                              /\ chunk = "prompt"
                              /\ Cardinality(@) < confirmSemSize
                           THEN @ \cup {n} ELSE @]
  /\ UNCHANGED <<jitVars, runs>>

Kill(r, status) == [r EXCEPT !.at = "selected", !.status = status,
                             !.proc = IF @ = "live" THEN "killed" ELSE @]

\* A match counts only if nothing newer has been read since.
ConfirmAny(n) == TRUE

StillQuiet(n) == run.read <= n

\* A confirmation's delay is over: the process is taken to wait for input.
Confirm == \E n \in run.pending :
  /\ run.at = "running"
  /\ run' = LET r == [run EXCEPT !.pending = @ \ {n}]
            IN IF StillQuiet(n) THEN Kill(r, "stdin_required") ELSE r
  /\ UNCHANGED <<jitVars, runs>>

\* The idle timer fires: nothing was read for the whole period, so the reader,
\* which is never delayed that long, has nothing left to read.
IdleTimerFires ==
  /\ run.at = "running"
  /\ run.unread = <<>>
  /\ run' = Kill(run, "idle_timeout")
  /\ UNCHANGED <<jitVars, runs>>

\* execCtx ends: the total timeout, or the caller's context. CommandContext
\* kills the process as well.
ExecCtxDone ==
  /\ run.at = "running"
  /\ run' = Kill(run, "timeout")
  /\ UNCHANGED <<jitVars, runs>>

\* The process ends by itself.
Exits == \E code \in {"exited", "failed"} :
  /\ run.proc = "live"
  /\ run' = [run EXCEPT !.proc = code]
  /\ UNCHANGED <<jitVars, runs>>

\* cmd.Wait, in a goroutine of its own, closes the pipes once the process has
\* ended, whatever the readers have read.
WaitReturns ==
  /\ run.at \in {"running", "selected"}
  /\ run.proc \notin {"none", "live"}
  /\ ~run.waited
  /\ run' = [run EXCEPT !.waited = TRUE, !.lost = run.unread # <<>>, !.unread = <<>>]
  /\ UNCHANGED <<jitVars, runs>>

\* The select takes the result of cmd.Wait.
SelectDone ==
  /\ run.at = "running"
  /\ run.waited
  /\ run' = [run EXCEPT !.at = "selected",
                        !.status = IF run.proc = "exited" THEN "ok" ELSE "error"]
  /\ UNCHANGED <<jitVars, runs>>

\* IdentifyShellTask: whether the command is a shell with a script body is up
\* to the command. RunViaTempScript then runs the body a second time, under an
\* executor of its own; verifyRobustness prefers a script that succeeded to a
\* direct run that failed.
verifyRobustness(r, script) ==
  IF script = "" THEN r
  ELSE [r EXCEPT !.times = @ + 1,
                 !.status = IF script = "ok" /\ r.status = "error" THEN "ok" ELSE @]

\* wg.Wait: both readers have ended. The outputs are decoded and the result is
\* returned, after the verification in diagnostic mode.
Collect == \E script \in {"", "ok", "error"} :
  /\ run.at = "selected"
  /\ run.waited \/ (run.proc # "live" /\ run.unread = <<>>)
  /\ script # "" => run.diagnostic /\ run.status \notin {"timeout", "idle_timeout"}
  /\ run' = [verifyRobustness(run, script) EXCEPT !.at = "answered"]
  /\ UNCHANGED <<jitVars, runs>>

\* The caller takes the answer.
Answered ==
  /\ run.at = "answered"
  /\ run' = NoRun
  /\ UNCHANGED <<jitVars, runs>>

-----------------------------------------------------------------------------
Init == /\ sessions = [st \in Step |-> 0]
        /\ sess = <<>>
        /\ mu = ""
        /\ calls = [c \in Caller |-> IdleCall]
        /\ ended = {}
        /\ stopped = FALSE
        /\ cut = {}
        /\ run = NoRun
        /\ runs = 0

Calls(c) == Lookup(c) \/ Spawn(c) \/ Install(c) \/ EvalStarts(c) \/ EvalEnds(c)

Command == \/ Run \/ Writes \/ WritesErr \/ ReadOut \/ Confirm
           \/ IdleTimerFires \/ ExecCtxDone \/ Exits
           \/ WaitReturns \/ SelectDone \/ Collect \/ Answered

Next == \/ \E c \in Caller : Eval(c) \/ Calls(c)
        \/ \E i \in Session : Dies(i) \/ Expires(i) \/ TimerFires(i) \/ CloseEnds(i)
        \/ \E st \in Step : StepEnds(st)
        \/ CloseAll
        \/ Command

\* Every call moves on if it can again and again: a call has a timeout, and a
\* sync.Mutex hands itself to a goroutine that has waited for over 1 ms.
Spec == /\ Init /\ [][Next]_vars
        /\ \A c \in Caller : SF_vars(Calls(c))

-----------------------------------------------------------------------------
TypeOK ==
  /\ sessions \in [Step -> 0 .. Len(sess)]
  /\ \A i \in Session : sess[i] \in JITSession
  /\ mu \in Caller \cup {""}
  /\ \A c \in Caller : /\ calls[c].pc \in {"idle", "lookup", "spawn", "install",
                                           "locksess", "eval"}
                       /\ calls[c].step \in Step
                       /\ calls[c].own \in 0 .. Len(sess)
                       /\ calls[c].use \in 0 .. Len(sess)
  /\ run.at \in {"none", "running", "selected", "answered"}
  /\ run.proc \in {"none", "live", "exited", "failed", "killed"}
  /\ run.times \in 0 .. 2
  /\ Cardinality(run.pending) <= confirmSemSize

\* An interpreter that still runs is registered under its step, is about to be
\* installed by the caller that spawned it, or has a Close waiting for it: two
\* callers that both find no session never leave one process behind that
\* nobody would close.
NoLeakedProcess == \A i \in Session : sess[i].proc = "live" =>
  \/ sessions[sess[i].step] = i
  \/ sess[i].closing
  \/ \E c \in Caller : calls[c].own = i

\* A command is taken to wait for input only when the last thing read from it
\* looks like a prompt: later output withdraws an earlier match.
AsksAfterPrompt == run'.status = "stdin_required" /\ run.status = "" => run.last = "prompt"
PromptIsLast == [][AsksAfterPrompt]_vars

\* A call of jit.eval returns, although an expired session's Close may hold the
\* manager's lock until the Eval on it is over.
EvalReturns == \A c \in Caller : calls[c].pc # "idle" ~> calls[c].pc = "idle"

-----------------------------------------------------------------------------
\* A session does not outlive its step: once the step has ended and no call is
\* on its way, no interpreter of it is registered.
SessionWithinStep == \A st \in ended :
  (\A c \in Caller : calls[c].pc = "idle") => sessions[st] = 0

\* After CloseAll no interpreter is left once the calls have returned.
NoneAfterShutdown ==
  stopped /\ (\A c \in Caller : calls[c].pc = "idle")
    => \A i \in Session : sess[i].proc = "live" => sess[i].closing

\* A session that is alive and within its TTL is closed by nobody but its step
\* and the shutdown, so what it holds survives between the calls of a step.
StateSurvives == cut = {}

\* The idle timeout kills a process that has written nothing.
IdleMeansSilent == run.status = "idle_timeout" => ~run.stderr

\* What a process wrote before it ended is part of the answer.
OutputWhole == run.status = "ok" => ~run.lost
=============================================================================
