----------------------------- MODULE Schedules -----------------------------
(***************************************************************************)
(* Recurring tasks: the schedule store (store/schedule.go) with its file   *)
(* or database, the scan loop, trigger goroutines and completion monitors  *)
(* of ScheduleManager, the lock files that several instances share, the    *)
(* cron expressions and the create, pause, resume and delete actions.      *)
(*                                                                         *)
(* There is one schedule.  Time runs in half minutes, because lock files   *)
(* are named by the minute and windows are not.  Every instance has the    *)
(* row of its map in `row`; a trigger goroutine works on the row it was    *)
(* started with, which is the map's own row until a resume, a reload or a  *)
(* delete puts another one (or none) in its place.                         *)
(***************************************************************************)
EXTENDS Integers, Sequences, FiniteSets, FiniteSetsExt

CONSTANTS
    Instance,
    Definitions,    \* what schedules are created: kind, runAt, every, expr, max
    Backend,        \* "file" or "db"
    FieldRange,     \* the five fields of a calendar, scaled down
    Horizon,        \* minutes nextRun looks ahead
    Day, Hour,      \* half minutes of the 24 h fallback and a lock's life, of 60 min
    RecoverAfter,   \* failures in a row that are counted
    MaxClock, MaxOps, MaxCrashes

VARIABLES
    clock, def,     \* the time, the definition that was created
    row,            \* the row of every instance's map
    saved, wrote,   \* what is stored, and when it was written (the file's mtime)
    behind,         \* instances that have not loaded what is stored
    locks,          \* the lock files: minute and time of creation
    work,           \* the trigger goroutine of every instance
    mon,            \* its completion monitor
    stop,           \* Stop was called, has returned
    fired,          \* the windows submitted whose lock file stands
    twice,          \* one of them was submitted again
    ops, crashes

sched == <<clock, def, row, saved, wrote, behind, locks, work, mon, stop, fired, twice,
           ops, crashes>>

Never == -1
None  == [status |-> "none", kind |-> "none", next |-> Never, runs |-> 0, fails |-> 0]
Idle  == [step |-> "idle", own |-> FALSE, row |-> None, win |-> Never]

----------------------------------------------------------------------------
(* Cron expressions.  A field is a sequence of parts, a part a range with  *)
(* a step, or the name of a weekday.                                       *)

InRange(f, n) == n \in FieldRange[f][1]..FieldRange[f][2]

\* "*", "n" and "a-b", each with a step; a name is no number.
ValidPart(f, p) == p.kind = "star" \/ (p.kind = "range" /\ InRange(f, p.lo) /\ InRange(f, p.hi) /\ p.lo <= p.hi)

parseCronPart(f, p) ==
    LET lo == IF p.kind = "star" THEN FieldRange[f][1] ELSE p.lo
        hi == IF p.kind = "star" THEN FieldRange[f][2] ELSE p.hi
    IN  {v \in lo..hi : (v - lo) % p.step = 0}

parseCronField(f, parts) == UNION {parseCronPart(f, parts[i]) : i \in DOMAIN parts}

ValidExpr(expr) == \A f \in 1..5 : \A i \in DOMAIN expr[f] : ValidPart(f, expr[f][i])

Restricted(parts) == ~ (Len(parts) = 1 /\ parts[1].kind = "star" /\ parts[1].step = 1)

Width(f) == FieldRange[f][2] - FieldRange[f][1] + 1

\* The fields of a minute in the scaled-down calendar.
Calendar(m) ==
    LET days == m \div (Width(1) * Width(2))
    IN  <<FieldRange[1][1] + (m % Width(1)),
          FieldRange[2][1] + ((m \div Width(1)) % Width(2)),
          FieldRange[3][1] + (days % Width(3)),
          FieldRange[4][1] + ((days \div Width(3)) % Width(4)),
          FieldRange[5][1] + (days % Width(5))>>

\* Day and weekday: either one when both are restricted.
MatchesSets(values, day, weekday, m) ==
    LET c == Calendar(m)
    IN  /\ \A f \in {1, 2, 4} : c[f] \in values[f]
        /\ IF day /\ weekday THEN c[3] \in values[3] \/ c[5] \in values[5]
           ELSE c[3] \in values[3] /\ c[5] \in values[5]

matches(expr, values, m) == MatchesSets(values, Restricted(expr[3]), Restricted(expr[5]), m)

Values(expr) == [f \in 1..5 |-> parseCronField(f, expr[f])]

\* The first matching minute after now; a minute's half is its first.
nextRun(expr, now) ==
    LET first == (now \div 2) + 1
        values == Values(expr)
        found == {m \in first..first + Horizon - 1 : matches(expr, values, m)}
    IN  IF found = {} THEN Never ELSE 2 * Min(found)

Failed == -2

CronNext(e, t) ==
    LET n == nextRun(e, t)
    IN  IF ValidExpr(e) /\ n # Never THEN n ELSE Failed

\* A definition with the answers of NextRun at every time, so that a behaviour
\* computes them once.
Compiled(d) ==
    [kind |-> d.kind, runAt |-> d.runAt, every |-> d.every, expr |-> d.expr, max |-> d.max,
     cron |-> [t \in 0..MaxClock |-> CronNext(d.expr, t)]]

ScheduleNextRunAfter(r, now) ==
    CASE r.kind = "once"     -> IF def.runAt > now THEN def.runAt ELSE Never
      [] r.kind = "interval" -> now + def.every
      [] r.kind = "cron"     -> def.cron[now]
      [] OTHER               -> Failed

calculateNextRun(r, now) ==
    LET n == ScheduleNextRunAfter(r, now)
    IN  CASE r.kind = "once"                   -> Never
          [] r.kind = "cron" /\ n = Failed     -> now + Day
          [] r.kind # "once" /\ r.kind # "cron" /\ n = Failed -> Never
          [] OTHER                             -> n

----------------------------------------------------------------------------
(* The store.                                                              *)

\* The database keeps the name, the expression, the times and whether the
\* schedule is enabled: the kind, the counters and "completed" are not kept.
SQLiteRow(r) ==
    IF r = None THEN r
    ELSE [r EXCEPT !.kind = "", !.runs = 0, !.fails = 0,
                   !.status = IF @ = "active" THEN "active" ELSE "paused"]

Stored(r) == IF Backend = "db" THEN SQLiteRow(r) ELSE r

\* The map gets another row: a trigger keeps the one it started with.
Detach(w, r) == IF w.step # "idle" /\ w.own THEN [w EXCEPT !.own = FALSE, !.row = r] ELSE w

\* Set: the row goes into the map and to the store.
Set(i, r) ==
    /\ row' = [row EXCEPT ![i] = r]
    /\ saved' = Stored(r)
    /\ wrote' = clock /\ behind' = Instance

NewRow(d) ==
    [status |-> "active", kind |-> d.kind, runs |-> 0, fails |-> 0,
     next |-> IF d.kind = "once" THEN d.runAt ELSE clock]

Init ==
    /\ clock = 0 /\ def \in {Compiled(d) : d \in Definitions}
    /\ row = [i \in Instance |-> None]
    /\ saved = None /\ wrote = Never /\ behind = Instance
    /\ locks = {} /\ work = [i \in Instance |-> Idle] /\ mon = [i \in Instance |-> "none"]
    /\ stop = [i \in Instance |-> "no"]
    /\ fired = {} /\ twice = FALSE /\ ops = 0 /\ crashes = 0

Live(i) == stop[i] # "returned"

create(i) ==
    /\ wrote = Never /\ Live(i)
    /\ Set(i, NewRow(def))
    /\ UNCHANGED <<clock, def, locks, work, mon, stop, fired, twice, ops, crashes>>

Operation(i) == Live(i) /\ ops < MaxOps /\ ops' = ops + 1 /\ row[i] # None

\* pause changes the map's row in place.
pause(i) ==
    /\ Operation(i)
    /\ Set(i, [row[i] EXCEPT !.status = "paused"])
    /\ UNCHANGED <<clock, def, locks, work, mon, stop, fired, twice, crashes>>

\* resume puts a copy with a window after now in the map, or refuses.
resume(i) ==
    /\ Operation(i)
    /\ LET n == ScheduleNextRunAfter(row[i], clock)
       IN  IF n \in {Never, Failed}
           THEN UNCHANGED <<row, saved, wrote, behind, work>>
           ELSE /\ Set(i, [row[i] EXCEPT !.status = "active", !.next = n])
                /\ work' = [work EXCEPT ![i] = Detach(@, row[i])]
    /\ UNCHANGED <<clock, def, locks, mon, stop, fired, twice, crashes>>

\* delete takes the row out of the map; the file is rewritten without it, the
\* database only saves the rows that are left.
delete(i) ==
    /\ Operation(i)
    /\ row' = [row EXCEPT ![i] = None]
    /\ saved' = IF Backend = "db" THEN saved ELSE None
    /\ wrote' = clock /\ behind' = Instance
    /\ work' = [work EXCEPT ![i] = Detach(@, row[i])]
    /\ UNCHANGED <<clock, def, locks, mon, stop, fired, twice, crashes>>

----------------------------------------------------------------------------
(* The scan loop.                                                          *)

LockName(t) == t \div 2

\* A bug: the lock is named by the time of the scan, not by the window.
LockNow(t) == clock \div 2

LockKey(t) == LockName(t)

Due(r) == r.status = "active" /\ r.next # Never /\ clock > r.next

\* Reload replaces the rows the store has and keeps the others.
Reloaded(i) ==
    IF Backend = "file" /\ i \in behind /\ saved # None THEN saved ELSE row[i]

\* cleanupLocks: lock files older than a day, an hour after the last load.
Stale ==
    IF Backend = "file" /\ wrote # Never /\ clock - wrote <= Hour THEN {}
    ELSE {l \in locks : clock - l.made > Day}

\* scan: reload, clean up, and start a trigger when the window has passed and
\* its lock file can be made.
scan(i) ==
    /\ stop[i] = "no"
    /\ LET r    == Reloaded(i)
           left == locks \ Stale
           key  == LockKey(r.next)
           get  == Due(r) /\ \A l \in left : l.key # key
       IN  /\ get => work[i] = Idle         \* bound: one trigger an instance
           /\ row' = [row EXCEPT ![i] = r]
           /\ locks' = IF get THEN left \cup {[key |-> key, made |-> clock]} ELSE left
           /\ work' = [work EXCEPT ![i] =
                         IF get THEN [step |-> "submit", own |-> TRUE, row |-> None, win |-> LockName(r.next)]
                         ELSE IF r = row[i] THEN @ ELSE Detach(@, row[i])]
           /\ fired' = {k \in fired : \A l \in Stale : l.key # k}
    /\ behind' = behind \ {i}
    /\ UNCHANGED <<clock, def, saved, wrote, mon, stop, twice, ops, crashes>>

\* submitAndTrack, first half: the task is submitted.
Submit(i) ==
    /\ work[i].step = "submit"
    /\ \E ok \in BOOLEAN :
         /\ work' = [work EXCEPT ![i].step = IF ok THEN "record" ELSE "refused"]
         /\ fired' = IF ok THEN fired \cup {work[i].win} ELSE fired
         /\ twice' = (twice \/ (ok /\ work[i].win \in fired))
    /\ UNCHANGED <<clock, def, row, saved, wrote, behind, locks, mon, stop, ops, crashes>>

AfterSubmit(r, ok) ==
    LET c == [r EXCEPT !.runs = @ + 1, !.fails = IF ok THEN @ ELSE Min({@ + 1, RecoverAfter})]
    IN  [c EXCEPT !.next = calculateNextRun(r, clock),
                  !.status = IF def.max > 0 /\ c.kind # "" /\ c.runs >= def.max THEN "completed" ELSE @]

\* Second half, under the manager's lock: counters, the next window, and the
\* row the trigger works on goes (back) into the map.
Record(i) ==
    /\ work[i].step \in {"record", "refused"}
    /\ LET ok == work[i].step = "record"
           r  == IF work[i].own THEN row[i] ELSE work[i].row
       IN  /\ Set(i, AfterSubmit(r, ok))
           /\ mon' = [mon EXCEPT ![i] = IF ok THEN "waits" ELSE @]
    /\ work' = [work EXCEPT ![i] = Idle]
    /\ UNCHANGED <<clock, def, locks, stop, fired, twice, ops, crashes>>

\* afterRun: three failures in a row ask the experience store for advice.
afterRun(i) ==
    /\ mon[i] = "waits"
    /\ mon' = [mon EXCEPT ![i] = "none"]
    /\ \E ok \in BOOLEAN :
         IF row[i] = None THEN UNCHANGED <<row, saved, wrote, behind>>
         ELSE Set(i, [row[i] EXCEPT !.fails = IF ok THEN 0 ELSE Min({@ + 1, RecoverAfter})])
    /\ UNCHANGED <<clock, def, locks, work, stop, fired, twice, ops, crashes>>

\* A bug: monitors are not told that the manager stops.
MonitorWaits(i) == FALSE

MonitorCancelled(i) == stop[i] = "called"

\* monitorTask returns when the manager stops, whatever its task does.
monitorTask(i) ==
    /\ mon[i] = "waits" /\ MonitorCancelled(i)
    /\ mon' = [mon EXCEPT ![i] = "none"]
    /\ UNCHANGED <<clock, def, row, saved, wrote, behind, locks, work, stop, fired, twice,
                   ops, crashes>>

Stop(i) ==
    /\ \/ /\ stop[i] = "no" /\ ops < MaxOps /\ ops' = ops + 1
          /\ stop' = [stop EXCEPT ![i] = "called"]
       \/ /\ stop[i] = "called" /\ work[i] = Idle /\ mon[i] = "none"
          /\ stop' = [stop EXCEPT ![i] = "returned"] /\ UNCHANGED ops
    /\ UNCHANGED <<clock, def, row, saved, wrote, behind, locks, work, mon, fired, twice,
                   crashes>>

\* A crash and a restart: the trigger and the monitor are gone, the lock files
\* stay, and the store is loaded.
Restart(i) ==
    /\ crashes < MaxCrashes /\ crashes' = crashes + 1
    /\ row' = [row EXCEPT ![i] = saved]
    /\ work' = [work EXCEPT ![i] = Idle] /\ mon' = [mon EXCEPT ![i] = "none"]
    /\ behind' = behind \cup {i} /\ stop' = [stop EXCEPT ![i] = "no"]
    /\ UNCHANGED <<clock, def, saved, wrote, locks, fired, twice, ops>>

Tick ==
    /\ clock < MaxClock /\ clock' = clock + 1
    /\ UNCHANGED <<def, row, saved, wrote, behind, locks, work, mon, stop, fired, twice,
                   ops, crashes>>

Steps(i) == Submit(i) \/ Record(i) \/ monitorTask(i) \/ (stop[i] = "called" /\ Stop(i))

Next ==
    \/ Tick
    \/ \E i \in Instance :
         \/ create(i) \/ pause(i) \/ resume(i) \/ delete(i) \/ scan(i) \/ Submit(i) \/ Record(i)
         \/ afterRun(i) \/ monitorTask(i) \/ Stop(i) \/ Restart(i)

\* Goroutines that can run do; a task need not end, and nobody need call.
Fairness == \A i \in Instance : WF_sched(Steps(i))

Spec == Init /\ [][Next]_sched /\ Fairness

----------------------------------------------------------------------------
Rows == [status : {"none", "active", "paused", "completed"},
         kind : {"none", "once", "interval", "cron", ""},
         next : Never..2 * (MaxClock + Horizon + Day), runs : 0..MaxClock, fails : 0..RecoverAfter]

TypeOK ==
    /\ row \in [Instance -> Rows] /\ saved \in Rows
    /\ mon \in [Instance -> {"none", "waits"}]
    /\ stop \in [Instance -> {"no", "called", "returned"}]
    /\ \A i \in Instance : work[i].step \in {"idle", "submit", "record", "refused"}

\* Whatever the instances do, crash or see late, a window is submitted at most
\* once as long as its lock file stands.
OncePerWindow == ~ twice

\* Stop returns, even when a monitored task never ends.
Stopping(i) == stop[i] = "called"
StopReturns == \A i \in Instance : Stopping(i) ~> ~Stopping(i)

\* A resumed schedule is not paused again by a run that was under way.
ResumeKept ==
    [][\A i \in Instance : row[i].status = "active" /\ Record(i) => row'[i].status # "paused"]_sched

\* The expression as documented: a weekday's name is its number.
Documented(expr) ==
    [f \in 1..5 |-> [n \in DOMAIN expr[f] |->
        IF expr[f][n].kind = "name" THEN [expr[f][n] EXCEPT !.kind = "range"] ELSE expr[f][n]]]

\* A schedule fires in the minutes its expression names, weekdays included.
CronHonoured ==
    \A i \in Instance :
        row[i].kind = "cron" /\ row[i].runs > 0 =>
            LET said == Documented(def.expr) IN matches(said, Values(said), row[i].next \div 2)

\* A recurring schedule that has run has a next window.
Recurs ==
    \A i \in Instance :
        row[i].status = "active" /\ def.kind \in {"interval", "cron"} => row[i].next # Never
============================================================================
