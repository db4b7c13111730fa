------------------------------ MODULE EventLog ------------------------------
(***************************************************************************)
(* The structured log of tasks, core/obs/logger.go.  Callers put events    *)
(* into a bounded channel without waiting; one writer goroutine fans each  *)
(* event out to the live subscribers, rotates the task's file when it has  *)
(* grown too large and appends the event's line.  A rotated file is        *)
(* renamed and compressed by a goroutine of its own; Close waits for the   *)
(* writer and for those goroutines.  The archive's name carries the time   *)
(* at which its compression began, to the second.                          *)
(*                                                                         *)
(* One task's file of one day is modelled; an event is its number, a file  *)
(* the sequence of the events it holds.                                    *)
(***************************************************************************)
EXTENDS Integers, Sequences, FiniteSets

CONSTANTS ChanCap,    \* capacity of the channel
          SubCap,     \* capacity of a subscriber's channel
          MaxSize,    \* lines after which the file is rotated
          MaxEvents,  \* events logged (bound)
          MaxTicks,   \* seconds that pass (bound)
          MaxFaults   \* failing renames, compressions, writes (bound)

VARIABLES next,     \* next event
          chan,     \* the channel
          closed,   \* not yet closed, "closing" while Close waits, "closed"
          file,     \* the task's file
          size,     \* the writer's cached size of it
          rotated,  \* renamed files: their lines, and how far compression is
          gz,       \* archives, by the second in their name
          clock,    \* the current second
          sub,      \* the subscriber's channel, or none
          faults,   \* faults so far
          lost,     \* events whose line could not be written
          clashed   \* two compressions took the same name

vars == <<next, chan, closed, file, size, rotated, gz, clock, sub, faults, lost,
          clashed>>

Second == 0..MaxTicks
NoSub == [open |-> FALSE, got |-> <<>>]
ElementsOf(s) == {s[i] : i \in DOMAIN s}

\* Log, LogCtx and LogWithConfidence: nothing once closed; an event that
\* finds the channel full is dropped and counted.
Log ==
    /\ next <= MaxEvents
    /\ next' = next + 1
    /\ chan' = IF closed = "no" /\ Len(chan) < ChanCap THEN Append(chan, next) ELSE chan
    /\ lost' = IF closed = "no" /\ Len(chan) < ChanCap THEN lost ELSE lost \cup {next}
    /\ UNCHANGED <<closed, file, size, rotated, gz, clock, sub, faults, clashed>>

\* A subscriber that is slow misses the event.
FannedOut(e) ==
    IF sub.open /\ Len(sub.got) < SubCap THEN [sub EXCEPT !.got = Append(@, e)] ELSE sub

SubscribeEvents ==
    /\ ~sub.open
    /\ sub' = [open |-> TRUE, got |-> <<>>]
    /\ UNCHANGED <<next, chan, closed, file, size, rotated, gz, clock, faults, lost, clashed>>

\* The subscriber reads, or its channel is removed and closed.
SubReceives ==
    /\ sub.got # <<>>
    /\ sub' = [sub EXCEPT !.got = Tail(@)]
    /\ UNCHANGED <<next, chan, closed, file, size, rotated, gz, clock, faults, lost, clashed>>

UnsubscribeEvents ==
    /\ sub.open
    /\ sub' = NoSub
    /\ UNCHANGED <<next, chan, closed, file, size, rotated, gz, clock, faults, lost, clashed>>

----------------------------------------------------------------------------
(* The writer.                                                             *)

\* The task's file after a rotation: renamed away, the next line starts anew.
FreshFile(f) == <<>>

Job(lines) == [lines |-> lines, at |-> "renamed", name |-> 0]

\* write when the cached size is over the limit: rotate renames the file,
\* trying five times, and starts its compression; when the rename fails the
\* file stays and the cached size starts from zero all the same.  Then the
\* line is appended.
WriteRotating ==
    /\ chan # <<>>
    /\ size > MaxSize
    /\ \/ /\ rotated' = Append(rotated, Job(file))
          /\ file' = Append(FreshFile(file), Head(chan))
          /\ UNCHANGED faults
       \/ /\ faults < MaxFaults
          /\ faults' = faults + 1
          /\ file' = Append(file, Head(chan))
          /\ UNCHANGED rotated
    /\ size' = 1
    /\ sub' = FannedOut(Head(chan))
    /\ chan' = Tail(chan)
    /\ UNCHANGED <<next, closed, gz, clock, lost, clashed>>

\* write otherwise.
WriteLine ==
    /\ chan # <<>>
    /\ size <= MaxSize
    /\ file' = Append(file, Head(chan))
    /\ size' = size + 1
    /\ sub' = FannedOut(Head(chan))
    /\ chan' = Tail(chan)
    /\ UNCHANGED <<next, closed, rotated, gz, clock, faults, lost, clashed>>

\* The file cannot be opened: the event is gone.
WriteFails ==
    /\ chan # <<>>
    /\ faults < MaxFaults
    /\ faults' = faults + 1
    /\ size' = IF size > MaxSize THEN 0 ELSE size
    /\ rotated' = IF size > MaxSize THEN Append(rotated, Job(file)) ELSE rotated
    /\ file' = IF size > MaxSize THEN FreshFile(file) ELSE file
    /\ lost' = lost \cup {Head(chan)}
    /\ sub' = FannedOut(Head(chan))
    /\ chan' = Tail(chan)
    /\ UNCHANGED <<next, closed, gz, clock, clashed>>

\* recordFileSizeCacheEntry: the entry was evicted, the size is read again.
CacheEvicted ==
    /\ size # Len(file)
    /\ size' = Len(file)
    /\ UNCHANGED <<next, chan, closed, file, rotated, gz, clock, sub, faults, lost, clashed>>

----------------------------------------------------------------------------
(* Compression of the i-th rotated file.                                   *)

Opens(i) ==
    /\ rotated[i].at = "renamed"
    /\ rotated' = [rotated EXCEPT ![i].at = "copying", ![i].name = clock]
    /\ gz' = [gz EXCEPT ![clock] = <<>>]
    /\ clashed' = (clashed \/ \E j \in DOMAIN rotated :
                        j # i /\ rotated[j].at # "renamed" /\ rotated[j].name = clock)
    /\ UNCHANGED <<next, chan, closed, file, size, clock, sub, faults, lost>>

\* A bug: the rotated file is removed though its compression failed.
RemovedAnyway == "done"

\* What becomes of a rotated file whose compression failed: it is kept.
AfterFailure == "kept"

Copied(i) ==
    /\ rotated[i].at = "copying"
    /\ \/ /\ rotated' = [rotated EXCEPT ![i].at = "done"]
          /\ gz' = [gz EXCEPT ![rotated[i].name] = rotated[i].lines]
          /\ UNCHANGED faults
       \/ /\ faults < MaxFaults
          /\ faults' = faults + 1
          /\ rotated' = [rotated EXCEPT ![i].at = AfterFailure]
          /\ UNCHANGED gz
    /\ UNCHANGED <<next, chan, closed, file, size, clock, sub, lost, clashed>>

Tick ==
    /\ clock < MaxTicks
    /\ clock' = clock + 1
    /\ UNCHANGED <<next, chan, closed, file, size, rotated, gz, sub, faults, lost, clashed>>

----------------------------------------------------------------------------

Close ==
    /\ closed = "no"
    /\ closed' = "closing"
    /\ UNCHANGED <<next, chan, file, size, rotated, gz, clock, sub, faults, lost, clashed>>

\* A bug: Close waits for the writer only.
WriterOnly == chan = <<>>

\* What Close waits for: the writer has drained the channel and every
\* compression has ended.
wgWait == chan = <<>> /\ \A i \in DOMAIN rotated : rotated[i].at \in {"done", "kept"}

CloseReturns ==
    /\ closed = "closing"
    /\ wgWait
    /\ closed' = "closed"
    /\ UNCHANGED <<next, chan, file, size, rotated, gz, clock, sub, faults, lost, clashed>>

Init ==
    /\ next = 1 /\ chan = <<>> /\ closed = "no" /\ file = <<>> /\ size = 0
    /\ rotated = <<>> /\ gz = [s \in Second |-> <<>>] /\ clock = 0
    /\ sub = NoSub /\ faults = 0 /\ lost = {} /\ clashed = FALSE

Writer == WriteRotating \/ WriteLine \/ WriteFails
Compress == \E i \in DOMAIN rotated : Opens(i) \/ Copied(i)

Next == \/ Log \/ SubscribeEvents \/ SubReceives \/ UnsubscribeEvents
        \/ Writer \/ CacheEvicted \/ Compress \/ Tick
        \/ Close \/ CloseReturns

Spec == Init /\ [][Next]_vars /\ WF_vars(Writer) /\ WF_vars(Compress) /\ WF_vars(CloseReturns)

----------------------------------------------------------------------------

TypeOK ==
    /\ next \in 1..MaxEvents + 1
    /\ Len(chan) <= ChanCap
    /\ closed \in {"no", "closing", "closed"}
    /\ size \in 0..MaxEvents
    /\ clock \in Second
    /\ Len(sub.got) <= SubCap
    /\ \A i \in DOMAIN rotated : rotated[i].at \in {"renamed", "copying", "done", "kept"}

OnDisk == ElementsOf(file)
          \cup (UNION {ElementsOf(gz[s]) : s \in Second})
          \cup (UNION {ElementsOf(rotated[i].lines) :
                         i \in {j \in DOMAIN rotated : rotated[j].at # "done"}})

\* No accepted line disappears in a rotation, wherever the writer, the
\* compressions and a failure of theirs leave it, unless two compressions
\* took the same archive name.
LinesKept ==
    ~clashed => 1..next - 1 \subseteq OnDisk \cup ElementsOf(chan) \cup lost

\* When Close has returned, every accepted line is on disk and nobody is
\* still writing an archive.
ClosedIsWritten ==
    closed = "closed" => /\ chan = <<>>
                         /\ \A i \in DOMAIN rotated : rotated[i].at \in {"done", "kept"}

\* What rotate's comment on the archive's name promises: the timestamp
\* prevents one archive from overwriting another.
ArchivesKept ==
    \A i \in DOMAIN rotated :
        rotated[i].at = "done" =>
            \A e \in ElementsOf(rotated[i].lines) : \E s \in Second : e \in ElementsOf(gz[s])

\* A closed log comes to rest.
Closing == closed = "closing"
CloseEnds == Closing ~> ~Closing

============================================================================
