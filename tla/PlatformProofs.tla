--------------------------- MODULE PlatformProofs ---------------------------
(***************************************************************************)
(* What the services around the scheduler guarantee for any number of      *)
(* instances, lines, candidates and steps.  Each part is an instance of    *)
(* its module that keeps the names of its constants and variables.         *)
(***************************************************************************)
EXTENDS Integers, Sequences, FiniteSets, TLAPS

VARIABLE clock

-----------------------------------------------------------------------------
(* The event log: append, rotate and compress.                             *)

CONSTANTS ChanCap, SubCap, MaxSize, MaxEvents, MaxTicks, MaxFaults
VARIABLES next, chan, closed, file, size, rotated, gz, sub, faults, lost, clashed
Events == INSTANCE EventLog

Lines == Seq(Nat)
Jobs == [lines : Lines, at : {"renamed", "copying", "done", "kept"}, name : 0..MaxTicks]

LogTypes ==
  /\ next \in Nat \ {0} /\ chan \in Lines /\ file \in Lines /\ rotated \in Seq(Jobs)
  /\ gz \in [0..MaxTicks -> Lines] /\ clock \in 0..MaxTicks
  /\ closed \in {"no", "closing", "closed"}

In(e, s) == e \in Events!ElementsOf(s)

(* Where the line of event e is.                                           *)
Found(e) ==
  \/ In(e, file) \/ In(e, chan) \/ e \in lost
  \/ \E s \in 0..MaxTicks : In(e, gz[s])
  \/ \E i \in 1..Len(rotated) : rotated[i].at # "done" /\ In(e, rotated[i].lines)

(* Until two compressions take one name, an archive belongs to the one     *)
(* rotated file that has been compressed into it.                          *)
Archives ==
  /\ \A i, j \in 1..Len(rotated) :
       i # j /\ rotated[i].at # "renamed" /\ rotated[j].at # "renamed" => rotated[i].name # rotated[j].name
  /\ \A s \in 0..MaxTicks :
       gz[s] = <<>> \/ \E i \in 1..Len(rotated) : rotated[i].at = "done" /\ rotated[i].name = s

AtRest == chan = <<>> /\ \A i \in 1..Len(rotated) : rotated[i].at \in {"done", "kept"}

LogInv ==
  /\ LogTypes
  /\ ~clashed => Archives /\ \A e \in 1..(next - 1) : Found(e)
  /\ closed = "closed" => AtRest

LEMMA AppendedLine ==
  ASSUME NEW s \in Lines, NEW e \in Nat, NEW x
  PROVE  Append(s, e) \in Lines /\ (In(x, Append(s, e)) <=> In(x, s) \/ x = e)
<1>1. Append(s, e) \in Lines /\ Len(Append(s, e)) = Len(s) + 1 /\ Len(s) \in Nat
  BY DEF Lines
<1>2. /\ DOMAIN Append(s, e) = 1..Len(s) + 1 /\ DOMAIN s = 1..Len(s)
      /\ \A i \in 1..Len(s) : Append(s, e)[i] = s[i]
      /\ Append(s, e)[Len(s) + 1] = e
  BY <1>1 DEF Lines
<1>3. \A i \in 1..Len(s) + 1 : i \in 1..Len(s) \/ i = Len(s) + 1
  BY <1>1
<1>4. 1..Len(s) \subseteq 1..Len(s) + 1 /\ Len(s) + 1 \in 1..Len(s) + 1
  BY <1>1
<1> QED BY <1>1, <1>2, <1>3, <1>4 DEF In, Events!ElementsOf

LEMMA TakenLine ==
  ASSUME NEW s \in Lines, s # <<>>, NEW x
  PROVE  Head(s) \in Nat /\ Tail(s) \in Lines /\ (In(x, s) => x = Head(s) \/ In(x, Tail(s)))
<1>1. /\ Head(s) = s[1] /\ Len(s) \in Nat /\ Len(s) > 0 /\ Tail(s) \in Lines /\ Len(Tail(s)) = Len(s) - 1
      /\ \A i \in 1..Len(s) - 1 : Tail(s)[i] = s[i + 1]
      /\ DOMAIN s = 1..Len(s) /\ DOMAIN Tail(s) = 1..Len(s) - 1
  BY DEF Lines
<1>2. Head(s) \in Nat
  BY <1>1 DEF Lines
<1>3. ASSUME In(x, s), x # Head(s) PROVE In(x, Tail(s))
  <2>1. PICK i \in 1..Len(s) : x = s[i]
    BY <1>1, <1>3 DEF In, Events!ElementsOf
  <2>2. i - 1 \in 1..Len(s) - 1 /\ Tail(s)[i - 1] = s[i]
    BY <1>1, <1>3, <2>1
  <2> QED BY <1>1, <2>1, <2>2 DEF In, Events!ElementsOf
<1> QED BY <1>1, <1>2, <1>3

LEMMA EmptyLine == <<>> \in Lines /\ \A x : ~In(x, <<>>)
BY DEF Lines, In, Events!ElementsOf

(* A step that keeps the archives and loses no line.                       *)
LEMMA LogKeeps ==
  ASSUME LogInv, LogTypes', ~clashed' => ~clashed,
         ~clashed /\ Archives => Archives' \/ clashed',
         next' = next, \A e \in 1..(next - 1) : ~clashed' /\ Found(e) => Found(e)',
         closed' = "closed" => AtRest'
  PROVE  LogInv'
BY DEF LogInv

LEMMA LogAccepts ==
  ASSUME LogInv, Events!Log PROVE LogInv'
<1>1. /\ next' = next + 1 /\ UNCHANGED <<closed, file, rotated, gz, clock, clashed>>
      /\ \/ closed = "no" /\ chan' = Append(chan, next) /\ lost' = lost
         \/ chan' = chan /\ lost' = lost \cup {next}
  BY DEF Events!Log
<1>2. LogTypes
  BY DEF LogInv
<1>3. next \in Nat /\ chan \in Lines
  BY <1>2 DEF LogTypes
<1>4. LogTypes' /\ \A x : In(x, chan) \/ x = next => In(x, chan') \/ x \in lost'
  <2>1. Append(chan, next) \in Lines /\ \A x : In(x, chan) \/ x = next => In(x, Append(chan, next))
    BY <1>3, AppendedLine
  <2>2. next' \in Nat \ {0}
    BY <1>1, <1>3
  <2>3. chan' \in Lines
    BY <1>1, <1>3, <2>1
  <2> QED BY <1>1, <1>2, <2>1, <2>2, <2>3 DEF LogTypes
<1>5. Archives => Archives'
  BY <1>1 DEF Archives
<1>6. \A e : Found(e) \/ e = next => Found(e)'
  BY <1>1, <1>4 DEF Found
<1>7. \A e \in 1..(next' - 1) : e \in 1..(next - 1) \/ e = next
  BY <1>1, <1>3
<1>8. closed' = "closed" => AtRest'
  BY <1>1 DEF LogInv, AtRest
<1> QED BY <1>1, <1>4, <1>5, <1>6, <1>7, <1>8 DEF LogInv

(* The head of the channel is written: to the file, after a rotation or    *)
(* not, or nowhere, and then counted as lost.                              *)
LEMMA WriterWrites ==
  ASSUME MaxTicks \in Nat, LogInv, Events!Writer PROVE LogInv'
<1>1. LogTypes /\ chan # <<>> /\ chan' = Tail(chan)
  BY DEF LogInv, Events!Writer, Events!WriteRotating, Events!WriteLine, Events!WriteFails
<1>2. /\ Head(chan) \in Nat /\ Tail(chan) \in Lines
      /\ \A x : In(x, chan) => x = Head(chan) \/ In(x, chan')
  BY <1>1, TakenLine DEF LogTypes
<1> DEFINE h == Head(chan)
<1>3. UNCHANGED <<next, closed, gz, clock, clashed>>
  BY DEF Events!Writer, Events!WriteRotating, Events!WriteLine, Events!WriteFails
<1>4. PICK f \in {file, <<>>} :
        /\ \/ f = file /\ rotated' = rotated
           \/ f = <<>> /\ rotated' = Append(rotated, Events!Job(file))
        /\ \/ file' = Append(f, h) /\ lost' = lost
           \/ file' = f /\ lost' = lost \cup {h}
  BY DEF Events!Writer, Events!WriteRotating, Events!WriteLine, Events!WriteFails, Events!FreshFile
<1>5. f \in Lines /\ file \in Lines /\ rotated \in Seq(Jobs) /\ Len(rotated) \in Nat
  BY <1>1, EmptyLine DEF LogTypes
<1>6. Append(f, h) \in Lines /\ \A x : In(x, f) \/ x = h => In(x, Append(f, h))
  BY <1>2, <1>5, AppendedLine
<1> HIDE DEF h
<1>7. file' \in Lines /\ \A x : In(x, f) \/ x = h => In(x, file') \/ x \in lost'
  BY <1>4, <1>5, <1>6
<1>8. Events!Job(file) \in Jobs /\ Events!Job(file).at = "renamed" /\ Events!Job(file).lines = file
  BY <1>5 DEF Events!Job, Jobs
<1>9. /\ rotated' \in Seq(Jobs) /\ Len(rotated') \in {Len(rotated), Len(rotated) + 1}
      /\ \A i \in 1..Len(rotated) : rotated'[i] = rotated[i]
      /\ Len(rotated') = Len(rotated) + 1 =>
           rotated'[Len(rotated) + 1].at = "renamed" /\ rotated'[Len(rotated) + 1].lines = file
      /\ f = file \/ Len(rotated') = Len(rotated) + 1
  <2>1. CASE f = file /\ rotated' = rotated
    BY <1>5, <2>1
  <2>2. CASE rotated' = Append(rotated, Events!Job(file))
    BY <1>5, <1>8, <2>2
  <2> QED BY <1>4, <2>1, <2>2
<1>10. LogTypes'
  BY <1>1, <1>2, <1>3, <1>7, <1>9 DEF LogTypes
<1>11. Archives => Archives'
  <2>1. ASSUME NEW i \in 1..Len(rotated'), rotated'[i].at # "renamed"
        PROVE  i \in 1..Len(rotated) /\ rotated'[i] = rotated[i]
    BY <1>5, <1>9, <2>1
  <2>2. \A i \in 1..Len(rotated) : i \in 1..Len(rotated') /\ rotated'[i] = rotated[i]
    BY <1>5, <1>9
  <2> SUFFICES ASSUME Archives PROVE Archives'
    OBVIOUS
  <2>3. ASSUME NEW i \in 1..Len(rotated'), NEW j \in 1..Len(rotated'), i # j,
               rotated'[i].at # "renamed", rotated'[j].at # "renamed"
        PROVE  rotated'[i].name # rotated'[j].name
    BY <2>1, <2>3 DEF Archives
  <2>4. ASSUME NEW s \in 0..MaxTicks, gz'[s] # <<>>
        PROVE  \E i \in 1..Len(rotated') : rotated'[i].at = "done" /\ rotated'[i].name = s
    BY <1>3, <2>2, <2>4 DEF Archives
  <2> QED BY <2>3, <2>4 DEF Archives
<1>12. ASSUME NEW e, Found(e) PROVE Found(e)'
  <2>1. \A i \in 1..Len(rotated) : i \in 1..Len(rotated') /\ rotated'[i] = rotated[i]
    BY <1>5, <1>9
  <2>2. In(e, file) => Found(e)'
    <3>1. CASE f = file
      BY <1>7, <3>1 DEF Found
    <3>2. CASE Len(rotated') = Len(rotated) + 1
      <4>1. Len(rotated) + 1 \in 1..Len(rotated')
        BY <1>5, <3>2
      <4> QED BY <1>9, <3>2, <4>1 DEF Found
    <3> QED BY <1>9, <3>1, <3>2
  <2>3. In(e, chan) \/ e \in lost => Found(e)'
    BY <1>2, <1>4, <1>7 DEF Found, h
  <2> QED BY <1>3, <1>12, <2>1, <2>2, <2>3 DEF Found
<1>13. closed' = "closed" => AtRest'
  BY <1>1, <1>3 DEF LogInv, AtRest
<1> QED BY <1>3, <1>10, <1>11, <1>12, <1>13, LogKeeps

LEMMA CompressOpens ==
  ASSUME MaxTicks \in Nat, LogInv, NEW i \in 1..Len(rotated), Events!Opens(i) PROVE LogInv'
<1>1. LogTypes /\ rotated[i].at = "renamed" /\ UNCHANGED <<next, chan, closed, file, clock, lost>>
  BY DEF LogInv, Events!Opens
<1>2. rotated \in Seq(Jobs) /\ rotated[i] \in Jobs /\ clock \in 0..MaxTicks /\ gz \in [0..MaxTicks -> Lines]
  BY <1>1 DEF LogTypes
<1> DEFINE q == [rotated[i] EXCEPT !.at = "copying", !.name = clock]
<1>3. q \in Jobs /\ q.lines = rotated[i].lines /\ q.at = "copying" /\ q.name = clock
  BY <1>2 DEF Jobs
<1>4. rotated' = [rotated EXCEPT ![i] = q] /\ gz' = [gz EXCEPT ![clock] = <<>>]
  BY DEF Events!Opens
<1> HIDE DEF q
<1>5. /\ rotated' \in Seq(Jobs) /\ Len(rotated') = Len(rotated) /\ rotated'[i] = q
      /\ \A j \in 1..Len(rotated) : j # i => rotated'[j] = rotated[j]
  BY <1>2, <1>3, <1>4
<1>6. gz' \in [0..MaxTicks -> Lines] /\ gz'[clock] = <<>>
      /\ \A s \in 0..MaxTicks : s # clock => gz'[s] = gz[s]
  BY <1>2, <1>4, EmptyLine
<1>7. LogTypes'
  BY <1>1, <1>5, <1>6 DEF LogTypes
<1>8. ~clashed' => /\ ~clashed
                   /\ \A j \in 1..Len(rotated) : j # i /\ rotated[j].at # "renamed" => rotated[j].name # clock
  <2>1. DOMAIN rotated = 1..Len(rotated)
    BY <1>2
  <2>2. clashed' = (clashed \/ \E j \in 1..Len(rotated) :
                      j # i /\ rotated[j].at # "renamed" /\ rotated[j].name = clock)
    BY <2>1 DEF Events!Opens
  <2> QED BY <2>2
<1>9. ASSUME ~clashed' PROVE Archives' /\ gz[clock] = <<>>
  <2>1. Archives
    BY <1>8, <1>9 DEF LogInv
  <2>2. gz[clock] = <<>>
    BY <1>1, <1>2, <1>8, <1>9, <2>1 DEF Archives
  <2>3. ASSUME NEW j \in 1..Len(rotated), NEW k \in 1..Len(rotated), j # k,
               rotated'[j].at # "renamed", rotated'[k].at # "renamed"
        PROVE  rotated'[j].name # rotated'[k].name
    <3>1. \A l \in 1..Len(rotated) : l # i => rotated'[l] = rotated[l]
      BY <1>5
    <3>2. rotated'[i].name = clock
      BY <1>3, <1>5
    <3>3. CASE j = i
      BY <1>8, <1>9, <2>3, <3>1, <3>2, <3>3
    <3>4. CASE k = i
      BY <1>8, <1>9, <2>3, <3>1, <3>2, <3>4
    <3>5. CASE j # i /\ k # i
      BY <2>1, <2>3, <3>1, <3>5 DEF Archives
    <3> QED BY <3>3, <3>4, <3>5
  <2>4. ASSUME NEW s \in 0..MaxTicks, gz'[s] # <<>>
        PROVE  \E k \in 1..Len(rotated) : rotated'[k].at = "done" /\ rotated'[k].name = s
    <3>1. gz[s] # <<>>
      BY <1>6, <2>4
    <3>2. PICK k \in 1..Len(rotated) : rotated[k].at = "done" /\ rotated[k].name = s
      BY <2>1, <3>1 DEF Archives
    <3> QED BY <1>1, <1>5, <3>2
  <2> QED BY <1>5, <2>2, <2>3, <2>4 DEF Archives
<1>10. ASSUME NEW e, ~clashed', Found(e) PROVE Found(e)'
  <2>1. \A s \in 0..MaxTicks : In(e, gz[s]) => In(e, gz'[s])
    BY <1>6, <1>9, <1>10, EmptyLine
  <2>2. \A j \in 1..Len(rotated) : rotated[j].at # "done" => rotated'[j].at # "done" /\ rotated'[j].lines = rotated[j].lines
    BY <1>3, <1>5
  <2> QED BY <1>1, <1>5, <1>10, <2>1, <2>2 DEF Found
<1>11. closed' = "closed" => AtRest'
  BY <1>1 DEF LogInv, AtRest
<1> QED BY <1>1, <1>7, <1>8, <1>9, <1>10, <1>11, LogKeeps

LEMMA CompressEnds ==
  ASSUME MaxTicks \in Nat, LogInv, NEW i \in 1..Len(rotated), Events!Copied(i) PROVE LogInv'
<1>1. LogTypes /\ rotated[i].at = "copying" /\ UNCHANGED <<next, chan, closed, file, clock, lost, clashed>>
  BY DEF LogInv, Events!Copied
<1>2. rotated \in Seq(Jobs) /\ rotated[i] \in Jobs /\ gz \in [0..MaxTicks -> Lines]
  BY <1>1 DEF LogTypes
<1>3. PICK at \in {"done", "kept"} :
        /\ rotated' = [rotated EXCEPT ![i].at = at]
        /\ gz' = IF at = "done" THEN [gz EXCEPT ![rotated[i].name] = rotated[i].lines] ELSE gz
  BY DEF Events!Copied, Events!AfterFailure
<1> DEFINE q == [rotated[i] EXCEPT !.at = at]
<1>4. /\ q \in Jobs /\ q.lines = rotated[i].lines /\ q.at = at /\ q.name = rotated[i].name
      /\ rotated[i].name \in 0..MaxTicks /\ rotated[i].lines \in Lines
  BY <1>2 DEF Jobs
<1>5. rotated' = [rotated EXCEPT ![i] = q]
  BY <1>3
<1> HIDE DEF q
<1>6. /\ rotated' \in Seq(Jobs) /\ Len(rotated') = Len(rotated) /\ rotated'[i] = q
      /\ \A j \in 1..Len(rotated) : j # i => rotated'[j] = rotated[j]
  BY <1>2, <1>4, <1>5
<1>7. /\ gz' \in [0..MaxTicks -> Lines] /\ (at = "done" => gz'[rotated[i].name] = rotated[i].lines)
      /\ \A s \in 0..MaxTicks : at = "kept" \/ s # rotated[i].name => gz'[s] = gz[s]
  BY <1>2, <1>3, <1>4
<1>8. LogTypes'
  BY <1>1, <1>6, <1>7 DEF LogTypes
<1>9. \A j \in 1..Len(rotated) : /\ rotated'[j].name = rotated[j].name
                                 /\ rotated'[j].lines = rotated[j].lines
                                 /\ rotated'[j].at # "renamed" => rotated[j].at # "renamed"
                                 /\ j # i => rotated'[j].at = rotated[j].at
  BY <1>1, <1>4, <1>6
<1>10. ASSUME Archives PROVE Archives' /\ gz[rotated[i].name] = <<>>
  <2>1. gz[rotated[i].name] = <<>>
    BY <1>1, <1>4, <1>10 DEF Archives
  <2>2. ASSUME NEW j \in 1..Len(rotated), NEW k \in 1..Len(rotated), j # k,
               rotated'[j].at # "renamed", rotated'[k].at # "renamed"
        PROVE  rotated'[j].name # rotated'[k].name
    <3>1. rotated[j].at # "renamed" /\ rotated'[j].name = rotated[j].name
      BY <1>9, <2>2
    <3>2. rotated[k].at # "renamed" /\ rotated'[k].name = rotated[k].name
      BY <1>9, <2>2
    <3> QED BY <1>10, <2>2, <3>1, <3>2 DEF Archives
  <2>3. ASSUME NEW s \in 0..MaxTicks, gz'[s] # <<>>
        PROVE  \E k \in 1..Len(rotated) : rotated'[k].at = "done" /\ rotated'[k].name = s
    <3>1. CASE gz'[s] = gz[s]
      <4>1. PICK k \in 1..Len(rotated) : rotated[k].at = "done" /\ rotated[k].name = s
        BY <1>10, <2>3, <3>1 DEF Archives
      <4>2. rotated'[k].at = "done" /\ rotated'[k].name = s
        BY <1>1, <1>9, <4>1
      <4> QED BY <4>2
    <3>2. CASE at = "done" /\ s = rotated[i].name
      BY <1>4, <1>6, <3>2
    <3> QED BY <1>7, <3>1, <3>2
  <2> QED BY <1>6, <2>1, <2>2, <2>3 DEF Archives
<1>11. ASSUME NEW e, ~clashed', Found(e) PROVE Found(e)'
  <2>1. Archives
    BY <1>1, <1>11 DEF LogInv
  <2>2. \A s \in 0..MaxTicks : In(e, gz[s]) => In(e, gz'[s])
    BY <1>7, <1>10, <2>1, EmptyLine
  <2>3. ASSUME NEW j \in 1..Len(rotated), rotated[j].at # "done", In(e, rotated[j].lines) PROVE Found(e)'
    <3>1. CASE rotated'[j].at # "done"
      <4>1. rotated'[j].lines = rotated[j].lines
        BY <1>9
      <4> QED BY <1>6, <2>3, <3>1, <4>1 DEF Found
    <3>2. CASE j = i /\ at = "done"
      BY <1>4, <1>7, <2>3, <3>2 DEF Found
    <3> QED BY <1>4, <1>6, <1>9, <2>3, <3>1, <3>2
  <2> QED BY <1>1, <1>11, <2>2, <2>3 DEF Found
<1>12. closed' = "closed" => AtRest'
  BY <1>1 DEF LogInv, AtRest
<1> QED BY <1>1, <1>8, <1>10, <1>11, <1>12, LogKeeps

LEMMA LogInvariant ==
  ASSUME MaxTicks \in Nat PROVE Events!Init /\ [][Events!Next]_(Events!vars) => []LogInv
<1>1. ASSUME Events!Init PROVE LogInv
  <2>1. /\ next = 1 /\ chan = <<>> /\ closed = "no" /\ file = <<>> /\ rotated = <<>>
        /\ gz = [s \in 0..MaxTicks |-> <<>>] /\ clock = 0
    BY <1>1 DEF Events!Init, Events!Second
  <2>2. LogTypes /\ Len(rotated) = 0
    BY <2>1, EmptyLine DEF LogTypes
  <2>3. Archives
    BY <2>1, <2>2 DEF Archives
  <2> QED BY <2>1, <2>2, <2>3 DEF LogInv
<1>2. ASSUME LogInv, Events!Next PROVE LogInv'
  <2>1. LogTypes
    BY <1>2 DEF LogInv
  <2>2. ASSUME LogTypes', UNCHANGED <<next, chan, file, rotated, gz, lost, clashed>>,
               closed' = "closed" => AtRest
        PROVE  LogInv'
    BY <1>2, <2>2 DEF LogInv, Archives, Found, AtRest
  <2>3. CASE Events!SubscribeEvents \/ Events!SubReceives \/ Events!UnsubscribeEvents \/ Events!CacheEvicted
    BY <1>2, <2>1, <2>2, <2>3 DEF LogInv, LogTypes, Events!SubscribeEvents, Events!SubReceives,
       Events!UnsubscribeEvents, Events!CacheEvicted
  <2>4. CASE Events!Tick
    <3>1. clock' \in 0..MaxTicks
      BY <2>1, <2>4 DEF LogTypes, Events!Tick
    <3> QED BY <1>2, <2>1, <2>2, <2>4, <3>1 DEF LogInv, LogTypes, Events!Tick
  <2>5. CASE Events!Close
    BY <1>2, <2>1, <2>2, <2>5 DEF LogInv, LogTypes, Events!Close
  <2>6. CASE Events!CloseReturns
    <3>1. AtRest
      BY <2>1, <2>6 DEF Events!CloseReturns, Events!wgWait, AtRest, LogTypes
    <3> QED BY <2>1, <2>2, <2>6, <3>1 DEF LogTypes, Events!CloseReturns
  <2>7. CASE Events!Compress
    <3>1. DOMAIN rotated = 1..Len(rotated)
      BY <2>1 DEF LogTypes
    <3> QED BY <1>2, <2>7, <3>1, CompressOpens, CompressEnds DEF Events!Compress
  <2> QED BY <1>2, <2>3, <2>4, <2>5, <2>6, <2>7, LogAccepts, WriterWrites DEF Events!Next
<1>3. ASSUME LogInv, UNCHANGED Events!vars PROVE LogInv'
  BY <1>3 DEF LogInv, LogTypes, Archives, Found, AtRest, Events!vars
<1> QED BY <1>1, <1>2, <1>3, PTL

(* A line that Log has accepted is in the channel, in the file, in a       *)
(* rotated file not yet archived or in an archive, or was counted as lost  *)
(* by a full channel or a failed write: no rotation, failed rename or      *)
(* failed compression drops one, until two compressions take one name.     *)
THEOREM LogLinesKept ==
  ASSUME MaxTicks \in Nat PROVE Events!Init /\ [][Events!Next]_(Events!vars) => []Events!LinesKept
<1>1. ASSUME LogInv PROVE Events!LinesKept
  <2>1. DOMAIN rotated = 1..Len(rotated)
    BY <1>1 DEF LogInv, LogTypes
  <2>2. \A e : Found(e) => e \in Events!OnDisk \cup Events!ElementsOf(chan) \cup lost
    <3>1. \A e : (\E s \in 0..MaxTicks : In(e, gz[s])) => e \in Events!OnDisk
      BY DEF In, Events!OnDisk, Events!Second
    <3>2. \A e : (\E i \in 1..Len(rotated) : rotated[i].at # "done" /\ In(e, rotated[i].lines)) => e \in Events!OnDisk
      <4> SUFFICES ASSUME NEW e, NEW i \in 1..Len(rotated), rotated[i].at # "done", In(e, rotated[i].lines)
                   PROVE  e \in Events!OnDisk
        OBVIOUS
      <4>1. i \in {j \in DOMAIN rotated : rotated[j].at # "done"}
        BY <2>1
      <4> QED BY <4>1 DEF In, Events!OnDisk
    <3>3. \A e : In(e, file) => e \in Events!OnDisk
      BY DEF In, Events!OnDisk
    <3> QED BY <3>1, <3>2, <3>3 DEF Found, In
  <2> QED BY <1>1, <2>2 DEF LogInv, Events!LinesKept
<1> QED BY <1>1, LogInvariant, PTL

(* When Close has returned the channel is drained and no compression runs, *)
(* and it stays so: a Log that comes later is dropped.                     *)
THEOREM LogClosedIsWritten ==
  ASSUME MaxTicks \in Nat PROVE Events!Init /\ [][Events!Next]_(Events!vars) => []Events!ClosedIsWritten
<1>1. ASSUME LogInv PROVE Events!ClosedIsWritten
  <2>1. DOMAIN rotated = 1..Len(rotated)
    BY <1>1 DEF LogInv, LogTypes
  <2> QED BY <1>1, <2>1 DEF LogInv, AtRest, Events!ClosedIsWritten
<1> QED BY <1>1, LogInvariant, PTL

-----------------------------------------------------------------------------
(* The replay cycle: trials of candidate fixes.                            *)

CONSTANTS FailedTask, promotionThreshold, MaxCycles, MaxReboots
VARIABLES hist, cycle, todo, queue, trials, candidates, samples, judged, reboots
Replay == INSTANCE ReplayCycle

Trial == [succ : Nat, promoted : BOOLEAN, archived : BOOLEAN]

(* What a candidate's judgements js say of its trial t.                    *)
Earned(t, js) ==
  /\ ~t.archived => t.succ = 2 * Len(js) /\ \A i \in 1..Len(js) : js[i] = "verified"
  /\ \A i \in 1..Len(js) : js[i] # "verified" => i = Len(js)
  /\ t.promoted => \E n \in 1..Len(js) : /\ 2 * n >= promotionThreshold
                                         /\ \A i \in 1..n : js[i] = "verified"

TrialInv(t, js) == t \in Trial /\ js \in Seq(Replay!Verdict) /\ Earned(t, js)

ReplayInv ==
  /\ DOMAIN judged = DOMAIN trials
  /\ \A c \in DOMAIN trials : TrialInv(trials[c], judged[c])

(* One more judgement of a candidate that is not archived.                 *)
LEMMA JudgedOnce ==
  ASSUME promotionThreshold \in Nat, NEW t, NEW js, TrialInv(t, js), ~t.archived,
         NEW v \in Replay!Verdict, NEW u \in Trial,
         v = "verified" => /\ u.succ = t.succ + 2
                           /\ u.promoted => t.promoted \/ u.succ >= promotionThreshold,
         v # "verified" => u.archived /\ (u.promoted => t.promoted)
  PROVE  TrialInv(u, Append(js, v))
<1> DEFINE ks == Append(js, v)
<1>1. /\ js \in Seq(Replay!Verdict) /\ t \in Trial /\ t.succ = 2 * Len(js)
      /\ \A i \in 1..Len(js) : js[i] = "verified"
  BY DEF TrialInv, Earned
<1>2. /\ ks \in Seq(Replay!Verdict) /\ Len(ks) = Len(js) + 1 /\ ks[Len(js) + 1] = v /\ Len(js) \in Nat
      /\ \A i \in 1..Len(js) : ks[i] = js[i]
  BY <1>1
<1> HIDE DEF ks
<1>3. \A i \in 1..Len(ks) : i # Len(ks) => i \in 1..Len(js) /\ ks[i] = "verified"
  BY <1>1, <1>2
<1>4. ASSUME t.promoted
      PROVE  \E n \in 1..Len(ks) : 2 * n >= promotionThreshold /\ \A i \in 1..n : ks[i] = "verified"
  <2>1. PICK n \in 1..Len(js) : 2 * n >= promotionThreshold /\ \A i \in 1..n : js[i] = "verified"
    BY <1>4 DEF TrialInv, Earned
  <2>2. n \in 1..Len(ks) /\ \A i \in 1..n : ks[i] = "verified"
    BY <1>2, <2>1
  <2> QED BY <2>1, <2>2
<1>5. CASE v = "verified"
  <2>1. \A i \in 1..Len(ks) : ks[i] = "verified"
    BY <1>2, <1>3, <1>5
  <2>2. u.succ = 2 * Len(ks)
    BY <1>1, <1>2, <1>5
  <2>3. u.succ >= promotionThreshold =>
          \E n \in 1..Len(ks) : 2 * n >= promotionThreshold /\ \A i \in 1..n : ks[i] = "verified"
    <3>1. Len(ks) \in 1..Len(ks)
      BY <1>2
    <3> QED BY <2>1, <2>2, <3>1
  <2> QED BY <1>2, <1>4, <1>5, <2>1, <2>2, <2>3 DEF TrialInv, Earned, ks
<1>6. CASE v # "verified"
  BY <1>2, <1>3, <1>4, <1>6 DEF TrialInv, Earned, ks
<1> QED BY <1>5, <1>6

(* The trial of a judged candidate, and nobody else's, moves.              *)
Moved(f, g, c) == DOMAIN g = DOMAIN f \cup {c} /\ \A d \in DOMAIN f : d # c => g[d] = f[d]

Succeeded(t) == [t EXCEPT !.succ = @ + 1]
Archived(t)  == [t EXCEPT !.succ = 0, !.archived = TRUE]

LEMMA TrialMoves ==
  ASSUME NEW t \in Trial
  PROVE  /\ Succeeded(t) \in Trial /\ Succeeded(t).succ = t.succ + 1 /\ Succeeded(t).archived = t.archived
         /\ Succeeded(t).promoted = t.promoted
         /\ Archived(t) \in Trial /\ Archived(t).archived /\ Archived(t).promoted = t.promoted
<1>1. /\ Succeeded(t) \in Trial /\ Succeeded(t).succ = t.succ + 1 /\ Succeeded(t).archived = t.archived
      /\ Succeeded(t).promoted = t.promoted
  BY DEF Trial, Succeeded
<1>2. Archived(t) \in Trial /\ Archived(t).archived /\ Archived(t).promoted = t.promoted
  BY DEF Trial, Archived
<1> QED BY <1>1, <1>2

LEMMA Promoted ==
  ASSUME NEW r, NEW c, c \in DOMAIN r, r[c] \in Trial, NEW w, NEW p \in BOOLEAN,
         w = IF p THEN [r EXCEPT ![c].promoted = TRUE] ELSE r
  PROVE  /\ DOMAIN w = DOMAIN r /\ \A d \in DOMAIN r : d # c => w[d] = r[d]
         /\ w[c] \in Trial /\ w[c].succ = r[c].succ /\ w[c].archived = r[c].archived
         /\ w[c].promoted => r[c].promoted \/ p
<1> DEFINE q == [r[c] EXCEPT !.promoted = TRUE]
<1>1. q \in Trial /\ q.succ = r[c].succ /\ q.archived = r[c].archived
  BY DEF Trial
<1>2. CASE p
  <2>1. DOMAIN w = DOMAIN r /\ w[c] = q /\ \A d \in DOMAIN r : d # c => w[d] = r[d]
    BY <1>2
  <2> HIDE DEF q
  <2> QED BY <1>1, <1>2, <2>1
<1>3. CASE ~p
  BY <1>3
<1> QED BY <1>2, <1>3

LEMMA JudgeKeeps ==
  ASSUME promotionThreshold \in Nat, ReplayInv, NEW v \in Replay!Verdict, Replay!Judge(v)
  PROVE  ReplayInv'
<1> DEFINE c  == Replay!candidateID(queue[1][1], queue[1][2])
           t  == Replay!TrialOf(trials, c)
           js == IF c \in DOMAIN judged THEN judged[c] ELSE <<>>
<1>1. TrialInv(t, js) /\ ~t.archived
  <2>1. TrialInv(t, js)
    <3>1. CASE c \in DOMAIN trials
      BY <3>1 DEF ReplayInv, Replay!TrialOf
    <3>2. CASE c \notin DOMAIN trials
      <4>1. /\ Replay!NoTrial \in Trial /\ Replay!NoTrial.succ = 0 /\ Replay!NoTrial.promoted = FALSE
        BY DEF Replay!NoTrial, Trial
      <4>2. TrialInv(Replay!NoTrial, <<>>)
        BY <4>1 DEF TrialInv, Earned
      <4> QED BY <3>2, <4>2 DEF ReplayInv, Replay!TrialOf
    <3> QED BY <3>1, <3>2
  <2>2. ~t.archived
    BY DEF Replay!Judge, Replay!IsArchived
  <2> QED BY <2>1, <2>2
<1>2. t \in Trial
  BY <1>1 DEF TrialInv
<1>3. judged' = Replay!Put(judged, c, Append(js, v))
  BY DEF Replay!Judge
<1>4. /\ DOMAIN judged' = DOMAIN judged \cup {c} /\ judged'[c] = Append(js, v)
      /\ \A d \in DOMAIN judged : d # c => judged'[d] = judged[d]
  BY <1>3 DEF Replay!Put
<1>5. /\ Moved(trials, trials', c) /\ trials'[c] \in Trial
      /\ v = "verified" => /\ trials'[c].succ = t.succ + 2
                           /\ trials'[c].promoted => t.promoted \/ trials'[c].succ >= promotionThreshold
      /\ v # "verified" => trials'[c].archived /\ (trials'[c].promoted => t.promoted)
  <2>1. CASE v = "verified"
    <3> DEFINE a == Replay!RecordOutcome(trials, c, TRUE)  b == Replay!RecordOutcome(a, c, TRUE)
               p == Replay!ShouldPromote(b, c)
    <3>1. trials' = IF p THEN [b EXCEPT ![c].promoted = TRUE] ELSE b
      BY <2>1 DEF Replay!Judge, Replay!Written, Replay!TrialsAfterWriteBack
    <3>2. Moved(trials, a, c) /\ a[c] = Succeeded(t)
      BY DEF Replay!RecordOutcome, Replay!Put, Moved, Succeeded
    <3> HIDE DEF a, t
    <3>3. Moved(a, b, c) /\ b[c] = Succeeded(a[c])
      <4>1. Replay!TrialOf(a, c) = a[c]
        BY <3>2 DEF Replay!TrialOf, Moved
      <4> QED BY <4>1 DEF Replay!RecordOutcome, Replay!Put, Moved, Succeeded
    <3>4. a[c] \in Trial /\ a[c].succ = t.succ + 1 /\ a[c].promoted = t.promoted
      BY <1>2, <3>2, TrialMoves
    <3>5. b[c] \in Trial /\ b[c].succ = a[c].succ + 1 /\ b[c].promoted = a[c].promoted
      BY <3>3, <3>4, TrialMoves
    <3> HIDE DEF b
    <3>6. c \in DOMAIN b /\ DOMAIN b = DOMAIN trials \cup {c}
          /\ \A d \in DOMAIN trials : d # c => b[d] = trials[d]
      BY <3>2, <3>3 DEF Moved
    <3>7. p \in BOOLEAN /\ (p => b[c].succ >= promotionThreshold)
      BY <3>6 DEF Replay!ShouldPromote, Replay!TrialOf
    <3> HIDE DEF p
    <3>8. /\ DOMAIN trials' = DOMAIN b /\ \A d \in DOMAIN b : d # c => trials'[d] = b[d]
          /\ trials'[c] \in Trial /\ trials'[c].succ = b[c].succ
          /\ trials'[c].promoted => b[c].promoted \/ p
      BY <3>1, <3>5, <3>6, <3>7, Promoted
    <3>9. t.succ \in Nat
      BY <1>2 DEF Trial
    <3>10. trials'[c].succ = t.succ + 2
      BY <3>4, <3>5, <3>8, <3>9
    <3>11. trials'[c].promoted => t.promoted \/ trials'[c].succ >= promotionThreshold
      BY <3>4, <3>5, <3>7, <3>8
    <3>12. Moved(trials, trials', c)
      BY <3>6, <3>8 DEF Moved
    <3> QED BY <2>1, <3>8, <3>10, <3>11, <3>12
  <2>2. CASE v # "verified"
    <3> DEFINE a == Replay!RecordOutcome(trials, c, FALSE)  p == Replay!ShouldPromote(a, c)
    <3>1. Moved(trials, a, c) /\ a[c] = Archived(t)
      BY DEF Replay!RecordOutcome, Replay!Put, Moved, Archived
    <3>2. CASE v = "rejected"
      <4>1. trials' = a
        BY <3>2 DEF Replay!Judge, Replay!Written
      <4> HIDE DEF a, t
      <4> QED BY <1>2, <2>2, <3>1, <4>1, TrialMoves DEF Moved
    <3>3. CASE v = "no_verifier"
      <4>1. trials' = IF p THEN [a EXCEPT ![c].promoted = TRUE] ELSE a
        BY <3>3 DEF Replay!Judge, Replay!Written, Replay!TrialsAfterWriteBack
      <4> HIDE DEF a, t
      <4>2. a[c] \in Trial /\ a[c].archived /\ a[c].promoted = t.promoted
        BY <1>2, <3>1, TrialMoves
      <4>3. ~p
        BY <3>1, <4>2 DEF Replay!ShouldPromote, Replay!TrialOf, Moved
      <4> HIDE DEF p
      <4> QED BY <2>2, <3>1, <4>1, <4>2, <4>3 DEF Moved
    <3> QED BY <2>2, <3>2, <3>3 DEF Replay!Verdict
  <2> QED BY <2>1, <2>2
<1> HIDE DEF t, js, c
<1>6. TrialInv(trials'[c], Append(js, v))
  BY <1>1, <1>5, JudgedOnce
<1> QED BY <1>4, <1>5, <1>6 DEF ReplayInv, Moved

LEMMA ReplayInvariant ==
  ASSUME promotionThreshold \in Nat PROVE Replay!Spec => []ReplayInv
<1>1. Replay!Init => ReplayInv
  BY DEF Replay!Init, ReplayInv
<1>2. ASSUME ReplayInv, Replay!Next PROVE ReplayInv'
  <2>1. CASE UNCHANGED <<trials, judged>>
    BY <1>2, <2>1 DEF ReplayInv
  <2>2. CASE Replay!Reboot
    BY <2>2 DEF Replay!Reboot, ReplayInv
  <2>3. CASE Replay!processMutation
    BY <1>2, <2>1, <2>3, JudgeKeeps DEF Replay!processMutation, Replay!SkipArchived
  <2> QED BY <1>2, <2>1, <2>2, <2>3 DEF Replay!Next, Replay!RunReplayCycle, Replay!ReplayTask
<1>3. ASSUME ReplayInv, UNCHANGED Replay!replayVars PROVE ReplayInv'
  BY <1>3 DEF ReplayInv, Replay!replayVars
<1> QED BY <1>1, <1>2, <1>3, PTL DEF Replay!Spec

(* A promoted candidate was verified, and nothing else, often enough for   *)
(* the threshold, each verification being recorded twice.                  *)
THEOREM ReplayPromotionEarned ==
  ASSUME promotionThreshold \in Nat PROVE Replay!Spec => []Replay!PromotionEarned
<1>1. ASSUME ReplayInv PROVE Replay!PromotionEarned
  <2>1. \A c \in DOMAIN trials : DOMAIN judged[c] = 1..Len(judged[c])
    BY <1>1 DEF ReplayInv, TrialInv
  <2> QED BY <1>1, <2>1 DEF ReplayInv, TrialInv, Earned, Replay!PromotionEarned
<1> QED BY <1>1, ReplayInvariant, PTL

(* The judgement that archived a candidate is its last: no later cycle     *)
(* judges it or writes it back while the process lives.                    *)
THEOREM ReplayArchivedIsFinal ==
  ASSUME promotionThreshold \in Nat PROVE Replay!Spec => []Replay!ArchivedIsFinal
<1>1. ASSUME ReplayInv PROVE Replay!ArchivedIsFinal
  <2>1. \A c \in DOMAIN trials : DOMAIN judged[c] = 1..Len(judged[c])
    BY <1>1 DEF ReplayInv, TrialInv
  <2> QED BY <1>1, <2>1 DEF ReplayInv, TrialInv, Earned, Replay!ArchivedIsFinal
<1> QED BY <1>1, ReplayInvariant, PTL

-----------------------------------------------------------------------------
(* The event bus and those who listen.                                     *)

CONSTANTS Step, Watcher, PerTaskTokens, MaxTries, MaxSubs, MaxLoops, MaxResumes
VARIABLES task, step, tries, subs, slot, pub, usage, suspended, window, told, spent, loops, resumes,
          unheard
Bus == INSTANCE Observers

SubTypes == subs \in Seq({"gate", "quality", "acp", "gone"}) /\ slot \in [Watcher -> Nat]
BusInv == SubTypes /\ Bus!SubscribedExactly

(* The list of handlers and the slots point at each other.                 *)
LEMMA Slots ==
  ASSUME BusInv
  PROVE  /\ \A w \in Watcher : slot[w] # 0 => slot[w] \in 1..Len(subs) /\ subs[slot[w]] = w
         /\ \A i \in 1..Len(subs) : subs[i] # "gone" => slot[subs[i]] = i
<1>1. DOMAIN subs = 1..Len(subs) /\ Len(subs) \in Nat /\ slot \in [Watcher -> Nat]
  BY DEF BusInv, SubTypes
<1>2. /\ \A w \in Watcher : slot[w] # 0 => slot[w] <= Len(subs) /\ subs[slot[w]] = w
      /\ \A i \in DOMAIN subs : subs[i] # "gone" => slot[subs[i]] = i
  BY DEF BusInv, Bus!SubscribedExactly, Bus!Gone
<1>3. ASSUME NEW w \in Watcher, slot[w] # 0 PROVE slot[w] \in 1..Len(subs)
  <2>1. slot[w] \in Nat /\ slot[w] <= Len(subs)
    BY <1>1, <1>2, <1>3
  <2> QED BY <1>1, <1>3, <2>1
<1> QED BY <1>1, <1>2, <1>3

(* Watchers ws are unsubscribed.                                           *)
LEMMA Unsubscribed ==
  ASSUME Watcher = {"gate", "quality", "acp"}, BusInv, NEW ws \in SUBSET Watcher,
         subs' = Bus!Tombstoned([i \in DOMAIN subs |->
                   IF i \in {slot[w] : w \in ws} THEN "gone" ELSE subs[i]]),
         slot' = [w \in Watcher |-> IF w \in ws THEN 0 ELSE slot[w]]
  PROVE  BusInv'
<1> DEFINE l == [i \in DOMAIN subs |-> IF i \in {slot[w] : w \in ws} THEN "gone" ELSE subs[i]]
<1>1. /\ subs \in Seq({"gate", "quality", "acp", "gone"}) /\ slot \in [Watcher -> Nat]
      /\ Len(subs) \in Nat /\ DOMAIN subs = 1..Len(subs)
  BY DEF BusInv, SubTypes
<1>2. /\ l \in Seq({"gate", "quality", "acp", "gone"}) /\ Len(l) = Len(subs) /\ DOMAIN l = 1..Len(subs)
      /\ \A i \in 1..Len(subs) : l[i] = IF i \in {slot[w] : w \in ws} THEN "gone" ELSE subs[i]
  <2>1. \A i \in 1..Len(subs) : subs[i] \in {"gate", "quality", "acp", "gone"}
    BY <1>1
  <2>2. l \in [1..Len(subs) -> {"gate", "quality", "acp", "gone"}]
    BY <1>1, <2>1
  <2> QED BY <1>1, <2>2
<1>3. /\ \A w \in Watcher : slot[w] # 0 => slot[w] \in 1..Len(subs) /\ subs[slot[w]] = w
      /\ \A i \in 1..Len(subs) : subs[i] # "gone" => slot[subs[i]] = i
  BY Slots
<1>4. subs' = IF \A i \in 1..Len(subs) : l[i] = "gone" THEN <<>> ELSE l
  BY <1>2 DEF Bus!Tombstoned, Bus!Gone
<1> HIDE DEF l
<1>5. slot' \in [Watcher -> Nat] /\ \A w \in Watcher : slot'[w] = IF w \in ws THEN 0 ELSE slot[w]
  BY <1>1
<1>6. ASSUME NEW w \in Watcher, slot'[w] # 0
      PROVE  slot'[w] \in 1..Len(subs) /\ l[slot'[w]] = w /\ w # "gone"
  <2>1. w \notin ws /\ slot'[w] = slot[w] /\ slot[w] \in 1..Len(subs) /\ subs[slot[w]] = w
    BY <1>3, <1>5, <1>6
  <2>2. ASSUME NEW v \in ws PROVE slot[w] # slot[v]
    BY <1>3, <2>1
  <2> QED BY <1>2, <2>1, <2>2
<1>7. ASSUME NEW i \in 1..Len(subs), l[i] # "gone" PROVE slot'[l[i]] = i
  <2>1. l[i] = subs[i] /\ i \notin {slot[v] : v \in ws} /\ slot[subs[i]] = i
    BY <1>2, <1>3, <1>7
  <2>2. subs[i] \in {"gate", "quality", "acp", "gone"}
    BY <1>1
  <2> QED BY <1>5, <1>7, <2>1, <2>2
<1>8. CASE subs' = l
  <2>1. DOMAIN subs' = 1..Len(subs) /\ Len(subs') = Len(subs)
    BY <1>2, <1>8
  <2>2. SubTypes'
    BY <1>2, <1>5, <1>8 DEF SubTypes
  <2>3. ASSUME NEW w \in Watcher, slot'[w] # 0 PROVE slot'[w] <= Len(subs') /\ subs'[slot'[w]] = w
    <3>1. slot'[w] \in 1..Len(subs) /\ l[slot'[w]] = w
      BY <1>6, <2>3
    <3> QED BY <1>1, <1>8, <2>1, <3>1
  <2>4. \A i \in DOMAIN subs' : subs'[i] # "gone" => slot'[subs'[i]] = i
    BY <1>7, <1>8, <2>1
  <2> QED BY <2>2, <2>3, <2>4 DEF BusInv, Bus!SubscribedExactly, Bus!Gone
<1>9. CASE subs' = <<>> /\ \A i \in 1..Len(subs) : l[i] = "gone"
  <2>1. \A w \in Watcher : slot'[w] = 0
    BY <1>6, <1>9
  <2>2. subs' \in Seq({"gate", "quality", "acp", "gone"}) /\ DOMAIN subs' = {}
    BY <1>9
  <2> QED BY <1>5, <2>1, <2>2 DEF BusInv, SubTypes, Bus!SubscribedExactly
<1> QED BY <1>4, <1>8, <1>9

LEMMA Subscribed ==
  ASSUME Watcher = {"gate", "quality", "acp"}, BusInv, NEW w \in Watcher, Bus!SubscribeWithCancel(w)
  PROVE  BusInv'
<1>1. /\ subs \in Seq({"gate", "quality", "acp", "gone"}) /\ slot \in [Watcher -> Nat]
      /\ Len(subs) \in Nat /\ DOMAIN subs = 1..Len(subs)
  BY DEF BusInv, SubTypes
<1>2. /\ \A v \in Watcher : slot[v] # 0 => slot[v] \in 1..Len(subs) /\ subs[slot[v]] = v
      /\ \A i \in 1..Len(subs) : subs[i] # "gone" => slot[subs[i]] = i
  BY Slots
<1>3. slot[w] = 0 /\ subs' = Append(subs, w) /\ slot' = [slot EXCEPT ![w] = Len(subs) + 1]
  BY DEF Bus!SubscribeWithCancel
<1>4. /\ subs' \in Seq({"gate", "quality", "acp", "gone"}) /\ Len(subs') = Len(subs) + 1
      /\ DOMAIN subs' = 1..Len(subs) + 1 /\ subs'[Len(subs) + 1] = w
      /\ \A i \in 1..Len(subs) : subs'[i] = subs[i]
  BY <1>1, <1>3
<1>5. /\ slot' \in [Watcher -> Nat] /\ slot'[w] = Len(subs) + 1
      /\ \A v \in Watcher : v # w => slot'[v] = slot[v]
  BY <1>1, <1>3
<1>6. ASSUME NEW v \in Watcher, slot'[v] # 0 PROVE slot'[v] <= Len(subs') /\ subs'[slot'[v]] = v
  BY <1>1, <1>2, <1>4, <1>5, <1>6
<1>7. ASSUME NEW i \in 1..Len(subs) + 1, subs'[i] # "gone" PROVE slot'[subs'[i]] = i
  <2>1. CASE i = Len(subs) + 1
    BY <1>4, <1>5, <2>1
  <2>2. CASE i \in 1..Len(subs)
    <3>1. subs[i] \in Watcher /\ slot[subs[i]] = i /\ subs[i] # w
      BY <1>1, <1>2, <1>3, <1>4, <1>7, <2>2
    <3> QED BY <1>4, <1>5, <2>2, <3>1
  <2> QED BY <1>1, <2>1, <2>2
<1> QED BY <1>4, <1>5, <1>6, <1>7 DEF BusInv, SubTypes, Bus!SubscribedExactly, Bus!Gone

LEMMA WiringOnly ==
  ASSUME Bus!Next, ~Bus!Wiring PROVE UNCHANGED <<subs, slot>>
BY DEF Bus!Next, Bus!Deliver, Bus!GateCounts, Bus!SuspendTask, Bus!GateMarks, Bus!GateResets,
       Bus!TrackerRecords, Bus!BridgeTells, Bus!StartStep, Bus!GuardianStops, Bus!InterceptorLogs,
       Bus!handleStepSuccess, Bus!handleStepFailure, Bus!ResumeSuspendedTask, Bus!finalize

(* However sessions come and go, every subscriber's unsubscribe function   *)
(* finds its own handler at the index it captured, and no handler outlives *)
(* its subscription: tombstones keep the indices.                          *)
THEOREM BusSubscribedExactly ==
  ASSUME Watcher = {"gate", "quality", "acp"}
  PROVE  Bus!Init /\ [][Bus!Next]_(Bus!vars) => []Bus!SubscribedExactly
<1>1. ASSUME Bus!Init PROVE BusInv
  <2>1. subs = <<"gate", "quality", "acp">>
        /\ slot = [w \in Watcher |-> CASE w = "gate" -> 1 [] w = "quality" -> 2 [] OTHER -> 3]
    BY <1>1 DEF Bus!Init
  <2>2. subs \in Seq({"gate", "quality", "acp", "gone"}) /\ Len(subs) = 3 /\ DOMAIN subs = 1..3
        /\ subs[1] = "gate" /\ subs[2] = "quality" /\ subs[3] = "acp"
    BY <2>1
  <2>3. slot \in [Watcher -> Nat] /\ slot["gate"] = 1 /\ slot["quality"] = 2 /\ slot["acp"] = 3
    BY <2>1
  <2>4. \A i \in 1..3 : i = 1 \/ i = 2 \/ i = 3
    OBVIOUS
  <2>5. \A w \in Watcher : slot[w] # 0 => slot[w] <= Len(subs) /\ subs[slot[w]] = w
    BY <2>2, <2>3
  <2>6. \A i \in DOMAIN subs : subs[i] # "gone" => slot[subs[i]] = i
    BY <2>2, <2>3, <2>4
  <2> QED BY <2>2, <2>3, <2>5, <2>6 DEF BusInv, SubTypes, Bus!SubscribedExactly, Bus!Gone
<1>2. ASSUME BusInv, UNCHANGED <<subs, slot>> PROVE BusInv'
  BY <1>2 DEF BusInv, SubTypes, Bus!SubscribedExactly
<1>3. ASSUME BusInv, Bus!Next PROVE BusInv'
  <2>1. slot \in [Watcher -> Nat] /\ "acp" \in Watcher
    BY <1>3 DEF BusInv, SubTypes
  <2>2. CASE Bus!Unsubscribe("acp")
    <3>1. subs' = Bus!Tombstoned([i \in DOMAIN subs |-> IF i = slot["acp"] THEN "gone" ELSE subs[i]])
          /\ slot' = [slot EXCEPT !["acp"] = 0]
      BY <2>2 DEF Bus!Unsubscribe, Bus!Gone
    <3>2. [i \in DOMAIN subs |-> IF i = slot["acp"] THEN "gone" ELSE subs[i]]
          = [i \in DOMAIN subs |-> IF i \in {slot[w] : w \in {"acp"}} THEN "gone" ELSE subs[i]]
      OBVIOUS
    <3>3. slot' = [w \in Watcher |-> IF w \in {"acp"} THEN 0 ELSE slot[w]]
      BY <2>1, <3>1
    <3> QED BY <1>3, <2>1, <3>1, <3>2, <3>3, Unsubscribed
  <2>3. CASE Bus!Unwire
    <3>1. subs' = Bus!Tombstoned([i \in DOMAIN subs |->
                     IF i \in {slot["gate"], slot["quality"]} THEN "gone" ELSE subs[i]])
          /\ slot' = [slot EXCEPT !["gate"] = 0, !["quality"] = 0]
      BY <2>3 DEF Bus!Unwire, Bus!Gone
    <3>2. {slot["gate"], slot["quality"]} = {slot[w] : w \in {"gate", "quality"}}
      OBVIOUS
    <3>3. slot' = [w \in Watcher |-> IF w \in {"gate", "quality"} THEN 0 ELSE slot[w]]
      BY <2>1, <3>1
    <3>4. [i \in DOMAIN subs |-> IF i \in {slot["gate"], slot["quality"]} THEN "gone" ELSE subs[i]]
          = [i \in DOMAIN subs |-> IF i \in {slot[w] : w \in {"gate", "quality"}} THEN "gone" ELSE subs[i]]
      BY <3>2
    <3>5. {"gate", "quality"} \in SUBSET Watcher
      OBVIOUS
    <3> QED BY <1>3, <3>1, <3>3, <3>4, <3>5, Unsubscribed
  <2>4. CASE Bus!SubscribeWithCancel("acp")
    BY <1>3, <2>1, <2>4, Subscribed
  <2> QED BY <1>2, <1>3, <2>2, <2>3, <2>4, WiringOnly DEF Bus!Wiring
<1>4. ASSUME BusInv, UNCHANGED Bus!vars PROVE BusInv'
  BY <1>2, <1>4 DEF Bus!vars
<1>5. BusInv => Bus!SubscribedExactly
  BY DEF BusInv
<1> QED BY <1>1, <1>3, <1>4, <1>5, PTL

(* What the events under way, and the samples taken, say of the steps.     *)
Happened == {"none", "step_completed", "step_failed", "task_completed", "task_failed"}
Occurrence == [type : Happened, tokens : Nat, key : Step \cup {"global", "task"}]
Delivery(Q) == [ev : Occurrence, todo : Q, at : {"idle", "next", "suspend", "drain"}]

Truthful(ev) == ev.key \in Step /\ ev.type \in {"step_completed", "task_completed"} => step[ev.key] = "ok"

PubTypes == \E Q : pub \in [Step \cup {"engine"} -> Delivery(Q)]

RoleInv ==
  /\ PubTypes /\ DOMAIN step = Step
  /\ \A p \in Step \cup {"engine"} : Truthful(pub[p].ev)
  /\ Bus!RoleSuccessEarned

(* A publisher's event stays, or gives way to a truthful one; an accepted  *)
(* step stays accepted.                                                    *)
LEMMA RoleKeeps ==
  ASSUME RoleInv, NEW p \in Step \cup {"engine"}, NEW Q, NEW r \in Delivery(Q),
         pub' = [pub EXCEPT ![p] = r], Truthful(r.ev)', DOMAIN step' = Step,
         \A s \in Step : step[s] = "ok" => step'[s] = "ok",
         \A s \in Step : <<s, "ok">> \in window' => <<s, "ok">> \in window \/ step'[s] = "ok"
  PROVE  RoleInv'
<1>1. PICK Q0 : pub \in [Step \cup {"engine"} -> Delivery(Q0)]
  BY DEF RoleInv, PubTypes
<1>2. r \in Delivery(Q \cup Q0) /\ \A q \in Step \cup {"engine"} : pub[q] \in Delivery(Q \cup Q0)
  BY <1>1 DEF Delivery
<1>3. pub' \in [Step \cup {"engine"} -> Delivery(Q \cup Q0)] /\ pub'[p] = r
      /\ \A q \in Step \cup {"engine"} : q # p => pub'[q] = pub[q]
  BY <1>1, <1>2
<1>4. PubTypes'
  BY <1>3 DEF PubTypes
<1>5. ASSUME NEW q \in Step \cup {"engine"} PROVE Truthful(pub[q].ev)'
  BY <1>3 DEF RoleInv, Truthful
<1>6. Bus!RoleSuccessEarned'
  BY DEF RoleInv, Bus!RoleSuccessEarned
<1> QED BY <1>4, <1>5, <1>6 DEF RoleInv

LEMMA IdleDelivery == Bus!Idle \in Delivery({<<>>}) /\ Bus!Idle.ev.type = "none"
<1>1. Bus!Event("none", 0, "global") \in Occurrence /\ Bus!Event("none", 0, "global").type = "none"
  BY DEF Bus!Event, Occurrence, Happened
<1> QED BY <1>1 DEF Bus!Idle, Delivery

(* The handlers: the event stays until the last one has been called.       *)
LEMMA DeliverKeeps ==
  ASSUME "global" \notin Step, "task" \notin Step, RoleInv, NEW p \in Step \cup {"engine"}, Bus!Deliver(p)
  PROVE  RoleInv'
<1>1. PICK Q : pub \in [Step \cup {"engine"} -> Delivery(Q)]
  BY DEF RoleInv, PubTypes
<1>2. pub[p] \in Delivery(Q) /\ Truthful(pub[p].ev) /\ UNCHANGED step
  BY <1>1 DEF RoleInv, Bus!Deliver, Bus!GateCounts, Bus!SuspendTask, Bus!GateMarks, Bus!GateResets,
     Bus!TrackerRecords, Bus!BridgeTells
<1>3. \E l : \E at \in {"next", "suspend", "drain"} :
        pub' = [pub EXCEPT ![p] = Bus!Idle] \/ pub' = [pub EXCEPT ![p] = [pub[p] EXCEPT !.todo = l, !.at = at]]
  <2>1. ASSUME pub' = [pub EXCEPT ![p] = Bus!Next1(p)]
        PROVE  pub' = [pub EXCEPT ![p] = Bus!Idle]
               \/ pub' = [pub EXCEPT ![p] = [pub[p] EXCEPT !.todo = Tail(pub[p].todo), !.at = "next"]]
    BY <2>1 DEF Bus!Next1
  <2>2. ASSUME NEW a \in {"suspend", "drain"}, pub' = [pub EXCEPT ![p] = [pub[p] EXCEPT !.at = a]]
        PROVE  pub' = [pub EXCEPT ![p] = [pub[p] EXCEPT !.todo = pub[p].todo, !.at = a]]
    <3>1. [pub[p] EXCEPT !.at = a] = [pub[p] EXCEPT !.todo = pub[p].todo, !.at = a]
      BY <1>2 DEF Delivery
    <3> QED BY <2>2, <3>1
  <2> QED BY <2>1, <2>2 DEF Bus!Deliver, Bus!GateCounts, Bus!SuspendTask, Bus!GateMarks, Bus!GateResets,
             Bus!TrackerRecords, Bus!BridgeTells
<1>4. PICK l : \E at \in {"next", "suspend", "drain"} :
        pub' = [pub EXCEPT ![p] = Bus!Idle] \/ pub' = [pub EXCEPT ![p] = [pub[p] EXCEPT !.todo = l, !.at = at]]
  BY <1>3
<1>5. PICK at \in {"next", "suspend", "drain"} :
        pub' = [pub EXCEPT ![p] = Bus!Idle] \/ pub' = [pub EXCEPT ![p] = [pub[p] EXCEPT !.todo = l, !.at = at]]
  BY <1>4
<1>6. PICK r \in Delivery(Q \cup {l, <<>>}) :
        pub' = [pub EXCEPT ![p] = r] /\ (r.ev = pub[p].ev \/ r.ev.type = "none")
  <2> DEFINE q == [pub[p] EXCEPT !.todo = l, !.at = at]
  <2>1. q \in Delivery(Q \cup {l, <<>>}) /\ q.ev = pub[p].ev
    BY <1>2 DEF Delivery
  <2>2. Bus!Idle \in Delivery(Q \cup {l, <<>>})
    BY IdleDelivery DEF Delivery
  <2> HIDE DEF q
  <2> QED BY <1>5, <2>1, <2>2, IdleDelivery DEF q
<1>7. Truthful(r.ev)'
  BY <1>2, <1>6 DEF Truthful
<1>8. \A s \in Step : <<s, "ok">> \in window' => <<s, "ok">> \in window \/ step'[s] = "ok"
  <2>1. CASE Bus!TrackerRecords(p)
    <3>1. window' = window \cup {<<pub[p].ev.key, IF pub[p].ev.type \in {"step_completed", "task_completed"}
                                                  THEN "ok" ELSE "fail">>}
      BY <2>1 DEF Bus!TrackerRecords
    <3> QED BY <1>2, <3>1 DEF Truthful
  <2>2. CASE UNCHANGED window
    BY <2>2
  <2> QED BY <2>1, <2>2 DEF Bus!Deliver, Bus!GateCounts, Bus!SuspendTask, Bus!GateMarks, Bus!GateResets,
             Bus!BridgeTells
<1> QED BY <1>2, <1>6, <1>7, <1>8, RoleKeeps DEF RoleInv

LEMMA PublishKeeps ==
  ASSUME RoleInv, NEW p \in Step \cup {"engine"}, NEW ev \in Occurrence, Bus!Publish(p, ev), Truthful(ev)',
         DOMAIN step' = Step, \A s \in Step : step[s] = "ok" => step'[s] = "ok", UNCHANGED window
  PROVE  RoleInv'
<1>1. PICK l : pub' = [pub EXCEPT ![p] = Bus!Idle] \/ pub' = [pub EXCEPT ![p] = [ev |-> ev, todo |-> l, at |-> "next"]]
  BY DEF Bus!Publish
<1>2. PICK r \in Delivery({l, <<>>}) : pub' = [pub EXCEPT ![p] = r] /\ (r.ev = ev \/ r.ev.type = "none")
  <2>1. [ev |-> ev, todo |-> l, at |-> "next"] \in Delivery({l, <<>>})
    BY DEF Delivery
  <2>2. Bus!Idle \in Delivery({l, <<>>})
    BY IdleDelivery DEF Delivery
  <2> QED BY <1>1, <2>1, <2>2, IdleDelivery
<1>3. Truthful(r.ev)'
  BY <1>2 DEF Truthful
<1> QED BY <1>2, <1>3, RoleKeeps

LEMMA StepsKeep ==
  ASSUME "global" \notin Step, "task" \notin Step, RoleInv, NEW s \in Step,
         \/ Bus!StartStep(s) \/ Bus!GuardianStops(s) \/ Bus!InterceptorLogs(s)
         \/ Bus!handleStepSuccess(s) \/ Bus!handleStepFailure(s)
  PROVE  RoleInv'
<1>1. DOMAIN step = Step
  BY DEF RoleInv
<1>2. \A ty \in Happened, n \in Nat, k \in Step \cup {"global", "task"} :
        /\ Bus!Event(ty, n, k) \in Occurrence /\ Bus!Event(ty, n, k).type = ty /\ Bus!Event(ty, n, k).key = k
  BY DEF Bus!Event, Occurrence
<1>3. CASE Bus!StartStep(s)
  <2>1. step' = [step EXCEPT ![s] = "running"] /\ step[s] = "pending" /\ UNCHANGED <<pub, window>>
    BY <1>3 DEF Bus!StartStep
  <2>2. DOMAIN step' = Step /\ \A t \in Step : step[t] = "ok" => step'[t] = "ok"
    BY <1>1, <2>1
  <2> QED BY <2>1, <2>2 DEF RoleInv, PubTypes, Truthful, Bus!RoleSuccessEarned
<1>4. CASE Bus!GuardianStops(s)
  <2>1. Bus!Publish(s, Bus!Event("task_failed", 0, "task")) /\ UNCHANGED <<step, window>>
    BY <1>4 DEF Bus!GuardianStops
  <2>2. Bus!Event("task_failed", 0, "task") \in Occurrence /\ Bus!Event("task_failed", 0, "task").key = "task"
    BY <1>2 DEF Happened
  <2>3. Truthful(Bus!Event("task_failed", 0, "task"))'
    BY <2>2 DEF Truthful, Bus!Event
  <2> QED BY <1>1, <2>1, <2>2, <2>3, PublishKeeps
<1>5. CASE Bus!InterceptorLogs(s)
  <2>1. PICK r \in {"accepted", "rejected", "error"} :
          /\ Bus!Publish(s, Bus!Event(IF r = "error" THEN "step_failed" ELSE "step_completed", 0, "global"))
          /\ step' = [step EXCEPT ![s] = r]
    BY <1>5 DEF Bus!InterceptorLogs
  <2> DEFINE ev == Bus!Event(IF r = "error" THEN "step_failed" ELSE "step_completed", 0, "global")
  <2>2. ev \in Occurrence /\ ev.key = "global"
    BY DEF Bus!Event, Occurrence, Happened
  <2>3. step[s] = "running" /\ UNCHANGED window
    BY <1>5 DEF Bus!InterceptorLogs
  <2>4. DOMAIN step' = Step /\ \A t \in Step : step[t] = "ok" => step'[t] = "ok"
    BY <1>1, <2>1, <2>3
  <2>5. Truthful(ev)'
    BY <2>2 DEF Truthful
  <2> HIDE DEF ev
  <2> QED BY <2>1, <2>2, <2>3, <2>4, <2>5, PublishKeeps DEF ev
<1>6. CASE Bus!handleStepSuccess(s)
  <2>1. /\ Bus!Publish(s, Bus!Event("step_completed", 1, s)) /\ step' = [step EXCEPT ![s] = "ok"]
        /\ UNCHANGED window
    BY <1>6 DEF Bus!handleStepSuccess
  <2>2. Bus!Event("step_completed", 1, s) \in Occurrence /\ Bus!Event("step_completed", 1, s).key = s
    BY <1>2 DEF Happened
  <2>3. DOMAIN step' = Step /\ step'[s] = "ok" /\ \A t \in Step : step[t] = "ok" => step'[t] = "ok"
    BY <1>1, <2>1
  <2>4. Truthful(Bus!Event("step_completed", 1, s))'
    BY <2>3 DEF Truthful, Bus!Event
  <2> QED BY <2>1, <2>2, <2>3, <2>4, PublishKeeps
<1>7. CASE Bus!handleStepFailure(s)
  <2>1. /\ step[s] \in {"rejected", "error"} /\ UNCHANGED window
        /\ step' = [step EXCEPT ![s] = IF tries[s] < MaxTries THEN "pending" ELSE "failed"]
    BY <1>7 DEF Bus!handleStepFailure
  <2>2. PICK k \in {"global", s} : Bus!Publish(s, Bus!Event("step_failed", 0, k))
    BY <1>7 DEF Bus!handleStepFailure
  <2>3. DOMAIN step' = Step /\ \A t \in Step : step[t] = "ok" => step'[t] = "ok"
    BY <1>1, <2>1
  <2>4. Bus!Event("step_failed", 0, k) \in Occurrence
    BY <1>2 DEF Happened
  <2>5. Truthful(Bus!Event("step_failed", 0, k))'
    BY DEF Truthful, Bus!Event
  <2> QED BY <2>1, <2>2, <2>3, <2>4, <2>5, PublishKeeps
<1> QED BY <1>3, <1>4, <1>5, <1>6, <1>7

LEMMA FinalizeKeeps ==
  ASSUME "task" \notin Step, RoleInv, Bus!finalize PROVE RoleInv'
<1>1. PICK ty \in {"task_failed", "task_completed"} : Bus!Publish("engine", Bus!Event(ty, 0, "task"))
  BY DEF Bus!finalize, Bus!Engine
<1>2. Bus!Event(ty, 0, "task") \in Occurrence
  BY DEF Bus!Event, Occurrence, Happened
<1>3. Truthful(Bus!Event(ty, 0, "task"))'
  BY DEF Truthful, Bus!Event
<1>4. DOMAIN step = Step /\ UNCHANGED <<step, window>>
  BY DEF RoleInv, Bus!finalize
<1> QED BY <1>1, <1>2, <1>3, <1>4, PublishKeeps

(* The tracker credits a role with a success only after the engine has     *)
(* accepted the step of that role: an interceptor's event names no role,   *)
(* and a step once accepted is neither run again nor given up.             *)
THEOREM BusRoleSuccessEarned ==
  ASSUME "global" \notin Step, "task" \notin Step
  PROVE  Bus!Init /\ [][Bus!Next]_(Bus!vars) => []Bus!RoleSuccessEarned
<1>1. ASSUME Bus!Init PROVE RoleInv
  <2>1. /\ step = [s \in Step |-> "pending"] /\ window = {}
        /\ pub = [p \in Step \cup {"engine"} |-> Bus!Idle]
    BY <1>1 DEF Bus!Init, Bus!Publisher, Bus!Engine
  <2>2. pub \in [Step \cup {"engine"} -> Delivery({<<>>})]
    BY <2>1, IdleDelivery
  <2>3. PubTypes
    BY <2>2 DEF PubTypes
  <2>4. \A p \in Step \cup {"engine"} : Truthful(pub[p].ev)
    BY <2>1, IdleDelivery DEF Truthful
  <2> QED BY <2>1, <2>3, <2>4 DEF RoleInv, Bus!RoleSuccessEarned
<1>2. ASSUME RoleInv, UNCHANGED <<step, pub, window>> PROVE RoleInv'
  BY <1>2 DEF RoleInv, PubTypes, Truthful, Bus!RoleSuccessEarned
<1>3. ASSUME RoleInv, Bus!Next PROVE RoleInv'
  <2>1. Bus!ResumeSuspendedTask \/ Bus!Wiring => UNCHANGED <<step, pub, window>>
    BY DEF Bus!ResumeSuspendedTask, Bus!Wiring, Bus!Unsubscribe, Bus!SubscribeWithCancel, Bus!Unwire
  <2> QED BY <1>2, <1>3, <2>1, DeliverKeeps, StepsKeep, FinalizeKeeps DEF Bus!Next, Bus!Publisher, Bus!Engine
<1>4. ASSUME RoleInv, UNCHANGED Bus!vars PROVE RoleInv'
  BY <1>2, <1>4 DEF Bus!vars
<1>5. RoleInv => Bus!RoleSuccessEarned
  BY DEF RoleInv
<1> QED BY <1>1, <1>3, <1>4, <1>5, PTL

-----------------------------------------------------------------------------
(* Scheduled submissions: the triggers of one window.                      *)

CONSTANTS Instance, Definitions, Backend, FieldRange, Horizon, Day, Hour, RecoverAfter,
          MaxClock, MaxOps, MaxCrashes
VARIABLES def, row, saved, wrote, behind, locks, work, mon, stop, fired, twice, ops, crashes
Schedule == INSTANCE Schedules

(* A trigger, whatever the row and the window it works on.                 *)
Trigger(R, W) ==
  [step : {"idle", "submit", "record", "refused"}, own : BOOLEAN, row : R, win : W]

Triggers == \E R, W : work \in [Instance -> Trigger(R, W)]

Keys == {l.key : l \in locks}
Submitting(i) == work[i].step = "submit"

(* The windows that are submitted, and those about to be, have their lock  *)
(* file; nobody submits a window another one submits or has submitted.     *)
WindowInv ==
  /\ Triggers
  /\ fired \subseteq Keys
  /\ \A i \in Instance : Submitting(i) => work[i].win \in Keys /\ work[i].win \notin fired
  /\ \A i, j \in Instance : Submitting(i) /\ Submitting(j) /\ i # j => work[i].win # work[j].win
  /\ ~twice

(* A submission does not outlive its lock file: it takes less than a day.  *)
Prompt == \A i \in Instance : Submitting(i) => \A l \in Schedule!Stale : l.key # work[i].win

LEMMA Detached ==
  ASSUME NEW R, NEW W, NEW w, w \in Trigger(R, W), NEW r
  PROVE  /\ Schedule!Detach(w, r) \in Trigger(R \cup {r}, W)
         /\ Schedule!Detach(w, r).step = w.step /\ Schedule!Detach(w, r).win = w.win
<1>1. /\ [w EXCEPT !.own = FALSE, !.row = r] \in Trigger(R \cup {r}, W) /\ w \in Trigger(R \cup {r}, W)
      /\ [w EXCEPT !.own = FALSE, !.row = r].step = w.step /\ [w EXCEPT !.own = FALSE, !.row = r].win = w.win
  BY DEF Trigger
<1> QED BY <1>1 DEF Schedule!Detach

LEMMA IdleTriggers ==
  Schedule!Idle \in Trigger({Schedule!None}, {Schedule!Never}) /\ Schedule!Idle.step = "idle"
BY DEF Schedule!Idle, Trigger

(* An instance leaves its trigger's step and window alone, or gives it up. *)
LEMMA QuietMoves ==
  ASSUME WindowInv, NEW i \in Instance, NEW v, UNCHANGED <<locks, fired, twice>>,
         NEW R, NEW W, v \in Trigger(R, W), work' = [work EXCEPT ![i] = v],
         v.step # "submit" \/ (v.step = work[i].step /\ v.win = work[i].win)
  PROVE  WindowInv'
<1>1. PICK R0, W0 : work \in [Instance -> Trigger(R0, W0)]
  BY DEF WindowInv, Triggers
<1>2. v \in Trigger(R \cup R0, W \cup W0) /\ \A j \in Instance : work[j] \in Trigger(R \cup R0, W \cup W0)
  BY <1>1 DEF Trigger
<1>3. /\ work' \in [Instance -> Trigger(R \cup R0, W \cup W0)] /\ work'[i] = v
      /\ \A j \in Instance : j # i => work'[j] = work[j]
  BY <1>1, <1>2
<1>4. \A j \in Instance : Submitting(j)' => Submitting(j) /\ work'[j].win = work[j].win
  BY <1>3 DEF Submitting
<1>5. Triggers'
  BY <1>3 DEF Triggers
<1>6. Keys' = Keys
  BY DEF Keys
<1>7. \A j \in Instance : Submitting(j)' => work'[j].win \in Keys' /\ work'[j].win \notin fired'
  BY <1>4, <1>6 DEF WindowInv
<1>8. \A j, k \in Instance : Submitting(j)' /\ Submitting(k)' /\ j # k => work'[j].win # work'[k].win
  BY <1>4 DEF WindowInv
<1>9. fired' \subseteq Keys' /\ ~twice'
  BY <1>6 DEF WindowInv
<1> QED BY <1>5, <1>7, <1>8, <1>9 DEF WindowInv

LEMMA StoreMoves ==
  ASSUME WindowInv, NEW i \in Instance,
         \/ Schedule!create(i) \/ Schedule!pause(i) \/ Schedule!resume(i) \/ Schedule!delete(i)
         \/ Schedule!Record(i) \/ Schedule!afterRun(i) \/ Schedule!monitorTask(i) \/ Schedule!Stop(i)
         \/ Schedule!Restart(i)
  PROVE  WindowInv'
<1>1. PICK R, W : work \in [Instance -> Trigger(R, W)]
  BY DEF WindowInv, Triggers
<1>2. CASE UNCHANGED <<work, locks, fired, twice>>
  BY <1>2 DEF WindowInv, Triggers, Keys, Submitting
<1>3. CASE work' = [work EXCEPT ![i] = Schedule!Idle] /\ UNCHANGED <<locks, fired, twice>>
  <2> QED BY <1>3, IdleTriggers, QuietMoves
<1>4. CASE work' = [work EXCEPT ![i] = Schedule!Detach(work[i], row[i])] /\ UNCHANGED <<locks, fired, twice>>
  <2>1. work[i] \in Trigger(R, W)
    BY <1>1
  <2>2. /\ Schedule!Detach(work[i], row[i]) \in Trigger(R \cup {row[i]}, W)
        /\ Schedule!Detach(work[i], row[i]).step = work[i].step
        /\ Schedule!Detach(work[i], row[i]).win = work[i].win
    BY <2>1, Detached DEF Schedule!Detach
  <2> QED BY <1>4, <2>2, QuietMoves
<1> QED BY <1>2, <1>3, <1>4
     DEF Schedule!create, Schedule!pause, Schedule!resume, Schedule!delete, Schedule!Record,
         Schedule!afterRun, Schedule!monitorTask, Schedule!Stop, Schedule!Restart

LEMMA SubmitMoves ==
  ASSUME WindowInv, NEW i \in Instance, Schedule!Submit(i) PROVE WindowInv'
<1>1. PICK R, W : work \in [Instance -> Trigger(R, W)]
  BY DEF WindowInv, Triggers
<1>2. PICK ok \in BOOLEAN :
        /\ work' = [work EXCEPT ![i].step = IF ok THEN "record" ELSE "refused"]
        /\ fired' = IF ok THEN fired \cup {work[i].win} ELSE fired
        /\ twice' = (twice \/ (ok /\ work[i].win \in fired))
  BY DEF Schedule!Submit
<1>3. UNCHANGED locks /\ Submitting(i) /\ work[i] \in Trigger(R, W)
  BY <1>1 DEF Schedule!Submit, Submitting
<1>4. PICK st \in {"record", "refused"} : work' = [work EXCEPT ![i] = [work[i] EXCEPT !.step = st]]
  BY <1>2
<1>5. [work[i] EXCEPT !.step = st] \in Trigger(R, W) /\ [work[i] EXCEPT !.step = st].step = st
  BY <1>3 DEF Trigger
<1>6. /\ work' \in [Instance -> Trigger(R, W)] /\ work'[i].step = st
      /\ \A j \in Instance : j # i => work'[j] = work[j]
  BY <1>1, <1>4, <1>5
<1>7. Triggers' /\ Keys' = Keys
  BY <1>3, <1>6 DEF Triggers, Keys
<1>8. \A j \in Instance : Submitting(j)' => j # i /\ Submitting(j) /\ work'[j] = work[j]
  BY <1>6 DEF Submitting
<1>9. work[i].win \in Keys /\ work[i].win \notin fired
  BY <1>3 DEF WindowInv
<1>10. ~twice'
  BY <1>2, <1>9 DEF WindowInv
<1>11. fired' \subseteq Keys
  BY <1>2, <1>9 DEF WindowInv
<1>12. \A j \in Instance : Submitting(j)' => work'[j].win \notin fired'
  BY <1>2, <1>3, <1>8 DEF WindowInv
<1> QED BY <1>7, <1>8, <1>10, <1>11, <1>12 DEF WindowInv

LEMMA ScanMoves ==
  ASSUME WindowInv, Prompt, NEW i \in Instance, Schedule!scan(i) PROVE WindowInv'
<1> DEFINE r    == Schedule!Reloaded(i)
           left == locks \ Schedule!Stale
           key  == Schedule!LockName(r.next)
           get  == Schedule!Due(r) /\ \A l \in left : l.key # key
           new  == [step |-> "submit", own |-> TRUE, row |-> Schedule!None, win |-> key]
<1>1. PICK R, W : work \in [Instance -> Trigger(R, W)]
  BY DEF WindowInv, Triggers
<1>2. /\ get => work[i] = Schedule!Idle
      /\ locks' = IF get THEN left \cup {[key |-> key, made |-> clock]} ELSE left
      /\ work' = [work EXCEPT ![i] = IF get THEN new
                                      ELSE IF r = row[i] THEN work[i] ELSE Schedule!Detach(work[i], row[i])]
      /\ fired' = {k \in fired : \A l \in Schedule!Stale : l.key # k}
      /\ twice' = twice
  BY DEF Schedule!scan, Schedule!LockKey
<1>3. new.step = "submit" /\ new.win = key /\ new \in Trigger({Schedule!None}, {key})
  BY DEF Trigger
<1>4. work[i] \in Trigger(R, W)
  BY <1>1
<1>5. /\ Schedule!Detach(work[i], row[i]) \in Trigger(R \cup {row[i]}, W)
      /\ Schedule!Detach(work[i], row[i]).step = work[i].step
      /\ Schedule!Detach(work[i], row[i]).win = work[i].win
  BY <1>4, Detached DEF Schedule!Detach
<1>6. left \subseteq locks' /\ fired' \subseteq {l.key : l \in left}
      /\ \A j \in Instance : Submitting(j) => work[j].win \in {l.key : l \in left} /\ work[j].win \notin fired'
  <2> HIDE DEF r, key, get
  <2> QED BY <1>2 DEF WindowInv, Keys, Prompt
<1>7. CASE ~get
  <2>1. PICK v : /\ v \in Trigger(R \cup {row[i]}, W) /\ v.step = work[i].step /\ v.win = work[i].win
                 /\ work' = [work EXCEPT ![i] = v]
    <3>1. work[i] \in Trigger(R \cup {row[i]}, W)
      BY <1>4 DEF Trigger
    <3> HIDE DEF get, new, r
    <3> QED BY <1>2, <1>5, <1>7, <3>1
  <2>2. \A j \in Instance : work[j] \in Trigger(R \cup {row[i]}, W)
    BY <1>1 DEF Trigger
  <2>3. /\ work' \in [Instance -> Trigger(R \cup {row[i]}, W)]
        /\ \A j \in Instance : work'[j].step = work[j].step /\ work'[j].win = work[j].win
    BY <1>1, <2>1, <2>2
  <2>4. Triggers'
    BY <2>3 DEF Triggers
  <2> HIDE DEF get, new, r, key, left
  <2>5. \A j \in Instance : Submitting(j)' => Submitting(j) /\ work'[j].win = work[j].win
    BY <2>3 DEF Submitting
  <2>6. fired' \subseteq Keys' /\ \A j \in Instance : Submitting(j) => work[j].win \in Keys'
    BY <1>6 DEF Keys
  <2>7. \A j \in Instance : Submitting(j)' => work'[j].win \in Keys' /\ work'[j].win \notin fired'
    BY <1>6, <2>5, <2>6
  <2>8. /\ \A j, k \in Instance : Submitting(j)' /\ Submitting(k)' /\ j # k => work'[j].win # work'[k].win
        /\ ~twice'
    BY <1>2, <2>5 DEF WindowInv
  <2> QED BY <2>4, <2>6, <2>7, <2>8 DEF WindowInv
<1>8. CASE get
  <2>1. /\ work' = [work EXCEPT ![i] = new] /\ locks' = left \cup {[key |-> key, made |-> clock]}
    BY <1>2, <1>8
  <2>2. key \notin {l.key : l \in left}
    BY <1>8
  <2> HIDE DEF get, new, r, key
  <2>3. \A j \in Instance : work[j] \in Trigger(R \cup {Schedule!None}, W \cup {key})
    BY <1>1 DEF Trigger
  <2>4. new \in Trigger(R \cup {Schedule!None}, W \cup {key})
    BY <1>3 DEF Trigger
  <2>5. /\ work' \in [Instance -> Trigger(R \cup {Schedule!None}, W \cup {key})] /\ work'[i] = new
        /\ \A j \in Instance : j # i => work'[j] = work[j]
    BY <1>1, <2>1, <2>3, <2>4
  <2>6. Triggers'
    BY <2>5 DEF Triggers
  <2>7. key \in Keys' /\ {l.key : l \in left} \subseteq Keys'
    <3>1. [key |-> key, made |-> clock] \in locks' /\ [key |-> key, made |-> clock].key = key
      BY <2>1
    <3> HIDE DEF left
    <3> QED BY <1>6, <3>1 DEF Keys
  <2> HIDE DEF left
  <2>8. \A j \in Instance : Submitting(j)' => IF j = i THEN work'[j].win = key
                                               ELSE Submitting(j) /\ work'[j].win = work[j].win
    BY <1>3, <2>5 DEF Submitting
  <2>9. key \notin fired'
    BY <1>6, <2>2
  <2>10. \A j \in Instance : Submitting(j)' => work'[j].win \in Keys' /\ work'[j].win \notin fired'
    BY <1>6, <2>7, <2>8, <2>9
  <2>11. ASSUME NEW j \in Instance, NEW k \in Instance, Submitting(j)', Submitting(k)', j # k
         PROVE  work'[j].win # work'[k].win
    <3>1. CASE j # i /\ k # i
      BY <2>8, <2>11, <3>1 DEF WindowInv
    <3>2. CASE j = i \/ k = i
      BY <1>6, <2>2, <2>8, <2>11, <3>2
    <3> QED BY <3>1, <3>2
  <2>12. fired' \subseteq Keys' /\ ~twice'
    BY <1>2, <1>6, <2>7 DEF WindowInv
  <2> QED BY <2>6, <2>10, <2>11, <2>12 DEF WindowInv
<1> QED BY <1>7, <1>8

LEMMA WindowInvariant ==
  Schedule!Init /\ [][Schedule!Next]_(Schedule!sched) /\ []Prompt => []WindowInv
<1>1. ASSUME Schedule!Init PROVE WindowInv
  <2>1. work = [i \in Instance |-> Schedule!Idle] /\ fired = {} /\ twice = FALSE
    BY <1>1 DEF Schedule!Init
  <2>2. work \in [Instance -> Trigger({Schedule!None}, {Schedule!Never})]
        /\ \A i \in Instance : work[i].step = "idle"
    BY <2>1, IdleTriggers
  <2>3. Triggers
    BY <2>2 DEF Triggers
  <2> QED BY <2>1, <2>2, <2>3 DEF WindowInv, Submitting
<1>2. ASSUME WindowInv, Prompt, Schedule!Next PROVE WindowInv'
  <2>1. CASE Schedule!Tick
    BY <1>2, <2>1 DEF WindowInv, Triggers, Keys, Submitting, Schedule!Tick
  <2> QED BY <1>2, <2>1, StoreMoves, SubmitMoves, ScanMoves DEF Schedule!Next
<1>3. ASSUME WindowInv, UNCHANGED Schedule!sched PROVE WindowInv'
  BY <1>3 DEF WindowInv, Triggers, Keys, Submitting, Schedule!sched
<1> QED BY <1>1, <1>2, <1>3, PTL

(* Whatever the instances scan, reload, pause, resume, crash and see late, *)
(* a window is submitted at most once while its lock file stands: the lock *)
(* is named by the window, and a submission ends before cleanupLocks would *)
(* remove it.  For any number of instances, either backend and any cron.   *)
THEOREM WindowSubmittedOnce ==
  Schedule!Init /\ [][Schedule!Next]_(Schedule!sched) /\ []Prompt => []Schedule!OncePerWindow
<1>1. WindowInv => Schedule!OncePerWindow
  BY DEF WindowInv, Schedule!OncePerWindow
<1> QED BY <1>1, WindowInvariant, PTL

=============================================================================
