-------------------------- MODULE GraphFenceProofs --------------------------
(***************************************************************************)
(* What the fence guarantees for every number of engines: OneHolder with   *)
(* any number of concurrent writers, and, when every engine persists from  *)
(* one goroutine at a time, that a write is made on a claim of one's own   *)
(* and that losing claims never stops the last executor.                   *)
(*                                                                         *)
(* OneHolder is not inductive: claimFence stores the rival's token in      *)
(* s.fences while it retries.  The strengthening says who answers for such *)
(* a borrowed token: a recorded loss, or a writer that is still inside     *)
(* claimFence.                                                             *)
(***************************************************************************)
EXTENDS GraphFence, TLAPS

(* The control points of claimFence, up to its recordFenceLoss.            *)
Claiming == {"claim", "tmp", "rename", "remove", "reread", "store", "lose"}

(* A token of another engine in s.fences is never left unattended.         *)
BorrowedIsAttended ==
  \A e \in Engine :
    fences[e] # None /\ fences[e].owner # e
      => e \in fenceBroken \/ \E i \in Writer : w[e][i].pc \in Claiming

(* Between ClaimRead and ClaimStore a writer's token names its own engine. *)
ClaimIsOwn ==
  \A e \in Engine, i \in Writer :
    w[e][i].pc \in {"tmp", "rename", "remove", "reread", "store"}
      => w[e][i].mine # None /\ w[e][i].mine.owner = e

IInv == TypeOK /\ BorrowedIsAttended /\ ClaimIsOwn

(* A writer at rest is well typed.                                         *)
LEMMA IdleIsWriter == IdleWriter \in WriterState
BY FenceAssumption DEF IdleWriter, Fresh, WriterState, PC, Status

(* Initially nothing is claimed.                                           *)
LEMMA InitIInv == Init => IInv
BY FenceAssumption, IdleIsWriter
   DEF Init, IInv, TypeOK, BorrowedIsAttended, ClaimIsOwn, Loaded, Exec, Status, IdleWriter, Fresh

(* Only writer (e, i) moves, and it stays well typed.                      *)
OnlyWriter(e, i) ==
  /\ w' \in [Engine -> [Writer -> WriterState]]
  /\ \A f \in Engine, j \in Writer : f # e \/ j # i => w'[f][j] = w[f][j]

(* The claims of the other engines are left alone.                         *)
OthersKept(e) ==
  \A f \in Engine \ {e} :
    fences'[f] = fences[f] /\ (f \in fenceBroken' <=> f \in fenceBroken)

(* Replacing one writer's record by a well-typed one moves it alone.       *)
LEMMA WriterUpdate ==
  ASSUME w \in [Engine -> [Writer -> WriterState]],
         NEW e \in Engine, NEW i \in Writer, NEW r \in WriterState,
         w' = [w EXCEPT ![e][i] = r]
  PROVE  OnlyWriter(e, i) /\ w'[e][i] = r
BY DEF OnlyWriter

(* So does changing its control point,                                     *)
LEMMA WriterGoTo ==
  ASSUME w \in [Engine -> [Writer -> WriterState]],
         NEW e \in Engine, NEW i \in Writer, NEW pc \in PC, GoTo(e, i, pc)
  PROVE  /\ OnlyWriter(e, i) /\ w'[e][i].pc = pc /\ w'[e][i].mine = w[e][i].mine
         /\ w'[e][i].after = w[e][i].after /\ w'[e][i].status = w[e][i].status
<1> DEFINE r == [w[e][i] EXCEPT !.pc = pc]
<1>1. w[e][i] \in WriterState
  OBVIOUS
<1>2. /\ r \in WriterState /\ r.pc = pc /\ r.mine = w[e][i].mine
      /\ r.after = w[e][i].after /\ r.status = w[e][i].status
  BY <1>1 DEF WriterState
<1>3. w' = [w EXCEPT ![e][i] = r]
  BY DEF GoTo
<1> HIDE DEF r
<1> QED BY <1>2, <1>3, WriterUpdate

(* or restarting it at a control point with its locals cleared.            *)
LEMMA WriterFresh ==
  ASSUME w \in [Engine -> [Writer -> WriterState]],
         NEW e \in Engine, NEW i \in Writer, NEW pc \in PC, NEW n \in 0..2,
         w' = [w EXCEPT ![e][i] = Fresh(pc, n)]
  PROVE  /\ OnlyWriter(e, i) /\ w'[e][i].pc = pc
         /\ w'[e][i].mine = None /\ w'[e][i].status = "running"
<1>1. /\ Fresh(pc, n) \in WriterState /\ Fresh(pc, n).pc = pc
      /\ Fresh(pc, n).mine = None /\ Fresh(pc, n).status = "running"
  BY DEF WriterState, Fresh, Status
<1> QED BY <1>1, WriterUpdate

LEMMA WriterRestart ==
  ASSUME w \in [Engine -> [Writer -> WriterState]],
         NEW e \in Engine, NEW i \in Writer, NEW pc \in PC, Restart(e, i, pc)
  PROVE  /\ OnlyWriter(e, i) /\ w'[e][i].pc = pc
         /\ w'[e][i].mine = None /\ w'[e][i].status = "running"
<1>1. 0 \in 0..2
  OBVIOUS
<1> QED BY <1>1, WriterFresh DEF Restart

(* One writer's step keeps every claim own if that writer's claim is.      *)
LEMMA OwnStep ==
  ASSUME ClaimIsOwn, NEW e \in Engine, NEW i \in Writer, OnlyWriter(e, i),
         w'[e][i].pc \in {"tmp", "rename", "remove", "reread", "store"}
           => w'[e][i].mine # None /\ w'[e][i].mine.owner = e
  PROVE  ClaimIsOwn'
<1> SUFFICES ASSUME NEW f \in Engine, NEW j \in Writer,
                    w'[f][j].pc \in {"tmp", "rename", "remove", "reread", "store"}
             PROVE  w'[f][j].mine # None /\ w'[f][j].mine.owner = f
  BY DEF ClaimIsOwn
<1>1. CASE f = e /\ j = i
  BY <1>1
<1>2. CASE f # e \/ j # i
  BY <1>2 DEF OnlyWriter, ClaimIsOwn
<1> QED BY <1>1, <1>2

(* One writer's step keeps the borrowed tokens attended if that writer is  *)
(* inside claimFence afterwards, or nothing of e is borrowed any more, or  *)
(* it was outside and e's claim and loss are as before.                    *)
LEMMA AttendedStep ==
  ASSUME BorrowedIsAttended, NEW e \in Engine, NEW i \in Writer,
         OnlyWriter(e, i), OthersKept(e),
         \/ w'[e][i].pc \in Claiming
         \/ e \in fenceBroken'
         \/ fences'[e] = None
         \/ fences'[e].owner = e
         \/ /\ w[e][i].pc \notin Claiming
            /\ fences'[e] = fences[e] /\ (e \in fenceBroken => e \in fenceBroken')
  PROVE  BorrowedIsAttended'
<1> SUFFICES ASSUME NEW f \in Engine, fences'[f] # None, fences'[f].owner # f,
                    f \notin fenceBroken'
             PROVE  \E j \in Writer : w'[f][j].pc \in Claiming
  BY DEF BorrowedIsAttended
<1>1. CASE f # e
  <2>1. PICK j \in Writer : w[f][j].pc \in Claiming
    BY <1>1 DEF BorrowedIsAttended, OthersKept
  <2>2. w'[f][j] = w[f][j]
    BY <1>1 DEF OnlyWriter
  <2> QED BY <2>1, <2>2
<1>2. CASE f = e /\ w'[e][i].pc \in Claiming
  BY <1>2
<1>3. CASE f = e /\ w[e][i].pc \notin Claiming /\ fences'[e] = fences[e] /\ e \notin fenceBroken
  <2>1. PICK j \in Writer : w[e][j].pc \in Claiming
    BY <1>3 DEF BorrowedIsAttended
  <2>2. w'[e][j] = w[e][j]
    BY <1>3, <2>1 DEF OnlyWriter
  <2> QED BY <1>3, <2>1, <2>2
<1> QED BY <1>1, <1>2, <1>3

(* Operations on an executor: nothing but Clear, Crash and the start and   *)
(* stop of the executor changes, and the first two forget the claim.       *)
LEMMA ControlIInv ==
  ASSUME IInv, NEW e \in Engine,
         Submit(e) \/ SubmitStart(e) \/ loadGraphs(e) \/ ControlStep(e)
  PROVE  IInv'
<1>1. CASE Submit(e)
  BY <1>1 DEF Submit, startGraphExecutor, Loaded, Exec, files,
              IInv, TypeOK, BorrowedIsAttended, ClaimIsOwn
<1>7. CASE SubmitStart(e)
  BY <1>7 DEF SubmitStart, startGraphExecutor, Exec, files,
              IInv, TypeOK, BorrowedIsAttended, ClaimIsOwn
<1>2. CASE loadGraphs(e)
  BY ZenonT(60), <1>2 DEF loadGraphs, startGraphExecutor, Loaded, Exec, files,
              IInv, TypeOK, BorrowedIsAttended, ClaimIsOwn
<1>3. CASE SuspendTask(e)
  BY <1>3, FenceAssumption DEF SuspendTask, Control, Status, Exec, files,
              IInv, TypeOK, BorrowedIsAttended, ClaimIsOwn
<1>4. CASE ResumeSuspendedTask(e)
  BY <1>4, FenceAssumption DEF ResumeSuspendedTask, startGraphExecutor, Control,
              Status, Exec, files, IInv, TypeOK, BorrowedIsAttended, ClaimIsOwn
<1>5. CASE Clear(e)
  BY <1>5, FenceAssumption DEF Clear, Control, Exec, Status, Loaded, files,
              IInv, TypeOK, BorrowedIsAttended, ClaimIsOwn
<1>6. CASE Crash(e)
  <2>1. w' = [w EXCEPT ![e] = [i \in Writer |-> IdleWriter]]
    BY <1>6 DEF Crash
  <2>2. w' \in [Engine -> [Writer -> WriterState]]
    BY <2>1, IdleIsWriter DEF IInv, TypeOK
  <2>3. ClaimIsOwn'
    BY <2>1 DEF IdleWriter, Fresh, IInv, TypeOK, ClaimIsOwn
  <2>4. BorrowedIsAttended'
    BY <2>1, <1>6 DEF Crash, IInv, TypeOK, BorrowedIsAttended
  <2>5. controls' \in [Engine -> 0..MaxControls]
    BY <1>6, FenceAssumption DEF Crash, Control, IInv, TypeOK
  <2>6. TypeOK'
    BY <1>6, <2>2, <2>5 DEF Crash, Exec, Loaded, Status, files, IInv, TypeOK
  <2> QED BY <2>3, <2>4, <2>6 DEF IInv
<1> QED BY <1>1, <1>2, <1>3, <1>4, <1>5, <1>6, <1>7 DEF ControlStep

(* A step of one writer that touches neither claims nor losses.            *)
LEMMA QuietStep ==
  ASSUME IInv, NEW e \in Engine, NEW i \in Writer, OnlyWriter(e, i),
         UNCHANGED <<fences, fenceBroken>>,
         w[e][i].pc \notin Claiming \/ w'[e][i].pc \in Claiming,
         w'[e][i].pc \in {"tmp", "rename", "remove", "reread", "store"}
           => w'[e][i].mine # None /\ w'[e][i].mine.owner = e
  PROVE  ClaimIsOwn' /\ BorrowedIsAttended'
<1>1. OthersKept(e)
  BY DEF OthersKept
<1> QED BY <1>1, OwnStep, AttendedStep DEF IInv

(* persistGraph up to the manifest write: no claim is touched.             *)
LEMMA PersistIInv ==
  ASSUME IInv, NEW e \in Engine, NEW i \in Writer,
         \/ Persist(e, i) \/ Debounce(e, i) \/ holdsFence(e, i) \/ WriteManifest(e, i)
  PROVE  IInv'
<1>t. w \in [Engine -> [Writer -> WriterState]] /\ w[e][i] \in WriterState
  BY DEF IInv, TypeOK
<1>1. CASE Persist(e, i)
  <2> DEFINE r == IF e \in fenceBroken THEN Fresh("lose", 0)
                  ELSE [pc |-> IF fences[e] = None THEN "manifest" ELSE "compare",
                        mine |-> fences[e], after |-> None, attempt |-> 0,
                        status |-> status[e]]
  <2>1. r \in WriterState /\ r.pc \in {"lose", "manifest", "compare"}
    BY DEF Fresh, WriterState, PC, Status, IInv, TypeOK
  <2>2. w' = [w EXCEPT ![e][i] = r]
    BY <1>1 DEF Persist
  <2> HIDE DEF r
  <2>3. OnlyWriter(e, i) /\ w'[e][i] = r
    BY <1>t, <2>1, <2>2, WriterUpdate
  <2>4. UNCHANGED <<fence, tmp, manifest, loaded, status, exec, fences, fenceBroken, controls>>
    BY <1>1 DEF Persist, files, engine
  <2>5. persists' \in [Engine -> [Writer -> Nat]]
    BY SMTT(40), <1>1 DEF Persist, IInv, TypeOK
  <2>6. w[e][i].pc \notin Claiming
    BY <1>1 DEF Persist, At, Claiming
  <2>7. TypeOK'
    BY <2>3, <2>4, <2>5 DEF OnlyWriter, IInv, TypeOK
  <2> QED BY <2>1, <2>3, <2>4, <2>6, <2>7, QuietStep DEF IInv
<1>2. CASE Debounce(e, i)
  <2>1. OnlyWriter(e, i) /\ w'[e][i].pc = "idle"
    BY <1>2, <1>t, WriterRestart DEF Debounce, Return, PC
  <2>2. UNCHANGED <<fence, tmp, manifest, loaded, status, exec, fences, fenceBroken, persists, controls>>
    BY <1>2 DEF Debounce, files, engine
  <2>3. w[e][i].pc \notin Claiming
    BY <1>2 DEF Debounce, At, Claiming
  <2>4. TypeOK'
    BY <2>1, <2>2 DEF OnlyWriter, IInv, TypeOK
  <2> QED BY <2>1, <2>2, <2>3, <2>4, QuietStep DEF IInv
<1>3. CASE holdsFence(e, i)
  <2>1. OnlyWriter(e, i) /\ w'[e][i].pc \in {"manifest", "lose"}
    BY <1>3, <1>t, WriterGoTo, WriterRestart DEF holdsFence, PC
  <2>2. UNCHANGED <<fence, tmp, manifest, loaded, status, exec, fences, fenceBroken, persists, controls>>
    BY <1>3 DEF holdsFence, files, engine
  <2>3. w[e][i].pc \notin Claiming
    BY <1>3 DEF holdsFence, At, Claiming
  <2>4. TypeOK'
    BY <2>1, <2>2 DEF OnlyWriter, IInv, TypeOK
  <2> QED BY <2>1, <2>2, <2>3, <2>4, QuietStep DEF IInv
<1>4. CASE WriteManifest(e, i)
  <2>1. OnlyWriter(e, i) /\ w'[e][i].pc = "stamp"
    BY <1>4, <1>t, WriterRestart DEF WriteManifest, PC
  <2>2. UNCHANGED <<fence, tmp, loaded, status, exec, fences, fenceBroken, persists, controls>>
    BY <1>4 DEF WriteManifest, files, engine
  <2>3. w[e][i].pc \notin Claiming
    BY <1>4 DEF WriteManifest, At, Claiming
  <2>4. manifest' \in [by : Engine, status : Status]
    BY <1>4, <1>t DEF WriteManifest, WriterState
  <2>5. TypeOK'
    BY <2>1, <2>2, <2>4 DEF OnlyWriter, IInv, TypeOK
  <2> QED BY <2>1, <2>2, <2>3, <2>5, QuietStep DEF IInv
<1> QED BY <1>1, <1>2, <1>3, <1>4

(* stampFence: a claim begins, and whoever begins it answers for the token *)
(* it is about to replace.                                                 *)
LEMMA StampIInv ==
  ASSUME IInv, NEW e \in Engine, NEW i \in Writer, stampFence(e, i)
  PROVE  IInv'
<1>t. w \in [Engine -> [Writer -> WriterState]] /\ w[e][i] \in WriterState
  BY DEF IInv, TypeOK
<1>1. CASE BeginClaim(e, i) /\ UNCHANGED <<files, loaded, status, exec, fences, persists, controls>>
  <2>1. OnlyWriter(e, i) /\ w'[e][i].pc = "claim"
    BY <1>1, <1>t, 1 \in 0..2, "claim" \in PC, WriterFresh DEF BeginClaim, PC
  <2>2. UNCHANGED <<fence, tmp, manifest, loaded, status, exec, fences, persists, controls>>
    BY <1>1 DEF files
  <2>3. fenceBroken' = fenceBroken \ {e}
    BY <1>1 DEF BeginClaim
  <2>4. TypeOK'
    BY <2>1, <2>2, <2>3 DEF OnlyWriter, IInv, TypeOK
  <2>5. OthersKept(e)
    BY <2>2, <2>3 DEF OthersKept
  <2> QED BY <2>1, <2>4, <2>5, OwnStep, AttendedStep DEF IInv, Claiming
<1>2. CASE /\ At(e, i, "stamp")
           /\ w' = [w EXCEPT ![e][i].pc = "stampcmp", ![e][i].mine = fences[e]]
           /\ UNCHANGED <<files, engine, persists, controls>>
  <2> DEFINE r == [w[e][i] EXCEPT !.pc = "stampcmp", !.mine = fences[e]]
  <2>1. r \in WriterState /\ r.pc = "stampcmp"
    BY <1>t DEF WriterState, PC, IInv, TypeOK
  <2>2. w' = [w EXCEPT ![e][i] = r]
    BY <1>2
  <2> HIDE DEF r
  <2>3. OnlyWriter(e, i) /\ w'[e][i] = r
    BY <1>t, <2>1, <2>2, WriterUpdate
  <2>4. UNCHANGED <<fence, tmp, manifest, loaded, status, exec, fences, fenceBroken, persists, controls>>
    BY <1>2 DEF files, engine
  <2>5. w[e][i].pc \notin Claiming
    BY <1>2 DEF At, Claiming
  <2>6. TypeOK'
    BY <2>3, <2>4 DEF OnlyWriter, IInv, TypeOK
  <2> QED BY <2>1, <2>3, <2>4, <2>5, <2>6, QuietStep DEF IInv
<1>3. CASE At(e, i, "stampcmp") /\ Return(e, i) /\ UNCHANGED <<files, engine, persists, controls>>
  <2>1. OnlyWriter(e, i) /\ w'[e][i].pc = "idle"
    BY <1>3, <1>t, WriterRestart DEF Return, PC
  <2>2. UNCHANGED <<fence, tmp, manifest, loaded, status, exec, fences, fenceBroken, persists, controls>>
    BY <1>3 DEF files, engine
  <2>3. w[e][i].pc \notin Claiming
    BY <1>3 DEF At, Claiming
  <2>4. TypeOK'
    BY <2>1, <2>2 DEF OnlyWriter, IInv, TypeOK
  <2> QED BY <2>1, <2>2, <2>3, <2>4, QuietStep DEF IInv
<1> QED BY <1>1, <1>2, <1>3 DEF stampFence

(* claimFence: the claimer stays inside until it has stored a token of its *)
(* own, forgotten its claim, or recorded the loss.                         *)
LEMMA ClaimIInv ==
  ASSUME IInv, NEW e \in Engine, NEW i \in Writer,
         \/ ClaimRead(e, i) \/ WriteTmp(e, i) \/ Rename(e, i) \/ RemoveTmp(e, i)
         \/ ClaimReread(e, i) \/ ClaimStore(e, i)
  PROVE  IInv'
<1>t. w \in [Engine -> [Writer -> WriterState]] /\ w[e][i] \in WriterState
  BY DEF IInv, TypeOK
<1>m. w[e][i].mine \in Token \cup {None} /\ w[e][i].after \in Token \cup {None}
  BY <1>t DEF WriterState
<1>o. w[e][i].pc \in {"tmp", "rename", "remove", "reread", "store"}
        => w[e][i].mine # None /\ w[e][i].mine.owner = e
  BY DEF IInv, ClaimIsOwn
<1>1. CASE ClaimRead(e, i)
  <2> DEFINE t == [owner |-> e, seq |-> IF fence = None THEN 1 ELSE fence.seq + 1]
             r == [w[e][i] EXCEPT !.pc = "tmp", !.mine = t]
  <2>1. t \in Token /\ t # None /\ t.owner = e
    <3>1. fence # None => fence.seq \in Nat
      BY DEF Token, IInv, TypeOK
    <3>2. t \in Token
      BY <3>1 DEF Token
    <3> QED BY <3>2, FenceAssumption
  <2>a. w' = [w EXCEPT ![e][i] = r]
    BY <1>1 DEF ClaimRead
  <2> HIDE DEF t
  <2>2. r \in WriterState /\ r.pc = "tmp" /\ r.mine = t
    BY <1>t, <2>1 DEF WriterState, PC
  <2> HIDE DEF r
  <2>3. OnlyWriter(e, i) /\ w'[e][i] = r
    BY <1>t, <2>2, <2>a, WriterUpdate
  <2>4. UNCHANGED <<fence, tmp, manifest, loaded, status, exec, fences, fenceBroken, persists, controls>>
    BY <1>1 DEF ClaimRead, files, engine
  <2>5. TypeOK'
    BY <2>3, <2>4 DEF OnlyWriter, IInv, TypeOK
  <2> QED BY <2>1, <2>2, <2>3, <2>4, <2>5, QuietStep DEF IInv, Claiming
<1>2. CASE WriteTmp(e, i)
  <2>1. OnlyWriter(e, i) /\ w'[e][i].pc = "rename" /\ w'[e][i].mine = w[e][i].mine
    BY <1>2, <1>t, WriterGoTo DEF WriteTmp, PC
  <2>2. UNCHANGED <<fence, manifest, loaded, status, exec, fences, fenceBroken, persists, controls>>
    BY <1>2 DEF WriteTmp, engine
  <2>3. TypeOK'
    BY <1>2, <1>m, <2>1, <2>2 DEF WriteTmp, OnlyWriter, IInv, TypeOK
  <2>4. w[e][i].pc = "tmp"
    BY <1>2 DEF WriteTmp, At
  <2> QED BY <1>o, <2>1, <2>2, <2>3, <2>4, QuietStep DEF IInv, Claiming
<1>3. CASE Rename(e, i)
  <2>1. OnlyWriter(e, i) /\ w'[e][i].pc \in {"reread", "remove"} /\ w'[e][i].mine = w[e][i].mine
    BY <1>3, <1>t, WriterGoTo DEF Rename, PC
  <2>2. UNCHANGED <<manifest, loaded, status, exec, fences, fenceBroken, persists, controls>>
    BY <1>3 DEF Rename, engine
  <2>3. fence' \in Token \cup {None} /\ tmp' \in Token \cup {None}
    BY <1>3 DEF Rename, IInv, TypeOK
  <2>4. TypeOK'
    BY <2>1, <2>2, <2>3 DEF OnlyWriter, IInv, TypeOK
  <2>5. w[e][i].pc = "rename"
    BY <1>3 DEF Rename, At
  <2> QED BY <1>o, <2>1, <2>2, <2>4, <2>5, QuietStep DEF IInv, Claiming
<1>4. CASE RemoveTmp(e, i) /\ tmp' = None /\ fences' = [fences EXCEPT ![e] = None] /\ Return(e, i)
  <2>1. OnlyWriter(e, i) /\ w'[e][i].pc = "idle"
    BY <1>4, <1>t, WriterRestart DEF Return, PC
  <2>2. UNCHANGED <<fence, manifest, loaded, status, exec, fenceBroken, persists, controls>>
    BY <1>4 DEF RemoveTmp
  <2>3. TypeOK'
    BY <1>4, <2>1, <2>2 DEF OnlyWriter, IInv, TypeOK
  <2>4. OthersKept(e) /\ fences'[e] = None
    BY <1>4, <2>2 DEF OthersKept, IInv, TypeOK
  <2> QED BY <2>1, <2>3, <2>4, OwnStep, AttendedStep DEF IInv
<1>5. CASE RemoveTmp(e, i) /\ GoTo(e, i, "rename") /\ UNCHANGED <<tmp, fences>>
  <2>1. OnlyWriter(e, i) /\ w'[e][i].pc = "rename" /\ w'[e][i].mine = w[e][i].mine
    BY <1>5, <1>t, WriterGoTo DEF PC
  <2>2. UNCHANGED <<fence, tmp, manifest, loaded, status, exec, fences, fenceBroken, persists, controls>>
    BY <1>5 DEF RemoveTmp
  <2>3. TypeOK'
    BY <2>1, <2>2 DEF OnlyWriter, IInv, TypeOK
  <2>4. w[e][i].pc = "remove"
    BY <1>5 DEF RemoveTmp, At
  <2> QED BY <1>o, <2>1, <2>2, <2>3, <2>4, QuietStep DEF IInv, Claiming
<1>6. CASE ClaimReread(e, i)
  <2> DEFINE r == [w[e][i] EXCEPT !.pc = "store", !.after = fence]
  <2>1. r \in WriterState /\ r.pc = "store" /\ r.mine = w[e][i].mine
    BY <1>t DEF WriterState, PC, IInv, TypeOK
  <2>2. w' = [w EXCEPT ![e][i] = r]
    BY <1>6 DEF ClaimReread
  <2> HIDE DEF r
  <2>3. OnlyWriter(e, i) /\ w'[e][i] = r
    BY <1>t, <2>1, <2>2, WriterUpdate
  <2>4. UNCHANGED <<fence, tmp, manifest, loaded, status, exec, fences, fenceBroken, persists, controls>>
    BY <1>6 DEF ClaimReread, files, engine
  <2>5. TypeOK'
    BY <2>3, <2>4 DEF OnlyWriter, IInv, TypeOK
  <2>6. w[e][i].pc = "reread"
    BY <1>6 DEF ClaimReread, At
  <2> QED BY <1>o, <2>1, <2>3, <2>4, <2>5, <2>6, QuietStep DEF IInv, Claiming
<1>7. CASE ClaimStore(e, i)
  <2>1. fences' \in [Engine -> Token \cup {None}] /\ fences'[e] = w[e][i].after
    BY <1>7, <1>m DEF ClaimStore, IInv, TypeOK
  <2>2. UNCHANGED <<fence, tmp, manifest, loaded, status, exec, fenceBroken, persists, controls>>
    BY <1>7 DEF ClaimStore, files
  <2>3. OthersKept(e)
    BY <1>7, <2>2 DEF ClaimStore, OthersKept, IInv, TypeOK
  <2>4. /\ OnlyWriter(e, i)
        /\ \/ w'[e][i].pc = "idle" /\ w[e][i].after = w[e][i].mine
           \/ w'[e][i].pc \in {"claim", "lose"}
    <3>1. CASE w[e][i].after = w[e][i].mine
      BY <1>7, <1>t, <3>1, WriterRestart DEF ClaimStore, Return, PC
    <3>2. CASE w[e][i].after # w[e][i].mine /\ w[e][i].attempt = 1
      <4>1. w' = [w EXCEPT ![e][i] = Fresh("claim", 2)]
        BY <1>7, <3>2 DEF ClaimStore
      <4>2. 2 \in 0..2 /\ "claim" \in PC
        BY DEF PC
      <4>3. OnlyWriter(e, i) /\ w'[e][i].pc = "claim"
        BY Zenon, <1>t, <4>1, <4>2, WriterFresh
      <4> QED BY <4>3
    <3>3. CASE w[e][i].after # w[e][i].mine /\ w[e][i].attempt # 1
      BY <1>7, <1>t, <3>3, WriterRestart DEF ClaimStore, PC
    <3> QED BY <3>1, <3>2, <3>3
  <2>5. TypeOK'
    BY <2>1, <2>2, <2>4 DEF OnlyWriter, IInv, TypeOK
  <2>6. w[e][i].mine.owner = e
    BY <1>7, <1>o DEF ClaimStore, At
  <2> QED BY <2>1, <2>3, <2>4, <2>5, <2>6, OwnStep, AttendedStep DEF IInv, Claiming
<1> QED BY <1>1, <1>2, <1>3, <1>4, <1>5, <1>6, <1>7 DEF RemoveTmp

(* recordFenceLoss: the sticky flag now answers for the engine.            *)
LEMMA LossIInv ==
  ASSUME IInv, NEW e \in Engine, NEW i \in Writer,
         RecordLoss(e, i) \/ CancelExecutor(e, i)
  PROVE  IInv'
<1>t. w \in [Engine -> [Writer -> WriterState]] /\ w[e][i] \in WriterState
  BY DEF IInv, TypeOK
<1>1. CASE RecordLoss(e, i)
  <2>1. OnlyWriter(e, i) /\ w'[e][i].pc \in {"idle", "cancel"}
    BY <1>1, <1>t, WriterRestart, WriterGoTo DEF RecordLoss, Return, PC
  <2>2. UNCHANGED <<fence, tmp, manifest, loaded, status, exec, fences, persists, controls>>
    BY <1>1 DEF RecordLoss, files
  <2>3. fenceBroken' = fenceBroken \cup {e}
    BY <1>1 DEF RecordLoss
  <2>4. TypeOK'
    BY <2>1, <2>2, <2>3 DEF OnlyWriter, IInv, TypeOK
  <2>5. OthersKept(e) /\ e \in fenceBroken'
    BY <2>2, <2>3 DEF OthersKept
  <2> QED BY <2>1, <2>4, <2>5, OwnStep, AttendedStep DEF IInv
<1>2. CASE CancelExecutor(e, i)
  <2>1. OnlyWriter(e, i) /\ w'[e][i].pc = "idle"
    BY <1>2, <1>t, WriterRestart DEF CancelExecutor, Return, PC
  <2>2. UNCHANGED <<fence, tmp, manifest, loaded, status, fences, fenceBroken, persists, controls>>
    BY <1>2 DEF CancelExecutor, files
  <2>3. exec' \in [Engine -> Exec]
    BY <1>2 DEF CancelExecutor, Exec, IInv, TypeOK
  <2>4. TypeOK'
    BY <2>1, <2>2, <2>3 DEF OnlyWriter, IInv, TypeOK
  <2>5. w[e][i].pc \notin Claiming
    BY <1>2 DEF CancelExecutor, At, Claiming
  <2> QED BY <2>1, <2>2, <2>4, <2>5, QuietStep DEF IInv
<1> QED BY <1>1, <1>2

(* Every reachable state has the type invariant and attends its borrowed   *)
(* tokens, for any set of engines and of writers.                          *)
THEOREM FenceInvariant == Spec => []IInv
<1>1. IInv /\ [Next]_vars => IInv'
  <2> SUFFICES ASSUME IInv, [Next]_vars PROVE IInv'
    OBVIOUS
  <2>1. CASE UNCHANGED vars
    BY <2>1 DEF vars, files, engine, IInv, TypeOK, BorrowedIsAttended, ClaimIsOwn
  <2>2. CASE Next
    BY <2>2, ControlIInv, PersistIInv, StampIInv, ClaimIInv, LossIInv DEF Next, WriterStep
  <2> QED BY <2>1, <2>2
<1> QED BY <1>1, InitIInv, PTL DEF Spec

(* Every variable of the fence keeps its type: what is on disk, in fences  *)
(* and in a writer's locals is an owned claim or absent.                   *)
THEOREM FenceTypeOK == Spec => []TypeOK
<1>1. IInv => TypeOK
  BY DEF IInv
<1> QED BY <1>1, FenceInvariant, PTL

(* claimFence's convergence, for any number of engines and of concurrent   *)
(* writers: two engines with no writer inside persistGraph never both have *)
(* the token on disk as an unrevoked claim of theirs.                      *)
THEOREM FenceOneHolder == Spec => []OneHolder
<1>1. IInv => OneHolder
  <2> SUFFICES ASSUME IInv, NEW e \in Engine, NEW f \in Engine, e # f,
                      Quiet(e), Quiet(f), BelievesItHolds(e), BelievesItHolds(f)
               PROVE  FALSE
    BY DEF OneHolder
  <2>1. ASSUME NEW g \in Engine, Quiet(g), BelievesItHolds(g) PROVE fence.owner = g
    BY <2>1 DEF IInv, BorrowedIsAttended, BelievesItHolds, Quiet, At, Claiming
  <2> QED BY <2>1
<1> QED BY <1>1, FenceInvariant, PTL

-----------------------------------------------------------------------------
(* With one persisting goroutine per engine.  With two neither property    *)
(* holds: they share the remembered token and the temporary file.          *)
(*                                                                         *)
(* That losing claims never stops the last executor rests on who owns the  *)
(* token on disk.  A temporary file is always the one its owner is about   *)
(* to rename, so an engine's token gets to disk only while the engine is   *)
(* in that rename; from there on, as long as it stays, it is the token its *)
(* owner compares with.  Hence the owner of the token on disk never        *)
(* records a loss, and whoever records one leaves an owner behind.         *)

(* One persisting goroutine per engine.                                    *)
Serial == \E i \in Writer : Writer = {i}

(* Nobody has suspended, resumed, cleared or killed an engine.             *)
Calm == \A e \in Engine : controls[e] = 0

(* A claim about to be compared, or compared, is the engine's own.         *)
ComparesOwn ==
  \A e \in Engine, i \in Writer :
    w[e][i].pc \in {"compare", "manifest"} /\ w[e][i].mine # None
      => w[e][i].mine.owner = e

-----------------------------------------------------------------------------
(* What a step leaves in the locals of the one writer that moves.          *)

Moved(e, i) == OnlyWriter(e, i) /\ w'[e][i].pc \notin {"compare", "manifest"}
Cleared(e, i, pc) ==
  Moved(e, i) /\ w'[e][i].pc = pc /\ w'[e][i].mine = None /\ w'[e][i].status = "running"
Kept(e, i, pc) ==
  /\ Moved(e, i) /\ w'[e][i].pc = pc /\ w'[e][i].mine = w[e][i].mine
  /\ w'[e][i].after = w[e][i].after /\ w'[e][i].status = w[e][i].status

LEMMA RestartClears ==
  ASSUME w \in [Engine -> [Writer -> WriterState]], NEW e \in Engine, NEW i \in Writer,
         NEW pc \in PC \ {"compare", "manifest"}, NEW n \in 0..2,
         w' = [w EXCEPT ![e][i] = Fresh(pc, n)]
  PROVE  Cleared(e, i, pc)
BY WriterFresh DEF Cleared, Moved

LEMMA GoToKeeps ==
  ASSUME w \in [Engine -> [Writer -> WriterState]], NEW e \in Engine, NEW i \in Writer,
         NEW pc \in PC \ {"compare", "manifest"}, GoTo(e, i, pc)
  PROVE  Kept(e, i, pc)
BY WriterGoTo DEF Kept, Moved

(* stampFence begins a claim, looks at the remembered token or returns.    *)
LEMMA StampMoves ==
  ASSUME IInv, NEW e \in Engine, NEW i \in Writer, stampFence(e, i)
  PROVE  \/ /\ w[e][i].pc \in {"stamp", "stampcmp"} /\ Cleared(e, i, "claim")
            /\ fenceBroken' = fenceBroken \ {e}
         \/ /\ w[e][i].pc = "stamp" /\ fences[e] # None /\ Moved(e, i)
            /\ w'[e][i].pc = "stampcmp" /\ w'[e][i].mine = fences[e]
            /\ w'[e][i].status = w[e][i].status /\ UNCHANGED fenceBroken
         \/ /\ w[e][i].pc = "stampcmp" /\ fence = w[e][i].mine /\ Cleared(e, i, "idle")
            /\ UNCHANGED fenceBroken
<1>w. w \in [Engine -> [Writer -> WriterState]] /\ w[e][i] \in WriterState
  BY DEF IInv, TypeOK
<1>n. 0 \in 0..2 /\ 1 \in 0..2 /\ {"idle", "claim", "stampcmp"} \subseteq PC \ {"compare", "manifest"}
  BY DEF PC
<1>1. CASE BeginClaim(e, i) /\ w[e][i].pc \in {"stamp", "stampcmp"}
  BY <1>1, <1>w, <1>n, RestartClears DEF BeginClaim
<1>2. CASE /\ At(e, i, "stamp") /\ fences[e] # None
           /\ w' = [w EXCEPT ![e][i].pc = "stampcmp", ![e][i].mine = fences[e]]
           /\ UNCHANGED <<files, engine, persists, controls>>
  <2> DEFINE r == [w[e][i] EXCEPT !.pc = "stampcmp", !.mine = fences[e]]
  <2>1. r \in WriterState /\ r.pc = "stampcmp" /\ r.mine = fences[e] /\ r.status = w[e][i].status
    BY <1>w DEF WriterState, PC, IInv, TypeOK
  <2>2. w' = [w EXCEPT ![e][i] = r]
    BY <1>2
  <2> HIDE DEF r
  <2>3. OnlyWriter(e, i) /\ w'[e][i] = r
    BY <1>w, <2>1, <2>2, WriterUpdate
  <2> QED BY <1>2, <2>1, <2>3 DEF Moved, At, engine
<1>3. CASE /\ At(e, i, "stampcmp") /\ fence = w[e][i].mine
           /\ Return(e, i) /\ UNCHANGED <<files, engine, persists, controls>>
  BY <1>3, <1>w, <1>n, RestartClears DEF Return, Restart, At, engine
<1> QED BY <1>1, <1>2, <1>3 DEF stampFence, At

(* claimFence and recordFenceLoss.                                         *)
LEMMA ClaimMoves ==
  ASSUME IInv, NEW e \in Engine, NEW i \in Writer
  PROVE  /\ Debounce(e, i) => Cleared(e, i, "idle")
         /\ WriteManifest(e, i) => Cleared(e, i, "stamp")
         /\ ClaimRead(e, i) => /\ Moved(e, i) /\ w'[e][i].pc = "tmp"
                               /\ w'[e][i].status = w[e][i].status
         /\ WriteTmp(e, i) => Kept(e, i, "rename")
         /\ Rename(e, i) => IF tmp # None THEN Kept(e, i, "reread") ELSE Kept(e, i, "remove")
         /\ RemoveTmp(e, i) =>
              \/ Cleared(e, i, "idle") /\ tmp' = None /\ fences' = [fences EXCEPT ![e] = None]
              \/ Kept(e, i, "rename") /\ UNCHANGED <<tmp, fences>>
         /\ ClaimReread(e, i) => /\ Moved(e, i) /\ w'[e][i].pc = "store"
                                 /\ w'[e][i].mine = w[e][i].mine /\ w'[e][i].after = fence
                                 /\ w'[e][i].status = w[e][i].status
         /\ ClaimStore(e, i) =>
              \/ w[e][i].after = w[e][i].mine /\ Cleared(e, i, "idle")
              \/ w[e][i].after # w[e][i].mine /\ (Cleared(e, i, "claim") \/ Cleared(e, i, "lose"))
         /\ RecordLoss(e, i) => IF e \in fenceBroken THEN Cleared(e, i, "idle") ELSE Kept(e, i, "cancel")
         /\ CancelExecutor(e, i) => Cleared(e, i, "idle")
<1>w. w \in [Engine -> [Writer -> WriterState]] /\ w[e][i] \in WriterState
  BY DEF IInv, TypeOK
<1>n. /\ 0 \in 0..2 /\ 2 \in 0..2
      /\ {"idle", "claim", "stamp", "tmp", "rename", "reread", "remove", "store", "lose", "cancel"}
           \subseteq PC \ {"compare", "manifest"}
  BY DEF PC
<1>1. ASSUME Debounce(e, i) \/ CancelExecutor(e, i) PROVE Cleared(e, i, "idle")
  BY <1>1, <1>w, <1>n, RestartClears DEF Debounce, CancelExecutor, Return, Restart
<1>2. ASSUME WriteManifest(e, i) PROVE Cleared(e, i, "stamp")
  BY <1>2, <1>w, <1>n, RestartClears DEF WriteManifest, Restart
<1>3. ASSUME ClaimRead(e, i)
      PROVE  Moved(e, i) /\ w'[e][i].pc = "tmp" /\ w'[e][i].status = w[e][i].status
  <2> DEFINE t == [owner |-> e, seq |-> IF fence = None THEN 1 ELSE fence.seq + 1]
             r == [w[e][i] EXCEPT !.pc = "tmp", !.mine = t]
  <2>1. fence # None => fence.seq \in Nat
    BY DEF Token, IInv, TypeOK
  <2>2. t \in Token
    BY <2>1 DEF Token
  <2>3. w' = [w EXCEPT ![e][i] = r]
    BY <1>3 DEF ClaimRead
  <2> HIDE DEF t
  <2>4. r \in WriterState /\ r.pc = "tmp" /\ r.status = w[e][i].status
    BY <1>w, <2>2 DEF WriterState, PC
  <2> HIDE DEF r
  <2>5. OnlyWriter(e, i) /\ w'[e][i] = r
    BY <1>w, <2>3, <2>4, WriterUpdate
  <2> QED BY <2>4, <2>5 DEF Moved
<1>4. ASSUME WriteTmp(e, i) PROVE Kept(e, i, "rename")
  BY <1>4, <1>w, <1>n, GoToKeeps DEF WriteTmp
<1>5. ASSUME Rename(e, i)
      PROVE  IF tmp # None THEN Kept(e, i, "reread") ELSE Kept(e, i, "remove")
  BY <1>5, <1>w, <1>n, GoToKeeps DEF Rename
<1>6. ASSUME RemoveTmp(e, i)
      PROVE  \/ Cleared(e, i, "idle") /\ tmp' = None /\ fences' = [fences EXCEPT ![e] = None]
             \/ Kept(e, i, "rename") /\ UNCHANGED <<tmp, fences>>
  BY <1>6, <1>w, <1>n, GoToKeeps, RestartClears DEF RemoveTmp, Return, Restart
<1>7. ASSUME ClaimReread(e, i)
      PROVE  /\ Moved(e, i) /\ w'[e][i].pc = "store" /\ w'[e][i].mine = w[e][i].mine
             /\ w'[e][i].after = fence /\ w'[e][i].status = w[e][i].status
  <2> DEFINE r == [w[e][i] EXCEPT !.pc = "store", !.after = fence]
  <2>1. /\ r \in WriterState /\ r.pc = "store" /\ r.mine = w[e][i].mine
        /\ r.after = fence /\ r.status = w[e][i].status
    BY <1>w DEF WriterState, PC, IInv, TypeOK
  <2>2. w' = [w EXCEPT ![e][i] = r]
    BY <1>7 DEF ClaimReread
  <2> HIDE DEF r
  <2>3. OnlyWriter(e, i) /\ w'[e][i] = r
    BY <1>w, <2>1, <2>2, WriterUpdate
  <2> QED BY <2>1, <2>3 DEF Moved
<1>8. ASSUME ClaimStore(e, i)
      PROVE  \/ w[e][i].after = w[e][i].mine /\ Cleared(e, i, "idle")
             \/ w[e][i].after # w[e][i].mine /\ (Cleared(e, i, "claim") \/ Cleared(e, i, "lose"))
  BY <1>8, <1>w, <1>n, RestartClears DEF ClaimStore, Return, Restart
<1>9. ASSUME RecordLoss(e, i)
      PROVE  IF e \in fenceBroken THEN Cleared(e, i, "idle") ELSE Kept(e, i, "cancel")
  BY <1>9, <1>w, <1>n, GoToKeeps, RestartClears DEF RecordLoss, Return, Restart
<1> QED BY Zenon, <1>1, <1>2, <1>3, <1>4, <1>5, <1>6, <1>7, <1>8, <1>9

LEMMA WriterMoves ==
  ASSUME IInv, NEW e \in Engine, NEW i \in Writer,
         \/ Debounce(e, i) \/ WriteManifest(e, i) \/ stampFence(e, i)
         \/ ClaimRead(e, i) \/ WriteTmp(e, i) \/ Rename(e, i) \/ RemoveTmp(e, i)
         \/ ClaimReread(e, i) \/ ClaimStore(e, i)
         \/ RecordLoss(e, i) \/ CancelExecutor(e, i)
  PROVE  Moved(e, i)
BY ClaimMoves, StampMoves DEF Cleared, Kept

-----------------------------------------------------------------------------
(* One writer's step keeps ComparesOwn if that writer does.                *)
LEMMA ComparesStep ==
  ASSUME ComparesOwn, NEW e \in Engine, NEW i \in Writer, OnlyWriter(e, i),
         w'[e][i].pc \in {"compare", "manifest"} /\ w'[e][i].mine # None
           => w'[e][i].mine.owner = e
  PROVE  ComparesOwn'
<1> SUFFICES ASSUME NEW f \in Engine, NEW j \in Writer,
                    w'[f][j].pc \in {"compare", "manifest"}, w'[f][j].mine # None
             PROVE  w'[f][j].mine.owner = f
  BY DEF ComparesOwn
<1>1. CASE f = e /\ j = i
  BY <1>1
<1>2. CASE f # e \/ j # i
  BY <1>2 DEF OnlyWriter, ComparesOwn
<1> QED BY <1>1, <1>2

(* A lone writer inside persistGraph but outside claimFence finds a token  *)
(* of its own engine in s.fences, or none, or a recorded loss.             *)
LEMMA LoneIsOwn ==
  ASSUME Serial, IInv, NEW e \in Engine, NEW i \in Writer,
         w[e][i].pc \notin Claiming, e \notin fenceBroken
  PROVE  fences[e] # None => fences[e].owner = e
BY DEF Serial, IInv, BorrowedIsAttended

(* Every step keeps ComparesOwn: Persist copies the remembered token, and  *)
(* everything else leaves the locals alone or clears them.                 *)
LEMMA NextComparesOwn ==
  ASSUME Serial, IInv, ComparesOwn, [Next]_vars
  PROVE  ComparesOwn'
<1>w. w \in [Engine -> [Writer -> WriterState]]
  BY DEF IInv, TypeOK
<1>1. CASE UNCHANGED vars
  BY <1>1 DEF vars, ComparesOwn
<1>2. ASSUME NEW e \in Engine,
             Submit(e) \/ SubmitStart(e) \/ loadGraphs(e) \/ ControlStep(e)
      PROVE  ComparesOwn'
  <2>1. CASE Crash(e)
    BY <2>1, <1>w DEF Crash, IdleWriter, Fresh, ComparesOwn
  <2>2. CASE UNCHANGED w
    BY <2>2 DEF ComparesOwn
  <2> QED BY <1>2, <2>1, <2>2 DEF Submit, SubmitStart, loadGraphs, ControlStep,
             SuspendTask, ResumeSuspendedTask, Clear
<1>3. ASSUME NEW e \in Engine, NEW i \in Writer, Persist(e, i)
      PROVE  ComparesOwn'
  <2> DEFINE r == IF e \in fenceBroken THEN Fresh("lose", 0)
                  ELSE [pc |-> IF fences[e] = None THEN "manifest" ELSE "compare",
                        mine |-> fences[e], after |-> None, attempt |-> 0,
                        status |-> status[e]]
  <2>1. r \in WriterState
    BY DEF Fresh, WriterState, PC, Status, IInv, TypeOK
  <2>2. w' = [w EXCEPT ![e][i] = r]
    BY <1>3 DEF Persist
  <2>3. r.mine # None => r.mine.owner = e
    <3>1. w[e][i].pc \notin Claiming
      BY <1>3 DEF Persist, At, Claiming
    <3>2. CASE e \in fenceBroken
      BY <3>2 DEF Fresh
    <3>3. CASE e \notin fenceBroken
      BY <3>1, <3>3, LoneIsOwn
    <3> QED BY <3>2, <3>3
  <2> HIDE DEF r
  <2>4. OnlyWriter(e, i) /\ w'[e][i] = r
    BY <1>w, <2>1, <2>2, WriterUpdate
  <2> QED BY <2>3, <2>4, ComparesStep
<1>4. ASSUME NEW e \in Engine, NEW i \in Writer, holdsFence(e, i)
      PROVE  ComparesOwn'
  <2>1. CASE GoTo(e, i, "manifest")
    <3>1. OnlyWriter(e, i) /\ w'[e][i].mine = w[e][i].mine
      BY <1>w, <2>1, WriterGoTo DEF PC
    <3>2. w[e][i].mine # None => w[e][i].mine.owner = e
      BY <1>4 DEF holdsFence, At, ComparesOwn
    <3> QED BY <3>1, <3>2, ComparesStep
  <2>2. CASE Restart(e, i, "lose")
    BY <1>w, <2>2, WriterRestart, ComparesStep DEF PC
  <2> QED BY <1>4, <2>1, <2>2 DEF holdsFence
<1>5. ASSUME NEW e \in Engine, NEW i \in Writer, OnlyWriter(e, i),
             w'[e][i].pc \notin {"compare", "manifest"}
      PROVE  ComparesOwn'
  BY <1>5, ComparesStep
<1>6. ASSUME NEW e \in Engine, NEW i \in Writer,
             \/ Debounce(e, i) \/ WriteManifest(e, i) \/ stampFence(e, i)
             \/ ClaimRead(e, i) \/ WriteTmp(e, i) \/ Rename(e, i) \/ RemoveTmp(e, i)
             \/ ClaimReread(e, i) \/ ClaimStore(e, i)
             \/ RecordLoss(e, i) \/ CancelExecutor(e, i)
      PROVE  OnlyWriter(e, i) /\ w'[e][i].pc \notin {"compare", "manifest"}
  BY <1>6, WriterMoves, Zenon DEF Moved
<1> QED BY <1>1, <1>2, <1>3, <1>4, <1>5, <1>6 DEF Next, WriterStep

LEMMA InitComparesOwn == Init => ComparesOwn
BY DEF Init, ComparesOwn, IdleWriter, Fresh

(* persistGraph, "Writing requires holding": with one persisting goroutine *)
(* per engine, whoever was let through by a comparison compared a claim of *)
(* its own engine.                                                         *)
THEOREM FenceWritingRequiresHolding ==
  ASSUME Serial
  PROVE  Spec => []WritingRequiresHolding
<1>1. ComparesOwn => WritingRequiresHolding
  BY DEF ComparesOwn, WritingRequiresHolding, At
<1>2. IInv /\ ComparesOwn /\ [Next]_vars => ComparesOwn'
  BY NextComparesOwn
<1>3. Spec => []IInv
  BY FenceInvariant
<1> QED BY <1>1, <1>2, <1>3, InitComparesOwn, PTL DEF Spec

-----------------------------------------------------------------------------
(* The owner of the token on disk keeps driving.                           *)

AtRest == {"idle", "lose", "cancel"}

(* A temporary file is the one its owner is about to rename.               *)
TmpIsWriters ==
  tmp # None => \E j \in Writer : w[tmp.owner][j].pc = "rename" /\ w[tmp.owner][j].mine = tmp

(* While nobody intervenes every graph in memory and on disk is running.   *)
Sane(e, i) ==
  /\ status[e] = "running" /\ w[e][i].status = "running" /\ loaded[e] # "crashed"
  /\ exec[e] # "none" <=> loaded[e] = "yes"
  /\ w[e][i].pc # "idle" => loaded[e] = "yes"

(* Only an engine whose loss is recorded is stopped, and it claims nothing *)
Rested(e, i) ==
  /\ exec[e] = "stopped" \/ w[e][i].pc = "cancel" => e \in fenceBroken
  /\ e \in fenceBroken => w[e][i].pc \in AtRest

(* A loss, and the second half of a claim, find a token on disk.           *)
FenceThere(e, i) ==
  w[e][i].pc \in {"reread", "store", "lose", "cancel"} \/ e \in fenceBroken => fence # None

(* The owner of the token on disk is loaded, recognizes the token wherever *)
(* it looks at it next, and is not losing.                                 *)
OwnPublished(e, i) ==
  fence # None /\ fence.owner = e =>
    /\ loaded[e] = "yes"
    /\ w[e][i].pc \in {"idle", "manifest", "stamp"} => fences[e] \in {None, fence}
    /\ w[e][i].pc \in {"compare", "stampcmp"} => w[e][i].mine = fence /\ fences[e] = fence
    /\ w[e][i].pc \in {"reread", "store"} => w[e][i].mine = fence
    /\ w[e][i].pc = "store" => w[e][i].after = fence
    /\ w[e][i].pc \notin {"lose", "cancel"} /\ e \notin fenceBroken

Driving(e, i) == Sane(e, i) /\ Rested(e, i) /\ FenceThere(e, i) /\ OwnPublished(e, i)

Drive ==
  /\ manifest # None => manifest.status = "running"
  /\ TmpIsWriters
  /\ \A e \in Engine, i \in Writer : Driving(e, i)

DriveInv == Calm => Drive

(* The engines other than e are left alone.                                *)
EngineKept(e) ==
  \A f \in Engine \ {e} :
    /\ loaded'[f] = loaded[f] /\ status'[f] = status[f] /\ exec'[f] = exec[f]
    /\ fences'[f] = fences[f] /\ (f \in fenceBroken' <=> f \in fenceBroken)

(* A step of one engine that does not publish a token.                     *)
LEMMA DriveFrame ==
  ASSUME Drive, Serial, NEW e \in Engine, NEW i \in Writer, OnlyWriter(e, i),
         EngineKept(e), fence' = fence, TmpIsWriters', Driving(e, i)',
         manifest' # None => manifest'.status = "running"
  PROVE  Drive'
<1> SUFFICES ASSUME NEW f \in Engine, NEW j \in Writer
             PROVE  Driving(f, j)'
  BY DEF Drive
<1>1. CASE f = e
  <2>1. j = i
    BY DEF Serial
  <2> QED BY <1>1, <2>1
<1>2. CASE f # e
  <2>1. w'[f][j] = w[f][j]
    BY <1>2 DEF OnlyWriter
  <2>2. Driving(f, j)
    BY DEF Drive
  <2> QED BY <1>2, <2>1, <2>2
          DEF EngineKept, Driving, Sane, Rested, FenceThere, OwnPublished
<1> QED BY <1>1, <1>2

(* The temporary file survives a step of a writer that does not rename it. *)
LEMMA TmpKept ==
  ASSUME TmpIsWriters, NEW e \in Engine, NEW i \in Writer, OnlyWriter(e, i),
         tmp \in Token \cup {None},
         tmp' = None \/ (tmp' = tmp /\ w[e][i].pc # "rename")
  PROVE  TmpIsWriters'
<1>1. CASE tmp' = None
  BY <1>1 DEF TmpIsWriters
<1>2. CASE tmp' = tmp /\ tmp # None /\ w[e][i].pc # "rename"
  <2>1. PICK j \in Writer : w[tmp.owner][j].pc = "rename" /\ w[tmp.owner][j].mine = tmp
    BY <1>2 DEF TmpIsWriters
  <2>2. tmp.owner \in Engine
    BY <1>2 DEF Token
  <2>3. w'[tmp.owner][j] = w[tmp.owner][j]
    BY <1>2, <2>1, <2>2 DEF OnlyWriter
  <2> QED BY <1>2, <2>1, <2>3 DEF TmpIsWriters
<1> QED BY <1>1, <1>2

-----------------------------------------------------------------------------
(* The steps that move no writer.                                          *)
LEMMA DriveEngine ==
  ASSUME IInv, Drive, NEW e \in Engine, Submit(e) \/ SubmitStart(e) \/ loadGraphs(e)
  PROVE  Drive'
<1>1. UNCHANGED <<fence, tmp, manifest, fences, fenceBroken, w>>
  BY DEF Submit, SubmitStart, loadGraphs, files
<1>2. TmpIsWriters' /\ (manifest' # None => manifest'.status = "running")
  BY <1>1 DEF Drive, TmpIsWriters
<1> SUFFICES ASSUME NEW f \in Engine, NEW j \in Writer
             PROVE  Driving(f, j)'
  BY <1>2 DEF Drive
<1>3. Driving(f, j) /\ (manifest # None => manifest.status = "running")
  BY DEF Drive
<1>4. CASE f # e
  <2>1. loaded'[f] = loaded[f] /\ status'[f] = status[f] /\ exec'[f] = exec[f]
    BY <1>4 DEF Submit, SubmitStart, loadGraphs, startGraphExecutor, IInv, TypeOK
  <2> QED BY <1>1, <1>3, <2>1 DEF Driving, Sane, Rested, FenceThere, OwnPublished
<1>5. CASE f = e
  <2>1. /\ loaded'[e] = "yes" /\ status'[e] = "running"
        /\ exec'[e] \in {"submitting", "live"}
    BY <1>3, <1>5 DEF Submit, SubmitStart, loadGraphs, startGraphExecutor, IInv, TypeOK,
                      Driving, Sane
  <2> QED BY <1>1, <1>3, <1>5, <2>1 DEF Driving, Sane, Rested, FenceThere, OwnPublished
<1> QED BY <1>4, <1>5

(* persistGraph up to stampFence.                                          *)
LEMMA DrivePersist ==
  ASSUME IInv, Drive, Serial, NEW e \in Engine, NEW i \in Writer, Persist(e, i)
  PROVE  Drive'
<1> DEFINE r == IF e \in fenceBroken THEN Fresh("lose", 0)
                ELSE [pc |-> IF fences[e] = None THEN "manifest" ELSE "compare",
                      mine |-> fences[e], after |-> None, attempt |-> 0,
                      status |-> status[e]]
<1>1. r \in WriterState
  <2>1. fences[e] \in {None} \cup Token /\ status[e] \in Status
    BY DEF IInv, TypeOK
  <2>2. CASE e \in fenceBroken
    BY SMTT(20), <2>2 DEF Fresh, WriterState, PC, Status
  <2>3. CASE e \notin fenceBroken
    BY <2>1, <2>3 DEF WriterState, PC
  <2> QED BY <2>2, <2>3
<1>2. w' = [w EXCEPT ![e][i] = r] /\ w[e][i].pc = "idle" /\ UNCHANGED <<files, engine>>
      /\ (loaded[e] = "yes" \/ exec[e] = "stopped")
  BY DEF Persist, At
<1>3. /\ e \in fenceBroken => r.pc = "lose"
      /\ e \notin fenceBroken => /\ r.pc = IF fences[e] = None THEN "manifest" ELSE "compare"
                                 /\ r.mine = fences[e]
  BY DEF Fresh
<1>4. r.status = "running" \/ r.status = status[e]
  BY DEF Fresh
<1> HIDE DEF r
<1>5. OnlyWriter(e, i) /\ w'[e][i] = r
  <2>1. w \in [Engine -> [Writer -> WriterState]]
    BY DEF IInv, TypeOK
  <2> QED BY <1>1, <1>2, <2>1, WriterUpdate
<1>6. Driving(e, i)
  BY DEF Drive
<1>7. Driving(e, i)'
  BY <1>2, <1>3, <1>4, <1>5, <1>6
     DEF files, engine, Driving, Sane, Rested, FenceThere, OwnPublished, AtRest
<1>8. TmpIsWriters'
  BY <1>2, <1>5, TmpKept DEF Drive, files, IInv, TypeOK
<1> QED BY <1>2, <1>5, <1>7, <1>8, DriveFrame DEF EngineKept, files, engine, Drive

LEMMA DriveHolds ==
  ASSUME IInv, Drive, Serial, NEW e \in Engine, NEW i \in Writer, holdsFence(e, i)
  PROVE  Drive'
<1>1. /\ w[e][i].pc = "compare" /\ UNCHANGED <<files, engine>>
      /\ \/ fence \in {None, w[e][i].mine} /\ GoTo(e, i, "manifest")
         \/ fence \notin {None, w[e][i].mine} /\ Restart(e, i, "lose")
  BY DEF holdsFence, At
<1>2. /\ OnlyWriter(e, i)
      /\ \/ /\ fence \in {None, w[e][i].mine} /\ w'[e][i].pc = "manifest"
            /\ w'[e][i].mine = w[e][i].mine /\ w'[e][i].status = w[e][i].status
         \/ /\ fence \notin {None, w[e][i].mine} /\ w'[e][i].pc = "lose"
            /\ w'[e][i].status = "running"
  BY <1>1, WriterGoTo, WriterRestart DEF PC, IInv, TypeOK
<1>3. Driving(e, i)
  BY DEF Drive
<1>4. Driving(e, i)'
  BY <1>1, <1>2, <1>3
     DEF files, engine, Driving, Sane, Rested, FenceThere, OwnPublished, AtRest
<1>5. TmpIsWriters'
  BY <1>1, <1>2, TmpKept DEF Drive, files, IInv, TypeOK
<1> QED BY <1>1, <1>2, <1>4, <1>5, DriveFrame DEF EngineKept, files, engine, Drive

LEMMA DriveManifest ==
  ASSUME IInv, Drive, Serial, NEW e \in Engine, NEW i \in Writer,
         Debounce(e, i) \/ WriteManifest(e, i)
  PROVE  Drive'
<1>1. /\ w[e][i].pc = "manifest" /\ UNCHANGED <<fence, tmp, engine>>
      /\ manifest' = manifest \/ manifest' = [by |-> e, status |-> w[e][i].status]
  BY DEF Debounce, WriteManifest, At, files
<1>2. /\ OnlyWriter(e, i) /\ w'[e][i].status = "running"
      /\ w'[e][i].pc \in {"idle", "stamp"}
  BY ClaimMoves DEF Cleared, Moved
<1>3. Driving(e, i)
  BY DEF Drive
<1>4. Driving(e, i)'
  BY <1>1, <1>2, <1>3
     DEF engine, Driving, Sane, Rested, FenceThere, OwnPublished, AtRest
<1>5. TmpIsWriters'
  BY <1>1, <1>2, TmpKept DEF Drive, IInv, TypeOK
<1>6. manifest' # None => manifest'.status = "running"
  <2>1. w[e][i].status = "running"
    BY <1>3 DEF Driving, Sane
  <2>2. manifest # None => manifest.status = "running"
    BY DEF Drive
  <2> QED BY <1>1, <2>1, <2>2
<1> QED BY <1>1, <1>2, <1>4, <1>5, <1>6, DriveFrame DEF EngineKept, engine

(* stampFence.                                                             *)
LEMMA DriveStamp ==
  ASSUME IInv, Drive, Serial, NEW e \in Engine, NEW i \in Writer, stampFence(e, i)
  PROVE  Drive'
<1>1. UNCHANGED <<files, loaded, status, exec, fences>>
  BY DEF stampFence, engine
<1>2. /\ OnlyWriter(e, i)
      /\ \/ /\ w[e][i].pc \in {"stamp", "stampcmp"} /\ w'[e][i].pc = "claim"
            /\ fenceBroken' = fenceBroken \ {e} /\ w'[e][i].status = "running"
         \/ /\ w[e][i].pc = "stamp" /\ fences[e] # None /\ w'[e][i].pc = "stampcmp"
            /\ w'[e][i].mine = fences[e] /\ w'[e][i].status = w[e][i].status
            /\ UNCHANGED fenceBroken
         \/ /\ w[e][i].pc = "stampcmp" /\ fence = w[e][i].mine /\ w'[e][i].pc = "idle"
            /\ w'[e][i].status = "running" /\ UNCHANGED fenceBroken
  BY StampMoves, Zenon DEF Cleared, Moved
<1>3. Driving(e, i)
  BY DEF Drive
<1>4. Driving(e, i)'
  BY <1>1, <1>2, <1>3
     DEF files, Driving, Sane, Rested, FenceThere, OwnPublished, AtRest
<1>5. TmpIsWriters'
  BY <1>1, <1>2, TmpKept DEF Drive, files, IInv, TypeOK
<1> QED BY <1>1, <1>2, <1>4, <1>5, DriveFrame DEF EngineKept, files, Drive

(* claimFence up to the rename.                                            *)
LEMMA DriveClaim ==
  ASSUME IInv, Drive, Serial, NEW e \in Engine, NEW i \in Writer,
         ClaimRead(e, i) \/ WriteTmp(e, i)
  PROVE  Drive'
<1>1. /\ w[e][i].pc \in {"claim", "tmp"} /\ UNCHANGED <<fence, manifest, engine>>
      /\ w[e][i].pc = "claim" => tmp' = tmp
      /\ w[e][i].pc = "tmp" => tmp' = w[e][i].mine
  BY DEF ClaimRead, WriteTmp, At, files
<1>2. /\ OnlyWriter(e, i) /\ w'[e][i].status = w[e][i].status
      /\ w[e][i].pc = "claim" => w'[e][i].pc = "tmp"
      /\ w[e][i].pc = "tmp" => w'[e][i].pc = "rename" /\ w'[e][i].mine = w[e][i].mine
  BY ClaimMoves DEF Kept, Moved, ClaimRead, WriteTmp, At
<1>3. Driving(e, i)
  BY DEF Drive
<1>4. Driving(e, i)'
  BY <1>1, <1>2, <1>3
     DEF engine, Driving, Sane, Rested, FenceThere, OwnPublished, AtRest
<1>5. TmpIsWriters'
  <2>1. CASE w[e][i].pc = "claim"
    BY <1>1, <1>2, <2>1, TmpKept DEF Drive, IInv, TypeOK
  <2>2. CASE w[e][i].pc = "tmp"
    <3>1. tmp' = w[e][i].mine /\ w[e][i].mine.owner = e
      BY <1>1, <2>2 DEF IInv, ClaimIsOwn
    <3>2. w'[tmp'.owner][i].pc = "rename" /\ w'[tmp'.owner][i].mine = tmp'
      BY <3>1, <1>2, <2>2
    <3> QED BY <3>2 DEF TmpIsWriters
  <2> QED BY <1>1, <2>1, <2>2
<1> QED BY <1>1, <1>2, <1>4, <1>5, DriveFrame DEF EngineKept, engine, Drive

(* The rename puts a token on disk whose owner is in its rename, too.      *)
LEMMA DriveRename ==
  ASSUME IInv, Drive, Serial, NEW e \in Engine, NEW i \in Writer, Rename(e, i)
  PROVE  Drive'
<1>1. w[e][i].pc = "rename" /\ UNCHANGED <<manifest, engine>> /\ tmp' = None
      /\ fence' = IF tmp = None THEN fence ELSE tmp
  BY DEF Rename, At
<1>2. /\ OnlyWriter(e, i) /\ w'[e][i].status = w[e][i].status
      /\ w'[e][i].mine = w[e][i].mine
      /\ w'[e][i].pc = IF tmp = None THEN "remove" ELSE "reread"
  BY ClaimMoves DEF Kept, Moved
<1>3. Driving(e, i)
  BY DEF Drive
<1>4. TmpIsWriters'
  BY <1>1 DEF TmpIsWriters
<1>5. CASE tmp = None
  <2>1. Driving(e, i)'
    BY <1>1, <1>2, <1>3, <1>5
       DEF engine, Driving, Sane, Rested, FenceThere, OwnPublished, AtRest
  <2> QED BY <1>1, <1>2, <1>4, <1>5, <2>1, DriveFrame DEF EngineKept, engine, Drive
<1>6. CASE tmp # None
  <2>1. PICK k \in Writer : w[tmp.owner][k].pc = "rename" /\ w[tmp.owner][k].mine = tmp
    BY <1>6 DEF Drive, TmpIsWriters
  <2>2. tmp.owner \in Engine
    BY <1>6 DEF IInv, TypeOK, Token
  <2> SUFFICES ASSUME NEW f \in Engine, NEW j \in Writer
               PROVE  Driving(f, j)'
    BY <1>1, <1>4 DEF Drive
  <2>3. i = j /\ k = j
    BY DEF Serial
  <2>4. Driving(f, j)
    BY DEF Drive
  <2>5. CASE f = e
    BY <1>1, <1>2, <1>6, <2>1, <2>3, <2>4, <2>5
       DEF engine, Driving, Sane, Rested, FenceThere, OwnPublished, AtRest
  <2>6. CASE f # e
    <3>1. w'[f][j] = w[f][j]
      BY <1>2, <2>6 DEF OnlyWriter
    <3> QED BY <1>1, <1>6, <2>1, <2>3, <2>4, <3>1
            DEF engine, Driving, Sane, Rested, FenceThere, OwnPublished, AtRest
  <2> QED BY <2>5, <2>6
<1> QED BY <1>5, <1>6

(* A failed rename, and the second half of claimFence.                     *)
LEMMA DriveSettle ==
  ASSUME IInv, Drive, Serial, NEW e \in Engine, NEW i \in Writer,
         RemoveTmp(e, i) \/ ClaimReread(e, i) \/ ClaimStore(e, i)
  PROVE  Drive'
<1>1. /\ UNCHANGED <<fence, manifest, loaded, status, exec, fenceBroken>>
      /\ w[e][i].pc \in {"remove", "reread", "store"}
      /\ tmp' = None \/ tmp' = tmp
  BY DEF RemoveTmp, ClaimReread, ClaimStore, At, files, engine
<1>2. /\ OnlyWriter(e, i) /\ w'[e][i].status \in {"running", w[e][i].status}
      /\ w[e][i].pc = "remove" => \/ w'[e][i].pc = "idle" /\ fences' = [fences EXCEPT ![e] = None]
                                  \/ w'[e][i].pc = "rename" /\ fences' = fences
      /\ w[e][i].pc = "reread" => /\ w'[e][i].pc = "store" /\ w'[e][i].mine = w[e][i].mine
                                  /\ w'[e][i].after = fence /\ fences' = fences
      /\ w[e][i].pc = "store" =>
           /\ fences' = [fences EXCEPT ![e] = w[e][i].after]
           /\ \/ w[e][i].after = w[e][i].mine /\ w'[e][i].pc = "idle"
              \/ w[e][i].after # w[e][i].mine /\ w'[e][i].pc \in {"claim", "lose"}
  BY ClaimMoves DEF Cleared, Kept, Moved, RemoveTmp, ClaimReread, ClaimStore, At, engine
<1>3. Driving(e, i)
  BY DEF Drive
<1>f. fences \in [Engine -> Token \cup {None}]
  BY DEF IInv, TypeOK
<1>4. Driving(e, i)'
  BY <1>1, <1>2, <1>3, <1>f
     DEF Driving, Sane, Rested, FenceThere, OwnPublished, AtRest
<1>5. TmpIsWriters'
  BY <1>1, <1>2, TmpKept DEF Drive, IInv, TypeOK
<1>6. EngineKept(e)
  BY <1>1, <1>2, <1>f DEF EngineKept
<1> QED BY <1>1, <1>2, <1>4, <1>5, <1>6, DriveFrame DEF Drive

(* recordFenceLoss.                                                        *)
LEMMA DriveLoss ==
  ASSUME IInv, Drive, Serial, NEW e \in Engine, NEW i \in Writer,
         RecordLoss(e, i) \/ CancelExecutor(e, i)
  PROVE  Drive'
<1>1. /\ UNCHANGED <<files, loaded, status, fences>>
      /\ \/ /\ w[e][i].pc = "lose" /\ fenceBroken' = fenceBroken \cup {e} /\ exec' = exec
         \/ /\ w[e][i].pc = "cancel" /\ fenceBroken' = fenceBroken
            /\ exec' = [exec EXCEPT ![e] = IF @ = "live" THEN "stopped" ELSE @]
  BY DEF RecordLoss, CancelExecutor, At
<1>2. /\ OnlyWriter(e, i) /\ w'[e][i].pc \in {"idle", "cancel"}
      /\ w'[e][i].status \in {"running", w[e][i].status}
      /\ w[e][i].pc = "cancel" => w'[e][i].pc = "idle"
  BY ClaimMoves DEF Cleared, Kept, Moved, RecordLoss, CancelExecutor, At
<1>3. Driving(e, i)
  BY DEF Drive
<1>f. exec \in [Engine -> Exec]
  BY DEF IInv, TypeOK
<1>4. Driving(e, i)'
  BY <1>1, <1>2, <1>3, <1>f
     DEF files, Driving, Sane, Rested, FenceThere, OwnPublished, AtRest
<1>5. TmpIsWriters'
  BY <1>1, <1>2, TmpKept DEF Drive, files, IInv, TypeOK
<1>6. EngineKept(e)
  BY <1>1, <1>2, <1>f DEF EngineKept
<1> QED BY <1>1, <1>2, <1>4, <1>5, <1>6, DriveFrame DEF files, Drive

-----------------------------------------------------------------------------
(* Intervening is remembered: a calm state has only calm predecessors.     *)
LEMMA CalmBefore ==
  ASSUME IInv, [Next]_vars, Calm'
  PROVE  Calm /\ \A e \in Engine : ~ControlStep(e)
<1>0. controls \in [Engine -> 0..MaxControls]
  BY DEF IInv, TypeOK
<1>1. \A e \in Engine : Control(e) => controls'[e] = controls[e] + 1 /\ controls[e] \in Nat
  BY <1>0, FenceAssumption DEF Control
<1>2. \A e \in Engine : ~Control(e)
  BY <1>1 DEF Calm
<1>3. \A e \in Engine : ~ControlStep(e)
  BY <1>2 DEF ControlStep, SuspendTask, ResumeSuspendedTask, Clear, Crash
<1>4. controls' = controls
  <2>1. ASSUME NEW e \in Engine, Submit(e) \/ SubmitStart(e) \/ loadGraphs(e)
        PROVE  controls' = controls
    BY <2>1 DEF Submit, SubmitStart, loadGraphs
  <2>2. ASSUME NEW e \in Engine, NEW i \in Writer,
               \/ Persist(e, i) \/ Debounce(e, i) \/ holdsFence(e, i)
               \/ WriteManifest(e, i) \/ ClaimRead(e, i) \/ WriteTmp(e, i)
               \/ Rename(e, i) \/ RemoveTmp(e, i)
        PROVE  controls' = controls
    BY <2>2, Zenon DEF Persist, Debounce, holdsFence, WriteManifest, ClaimRead, WriteTmp,
                       Rename, RemoveTmp
  <2>3. ASSUME NEW e \in Engine, NEW i \in Writer,
               \/ stampFence(e, i) \/ ClaimReread(e, i) \/ ClaimStore(e, i)
               \/ RecordLoss(e, i) \/ CancelExecutor(e, i)
        PROVE  controls' = controls
    BY <2>3, Zenon DEF stampFence, ClaimReread, ClaimStore, RecordLoss, CancelExecutor
  <2> QED BY <1>3, <2>1, <2>2, <2>3 DEF Next, WriterStep, vars
<1> QED BY <1>3, <1>4 DEF Calm

LEMMA NextDrive ==
  ASSUME Serial, IInv, DriveInv, [Next]_vars
  PROVE  DriveInv'
<1> SUFFICES ASSUME Calm' PROVE Drive'
  BY DEF DriveInv
<1>1. Drive /\ \A e \in Engine : ~ControlStep(e)
  BY CalmBefore DEF DriveInv
<1>2. CASE UNCHANGED vars
  <2>1. TmpIsWriters' /\ (manifest' # None => manifest'.status = "running")
    BY <1>1, <1>2 DEF vars, files, Drive, TmpIsWriters
  <2>2. ASSUME NEW e \in Engine, NEW i \in Writer PROVE Driving(e, i)'
    <3>1. Driving(e, i)
      BY <1>1 DEF Drive
    <3> QED BY <1>2, <3>1
            DEF vars, files, engine, Driving, Sane, Rested, FenceThere, OwnPublished
  <2> QED BY <2>1, <2>2 DEF Drive
<1>3. CASE Next
  BY <1>1, <1>3, DriveEngine, DrivePersist, DriveHolds, DriveManifest, DriveStamp,
     DriveClaim, DriveRename, DriveSettle, DriveLoss DEF Next, WriterStep
<1> QED BY <1>2, <1>3

LEMMA InitDrive == Init => DriveInv
BY SMTT(20) DEF Init, DriveInv, Drive, TmpIsWriters, Driving, Sane, Rested, FenceThere,
       OwnPublished, IdleWriter, Fresh

(* Fencing stops the stale executor, never the last one: with one          *)
(* persisting goroutine per engine, for every number of engines and of     *)
(* persists.                                                               *)
THEOREM FenceSomeoneDrives ==
  ASSUME Serial
  PROVE  Spec => []SomeoneDrives
<1>1. ASSUME IInv, DriveInv PROVE SomeoneDrives
  <2> SUFFICES ASSUME NEW e \in Engine, exec[e] # "none", Calm
               PROVE  \E f \in Engine : exec[f] \in {"submitting", "live"}
    BY DEF SomeoneDrives, Calm
  <2>0. PICK i \in Writer : TRUE
    BY DEF Serial
  <2>1. \A f \in Engine : Driving(f, i) /\ exec[f] \in Exec
    BY <1>1 DEF DriveInv, Drive, IInv, TypeOK
  <2>2. CASE fence = None
    <3>1. exec[e] # "stopped"
      BY <2>1, <2>2 DEF Driving, Rested, FenceThere
    <3> QED BY <2>1, <3>1 DEF Exec
  <2>3. CASE fence # None
    <3>1. fence.owner \in Engine
      BY <1>1, <2>3 DEF IInv, TypeOK, Token
    <3>2. exec[fence.owner] \notin {"none", "stopped"}
      BY <2>1, <2>3, <3>1 DEF Driving, Sane, Rested, OwnPublished
    <3> QED BY <2>1, <3>1, <3>2 DEF Exec
  <2> QED BY <2>2, <2>3
<1>2. IInv /\ DriveInv /\ [Next]_vars => DriveInv'
  BY NextDrive
<1>3. Spec => []IInv
  BY FenceInvariant
<1> QED BY <1>1, <1>2, <1>3, InitDrive, PTL DEF Spec
=============================================================================
