--------------------------- MODULE TaskLifecycle ---------------------------
(***************************************************************************)
(* What a caller may see of one task: its reported status and the status of *)
(* the saved manifest.  A verdict is never taken back by the engine itself: *)
(* only CancelTask, a reload of an older manifest, or the second executor   *)
(* of a task resumed while its first was still at work replaces one.        *)
(***************************************************************************)

VARIABLES
  seen,    \* reported status
  saved,   \* status in the manifest
  doubled  \* resumed beside an executor that had not stopped

lifeVars == <<seen, saved, doubled>>

Active == {"running", "waiting"}
Held == {"suspended", "cancelled"}
Verdict == {"completed", "completed_with_skips", "failed"}

Init == seen = "absent" /\ saved = "absent" /\ doubled = FALSE

Submit == seen = "absent" /\ seen' \in Active /\ UNCHANGED <<saved, doubled>>
Park == seen = "running" /\ seen' = "waiting" /\ UNCHANGED <<saved, doubled>>
Proceed == seen = "waiting" /\ seen' = "running" /\ UNCHANGED <<saved, doubled>>
Finish == seen \in Active /\ seen' \in Verdict /\ UNCHANGED <<saved, doubled>>

\* A result that was under way when the task was cancelled or suspended.
LateResult == (seen \in Held \/ doubled) /\ seen' \in Verdict /\ UNCHANGED <<saved, doubled>>

\* A host plan that arrives for a held task sets it running again.
PlanArrives == seen \in Held /\ seen' = "running" /\ UNCHANGED <<saved, doubled>>

Cancel == seen # "absent" /\ seen' = "cancelled" /\ UNCHANGED <<saved, doubled>>
Suspend == seen \in Active /\ seen' = "suspended" /\ UNCHANGED <<saved, doubled>>
Resume == seen = "suspended" /\ seen' \in Active /\ doubled' \in {doubled, TRUE} /\ UNCHANGED saved
Save == saved' = seen /\ UNCHANGED <<seen, doubled>>
Reload == saved # "absent" /\ seen' = saved /\ UNCHANGED <<saved, doubled>>

Next == \/ Submit \/ Park \/ Proceed \/ Finish \/ LateResult \/ PlanArrives \/ Cancel
        \/ Suspend \/ Resume \/ Save \/ Reload

Spec == Init /\ [][Next]_lifeVars

=============================================================================
