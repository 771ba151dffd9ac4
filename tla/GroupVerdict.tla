---------------------------- MODULE GroupVerdict ----------------------------
(***************************************************************************)
(* What the caller of wait_group() relies on: a launcher that judges a     *)
(* group of processes calls it completed only when every process ended     *)
(* with success, and judges it, either way, only when none is running.     *)
(***************************************************************************)
CONSTANT Members

VARIABLES outcome,  \* of each process
          judgement

verdictVars == <<outcome, judgement>>

Init ==
  /\ outcome = [m \in Members |-> "idle"]
  /\ judgement = "open"

NobodyRuns == \A m \in Members : outcome[m] # "running"

\* A new group; the last one may have been left without a judgement.
Begin ==
  /\ NobodyRuns
  /\ outcome' = [m \in Members |-> "idle"]
  /\ judgement' = "open"

Starts(m) ==
  /\ judgement = "open" /\ outcome[m] = "idle"
  /\ outcome' = [outcome EXCEPT ![m] = "running"]
  /\ UNCHANGED judgement

Ends(m, how) ==
  /\ outcome[m] = "running"
  /\ outcome' = [outcome EXCEPT ![m] = how]
  /\ UNCHANGED judgement

Completed ==
  /\ judgement = "open" /\ \A m \in Members : outcome[m] = "succeeded"
  /\ judgement' = "completed"
  /\ UNCHANGED outcome

Failed ==
  /\ judgement = "open" /\ NobodyRuns
  /\ judgement' = "failed"
  /\ UNCHANGED outcome

Next ==
  \/ Begin \/ Completed \/ Failed
  \/ \E m \in Members : Starts(m) \/ \E how \in {"succeeded", "failed"} : Ends(m, how)

VerdictSpec == Init /\ [][Next]_verdictVars
=============================================================================
