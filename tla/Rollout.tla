------------------------------ MODULE Rollout ------------------------------
(***************************************************************************)
(* What a recovery configuration transition promises, whoever runs it and  *)
(* whatever fails: nodes are recorded as done a few at a time and never    *)
(* forgotten, it finishes only when all of its targets are recorded, and   *)
(* once it is finished or aborted it is never open again.  Batches may     *)
(* still be recorded while it is being aborted, not after it finished.     *)
(***************************************************************************)
CONSTANTS Transitions, Nodes

VARIABLES
  phase,    \* "none", "open", "finished" or "aborted"
  targets,  \* the nodes each transition is for
  done      \* the nodes recorded so far

vars == <<phase, targets, done>>

Init ==
  /\ phase = [i \in Transitions |-> "none"]
  /\ targets = [i \in Transitions |-> {}]
  /\ done = [i \in Transitions |-> {}]

Create(i, nodes) ==
  /\ phase[i] = "none"
  /\ phase' = [phase EXCEPT ![i] = "open"]
  /\ targets' = [targets EXCEPT ![i] = nodes]
  /\ UNCHANGED done

Record(i, batch) ==
  /\ phase[i] \in {"open", "aborted"}
  /\ done' = [done EXCEPT ![i] = @ \cup batch]
  /\ UNCHANGED <<phase, targets>>

Finish(i) ==
  /\ phase[i] = "open" /\ done[i] = targets[i]
  /\ phase' = [phase EXCEPT ![i] = "finished"]
  /\ UNCHANGED <<targets, done>>

(* A cancellation that comes too late still leaves its mark.                *)
Abort(i) ==
  /\ phase[i] \in {"open", "finished"}
  /\ phase' = [phase EXCEPT ![i] = "aborted"]
  /\ UNCHANGED <<targets, done>>

Next ==
  \E i \in Transitions :
    \/ \E nodes \in SUBSET Nodes : Create(i, nodes) \/ Record(i, nodes)
    \/ Finish(i) \/ Abort(i)

Spec == Init /\ [][Next]_vars
=============================================================================
