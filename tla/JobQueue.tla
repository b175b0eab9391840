------------------------------ MODULE JobQueue ------------------------------
(***************************************************************************)
(* What the control plane promises of its job queue, without rows,         *)
(* transactions or clocks: a job is put into the queue once; one worker at *)
(* a time holds it; it ends by an act of its holder, or of nobody; a job   *)
(* whose holder is given up is waiting again; an ended job stays ended.    *)
(***************************************************************************)
CONSTANTS Jobs, Workers, None

VARIABLES
  phase,   \* where a job is in its life
  holder   \* the worker that holds it, or None

Outcome == {"succeeded", "failed", "canceled"}

Init ==
  /\ phase = [j \in Jobs |-> "absent"]
  /\ holder = [j \in Jobs |-> None]

Put(j) ==
  /\ phase[j] = "absent"
  /\ phase' = [phase EXCEPT ![j] = "queued"]
  /\ UNCHANGED holder

Take(j, w) ==
  /\ phase[j] = "queued"
  /\ phase' = [phase EXCEPT ![j] = "running"]
  /\ holder' = [holder EXCEPT ![j] = w]

\* Some holders are given up, all at once; who and when is not promised.
GiveBack(S) ==
  /\ \A j \in S : phase[j] = "running"
  /\ phase' = [j \in Jobs |-> IF j \in S THEN "queued" ELSE phase[j]]
  /\ holder' = [j \in Jobs |-> IF j \in S THEN None ELSE holder[j]]

Finish(j, w, outcome) ==
  /\ phase[j] = "running" /\ holder[j] = w
  /\ phase' = [phase EXCEPT ![j] = outcome]
  /\ holder' = [holder EXCEPT ![j] = None]

Next ==
  \/ \E S \in SUBSET Jobs : GiveBack(S)
  \/ \E j \in Jobs : Put(j)
  \/ \E j \in Jobs, w \in Workers : Take(j, w)
  \/ \E j \in Jobs, w \in Workers, outcome \in Outcome : Finish(j, w, outcome)

Spec == Init /\ [][Next]_<<phase, holder>>
=============================================================================
