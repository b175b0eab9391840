-------------------------------- MODULE Outbox --------------------------------
(***************************************************************************)
(* What the notice module promises of its outbox, without batches, clocks, *)
(* retries of calls or dead processes: a delivery is put there once; the   *)
(* worker that owns it ends an attempt, and nobody else; it ends well only *)
(* if the endpoint accepted it, and is tried again only while it has       *)
(* attempts left; what is settled changes by an operator who asked before. *)
(***************************************************************************)
EXTENDS Integers

CONSTANTS Deliveries, Workers, Operators, MaxAttempts, None

VARIABLES
  status,  \* of a delivery, as table notice_deliveries has it
  tries,   \* attempts that ended since it was dispatched or replayed
  owner,   \* the worker that may end the next attempt, or None
  taken,   \* the deliveries that the endpoint has accepted
  asks     \* the delivery that an operator's request is about, or None

vars == <<status, tries, owner, taken, asks>>

Init ==
  /\ status = [d \in Deliveries |-> "absent"]
  /\ tries = [d \in Deliveries |-> 0]
  /\ owner = [d \in Deliveries |-> None]
  /\ taken = {}
  /\ asks = [o \in Operators |-> None]

Put(d) ==
  /\ status[d] = "absent"
  /\ status' = [status EXCEPT ![d] = "pending"]
  /\ UNCHANGED <<tries, owner, taken, asks>>

\* A worker becomes the owner of a batch; who is given up and when is not promised.
Take(w, S) ==
  /\ \A d \in S : status[d] = "pending"
  /\ owner' = [d \in Deliveries |-> IF d \in S THEN w ELSE owner[d]]
  /\ UNCHANGED <<status, tries, taken, asks>>

\* Whoever sends it: a worker that was given up may still do so.
Accept(d) ==
  /\ status[d] # "absent"
  /\ taken' = taken \union {d}
  /\ UNCHANGED <<status, tries, owner, asks>>

EndAttempt(d, w, outcome) ==
  /\ status[d] = "pending" /\ owner[d] = w
  /\ outcome = "succeeded" => d \in taken
  /\ outcome = "pending" => tries[d] + 1 < MaxAttempts
  /\ status' = [status EXCEPT ![d] = outcome]
  /\ tries' = [tries EXCEPT ![d] = @ + 1]
  /\ owner' = [owner EXCEPT ![d] = None]
  /\ UNCHANGED <<taken, asks>>

Ask(o, d) ==
  /\ asks[o] = None /\ status[d] \in {"pending", "failed"}
  /\ asks' = [asks EXCEPT ![o] = d]
  /\ UNCHANGED <<status, tries, owner, taken>>

Replay(o) ==
  /\ asks[o] # None
  /\ status' = [status EXCEPT ![asks[o]] = "pending"]
  /\ tries' = [tries EXCEPT ![asks[o]] = 0]
  /\ owner' = [owner EXCEPT ![asks[o]] = None]
  /\ asks' = [asks EXCEPT ![o] = None]
  /\ UNCHANGED taken

Cancel(o) ==
  /\ asks[o] # None
  /\ status' = [status EXCEPT ![asks[o]] = "canceled"]
  /\ owner' = [owner EXCEPT ![asks[o]] = None]
  /\ asks' = [asks EXCEPT ![o] = None]
  /\ UNCHANGED <<tries, taken>>

Withdraw(o) ==
  /\ asks[o] # None
  /\ asks' = [asks EXCEPT ![o] = None]
  /\ UNCHANGED <<status, tries, owner, taken>>

Next ==
  \/ \E d \in Deliveries : Put(d) \/ Accept(d)
  \/ \E w \in Workers, S \in SUBSET Deliveries : Take(w, S)
  \/ \E d \in Deliveries, w \in Workers, outcome \in {"succeeded", "failed", "pending"} :
       EndAttempt(d, w, outcome)
  \/ \E o \in Operators : Replay(o) \/ Cancel(o) \/ Withdraw(o)
  \/ \E o \in Operators, d \in Deliveries : Ask(o, d)

Spec == Init /\ [][Next]_vars
=============================================================================
