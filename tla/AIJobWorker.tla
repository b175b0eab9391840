----------------------------- MODULE AIJobWorker ----------------------------
(***************************************************************************)
(* Orchestrator workers on one job (src/tools/ai-orchestrator): the daemon *)
(* loop, the runtime of a job with its retries, the thread that renews the *)
(* lease, the guard of the graph's nodes and the end of the graph.  The    *)
(* server's handlers are at the grain of their commits; AIJobLease has     *)
(* them as transactions.  The commit of a request and the arrival of its   *)
(* answer are two steps.                                                   *)
(*                                                                         *)
(* Time is relative: a lease has an age, each timer counts ticks.  Between *)
(* two nodes a thread is prompt, a node takes any time, an attempt of a    *)
(* request is answered or given up within MaxWait, and the next follows    *)
(* within RetryDelay.  A request given up may be handled later; so may     *)
(* those of a process that died.                                           *)
(***************************************************************************)
EXTENDS Integers, FiniteSets

CONSTANTS
  Workers,      \* runtimes, each under an instance id of its own
  None,
  LeaseTTL,     \* defaultAIJobLeaseTTL, in ticks
  Heartbeat,    \* LEASE_HEARTBEAT_INTERVAL_SECONDS
  MaxAttempts,  \* RetryPolicy.max_attempts
  MaxWait,      \* the timeout of the client, in ticks
  RetryDelay,   \* the longest delay between two attempts
  MaxFaults,    \* bound of the model: requests without an answer, and crashes
  MaxLate       \* bound of the model: requests whose sender is gone, at a time

ASSUME WorkerAssumption ==
  /\ None \notin Workers
  /\ {LeaseTTL, Heartbeat, MaxAttempts} \subseteq Nat \ {0}
  /\ {MaxWait, RetryDelay, MaxFaults, MaxLate} \subseteq Nat

VARIABLES
  row,       \* the row of the job
  main,      \* per worker, the thread that runs the graph
  beat,      \* its heartbeat thread
  lost,      \* its lease_lost_event
  believed,  \* whether it thinks that it finalized the job as succeeded
  alone,     \* not in the code: the ticks its graph has run without the lease
  late,      \* requests whose sender is gone
  faults,
  slow       \* not in the code: whether a request took a third of the time that the lease
             \* leaves beyond a heartbeat, and more

vars == <<row, main, beat, lost, believed, alone, late, faults, slow>>

Terminal == {"succeeded", "failed", "canceled"}
Asking == {"start", "report", "audit", "end"}

\* An attempt that the server has not handled, has accepted or refused, or that was given up.
Answers == {"none", "ok", "refused", "lost"}

\* How long a thread waits: for an answer, or before the next attempt.
Limit(t) == IF t.answer = "lost" THEN RetryDelay ELSE MaxWait
InTime(t) == t.age <= Limit(t) /\ (t.answer = "lost" => t.try < MaxAttempts)

\* failed is last_error; fallback that a failed finalize will not be followed by another.
\* age counts from the sending of an attempt, or from its loss.
Main == {m \in [step : {"idle", "listed", "between", "node"} \cup Asking, failed : BOOLEAN,
                fallback : BOOLEAN, try : 1..MaxAttempts, age : Nat, answer : Answers] :
           InTime(m)}
Beat == {b \in [step : {"off", "sleep", "renew"}, left : 0..Heartbeat,
                try : 1..MaxAttempts, age : Nat, answer : Answers] : InTime(b)}

Idle == [step |-> "idle", failed |-> FALSE, fallback |-> FALSE, try |-> 1, age |-> 0,
         answer |-> "none"]
Off == [step |-> "off", left |-> 0, try |-> 1, age |-> 0, answer |-> "none"]
Asleep == [Off EXCEPT !.step = "sleep", !.left = Heartbeat]

Working(w) == main[w].step \notin {"idle", "listed", "start"}
InGraph(w) == main[w].step \in {"between", "node", "report"}

\* Three requests of this age and a heartbeat outlast the lease.
TooSlow(age) == Heartbeat + 3 * age > LeaseTTL

Init ==
  /\ row = [status |-> "queued", owner |-> None, age |-> 0]
  /\ main = [w \in Workers |-> Idle]
  /\ beat = [w \in Workers |-> Off]
  /\ lost = [w \in Workers |-> FALSE]
  /\ believed = [w \in Workers |-> FALSE]
  /\ alone = [w \in Workers |-> 0]
  /\ late = {}
  /\ faults = 0
  /\ slow = TooSlow(0)

-----------------------------------------------------------------------------
(* The server.  A request is an operation of an instance; lag is the time  *)
(* from the server's reading of the clock to its commit.                   *)

Op(m) == CASE m.step = "start" -> "start"
           [] m.step \in {"report", "audit"} -> "call"
           [] m.step = "end" -> IF m.failed THEN "failed" ELSE "succeeded"

MainRequest(w) == [op |-> Op(main[w]), by |-> w]
BeatRequest(w) == [op |-> "renew", by |-> w]
Request == [op : {"start", "call", "renew", "succeeded", "failed"}, by : Workers]

\* What a thread leaves to the server when it stops waiting: an attempt not handled yet.
\* Of an ended job none is kept: nothing changes it any more.  Of more than MaxLate, the
\* others never arrive.
Pending(S) ==
  IF row.status \in Terminal THEN {{}}
  ELSE IF Cardinality(S) <= MaxLate THEN {S}
  ELSE {T \in SUBSET S : Cardinality(T) = MaxLate}
MainLeft(w) ==
  IF main[w].step \in Asking /\ main[w].answer = "none" THEN {MainRequest(w)} ELSE {}
BeatLeft(w) ==
  IF beat[w].step = "renew" /\ beat[w].answer = "none" THEN {BeatRequest(w)} ELSE {}

Expired == row.status = "running" /\ row.age > LeaseTTL
Holds(w) == row.status = "running" /\ row.owner = w

\* Not the code: an ended job answers any Finalize.
FaultyAccepts(r) ==
  \/ Holds(r.by)
  \/ r.op \in {"start", "call"} /\ row.status = "queued"
  \/ r.op \in Terminal /\ row.status \in Terminal

\* A start and a tool call claim a queued job or renew the lease.  A Finalize of an ended
\* job with the status it has is answered without a look at who asks.
Accepts(r) ==
  \/ Holds(r.by)
  \/ r.op \in {"start", "call"} /\ row.status = "queued"
  \/ r.op \in Terminal /\ row.status = r.op

\* Not the code: a renewal leaves the expiry as it is.
FaultyHandled(r, lag) ==
  /\ row' = IF r.op \in Terminal
            THEN IF Holds(r.by) THEN [status |-> r.op, owner |-> None, age |-> 0] ELSE row
            ELSE [row EXCEPT !.status = "running", !.owner = r.by]
  /\ alone' = [alone EXCEPT ![r.by] = IF r.op \in Terminal THEN @ ELSE 0]

\* A start, a call and a renewal write the time they were given.
Handled(r, lag) ==
  /\ row' = IF r.op \in Terminal
            THEN IF Holds(r.by) THEN [status |-> r.op, owner |-> None, age |-> 0] ELSE row
            ELSE [row EXCEPT !.status = "running", !.owner = r.by, !.age = lag]
  /\ alone' = [alone EXCEPT ![r.by] = IF r.op \in Terminal THEN @ ELSE 0]

\* An operator cancels the job in the name of its holder.
Cancel ==
  /\ row.status = "running"
  /\ row' = [row EXCEPT !.status = "canceled", !.owner = None, !.age = 0]
  /\ late' = {}
  /\ UNCHANGED <<main, beat, lost, believed, alone, faults, slow>>

-----------------------------------------------------------------------------
(* The thread of the job.                                                  *)

\* The daemon lists queued jobs, which reclaims an expired lease, and chooses a graph.
List(w) ==
  /\ main[w].step = "idle"
  /\ row.status = "queued" \/ Expired
  /\ row' = [row EXCEPT !.status = "queued", !.owner = None, !.age = 0]
  /\ main' = [main EXCEPT ![w].step = "listed"]
  /\ UNCHANGED <<beat, lost, believed, alone, late, faults, slow>>

Start(w) ==
  /\ main[w].step = "listed"
  /\ main' = [main EXCEPT ![w].step = "start"]
  /\ UNCHANGED <<row, beat, lost, believed, alone, late, faults, slow>>

Asked(m, step) == [m EXCEPT !.step = step, !.try = 1, !.age = 0, !.answer = "none"]

\* The guard before a node, of which a graph has any number: nothing more is started after
\* an error or the loss of the lease.  At the end finalize_job looks at the loss only.
NodeStarts(w) ==
  /\ main[w].step = "between"
  /\ ~main[w].failed /\ ~lost[w]
  /\ main' = [main EXCEPT ![w].step = "node"]
  /\ UNCHANGED <<row, beat, lost, believed, alone, late, faults, slow>>

\* A node reports its tool call, or fails before.
NodeEnds(w) ==
  /\ main[w].step = "node"
  /\ \/ main' = [main EXCEPT ![w] = Asked(@, "report")]
     \/ main' = [main EXCEPT ![w] = [@ EXCEPT !.step = "between", !.failed = TRUE]]
  /\ UNCHANGED <<row, beat, lost, believed, alone, late, faults, slow>>

\* The runtime shuts down.  A heartbeat under way is left to itself.
Stop(w) ==
  /\ main' = [main EXCEPT ![w] = Idle]
  /\ beat' = [beat EXCEPT ![w] = Off]
  /\ lost' = [lost EXCEPT ![w] = FALSE]

GraphEnds(w) ==
  /\ main[w].step = "between"
  /\ \/ lost[w] /\ Stop(w) /\ late' \in Pending(late \cup BeatLeft(w))
     \/ /\ ~lost[w]
        /\ main' = [main EXCEPT ![w] = Asked(@, "audit")]
        /\ UNCHANGED <<beat, lost, late>>
  /\ alone' = [alone EXCEPT ![w] = 0]
  /\ UNCHANGED <<row, believed, faults, slow>>

\* What follows an answer ("ok", "refused") or the last attempt without one ("error").
\* A refused start counts as a claim, a refused report as recorded.  Without a graph
\* the job is finalized at once.
Goes(w, result) ==
  LET m == main[w] IN
  \/ /\ m.step = "start" /\ result # "error"
     /\ \/ main' = [main EXCEPT ![w] = Asked(m, "between")]
        \/ main' = [main EXCEPT ![w] = [Asked(m, "end") EXCEPT !.failed = TRUE,
                                                             !.fallback = TRUE]]
     /\ beat' = [beat EXCEPT ![w] = Asleep]
     /\ UNCHANGED <<lost, believed>>
  \/ /\ m.step = "start" /\ result = "error"
     /\ main' = [main EXCEPT ![w] = Idle]
     /\ UNCHANGED <<beat, lost, believed>>
  \/ /\ m.step = "report"
     /\ main' = [main EXCEPT ![w] = [Asked(m, "between") EXCEPT !.failed = (result = "error")]]
     /\ UNCHANGED <<beat, lost, believed>>
  \/ /\ m.step = "audit"
     /\ main' = [main EXCEPT ![w] = Asked(m, "end")]
     /\ UNCHANGED <<beat, lost, believed>>
  \/ /\ m.step = "end" /\ (result = "ok" \/ m.fallback)
     /\ Stop(w)
     /\ believed' = [believed EXCEPT ![w] = (result = "ok" /\ ~m.failed)]
  \/ /\ m.step = "end" /\ result # "ok" /\ ~m.fallback
     /\ main' = [main EXCEPT ![w] = [Asked(m, "audit") EXCEPT !.failed = TRUE, !.fallback = TRUE]]
     /\ UNCHANGED <<beat, lost, believed>>
  \* The error was a timeout, and the job is read.
  \/ /\ m.step = "end" /\ result = "error" /\ ~m.fallback /\ row.status = "succeeded"
     /\ Stop(w)
     /\ believed' = [believed EXCEPT ![w] = TRUE]

\* A request reaches the server and is decided.  It may also refuse a diagnosis.
Served(w) ==
  /\ main[w].step \in Asking /\ main[w].answer = "none"
  /\ LET r == MainRequest(w) IN
     \/ /\ Accepts(r)
        /\ \E lag \in 0..main[w].age : Handled(r, lag)
        /\ main' = [main EXCEPT ![w].answer = "ok"]
     \/ /\ ~Accepts(r) \/ (r.op = "succeeded" /\ Holds(w))
        /\ main' = [main EXCEPT ![w].answer = "refused"]
        /\ UNCHANGED <<row, alone>>
  /\ UNCHANGED <<beat, lost, believed, late, faults, slow>>

\* The answer arrives.
Answered(w) ==
  /\ main[w].step \in Asking /\ main[w].answer \in {"ok", "refused"}
  /\ Goes(w, main[w].answer)
  /\ late' \in Pending(late \cup (IF main'[w].step = "idle" THEN BeatLeft(w) ELSE {}))
  /\ UNCHANGED <<row, alone, faults, slow>>

\* A fault is a request some of whose attempts fail.
FaultCounted(try) ==
  IF try = 1 THEN faults < MaxFaults /\ faults' = faults + 1 ELSE UNCHANGED faults

\* An attempt is given up, handled or not, and the thread sleeps; then comes the next.
GaveUp(t) == [t EXCEPT !.age = 0, !.answer = "lost"]
Again(t) == [t EXCEPT !.try = @ + 1, !.age = 0, !.answer = "none"]

Unanswered(w) ==
  /\ main[w].step \in Asking /\ main[w].answer # "lost"
  /\ FaultCounted(main[w].try)
  /\ \/ /\ main[w].try < MaxAttempts
        /\ main' = [main EXCEPT ![w] = GaveUp(@)]
        /\ UNCHANGED <<beat, lost, believed>>
     \/ /\ main[w].try = MaxAttempts
        /\ Goes(w, "error")
  /\ late' \in Pending(late \cup MainLeft(w)
                   \cup (IF main'[w].step = "idle" THEN BeatLeft(w) ELSE {}))
  /\ UNCHANGED <<row, alone, slow>>

Retried(w) ==
  /\ main[w].step \in Asking /\ main[w].answer = "lost"
  /\ main' = [main EXCEPT ![w] = Again(@)]
  /\ UNCHANGED <<row, beat, lost, believed, alone, late, faults, slow>>

-----------------------------------------------------------------------------
(* The heartbeat thread.                                                   *)

BeatStarts(w) ==
  /\ beat[w].step = "sleep" /\ beat[w].left = 0
  /\ beat' = [beat EXCEPT ![w] = [Off EXCEPT !.step = "renew"]]
  /\ UNCHANGED <<row, main, lost, believed, alone, late, faults, slow>>

\* Not the code: a failed renewal only ends the thread.
FaultyBeatFails(w) ==
  /\ beat' = [beat EXCEPT ![w] = Off]
  /\ UNCHANGED lost

\* Any error ends the thread and marks the lease as lost.
BeatFails(w) ==
  /\ beat' = [beat EXCEPT ![w] = Off]
  /\ lost' = [lost EXCEPT ![w] = TRUE]

BeatServed(w) ==
  /\ beat[w].step = "renew" /\ beat[w].answer = "none"
  /\ LET r == BeatRequest(w) IN
     \/ /\ Accepts(r)
        /\ \E lag \in 0..beat[w].age : Handled(r, lag)
        /\ beat' = [beat EXCEPT ![w].answer = "ok"]
     \/ /\ ~Accepts(r)
        /\ beat' = [beat EXCEPT ![w].answer = "refused"]
        /\ UNCHANGED <<row, alone>>
  /\ UNCHANGED <<main, lost, believed, late, faults, slow>>

BeatAnswered(w) ==
  /\ beat[w].step = "renew"
  /\ \/ /\ beat[w].answer = "ok"
        /\ beat' = [beat EXCEPT ![w] = Asleep]
        /\ UNCHANGED lost
     \/ beat[w].answer = "refused" /\ BeatFails(w)
  /\ UNCHANGED <<row, main, believed, alone, late, faults, slow>>

BeatUnanswered(w) ==
  /\ beat[w].step = "renew" /\ beat[w].answer # "lost"
  /\ FaultCounted(beat[w].try)
  /\ late' \in Pending(late \cup BeatLeft(w))
  /\ \/ /\ beat[w].try < MaxAttempts
        /\ beat' = [beat EXCEPT ![w] = GaveUp(@)]
        /\ UNCHANGED lost
     \/ beat[w].try = MaxAttempts /\ BeatFails(w)
  /\ UNCHANGED <<row, main, believed, alone, slow>>

BeatRetried(w) ==
  /\ beat[w].step = "renew" /\ beat[w].answer = "lost"
  /\ beat' = [beat EXCEPT ![w] = Again(@)]
  /\ UNCHANGED <<row, main, lost, believed, alone, late, faults, slow>>

-----------------------------------------------------------------------------
\* The process dies and is restarted; what it has sent may still be handled.
Crash(w) ==
  /\ main[w].step # "idle"
  /\ faults < MaxFaults
  /\ faults' = faults + 1
  /\ Stop(w)
  /\ late' \in Pending(late \cup MainLeft(w) \cup BeatLeft(w))
  /\ alone' = [alone EXCEPT ![w] = 0]
  /\ UNCHANGED <<row, believed, slow>>

\* A late request is accepted.  One that is refused, or never arrives, changes nothing.
Late(r) ==
  /\ Accepts(r)
  /\ \E lag \in 0..MaxWait : Handled(r, lag) /\ slow' = (slow \/ TooSlow(lag))
  /\ late' = late \ {r}
  /\ UNCHANGED <<main, beat, lost, believed, faults>>

\* A worker without the lease has this long until its heartbeat tells it: it may lose it
\* while the answer to a renewal is under way.
LossDelay ==
  MaxWait + Heartbeat + MaxAttempts * MaxWait + (MaxAttempts - 1) * RetryDelay

Prompt(w) ==
  /\ main[w].step # "between"
  /\ main[w].step \in Asking => main[w].age < Limit(main[w])
  /\ beat[w].step = "sleep" => beat[w].left > 0
  /\ beat[w].step = "renew" => beat[w].age < Limit(beat[w])

Tick ==
  /\ \A w \in Workers : Prompt(w)
  /\ row' = [row EXCEPT !.age = IF row.status = "running" /\ @ <= LeaseTTL THEN @ + 1 ELSE @]
  /\ main' = [w \in Workers |->
       IF main[w].step \in Asking THEN [main[w] EXCEPT !.age = @ + 1] ELSE main[w]]
  /\ beat' = [w \in Workers |->
       CASE beat[w].step = "sleep" -> [beat[w] EXCEPT !.left = @ - 1]
         [] beat[w].step = "renew" -> [beat[w] EXCEPT !.age = @ + 1]
         [] OTHER -> beat[w]]
  /\ alone' = [w \in Workers |->
       IF ~InGraph(w) \/ Holds(w) THEN 0
       ELSE IF alone[w] > LossDelay THEN alone[w] ELSE alone[w] + 1]
  /\ slow' = (slow \/ \E w \in Workers : TooSlow(main'[w].age) \/ TooSlow(beat'[w].age))
  /\ late' \in Pending(late)
  /\ UNCHANGED <<lost, believed, faults>>

-----------------------------------------------------------------------------
Runs(w) ==
  \/ List(w) \/ Start(w) \/ NodeStarts(w) \/ NodeEnds(w) \/ GraphEnds(w)
  \/ Served(w) \/ Answered(w) \/ Retried(w)
Beats(w) == BeatStarts(w) \/ BeatServed(w) \/ BeatAnswered(w) \/ BeatRetried(w)
Fails(w) == Unanswered(w) \/ BeatUnanswered(w) \/ Crash(w)

Next ==
  \/ Cancel \/ Tick
  \/ \E w \in Workers : Runs(w) \/ Beats(w) \/ Fails(w)
  \/ \E r \in late : Late(r)

Spec == Init /\ [][Next]_vars

-----------------------------------------------------------------------------
(* Properties.                                                             *)

\* The row, both threads of every worker and the late requests keep their shape.
TypeOK ==
  /\ row \in [status : {"queued", "running"} \cup Terminal, owner : Workers \cup {None},
              age : Nat]
  /\ row.owner # None <=> row.status = "running"
  /\ main \in [Workers -> Main] /\ beat \in [Workers -> Beat]
  /\ lost \in [Workers -> BOOLEAN]
  /\ believed \in [Workers -> BOOLEAN]
  /\ alone \in [Workers -> 0..LossDelay + 1]
  /\ late \subseteq Request
  /\ faults \in 0..MaxFaults
  /\ slow \in BOOLEAN

\* While every request is answered, a worker loses its lease to the expiry only if a request
\* took a third of what the lease leaves beyond a heartbeat, and more.  Three count: the
\* answer to a renewal is under way, the next renewal is, and a tool call that commits
\* between them writes the time at which it was read.
PromptWorkerKeepsLease == Expired => faults > 0 \/ slow

\* Two workers on one job: one that never had the lease, or lost it, starts no node of the
\* graph once the answer under way and the next heartbeat have failed, however its requests fare.
SplitBrainIsBounded ==
  [][\A w \in Workers : NodeStarts(w) /\ ~Holds(w) => alone[w] <= LossDelay]_vars

\* A worker that thinks it finalized a job as succeeded is right, although answers are lost,
\* the finalize is repeated, and another worker may have ended the job.
SuccessIsReal ==
  \A w \in Workers : believed[w] => row.status = "succeeded"

\* A worker sets out to run the graph of a job only if its claim was accepted.
WorksOnlyIfClaimed ==
  [][\A w \in Workers : ~Working(w) /\ Working(w)' => main[w].answer = "ok"]_vars
=============================================================================
