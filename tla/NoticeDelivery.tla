---------------------------- MODULE NoticeDelivery ----------------------------
(***************************************************************************)
(* The outbox of notices: the rows of table notice_deliveries, the workers *)
(* that claim, send and mark them, and the operators that replay or cancel *)
(* them (internal/apiserver/pkg/notice/worker.go and                       *)
(* internal/apiserver/store/notice_delivery.go).                           *)
(*                                                                         *)
(* A worker claims a batch by writing its id and the time into the rows,   *)
(* then takes them one by one: it reads the row again, sends the webhook   *)
(* and writes the outcome where the row is still pending and still its own.*)
(* A claim older than LockTimeout may be taken over by any worker: a worker*)
(* that is slow works on beside the one that replaced it.                  *)
(*                                                                         *)
(* Times are kept relative to the clock, which has no bound: `due' is      *)
(* next_retry_at - now and `age' is now - locked_at, both up to the point  *)
(* where they decide nothing more.                                         *)
(***************************************************************************)
EXTENDS Integers, FiniteSets

CONSTANTS
  MaxDeliveries, \* bound on the rows ever dispatched
  Workers,       \* WorkerIDs: each names one process at a time
  Operators,     \* concurrent replay and cancel requests, one slot each
  None,          \* SQL NULL
  LockTimeout,   \* WorkerOptions.LockTimeout, in ticks
  BatchSize,     \* WorkerOptions.BatchSize
  MaxAttempts,   \* max_attempts of the rows
  BaseBackoff, CapBackoff, Jitter, \* of the retry delay, in ticks
  Streams,       \* TRUE when redis announces delivery ids to the workers
  MaxLag,        \* bound on the ticks between reading the clock and using it
  MaxSend,       \* bound on the ticks a worker spends on one delivery
  MaxFaults      \* bound on the crashes and failed calls of workers

Deliveries == 1..MaxDeliveries   \* in the order of created_at and id

ASSUME DeliveryAssumption ==
  /\ MaxDeliveries \in Nat /\ BatchSize \in Nat \ {0} /\ MaxAttempts \in Nat \ {0}
  /\ None \notin Workers \cup Deliveries
  /\ Streams \in BOOLEAN
ASSUME TimeAssumption ==
  /\ LockTimeout \in Nat /\ BaseBackoff \in Nat /\ CapBackoff \in Nat /\ Jitter \in Nat
  /\ MaxLag \in Nat /\ MaxSend \in Nat \ {0} /\ MaxFaults \in Nat

Settled == {"succeeded", "canceled"}
Status == {"absent", "pending", "failed"} \cup Settled

Expired == LockTimeout + MaxLag + 1   \* an age that no claim's clock can doubt

DeliveryRow == [status: Status, attempts: 0..MaxAttempts, due: Int,
                lockedBy: Workers \cup {None}, age: 0..Expired]

Answers == {"accepted", "retryable", "rejected"}

\* What a worker is doing: it read the clock and a batch of candidates, holds a
\* claimed batch, has read one row again, or has an answer to write.
Steps == {"idle", "selected", "batch", "checked", "answered"}
WorkerState == [step: Steps, todo: SUBSET Deliveries, current: Deliveries \cup {None},
                tries: 0..MaxAttempts, answer: Answers \cup {None}, spent: Nat]

Worker(step, todo) == [step |-> step, todo |-> todo, current |-> None, tries |-> 0,
                       answer |-> None, spent |-> 0]
IdleWorker == Worker("idle", {})

NoRequest == [op |-> "none"]
Request == {NoRequest} \cup [op: {"replay", "cancel"}, delivery: Deliveries]

VARIABLES
  row,      \* table notice_deliveries
  worker,   \* the worker processes
  request,  \* per slot, the operator's transaction, after its first read
  accepted, \* how often the endpoint has accepted a delivery, heard or not, up to 2
  doubtful, \* not in the code: deliveries that were replayed, whose lock ran out, or that
            \* were accepted without an answer that says so
  faults    \* crashes and failed calls so far

vars == <<row, worker, request, accepted, doubtful, faults>>

-----------------------------------------------------------------------------

Init ==
  /\ row = [d \in Deliveries |-> [status |-> "absent", attempts |-> 0, due |-> 0,
                                  lockedBy |-> None, age |-> 0]]
  /\ worker = [w \in Workers |-> IdleWorker]
  /\ request = [o \in Operators |-> NoRequest]
  /\ accepted = [d \in Deliveries |-> 0]
  /\ doubtful = {}
  /\ faults = 0

\* DispatchBestEffort: one row per matching channel, due at once.
Dispatch(d) ==
  /\ row[d].status = "absent"
  /\ \A e \in Deliveries : e < d => row[e].status # "absent"
  /\ row' = [row EXCEPT ![d].status = "pending"]
  /\ UNCHANGED <<worker, request, accepted, doubtful, faults>>

-----------------------------------------------------------------------------
(* The conditional updates of the store.                                   *)

\* (The operators named Faulty... are the program with one fault each.  No
\* action uses them: they show that the properties below can fail.)

FaultyClaimableIgnoresLock(d, lag) ==
  row[d].status = "pending" /\ row[d].due + lag <= 0

FaultyNoTakeOver(d, lag) ==
  row[d].status = "pending" /\ row[d].due + lag <= 0 /\ row[d].lockedBy = None

\* The locks that another worker may take over.
RunOut == {d \in Deliveries : row[d].age > LockTimeout}

\* As a worker sees it whose clock was read lag ticks ago.
Claimable(d, lag) ==
  /\ row[d].status = "pending" /\ row[d].due + lag <= 0
  /\ row[d].lockedBy = None \/ row[d].age > LockTimeout + lag

FaultyHeldAlways(w, d) == row[d].status # "absent"

Held(w, d) == row[d].status = "pending" /\ row[d].lockedBy = w

\* The row after a mark: attempts + 1 and unlocked.
Marked(r, status, due) ==
  [status |-> status, attempts |-> r.attempts + 1, due |-> due,
   lockedBy |-> None, age |-> 0]

\* The delay doubles from BaseBackoff with every attempt, up to CapBackoff.
RetryDelays(attempt) ==
  LET doubled == BaseBackoff * 2^(attempt - 1)
      delay == IF doubled > CapBackoff THEN CapBackoff ELSE doubled
  IN delay..(delay + Jitter)

-----------------------------------------------------------------------------
(* The worker.                                                             *)

Move(w, s) == worker' = [worker EXCEPT ![w] = s]

\* The first BatchSize candidates in the order of creation.
Candidates(S) ==
  LET C == {d \in Deliveries : Claimable(d, 0)} IN
  /\ S # {} /\ S \subseteq C
  /\ \A d \in S, e \in C \ S : d < e
  /\ Cardinality(S) = BatchSize \/ (Cardinality(S) < BatchSize /\ S = C)

\* RunOnce takes the announced ids of the stream, or else the batch it selects.
\* An announced id may be of any row: it may be late, or come twice.
Select(w) ==
  /\ worker[w].step = "idle"
  /\ \E S \in SUBSET Deliveries :
       /\ \/ Candidates(S)
          \/ Streams /\ \E d \in Deliveries : S = {d} /\ row[d].status # "absent"
       /\ Move(w, Worker("selected", S))
  /\ UNCHANGED <<row, request, accepted, doubtful, faults>>

\* What is left of a batch: nothing ends the round.
Batch(rest) ==
  IF rest = {} THEN IdleWorker ELSE Worker("batch", rest)

\* Each candidate is claimed where it still qualifies, all in one transaction.
Claim(w) ==
  LET lag == worker[w].spent
      S == {d \in worker[w].todo : Claimable(d, lag)} IN
  /\ worker[w].step = "selected"
  /\ row' = [d \in Deliveries |->
               IF d \in S THEN [row[d] EXCEPT !.lockedBy = w, !.age = lag] ELSE row[d]]
  /\ Move(w, Batch(S))
  /\ doubtful' = doubtful \cup RunOut'
  /\ UNCHANGED <<request, accepted, faults>>

\* GetClaimedPending: a row that was canceled, replayed or taken over is skipped.
Check(w) ==
  /\ worker[w].step = "batch"
  /\ \E d \in worker[w].todo :
       /\ \A e \in worker[w].todo : d <= e
       /\ IF Held(w, d)
          THEN Move(w, [worker[w] EXCEPT !.step = "checked", !.current = d,
                                         !.tries = row[d].attempts])
          ELSE Move(w, Batch(worker[w].todo \ {d}))
  /\ UNCHANGED <<row, request, accepted, doubtful, faults>>

\* The send configuration is missing, disabled or signed with a changed secret:
\* the delivery fails without being sent.
CannotSend(w) ==
  /\ worker[w].step = "checked"
  /\ Move(w, [worker[w] EXCEPT !.step = "answered", !.answer = "rejected"])
  /\ UNCHANGED <<row, request, accepted, doubtful, faults>>

\* The webhook, once the rate limiter let it pass: 2xx, an answer or error to
\* retry (429, 5xx, a timeout), or any other answer.  Only 2xx says that the endpoint
\* accepted the delivery; it may have done so whatever the worker hears.
Send(w) ==
  LET d == worker[w].current IN
  /\ worker[w].step = "checked"
  /\ \E a \in Answers, taken \in BOOLEAN :
       /\ a = "accepted" => taken
       /\ Move(w, [worker[w] EXCEPT !.step = "answered", !.answer = a])
       /\ accepted' = IF taken /\ accepted[d] < 2 THEN [accepted EXCEPT ![d] = @ + 1]
                      ELSE accepted
       /\ doubtful' = IF taken /\ a # "accepted" THEN doubtful \cup {d} ELSE doubtful
  /\ UNCHANGED <<row, request, faults>>

FaultyOutcome(w, r) ==
  LET attempt == worker[w].tries + 1 IN
  IF worker[w].answer = "retryable"
  THEN IF attempt <= MaxAttempts
       THEN {Marked(r, "pending", t - l) : t \in RetryDelays(attempt), l \in 0..MaxLag}
       ELSE {Marked(r, "failed", 0)}
  ELSE {Marked(r, "succeeded", 0)}

\* MarkSucceeded, MarkRetry or MarkFailed.  The attempts left are those of the
\* row as it was read before the send.
Outcome(w, r) ==
  LET attempt == worker[w].tries + 1 IN
  CASE worker[w].answer = "accepted" -> {Marked(r, "succeeded", 0)}
    [] worker[w].answer = "retryable" /\ attempt < MaxAttempts ->
         {Marked(r, "pending", t - l) : t \in RetryDelays(attempt), l \in 0..MaxLag}
    [] OTHER -> {Marked(r, "failed", 0)}

\* A row that is not pending and the worker's own any more is left alone.
Mark(w) ==
  LET d == worker[w].current IN
  /\ worker[w].step = "answered"
  /\ IF Held(w, d)
     THEN \E r \in Outcome(w, row[d]) : row' = [row EXCEPT ![d] = r]
     ELSE row' = row
  /\ Move(w, Batch(worker[w].todo \ {d}))
  /\ UNCHANGED <<request, accepted, doubtful, faults>>

\* A read, the rate limiter or a mark fails: the row stays claimed as it is.
Abandon(w) ==
  /\ worker[w].step \in {"batch", "checked", "answered"}
  /\ faults < MaxFaults /\ faults' = faults + 1
  /\ \E d \in worker[w].todo :
       /\ \A e \in worker[w].todo : d <= e
       /\ Move(w, Batch(worker[w].todo \ {d}))
  /\ UNCHANGED <<row, request, accepted, doubtful>>

\* The process dies, or its claim fails.
Crash(w) ==
  /\ worker[w].step # "idle"
  /\ faults < MaxFaults /\ faults' = faults + 1
  /\ Move(w, IdleWorker)
  /\ UNCHANGED <<row, request, accepted, doubtful>>

-----------------------------------------------------------------------------
(* Replay and cancel: the status is read, without a lock, and if it allows *)
(* the operation the row is updated whatever has become of it.             *)

OperateBegin(o, op, d) ==
  /\ request[o] = NoRequest
  /\ row[d].status \in {"pending", "failed"}
  /\ request' = [request EXCEPT ![o] = [op |-> op, delivery |-> d]]
  /\ UNCHANGED <<row, worker, accepted, doubtful, faults>>

FaultyReplayKeepsLock(r, op, due) ==
  [r EXCEPT !.status = IF op = "replay" THEN "pending" ELSE "canceled",
            !.attempts = IF op = "replay" THEN 0 ELSE @, !.due = due]

Operated(r, op, due) ==
  [status |-> IF op = "replay" THEN "pending" ELSE "canceled",
   attempts |-> IF op = "replay" THEN 0 ELSE r.attempts,
   due |-> due, lockedBy |-> None, age |-> 0]

OperateCommit(o) ==
  LET d == request[o].delivery IN
  /\ request[o] # NoRequest
  /\ \E l \in 0..MaxLag :
       row' = [row EXCEPT ![d] = Operated(row[d], request[o].op, 0 - l)]
  /\ request' = [request EXCEPT ![o] = NoRequest]
  /\ doubtful' = IF request[o].op = "replay" THEN doubtful \cup {d} ELSE doubtful
  /\ UNCHANGED <<worker, accepted, faults>>

OperateAbort(o) ==
  /\ request[o] # NoRequest
  /\ request' = [request EXCEPT ![o] = NoRequest]
  /\ UNCHANGED <<row, worker, accepted, doubtful, faults>>

-----------------------------------------------------------------------------

\* A worker spends at most MaxLag ticks from its clock to its claim, and at most
\* MaxSend ticks on each delivery of the batch.
Patience(w) ==
  CASE worker[w].step = "idle" -> TRUE
    [] worker[w].step = "selected" -> worker[w].spent < MaxLag
    [] OTHER -> worker[w].spent < MaxSend

Tick ==
  /\ \A w \in Workers : Patience(w)
  /\ row' = [d \in Deliveries |->
       [row[d] EXCEPT !.due = IF @ > 0 - MaxLag THEN @ - 1 ELSE @,
                      !.age = IF row[d].lockedBy # None /\ @ < Expired THEN @ + 1 ELSE @]]
  /\ worker' = [w \in Workers |->
       IF worker[w].step = "idle" THEN worker[w] ELSE [worker[w] EXCEPT !.spent = @ + 1]]
  /\ doubtful' = doubtful \cup RunOut'
  /\ UNCHANGED <<request, accepted, faults>>

Work(w) == Select(w) \/ Claim(w) \/ Check(w) \/ CannotSend(w) \/ Send(w) \/ Mark(w)

Operate(o) ==
  \/ \E op \in {"replay", "cancel"}, d \in Deliveries : OperateBegin(o, op, d)
  \/ OperateCommit(o)
  \/ OperateAbort(o)

Next ==
  \/ Tick
  \/ \E d \in Deliveries : Dispatch(d)
  \/ \E w \in Workers : Work(w) \/ Abandon(w) \/ Crash(w)
  \/ \E o \in Operators : Operate(o)

Spec == Init /\ [][Next]_vars

\* Time passes, and a worker process keeps running its loop (Run polls on a ticker
\* and every call it makes has a timeout).
Fairness == WF_vars(Tick) /\ \A w \in Workers : WF_vars(Work(w))

LiveSpec == Spec /\ Fairness

-----------------------------------------------------------------------------
(* Invariants.                                                             *)

\* The rows, the workers and the requests have the shape the code gives them.
TypeOK ==
  /\ row \in [Deliveries -> DeliveryRow]
  /\ worker \in [Workers -> WorkerState]
  /\ request \in [Operators -> Request]
  /\ accepted \in [Deliveries -> 0..2]
  /\ doubtful \subseteq Deliveries
  /\ faults \in 0..MaxFaults

\* Only a pending row is locked: no mark, replay or cancel, applied late or to a
\* row of another worker, leaves a lock on a row that is done.
LockedIsPending ==
  \A d \in Deliveries :
    /\ row[d].lockedBy # None => row[d].status = "pending"
    /\ row[d].lockedBy = None => row[d].age = 0

\* A pending delivery has an attempt left, although a worker decides on a retry
\* from attempts that it read before the send.
AttemptLeft ==
  \A d \in Deliveries : row[d].status = "pending" => row[d].attempts < MaxAttempts

\* A delivery that is marked succeeded was accepted by the endpoint.
SucceededIsAccepted ==
  \A d \in Deliveries : row[d].status = "succeeded" => accepted[d] > 0

\* The endpoint accepts a delivery twice only if an operator replayed it, a lock of it
\* ran out (its worker was slow, died or failed in a call), or the worker did not hear
\* that it was accepted; however several workers select, claim, retry and mark it.
AcceptedOnceUnlessDoubtful ==
  \A d \in Deliveries : accepted[d] > 1 => d \in doubtful

-----------------------------------------------------------------------------
(* Action and liveness properties.                                         *)

\* A lock passes from its holder by the holder's own mark, by a replay or cancel,
\* or to a worker that found it older than LockTimeout.
LockNotStolen ==
  [][\A d \in Deliveries, w \in Workers :
       (row[d].lockedBy = w /\ row'[d].lockedBy # w) =>
         \/ worker[w].step = "answered" /\ worker[w].current = d
         \/ \E o \in Operators : /\ request[o] # NoRequest /\ request[o].delivery = d
                                 /\ request'[o] = NoRequest
         \/ row[d].age > LockTimeout]_vars

\* A delivery that succeeded or was canceled is final, whatever late marks and
\* claims come, unless an operator's request read it before it was settled.
SettledUnreadIsFinal ==
  [][\A d \in Deliveries :
       /\ row[d].status \in Settled
       /\ \A o \in Operators : request[o] = NoRequest \/ request[o].delivery # d
       => row'[d].status = row[d].status]_vars

\* Every dispatched delivery is settled or fails for good, whatever the endpoint
\* answers and although workers may crash or lose their claims.
EventuallyDone ==
  \A d \in Deliveries : row[d].status = "pending" ~> row[d].status # "pending"

-----------------------------------------------------------------------------
\* The outbox as its users see it (Outbox): the rows without their claims' clocks, and
\* of the workers nothing but who holds a row.
Promised == INSTANCE Outbox WITH
  status <- [d \in Deliveries |-> row[d].status],
  tries <- [d \in Deliveries |-> row[d].attempts],
  owner <- [d \in Deliveries |-> row[d].lockedBy],
  taken <- {d \in Deliveries : accepted[d] > 0},
  asks <- [o \in Operators |-> IF request[o] = NoRequest THEN None ELSE request[o].delivery]

\* Batches, expired claims, crashes, abandoned calls and late answers are all within
\* what the outbox promises: only the holder of a row ends an attempt, with an outcome
\* that is true and an attempt left if it is to be tried again, and only requests that
\* read a row before it was settled take it out of its end.
ImplementsOutbox == Promised!Spec
=============================================================================
