------------------------- MODULE NoticeDeliveryProofs -------------------------
(***************************************************************************)
(* Theorems about NoticeDelivery, for any number of deliveries, workers    *)
(* and operators and any time limits.  The inductive invariant adds to the *)
(* properties what each worker knows of the row it works on: as long as it *)
(* still holds the row, the attempts it has read are those of the row, and *)
(* an answer it has yet to write was really given.                         *)
(***************************************************************************)
EXTENDS NoticeDelivery, TLAPS

Busy == {"checked", "answered"}

WorkerOK(w) ==
  /\ worker[w].step = "selected" => worker[w].spent <= MaxLag
  /\ worker[w].step \in Busy =>
       /\ worker[w].current \in Deliveries
       /\ Held(w, worker[w].current) => row[worker[w].current].attempts = worker[w].tries
  /\ worker[w].step = "answered" =>
       /\ worker[w].answer \in Answers
       /\ worker[w].answer = "accepted" => accepted[worker[w].current] > 0

AbsentIsNew == \A d \in Deliveries : row[d].status = "absent" => row[d].attempts = 0

NoticeInv ==
  /\ TypeOK
  /\ LockedIsPending
  /\ AttemptLeft
  /\ SucceededIsAccepted
  /\ AbsentIsNew
  /\ \A w \in Workers : WorkerOK(w)

\* What the invariant says of the table alone.
RowsOK ==
  /\ row \in [Deliveries -> DeliveryRow]
  /\ LockedIsPending
  /\ AttemptLeft
  /\ SucceededIsAccepted
  /\ AbsentIsNew

-----------------------------------------------------------------------------
(* Lemmas.                                                                 *)

LEMMA Parts ==
  NoticeInv <=> /\ RowsOK
                /\ worker \in [Workers -> WorkerState]
                /\ request \in [Operators -> Request]
                /\ accepted \in [Deliveries -> 0..2]
                /\ doubtful \subseteq Deliveries
                /\ faults \in 0..MaxFaults
                /\ \A w \in Workers : WorkerOK(w)
BY DEF NoticeInv, RowsOK, TypeOK

\* A worker that starts over, or goes on with the rest of its batch, is typed.
LEMMA TypeBatch ==
  ASSUME NEW S \in SUBSET Deliveries
  PROVE  Batch(S) \in WorkerState /\ Batch(S).step \in {"idle", "batch"}
BY DeliveryAssumption DEF Batch, IdleWorker, Worker, WorkerState, Steps

\* What a worker knows stays true while its state is the same and its row, if it
\* still holds it, has the same attempts.
LEMMA Knows ==
  ASSUME NEW w \in Workers, WorkerOK(w),
         worker'[w].step = worker[w].step, worker'[w].current = worker[w].current,
         worker'[w].tries = worker[w].tries, worker'[w].answer = worker[w].answer,
         worker'[w].step = "selected" => worker'[w].spent <= MaxLag,
         \A d \in Deliveries : accepted[d] > 0 => accepted'[d] > 0,
         \A d \in Deliveries :
           (row'[d].status = "pending" /\ row'[d].lockedBy = w) =>
             Held(w, d) /\ row'[d].attempts = row[d].attempts
  PROVE  WorkerOK(w)'
BY DEF WorkerOK, Held, Busy

\* A worker between two deliveries claims to know nothing.
LEMMA KnowsNothing ==
  ASSUME NEW w \in Workers, worker'[w].step \in {"idle", "batch"}
  PROVE  WorkerOK(w)'
BY DEF WorkerOK, Busy

LEMMA RowsUnchanged ==
  ASSUME RowsOK, row' = row,
         \A d \in Deliveries : accepted[d] > 0 => accepted'[d] > 0
  PROVE  RowsOK'
BY DEF RowsOK, LockedIsPending, AttemptLeft, SucceededIsAccepted, AbsentIsNew

\* A step that moves one worker to a state of its own and changes no row.
LEMMA MoveOnly ==
  ASSUME NoticeInv, NEW w \in Workers, NEW s \in WorkerState,
         Move(w, s), UNCHANGED <<row, request>>,
         accepted' \in [Deliveries -> 0..2],
         \A d \in Deliveries : accepted[d] > 0 => accepted'[d] > 0,
         doubtful' \subseteq Deliveries, faults' \in 0..MaxFaults,
         WorkerOK(w)'
  PROVE  NoticeInv'
<1>1. worker' \in [Workers -> WorkerState] /\ \A v \in Workers \ {w} : worker'[v] = worker[v]
  BY DEF Move, NoticeInv, TypeOK
<1>2. \A v \in Workers : WorkerOK(v)'
  <2> SUFFICES ASSUME NEW v \in Workers, v # w PROVE WorkerOK(v)'
    OBVIOUS
  <2>1. \A d \in Deliveries :
           (row'[d].status = "pending" /\ row'[d].lockedBy = v) =>
             Held(v, d) /\ row'[d].attempts = row[d].attempts
    BY DEF Held
  <2>2. WorkerOK(v) /\ worker'[v] = worker[v]
    BY <1>1 DEF NoticeInv
  <2>3. worker'[v].step = "selected" => worker'[v].spent <= MaxLag
    BY <2>2 DEF WorkerOK
  <2> QED BY <2>1, <2>2, <2>3, Knows
<1>3. RowsOK'
  BY Parts, RowsUnchanged
<1>4. request' \in [Operators -> Request]
  BY DEF NoticeInv, TypeOK
<1> QED
  BY <1>1, <1>2, <1>3, <1>4 DEF NoticeInv, RowsOK, TypeOK

-----------------------------------------------------------------------------
(* The steps of a worker.                                                  *)

LEMMA SelectStep ==
  ASSUME NoticeInv, NEW w \in Workers, Select(w)
  PROVE  NoticeInv'
<1>1. PICK S \in SUBSET Deliveries :
        Move(w, Worker("selected", S))
  BY DEF Select
<1>2. Worker("selected", S) \in WorkerState
  BY DeliveryAssumption DEF Worker, WorkerState, Steps
<1>3. worker'[w].step = "selected" /\ worker'[w].spent = 0
  BY <1>1 DEF Move, NoticeInv, TypeOK, Worker
<1>4. WorkerOK(w)'
  BY <1>3, TimeAssumption DEF WorkerOK, Busy
<1> QED
  BY <1>1, <1>2, <1>4, MoveOnly DEF Select, NoticeInv, TypeOK

\* A worker that drops a delivery and goes on with the rest, changing no row.
LEMMA DropStep ==
  ASSUME NoticeInv, NEW w \in Workers, NEW S \in SUBSET Deliveries,
         Move(w, Batch(S)), UNCHANGED <<row, request, accepted, doubtful>>,
         faults' \in 0..MaxFaults
  PROVE  NoticeInv'
<1>1. worker'[w] = Batch(S)
  BY DEF Move, NoticeInv, TypeOK
<1>2. WorkerOK(w)'
  BY <1>1, TypeBatch, KnowsNothing
<1> QED
  BY <1>2, TypeBatch, MoveOnly DEF NoticeInv, TypeOK

LEMMA AbandonStep ==
  ASSUME NoticeInv, NEW w \in Workers, Abandon(w)
  PROVE  NoticeInv'
<1>1. PICK d \in worker[w].todo : Move(w, Batch(worker[w].todo \ {d}))
  BY DEF Abandon
<1>2. worker[w].todo \ {d} \in SUBSET Deliveries
  BY DEF NoticeInv, TypeOK, WorkerState
<1>3. faults' \in 0..MaxFaults
  BY TimeAssumption DEF Abandon, NoticeInv, TypeOK
<1> QED
  BY <1>1, <1>2, <1>3, DropStep DEF Abandon

LEMMA CrashStep ==
  ASSUME NoticeInv, NEW w \in Workers, Crash(w)
  PROVE  NoticeInv'
<1>1. Batch({}) = IdleWorker
  BY DEF Batch
<1>2. faults' \in 0..MaxFaults
  BY TimeAssumption DEF Crash, NoticeInv, TypeOK
<1> QED
  BY <1>1, <1>2, DropStep DEF Crash

LEMMA CheckStep ==
  ASSUME NoticeInv, NEW w \in Workers, Check(w)
  PROVE  NoticeInv'
<1>1. PICK d \in worker[w].todo :
        IF Held(w, d)
        THEN Move(w, [worker[w] EXCEPT !.step = "checked", !.current = d,
                                       !.tries = row[d].attempts])
        ELSE Move(w, Batch(worker[w].todo \ {d}))
  BY DEF Check
<1>2. d \in Deliveries /\ worker[w].todo \ {d} \in SUBSET Deliveries
  BY DEF NoticeInv, TypeOK, WorkerState
<1>3. CASE Held(w, d)
  <2> DEFINE s == [worker[w] EXCEPT !.step = "checked", !.current = d,
                                    !.tries = row[d].attempts]
  <2>1. s \in WorkerState
    BY <1>2 DEF NoticeInv, TypeOK, WorkerState, DeliveryRow, Steps
  <2>2. Move(w, s)
    BY <1>1, <1>3
  <2>3. /\ worker'[w].step = "checked" /\ worker'[w].current = d
        /\ worker'[w].tries = row[d].attempts
    BY <2>2 DEF Move, NoticeInv, TypeOK, WorkerState
  <2>4. WorkerOK(w)'
    BY <1>2, <2>3 DEF WorkerOK, Busy, Check
  <2> HIDE DEF s
  <2> QED BY <2>1, <2>2, <2>4, MoveOnly DEF Check, NoticeInv, TypeOK
<1>4. CASE ~Held(w, d)
  BY <1>1, <1>2, <1>4, DropStep DEF Check, NoticeInv, TypeOK
<1> QED BY <1>3, <1>4

\* The answer that a worker has got, and what it counts for.
LEMMA AnswerStep ==
  ASSUME NoticeInv, NEW w \in Workers, NEW a \in Answers,
         worker[w].step = "checked",
         Move(w, [worker[w] EXCEPT !.step = "answered", !.answer = a]),
         accepted' \in [Deliveries -> 0..2],
         \A d \in Deliveries : accepted[d] > 0 => accepted'[d] > 0,
         a = "accepted" => accepted'[worker[w].current] > 0,
         doubtful' \subseteq Deliveries,
         UNCHANGED <<row, request, faults>>
  PROVE  NoticeInv'
<1> DEFINE s == [worker[w] EXCEPT !.step = "answered", !.answer = a]
<1>1. s \in WorkerState
  BY DEF NoticeInv, TypeOK, WorkerState, Steps, Answers
<1>2. /\ worker'[w].step = "answered" /\ worker'[w].answer = a
      /\ worker'[w].current = worker[w].current /\ worker'[w].tries = worker[w].tries
  BY DEF Move, NoticeInv, TypeOK, WorkerState
<1>3. worker[w].current \in Deliveries /\ WorkerOK(w)
  BY DEF NoticeInv, WorkerOK, Busy
<1>4. WorkerOK(w)'
  BY <1>2, <1>3 DEF WorkerOK, Busy, Held
<1> HIDE DEF s
<1> QED
  BY <1>1, <1>4, MoveOnly DEF s, NoticeInv, TypeOK

LEMMA CannotSendStep ==
  ASSUME NoticeInv, NEW w \in Workers, CannotSend(w)
  PROVE  NoticeInv'
BY AnswerStep DEF CannotSend, Answers, NoticeInv, TypeOK

LEMMA SendStep ==
  ASSUME NoticeInv, NEW w \in Workers, Send(w)
  PROVE  NoticeInv'
<1>1. PICK a \in Answers, taken \in BOOLEAN :
       /\ a = "accepted" => taken
       /\ Move(w, [worker[w] EXCEPT !.step = "answered", !.answer = a])
       /\ accepted' = IF taken /\ accepted[worker[w].current] < 2
                      THEN [accepted EXCEPT ![worker[w].current] = @ + 1]
                      ELSE accepted
       /\ doubtful' \in {doubtful, doubtful \cup {worker[w].current}}
  BY DEF Send
<1>2. worker[w].current \in Deliveries
  BY DEF Send, NoticeInv, WorkerOK, Busy
<1>3. accepted \in [Deliveries -> 0..2]
  BY DEF NoticeInv, TypeOK
<1>4. /\ accepted' \in [Deliveries -> 0..2]
      /\ \A d \in Deliveries : accepted[d] > 0 => accepted'[d] > 0
      /\ a = "accepted" => accepted'[worker[w].current] > 0
  BY <1>1, <1>2, <1>3
<1>5. doubtful' \subseteq Deliveries
  BY <1>1, <1>2 DEF NoticeInv, TypeOK
<1> QED
  BY <1>1, <1>4, <1>5, AnswerStep DEF Send

-----------------------------------------------------------------------------
(* The steps that change rows.                                             *)

\* A row is replaced by one without a lock: by a mark, a replay or a cancel.
LEMMA Unlocks ==
  ASSUME NoticeInv, NEW d \in Deliveries, NEW r \in DeliveryRow,
         row' = [row EXCEPT ![d] = r], accepted' = accepted,
         r.lockedBy = None, r.age = 0,
         r.status = "pending" => r.attempts < MaxAttempts,
         r.status = "succeeded" => accepted[d] > 0,
         r.status # "absent"
  PROVE  /\ RowsOK'
         /\ \A v \in Workers, e \in Deliveries :
              (row'[e].status = "pending" /\ row'[e].lockedBy = v) =>
                Held(v, e) /\ row'[e].attempts = row[e].attempts
<1>1. row' \in [Deliveries -> DeliveryRow]
  BY DEF NoticeInv, TypeOK
<1>2. row'[d] = r /\ \A e \in Deliveries \ {d} : row'[e] = row[e]
  BY DEF NoticeInv, TypeOK
<1>3. LockedIsPending' /\ AttemptLeft' /\ SucceededIsAccepted' /\ AbsentIsNew'
  BY <1>2 DEF NoticeInv, LockedIsPending, AttemptLeft, SucceededIsAccepted, AbsentIsNew
<1>4. ASSUME NEW v \in Workers, NEW e \in Deliveries,
             row'[e].status = "pending", row'[e].lockedBy = v
      PROVE  Held(v, e) /\ row'[e].attempts = row[e].attempts
  <2>1. v # None
    BY DeliveryAssumption
  <2> QED BY <1>2, <1>4, <2>1 DEF Held
<1> QED BY <1>1, <1>3, <1>4 DEF RowsOK

\* A worker writes an outcome only into a row that it still holds: the row had an
\* attempt left, and is left with one if it is pending again.
LEMMA OutcomeRow ==
  ASSUME NoticeInv, NEW w \in Workers, worker[w].step = "answered",
         Held(w, worker[w].current), NEW r \in Outcome(w, row[worker[w].current])
  PROVE  /\ r \in DeliveryRow
         /\ r.lockedBy = None /\ r.age = 0
         /\ r.status \in {"pending", "failed", "succeeded"}
         /\ r.status = "pending" => r.attempts < MaxAttempts
         /\ r.status = "succeeded" => accepted[worker[w].current] > 0
<1> DEFINE d == worker[w].current
           old == row[d]
<1>1. /\ d \in Deliveries /\ old \in DeliveryRow /\ old.status = "pending"
      /\ old.attempts = worker[w].tries /\ old.attempts < MaxAttempts
      /\ worker[w].answer \in Answers
      /\ worker[w].answer = "accepted" => accepted[d] > 0
  BY DEF NoticeInv, WorkerOK, Busy, Held, TypeOK, AttemptLeft
<1> DEFINE s == r.status
<1>2. PICK due \in Int, status \in {"pending", "failed", "succeeded"} :
        /\ r = Marked(old, status, due)
        /\ status = "pending" => worker[w].tries + 1 < MaxAttempts
        /\ status = "succeeded" => worker[w].answer = "accepted"
  <2>1. CASE worker[w].answer = "accepted"
    BY <2>1 DEF Outcome
  <2>2. CASE worker[w].answer = "retryable" /\ worker[w].tries + 1 < MaxAttempts
    <3>1. PICK t \in RetryDelays(worker[w].tries + 1), l \in 0..MaxLag :
            r = Marked(old, "pending", t - l)
      BY <2>2 DEF Outcome
    <3>2. t \in Int /\ l \in Int
      BY DEF RetryDelays
    <3>3. t - l \in Int
      BY <3>2
    <3> QED BY <2>2, <3>1, <3>3
  <2>3. CASE /\ worker[w].answer # "accepted"
             /\ ~(worker[w].answer = "retryable" /\ worker[w].tries + 1 < MaxAttempts)
    BY <2>3 DEF Outcome
  <2> QED BY <2>1, <2>2, <2>3
<1>3. old.attempts \in 0..MaxAttempts /\ 0 \in 0..Expired
  BY <1>1, TimeAssumption DEF DeliveryRow, Expired
<1>4. /\ r.status = status /\ r.lockedBy = None /\ r.age = 0
      /\ r.attempts = old.attempts + 1
  BY <1>1, <1>2 DEF Marked, DeliveryRow
<1>5. old.attempts + 1 \in 0..MaxAttempts
  BY <1>1, <1>3, DeliveryAssumption
<1>6. r \in DeliveryRow
  BY <1>1, <1>2, <1>3, <1>5 DEF Marked, DeliveryRow, Status, Settled
<1> QED BY <1>1, <1>2, <1>4, <1>6

LEMMA MarkStep ==
  ASSUME NoticeInv, NEW w \in Workers, Mark(w)
  PROVE  NoticeInv'
<1> DEFINE d == worker[w].current
<1>1. d \in Deliveries
  BY DEF Mark, NoticeInv, WorkerOK, Busy
<1>2. worker[w].todo \ {d} \in SUBSET Deliveries
  BY DEF NoticeInv, TypeOK, WorkerState
<1>3. CASE Held(w, d)
  <2>1. PICK r \in Outcome(w, row[d]) : row' = [row EXCEPT ![d] = r]
    BY <1>3 DEF Mark
  <2>2. /\ RowsOK'
        /\ \A v \in Workers, e \in Deliveries :
              (row'[e].status = "pending" /\ row'[e].lockedBy = v) =>
                Held(v, e) /\ row'[e].attempts = row[e].attempts
    BY <1>1, <1>3, <2>1, OutcomeRow, Unlocks DEF Mark
  <2>3. /\ worker' = [worker EXCEPT ![w] = Batch(worker[w].todo \ {d})]
        /\ Batch(worker[w].todo \ {d}) \in WorkerState
        /\ Batch(worker[w].todo \ {d}).step \in {"idle", "batch"}
    BY <1>2, TypeBatch DEF Mark, Move
  <2>4. /\ worker' \in [Workers -> WorkerState]
        /\ worker'[w].step \in {"idle", "batch"}
        /\ \A v \in Workers \ {w} : worker'[v] = worker[v]
    BY <2>3 DEF NoticeInv, TypeOK
  <2>5. UNCHANGED <<request, accepted, doubtful, faults>>
    BY DEF Mark
  <2>6. ASSUME NEW v \in Workers PROVE WorkerOK(v)'
    <3>1. CASE v = w
      BY <2>4, <3>1, KnowsNothing
    <3>2. CASE v # w
      <4>1. WorkerOK(v)
        BY DEF NoticeInv
      <4>2. worker'[v] = worker[v]
        BY <2>4, <3>2
      <4>3. worker'[v].step = "selected" => worker'[v].spent <= MaxLag
        BY <4>1, <4>2 DEF WorkerOK
      <4> QED BY <2>2, <2>5, <4>1, <4>2, <4>3, Knows
    <3> QED BY <3>1, <3>2
  <2> QED BY <2>2, <2>4, <2>5, <2>6 DEF NoticeInv, RowsOK, TypeOK
<1>4. CASE ~Held(w, d)
  BY <1>2, <1>4, DropStep DEF Mark, NoticeInv, TypeOK
<1> QED BY <1>3, <1>4

LEMMA OperateCommitStep ==
  ASSUME NoticeInv, NEW o \in Operators, OperateCommit(o)
  PROVE  NoticeInv'
<1> DEFINE d == request[o].delivery
<1>1. request[o] \in [op: {"replay", "cancel"}, delivery: Deliveries]
  BY DEF OperateCommit, NoticeInv, TypeOK, Request
<1>2. PICK l \in 0..MaxLag : row' = [row EXCEPT ![d] = Operated(row[d], request[o].op, 0 - l)]
  BY DEF OperateCommit
<1> DEFINE r == Operated(row[d], request[o].op, 0 - l)
<1>3. d \in Deliveries /\ row[d] \in DeliveryRow
  BY <1>1 DEF NoticeInv, TypeOK
<1>4. r \in DeliveryRow /\ r.lockedBy = None /\ r.age = 0
  BY <1>3, DeliveryAssumption, TimeAssumption DEF Operated, DeliveryRow, Status, Settled, Expired
<1>5. /\ r.status \in {"pending", "canceled"}
      /\ r.status = "pending" => r.attempts < MaxAttempts
  BY DeliveryAssumption DEF Operated
<1>6. UNCHANGED <<worker, accepted, faults>>
  BY DEF OperateCommit
<1> HIDE DEF r
<1>7. /\ RowsOK'
      /\ \A v \in Workers, e \in Deliveries :
              (row'[e].status = "pending" /\ row'[e].lockedBy = v) =>
                Held(v, e) /\ row'[e].attempts = row[e].attempts
  BY <1>2, <1>3, <1>4, <1>5, <1>6, Unlocks DEF r
<1>8. \A v \in Workers : WorkerOK(v)'
  BY <1>6, <1>7, Knows DEF NoticeInv, WorkerOK
<1>9. request' \in [Operators -> Request]
  BY DEF OperateCommit, NoticeInv, TypeOK, Request
<1>10. doubtful' \subseteq Deliveries
  BY <1>3 DEF OperateCommit, NoticeInv, TypeOK
<1> QED BY <1>6, <1>7, <1>8, <1>9, <1>10 DEF NoticeInv, RowsOK, TypeOK

\* A request that begins or is given up changes no row and no worker.
LEMMA RequestOnlyStep ==
  ASSUME NoticeInv, NEW o \in Operators, NEW q \in Request,
         request' = [request EXCEPT ![o] = q],
         UNCHANGED <<row, worker, accepted, doubtful, faults>>
  PROVE  NoticeInv'
<1>1. request' \in [Operators -> Request]
  BY DEF NoticeInv, TypeOK
<1>2. RowsOK'
  BY Parts, RowsUnchanged
<1>3. \A v \in Workers : WorkerOK(v)'
  BY DEF NoticeInv, WorkerOK, Held
<1> QED BY <1>1, <1>2, <1>3 DEF NoticeInv, RowsOK, TypeOK

LEMMA OperateStep ==
  ASSUME NoticeInv, NEW o \in Operators, Operate(o)
  PROVE  NoticeInv'
<1>1. CASE \E op \in {"replay", "cancel"}, d \in Deliveries : OperateBegin(o, op, d)
  BY <1>1, RequestOnlyStep DEF OperateBegin, Request
<1>2. CASE OperateCommit(o)
  BY <1>2, OperateCommitStep
<1>3. CASE OperateAbort(o)
  BY <1>3, RequestOnlyStep DEF OperateAbort, Request
<1> QED BY <1>1, <1>2, <1>3 DEF Operate

LEMMA ClaimStep ==
  ASSUME NoticeInv, NEW w \in Workers, Claim(w)
  PROVE  NoticeInv'
<1> DEFINE lag == worker[w].spent
           S == {d \in worker[w].todo : Claimable(d, lag)}
<1>1. S \in SUBSET Deliveries /\ lag \in 0..MaxLag
  <2>1. worker[w].todo \in SUBSET Deliveries /\ worker[w].spent \in Nat
    BY DEF NoticeInv, TypeOK, WorkerState
  <2>2. worker[w].spent <= MaxLag
    BY DEF NoticeInv, WorkerOK, Claim
  <2> QED BY <2>1, <2>2, TimeAssumption
<1>2. row' = [d \in Deliveries |->
                IF d \in S THEN [row[d] EXCEPT !.lockedBy = w, !.age = lag] ELSE row[d]]
  BY DEF Claim
<1>3. \A d \in S : row[d].status = "pending"
  BY DEF Claimable
<1>4. UNCHANGED <<request, accepted, faults>> /\ Move(w, Batch(S))
  BY DEF Claim
<1> HIDE DEF S, lag
<1>5. row' \in [Deliveries -> DeliveryRow]
  <2> SUFFICES ASSUME NEW d \in Deliveries PROVE row'[d] \in DeliveryRow
    BY <1>2
  <2>1. row[d] \in DeliveryRow
    BY DEF NoticeInv, TypeOK
  <2>2. lag \in 0..Expired
    BY <1>1, TimeAssumption DEF Expired
  <2> QED BY <1>2, <2>1, <2>2 DEF DeliveryRow
<1>6. ASSUME NEW d \in Deliveries
      PROVE  /\ row'[d].status = row[d].status /\ row'[d].attempts = row[d].attempts
             /\ d \in S => row'[d].lockedBy = w
             /\ d \notin S => row'[d] = row[d]
  BY <1>2 DEF NoticeInv, TypeOK, DeliveryRow
<1>7. w # None
  BY DeliveryAssumption
<1>8. RowsOK'
  BY <1>3, <1>4, <1>5, <1>6, <1>7
     DEF NoticeInv, RowsOK, LockedIsPending, AttemptLeft, SucceededIsAccepted, AbsentIsNew
<1>9. /\ worker' \in [Workers -> WorkerState]
      /\ worker'[w].step \in {"idle", "batch"}
      /\ \A v \in Workers \ {w} : worker'[v] = worker[v]
  BY <1>1, <1>4, TypeBatch DEF Move, NoticeInv, TypeOK
<1>10. ASSUME NEW v \in Workers PROVE WorkerOK(v)'
  <2>1. CASE v = w
    BY <1>9, <2>1, KnowsNothing
  <2>2. CASE v # w
    <3>1. WorkerOK(v) /\ worker'[v] = worker[v]
      BY <1>9, <2>2 DEF NoticeInv
    <3>2. worker'[v].step = "selected" => worker'[v].spent <= MaxLag
      BY <3>1 DEF WorkerOK
    <3>3. \A d \in Deliveries :
            (row'[d].status = "pending" /\ row'[d].lockedBy = v) =>
              Held(v, d) /\ row'[d].attempts = row[d].attempts
      BY <1>6, <2>2 DEF Held
    <3> QED BY <1>4, <3>1, <3>2, <3>3, Knows
  <2> QED BY <2>1, <2>2
<1>11. doubtful' \subseteq Deliveries
  BY DEF Claim, RunOut, NoticeInv, TypeOK
<1> QED BY <1>4, <1>8, <1>9, <1>10, <1>11 DEF NoticeInv, RowsOK, TypeOK

LEMMA DispatchStep ==
  ASSUME NoticeInv, NEW d \in Deliveries, Dispatch(d)
  PROVE  NoticeInv'
<1>1. row[d] \in DeliveryRow /\ row[d].status = "absent"
  BY DEF Dispatch, NoticeInv, TypeOK
<1>2. row[d].lockedBy = None /\ row[d].age = 0 /\ row[d].attempts = 0
  BY <1>1 DEF NoticeInv, LockedIsPending, AbsentIsNew
<1>3. PICK r \in DeliveryRow :
        /\ r.status = "pending" /\ r.lockedBy = None /\ r.age = 0 /\ r.attempts = 0
        /\ row' = [row EXCEPT ![d] = r]
  <2> DEFINE r == [row[d] EXCEPT !.status = "pending"]
  <2>1. /\ r \in DeliveryRow /\ r.status = "pending"
        /\ r.lockedBy = None /\ r.age = 0 /\ r.attempts = 0
    BY <1>1, <1>2 DEF DeliveryRow, Status
  <2>2. row' = [row EXCEPT ![d] = r]
    BY DEF Dispatch
  <2> HIDE DEF r
  <2> QED BY <2>1, <2>2
<1>4. UNCHANGED <<worker, request, accepted, doubtful, faults>>
  BY DEF Dispatch
<1>5. r.attempts < MaxAttempts
  BY <1>3, DeliveryAssumption
<1>6. /\ RowsOK'
      /\ \A v \in Workers, e \in Deliveries :
              (row'[e].status = "pending" /\ row'[e].lockedBy = v) =>
                Held(v, e) /\ row'[e].attempts = row[e].attempts
  BY <1>3, <1>4, <1>5, Unlocks
<1>7. \A v \in Workers : WorkerOK(v)'
  BY <1>4, <1>6, Knows DEF NoticeInv, WorkerOK
<1> QED BY <1>4, <1>6, <1>7 DEF NoticeInv, RowsOK, TypeOK

LEMMA TickStep ==
  ASSUME NoticeInv, Tick
  PROVE  NoticeInv'
<1>1. ASSUME NEW d \in Deliveries
      PROVE  /\ row'[d] \in DeliveryRow
             /\ row'[d].status = row[d].status /\ row'[d].attempts = row[d].attempts
             /\ row'[d].lockedBy = row[d].lockedBy
             /\ row[d].lockedBy = None => row'[d].age = row[d].age
  <2>1. row[d] \in DeliveryRow
    BY DEF NoticeInv, TypeOK
  <2> DEFINE due == IF row[d].due > 0 - MaxLag THEN row[d].due - 1 ELSE row[d].due
             age == IF row[d].lockedBy # None /\ row[d].age < Expired
                    THEN row[d].age + 1 ELSE row[d].age
  <2>2. row'[d] = [row[d] EXCEPT !.due = due, !.age = age]
    BY DEF Tick
  <2>3. due \in Int
    BY <2>1, TimeAssumption DEF DeliveryRow
  <2>4. age \in 0..Expired
    BY <2>1, TimeAssumption DEF DeliveryRow, Expired
  <2>5. row[d].lockedBy = None => age = row[d].age
    OBVIOUS
  <2> HIDE DEF due, age
  <2> QED BY <2>1, <2>2, <2>3, <2>4, <2>5 DEF DeliveryRow
<1>2. row' \in [Deliveries -> DeliveryRow] /\ UNCHANGED <<request, accepted, faults>>
  BY <1>1 DEF Tick
<1>3. RowsOK'
  BY <1>1, <1>2
     DEF NoticeInv, RowsOK, LockedIsPending, AttemptLeft, SucceededIsAccepted, AbsentIsNew
<1>4. ASSUME NEW w \in Workers
      PROVE  worker'[w] \in WorkerState /\ WorkerOK(w)'
  <2>1. worker[w] \in WorkerState /\ WorkerOK(w) /\ Patience(w)
    BY DEF NoticeInv, TypeOK, Tick
  <2>2. worker'[w] = IF worker[w].step = "idle" THEN worker[w]
                     ELSE [worker[w] EXCEPT !.spent = worker[w].spent + 1]
    BY DEF Tick
  <2>3. worker'[w] \in WorkerState
    BY <2>1, <2>2 DEF WorkerState
  <2>4. /\ worker'[w].step = worker[w].step /\ worker'[w].current = worker[w].current
        /\ worker'[w].tries = worker[w].tries /\ worker'[w].answer = worker[w].answer
    BY <2>1, <2>2 DEF WorkerState
  <2>5. worker'[w].step = "selected" => worker'[w].spent <= MaxLag
    BY <2>1, <2>2, TimeAssumption DEF WorkerState, Patience
  <2>6. \A d \in Deliveries :
           (row'[d].status = "pending" /\ row'[d].lockedBy = w) =>
             Held(w, d) /\ row'[d].attempts = row[d].attempts
    BY <1>1 DEF Held
  <2> QED BY <1>2, <2>1, <2>3, <2>4, <2>5, <2>6, Knows
<1>5. worker' \in [Workers -> WorkerState]
  BY <1>4 DEF Tick
<1>6. doubtful' \subseteq Deliveries
  BY DEF Tick, RunOut, NoticeInv, TypeOK
<1> QED BY <1>2, <1>3, <1>4, <1>5, <1>6 DEF NoticeInv, RowsOK, TypeOK

-----------------------------------------------------------------------------
(* The invariant, and the properties that follow from it.                  *)

LEMMA InitLemma ==
  ASSUME Init
  PROVE  NoticeInv
<1>1. TypeOK
  <2>1. row \in [Deliveries -> DeliveryRow]
    BY DeliveryAssumption, TimeAssumption DEF Init, DeliveryRow, Status, Expired
  <2>2. worker \in [Workers -> WorkerState]
    BY DeliveryAssumption DEF Init, IdleWorker, Worker, WorkerState, Steps
  <2>3. request \in [Operators -> Request] /\ accepted \in [Deliveries -> 0..2]
        /\ doubtful \subseteq Deliveries /\ faults \in 0..MaxFaults
    BY TimeAssumption DEF Init, Request
  <2> QED BY <2>1, <2>2, <2>3 DEF TypeOK
<1>2. LockedIsPending /\ AttemptLeft /\ SucceededIsAccepted /\ AbsentIsNew
  BY DEF Init, LockedIsPending, AttemptLeft, SucceededIsAccepted, AbsentIsNew
<1>3. ASSUME NEW w \in Workers PROVE WorkerOK(w)
  BY DEF Init, IdleWorker, Worker, WorkerOK, Busy
<1> QED BY <1>1, <1>2, <1>3 DEF NoticeInv

LEMMA NextStep ==
  ASSUME NoticeInv, [Next]_vars
  PROVE  NoticeInv'
<1>1. CASE Tick
  BY <1>1, TickStep
<1>2. CASE \E d \in Deliveries : Dispatch(d)
  BY <1>2, DispatchStep
<1>3. CASE \E w \in Workers : Work(w) \/ Abandon(w) \/ Crash(w)
  BY <1>3, SelectStep, ClaimStep, CheckStep, CannotSendStep, SendStep, MarkStep,
     AbandonStep, CrashStep DEF Work
<1>4. CASE \E o \in Operators : Operate(o)
  BY <1>4, OperateStep
<1>5. CASE UNCHANGED vars
  BY <1>5 DEF vars, NoticeInv, TypeOK, LockedIsPending, AttemptLeft, SucceededIsAccepted,
              AbsentIsNew, WorkerOK, Held
<1> QED BY <1>1, <1>2, <1>3, <1>4, <1>5 DEF Next

\* Every reachable state satisfies the inductive invariant.
THEOREM Invariance == Spec => []NoticeInv
<1>1. Init => NoticeInv
  BY InitLemma
<1>2. NoticeInv /\ [Next]_vars => NoticeInv'
  BY NextStep
<1> QED BY <1>1, <1>2, PTL DEF Spec

\* The rows, the workers and the requests keep their shape: no row is ever given
\* more attempts than max_attempts, whatever claims were lost on the way.
THEOREM TypeCorrect == Spec => []TypeOK
<1>1. NoticeInv => TypeOK
  BY DEF NoticeInv
<1> QED BY <1>1, Invariance, PTL

\* No mark, replay or cancel leaves a lock on a row that is done.
THEOREM LocksArePending == Spec => []LockedIsPending
<1>1. NoticeInv => LockedIsPending
  BY DEF NoticeInv
<1> QED BY <1>1, Invariance, PTL

\* MarkRetry leaves an attempt, although it counts from the attempts that the
\* worker read before it sent.
THEOREM AttemptsLeft == Spec => []AttemptLeft
<1>1. NoticeInv => AttemptLeft
  BY DEF NoticeInv
<1> QED BY <1>1, Invariance, PTL

\* MarkSucceeded succeeds only for a delivery that the endpoint has accepted.
THEOREM SuccessIsReal == Spec => []SucceededIsAccepted
<1>1. NoticeInv => SucceededIsAccepted
  BY DEF NoticeInv
<1> QED BY <1>1, Invariance, PTL

-----------------------------------------------------------------------------
(* The action properties.                                                  *)

\* The claim's condition and the marks' condition together: a lock changes hands
\* by its holder, by an operator's update or by its age.
LEMMA LockStep ==
  ASSUME NoticeInv, [Next]_vars, NEW d \in Deliveries, NEW w \in Workers,
         row[d].lockedBy = w, row'[d].lockedBy # w
  PROVE  \/ worker[w].step = "answered" /\ worker[w].current = d
         \/ \E o \in Operators : /\ request[o] # NoRequest /\ request[o].delivery = d
                                 /\ request'[o] = NoRequest
         \/ row[d].age > LockTimeout
<1> USE DEF NoticeInv, TypeOK
<1>0. row[d] \in DeliveryRow /\ row \in [Deliveries -> DeliveryRow] /\ row' # row
      /\ row'[d] # row[d]
  OBVIOUS
<1>1. CASE Tick
  BY <1>0, <1>1 DEF Tick, DeliveryRow
<1>2. ASSUME NEW e \in Deliveries, Dispatch(e) PROVE FALSE
  BY <1>0, <1>2 DEF Dispatch, DeliveryRow
<1>3. ASSUME NEW v \in Workers, Claim(v) PROVE row[d].age > LockTimeout
  <2> DEFINE lag == worker[v].spent
  <2>1. Claimable(d, lag)
    BY <1>0, <1>3 DEF Claim
  <2>2. row[d].age > LockTimeout + lag /\ lag \in Nat
    BY <2>1, DeliveryAssumption DEF Claimable, WorkerState
  <2> QED BY <1>0, <2>2, TimeAssumption DEF DeliveryRow, Expired
<1>4. ASSUME NEW v \in Workers, Mark(v)
      PROVE  worker[w].step = "answered" /\ worker[w].current = d
  BY <1>0, <1>4 DEF Mark, Held
<1>5. ASSUME NEW v \in Workers,
             Select(v) \/ Check(v) \/ CannotSend(v) \/ Send(v) \/ Abandon(v) \/ Crash(v)
      PROVE  FALSE
  BY <1>0, <1>5 DEF Select, Check, CannotSend, Send, Abandon, Crash
<1>6. ASSUME NEW o \in Operators, OperateCommit(o)
      PROVE  /\ request[o] # NoRequest /\ request[o].delivery = d
             /\ request'[o] = NoRequest
  BY <1>0, <1>6 DEF OperateCommit
<1>7. ASSUME NEW o \in Operators, OperateAbort(o) \/ (\E op \in {"replay", "cancel"},
             e \in Deliveries : OperateBegin(o, op, e))
      PROVE  FALSE
  BY <1>0, <1>7 DEF OperateAbort, OperateBegin
<1> QED BY <1>0, <1>1, <1>2, <1>3, <1>4, <1>5, <1>6, <1>7 DEF Next, Work, Operate, vars

\* A worker loses its lock only by its own mark, to an operator, or to a worker
\* that found the lock older than LockTimeout.
THEOREM LocksAreNotStolen == Spec => LockNotStolen
<1>1. NoticeInv /\ [Next]_vars =>
        [\A d \in Deliveries, w \in Workers :
           (row[d].lockedBy = w /\ row'[d].lockedBy # w) =>
             \/ worker[w].step = "answered" /\ worker[w].current = d
             \/ \E o \in Operators : /\ request[o] # NoRequest /\ request[o].delivery = d
                                     /\ request'[o] = NoRequest
             \/ row[d].age > LockTimeout]_vars
  BY LockStep
<1> QED BY <1>1, Invariance, PTL DEF Spec, LockNotStolen

\* Only an operator's update can change the status of a settled row.
LEMMA SettledStep ==
  ASSUME NoticeInv, [Next]_vars, NEW d \in Deliveries, row[d].status \in Settled,
         \A o \in Operators : request[o] = NoRequest \/ request[o].delivery # d
  PROVE  row'[d].status = row[d].status
<1> USE DEF NoticeInv, TypeOK
<1>0. row[d] \in DeliveryRow /\ row \in [Deliveries -> DeliveryRow]
      /\ row[d].status # "pending" /\ row[d].status # "absent"
  BY DEF Settled
<1>1. CASE Tick
  BY <1>0, <1>1 DEF Tick, DeliveryRow
<1>2. ASSUME NEW e \in Deliveries, Dispatch(e) PROVE row'[d] = row[d]
  BY <1>0, <1>2 DEF Dispatch
<1>3. ASSUME NEW v \in Workers, Claim(v) PROVE row'[d] = row[d]
  BY <1>0, <1>3 DEF Claim, Claimable
<1>4. ASSUME NEW v \in Workers, Mark(v) PROVE row'[d] = row[d]
  BY <1>0, <1>4 DEF Mark, Held
<1>5. ASSUME NEW v \in Workers,
             Select(v) \/ Check(v) \/ CannotSend(v) \/ Send(v) \/ Abandon(v) \/ Crash(v)
      PROVE  row' = row
  BY <1>5 DEF Select, Check, CannotSend, Send, Abandon, Crash
<1>6. ASSUME NEW o \in Operators, Operate(o) PROVE row'[d] = row[d]
  BY <1>0, <1>6 DEF Operate, OperateBegin, OperateCommit, OperateAbort
<1> QED BY <1>1, <1>2, <1>3, <1>4, <1>5, <1>6 DEF Next, Work, vars

\* A delivery that succeeded or was canceled is final, unless a replay or cancel
\* had read it before.
THEOREM SettledStaysSettled == Spec => SettledUnreadIsFinal
<1>1. NoticeInv /\ [Next]_vars =>
        [\A d \in Deliveries :
           /\ row[d].status \in Settled
           /\ \A o \in Operators : request[o] = NoRequest \/ request[o].delivery # d
           => row'[d].status = row[d].status]_vars
  BY SettledStep
<1> QED BY <1>1, Invariance, PTL DEF Spec, SettledUnreadIsFinal

-----------------------------------------------------------------------------
(* Accepted once, unless in doubt.  While no lock of a delivery has run    *)
(* out and nobody has replayed it, one worker at most has it in hand and a *)
(* row that is still pending is locked by that worker.  Once the delivery  *)
(* is accepted, and its worker knows, the row is done, or stays locked     *)
(* until that worker has marked it, or for good if the worker gave it up.  *)

Engaged(w, d) ==
  worker[w].step \in {"batch", "checked", "answered"} /\ d \in worker[w].todo

Heard(w, d) ==
  worker[w].step = "answered" /\ worker[w].current = d /\ worker[w].answer = "accepted"

\* A batch is done in order: what a worker sends is the first of what is left.
InOrder(w) ==
  worker[w].step \in Busy =>
    /\ worker[w].current \in worker[w].todo
    /\ \A e \in worker[w].todo : worker[w].current <= e

Once(d) ==
  d \notin doubtful =>
    /\ row[d].age <= LockTimeout
    /\ accepted[d] <= 1
    /\ accepted[d] = 1 => row[d].status \notin {"absent", "pending"} \/ row[d].lockedBy # None
    /\ \A w \in Workers : Engaged(w, d) =>
         /\ row[d].status # "absent"
         /\ row[d].status = "pending" => row[d].lockedBy = w
         /\ \A v \in Workers : Engaged(v, d) => v = w
         /\ accepted[d] = 1 => Heard(w, d)

OnceInv ==
  /\ \A w \in Workers : InOrder(w)
  /\ \A d \in Deliveries : Once(d)

\* The worker that moves; the others stay as they are.
LEMMA Moved ==
  ASSUME NoticeInv, NEW w \in Workers, NEW s, Move(w, s)
  PROVE  worker'[w] = s /\ \A v \in Workers \ {w} : worker'[v] = worker[v]
BY DEF Move, NoticeInv, TypeOK

\* A batch that goes on with S, or ends because S is empty.
LEMMA GoesOn ==
  ASSUME NEW w \in Workers, NEW S \in SUBSET Deliveries, worker'[w] = Batch(S)
  PROVE  /\ InOrder(w)'
         /\ \A d \in Deliveries : Engaged(w, d)' <=> d \in S
BY DEF Batch, IdleWorker, Worker, InOrder, Busy, Engaged

\* Nobody takes a delivery in hand, its row keeps its status and lock, and it is not
\* accepted again.
LEMMA OnceStays ==
  ASSUME NEW d \in Deliveries, Once(d), doubtful \subseteq doubtful',
         accepted'[d] = accepted[d],
         row'[d].status = row[d].status, row'[d].lockedBy = row[d].lockedBy,
         row'[d].age <= LockTimeout \/ d \in doubtful',
         \A w \in Workers : Engaged(w, d)' => Engaged(w, d) /\ (Heard(w, d) => Heard(w, d)')
  PROVE  Once(d)'
BY DEF Once

\* A worker that drops the first delivery of its batch, and changes no row.
LEMMA OnceDrops ==
  ASSUME NoticeInv, OnceInv, NEW w \in Workers, NEW e \in worker[w].todo,
         worker[w].step \in {"batch", "checked", "answered"},
         \A f \in worker[w].todo : e <= f,
         Move(w, Batch(worker[w].todo \ {e})), UNCHANGED <<row, accepted, doubtful>>
  PROVE  OnceInv'
<1>1. worker[w].todo \subseteq Deliveries
  BY DEF NoticeInv, TypeOK, WorkerState
<1>2. /\ InOrder(w)'
      /\ \A d \in Deliveries : Engaged(w, d)' <=> d \in worker[w].todo \ {e}
      /\ \A v \in Workers \ {w} : worker'[v] = worker[v]
  BY <1>1, Moved, GoesOn
<1>3. \A v \in Workers : InOrder(v)'
  BY <1>2 DEF OnceInv, InOrder
<1>4. ASSUME NEW d \in Deliveries PROVE Once(d)'
  <2>1. d \notin doubtful => row[d].age <= LockTimeout
    BY DEF OnceInv, Once
  <2>2. ASSUME NEW v \in Workers, Engaged(v, d)'
        PROVE  Engaged(v, d) /\ (Heard(v, d) => Heard(v, d)')
    <3>1. CASE v # w
      BY <1>2, <2>2, <3>1 DEF Engaged, Heard
    <3>2. CASE v = w
      <4>1. d \in worker[w].todo /\ d # e /\ Engaged(w, d)
        BY <1>2, <2>2, <3>2 DEF Engaged
      <4>2. Heard(w, d) => d <= e
        BY DEF Heard, OnceInv, InOrder, Busy
      <4>3. ~Heard(w, d)
        BY <1>1, <4>1, <4>2 DEF Deliveries
      <4> QED BY <3>2, <4>1, <4>3
    <3> QED BY <3>1, <3>2
  <2>3. Once(d)
    BY DEF OnceInv
  <2> QED BY <2>1, <2>2, <2>3, OnceStays
<1> QED BY <1>3, <1>4 DEF OnceInv

\* A worker that drops all it had, or goes on with what it had, changing no row.
LEMMA OnceMoves ==
  ASSUME NoticeInv, OnceInv, NEW w \in Workers, NEW s,
         Move(w, s), UNCHANGED <<row, accepted, doubtful>>, InOrder(w)',
         \A d \in Deliveries : Engaged(w, d)' => Engaged(w, d) /\ ~Heard(w, d)
  PROVE  OnceInv'
<1>1. \A v \in Workers \ {w} : worker'[v] = worker[v]
  BY Moved
<1>2. \A v \in Workers : InOrder(v)'
  BY <1>1 DEF OnceInv, InOrder
<1>3. ASSUME NEW d \in Deliveries PROVE Once(d)'
  <2>1. Once(d) /\ (d \notin doubtful => row[d].age <= LockTimeout)
    BY DEF OnceInv, Once
  <2>2. ASSUME NEW v \in Workers, Engaged(v, d)'
        PROVE  Engaged(v, d) /\ (Heard(v, d) => Heard(v, d)')
    BY <1>1, <2>2 DEF Engaged, Heard
  <2> QED BY <2>1, <2>2, OnceStays
<1> QED BY <1>2, <1>3 DEF OnceInv

\* No worker moves, and no row is locked or unlocked.
LEMMA OnceAges ==
  ASSUME NoticeInv, OnceInv,
         \A v \in Workers :
           /\ worker'[v].step = worker[v].step /\ worker'[v].todo = worker[v].todo
           /\ worker'[v].current = worker[v].current /\ worker'[v].answer = worker[v].answer,
         doubtful \subseteq doubtful', UNCHANGED accepted,
         \A d \in Deliveries :
           /\ row'[d].status = row[d].status /\ row'[d].lockedBy = row[d].lockedBy
           /\ row'[d].age <= LockTimeout \/ d \in doubtful'
  PROVE  OnceInv'
<1>1. \A v \in Workers : InOrder(v)'
  BY DEF OnceInv, InOrder
<1>2. ASSUME NEW d \in Deliveries PROVE Once(d)'
  <2>1. \A v \in Workers : Engaged(v, d)' => Engaged(v, d) /\ (Heard(v, d) => Heard(v, d)')
    BY DEF Engaged, Heard
  <2> QED BY <2>1, OnceStays DEF OnceInv
<1> QED BY <1>1, <1>2 DEF OnceInv

LEMMA OnceSelect ==
  ASSUME NoticeInv, OnceInv, NEW w \in Workers, Select(w)
  PROVE  OnceInv'
<1>1. PICK S \in SUBSET Deliveries : Move(w, Worker("selected", S))
  BY DEF Select
<1>2. worker'[w].step = "selected"
  BY <1>1, Moved DEF Worker
<1>3. InOrder(w)' /\ \A d \in Deliveries : ~Engaged(w, d)'
  BY <1>2 DEF InOrder, Engaged, Busy
<1> QED BY <1>1, <1>3, OnceMoves DEF Select

LEMMA OnceCrash ==
  ASSUME NoticeInv, OnceInv, NEW w \in Workers, Crash(w)
  PROVE  OnceInv'
<1>1. Move(w, IdleWorker) /\ worker'[w].step = "idle"
  BY Moved DEF Crash, IdleWorker, Worker
<1>2. InOrder(w)' /\ \A d \in Deliveries : ~Engaged(w, d)'
  BY <1>1 DEF InOrder, Engaged, Busy
<1> QED BY <1>1, <1>2, OnceMoves DEF Crash

LEMMA OnceAbandon ==
  ASSUME NoticeInv, OnceInv, NEW w \in Workers, Abandon(w)
  PROVE  OnceInv'
BY OnceDrops DEF Abandon

LEMMA OnceCheck ==
  ASSUME NoticeInv, OnceInv, NEW w \in Workers, Check(w)
  PROVE  OnceInv'
<1>1. PICK d \in worker[w].todo :
        /\ \A e \in worker[w].todo : d <= e
        /\ IF Held(w, d)
           THEN Move(w, [worker[w] EXCEPT !.step = "checked", !.current = d,
                                          !.tries = row[d].attempts])
           ELSE Move(w, Batch(worker[w].todo \ {d}))
  BY DEF Check
<1>2. CASE Held(w, d)
  <2> DEFINE s == [worker[w] EXCEPT !.step = "checked", !.current = d,
                                    !.tries = row[d].attempts]
  <2>1. Move(w, s) /\ worker[w].step = "batch"
    BY <1>1, <1>2 DEF Check
  <2>2. s.step = "checked" /\ s.current = d /\ s.todo = worker[w].todo
    BY DEF NoticeInv, TypeOK, WorkerState
  <2> HIDE DEF s
  <2>3. worker'[w] = s
    BY <2>1, Moved
  <2>4. InOrder(w)' /\ \A e \in Deliveries : Engaged(w, e)' => Engaged(w, e) /\ ~Heard(w, e)
    BY <1>1, <2>1, <2>2, <2>3 DEF InOrder, Engaged, Heard
  <2> QED BY <2>1, <2>4, OnceMoves DEF Check
<1>3. CASE ~Held(w, d)
  BY <1>1, <1>3, OnceDrops DEF Check
<1> QED BY <1>2, <1>3

\* The worker keeps its batch, and has an answer.
LEMMA Answered ==
  ASSUME NoticeInv, OnceInv, NEW w \in Workers, NEW a, worker[w].step = "checked",
         Move(w, [worker[w] EXCEPT !.step = "answered", !.answer = a])
  PROVE  /\ worker'[w].step = "answered" /\ worker'[w].answer = a
         /\ worker'[w].current = worker[w].current
         /\ InOrder(w)' /\ \A d \in Deliveries : Engaged(w, d)' <=> Engaged(w, d)
         /\ \A v \in Workers \ {w} : worker'[v] = worker[v]
<1> DEFINE s == [worker[w] EXCEPT !.step = "answered", !.answer = a]
<1>1. /\ s.step = "answered" /\ s.answer = a /\ s.current = worker[w].current
      /\ s.todo = worker[w].todo
  BY DEF NoticeInv, TypeOK, WorkerState
<1> HIDE DEF s
<1>2. worker'[w] = s /\ \A v \in Workers \ {w} : worker'[v] = worker[v]
  BY Moved DEF s
<1> QED BY <1>1, <1>2 DEF OnceInv, InOrder, Engaged, Busy

LEMMA OnceCannotSend ==
  ASSUME NoticeInv, OnceInv, NEW w \in Workers, CannotSend(w)
  PROVE  OnceInv'
<1>1. InOrder(w)' /\ \A d \in Deliveries : Engaged(w, d)' => Engaged(w, d) /\ ~Heard(w, d)
  BY Answered DEF CannotSend, Heard
<1> QED BY <1>1, OnceMoves DEF CannotSend

\* Whoever is about to send has not had the delivery accepted, and is alone with it.
LEMMA OnceSend ==
  ASSUME NoticeInv, OnceInv, NEW w \in Workers, Send(w)
  PROVE  OnceInv'
<1> DEFINE e == worker[w].current
<1>1. PICK a \in Answers, taken \in BOOLEAN :
       /\ a = "accepted" => taken
       /\ Move(w, [worker[w] EXCEPT !.step = "answered", !.answer = a])
       /\ accepted' = IF taken /\ accepted[e] < 2 THEN [accepted EXCEPT ![e] = @ + 1]
                      ELSE accepted
       /\ doubtful' = IF taken /\ a # "accepted" THEN doubtful \cup {e} ELSE doubtful
  BY DEF Send
<1>2. /\ worker'[w].step = "answered" /\ worker'[w].answer = a /\ worker'[w].current = e
      /\ InOrder(w)' /\ \A d \in Deliveries : Engaged(w, d)' <=> Engaged(w, d)
      /\ \A v \in Workers \ {w} : worker'[v] = worker[v]
  BY <1>1, Answered DEF Send
<1>3. \A v \in Workers : InOrder(v)'
  BY <1>2 DEF OnceInv, InOrder
<1>4. /\ e \in Deliveries /\ Engaged(w, e) /\ ~Heard(w, e)
      /\ row' = row /\ accepted \in [Deliveries -> 0..2]
  BY DEF Send, NoticeInv, TypeOK, WorkerOK, Busy, OnceInv, InOrder, Engaged, Heard
<1>5. ASSUME NEW d \in Deliveries PROVE Once(d)'
  <2>1. Once(d) /\ doubtful \subseteq doubtful' /\ (d \notin doubtful => row[d].age <= LockTimeout)
    BY <1>1 DEF OnceInv, Once
  <2>2. \A v \in Workers : Engaged(v, d)' => Engaged(v, d)
    BY <1>2 DEF Engaged
  <2>3. \A v \in Workers : v # w => (Heard(v, d) => Heard(v, d)')
    BY <1>2 DEF Heard
  <2>4. ~Heard(w, d)
    BY DEF Send, Heard
  <2>5. CASE d # e \/ ~taken
    <3>1. accepted'[d] = accepted[d]
      BY <1>1, <1>4, <2>5
    <3> QED BY <1>4, <2>1, <2>2, <2>3, <2>4, <3>1, OnceStays
  <2>6. CASE d = e /\ taken
    <3> SUFFICES ASSUME d \notin doubtful' PROVE Once(d)'
      BY DEF Once
    <3>1. d \notin doubtful /\ a = "accepted"
      BY <1>1, <2>6
    <3>2. /\ accepted[d] # 1 /\ accepted[d] <= 1 /\ row[d].status # "absent"
          /\ row[d].status = "pending" => row[d].lockedBy = w
          /\ \A v \in Workers : Engaged(v, d) => v = w
      BY <1>4, <2>1, <2>6, <3>1 DEF Once
    <3>3. accepted'[d] = 1
      <4>1. accepted[d] = 0
        BY <1>4, <3>2
      <4> QED BY <1>1, <1>4, <2>6, <4>1
    <3>4. Heard(w, d)'
      BY <1>2, <2>6, <3>1 DEF Heard
    <3>5. w # None
      BY DeliveryAssumption
    <3> QED BY <1>4, <2>1, <2>2, <3>1, <3>2, <3>3, <3>4, <3>5 DEF Once
  <2> QED BY <2>5, <2>6
<1> QED BY <1>3, <1>5 DEF OnceInv

\* A worker that heard of the acceptance marks the row succeeded.
LEMMA OnceMark ==
  ASSUME NoticeInv, OnceInv, NEW w \in Workers, Mark(w)
  PROVE  OnceInv'
<1> DEFINE e == worker[w].current
<1>1. /\ e \in worker[w].todo /\ \A f \in worker[w].todo : e <= f
      /\ e \in Deliveries /\ worker[w].todo \subseteq Deliveries /\ worker[w].step = "answered"
      /\ Move(w, Batch(worker[w].todo \ {e})) /\ UNCHANGED <<accepted, doubtful>>
  BY DEF Mark, OnceInv, InOrder, Busy, NoticeInv, TypeOK, WorkerState
<1>2. CASE ~Held(w, e)
  <2>1. row' = row
    BY <1>2 DEF Mark
  <2> QED BY <1>1, <2>1, OnceDrops
<1>3. CASE Held(w, e)
  <2>1. PICK r \in Outcome(w, row[e]) : row' = [row EXCEPT ![e] = r]
    BY <1>3 DEF Mark
  <2>2. /\ r.lockedBy = None /\ r.age = 0 /\ r.status # "absent"
        /\ worker[w].answer = "accepted" => r.status = "succeeded"
    <3>1. r.lockedBy = None /\ r.age = 0 /\ r.status \in {"pending", "failed", "succeeded"}
      BY <1>1, <1>3, <2>1, OutcomeRow
    <3>2. worker[w].answer = "accepted" => r.status = "succeeded"
      BY <2>1 DEF Outcome, Marked
    <3> QED BY <3>1, <3>2
  <2>3. row'[e] = r /\ \A d \in Deliveries \ {e} : row'[d] = row[d]
    BY <1>1, <2>1 DEF NoticeInv, TypeOK
  <2>4. /\ InOrder(w)'
        /\ \A d \in Deliveries : Engaged(w, d)' <=> d \in worker[w].todo \ {e}
        /\ \A v \in Workers \ {w} : worker'[v] = worker[v]
    <3>1. worker[w].todo \ {e} \in SUBSET Deliveries
      BY <1>1
    <3>2. worker'[w] = Batch(worker[w].todo \ {e})
      BY <1>1, Moved
    <3>3. \A v \in Workers \ {w} : worker'[v] = worker[v]
      BY <1>1, Moved
    <3> QED BY <3>1, <3>2, <3>3, GoesOn
  <2>5. \A v \in Workers : InOrder(v)'
    BY <2>4 DEF OnceInv, InOrder
  <2>6. ASSUME NEW d \in Deliveries PROVE Once(d)'
    <3>1. Once(d)
      BY DEF OnceInv
    <3>2. CASE d # e
      <4>1. d \notin doubtful => row[d].age <= LockTimeout
        BY <3>1 DEF Once
      <4>2. ASSUME NEW v \in Workers, Engaged(v, d)'
            PROVE  Engaged(v, d) /\ (Heard(v, d) => Heard(v, d)')
        BY <1>1, <2>4, <3>2, <4>2 DEF Engaged, Heard
      <4> QED BY <1>1, <2>3, <3>1, <3>2, <4>1, <4>2, OnceStays
    <3>3. CASE d = e
      <4> SUFFICES ASSUME d \notin doubtful' PROVE Once(d)'
        BY DEF Once
      <4>1. /\ Engaged(w, d) /\ d \notin doubtful /\ accepted'[d] = accepted[d]
        BY <1>1, <3>3 DEF Engaged
      <4>2. /\ accepted[d] <= 1 /\ \A v \in Workers : Engaged(v, d) => v = w
            /\ accepted[d] = 1 => worker[w].answer = "accepted"
        BY <3>1, <4>1 DEF Once, Heard
      <4>3. \A v \in Workers : ~Engaged(v, d)'
        BY <2>4, <3>3, <4>2 DEF Engaged
      <4>4. row'[d].age <= LockTimeout
        BY <2>2, <2>3, <3>3, TimeAssumption
      <4> QED BY <2>2, <2>3, <3>3, <4>1, <4>2, <4>3, <4>4 DEF Once
    <3> QED BY <3>2, <3>3
  <2> QED BY <2>5, <2>6 DEF OnceInv
<1> QED BY <1>2, <1>3

\* A row that is claimed was nobody's: its delivery is in nobody's hand, and not accepted.
LEMMA OnceClaim ==
  ASSUME NoticeInv, OnceInv, NEW w \in Workers, Claim(w)
  PROVE  OnceInv'
<1> DEFINE lag == worker[w].spent
           S == {d \in worker[w].todo : Claimable(d, lag)}
<1>1. /\ row' = [d \in Deliveries |->
                   IF d \in S THEN [row[d] EXCEPT !.lockedBy = w, !.age = lag] ELSE row[d]]
      /\ Move(w, Batch(S)) /\ worker[w].step = "selected"
      /\ doubtful' = doubtful \cup RunOut' /\ UNCHANGED accepted
  BY DEF Claim
<1>2. S \in SUBSET Deliveries /\ lag \in Nat
  BY DEF NoticeInv, TypeOK, WorkerState
<1>3. \A d \in S : /\ row[d].status = "pending"
                   /\ row[d].lockedBy = None \/ row[d].age > LockTimeout + lag
  BY DEF Claimable
<1> HIDE DEF S, lag
<1>4. /\ InOrder(w)'
      /\ \A d \in Deliveries : Engaged(w, d)' <=> d \in S
      /\ \A v \in Workers \ {w} : worker'[v] = worker[v]
  BY <1>1, <1>2, Moved, GoesOn
<1>5. \A v \in Workers : InOrder(v)'
  BY <1>4 DEF OnceInv, InOrder
<1>6. ASSUME NEW d \in Deliveries PROVE Once(d)'
  <2> SUFFICES ASSUME d \notin doubtful' PROVE Once(d)'
    BY DEF Once
  <2>1. row[d] \in DeliveryRow /\ Once(d) /\ d \notin doubtful
    BY <1>1 DEF NoticeInv, TypeOK, OnceInv
  <2>2. row'[d].age <= LockTimeout
    <3>1. row'[d].age \in Int
      <4>1. row[d].age \in Int
        BY <2>1, TimeAssumption DEF DeliveryRow, Expired
      <4>2. row'[d].age \in {row[d].age, lag}
        BY <1>1, <2>1 DEF DeliveryRow
      <4> QED BY <1>2, <4>1, <4>2
    <3>2. ~(row'[d].age > LockTimeout)
      BY <1>1 DEF RunOut
    <3> QED BY <3>1, <3>2, TimeAssumption
  <2>3. CASE d \notin S
    <3>1. row'[d] = row[d]
      BY <1>1, <2>3
    <3>2. ASSUME NEW v \in Workers, Engaged(v, d)'
          PROVE  Engaged(v, d) /\ (Heard(v, d) => Heard(v, d)')
      BY <1>4, <2>3, <3>2 DEF Engaged, Heard
    <3> QED BY <1>1, <2>1, <2>2, <3>1, <3>2, OnceStays
  <2>4. CASE d \in S
    <3>1. /\ row'[d].status = "pending" /\ row'[d].lockedBy = w
      BY <1>1, <1>3, <2>1, <2>4 DEF DeliveryRow
    <3>2. row[d].age <= LockTimeout /\ row[d].age \in Nat
      BY <2>1, TimeAssumption DEF Once, DeliveryRow, Expired
    <3>3. row[d].lockedBy = None /\ row[d].status = "pending"
      BY <1>2, <1>3, <2>4, <3>2, TimeAssumption
    <3>4. accepted[d] <= 1 /\ accepted[d] # 1
      BY <2>1, <3>3 DEF Once
    <3>5. \A v \in Workers : ~Engaged(v, d)
      BY <2>1, <3>3, DeliveryAssumption DEF Once
    <3>6. \A v \in Workers : Engaged(v, d)' => v = w
      BY <1>4, <3>5 DEF Engaged
    <3> QED BY <1>1, <2>2, <3>1, <3>4, <3>6 DEF Once
  <2> QED BY <2>3, <2>4
<1> QED BY <1>5, <1>6 DEF OnceInv

LEMMA OnceTick ==
  ASSUME NoticeInv, OnceInv, Tick
  PROVE  OnceInv'
<1>1. ASSUME NEW v \in Workers
      PROVE  /\ worker'[v].step = worker[v].step /\ worker'[v].todo = worker[v].todo
             /\ worker'[v].current = worker[v].current /\ worker'[v].answer = worker[v].answer
  BY DEF Tick, NoticeInv, TypeOK, WorkerState
<1>2. ASSUME NEW d \in Deliveries
      PROVE  /\ row'[d].status = row[d].status /\ row'[d].lockedBy = row[d].lockedBy
             /\ row'[d].age \in Int
  <2>1. row[d] \in DeliveryRow
    BY DEF NoticeInv, TypeOK
  <2> DEFINE due == IF row[d].due > 0 - MaxLag THEN row[d].due - 1 ELSE row[d].due
             age == IF row[d].lockedBy # None /\ row[d].age < Expired
                    THEN row[d].age + 1 ELSE row[d].age
  <2>2. row'[d] = [row[d] EXCEPT !.due = due, !.age = age]
    BY DEF Tick
  <2>3. age \in Int
    BY <2>1, TimeAssumption DEF DeliveryRow, Expired
  <2> HIDE DEF due, age
  <2> QED BY <2>1, <2>2, <2>3 DEF DeliveryRow
<1>3. ASSUME NEW d \in Deliveries
      PROVE  row'[d].age <= LockTimeout \/ d \in doubtful'
  <2>1. row'[d].age \in Int /\ LockTimeout \in Int
    BY <1>2, TimeAssumption
  <2>2. row'[d].age > LockTimeout => d \in RunOut'
    BY DEF RunOut
  <2>3. RunOut' \subseteq doubtful'
    BY DEF Tick
  <2> QED BY <2>1, <2>2, <2>3
<1>4. doubtful \subseteq doubtful' /\ UNCHANGED accepted
  BY DEF Tick
<1> QED BY <1>1, <1>2, <1>3, <1>4, OnceAges

LEMMA OnceDispatch ==
  ASSUME NoticeInv, OnceInv, NEW e \in Deliveries, Dispatch(e)
  PROVE  OnceInv'
<1>1. /\ row[e].status = "absent" /\ row' = [row EXCEPT ![e].status = "pending"]
      /\ UNCHANGED <<worker, accepted, doubtful>>
      /\ row \in [Deliveries -> DeliveryRow] /\ row[e].lockedBy = None
  BY DEF Dispatch, NoticeInv, TypeOK, LockedIsPending
<1>2. \A v \in Workers : InOrder(v)'
  BY <1>1 DEF OnceInv, InOrder
<1>3. ASSUME NEW d \in Deliveries PROVE Once(d)'
  <2>1. Once(d)
    BY DEF OnceInv
  <2>2. \A v \in Workers : (Engaged(v, d)' <=> Engaged(v, d)) /\ (Heard(v, d)' <=> Heard(v, d))
    BY <1>1 DEF Engaged, Heard
  <2>3. CASE d # e
    <3>1. row'[d] = row[d]
      BY <1>1, <2>3
    <3> QED BY <1>1, <2>1, <2>2, <3>1 DEF Once
  <2>4. CASE d = e
    <3>1. row'[d].age = row[d].age
      BY <1>1, <2>4 DEF DeliveryRow
    <3> QED BY <1>1, <2>1, <2>2, <2>4, <3>1 DEF Once
  <2> QED BY <2>3, <2>4
<1> QED BY <1>2, <1>3 DEF OnceInv

LEMMA OnceOperate ==
  ASSUME NoticeInv, OnceInv, NEW o \in Operators, Operate(o)
  PROVE  OnceInv'
<1>1. CASE ~OperateCommit(o)
  <2>1. UNCHANGED <<row, worker, accepted, doubtful>>
    BY <1>1 DEF Operate, OperateBegin, OperateAbort
  <2>2. \A d \in Deliveries : row'[d].age <= LockTimeout \/ d \in doubtful'
    BY <2>1 DEF OnceInv, Once
  <2> QED BY <2>1, <2>2, OnceAges
<1>2. CASE OperateCommit(o)
  <2> DEFINE e == request[o].delivery
  <2>1. PICK l \in 0..MaxLag : row' = [row EXCEPT ![e] = Operated(row[e], request[o].op, 0 - l)]
    BY <1>2 DEF OperateCommit
  <2>2. /\ e \in Deliveries /\ request[o].op \in {"replay", "cancel"}
        /\ UNCHANGED <<worker, accepted>>
        /\ doubtful' = IF request[o].op = "replay" THEN doubtful \cup {e} ELSE doubtful
    BY <1>2 DEF OperateCommit, NoticeInv, TypeOK, Request
  <2>3. \A v \in Workers : InOrder(v)'
    BY <2>2 DEF OnceInv, InOrder
  <2>4. ASSUME NEW d \in Deliveries PROVE Once(d)'
    <3> SUFFICES ASSUME d \notin doubtful' PROVE Once(d)'
      BY DEF Once
    <3>1. Once(d) /\ d \notin doubtful
      BY <2>2 DEF OnceInv
    <3>2. \A v \in Workers : (Engaged(v, d)' <=> Engaged(v, d)) /\ (Heard(v, d)' <=> Heard(v, d))
      BY <2>2 DEF Engaged, Heard
    <3>3. CASE d # e
      <4>1. row'[d] = row[d]
        BY <2>1, <3>3 DEF NoticeInv, TypeOK
      <4> QED BY <2>2, <3>1, <3>2, <4>1 DEF Once
    <3>4. CASE d = e
      <4>1. request[o].op = "cancel"
        BY <2>2, <3>4
      <4>2. row'[d] = Operated(row[d], "cancel", 0 - l)
        BY <2>1, <2>2, <3>4, <4>1 DEF NoticeInv, TypeOK
      <4>3. row'[d].status = "canceled" /\ row'[d].age = 0
        BY <4>2 DEF Operated
      <4>4. row'[d].age <= LockTimeout
        BY <4>3, TimeAssumption
      <4> QED BY <2>2, <3>1, <3>2, <4>3, <4>4 DEF Once
    <3> QED BY <3>3, <3>4
  <2> QED BY <2>3, <2>4 DEF OnceInv
<1> QED BY <1>1, <1>2

LEMMA OnceNext ==
  ASSUME NoticeInv, OnceInv, [Next]_vars
  PROVE  OnceInv'
<1>1. CASE UNCHANGED vars
  BY <1>1 DEF vars, OnceInv, InOrder, Once, Engaged, Heard
<1>2. CASE \E w \in Workers : Work(w) \/ Abandon(w) \/ Crash(w)
  BY <1>2, OnceSelect, OnceClaim, OnceCheck, OnceCannotSend, OnceSend, OnceMark,
     OnceAbandon, OnceCrash DEF Work
<1> QED BY <1>1, <1>2, OnceTick, OnceDispatch, OnceOperate DEF Next

LEMMA OnceInit ==
  ASSUME Init
  PROVE  OnceInv
BY TimeAssumption DEF Init, OnceInv, InOrder, Once, Engaged, Busy, IdleWorker, Worker

\* The endpoint accepts a delivery twice only if somebody replayed it, a lock of it ran
\* out, or its worker did not hear that it was accepted.  No relation between LockTimeout
\* and the time that sends, batches or the rate limiter take is assumed.
THEOREM OnlyDoubtfulAreAcceptedTwice == Spec => []AcceptedOnceUnlessDoubtful
<1>1. Init => OnceInv
  BY OnceInit
<1>2. NoticeInv /\ OnceInv /\ [Next]_vars => OnceInv'
  BY OnceNext
<1>3. NoticeInv /\ OnceInv => AcceptedOnceUnlessDoubtful
  BY DEF OnceInv, Once, AcceptedOnceUnlessDoubtful, NoticeInv, TypeOK
<1> QED BY <1>1, <1>2, <1>3, Invariance, PTL DEF Spec

-----------------------------------------------------------------------------
(* The workers and operators implement the outbox of Outbox.               *)

\* What a worker lists, holds or sends was dispatched.
Listed ==
  \A w \in Workers :
    /\ \A d \in worker[w].todo : row[d].status # "absent"
    /\ worker[w].step \in Busy => row[worker[w].current].status # "absent"

\* A row is never withdrawn.
LEMMA RowsStay ==
  ASSUME NoticeInv, [Next]_vars, NEW d \in Deliveries, row[d].status # "absent"
  PROVE  row'[d].status # "absent"
<1>0. row[d] \in DeliveryRow /\ row \in [Deliveries -> DeliveryRow]
  BY DEF NoticeInv, TypeOK
<1>1. CASE Tick
  BY <1>0, <1>1 DEF Tick, DeliveryRow
<1>2. ASSUME NEW e \in Deliveries, Dispatch(e) PROVE row'[d].status # "absent"
  BY <1>0, <1>2 DEF Dispatch, DeliveryRow
<1>3. ASSUME NEW w \in Workers, Claim(w) PROVE row'[d].status = row[d].status
  BY <1>0, <1>3 DEF Claim, DeliveryRow
<1>4. ASSUME NEW w \in Workers, Mark(w) PROVE row'[d].status # "absent"
  <2>1. CASE Held(w, worker[w].current)
    <3>1. PICK r \in Outcome(w, row[worker[w].current]) :
            row' = [row EXCEPT ![worker[w].current] = r]
      BY <1>4, <2>1 DEF Mark
    <3>2. r.status # "absent"
      BY <1>4, <2>1, OutcomeRow DEF Mark
    <3> QED BY <1>0, <3>1, <3>2
  <2>2. CASE ~Held(w, worker[w].current)
    BY <1>4, <2>2 DEF Mark
  <2> QED BY <2>1, <2>2
<1>5. ASSUME NEW w \in Workers,
             Select(w) \/ Check(w) \/ CannotSend(w) \/ Send(w) \/ Abandon(w) \/ Crash(w)
      PROVE  row' = row
  BY <1>5 DEF Select, Check, CannotSend, Send, Abandon, Crash
<1>6. ASSUME NEW o \in Operators, OperateCommit(o) PROVE row'[d].status # "absent"
  <2>1. PICK l \in 0..MaxLag :
          row' = [row EXCEPT ![request[o].delivery] =
                    Operated(row[request[o].delivery], request[o].op, 0 - l)]
    BY <1>6 DEF OperateCommit
  <2>2. \A r, op, due : Operated(r, op, due).status # "absent"
    BY DEF Operated
  <2> QED BY <1>0, <2>1, <2>2
<1>7. ASSUME NEW o \in Operators, Operate(o), ~OperateCommit(o) PROVE row' = row
  BY <1>7 DEF Operate, OperateBegin, OperateAbort
<1> QED BY <1>1, <1>2, <1>3, <1>4, <1>5, <1>6, <1>7 DEF Next, Work, vars

\* A worker lists rows that are there, and afterwards only drops from its list.
LEMMA WorkerMoves ==
  ASSUME NoticeInv, [Next]_vars, NEW w \in Workers
  PROVE  \/ /\ \A d \in worker'[w].todo : d \in Deliveries /\ row[d].status # "absent"
            /\ worker'[w].step \notin Busy
         \/ /\ worker'[w].todo \subseteq worker[w].todo
            /\ worker'[w].step \in Busy =>
                 \/ worker'[w].current \in worker[w].todo
                 \/ worker[w].step \in Busy /\ worker'[w].current = worker[w].current
<1> DEFINE Drops == /\ worker'[w].todo \subseteq worker[w].todo
                    /\ worker'[w].step \in Busy =>
                         \/ worker'[w].current \in worker[w].todo
                         \/ worker[w].step \in Busy /\ worker'[w].current = worker[w].current
<1>0. worker \in [Workers -> WorkerState] /\ worker[w] \in WorkerState
  BY DEF NoticeInv, TypeOK
<1>1. CASE worker'[w] = worker[w]
  BY <1>1
<1>2. ASSUME NEW S, Move(w, Batch(S)), S \subseteq worker[w].todo PROVE Drops
  <2>1. Batch(S).todo \subseteq S /\ Batch(S).step \notin Busy
    BY DEF Batch, IdleWorker, Worker, Busy
  <2>2. worker'[w] = Batch(S)
    BY <1>0, <1>2 DEF Move
  <2> QED BY <1>2, <2>1, <2>2
<1>3. CASE Select(w)
  <2>1. PICK S \in SUBSET Deliveries :
          /\ Move(w, Worker("selected", S))
          /\ Candidates(S) \/ \E d \in Deliveries : S = {d} /\ row[d].status # "absent"
    BY <1>3 DEF Select
  <2>2. \A d \in S : row[d].status # "absent"
    BY <2>1 DEF Candidates, Claimable
  <2>3. worker'[w].todo = S /\ worker'[w].step \notin Busy
    BY <1>0, <2>1 DEF Move, Worker, Busy
  <2> QED BY <2>2, <2>3
<1>4. CASE Claim(w) \/ Mark(w) \/ Abandon(w)
  BY <1>2, <1>4 DEF Claim, Mark, Abandon
<1>5. CASE Crash(w)
  <2>1. worker'[w] = IdleWorker
    BY <1>0, <1>5 DEF Crash, Move
  <2> QED BY <2>1 DEF IdleWorker, Worker, Busy
<1>6. CASE Check(w)
  <2>1. PICK d \in worker[w].todo :
          \/ Move(w, [worker[w] EXCEPT !.step = "checked", !.current = d,
                                       !.tries = row[d].attempts])
          \/ Move(w, Batch(worker[w].todo \ {d}))
    BY <1>6 DEF Check
  <2>2. CASE Move(w, [worker[w] EXCEPT !.step = "checked", !.current = d,
                                       !.tries = row[d].attempts])
    <3>1. worker'[w] = [worker[w] EXCEPT !.step = "checked", !.current = d,
                                         !.tries = row[d].attempts]
      BY <1>0, <2>2 DEF Move
    <3>2. worker'[w].todo = worker[w].todo /\ worker'[w].current = d
      BY <1>0, <3>1 DEF WorkerState
    <3> QED BY <2>1, <3>2
  <2> QED BY <1>2, <2>1, <2>2
<1>7. CASE CannotSend(w) \/ Send(w)
  <2>1. PICK a \in Answers : Move(w, [worker[w] EXCEPT !.step = "answered", !.answer = a])
    BY <1>7 DEF CannotSend, Send, Answers
  <2>2. worker'[w] = [worker[w] EXCEPT !.step = "answered", !.answer = a]
    BY <1>0, <2>1 DEF Move
  <2>3. worker'[w].todo = worker[w].todo /\ worker'[w].current = worker[w].current
    BY <1>0, <2>2 DEF WorkerState
  <2>4. worker[w].step \in Busy
    BY <1>7 DEF CannotSend, Send, Busy
  <2> QED BY <2>3, <2>4
<1>8. CASE Tick
  <2>1. worker'[w] = worker[w] \/ worker'[w] = [worker[w] EXCEPT !.spent = @ + 1]
    BY <1>0, <1>8 DEF Tick
  <2>2. /\ worker'[w].todo = worker[w].todo /\ worker'[w].step = worker[w].step
        /\ worker'[w].current = worker[w].current
    BY <1>0, <2>1 DEF WorkerState
  <2> QED BY <2>2
<1>9. ASSUME NEW v \in Workers, Work(v) \/ Abandon(v) \/ Crash(v), v # w
      PROVE  worker'[w] = worker[w]
  BY <1>0, <1>9 DEF Work, Select, Claim, Check, CannotSend, Send, Mark, Abandon, Crash, Move
<1>10. ASSUME \/ \E d \in Deliveries : Dispatch(d)
              \/ \E o \in Operators : Operate(o)
              \/ UNCHANGED vars
       PROVE  worker'[w] = worker[w]
  BY <1>10 DEF Dispatch, Operate, OperateBegin, OperateCommit, OperateAbort, vars
<1> QED
  BY <1>1, <1>3, <1>4, <1>5, <1>6, <1>7, <1>8, <1>9, <1>10 DEF Next, Work

LEMMA ListedInit == Init => Listed
BY DEF Init, Listed, IdleWorker, Worker, Busy

LEMMA ListedStep ==
  ASSUME NoticeInv, Listed, [Next]_vars
  PROVE  Listed'
<1> SUFFICES ASSUME NEW w \in Workers
             PROVE  /\ \A d \in worker'[w].todo : row'[d].status # "absent"
                    /\ worker'[w].step \in Busy => row'[worker'[w].current].status # "absent"
  BY DEF Listed
<1>1. worker[w].todo \subseteq Deliveries
      /\ (worker[w].step \in Busy => worker[w].current \in Deliveries)
  BY DEF NoticeInv, TypeOK, WorkerState, WorkerOK
<1>2. \A d \in Deliveries : row[d].status # "absent" => row'[d].status # "absent"
  BY RowsStay
<1> QED BY <1>1, <1>2, WorkerMoves DEF Listed

\* What a user sees of the state.
StatusSeen == [d \in Deliveries |-> row[d].status]
TriesSeen == [d \in Deliveries |-> row[d].attempts]
OwnerSeen == [d \in Deliveries |-> row[d].lockedBy]
TakenSeen == {d \in Deliveries : accepted[d] > 0}
AsksSeen == [o \in Operators |-> IF request[o] = NoRequest THEN None ELSE request[o].delivery]
Seen == <<StatusSeen, TriesSeen, OwnerSeen, TakenSeen, AsksSeen>>

LEMMA PromisedInit == Init => Promised!Init
<1> SUFFICES ASSUME Init PROVE Promised!Init
  OBVIOUS
<1>1. TakenSeen = {}
  BY DEF Init, TakenSeen
<1>2. \A d \in Deliveries : /\ row[d].status = "absent" /\ row[d].attempts = 0
                            /\ row[d].lockedBy = None
  BY DEF Init
<1>3. \A o \in Operators : request[o] = NoRequest
  BY DEF Init
<1> QED BY <1>1, <1>2, <1>3 DEF Promised!Init, TakenSeen

\* The clock, and what a worker does for itself, nobody sees.
LEMMA Unseen ==
  ASSUME NoticeInv, [Next]_vars,
         \/ Tick
         \/ \E w \in Workers :
              Select(w) \/ Check(w) \/ CannotSend(w) \/ Abandon(w) \/ Crash(w)
         \/ UNCHANGED vars
  PROVE  UNCHANGED Seen
<1>1. CASE Tick
  <2>1. ASSUME NEW d \in Deliveries
        PROVE  /\ row'[d].status = row[d].status /\ row'[d].attempts = row[d].attempts
               /\ row'[d].lockedBy = row[d].lockedBy
    BY <1>1 DEF Tick, NoticeInv, TypeOK, DeliveryRow
  <2>2. UNCHANGED <<request, accepted>>
    BY <1>1 DEF Tick
  <2> QED BY <2>1, <2>2 DEF Seen, StatusSeen, TriesSeen, OwnerSeen, TakenSeen, AsksSeen
<1>2. CASE ~Tick
  <2>1. UNCHANGED <<row, request, accepted>>
    BY <1>2 DEF Select, Check, CannotSend, Abandon, Crash, vars
  <2> QED BY <2>1 DEF Seen, StatusSeen, TriesSeen, OwnerSeen, TakenSeen, AsksSeen
<1> QED BY <1>1, <1>2

LEMMA DispatchPuts ==
  ASSUME NoticeInv, NEW d \in Deliveries, Dispatch(d)
  PROVE  Promised!Put(d)
<1>1. row \in [Deliveries -> DeliveryRow] /\ row[d].status = "absent"
      /\ row' = [row EXCEPT ![d].status = "pending"] /\ UNCHANGED <<request, accepted>>
  BY DEF NoticeInv, TypeOK, Dispatch
<1>2. ASSUME NEW e \in Deliveries
      PROVE  /\ row'[e].status = IF e = d THEN "pending" ELSE row[e].status
             /\ row'[e].attempts = row[e].attempts /\ row'[e].lockedBy = row[e].lockedBy
  BY <1>1 DEF DeliveryRow
<1> QED BY <1>1, <1>2 DEF Promised!Put

\* A claim is a Take, also of a row whose holder is given up.
LEMMA ClaimTakes ==
  ASSUME NoticeInv, NEW w \in Workers, Claim(w)
  PROVE  \E S \in SUBSET Deliveries : Promised!Take(w, S)
<1> DEFINE lag == worker[w].spent
<1>0. {d \in worker[w].todo : Claimable(d, lag)} \in SUBSET Deliveries
  BY DEF NoticeInv, TypeOK, WorkerState
<1> PICK S \in SUBSET Deliveries : S = {d \in worker[w].todo : Claimable(d, lag)}
  BY <1>0
<1>1. row \in [Deliveries -> DeliveryRow]
  BY DEF NoticeInv, TypeOK
<1>2. \A d \in S : row[d].status = "pending"
  BY DEF Claimable
<1>3. /\ row' = [d \in Deliveries |->
                  IF d \in S THEN [row[d] EXCEPT !.lockedBy = w, !.age = lag] ELSE row[d]]
      /\ UNCHANGED <<request, accepted>>
  BY DEF Claim
<1> HIDE DEF lag
<1>4. ASSUME NEW d \in Deliveries
      PROVE  /\ row'[d].lockedBy = IF d \in S THEN w ELSE row[d].lockedBy
             /\ row'[d].status = row[d].status /\ row'[d].attempts = row[d].attempts
  BY <1>1, <1>3 DEF DeliveryRow
<1>5. Promised!Take(w, S)
  <2>1. /\ StatusSeen' = StatusSeen /\ TriesSeen' = TriesSeen
        /\ TakenSeen' = TakenSeen /\ AsksSeen' = AsksSeen
    BY <1>3, <1>4 DEF StatusSeen, TriesSeen, TakenSeen, AsksSeen
  <2>2. OwnerSeen' = [e \in Deliveries |-> IF e \in S THEN w ELSE OwnerSeen[e]]
    BY <1>4 DEF OwnerSeen
  <2>3. \A e \in S : StatusSeen[e] = "pending"
    BY <1>1, <1>2 DEF StatusSeen
  <2> QED BY <2>1, <2>2, <2>3
       DEF Promised!Take, StatusSeen, TriesSeen, OwnerSeen, TakenSeen, AsksSeen
<1> QED BY <1>5

\* A delivery that the endpoint accepts is an Accept, whoever holds the row by now and
\* whatever the worker hears; of any other nothing is seen.
LEMMA SendAccepts ==
  ASSUME NoticeInv, Listed, NEW w \in Workers, Send(w)
  PROVE  UNCHANGED Seen \/ \E d \in Deliveries : Promised!Accept(d)
<1>0. worker[w].current \in Deliveries
  BY DEF Send, NoticeInv, TypeOK, WorkerOK, Busy
<1> PICK d \in Deliveries : d = worker[w].current
  BY <1>0
<1>1. /\ row[d].status # "absent"
      /\ accepted \in [Deliveries -> 0..2] /\ UNCHANGED <<row, request>>
  BY DEF Send, NoticeInv, TypeOK, Busy, Listed
<1>2. accepted' = accepted \/ accepted' = [accepted EXCEPT ![d] = @ + 1]
  BY DEF Send
<1>3. CASE accepted' = accepted
  BY <1>1, <1>3 DEF Seen, StatusSeen, TriesSeen, OwnerSeen, TakenSeen, AsksSeen
<1>4. CASE accepted' = [accepted EXCEPT ![d] = @ + 1]
  <2>1. accepted[d] \in Nat /\ accepted'[d] = accepted[d] + 1
    BY <1>1, <1>4
  <2>2. TakenSeen' = TakenSeen \union {d}
    BY <1>1, <1>4, <2>1 DEF TakenSeen
  <2>3. Promised!Accept(d)
    BY <1>1, <2>2 DEF Promised!Accept, TakenSeen
  <2> QED BY <2>3
<1> QED BY <1>2, <1>3, <1>4

\* A mark of the row's holder ends its attempt; any other mark changes nothing.
LEMMA MarkEnds ==
  ASSUME NoticeInv, NEW w \in Workers, Mark(w)
  PROVE  \/ UNCHANGED Seen
         \/ \E d \in Deliveries, outcome \in {"succeeded", "failed", "pending"} :
              Promised!EndAttempt(d, w, outcome)
<1> DEFINE d == worker[w].current
<1>1. /\ d \in Deliveries /\ row \in [Deliveries -> DeliveryRow]
      /\ worker[w].step = "answered" /\ UNCHANGED <<request, accepted>>
  BY DEF Mark, NoticeInv, TypeOK, WorkerOK, Busy
<1>2. CASE ~Held(w, d)
  <2>1. row' = row
    BY <1>2 DEF Mark
  <2> QED BY <1>1, <2>1 DEF Seen, StatusSeen, TriesSeen, OwnerSeen, TakenSeen, AsksSeen
<1>3. CASE Held(w, d)
  <2>1. PICK r \in Outcome(w, row[d]) : row' = [row EXCEPT ![d] = r]
    BY <1>3 DEF Mark
  <2>2. /\ r.lockedBy = None /\ r.status \in {"pending", "failed", "succeeded"}
        /\ r.status = "pending" => r.attempts < MaxAttempts
        /\ r.status = "succeeded" => accepted[d] > 0
    BY <1>1, <1>3, <2>1, OutcomeRow
  <2>3. r.attempts = row[d].attempts + 1
    BY <2>1 DEF Outcome, Marked
  <2>4. row[d].status = "pending" /\ row[d].lockedBy = w
    BY <1>3 DEF Held
  <2> HIDE DEF d
  <2>5. ASSUME NEW e \in Deliveries
        PROVE  row'[e] = IF e = d THEN r ELSE row[e]
    BY <1>1, <2>1
  <2>6. Promised!EndAttempt(d, w, r.status)
    BY <1>1, <2>2, <2>3, <2>4, <2>5 DEF Promised!EndAttempt
  <2> QED BY <1>1, <2>2, <2>6
<1> QED BY <1>2, <1>3

\* The requests of the operators.
LEMMA OperateSeen ==
  ASSUME NoticeInv, NEW o \in Operators, Operate(o)
  PROVE  \/ \E d \in Deliveries : Promised!Ask(o, d)
         \/ Promised!Replay(o) \/ Promised!Cancel(o) \/ Promised!Withdraw(o)
<1>0. /\ row \in [Deliveries -> DeliveryRow] /\ request \in [Operators -> Request]
      /\ None \notin Deliveries
  BY DeliveryAssumption DEF NoticeInv, TypeOK
<1>1. ASSUME NEW op \in {"replay", "cancel"}, NEW d \in Deliveries, OperateBegin(o, op, d)
      PROVE  Promised!Ask(o, d)
  <2> DEFINE q == [op |-> op, delivery |-> d]
  <2>1. /\ request[o] = NoRequest /\ row[d].status \in {"pending", "failed"}
        /\ request' = [request EXCEPT ![o] = q] /\ UNCHANGED <<row, accepted>>
    BY <1>1 DEF OperateBegin
  <2>2. q # NoRequest /\ q.delivery = d
    BY DEF NoRequest
  <2> HIDE DEF q
  <2>3. \A p \in Operators : request'[p] = IF p = o THEN q ELSE request[p]
    BY <1>0, <2>1
  <2> QED BY <1>0, <2>1, <2>2, <2>3 DEF Promised!Ask
<1>2. CASE OperateAbort(o)
  <2>1. /\ request[o] # NoRequest /\ request' = [request EXCEPT ![o] = NoRequest]
        /\ UNCHANGED <<row, accepted>>
    BY <1>2 DEF OperateAbort
  <2>2. request[o].delivery \in Deliveries
    BY <1>0, <2>1 DEF Request
  <2>3. \A p \in Operators : request'[p] = IF p = o THEN NoRequest ELSE request[p]
    BY <1>0, <2>1
  <2> QED BY <1>0, <2>1, <2>2, <2>3 DEF Promised!Withdraw
<1>3. CASE OperateCommit(o)
  <2> DEFINE d == request[o].delivery
             op == request[o].op
  <2>1. PICK l \in 0..MaxLag : row' = [row EXCEPT ![d] = Operated(row[d], op, 0 - l)]
    BY <1>3 DEF OperateCommit
  <2>2. /\ request[o] # NoRequest /\ request' = [request EXCEPT ![o] = NoRequest]
        /\ UNCHANGED accepted
    BY <1>3 DEF OperateCommit
  <2>3. d \in Deliveries /\ op \in {"replay", "cancel"}
    BY <1>0, <2>2 DEF Request
  <2> DEFINE r == Operated(row[d], op, 0 - l)
  <2>4. /\ r.lockedBy = None /\ r.status = IF op = "replay" THEN "pending" ELSE "canceled"
        /\ r.attempts = IF op = "replay" THEN 0 ELSE row[d].attempts
    BY DEF Operated
  <2>5. \A p \in Operators : request'[p] = IF p = o THEN NoRequest ELSE request[p]
    BY <1>0, <2>2
  <2>6. AsksSeen[o] = d /\ AsksSeen' = [AsksSeen EXCEPT ![o] = None]
    <3>1. AsksSeen[o] = d
      BY <2>2 DEF AsksSeen
    <3>2. \A p \in Operators :
            AsksSeen'[p] = IF p = o THEN None ELSE AsksSeen[p]
      BY <2>5 DEF AsksSeen
    <3>3. /\ AsksSeen = [p \in Operators |-> AsksSeen[p]]
          /\ AsksSeen' = [p \in Operators |-> AsksSeen'[p]]
      BY DEF AsksSeen
    <3> QED BY <3>1, <3>2, <3>3
  <2> HIDE DEF r
  <2>7. \A e \in Deliveries : row'[e] = IF e = d THEN r ELSE row[e]
    BY <1>0, <2>1, <2>3 DEF r
  <2> HIDE DEF d, op
  <2>8. /\ StatusSeen' = [StatusSeen EXCEPT ![d] = r.status]
         /\ TriesSeen' = [TriesSeen EXCEPT ![d] = r.attempts]
         /\ OwnerSeen' = [OwnerSeen EXCEPT ![d] = None]
    BY <2>3, <2>4, <2>7 DEF StatusSeen, TriesSeen, OwnerSeen
  <2>9. TakenSeen' = TakenSeen
    BY <2>2 DEF TakenSeen
  <2>10. AsksSeen[o] # None
    BY <1>0, <2>3, <2>6
  <2>11. CASE op = "replay"
    <3>1. /\ StatusSeen' = [StatusSeen EXCEPT ![AsksSeen[o]] = "pending"]
          /\ TriesSeen' = [TriesSeen EXCEPT ![AsksSeen[o]] = 0]
          /\ OwnerSeen' = [OwnerSeen EXCEPT ![AsksSeen[o]] = None]
      BY <2>4, <2>6, <2>11, <2>8
    <3>2. Promised!Replay(o)
      BY <2>6, <2>9, <2>10, <3>1
         DEF Promised!Replay, StatusSeen, TriesSeen, OwnerSeen, TakenSeen, AsksSeen
    <3> QED BY <3>2
  <2>12. CASE op = "cancel"
    <3>1. /\ StatusSeen' = [StatusSeen EXCEPT ![AsksSeen[o]] = "canceled"]
          /\ TriesSeen' = TriesSeen
          /\ OwnerSeen' = [OwnerSeen EXCEPT ![AsksSeen[o]] = None]
      BY <2>3, <2>4, <2>6, <2>7, <2>12, <2>8 DEF TriesSeen
    <3>2. Promised!Cancel(o)
      BY <2>6, <2>9, <2>10, <3>1
         DEF Promised!Cancel, StatusSeen, TriesSeen, OwnerSeen, TakenSeen, AsksSeen
    <3> QED BY <3>2
  <2> QED BY <2>3, <2>11, <2>12
<1> QED BY <1>1, <1>2, <1>3 DEF Operate

LEMMA PromisedStep == NoticeInv /\ Listed /\ [Next]_vars => [Promised!Next]_(Promised!vars)
<1> SUFFICES ASSUME NoticeInv, Listed, [Next]_vars
             PROVE  Promised!Next \/ UNCHANGED Seen
  BY DEF Promised!vars, Seen, StatusSeen, TriesSeen, OwnerSeen, TakenSeen, AsksSeen
<1>1. CASE \/ Tick
           \/ \E w \in Workers :
                Select(w) \/ Check(w) \/ CannotSend(w) \/ Abandon(w) \/ Crash(w)
           \/ UNCHANGED vars
  BY <1>1, Unseen
<1>2. CASE \E d \in Deliveries : Dispatch(d)
  BY <1>2, DispatchPuts DEF Promised!Next
<1>3. CASE \E w \in Workers : Claim(w)
  BY <1>3, ClaimTakes DEF Promised!Next
<1>4. CASE \E w \in Workers : Send(w)
  BY <1>4, SendAccepts DEF Promised!Next
<1>5. CASE \E w \in Workers : Mark(w)
  BY <1>5, MarkEnds DEF Promised!Next
<1>6. CASE \E o \in Operators : Operate(o)
  BY <1>6, OperateSeen DEF Promised!Next
<1> QED BY <1>1, <1>2, <1>3, <1>4, <1>5, <1>6 DEF Next, Work

\* Whatever workers, operators, crashes and slow calls do, table notice_deliveries is
\* the outbox that is promised: every step is one of Outbox, or none that is seen.
THEOREM OutboxImplemented == Spec => ImplementsOutbox
<1> QED
  BY Invariance, PromisedInit, PromisedStep, ListedInit, ListedStep, PTL
  DEF Spec, ImplementsOutbox, Promised!Spec
=============================================================================
