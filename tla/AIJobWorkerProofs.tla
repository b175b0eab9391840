-------------------------- MODULE AIJobWorkerProofs --------------------------
(***************************************************************************)
(* Proofs about AIJobWorker, for any number of workers, faults and         *)
(* attempts and all times.                                                 *)
(***************************************************************************)
EXTENDS AIJobWorker, TLAPS

LEMMA Times ==
  /\ None \notin Workers
  /\ LeaseTTL \in Nat /\ Heartbeat \in Nat /\ MaxAttempts \in Nat
  /\ LeaseTTL > 0 /\ Heartbeat > 0 /\ MaxAttempts > 0
  /\ MaxWait \in Nat /\ RetryDelay \in Nat /\ MaxFaults \in Nat
BY WorkerAssumption

LEMMA LossDelayIsTime == LossDelay \in Nat
<1>1. MaxAttempts - 1 \in Nat
  BY Times
<1>2. MaxAttempts * MaxWait \in Nat /\ (MaxAttempts - 1) * RetryDelay \in Nat
  BY <1>1, Times
<1>3. QED
  BY <1>2, Times DEF LossDelay

-----------------------------------------------------------------------------
(* Shape.                                                                  *)

LEMMA RequestShape ==
  ASSUME TypeOK, NEW w \in Workers
  PROVE  /\ BeatRequest(w) \in Request
         /\ main[w].step \in Asking => MainRequest(w) \in Request
         /\ MainLeft(w) \subseteq Request /\ BeatLeft(w) \subseteq Request
BY DEF TypeOK, BeatRequest, MainRequest, MainLeft, BeatLeft, Request, Main, Asking, Op

LEMMA PendingShape ==
  ASSUME NEW S, NEW T, S \subseteq T
  PROVE  Pending(S) \subseteq SUBSET T
BY DEF Pending

LEMMA HandledShape ==
  ASSUME TypeOK, NEW r \in Request, NEW lag \in Nat, Handled(r, lag)
  PROVE  /\ row' \in [status : {"queued", "running"} \cup Terminal,
                      owner : Workers \cup {None}, age : Nat]
         /\ row'.owner # None <=> row'.status = "running"
         /\ alone' \in [Workers -> 0..LossDelay + 1]
<1>1. r.by \in Workers
  BY DEF Request
<1>2. r.by # None
  BY <1>1, Times
<1>3. alone' \in [Workers -> 0..LossDelay + 1]
  BY <1>1, LossDelayIsTime DEF TypeOK, Handled
<1>4. r.op \in Terminal => r.op # "running"
  BY DEF Terminal
<1>5. QED
  BY <1>1, <1>2, <1>3, <1>4 DEF TypeOK, Handled

LEMMA Firsts == 1 \in 1..MaxAttempts /\ {0, Heartbeat} \subseteq 0..Heartbeat
BY Times

LEMMA MainFields ==
  ASSUME NEW m \in Main
  PROVE  /\ m \in [step : {"idle", "listed", "between", "node"} \cup Asking, failed : BOOLEAN,
                   fallback : BOOLEAN, try : 1..MaxAttempts, age : Nat, answer : Answers]
         /\ InTime(m) /\ m.age \in Nat /\ m.age <= Limit(m)
         /\ m.try \in Nat /\ 1 <= m.try /\ m.try <= MaxAttempts
BY Times DEF Main, InTime

LEMMA BeatFields ==
  ASSUME NEW b \in Beat
  PROVE  /\ b \in [step : {"off", "sleep", "renew"}, left : 0..Heartbeat,
                   try : 1..MaxAttempts, age : Nat, answer : Answers]
         /\ InTime(b) /\ b.age \in Nat /\ b.age <= Limit(b)
         /\ b.try \in Nat /\ 1 <= b.try /\ b.try <= MaxAttempts
         /\ b.left \in Nat /\ b.left <= Heartbeat
BY Times DEF Beat, InTime

LEMMA EndShape ==
  ASSUME NEW m \in Main, NEW f \in BOOLEAN, NEW b \in BOOLEAN
  PROVE  [m EXCEPT !.failed = f] \in Main /\ [m EXCEPT !.failed = f, !.fallback = b] \in Main
BY DEF Main, InTime, Limit

LEMMA MainShape ==
  ASSUME NEW m \in Main
  PROVE  /\ [m EXCEPT !.step = "listed"] \in Main
         /\ [m EXCEPT !.step = "start"] \in Main
         /\ [m EXCEPT !.step = "node"] \in Main
         /\ [m EXCEPT !.step = "between", !.failed = TRUE] \in Main
         /\ m.age < Limit(m) => [m EXCEPT !.age = @ + 1] \in Main
         /\ m.answer = "lost" => Again(m) \in Main
         /\ m.try < MaxAttempts => GaveUp(m) \in Main
         /\ m.answer = "none" =>
              [m EXCEPT !.answer = "ok"] \in Main /\ [m EXCEPT !.answer = "refused"] \in Main
<1>1. /\ [m EXCEPT !.step = "listed"] \in Main
      /\ [m EXCEPT !.step = "start"] \in Main
      /\ [m EXCEPT !.step = "node"] \in Main
  BY DEF Main, Asking, InTime, Limit
<1>2. [m EXCEPT !.step = "between", !.failed = TRUE] \in Main
  BY DEF Main, InTime, Limit
<1>3. m.age < Limit(m) => [m EXCEPT !.age = @ + 1] \in Main
  BY Times DEF Main, InTime, Limit
<1>4. ASSUME m.answer = "lost"
      PROVE  Again(m) \in Main
  <2>1. m.try + 1 \in 1..MaxAttempts
    BY <1>4, Times, MainFields DEF InTime
  <2> DEFINE n == Again(m)
  <2>2. /\ n \in [step : {"idle", "listed", "between", "node"} \cup Asking, failed : BOOLEAN,
                  fallback : BOOLEAN, try : 1..MaxAttempts, age : Nat, answer : Answers]
        /\ n.age = 0 /\ n.answer = "none"
    BY <2>1, MainFields DEF Again, Answers
  <2> HIDE DEF n
  <2>3. n \in Main
    BY <2>2, Times DEF Main, InTime, Limit
  <2>4. QED
    BY <2>3 DEF n
<1>5. ASSUME m.try < MaxAttempts
      PROVE  GaveUp(m) \in Main
  <2> DEFINE n == GaveUp(m)
  <2>1. /\ n \in [step : {"idle", "listed", "between", "node"} \cup Asking, failed : BOOLEAN,
                  fallback : BOOLEAN, try : 1..MaxAttempts, age : Nat, answer : Answers]
        /\ n.age = 0 /\ n.try = m.try
    BY MainFields DEF GaveUp, Answers
  <2> HIDE DEF n
  <2>2. n \in Main
    BY <1>5, <2>1, Times DEF Main, InTime, Limit
  <2>3. QED
    BY <2>2 DEF n
<1>6. m.answer = "none" =>
        [m EXCEPT !.answer = "ok"] \in Main /\ [m EXCEPT !.answer = "refused"] \in Main
  BY DEF Main, InTime, Limit, Answers
<1>7. QED
  BY <1>1, <1>2, <1>3, <1>4, <1>5, <1>6

LEMMA AskedShape ==
  ASSUME NEW m \in Main, NEW step \in {"between", "report", "audit", "end"}
  PROVE  /\ Asked(m, step) \in Main
         /\ Asked(m, step).step = step
         /\ Asked(m, step).failed = m.failed /\ Asked(m, step).fallback = m.fallback
         /\ Asked(m, step).answer = "none" /\ Asked(m, step).try = 1 /\ Asked(m, step).age = 0
<1> DEFINE n == Asked(m, step)
<1>0. /\ n \in [step : {"idle", "listed", "between", "node"} \cup Asking, failed : BOOLEAN,
                fallback : BOOLEAN, try : 1..MaxAttempts, age : Nat, answer : Answers]
      /\ n.age = 0 /\ n.answer = "none" /\ n.try = 1 /\ n.step = step
      /\ n.failed = m.failed /\ n.fallback = m.fallback
  BY Firsts, MainFields DEF Asked, Asking, Answers
<1> HIDE DEF n
<1>1. n \in Main
  BY <1>0, Times DEF Main, InTime, Limit
<1>2. QED
  BY <1>0, <1>1 DEF n

LEMMA BeatShape ==
  /\ Off \in Beat /\ Asleep \in Beat /\ [Off EXCEPT !.step = "renew"] \in Beat
  /\ \A b \in Beat :
       /\ b.answer = "lost" => Again(b) \in Beat
       /\ b.try < MaxAttempts => GaveUp(b) \in Beat
       /\ b.answer = "none" =>
            [b EXCEPT !.answer = "ok"] \in Beat /\ [b EXCEPT !.answer = "refused"] \in Beat
       /\ b.age < Limit(b) => [b EXCEPT !.age = @ + 1] \in Beat
       /\ b.left > 0 => [b EXCEPT !.left = @ - 1] \in Beat
<1>1. Off \in Beat
  BY Firsts, Times DEF Off, Beat, InTime, Limit, Answers
<1>2. Asleep \in Beat
  <2>1. Asleep \in [step : {"off", "sleep", "renew"}, left : 0..Heartbeat,
                    try : 1..MaxAttempts, age : Nat, answer : Answers]
    BY Firsts, Times DEF Asleep, Off, Answers
  <2>2. Asleep.age = 0 /\ Asleep.answer = "none"
    BY DEF Asleep, Off
  <2>3. QED
    BY <2>1, <2>2, Times DEF Beat, InTime, Limit
<1>3. [Off EXCEPT !.step = "renew"] \in Beat
  BY Firsts, Times DEF Off, Beat, InTime, Limit, Answers
<1>4. ASSUME NEW b \in Beat, b.answer = "lost"
      PROVE  Again(b) \in Beat
  <2>1. b.try + 1 \in 1..MaxAttempts
    BY <1>4, Times, BeatFields DEF InTime
  <2> DEFINE n == Again(b)
  <2>2. /\ n \in [step : {"off", "sleep", "renew"}, left : 0..Heartbeat,
                  try : 1..MaxAttempts, age : Nat, answer : Answers]
        /\ n.age = 0 /\ n.answer = "none"
    BY <2>1, BeatFields DEF Again, Answers
  <2> HIDE DEF n
  <2>3. n \in Beat
    BY <2>2, Times DEF Beat, InTime, Limit
  <2>4. QED
    BY <2>3 DEF n
<1>5. ASSUME NEW b \in Beat, b.try < MaxAttempts
      PROVE  GaveUp(b) \in Beat
  <2> DEFINE n == GaveUp(b)
  <2>1. /\ n \in [step : {"off", "sleep", "renew"}, left : 0..Heartbeat,
                  try : 1..MaxAttempts, age : Nat, answer : Answers]
        /\ n.age = 0 /\ n.try = b.try
    BY BeatFields DEF GaveUp, Answers
  <2> HIDE DEF n
  <2>2. n \in Beat
    BY <1>5, <2>1, Times DEF Beat, InTime, Limit
  <2>3. QED
    BY <2>2 DEF n
<1>6. ASSUME NEW b \in Beat
      PROVE  b.answer = "none" =>
               [b EXCEPT !.answer = "ok"] \in Beat /\ [b EXCEPT !.answer = "refused"] \in Beat
  BY DEF Beat, InTime, Limit, Answers
<1>7. ASSUME NEW b \in Beat
      PROVE  /\ b.age < Limit(b) => [b EXCEPT !.age = @ + 1] \in Beat
             /\ b.left > 0 => [b EXCEPT !.left = @ - 1] \in Beat
  BY Times DEF Beat, InTime, Limit
<1>8. QED
  BY <1>1, <1>2, <1>3, <1>4, <1>5, <1>6, <1>7

LEMMA IdleShape == Idle \in Main
BY Firsts, Times DEF Idle, Main, InTime, Limit, Answers

LEMMA StopShape ==
  ASSUME TypeOK, NEW w \in Workers, Stop(w)
  PROVE  /\ main' \in [Workers -> Main] /\ beat' \in [Workers -> Beat]
         /\ lost' \in [Workers -> BOOLEAN]
BY IdleShape, BeatShape DEF TypeOK, Stop

LEMMA GoesShape ==
  ASSUME TypeOK, NEW w \in Workers, NEW result, main[w].step \in Asking, Goes(w, result)
  PROVE  /\ main' \in [Workers -> Main] /\ beat' \in [Workers -> Beat]
         /\ lost' \in [Workers -> BOOLEAN] /\ believed' \in [Workers -> BOOLEAN]
<1> DEFINE m == main[w]
<1>1. m \in Main /\ Idle \in Main
  BY IdleShape DEF TypeOK
<1>2. CASE m.step = "start" /\ result # "error"
  <2>1. Asked(m, "between") \in Main /\ [Asked(m, "end") EXCEPT !.failed = TRUE, !.fallback = TRUE] \in Main
    BY <1>1, AskedShape, EndShape
  <2>2. QED
    BY <1>1, <1>2, <2>1, BeatShape DEF TypeOK, Goes
<1>3. CASE m.step = "start" /\ result = "error"
  BY <1>1, <1>3 DEF TypeOK, Goes
<1>4. CASE m.step = "report"
  <2>1. [Asked(m, "between") EXCEPT !.failed = (result = "error")] \in Main
    BY <1>1, AskedShape, EndShape
  <2>2. QED
    BY <1>1, <1>4, <2>1 DEF TypeOK, Goes
<1>5. CASE m.step = "audit"
  BY <1>1, <1>5, AskedShape DEF TypeOK, Goes
<1>6. CASE m.step = "end"
  <2>1. CASE Stop(w)
    <3>1. believed' \in [Workers -> BOOLEAN]
      BY <1>1, <1>6, <2>1 DEF TypeOK, Goes, Main
    <3>2. QED
      BY <2>1, <3>1, StopShape
  <2>2. CASE ~Stop(w)
    <3>1. [Asked(m, "audit") EXCEPT !.failed = TRUE, !.fallback = TRUE] \in Main
      BY <1>1, AskedShape, EndShape
    <3>2. QED
      BY <1>1, <1>6, <2>2, <3>1 DEF TypeOK, Goes
  <2>3. QED
    BY <2>1, <2>2
<1>7. QED
  BY <1>2, <1>3, <1>4, <1>5, <1>6 DEF Asking

LEMMA InitShape == Init => TypeOK
<1> SUFFICES ASSUME Init
             PROVE  TypeOK
  OBVIOUS
<1>1. row \in [status : {"queued", "running"} \cup Terminal, owner : Workers \cup {None}, age : Nat]
  BY DEF Init
<1>2. row.owner # None <=> row.status = "running"
  BY DEF Init
<1>3. main \in [Workers -> Main] /\ beat \in [Workers -> Beat]
  BY IdleShape, BeatShape DEF Init
<1>4. 0 \in 0..LossDelay + 1 /\ 0 \in 0..MaxFaults
  BY LossDelayIsTime, Times
<1>5. QED
  BY <1>1, <1>2, <1>3, <1>4 DEF Init, TypeOK, TooSlow

LEMMA NextShape == TypeOK /\ [Next]_vars => TypeOK'
<1> SUFFICES ASSUME TypeOK, [Next]_vars
             PROVE  TypeOK'
  OBVIOUS
<1> USE DEF TypeOK
<1>0. ASSUME NEW w \in Workers
      PROVE  /\ Pending(late \cup BeatLeft(w)) \subseteq SUBSET Request
             /\ Pending(late \cup MainLeft(w) \cup BeatLeft(w)) \subseteq SUBSET Request
             /\ Pending(late \cup MainLeft(w)) \subseteq SUBSET Request
             /\ Pending(late) \subseteq SUBSET Request
  BY RequestShape, PendingShape
<1>1. CASE UNCHANGED vars
  BY <1>1 DEF vars
<1>2. CASE Cancel
  BY <1>2 DEF Cancel, Terminal
<1>3. CASE Tick
  <2>1. main' \in [Workers -> Main]
    BY <1>3, MainShape DEF Tick, Prompt
  <2>2. beat' \in [Workers -> Beat]
    <3>1. ASSUME NEW w \in Workers
          PROVE  beat'[w] \in Beat
      BY <1>3, BeatShape DEF Tick, Prompt
    <3>2. QED
      BY <1>3, <3>1 DEF Tick
  <2>3. alone' \in [Workers -> 0..LossDelay + 1]
    BY <1>3, LossDelayIsTime DEF Tick
  <2>4. late' \subseteq Request
    BY <1>3, PendingShape DEF Tick
  <2>5. QED
    BY <1>3, <2>1, <2>2, <2>3, <2>4 DEF Tick
<1>4. ASSUME NEW w \in Workers, List(w)
      PROVE  TypeOK'
  <2>1. main' \in [Workers -> Main]
    BY <1>4, MainShape DEF List
  <2>2. row' = [row EXCEPT !.status = "queued", !.owner = None, !.age = 0]
    BY <1>4 DEF List
  <2>3. /\ row' \in [status : {"queued", "running"} \cup Terminal, owner : Workers \cup {None},
                       age : Nat]
        /\ row'.owner = None /\ row'.status = "queued"
    BY <2>2
  <2>4. QED
    BY <1>4, <2>1, <2>3 DEF List
<1>5. ASSUME NEW w \in Workers, Start(w) \/ NodeStarts(w) \/ NodeEnds(w)
      PROVE  TypeOK'
  <2>1. Asked(main[w], "report") \in Main
    BY AskedShape
  <2>2. /\ [main[w] EXCEPT !.step = "between", !.failed = TRUE] \in Main
        /\ [main[w] EXCEPT !.step = "start"] \in Main
        /\ [main[w] EXCEPT !.step = "node"] \in Main
    BY MainShape
  <2>4. main' \in [Workers -> Main]
    BY <1>5, <2>1, <2>2 DEF Start, NodeStarts, NodeEnds
  <2>3. QED
    BY <1>5, <2>4 DEF Start, NodeStarts, NodeEnds
<1>6. ASSUME NEW w \in Workers, GraphEnds(w)
      PROVE  TypeOK'
  <2>0. alone' \in [Workers -> 0..LossDelay + 1]
    BY <1>6, LossDelayIsTime DEF GraphEnds
  <2>1. CASE Stop(w)
    <3>1. late' \subseteq Request
      BY <1>0, <1>6 DEF GraphEnds
    <3>2. QED
      BY <1>6, <2>0, <2>1, <3>1, StopShape DEF GraphEnds
  <2>2. CASE ~Stop(w)
    BY <1>6, <2>0, <2>2, AskedShape DEF GraphEnds
  <2>3. QED
    BY <2>1, <2>2
<1>7. ASSUME NEW w \in Workers, Served(w)
      PROVE  TypeOK'
  <2>1. MainRequest(w) \in Request /\ main[w].step \in Asking /\ main[w].answer = "none"
    BY <1>7, RequestShape DEF Served
  <2>2. main' \in [Workers -> Main]
    <3>1. /\ [main[w] EXCEPT !.answer = "ok"] \in Main
          /\ [main[w] EXCEPT !.answer = "refused"] \in Main
      BY <2>1, MainShape
    <3>2. \/ main' = [main EXCEPT ![w] = [main[w] EXCEPT !.answer = "ok"]]
          \/ main' = [main EXCEPT ![w] = [main[w] EXCEPT !.answer = "refused"]]
      BY <1>7 DEF Served
    <3>3. QED
      BY <3>1, <3>2
  <2>3. 0..main[w].age \subseteq Nat
    BY MainFields
  <2>4. CASE UNCHANGED <<row, alone>>
    BY <1>7, <2>2, <2>4 DEF Served
  <2>5. CASE \E lag \in 0..main[w].age : Handled(MainRequest(w), lag)
    BY <1>7, <2>1, <2>2, <2>3, <2>5, HandledShape DEF Served
  <2>6. QED
    BY <1>7, <2>4, <2>5 DEF Served
<1>8. ASSUME NEW w \in Workers, Answered(w)
      PROVE  TypeOK'
  <2>1. main[w].step \in Asking /\ Goes(w, main[w].answer)
    BY <1>8 DEF Answered
  <2>2. late' \subseteq Request
    BY <1>0, <1>8 DEF Answered
  <2>3. QED
    BY <1>8, <2>1, <2>2, GoesShape DEF Answered
<1>9. ASSUME NEW w \in Workers, Unanswered(w)
      PROVE  TypeOK'
  <2>1. faults' \in 0..MaxFaults
    BY <1>9, Times DEF Unanswered, FaultCounted
  <2>2. late' \subseteq Request
    <3> DEFINE S == late \cup MainLeft(w)
                      \cup (IF main'[w].step = "idle" THEN BeatLeft(w) ELSE {})
    <3>1. S \subseteq Request
      BY RequestShape
    <3>2. late' \in Pending(S)
      BY <1>9 DEF Unanswered
    <3> HIDE DEF S
    <3>3. QED
      BY <3>1, <3>2, PendingShape
  <2>3. CASE Goes(w, "error")
    BY <1>9, <2>1, <2>2, <2>3, GoesShape DEF Unanswered
  <2>4. CASE ~Goes(w, "error")
    <3>1. main[w].try < MaxAttempts /\ main' = [main EXCEPT ![w] = GaveUp(@)]
      BY <1>9, <2>4 DEF Unanswered
    <3>2. main' \in [Workers -> Main]
      BY <3>1, MainShape
    <3>3. QED
      BY <1>9, <2>1, <2>2, <2>4, <3>2 DEF Unanswered
  <2>5. QED
    BY <2>3, <2>4
<1>10. ASSUME NEW w \in Workers, Retried(w)
       PROVE  TypeOK'
  BY <1>10, MainShape DEF Retried
<1>11. ASSUME NEW w \in Workers, BeatStarts(w) \/ BeatRetried(w)
       PROVE  TypeOK'
  <2>1. PICK b \in Beat : beat' = [beat EXCEPT ![w] = b]
    BY <1>11, BeatShape DEF BeatStarts, BeatRetried
  <2>2. QED
    BY <1>11, <2>1 DEF BeatStarts, BeatRetried
<1>12. ASSUME NEW w \in Workers, BeatServed(w)
       PROVE  TypeOK'
  <2>1. beat' \in [Workers -> Beat]
    <3>1. /\ [beat[w] EXCEPT !.answer = "ok"] \in Beat
          /\ [beat[w] EXCEPT !.answer = "refused"] \in Beat
      BY <1>12, BeatShape DEF BeatServed
    <3>2. \/ beat' = [beat EXCEPT ![w] = [beat[w] EXCEPT !.answer = "ok"]]
          \/ beat' = [beat EXCEPT ![w] = [beat[w] EXCEPT !.answer = "refused"]]
      BY <1>12 DEF BeatServed
    <3>3. QED
      BY <3>1, <3>2
  <2>2. 0..beat[w].age \subseteq Nat /\ BeatRequest(w) \in Request
    BY RequestShape, BeatFields
  <2>3. CASE UNCHANGED <<row, alone>>
    BY <1>12, <2>1, <2>3 DEF BeatServed
  <2>4. CASE \E lag \in 0..beat[w].age : Handled(BeatRequest(w), lag)
    BY <1>12, <2>1, <2>2, <2>4, HandledShape DEF BeatServed
  <2>5. QED
    BY <1>12, <2>3, <2>4 DEF BeatServed
<1>13. ASSUME NEW w \in Workers, BeatAnswered(w)
       PROVE  TypeOK'
  BY <1>13, BeatShape DEF BeatAnswered, BeatFails
<1>14. ASSUME NEW w \in Workers, BeatUnanswered(w)
       PROVE  TypeOK'
  <2>1. faults' \in 0..MaxFaults
    BY <1>14, Times DEF BeatUnanswered, FaultCounted
  <2>2. beat' \in [Workers -> Beat] /\ lost' \in [Workers -> BOOLEAN]
    <3>1. PICK b \in Beat : beat' = [beat EXCEPT ![w] = b]
      <4>1. CASE BeatFails(w)
        BY <4>1, BeatShape DEF BeatFails
      <4>2. CASE ~BeatFails(w)
        <5>1. beat[w].try < MaxAttempts /\ beat' = [beat EXCEPT ![w] = GaveUp(beat[w])]
          BY <1>14, <4>2 DEF BeatUnanswered
        <5>2. GaveUp(beat[w]) \in Beat
          BY <5>1, BeatShape
        <5>3. QED
          BY <5>1, <5>2
      <4>3. QED
        BY <4>1, <4>2
    <3>2. QED
      BY <1>14, <3>1 DEF BeatUnanswered, BeatFails
  <2>3. late' \subseteq Request
    BY <1>0, <1>14 DEF BeatUnanswered
  <2>4. QED
    BY <1>14, <2>1, <2>2, <2>3 DEF BeatUnanswered
<1>15. ASSUME NEW w \in Workers, Crash(w)
       PROVE  TypeOK'
  <2>1. faults' \in 0..MaxFaults
    BY <1>15, Times DEF Crash
  <2>2. alone' \in [Workers -> 0..LossDelay + 1]
    BY <1>15, LossDelayIsTime DEF Crash
  <2>3. late' \subseteq Request
    BY <1>0, <1>15 DEF Crash
  <2>4. QED
    BY <1>15, <2>1, <2>2, <2>3, StopShape DEF Crash
<1>16. ASSUME NEW r \in late, Late(r)
       PROVE  TypeOK'
  <2>1. r \in Request /\ 0..MaxWait \subseteq Nat
    BY Times
  <2>2. PICK lag \in 0..MaxWait : Handled(r, lag) /\ slow' = (slow \/ TooSlow(lag))
    BY <1>16 DEF Late
  <2>3. QED
    BY <1>16, <2>1, <2>2, HandledShape DEF Late
<1>17. QED
  BY <1>1, <1>2, <1>3, <1>4, <1>5, <1>6, <1>7, <1>8, <1>9, <1>10, <1>11, <1>12, <1>13, <1>14,
     <1>15, <1>16 DEF Next, Runs, Beats, Fails

\* The rows, threads and requests keep their shape: tries, ages and timers stay within
\* their bounds, and only a running job has an owner.
THEOREM TypeCorrect == Spec => []TypeOK
BY InitShape, NextShape, PTL DEF Spec

-----------------------------------------------------------------------------
(* The two threads of a worker.                                            *)

\* The heartbeat thread lives as long as the worker is at work and the lease not lost.
\* After a failed finalize only the last one, as failed, follows.
ThreadsOK ==
  \A w \in Workers :
    /\ Working(w) => (lost[w] <=> beat[w].step = "off")
    /\ ~Working(w) => beat[w].step = "off" /\ ~lost[w]
    /\ main[w].fallback => main[w].failed /\ main[w].step \in {"audit", "end"}

\* Where a thread goes after its request: to rest, into the graph or to the next request.
LEMMA GoesTo ==
  ASSUME TypeOK, ThreadsOK, NEW w \in Workers, NEW result, main[w].step \in Asking,
         Goes(w, result)
  PROVE  \E n \in Main :
           /\ main' = [main EXCEPT ![w] = n]
           /\ n.answer = "none" /\ n.try = 1 /\ n.age = 0
           /\ n.fallback => n.failed /\ n.step \in {"audit", "end"}
           /\ \/ /\ n = Idle /\ Stop(w) /\ main[w].step = "end"
                 /\ result \in {"ok", "error"} \/ main[w].fallback
              \/ /\ n = Idle /\ UNCHANGED <<beat, lost>>
                 /\ main[w].step = "start" /\ result = "error"
              \/ /\ n.step \in {"between", "end"} /\ main[w].step = "start"
                 /\ beat' = [beat EXCEPT ![w] = Asleep] /\ lost' = lost
              \/ /\ n.step \in {"between", "audit", "end"} /\ main[w].step # "start"
                 /\ UNCHANGED <<beat, lost>>
                 /\ main[w].step = "end" => result # "ok" /\ ~main[w].fallback
                 /\ main[w].step = "report" => n.step = "between"
                 /\ main[w].step = "audit" => n.step = "end"
<1> DEFINE m == main[w]
<1>0. /\ m \in Main /\ Idle \in Main /\ Idle.answer = "none" /\ Idle.try = 1 /\ Idle.age = 0
      /\ ~Idle.fallback
      /\ m.fallback => m.failed /\ m.step \in {"audit", "end"}
  BY IdleShape DEF TypeOK, ThreadsOK, Idle
<1>1. ASSUME NEW step \in {"between", "audit", "end"}
      PROVE  LET a == Asked(m, step) IN
             /\ a \in Main /\ a.step = step /\ a.failed = m.failed /\ a.fallback = m.fallback
             /\ a.answer = "none" /\ a.try = 1 /\ a.age = 0
  BY <1>0, AskedShape
<1>2. ASSUME NEW a \in Main, NEW f \in BOOLEAN
      PROVE  LET n == [a EXCEPT !.failed = f]
                 k == [a EXCEPT !.failed = f, !.fallback = TRUE] IN
             /\ n \in Main /\ n.step = a.step /\ n.failed = f /\ n.fallback = a.fallback
             /\ n.answer = a.answer /\ n.try = a.try /\ n.age = a.age
             /\ k \in Main /\ k.step = a.step /\ k.failed = f /\ k.fallback
             /\ k.answer = a.answer /\ k.try = a.try /\ k.age = a.age
  BY EndShape, MainFields
<1>3. CASE m.step = "start" /\ result = "error"
  BY <1>0, <1>3 DEF Goes
<1>4. CASE m.step = "start" /\ result # "error"
  <2>1. CASE main' = [main EXCEPT ![w] = Asked(m, "between")]
    <3>1. PICK n \in Main : n = Asked(m, "between")
      BY <1>1
    <3>2. /\ n.answer = "none" /\ n.try = 1 /\ n.age = 0 /\ n.step = "between" /\ ~n.fallback
      BY <1>0, <1>1, <1>4, <3>1
    <3>3. QED
      BY <1>4, <2>1, <3>1, <3>2 DEF Goes
  <2>2. CASE main' = [main EXCEPT ![w] = [Asked(m, "end") EXCEPT !.failed = TRUE, !.fallback = TRUE]]
    <3>1. PICK n \in Main : n = [Asked(m, "end") EXCEPT !.failed = TRUE, !.fallback = TRUE]
      BY <1>1, <1>2
    <3>2. /\ n.answer = "none" /\ n.try = 1 /\ n.age = 0 /\ n.step = "end" /\ n.failed
      <4>1. PICK a \in Main : a = Asked(m, "end")
        BY <1>1
      <4>2. a.answer = "none" /\ a.try = 1 /\ a.age = 0 /\ a.step = "end"
        BY <1>1, <4>1
      <4>3. LET k == [a EXCEPT !.failed = TRUE, !.fallback = TRUE] IN
            k.step = a.step /\ k.failed /\ k.answer = a.answer /\ k.try = a.try /\ k.age = a.age
        BY <1>2
      <4>4. n = [a EXCEPT !.failed = TRUE, !.fallback = TRUE]
        BY <3>1, <4>1
      <4>5. QED
        BY <4>2, <4>3, <4>4
    <3>3. QED
      BY <1>4, <2>2, <3>1, <3>2 DEF Goes
  <2>3. QED
    BY <1>4, <2>1, <2>2 DEF Goes
<1>5. CASE m.step = "report"
  <2>1. PICK n \in Main : n = [Asked(m, "between") EXCEPT !.failed = (result = "error")]
    BY <1>1, <1>2
  <2>2. /\ n.answer = "none" /\ n.try = 1 /\ n.age = 0 /\ n.step = "between" /\ ~n.fallback
    <3>1. PICK a \in Main, f \in BOOLEAN : a = Asked(m, "between") /\ f = (result = "error")
      BY <1>1
    <3>2. /\ a.answer = "none" /\ a.try = 1 /\ a.age = 0 /\ a.step = "between" /\ ~a.fallback
      BY <1>0, <1>1, <1>5, <3>1
    <3>3. LET k == [a EXCEPT !.failed = f] IN
          k.step = a.step /\ k.fallback = a.fallback /\ k.answer = a.answer /\ k.try = a.try
          /\ k.age = a.age
      BY <1>2
    <3>4. n = [a EXCEPT !.failed = f]
      BY <2>1, <3>1
    <3>5. QED
      BY <3>2, <3>3, <3>4
  <2>3. main' = [main EXCEPT ![w] = n] /\ UNCHANGED <<beat, lost>>
    BY <1>5, <2>1 DEF Goes
  <2>4. QED
    BY <1>5, <2>2, <2>3
<1>6. CASE m.step = "audit"
  <2>1. PICK n \in Main : n = Asked(m, "end")
    BY <1>1
  <2>2. /\ n.answer = "none" /\ n.try = 1 /\ n.age = 0 /\ n.step = "end"
        /\ n.fallback = m.fallback /\ n.failed = m.failed
    BY <1>1, <2>1
  <2>3. main' = [main EXCEPT ![w] = n] /\ UNCHANGED <<beat, lost>>
    BY <1>6, <2>1 DEF Goes
  <2>4. QED
    BY <1>0, <1>6, <2>2, <2>3
<1>7. CASE m.step = "end" /\ Stop(w) /\ (result \in {"ok", "error"} \/ m.fallback)
  BY <1>0, <1>7 DEF Stop
<1>8. CASE m.step = "end" /\ ~(Stop(w) /\ (result \in {"ok", "error"} \/ m.fallback))
  <2>1. /\ result # "ok" /\ ~m.fallback /\ UNCHANGED <<beat, lost>>
        /\ main' = [main EXCEPT ![w] = [Asked(m, "audit") EXCEPT !.failed = TRUE, !.fallback = TRUE]]
    BY <1>8 DEF Goes
  <2>2. PICK n \in Main : n = [Asked(m, "audit") EXCEPT !.failed = TRUE, !.fallback = TRUE]
    BY <1>1, <1>2
  <2>3. /\ n.answer = "none" /\ n.try = 1 /\ n.age = 0 /\ n.step = "audit" /\ n.failed
    <3>1. PICK a \in Main : a = Asked(m, "audit")
      BY <1>1
    <3>2. a.answer = "none" /\ a.try = 1 /\ a.age = 0 /\ a.step = "audit"
      BY <1>1, <3>1
    <3>3. LET k == [a EXCEPT !.failed = TRUE, !.fallback = TRUE] IN
          k.step = a.step /\ k.failed /\ k.answer = a.answer /\ k.try = a.try /\ k.age = a.age
      BY <1>2
    <3>4. n = [a EXCEPT !.failed = TRUE, !.fallback = TRUE]
      BY <2>2, <3>1
    <3>5. QED
      BY <3>2, <3>3, <3>4
  <2>4. QED
    BY <1>8, <2>1, <2>2, <2>3
<1>9. QED
  BY <1>3, <1>4, <1>5, <1>6, <1>7, <1>8 DEF Asking

LEMMA MainAttempt ==
  ASSUME NEW m \in Main, NEW n,
         \/ n = Again(m) \/ n = GaveUp(m)
         \/ n = [m EXCEPT !.answer = "ok"] \/ n = [m EXCEPT !.answer = "refused"]
  PROVE  n.step = m.step /\ n.failed = m.failed /\ n.fallback = m.fallback
BY MainFields DEF Again, GaveUp

LEMMA BeatAttempt ==
  ASSUME NEW b \in Beat, NEW n,
         \/ n = Again(b) \/ n = GaveUp(b)
         \/ n = [b EXCEPT !.answer = "ok"] \/ n = [b EXCEPT !.answer = "refused"]
  PROVE  n.step = b.step
BY BeatFields DEF Again, GaveUp

LEMMA GoesThreads ==
  ASSUME TypeOK, ThreadsOK, NEW w \in Workers, NEW result, main[w].step \in Asking,
         Goes(w, result)
  PROVE  ThreadsOK'
<1>0. /\ main \in [Workers -> Main] /\ beat \in [Workers -> Beat] /\ lost \in [Workers -> BOOLEAN]
      /\ Idle.step = "idle" /\ Off.step = "off" /\ Asleep.step = "sleep"
  BY DEF TypeOK, Idle, Off, Asleep
<1>1. PICK n \in Main :
        /\ main' = [main EXCEPT ![w] = n]
        /\ n.fallback => n.failed /\ n.step \in {"audit", "end"}
        /\ \/ /\ n = Idle /\ Stop(w) /\ main[w].step = "end"
           \/ /\ n = Idle /\ UNCHANGED <<beat, lost>> /\ main[w].step = "start"
           \/ /\ n.step \in {"between", "end"} /\ main[w].step = "start"
              /\ beat' = [beat EXCEPT ![w] = Asleep] /\ lost' = lost
           \/ /\ n.step \in {"between", "audit", "end"} /\ main[w].step # "start"
              /\ UNCHANGED <<beat, lost>>
  BY GoesTo
<1>2. ASSUME NEW v \in Workers, v # w
      PROVE  main'[v] = main[v] /\ beat'[v] = beat[v] /\ lost'[v] = lost[v]
  BY <1>0, <1>1, <1>2 DEF Stop
<1>3. /\ main'[w].step \notin {"idle", "listed", "start"} => (lost'[w] <=> beat'[w].step = "off")
      /\ main'[w].step \in {"idle", "listed", "start"} => beat'[w].step = "off" /\ ~lost'[w]
      /\ main'[w].fallback => main'[w].failed /\ main'[w].step \in {"audit", "end"}
  BY <1>0, <1>1 DEF Stop, ThreadsOK, Working, Asking
<1>4. QED
  BY <1>2, <1>3 DEF ThreadsOK, Working

LEMMA ThreadsNext == TypeOK /\ ThreadsOK /\ [Next]_vars => ThreadsOK'
<1> SUFFICES ASSUME TypeOK, ThreadsOK, [Next]_vars
             PROVE  ThreadsOK'
  OBVIOUS
<1> USE DEF ThreadsOK, Working
<1>0. /\ main \in [Workers -> Main] /\ beat \in [Workers -> Beat]
      /\ lost \in [Workers -> BOOLEAN]
  BY DEF TypeOK
<1>1. CASE UNCHANGED <<main, beat, lost>>
  BY <1>1
<1>2. CASE Tick
  <2>1. \A w \in Workers : /\ main'[w].step = main[w].step
                           /\ main'[w].failed = main[w].failed
                           /\ main'[w].fallback = main[w].fallback
                           /\ beat'[w].step = beat[w].step
    BY <1>0, <1>2, MainFields, BeatFields DEF Tick
  <2>2. lost' = lost
    BY <1>2 DEF Tick
  <2>3. QED
    BY <2>1, <2>2
<1>3. ASSUME NEW w \in Workers, List(w) \/ Start(w) \/ NodeStarts(w)
      PROVE  ThreadsOK'
  BY <1>0, <1>3, MainFields DEF List, Start, NodeStarts
<1>4. ASSUME NEW w \in Workers, NodeEnds(w)
      PROVE  ThreadsOK'
  <2>1. ~main[w].fallback
    BY <1>4 DEF NodeEnds
  <2>2. PICK n \in Main : /\ main' = [main EXCEPT ![w] = n]
                          /\ n.step \in {"report", "between"} /\ ~n.fallback
    <3>1. PICK a \in Main, c \in Main : /\ a = Asked(main[w], "report")
                                        /\ c = [main[w] EXCEPT !.step = "between", !.failed = TRUE]
      BY <1>0, AskedShape, MainShape
    <3>2. a.step = "report" /\ ~a.fallback /\ c.step = "between" /\ ~c.fallback
      BY <1>0, <2>1, <3>1, AskedShape, MainFields
    <3>3. QED
      BY <1>4, <3>1, <3>2 DEF NodeEnds
  <2>3. UNCHANGED <<beat, lost>> /\ main[w].step = "node"
    BY <1>4 DEF NodeEnds
  <2>4. QED
    BY <1>0, <2>2, <2>3
<1>5. ASSUME NEW w \in Workers, GraphEnds(w)
      PROVE  ThreadsOK'
  <2>1. CASE Stop(w)
    BY <1>0, <2>1 DEF Stop, Idle, Off
  <2>2. CASE ~Stop(w)
    BY <1>0, <1>5, <2>2, AskedShape DEF GraphEnds
  <2>3. QED
    BY <2>1, <2>2
<1>6. ASSUME NEW w \in Workers, Served(w) \/ Retried(w)
      PROVE  ThreadsOK'
  <2>1. PICK n : /\ main' = [main EXCEPT ![w] = n]
                 /\ \/ n = Again(main[w])
                    \/ n = [main[w] EXCEPT !.answer = "ok"]
                    \/ n = [main[w] EXCEPT !.answer = "refused"]
    BY <1>6 DEF Served, Retried
  <2>2. n.step = main[w].step /\ n.failed = main[w].failed /\ n.fallback = main[w].fallback
    <3>1. main[w] \in Main
      BY <1>0
    <3>2. QED
      BY <2>1, <3>1, MainAttempt
  <2>3. UNCHANGED <<beat, lost>>
    BY <1>6 DEF Served, Retried
  <2>4. QED
    BY <1>0, <2>1, <2>2, <2>3
<1>7. ASSUME NEW w \in Workers, Answered(w)
      PROVE  ThreadsOK'
  BY <1>7, GoesThreads DEF Answered
<1>8. ASSUME NEW w \in Workers, Unanswered(w)
      PROVE  ThreadsOK'
  <2>1. CASE Goes(w, "error")
    BY <1>8, <2>1, GoesThreads DEF Unanswered
  <2>2. CASE ~Goes(w, "error")
    <3>1. main' = [main EXCEPT ![w] = GaveUp(@)] /\ UNCHANGED <<beat, lost>>
      BY <1>8, <2>2 DEF Unanswered
    <3>2. QED
      BY <1>0, <3>1, MainAttempt
  <2>3. QED
    BY <2>1, <2>2
<1>9. ASSUME NEW w \in Workers, BeatFails(w), beat[w].step # "off", main' = main
      PROVE  ThreadsOK'
  BY <1>0, <1>9 DEF BeatFails, Off
<1>10. ASSUME NEW w \in Workers, NEW b, beat' = [beat EXCEPT ![w] = b], b.step # "off",
              beat[w].step # "off", UNCHANGED <<main, lost>>
       PROVE  ThreadsOK'
  BY <1>0, <1>10
<1>11. ASSUME NEW w \in Workers,
              BeatStarts(w) \/ BeatServed(w) \/ BeatAnswered(w) \/ BeatUnanswered(w) \/ BeatRetried(w)
       PROVE  ThreadsOK'
  <2>1. beat[w].step # "off" /\ main' = main
    BY <1>11 DEF BeatStarts, BeatServed, BeatAnswered, BeatUnanswered, BeatRetried
  <2>2. CASE ~BeatFails(w)
    <3>1. lost' = lost
      BY <1>11, <2>2 DEF BeatStarts, BeatServed, BeatAnswered, BeatUnanswered, BeatRetried
    <3>2. PICK b : /\ beat' = [beat EXCEPT ![w] = b]
                   /\ \/ b = [Off EXCEPT !.step = "renew"] \/ b = Asleep
                      \/ b = Again(beat[w]) \/ b = GaveUp(beat[w])
                      \/ b = [beat[w] EXCEPT !.answer = "ok"]
                      \/ b = [beat[w] EXCEPT !.answer = "refused"]
      BY <1>11, <2>2 DEF BeatStarts, BeatServed, BeatAnswered, BeatUnanswered, BeatRetried
    <3>3. Asleep.step = "sleep" /\ [Off EXCEPT !.step = "renew"].step = "renew"
      BY DEF Asleep, Off
    <3>4. b.step # "off"
      <4>1. beat[w] \in Beat
        BY <1>0
      <4>2. QED
        BY <2>1, <3>2, <3>3, <4>1, BeatAttempt
    <3>5. QED
      BY <1>10, <2>1, <3>1, <3>2, <3>4
  <2>3. QED
    BY <1>9, <2>1, <2>2
<1>12. ASSUME NEW w \in Workers, Crash(w)
       PROVE  ThreadsOK'
  BY <1>0, <1>12 DEF Crash, Stop, Idle, Off
<1>13. ASSUME Cancel \/ \E r \in late : Late(r)
       PROVE  UNCHANGED <<main, beat, lost>>
  BY <1>13 DEF Cancel, Late
<1>14. QED
  BY <1>1, <1>2, <1>3, <1>4, <1>5, <1>6, <1>7, <1>8, <1>11, <1>12, <1>13
     DEF Next, Runs, Beats, Fails, vars

LEMMA ThreadsInit == Init => ThreadsOK
BY DEF Init, ThreadsOK, Working, Idle, Off

LEMMA ThreadsCorrect == Spec => []ThreadsOK
BY ThreadsInit, ThreadsNext, TypeCorrect, PTL DEF Spec

-----------------------------------------------------------------------------
(* A success that a worker believes in.                                    *)

\* A finalize as succeeded that was accepted ended the job so, or found it so.
SuccessInv ==
  /\ SuccessIsReal
  /\ \A w \in Workers : main[w].step = "end" /\ ~main[w].failed /\ main[w].answer = "ok"
                          => row.status = "succeeded"

LEMMA SuccessStays ==
  ASSUME NEW r, NEW lag, Accepts(r), Handled(r, lag), row.status = "succeeded"
  PROVE  row'.status = "succeeded"
BY DEF Accepts, Handled, Holds, Terminal

\* A step that ends no success and lets no thread learn of an acceptance.
LEMMA SuccessKept ==
  ASSUME SuccessInv, row.status = "succeeded" => row'.status = "succeeded",
         \A v \in Workers : believed'[v] => believed[v] \/ row'.status = "succeeded",
         \A v \in Workers : \/ main'[v].step # "end" \/ main'[v].answer # "ok"
                            \/ row'.status = "succeeded"
                            \/ /\ main'[v].step = main[v].step /\ main'[v].failed = main[v].failed
                               /\ main'[v].answer = main[v].answer
  PROVE  SuccessInv'
BY DEF SuccessInv, SuccessIsReal

LEMMA SuccessNext == TypeOK /\ ThreadsOK /\ SuccessInv /\ [Next]_vars => SuccessInv'
<1> SUFFICES ASSUME TypeOK, ThreadsOK, SuccessInv, [Next]_vars
             PROVE  SuccessInv'
  OBVIOUS
<1>0. /\ main \in [Workers -> Main] /\ believed \in [Workers -> BOOLEAN]
      /\ Idle.step = "idle"
  BY DEF TypeOK, Idle
<1>1. CASE UNCHANGED <<row, main, believed>>
  BY <1>1, SuccessKept
<1>2. CASE Cancel \/ Tick
  <2>1. row.status = "succeeded" => row'.status = "succeeded"
    BY <1>2 DEF Cancel, Tick, TypeOK
  <2>2. \A v \in Workers : /\ main'[v].step = main[v].step /\ main'[v].failed = main[v].failed
                           /\ main'[v].answer = main[v].answer
    BY <1>0, <1>2, MainFields DEF Cancel, Tick
  <2>3. believed' = believed
    BY <1>2 DEF Cancel, Tick
  <2>4. QED
    BY <2>1, <2>2, <2>3, SuccessKept
<1>3. ASSUME NEW w \in Workers, List(w) \/ Start(w) \/ NodeStarts(w)
      PROVE  SuccessInv'
  <2>1. row.status = "succeeded" => row'.status = "succeeded"
    BY <1>3 DEF List, Start, NodeStarts, Expired
  <2>2. \A v \in Workers : main'[v] = main[v] \/ main'[v].step # "end"
    BY <1>0, <1>3, MainFields DEF List, Start, NodeStarts
  <2>3. believed' = believed
    BY <1>3 DEF List, Start, NodeStarts
  <2>4. QED
    BY <2>1, <2>2, <2>3, SuccessKept
<1>4. ASSUME NEW w \in Workers, NodeEnds(w) \/ GraphEnds(w) \/ Crash(w) \/ Retried(w)
      PROVE  SuccessInv'
  <2>1. UNCHANGED <<row, believed>>
    BY <1>4 DEF NodeEnds, GraphEnds, Crash, Retried
  <2>2. \A v \in Workers : main'[v] = main[v] \/ main'[v].step # "end" \/ main'[v].answer = "none"
    <3>1. main[w] \in Main
      BY <1>0
    <3>2. /\ Asked(main[w], "report").step = "report" /\ Asked(main[w], "audit").step = "audit"
          /\ [main[w] EXCEPT !.step = "between", !.failed = TRUE].step = "between"
          /\ Again(main[w]).answer = "none"
      BY <3>1, AskedShape, MainFields DEF Again
    <3>3. QED
      BY <1>0, <1>4, <3>2 DEF NodeEnds, GraphEnds, Crash, Retried, Stop
  <2>3. QED
    BY <2>1, <2>2, SuccessKept
<1>5. ASSUME NEW w \in Workers, Served(w)
      PROVE  SuccessInv'
  <2> DEFINE r == MainRequest(w)
  <2>1. believed' = believed /\ main[w] \in Main
    BY <1>0, <1>5 DEF Served
  <2>2. row.status = "succeeded" => row'.status = "succeeded"
    BY <1>5, SuccessStays DEF Served
  <2>3. ASSUME NEW v \in Workers, v # w
        PROVE  main'[v] = main[v]
    BY <1>0, <1>5, <2>3 DEF Served
  <2>4. ASSUME main'[w].step = "end", main'[w].answer = "ok", ~main'[w].failed
        PROVE  row'.status = "succeeded"
    <3>1. main[w].step = "end" /\ ~main[w].failed
      BY <1>0, <1>5, <2>1, <2>4, MainFields DEF Served
    <3>2. r.op = "succeeded"
      BY <3>1 DEF MainRequest, Op
    <3>3. Accepts(r) /\ \E lag \in 0..main[w].age : Handled(r, lag)
      BY <1>0, <1>5, <2>1, <2>4, MainFields DEF Served
    <3>4. QED
      BY <3>2, <3>3 DEF Accepts, Handled, Terminal
  <2>5. QED
    BY <2>1, <2>2, <2>3, <2>4 DEF SuccessInv, SuccessIsReal
<1>6. ASSUME NEW w \in Workers, Answered(w) \/ Unanswered(w)
      PROVE  SuccessInv'
  <2>1. row' = row /\ main[w].step \in Asking /\ main[w] \in Main
    BY <1>0, <1>6 DEF Answered, Unanswered
  <2>2. CASE Unanswered(w) /\ ~Goes(w, "error")
    <3>1. main' = [main EXCEPT ![w] = GaveUp(@)] /\ believed' = believed
      BY <2>2 DEF Unanswered
    <3>2. GaveUp(main[w]).answer = "lost"
      BY <2>1, MainFields DEF GaveUp
    <3>3. QED
      BY <1>0, <2>1, <3>1, <3>2, SuccessKept
  <2>3. ASSUME NEW result, Goes(w, result), result = "ok" => main[w].answer = "ok"
        PROVE  SuccessInv'
    <3>1. PICK n \in Main : main' = [main EXCEPT ![w] = n] /\ n.answer = "none"
      BY <2>1, <2>3, GoesTo
    <3>2. CASE believed' = believed
      BY <1>0, <2>1, <3>1, <3>2, SuccessKept
    <3>3. CASE believed' # believed
      <4>1. main[w].step = "end"
        BY <2>1, <2>3, <3>3 DEF Goes, Asking
      <4>2. PICK b \in BOOLEAN : /\ believed' = [believed EXCEPT ![w] = b]
                                 /\ b => \/ result = "ok" /\ ~main[w].failed
                                         \/ row.status = "succeeded"
        BY <2>1, <2>3, <3>3, <4>1, MainFields DEF Goes
      <4>3. b => row.status = "succeeded"
        <5>1. CASE result = "ok" /\ ~main[w].failed
          <6>1. main[w].answer = "ok"
            BY <2>3, <5>1
          <6>2. QED
            BY <4>1, <5>1, <6>1 DEF SuccessInv
        <5>2. QED
          BY <4>2, <5>1
      <4>4. QED
        BY <1>0, <2>1, <3>1, <4>2, <4>3, SuccessKept
    <3>4. QED
      BY <3>2, <3>3
  <2>4. CASE Answered(w)
    <3>1. Goes(w, main[w].answer)
      BY <2>4 DEF Answered
    <3>2. QED
      BY <2>3, <3>1
  <2>5. CASE Unanswered(w) /\ Goes(w, "error")
    BY <2>3, <2>5
  <2>6. QED
    BY <1>6, <2>2, <2>4, <2>5
<1>7. ASSUME NEW w \in Workers, BeatServed(w)
      PROVE  SuccessInv'
  <2>1. row.status = "succeeded" => row'.status = "succeeded"
    BY <1>7, SuccessStays DEF BeatServed
  <2>2. UNCHANGED <<main, believed>>
    BY <1>7 DEF BeatServed
  <2>3. QED
    BY <2>1, <2>2, SuccessKept
<1>8. ASSUME NEW r \in late, Late(r)
      PROVE  SuccessInv'
  <2>1. row.status = "succeeded" => row'.status = "succeeded"
    BY <1>8, SuccessStays DEF Late
  <2>2. UNCHANGED <<main, believed>>
    BY <1>8 DEF Late
  <2>3. QED
    BY <2>1, <2>2, SuccessKept
<1>9. ASSUME NEW w \in Workers,
             BeatStarts(w) \/ BeatAnswered(w) \/ BeatUnanswered(w) \/ BeatRetried(w)
      PROVE  UNCHANGED <<row, main, believed>>
  BY <1>9 DEF BeatStarts, BeatAnswered, BeatUnanswered, BeatRetried
<1>10. QED
  BY <1>1, <1>2, <1>3, <1>4, <1>5, <1>6, <1>7, <1>8, <1>9 DEF Next, Runs, Beats, Fails, vars

\* A worker that thinks it finalized a job as succeeded is right: lost answers, repeated
\* finalizes and other workers on the job do not deceive it.
THEOREM SuccessesAreReal == Spec => []SuccessIsReal
<1>1. Init => SuccessInv
  BY DEF Init, SuccessInv, SuccessIsReal, Idle
<1>2. SuccessInv => SuccessIsReal
  BY DEF SuccessInv
<1>3. QED
  BY <1>1, <1>2, SuccessNext, TypeCorrect, ThreadsCorrect, PTL DEF Spec

-----------------------------------------------------------------------------
(* Work without the lease.                                                 *)

\* How long ago, at most, the server committed the last renewal that the thread knows of,
\* counted from the moment at which the lease may have been lost unseen.
Waited(b) ==
  MaxWait + Heartbeat + (b.try - 1) * MaxWait + (b.try - 1) * RetryDelay
    + (IF b.answer = "lost" THEN MaxWait ELSE 0) + b.age

AloneOK(w) ==
  /\ Holds(w) => alone[w] = 0
  /\ ~InGraph(w) => alone[w] = 0
  /\ beat[w].step = "sleep" => alone[w] + beat[w].left <= MaxWait + Heartbeat
  /\ beat[w].step = "renew" => /\ alone[w] <= Waited(beat[w])
                               /\ beat[w].answer = "ok" => alone[w] <= beat[w].age

AloneInv == \A w \in Workers : AloneOK(w)

LEMMA Product ==
  ASSUME NEW t \in Nat, NEW n \in Nat, t <= n, NEW d \in Nat
  PROVE  t * d \in Nat /\ t * d <= n * d /\ (t + 1) * d = t * d + d
<1>1. PICK k \in Nat : n = t + k
  BY n - t \in Nat
<1>2. n * d = t * d + k * d
  BY <1>1
<1>3. k * d \in Nat /\ t * d \in Nat
  BY <1>1
<1>4. (t + 1) * d = t * d + d
  OBVIOUS
<1>5. QED
  BY <1>2, <1>3, <1>4

LEMMA WaitedBounds ==
  ASSUME NEW b \in Beat
  PROVE  /\ Waited(b) \in Nat /\ Waited(b) <= LossDelay
         /\ b.age <= Waited(b)
         /\ b.answer # "lost" => Waited(b) <= Waited(GaveUp(b))
         /\ b.answer = "lost" => Waited(b) <= Waited(Again(b))
         /\ b.answer = "none" => Waited([b EXCEPT !.answer = "refused"]) = Waited(b)
         /\ Waited([b EXCEPT !.age = @ + 1]) = Waited(b) + 1
<1> DEFINE t == b.try - 1
<1>1. /\ t \in Nat /\ t + 1 <= MaxAttempts /\ b.try = t + 1 /\ MaxAttempts - 1 \in Nat
      /\ b.age \in Nat /\ b.age <= Limit(b) /\ (b.answer = "lost" => t + 1 <= MaxAttempts - 1)
  BY Times, BeatFields DEF InTime
<1>2. /\ t * MaxWait \in Nat /\ (t + 1) * MaxWait = t * MaxWait + MaxWait
      /\ t * RetryDelay \in Nat /\ (t + 1) * RetryDelay = t * RetryDelay + RetryDelay
  BY <1>1, Times, Product
<1>3. /\ (t + 1) * MaxWait <= MaxAttempts * MaxWait
      /\ t * RetryDelay <= (MaxAttempts - 1) * RetryDelay
      /\ b.answer = "lost" => (t + 1) * RetryDelay <= (MaxAttempts - 1) * RetryDelay
  <2>1. t <= MaxAttempts - 1 /\ t + 1 \in Nat
    BY <1>1, Times
  <2>2. (t + 1) * MaxWait <= MaxAttempts * MaxWait
    <3> HIDE DEF t
    <3>1. MaxAttempts \in Nat /\ MaxWait \in Nat
      BY Times
    <3>2. QED
      BY <1>1, <2>1, <3>1, Product
  <2>3. t * RetryDelay <= (MaxAttempts - 1) * RetryDelay
    <3> HIDE DEF t
    <3>1. MaxAttempts - 1 \in Nat /\ RetryDelay \in Nat
      BY <1>1, Times
    <3>2. QED
      BY <1>1, <2>1, <3>1, Product
  <2>4. b.answer = "lost" => (t + 1) * RetryDelay <= (MaxAttempts - 1) * RetryDelay
    <3> HIDE DEF t
    <3>1. MaxAttempts - 1 \in Nat /\ RetryDelay \in Nat
      BY <1>1, Times
    <3>2. QED
      BY <1>1, <2>1, <3>1, Product
  <2>5. QED
    BY <2>2, <2>3, <2>4
<1>4. MaxAttempts * MaxWait \in Nat /\ (MaxAttempts - 1) * RetryDelay \in Nat
  BY <1>1, Times, Product
<1>5. Waited(b) = MaxWait + Heartbeat + t * MaxWait + t * RetryDelay
                    + (IF b.answer = "lost" THEN MaxWait ELSE 0) + b.age
  BY DEF Waited
<1>6. Again(b).try - 1 = t + 1 /\ Again(b).age = 0 /\ Again(b).answer = "none"
  BY <1>1, BeatFields DEF Again
<1>7. Waited(Again(b)) = MaxWait + Heartbeat + (t + 1) * MaxWait + (t + 1) * RetryDelay + 0 + 0
  BY <1>6 DEF Waited
<1>8. GaveUp(b).try - 1 = t /\ GaveUp(b).age = 0 /\ GaveUp(b).answer = "lost"
  BY <1>1, BeatFields DEF GaveUp
<1>9. Waited(GaveUp(b)) = MaxWait + Heartbeat + t * MaxWait + t * RetryDelay + MaxWait + 0
  BY <1>8 DEF Waited
<1>10. Waited([b EXCEPT !.age = @ + 1]) = MaxWait + Heartbeat + t * MaxWait + t * RetryDelay
                    + (IF b.answer = "lost" THEN MaxWait ELSE 0) + (b.age + 1)
  BY BeatFields DEF Waited
<1>11. b.answer = "none" =>
         Waited([b EXCEPT !.answer = "refused"]) =
           MaxWait + Heartbeat + t * MaxWait + t * RetryDelay + 0 + b.age
  BY BeatFields DEF Waited
<1> HIDE DEF t
<1>12. CASE b.answer = "lost"
  BY <1>1, <1>2, <1>3, <1>4, <1>5, <1>7, <1>10, <1>12, Times DEF LossDelay, Limit
<1>13. CASE b.answer # "lost"
  BY <1>1, <1>2, <1>3, <1>4, <1>5, <1>9, <1>10, <1>11, <1>13, Times DEF LossDelay, Limit
<1>14. QED
  BY <1>12, <1>13

LEMMA HandledAlone ==
  ASSUME TypeOK, NEW r \in Request, NEW lag, Accepts(r), Handled(r, lag), NEW v \in Workers,
         Holds(v) => alone[v] = 0
  PROVE  /\ alone'[v] \in {0, alone[v]}
         /\ Holds(v)' => alone'[v] = 0
<1>1. r.by \in Workers
  BY DEF Request
<1>2. alone'[v] \in {0, alone[v]}
  BY <1>1 DEF Handled, TypeOK
<1>3. CASE r.op \in Terminal
  BY <1>3 DEF Handled, Holds, TypeOK, Terminal
<1>4. CASE r.op \notin Terminal
  BY <1>1, <1>4 DEF Handled, Holds, TypeOK
<1>5. QED
  BY <1>2, <1>3, <1>4

LEMMA AloneZero ==
  ASSUME NEW v \in Workers, beat'[v] \in Beat, alone'[v] = 0
  PROVE  AloneOK(v)'
<1>1. Waited(beat'[v]) \in Nat /\ beat'[v].age \in Nat /\ beat'[v].left \in Nat
      /\ beat'[v].left <= Heartbeat
  BY WaitedBounds, BeatFields
<1>2. QED
  BY <1>1, Times DEF AloneOK, Waited

\* What the heartbeat thread of a worker does in no time.
BeatMoves(b, c) ==
  \/ c = b \/ c.step = "off"
  \/ b.step = "sleep" /\ b.left = 0 /\ c = [Off EXCEPT !.step = "renew"]
  \/ b.step = "renew" /\ b.answer = "none" /\ c = [b EXCEPT !.answer = "refused"]
  \/ b.step = "renew" /\ b.answer = "ok" /\ c = Asleep
  \/ b.step = "renew" /\ b.answer # "lost" /\ c = GaveUp(b)
  \/ b.step = "renew" /\ b.answer = "lost" /\ c = Again(b)

LEMMA AloneKept ==
  ASSUME TypeOK, NEW v \in Workers, AloneOK(v), alone'[v] = alone[v], Holds(v)' => alone'[v] = 0,
         ~InGraph(v)' => alone'[v] = 0, beat'[v] \in Beat, BeatMoves(beat[v], beat'[v])
  PROVE  AloneOK(v)'
<1> DEFINE b == beat[v]
           c == beat'[v]
           a == alone[v]
<1>1. b \in Beat /\ c \in Beat /\ a \in Nat
  BY LossDelayIsTime DEF TypeOK
<1>2. /\ Waited(b) \in Nat /\ Waited(c) \in Nat /\ b.age \in Nat /\ c.age \in Nat
      /\ b.left \in Nat /\ b.left <= Heartbeat /\ c.left \in Nat /\ b.age <= Limit(b)
  BY <1>1, WaitedBounds, BeatFields
<1>3. /\ b.step = "sleep" => a + b.left <= MaxWait + Heartbeat
      /\ b.step = "renew" => a <= Waited(b) /\ (b.answer = "ok" => a <= b.age)
  BY DEF AloneOK
<1>4. /\ c.step = "sleep" => a + c.left <= MaxWait + Heartbeat
      /\ c.step = "renew" => a <= Waited(c) /\ (c.answer = "ok" => a <= c.age)
  <2>1. CASE c = b \/ c.step = "off"
    BY <1>3, <2>1
  <2>2. CASE b.step = "sleep" /\ b.left = 0 /\ c = [Off EXCEPT !.step = "renew"]
    <3>1. c.step = "renew" /\ c.answer = "none" /\ c.try = 1 /\ c.age = 0
      BY <2>2 DEF Off
    <3>2. Waited(c) = MaxWait + Heartbeat
      BY <3>1, Times DEF Waited
    <3>3. QED
      BY <1>1, <1>2, <1>3, <2>2, <3>1, <3>2, Times
  <2>3. CASE b.step = "renew" /\ b.answer = "none" /\ c = [b EXCEPT !.answer = "refused"]
    <3>1. Waited(c) = Waited(b) /\ c.step = "renew" /\ c.answer = "refused"
      BY <1>1, <2>3, WaitedBounds, BeatFields
    <3>2. QED
      BY <1>3, <2>3, <3>1
  <2>4. CASE b.step = "renew" /\ b.answer = "ok" /\ c = Asleep
    <3>1. c.step = "sleep" /\ c.left = Heartbeat
      BY <2>4 DEF Asleep, Off
    <3>2. a <= MaxWait
      BY <1>1, <1>2, <1>3, <2>4, Times DEF Limit
    <3>3. QED
      BY <1>1, <3>1, <3>2, Times
  <2>5. CASE b.step = "renew" /\ b.answer # "lost" /\ c = GaveUp(b)
    <3>1. Waited(b) <= Waited(c) /\ c.step = "renew" /\ c.answer = "lost"
      BY <1>1, <2>5, WaitedBounds, BeatFields DEF GaveUp
    <3>2. QED
      BY <1>1, <1>2, <1>3, <2>5, <3>1
  <2>6. CASE b.step = "renew" /\ b.answer = "lost" /\ c = Again(b)
    <3>1. Waited(b) <= Waited(c) /\ c.step = "renew" /\ c.answer = "none"
      BY <1>1, <2>6, WaitedBounds, BeatFields DEF Again
    <3>2. QED
      BY <1>1, <1>2, <1>3, <2>6, <3>1
  <2>7. QED
    BY <2>1, <2>2, <2>3, <2>4, <2>5, <2>6 DEF BeatMoves
<1>5. QED
  BY <1>4 DEF AloneOK, Waited

LEMMA AloneTick == TypeOK /\ ThreadsOK /\ AloneInv /\ Tick => AloneInv'
<1> SUFFICES ASSUME TypeOK, ThreadsOK, AloneInv, Tick, NEW v \in Workers
             PROVE  AloneOK(v)'
  BY DEF AloneInv
<1>1. beat[v] \in Beat /\ main[v] \in Main /\ alone[v] \in Nat /\ beat'[v] \in Beat
  BY LossDelayIsTime, NextShape DEF TypeOK, Next
<1>2. row'.status = row.status /\ row'.owner = row.owner
  BY DEF Tick, TypeOK
<1>3. (Holds(v)' <=> Holds(v)) /\ (InGraph(v)' <=> InGraph(v))
  BY <1>1, <1>2, MainFields DEF Tick, Holds, InGraph
<1>4. CASE alone'[v] = 0
  BY <1>1, <1>4, AloneZero
<1>5. CASE alone'[v] # 0
  <2>1. InGraph(v) /\ ~Holds(v) /\ alone'[v] \in {alone[v], alone[v] + 1}
    BY <1>5 DEF Tick
  <2>2. CASE beat[v].step = "sleep"
    <3>1. /\ beat'[v].step = "sleep" /\ beat'[v].left = beat[v].left - 1
          /\ beat[v].left \in Nat /\ beat[v].left > 0
          /\ alone[v] + beat[v].left <= MaxWait + Heartbeat
      BY <1>1, <2>2, BeatFields DEF Tick, Prompt, AloneInv, AloneOK
    <3>2. alone'[v] + beat'[v].left <= MaxWait + Heartbeat
      BY <1>1, <2>1, <3>1, Times
    <3>3. QED
      BY <1>3, <2>1, <3>1, <3>2 DEF AloneOK
  <2>3. CASE beat[v].step = "renew"
    <3>1. /\ beat'[v] = [beat[v] EXCEPT !.age = @ + 1]
          /\ alone[v] <= Waited(beat[v])
          /\ beat[v].answer = "ok" => alone[v] <= beat[v].age
      BY <2>3 DEF Tick, AloneInv, AloneOK
    <3>2. beat'[v].step = "renew" /\ beat'[v].answer = beat[v].answer
          /\ beat'[v].age = beat[v].age + 1 /\ beat[v].age \in Nat
      BY <1>1, <2>3, <3>1, BeatFields
    <3>3. Waited(beat'[v]) = Waited(beat[v]) + 1 /\ Waited(beat[v]) \in Nat
      BY <1>1, <3>1, WaitedBounds
    <3>4. alone'[v] <= Waited(beat'[v]) /\ (beat'[v].answer = "ok" => alone'[v] <= beat'[v].age)
      BY <1>1, <2>1, <3>1, <3>2, <3>3
    <3>5. QED
      BY <1>3, <2>1, <3>2, <3>4 DEF AloneOK, Waited
  <2>4. CASE beat[v].step = "off"
    <3>1. beat'[v].step = "off"
      BY <2>4 DEF Tick
    <3>2. QED
      BY <1>3, <2>1, <3>1 DEF AloneOK
  <2>5. QED
    BY <1>1, <2>2, <2>3, <2>4, BeatFields
<1>6. QED
  BY <1>4, <1>5

LEMMA AloneNext == TypeOK /\ ThreadsOK /\ AloneInv /\ [Next]_vars => AloneInv'
<1> SUFFICES ASSUME TypeOK, ThreadsOK, AloneInv, [Next]_vars
             PROVE  AloneInv'
  OBVIOUS
<1>0. /\ main \in [Workers -> Main] /\ beat \in [Workers -> Beat]
      /\ alone \in [Workers -> Nat]
      /\ \A v \in Workers : /\ AloneOK(v) /\ beat'[v] \in Beat
                            /\ Holds(v) => alone[v] = 0
                            /\ ~InGraph(v) => alone[v] = 0
  BY NextShape, LossDelayIsTime DEF TypeOK, AloneInv, AloneOK
\* For a step that lets no time pass.
<1>1. ASSUME NEW v \in Workers, alone'[v] \in {0, alone[v]}, Holds(v)' => alone'[v] = 0,
             alone'[v] # 0 => InGraph(v)' /\ BeatMoves(beat[v], beat'[v])
      PROVE  AloneOK(v)'
  <2>1. CASE alone'[v] = 0
    BY <1>0, <2>1, AloneZero
  <2>2. CASE alone'[v] # 0
    BY <1>0, <1>1, <2>2, AloneKept
  <2>3. QED
    BY <2>1, <2>2
<1>2. ASSUME NEW v \in Workers, row' = row, alone'[v] = alone[v]
      PROVE  alone'[v] \in {0, alone[v]} /\ (Holds(v)' => alone'[v] = 0)
  BY <1>0, <1>2 DEF Holds
<1>3. ASSUME NEW v \in Workers, main'[v] = main[v], beat'[v] = beat[v], alone[v] # 0
      PROVE  InGraph(v)' /\ BeatMoves(beat[v], beat'[v])
  BY <1>0, <1>3 DEF InGraph, BeatMoves
<1>4. CASE UNCHANGED vars
  BY <1>4 DEF vars, AloneInv, AloneOK, Holds, InGraph, Waited
<1>5. CASE Cancel
  <2>1. (\A v \in Workers : ~Holds(v)') /\ UNCHANGED <<main, beat, alone>>
    BY <1>5 DEF Cancel, Holds, TypeOK
  <2>2. QED
    BY <1>1, <1>3, <2>1 DEF AloneInv
<1>6. ASSUME NEW w \in Workers, NEW v \in Workers,
             List(w) \/ Start(w) \/ NodeStarts(w) \/ NodeEnds(w) \/ Retried(w)
      PROVE  AloneOK(v)'
  <2>1. UNCHANGED <<beat, alone>> /\ (Holds(v)' => Holds(v))
    BY <1>6 DEF List, Start, NodeStarts, NodeEnds, Retried, Holds, TypeOK
  <2>2. alone[v] # 0 => InGraph(v)'
    <3>1. CASE v # w
      BY <1>0, <1>3, <1>6, <2>1, <3>1 DEF List, Start, NodeStarts, NodeEnds, Retried
    <3>2. CASE v = w /\ alone[v] # 0
      <4>1. main[w] \in Main /\ main[w].step \in {"between", "node", "report"}
        BY <1>0, <3>2 DEF InGraph
      <4>2. /\ [main[w] EXCEPT !.step = "node"].step = "node"
            /\ [main[w] EXCEPT !.step = "between", !.failed = TRUE].step = "between"
            /\ Asked(main[w], "report").step = "report"
            /\ Again(main[w]).step = main[w].step
        BY <4>1, AskedShape, MainFields DEF Again
      <4>3. QED
        BY <1>0, <1>6, <3>2, <4>1, <4>2 DEF List, Start, NodeStarts, NodeEnds, Retried, InGraph
    <3>3. QED
      BY <3>1, <3>2
  <2>3. QED
    BY <1>0, <1>1, <2>1, <2>2 DEF BeatMoves
<1>7. ASSUME NEW w \in Workers, NEW v \in Workers, GraphEnds(w) \/ Crash(w)
      PROVE  AloneOK(v)'
  <2>1. row' = row /\ alone' = [alone EXCEPT ![w] = 0]
    BY <1>7 DEF GraphEnds, Crash
  <2>2. CASE v = w
    BY <1>0, <2>1, <2>2, AloneZero
  <2>3. CASE v # w
    <3>1. main'[v] = main[v] /\ beat'[v] = beat[v]
      BY <1>0, <1>7, <2>3 DEF GraphEnds, Crash, Stop
    <3>2. QED
      BY <1>0, <1>1, <1>2, <1>3, <2>1, <2>3, <3>1
  <2>4. QED
    BY <2>2, <2>3
<1>8. ASSUME NEW w \in Workers, Served(w), NEW v \in Workers
      PROVE  AloneOK(v)'
  <2>1. MainRequest(w) \in Request /\ beat' = beat
    BY <1>8, RequestShape DEF Served
  <2>2. alone'[v] \in {0, alone[v]} /\ (Holds(v)' => alone'[v] = 0)
    <3>1. CASE UNCHANGED <<row, alone>>
      BY <1>2, <3>1
    <3>2. CASE ~UNCHANGED <<row, alone>>
      BY <1>0, <1>8, <2>1, <3>2, HandledAlone DEF Served
    <3>3. QED
      BY <3>1, <3>2
  <2>3. main'[v].step = main[v].step
    BY <1>0, <1>8, MainFields DEF Served
  <2>4. QED
    BY <1>0, <1>1, <2>1, <2>2, <2>3 DEF BeatMoves, InGraph
<1>9. ASSUME NEW w \in Workers, NEW result, main[w].step \in Asking, Goes(w, result),
             row' = row, alone' = alone, NEW v \in Workers
      PROVE  AloneOK(v)'
  <2>1. PICK n \in Main :
          /\ main' = [main EXCEPT ![w] = n]
          /\ \/ Stop(w) /\ main[w].step = "end"
             \/ main[w].step = "start"
             \/ /\ UNCHANGED <<beat, lost>>
                /\ main[w].step = "report" => n.step = "between"
    BY <1>9, GoesTo
  <2>2. CASE v # w
    <3>1. main'[v] = main[v] /\ beat'[v] = beat[v]
      BY <1>0, <1>9, <2>1, <2>2 DEF Goes, Stop
    <3>2. QED
      BY <1>0, <1>1, <1>2, <1>3, <1>9, <3>1
  <2>3. CASE v = w /\ alone[v] = 0
    BY <1>0, <1>9, <2>3, AloneZero
  <2>4. CASE v = w /\ alone[v] # 0
    <3>1. main[w].step = "report"
      BY <1>0, <1>9, <2>4 DEF InGraph, Asking
    <3>2. beat'[v] = beat[v] /\ InGraph(v)'
      BY <1>0, <2>1, <2>4, <3>1 DEF InGraph
    <3>3. QED
      BY <1>0, <1>1, <1>2, <1>9, <3>2 DEF BeatMoves
  <2>5. QED
    BY <2>2, <2>3, <2>4
<1>10. ASSUME NEW w \in Workers, Answered(w)
       PROVE  AloneInv'
  BY <1>9, <1>10 DEF Answered, AloneInv
<1>11. ASSUME NEW w \in Workers, Unanswered(w)
       PROVE  AloneInv'
  <2>1. main[w].step \in Asking /\ UNCHANGED <<row, alone>>
    BY <1>11 DEF Unanswered
  <2>2. CASE Goes(w, "error")
    BY <1>9, <2>1, <2>2 DEF AloneInv
  <2>3. CASE ~Goes(w, "error")
    <3>1. main' = [main EXCEPT ![w] = GaveUp(@)] /\ beat' = beat
      BY <1>11, <2>3 DEF Unanswered
    <3>2. \A v \in Workers : main'[v].step = main[v].step
      BY <1>0, <3>1, MainAttempt
    <3>3. QED
      BY <1>0, <1>1, <1>2, <2>1, <3>1, <3>2 DEF BeatMoves, InGraph, AloneInv
  <2>4. QED
    BY <2>2, <2>3
<1>12. ASSUME NEW w \in Workers, NEW v \in Workers,
              BeatStarts(w) \/ BeatAnswered(w) \/ BeatUnanswered(w) \/ BeatRetried(w)
       PROVE  AloneOK(v)'
  <2>1. UNCHANGED <<row, main, alone>>
    BY <1>12 DEF BeatStarts, BeatAnswered, BeatUnanswered, BeatRetried
  <2>2. BeatMoves(beat[v], beat'[v])
    <3>1. CASE v # w
      BY <1>0, <1>12, <3>1
         DEF BeatStarts, BeatAnswered, BeatUnanswered, BeatRetried, BeatFails, BeatMoves
    <3>2. CASE v = w
      <4>1. Off.step = "off"
        BY DEF Off
      <4>2. QED
        BY <1>0, <1>12, <3>2, <4>1
           DEF BeatStarts, BeatAnswered, BeatUnanswered, BeatRetried, BeatFails, BeatMoves
    <3>3. QED
      BY <3>1, <3>2
  <2>3. QED
    BY <1>0, <1>1, <1>2, <2>1, <2>2 DEF InGraph
<1>13. ASSUME NEW w \in Workers, BeatServed(w), NEW v \in Workers
       PROVE  AloneOK(v)'
  <2>1. BeatRequest(w) \in Request /\ main' = main
    BY <1>13, RequestShape DEF BeatServed
  <2>2. alone'[v] \in {0, alone[v]} /\ (Holds(v)' => alone'[v] = 0)
    <3>1. CASE UNCHANGED <<row, alone>>
      BY <1>2, <3>1
    <3>2. CASE ~UNCHANGED <<row, alone>>
      BY <1>0, <1>13, <2>1, <3>2, HandledAlone DEF BeatServed
    <3>3. QED
      BY <3>1, <3>2
  <2>3. CASE v # w
    <3>1. beat'[v] = beat[v]
      BY <1>0, <1>13, <2>3 DEF BeatServed
    <3>2. QED
      BY <1>0, <1>1, <2>1, <2>2, <3>1 DEF BeatMoves, InGraph
  <2>4. CASE v = w /\ alone'[v] = 0
    BY <1>0, <2>4, AloneZero
  <2>5. CASE v = w /\ alone'[v] # 0
    <3>1. ~Accepts(BeatRequest(w))
      BY <1>0, <2>2, <2>5 DEF Accepts, BeatRequest, Terminal
    <3>2. BeatMoves(beat[v], beat'[v])
      BY <1>0, <1>13, <2>5, <3>1 DEF BeatServed, BeatMoves
    <3>3. QED
      BY <1>0, <1>1, <2>1, <2>2, <2>5, <3>2 DEF InGraph
  <2>6. QED
    BY <2>3, <2>4, <2>5
<1>14. ASSUME NEW r \in late, Late(r), NEW v \in Workers
       PROVE  AloneOK(v)'
  <2>1. r \in Request /\ UNCHANGED <<main, beat>>
    BY <1>14 DEF TypeOK, Late
  <2>2. alone'[v] \in {0, alone[v]} /\ (Holds(v)' => alone'[v] = 0)
    BY <1>0, <1>14, <2>1, HandledAlone DEF Late
  <2>3. QED
    BY <1>0, <1>1, <2>1, <2>2 DEF BeatMoves, InGraph
<1>15. QED
  BY <1>4, <1>5, <1>6, <1>7, <1>8, <1>10, <1>11, <1>12, <1>13, <1>14, AloneTick
     DEF Next, Runs, Beats, Fails, AloneInv

\* A worker whose graph runs on a job that is not its own starts no node once the answer
\* under way and its next heartbeat must have failed, whatever is lost, repeated, late,
\* cancelled or taken over, and whenever the commits fall.
THEOREM SplitBrainEnds == Spec => SplitBrainIsBounded
<1>1. Init => AloneInv
  BY Times DEF Init, AloneInv, AloneOK, Off
<1>2. ASSUME TypeOK, ThreadsOK, AloneInv, NEW w \in Workers, NodeStarts(w)
      PROVE  alone[w] <= LossDelay
  <2>1. ~lost[w] /\ Working(w) /\ beat[w] \in Beat /\ alone[w] \in Nat
    BY <1>2, LossDelayIsTime DEF NodeStarts, Working, TypeOK
  <2>2. beat[w].step \in {"sleep", "renew"}
    BY <1>2, <2>1, BeatFields DEF ThreadsOK
  <2>3. CASE beat[w].step = "sleep"
    <3>1. alone[w] + beat[w].left <= MaxWait + Heartbeat /\ beat[w].left \in Nat
      BY <1>2, <2>1, <2>3, BeatFields DEF AloneInv, AloneOK
    <3>2. MaxAttempts * MaxWait \in Nat /\ (MaxAttempts - 1) * RetryDelay \in Nat
      <4>1. MaxAttempts - 1 \in Nat
        BY Times
      <4>2. QED
        BY <4>1, Times, Product
    <3>3. QED
      BY <2>1, <3>1, <3>2, Times DEF LossDelay
  <2>4. CASE beat[w].step = "renew"
    <3>1. alone[w] <= Waited(beat[w])
      BY <1>2, <2>4 DEF AloneInv, AloneOK
    <3>2. Waited(beat[w]) \in Nat /\ Waited(beat[w]) <= LossDelay
      BY <2>1, WaitedBounds
    <3>3. QED
      BY <2>1, <3>1, <3>2, LossDelayIsTime
  <2>5. QED
    BY <2>2, <2>3, <2>4
<1>3. TypeOK /\ ThreadsOK /\ AloneInv =>
        \A w \in Workers : NodeStarts(w) /\ ~Holds(w) => alone[w] <= LossDelay
  BY <1>2
<1>4. QED
  BY <1>1, <1>3, AloneNext, TypeCorrect, ThreadsCorrect, PTL DEF Spec, SplitBrainIsBounded

-----------------------------------------------------------------------------
(* The lease of a prompt worker.                                           *)

\* An attempt while all goes well.
FirstTry(t) == t.try = 1 /\ t.answer # "lost" /\ ~TooSlow(t.age)

\* The finalize that ends the work has been decided.
Ended(m) == m.step = "end" /\ (m.answer = "ok" \/ (m.answer = "refused" /\ m.fallback))

\* A lease of this age outlasts what is left of the heartbeat and the renewal after it.
Young(age, b) ==
  /\ b.step = "sleep" => 3 * (age + b.left) <= 2 * LeaseTTL + Heartbeat
  /\ b.step = "renew" =>
       /\ b.answer # "refused"
       /\ b.answer = "none" => 3 * age <= 2 * LeaseTTL + Heartbeat + 3 * b.age
       /\ b.answer = "ok" => Heartbeat + 3 * age <= LeaseTTL + 3 * b.age

\* The holder has claimed the job and not heard of it yet, or is at work.
AtWork(age, m, b, l) ==
  \/ m.step = "start" /\ m.answer = "ok" /\ Heartbeat + 3 * age <= LeaseTTL + 3 * m.age
  \/ m.step \notin {"idle", "listed", "start"} /\ ~l /\ ~Ended(m) /\ Young(age, b)

Kept(w) ==
  /\ FirstTry(main[w]) /\ FirstTry(beat[w])
  /\ Holds(w) => AtWork(row.age, main[w], beat[w], lost[w])

\* As long as requests are answered, and none is slow, the lease is renewed in time.
PromptState ==
  /\ \A r \in late : r.op = "renew"
  /\ row.status = "queued" => \A w \in Workers : ~Working(w) /\ main[w].answer = "none"
  /\ \A w \in Workers : Kept(w)

PromptInv == faults = 0 /\ ~slow => PromptState

LEMMA KeptIsKept ==
  ASSUME TypeOK, ThreadsOK, PromptInv
  PROVE  PromptWorkerKeepsLease
<1> SUFFICES ASSUME faults = 0, ~slow, Expired
             PROVE  FALSE
  BY DEF PromptWorkerKeepsLease, TypeOK
<1>1. row.owner \in Workers /\ row.age \in Nat /\ row.age > LeaseTTL /\ row.status = "running"
  BY DEF TypeOK, Expired
<1>2. PICK w \in Workers : Holds(w)
  BY <1>1 DEF Holds
<1>3. /\ main[w] \in Main /\ beat[w] \in Beat /\ FirstTry(main[w]) /\ FirstTry(beat[w])
      /\ AtWork(row.age, main[w], beat[w], lost[w])
  BY <1>2 DEF PromptInv, PromptState, Kept, TypeOK
<1>4. /\ Heartbeat + 3 * main[w].age <= LeaseTTL /\ Heartbeat + 3 * beat[w].age <= LeaseTTL
      /\ main[w].age \in Nat /\ beat[w].age \in Nat /\ beat[w].left \in Nat
  BY <1>3, Times, MainFields, BeatFields DEF FirstTry, TooSlow
<1>5. CASE main[w].step = "start"
  BY <1>1, <1>3, <1>4, <1>5, Times DEF AtWork
<1>6. CASE main[w].step # "start"
  <2>1. Working(w) /\ ~lost[w] /\ Young(row.age, beat[w])
    BY <1>3, <1>6 DEF AtWork, Working
  <2>2. beat[w].step \in {"sleep", "renew"} /\ beat[w].answer \in {"none", "ok", "refused"}
    BY <1>3, <2>1, BeatFields DEF ThreadsOK, FirstTry, Answers
  <2>3. CASE beat[w].step = "sleep"
    BY <1>1, <1>4, <2>1, <2>3, Times DEF Young
  <2>4. CASE beat[w].step = "renew"
    BY <1>1, <1>4, <2>1, <2>2, <2>4, Times DEF Young
  <2>5. QED
    BY <2>2, <2>3, <2>4
<1>7. QED
  BY <1>5, <1>6

\* Whatever a request writes while it is not slow is young.
LEMMA WrittenIsYoung ==
  ASSUME NEW age \in Nat, ~TooSlow(age), NEW b \in Beat, b.step = "renew" => b.answer # "refused"
  PROVE  Young(age, b)
<1>1. /\ Heartbeat + 3 * age <= LeaseTTL /\ b.left \in Nat /\ b.left <= Heartbeat
      /\ b.age \in Nat
  BY Times, BeatFields DEF TooSlow
<1>2. QED
  BY <1>1, Times DEF Young

LEMMA NotSlowYet ==
  ASSUME NEW age \in Nat, ~TooSlow(age), NEW lag \in 0..age
  PROVE  ~TooSlow(lag)
BY Times DEF TooSlow

\* After a claim or a renewal the lease is that of the instance it came from.
LEMMA HandledKept ==
  ASSUME TypeOK, NEW r \in Request, NEW lag \in Nat, Accepts(r), Handled(r, lag),
         NEW v \in Workers, Holds(v)'
  PROVE  /\ row'.age = lag /\ r.by = v /\ r.op \notin Terminal
         /\ Holds(v) \/ (row.status = "queued" /\ r.op \in {"start", "call"})
<1>1. r.by \in Workers /\ r.by # None
  BY Times DEF Request
<1>2. CASE r.op \in Terminal
  BY <1>1, <1>2 DEF Accepts, Handled, Holds, TypeOK, Terminal
<1>3. CASE r.op \notin Terminal
  BY <1>1, <1>3 DEF Accepts, Handled, Holds, TypeOK, Terminal
<1>4. QED
  BY <1>2, <1>3

LEMMA HandledStatus ==
  ASSUME TypeOK, NEW r \in Request, NEW lag, Accepts(r), Handled(r, lag)
  PROVE  row'.status # "queued"
<1>1. CASE r.op \in Terminal
  BY <1>1 DEF Accepts, Handled, Holds, TypeOK, Terminal
<1>2. CASE r.op \notin Terminal
  BY <1>2 DEF Handled, TypeOK
<1>3. QED
  BY <1>1, <1>2

\* A worker whose threads a step leaves alone.
LEMMA KeptKept ==
  ASSUME TypeOK, NEW v \in Workers, Kept(v), main'[v] = main[v], beat'[v] = beat[v],
         lost'[v] = lost[v],
         Holds(v)' => /\ Holds(v)
                      /\ row'.age = row.age \/ (row'.age \in Nat /\ ~TooSlow(row'.age))
  PROVE  Kept(v)'
<1>1. beat[v] \in Beat /\ main[v] \in Main /\ main[v].age \in Nat
  BY MainFields DEF TypeOK
<1>2. FirstTry(main'[v]) /\ FirstTry(beat'[v])
  BY DEF Kept
<1>3. ASSUME Holds(v)'
      PROVE  AtWork(row'.age, main[v], beat[v], lost[v])
  <2>1. AtWork(row.age, main[v], beat[v], lost[v])
    BY <1>3 DEF Kept
  <2>2. CASE row'.age = row.age
    BY <2>1, <2>2
  <2>3. CASE row'.age \in Nat /\ ~TooSlow(row'.age)
    <3>1. Heartbeat + 3 * row'.age <= LeaseTTL + 3 * main[v].age
      BY <1>1, <2>3, Times DEF TooSlow
    <3>2. Young(row.age, beat[v]) => Young(row'.age, beat[v])
      BY <1>1, <2>3, WrittenIsYoung DEF Young
    <3>3. QED
      BY <2>1, <3>1, <3>2 DEF AtWork
  <2>4. QED
    BY <1>3, <2>2, <2>3
<1>4. QED
  BY <1>2, <1>3 DEF Kept

LEMMA FirstTries ==
  ASSUME ~TooSlow(0)
  PROVE  /\ FirstTry(Idle) /\ FirstTry(Off) /\ FirstTry(Asleep)
         /\ FirstTry([Off EXCEPT !.step = "renew"])
BY DEF FirstTry, Idle, Off, Asleep

LEMMA NoSlowStart ==
  ASSUME NEW m \in Main, FirstTry(m)
  PROVE  ~TooSlow(0)
BY MainFields, Times DEF FirstTry, TooSlow

LEMMA PromptServed ==
  ASSUME TypeOK, ThreadsOK, PromptState, NEW w \in Workers, Served(w)
  PROVE  PromptState'
<1> DEFINE r == MainRequest(w)
<1>0. /\ main \in [Workers -> Main] /\ main[w] \in Main /\ beat[w] \in Beat /\ main[w].age \in Nat
      /\ r \in Request /\ r.by = w /\ r.op = Op(main[w]) /\ main[w].step \in Asking
      /\ UNCHANGED <<beat, lost, late>>
      /\ Kept(w) /\ main[w].answer = "none"
  BY RequestShape, MainFields DEF TypeOK, Served, MainRequest, PromptState
<1>1. ASSUME NEW v \in Workers, v # w
      PROVE  main'[v] = main[v]
  BY <1>0, <1>1 DEF Served
<1>2. CASE Accepts(r) /\ \E lag \in 0..main[w].age : Handled(r, lag)
  <2>1. PICK lag \in 0..main[w].age : Handled(r, lag)
    BY <1>2
  <2>2. lag \in Nat /\ ~TooSlow(lag) /\ lag <= main[w].age /\ row'.status # "queued"
    BY <1>0, <1>2, <2>1, NotSlowYet, HandledStatus DEF Kept, FirstTry
  <2>3. main' = [main EXCEPT ![w].answer = "ok"]
    <3>1. CASE ~Accepts(r) \/ (r.op = "succeeded" /\ Holds(w))
      BY <1>0, <1>2, <2>1, <3>1 DEF Served, Handled, TypeOK, Holds, Terminal
    <3>2. QED
      BY <3>1 DEF Served
  <2>4. ASSUME NEW v \in Workers, v # w
        PROVE  Kept(v)'
    <3>1. ~Holds(v)'
      BY <1>0, <1>2, <2>1, <2>2, <2>4, HandledKept
    <3>2. QED
      BY <1>0, <1>1, <2>4, <3>1 DEF Kept, PromptState
  <2>5. Kept(w)'
    <3> DEFINE n == main'[w]
    <3>1. /\ n.step = main[w].step /\ n.answer = "ok" /\ n.age = main[w].age /\ n.try = main[w].try
          /\ n = [main[w] EXCEPT !.answer = "ok"]
      BY <1>0, <2>3, MainFields
    <3> HIDE DEF n
    <3>2. FirstTry(n)
      BY <1>0, <3>1 DEF Kept, FirstTry
    <3>3. ASSUME Holds(w)'
          PROVE  AtWork(row'.age, n, beat[w], lost[w])
      <4>1. row'.age = lag /\ r.op \notin Terminal /\ (Holds(w) \/ row.status = "queued")
        BY <1>0, <1>2, <2>1, <2>2, <3>3, HandledKept
      <4>2. CASE main[w].step = "start"
        <5>1. Heartbeat + 3 * lag <= LeaseTTL + 3 * n.age
          BY <1>0, <2>2, <3>1, Times DEF TooSlow
        <5>2. QED
          BY <3>1, <4>1, <4>2, <5>1 DEF AtWork
      <4>3. CASE main[w].step # "start"
        <5>1. Working(w)
          BY <1>0, <4>3 DEF Working, Asking
        <5>2. AtWork(row.age, main[w], beat[w], lost[w])
          BY <1>0, <4>1, <5>1 DEF PromptState, Kept
        <5>3. n.step \notin {"idle", "listed", "start"} /\ ~lost[w] /\ Young(row.age, beat[w])
          BY <3>1, <4>3, <5>2 DEF AtWork
        <5>4. Young(lag, beat[w])
          BY <1>0, <2>2, <5>3, WrittenIsYoung DEF Young
        <5>5. n.step # "end"
          BY <1>0, <3>1, <4>1 DEF Op, Terminal
        <5>6. QED
          BY <4>1, <5>3, <5>4, <5>5 DEF AtWork, Ended
      <4>4. QED
        BY <4>2, <4>3
    <3>4. QED
      BY <1>0, <3>2, <3>3 DEF Kept, n
  <2>6. QED
    BY <1>0, <2>2, <2>4, <2>5 DEF PromptState
<1>3. CASE /\ ~Accepts(r) \/ (r.op = "succeeded" /\ Holds(w))
           /\ row' = row /\ main' = [main EXCEPT ![w].answer = "refused"]
  <2> DEFINE n == main'[w]
  <2>1. /\ n.step = main[w].step /\ n.answer = "refused" /\ n.age = main[w].age
        /\ n.try = main[w].try /\ n.fallback = main[w].fallback
    BY <1>0, <1>3, MainFields
  <2> HIDE DEF n
  <2>2. row.status # "queued"
    <3>1. CASE row.status = "queued"
      <4>1. main[w].step = "start" /\ ~Holds(w)
        BY <1>0, <3>1 DEF PromptState, Working, Asking, Holds
      <4>2. Accepts(r)
        BY <1>0, <3>1, <4>1 DEF Accepts, Op
      <4>3. QED
        BY <1>3, <4>1, <4>2
    <3>2. QED
      BY <3>1
  <2>3. ASSUME Holds(w)
        PROVE  AtWork(row.age, n, beat[w], lost[w])
    <3>1. main[w].step = "end" /\ ~main[w].failed
      BY <1>0, <1>3, <2>3 DEF Accepts, Op, Asking
    <3>2. ~main[w].fallback
      BY <1>0, <3>1 DEF ThreadsOK
    <3>3. AtWork(row.age, main[w], beat[w], lost[w])
      BY <1>0, <2>3 DEF Kept
    <3>4. QED
      BY <2>1, <3>1, <3>2, <3>3 DEF AtWork, Ended
  <2>4. Kept(w)'
    BY <1>0, <1>3, <2>1, <2>3 DEF Kept, FirstTry, Holds, n
  <2>5. ASSUME NEW v \in Workers, v # w
        PROVE  Kept(v)'
    BY <1>0, <1>1, <1>3, <2>5, KeptKept DEF PromptState, Holds
  <2>6. QED
    BY <1>0, <1>3, <2>2, <2>4, <2>5 DEF PromptState
<1>4. QED
  BY <1>2, <1>3 DEF Served

LEMMA PromptAnswered ==
  ASSUME TypeOK, ThreadsOK, PromptState, NEW w \in Workers, Answered(w)
  PROVE  PromptState'
<1> DEFINE m == main[w]
<1>0. /\ main \in [Workers -> Main] /\ m \in Main /\ m.age \in Nat
      /\ beat \in [Workers -> Beat] /\ beat[w] \in Beat
      /\ m.step \in Asking /\ m.answer \in {"ok", "refused"} /\ Goes(w, m.answer)
      /\ UNCHANGED row /\ Kept(w) /\ row.age \in Nat
      /\ FirstTry(m) /\ FirstTry(beat[w]) /\ ~TooSlow(0)
  BY MainFields, NoSlowStart DEF TypeOK, Answered, PromptState, Kept
<1>1. row.status # "queued"
  BY <1>0 DEF PromptState
<1>2. \A q \in late' : q.op = "renew"
  BY DEF Answered, Pending, BeatLeft, BeatRequest, PromptState
<1>3. PICK n \in Main :
        /\ main' = [main EXCEPT ![w] = n]
        /\ n.answer = "none" /\ n.try = 1 /\ n.age = 0
        /\ \/ n = Idle /\ Stop(w) /\ Ended(m)
           \/ /\ n.step \in {"between", "end"} /\ m.step = "start"
              /\ beat' = [beat EXCEPT ![w] = Asleep] /\ lost' = lost
           \/ /\ n.step \in {"between", "audit", "end"} /\ m.step # "start"
              /\ UNCHANGED <<beat, lost>>
  BY <1>0, GoesTo DEF Ended
<1>4. ASSUME NEW v \in Workers, v # w
      PROVE  Kept(v)'
  <2>1. main'[v] = main[v] /\ beat'[v] = beat[v] /\ lost'[v] = lost[v]
    BY <1>0, <1>3, <1>4 DEF Stop, TypeOK
  <2>2. QED
    BY <1>0, <2>1, KeptKept DEF PromptState, Holds
<1>5. Kept(w)'
  <2>1. main'[w] = n /\ FirstTry(n) /\ ~Ended(n)
    BY <1>0, <1>3 DEF FirstTry, Ended
  <2>2. FirstTry(beat'[w])
    BY <1>0, <1>3, FirstTries DEF Stop
  <2>3. ASSUME Holds(w)
        PROVE  AtWork(row.age, n, beat'[w], lost'[w])
    <3>1. AtWork(row.age, m, beat[w], lost[w])
      BY <1>0, <2>3 DEF Kept
    <3>2. ~Ended(m)
      BY <3>1 DEF AtWork, Ended
    <3>3. CASE m.step = "start"
      <4>1. /\ Heartbeat + 3 * row.age <= LeaseTTL + 3 * m.age
            /\ Heartbeat + 3 * m.age <= LeaseTTL
        BY <1>0, <3>1, <3>3, MainFields, Times DEF AtWork, FirstTry, TooSlow
      <4>2. beat'[w].step = "sleep" /\ beat'[w].left = Heartbeat
        BY <1>0, <1>3, <3>2, <3>3 DEF Asleep, Off
      <4>3. Young(row.age, beat'[w])
        BY <1>0, <4>1, <4>2, Times DEF Young
      <4>4. n.step \in {"between", "end"} /\ ~lost'[w]
        BY <1>0, <1>3, <3>2, <3>3 DEF ThreadsOK, Working
      <4>5. QED
        BY <2>1, <4>3, <4>4 DEF AtWork
    <3>4. CASE m.step # "start"
      <4>1. n.step \in {"between", "audit", "end"} /\ UNCHANGED <<beat, lost>>
        BY <1>3, <3>2, <3>4
      <4>2. QED
        BY <2>1, <3>1, <3>4, <4>1 DEF AtWork
    <3>5. QED
      BY <3>3, <3>4
  <2>4. QED
    BY <1>0, <2>1, <2>2, <2>3 DEF Kept, Holds
<1>6. QED
  BY <1>0, <1>1, <1>2, <1>4, <1>5 DEF PromptState

\* The steps of the thread that ask nothing of the server, and the start of a renewal.
LEMMA PromptMoves ==
  ASSUME TypeOK, ThreadsOK, PromptState, PromptWorkerKeepsLease, faults = 0, ~slow,
         NEW w \in Workers,
         List(w) \/ Start(w) \/ NodeStarts(w) \/ NodeEnds(w) \/ GraphEnds(w) \/ BeatStarts(w)
  PROVE  PromptState'
<1>0. /\ main \in [Workers -> Main] /\ main[w] \in Main /\ beat \in [Workers -> Beat]
      /\ beat[w] \in Beat /\ lost \in [Workers -> BOOLEAN]
      /\ Kept(w) /\ FirstTry(main[w]) /\ FirstTry(beat[w]) /\ ~TooSlow(0)
      /\ row.age \in Nat
  BY NoSlowStart DEF TypeOK, PromptState, Kept
<1>1. \A q \in late' : q.op = "renew"
  BY DEF List, Start, NodeStarts, NodeEnds, GraphEnds, BeatStarts, Pending, BeatLeft,
         BeatRequest, PromptState
<1>2. ASSUME NEW v \in Workers, v # w
      PROVE  main'[v] = main[v] /\ beat'[v] = beat[v] /\ lost'[v] = lost[v]
  BY <1>0, <1>2 DEF List, Start, NodeStarts, NodeEnds, GraphEnds, BeatStarts, Stop
<1>3. /\ row'.status = row.status /\ row'.owner = row.owner
      /\ row.status = "running" => row'.age = row.age
  <2>1. CASE List(w)
    <3>1. row.status = "queued"
      BY <2>1 DEF List, PromptWorkerKeepsLease
    <3>2. row.owner = None /\ row'.status = "queued" /\ row'.owner = None
      BY <2>1, <3>1 DEF List, TypeOK
    <3>3. QED
      BY <3>1, <3>2
  <2>2. CASE ~List(w)
    BY <2>2 DEF Start, NodeStarts, NodeEnds, GraphEnds, BeatStarts
  <2>3. QED
    BY <2>1, <2>2
<1>4. ASSUME NEW v \in Workers, v # w
      PROVE  Kept(v)'
  BY <1>2, <1>3, <1>4, KeptKept DEF PromptState, Holds
<1>5. ASSUME FirstTry(main'[w]), FirstTry(beat'[w]), Working(w)' => Working(w),
             row.status = "queued" => main'[w].answer = "none",
             Holds(w) => AtWork(row.age, main'[w], beat'[w], lost'[w])
      PROVE  PromptState'
  <2>1. Kept(w)'
    BY <1>3, <1>5 DEF Kept, Holds
  <2>2. row'.status = "queued" => \A v \in Workers : ~Working(v)' /\ main'[v].answer = "none"
    BY <1>2, <1>3, <1>5 DEF PromptState, Working
  <2>3. QED
    BY <1>1, <1>4, <2>1, <2>2 DEF PromptState
<1>6. CASE List(w) \/ Start(w)
  <2>1. main[w].step \in {"idle", "listed"} /\ UNCHANGED <<beat, lost>>
    BY <1>6 DEF List, Start
  <2>2. main'[w].step \in {"listed", "start"} /\ main'[w].try = main[w].try
        /\ main'[w].age = main[w].age /\ main'[w].answer = main[w].answer
    <3>1. CASE main' = [main EXCEPT ![w].step = "listed"]
      BY <1>0, <3>1, MainFields
    <3>2. CASE main' = [main EXCEPT ![w].step = "start"]
      BY <1>0, <3>2, MainFields
    <3>3. QED
      BY <1>6, <3>1, <3>2 DEF List, Start
  <2>3. ~Holds(w)
    BY <1>0, <2>1 DEF Kept, AtWork
  <2>4. QED
    BY <1>0, <1>5, <2>1, <2>2, <2>3 DEF FirstTry, Working, PromptState
\* In the graph.
<1>7. ASSUME FirstTry(main'[w]), UNCHANGED <<beat, lost>>, Working(w), main[w].step # "start",
             main'[w].step \notin {"idle", "listed", "start"}, main'[w].step # "end"
      PROVE  PromptState'
  <2>1. Holds(w) => AtWork(row.age, main'[w], beat[w], lost[w])
    BY <1>0, <1>7 DEF Kept, AtWork, Ended
  <2>2. row.status # "queued"
    BY <1>7 DEF PromptState
  <2>3. QED
    BY <1>0, <1>5, <1>7, <2>1, <2>2
<1>8. CASE NodeStarts(w)
  <2>1. main[w].step = "between" /\ UNCHANGED <<beat, lost>>
    BY <1>8 DEF NodeStarts
  <2>2. main'[w].step = "node" /\ FirstTry(main'[w])
    BY <1>0, <1>8, MainFields DEF NodeStarts, FirstTry
  <2>3. QED
    BY <1>7, <2>1, <2>2 DEF Working
<1>9. ASSUME NEW step \in {"report", "audit"}, main' = [main EXCEPT ![w] = Asked(@, step)],
             UNCHANGED <<beat, lost>>, main[w].step \in {"node", "between"}
      PROVE  PromptState'
  <2>1. FirstTry(main'[w]) /\ main'[w].step = step
    BY <1>0, <1>9, AskedShape DEF FirstTry
  <2>2. QED
    BY <1>7, <1>9, <2>1 DEF Working
<1>10. CASE NodeEnds(w)
  <2>1. main[w].step = "node" /\ UNCHANGED <<beat, lost>>
    BY <1>10 DEF NodeEnds
  <2>2. CASE main' = [main EXCEPT ![w] = [@ EXCEPT !.step = "between", !.failed = TRUE]]
    <3>1. main'[w].step = "between" /\ FirstTry(main'[w])
      BY <1>0, <2>2, MainFields DEF FirstTry
    <3>2. QED
      BY <1>7, <2>1, <3>1 DEF Working
  <2>3. QED
    BY <1>9, <1>10, <2>1, <2>2 DEF NodeEnds
<1>11. CASE GraphEnds(w)
  <2>1. main[w].step = "between"
    BY <1>11 DEF GraphEnds
  <2>2. CASE Stop(w) /\ lost[w]
    <3>1. FirstTry(main'[w]) /\ FirstTry(beat'[w]) /\ main'[w] = Idle
      BY <1>0, <2>2, FirstTries DEF Stop
    <3>2. ~Holds(w)
      BY <1>0, <2>1, <2>2 DEF Kept, AtWork
    <3>3. QED
      BY <1>5, <3>1, <3>2 DEF Working, Idle
  <2>3. QED
    BY <1>9, <1>11, <2>1, <2>2 DEF GraphEnds
<1>12. CASE BeatStarts(w)
  <2> DEFINE b == [Off EXCEPT !.step = "renew"]
  <2>1. /\ b.step = "renew" /\ b.answer = "none" /\ b.age = 0
        /\ beat' = [beat EXCEPT ![w] = b] /\ UNCHANGED <<main, lost>>
        /\ beat[w].step = "sleep" /\ beat[w].left = 0 /\ FirstTry(b)
    BY <1>0, <1>12, FirstTries DEF BeatStarts, Off
  <2> HIDE DEF b
  <2>2. Young(row.age, beat[w]) => Young(row.age, b)
    BY <1>0, <2>1, Times DEF Young
  <2>3. QED
    BY <1>0, <1>5, <2>1, <2>2 DEF Kept, AtWork, Working, PromptState
<1>13. QED
  BY <1>6, <1>8, <1>10, <1>11, <1>12

LEMMA PromptBeat ==
  ASSUME TypeOK, ThreadsOK, PromptState, NEW w \in Workers, BeatServed(w) \/ BeatAnswered(w)
  PROVE  PromptState'
<1> DEFINE r == BeatRequest(w)
           b == beat[w]
<1>0. /\ beat \in [Workers -> Beat] /\ b \in Beat /\ b.age \in Nat /\ b.left \in Nat
      /\ b.step = "renew" /\ FirstTry(b) /\ FirstTry(main[w]) /\ ~TooSlow(0)
      /\ r \in Request /\ r.by = w /\ r.op = "renew" /\ row.age \in Nat
      /\ UNCHANGED <<main, late>> /\ Kept(w) /\ lost \in [Workers -> BOOLEAN]
  BY RequestShape, BeatFields, NoSlowStart
     DEF TypeOK, BeatServed, BeatAnswered, PromptState, Kept, BeatRequest
<1>1. ASSUME NEW v \in Workers, v # w
      PROVE  beat'[v] = beat[v] /\ lost'[v] = lost[v]
  BY <1>0, <1>1 DEF BeatServed, BeatAnswered, BeatFails
<1>2. CASE /\ Accepts(r) /\ (\E lag \in 0..b.age : Handled(r, lag))
           /\ beat' = [beat EXCEPT ![w].answer = "ok"] /\ lost' = lost
  <2>1. PICK lag \in 0..b.age : Handled(r, lag)
    BY <1>2
  <2>2. lag \in Nat /\ ~TooSlow(lag) /\ lag <= b.age /\ row'.status # "queued"
    BY <1>0, <1>2, <2>1, NotSlowYet, HandledStatus DEF FirstTry
  <2>3. ASSUME NEW v \in Workers, v # w
        PROVE  Kept(v)'
    <3>1. ~Holds(v)'
      BY <1>0, <1>2, <2>1, <2>2, <2>3, HandledKept
    <3>2. QED
      BY <1>0, <1>1, <2>3, <3>1 DEF Kept, PromptState
  <2>4. Kept(w)'
    <3> DEFINE c == beat'[w]
    <3>1. c.step = "renew" /\ c.answer = "ok" /\ c.age = b.age /\ c.try = b.try
      BY <1>0, <1>2, BeatFields
    <3> HIDE DEF c
    <3>2. FirstTry(c)
      BY <1>0, <3>1 DEF FirstTry
    <3>3. Holds(w) /\ (Holds(w)' => row'.age = lag)
      BY <1>0, <1>2, <2>1, <2>2, HandledKept DEF Accepts, Terminal
    <3>4. Young(lag, c)
      BY <1>0, <2>2, <3>1, Times DEF Young, TooSlow
    <3>5. /\ Heartbeat + 3 * lag <= LeaseTTL + 3 * main[w].age
      <4>1. main[w].age \in Nat
        BY MainFields DEF TypeOK
      <4>2. QED
        BY <2>2, <4>1, Times DEF TooSlow
    <3>6. Holds(w)' => AtWork(row'.age, main[w], c, lost[w])
      BY <1>0, <3>3, <3>4, <3>5 DEF Kept, AtWork
    <3>7. QED
      BY <1>0, <1>2, <3>2, <3>6 DEF Kept, c
  <2>5. QED
    BY <1>0, <2>2, <2>3, <2>4 DEF PromptState
<1>3. CASE row' = row /\ FirstTry(beat'[w])
           /\ (Holds(w) => AtWork(row.age, main[w], beat'[w], lost'[w]))
  <2>1. Kept(w)'
    BY <1>0, <1>3 DEF Kept, Holds
  <2>2. ASSUME NEW v \in Workers, v # w
        PROVE  Kept(v)'
    BY <1>0, <1>1, <1>3, <2>2, KeptKept DEF PromptState, Holds
  <2>3. QED
    BY <1>0, <1>3, <2>1, <2>2 DEF PromptState, Working
<1>4. CASE ~Accepts(r) /\ beat' = [beat EXCEPT ![w].answer = "refused"] /\ row' = row
  <2>1. ~Holds(w)
    BY <1>0, <1>4 DEF Accepts
  <2>2. FirstTry(beat'[w])
    BY <1>0, <1>4, BeatFields DEF FirstTry
  <2>3. QED
    BY <1>3, <1>4, <2>1, <2>2
<1>5. CASE BeatServed(w)
  BY <1>2, <1>4, <1>5 DEF BeatServed
<1>6. CASE BeatAnswered(w) /\ b.answer = "ok"
  <2>1. beat' = [beat EXCEPT ![w] = Asleep] /\ UNCHANGED <<row, lost>>
    BY <1>6 DEF BeatAnswered
  <2>2. Asleep.step = "sleep" /\ Asleep.left = Heartbeat
    BY DEF Asleep, Off
  <2>3. Young(row.age, b) => Young(row.age, Asleep)
    BY <1>0, <1>6, <2>2, Times DEF Young, FirstTry, TooSlow
  <2>4. QED
    BY <1>0, <1>3, <2>1, <2>3, FirstTries DEF Kept, AtWork
<1>7. CASE BeatAnswered(w) /\ b.answer # "ok"
  <2>1. b.answer = "refused" /\ beat'[w] = Off /\ row' = row
    BY <1>0, <1>7 DEF BeatAnswered, BeatFails
  <2>2. CASE main[w].step = "start"
    <3>1. ~Working(w) /\ b.step = "off"
      BY <2>2 DEF Working, ThreadsOK
    <3>2. QED
      BY <1>0, <3>1
  <2>3. CASE main[w].step # "start"
    <3>1. ~Holds(w)
      BY <1>0, <2>1, <2>3 DEF Kept, AtWork, Young
    <3>2. QED
      BY <1>3, <2>1, <3>1, <1>0, FirstTries
  <2>4. QED
    BY <2>2, <2>3
<1>8. QED
  BY <1>5, <1>6, <1>7

LEMMA PromptTick ==
  ASSUME TypeOK, ThreadsOK, PromptState, Tick, ~slow'
  PROVE  PromptState'
<1>0. /\ row'.status = row.status /\ row'.owner = row.owner /\ row.age \in Nat
      /\ row'.age \in {row.age, row.age + 1} /\ UNCHANGED lost
  BY DEF Tick, TypeOK
<1>1. \A q \in late' : q.op = "renew"
  BY DEF Tick, Pending, PromptState
<1>2. ASSUME NEW v \in Workers
      PROVE  Kept(v)' /\ Working(v)' = Working(v) /\ main'[v].answer = main[v].answer
  <2> DEFINE m == main[v]
             n == main'[v]
             b == beat[v]
             c == beat'[v]
  <2>1. /\ m \in Main /\ b \in Beat /\ m.age \in Nat /\ b.age \in Nat /\ b.left \in Nat
        /\ FirstTry(m) /\ FirstTry(b) /\ Kept(v)
    BY MainFields, BeatFields DEF PromptState, Kept, TypeOK
  <2>2. ~TooSlow(n.age) /\ ~TooSlow(c.age)
    BY DEF Tick, TypeOK
  <2>3. n = IF m.step \in Asking THEN [m EXCEPT !.age = @ + 1] ELSE m
    BY DEF Tick
  <2>4. /\ n.step = m.step /\ n.answer = m.answer /\ n.try = m.try /\ n.fallback = m.fallback
        /\ m.step = "start" => n.age = m.age + 1
    BY <2>1, <2>3, MainFields DEF Asking
  <2>5. CASE b.step = "sleep"
    <3>1. c = [b EXCEPT !.left = @ - 1] /\ b.left > 0
      BY <2>5 DEF Tick, Prompt
    <3>2. c.step = "sleep" /\ c.answer = b.answer /\ c.try = b.try /\ c.left = b.left - 1
      BY <2>1, <2>5, <3>1, BeatFields
    <3>3. Young(row.age, b) => Young(row'.age, c)
      BY <1>0, <2>1, <2>5, <3>1, <3>2, Times DEF Young
    <3>4. QED
      BY <1>0, <2>1, <2>2, <2>4, <3>2, <3>3, Times
         DEF Kept, FirstTry, AtWork, Ended, Holds, Working
  <2>6. CASE b.step = "renew"
    <3>1. c = [b EXCEPT !.age = @ + 1]
      BY <2>6 DEF Tick
    <3>2. c.step = "renew" /\ c.answer = b.answer /\ c.try = b.try /\ c.age = b.age + 1
      BY <2>1, <2>6, <3>1, BeatFields
    <3>3. Young(row.age, b) => Young(row'.age, c)
      BY <1>0, <2>1, <2>6, <3>2, Times DEF Young
    <3>4. QED
      BY <1>0, <2>1, <2>2, <2>4, <3>2, <3>3, Times
         DEF Kept, FirstTry, AtWork, Ended, Holds, Working
  <2>7. CASE b.step = "off"
    <3>1. c = b
      BY <2>7 DEF Tick
    <3>2. Young(row'.age, c)
      BY <2>7, <3>1 DEF Young
    <3>3. QED
      BY <1>0, <2>1, <2>2, <2>4, <3>1, <3>2, Times
         DEF Kept, FirstTry, AtWork, Ended, Holds, Working
  <2>8. QED
    BY <2>1, <2>5, <2>6, <2>7, BeatFields
<1>3. QED
  BY <1>0, <1>1, <1>2 DEF PromptState

LEMMA PromptLate ==
  ASSUME TypeOK, PromptState, NEW r \in late, Late(r), ~slow'
  PROVE  PromptState'
<1>1. /\ UNCHANGED <<main, beat, lost>> /\ r \in Request /\ late' \subseteq late
      /\ r.op = "renew" /\ Accepts(r)
  BY DEF Late, PromptState, TypeOK
<1>2. PICK lag \in 0..MaxWait : Handled(r, lag) /\ ~TooSlow(lag)
  BY DEF Late, TypeOK
<1>3. lag \in Nat /\ row'.status # "queued"
  BY <1>1, <1>2, HandledStatus, Times
<1>4. ASSUME NEW v \in Workers
      PROVE  Kept(v)'
  <2>1. Holds(v)' => Holds(v) /\ row'.age = lag
    BY <1>1, <1>2, <1>3, HandledKept
  <2>2. QED
    BY <1>1, <1>2, <1>3, <2>1, KeptKept DEF PromptState
<1>5. QED
  BY <1>1, <1>3, <1>4 DEF PromptState

LEMMA PromptNext ==
  TypeOK /\ ThreadsOK /\ PromptInv /\ PromptWorkerKeepsLease /\ [Next]_vars => PromptInv'
<1> SUFFICES ASSUME TypeOK, ThreadsOK, PromptInv, PromptWorkerKeepsLease, [Next]_vars,
                    faults' = 0, ~slow'
             PROVE  PromptState'
  BY DEF PromptInv
<1>0. faults \in Nat /\ slow \in BOOLEAN
  BY Times DEF TypeOK
<1>1. CASE UNCHANGED vars
  BY <1>1 DEF vars, PromptInv, PromptState, Kept, Working, Holds
<1>2. CASE Tick
  <2>1. faults = 0 /\ ~slow
    BY <1>0, <1>2 DEF Tick
  <2>2. QED
    BY <1>2, <2>1, PromptTick DEF PromptInv
<1>3. CASE Cancel
  <2>1. /\ UNCHANGED <<main, beat, lost, faults, slow>> /\ late' = {} /\ row'.status = "canceled"
    BY <1>3 DEF Cancel, TypeOK
  <2>2. PromptState
    BY <2>1 DEF PromptInv
  <2>3. QED
    BY <2>1, <2>2 DEF PromptState, Kept, Holds
<1>4. ASSUME NEW r \in late, Late(r)
      PROVE  PromptState'
  <2>1. faults = 0 /\ ~slow
    BY <1>0, <1>4 DEF Late
  <2>2. QED
    BY <1>4, <2>1, PromptLate DEF PromptInv
<1>5. ASSUME NEW w \in Workers, Runs(w) \/ Beats(w) \/ Fails(w)
      PROVE  PromptState'
  <2>1. slow' = slow /\ faults' \in {faults, faults + 1}
    BY <1>5 DEF Runs, Beats, Fails, List, Start, NodeStarts, NodeEnds, GraphEnds, Served, Answered,
                Retried, BeatStarts, BeatServed, BeatAnswered, BeatRetried, Unanswered,
                BeatUnanswered, Crash, FaultCounted
  <2>2. faults = 0 /\ ~slow /\ PromptState
    BY <1>0, <2>1 DEF PromptInv
  <2>3. main[w].try = 1 /\ beat[w].try = 1 /\ main[w].answer # "lost" /\ beat[w].answer # "lost"
    BY <2>2 DEF PromptState, Kept, FirstTry
  <2>4. ~Fails(w) /\ ~Retried(w) /\ ~BeatRetried(w)
    BY <2>2, <2>3 DEF Fails, Unanswered, BeatUnanswered, Crash, FaultCounted, Retried, BeatRetried
  <2>5. QED
    BY <1>5, <2>2, <2>4, PromptServed, PromptAnswered, PromptMoves, PromptBeat DEF Runs, Beats
<1>6. QED
  BY <1>1, <1>2, <1>3, <1>4, <1>5 DEF Next

\* As long as every request is answered, no lease is lost to the expiry before a request has
\* taken more than a third of what the lease leaves beyond a heartbeat, wherever the commits
\* fall between the requests and the answers.
THEOREM PromptWorkersKeepTheirLease == Spec => []PromptWorkerKeepsLease
<1>1. Init => PromptInv
  BY FirstTries DEF Init, PromptInv, PromptState, Kept, FirstTry, Working, Holds, Idle, Off
<1>2. TypeOK /\ ThreadsOK /\ PromptInv => PromptWorkerKeepsLease
  BY KeptIsKept
<1>3. QED
  BY <1>1, <1>2, PromptNext, TypeCorrect, ThreadsCorrect, PTL DEF Spec
=============================================================================
