--------------------------- MODULE LongPollProofs ---------------------------
(***************************************************************************)
(* Proofs about LongPoll, for any number of waiters and all timings.       *)
(***************************************************************************)
EXTENDS LongPoll, SequenceTheorems, TLAPS

LEMMA Times ==
  /\ None \notin 1..MaxVersion + 1
  /\ WaitTicks \in Nat /\ PollInterval \in Nat /\ MaxInterval \in Nat /\ CacheTTL \in Nat
  /\ MaxPollers \in Nat /\ Window \in Nat /\ MinSamples \in Nat /\ MaxRead \in Nat
  /\ MaxVersion \in Nat
  /\ WaitTicks > 0 /\ PollInterval > 0 /\ MaxInterval > 0 /\ CacheTTL > 0 /\ Window > 0
  /\ MaxRead > 0 /\ MaxVersion > 0
BY LongPollAssumption

LEMMA IntervalIsTime == ASSUME NEW n PROVE Interval(n) \in Nat /\ Interval(n) >= 1
<1>1. PollInterval \div 2 \in Nat
  BY Times
<1>2. QED
  BY <1>1, Times DEF Interval, Least

LEMMA Firsts ==
  0 \in 0..MaxVersion + 1 /\ 0 \in 0..MaxRead /\ WaitTicks \in 0..WaitTicks
BY Times

-----------------------------------------------------------------------------
(* The shape of requests, cache and signal.                                *)

QueueOK == version + unbumped <= MaxVersion + 1

CacheOK ==
  /\ cache.has => cache.value >= 1
  /\ cache.inFlight => ~Fresh

\* Only a waiter that polls asks for the watermark, one in the select knows it, and the
\* ticker of one that knows it runs.
RequestOK(r) ==
  /\ r.step \in {"away", "listed"} => ~r.polls /\ r.base = None
  /\ r.step \in {"get", "read"} => r.polls
  /\ r.step = "waiting" /\ r.polls => r.base # None
  /\ r.due => r.polls /\ r.base # None
  /\ r.step = "read" => r.got \in 1..version
  /\ r.step # "read" => r.reading = 0
  /\ r.polls => r.interval >= 1
  /\ r.polls /\ r.base # None => r.next \in 1..r.interval
  /\ r.base # None => r.base <= version
  /\ r.base \in {None, version} => r.late = 0

RequestsOK == \A w \in Waiters : RequestOK(waiter[w])

Shape == TypeOK /\ QueueOK /\ CacheOK /\ RequestsOK

LEMMA AwayShape == Away \in Waiter /\ Away.step = "away" /\ RequestOK(Away)
BY Times DEF Away, Waiter, RequestOK

LEMMA ListedShape ==
  [Away EXCEPT !.step = "listed"] \in Waiter /\ RequestOK([Away EXCEPT !.step = "listed"])
<1> DEFINE l == [Away EXCEPT !.step = "listed"]
<1>1. l \in Waiter
  BY AwayShape DEF Waiter
<1>2. /\ l.step = "listed" /\ l.polls = FALSE /\ l.base = None /\ l.reading = 0 /\ l.late = 0
        /\ l.due = FALSE
  BY DEF Away
<1> HIDE DEF l
<1>3. RequestOK(l)
  BY <1>2 DEF RequestOK
<1>4. QED
  BY <1>1, <1>3 DEF l

LEMMA LearnedShape ==
  ASSUME NEW r \in Waiter, RequestOK(r), r.step \in {"get", "read"}, version \in 1..MaxVersion + 1,
         NEW v \in 1..version
  PROVE  /\ Learned(r, v) \in Waiter /\ RequestOK(Learned(r, v))
         /\ Learned(r, v).step = IF r.base \in {None, v} THEN "waiting" ELSE "woken"
         /\ Learned(r, v).polls /\ Learned(r, v).interval = r.interval
         /\ Learned(r, v).late = r.late /\ Learned(r, v).due = r.due
         /\ Learned(r, v).base = IF r.base = None THEN v ELSE r.base
         /\ r.base # None => Learned(r, v).next = r.next
<1> DEFINE l == Learned(r, v)
<1>1. v \in 1..MaxVersion + 1 /\ v # None
  BY Times
<1>2. l \in Waiter
  <2>1. CASE r.base = None
    BY <1>1, <2>1, Firsts DEF Learned, Waiter
  <2>2. CASE r.base # None
    <3>1. (IF v # r.base THEN "woken" ELSE "waiting") \in {"waiting", "woken"}
      OBVIOUS
    <3>2. QED
      BY <2>2, <3>1, Firsts DEF Learned, Waiter
  <2>3. QED
    BY <2>1, <2>2
<1>3. /\ l.step = IF r.base \in {None, v} THEN "waiting" ELSE "woken"
      /\ l.polls = r.polls /\ l.interval = r.interval /\ l.late = r.late /\ l.due = r.due
      /\ l.base = IF r.base = None THEN v ELSE r.base
      /\ l.next = IF r.base = None THEN r.interval ELSE r.next
      /\ l.reading = 0
  BY DEF Learned, Waiter
<1> HIDE DEF l
<1>4. RequestOK(l)
  BY <1>1, <1>3 DEF RequestOK, Waiter
<1>5. r.polls
  BY DEF RequestOK
<1>6. QED
  BY <1>2, <1>3, <1>4, <1>5 DEF l

LEMMA FailedShape ==
  ASSUME NEW r \in Waiter, RequestOK(r), r.step = "read", NEW p \in BOOLEAN
  PROVE  /\ Failed(r, p) \in Waiter /\ RequestOK(Failed(r, p))
         /\ Failed(r, p).step = "waiting" /\ Failed(r, p).late = r.late
         /\ r.base = None => ~Failed(r, p).polls
<1> DEFINE f == Failed(r, p)
<1>1. f \in Waiter
  <2>1. CASE r.base = None
    BY <2>1, Firsts DEF Failed, Waiter
  <2>2. CASE r.base # None
    <3> DEFINE d == r.due /\ ~p
               q == ~p
    <3>1. d \in BOOLEAN /\ q \in BOOLEAN
      OBVIOUS
    <3>2. f = [r EXCEPT !.step = "waiting", !.polls = q, !.due = d, !.got = 0, !.reading = 0]
      BY <2>2 DEF Failed
    <3> HIDE DEF d, q, f
    <3>3. QED
      BY <3>1, <3>2, Firsts DEF Waiter
  <2>3. QED
    BY <2>1, <2>2
<1>2. /\ f.step = "waiting" /\ f.polls = (r.base # None /\ ~p)
      /\ f.interval = r.interval /\ f.late = r.late /\ f.base = r.base /\ f.next = r.next
      /\ f.reading = 0
  BY DEF Failed, Waiter
<1>5. r.base = None => ~f.due
  BY DEF Failed, Waiter, RequestOK
<1>6. f.due => f.polls
  BY DEF Failed, Waiter, RequestOK
<1> HIDE DEF f
<1>3. RequestOK(f)
  BY <1>2, <1>5, <1>6 DEF RequestOK, Waiter
<1>4. QED
  BY <1>1, <1>2, <1>3 DEF f

LEMMA AgedShape ==
  ASSUME NEW r \in Waiter, RequestOK(r), r.reading < MaxRead, version \in Nat
  PROVE  /\ Aged(r) \in Waiter /\ RequestOK(Aged(r))
         /\ Aged(r).step = r.step /\ Aged(r).polls = r.polls /\ Aged(r).base = r.base
         /\ Aged(r).interval = r.interval /\ Aged(r).got = r.got
         /\ Aged(r).reading = IF r.step = "read" THEN r.reading + 1 ELSE r.reading
         /\ Aged(r).late \in {r.late, r.late + 1} \cup 0..r.late
         /\ Aged(r).due = (r.due \/ (Timed(r) /\ r.polls /\ r.next = 1))
         /\ Aged(r).next = IF ~Timed(r) \/ ~r.polls THEN r.next
                           ELSE IF r.next = 1 THEN r.interval ELSE r.next - 1
<1>1. PollDelay(r) \in Nat
  BY Times DEF PollDelay, Waiter
<1>2. Timed(r) /\ r.polls => r.next \in Nat /\ r.next >= 1 /\ r.next <= r.interval
  BY DEF Timed, RequestOK, Waiter
<1>3. Least(r.late + 1, PollDelay(r)) \in Nat /\ Least(r.late + 1, PollDelay(r)) <= r.late + 1
  BY <1>1 DEF Least, Waiter
<1> DEFINE a == Aged(r)
<1>4. a \in Waiter
  <2>1. Timed(r) /\ r.left > 0 => r.left - 1 \in 0..WaitTicks
    BY Times DEF Waiter
  <2>2. r.step = "read" => r.reading + 1 \in 0..MaxRead
    BY Times DEF Waiter
  <2>3. Timed(r) /\ r.polls => r.interval \in Nat /\ r.next - 1 \in Nat
    BY <1>2 DEF Waiter
  <2>4. (r.due \/ (Timed(r) /\ r.polls /\ r.next = 1)) \in BOOLEAN
    BY DEF Waiter
  <2> DEFINE l == IF Timed(r) /\ r.left > 0 THEN r.left - 1 ELSE r.left
             n == IF ~Timed(r) \/ ~r.polls THEN r.next
                  ELSE IF r.next = 1 THEN r.interval ELSE r.next - 1
             d == r.due \/ (Timed(r) /\ r.polls /\ r.next = 1)
             g == IF r.step = "read" THEN r.reading + 1 ELSE r.reading
             t == IF r.polls /\ r.base \notin {None, version}
                  THEN Least(r.late + 1, PollDelay(r)) ELSE r.late
  <2>5. l \in 0..WaitTicks
    BY <2>1 DEF Waiter
  <2>6. n \in Nat
    BY <2>3 DEF Waiter
  <2>7. g \in 0..MaxRead
    BY <2>2 DEF Waiter
  <2>8. t \in Nat
    BY <1>3 DEF Waiter
  <2>9. a = [r EXCEPT !.left = l, !.next = n, !.due = d, !.reading = g, !.late = t]
    BY DEF Aged
  <2>10. d \in BOOLEAN
    BY <2>4
  <2> HIDE DEF l, n, d, g, t, a
  <2>11. QED
    BY <2>5, <2>6, <2>7, <2>8, <2>9, <2>10 DEF Waiter
<1>5. /\ a.step = r.step /\ a.polls = r.polls /\ a.base = r.base
      /\ a.interval = r.interval /\ a.got = r.got
      /\ a.reading = IF r.step = "read" THEN r.reading + 1 ELSE r.reading
      /\ a.due = (r.due \/ (Timed(r) /\ r.polls /\ r.next = 1))
      /\ a.next = IF ~Timed(r) \/ ~r.polls THEN r.next
                  ELSE IF r.next = 1 THEN r.interval ELSE r.next - 1
      /\ a.late = IF r.polls /\ r.base \notin {None, version}
                  THEN Least(r.late + 1, PollDelay(r)) ELSE r.late
  BY DEF Aged, Waiter
<1> HIDE DEF a
<1>6. a.late \in {r.late, r.late + 1} \cup 0..r.late
  BY <1>3, <1>5 DEF Waiter
<1>7. a.polls /\ a.base # None => a.next \in 1..a.interval
  BY <1>2, <1>5 DEF RequestOK, Waiter
<1>10. a.due => a.polls /\ a.base # None
  BY <1>5 DEF RequestOK, Timed
<1>8. RequestOK(a)
  BY <1>5, <1>7, <1>10 DEF RequestOK
<1>9. QED
  BY <1>4, <1>5, <1>6, <1>8 DEF a

LEMMA NotLateShape ==
  ASSUME NEW r \in Waiter, RequestOK(r)
  PROVE  /\ [r EXCEPT !.late = 0] \in Waiter /\ RequestOK([r EXCEPT !.late = 0])
         /\ [r EXCEPT !.late = 0].step = r.step /\ [r EXCEPT !.late = 0].late = 0
<1> DEFINE l == [r EXCEPT !.late = 0]
<1>1. l \in Waiter
  BY DEF Waiter
<1>2. /\ l.step = r.step /\ l.polls = r.polls /\ l.base = r.base /\ l.got = r.got
      /\ l.interval = r.interval /\ l.next = r.next /\ l.reading = r.reading /\ l.late = 0
      /\ l.due = r.due
  BY DEF Waiter
<1> HIDE DEF l
<1>3. RequestOK(l)
  BY <1>2 DEF RequestOK
<1>4. QED
  BY <1>1, <1>2, <1>3 DEF l

LEMMA ObservedShape ==
  ASSUME NEW s \in Seq(BOOLEAN), Len(s) <= Window, NEW e \in BOOLEAN
  PROVE  Observed(s, e) \in Seq(BOOLEAN) /\ Len(Observed(s, e)) <= Window
<1> DEFINE all == Append(s, e)
<1>1. all \in Seq(BOOLEAN) /\ Len(all) = Len(s) + 1 /\ Len(s) \in Nat
  OBVIOUS
<1>2. all # <<>> => Tail(all) \in Seq(BOOLEAN) /\ Len(Tail(all)) = Len(all) - 1
  BY <1>1, HeadTailProperties
<1>3. all # <<>>
  OBVIOUS
<1> DEFINE o == Observed(s, e)
<1>4. o = IF Len(all) > Window THEN Tail(all) ELSE all
  BY DEF Observed
<1> HIDE DEF all, o
<1>5. o \in Seq(BOOLEAN) /\ Len(o) <= Window
  <2>1. CASE Len(all) > Window
    BY <1>1, <1>2, <1>3, <1>4, <2>1, Times
  <2>2. CASE ~(Len(all) > Window)
    BY <1>1, <1>4, <2>2, Times
  <2>3. QED
    BY <2>1, <2>2
<1>6. QED
  BY <1>5 DEF o

\* A step that changes requests and not the signal.
LEMMA RequestsStep ==
  ASSUME version' = version, waiter' \in [Waiters -> Waiter],
         \A w \in Waiters : RequestOK(waiter'[w])
  PROVE  RequestsOK'
BY DEF RequestsOK, RequestOK

LEMMA OneRequest ==
  ASSUME Shape, version' = version, NEW w \in Waiters, NEW r \in Waiter, RequestOK(r),
         waiter' = [waiter EXCEPT ![w] = r]
  PROVE  waiter' \in [Waiters -> Waiter] /\ RequestsOK'
<1>1. waiter \in [Waiters -> Waiter]
  BY DEF Shape, TypeOK
<1>2. waiter' \in [Waiters -> Waiter]
  BY <1>1
<1>3. \A v \in Waiters : RequestOK(waiter'[v])
  BY <1>1 DEF Shape, RequestsOK
<1>4. QED
  BY <1>2, <1>3, RequestsStep

LEMMA ShapeInit == Init => Shape
<1> SUFFICES ASSUME Init
             PROVE  Shape
  OBVIOUS
<1>1. TypeOK
  <2>1. waiter \in [Waiters -> Waiter]
    BY AwayShape DEF Init
  <2>2. /\ version \in 1..MaxVersion + 1 /\ unbumped \in 0..MaxVersion
        /\ 0 \in 0..version /\ 0 \in 0..CacheTTL
    BY Times DEF Init
  <2>3. samples \in Seq(BOOLEAN) /\ Len(samples) <= Window
    BY Times DEF Init
  <2>4. QED
    BY <2>1, <2>2, <2>3 DEF Init, TypeOK
<1>2. QED
  BY <1>1, AwayShape, Times DEF Init, Shape, QueueOK, CacheOK, RequestsOK

LEMMA ShapeQueue == Shape /\ Queue => Shape'
<1> SUFFICES ASSUME Shape, Queue
             PROVE  Shape'
  OBVIOUS
<1>0. /\ version \in Nat /\ unbumped \in Nat /\ version >= 1
      /\ waiter \in [Waiters -> Waiter]
      /\ \A w \in Waiters : RequestOK(waiter[w])
  BY DEF Shape, TypeOK, RequestsOK
<1>1. ASSUME version' >= version, version' \in 1..MaxVersion + 1, UNCHANGED <<waiter, cache, samples>>
      PROVE  RequestsOK' /\ CacheOK' /\ cache' \in [value : 0..version', has : BOOLEAN,
                                                   age : 0..CacheTTL, inFlight : BOOLEAN]
  <2>1. ASSUME NEW w \in Waiters
        PROVE  RequestOK(waiter[w])'
    <3>1. waiter'[w] = waiter[w] /\ waiter[w] \in Waiter
      BY <1>0, <1>1
    <3>2. waiter[w].base # None => waiter[w].base <= version /\ waiter[w].base \in Nat
      BY <1>0, <3>1 DEF RequestOK, Waiter
    <3>3. waiter[w].base \in {None, version'} => waiter[w].late = 0
      BY <1>0, <1>1, <3>2 DEF RequestOK
    <3>4. QED
      BY <1>0, <1>1, <3>1, <3>2, <3>3 DEF RequestOK
  <2>2. cache' \in [value : 0..version', has : BOOLEAN, age : 0..CacheTTL, inFlight : BOOLEAN]
    <3>1. cache \in [value : 0..version, has : BOOLEAN, age : 0..CacheTTL, inFlight : BOOLEAN]
      BY DEF Shape, TypeOK
    <3>2. 0..version \subseteq 0..version'
      BY <1>0, <1>1
    <3>3. QED
      BY <1>1, <3>1, <3>2
  <2>3. QED
    BY <1>1, <2>1, <2>2 DEF RequestsOK, CacheOK, Fresh, Shape
<1>2. ASSUME NEW j \in Jobs, Submit(j)
      PROVE  Shape'
  <2>1. version' \in 1..MaxVersion + 1 /\ version' >= version
    BY <1>0, <1>2, Times DEF Submit
  <2>2. QED
    BY <1>0, <1>1, <1>2, <2>1, Times DEF Submit, Shape, TypeOK, QueueOK
<1>3. ASSUME NEW j \in Jobs, Reclaim(j)
      PROVE  Shape'
  <2>1. unbumped' \in 0..MaxVersion /\ version' = version
    BY <1>0, <1>3, Times DEF Reclaim
  <2>2. QED
    BY <1>0, <1>1, <1>3, <2>1, Times DEF Reclaim, Shape, TypeOK, QueueOK
<1>4. CASE Bump
  <2>1. version' \in 1..MaxVersion + 1 /\ version' >= version /\ unbumped' \in 0..MaxVersion
    BY <1>0, <1>4, Times DEF Bump, Shape, QueueOK, TypeOK
  <2>2. QED
    BY <1>0, <1>1, <1>4, <2>1, Times DEF Bump, Shape, TypeOK, QueueOK
<1>5. CASE Notify
  <2>1. ASSUME NEW w \in Waiters
        PROVE  waiter'[w] \in Waiter /\ RequestOK(waiter'[w])
    <3> DEFINE n == [waiter[w] EXCEPT !.notified = TRUE]
    <3>1. n \in Waiter /\ RequestOK(n)
      BY <1>0 DEF Waiter, RequestOK
    <3>2. waiter'[w] \in {waiter[w], n}
      BY <1>5 DEF Notify, NotifyAll
    <3>3. QED
      BY <1>0, <3>1, <3>2
  <2>2. waiter' \in [Waiters -> Waiter]
    BY <1>5, <2>1 DEF Notify, NotifyAll
  <2>3. RequestsOK'
    BY <1>5, <2>1, <2>2, RequestsStep DEF Notify
  <2>4. QED
    BY <1>5, <2>2, <2>3 DEF Notify, Shape, TypeOK, QueueOK, CacheOK, Fresh
<1>6. QED
  BY <1>2, <1>3, <1>4, <1>5 DEF Queue

CacheType == [value : 0..version, has : BOOLEAN, age : 0..CacheTTL, inFlight : BOOLEAN]

LEMMA ShapeParts ==
  ASSUME Shape
  PROVE  /\ version \in 1..MaxVersion + 1 /\ version \in Nat /\ version >= 1
         /\ unbumped \in 0..MaxVersion
         /\ waiter \in [Waiters -> Waiter] /\ cache \in CacheType
         /\ \A w \in Waiters : waiter[w] \in Waiter /\ RequestOK(waiter[w])
         /\ samples \in Seq(BOOLEAN) /\ Len(samples) <= Window
BY DEF Shape, TypeOK, CacheType, RequestsOK

\* A step of a request or of the clock leaves the queue alone, but for the jobs it takes.
LEMMA ShapeStep ==
  ASSUME Shape, UNCHANGED <<version, unbumped>>, job' \in [Jobs -> {"none", "queued", "taken"}],
         waiter' \in [Waiters -> Waiter], RequestsOK', cache' \in CacheType, CacheOK',
         samples' \in Seq(BOOLEAN), Len(samples') <= Window
  PROVE  Shape'
BY DEF Shape, TypeOK, QueueOK, CacheType

LEMMA CacheEnds ==
  ASSUME Shape, UNCHANGED version
  PROVE  /\ NotStored \in CacheType /\ (cache' = NotStored => CacheOK')
         /\ \A v \in 1..version : Stored(v) \in CacheType /\ (cache' = Stored(v) => CacheOK')
         /\ (cache' = cache => CacheOK')
<1>1. NotStored \in CacheType
  BY ShapeParts DEF NotStored, CacheType
<1>2. cache' = NotStored => CacheOK'
  BY ShapeParts DEF NotStored, CacheType, CacheOK, Fresh, Shape
<1>3. ASSUME NEW v \in 1..version
      PROVE  Stored(v) \in CacheType /\ (cache' = Stored(v) => CacheOK')
  <2>1. v \in 0..version /\ v >= 1 /\ 0 \in 0..CacheTTL
    BY ShapeParts, Times
  <2>2. QED
    BY <2>1 DEF Stored, CacheType, CacheOK
<1>4. cache' = cache => CacheOK'
  BY DEF Shape, CacheOK, Fresh
<1>5. QED
  BY <1>1, <1>2, <1>3, <1>4

\* What a fresh value is.
LEMMA FreshValue ==
  ASSUME Shape, Fresh
  PROVE  cache.value \in 1..version /\ ~cache.inFlight
BY ShapeParts DEF Shape, CacheOK, Fresh, CacheType

\* A query fails with the request of w.
LEMMA FailedStep ==
  ASSUME Shape, NEW w \in Waiters, NEW r \in Waiter, RequestOK(r),
         waiter' = [NotLate EXCEPT ![w] = r], cache' = NotStored,
         samples' = Observed(samples, TRUE), UNCHANGED <<job, version, unbumped>>
  PROVE  Shape'
<1>1. waiter' \in [Waiters -> Waiter] /\ \A v \in Waiters : RequestOK(waiter'[v])
  <2>1. ASSUME NEW v \in Waiters
        PROVE  NotLate[v] \in Waiter /\ RequestOK(NotLate[v])
    BY ShapeParts, NotLateShape DEF NotLate
  <2>2. NotLate \in [Waiters -> Waiter]
    BY <2>1 DEF NotLate
  <2>3. QED
    BY <2>1, <2>2
<1>2. RequestsOK'
  BY <1>1, RequestsStep
<1>3. cache' \in CacheType /\ CacheOK'
  BY CacheEnds
<1>4. samples' \in Seq(BOOLEAN) /\ Len(samples') <= Window
  BY ShapeParts, ObservedShape
<1>5. job' \in [Jobs -> {"none", "queued", "taken"}]
  BY DEF Shape, TypeOK
<1>6. QED
  BY <1>1, <1>2, <1>3, <1>4, <1>5, ShapeStep

LEMMA ShapeRequest ==
  ASSUME Shape, NEW w \in Waiters, Request(w) \/ Leave(w)
  PROVE  Shape'
<1> DEFINE r == waiter[w]
<1>0. /\ r \in Waiter /\ RequestOK(r) /\ UNCHANGED <<version, unbumped>>
      /\ job \in [Jobs -> {"none", "queued", "taken"}]
      /\ waiter \in [Waiters -> Waiter] /\ cache \in CacheType
      /\ samples \in Seq(BOOLEAN) /\ Len(samples) <= Window
      /\ version \in 1..MaxVersion + 1
  BY ShapeParts DEF Shape, TypeOK, Request, List, Enter, Get, ReadOK, ReadFails, Wake, Poll, Leave
<1>1. ASSUME UNCHANGED <<cache, samples>>, job' \in [Jobs -> {"none", "queued", "taken"}],
             NEW n \in Waiter, RequestOK(n), waiter' = [waiter EXCEPT ![w] = n]
      PROVE  Shape'
  BY <1>0, <1>1, OneRequest, CacheEnds, ShapeStep
<1>2. CASE List(w)
  <2>1. PICK n \in {Away, [Away EXCEPT !.step = "listed"]} : waiter' = [waiter EXCEPT ![w] = n]
    BY <1>2 DEF List
  <2>2. job' \in [Jobs -> {"none", "queued", "taken"}] /\ UNCHANGED <<cache, samples>>
    BY <1>0, <1>2 DEF List
  <2>3. QED
    BY <1>1, <2>1, <2>2, AwayShape, ListedShape
<1>3. CASE Enter(w)
  <2> DEFINE m == Interval(Entering)
             p == [r EXCEPT !.step = "get", !.polls = TRUE, !.interval = m]
             q == [r EXCEPT !.step = "waiting", !.left = WaitTicks]
  <2>1. m \in Nat /\ m >= 1 /\ r.step = "listed"
    BY <1>3, IntervalIsTime DEF Enter
  <2>2. p \in Waiter /\ q \in Waiter
    BY <1>0, <2>1, Firsts DEF Waiter
  <2>3. /\ p.step = "get" /\ p.base = r.base /\ p.interval = m /\ p.late = r.late
        /\ p.reading = r.reading /\ p.polls = TRUE /\ p.due = r.due /\ q.due = r.due
        /\ q.step = "waiting" /\ q.base = r.base /\ q.late = r.late
        /\ q.reading = r.reading /\ q.polls = r.polls
    BY <1>0 DEF Waiter
  <2>4. waiter' = [waiter EXCEPT ![w] = p] \/ waiter' = [waiter EXCEPT ![w] = q]
    BY <1>3 DEF Enter
  <2> HIDE DEF m, p, q
  <2>5. RequestOK(p) /\ RequestOK(q)
    BY <1>0, <2>1, <2>3 DEF RequestOK
  <2>6. QED
    BY <1>0, <1>1, <1>3, <2>2, <2>4, <2>5 DEF Enter
<1>4. CASE Get(w)
  <2>1. CASE Fresh /\ waiter' = [waiter EXCEPT ![w] = Learned(@, cache.value)] /\ UNCHANGED cache
    <3>1. Learned(r, cache.value) \in Waiter /\ RequestOK(Learned(r, cache.value))
      BY <1>0, <1>4, <2>1, FreshValue, LearnedShape DEF Get
    <3>2. QED
      BY <1>0, <1>1, <1>4, <2>1, <3>1 DEF Get
  <2>2. CASE /\ ~Fresh /\ cache' = [cache EXCEPT !.inFlight = TRUE]
             /\ waiter' = [waiter EXCEPT ![w] = [@ EXCEPT !.step = "read", !.got = version]]
    <3> DEFINE n == [r EXCEPT !.step = "read", !.got = version]
    <3>1. r.step = "get" /\ version \in 0..MaxVersion + 1 /\ version \in 1..version
      BY <1>0, <1>4, Times DEF Get
    <3>2. n \in Waiter
      BY <1>0, <3>1 DEF Waiter
    <3>3. /\ n.step = "read" /\ n.polls = r.polls /\ n.base = r.base /\ n.got = version
          /\ n.interval = r.interval /\ n.next = r.next /\ n.late = r.late /\ n.due = r.due
      BY <1>0 DEF Waiter
    <3>4. waiter' = [waiter EXCEPT ![w] = n]
      BY <2>2
    <3> HIDE DEF n
    <3>5. RequestOK(n)
      BY <1>0, <3>1, <3>3 DEF RequestOK
    <3>6. waiter' \in [Waiters -> Waiter] /\ RequestsOK'
      BY <1>0, <3>2, <3>4, <3>5, OneRequest
    <3>7. cache' \in CacheType /\ CacheOK'
      BY <1>0, <2>2 DEF CacheType, CacheOK, Shape, Fresh
    <3>8. QED
      BY <1>0, <1>4, <3>6, <3>7, ShapeStep DEF Get
  <2>3. QED
    BY <1>4, <2>1, <2>2 DEF Get
<1>5. CASE ReadOK(w)
  <2>1. r.step = "read" /\ r.got \in 1..version
    BY <1>0, <1>5 DEF ReadOK, RequestOK
  <2>2. Learned(r, r.got) \in Waiter /\ RequestOK(Learned(r, r.got))
    BY <1>0, <2>1, LearnedShape
  <2>3. waiter' = [waiter EXCEPT ![w] = Learned(r, r.got)] /\ cache' = Stored(r.got)
    BY <1>5 DEF ReadOK
  <2>4. waiter' \in [Waiters -> Waiter] /\ RequestsOK'
    BY <1>0, <2>2, <2>3, OneRequest
  <2>5. cache' \in CacheType /\ CacheOK'
    BY <1>0, <2>1, <2>3, CacheEnds
  <2>6. samples' \in Seq(BOOLEAN) /\ Len(samples') <= Window
    BY <1>0, <1>5, ObservedShape DEF ReadOK
  <2>7. QED
    BY <1>0, <1>5, <2>4, <2>5, <2>6, ShapeStep DEF ReadOK
<1>6. CASE ReadFails(w)
  <2> DEFINE p == Protects(samples')
             n == [r EXCEPT !.late = 0]
  <2>1. p \in BOOLEAN /\ r.step = "read"
    BY <1>6 DEF Protects, ReadFails
  <2>2. n \in Waiter /\ RequestOK(n) /\ n.step = "read" /\ n = NotLate[w]
    BY <1>0, <2>1, NotLateShape DEF NotLate
  <2>3. waiter' = [NotLate EXCEPT ![w] = Failed(n, p)]
    BY <1>6, <2>2 DEF ReadFails
  <2> HIDE DEF p, n
  <2>4. Failed(n, p) \in Waiter /\ RequestOK(Failed(n, p))
    BY <2>1, <2>2, FailedShape
  <2>5. QED
    BY <1>6, <2>3, <2>4, FailedStep DEF ReadFails
<1>7. CASE Wake(w)
  <2> DEFINE n == [r EXCEPT !.step = "woken"]
  <2>1. n \in Waiter /\ r.step = "waiting"
    BY <1>0, <1>7 DEF Waiter, Wake
  <2>2. /\ n.step = "woken" /\ n.due = r.due /\ n.polls = r.polls /\ n.base = r.base /\ n.interval = r.interval
        /\ n.next = r.next /\ n.late = r.late /\ n.reading = r.reading
    BY <1>0 DEF Waiter
  <2>3. waiter' = [waiter EXCEPT ![w] = n]
    BY <1>7 DEF Wake
  <2> HIDE DEF n
  <2>4. RequestOK(n)
    BY <1>0, <2>1, <2>2 DEF RequestOK
  <2>5. QED
    BY <1>0, <1>1, <1>7, <2>1, <2>3, <2>4 DEF Wake
<1>8. CASE Poll(w)
  <2> DEFINE n == [r EXCEPT !.step = "get", !.due = FALSE]
  <2>1. n \in Waiter /\ r.step = "waiting" /\ r.due
    BY <1>0, <1>8 DEF Waiter, Poll
  <2>2. /\ n.due = FALSE /\ n.step = "get" /\ n.polls = r.polls /\ n.base = r.base /\ n.interval = r.interval
        /\ n.next = r.next /\ n.late = r.late /\ n.reading = r.reading
    BY <1>0 DEF Waiter
  <2>3. waiter' = [waiter EXCEPT ![w] = n]
    BY <1>8 DEF Poll
  <2>4. r.polls
    BY <1>0, <2>1 DEF RequestOK
  <2> HIDE DEF n
  <2>5. RequestOK(n)
    BY <1>0, <2>1, <2>2, <2>4 DEF RequestOK
  <2>6. QED
    BY <1>0, <1>1, <1>8, <2>1, <2>3, <2>5 DEF Poll
<1>9. CASE Leave(w)
  <2>1. CASE r.step = "read"
    BY <1>9, <2>1, AwayShape, FailedStep DEF Leave
  <2>2. CASE r.step # "read"
    BY <1>0, <1>1, <1>9, <2>2, AwayShape DEF Leave
  <2>3. QED
    BY <2>1, <2>2
<1>10. QED
  BY <1>2, <1>3, <1>4, <1>5, <1>6, <1>7, <1>8, <1>9 DEF Request

LEMMA ShapeTick == Shape /\ Tick => Shape'
<1> SUFFICES ASSUME Shape, Tick
             PROVE  Shape'
  OBVIOUS
<1>1. ASSUME NEW w \in Waiters
      PROVE  Aged(waiter[w]) \in Waiter /\ RequestOK(Aged(waiter[w]))
  BY ShapeParts, AgedShape DEF Tick
<1>2. waiter' = [w \in Waiters |-> Aged(waiter[w])] /\ UNCHANGED <<job, version, unbumped, samples>>
  BY DEF Tick
<1>3. waiter' \in [Waiters -> Waiter] /\ RequestsOK'
  BY <1>1, <1>2, RequestsStep
<1>4. cache' \in CacheType /\ CacheOK'
  <2>1. cache' = [cache EXCEPT !.age = Least(cache.age + 1, CacheTTL)]
    BY DEF Tick
  <2>2. cache \in CacheType
    BY ShapeParts
  <2>3. Least(cache.age + 1, CacheTTL) \in cache.age..CacheTTL
    BY <2>2, Times DEF Least, CacheType
  <2>4. Least(cache.age + 1, CacheTTL) \in 0..CacheTTL
    BY <2>2, <2>3, Times DEF CacheType
  <2>5. cache' \in CacheType
    BY <1>2, <2>1, <2>2, <2>4 DEF CacheType
  <2>6. CacheOK'
    BY <2>1, <2>2, <2>3, Times DEF CacheOK, Fresh, Shape, CacheType
  <2>7. QED
    BY <2>5, <2>6
<1>5. QED
  BY <1>2, <1>3, <1>4, ShapeStep, ShapeParts DEF Shape, TypeOK

LEMMA ShapeNext == Shape /\ [Next]_vars => Shape'
<1> SUFFICES ASSUME Shape, [Next]_vars
             PROVE  Shape'
  OBVIOUS
<1>1. CASE UNCHANGED vars
  BY <1>1 DEF vars, Shape, TypeOK, QueueOK, CacheOK, Fresh, RequestsOK, RequestOK
<1>2. QED
  BY <1>1, ShapeQueue, ShapeRequest, ShapeTick DEF Next

LEMMA ShapeCorrect == Spec => []Shape
BY ShapeInit, ShapeNext, PTL DEF Spec

\* Requests, ticker, cache and signal keep their shape: no timer leaves its range, and no
\* watermark is newer than the signal's.
THEOREM TypeCorrect == Spec => []TypeOK
<1>1. Shape => TypeOK
  BY DEF Shape
<1>2. QED
  BY <1>1, ShapeCorrect, PTL

-----------------------------------------------------------------------------
(* One query at a time.                                                    *)

Reads(w) == waiter[w].step = "read"

LEMMA QueryNext == Shape /\ OneQueryAtATime /\ [Next]_vars => OneQueryAtATime'
<1> SUFFICES ASSUME Shape, OneQueryAtATime, [Next]_vars
             PROVE  OneQueryAtATime'
  OBVIOUS
<1> USE DEF OneQueryAtATime
<1>0. /\ waiter \in [Waiters -> Waiter] /\ cache \in CacheType
      /\ \A w \in Waiters : waiter[w] \in Waiter /\ RequestOK(waiter[w])
  BY ShapeParts
<1>1. ASSUME cache'.inFlight = cache.inFlight, \A w \in Waiters : Reads(w)' <=> Reads(w)
      PROVE  OneQueryAtATime'
  BY <1>1 DEF Reads
<1>2. ASSUME NEW w \in Waiters, Reads(w), ~Reads(w)', ~cache'.inFlight,
             \A v \in Waiters \ {w} : Reads(v)' <=> Reads(v)
      PROVE  OneQueryAtATime'
  BY <1>2 DEF Reads
<1>3. CASE UNCHANGED <<cache, waiter>>
  BY <1>3
<1>4. CASE Notify
  BY <1>0, <1>1, <1>4 DEF Notify, NotifyAll, Reads, Waiter
<1>5. CASE Tick
  <2>1. \A w \in Waiters : waiter'[w].step = waiter[w].step
    BY <1>0, <1>5, AgedShape, ShapeParts DEF Tick
  <2>2. cache'.inFlight = cache.inFlight
    BY <1>0, <1>5 DEF Tick, CacheType
  <2>3. QED
    BY <1>1, <2>1, <2>2 DEF Reads
<1>6. ASSUME NEW w \in Waiters, List(w) \/ Enter(w) \/ Wake(w) \/ Poll(w)
      PROVE  OneQueryAtATime'
  <2>1. ~Reads(w) /\ ~Reads(w)' /\ cache' = cache
    <3>1. CASE List(w)
      BY <1>0, <3>1, AwayShape DEF List, Reads, Waiter, Away
    <3>2. CASE Enter(w)
      BY <1>0, <3>2 DEF Enter, Reads, Waiter
    <3>3. CASE Wake(w)
      BY <1>0, <3>3 DEF Wake, Reads, Waiter
    <3>4. CASE Poll(w)
      <4>1. [waiter[w] EXCEPT !.step = "get", !.due = FALSE].step = "get"
        BY <1>0 DEF Waiter
      <4>2. QED
        BY <1>0, <3>4, <4>1 DEF Poll, Reads
    <3>5. QED
      BY <1>6, <3>1, <3>2, <3>3, <3>4
  <2>2. \A v \in Waiters \ {w} : waiter'[v] = waiter[v]
    BY <1>0, <1>6 DEF List, Enter, Wake, Poll
  <2>3. QED
    BY <1>1, <2>1, <2>2 DEF Reads
<1>7. ASSUME NEW w \in Waiters, Get(w)
      PROVE  OneQueryAtATime'
  <2>1. \A v \in Waiters \ {w} : waiter'[v] = waiter[v]
    BY <1>0, <1>7 DEF Get
  <2>2. CASE Fresh /\ waiter' = [waiter EXCEPT ![w] = Learned(@, cache.value)] /\ UNCHANGED cache
    <3>1. waiter'[w].step # "read"
      BY <1>0, <1>7, <2>2, FreshValue, LearnedShape, ShapeParts DEF Get
    <3>2. QED
      BY <1>1, <1>7, <2>1, <2>2, <3>1 DEF Reads, Get
  <2>3. CASE ~cache.inFlight /\ cache' = [cache EXCEPT !.inFlight = TRUE]
             /\ waiter' = [waiter EXCEPT ![w] = [@ EXCEPT !.step = "read", !.got = version]]
    <3>1. waiter'[w].step = "read" /\ cache'.inFlight
      BY <1>0, <2>3 DEF Waiter, CacheType
    <3>2. QED
      BY <2>1, <2>3, <3>1
  <2>4. QED
    BY <1>7, <2>2, <2>3 DEF Get
<1>8. ASSUME NEW w \in Waiters, ReadOK(w)
      PROVE  OneQueryAtATime'
  <2>1. Reads(w) /\ ~cache'.inFlight /\ \A v \in Waiters \ {w} : waiter'[v] = waiter[v]
    BY <1>0, <1>8 DEF ReadOK, Reads, Stored
  <2>2. waiter'[w].step # "read"
    BY <1>0, <1>8, LearnedShape, ShapeParts DEF ReadOK, RequestOK
  <2>3. QED
    BY <1>2, <2>1, <2>2 DEF Reads
<1>9. ASSUME NEW w \in Waiters, ReadFails(w) \/ (Leave(w) /\ Reads(w))
      PROVE  OneQueryAtATime'
  <2>1. Reads(w) /\ cache' = NotStored
    BY <1>9 DEF ReadFails, Leave, Reads
  <2>2. ~cache'.inFlight
    BY <1>0, <2>1 DEF NotStored, CacheType
  <2>3. ASSUME NEW v \in Waiters \ {w}
        PROVE  Reads(v)' <=> Reads(v)
    <3>1. waiter'[v] = [waiter[v] EXCEPT !.late = 0]
      BY <1>9 DEF ReadFails, Leave, Reads, NotLate
    <3>2. QED
      BY <1>0, <3>1, NotLateShape DEF Reads
  <2>4. ~Reads(w)'
    <3>1. CASE Leave(w) /\ Reads(w)
      <4>1. waiter'[w] = Away
        BY <3>1 DEF Leave, Reads, NotLate
      <4>2. QED
        BY <4>1, AwayShape DEF Reads
    <3>2. CASE ReadFails(w)
      <4> DEFINE n == [waiter[w] EXCEPT !.late = 0]
                 p == Protects(samples')
      <4>1. waiter'[w] = Failed(n, p) /\ p \in BOOLEAN
        BY <3>2 DEF ReadFails, NotLate, Protects
      <4>2. n \in Waiter /\ RequestOK(n) /\ n.step = "read"
        BY <1>0, <2>1, NotLateShape DEF Reads
      <4> HIDE DEF n, p
      <4>3. QED
        BY <4>1, <4>2, FailedShape DEF Reads
    <3>3. QED
      BY <1>9, <3>1, <3>2
  <2>5. QED
    BY <1>2, <2>1, <2>2, <2>3, <2>4
<1>10. ASSUME NEW w \in Waiters, Leave(w), ~Reads(w)
       PROVE  OneQueryAtATime'
  <2>1. waiter' = [waiter EXCEPT ![w] = Away] /\ cache' = cache
    BY <1>10 DEF Leave, Reads
  <2>2. QED
    BY <1>0, <1>1, <1>10, <2>1, AwayShape DEF Reads
<1>11. ASSUME Queue, ~Notify
       PROVE  UNCHANGED <<cache, waiter>>
  BY <1>11 DEF Queue, Submit, Reclaim, Bump
<1>12. QED
  BY <1>3, <1>4, <1>5, <1>6, <1>7, <1>8, <1>9, <1>10, <1>11 DEF Next, Request, vars

\* However queries fail and clients leave, a query is under way exactly when one request
\* makes it.
THEOREM QueriesAreSingle == Spec => []OneQueryAtATime
<1>1. Init => OneQueryAtATime
  BY AwayShape DEF Init, OneQueryAtATime
<1>2. QED
  BY <1>1, QueryNext, ShapeCorrect, PTL DEF Spec

-----------------------------------------------------------------------------
(* A server that protects its database.                                    *)

\* Without polls no query is made, and so no error outweighed.
THEOREM ProtectionStays == Spec => ProtectionIsSticky
<1>1. ASSUME Shape, [Next]_vars, Protects(samples), \A w \in Waiters : ~waiter[w].polls
      PROVE  samples' = samples /\ \A w \in Waiters : ~waiter'[w].polls
  <2>0. /\ waiter \in [Waiters -> Waiter]
        /\ \A w \in Waiters : waiter[w] \in Waiter /\ waiter[w].step \notin {"get", "read"}
    BY <1>1, ShapeParts DEF RequestOK
  <2>1. CASE UNCHANGED <<waiter, samples>>
    BY <1>1, <2>1
  <2>2. CASE Notify
    BY <1>1, <2>0, <2>2 DEF Notify, NotifyAll, Waiter
  <2>3. CASE Tick
    BY <1>1, <2>0, <2>3, AgedShape, ShapeParts DEF Tick
  <2>4. ASSUME NEW w \in Waiters, List(w) \/ Leave(w)
        PROVE  samples' = samples /\ \A v \in Waiters : ~waiter'[v].polls
    <3>1. ~Away.polls /\ ~[Away EXCEPT !.step = "listed"].polls
      BY DEF Away
    <3>2. QED
      BY <1>1, <2>0, <2>4, <3>1 DEF List, Leave
  <2>5. ASSUME NEW w \in Waiters, Enter(w)
        PROVE  samples' = samples /\ \A v \in Waiters : ~waiter'[v].polls
    <3>1. waiter' = [waiter EXCEPT ![w] = [@ EXCEPT !.step = "waiting", !.left = WaitTicks]]
      BY <1>1, <2>5 DEF Enter, SelectPolls
    <3>2. QED
      BY <1>1, <2>0, <2>5, <3>1 DEF Enter, Waiter
  <2>6. ASSUME NEW w \in Waiters, Wake(w) \/ Poll(w)
        PROVE  samples' = samples /\ \A v \in Waiters : ~waiter'[v].polls
    <3>1. /\ ~[waiter[w] EXCEPT !.step = "woken"].polls
          /\ ~[waiter[w] EXCEPT !.step = "get", !.due = FALSE].polls
      BY <1>1, <2>0 DEF Waiter
    <3>2. QED
      BY <1>1, <2>0, <2>6, <3>1 DEF Wake, Poll
  <2>7. ASSUME NEW w \in Waiters, Get(w) \/ ReadOK(w) \/ ReadFails(w)
        PROVE  FALSE
    BY <2>0, <2>7 DEF Get, ReadOK, ReadFails
  <2>8. Queue => Notify \/ UNCHANGED <<waiter, samples>>
    BY DEF Queue, Submit, Reclaim, Bump
  <2>9. QED
    BY <1>1, <2>1, <2>2, <2>3, <2>4, <2>5, <2>6, <2>7, <2>8 DEF Next, Request, vars
<1>2. Shape /\ [Next]_vars =>
        [Protects(samples) /\ (\A w \in Waiters : ~waiter[w].polls) =>
           Protects(samples') /\ (\A w \in Waiters : ~waiter'[w].polls)]_vars
  BY <1>1
<1>3. QED
  BY <1>2, ShapeCorrect, PTL DEF Spec, ProtectionIsSticky

-----------------------------------------------------------------------------
(* How long a change of the watermark can stay unseen.                     *)

\* A query, the life of a cached value, and the ticks up to the ticker's next.
Slack(r) == MaxRead + CacheTTL + r.interval - 1

\* The watermark a waiter wants to differ from is what the query under way, or the cache,
\* will give it once more.
Stale(r) == \E x \in Waiters : Reads(x) /\ waiter[x].got = r.base
Old(r) == Fresh /\ cache.value = r.base

\* Such a query began before the change, and such a value was cached by one that did.
\* After both the ticker leads to a new query.
LateOK(w) ==
  LET r == waiter[w] IN
  r.polls /\ r.base # None =>
    /\ r.late <= Slack(r) + MaxRead
    /\ r.step # "woken" =>
         /\ \A x \in Waiters : Reads(x) /\ waiter[x].got = r.base => r.late <= waiter[x].reading
         /\ Old(r) => r.late <= MaxRead + cache.age
         /\ ~Old(r) /\ ~Stale(r) =>
              /\ r.step = "waiting" /\ r.due => r.late <= Slack(r)
              /\ r.step = "waiting" /\ ~r.due => r.late + r.next <= Slack(r)
              /\ r.step = "get" /\ ~Fresh /\ ~cache.inFlight => r.late <= Slack(r)
              /\ r.step \in {"get", "read"} =>
                   \A x \in Waiters : Reads(x) => r.late <= Slack(r) + waiter[x].reading

LateInv == \A w \in Waiters : LateOK(w)

LEMMA NewParts ==
  ASSUME Shape'
  PROVE  /\ cache' \in [value : 0..version', has : BOOLEAN, age : 0..CacheTTL, inFlight : BOOLEAN]
         /\ \A w \in Waiters : waiter'[w] \in Waiter /\ RequestOK(waiter[w])'
BY DEF Shape, TypeOK, RequestsOK

LEMMA LateZero ==
  ASSUME Shape', NEW v \in Waiters, waiter'[v].late = 0
  PROVE  LateOK(v)'
<1> DEFINE r == waiter'[v]
<1>1. CASE r.polls /\ r.base # None
  <2>1. r \in Waiter /\ r.interval \in Nat /\ r.interval >= 1 /\ r.next \in 1..r.interval
    BY <1>1, NewParts DEF RequestOK, Waiter
  <2>2. cache'.age \in Nat /\ \A x \in Waiters : waiter'[x].reading \in Nat
    BY NewParts, Times DEF Waiter
  <2>3. Slack(r) \in Nat /\ 0 <= Slack(r) /\ 0 + r.next <= Slack(r)
    BY <2>1, Times DEF Slack
  <2>4. (Slack(waiter[v]))' = Slack(r)
    BY DEF Slack
  <2> HIDE DEF r
  <2>5. QED
    BY <2>1, <2>2, <2>3, <2>4, Times DEF LateOK, r
<1>2. CASE ~(r.polls /\ r.base # None)
  BY <1>2 DEF LateOK
<1>3. QED
  BY <1>1, <1>2

\* A waiter that a step leaves where it is, with the queries and the cache.
LEMMA LateSame ==
  ASSUME Shape, NEW v \in Waiters, LateOK(v), cache' = cache,
         \A x \in Waiters :
           /\ Reads(x)' <=> Reads(x)
           /\ Reads(x) => waiter'[x].got = waiter[x].got /\ waiter'[x].reading = waiter[x].reading,
         waiter'[v].polls = waiter[v].polls, waiter'[v].base = waiter[v].base,
         waiter'[v].late = waiter[v].late, waiter'[v].interval = waiter[v].interval,
         waiter'[v].next = waiter[v].next, waiter'[v].due = waiter[v].due,
         waiter'[v].step \in {waiter[v].step, "woken"}
  PROVE  LateOK(v)'
<1> DEFINE r == waiter[v]
           n == waiter'[v]
<1>1. Slack(n) = Slack(r) /\ Fresh' = Fresh
  BY DEF Slack, Fresh
<1>2. Old(r)' <=> Old(r)
  BY <1>1 DEF Old
<1>3. Stale(r)' <=> Stale(r)
  BY DEF Stale, Reads
<1>4. \A x \in Waiters : Reads(x)' /\ waiter'[x].got = n.base
                           <=> Reads(x) /\ waiter[x].got = r.base
  BY DEF Reads
<1>5. (n.polls <=> r.polls) /\ (n.due <=> r.due) /\ (n.base # None <=> r.base # None)
  OBVIOUS
<1>6. CASE r.polls /\ r.base # None
  <2>1. n.late <= Slack(n) + MaxRead
    BY <1>1, <1>6 DEF LateOK
  <2>2. ASSUME n.step # "woken"
        PROVE  /\ \A x \in Waiters : Reads(x)' /\ waiter'[x].got = n.base => n.late <= waiter'[x].reading
               /\ Old(r)' => n.late <= MaxRead + cache'.age
               /\ ~Old(r)' /\ ~Stale(r)' =>
                    /\ n.step = "waiting" /\ n.due => n.late <= Slack(n)
                    /\ n.step = "waiting" /\ ~n.due => n.late + n.next <= Slack(n)
                    /\ n.step = "get" /\ ~Fresh' /\ ~cache'.inFlight => n.late <= Slack(n)
                    /\ n.step \in {"get", "read"} =>
                         \A x \in Waiters : Reads(x)' => n.late <= Slack(n) + waiter'[x].reading
    BY <1>1, <1>2, <1>3, <1>4, <1>5, <1>6, <2>2 DEF LateOK
  <2>3. QED
    BY <2>1, <2>2 DEF LateOK, Slack
<1>7. CASE ~(r.polls /\ r.base # None)
  BY <1>5, <1>7 DEF LateOK
<1>8. QED
  BY <1>6, <1>7

\* The bounds of a waiter whose next query will tell.
LEMMA LateBounds ==
  ASSUME Shape, NEW v \in Waiters, waiter[v].polls, waiter[v].base # None
  PROVE  /\ waiter[v].late \in Nat /\ waiter[v].next \in Nat /\ waiter[v].next >= 1
         /\ waiter[v].interval \in Nat /\ waiter[v].interval >= 1
         /\ waiter[v].next <= waiter[v].interval
         /\ Slack(waiter[v]) \in Nat
         /\ Slack(waiter[v]) = MaxRead + CacheTTL + waiter[v].interval - 1
         /\ Slack(waiter[v]) >= MaxRead + CacheTTL
         /\ cache.age \in Nat /\ cache.age <= CacheTTL
         /\ \A x \in Waiters : waiter[x].reading \in Nat /\ waiter[x].reading <= MaxRead
<1>1. /\ waiter[v].late \in Nat /\ waiter[v].interval \in Nat /\ waiter[v].interval >= 1
      /\ waiter[v].next \in 1..waiter[v].interval
  BY ShapeParts DEF RequestOK, Waiter
<1>2. cache.age \in Nat /\ cache.age <= CacheTTL
  BY ShapeParts, Times DEF CacheType
<1>3. ASSUME NEW x \in Waiters
      PROVE  waiter[x].reading \in Nat /\ waiter[x].reading <= MaxRead
  BY ShapeParts, Times DEF Waiter
<1>4. QED
  BY <1>1, <1>2, <1>3, Times DEF Slack

LEMMA LateTick == Shape /\ OneQueryAtATime /\ LateInv /\ Tick => LateInv'
<1> SUFFICES ASSUME Shape, OneQueryAtATime, LateInv, Tick, NEW v \in Waiters
             PROVE  LateOK(v)'
  BY DEF LateInv
<1> DEFINE r == waiter[v]
<1>0. Shape' /\ LateOK(v)
  BY ShapeTick DEF LateInv
<1>1. ASSUME NEW x \in Waiters
      PROVE  /\ waiter'[x].step = waiter[x].step /\ waiter'[x].got = waiter[x].got
             /\ Reads(x)' <=> Reads(x)
             /\ Reads(x) => waiter'[x].reading = waiter[x].reading + 1
  BY ShapeParts, AgedShape DEF Tick, Reads
<1>2. waiter'[v] = Aged(r) /\ r \in Waiter /\ RequestOK(r) /\ r.reading < MaxRead /\ ~Runnable(v)
  BY ShapeParts DEF Tick
<1>3. /\ waiter'[v].polls = r.polls /\ waiter'[v].base = r.base
      /\ waiter'[v].interval = r.interval
      /\ waiter'[v].late \in {r.late, r.late + 1} \cup 0..r.late
      /\ waiter'[v].due = (r.due \/ (Timed(r) /\ r.polls /\ r.next = 1))
      /\ waiter'[v].next = IF ~Timed(r) \/ ~r.polls THEN r.next
                           ELSE IF r.next = 1 THEN r.interval ELSE r.next - 1
  BY <1>2, AgedShape, ShapeParts
<1>7. ~waiter'[v].due /\ Timed(r) /\ r.polls => r.next # 1
  BY <1>3
<1>4. CASE ~(r.polls /\ r.base # None)
  BY <1>3, <1>4 DEF LateOK
<1>5. CASE r.polls /\ r.base # None
  <2>1. /\ r.late \in Nat /\ r.next \in Nat /\ r.next >= 1 /\ r.interval \in Nat
        /\ r.interval >= 1 /\ r.next <= r.interval /\ Slack(r) \in Nat
        /\ Slack(r) = MaxRead + CacheTTL + r.interval - 1 /\ Slack(r) >= MaxRead + CacheTTL
        /\ cache.age \in Nat /\ cache.age <= CacheTTL
        /\ \A x \in Waiters : waiter[x].reading \in Nat /\ waiter[x].reading <= MaxRead
    BY <1>5, LateBounds
  <2>2. waiter'[v].late \in Nat /\ waiter'[v].late <= r.late + 1
    BY <1>3, <2>1
  <2>3. /\ r.step \in {"waiting", "get", "read"} /\ Timed(r)
        /\ r.step = "waiting" => ~r.due
        /\ r.step = "get" => ~Fresh /\ cache.inFlight
        /\ r.step = "read" => cache.inFlight
    BY <1>2, <1>5 DEF Runnable, Timed, RequestOK, Waiter, OneQueryAtATime
  <2>4. /\ cache'.age = (IF cache.age + 1 < CacheTTL THEN cache.age + 1 ELSE CacheTTL)
        /\ cache'.value = cache.value /\ cache'.has = cache.has
        /\ cache'.inFlight = cache.inFlight
    BY ShapeParts DEF Tick, CacheType, Least
  <2>5. /\ Fresh' => Fresh /\ cache'.age = cache.age + 1
        /\ Fresh /\ ~Fresh' => cache.age + 1 = CacheTTL
        /\ cache.inFlight => ~Fresh
    BY <2>1, <2>4, Times DEF Fresh, Shape, CacheOK
  <2>6. \A x \in Waiters : Reads(x) /\ waiter[x].got = r.base => r.late <= waiter[x].reading
    BY <1>0, <1>5, <2>3 DEF LateOK
  <2>7. Old(r) => r.late <= MaxRead + cache.age
    BY <1>0, <1>5, <2>3 DEF LateOK
  <2>8. ~Old(r) /\ ~Stale(r) =>
          /\ r.step = "waiting" => r.late + r.next <= Slack(r)
          /\ r.step \in {"get", "read"} =>
               \A x \in Waiters : Reads(x) => r.late <= Slack(r) + waiter[x].reading
    BY <1>0, <1>5, <2>3 DEF LateOK
  <2>9. \A x \in Waiters : Reads(x) /\ waiter[x].got = r.base => waiter'[v].late <= waiter'[x].reading
    BY <1>1, <2>1, <2>2, <2>6
  <2>10. Old(r)' => Old(r) /\ waiter'[v].late <= MaxRead + cache'.age
    BY <1>3, <2>1, <2>2, <2>4, <2>5, <2>7, Times DEF Old
  <2>11. Stale(r)' <=> Stale(r)
    BY <1>1, <1>3 DEF Stale
  <2>12. ASSUME ~Old(r)', ~Stale(r)
         PROVE  /\ r.step = "waiting" /\ waiter'[v].due => waiter'[v].late <= Slack(r)
                /\ r.step = "waiting" /\ ~waiter'[v].due => waiter'[v].late + waiter'[v].next <= Slack(r)
                /\ r.step \in {"get", "read"} =>
                     \A x \in Waiters : Reads(x) => waiter'[v].late <= Slack(r) + waiter'[x].reading
    <3>1. CASE Old(r)
      <4>1. cache.age + 1 = CacheTTL /\ r.step = "waiting"
        BY <1>3, <2>3, <2>4, <2>5, <2>12, <3>1 DEF Old
      <4>2. waiter'[v].late <= MaxRead + CacheTTL
        BY <2>1, <2>2, <2>7, <3>1, <4>1, Times
      <4>3. ~waiter'[v].due => waiter'[v].next \in Nat /\ waiter'[v].next <= r.interval - 1
        BY <1>3, <1>5, <1>7, <2>1, <2>3
      <4>4. QED
        BY <2>1, <2>2, <4>1, <4>2, <4>3, Times
    <3>2. CASE ~Old(r)
      <4>1. r.step = "waiting" => r.late + r.next <= Slack(r)
        BY <2>8, <2>12, <3>2
      <4>2. r.step = "waiting" /\ waiter'[v].due => waiter'[v].late <= Slack(r)
        BY <1>3, <2>1, <2>2, <2>3, <4>1
      <4>3. r.step = "waiting" /\ ~waiter'[v].due => waiter'[v].late + waiter'[v].next <= Slack(r)
        BY <1>3, <1>5, <1>7, <2>1, <2>2, <2>3, <4>1
      <4>4. r.step \in {"get", "read"} =>
              \A x \in Waiters : Reads(x) => waiter'[v].late <= Slack(r) + waiter'[x].reading
        BY <1>1, <2>1, <2>2, <2>8, <2>12, <3>2
      <4>5. QED
        BY <4>2, <4>3, <4>4
    <3>3. QED
      BY <3>1, <3>2
  <2>13. waiter'[v].late <= Slack(r) + MaxRead
    <3>0. \A x \in Waiters : waiter'[x].reading \in Nat /\ waiter'[x].reading <= MaxRead
      BY <1>0, NewParts, Times DEF Waiter
    <3>1. CASE Stale(r)
      BY <1>1, <2>1, <2>2, <2>9, <3>0, <3>1, Times DEF Stale
    <3>2. CASE Old(r)'
      BY <2>1, <2>2, <2>4, <2>10, <3>2, Times
    <3>3. CASE ~Old(r)' /\ ~Stale(r) /\ r.step = "waiting"
      <4>1. waiter'[v].next \in Nat
        BY <1>3, <2>1
      <4>2. QED
        BY <2>1, <2>2, <2>12, <3>3, <4>1, Times
    <3>4. CASE ~Old(r)' /\ ~Stale(r) /\ r.step \in {"get", "read"}
      <4>1. PICK x \in Waiters : Reads(x)
        BY <2>3, <3>4 DEF OneQueryAtATime, Reads
      <4>2. QED
        BY <2>1, <2>2, <2>12, <3>0, <3>4, <4>1, Times
    <3>5. QED
      BY <2>3, <3>1, <3>2, <3>3, <3>4
  <2>14. (Slack(r))' = Slack(r)
    BY <1>3 DEF Slack
  <2>15. QED
    BY <1>1, <1>3, <2>3, <2>4, <2>9, <2>10, <2>11, <2>12, <2>13, <2>14 DEF LateOK
<1>6. QED
  BY <1>4, <1>5

\* All requests but one stay as they are.
LEMMA LateOthers ==
  ASSUME Shape, LateInv, NEW w \in Waiters, ~Reads(w), ~Reads(w)', cache' = cache,
         \A v \in Waiters \ {w} : waiter'[v] = waiter[v],
         NEW v \in Waiters \ {w}
  PROVE  LateOK(v)'
<1>1. \A x \in Waiters :
        /\ Reads(x)' <=> Reads(x)
        /\ Reads(x) => waiter'[x].got = waiter[x].got /\ waiter'[x].reading = waiter[x].reading
  BY DEF Reads
<1>2. LateOK(v) /\ waiter'[v] = waiter[v]
  BY DEF LateInv
<1>3. QED
  BY <1>1, <1>2, LateSame

\* A query fails.
LEMMA LateFails ==
  ASSUME Shape, Shape', NEW w \in Waiters, ReadFails(w) \/ (Leave(w) /\ Reads(w))
  PROVE  LateInv'
<1>0. /\ waiter \in [Waiters -> Waiter] /\ Away.late = 0
      /\ \A v \in Waiters : waiter[v] \in Waiter /\ RequestOK(waiter[v])
  BY ShapeParts DEF Away
<1>1. ASSUME NEW v \in Waiters
      PROVE  waiter'[v].late = 0
  <2> DEFINE n == [waiter[v] EXCEPT !.late = 0]
             p == Protects(samples')
  <2>1. /\ n \in Waiter /\ RequestOK(n) /\ n.step = waiter[v].step /\ n.late = 0
        /\ p \in BOOLEAN
    BY <1>0, NotLateShape DEF Protects
  <2>2. waiter'[v] \in {n, Away} \/ (Reads(v) /\ waiter'[v] = Failed(n, p))
    BY DEF ReadFails, Leave, Reads, NotLate
  <2> HIDE DEF n, p
  <2>3. Reads(v) => Failed(n, p).late = 0
    BY <2>1, FailedShape DEF Reads
  <2>4. QED
    BY <1>0, <2>1, <2>2, <2>3
<1>2. QED
  BY <1>1, LateZero DEF LateInv

LEMMA LateGet ==
  ASSUME Shape, Shape', OneQueryAtATime, LateInv, NEW w \in Waiters, Get(w)
  PROVE  LateInv'
<1> DEFINE r == waiter[w]
<1>0. /\ waiter \in [Waiters -> Waiter] /\ cache \in CacheType /\ UNCHANGED version
      /\ \A v \in Waiters : waiter[v] \in Waiter /\ RequestOK(waiter[v]) /\ LateOK(v)
      /\ r.step = "get" /\ r.polls /\ version \in 1..MaxVersion + 1
  BY ShapeParts DEF LateInv, Get, RequestOK
<1>1. CASE Fresh /\ waiter' = [waiter EXCEPT ![w] = Learned(@, cache.value)] /\ UNCHANGED cache
  <2> DEFINE n == Learned(r, cache.value)
  <2>1. /\ n.step = IF r.base \in {None, cache.value} THEN "waiting" ELSE "woken"
        /\ n.polls /\ n.interval = r.interval /\ n.late = r.late /\ n.due = r.due
        /\ r.base # None => n.base = r.base /\ n.next = r.next
    BY <1>0, <1>1, FreshValue, LearnedShape
  <2>2. waiter'[w] = n /\ \A v \in Waiters \ {w} : waiter'[v] = waiter[v]
    BY <1>0, <1>1
  <2> HIDE DEF n
  <2>3. ~Reads(w) /\ ~Reads(w)' /\ cache' = cache
    BY <1>0, <1>1, <2>1, <2>2 DEF Reads
  <2>4. LateOK(w)'
    <3>1. CASE r.base = None
      BY <1>0, <2>1, <2>2, <3>1, LateZero DEF RequestOK
    <3>2. CASE r.base # None
      <4>1. r.late <= Slack(r) + MaxRead /\ (Old(r) => r.late <= MaxRead + cache.age)
        BY <1>0, <3>2 DEF LateOK
      <4>2. \A x \in Waiters : ~Reads(x) /\ ~Reads(x)'
        BY <1>0, <1>1, <2>2, <2>3, FreshValue DEF OneQueryAtATime, Reads
      <4>3. (Slack(r))' = Slack(r) /\ Fresh' = Fresh /\ (Old(r)' <=> Old(r))
        BY <1>1, <2>1, <2>2, <3>2 DEF Slack, Fresh, Old
      <4>4. n.step # "woken" => Old(r)
        BY <1>1, <2>1, <3>2 DEF Old
      <4>5. QED
        BY <1>1, <2>1, <2>2, <3>2, <4>1, <4>2, <4>3, <4>4 DEF LateOK
    <3>3. QED
      BY <3>1, <3>2
  <2>5. \A v \in Waiters \ {w} : LateOK(v)'
    BY <2>2, <2>3, LateOthers
  <2>6. QED
    BY <2>4, <2>5 DEF LateInv
<1>2. CASE /\ ~Fresh /\ ~cache.inFlight /\ cache' = [cache EXCEPT !.inFlight = TRUE]
           /\ waiter' = [waiter EXCEPT ![w] = [@ EXCEPT !.step = "read", !.got = version]]
  <2> DEFINE n == [r EXCEPT !.step = "read", !.got = version]
  <2>1. /\ n.step = "read" /\ n.got = version /\ n.reading = 0 /\ n.polls /\ n.base = r.base
        /\ n.interval = r.interval /\ n.late = r.late
    BY <1>0 DEF Waiter, RequestOK
  <2>2. waiter'[w] = n /\ \A v \in Waiters \ {w} : waiter'[v] = waiter[v]
    BY <1>0, <1>2
  <2> HIDE DEF n
  <2>3. \A x \in Waiters : ~Reads(x) /\ (Reads(x)' <=> x = w)
    BY <1>2, <2>1, <2>2 DEF OneQueryAtATime, Reads
  <2>4. ~Fresh' /\ cache'.inFlight
    BY <1>0, <1>2 DEF Fresh, CacheType
  <2>5. ASSUME NEW v \in Waiters
        PROVE  LateOK(v)'
    <3> DEFINE q == waiter[v]
    <3>1. /\ waiter'[v].polls = q.polls /\ waiter'[v].base = q.base /\ waiter'[v].late = q.late
          /\ waiter'[v].interval = q.interval
      <4>1. CASE v = w
        <5>1. waiter'[v].polls = q.polls
          BY ONLY <1>0, <2>1, <2>2, <4>1, Zenon
        <5>2. /\ waiter'[v].base = q.base /\ waiter'[v].late = q.late
              /\ waiter'[v].interval = q.interval
          BY <2>1, <2>2, <4>1
        <5>3. QED
          BY <5>1, <5>2
      <4>2. CASE v # w
        <5>1. waiter'[v] = q
          BY <2>2, <4>2
        <5>2. QED
          BY <5>1
      <4>3. QED
        BY <4>1, <4>2
    <3>2. CASE q.base \in {None, version}
      <4>1. q.late = 0
        BY <1>0, <3>2 DEF RequestOK
      <4>2. QED
        BY <1>0, <3>1, <4>1, LateZero
    <3>3. CASE ~q.polls
      BY <3>1, <3>3 DEF LateOK
    <3>4. CASE q.polls /\ q.base \notin {None, version}
      <4>1. ~Old(q) /\ ~Stale(q)
        BY <1>2, <2>3 DEF Old, Stale
      <4>2. /\ q.late <= Slack(q) + MaxRead
            /\ q.step = "waiting" /\ q.due => q.late <= Slack(q)
            /\ q.step = "waiting" /\ ~q.due => q.late + q.next <= Slack(q)
            /\ q.step = "get" => q.late <= Slack(q)
        BY <1>0, <1>2, <3>4, <4>1 DEF LateOK
      <4>3. (Slack(q))' = Slack(q) /\ Slack(q) \in Nat /\ q.late \in Nat
        BY <3>1, <3>4, LateBounds DEF Slack
      <4>4. \A x \in Waiters : Reads(x)' => /\ waiter'[x].got # waiter'[v].base
                                            /\ waiter'[x].reading = 0
        BY <2>1, <2>2, <2>3, <3>1, <3>4
      <4>5. ~Old(q)' /\ q.step # "read"
        BY <2>3, <2>4 DEF Old, Reads
      <4>6. q.step = "get" => \A x \in Waiters : Reads(x)' => q.late <= Slack(q) + waiter'[x].reading
        BY <4>2, <4>3, <4>4
      <4>7. CASE v # w
        BY <2>2, <2>4, <3>1, <3>4, <4>2, <4>3, <4>4, <4>5, <4>6, <4>7 DEF LateOK
      <4>8. CASE v = w
        BY <1>0, <2>1, <2>2, <2>4, <3>1, <3>4, <4>2, <4>3, <4>4, <4>5, <4>6, <4>8 DEF LateOK
      <4>9. QED
        BY <4>7, <4>8
    <3>5. QED
      BY <3>2, <3>3, <3>4
  <2>6. QED
    BY <2>5 DEF LateInv
<1>3. QED
  BY <1>1, <1>2 DEF Get

LEMMA LateReadOK ==
  ASSUME Shape, Shape', OneQueryAtATime, LateInv, NEW w \in Waiters, ReadOK(w)
  PROVE  LateInv'
<1> DEFINE r == waiter[w]
           n == Learned(r, r.got)
<1>0. /\ waiter \in [Waiters -> Waiter] /\ cache \in CacheType /\ UNCHANGED version
      /\ \A v \in Waiters : waiter[v] \in Waiter /\ RequestOK(waiter[v]) /\ LateOK(v)
      /\ Reads(w) /\ r.step = "read" /\ r.got \in 1..version /\ version \in 1..MaxVersion + 1
  BY ShapeParts DEF LateInv, ReadOK, RequestOK, Reads
<1>1. /\ n.step = IF r.base \in {None, r.got} THEN "waiting" ELSE "woken"
      /\ n.polls /\ n.interval = r.interval /\ n.late = r.late /\ n.due = r.due
      /\ r.base # None => n.base = r.base /\ n.next = r.next
  BY <1>0, LearnedShape
<1>2. /\ waiter'[w] = n /\ \A v \in Waiters \ {w} : waiter'[v] = waiter[v]
      /\ cache' = Stored(r.got)
  BY <1>0 DEF ReadOK
<1> HIDE DEF n
<1>3. cache'.value = r.got /\ cache'.age = 0 /\ Fresh' /\ ~cache'.inFlight
  BY <1>2, Times DEF Stored, Fresh
<1>4. /\ cache.inFlight /\ ~Fresh /\ \A x \in Waiters : Reads(x) => x = w
      /\ \A x \in Waiters : ~Reads(x)'
  BY <1>0, <1>1, <1>2 DEF OneQueryAtATime, Reads, Shape, CacheOK
<1>5. ASSUME NEW v \in Waiters
      PROVE  LateOK(v)'
  <2> DEFINE q == waiter[v]
  <2>1. CASE q.base = None
    <3>1. waiter'[v].late = 0
      BY <1>0, <1>1, <1>2, <2>1 DEF RequestOK
    <3>2. QED
      BY <3>1, LateZero
  <2>2. CASE ~q.polls
    BY <1>0, <1>2, <2>2 DEF LateOK, RequestOK, Reads
  <2>3. CASE q.polls /\ q.base # None
    <3>1. /\ waiter'[v].polls /\ waiter'[v].base = q.base /\ waiter'[v].late = q.late
          /\ waiter'[v].interval = q.interval /\ waiter'[v].next = q.next
          /\ waiter'[v].due = q.due
      BY <1>1, <1>2, <2>3
    <3>2. /\ q.late \in Nat /\ Slack(q) \in Nat /\ (Slack(q))' = Slack(q) /\ r.reading <= MaxRead
          /\ r.reading \in Nat
      BY <1>0, <2>3, <3>1, LateBounds DEF Slack
    <3>3. q.late <= Slack(q) + MaxRead
      BY <1>0, <2>3 DEF LateOK
    <3>4. CASE q.base = r.got /\ q.step # "woken"
      <4>1. q.late <= r.reading
        BY <1>0, <2>3, <3>4 DEF LateOK
      <4>2. q.late <= MaxRead + cache'.age
        BY <1>3, <3>2, <4>1, Times
      <4>3. Old(q)'
        BY <1>3, <3>1, <3>4 DEF Old
      <4>4. QED
        BY <1>4, <3>1, <3>2, <3>3, <4>2, <4>3 DEF LateOK
    <3>5. CASE q.base # r.got /\ q.step # "woken" /\ v # w
      <4>1. ~Old(q) /\ ~Stale(q) /\ ~Old(q)'
        BY <1>3, <1>4, <3>1, <3>5 DEF Old, Stale
      <4>2. /\ q.step = "waiting" /\ q.due => q.late <= Slack(q)
            /\ q.step = "waiting" /\ ~q.due => q.late + q.next <= Slack(q)
        BY <1>0, <2>3, <3>5, <4>1 DEF LateOK
      <4>3. QED
        BY <1>2, <1>3, <1>4, <3>1, <3>2, <3>3, <3>5, <4>1, <4>2 DEF LateOK
    <3>6. CASE (q.base # r.got /\ v = w) \/ (q.step = "woken" /\ v # w)
      <4>1. waiter'[v].step = "woken"
        BY <1>1, <1>2, <2>3, <3>6
      <4>2. QED
        BY <3>1, <3>2, <3>3, <4>1 DEF LateOK
    <3>7. QED
      BY <1>0, <3>4, <3>5, <3>6
  <2>4. QED
    BY <2>1, <2>2, <2>3
<1>6. QED
  BY <1>5 DEF LateInv

\* The other steps of a request.
LEMMA LateMain ==
  ASSUME Shape, Shape', LateInv, NEW w \in Waiters,
         List(w) \/ Enter(w) \/ Wake(w) \/ Poll(w) \/ (Leave(w) /\ ~Reads(w))
  PROVE  LateInv'
<1> DEFINE r == waiter[w]
<1>0. /\ waiter \in [Waiters -> Waiter] /\ r \in Waiter /\ RequestOK(r) /\ LateOK(w)
      /\ ~Reads(w) /\ cache' = cache
  BY ShapeParts DEF LateInv, List, Enter, Wake, Poll, Leave, Reads
<1>1. \A v \in Waiters \ {w} : waiter'[v] = waiter[v]
  BY <1>0 DEF List, Enter, Wake, Poll, Leave, Reads
<1>2. ~Reads(w)' /\ LateOK(w)'
  <2>1. CASE List(w) \/ Leave(w)
    <3> DEFINE l == [Away EXCEPT !.step = "listed"]
    <3>1. /\ l.step = "listed" /\ ~l.polls /\ Away.step = "away" /\ ~Away.polls
      BY DEF Away
    <3>2. waiter'[w] \in {Away, l}
      BY <1>0, <2>1 DEF List, Leave, Reads
    <3> HIDE DEF l
    <3>3. QED
      BY <3>1, <3>2 DEF LateOK, Reads
  <2>2. CASE Enter(w)
    <3>1. waiter'[w].step \in {"get", "waiting"} /\ waiter'[w].base = None
      BY <1>0, <2>2 DEF Enter, Waiter, RequestOK
    <3>2. QED
      BY <3>1 DEF LateOK, Reads
  <2>3. CASE Wake(w)
    <3> DEFINE n == [r EXCEPT !.step = "woken"]
    <3>1. /\ n.step = "woken" /\ n.polls = r.polls /\ n.base = r.base /\ n.late = r.late
          /\ n.interval = r.interval
      BY <1>0 DEF Waiter
    <3>2. waiter'[w] = n
      BY <1>0, <2>3 DEF Wake
    <3> HIDE DEF n
    <3>3. QED
      BY <1>0, <3>1, <3>2 DEF LateOK, Slack, Reads
  <2>4. CASE Poll(w)
    <3> DEFINE n == [r EXCEPT !.step = "get", !.due = FALSE]
    <3>1. /\ n.step = "get" /\ n.polls = r.polls /\ n.base = r.base /\ n.late = r.late
          /\ n.interval = r.interval
      BY <1>0 DEF Waiter
    <3>2. waiter'[w] = n
      BY <1>0, <2>4 DEF Poll
    <3> HIDE DEF n
    <3>3. CASE r.polls /\ r.base # None
      <4>1. \A x \in Waiters :
              /\ Reads(x)' <=> Reads(x)
              /\ Reads(x) => waiter'[x].got = waiter[x].got /\ waiter'[x].reading = waiter[x].reading
        BY <1>0, <1>1, <3>1, <3>2 DEF Reads
      <4>2. /\ (Slack(r))' = Slack(r) /\ Fresh' = Fresh /\ (Old(r)' <=> Old(r))
            /\ (Stale(r)' <=> Stale(r))
        BY <1>0, <3>1, <3>2, <4>1 DEF Slack, Fresh, Old, Stale
      <4>3. /\ r.late \in Nat /\ Slack(r) \in Nat
            /\ \A x \in Waiters : waiter[x].reading \in Nat
        BY <3>3, LateBounds
      <4>4. /\ r.late <= Slack(r) + MaxRead
            /\ \A x \in Waiters : Reads(x) /\ waiter[x].got = r.base => r.late <= waiter[x].reading
            /\ Old(r) => r.late <= MaxRead + cache.age
            /\ ~Old(r) /\ ~Stale(r) => r.late <= Slack(r)
        BY <1>0, <2>4, <3>3 DEF LateOK, Poll
      <4>5. ~Old(r) /\ ~Stale(r) =>
              \A x \in Waiters : Reads(x) => r.late <= Slack(r) + waiter[x].reading
        BY <4>3, <4>4
      <4>6. QED
        BY <1>0, <3>1, <3>2, <4>1, <4>2, <4>4, <4>5 DEF LateOK, Reads
    <3>4. CASE ~(r.polls /\ r.base # None)
      BY <3>1, <3>2, <3>4 DEF LateOK, Reads
    <3>5. QED
      BY <3>3, <3>4
  <2>5. QED
    BY <2>1, <2>2, <2>3, <2>4
<1>3. \A v \in Waiters \ {w} : LateOK(v)'
  BY <1>0, <1>1, <1>2, LateOthers
<1>4. QED
  BY <1>2, <1>3 DEF LateInv

LEMMA LateNext == Shape /\ OneQueryAtATime /\ LateInv /\ [Next]_vars => LateInv'
<1> SUFFICES ASSUME Shape, OneQueryAtATime, LateInv, [Next]_vars
             PROVE  LateInv'
  OBVIOUS
<1>0. Shape' /\ waiter \in [Waiters -> Waiter] /\ \A v \in Waiters : waiter[v] \in Waiter
  BY ShapeNext, ShapeParts
<1>1. CASE UNCHANGED <<waiter, cache>>
  BY <1>1, LateSame DEF LateInv, Reads
<1>2. CASE Notify
  <2>1. ASSUME NEW v \in Waiters
        PROVE  /\ waiter'[v].step = waiter[v].step /\ waiter'[v].got = waiter[v].got
               /\ waiter'[v].reading = waiter[v].reading /\ waiter'[v].polls = waiter[v].polls
               /\ waiter'[v].base = waiter[v].base /\ waiter'[v].late = waiter[v].late
               /\ waiter'[v].interval = waiter[v].interval
               /\ waiter'[v].next = waiter[v].next /\ waiter'[v].due = waiter[v].due
    BY <1>0, <1>2 DEF Notify, NotifyAll, Waiter
  <2>2. cache' = cache
    BY <1>2 DEF Notify
  <2>3. QED
    BY <2>1, <2>2, LateSame DEF LateInv, Reads
<1>3. CASE Queue /\ ~Notify
  BY <1>1, <1>3 DEF Queue, Submit, Reclaim, Bump
<1>4. ASSUME NEW w \in Waiters, Request(w) \/ Leave(w)
      PROVE  LateInv'
  BY <1>0, <1>4, LateGet, LateReadOK, LateFails, LateMain DEF Request
<1>5. CASE Tick
  BY <1>5, LateTick
<1>6. QED
  BY <1>1, <1>2, <1>3, <1>4, <1>5 DEF Next, vars

\* A waiter that polls sees a changed watermark within its interval, the life of a cached
\* value and two queries, however many waiters share cache and query.
THEOREM PollersSeeChanges == Spec => []PollersSeeInTime
<1>1. Init => LateInv
  BY DEF Init, LateInv, LateOK, Away
<1>2. ASSUME Shape, LateInv, NEW w \in Waiters, waiter[w].polls
      PROVE  waiter[w].late < PollDelay(waiter[w])
  <2>1. waiter[w] \in Waiter /\ RequestOK(waiter[w]) /\ LateOK(w)
    BY <1>2, ShapeParts DEF LateInv
  <2>2. CASE waiter[w].base = None
    BY <2>1, <2>2, Times DEF PollDelay, RequestOK, Waiter
  <2>3. CASE waiter[w].base # None
    <3>1. /\ waiter[w].late <= Slack(waiter[w]) + MaxRead /\ waiter[w].late \in Nat
          /\ waiter[w].interval \in Nat
          /\ Slack(waiter[w]) = MaxRead + CacheTTL + waiter[w].interval - 1
      BY <1>2, <2>1, <2>3, LateBounds DEF LateOK
    <3>2. PollDelay(waiter[w]) = waiter[w].interval + CacheTTL + 2 * MaxRead
      BY DEF PollDelay
    <3>3. QED
      BY <3>1, <3>2, Times
  <2>4. QED
    BY <2>2, <2>3
<1>3. Shape /\ LateInv => PollersSeeInTime
  BY <1>2 DEF PollersSeeInTime
<1>4. QED
  BY <1>1, <1>3, LateNext, ShapeCorrect, QueriesAreSingle, PTL DEF Spec
=============================================================================
