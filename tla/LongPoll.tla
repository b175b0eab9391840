------------------------------ MODULE LongPoll ------------------------------
(***************************************************************************)
(* The long poll of workers that ask one API server for queued jobs: the   *)
(* handler of ListAIJobs, the adaptive waiter with its three levels, the   *)
(* notifier, the watermark cache and the window of database errors.        *)
(* The health of the redis subscription, which decides whether a waiter    *)
(* polls (pubsub_health.go), may be good or bad at any time.               *)
(*                                                                         *)
(* Time is relative: each timer counts ticks.  Goroutines are prompt (a    *)
(* tick waits for what is runnable), a query takes at most MaxRead ticks.  *)
(***************************************************************************)
EXTENDS Integers, Sequences, FiniteSets

CONSTANTS
  Waiters,         \* workers, each with one list request at a time
  Jobs,
  None,
  WaitTicks,       \* wait_seconds of a request
  PollInterval,    \* AdaptiveWaiterOptions, in ticks
  MaxInterval,     \* the two seconds a stretched interval is cut to
  CacheTTL,
  MaxPollers,      \* MaxPollingWaiters
  Window,          \* DBErrorWindow
  MinSamples,      \* DBErrorMinSamples
  MaxRead,         \* bound of the model: the ticks a query of the watermark takes
  MaxVersion       \* bound of the model: how often jobs are queued

ASSUME LongPollAssumption ==
  /\ None \notin 1..MaxVersion + 1
  /\ {WaitTicks, PollInterval, MaxInterval, CacheTTL, MaxPollers, Window, MinSamples,
      MaxRead, MaxVersion} \subseteq Nat \ {0}

VARIABLES
  job,         \* which jobs are queued
  version,     \* row of ai_job_queue_signal
  unbumped,    \* requeued jobs whose second transaction, the bump, is to come
  waiter,      \* the requests
  cache,       \* WatermarkCache
  samples      \* dbErrorRate: the outcomes of the last queries

vars == <<job, version, unbumped, waiter, cache, samples>>

Least(a, b) == IF a < b THEN a ELSE b

\* step: "away" (no request), "listed" (the list came back empty), "get" and "read" (in
\* WatermarkCache.Get, as the one that queries in "read"), "waiting" (in the select of
\* Wait), "woken" (to list again).  base is the watermark to differ from, None before it
\* is known; left and next count to the deadline and the next tick of the ticker; due is
\* a tick not taken yet; notified a closed wait channel.  late is not in the code: how
\* long the watermark has differed from base since a query last failed.
Waiter == [step : {"away", "listed", "get", "read", "waiting", "woken"},
           polls : BOOLEAN, base : {None} \cup 1..MaxVersion + 1, got : 0..MaxVersion + 1,
           left : 0..WaitTicks, interval : Nat, next : Nat, due : BOOLEAN,
           notified : BOOLEAN, reading : 0..MaxRead, late : Nat]

Away == [step |-> "away", polls |-> FALSE, base |-> None, got |-> 0, left |-> 0,
         interval |-> 0, next |-> 0, due |-> FALSE, notified |-> FALSE, reading |-> 0,
         late |-> 0]

Init ==
  /\ job = [j \in Jobs |-> "none"]
  /\ version = 1
  /\ unbumped = 0
  /\ waiter = [w \in Waiters |-> Away]
  /\ cache = [value |-> 0, has |-> FALSE, age |-> 0, inFlight |-> FALSE]
  /\ samples = <<>>

-----------------------------------------------------------------------------
(* Jobs, and the notices of them that reach this server.                   *)

\* Notify closes the channel of all that wait; each holds the version it read first.
InWait(w) == waiter[w].step \in {"get", "read", "waiting"}
NotifyAll == [w \in Waiters |->
                IF InWait(w) THEN [waiter[w] EXCEPT !.notified = TRUE] ELSE waiter[w]]

\* A Run commits a job and the bump of the signal.
Submit(j) ==
  /\ job[j] = "none" /\ version + unbumped <= MaxVersion
  /\ job' = [job EXCEPT ![j] = "queued"]
  /\ version' = version + 1
  /\ UNCHANGED <<unbumped, waiter, cache, samples>>

\* A list that reclaims an expired lease requeues the job in one transaction and bumps
\* the signal in another, which may never happen.  It announces nothing else.
Reclaim(j) ==
  /\ job[j] = "taken" /\ version + unbumped <= MaxVersion
  /\ job' = [job EXCEPT ![j] = "queued"]
  /\ unbumped' = unbumped + 1
  /\ UNCHANGED <<version, waiter, cache, samples>>

Bump ==
  /\ unbumped > 0
  /\ version' = version + 1
  /\ unbumped' = unbumped - 1
  /\ UNCHANGED <<job, waiter, cache, samples>>

\* A handler announces the job it submitted after the commit, here and through redis to
\* the other servers, unless it dies before or redis loses the message; alert rules
\* announce nothing.  The job may be taken before, so a notice may come at any time.
Notify ==
  /\ waiter' = NotifyAll
  /\ UNCHANGED <<job, version, unbumped, cache, samples>>

-----------------------------------------------------------------------------
(* A request.                                                              *)

\* Not the code: the window never drops an outcome.
FaultyObserved(s, failed) == Append(s, failed)

Observed(s, failed) ==
  LET all == Append(s, failed) IN
  IF Len(all) > Window THEN Tail(all) ELSE all

\* The threshold is the default of one half.
Protects(s) ==
  LET failed == SelectSeq(s, LAMBDA e : e) IN
  Len(s) >= MinSamples /\ 2 * Len(failed) >= Len(s)

\* The first list of a request, or the one after its wait.  What is found is taken by the
\* worker; an empty first list goes on to wait.
List(w) ==
  /\ waiter[w].step \in {"away", "woken"}
  /\ \/ \E j \in Jobs :
          /\ job[j] = "queued"
          /\ job' = [job EXCEPT ![j] = "taken"]
          /\ waiter' = [waiter EXCEPT ![w] = Away]
     \/ /\ \A j \in Jobs : job[j] # "queued"
        /\ waiter' = [waiter EXCEPT ![w] =
                        IF @.step = "away" THEN [Away EXCEPT !.step = "listed"] ELSE Away]
        /\ UNCHANGED job
  /\ UNCHANGED <<version, unbumped, cache, samples>>

Entering == Cardinality({v \in Waiters : InWait(v)}) + 1

Interval(n) ==
  IF MaxPollers >= 2 /\ n >= MaxPollers \div 2
  THEN Least(PollInterval + PollInterval \div 2, MaxInterval) ELSE PollInterval

\* Not the code: a protected server lets its waiters poll.
FaultySelectPolls(n, ready) == n <= MaxPollers /\ ~ready

\* Polling is for a waiter that finds few others, few errors, and no healthy subscription.
SelectPolls(n, ready) == n <= MaxPollers /\ ~Protects(samples) /\ ~ready

Enter(w) ==
  /\ waiter[w].step = "listed"
  /\ \E ready \in BOOLEAN :
       waiter' = [waiter EXCEPT ![w] =
         IF SelectPolls(Entering, ready)
         THEN [@ EXCEPT !.step = "get", !.polls = TRUE, !.interval = Interval(Entering)]
         ELSE [@ EXCEPT !.step = "waiting", !.left = WaitTicks]]
  /\ UNCHANGED <<job, version, unbumped, cache, samples>>

\* What Wait does with a watermark, at its start and on a tick.
Learned(r, v) ==
  IF r.base = None
  THEN [r EXCEPT !.step = "waiting", !.base = v, !.got = 0, !.reading = 0,
                 !.left = WaitTicks, !.next = r.interval]
  ELSE [r EXCEPT !.step = IF v # r.base THEN "woken" ELSE "waiting", !.got = 0,
                 !.reading = 0]

\* What Wait does with an error: the first query ends polling, a later one only if there
\* have been too many.
Failed(r, protects) ==
  IF r.base = None
  THEN [r EXCEPT !.step = "waiting", !.polls = FALSE, !.left = WaitTicks, !.got = 0,
                 !.reading = 0]
  ELSE [r EXCEPT !.step = "waiting", !.polls = ~protects, !.due = @ /\ ~protects,
                 !.got = 0, !.reading = 0]

\* Not the code: a cached value never expires.
FaultyFresh == cache.has

Fresh == cache.has /\ cache.age < CacheTTL

\* Get: a fresh value, or a query of one's own if none is in flight; else wait for it.
Get(w) ==
  /\ waiter[w].step = "get"
  /\ \/ /\ Fresh
        /\ waiter' = [waiter EXCEPT ![w] = Learned(@, cache.value)]
        /\ UNCHANGED cache
     \/ /\ ~Fresh /\ ~cache.inFlight
        /\ waiter' = [waiter EXCEPT ![w] = [@ EXCEPT !.step = "read", !.got = version]]
        /\ cache' = [cache EXCEPT !.inFlight = TRUE]
  /\ UNCHANGED <<job, version, unbumped, samples>>

\* The end of a query.
Stored(v) == [value |-> v, has |-> TRUE, age |-> 0, inFlight |-> FALSE]
\* Not the code: a failed query leaves its channel open.
FaultyNotStored == cache

NotStored == [cache EXCEPT !.inFlight = FALSE]
NotLate == [v \in Waiters |-> [waiter[v] EXCEPT !.late = 0]]

ReadOK(w) ==
  /\ waiter[w].step = "read"
  /\ cache' = Stored(waiter[w].got)
  /\ samples' = Observed(samples, FALSE)
  /\ waiter' = [waiter EXCEPT ![w] = Learned(@, @.got)]
  /\ UNCHANGED <<job, version, unbumped>>

ReadFails(w) ==
  /\ waiter[w].step = "read"
  /\ cache' = NotStored
  /\ samples' = Observed(samples, TRUE)
  /\ waiter' = [NotLate EXCEPT ![w] = Failed(@, Protects(samples'))]
  /\ UNCHANGED <<job, version, unbumped>>

\* Not the code: a waiter that does not poll has no timer.
FaultyWake(w) ==
  /\ waiter[w].step = "waiting"
  /\ waiter[w].notified \/ (waiter[w].left = 0 /\ waiter[w].polls)
  /\ waiter' = [waiter EXCEPT ![w].step = "woken"]
  /\ UNCHANGED <<job, version, unbumped, cache, samples>>

\* The select: any case that is ready.
Wake(w) ==
  /\ waiter[w].step = "waiting"
  /\ waiter[w].notified \/ waiter[w].left = 0
  /\ waiter' = [waiter EXCEPT ![w].step = "woken"]
  /\ UNCHANGED <<job, version, unbumped, cache, samples>>

Poll(w) ==
  /\ waiter[w].step = "waiting" /\ waiter[w].due
  /\ waiter' = [waiter EXCEPT ![w] = [@ EXCEPT !.step = "get", !.due = FALSE]]
  /\ UNCHANGED <<job, version, unbumped, cache, samples>>

\* The client goes away.  Its query fails with the context, and counts as an error.
Leave(w) ==
  /\ InWait(w)
  /\ IF waiter[w].step = "read"
     THEN /\ waiter' = [NotLate EXCEPT ![w] = Away]
          /\ cache' = NotStored
          /\ samples' = Observed(samples, TRUE)
     ELSE /\ waiter' = [waiter EXCEPT ![w] = Away]
          /\ UNCHANGED <<cache, samples>>
  /\ UNCHANGED <<job, version, unbumped>>

-----------------------------------------------------------------------------
(* Time.                                                                   *)

Runnable(w) ==
  \/ waiter[w].step \in {"listed", "woken"}
  \/ (waiter[w].step = "get" /\ (Fresh \/ ~cache.inFlight))
  \/ (waiter[w].step = "waiting" /\ (waiter[w].notified \/ waiter[w].left = 0 \/ waiter[w].due))

Timed(r) == \/ r.step = "waiting"
            \/ r.step \in {"get", "read"} /\ r.base # None

\* The longest that a change of the watermark can stay unseen: a query under way brings
\* back the old one, which then must expire before the ticker comes and asks anew.
PollDelay(r) == r.interval + CacheTTL + 2 * MaxRead

Aged(r) ==
  [r EXCEPT
     !.left = IF Timed(r) /\ @ > 0 THEN @ - 1 ELSE @,
     !.next = IF ~Timed(r) \/ ~r.polls THEN @ ELSE IF @ = 1 THEN r.interval ELSE @ - 1,
     !.due = @ \/ (Timed(r) /\ r.polls /\ r.next = 1),
     !.reading = IF r.step = "read" THEN @ + 1 ELSE @,
     !.late = IF r.polls /\ r.base \notin {None, version}
              THEN Least(@ + 1, PollDelay(r)) ELSE @]

Tick ==
  /\ \A w \in Waiters : ~Runnable(w) /\ waiter[w].reading < MaxRead
  /\ waiter' = [w \in Waiters |-> Aged(waiter[w])]
  /\ cache' = [cache EXCEPT !.age = Least(@ + 1, CacheTTL)]
  /\ UNCHANGED <<job, version, unbumped, samples>>

-----------------------------------------------------------------------------
Queue == (\E j \in Jobs : Submit(j) \/ Reclaim(j)) \/ Bump \/ Notify
Request(w) == List(w) \/ Enter(w) \/ Get(w) \/ ReadOK(w) \/ ReadFails(w) \/ Wake(w) \/ Poll(w)

Next == Queue \/ (\E w \in Waiters : Request(w) \/ Leave(w)) \/ Tick

Spec == Init /\ [][Next]_vars

\* Time passes, and workers ask again: the daemon polls in a loop.  Nobody needs to
\* announce, connect or leave.
LiveSpec == Spec /\ WF_vars(Tick) /\ \A w \in Waiters : WF_vars(Request(w))

-----------------------------------------------------------------------------
(* Properties.                                                             *)

\* Requests, cached value, error window and signal keep their shape: no timer leaves its range.
TypeOK ==
  /\ job \in [Jobs -> {"none", "queued", "taken"}]
  /\ version \in 1..MaxVersion + 1 /\ unbumped \in 0..MaxVersion
  /\ waiter \in [Waiters -> Waiter]
  /\ cache \in [value : 0..version, has : BOOLEAN, age : 0..CacheTTL, inFlight : BOOLEAN]
  /\ samples \in Seq(BOOLEAN) /\ Len(samples) <= Window

\* Exactly one request queries the watermark while others wait for its answer: however
\* queries fail and clients leave, nobody waits for a query that no one makes, and the
\* waiters of a server never query at once.
OneQueryAtATime ==
  /\ cache.inFlight <=> \E w \in Waiters : waiter[w].step = "read"
  /\ \A v, w \in Waiters : waiter[v].step = "read" /\ waiter[w].step = "read" => v = w

\* A waiter that polls sees a changed watermark before its interval, the life of the cached
\* value and two queries have passed, although it may start from, and be given, an old
\* cached value, and may have to wait for the query of another.
PollersSeeInTime ==
  \A w \in Waiters : waiter[w].polls => waiter[w].late < PollDelay(waiter[w])

\* The errors that made a server stop polling are only outweighed by polls: once no
\* waiter of its polls any more, it never polls again, and lists on notice or timeout only.
ProtectionIsSticky ==
  [][Protects(samples) /\ (\A w \in Waiters : ~waiter[w].polls) =>
       Protects(samples') /\ (\A w \in Waiters : ~waiter'[w].polls)]_vars

\* A job that is queued is taken in the end, though its announcement may be lost, its
\* watermark never bumped, redis gone, the database failing, and waiters protected from it.
EventuallyTaken == \A j \in Jobs : job[j] = "queued" ~> job[j] = "taken"
=============================================================================
