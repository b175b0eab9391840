------------------------- MODULE NoticeLimiterProofs -------------------------
(***************************************************************************)
(* Proofs about NoticeLimiter, for every number of workers and channels    *)
(* and all limits and times that satisfy its assumptions.                  *)
(*                                                                         *)
(* A counter that expires while what it counts still matters would be      *)
(* wrong, so the invariant relates each counter to its remaining life: the *)
(* counter of a second outlives the requests that may name it, and the     *)
(* counter of a channel every send that runs there.                        *)
(***************************************************************************)
EXTENDS NoticeLimiter, FiniteSetTheorems, TLAPS

\* k counts n permits of the second a seconds ago.
Counts(k, n, a) == k.n = n /\ (n > 0 => k.ttl + a >= WindowTTL)

QuotaInv ==
  \A a \in Ages :
    /\ Counts(global[a], granted[a], a)
    /\ GlobalQPS > 0 => granted[a] <= GlobalQPS
    /\ PerChannelQPS > 0 => \A c \in Channels :
         /\ Counts(channel[c][a], grantedTo[c][a], a)
         /\ grantedTo[c][a] <= PerChannelQPS

AsksInTime == \A w \in Workers : worker[w].step = "asks" => worker[w].at <= MaxLag

Outlives(c) ==
  \A w \in Senders(c) : conc[c].n > 0 => conc[c].ttl + worker[w].at >= ConcurrencyTTL

ConcInv ==
  \A c \in Channels :
    /\ conc[c].n <= PerChannelConcurrency
    /\ Cardinality(Senders(c)) <= conc[c].n + repeated
    /\ Outlives(c)

LimitInv == TypeOK /\ QuotaInv /\ AsksInTime /\ ConcInv

-----------------------------------------------------------------------------
(* The counters.                                                           *)

\* One permit more is counted, and the counter lives on.
LEMMA IncrCounts ==
  ASSUME NEW k \in Key, NEW n \in Nat, NEW a \in Ages, Counts(k, n, a)
  PROVE  Incr(k) \in Key /\ Counts(Incr(k), n + 1, a)
BY LimitAssumption DEF Key, Counts, Incr, Ages

\* A denial takes back what it counted.
LEMMA UndoCounts ==
  ASSUME NEW k \in Key, NEW n \in Nat, NEW a \in Ages, Counts(k, n, a)
  PROVE  Undo(Incr(k)) \in Key /\ Counts(Undo(Incr(k)), n, a)
BY LimitAssumption DEF Key, Counts, Incr, Undo, Ages

\* A counter with permits does not expire while its second may be named.
LEMMA OlderCounts ==
  ASSUME NEW k \in Key, NEW n \in Nat, NEW a \in Ages, a + 1 \in Ages, Counts(k, n, a)
  PROVE  Counts(Older(k), n, a + 1)
BY LimitAssumption, TimelyAssumption DEF Key, Counts, Older, Ages, NoKey

LEMMA OlderKey ==
  ASSUME NEW k \in Key
  PROVE  Older(k) \in Key /\ Older(k).n <= k.n
BY DEF Key, Older, NoKey

-----------------------------------------------------------------------------
(* The workers.                                                            *)

\* What a step of one worker does to the senders of a channel.
LEMMA SendersStep ==
  ASSUME TypeOK, NEW w \in Workers, NEW b \in {Idle} \cup Busy,
         worker' = [worker EXCEPT ![w] = b], NEW c \in Channels
  PROVE  Senders(c)' = IF b.step = "sends" /\ b.ch = c THEN Senders(c) \cup {w}
                                                      ELSE Senders(c) \ {w}
BY DEF TypeOK, Senders

LEMMA SendersFinite ==
  ASSUME NEW c
  PROVE  IsFiniteSet(Senders(c)) /\ Cardinality(Senders(c)) \in Nat
<1>1. Senders(c) \subseteq Workers
  BY DEF Senders
<1>2. QED
  BY <1>1, WorkersAssumption, FS_Subset, FS_CardinalityType

\* The step of a worker adds one sender at most, and none if it does not begin to send.
LEMMA SendersCount ==
  ASSUME TypeOK, NEW w \in Workers, NEW b \in {Idle} \cup Busy,
         worker' = [worker EXCEPT ![w] = b], NEW c \in Channels
  PROVE  /\ Cardinality(Senders(c)') \in Nat
         /\ Cardinality(Senders(c)') <= Cardinality(Senders(c)) + 1
         /\ ~(b.step = "sends" /\ b.ch = c) =>
              Cardinality(Senders(c)') =
                Cardinality(Senders(c)) - (IF w \in Senders(c) THEN 1 ELSE 0)
<1>1. IsFiniteSet(Senders(c)) /\ Cardinality(Senders(c)) \in Nat
  BY SendersFinite
<1>2. CASE b.step = "sends" /\ b.ch = c
  <2>1. Senders(c)' = Senders(c) \cup {w}
    BY <1>2, SendersStep
  <2>2. /\ IsFiniteSet(Senders(c) \cup {w})
        /\ Cardinality(Senders(c) \cup {w}) =
             IF w \in Senders(c) THEN Cardinality(Senders(c)) ELSE Cardinality(Senders(c)) + 1
    BY <1>1, FS_AddElement
  <2>3. QED
    BY <1>1, <1>2, <2>1, <2>2
<1>3. CASE ~(b.step = "sends" /\ b.ch = c)
  <2>1. Senders(c)' = Senders(c) \ {w}
    BY <1>3, SendersStep
  <2>2. /\ IsFiniteSet(Senders(c) \ {w})
        /\ Cardinality(Senders(c) \ {w}) =
             Cardinality(Senders(c)) - (IF w \in Senders(c) THEN 1 ELSE 0)
    BY <1>1, FS_RemoveElement
  <2>3. Cardinality(Senders(c) \ {w}) \in Nat
    BY <2>2, FS_CardinalityType
  <2>4. QED
    BY <1>1, <1>3, <2>1, <2>2, <2>3
<1>4. QED
  BY <1>2, <1>3

\* A worker that neither sent nor begins to send changes no count.
LEMMA SameSenders ==
  ASSUME TypeOK, NEW w \in Workers, NEW b \in {Idle} \cup Busy,
         worker' = [worker EXCEPT ![w] = b],
         worker[w].step # "sends", b.step # "sends"
  PROVE  \A c \in Channels :
           /\ Cardinality(Senders(c)') = Cardinality(Senders(c))
           /\ \A v \in Senders(c)' : v \in Senders(c) /\ worker'[v].at = worker[v].at
<1>1. ASSUME NEW c \in Channels
      PROVE  /\ Cardinality(Senders(c)') = Cardinality(Senders(c))
             /\ \A v \in Senders(c)' : v \in Senders(c) /\ worker'[v].at = worker[v].at
  <2>1. Senders(c)' = Senders(c)
    <3>1. w \notin Senders(c)
      BY DEF Senders
    <3>2. Senders(c)' = Senders(c) \ {w}
      BY SendersStep
    <3>3. QED
      BY <3>1, <3>2
  <2>2. \A v \in Senders(c) : v # w /\ v \in Workers
    BY DEF Senders
  <2>3. QED
    BY <2>1, <2>2 DEF TypeOK
<1>2. QED
  BY <1>1

-----------------------------------------------------------------------------
(* The script of an attempt.                                               *)

\* The counters of the seconds stay whole whether the attempt is denied or granted.
LEMMA DenyQuota ==
  ASSUME LimitInv, NEW c \in Channels, NEW a \in Ages, Deny(c, a)
  PROVE  /\ global' \in [Ages -> Key] /\ channel' \in [Channels -> [Ages -> Key]]
         /\ granted' = granted /\ grantedTo' = grantedTo
         /\ QuotaInv'
<1>1. /\ global \in [Ages -> Key] /\ channel \in [Channels -> [Ages -> Key]]
      /\ granted \in [Ages -> Nat] /\ grantedTo \in [Channels -> [Ages -> Nat]]
  BY DEF LimitInv, TypeOK
<1>2. /\ global' = [global EXCEPT ![a] = Undo(Incr(global[a]))]
      /\ granted' = granted /\ grantedTo' = grantedTo
      /\ channel' = channel \/ CountChannel(c, a, Undo(Incr(channel[c][a])))
  BY DEF Deny, DenyGlobal, DenyChannel, DenyConc
<1>3. Undo(Incr(global[a])) \in Key /\ Counts(Undo(Incr(global[a])), granted[a], a)
  BY <1>1, UndoCounts DEF LimitInv, QuotaInv
<1>4. PerChannelQPS > 0 =>
        /\ Undo(Incr(channel[c][a])) \in Key
        /\ Counts(Undo(Incr(channel[c][a])), grantedTo[c][a], a)
  BY <1>1, UndoCounts DEF LimitInv, QuotaInv
<1>5. \/ channel' = channel
      \/ PerChannelQPS > 0 /\ channel' = [channel EXCEPT ![c][a] = Undo(Incr(channel[c][a]))]
  BY <1>2 DEF CountChannel
<1>6. /\ global' \in [Ages -> Key]
      /\ \A x \in Ages : Counts(global'[x], granted[x], x)
  BY <1>1, <1>2, <1>3 DEF LimitInv, QuotaInv
<1>7. channel' \in [Channels -> [Ages -> Key]]
  <2>1. CASE channel' = channel
    BY <1>1, <2>1
  <2>2. CASE channel' # channel
    <3>1. PICK k \in Key : channel' = [channel EXCEPT ![c][a] = k]
      BY <1>4, <1>5, <2>2
    <3>2. QED
      BY <1>1, <3>1
  <2>3. QED
    BY <2>1, <2>2
<1>8. ASSUME PerChannelQPS > 0, NEW d \in Channels, NEW x \in Ages
      PROVE  Counts(channel'[d][x], grantedTo[d][x], x)
  <2>1. CASE d = c /\ x = a
    <3>1. channel'[d][x] = channel[d][x] \/ channel'[d][x] = Undo(Incr(channel[c][a]))
      BY <1>1, <1>5, <2>1
    <3>2. QED
      BY <1>4, <1>8, <2>1, <3>1 DEF LimitInv, QuotaInv
  <2>2. CASE ~(d = c /\ x = a)
    <3>1. channel'[d][x] = channel[d][x]
      BY <1>1, <1>5, <2>2
    <3>2. QED
      BY <1>8, <3>1 DEF LimitInv, QuotaInv
  <2>3. QED
    BY <2>1, <2>2
<1>9. QED
  BY <1>2, <1>6, <1>7, <1>8 DEF LimitInv, QuotaInv

LEMMA GrantQuota ==
  ASSUME LimitInv, NEW c \in Channels, NEW a \in Ages, Grant(c, a)
  PROVE  /\ global' \in [Ages -> Key] /\ channel' \in [Channels -> [Ages -> Key]]
         /\ granted' \in [Ages -> Nat] /\ grantedTo' \in [Channels -> [Ages -> Nat]]
         /\ QuotaInv'
<1>1. /\ global \in [Ages -> Key] /\ channel \in [Channels -> [Ages -> Key]]
      /\ granted \in [Ages -> Nat] /\ grantedTo \in [Channels -> [Ages -> Nat]]
  BY DEF LimitInv, TypeOK
<1>2. /\ global' = [global EXCEPT ![a] = Incr(global[a])]
      /\ granted' = [granted EXCEPT ![a] = granted[a] + 1]
      /\ grantedTo' = [grantedTo EXCEPT ![c][a] = grantedTo[c][a] + 1]
      /\ ~GlobalFull(a) /\ ~ChannelFull(c, a)
  BY DEF Grant
<1>3. /\ Incr(global[a]) \in Key /\ Counts(Incr(global[a]), granted[a] + 1, a)
      /\ GlobalQPS > 0 => granted[a] + 1 <= GlobalQPS
  BY <1>1, <1>2, IncrCounts, LimitAssumption DEF LimitInv, QuotaInv, Counts, GlobalFull, Key
<1>4. PerChannelQPS > 0 =>
        /\ Incr(channel[c][a]) \in Key
        /\ Counts(Incr(channel[c][a]), grantedTo[c][a] + 1, a)
        /\ grantedTo[c][a] + 1 <= PerChannelQPS
  BY <1>1, <1>2, IncrCounts, LimitAssumption DEF LimitInv, QuotaInv, Counts, ChannelFull, Key
<1>5. channel' = IF PerChannelQPS > 0
                 THEN [channel EXCEPT ![c][a] = Incr(channel[c][a])] ELSE channel
  BY DEF Grant, CountChannel
<1>6. /\ global' \in [Ages -> Key] /\ granted' \in [Ages -> Nat]
      /\ \A x \in Ages : /\ Counts(global'[x], granted'[x], x)
                         /\ GlobalQPS > 0 => granted'[x] <= GlobalQPS
  BY <1>1, <1>2, <1>3 DEF LimitInv, QuotaInv
<1>7. channel' \in [Channels -> [Ages -> Key]] /\ grantedTo' \in [Channels -> [Ages -> Nat]]
  BY <1>1, <1>2, <1>4, <1>5
<1>8. ASSUME PerChannelQPS > 0, NEW d \in Channels, NEW x \in Ages
      PROVE  /\ Counts(channel'[d][x], grantedTo'[d][x], x)
             /\ grantedTo'[d][x] <= PerChannelQPS
  <2>1. CASE d = c /\ x = a
    BY <1>1, <1>2, <1>4, <1>5, <1>8, <2>1
  <2>2. CASE ~(d = c /\ x = a)
    <3>1. channel'[d][x] = channel[d][x] /\ grantedTo'[d][x] = grantedTo[d][x]
      BY <1>1, <1>2, <1>5, <1>8, <2>2
    <3>2. QED
      BY <1>8, <3>1 DEF LimitInv, QuotaInv
  <2>3. QED
    BY <2>1, <2>2
<1>9. QED
  BY <1>6, <1>7, <1>8 DEF QuotaInv

-----------------------------------------------------------------------------
(* The sends of a channel.                                                 *)

\* Its counter keeps its count, its life is as it was or new, and nobody begins or ends.
LEMMA SameConc ==
  ASSUME TypeOK, ConcInv, NEW w \in Workers, NEW b \in {Idle} \cup Busy,
         worker' = [worker EXCEPT ![w] = b],
         worker[w].step # "sends", b.step # "sends",
         repeated' = repeated, conc' \in [Channels -> Key],
         \A c \in Channels : /\ conc'[c].n = conc[c].n
                             /\ conc'[c].ttl \in {conc[c].ttl, ConcurrencyTTL}
  PROVE  ConcInv'
<1>1. ASSUME NEW c \in Channels
      PROVE  /\ conc'[c].n <= PerChannelConcurrency
             /\ Cardinality(Senders(c)') <= conc'[c].n + repeated'
             /\ Outlives(c)'
  <2>1. /\ Cardinality(Senders(c)') = Cardinality(Senders(c))
        /\ \A v \in Senders(c)' : v \in Senders(c) /\ worker'[v].at = worker[v].at
    BY SameSenders
  <2>2. \A v \in Senders(c) : worker[v].at \in Nat
    BY DEF TypeOK, Senders, Busy, Idle
  <2>3. conc'[c].ttl \in Nat /\ ConcurrencyTTL \in Nat
    BY LimitAssumption DEF Key
  <2>4. ASSUME NEW v \in Senders(c)', conc'[c].n > 0
        PROVE  conc'[c].ttl + worker'[v].at >= ConcurrencyTTL
    BY <2>1, <2>2, <2>3, <2>4 DEF ConcInv, Outlives
  <2>5. QED
    BY <2>1, <2>4 DEF ConcInv, Outlives
<1>2. QED
  BY <1>1 DEF ConcInv

\* A permit is counted, and its worker begins to send or does not.
LEMMA TakenConc ==
  ASSUME TypeOK, ConcInv, NEW w \in Workers, NEW b \in {Idle} \cup Busy,
         worker' = [worker EXCEPT ![w] = b],
         worker[w].step = "asks",
         b.step = "sends" => b.ch = worker[w].ch /\ b.at = 0,
         repeated' = repeated, ~ConcFull(worker[w].ch),
         conc' = [conc EXCEPT ![worker[w].ch] = Taken(conc[worker[w].ch])]
  PROVE  ConcInv' /\ conc' \in [Channels -> Key]
<1> DEFINE h == worker[w].ch
<1>1. h \in Channels /\ conc \in [Channels -> Key] /\ repeated \in Nat
  BY DEF TypeOK, Busy, Idle
<1>2. /\ Taken(conc[h]) \in Key /\ Taken(conc[h]).ttl = ConcurrencyTTL
      /\ Taken(conc[h]).n = conc[h].n + 1 /\ conc[h].n + 1 <= PerChannelConcurrency
  BY <1>1, LimitAssumption DEF Taken, Key, ConcFull
<1>3. conc' \in [Channels -> Key]
  BY <1>1, <1>2
<1>4. ASSUME NEW c \in Channels
      PROVE  /\ conc'[c].n <= PerChannelConcurrency
             /\ Cardinality(Senders(c)') <= conc'[c].n + repeated'
             /\ Outlives(c)'
  <2>1. Cardinality(Senders(c)) \in Nat /\ conc[c].n \in Nat
    BY <1>1, SendersFinite DEF Key
  <2>2. /\ Cardinality(Senders(c)') \in Nat
        /\ Cardinality(Senders(c)') <= Cardinality(Senders(c)) + 1
        /\ c # h => Cardinality(Senders(c)') = Cardinality(Senders(c))
    <3>1. w \notin Senders(c)
      BY DEF Senders
    <3>2. c # h => ~(b.step = "sends" /\ b.ch = c)
      OBVIOUS
    <3>3. /\ Cardinality(Senders(c)') \in Nat
          /\ Cardinality(Senders(c)') <= Cardinality(Senders(c)) + 1
          /\ ~(b.step = "sends" /\ b.ch = c) =>
               Cardinality(Senders(c)') =
                 Cardinality(Senders(c)) - (IF w \in Senders(c) THEN 1 ELSE 0)
      BY SendersCount
    <3>4. QED
      BY <2>1, <3>1, <3>2, <3>3
  <2>3. CASE c = h
    <3>1. conc'[c] = Taken(conc[h])
      BY <1>1, <2>3
    <3>2. \A v \in Senders(c)' : worker'[v].at \in Nat
      BY DEF TypeOK, Senders, Busy, Idle
    <3>3. Outlives(c)'
      BY <1>2, <3>1, <3>2, LimitAssumption DEF Outlives
    <3>4. QED
      BY <1>1, <1>2, <2>1, <2>2, <2>3, <3>1, <3>3 DEF ConcInv
  <2>4. CASE c # h
    <3>1. conc'[c] = conc[c]
      BY <1>1, <2>4
    <3>2. \A v \in Senders(c)' : v \in Senders(c) /\ worker'[v] = worker[v]
      BY <2>4 DEF TypeOK, Senders
    <3>3. QED
      BY <2>2, <2>4, <3>1, <3>2 DEF ConcInv, Outlives
  <2>5. QED
    BY <2>3, <2>4
<1>5. QED
  BY <1>3, <1>4 DEF ConcInv

LEMMA GivenKey ==
  ASSUME NEW k \in Key
  PROVE  /\ Given(k) \in Key
         /\ Given(k).n = IF k.n = 0 THEN 0 ELSE k.n - 1
         /\ Given(k).n > 0 => Given(k).ttl = k.ttl
BY DEF Given, Key, NoKey

\* A permit is given back: once for a send that ends, or once more, and that is noted.
LEMMA GivenConc ==
  ASSUME TypeOK, ConcInv, NEW w \in Workers, NEW b \in {Idle} \cup Busy,
         worker' = [worker EXCEPT ![w] = b],
         b.step # "sends",
         \/ worker[w].step = "sends" /\ repeated' = repeated
         \/ worker[w].step = "releases" /\ repeated' = repeated + 1,
         conc' = [conc EXCEPT ![worker[w].ch] = Given(conc[worker[w].ch])]
  PROVE  ConcInv' /\ conc' \in [Channels -> Key]
<1> DEFINE h == worker[w].ch
<1>1. h \in Channels /\ conc \in [Channels -> Key] /\ repeated \in Nat
  BY DEF TypeOK, Busy, Idle
<1>2. conc' \in [Channels -> Key]
  BY <1>1, GivenKey
<1>3. ASSUME NEW c \in Channels
      PROVE  /\ conc'[c].n <= PerChannelConcurrency
             /\ Cardinality(Senders(c)') <= conc'[c].n + repeated'
             /\ Outlives(c)'
  <2>1. Cardinality(Senders(c)) \in Nat /\ conc[c].n \in Nat /\ conc[c] \in Key
    BY <1>1, SendersFinite DEF Key
  <2>2. /\ Cardinality(Senders(c)') \in Nat
        /\ Cardinality(Senders(c)') =
             Cardinality(Senders(c)) - (IF w \in Senders(c) THEN 1 ELSE 0)
    BY SendersCount
  <2>3. \A v \in Senders(c)' : v \in Senders(c) /\ worker'[v] = worker[v]
    BY DEF TypeOK, Senders
  <2>4. CASE c = h
    <3>1. conc'[c] = Given(conc[c])
      BY <1>1, <2>4
    <3>2. w \in Senders(c) <=> worker[w].step = "sends"
      BY <2>4 DEF Senders
    <3>3. Cardinality(Senders(c)') <= conc'[c].n + repeated'
      BY <1>1, <2>1, <2>2, <3>1, <3>2, GivenKey DEF ConcInv
    <3>4. conc'[c].n <= PerChannelConcurrency
      BY <2>1, <3>1, GivenKey, LimitAssumption DEF ConcInv
    <3>5. Outlives(c)'
      BY <2>1, <2>3, <3>1, GivenKey DEF ConcInv, Outlives
    <3>6. QED
      BY <3>3, <3>4, <3>5
  <2>5. CASE c # h
    <3>1. conc'[c] = conc[c]
      BY <1>1, <2>5
    <3>2. Cardinality(Senders(c)') <= conc'[c].n + repeated'
      BY <1>1, <2>1, <2>2, <3>1 DEF ConcInv
    <3>3. QED
      BY <2>3, <3>1, <3>2 DEF ConcInv, Outlives
  <2>6. QED
    BY <2>4, <2>5
<1>4. QED
  BY <1>2, <1>3 DEF ConcInv

-----------------------------------------------------------------------------
(* The steps.                                                              *)

\* What a worker may become.
LEMMA StepTypes ==
  ASSUME TypeOK, NEW w \in Workers, NEW step, Becomes(w, step), worker[w] # Idle,
         step \in {"asks", "waits", "sends", "sendsLocally", "releases"}
  PROVE  \E b \in Busy : /\ worker' = [worker EXCEPT ![w] = b]
                         /\ b.step = step /\ b.ch = worker[w].ch /\ b.at = 0
<1> DEFINE b == [step |-> step, ch |-> worker[w].ch, at |-> 0]
<1>1. worker[w].ch \in Channels
  BY DEF TypeOK, Busy
<1>2. b \in Busy
  BY <1>1 DEF Busy
<1>3. worker' = [worker EXCEPT ![w] = b]
  BY DEF Becomes
<1>4. QED
  BY <1>2, <1>3

\* The worker of an attempt: it goes on to a step that Becomes, NoAnswer and Stops allow.
LEMMA AfterScript ==
  ASSUME LimitInv, NEW w \in Workers, worker[w].step = "asks",
         \/ Becomes(w, "waits") \/ Becomes(w, "sends") \/ Becomes(w, "sendsLocally")
         \/ Stops(w) \/ UNCHANGED worker
  PROVE  \E b \in {Idle} \cup Busy :
           /\ worker' = [worker EXCEPT ![w] = b]
           /\ b.step = "asks" => b.at <= MaxLag
           /\ b.step = "sends" => b.ch = worker[w].ch /\ b.at = 0
           /\ b.step = "sends" => Becomes(w, "sends")
<1>1. worker \in [Workers -> {Idle} \cup Busy] /\ worker[w] \in Busy
  BY DEF LimitInv, TypeOK, Idle
<1>2. CASE Becomes(w, "waits")
  <2>1. PICK b \in Busy : /\ worker' = [worker EXCEPT ![w] = b]
                          /\ b.step = "waits" /\ b.ch = worker[w].ch /\ b.at = 0
    BY <1>1, <1>2, StepTypes DEF LimitInv, Idle
  <2>2. QED
    BY <2>1
<1>3. CASE Becomes(w, "sends")
  <2>1. PICK b \in Busy : /\ worker' = [worker EXCEPT ![w] = b]
                          /\ b.step = "sends" /\ b.ch = worker[w].ch /\ b.at = 0
    BY <1>1, <1>3, StepTypes DEF LimitInv, Idle
  <2>2. QED
    BY <1>3, <2>1
<1>4. CASE Becomes(w, "sendsLocally")
  <2>1. PICK b \in Busy : /\ worker' = [worker EXCEPT ![w] = b]
                          /\ b.step = "sendsLocally" /\ b.ch = worker[w].ch /\ b.at = 0
    BY <1>1, <1>4, StepTypes DEF LimitInv, Idle
  <2>2. QED
    BY <2>1
<1>5. CASE Stops(w)
  <2>1. worker' = [worker EXCEPT ![w] = Idle] /\ Idle.step = "idle"
    BY <1>5 DEF Stops, Idle
  <2>2. QED
    BY <2>1
<1>6. CASE UNCHANGED worker
  <2>1. worker' = [worker EXCEPT ![w] = worker[w]]
    BY <1>1, <1>6
  <2>2. QED
    BY <1>1, <2>1 DEF LimitInv, AsksInTime
<1>7. QED
  BY <1>2, <1>3, <1>4, <1>5, <1>6

LEMMA WorkerTypes ==
  ASSUME LimitInv, NEW w \in Workers, NEW b \in {Idle} \cup Busy,
         worker' = [worker EXCEPT ![w] = b], b.step = "asks" => b.at <= MaxLag
  PROVE  worker' \in [Workers -> {Idle} \cup Busy] /\ AsksInTime'
BY DEF LimitInv, TypeOK, AsksInTime

LEMMA FaultTypes ==
  ASSUME TypeOK, Fault \/ UNCHANGED faults
  PROVE  faults' \in Nat
BY DEF TypeOK, Fault

LEMMA InitInv == Init => LimitInv
<1> SUFFICES ASSUME Init PROVE LimitInv
  OBVIOUS
<1>1. TypeOK
  BY DEF Init, TypeOK, NoKey, Key
<1>2. QuotaInv
  BY LimitAssumption DEF Init, QuotaInv, Counts, NoKey
<1>3. AsksInTime
  BY DEF Init, AsksInTime, Idle
<1>4. ConcInv
  <2>1. \A c \in Channels : Senders(c) = {}
    BY DEF Init, Senders, Idle
  <2>2. Cardinality({}) = 0
    BY FS_EmptySet
  <2>3. repeated = 0 /\ \A c \in Channels : conc[c].n = 0
    BY DEF Init, NoKey
  <2>4. QED
    BY <2>1, <2>2, <2>3, LimitAssumption DEF ConcInv, Outlives
<1>5. QED
  BY <1>1, <1>2, <1>3, <1>4 DEF LimitInv

LEMMA DeniedInv ==
  ASSUME LimitInv, NEW w \in Workers, Denied(w)
  PROVE  LimitInv'
<1> DEFINE h == worker[w].ch
           a == worker[w].at
<1>1. TypeOK /\ ConcInv /\ worker[w].step = "asks" /\ h \in Channels /\ a \in Ages
  BY DEF LimitInv, TypeOK, AsksInTime, Denied, Busy, Idle, Ages
<1>2. PICK b \in {Idle} \cup Busy :
        /\ worker' = [worker EXCEPT ![w] = b] /\ b.step # "sends"
        /\ b.step = "asks" => b.at <= MaxLag
  <2>1. Becomes(w, "waits") \/ Becomes(w, "sendsLocally") \/ Stops(w) \/ UNCHANGED worker
    BY DEF Denied, NoAnswer
  <2>2. ~Becomes(w, "sends")
    BY <1>1, <2>1 DEF Becomes, Stops, Idle, TypeOK
  <2>3. QED
    BY <1>1, <2>1, <2>2, AfterScript
<1>3. /\ global' \in [Ages -> Key] /\ channel' \in [Channels -> [Ages -> Key]]
      /\ granted' = granted /\ grantedTo' = grantedTo
      /\ QuotaInv'
  BY <1>1, DenyQuota DEF Denied
<1>4. /\ conc' \in [Channels -> Key]
      /\ \A c \in Channels : /\ conc'[c].n = conc[c].n
                             /\ conc'[c].ttl \in {conc[c].ttl, ConcurrencyTTL}
  <2>1. conc \in [Channels -> Key]
    BY <1>1 DEF TypeOK
  <2>2. /\ Undo(Taken(conc[h])) \in Key
        /\ Undo(Taken(conc[h])).n = conc[h].n
        /\ Undo(Taken(conc[h])).ttl = ConcurrencyTTL
    BY <1>1, <2>1, LimitAssumption DEF Undo, Taken, Key
  <2>3. conc' = conc \/ conc' = [conc EXCEPT ![h] = Undo(Taken(conc[h]))]
    BY DEF Denied, Deny, DenyGlobal, DenyChannel, DenyConc
  <2>4. QED
    BY <1>1, <2>1, <2>2, <2>3
<1>5. repeated' = repeated /\ faults' \in Nat
  BY <1>1, FaultTypes DEF Denied, NoAnswer
<1>6. ConcInv'
  BY <1>1, <1>2, <1>4, <1>5, SameConc
<1>7. worker' \in [Workers -> {Idle} \cup Busy] /\ AsksInTime'
  BY <1>2, WorkerTypes
<1>8. QED
  BY <1>1, <1>3, <1>4, <1>5, <1>6, <1>7 DEF LimitInv, TypeOK

LEMMA GrantedInv ==
  ASSUME LimitInv, NEW w \in Workers, Granted(w)
  PROVE  LimitInv'
<1> DEFINE h == worker[w].ch
           a == worker[w].at
<1>1. TypeOK /\ ConcInv /\ worker[w].step = "asks" /\ h \in Channels /\ a \in Ages
  BY DEF LimitInv, TypeOK, AsksInTime, Granted, Busy, Idle, Ages
<1>2. PICK b \in {Idle} \cup Busy :
        /\ worker' = [worker EXCEPT ![w] = b]
        /\ b.step = "asks" => b.at <= MaxLag
        /\ b.step = "sends" => b.ch = h /\ b.at = 0
  <2>1. Becomes(w, "sends") \/ Becomes(w, "sendsLocally") \/ Stops(w) \/ UNCHANGED worker
    BY DEF Granted, NoAnswer
  <2>2. QED
    BY <1>1, <2>1, AfterScript
<1>3. /\ global' \in [Ages -> Key] /\ channel' \in [Channels -> [Ages -> Key]]
      /\ granted' \in [Ages -> Nat] /\ grantedTo' \in [Channels -> [Ages -> Nat]]
      /\ QuotaInv'
  BY <1>1, GrantQuota DEF Granted
<1>4. ~ConcFull(h) /\ conc' = [conc EXCEPT ![h] = Taken(conc[h])]
  BY DEF Granted, Grant
<1>5. repeated' = repeated /\ faults' \in Nat
  BY <1>1, FaultTypes DEF Granted, NoAnswer
<1>6. ConcInv' /\ conc' \in [Channels -> Key]
  BY <1>1, <1>2, <1>4, <1>5, TakenConc
<1>7. worker' \in [Workers -> {Idle} \cup Busy] /\ AsksInTime'
  BY <1>2, WorkerTypes
<1>8. QED
  BY <1>1, <1>3, <1>5, <1>6, <1>7 DEF LimitInv, TypeOK

\* The script of a release, the first or a further time.
LEMMA ReleaseInv ==
  ASSUME LimitInv, NEW w \in Workers, Release(w) \/ ReleaseRepeats(w)
  PROVE  LimitInv'
<1>1. /\ TypeOK /\ ConcInv /\ worker[w] # Idle /\ worker[w] \in Busy
      /\ worker \in [Workers -> {Idle} \cup Busy]
  BY DEF LimitInv, TypeOK, Release, ReleaseRepeats, Idle
<1>2. PICK b \in {Idle} \cup Busy :
        worker' = [worker EXCEPT ![w] = b] /\ b.step \notin {"sends", "asks"}
  <2>1. CASE Stops(w)
    <3>1. worker' = [worker EXCEPT ![w] = Idle] /\ Idle.step = "idle"
      BY <2>1 DEF Stops, Idle
    <3>2. QED
      BY <3>1
  <2>2. CASE Becomes(w, "releases")
    <3>1. PICK b \in Busy : worker' = [worker EXCEPT ![w] = b] /\ b.step = "releases"
      BY <1>1, <2>2, StepTypes
    <3>2. QED
      BY <3>1
  <2>3. CASE UNCHANGED worker /\ worker[w].step = "releases"
    <3>1. worker' = [worker EXCEPT ![w] = worker[w]]
      BY <1>1, <2>3
    <3>2. QED
      BY <1>1, <2>3, <3>1
  <2>4. QED
    BY <2>1, <2>2, <2>3 DEF Release, ReleaseRepeats
<1>3. /\ conc' = [conc EXCEPT ![worker[w].ch] = Given(conc[worker[w].ch])]
      /\ \/ worker[w].step = "sends" /\ repeated' = repeated
         \/ worker[w].step = "releases" /\ repeated' = repeated + 1
      /\ UNCHANGED <<global, channel, granted, grantedTo>>
  BY DEF Release, ReleaseRepeats
<1>4. ConcInv' /\ conc' \in [Channels -> Key]
  BY <1>1, <1>2, <1>3, GivenConc
<1>5. worker' \in [Workers -> {Idle} \cup Busy] /\ AsksInTime'
  BY <1>2, WorkerTypes
<1>6. repeated' \in Nat /\ faults' \in Nat
  BY <1>1, <1>3, FaultTypes DEF TypeOK, Release, ReleaseRepeats
<1>7. QuotaInv'
  BY <1>3 DEF LimitInv, QuotaInv, Counts
<1>8. QED
  BY <1>1, <1>3, <1>4, <1>5, <1>6, <1>7 DEF LimitInv, TypeOK

\* The steps that leave the counters alone.
LEMMA WorkerInv ==
  ASSUME LimitInv, NEW w \in Workers,
         NEW b \in {Idle} \cup Busy,
         worker' = [worker EXCEPT ![w] = b],
         b.step # "sends", b.step = "asks" => b.at <= MaxLag,
         faults' \in Nat,
         UNCHANGED <<global, channel, conc, granted, grantedTo, repeated>>
  PROVE  LimitInv'
<1>1. worker' \in [Workers -> {Idle} \cup Busy] /\ AsksInTime'
  BY WorkerTypes
<1>2. QuotaInv'
  BY DEF LimitInv, QuotaInv, Counts
<1>3. ASSUME NEW c \in Channels
      PROVE  /\ conc'[c].n <= PerChannelConcurrency
             /\ Cardinality(Senders(c)') <= conc'[c].n + repeated'
             /\ Outlives(c)'
  <2>1. conc[c].n \in Nat /\ repeated \in Nat /\ Cardinality(Senders(c)) \in Nat
    BY SendersFinite DEF LimitInv, TypeOK, Key
  <2>2. Cardinality(Senders(c)') <= Cardinality(Senders(c))
    <3>1. Cardinality(Senders(c)') =
            Cardinality(Senders(c)) - (IF w \in Senders(c) THEN 1 ELSE 0)
      BY SendersCount DEF LimitInv
    <3>2. QED
      BY <2>1, <3>1
  <2>3. \A v \in Senders(c)' : v \in Senders(c) /\ worker'[v] = worker[v]
    BY DEF LimitInv, TypeOK, Senders
  <2>4. Cardinality(Senders(c)') \in Nat
    BY SendersCount DEF LimitInv
  <2>5. QED
    BY <2>1, <2>2, <2>3, <2>4 DEF LimitInv, ConcInv, Outlives
<1>4. QED
  BY <1>1, <1>2, <1>3 DEF LimitInv, TypeOK, ConcInv

LEMMA AskInv ==
  ASSUME LimitInv, NEW w \in Workers,
         AskAgain(w) \/ \E c \in Channels : Ask(w, c)
  PROVE  LimitInv'
<1>1. PICK b \in Busy : worker' = [worker EXCEPT ![w] = b] /\ b.step = "asks" /\ b.at = 0
  <2>1. CASE AskAgain(w)
    BY <2>1, StepTypes DEF AskAgain, LimitInv, Idle
  <2>2. ASSUME NEW c \in Channels, Ask(w, c)
        PROVE  \E b \in Busy : worker' = [worker EXCEPT ![w] = b] /\ b.step = "asks" /\ b.at = 0
    <3>1. [step |-> "asks", ch |-> c, at |-> 0] \in Busy
      BY DEF Busy
    <3>2. QED
      BY <2>2, <3>1 DEF Ask
  <2>3. QED
    BY <2>1, <2>2
<1>2. UNCHANGED <<global, channel, conc, granted, grantedTo, repeated, faults>>
  BY DEF Ask, AskAgain
<1>3. b.step # "sends" /\ b.at <= MaxLag /\ faults' \in Nat
  BY <1>1, <1>2, LimitAssumption DEF LimitInv, TypeOK
<1>4. QED
  BY <1>1, <1>2, <1>3, WorkerInv

LEMMA EndInv ==
  ASSUME LimitInv, NEW w \in Workers,
         ReleaseFails(w) \/ LocalEnds(w) \/ Crash(w)
  PROVE  LimitInv'
<1>1. worker' = [worker EXCEPT ![w] = Idle] /\ Idle.step = "idle"
  BY DEF ReleaseFails, LocalEnds, Crash, Stops, Idle
<1>2. /\ UNCHANGED <<global, channel, conc, granted, grantedTo, repeated>>
      /\ Fault \/ UNCHANGED faults
  BY DEF ReleaseFails, LocalEnds, Crash
<1>3. faults' \in Nat
  BY <1>2, FaultTypes DEF LimitInv
<1>4. QED
  BY <1>1, <1>2, <1>3, WorkerInv

LEMMA UnreachedInv ==
  ASSUME LimitInv, NEW w \in Workers, Unreached(w)
  PROVE  LimitInv'
<1>1. /\ worker[w].step = "asks" /\ Fault
      /\ UNCHANGED <<global, channel, conc, granted, grantedTo, repeated>>
      /\ Becomes(w, "sendsLocally") \/ Stops(w) \/ UNCHANGED worker
  BY DEF Unreached, NoAnswer
<1>2. ~Becomes(w, "sends")
  BY <1>1 DEF Becomes, Stops, Idle, LimitInv, TypeOK
<1>3. PICK b \in {Idle} \cup Busy :
        /\ worker' = [worker EXCEPT ![w] = b] /\ b.step # "sends"
        /\ b.step = "asks" => b.at <= MaxLag
  BY <1>1, <1>2, AfterScript
<1>4. faults' \in Nat
  BY <1>1, FaultTypes DEF LimitInv
<1>5. QED
  BY <1>1, <1>3, <1>4, WorkerInv

-----------------------------------------------------------------------------
(* The clock.                                                              *)

\* A second later every counter is one second older, those of seconds by their new age.
LEMMA ShiftCounts ==
  ASSUME NEW f \in [Ages -> Key], NEW n \in [Ages -> Nat],
         \A a \in Ages : Counts(f[a], n[a], a)
  PROVE  /\ Shift(OlderKeys(f), NoKey) \in [Ages -> Key]
         /\ Shift(n, 0) \in [Ages -> Nat]
         /\ \A a \in Ages : Counts(Shift(OlderKeys(f), NoKey)[a], Shift(n, 0)[a], a)
<1>1. \A a \in Ages : a = 0 \/ (a - 1 \in Ages /\ (a - 1) + 1 = a)
  BY LimitAssumption DEF Ages
<1>2. \A a \in Ages : OlderKeys(f)[a] = Older(f[a])
  BY DEF OlderKeys
<1>3. NoKey \in Key /\ \A a \in Ages : Counts(NoKey, 0, a)
  BY DEF NoKey, Key, Counts
<1>4. Shift(OlderKeys(f), NoKey) \in [Ages -> Key]
  BY <1>1, <1>2, <1>3, OlderKey DEF Shift
<1>5. Shift(n, 0) \in [Ages -> Nat]
  BY <1>1 DEF Shift
<1>6. ASSUME NEW a \in Ages
      PROVE  Counts(Shift(OlderKeys(f), NoKey)[a], Shift(n, 0)[a], a)
  <2>1. CASE a = 0
    BY <1>3, <2>1 DEF Shift
  <2>2. CASE a # 0
    <3>1. a - 1 \in Ages /\ (a - 1) + 1 = a
      BY <1>1, <2>2
    <3>2. /\ Shift(OlderKeys(f), NoKey)[a] = Older(f[a - 1])
          /\ Shift(n, 0)[a] = n[a - 1]
      BY <1>2, <2>2, <3>1 DEF Shift
    <3>3. Counts(Older(f[a - 1]), n[a - 1], (a - 1) + 1)
      BY <3>1, OlderCounts
    <3>4. QED
      BY <3>1, <3>2, <3>3
  <2>3. QED
    BY <2>1, <2>2
<1>7. QED
  BY <1>4, <1>5, <1>6

LEMMA ShiftTypes ==
  ASSUME NEW f \in [Ages -> Key], NEW n \in [Ages -> Nat]
  PROVE  Shift(OlderKeys(f), NoKey) \in [Ages -> Key] /\ Shift(n, 0) \in [Ages -> Nat]
<1>1. \A a \in Ages : a = 0 \/ a - 1 \in Ages
  BY LimitAssumption DEF Ages
<1>2. \A a \in Ages : OlderKeys(f)[a] = Older(f[a])
  BY DEF OlderKeys
<1>3. NoKey \in Key
  BY DEF NoKey, Key
<1>4. QED
  BY <1>1, <1>2, <1>3, OlderKey DEF Shift

\* A bound on the permits of every second bounds those of the seconds a second later.
LEMMA ShiftBound ==
  ASSUME NEW n \in [Ages -> Nat], NEW b \in Nat, \A a \in Ages : n[a] <= b
  PROVE  \A a \in Ages : Shift(n, 0)[a] <= b
<1>1. \A a \in Ages : a = 0 \/ a - 1 \in Ages
  BY LimitAssumption DEF Ages
<1>2. QED
  BY <1>1 DEF Shift

LEMMA TickQuota ==
  ASSUME LimitInv, Tick
  PROVE  /\ global' \in [Ages -> Key] /\ channel' \in [Channels -> [Ages -> Key]]
         /\ granted' \in [Ages -> Nat] /\ grantedTo' \in [Channels -> [Ages -> Nat]]
         /\ QuotaInv'
<1>1. /\ global \in [Ages -> Key] /\ channel \in [Channels -> [Ages -> Key]]
      /\ granted \in [Ages -> Nat] /\ grantedTo \in [Channels -> [Ages -> Nat]]
      /\ GlobalQPS \in Nat /\ PerChannelQPS \in Nat
  BY LimitAssumption DEF LimitInv, TypeOK
<1>2. /\ global' = Shift(OlderKeys(global), NoKey)
      /\ granted' = Shift(granted, 0)
      /\ channel' = [c \in Channels |-> Shift(OlderKeys(channel[c]), NoKey)]
      /\ grantedTo' = [c \in Channels |-> Shift(grantedTo[c], 0)]
  BY DEF Tick
<1>3. /\ global' \in [Ages -> Key] /\ granted' \in [Ages -> Nat]
      /\ \A a \in Ages : Counts(global'[a], granted'[a], a)
  BY <1>1, <1>2, ShiftCounts DEF LimitInv, QuotaInv
<1>4. GlobalQPS > 0 => \A a \in Ages : granted'[a] <= GlobalQPS
  BY <1>1, <1>2, ShiftBound DEF LimitInv, QuotaInv
<1>5. ASSUME NEW c \in Channels
      PROVE  channel'[c] \in [Ages -> Key] /\ grantedTo'[c] \in [Ages -> Nat]
  <2>1. channel[c] \in [Ages -> Key] /\ grantedTo[c] \in [Ages -> Nat]
    BY <1>1
  <2>2. QED
    BY <1>2, <2>1, ShiftTypes
<1>6. ASSUME NEW c \in Channels, PerChannelQPS > 0
      PROVE  \A a \in Ages : /\ Counts(channel'[c][a], grantedTo'[c][a], a)
                            /\ grantedTo'[c][a] <= PerChannelQPS
  <2>1. channel[c] \in [Ages -> Key] /\ grantedTo[c] \in [Ages -> Nat]
    BY <1>1
  <2>2. \A a \in Ages : /\ Counts(channel[c][a], grantedTo[c][a], a)
                       /\ grantedTo[c][a] <= PerChannelQPS
    BY <1>6 DEF LimitInv, QuotaInv
  <2>3. channel'[c] = Shift(OlderKeys(channel[c]), NoKey) /\ grantedTo'[c] = Shift(grantedTo[c], 0)
    BY <1>2
  <2>4. \A a \in Ages : Counts(channel'[c][a], grantedTo'[c][a], a)
    BY <2>1, <2>2, <2>3, ShiftCounts
  <2>5. \A a \in Ages : grantedTo'[c][a] <= PerChannelQPS
    BY <1>1, <2>1, <2>2, <2>3, ShiftBound
  <2>6. QED
    BY <2>4, <2>5
<1>7. channel' \in [Channels -> [Ages -> Key]] /\ grantedTo' \in [Channels -> [Ages -> Nat]]
  BY <1>2, <1>5
<1>8. QED
  BY <1>3, <1>4, <1>6, <1>7 DEF QuotaInv

\* A tick leaves the steps of the workers and makes their ages greater.
LEMMA TickWorkers ==
  ASSUME LimitInv, Tick, NEW w \in Workers
  PROVE  /\ worker'[w] \in {Idle} \cup Busy
         /\ worker'[w].step = worker[w].step
         /\ worker[w] # Idle => worker'[w].ch = worker[w].ch
         /\ worker[w].step \in {"asks", "sends"} => worker'[w].at = worker[w].at + 1
<1>1. worker[w] \in {Idle} \cup Busy
  BY DEF LimitInv, TypeOK
<1>2. worker'[w] = CASE worker[w].step \in {"asks", "sends"} -> [worker[w] EXCEPT !.at = @ + 1]
                     [] worker[w].step = "waits" -> [worker[w] EXCEPT !.at = 1]
                     [] OTHER -> worker[w]
  BY DEF Tick
<1>3. CASE worker[w] = Idle
  <2>1. worker[w].step = "idle"
    BY <1>3 DEF Idle
  <2>2. QED
    BY <1>2, <1>3, <2>1
<1>4. CASE worker[w] \in Busy
  <2>1. CASE worker[w].step \in {"asks", "sends"}
    <3>1. worker'[w] = [worker[w] EXCEPT !.at = worker[w].at + 1]
      BY <1>2, <2>1
    <3>2. QED
      BY <1>4, <3>1 DEF Busy
  <2>2. CASE worker[w].step = "waits"
    <3>1. worker'[w] = [worker[w] EXCEPT !.at = 1]
      BY <1>2, <2>2
    <3>2. QED
      BY <1>4, <2>2, <3>1 DEF Busy
  <2>3. CASE worker[w].step \notin {"asks", "sends", "waits"}
    BY <1>1, <1>2, <2>3
  <2>4. QED
    BY <2>1, <2>2, <2>3
<1>5. QED
  BY <1>1, <1>3, <1>4

LEMMA TickConc ==
  ASSUME LimitInv, Tick
  PROVE  ConcInv' /\ conc' \in [Channels -> Key]
<1>1. conc \in [Channels -> Key] /\ repeated' = repeated /\ repeated \in Nat
  BY DEF LimitInv, TypeOK, Tick
<1>2. conc' = [c \in Channels |-> Older(conc[c])]
  BY <1>1 DEF Tick, OlderKeys
<1>3. conc' \in [Channels -> Key]
  BY <1>1, <1>2, OlderKey
<1>4. ASSUME NEW c \in Channels
      PROVE  /\ conc'[c].n <= PerChannelConcurrency
             /\ Cardinality(Senders(c)') <= conc'[c].n + repeated'
             /\ Outlives(c)'
  <2>1. Senders(c)' = Senders(c)
    <3>1. \A w \in Workers : worker[w].step = "sends" => worker[w] # Idle
      BY DEF Idle
    <3>2. QED
      BY <3>1, TickWorkers DEF Senders
  <2>2. \A w \in Senders(c) : /\ worker'[w].at = worker[w].at + 1
                             /\ worker[w].at \in Nat /\ worker[w].at < MaxSend
    BY TickWorkers DEF Senders, Tick, LimitInv, TypeOK, Busy, Idle
  <2>3. conc[c] \in Key /\ conc[c].n \in Nat /\ conc[c].ttl \in Nat /\ conc'[c] = Older(conc[c])
    BY <1>1, <1>2 DEF Key
  <2>4. Cardinality(Senders(c)) \in Nat
    BY SendersFinite
  <2>5. conc'[c].n <= PerChannelConcurrency
    BY <1>3, <2>3, OlderKey, LimitAssumption DEF LimitInv, ConcInv, Key
  <2>6. CASE conc'[c].n = conc[c].n
    <3>1. Cardinality(Senders(c)') <= conc'[c].n + repeated'
      BY <1>1, <2>1, <2>6 DEF LimitInv, ConcInv
    <3>2. conc[c].n > 0 => conc'[c].ttl = conc[c].ttl - 1
      BY <2>3, <2>6 DEF Older, NoKey, Key
    <3>3. Outlives(c)'
      BY <2>1, <2>2, <2>3, <2>6, <3>2, LimitAssumption DEF LimitInv, ConcInv, Outlives
    <3>4. QED
      BY <2>5, <3>1, <3>3
  <2>7. CASE conc'[c].n # conc[c].n
    <3>1. conc[c].n > 0 /\ conc[c].ttl <= 1 /\ conc'[c].n = 0
      BY <2>3, <2>7 DEF Older, NoKey, Key
    <3>2. Senders(c) = {}
      BY <2>2, <2>3, <3>1, LimitAssumption, TimelyAssumption DEF LimitInv, ConcInv, Outlives
    <3>3. Cardinality({}) = 0
      BY FS_EmptySet
    <3>4. QED
      BY <1>1, <2>1, <2>5, <3>1, <3>2, <3>3 DEF Outlives
  <2>8. QED
    BY <2>6, <2>7
<1>5. QED
  BY <1>3, <1>4 DEF ConcInv

LEMMA TickInv ==
  ASSUME LimitInv, Tick
  PROVE  LimitInv'
<1>1. worker' \in [Workers -> {Idle} \cup Busy]
  <2>1. worker' = [w \in Workers |-> worker'[w]]
    BY DEF Tick
  <2>2. QED
    BY <2>1, TickWorkers
<1>2. AsksInTime'
  <2>1. \A w \in Workers : worker[w].step = "asks" => worker[w].at \in Nat /\ worker[w].at < MaxLag
    BY DEF LimitInv, TypeOK, Busy, Idle, Tick
  <2>2. QED
    BY <2>1, TickWorkers, LimitAssumption DEF AsksInTime
<1>3. repeated' \in Nat /\ faults' \in Nat
  BY DEF LimitInv, TypeOK, Tick
<1>4. QED
  BY <1>1, <1>2, <1>3, TickQuota, TickConc DEF LimitInv, TypeOK

-----------------------------------------------------------------------------
(* The theorems.                                                           *)

LEMMA Steps == LimitInv /\ [Next]_vars => LimitInv'
<1> SUFFICES ASSUME LimitInv, [Next]_vars
             PROVE  LimitInv'
  OBVIOUS
<1>1. CASE Tick
  BY <1>1, TickInv
<1>2. ASSUME NEW w \in Workers, \/ AskAgain(w) \/ \E c \in Channels : Ask(w, c)
      PROVE  LimitInv'
  BY <1>2, AskInv
<1>3. ASSUME NEW w \in Workers, Denied(w)
      PROVE  LimitInv'
  BY <1>3, DeniedInv
<1>4. ASSUME NEW w \in Workers, Granted(w)
      PROVE  LimitInv'
  BY <1>4, GrantedInv
<1>5. ASSUME NEW w \in Workers, Unreached(w)
      PROVE  LimitInv'
  BY <1>5, UnreachedInv
<1>6. ASSUME NEW w \in Workers, Release(w) \/ ReleaseRepeats(w)
      PROVE  LimitInv'
  BY <1>6, ReleaseInv
<1>7. ASSUME NEW w \in Workers, ReleaseFails(w) \/ LocalEnds(w) \/ Crash(w)
      PROVE  LimitInv'
  BY <1>7, EndInv
<1>8. CASE UNCHANGED vars
  BY <1>8 DEF vars, LimitInv, TypeOK, QuotaInv, Counts, AsksInTime, ConcInv, Outlives, Senders
<1>9. QED
  BY <1>1, <1>2, <1>3, <1>4, <1>5, <1>6, <1>7, <1>8 DEF Next

\* The invariant holds of every run: the shape of the counters and their lives.
THEOREM LimiterInvariant == Spec => []LimitInv
BY InitInv, Steps, PTL DEF Spec

\* No more sends hold a permit of a channel than its limit and the repeated releases.
THEOREM SendsAreBounded == Spec => []SendsBounded
<1>1. LimitInv => SendsBounded
  <2> SUFFICES ASSUME LimitInv, NEW c \in Channels
               PROVE  Cardinality(Senders(c)) <= PerChannelConcurrency + repeated
    BY DEF SendsBounded
  <2>1. /\ conc[c].n \in Nat /\ repeated \in Nat
        /\ Cardinality(Senders(c)) \in Nat /\ PerChannelConcurrency \in Nat
    BY SendersFinite, LimitAssumption DEF LimitInv, TypeOK, Key
  <2>2. QED
    BY <2>1 DEF LimitInv, ConcInv
<1>2. QED
  BY <1>1, LimiterInvariant, PTL

\* A second gives out its quota at most, and its counter is what it gave out.
THEOREM QuotaIsExact == Spec => []QuotaExact
<1>1. LimitInv => QuotaExact
  BY DEF LimitInv, QuotaInv, QuotaExact, Counts
<1>2. QED
  BY <1>1, LimiterInvariant, PTL
=============================================================================
