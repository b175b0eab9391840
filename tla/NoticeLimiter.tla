---------------------------- MODULE NoticeLimiter ----------------------------
(***************************************************************************)
(* The rate limits of webhook sends that all notice workers share in redis *)
(* (internal/apiserver/pkg/notice/redis_limiter.go, and the wait for a     *)
(* permit in worker.go): how many permits a second of the clock gives out, *)
(* in all and per channel, and how many sends run at once on a channel.    *)
(*                                                                         *)
(* A redis script is one step.  Its answer may be lost: the redis client   *)
(* then sends the script again, with the same keys, or reports an error    *)
(* (redisx/client.go leaves the client's retries as they are).  A tick is  *)
(* a second.  The counter of a second is named by the worker's clock; it   *)
(* is kept here by how long ago that second was, as far back as a request  *)
(* in flight may name it.                                                  *)
(***************************************************************************)
EXTENDS Integers, FiniteSets

CONSTANTS
  Workers,        \* worker processes; each sends one delivery at a time
  Channels,
  GlobalQPS,      \* the limits; 0 is no limit
  PerChannelQPS,
  PerChannelConcurrency,
  WindowTTL,      \* seconds that the counter of a second lives
  ConcurrencyTTL, \* seconds that the counter of a channel lives after an attempt
  FailOpen,       \* a redis error leads to the limiter of the process
  MaxLag,         \* bound: seconds from the reading of the clock to the script
  MaxSend,        \* bound: seconds from the script to the end of the send
  MaxFaults       \* bound on lost calls and crashes

ASSUME LimitAssumption ==
  /\ {GlobalQPS, PerChannelQPS, MaxLag, MaxSend, MaxFaults} \subseteq Nat
  /\ {PerChannelConcurrency, WindowTTL, ConcurrencyTTL} \subseteq Nat \ {0}
  /\ FailOpen \in BOOLEAN

ASSUME WorkersAssumption == IsFiniteSet(Workers)

\* What the counters need of the environment: no request names a second whose counter
\* may be gone, and no send outlives the counter of its channel.
ASSUME TimelyAssumption == MaxLag < WindowTTL /\ MaxSend < ConcurrencyTTL

Ages == 0..MaxLag

VARIABLES
  global,    \* the counter of each second
  channel,   \* per channel, its counter of each second
  conc,      \* per channel, the counter of the sends that run
  worker,    \* what each worker does
  granted,   \* not in the code: permits given in each second, in all
  grantedTo, \* and to each channel
  repeated,  \* not in the code: releases of one permit that ran again
  faults     \* lost calls and crashes so far

vars == <<global, channel, conc, worker, granted, grantedTo, repeated, faults>>

\* A key of redis; ttl 0 is no key.
Key == [n : Nat, ttl : Nat]
NoKey == [n |-> 0, ttl |-> 0]

\* at is the time since the clock was read, the script ran or the denial came.
Idle == [step |-> "idle"]
Busy == [step : {"asks", "waits", "sends", "sendsLocally", "releases"},
         ch : Channels, at : Nat]

Init ==
  /\ global = [a \in Ages |-> NoKey]
  /\ channel = [c \in Channels |-> [a \in Ages |-> NoKey]]
  /\ conc = [c \in Channels |-> NoKey]
  /\ worker = [w \in Workers |-> Idle]
  /\ granted = [a \in Ages |-> 0]
  /\ grantedTo = [c \in Channels |-> [a \in Ages |-> 0]]
  /\ repeated = 0
  /\ faults = 0

Becomes(w, step) ==
  worker' = [worker EXCEPT ![w] = [step |-> step, ch |-> worker[w].ch, at |-> 0]]

Stops(w) == worker' = [worker EXCEPT ![w] = Idle]

Fault == faults < MaxFaults /\ faults' = faults + 1

-----------------------------------------------------------------------------
(* The scripts.                                                            *)

\* INCR, and EXPIRE if the key is new; DECR takes it back.
Incr(k) == [n |-> k.n + 1, ttl |-> IF k.n = 0 THEN WindowTTL ELSE k.ttl]

FaultyUndo(k) == NoKey
Undo(k) == [k EXCEPT !.n = @ - 1]

\* INCR and PEXPIRE of the counter of sends, whether the permit is given or not.
FaultyTaken(k) == [n |-> k.n + 1, ttl |-> IF k.n = 0 THEN ConcurrencyTTL ELSE k.ttl]
Taken(k) == [n |-> k.n + 1, ttl |-> ConcurrencyTTL]

\* DECR, and DEL at 0 or below (the counter may be gone).
Given(k) == IF k.n <= 1 THEN NoKey ELSE [k EXCEPT !.n = @ - 1]

GlobalFull(a) == GlobalQPS > 0 /\ global[a].n + 1 > GlobalQPS
ChannelFull(c, a) == PerChannelQPS > 0 /\ channel[c][a].n + 1 > PerChannelQPS
ConcFull(c) == conc[c].n + 1 > PerChannelConcurrency

\* The counter of the channel is used only if it is limited.
CountChannel(c, a, k) ==
  channel' = IF PerChannelQPS > 0 THEN [channel EXCEPT ![c][a] = k] ELSE channel

DenyGlobal(c, a) ==
  /\ GlobalFull(a)
  /\ global' = [global EXCEPT ![a] = Undo(Incr(@))]
  /\ UNCHANGED <<channel, conc, granted, grantedTo>>

DenyChannel(c, a) ==
  /\ ~GlobalFull(a) /\ ChannelFull(c, a)
  /\ global' = [global EXCEPT ![a] = Undo(Incr(@))]
  /\ CountChannel(c, a, Undo(Incr(channel[c][a])))
  /\ UNCHANGED <<conc, granted, grantedTo>>

DenyConc(c, a) ==
  /\ ~GlobalFull(a) /\ ~ChannelFull(c, a) /\ ConcFull(c)
  /\ global' = [global EXCEPT ![a] = Undo(Incr(@))]
  /\ CountChannel(c, a, Undo(Incr(channel[c][a])))
  /\ conc' = [conc EXCEPT ![c] = Undo(Taken(@))]
  /\ UNCHANGED <<granted, grantedTo>>

Grant(c, a) ==
  /\ ~GlobalFull(a) /\ ~ChannelFull(c, a) /\ ~ConcFull(c)
  /\ global' = [global EXCEPT ![a] = Incr(@)]
  /\ CountChannel(c, a, Incr(channel[c][a]))
  /\ conc' = [conc EXCEPT ![c] = Taken(@)]
  /\ granted' = [granted EXCEPT ![a] = @ + 1]
  /\ grantedTo' = [grantedTo EXCEPT ![c][a] = @ + 1]

Deny(c, a) == DenyGlobal(c, a) \/ DenyChannel(c, a) \/ DenyConc(c, a)

-----------------------------------------------------------------------------
(* Acquire.                                                                *)

\* The worker has a delivery for the channel and reads the clock.
Ask(w, c) ==
  /\ worker[w] = Idle
  /\ worker' = [worker EXCEPT ![w] = [step |-> "asks", ch |-> c, at |-> 0]]
  /\ UNCHANGED <<global, channel, conc, granted, grantedTo, repeated, faults>>

\* A denied worker asks again in the next second.
AskAgain(w) ==
  /\ worker[w].step = "waits" /\ worker[w].at > 0
  /\ Becomes(w, "asks")
  /\ UNCHANGED <<global, channel, conc, granted, grantedTo, repeated, faults>>

\* No answer: the client sends the script again, or there is an error.
NoAnswer(w) ==
  /\ Fault
  /\ \/ UNCHANGED worker
     \/ IF FailOpen THEN Becomes(w, "sendsLocally") ELSE Stops(w)

\* The deadline, LockTimeout after the first attempt, allows another one or not.
Denied(w) ==
  /\ worker[w].step = "asks"
  /\ Deny(worker[w].ch, worker[w].at)
  /\ \/ (Becomes(w, "waits") \/ Stops(w)) /\ UNCHANGED faults
     \/ NoAnswer(w)
  /\ UNCHANGED repeated

Granted(w) ==
  /\ worker[w].step = "asks"
  /\ Grant(worker[w].ch, worker[w].at)
  /\ \/ Becomes(w, "sends") /\ UNCHANGED faults
     \/ NoAnswer(w)
  /\ UNCHANGED repeated

Unreached(w) ==
  /\ worker[w].step = "asks"
  /\ NoAnswer(w)
  /\ UNCHANGED <<global, channel, conc, granted, grantedTo, repeated>>

-----------------------------------------------------------------------------
(* The end of a send.                                                      *)

\* The script runs; its answer may be lost, and the client sends it again.
Release(w) ==
  /\ worker[w].step = "sends"
  /\ conc' = [conc EXCEPT ![worker[w].ch] = Given(@)]
  /\ \/ Stops(w) /\ UNCHANGED faults
     \/ Becomes(w, "releases") /\ Fault
  /\ UNCHANGED <<global, channel, granted, grantedTo, repeated>>

\* The script runs once more for the same permit.
ReleaseRepeats(w) ==
  /\ worker[w].step = "releases"
  /\ conc' = [conc EXCEPT ![worker[w].ch] = Given(@)]
  /\ repeated' = repeated + 1
  /\ \/ Stops(w) /\ UNCHANGED faults
     \/ UNCHANGED worker /\ Fault
  /\ UNCHANGED <<global, channel, granted, grantedTo>>

\* The script does not run, and the error is only logged.
ReleaseFails(w) ==
  /\ worker[w].step \in {"sends", "releases"}
  /\ Fault
  /\ Stops(w)
  /\ UNCHANGED <<global, channel, conc, granted, grantedTo, repeated>>

LocalEnds(w) ==
  /\ worker[w].step = "sendsLocally"
  /\ Stops(w)
  /\ UNCHANGED <<global, channel, conc, granted, grantedTo, repeated, faults>>

Crash(w) ==
  /\ worker[w] # Idle
  /\ Fault
  /\ Stops(w)
  /\ UNCHANGED <<global, channel, conc, granted, grantedTo, repeated>>

-----------------------------------------------------------------------------

Older(k) == IF k.ttl <= 1 THEN NoKey ELSE [k EXCEPT !.ttl = @ - 1]

OlderKeys(f) == [a \in DOMAIN f |-> Older(f[a])]

\* What was a seconds ago is a + 1 seconds ago.
Shift(f, new) == [a \in Ages |-> IF a = 0 THEN new ELSE f[a - 1]]

Tick ==
  /\ \A w \in Workers :
       /\ worker[w].step = "asks" => worker[w].at < MaxLag
       /\ worker[w].step = "sends" => worker[w].at < MaxSend
  /\ global' = Shift(OlderKeys(global), NoKey)
  /\ channel' = [c \in Channels |-> Shift(OlderKeys(channel[c]), NoKey)]
  /\ conc' = OlderKeys(conc)
  /\ worker' = [w \in Workers |->
                  CASE worker[w].step \in {"asks", "sends"} -> [worker[w] EXCEPT !.at = @ + 1]
                    [] worker[w].step = "waits" -> [worker[w] EXCEPT !.at = 1]
                    [] OTHER -> worker[w]]
  /\ granted' = Shift(granted, 0)
  /\ grantedTo' = [c \in Channels |-> Shift(grantedTo[c], 0)]
  /\ UNCHANGED <<repeated, faults>>

Next ==
  \/ Tick
  \/ \E w \in Workers :
       \/ \E c \in Channels : Ask(w, c)
       \/ AskAgain(w)
       \/ Denied(w)
       \/ Granted(w)
       \/ Unreached(w)
       \/ Release(w)
       \/ ReleaseRepeats(w)
       \/ ReleaseFails(w)
       \/ LocalEnds(w)
       \/ Crash(w)

Spec == Init /\ [][Next]_vars

-----------------------------------------------------------------------------

\* Every counter is a count with a life, and every worker is at a step of its loop.
TypeOK ==
  /\ global \in [Ages -> Key]
  /\ channel \in [Channels -> [Ages -> Key]]
  /\ conc \in [Channels -> Key]
  /\ worker \in [Workers -> {Idle} \cup Busy]
  /\ granted \in [Ages -> Nat]
  /\ grantedTo \in [Channels -> [Ages -> Nat]]
  /\ repeated \in Nat
  /\ faults \in Nat

Senders(c) == {w \in Workers : worker[w].step = "sends" /\ worker[w].ch = c}

\* No more sends run on a channel with a permit of redis than its limit, however long
\* they take, whoever crashes and whatever is denied meanwhile, but for one more for
\* each release that the client sent twice.
SendsBounded ==
  \A c \in Channels : Cardinality(Senders(c)) <= PerChannelConcurrency + repeated

\* A second gives out no more permits than its limits, although requests name it late and
\* its counters expire; and a denial costs nothing: the counter is the permits given.
QuotaExact ==
  \A a \in Ages :
    /\ global[a].n = granted[a]
    /\ GlobalQPS > 0 => granted[a] <= GlobalQPS
    /\ PerChannelQPS > 0 => \A c \in Channels : /\ channel[c][a].n = grantedTo[c][a]
                                                /\ grantedTo[c][a] <= PerChannelQPS
=============================================================================
