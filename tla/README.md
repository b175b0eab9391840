# Verification of the RCA control plane

This directory holds TLA+ models of `rca-api`, the control plane that receives alerts, keeps incidents, hands
root-cause-analysis jobs to orchestrator workers and notifies people by webhook. TLC checks the models on small
instances; TLAPS proves the theorems for every value of the constants. Paths below are relative to the repository,
and `AJ`, `ST` stand for `src/internal/apiserver/biz/v1/ai_job/ai_job.go` and `src/internal/apiserver/store/`.

    tlc -workers 2 -config MCAIJobLease_leases.cfg MCAIJobLease      # one run
    tlapm NoticeDeliveryProofs.tla                                   # the proofs of one module

`PROJECT.json` maps every definition to its source lines and lists runs, mutants, hazards, findings and theorems.

## 1. Inventory

The control plane is several processes of one Go server over MySQL (and, optionally, redis for wake-ups, streams and
limits). Nothing of importance lives in memory: the components interact through rows. The difficulty is therefore
what two requests do to each other through rows that one of them read earlier.

| Component | State | Operations | What is hard | What makes it correct |
|---|---|---|---|---|
| **AI job queue and leases** (`AJ`, `ST/ai_job.go`, `ST/ai_job_queue_signal.go`, `ST/ai_tool_call.go`) | rows of `ai_jobs`, `ai_tool_calls`, `ai_job_queue_signal`; `rca_status` and `diagnosis_json` of `incidents` | Run, Start, Renew, Cancel, Finalize, CreateToolCall, List (which reclaims expired leases) | requests of several workers interleave; leases expire under their holders; whole rows are saved from a snapshot; two transactions per reclaim | a lease is whole, counted and never stolen; an ended job stays ended; one job per idempotency key; the incident shows its job and keeps its diagnosis; work is announced |
| **Session of a job** (`biz/v1/ai_job/session_runtime.go`) | `session_id` of the job row | best-effort attach in Run and Finalize, backfill by reads | a read that saves a whole row | a read revives no job |
| **Session context store** (`biz/v1/session/session.go`) | `session_contexts` | create, reviews, assignments, SLA automation, context patches, active run | read-modify-write of one row by all of them, without transactions | an escalation is justified, an assigned session has a due time, updates are lost to overlap only |
| **Long poll and wake-ups** (`pkg/queue/`) | version watermark, local and pub/sub wake-ups | list, wait, notify, poll fallback, protection of a failing database | a wake-up between the check and the wait; a query shared by all waiters of a server; lost announcements | a poller sees a change in time; one query at a time; a queued job is taken |
| **Orchestrator worker** (`src/tools/ai-orchestrator`) | held job, heartbeat thread, lost-lease event | claim, heartbeat, tool calls, finalize with retries and fallback | the lease is lost while the graph runs; an answer is lost and the request repeated | a prompt worker is not reclaimed from; work without the lease is bounded; a success believed in is real |
| **Notice delivery** (`pkg/notice/worker.go`, `pkg/notice/dispatch.go`, `ST/notice_delivery.go`, `biz/v1/notice/notice.go`) | rows of `notice_deliveries`, worker processes, redis stream | dispatch, claim, send, mark, replay, cancel | a slow worker is taken over; an answer that is lost; a crash between the answer and the mark; replay and cancel racing marks | a row is whole; a settled row stays settled; each delivery ends; nothing is accepted twice without one of these causes |
| **Notice rate limits** (`pkg/notice/redis_limiter.go`) | counters per second, counters of running sends, with expiries | acquire, release | a counter that expires while it matters; lost calls, repeated by the client; crashes with a permit; fail-open fallback | a second gives out its quota, a channel runs as many sends as it may |
| **Alert ingest and incident merge** (`biz/v1/alert_event`, `pkg/alerting/ingest`) | `alert_events`, `incidents` | ingest, merge, resolve, acknowledge | two alerts of one fingerprint at once; whole-row saves against operators and Finalize | one open incident per fingerprint; a firing alert reaches it; a key counts once |
| **Incidents** (`biz/v1/incident`) | `incidents` | create, update, close | the operator's whole-row save races Finalize and merges | a diagnosis is lost, an incident reopened, to overlap only |
| **Alert policies and triggers** (`pkg/alerting/policy`, `biz/v1/trigger`) | none of their own | evaluate, submit a Run | repeated triggers | one run per trigger |
| **Read caches** (`pkg/cachex`) | cached responses | fill, invalidate | a fill races an invalidation | bounded staleness |
| silences; evidence, knowledge base, playbooks; strategy, toolset and registry configuration; MCP endpoint; authentication; read models; LangGraph nodes | single rows, or none | CRUD, lookups, formatting | no protocol | outside this project |

Interaction: alert ingest and triggers call **Run**; workers long-poll List, **Start** a job, **Renew** its lease,
record tool calls and **Finalize**; Finalize writes the diagnosis to the incident and **dispatches** notices; notice
workers claim and send them; operators replay and cancel deliveries, cancel jobs and edit incidents and sessions.

## 2. Plan

| Module | What | Composes | Status |
|---|---|---|---|
| `AIJobLease` | the job API as transactions over rows | refines `JobQueue` | modelled, checked, proved |
| `JobQueue` | what the queue promises, without rows or transactions | | done |
| `AIJobSession` | jobs created without a session | extends `AIJobLease` | modelled, checked, proved |
| `NoticeDelivery` | the outbox, its workers and operators | refines `Outbox` | modelled, checked, safety proved |
| `Outbox` | what the outbox promises, without batches, clocks or crashes | | done |
| `SessionContext` | everyone who rewrites the row of a session | | modelled, checked, safety proved |
| `AlertIngest` | alerts, and everyone who writes an incident | the commits of the job API on an incident | modelled, checked, safety proved |
| `AIJobWorker` | the daemon, its heartbeat thread and its lost-lease guard | the commits of `AIJobLease` on one job | modelled, checked, safety proved |
| `LongPoll` | watermark, notices and poll fallback of one server | the signal of `AIJobLease` | modelled, checked, safety proved |
| `NoticeLimiter` | limits shared in redis, with fail-open fallback | the sends of `NoticeDelivery` | modelled, checked, proved |
| `NoticeStream` | stream messages, acknowledgements, idle reclaim; the payload rewritten after its announcement | over `NoticeDelivery` | open |
| `ReadCache` | cache fill against invalidation | | open |
| `AIJobRuntime` | notices after the commit of Run and Finalize | over `AIJobLease` | open; the session's active run is in `SessionContext` |
| policies, triggers, silences; pub/sub hysteresis | pure decisions, now free choices of the models | | open |

Abstract specifications: `JobQueue` for the job API and `Outbox` for notices, each shown to be implemented, by a run and
by a theorem.

## 3. The models

### AIJobLease and JobQueue

State: `job`, `incident`, `calls` and `signal` are the tables, `now` is the servers' clock, and `tx[c]` is the request
in flight in slot `c` with what it has read.

A handler runs in `store.TX`. MySQL, in its default REPEATABLE READ, fixes the snapshot of the plain SELECTs of a
transaction at the first of them, while an `UPDATE ... WHERE` matches the latest committed row and locks it to the
end. A request is therefore two steps:

* `RunBegin`, `StartBegin`, `RenewBegin`, `CancelBegin`, `FinalizeBegin`, `CallBegin` make the reads and the checks on
  them, and remember what is used afterwards: the incident row, the status seen, the time;
* `RunCommit`, `StartClaims`/`StartRenews`, `RenewCommit`, `CancelCommit`, `FinalizeCommit`,
  `CallClaims`/`CallRenews` apply the conditional updates of the store (`ClaimQueued`, `RenewLease`,
  `UpdateStatusWithLeaseOwner`, named as in `ST/ai_job.go`) to the current rows and save whole incident rows from the
  snapshot (`SaveRCA`: `Incident().Update` writes every column that was read). They commit as one step because an
  update keeps its row lock until the commit;
* `Abort` is every error return, rollback, lost connection or crash before the commit;
* `ListReclaims` and `ListBumps` are the two transactions of a List of queued jobs: expired leases are requeued, at most
  `ReclaimScan` of them in the order of expiry, and then the signal is bumped, or never, if the server dies between.

Any client may send any request for any job under any instance id, so nothing depends on a well-behaved orchestrator.
Left out because they decide nothing here: traces, evidence, text columns, `heartbeat_at` and `started_at`, and what a
handler does after its transaction (the session's active run, notices, metrics, cache invalidation).

`JobQueue` says what all this is for: a job is put once, taken by one worker, given back when its worker is given up,
and finished once. `ImplementsQueue` maps `phase` to the status column and `holder` to `lease_owner`.

### AIJobSession

Creating a session is best effort, so a row may have no `session_id`. A read of the job's session context
(`loadJobSessionContext`) and a Run answered from its idempotency key fill it in with `AIJob().Update`, which saves
every column of the row as it was read. `BackfillBegin`, `BackfillSave` and `BackfillSkip` are that read, save and
failure; `Attach` is the best effort of Run and Finalize. All else is `AIJobLease`, with tool calls (`Seqs`) and an idempotency key.

### NoticeDelivery

State: `row` is the table, `worker[w]` is a process with its claimed batch (`todo`), the row it works on, the attempts it
read and the answer it has to write; `request[o]` is an operator's replay or cancel after its read; `faults` bounds
crashes and failed calls. Two variables are not in the code: `accepted` counts the requests that the endpoint has
processed, whether its answer arrived or not, and `doubtful` has the deliveries that were replayed, whose lock has run
out, or that were accepted with an answer that does not say so.

| Action | Code |
|---|---|
| `Dispatch` | `DispatchBestEffort`: a pending row, due at once |
| `Select`, `Claim` | `ClaimPending` (candidates in order of creation, then one conditional update each, one transaction) or `TryClaimByDeliveryID` for an id announced by the stream |
| `Check` | `GetClaimedPending`: skip a row that is not pending and one's own any more |
| `CannotSend` | `resolveSendConfig` fails, `failWithoutSend` |
| `Send` | rate limiter and webhook; the worker sees 2xx, a retryable outcome (429, 5xx, a timeout or another error) or anything else, and the endpoint may have processed the request (`taken`) whatever the worker sees |
| `Mark`, `Outcome` | `MarkSucceeded`, `MarkRetry` with `computeRetryDelay`, `MarkFailed`, each conditional on pending and `locked_by` |
| `Abandon`, `Crash` | a read, the limiter or a mark fails; the process dies or its claim fails |
| `OperateBegin`, `OperateCommit`, `OperateAbort` | `operateDelivery`: a read without a lock, then an update by id |
| `Tick` | time; `due` and `age` are relative to the clock, so that time needs no bound |

Times are kept up to the point where they decide nothing (`age` to `Expired`, `due` down to `-MaxLag`). `MaxLag` bounds
the ticks between reading the clock and writing with it, `MaxSend` the ticks spent on one delivery; both are bounds of
the model that each run chooses on one side or the other of what `LockTimeout` tolerates.
`Outbox` says what this is for: a delivery is put there once; who owns it ends an attempt, with `succeeded` only if the
endpoint accepted it and with `pending` only if an attempt is left; and what is settled moves only by a request of an
operator who found it unsettled. `ImplementsOutbox` maps its state to the columns `status`, `attempts` and `locked_by`,
the deliveries that were accepted and those that requests are about. Batches, expired claims, sends by workers that were given
up, failed calls and crashes are then steps of `Outbox` (`Take`, `Accept`) or none at all.
The stream is abstracted to announcements of any dispatched id, at any time and any number of times, which covers
duplicates, delays and redelivery; losses are covered by the selection from the table. Acknowledgements change no row.
The rewrite of the payload after its announcement and `MarkX` calls whose answer is lost after they took effect are left
out (the latter look to the row like a worker that goes on).

### SessionContext

One row of `session_contexts`, and `req[c]`, the request in slot `c` with its operation and the row it read. No request
has a transaction: `Read` and `Save` are the read and the whole-row save of all of them, told apart by what they give
(`gives`) and compute; several do this twice (`Then`), or decide on a row that was listed what they write over a second
one (`BatchBegin`). `Handle(c)` begins a request: `Resolve` with `Create`, `JobRuns`, `JobReplayed`, `JobEnds` (the active
run of a session, set after the commit of Run, for a new job or for the one that its idempotency key names, and cleared
after that of Finalize; `JobCanceled` touches no session), `PatchBegin`, `ReviewBegin`, `AssignBegin` followed by
`Record` in `session_assignments`, `TouchBegin` (the SLA automation when a session is read) and `BatchBegin` (its batch).
`Fail` is an error or crash between two of these steps. The three objects of the operators in `context_state_json` are
columns of the model, the other keys are `notes`; `clean` and `replayed` are history for one property. Of the SLA the due time, the state
and the reason are kept, of the rest only what a request changes.

### AlertIngest

`inc`, `card` and `hist` are the tables `incidents`, `alert_events` (current rows) and the idempotency keys of its
history rows; `tx[c]` is a request with what it has read. `IngestBegin` reads the key, the current alert and the active
incident in one snapshot; `IngestCommit` creates or merges (`Creates`, `Merges`, `ReadsBack` after a duplicate key),
resolves, writes the current alert and the history row, against the committed rows and their unique indexes.
`UpdateBegin`/`UpdateCommit` is an operator's update of an incident (a read and a save, no transaction), `Create` an
incident made by the API, `JobBegin`/`JobCommit` any save of an incident by the job API, `AckBegin`/`AckCommit` an
acknowledgement. Whether policies, a silence, a duplicate or a burst keep an alert from its incident is the free choice
`drop`; the timeline, the notice and the trigger after the commit change none of these rows.

### AIJobWorker

One job and the orchestrators on it. `main[w]` is the thread that runs the graph (list, start, node, report, audit, end),
`beat[w]` the heartbeat thread, `lost[w]` its `lease_lost_event`, `late` the requests whose sender is gone. A request is
sent, commits at the server (`Served`, `BeatServed`, over `Accepts` and `Handled`) with the time that the handler read
before (`lag`; `AIJobLease` has the handlers as transactions), and its answer arrives (`Answered`, `BeatAnswered`): these
are three steps, and whatever other requests do may come between them. `alone` and `slow` are history for the properties.
`Goes` is what a worker does with an answer or with the last attempt that had none: in the code
as it is, a refused start counts as a claim, any heartbeat error as the loss of the lease, a finalize that times out is
followed by a read of the job, one that is refused by a finalize as failed. `Unanswered` and `BeatUnanswered` give up
an attempt, before or after its commit, `Retried` and `BeatRetried` send the next one within `RetryDelay`, as
`RetryPolicy` does (`retry.py:52`); `Late` handles a request whose sender has given up, at any later time (of at
most `MaxLate` that are under way; the others never arrive). Ages, timers and tries
are relative, so time is unbounded. The observations, the evidence, the session reads and the longer timeout of a
finalize are left out, a tool call is the claim or renewal that it makes.

### LongPoll

The list requests of the workers at one server: `waiter[w]` is a request in `AdaptiveWaiter.Wait` (its base version, its
deadline, ticker and wait channel), `cache` the `WatermarkCache` with its query in flight, `samples` the window of
`dbErrorRate`, `job`, `version` and `unbumped` the database. `List`, `Enter`, `Get`, `ReadOK`, `ReadFails`, `Wake` and
`Poll` are the steps of a request, `Leave` a client that goes away, `Submit`, `Reclaim` and `Bump` the commits of
`AIJobLease` that queue a job and bump the signal, `Notify` an announcement, which may come at any time or never.
`pubsub_health.go` decides with a hysteresis whether a waiter polls; that it may do so or not is a free choice here.

### NoticeLimiter

`global`, `channel` and `conc` are the counters in redis with their expiries, the first two per second of the clock and
kept by how long ago that second was; `worker[w]` asks, waits, sends (with a permit of redis or of its own process) or
releases. Each script is one step (`Grant`, `DenyGlobal`, `DenyChannel`, `DenyConc`, `Release`). An answer may be lost:
the script may run and be sent again (`AskAgain`, `ReleaseRepeats`; the redis client retries by default), run or not and
count as an error (`Unreached`, `ReleaseFails`), and a process may die with its permit (`Crash`). `granted`, `grantedTo`
and `repeated` are history for the properties. The token bucket of the fallback is left out: it lets a send through.

## 4. Runs

Every property of a passing run has a mutant in `PROJECT.json`: a plausible bug (an operator named `Faulty...`) under
which the same run fails. The runs take from seconds to between three and four minutes (`leases`) with two workers.

| Run | Question | Size |
|---|---|---|
| `leases` | is a lease whole and never stolen, its return announced, an ended job final; does the incident follow its job and keep its diagnosis; is every step one of `JobQueue`? | two jobs in turn, two instances, two requests at a time |
| `two_active_jobs` | can an incident have two active jobs? **yes**, finding 2 | two submitters |
| `session_backfill` | what can a late save of a row revive? only a job read, without its session, before it ended; are calls recorded only by the holder? | one job, two instances, a key |
| `revived_job` | can an ended job run again? **yes**, finding 1 | one job |
| `workers` | is a lease lost to the expiry only by a fault or a slow request; does work without the lease end; is a success believed in real? | two workers, one fault |
| `unclaimed_work` | does a worker whose start was refused leave the job alone? **no**, finding 3 | two workers, no fault |
| `long_poll` | one query at a time, changes seen in time, protection sticky; is a queued job taken? (liveness) | two workers, one job |
| `session_context` | what do requests on one session do to each other's updates, and to escalations; which job does it show? | two requests at a time, two jobs |
| `alert_merge` | one open incident per fingerprint, no alert astray, a key counts once; who undoes whom? | two requests at a time |
| `outbox` | is an attempt always left, success real, a lock never stolen, a settled row final, a delivery accepted once unless it is in doubt; is every step one of `Outbox`? | one delivery, two slow workers, one fault, two operators, announced ids |
| `delivery_end` | does every delivery end? (liveness) | two deliveries in batches, two workers, one fault |
| `rate_limits` | do the counters in redis bound the sends of a channel and of a second? | three workers, two channels, two faults |

**Job runs.** In `leases` `LeaseTTL` is 0: a lease is over with the next tick, so two ticks let a job be reclaimed and
given away twice under requests that began before; `session_backfill` has `LeaseTTL` 1 and three ticks, where a lease
is also renewed in time. `MaxVersion` bounds renewals only: a claim or a reclaim is never held up by it. Two request
slots are what every property speaks about: a late request and the one that overtook it. `OneIncident` gives all jobs
to one incident: jobs of different incidents share nothing but the signal. The clock is what stops, so these runs do
not check for deadlock; nor does `session_context`, whose clock and requests are bounded: four requests, of which two
overlap at any time, suffice for the longest interplay its properties speak about (an assignment, a batch that listed the
row before, a second assignment). `alert_merge` has ids for two incidents on one fingerprint and one current
alert, and one idempotency key; its second slot also takes the requests of operators and of the job API.

**Worker run.** `LeaseTTL` 4 = `Heartbeat` + 3 × `MaxWait`, so that the slowest request still counts as prompt and
`PromptWorkerKeepsLease` speaks of every behaviour without a fault; the factor is needed: with 2 in place of 3 and a TTL
of 3 the property fails, by a renewal whose answer takes one `MaxWait`, a tool call in the meantime that commits a time
read one `MaxWait` before, and a next renewal that takes another one. `LossDelay` = `MaxWait` + `Heartbeat` +
`MaxAttempts` × `MaxWait` + (`MaxAttempts` - 1) × `RetryDelay` in `SplitBrainIsBounded` is reached, too: the property fails
with one tick less. One fault is one request some of whose attempts get no answer, or one crash.
`MaxLate` 1 keeps one request whose sender is gone under way at a time, whichever it is; the theorems hold for any number.

With the defaults of the code (30 s for the lease, 10 s between heartbeats) three requests outlast what a heartbeat leaves
of the lease if each takes more than 6.6 s; the client waits 10 s. A worker all of whose requests are answered can
therefore lose its lease, and the property says from which duration on.

**Long-poll run.** `WaitTicks` 7 is longer than the slowest path a change takes to a poller (a stale query in flight,
its value cached for `CacheTTL` 2, a stretched interval, a query of its own), so that the bound `PollDelay` of
`PollersSeeInTime` is reached; it fails with one tick less. `Window` and `MinSamples` 2 let the error rate trip and
recover. A job is queued, taken and queued again (`MaxVersion` 2).

**Notice runs.** Time is unbounded, and deadlock is checked. `MaxAttempts` 3 with `CapBackoff` 2 gives two retries, the
second with the capped delay. In both runs a worker may take longer than `LockTimeout` (in `outbox` for one delivery:
`MaxSend` 2 with `LockTimeout` 1, as the wait for the rate limiter may by itself, `worker.go:401`; in `delivery_end` for a
batch of two), so that it is taken over at every point of its work; with one fault it may also vanish there. Any answer
may be lost, without counting as a fault.

**Limiter run.** Two permits per channel and three workers make a channel full; a quota of three for two channels of
two makes either counter the scarce one. The counters outlive what they count by exactly one tick (`WindowTTL` 2 with
`MaxLag` 1, `ConcurrencyTTL` 3 with `MaxSend` 2); with a tick less either property fails, and without `+ repeated` so
does `SendsBounded` (section 5).

Symmetry is used on jobs, instances, keys, slots, workers, operators and channels, never in a run with liveness.

**Fairness.** `LiveSpec` of `NoticeDelivery`: `Tick`, because time passes, and `Work(w)` for each worker, because `Run`
loops on a ticker, an error ends one delivery and not the loop, and each call has a timeout. `LiveSpec` of `LongPoll`:
`Tick` and `Request(w)`, because the daemon lists again for ever (`runner.py:1021`) and goroutines run. Crashes, failed
calls, announcements, bumps of the signal and operators are under no fairness: no step of theirs is ever required.
`AIJobWorker` states none, because the liveness one would want of it does not hold (section 5).

## 5. Findings

1. **An ended job runs again** (`revived_job`). `session_runtime.go:173` (and `ai_job.go:200`) saves a row that was read
   before Finalize or Cancel committed. `docs/devel/zh-CN/03-control-plane-vs-execution-plane.md:280` says that a
   terminal status cannot change. `session_backfill` shows the exact extent.
2. **Two active jobs** (`two_active_jobs`). Run checks for an active job and inserts without a lock or index that would
   keep two requests apart; `ErrAIJobAlreadyRunning` (`src/internal/pkg/errno/ai_job.go:27`) promises the refusal.
3. **A refused claim works** (`unclaimed_work`). `sdk/runtime_client.py:79` turns the 409 of a refused start into an
   empty answer, `lease_manager.py:41` takes every answer but `None` for a claim, and the worker runs the graph until
   its heartbeat is refused; `runner.py:759` is written for a start that returns false, and logs `claim failed (already
   claimed by another instance)`. `SplitBrainIsBounded` says how long this can last.

What the models also show, without a run of its own because no property of the code's documents is contradicted, or
because a property above already states the exact extent:

* A slow worker and the one that took its row over both send a delivery (docs 06 `:1046`, `:1902` speak of an
  idempotency key; the code sends it and looks at it nowhere). `AcceptedOnceUnlessDoubtful` says when
  it can: after a replay, after a lock has run out, or after the endpoint accepted with an answer that was lost.
* A replay that read a delivery before it was canceled revives it: `SettledUnreadIsFinal` is about everyone else.
* Cancel leaves the session alone, so that its active run is a canceled job until the next Run; a Run answered from its
  idempotency key makes its job the active run again, ended or not, and whichever is running (`ai_job.go:303`).
  `CleanIsConsistent` has both as the only ways to this without overlap or failure.
* The revision check of a session patch and its save are two steps; `LostOnlyByOverlap` is what remains true.
* Between an empty list and the wait a job can be queued without the waiter being told; `EventuallyTaken` holds because
  every wait ends and lists again. Once the error window has tripped and nobody polls, nobody ever does
  (`ProtectionIsSticky`): no query, no sample, no recovery.
* An incident made by the API has no active key, so an alert with its fingerprint opens a second one.
* A refused start's worker claims the job by its first tool call when the lease of the other has expired: two workers
  can pass one job back and forth, so that it never ends.
* A release of a permit that the redis client repeats (its default is three retries, `redisx/client.go:20` leaves it)
  gives back the permit of another send: `Per-channel max in-flight sends`
  (`cmd/rca-apiserver/app/options/options.go:210`) is exceeded by as many. A permit of a process that died is never
  given back while the channel is in constant demand, because every attempt extends the life of its counter.

## 6. Theorems

Assumptions are those declared in the modules: `IncidentOf` maps jobs to incidents, submitters are slots, `None` is not
one of the values it stands for the absence of, and the bounds are natural numbers, those that the code divides by,
counts down from or takes a slice of not zero. Sets are assumed finite only where a cardinality is spoken of
(the workers of `NoticeLimiter`). Two relations between times are assumed, that sessions escalate after they are due
(`SessionAssumption`, constants of the code) and `TimelyAssumption` below. No theorem has hypotheses of its own.

**`AIJobLeaseProofs`.** `TypeCorrect` goes action by action. `JobStep` then reduces every step of the API to what it
does to the table of jobs: create, claim, renew, end, requeue, or nothing. What concerns that table alone is proved
over these five changes:
`LeasesWhole` (inductive with `TypeOK`: `LeaseInv`), `KeysUnique` (`KeyInv`), `EndedForGood`, `TermsCounted`.
`NoLeaseStolen`, `CallsByHolder` and `WorkSignalled` relate a row to the request that changes it, so they are proved
over the actions. `QueueImplemented` maps each of the five changes to a step of `JobQueue` or a stutter; it needs
`LeaseInv`, because `UpdateStatusWithLeaseOwner` asks for the owner and a cancel also accepts queued rows: that only
a running job can be ended follows from no queued row having an owner.

The second half of the module is about the incident rows. A request saves the incident row it remembers, so an
invariant on the table must also speak about remembered rows. `DiagnosisInv` says that every diagnosis, in the table or
remembered by a request in flight, is of a succeeded job of that incident; it is inductive because a success is final
and yields `DiagnosisEarned` for any number of concurrent requests. Three more theorems say what only an overlap of two
Runs of one incident can break (`RunsOverlap`; finding 2 shows that it does): `SecondJobNeedsOverlap`,
`WrongStatusNeedsOverlap` and `LostDiagnosisNeedsOverlap` have the form `Spec => P \/ <>RunsOverlap`, which is the same as
"not before an overlap", because every prefix of a behaviour of `Spec` is a behaviour of it. Their invariant `SerialInv`
adds that a Run in flight has found no active job and none has appeared since, and that the diagnosis a request
remembers is the current one as long as the request can still commit, that is, as long as its job is active: what
writes a diagnosis ends the job it is for, and no other job of the incident is active.

**`AIJobSessionProofs`.** Every step but the saves of whole old rows is a step of `AIJobLease`, so `JobStep` and its
companions are used again. A save brings back a row that its job once had; `SessionInv` therefore says of each row that
waits to be saved what is true of rows in the table: its shape, a whole lease or none, the key it was inserted with.
So `SessionLeasesWhole` and `SessionKeysUnique` hold although a save may give back a lease that was lost, and
`SessionCallsByHolder` although it may be a revived one. `EndedStaysEnded` is the exact extent of finding 1: an ended job
with no pending save of its row stays as it is.

**`NoticeDeliveryProofs`.** `NoticeInv` adds to the invariants what each worker knows (`WorkerOK`): as long as the row
is pending and its own, the attempts it read are those of the row, and an answer it holds was given. That is what makes
`AttemptsLeft` inductive: a retry is decided on the attempts read before the send, but written only if the row is still
held, and whoever changes the attempts (a mark, a replay) also takes the lock away, while a takeover changes the
holder. `SuccessIsReal`, `LocksArePending` and `TypeCorrect` (attempts never exceed `max_attempts`) follow;
`LocksAreNotStolen` and `SettledStaysSettled` are action properties proved from the invariant.

`OnlyDoubtfulAreAcceptedTwice` holds for all values of the times, the batches and the operators. `OnceInv` says of a
delivery that is not in doubt (`Once`) that its lock has not run out, that one worker at most has it in hand, and that a
pending row is locked by that worker; a worker does its batch in order (`InOrder`), so that what it has sent is no longer
in its hand. An acceptance without doubt is one that its worker has heard of: the row is done, or stays locked until the
worker has marked it; if it never does, the lock runs out and the delivery is in doubt.

`OutboxImplemented` takes `NoticeInv` and `Listed` (what a worker lists, holds or sends was dispatched) and has a lemma for
each kind of step: dispatch, claim, send, mark, the requests of operators, and those that nobody sees. A late mark is
unseen because its update is conditional on the holder; that the mark of the holder tells the truth is `WorkerOK`.

**`SessionContextProofs`.** Any row that is saved was read, so `IInv` says of the current row and of every row that a
request holds that it is `Sound` (an escalation is justified by the due time next to it, an assigned row has one) and
`Fits` the table. A batch writes what it decided on one row over another one, and is sound only because what it
decides brings its own due time along. `EscalationsAreJustified` and `AssignedSessionsHaveDeadlines` follow.
`LossNeedsOverlap` uses `AloneIsLatest`: a request that nobody overlapped holds the latest row.
`OnlyOverlapOrFailureMisleads` is about a session in which no request has overlapped another or failed halfway so far.
It shows the wrong run, assignee or escalation for moments even then, because the run is set after the commit of Run, the
assignee is copied in a second step and an escalation is cleared by a second request. What it is to show is `Shown`: the
job a Run was just answered with, else the active job, else none but a canceled one. So `CleanInv` says that whatever is
wrong is about to be put right by a request in flight, and of the requests about the run, that the last one to save
brings what is to be shown; with nobody in flight, nothing is wrong. That two jobs are active ends the clean history,
because it takes two Runs that overlap (`SecondJobNeedsOverlap`). It rests on `Latest`, extended by the second
table's assignee and by what a batch has read of a review.

**`AlertIngestProofs`.** `IngestInv` has the shape of the rows (`RowOK`: an active key names the fingerprint of an open
incident made by an alert), what each request knows of what it read (`ReadsOK`), and the unique index (`KeysUnique`).
`OneIncidentPerFingerprint` follows from the index and the key that `RowOK` ties to the status, although operators save
whole rows. `FiringAlertsArrive` and `KeysWorkOnce` are about the commit of one ingest; `IncidentStep` reduces the other
commits to what they do to an incident. `OnlyStaleSavesUndo` is proved commit by commit: an incident that is closed or
diagnosed, or an alert that is resolved, is undone only by a save of a row that was read before, or by the operator who
opens it. It needs `CardInv` (the current alert an ingest has read is a firing one) and `AbsentOK`.

**`NoticeLimiterProofs`.** `LimitInv`: while a counter of a second exists it is the number of permits it gave, and its
time to live and its age make up for the life it was given, so that no request in time can name it once it is gone
(`AsksInTime`, `QuotaIsExact`). For a channel (`ConcInv`) the counter, with the releases that were repeated, is at least
the number of senders, and outlives the longest of their sends (`Outlives`; `SendsAreBounded`). `TimelyAssumption`
(`MaxLag < WindowTTL`, `MaxSend < ConcurrencyTTL`) is what the run shows to be needed.

**`AIJobWorkerProofs`.** `ThreadsOK` ties the two threads of a worker together: who works has a heartbeat or knows that
the lease is lost. `SplitBrainEnds` is by `AloneInv`: the time a worker has worked without the lease is at most what its
heartbeat has waited since (`Waited`: for an answer that was decided before, asleep, in attempt after attempt and between
them), which ends at `LossDelay` with a heartbeat that fails; the next guard stops the graph.
`PromptWorkersKeepTheirLease` assumes no relation of the times: whether they suffice is in the history `slow`. `PromptInv`
says of every behaviour without a fault or a slow request that each attempt is a first one (`FirstTry`) and that the
holder, claiming or at work (`AtWork`), has a lease young enough for what is to come before the next renewal commits
(`Young`): the rest of the answer under way, of the sleep, and one request, where every commit writes a time at most as
old as a request that is not slow. A late request can only be a renewal, since a worker that gives nothing up leaves no
other.
`SuccessesAreReal`: a job that has succeeded cannot change, and every path to
the belief has seen it.

**`LongPollProofs`.** `Shape` (types, the queue's signal, the cache and what each request knows) is inductive.
`QueriesAreSingle` and `ProtectionStays` follow step by step. `PollersSeeChanges` is by `LateInv`, which bounds how long
a poller's watermark has been out of date by where the news is: behind a query that read the old value, behind a cached
old value of some age, behind the poller's own ticker, or in a query that reads the new one. These come one after the
other, and `Slack` = `MaxRead` + `CacheTTL` + `interval` - 1 is the time up to the last of them.

Theorems without a run: `KeysUnique`, `SessionKeysUnique`, `TermsCounted`, `LocksArePending`, `SessionTypeCorrect` and the
`TypeCorrect` of `AIJobWorkerProofs`. Only model-checked: `EventuallyDone` and `EventuallyTaken`. Liveness under fairness
and `ENABLED` are outside what the prover does; no theorem is about them.

## 7. What is not modelled, and what the results rest on

* The isolation level: the connection sets none, so MySQL's default holds; under READ COMMITTED the reads of a
  transaction would not be one snapshot, and the incident theorems would have to be redone.
* Clocks: all servers and workers share one clock. A skew between workers adds to `MaxLag` of the limiter, one between
  servers to `MaxWait` of the workers.
* Jobs: traces, evidence and text columns; the notices and the session's active run after a commit are in
  `NoticeDelivery` and `SessionContext`, as requests that come at any time.
* Workers: one job at a time; tool-call rows (a new holder numbers them from 1 again), observations and session reads;
  the longer timeout of a finalize.
* Sessions: access control, the history rows, `updated_at` (of a second's precision, so that it tells no two requests
  apart), a patch that merges to nothing and is not written.
* Alerts: silences, duplicates, bursts and policies are free choices; acknowledgement columns, the timeline. Incidents:
  Delete, after which a save of a row read before inserts it again.
* Long poll: the hysteresis and reconnects of the redis subscription (good or bad at any time).
* Notices: stream messages and their acknowledgements (an announcement may come at any time), the payload rewritten with
  its id after its announcement. Limits: the token bucket of one process; its sends are not counted by `SendsBounded`.
* Components with status `not_modelled` in `PROJECT.json`, each with its reason.

The map covers a small share of the repository's lines. Most of the rest is generated protobuf code, CRUD over single
rows, the read models of the workbench, and the translation of tool calls: code without a protocol between two steps.
