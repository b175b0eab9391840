----------------------------- MODULE AIJobLease -----------------------------
(***************************************************************************)
(* The control plane's AI job queue: the rows of the tables ai_jobs,       *)
(* incidents, ai_tool_calls and ai_job_queue_signal, and the transactions  *)
(* that the handlers of the job API run on them                            *)
(* (internal/apiserver/biz/v1/ai_job/ai_job.go over                        *)
(* internal/apiserver/store/ai_job.go).                                    *)
(*                                                                         *)
(* A handler runs b.store.TX: it first reads rows, and MySQL fixes the     *)
(* snapshot that every plain SELECT of the transaction sees at that first  *)
(* read; later it writes.  An UPDATE ... WHERE matches the latest committed*)
(* row and holds its lock to the end; a Save writes back every column of   *)
(* the row as it was read.  A request is therefore two steps: XxxBegin,    *)
(* which reads and remembers what the handler uses afterwards, and the     *)
(* commit, where the conditional updates are applied to the current rows   *)
(* and the saved rows come from the snapshot.  Abort is every error        *)
(* return, rollback, dropped connection or crash of the server.            *)
(*                                                                         *)
(* Any client may send any request for any job under any instance id: the  *)
(* properties below hold whatever the orchestrator does.                   *)
(***************************************************************************)
EXTENDS Integers, FiniteSets

CONSTANTS
  Jobs,        \* the job ids the store may still hand out
  Incidents,
  IncidentOf,  \* the incident a job id is created for
  Instances,   \* X-Orchestrator-Instance-ID values: the lease owners
  Keys,        \* idempotency keys
  Seqs,        \* tool call sequence numbers
  Clients,     \* concurrent API requests, one slot each
  Submitters,  \* the slots that may carry a Run request
  None,        \* SQL NULL of an owner, key or diagnosis
  LeaseTTL,    \* defaultAIJobLeaseTTL, in full ticks of the clock
  ReclaimScan, \* defaultAIJobReclaimScan
  MaxTime,     \* bound on the clock
  MaxVersion   \* bound on the number of renewals of a row

ASSUME IncidentOfAssumption == IncidentOf \in [Jobs -> Incidents]
ASSUME SlotAssumption == Submitters \subseteq Clients
ASSUME NoneAssumption == None \notin Jobs \cup Instances \cup Keys
ASSUME BoundAssumption ==
  /\ LeaseTTL \in Nat
  /\ ReclaimScan \in Nat \ {0}
  /\ MaxTime \in Nat
  /\ MaxVersion \in Nat

Active == {"queued", "running"}
Terminal == {"succeeded", "failed", "canceled"}
Status == {"absent"} \cup Active \cup Terminal

NoTime == 0   \* SQL NULL of a time column; the clock starts at 1

\* heartbeat_at and started_at are set and cleared with lease_expires_at and
\* decide nothing; the columns that only carry text are left out.
JobRow == [status: Status, owner: Instances \cup {None}, expires: Nat,
           version: Nat, key: Keys \cup {None}]

IncidentRow == [rca: {"pending", "running", "done", "failed"},
                diagnosis: Jobs \cup {None}]

AbsentJob == [status |-> "absent", owner |-> None, expires |-> NoTime,
              version |-> 0, key |-> None]

VARIABLES
  now,       \* the servers' clock
  job,       \* table ai_jobs
  incident,  \* rca_status and diagnosis_json of table incidents
  calls,     \* table ai_tool_calls
  signal,    \* the version in table ai_job_queue_signal
  tx         \* per slot, the transaction in flight and what it has read

vars == <<now, job, incident, calls, signal, tx>>

ToolCall == [job: Jobs, seq: Seqs, by: Instances]

Idle == [op |-> "idle"]
RunTx == [op: {"run"}, incident: Incidents, key: Keys \cup {None}, inc: IncidentRow]
StartTx == [op: {"start"}, job: Jobs, owner: Instances, at: Nat \ {0}, inc: IncidentRow]
RenewTx == [op: {"renew"}, job: Jobs, owner: Instances, at: Nat \ {0}]
EndTx == [op: {"cancel", "finalize"}, job: Jobs, owner: Instances,
          target: Terminal, saw: Active, inc: IncidentRow]
CallTx == [op: {"call"}, job: Jobs, owner: Instances, at: Nat \ {0}, inc: IncidentRow,
           saw: Active, seq: Seqs, known: BOOLEAN]
BumpTx == [op: {"bump"}]
Tx == {Idle} \cup RunTx \cup StartTx \cup RenewTx \cup EndTx \cup CallTx \cup BumpTx

-----------------------------------------------------------------------------

Init ==
  /\ now = 1
  /\ job = [j \in Jobs |-> AbsentJob]
  /\ incident = [i \in Incidents |-> [rca |-> "pending", diagnosis |-> None]]
  /\ calls = {}
  /\ signal = 1
  /\ tx = [c \in Clients |-> Idle]

Open(c, t) == tx[c] = Idle /\ tx' = [tx EXCEPT ![c] = t]
Close(c) == tx' = [tx EXCEPT ![c] = Idle]

IncidentRead(j) == incident[IncidentOf[j]]

ActiveJobs(i) == {j \in Jobs : IncidentOf[j] = i /\ job[j].status \in Active}

KeyUsed(k) == k # None /\ \E j \in Jobs : job[j].key = k

\* incident.RCAStatus = v; Incident().Update saves the whole row that was read.
SaveRCA(i, read, v) ==
  incident' = [incident EXCEPT ![i] = [read EXCEPT !.rca = v]]

Bump == signal' = signal + 1

-----------------------------------------------------------------------------
(* The conditional updates of the store.                                   *)

\* (The operators named Faulty... are the program with one fault each.  No
\* action uses them: they show that the properties below can fail.)

FaultyClaimAnyStatus(j, o, at) ==
  /\ job[j].status # "running"
  /\ job' = [job EXCEPT ![j].status = "running", ![j].owner = o,
                        ![j].expires = at + LeaseTTL, ![j].version = @ + 1]

ClaimQueued(j, o, at) ==
  /\ job[j].status = "queued"
  /\ job' = [job EXCEPT ![j].status = "running", ![j].owner = o,
                        ![j].expires = at + LeaseTTL, ![j].version = @ + 1]

FaultyRenewForAnyone(j, o, at) ==
  /\ job[j].status = "running"
  /\ job[j].version < MaxVersion
  /\ job' = [job EXCEPT ![j].expires = at + LeaseTTL, ![j].version = @ + 1]

\* The expiry of the lease is not looked at.
RenewLease(j, o, at) ==
  /\ job[j].status = "running" /\ job[j].owner = o
  /\ job[j].version < MaxVersion
  /\ job' = [job EXCEPT ![j].expires = at + LeaseTTL, ![j].version = @ + 1]

FaultyEndWithoutOwner(j, from, o, target) ==
  /\ job[j].status \in from
  /\ job' = [job EXCEPT ![j].status = target, ![j].owner = None,
                        ![j].expires = NoTime]

FaultyEndKeepsExpiry(j, from, o, target) ==
  /\ job[j].status \in from /\ job[j].owner = o
  /\ job' = [job EXCEPT ![j].status = target, ![j].owner = None]

UpdateStatusWithLeaseOwner(j, from, o, target) ==
  /\ job[j].status \in from /\ job[j].owner = o
  /\ job' = [job EXCEPT ![j].status = target, ![j].owner = None,
                        ![j].expires = NoTime]

Expired == {j \in Jobs : job[j].status = "running" /\ job[j].expires < now}

\* The first ReclaimScan expired rows in the order of lease_expires_at.
ReclaimBatch(S) ==
  /\ S \subseteq Expired
  /\ Cardinality(S) = ReclaimScan \/ (Cardinality(S) < ReclaimScan /\ S = Expired)
  /\ \A j \in S, k \in Expired \ S : job[j].expires <= job[k].expires

Requeued(S) ==
  [j \in Jobs |->
     IF j \in S
     THEN [job[j] EXCEPT !.status = "queued", !.owner = None,
                         !.expires = NoTime, !.version = @ + 1]
     ELSE job[j]]

-----------------------------------------------------------------------------
(* Run: submit a job for an incident.  A request that finds an active job  *)
(* is refused; one whose key is known answers with that job, and writes it *)
(* only if it has no session yet (AIJobSession).                           *)

FaultyRunWithoutActiveCheck(c, i, k) ==
  /\ c \in Submitters
  /\ ~KeyUsed(k)
  /\ Open(c, [op |-> "run", incident |-> i, key |-> k, inc |-> incident[i]])
  /\ UNCHANGED <<now, job, incident, calls, signal>>

RunBegin(c, i, k) ==
  /\ c \in Submitters
  /\ ~KeyUsed(k)
  /\ ActiveJobs(i) = {}
  /\ Open(c, [op |-> "run", incident |-> i, key |-> k, inc |-> incident[i]])
  /\ UNCHANGED <<now, job, incident, calls, signal>>

\* The unique index on idempotency_key refuses a second row with the key; the
\* read that follows is of the old snapshot and finds nothing: the request fails.
RunCommit(c) ==
  /\ tx[c].op = "run"
  /\ ~KeyUsed(tx[c].key)
  /\ \E j \in Jobs :
       /\ job[j].status = "absent" /\ IncidentOf[j] = tx[c].incident
       /\ job' = [job EXCEPT ![j].status = "queued", ![j].key = tx[c].key]
  /\ SaveRCA(tx[c].incident, tx[c].inc, "running")
  /\ Bump
  /\ Close(c)
  /\ UNCHANGED <<now, calls>>

-----------------------------------------------------------------------------
(* Start: claim a queued job, or renew the caller's own lease.             *)

StartBegin(c, j, o) ==
  /\ job[j].status \in Active
  /\ Open(c, [op |-> "start", job |-> j, owner |-> o, at |-> now,
              inc |-> IncidentRead(j)])
  /\ UNCHANGED <<now, job, incident, calls, signal>>

StartClaims(c) ==
  /\ tx[c].op = "start"
  /\ ClaimQueued(tx[c].job, tx[c].owner, tx[c].at)
  /\ SaveRCA(IncidentOf[tx[c].job], tx[c].inc, "running")
  /\ Bump
  /\ Close(c)
  /\ UNCHANGED <<now, calls>>

StartRenews(c) ==
  /\ tx[c].op = "start"
  /\ RenewLease(tx[c].job, tx[c].owner, tx[c].at)
  /\ Close(c)
  /\ UNCHANGED <<now, incident, calls, signal>>

(* Renew: the heartbeat.  It reads the clock, then runs one UPDATE.        *)

RenewBegin(c, j, o) ==
  /\ job[j].status # "absent"
  /\ Open(c, [op |-> "renew", job |-> j, owner |-> o, at |-> now])
  /\ UNCHANGED <<now, job, incident, calls, signal>>

RenewCommit(c) ==
  /\ tx[c].op = "renew"
  /\ RenewLease(tx[c].job, tx[c].owner, tx[c].at)
  /\ Close(c)
  /\ UNCHANGED <<now, incident, calls, signal>>

-----------------------------------------------------------------------------
(* Cancel and Finalize: end a job.                                         *)

EndFrom(target) == IF target = "canceled" THEN Active ELSE {"running"}

CancelBegin(c, j, o) ==
  /\ job[j].status \in Active
  /\ Open(c, [op |-> "cancel", job |-> j, owner |-> o, target |-> "canceled",
              saw |-> job[j].status, inc |-> IncidentRead(j)])
  /\ UNCHANGED <<now, job, incident, calls, signal>>

FaultyFinalizeWithoutTerminalCheck(c, j, o, target) ==
  /\ job[j].status # "absent"
  /\ Open(c, [op |-> "finalize", job |-> j, owner |-> o, target |-> target,
              saw |-> job[j].status, inc |-> IncidentRead(j)])
  /\ UNCHANGED <<now, job, incident, calls, signal>>

FinalizeBegin(c, j, o, target) ==
  /\ job[j].status \in Active
  /\ Open(c, [op |-> "finalize", job |-> j, owner |-> o, target |-> target,
              saw |-> job[j].status, inc |-> IncidentRead(j)])
  /\ UNCHANGED <<now, job, incident, calls, signal>>

FaultyEndIgnoresRows(c) ==
  LET t == tx[c] IN
  /\ \/ UpdateStatusWithLeaseOwner(t.job, EndFrom(t.target), t.owner, t.target)
     \/ job[t.job].owner # t.owner /\ UNCHANGED job
  /\ IF t.target = "succeeded"
     THEN SaveRCA(IncidentOf[t.job], [t.inc EXCEPT !.diagnosis = t.job], "done")
     ELSE SaveRCA(IncidentOf[t.job], t.inc, "failed")
  /\ Close(c)
  /\ UNCHANGED <<now, calls, signal>>

FaultyEndAlwaysDiagnoses(c) ==
  LET t == tx[c] IN
  /\ UpdateStatusWithLeaseOwner(t.job, EndFrom(t.target), t.owner, t.target)
  /\ SaveRCA(IncidentOf[t.job], [t.inc EXCEPT !.diagnosis = t.job], "done")
  /\ Close(c)
  /\ UNCHANGED <<now, calls, signal>>

\* The rows are selected by EndFrom(target) and by the owner; the signal is
\* bumped for a cancel of a job that the snapshot shows as queued.
EndCommit(c) ==
  LET t == tx[c] IN
  /\ UpdateStatusWithLeaseOwner(t.job, EndFrom(t.target), t.owner, t.target)
  /\ signal' = IF t.target = "canceled" /\ t.saw = "queued" THEN signal + 1 ELSE signal
  /\ IF t.target = "succeeded"
     THEN SaveRCA(IncidentOf[t.job], [t.inc EXCEPT !.diagnosis = t.job], "done")
     ELSE SaveRCA(IncidentOf[t.job], t.inc, "failed")
  /\ Close(c)
  /\ UNCHANGED <<now, calls>>

CancelCommit(c) == tx[c].op = "cancel" /\ EndCommit(c)

FinalizeCommit(c) == tx[c].op = "finalize" /\ EndCommit(c)

-----------------------------------------------------------------------------
(* CreateToolCall: record one tool call, claiming or renewing on the way.  *)

CallBegin(c, j, o, s) ==
  /\ job[j].status \in Active
  /\ Open(c, [op |-> "call", job |-> j, owner |-> o, at |-> now,
              inc |-> IncidentRead(j), saw |-> job[j].status, seq |-> s,
              known |-> \E x \in calls : x.job = j /\ x.seq = s])
  /\ UNCHANGED <<now, job, incident, calls, signal>>

\* A call known to the snapshot is returned; a new one meets the unique index
\* on (job_id, seq), and losing that race fails the request.
RecordCall(t) ==
  IF t.known
  THEN calls' = calls
  ELSE /\ \A x \in calls : ~(x.job = t.job /\ x.seq = t.seq)
       /\ calls' = calls \cup {[job |-> t.job, seq |-> t.seq, by |-> t.owner]}

CallClaims(c) ==
  /\ tx[c].op = "call" /\ tx[c].saw = "queued"
  /\ ClaimQueued(tx[c].job, tx[c].owner, tx[c].at)
  /\ SaveRCA(IncidentOf[tx[c].job], tx[c].inc, "running")
  /\ Bump
  /\ RecordCall(tx[c])
  /\ Close(c)
  /\ UNCHANGED now

CallRenews(c) ==
  /\ tx[c].op = "call" /\ tx[c].saw = "running"
  /\ RenewLease(tx[c].job, tx[c].owner, tx[c].at)
  /\ RecordCall(tx[c])
  /\ Close(c)
  /\ UNCHANGED <<now, incident, signal>>

-----------------------------------------------------------------------------
(* List of the queued jobs: expired leases are reclaimed first, in a       *)
(* transaction of its own, and the signal is bumped in a second one.  No   *)
(* other code requeues an expired job.                                     *)

FaultyListWithoutBump(c) ==
  /\ tx[c] = Idle
  /\ \E S \in SUBSET Jobs :
       /\ S # {} /\ ReclaimBatch(S)
       /\ job' = Requeued(S)
  /\ UNCHANGED <<now, incident, calls, signal, tx>>

ListReclaims(c) ==
  /\ \E S \in SUBSET Jobs :
       /\ S # {} /\ ReclaimBatch(S)
       /\ job' = Requeued(S)
  /\ Open(c, [op |-> "bump"])
  /\ UNCHANGED <<now, incident, calls, signal>>

ListBumps(c) ==
  /\ tx[c].op = "bump"
  /\ Bump
  /\ Close(c)
  /\ UNCHANGED <<now, job, incident, calls>>

Abort(c) ==
  /\ tx[c] # Idle
  /\ Close(c)
  /\ UNCHANGED <<now, job, incident, calls, signal>>

Tick ==
  /\ now < MaxTime
  /\ now' = now + 1
  /\ UNCHANGED <<job, incident, calls, signal, tx>>

-----------------------------------------------------------------------------

Begin(c) ==
  \/ \E i \in Incidents, k \in Keys \cup {None} : RunBegin(c, i, k)
  \/ \E j \in Jobs, o \in Instances :
       \/ StartBegin(c, j, o)
       \/ RenewBegin(c, j, o)
       \/ CancelBegin(c, j, o)
       \/ \E target \in Terminal : FinalizeBegin(c, j, o, target)
       \/ \E s \in Seqs : CallBegin(c, j, o, s)

Commit(c) ==
  \/ RunCommit(c)
  \/ StartClaims(c)
  \/ StartRenews(c)
  \/ RenewCommit(c)
  \/ CancelCommit(c)
  \/ FinalizeCommit(c)
  \/ CallClaims(c)
  \/ CallRenews(c)
  \/ ListBumps(c)

Next ==
  \/ Tick
  \/ \E c \in Clients : Begin(c) \/ Commit(c) \/ ListReclaims(c) \/ Abort(c)

Spec == Init /\ [][Next]_vars

-----------------------------------------------------------------------------
(* Invariants.                                                             *)

\* Every row and every transaction in flight has the shape the code gives it.
TypeOK ==
  /\ now \in Nat \ {0}
  /\ job \in [Jobs -> JobRow]
  /\ incident \in [Incidents -> IncidentRow]
  /\ calls \subseteq ToolCall
  /\ signal \in Nat
  /\ tx \in [Clients -> Tx]

\* A row holds a lease (owner and expiry) exactly while it is running: no claim,
\* reclaim or end leaves half a lease behind.
LeaseIffRunning ==
  \A j \in Jobs :
    /\ job[j].status = "running" <=> job[j].owner # None
    /\ job[j].status = "running" <=> job[j].expires # NoTime

\* However Run requests with one idempotency key interleave, one job carries it.
OneJobPerKey ==
  \A j, k \in Jobs : job[j].key = job[k].key /\ job[j].key # None => j = k

\* The diagnosis shown on an incident is that of a job of this incident which
\* succeeded, whatever stale incident rows other requests write back.
DiagnosisFromSuccess ==
  \A i \in Incidents :
    LET d == incident[i].diagnosis IN
    d # None => job[d].status = "succeeded" /\ IncidentOf[d] = i

\* An incident has at most one queued or running job, as the refusal
\* ErrAIJobAlreadyRunning of Run intends.
OneActiveJob ==
  \A j, k \in Jobs :
    (job[j].status \in Active /\ job[k].status \in Active
     /\ IncidentOf[j] = IncidentOf[k]) => j = k

\* While an incident has a job to run, its rca_status says so.
IncidentShowsActiveJob ==
  \A i \in Incidents : ActiveJobs(i) # {} => incident[i].rca = "running"

-----------------------------------------------------------------------------
(* Action properties.                                                      *)

\* A job that reached a terminal status never changes again: neither a late
\* claim, renewal, reclaim nor end of a request that read it earlier revives it.
TerminalIsFinal ==
  [][\A j \in Jobs : job[j].status \in Terminal => job'[j] = job[j]]_vars

\* How a lease may pass from its holder: a request of the holder ends the job,
\* or the reclaim requeues it after the expiry on the row.
OwnerLost(j) ==
  \/ /\ job'[j].status \in Terminal
     /\ \E c \in Clients : /\ tx[c].op \in {"cancel", "finalize"} /\ tx'[c] = Idle
                           /\ tx[c].job = j /\ tx[c].owner = job[j].owner
  \/ /\ job'[j].status = "queued"
     /\ job[j].expires < now

\* No other request takes a lease from its holder, however the claims, renewals
\* and ends of several instances interleave.
LeaseNotStolen ==
  [][\A j \in Jobs :
       (job[j].status = "running" /\ job'[j].owner # job[j].owner) => OwnerLost(j)]_vars

\* lease_version grows with every lease that begins, is extended or is reclaimed,
\* so that equal versions of a running row mean one and the same lease term.
VersionCountsTerms ==
  [][\A j \in Jobs :
       /\ job'[j].version >= job[j].version
       /\ (job'[j].owner # job[j].owner \/ job'[j].expires # job[j].expires)
          /\ job'[j].status \in Active => job'[j].version > job[j].version]_vars

\* A tool call is recorded only for the holder of a lease at that moment.
CallsOnlyByHolder ==
  [][\A x \in calls' \ calls :
       job'[x.job].status = "running" /\ job'[x.job].owner = x.by]_vars

\* No job becomes available to workers without a bump of the queue signal: with
\* the step, or as the next transaction of the request that made it available.
QueuedIsSignalled ==
  [][(\E j \in Jobs : job'[j].status = "queued" /\ job[j].status # "queued") =>
       \/ signal' > signal
       \/ \E c \in Clients : tx[c] = Idle /\ tx'[c].op = "bump"]_vars

\* A diagnosis written to an incident is replaced only by that of a job which
\* succeeded later, never wiped by an incident row saved from an old snapshot.
DiagnosisKept ==
  [][\A i \in Incidents :
       incident'[i].diagnosis # incident[i].diagnosis =>
         /\ incident'[i].diagnosis # None
         /\ job[incident'[i].diagnosis].status = "running"
         /\ job'[incident'[i].diagnosis].status = "succeeded"]_vars
-----------------------------------------------------------------------------
(* The queue of leased jobs that the transactions implement.               *)

Queue == INSTANCE JobQueue WITH
           Workers <- Instances,
           phase <- [j \in Jobs |-> job[j].status],
           holder <- [j \in Jobs |-> job[j].owner]

\* Every step of the job API is a step of the abstract queue: put once, taken by
\* one worker, given back by expiry or finished by its holder, for good.
ImplementsQueue == Queue!Spec
=============================================================================
