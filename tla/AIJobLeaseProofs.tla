--------------------------- MODULE AIJobLeaseProofs ---------------------------
(***************************************************************************)
(* Theorems about AIJobLease, for any jobs, incidents, instances, keys and *)
(* concurrent requests.  The argument goes in two layers.  JobStep reduces *)
(* every step of the API to what it does to the table ai_jobs, one of five *)
(* changes or none; what is said of that table alone is then proved change *)
(* by change.  What relates a row to the requests in flight is proved      *)
(* action by action.                                                       *)
(***************************************************************************)
EXTENDS AIJobLease, TLAPS

-----------------------------------------------------------------------------
(* Type correctness.                                                       *)

\* A transaction is of the kind its op names.
LEMMA TxOfOp ==
  ASSUME NEW t \in Tx
  PROVE  /\ t.op = "run" => t \in RunTx
         /\ t.op = "start" => t \in StartTx
         /\ t.op = "renew" => t \in RenewTx
         /\ t.op \in {"cancel", "finalize"} => t \in EndTx
         /\ t.op = "call" => t \in CallTx
BY DEF Tx, Idle, RunTx, StartTx, RenewTx, EndTx, CallTx, BumpTx

LEMMA TypeInit == Init => TypeOK
BY DEF Init, TypeOK, JobRow, AbsentJob, IncidentRow, Status, NoTime, Tx

\* Opening a request keeps the slots typed; so does closing one.
LEMMA TypeOpen ==
  ASSUME TypeOK, NEW c \in Clients, NEW t \in Tx, Open(c, t),
         UNCHANGED <<now, job, incident, calls, signal>>
  PROVE  TypeOK'
BY DEF TypeOK, Open

LEMMA TypeClose ==
  ASSUME tx \in [Clients -> Tx], NEW c \in Clients, Close(c)
  PROVE  tx' \in [Clients -> Tx]
BY DEF Close, Tx

LEMMA TypeSaveRCA ==
  ASSUME incident \in [Incidents -> IncidentRow], NEW i \in Incidents,
         NEW read \in IncidentRow, NEW v \in {"pending", "running", "done", "failed"},
         SaveRCA(i, read, v)
  PROVE  incident' \in [Incidents -> IncidentRow]
BY DEF SaveRCA, IncidentRow

LEMMA TypeClaim ==
  ASSUME job \in [Jobs -> JobRow], NEW j \in Jobs, NEW o \in Instances, NEW at \in Nat \ {0},
         ClaimQueued(j, o, at)
  PROVE  job' \in [Jobs -> JobRow]
BY BoundAssumption DEF ClaimQueued, JobRow, Status, Active

LEMMA TypeRenew ==
  ASSUME job \in [Jobs -> JobRow], NEW j \in Jobs, NEW o \in Instances, NEW at \in Nat \ {0},
         RenewLease(j, o, at)
  PROVE  job' \in [Jobs -> JobRow]
BY BoundAssumption DEF RenewLease, JobRow

LEMMA TypeBegin ==
  ASSUME TypeOK, NEW c \in Clients, Begin(c)
  PROVE  TypeOK'
<1> USE DEF TypeOK
<1>1. CASE \E i \in Incidents, k \in Keys \cup {None} : RunBegin(c, i, k)
  <2>1. PICK i \in Incidents, k \in Keys \cup {None} : RunBegin(c, i, k)
    BY <1>1
  <2>2. [op |-> "run", incident |-> i, key |-> k, inc |-> incident[i]] \in Tx
    BY DEF Tx, RunTx
  <2> QED BY <2>1, <2>2, TypeOpen DEF RunBegin
<1>2. ASSUME NEW j \in Jobs, NEW o \in Instances, StartBegin(c, j, o)
      PROVE  TypeOK'
  <2>1. [op |-> "start", job |-> j, owner |-> o, at |-> now, inc |-> IncidentRead(j)] \in Tx
    BY IncidentOfAssumption DEF Tx, StartTx, IncidentRead
  <2> QED BY <1>2, <2>1, TypeOpen DEF StartBegin
<1>3. ASSUME NEW j \in Jobs, NEW o \in Instances, RenewBegin(c, j, o)
      PROVE  TypeOK'
  <2>1. [op |-> "renew", job |-> j, owner |-> o, at |-> now] \in Tx
    BY DEF Tx, RenewTx
  <2> QED BY <1>3, <2>1, TypeOpen DEF RenewBegin
<1>4. ASSUME NEW j \in Jobs, NEW o \in Instances, CancelBegin(c, j, o)
      PROVE  TypeOK'
  <2>1. [op |-> "cancel", job |-> j, owner |-> o, target |-> "canceled",
         saw |-> job[j].status, inc |-> IncidentRead(j)] \in Tx
    BY <1>4, IncidentOfAssumption DEF Tx, EndTx, IncidentRead, CancelBegin, Terminal
  <2> QED BY <1>4, <2>1, TypeOpen DEF CancelBegin
<1>5. ASSUME NEW j \in Jobs, NEW o \in Instances, NEW target \in Terminal,
             FinalizeBegin(c, j, o, target)
      PROVE  TypeOK'
  <2>1. [op |-> "finalize", job |-> j, owner |-> o, target |-> target,
         saw |-> job[j].status, inc |-> IncidentRead(j)] \in Tx
    BY <1>5, IncidentOfAssumption DEF Tx, EndTx, IncidentRead, FinalizeBegin
  <2> QED BY <1>5, <2>1, TypeOpen DEF FinalizeBegin
<1>6. ASSUME NEW j \in Jobs, NEW o \in Instances, NEW s \in Seqs, CallBegin(c, j, o, s)
      PROVE  TypeOK'
  <2>1. [op |-> "call", job |-> j, owner |-> o, at |-> now,
         inc |-> IncidentRead(j), saw |-> job[j].status, seq |-> s,
         known |-> \E x \in calls : x.job = j /\ x.seq = s] \in Tx
    BY <1>6, IncidentOfAssumption DEF Tx, CallTx, IncidentRead, CallBegin
  <2> QED BY <1>6, <2>1, TypeOpen DEF CallBegin
<1> QED BY <1>1, <1>2, <1>3, <1>4, <1>5, <1>6 DEF Begin

\* A row inserted by Run.
Created(j, k) ==
  /\ job[j].status = "absent"
  /\ ~KeyUsed(k)
  /\ job' = [job EXCEPT ![j].status = "queued", ![j].key = k]

LEMMA TypeCreated ==
  ASSUME job \in [Jobs -> JobRow], NEW j \in Jobs, NEW k \in Keys \cup {None},
         Created(j, k)
  PROVE  job' \in [Jobs -> JobRow]
<1> DEFINE r == [job[j] EXCEPT !.status = "queued", !.key = k]
<1>1. r \in JobRow
  BY DEF JobRow, Status, Active
<1>2. job' = [job EXCEPT ![j] = r]
  BY DEF Created
<1> HIDE DEF r
<1> QED BY <1>1, <1>2

LEMMA TypeCommit ==
  ASSUME TypeOK, NEW c \in Clients, Commit(c)
  PROVE  TypeOK'
<1> USE DEF TypeOK
<1>0. tx[c] \in Tx
  OBVIOUS
<1>1. CASE RunCommit(c)
  <2>1. tx[c] \in RunTx
    BY <1>0, <1>1, TxOfOp DEF RunCommit
  <2>2. tx[c].incident \in Incidents /\ tx[c].inc \in IncidentRow /\ tx[c].key \in Keys \cup {None}
    BY <2>1 DEF RunTx
  <2>3. job' \in [Jobs -> JobRow]
    BY <1>1, <2>2, TypeCreated DEF RunCommit, Created
  <2>4. incident' \in [Incidents -> IncidentRow]
    BY <1>1, <2>2, TypeSaveRCA DEF RunCommit
  <2> QED BY <1>1, <2>3, <2>4, TypeClose DEF RunCommit, Bump
<1>2. CASE StartClaims(c) \/ StartRenews(c)
  <2>1. tx[c] \in StartTx
    BY <1>0, <1>2, TxOfOp DEF StartClaims, StartRenews
  <2>2. /\ tx[c].job \in Jobs /\ tx[c].owner \in Instances /\ tx[c].at \in Nat \ {0}
        /\ tx[c].inc \in IncidentRow /\ IncidentOf[tx[c].job] \in Incidents
    BY <2>1, IncidentOfAssumption DEF StartTx
  <2>3. job' \in [Jobs -> JobRow]
    BY <1>2, <2>2, TypeClaim, TypeRenew DEF StartClaims, StartRenews
  <2>4. incident' \in [Incidents -> IncidentRow]
    BY <1>2, <2>2, TypeSaveRCA DEF StartClaims, StartRenews
  <2> QED BY <1>2, <2>3, <2>4, TypeClose DEF StartClaims, StartRenews, Bump
<1>3. CASE RenewCommit(c)
  <2>1. tx[c] \in RenewTx
    BY <1>0, <1>3, TxOfOp DEF RenewCommit
  <2>2. job' \in [Jobs -> JobRow]
    BY <1>3, <2>1, TypeRenew DEF RenewCommit, RenewTx
  <2> QED BY <1>3, <2>2, TypeClose DEF RenewCommit
<1>4. CASE CancelCommit(c) \/ FinalizeCommit(c)
  <2>1. tx[c] \in EndTx /\ EndCommit(c)
    BY <1>0, <1>4, TxOfOp DEF CancelCommit, FinalizeCommit
  <2>2. /\ tx[c].job \in Jobs /\ tx[c].target \in Terminal /\ tx[c].inc \in IncidentRow
        /\ IncidentOf[tx[c].job] \in Incidents
    BY <2>1, IncidentOfAssumption DEF EndTx
  <2>3. job' \in [Jobs -> JobRow]
    BY <2>1, <2>2 DEF EndCommit, UpdateStatusWithLeaseOwner, JobRow, Status, NoTime
  <2>4. [tx[c].inc EXCEPT !.diagnosis = tx[c].job] \in IncidentRow
    BY <2>2 DEF IncidentRow
  <2>5. incident' \in [Incidents -> IncidentRow]
    BY <2>1, <2>2, <2>4, TypeSaveRCA DEF EndCommit
  <2>6. signal' \in Nat
    BY <2>1 DEF EndCommit
  <2> QED BY <2>1, <2>3, <2>5, <2>6, TypeClose DEF EndCommit
<1>5. CASE CallClaims(c) \/ CallRenews(c)
  <2>1. tx[c] \in CallTx
    BY <1>0, <1>5, TxOfOp DEF CallClaims, CallRenews
  <2>2. /\ tx[c].job \in Jobs /\ tx[c].owner \in Instances /\ tx[c].at \in Nat \ {0}
        /\ tx[c].inc \in IncidentRow /\ tx[c].seq \in Seqs
        /\ IncidentOf[tx[c].job] \in Incidents
    BY <2>1, IncidentOfAssumption DEF CallTx
  <2>3. job' \in [Jobs -> JobRow]
    BY <1>5, <2>2, TypeClaim, TypeRenew DEF CallClaims, CallRenews
  <2>4. incident' \in [Incidents -> IncidentRow]
    BY <1>5, <2>2, TypeSaveRCA DEF CallClaims, CallRenews
  <2>5. calls' \subseteq ToolCall
    BY <1>5, <2>2 DEF CallClaims, CallRenews, RecordCall, ToolCall
  <2> QED BY <1>5, <2>3, <2>4, <2>5, TypeClose DEF CallClaims, CallRenews, Bump
<1>6. CASE ListBumps(c)
  BY <1>6, TypeClose DEF ListBumps, Bump
<1> QED BY <1>1, <1>2, <1>3, <1>4, <1>5, <1>6 DEF Commit

LEMMA TypeRequeued ==
  ASSUME job \in [Jobs -> JobRow], NEW S \in SUBSET Jobs
  PROVE  Requeued(S) \in [Jobs -> JobRow]
<1>1. ASSUME NEW j \in Jobs
      PROVE  /\ [job[j] EXCEPT !.status = "queued", !.owner = None,
                               !.expires = NoTime, !.version = @ + 1] \in JobRow
             /\ job[j] \in JobRow
  <2>1. job[j] \in JobRow
    OBVIOUS
  <2>2. job[j].version + 1 \in Nat /\ NoTime \in Nat /\ "queued" \in Status
    BY <2>1 DEF JobRow, NoTime, Status, Active
  <2> QED BY <2>1, <2>2 DEF JobRow
<1> QED BY <1>1 DEF Requeued

LEMMA TypeNext == TypeOK /\ [Next]_vars => TypeOK'
<1> SUFFICES ASSUME TypeOK, [Next]_vars
             PROVE  TypeOK'
  OBVIOUS
<1>1. CASE UNCHANGED vars
  BY <1>1 DEF vars, TypeOK
<1>2. CASE Tick
  BY <1>2 DEF Tick, TypeOK
<1>3. ASSUME NEW c \in Clients, ListReclaims(c)
      PROVE  TypeOK'
  <2>1. [op |-> "bump"] \in Tx
    BY DEF Tx, BumpTx
  <2>2. tx' \in [Clients -> Tx]
    BY <1>3, <2>1 DEF ListReclaims, Open, TypeOK
  <2> QED BY <1>3, <2>2, TypeRequeued DEF ListReclaims, TypeOK
<1>4. ASSUME NEW c \in Clients, Abort(c)
      PROVE  TypeOK'
  BY <1>4, TypeClose DEF Abort, TypeOK
<1> QED BY <1>1, <1>2, <1>3, <1>4, TypeBegin, TypeCommit DEF Next

\* Every row and every request in flight has the shape the code gives it.
THEOREM TypeCorrect == Spec => []TypeOK
BY TypeInit, TypeNext, PTL DEF Spec

-----------------------------------------------------------------------------
(* What a step does to the table ai_jobs.                                  *)

\* Only a commit or a reclaim writes the table.
LEMMA OnlyCommits ==
  ASSUME [Next]_vars
  PROVE  UNCHANGED job \/ \E c \in Clients : Commit(c) \/ ListReclaims(c)
<1>1. ASSUME NEW c \in Clients, Begin(c) \/ Abort(c) PROVE UNCHANGED job
  BY <1>1 DEF Begin, Abort, RunBegin, StartBegin, RenewBegin, CancelBegin,
              FinalizeBegin, CallBegin
<1>2. CASE Tick \/ UNCHANGED vars
  BY <1>2 DEF Tick, vars
<1> QED BY <1>1, <1>2 DEF Next

JobChange ==
  \/ UNCHANGED job
  \/ \E j \in Jobs, k \in Keys \cup {None} : Created(j, k)
  \/ \E j \in Jobs, o \in Instances, at \in Nat \ {0} :
       ClaimQueued(j, o, at) \/ RenewLease(j, o, at)
  \/ \E c \in Clients, j \in Jobs, o \in Instances, target \in Terminal :
       /\ tx[c].op \in {"cancel", "finalize"} /\ tx[c].job = j /\ tx[c].owner = o
       /\ tx'[c] = Idle
       /\ UpdateStatusWithLeaseOwner(j, EndFrom(target), o, target)
  \/ \E S \in SUBSET Expired : job' = Requeued(S)

\* Whatever request takes the step, the table changes in one of five ways.
LEMMA JobStep == TypeOK /\ [Next]_vars => JobChange
<1> SUFFICES ASSUME TypeOK, [Next]_vars
             PROVE  JobChange
  OBVIOUS
<1>1. CASE UNCHANGED vars
  BY <1>1 DEF vars, JobChange
<1>2. CASE Tick
  BY <1>2 DEF Tick, JobChange
<1>3. ASSUME NEW c \in Clients, Begin(c) \/ Abort(c)
      PROVE  JobChange
  BY <1>3 DEF Begin, Abort, JobChange, RunBegin, StartBegin, RenewBegin, CancelBegin,
              FinalizeBegin, CallBegin
<1>4. ASSUME NEW c \in Clients, ListReclaims(c)
      PROVE  JobChange
  BY <1>4 DEF ListReclaims, JobChange, ReclaimBatch
<1>5. ASSUME NEW c \in Clients, Commit(c)
      PROVE  JobChange
  <2>0. tx[c] \in Tx
    BY DEF TypeOK
  <2>1. CASE RunCommit(c)
    <3>1. tx[c].key \in Keys \cup {None}
      BY <2>0, <2>1, TxOfOp DEF RunCommit, RunTx
    <3> QED BY <2>1, <3>1 DEF RunCommit, Created, JobChange
  <2>2. CASE StartClaims(c) \/ StartRenews(c)
    <3>1. tx[c].job \in Jobs /\ tx[c].owner \in Instances /\ tx[c].at \in Nat \ {0}
      BY <2>0, <2>2, TxOfOp DEF StartClaims, StartRenews, StartTx
    <3> QED BY <2>2, <3>1 DEF StartClaims, StartRenews, JobChange
  <2>3. CASE RenewCommit(c)
    <3>1. tx[c].job \in Jobs /\ tx[c].owner \in Instances /\ tx[c].at \in Nat \ {0}
      BY <2>0, <2>3, TxOfOp DEF RenewCommit, RenewTx
    <3> QED BY <2>3, <3>1 DEF RenewCommit, JobChange
  <2>4. CASE CancelCommit(c) \/ FinalizeCommit(c)
    <3>1. tx[c].job \in Jobs /\ tx[c].owner \in Instances /\ tx[c].target \in Terminal
      BY <2>0, <2>4, TxOfOp DEF CancelCommit, FinalizeCommit, EndTx
    <3>2. tx'[c] = Idle
      BY <2>4 DEF CancelCommit, FinalizeCommit, EndCommit, Close, TypeOK
    <3>3. /\ tx[c].op \in {"cancel", "finalize"}
          /\ UpdateStatusWithLeaseOwner(tx[c].job, EndFrom(tx[c].target), tx[c].owner, tx[c].target)
      BY <2>4 DEF CancelCommit, FinalizeCommit, EndCommit
    <3> QED BY <3>1, <3>2, <3>3 DEF JobChange
  <2>5. CASE CallClaims(c) \/ CallRenews(c)
    <3>1. tx[c].job \in Jobs /\ tx[c].owner \in Instances /\ tx[c].at \in Nat \ {0}
      BY <2>0, <2>5, TxOfOp DEF CallClaims, CallRenews, CallTx
    <3> QED BY <2>5, <3>1 DEF CallClaims, CallRenews, JobChange
  <2>6. CASE ListBumps(c)
    BY <2>6 DEF ListBumps, JobChange
  <2> QED BY <1>5, <2>1, <2>2, <2>3, <2>4, <2>5, <2>6 DEF Commit
<1> QED BY <1>1, <1>2, <1>3, <1>4, <1>5 DEF Next

-----------------------------------------------------------------------------
(* The rows of ai_jobs alone.                                              *)

LeaseInv == TypeOK /\ LeaseIffRunning

LEMMA LeaseInit == Init => LeaseInv
BY TypeInit, NoneAssumption DEF Init, LeaseInv, LeaseIffRunning, AbsentJob, NoTime

LEMMA LeaseNext == LeaseInv /\ [Next]_vars => LeaseInv'
<1> SUFFICES ASSUME LeaseInv, [Next]_vars
             PROVE  LeaseIffRunning'
  BY TypeNext DEF LeaseInv
<1> USE DEF LeaseInv, LeaseIffRunning
<1>0. job \in [Jobs -> JobRow]
  BY DEF TypeOK
<1>1. CASE UNCHANGED job
  BY <1>1
<1>2. ASSUME NEW j \in Jobs, NEW k \in Keys \cup {None}, Created(j, k)
      PROVE  LeaseIffRunning'
  BY <1>0, <1>2 DEF Created, JobRow
<1>3. ASSUME NEW j \in Jobs, NEW o \in Instances, NEW at \in Nat \ {0},
             ClaimQueued(j, o, at) \/ RenewLease(j, o, at)
      PROVE  LeaseIffRunning'
  <2>1. o # None /\ at + LeaseTTL # NoTime
    BY NoneAssumption, BoundAssumption DEF NoTime
  <2> QED BY <1>0, <1>3, <2>1 DEF ClaimQueued, RenewLease, JobRow
<1>4. ASSUME NEW j \in Jobs, NEW o \in Instances, NEW target \in Terminal,
             UpdateStatusWithLeaseOwner(j, EndFrom(target), o, target)
      PROVE  LeaseIffRunning'
  BY <1>0, <1>4 DEF UpdateStatusWithLeaseOwner, JobRow, Terminal
<1>5. ASSUME NEW S \in SUBSET Expired, job' = Requeued(S)
      PROVE  LeaseIffRunning'
  BY <1>0, <1>5 DEF Requeued, JobRow, NoTime
<1>6. JobChange
  BY JobStep
<1> QED BY <1>1, <1>2, <1>3, <1>4, <1>5, <1>6 DEF JobChange

\* A row holds a lease exactly while it is running.
THEOREM LeasesWhole == Spec => []LeaseIffRunning
<1>1. Spec => []LeaseInv
  BY LeaseInit, LeaseNext, PTL DEF Spec
<1> QED BY <1>1, PTL DEF LeaseInv

\* The change of one row that a step makes.
LEMMA TerminalStep ==
  ASSUME TypeOK, [Next]_vars, NEW j \in Jobs, job[j].status \in Terminal
  PROVE  job'[j] = job[j]
<1>0. job \in [Jobs -> JobRow] /\ job[j].status \notin Active \cup {"absent"}
  BY DEF TypeOK, Terminal, Active
<1>1. ASSUME NEW n \in Jobs, NEW k \in Keys \cup {None}, Created(n, k)
      PROVE  job'[j] = job[j]
  BY <1>0, <1>1 DEF Created
<1>2. ASSUME NEW n \in Jobs, NEW o \in Instances, NEW at \in Nat \ {0},
             ClaimQueued(n, o, at) \/ RenewLease(n, o, at)
      PROVE  job'[j] = job[j]
  BY <1>0, <1>2 DEF ClaimQueued, RenewLease, Active
<1>3. ASSUME NEW n \in Jobs, NEW o \in Instances, NEW target \in Terminal,
             UpdateStatusWithLeaseOwner(n, EndFrom(target), o, target)
      PROVE  job'[j] = job[j]
  BY <1>0, <1>3 DEF UpdateStatusWithLeaseOwner, EndFrom, Active
<1>4. ASSUME NEW S \in SUBSET Expired, job' = Requeued(S)
      PROVE  job'[j] = job[j]
  BY <1>0, <1>4 DEF Requeued, Expired, Active
<1>5. JobChange
  BY JobStep
<1> QED BY <1>1, <1>2, <1>3, <1>4, <1>5 DEF JobChange

\* A job that ended never changes again.
THEOREM EndedForGood == Spec => TerminalIsFinal
<1>1. TypeOK /\ [Next]_vars
        => [\A j \in Jobs : job[j].status \in Terminal => job'[j] = job[j]]_vars
  BY TerminalStep
<1> QED BY <1>1, TypeCorrect, PTL DEF Spec, TerminalIsFinal

KeyInv == TypeOK /\ OneJobPerKey

LEMMA KeyInit == Init => KeyInv
BY TypeInit DEF Init, KeyInv, OneJobPerKey, AbsentJob

LEMMA KeyNext == KeyInv /\ [Next]_vars => KeyInv'
<1> SUFFICES ASSUME KeyInv, [Next]_vars
             PROVE  OneJobPerKey'
  BY TypeNext DEF KeyInv
<1>0. job \in [Jobs -> JobRow] /\ OneJobPerKey
  BY DEF KeyInv, TypeOK
<1>1. ASSUME NEW j \in Jobs, NEW k \in Keys \cup {None}, Created(j, k)
      PROVE  OneJobPerKey'
  <2>1. /\ job'[j].key = k
        /\ \A n \in Jobs \ {j} : job'[n].key = job[n].key
    BY <1>0, <1>1 DEF Created, JobRow
  <2>2. k = None \/ \A n \in Jobs : job[n].key # k
    BY <1>1 DEF Created, KeyUsed
  <2> QED BY <1>0, <2>1, <2>2 DEF OneJobPerKey
<1>2. CASE \A j \in Jobs : job'[j].key = job[j].key
  BY <1>0, <1>2 DEF OneJobPerKey
<1>3. ASSUME NEW j \in Jobs, NEW o \in Instances, NEW at \in Nat \ {0},
             ClaimQueued(j, o, at) \/ RenewLease(j, o, at)
      PROVE  OneJobPerKey'
  BY <1>0, <1>2, <1>3 DEF ClaimQueued, RenewLease, JobRow
<1>4. ASSUME NEW j \in Jobs, NEW o \in Instances, NEW target \in Terminal,
             UpdateStatusWithLeaseOwner(j, EndFrom(target), o, target)
      PROVE  OneJobPerKey'
  BY <1>0, <1>2, <1>4 DEF UpdateStatusWithLeaseOwner, JobRow
<1>5. ASSUME NEW S \in SUBSET Expired, job' = Requeued(S)
      PROVE  OneJobPerKey'
  BY <1>0, <1>2, <1>5 DEF Requeued, JobRow
<1>6. JobChange
  BY JobStep DEF KeyInv
<1> QED BY <1>1, <1>2, <1>3, <1>4, <1>5, <1>6 DEF JobChange

\* One job carries an idempotency key.
THEOREM KeysUnique == Spec => []OneJobPerKey
<1>1. Spec => []KeyInv
  BY KeyInit, KeyNext, PTL DEF Spec
<1> QED BY <1>1, PTL DEF KeyInv

LEMMA VersionStep ==
  ASSUME LeaseInv, [Next]_vars, NEW j \in Jobs
  PROVE  /\ job'[j].version >= job[j].version
         /\ (job'[j].owner # job[j].owner \/ job'[j].expires # job[j].expires)
            /\ job'[j].status \in Active => job'[j].version > job[j].version
<1> DEFINE Goal ==
      /\ job'[j].version >= job[j].version
      /\ (job'[j].owner # job[j].owner \/ job'[j].expires # job[j].expires)
         /\ job'[j].status \in Active => job'[j].version > job[j].version
<1>0. job \in [Jobs -> JobRow] /\ job[j] \in JobRow /\ job[j].version \in Nat
  BY DEF LeaseInv, TypeOK, JobRow
<1>1. CASE job'[j] = job[j]
  BY <1>0, <1>1
<1>2. ASSUME NEW n \in Jobs, NEW k \in Keys \cup {None}, Created(n, k)
      PROVE  Goal
  <2>1. job'[j].version = job[j].version /\ job'[j].owner = job[j].owner
        /\ job'[j].expires = job[j].expires
    BY <1>0, <1>2 DEF Created, JobRow
  <2> QED BY <1>0, <2>1
<1>3. ASSUME NEW n \in Jobs, NEW o \in Instances, NEW at \in Nat \ {0},
             ClaimQueued(n, o, at) \/ RenewLease(n, o, at)
      PROVE  Goal
  <2>1. job'[j] = job[j] \/ job'[j].version = job[j].version + 1
    BY <1>0, <1>3 DEF ClaimQueued, RenewLease, JobRow
  <2> QED BY <1>0, <1>1, <2>1
<1>4. ASSUME NEW n \in Jobs, NEW o \in Instances, NEW target \in Terminal,
             UpdateStatusWithLeaseOwner(n, EndFrom(target), o, target)
      PROVE  Goal
  <2>1. \/ job'[j] = job[j]
        \/ job'[j].version = job[j].version /\ job'[j].status \notin Active
    BY <1>0, <1>4 DEF UpdateStatusWithLeaseOwner, JobRow, Terminal, Active
  <2> QED BY <1>0, <1>1, <2>1
<1>5. ASSUME NEW S \in SUBSET Expired, job' = Requeued(S)
      PROVE  Goal
  <2>1. job'[j] = job[j] \/ job'[j].version = job[j].version + 1
    BY <1>0, <1>5 DEF Requeued, JobRow
  <2> QED BY <1>0, <1>1, <2>1
<1>6. JobChange
  BY JobStep DEF LeaseInv
<1> QED BY <1>1, <1>2, <1>3, <1>4, <1>5, <1>6 DEF JobChange

\* Every lease that begins, is extended or is reclaimed is counted.
THEOREM TermsCounted == Spec => VersionCountsTerms
<1>1. Spec => []LeaseInv
  BY LeaseInit, LeaseNext, PTL DEF Spec
<1>2. LeaseInv /\ [Next]_vars =>
        [\A j \in Jobs :
           /\ job'[j].version >= job[j].version
           /\ (job'[j].owner # job[j].owner \/ job'[j].expires # job[j].expires)
              /\ job'[j].status \in Active => job'[j].version > job[j].version]_vars
  BY VersionStep
<1> QED BY <1>1, <1>2, PTL DEF Spec, VersionCountsTerms

LEMMA OwnerStep ==
  ASSUME LeaseInv, [Next]_vars, NEW j \in Jobs,
         job[j].status = "running", job'[j].owner # job[j].owner
  PROVE  OwnerLost(j)
<1>0. job \in [Jobs -> JobRow] /\ job[j] \in JobRow
  BY DEF LeaseInv, TypeOK
<1>1. ASSUME NEW n \in Jobs, NEW k \in Keys \cup {None}, Created(n, k)
      PROVE  OwnerLost(j)
  BY <1>0, <1>1 DEF Created, JobRow
<1>2. ASSUME NEW n \in Jobs, NEW o \in Instances, NEW at \in Nat \ {0},
             ClaimQueued(n, o, at) \/ RenewLease(n, o, at)
      PROVE  OwnerLost(j)
  BY <1>0, <1>2 DEF ClaimQueued, RenewLease, JobRow
<1>3. ASSUME NEW c \in Clients, NEW n \in Jobs, NEW o \in Instances, NEW target \in Terminal,
             tx[c].op \in {"cancel", "finalize"}, tx[c].job = n, tx[c].owner = o, tx'[c] = Idle,
             UpdateStatusWithLeaseOwner(n, EndFrom(target), o, target)
      PROVE  OwnerLost(j)
  <2>1. n = j
    BY <1>0, <1>3 DEF UpdateStatusWithLeaseOwner
  <2>2. job[j].owner = o /\ job'[j].status \in Terminal
    BY <1>0, <1>3, <2>1 DEF UpdateStatusWithLeaseOwner, JobRow
  <2>3. tx[c] # Idle
    BY <1>3 DEF Idle
  <2> QED BY <1>3, <2>1, <2>2, <2>3 DEF OwnerLost
<1>4. ASSUME NEW S \in SUBSET Expired, job' = Requeued(S)
      PROVE  OwnerLost(j)
  <2>1. j \in S
    BY <1>0, <1>4 DEF Requeued
  <2>2. job[j].expires < now
    BY <1>4, <2>1 DEF Expired
  <2>3. job'[j].status = "queued"
    BY <1>0, <1>4, <2>1 DEF Requeued, JobRow
  <2> QED BY <2>2, <2>3 DEF OwnerLost
<1>5. JobChange
  BY JobStep DEF LeaseInv
<1> QED BY <1>1, <1>2, <1>3, <1>4, <1>5 DEF JobChange

\* A lease passes from its holder only by its own request or after its expiry.
THEOREM NoLeaseStolen == Spec => LeaseNotStolen
<1>1. Spec => []LeaseInv
  BY LeaseInit, LeaseNext, PTL DEF Spec
<1>2. LeaseInv /\ [Next]_vars =>
        [\A j \in Jobs : (job[j].status = "running" /\ job'[j].owner # job[j].owner)
                            => OwnerLost(j)]_vars
  BY OwnerStep
<1> QED BY <1>1, <1>2, PTL DEF Spec, LeaseNotStolen

-----------------------------------------------------------------------------
(* The rows and the requests that change them.                             *)

LEMMA CallStep ==
  ASSUME TypeOK, [Next]_vars, NEW x \in calls' \ calls
  PROVE  job'[x.job].status = "running" /\ job'[x.job].owner = x.by
<1>1. PICK c \in Clients : CallClaims(c) \/ CallRenews(c)
  <2>1. calls' # calls
    OBVIOUS
  <2>2. ASSUME NEW c \in Clients, Commit(c), ~CallClaims(c), ~CallRenews(c)
        PROVE  UNCHANGED calls
    BY <2>2 DEF Commit, RunCommit, StartClaims, StartRenews, RenewCommit, CancelCommit,
       FinalizeCommit, EndCommit, ListBumps
  <2>3. ASSUME NEW c \in Clients, Begin(c) \/ ListReclaims(c) \/ Abort(c)
        PROVE  UNCHANGED calls
    BY <2>3 DEF Begin, RunBegin, StartBegin, RenewBegin, CancelBegin, FinalizeBegin, CallBegin,
       ListReclaims, Abort
  <2>4. QED
    BY <2>1, <2>2, <2>3 DEF Next, vars, Tick
<1>2. tx[c] \in CallTx /\ job \in [Jobs -> JobRow]
  BY <1>1, TxOfOp DEF TypeOK, CallClaims, CallRenews
<1>3. tx[c].job \in Jobs /\ job[tx[c].job] \in JobRow
  BY <1>2 DEF CallTx
<1>4. x = [job |-> tx[c].job, seq |-> tx[c].seq, by |-> tx[c].owner]
  BY <1>1 DEF CallClaims, CallRenews, RecordCall
<1>5. ClaimQueued(tx[c].job, tx[c].owner, tx[c].at) \/ RenewLease(tx[c].job, tx[c].owner, tx[c].at)
  BY <1>1 DEF CallClaims, CallRenews
<1>6. job'[tx[c].job].status = "running" /\ job'[tx[c].job].owner = tx[c].owner
  <2> DEFINE j == tx[c].job
             o == tx[c].owner
             at == tx[c].at
  <2> HIDE DEF j, o, at
  <2>1. j \in Jobs /\ job[j] \in JobRow /\ (ClaimQueued(j, o, at) \/ RenewLease(j, o, at))
    BY <1>3, <1>5 DEF j, o, at
  <2>2. job'[j].status = "running" /\ job'[j].owner = o
    BY <1>2, <2>1 DEF ClaimQueued, RenewLease, JobRow
  <2> QED BY <2>2 DEF j, o
<1> QED BY <1>4, <1>6

\* A tool call is recorded only for the instance that holds the lease.
THEOREM CallsByHolder == Spec => CallsOnlyByHolder
<1>1. TypeOK /\ [Next]_vars =>
        [\A x \in calls' \ calls :
           job'[x.job].status = "running" /\ job'[x.job].owner = x.by]_vars
  BY CallStep
<1> QED BY <1>1, TypeCorrect, PTL DEF Spec, CallsOnlyByHolder

\* Only Run and the reclaim of List make a job available, and both signal it.
LEMMA SignalStep ==
  ASSUME TypeOK, [Next]_vars, NEW j \in Jobs,
         job'[j].status = "queued", job[j].status # "queued"
  PROVE  signal' > signal \/ \E c \in Clients : tx[c] = Idle /\ tx'[c].op = "bump"
<1>0. signal \in Nat /\ tx \in [Clients -> Tx] /\ job \in [Jobs -> JobRow]
  BY DEF TypeOK
<1>1. ASSUME NEW c \in Clients, Commit(c), ~RunCommit(c)
      PROVE  FALSE
  <2>1. CASE CancelCommit(c) \/ FinalizeCommit(c)
    <3>1. tx[c] \in EndTx
      BY <1>0, <2>1, TxOfOp DEF CancelCommit, FinalizeCommit
    <3>2. tx[c].target # "queued"
      BY <3>1 DEF EndTx, Terminal
    <3> QED BY <1>0, <2>1, <3>2 DEF CancelCommit, FinalizeCommit, EndCommit,
                                    UpdateStatusWithLeaseOwner, JobRow
  <2>2. CASE StartClaims(c) \/ CallClaims(c)
    BY <1>0, <2>2 DEF StartClaims, CallClaims, ClaimQueued, JobRow
  <2>3. CASE StartRenews(c) \/ RenewCommit(c) \/ CallRenews(c)
    BY <1>0, <2>3 DEF StartRenews, RenewCommit, CallRenews, RenewLease, JobRow
  <2>4. CASE ListBumps(c)
    BY <2>4 DEF ListBumps
  <2> QED BY <1>1, <2>1, <2>2, <2>3, <2>4 DEF Commit
<1>2. ASSUME NEW c \in Clients, RunCommit(c)
      PROVE  signal' > signal
  BY <1>0, <1>2 DEF RunCommit, Bump
<1>3. ASSUME NEW c \in Clients, ListReclaims(c)
      PROVE  tx[c] = Idle /\ tx'[c].op = "bump"
  BY <1>0, <1>3 DEF ListReclaims, Open
<1>4. job' # job
  OBVIOUS
<1> QED BY <1>1, <1>2, <1>3, <1>4, OnlyCommits

\* No job becomes available to workers without a bump of the queue signal.
THEOREM WorkSignalled == Spec => QueuedIsSignalled
<1>1. TypeOK /\ [Next]_vars =>
        [(\E j \in Jobs : job'[j].status = "queued" /\ job[j].status # "queued") =>
           \/ signal' > signal
           \/ \E c \in Clients : tx[c] = Idle /\ tx'[c].op = "bump"]_vars
  BY SignalStep
<1> QED BY <1>1, TypeCorrect, PTL DEF Spec, QueuedIsSignalled

-----------------------------------------------------------------------------
(* The transactions implement the queue of JobQueue.                       *)

LEMMA QueueInit == Init => Queue!Init
BY DEF Init, Queue!Init, AbsentJob

LEMMA QueueStep ==
  ASSUME LeaseInv, [Next]_vars
  PROVE  [Queue!Next]_<<[j \in Jobs |-> job[j].status], [j \in Jobs |-> job[j].owner]>>
<1> DEFINE phase == [j \in Jobs |-> job[j].status]
           holder == [j \in Jobs |-> job[j].owner]
<1>0. job \in [Jobs -> JobRow] /\ LeaseIffRunning
  BY DEF LeaseInv, TypeOK
<1>1. CASE UNCHANGED job
  BY <1>1
<1>2. ASSUME NEW j \in Jobs, NEW k \in Keys \cup {None}, Created(j, k)
      PROVE  Queue!Put(j)
  BY <1>0, <1>2 DEF Created, Queue!Put, JobRow
<1>3. ASSUME NEW j \in Jobs, NEW o \in Instances, NEW at \in Nat \ {0}, ClaimQueued(j, o, at)
      PROVE  Queue!Take(j, o)
  BY <1>0, <1>3 DEF ClaimQueued, Queue!Take, JobRow
<1>4. ASSUME NEW j \in Jobs, NEW o \in Instances, NEW at \in Nat \ {0}, RenewLease(j, o, at)
      PROVE  phase' = phase /\ holder' = holder
  BY <1>0, <1>4 DEF RenewLease, JobRow
<1>5. ASSUME NEW j \in Jobs, NEW o \in Instances, NEW target \in Terminal,
             UpdateStatusWithLeaseOwner(j, EndFrom(target), o, target)
      PROVE  Queue!Finish(j, o, target)
  <2>1. job[j].status = "running"
    BY <1>5, <1>0, NoneAssumption DEF UpdateStatusWithLeaseOwner, LeaseIffRunning
  <2> QED BY <1>0, <1>5, <2>1 DEF UpdateStatusWithLeaseOwner, Queue!Finish, JobRow
<1>6. ASSUME NEW S \in SUBSET Expired, job' = Requeued(S)
      PROVE  Queue!GiveBack(S)
  BY <1>0, <1>6 DEF Requeued, Expired, Queue!GiveBack, JobRow
<1>7. JobChange
  BY JobStep DEF LeaseInv
<1> QED BY <1>1, <1>2, <1>3, <1>4, <1>5, <1>6, <1>7
        DEF JobChange, Queue!Next, Queue!Outcome, Terminal, Expired

\* Every behaviour of the job API is one of the abstract queue.
THEOREM QueueImplemented == Spec => ImplementsQueue
<1>1. Spec => []LeaseInv
  BY LeaseInit, LeaseNext, PTL DEF Spec
<1>2. LeaseInv /\ [Next]_vars =>
        [Queue!Next]_<<[j \in Jobs |-> job[j].status], [j \in Jobs |-> job[j].owner]>>
  BY QueueStep
<1> QED BY <1>1, <1>2, QueueInit, PTL DEF Spec, ImplementsQueue, Queue!Spec

-----------------------------------------------------------------------------
(* The incident rows.  Every request that touches an incident saves the    *)
(* whole row it has read, so the invariants speak of the rows remembered   *)
(* by the requests in flight as well as of the table.                      *)

\* The requests that remember an incident row, and which incident it is.
Remembers(c) == tx[c].op \in {"run", "start", "cancel", "finalize", "call"}
RowOf(c) == IF tx[c].op = "run" THEN tx[c].incident ELSE IncidentOf[tx[c].job]

LEMMA RememberedRow ==
  ASSUME TypeOK, NEW c \in Clients, Remembers(c)
  PROVE  /\ RowOf(c) \in Incidents
         /\ tx[c].inc \in IncidentRow
         /\ tx[c].op # "run" => tx[c].job \in Jobs /\ RowOf(c) = IncidentOf[tx[c].job]
BY TxOfOp, IncidentOfAssumption
   DEF TypeOK, Remembers, RowOf, RunTx, StartTx, EndTx, CallTx

\* A request in flight keeps what it has read; a new one has read the table.
LEMMA RowsRead ==
  ASSUME TypeOK, [Next]_vars, NEW c \in Clients, Remembers(c)'
  PROVE  \/ tx'[c] = tx[c]
         \/ /\ UNCHANGED <<job, incident>>
            /\ RowOf(c)' \in Incidents
            /\ tx'[c].inc = incident[RowOf(c)']
            /\ IF tx'[c].op = "run"
               THEN c \in Submitters /\ ActiveJobs(RowOf(c)') = {}
               ELSE tx'[c].job \in Jobs
<1>0. tx \in [Clients -> Tx] /\ Idle.op \notin {"run", "start", "cancel", "finalize", "call"}
  BY DEF TypeOK, Idle
<1>1. CASE UNCHANGED vars \/ Tick
  BY <1>1 DEF vars, Tick
<1>2. ASSUME NEW d \in Clients, Commit(d) \/ Abort(d)
      PROVE  tx'[c] = tx[c]
  <2>1. Close(d)
    BY <1>2 DEF Commit, Abort, RunCommit, StartClaims, StartRenews, RenewCommit, CancelCommit,
                FinalizeCommit, EndCommit, CallClaims, CallRenews, ListBumps
  <2> QED BY <1>0, <2>1 DEF Close, Remembers
<1>3. ASSUME NEW d \in Clients, ListReclaims(d)
      PROVE  tx'[c] = tx[c]
  BY <1>0, <1>3 DEF ListReclaims, Open, Remembers
<1>4. ASSUME NEW d \in Clients, NEW i \in Incidents, NEW k \in Keys \cup {None},
             RunBegin(d, i, k)
      PROVE  tx'[c] = tx[c] \/ (/\ UNCHANGED <<job, incident>>
                                /\ RowOf(c)' \in Incidents
                                /\ tx'[c].inc = incident[RowOf(c)']
                                /\ tx'[c].op = "run"
                                /\ c \in Submitters /\ ActiveJobs(RowOf(c)') = {})
  BY <1>0, <1>4 DEF RunBegin, Open, RowOf
<1>5. ASSUME NEW d \in Clients, NEW j \in Jobs, NEW o \in Instances,
             \/ StartBegin(d, j, o)
             \/ RenewBegin(d, j, o)
             \/ CancelBegin(d, j, o)
             \/ \E target \in Terminal : FinalizeBegin(d, j, o, target)
             \/ \E s \in Seqs : CallBegin(d, j, o, s)
      PROVE  tx'[c] = tx[c] \/ (/\ UNCHANGED <<job, incident>>
                                /\ RowOf(c)' \in Incidents
                                /\ tx'[c].inc = incident[RowOf(c)']
                                /\ tx'[c].op # "run"
                                /\ tx'[c].job \in Jobs)
  BY <1>0, <1>5, IncidentOfAssumption
     DEF StartBegin, RenewBegin, CancelBegin, FinalizeBegin, CallBegin, Open, RowOf,
         IncidentRead, Remembers
<1> QED BY <1>1, <1>2, <1>3, <1>4, <1>5 DEF Next, Begin

\* What a step does to the incident rows.
IncidentChange ==
  \/ UNCHANGED incident
  \/ \E c \in Clients :
       /\ Remembers(c)
       /\ \/ /\ tx[c].op = "run"
             /\ \E j \in Jobs : IncidentOf[j] = RowOf(c) /\ Created(j, tx[c].key)
             /\ SaveRCA(RowOf(c), tx[c].inc, "running")
          \/ /\ tx[c].op \in {"start", "call"}
             /\ ClaimQueued(tx[c].job, tx[c].owner, tx[c].at)
             /\ SaveRCA(RowOf(c), tx[c].inc, "running")
          \/ /\ tx[c].op \in {"cancel", "finalize"}
             /\ UpdateStatusWithLeaseOwner(tx[c].job, EndFrom(tx[c].target),
                                           tx[c].owner, tx[c].target)
             /\ IF tx[c].target = "succeeded"
                THEN SaveRCA(RowOf(c), [tx[c].inc EXCEPT !.diagnosis = tx[c].job], "done")
                ELSE SaveRCA(RowOf(c), tx[c].inc, "failed")

LEMMA IncidentStep == TypeOK /\ [Next]_vars => IncidentChange
<1> SUFFICES ASSUME TypeOK, [Next]_vars
             PROVE  IncidentChange
  OBVIOUS
<1>1. CASE UNCHANGED vars \/ Tick
  BY <1>1 DEF vars, Tick, IncidentChange
<1>2. ASSUME NEW c \in Clients, Begin(c) \/ Abort(c) \/ ListReclaims(c)
      PROVE  IncidentChange
  BY <1>2 DEF Begin, Abort, ListReclaims, IncidentChange, RunBegin, StartBegin, RenewBegin,
              CancelBegin, FinalizeBegin, CallBegin
<1>3. ASSUME NEW c \in Clients, Commit(c)
      PROVE  IncidentChange
  <2>1. CASE RunCommit(c)
    BY <2>1 DEF RunCommit, IncidentChange, Remembers, RowOf, Created
  <2>2. CASE StartClaims(c) \/ CallClaims(c)
    BY <2>2 DEF StartClaims, CallClaims, IncidentChange, Remembers, RowOf
  <2>3. CASE CancelCommit(c) \/ FinalizeCommit(c)
    BY <2>3 DEF CancelCommit, FinalizeCommit, EndCommit, IncidentChange, Remembers, RowOf
  <2>4. CASE StartRenews(c) \/ RenewCommit(c) \/ CallRenews(c) \/ ListBumps(c)
    BY <2>4 DEF StartRenews, RenewCommit, CallRenews, ListBumps, IncidentChange
  <2> QED BY <1>3, <2>1, <2>2, <2>3, <2>4 DEF Commit
<1> QED BY <1>1, <1>2, <1>3 DEF Next

-----------------------------------------------------------------------------
(* Whose diagnosis an incident shows, with any number of submitters.       *)

Earned(d, i) == d # None => d \in Jobs /\ job[d].status = "succeeded" /\ IncidentOf[d] = i

DiagnosisInv ==
  /\ TypeOK
  /\ \A i \in Incidents : Earned(incident[i].diagnosis, i)
  /\ \A c \in Clients : Remembers(c) => Earned(tx[c].inc.diagnosis, RowOf(c))

LEMMA DiagnosisInit == Init => DiagnosisInv
BY TypeInit DEF Init, DiagnosisInv, Earned, Remembers, Idle

LEMMA EarnedKept ==
  ASSUME TypeOK, [Next]_vars, NEW d, NEW i, Earned(d, i)
  PROVE  Earned(d, i)'
<1>1. CASE d = None
  BY <1>1 DEF Earned
<1>2. CASE d # None
  BY <1>2, TerminalStep DEF Earned, Terminal
<1> QED BY <1>1, <1>2

LEMMA DiagnosisNext == DiagnosisInv /\ [Next]_vars => DiagnosisInv'
<1> SUFFICES ASSUME DiagnosisInv, [Next]_vars
             PROVE  DiagnosisInv'
  OBVIOUS
<1>0. TypeOK /\ TypeOK'
  BY TypeNext DEF DiagnosisInv
<1>1. ASSUME NEW i \in Incidents
      PROVE  Earned(incident[i].diagnosis, i)'
  <2>1. CASE incident'[i].diagnosis = incident[i].diagnosis
    BY <1>0, <2>1, EarnedKept DEF DiagnosisInv, Earned
  <2>2. ASSUME NEW c \in Clients, Remembers(c), RowOf(c) = i,
               incident'[i].diagnosis = tx[c].inc.diagnosis
        PROVE  Earned(incident[i].diagnosis, i)'
    BY <1>0, <2>2, EarnedKept DEF DiagnosisInv, Earned
  <2>3. ASSUME NEW c \in Clients, Remembers(c), RowOf(c) = i,
               tx[c].op \in {"cancel", "finalize"}, tx[c].target = "succeeded",
               UpdateStatusWithLeaseOwner(tx[c].job, EndFrom(tx[c].target),
                                          tx[c].owner, tx[c].target),
               incident'[i].diagnosis = tx[c].job
        PROVE  Earned(incident[i].diagnosis, i)'
    <3>1. tx[c].job \in Jobs /\ IncidentOf[tx[c].job] = i
      BY <1>0, <2>3, RememberedRow
    <3>2. job'[tx[c].job].status = "succeeded"
      BY <1>0, <2>3, <3>1 DEF UpdateStatusWithLeaseOwner, TypeOK, JobRow
    <3> QED BY <2>3, <3>1, <3>2 DEF Earned
  <2>4. ASSUME NEW c \in Clients, Remembers(c), NEW v, NEW r \in IncidentRow,
               SaveRCA(RowOf(c), r, v)
        PROVE  \/ incident'[i].diagnosis = incident[i].diagnosis
               \/ RowOf(c) = i /\ incident'[i].diagnosis = r.diagnosis
    BY <1>0, <2>4 DEF SaveRCA, TypeOK, IncidentRow
  <2>5. ASSUME NEW c \in Clients, Remembers(c)
        PROVE  /\ tx[c].inc \in IncidentRow
               /\ tx[c].op # "run" =>
                    /\ [tx[c].inc EXCEPT !.diagnosis = tx[c].job] \in IncidentRow
                    /\ [tx[c].inc EXCEPT !.diagnosis = tx[c].job].diagnosis = tx[c].job
    BY <1>0, <2>5, RememberedRow DEF IncidentRow
  <2> QED BY <1>0, <2>1, <2>2, <2>3, <2>4, <2>5, IncidentStep DEF IncidentChange
<1>2. ASSUME NEW c \in Clients, Remembers(c)'
      PROVE  Earned(tx[c].inc.diagnosis, RowOf(c))'
  <2>1. CASE tx'[c] = tx[c]
    BY <1>0, <1>2, <2>1, EarnedKept DEF DiagnosisInv, Earned, Remembers, RowOf
  <2>2. CASE /\ UNCHANGED <<job, incident>>
             /\ RowOf(c)' \in Incidents
             /\ tx'[c].inc = incident[RowOf(c)']
    BY <2>2 DEF DiagnosisInv, Earned
  <2> QED BY <1>0, <1>2, <2>1, <2>2, RowsRead
<1> QED BY <1>0, <1>1, <1>2 DEF DiagnosisInv

\* The diagnosis on an incident is that of a job of the incident which succeeded.
THEOREM DiagnosisEarned == Spec => []DiagnosisFromSuccess
<1>1. DiagnosisInv => DiagnosisFromSuccess
  BY DEF DiagnosisInv, DiagnosisFromSuccess, Earned
<1> QED BY <1>1, DiagnosisInit, DiagnosisNext, PTL DEF Spec

-----------------------------------------------------------------------------
(* What only overlapping submissions can break.                            *)

\* Two Run requests of one incident are between their reads and their writes.
RunsOverlap ==
  \E c, d \in Clients : /\ c # d /\ tx[c].op = "run" /\ tx[d].op = "run"
                        /\ tx[c].incident = tx[d].incident

\* Until then: a Run in flight has found no active job, and none appears under it; the row
\* that any other request remembers is current as far as its commit can succeed.
SerialInv ==
  /\ TypeOK
  /\ OneActiveJob
  /\ IncidentShowsActiveJob
  /\ \A c \in Clients : tx[c].op = "run" => c \in Submitters /\ ActiveJobs(RowOf(c)) = {}
  /\ \A c \in Clients : Remembers(c) /\ tx[c].op # "run" => job[tx[c].job].status # "absent"
  /\ \A c \in Clients :
       Remembers(c) /\ (tx[c].op = "run" \/ job[tx[c].job].status \in Active)
         => tx[c].inc.diagnosis = incident[RowOf(c)].diagnosis

LEMMA SerialInit == Init => SerialInv
BY TypeInit DEF Init, SerialInv, OneActiveJob, IncidentShowsActiveJob, ActiveJobs,
                AbsentJob, Active, Remembers, Idle

\* A row becomes active only by an insert, which only a Run performs.
LEMMA ActiveStep ==
  ASSUME TypeOK, [Next]_vars, NEW j \in Jobs, job'[j].status \in Active
  PROVE  \/ job[j].status \in Active
         \/ /\ job[j].status = "absent"
            /\ \E c \in Clients : RunCommit(c) /\ IncidentOf[j] = RowOf(c)
<1>0. job \in [Jobs -> JobRow] /\ "absent" \notin Active
  BY DEF TypeOK, Active
<1>1. ASSUME NEW c \in Clients, RunCommit(c)
      PROVE  \/ job[j].status \in Active
             \/ job[j].status = "absent" /\ IncidentOf[j] = RowOf(c)
  BY <1>0, <1>1 DEF RunCommit, RowOf
<1>2. ASSUME NEW c \in Clients, Commit(c), ~RunCommit(c)
      PROVE  job[j].status \in Active
  <2>0. tx[c].op \in {"cancel", "finalize"} => tx[c].target \in Terminal
    BY TxOfOp DEF TypeOK, EndTx
  <2>1. CASE CancelCommit(c) \/ FinalizeCommit(c)
    <3>1. tx[c].target \notin Active
      BY <2>0, <2>1 DEF CancelCommit, FinalizeCommit, Terminal, Active
    <3> QED BY <1>0, <2>1, <3>1 DEF CancelCommit, FinalizeCommit, EndCommit,
                                    UpdateStatusWithLeaseOwner, JobRow
  <2>2. CASE StartClaims(c) \/ CallClaims(c)
    BY <1>0, <2>2 DEF StartClaims, CallClaims, ClaimQueued, Active
  <2>3. CASE StartRenews(c) \/ RenewCommit(c) \/ CallRenews(c)
    BY <1>0, <2>3 DEF StartRenews, RenewCommit, CallRenews, RenewLease, Active
  <2>4. CASE ListBumps(c)
    BY <2>4 DEF ListBumps
  <2> QED BY <1>2, <2>1, <2>2, <2>3, <2>4 DEF Commit
<1>3. ASSUME NEW c \in Clients, ListReclaims(c)
      PROVE  job[j].status \in Active
  BY <1>0, <1>3 DEF ListReclaims, ReclaimBatch, Requeued, Expired, Active
<1>4. CASE UNCHANGED job
  BY <1>4
<1> QED BY <1>1, <1>2, <1>3, <1>4, OnlyCommits

LEMMA SerialOneActive ==
  ASSUME SerialInv, [Next]_vars
  PROVE  OneActiveJob'
<1> SUFFICES ASSUME NEW j \in Jobs, NEW k \in Jobs, IncidentOf[j] = IncidentOf[k],
                    job'[j].status \in Active, job'[k].status \in Active, j # k
             PROVE  FALSE
  BY DEF OneActiveJob
<1>0. TypeOK /\ OneActiveJob /\ job \in [Jobs -> JobRow]
  BY DEF SerialInv, TypeOK
<1>1. ASSUME NEW c \in Clients, RunCommit(c), NEW n \in Jobs, job[n].status \in Active
      PROVE  IncidentOf[n] # RowOf(c)
  BY <1>1 DEF SerialInv, RunCommit, ActiveJobs
<1>2. ASSUME NEW c \in Clients, RunCommit(c), job[j].status = "absent", job[k].status = "absent"
      PROVE  FALSE
  BY <1>0, <1>2 DEF RunCommit, Active
<1> QED BY <1>0, <1>1, <1>2, ActiveStep DEF OneActiveJob

LEMMA SerialShows ==
  ASSUME SerialInv, [Next]_vars, OneActiveJob'
  PROVE  IncidentShowsActiveJob'
<1> SUFFICES ASSUME NEW i \in Incidents, NEW j \in Jobs, IncidentOf[j] = i,
                    job'[j].status \in Active
             PROVE  incident'[i].rca = "running"
  BY DEF IncidentShowsActiveJob, ActiveJobs
<1>0. TypeOK /\ job \in [Jobs -> JobRow] /\ incident \in [Incidents -> IncidentRow]
      /\ OneActiveJob /\ IncidentShowsActiveJob
  BY DEF SerialInv, TypeOK
<1>1. ASSUME NEW c \in Clients, Remembers(c), NEW r \in IncidentRow,
             SaveRCA(RowOf(c), r, "running")
      PROVE  incident'[i].rca = "running" \/ UNCHANGED incident[i]
  BY <1>0, <1>1 DEF SaveRCA, IncidentRow
<1>2. CASE UNCHANGED incident[i]
  <2>1. CASE job[j].status \in Active
    BY <1>0, <1>2, <2>1 DEF IncidentShowsActiveJob, ActiveJobs
  <2>2. ASSUME NEW c \in Clients, RunCommit(c), IncidentOf[j] = RowOf(c)
        PROVE  incident'[i].rca = "running"
    <3>1. tx[c].inc \in IncidentRow
      BY <1>0, <2>2, RememberedRow DEF RunCommit, Remembers
    <3> QED BY <1>0, <2>2, <3>1 DEF RunCommit, SaveRCA, RowOf, IncidentRow
  <2> QED BY <1>0, <1>2, <2>1, <2>2, ActiveStep
<1>3. ASSUME NEW c \in Clients, Remembers(c), tx[c].op \in {"cancel", "finalize"},
             UpdateStatusWithLeaseOwner(tx[c].job, EndFrom(tx[c].target),
                                        tx[c].owner, tx[c].target),
             NEW r, NEW v, SaveRCA(RowOf(c), r, v)
      PROVE  UNCHANGED incident[i]
  <2>1. tx[c].job \in Jobs /\ RowOf(c) = IncidentOf[tx[c].job] /\ tx[c].target \in Terminal
    BY <1>0, <1>3, RememberedRow, TxOfOp DEF TypeOK, EndTx
  <2>2. /\ job[tx[c].job].status \in Active
        /\ job'[tx[c].job].status \notin Active
        /\ \A n \in Jobs \ {tx[c].job} : job'[n] = job[n]
    BY <1>0, <1>3, <2>1 DEF UpdateStatusWithLeaseOwner, EndFrom, JobRow, Active, Terminal
  <2>3. RowOf(c) # i
    BY <1>0, <2>1, <2>2 DEF OneActiveJob
  <2> QED BY <1>0, <1>3, <2>3 DEF SaveRCA
<1> QED BY <1>0, <1>1, <1>2, <1>3, IncidentStep, RememberedRow DEF IncidentChange

\* No job of the incident appears while its only Run is in flight.
LEMMA SerialRunSeesNone ==
  ASSUME ~RunsOverlap, SerialInv, [Next]_vars, NEW c \in Clients, tx'[c].op = "run"
  PROVE  c \in Submitters /\ ActiveJobs(RowOf(c))' = {}
<1>0. TypeOK /\ TypeOK' /\ Remembers(c)'
  BY TypeNext DEF SerialInv, Remembers
<1>1. CASE tx'[c] = tx[c]
  <2>1. c \in Submitters /\ ActiveJobs(RowOf(c)) = {} /\ RowOf(c)' = RowOf(c)
    BY <1>1 DEF SerialInv, RowOf
  <2>2. SUFFICES ASSUME NEW j \in Jobs, IncidentOf[j] = RowOf(c), job'[j].status \in Active
                 PROVE  FALSE
    BY <2>1 DEF ActiveJobs
  <2>3. job[j].status \notin Active
    BY <2>1, <2>2 DEF ActiveJobs
  <2>4. PICK d \in Clients : RunCommit(d) /\ IncidentOf[j] = RowOf(d)
    BY <1>0, <2>2, <2>3, ActiveStep
  <2>5. d = c
    BY <1>1, <2>2, <2>4 DEF RunsOverlap, RunCommit, RowOf
  <2>6. tx'[c] = Idle
    BY <1>0, <2>4, <2>5 DEF RunCommit, Close, TypeOK
  <2> QED BY <2>6 DEF Idle
<1>2. CASE /\ UNCHANGED <<job, incident>>
           /\ c \in Submitters /\ ActiveJobs(RowOf(c)') = {}
  BY <1>2 DEF ActiveJobs
<1> QED BY <1>0, <1>1, <1>2, RowsRead

LEMMA JobsStay ==
  ASSUME TypeOK, [Next]_vars, NEW j \in Jobs, job[j].status # "absent"
  PROVE  job'[j].status # "absent"
<1>0. job \in [Jobs -> JobRow]
  BY DEF TypeOK
<1>1. ASSUME NEW c \in Clients, NEW n \in Jobs, NEW o \in Instances, NEW target \in Terminal,
             UpdateStatusWithLeaseOwner(n, EndFrom(target), o, target)
      PROVE  job'[j].status # "absent"
  BY <1>0, <1>1 DEF UpdateStatusWithLeaseOwner, JobRow, Terminal
<1>2. ASSUME NEW S \in SUBSET Expired, job' = Requeued(S)
      PROVE  job'[j].status # "absent"
  BY <1>0, <1>2 DEF Requeued, JobRow
<1>3. ASSUME NEW n \in Jobs, NEW k \in Keys \cup {None}, Created(n, k)
      PROVE  job'[j].status # "absent"
  BY <1>0, <1>3 DEF Created, JobRow
<1>4. ASSUME NEW n \in Jobs, NEW o \in Instances, NEW at \in Nat \ {0},
             ClaimQueued(n, o, at) \/ RenewLease(n, o, at)
      PROVE  job'[j].status # "absent"
  BY <1>0, <1>4 DEF ClaimQueued, RenewLease, JobRow
<1> QED BY <1>1, <1>2, <1>3, <1>4, JobStep DEF JobChange

LEMMA SerialExists ==
  ASSUME SerialInv, [Next]_vars, NEW c \in Clients, Remembers(c)', tx'[c].op # "run"
  PROVE  job'[tx'[c].job].status # "absent"
<1>0. TypeOK /\ tx \in [Clients -> Tx]
  BY DEF SerialInv, TypeOK
<1>1. CASE tx'[c] = tx[c]
  <2>1. tx[c].job \in Jobs /\ job[tx[c].job].status # "absent"
    BY <1>0, <1>1, RememberedRow DEF SerialInv, Remembers
  <2> QED BY <1>0, <1>1, <2>1, JobsStay
<1>2. CASE tx'[c] # tx[c]
  <2>1. PICK d \in Clients, j \in Jobs, o \in Instances :
             \/ StartBegin(d, j, o)
             \/ CancelBegin(d, j, o)
             \/ \E target \in Terminal : FinalizeBegin(d, j, o, target)
             \/ \E s \in Seqs : CallBegin(d, j, o, s)
    <3>1. ASSUME NEW d \in Clients, NEW i \in Incidents, NEW k \in Keys \cup {None},
                 RunBegin(d, i, k)
          PROVE  FALSE
      BY <1>0, <1>2, <3>1 DEF RunBegin, Open
    <3>2. ASSUME NEW d \in Clients, NEW j \in Jobs, NEW o \in Instances, RenewBegin(d, j, o)
          PROVE  FALSE
      BY <1>0, <1>2, <3>2 DEF RenewBegin, Open, Remembers
    <3>3. ASSUME NEW d \in Clients, Commit(d) \/ Abort(d) \/ ListReclaims(d)
          PROVE  FALSE
      <4>1. Close(d) \/ Open(d, [op |-> "bump"])
        BY <3>3 DEF Commit, Abort, RunCommit, StartClaims, StartRenews, RenewCommit,
                    CancelCommit, FinalizeCommit, EndCommit, CallClaims, CallRenews,
                    ListBumps, ListReclaims
      <4> QED BY <1>0, <1>2, <4>1 DEF Close, Open, Remembers, Idle
    <3>4. ~Tick /\ ~UNCHANGED vars
      BY <1>2 DEF Tick, vars
    <3> QED BY <3>1, <3>2, <3>3, <3>4 DEF Next, Begin
  <2>2. job[j].status \in Active /\ UNCHANGED job /\ d = c /\ tx'[c].job = j
    BY <1>0, <1>2, <2>1 DEF StartBegin, CancelBegin, FinalizeBegin, CallBegin, Open
  <2> QED BY <2>2 DEF Active
<1> QED BY <1>1, <1>2

\* Whoever can still commit remembers the diagnosis that the incident shows.
LEMMA SerialCurrent ==
  ASSUME SerialInv, [Next]_vars, NEW c \in Clients, Remembers(c)',
         tx'[c].op = "run" \/ job'[tx'[c].job].status \in Active
  PROVE  tx'[c].inc.diagnosis = incident'[RowOf(c)'].diagnosis
<1>0. /\ TypeOK /\ job \in [Jobs -> JobRow] /\ incident \in [Incidents -> IncidentRow]
      /\ OneActiveJob
  BY DEF SerialInv, TypeOK
<1>1. CASE UNCHANGED <<job, incident>> /\ tx'[c].inc = incident[RowOf(c)']
  BY <1>1
<1>2. CASE tx'[c] = tx[c]
  <2>1. /\ Remembers(c) /\ RowOf(c)' = RowOf(c) /\ RowOf(c) \in Incidents
        /\ tx[c].op # "run" => tx[c].job \in Jobs /\ IncidentOf[tx[c].job] = RowOf(c)
    BY <1>0, <1>2, RememberedRow DEF Remembers, RowOf
  <2>2. tx[c].op = "run" \/ job[tx[c].job].status \in Active
    <3>1. CASE tx[c].op # "run"
      BY <1>0, <1>2, <2>1, <3>1, ActiveStep DEF SerialInv
    <3> QED BY <3>1
  <2>3. tx[c].inc.diagnosis = incident[RowOf(c)].diagnosis
    BY <2>1, <2>2 DEF SerialInv
  <2>4. ASSUME NEW d \in Clients, Remembers(d), NEW v,
               tx[d].op = "run" \/ job[tx[d].job].status \in Active,
               SaveRCA(RowOf(d), tx[d].inc, v)
        PROVE  incident'[RowOf(c)].diagnosis = incident[RowOf(c)].diagnosis
    <3>1. tx[d].inc \in IncidentRow /\ tx[d].inc.diagnosis = incident[RowOf(d)].diagnosis
      BY <1>0, <2>4, RememberedRow DEF SerialInv
    <3> QED BY <1>0, <2>1, <2>4, <3>1 DEF SaveRCA, IncidentRow
  <2>5. ASSUME NEW d \in Clients, Remembers(d), tx[d].op \in {"cancel", "finalize"},
               UpdateStatusWithLeaseOwner(tx[d].job, EndFrom(tx[d].target),
                                          tx[d].owner, tx[d].target),
               NEW r, NEW v, SaveRCA(RowOf(d), r, v)
        PROVE  incident'[RowOf(c)] = incident[RowOf(c)]
    <3>1. tx[d].job \in Jobs /\ RowOf(d) = IncidentOf[tx[d].job] /\ tx[d].target \in Terminal
      BY <1>0, <2>5, RememberedRow, TxOfOp DEF TypeOK, EndTx
    <3>2. job[tx[d].job].status \in Active /\ job'[tx[d].job].status \notin Active
      BY <1>0, <2>5, <3>1 DEF UpdateStatusWithLeaseOwner, EndFrom, JobRow, Active, Terminal
    <3>3. RowOf(d) # RowOf(c)
      <4>1. CASE tx[c].op = "run"
        BY <3>1, <3>2, <4>1 DEF SerialInv, ActiveJobs
      <4>2. CASE tx[c].op # "run"
        BY <1>0, <1>2, <2>1, <2>2, <3>1, <3>2, <4>2 DEF OneActiveJob
      <4> QED BY <4>1, <4>2
    <3> QED BY <1>0, <2>1, <2>5, <3>3 DEF SaveRCA
  <2>6. incident'[RowOf(c)].diagnosis = incident[RowOf(c)].diagnosis
    <3>1. ASSUME NEW d \in Clients, Remembers(d), tx[d].op \in {"start", "call"},
                 ClaimQueued(tx[d].job, tx[d].owner, tx[d].at)
          PROVE  job[tx[d].job].status \in Active
      BY <3>1 DEF ClaimQueued, Active
    <3> QED BY <1>0, <2>1, <2>4, <2>5, <3>1, IncidentStep DEF IncidentChange
  <2> QED BY <1>2, <2>1, <2>3, <2>6
<1> QED BY <1>0, <1>1, <1>2, RowsRead

LEMMA SerialNext == ~RunsOverlap /\ SerialInv /\ [Next]_vars => SerialInv'
<1> SUFFICES ASSUME ~RunsOverlap, SerialInv, [Next]_vars
             PROVE  SerialInv'
  OBVIOUS
<1>1. TypeOK' /\ OneActiveJob'
  BY TypeNext, SerialOneActive DEF SerialInv
<1>2. IncidentShowsActiveJob'
  BY <1>1, SerialShows
<1> QED BY <1>1, <1>2, SerialRunSeesNone, SerialExists, SerialCurrent DEF SerialInv

LEMMA SerialUntilOverlap == Spec => []SerialInv \/ <>RunsOverlap
BY SerialInit, SerialNext, PTL DEF Spec

\* An incident gets a second active job in no other way than by two Runs of it that
\* overlap (ai_job.go:217).  As every prefix of a behaviour of Spec is one, the
\* overlap comes first.
THEOREM SecondJobNeedsOverlap == Spec => []OneActiveJob \/ <>RunsOverlap
<1>1. SerialInv => OneActiveJob
  BY DEF SerialInv
<1> QED BY <1>1, SerialUntilOverlap, PTL

\* And in no other way does an incident stop to show that a job of it is active.
THEOREM WrongStatusNeedsOverlap == Spec => []IncidentShowsActiveJob \/ <>RunsOverlap
<1>1. SerialInv => IncidentShowsActiveJob
  BY DEF SerialInv
<1> QED BY <1>1, SerialUntilOverlap, PTL

LEMMA SerialDiagnosis ==
  ASSUME SerialInv, [Next]_vars, NEW i \in Incidents,
         incident'[i].diagnosis # incident[i].diagnosis
  PROVE  /\ incident'[i].diagnosis # None
         /\ job[incident'[i].diagnosis].status = "running"
         /\ job'[incident'[i].diagnosis].status = "succeeded"
<1>0. /\ TypeOK /\ job \in [Jobs -> JobRow] /\ incident \in [Incidents -> IncidentRow]
  BY DEF SerialInv, TypeOK
<1>1. ASSUME NEW d \in Clients, Remembers(d), NEW v,
             tx[d].op = "run" \/ job[tx[d].job].status \in Active,
             SaveRCA(RowOf(d), tx[d].inc, v)
      PROVE  FALSE
  <2>1. tx[d].inc \in IncidentRow /\ tx[d].inc.diagnosis = incident[RowOf(d)].diagnosis
    BY <1>0, <1>1, RememberedRow DEF SerialInv
  <2> QED BY <1>0, <1>1, <2>1 DEF SaveRCA, IncidentRow
<1>2. PICK d \in Clients :
        /\ Remembers(d) /\ tx[d].op \in {"cancel", "finalize"}
        /\ tx[d].target = "succeeded"
        /\ UpdateStatusWithLeaseOwner(tx[d].job, EndFrom(tx[d].target),
                                      tx[d].owner, tx[d].target)
        /\ SaveRCA(RowOf(d), [tx[d].inc EXCEPT !.diagnosis = tx[d].job], "done")
  BY <1>0, <1>1, IncidentStep
     DEF IncidentChange, ClaimQueued, Active, UpdateStatusWithLeaseOwner, EndFrom
<1>3. tx[d].job \in Jobs /\ tx[d].inc \in IncidentRow
  BY <1>0, <1>2, RememberedRow
<1>4. RowOf(d) = i /\ incident'[i].diagnosis = tx[d].job
  BY <1>0, <1>2, <1>3 DEF SaveRCA, IncidentRow
<1>5. job[tx[d].job].status = "running" /\ job'[tx[d].job].status = "succeeded"
  BY <1>0, <1>2, <1>3 DEF UpdateStatusWithLeaseOwner, EndFrom, JobRow
<1> QED BY <1>3, <1>4, <1>5, NoneAssumption

\* Nor does the job API wipe the diagnosis of an incident with a stale row in any
\* other way.
THEOREM LostDiagnosisNeedsOverlap == Spec => DiagnosisKept \/ <>RunsOverlap
<1>1. SerialInv /\ [Next]_vars =>
        [\A i \in Incidents :
           incident'[i].diagnosis # incident[i].diagnosis =>
             /\ incident'[i].diagnosis # None
             /\ job[incident'[i].diagnosis].status = "running"
             /\ job'[incident'[i].diagnosis].status = "succeeded"]_vars
  BY SerialDiagnosis
<1> QED BY <1>1, SerialUntilOverlap, PTL DEF Spec, DiagnosisKept
=============================================================================
