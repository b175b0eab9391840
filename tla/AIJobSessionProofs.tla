-------------------------- MODULE AIJobSessionProofs --------------------------
(***************************************************************************)
(* Theorems about AIJobSession: what the job queue still promises when     *)
(* requests save whole rows that they have read some time ago.  Any step   *)
(* but such a save is a step of AIJobLease, for which AIJobLeaseProofs     *)
(* says what becomes of a row.  A save brings back an earlier row, so that *)
(* what is true of single rows is kept in the invariant for the rows that  *)
(* wait to be saved as well.                                               *)
(***************************************************************************)
EXTENDS AIJobSession, AIJobLeaseProofs

Saving(c) == backfill[c].op = "save"

WholeLease(r) ==
  /\ r.status = "running" <=> r.owner # None
  /\ r.status = "running" <=> r.expires # NoTime

\* A row that waits to be saved is one that its job has had since it was created.
BackfillOK(c) ==
  LET b == backfill[c] IN
  Saving(c) => /\ WholeLease(b.row)
               /\ b.row.status # "absent" /\ job[b.job].status # "absent"
               /\ b.row.key = job[b.job].key

SessionInv ==
  /\ SessionTypeOK
  /\ LeaseIffRunning
  /\ OneJobPerKey
  /\ \A c \in Clients : BackfillOK(c)

-----------------------------------------------------------------------------
(* The steps.                                                              *)

LEMMA SavedRow ==
  ASSUME backfill \in [Clients -> Backfill], NEW c \in Clients, Saving(c)
  PROVE  backfill[c].job \in Jobs /\ backfill[c].row \in JobRow
BY DEF Backfill, NoBackfill, Saving

\* Every step is one of the job API that leaves the pending saves alone, or the
\* read, the save or the end of a request that fills in a session.
LEMMA SessionStep ==
  ASSUME [SessionNext]_sessionVars
  PROVE  \/ [Next]_vars /\ UNCHANGED backfill
         \/ \E c \in Clients, j \in Jobs : BackfillBegin(c, j)
         \/ \E c \in Clients : BackfillSave(c)
         \/ \E c \in Clients : BackfillSkip(c)
<1>1. CASE UNCHANGED sessionVars
  BY <1>1 DEF sessionVars, vars
<1>2. CASE Clock
  BY <1>2 DEF Clock, Next
<1>3. ASSUME NEW c \in Clients, SubmitOrFinalize(c) PROVE Next /\ UNCHANGED backfill
  BY <1>3 DEF SubmitOrFinalize, Next, Commit
<1>4. ASSUME NEW c \in Clients, OtherRequest(c) PROVE Next /\ UNCHANGED backfill
  BY <1>4 DEF OtherRequest, Next, Commit
<1> QED BY <1>1, <1>2, <1>3, <1>4 DEF SessionNext

LEMMA SessionTyped ==
  ASSUME session \in [Jobs -> BOOLEAN], [SessionNext]_sessionVars
  PROVE  session' \in [Jobs -> BOOLEAN]
<1>1. ASSUME NEW c \in Clients, SubmitOrFinalize(c) PROVE session' \in [Jobs -> BOOLEAN]
  BY <1>1 DEF SubmitOrFinalize, Attach
<1>2. ASSUME NEW c \in Clients, OtherRequest(c) PROVE session' \in [Jobs -> BOOLEAN]
  BY <1>2 DEF OtherRequest
<1>3. ASSUME NEW c \in Clients, BackfillSave(c) PROVE session' \in [Jobs -> BOOLEAN]
  BY <1>3 DEF BackfillSave
<1>4. CASE Clock
  BY <1>4 DEF Clock
<1>5. ASSUME NEW c \in Clients, (\E j \in Jobs : BackfillBegin(c, j)) \/ BackfillSkip(c)
      PROVE session' \in [Jobs -> BOOLEAN]
  BY <1>5 DEF BackfillBegin, BackfillSkip
<1>6. CASE UNCHANGED sessionVars
  BY <1>6 DEF sessionVars
<1> QED BY <1>1, <1>2, <1>3, <1>4, <1>5, <1>6 DEF SessionNext

\* The job API keeps the key of a row from its insertion on, and deletes no row.
LEMMA KeyStays ==
  ASSUME TypeOK, [Next]_vars, NEW j \in Jobs, job[j].status # "absent"
  PROVE  job'[j].key = job[j].key /\ job'[j].status # "absent"
<1> DEFINE Goal == job'[j].key = job[j].key /\ job'[j].status # "absent"
<1>0. job \in [Jobs -> JobRow] /\ job[j] \in JobRow
  BY DEF TypeOK
<1>1. ASSUME NEW n \in Jobs, NEW k \in Keys \cup {None}, Created(n, k) PROVE Goal
  BY <1>0, <1>1 DEF Created
<1>2. ASSUME NEW n \in Jobs, NEW o \in Instances, NEW at \in Nat \ {0},
             ClaimQueued(n, o, at) \/ RenewLease(n, o, at)
      PROVE  Goal
  BY <1>0, <1>2 DEF ClaimQueued, RenewLease, JobRow
<1>3. ASSUME NEW n \in Jobs, NEW o \in Instances, NEW target \in Terminal,
             UpdateStatusWithLeaseOwner(n, EndFrom(target), o, target)
      PROVE  Goal
  BY <1>0, <1>3 DEF UpdateStatusWithLeaseOwner, Terminal, JobRow
<1>4. ASSUME NEW S \in SUBSET Expired, job' = Requeued(S) PROVE Goal
  BY <1>0, <1>4 DEF Requeued, JobRow
<1>5. JobChange
  BY JobStep
<1> QED BY <1>1, <1>2, <1>3, <1>4, <1>5 DEF JobChange

LEMMA ApiStepInv ==
  ASSUME SessionInv, [Next]_vars, UNCHANGED backfill, session' \in [Jobs -> BOOLEAN]
  PROVE  SessionInv'
<1>1. TypeOK' /\ LeaseIffRunning' /\ OneJobPerKey'
  BY TypeNext, LeaseNext, KeyNext DEF SessionInv, SessionTypeOK, LeaseInv, KeyInv
<1>2. ASSUME NEW c \in Clients PROVE BackfillOK(c)'
  <2> SUFFICES ASSUME Saving(c)
               PROVE  /\ WholeLease(backfill[c].row) /\ backfill[c].row.status # "absent"
                      /\ job'[backfill[c].job].status # "absent"
                      /\ backfill[c].row.key = job'[backfill[c].job].key
    BY DEF BackfillOK, Saving, WholeLease
  <2>1. /\ WholeLease(backfill[c].row) /\ backfill[c].row.status # "absent"
        /\ job[backfill[c].job].status # "absent"
        /\ backfill[c].row.key = job[backfill[c].job].key
    BY DEF SessionInv, BackfillOK
  <2>2. backfill[c].job \in Jobs
    BY SavedRow DEF SessionInv, SessionTypeOK
  <2> QED BY <2>1, <2>2, KeyStays DEF SessionInv, SessionTypeOK
<1> QED BY <1>1, <1>2 DEF SessionInv, SessionTypeOK

LEMMA BackfillBeginInv ==
  ASSUME SessionInv, NEW c \in Clients, NEW j \in Jobs, BackfillBegin(c, j)
  PROVE  SessionInv'
<1> DEFINE b == [op |-> "save", job |-> j, row |-> job[j]]
<1>1. UNCHANGED <<now, job, incident, calls, signal, tx, session>>
  BY DEF BackfillBegin, vars
<1>2. b \in Backfill
  BY DEF SessionInv, SessionTypeOK, TypeOK, Backfill
<1>3. backfill' = [backfill EXCEPT ![c] = b]
  BY DEF BackfillBegin
<1>4. backfill' \in [Clients -> Backfill] /\ backfill'[c] = b
  BY <1>2, <1>3 DEF SessionInv, SessionTypeOK
<1>5. SessionTypeOK' /\ LeaseIffRunning' /\ OneJobPerKey'
  BY <1>1, <1>4 DEF SessionInv, SessionTypeOK, TypeOK, LeaseIffRunning, OneJobPerKey
<1>6. WholeLease(job[j]) /\ job[j].status # "absent"
  BY DEF SessionInv, LeaseIffRunning, WholeLease, BackfillBegin
<1>7. BackfillOK(c)'
  BY <1>1, <1>4, <1>6 DEF BackfillOK, WholeLease
<1>8. ASSUME NEW d \in Clients, d # c PROVE BackfillOK(d)'
  <2>1. backfill'[d] = backfill[d] /\ BackfillOK(d)
    BY <1>3, <1>8 DEF SessionInv, SessionTypeOK
  <2> QED BY <1>1, <2>1 DEF BackfillOK, Saving, WholeLease
<1> QED BY <1>5, <1>7, <1>8 DEF SessionInv

LEMMA BackfillSaveInv ==
  ASSUME SessionInv, NEW c \in Clients, BackfillSave(c)
  PROVE  SessionInv'
<1> DEFINE j == backfill[c].job
           r == backfill[c].row
<1>1. /\ j \in Jobs /\ r \in JobRow
      /\ WholeLease(r) /\ r.status # "absent" /\ r.key = job[j].key
  BY SavedRow DEF SessionInv, SessionTypeOK, BackfillSave, BackfillOK, Saving
<1>2. /\ job' = [job EXCEPT ![j] = r]
      /\ backfill' = [backfill EXCEPT ![c] = NoBackfill]
      /\ session' = [session EXCEPT ![j] = TRUE]
      /\ UNCHANGED <<now, incident, calls, signal, tx>>
  BY DEF BackfillSave
<1>3. job \in [Jobs -> JobRow]
  BY DEF SessionInv, SessionTypeOK, TypeOK
<1> HIDE DEF j, r
<1>4. /\ job' \in [Jobs -> JobRow] /\ job'[j] = r
      /\ \A k \in Jobs \ {j} : job'[k] = job[k]
  BY <1>1, <1>2, <1>3
<1>5. SessionTypeOK'
  <2>1. backfill' \in [Clients -> Backfill]
    BY <1>2 DEF SessionInv, SessionTypeOK, Backfill
  <2>2. session' \in [Jobs -> BOOLEAN]
    BY <1>2 DEF SessionInv, SessionTypeOK
  <2> QED BY <1>2, <1>4, <2>1, <2>2 DEF SessionInv, SessionTypeOK, TypeOK
<1>6. LeaseIffRunning'
  BY <1>1, <1>4 DEF SessionInv, LeaseIffRunning, WholeLease
<1>7. \A k \in Jobs : job'[k].key = job[k].key
  BY <1>1, <1>4
<1>8. OneJobPerKey'
  BY <1>7 DEF SessionInv, OneJobPerKey
<1>9. ASSUME NEW d \in Clients PROVE BackfillOK(d)'
  <2>1. CASE d = c
    BY <1>2, <2>1 DEF SessionInv, SessionTypeOK, BackfillOK, Saving, NoBackfill
  <2>2. CASE d # c
    <3>1. backfill'[d] = backfill[d] /\ BackfillOK(d)
      BY <1>2, <2>2 DEF SessionInv, SessionTypeOK
    <3>2. Saving(d) => backfill[d].job \in Jobs
      BY SavedRow DEF SessionInv, SessionTypeOK
    <3> QED BY <1>1, <1>4, <1>7, <3>1, <3>2 DEF BackfillOK, Saving, WholeLease
  <2> QED BY <2>1, <2>2
<1> QED BY <1>5, <1>6, <1>8, <1>9 DEF SessionInv

LEMMA BackfillSkipInv ==
  ASSUME SessionInv, NEW c \in Clients, BackfillSkip(c)
  PROVE  SessionInv'
<1>1. /\ UNCHANGED <<now, job, incident, calls, signal, tx, session>>
      /\ backfill' = [backfill EXCEPT ![c] = NoBackfill]
  BY DEF BackfillSkip, vars
<1>2. backfill' \in [Clients -> Backfill]
  BY <1>1 DEF SessionInv, SessionTypeOK, Backfill
<1>3. SessionTypeOK' /\ LeaseIffRunning' /\ OneJobPerKey'
  BY <1>1, <1>2 DEF SessionInv, SessionTypeOK, TypeOK, LeaseIffRunning, OneJobPerKey
<1>4. ASSUME NEW d \in Clients PROVE BackfillOK(d)'
  <2>1. CASE d = c
    BY <1>1, <2>1 DEF SessionInv, SessionTypeOK, BackfillOK, Saving, NoBackfill
  <2>2. CASE d # c
    <3>1. backfill'[d] = backfill[d] /\ BackfillOK(d)
      BY <1>1, <2>2 DEF SessionInv, SessionTypeOK
    <3> QED BY <1>1, <3>1 DEF BackfillOK, Saving, WholeLease
  <2> QED BY <2>1, <2>2
<1> QED BY <1>3, <1>4 DEF SessionInv

LEMMA SessionInitInv == SessionInit => SessionInv
<1> SUFFICES ASSUME SessionInit PROVE SessionInv
  OBVIOUS
<1>1. TypeOK /\ LeaseIffRunning /\ OneJobPerKey
  BY LeaseInit, KeyInit DEF SessionInit, LeaseInv, KeyInv
<1>2. session \in [Jobs -> BOOLEAN] /\ backfill \in [Clients -> Backfill]
  BY DEF SessionInit, Backfill
<1>3. \A c \in Clients : BackfillOK(c)
  BY DEF SessionInit, BackfillOK, Saving, NoBackfill
<1> QED BY <1>1, <1>2, <1>3 DEF SessionInv, SessionTypeOK

LEMMA SessionNextInv == SessionInv /\ [SessionNext]_sessionVars => SessionInv'
<1> SUFFICES ASSUME SessionInv, [SessionNext]_sessionVars PROVE SessionInv'
  OBVIOUS
<1>1. session' \in [Jobs -> BOOLEAN]
  BY SessionTyped DEF SessionInv, SessionTypeOK
<1> QED BY <1>1, SessionStep, ApiStepInv, BackfillBeginInv, BackfillSaveInv, BackfillSkipInv

LEMMA SessionInvariance == SessionSpec => []SessionInv
BY SessionInitInv, SessionNextInv, PTL DEF SessionSpec

-----------------------------------------------------------------------------
(* The theorems.                                                           *)

\* Every row that waits to be saved is a row of the table's shape.
THEOREM SessionTypeCorrect == SessionSpec => []SessionTypeOK
<1>1. SessionInv => SessionTypeOK
  BY DEF SessionInv
<1> QED BY <1>1, SessionInvariance, PTL

\* No save of an old row tears a lease apart: what comes back with the session is
\* a row with its whole lease, or with none.
THEOREM SessionLeasesWhole == SessionSpec => []LeaseIffRunning
<1>1. SessionInv => LeaseIffRunning
  BY DEF SessionInv
<1> QED BY <1>1, SessionInvariance, PTL

\* Nor does a save take a key to a second job.
THEOREM SessionKeysUnique == SessionSpec => []OneJobPerKey
<1>1. SessionInv => OneJobPerKey
  BY DEF SessionInv
<1> QED BY <1>1, SessionInvariance, PTL

\* Only a save that was read before the job ended can change an ended job.
LEMMA EndedStep ==
  ASSUME SessionInv, [SessionNext]_sessionVars,
         NEW j \in Jobs, job[j].status \in Terminal, BackfillOf(j) = {}
  PROVE  job'[j] = job[j]
<1>1. CASE [Next]_vars
  BY <1>1, TerminalStep DEF SessionInv, SessionTypeOK
<1>2. ASSUME NEW c \in Clients, BackfillSave(c) PROVE job'[j] = job[j]
  <2>1. backfill[c].job # j
    BY <1>2 DEF BackfillOf, BackfillSave
  <2> QED BY <1>2, <2>1 DEF BackfillSave, SessionInv, SessionTypeOK, TypeOK
<1>3. ASSUME NEW c \in Clients, (\E n \in Jobs : BackfillBegin(c, n)) \/ BackfillSkip(c)
      PROVE  job'[j] = job[j]
  BY <1>3 DEF BackfillBegin, BackfillSkip, vars
<1> QED BY <1>1, <1>2, <1>3, SessionStep

\* A job that has ended, with no request pending that read its row without a
\* session, stays as it is.
THEOREM EndedStaysEnded == SessionSpec => EndedUnreadIsFinal
<1>1. SessionInv /\ [SessionNext]_sessionVars =>
        [\A j \in Jobs :
           job[j].status \in Terminal /\ BackfillOf(j) = {} => job'[j] = job[j]]_sessionVars
  BY EndedStep
<1> QED BY <1>1, SessionInvariance, PTL DEF SessionSpec, EndedUnreadIsFinal

\* A save of an old row records no tool call, and whoever records one holds the
\* lease at that moment, although the lease may have come back with a save.
THEOREM SessionCallsByHolder == SessionSpec => CallsOnlyByHolder
<1>1. SessionInv /\ [SessionNext]_sessionVars =>
        [\A x \in calls' \ calls :
           job'[x.job].status = "running" /\ job'[x.job].owner = x.by]_vars
  <2> SUFFICES ASSUME SessionInv, [SessionNext]_sessionVars, NEW x \in calls' \ calls
               PROVE  job'[x.job].status = "running" /\ job'[x.job].owner = x.by
    OBVIOUS
  <2>1. CASE [Next]_vars
    BY <2>1, CallStep DEF SessionInv, SessionTypeOK
  <2>2. ASSUME NEW c \in Clients,
               \/ \E j \in Jobs : BackfillBegin(c, j)
               \/ BackfillSave(c)
               \/ BackfillSkip(c)
        PROVE  calls' = calls
    BY <2>2 DEF BackfillBegin, BackfillSave, BackfillSkip, vars
  <2> QED BY <2>1, <2>2, SessionStep
<1> QED BY <1>1, SessionInvariance, PTL DEF SessionSpec, CallsOnlyByHolder
=============================================================================
