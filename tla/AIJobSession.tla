---------------------------- MODULE AIJobSession ----------------------------
(***************************************************************************)
(* The job queue of AIJobLease when a job may be created without a session.*)
(* Creating the session is best effort (ensureIncidentSessionIDBestEffort),*)
(* so a row may have no session_id.  It is filled in later by Finalize, or *)
(* by a request that only reads the job: the session context of a job      *)
(* (session_runtime.go) and a Run that answers for a known idempotency key.*)
(* Those two save the whole row that they have read.                       *)
(***************************************************************************)
EXTENDS AIJobLease

VARIABLES
  session,  \* session[j]: the row of j has a session_id
  backfill  \* per slot, the row that a request is about to save

sessionVars == <<now, job, incident, calls, signal, tx, session, backfill>>

NoBackfill == [op |-> "idle"]
Backfill == {NoBackfill} \cup [op: {"save"}, job: Jobs, row: JobRow]

SessionInit ==
  /\ Init
  /\ session = [j \in Jobs |-> FALSE]
  /\ backfill = [c \in Clients |-> NoBackfill]

\* Run gives the new job its session, and Finalize one that has none, unless the
\* attempt fails.
Attach(c) ==
  \E attached \in BOOLEAN :
    session' = [j \in Jobs |->
      session[j] \/ (attached /\ \/ job[j].status = "absent" /\ job'[j].status = "queued"
                                 \/ tx[c].op = "finalize" /\ tx[c].job = j)]

SubmitOrFinalize(c) ==
  /\ RunCommit(c) \/ FinalizeCommit(c)
  /\ Attach(c)
  /\ UNCHANGED backfill

\* A slot holds one request at a time.
OtherRequest(c) ==
  /\ backfill[c] = NoBackfill
  /\ \/ Begin(c)
     \/ StartClaims(c)
     \/ StartRenews(c)
     \/ RenewCommit(c)
     \/ CancelCommit(c)
     \/ CallClaims(c)
     \/ CallRenews(c)
     \/ ListBumps(c)
     \/ ListReclaims(c)
     \/ Abort(c)
  /\ UNCHANGED <<session, backfill>>

Clock == Tick /\ UNCHANGED <<session, backfill>>

\* The request reads the row; a row with a session is not written.
BackfillBegin(c, j) ==
  /\ tx[c] = Idle /\ backfill[c] = NoBackfill
  /\ job[j].status # "absent" /\ ~session[j]
  /\ backfill' = [backfill EXCEPT ![c] = [op |-> "save", job |-> j, row |-> job[j]]]
  /\ UNCHANGED <<vars, session>>

\* AIJob().Update: every column of the row as it was read, with the session.
BackfillSave(c) ==
  /\ backfill[c].op = "save"
  /\ job' = [job EXCEPT ![backfill[c].job] = backfill[c].row]
  /\ session' = [session EXCEPT ![backfill[c].job] = TRUE]
  /\ backfill' = [backfill EXCEPT ![c] = NoBackfill]
  /\ UNCHANGED <<now, incident, calls, signal, tx>>

\* No session could be created, or the save failed: the error is swallowed.
BackfillSkip(c) ==
  /\ backfill[c].op = "save"
  /\ backfill' = [backfill EXCEPT ![c] = NoBackfill]
  /\ UNCHANGED <<vars, session>>

SessionNext ==
  \/ Clock
  \/ \E c \in Clients :
       \/ SubmitOrFinalize(c)
       \/ OtherRequest(c)
       \/ \E j \in Jobs : BackfillBegin(c, j)
       \/ BackfillSave(c)
       \/ BackfillSkip(c)

SessionSpec == SessionInit /\ [][SessionNext]_sessionVars

-----------------------------------------------------------------------------

\* Every row that waits to be saved is a row of the table's shape.
SessionTypeOK ==
  /\ TypeOK
  /\ session \in [Jobs -> BOOLEAN]
  /\ backfill \in [Clients -> Backfill]

BackfillOf(j) == {c \in Clients : backfill[c].op = "save" /\ backfill[c].job = j}

\* A late save can revive only a job whose row was read, without a session, before
\* the job ended: once a job has ended with no such request pending, it stays ended.
EndedUnreadIsFinal ==
  [][\A j \in Jobs :
       job[j].status \in Terminal /\ BackfillOf(j) = {} => job'[j] = job[j]]_sessionVars
=============================================================================
