---------------------------- MODULE SessionContext ----------------------------
(***************************************************************************)
(* One row of table session_contexts and the requests that rewrite it:     *)
(* reviews, assignments, the SLA automation, patches of a run's context    *)
(* and the mark of the active run                                          *)
(* (internal/apiserver/biz/v1/session/session.go and                       *)
(* internal/apiserver/biz/v1/ai_job/session_runtime.go).                   *)
(*                                                                         *)
(* No request runs in a transaction.  Each reads the row, changes its own  *)
(* columns and saves every column as it was read; several do so twice, or  *)
(* decide on a first read what they write over a second one.  Whatever     *)
(* another request saved in between is lost.                               *)
(*                                                                         *)
(* The three objects that context_state_json holds for the operators       *)
(* (review, assignment, sla) are columns of their own here, and its other  *)
(* keys are `notes'.  Runs are told to patch notes only.                   *)
(***************************************************************************)
EXTENDS Integers, FiniteSets

CONSTANTS
  Slots,      \* concurrent requests
  Assignees,  \* operators that a session can be assigned to
  Reviews,    \* the review states that operators set
  Jobs,       \* the jobs of the session's incident
  Notes,      \* keys of the context that runs patch
  Evidence,   \* ids of pinned evidence
  None,       \* SQL NULL
  DueWindow, EscalationWindow, \* resolveSLAWindows, in ticks
  MaxTime,    \* bound on the clock
  MaxRequests \* bound on the requests

ASSUME SessionAssumption ==
  /\ None \notin Assignees \cup Jobs
  /\ "confirmed" \in Reviews /\ "pending" \notin Reviews
  /\ DueWindow \in Nat \ {0} /\ EscalationWindow \in Nat /\ EscalationWindow > DueWindow
  /\ MaxTime \in Nat /\ MaxRequests \in Nat

NoTime == 0   \* a missing time; the clock starts at 1

\* sla.escalation_level goes with the state, and sla.assigned_at is due_at less
\* the window.  The reason is kept: a changed reason alone is saved as well.
Reasons == {"", "no_assignee", "review_confirmed", "sla_timeout_escalated",
            "sla_due_passed", "within_sla", "operator_requested"}
SLA == [due: Nat, state: {"none", "pending", "escalated"}, reason: Reasons]
NoSLA == [due |-> NoTime, state |-> "none", reason |-> ""]

Row == [made: BOOLEAN, titled: BOOLEAN, review: Reviews \cup {"pending"},
        assignee: Assignees \cup {None}, sla: SLA, notes: SUBSET Notes,
        pins: SUBSET Evidence, run: Jobs \cup {None}]
Columns == {"titled", "review", "assignee", "sla", "notes", "pins", "run"}

\* (The operators named Faulty... are the program with one fault each.  No
\* action uses them: they show that the properties below can fail.)

FaultyFresh(titled) ==
  [made |-> TRUE, titled |-> titled, review |-> "", assignee |-> None,
   sla |-> NoSLA, notes |-> {}, pins |-> {}, run |-> None]

\* The row as it is created; `made' says that there is one, `titled' that the
\* columns filled in later (title, incident) are.
Fresh(titled) ==
  [made |-> TRUE, titled |-> titled, review |-> "pending", assignee |-> None,
   sla |-> NoSLA, notes |-> {}, pins |-> {}, run |-> None]
NoRow == [Fresh(FALSE) EXCEPT !.made = FALSE]

VARIABLES
  now,     \* the servers' clock
  row,     \* the session's row
  record,  \* its assignee in table session_assignments
  job,     \* the life of the jobs: new, active, finalized or canceled
  req,     \* per slot, the request in flight
  begun,   \* requests so far
  replayed,\* history: the job that the last Run was answered with from its idempotency
           \* key; None when a job was made or finalized since
  clean    \* history: no request has yet saved over what it had not seen, or failed
           \* between two writes, and no Run has overlapped another

vars == <<now, row, record, job, req, begun, replayed, clean>>

\* A request: the columns it gives and their values, the row as it last read it,
\* and whether no other request saved since it began.
NoRequest == [op |-> "none", step |-> "idle", gives |-> {}, new |-> NoRow,
              read |-> NoRow, alone |-> TRUE]
Ops == {"none", "resolve", "set_run", "clear_run", "patch", "review", "assign", "touch",
        "batch", "clear_sla"}
Request == [op: Ops, step: {"idle", "create", "begun", "read", "record"},
            gives: SUBSET Columns, new: Row, read: Row, alone: BOOLEAN]

-----------------------------------------------------------------------------

Init ==
  /\ now = 1
  /\ row = NoRow
  /\ record = None
  /\ job = [j \in Jobs |-> "new"]
  /\ req = [c \in Slots |-> NoRequest]
  /\ begun = 0
  /\ replayed = None
  /\ clean = TRUE

Begin(c, op, step, gives, new) ==
  /\ req[c] = NoRequest
  /\ begun < MaxRequests /\ begun' = begun + 1
  /\ req' = [req EXCEPT ![c] = [op |-> op, step |-> step, gives |-> gives, new |-> new,
                                read |-> IF step = "read" THEN row ELSE NoRow,
                                alone |-> TRUE]]
  /\ UNCHANGED <<now, row, record>>

\* A row with the columns of n in gives and the others of r.
Given(r, gives, n, sla) ==
  LET col(f) == IF f \in gives THEN n[f] ELSE r[f] IN
  [made |-> r.made, titled |-> col("titled"), review |-> col("review"),
   assignee |-> col("assignee"), sla |-> sla, notes |-> col("notes"),
   pins |-> col("pins"), run |-> col("run")]

\* A patch of the notes is merged into the whole context_state_json of the first
\* read, and saved as a whole: the objects of the operators go with it.
Carried == {"review", "assignee", "sla"}
Written(op, gives) ==
  gives \cup (IF op = "patch" /\ "notes" \in gives THEN Carried ELSE {})

SyncOps == {"touch", "batch", "clear_sla"}

FaultyKeepsDue(q) ==
  LET W == Written(q.op, q.gives) IN
  Given(q.read, W, q.new,
        IF "sla" \notin W THEN q.read.sla
        ELSE IF q.op \in SyncOps /\ q.read.sla.due # NoTime
             THEN [q.new.sla EXCEPT !.due = q.read.sla.due]
        ELSE q.new.sla)

FaultyGivesRun(q) ==
  Given(q.read, Written(q.op, q.gives) \cup {"run"}, q.new, q.read.sla)

\* What q saves over the row it read.  SyncSLAState keeps the due time of that row
\* when it is given none.
Over(q) ==
  LET W == Written(q.op, q.gives) IN
  Given(q.read, W, q.new,
        IF "sla" \notin W THEN q.read.sla
        ELSE IF q.op \in SyncOps /\ q.new.sla.due = NoTime
             THEN [q.new.sla EXCEPT !.due = q.read.sla.due]
        ELSE q.new.sla)

\* The requests in flight after c saved, c going on as r.
Others(c, r) ==
  [d \in Slots |-> IF d = c THEN r
                   ELSE IF req[d] = NoRequest THEN req[d]
                   ELSE [req[d] EXCEPT !.alone = FALSE]]

\* SessionContext().Update: every column, and updated_at.
SaveAs(c, r, next) ==
  /\ row' = r
  /\ req' = Others(c, next)
  /\ clean' = (clean /\ req[c].alone)

Done(c) == req' = [req EXCEPT ![c] = NoRequest]

-----------------------------------------------------------------------------
(* ResolveOrCreate.                                                        *)

\* A row that lacks the title is read to be saved with it; no row, and one is made.
Resolve(c, titled) ==
  /\ ~row.made \/ (titled /\ ~row.titled)
  /\ Begin(c, "resolve", IF row.made THEN "read" ELSE "create", {"titled"},
           Fresh(titled))
  /\ UNCHANGED <<job, replayed, clean>>

\* Create; after a duplicate key the row of the other request is the answer.
Create(c) ==
  /\ req[c].step = "create"
  /\ IF row.made
     THEN Done(c) /\ UNCHANGED <<row, clean>>
     ELSE SaveAs(c, req[c].new, NoRequest)
  /\ UNCHANGED <<now, record, job, begun, replayed>>

-----------------------------------------------------------------------------
(* The active run: after the commit of Run, and after that of Finalize.    *)

\* Run makes a job when it finds none active: one that is active all the same was
\* made by a Run that it overlapped.
JobRuns(c, j) ==
  /\ row.made
  /\ job[j] = "new"
  /\ job' = [job EXCEPT ![j] = "active"] /\ replayed' = None
  /\ clean' = (clean /\ \A k \in Jobs : job[k] # "active")
  /\ Begin(c, "set_run", "begun", {"run"}, [NoRow EXCEPT !.run = j])

\* Run is answered from its idempotency key: the job is there already, perhaps ended,
\* and is made the active run again.
JobReplayed(c, j) ==
  /\ row.made
  /\ job[j] # "new"
  /\ replayed' = j
  /\ Begin(c, "set_run", "begun", {"run"}, [NoRow EXCEPT !.run = j])
  /\ UNCHANGED <<job, clean>>

FaultyJobEnds(c, j, E) ==
  /\ job[j] = "active"
  /\ job' = [job EXCEPT ![j] = "finalized"] /\ replayed' = None
  /\ Begin(c, "clear_run", "begun", {"pins"}, [NoRow EXCEPT !.pins = E])
  /\ UNCHANGED clean

\* Finalize.  A job that succeeded with evidence pins that evidence and no other.
JobEnds(c, j, E) ==
  /\ job[j] = "active"
  /\ job' = [job EXCEPT ![j] = "finalized"] /\ replayed' = None
  /\ Begin(c, "clear_run", "begun", IF E = {} THEN {"run"} ELSE {"run", "pins"},
           [NoRow EXCEPT !.pins = E])
  /\ UNCHANGED clean

\* Cancel leaves the session as it is.
JobCanceled(j) ==
  /\ job[j] = "active"
  /\ job' = [job EXCEPT ![j] = "canceled"]
  /\ UNCHANGED <<now, row, record, req, begun, replayed, clean>>

-----------------------------------------------------------------------------
(* PatchJobSessionContext: a run's patch, merged into what it reads first. *)

\* context_state_json without any object or key.
Empty(r) == r.notes = {} /\ r.review = "pending" /\ r.assignee = None /\ r.sla = NoSLA

\* The revision (updated_at) that a run may send with its patch is compared with
\* this first read, and not looked at again: here the patches that pass.  What is
\* merged to nothing is not written: the last key of the context or the last pinned
\* evidence cannot be removed.
PatchBegin(c, set, unset, pin, unpin) ==
  LET notes == (row.notes \cup set) \ unset
      pins == (row.pins \cup pin) \ unpin
      merged == [row EXCEPT !.notes = notes, !.pins = pins]
  IN
  /\ row.made
  /\ Begin(c, "patch", "begun",
           {f \in {"notes"} : set \cup unset # {} /\ ~Empty(merged)}
             \cup {f \in {"pins"} : pin \cup unpin # {} /\ pins # {}},
           merged)
  /\ UNCHANGED <<job, replayed, clean>>

-----------------------------------------------------------------------------
(* Operators: reviews, assignments, replays and follow-ups.                *)

ReviewBegin(c, v) ==
  /\ row.made
  /\ Begin(c, "review", "read", {"review"}, [NoRow EXCEPT !.review = v])
  /\ UNCHANGED <<job, replayed, clean>>

FaultyAssignKeepsSLA(c, o) ==
  /\ row.made
  /\ Begin(c, "assign", "read", {"assignee"}, [NoRow EXCEPT !.assignee = o])
  /\ UNCHANGED <<job, replayed, clean>>

AssignBegin(c, o) ==
  /\ row.made
  /\ Begin(c, "assign", "read", {"assignee", "sla"},
           [NoRow EXCEPT !.assignee = o,
                         !.sla = [due |-> now + DueWindow, state |-> "none", reason |-> ""]])
  /\ UNCHANGED <<job, replayed, clean>>

\* TouchSLAOnAction: the operator asked for a replay or a follow-up.
TouchBegin(c) ==
  /\ row.made /\ row.assignee # None
  /\ Begin(c, "touch", "begun", {"sla"},
           [NoRow EXCEPT !.sla = [due |-> now + DueWindow, state |-> "none",
                                  reason |-> "operator_requested"]])
  /\ UNCHANGED <<job, replayed, clean>>

-----------------------------------------------------------------------------
(* SyncSLABatch.                                                           *)

\* The state and the reason that the clock gives an assigned session.
Overdue(r) ==
  IF now > r.sla.due + (EscalationWindow - DueWindow) THEN "escalated"
  ELSE IF now > r.sla.due THEN "pending" ELSE "none"

OverdueReason(r) ==
  IF now > r.sla.due + (EscalationWindow - DueWindow) THEN "sla_timeout_escalated"
  ELSE IF now > r.sla.due THEN "sla_due_passed"
  ELSE IF r.sla.reason = "" THEN "within_sla" ELSE r.sla.reason

\* evaluateSessionSLAAutomationState.  An assigned session always has a due time
\* (AssignedHasDeadline), so no default of it is needed.
Target(r) ==
  [due |-> r.sla.due,
   state |-> IF r.assignee = None \/ r.review = "confirmed" THEN "none" ELSE Overdue(r),
   reason |-> IF r.assignee = None THEN "no_assignee"
              ELSE IF r.review = "confirmed" THEN "review_confirmed" ELSE OverdueReason(r)]

\* The target is that of the row as it is listed.  One batch of a shard runs at a
\* time (beginSLABatch), as far as one server's asynchronous batches go.
BatchBegin(c) ==
  /\ row.made
  /\ Begin(c, "batch", "begun", {"sla"}, [NoRow EXCEPT !.sla = Target(row)])
  /\ UNCHANGED <<job, replayed, clean>>

-----------------------------------------------------------------------------
(* The steps that the requests share.                                      *)

\* getSessionByID, by sessionBiz.Update and SyncSLAState.
Read(c) ==
  /\ req[c].step = "begun"
  /\ req' = [req EXCEPT ![c].step = "read", ![c].read = row]
  /\ UNCHANGED <<now, row, record, job, begun, replayed, clean>>

\* What follows the save: the SLA of a confirmed review is cleared, the
\* assignment is copied to the other table.
Then(r) ==
  CASE r.op = "review" /\ r.new.review = "confirmed" ->
         [r EXCEPT !.op = "clear_sla", !.step = "begun", !.gives = {"sla"}, !.read = NoRow,
                   !.new = [NoRow EXCEPT !.sla.reason = "review_confirmed"]]
    [] r.op = "assign" ->
         [r EXCEPT !.step = "record", !.gives = {}, !.read = NoRow, !.new.sla = NoSLA]
    [] OTHER -> NoRequest

\* SyncSLAState does not save an SLA that is there already.
Save(c) ==
  LET r == req[c]
      new == Over(r)
  IN
  /\ r.step = "read"
  /\ IF r.op \in SyncOps /\ new = r.read
     THEN Done(c) /\ UNCHANGED <<row, clean>>
     ELSE SaveAs(c, new, Then(r))
  /\ UNCHANGED <<now, record, job, begun, replayed>>

\* UpsertSessionAssignment, which AssignSession calls again after UpdateAssignment did.
Record(c, again) ==
  /\ req[c].step = "record"
  /\ record' = req[c].new.assignee
  /\ req' = Others(c, IF again THEN req[c] ELSE NoRequest)
  /\ clean' = (clean /\ req[c].alone)
  /\ UNCHANGED <<now, row, job, begun, replayed>>

\* What a request leaves half done when it fails: these steps are best effort.
HalfDone(r) == r.op \in {"set_run", "clear_run", "clear_sla"} \/ r.step = "record"

Fail(c) ==
  /\ req[c] # NoRequest
  /\ clean' = (clean /\ ~HalfDone(req[c]))
  /\ Done(c)
  /\ UNCHANGED <<now, row, record, job, begun, replayed>>

Tick ==
  /\ now < MaxTime
  /\ now' = now + 1
  /\ UNCHANGED <<row, record, job, req, begun, replayed, clean>>

-----------------------------------------------------------------------------

Handle(c) ==
  \/ \E titled \in BOOLEAN : Resolve(c, titled)
  \/ \E j \in Jobs : JobRuns(c, j) \/ JobReplayed(c, j)
  \/ \E j \in Jobs, E \in SUBSET Evidence : JobEnds(c, j, E)
  \/ \E set, unset \in SUBSET Notes, pin, unpin \in SUBSET Evidence :
       PatchBegin(c, set, unset, pin, unpin)
  \/ \E v \in Reviews : ReviewBegin(c, v)
  \/ \E o \in Assignees : AssignBegin(c, o)
  \/ TouchBegin(c)
  \/ BatchBegin(c)

Next ==
  \/ Tick
  \/ \E j \in Jobs : JobCanceled(j)
  \/ \E c \in Slots : Handle(c) \/ Create(c) \/ Read(c) \/ Save(c) \/ Fail(c)
                     \/ \E again \in BOOLEAN : Record(c, again)

Spec == Init /\ [][Next]_vars

-----------------------------------------------------------------------------
(* Properties.                                                             *)

\* The row, the requests and every row that they hold have the table's shape.
TypeOK ==
  /\ now \in Nat /\ begun \in Nat /\ row \in Row /\ record \in Assignees \cup {None}
  /\ job \in [Jobs -> {"new", "active", "finalized", "canceled"}]
  /\ replayed \in Jobs \cup {None} /\ clean \in BOOLEAN
  /\ req \in [Slots -> Request]

\* The time that a state of the SLA has to wait for.
EscalatesAfter(s) ==
  CASE s.state = "escalated" -> s.due + (EscalationWindow - DueWindow)
    [] s.state = "pending" -> s.due
    [] OTHER -> NoTime

\* Although the escalation is decided on a row that is listed, and written over a
\* row that may have been assigned anew since, a session never shows an escalation
\* that its own due time does not justify.
EscalationIsDue == row.sla.state # "none" => now > EscalatesAfter(row.sla)

\* An assigned session has a due time, whatever rows are saved over it.
AssignedHasDeadline == row.assignee # None => row.sla.due # NoTime

\* What the session is to show of the jobs.
Shown(v) ==
  IF replayed # None THEN v = replayed
  ELSE IF \E j \in Jobs : job[j] = "active" THEN v \in Jobs /\ job[v] = "active"
  ELSE v \in Jobs => job[v] = "canceled"

\* Until requests overlap or fail halfway, and once they are done: the session shows
\* the active job, and one that has ended only if it was canceled, which clears
\* nothing, or if a Run was answered with it since; the copy of the assignee is
\* right, and a confirmed review has no escalation.
CleanIsConsistent ==
  clean /\ (\A c \in Slots : req[c] = NoRequest) =>
    /\ Shown(row.run)
    /\ record = row.assignee
    /\ row.review = "confirmed" => row.sla.state = "none"

\* A column changes by a request that is about it, or is lost to one that began before
\* the last save: the columns that a patch only carries along are not lost to it either.
LostOnlyByOverlap ==
  [][row.made => \A f \in Columns : row'[f] # row[f] =>
       \E c \in Slots : /\ req[c].step = "read" /\ req'[c] # req[c]
                        /\ f \in req[c].gives \/ ~req[c].alone]_vars
=============================================================================
