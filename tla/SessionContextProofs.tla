------------------------ MODULE SessionContextProofs ------------------------
(***************************************************************************)
(* What holds of a session's row for every number of requests, operators   *)
(* and jobs, however their reads and saves interleave.                     *)
(***************************************************************************)
EXTENDS SessionContext, TLAPS

\* By the clock t, the state of an SLA is justified by its own due time.
Justified(s, t) == s.state # "none" => s.due # NoTime /\ t > EscalatesAfter(s)

\* A row, in the table or read by a request, has its deadline and a state of the
\* SLA that the deadline justifies.
Sound(r, t) ==
  /\ r.assignee # None => r.sla.due # NoTime
  /\ Justified(r.sla, t)

\* What a request is about to write leaves any sound row sound.
Fits(op, gives, n, t) ==
  LET W == Written(op, gives) IN
  /\ Justified(n.sla, t)
  /\ "assignee" \in W => "sla" \in W /\ (n.assignee # None => n.sla.due # NoTime)
  /\ "sla" \in W => (op \in SyncOps <=> "assignee" \notin W)

SoundRequest(q, t) ==
  /\ Sound(q.read, t)
  /\ Fits(q.op, q.gives, q.new, t)
  /\ q.step = "create" => Sound(q.new, t)

IInv ==
  /\ TypeOK
  /\ now > 0
  /\ Sound(row, now)
  /\ \A c \in Slots : SoundRequest(req[c], now)

-----------------------------------------------------------------------------
(* Rows.                                                                   *)

\* The rows that the code makes without reading one have the table's shape.
LEMMA MadeRows ==
  /\ NoRow \in Row
  /\ \A titled \in BOOLEAN : Fresh(titled) \in Row
<1>1. NoSLA \in SLA
  BY DEF NoSLA, SLA, NoTime, Reasons
<1>2. ASSUME NEW titled \in BOOLEAN PROVE Fresh(titled) \in Row
  BY <1>1 DEF Fresh, Row
<1>3. NoRow \in Row
  BY <1>1 DEF NoRow, Fresh, Row
<1>4. QED  BY <1>2, <1>3

LEMMA MadeRowsAreSound ==
  ASSUME NEW t
  PROVE  Sound(NoRow, t) /\ \A titled : Sound(Fresh(titled), t)
BY DEF NoRow, Fresh, NoSLA, Sound, Justified

\* A save keeps the shape of the table.
LEMMA OverTyped ==
  ASSUME NEW q \in Request
  PROVE  Over(q) \in Row
<1> DEFINE W == Written(q.op, q.gives)
           sla == IF "sla" \notin W THEN q.read.sla
                  ELSE IF q.op \in SyncOps /\ q.new.sla.due = NoTime
                       THEN [q.new.sla EXCEPT !.due = q.read.sla.due]
                  ELSE q.new.sla
<1>1. sla \in SLA /\ q.read \in Row /\ q.new \in Row
  BY DEF Request, Row, SLA
<1>2. Over(q) = Given(q.read, W, q.new, sla)
  BY DEF Over
<1> HIDE DEF sla, W
<1>3. Given(q.read, W, q.new, sla) \in Row
  BY <1>1 DEF Given, Row
<1>4. QED  BY <1>2, <1>3

\* A save of a sound row with columns that fit is sound.
LEMMA OverSound ==
  ASSUME NEW t, NEW q \in Request, Sound(q.read, t), Fits(q.op, q.gives, q.new, t)
  PROVE  Sound(Over(q), t)
<1> DEFINE new == Over(q)
           W == Written(q.op, q.gives)
<1>a. q.read \in Row /\ q.new \in Row /\ q.read.sla \in SLA /\ q.new.sla \in SLA
  BY DEF Request, Row
<1>1. CASE "sla" \notin W
  <2>1. new.sla = q.read.sla /\ new.assignee = q.read.assignee
    BY <1>1 DEF Over, Given, Fits
  <2>2. QED  BY <2>1 DEF Sound
<1>2. CASE "sla" \in W /\ q.op \in SyncOps /\ q.new.sla.due = NoTime
  <2>1. /\ new.sla = [q.new.sla EXCEPT !.due = q.read.sla.due]
        /\ new.assignee = q.read.assignee
    BY <1>2 DEF Over, Given, Fits
  <2>2. q.new.sla.state = "none"
    BY <1>2 DEF Fits, Justified
  <2>3. new.sla.state = "none" /\ new.sla.due = q.read.sla.due
    BY <2>1, <2>2, <1>a DEF SLA
  <2>4. QED  BY <2>1, <2>3 DEF Sound, Justified
<1>3. CASE "sla" \in W /\ q.op \in SyncOps /\ q.new.sla.due # NoTime
  <2>1. new.sla = q.new.sla
    BY <1>3 DEF Over, Given
  <2>2. QED  BY <2>1, <1>3 DEF Sound, Fits
<1>4. CASE "sla" \in W /\ q.op \notin SyncOps
  <2>1. new.sla = q.new.sla
    BY <1>4 DEF Over, Given
  <2>2. "assignee" \in W
    BY <1>4 DEF Fits
  <2>3. new.assignee = q.new.assignee
    BY <2>2 DEF Over, Given
  <2>4. QED  BY <2>1, <2>2, <2>3 DEF Sound, Fits
<1>5. QED  BY <1>1, <1>2, <1>3, <1>4

\* What the evaluation of a sound row decides is justified.
LEMMA TargetSound ==
  ASSUME NEW r \in Row, now \in Nat, Sound(r, now)
  PROVE  Target(r) \in SLA /\ Justified(Target(r), now)
<1>1. r.sla.due \in Nat /\ r.sla.reason \in Reasons
  BY DEF Row, SLA
<1>2. OverdueReason(r) \in Reasons /\ Overdue(r) \in {"none", "pending", "escalated"}
  BY <1>1 DEF OverdueReason, Overdue, Reasons
<1>3. Target(r) \in SLA
  BY <1>1, <1>2 DEF Target, SLA, Reasons
<1>4. CASE r.assignee = None \/ r.review = "confirmed"
  BY <1>3, <1>4 DEF Target, Justified
<1>5. CASE r.assignee # None /\ r.review # "confirmed"
  <2>1. Target(r).due = r.sla.due /\ Target(r).state = Overdue(r) /\ r.sla.due # NoTime
    BY <1>5 DEF Sound, Target
  <2>2. Overdue(r) # "none" => now > EscalatesAfter(Target(r))
    BY <2>1, <1>1, SessionAssumption DEF EscalatesAfter, Overdue
  <2>3. QED  BY <1>3, <2>1, <2>2 DEF Justified
<1>6. QED  BY <1>4, <1>5

-----------------------------------------------------------------------------
(* The steps.                                                              *)

LEMMA InitKeeps == Init => IInv
<1> SUFFICES ASSUME Init PROVE IInv
  OBVIOUS
<1>1. NoRequest \in Request /\ SoundRequest(NoRequest, now)
  BY MadeRows, MadeRowsAreSound
  DEF NoRequest, Request, Ops, SoundRequest, Fits, Written, Justified, NoRow, Fresh, NoSLA
<1>2. row \in Row /\ Sound(row, now)
  BY MadeRows, MadeRowsAreSound DEF Init
<1>3. TypeOK
  BY <1>1, <1>2 DEF Init, TypeOK
<1>4. QED  BY <1>1, <1>2, <1>3 DEF Init, IInv

\* A request that begins with columns that fit leaves everything sound.
LEMMA BeginKeeps ==
  ASSUME IInv, NEW c \in Slots, NEW op \in Ops,
         NEW step \in {"create", "begun", "read"},
         NEW gives \in SUBSET Columns, NEW new \in Row, Fits(op, gives, new, now),
         step = "create" => Sound(new, now),
         Begin(c, op, step, gives, new),
         job' \in [Jobs -> {"new", "active", "finalized", "canceled"}],
         replayed' \in Jobs \cup {None}, clean' \in BOOLEAN
  PROVE  IInv'
<1> DEFINE q == [op |-> op, step |-> step, gives |-> gives, new |-> new,
                 read |-> IF step = "read" THEN row ELSE NoRow, alone |-> TRUE]
<1>1. q \in Request /\ SoundRequest(q, now)
  BY MadeRows, MadeRowsAreSound DEF IInv, TypeOK, Request, SoundRequest
<1>2. req' = [req EXCEPT ![c] = q]
  BY DEF Begin
<1> HIDE DEF q
<1>3. TypeOK'
  <2>1. req' \in [Slots -> Request]
    BY <1>1, <1>2 DEF IInv, TypeOK
  <2>2. begun' \in Nat
    BY DEF Begin, IInv, TypeOK
  <2>3. UNCHANGED <<now, row, record>>
    BY DEF Begin
  <2>4. QED  BY <2>1, <2>2, <2>3 DEF IInv, TypeOK
<1>4. \A d \in Slots : SoundRequest(req'[d], now')
  BY <1>1, <1>2 DEF Begin, IInv, TypeOK
<1>5. QED  BY <1>3, <1>4 DEF Begin, IInv

\* The request of c goes on, the others have been overtaken.
LEMMA OthersSound ==
  ASSUME IInv, NEW c \in Slots, NEW next \in Request, SoundRequest(next, now),
         req' = Others(c, next)
  PROVE  \A d \in Slots : req'[d] \in Request /\ SoundRequest(req'[d], now)
<1> TAKE d \in Slots
<1>1. CASE d = c \/ req[d] = NoRequest
  BY <1>1 DEF Others, IInv, TypeOK
<1>2. CASE d # c /\ req[d] # NoRequest
  <2>1. req'[d] = [req[d] EXCEPT !.alone = FALSE]
    BY <1>2 DEF Others
  <2>2. req[d] \in Request /\ SoundRequest(req[d], now)
    BY DEF IInv, TypeOK
  <2>3. /\ req'[d] \in Request /\ req'[d].read = req[d].read
        /\ req'[d].gives = req[d].gives /\ req'[d].new = req[d].new
        /\ req'[d].step = req[d].step /\ req'[d].op = req[d].op
    BY <2>1, <2>2 DEF Request
  <2>4. QED  BY <2>2, <2>3 DEF SoundRequest
<1>3. QED  BY <1>1, <1>2

\* A save of a sound row, after which the request goes on soundly.
LEMMA SaveKeeps ==
  ASSUME IInv, NEW c \in Slots, NEW r \in Row, NEW next \in Request,
         Sound(r, now), SoundRequest(next, now), SaveAs(c, r, next),
         UNCHANGED <<now, record, job, begun, replayed>>
  PROVE  IInv'
<1>1. \A d \in Slots : req'[d] \in Request /\ SoundRequest(req'[d], now)
  BY OthersSound DEF SaveAs
<1>2. TypeOK'
  BY <1>1 DEF SaveAs, Others, IInv, TypeOK, Request
<1>3. QED  BY <1>1, <1>2 DEF SaveAs, IInv

\* A step that changes one request only.
LEMMA MoveKeeps ==
  ASSUME IInv, NEW c \in Slots, NEW q \in Request, SoundRequest(q, now),
         req' = [req EXCEPT ![c] = q], clean' \in BOOLEAN,
         UNCHANGED <<now, row, record, job, begun, replayed>>
  PROVE  IInv'
<1>1. TypeOK'
  BY DEF IInv, TypeOK
<1>2. QED  BY <1>1 DEF IInv, TypeOK

LEMMA IdleIsSound == NoRequest \in Request /\ \A t : SoundRequest(NoRequest, t)
<1>1. NoRequest \in Request
  BY MadeRows DEF NoRequest, Request, Ops
<1>2. ASSUME NEW t PROVE SoundRequest(NoRequest, t)
  BY MadeRowsAreSound DEF NoRequest, SoundRequest, Fits, Written, Justified, NoRow, Fresh, NoSLA
<1>3. QED  BY <1>1, <1>2

-----------------------------------------------------------------------------
(* Every action.                                                           *)

LEMMA PlainFits ==
  ASSUME NEW op, NEW gives, NEW n \in Row, NEW t, n.sla = NoSLA, op # "patch",
         gives \cap {"assignee", "sla"} = {}
  PROVE  Fits(op, gives, n, t)
<1>1. NoSLA.state = "none"
  BY DEF NoSLA
<1>2. n.sla.state = "none"
  BY <1>1
<1>3. QED  BY <1>2 DEF Fits, Justified, Written

\* Each request begins with columns that fit.
LEMMA HandleKeeps ==
  ASSUME IInv, NEW c \in Slots, Handle(c)
  PROVE  IInv'
<1> DEFINE JobOK == /\ job' \in [Jobs -> {"new", "active", "finalized", "canceled"}]
                    /\ replayed' \in Jobs \cup {None} /\ clean' \in BOOLEAN
<1>a. now \in Nat /\ now > 0 /\ row \in Row /\ Sound(row, now)
  BY DEF IInv, TypeOK
<1>b. /\ job \in [Jobs -> {"new", "active", "finalized", "canceled"}]
      /\ replayed \in Jobs \cup {None} /\ clean \in BOOLEAN
  BY DEF IInv, TypeOK
<1>1. CASE \E titled \in BOOLEAN : Resolve(c, titled)
  <2>1. PICK titled \in BOOLEAN : Resolve(c, titled)
    BY <1>1
  <2>2. Fresh(titled) \in Row /\ Fits("resolve", {"titled"}, Fresh(titled), now) /\ Sound(Fresh(titled), now)
    BY MadeRows, MadeRowsAreSound DEF Fits, Justified, Written, Fresh, NoSLA
  <2>3. (IF row.made THEN "read" ELSE "create") \in {"create", "begun", "read"}
    OBVIOUS
  <2>4. "resolve" \in Ops /\ {"titled"} \in SUBSET Columns
    BY DEF Ops, Columns
  <2>5. QED  BY <2>1, <2>2, <2>3, <2>4, <1>b, BeginKeeps DEF Resolve
<1>2. CASE \E j \in Jobs : JobRuns(c, j) \/ JobReplayed(c, j)
  <2>1. PICK j \in Jobs : JobRuns(c, j) \/ JobReplayed(c, j)
    BY <1>2
  <2> DEFINE new == [NoRow EXCEPT !.run = j]
  <2>2. new \in Row /\ new.sla = NoSLA
    BY MadeRows DEF Row, NoRow, Fresh
  <2>3. Fits("set_run", {"run"}, new, now)
    <3> HIDE DEF new
    <3>1. QED  BY <2>2, PlainFits
  <2>4. "set_run" \in Ops /\ {"run"} \in SUBSET Columns /\ JobOK
    BY <2>1, <1>b DEF Ops, Columns, JobRuns, JobReplayed
  <2>5. Begin(c, "set_run", "begun", {"run"}, new)
    BY <2>1 DEF JobRuns, JobReplayed
  <2> HIDE DEF new
  <2>6. QED  BY <2>2, <2>3, <2>4, <2>5, BeginKeeps
<1>3. CASE \E j \in Jobs, E \in SUBSET Evidence : JobEnds(c, j, E)
  <2>1. PICK j \in Jobs, E \in SUBSET Evidence : JobEnds(c, j, E)
    BY <1>3
  <2> DEFINE new == [NoRow EXCEPT !.pins = E]
             gives == IF E = {} THEN {"run"} ELSE {"run", "pins"}
  <2>2. new \in Row /\ new.sla = NoSLA
    BY MadeRows DEF Row, NoRow, Fresh
  <2>3. gives \in SUBSET Columns /\ gives \cap {"assignee", "sla"} = {}
    BY DEF Columns
  <2>4. Fits("clear_run", gives, new, now)
    <3> HIDE DEF new, gives
    <3>1. QED  BY <2>2, <2>3, PlainFits
  <2>5. "clear_run" \in Ops /\ JobOK
    BY <2>1, <1>b DEF Ops, JobEnds
  <2>6. Begin(c, "clear_run", "begun", gives, new)
    BY <2>1 DEF JobEnds
  <2> HIDE DEF new, gives
  <2>7. QED  BY <2>2, <2>3, <2>4, <2>5, <2>6, BeginKeeps
<1>4. CASE \E set, unset \in SUBSET Notes, pin, unpin \in SUBSET Evidence :
             PatchBegin(c, set, unset, pin, unpin)
  <2>1. PICK set \in SUBSET Notes, unset \in SUBSET Notes, pin \in SUBSET Evidence,
             unpin \in SUBSET Evidence : PatchBegin(c, set, unset, pin, unpin)
    BY <1>4
  <2> DEFINE notes == (row.notes \cup set) \ unset
             pins == (row.pins \cup pin) \ unpin
             merged == [row EXCEPT !.notes = notes, !.pins = pins]
             gives == {f \in {"notes"} : set \cup unset # {} /\ ~Empty(merged)}
                        \cup {f \in {"pins"} : pin \cup unpin # {} /\ pins # {}}
  <2>2. notes \in SUBSET Notes /\ pins \in SUBSET Evidence
    BY <1>a DEF Row
  <2> HIDE DEF notes, pins
  <2>3. merged \in Row /\ merged.sla = row.sla /\ merged.assignee = row.assignee
    BY <2>2, <1>a DEF Row
  <2> HIDE DEF merged
  <2>4. gives \in SUBSET Columns /\ gives \cap {"assignee", "sla"} = {}
    BY DEF Columns
  <2> HIDE DEF gives
  <2>5. Fits("patch", gives, merged, now)
    <3>1. "assignee" \in Written("patch", gives) <=> "sla" \in Written("patch", gives)
      BY <2>4 DEF Written, Carried
    <3>2. QED  BY <3>1, <2>3, <1>a DEF Fits, Sound, SyncOps
  <2>6. "patch" \in Ops /\ Begin(c, "patch", "begun", gives, merged) /\ JobOK
    BY <2>1, <1>b DEF Ops, PatchBegin, gives, merged, notes, pins
  <2>7. QED  BY <2>3, <2>4, <2>5, <2>6, BeginKeeps
<1>5. CASE \E v \in Reviews : ReviewBegin(c, v)
  <2>1. PICK v \in Reviews : ReviewBegin(c, v)
    BY <1>5
  <2> DEFINE new == [NoRow EXCEPT !.review = v]
  <2>2. new \in Row /\ new.sla = NoSLA
    BY MadeRows DEF Row, NoRow, Fresh
  <2>3. Fits("review", {"review"}, new, now)
    <3> HIDE DEF new
    <3>1. QED  BY <2>2, PlainFits
  <2>4. "review" \in Ops /\ {"review"} \in SUBSET Columns
    BY DEF Ops, Columns
  <2>5. Begin(c, "review", "read", {"review"}, new) /\ JobOK
    BY <2>1, <1>b DEF ReviewBegin
  <2> HIDE DEF new
  <2>6. QED  BY <2>2, <2>3, <2>4, <2>5, BeginKeeps
<1>6. CASE \E o \in Assignees : AssignBegin(c, o)
  <2>1. PICK o \in Assignees : AssignBegin(c, o)
    BY <1>6
  <2> DEFINE sla == [due |-> now + DueWindow, state |-> "none", reason |-> ""]
             new == [NoRow EXCEPT !.assignee = o, !.sla = sla]
  <2>2. sla \in SLA /\ sla.due # NoTime /\ sla.state = "none"
    BY <1>a, SessionAssumption DEF SLA, Reasons, NoTime
  <2> HIDE DEF sla
  <2>3. new \in Row /\ new.sla = sla
    BY <2>2, MadeRows DEF Row, NoRow, Fresh
  <2>4. Fits("assign", {"assignee", "sla"}, new, now)
    BY <2>2, <2>3 DEF Fits, Justified, Written, SyncOps
  <2>5. "assign" \in Ops /\ {"assignee", "sla"} \in SUBSET Columns
    BY DEF Ops, Columns
  <2>6. Begin(c, "assign", "read", {"assignee", "sla"}, new) /\ JobOK
    BY <2>1, <1>b DEF AssignBegin, sla
  <2> HIDE DEF new
  <2>7. QED  BY <2>3, <2>4, <2>5, <2>6, BeginKeeps
<1>7. CASE TouchBegin(c)
  <2> DEFINE sla == [due |-> now + DueWindow, state |-> "none", reason |-> "operator_requested"]
             new == [NoRow EXCEPT !.sla = sla]
  <2>2. sla \in SLA /\ sla.state = "none"
    BY <1>a, SessionAssumption DEF SLA, Reasons
  <2> HIDE DEF sla
  <2>3. new \in Row /\ new.sla = sla
    BY <2>2, MadeRows DEF Row, NoRow, Fresh
  <2>4. Fits("touch", {"sla"}, new, now)
    BY <2>2, <2>3 DEF Fits, Justified, Written, SyncOps
  <2>5. "touch" \in Ops /\ {"sla"} \in SUBSET Columns
    BY DEF Ops, Columns
  <2>6. Begin(c, "touch", "begun", {"sla"}, new) /\ JobOK
    BY <1>7, <1>b DEF TouchBegin, sla
  <2> HIDE DEF new
  <2>7. QED  BY <2>3, <2>4, <2>5, <2>6, BeginKeeps
<1>8. CASE BatchBegin(c)
  <2> DEFINE sla == Target(row)
             new == [NoRow EXCEPT !.sla = sla]
  <2>2. sla \in SLA /\ Justified(sla, now)
    BY <1>a, TargetSound
  <2> HIDE DEF sla
  <2>3. new \in Row /\ new.sla = sla
    BY <2>2, MadeRows DEF Row, NoRow, Fresh
  <2>4. Fits("batch", {"sla"}, new, now)
    BY <2>2, <2>3 DEF Fits, Written, SyncOps
  <2>5. "batch" \in Ops /\ {"sla"} \in SUBSET Columns
    BY DEF Ops, Columns
  <2>6. Begin(c, "batch", "begun", {"sla"}, new) /\ JobOK
    BY <1>8, <1>b DEF BatchBegin, sla
  <2> HIDE DEF new
  <2>7. QED  BY <2>3, <2>4, <2>5, <2>6, BeginKeeps
<1>9. QED  BY <1>1, <1>2, <1>3, <1>4, <1>5, <1>6, <1>7, <1>8 DEF Handle

\* What a request does after its save fits as well.
LEMMA ThenSound ==
  ASSUME NEW r \in Request, SoundRequest(r, now)
  PROVE  Then(r) \in Request /\ SoundRequest(Then(r), now)
<1>1. CASE r.op = "review" /\ r.new.review = "confirmed"
  <2> DEFINE sla == [NoSLA EXCEPT !.reason = "review_confirmed"]
             n == [NoRow EXCEPT !.sla = sla]
  <2>1. sla \in SLA /\ sla.state = "none"
    BY DEF NoSLA, SLA, NoTime, Reasons
  <2> HIDE DEF sla
  <2>2. n \in Row /\ n.sla = sla
    BY <2>1, MadeRows DEF Row, NoRow, Fresh
  <2> HIDE DEF n
  <2> DEFINE q == [op |-> "clear_sla", step |-> "begun", gives |-> {"sla"}, new |-> n,
                   read |-> NoRow, alone |-> r.alone]
  <2>3. Then(r) = q
    BY <1>1 DEF Then, Request, n, sla, NoRow, Fresh
  <2>4. q \in Request
    BY <2>2, MadeRows DEF Request, Ops, Columns
  <2>5. SoundRequest(q, now)
    BY <2>1, <2>2, MadeRowsAreSound DEF SoundRequest, Fits, Written, SyncOps, Justified
  <2>6. QED  BY <2>3, <2>4, <2>5
<1>2. CASE ~(r.op = "review" /\ r.new.review = "confirmed") /\ r.op = "assign"
  <2> DEFINE n == [r.new EXCEPT !.sla = NoSLA]
             q == [r EXCEPT !.step = "record", !.gives = {}, !.read = NoRow, !.new = n]
  <2>1. n \in Row /\ n.sla = NoSLA
    BY MadeRows DEF Request, Row, NoRow, Fresh
  <2>2. Then(r) = q
    BY <1>2 DEF Then, Request
  <2> HIDE DEF n
  <2>3. /\ q \in Request /\ q.gives = {} /\ q.read = NoRow /\ q.new = n
        /\ q.step = "record" /\ q.op = "assign"
    BY <1>2, <2>1, MadeRows DEF Request
  <2> HIDE DEF q
  <2>4. SoundRequest(q, now)
    BY <2>1, <2>3, PlainFits, MadeRowsAreSound DEF SoundRequest
  <2>5. QED  BY <2>2, <2>3, <2>4
<1>3. CASE ~(r.op = "review" /\ r.new.review = "confirmed") /\ r.op # "assign"
  BY <1>3, IdleIsSound DEF Then
<1>4. QED  BY <1>1, <1>2, <1>3

\* Every step keeps rows and requests sound.
LEMMA NextKeeps == IInv /\ [Next]_vars => IInv'
<1> SUFFICES ASSUME IInv, [Next]_vars PROVE IInv'
  OBVIOUS
<1>a. TypeOK /\ now \in Nat /\ row \in Row /\ Sound(row, now)
  BY DEF IInv, TypeOK
<1>b. \A c \in Slots : req[c] \in Request /\ SoundRequest(req[c], now)
  BY DEF IInv, TypeOK
<1>1. CASE Tick
  <2>1. \A s \in SLA : Justified(s, now) => Justified(s, now')
    <3> TAKE s \in SLA
    <3>1. EscalatesAfter(s) \in Int
      BY SessionAssumption DEF EscalatesAfter, SLA, NoTime
    <3>2. QED  BY <1>1, <3>1, <1>a DEF Tick, Justified
  <2>2. \A r \in Row : Sound(r, now) => Sound(r, now')
    BY <2>1 DEF Sound, Row
  <2>3. \A c \in Slots : SoundRequest(req[c], now')
    BY <1>b, <2>1, <2>2 DEF SoundRequest, Fits, Request, Row
  <2>4. now' \in Nat /\ now' > 0
    BY <1>1 DEF Tick, IInv, TypeOK
  <2>5. QED  BY <1>1, <1>a, <2>2, <2>3, <2>4 DEF Tick, IInv, TypeOK
<1>2. ASSUME NEW c \in Slots, Create(c) PROVE IInv'
  <2>1. req[c].new \in Row
    BY <1>b DEF Request
  <2>2. CASE row.made
    BY <1>2, <2>2, IdleIsSound, MoveKeeps DEF Create, Done, IInv, TypeOK
  <2>3. CASE ~row.made
    <3>1. SaveAs(c, req[c].new, NoRequest) /\ UNCHANGED <<now, record, job, begun, replayed>>
      BY <1>2, <2>3 DEF Create
    <3>2. Sound(req[c].new, now)
      BY <1>2, <1>b DEF Create, SoundRequest
    <3>3. QED  BY <2>1, <3>1, <3>2, IdleIsSound, SaveKeeps
  <2>4. QED  BY <2>2, <2>3
<1>3. ASSUME NEW c \in Slots, Read(c) PROVE IInv'
  <2> DEFINE q == [req[c] EXCEPT !.step = "read", !.read = row]
  <2>1. q \in Request
    BY <1>a, <1>b DEF Request
  <2>2. /\ q.read = row /\ q.gives = req[c].gives /\ q.new = req[c].new /\ q.step = "read"
        /\ q.op = req[c].op
    BY <1>b DEF Request
  <2>3. SoundRequest(q, now)
    BY <1>a, <1>b, <2>2 DEF SoundRequest
  <2>4. req' = [req EXCEPT ![c] = q]
    BY <1>3 DEF Read
  <2>5. clean' \in BOOLEAN /\ UNCHANGED <<now, row, record, job, begun, replayed>>
    BY <1>3, <1>a DEF Read, TypeOK
  <2> HIDE DEF q
  <2>6. QED  BY <2>1, <2>3, <2>4, <2>5, MoveKeeps
<1>4. ASSUME NEW c \in Slots, Save(c) PROVE IInv'
  <2> DEFINE r == req[c]
             new == Over(r)
  <2>1. r \in Request /\ SoundRequest(r, now)
    BY <1>b
  <2>2. new \in Row /\ Sound(new, now)
    BY <2>1, OverTyped, OverSound DEF Request, SoundRequest
  <2>3. CASE r.op \in SyncOps /\ new = r.read
    BY <1>4, <2>3, IdleIsSound, MoveKeeps DEF Save, Done, IInv, TypeOK
  <2>4. CASE ~(r.op \in SyncOps /\ new = r.read)
    <3>1. Then(r) \in Request /\ SoundRequest(Then(r), now)
      BY <2>1, ThenSound
    <3>2. SaveAs(c, new, Then(r)) /\ UNCHANGED <<now, record, job, begun, replayed>>
      BY <1>4, <2>4 DEF Save
    <3> HIDE DEF new, r
    <3>3. QED  BY <2>2, <3>1, <3>2, SaveKeeps
  <2>5. QED  BY <2>3, <2>4
<1>5. ASSUME NEW c \in Slots, NEW again \in BOOLEAN, Record(c, again) PROVE IInv'
  <2>1. record' \in Assignees \cup {None}
    BY <1>5, <1>b DEF Record, Request, Row
  <2> DEFINE next == IF again THEN req[c] ELSE NoRequest
  <2>a. next \in Request /\ SoundRequest(next, now) /\ req' = Others(c, next)
    BY <1>5, <1>b, IdleIsSound DEF Record
  <2> HIDE DEF next
  <2>2. \A d \in Slots : req'[d] \in Request /\ SoundRequest(req'[d], now)
    BY <2>a, OthersSound
  <2>3. clean' \in BOOLEAN
    BY <1>5, <1>a, <1>b DEF Record, TypeOK, Request
  <2>4. req' \in [Slots -> Request]
    BY <2>a, <2>2 DEF Others
  <2>5. TypeOK'
    BY <1>5, <1>a, <2>1, <2>3, <2>4 DEF Record, TypeOK
  <2>6. QED  BY <1>5, <2>2, <2>5 DEF Record, IInv
<1>6. ASSUME NEW c \in Slots, Fail(c) PROVE IInv'
  BY <1>6, <1>a, IdleIsSound, MoveKeeps DEF Fail, Done, TypeOK
<1>7. CASE UNCHANGED vars
  BY <1>7 DEF vars, IInv, TypeOK
<1>8. ASSUME NEW j \in Jobs, JobCanceled(j) PROVE IInv'
  BY <1>8 DEF JobCanceled, IInv, TypeOK
<1>9. QED  BY <1>1, <1>2, <1>3, <1>4, <1>5, <1>6, <1>7, <1>8, HandleKeeps DEF Next

-----------------------------------------------------------------------------
(* What each kind of request gives and where it stands: the operations own *)
(* the columns that they give, and none but Resolve finds no row.          *)

RunOps == {"set_run", "clear_run"}

Shape(q) ==
  /\ "run" \in q.gives <=> q.op \in RunOps
  /\ "review" \in q.gives <=> q.op = "review"
  /\ "assignee" \in q.gives <=> q.op = "assign" /\ q.step # "record"
  /\ "sla" \in q.gives <=> q.op \in SyncOps \/ (q.op = "assign" /\ q.step # "record")
  /\ q.op \in {"assign", "touch", "clear_sla"} => q.new.sla.state = "none"
  /\ q.step = "record" => q.op = "assign"
  /\ q.step = "create" => q.op = "resolve" /\ \E titled \in BOOLEAN : q.new = Fresh(titled)
  /\ q.step = "read" => q.read.made

Made ==
  row.made \/ /\ row = NoRow /\ \A j \in Jobs : job[j] = "new"
              /\ \A c \in Slots : req[c] = NoRequest \/ req[c].step = "create"

OneActive == \A j, k \in Jobs : job[j] = "active" /\ job[k] = "active" => j = k

ShapeInv == (clean => OneActive) /\ Made /\ \A c \in Slots : Shape(req[c])

LEMMA IdleShape == Shape(NoRequest)
BY DEF NoRequest, Shape, SyncOps, RunOps

\* The shape has nothing to do with who was overtaken.
LEMMA OvertakenShape ==
  ASSUME NEW q \in Request, Shape(q)
  PROVE  Shape([q EXCEPT !.alone = FALSE])
<1> DEFINE p == [q EXCEPT !.alone = FALSE]
<1>1. /\ p.op = q.op /\ p.step = q.step /\ p.gives = q.gives /\ p.new = q.new
      /\ p.read = q.read
  BY DEF Request
<1> HIDE DEF p
<1>2. Shape(p)
  BY <1>1 DEF Shape
<1> QED  BY <1>2 DEF p

\* What follows a save.
LEMMA ThenShape ==
  ASSUME NEW r \in Request, Shape(r), r.step = "read"
  PROVE  /\ Shape(Then(r)) /\ Then(r).op \notin RunOps
         /\ Then(r).step \notin {"read", "create"}
         /\ Then(r).op \notin {"patch", "batch"}
         /\ r.op = "assign" => Then(r).step = "record" /\ Then(r).new.assignee = r.new.assignee
         /\ r.op # "assign" => Then(r).step # "record"
         /\ r.op = "review" /\ r.new.review = "confirmed" =>
              Then(r).op = "clear_sla" /\ Then(r).step = "begun"
<1>1. CASE r.op = "review" /\ r.new.review = "confirmed"
  <2> DEFINE sla == [NoSLA EXCEPT !.reason = "review_confirmed"]
             n == [NoRow EXCEPT !.sla = sla]
             q == [op |-> "clear_sla", step |-> "begun", gives |-> {"sla"}, new |-> n,
                   read |-> NoRow, alone |-> r.alone]
  <2>1. sla.state = "none"
    BY DEF NoSLA
  <2> HIDE DEF sla
  <2>2. n.sla = sla
    BY DEF NoRow, Fresh
  <2>3. Then(r) = q
    BY <1>1 DEF Then, Request, sla, NoRow, Fresh
  <2> HIDE DEF n
  <2>4. Shape(q)
    BY <2>1, <2>2 DEF Shape, SyncOps, RunOps
  <2> QED  BY <1>1, <2>3, <2>4 DEF RunOps
<1>2. CASE ~(r.op = "review" /\ r.new.review = "confirmed") /\ r.op = "assign"
  <2> DEFINE n == [r.new EXCEPT !.sla = NoSLA]
             q == [r EXCEPT !.step = "record", !.gives = {}, !.read = NoRow, !.new = n]
  <2>1. n.sla = NoSLA /\ n.assignee = r.new.assignee
    BY DEF Request, Row
  <2>2. Then(r) = q
    BY <1>2 DEF Then, Request
  <2> HIDE DEF n
  <2>3. /\ q.gives = {} /\ q.new = n /\ q.step = "record" /\ q.op = "assign"
    BY <1>2 DEF Request
  <2> HIDE DEF q
  <2>4. NoSLA.state = "none"
    BY DEF NoSLA
  <2>5. Shape(q)
    BY <2>1, <2>3, <2>4 DEF Shape, SyncOps, RunOps
  <2> QED  BY <1>2, <2>1, <2>2, <2>3, <2>5 DEF RunOps
<1>3. CASE ~(r.op = "review" /\ r.new.review = "confirmed") /\ r.op # "assign"
  <2>1. Then(r) = NoRequest
    BY <1>3 DEF Then
  <2> QED  BY <1>3, <2>1, IdleShape DEF NoRequest, RunOps
<1> QED  BY <1>1, <1>2, <1>3

LEMMA ShapeBegin ==
  ASSUME IInv, \A d \in Slots : Shape(req[d]), NEW c \in Slots,
         NEW op, NEW step, NEW gives, NEW new, Begin(c, op, step, gives, new),
         Shape([op |-> op, step |-> step, gives |-> gives, new |-> new,
                read |-> IF step = "read" THEN row ELSE NoRow, alone |-> TRUE])
  PROVE  \A d \in Slots : Shape(req'[d])
<1> DEFINE q == [op |-> op, step |-> step, gives |-> gives, new |-> new,
                 read |-> IF step = "read" THEN row ELSE NoRow, alone |-> TRUE]
<1>1. req' = [req EXCEPT ![c] = q]
  BY DEF Begin
<1> HIDE DEF q
<1>2. \A d \in Slots : req'[d] = IF d = c THEN q ELSE req[d]
  BY <1>1 DEF IInv, TypeOK
<1> QED  BY <1>2 DEF q

LEMMA HandleShape ==
  ASSUME IInv, ShapeInv, NEW c \in Slots, Handle(c)
  PROVE  \A d \in Slots : Shape(req'[d])
<1> USE DEF ShapeInv
<1>1. ASSUME NEW titled \in BOOLEAN, Resolve(c, titled) PROVE \A d \in Slots : Shape(req'[d])
  <2> DEFINE step == IF row.made THEN "read" ELSE "create"
  <2>1. Shape([op |-> "resolve", step |-> step, gives |-> {"titled"}, new |-> Fresh(titled),
               read |-> IF step = "read" THEN row ELSE NoRow, alone |-> TRUE])
    BY DEF Shape, SyncOps, RunOps
  <2>2. Begin(c, "resolve", step, {"titled"}, Fresh(titled))
    BY <1>1 DEF Resolve
  <2> HIDE DEF step
  <2> QED  BY <2>1, <2>2, ShapeBegin
<1>2. ASSUME NEW j \in Jobs, JobRuns(c, j) \/ JobReplayed(c, j)
      PROVE  \A d \in Slots : Shape(req'[d])
  <2> DEFINE new == [NoRow EXCEPT !.run = j]
  <2>1. Begin(c, "set_run", "begun", {"run"}, new)
    BY <1>2 DEF JobRuns, JobReplayed
  <2> HIDE DEF new
  <2>2. Shape([op |-> "set_run", step |-> "begun", gives |-> {"run"}, new |-> new,
               read |-> IF "begun" = "read" THEN row ELSE NoRow, alone |-> TRUE])
    BY DEF Shape, SyncOps, RunOps
  <2> QED  BY <2>1, <2>2, ShapeBegin
<1>3. ASSUME NEW j \in Jobs, NEW E \in SUBSET Evidence, JobEnds(c, j, E)
      PROVE  \A d \in Slots : Shape(req'[d])
  <2> DEFINE new == [NoRow EXCEPT !.pins = E]
             gives == IF E = {} THEN {"run"} ELSE {"run", "pins"}
  <2>1. Begin(c, "clear_run", "begun", gives, new)
    BY <1>3 DEF JobEnds
  <2>2. /\ "run" \in gives /\ "review" \notin gives /\ "assignee" \notin gives
        /\ "sla" \notin gives
    OBVIOUS
  <2> HIDE DEF new, gives
  <2>3. Shape([op |-> "clear_run", step |-> "begun", gives |-> gives, new |-> new,
               read |-> IF "begun" = "read" THEN row ELSE NoRow, alone |-> TRUE])
    BY <2>2 DEF Shape, SyncOps, RunOps
  <2> QED  BY <2>1, <2>3, ShapeBegin
<1>4. ASSUME NEW set \in SUBSET Notes, NEW unset \in SUBSET Notes,
             NEW pin \in SUBSET Evidence, NEW unpin \in SUBSET Evidence,
             PatchBegin(c, set, unset, pin, unpin)
      PROVE  \A d \in Slots : Shape(req'[d])
  <2> DEFINE notes == (row.notes \cup set) \ unset
             pins == (row.pins \cup pin) \ unpin
             merged == [row EXCEPT !.notes = notes, !.pins = pins]
             gives == {f \in {"notes"} : set \cup unset # {} /\ ~Empty(merged)}
                        \cup {f \in {"pins"} : pin \cup unpin # {} /\ pins # {}}
  <2>1. Begin(c, "patch", "begun", gives, merged)
    BY <1>4 DEF PatchBegin
  <2> HIDE DEF notes, pins, merged
  <2>2. /\ "run" \notin gives /\ "review" \notin gives /\ "assignee" \notin gives
        /\ "sla" \notin gives
    OBVIOUS
  <2> HIDE DEF gives
  <2>3. Shape([op |-> "patch", step |-> "begun", gives |-> gives, new |-> merged,
               read |-> IF "begun" = "read" THEN row ELSE NoRow, alone |-> TRUE])
    BY <2>2 DEF Shape, SyncOps, RunOps
  <2> QED  BY <2>1, <2>3, ShapeBegin
<1>5. ASSUME NEW v \in Reviews, ReviewBegin(c, v) PROVE \A d \in Slots : Shape(req'[d])
  <2> DEFINE new == [NoRow EXCEPT !.review = v]
  <2>1. Begin(c, "review", "read", {"review"}, new) /\ row.made
    BY <1>5 DEF ReviewBegin
  <2> HIDE DEF new
  <2>2. Shape([op |-> "review", step |-> "read", gives |-> {"review"}, new |-> new,
               read |-> IF "read" = "read" THEN row ELSE NoRow, alone |-> TRUE])
    BY <2>1 DEF Shape, SyncOps, RunOps
  <2> QED  BY <2>1, <2>2, ShapeBegin
<1>6. ASSUME NEW o \in Assignees, AssignBegin(c, o) PROVE \A d \in Slots : Shape(req'[d])
  <2> DEFINE sla == [due |-> now + DueWindow, state |-> "none", reason |-> ""]
             new == [NoRow EXCEPT !.assignee = o, !.sla = sla]
  <2>1. Begin(c, "assign", "read", {"assignee", "sla"}, new) /\ row.made
    BY <1>6 DEF AssignBegin
  <2>2. new.sla.state = "none"
    BY DEF NoRow, Fresh
  <2> HIDE DEF new
  <2>3. Shape([op |-> "assign", step |-> "read", gives |-> {"assignee", "sla"}, new |-> new,
               read |-> IF "read" = "read" THEN row ELSE NoRow, alone |-> TRUE])
    BY <2>1, <2>2 DEF Shape, SyncOps, RunOps
  <2> QED  BY <2>1, <2>3, ShapeBegin
<1>7. CASE TouchBegin(c)
  <2> DEFINE sla == [due |-> now + DueWindow, state |-> "none", reason |-> "operator_requested"]
             new == [NoRow EXCEPT !.sla = sla]
  <2>1. Begin(c, "touch", "begun", {"sla"}, new)
    BY <1>7 DEF TouchBegin
  <2>2. new.sla.state = "none"
    BY DEF NoRow, Fresh
  <2> HIDE DEF new
  <2>3. Shape([op |-> "touch", step |-> "begun", gives |-> {"sla"}, new |-> new,
               read |-> IF "begun" = "read" THEN row ELSE NoRow, alone |-> TRUE])
    BY <2>2 DEF Shape, SyncOps, RunOps
  <2> QED  BY <2>1, <2>3, ShapeBegin
<1>8. CASE BatchBegin(c)
  <2> DEFINE new == [NoRow EXCEPT !.sla = Target(row)]
  <2>1. Begin(c, "batch", "begun", {"sla"}, new)
    BY <1>8 DEF BatchBegin
  <2> HIDE DEF new
  <2>2. Shape([op |-> "batch", step |-> "begun", gives |-> {"sla"}, new |-> new,
               read |-> IF "begun" = "read" THEN row ELSE NoRow, alone |-> TRUE])
    BY DEF Shape, SyncOps, RunOps
  <2> QED  BY <2>1, <2>2, ShapeBegin
<1> QED  BY <1>1, <1>2, <1>3, <1>4, <1>5, <1>6, <1>7, <1>8 DEF Handle

\* A job of the session that starts while another one is active ends the clean
\* history, and nothing but ResolveOrCreate begins before there is a row.
LEMMA HandleJobs ==
  ASSUME IInv, ShapeInv, NEW c \in Slots, Handle(c)
  PROVE  (clean' => OneActive') /\ (clean' => clean) /\ Made'
<1> USE DEF ShapeInv
<1>a. job \in [Jobs -> {"new", "active", "finalized", "canceled"}] /\ req \in [Slots -> Request]
  BY DEF IInv, TypeOK
<1>1. row' = row
  BY DEF Handle, Resolve, JobRuns, JobReplayed, JobEnds, PatchBegin, ReviewBegin,
         AssignBegin, TouchBegin, BatchBegin, Begin
<1>b. clean' => clean
  BY DEF Handle, Resolve, JobRuns, JobReplayed, JobEnds, PatchBegin, ReviewBegin,
         AssignBegin, TouchBegin, BatchBegin
<1>2. ASSUME clean' PROVE OneActive'
  <2>a. OneActive
    BY <1>2, <1>b
  <2>1. ASSUME NEW j \in Jobs, JobRuns(c, j) PROVE OneActive'
    BY <2>1, <1>2, <1>a DEF JobRuns, OneActive
  <2>2. ASSUME NEW j \in Jobs, NEW E \in SUBSET Evidence, JobEnds(c, j, E) PROVE OneActive'
    BY <2>2, <2>a, <1>a DEF JobEnds, OneActive
  <2>3. CASE UNCHANGED job
    BY <2>3, <2>a DEF OneActive
  <2> QED
    BY <2>1, <2>2, <2>3
    DEF Handle, Resolve, JobReplayed, PatchBegin, ReviewBegin, AssignBegin, TouchBegin, BatchBegin
<1>3. Made'
  <2>1. CASE row.made
    BY <1>1, <2>1 DEF Made
  <2>2. CASE ~row.made
    <3>1. row = NoRow /\ (\A j \in Jobs : job[j] = "new")
          /\ \A d \in Slots : req[d] = NoRequest \/ req[d].step = "create"
      BY <2>2 DEF Made
    <3>2. PICK titled \in BOOLEAN : Resolve(c, titled)
      BY <2>2, <3>1
      DEF Handle, JobRuns, JobReplayed, JobEnds, PatchBegin, ReviewBegin, AssignBegin,
          TouchBegin, BatchBegin
    <3> DEFINE q == [op |-> "resolve", step |-> "create", gives |-> {"titled"},
                     new |-> Fresh(titled), read |-> NoRow, alone |-> TRUE]
    <3>3. req' = [req EXCEPT ![c] = q] /\ job' = job
      BY <2>2, <3>2 DEF Resolve, Begin
    <3>4. q.step = "create"
      OBVIOUS
    <3> HIDE DEF q
    <3>5. \A d \in Slots : req'[d] = IF d = c THEN q ELSE req[d]
      BY <3>3, <1>a
    <3> QED  BY <1>1, <3>1, <3>3, <3>4, <3>5 DEF Made
  <2> QED  BY <2>1, <2>2
<1> QED  BY <1>b, <1>2, <1>3

LEMMA OthersShape ==
  ASSUME IInv, \A d \in Slots : Shape(req[d]), NEW c \in Slots, NEW next, Shape(next),
         req' = Others(c, next)
  PROVE  \A d \in Slots : Shape(req'[d])
<1> TAKE d \in Slots
<1>1. CASE d = c \/ req[d] = NoRequest
  BY <1>1 DEF Others
<1>2. CASE d # c /\ req[d] # NoRequest
  <2>1. req'[d] = [req[d] EXCEPT !.alone = FALSE] /\ req[d] \in Request
    BY <1>2 DEF Others, IInv, TypeOK
  <2> QED  BY <2>1, OvertakenShape
<1> QED  BY <1>1, <1>2

\* Before there is a row, no request is past its creation.
LEMMA StepsNeedRow ==
  ASSUME Made, NEW c \in Slots, req[c].step \in {"begun", "read", "record"}
  PROVE  row.made
BY DEF Made, NoRequest

LEMMA ShapeInit == Init => ShapeInv
<1> SUFFICES ASSUME Init PROVE ShapeInv
  OBVIOUS
<1>1. OneActive /\ Made
  BY DEF Init, OneActive, Made
<1>2. \A c \in Slots : Shape(req[c])
  BY IdleShape DEF Init
<1> QED  BY <1>1, <1>2 DEF ShapeInv

LEMMA ShapeKeeps == IInv /\ ShapeInv /\ [Next]_vars => ShapeInv'
<1> SUFFICES ASSUME IInv, ShapeInv, [Next]_vars PROVE ShapeInv'
  OBVIOUS
<1>a. req \in [Slots -> Request] /\ \A c \in Slots : req[c] \in Request /\ Shape(req[c])
  BY DEF IInv, TypeOK, ShapeInv
<1>b. (clean => OneActive) /\ Made
  BY DEF ShapeInv
<1>c. ASSUME UNCHANGED job, clean' => clean PROVE clean' => OneActive'
  BY <1>b, <1>c DEF OneActive
<1>d. ASSUME row.made, UNCHANGED row PROVE Made'
  BY <1>d DEF Made
<1>1. CASE Tick \/ UNCHANGED vars
  BY <1>1 DEF Tick, vars, ShapeInv, OneActive, Made
<1>2. ASSUME NEW c \in Slots, Create(c) PROVE ShapeInv'
  <2>1. CASE row.made
    <3>1. req' = [req EXCEPT ![c] = NoRequest] /\ UNCHANGED <<row, job, clean>>
      BY <1>2, <2>1 DEF Create, Done
    <3>2. \A d \in Slots : Shape(req'[d])
      BY <3>1, <1>a, IdleShape
    <3> QED  BY <2>1, <3>1, <3>2, <1>c, <1>d DEF ShapeInv
  <2>2. CASE ~row.made
    <3>1. /\ req' = Others(c, NoRequest) /\ row' = req[c].new /\ UNCHANGED job
          /\ clean' => clean
      BY <1>2, <2>2 DEF Create, SaveAs
    <3>2. \A d \in Slots : Shape(req'[d])
      BY <3>1, <1>a, IdleShape, OthersShape
    <3>3. row'.made
      <4>1. \E titled \in BOOLEAN : req[c].new = Fresh(titled)
        BY <1>2, <1>a DEF Create, Shape
      <4>2. \A titled \in BOOLEAN : Fresh(titled).made
        BY DEF Fresh
      <4> QED  BY <3>1, <4>1, <4>2
    <3> QED  BY <3>1, <3>2, <3>3, <1>c DEF ShapeInv, Made
  <2> QED  BY <2>1, <2>2
<1>3. ASSUME NEW c \in Slots, Read(c) PROVE ShapeInv'
  <2> DEFINE q == [req[c] EXCEPT !.step = "read", !.read = row]
  <2>0. row.made
    BY <1>3, <1>b, StepsNeedRow DEF Read
  <2>1. /\ q.read = row /\ q.op = req[c].op /\ q.new = req[c].new /\ q.gives = req[c].gives
        /\ q.step = "read"
    BY <1>a DEF Request
  <2>2. req' = [req EXCEPT ![c] = q] /\ UNCHANGED <<row, job, clean>> /\ req[c].step = "begun"
    BY <1>3 DEF Read
  <2> HIDE DEF q
  <2>3. Shape(q)
    BY <1>a, <2>0, <2>1, <2>2 DEF Shape
  <2>4. \A d \in Slots : Shape(req'[d])
    BY <2>2, <2>3, <1>a
  <2> QED  BY <2>0, <2>2, <2>4, <1>c, <1>d DEF ShapeInv
<1>4. ASSUME NEW c \in Slots, Save(c) PROVE ShapeInv'
  <2>0. row.made /\ req[c].step = "read" /\ UNCHANGED job /\ (clean' => clean)
    BY <1>4, <1>b, StepsNeedRow DEF Save, SaveAs
  <2>1. CASE Done(c) /\ UNCHANGED row
    <3>1. \A d \in Slots : Shape(req'[d])
      BY <2>1, <1>a, IdleShape DEF Done
    <3> QED  BY <2>0, <2>1, <3>1, <1>c, <1>d DEF ShapeInv
  <2>2. CASE SaveAs(c, Over(req[c]), Then(req[c]))
    <3>1. \A d \in Slots : Shape(req'[d])
      BY <2>0, <2>2, <1>a, ThenShape, OthersShape DEF SaveAs
    <3>2. row'.made
      BY <2>0, <2>2, <1>a DEF SaveAs, Shape, Over, Given
    <3> QED  BY <2>0, <3>1, <3>2, <1>c DEF ShapeInv, Made
  <2> QED  BY <1>4, <2>1, <2>2 DEF Save
<1>5. ASSUME NEW c \in Slots, NEW again \in BOOLEAN, Record(c, again) PROVE ShapeInv'
  <2> DEFINE next == IF again THEN req[c] ELSE NoRequest
  <2>0. row.made
    BY <1>5, <1>b, StepsNeedRow DEF Record
  <2>1. req' = Others(c, next) /\ UNCHANGED <<row, job>> /\ (clean' => clean)
    BY <1>5 DEF Record
  <2>2. Shape(next)
    BY <1>a, IdleShape
  <2> HIDE DEF next
  <2>3. \A d \in Slots : Shape(req'[d])
    BY <2>1, <2>2, <1>a, OthersShape
  <2> QED  BY <2>0, <2>1, <2>3, <1>c, <1>d DEF ShapeInv
<1>6. ASSUME NEW c \in Slots, Fail(c) PROVE ShapeInv'
  <2>1. req' = [req EXCEPT ![c] = NoRequest] /\ UNCHANGED <<row, job>> /\ (clean' => clean)
    BY <1>6 DEF Fail, Done
  <2>2. \A d \in Slots : req'[d] = NoRequest \/ req'[d] = req[d]
    BY <2>1, <1>a
  <2>3. Made'
    BY <1>b, <2>1, <2>2 DEF Made
  <2> QED  BY <2>1, <2>2, <2>3, <1>a, <1>c, IdleShape DEF ShapeInv
<1>7. ASSUME NEW c \in Slots, Handle(c) PROVE ShapeInv'
  BY <1>7, HandleShape, HandleJobs DEF ShapeInv
<1>8. ASSUME NEW j \in Jobs, JobCanceled(j) PROVE ShapeInv'
  <2>1. /\ job[j] = "active" /\ job' = [job EXCEPT ![j] = "canceled"]
        /\ UNCHANGED <<row, req, clean>> /\ DOMAIN job = Jobs
    BY <1>8 DEF JobCanceled, IInv, TypeOK
  <2>2. clean' => OneActive'
    BY <1>b, <2>1 DEF OneActive
  <2>3. row.made
    BY <1>b, <2>1 DEF Made
  <2> QED  BY <1>a, <1>d, <2>1, <2>2, <2>3 DEF ShapeInv
<1> QED  BY <1>1, <1>2, <1>3, <1>4, <1>5, <1>6, <1>7, <1>8 DEF Next

\* A request that nobody has overtaken read, and carries, what the table has: the
\* assignee that it copies, and the review that the decision of a batch rests on too.
Latest(q, r) ==
  q.alone =>
    /\ q.step = "read" => q.read = r
    /\ q.op = "patch" => q.new.review = r.review /\ q.new.assignee = r.assignee
                           /\ q.new.sla = r.sla
    /\ q.step = "record" => q.new.assignee = r.assignee
    /\ q.op = "batch" /\ q.new.sla.state # "none" => r.review # "confirmed"

AloneIsLatest == \A c \in Slots : Latest(req[c], row)

LEMMA IdleIsLatest ==
  /\ NoRequest \in Request /\ NoRequest.step = "idle" /\ NoRequest.op = "none"
  /\ \A r : Latest(NoRequest, r)
<1>1. NoRequest \in Request /\ NoRequest.step = "idle" /\ NoRequest.op = "none"
  BY IdleIsSound DEF NoRequest
<1>2. QED  BY <1>1 DEF Latest

LEMMA AloneInit == Init => AloneIsLatest
BY IdleIsLatest DEF Init, AloneIsLatest

\* A save makes every other request in flight a late one.
LEMMA AloneOthers ==
  ASSUME IInv, NEW c \in Slots, NEW next, req' = Others(c, next), Latest(next, row')
  PROVE  AloneIsLatest'
<1> SUFFICES ASSUME NEW d \in Slots PROVE Latest(req'[d], row')
  BY DEF AloneIsLatest
<1>1. req'[d] = Others(c, next)[d]
  OBVIOUS
<1>2. CASE d = c
  BY <1>1, <1>2 DEF Others
<1>3. CASE d # c /\ req[d] = NoRequest
  BY <1>1, <1>3, IdleIsLatest DEF Others
<1>4. CASE d # c /\ req[d] # NoRequest
  <2>1. req'[d] = [req[d] EXCEPT !.alone = FALSE] /\ req[d] \in Request
    BY <1>1, <1>4 DEF Others, IInv, TypeOK
  <2>2. ~req'[d].alone
    BY <2>1 DEF Request
  <2>3. QED  BY <2>2 DEF Latest
<1>5. QED  BY <1>2, <1>3, <1>4

LEMMA AloneMove ==
  ASSUME AloneIsLatest, IInv, NEW c \in Slots, NEW q, Latest(q, row),
         req' = [req EXCEPT ![c] = q], UNCHANGED row
  PROVE  AloneIsLatest'
BY DEF AloneIsLatest, IInv, TypeOK

LEMMA AloneBegin ==
  ASSUME AloneIsLatest, IInv, NEW c \in Slots, NEW op, NEW step, NEW gives, NEW new,
         op = "patch" => new.review = row.review /\ new.assignee = row.assignee
                           /\ new.sla = row.sla,
         op = "batch" /\ new.sla.state # "none" => row.review # "confirmed",
         step # "record",
         Begin(c, op, step, gives, new)
  PROVE  AloneIsLatest'
<1> DEFINE q == [op |-> op, step |-> step, gives |-> gives, new |-> new,
                 read |-> IF step = "read" THEN row ELSE NoRow, alone |-> TRUE]
<1>1. Latest(q, row)
  BY DEF Latest
<1>2. req' = [req EXCEPT ![c] = q] /\ UNCHANGED row
  BY DEF Begin
<1> HIDE DEF q
<1>3. QED  BY <1>1, <1>2, AloneMove

LEMMA AloneHandle ==
  ASSUME IInv, AloneIsLatest, NEW c \in Slots, Handle(c)
  PROVE  AloneIsLatest'
<1>1. CASE \E set, unset \in SUBSET Notes, pin, unpin \in SUBSET Evidence :
             PatchBegin(c, set, unset, pin, unpin)
  <2>1. PICK set \in SUBSET Notes, unset \in SUBSET Notes, pin \in SUBSET Evidence,
             unpin \in SUBSET Evidence : PatchBegin(c, set, unset, pin, unpin)
    BY <1>1
  <2> DEFINE notes == (row.notes \cup set) \ unset
             pins == (row.pins \cup pin) \ unpin
             merged == [row EXCEPT !.notes = notes, !.pins = pins]
             gives == {f \in {"notes"} : set \cup unset # {} /\ ~Empty(merged)}
                        \cup {f \in {"pins"} : pin \cup unpin # {} /\ pins # {}}
  <2>2. Begin(c, "patch", "begun", gives, merged)
    BY <2>1 DEF PatchBegin
  <2> HIDE DEF notes, pins, gives
  <2>3. /\ merged.review = row.review /\ merged.assignee = row.assignee
        /\ merged.sla = row.sla
    BY DEF IInv, TypeOK, Row
  <2> HIDE DEF merged
  <2>4. QED  BY <2>2, <2>3, AloneBegin
<1>2. CASE \/ \E titled \in BOOLEAN : Resolve(c, titled)
           \/ \E j \in Jobs : JobRuns(c, j) \/ JobReplayed(c, j)
           \/ \E j \in Jobs, E \in SUBSET Evidence : JobEnds(c, j, E)
           \/ \E v \in Reviews : ReviewBegin(c, v)
           \/ \E o \in Assignees : AssignBegin(c, o)
           \/ TouchBegin(c)
  BY <1>2, AloneBegin
  DEF Resolve, JobRuns, JobReplayed, JobEnds, ReviewBegin, AssignBegin, TouchBegin
<1>3. CASE BatchBegin(c)
  <2> DEFINE sla == Target(row)
             new == [NoRow EXCEPT !.sla = sla]
  <2>1. Begin(c, "batch", "begun", {"sla"}, new)
    BY <1>3 DEF BatchBegin
  <2>2. sla.state # "none" => row.review # "confirmed"
    BY DEF Target
  <2> HIDE DEF sla
  <2>3. new.sla = sla
    BY DEF NoRow, Fresh
  <2> HIDE DEF new
  <2> QED  BY <2>1, <2>2, <2>3, AloneBegin
<1>4. QED  BY <1>1, <1>2, <1>3 DEF Handle

\* What comes after a save has not read yet, and copies the assignee that was saved.
LEMMA ThenIsLatest ==
  ASSUME NEW r \in Request, Shape(r), r.step = "read"
  PROVE  Then(r).step # "read" /\ Latest(Then(r), Over(r))
<1>1. /\ Then(r).step # "read" /\ Then(r).op \notin {"patch", "batch"}
      /\ r.op = "assign" => Then(r).step = "record" /\ Then(r).new.assignee = r.new.assignee
      /\ r.op # "assign" => Then(r).step # "record"
  BY ThenShape
<1>2. r.op = "assign" => Over(r).assignee = r.new.assignee
  <2>1. r.op = "assign" => "assignee" \in r.gives
    BY DEF Shape
  <2> QED  BY <2>1 DEF Over, Given, Written
<1> QED  BY <1>1, <1>2 DEF Latest

LEMMA AloneKeeps == IInv /\ ShapeInv /\ AloneIsLatest /\ [Next]_vars => AloneIsLatest'
<1> SUFFICES ASSUME IInv, ShapeInv, AloneIsLatest, [Next]_vars PROVE AloneIsLatest'
  OBVIOUS
<1>a. \A c \in Slots : req[c] \in Request /\ Shape(req[c])
  BY DEF IInv, TypeOK, ShapeInv
<1>1. CASE Tick \/ (\E j \in Jobs : JobCanceled(j)) \/ UNCHANGED vars
  BY <1>1 DEF Tick, JobCanceled, vars, AloneIsLatest
<1>2. ASSUME NEW c \in Slots, Create(c) PROVE AloneIsLatest'
  BY <1>2, IdleIsLatest, AloneMove, AloneOthers DEF Create, Done, SaveAs
<1>3. ASSUME NEW c \in Slots, Read(c) PROVE AloneIsLatest'
  <2> DEFINE q == [req[c] EXCEPT !.step = "read", !.read = row]
  <2>1. /\ q.read = row /\ q.op = req[c].op /\ q.new = req[c].new
        /\ q.step = "read" /\ q.alone = req[c].alone
    BY <1>a DEF Request
  <2>2. req' = [req EXCEPT ![c] = q] /\ UNCHANGED row
    BY <1>3 DEF Read
  <2> HIDE DEF q
  <2>3. Latest(q, row)
    BY <2>1 DEF Latest, AloneIsLatest
  <2>4. QED  BY <2>2, <2>3, AloneMove
<1>4. ASSUME NEW c \in Slots, Save(c) PROVE AloneIsLatest'
  <2>1. Latest(Then(req[c]), Over(req[c]))
    BY <1>4, <1>a, ThenIsLatest DEF Save
  <2>2. CASE Done(c) /\ UNCHANGED row
    BY <2>2, IdleIsLatest, AloneMove DEF Done
  <2>3. CASE SaveAs(c, Over(req[c]), Then(req[c]))
    BY <2>1, <2>3, AloneOthers DEF SaveAs
  <2>4. QED  BY <1>4, <2>2, <2>3 DEF Save
<1>5. ASSUME NEW c \in Slots, NEW again \in BOOLEAN, Record(c, again) PROVE AloneIsLatest'
  <2> DEFINE next == IF again THEN req[c] ELSE NoRequest
  <2>1. req' = Others(c, next) /\ UNCHANGED row
    BY <1>5 DEF Record
  <2>2. Latest(next, row)
    BY IdleIsLatest DEF AloneIsLatest
  <2> HIDE DEF next
  <2>3. QED  BY <2>1, <2>2, AloneOthers
<1>6. ASSUME NEW c \in Slots, Fail(c) PROVE AloneIsLatest'
  BY <1>6, IdleIsLatest, AloneMove DEF Fail, Done
<1>7. QED  BY <1>1, <1>2, <1>3, <1>4, <1>5, <1>6, AloneHandle DEF Next

\* What a step that changes the row may do to its columns.
LossStep ==
  row.made => \A f \in Columns : row'[f] # row[f] =>
       \E c \in Slots : /\ req[c].step = "read" /\ req'[c] # req[c]
                        /\ f \in req[c].gives \/ ~req[c].alone

\* A save by a request that nobody has overtaken changes no column that it does not
\* give: what it only carries is what the table has.
LEMMA OverChangesGiven ==
  ASSUME NEW q \in Request, q.read = row, Latest(q, row), q.alone,
         NEW f \in Columns, f \notin q.gives
  PROVE  Over(q)[f] = row[f]
<1> DEFINE W == Written(q.op, q.gives)
<1>1. CASE f \notin W
  BY <1>1 DEF Over, Given, Columns
<1>2. CASE f \in W
  <2>1. q.op = "patch" /\ f \in Carried
    BY <1>2 DEF Written
  <2>2. q.new[f] = row[f]
    BY <2>1 DEF Latest, Carried
  <2>3. CASE f # "sla"
    BY <1>2, <2>1, <2>2, <2>3 DEF Over, Given, Carried
  <2>4. CASE f = "sla"
    <3>1. Over(q).sla = q.new.sla
      BY <1>2, <2>1, <2>4 DEF Over, Given, SyncOps
    <3>2. QED  BY <2>2, <2>4, <3>1
  <2>5. QED  BY <2>3, <2>4
<1>3. QED  BY <1>1, <1>2

LEMMA StepLosesOnlyByOverlap ==
  IInv /\ ShapeInv /\ AloneIsLatest /\ [Next]_vars => [LossStep]_vars
<1> SUFFICES ASSUME IInv, ShapeInv, AloneIsLatest, Next, row' # row, row.made PROVE LossStep
  BY DEF LossStep
<1>1. PICK c \in Slots : Save(c)
  <2>1. ASSUME NEW c \in Slots, Handle(c) PROVE UNCHANGED row
    BY <2>1 DEF Handle, Resolve, JobRuns, JobReplayed, JobEnds, PatchBegin, ReviewBegin,
                AssignBegin, TouchBegin, BatchBegin, Begin
  <2>2. ASSUME NEW c \in Slots, Create(c) \/ Read(c) \/ Fail(c) PROVE UNCHANGED row
    BY <2>2 DEF Create, Read, Fail
  <2>3. ASSUME NEW c \in Slots, NEW again \in BOOLEAN, Record(c, again) PROVE UNCHANGED row
    BY <2>3 DEF Record
  <2>4. Tick \/ (\E j \in Jobs : JobCanceled(j)) => UNCHANGED row
    BY DEF Tick, JobCanceled
  <2>5. QED  BY <2>1, <2>2, <2>3, <2>4 DEF Next
<1> DEFINE r == req[c]
<1>2. r \in Request /\ Latest(r, row) /\ Shape(r)
  BY DEF IInv, TypeOK, AloneIsLatest, ShapeInv
<1>3. r.step = "read" /\ row' = Over(r) /\ req' = Others(c, Then(r))
  BY <1>1 DEF Save, SaveAs
<1>4. req'[c] # r
  <2>1. req'[c] = Then(r)
    BY <1>3 DEF Others
  <2>2. QED  BY <1>2, <1>3, <2>1, ThenIsLatest
<1>5. ASSUME NEW f \in Columns, row'[f] # row[f] PROVE f \in r.gives \/ ~r.alone
  <2> SUFFICES ASSUME f \notin r.gives, r.alone PROVE FALSE
    BY <1>2 DEF Request
  <2>1. r.read = row
    BY <1>2, <1>3 DEF Latest
  <2> HIDE DEF r
  <2>2. QED  BY <1>2, <1>3, <1>5, <2>1, OverChangesGiven
<1>6. QED  BY <1>3, <1>4, <1>5 DEF LossStep

-----------------------------------------------------------------------------
(* While no save has overwritten what it had not seen and no request has   *)
(* failed between two writes, whatever the session gets wrong is about to  *)
(* be put right by a request in flight.                                    *)

RunPending(c) == req[c].op \in RunOps

ClearsSLA(q) == q.op = "clear_sla" /\ (q.step = "begun" \/ q.read.sla.state # "none")

RunShown == Shown(row.run) \/ \E c \in Slots : RunPending(c)

\* Of the requests about the run, the last one to save brings what is to be shown.
LastRunShown ==
  \A c \in Slots : RunPending(c) /\ req[c].alone =>
    Shown(req[c].new.run) \/ \E d \in Slots : d # c /\ RunPending(d)

Copied == record = row.assignee \/ \E c \in Slots : req[c].step = "record"

Cleared ==
  row.review = "confirmed" /\ row.sla.state # "none" => \E c \in Slots : ClearsSLA(req[c])

CleanInv == clean => RunShown /\ LastRunShown /\ Copied /\ Cleared

LEMMA CleanInit == Init => CleanInv
<1> SUFFICES ASSUME Init PROVE CleanInv
  OBVIOUS
<1>1. row.run = None /\ row.assignee = None /\ row.sla.state = "none"
  BY DEF Init, NoRow, Fresh, NoSLA
<1>2. \A c \in Slots : req[c].op \notin RunOps
  BY DEF Init, NoRequest, RunOps
<1>3. Shown(row.run)
  BY <1>1, SessionAssumption DEF Init, Shown
<1>4. record = row.assignee
  BY <1>1 DEF Init
<1> QED
  BY <1>1, <1>2, <1>3, <1>4
  DEF CleanInv, RunShown, LastRunShown, Copied, Cleared, RunPending

\* A step of one request, which loses nothing that it was about to put right.
LEMMA QuietKeeps ==
  ASSUME CleanInv, NEW c \in Slots, UNCHANGED <<row, record, job, replayed>>, clean' => clean,
         \A d \in Slots : d # c => req'[d] = req[d],
         req'[c].op \in RunOps <=> req[c].op \in RunOps,
         req'[c].op \in RunOps => /\ req'[c].new = req[c].new
                                  /\ req'[c].alone = req[c].alone,
         req[c].step = "record" => req'[c].step = "record",
         ClearsSLA(req[c]) /\ row.sla.state # "none" => ClearsSLA(req'[c])
  PROVE  CleanInv'
<1> SUFFICES ASSUME clean' PROVE (RunShown /\ LastRunShown /\ Copied /\ Cleared)'
  BY DEF CleanInv
<1>a. RunShown /\ LastRunShown /\ Copied /\ Cleared
  BY DEF CleanInv
<1>b. \A v : Shown(v)' <=> Shown(v)
  BY DEF Shown
<1>c. \A d \in Slots : RunPending(d)' <=> RunPending(d)
  BY DEF RunPending
<1>1. RunShown'
  BY <1>a, <1>b, <1>c DEF RunShown
<1>2. LastRunShown'
  <2> SUFFICES ASSUME NEW e \in Slots, RunPending(e)', req'[e].alone
               PROVE  (Shown(req[e].new.run))' \/ \E d \in Slots : d # e /\ RunPending(d)'
    BY DEF LastRunShown
  <2>1. req'[e].new = req[e].new /\ req[e].alone /\ RunPending(e)
    BY <1>c DEF RunPending
  <2>2. Shown(req[e].new.run) \/ \E d \in Slots : d # e /\ RunPending(d)
    BY <1>a, <2>1 DEF LastRunShown
  <2>3. Shown(req[e].new.run) => (Shown(req[e].new.run))'
    BY <2>1 DEF Shown
  <2> QED  BY <1>c, <2>2, <2>3
<1>3. Copied'
  BY <1>a DEF Copied
<1>4. Cleared'
  <2> SUFFICES ASSUME row.review = "confirmed", row.sla.state # "none"
               PROVE  \E d \in Slots : ClearsSLA(req'[d])
    BY DEF Cleared, ClearsSLA
  <2>1. PICK d \in Slots : ClearsSLA(req[d])
    BY <1>a DEF Cleared
  <2>2. ClearsSLA(req'[d])
    BY <2>1
  <2> QED  BY <2>2
<1> QED  BY <1>1, <1>2, <1>3, <1>4

\* What the others were about to do they still are, but they have been overtaken.
LEMMA OthersKeep ==
  ASSUME IInv, NEW c \in Slots, NEW next, next.op \notin RunOps, req' = Others(c, next)
  PROVE  /\ req'[c] = next
         /\ \A d \in Slots : d # c =>
              /\ RunPending(d) => RunPending(d)'
              /\ req[d].step = "record" => req'[d].step = "record"
              /\ ClearsSLA(req[d]) => ClearsSLA(req'[d])
         /\ LastRunShown'
<1>1. req'[c] = next
  BY DEF Others
<1>2. ASSUME NEW d \in Slots, d # c
      PROVE  /\ req'[d].op = req[d].op /\ req'[d].step = req[d].step
             /\ req'[d].read = req[d].read
             /\ req'[d] = NoRequest \/ ~req'[d].alone
  <2>1. CASE req[d] = NoRequest
    BY <1>2, <2>1 DEF Others
  <2>2. CASE req[d] # NoRequest
    <3>1. req'[d] = [req[d] EXCEPT !.alone = FALSE] /\ req[d] \in Request
      BY <1>2, <2>2 DEF Others, IInv, TypeOK
    <3> QED  BY <3>1 DEF Request
  <2> QED  BY <2>1, <2>2
<1>3. NoRequest.op \notin RunOps
  BY DEF NoRequest, RunOps
<1>4. LastRunShown'
  BY <1>1, <1>2, <1>3 DEF LastRunShown, RunPending
<1>5. ASSUME NEW d \in Slots, d # c
      PROVE  /\ RunPending(d) => RunPending(d)'
             /\ req[d].step = "record" => req'[d].step = "record"
             /\ ClearsSLA(req[d]) => ClearsSLA(req'[d])
  BY <1>2, <1>5 DEF RunPending, ClearsSLA
<1> QED  BY <1>1, <1>4, <1>5

\* A request about anything but the run changes nothing of what is pending when it
\* begins.
LEMMA PlainBeginKeeps ==
  ASSUME IInv, CleanInv, NEW c \in Slots, NEW op, NEW step, NEW gives, NEW new,
         op \notin RunOps, Begin(c, op, step, gives, new), UNCHANGED <<job, replayed, clean>>
  PROVE  CleanInv'
<1> DEFINE q == [op |-> op, step |-> step, gives |-> gives, new |-> new,
                 read |-> IF step = "read" THEN row ELSE NoRow, alone |-> TRUE]
<1>1. /\ req' = [req EXCEPT ![c] = q] /\ req[c] = NoRequest
      /\ UNCHANGED <<row, record>>
  BY DEF Begin
<1>2. q.op = op
  OBVIOUS
<1> HIDE DEF q
<1>3. req'[c] = q /\ \A d \in Slots : d # c => req'[d] = req[d]
  BY <1>1 DEF IInv, TypeOK
<1>4. NoRequest.op \notin RunOps /\ NoRequest.step # "record" /\ ~ClearsSLA(NoRequest)
  BY DEF NoRequest, RunOps, ClearsSLA
<1> QED  BY <1>1, <1>2, <1>3, <1>4, QuietKeeps

\* A request about the run brings what the jobs now are.
LEMMA RunBeginKeeps ==
  ASSUME IInv, CleanInv, NEW c \in Slots, NEW op \in RunOps, NEW step, NEW gives, NEW new,
         Begin(c, op, step, gives, new), clean' => clean, clean' => Shown(new.run)'
  PROVE  CleanInv'
<1> DEFINE q == [op |-> op, step |-> step, gives |-> gives, new |-> new,
                 read |-> IF step = "read" THEN row ELSE NoRow, alone |-> TRUE]
<1> SUFFICES ASSUME clean' PROVE (RunShown /\ LastRunShown /\ Copied /\ Cleared)'
  BY DEF CleanInv
<1>1. /\ req' = [req EXCEPT ![c] = q] /\ req[c] = NoRequest
      /\ UNCHANGED <<row, record>>
  BY DEF Begin
<1>2. q.op \in RunOps /\ q.new = new
  OBVIOUS
<1> HIDE DEF q
<1>3. req'[c] = q /\ \A d \in Slots : d # c => req'[d] = req[d]
  BY <1>1 DEF IInv, TypeOK
<1>4. RunShown /\ LastRunShown /\ Copied /\ Cleared
  BY <1>1 DEF CleanInv
<1>5. RunPending(c)'
  BY <1>2, <1>3 DEF RunPending
<1>6. NoRequest.step # "record" /\ ~ClearsSLA(NoRequest)
  BY DEF NoRequest, ClearsSLA
<1>7. RunShown'
  BY <1>5 DEF RunShown
<1>8. LastRunShown'
  <2> SUFFICES ASSUME NEW e \in Slots
               PROVE  (Shown(req[e].new.run))' \/ \E d \in Slots : d # e /\ RunPending(d)'
    BY DEF LastRunShown
  <2>1. CASE e = c
    BY <1>2, <1>3, <2>1
  <2>2. CASE e # c
    BY <1>5, <2>2
  <2> QED  BY <2>1, <2>2
<1>9. Copied'
  BY <1>1, <1>3, <1>4, <1>6 DEF Copied
<1>10. Cleared'
  <2> SUFFICES ASSUME row.review = "confirmed", row.sla.state # "none"
               PROVE  \E d \in Slots : ClearsSLA(req'[d])
    BY <1>1 DEF Cleared, ClearsSLA
  <2>1. PICK d \in Slots : ClearsSLA(req[d])
    BY <1>4 DEF Cleared
  <2>2. d # c
    BY <1>1, <1>6, <2>1
  <2> QED  BY <1>3, <2>1, <2>2
<1> QED  BY <1>7, <1>8, <1>9, <1>10

LEMMA CleanHandle ==
  ASSUME IInv, ShapeInv, CleanInv, NEW c \in Slots, Handle(c)
  PROVE  CleanInv'
<1>1. ASSUME NEW j \in Jobs, JobRuns(c, j) PROVE CleanInv'
  <2> DEFINE new == [NoRow EXCEPT !.run = j]
  <2>1. /\ Begin(c, "set_run", "begun", {"run"}, new) /\ job'[j] = "active"
        /\ replayed' = None /\ (clean' => clean)
    BY <1>1 DEF JobRuns, IInv, TypeOK
  <2>2. new.run = j
    BY DEF NoRow, Fresh
  <2> HIDE DEF new
  <2>3. Shown(new.run)'
    BY <2>1, <2>2 DEF Shown, Begin
  <2> QED  BY <2>1, <2>3, RunBeginKeeps DEF RunOps
<1>2. ASSUME NEW j \in Jobs, NEW E \in SUBSET Evidence, JobEnds(c, j, E) PROVE CleanInv'
  <2> DEFINE new == [NoRow EXCEPT !.pins = E]
             gives == IF E = {} THEN {"run"} ELSE {"run", "pins"}
  <2>1. Begin(c, "clear_run", "begun", gives, new) /\ replayed' = None /\ clean' = clean
    BY <1>2 DEF JobEnds
  <2>2. clean' => \A k \in Jobs : job'[k] # "active"
    BY <1>2, <2>1 DEF JobEnds, IInv, TypeOK, ShapeInv, OneActive
  <2>3. new.run = None
    BY DEF NoRow, Fresh
  <2> HIDE DEF new, gives
  <2>4. clean' => Shown(new.run)'
    BY <2>1, <2>2, <2>3, SessionAssumption DEF Shown
  <2> QED  BY <2>1, <2>4, RunBeginKeeps DEF RunOps
<1>3. \A op \in {"resolve", "patch", "review", "assign", "touch", "batch"} : op \notin RunOps
  BY DEF RunOps
<1>4. ASSUME NEW titled \in BOOLEAN, Resolve(c, titled) PROVE CleanInv'
  BY <1>3, <1>4, PlainBeginKeeps DEF Resolve
<1>5. ASSUME NEW set, NEW unset, NEW pin, NEW unpin, PatchBegin(c, set, unset, pin, unpin)
      PROVE  CleanInv'
  BY <1>3, <1>5, PlainBeginKeeps DEF PatchBegin
<1>6. ASSUME NEW v \in Reviews, ReviewBegin(c, v) PROVE CleanInv'
  BY <1>3, <1>6, PlainBeginKeeps DEF ReviewBegin
<1>7. ASSUME NEW o \in Assignees, AssignBegin(c, o) PROVE CleanInv'
  BY <1>3, <1>7, PlainBeginKeeps DEF AssignBegin
<1>8. CASE TouchBegin(c) \/ BatchBegin(c)
  BY <1>3, <1>8, PlainBeginKeeps DEF TouchBegin, BatchBegin
<1>9. ASSUME NEW j \in Jobs, JobReplayed(c, j) PROVE CleanInv'
  <2> DEFINE new == [NoRow EXCEPT !.run = j]
  <2>1. Begin(c, "set_run", "begun", {"run"}, new) /\ replayed' = j /\ clean' = clean
    BY <1>9 DEF JobReplayed
  <2>2. new.run = j /\ j # None
    BY SessionAssumption DEF NoRow, Fresh
  <2> HIDE DEF new
  <2>3. Shown(new.run)'
    BY <2>1, <2>2 DEF Shown, Begin
  <2> QED  BY <2>1, <2>3, RunBeginKeeps DEF RunOps
<1> QED  BY <1>1, <1>2, <1>4, <1>5, <1>6, <1>7, <1>8, <1>9 DEF Handle

\* A job that is canceled may be shown on.
LEMMA CleanCancel ==
  ASSUME IInv, ShapeInv, CleanInv, NEW j \in Jobs, JobCanceled(j)
  PROVE  CleanInv'
<1>1. /\ job[j] = "active" /\ job' = [job EXCEPT ![j] = "canceled"] /\ DOMAIN job = Jobs
      /\ UNCHANGED <<row, record, req, replayed, clean>>
  BY DEF JobCanceled, IInv, TypeOK
<1> SUFFICES ASSUME clean PROVE (RunShown /\ LastRunShown /\ Copied /\ Cleared)'
  BY <1>1 DEF CleanInv
<1>2. RunShown /\ LastRunShown /\ Copied /\ Cleared /\ OneActive
  BY DEF CleanInv, ShapeInv
<1>3. ASSUME NEW v, Shown(v)
      PROVE  IF replayed # None THEN v = replayed
             ELSE IF \E k \in Jobs : job'[k] = "active" THEN v \in Jobs /\ job'[v] = "active"
             ELSE v \in Jobs => job'[v] = "canceled"
  <2>1. CASE replayed # None
    BY <1>3, <2>1 DEF Shown
  <2>2. CASE replayed = None
    <3>1. v = j
      BY <1>1, <1>2, <1>3, <2>2 DEF Shown, OneActive
    <3>2. \A k \in Jobs : job'[k] # "active"
      BY <1>1, <1>2 DEF OneActive
    <3> QED  BY <1>1, <2>2, <3>1, <3>2
  <2> QED  BY <2>1, <2>2
<1>4. Shown(row.run) => Shown(row.run)'
  BY <1>1, <1>3 DEF Shown
<1>5. \A c \in Slots : Shown(req[c].new.run) => Shown(req[c].new.run)'
  BY <1>1, <1>3 DEF Shown
<1>6. \A c \in Slots : RunPending(c)' <=> RunPending(c)
  BY <1>1 DEF RunPending
<1>7. RunShown'
  BY <1>2, <1>4, <1>6 DEF RunShown
<1>8. LastRunShown'
  BY <1>1, <1>2, <1>5, <1>6 DEF LastRunShown
<1>9. Copied' /\ Cleared'
  BY <1>1, <1>2 DEF Copied, Cleared, ClearsSLA
<1> QED  BY <1>7, <1>8, <1>9

\* The first save of a row: nothing is shown of it yet.
LEMMA CleanCreate ==
  ASSUME IInv, ShapeInv, CleanInv, NEW c \in Slots, Create(c)
  PROVE  CleanInv'
<1>a. req[c] \in Request /\ Shape(req[c]) /\ Made
  BY DEF IInv, TypeOK, ShapeInv
<1>b. req[c].op = "resolve"
  BY <1>a DEF Create, Shape
<1>c. /\ req[c].op \notin RunOps /\ ~ClearsSLA(req[c]) /\ req[c].step # "record"
      /\ NoRequest.op \notin RunOps
  BY <1>b DEF RunOps, ClearsSLA, NoRequest, Create
<1>1. CASE row.made
  <2>1. req' = [req EXCEPT ![c] = NoRequest] /\ UNCHANGED <<row, record, job, replayed, clean>>
    BY <1>1 DEF Create, Done
  <2>2. req'[c] = NoRequest /\ \A d \in Slots : d # c => req'[d] = req[d]
    BY <2>1 DEF IInv, TypeOK
  <2> QED  BY <1>c, <2>1, <2>2, QuietKeeps
<1>2. CASE ~row.made
  <2>1. /\ req' = Others(c, NoRequest) /\ row' = req[c].new
        /\ clean' = (clean /\ req[c].alone) /\ UNCHANGED <<record, job, replayed>>
    BY <1>2 DEF Create, SaveAs
  <2> SUFFICES ASSUME clean' PROVE (RunShown /\ LastRunShown /\ Copied /\ Cleared)'
    BY DEF CleanInv
  <2>2. RunShown /\ Copied
    BY <2>1 DEF CleanInv
  <2>3. PICK titled \in BOOLEAN : row' = Fresh(titled)
    BY <1>a, <2>1 DEF Create, Shape
  <2>4. /\ row'.run = None /\ row'.assignee = None /\ row'.review = "pending"
        /\ row.run = None /\ row.assignee = None
    BY <1>a, <1>2, <2>3 DEF Made, Fresh, NoRow
  <2>5. /\ \A d \in Slots : d # c =>
             /\ RunPending(d) => RunPending(d)'
             /\ req[d].step = "record" => req'[d].step = "record"
        /\ LastRunShown'
    BY <1>c, <2>1, OthersKeep
  <2>6. RunShown'
    <3>1. Shown(row.run) => Shown(row.run)'
      BY <2>1, <2>4 DEF Shown
    <3>2. ~RunPending(c)
      BY <1>c DEF RunPending
    <3> QED  BY <2>2, <2>5, <3>1, <3>2 DEF RunShown
  <2>7. Copied'
    BY <1>c, <2>1, <2>2, <2>4, <2>5 DEF Copied
  <2>8. Cleared'
    BY <2>4 DEF Cleared
  <2> QED  BY <2>5, <2>6, <2>7, <2>8
<1> QED  BY <1>1, <1>2

LEMMA CleanRead ==
  ASSUME IInv, CleanInv, NEW c \in Slots, Read(c)
  PROVE  CleanInv'
<1> DEFINE q == [req[c] EXCEPT !.step = "read", !.read = row]
<1>1. /\ q.read = row /\ q.op = req[c].op /\ q.new = req[c].new /\ q.step = "read"
      /\ q.alone = req[c].alone
  BY DEF Request, IInv, TypeOK
<1>2. /\ req' = [req EXCEPT ![c] = q] /\ req[c].step = "begun"
      /\ UNCHANGED <<row, record, job, replayed, clean>>
  BY DEF Read
<1> HIDE DEF q
<1>3. req'[c] = q /\ \A d \in Slots : d # c => req'[d] = req[d]
  BY <1>2 DEF IInv, TypeOK
<1>4. ClearsSLA(req[c]) /\ row.sla.state # "none" => ClearsSLA(q)
  BY <1>1 DEF ClearsSLA
<1> QED  BY <1>1, <1>2, <1>3, <1>4, QuietKeeps

\* What a save makes of the escalation.
LEMMA OverSLA ==
  ASSUME NEW q \in Request, "sla" \in q.gives
  PROVE  Over(q).sla.state = q.new.sla.state
<1>1. "sla" \in Written(q.op, q.gives) /\ q.new.sla \in SLA
  BY DEF Written, Request, Row
<1>2. Over(q).sla = q.new.sla \/ Over(q).sla = [q.new.sla EXCEPT !.due = q.read.sla.due]
  BY <1>1 DEF Over, Given
<1> QED  BY <1>1, <1>2 DEF SLA

\* A save of what nobody has saved since.
LEMMA CleanSave ==
  ASSUME IInv, ShapeInv, AloneIsLatest, CleanInv, NEW c \in Slots, Save(c)
  PROVE  CleanInv'
<1> DEFINE r == req[c]
<1>a. r \in Request /\ Shape(r) /\ Latest(r, row) /\ r.step = "read"
  BY DEF Save, IInv, TypeOK, ShapeInv, AloneIsLatest
<1>b. UNCHANGED <<record, job, replayed>>
  BY DEF Save
<1>1. CASE r.op \in SyncOps /\ Over(r) = r.read
  <2>1. req' = [req EXCEPT ![c] = NoRequest] /\ UNCHANGED <<row, clean>>
    BY <1>1 DEF Save, Done
  <2>2. req'[c] = NoRequest /\ \A d \in Slots : d # c => req'[d] = req[d]
    BY <2>1 DEF IInv, TypeOK
  <2>3. ~ClearsSLA(r)
    <3> SUFFICES ASSUME ClearsSLA(r) PROVE FALSE
      OBVIOUS
    <3>1. r.op = "clear_sla" /\ r.read.sla.state # "none" /\ "sla" \in r.gives
      BY <1>a DEF ClearsSLA, Shape, SyncOps
    <3>2. r.new.sla.state = "none"
      BY <1>a, <3>1 DEF Shape
    <3> HIDE DEF r
    <3>3. Over(r).sla.state = "none"
      BY <1>a, <3>1, <3>2, OverSLA
    <3> QED  BY <1>1, <3>1, <3>3
  <2>4. r.op \notin RunOps /\ NoRequest.op \notin RunOps
    BY <1>1 DEF SyncOps, RunOps, NoRequest
  <2> QED  BY <1>a, <1>b, <2>1, <2>2, <2>3, <2>4, QuietKeeps
<1>2. CASE ~(r.op \in SyncOps /\ Over(r) = r.read)
  <2>1. /\ row' = Over(r) /\ req' = Others(c, Then(r)) /\ clean' = (clean /\ r.alone)
    BY <1>2 DEF Save, SaveAs
  <2> SUFFICES ASSUME clean' PROVE (RunShown /\ LastRunShown /\ Copied /\ Cleared)'
    BY DEF CleanInv
  <2>2. r.alone /\ r.read = row /\ RunShown /\ LastRunShown /\ Copied /\ Cleared
    BY <1>a, <2>1 DEF CleanInv, Latest
  <2> HIDE DEF r
  <2>3. /\ Then(r).op \notin RunOps
        /\ r.op = "assign" => Then(r).step = "record"
        /\ r.op = "review" /\ r.new.review = "confirmed" =>
             Then(r).op = "clear_sla" /\ Then(r).step = "begun"
    BY <1>a, ThenShape
  <2>4. /\ req'[c] = Then(r)
        /\ \A d \in Slots : d # c =>
             /\ RunPending(d) => RunPending(d)'
             /\ req[d].step = "record" => req'[d].step = "record"
             /\ ClearsSLA(req[d]) => ClearsSLA(req'[d])
        /\ LastRunShown'
    BY <2>1, <2>3, OthersKeep
  <2>5. \A f \in Columns : f \notin r.gives => row'[f] = row[f]
    BY <1>a, <2>1, <2>2, OverChangesGiven
  <2>6. RunShown'
    <3>1. CASE r.op \in RunOps
      <4>1. row'.run = r.new.run
        BY <1>a, <2>1, <3>1 DEF Shape, Over, Given, Written
      <4>2. Shown(r.new.run) \/ \E d \in Slots : d # c /\ RunPending(d)
        BY <2>2, <3>1 DEF LastRunShown, RunPending, r
      <4>3. Shown(r.new.run) => Shown(row.run)'
        BY <1>b, <4>1 DEF Shown
      <4> QED  BY <2>4, <4>2, <4>3 DEF RunShown
    <3>2. CASE r.op \notin RunOps
      <4>1. row'.run = row.run
        BY <1>a, <2>5, <3>2 DEF Shape, Columns
      <4>2. Shown(row.run) => Shown(row.run)'
        BY <1>b, <4>1 DEF Shown
      <4>3. ~RunPending(c)
        BY <3>2 DEF RunPending, r
      <4> QED  BY <2>2, <2>4, <4>2, <4>3 DEF RunShown
    <3> QED  BY <3>1, <3>2
  <2>7. Copied'
    <3>1. CASE r.op = "assign"
      BY <2>3, <2>4, <3>1 DEF Copied
    <3>2. CASE r.op # "assign"
      <4>1. row'.assignee = row.assignee
        BY <1>a, <2>5, <3>2 DEF Shape, Columns
      <4>2. req[c].step # "record"
        BY <1>a DEF r
      <4> QED  BY <1>b, <2>2, <2>4, <4>1, <4>2 DEF Copied
    <3> QED  BY <3>1, <3>2
  <2>8. Cleared'
    <3> SUFFICES ASSUME row'.review = "confirmed", row'.sla.state # "none"
                 PROVE  \E d \in Slots : ClearsSLA(req'[d])
      BY DEF Cleared, ClearsSLA
    <3>1. CASE r.op = "review"
      <4>1. row'.review = r.new.review
        BY <1>a, <2>1, <3>1 DEF Shape, Over, Given, Written
      <4>2. ClearsSLA(req'[c])
        BY <2>3, <2>4, <3>1, <4>1 DEF ClearsSLA
      <4> QED  BY <4>2
    <3>2. CASE r.op # "review"
      <4>1. row.review = "confirmed"
        BY <1>a, <2>5, <3>2 DEF Shape, Columns
      <4>2. "sla" \notin r.gives
        <5> SUFFICES ASSUME "sla" \in r.gives PROVE FALSE
          OBVIOUS
        <5>1. r.op \in SyncOps \cup {"assign"} /\ r.new.sla.state # "none"
          BY <1>a, <2>1, OverSLA DEF Shape
        <5>2. r.op = "batch"
          BY <1>a, <5>1 DEF Shape, SyncOps
        <5> QED  BY <1>a, <2>2, <4>1, <5>1, <5>2 DEF Latest
      <4>3. row'.sla = row.sla
        BY <2>5, <4>2 DEF Columns
      <4>4. PICK d \in Slots : ClearsSLA(req[d])
        BY <2>2, <4>1, <4>3 DEF Cleared
      <4>5. d # c
        BY <1>a, <4>2, <4>4 DEF Shape, SyncOps, ClearsSLA, r
      <4> QED  BY <2>4, <4>4, <4>5
    <3> QED  BY <3>1, <3>2
  <2> QED  BY <2>4, <2>6, <2>7, <2>8
<1> QED  BY <1>1, <1>2

\* The copy that is made is of the assignee that the row still has.
LEMMA CleanRecord ==
  ASSUME IInv, ShapeInv, AloneIsLatest, CleanInv, NEW c \in Slots, NEW again \in BOOLEAN,
         Record(c, again)
  PROVE  CleanInv'
<1> DEFINE next == IF again THEN req[c] ELSE NoRequest
<1>a. req[c].op = "assign" /\ Latest(req[c], row)
  BY DEF Record, ShapeInv, Shape, AloneIsLatest
<1>b. req[c].op \notin RunOps /\ ~ClearsSLA(req[c]) /\ next.op \notin RunOps
  BY <1>a DEF RunOps, ClearsSLA, NoRequest
<1>1. /\ req' = Others(c, next) /\ record' = req[c].new.assignee
      /\ clean' = (clean /\ req[c].alone) /\ UNCHANGED <<row, job, replayed>>
  BY DEF Record
<1> HIDE DEF next
<1> SUFFICES ASSUME clean' PROVE (RunShown /\ LastRunShown /\ Copied /\ Cleared)'
  BY DEF CleanInv
<1>2. RunShown /\ Cleared
  BY <1>1 DEF CleanInv
<1>3. /\ \A d \in Slots : d # c =>
           /\ RunPending(d) => RunPending(d)'
           /\ ClearsSLA(req[d]) => ClearsSLA(req'[d])
      /\ LastRunShown'
  BY <1>b, <1>1, OthersKeep
<1>4. RunShown'
  <2>1. Shown(row.run) => Shown(row.run)'
    BY <1>1 DEF Shown
  <2>2. ~RunPending(c)
    BY <1>b DEF RunPending
  <2> QED  BY <1>2, <1>3, <2>1, <2>2 DEF RunShown
<1>5. record' = row'.assignee
  BY <1>a, <1>1 DEF Latest, Record
<1>6. Cleared'
  <2> SUFFICES ASSUME row.review = "confirmed", row.sla.state # "none"
               PROVE  \E d \in Slots : ClearsSLA(req'[d])
    BY <1>1 DEF Cleared, ClearsSLA
  <2>1. PICK d \in Slots : ClearsSLA(req[d])
    BY <1>2 DEF Cleared
  <2> QED  BY <1>b, <1>3, <2>1
<1> QED  BY <1>3, <1>4, <1>5, <1>6 DEF Copied

\* A request that fails between two writes ends the clean history.
LEMMA CleanFail ==
  ASSUME IInv, CleanInv, NEW c \in Slots, Fail(c)
  PROVE  CleanInv'
<1>1. CASE HalfDone(req[c])
  BY <1>1 DEF Fail, CleanInv
<1>2. CASE ~HalfDone(req[c])
  <2>1. req' = [req EXCEPT ![c] = NoRequest] /\ UNCHANGED <<row, record, job, replayed>>
        /\ (clean' => clean)
    BY DEF Fail, Done
  <2>2. req'[c] = NoRequest /\ \A d \in Slots : d # c => req'[d] = req[d]
    BY <2>1 DEF IInv, TypeOK
  <2>3. /\ req[c].op \notin RunOps /\ NoRequest.op \notin RunOps
        /\ req[c].step # "record" /\ ~ClearsSLA(req[c])
    BY <1>2 DEF HalfDone, RunOps, NoRequest, ClearsSLA
  <2> QED  BY <2>1, <2>2, <2>3, QuietKeeps
<1> QED  BY <1>1, <1>2

LEMMA CleanKeeps ==
  IInv /\ ShapeInv /\ AloneIsLatest /\ CleanInv /\ [Next]_vars => CleanInv'
<1> SUFFICES ASSUME IInv, ShapeInv, AloneIsLatest, CleanInv, [Next]_vars PROVE CleanInv'
  OBVIOUS
<1>1. CASE Tick \/ UNCHANGED vars
  BY <1>1
  DEF Tick, vars, CleanInv, RunShown, LastRunShown, Copied, Cleared, RunPending, Shown, ClearsSLA
<1>2. CASE \E c \in Slots : Handle(c) \/ Create(c) \/ Read(c) \/ Save(c) \/ Fail(c)
                            \/ \E again \in BOOLEAN : Record(c, again)
  BY <1>2, CleanHandle, CleanCreate, CleanRead, CleanSave, CleanFail, CleanRecord
<1>3. ASSUME NEW j \in Jobs, JobCanceled(j) PROVE CleanInv'
  BY <1>3, CleanCancel
<1> QED  BY <1>1, <1>2, <1>3 DEF Next

\* With no request in flight there is nothing left to put right.
LEMMA QuietIsConsistent ==
  ASSUME CleanInv
  PROVE  CleanIsConsistent
<1> SUFFICES ASSUME clean, \A c \in Slots : req[c] = NoRequest
             PROVE  /\ Shown(row.run) /\ record = row.assignee
                    /\ row.review = "confirmed" => row.sla.state = "none"
  BY DEF CleanIsConsistent
<1>1. RunShown /\ Copied /\ Cleared
  BY DEF CleanInv
<1>2. \A c \in Slots : ~RunPending(c) /\ req[c].step # "record" /\ ~ClearsSLA(req[c])
  BY DEF NoRequest, RunPending, RunOps, ClearsSLA
<1> QED  BY <1>1, <1>2 DEF RunShown, Copied, Cleared

-----------------------------------------------------------------------------
(* Theorems.                                                               *)

LEMMA InvariantHolds == Spec => []IInv
<1>1. QED  BY InitKeeps, NextKeeps, PTL DEF Spec

\* The row, the requests in flight and what they hold keep the shape of the table
\* (model.SessionContextM) for every number of requests, operators and jobs.
THEOREM RowsKeepTheirShape == Spec => []TypeOK
<1>1. IInv => TypeOK
  BY DEF IInv
<1>2. QED  BY <1>1, InvariantHolds, PTL

\* An escalation that the SLA batch decided on an older row is never shown next to
\* a due time that does not justify it, however many assignments come in between:
\* the decided state is saved together with the due time it was decided on.
THEOREM EscalationsAreJustified == Spec => []EscalationIsDue
<1>1. IInv => EscalationIsDue
  BY DEF IInv, EscalationIsDue, Sound, Justified
<1>2. QED  BY <1>1, InvariantHolds, PTL

\* No row that is saved over an assigned session takes its due time away.
THEOREM AssignedSessionsHaveDeadlines == Spec => []AssignedHasDeadline
<1>1. IInv => AssignedHasDeadline
  BY DEF IInv, AssignedHasDeadline, Sound
<1>2. QED  BY <1>1, InvariantHolds, PTL

\* A column that changes without being given is the work of a request that another
\* one overtook: the whole-row saves of session.go lose updates in no other way.
THEOREM LossNeedsOverlap == Spec => LostOnlyByOverlap
<1>1. [LossStep]_vars =>
        [row.made => \A f \in Columns : row'[f] # row[f] =>
           \E c \in Slots : /\ req[c].step = "read" /\ req'[c] # req[c]
                            /\ f \in req[c].gives \/ ~req[c].alone]_vars
  BY DEF LossStep
<1>2. QED
  BY <1>1, InvariantHolds, ShapeInit, ShapeKeeps, AloneInit, AloneKeeps,
     StepLosesOnlyByOverlap, PTL
  DEF Spec, LostOnlyByOverlap

\* Sessions go wrong in no other way than by requests that overlap or that fail
\* halfway: until one does, and once all are done, the session shows the active job,
\* and an ended one only if it was canceled or a Run was answered with it since, the
\* copy of the assignee in session_assignments is right, and a confirmed review has no
\* escalation, for every number of requests, operators and jobs.
THEOREM OnlyOverlapOrFailureMisleads == Spec => []CleanIsConsistent
<1>1. QED
  BY InvariantHolds, ShapeInit, ShapeKeeps, AloneInit, AloneKeeps, CleanInit, CleanKeeps,
     QuietIsConsistent, PTL
  DEF Spec
=============================================================================
