--------------------------- MODULE AlertIngestProofs ---------------------------
(***************************************************************************)
(* Proofs about AlertIngest, for every value of its constants.             *)
(*                                                                         *)
(* A request saves the row it remembers, so the invariant speaks about the *)
(* rows of the table and about those remembered: the key of an open row    *)
(* that an alert made is its fingerprint, a closed row has none, and a     *)
(* remembered row is an earlier state of the row it is saved over.  What a *)
(* step does to the table of incidents is then one change of one row       *)
(* (IncidentStep), whichever request makes it.  What is over and opens     *)
(* again is then the work of one save, and the row that was read for it    *)
(* says whether that save was late.                                        *)
(***************************************************************************)
EXTENDS AlertIngest, TLAPS

RowOK(r) ==
  /\ r.key \in {None, r.fp}
  /\ r.status # "open" => r.key = None
  /\ r.status = "open" /\ ~r.api => r.key = r.fp
  /\ r.status # "absent" /\ ~r.api => r.fp # None

RowsOK == \A i \in Ids : RowOK(inc[i])

\* The unique index.
KeysUnique == \A i, o \in Ids : inc[i].key # None /\ inc[i].key = inc[o].key => i = o

Writes == {"ingest", "update", "job"}

\* r was a state of the row i.
Earlier(i, r) ==
  /\ RowOK(r) /\ r.status # "absent"
  /\ inc[i].status # "absent" /\ r.fp = inc[i].fp /\ r.api = inc[i].api

ReadOK(t) ==
  t.op \in Writes /\ t.id # None =>
    Earlier(t.id, t.inc) /\ (t.op = "ingest" => t.inc.key = t.fp)

ReadsOK == \A c \in Clients : ReadOK(tx[c])

IngestInv == TypeOK /\ RowsOK /\ KeysUnique /\ ReadsOK

\* One row is written: it is new or keeps its identity, and no other has its key.
IncidentStep ==
  \E i \in Ids, r \in IncidentRow :
    /\ RowOK(r) /\ r.status # "absent"
    /\ inc[i].status # "absent" => r.fp = inc[i].fp /\ r.api = inc[i].api
    /\ \A o \in Ids \ {i} : r.key = None \/ inc[o].key # r.key
    /\ inc' = [inc EXCEPT ![i] = r]

-----------------------------------------------------------------------------
(* The shape of the state.                                                 *)

LEMMA TxShape ==
  ASSUME TypeOK, NEW c \in Clients, tx[c] # Idle
  PROVE  /\ tx[c].op \in Writes \cup {"ack"}
         /\ tx[c].op = "ingest" => tx[c] \in IngestTx
         /\ tx[c].op = "update" => tx[c] \in UpdateTx
         /\ tx[c].op = "job" => tx[c] \in JobTx
         /\ tx[c].op = "ack" => tx[c] \in AckTx
<1>1. tx[c] \in IngestTx \cup UpdateTx \cup JobTx \cup AckTx
  BY DEF TypeOK, Tx
<1>2. CASE tx[c] \in IngestTx
  BY <1>2 DEF IngestTx, Writes
<1>3. CASE tx[c] \in UpdateTx
  BY <1>3 DEF UpdateTx, Writes
<1>4. CASE tx[c] \in JobTx
  BY <1>4 DEF JobTx, Writes
<1>5. CASE tx[c] \in AckTx
  BY <1>5 DEF AckTx, Writes
<1> QED BY <1>1, <1>2, <1>3, <1>4, <1>5

LEMMA IdleOps == Idle.op = "idle" /\ Idle.op \notin Writes /\ Idle \in Tx
BY DEF Idle, Writes, Tx

LEMMA RowShapes ==
  /\ NoIncident \in IncidentRow /\ NoCard \in CardRow
  /\ \A f \in Fps : NewIncident(f) \in IncidentRow
  /\ \A r \in IncidentRow : Closed(r) \in IncidentRow
  /\ \A t \in IngestTx, b \in Ids \cup {None} : Applied(t, b) \in CardRow
<1>1. NoIncident \in IncidentRow /\ NoCard \in CardRow
  BY DEF NoIncident, NoCard, IncidentRow, CardRow
<1>2. \A f \in Fps : NewIncident(f) \in IncidentRow
  BY DEF NewIncident, NoIncident, IncidentRow
<1>3. \A r \in IncidentRow : Closed(r) \in IncidentRow
  BY DEF Closed, IncidentRow
<1>4. ASSUME NEW t \in IngestTx, NEW b \in Ids \cup {None}
      PROVE  Applied(t, b) \in CardRow
  <2>1. t.card \in CardRow /\ t.fp \in Fps /\ t.firing \in BOOLEAN
    BY DEF IngestTx
  <2>2. t.card.incident \in Ids \cup {None}
    BY <2>1 DEF CardRow
  <2>3. (IF b # None THEN b ELSE IF t.silenced THEN None ELSE t.card.incident) \in Ids \cup {None}
    BY <2>2
  <2> QED BY <2>1, <2>3 DEF Applied, CardRow
<1> QED BY <1>1, <1>2, <1>3, <1>4

LEMMA UpdatedShape ==
  ASSUME NEW t \in UpdateTx
  PROVE  Updated(t) \in IncidentRow
<1>1. t.inc \in IncidentRow /\ t.to \in {"keep", "open", "closed"}
  BY DEF UpdateTx
<1>2. t.inc.fp \in Fps \cup {None} /\ t.inc.key \in Fps \cup {None}
  BY <1>1 DEF IncidentRow
<1>3. (IF t.inc.key = None THEN t.inc.fp ELSE t.inc.key) \in Fps \cup {None}
  BY <1>2
<1>4. CASE t.to = "keep"
  BY <1>1, <1>4 DEF Updated
<1>5. CASE t.to = "closed"
  BY <1>1, <1>5, RowShapes DEF Updated
<1>6. CASE t.to = "open"
  <2>1. Updated(t) = [t.inc EXCEPT !.status = "open",
                        !.key = IF t.inc.key = None THEN t.inc.fp ELSE t.inc.key]
    BY <1>1, <1>6 DEF Updated
  <2> QED BY <1>1, <1>3, <2>1 DEF IncidentRow
<1> QED BY <1>1, <1>4, <1>5, <1>6

-----------------------------------------------------------------------------
(* What a step does to the incidents.                                      *)

LEMMA ClosedKeeps ==
  ASSUME NEW r \in IncidentRow, RowOK(r), r.status # "absent"
  PROVE  RowOK(Closed(r)) /\ Closed(r).status = "closed" /\ Closed(r).key = None
         /\ Closed(r).fp = r.fp /\ Closed(r).api = r.api
BY DEF Closed, RowOK, IncidentRow

LEMMA UpdatedKeeps ==
  ASSUME NEW t \in UpdateTx, RowOK(t.inc), t.inc.status # "absent"
  PROVE  RowOK(Updated(t)) /\ Updated(t).status # "absent"
         /\ Updated(t).fp = t.inc.fp /\ Updated(t).api = t.inc.api
<1>1. t.inc \in IncidentRow /\ t.to \in {"keep", "open", "closed"}
  BY DEF UpdateTx
<1>2. CASE t.to = "keep"
  BY <1>1, <1>2 DEF Updated
<1>3. CASE t.to = "closed"
  BY <1>1, <1>3, ClosedKeeps DEF Updated
<1>4. CASE t.to = "open"
  <2>1. Updated(t) = [t.inc EXCEPT !.status = "open",
                        !.key = IF t.inc.key = None THEN t.inc.fp ELSE t.inc.key]
    BY <1>1, <1>4 DEF Updated
  <2>2. /\ Updated(t).status = "open" /\ Updated(t).fp = t.inc.fp /\ Updated(t).api = t.inc.api
        /\ Updated(t).key = IF t.inc.key = None THEN t.inc.fp ELSE t.inc.key
    BY <1>1, <2>1 DEF IncidentRow
  <2> QED BY <2>2 DEF RowOK
<1> QED BY <1>1, <1>2, <1>3, <1>4

LEMMA NewIsOK ==
  ASSUME NEW f \in Fps
  PROVE  RowOK(NewIncident(f)) /\ NewIncident(f).status = "open" /\ NewIncident(f).fp = f
         /\ NewIncident(f).key = f
BY NoneAssumption DEF NewIncident, NoIncident, RowOK

\* The save of a row made from one that was read.
LEMMA SaveIsStep ==
  ASSUME NEW i \in Ids, NEW r \in IncidentRow, NEW q, Earlier(i, q),
         RowOK(r), r.status # "absent", r.fp = q.fp, r.api = q.api, SaveIncident(i, r)
  PROVE  IncidentStep
BY DEF Earlier, SaveIncident, IncidentStep

LEMMA ProgressStep ==
  ASSUME IngestInv, NEW c \in Clients, tx[c] # Idle, tx[c].op = "ingest",
         NEW b \in Ids \cup {None}, Progress(tx[c], b)
  PROVE  /\ UNCHANGED inc \/ IncidentStep
         /\ tx[c].firing /\ ~tx[c].drop =>
              b # None /\ inc'[b].status = "open" /\ inc'[b].fp = tx[c].fp
<1> DEFINE t == tx[c]
<1>1. t \in IngestTx /\ ReadOK(t) /\ TypeOK
  BY TxShape DEF IngestInv, ReadsOK
<1>2. /\ t.fp \in Fps /\ t.id \in Ids \cup {None} /\ t.inc \in IncidentRow
      /\ t.firing \in BOOLEAN /\ t.drop \in BOOLEAN
  BY <1>1 DEF IngestTx
<1>3. inc \in [Ids -> IncidentRow] /\ None \notin Ids /\ None \notin Fps
  BY <1>1, NoneAssumption DEF TypeOK
<1>4. t.op = "ingest"
  OBVIOUS
<1> HIDE DEF t
<1>5. CASE ~t.drop /\ Merges(t, b)
  <2>1. b = t.id /\ t.id \in Ids /\ SaveIncident(t.id, IF t.firing THEN t.inc ELSE Closed(t.inc))
    BY <1>2, <1>5 DEF Merges
  <2>2. Earlier(t.id, t.inc) /\ t.inc.key = t.fp
    BY <1>1, <1>2, <1>3, <1>4, <2>1 DEF ReadOK, Writes
  <2>3. RowOK(t.inc) /\ t.inc.status = "open" /\ t.inc.fp = t.fp
    BY <1>2, <1>3, <2>2 DEF Earlier, RowOK
  <2>4. CASE t.firing
    <3>1. SaveIncident(t.id, t.inc)
      BY <2>1, <2>4
    <3>2. inc'[t.id] = t.inc
      BY <1>3, <2>1, <3>1 DEF SaveIncident
    <3>3. IncidentStep
      BY <1>2, <2>1, <2>2, <2>3, <3>1, SaveIsStep
    <3> QED BY <1>3, <2>1, <2>3, <3>2, <3>3 DEF t
  <2>5. CASE ~t.firing
    <3>1. SaveIncident(t.id, Closed(t.inc)) /\ Closed(t.inc) \in IncidentRow
      BY <1>2, <2>1, <2>5, RowShapes
    <3>2. IncidentStep
      BY <1>2, <2>1, <2>2, <2>3, <3>1, SaveIsStep, ClosedKeeps
    <3> QED BY <2>5, <3>2 DEF t
  <2> QED BY <2>4, <2>5
<1>6. CASE ~t.drop /\ Creates(t, b)
  <2>1. /\ b \in Ids /\ inc[b] = NoIncident /\ t.firing
        /\ \A o \in Ids : inc[o].key # t.fp
        /\ inc' = [inc EXCEPT ![b] = NewIncident(t.fp)]
    BY <1>6 DEF Creates
  <2>2. /\ NewIncident(t.fp) \in IncidentRow /\ RowOK(NewIncident(t.fp))
        /\ NewIncident(t.fp).status = "open" /\ NewIncident(t.fp).fp = t.fp
        /\ NewIncident(t.fp).key = t.fp
    BY <1>2, NewIsOK, RowShapes
  <2>3. inc[b].status = "absent"
    BY <2>1 DEF NoIncident
  <2>4. IncidentStep
    BY <2>1, <2>2, <2>3 DEF IncidentStep
  <2>5. inc'[b] = NewIncident(t.fp)
    BY <1>3, <2>1
  <2> QED BY <1>3, <2>1, <2>2, <2>4, <2>5 DEF t
<1>7. CASE ~t.drop /\ ReadsBack(t, b)
  <2>1. b \in Ids /\ inc[b].key = t.fp /\ inc' = inc
    BY <1>7 DEF ReadsBack
  <2>2. RowOK(inc[b])
    BY <2>1 DEF IngestInv, RowsOK
  <2>3. inc[b].status = "open" /\ inc[b].fp = t.fp
    BY <1>2, <1>3, <2>1, <2>2 DEF RowOK
  <2> QED BY <1>3, <2>1, <2>3 DEF t
<1>8. CASE (t.drop \/ (t.id = None /\ ~t.firing)) /\ b = None /\ inc' = inc
  <2>1. ~(t.firing /\ ~t.drop)
    BY <1>8
  <2> QED BY <1>8, <2>1 DEF t
<1>9. Progress(t, b)
  BY DEF t
<1> QED BY <1>5, <1>6, <1>7, <1>8, <1>9 DEF Progress

LEMMA UpdateStep ==
  ASSUME IngestInv, NEW c \in Clients, tx[c] # Idle, UpdateCommit(c)
  PROVE  IncidentStep
<1> DEFINE t == tx[c]
<1>1. t \in UpdateTx /\ ReadOK(t) /\ t.op = "update" /\ SaveIncident(t.id, Updated(t))
  BY TxShape DEF IngestInv, ReadsOK, UpdateCommit
<1>2. t.id \in Ids /\ t.inc \in IncidentRow /\ t.id # None
  BY <1>1, NoneAssumption DEF UpdateTx
<1> HIDE DEF t
<1>3. Earlier(t.id, t.inc)
  BY <1>1, <1>2 DEF ReadOK, Writes
<1>4. RowOK(t.inc) /\ t.inc.status # "absent"
  BY <1>3 DEF Earlier
<1>5. /\ Updated(t) \in IncidentRow
      /\ RowOK(Updated(t)) /\ Updated(t).status # "absent"
      /\ Updated(t).fp = t.inc.fp /\ Updated(t).api = t.inc.api
  BY <1>1, <1>4, UpdatedShape, UpdatedKeeps
<1> QED BY <1>1, <1>2, <1>3, <1>5, SaveIsStep

LEMMA JobStep ==
  ASSUME IngestInv, NEW c \in Clients, tx[c] # Idle, JobCommit(c)
  PROVE  IncidentStep
<1> DEFINE t == tx[c]
           r == [t.inc EXCEPT !.diagnosed = TRUE]
<1>1. t \in JobTx /\ ReadOK(t) /\ t.op = "job" /\ SaveIncident(t.id, r)
  BY TxShape DEF IngestInv, ReadsOK, JobCommit
<1>2. t.id \in Ids /\ t.inc \in IncidentRow /\ t.id # None
  BY <1>1, NoneAssumption DEF JobTx
<1>3. /\ r \in IncidentRow /\ r.fp = t.inc.fp /\ r.api = t.inc.api
      /\ r.status = t.inc.status /\ r.key = t.inc.key
  BY <1>2 DEF IncidentRow
<1> HIDE DEF t, r
<1>4. Earlier(t.id, t.inc)
  BY <1>1, <1>2 DEF ReadOK, Writes
<1>5. RowOK(r) /\ r.status # "absent"
  BY <1>3, <1>4 DEF Earlier, RowOK
<1> QED BY <1>1, <1>2, <1>3, <1>4, <1>5, SaveIsStep

LEMMA CreateStep ==
  ASSUME IngestInv, NEW i \in Ids, NEW f \in Fps, Create(i, f)
  PROVE  IncidentStep
<1> DEFINE r == [NoIncident EXCEPT !.status = "open", !.fp = f, !.api = TRUE]
<1>1. /\ r.status = "open" /\ r.fp = f /\ r.api = TRUE /\ r.key = None
      /\ r \in IncidentRow
  BY DEF NoIncident, IncidentRow
<1>2. inc[i].status = "absent" /\ inc' = [inc EXCEPT ![i] = r]
  BY DEF Create, NoIncident
<1> HIDE DEF r
<1>3. RowOK(r)
  BY <1>1, NoneAssumption DEF RowOK
<1> QED BY <1>1, <1>2, <1>3 DEF IncidentStep

\* Every step changes at most one incident, and then in this way.
LEMMA EveryStep ==
  ASSUME IngestInv, [Next]_vars
  PROVE  UNCHANGED inc \/ IncidentStep
<1>1. CASE UNCHANGED vars
  BY <1>1 DEF vars
<1>2. ASSUME NEW c \in Clients, IngestCommit(c)
      PROVE  UNCHANGED inc \/ IncidentStep
  <2>1. tx[c].op = "ingest" /\ tx[c] # Idle
    BY <1>2, IdleOps DEF IngestCommit, Writes
  <2>2. PICK b \in Ids \cup {None} : Progress(tx[c], b)
    BY <1>2 DEF IngestCommit
  <2> QED BY <2>1, <2>2, ProgressStep
<1>3. ASSUME NEW c \in Clients, UpdateCommit(c)
      PROVE  IncidentStep
  BY <1>3, UpdateStep, IdleOps DEF UpdateCommit
<1>4. ASSUME NEW c \in Clients, JobCommit(c)
      PROVE  IncidentStep
  BY <1>4, JobStep, IdleOps DEF JobCommit
<1>5. ASSUME NEW i \in Ids, NEW f \in Fps, Create(i, f)
      PROVE  IncidentStep
  BY <1>5, CreateStep
<1>6. ASSUME NEW c \in Clients, AckCommit(c) \/ Abort(c)
      PROVE  UNCHANGED inc
  BY <1>6 DEF AckCommit, Abort
<1>7. ASSUME NEW c \in Clients, NEW t, Open(c, t)
      PROVE  UNCHANGED inc
  BY <1>7 DEF Open
<1>8. ASSUME NEW c \in Clients, NEW f \in Fps, NEW firing \in BOOLEAN,
             NEW silenced \in BOOLEAN, NEW drop \in BOOLEAN, NEW k \in Keys \cup {None},
             IngestBegin(c, f, firing, silenced, drop, k)
      PROVE  UNCHANGED inc
  BY <1>7, <1>8 DEF IngestBegin
<1>9. ASSUME NEW c \in Staff, NEW a \in Cards, AckBegin(c, a)
      PROVE  UNCHANGED inc
  BY <1>7, <1>9, SlotAssumption DEF AckBegin
<1>10. ASSUME NEW c \in Staff, NEW i \in Ids, NEW to, UpdateBegin(c, i, to) \/ JobBegin(c, i)
       PROVE  UNCHANGED inc
  BY <1>7, <1>10, SlotAssumption DEF UpdateBegin, JobBegin
<1> QED BY <1>1, <1>2, <1>3, <1>4, <1>5, <1>6, <1>8, <1>9, <1>10 DEF Next

-----------------------------------------------------------------------------
(* The invariant.                                                          *)

LEMMA IncidentsStay ==
  ASSUME IngestInv, UNCHANGED inc \/ IncidentStep
  PROVE  /\ inc' \in [Ids -> IncidentRow] /\ RowsOK' /\ KeysUnique'
         /\ \A i \in Ids : inc[i].status # "absent" =>
              /\ inc'[i].status # "absent"
              /\ inc'[i].fp = inc[i].fp /\ inc'[i].api = inc[i].api
<1>1. inc \in [Ids -> IncidentRow] /\ RowsOK /\ KeysUnique
  BY DEF IngestInv, TypeOK
<1>2. CASE UNCHANGED inc
  BY <1>1, <1>2 DEF RowsOK, KeysUnique
<1>3. CASE IncidentStep
  <2>1. PICK i \in Ids, r \in IncidentRow :
          /\ RowOK(r) /\ r.status # "absent"
          /\ inc[i].status # "absent" => r.fp = inc[i].fp /\ r.api = inc[i].api
          /\ \A o \in Ids \ {i} : r.key = None \/ inc[o].key # r.key
          /\ inc' = [inc EXCEPT ![i] = r]
    BY <1>3 DEF IncidentStep
  <2>2. inc' \in [Ids -> IncidentRow] /\ \A o \in Ids : inc'[o] = IF o = i THEN r ELSE inc[o]
    BY <1>1, <2>1
  <2>3. RowsOK'
    BY <1>1, <2>1, <2>2 DEF RowsOK
  <2>4. KeysUnique'
    BY <1>1, <2>1, <2>2 DEF KeysUnique
  <2> QED BY <2>1, <2>2, <2>3, <2>4
<1> QED BY <1>2, <1>3

\* Rows that requests remember stay earlier states of the rows in the table.
LEMMA ReadsStay ==
  ASSUME IngestInv, UNCHANGED inc \/ IncidentStep,
         NEW c \in Clients,
         \A d \in Clients \ {c} : tx'[d] = tx[d],
         tx'[c] = tx[c] \/ tx'[c] = Idle
  PROVE  ReadsOK'
<1> SUFFICES ASSUME NEW d \in Clients PROVE ReadOK(tx[d])'
  BY DEF ReadsOK
<1>1. tx'[d] = tx[d] \/ tx'[d] = Idle
  OBVIOUS
<1>2. CASE tx'[d] = Idle
  BY <1>2, IdleOps DEF ReadOK
<1>3. CASE tx'[d] = tx[d]
  <2>1. ReadOK(tx[d])
    BY DEF IngestInv, ReadsOK
  <2>2. SUFFICES ASSUME tx[d].op \in Writes, tx[d].id # None
                 PROVE  /\ RowOK(tx[d].inc) /\ tx[d].inc.status # "absent"
                        /\ inc'[tx[d].id].status # "absent"
                        /\ tx[d].inc.fp = inc'[tx[d].id].fp
                        /\ tx[d].inc.api = inc'[tx[d].id].api
                        /\ tx[d].op = "ingest" => tx[d].inc.key = tx[d].fp
    BY <1>3 DEF ReadOK, Earlier
  <2>3. Earlier(tx[d].id, tx[d].inc) /\ (tx[d].op = "ingest" => tx[d].inc.key = tx[d].fp)
    BY <2>1, <2>2 DEF ReadOK
  <2>4. tx[d].id \in Ids
    <3>1. tx[d] # Idle /\ TypeOK /\ tx[d].op \in {"ingest", "update", "job"}
      BY <2>2, IdleOps DEF IngestInv, Writes
    <3>2. CASE tx[d] \in IngestTx
      BY <2>2, <3>2 DEF IngestTx
    <3>3. CASE tx[d] \in UpdateTx
      BY <3>3 DEF UpdateTx
    <3>4. CASE tx[d] \in JobTx
      BY <3>4 DEF JobTx
    <3> QED BY <3>1, <3>2, <3>3, <3>4, TxShape
  <2> QED BY <2>3, <2>4, IncidentsStay DEF Earlier
<1> QED BY <1>1, <1>2, <1>3

\* A request that opens remembers rows of the table.
LEMMA OpenKeeps ==
  ASSUME IngestInv, NEW c \in Clients, NEW t \in Tx, Open(c, t), ReadOK(t)
  PROVE  IngestInv'
<1>1. /\ inc' = inc /\ card' = card /\ hist' = hist
      /\ tx' = [tx EXCEPT ![c] = t] /\ tx \in [Clients -> Tx]
  BY DEF Open, IngestInv, TypeOK
<1>2. TypeOK'
  BY <1>1 DEF IngestInv, TypeOK
<1>3. RowsOK' /\ KeysUnique'
  BY <1>1 DEF IngestInv, RowsOK, KeysUnique
<1>4. ReadsOK'
  <2>1. \A d \in Clients : tx'[d] = IF d = c THEN t ELSE tx[d]
    BY <1>1
  <2>2. \A d \in Clients : ReadOK(tx[d])
    BY DEF IngestInv, ReadsOK
  <2> QED BY <1>1, <2>1, <2>2 DEF ReadsOK, ReadOK, Earlier
<1> QED BY <1>2, <1>3, <1>4 DEF IngestInv

LEMMA FoundIs ==
  ASSUME IngestInv, NEW f \in Fps
  PROVE  /\ \A i \in Found(inc, f) : i = None \/ (i \in Ids /\ inc[i].key = f)
         /\ \A a \in Found(card, f) : a = None \/ a \in Cards
BY DEF IngestInv, TypeOK, Found

LEMMA IngestBegins ==
  ASSUME IngestInv, NEW c \in Clients, NEW f \in Fps, NEW firing \in BOOLEAN,
         NEW silenced \in BOOLEAN, NEW drop \in BOOLEAN, NEW k \in Keys \cup {None},
         IngestBegin(c, f, firing, silenced, drop, k)
  PROVE  IngestInv'
<1>1. PICK i \in (IF drop THEN {None} ELSE Found(inc, f)), a \in Found(card, f) :
        Open(c, [op |-> "ingest", fp |-> f, firing |-> firing, silenced |-> silenced,
                 drop |-> drop, key |-> k,
                 id |-> i, inc |-> IF i = None THEN NoIncident ELSE inc[i],
                 cid |-> a, card |-> IF a = None THEN NoCard ELSE card[a]])
  BY DEF IngestBegin
<1>2. (i = None \/ (i \in Ids /\ inc[i].key = f)) /\ (a = None \/ a \in Cards)
  BY FoundIs
<1> DEFINE row == IF i = None THEN NoIncident ELSE inc[i]
           cur == IF a = None THEN NoCard ELSE card[a]
           t == [op |-> "ingest", fp |-> f, firing |-> firing, silenced |-> silenced,
                 drop |-> drop, key |-> k, id |-> i, inc |-> row, cid |-> a, card |-> cur]
<1>3. row \in IncidentRow /\ cur \in CardRow
  BY <1>2, RowShapes DEF IngestInv, TypeOK
<1>4. Open(c, t)
  BY <1>1
<1>5. i # None => RowOK(row) /\ row = inc[i] /\ row.key = f
  BY <1>2 DEF IngestInv, RowsOK
<1> HIDE DEF row, cur
<1>6. t \in IngestTx
  BY <1>2, <1>3 DEF IngestTx
<1>7. ReadOK(t)
  <2>1. ASSUME i # None
        PROVE  Earlier(i, row) /\ row.key = f
    BY <1>2, <1>5, <2>1, NoneAssumption DEF Earlier, RowOK
  <2> QED BY <2>1 DEF ReadOK
<1>8. t \in Tx
  BY <1>6 DEF Tx
<1> HIDE DEF t
<1> QED BY <1>4, <1>7, <1>8, OpenKeeps

LEMMA UpdateOrJobBegins ==
  ASSUME IngestInv, NEW c \in Clients, NEW i \in Ids,
         NEW to \in {"keep", "open", "closed"},
         UpdateBegin(c, i, to) \/ JobBegin(c, i)
  PROVE  IngestInv'
<1>1. inc[i] \in IncidentRow /\ RowOK(inc[i])
  BY DEF IngestInv, TypeOK, RowsOK
<1>2. CASE UpdateBegin(c, i, to)
  <2> DEFINE t == [op |-> "update", id |-> i, inc |-> inc[i], to |-> to]
  <2>1. Open(c, t) /\ inc[i].status # "absent"
    BY <1>2 DEF UpdateBegin
  <2>2. t \in UpdateTx
    BY <1>1 DEF UpdateTx
  <2>3. ReadOK(t)
    BY <1>1, <2>1 DEF ReadOK, Earlier
  <2>4. t \in Tx
    BY <2>2 DEF Tx
  <2> HIDE DEF t
  <2> QED BY <2>1, <2>3, <2>4, OpenKeeps
<1>3. CASE JobBegin(c, i)
  <2> DEFINE t == [op |-> "job", id |-> i, inc |-> inc[i]]
  <2>1. Open(c, t) /\ inc[i].status # "absent"
    BY <1>3 DEF JobBegin
  <2>2. t \in JobTx
    BY <1>1 DEF JobTx
  <2>3. ReadOK(t)
    BY <1>1, <2>1 DEF ReadOK, Earlier
  <2>4. t \in Tx
    BY <2>2 DEF Tx
  <2> HIDE DEF t
  <2> QED BY <2>1, <2>3, <2>4, OpenKeeps
<1> QED BY <1>2, <1>3

LEMMA AckBegins ==
  ASSUME IngestInv, NEW c \in Clients, NEW a \in Cards, AckBegin(c, a)
  PROVE  IngestInv'
<1> DEFINE t == [op |-> "ack", cid |-> a, card |-> card[a]]
<1>1. Open(c, t)
  BY DEF AckBegin
<1>2. t \in AckTx
  BY DEF AckTx, IngestInv, TypeOK
<1>3. ReadOK(t)
  BY DEF ReadOK, Writes
<1>4. t \in Tx
  BY <1>2 DEF Tx
<1> HIDE DEF t
<1> QED BY <1>1, <1>3, <1>4, OpenKeeps

\* A request that closes leaves the shape of the tables; what it does to the
\* incidents is an IncidentStep.
LEMMA CloseKeeps ==
  ASSUME IngestInv, UNCHANGED inc \/ IncidentStep,
         NEW c \in Clients, tx' = [tx EXCEPT ![c] = Idle] \/ tx' = tx,
         card' \in [Cards -> CardRow], hist' \subseteq Keys
  PROVE  IngestInv'
<1>1. tx \in [Clients -> Tx]
  BY DEF IngestInv, TypeOK
<1>2. tx' \in [Clients -> Tx]
  BY <1>1, IdleOps
<1>3. /\ \A d \in Clients \ {c} : tx'[d] = tx[d]
      /\ tx'[c] = tx[c] \/ tx'[c] = Idle
  BY <1>1
<1>4. ReadsOK'
  BY <1>3, ReadsStay
<1>5. TypeOK'
  BY <1>2, IncidentsStay DEF TypeOK
<1> QED BY <1>4, <1>5, IncidentsStay DEF IngestInv

LEMMA IngestCommits ==
  ASSUME IngestInv, NEW c \in Clients, IngestCommit(c)
  PROVE  IngestInv'
<1> DEFINE t == tx[c]
<1>1. t.op = "ingest" /\ t # Idle
  BY IdleOps DEF IngestCommit, Writes
<1>2. t \in IngestTx /\ TypeOK
  BY <1>1, TxShape DEF IngestInv
<1>3. PICK b \in Ids \cup {None} : Progress(t, b) /\ Recorded(t) /\ MergesCurrent(t, b)
  BY DEF IngestCommit
<1>4. UNCHANGED inc \/ IncidentStep
  BY <1>1, <1>3, ProgressStep
<1>5. Applied(t, b) \in CardRow
  BY <1>2, RowShapes
<1>6. t.key \in Keys \cup {None} /\ t.cid \in Cards \cup {None}
  BY <1>2 DEF IngestTx
<1> HIDE DEF t
<1>7. card' \in [Cards -> CardRow]
  BY <1>2, <1>3, <1>5, <1>6 DEF MergesCurrent, SaveCard, TypeOK
<1>8. hist' \subseteq Keys
  BY <1>2, <1>3, <1>6 DEF Recorded, TypeOK
<1>9. tx' = [tx EXCEPT ![c] = Idle]
  BY DEF IngestCommit, Close
<1> QED BY <1>4, <1>7, <1>8, <1>9, CloseKeeps

\* The invariant is inductive.
LEMMA IngestInductive ==
  ASSUME IngestInv, [Next]_vars
  PROVE  IngestInv'
<1>1. UNCHANGED inc \/ IncidentStep
  BY EveryStep
<1>2. card \in [Cards -> CardRow] /\ hist \subseteq Keys /\ tx \in [Clients -> Tx]
  BY DEF IngestInv, TypeOK
<1>3. CASE UNCHANGED vars
  <2>1. inc' = inc /\ card' = card /\ hist' = hist /\ tx' = tx
    BY <1>3 DEF vars
  <2> QED BY <2>1 DEF IngestInv, TypeOK, RowsOK, KeysUnique, ReadsOK, ReadOK, Earlier
<1>4. ASSUME NEW c \in Clients, UpdateCommit(c) \/ JobCommit(c) \/ Abort(c)
      PROVE  IngestInv'
  <2>1. tx' = [tx EXCEPT ![c] = Idle] /\ card' = card /\ hist' = hist
    BY <1>4 DEF UpdateCommit, JobCommit, Abort, Close
  <2> QED BY <1>1, <1>2, <2>1, CloseKeeps
<1>5. ASSUME NEW c \in Clients, AckCommit(c)
      PROVE  IngestInv'
  <2>1. tx[c] \in AckTx /\ tx[c].op = "ack"
    BY <1>5, TxShape, IdleOps DEF AckCommit, IngestInv
  <2>2. tx[c].card \in CardRow
    BY <2>1 DEF AckTx
  <2>3. card' \in [Cards -> CardRow]
    BY <1>2, <1>5, <2>2 DEF AckCommit, SaveCard
  <2>4. tx' = [tx EXCEPT ![c] = Idle] /\ hist' = hist
    BY <1>5 DEF AckCommit, Close
  <2> QED BY <1>1, <1>2, <2>3, <2>4, CloseKeeps
<1>6. ASSUME NEW i \in Ids, NEW f \in Fps, Create(i, f)
      PROVE  IngestInv'
  <2>1. IncidentStep /\ card' = card /\ hist' = hist /\ tx' = tx
    BY <1>6, CreateStep DEF Create
  <2>2. TypeOK'
    BY <1>2, <2>1, IncidentsStay DEF TypeOK
  <2>3. CASE Clients = {}
    BY <2>1, <2>2, <2>3, IncidentsStay DEF IngestInv, ReadsOK
  <2>4. CASE Clients # {}
    <3>1. PICK c \in Clients : TRUE
      BY <2>4
    <3> QED BY <1>2, <2>1, <3>1, CloseKeeps
  <2> QED BY <2>3, <2>4
<1>7. ASSUME NEW c \in Staff, NEW i \in Ids, NEW to \in {"keep", "open", "closed"},
             UpdateBegin(c, i, to) \/ JobBegin(c, i)
      PROVE  IngestInv'
  BY <1>7, UpdateOrJobBegins, SlotAssumption
<1>8. ASSUME NEW c \in Staff, NEW a \in Cards, AckBegin(c, a)
      PROVE  IngestInv'
  BY <1>8, AckBegins, SlotAssumption
<1> QED BY <1>3, <1>4, <1>5, <1>6, <1>7, <1>8, IngestBegins, IngestCommits DEF Next

LEMMA IngestInitially == Init => IngestInv
<1> SUFFICES ASSUME Init PROVE IngestInv
  OBVIOUS
<1>1. \A i \in Ids : inc[i] = NoIncident
  BY DEF Init
<1>2. NoIncident.key = None /\ RowOK(NoIncident)
  BY DEF NoIncident, RowOK
<1>3. TypeOK
  BY RowShapes, IdleOps DEF Init, TypeOK
<1>4. ReadsOK
  BY IdleOps DEF Init, ReadsOK, ReadOK
<1> QED BY <1>1, <1>2, <1>3, <1>4 DEF IngestInv, RowsOK, KeysUnique

LEMMA IngestAlways == Spec => []IngestInv
BY IngestInitially, IngestInductive, PTL DEF Spec

-----------------------------------------------------------------------------
(* What is over: who can open it again.                                    *)

\* Only a firing alert is the current one of its fingerprint.
CardOK(r) == r.key # None => r.status = "firing"

\* Ingests merge into the current alert; an acknowledgement saves any that there is.
CardReadOK(t) ==
  /\ t.op = "ingest" /\ t.cid # None => t.card.status = "firing"
  /\ t.op = "ack" => CardOK(t.card) /\ t.card.status # "absent"

CardInv == (\A a \in Cards : CardOK(card[a])) /\ \A c \in Clients : CardReadOK(tx[c])

\* What changes a table, besides the API's new incidents, is a commit.
LEMMA ChangesAreCommits ==
  ASSUME IngestInv, [Next]_vars, inc' # inc \/ card' # card
  PROVE  \/ \E i \in Ids, f \in Fps : Create(i, f)
         \/ \E c \in Clients :
              /\ Steps(c) /\ tx[c] # Idle
              /\ IngestCommit(c) \/ UpdateCommit(c) \/ JobCommit(c) \/ AckCommit(c)
<1>1. ASSUME NEW c \in Clients, NEW t PROVE ~Open(c, t)
  BY DEF Open
<1>2. ASSUME NEW c \in Clients, NEW f \in Fps, NEW firing \in BOOLEAN,
             NEW silenced \in BOOLEAN, NEW drop \in BOOLEAN, NEW k \in Keys \cup {None}
      PROVE  ~IngestBegin(c, f, firing, silenced, drop, k)
  BY <1>1 DEF IngestBegin
<1>3. ASSUME NEW c \in Staff
      PROVE  /\ \A i \in Ids, to \in {"keep", "open", "closed"} : ~UpdateBegin(c, i, to)
             /\ \A i \in Ids : ~JobBegin(c, i)
             /\ \A a \in Cards : ~AckBegin(c, a)
  BY <1>1, SlotAssumption DEF UpdateBegin, JobBegin, AckBegin
<1>4. ~UNCHANGED vars /\ \A c \in Clients : ~Abort(c)
  BY DEF vars, Abort
<1>5. ASSUME NEW c \in Clients,
             IngestCommit(c) \/ UpdateCommit(c) \/ JobCommit(c) \/ AckCommit(c)
      PROVE  Steps(c) /\ tx[c] # Idle
  <2>1. tx[c].op \in Writes \cup {"ack"} /\ tx' = [tx EXCEPT ![c] = Idle]
    BY <1>5 DEF IngestCommit, UpdateCommit, JobCommit, AckCommit, Writes, Close
  <2>2. tx[c] # Idle
    BY <2>1, IdleOps
  <2>3. tx'[c] = Idle
    BY <2>1 DEF IngestInv, TypeOK
  <2> QED BY <2>2, <2>3 DEF Steps
<1> QED BY <1>2, <1>3, <1>4, <1>5 DEF Next

\* What request t saves over an incident that it read.
Saves(t, r) ==
  \/ t.op = "ingest" /\ r \in {t.inc, Closed(t.inc)}
  \/ t.op = "update" /\ t \in UpdateTx /\ r = Updated(t)
  \/ t.op = "job" /\ r = [t.inc EXCEPT !.diagnosed = TRUE]

\* An incident that is there changes by a save over the row that a request read.
LEMMA IncidentSaved ==
  ASSUME IngestInv, [Next]_vars, NEW i \in Ids, inc'[i] # inc[i], inc[i].status # "absent"
  PROVE  \E c \in Clients :
           /\ Steps(c) /\ tx[c].op \in Writes /\ tx[c].id = i
           /\ tx[c].inc \in IncidentRow /\ tx[c].inc.status # "absent"
           /\ Saves(tx[c], inc'[i])
<1>a. inc \in [Ids -> IncidentRow] /\ NoIncident.status = "absent" /\ None \notin Ids
  BY NoneAssumption DEF IngestInv, TypeOK, NoIncident
<1>1. ASSUME NEW j \in Ids, NEW f \in Fps, Create(j, f) PROVE FALSE
  BY <1>1, <1>a DEF Create
<1>2. PICK c \in Clients :
        /\ Steps(c) /\ tx[c] # Idle
        /\ IngestCommit(c) \/ UpdateCommit(c) \/ JobCommit(c) \/ AckCommit(c)
  BY <1>1, ChangesAreCommits
<1> DEFINE t == tx[c]
<1>3. t.op \in Writes /\ t.id = i /\ t.inc \in IncidentRow /\ Saves(t, inc'[i])
  <2>1. CASE IngestCommit(c)
    <3>1. t \in IngestTx /\ t.op = "ingest"
      BY <1>2, <2>1, TxShape DEF IngestCommit, IngestInv
    <3>2. PICK b \in Ids \cup {None} : Progress(t, b)
      BY <2>1 DEF IngestCommit
    <3>3. t.id \in Ids \cup {None} /\ t.inc \in IncidentRow
      BY <3>1 DEF IngestTx
    <3> HIDE DEF t
    <3>4. ~Creates(t, b)
      BY <1>a DEF Creates
    <3>5. Merges(t, b)
      BY <3>2, <3>4 DEF Progress, ReadsBack
    <3>6. t.id \in Ids
          /\ inc' = [inc EXCEPT ![t.id] = IF t.firing THEN t.inc ELSE Closed(t.inc)]
      BY <3>3, <3>5 DEF Merges, SaveIncident
    <3>7. t.id = i /\ inc'[i] \in {t.inc, Closed(t.inc)}
      BY <1>a, <3>6
    <3> QED BY <3>1, <3>3, <3>7 DEF Saves, Writes
  <2>2. CASE UpdateCommit(c)
    <3>1. t \in UpdateTx /\ t.op = "update"
      BY <1>2, <2>2, TxShape DEF UpdateCommit, IngestInv
    <3>2. t.id \in Ids /\ t.inc \in IncidentRow
      BY <3>1 DEF UpdateTx
    <3>3. inc' = [inc EXCEPT ![t.id] = Updated(t)]
      BY <2>2 DEF UpdateCommit, SaveIncident
    <3> HIDE DEF t
    <3>4. t.id = i /\ inc'[i] = Updated(t)
      BY <1>a, <3>2, <3>3
    <3> QED BY <3>1, <3>2, <3>4 DEF Saves, Writes
  <2>3. CASE JobCommit(c)
    <3>1. t \in JobTx /\ t.op = "job"
      BY <1>2, <2>3, TxShape DEF JobCommit, IngestInv
    <3>2. t.id \in Ids /\ t.inc \in IncidentRow
      BY <3>1 DEF JobTx
    <3> DEFINE r == [t.inc EXCEPT !.diagnosed = TRUE]
    <3>3. inc' = [inc EXCEPT ![t.id] = r]
      BY <2>3 DEF JobCommit, SaveIncident
    <3>a. r = [t.inc EXCEPT !.diagnosed = TRUE]
      OBVIOUS
    <3> HIDE DEF t, r
    <3>4. t.id = i /\ inc'[i] = r
      BY <1>a, <3>2, <3>3
    <3> QED BY <3>1, <3>2, <3>4, <3>a DEF Saves, Writes
  <2>4. CASE AckCommit(c)
    BY <2>4 DEF AckCommit
  <2> QED BY <1>2, <2>1, <2>2, <2>3, <2>4
<1>4. t.inc.status # "absent"
  BY <1>a, <1>3 DEF IngestInv, ReadsOK, ReadOK, Earlier
<1> QED BY <1>2, <1>3, <1>4

\* A save opens no incident that was closed when it was read, unless that is what it
\* is for, and takes no diagnosis away.
LEMMA SavesKeep ==
  ASSUME NEW t, NEW r, t.inc \in IncidentRow, t.inc.status # "absent", Saves(t, r)
  PROVE  /\ r.status # "closed" =>
              t.inc.status = "open" \/ (t.op = "update" /\ t.to = "open")
         /\ ~r.diagnosed => ~t.inc.diagnosed
<1>a. t.inc.status \in {"open", "closed"} /\ t.inc.diagnosed \in BOOLEAN
  BY DEF IncidentRow
<1>b. /\ Closed(t.inc).status = "closed" /\ Closed(t.inc).diagnosed = t.inc.diagnosed
  BY DEF Closed, IncidentRow
<1>1. CASE t.op = "ingest" /\ r \in {t.inc, Closed(t.inc)}
  BY <1>1, <1>a, <1>b
<1>2. CASE t.op = "update" /\ t \in UpdateTx /\ r = Updated(t)
  <2>1. t.to \in {"keep", "open", "closed"}
    BY <1>2 DEF UpdateTx
  <2>2. CASE t.to = "keep"
    BY <1>2, <1>a, <2>2 DEF Updated
  <2>3. CASE t.to = "closed"
    BY <1>2, <1>b, <2>3 DEF Updated
  <2>4. CASE t.to = "open"
    <3>1. r = [t.inc EXCEPT !.status = "open",
                            !.key = IF t.inc.key = None THEN t.inc.fp ELSE t.inc.key]
      BY <1>2, <2>4 DEF Updated
    <3>2. r.diagnosed = t.inc.diagnosed
      BY <3>1 DEF IncidentRow
    <3> QED BY <1>2, <2>4, <3>2
  <2> QED BY <2>1, <2>2, <2>3, <2>4
<1>3. CASE t.op = "job" /\ r = [t.inc EXCEPT !.diagnosed = TRUE]
  <2>1. r.status = t.inc.status /\ r.diagnosed = TRUE
    BY <1>3 DEF IncidentRow
  <2> QED BY <1>a, <2>1
<1> QED BY <1>1, <1>2, <1>3 DEF Saves

\* An alert changes by the ingest that merges into it or makes it, or by an
\* acknowledgement.
LEMMA CardSaved ==
  ASSUME IngestInv, [Next]_vars, NEW a \in Cards, card'[a] # card[a]
  PROVE  \E c \in Clients :
           /\ Steps(c)
           /\ \/ /\ tx[c].op = "ingest" /\ tx[c] \in IngestTx
                 /\ tx[c].cid = a \/ card[a] = NoCard
                 /\ \E b \in Ids \cup {None} : card'[a] = Applied(tx[c], b)
              \/ tx[c].op = "ack" /\ tx[c].cid = a /\ card'[a] = tx[c].card
<1>a. card \in [Cards -> CardRow] /\ None \notin Cards
  BY NoneAssumption DEF IngestInv, TypeOK
<1>1. ASSUME NEW j \in Ids, NEW f \in Fps, Create(j, f) PROVE FALSE
  BY <1>1 DEF Create
<1>2. PICK c \in Clients :
        /\ Steps(c) /\ tx[c] # Idle
        /\ IngestCommit(c) \/ UpdateCommit(c) \/ JobCommit(c) \/ AckCommit(c)
  BY <1>1, ChangesAreCommits
<1> DEFINE t == tx[c]
<1>3. CASE IngestCommit(c)
  <2>1. t \in IngestTx /\ t.op = "ingest"
    BY <1>2, <1>3, TxShape DEF IngestCommit, IngestInv
  <2>2. PICK b \in Ids \cup {None} : MergesCurrent(t, b)
    BY <1>3 DEF IngestCommit
  <2>3. t.cid \in Cards \cup {None}
    BY <2>1 DEF IngestTx
  <2> DEFINE r == Applied(t, b)
  <2>4. \E d \in Cards : /\ t.cid = d \/ card[d] = NoCard
                         /\ card' = [card EXCEPT ![d] = r]
    <3> HIDE DEF t
    <3>1. ASSUME NEW d \in Cards, SaveCard(d, r) PROVE card' = [card EXCEPT ![d] = r]
      BY <3>1 DEF SaveCard
    <3> HIDE DEF r
    <3>2. \/ \E d \in Cards : card[d] = NoCard /\ SaveCard(d, r)
          \/ t.cid # None /\ SaveCard(t.cid, r)
      BY <2>2 DEF MergesCurrent, r
    <3> QED BY <2>3, <3>1, <3>2
  <2>5. (t.cid = a \/ card[a] = NoCard) /\ card'[a] = r
    <3> HIDE DEF t, r
    <3> QED BY <1>a, <2>4
  <2> QED BY <1>2, <2>1, <2>5
<1>4. CASE AckCommit(c)
  <2>1. t \in AckTx /\ t.op = "ack"
    BY <1>2, <1>4, TxShape DEF AckCommit, IngestInv
  <2>2. t.cid \in Cards /\ card' = [card EXCEPT ![t.cid] = t.card]
    BY <1>4, <2>1 DEF AckCommit, SaveCard, AckTx
  <2> HIDE DEF t
  <2>3. t.cid = a /\ card'[a] = t.card
    BY <1>a, <2>2
  <2> QED BY <1>2, <2>1, <2>3 DEF t
<1>5. CASE UpdateCommit(c) \/ JobCommit(c)
  BY <1>5 DEF UpdateCommit, JobCommit
<1> QED BY <1>2, <1>3, <1>4, <1>5

LEMMA AppliedIsOK ==
  ASSUME NEW t \in IngestTx, NEW b
  PROVE  /\ CardOK(Applied(t, b))
         /\ Applied(t, b).status = IF t.firing THEN "firing" ELSE "resolved"
<1>1. t.card \in CardRow /\ t.fp \in Fps
  BY DEF IngestTx
<1>2. /\ Applied(t, b).key = IF t.firing THEN t.fp ELSE None
      /\ Applied(t, b).status = IF t.firing THEN "firing" ELSE "resolved"
  BY <1>1 DEF Applied, CardRow
<1> QED BY <1>2 DEF CardOK

\* What a request has read when it begins.
LEMMA BegunReads ==
  ASSUME IngestInv, CardInv, [Next]_vars, NEW c \in Clients, tx'[c] # tx[c], tx'[c] # Idle
  PROVE  CardReadOK(tx'[c])
<1>a. tx \in [Clients -> Tx] /\ NoneAssumption
  BY NoneAssumption DEF IngestInv, TypeOK
<1>b. ASSUME NEW d \in Clients, NEW t, Open(d, t), CardReadOK(t) PROVE CardReadOK(tx'[c])
  BY <1>a, <1>b DEF Open
<1>c. ASSUME NEW d \in Clients PROVE ~Close(d)
  BY <1>a DEF Close
<1>1. ASSUME NEW d \in Clients, NEW f \in Fps, NEW firing \in BOOLEAN,
             NEW silenced \in BOOLEAN, NEW drop \in BOOLEAN, NEW k \in Keys \cup {None},
             IngestBegin(d, f, firing, silenced, drop, k)
      PROVE  CardReadOK(tx'[c])
  <2>1. PICK i \in (IF drop THEN {None} ELSE Found(inc, f)), a \in Found(card, f) :
          Open(d, [op |-> "ingest", fp |-> f, firing |-> firing, silenced |-> silenced,
                   drop |-> drop, key |-> k,
                   id |-> i, inc |-> IF i = None THEN NoIncident ELSE inc[i],
                   cid |-> a, card |-> IF a = None THEN NoCard ELSE card[a]])
    BY <1>1 DEF IngestBegin
  <2> DEFINE row == IF i = None THEN NoIncident ELSE inc[i]
             cur == IF a = None THEN NoCard ELSE card[a]
             t == [op |-> "ingest", fp |-> f, firing |-> firing, silenced |-> silenced,
                   drop |-> drop, key |-> k, id |-> i, inc |-> row, cid |-> a, card |-> cur]
  <2>2. Open(d, t)
    BY <2>1
  <2>3. a # None => a \in Cards /\ card[a].key = f
    BY DEF Found, IngestInv, TypeOK
  <2>4. a # None => cur.status = "firing"
    BY <2>3, NoneAssumption DEF CardInv, CardOK
  <2> HIDE DEF row, cur
  <2>5. CardReadOK(t)
    BY <2>4 DEF CardReadOK
  <2> HIDE DEF t
  <2> QED BY <1>b, <2>2, <2>5
<1>2. ASSUME NEW d \in Staff, NEW a \in Cards, AckBegin(d, a)
      PROVE  CardReadOK(tx'[c])
  <2> DEFINE t == [op |-> "ack", cid |-> a, card |-> card[a]]
  <2>1. Open(d, t) /\ card[a].status # "absent" /\ CardOK(card[a])
    BY <1>2 DEF AckBegin, CardInv
  <2>2. CardReadOK(t)
    BY <2>1 DEF CardReadOK
  <2> HIDE DEF t
  <2> QED BY <1>b, <2>1, <2>2, SlotAssumption
<1>3. ASSUME NEW d \in Staff, NEW i \in Ids, NEW to,
             UpdateBegin(d, i, to) \/ JobBegin(d, i)
      PROVE  CardReadOK(tx'[c])
  <2>1. CardReadOK([op |-> "update", id |-> i, inc |-> inc[i], to |-> to])
        /\ CardReadOK([op |-> "job", id |-> i, inc |-> inc[i]])
    BY DEF CardReadOK
  <2>2. \/ Open(d, [op |-> "update", id |-> i, inc |-> inc[i], to |-> to])
        \/ Open(d, [op |-> "job", id |-> i, inc |-> inc[i]])
    BY <1>3 DEF UpdateBegin, JobBegin
  <2> QED BY <1>b, <2>1, <2>2, SlotAssumption
<1>4. ASSUME NEW d \in Clients
      PROVE  ~(IngestCommit(d) \/ UpdateCommit(d) \/ JobCommit(d) \/ AckCommit(d) \/ Abort(d))
  BY <1>c DEF IngestCommit, UpdateCommit, JobCommit, AckCommit, Abort
<1>5. \A i \in Ids, f \in Fps : ~Create(i, f)
  BY DEF Create
<1>6. ~UNCHANGED vars
  BY DEF vars
<1> QED BY <1>1, <1>2, <1>3, <1>4, <1>5, <1>6 DEF Next

LEMMA CardInitially == Init => CardInv
BY IdleOps DEF Init, CardInv, CardOK, CardReadOK, NoCard, Idle

LEMMA CardInductive ==
  ASSUME IngestInv, CardInv, [Next]_vars
  PROVE  CardInv'
<1>1. ASSUME NEW a \in Cards PROVE CardOK(card'[a])
  <2>1. CASE card'[a] = card[a]
    BY <2>1 DEF CardInv
  <2>2. CASE card'[a] # card[a]
    <3>1. PICK c \in Clients :
            \/ /\ tx[c] \in IngestTx
               /\ \E b \in Ids \cup {None} : card'[a] = Applied(tx[c], b)
            \/ tx[c].op = "ack" /\ card'[a] = tx[c].card
      BY <2>2, CardSaved
    <3>2. CASE tx[c] \in IngestTx /\ \E b \in Ids \cup {None} : card'[a] = Applied(tx[c], b)
      BY <3>2, AppliedIsOK
    <3>3. CASE tx[c].op = "ack" /\ card'[a] = tx[c].card
      BY <3>3 DEF CardInv, CardReadOK
    <3> QED BY <3>1, <3>2, <3>3
  <2> QED BY <2>1, <2>2
<1>2. ASSUME NEW c \in Clients PROVE CardReadOK(tx'[c])
  <2>1. CASE tx'[c] = tx[c]
    BY <2>1 DEF CardInv
  <2>2. CASE tx'[c] = Idle
    BY <2>2, IdleOps DEF CardReadOK, Idle
  <2> QED BY <2>1, <2>2, BegunReads
<1> QED BY <1>1, <1>2 DEF CardInv

\* An incident that is not there has no diagnosis to lose.
AbsentOK == \A i \in Ids : inc[i].status = "absent" => ~inc[i].diagnosed

LEMMA AbsentInitially == Init => AbsentOK
BY DEF Init, AbsentOK, NoIncident

LEMMA AbsentInductive ==
  ASSUME IngestInv, AbsentOK, [Next]_vars
  PROVE  AbsentOK'
<1>1. UNCHANGED inc \/ IncidentStep
  BY EveryStep
<1>2. ASSUME NEW i \in Ids, inc'[i].status = "absent" PROVE inc'[i] = inc[i]
  BY <1>1, <1>2 DEF IncidentStep, IngestInv, TypeOK
<1> QED BY <1>2 DEF AbsentOK

-----------------------------------------------------------------------------
(* The theorems.                                                           *)

\* The tables and the requests in flight keep their shape.
THEOREM IngestShape == Spec => []TypeOK
<1>1. IngestInv => TypeOK
  BY DEF IngestInv
<1> QED BY <1>1, IngestAlways, PTL

\* Whoever saves which row over which, a fingerprint has at most one open incident
\* that an alert made: the unique index does its work because no open row of an
\* alert is ever saved without its key.
THEOREM OneIncidentPerFingerprint == Spec => []OneOpenIncident
<1>1. IngestInv => OneOpenIncident
  BY DEF IngestInv, RowsOK, KeysUnique, RowOK, OneOpenIncident
<1> QED BY <1>1, IngestAlways, PTL

\* A firing alert that is not held back reaches an open incident of its fingerprint.
THEOREM FiringAlertsArrive == Spec => AlertsReachOpenIncidents
<1>1. ASSUME IngestInv, [Next]_vars, NEW c \in Clients,
             tx[c] # Idle, tx[c].op = "ingest", tx[c].firing, ~tx[c].drop,
             Steps(c), card' # card
      PROVE  \E a \in Cards : /\ card'[a].key = tx[c].fp /\ card'[a].incident # None
                             /\ inc'[card'[a].incident].status = "open"
                             /\ inc'[card'[a].incident].fp = tx[c].fp
  <2> DEFINE t == tx[c]
  <2>1. t \in IngestTx /\ tx \in [Clients -> Tx] /\ card \in [Cards -> CardRow]
    BY <1>1, TxShape DEF IngestInv, TypeOK
  <2>2. IngestCommit(c)
    <3>1. ASSUME NEW d \in Clients, Close(d)
          PROVE  d = c
      BY <1>1, <2>1, <3>1 DEF Close, Steps
    <3>2. ASSUME NEW d \in Clients, IngestCommit(d)
          PROVE  IngestCommit(c)
      BY <3>1, <3>2 DEF IngestCommit
    <3>3. ASSUME NEW d \in Clients, AckCommit(d)
          PROVE  FALSE
      BY <1>1, <3>1, <3>3 DEF AckCommit
    <3>4. ASSUME NEW d \in Clients, UpdateCommit(d) \/ JobCommit(d) \/ Abort(d)
          PROVE  FALSE
      BY <1>1, <3>4 DEF UpdateCommit, JobCommit, Abort
    <3>5. ASSUME NEW d \in Clients, NEW u, Open(d, u)
          PROVE  FALSE
      BY <1>1, <3>5 DEF Open
    <3>6. ASSUME NEW i \in Ids, NEW f \in Fps, Create(i, f)
          PROVE  FALSE
      BY <1>1, <3>6 DEF Create
    <3>7. ~UNCHANGED vars
      BY <1>1 DEF vars
    <3>8. ASSUME NEW d \in Clients, NEW f \in Fps, NEW firing \in BOOLEAN,
                 NEW silenced \in BOOLEAN, NEW drop \in BOOLEAN,
                 NEW k \in Keys \cup {None}, IngestBegin(d, f, firing, silenced, drop, k)
          PROVE  FALSE
      BY <3>5, <3>8 DEF IngestBegin
    <3>9. ASSUME NEW d \in Staff, NEW i \in Ids, NEW to,
                 UpdateBegin(d, i, to) \/ JobBegin(d, i)
          PROVE  FALSE
      BY <3>5, <3>9, SlotAssumption DEF UpdateBegin, JobBegin
    <3>10. ASSUME NEW d \in Staff, NEW a \in Cards, AckBegin(d, a)
           PROVE  FALSE
      BY <3>5, <3>10, SlotAssumption DEF AckBegin
    <3> QED BY <1>1, <3>2, <3>3, <3>4, <3>6, <3>7, <3>8, <3>9, <3>10 DEF Next
  <2>3. PICK b \in Ids \cup {None} : Progress(t, b) /\ Recorded(t) /\ MergesCurrent(t, b)
    BY <2>2 DEF IngestCommit
  <2>4. b # None /\ inc'[b].status = "open" /\ inc'[b].fp = t.fp
    BY <1>1, <2>3, ProgressStep
  <2>5. t.firing /\ t.cid \in Cards \cup {None} /\ t.card \in CardRow
    BY <1>1, <2>1 DEF IngestTx
  <2> HIDE DEF t
  <2>6. Applied(t, b).key = t.fp /\ Applied(t, b).incident = b
    BY <2>4, <2>5 DEF Applied, CardRow
  <2>7. PICK a \in Cards : SaveCard(a, Applied(t, b))
    BY <2>3, <2>5 DEF MergesCurrent
  <2>8. card'[a] = Applied(t, b)
    BY <2>1, <2>7 DEF SaveCard
  <2> QED BY <2>4, <2>6, <2>8 DEF t
<1>2. IngestInv /\ [Next]_vars =>
        [\A c \in Clients :
           tx[c] # Idle /\ tx[c].op = "ingest" /\ tx[c].firing /\ ~tx[c].drop
             /\ Steps(c) /\ card' # card =>
           \E a \in Cards : /\ card'[a].key = tx[c].fp /\ card'[a].incident # None
                            /\ inc'[card'[a].incident].status = "open"
                            /\ inc'[card'[a].incident].fp = tx[c].fp]_vars
  BY <1>1
<1> QED BY <1>2, IngestAlways, PTL DEF Spec, AlertsReachOpenIncidents

\* An ingest sent twice with one key changes incidents and current alerts once.
THEOREM KeysWorkOnce == Spec => OncePerKey
<1>1. ASSUME IngestInv, [Next]_vars, NEW c \in Clients,
             Steps(c), tx[c].op = "ingest", tx[c].key # None,
             <<inc, card>>' # <<inc, card>>
      PROVE  tx[c].key \in hist' \ hist
  <2>1. tx \in [Clients -> Tx] /\ tx[c] # Idle
    BY <1>1, IdleOps DEF IngestInv, TypeOK, Writes
  <2>2. IngestCommit(c)
    <3>1. ASSUME NEW d \in Clients, Close(d)
          PROVE  d = c
      BY <1>1, <2>1, <3>1 DEF Close, Steps
    <3>2. ASSUME NEW d \in Clients, IngestCommit(d)
          PROVE  IngestCommit(c)
      BY <3>1, <3>2 DEF IngestCommit
    <3>3. ASSUME NEW d \in Clients, AckCommit(d) \/ UpdateCommit(d) \/ JobCommit(d)
          PROVE  FALSE
      BY <1>1, <3>1, <3>3 DEF AckCommit, UpdateCommit, JobCommit
    <3>4. ASSUME NEW d \in Clients, Abort(d)
          PROVE  FALSE
      BY <1>1, <3>4 DEF Abort
    <3>5. ASSUME NEW d \in Clients, NEW u, Open(d, u)
          PROVE  FALSE
      BY <1>1, <3>5 DEF Open
    <3>6. ASSUME NEW i \in Ids, NEW f \in Fps, Create(i, f)
          PROVE  FALSE
      BY <1>1, <3>6 DEF Create, Steps
    <3>7. ~UNCHANGED vars
      BY <1>1 DEF vars
    <3>8. ASSUME NEW d \in Clients, NEW f \in Fps, NEW firing \in BOOLEAN,
                 NEW silenced \in BOOLEAN, NEW drop \in BOOLEAN,
                 NEW k \in Keys \cup {None}, IngestBegin(d, f, firing, silenced, drop, k)
          PROVE  FALSE
      BY <3>5, <3>8 DEF IngestBegin
    <3>9. ASSUME NEW d \in Staff, NEW i \in Ids, NEW to,
                 UpdateBegin(d, i, to) \/ JobBegin(d, i)
          PROVE  FALSE
      BY <3>5, <3>9, SlotAssumption DEF UpdateBegin, JobBegin
    <3>10. ASSUME NEW d \in Staff, NEW a \in Cards, AckBegin(d, a)
           PROVE  FALSE
      BY <3>5, <3>10, SlotAssumption DEF AckBegin
    <3> QED BY <1>1, <3>2, <3>3, <3>4, <3>6, <3>7, <3>8, <3>9, <3>10 DEF Next
  <2> QED BY <1>1, <2>2 DEF IngestCommit, Recorded
<1>2. IngestInv /\ [Next]_vars =>
        [\A c \in Clients :
           Steps(c) /\ tx[c].op = "ingest" /\ tx[c].key # None /\ <<inc, card>>' # <<inc, card>> =>
             tx[c].key \in hist' \ hist]_vars
  BY <1>1
<1> QED BY <1>2, IngestAlways, PTL DEF Spec, OncePerKey
\* A closed incident opens again, a diagnosis is lost and a resolved alert fires again
\* only by a request that read the row before it was so, or by an operator who opens
\* the incident: the whole-row saves of Update, Finalize and the ingest do no other
\* harm, and an ingest never takes a resolved alert for the current one.
THEOREM OnlyStaleSavesUndo == Spec => OnlyOverlapUndoes
<1> DEFINE Reopens(i) ==
             inc[i].status = "closed" /\ inc'[i].status # "closed" =>
               \E c \in Clients : /\ Steps(c) /\ tx[c].op \in {"ingest", "update", "job"}
                                  /\ tx[c].id = i
                                  /\ \/ tx[c].inc.status = "open"
                                     \/ tx[c].op = "update" /\ tx[c].to = "open"
           Loses(i) ==
             inc[i].diagnosed /\ ~inc'[i].diagnosed =>
               \E c \in Clients : /\ Steps(c) /\ tx[c].op \in {"ingest", "update", "job"}
                                  /\ tx[c].id = i /\ ~tx[c].inc.diagnosed
           Refires(a) ==
             card[a].status = "resolved" /\ card'[a].status # "resolved" =>
               \E c \in Clients : /\ Steps(c) /\ tx[c].op \in {"ingest", "ack"}
                                  /\ tx[c].cid = a /\ tx[c].card.status = "firing"
<1>1. ASSUME IngestInv, AbsentOK, [Next]_vars, NEW i \in Ids
      PROVE  Reopens(i) /\ Loses(i)
  <2> SUFFICES ASSUME inc'[i] # inc[i], inc[i].status # "absent"
               PROVE  Reopens(i) /\ Loses(i)
    BY <1>1 DEF AbsentOK
  <2>1. PICK c \in Clients :
          /\ Steps(c) /\ tx[c].op \in Writes /\ tx[c].id = i
          /\ tx[c].inc \in IncidentRow /\ tx[c].inc.status # "absent"
          /\ Saves(tx[c], inc'[i])
    BY <1>1, IncidentSaved
  <2>2. /\ inc'[i].status # "closed" =>
              tx[c].inc.status = "open" \/ (tx[c].op = "update" /\ tx[c].to = "open")
        /\ ~inc'[i].diagnosed => ~tx[c].inc.diagnosed
    BY <2>1, SavesKeep
  <2> QED BY <2>1, <2>2 DEF Writes
<1>2. ASSUME IngestInv, CardInv, [Next]_vars, NEW a \in Cards
      PROVE  Refires(a)
  <2> SUFFICES ASSUME card[a].status = "resolved", card'[a].status # "resolved"
               PROVE  \E c \in Clients : /\ Steps(c) /\ tx[c].op \in {"ingest", "ack"}
                                         /\ tx[c].cid = a /\ tx[c].card.status = "firing"
    OBVIOUS
  <2>1. PICK c \in Clients :
          /\ Steps(c)
          /\ \/ /\ tx[c].op = "ingest" /\ tx[c] \in IngestTx
                /\ tx[c].cid = a \/ card[a] = NoCard
                /\ \E b \in Ids \cup {None} : card'[a] = Applied(tx[c], b)
             \/ tx[c].op = "ack" /\ tx[c].cid = a /\ card'[a] = tx[c].card
    BY <1>2, CardSaved
  <2>2. CardReadOK(tx[c]) /\ card[a] # NoCard /\ a # None
    BY <1>2, NoneAssumption DEF CardInv, NoCard
  <2>3. CASE tx[c].op = "ingest" /\ tx[c].cid = a
    BY <2>1, <2>2, <2>3 DEF CardReadOK
  <2>4. CASE tx[c].op = "ack" /\ tx[c].cid = a /\ card'[a] = tx[c].card
    <3>1. tx[c] # Idle /\ tx[c] \in AckTx
      BY <1>2, <2>4, TxShape DEF IngestInv, Idle
    <3>2. tx[c].card \in CardRow
      BY <3>1 DEF AckTx
    <3>3. tx[c].card.status \in {"absent", "firing", "resolved"}
      BY <3>2 DEF CardRow
    <3> QED BY <2>1, <2>2, <2>4, <3>3 DEF CardReadOK
  <2> QED BY <2>1, <2>2, <2>3, <2>4
<1>3. IngestInv /\ AbsentOK /\ CardInv /\ [Next]_vars =>
        [/\ \A i \in Ids : Reopens(i)
         /\ \A i \in Ids : Loses(i)
         /\ \A a \in Cards : Refires(a)]_vars
  BY <1>1, <1>2
<1>4. IngestInv /\ CardInv /\ [Next]_vars => CardInv'
  BY CardInductive
<1>5. IngestInv /\ AbsentOK /\ [Next]_vars => AbsentOK'
  BY AbsentInductive
<1> QED
  BY <1>3, <1>4, <1>5, AbsentInitially, CardInitially, IngestAlways, PTL
  DEF Spec, OnlyOverlapUndoes
=============================================================================
