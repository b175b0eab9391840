------------------------------ MODULE AlertIngest ------------------------------
(***************************************************************************)
(* Alerts, the incidents they are merged into, and everyone else who       *)
(* writes an incident: operators and the job API                           *)
(* (internal/apiserver/biz/v1/alert_event/alert_event.go,                  *)
(* internal/apiserver/biz/v1/incident/incident.go).                        *)
(*                                                                         *)
(* An ingest is one transaction: its reads see the snapshot of the first   *)
(* of them, its writes meet the committed rows, and a write that breaks a  *)
(* unique index fails.  An operator's update is a read and a save without  *)
(* a transaction.  All of them save every column of the row they read.  So *)
(* each request is a Begin, which reads, and a Commit, which writes; Abort *)
(* is every error, rollback and crash in between.                          *)
(***************************************************************************)
EXTENDS FiniteSets

CONSTANTS
  Fps,     \* fingerprints
  Ids,     \* the incident ids the store may still hand out
  Cards,   \* the ids of alert_events rows that are or were current
  Keys,    \* idempotency keys
  Clients, \* concurrent requests, one slot each
  Staff,   \* the slots that may carry requests other than alerts
  None     \* SQL NULL

ASSUME NoneAssumption == None \notin Fps \cup Ids \cup Cards \cup Keys
ASSUME SlotAssumption == Staff \subseteq Clients

\* "resolved" and "closed" are closed; every other status is open.  `api' marks
\* an incident that the API created and not an alert; `diagnosed' stands for all
\* that the job API writes.
IncidentRow == [status: {"absent", "open", "closed"}, fp: Fps \cup {None},
                key: Fps \cup {None}, api: BOOLEAN, diagnosed: BOOLEAN]
NoIncident == [status |-> "absent", fp |-> None, key |-> None, api |-> FALSE,
               diagnosed |-> FALSE]

\* The current alert of a fingerprint; key is current_key.
CardRow == [status: {"absent", "firing", "resolved"}, key: Fps \cup {None},
            incident: Ids \cup {None}]
NoCard == [status |-> "absent", key |-> None, incident |-> None]

VARIABLES
  inc,   \* table incidents
  card,  \* the rows of table alert_events that are or were current
  hist,  \* the idempotency keys of its history rows
  tx     \* per slot, the request in flight and what it has read

vars == <<inc, card, hist, tx>>

Idle == [op |-> "idle"]
\* drop: the policies, a silence or the rollout keep the alert from its incident.
IngestTx == [op: {"ingest"}, fp: Fps, firing: BOOLEAN, silenced: BOOLEAN, drop: BOOLEAN,
             key: Keys \cup {None}, id: Ids \cup {None}, inc: IncidentRow,
             cid: Cards \cup {None}, card: CardRow]
UpdateTx == [op: {"update"}, id: Ids, inc: IncidentRow, to: {"keep", "open", "closed"}]
JobTx == [op: {"job"}, id: Ids, inc: IncidentRow]
AckTx == [op: {"ack"}, cid: Cards, card: CardRow]
Tx == {Idle} \cup IngestTx \cup UpdateTx \cup JobTx \cup AckTx

-----------------------------------------------------------------------------

Init ==
  /\ inc = [i \in Ids |-> NoIncident]
  /\ card = [a \in Cards |-> NoCard]
  /\ hist = {}
  /\ tx = [c \in Clients |-> Idle]

Open(c, t) == tx[c] = Idle /\ tx' = [tx EXCEPT ![c] = t] /\ UNCHANGED <<inc, card, hist>>
Close(c) == tx' = [tx EXCEPT ![c] = Idle]

\* The row that a unique index finds, or None.
Found(table, f) ==
  LET held == {i \in DOMAIN table : table[i].key = f} IN
  IF held = {} THEN {None} ELSE held

\* (The operators named Faulty... are the program with one fault each.  No
\* action uses them: they show that the properties below can fail.)

\* A save of all columns; it fails if the unique index has the key elsewhere.
SaveIncident(i, r) ==
  /\ \A o \in Ids \ {i} : r.key = None \/ inc[o].key # r.key
  /\ inc' = [inc EXCEPT ![i] = r]

SaveCard(a, r) ==
  /\ \A o \in Cards \ {a} : r.key = None \/ card[o].key # r.key
  /\ card' = [card EXCEPT ![a] = r]

Closed(r) == [r EXCEPT !.status = "closed", !.key = None]

-----------------------------------------------------------------------------
(* Ingest.                                                                 *)

\* A key that is known already is answered from its history row, or refused if
\* the fingerprint is another one; nothing is written.
IngestBegin(c, f, firing, silenced, drop, k) ==
  /\ silenced => drop
  /\ k \notin hist
  /\ \E i \in IF drop THEN {None} ELSE Found(inc, f), a \in Found(card, f) :
       Open(c, [op |-> "ingest", fp |-> f, firing |-> firing, silenced |-> silenced,
                drop |-> drop, key |-> k,
                id |-> i, inc |-> IF i = None THEN NoIncident ELSE inc[i],
                cid |-> a, card |-> IF a = None THEN NoCard ELSE card[a]])

FaultyUnnamedStatus(f) ==
  [NoIncident EXCEPT !.status = "", !.fp = f, !.key = f]

NewIncident(f) ==
  [NoIncident EXCEPT !.status = "open", !.fp = f, !.key = f]

\* Only the columns that changed are written.
FaultyMerges(t, b) ==
  /\ t.id # None /\ b = t.id
  /\ IF t.firing THEN UNCHANGED inc ELSE SaveIncident(t.id, Closed(t.inc))

\* resolveIncidentForIngest: b is the incident that the alert is bound to.  Its
\* branch for a closed incident that still has its key is left out: there is none.
Merges(t, b) ==
  /\ t.id # None /\ b = t.id
  /\ SaveIncident(t.id, IF t.firing THEN t.inc ELSE Closed(t.inc))

Creates(t, b) ==
  /\ t.id = None /\ t.firing
  /\ b \in Ids /\ inc[b] = NoIncident
  /\ \A o \in Ids : inc[o].key # t.fp
  /\ inc' = [inc EXCEPT ![b] = NewIncident(t.fp)]

\* The key is taken since: a read outside the transaction finds who has it.
ReadsBack(t, b) ==
  /\ t.id = None /\ t.firing
  /\ b \in Ids /\ inc[b].key = t.fp
  /\ UNCHANGED inc

\* Held back, merged into the incident that was read, or into a new one.
Progress(t, b) ==
  \/ (t.drop \/ (t.id = None /\ ~t.firing)) /\ b = None /\ UNCHANGED inc
  \/ ~t.drop /\ Merges(t, b)
  \/ ~t.drop /\ Creates(t, b)
  \/ ~t.drop /\ ReadsBack(t, b)

\* The request is answered from the row found, but its transaction is committed.
FaultyRecorded(t) == hist' = hist \cup ({t.key} \ {None})

\* The history row.  A key used since breaks the unique index, and the second
\* read of the same transaction does not see why: the whole ingest fails.
Recorded(t) ==
  /\ t.key \notin hist
  /\ hist' = hist \cup ({t.key} \ {None})

\* applyIngestOnCurrent.
Applied(t, b) ==
  [t.card EXCEPT !.status = IF t.firing THEN "firing" ELSE "resolved",
                 !.key = IF t.firing THEN t.fp ELSE None,
                 !.incident = IF b # None THEN b ELSE IF t.silenced THEN None ELSE @]

\* The row is looked up by fingerprint, whether it is current or not.
FaultyMergesCurrent(t, b) ==
  \/ t.cid = None /\ ~t.firing /\ UNCHANGED card
  \/ /\ t.cid = None /\ t.firing
     /\ \E a \in Cards : card[a].key = None /\ SaveCard(a, Applied(t, b))
  \/ t.cid # None /\ SaveCard(t.cid, Applied(t, b))

MergesCurrent(t, b) ==
  \/ t.cid = None /\ ~t.firing /\ UNCHANGED card
  \/ /\ t.cid = None /\ t.firing
     /\ \E a \in Cards : card[a] = NoCard /\ SaveCard(a, Applied(t, b))
  \/ t.cid # None /\ SaveCard(t.cid, Applied(t, b))

IngestCommit(c) ==
  /\ tx[c].op = "ingest"
  /\ \E b \in Ids \cup {None} :
       Progress(tx[c], b) /\ Recorded(tx[c]) /\ MergesCurrent(tx[c], b)
  /\ Close(c)

-----------------------------------------------------------------------------
(* Acknowledgements, operators and the job API.                            *)

\* Only acked_at and acked_by change, which nobody else looks at.
AckBegin(c, a) ==
  /\ card[a].status # "absent"
  /\ Open(c, [op |-> "ack", cid |-> a, card |-> card[a]])

AckCommit(c) ==
  /\ tx[c].op = "ack"
  /\ SaveCard(tx[c].cid, tx[c].card)
  /\ Close(c)
  /\ UNCHANGED <<inc, hist>>

\* The API creates an incident: its fingerprint may be given (one without meets no
\* alert), its key is not set.
Create(i, f) ==
  /\ inc[i] = NoIncident
  /\ inc' = [inc EXCEPT ![i] = [NoIncident EXCEPT !.status = "open", !.fp = f, !.api = TRUE]]
  /\ UNCHANGED <<card, hist, tx>>

UpdateBegin(c, i, to) ==
  /\ inc[i].status # "absent"
  /\ Open(c, [op |-> "update", id |-> i, inc |-> inc[i], to |-> to])

\* An incident that is opened again does not take its key back.
FaultyUpdated(t) ==
  CASE t.to = "keep" -> t.inc
    [] t.to = "closed" -> Closed(t.inc)
    [] t.to = "open" -> [t.inc EXCEPT !.status = "open"]

\* The row is made from the request, not from the row that was read.
Updated(t) ==
  CASE t.to = "keep" -> t.inc
    [] t.to = "closed" -> Closed(t.inc)
    [] t.to = "open" -> [t.inc EXCEPT !.status = "open",
                                      !.key = IF @ = None THEN t.inc.fp ELSE @]

UpdateCommit(c) ==
  /\ tx[c].op = "update"
  /\ SaveIncident(tx[c].id, Updated(tx[c]))
  /\ Close(c)
  /\ UNCHANGED <<card, hist>>

\* A Finalize, as far as the incident goes: it writes a diagnosis.  (Run, Start and
\* Cancel save what they read, like an operator who keeps the status.)
JobBegin(c, i) ==
  /\ inc[i].status # "absent"
  /\ Open(c, [op |-> "job", id |-> i, inc |-> inc[i]])

JobCommit(c) ==
  /\ tx[c].op = "job"
  /\ SaveIncident(tx[c].id, [tx[c].inc EXCEPT !.diagnosed = TRUE])
  /\ Close(c)
  /\ UNCHANGED <<card, hist>>

Abort(c) == tx[c] # Idle /\ Close(c) /\ UNCHANGED <<inc, card, hist>>

Next ==
  \/ \E c \in Clients, f \in Fps, firing, silenced, drop \in BOOLEAN, k \in Keys \cup {None} :
       IngestBegin(c, f, firing, silenced, drop, k)
  \/ \E i \in Ids, f \in Fps : Create(i, f)
  \/ \E c \in Staff, i \in Ids, to \in {"keep", "open", "closed"} : UpdateBegin(c, i, to)
  \/ \E c \in Staff, i \in Ids : JobBegin(c, i)
  \/ \E c \in Staff, a \in Cards : AckBegin(c, a)
  \/ \E c \in Clients :
       IngestCommit(c) \/ UpdateCommit(c) \/ JobCommit(c) \/ AckCommit(c) \/ Abort(c)

Spec == Init /\ [][Next]_vars

-----------------------------------------------------------------------------
(* Properties.                                                             *)

\* The tables and the requests in flight keep their shape.
TypeOK ==
  /\ inc \in [Ids -> IncidentRow]
  /\ card \in [Cards -> CardRow]
  /\ hist \subseteq Keys
  /\ tx \in [Clients -> Tx]

\* However operators, jobs and alerts save rows over each other, a fingerprint
\* has at most one incident made by an alert that is not closed.
OneOpenIncident ==
  \A i, o \in Ids :
    inc[i].status = "open" /\ inc[o].status = "open" /\ ~inc[i].api /\ ~inc[o].api
      /\ inc[i].fp = inc[o].fp => i = o

\* A step of the slot c.
Steps(c) == tx[c] # tx'[c]

\* What is over stays over unless a request saves a row that it read before: a closed
\* incident opens again only so, or because an operator says so; its diagnosis is lost
\* only to such a save of an alert's merge, an operator or another job; and a resolved
\* alert fires again only so, for a new alert makes a row of its own.
OnlyOverlapUndoes ==
  [][/\ \A i \in Ids :
          inc[i].status = "closed" /\ inc'[i].status # "closed" =>
            \E c \in Clients : /\ Steps(c) /\ tx[c].op \in {"ingest", "update", "job"}
                               /\ tx[c].id = i
                               /\ \/ tx[c].inc.status = "open"
                                  \/ tx[c].op = "update" /\ tx[c].to = "open"
     /\ \A i \in Ids :
          inc[i].diagnosed /\ ~inc'[i].diagnosed =>
            \E c \in Clients : /\ Steps(c) /\ tx[c].op \in {"ingest", "update", "job"}
                               /\ tx[c].id = i /\ ~tx[c].inc.diagnosed
     /\ \A a \in Cards :
          card[a].status = "resolved" /\ card'[a].status # "resolved" =>
            \E c \in Clients : /\ Steps(c) /\ tx[c].op \in {"ingest", "ack"}
                               /\ tx[c].cid = a /\ tx[c].card.status = "firing"]_vars

\* An alert that fires and is not held back is, when its ingest commits, bound to
\* an open incident of its fingerprint: also if the incident it read was closed
\* meanwhile, or another ingest made one first.
AlertsReachOpenIncidents ==
  [][\A c \in Clients :
       tx[c] # Idle /\ tx[c].op = "ingest" /\ tx[c].firing /\ ~tx[c].drop
         /\ Steps(c) /\ card' # card =>
       \E a \in Cards : /\ card'[a].key = tx[c].fp /\ card'[a].incident # None
                        /\ inc'[card'[a].incident].status = "open"
                        /\ inc'[card'[a].incident].fp = tx[c].fp]_vars

\* An ingest that is sent twice with one key, however the two overlap, changes
\* incidents and current alerts once: only the first adds its key to the history.
OncePerKey ==
  [][\A c \in Clients :
       Steps(c) /\ tx[c].op = "ingest" /\ tx[c].key # None /\ <<inc, card>>' # <<inc, card>> =>
         tx[c].key \in hist' \ hist]_vars
=============================================================================
