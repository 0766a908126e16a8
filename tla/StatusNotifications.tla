------------------------ MODULE StatusNotifications ------------------------
(***************************************************************************)
(* What users are shown and mailed about the transactions of one group.    *)
(* Whoever changes a status publishes an event; a pod of the notifications *)
(* service takes the event from JetStream, reads the transactions, and     *)
(* then the group, replaces the in-app indicators, one database            *)
(* transaction for each, and decides whether the group is mailed           *)
(* (receiver.service.ts, base-nats-consumer.service.ts).                   *)
(*                                                                         *)
(* Who receives a notification is left out: a mail or an indicator is      *)
(* named by its transaction and status.                                    *)
(***************************************************************************)
EXTENDS Integers, FiniteSets

CONSTANTS
  Txs,         \* the transactions of the group
  Pods,        \* pods of the notifications service
  Ends,        \* the terminal statuses of the instance
  MaxEvents,   \* bound on the events
  MaxFaults    \* bound on what goes wrong

Open == {"WAITING_FOR_SIGNATURES", "WAITING_FOR_EXECUTION"}
Terminal == {"EXECUTED", "FAILED", "EXPIRED", "CANCELED", "ARCHIVED"}
Statuses == Open \cup Terminal

ASSUME EndsAssumption == Ends \subseteq Terminal
ASSUME BoundsAssumption == MaxEvents \in Nat \ {0} /\ MaxFaults \in Nat

VARIABLES
  status,    \* of every transaction, in the database
  grouped,   \* the rows of the group are committed
  queue,     \* how many messages about a set of transactions wait in the stream
  events,    \* how many events there have been
  rows,      \* indicator notifications with their receivers
  job,       \* what every pod is doing
  shown,     \* the indicators that clients were told of and not told to delete
  mailed,    \* <<t, s>>: a mail about status s of t was handed over
  met,       \* transactions that two pods have handled at the same time
  past,      \* what has gone wrong so far
  faults
vars == <<status, grouped, queue, events, rows, job, shown, mailed, met, past, faults>>
database == <<status, grouped, rows>>
told == <<shown, mailed>>
history == <<met, past, faults>>

Event == (SUBSET Txs) \ {{}}
Row == [tx : Txs, shows : Statuses, id : Nat \ {0}]

Idle == [at |-> "idle", event |-> {}, owns |-> FALSE, copy |-> <<>>, peers |-> <<>>,
         now |-> {}, found |-> {}, gone |-> {}, fresh |-> {}, mail |-> {}]

\* createTransactionGroup publishes before its rows are committed.
Init ==
  /\ status = [t \in Txs |-> "WAITING_FOR_SIGNATURES"]
  /\ grouped = FALSE
  /\ queue = [e \in Event |-> IF e = Txs THEN 1 ELSE 0] /\ events = 1
  /\ rows = {} /\ shown = {} /\ mailed = {}
  /\ job = [w \in Pods |-> Idle]
  /\ met = {} /\ past = {} /\ faults = 0

CommitGroup ==
  /\ ~grouped /\ grouped' = TRUE
  /\ UNCHANGED <<status, queue, events, rows, job, told, history>>

(***************************************************************************)
(* Writers: a status changes and its event is published.  That the event   *)
(* comes later than the change is that it is taken later.  A manual        *)
(* transaction may be archived at any time.                                *)
(***************************************************************************)
MayBecome(s) == IF s \in Open THEN (Open \ {s}) \cup Ends ELSE Ends \cap {"ARCHIVED"}

Change(e, s) ==
  /\ events < MaxEvents /\ events' = events + 1
  /\ \A t \in e : s \in MayBecome(status[t])
  /\ status' = [t \in Txs |-> IF t \in e THEN s ELSE status[t]]
  /\ queue' = [queue EXCEPT ![e] = @ + 1]
  /\ UNCHANGED <<grouped, rows, job, told, history>>

\* The writer dies before it publishes, NATS is not connected, or the event is
\* older than five minutes when a consumer comes back.
Lose(e) ==
  /\ queue[e] > 0 /\ faults < MaxFaults
  /\ queue' = [queue EXCEPT ![e] = @ - 1]
  /\ past' = past \cup {"lost"} /\ faults' = faults + 1
  /\ UNCHANGED <<database, events, job, told, met>>

(***************************************************************************)
(* The consumer of a pod takes one message at a time.  The handler,        *)
(* processTransactionStatusUpdateNotifications, begins with two reads.     *)
(***************************************************************************)
Handles(w, t) == t \in job[w].event

Take(w, e) ==
  /\ job[w].at = "idle" /\ queue[e] > 0
  /\ queue' = [queue EXCEPT ![e] = @ - 1]
  /\ job' = [job EXCEPT ![w] =
       [Idle EXCEPT !.at = IF grouped THEN "group" ELSE "find", !.event = e,
                    !.owns = TRUE, !.copy = [t \in e |-> status[t]]]]
  /\ met' = met \cup {t \in e : \E v \in Pods : Handles(v, t)}
  /\ UNCHANGED <<database, events, told, past, faults>>

LoadGroup(w) ==
  /\ job[w].at = "group"
  /\ job' = [job EXCEPT ![w].at = "find", ![w].peers = status]
  /\ UNCHANGED <<database, queue, events, told, history>>

Ack(w) ==
  /\ job[w].at = "ack"
  /\ job' = [job EXCEPT ![w] = Idle]
  /\ UNCHANGED <<database, queue, events, told, history>>

\* The handler throws: the message is acknowledged all the same.
HandlerFails(w) ==
  /\ job[w].at \in {"group", "find", "write"} /\ faults < MaxFaults
  /\ job' = [job EXCEPT ![w] = Idle]
  /\ past' = past \cup {"failed"} /\ faults' = faults + 1
  /\ UNCHANGED <<database, queue, events, told, met>>

\* JetStream delivers again what was not acknowledged within 30 s, whether the pod
\* is slow or dead.
Again(w) == IF job[w].owns THEN [queue EXCEPT ![job[w].event] = @ + 1] ELSE queue

Redeliver(w) ==
  /\ job[w].owns /\ faults < MaxFaults /\ faults' = faults + 1
  /\ queue' = Again(w)
  /\ job' = [job EXCEPT ![w].owns = FALSE]
  /\ UNCHANGED <<database, events, told, met, past>>

Crash(w) ==
  /\ job[w].at # "idle" /\ faults < MaxFaults /\ faults' = faults + 1
  /\ queue' = Again(w)
  /\ job' = [job EXCEPT ![w] = Idle]
  /\ past' = past \cup {"crash"}
  /\ UNCHANGED <<database, events, told, met>>

(***************************************************************************)
(* Stages of a mail.  ARCHIVED has no mail type and FAILED no mail channel. *)
(***************************************************************************)
Tier(s) == CASE s = "WAITING_FOR_SIGNATURES" -> 1
             [] s = "WAITING_FOR_EXECUTION"  -> 2
             [] OTHER                        -> 3
HasMailType(s) == s # "ARCHIVED"
Mailable(s) == s \notin {"ARCHIVED", "FAILED"}

\* Nobody else, as read with the group, is at an earlier stage.
IsLast(t, s, peers) ==
  \A o \in Txs \ {t} : peers[o] = "CANCELED" \/ Tier(peers[o]) >= Tier(s)

MailsGroup(j, t) ==
  /\ j.peers # <<>> /\ j.copy[t] # "CANCELED" /\ HasMailType(j.copy[t])
  /\ IsLast(t, j.copy[t], j.peers)
MailsAloneUngrouped(j, t) == Mailable(j.copy[t]) /\ j.peers = <<>>
MailsAlone(j, t) ==
  /\ Mailable(j.copy[t])
  /\ j.peers # <<>> => j.copy[t] = "CANCELED"

(***************************************************************************)
(* One database transaction for every transaction of the event: find the   *)
(* old indicators; then delete what was found and insert the new one.      *)
(***************************************************************************)
Indicators(t) == {r \in rows : r.tx = t}

FoundOfStatus(w, t) == {r \in Indicators(t) : r.shows = job[w].copy[t]}
Found(w, t) == Indicators(t)

Find(w, t) ==
  /\ job[w].at = "find" /\ t \in DOMAIN job[w].copy
  /\ job' = [job EXCEPT ![w].at = "write", ![w].now = {t}, ![w].found = Found(w, t)]
  /\ UNCHANGED <<database, queue, events, told, history>>

\* The smallest id that nobody knows stands for the next one of the sequence.
UsedIds == {r.id : r \in rows \cup shown \cup
                         UNION {job[w].found \cup job[w].gone \cup job[w].fresh : w \in Pods}}
NewIdByCount == Cardinality(rows) + 1
NewId == CHOOSE n \in 1..(Cardinality(UsedIds) + 1) : n \notin UsedIds

NewRow(w, t) == [tx |-> t, shows |-> job[w].copy[t], id |-> NewId]

\* What is mailed about the group is collected with the last of its members.
GroupMail(peers) == {<<t, peers[t]>> : t \in {u \in Txs : /\ Mailable(peers[u])
                                                       /\ peers[u] # "CANCELED"}}
MailAfter(j, t) == (IF MailsGroup(j, t) THEN GroupMail(j.peers) ELSE {}) \cup
                   (IF MailsAlone(j, t) THEN {<<t, j.copy[t]>>} ELSE {})

Collects(w, t, gone, fresh, mail) ==
  LET j == job[w]
      left == DOMAIN j.copy \ {t}
  IN  job' = [job EXCEPT ![w] =
        [j EXCEPT !.at = IF left = {} THEN "send" ELSE "find",
                  !.copy = [u \in left |-> j.copy[u]],
                  !.peers = IF left = {} THEN <<>> ELSE j.peers,
                  !.now = {}, !.found = {},
                  !.gone = j.gone \cup gone, !.fresh = j.fresh \cup fresh,
                  !.mail = j.mail \cup mail]]

Write(w, t) ==
  /\ job[w].at = "write" /\ t \in job[w].now
  /\ rows' = (rows \ job[w].found) \cup {NewRow(w, t)}
  /\ Collects(w, t, job[w].found, {NewRow(w, t)}, MailAfter(job[w], t))
  /\ UNCHANGED <<status, grouped, queue, events, told, history>>

\* An error is caught inside of the callback, which therefore commits.  What an
\* error of the code leaves is stored as far as it had come; after an error of a
\* statement PostgreSQL stores nothing.  What was collected is told either way.
WriteFails(w, t) ==
  /\ job[w].at = "write" /\ t \in job[w].now /\ faults < MaxFaults
  /\ \E gone \in {{}, job[w].found}, fresh \in {{}, {NewRow(w, t)}} :
       /\ fresh # {} => gone = job[w].found
       /\ rows' \in {rows, (rows \ gone) \cup fresh}
       /\ Collects(w, t, gone, fresh,
                   IF MailsGroup(job[w], t) THEN GroupMail(job[w].peers) ELSE {})
  /\ past' = past \cup {"failed"} /\ faults' = faults + 1
  /\ UNCHANGED <<status, grouped, queue, events, told, met>>

(***************************************************************************)
(* What was collected is sent, then the message is acknowledged.           *)
(***************************************************************************)
ToldOfNew(w) == shown \cup job[w].fresh
Told(w) == (shown \ job[w].gone) \cup job[w].fresh

Send(w) ==
  /\ job[w].at = "send"
  /\ shown' = Told(w)
  /\ mailed' = mailed \cup job[w].mail
  /\ job' = [job EXCEPT ![w].at = "ack", ![w].gone = {}, ![w].fresh = {}, ![w].mail = {}]
  /\ UNCHANGED <<database, queue, events, history>>

\* Messages that cannot be published are forgotten, as are the mails whose rows
\* cannot be written.
SendFails(w) ==
  /\ job[w].at = "send" /\ faults < MaxFaults
  /\ \E gone \in {{}, job[w].gone}, fresh \in {{}, job[w].fresh} :
       shown' = (shown \ gone) \cup fresh
  /\ \E mail \in SUBSET job[w].mail : mailed' = mailed \cup mail
  /\ job' = [job EXCEPT ![w].at = "ack", ![w].gone = {}, ![w].fresh = {}, ![w].mail = {}]
  /\ past' = past \cup {"failed"} /\ faults' = faults + 1
  /\ UNCHANGED <<database, queue, events, met>>

Process(w) ==
  \/ LoadGroup(w) \/ Send(w) \/ Ack(w)
  \/ \E t \in Txs : Find(w, t) \/ Write(w, t)

Fault ==
  \/ \E e \in Event : Lose(e)
  \/ \E w \in Pods : Redeliver(w) \/ Crash(w) \/ HandlerFails(w) \/ SendFails(w)
  \/ \E w \in Pods, t \in Txs : WriteFails(w, t)

Next ==
  \/ CommitGroup
  \/ \E e \in Event : (\E s \in Statuses : Change(e, s)) \/ (\E w \in Pods : Take(w, e))
  \/ \E w \in Pods : Process(w)
  \/ Fault

Spec == Init /\ [][Next]_vars

(***************************************************************************)
(* Properties                                                              *)
(***************************************************************************)
Stage == {"idle", "group", "find", "write", "send", "ack"}

\* The types; the ids of the rows are a primary key.
TypeOK ==
  /\ status \in [Txs -> Statuses]
  /\ grouped \in BOOLEAN
  /\ queue \in [Event -> Nat] /\ events \in 1..MaxEvents
  /\ rows \subseteq Row /\ shown \subseteq Row
  /\ \A r, q \in rows : r.id = q.id => r = q
  /\ mailed \subseteq Txs \X Statuses
  /\ met \subseteq Txs /\ past \subseteq {"lost", "failed", "crash"}
  /\ faults \in 0..MaxFaults
  /\ \A w \in Pods :
       LET j == job[w] IN
       /\ j.at \in Stage /\ j.event \subseteq Txs /\ j.owns \in BOOLEAN
       /\ DOMAIN j.copy \subseteq Txs /\ j.now \subseteq DOMAIN j.copy
       /\ \A t \in DOMAIN j.copy : j.copy[t] \in Statuses
       /\ j.peers = <<>> \/ j.peers \in [Txs -> Statuses]
       /\ j.found \cup j.gone \cup j.fresh \subseteq Row
       /\ j.mail \subseteq Txs \X Statuses

\* All that was published about t has been handled.
Rested(t) ==
  /\ \A e \in Event : t \in e => queue[e] = 0
  /\ \A w \in Pods : ~Handles(w, t)

\* A transaction at rest has one indicator, and it shows the status of its row:
\* however late, how often or in which order its events were handled, by pods
\* that died in between or were so slow that the event was handled again, as long
\* as no event was lost, no write failed, and no two pods handled it at once
\* (receiver.service.ts:402-436, 792-819).
IndicatorFollowsStatus ==
  past \subseteq {"crash"} =>
    \A t \in Txs : Rested(t) /\ t \notin met =>
      \E r \in rows : Indicators(t) = {r} /\ r.shows = status[t]

\* Clients are told of every indicator that is deleted or created: what they show
\* of a transaction at rest is what is stored (lines 1179-1204, 1222-1223).
ClientsSeeIndicators ==
  past = {} =>
    \A t \in Txs : Rested(t) /\ t \notin met => {r \in shown : r.tx = t} = Indicators(t)

\* A group that has settled on a stage, without members that were canceled or
\* archived, was mailed about each member's status, although every handler sees
\* another moment of the group and none is the last by itself; and a canceled
\* member was mailed about (lines 58-60, 1048-1070, 1180-1195).
StageIsMailed ==
  past \subseteq {"crash"} /\ (\A t \in Txs : Rested(t)) =>
    /\ \A t \in Txs : status[t] = "CANCELED" => <<t, status[t]>> \in mailed
    /\ (/\ \A t \in Txs : status[t] \notin {"CANCELED", "ARCHIVED"}
        /\ \A t, o \in Txs : Tier(status[t]) = Tier(status[o]))
       => \A t \in Txs : Mailable(status[t]) => <<t, status[t]>> \in mailed
=============================================================================
