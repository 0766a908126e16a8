--------------------- MODULE StatusNotifications_proofs ---------------------
(***************************************************************************)
(* Theorems about StatusNotifications, for any transactions, pods, terminal *)
(* statuses and number of events and faults.                               *)
(***************************************************************************)
EXTENDS StatusNotifications, FiniteSetTheorems, TLAPS

(* The type of what a pod is doing; its parts have names so that they need *)
(* not be expanded.                                                        *)
Copies == UNION {[d -> Statuses] : d \in SUBSET Txs}
Groups == {<<>>} \cup [Txs -> Statuses]
TxSets == SUBSET Txs
RowSets == SUBSET Row
Mails == SUBSET (Txs \X Statuses)

Job == [at : Stage, event : TxSets, owns : BOOLEAN, copy : Copies, peers : Groups,
        now : TxSets, found : RowSets, gone : RowSets, fresh : RowSets, mail : Mails]

Types ==
  /\ status \in [Txs -> Statuses]
  /\ grouped \in BOOLEAN
  /\ queue \in [Event -> Nat] /\ events \in 1 .. MaxEvents
  /\ rows \in RowSets /\ shown \in RowSets /\ mailed \in Mails
  /\ met \in TxSets /\ past \subseteq {"lost", "failed", "crash"}
  /\ faults \in 0 .. MaxFaults
  /\ job \in [Pods -> Job]

(* A pod has copies only of what it handles, and only while it works on it. *)
JobOk(j) ==
  /\ DOMAIN j.copy \subseteq j.event
  /\ j.now \subseteq DOMAIN j.copy
  /\ j.at = "idle" => j.event = {} /\ ~j.owns
  /\ j.at # "idle" => j.event \in Event
  /\ j.at \in {"idle", "send", "ack"} => DOMAIN j.copy = {}
  /\ j.at \in {"idle", "ack"} => j.gone = {} /\ j.fresh = {}
  /\ j.at = "write" => \E t \in Txs : j.now = {t}
  /\ j.at # "write" => j.now = {}
  /\ \A r \in j.found : r.tx \in j.now
  /\ \A r \in j.gone \cup j.fresh : r.tx \in j.event \ DOMAIN j.copy
JobInv == \A w \in Pods : JobOk(job[w])

(* The ids that are known have an upper bound: there is always a new one. *)
Bounded == \E n \in Nat : \A i \in UsedIds : i <= n
Unique == \A r, q \in rows : r.id = q.id => r = q

IInv == Types /\ JobInv /\ Bounded /\ Unique

Others(w) == \A v \in Pods : v # w => job'[v] = job[v]
-----------------------------------------------------------------------------
(* What each operation does to the pod *)

LEMMA StageNames ==
  /\ \A s \in {"idle", "group", "find", "write", "send", "ack"} : s \in Stage
BY DEF Stage

LEMMA EmptyCopy == <<>> \in Copies /\ DOMAIN <<>> = {} /\ <<>> \in Groups
<1>1. <<>> \in [{} -> Statuses] /\ DOMAIN <<>> = {}
  OBVIOUS
<1>2. {} \in SUBSET Txs
  OBVIOUS
<1> QED
  BY <1>1, <1>2 DEF Copies, Groups

LEMMA IdleType ==
  /\ Idle \in Job
  /\ Idle.at = "idle" /\ Idle.event = {} /\ Idle.owns = FALSE /\ Idle.copy = <<>>
  /\ Idle.peers = <<>> /\ Idle.now = {} /\ Idle.found = {} /\ Idle.gone = {}
  /\ Idle.fresh = {} /\ Idle.mail = {}
<1>1. {} \in TxSets /\ {} \in RowSets /\ {} \in Mails
  BY DEF TxSets, RowSets, Mails
<1> QED
  BY <1>1, EmptyCopy, StageNames DEF Idle, Job

LEMMA JobFields ==
  ASSUME NEW j \in Job
  PROVE  /\ j.at \in Stage /\ j.event \in TxSets /\ j.owns \in BOOLEAN /\ j.copy \in Copies
         /\ j.peers \in Groups /\ j.now \in TxSets /\ j.found \in RowSets
         /\ j.gone \in RowSets /\ j.fresh \in RowSets /\ j.mail \in Mails
BY DEF Job

LEMMA CopyType ==
  ASSUME NEW c \in Copies
  PROVE  DOMAIN c \subseteq Txs /\ \A t \in DOMAIN c : c[t] \in Statuses
<1>1. PICK d \in SUBSET Txs : c \in [d -> Statuses]
  BY DEF Copies
<1> QED
  BY <1>1

LEMMA CopyIsType ==
  ASSUME NEW d \in SUBSET Txs, NEW c \in [d -> Statuses]
  PROVE  c \in Copies
BY DEF Copies

LEMMA JobSet ==
  ASSUME Types, NEW w \in Pods, NEW j \in Job, job' = [job EXCEPT ![w] = j]
  PROVE  job' \in [Pods -> Job] /\ job'[w] = j /\ Others(w)
BY DEF Types, Others

LEMMA TakeJob ==
  ASSUME Types, NEW w \in Pods, NEW e \in Event, Take(w, e)
  PROVE  /\ job' \in [Pods -> Job] /\ Others(w)
         /\ job'[w].at \in {"group", "find"} /\ job'[w].event = e /\ job'[w].owns
         /\ job'[w].copy = [t \in e |-> status[t]]
         /\ job'[w].now = {} /\ job'[w].found = {} /\ job'[w].gone = {} /\ job'[w].fresh = {}
         /\ job'[w].peers = <<>> /\ job'[w].mail = {}
         /\ job'[w].at = IF grouped THEN "group" ELSE "find"
<1> DEFINE c == [t \in e |-> status[t]]
           a == IF grouped THEN "group" ELSE "find"
           j == [Idle EXCEPT !.at = a, !.event = e, !.owns = TRUE, !.copy = c]
<1>1. e \in SUBSET Txs /\ e \in TxSets
  BY DEF Event, TxSets
<1>2. c \in [e -> Statuses]
  BY <1>1 DEF Types
<1>3. c \in Copies
  BY <1>1, <1>2, CopyIsType
<1>4. a \in Stage /\ a \in {"group", "find"}
  BY StageNames
<1>5. job' = [job EXCEPT ![w] = j]
  BY DEF Take
<1> HIDE DEF c, a
<1>6. /\ j \in Job /\ j.at = a /\ j.event = e /\ j.owns = TRUE /\ j.copy = c
      /\ j.now = {} /\ j.found = {} /\ j.gone = {} /\ j.fresh = {}
      /\ j.peers = <<>> /\ j.mail = {}
  BY <1>1, <1>3, <1>4, IdleType DEF Idle, Job
<1> HIDE DEF j
<1>7. job' \in [Pods -> Job] /\ job'[w] = j /\ Others(w)
  BY <1>5, <1>6, JobSet
<1> QED
  BY <1>4, <1>6, <1>7 DEF a, c

LEMMA LoadJob ==
  ASSUME Types, NEW w \in Pods, LoadGroup(w)
  PROVE  /\ job' \in [Pods -> Job] /\ Others(w) /\ job'[w].at = "find"
         /\ job'[w].event = job[w].event /\ job'[w].owns = job[w].owns
         /\ job'[w].copy = job[w].copy /\ job'[w].now = job[w].now
         /\ job'[w].found = job[w].found /\ job'[w].gone = job[w].gone
         /\ job'[w].fresh = job[w].fresh
         /\ job'[w].peers = status /\ job'[w].mail = job[w].mail
<1> DEFINE j == [job[w] EXCEPT !.at = "find", !.peers = status]
<1>1. job[w] \in Job /\ status \in Groups /\ "find" \in Stage
  BY StageNames DEF Types, Groups
<1>2. job' = [job EXCEPT ![w] = j]
  BY DEF LoadGroup, Types
<1>3. /\ j \in Job /\ j.at = "find" /\ j.event = job[w].event /\ j.owns = job[w].owns
      /\ j.copy = job[w].copy /\ j.now = job[w].now /\ j.found = job[w].found
      /\ j.gone = job[w].gone /\ j.fresh = job[w].fresh
      /\ j.peers = status /\ j.mail = job[w].mail
  BY <1>1 DEF Job
<1> HIDE DEF j
<1> QED
  BY <1>2, <1>3, JobSet

LEMMA IdleJob ==
  ASSUME Types, NEW w \in Pods, job' = [job EXCEPT ![w] = Idle]
  PROVE  job' \in [Pods -> Job] /\ Others(w) /\ job'[w] = Idle
BY IdleType, JobSet

LEMMA FindJob ==
  ASSUME Types, NEW w \in Pods, NEW t \in Txs, Find(w, t)
  PROVE  /\ job' \in [Pods -> Job] /\ Others(w) /\ job'[w].at = "write"
         /\ job'[w].event = job[w].event /\ job'[w].owns = job[w].owns
         /\ job'[w].copy = job[w].copy /\ job'[w].now = {t}
         /\ job'[w].found = Indicators(t) /\ job'[w].gone = job[w].gone
         /\ job'[w].fresh = job[w].fresh
         /\ job'[w].peers = job[w].peers /\ job'[w].mail = job[w].mail
<1> DEFINE f == Indicators(t)
           j == [job[w] EXCEPT !.at = "write", !.now = {t}, !.found = f]
<1>1. job[w] \in Job /\ {t} \in TxSets /\ f \in RowSets /\ "write" \in Stage
  BY StageNames DEF Types, TxSets, RowSets, Indicators
<1>2. job' = [job EXCEPT ![w] = j]
  BY DEF Find, Found, Types
<1> HIDE DEF f
<1>3. /\ j \in Job /\ j.at = "write" /\ j.event = job[w].event /\ j.owns = job[w].owns
      /\ j.copy = job[w].copy /\ j.now = {t} /\ j.found = f
      /\ j.gone = job[w].gone /\ j.fresh = job[w].fresh
      /\ j.peers = job[w].peers /\ j.mail = job[w].mail
  BY <1>1 DEF Job
<1> HIDE DEF j
<1> QED
  BY <1>2, <1>3, JobSet DEF f

LEMMA CollectsJob ==
  ASSUME Types, NEW w \in Pods, NEW t \in Txs,
         NEW gone \in RowSets, NEW fresh \in RowSets, NEW mail \in Mails,
         Collects(w, t, gone, fresh, mail)
  PROVE  /\ job' \in [Pods -> Job] /\ Others(w) /\ job'[w].at \in {"send", "find"}
         /\ job'[w].event = job[w].event /\ job'[w].owns = job[w].owns
         /\ DOMAIN job'[w].copy = DOMAIN job[w].copy \ {t}
         /\ \A u \in DOMAIN job[w].copy \ {t} : job'[w].copy[u] = job[w].copy[u]
         /\ job'[w].at = "send" => DOMAIN job'[w].copy = {}
         /\ job'[w].now = {} /\ job'[w].found = {}
         /\ job'[w].gone = job[w].gone \cup gone
         /\ job'[w].fresh = job[w].fresh \cup fresh
         /\ job'[w].mail = job[w].mail \cup mail
         /\ DOMAIN job'[w].copy # {} => job'[w].peers = job[w].peers /\ job'[w].at = "find"
         /\ job'[w].peers \in {<<>>, job[w].peers}
<1> DEFINE left == DOMAIN job[w].copy \ {t}
           a == IF left = {} THEN "send" ELSE "find"
           c == [u \in left |-> job[w].copy[u]]
           p == IF left = {} THEN <<>> ELSE job[w].peers
           g == job[w].gone \cup gone
           f == job[w].fresh \cup fresh
           m == job[w].mail \cup mail
           j == [job[w] EXCEPT !.at = a, !.copy = c, !.peers = p, !.now = {}, !.found = {},
                               !.gone = g, !.fresh = f, !.mail = m]
<1>0. job[w] \in Job
  BY DEF Types
<1>1. left \in SUBSET Txs /\ c \in [left -> Statuses]
  BY <1>0, JobFields, CopyType
<1>2. c \in Copies
  BY <1>1, CopyIsType
<1>3. a \in Stage /\ p \in Groups
  BY <1>0, JobFields, StageNames, EmptyCopy
<1>4. g \in RowSets /\ f \in RowSets /\ m \in Mails /\ {} \in TxSets /\ {} \in RowSets
  BY <1>0, JobFields DEF RowSets, Mails, TxSets
<1>5. job' = [job EXCEPT ![w] = j]
  BY DEF Collects
<1>6. DOMAIN c = left /\ \A u \in left : c[u] = job[w].copy[u]
  OBVIOUS
<1>7. /\ a \in {"send", "find"} /\ (a = "send" => left = {})
      /\ left # {} => a = "find" /\ p = job[w].peers
      /\ p \in {<<>>, job[w].peers}
  OBVIOUS
<1> HIDE DEF left, a, c, p, g, f, m
<1>8. /\ j \in Job /\ j.at = a /\ j.event = job[w].event /\ j.owns = job[w].owns
      /\ j.copy = c /\ j.now = {} /\ j.found = {} /\ j.gone = g /\ j.fresh = f
      /\ j.mail = m /\ j.peers = p
  BY <1>0, <1>2, <1>3, <1>4 DEF Job
<1> HIDE DEF j
<1>9. job' \in [Pods -> Job] /\ Others(w) /\ job'[w] = j
  BY <1>5, <1>8, JobSet
<1> QED
  BY <1>6, <1>7, <1>8, <1>9 DEF left, g, f, m

LEMMA AckJob ==
  ASSUME Types, NEW w \in Pods,
         job' = [job EXCEPT ![w].at = "ack", ![w].gone = {}, ![w].fresh = {}, ![w].mail = {}]
  PROVE  /\ job' \in [Pods -> Job] /\ Others(w) /\ job'[w].at = "ack"
         /\ job'[w].event = job[w].event /\ job'[w].owns = job[w].owns
         /\ job'[w].copy = job[w].copy /\ job'[w].now = job[w].now
         /\ job'[w].found = job[w].found /\ job'[w].gone = {} /\ job'[w].fresh = {}
         /\ job'[w].peers = job[w].peers /\ job'[w].mail = {}
<1> DEFINE j == [job[w] EXCEPT !.at = "ack", !.gone = {}, !.fresh = {}, !.mail = {}]
<1>1. job[w] \in Job /\ "ack" \in Stage /\ {} \in RowSets /\ {} \in Mails
  BY StageNames DEF Types, RowSets, Mails
<1>2. job' = [job EXCEPT ![w] = j]
  BY DEF Types
<1>3. /\ j \in Job /\ j.at = "ack" /\ j.event = job[w].event /\ j.owns = job[w].owns
      /\ j.copy = job[w].copy /\ j.now = job[w].now /\ j.found = job[w].found
      /\ j.gone = {} /\ j.fresh = {}
      /\ j.peers = job[w].peers /\ j.mail = {}
  BY <1>1 DEF Job
<1> HIDE DEF j
<1> QED
  BY <1>2, <1>3, JobSet

LEMMA RedeliverJob ==
  ASSUME Types, NEW w \in Pods, Redeliver(w)
  PROVE  /\ job' \in [Pods -> Job] /\ Others(w) /\ job'[w].at = job[w].at
         /\ job'[w].event = job[w].event /\ ~job'[w].owns
         /\ job'[w].copy = job[w].copy /\ job'[w].now = job[w].now
         /\ job'[w].found = job[w].found /\ job'[w].gone = job[w].gone
         /\ job'[w].fresh = job[w].fresh
         /\ job'[w].peers = job[w].peers /\ job'[w].mail = job[w].mail
<1> DEFINE j == [job[w] EXCEPT !.owns = FALSE]
<1>1. job[w] \in Job
  BY DEF Types
<1>2. job' = [job EXCEPT ![w] = j]
  BY DEF Redeliver, Types
<1>3. /\ j \in Job /\ j.at = job[w].at /\ j.event = job[w].event /\ j.owns = FALSE
      /\ j.copy = job[w].copy /\ j.now = job[w].now /\ j.found = job[w].found
      /\ j.gone = job[w].gone /\ j.fresh = job[w].fresh
      /\ j.peers = job[w].peers /\ j.mail = job[w].mail
  BY <1>1 DEF Job
<1> HIDE DEF j
<1> QED
  BY <1>2, <1>3, JobSet
-----------------------------------------------------------------------------
(* New ids *)

KnownRow(r) ==
  \/ r \in rows \/ r \in shown
  \/ \E w \in Pods : r \in job[w].found \cup job[w].gone \cup job[w].fresh

LEMMA UsedDef == \A i : i \in UsedIds <=> \E r : KnownRow(r) /\ i = r.id
BY DEF UsedIds, KnownRow

LEMMA UsedDefNext == \A i : i \in UsedIds' <=> \E r : KnownRow(r)' /\ i = r.id
BY DEF UsedIds, KnownRow

LEMMA KnownType ==
  ASSUME Types, NEW r, KnownRow(r)
  PROVE  r \in Row
BY JobFields DEF KnownRow, Types, RowSets

LEMMA NewIdIsNew ==
  ASSUME Types, Bounded
  PROVE  NewId \in Nat \ {0} /\ NewId \notin UsedIds
<1>1. UsedIds \subseteq Nat \ {0}
  BY UsedDef, KnownType DEF Row
<1>2. PICK n \in Nat : \A i \in UsedIds : i <= n
  BY DEF Bounded
<1>3. IsFiniteSet(UsedIds) /\ Cardinality(UsedIds) \in Nat
  BY <1>1, <1>2, FS_BoundedSetOfNaturals, FS_CardinalityType
<1> DEFINE c == Cardinality(UsedIds)
<1>4. IsFiniteSet(1 .. (c + 1)) /\ Cardinality(1 .. (c + 1)) = c + 1
  BY <1>3, FS_Interval
<1>5. ~(1 .. (c + 1) \subseteq UsedIds)
  <2>1. SUFFICES ASSUME 1 .. (c + 1) \in SUBSET UsedIds
                 PROVE  FALSE
    OBVIOUS
  <2>2. Cardinality(1 .. (c + 1)) <= Cardinality(UsedIds)
    BY <1>3, <2>1, FS_Subset
  <2> QED
    BY <1>3, <1>4, <2>2
<1>6. \E k \in 1 .. (c + 1) : k \notin UsedIds
  BY <1>5
<1> QED
  BY <1>3, <1>6 DEF NewId

LEMMA NewRowType ==
  ASSUME Types, Bounded, NEW w \in Pods, NEW t \in DOMAIN job[w].copy
  PROVE  /\ NewRow(w, t) \in Row
         /\ NewRow(w, t).tx = t /\ NewRow(w, t).shows = job[w].copy[t]
         /\ NewRow(w, t).id = NewId
<1>1. t \in Txs /\ job[w].copy[t] \in Statuses
  BY JobFields, CopyType DEF Types
<1> QED
  BY <1>1, NewIdIsNew DEF NewRow, Row

(* A step by which one pod at most makes one id known *)
LEMMA BoundedStep ==
  ASSUME Types, Bounded, NEW w \in Pods, Others(w),
         NEW R, NEW k \in Nat, \A r \in R : r.id = k,
         rows' \subseteq rows \cup R,
         \A r \in shown' : KnownRow(r),
         \A r \in job'[w].found \cup job'[w].gone \cup job'[w].fresh : KnownRow(r) \/ r \in R
  PROVE  Bounded'
<1>1. PICK n \in Nat : \A i \in UsedIds : i <= n
  BY DEF Bounded
<1>2. \A r : KnownRow(r)' => KnownRow(r) \/ r \in R
  BY DEF KnownRow, Others
<1>3. \A i \in UsedIds' : i \in UsedIds \/ i = k
  BY <1>2, UsedDef, UsedDefNext
<1>4. \A i \in UsedIds : i \in Nat
  BY UsedDef, KnownType DEF Row
<1> DEFINE m == IF k > n THEN k ELSE n
<1>5. m \in Nat /\ \A i \in UsedIds' : i <= m
  BY <1>1, <1>3, <1>4
<1> QED
  BY <1>5 DEF Bounded

LEMMA BoundedSame ==
  ASSUME Bounded, UNCHANGED <<rows, shown, job>>
  PROVE  Bounded'
<1>1. UsedIds' = UsedIds
  BY DEF UsedIds
<1> QED
  BY <1>1 DEF Bounded

LEMMA JobInvStep ==
  ASSUME JobInv, NEW w \in Pods, Others(w), JobOk(job'[w])
  PROVE  JobInv'
BY DEF JobInv, Others

LEMMA IdleOk == JobOk(Idle)
BY IdleType, EmptyCopy DEF JobOk

LEMMA TierMails ==
  ASSUME Types, NEW w \in Pods, NEW t \in DOMAIN job[w].copy
  PROVE  /\ MailAfter(job[w], t) \in Mails
         /\ (IF MailsGroup(job[w], t) THEN GroupMail(job[w].peers) ELSE {}) \in Mails
<1>1. t \in Txs /\ job[w].copy[t] \in Statuses /\ job[w].peers \in Groups
  BY JobFields, CopyType DEF Types
<1>2. MailsGroup(job[w], t) => GroupMail(job[w].peers) \in Mails
  <2>1. SUFFICES ASSUME MailsGroup(job[w], t)
                 PROVE  GroupMail(job[w].peers) \in Mails
    OBVIOUS
  <2>2. job[w].peers \in [Txs -> Statuses]
    BY <1>1, <2>1 DEF MailsGroup, Groups
  <2> QED
    BY <2>2 DEF GroupMail, Mails
<1>3. {} \in Mails /\ {<<t, job[w].copy[t]>>} \in Mails
  BY <1>1 DEF Mails
<1>4. \A x, y \in Mails : x \cup y \in Mails
  BY DEF Mails
<1> QED
  BY <1>2, <1>3, <1>4 DEF MailAfter
-----------------------------------------------------------------------------
(* Type correctness *)

LEMMA TypesEasy ==
  ASSUME Types, status' \in [Txs -> Statuses], grouped' \in BOOLEAN,
         queue' \in [Event -> Nat], UNCHANGED events, rows' \in RowSets, shown' \in RowSets,
         mailed' \in Mails, met' \in TxSets, past' \subseteq {"lost", "failed", "crash"},
         faults' \in 0 .. MaxFaults, job' \in [Pods -> Job]
  PROVE  Types'
BY DEF Types

LEMMA FaultCount ==
  ASSUME Types, faults < MaxFaults, faults' = faults + 1
  PROVE  faults' \in 0 .. MaxFaults
BY BoundsAssumption DEF Types

LEMMA CommitKeeps == ASSUME IInv, CommitGroup PROVE IInv'
<1>1. Types'
  BY DEF CommitGroup, IInv, Types, told, history
<1>2. JobInv' /\ Unique' /\ Bounded'
  BY BoundedSame DEF CommitGroup, IInv, JobInv, Unique, told
<1> QED
  BY <1>1, <1>2 DEF IInv

LEMMA ChangeKeeps ==
  ASSUME IInv, NEW e \in Event, NEW s \in Statuses, Change(e, s) PROVE IInv'
<1>1. status' \in [Txs -> Statuses]
  BY DEF Change, IInv, Types
<1>2. queue' \in [Event -> Nat] /\ events' \in 1 .. MaxEvents
  BY BoundsAssumption DEF Change, IInv, Types
<1>3. Types'
  BY <1>1, <1>2 DEF Change, IInv, Types, told, history
<1>4. JobInv' /\ Unique' /\ Bounded'
  BY BoundedSame DEF Change, IInv, JobInv, Unique, told
<1> QED
  BY <1>3, <1>4 DEF IInv

LEMMA LoseKeeps == ASSUME IInv, NEW e \in Event, Lose(e) PROVE IInv'
<1>1. queue' \in [Event -> Nat]
  BY DEF Lose, IInv, Types
<1>2. faults' \in 0 .. MaxFaults /\ past' \subseteq {"lost", "failed", "crash"}
  BY FaultCount DEF Lose, IInv, Types
<1>3. Types'
  BY <1>1, <1>2 DEF Lose, IInv, Types, told, database
<1>4. JobInv' /\ Unique' /\ Bounded'
  BY BoundedSame DEF Lose, IInv, JobInv, Unique, told, database
<1> QED
  BY <1>3, <1>4 DEF IInv

LEMMA AgainType ==
  ASSUME IInv, NEW w \in Pods
  PROVE  Again(w) \in [Event -> Nat]
<1>1. job[w].owns => job[w].event \in Event
  BY DEF IInv, JobInv, JobOk
<1> QED
  BY <1>1 DEF Again, IInv, Types

(* A pod that knows no row that it did not know *)
LEMMA BoundedLess ==
  ASSUME IInv, NEW w \in Pods, Others(w), UNCHANGED rows,
         \A r \in shown' : KnownRow(r),
         \A r \in job'[w].found \cup job'[w].gone \cup job'[w].fresh : KnownRow(r)
  PROVE  Bounded'
<1>1. \A r : KnownRow(r)' => KnownRow(r)
  BY DEF KnownRow, Others
<1>2. \A i \in UsedIds' : i \in UsedIds
  BY <1>1, UsedDef, UsedDefNext
<1> QED
  BY <1>2 DEF IInv, Bounded

(* A pod that forgets what it does *)
LEMMA ForgetKeeps ==
  ASSUME IInv, NEW w \in Pods, job' = [job EXCEPT ![w] = Idle],
         UNCHANGED <<rows, shown>>
  PROVE  JobInv' /\ Unique' /\ Bounded' /\ job' \in [Pods -> Job]
<1>1. job' \in [Pods -> Job] /\ Others(w) /\ job'[w] = Idle
  BY IdleJob DEF IInv
<1>2. JobInv'
  BY <1>1, IdleOk, JobInvStep DEF IInv
<1>3. Bounded'
  <2>1. /\ \A r \in shown' : KnownRow(r)
        /\ \A r \in job'[w].found \cup job'[w].gone \cup job'[w].fresh : KnownRow(r)
    BY <1>1, IdleType DEF KnownRow
  <2> QED
    BY <1>1, <2>1, BoundedLess
<1> QED
  BY <1>1, <1>2, <1>3 DEF IInv, Unique

LEMMA TakeKeeps ==
  ASSUME IInv, NEW w \in Pods, NEW e \in Event, Take(w, e) PROVE IInv'
<1>1. /\ job' \in [Pods -> Job] /\ Others(w)
      /\ job'[w].at \in {"group", "find"} /\ job'[w].event = e /\ job'[w].owns
      /\ job'[w].copy = [t \in e |-> status[t]]
      /\ job'[w].now = {} /\ job'[w].found = {} /\ job'[w].gone = {} /\ job'[w].fresh = {}
  BY TakeJob DEF IInv
<1>2. queue' \in [Event -> Nat]
  BY DEF Take, IInv, Types
<1>3. met' \in TxSets
  BY DEF Take, IInv, Types, TxSets, Event
<1>4. Types'
  BY <1>1, <1>2, <1>3 DEF Take, IInv, Types, told, database
<1>5. JobOk(job'[w])
  BY <1>1 DEF JobOk
<1>6. JobInv'
  BY <1>1, <1>5, JobInvStep DEF IInv
<1>7. Bounded'
  BY <1>1, BoundedLess DEF Take, told, database, KnownRow
<1>8. Unique'
  BY DEF Take, database, IInv, Unique
<1> QED
  BY <1>4, <1>6, <1>7, <1>8 DEF IInv

LEMMA LoadKeeps == ASSUME IInv, NEW w \in Pods, LoadGroup(w) PROVE IInv'
<1>1. /\ job' \in [Pods -> Job] /\ Others(w) /\ job'[w].at = "find"
      /\ job'[w].event = job[w].event /\ job'[w].owns = job[w].owns
      /\ job'[w].copy = job[w].copy /\ job'[w].now = job[w].now
      /\ job'[w].found = job[w].found /\ job'[w].gone = job[w].gone
      /\ job'[w].fresh = job[w].fresh
  BY LoadJob DEF IInv
<1>2. Types'
  BY <1>1 DEF LoadGroup, IInv, Types, told, history, database
<1>3. JobOk(job[w]) /\ job[w].at = "group"
  BY DEF LoadGroup, IInv, JobInv
<1>4. JobOk(job'[w])
  BY <1>1, <1>3 DEF JobOk
<1>5. JobInv'
  BY <1>1, <1>4, JobInvStep DEF IInv
<1>6. Bounded'
  BY <1>1, BoundedLess DEF LoadGroup, told, database, KnownRow
<1>7. Unique'
  BY DEF LoadGroup, database, IInv, Unique
<1> QED
  BY <1>2, <1>5, <1>6, <1>7 DEF IInv

LEMMA FindKeeps == ASSUME IInv, NEW w \in Pods, NEW t \in Txs, Find(w, t) PROVE IInv'
<1>1. /\ job' \in [Pods -> Job] /\ Others(w) /\ job'[w].at = "write"
      /\ job'[w].event = job[w].event /\ job'[w].owns = job[w].owns
      /\ job'[w].copy = job[w].copy /\ job'[w].now = {t}
      /\ job'[w].found = Indicators(t) /\ job'[w].gone = job[w].gone
      /\ job'[w].fresh = job[w].fresh
  BY FindJob DEF IInv
<1>2. Types'
  BY <1>1 DEF Find, IInv, Types, told, history, database
<1>3. JobOk(job[w]) /\ job[w].at = "find" /\ t \in DOMAIN job[w].copy
  BY DEF Find, IInv, JobInv
<1>4. JobOk(job'[w])
  BY <1>1, <1>3 DEF JobOk, Indicators
<1>5. JobInv'
  BY <1>1, <1>4, JobInvStep DEF IInv
<1>6. Bounded'
  BY <1>1, BoundedLess DEF Find, told, database, KnownRow, Indicators
<1>7. Unique'
  BY DEF Find, database, IInv, Unique
<1> QED
  BY <1>2, <1>5, <1>6, <1>7 DEF IInv

LEMMA WriteJob ==
  ASSUME IInv, NEW w \in Pods, NEW t \in Txs, job[w].at = "write", t \in job[w].now
  PROVE  /\ job[w].now = {t} /\ t \in DOMAIN job[w].copy /\ t \in job[w].event
         /\ \A r \in job[w].found : r.tx = t
         /\ NewRow(w, t) \in Row /\ NewRow(w, t).tx = t
         /\ NewRow(w, t).shows = job[w].copy[t] /\ NewRow(w, t).id = NewId
         /\ NewId \in Nat \ {0} /\ NewId \notin UsedIds
<1>1. JobOk(job[w])
  BY DEF IInv, JobInv
<1>2. job[w].now = {t} /\ t \in DOMAIN job[w].copy /\ t \in job[w].event
  BY <1>1 DEF JobOk
<1>3. \A r \in job[w].found : r.tx = t
  BY <1>1, <1>2 DEF JobOk
<1> QED
  BY <1>2, <1>3, NewRowType, NewIdIsNew DEF IInv

(* What Collects leaves is in order. *)
LEMMA CollectsKeeps ==
  ASSUME IInv, NEW w \in Pods, NEW t \in Txs, job[w].at = "write", t \in job[w].now,
         NEW gone \in SUBSET job[w].found, NEW fresh \in SUBSET {NewRow(w, t)}, NEW mail \in Mails,
         Collects(w, t, gone, fresh, mail),
         rows' \subseteq rows \cup {NewRow(w, t)}, UNCHANGED shown
  PROVE  job' \in [Pods -> Job] /\ JobInv' /\ Bounded'
<1>0. /\ job[w].now = {t} /\ t \in DOMAIN job[w].copy /\ t \in job[w].event
      /\ \A r \in job[w].found : r.tx = t
      /\ NewRow(w, t) \in Row /\ NewRow(w, t).tx = t
      /\ NewRow(w, t).id = NewId /\ NewId \in Nat \ {0}
  BY WriteJob
<1>1. gone \in RowSets /\ fresh \in RowSets /\ Types /\ JobOk(job[w])
  BY <1>0, JobFields DEF RowSets, IInv, JobInv, Types
<1>2. /\ job' \in [Pods -> Job] /\ Others(w) /\ job'[w].at \in {"send", "find"}
      /\ job'[w].event = job[w].event /\ job'[w].owns = job[w].owns
      /\ DOMAIN job'[w].copy = DOMAIN job[w].copy \ {t}
      /\ job'[w].at = "send" => DOMAIN job'[w].copy = {}
      /\ job'[w].now = {} /\ job'[w].found = {}
      /\ job'[w].gone = job[w].gone \cup gone
      /\ job'[w].fresh = job[w].fresh \cup fresh
  BY <1>1, CollectsJob
<1>3. \A r \in job'[w].gone \cup job'[w].fresh : r.tx \in job'[w].event \ DOMAIN job'[w].copy
  BY <1>0, <1>1, <1>2 DEF JobOk
<1>4. JobOk(job'[w])
  BY <1>0, <1>1, <1>2, <1>3 DEF JobOk
<1>5. JobInv'
  BY <1>2, <1>4, JobInvStep DEF IInv
<1>6. Bounded'
  <2>1. \A r \in {NewRow(w, t)} : r.id = NewId
    BY <1>0
  <2>2. \A r \in shown' : KnownRow(r)
    BY DEF KnownRow
  <2>3. \A r \in job'[w].found \cup job'[w].gone \cup job'[w].fresh :
          KnownRow(r) \/ r \in {NewRow(w, t)}
    BY <1>2 DEF KnownRow
  <2>4. Types /\ Bounded /\ Others(w) /\ NewId \in Nat
    BY <1>0, <1>2 DEF IInv
  <2>5. rows' \subseteq rows \cup {NewRow(w, t)}
    OBVIOUS
  <2> QED
    BY ONLY <2>1, <2>2, <2>3, <2>4, <2>5, BoundedStep, w \in Pods
<1> QED
  BY <1>2, <1>5, <1>6

LEMMA WriteKeeps == ASSUME IInv, NEW w \in Pods, NEW t \in Txs, Write(w, t) PROVE IInv'
<1>0. /\ job[w].at = "write" /\ t \in job[w].now
      /\ rows' = (rows \ job[w].found) \cup {NewRow(w, t)}
      /\ Collects(w, t, job[w].found, {NewRow(w, t)}, MailAfter(job[w], t))
      /\ UNCHANGED <<status, grouped, queue, events, told, history>>
  BY DEF Write
<1>1. /\ t \in DOMAIN job[w].copy
      /\ NewRow(w, t) \in Row /\ NewRow(w, t).id = NewId /\ NewId \notin UsedIds
  BY <1>0, WriteJob
<1>2. MailAfter(job[w], t) \in Mails
  BY <1>1, TierMails DEF IInv
<1>3. job' \in [Pods -> Job] /\ JobInv' /\ Bounded'
  <2>1. job[w].found \in SUBSET job[w].found /\ {NewRow(w, t)} \in SUBSET {NewRow(w, t)}
    OBVIOUS
  <2> QED
    BY <1>0, <1>2, <2>1, CollectsKeeps DEF told
<1>4. rows' \in RowSets
  BY <1>0, <1>1 DEF IInv, Types, RowSets
<1>5. Types'
  BY <1>0, <1>3, <1>4 DEF IInv, Types, told, history
<1>6. \A r \in rows : r.id # NewId
  BY <1>1, UsedDef DEF KnownRow
<1>7. Unique'
  BY <1>0, <1>1, <1>6 DEF IInv, Unique
<1> QED
  BY <1>3, <1>5, <1>7 DEF IInv

LEMMA WriteFailsKeeps ==
  ASSUME IInv, NEW w \in Pods, NEW t \in Txs, WriteFails(w, t) PROVE IInv'
<1> DEFINE mail == IF MailsGroup(job[w], t) THEN GroupMail(job[w].peers) ELSE {}
<1>0. PICK gone \in {{}, job[w].found}, fresh \in {{}, {NewRow(w, t)}} :
        /\ rows' \in {rows, (rows \ gone) \cup fresh}
        /\ Collects(w, t, gone, fresh, mail)
  BY DEF WriteFails
<1>1. /\ job[w].at = "write" /\ t \in job[w].now
      /\ UNCHANGED <<status, grouped, queue, events, shown, mailed, met>>
  BY DEF WriteFails, told
<1>2. /\ t \in DOMAIN job[w].copy
      /\ NewRow(w, t) \in Row /\ NewRow(w, t).id = NewId /\ NewId \notin UsedIds
  BY <1>1, WriteJob
<1>3. mail \in Mails
  BY <1>2, TierMails DEF IInv
<1>4. /\ gone \in SUBSET job[w].found /\ fresh \in SUBSET {NewRow(w, t)}
      /\ rows' \subseteq rows \cup {NewRow(w, t)}
  BY <1>0
<1> HIDE DEF mail
<1>5. job' \in [Pods -> Job] /\ JobInv' /\ Bounded'
  BY <1>0, <1>1, <1>3, <1>4, CollectsKeeps
<1>6. faults' \in 0 .. MaxFaults /\ past' \subseteq {"lost", "failed", "crash"}
  BY FaultCount DEF WriteFails, IInv, Types
<1>7. rows' \in RowSets
  BY <1>2, <1>4 DEF IInv, Types, RowSets
<1>8. Types'
  BY <1>1, <1>5, <1>6, <1>7 DEF IInv, Types
<1>9. \A r \in rows : r.id # NewId
  BY <1>2, UsedDef DEF KnownRow
<1>10. Unique'
  BY <1>2, <1>4, <1>9 DEF IInv, Unique
<1> QED
  BY <1>5, <1>8, <1>10 DEF IInv

(* The end of sending, whatever was told *)
LEMMA SentKeeps ==
  ASSUME IInv, NEW w \in Pods, job[w].at = "send",
         job' = [job EXCEPT ![w].at = "ack", ![w].gone = {}, ![w].fresh = {}, ![w].mail = {}],
         shown' \subseteq shown \cup job[w].fresh, mailed' \subseteq mailed \cup job[w].mail,
         UNCHANGED rows
  PROVE  /\ job' \in [Pods -> Job] /\ JobInv' /\ Bounded' /\ Unique'
         /\ shown' \in RowSets /\ mailed' \in Mails
<1>1. /\ job' \in [Pods -> Job] /\ Others(w) /\ job'[w].at = "ack"
      /\ job'[w].event = job[w].event /\ job'[w].owns = job[w].owns
      /\ job'[w].copy = job[w].copy /\ job'[w].now = job[w].now
      /\ job'[w].found = job[w].found /\ job'[w].gone = {} /\ job'[w].fresh = {}
  BY AckJob DEF IInv
<1>2. JobOk(job[w])
  BY DEF IInv, JobInv
<1>3. JobOk(job'[w])
  BY <1>1, <1>2 DEF JobOk
<1>4. JobInv'
  BY <1>1, <1>3, JobInvStep DEF IInv
<1>5. Bounded'
  BY <1>1, BoundedLess DEF KnownRow
<1>6. job[w] \in Job
  BY DEF IInv, Types
<1>7. shown' \in RowSets /\ mailed' \in Mails
  BY <1>6, JobFields DEF IInv, Types, RowSets, Mails
<1> QED
  BY <1>1, <1>4, <1>5, <1>7 DEF IInv, Unique

LEMMA SendKeeps == ASSUME IInv, NEW w \in Pods, Send(w) PROVE IInv'
<1>1. /\ job[w].at = "send"
      /\ job' = [job EXCEPT ![w].at = "ack", ![w].gone = {}, ![w].fresh = {}, ![w].mail = {}]
      /\ shown' \subseteq shown \cup job[w].fresh /\ mailed' \subseteq mailed \cup job[w].mail
      /\ UNCHANGED <<status, grouped, rows, queue, events, met, past, faults>>
  BY DEF Send, Told, database, history
<1>2. /\ job' \in [Pods -> Job] /\ JobInv' /\ Bounded' /\ Unique'
      /\ shown' \in RowSets /\ mailed' \in Mails
  BY <1>1, SentKeeps
<1>3. Types'
  BY <1>1, <1>2 DEF IInv, Types
<1> QED
  BY <1>2, <1>3 DEF IInv

LEMMA SendFailsKeeps == ASSUME IInv, NEW w \in Pods, SendFails(w) PROVE IInv'
<1>1. /\ job[w].at = "send"
      /\ job' = [job EXCEPT ![w].at = "ack", ![w].gone = {}, ![w].fresh = {}, ![w].mail = {}]
      /\ UNCHANGED <<status, grouped, rows, queue, events, met>>
  BY DEF SendFails, database
<1>2. shown' \subseteq shown \cup job[w].fresh /\ mailed' \subseteq mailed \cup job[w].mail
  BY DEF SendFails
<1>3. /\ job' \in [Pods -> Job] /\ JobInv' /\ Bounded' /\ Unique'
      /\ shown' \in RowSets /\ mailed' \in Mails
  BY <1>1, <1>2, SentKeeps
<1>4. faults' \in 0 .. MaxFaults /\ past' \subseteq {"lost", "failed", "crash"}
  BY FaultCount DEF SendFails, IInv, Types
<1>5. Types'
  BY <1>1, <1>3, <1>4 DEF IInv, Types
<1> QED
  BY <1>3, <1>5 DEF IInv

LEMMA AckKeeps == ASSUME IInv, NEW w \in Pods, Ack(w) PROVE IInv'
<1>1. JobInv' /\ Unique' /\ Bounded' /\ job' \in [Pods -> Job]
  BY ForgetKeeps DEF Ack, database, told
<1>2. Types'
  BY <1>1 DEF Ack, IInv, Types, database, told, history
<1> QED
  BY <1>1, <1>2 DEF IInv

LEMMA HandlerFailsKeeps == ASSUME IInv, NEW w \in Pods, HandlerFails(w) PROVE IInv'
<1>1. JobInv' /\ Unique' /\ Bounded' /\ job' \in [Pods -> Job]
  BY ForgetKeeps DEF HandlerFails, database, told
<1>2. faults' \in 0 .. MaxFaults /\ past' \subseteq {"lost", "failed", "crash"}
  BY FaultCount DEF HandlerFails, IInv, Types
<1>3. Types'
  BY <1>1, <1>2 DEF HandlerFails, IInv, Types, database, told
<1> QED
  BY <1>1, <1>3 DEF IInv

LEMMA CrashKeeps == ASSUME IInv, NEW w \in Pods, Crash(w) PROVE IInv'
<1>1. JobInv' /\ Unique' /\ Bounded' /\ job' \in [Pods -> Job]
  BY ForgetKeeps DEF Crash, database, told
<1>2. faults' \in 0 .. MaxFaults /\ past' \subseteq {"lost", "failed", "crash"}
  BY FaultCount DEF Crash, IInv, Types
<1>3. queue' \in [Event -> Nat]
  BY AgainType DEF Crash
<1>4. Types'
  BY <1>1, <1>2, <1>3 DEF Crash, IInv, Types, database, told
<1> QED
  BY <1>1, <1>4 DEF IInv

LEMMA RedeliverKeeps == ASSUME IInv, NEW w \in Pods, Redeliver(w) PROVE IInv'
<1>1. /\ job' \in [Pods -> Job] /\ Others(w) /\ job'[w].at = job[w].at
      /\ job'[w].event = job[w].event /\ ~job'[w].owns
      /\ job'[w].copy = job[w].copy /\ job'[w].now = job[w].now
      /\ job'[w].found = job[w].found /\ job'[w].gone = job[w].gone
      /\ job'[w].fresh = job[w].fresh
  BY RedeliverJob DEF IInv
<1>2. faults' \in 0 .. MaxFaults
  BY FaultCount DEF Redeliver, IInv
<1>3. queue' \in [Event -> Nat]
  BY AgainType DEF Redeliver
<1>4. Types'
  BY <1>1, <1>2, <1>3 DEF Redeliver, IInv, Types, database, told
<1>5. JobOk(job[w])
  BY DEF IInv, JobInv
<1>6. JobOk(job'[w])
  BY <1>1, <1>5 DEF JobOk
<1>7. JobInv'
  BY <1>1, <1>6, JobInvStep DEF IInv
<1>8. Bounded'
  BY <1>1, BoundedLess DEF Redeliver, told, database, KnownRow
<1>9. Unique'
  BY DEF Redeliver, database, IInv, Unique
<1> QED
  BY <1>4, <1>7, <1>8, <1>9 DEF IInv

LEMMA StutterKeeps == ASSUME IInv, UNCHANGED vars PROVE IInv'
<1>1. Bounded'
  BY BoundedSame DEF vars, IInv
<1> QED
  BY <1>1 DEF vars, IInv, Types, JobInv, Unique

LEMMA InvStep == IInv /\ [Next]_vars => IInv'
BY CommitKeeps, ChangeKeeps, TakeKeeps, LoadKeeps, FindKeeps, WriteKeeps, SendKeeps, AckKeeps,
   LoseKeeps, RedeliverKeeps, CrashKeeps, HandlerFailsKeeps, SendFailsKeeps, WriteFailsKeeps,
   StutterKeeps
   DEF Next, Process, Fault

LEMMA InvInit == Init => IInv
<1> SUFFICES ASSUME Init PROVE IInv
  OBVIOUS
<1>1. queue \in [Event -> Nat]
  BY DEF Init
<1>2. job \in [Pods -> Job] /\ \A w \in Pods : job[w] = Idle
  BY IdleType DEF Init
<1>3. {} \in RowSets /\ {} \in Mails /\ {} \in TxSets
  BY DEF RowSets, Mails, TxSets
<1>4. Types
  <2>1. events \in 1 .. MaxEvents /\ faults \in 0 .. MaxFaults
    BY BoundsAssumption DEF Init
  <2>2. status \in [Txs -> Statuses]
    BY DEF Init, Statuses, Open
  <2>3. rows = {} /\ shown = {} /\ mailed = {} /\ met = {} /\ past = {} /\ grouped = FALSE
    BY DEF Init
  <2> QED
    BY <1>1, <1>2, <1>3, <2>1, <2>2, <2>3 DEF Types
<1>5. JobInv
  BY <1>2, IdleOk DEF JobInv
<1>6. UsedIds = {}
  BY <1>2, IdleType, UsedDef DEF Init, KnownRow
<1>7. Bounded
  BY <1>6 DEF Bounded
<1> QED
  BY <1>4, <1>5, <1>7 DEF Init, IInv, Unique

LEMMA InvImpliesType == IInv => TypeOK
<1> SUFFICES ASSUME IInv PROVE TypeOK
  OBVIOUS
<1>1. ASSUME NEW w \in Pods
      PROVE  LET j == job[w] IN
             /\ j.at \in Stage /\ j.event \subseteq Txs /\ j.owns \in BOOLEAN
             /\ DOMAIN j.copy \subseteq Txs /\ j.now \subseteq DOMAIN j.copy
             /\ \A t \in DOMAIN j.copy : j.copy[t] \in Statuses
             /\ j.peers = <<>> \/ j.peers \in [Txs -> Statuses]
             /\ j.found \cup j.gone \cup j.fresh \subseteq Row
             /\ j.mail \subseteq Txs \X Statuses
  <2>1. job[w] \in Job /\ JobOk(job[w])
    BY DEF IInv, Types, JobInv
  <2>2. DOMAIN job[w].copy \subseteq Txs /\ \A t \in DOMAIN job[w].copy : job[w].copy[t] \in Statuses
    BY <2>1, JobFields, CopyType
  <2>3. /\ job[w].at \in Stage /\ job[w].event \subseteq Txs /\ job[w].owns \in BOOLEAN
        /\ job[w].peers = <<>> \/ job[w].peers \in [Txs -> Statuses]
        /\ job[w].found \cup job[w].gone \cup job[w].fresh \subseteq Row
        /\ job[w].mail \subseteq Txs \X Statuses
    BY <2>1, JobFields DEF TxSets, Groups, RowSets, Mails
  <2>4. job[w].now \subseteq DOMAIN job[w].copy
    BY <2>1 DEF JobOk
  <2> QED
    BY <2>2, <2>3, <2>4
<1>2. rows \subseteq Row /\ shown \subseteq Row /\ mailed \subseteq Txs \X Statuses /\ met \subseteq Txs
  BY DEF IInv, Types, RowSets, Mails, TxSets
<1> QED
  BY <1>1, <1>2 DEF TypeOK, IInv, Types, Unique

(* The variables have their types; the ids of the indicators stay a key,   *)
(* because the id of a new row is one that nobody knows.                   *)
THEOREM TypeCorrect == Spec => []TypeOK
<1>1. Spec => []IInv
  BY InvInit, InvStep, PTL DEF Spec
<1> QED
  BY <1>1, InvImpliesType, PTL
-----------------------------------------------------------------------------
(* Indicators follow the status.  A transaction that no two pods have      *)
(* handled at once is handled by one pod at most; a pod that may no longer *)
(* acknowledge has its event in the stream again; what it is about to      *)
(* delete is all there is; and unless an event waits, whoever has a copy   *)
(* has a current one, or the indicator is right.                           *)

Waits(t) == \E e \in Event : t \in e /\ queue[e] > 0
Holds(w, t) == t \in DOMAIN job[w].copy
Right(t) == \E r \in rows : Indicators(t) = {r} /\ r.shows = status[t]

OnePod(t) == \A v, w \in Pods : Handles(v, t) /\ Handles(w, t) => v = w
AgainWaits(t) == \A w \in Pods : Handles(w, t) /\ ~job[w].owns => queue[job[w].event] > 0
FindsAll(t) == \A w \in Pods : t \in job[w].now => job[w].found = Indicators(t)
Current(t) ==
  \/ Waits(t)
  \/ /\ \A w \in Pods : Holds(w, t) => job[w].copy[t] = status[t]
     /\ Right(t) \/ \E w \in Pods : Holds(w, t)

TruthOf(t) == OnePod(t) /\ AgainWaits(t) /\ FindsAll(t) /\ Current(t)
Truth == past \subseteq {"crash"} => \A t \in Txs : t \notin met => TruthOf(t)

LEMMA HoldsHandles ==
  ASSUME IInv, NEW w \in Pods, NEW t
  PROVE  /\ Holds(w, t) => Handles(w, t)
         /\ t \in job[w].now => Holds(w, t)
         /\ Handles(w, t) => job[w].event \in Event
BY DEF IInv, JobInv, JobOk, Holds, Handles

(* The history only grows. *)
LEMMA HistoryGrows ==
  ASSUME [Next]_vars
  PROVE  met \subseteq met' /\ past \subseteq past'
BY DEF Next, Process, Fault, vars, CommitGroup, Change, Take, LoadGroup, Find, Write, Collects,
       Send, Ack, Lose, Redeliver, Crash, HandlerFails, SendFails, WriteFails, history, told, database

(* A step of one pod that keeps its event and its copies, and all rows *)
LEMMA SameTruth ==
  ASSUME NEW t, TruthOf(t), NEW w \in Pods, Others(w), UNCHANGED <<queue, status, rows>>,
         job'[w].event = job[w].event, job'[w].owns = job[w].owns, job'[w].copy = job[w].copy,
         t \in job'[w].now => job'[w].found = Indicators(t)
  PROVE  TruthOf(t)'
<1>1. /\ \A v \in Pods : Handles(v, t)' = Handles(v, t) /\ job'[v].owns = job[v].owns
      /\ \A v \in Pods : job'[v].event = job[v].event /\ job'[v].copy = job[v].copy
      /\ Indicators(t)' = Indicators(t)
  BY DEF Others, Handles, Indicators
<1>2. OnePod(t)' /\ AgainWaits(t)'
  BY <1>1 DEF TruthOf, OnePod, AgainWaits
<1>3. FindsAll(t)'
  BY <1>1 DEF TruthOf, FindsAll, Others
<1>4. Current(t)'
  BY <1>1 DEF TruthOf, Current, Waits, Holds, Right
<1> QED
  BY <1>2, <1>3, <1>4 DEF TruthOf

LEMMA SameJobs ==
  ASSUME NEW t, TruthOf(t), UNCHANGED <<job, queue, rows>>, status'[t] = status[t]
  PROVE  TruthOf(t)'
<1>1. Indicators(t)' = Indicators(t)
  BY DEF Indicators
<1>2. OnePod(t)' /\ AgainWaits(t)' /\ FindsAll(t)'
  BY <1>1 DEF TruthOf, OnePod, AgainWaits, FindsAll, Handles
<1>3. Current(t)'
  BY <1>1 DEF TruthOf, Current, Waits, Holds, Right
<1> QED
  BY <1>2, <1>3 DEF TruthOf

LEMMA ChangeTruth ==
  ASSUME IInv, NEW t \in Txs, TruthOf(t), NEW e \in Event, NEW s \in Statuses, Change(e, s)
  PROVE  TruthOf(t)'
<1>0. /\ UNCHANGED <<job, rows>> /\ queue' = [queue EXCEPT ![e] = @ + 1]
      /\ status' = [u \in Txs |-> IF u \in e THEN s ELSE status[u]]
      /\ queue \in [Event -> Nat]
  BY DEF Change, told, IInv, Types
<1>1. /\ \A d \in Event : queue'[d] >= queue[d] /\ queue[d] \in Nat /\ queue'[d] \in Nat
      /\ queue'[e] > 0 /\ Indicators(t)' = Indicators(t)
  BY <1>0 DEF Indicators
<1>2. OnePod(t)' /\ FindsAll(t)'
  BY <1>0, <1>1 DEF TruthOf, OnePod, FindsAll, Handles
<1>3. AgainWaits(t)'
  <2>1. SUFFICES ASSUME NEW w \in Pods, Handles(w, t)', ~job'[w].owns
                 PROVE  queue'[job'[w].event] > 0
    BY DEF AgainWaits
  <2>2. queue[job[w].event] > 0 /\ job[w].event \in Event /\ job'[w].event = job[w].event
    BY <1>0, <2>1, HoldsHandles DEF TruthOf, AgainWaits, Handles
  <2> QED
    BY <1>1, <2>2
<1>4. Waits(t) => Waits(t)'
  BY <1>1 DEF Waits
<1>5. Current(t)'
  <2>1. CASE t \in e
    BY <1>1, <2>1 DEF Current, Waits
  <2>2. CASE t \notin e
    <3>1. status'[t] = status[t]
      BY <1>0, <2>2
    <3> QED
      BY <1>0, <1>1, <1>4, <3>1 DEF TruthOf, Current, Holds, Right
  <2> QED
    BY <2>1, <2>2
<1> QED
  BY <1>2, <1>3, <1>5 DEF TruthOf

LEMMA TakeTruth ==
  ASSUME IInv, NEW t \in Txs, TruthOf(t), NEW w \in Pods, NEW e \in Event, Take(w, e),
         t \notin met'
  PROVE  TruthOf(t)'
<1>0. /\ Others(w) /\ job'[w].event = e /\ job'[w].owns
      /\ job'[w].copy = [u \in e |-> status[u]] /\ job'[w].now = {}
  BY TakeJob DEF IInv
<1>1. /\ UNCHANGED <<rows, status>> /\ queue' = [queue EXCEPT ![e] = @ - 1]
      /\ queue \in [Event -> Nat] /\ queue[e] > 0
      /\ job[w].at = "idle"
  BY DEF Take, database, IInv, Types
<1>2. ~Handles(w, t) /\ ~Holds(w, t)
  BY <1>1, HoldsHandles DEF IInv, JobInv, JobOk, Handles
<1>3. t \in e => \A v \in Pods : ~Handles(v, t) /\ ~Holds(v, t)
  BY HoldsHandles DEF Take
<1>4. /\ \A v \in Pods : v # w => (Handles(v, t)' <=> Handles(v, t)) /\ (Holds(v, t)' <=> Holds(v, t))
      /\ Handles(w, t)' <=> t \in e
      /\ Holds(w, t)' <=> t \in e
      /\ Indicators(t)' = Indicators(t)
  BY <1>0, <1>1 DEF Others, Handles, Holds, Indicators
<1>5. OnePod(t)'
  BY <1>2, <1>3, <1>4 DEF TruthOf, OnePod
<1>6. AgainWaits(t)'
  <2>1. SUFFICES ASSUME NEW v \in Pods, Handles(v, t)', ~job'[v].owns
                 PROVE  queue'[job'[v].event] > 0
    BY DEF AgainWaits
  <2>2. v # w /\ job'[v] = job[v]
    BY <1>0, <2>1 DEF Others
  <2>3. Handles(v, t) /\ ~job[v].owns /\ queue[job[v].event] > 0
    BY <1>4, <2>1, <2>2 DEF TruthOf, AgainWaits
  <2>4. job[v].event \in Event /\ t \in job[v].event
    BY <2>3, HoldsHandles DEF Handles
  <2>5. job[v].event # e
    BY <1>3, <2>3, <2>4
  <2> QED
    BY <1>1, <2>2, <2>3, <2>4, <2>5
<1>7. FindsAll(t)'
  BY <1>0, <1>4 DEF TruthOf, FindsAll, Others
<1>8. Current(t)'
  <2>1. CASE t \in e
    <3>1. job'[w].copy[t] = status'[t] /\ Holds(w, t)'
      BY <1>0, <1>1, <1>4, <2>1
    <3>2. \A v \in Pods : v # w => ~Holds(v, t)'
      BY <1>3, <1>4, <2>1
    <3> QED
      BY <3>1, <3>2 DEF Current
  <2>2. CASE t \notin e
    <3>1. Waits(t) => Waits(t)'
      BY <1>1, <2>2 DEF Waits
    <3>2. \A v \in Pods : Holds(v, t)' => Holds(v, t) /\ job'[v] = job[v]
      BY <1>0, <1>4, <2>2 DEF Others
    <3>3. \A v \in Pods : Holds(v, t) => Holds(v, t)'
      BY <1>2, <1>4
    <3> QED
      BY <1>1, <1>4, <3>1, <3>2, <3>3 DEF TruthOf, Current, Right
  <2> QED
    BY <2>1, <2>2
<1> QED
  BY <1>5, <1>6, <1>7, <1>8 DEF TruthOf

LEMMA WriteTruth ==
  ASSUME IInv, NEW t \in Txs, TruthOf(t), NEW w \in Pods, NEW u \in Txs, Write(w, u)
  PROVE  TruthOf(t)'
<1>0. /\ job[w].at = "write" /\ u \in job[w].now
      /\ rows' = (rows \ job[w].found) \cup {NewRow(w, u)}
      /\ Collects(w, u, job[w].found, {NewRow(w, u)}, MailAfter(job[w], u))
      /\ UNCHANGED <<status, queue>>
  BY DEF Write
<1>1. /\ u \in DOMAIN job[w].copy /\ \A r \in job[w].found : r.tx = u
      /\ NewRow(w, u) \in Row /\ NewRow(w, u).tx = u /\ NewRow(w, u).shows = job[w].copy[u]
  BY <1>0, WriteJob
<1>2. /\ MailAfter(job[w], u) \in Mails /\ job[w].found \in RowSets
      /\ {NewRow(w, u)} \in RowSets /\ Types
  BY <1>1, TierMails, JobFields DEF IInv, RowSets, Types
<1>3. /\ Others(w) /\ job'[w].event = job[w].event /\ job'[w].owns = job[w].owns
      /\ DOMAIN job'[w].copy = DOMAIN job[w].copy \ {u}
      /\ \A x \in DOMAIN job[w].copy \ {u} : job'[w].copy[x] = job[w].copy[x]
      /\ job'[w].now = {}
  BY <1>0, <1>2, CollectsJob
<1>4. \A v \in Pods : (Handles(v, t)' <=> Handles(v, t)) /\ job'[v].owns = job[v].owns
                     /\ job'[v].event = job[v].event
  BY <1>3 DEF Handles, Others
<1>5. OnePod(t)' /\ AgainWaits(t)'
  BY <1>0, <1>4 DEF TruthOf, OnePod, AgainWaits
<1>6. CASE u # t
  <2>1. Indicators(t)' = Indicators(t)
    BY <1>0, <1>1, <1>6 DEF Indicators
  <2>2. \A v \in Pods : (Holds(v, t)' <=> Holds(v, t)) /\ (Holds(v, t) => job'[v].copy[t] = job[v].copy[t])
    BY <1>3, <1>6 DEF Holds, Others
  <2>3. FindsAll(t)'
    BY <1>3, <2>1 DEF TruthOf, FindsAll, Others
  <2>4. Right(t) => Right(t)'
    BY <1>0, <2>1 DEF Right, Indicators
  <2>5. Current(t)'
    BY <1>0, <2>2, <2>4 DEF TruthOf, Current, Waits
  <2> QED
    BY <1>5, <2>3, <2>5 DEF TruthOf
<1>7. CASE u = t
  <2>1. Handles(w, t) /\ Holds(w, t)
    BY <1>1, <1>7, HoldsHandles DEF Holds
  <2>2. \A v \in Pods : Holds(v, t) \/ t \in job[v].now => v = w
    BY <2>1, HoldsHandles DEF TruthOf, OnePod
  <2>3. \A v \in Pods : ~Holds(v, t)' /\ t \notin job'[v].now
    BY <1>3, <1>7, <2>2 DEF Holds, Others
  <2>4. FindsAll(t)'
    BY <2>3 DEF FindsAll
  <2>5. job[w].found = Indicators(t)
    BY <1>0, <1>7 DEF TruthOf, FindsAll
  <2>6. Indicators(t)' = {NewRow(w, t)} /\ NewRow(w, t) \in rows'
    BY <1>0, <1>1, <1>7, <2>5 DEF Indicators
  <2>7. Current(t)'
    <3>1. CASE Waits(t)
      BY <1>0, <3>1 DEF Current, Waits
    <3>2. CASE ~Waits(t)
      <4>1. job[w].copy[t] = status'[t]
        BY <1>0, <2>1, <3>2 DEF TruthOf, Current
      <4>2. Right(t)'
        BY <1>1, <1>7, <2>6, <4>1 DEF Right
      <4> QED
        BY <2>3, <4>2 DEF Current
    <3> QED
      BY <3>1, <3>2
  <2> QED
    BY <1>5, <2>4, <2>7 DEF TruthOf
<1> QED
  BY <1>6, <1>7

LEMMA RedeliverTruth ==
  ASSUME IInv, NEW t \in Txs, TruthOf(t), NEW w \in Pods, Redeliver(w)
  PROVE  TruthOf(t)'
<1>0. /\ Others(w) /\ job'[w].event = job[w].event /\ job'[w].copy = job[w].copy
      /\ job'[w].now = job[w].now /\ job'[w].found = job[w].found
  BY RedeliverJob DEF IInv
<1>1. /\ UNCHANGED <<rows, status>> /\ queue' = [queue EXCEPT ![job[w].event] = @ + 1]
      /\ queue \in [Event -> Nat] /\ job[w].event \in Event
  BY DEF Redeliver, Again, database, IInv, Types, JobInv, JobOk
<1>2. /\ \A d \in Event : queue'[d] >= queue[d] /\ queue[d] \in Nat /\ queue'[d] \in Nat
      /\ queue'[job[w].event] > 0 /\ Indicators(t)' = Indicators(t)
  BY <1>1 DEF Indicators
<1>3. \A v \in Pods : /\ job'[v].event = job[v].event /\ job'[v].copy = job[v].copy
                      /\ job'[v].now = job[v].now /\ job'[v].found = job[v].found
  BY <1>0 DEF Others
<1>4. OnePod(t)' /\ FindsAll(t)'
  BY <1>2, <1>3 DEF TruthOf, OnePod, FindsAll, Handles
<1>5. AgainWaits(t)'
  <2>1. SUFFICES ASSUME NEW v \in Pods, Handles(v, t)', ~job'[v].owns
                 PROVE  queue'[job'[v].event] > 0
    BY DEF AgainWaits
  <2>2. CASE v = w
    BY <1>2, <1>3, <2>2
  <2>3. CASE v # w
    <3>1. queue[job[v].event] > 0 /\ job[v].event \in Event
      BY <1>0, <2>1, <2>3, HoldsHandles DEF TruthOf, AgainWaits, Others, Handles
    <3> QED
      BY <1>2, <1>3, <3>1
  <2> QED
    BY <2>2, <2>3
<1>6. Waits(t) => Waits(t)'
  BY <1>2 DEF Waits
<1>7. Current(t)'
  BY <1>1, <1>2, <1>3, <1>6 DEF TruthOf, Current, Holds, Right
<1> QED
  BY <1>4, <1>5, <1>7 DEF TruthOf

(* A pod that forgets what it does, when it holds no copy of t or the      *)
(* event comes again                                                       *)
LEMMA ForgetTruth ==
  ASSUME IInv, NEW t \in Txs, TruthOf(t), NEW w \in Pods,
         job' = [job EXCEPT ![w] = Idle], UNCHANGED <<rows, status>>,
         queue' \in [Event -> Nat], \A d \in Event : queue'[d] >= queue[d],
         Holds(w, t) => Waits(t)'
  PROVE  TruthOf(t)'
<1>0. Others(w) /\ job'[w] = Idle /\ queue \in [Event -> Nat]
  BY IdleJob DEF IInv, Types
<1>1. ~Handles(w, t)' /\ ~Holds(w, t)' /\ job'[w].now = {}
  BY <1>0, IdleType, EmptyCopy DEF Handles, Holds
<1>2. /\ Indicators(t)' = Indicators(t)
      /\ \A d \in Event : queue[d] > 0 => queue'[d] > 0
  BY <1>0 DEF Indicators
<1>3. OnePod(t)' /\ FindsAll(t)'
  BY <1>0, <1>1, <1>2 DEF TruthOf, OnePod, FindsAll, Handles, Others
<1>4. AgainWaits(t)'
  BY <1>0, <1>1, <1>2, HoldsHandles DEF TruthOf, AgainWaits, Handles, Others
<1>5. Waits(t) => Waits(t)'
  BY <1>2 DEF Waits
<1>6. Current(t)'
  <2>1. CASE Waits(t) \/ Holds(w, t)
    BY <1>5, <2>1 DEF Current
  <2>2. CASE ~Waits(t) /\ ~Holds(w, t)
    <3>1. \A v \in Pods : Holds(v, t)' <=> Holds(v, t)
      BY <1>0, <1>1, <2>2 DEF Holds, Others
    <3>2. \A v \in Pods : Holds(v, t)' => job'[v] = job[v]
      BY <1>0, <1>1 DEF Others
    <3> QED
      BY <1>2, <2>2, <3>1, <3>2 DEF TruthOf, Current, Right
  <2> QED
    BY <2>1, <2>2
<1> QED
  BY <1>3, <1>4, <1>6 DEF TruthOf

LEMMA AckTruth ==
  ASSUME IInv, NEW t \in Txs, TruthOf(t), NEW w \in Pods, Ack(w)
  PROVE  TruthOf(t)'
<1>1. /\ job' = [job EXCEPT ![w] = Idle] /\ UNCHANGED <<rows, status, queue>>
      /\ queue \in [Event -> Nat] /\ ~Holds(w, t)
  BY DEF Ack, database, IInv, Types, JobInv, JobOk, Holds
<1>2. queue' \in [Event -> Nat] /\ \A d \in Event : queue'[d] >= queue[d]
  BY <1>1
<1> QED
  BY <1>1, <1>2, ForgetTruth

LEMMA CrashTruth ==
  ASSUME IInv, NEW t \in Txs, TruthOf(t), NEW w \in Pods, Crash(w)
  PROVE  TruthOf(t)'
<1>1. /\ job' = [job EXCEPT ![w] = Idle] /\ UNCHANGED <<rows, status>>
      /\ queue \in [Event -> Nat] /\ job[w].event \in Event
      /\ queue' = IF job[w].owns THEN [queue EXCEPT ![job[w].event] = @ + 1] ELSE queue
  BY DEF Crash, Again, database, IInv, Types, JobInv, JobOk
<1>2. queue' \in [Event -> Nat] /\ \A d \in Event : queue'[d] >= queue[d]
  BY <1>1
<1>3. Holds(w, t) => Waits(t)'
  <2>1. SUFFICES ASSUME Holds(w, t) PROVE queue'[job[w].event] > 0 /\ t \in job[w].event
    BY <1>1 DEF Waits
  <2>2. Handles(w, t) /\ t \in job[w].event
    BY <2>1, HoldsHandles DEF Handles
  <2>3. CASE job[w].owns
    BY <1>1, <2>2, <2>3
  <2>4. CASE ~job[w].owns
    BY <1>1, <2>2, <2>4 DEF TruthOf, AgainWaits
  <2> QED
    BY <2>3, <2>4
<1> QED
  BY <1>1, <1>2, <1>3, ForgetTruth

LEMMA TruthStep == IInv /\ Truth /\ [Next]_vars => Truth'
<1> SUFFICES ASSUME IInv, Truth, [Next]_vars, past' \subseteq {"crash"},
                    NEW t \in Txs, t \notin met'
             PROVE  TruthOf(t)'
  BY DEF Truth
<1>0. TruthOf(t) /\ Types
  BY HistoryGrows DEF Truth, IInv
<1>1. CASE CommitGroup
  BY <1>0, <1>1, SameJobs DEF CommitGroup
<1>2. ASSUME NEW e \in Event, NEW s \in Statuses, Change(e, s) PROVE TruthOf(t)'
  BY <1>0, <1>2, ChangeTruth
<1>3. ASSUME NEW w \in Pods, NEW e \in Event, Take(w, e) PROVE TruthOf(t)'
  BY <1>0, <1>3, TakeTruth
<1>4. ASSUME NEW w \in Pods, LoadGroup(w) PROVE TruthOf(t)'
  <2>1. /\ Others(w) /\ job'[w].event = job[w].event /\ job'[w].owns = job[w].owns
        /\ job'[w].copy = job[w].copy /\ job'[w].now = job[w].now
        /\ job'[w].found = job[w].found
    BY <1>0, <1>4, LoadJob
  <2>2. t \in job'[w].now => job'[w].found = Indicators(t)
    BY <1>0, <2>1 DEF TruthOf, FindsAll
  <2>3. UNCHANGED <<queue, status, rows>>
    BY <1>4 DEF LoadGroup, database
  <2> QED
    BY <1>0, <2>1, <2>2, <2>3, SameTruth
<1>5. ASSUME NEW w \in Pods, NEW u \in Txs, Find(w, u) PROVE TruthOf(t)'
  <2>1. /\ Others(w) /\ job'[w].event = job[w].event /\ job'[w].owns = job[w].owns
        /\ job'[w].copy = job[w].copy /\ job'[w].now = {u}
        /\ job'[w].found = Indicators(u)
    BY <1>0, <1>5, FindJob
  <2>2. UNCHANGED <<queue, status, rows>>
    BY <1>5 DEF Find, database
  <2> QED
    BY <1>0, <2>1, <2>2, SameTruth
<1>6. ASSUME NEW w \in Pods, NEW u \in Txs, Write(w, u) PROVE TruthOf(t)'
  BY <1>0, <1>6, WriteTruth
<1>7. ASSUME NEW w \in Pods, Send(w) PROVE TruthOf(t)'
  <2>1. job' = [job EXCEPT ![w].at = "ack", ![w].gone = {}, ![w].fresh = {}, ![w].mail = {}]
    BY <1>7 DEF Send
  <2>2. /\ Others(w) /\ job'[w].event = job[w].event /\ job'[w].owns = job[w].owns
        /\ job'[w].copy = job[w].copy /\ job'[w].now = job[w].now
        /\ job'[w].found = job[w].found
    BY <1>0, <2>1, AckJob
  <2>3. t \in job'[w].now => job'[w].found = Indicators(t)
    BY <1>0, <2>2 DEF TruthOf, FindsAll
  <2>4. UNCHANGED <<queue, status, rows>>
    BY <1>7 DEF Send, database
  <2> QED
    BY <1>0, <2>2, <2>3, <2>4, SameTruth
<1>8. ASSUME NEW w \in Pods, Ack(w) PROVE TruthOf(t)'
  BY <1>0, <1>8, AckTruth
<1>9. ASSUME NEW w \in Pods, Redeliver(w) PROVE TruthOf(t)'
  BY <1>0, <1>9, RedeliverTruth
<1>10. ASSUME NEW w \in Pods, Crash(w) PROVE TruthOf(t)'
  BY <1>0, <1>10, CrashTruth
<1>11. ~(\E e \in Event : Lose(e)) /\ ~(\E w \in Pods : HandlerFails(w) \/ SendFails(w))
       /\ ~(\E w \in Pods, u \in Txs : WriteFails(w, u))
  <2>1. "lost" \notin past' /\ "failed" \notin past'
    OBVIOUS
  <2> QED
    BY <2>1 DEF Lose, HandlerFails, SendFails, WriteFails
<1>12. CASE UNCHANGED vars
  BY <1>0, <1>12, SameJobs DEF vars
<1> QED
  BY <1>1, <1>2, <1>3, <1>4, <1>5, <1>6, <1>7, <1>8, <1>9, <1>10, <1>11, <1>12
     DEF Next, Process, Fault

LEMMA TruthInit == Init => Truth
<1> SUFFICES ASSUME Init, NEW t \in Txs PROVE TruthOf(t)
  BY DEF Truth
<1>1. \A w \in Pods : job[w] = Idle
  BY DEF Init
<1>2. Waits(t)
  <2>1. Txs \in Event /\ t \in Txs /\ queue[Txs] = 1
    BY DEF Init, Event
  <2> QED
    BY <2>1 DEF Waits
<1> QED
  BY <1>1, <1>2, IdleType DEF TruthOf, OnePod, AgainWaits, FindsAll, Current, Handles

(* A transaction at rest has one indicator, of its status, whatever the    *)
(* order in which its events were handled and whoever died in between.     *)
THEOREM IndicatorHolds == Spec => []IndicatorFollowsStatus
<1>1. Spec => [](IInv /\ Truth)
  <2>1. Init => IInv /\ Truth
    BY InvInit, TruthInit
  <2>2. IInv /\ Truth /\ [Next]_vars => (IInv /\ Truth)'
    BY InvStep, TruthStep
  <2> QED
    BY <2>1, <2>2, PTL DEF Spec
<1>2. IInv /\ Truth => IndicatorFollowsStatus
  <2>1. SUFFICES ASSUME IInv, Truth, past \subseteq {"crash"}, NEW t \in Txs, Rested(t), t \notin met
                 PROVE  \E r \in rows : Indicators(t) = {r} /\ r.shows = status[t]
    BY DEF IndicatorFollowsStatus
  <2>2. TruthOf(t)
    BY <2>1 DEF Truth
  <2>3. ~Waits(t) /\ \A w \in Pods : ~Holds(w, t)
    BY <2>1, HoldsHandles DEF Rested, Waits
  <2> QED
    BY <2>2, <2>3 DEF TruthOf, Current, Right
<1> QED
  BY <1>1, <1>2, PTL
-----------------------------------------------------------------------------
(* Clients are told of all that is stored.  What clients show of t, or will *)
(* show when the pod that handles t has sent what it collected, is what is  *)
(* stored; a pod collects only rows of what it handles.                     *)

Of(t, S) == {r \in S : r.tx = t}

TellOf(t) ==
  /\ \A w \in Pods : Handles(w, t) => Of(t, Told(w)) = Indicators(t)
  /\ (\A w \in Pods : ~Handles(w, t)) => Of(t, shown) = Indicators(t)
Tell == past = {} => \A t \in Txs : t \notin met => TellOf(t)

LEMMA CollectedRows ==
  ASSUME IInv, NEW w \in Pods, NEW t
  PROVE  \A r \in job[w].gone \cup job[w].fresh :
           r.tx = t => Handles(w, t) /\ ~Holds(w, t)
BY DEF IInv, JobInv, JobOk, Handles, Holds

LEMMA SameTell ==
  ASSUME NEW t, TellOf(t), UNCHANGED <<rows, shown>>,
         \A w \in Pods : /\ job'[w].event = job[w].event
                         /\ job'[w].gone = job[w].gone /\ job'[w].fresh = job[w].fresh
  PROVE  TellOf(t)'
<1>1. /\ \A w \in Pods : Handles(w, t)' = Handles(w, t) /\ Told(w)' = Told(w)
      /\ Indicators(t)' = Indicators(t)
  BY DEF Handles, Told, Indicators
<1> QED
  BY <1>1 DEF TellOf, Of

LEMMA TakeTell ==
  ASSUME IInv, NEW t \in Txs, TellOf(t), NEW w \in Pods, NEW e \in Event, Take(w, e),
         t \notin met'
  PROVE  TellOf(t)'
<1>0. /\ Others(w) /\ job'[w].event = e /\ job'[w].gone = {} /\ job'[w].fresh = {}
  BY TakeJob DEF IInv
<1>1. UNCHANGED <<rows, shown>> /\ job[w].at = "idle"
  BY DEF Take, database, told
<1>2. ~Handles(w, t) /\ Indicators(t)' = Indicators(t)
  BY <1>1 DEF IInv, JobInv, JobOk, Handles, Indicators
<1>3. t \in e => \A v \in Pods : ~Handles(v, t)
  BY DEF Take
<1>4. \A v \in Pods : v # w => (Handles(v, t)' <=> Handles(v, t)) /\ Told(v)' = Told(v)
  BY <1>0, <1>1 DEF Others, Handles, Told
<1>5. (Handles(w, t)' <=> t \in e) /\ Told(w)' = shown
  BY <1>0, <1>1 DEF Handles, Told
<1>6. CASE t \in e
  <2>1. \A v \in Pods : Handles(v, t)' => v = w
    BY <1>3, <1>4, <1>6
  <2>2. Of(t, shown) = Indicators(t)
    BY <1>3, <1>6 DEF TellOf
  <2> QED
    BY <1>2, <1>5, <1>6, <2>1, <2>2 DEF TellOf, Of
<1>7. CASE t \notin e
  BY <1>1, <1>2, <1>4, <1>5, <1>7 DEF TellOf, Of
<1> QED
  BY <1>6, <1>7

LEMMA WriteTell ==
  ASSUME IInv, NEW t \in Txs, TruthOf(t), TellOf(t), NEW w \in Pods, NEW u \in Txs, Write(w, u)
  PROVE  TellOf(t)'
<1>0. /\ job[w].at = "write" /\ u \in job[w].now
      /\ rows' = (rows \ job[w].found) \cup {NewRow(w, u)}
      /\ Collects(w, u, job[w].found, {NewRow(w, u)}, MailAfter(job[w], u))
      /\ UNCHANGED shown
  BY DEF Write, told
<1>1. /\ u \in DOMAIN job[w].copy /\ \A r \in job[w].found : r.tx = u
      /\ NewRow(w, u) \in Row /\ NewRow(w, u).tx = u
  BY <1>0, WriteJob
<1>2. /\ MailAfter(job[w], u) \in Mails /\ job[w].found \in RowSets
      /\ {NewRow(w, u)} \in RowSets /\ Types
  BY <1>1, TierMails, JobFields DEF IInv, RowSets, Types
<1>3. /\ Others(w) /\ job'[w].event = job[w].event
      /\ job'[w].gone = job[w].gone \cup job[w].found
      /\ job'[w].fresh = job[w].fresh \cup {NewRow(w, u)}
  BY <1>0, <1>2, CollectsJob
<1>4. \A v \in Pods : /\ Handles(v, t)' <=> Handles(v, t)
                      /\ v # w => Told(v)' = Told(v)
  BY <1>0, <1>3 DEF Handles, Others, Told
<1>5. Told(w)' = (shown \ (job[w].gone \cup job[w].found)) \cup (job[w].fresh \cup {NewRow(w, u)})
  BY <1>0, <1>3 DEF Told
<1>6. CASE u # t
  <2>1. Indicators(t)' = Indicators(t)
    BY <1>0, <1>1, <1>6 DEF Indicators
  <2>2. Of(t, Told(w)') = Of(t, Told(w))
    BY <1>1, <1>5, <1>6 DEF Told, Of
  <2>3. ASSUME NEW v \in Pods, Handles(v, t)'
        PROVE  Of(t, Told(v)') = Indicators(t)'
    <3>1. Handles(v, t) /\ Of(t, Told(v)) = Indicators(t)
      BY <1>4, <2>3 DEF TellOf
    <3>2. CASE v = w
      BY <2>1, <2>2, <3>1, <3>2
    <3>3. CASE v # w
      BY <1>4, <2>1, <3>1, <3>3
    <3> QED
      BY <3>2, <3>3
  <2>4. (\A v \in Pods : ~Handles(v, t)') => Of(t, shown') = Indicators(t)'
    BY <1>0, <1>4, <2>1 DEF TellOf
  <2> QED
    BY <2>3, <2>4 DEF TellOf, Of
<1>7. CASE u = t
  <2>1. Handles(w, t) /\ Holds(w, t)
    BY <1>1, <1>7, HoldsHandles DEF Holds
  <2>2. \A v \in Pods : Handles(v, t) => v = w
    BY <2>1 DEF TruthOf, OnePod
  <2>3. job[w].found = Indicators(t)
    BY <1>0, <1>7 DEF TruthOf, FindsAll
  <2>4. Of(t, Told(w)) = Indicators(t)
    BY <2>1 DEF TellOf
  <2>5. \A r \in job[w].gone \cup job[w].fresh : r.tx # t
    BY <2>1, CollectedRows
  <2>6. Of(t, shown) = Indicators(t)
    BY <2>4, <2>5 DEF Of, Told
  <2>7. Of(t, Told(w)') = {NewRow(w, t)}
    BY <1>1, <1>5, <1>7, <2>3, <2>5, <2>6 DEF Of
  <2>8. Indicators(t)' = {NewRow(w, t)}
    BY <1>0, <1>1, <1>7, <2>3 DEF Indicators
  <2>9. Handles(w, t)' /\ \A v \in Pods : Handles(v, t)' => v = w
    BY <1>4, <2>1, <2>2
  <2>10. Of(t, Told(w)') = Indicators(t)'
    BY <2>7, <2>8
  <2> QED
    BY <2>9, <2>10 DEF TellOf, Of
<1> QED
  BY <1>6, <1>7

LEMMA SendTell ==
  ASSUME IInv, NEW t \in Txs, TruthOf(t), TellOf(t), NEW w \in Pods, Send(w)
  PROVE  TellOf(t)'
<1>0. /\ job' = [job EXCEPT ![w].at = "ack", ![w].gone = {}, ![w].fresh = {}, ![w].mail = {}]
      /\ shown' = (shown \ job[w].gone) \cup job[w].fresh /\ UNCHANGED rows
  BY DEF Send, Told, database
<1>1. /\ Others(w) /\ job'[w].event = job[w].event /\ job'[w].gone = {} /\ job'[w].fresh = {}
  BY <1>0, AckJob DEF IInv
<1>2. /\ \A v \in Pods : Handles(v, t)' <=> Handles(v, t)
      /\ Indicators(t)' = Indicators(t)
  BY <1>0, <1>1 DEF Handles, Others, Indicators
<1>3. Told(w)' = shown' /\ shown' = Told(w)
  BY <1>0, <1>1 DEF Told
<1>4. CASE Handles(w, t)
  <2>1. \A v \in Pods : Handles(v, t) => v = w
    BY <1>4 DEF TruthOf, OnePod
  <2> QED
    BY <1>2, <1>3, <1>4, <2>1 DEF TellOf, Of
<1>5. CASE ~Handles(w, t)
  <2>1. \A r \in job[w].gone \cup job[w].fresh : r.tx # t
    BY <1>5, CollectedRows
  <2>2. Of(t, shown') = Of(t, shown)
    BY <1>0, <2>1 DEF Of
  <2>3. ASSUME NEW v \in Pods, Handles(v, t)
        PROVE  Of(t, Told(v)') = Of(t, Told(v))
    <3>1. job'[v] = job[v]
      BY <1>1, <1>5, <2>3 DEF Others
    <3> QED
      BY <1>0, <2>1, <3>1 DEF Of, Told
  <2> QED
    BY <1>2, <2>2, <2>3 DEF TellOf, Of
<1> QED
  BY <1>4, <1>5

LEMMA AckTell ==
  ASSUME IInv, NEW t \in Txs, TruthOf(t), TellOf(t), NEW w \in Pods, Ack(w)
  PROVE  TellOf(t)'
<1>0. /\ job' = [job EXCEPT ![w] = Idle] /\ UNCHANGED <<rows, shown>>
      /\ job[w].gone = {} /\ job[w].fresh = {}
  BY DEF Ack, database, told, IInv, JobInv, JobOk
<1>1. Others(w) /\ job'[w] = Idle
  BY <1>0, IdleJob DEF IInv
<1>2. /\ ~Handles(w, t)'
      /\ \A v \in Pods : v # w => (Handles(v, t)' <=> Handles(v, t)) /\ Told(v)' = Told(v)
      /\ Indicators(t)' = Indicators(t)
  BY <1>0, <1>1, IdleType DEF Handles, Others, Told, Indicators
<1>3. Told(w) = shown
  BY <1>0 DEF Told
<1>4. CASE Handles(w, t)
  <2>1. \A v \in Pods : Handles(v, t) => v = w
    BY <1>4 DEF TruthOf, OnePod
  <2> QED
    BY <1>0, <1>2, <1>3, <1>4, <2>1 DEF TellOf, Of
<1>5. CASE ~Handles(w, t)
  BY <1>0, <1>2, <1>5 DEF TellOf, Of
<1> QED
  BY <1>4, <1>5

LEMMA TellStep == IInv /\ Truth /\ Tell /\ [Next]_vars => Tell'
<1> SUFFICES ASSUME IInv, Truth, Tell, [Next]_vars, past' = {}, NEW t \in Txs, t \notin met'
             PROVE  TellOf(t)'
  BY DEF Tell
<1>0. TruthOf(t) /\ TellOf(t) /\ Types
  BY HistoryGrows DEF Truth, Tell, IInv
<1>1. CASE CommitGroup
  BY <1>0, <1>1, SameTell DEF CommitGroup, told
<1>2. ASSUME NEW e \in Event, NEW s \in Statuses, Change(e, s) PROVE TellOf(t)'
  BY <1>0, <1>2, SameTell DEF Change, told
<1>3. ASSUME NEW w \in Pods, NEW e \in Event, Take(w, e) PROVE TellOf(t)'
  BY <1>0, <1>3, TakeTell
<1>4. ASSUME NEW w \in Pods, LoadGroup(w) PROVE TellOf(t)'
  <2>1. /\ Others(w) /\ job'[w].event = job[w].event
        /\ job'[w].gone = job[w].gone /\ job'[w].fresh = job[w].fresh
    BY <1>0, <1>4, LoadJob
  <2>2. UNCHANGED <<rows, shown>>
    BY <1>4 DEF LoadGroup, database, told
  <2> QED
    BY <1>0, <2>1, <2>2, SameTell DEF Others
<1>5. ASSUME NEW w \in Pods, NEW u \in Txs, Find(w, u) PROVE TellOf(t)'
  <2>1. /\ Others(w) /\ job'[w].event = job[w].event
        /\ job'[w].gone = job[w].gone /\ job'[w].fresh = job[w].fresh
    BY <1>0, <1>5, FindJob
  <2>2. UNCHANGED <<rows, shown>>
    BY <1>5 DEF Find, database, told
  <2> QED
    BY <1>0, <2>1, <2>2, SameTell DEF Others
<1>6. ASSUME NEW w \in Pods, NEW u \in Txs, Write(w, u) PROVE TellOf(t)'
  BY <1>0, <1>6, WriteTell
<1>7. ASSUME NEW w \in Pods, Send(w) PROVE TellOf(t)'
  BY <1>0, <1>7, SendTell
<1>8. ASSUME NEW w \in Pods, Ack(w) PROVE TellOf(t)'
  BY <1>0, <1>8, AckTell
<1>9. ASSUME NEW w \in Pods, Redeliver(w) PROVE TellOf(t)'
  <2>1. /\ Others(w) /\ job'[w].event = job[w].event
        /\ job'[w].gone = job[w].gone /\ job'[w].fresh = job[w].fresh
    BY <1>0, <1>9, RedeliverJob
  <2>2. UNCHANGED <<rows, shown>>
    BY <1>9 DEF Redeliver, database, told
  <2> QED
    BY <1>0, <2>1, <2>2, SameTell DEF Others
<1>10. ~(\E e \in Event : Lose(e))
       /\ ~(\E w \in Pods : HandlerFails(w) \/ SendFails(w) \/ Crash(w))
       /\ ~(\E w \in Pods, u \in Txs : WriteFails(w, u))
  <2>1. "lost" \notin past' /\ "failed" \notin past' /\ "crash" \notin past'
    OBVIOUS
  <2> QED
    BY <2>1 DEF Lose, HandlerFails, SendFails, WriteFails, Crash
<1>11. CASE UNCHANGED vars
  BY <1>0, <1>11, SameTell DEF vars
<1> QED
  BY <1>1, <1>2, <1>3, <1>4, <1>5, <1>6, <1>7, <1>8, <1>9, <1>10, <1>11
     DEF Next, Process, Fault

LEMMA TellInit == Init => Tell
<1> SUFFICES ASSUME Init, NEW t \in Txs PROVE TellOf(t)
  BY DEF Tell
<1>1. \A w \in Pods : ~Handles(w, t)
  BY IdleType DEF Init, Handles
<1>2. Of(t, shown) = Indicators(t)
  BY DEF Init, Of, Indicators
<1> QED
  BY <1>1, <1>2 DEF TellOf

(* As long as nothing fails, what clients show of a transaction at rest is *)
(* what is stored: each deletion and each new indicator is sent.           *)
THEOREM ClientsHold == Spec => []ClientsSeeIndicators
<1>1. Spec => [](IInv /\ Truth /\ Tell)
  <2>1. Init => IInv /\ Truth /\ Tell
    BY InvInit, TruthInit, TellInit
  <2>2. IInv /\ Truth /\ Tell /\ [Next]_vars => (IInv /\ Truth /\ Tell)'
    BY InvStep, TruthStep, TellStep
  <2> QED
    BY <2>1, <2>2, PTL DEF Spec
<1>2. IInv /\ Truth /\ Tell => ClientsSeeIndicators
  BY DEF ClientsSeeIndicators, Tell, TellOf, Of, Rested
<1> QED
  BY <1>1, <1>2, PTL
-----------------------------------------------------------------------------
(* The mails of a stage.  Somebody still owes the mail about a transaction *)
(* that nobody was mailed about: an event waits, or a pod that would have  *)
(* its event delivered again if it died knows what to mail.  A transaction *)
(* whose group is not yet seen, or that was canceled, is mailed about by   *)
(* itself; the members of a group that agree are mailed about together, by *)
(* whoever handles any of them after the last one changed.                 *)

Copied(w, t) ==
  job[w].owns /\ t \in DOMAIN job[w].copy /\ job[w].copy[t] = status[t]
WillMail(w, t) == job[w].owns /\ <<t, status[t]>> \in job[w].mail

Alone(w, t) ==
  \/ /\ Copied(w, t)
     /\ status[t] = "CANCELED" \/ (job[w].at # "group" /\ job[w].peers = <<>>)
  \/ WillMail(w, t) /\ t \in job[w].event
Together(w, t) ==
  \/ /\ \E u \in Txs : Copied(w, u)
     /\ job[w].at = "group" \/ job[w].peers = status
  \/ WillMail(w, t)

AnyWaits == \E e \in Event : queue[e] > 0
Due(t) == Waits(t) \/ \E w \in Pods : Alone(w, t)
DueTogether(t) == AnyWaits \/ \E w \in Pods : Together(w, t)

(* The group has come to one stage. *)
Agreed ==
  /\ \A t \in Txs : status[t] \notin {"CANCELED", "ARCHIVED"}
  /\ \A t, o \in Txs : Tier(status[t]) = Tier(status[o])

IsMailed(t) == <<t, status[t]>> \in mailed
Owed(t) ==
  Mailable(status[t]) /\ ~IsMailed(t) =>
    /\ ~grouped \/ status[t] = "CANCELED" => Due(t)
    /\ grouped /\ Agreed => Due(t) \/ DueTogether(t)

(* Pods know of a group only what is committed, and have mailed what they  *)
(* collected before they acknowledge.                                      *)
PodOk(w) ==
  /\ job[w].at = "group" \/ job[w].peers # <<>> => grouped
  /\ job[w].at = "ack" => job[w].mail = {}

StageInv ==
  /\ \A w \in Pods : PodOk(w)
  /\ past \subseteq {"crash"} => \A t \in Txs : Owed(t)

(* A pod does something, or forgets what it does; what it knew to mail is  *)
(* mailed, still known, or comes again.                                    *)
LEMMA SameOwed ==
  ASSUME Types, NEW t \in Txs, Owed(t), NEW w \in Pods, Others(w),
         UNCHANGED <<status, grouped>>, mailed \subseteq mailed',
         \A e \in Event : queue[e] > 0 => queue'[e] > 0,
         Mailable(status[t]), Alone(w, t) => Alone(w, t)' \/ Waits(t)' \/ IsMailed(t)',
         Agreed /\ Together(w, t) => Together(w, t)' \/ AnyWaits' \/ IsMailed(t)'
  PROVE  Owed(t)'
<1> SUFFICES ASSUME ~IsMailed(t)'
             PROVE  /\ ~grouped \/ status[t] = "CANCELED" => Due(t)'
                    /\ grouped /\ Agreed => Due(t)' \/ DueTogether(t)'
  BY DEF Owed, Agreed
<1>1. ~IsMailed(t) /\ Mailable(status[t])
  BY DEF IsMailed
<1>2. \A v \in Pods : v # w => (Alone(v, t) => Alone(v, t)') /\ (Together(v, t) => Together(v, t)')
  BY DEF Others, Alone, Together, Copied, WillMail
<1>3. Waits(t) => Waits(t)'
  BY DEF Waits
<1>4. AnyWaits => AnyWaits'
  BY DEF AnyWaits
<1>5. Due(t) => Due(t)'
  BY <1>2, <1>3 DEF Due
<1>6. Agreed /\ DueTogether(t) => DueTogether(t)'
  BY <1>2, <1>4 DEF DueTogether
<1> QED
  BY <1>1, <1>5, <1>6 DEF Owed

LEMMA NotMailable ==
  ASSUME NEW t \in Txs, ~Mailable(status'[t])
  PROVE  Owed(t)'
BY DEF Owed

(* A pod that keeps its copies and what it will mail. *)
LEMMA KeptOwed ==
  ASSUME Types, NEW t \in Txs, Owed(t), NEW w \in Pods, Others(w),
         UNCHANGED <<status, grouped, mailed, queue>>,
         job'[w].owns = job[w].owns, job'[w].event = job[w].event,
         job'[w].copy = job[w].copy, job'[w].mail = job[w].mail,
         job[w].at # "group" => job'[w].peers = job[w].peers,
         job[w].at = "group" => job'[w].peers = status,
         job'[w].at # "group"
  PROVE  Owed(t)'
<1>1. Alone(w, t) => Alone(w, t)'
  BY DEF Alone, Copied, WillMail
<1>2. Together(w, t) => Together(w, t)'
  BY DEF Together, Copied, WillMail
<1>3. CASE Mailable(status[t])
  BY <1>1, <1>2, <1>3, SameOwed
<1>4. CASE ~Mailable(status[t])
  BY <1>4, NotMailable
<1> QED
  BY <1>3, <1>4

LEMMA WriteOwed ==
  ASSUME IInv, NEW t \in Txs, Owed(t), NEW w \in Pods, NEW u \in Txs, Write(w, u)
  PROVE  Owed(t)'
<1> DEFINE mail == MailAfter(job[w], u)
<1>1. /\ job[w].at = "write" /\ u \in job[w].now
      /\ Collects(w, u, job[w].found, {NewRow(w, u)}, mail)
      /\ UNCHANGED <<status, grouped, queue, shown, mailed>>
  BY DEF Write, told
<1>2. u \in DOMAIN job[w].copy /\ {NewRow(w, u)} \in RowSets /\ job[w].found \in RowSets
  BY <1>1, WriteJob, JobFields DEF IInv, RowSets, Types
<1>3. mail \in Mails
  BY <1>2, TierMails DEF IInv
<1>4. MailsAlone(job[w], u) => <<u, job[w].copy[u]>> \in mail
  BY DEF MailAfter
<1>5. MailsGroup(job[w], u) => GroupMail(job[w].peers) \subseteq mail
  BY DEF MailAfter
<1> HIDE DEF mail
<1>6. /\ Others(w) /\ job'[w].event = job[w].event /\ job'[w].owns = job[w].owns
      /\ DOMAIN job'[w].copy = DOMAIN job[w].copy \ {u}
      /\ \A x \in DOMAIN job[w].copy \ {u} : job'[w].copy[x] = job[w].copy[x]
      /\ job'[w].mail = job[w].mail \cup mail
      /\ DOMAIN job'[w].copy # {} => job'[w].peers = job[w].peers /\ job'[w].at = "find"
  BY <1>1, <1>2, <1>3, CollectsJob DEF IInv
<1>7. CASE ~Mailable(status[t])
  BY <1>1, <1>7, NotMailable
<1>8. CASE Mailable(status[t])
  <2>1. ASSUME Alone(w, t) PROVE Alone(w, t)'
    <3>1. CASE WillMail(w, t) /\ t \in job[w].event
      BY <1>1, <1>6, <3>1 DEF Alone, WillMail
    <3>2. CASE Copied(w, t) /\ (status[t] = "CANCELED" \/ job[w].peers = <<>>)
      <4>1. CASE t = u
        <5>1. MailsAlone(job[w], u)
          BY <1>8, <3>2, <4>1 DEF MailsAlone, Copied
        <5>2. <<t, status[t]>> \in job'[w].mail
          BY <1>4, <1>6, <3>2, <4>1, <5>1 DEF Copied
        <5>3. t \in job[w].event
          BY <1>1, <4>1, WriteJob
        <5> QED
          BY <1>1, <1>6, <3>2, <5>2, <5>3 DEF Alone, WillMail, Copied
      <4>2. CASE t # u
        <5>1. t \in DOMAIN job[w].copy \ {u}
          BY <3>2, <4>2 DEF Copied
        <5> QED
          BY <1>1, <1>6, <3>2, <5>1 DEF Alone, Copied
      <4> QED
        BY <4>1, <4>2
    <3> QED
      BY <1>1, <2>1, <3>1, <3>2 DEF Alone
  <2>2. ASSUME Agreed, Together(w, t) PROVE Together(w, t)'
    <3>1. CASE WillMail(w, t)
      BY <1>1, <1>6, <3>1 DEF Together, WillMail
    <3>2. ASSUME NEW x \in Txs, Copied(w, x), job[w].peers = status PROVE Together(w, t)'
      <4>1. CASE x = u
        <5>1. status \in [Txs -> Statuses] /\ status # <<>>
          BY DEF IInv, Types
        <5>2. IsLast(u, status[u], status)
          <6>1. \A o \in Txs : Tier(status[o]) = Tier(status[u])
            BY <2>2 DEF Agreed
          <6>2. Tier(status[u]) \in Nat
            BY DEF Tier
          <6> QED
            BY <6>1, <6>2 DEF IsLast
        <5>3. MailsGroup(job[w], u)
          BY <2>2, <3>2, <4>1, <5>1, <5>2 DEF MailsGroup, Copied, Agreed, HasMailType
        <5>4. <<t, status[t]>> \in GroupMail(status)
          BY <1>8, <2>2 DEF GroupMail, Agreed
        <5>5. <<t, status[t]>> \in job'[w].mail
          BY <1>5, <1>6, <3>2, <5>3, <5>4
        <5> QED
          BY <1>1, <1>6, <3>2, <5>5 DEF Together, WillMail, Copied
      <4>2. CASE x # u
        <5>1. x \in DOMAIN job[w].copy \ {u}
          BY <3>2, <4>2 DEF Copied
        <5> QED
          BY <1>1, <1>6, <3>2, <5>1 DEF Together, Copied
      <4> QED
        BY <4>1, <4>2
    <3> QED
      BY <1>1, <2>2, <3>1, <3>2 DEF Together
  <2> QED
    BY <1>1, <1>6, <1>8, <2>1, <2>2, SameOwed DEF IInv
<1> QED
  BY <1>7, <1>8
LEMMA SendOwed ==
  ASSUME IInv, NEW t \in Txs, Owed(t), NEW w \in Pods, Send(w)
  PROVE  Owed(t)'
<1>1. /\ job[w].at = "send" /\ mailed' = mailed \cup job[w].mail
      /\ UNCHANGED <<status, grouped, queue>>
      /\ job' = [job EXCEPT ![w].at = "ack", ![w].gone = {}, ![w].fresh = {}, ![w].mail = {}]
  BY DEF Send, database
<1>2. Others(w) /\ DOMAIN job[w].copy = {}
  BY <1>1, AckJob DEF IInv, JobInv, JobOk
<1>3. \A u \in Txs : ~Copied(w, u)
  BY <1>2 DEF Copied
<1>4. WillMail(w, t) => IsMailed(t)'
  BY <1>1 DEF WillMail, IsMailed
<1>5. CASE ~Mailable(status[t])
  BY <1>1, <1>5, NotMailable
<1>6. CASE Mailable(status[t])
  BY <1>1, <1>2, <1>3, <1>4, <1>6, SameOwed DEF IInv, Alone, Together
<1> QED
  BY <1>5, <1>6

LEMMA AckOwed ==
  ASSUME IInv, NEW t \in Txs, Owed(t), NEW w \in Pods, Ack(w), PodOk(w)
  PROVE  Owed(t)'
<1>1. job[w].at = "ack" /\ UNCHANGED <<status, grouped, queue, mailed>>
      /\ job' = [job EXCEPT ![w] = Idle]
  BY DEF Ack, database, told
<1>2. Others(w) /\ DOMAIN job[w].copy = {} /\ job[w].mail = {}
  BY <1>1, IdleJob DEF IInv, JobInv, JobOk, PodOk
<1>3. ~Alone(w, t) /\ ~Together(w, t)
  BY <1>2 DEF Alone, Together, Copied, WillMail
<1>4. CASE ~Mailable(status[t])
  BY <1>1, <1>4, NotMailable
<1>5. CASE Mailable(status[t])
  BY <1>1, <1>2, <1>3, <1>5, SameOwed DEF IInv
<1> QED
  BY <1>4, <1>5

(* JetStream delivers the event again. *)
LEMMA AgainOwed ==
  ASSUME IInv, NEW t \in Txs, Owed(t), NEW w \in Pods, Redeliver(w) \/ Crash(w)
  PROVE  Owed(t)'
<1>1. /\ Others(w) /\ UNCHANGED <<status, grouped, mailed>>
      /\ queue' = Again(w)
  BY RedeliverJob, IdleJob DEF IInv, Redeliver, Crash, database, told
<1>2. /\ queue \in [Event -> Nat] /\ JobOk(job[w])
  BY DEF IInv, Types, JobInv
<1>3. job[w].owns => job[w].event \in Event
  BY <1>2 DEF JobOk
<1>4. \A e \in Event : queue[e] > 0 => queue'[e] > 0
  BY <1>1, <1>2, <1>3 DEF Again
<1>5. job[w].owns => queue'[job[w].event] > 0
  BY <1>1, <1>2, <1>3 DEF Again
<1>6. Alone(w, t) => Waits(t)'
  <2>1. Alone(w, t) => job[w].owns /\ t \in job[w].event
    BY <1>2 DEF Alone, Copied, WillMail, JobOk
  <2> QED
    BY <1>3, <1>5, <2>1 DEF Waits
<1>7. Together(w, t) => AnyWaits'
  BY <1>3, <1>5 DEF Together, Copied, WillMail, AnyWaits
<1>8. CASE ~Mailable(status[t])
  BY <1>1, <1>8, NotMailable
<1>9. CASE Mailable(status[t])
  BY <1>1, <1>4, <1>6, <1>7, <1>9, SameOwed DEF IInv
<1> QED
  BY <1>8, <1>9

(* Whoever takes an event knows of its transactions what is stored. *)
LEMMA TakeOwed ==
  ASSUME IInv, NEW t \in Txs, Owed(t), NEW w \in Pods, NEW e \in Event, Take(w, e)
  PROVE  Owed(t)'
<1>1. /\ job[w].at = "idle" /\ queue' = [queue EXCEPT ![e] = @ - 1]
      /\ UNCHANGED <<status, grouped, mailed>>
  BY DEF Take, database, told
<1>2. /\ Others(w) /\ job'[w].event = e /\ job'[w].owns
      /\ job'[w].copy = [x \in e |-> status[x]]
      /\ job'[w].peers = <<>>
      /\ job'[w].at = IF grouped THEN "group" ELSE "find"
  BY TakeJob DEF IInv
<1>3. \A u \in e : Copied(w, u)'
  BY <1>1, <1>2 DEF Copied
<1>4. ~Alone(w, t) /\ ~Together(w, t)
  BY <1>1 DEF IInv, JobInv, JobOk, Alone, Together, Copied, WillMail
<1>5. \A v \in Pods : v # w => (Alone(v, t) => Alone(v, t)') /\ (Together(v, t) => Together(v, t)')
  BY <1>1, <1>2 DEF Others, Alone, Together, Copied, WillMail
<1>6. queue \in [Event -> Nat] /\ \A d \in Event : d # e => queue'[d] = queue[d]
  BY <1>1 DEF IInv, Types
<1>7. ASSUME Due(t), ~grouped \/ status[t] = "CANCELED" PROVE Due(t)'
  <2>1. CASE t \in e
    BY <1>1, <1>2, <1>3, <1>7, <2>1 DEF Due, Alone
  <2>2. CASE t \notin e
    BY <1>4, <1>5, <1>6, <1>7, <2>2 DEF Due, Waits
  <2> QED
    BY <2>1, <2>2
<1>8. grouped => DueTogether(t)'
  <2>1. PICK u \in Txs : u \in e
    BY DEF Event
  <2> QED
    BY <1>2, <1>3, <2>1 DEF DueTogether, Together
<1> QED
  BY <1>1, <1>7, <1>8 DEF Owed, IsMailed, Agreed

(* Whoever changes a status publishes it. *)
LEMMA ChangeOwed ==
  ASSUME IInv, NEW t \in Txs, Owed(t), NEW e \in Event, NEW s \in Statuses, Change(e, s)
  PROVE  Owed(t)'
<1>1. /\ status' = [x \in Txs |-> IF x \in e THEN s ELSE status[x]]
      /\ queue' = [queue EXCEPT ![e] = @ + 1] /\ UNCHANGED <<grouped, job, mailed>>
  BY DEF Change, told
<1>2. queue \in [Event -> Nat]
  BY DEF IInv, Types
<1>3. queue'[e] > 0 /\ \A d \in Event : queue[d] > 0 => queue'[d] > 0
  BY <1>1, <1>2
<1>4. AnyWaits'
  BY <1>3 DEF AnyWaits
<1>5. CASE t \in e
  BY <1>3, <1>4, <1>5 DEF Owed, Due, Waits, DueTogether
<1>6. CASE t \notin e
  <2>1. status'[t] = status[t]
    BY <1>1, <1>6
  <2>2. Due(t) => Due(t)'
    BY <1>1, <1>3, <2>1 DEF Due, Waits, Alone, Copied, WillMail
  <2> QED
    BY <1>1, <1>4, <2>1, <2>2 DEF Owed, IsMailed, DueTogether
<1> QED
  BY <1>5, <1>6

LEMMA CommitOwed ==
  ASSUME IInv, NEW t \in Txs, Owed(t), CommitGroup
  PROVE  Owed(t)'
<1>1. ~grouped /\ UNCHANGED <<status, queue, job, mailed>>
  BY DEF CommitGroup, told
<1>2. Due(t) => Due(t)'
  BY <1>1 DEF Due, Waits, Alone, Copied, WillMail
<1> QED
  BY <1>1, <1>2 DEF Owed, IsMailed

LEMMA StutterOwed ==
  ASSUME NEW t \in Txs, Owed(t), UNCHANGED vars
  PROVE  Owed(t)'
BY DEF vars, Owed, IsMailed, Due, DueTogether, Waits, AnyWaits, Agreed, Alone, Together,
       Copied, WillMail
(* What a pod knows of the group and what is left to mail. *)
LEMMA PodStep ==
  ASSUME \A w \in Pods : PodOk(w), NEW w \in Pods, Others(w), UNCHANGED grouped,
         job'[w].at = "group" \/ job'[w].peers # <<>> => grouped,
         job'[w].at = "ack" => job'[w].mail = {}
  PROVE  \A v \in Pods : PodOk(v)'
BY DEF PodOk, Others

LEMMA PodsOk ==
  ASSUME IInv, \A w \in Pods : PodOk(w), [Next]_vars
  PROVE  \A w \in Pods : PodOk(w)'
<1>1. Types
  BY DEF IInv
<1>2. CASE CommitGroup \/ UNCHANGED vars \/ (\E e \in Event : Lose(e))
           \/ \E e \in Event, s \in Statuses : Change(e, s)
  <2>1. job' = job /\ (grouped => grouped')
    BY <1>2 DEF CommitGroup, vars, Lose, Change, database
  <2> QED
    BY <2>1 DEF PodOk
<1>3. ASSUME NEW w \in Pods, NEW e \in Event, Take(w, e) PROVE \A v \in Pods : PodOk(v)'
  <2>1. /\ Others(w) /\ job'[w].peers = <<>> /\ job'[w].at = IF grouped THEN "group" ELSE "find"
    BY <1>1, <1>3, TakeJob
  <2> QED
    BY <1>3, <2>1, PodStep DEF Take, database
<1>4. ASSUME NEW w \in Pods, LoadGroup(w) PROVE \A v \in Pods : PodOk(v)'
  <2>1. Others(w) /\ job'[w].at = "find" /\ job[w].at = "group"
    BY <1>1, <1>4, LoadJob DEF LoadGroup
  <2> QED
    BY <1>4, <2>1, PodStep DEF LoadGroup, database, PodOk
<1>5. ASSUME NEW w \in Pods, NEW u \in Txs, Find(w, u) PROVE \A v \in Pods : PodOk(v)'
  <2>1. Others(w) /\ job'[w].at = "write" /\ job'[w].peers = job[w].peers
    BY <1>1, <1>5, FindJob
  <2> QED
    BY <1>5, <2>1, PodStep DEF Find, database, PodOk
<1>6. ASSUME NEW w \in Pods, NEW u \in Txs, Write(w, u) \/ WriteFails(w, u)
      PROVE  \A v \in Pods : PodOk(v)'
  <2>1. job[w].at = "write" /\ u \in job[w].now /\ UNCHANGED grouped
    BY <1>6 DEF Write, WriteFails, database
  <2>2. u \in DOMAIN job[w].copy /\ {NewRow(w, u)} \in RowSets /\ job[w].found \in RowSets
        /\ {} \in RowSets
    BY <1>1, <2>1, WriteJob, JobFields DEF RowSets, Types
  <2>3. \E gone \in RowSets, fresh \in RowSets, mail \in Mails : Collects(w, u, gone, fresh, mail)
    <3>1. CASE Write(w, u)
      BY <1>1, <2>2, <3>1, TierMails DEF Write
    <3>2. CASE WriteFails(w, u)
      BY <1>1, <2>2, <3>2, TierMails DEF WriteFails
    <3> QED
      BY <1>6, <3>1, <3>2
  <2>4. Others(w) /\ job'[w].at \in {"send", "find"} /\ job'[w].peers \in {<<>>, job[w].peers}
    BY <1>1, <2>3, CollectsJob
  <2> QED
    BY <2>1, <2>4, PodStep DEF PodOk
<1>7. ASSUME NEW w \in Pods, Send(w) \/ SendFails(w) PROVE \A v \in Pods : PodOk(v)'
  <2>1. job' = [job EXCEPT ![w].at = "ack", ![w].gone = {}, ![w].fresh = {}, ![w].mail = {}]
        /\ UNCHANGED grouped
    BY <1>7 DEF Send, SendFails, database
  <2>2. Others(w) /\ job'[w].at = "ack" /\ job'[w].peers = job[w].peers /\ job'[w].mail = {}
    BY <1>1, <2>1, AckJob
  <2> QED
    BY <2>1, <2>2, PodStep DEF PodOk
<1>8. ASSUME NEW w \in Pods, Ack(w) \/ HandlerFails(w) \/ Crash(w)
      PROVE  \A v \in Pods : PodOk(v)'
  <2>1. job' = [job EXCEPT ![w] = Idle] /\ UNCHANGED grouped
    BY <1>8 DEF Ack, HandlerFails, Crash, database
  <2>2. Others(w) /\ job'[w] = Idle
    BY <1>1, <2>1, IdleJob
  <2> QED
    BY <2>1, <2>2, PodStep, IdleType
<1>9. ASSUME NEW w \in Pods, Redeliver(w) PROVE \A v \in Pods : PodOk(v)'
  <2>1. /\ Others(w) /\ job'[w].at = job[w].at /\ job'[w].peers = job[w].peers
        /\ job'[w].mail = job[w].mail
    BY <1>1, <1>9, RedeliverJob
  <2> QED
    BY <1>9, <2>1, PodStep DEF Redeliver, database, PodOk
<1> QED
  BY <1>2, <1>3, <1>4, <1>5, <1>6, <1>7, <1>8, <1>9 DEF Next, Process, Fault

LEMMA StageStep == IInv /\ StageInv /\ [Next]_vars => StageInv'
<1> SUFFICES ASSUME IInv, StageInv, [Next]_vars, past' \subseteq {"crash"}, NEW t \in Txs
             PROVE  Owed(t)'
  BY PodsOk DEF StageInv
<1>0. Owed(t) /\ Types /\ \A w \in Pods : PodOk(w)
  BY HistoryGrows DEF StageInv, IInv
<1>1. CASE CommitGroup
  BY <1>0, <1>1, CommitOwed
<1>2. ASSUME NEW e \in Event, NEW s \in Statuses, Change(e, s) PROVE Owed(t)'
  BY <1>0, <1>2, ChangeOwed
<1>3. ASSUME NEW w \in Pods, NEW e \in Event, Take(w, e) PROVE Owed(t)'
  BY <1>0, <1>3, TakeOwed
<1>4. ASSUME NEW w \in Pods, LoadGroup(w) PROVE Owed(t)'
  <2>1. /\ Others(w) /\ job'[w].event = job[w].event /\ job'[w].owns = job[w].owns
        /\ job'[w].copy = job[w].copy /\ job'[w].mail = job[w].mail
        /\ job'[w].peers = status /\ job'[w].at = "find" /\ job[w].at = "group"
    BY <1>0, <1>4, LoadJob DEF LoadGroup
  <2> QED
    BY <1>0, <1>4, <2>1, KeptOwed DEF LoadGroup, database, told
<1>5. ASSUME NEW w \in Pods, NEW u \in Txs, Find(w, u) PROVE Owed(t)'
  <2>1. /\ Others(w) /\ job'[w].event = job[w].event /\ job'[w].owns = job[w].owns
        /\ job'[w].copy = job[w].copy /\ job'[w].mail = job[w].mail
        /\ job'[w].peers = job[w].peers /\ job'[w].at = "write" /\ job[w].at = "find"
    BY <1>0, <1>5, FindJob DEF Find
  <2> QED
    BY <1>0, <1>5, <2>1, KeptOwed DEF Find, database, told
<1>6. ASSUME NEW w \in Pods, NEW u \in Txs, Write(w, u) PROVE Owed(t)'
  BY <1>0, <1>6, WriteOwed
<1>7. ASSUME NEW w \in Pods, Send(w) PROVE Owed(t)'
  BY <1>0, <1>7, SendOwed
<1>8. ASSUME NEW w \in Pods, Ack(w) PROVE Owed(t)'
  BY <1>0, <1>8, AckOwed
<1>9. ASSUME NEW w \in Pods, Redeliver(w) \/ Crash(w) PROVE Owed(t)'
  BY <1>0, <1>9, AgainOwed
<1>10. ~(\E e \in Event : Lose(e)) /\ ~(\E w \in Pods : HandlerFails(w) \/ SendFails(w))
       /\ ~(\E w \in Pods, u \in Txs : WriteFails(w, u))
  <2>1. "lost" \notin past' /\ "failed" \notin past'
    OBVIOUS
  <2> QED
    BY <2>1 DEF Lose, HandlerFails, SendFails, WriteFails
<1>11. CASE UNCHANGED vars
  BY <1>0, <1>11, StutterOwed
<1> QED
  BY <1>1, <1>2, <1>3, <1>4, <1>5, <1>6, <1>7, <1>8, <1>9, <1>10, <1>11
     DEF Next, Process, Fault

LEMMA StageInit == Init => StageInv
<1> SUFFICES ASSUME Init PROVE StageInv
  OBVIOUS
<1>1. \A w \in Pods : PodOk(w)
  BY IdleType DEF Init, PodOk
<1>2. ASSUME NEW t \in Txs PROVE Owed(t)
  <2>1. Txs \in Event /\ queue[Txs] = 1
    BY DEF Init, Event
  <2>2. Waits(t)
    BY <2>1 DEF Waits
  <2> QED
    BY <2>2 DEF Owed, Due
<1> QED
  BY <1>1, <1>2 DEF StageInv

(* A group at rest that has come to one stage was mailed about each of its *)
(* members, and a canceled member was mailed about, for any number of pods *)
(* that handle its events at once, in any order, and die on the way.       *)
THEOREM StageHolds == Spec => []StageIsMailed
<1>1. Spec => [](IInv /\ StageInv)
  <2>1. Init => IInv /\ StageInv
    BY InvInit, StageInit
  <2>2. IInv /\ StageInv /\ [Next]_vars => (IInv /\ StageInv)'
    BY InvStep, StageStep
  <2> QED
    BY <2>1, <2>2, PTL DEF Spec
<1>2. IInv /\ StageInv => StageIsMailed
  <2>1. SUFFICES ASSUME IInv, StageInv, past \subseteq {"crash"}, \A t \in Txs : Rested(t)
                 PROVE  /\ \A t \in Txs : status[t] = "CANCELED" => IsMailed(t)
                        /\ Agreed => \A t \in Txs : Mailable(status[t]) => IsMailed(t)
    BY DEF StageIsMailed, Agreed, IsMailed
  <2>2. queue \in [Event -> Nat] /\ \A w \in Pods : JobOk(job[w])
    BY <2>1 DEF IInv, Types, JobInv
  <2>3. \A e \in Event : queue[e] = 0
    <3>1. \A e \in Event : \E t \in Txs : t \in e
      BY DEF Event
    <3> QED
      BY <2>1, <3>1 DEF Rested
  <2>4. \A w \in Pods : job[w].event \notin Event
    <3>1. \A e \in Event : \E t \in Txs : t \in e
      BY DEF Event
    <3> QED
      BY <2>1, <3>1 DEF Rested, Handles
  <2>5. \A w \in Pods : ~job[w].owns
    BY <2>2, <2>4 DEF JobOk
  <2>6. \A t \in Txs : ~Due(t) /\ ~DueTogether(t)
    BY <2>3, <2>5 DEF Due, DueTogether, Waits, AnyWaits, Alone, Together, Copied, WillMail
  <2>7. \A t \in Txs : Owed(t)
    BY <2>1 DEF StageInv
  <2> QED
    BY <2>6, <2>7 DEF Owed, Mailable
<1> QED
  BY <1>1, <1>2, PTL
=============================================================================
