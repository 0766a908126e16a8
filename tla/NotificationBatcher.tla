------------------------ MODULE NotificationBatcher ------------------------
(***************************************************************************)
(* DebouncedNotificationBatcher.ts for one group key (one mailbox, or one  *)
(* websocket room): messages are collected in a Redis list and sent        *)
(* together when no message has come for a while (the flush key expires),  *)
(* or when the list is full.  Every pod hears of every key that expires.   *)
(*                                                                         *)
(* A process is an add (named by its message) or a handler of an instance  *)
(* for the expiry of one of the two keys.  Every Redis command is a step.  *)
(***************************************************************************)
EXTENDS Integers, Sequences, Functions

CONSTANTS
  Instances,   \* pods that share the batcher's prefix ("emails", "inapp-notifications")
  Messages,    \* one message per call of add
  Home,        \* Home[m] is the instance that adds m
  MaxBatch,    \* maxBatchSize
  Delay,       \* delayMs, in ticks
  MaxDelay,    \* maxFlushMS, in ticks
  MaxFaults,   \* bound on the locks that run out and the pods that are killed
  Calm         \* Redis and the pods are faster than the clock

ASSUME HomeAssumption == Home \in [Messages -> Instances]
ASSUME BoundsAssumption == /\ MaxBatch \in Nat \ {0}
                           /\ Delay \in Nat \ {0}
                           /\ MaxDelay \in Nat \ {0}
                           /\ MaxFaults \in Nat
                           /\ Calm \in BOOLEAN

Kinds == {"batch", "flush"}
Handlers == Instances \X Kinds
Processes == Messages \cup Handlers
ASSUME NamesAssumption == Messages \cap Handlers = {}

VARIABLES
  list,      \* the list under the batch key, oldest first; <<>>: no such key
  listTTL,   \* ticks the batch key has left, 0: no expiry is set
  flushTTL,  \* ticks the flush key has left, 0: no such key
  locked,    \* locked[k]: the lock key of processExpiration for k exists
  at,        \* the next step of every process
  hand,      \* the messages that a flush has read
  taken,     \* taken[k]: the messages that handlers of k have read
  sent,      \* the messages given to the callback
  echo,      \* instances that heard that a lock key has expired
  past,      \* what has gone wrong so far
  faults
vars == <<list, listTTL, flushTTL, locked, at, hand, taken, sent, echo, past, faults>>
redis == <<list, listTTL, flushTTL, locked>>
history == <<taken, sent, past, faults>>

CallStage == {"new", "expire", "get", "renew", "set", "done"}
FlushStage == {"range", "delete", "unschedule", "clear"}
HandlerStage == {"idle", "told", "unlock"}

Init ==
  /\ list = <<>> /\ listTTL = 0 /\ flushTTL = 0
  /\ locked = [k \in Kinds |-> FALSE]
  /\ at = [p \in Processes |-> IF p \in Messages THEN "new" ELSE "idle"]
  /\ hand = [p \in Processes |-> <<>>]
  /\ taken = [k \in Kinds |-> {}] /\ sent = {}
  /\ echo = {} /\ past = {} /\ faults = 0

Moves(p, from, to) == at[p] = from /\ at' = [at EXCEPT ![p] = to]

(***************************************************************************)
(* add                                                                     *)
(***************************************************************************)
IsFirstLate(length) == length = 2
IsFirst(length) == length = 1
IsFullLate(length) == length > MaxBatch
IsFull(length) == length >= MaxBatch
AfterPush(length) == IF IsFull(length) THEN "range" ELSE "get"

Push(m) ==
  LET length == Len(list) + 1
  IN  /\ Moves(m, "new", IF IsFirst(length) THEN "expire" ELSE AfterPush(length))
      /\ list' = Append(list, m)
      /\ UNCHANGED <<listTTL, flushTTL, locked, hand, echo, history>>

\* PEXPIRE does nothing to a key that is gone.
SetMaxDelay(m) ==
  /\ Moves(m, "expire", AfterPush(1))
  /\ listTTL' = IF list = <<>> THEN listTTL ELSE MaxDelay
  /\ UNCHANGED <<list, flushTTL, locked, hand, echo, history>>

IsScheduled(m) ==
  /\ Moves(m, "get", IF flushTTL > 0 THEN "renew" ELSE "set")
  /\ UNCHANGED <<redis, hand, echo, history>>

Renew(m) ==
  /\ Moves(m, "renew", "done")
  /\ flushTTL' = IF flushTTL = 0 THEN 0 ELSE Delay
  /\ UNCHANGED <<list, listTTL, locked, hand, echo, history>>

Schedule(m) ==
  /\ Moves(m, "set", "done")
  /\ flushTTL' = Delay
  /\ UNCHANGED <<list, listTTL, locked, hand, echo, history>>

(***************************************************************************)
(* processExpiration: take the lock, flush, give the lock back             *)
(***************************************************************************)
AcquirableAlways(k) == k \in Kinds
Acquirable(k) == ~locked[k]

Acquire(i, k) ==
  /\ at[<<i, k>>] = "told"
  /\ at' = [at EXCEPT ![<<i, k>>] = IF Acquirable(k) THEN "range" ELSE "idle"]
  /\ locked' = [locked EXCEPT ![k] = TRUE]
  /\ UNCHANGED <<list, listTTL, flushTTL, hand, echo, history>>

\* The lock key is deleted, whoever has set it.
Unlock(i, k) ==
  /\ Moves(<<i, k>>, "unlock", "idle")
  /\ locked' = [locked EXCEPT ![k] = FALSE]
  /\ UNCHANGED <<list, listTTL, flushTTL, hand, echo, history>>

(***************************************************************************)
(* flush, by an add that fills the list or by a handler                    *)
(***************************************************************************)
Finished(p) == IF p \in Messages THEN "done" ELSE "unlock"
TakenBy(p) == [k \in Kinds |-> IF p \in Handlers /\ p[2] = k THEN taken[k] \cup Range(list)
                                                          ELSE taken[k]]

Read(p) ==
  /\ Moves(p, "range", IF list = <<>> THEN "clear" ELSE "delete")
  /\ hand' = [hand EXCEPT ![p] = list]
  /\ taken' = TakenBy(p)
  /\ UNCHANGED <<redis, echo, sent, past, faults>>

Clear(p) ==
  /\ Moves(p, "clear", Finished(p))
  /\ flushTTL' = 0
  /\ UNCHANGED <<list, listTTL, locked, hand, echo, history>>

DeleteBatch(p) ==
  /\ Moves(p, "delete", "unschedule")
  /\ list' = <<>> /\ listTTL' = 0
  /\ UNCHANGED <<flushTTL, locked, hand, echo, history>>

\* The callback begins; it ends with the next step of p.
Unschedule(p) ==
  /\ Moves(p, "unschedule", Finished(p))
  /\ flushTTL' = 0
  /\ sent' = sent \cup Range(hand[p])
  /\ hand' = [hand EXCEPT ![p] = <<>>]
  /\ UNCHANGED <<list, listTTL, locked, echo, taken, past, faults>>

AddStep(m) == Push(m) \/ SetMaxDelay(m) \/ IsScheduled(m) \/ Renew(m) \/ Schedule(m)
FlushStep(p) == Read(p) \/ Clear(p) \/ DeleteBatch(p) \/ Unschedule(p)
HandlerStep(i, k) == Acquire(i, k) \/ Unlock(i, k) \/ FlushStep(<<i, k>>)

(***************************************************************************)
(* Time.  A key that expires is gone, and every instance hears of it.  A   *)
(* handler that is busy is not told again: its instance would find the     *)
(* lock taken.                                                             *)
(***************************************************************************)
Quiet == /\ \A p \in Processes : at[p] \in {"new", "done", "idle"}
         /\ echo = {}
Less(ttl) == IF ttl = 0 THEN 0 ELSE ttl - 1
ExpiringNow == {k \in Kinds : IF k = "batch" THEN listTTL = 1 ELSE flushTTL = 1}

Tick ==
  /\ listTTL > 0 \/ flushTTL > 0
  /\ Calm => Quiet
  /\ listTTL' = Less(listTTL)
  /\ flushTTL' = Less(flushTTL)
  /\ list' = IF listTTL = 1 THEN <<>> ELSE list
  /\ at' = [p \in Processes |->
              IF p \in Instances \X ExpiringNow /\ at[p] = "idle" THEN "told" ELSE at[p]]
  /\ UNCHANGED <<locked, hand, echo, history>>

(***************************************************************************)
(* Faults                                                                  *)
(***************************************************************************)
\* What a process that dies does not finish is never done.
Dies(i) ==
  /\ at' = [p \in Processes |->
              IF p \in {i} \X Kinds THEN "idle"
              ELSE IF p \in Messages /\ at[p] # "new" /\ Home[p] = i THEN "done"
              ELSE at[p]]
  /\ hand' = [p \in Processes |->
                IF p \in {i} \X Kinds \/ (p \in Messages /\ Home[p] = i) THEN <<>>
                                                                      ELSE hand[p]]
  /\ echo' = echo \ {i}
  /\ past' = past \cup {"crash"}
  /\ UNCHANGED <<redis, taken, sent>>

Crash(i) == Dies(i) /\ faults < MaxFaults /\ faults' = faults + 1

\* A lock lasts 1000 ms.  The name of its key begins like that of the key it
\* locks, so that its expiry is taken for the expiry of a key of a group.
LockRunsOut(k) ==
  /\ locked[k] /\ faults < MaxFaults
  /\ locked' = [locked EXCEPT ![k] = FALSE]
  /\ past' = past \cup {"slow"}
  /\ faults' = faults + 1
  /\ echo' = Instances
  /\ UNCHANGED <<list, listTTL, flushTTL, at, hand, taken, sent>>

\* ... whose batch key is the lock of the batch key, which is not a list
\* (WRONGTYPE rejects, nobody catches it), and whose flush key is the lock of
\* the flush key, which the flush of nothing deletes.
EchoFlush(i) ==
  /\ i \in echo
  /\ ~locked["batch"]
  /\ locked' = [locked EXCEPT !["flush"] = FALSE]
  /\ echo' = echo \ {i}
  /\ UNCHANGED <<list, listTTL, flushTTL, at, hand, history>>

EchoFails(i) == i \in echo /\ locked["batch"] /\ Dies(i) /\ UNCHANGED faults

Next ==
  \/ \E m \in Messages : AddStep(m) \/ FlushStep(m)
  \/ \E i \in Instances, k \in Kinds : HandlerStep(i, k)
  \/ \E k \in Kinds : LockRunsOut(k)
  \/ \E i \in Instances : Crash(i) \/ EchoFlush(i) \/ EchoFails(i)
  \/ Tick

Spec == Init /\ [][Next]_vars

(***************************************************************************)
(* Properties                                                              *)
(***************************************************************************)
TypeOK ==
  /\ list \in Seq(Messages)
  /\ listTTL \in 0..MaxDelay
  /\ flushTTL \in 0..Delay
  /\ locked \in [Kinds -> BOOLEAN]
  /\ at \in [Processes -> CallStage \cup FlushStage \cup HandlerStage]
  /\ hand \in [Processes -> Seq(Messages)]
  /\ taken \in [Kinds -> SUBSET Messages]
  /\ sent \subseteq Messages
  /\ echo \subseteq Instances
  /\ past \subseteq {"crash", "slow"}
  /\ faults \in 0..MaxFaults

\* A list is never left without an end: it expires, or the add that began it is
\* about to say when, although a flush may delete it and another add begin the
\* next one in between.  A crash there leaves a list that nothing flushes until
\* the next message comes (DebouncedNotificationBatcher.ts:69-73).
SomebodyWillClear ==
  \/ list = <<>> \/ listTTL > 0 \/ "crash" \in past
  \/ \E m \in Messages : at[m] = "expire"

\* A list that has reached maxBatchSize is being flushed, whatever adds and other
\* flushes do meanwhile (lines 75-79).
FullIsBeingFlushed ==
  Len(list) >= MaxBatch =>
    \/ \E p \in Processes : at[p] \in {"range", "delete"}
    \/ MaxBatch = 1 /\ \E m \in Messages : at[m] = "expire"
    \/ "crash" \in past

\* As long as no lock runs out, the pods that hear of an expired flush key do
\* not send a message twice, whenever they hear of it and whichever of them
\* dies; neither do those that hear of an expired batch key (lines 38-53).
OncePerTrigger ==
  [][\A i \in Instances, k \in Kinds :
       Read(<<i, k>>) /\ "slow" \notin past => Range(list) \cap taken[k] = {}]_vars

\* example.env:30 has EMAIL_DEBOUNCE_MAX_FLUSH_MS "maximum time a batch can be
\* held before force-flushing": a message that was added is in the list, in the
\* hand of a flush, or sent.  Redis deletes the list instead.
MaxDelayFlushes ==
  \A m \in Messages : at[m] # "new" =>
    m \in Range(list) \cup sent \cup UNION {Range(hand[p]) : p \in Processes}
=============================================================================
