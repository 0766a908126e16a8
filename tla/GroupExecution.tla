--------------------------- MODULE GroupExecution ---------------------------
(***************************************************************************)
(* An atomic or sequential transaction group: the scheduler of every chain *)
(* pod collates and executes its members together, from a copy of the      *)
(* group read when the timeout was armed, while the creator cancels the    *)
(* group or one of its members, executes a manual member by hand, and      *)
(* members expire.                                                         *)
(*                                                                         *)
(* TransactionLifecycle has the windows inside one upload, status cron,    *)
(* sweep or cancel of one transaction; here each of these is one step, and *)
(* the windows of the group operations are explored.  Members are numbered *)
(* in the order of their validStart.  The lock of a single execution is    *)
(* not modelled: a member has at most one manual request.                  *)
(***************************************************************************)
EXTENDS Integers, FiniteSets

CONSTANTS
  Members,      \* 1..n, in the order of validStart
  Start,        \* Start[t]: the time of t's validStart
  Sequential,   \* the group's flag: members one by one, else all at once
  Big,          \* members that are too big even with the shortened key list
  Rotating,     \* members whose keys the ledger may change meanwhile
  KeysFail,     \* TRUE iff the key resolution (mirror node) may fail
  Pods,         \* chain pods
  Requests,     \* API requests "execute" for manual members
  For,          \* For[r]: the member request r executes
  Cancels,      \* API requests "cancel group"
  NoOwner,      \* value of a lock nobody owns
  LastTime,     \* the time at which the clock stops
  MaxFaults     \* bound on crashes of pods and failing UPDATEs

Executors == Pods \union Requests

ASSUME GroupAssumption ==
  /\ Members \subseteq Nat /\ Members # {} /\ IsFiniteSet(Members)
  /\ Start \in [Members -> Nat]
  /\ Sequential \in BOOLEAN /\ KeysFail \in BOOLEAN
  /\ Big \subseteq Members /\ Rotating \subseteq Members
  /\ For \in [Requests -> Members]
  /\ NoOwner \notin Executors
  /\ Pods \intersect Requests = {}
  /\ LastTime \in Nat /\ MaxFaults \in Nat

Open     == {"WAITING_FOR_SIGNATURES", "WAITING_FOR_EXECUTION"}
Terminal == {"EXECUTED", "FAILED", "EXPIRED", "CANCELED"}
Statuses == Open \union Terminal

VARIABLES
  status,   \* per member: the status in the database
  signed,   \* members whose stored bytes satisfy their signature key
  clock,
  net,      \* per member: what consensus knows of its transaction id
  lock,     \* the Redis lock of executeTransactionGroup
  collate,  \* per pod: the smart_collate_group timeout and its copy
  exec,     \* per executor: an execution, its copy and how far members are
  cancel,   \* per cancel request: its progress and what it found
  told,     \* per member: terminal statuses published to clients
  faults    \* crashes of pods and failed UPDATEs so far

vars == <<status, signed, clock, net, lock, collate, exec, cancel, told, faults>>

-----------------------------------------------------------------------------
(* Types *)

(* A member in an execution: not in the list; in it; validated; the        *)
(* network's answer; the status recorded, or nothing to record.            *)
Stages   == {"out", "listed", "valid", "ok", "error", "duplicate", "nothing",
             "EXECUTED", "FAILED"}
Finished == {"out", "nothing", "EXECUTED", "FAILED"}

CollateState == [pc : {"idle", "armed", "follow"}, ready : SUBSET Members,
                 signed : SUBSET Members]
ExecState    == [pc : {"idle", "armed", "running", "unheard"},
                 signed : SUBSET Members, stage : [Members -> Stages]]
CancelState  == [pc : {"idle", "loaded", "recheck", "follow", "done"},
                 ids : SUBSET Members, canceled : SUBSET Members,
                 already : SUBSET Members, failed : SUBSET Members]

IdleCollate == [pc |-> "idle", ready |-> {}, signed |-> {}]
IdleExec    == [pc |-> "idle", signed |-> {}, stage |-> [t \in Members |-> "out"]]
IdleCancel  == [pc |-> "idle", ids |-> {}, canceled |-> {}, already |-> {},
                failed |-> {}]

TypeOK ==
  /\ status \in [Members -> Statuses]
  /\ signed \in SUBSET Members
  /\ clock \in Nat
  /\ net \in [Members -> {"unknown", "success", "failure"}]
  /\ lock \in Pods \union {NoOwner}
  /\ collate \in [Pods -> CollateState]
  /\ exec \in [Executors -> ExecState]
  /\ cancel \in [Cancels -> CancelState]
  /\ told \in [Members -> SUBSET Terminal]
  /\ faults \in Nat

-----------------------------------------------------------------------------
(* Time: a member is valid from its validStart on for two units; past them *)
(* its validStart lies more than three minutes back.                       *)

Started(t) == clock >= Start[t]
IsStale(t) == clock > Start[t] + 1
Executable(t) == Started(t) /\ ~IsStale(t)

With(S, value) == [t \in Members |-> IF t \in S THEN value ELSE status[t]]
Announce(S, value) ==
  told' = [t \in Members |-> IF t \in S THEN told[t] \union {value} ELSE told[t]]

First(S) == CHOOSE t \in S : \A u \in S : t <= u

Waiting(S) == {t \in S : status[t] = "WAITING_FOR_EXECUTION"}

-----------------------------------------------------------------------------
(* Signatures and the status crons *)

(* An upload satisfies the member's key; the status is recomputed by it,   *)
(* or left to a cron when the keys do not resolve.                         *)
Sign(t) ==
  /\ status[t] \in Open /\ ~IsStale(t) /\ t \notin signed
  /\ signed' = signed \union {t}
  /\ status' \in {With({t} \ Big, "WAITING_FOR_EXECUTION")}
                   \union (IF KeysFail THEN {status} ELSE {})
  /\ UNCHANGED <<clock, net, lock, collate, exec, cancel, told, faults>>

(* The ledger changes a key of the member: its signatures do not suffice.  *)
Rotate(t) ==
  /\ t \in signed \intersect Rotating
  /\ signed' = signed \ {t}
  /\ UNCHANGED <<status, clock, net, lock, collate, exec, cancel, told, faults>>

(* updateTransactions of a status cron. *)
StatusCron(t) ==
  /\ status[t] \in Open /\ ~IsStale(t)
  /\ status' = With({t}, IF t \in signed \ Big THEN "WAITING_FOR_EXECUTION"
                         ELSE "WAITING_FOR_SIGNATURES")
  /\ UNCHANGED <<signed, clock, net, lock, collate, exec, cancel, told, faults>>

(* prepareTransactions: a member in progress whose validStart has come     *)
(* makes the pod read the group and arm its collation, unless it is armed. *)
Prepare(p) ==
  /\ collate[p].pc = "idle"
  /\ \E t \in Members : status[t] \in Open /\ Executable(t)
  /\ collate' = [collate EXCEPT ![p] =
       [pc |-> "armed", ready |-> Waiting(Members), signed |-> signed]]
  /\ UNCHANGED <<status, signed, clock, net, lock, exec, cancel, told, faults>>

-----------------------------------------------------------------------------
(* collateGroupAndExecute and addGroupExecutionTimeout *)

(* Every member fits, or the keys of one do not resolve before a big one   *)
(* is met: execution is scheduled with the copy, unless it already is.     *)
(* executeTransactionGroup filters the copy, hence it only lists members   *)
(* that were waiting for execution when the group was read.                *)
CollateFits(p) ==
  /\ collate[p].pc = "armed"
  /\ Big = {} \/ KeysFail
  /\ exec' = IF exec[p].pc = "idle"
             THEN [exec EXCEPT ![p] =
                     [pc     |-> "armed",
                      signed |-> collate[p].signed,
                      stage  |-> [t \in Members |-> IF t \in collate[p].ready
                                                    THEN "listed" ELSE "out"]]]
             ELSE exec
  /\ collate' = [collate EXCEPT ![p] = IdleCollate]
  /\ UNCHANGED <<status, signed, clock, net, lock, cancel, told, faults>>

(* The first big member: FAILED for every member that waits for execution. *)
(* If its key is not satisfied smartCollate throws, and nothing happens.   *)
CollateOversize(p) ==
  /\ collate[p].pc = "armed"
  /\ Big # {}
  /\ IF First(Big) \in collate[p].signed /\ Waiting(Members) # {}
     THEN /\ status' = With(Waiting(Members), "FAILED")
          /\ collate' = [collate EXCEPT ![p] =
               [pc |-> "follow", ready |-> Waiting(Members), signed |-> {}]]
     ELSE /\ collate' = [collate EXCEPT ![p] = IdleCollate]
          /\ UNCHANGED status
  /\ UNCHANGED <<signed, clock, net, lock, exec, cancel, told, faults>>

CollateFollow(p) ==
  /\ collate[p].pc = "follow"
  /\ Announce(collate[p].ready, "FAILED")
  /\ collate' = [collate EXCEPT ![p] = IdleCollate]
  /\ UNCHANGED <<status, signed, clock, net, lock, exec, cancel, faults>>

-----------------------------------------------------------------------------
(* executeTransactionGroup, and executeTransaction for a manual member *)

Unlocked(e) == IF lock = e THEN NoOwner ELSE lock

(* @MurLock(15000, 'transactionGroup.id + "_group"') *)
GroupLock(p) ==
  /\ exec[p].pc = "armed"
  /\ lock = NoOwner
  /\ lock' = p
  /\ exec' = [exec EXCEPT ![p].pc = "running"]
  /\ UNCHANGED <<status, signed, clock, net, collate, cancel, told, faults>>

GroupGiveUp(p) ==
  /\ exec[p].pc = "armed"
  /\ lock # NoOwner
  /\ exec' = [exec EXCEPT ![p] = IdleExec]
  /\ UNCHANGED <<status, signed, clock, net, lock, collate, cancel, told, faults>>

LockExpires ==
  /\ lock # NoOwner
  /\ lock' = NoOwner
  /\ UNCHANGED <<status, signed, clock, net, collate, exec, cancel, told, faults>>

(* POST execute of a manual member after its validStart; isManual is not   *)
(* asked by the group's timeouts.                                          *)
RequestExecution(r) ==
  /\ exec[r].pc = "idle"
  /\ Started(For[r])
  /\ exec' = [exec EXCEPT ![r] =
       [pc     |-> "running",
        signed |-> signed,
        stage  |-> [t \in Members |-> IF t = For[r] THEN "listed" ELSE "out"]]]
  /\ UNCHANGED <<status, signed, clock, net, lock, collate, cancel, told, faults>>

Listed(e)   == {t \in Members : exec[e].stage[t] = "listed"}
Going(e)    == {t \in Members : exec[e].stage[t] \notin Finished}

KeyResolution == IF KeysFail THEN {"ok", "fails"} ELSE {"ok"}

(* Mutant: the status is not validated. *)
PassesAny(resolution, e, t) == resolution = "ok" => t \in exec[e].signed
Passes(resolution, e, t) ==
  /\ status[t] \in Open
  /\ resolution = "ok" => t \in exec[e].signed \intersect signed

(* Validation, in order: a member that fails it ends the execution before  *)
(* any member is submitted.                                                *)
Validate(e) ==
  /\ exec[e].pc = "running" /\ Listed(e) # {}
  /\ \E resolution \in KeyResolution :
       LET t == First(Listed(e))
       IN IF Passes(resolution, e, t)
          THEN /\ exec' = [exec EXCEPT ![e].stage[t] = "valid"]
               /\ UNCHANGED lock
          ELSE /\ exec' = [exec EXCEPT ![e] = IdleExec]
               /\ lock' = Unlocked(e)
  /\ UNCHANGED <<status, signed, clock, net, collate, cancel, told, faults>>

(* When all are validated, a member is submitted at its validStart; in a   *)
(* sequential group after the members before it.                           *)
MayRun(e, t) ==
  /\ exec[e].pc \in {"running", "unheard"} /\ Listed(e) = {}
  /\ exec[e].stage[t] = "valid" /\ Started(t)
  /\ Sequential => \A u \in Going(e) : t <= u

SubmitAccepted(e, t) ==
  /\ MayRun(e, t)
  /\ net[t] = "unknown" /\ Executable(t)
  /\ t \in exec[e].signed \intersect signed
  /\ \/ /\ net' = [net EXCEPT ![t] = "success"]
        /\ \E answer \in {"ok", "error"} :
             exec' = [exec EXCEPT ![e].stage[t] = answer]
     \/ /\ net' = [net EXCEPT ![t] = "failure"]
        /\ exec' = [exec EXCEPT ![e].stage[t] = "error"]
  /\ UNCHANGED <<status, signed, clock, lock, collate, cancel, told, faults>>

SubmitRefused(e, t) ==
  /\ MayRun(e, t)
  /\ \E answer \in {"error"} \union
                   (IF net[t] # "unknown" THEN {"duplicate"} ELSE {}) :
       exec' = [exec EXCEPT ![e].stage[t] = answer]
  /\ UNCHANGED <<status, signed, clock, net, lock, collate, cancel, told, faults>>

(* Mutant: the status of the receipt instead of the row's. *)
VerdictOfReceipt(answer) == IF answer = "ok" THEN "SUCCESS" ELSE "FAILED"
Verdict(answer) == IF answer = "ok" THEN "EXECUTED" ELSE "FAILED"

(* Mutant: the UPDATE does not ask for the status. *)
RecordableAny(t) == TRUE
Recordable(t)    == status[t] = "WAITING_FOR_EXECUTION"

Record(e, t) ==
  /\ exec[e].stage[t] \in {"ok", "error", "duplicate"}
  /\ IF exec[e].stage[t] # "duplicate" /\ Recordable(t)
     THEN LET verdict == Verdict(exec[e].stage[t])
          IN /\ status' = With({t}, verdict)
             /\ exec' = [exec EXCEPT ![e].stage[t] = verdict]
     ELSE /\ exec' = [exec EXCEPT ![e].stage[t] = "nothing"]
          /\ UNCHANGED status
  /\ UNCHANGED <<signed, clock, net, lock, collate, cancel, told, faults>>

(* The UPDATE fails and _executeTransaction throws.  A sequential          *)
(* execution ends; of a parallel one Promise.all rejects and the others go *)
(* on without lock or listener.                                            *)
RecordThrows(e, t) ==
  /\ faults < MaxFaults /\ faults' = faults + 1
  /\ exec[e].stage[t] \in {"ok", "error"}
  /\ exec' = [exec EXCEPT ![e] =
       IF Sequential THEN IdleExec
       ELSE [exec[e] EXCEPT !.pc = "unheard", !.stage[t] = "nothing"]]
  /\ lock' = Unlocked(e)
  /\ UNCHANGED <<status, signed, clock, net, collate, cancel, told>>

(* The verdict of a member whose UPDATE affected its row.  Mutant: results *)
(* with an error are left out.                                             *)
RecordedSuccess(e, t) == {exec[e].stage[t]} \intersect {"EXECUTED"}
Recorded(e, t) == {exec[e].stage[t]} \intersect {"EXECUTED", "FAILED"}

(* All members done: one event for those whose UPDATE affected the row.    *)
Publish(e) ==
  /\ exec[e].pc \in {"running", "unheard"} /\ Going(e) = {}
  /\ told' = IF exec[e].pc = "running"
             THEN [t \in Members |-> told[t] \union Recorded(e, t)]
             ELSE told
  /\ exec' = [exec EXCEPT ![e] = IdleExec]
  /\ lock' = Unlocked(e)
  /\ UNCHANGED <<status, signed, clock, net, collate, cancel, faults>>

-----------------------------------------------------------------------------
(* cancelTransactionGroup, cancelTransaction, and the expiration sweep *)

Cancelable(t) == status[t] \in Open

(* The group is read, its members classified. *)
CancelLoad(c) ==
  /\ cancel[c].pc = "idle"
  /\ LET ids == {t \in Members : Cancelable(t)}
         already == {t \in Members : status[t] = "CANCELED"}
     IN cancel' = [cancel EXCEPT ![c] =
          [pc |-> IF ids = {} THEN "done" ELSE "loaded", ids |-> ids,
           canceled |-> {}, already |-> already,
           failed |-> Members \ (ids \union already)]]
  /\ UNCHANGED <<status, signed, clock, net, lock, collate, exec, told, faults>>

(* One UPDATE for all of them; only when it affected fewer rows than there *)
(* are ids are the rows read again.  Mutant: they never are.               *)
AllAffectedAlways(ids, affected) == TRUE
AllAffected(ids, affected) == Cardinality(affected) = Cardinality(ids)

CancelUpdate(c) ==
  /\ cancel[c].pc = "loaded"
  /\ LET affected == {t \in cancel[c].ids : Cancelable(t)}
     IN /\ status' = With(affected, "CANCELED")
        /\ cancel' = IF AllAffected(cancel[c].ids, affected)
                     THEN [cancel EXCEPT ![c].pc = "follow",
                                         ![c].canceled = cancel[c].ids]
                     ELSE [cancel EXCEPT ![c].pc = "recheck"]
  /\ UNCHANGED <<signed, clock, net, lock, collate, exec, told, faults>>

CancelRecheck(c) ==
  /\ cancel[c].pc = "recheck"
  /\ LET canceled == {t \in cancel[c].ids : status[t] = "CANCELED"}
     IN cancel' = [cancel EXCEPT
          ![c].pc = IF canceled = {} THEN "done" ELSE "follow",
          ![c].canceled = canceled,
          ![c].failed = cancel[c].failed \union (cancel[c].ids \ canceled)]
  /\ UNCHANGED <<status, signed, clock, net, lock, collate, exec, told, faults>>

CancelFollow(c) ==
  /\ cancel[c].pc = "follow"
  /\ Announce(cancel[c].canceled, "CANCELED")
  /\ cancel' = [cancel EXCEPT ![c].pc = "done"]
  /\ UNCHANGED <<status, signed, clock, net, lock, collate, exec, faults>>

(* One member is canceled, or expires; its announcement included. *)
CancelMember(t) ==
  /\ Cancels # {} /\ Cancelable(t)
  /\ status' = With({t}, "CANCELED")
  /\ Announce({t}, "CANCELED")
  /\ UNCHANGED <<signed, clock, net, lock, collate, exec, cancel, faults>>

(* Mutant: a status is missing in the sweep's list. *)
ExpirableUnsigned(t) == status[t] = "WAITING_FOR_SIGNATURES" /\ IsStale(t)
Expirable(t)         == status[t] \in Open /\ IsStale(t)

Expire(t) ==
  /\ Expirable(t)
  /\ status' = With({t}, "EXPIRED")
  /\ Announce({t}, "EXPIRED")
  /\ UNCHANGED <<signed, clock, net, lock, collate, exec, cancel, faults>>

-----------------------------------------------------------------------------
Tick ==
  /\ clock < LastTime
  /\ clock' = clock + 1
  /\ UNCHANGED <<status, signed, net, lock, collate, exec, cancel, told, faults>>

Crash(p) ==
  /\ faults < MaxFaults /\ faults' = faults + 1
  /\ collate' = [collate EXCEPT ![p] = IdleCollate]
  /\ exec' = [exec EXCEPT ![p] = IdleExec]
  /\ UNCHANGED <<status, signed, clock, net, lock, cancel, told>>

Init ==
  /\ status = [t \in Members |-> "WAITING_FOR_SIGNATURES"]
  /\ signed = {}
  /\ clock = 0
  /\ net = [t \in Members |-> "unknown"]
  /\ lock = NoOwner
  /\ collate = [p \in Pods |-> IdleCollate]
  /\ exec = [e \in Executors |-> IdleExec]
  /\ cancel = [c \in Cancels |-> IdleCancel]
  /\ told = [t \in Members |-> {}]
  /\ faults = 0

CollateStep(p) == CollateFits(p) \/ CollateOversize(p) \/ CollateFollow(p)
Submit(e, t)   == SubmitAccepted(e, t) \/ SubmitRefused(e, t)
ExecStep(e)    == \/ Validate(e) \/ Publish(e)
                  \/ \E t \in Members : Submit(e, t) \/ Record(e, t)
CancelStep(c)  == CancelUpdate(c) \/ CancelRecheck(c) \/ CancelFollow(c)

Next ==
  \/ \E t \in Members : \/ Sign(t) \/ Rotate(t) \/ StatusCron(t)
                        \/ CancelMember(t) \/ Expire(t)
  \/ \E p \in Pods : \/ Prepare(p) \/ CollateStep(p) \/ GroupLock(p)
                     \/ GroupGiveUp(p) \/ Crash(p)
  \/ \E r \in Requests : RequestExecution(r)
  \/ \E e \in Executors : \/ ExecStep(e)
                          \/ \E t \in Members : RecordThrows(e, t)
  \/ \E c \in Cancels : CancelLoad(c) \/ CancelStep(c)
  \/ LockExpires
  \/ Tick

Spec == Init /\ [][Next]_vars

(* Timers fire and started code runs; the clock advances and locks expire. *)
Fairness ==
  /\ WF_vars(Tick) /\ WF_vars(LockExpires)
  /\ \A t \in Members : WF_vars(Expire(t))
  /\ \A p \in Pods : WF_vars(CollateStep(p)) /\ WF_vars(GroupLock(p) \/ GroupGiveUp(p))
  /\ \A e \in Executors : WF_vars(ExecStep(e))
  /\ \A c \in Cancels : WF_vars(CancelStep(c))

FairSpec == Spec /\ Fairness

-----------------------------------------------------------------------------
(* Safety *)

InFlight(t) == \E e \in Executors : exec[e].stage[t] = "valid"

Promised(t) == INSTANCE TransactionPromise WITH
                 Ready <- "WAITING_FOR_EXECUTION", status <- status[t],
                 net <- net[t], inFlight <- InFlight(t)

(* Executed in a group or by hand, canceled in a group or alone, every     *)
(* member behaves as TransactionPromise says of one transaction: nothing   *)
(* is submitted that nobody saw open, nothing recorded over another end,   *)
(* nothing EXECUTED that consensus did not take.                           *)
MembersKeepPromise ==
  /\ \A t \in Members : Promised(t)!PromiseInit
  /\ [][\A t \in Members : Promised(t)!PromiseNext
                             \/ UNCHANGED Promised(t)!promiseVars]_vars

(* cancelTransactionGroup answers about every member, and its answers stay *)
(* true: those it reports canceled are, those it reports as not cancelable *)
(* ended otherwise (the CONFLICT code is never given).                     *)
GroupCancelAnswersTruth ==
  \A c \in Cancels : cancel[c].pc \in {"follow", "done"} =>
    /\ cancel[c].canceled \union cancel[c].already \union cancel[c].failed = Members
    /\ \A t \in cancel[c].canceled \union cancel[c].already : status[t] = "CANCELED"
    /\ \A t \in cancel[c].failed : status[t] \in Terminal \ {"CANCELED"}

(* Without faults every end of a member is published to clients at last,   *)
(* although a group publishes its own only when all its members are done.  *)
MemberEndsAreTold ==
  \A t \in Members, s \in Terminal :
    status[t] = s ~> s \in told[t] \/ faults > 0

(* Every member ends, with crashes and failing UPDATEs. *)
MembersEnd == <>(\A t \in Members : status[t] \in Terminal)

(* Clients are told of no end that a member did not reach, and of one only. *)
ToldIsTrue == \A t \in Members : told[t] \subseteq {status[t]}

=============================================================================
