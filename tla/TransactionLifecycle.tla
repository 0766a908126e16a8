------------------------ MODULE TransactionLifecycle ------------------------
(***************************************************************************)
(* The life of one row of the `transaction` table, from its creation       *)
(* (WAITING_FOR_SIGNATURES) to a terminal status, as it is driven          *)
(* concurrently by                                                         *)
(*   - API requests that upload or import signatures,                      *)
(*   - API requests of the creator: cancel, archive, execute (manual),     *)
(*   - the scheduler of every chain pod: the status crons, the collation   *)
(*     timeout, the execution timeout, and the expiration sweep,           *)
(*   - the execute service, under a Redis lock whose time to live may run  *)
(*     out, against a network that accepts a transaction id at most once.  *)
(*                                                                         *)
(* Every database statement is one step, so all the windows between a read *)
(* and the write that depends on it are explored.  Transaction bytes are   *)
(* abstracted to the set of keys whose signature they carry; the signature *)
(* key of the transaction to the family of key sets that satisfy it.       *)
(***************************************************************************)
EXTENDS Integers, FiniteSets

CONSTANTS
  Keys,         \* public keys that may sign
  Quorums,      \* the key sets that satisfy the transaction's signature key
  MaxSigs,      \* number of signatures that fit in the maximum transaction size
  Uploads,      \* signature upload requests
  Imports,      \* those of them that are importSignatures requests
  Carries,      \* Carries[u]: the keys whose signatures request u brings
  Pods,         \* chain pods, each running the scheduler
  Requests,     \* API requests "execute" for a manual transaction
  NoOwner,      \* value of a lock nobody owns
  Cancels,      \* API requests "cancel"
  Archives,     \* API requests "archive"
  Manual,       \* the values of isManual a transaction may be created with
  KeysFail,     \* TRUE iff the key resolution (mirror node) may fail
  LastPhase,    \* the phase at which the clock stops
  MaxCrashes    \* bound on the number of pod crashes

Executors == Pods \union Requests

ASSUME KeyAssumption == /\ Quorums \subseteq SUBSET Keys
                        /\ MaxSigs \in Nat
                        /\ Carries \in [Uploads -> SUBSET Keys]
                        /\ Imports \subseteq Uploads
                        /\ KeysFail \in BOOLEAN
                        /\ Manual \subseteq BOOLEAN

ASSUME OwnerAssumption == /\ NoOwner \notin Executors
                          /\ Pods \intersect Requests = {}

ASSUME BoundAssumption == LastPhase \in 0..3 /\ MaxCrashes \in Nat

(* TransactionStatus; NEW and REJECTED are never assigned by the code.     *)
Open     == {"WAITING_FOR_SIGNATURES", "WAITING_FOR_EXECUTION"}
Terminal == {"EXECUTED", "FAILED", "EXPIRED", "CANCELED", "ARCHIVED"}
Statuses == Open \union Terminal

(* The clock, seen from the transaction's validStart: not yet reached; in  *)
(* the valid duration; past it but less than three minutes after           *)
(* validStart; more than three minutes after validStart.                   *)
Before == 0
Valid  == 1
Lapsed == 2
Stale  == 3

VARIABLES
  row,       \* the database row: status, signatures in its bytes, isManual
  signers,   \* keys with a transaction_signer row
  clock,     \* phase of the clock
  net,       \* what consensus knows of the transaction id
  lock,      \* the Redis lock of executeTransaction for this transaction id
  upload,    \* per upload request: progress and what it read
  cron,      \* per pod: progress of a status cron and what it read
  collate,   \* per pod: the smart_collate timeout and its in-memory copy
  exec,      \* per executor: progress of an execution and its in-memory copy
  sweep,     \* per pod: progress of handleExpiredTransactions
  cancel,    \* per cancel request: progress, then the outcome returned
  archive,   \* per archive request: progress
  followed,  \* terminal statuses published to clients and snapshotted
  crashes    \* crashes of pods so far

vars == <<row, signers, clock, net, lock, upload, cron, collate, exec, sweep,
          cancel, archive, followed, crashes>>

-----------------------------------------------------------------------------
(* Types *)

Row == [status : Statuses, sigs : SUBSET Keys, isManual : BOOLEAN]

UploadState  == [pc : {"idle", "loaded", "saved", "done"}, status : Open,
                 sigs : SUBSET Keys, signers : SUBSET Keys]
CronState    == [pc : {"idle", "loaded"}, status : Open, sigs : SUBSET Keys,
                 isManual : BOOLEAN]
CollateState == [pc : {"idle", "armed", "follow"}, sigs : SUBSET Keys,
                 isManual : BOOLEAN]
ExecState    == [pc : {"idle", "release", "armed", "locked", "validated",
                       "answered", "follow"},
                 sigs : SUBSET Keys,
                 answer : {"none", "ok", "error", "duplicate"}]

IdleUpload  == [pc |-> "idle", status |-> "WAITING_FOR_SIGNATURES",
                sigs |-> {}, signers |-> {}]
IdleCron    == [pc |-> "idle", status |-> "WAITING_FOR_SIGNATURES",
                sigs |-> {}, isManual |-> FALSE]
IdleCollate == [pc |-> "idle", sigs |-> {}, isManual |-> FALSE]
IdleExec    == [pc |-> "idle", sigs |-> {}, answer |-> "none"]

TypeOK ==
  /\ row \in Row
  /\ signers \in SUBSET Keys
  /\ clock \in 0..3
  /\ net \in {"unknown", "success", "failure"}
  /\ lock \in Executors \union {NoOwner}
  /\ upload \in [Uploads -> UploadState]
  /\ cron \in [Pods -> CronState]
  /\ collate \in [Pods -> CollateState]
  /\ exec \in [Executors -> ExecState]
  /\ sweep \in [Pods -> {"idle", "follow"}]
  /\ cancel \in [Cancels -> {"idle", "loaded", "follow", "recheck", "CANCELED",
                             "ALREADY_CANCELED", "OTIP", "CONFLICT"}]
  /\ archive \in [Archives -> {"idle", "loaded", "follow", "ARCHIVED", "OMTIP"}]
  /\ followed \in SUBSET Terminal
  /\ crashes \in Nat

-----------------------------------------------------------------------------
(* Signature key and collation *)

(* hasValidSignatureKey *)
Satisfied(sigs) == \E q \in Quorums : q \subseteq sigs

(* computeShortenedPublicKeyList picks one satisfying part of the signatures. *)
Shortened(sigs) == CHOOSE q \in Quorums : q \subseteq sigs

Fits(sigs) == Cardinality(sigs) <= MaxSigs

(* smartCollate: the bytes unchanged when they fit, else stripped to the   *)
(* shortened list; none when that does not fit either, or when there is    *)
(* none because the key is not satisfied.                                  *)
CollatedForms(sigs) ==
  IF Fits(sigs) THEN {sigs}
  ELSE IF Satisfied(sigs) /\ Fits(Shortened(sigs)) THEN {Shortened(sigs)}
  ELSE {}

(* computeSignatureKey returns, or throws because the keys of an account   *)
(* can neither be read from the cache nor from the mirror node.            *)
KeyResolution == IF KeysFail THEN {"ok", "fails"} ELSE {"ok"}

(* processTransactionStatus on a copy of the row: the status it computes,  *)
(* and the row's status after `UPDATE ... WHERE status = oldStatus`.       *)
(* Mutant: the default of a new transaction instead of WAITING_FOR_SIGNATURES. *)
ComputedStatusNew(sigs) ==
  IF Satisfied(sigs) THEN "WAITING_FOR_EXECUTION" ELSE "NEW"

ComputedStatus(sigs) ==
  IF Satisfied(sigs) /\ CollatedForms(sigs) # {}
  THEN "WAITING_FOR_EXECUTION"
  ELSE "WAITING_FOR_SIGNATURES"

ProcessTransactionStatus(resolution, status, sigs) ==
  IF resolution = "ok" /\ row.status = status
  THEN ComputedStatus(sigs)
  ELSE row.status

(* The WHERE clauses of the guarded UPDATEs of the status, and the switch  *)
(* of validateTransactionStatus.  Mutants: the clause or switch dropped,   *)
(* or a status missing in its list.                                        *)
StillWaitingAny      == TRUE
StillWaiting         == row.status = "WAITING_FOR_EXECUTION"
StillCancelable      == row.status \in Open
ExpirableUnsigned    == row.status = "WAITING_FOR_SIGNATURES"
Expirable            == row.status \in Open
StatusAllowsAny      == TRUE
StatusAllowsExecution == row.status \in Open

-----------------------------------------------------------------------------
(* Signature uploads: uploadSignatureMaps and importSignatures *)

(* The keys for which the request inserts a transaction_signer row: an     *)
(* import only looks at the keys that are not in the bytes it read.        *)
NewSigners(u) ==
  (Carries[u] \ upload[u].signers)
    \ (IF u \in Imports THEN upload[u].sigs ELSE {})

UploadLoad(u) ==
  /\ upload[u].pc = "idle"
  /\ upload' = [upload EXCEPT ![u] =
       IF row.status \in Open /\ clock \in {Before, Valid}
       THEN [pc |-> "loaded", status |-> row.status, sigs |-> row.sigs,
             signers |-> signers]
       ELSE [IdleUpload EXCEPT !.pc = "done"]]
  /\ UNCHANGED <<row, signers, clock, net, lock, cron, collate, exec, sweep,
                 cancel, archive, followed, crashes>>

(* Bytes and signer rows are written in one database transaction; the      *)
(* bytes by id only, whatever the row holds by now.                        *)
UploadSave(u) ==
  /\ upload[u].pc = "loaded"
  /\ LET all     == upload[u].sigs \union Carries[u]
         nothing == all = upload[u].sigs /\ NewSigners(u) = {}
     IN /\ row' = IF all = upload[u].sigs THEN row ELSE [row EXCEPT !.sigs = all]
        /\ signers' = signers \union NewSigners(u)
        /\ upload' = [upload EXCEPT ![u] =
             IF nothing THEN [IdleUpload EXCEPT !.pc = "done"]
             ELSE [pc |-> "saved", status |-> upload[u].status, sigs |-> all,
                   signers |-> upload[u].signers]]
  /\ UNCHANGED <<clock, net, lock, cron, collate, exec, sweep, cancel, archive,
                 followed, crashes>>

(* The database transaction fails: nothing is written, FST is returned.    *)
UploadFail(u) ==
  /\ upload[u].pc = "loaded"
  /\ upload' = [upload EXCEPT ![u] = [IdleUpload EXCEPT !.pc = "done"]]
  /\ UNCHANGED <<row, signers, clock, net, lock, cron, collate, exec, sweep,
                 cancel, archive, followed, crashes>>

(* The status is recomputed from the request's own copy of the bytes.      *)
UploadStatus(u) ==
  /\ upload[u].pc = "saved"
  /\ \E resolution \in KeyResolution :
       row' = [row EXCEPT !.status = ProcessTransactionStatus(
                 resolution, upload[u].status, upload[u].sigs)]
  /\ upload' = [upload EXCEPT ![u] = [IdleUpload EXCEPT !.pc = "done"]]
  /\ UNCHANGED <<signers, clock, net, lock, cron, collate, exec, sweep, cancel,
                 archive, followed, crashes>>

-----------------------------------------------------------------------------
(* The scheduler of a chain pod *)

(* Mutant: ready transactions are not looked at again. *)
CronLoadUnsigned(p) ==
  /\ cron[p].pc = "idle"
  /\ row.status = "WAITING_FOR_SIGNATURES"
  /\ clock # Stale
  /\ cron' = [cron EXCEPT ![p] =
       [pc |-> "loaded", status |-> row.status, sigs |-> row.sigs,
        isManual |-> row.isManual]]
  /\ UNCHANGED <<row, signers, clock, net, lock, upload, collate, exec, sweep,
                 cancel, archive, followed, crashes>>

(* updateTransactions reads the open transactions of its window.           *)
CronLoad(p) ==
  /\ cron[p].pc = "idle"
  /\ row.status \in Open
  /\ clock # Stale
  /\ cron' = [cron EXCEPT ![p] =
       [pc |-> "loaded", status |-> row.status, sigs |-> row.sigs,
        isManual |-> row.isManual]]
  /\ UNCHANGED <<row, signers, clock, net, lock, upload, collate, exec, sweep,
                 cancel, archive, followed, crashes>>

(* It recomputes the status, then prepareTransactions arms the collation   *)
(* timeout of a transaction whose validStart has come, unless the registry *)
(* already holds one.                                                      *)
CronUpdate(p) ==
  /\ cron[p].pc = "loaded"
  /\ \E resolution \in KeyResolution :
       row' = [row EXCEPT !.status = ProcessTransactionStatus(
                 resolution, cron[p].status, cron[p].sigs)]
  /\ collate' = IF clock \in {Valid, Lapsed} /\ collate[p].pc = "idle"
                THEN [collate EXCEPT ![p] =
                        [pc |-> "armed", sigs |-> cron[p].sigs,
                         isManual |-> cron[p].isManual]]
                ELSE collate
  /\ cron' = [cron EXCEPT ![p] = IdleCron]
  /\ UNCHANGED <<signers, clock, net, lock, upload, exec, sweep, cancel,
                 archive, followed, crashes>>

(* addExecutionTimeout: not twice for a transaction, not for a manual one. *)
(* Mutant: the manual transactions are not left out. *)
AddExecutionTimeoutAlways(p, sigs) ==
  exec' = IF exec[p].pc = "idle"
          THEN [exec EXCEPT ![p] =
                  [pc |-> "armed", sigs |-> sigs, answer |-> "none"]]
          ELSE exec

AddExecutionTimeout(p, sigs) ==
  exec' = IF exec[p].pc = "idle" /\ ~collate[p].isManual
          THEN [exec EXCEPT ![p] =
                  [pc |-> "armed", sigs |-> sigs, answer |-> "none"]]
          ELSE exec

(* Mutant of Collate: the stripped bytes are saved. *)
CollateSaves(p) ==
  /\ collate[p].pc = "armed"
  /\ \E sigs \in CollatedForms(collate[p].sigs) :
       AddExecutionTimeout(p, sigs) /\ row' = [row EXCEPT !.sigs = sigs]
  /\ collate' = [collate EXCEPT ![p] = IdleCollate]
  /\ UNCHANGED <<signers, clock, net, lock, upload, cron, sweep, cancel,
                 archive, followed, crashes>>

(* collateAndExecute's callback when the keys cannot be resolved, or when  *)
(* the (possibly stripped) transaction fits: execution is scheduled with   *)
(* the in-memory bytes, which are not saved.                               *)
Collate(p) ==
  /\ collate[p].pc = "armed"
  /\ \E sigs \in CollatedForms(collate[p].sigs)
                   \union (IF KeysFail THEN {collate[p].sigs} ELSE {}) :
       AddExecutionTimeout(p, sigs)
  /\ collate' = [collate EXCEPT ![p] = IdleCollate]
  /\ UNCHANGED <<row, signers, clock, net, lock, upload, cron, sweep, cancel,
                 archive, followed, crashes>>

(* ... when nothing fits: FAILED with TRANSACTION_OVERSIZE, if the row is  *)
(* waiting for execution.  Without a satisfying key set smartCollate       *)
(* throws, and the callback only logs.                                     *)
CollateOversize(p) ==
  /\ collate[p].pc = "armed"
  /\ CollatedForms(collate[p].sigs) = {}
  /\ IF Satisfied(collate[p].sigs) /\ StillWaiting
     THEN /\ row' = [row EXCEPT !.status = "FAILED"]
          /\ collate' = [collate EXCEPT ![p] = [IdleCollate EXCEPT !.pc = "follow"]]
     ELSE /\ collate' = [collate EXCEPT ![p] = IdleCollate]
          /\ UNCHANGED row
  /\ UNCHANGED <<signers, clock, net, lock, upload, cron, exec, sweep, cancel,
                 archive, followed, crashes>>

CollateFollow(p) ==
  /\ collate[p].pc = "follow"
  /\ followed' = followed \union {"FAILED"}
  /\ collate' = [collate EXCEPT ![p] = IdleCollate]
  /\ UNCHANGED <<row, signers, clock, net, lock, upload, cron, exec, sweep,
                 cancel, archive, crashes>>

(* Mutant of Expire: the rows affected are not returned, nobody is told. *)
ExpireSilently(p) ==
  /\ sweep[p] = "idle"
  /\ clock = Stale
  /\ Expirable
  /\ row' = [row EXCEPT !.status = "EXPIRED"]
  /\ UNCHANGED <<signers, clock, net, lock, upload, cron, collate, exec, sweep,
                 cancel, archive, followed, crashes>>

(* handleExpiredTransactions: one UPDATE ... RETURNING, then the event and *)
(* the snapshot.                                                           *)
Expire(p) ==
  /\ sweep[p] = "idle"
  /\ clock = Stale
  /\ Expirable
  /\ row' = [row EXCEPT !.status = "EXPIRED"]
  /\ sweep' = [sweep EXCEPT ![p] = "follow"]
  /\ UNCHANGED <<signers, clock, net, lock, upload, cron, collate, exec, cancel,
                 archive, followed, crashes>>

ExpireFollow(p) ==
  /\ sweep[p] = "follow"
  /\ followed' = followed \union {"EXPIRED"}
  /\ sweep' = [sweep EXCEPT ![p] = "idle"]
  /\ UNCHANGED <<row, signers, clock, net, lock, upload, cron, collate, exec,
                 cancel, archive, crashes>>

-----------------------------------------------------------------------------
(* The execute service *)

(* transactions.service executeTransaction: only a manual transaction.     *)
(* Before validStart the request hands it to the scheduler, afterwards it  *)
(* executes it itself with the bytes it read.                              *)
RequestExecution(r) ==
  /\ exec[r].pc = "idle"
  /\ row.isManual
  /\ exec' = [exec EXCEPT ![r] =
       [pc |-> IF clock = Before THEN "release" ELSE "armed",
        sigs |-> row.sigs, answer |-> "none"]]
  /\ UNCHANGED <<row, signers, clock, net, lock, upload, cron, collate, sweep,
                 cancel, archive, followed, crashes>>

ReleaseToScheduler(r) ==
  /\ exec[r].pc = "release"
  /\ row' = [row EXCEPT !.isManual = FALSE]
  /\ exec' = [exec EXCEPT ![r] = IdleExec]
  /\ UNCHANGED <<signers, clock, net, lock, upload, cron, collate, sweep,
                 cancel, archive, followed, crashes>>

(* @MurLock(15000, 'transaction.id') *)
ExecLock(e) ==
  /\ exec[e].pc = "armed"
  /\ lock = NoOwner
  /\ lock' = e
  /\ exec' = [exec EXCEPT ![e].pc = "locked"]
  /\ UNCHANGED <<row, signers, clock, net, upload, cron, collate, sweep, cancel,
                 archive, followed, crashes>>

(* maxAttempts reached: the decorator throws, the callers log.             *)
ExecGiveUp(e) ==
  /\ exec[e].pc = "armed"
  /\ lock # NoOwner
  /\ exec' = [exec EXCEPT ![e] = IdleExec]
  /\ UNCHANGED <<row, signers, clock, net, lock, upload, cron, collate, sweep,
                 cancel, archive, followed, crashes>>

(* The lock's time to live runs out, whatever its owner is doing.          *)
LockExpires ==
  /\ lock # NoOwner
  /\ lock' = NoOwner
  /\ UNCHANGED <<row, signers, clock, net, upload, cron, collate, exec, sweep,
                 cancel, archive, followed, crashes>>

Unlocked(e) == IF lock = e THEN NoOwner ELSE lock

(* getValidatedSDKTransaction: the status is read again; the signatures    *)
(* are those of the in-memory copy, and are not checked when the keys      *)
(* cannot be resolved.                                                     *)
ExecValidate(e) ==
  /\ exec[e].pc = "locked"
  /\ \E resolution \in KeyResolution :
       IF /\ StatusAllowsExecution
          /\ resolution = "ok" => Satisfied(exec[e].sigs)
       THEN /\ exec' = [exec EXCEPT ![e].pc = "validated"]
            /\ UNCHANGED lock
       ELSE /\ exec' = [exec EXCEPT ![e] = IdleExec]
            /\ lock' = Unlocked(e)
  /\ UNCHANGED <<row, signers, clock, net, upload, cron, collate, sweep, cancel,
                 archive, followed, crashes>>

(* The network takes a sufficiently signed transaction once, during its    *)
(* valid duration; the receipt of a transaction it took may be lost.       *)
SubmitAccepted(e) ==
  /\ exec[e].pc = "validated"
  /\ net = "unknown" /\ clock = Valid /\ Satisfied(exec[e].sigs)
  /\ \/ /\ net' = "success"
        /\ \E answer \in {"ok", "error"} :
             exec' = [exec EXCEPT ![e].pc = "answered", ![e].answer = answer]
     \/ /\ net' = "failure"
        /\ exec' = [exec EXCEPT ![e].pc = "answered", ![e].answer = "error"]
  /\ UNCHANGED <<row, signers, clock, lock, upload, cron, collate, sweep, cancel,
                 archive, followed, crashes>>

SubmitDuplicate(e) ==
  /\ exec[e].pc = "validated"
  /\ net # "unknown" /\ clock = Valid
  /\ exec' = [exec EXCEPT ![e].pc = "answered", ![e].answer = "duplicate"]
  /\ UNCHANGED <<row, signers, clock, net, lock, upload, cron, collate, sweep,
                 cancel, archive, followed, crashes>>

(* Rejected by a node (expired, invalid signature, busy) or unreachable.   *)
SubmitRejected(e) ==
  /\ exec[e].pc = "validated"
  /\ exec' = [exec EXCEPT ![e].pc = "answered", ![e].answer = "error"]
  /\ UNCHANGED <<row, signers, clock, net, lock, upload, cron, collate, sweep,
                 cancel, archive, followed, crashes>>

Verdict(answer) == IF answer = "ok" THEN "EXECUTED" ELSE "FAILED"

(* A duplicate leaves the row alone; any other answer is written where     *)
(* the row is still waiting for execution.                                 *)
ExecRecord(e) ==
  /\ exec[e].pc = "answered"
  /\ IF exec[e].answer # "duplicate" /\ StillWaiting
     THEN /\ row' = [row EXCEPT !.status = Verdict(exec[e].answer)]
          /\ exec' = [exec EXCEPT ![e].pc = "follow"]
          /\ UNCHANGED lock
     ELSE /\ exec' = [exec EXCEPT ![e] = IdleExec]
          /\ lock' = Unlocked(e)
          /\ UNCHANGED row
  /\ UNCHANGED <<signers, clock, net, upload, cron, collate, sweep, cancel,
                 archive, followed, crashes>>

ExecFollow(e) ==
  /\ exec[e].pc = "follow"
  /\ followed' = followed \union {Verdict(exec[e].answer)}
  /\ exec' = [exec EXCEPT ![e] = IdleExec]
  /\ lock' = Unlocked(e)
  /\ UNCHANGED <<row, signers, clock, net, upload, cron, collate, sweep, cancel,
                 archive, crashes>>

-----------------------------------------------------------------------------
(* cancelTransactionWithOutcome; cancelableStatuses without NEW is Open    *)

CancelLoad(c) ==
  /\ cancel[c] = "idle"
  /\ cancel' = [cancel EXCEPT ![c] =
       IF row.status = "CANCELED" THEN "ALREADY_CANCELED"
       ELSE IF row.status \in Open THEN "loaded" ELSE "OTIP"]
  /\ UNCHANGED <<row, signers, clock, net, lock, upload, cron, collate, exec,
                 sweep, archive, followed, crashes>>

CancelUpdate(c) ==
  /\ cancel[c] = "loaded"
  /\ IF StillCancelable
     THEN /\ row' = [row EXCEPT !.status = "CANCELED"]
          /\ cancel' = [cancel EXCEPT ![c] = "follow"]
     ELSE /\ cancel' = [cancel EXCEPT ![c] = "recheck"]
          /\ UNCHANGED row
  /\ UNCHANGED <<signers, clock, net, lock, upload, cron, collate, exec, sweep,
                 archive, followed, crashes>>

CancelFollow(c) ==
  /\ cancel[c] = "follow"
  /\ followed' = followed \union {"CANCELED"}
  /\ cancel' = [cancel EXCEPT ![c] = "CANCELED"]
  /\ UNCHANGED <<row, signers, clock, net, lock, upload, cron, collate, exec,
                 sweep, archive, crashes>>

CancelRecheck(c) ==
  /\ cancel[c] = "recheck"
  /\ cancel' = [cancel EXCEPT ![c] =
       IF row.status = "CANCELED" THEN "ALREADY_CANCELED"
       ELSE IF row.status \in Open THEN "CONFLICT" ELSE "OTIP"]
  /\ UNCHANGED <<row, signers, clock, net, lock, upload, cron, collate, exec,
                 sweep, archive, followed, crashes>>

(* archiveTransaction: the write is by id only.                            *)
ArchiveLoad(a) ==
  /\ archive[a] = "idle"
  /\ archive' = [archive EXCEPT ![a] =
       IF row.status \in Open \/ row.isManual THEN "loaded" ELSE "OMTIP"]
  /\ UNCHANGED <<row, signers, clock, net, lock, upload, cron, collate, exec,
                 sweep, cancel, followed, crashes>>

ArchiveUpdate(a) ==
  /\ archive[a] = "loaded"
  /\ row' = [row EXCEPT !.status = "ARCHIVED"]
  /\ archive' = [archive EXCEPT ![a] = "follow"]
  /\ UNCHANGED <<signers, clock, net, lock, upload, cron, collate, exec, sweep,
                 cancel, followed, crashes>>

ArchiveFollow(a) ==
  /\ archive[a] = "follow"
  /\ followed' = followed \union {"ARCHIVED"}
  /\ archive' = [archive EXCEPT ![a] = "ARCHIVED"]
  /\ UNCHANGED <<row, signers, clock, net, lock, upload, cron, collate, exec,
                 sweep, cancel, crashes>>

-----------------------------------------------------------------------------
(* Environment: time passes, a pod dies and is restarted                   *)

Tick ==
  /\ clock < LastPhase
  /\ clock' = clock + 1
  /\ UNCHANGED <<row, signers, net, lock, upload, cron, collate, exec, sweep,
                 cancel, archive, followed, crashes>>

(* Timeouts and requests in progress live in memory; the lock does not.    *)
Crash(p) ==
  /\ crashes < MaxCrashes
  /\ crashes' = crashes + 1
  /\ cron' = [cron EXCEPT ![p] = IdleCron]
  /\ collate' = [collate EXCEPT ![p] = IdleCollate]
  /\ exec' = [exec EXCEPT ![p] = IdleExec]
  /\ sweep' = [sweep EXCEPT ![p] = "idle"]
  /\ UNCHANGED <<row, signers, clock, net, lock, upload, cancel, archive,
                 followed>>

-----------------------------------------------------------------------------
Init ==
  /\ row \in [status : {"WAITING_FOR_SIGNATURES"}, sigs : {{}}, isManual : Manual]
  /\ signers = {}
  /\ clock = Before
  /\ net = "unknown"
  /\ lock = NoOwner
  /\ upload = [u \in Uploads |-> IdleUpload]
  /\ cron = [p \in Pods |-> IdleCron]
  /\ collate = [p \in Pods |-> IdleCollate]
  /\ exec = [e \in Executors |-> IdleExec]
  /\ sweep = [p \in Pods |-> "idle"]
  /\ cancel = [c \in Cancels |-> "idle"]
  /\ archive = [a \in Archives |-> "idle"]
  /\ followed = {}
  /\ crashes = 0

UploadStep(u) == UploadLoad(u) \/ UploadSave(u) \/ UploadFail(u) \/ UploadStatus(u)

CronStep(p)    == CronLoad(p) \/ CronUpdate(p)
CollateStep(p) == Collate(p) \/ CollateOversize(p) \/ CollateFollow(p)
SweepStep(p)   == Expire(p) \/ ExpireFollow(p)

SubmitStep(e) == SubmitAccepted(e) \/ SubmitDuplicate(e) \/ SubmitRejected(e)
ExecStep(e)   == ExecLock(e) \/ ExecGiveUp(e) \/ ExecValidate(e)
                   \/ SubmitStep(e) \/ ExecRecord(e) \/ ExecFollow(e)

CancelStep(c)  == CancelLoad(c) \/ CancelUpdate(c) \/ CancelFollow(c)
                    \/ CancelRecheck(c)
ArchiveStep(a) == ArchiveLoad(a) \/ ArchiveUpdate(a) \/ ArchiveFollow(a)

Next ==
  \/ \E u \in Uploads : UploadStep(u)
  \/ \E p \in Pods : CronStep(p) \/ CollateStep(p) \/ SweepStep(p) \/ Crash(p)
  \/ \E r \in Requests : RequestExecution(r) \/ ReleaseToScheduler(r)
  \/ \E e \in Executors : ExecStep(e)
  \/ \E c \in Cancels : CancelStep(c)
  \/ \E a \in Archives : ArchiveStep(a)
  \/ LockExpires
  \/ Tick

Spec == Init /\ [][Next]_vars

(* Timers fire and the code runs once started; users need not act, so no   *)
(* request has to begin.  A request that has begun is served to its end.   *)
Fairness ==
  /\ WF_vars(Tick) /\ WF_vars(LockExpires)
  /\ \A p \in Pods : /\ WF_vars(CronStep(p)) /\ WF_vars(CollateStep(p))
                     /\ WF_vars(SweepStep(p))
  /\ \A r \in Requests : WF_vars(ReleaseToScheduler(r))
  /\ \A e \in Executors : WF_vars(ExecStep(e))
  /\ \A u \in Uploads : WF_vars(UploadSave(u) \/ UploadFail(u) \/ UploadStatus(u))
  /\ \A c \in Cancels : WF_vars(CancelUpdate(c) \/ CancelFollow(c) \/ CancelRecheck(c))
  /\ \A a \in Archives : WF_vars(ArchiveUpdate(a) \/ ArchiveFollow(a))

FairSpec == Spec /\ Fairness

-----------------------------------------------------------------------------
(* Safety *)

(* The code implements TransactionPromise: see that module for what it     *)
(* rules out (a terminal status that changes other than to ARCHIVED, an    *)
(* EXECUTED row that consensus did not take, a submission by nobody who    *)
(* saw the transaction open, ...).                                         *)
InFlight == \E e \in Executors : exec[e].pc = "validated"

Promised == INSTANCE TransactionPromise WITH
              Ready <- "WAITING_FOR_EXECUTION", status <- row.status,
              inFlight <- InFlight
ImplementsPromise == Promised!Promise

(* The terminal statuses that clients were told, or are about to be told   *)
(* by an actor whose UPDATE affected the row.                              *)
Told ==
  followed
    \union {Verdict(exec[e].answer) : e \in {x \in Executors : exec[x].pc = "follow"}}
    \union (IF \E p \in Pods : collate[p].pc = "follow" THEN {"FAILED"} ELSE {})
    \union (IF \E p \in Pods : sweep[p] = "follow" THEN {"EXPIRED"} ELSE {})
    \union (IF \E c \in Cancels : cancel[c] = "follow" THEN {"CANCELED"} ELSE {})
    \union (IF \E a \in Archives : archive[a] = "follow" THEN {"ARCHIVED"} ELSE {})

(* However executors, creator, collation and sweep race, clients are told  *)
(* at most one end of the transaction before it is archived, and while the *)
(* row is open they are told none.                                         *)
OneVerdict ==
  /\ \A s, t \in Told \ {"ARCHIVED"} : s = t
  /\ row.status \in Open => Told = {}
  /\ row.status \in Terminal \ {"ARCHIVED"} => Told \subseteq {row.status}

(* Without a crash, every terminal status of the row has an actor that     *)
(* publishes it and captures the snapshot ("Called at every terminal state *)
(* transition", transaction-snapshot.service.ts).                          *)
EveryEndIsTold == crashes = 0 /\ row.status \in Terminal => row.status \in Told

(* What a cancel request answers is true: CANCELED and ALREADY_CANCELED    *)
(* are only answered for a row that is, and stays, canceled unless it is   *)
(* archived; and the fallback never finds the row cancelable again.        *)
CancelAnswersTruth ==
  \A c \in Cancels :
    /\ cancel[c] \in {"CANCELED", "ALREADY_CANCELED"}
         => row.status \in {"CANCELED", "ARCHIVED"}
    /\ cancel[c] # "CONFLICT"

(* No chain pod executes a manual transaction that its creator has not     *)
(* released, whatever stale copy its timers hold.                          *)
ManualIsNotAutomatic ==
  row.isManual => \A p \in Pods : exec[p].pc = "idle"

(* The signatures stripped by the collation stay in the row (comment at    *)
(* transaction-scheduler.service.ts:354); stated for one upload request.   *)
SignaturesKept == [][row.sigs \subseteq row'.sigs]_vars

-----------------------------------------------------------------------------
(* Liveness *)

(* Every transaction reaches a terminal status, whatever crashes.          *)
Ends == <>(row.status \in Terminal)

(* Unless a pod crashes, the clients always hear of the end: again and     *)
(* again, all that was announced has been captured, a terminal status among *)
(* it, by its writer or after the archive that follows it.                  *)
EndsAreTold ==
  []<>(crashes > 0 \/ (Told = followed /\ (row.status \in Terminal => row.status \in followed)))

(* Uploads that overlap and crons with stale copies may leave a status     *)
(* that the row's signatures do not justify, but not for ever: the crons   *)
(* repair it for as long as it is open (if its keys resolve).              *)
StatusIsRepaired ==
  <>[](row.status \in Open => row.status = ComputedStatus(row.sigs))

-----------------------------------------------------------------------------
(* A statement of the repository that the code does not keep *)

(* "Transaction moves from In Progress -> Ready for Execution after all    *)
(* signatures": once every signer has a transaction_signer row, the        *)
(* transaction leaves WAITING_FOR_SIGNATURES.                              *)
ReadyAfterAllSignatures ==
  Satisfied(signers) ~> row.status # "WAITING_FOR_SIGNATURES"

=============================================================================
