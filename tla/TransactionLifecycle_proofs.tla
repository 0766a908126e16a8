--------------------- MODULE TransactionLifecycle_proofs ---------------------
(***************************************************************************)
(* Theorems about TransactionLifecycle, for any number of keys, requests,  *)
(* pods and crashes.                                                       *)
(***************************************************************************)
EXTENDS TransactionLifecycle, TLAPS

-----------------------------------------------------------------------------
(* Type correctness *)

(* processTransactionStatus never leaves the statuses, and leaves the row  *)
(* alone or between the open statuses.                                     *)
LEMMA ProcessTransactionStatusType ==
  ASSUME NEW resolution, NEW status \in Open, NEW sigs
  PROVE  \/ ProcessTransactionStatus(resolution, status, sigs) = row.status
         \/ /\ row.status \in Open
            /\ ProcessTransactionStatus(resolution, status, sigs) \in Open
BY DEF ProcessTransactionStatus, ComputedStatus, Open

LEMMA CollatedFormsType ==
  ASSUME NEW sigs \in SUBSET Keys
  PROVE  CollatedForms(sigs) \subseteq SUBSET Keys
BY KeyAssumption DEF CollatedForms, Shortened, Satisfied

LEMMA IdleTypes ==
  /\ IdleUpload \in UploadState
  /\ [IdleUpload EXCEPT !.pc = "done"] \in UploadState
  /\ IdleCron \in CronState
  /\ IdleCollate \in CollateState
  /\ IdleExec \in ExecState
BY DEF IdleUpload, IdleCron, IdleCollate, IdleExec, UploadState, CronState,
       CollateState, ExecState, Open

LEMMA TypeInit == Init => TypeOK
BY IdleTypes, OwnerAssumption, KeyAssumption
   DEF Init, TypeOK, Row, Statuses, Open, Terminal, Before, Executors

LEMMA TypeNext == TypeOK /\ [Next]_vars => TypeOK'
<1> SUFFICES ASSUME TypeOK, [Next]_vars PROVE TypeOK'
  OBVIOUS
<1> USE IdleTypes DEF TypeOK, Row
<1>0. Pods \subseteq Executors /\ Requests \subseteq Executors
  BY DEF Executors
<1>1. ASSUME NEW u \in Uploads, UploadLoad(u) PROVE TypeOK'
  BY <1>1 DEF UploadLoad, UploadState
<1>2. ASSUME NEW u \in Uploads, UploadSave(u) PROVE TypeOK'
  <2>1. Carries[u] \in SUBSET Keys /\ NewSigners(u) \in SUBSET Keys
    BY KeyAssumption DEF NewSigners
  <2> HIDE DEF NewSigners
  <2>2. row' \in Row /\ signers' \in SUBSET Keys
    BY <1>2, <2>1 DEF UploadSave, UploadState
  <2>3. upload' \in [Uploads -> UploadState]
    BY <1>2, <2>1 DEF UploadSave, UploadState
  <2> QED
    BY <1>2, <2>2, <2>3 DEF UploadSave
<1>3. ASSUME NEW u \in Uploads, UploadFail(u) PROVE TypeOK'
  BY <1>3 DEF UploadFail, UploadState
<1>4. ASSUME NEW u \in Uploads, UploadStatus(u) PROVE TypeOK'
  <2>1. PICK resolution \in KeyResolution :
          row' = [row EXCEPT !.status = ProcessTransactionStatus(
                    resolution, upload[u].status, upload[u].sigs)]
    BY <1>4 DEF UploadStatus
  <2>2. row' \in Row
    <3>1. upload[u].status \in Open
      BY DEF UploadState
    <3> QED
      BY <2>1, <3>1, ProcessTransactionStatusType DEF Statuses
  <2> QED
    BY <1>4, <2>2 DEF UploadStatus, UploadState
<1>5. ASSUME NEW p \in Pods, CronLoad(p) PROVE TypeOK'
  BY <1>5 DEF CronLoad, CronState
<1>6. ASSUME NEW p \in Pods, CronUpdate(p) PROVE TypeOK'
  <2>0. PICK resolution \in KeyResolution :
          row' = [row EXCEPT !.status = ProcessTransactionStatus(
                    resolution, cron[p].status, cron[p].sigs)]
    BY <1>6 DEF CronUpdate
  <2>1. row' \in Row
    <3>1. cron[p].status \in Open
      BY DEF CronState
    <3> QED
      BY <2>0, <3>1, ProcessTransactionStatusType DEF Statuses
  <2>2. collate' \in [Pods -> CollateState]
    BY <1>6 DEF CronUpdate, CronState, CollateState
  <2> QED
    BY <1>6, <2>1, <2>2 DEF CronUpdate
<1>7. ASSUME NEW p \in Pods, Collate(p) PROVE TypeOK'
  <2>1. PICK sigs \in SUBSET Keys : AddExecutionTimeout(p, sigs)
    <3>1. collate[p].sigs \in SUBSET Keys
      BY DEF CollateState
    <3> QED
      BY <1>7, <3>1, CollatedFormsType DEF Collate
  <2>2. exec' \in [Executors -> ExecState]
    BY <1>0, <2>1 DEF AddExecutionTimeout, ExecState
  <2> QED
    BY <1>7, <2>2 DEF Collate, CollateState
<1>8. ASSUME NEW p \in Pods, CollateOversize(p) PROVE TypeOK'
  BY <1>8 DEF CollateOversize, CollateState, Statuses, Terminal
<1>9. ASSUME NEW p \in Pods, CollateFollow(p) PROVE TypeOK'
  BY <1>9 DEF CollateFollow, CollateState, Terminal
<1>10. ASSUME NEW p \in Pods, Expire(p) PROVE TypeOK'
  BY <1>10 DEF Expire, Statuses, Terminal
<1>11. ASSUME NEW p \in Pods, ExpireFollow(p) PROVE TypeOK'
  BY <1>11 DEF ExpireFollow, Terminal
<1>12. ASSUME NEW p \in Pods, Crash(p) PROVE TypeOK'
  <2>1. crashes' \in Nat
    BY <1>12 DEF Crash
  <2>2. /\ cron' \in [Pods -> CronState]
        /\ collate' \in [Pods -> CollateState]
        /\ exec' \in [Executors -> ExecState]
        /\ sweep' \in [Pods -> {"idle", "follow"}]
    BY <1>12 DEF Crash
  <2> QED
    BY <1>12, <2>1, <2>2 DEF Crash
<1>13. ASSUME NEW r \in Requests, RequestExecution(r) PROVE TypeOK'
  <2>1. exec' \in [Executors -> ExecState]
    BY <1>13, <1>0 DEF RequestExecution, ExecState
  <2> QED
    BY <1>13, <2>1 DEF RequestExecution
<1>14. ASSUME NEW r \in Requests, ReleaseToScheduler(r) PROVE TypeOK'
  <2>1. exec' \in [Executors -> ExecState]
    BY <1>14, <1>0 DEF ReleaseToScheduler
  <2>2. row' \in Row
    BY <1>14 DEF ReleaseToScheduler
  <2> QED
    BY <1>14, <2>1, <2>2 DEF ReleaseToScheduler
<1>15. ASSUME NEW e \in Executors, ExecLock(e) PROVE TypeOK'
  <2>1. exec' \in [Executors -> ExecState]
    BY <1>15 DEF ExecLock, ExecState
  <2> QED
    BY <1>15, <2>1 DEF ExecLock
<1>16. ASSUME NEW e \in Executors, ExecGiveUp(e) PROVE TypeOK'
  <2>1. exec' \in [Executors -> ExecState]
    BY <1>16 DEF ExecGiveUp
  <2> QED
    BY <1>16, <2>1 DEF ExecGiveUp
<1>17. ASSUME NEW e \in Executors, ExecValidate(e) PROVE TypeOK'
  <2>1. exec' \in [Executors -> ExecState]
    BY <1>17 DEF ExecValidate, ExecState
  <2>2. lock' \in Executors \union {NoOwner}
    BY <1>17 DEF ExecValidate, Unlocked
  <2> QED
    BY <1>17, <2>1, <2>2 DEF ExecValidate
<1>18. ASSUME NEW e \in Executors, SubmitStep(e) PROVE TypeOK'
  <2>1. exec' \in [Executors -> ExecState]
    BY <1>18 DEF SubmitStep, SubmitAccepted, SubmitDuplicate, SubmitRejected,
                  ExecState
  <2> QED
    BY <1>18, <2>1 DEF SubmitStep, SubmitAccepted, SubmitDuplicate,
                       SubmitRejected
<1>19. ASSUME NEW e \in Executors, ExecRecord(e) PROVE TypeOK'
  <2>1. exec' \in [Executors -> ExecState]
    BY <1>19 DEF ExecRecord, ExecState
  <2>2. row' \in Row /\ lock' \in Executors \union {NoOwner}
    BY <1>19 DEF ExecRecord, Unlocked, Verdict, Statuses, Terminal
  <2> QED
    BY <1>19, <2>1, <2>2 DEF ExecRecord
<1>20. ASSUME NEW e \in Executors, ExecFollow(e) PROVE TypeOK'
  <2>1. exec' \in [Executors -> ExecState]
    BY <1>20 DEF ExecFollow
  <2>2. followed' \in SUBSET Terminal /\ lock' \in Executors \union {NoOwner}
    BY <1>20 DEF ExecFollow, Unlocked, Verdict, Terminal
  <2> QED
    BY <1>20, <2>1, <2>2 DEF ExecFollow
<1>21. ASSUME NEW c \in Cancels, CancelStep(c) PROVE TypeOK'
  BY <1>21 DEF CancelStep, CancelLoad, CancelUpdate, CancelFollow,
               CancelRecheck, Statuses, Terminal
<1>22. ASSUME NEW a \in Archives, ArchiveStep(a) PROVE TypeOK'
  BY <1>22 DEF ArchiveStep, ArchiveLoad, ArchiveUpdate, ArchiveFollow,
               Statuses, Terminal
<1>23. CASE LockExpires
  BY <1>23 DEF LockExpires
<1>24. CASE Tick
  BY <1>24, BoundAssumption DEF Tick
<1>25. CASE UNCHANGED vars
  BY <1>25 DEF vars
<1> QED
  BY <1>1, <1>2, <1>3, <1>4, <1>5, <1>6, <1>7, <1>8, <1>9, <1>10, <1>11, <1>12,
     <1>13, <1>14, <1>15, <1>16, <1>17, <1>18, <1>19, <1>20, <1>21, <1>22,
     <1>23, <1>24, <1>25
     DEF Next, UploadStep, CronStep, CollateStep, SweepStep, ExecStep

(* Every variable keeps its type: statuses, program counters and lock      *)
(* owners are those that the code knows.                                   *)
THEOREM TypeCorrect == Spec => []TypeOK
BY TypeInit, TypeNext, PTL DEF Spec

-----------------------------------------------------------------------------
(* What clients are told *)

(* The effects a step may have on the row's status and on what is told.    *)
StatusKept == \/ row'.status = row.status
              \/ row.status \in Open /\ row'.status \in Open
Keeps    == StatusKept /\ Told' = Told
Forgets  == StatusKept /\ crashes' > crashes /\ Told' \subseteq Told
Closes   == /\ row.status \in Open
            /\ row'.status \in Terminal \ {"ARCHIVED"}
            /\ Told' = Told \union {row'.status}
Shelves  == row'.status = "ARCHIVED" /\ Told' = Told \union {"ARCHIVED"}

(* The parts of Told, one per kind of actor. *)
ByExec    == {Verdict(exec[e].answer) : e \in {x \in Executors : exec[x].pc = "follow"}}
ByCollate == IF \E p \in Pods : collate[p].pc = "follow" THEN {"FAILED"} ELSE {}
BySweep   == IF \E p \in Pods : sweep[p] = "follow" THEN {"EXPIRED"} ELSE {}
ByCancel  == IF \E c \in Cancels : cancel[c] = "follow" THEN {"CANCELED"} ELSE {}
ByArchive == IF \E a \in Archives : archive[a] = "follow" THEN {"ARCHIVED"} ELSE {}

LEMMA ToldParts ==
  /\ Told = followed \union ByExec \union ByCollate \union BySweep
              \union ByCancel \union ByArchive
  /\ Told' = followed' \union ByExec' \union ByCollate' \union BySweep'
               \union ByCancel' \union ByArchive'
BY DEF Told, ByExec, ByCollate, BySweep, ByCancel, ByArchive

LEMMA UploadKeepsStatus ==
  ASSUME TypeOK, NEW u \in Uploads, UploadStep(u) PROVE StatusKept
<1>1. CASE UploadLoad(u) \/ UploadFail(u)
  BY <1>1 DEF UploadLoad, UploadFail, StatusKept
<1>2. CASE UploadSave(u)
  BY <1>2 DEF UploadSave, StatusKept, TypeOK, Row
<1>3. CASE UploadStatus(u)
  <2>1. upload[u].status \in Open
    BY DEF TypeOK, UploadState
  <2> QED
    BY <1>3, <2>1, ProcessTransactionStatusType
       DEF UploadStatus, StatusKept, TypeOK, Row
<1> QED
  BY <1>1, <1>2, <1>3 DEF UploadStep

LEMMA CronKeepsStatus ==
  ASSUME TypeOK, NEW p \in Pods, CronStep(p) PROVE StatusKept
<1>1. CASE CronLoad(p)
  BY <1>1 DEF CronLoad, StatusKept
<1>2. CASE CronUpdate(p)
  <2>1. cron[p].status \in Open
    BY DEF TypeOK, CronState
  <2> QED
    BY <1>2, <2>1, ProcessTransactionStatusType
       DEF CronUpdate, StatusKept, TypeOK, Row
<1> QED
  BY <1>1, <1>2 DEF CronStep

LEMMA ToldEffect ==
  TypeOK /\ [Next]_vars => Keeps \/ Forgets \/ Closes \/ Shelves
<1> SUFFICES ASSUME TypeOK, [Next]_vars
             PROVE  Keeps \/ Forgets \/ Closes \/ Shelves
  OBVIOUS
<1> USE ToldParts
<1>a. Pods \subseteq Executors /\ Requests \subseteq Executors
  BY DEF Executors
<1>b. UNCHANGED exec => ByExec' = ByExec
  BY DEF ByExec
<1>c. UNCHANGED collate => ByCollate' = ByCollate
  BY DEF ByCollate
<1>d. UNCHANGED sweep => BySweep' = BySweep
  BY DEF BySweep
<1>e. UNCHANGED cancel => ByCancel' = ByCancel
  BY DEF ByCancel
<1>f. UNCHANGED archive => ByArchive' = ByArchive
  BY DEF ByArchive
<1>1. ASSUME NEW u \in Uploads, UploadStep(u) PROVE Keeps
  <2>1. StatusKept
    BY <1>1, UploadKeepsStatus
  <2>2. UNCHANGED <<collate, exec, sweep, cancel, archive, followed>>
    BY <1>1 DEF UploadStep, UploadLoad, UploadSave, UploadFail, UploadStatus
  <2> QED
    BY <1>b, <1>c, <1>d, <1>e, <1>f, <2>1, <2>2 DEF Keeps
<1>2. ASSUME NEW p \in Pods, CronStep(p) PROVE Keeps
  <2>1. StatusKept
    BY <1>2, CronKeepsStatus
  <2>2. UNCHANGED <<exec, sweep, cancel, archive, followed>>
    BY <1>2 DEF CronStep, CronLoad, CronUpdate
  <2>3. ByCollate' = ByCollate
    BY <1>2 DEF CronStep, CronLoad, CronUpdate, ByCollate, TypeOK, CollateState
  <2> QED
    BY <1>b, <1>d, <1>e, <1>f, <2>1, <2>2, <2>3 DEF Keeps
<1>3. ASSUME NEW p \in Pods, Collate(p) PROVE Keeps
  <2>1. UNCHANGED <<row, sweep, cancel, archive, followed>>
    BY <1>3 DEF Collate
  <2>2. ByCollate' = ByCollate
    BY <1>3 DEF Collate, ByCollate, IdleCollate, TypeOK, CollateState
  <2>3. PICK sigs : AddExecutionTimeout(p, sigs)
    BY <1>3 DEF Collate
  <2>4. ByExec' = ByExec
    <3>1. \A e \in Executors :
            /\ exec'[e].pc = "follow" <=> exec[e].pc = "follow"
            /\ exec[e].pc = "follow" => exec'[e] = exec[e]
      BY <1>a, <2>3 DEF AddExecutionTimeout, TypeOK, ExecState
    <3> QED
      BY <3>1 DEF ByExec
  <2> QED
    BY <1>d, <1>e, <1>f, <2>1, <2>2, <2>4 DEF Keeps, StatusKept
<1>4. ASSUME NEW p \in Pods, CollateOversize(p) PROVE Keeps \/ Closes
  <2>1. UNCHANGED <<exec, sweep, cancel, archive, followed>>
    BY <1>4 DEF CollateOversize
  <2>2. CASE Satisfied(collate[p].sigs) /\ StillWaiting
    <3>1. ByCollate' = {"FAILED"}
      <4>1. collate' = [collate EXCEPT ![p] = [IdleCollate EXCEPT !.pc = "follow"]]
        BY <1>4, <2>2 DEF CollateOversize
      <4>2. collate'[p].pc = "follow"
        BY <4>1 DEF TypeOK, IdleCollate
      <4> QED
        BY <4>2 DEF ByCollate
    <3>2. row.status \in Open /\ row'.status = "FAILED"
      BY <1>4, <2>2 DEF CollateOversize, StillWaiting, Open, TypeOK, Row
    <3>3. ByCollate \subseteq {"FAILED"}
      BY DEF ByCollate
    <3> QED
      BY <1>b, <1>d, <1>e, <1>f, <2>1, <3>1, <3>2, <3>3 DEF Closes, Terminal
  <2>3. CASE ~(Satisfied(collate[p].sigs) /\ StillWaiting)
    <3>1. ByCollate' = ByCollate /\ UNCHANGED row
      <4>1. /\ collate[p].pc = "armed"
            /\ collate' = [collate EXCEPT ![p] = IdleCollate]
            /\ UNCHANGED row
        BY <1>4, <2>3 DEF CollateOversize
      <4>2. /\ collate'[p].pc # "follow"
            /\ \A x \in Pods \ {p} : collate'[x] = collate[x]
        BY <4>1 DEF TypeOK, IdleCollate
      <4> QED
        BY <4>1, <4>2 DEF ByCollate
    <3> QED
      BY <1>b, <1>d, <1>e, <1>f, <2>1, <3>1 DEF Keeps, StatusKept
  <2> QED
    BY <2>2, <2>3
<1>5. ASSUME NEW p \in Pods, CollateFollow(p) PROVE Keeps
  <2>1. UNCHANGED <<row, exec, sweep, cancel, archive>>
    BY <1>5 DEF CollateFollow
  <2>2. ByCollate = {"FAILED"} /\ ByCollate' \subseteq {"FAILED"}
    BY <1>5 DEF CollateFollow, ByCollate
  <2>3. followed' = followed \union {"FAILED"}
    BY <1>5 DEF CollateFollow
  <2> QED
    BY <1>b, <1>d, <1>e, <1>f, <2>1, <2>2, <2>3 DEF Keeps, StatusKept
<1>6. ASSUME NEW p \in Pods, Expire(p) PROVE Closes
  <2>1. UNCHANGED <<exec, collate, cancel, archive, followed>>
    BY <1>6 DEF Expire
  <2>2. BySweep \subseteq {"EXPIRED"} /\ BySweep' = {"EXPIRED"}
    BY <1>6 DEF Expire, BySweep, TypeOK
  <2>3. row.status \in Open /\ row'.status = "EXPIRED"
    BY <1>6 DEF Expire, Expirable, TypeOK, Row
  <2> QED
    BY <1>b, <1>c, <1>e, <1>f, <2>1, <2>2, <2>3 DEF Closes, Terminal
<1>7. ASSUME NEW p \in Pods, ExpireFollow(p) PROVE Keeps
  <2>1. UNCHANGED <<row, exec, collate, cancel, archive>>
    BY <1>7 DEF ExpireFollow
  <2>2. BySweep = {"EXPIRED"} /\ BySweep' \subseteq {"EXPIRED"}
    BY <1>7 DEF ExpireFollow, BySweep
  <2>3. followed' = followed \union {"EXPIRED"}
    BY <1>7 DEF ExpireFollow
  <2> QED
    BY <1>b, <1>c, <1>e, <1>f, <2>1, <2>2, <2>3 DEF Keeps, StatusKept
<1>8. ASSUME NEW p \in Pods, Crash(p) PROVE Forgets
  <2>1. UNCHANGED <<row, cancel, archive, followed>> /\ crashes' > crashes
    BY <1>8 DEF Crash, TypeOK
  <2>2. /\ ByCollate' \subseteq ByCollate
        /\ BySweep' \subseteq BySweep
    BY <1>8 DEF Crash, IdleCollate, ByCollate, BySweep, TypeOK, CollateState
  <2>3. ByExec' \subseteq ByExec
    <3>1. \A e \in Executors : exec'[e].pc = "follow" => exec'[e] = exec[e]
      BY <1>8, <1>a DEF Crash, IdleExec, TypeOK
    <3> QED
      BY <3>1 DEF ByExec
  <2> QED
    BY <1>e, <1>f, <2>1, <2>2, <2>3 DEF Forgets, StatusKept
(* Steps of an executor that neither enter nor leave "follow". *)
<1>9. ASSUME UNCHANGED <<collate, sweep, cancel, archive, followed>>,
             StatusKept,
             NEW e \in Executors, exec[e].pc # "follow",
             NEW new \in ExecState, new.pc # "follow",
             exec' = [exec EXCEPT ![e] = new]
      PROVE  Keeps
  <2>1. \A x \in Executors :
          /\ exec'[x].pc = "follow" <=> exec[x].pc = "follow"
          /\ exec[x].pc = "follow" => exec'[x] = exec[x]
    BY <1>9 DEF TypeOK
  <2>2. ByExec' = ByExec
    BY <2>1 DEF ByExec
  <2> QED
    BY <1>c, <1>d, <1>e, <1>f, <1>9, <2>2 DEF Keeps
<1>10. ASSUME NEW r \in Requests, RequestExecution(r) \/ ReleaseToScheduler(r)
       PROVE  Keeps
  <2>1. /\ UNCHANGED <<collate, sweep, cancel, archive, followed>>
        /\ StatusKept
        /\ exec[r].pc # "follow"
    BY <1>10 DEF RequestExecution, ReleaseToScheduler, StatusKept, TypeOK, Row
  <2>2. PICK new \in ExecState : /\ new.pc # "follow"
                                 /\ exec' = [exec EXCEPT ![r] = new]
    BY <1>10 DEF RequestExecution, ReleaseToScheduler, IdleExec, ExecState,
                 TypeOK, Row
  <2> QED
    BY <1>a, <1>9, <2>1, <2>2
<1>11. ASSUME NEW e \in Executors,
              ExecLock(e) \/ ExecGiveUp(e) \/ ExecValidate(e) \/ SubmitStep(e)
       PROVE  Keeps
  <2>1. /\ UNCHANGED <<collate, sweep, cancel, archive, followed>>
        /\ StatusKept
        /\ exec[e].pc # "follow"
    BY <1>11 DEF ExecLock, ExecGiveUp, ExecValidate, SubmitStep, SubmitAccepted,
                 SubmitDuplicate, SubmitRejected, StatusKept
  <2>2. PICK new \in ExecState : /\ new.pc # "follow"
                                 /\ exec' = [exec EXCEPT ![e] = new]
    <3>1. exec[e] \in ExecState
      BY DEF TypeOK
    <3>2. CASE ExecLock(e)
      <4>1. [exec[e] EXCEPT !.pc = "locked"] \in ExecState
        BY <3>1 DEF ExecState
      <4>2. [exec[e] EXCEPT !.pc = "locked"].pc # "follow"
        BY <3>1 DEF ExecState
      <4> QED
        BY <3>2, <4>1, <4>2 DEF ExecLock
    <3>3. CASE ExecGiveUp(e)
      BY <3>3, IdleTypes DEF ExecGiveUp, IdleExec
    <3>4. CASE ExecValidate(e)
      <4>1. CASE exec' = [exec EXCEPT ![e] = IdleExec]
        BY <4>1, IdleTypes DEF IdleExec
      <4>2. CASE exec' = [exec EXCEPT ![e].pc = "validated"]
        <5>1. [exec[e] EXCEPT !.pc = "validated"] \in ExecState
          BY <3>1 DEF ExecState
        <5>2. [exec[e] EXCEPT !.pc = "validated"].pc # "follow"
          BY <3>1 DEF ExecState
        <5> QED
          BY <4>2, <5>1, <5>2
      <4> QED
        BY <3>4, <4>1, <4>2 DEF ExecValidate
    <3>5. CASE SubmitStep(e)
      <4>1. PICK answer \in {"ok", "error", "duplicate"} :
              exec' = [exec EXCEPT ![e].pc = "answered", ![e].answer = answer]
        BY <3>5 DEF SubmitStep, SubmitAccepted, SubmitDuplicate, SubmitRejected
      <4>2. [exec[e] EXCEPT !.pc = "answered", !.answer = answer] \in ExecState
        BY <3>1 DEF ExecState
      <4>3. [exec[e] EXCEPT !.pc = "answered", !.answer = answer].pc # "follow"
        BY <3>1 DEF ExecState
      <4>4. exec' = [exec EXCEPT ![e] =
                       [exec[e] EXCEPT !.pc = "answered", !.answer = answer]]
        BY <3>1, <4>1 DEF TypeOK, ExecState
      <4> QED
        BY <4>2, <4>3, <4>4
    <3> QED
      BY <1>11, <3>2, <3>3, <3>4, <3>5
  <2> QED
    BY <1>9, <2>1, <2>2
<1>12. ASSUME NEW e \in Executors, ExecRecord(e) PROVE Keeps \/ Closes
  <2>1. UNCHANGED <<collate, sweep, cancel, archive, followed>>
    BY <1>12 DEF ExecRecord
  <2>2. CASE exec[e].answer # "duplicate" /\ StillWaiting
    <3>1. /\ exec' = [exec EXCEPT ![e].pc = "follow"]
          /\ row' = [row EXCEPT !.status = Verdict(exec[e].answer)]
      BY <1>12, <2>2 DEF ExecRecord
    <3>2. /\ row.status \in Open
          /\ row'.status = Verdict(exec[e].answer)
          /\ row'.status \in Terminal \ {"ARCHIVED"}
      BY <2>2, <3>1 DEF StillWaiting, Open, Terminal, Verdict, TypeOK, Row
    <3>3. /\ exec'[e].pc = "follow" /\ exec'[e].answer = exec[e].answer
          /\ \A x \in Executors \ {e} : exec'[x] = exec[x]
          /\ exec[e].pc # "follow"
      BY <1>12, <3>1 DEF ExecRecord, TypeOK, ExecState
    <3>4. ByExec' = ByExec \union {Verdict(exec[e].answer)}
      <4>1. ByExec' \subseteq ByExec \union {Verdict(exec[e].answer)}
        BY <3>3 DEF ByExec
      <4>2. ByExec \subseteq ByExec'
        BY <3>3 DEF ByExec
      <4>3. Verdict(exec[e].answer) \in ByExec'
        BY <3>3 DEF ByExec
      <4> QED
        BY <4>1, <4>2, <4>3
    <3> QED
      BY <1>c, <1>d, <1>e, <1>f, <2>1, <3>2, <3>4 DEF Closes
  <2>3. CASE ~(exec[e].answer # "duplicate" /\ StillWaiting)
    <3>1. exec' = [exec EXCEPT ![e] = IdleExec] /\ UNCHANGED row
      BY <1>12, <2>3 DEF ExecRecord
    <3>2. IdleExec \in ExecState /\ IdleExec.pc # "follow"
      BY IdleTypes DEF IdleExec
    <3>3. exec[e].pc # "follow"
      BY <1>12 DEF ExecRecord
    <3>4. StatusKept
      BY <3>1 DEF StatusKept
    <3> QED
      BY <1>9, <2>1, <3>1, <3>2, <3>3, <3>4
  <2> QED
    BY <2>2, <2>3
<1>13. ASSUME NEW e \in Executors, ExecFollow(e) PROVE Keeps
  <2>1. /\ UNCHANGED <<row, collate, sweep, cancel, archive>>
        /\ followed' = followed \union {Verdict(exec[e].answer)}
        /\ exec' = [exec EXCEPT ![e] = IdleExec]
        /\ exec[e].pc = "follow"
    BY <1>13 DEF ExecFollow
  <2>2. /\ exec'[e].pc # "follow"
        /\ \A x \in Executors \ {e} : exec'[x] = exec[x]
    BY <2>1 DEF TypeOK, IdleExec
  <2>3. ByExec \subseteq ByExec' \union {Verdict(exec[e].answer)}
    BY <2>2 DEF ByExec
  <2>4. ByExec' \subseteq ByExec
    BY <2>2 DEF ByExec
  <2>5. Verdict(exec[e].answer) \in ByExec
    BY <2>1 DEF ByExec
  <2> QED
    BY <1>c, <1>d, <1>e, <1>f, <2>1, <2>3, <2>4, <2>5 DEF Keeps, StatusKept
<1>14. ASSUME NEW c \in Cancels, CancelStep(c) PROVE Keeps \/ Closes
  <2>1. UNCHANGED <<exec, collate, sweep, archive>>
    BY <1>14 DEF CancelStep, CancelLoad, CancelUpdate, CancelFollow,
                 CancelRecheck
  <2>2. CASE CancelLoad(c) \/ CancelRecheck(c)
    <3>1. UNCHANGED <<row, followed>> /\ ByCancel' = ByCancel
      BY <2>2 DEF CancelLoad, CancelRecheck, ByCancel, TypeOK
    <3> QED
      BY <1>b, <1>c, <1>d, <1>f, <2>1, <3>1 DEF Keeps, StatusKept
  <2>3. CASE CancelUpdate(c)
    <3>1. CASE StillCancelable
      <4>1. ByCancel \subseteq {"CANCELED"} /\ ByCancel' = {"CANCELED"}
        BY <2>3, <3>1 DEF CancelUpdate, ByCancel, TypeOK
      <4>2. row.status \in Open /\ row'.status = "CANCELED"
        BY <2>3, <3>1 DEF CancelUpdate, StillCancelable, TypeOK, Row
      <4>3. UNCHANGED followed
        BY <2>3 DEF CancelUpdate
      <4> QED
        BY <1>b, <1>c, <1>d, <1>f, <2>1, <4>1, <4>2, <4>3 DEF Closes, Terminal
    <3>2. CASE ~StillCancelable
      <4>1. UNCHANGED <<row, followed>> /\ ByCancel' = ByCancel
        BY <2>3, <3>2 DEF CancelUpdate, ByCancel, TypeOK
      <4> QED
        BY <1>b, <1>c, <1>d, <1>f, <2>1, <4>1 DEF Keeps, StatusKept
    <3> QED
      BY <3>1, <3>2
  <2>4. CASE CancelFollow(c)
    <3>1. ByCancel = {"CANCELED"} /\ ByCancel' \subseteq {"CANCELED"}
      BY <2>4 DEF CancelFollow, ByCancel
    <3>2. followed' = followed \union {"CANCELED"} /\ UNCHANGED row
      BY <2>4 DEF CancelFollow
    <3> QED
      BY <1>b, <1>c, <1>d, <1>f, <2>1, <3>1, <3>2 DEF Keeps, StatusKept
  <2> QED
    BY <1>14, <2>2, <2>3, <2>4 DEF CancelStep
<1>15. ASSUME NEW a \in Archives, ArchiveStep(a) PROVE Keeps \/ Shelves
  <2>1. UNCHANGED <<exec, collate, sweep, cancel>>
    BY <1>15 DEF ArchiveStep, ArchiveLoad, ArchiveUpdate, ArchiveFollow
  <2>2. CASE ArchiveLoad(a)
    <3>1. UNCHANGED <<row, followed>> /\ ByArchive' = ByArchive
      BY <2>2 DEF ArchiveLoad, ByArchive, TypeOK
    <3> QED
      BY <1>b, <1>c, <1>d, <1>e, <2>1, <3>1 DEF Keeps, StatusKept
  <2>3. CASE ArchiveUpdate(a)
    <3>1. ByArchive \subseteq {"ARCHIVED"} /\ ByArchive' = {"ARCHIVED"}
      BY <2>3 DEF ArchiveUpdate, ByArchive, TypeOK
    <3>2. row'.status = "ARCHIVED" /\ UNCHANGED followed
      BY <2>3 DEF ArchiveUpdate, TypeOK, Row
    <3> QED
      BY <1>b, <1>c, <1>d, <1>e, <2>1, <3>1, <3>2 DEF Shelves
  <2>4. CASE ArchiveFollow(a)
    <3>1. ByArchive = {"ARCHIVED"} /\ ByArchive' \subseteq {"ARCHIVED"}
      BY <2>4 DEF ArchiveFollow, ByArchive
    <3>2. followed' = followed \union {"ARCHIVED"} /\ UNCHANGED row
      BY <2>4 DEF ArchiveFollow
    <3> QED
      BY <1>b, <1>c, <1>d, <1>e, <2>1, <3>1, <3>2 DEF Keeps, StatusKept
  <2> QED
    BY <1>15, <2>2, <2>3, <2>4 DEF ArchiveStep
<1>16. CASE LockExpires \/ Tick \/ UNCHANGED vars
  <2>1. UNCHANGED <<row, exec, collate, sweep, cancel, archive, followed>>
    BY <1>16 DEF LockExpires, Tick, vars
  <2> QED
    BY <1>b, <1>c, <1>d, <1>e, <1>f, <2>1 DEF Keeps, StatusKept
<1> QED
  BY <1>1, <1>2, <1>3, <1>4, <1>5, <1>6, <1>7, <1>8, <1>10, <1>11, <1>12, <1>13,
     <1>14, <1>15, <1>16
     DEF Next, CollateStep, SweepStep, ExecStep

(* Clients are told at most one end of a transaction before it is          *)
(* archived, and none while it is open: an executor that records an        *)
(* answer, a cancel, a collation that fails and the expiration sweep are   *)
(* excluded from each other by the WHERE clauses of their UPDATEs.         *)
THEOREM OneVerdictHolds == Spec => []OneVerdict
<1>1. Init => OneVerdict
  <2> SUFFICES ASSUME Init PROVE Told = {}
    BY DEF OneVerdict
  <2>1. followed = {} /\ ByExec = {} /\ ByCollate = {} /\ BySweep = {}
          /\ ByCancel = {} /\ ByArchive = {}
    BY DEF Init, ByExec, ByCollate, BySweep, ByCancel, ByArchive, IdleExec,
           IdleCollate
  <2> QED
    BY <2>1, ToldParts
<1>2. TypeOK /\ OneVerdict /\ [Next]_vars => OneVerdict'
  <2> SUFFICES ASSUME TypeOK, OneVerdict, [Next]_vars PROVE OneVerdict'
    OBVIOUS
  <2>0. TypeOK'
    BY TypeNext
  <2>1. CASE Keeps \/ Forgets
    BY <2>1 DEF OneVerdict, Keeps, Forgets, StatusKept, Open, Terminal
  <2>2. CASE Closes
    BY <2>2 DEF OneVerdict, Closes, Open, Terminal
  <2>3. CASE Shelves
    BY <2>3 DEF OneVerdict, Shelves, Open, Terminal
  <2> QED
    BY <2>1, <2>2, <2>3, ToldEffect
<1> QED
  BY <1>1, <1>2, TypeCorrect, PTL DEF Spec

LEMMA CrashesGrow ==
  ASSUME TypeOK, [Next]_vars PROVE crashes' >= crashes
<1>1. ASSUME NEW p \in Pods, Crash(p) PROVE crashes' >= crashes
  BY <1>1 DEF Crash, TypeOK
<1>2. ASSUME NEW u \in Uploads, UploadStep(u) PROVE UNCHANGED crashes
  BY <1>2 DEF UploadStep, UploadLoad, UploadSave, UploadFail, UploadStatus
<1>3. ASSUME NEW p \in Pods, CronStep(p) \/ CollateStep(p) \/ SweepStep(p)
      PROVE  UNCHANGED crashes
  BY <1>3 DEF CronStep, CronLoad, CronUpdate, CollateStep, Collate,
              CollateOversize, CollateFollow, SweepStep, Expire, ExpireFollow
<1>4. ASSUME NEW r \in Requests, RequestExecution(r) \/ ReleaseToScheduler(r)
      PROVE  UNCHANGED crashes
  BY <1>4 DEF RequestExecution, ReleaseToScheduler
<1>5. ASSUME NEW e \in Executors, ExecStep(e) PROVE UNCHANGED crashes
  BY <1>5 DEF ExecStep, ExecLock, ExecGiveUp, ExecValidate, SubmitStep,
              SubmitAccepted, SubmitDuplicate, SubmitRejected, ExecRecord,
              ExecFollow
<1>6. ASSUME NEW c \in Cancels, CancelStep(c) PROVE UNCHANGED crashes
  BY <1>6 DEF CancelStep, CancelLoad, CancelUpdate, CancelFollow, CancelRecheck
<1>7. ASSUME NEW a \in Archives, ArchiveStep(a) PROVE UNCHANGED crashes
  BY <1>7 DEF ArchiveStep, ArchiveLoad, ArchiveUpdate, ArchiveFollow
<1>8. CASE LockExpires \/ Tick \/ UNCHANGED vars
  BY <1>8 DEF LockExpires, Tick, vars, TypeOK
<1> QED
  BY <1>1, <1>2, <1>3, <1>4, <1>5, <1>6, <1>7, <1>8 DEF Next, TypeOK

(* Without a crash, every terminal status of the row is told: whoever      *)
(* writes it goes on to publish it and to capture the snapshot.            *)
THEOREM EveryEndIsToldHolds == Spec => []EveryEndIsTold
<1>1. Init => EveryEndIsTold
  BY DEF Init, EveryEndIsTold, Terminal
<1>2. TypeOK /\ EveryEndIsTold /\ [Next]_vars => EveryEndIsTold'
  <2> SUFFICES ASSUME TypeOK, EveryEndIsTold, [Next]_vars, crashes' = 0
               PROVE  row'.status \in Terminal => row'.status \in Told'
    BY DEF EveryEndIsTold
  <2>1. TypeOK' /\ crashes = 0
    <3>1. crashes' >= crashes
      BY CrashesGrow
    <3> QED
      BY <3>1, TypeNext DEF TypeOK
  <2>2. ~Forgets
    BY <2>1 DEF Forgets
  <2> QED
    BY <2>1, <2>2, ToldEffect
       DEF EveryEndIsTold, Keeps, Closes, Shelves, StatusKept, Open, Terminal
<1> QED
  BY <1>1, <1>2, TypeCorrect, PTL DEF Spec

-----------------------------------------------------------------------------
(* The refinement of TransactionPromise *)

(* An executor holds a success only if consensus took the transaction. *)
OkIsTrue == \A e \in Executors : exec[e].answer = "ok" => net = "success"

LEMMA OkIsTrueHolds == Spec => []OkIsTrue
<1>1. Init => OkIsTrue
  BY DEF Init, OkIsTrue, IdleExec
<1>2. TypeOK /\ OkIsTrue /\ [Next]_vars => OkIsTrue'
  <2> SUFFICES ASSUME TypeOK, OkIsTrue, [Next]_vars PROVE OkIsTrue'
    OBVIOUS
  <2>0. Pods \subseteq Executors /\ Requests \subseteq Executors
    BY DEF Executors
  <2> USE <2>0, IdleTypes DEF OkIsTrue
  <2>1. CASE UNCHANGED <<exec, net>>
    BY <2>1
  (* A step that gives one executor a state without a success. *)
  <2>2. ASSUME NEW e \in Executors, UNCHANGED net, NEW new \in ExecState,
               exec' = [exec EXCEPT ![e] = new], new.answer # "ok"
        PROVE  OkIsTrue'
    BY <2>2 DEF TypeOK
  (* A step that gives one executor another program counter only. *)
  <2>3. ASSUME NEW e \in Executors, UNCHANGED net, NEW pc,
               exec' = [exec EXCEPT ![e].pc = pc]
        PROVE  OkIsTrue'
    BY <2>3 DEF TypeOK, ExecState
  <2>4. IdleExec.answer # "ok"
    BY DEF IdleExec
  <2>5. ASSUME NEW u \in Uploads, UploadStep(u) PROVE OkIsTrue'
    BY <2>1, <2>5 DEF UploadStep, UploadLoad, UploadSave, UploadFail, UploadStatus
  <2>6. ASSUME NEW p \in Pods,
               CronStep(p) \/ CollateOversize(p) \/ CollateFollow(p) \/ SweepStep(p)
        PROVE  OkIsTrue'
    BY <2>1, <2>6 DEF CronStep, CronLoad, CronUpdate, CollateOversize,
                      CollateFollow, SweepStep, Expire, ExpireFollow
  <2>7. ASSUME NEW p \in Pods, Collate(p) PROVE OkIsTrue'
    <3>1. PICK sigs : AddExecutionTimeout(p, sigs)
      BY <2>7 DEF Collate
    <3> QED
      BY <2>7, <3>1 DEF Collate, AddExecutionTimeout, TypeOK
  <2>8. ASSUME NEW p \in Pods, Crash(p) PROVE OkIsTrue'
    BY <2>2, <2>4, <2>8 DEF Crash
  <2>9. ASSUME NEW r \in Requests, RequestExecution(r) \/ ReleaseToScheduler(r)
        PROVE  OkIsTrue'
    BY <2>9 DEF RequestExecution, ReleaseToScheduler, IdleExec, TypeOK
  <2>10. ASSUME NEW e \in Executors, ExecLock(e) \/ ExecGiveUp(e) \/ ExecValidate(e)
         PROVE  OkIsTrue'
    BY <2>2, <2>3, <2>4, <2>10 DEF ExecLock, ExecGiveUp, ExecValidate
  <2>11. ASSUME NEW e \in Executors, SubmitStep(e) PROVE OkIsTrue'
    <3>1. CASE SubmitAccepted(e)
      BY <3>1 DEF SubmitAccepted, TypeOK, ExecState
    <3>2. CASE SubmitDuplicate(e) \/ SubmitRejected(e)
      BY <3>2 DEF SubmitDuplicate, SubmitRejected, TypeOK, ExecState
    <3> QED
      BY <2>11, <3>1, <3>2 DEF SubmitStep
  <2>12. ASSUME NEW e \in Executors, ExecRecord(e) \/ ExecFollow(e)
         PROVE  OkIsTrue'
    BY <2>2, <2>3, <2>4, <2>12 DEF ExecRecord, ExecFollow
  <2>13. ASSUME NEW c \in Cancels, CancelStep(c) PROVE OkIsTrue'
    BY <2>1, <2>13 DEF CancelStep, CancelLoad, CancelUpdate, CancelFollow,
                       CancelRecheck
  <2>14. ASSUME NEW a \in Archives, ArchiveStep(a) PROVE OkIsTrue'
    BY <2>1, <2>14 DEF ArchiveStep, ArchiveLoad, ArchiveUpdate, ArchiveFollow
  <2>15. CASE LockExpires \/ Tick \/ UNCHANGED vars
    BY <2>1, <2>15 DEF LockExpires, Tick, vars
  <2> QED
    BY <2>5, <2>6, <2>7, <2>8, <2>9, <2>10, <2>11, <2>12, <2>13, <2>14, <2>15
       DEF Next, CollateStep, ExecStep
<1> QED
  BY <1>1, <1>2, TypeCorrect, PTL DEF Spec

(* Nobody enters or leaves the state in which he may submit. *)
SameInFlight == InFlight' = InFlight

LEMMA RefinementInit == Init => Promised!PromiseInit
BY DEF Init, Promised!PromiseInit, Open, InFlight, IdleExec

LEMMA RefinementStep ==
  TypeOK /\ OkIsTrue /\ [Next]_vars
    => [Promised!PromiseNext]_(Promised!promiseVars)
<1> SUFFICES ASSUME TypeOK, OkIsTrue, [Next]_vars
             PROVE  [Promised!PromiseNext]_(Promised!promiseVars)
  OBVIOUS
<1> USE DEF Promised!PromiseNext, Promised!promiseVars
<1>a. Pods \subseteq Executors /\ Requests \subseteq Executors
  BY DEF Executors
<1>b. UNCHANGED exec => SameInFlight
  BY DEF SameInFlight, InFlight
(* One executor moves, neither from nor to "validated". *)
<1>c. ASSUME NEW e \in Executors, exec[e].pc # "validated",
             exec'[e].pc # "validated",
             \A x \in Executors \ {e} : exec'[x] = exec[x]
      PROVE  SameInFlight
  BY <1>c DEF SameInFlight, InFlight
(* A step between the open statuses, or that leaves the status alone. *)
<1>d. ASSUME StatusKept, SameInFlight, UNCHANGED net
      PROVE  Promised!Review \/ UNCHANGED Promised!promiseVars
  BY <1>d DEF StatusKept, SameInFlight, Promised!Review
<1>e. ASSUME UNCHANGED <<row, net>>, InFlight' => InFlight
      PROVE  Promised!Drop \/ UNCHANGED Promised!promiseVars
  BY <1>e DEF InFlight, Promised!Drop
<1>1. ASSUME NEW u \in Uploads, UploadStep(u)
      PROVE  [Promised!PromiseNext]_(Promised!promiseVars)
  <2>1. StatusKept
    BY <1>1, UploadKeepsStatus
  <2>2. UNCHANGED <<exec, net>>
    BY <1>1 DEF UploadStep, UploadLoad, UploadSave, UploadFail, UploadStatus
  <2> QED
    BY <1>b, <1>d, <2>1, <2>2
<1>2. ASSUME NEW p \in Pods, CronStep(p)
      PROVE  [Promised!PromiseNext]_(Promised!promiseVars)
  <2>1. UNCHANGED <<exec, net>>
    BY <1>2 DEF CronStep, CronLoad, CronUpdate
  <2> QED
    BY <1>2, <1>b, <1>d, <2>1, CronKeepsStatus
<1>3. ASSUME NEW p \in Pods, Collate(p)
      PROVE  [Promised!PromiseNext]_(Promised!promiseVars)
  <2>1. PICK sigs : AddExecutionTimeout(p, sigs)
    BY <1>3 DEF Collate
  <2>2. SameInFlight
    BY <1>a, <1>b, <1>c, <2>1 DEF AddExecutionTimeout, TypeOK
  <2> QED
    BY <1>3, <1>d, <2>2 DEF Collate, StatusKept
<1>4. ASSUME NEW p \in Pods, CollateOversize(p)
      PROVE  [Promised!PromiseNext]_(Promised!promiseVars)
  <2>1. UNCHANGED <<exec, net>> /\ SameInFlight
    BY <1>4, <1>b DEF CollateOversize
  <2>2. \/ UNCHANGED row
        \/ row.status = "WAITING_FOR_EXECUTION" /\ row'.status = "FAILED"
    <3>1. CASE Satisfied(collate[p].sigs) /\ StillWaiting
      BY <1>4, <3>1 DEF CollateOversize, StillWaiting, TypeOK, Row
    <3>2. CASE ~(Satisfied(collate[p].sigs) /\ StillWaiting)
      BY <1>4, <3>2 DEF CollateOversize
    <3> QED
      BY <3>1, <3>2
  <2> QED
    BY <1>d, <2>1, <2>2 DEF Promised!Record, SameInFlight, StatusKept
<1>5. ASSUME NEW p \in Pods, CollateFollow(p) \/ ExpireFollow(p)
      PROVE  [Promised!PromiseNext]_(Promised!promiseVars)
  <2>1. UNCHANGED <<row, exec, net>>
    BY <1>5 DEF CollateFollow, ExpireFollow
  <2> QED
    BY <1>b, <1>d, <2>1 DEF StatusKept
<1>6. ASSUME NEW p \in Pods, Expire(p)
      PROVE  [Promised!PromiseNext]_(Promised!promiseVars)
  <2>1. UNCHANGED <<exec, net>> /\ SameInFlight
    BY <1>6, <1>b DEF Expire
  <2>2. row.status \in Open /\ row'.status = "EXPIRED"
    BY <1>6 DEF Expire, Expirable, TypeOK, Row
  <2> QED
    BY <2>1, <2>2 DEF Promised!Close, SameInFlight
<1>7. ASSUME NEW p \in Pods, Crash(p)
      PROVE  [Promised!PromiseNext]_(Promised!promiseVars)
  <2>1. UNCHANGED <<row, net>>
    BY <1>7 DEF Crash
  <2>2. InFlight' => InFlight
    BY <1>7, <1>a DEF Crash, InFlight, IdleExec, TypeOK
  <2> QED
    BY <1>e, <2>1, <2>2
<1>8. ASSUME NEW r \in Requests, RequestExecution(r) \/ ReleaseToScheduler(r)
      PROVE  [Promised!PromiseNext]_(Promised!promiseVars)
  <2>1. StatusKept /\ UNCHANGED net
    BY <1>8 DEF RequestExecution, ReleaseToScheduler, StatusKept, TypeOK, Row
  <2>2. SameInFlight
    BY <1>8, <1>a, <1>c DEF RequestExecution, ReleaseToScheduler, IdleExec, TypeOK
  <2> QED
    BY <1>d, <2>1, <2>2
<1>9. ASSUME NEW e \in Executors, ExecLock(e) \/ ExecGiveUp(e) \/ ExecFollow(e)
      PROVE  [Promised!PromiseNext]_(Promised!promiseVars)
  <2>1. UNCHANGED <<row, net>>
    BY <1>9 DEF ExecLock, ExecGiveUp, ExecFollow
  <2>2. SameInFlight
    <3>1. exec[e] \in ExecState
      BY DEF TypeOK
    <3> QED
      BY <1>9, <1>c, <3>1 DEF ExecLock, ExecGiveUp, ExecFollow, IdleExec, TypeOK,
                              ExecState
  <2> QED
    BY <1>d, <2>1, <2>2 DEF StatusKept
<1>10. ASSUME NEW e \in Executors, ExecValidate(e)
       PROVE  [Promised!PromiseNext]_(Promised!promiseVars)
  <2>1. UNCHANGED <<row, net>> /\ exec[e].pc = "locked"
    BY <1>10 DEF ExecValidate
  <2>2. CASE exec' = [exec EXCEPT ![e] = IdleExec]
    <3>1. SameInFlight
      BY <1>c, <2>1, <2>2 DEF IdleExec, TypeOK
    <3> QED
      BY <1>d, <2>1, <3>1 DEF StatusKept
  <2>3. CASE StatusAllowsExecution /\ exec' = [exec EXCEPT ![e].pc = "validated"]
    <3>1. InFlight' = TRUE
      BY <2>3 DEF InFlight, TypeOK, ExecState
    <3> QED
      BY <2>1, <2>3, <3>1 DEF Promised!Take, StatusAllowsExecution
  <2> QED
    BY <1>10, <2>2, <2>3 DEF ExecValidate
<1>11. ASSUME NEW e \in Executors, SubmitAccepted(e)
       PROVE  [Promised!PromiseNext]_(Promised!promiseVars)
  <2>1. InFlight /\ net = "unknown" /\ net' \in {"success", "failure"}
          /\ UNCHANGED row
    BY <1>11 DEF SubmitAccepted, InFlight
  <2> QED
    BY <2>1 DEF Promised!Settle, InFlight
<1>12. ASSUME NEW e \in Executors, SubmitDuplicate(e) \/ SubmitRejected(e)
       PROVE  [Promised!PromiseNext]_(Promised!promiseVars)
  <2>1. UNCHANGED <<row, net>>
    BY <1>12 DEF SubmitDuplicate, SubmitRejected
  <2>2. InFlight
    BY <1>12 DEF SubmitDuplicate, SubmitRejected, InFlight
  <2> QED
    BY <1>e, <2>1, <2>2
<1>13. ASSUME NEW e \in Executors, ExecRecord(e)
       PROVE  [Promised!PromiseNext]_(Promised!promiseVars)
  <2>1. UNCHANGED net
    BY <1>13 DEF ExecRecord
  <2>2. SameInFlight
    <3>1. exec[e].pc = "answered"
            /\ exec' \in {[exec EXCEPT ![e].pc = "follow"],
                           [exec EXCEPT ![e] = IdleExec]}
      BY <1>13 DEF ExecRecord
    <3> QED
      BY <1>c, <3>1 DEF IdleExec, TypeOK, ExecState
  <2>3. CASE exec[e].answer # "duplicate" /\ StillWaiting
    <3>1. /\ row.status = "WAITING_FOR_EXECUTION"
          /\ row'.status = Verdict(exec[e].answer)
      BY <1>13, <2>3 DEF ExecRecord, StillWaiting, TypeOK, Row
    <3>2. \/ row'.status = "EXECUTED" /\ net = "success"
          \/ row'.status = "FAILED"
      BY <3>1 DEF Verdict, OkIsTrue
    <3> QED
      BY <2>1, <2>2, <3>1, <3>2 DEF Promised!Record, SameInFlight
  <2>4. CASE ~(exec[e].answer # "duplicate" /\ StillWaiting)
    <3>1. UNCHANGED row
      BY <1>13, <2>4 DEF ExecRecord
    <3> QED
      BY <1>d, <2>1, <2>2, <3>1 DEF StatusKept
  <2> QED
    BY <2>3, <2>4
<1>14. ASSUME NEW c \in Cancels, CancelStep(c)
       PROVE  [Promised!PromiseNext]_(Promised!promiseVars)
  <2>1. UNCHANGED <<exec, net>> /\ SameInFlight
    BY <1>14, <1>b DEF CancelStep, CancelLoad, CancelUpdate, CancelFollow,
                       CancelRecheck
  <2>2. \/ UNCHANGED row
        \/ row.status \in Open /\ row'.status = "CANCELED"
    <3>1. CASE CancelUpdate(c) /\ StillCancelable
      BY <3>1 DEF CancelUpdate, StillCancelable, TypeOK, Row
    <3>2. CASE ~(CancelUpdate(c) /\ StillCancelable)
      BY <1>14, <3>2 DEF CancelStep, CancelLoad, CancelUpdate, CancelFollow,
                         CancelRecheck
    <3> QED
      BY <3>1, <3>2
  <2> QED
    BY <1>d, <2>1, <2>2 DEF Promised!Close, SameInFlight, StatusKept
<1>15. ASSUME NEW a \in Archives, ArchiveStep(a)
       PROVE  [Promised!PromiseNext]_(Promised!promiseVars)
  <2>1. UNCHANGED <<exec, net>> /\ SameInFlight
    BY <1>15, <1>b DEF ArchiveStep, ArchiveLoad, ArchiveUpdate, ArchiveFollow
  <2>2. UNCHANGED row \/ row'.status = "ARCHIVED"
    BY <1>15 DEF ArchiveStep, ArchiveLoad, ArchiveUpdate, ArchiveFollow, TypeOK,
                 Row
  <2> QED
    BY <1>d, <2>1, <2>2 DEF Promised!Archive, SameInFlight, StatusKept
<1>16. CASE LockExpires \/ Tick \/ UNCHANGED vars
  <2>1. UNCHANGED <<row, exec, net>>
    BY <1>16 DEF LockExpires, Tick, vars
  <2> QED
    BY <1>b, <1>d, <2>1 DEF StatusKept
<1> QED
  BY <1>1, <1>2, <1>3, <1>4, <1>5, <1>6, <1>7, <1>8, <1>9, <1>10, <1>11, <1>12,
     <1>13, <1>14, <1>15, <1>16
     DEF Next, CollateStep, SweepStep, ExecStep, SubmitStep

(* The code implements TransactionPromise: every step of the code is a     *)
(* step of the abstract specification, or one it does not see.             *)
THEOREM Refinement == Spec => ImplementsPromise
BY RefinementInit, RefinementStep, TypeCorrect, OkIsTrueHolds, PTL
   DEF Spec, ImplementsPromise, Promised!Promise

-----------------------------------------------------------------------------
(* Manual transactions *)

(* The copies that say "not manual" are right for ever: isManual is only   *)
(* ever cleared.                                                           *)
CopiesAreRight ==
  row.isManual =>
    \A p \in Pods : /\ exec[p].pc = "idle"
                    /\ collate[p].pc = "armed" => collate[p].isManual
                    /\ cron[p].pc = "loaded" => cron[p].isManual

LEMMA CopiesAreRightHolds == Spec => []CopiesAreRight
<1>1. Init => CopiesAreRight
  BY DEF Init, CopiesAreRight, IdleExec, IdleCollate, IdleCron, Executors
<1>2. TypeOK /\ CopiesAreRight /\ [Next]_vars => CopiesAreRight'
  <2> SUFFICES ASSUME TypeOK, CopiesAreRight, [Next]_vars, row'.isManual
               PROVE  \A p \in Pods :
                        /\ exec'[p].pc = "idle"
                        /\ collate'[p].pc = "armed" => collate'[p].isManual
                        /\ cron'[p].pc = "loaded" => cron'[p].isManual
    BY DEF CopiesAreRight
  <2> DEFINE Goal == \A p \in Pods :
                        /\ exec'[p].pc = "idle"
                        /\ collate'[p].pc = "armed" => collate'[p].isManual
                        /\ cron'[p].pc = "loaded" => cron'[p].isManual
  <2>0. Pods \subseteq Executors /\ Pods \intersect Requests = {}
    BY OwnerAssumption DEF Executors
  (* No step sets isManual. *)
  <2>a. row.isManual
    <3>1. row'.isManual = row.isManual
            \/ \E r \in Requests : ReleaseToScheduler(r)
      <4>1. CASE \E u \in Uploads : UploadStep(u)
        BY <4>1 DEF UploadStep, UploadLoad, UploadSave, UploadFail,
                    UploadStatus, TypeOK, Row
      <4>2. CASE \E p \in Pods : CronStep(p)
        BY <4>2 DEF CronStep, CronLoad, CronUpdate, TypeOK, Row
      <4>3. CASE \E p \in Pods : CollateStep(p) \/ SweepStep(p) \/ Crash(p)
        BY <4>3 DEF CollateStep, Collate, CollateOversize, CollateFollow,
                    SweepStep, Expire, ExpireFollow, Crash, TypeOK, Row
      <4>4. CASE \E r \in Requests : RequestExecution(r)
        BY <4>4 DEF RequestExecution
      <4>5. CASE \E e \in Executors : ExecStep(e)
        BY <4>5 DEF ExecStep, ExecLock, ExecGiveUp, ExecValidate, SubmitStep,
                    SubmitAccepted, SubmitDuplicate, SubmitRejected, ExecRecord,
                    ExecFollow, TypeOK, Row
      <4>6. CASE \/ \E c \in Cancels : CancelStep(c)
                 \/ \E a \in Archives : ArchiveStep(a)
        BY <4>6 DEF CancelStep, CancelLoad, CancelUpdate, CancelFollow,
                    CancelRecheck, ArchiveStep, ArchiveLoad, ArchiveUpdate,
                    ArchiveFollow, TypeOK, Row
      <4>7. CASE LockExpires \/ Tick \/ UNCHANGED vars
        BY <4>7 DEF LockExpires, Tick, vars
      <4> QED
        BY <4>1, <4>2, <4>3, <4>4, <4>5, <4>6, <4>7 DEF Next
    <3>2. ASSUME NEW r \in Requests, ReleaseToScheduler(r) PROVE FALSE
      BY <3>2 DEF ReleaseToScheduler, TypeOK, Row
    <3> QED
      BY <3>1, <3>2
  <2>b. /\ \A p \in Pods : exec[p].pc = "idle"
        /\ \A p \in Pods : collate[p].pc = "armed" => collate[p].isManual
        /\ \A p \in Pods : cron[p].pc = "loaded" => cron[p].isManual
    BY <2>a DEF CopiesAreRight
  <2>1. CASE UNCHANGED <<exec, collate, cron>>
    BY <2>1, <2>b
  <2>2. ASSUME NEW u \in Uploads, UploadStep(u) PROVE Goal
    BY <2>1, <2>2 DEF UploadStep, UploadLoad, UploadSave, UploadFail, UploadStatus
  <2>3. ASSUME NEW p \in Pods, CronLoad(p) PROVE Goal
    BY <2>a, <2>b, <2>3 DEF CronLoad, TypeOK
  <2>4. ASSUME NEW p \in Pods, CronUpdate(p) PROVE Goal
    BY <2>b, <2>4 DEF CronUpdate, IdleCron, TypeOK
  <2>5. ASSUME NEW p \in Pods, Collate(p) PROVE Goal
    <3>1. PICK sigs : AddExecutionTimeout(p, sigs)
      BY <2>5 DEF Collate
    <3>2. collate[p].isManual
      BY <2>b, <2>5 DEF Collate
    <3>3. UNCHANGED <<exec, cron>>
      BY <2>5, <3>1, <3>2 DEF Collate, AddExecutionTimeout
    <3> QED
      BY <2>b, <2>5, <3>3 DEF Collate, IdleCollate, TypeOK
  <2>6. ASSUME NEW p \in Pods, CollateOversize(p) \/ CollateFollow(p) PROVE Goal
    <3>1. UNCHANGED <<exec, cron>>
      BY <2>6 DEF CollateOversize, CollateFollow
    <3>2. /\ collate'[p].pc # "armed"
          /\ \A x \in Pods \ {p} : collate'[x] = collate[x]
      BY <2>6 DEF CollateOversize, CollateFollow, IdleCollate, TypeOK
    <3> QED
      BY <2>b, <3>1, <3>2
  <2>7. ASSUME NEW p \in Pods, SweepStep(p) PROVE Goal
    BY <2>1, <2>7 DEF SweepStep, Expire, ExpireFollow
  <2>8. ASSUME NEW p \in Pods, Crash(p) PROVE Goal
    BY <2>0, <2>b, <2>8 DEF Crash, IdleExec, IdleCron, IdleCollate, TypeOK
  <2>9. ASSUME NEW r \in Requests, RequestExecution(r) \/ ReleaseToScheduler(r)
        PROVE  Goal
    BY <2>0, <2>b, <2>9 DEF RequestExecution, ReleaseToScheduler, TypeOK
  <2>10. ASSUME NEW e \in Executors, ExecStep(e) PROVE Goal
    <3>1. exec[e].pc # "idle"
      BY <2>10 DEF ExecStep, ExecLock, ExecGiveUp, ExecValidate, SubmitStep,
                   SubmitAccepted, SubmitDuplicate, SubmitRejected, ExecRecord,
                   ExecFollow
    <3>2. e \notin Pods
      BY <2>b, <3>1
    <3>3. \A x \in Executors \ {e} : exec'[x] = exec[x]
      BY <2>10 DEF ExecStep, ExecLock, ExecGiveUp, ExecValidate, SubmitStep,
                   SubmitAccepted, SubmitDuplicate, SubmitRejected, ExecRecord,
                   ExecFollow, TypeOK
    <3>4. UNCHANGED <<collate, cron>>
      BY <2>10 DEF ExecStep, ExecLock, ExecGiveUp, ExecValidate, SubmitStep,
                   SubmitAccepted, SubmitDuplicate, SubmitRejected, ExecRecord,
                   ExecFollow
    <3> QED
      BY <2>0, <2>b, <3>2, <3>3, <3>4
  <2>11. ASSUME NEW c \in Cancels, CancelStep(c) PROVE Goal
    BY <2>1, <2>11 DEF CancelStep, CancelLoad, CancelUpdate, CancelFollow,
                       CancelRecheck
  <2>12. ASSUME NEW a \in Archives, ArchiveStep(a) PROVE Goal
    BY <2>1, <2>12 DEF ArchiveStep, ArchiveLoad, ArchiveUpdate, ArchiveFollow
  <2>13. CASE LockExpires \/ Tick \/ UNCHANGED vars
    BY <2>1, <2>13 DEF LockExpires, Tick, vars
  <2> QED
    BY <2>2, <2>3, <2>4, <2>5, <2>6, <2>7, <2>8, <2>9, <2>10, <2>11, <2>12, <2>13
       DEF Next, CronStep, CollateStep
<1> QED
  BY <1>1, <1>2, TypeCorrect, PTL DEF Spec

(* No chain pod executes a manual transaction that its creator has not     *)
(* released.                                                               *)
THEOREM ManualIsNotAutomaticHolds == Spec => []ManualIsNotAutomatic
<1>1. CopiesAreRight => ManualIsNotAutomatic
  BY DEF CopiesAreRight, ManualIsNotAutomatic
<1> QED
  BY <1>1, CopiesAreRightHolds, PTL

-----------------------------------------------------------------------------
(* What a cancel request answers *)

(* An UPDATE that succeeded canceled the row, one that did not found it    *)
(* closed.                                                                 *)
CancelSawTruth ==
  \A c \in Cancels :
    /\ cancel[c] \in {"follow", "CANCELED", "ALREADY_CANCELED"}
         => row.status \in {"CANCELED", "ARCHIVED"}
    /\ cancel[c] = "recheck" => row.status \notin Open
    /\ cancel[c] # "CONFLICT"

(* A closed row only ever gets archived. *)
ClosedStaysClosed ==
  row.status \notin Open => row'.status \in {row.status, "ARCHIVED"}

(* A cancel request answers CANCELED or ALREADY_CANCELED only for a row    *)
(* that is and stays canceled, and never the CONFLICT of its fallback.     *)
THEOREM CancelAnswersTruthHolds == Spec => []CancelAnswersTruth
<1>1. Init => CancelSawTruth
  BY DEF Init, CancelSawTruth
<1>2. TypeOK /\ CancelSawTruth /\ [Next]_vars => CancelSawTruth'
  <2> SUFFICES ASSUME TypeOK, CancelSawTruth, [Next]_vars PROVE CancelSawTruth'
    OBVIOUS
  <2>1. ClosedStaysClosed
    BY ToldEffect
       DEF Keeps, Forgets, Closes, Shelves, StatusKept, ClosedStaysClosed
  <2>2. CASE UNCHANGED cancel
    BY <2>1, <2>2 DEF CancelSawTruth, ClosedStaysClosed, Open
  <2>3. ASSUME NEW c \in Cancels, CancelStep(c) PROVE CancelSawTruth'
    <3> DEFINE Good(x) ==
          /\ cancel'[x] \in {"follow", "CANCELED", "ALREADY_CANCELED"}
               => row'.status \in {"CANCELED", "ARCHIVED"}
          /\ cancel'[x] = "recheck" => row'.status \notin Open
          /\ cancel'[x] # "CONFLICT"
    <3>1. \A x \in Cancels \ {c} : cancel'[x] = cancel[x]
      BY <2>3 DEF CancelStep, CancelLoad, CancelUpdate, CancelFollow,
                  CancelRecheck, TypeOK
    <3>2. \A x \in Cancels \ {c} : Good(x)
      BY <2>1, <3>1 DEF CancelSawTruth, ClosedStaysClosed, Open
    <3>3. Good(c)
      <4>1. CASE CancelLoad(c)
        BY <4>1 DEF CancelLoad, TypeOK
      <4>2. CASE CancelUpdate(c) /\ StillCancelable
        BY <4>2 DEF CancelUpdate, TypeOK, Row
      <4>3. CASE CancelUpdate(c) /\ ~StillCancelable
        BY <4>3 DEF CancelUpdate, StillCancelable, TypeOK
      <4>4. CASE CancelFollow(c)
        BY <4>4 DEF CancelFollow, CancelSawTruth, TypeOK
      <4>5. CASE CancelRecheck(c)
        BY <4>5 DEF CancelRecheck, CancelSawTruth, TypeOK
      <4> QED
        BY <2>3, <4>1, <4>2, <4>3, <4>4, <4>5 DEF CancelStep
    <3> QED
      BY <3>2, <3>3 DEF CancelSawTruth
  <2>4. ASSUME NEW u \in Uploads, UploadStep(u) PROVE UNCHANGED cancel
    BY <2>4 DEF UploadStep, UploadLoad, UploadSave, UploadFail, UploadStatus
  <2>5. ASSUME NEW p \in Pods,
               CronStep(p) \/ CollateStep(p) \/ SweepStep(p) \/ Crash(p)
        PROVE  UNCHANGED cancel
    BY <2>5 DEF CronStep, CronLoad, CronUpdate, CollateStep, Collate,
                CollateOversize, CollateFollow, SweepStep, Expire, ExpireFollow,
                Crash
  <2>6. ASSUME NEW r \in Requests, RequestExecution(r) \/ ReleaseToScheduler(r)
        PROVE  UNCHANGED cancel
    BY <2>6 DEF RequestExecution, ReleaseToScheduler
  <2>7. ASSUME NEW e \in Executors, ExecStep(e) PROVE UNCHANGED cancel
    BY <2>7 DEF ExecStep, ExecLock, ExecGiveUp, ExecValidate, SubmitStep,
                SubmitAccepted, SubmitDuplicate, SubmitRejected, ExecRecord,
                ExecFollow
  <2>8. ASSUME NEW a \in Archives, ArchiveStep(a) PROVE UNCHANGED cancel
    BY <2>8 DEF ArchiveStep, ArchiveLoad, ArchiveUpdate, ArchiveFollow
  <2>9. CASE LockExpires \/ Tick \/ UNCHANGED vars
    BY <2>2, <2>9 DEF LockExpires, Tick, vars
  <2> QED
    BY <2>2, <2>3, <2>4, <2>5, <2>6, <2>7, <2>8, <2>9 DEF Next
<1>3. CancelSawTruth => CancelAnswersTruth
  BY DEF CancelSawTruth, CancelAnswersTruth
<1> QED
  BY <1>1, <1>2, <1>3, TypeCorrect, PTL DEF Spec


-----------------------------------------------------------------------------
(* The signatures in the row *)

(* Between its read and its write a lone upload finds the signatures that  *)
(* it read.                                                                *)
ReadsStand == \A u \in Uploads : upload[u].pc = "loaded" => upload[u].sigs = row.sigs

(* Only the write of an upload changes the signatures in the row, whatever *)
(* chain pods, requests, cancels and archives do meanwhile.                *)
LEMMA OnlySavesChangeSigs ==
  ASSUME TypeOK, [Next]_vars, \A u \in Uploads : ~UploadSave(u)
  PROVE  /\ row'.sigs = row.sigs
         /\ \A u \in Uploads : upload'[u].pc = "loaded" =>
              \/ upload[u].pc = "loaded" /\ upload'[u].sigs = upload[u].sigs
              \/ upload'[u].sigs = row.sigs
<1> DEFINE Goal ==
      /\ row'.sigs = row.sigs
      /\ \A u \in Uploads : upload'[u].pc = "loaded" =>
           \/ upload[u].pc = "loaded" /\ upload'[u].sigs = upload[u].sigs
           \/ upload'[u].sigs = row.sigs
<1>1. CASE \E u \in Uploads : UploadStep(u)
  <2>1. PICK u \in Uploads : UploadLoad(u) \/ UploadFail(u) \/ UploadStatus(u)
    BY <1>1 DEF UploadStep
  <2>2. /\ row'.sigs = row.sigs
        /\ \A v \in Uploads \ {u} : upload'[v] = upload[v]
        /\ upload'[u].pc = "loaded" => upload'[u].sigs = row.sigs
    BY <2>1 DEF UploadLoad, UploadFail, UploadStatus, IdleUpload, TypeOK, Row, UploadState
  <2> QED
    BY <2>2
<1>2. ASSUME upload' = upload, row'.sigs = row.sigs PROVE Goal
  BY <1>2
<1> HIDE DEF Goal
<1>3. CASE \E p \in Pods : CronStep(p)
  BY <1>2, <1>3 DEF CronStep, CronLoad, CronUpdate, TypeOK, Row
<1>4. CASE \E p \in Pods : CollateStep(p) \/ SweepStep(p) \/ Crash(p)
  BY <1>2, <1>4 DEF CollateStep, Collate, CollateOversize, CollateFollow,
                    SweepStep, Expire, ExpireFollow, Crash, TypeOK, Row
<1>5. CASE \E r \in Requests : RequestExecution(r) \/ ReleaseToScheduler(r)
  BY <1>2, <1>5 DEF RequestExecution, ReleaseToScheduler, TypeOK, Row
<1>6. CASE \E e \in Executors : ExecStep(e)
  BY <1>2, <1>6 DEF ExecStep, ExecLock, ExecGiveUp, ExecValidate, SubmitStep,
                    SubmitAccepted, SubmitDuplicate, SubmitRejected, ExecRecord,
                    ExecFollow, TypeOK, Row
<1>7. CASE \/ \E c \in Cancels : CancelStep(c)
           \/ \E a \in Archives : ArchiveStep(a)
  BY <1>2, <1>7 DEF CancelStep, CancelLoad, CancelUpdate, CancelFollow,
                    CancelRecheck, ArchiveStep, ArchiveLoad, ArchiveUpdate,
                    ArchiveFollow, TypeOK, Row
<1>8. CASE LockExpires \/ Tick \/ UNCHANGED vars
  BY <1>2, <1>8 DEF LockExpires, Tick, vars
<1> QED
  BY <1>1, <1>3, <1>4, <1>5, <1>6, <1>7, <1>8 DEF Next, Goal

(* The signatures that the collation strips stay in the row (comment at    *)
(* transaction-scheduler.service.ts:354), and so do all others, when there *)
(* is one upload request: its write is never behind another one.  Pods,    *)
(* executions, cancels and archives may be as many as you like.            *)
THEOREM SignaturesStay ==
  ASSUME \A u, v \in Uploads : u = v
  PROVE  Spec => SignaturesKept
<1>1. Init => ReadsStand
  BY DEF Init, ReadsStand, IdleUpload
<1>2. ASSUME TypeOK, ReadsStand, NEW u \in Uploads, UploadSave(u)
      PROVE  ReadsStand' /\ row.sigs \subseteq row'.sigs
  <2>1. /\ upload'[u].pc # "loaded"
        /\ row'.sigs = upload[u].sigs \union Carries[u]
    BY <1>2 DEF UploadSave, ReadsStand, IdleUpload, TypeOK, Row
  <2>2. upload[u].sigs = row.sigs
    BY <1>2 DEF ReadsStand, UploadSave
  <2> QED
    BY <2>1, <2>2 DEF ReadsStand
<1>3. TypeOK /\ ReadsStand /\ [Next]_vars => ReadsStand' /\ row.sigs \subseteq row'.sigs
  <2> SUFFICES ASSUME TypeOK, ReadsStand, [Next]_vars
               PROVE  ReadsStand' /\ row.sigs \subseteq row'.sigs
    OBVIOUS
  <2>1. CASE \E u \in Uploads : UploadSave(u)
    BY <1>2, <2>1
  <2>2. CASE \A u \in Uploads : ~UploadSave(u)
    BY <2>2, OnlySavesChangeSigs DEF ReadsStand
  <2> QED
    BY <2>1, <2>2
<1>4. TypeOK /\ ReadsStand /\ [Next]_vars => [row.sigs \subseteq row'.sigs]_vars
  BY <1>3
<1> QED
  BY <1>1, <1>3, <1>4, TypeCorrect, PTL DEF Spec, SignaturesKept
=============================================================================
