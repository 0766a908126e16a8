------------------------ MODULE GroupExecution_proofs ------------------------
(***************************************************************************)
(* Theorems about GroupExecution, for groups of any size, any pods,        *)
(* requests, cancels and faults.                                           *)
(***************************************************************************)
EXTENDS GroupExecution, FiniteSetTheorems, TLAPS

-----------------------------------------------------------------------------
(* Type correctness *)

LEMMA WithType ==
  ASSUME NEW S, NEW value \in Statuses, status \in [Members -> Statuses]
  PROVE  With(S, value) \in [Members -> Statuses]
BY DEF With

LEMMA AnnounceType ==
  ASSUME NEW S, NEW value \in Terminal, told \in [Members -> SUBSET Terminal],
         Announce(S, value)
  PROVE  told' \in [Members -> SUBSET Terminal]
BY DEF Announce

LEMMA IdleTypes ==
  /\ IdleCollate \in CollateState
  /\ IdleExec \in ExecState
  /\ IdleCancel \in CancelState
BY DEF IdleCollate, IdleExec, IdleCancel, CollateState, ExecState, CancelState,
       Stages

LEMMA StageType ==
  ASSUME NEW x \in [Executors -> ExecState], NEW e \in Executors, NEW t,
         NEW stage \in Stages
  PROVE  [x EXCEPT ![e].stage[t] = stage] \in [Executors -> ExecState]
BY DEF ExecState

LEMMA TypeInit == Init => TypeOK
BY IdleTypes, GroupAssumption
   DEF Init, TypeOK, Statuses, Open, Terminal

LEMMA TypeNext == TypeOK /\ [Next]_vars => TypeOK'
<1> SUFFICES ASSUME TypeOK, [Next]_vars PROVE TypeOK'
  OBVIOUS
<1> USE IdleTypes DEF TypeOK
<1>0. Pods \subseteq Executors /\ Requests \subseteq Executors
  BY DEF Executors
<1>1. ASSUME NEW t \in Members, Sign(t) PROVE TypeOK'
  BY <1>1, WithType DEF Sign, Statuses, Open
<1>2. ASSUME NEW t \in Members, Rotate(t) PROVE TypeOK'
  BY <1>2 DEF Rotate
<1>3. ASSUME NEW t \in Members, StatusCron(t) PROVE TypeOK'
  BY <1>3, WithType DEF StatusCron, Statuses, Open
<1>4. ASSUME NEW t \in Members, CancelMember(t) PROVE TypeOK'
  BY <1>4, WithType, AnnounceType DEF CancelMember, Statuses, Terminal
<1>5. ASSUME NEW t \in Members, Expire(t) PROVE TypeOK'
  BY <1>5, WithType, AnnounceType DEF Expire, Statuses, Terminal
<1>6. ASSUME NEW p \in Pods, Prepare(p) PROVE TypeOK'
  <2>1. collate' \in [Pods -> CollateState]
    BY <1>6 DEF Prepare, CollateState, Waiting
  <2> QED
    BY <1>6, <2>1 DEF Prepare
<1>7. ASSUME NEW p \in Pods, CollateFits(p) PROVE TypeOK'
  <2>1. [pc     |-> "armed",
         signed |-> collate[p].signed,
         stage  |-> [t \in Members |-> IF t \in collate[p].ready
                                       THEN "listed" ELSE "out"]] \in ExecState
    BY DEF CollateState, ExecState, Stages
  <2>2. exec' \in [Executors -> ExecState]
    BY <1>0, <1>7, <2>1 DEF CollateFits
  <2> QED
    BY <1>7, <2>2 DEF CollateFits
<1>8. ASSUME NEW p \in Pods, CollateOversize(p) PROVE TypeOK'
  <2>1. collate' \in [Pods -> CollateState]
    BY <1>8 DEF CollateOversize, CollateState, Waiting
  <2>2. status' \in [Members -> Statuses]
    BY <1>8, WithType DEF CollateOversize, Statuses, Terminal
  <2> QED
    BY <1>8, <2>1, <2>2 DEF CollateOversize
<1>9. ASSUME NEW p \in Pods, CollateFollow(p) PROVE TypeOK'
  BY <1>9, AnnounceType DEF CollateFollow, Terminal
<1>10. ASSUME NEW p \in Pods, GroupLock(p) PROVE TypeOK'
  <2>1. exec' \in [Executors -> ExecState]
    BY <1>0, <1>10 DEF GroupLock, ExecState
  <2> QED
    BY <1>10, <2>1 DEF GroupLock
<1>11. ASSUME NEW p \in Pods, GroupGiveUp(p) PROVE TypeOK'
  BY <1>0, <1>11 DEF GroupGiveUp
<1>12. ASSUME NEW p \in Pods, Crash(p) PROVE TypeOK'
  BY <1>0, <1>12 DEF Crash
<1>13. ASSUME NEW r \in Requests, RequestExecution(r) PROVE TypeOK'
  <2>1. [pc     |-> "running",
         signed |-> signed,
         stage  |-> [t \in Members |-> IF t = For[r] THEN "listed" ELSE "out"]]
           \in ExecState
    BY DEF ExecState, Stages
  <2> QED
    BY <1>0, <1>13, <2>1 DEF RequestExecution
<1>14. ASSUME NEW e \in Executors, Validate(e) PROVE TypeOK'
  <2>1. exec' \in [Executors -> ExecState]
    <3> DEFINE t == First(Listed(e))
    <3>1. \/ exec' = [exec EXCEPT ![e].stage[t] = "valid"]
          \/ exec' = [exec EXCEPT ![e] = IdleExec]
      BY <1>14 DEF Validate
    <3> HIDE DEF t
    <3>2. "valid" \in Stages
      BY DEF Stages
    <3>3. /\ [exec EXCEPT ![e].stage[t] = "valid"] \in [Executors -> ExecState]
          /\ [exec EXCEPT ![e] = IdleExec] \in [Executors -> ExecState]
      BY <3>2, StageType
    <3> QED
      BY ONLY <3>1, <3>3
  <2> QED
    BY <1>14, <2>1 DEF Validate, Unlocked
<1>15. ASSUME NEW e \in Executors, Publish(e) PROVE TypeOK'
  <2>1. told' \in [Members -> SUBSET Terminal]
    BY <1>15 DEF Publish, Recorded, Terminal
  <2> QED
    BY <1>15, <2>1 DEF Publish, Unlocked
<1>16. ASSUME NEW e \in Executors, NEW t \in Members, SubmitAccepted(e, t)
       PROVE  TypeOK'
  <2>1. exec' \in [Executors -> ExecState]
    <3>1. PICK stage \in Stages : exec' = [exec EXCEPT ![e].stage[t] = stage]
      BY <1>16 DEF SubmitAccepted, Stages
    <3> QED
      BY <3>1, StageType
  <2> QED
    BY <1>16, <2>1 DEF SubmitAccepted
<1>17. ASSUME NEW e \in Executors, NEW t \in Members, SubmitRefused(e, t)
       PROVE  TypeOK'
  <2>1. exec' \in [Executors -> ExecState]
    <3>1. PICK stage \in Stages : exec' = [exec EXCEPT ![e].stage[t] = stage]
      BY <1>17 DEF SubmitRefused, Stages
    <3> QED
      BY <3>1, StageType
  <2> QED
    BY <1>17, <2>1 DEF SubmitRefused
<1>18. ASSUME NEW e \in Executors, NEW t \in Members, Record(e, t) PROVE TypeOK'
  <2>1. exec' \in [Executors -> ExecState]
    <3>1. PICK stage \in Stages : exec' = [exec EXCEPT ![e].stage[t] = stage]
      BY <1>18 DEF Record, Stages, Verdict
    <3> QED
      BY <3>1, StageType
  <2>2. status' \in [Members -> Statuses]
    BY <1>18, WithType DEF Record, Verdict, Statuses, Terminal
  <2> QED
    BY <1>18, <2>1, <2>2 DEF Record
<1>19. ASSUME NEW e \in Executors, NEW t \in Members, RecordThrows(e, t)
       PROVE  TypeOK'
  <2>1. [exec[e] EXCEPT !.pc = "unheard", !.stage[t] = "nothing"] \in ExecState
    BY DEF ExecState, Stages
  <2> QED
    BY <1>19, <2>1 DEF RecordThrows, Unlocked
<1>20. ASSUME NEW c \in Cancels, CancelLoad(c) PROVE TypeOK'
  <2>1. cancel' \in [Cancels -> CancelState]
    BY <1>20 DEF CancelLoad, CancelState
  <2> QED
    BY <1>20, <2>1 DEF CancelLoad
<1>21. ASSUME NEW c \in Cancels, CancelUpdate(c) PROVE TypeOK'
  <2>1. cancel' \in [Cancels -> CancelState]
    <3>1. cancel[c].ids \in SUBSET Members
      BY DEF CancelState
    <3>2. /\ [cancel[c] EXCEPT !.pc = "follow", !.canceled = cancel[c].ids]
               \in CancelState
          /\ [cancel[c] EXCEPT !.pc = "recheck"] \in CancelState
      BY <3>1 DEF CancelState
    <3>3. \/ cancel' = [cancel EXCEPT ![c] =
                [cancel[c] EXCEPT !.pc = "follow", !.canceled = cancel[c].ids]]
          \/ cancel' = [cancel EXCEPT ![c] = [cancel[c] EXCEPT !.pc = "recheck"]]
      BY <1>21 DEF CancelUpdate
    <3> QED
      BY <3>2, <3>3
  <2>2. status' \in [Members -> Statuses]
    BY <1>21, WithType DEF CancelUpdate, Statuses, Terminal
  <2> QED
    BY <1>21, <2>1, <2>2 DEF CancelUpdate
<1>22. ASSUME NEW c \in Cancels, CancelRecheck(c) PROVE TypeOK'
  <2>1. cancel' \in [Cancels -> CancelState]
    <3> DEFINE found == {t \in cancel[c].ids : status[t] = "CANCELED"}
               left  == cancel[c].failed \union (cancel[c].ids \ found)
    <3>1. found \in SUBSET Members /\ left \in SUBSET Members
      BY DEF CancelState
    <3>2. cancel' \in {[cancel EXCEPT ![c] =
                        [cancel[c] EXCEPT !.pc = pc, !.canceled = found,
                                          !.failed = left]]
                      : pc \in {"done", "follow"}}
      BY <1>22 DEF CancelRecheck
    <3> HIDE DEF found, left
    <3>3. \A pc \in {"done", "follow"} :
            [cancel[c] EXCEPT !.pc = pc, !.canceled = found, !.failed = left]
              \in CancelState
      BY <3>1 DEF CancelState
    <3> QED
      BY <3>2, <3>3
  <2> QED
    BY <1>22, <2>1 DEF CancelRecheck
<1>23. ASSUME NEW c \in Cancels, CancelFollow(c) PROVE TypeOK'
  <2>1. cancel' \in [Cancels -> CancelState]
    BY <1>23 DEF CancelFollow, CancelState
  <2> QED
    BY <1>23, <2>1, AnnounceType DEF CancelFollow, Terminal
<1>24. CASE LockExpires
  BY <1>24 DEF LockExpires
<1>25. CASE Tick
  BY <1>25 DEF Tick
<1>26. CASE UNCHANGED vars
  BY <1>26 DEF vars
<1> QED
  BY <1>1, <1>2, <1>3, <1>4, <1>5, <1>6, <1>7, <1>8, <1>9, <1>10, <1>11, <1>12,
     <1>13, <1>14, <1>15, <1>16, <1>17, <1>18, <1>19, <1>20, <1>21, <1>22,
     <1>23, <1>24, <1>25, <1>26
     DEF Next, CollateStep, ExecStep, Submit, CancelStep

-----------------------------------------------------------------------------
(* Which actions write what *)

Closes(t) == CancelMember(t) \/ Expire(t)

LEMMA StatusWrites ==
  ASSUME [Next]_vars
  PROVE  \/ UNCHANGED status
         \/ \E t \in Members : Sign(t) \/ StatusCron(t) \/ Closes(t)
         \/ \E p \in Pods : CollateOversize(p)
         \/ \E e \in Executors, t \in Members : Record(e, t)
         \/ \E c \in Cancels : CancelUpdate(c)
BY DEF Next, vars, CollateStep, ExecStep, Submit, CancelStep, Closes, Rotate,
       Prepare, CollateFits, CollateFollow, GroupLock, GroupGiveUp, LockExpires,
       RequestExecution, Validate, SubmitAccepted, SubmitRefused, RecordThrows,
       Publish, CancelLoad, CancelRecheck, CancelFollow, Tick, Crash

(* Every UPDATE asks for an open status, so that an end is final.          *)
LEMMA TerminalStays ==
  ASSUME TypeOK, [Next]_vars
  PROVE  \A t \in Members : status[t] \in Terminal => status'[t] = status[t]
<1> DEFINE Stays == \A t \in Members : status[t] \in Terminal => status'[t] = status[t]
<1>0. Open \intersect Terminal = {}
  BY DEF Open, Terminal
<1>1. ASSUME NEW t \in Members, Sign(t) PROVE Stays
  BY <1>0, <1>1 DEF Sign, With
<1>2. ASSUME NEW t \in Members, StatusCron(t) PROVE Stays
  BY <1>0, <1>2 DEF StatusCron, With
<1>3. ASSUME NEW t \in Members, Closes(t) PROVE Stays
  BY <1>0, <1>3 DEF Closes, CancelMember, Expire, Cancelable, Expirable, With
<1>4. ASSUME NEW p \in Pods, CollateOversize(p) PROVE Stays
  BY <1>4 DEF CollateOversize, With, Waiting, Terminal
<1>5. ASSUME NEW e \in Executors, NEW t \in Members, Record(e, t) PROVE Stays
  BY <1>5 DEF Record, Recordable, With, Terminal
<1>6. ASSUME NEW c \in Cancels, CancelUpdate(c) PROVE Stays
  BY <1>0, <1>6 DEF CancelUpdate, Cancelable, With
<1> QED
  BY <1>1, <1>2, <1>3, <1>4, <1>5, <1>6, StatusWrites

-----------------------------------------------------------------------------
(* A pod that follows up a collation has recorded the failures.            *)
CollateTruth ==
  \A p \in Pods : collate[p].pc = "follow" =>
    \A t \in collate[p].ready : status[t] = "FAILED"

LEMMA CollateWrites ==
  ASSUME [Next]_vars
  PROVE  \/ UNCHANGED collate
         \/ \E p \in Pods : Prepare(p) \/ CollateStep(p) \/ Crash(p)
BY DEF Next, vars, ExecStep, Submit, CancelStep, Sign, Rotate, StatusCron,
       CancelMember, Expire, GroupLock, GroupGiveUp, LockExpires,
       RequestExecution, Validate, SubmitAccepted, SubmitRefused, Record,
       RecordThrows, Publish, CancelLoad, CancelUpdate, CancelRecheck,
       CancelFollow, Tick

LEMMA CollateTruthNext ==
  ASSUME TypeOK, CollateTruth, [Next]_vars
  PROVE  CollateTruth'
<1> DEFINE Known(q) == collate'[q] = collate[q] \/ collate'[q].pc # "follow"
<1>0. ASSUME NEW q \in Pods, Known(q), collate'[q].pc = "follow",
             NEW t \in collate'[q].ready
      PROVE  status'[t] = "FAILED"
  BY <1>0, TerminalStays DEF CollateTruth, Terminal, TypeOK, CollateState
<1>1. CASE UNCHANGED collate
  BY <1>0, <1>1 DEF CollateTruth
<1>2. ASSUME NEW p \in Pods, Prepare(p) \/ CollateFits(p) \/ CollateFollow(p) \/ Crash(p)
      PROVE  CollateTruth'
  <2>1. \A q \in Pods : Known(q)
    BY <1>2 DEF Prepare, CollateFits, CollateFollow, Crash, IdleCollate, TypeOK
  <2> QED
    BY <1>0, <2>1 DEF CollateTruth
<1>3. ASSUME NEW p \in Pods, CollateOversize(p) PROVE CollateTruth'
  <2>1. \A q \in Pods \ {p} : Known(q)
    BY <1>3 DEF CollateOversize, TypeOK
  <2>2. ASSUME collate'[p].pc = "follow", NEW t \in collate'[p].ready
        PROVE  status'[t] = "FAILED"
    BY <1>3, <2>2 DEF CollateOversize, With, Waiting, IdleCollate, TypeOK
  <2> QED
    BY <1>0, <2>1, <2>2 DEF CollateTruth
<1> QED
  BY <1>1, <1>2, <1>3, CollateWrites DEF CollateStep

-----------------------------------------------------------------------------
(* What an execution has recorded of a member is the member's status, and  *)
(* what it was answered is what consensus knows.                           *)
ExecTruth ==
  \A e \in Executors, t \in Members :
    /\ exec[e].stage[t] \in {"EXECUTED", "FAILED"} => status[t] = exec[e].stage[t]
    /\ exec[e].stage[t] = "ok" => net[t] = "success"

LEMMA ExecWrites ==
  ASSUME [Next]_vars
  PROVE  \/ UNCHANGED exec
         \/ \E p \in Pods : CollateFits(p) \/ GroupLock(p) \/ GroupGiveUp(p) \/ Crash(p)
         \/ \E r \in Requests : RequestExecution(r)
         \/ \E e \in Executors : ExecStep(e)
         \/ \E e \in Executors, t \in Members : RecordThrows(e, t)
BY DEF Next, vars, CollateStep, CancelStep, Sign, Rotate, StatusCron,
       CancelMember, Expire, Prepare, CollateOversize, CollateFollow,
       LockExpires, CancelLoad, CancelUpdate, CancelRecheck, CancelFollow, Tick

LEMMA NetStays ==
  ASSUME TypeOK, [Next]_vars
  PROVE  \A t \in Members : net[t] # "unknown" => net'[t] = net[t]
<1>1. \/ UNCHANGED net
      \/ \E e \in Executors, t \in Members : SubmitAccepted(e, t)
  BY DEF Next, vars, CollateStep, CancelStep, ExecStep, Submit, Sign, Rotate,
         StatusCron, CancelMember, Expire, Prepare, CollateFits,
         CollateOversize, CollateFollow, GroupLock, GroupGiveUp, LockExpires,
         RequestExecution, Validate, SubmitRefused, Record, RecordThrows,
         Publish, CancelLoad, CancelUpdate, CancelRecheck, CancelFollow, Tick,
         Crash
<1>2. ASSUME NEW e \in Executors, NEW t \in Members, SubmitAccepted(e, t)
      PROVE  \A u \in Members : net[u] # "unknown" => net'[u] = net[u]
  BY <1>2 DEF SubmitAccepted, TypeOK
<1> QED
  BY <1>1, <1>2

LEMMA OneStage ==
  ASSUME TypeOK, NEW e \in Executors, NEW t, NEW stage,
         exec' = [exec EXCEPT ![e].stage[t] = stage]
  PROVE  /\ t \in Members => exec'[e].stage[t] = stage
         /\ \A d \in Executors, u \in Members :
              d # e \/ u # t => exec'[d].stage[u] = exec[d].stage[u]
<1>1. ASSUME NEW d \in Executors \ {e} PROVE exec'[d] = exec[d]
  BY DEF TypeOK
<1>2. exec'[e] = [exec[e] EXCEPT !.stage[t] = stage] /\ exec[e] \in ExecState
  BY DEF TypeOK
<1>3. \A u \in Members :
        exec'[e].stage[u] = IF u = t THEN stage ELSE exec[e].stage[u]
  BY <1>2 DEF ExecState
<1> QED
  BY <1>1, <1>3

LEMMA ExecTruthNext ==
  ASSUME TypeOK, ExecTruth, [Next]_vars
  PROVE  ExecTruth'
<1> DEFINE Known(d, u) == \/ exec'[d].stage[u] = exec[d].stage[u]
                          \/ exec'[d].stage[u] \notin {"EXECUTED", "FAILED", "ok"}
           True(d, u)  == /\ exec'[d].stage[u] \in {"EXECUTED", "FAILED"}
                               => status'[u] = exec'[d].stage[u]
                          /\ exec'[d].stage[u] = "ok" => net'[u] = "success"
<1>0. ASSUME NEW d \in Executors, NEW u \in Members, Known(d, u) PROVE True(d, u)
  BY <1>0, TerminalStays, NetStays DEF ExecTruth, Terminal
<1>1. CASE UNCHANGED exec
  BY <1>0, <1>1 DEF ExecTruth
<1>2. ASSUME NEW p \in Pods, CollateFits(p) \/ GroupLock(p) \/ GroupGiveUp(p) \/ Crash(p)
      PROVE  ExecTruth'
  <2>0. exec \in [Executors -> ExecState] /\ p \in Executors
    BY DEF TypeOK, Executors
  <2>1. CASE CollateFits(p)
    <3>1. \A d \in Executors, u \in Members : Known(d, u)
      BY <2>0, <2>1 DEF CollateFits
    <3> QED
      BY <1>0, <3>1 DEF ExecTruth
  <2>2. CASE GroupLock(p)
    <3>1. \A d \in Executors, u \in Members : Known(d, u)
      BY <2>0, <2>2 DEF GroupLock, ExecState
    <3> QED
      BY <1>0, <3>1 DEF ExecTruth
  <2>3. CASE GroupGiveUp(p) \/ Crash(p)
    <3>1. \A d \in Executors, u \in Members : Known(d, u)
      BY <2>0, <2>3 DEF GroupGiveUp, Crash, IdleExec
    <3> QED
      BY <1>0, <3>1 DEF ExecTruth
  <2> QED
    BY <1>2, <2>1, <2>2, <2>3
<1>3. ASSUME NEW r \in Requests, RequestExecution(r) PROVE ExecTruth'
  <2>1. \A d \in Executors, u \in Members : Known(d, u)
    BY <1>3 DEF RequestExecution, TypeOK, ExecState
  <2> QED
    BY <1>0, <2>1 DEF ExecTruth
<1>4. ASSUME NEW e \in Executors, Validate(e) \/ Publish(e) PROVE ExecTruth'
  <2>1. CASE exec' = [exec EXCEPT ![e] = IdleExec]
    <3>1. \A d \in Executors, u \in Members : Known(d, u)
      BY <2>1 DEF IdleExec, TypeOK, ExecState
    <3> QED
      BY <1>0, <3>1 DEF ExecTruth
  <2>2. CASE \E t : exec' = [exec EXCEPT ![e].stage[t] = "valid"]
    <3>1. PICK t : exec' = [exec EXCEPT ![e].stage[t] = "valid"]
      BY <2>2
    <3>2. \A d \in Executors, u \in Members : Known(d, u)
      BY <3>1, OneStage
    <3> QED
      BY <1>0, <3>2 DEF ExecTruth
  <2>3. \/ exec' = [exec EXCEPT ![e] = IdleExec]
        \/ exec' = [exec EXCEPT ![e].stage[First(Listed(e))] = "valid"]
    BY <1>4 DEF Validate, Publish
  <2> QED
    BY <2>1, <2>2, <2>3
<1>5. ASSUME NEW e \in Executors, NEW t \in Members, SubmitAccepted(e, t)
      PROVE  ExecTruth'
  <2>1. PICK answer \in {"ok", "error"} :
          /\ exec' = [exec EXCEPT ![e].stage[t] = answer]
          /\ answer = "ok" => net' = [net EXCEPT ![t] = "success"]
    BY <1>5 DEF SubmitAccepted
  <2>2. exec' = [exec EXCEPT ![e].stage[t] = answer]
    BY <2>1
  <2>3. exec'[e].stage[t] = answer
    <3>1. exec'[e] = [exec[e] EXCEPT !.stage[t] = answer] /\ exec[e] \in ExecState
      BY <2>2 DEF TypeOK
    <3> QED
      BY <3>1 DEF ExecState
  <2>4. \A d \in Executors, u \in Members : d # e \/ u # t => Known(d, u)
    BY <2>2, OneStage
  <2>5. True(e, t)
    BY <2>1, <2>3 DEF TypeOK
  <2> QED
    BY <1>0, <2>4, <2>5 DEF ExecTruth
<1>6. ASSUME NEW e \in Executors, NEW t \in Members, SubmitRefused(e, t)
      PROVE  ExecTruth'
  <2>1. PICK answer \in {"error", "duplicate"} :
          exec' = [exec EXCEPT ![e].stage[t] = answer]
    BY <1>6 DEF SubmitRefused
  <2>2. \A d \in Executors, u \in Members : Known(d, u)
    BY <2>1, OneStage
  <2> QED
    BY <1>0, <2>2 DEF ExecTruth
<1>7. ASSUME NEW e \in Executors, NEW t \in Members, Record(e, t) PROVE ExecTruth'
  <2>1. PICK verdict \in {"EXECUTED", "FAILED", "nothing"} :
          /\ exec' = [exec EXCEPT ![e].stage[t] = verdict]
          /\ verdict # "nothing" => status' = With({t}, verdict)
    BY <1>7 DEF Record, Verdict
  <2>2. exec' = [exec EXCEPT ![e].stage[t] = verdict]
    BY <2>1
  <2>3. exec'[e].stage[t] = verdict
    <3>1. exec'[e] = [exec[e] EXCEPT !.stage[t] = verdict] /\ exec[e] \in ExecState
      BY <2>2 DEF TypeOK
    <3> QED
      BY <3>1 DEF ExecState
  <2>4. \A d \in Executors, u \in Members : d # e \/ u # t => Known(d, u)
    BY <2>2, OneStage
  <2>5. True(e, t)
    BY <2>1, <2>3 DEF With
  <2> QED
    BY <1>0, <2>4, <2>5 DEF ExecTruth
<1>8. ASSUME NEW e \in Executors, NEW t \in Members, RecordThrows(e, t)
      PROVE  ExecTruth'
  <2>1. \A d \in Executors, u \in Members : Known(d, u)
    BY <1>8 DEF RecordThrows, IdleExec, TypeOK, ExecState
  <2> QED
    BY <1>0, <2>1 DEF ExecTruth
<1> QED
  BY <1>1, <1>2, <1>3, <1>4, <1>5, <1>6, <1>7, <1>8, ExecWrites DEF ExecStep, Submit

-----------------------------------------------------------------------------
(* A cancel of the group has put every member in one of its lists, and what *)
(* it knows of them stays true; when it reads again nothing is open.       *)
CancelTruth ==
  \A c \in Cancels :
    LET k == cancel[c]
    IN /\ k.pc # "idle" =>
            /\ k.ids \union k.already \union k.failed = Members
            /\ \A t \in k.already : status[t] = "CANCELED"
            /\ \A t \in k.failed : status[t] \in Terminal \ {"CANCELED"}
       /\ k.pc = "recheck" => \A t \in k.ids : status[t] \in Terminal
       /\ k.pc \in {"follow", "done"} =>
            /\ k.ids \subseteq k.canceled \union k.failed
            /\ \A t \in k.canceled : status[t] = "CANCELED"

LEMMA CancelWrites ==
  ASSUME [Next]_vars
  PROVE  UNCHANGED cancel \/ \E c \in Cancels : CancelLoad(c) \/ CancelStep(c)
BY DEF Next, vars, CollateStep, ExecStep, Submit, Sign, Rotate, StatusCron,
       CancelMember, Expire, Prepare, CollateFits, CollateOversize,
       CollateFollow, GroupLock, GroupGiveUp, LockExpires, RequestExecution,
       Validate, SubmitAccepted, SubmitRefused, Record, RecordThrows, Publish,
       Tick, Crash

LEMMA CancelTruthNext ==
  ASSUME TypeOK, CancelTruth, [Next]_vars
  PROVE  CancelTruth'
<1> DEFINE True(k, s) ==
       /\ k.pc # "idle" =>
            /\ k.ids \union k.already \union k.failed = Members
            /\ \A t \in k.already : s[t] = "CANCELED"
            /\ \A t \in k.failed : s[t] \in Terminal \ {"CANCELED"}
       /\ k.pc = "recheck" => \A t \in k.ids : s[t] \in Terminal
       /\ k.pc \in {"follow", "done"} =>
            /\ k.ids \subseteq k.canceled \union k.failed
            /\ \A t \in k.canceled : s[t] = "CANCELED"
<1>a. CancelTruth <=> \A c \in Cancels : True(cancel[c], status)
  BY DEF CancelTruth
<1>b. CancelTruth' <=> \A c \in Cancels : True(cancel'[c], status')
  BY DEF CancelTruth
<1>0. ASSUME NEW c \in Cancels, cancel'[c] = cancel[c]
      PROVE  True(cancel'[c], status')
  <2>1. True(cancel[c], status)
    BY <1>a
  <2>2. cancel[c] \in CancelState
    BY DEF TypeOK
  <2> QED
    BY <1>0, <2>1, <2>2, TerminalStays DEF CancelState, Terminal
<1>1. CASE UNCHANGED cancel
  BY <1>0, <1>1, <1>b
<1>2. ASSUME NEW c \in Cancels, CancelLoad(c) PROVE CancelTruth'
  <2>1. \A d \in Cancels \ {c} : cancel'[d] = cancel[d]
    BY <1>2 DEF CancelLoad, TypeOK
  <2>2. True(cancel'[c], status')
    BY <1>2 DEF CancelLoad, Cancelable, TypeOK, Statuses, Open, Terminal
  <2> QED
    BY <1>0, <1>b, <2>1, <2>2
<1>3. ASSUME NEW c \in Cancels, CancelUpdate(c) PROVE CancelTruth'
  <2> DEFINE ids == cancel[c].ids
             affected == {t \in ids : Cancelable(t)}
  <2>1. \A d \in Cancels \ {c} : cancel'[d] = cancel[d]
    BY <1>3 DEF CancelUpdate, TypeOK
  <2>2. ids \in SUBSET Members /\ cancel[c] \in CancelState
    BY DEF TypeOK, CancelState
  <2>3. status' = With(affected, "CANCELED")
    BY <1>3 DEF CancelUpdate
  <2>4. /\ ids \union cancel[c].already \union cancel[c].failed = Members
        /\ \A t \in cancel[c].already : status'[t] = "CANCELED"
        /\ \A t \in cancel[c].failed : status'[t] \in Terminal \ {"CANCELED"}
    <3>1. True(cancel[c], status) /\ cancel[c].pc = "loaded"
      BY <1>3, <1>a DEF CancelUpdate
    <3> QED
      BY <2>2, <3>1, TerminalStays DEF CancelState, Terminal
  <2>5. \A t \in ids : status'[t] \in Terminal
    BY <2>2, <2>3 DEF With, Cancelable, TypeOK, Statuses, Terminal
  <2>6. CASE AllAffected(ids, affected)
    <3>1. affected = ids
      <4>1. IsFiniteSet(ids)
        BY <2>2, GroupAssumption, FS_Subset
      <4> QED
        BY <2>6, <4>1, FS_Subset DEF AllAffected
    <3>2. \A t \in ids : status'[t] = "CANCELED"
      BY <2>2, <2>3, <3>1 DEF With
    <3>3. cancel'[c] = [cancel[c] EXCEPT !.pc = "follow", !.canceled = ids]
      BY <1>3, <2>6 DEF CancelUpdate, TypeOK
    <3>4. True(cancel'[c], status')
      BY <2>2, <2>4, <3>2, <3>3 DEF CancelState
    <3> QED
      BY <1>0, <1>b, <2>1, <3>4
  <2>7. CASE ~AllAffected(ids, affected)
    <3>1. cancel'[c] = [cancel[c] EXCEPT !.pc = "recheck"]
      BY <1>3, <2>7 DEF CancelUpdate, TypeOK
    <3>2. True(cancel'[c], status')
      BY <2>2, <2>4, <2>5, <3>1 DEF CancelState
    <3> QED
      BY <1>0, <1>b, <2>1, <3>2
  <2> QED
    BY <2>6, <2>7
<1>4. ASSUME NEW c \in Cancels, CancelRecheck(c) PROVE CancelTruth'
  <2> DEFINE found == {t \in cancel[c].ids : status[t] = "CANCELED"}
             left  == cancel[c].failed \union (cancel[c].ids \ found)
  <2>1. \A d \in Cancels \ {c} : cancel'[d] = cancel[d]
    BY <1>4 DEF CancelRecheck, TypeOK
  <2>2. PICK pc \in {"done", "follow"} :
          cancel'[c] = [cancel[c] EXCEPT !.pc = pc, !.canceled = found, !.failed = left]
    BY <1>4 DEF CancelRecheck, TypeOK
  <2>3. True(cancel[c], status) /\ cancel[c].pc = "recheck" /\ cancel[c] \in CancelState
    BY <1>4, <1>a DEF CancelRecheck, TypeOK
  <2>4. status' = status
    BY <1>4 DEF CancelRecheck
  <2>5. True(cancel'[c], status')
    BY <2>2, <2>3, <2>4 DEF CancelState
  <2> QED
    BY <1>0, <1>b, <2>1, <2>5
<1>5. ASSUME NEW c \in Cancels, CancelFollow(c) PROVE CancelTruth'
  <2>1. \A d \in Cancels \ {c} : cancel'[d] = cancel[d]
    BY <1>5 DEF CancelFollow, TypeOK
  <2>2. cancel'[c] = [cancel[c] EXCEPT !.pc = "done"] /\ cancel[c].pc = "follow"
    BY <1>5 DEF CancelFollow, TypeOK
  <2>3. True(cancel[c], status) /\ cancel[c] \in CancelState /\ status' = status
    BY <1>5, <1>a DEF CancelFollow, TypeOK
  <2>4. True(cancel'[c], status')
    BY <2>2, <2>3 DEF CancelState
  <2> QED
    BY <1>0, <1>b, <2>1, <2>4
<1> QED
  BY <1>1, <1>2, <1>3, <1>4, <1>5, CancelWrites DEF CancelStep

-----------------------------------------------------------------------------
(* What clients are told of is final. *)

LEMMA ToldWrites ==
  ASSUME [Next]_vars
  PROVE  \/ UNCHANGED told
         \/ \E t \in Members : Closes(t)
         \/ \E p \in Pods : CollateFollow(p)
         \/ \E e \in Executors : Publish(e)
         \/ \E c \in Cancels : CancelFollow(c)
BY DEF Next, vars, CollateStep, ExecStep, Submit, CancelStep, Closes, Sign,
       Rotate, StatusCron, Prepare, CollateFits, CollateOversize, GroupLock,
       GroupGiveUp, LockExpires, RequestExecution, Validate, SubmitAccepted,
       SubmitRefused, Record, RecordThrows, CancelLoad, CancelUpdate,
       CancelRecheck, Tick, Crash

LEMMA ToldIsTrueNext ==
  ASSUME TypeOK, CollateTruth, ExecTruth, CancelTruth, ToldIsTrue, [Next]_vars
  PROVE  ToldIsTrue'
<1>0. ASSUME NEW u \in Members PROVE told[u] \subseteq {status'[u]}
  <2>1. told[u] \subseteq Terminal /\ told[u] \subseteq {status[u]}
    BY DEF TypeOK, ToldIsTrue
  <2>2. CASE told[u] = {}
    BY <2>2
  <2>3. CASE status[u] \in told[u]
    BY <2>1, <2>3, TerminalStays
  <2> QED
    BY <2>1, <2>2, <2>3
<1>1. CASE UNCHANGED told
  BY <1>0, <1>1 DEF ToldIsTrue
<1>2. ASSUME NEW S, NEW value, Announce(S, value),
             \A u \in Members : u \in S => status'[u] = value
      PROVE  ToldIsTrue'
  BY <1>0, <1>2 DEF Announce, ToldIsTrue
<1>3. ASSUME NEW t \in Members, Closes(t) PROVE ToldIsTrue'
  <2>1. CASE CancelMember(t)
    <3>1. status'[t] = "CANCELED"
      BY <2>1 DEF CancelMember, With
    <3> QED
      BY <1>2, <2>1, <3>1 DEF CancelMember
  <2>2. CASE Expire(t)
    <3>1. status'[t] = "EXPIRED"
      BY <2>2 DEF Expire, With
    <3> QED
      BY <1>2, <2>2, <3>1 DEF Expire
  <2> QED
    BY <1>3, <2>1, <2>2 DEF Closes
<1>4. ASSUME NEW p \in Pods, CollateFollow(p) PROVE ToldIsTrue'
  <2>1. \A u \in Members : u \in collate[p].ready => status'[u] = "FAILED"
    BY <1>4 DEF CollateFollow, CollateTruth
  <2> QED
    BY <1>2, <1>4, <2>1 DEF CollateFollow
<1>5. ASSUME NEW e \in Executors, Publish(e) PROVE ToldIsTrue'
  <2>1. \A u \in Members : Recorded(e, u) \subseteq {status'[u]}
    BY <1>5 DEF Publish, Recorded, ExecTruth
  <2>2. \A u \in Members : told'[u] \subseteq told[u] \union Recorded(e, u)
    BY <1>5 DEF Publish
  <2> QED
    BY <1>0, <2>1, <2>2 DEF ToldIsTrue
<1>6. ASSUME NEW c \in Cancels, CancelFollow(c) PROVE ToldIsTrue'
  <2>1. \A u \in Members : u \in cancel[c].canceled => status'[u] = "CANCELED"
    BY <1>6 DEF CancelFollow, CancelTruth
  <2> QED
    BY <1>2, <1>6, <2>1 DEF CancelFollow
<1> QED
  BY <1>1, <1>3, <1>4, <1>5, <1>6, ToldWrites

-----------------------------------------------------------------------------
(* The inductive invariant *)

IInv == TypeOK /\ CollateTruth /\ ExecTruth /\ CancelTruth /\ ToldIsTrue

LEMMA IInvInit == Init => IInv
<1> SUFFICES ASSUME Init PROVE IInv
  OBVIOUS
<1>1. CollateTruth /\ ExecTruth
  BY DEF Init, CollateTruth, ExecTruth, IdleCollate, IdleExec
<1>2. CancelTruth
  BY DEF Init, CancelTruth, IdleCancel
<1>3. ToldIsTrue
  BY DEF Init, ToldIsTrue
<1> QED
  BY <1>1, <1>2, <1>3, TypeInit DEF IInv

LEMMA IInvNext == IInv /\ [Next]_vars => IInv'
BY TypeNext, CollateTruthNext, ExecTruthNext, CancelTruthNext, ToldIsTrueNext
   DEF IInv

LEMMA Invariance == Spec => []IInv
BY IInvInit, IInvNext, PTL DEF Spec

(* Statuses, copies, locks and lists keep their types.                     *)
THEOREM TypeCorrect == Spec => []TypeOK
<1>1. IInv => TypeOK
  BY DEF IInv
<1> QED
  BY <1>1, Invariance, PTL

(* A group cancel answers about every member, and its answers stay true.   *)
THEOREM CancelHolds == Spec => []GroupCancelAnswersTruth
<1>1. IInv => GroupCancelAnswersTruth
  <2> SUFFICES ASSUME IInv, NEW c \in Cancels, cancel[c].pc \in {"follow", "done"}
               PROVE  /\ cancel[c].canceled \union cancel[c].already
                           \union cancel[c].failed = Members
                      /\ \A t \in cancel[c].canceled \union cancel[c].already :
                           status[t] = "CANCELED"
                      /\ \A t \in cancel[c].failed : status[t] \in Terminal \ {"CANCELED"}
    BY DEF GroupCancelAnswersTruth
  <2>1. cancel[c] \in CancelState
    BY DEF IInv, TypeOK
  <2> QED
    BY <2>1 DEF IInv, CancelTruth, CancelState
<1> QED
  BY <1>1, Invariance, PTL

(* Clients are told of no end that a member did not reach.                 *)
THEOREM ToldHolds == Spec => []ToldIsTrue
<1>1. IInv => ToldIsTrue
  BY DEF IInv
<1> QED
  BY <1>1, Invariance, PTL

-----------------------------------------------------------------------------
(* Refinement of TransactionPromise by every member *)

(* The steps of the promise, in the words of this module.                  *)
LEMMA PromiseSteps ==
  ASSUME NEW u \in Members,
         \/ /\ status'[u] = status[u] /\ net'[u] = net[u]
            /\ \/ InFlight(u)' = InFlight(u)
               \/ InFlight(u) /\ ~InFlight(u)'
               \/ status[u] \in Open /\ InFlight(u)'
         \/ /\ status'[u] = status[u] /\ InFlight(u)
            /\ net[u] = "unknown" /\ net'[u] \in {"success", "failure"}
         \/ /\ net'[u] = net[u] /\ InFlight(u)' = InFlight(u)
            /\ \/ /\ status[u] \in Open
                  /\ status'[u] \in Open \union {"CANCELED", "EXPIRED"}
               \/ /\ status[u] = "WAITING_FOR_EXECUTION"
                  /\ \/ status'[u] = "FAILED"
                     \/ status'[u] = "EXECUTED" /\ net[u] = "success"
  PROVE  Promised(u)!PromiseNext \/ UNCHANGED Promised(u)!promiseVars
<1>1. InFlight(u) \in BOOLEAN /\ InFlight(u)' \in BOOLEAN
  BY DEF InFlight
<1> QED
  BY <1>1 DEF Promised!PromiseNext, Promised!promiseVars, Promised!Review,
     Promised!Take, Promised!Drop, Promised!Settle, Promised!Record,
     Promised!Close, Promised!Archive

(* Nobody is in flight who was not, unless validated in this step.         *)
LEMMA NoneTaken ==
  ASSUME NEW u \in Members,
         \A d \in Executors : \/ exec'[d].stage[u] = exec[d].stage[u]
                              \/ exec'[d].stage[u] # "valid"
  PROVE  InFlight(u)' = InFlight(u) \/ (InFlight(u) /\ ~InFlight(u)')
<1>1. InFlight(u)' => InFlight(u)
  BY DEF InFlight
<1> QED
  BY <1>1 DEF InFlight

LEMMA OtherSteps ==
  ASSUME [Next]_vars
  PROVE  \/ UNCHANGED <<status, net, exec>>
         \/ \E t \in Members : Sign(t) \/ StatusCron(t) \/ Closes(t)
         \/ \E p \in Pods : CollateOversize(p)
         \/ \E c \in Cancels : CancelUpdate(c)
         \/ \E p \in Pods : CollateFits(p) \/ GroupLock(p) \/ GroupGiveUp(p) \/ Crash(p)
         \/ \E r \in Requests : RequestExecution(r)
         \/ \E e \in Executors : ExecStep(e)
         \/ \E e \in Executors, t \in Members : RecordThrows(e, t)
BY DEF Next, vars, CollateStep, CancelStep, Closes, Rotate, Prepare,
       CollateFollow, LockExpires, CancelLoad, CancelRecheck, CancelFollow, Tick

LEMMA MemberStep ==
  ASSUME TypeOK, ExecTruth, [Next]_vars, NEW u \in Members
  PROVE  Promised(u)!PromiseNext \/ UNCHANGED Promised(u)!promiseVars
<1> DEFINE Goal == Promised(u)!PromiseNext \/ UNCHANGED Promised(u)!promiseVars
           Kept(d) == \/ exec'[d].stage[u] = exec[d].stage[u]
                      \/ exec'[d].stage[u] # "valid"
<1>0. Pods \subseteq Executors /\ Requests \subseteq Executors
  BY DEF Executors
<1>a. ASSUME UNCHANGED <<status, net>>, \A d \in Executors : Kept(d) PROVE Goal
  <2>1. InFlight(u)' = InFlight(u) \/ (InFlight(u) /\ ~InFlight(u)')
    BY <1>a, NoneTaken
  <2> QED
    BY <1>a, <2>1, PromiseSteps
<1>b. ASSUME UNCHANGED <<net, exec>>,
             \/ status'[u] = status[u]
             \/ /\ status[u] \in Open
                /\ status'[u] \in Open \union {"CANCELED", "EXPIRED"}
             \/ status[u] = "WAITING_FOR_EXECUTION" /\ status'[u] = "FAILED"
      PROVE  Goal
  <2>1. InFlight(u)' = InFlight(u)
    BY <1>b DEF InFlight
  <2> QED
    BY <1>b, <2>1, PromiseSteps
<1>1. ASSUME NEW t \in Members, Sign(t) \/ StatusCron(t) \/ Closes(t) PROVE Goal
  <2>1. CASE Sign(t)
    BY <1>b, <2>1 DEF Sign, With, Open
  <2>2. CASE StatusCron(t)
    BY <1>b, <2>2 DEF StatusCron, With, Open
  <2>3. CASE Closes(t)
    BY <1>b, <2>3 DEF Closes, CancelMember, Expire, Cancelable, Expirable, With
  <2> QED
    BY <1>1, <2>1, <2>2, <2>3
<1>2. ASSUME NEW p \in Pods, CollateOversize(p) PROVE Goal
  <2>1. status'[u] = status[u]
          \/ (status[u] = "WAITING_FOR_EXECUTION" /\ status'[u] = "FAILED")
    BY <1>2 DEF CollateOversize, With, Waiting
  <2> QED
    BY <1>2, <1>b, <2>1 DEF CollateOversize
<1>3. ASSUME NEW c \in Cancels, CancelUpdate(c) PROVE Goal
  <2>1. status'[u] = status[u] \/ (status[u] \in Open /\ status'[u] = "CANCELED")
    BY <1>3 DEF CancelUpdate, Cancelable, With
  <2> QED
    BY <1>3, <1>b, <2>1 DEF CancelUpdate
<1>4. CASE UNCHANGED <<status, net, exec>>
  BY <1>4, <1>b
<1>5. ASSUME NEW p \in Pods, CollateFits(p) \/ GroupLock(p) \/ GroupGiveUp(p) \/ Crash(p)
      PROVE  Goal
  <2>0. exec \in [Executors -> ExecState] /\ p \in Executors
    BY <1>0 DEF TypeOK
  <2>1. UNCHANGED <<status, net>>
    BY <1>5 DEF CollateFits, GroupLock, GroupGiveUp, Crash
  <2>2. CASE CollateFits(p)
    <3>1. \A d \in Executors : Kept(d)
      BY <2>0, <2>2 DEF CollateFits
    <3> QED
      BY <1>a, <2>1, <3>1
  <2>3. CASE GroupLock(p)
    <3>1. \A d \in Executors : Kept(d)
      BY <2>0, <2>3 DEF GroupLock, ExecState
    <3> QED
      BY <1>a, <2>1, <3>1
  <2>4. CASE GroupGiveUp(p) \/ Crash(p)
    <3>1. \A d \in Executors : Kept(d)
      BY <2>0, <2>4 DEF GroupGiveUp, Crash, IdleExec
    <3> QED
      BY <1>a, <2>1, <3>1
  <2> QED
    BY <1>5, <2>2, <2>3, <2>4
<1>6. ASSUME NEW r \in Requests, RequestExecution(r) PROVE Goal
  <2>1. \A d \in Executors : Kept(d)
    BY <1>0, <1>6 DEF RequestExecution, TypeOK, ExecState
  <2> QED
    BY <1>6, <1>a, <2>1 DEF RequestExecution
<1>7. ASSUME NEW e \in Executors, Validate(e) PROVE Goal
  <2> DEFINE t == First(Listed(e))
  <2>1. \/ status[t] \in Open /\ exec' = [exec EXCEPT ![e].stage[t] = "valid"]
        \/ exec' = [exec EXCEPT ![e] = IdleExec]
    BY <1>7 DEF Validate, Passes
  <2>2. UNCHANGED <<status, net>>
    BY <1>7 DEF Validate
  <2> HIDE DEF t
  <2>3. CASE exec' = [exec EXCEPT ![e] = IdleExec]
    <3>1. \A d \in Executors : Kept(d)
      BY <2>3 DEF IdleExec, TypeOK
    <3> QED
      BY <1>a, <2>2, <3>1
  <2>4. CASE u # t /\ exec' = [exec EXCEPT ![e].stage[t] = "valid"]
    <3>1. \A d \in Executors : Kept(d)
      BY <2>4, OneStage
    <3> QED
      BY <1>a, <2>2, <3>1
  <2>5. CASE /\ u = t /\ status[t] \in Open
             /\ exec' = [exec EXCEPT ![e].stage[t] = "valid"]
    <3>1. exec'[e].stage[u] = "valid"
      BY <2>5 DEF TypeOK, ExecState
    <3>2. InFlight(u)'
      BY <3>1 DEF InFlight
    <3> QED
      BY <2>2, <2>5, <3>2, PromiseSteps
  <2> QED
    BY <2>1, <2>3, <2>4, <2>5
<1>8. ASSUME NEW e \in Executors, Publish(e) PROVE Goal
  <2>1. \A d \in Executors : Kept(d)
    BY <1>8 DEF Publish, IdleExec, TypeOK
  <2> QED
    BY <1>8, <1>a, <2>1 DEF Publish
<1>9. ASSUME NEW e \in Executors, NEW t \in Members, SubmitAccepted(e, t)
      PROVE  Goal
  <2>1. CASE u = t
    <3>1. InFlight(u) /\ net[u] = "unknown" /\ status' = status
      BY <1>9, <2>1 DEF SubmitAccepted, MayRun, InFlight
    <3>2. net'[u] \in {"success", "failure"}
      BY <1>9, <2>1 DEF SubmitAccepted, TypeOK
    <3> QED
      BY <3>1, <3>2, PromiseSteps
  <2>2. CASE u # t
    <3>1. net'[u] = net[u] /\ status' = status
      BY <1>9, <2>2 DEF SubmitAccepted, TypeOK
    <3>2. PICK answer : exec' = [exec EXCEPT ![e].stage[t] = answer]
      BY <1>9 DEF SubmitAccepted
    <3>3. \A d \in Executors : Kept(d)
      BY <2>2, <3>2, OneStage
    <3>4. InFlight(u)' = InFlight(u) \/ (InFlight(u) /\ ~InFlight(u)')
      BY <3>3, NoneTaken
    <3> QED
      BY <3>1, <3>4, PromiseSteps
  <2> QED
    BY <2>1, <2>2
<1>10. ASSUME NEW e \in Executors, NEW t \in Members, SubmitRefused(e, t)
       PROVE  Goal
  <2>1. PICK answer \in {"error", "duplicate"} :
          exec' = [exec EXCEPT ![e].stage[t] = answer]
    BY <1>10 DEF SubmitRefused
  <2>2. \A d \in Executors : Kept(d)
    <3>1. \A d \in Executors : d # e \/ u # t => Kept(d)
      BY <2>1, OneStage
    <3>2. u = t => exec'[e].stage[u] # "valid"
      BY <2>1 DEF TypeOK, ExecState
    <3> QED
      BY <3>1, <3>2
  <2> QED
    BY <1>10, <1>a, <2>2 DEF SubmitRefused
<1>11. ASSUME NEW e \in Executors, NEW t \in Members, Record(e, t) PROVE Goal
  <2>1. PICK verdict \in {"EXECUTED", "FAILED", "nothing"} :
          /\ exec' = [exec EXCEPT ![e].stage[t] = verdict]
          /\ verdict = "nothing" => status' = status
          /\ verdict # "nothing" => status' = With({t}, verdict) /\ Recordable(t)
          /\ verdict = "EXECUTED" => exec[e].stage[t] = "ok"
    BY <1>11 DEF Record, Verdict
  <2>2. exec[e].stage[t] # "valid" /\ net' = net
    BY <1>11 DEF Record
  <2>3. \A d \in Executors : d # e \/ u # t => exec'[d].stage[u] = exec[d].stage[u]
    <3>1. exec' = [exec EXCEPT ![e].stage[t] = verdict]
      BY <2>1
    <3> QED
      BY <3>1, OneStage
  <2>4. exec'[e].stage[t] # "valid"
    BY <2>1 DEF TypeOK, ExecState
  <2>5. InFlight(u)' = InFlight(u)
    BY <2>2, <2>3, <2>4 DEF InFlight
  <2>6. \/ status'[u] = status[u]
        \/ /\ status[u] = "WAITING_FOR_EXECUTION"
           /\ \/ status'[u] = "FAILED"
              \/ status'[u] = "EXECUTED" /\ net[u] = "success"
    BY <2>1 DEF With, Recordable, ExecTruth
  <2> QED
    BY <2>2, <2>5, <2>6, PromiseSteps
<1>12. ASSUME NEW e \in Executors, NEW t \in Members, RecordThrows(e, t)
       PROVE  Goal
  <2>1. \A d \in Executors : Kept(d)
    BY <1>12 DEF RecordThrows, IdleExec, TypeOK, ExecState
  <2> QED
    BY <1>12, <1>a, <2>1 DEF RecordThrows
<1> QED
  BY <1>1, <1>2, <1>3, <1>4, <1>5, <1>6, <1>7, <1>8, <1>9, <1>10, <1>11, <1>12,
     OtherSteps DEF ExecStep, Submit

(* Every member behaves as TransactionPromise says of one transaction.     *)
THEOREM MembersRefine == Spec => MembersKeepPromise
<1>1. Init => \A t \in Members : Promised(t)!PromiseInit
  BY DEF Init, Promised!PromiseInit, InFlight, IdleExec, Open
<1>2. IInv /\ [Next]_vars =>
        [\A t \in Members : Promised(t)!PromiseNext
                              \/ UNCHANGED Promised(t)!promiseVars]_vars
  BY MemberStep DEF IInv
<1> QED
  BY <1>1, <1>2, Invariance, PTL DEF Spec, MembersKeepPromise

=============================================================================
