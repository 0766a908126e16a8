--------------------- MODULE NotificationBatcher_proofs ---------------------
(***************************************************************************)
(* Theorems about NotificationBatcher, for any instances, messages, batch  *)
(* size, delays and number of faults.                                      *)
(***************************************************************************)
EXTENDS NotificationBatcher, TLAPS

Stages == CallStage \cup FlushStage \cup HandlerStage

-----------------------------------------------------------------------------
(* Type correctness *)

LEMMA Names ==
  /\ \A m \in Messages : m \in Processes /\ m \notin Handlers
  /\ \A i \in Instances, k \in Kinds :
       <<i, k>> \in Processes /\ <<i, k>> \in Handlers /\ <<i, k>> \notin Messages
BY NamesAssumption DEF Processes, Handlers

(* What Moves does to the next steps. *)
LEMMA MovesDef ==
  ASSUME TypeOK, NEW p \in Processes, NEW from, NEW to \in Stages, Moves(p, from, to)
  PROVE  /\ at[p] = from /\ at'[p] = to
         /\ at' \in [Processes -> Stages]
         /\ \A q \in Processes : q # p => at'[q] = at[q]
BY DEF Moves, TypeOK, Stages

LEMMA AfterPushType == \A length : AfterPush(length) \in {"range", "get"}
BY DEF AfterPush

LEMMA FinishedType == \A p : Finished(p) \in {"done", "unlock"}
BY DEF Finished

LEMMA RangeOfList ==
  ASSUME NEW s \in Seq(Messages)
  PROVE  Range(s) \subseteq Messages
BY DEF Range

LEMMA RangeOfAppend ==
  ASSUME NEW s \in Seq(Messages), NEW m \in Messages
  PROVE  Range(Append(s, m)) = Range(s) \cup {m}
<1>1. /\ Append(s, m) \in Seq(Messages)
      /\ DOMAIN s = 1 .. Len(s) /\ DOMAIN Append(s, m) = 1 .. Len(s) + 1
      /\ Append(s, m)[Len(s) + 1] = m
      /\ \A n \in 1 .. Len(s) : Append(s, m)[n] = s[n]
  OBVIOUS
<1>2. Range(Append(s, m)) \subseteq Range(s) \cup {m}
  BY <1>1 DEF Range
<1>3. Len(s) + 1 \in DOMAIN Append(s, m) /\ DOMAIN s \subseteq DOMAIN Append(s, m)
  BY <1>1
<1>4. Range(s) \cup {m} \subseteq Range(Append(s, m))
  BY <1>1, <1>3 DEF Range
<1> QED
  BY <1>2, <1>4

LEMMA RangeOfEmpty == Range(<<>>) = {}
BY DEF Range

LEMMA DiesType ==
  ASSUME TypeOK, NEW i \in Instances, Dies(i)
  PROVE  /\ at' \in [Processes -> Stages]
         /\ hand' \in [Processes -> Seq(Messages)]
         /\ echo' \subseteq Instances
         /\ past' \subseteq {"crash", "slow"}
         /\ UNCHANGED <<list, listTTL, flushTTL, locked, taken, sent>>
<1>1. at' \in [Processes -> Stages]
  BY DEF Dies, TypeOK, Stages, CallStage, FlushStage, HandlerStage
<1>2. hand' \in [Processes -> Seq(Messages)]
  <2>1. <<>> \in Seq(Messages)
    OBVIOUS
  <2> QED
    BY <2>1 DEF Dies, TypeOK
<1>3. /\ echo' \subseteq Instances /\ past' \subseteq {"crash", "slow"}
      /\ UNCHANGED <<list, listTTL, flushTTL, locked, taken, sent>>
  BY DEF Dies, TypeOK, redis
<1> QED
  BY <1>1, <1>2, <1>3

LEMMA TypeStep == TypeOK /\ [Next]_vars => TypeOK'
<1> SUFFICES ASSUME TypeOK, [Next]_vars
             PROVE  TypeOK'
  OBVIOUS
<1> USE BoundsAssumption
<1>0. CASE UNCHANGED vars
  BY <1>0 DEF vars, TypeOK
<1>1. ASSUME NEW m \in Messages, AddStep(m)
      PROVE  TypeOK'
  <2>0. m \in Processes
    BY Names
  <2>1. CASE Push(m)
    <3>1. PICK to \in Stages : Moves(m, "new", to)
      BY <2>1, AfterPushType DEF Push, Stages, CallStage, FlushStage, HandlerStage
    <3>2. list' \in Seq(Messages)
      BY <2>1 DEF Push, TypeOK
    <3> QED
      BY <2>0, <2>1, <3>1, <3>2, MovesDef DEF Push, TypeOK, history, Stages
  <2>2. CASE SetMaxDelay(m)
    <3>1. PICK to \in Stages : Moves(m, "expire", to)
      BY <2>2, AfterPushType DEF SetMaxDelay, Stages, CallStage, FlushStage, HandlerStage
    <3> QED
      BY <2>0, <2>2, <3>1, MovesDef DEF SetMaxDelay, TypeOK, history, Stages
  <2>3. CASE IsScheduled(m)
    <3>1. PICK to \in Stages : Moves(m, "get", to)
      BY <2>3 DEF IsScheduled, Stages, CallStage, FlushStage, HandlerStage
    <3> QED
      BY <2>0, <2>3, <3>1, MovesDef DEF IsScheduled, TypeOK, history, redis, Stages
  <2>4. CASE Renew(m)
    <3>1. "done" \in Stages
      BY DEF Stages, CallStage
    <3> QED
      BY <2>0, <2>4, <3>1, MovesDef DEF Renew, TypeOK, history, Stages
  <2>5. CASE Schedule(m)
    <3>1. "done" \in Stages
      BY DEF Stages, CallStage
    <3> QED
      BY <2>0, <2>5, <3>1, MovesDef DEF Schedule, TypeOK, history, Stages
  <2> QED
    BY <1>1, <2>1, <2>2, <2>3, <2>4, <2>5 DEF AddStep
<1>2. ASSUME NEW p \in Processes, FlushStep(p)
      PROVE  TypeOK'
  <2>0. Finished(p) \in Stages
    BY FinishedType DEF Stages, CallStage, HandlerStage
  <2>1. CASE Read(p)
    <3>1. PICK to \in Stages : Moves(p, "range", to)
      BY <2>1 DEF Read, Stages, FlushStage
    <3>2. taken' \in [Kinds -> SUBSET Messages]
      BY <2>1, RangeOfList DEF Read, TakenBy, TypeOK
    <3> QED
      BY <2>1, <3>1, <3>2, MovesDef DEF Read, TypeOK, redis, Stages
  <2>2. CASE Clear(p)
    BY <2>0, <2>2, MovesDef DEF Clear, TypeOK, history, Stages
  <2>3. CASE DeleteBatch(p)
    <3>1. "unschedule" \in Stages /\ <<>> \in Seq(Messages)
      BY DEF Stages, FlushStage
    <3> QED
      BY <2>3, <3>1, MovesDef DEF DeleteBatch, TypeOK, history, Stages
  <2>4. CASE Unschedule(p)
    <3>1. sent' \subseteq Messages
      BY <2>4, RangeOfList DEF Unschedule, TypeOK
    <3>2. hand' \in [Processes -> Seq(Messages)]
      BY <2>4 DEF Unschedule, TypeOK
    <3> QED
      BY <2>0, <2>4, <3>1, <3>2, MovesDef DEF Unschedule, TypeOK, Stages
  <2> QED
    BY <1>2, <2>1, <2>2, <2>3, <2>4 DEF FlushStep
<1>3. ASSUME NEW i \in Instances, NEW k \in Kinds, Acquire(i, k) \/ Unlock(i, k)
      PROVE  TypeOK'
  BY <1>3, Names DEF Acquire, Unlock, Moves, TypeOK, history, FlushStage, HandlerStage
<1>4. ASSUME NEW k \in Kinds, LockRunsOut(k)
      PROVE  TypeOK'
  BY <1>4 DEF LockRunsOut, TypeOK
<1>5. ASSUME NEW i \in Instances, Crash(i) \/ EchoFails(i)
      PROVE  TypeOK'
  <2>1. Dies(i) /\ faults' \in 0..MaxFaults
    BY <1>5 DEF Crash, EchoFails, TypeOK
  <2> QED
    BY <2>1, DiesType DEF TypeOK, Stages
<1>6. ASSUME NEW i \in Instances, EchoFlush(i)
      PROVE  TypeOK'
  BY <1>6 DEF EchoFlush, TypeOK, history, Kinds
<1>7. CASE Tick
  <2>1. at' \in [Processes -> Stages]
    BY <1>7 DEF Tick, TypeOK, Stages, HandlerStage
  <2>2. list' \in Seq(Messages) /\ listTTL' \in 0..MaxDelay /\ flushTTL' \in 0..Delay
    BY <1>7 DEF Tick, TypeOK, Less
  <2> QED
    BY <1>7, <2>1, <2>2 DEF Tick, TypeOK, history, Stages
<1> QED
  BY <1>0, <1>1, <1>2, <1>3, <1>4, <1>5, <1>6, <1>7, Names DEF Next, HandlerStep

LEMMA TypeInit == Init => TypeOK
BY BoundsAssumption DEF Init, TypeOK, CallStage, HandlerStage

(* The variables keep their types. *)
THEOREM TypeCorrect == Spec => []TypeOK
<1> QED
  BY TypeInit, TypeStep, PTL DEF Spec

-----------------------------------------------------------------------------
(* A list never stays without an end. *)

LEMMA ClearStep ==
  TypeOK /\ SomebodyWillClear /\ [Next]_vars => SomebodyWillClear'
<1> SUFFICES ASSUME TypeOK, SomebodyWillClear, [Next]_vars
             PROVE  SomebodyWillClear'
  OBVIOUS
<1> USE BoundsAssumption
<1>0. CASE UNCHANGED vars
  BY <1>0 DEF vars, SomebodyWillClear
<1>1. ASSUME NEW m \in Messages, AddStep(m)
      PROVE  SomebodyWillClear'
  <2>0. m \in Processes /\ \A n \in Messages : n \in Processes
    BY Names
  <2>1. CASE Push(m)
    <3>1. CASE list = <<>>
      <4>1. at'[m] = "expire"
        BY <2>0, <2>1, <3>1, MovesDef DEF Push, Moves, IsFirst, TypeOK
      <4> QED
        BY <4>1 DEF SomebodyWillClear
    <3>2. CASE list # <<>>
      <4>1. at[m] = "new" /\ \A n \in Messages : n # m => at'[n] = at[n]
        BY <2>0, <2>1 DEF Push, Moves, TypeOK
      <4> QED
        BY <2>1, <3>2, <4>1 DEF Push, history, SomebodyWillClear
    <3> QED
      BY <3>1, <3>2
  <2>2. CASE SetMaxDelay(m)
    BY <2>2 DEF SetMaxDelay, SomebodyWillClear, TypeOK
  <2>3. CASE IsScheduled(m) \/ Renew(m) \/ Schedule(m)
    <3>1. /\ UNCHANGED <<list, listTTL, past>>
          /\ at[m] \in {"get", "renew", "set"}
          /\ \A n \in Messages : n # m => at'[n] = at[n]
      BY <2>0, <2>3 DEF IsScheduled, Renew, Schedule, Moves, redis, history, TypeOK
    <3> QED
      BY <3>1 DEF SomebodyWillClear
  <2> QED
    BY <1>1, <2>1, <2>2, <2>3 DEF AddStep
<1>2. ASSUME NEW p \in Processes, FlushStep(p)
      PROVE  SomebodyWillClear'
  <2>1. CASE DeleteBatch(p)
    BY <2>1 DEF DeleteBatch, SomebodyWillClear
  <2>2. CASE Read(p) \/ Clear(p) \/ Unschedule(p)
    <3>1. /\ UNCHANGED <<list, listTTL, past>>
          /\ at[p] # "expire"
          /\ \A n \in Processes : n # p => at'[n] = at[n]
      BY <2>2 DEF Read, Clear, Unschedule, Moves, redis, history, TypeOK
    <3> QED
      BY <3>1, Names DEF SomebodyWillClear
  <2> QED
    BY <1>2, <2>1, <2>2 DEF FlushStep
<1>3. ASSUME NEW i \in Instances, NEW k \in Kinds, Acquire(i, k) \/ Unlock(i, k)
      PROVE  SomebodyWillClear'
  <2>1. /\ UNCHANGED <<list, listTTL, past>>
        /\ \A n \in Messages : at'[n] = at[n]
    BY <1>3, Names DEF Acquire, Unlock, Moves, history, TypeOK
  <2> QED
    BY <2>1 DEF SomebodyWillClear
<1>4. ASSUME NEW k \in Kinds, LockRunsOut(k)
      PROVE  SomebodyWillClear'
  BY <1>4 DEF LockRunsOut, SomebodyWillClear
<1>5. ASSUME NEW i \in Instances, Crash(i) \/ EchoFails(i)
      PROVE  SomebodyWillClear'
  BY <1>5 DEF Crash, EchoFails, Dies, SomebodyWillClear
<1>6. ASSUME NEW i \in Instances, EchoFlush(i)
      PROVE  SomebodyWillClear'
  BY <1>6 DEF EchoFlush, history, SomebodyWillClear
<1>7. CASE Tick
  <2>1. \A n \in Messages : at[n] = "expire" => at'[n] = "expire"
    BY <1>7, Names DEF Tick, TypeOK
  <2>2. listTTL > 0 => listTTL' > 0 \/ list' = <<>>
    BY <1>7 DEF Tick, Less, TypeOK
  <2>3. list = <<>> => list' = <<>>
    BY <1>7 DEF Tick
  <2> QED
    BY <1>7, <2>1, <2>2, <2>3 DEF Tick, history, SomebodyWillClear
<1> QED
  BY <1>0, <1>1, <1>2, <1>3, <1>4, <1>5, <1>6, <1>7, Names DEF Next, HandlerStep

(* A list that is not empty expires or is about to be told when. *)
THEOREM ClearHolds == Spec => []SomebodyWillClear
<1>1. Init => SomebodyWillClear
  BY DEF Init, SomebodyWillClear
<1> QED
  BY <1>1, TypeInit, TypeStep, ClearStep, PTL DEF Spec

-----------------------------------------------------------------------------
(* Locks *)

Critical == {"range", "clear", "delete", "unschedule", "unlock"}

(* What the lock of a kind protects: who is past it holds it and is alone, and
   messages that have been read and are still in the list are about to be
   deleted, or will never be touched, for their reader is dead.               *)
Protected(k) ==
  /\ \A i \in Instances : at[<<i, k>>] \in Critical => locked[k]
  /\ \A i, j \in Instances :
       at[<<i, k>>] \in Critical /\ at[<<j, k>>] \in Critical => i = j
  /\ Range(list) \cap taken[k] # {} =>
       /\ locked[k]
       /\ \A i \in Instances : at[<<i, k>>] \notin Critical \ {"delete"}

Fresh(m) == m \notin Range(list) /\ \A k \in Kinds : m \notin taken[k]

LockInv ==
  /\ echo # {} => "slow" \in past
  /\ \A m \in Messages : at[m] = "new" => Fresh(m)
  /\ "slow" \notin past => \A k \in Kinds : Protected(k)

(* A step that does not touch the list, nor what was read, nor the handlers. *)
LEMMA LockKept ==
  ASSUME LockInv,
         UNCHANGED <<list, locked, taken, echo, past>>,
         \A m \in Messages : at'[m] = "new" => at[m] = "new",
         \A i \in Instances, k \in Kinds : at'[<<i, k>>] = at[<<i, k>>]
  PROVE  LockInv'
BY DEF LockInv, Protected, Fresh

LEMMA OtherNames ==
  ASSUME NEW i \in Instances, NEW k \in Kinds
  PROVE  /\ \A j \in Instances, l \in Kinds : <<j, l>> = <<i, k>> <=> j = i /\ l = k
         /\ \A m \in Messages : m # <<i, k>>
BY Names

LEMMA LockAdd ==
  ASSUME TypeOK, LockInv, NEW m \in Messages, AddStep(m)
  PROVE  LockInv'
<1>0. /\ m \in Processes /\ \A n \in Messages : n \in Processes
      /\ \A i \in Instances, k \in Kinds : <<i, k>> \in Processes /\ <<i, k>> # m
  BY Names
<1>1. CASE Push(m)
  <2>1. /\ at[m] = "new" /\ at'[m] # "new"
        /\ \A p \in Processes : p # m => at'[p] = at[p]
        /\ UNCHANGED <<locked, echo, taken, past>>
    BY <1>0, <1>1, AfterPushType DEF Push, Moves, TypeOK, history
  <2>2. Range(list') = Range(list) \cup {m}
    BY <1>1, RangeOfAppend DEF Push, TypeOK
  <2>3. \A k \in Kinds : Range(list') \cap taken'[k] = Range(list) \cap taken[k]
    BY <2>1, <2>2 DEF LockInv, Fresh
  <2>4. \A n \in Messages : at'[n] = "new" => Fresh(n)'
    BY <1>0, <2>1, <2>2 DEF LockInv, Fresh
  <2>5. ASSUME NEW k \in Kinds, Protected(k)
        PROVE  Protected(k)'
    BY <1>0, <2>1, <2>3, <2>5 DEF Protected
  <2> QED
    BY <2>1, <2>4, <2>5 DEF LockInv
<1>2. CASE SetMaxDelay(m) \/ IsScheduled(m) \/ Renew(m) \/ Schedule(m)
  <2>1. /\ at'[m] # "new"
        /\ \A p \in Processes : p # m => at'[p] = at[p]
        /\ UNCHANGED <<list, locked, echo, taken, past>>
    BY <1>0, <1>2, AfterPushType
       DEF SetMaxDelay, IsScheduled, Renew, Schedule, Moves, TypeOK, history, redis
  <2>2. \A n \in Messages : at'[n] = "new" => at[n] = "new"
    BY <1>0, <2>1
  <2>3. \A i \in Instances, k \in Kinds : at'[<<i, k>>] = at[<<i, k>>]
    BY <1>0, <2>1
  <2> QED
    BY <2>1, <2>2, <2>3, LockKept
<1> QED
  BY <1>1, <1>2 DEF AddStep

LEMMA LockFlush ==
  ASSUME TypeOK, LockInv, NEW p \in Processes, FlushStep(p)
  PROVE  LockInv'
<1>0. \A n \in Messages : n \in Processes
  BY Names
<1>1. /\ at[p] # "new" /\ at'[p] # "new"
      /\ \A q \in Processes : q # p => at'[q] = at[q]
      /\ UNCHANGED <<locked, echo, past>>
  BY FinishedType DEF FlushStep, Read, Clear, DeleteBatch, Unschedule, Moves, TypeOK, redis, history
<1>2. \A n \in Messages : at'[n] = "new" => at[n] = "new"
  BY <1>0, <1>1
<1>3. \A n \in Messages : Fresh(n) /\ at[n] = "new" => Fresh(n)'
  <2>1. \A k \in Kinds : taken'[k] \subseteq taken[k] \cup Range(list)
    BY DEF FlushStep, Read, TakenBy, Clear, DeleteBatch, Unschedule, history
  <2>2. Range(list') \subseteq Range(list)
    BY RangeOfEmpty DEF FlushStep, Read, Clear, DeleteBatch, Unschedule, redis
  <2> QED
    BY <2>1, <2>2 DEF Fresh
<1>4. ASSUME NEW k \in Kinds, Protected(k), \A i \in Instances : p # <<i, k>>
      PROVE  Protected(k)'
  <2>1. \A i \in Instances : at'[<<i, k>>] = at[<<i, k>>]
    BY <1>1, <1>4, Names
  <2>2. taken'[k] = taken[k]
    <3>1. ~(p \in Handlers /\ p[2] = k)
      BY <1>4 DEF Handlers
    <3> QED
      BY <3>1 DEF FlushStep, Read, TakenBy, Clear, DeleteBatch, Unschedule, history
  <2>3. Range(list') \subseteq Range(list)
    BY RangeOfEmpty DEF FlushStep, Read, Clear, DeleteBatch, Unschedule, redis
  <2> QED
    BY <1>1, <1>4, <2>1, <2>2, <2>3 DEF Protected
<1>5. ASSUME NEW k \in Kinds, Protected(k), NEW i \in Instances, p = <<i, k>>
      PROVE  Protected(k)'
  <2>0. /\ p \notin Messages /\ p \in Handlers /\ p[2] = k
        /\ \A j \in Instances : j # i => at'[<<j, k>>] = at[<<j, k>>]
        /\ \A j \in Instances : <<j, k>> \in Processes
    BY <1>1, <1>5, Names, OtherNames
  <2>1. CASE Read(p)
    <3>1. at[<<i, k>>] = "range" /\ locked[k]
      BY <1>5, <2>1 DEF Read, Moves, Protected, Critical
    <3>2. Range(list) \cap taken[k] = {}
      BY <1>5, <3>1 DEF Protected, Critical
    <3>3. at'[<<i, k>>] = IF list = <<>> THEN "clear" ELSE "delete"
      BY <1>5, <2>1 DEF Read, Moves, TypeOK
    <3>4. \A j \in Instances : j # i => at[<<j, k>>] \notin Critical
      BY <1>5, <3>1 DEF Protected, Critical
    <3>5. list' = list /\ taken'[k] = taken[k] \cup Range(list)
      BY <2>0, <2>1 DEF Read, TakenBy, redis
    <3>6. list = <<>> => Range(list') \cap taken'[k] = {}
      BY <3>5, RangeOfEmpty
    <3> QED
      BY <1>1, <2>0, <3>1, <3>3, <3>4, <3>5, <3>6 DEF Protected, Critical
  <2>2. CASE Clear(p) \/ Unschedule(p)
    <3>1. at[<<i, k>>] \in {"clear", "unschedule"} /\ at'[<<i, k>>] = "unlock"
      BY <1>5, <2>0, <2>2 DEF Clear, Unschedule, Moves, Finished, TypeOK
    <3>2. list' = list /\ taken' = taken
      BY <2>2 DEF Clear, Unschedule, history
    <3> QED
      BY <1>1, <1>5, <2>0, <3>1, <3>2 DEF Protected, Critical
  <2>3. CASE DeleteBatch(p)
    <3>1. at[<<i, k>>] = "delete" /\ at'[<<i, k>>] = "unschedule"
      BY <1>5, <2>3 DEF DeleteBatch, Moves, TypeOK
    <3>2. Range(list') = {}
      BY <2>3, RangeOfEmpty DEF DeleteBatch
    <3> QED
      BY <1>1, <1>5, <2>0, <3>1, <3>2 DEF Protected, Critical
  <2> QED
    BY <2>1, <2>2, <2>3 DEF FlushStep
<1> QED
  BY <1>1, <1>2, <1>3, <1>4, <1>5 DEF LockInv

LEMMA LockAcquire ==
  ASSUME TypeOK, LockInv, NEW i \in Instances, NEW k \in Kinds, Acquire(i, k) \/ Unlock(i, k)
  PROVE  LockInv'
<1>0. /\ UNCHANGED <<list, taken, echo, past>>
      /\ \A q \in Processes : q # <<i, k>> => at'[q] = at[q]
      /\ \A l \in Kinds : l # k => locked'[l] = locked[l]
  BY DEF Acquire, Unlock, Moves, TypeOK, history
<1>1. \A n \in Messages : at'[n] = at[n]
  BY <1>0, Names
<1>2. ASSUME NEW l \in Kinds, l # k, Protected(l)
      PROVE  Protected(l)'
  <2>1. \A j \in Instances : at'[<<j, l>>] = at[<<j, l>>]
    BY <1>0, <1>2, Names
  <2> QED
    BY <1>0, <1>2, <2>1 DEF Protected
<1>3. ASSUME Protected(k)
      PROVE  Protected(k)'
  <2>0. \A j \in Instances : j # i => at'[<<j, k>>] = at[<<j, k>>]
    BY <1>0, Names
  <2>1. CASE Acquire(i, k) /\ locked[k]
    <3>1. locked'[k] /\ at'[<<i, k>>] = "idle"
      BY <2>1, Names DEF Acquire, Acquirable, TypeOK
    <3> QED
      BY <1>0, <1>3, <2>0, <2>1, <3>1 DEF Protected, Critical
  <2>2. CASE Acquire(i, k) /\ ~locked[k]
    <3>1. locked'[k] /\ at'[<<i, k>>] = "range"
      BY <2>2, Names DEF Acquire, Acquirable, TypeOK
    <3>2. Range(list) \cap taken[k] = {} /\ \A j \in Instances : at[<<j, k>>] \notin Critical
      BY <1>3, <2>2 DEF Protected
    <3> QED
      BY <1>0, <2>0, <3>1, <3>2 DEF Protected
  <2>3. CASE Unlock(i, k)
    <3>1. at[<<i, k>>] = "unlock" /\ at'[<<i, k>>] = "idle"
      BY <2>3, Names DEF Unlock, Moves, TypeOK
    <3>2. /\ Range(list) \cap taken[k] = {}
          /\ \A j \in Instances : j # i => at[<<j, k>>] \notin Critical
      BY <1>3, <3>1 DEF Protected, Critical
    <3> QED
      BY <1>0, <2>0, <3>1, <3>2 DEF Protected, Critical
  <2> QED
    BY <2>1, <2>2, <2>3
<1> QED
  BY <1>0, <1>1, <1>2, <1>3 DEF LockInv, Fresh

LEMMA LockStep == TypeOK /\ LockInv /\ [Next]_vars => LockInv'
<1> SUFFICES ASSUME TypeOK, LockInv, [Next]_vars
             PROVE  LockInv'
  OBVIOUS
<1>0. CASE UNCHANGED vars
  BY <1>0 DEF vars, LockInv, Protected, Fresh
<1>1. ASSUME NEW m \in Messages, AddStep(m) \/ FlushStep(m)
      PROVE  LockInv'
  BY <1>1, LockAdd, LockFlush, Names
<1>2. ASSUME NEW i \in Instances, NEW k \in Kinds, HandlerStep(i, k)
      PROVE  LockInv'
  BY <1>2, LockAcquire, LockFlush, Names DEF HandlerStep
<1>3. ASSUME NEW k \in Kinds, LockRunsOut(k)
      PROVE  LockInv'
  BY <1>3 DEF LockRunsOut, LockInv, Fresh
<1>4. ASSUME NEW i \in Instances, Crash(i) \/ EchoFails(i)
      PROVE  LockInv'
  <2>1. /\ UNCHANGED <<list, locked, taken>> /\ echo' \subseteq echo
        /\ past' = past \cup {"crash"}
    BY <1>4 DEF Crash, EchoFails, Dies, redis
  <2>2. \A n \in Messages : at'[n] = "new" => at[n] = "new"
    BY <1>4, Names DEF Crash, EchoFails, Dies
  <2>3. \A j \in Instances, k \in Kinds : at'[<<j, k>>] \in {at[<<j, k>>], "idle"}
    BY <1>4, Names DEF Crash, EchoFails, Dies
  <2>4. ASSUME NEW k \in Kinds, Protected(k)
        PROVE  Protected(k)'
    BY <2>1, <2>3, <2>4 DEF Protected, Critical
  <2> QED
    BY <2>1, <2>2, <2>4 DEF LockInv, Fresh
<1>5. ASSUME NEW i \in Instances, EchoFlush(i)
      PROVE  LockInv'
  BY <1>5 DEF EchoFlush, history, LockInv, Fresh
<1>6. CASE Tick
  <2>1. /\ UNCHANGED <<locked, taken, echo, past>>
        /\ Range(list') \subseteq Range(list)
    BY <1>6, RangeOfEmpty DEF Tick, history
  <2>2. \A n \in Messages : at'[n] = "new" => at[n] = "new"
    BY <1>6, Names DEF Tick
  <2>3. \A j \in Instances, k \in Kinds : at'[<<j, k>>] \in {at[<<j, k>>], "told"}
    BY <1>6, Names DEF Tick
  <2>4. ASSUME NEW k \in Kinds, Protected(k)
        PROVE  Protected(k)'
    BY <2>1, <2>3, <2>4 DEF Protected, Critical
  <2> QED
    BY <2>1, <2>2, <2>4 DEF LockInv, Fresh
<1> QED
  BY <1>0, <1>1, <1>2, <1>3, <1>4, <1>5, <1>6 DEF Next

LEMMA LockInit == Init => LockInv
<1> SUFFICES ASSUME Init
             PROVE  LockInv
  OBVIOUS
<1>1. Range(list) = {}
  BY RangeOfEmpty DEF Init
<1>2. \A i \in Instances, k \in Kinds : at[<<i, k>>] = "idle"
  BY Names DEF Init
<1> QED
  BY <1>1, <1>2 DEF Init, LockInv, Protected, Fresh, Critical

(* While no lock runs out, handlers of one kind never read a message twice. *)
THEOREM OnceHolds == Spec => OncePerTrigger
<1>1. ASSUME LockInv
      PROVE  \A i \in Instances, k \in Kinds :
               Read(<<i, k>>) /\ "slow" \notin past => Range(list) \cap taken[k] = {}
  BY <1>1 DEF LockInv, Protected, Critical, Read, Moves
<1> QED
  BY <1>1, LockInit, LockStep, TypeInit, TypeStep, PTL DEF Spec, OncePerTrigger

-----------------------------------------------------------------------------
(* A full list is being flushed. *)

LEMMA FullStep ==
  TypeOK /\ FullIsBeingFlushed /\ [Next]_vars => FullIsBeingFlushed'
<1> SUFFICES ASSUME TypeOK, FullIsBeingFlushed, [Next]_vars
             PROVE  FullIsBeingFlushed'
  OBVIOUS
<1> USE BoundsAssumption
<1>e. Len(<<>>) = 0 /\ Len(list) \in Nat /\ (Len(list) = 0 <=> list = <<>>)
  BY DEF TypeOK
<1>0. CASE UNCHANGED vars
  BY <1>0 DEF vars, FullIsBeingFlushed
<1>1. ASSUME NEW m \in Messages, AddStep(m)
      PROVE  FullIsBeingFlushed'
  <2>0. m \in Processes /\ \A n \in Messages : n \in Processes
    BY Names
  <2>1. CASE Push(m)
    <3>1. /\ Len(list') = Len(list) + 1
          /\ at'[m] = IF IsFirst(Len(list) + 1) THEN "expire" ELSE AfterPush(Len(list) + 1)
      BY <2>0, <2>1 DEF Push, Moves, TypeOK
    <3>2. CASE Len(list') >= MaxBatch
      BY <1>e, <2>0, <3>1, <3>2 DEF IsFirst, AfterPush, IsFull, FullIsBeingFlushed
    <3> QED
      BY <3>2 DEF FullIsBeingFlushed
  <2>2. CASE SetMaxDelay(m)
    <3>1. /\ list' = list /\ past' = past
          /\ at[m] = "expire" /\ at'[m] = AfterPush(1)
          /\ \A q \in Processes : q # m => at'[q] = at[q]
      BY <2>0, <2>2 DEF SetMaxDelay, Moves, TypeOK, history
    <3>2. MaxBatch = 1 => at'[m] = "range"
      BY <3>1 DEF AfterPush, IsFull
    <3> QED
      BY <2>0, <3>1, <3>2 DEF FullIsBeingFlushed
  <2>3. CASE IsScheduled(m) \/ Renew(m) \/ Schedule(m)
    <3>1. /\ UNCHANGED <<list, past>>
          /\ at[m] \in {"get", "renew", "set"}
          /\ \A q \in Processes : q # m => at'[q] = at[q]
      BY <2>0, <2>3 DEF IsScheduled, Renew, Schedule, Moves, redis, history, TypeOK
    <3> QED
      BY <2>0, <3>1 DEF FullIsBeingFlushed
  <2> QED
    BY <1>1, <2>1, <2>2, <2>3 DEF AddStep
<1>2. ASSUME NEW p \in Processes, FlushStep(p)
      PROVE  FullIsBeingFlushed'
  <2>1. CASE DeleteBatch(p)
    BY <1>e, <2>1 DEF DeleteBatch, FullIsBeingFlushed
  <2>2. CASE Read(p)
    <3>1. /\ UNCHANGED <<list, past>>
          /\ at[p] = "range" /\ (list # <<>> => at'[p] = "delete")
          /\ \A q \in Processes : q # p => at'[q] = at[q]
      BY <2>2 DEF Read, Moves, redis, TypeOK
    <3> QED
      BY <1>e, <3>1, Names DEF FullIsBeingFlushed
  <2>3. CASE Clear(p) \/ Unschedule(p)
    <3>1. /\ UNCHANGED <<list, past>>
          /\ at[p] \in {"clear", "unschedule"}
          /\ \A q \in Processes : q # p => at'[q] = at[q]
      BY <2>3 DEF Clear, Unschedule, Moves, history, TypeOK
    <3> QED
      BY <3>1, Names DEF FullIsBeingFlushed
  <2> QED
    BY <1>2, <2>1, <2>2, <2>3 DEF FlushStep
<1>3. ASSUME NEW i \in Instances, NEW k \in Kinds, Acquire(i, k) \/ Unlock(i, k)
      PROVE  FullIsBeingFlushed'
  <2>1. /\ UNCHANGED <<list, past>>
        /\ at[<<i, k>>] \in {"told", "unlock"}
        /\ \A q \in Processes : q # <<i, k>> => at'[q] = at[q]
    BY <1>3, Names DEF Acquire, Unlock, Moves, history, TypeOK
  <2> QED
    BY <2>1, Names DEF FullIsBeingFlushed
<1>4. ASSUME NEW k \in Kinds, LockRunsOut(k)
      PROVE  FullIsBeingFlushed'
  BY <1>4 DEF LockRunsOut, FullIsBeingFlushed
<1>5. ASSUME NEW i \in Instances, Crash(i) \/ EchoFails(i)
      PROVE  FullIsBeingFlushed'
  BY <1>5 DEF Crash, EchoFails, Dies, FullIsBeingFlushed
<1>6. ASSUME NEW i \in Instances, EchoFlush(i)
      PROVE  FullIsBeingFlushed'
  BY <1>6 DEF EchoFlush, history, FullIsBeingFlushed
<1>7. CASE Tick
  <2>1. \A p \in Processes : at[p] \in {"range", "delete", "expire"} => at'[p] = at[p]
    BY <1>7 DEF Tick, TypeOK
  <2>2. list' \in {list, <<>>} /\ past' = past
    BY <1>7 DEF Tick, history
  <2>3. Len(list') >= MaxBatch => list' = list
    BY <1>e, <2>2
  <2> QED
    BY <2>1, <2>2, <2>3, Names DEF FullIsBeingFlushed
<1> QED
  BY <1>0, <1>1, <1>2, <1>3, <1>4, <1>5, <1>6, <1>7, Names DEF Next, HandlerStep

(* A list that has reached the maximum size is being flushed. *)
THEOREM FullHolds == Spec => []FullIsBeingFlushed
<1>1. Init => FullIsBeingFlushed
  BY BoundsAssumption DEF Init, FullIsBeingFlushed
<1> QED
  BY <1>1, TypeInit, TypeStep, FullStep, PTL DEF Spec
=============================================================================
