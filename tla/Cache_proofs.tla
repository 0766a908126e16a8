----------------------------- MODULE Cache_proofs -----------------------------
(***************************************************************************)
(* Theorems about CacheClaim, for any number of requests, jobs, ledger     *)
(* changes, attempts and faults, and any ages; and about CacheRefresh: the *)
(* cron jobs behind their circuit breakers only do what CacheClaim allows  *)
(* a job to do, so that its theorems hold of them, for any number of pods  *)
(* and any parameters of the breakers.                                     *)
(***************************************************************************)
EXTENDS CacheRefresh, TLAPS

-----------------------------------------------------------------------------
(* Type correctness *)

(* What Step does to the calls. *)
LEMMA StepDef ==
  ASSUME call \in [Calls -> Call], NEW c \in Calls, NEW r \in Call, Step(c, r)
  PROVE  /\ call' \in [Calls -> Call]
         /\ call'[c] = r
         /\ \A d \in Calls : d # c => call'[d] = call[d]
BY DEF Step

LEMMA IdleCallType == IdleCall \in Call /\ 0 \in Versions
<1>1. 0 \in 0 .. MaxTries - 1 /\ 0 \in Versions
  BY CacheAssumption DEF Versions
<1> QED
  BY <1>1 DEF IdleCall, Call

LEMMA CallTypes ==
  ASSUME TypeOK, NEW c \in Calls
  PROVE  /\ IdleCall \in Call
         /\ call[c] \in Call
         /\ row.data \in Versions /\ 0 \in Versions
         /\ \A pc \in {"fetch", "save", "keys", "release", "done", "threw"} :
              /\ AtPc(c, pc) \in Call
              /\ AtPc(c, pc).pc = pc
              /\ AtPc(c, pc).floor = call[c].floor
              /\ AtPc(c, pc).last = 0 /\ AtPc(c, pc).got = 0
         /\ \A v \in Versions :
              /\ Returned(c, v) \in Call
              /\ Returned(c, v).pc = "done"
              /\ Returned(c, v).floor = call[c].floor
              /\ Returned(c, v).last = 0 /\ Returned(c, v).got = 0
              /\ Returned(c, v).answer = v
<1>1. /\ IdleCall \in Call /\ call[c] \in Call /\ row.data \in Versions
      /\ 0 \in Versions /\ call[c].floor \in Versions
      /\ IdleCall.last = 0 /\ IdleCall.got = 0
  BY IdleCallType DEF TypeOK, Row, Call, IdleCall
<1>2. ASSUME NEW pc \in {"fetch", "save", "keys", "release", "done", "threw"}
      PROVE  /\ AtPc(c, pc) \in Call
             /\ AtPc(c, pc).pc = pc
             /\ AtPc(c, pc).floor = call[c].floor
             /\ AtPc(c, pc).last = 0 /\ AtPc(c, pc).got = 0
  BY <1>1, <1>2 DEF AtPc, Call
<1>3. ASSUME NEW v \in Versions
      PROVE  /\ Returned(c, v) \in Call
             /\ Returned(c, v).pc = "done"
             /\ Returned(c, v).floor = call[c].floor
             /\ Returned(c, v).last = 0 /\ Returned(c, v).got = 0
             /\ Returned(c, v).answer = v
  BY <1>2 DEF Returned, Call
<1> QED
  BY <1>1, <1>2, <1>3

LEMMA TypeInit == Init => TypeOK
BY CacheAssumption
   DEF Init, TypeOK, Row, Mirror, Versions, Call, Calls, NoRow, IdleCall

LEMMA TypeNext == TypeOK /\ [Next]_vars => TypeOK'
<1> SUFFICES ASSUME TypeOK, [Next]_vars PROVE TypeOK'
  OBVIOUS
<1> USE CacheAssumption DEF TypeOK
<1>1. ASSUME NEW c \in Requests, Read(c) PROVE TypeOK'
  <2>1. c \in Calls
    BY DEF Calls
  <2>2. /\ [IdleCall EXCEPT !.pc = "done", !.floor = row.data,
                            !.answer = row.data] \in Call
        /\ [IdleCall EXCEPT !.pc = "claim", !.floor = row.data] \in Call
    <3>1. row.data \in Versions
      BY DEF Row
    <3> QED
      BY <3>1, IdleCallType DEF Call
  <2> QED
    BY <1>1, <2>1, <2>2, StepDef DEF Read
<1>2. ASSUME NEW c \in Jobs, JobRead(c) PROVE TypeOK'
  <2>1. c \in Calls
    BY DEF Calls
  <2>2. [IdleCall EXCEPT !.pc = "claim"] \in Call
    BY IdleCallType DEF Call
  <2> QED
    BY <1>2, <2>1, <2>2, StepDef DEF JobRead
<1>3. ASSUME NEW c \in Calls, Claim(c) PROVE TypeOK'
  <2>1. [AtPc(c, "fetch") EXCEPT !.last = row.data] \in Call
    BY CallTypes DEF Call
  <2>2. row' \in Row
    BY <1>3 DEF Claim, Row
  <2> QED
    BY <1>3, <2>1, <2>2, StepDef DEF Claim
<1>4. ASSUME NEW c \in Calls, ClaimRefused(c) PROVE TypeOK'
  <2>1. call[c].tries \in 0 .. MaxTries - 1 /\ call[c].last \in Versions
    BY DEF Call
  <2>2. MoreTries(call[c].tries + 1) =>
          [call[c] EXCEPT !.pc = "poll", !.tries = call[c].tries + 1] \in Call
    <3> SUFFICES ASSUME MoreTries(call[c].tries + 1)
        PROVE [call[c] EXCEPT !.pc = "poll", !.tries = call[c].tries + 1] \in Call
      OBVIOUS
    <3>1. call[c].tries + 1 \in 0 .. MaxTries - 1
      BY <2>1 DEF MoreTries
    <3> QED
      BY <3>1 DEF Call
  <2>3. Returned(c, call[c].last) \in Call /\ AtPc(c, "threw") \in Call
    BY <2>1, CallTypes
  <2> QED
    BY <1>4, <2>2, <2>3, StepDef DEF ClaimRefused
<1>5. ASSUME NEW c \in Calls, Poll(c) PROVE TypeOK'
  <2>1. [call[c] EXCEPT !.pc = "claim", !.saw = row.there,
                        !.last = row.data] \in Call
    BY DEF Call, Row
  <2>2. Returned(c, row.data) \in Call
    BY CallTypes
  <2> QED
    BY <1>5, <2>1, <2>2, StepDef DEF Poll
<1>6. ASSUME NEW c \in Calls, Fetch(c) PROVE TypeOK'
  <2>1. \A v \in Versions : [call[c] EXCEPT !.pc = "save", !.got = v] \in Call
    BY DEF Call
  <2>2. mirror.version \in Versions /\ 0 \in Versions
    BY DEF Mirror, Versions
  <2>3. AtPc(c, "release") \in Call
    BY CallTypes
  <2> QED
    BY <1>6, <2>1, <2>2, <2>3, StepDef DEF Fetch
<1>7. ASSUME NEW c \in Calls, Save(c) PROVE TypeOK'
  <2>1. call[c].got \in Versions /\ call[c].last \in Versions /\ row.data \in Versions
    BY DEF Call, Row
  <2>2. [AtPc(c, "keys") EXCEPT !.got = call[c].got] \in Call
    BY <2>1, CallTypes DEF Call
  <2>3. Returned(c, call[c].got) \in Call /\ Returned(c, call[c].last) \in Call
    BY <2>1, CallTypes
  <2>4. row' \in Row
    <3>1. CASE Owns(c) /\ call[c].got > 0
      <4>1. row' = [there |-> TRUE, token |-> NoToken, age |-> 0,
                    data |-> call[c].got]
        BY <1>7, <3>1 DEF Save
      <4> QED
        BY <4>1, <2>1 DEF Row
    <3>2. CASE Owns(c) /\ ~(call[c].got > 0)
      <4>1. row' = [there |-> TRUE, token |-> NoToken, age |-> 0,
                    data |-> row.data]
        BY <1>7, <3>2 DEF Save
      <4> QED
        BY <4>1, <2>1 DEF Row
    <3>3. CASE ~Owns(c)
      BY <1>7, <3>3 DEF Save
    <3> QED
      BY <3>1, <3>2, <3>3
  <2> QED
    BY <1>7, <2>2, <2>3, <2>4, StepDef DEF Save
<1>8. ASSUME NEW c \in Calls, InsertKeys(c) PROVE TypeOK'
  <2>1. call[c].got \in Versions
    BY DEF Call
  <2>2. Returned(c, call[c].got) \in Call
    BY <2>1, CallTypes
  <2> QED
    BY <1>8, <2>1, <2>2, StepDef DEF InsertKeys
<1>9. ASSUME NEW c \in Calls, Release(c) PROVE TypeOK'
  <2>1. [row EXCEPT !.token = NoToken, !.age = 0] \in Row
    <3>1. 0 \in 0 .. UnusedFor /\ NoToken \in Calls \union {NoToken, Orphan}
      OBVIOUS
    <3> QED
      BY ONLY <3>1, row \in Row DEF Row
  <2> QED
    BY <1>9, <2>1, CallTypes, StepDef DEF Release
<1>10. ASSUME NEW c \in Calls, Finish(c) PROVE TypeOK'
  BY <1>10, CallTypes, StepDef DEF Finish
<1>11. ASSUME NEW c \in Calls, StatementFails(c) PROVE TypeOK'
  <2>1. row' \in Row
    <3>1. row.token \in Calls \union {NoToken, Orphan} /\ Orphaned(c) \in Row
      BY DEF Orphaned, Row
    <3> QED
      BY <1>11, <3>1 DEF StatementFails
  <2> QED
    BY <1>11, <2>1, CallTypes, StepDef DEF StatementFails, Fault
<1>12. ASSUME NEW c \in Calls, Crash(c) PROVE TypeOK'
  <2>1. row' \in Row
    <3>1. Orphaned(c) \in Row
      BY DEF Orphaned, Row
    <3> QED
      BY <1>12, <3>1 DEF Crash
  <2> QED
    BY <1>12, <2>1, CallTypes, StepDef DEF Crash, Fault
<1>13. CASE Cleanup
  BY <1>13 DEF Cleanup, NoRow, Row, Versions
<1>14. CASE Tick
  BY <1>14 DEF Tick, Row
<1>15. CASE LedgerChanges
  BY <1>15 DEF LedgerChanges, Mirror, Versions
<1>16. CASE MirrorToggles
  BY <1>16 DEF MirrorToggles, Mirror
<1>17. CASE UNCHANGED vars
  BY <1>17 DEF vars
<1>18. ASSUME NEW c \in Calls, ClaimMissed(c) PROVE TypeOK'
  BY <1>18, CallTypes, StepDef DEF ClaimMissed
<1> QED
  BY <1>1, <1>2, <1>3, <1>4, <1>5, <1>6, <1>7, <1>8, <1>9, <1>10, <1>11, <1>12,
     <1>13, <1>14, <1>15, <1>16, <1>17, <1>18
     DEF Next, CallStep, Environment

(* The row, the key rows, the mirror node and the calls keep their types.  *)
THEOREM TypeCorrect == Spec => []TypeOK
<1>1. TypeOK /\ [Next]_vars => TypeOK'
  BY TypeNext
<1> QED
  BY <1>1, TypeInit, PTL DEF Spec

-----------------------------------------------------------------------------
(* What a call holds is not older than what any call found in the row when *)
(* it began: the strengthening that makes NeverOlder and NoStepBack        *)
(* inductive.                                                              *)
NoFuture ==
  /\ row.data <= mirror.version
  /\ \A c \in Calls : /\ call[c].got <= mirror.version
                      /\ call[c].floor <= mirror.version

NotBelow(v, c) == v = 0 \/ call[c].floor <= v

AboveFloor ==
  \A c \in Calls : /\ NotBelow(row.data, c) /\ NotBelow(call[c].last, c)
                  /\ NotBelow(call[c].got, c) /\ NotBelow(call[c].answer, c)

(* Only the owner of the claim may save, and what it saves is newer than   *)
(* the row and than every floor.                                           *)
OwnerIsNewest ==
  \A c \in Calls :
    call[c].pc = "save" /\ Owns(c) /\ call[c].got > 0
      => /\ row.data <= call[c].got
         /\ \A d \in Calls : call[d].floor <= call[c].got

Newest == TypeOK /\ NoFuture /\ AboveFloor /\ OwnerIsNewest

(* Releasing or losing a claim leaves the data of the row alone.           *)
LEMMA DataKept ==
  ASSUME TypeOK, NEW c \in Calls
  PROVE  /\ [row EXCEPT !.token = NoToken, !.age = 0].data = row.data
         /\ Orphaned(c).data = row.data
         /\ \A n \in Int : [row EXCEPT !.age = n].data = row.data
BY DEF TypeOK, Row, Orphaned

LEMMA NewestInit == Init => Newest
BY TypeInit, CacheAssumption
   DEF Init, Newest, NoFuture, NotBelow, AboveFloor, OwnerIsNewest, NoRow, IdleCall

(* A step of one call that neither changes the data nor reaches its save.  *)
LEMMA CallMoves ==
  ASSUME Newest, NEW c \in Calls, NEW r \in Call, Step(c, r), TypeOK',
         UNCHANGED mirror, row'.data = row.data,
         \A d \in Calls : d # c /\ Owns(d)' => Owns(d),
         r.pc # "save",
         r.floor \in {0, call[c].floor, row.data},
         \A v \in {r.last, r.got, r.answer} : v = 0 \/ r.floor <= v,
         r.got \in {0, call[c].got}
  PROVE  Newest'
<1> USE DEF Newest
<1>1. /\ call'[c] = r /\ \A d \in Calls : d # c => call'[d] = call[d]
  BY StepDef DEF TypeOK
<1>2. /\ row.data \in Int /\ 0 <= row.data /\ mirror.version \in Int /\ 0 <= mirror.version
      /\ \A d \in Calls : /\ call[d].floor \in Int /\ call[d].got \in Int
                          /\ 0 <= call[d].got
      /\ r.floor \in Int
  BY CacheAssumption DEF TypeOK, Row, Mirror, Call, Versions
<1>3. NoFuture'
  BY <1>1, <1>2 DEF NoFuture
<1>4. AboveFloor'
  BY <1>1, <1>2 DEF AboveFloor, NotBelow
<1>5. OwnerIsNewest'
  <2> SUFFICES ASSUME NEW d \in Calls, (call[d].pc = "save")', Owns(d)',
                      (call[d].got > 0)'
               PROVE  /\ row'.data <= call'[d].got
                      /\ \A e \in Calls : call'[e].floor <= call'[d].got
    BY DEF OwnerIsNewest
  <2>1. d # c /\ call'[d] = call[d] /\ Owns(d)
    BY <1>1
  <2>2. row.data <= call[d].got /\ \A e \in Calls : call[e].floor <= call[d].got
    BY <2>1 DEF OwnerIsNewest
  <2> QED
    BY <1>1, <1>2, <2>1, <2>2
<1> QED
  BY <1>3, <1>4, <1>5

LEMMA NewestNext == Newest /\ [Next]_vars => Newest'
<1> SUFFICES ASSUME Newest, [Next]_vars PROVE Newest'
  OBVIOUS
<1>0. TypeOK /\ TypeOK'
  BY TypeNext DEF Newest
<1> DEFINE Num(v) == v \in Int /\ 0 <= v
<1>n. /\ Num(row.data) /\ Num(mirror.version)
      /\ \A d \in Calls : Num(call[d].floor) /\ Num(call[d].got) /\ Num(call[d].last)
  BY <1>0, CacheAssumption DEF TypeOK, Row, Mirror, Call, Versions
<1>i. /\ IdleCall.pc = "idle" /\ IdleCall.floor = 0 /\ IdleCall.last = 0
      /\ IdleCall.got = 0 /\ IdleCall.answer = 0 /\ IdleCall \in Call
  BY IdleCallType DEF IdleCall
<1>a. \A c \in Calls : \A pc \in {"fetch", "save", "keys", "release", "threw"} :
        AtPc(c, pc).answer = 0
  BY <1>i DEF AtPc, Call
<1>f. \A c \in Calls : NotBelow(row.data, c) /\ NotBelow(call[c].last, c)
                       /\ NotBelow(call[c].got, c) /\ NotBelow(call[c].answer, c)
  BY DEF Newest, AboveFloor
<1>1. ASSUME NEW c \in Requests, Read(c) PROVE Newest'
  <2> DEFINE r1 == [IdleCall EXCEPT !.pc = "done", !.floor = row.data,
                                    !.answer = row.data]
             r2 == [IdleCall EXCEPT !.pc = "claim", !.floor = row.data]
  <2>1. c \in Calls /\ row.data \in Versions
    BY <1>0 DEF Calls, TypeOK, Row
  <2>2. /\ r1 \in Call /\ r1.pc = "done" /\ r1.floor = row.data /\ r1.last = 0
        /\ r1.got = 0 /\ r1.answer = row.data
        /\ r2 \in Call /\ r2.pc = "claim" /\ r2.floor = row.data /\ r2.last = 0
        /\ r2.got = 0 /\ r2.answer = 0
    BY <1>i, <2>1 DEF Call
  <2>3. UNCHANGED <<mirror, row>> /\ (Step(c, r1) \/ Step(c, r2))
    BY <1>1 DEF Read
  <2> HIDE DEF r1, r2
  <2>4. CASE Step(c, r1)
    BY <1>0, <1>n, <2>1, <2>2, <2>3, <2>4, CallMoves DEF Owns
  <2>5. CASE Step(c, r2)
    BY <1>0, <1>n, <2>1, <2>2, <2>3, <2>5, CallMoves DEF Owns
  <2> QED
    BY <2>3, <2>4, <2>5
<1>2. ASSUME NEW c \in Jobs, JobRead(c) PROVE Newest'
  <2> DEFINE r == [IdleCall EXCEPT !.pc = "claim"]
  <2>1. c \in Calls
    BY DEF Calls
  <2>2. /\ r \in Call /\ r.pc = "claim" /\ r.floor = 0 /\ r.last = 0
        /\ r.got = 0 /\ r.answer = 0
    BY <1>i DEF Call
  <2>3. UNCHANGED <<mirror, row>> /\ Step(c, r)
    BY <1>2 DEF JobRead
  <2> HIDE DEF r
  <2> QED
    BY <1>0, <2>1, <2>2, <2>3, CallMoves DEF Owns
<1>3. ASSUME NEW c \in Calls, Claim(c) PROVE Newest'
  <2> DEFINE r == [AtPc(c, "fetch") EXCEPT !.last = row.data]
  <2>1. /\ r \in Call /\ r.pc = "fetch" /\ r.floor = call[c].floor
        /\ r.last = row.data /\ r.got = 0 /\ r.answer = 0
    BY <1>0, <1>a, CallTypes DEF Call
  <2>2. UNCHANGED mirror /\ row'.data = row.data /\ row'.token = c /\ Step(c, r)
    BY <1>3 DEF Claim
  <2> HIDE DEF r
  <2> QED
    BY <1>0, <1>f, <2>1, <2>2, CallMoves DEF NotBelow, Owns
<1>4. ASSUME NEW c \in Calls, ClaimRefused(c) PROVE Newest'
  <2> DEFINE r == [call[c] EXCEPT !.pc = "poll", !.tries = call[c].tries + 1]
  <2>1. UNCHANGED <<mirror, row>>
    BY <1>4 DEF ClaimRefused
  <2>2. CASE MoreTries(call[c].tries + 1)
    <3>1. call[c] \in Call /\ call[c].tries + 1 \in 0 .. MaxTries - 1
      BY <1>0, <2>2, CacheAssumption DEF TypeOK, Call, MoreTries
    <3>2. /\ r \in Call /\ r.pc = "poll" /\ r.floor = call[c].floor
          /\ r.last = call[c].last /\ r.got = call[c].got
          /\ r.answer = call[c].answer
      BY <3>1 DEF Call
    <3>3. Step(c, r)
      BY <1>4, <2>2 DEF ClaimRefused
    <3> HIDE DEF r
    <3> QED
      BY <1>0, <1>f, <2>1, <3>2, <3>3, CallMoves DEF NotBelow, Owns
  <2>3. CASE Step(c, Returned(c, call[c].last))
    <3>1. call[c].last \in Versions
      BY <1>0 DEF TypeOK, Call
    <3> QED
      BY <1>0, <1>f, <2>1, <2>3, <3>1, CallTypes, CallMoves DEF NotBelow, Owns
  <2>4. CASE Step(c, AtPc(c, "threw"))
    BY <1>0, <1>a, <2>1, <2>4, CallTypes, CallMoves DEF Owns
  <2> QED
    BY <1>4, <2>2, <2>3, <2>4 DEF ClaimRefused
<1>5. ASSUME NEW c \in Calls, Poll(c) PROVE Newest'
  <2> DEFINE r == [call[c] EXCEPT !.pc = "claim", !.saw = row.there,
                                  !.last = row.data]
  <2>1. UNCHANGED <<mirror, row>> /\ (Step(c, Returned(c, row.data)) \/ Step(c, r))
    BY <1>5 DEF Poll
  <2>2. CASE Step(c, Returned(c, row.data))
    BY <1>0, <1>f, <2>1, <2>2, CallTypes, CallMoves DEF NotBelow, Owns
  <2>3. CASE Step(c, r)
    <3>1. call[c] \in Call /\ row.data \in Versions /\ row.there \in BOOLEAN
      BY <1>0 DEF TypeOK, Row
    <3>2. /\ r \in Call /\ r.pc = "claim" /\ r.floor = call[c].floor
          /\ r.last = row.data /\ r.got = call[c].got /\ r.answer = call[c].answer
      BY <3>1 DEF Call
    <3> HIDE DEF r
    <3> QED
      BY <1>0, <1>f, <2>1, <2>3, <3>2, CallMoves DEF NotBelow, Owns
  <2> QED
    BY <2>1, <2>2, <2>3
<1>6. ASSUME NEW c \in Calls, Fetch(c) PROVE Newest'
  <2>1. UNCHANGED <<mirror, row>>
    BY <1>6 DEF Fetch
  <2>2. CASE Step(c, AtPc(c, "release"))
    BY <1>0, <1>a, <2>1, <2>2, CallTypes, CallMoves DEF Owns
  <2>3. ASSUME NEW v \in {0, mirror.version},
               Step(c, [call[c] EXCEPT !.pc = "save", !.got = v])
        PROVE  Newest'
    <3> DEFINE r == [call[c] EXCEPT !.pc = "save", !.got = v]
    <3>1. /\ r \in Call /\ r.floor = call[c].floor /\ r.last = call[c].last
          /\ r.got = v /\ r.answer = call[c].answer
      <4>1. call[c] \in Call /\ v \in Versions
        BY <1>0, IdleCallType DEF TypeOK, Mirror
      <4> QED
        BY <4>1 DEF Call
    <3>2. call'[c] = r /\ \A d \in Calls : d # c => call'[d] = call[d]
      BY <1>0, <2>3, <3>1, StepDef DEF TypeOK
    <3> HIDE DEF r
    <3>3. \A d \in Calls : call'[d].floor = call[d].floor
      BY <3>1, <3>2
    <3>4. NoFuture'
      BY <1>n, <2>1, <3>1, <3>2 DEF Newest, NoFuture
    <3>5. AboveFloor'
      BY <1>n, <1>f, <2>1, <3>1, <3>2 DEF Newest, NoFuture, AboveFloor, NotBelow
    <3>6. OwnerIsNewest'
      BY <1>n, <2>1, <3>1, <3>2, <3>3 DEF Newest, NoFuture, OwnerIsNewest, Owns
    <3> QED
      BY <1>0, <3>4, <3>5, <3>6 DEF Newest
  <2> QED
    BY <1>6, <2>2, <2>3 DEF Fetch
<1>7. ASSUME NEW c \in Calls, Save(c) PROVE Newest'
  <2> DEFINE got == call[c].got
             answer == IF got > 0 THEN got ELSE call[c].last
             r == [AtPc(c, "keys") EXCEPT !.got = got]
  <2>1. UNCHANGED mirror /\ call[c].pc = "save" /\ got \in Versions /\ answer \in Versions
    BY <1>7, <1>0 DEF Save, TypeOK, Call
  <2>2. NotBelow(answer, c)
    BY <1>f
  <2>3. Returned(c, answer).answer = answer
    BY <1>0, <2>1, CallTypes
  <2>4. CASE ~Owns(c) \/ ~(got > 0)
    <3>1. Step(c, Returned(c, answer)) /\ row'.data = row.data
          /\ (row' = row \/ row'.token = NoToken)
      BY <1>7, <2>4 DEF Save
    <3>2. \A d \in Calls : Owns(d)' => Owns(d)
      BY <3>1, CacheAssumption DEF Owns
    <3> QED
      BY <1>0, <2>1, <2>2, <2>3, <3>1, <3>2, CallTypes, CallMoves DEF NotBelow
  <2>5. CASE Owns(c) /\ got > 0
    <3>1. row'.data = got /\ row'.token = NoToken /\ Step(c, r)
      BY <1>7, <2>5 DEF Save
    <3>2. /\ r \in Call /\ r.pc = "keys" /\ r.floor = call[c].floor
          /\ r.last = 0 /\ r.got = got /\ r.answer = 0
      BY <1>0, <1>a, <2>1, CallTypes DEF Call
    <3>3. call'[c] = r /\ \A d \in Calls : d # c => call'[d] = call[d]
      BY <1>0, <3>1, <3>2, StepDef DEF TypeOK
    <3>4. \A d \in Calls : call[d].floor <= got
      BY <2>1, <2>5 DEF Newest, OwnerIsNewest
    <3> HIDE DEF r
    <3>5. NoFuture'
      BY <2>1, <3>1, <3>2, <3>3 DEF Newest, NoFuture
    <3>6. AboveFloor'
      BY <1>f, <3>1, <3>2, <3>3, <3>4 DEF AboveFloor, NotBelow
    <3>7. OwnerIsNewest'
      BY <3>1, CacheAssumption DEF OwnerIsNewest, Owns
    <3> QED
      BY <1>0, <3>5, <3>6, <3>7 DEF Newest
  <2> QED
    BY <2>4, <2>5
<1>8. ASSUME NEW c \in Calls, InsertKeys(c) PROVE Newest'
  <2>1. UNCHANGED <<mirror, row>> /\ Step(c, Returned(c, call[c].got))
    BY <1>8 DEF InsertKeys
  <2>2. call[c].got \in Versions
    BY <1>0 DEF TypeOK, Call
  <2> QED
    BY <1>0, <1>f, <2>1, <2>2, CallTypes, CallMoves DEF NotBelow, Owns
<1>9. ASSUME NEW c \in Calls, Release(c) PROVE Newest'
  <2>1. /\ UNCHANGED mirror /\ Step(c, AtPc(c, "threw")) /\ row'.data = row.data
        /\ row' = row \/ row'.token = NoToken
    BY <1>9, <1>0 DEF Release, TypeOK, Row
  <2>2. \A d \in Calls : Owns(d)' => Owns(d)
    BY <2>1, CacheAssumption DEF Owns
  <2> QED
    BY <1>0, <1>a, <2>1, <2>2, CallTypes, CallMoves DEF Owns
<1>10. ASSUME NEW c \in Calls, Finish(c) PROVE Newest'
  <2>1. UNCHANGED <<mirror, row>> /\ Step(c, IdleCall)
    BY <1>10 DEF Finish
  <2> QED
    BY <1>0, <1>i, <2>1, CallMoves DEF Owns
<1>11. ASSUME NEW c \in Calls, row' = Orphaned(c) \/ row' = row
       PROVE  row'.data = row.data /\ row'.there = row.there
              /\ \A d \in Calls : Owns(d)' => Owns(d)
  BY <1>0, <1>11, CacheAssumption DEF Orphaned, TypeOK, Row, Owns
<1>12. ASSUME NEW c \in Calls, StatementFails(c) PROVE Newest'
  <2>1. /\ UNCHANGED mirror /\ (row' = Orphaned(c) \/ row' = row)
        /\ Step(c, AtPc(c, "threw")) \/ Step(c, AtPc(c, "release"))
    BY <1>12 DEF StatementFails
  <2>2. CASE Step(c, AtPc(c, "threw"))
    BY <1>0, <1>a, <1>11, <2>1, <2>2, CallTypes, CallMoves
  <2>3. CASE Step(c, AtPc(c, "release"))
    BY <1>0, <1>a, <1>11, <2>1, <2>3, CallTypes, CallMoves
  <2> QED
    BY <2>1, <2>2, <2>3
<1>13. ASSUME NEW c \in Calls, Crash(c) PROVE Newest'
  <2>1. UNCHANGED mirror /\ row' = Orphaned(c) /\ Step(c, IdleCall)
    BY <1>13 DEF Crash
  <2> QED
    BY <1>0, <1>i, <1>11, <2>1, CallMoves
<1>14. CASE Cleanup
  <2>1. UNCHANGED <<mirror, call>> /\ row'.data = 0 /\ ~row'.there
    BY <1>14 DEF Cleanup, NoRow
  <2>2. NoFuture' /\ AboveFloor' /\ OwnerIsNewest'
    BY <1>n, <1>f, <2>1
       DEF Newest, NoFuture, AboveFloor, NotBelow, OwnerIsNewest, Owns
  <2> QED
    BY <1>0, <2>2 DEF Newest
<1>15. CASE Tick
  <2>1. UNCHANGED <<mirror, call>> /\ row'.data = row.data
        /\ row'.there = row.there /\ row'.token = row.token
    BY <1>0, <1>15 DEF Tick, TypeOK, Row
  <2>2. NoFuture' /\ AboveFloor' /\ OwnerIsNewest'
    BY <2>1 DEF Newest, NoFuture, AboveFloor, NotBelow, OwnerIsNewest, Owns
  <2> QED
    BY <1>0, <2>2 DEF Newest
<1>16. CASE LedgerChanges
  <2>1. UNCHANGED <<row, call>> /\ mirror'.version = mirror.version + 1
    BY <1>0, <1>16 DEF LedgerChanges, TypeOK, Mirror
  <2>2. NoFuture' /\ AboveFloor' /\ OwnerIsNewest'
    BY <1>n, <2>1 DEF Newest, NoFuture, AboveFloor, NotBelow, OwnerIsNewest, Owns
  <2> QED
    BY <1>0, <2>2 DEF Newest
<1>17. CASE MirrorToggles \/ UNCHANGED vars
  <2>1. UNCHANGED <<row, call>> /\ mirror'.version = mirror.version
    BY <1>0, <1>17 DEF MirrorToggles, vars, TypeOK, Mirror
  <2>2. NoFuture' /\ AboveFloor' /\ OwnerIsNewest'
    BY <2>1 DEF Newest, NoFuture, AboveFloor, NotBelow, OwnerIsNewest, Owns
  <2> QED
    BY <1>0, <2>2 DEF Newest
<1>18. ASSUME NEW c \in Calls, ClaimMissed(c) PROVE Newest'
  <2>1. UNCHANGED <<mirror, row>> /\ Step(c, AtPc(c, "threw"))
    BY <1>18 DEF ClaimMissed
  <2> QED
    BY <1>0, <1>a, <2>1, CallTypes, CallMoves DEF Owns
<1> QED
  BY <1>1, <1>2, <1>3, <1>4, <1>5, <1>6, <1>7, <1>8, <1>9, <1>10, <1>12, <1>13,
     <1>14, <1>15, <1>16, <1>17, <1>18
     DEF Next, CallStep, Environment

(* The data of the cached row only gets newer: a call that was overtaken,  *)
(* however slow, never writes back what it fetched before (the WHERE of    *)
(* saveAndReleaseClaim).                                                   *)
THEOREM NeverOlderHolds == Spec => NeverOlder
<1>1. Newest /\ [Next]_vars => [row.there /\ row'.there => row.data <= row'.data]_vars
  <2> SUFFICES ASSUME Newest, Next, row.there, row'.there
               PROVE  row.data <= row'.data
    OBVIOUS
  <2>1. row.data \in Int /\ TypeOK
    BY DEF Newest, TypeOK, Row, Versions
  <2>2. ASSUME NEW c \in Calls, Save(c) PROVE row.data <= row'.data
    BY <2>1, <2>2 DEF Save, Newest, OwnerIsNewest
  <2>3. ASSUME NEW c \in Calls,
               Claim(c) \/ Release(c) \/ StatementFails(c) \/ Crash(c)
        PROVE  row'.data = row.data
    <3>1. CASE Claim(c)
      BY <3>1 DEF Claim
    <3>2. CASE Release(c)
      BY <2>1, <3>2, DataKept DEF Release
    <3>3. CASE StatementFails(c) \/ Crash(c)
      <4>1. row' = Orphaned(c) \/ row' = row
        BY <3>3 DEF StatementFails, Crash
      <4> QED
        BY <2>1, <4>1, DataKept
    <3> QED
      BY <2>3, <3>1, <3>2, <3>3
  <2>4. ASSUME NEW c \in Calls,
               \/ Read(c) \/ JobRead(c) \/ ClaimRefused(c) \/ ClaimMissed(c)
               \/ Poll(c) \/ Fetch(c) \/ InsertKeys(c) \/ Finish(c)
        PROVE  row' = row
    BY <2>4 DEF Read, JobRead, ClaimRefused, ClaimMissed, Poll, Fetch, InsertKeys,
                Finish
  <2>5. ~Cleanup
    BY DEF Cleanup, NoRow
  <2>6. Tick \/ LedgerChanges \/ MirrorToggles => row'.data = row.data
    BY <2>1 DEF Tick, LedgerChanges, MirrorToggles, TypeOK, Row
  <2> QED
    BY <2>1, <2>2, <2>3, <2>4, <2>5, <2>6 DEF Next, CallStep, Environment, Calls
<1>2. Newest /\ [Next]_vars => Newest'
  BY NewestNext
<1> QED
  BY <1>1, <1>2, NewestInit, PTL DEF Spec, NeverOlder

(* An answer of getAccountInfoForTransaction is never older than what the  *)
(* cache held when the request began.                                      *)
THEOREM NoStepBackHolds == Spec => []NoStepBack
<1>1. Newest => NoStepBack
  BY DEF Newest, AboveFloor, NotBelow, NoStepBack, Calls, TypeOK, Call, Versions
<1>2. Newest /\ [Next]_vars => Newest'
  BY NewestNext
<1> QED
  BY <1>1, <1>2, NewestInit, PTL DEF Spec

(* The keys of the cached version are in cached_account_key, or about to   *)
(* be inserted by the call that saved it, unless a call died or a          *)
(* statement failed.                                                       *)
THEOREM KeysFollowDataHolds == Spec => []KeysFollowData
<1>1. Init => KeysFollowData
  BY DEF Init, KeysFollowData, NoRow
<1>2. TypeOK /\ KeysFollowData /\ [Next]_vars => KeysFollowData'
  <2> SUFFICES ASSUME TypeOK, KeysFollowData, [Next]_vars, row'.data > 0,
                      ~(faults' > 0)
               PROVE  \/ row'.data \in keyRows'
                      \/ \E c \in Calls : call'[c].pc = "keys" /\ call'[c].got = row'.data
    BY DEF KeysFollowData
  <2> DEFINE Indexed == \/ row.data \in keyRows
                        \/ \E c \in Calls : call[c].pc = "keys" /\ call[c].got = row.data
  <2>0. /\ TypeOK' /\ faults \in Nat
        /\ faults' = faults /\ (row.data > 0 => Indexed)
    <3>1. TypeOK'
      BY TypeNext
    <3>2. faults' = faults \/ faults' = faults + 1
      BY DEF Next, CallStep, Environment, vars, Read, JobRead, Claim, ClaimRefused,
             ClaimMissed, Poll, Fetch, Save, InsertKeys, Release, Finish, StatementFails, Crash,
             Fault, Cleanup, Tick, LedgerChanges, MirrorToggles
    <3> QED
      BY <3>1, <3>2 DEF TypeOK, KeysFollowData
  <2>1. ASSUME NEW c \in Calls, NEW r \in Call, Step(c, r), call[c].pc # "keys",
               row'.data = row.data, UNCHANGED keyRows
        PROVE  Indexed'
    BY <2>0, <2>1, StepDef DEF TypeOK
  <2>2. ASSUME NEW c \in Calls, call' = [call EXCEPT ![c] = call'[c]],
               call[c].pc # "keys", row'.data = row.data, UNCHANGED keyRows
        PROVE  Indexed'
    <3>1. call'[c] \in Call
      BY <2>0 DEF TypeOK
    <3> QED
      BY <2>1, <2>2, <3>1 DEF Step
  <2>3. ASSUME NEW c \in Calls, NEW v, Step(c, v)
        PROVE  call' = [call EXCEPT ![c] = call'[c]]
    BY <2>3 DEF TypeOK, Step
  <2>4. ASSUME NEW c \in Calls, Read(c) \/ JobRead(c) \/ Claim(c)
        PROVE  Indexed'
    BY <2>2, <2>3, <2>4 DEF Read, JobRead, Claim
  <2>5. ASSUME NEW c \in Calls,
               ClaimRefused(c) \/ ClaimMissed(c) \/ Poll(c) \/ Fetch(c) \/ Finish(c)
        PROVE  Indexed'
    BY <2>2, <2>3, <2>5 DEF ClaimRefused, ClaimMissed, Poll, Fetch, Finish
  <2>6. ASSUME NEW c \in Calls, Release(c)
        PROVE  Indexed'
    BY <2>2, <2>3, <2>6, DataKept DEF Release
  <2>7. ASSUME NEW c \in Calls, Save(c)
        PROVE  Indexed'
    <3>1. CASE Owns(c) /\ call[c].got > 0
      <4>1. call[c].got \in Versions
        BY DEF TypeOK, Call
      <4>2. /\ [AtPc(c, "keys") EXCEPT !.got = call[c].got] \in Call
            /\ [AtPc(c, "keys") EXCEPT !.got = call[c].got].pc = "keys"
            /\ [AtPc(c, "keys") EXCEPT !.got = call[c].got].got = call[c].got
        BY <4>1, CallTypes DEF Call
      <4>3. row'.data = call[c].got
            /\ Step(c, [AtPc(c, "keys") EXCEPT !.got = call[c].got])
        BY <2>7, <3>1 DEF Save
      <4>4. call'[c].pc = "keys" /\ call'[c].got = row'.data
        BY <4>2, <4>3, StepDef DEF TypeOK
      <4> QED
        BY <4>4
    <3>2. CASE ~(Owns(c) /\ call[c].got > 0)
      BY <2>2, <2>3, <2>7, <3>2 DEF Save
    <3> QED
      BY <3>1, <3>2
  <2>8. ASSUME NEW c \in Calls, InsertKeys(c)
        PROVE  Indexed'
    <3>1. keyRows' = keyRows \union {call[c].got} /\ row' = row
          /\ Step(c, Returned(c, call[c].got))
      BY <2>8 DEF InsertKeys
    <3>2. \A d \in Calls : d # c => call'[d] = call[d]
      BY <3>1 DEF Step, TypeOK
    <3> QED
      BY <2>0, <3>1, <3>2
  <2>9. ASSUME NEW c \in Calls, StatementFails(c) \/ Crash(c)
        PROVE  FALSE
    BY <2>0, <2>9 DEF StatementFails, Crash, Fault
  <2>10. CASE Cleanup
    BY <2>10 DEF Cleanup, NoRow
  <2>11. CASE Tick
    BY <2>0, <2>11, DataKept DEF Tick, TypeOK, Row
  <2>12. CASE LedgerChanges \/ MirrorToggles \/ UNCHANGED vars
    BY <2>0, <2>12 DEF LedgerChanges, MirrorToggles, vars
  <2> QED
    BY <2>4, <2>5, <2>6, <2>7, <2>8, <2>9, <2>10, <2>11, <2>12
       DEF Next, CallStep, Environment, Calls
<1> QED
  BY <1>1, <1>2, TypeCorrect, PTL DEF Spec

-----------------------------------------------------------------------------
(* Without failures *)

(* Whoever owns the claim knows the data of the row until it saves, and a   *)
(* call to which the mirror node has nothing new owns a row with data.      *)
NothingFails == mirror.up /\ faults = 0

NeverEmpty ==
  /\ row.there /\ row.token = NoToken => row.data > 0
  /\ \A c \in Calls :
       /\ call[c].pc # "release"
       /\ call[c].pc = "fetch" /\ Owns(c) => call[c].last = row.data
       /\ call[c].pc = "save" /\ Owns(c) => call[c].got > 0 \/ row.data > 0

(* A call that has moved keeps it when the others do not see a difference.  *)
LEMMA OthersNeverEmpty ==
  ASSUME TypeOK, NeverEmpty, NEW c \in Calls, NEW r \in Call, Step(c, r),
         row' = row \/ (row'.token = NoToken /\ row'.data > 0) \/ row'.token = c,
         row'.there /\ row'.token = NoToken => row'.data > 0,
         r.pc # "release",
         r.pc = "fetch" /\ Owns(c)' => r.last = row'.data,
         r.pc = "save" /\ Owns(c)' => r.got > 0 \/ row'.data > 0
  PROVE  NeverEmpty'
<1>1. /\ call'[c] = r /\ \A d \in Calls : d # c => call'[d] = call[d]
  BY StepDef DEF TypeOK
<1>2. ASSUME NEW d \in Calls, d # c, Owns(d)'
      PROVE  row' = row /\ Owns(d)
  <2>1. d # NoToken
    BY CacheAssumption
  <2> QED
    BY <1>2, <2>1 DEF Owns
<1>3. \A d \in Calls : d # c =>
        /\ call'[d].pc # "release"
        /\ call'[d].pc = "fetch" /\ Owns(d)' => call'[d].last = row'.data
        /\ call'[d].pc = "save" /\ Owns(d)' => call'[d].got > 0 \/ row'.data > 0
  BY <1>1, <1>2 DEF NeverEmpty
<1> QED
  BY <1>1, <1>3 DEF NeverEmpty

LEMMA NeverEmptyNext ==
  ASSUME TypeOK, NeverEmpty, NothingFails, NothingFails', [Next]_vars
  PROVE  NeverEmpty'
<1>0. /\ row \in Row /\ row.data \in Versions /\ mirror.version \in Versions \ {0}
      /\ row.there /\ row.token = NoToken => row.data > 0
  BY DEF TypeOK, Row, Mirror, NeverEmpty
<1>1. ASSUME NEW c \in Calls, NEW r \in Call, Step(c, r), row' = row,
             r.pc \notin {"fetch", "save", "release"}
      PROVE  NeverEmpty'
  BY <1>0, <1>1, OthersNeverEmpty
<1>2. ASSUME NEW c \in Requests, Read(c)
      PROVE  NeverEmpty'
  <2>1. PICK r : /\ Step(c, r) /\ row' = row
                 /\ r \in {[IdleCall EXCEPT !.pc = "done", !.floor = row.data, !.answer = row.data],
                           [IdleCall EXCEPT !.pc = "claim", !.floor = row.data]}
    BY <1>2 DEF Read
  <2>2. r \in Call /\ r.pc \in {"done", "claim"}
    BY <1>0, <2>1, IdleCallType DEF Call
  <2> QED
    BY <1>1, <2>1, <2>2 DEF Calls
<1>3. ASSUME NEW c \in Jobs, JobRead(c)
      PROVE  NeverEmpty'
  <2>1. PICK r : Step(c, r) /\ row' = row /\ r = [IdleCall EXCEPT !.pc = "claim"]
    BY <1>3 DEF JobRead
  <2>2. r \in Call /\ r.pc = "claim"
    BY <2>1, IdleCallType DEF Call
  <2> QED
    BY <1>1, <2>1, <2>2 DEF Calls
<1>4. ASSUME NEW c \in Calls, Claim(c)
      PROVE  NeverEmpty'
  <2>1. PICK r : Step(c, r) /\ r = [AtPc(c, "fetch") EXCEPT !.last = row.data]
    BY <1>4 DEF Claim
  <2>2. r \in Call /\ r.pc = "fetch" /\ r.last = row.data
    BY <1>0, <2>1, CallTypes DEF Call
  <2>3. row'.token = c /\ row'.data = row.data /\ c # NoToken
    BY <1>4, CacheAssumption DEF Claim
  <2> QED
    BY <2>1, <2>2, <2>3, OthersNeverEmpty
<1>5. ASSUME NEW c \in Calls, ClaimRefused(c)
      PROVE  NeverEmpty'
  <2>1. call[c] \in Call /\ call[c].tries \in 0 .. MaxTries - 1 /\ call[c].last \in Versions
    BY DEF TypeOK, Call
  <2>2. CASE MoreTries(call[c].tries + 1)
    <3>1. PICK r : /\ Step(c, r) /\ row' = row
                   /\ r = [call[c] EXCEPT !.pc = "poll", !.tries = call[c].tries + 1]
      BY <1>5, <2>2 DEF ClaimRefused
    <3>2. call[c].tries + 1 \in 0 .. MaxTries - 1
      BY <2>1, <2>2, CacheAssumption DEF MoreTries
    <3>3. r \in Call /\ r.pc = "poll"
      BY <2>1, <3>1, <3>2 DEF Call
    <3> QED
      BY <1>1, <3>1, <3>3
  <2>3. CASE ~MoreTries(call[c].tries + 1)
    <3>1. PICK r : /\ Step(c, r) /\ row' = row
                   /\ r \in {Returned(c, call[c].last), AtPc(c, "threw")}
      BY <1>5, <2>3 DEF ClaimRefused
    <3>2. r \in Call /\ r.pc \in {"done", "threw"}
      BY <2>1, <3>1, CallTypes
    <3> QED
      BY <1>1, <3>1, <3>2
  <2> QED
    BY <2>2, <2>3
<1>6. ASSUME NEW c \in Calls, Poll(c)
      PROVE  NeverEmpty'
  <2>1. PICK r : /\ Step(c, r) /\ row' = row
                 /\ r \in {Returned(c, row.data),
                           [call[c] EXCEPT !.pc = "claim", !.saw = row.there, !.last = row.data]}
    BY <1>6 DEF Poll
  <2>2. call[c] \in Call /\ row.data \in Versions /\ row.there \in BOOLEAN
    BY <1>0 DEF TypeOK, Row
  <2>3. CASE r = Returned(c, row.data)
    <3>1. r \in Call /\ r.pc = "done"
      BY <2>2, <2>3, CallTypes
    <3> QED
      BY <1>1, <2>1, <3>1
  <2>4. CASE r = [call[c] EXCEPT !.pc = "claim", !.saw = row.there, !.last = row.data]
    <3>1. r \in Call /\ r.pc = "claim"
      BY <2>2, <2>4 DEF Call
    <3> QED
      BY <1>1, <2>1, <3>1
  <2> QED
    BY <2>1, <2>3, <2>4
<1>7. ASSUME NEW c \in Calls, Fetch(c)
      PROVE  NeverEmpty'
  <2>0. PICK got : got = IF call[c].last = mirror.version THEN 0 ELSE mirror.version
    OBVIOUS
  <2>1. PICK r : Step(c, r) /\ row' = row /\ r = [call[c] EXCEPT !.pc = "save", !.got = got]
    BY <1>7, <2>0 DEF Fetch, NothingFails
  <2>2. call[c] \in Call /\ got \in Versions
    BY <1>0, <2>0, CallTypes DEF TypeOK
  <2>3. r \in Call /\ r.pc = "save" /\ r.got = got
    BY <2>1, <2>2 DEF Call
  <2>4. Owns(c) => call[c].last = row.data
    BY <1>7 DEF Fetch, NeverEmpty
  <2>5. Owns(c) => got > 0 \/ row.data > 0
    BY <1>0, <2>0, <2>4 DEF Versions
  <2> QED
    BY <1>0, <2>1, <2>3, <2>5, OthersNeverEmpty DEF Owns
<1>8. ASSUME NEW c \in Calls, Save(c)
      PROVE  NeverEmpty'
  <2>1. call[c] \in Call /\ call[c].got \in Versions /\ call[c].last \in Versions
    BY DEF TypeOK, Call
  <2>2. Owns(c) => call[c].got > 0 \/ row.data > 0
    BY <1>8 DEF Save, NeverEmpty
  <2>3. PICK r : /\ Step(c, r)
                 /\ r \in {[AtPc(c, "keys") EXCEPT !.got = call[c].got],
                           Returned(c, call[c].got), Returned(c, call[c].last)}
    BY <1>8 DEF Save
  <2>4. r \in Call /\ r.pc \in {"keys", "done"}
    BY <2>1, <2>3, CallTypes DEF Call
  <2>5. CASE Owns(c)
    <3>1. row'.token = NoToken /\ row'.data > 0
      BY <1>8, <2>2, <2>5 DEF Save
    <3> QED
      BY <2>3, <2>4, <3>1, OthersNeverEmpty
  <2>6. CASE ~Owns(c)
    <3>1. row' = row
      BY <1>8, <2>6 DEF Save
    <3> QED
      BY <1>1, <2>3, <2>4, <3>1
  <2> QED
    BY <2>5, <2>6
<1>9. ASSUME NEW c \in Calls, InsertKeys(c)
      PROVE  NeverEmpty'
  <2>1. call[c].got \in Versions
    BY DEF TypeOK, Call
  <2> QED
    BY <1>1, <1>9, <2>1, CallTypes DEF InsertKeys
<1>10. ASSUME NEW c \in Calls, Finish(c)
      PROVE  NeverEmpty'
  <2>1. IdleCall.pc = "idle"
    BY DEF IdleCall
  <2> QED
    BY <1>1, <1>10, <2>1, CallTypes DEF Finish
<1>11. ASSUME NEW c \in Calls
       PROVE  ~Release(c) /\ ~StatementFails(c) /\ ~Crash(c)
  <2>1. ~Release(c)
    BY DEF Release, NeverEmpty
  <2>2. faults' # faults + 1
    BY DEF NothingFails
  <2> QED
    BY <2>1, <2>2 DEF StatementFails, Crash, Fault
<1>12. CASE Cleanup
  <2>1. ~row'.there
    BY <1>12 DEF Cleanup, NoRow
  <2> QED
    BY <1>12, <2>1 DEF Cleanup, NeverEmpty, Owns
<1>13. CASE Tick
  <2>1. row'.there = row.there /\ row'.token = row.token /\ row'.data = row.data
    BY <1>0, <1>13 DEF Tick, Row
  <2> QED
    BY <1>13, <2>1 DEF Tick, NeverEmpty, Owns
<1>14. CASE LedgerChanges \/ MirrorToggles \/ UNCHANGED vars
  BY <1>14 DEF LedgerChanges, MirrorToggles, vars, NeverEmpty, Owns
<1>15. ASSUME NEW c \in Calls, ClaimMissed(c)
       PROVE  NeverEmpty'
  <2>1. Step(c, AtPc(c, "threw")) /\ row' = row
    BY <1>15 DEF ClaimMissed
  <2> QED
    BY <1>1, <2>1, CallTypes
<1> QED
  BY <1>2, <1>3, <1>4, <1>5, <1>6, <1>7, <1>8, <1>9, <1>10, <1>11, <1>12, <1>13, <1>14,
     <1>15
     DEF Next, CallStep, Environment

(* "This should never happen": as long as the mirror node answers and       *)
(* nothing fails, no unclaimed row is without data, so that no waiting call *)
(* answers null.                                                            *)
THEOREM EmptyHolds == Spec => EmptyOnlyAfterFailure
<1>1. Init => NeverEmpty
  BY DEF Init, NeverEmpty, NoRow, IdleCall
<1>2. TypeOK /\ NeverEmpty /\ NothingFails /\ NothingFails' /\ [Next]_vars => NeverEmpty'
  BY NeverEmptyNext
<1>3. NeverEmpty => (row.there /\ row.token = NoToken => row.data > 0)
  BY DEF NeverEmpty
<1>4. NothingFails <=> mirror.up /\ faults = 0
  BY DEF NothingFails
<1> QED
  BY <1>1, <1>2, <1>3, <1>4, TypeCorrect, PTL DEF Spec, EmptyOnlyAfterFailure

-----------------------------------------------------------------------------
(* The jobs behind their breakers *)

LEMMA RefreshStep == [RefreshNext]_refreshVars => [Next]_vars
<1> SUFFICES ASSUME RefreshNext PROVE [Next]_vars
  BY DEF refreshVars, vars
<1>1. ASSUME NEW j \in Jobs, JobStep(j) \/ Restart(j) PROVE [Next]_vars
  BY <1>1 DEF JobStep, Begin, Skip, End, Restart, Next, Calls
<1>2. CASE Elapse
  BY <1>2 DEF Elapse, Next, Environment
<1>3. ASSUME NEW c \in Requests, Read(c) \/ Finish(c) \/ Crash(c) PROVE Next
  BY <1>3 DEF Next, Calls
<1>4. ASSUME NEW c \in Calls, CallStep(c) \/ StatementFails(c) PROVE Next
  BY <1>4 DEF Next
<1>5. Cleanup \/ LedgerChanges \/ MirrorToggles => Next
  BY DEF Next, Environment
<1> QED
  BY <1>1, <1>2, <1>3, <1>4, <1>5 DEF RefreshNext, Unheard

(* The jobs refine the calls: a job is one of CacheClaim's, started only   *)
(* when the breaker of its pod says so.                                    *)
THEOREM RefreshImplementsClaim == RefreshSpec => Spec
<1>1. RefreshInit => Init
  BY DEF RefreshInit
<1> QED
  BY <1>1, RefreshStep, PTL DEF RefreshSpec, Spec

-----------------------------------------------------------------------------
(* What the breaker does to a circuit keeps its type, HalfOpenMax and      *)
(* Threshold included: a half-open circuit never lets more attempts        *)
(* through, and no count goes past its bound.                              *)
LEMMA BreakerTypes ==
  ASSUME NEW k \in Circuit
  PROVE  /\ Asked(k) \in Circuit /\ RecordSuccess(k) \in Circuit
         /\ RecordFailure(k) \in Circuit /\ Elapsed(k) \in Circuit
         /\ NewCircuit \in Circuit
<1> USE BreakerAssumption DEF Circuit
<1>1. \A t \in 0 .. ResetAfter : Later(t) \in 0 .. ResetAfter
  BY DEF Later
<1>2. /\ k.state \in {"CLOSED", "OPEN", "HALF_OPEN"} /\ k.failures \in 0 .. Threshold
      /\ k.sinceFailure \in 0 .. ResetAfter /\ k.sinceHalfOpen \in 0 .. ResetAfter
      /\ k.successes \in 0 .. HalfOpenMax /\ k.attempts \in 0 .. HalfOpenMax
  OBVIOUS
<1>3. /\ 0 \in 0 .. ResetAfter /\ 0 \in 0 .. HalfOpenMax /\ 1 \in 0 .. HalfOpenMax
      /\ 0 \in 0 .. Threshold /\ Threshold \in 0 .. Threshold
  OBVIOUS
<1>4. Opened(k) \in Circuit /\ Closed(k) \in Circuit /\ HalfOpened(k) \in Circuit
  BY <1>3 DEF Opened, Closed, HalfOpened
<1>5. Asked(k) \in Circuit
  <2>1. [HalfOpened(k) EXCEPT !.attempts = 1] \in Circuit
    BY <1>3, <1>4
  <2>2. k.attempts < HalfOpenMax => [k EXCEPT !.attempts = k.attempts + 1] \in Circuit
    <3>1. k.attempts < HalfOpenMax => k.attempts + 1 \in 0 .. HalfOpenMax
      BY <1>2
    <3> QED
      BY <3>1
  <2> HIDE DEF Circuit
  <2> QED
    BY <1>4, <2>1, <2>2 DEF Asked
<1>6. RecordSuccess(k) \in Circuit
  <2>1. k.successes + 1 < HalfOpenMax =>
          [k EXCEPT !.successes = k.successes + 1] \in Circuit
    <3>1. k.successes + 1 < HalfOpenMax => k.successes + 1 \in 0 .. HalfOpenMax
      BY <1>2
    <3> QED
      BY <3>1
  <2>2. [k EXCEPT !.failures = 0] \in Circuit
    BY <1>3
  <2> HIDE DEF Circuit
  <2> QED
    BY <1>4, <2>1, <2>2 DEF RecordSuccess
<1>7. RecordFailure(k) \in Circuit
  <2>1. k.failures + 1 < Threshold =>
          [k EXCEPT !.failures = k.failures + 1, !.sinceFailure = 0] \in Circuit
    <3>1. k.failures + 1 < Threshold => k.failures + 1 \in 0 .. Threshold
      BY <1>2
    <3> QED
      BY <1>3, <3>1
  <2>2. /\ [Opened(k) EXCEPT !.failures = Threshold] \in Circuit
        /\ [k EXCEPT !.sinceFailure = 0] \in Circuit
    BY <1>3, <1>4
  <2> HIDE DEF Circuit
  <2> QED
    BY <1>4, <2>1, <2>2 DEF RecordFailure
<1>8. Elapsed(k) \in Circuit
  <2>1. \A s, t \in 0 .. ResetAfter :
          [k EXCEPT !.sinceFailure = s, !.sinceHalfOpen = t] \in Circuit
    OBVIOUS
  <2>2. /\ (IF k.state = "OPEN" THEN Later(k.sinceFailure) ELSE 0) \in 0 .. ResetAfter
        /\ (IF k.state = "HALF_OPEN" THEN Later(k.sinceHalfOpen) ELSE 0)
             \in 0 .. ResetAfter
    BY <1>1, <1>2, <1>3
  <2> HIDE DEF Circuit
  <2> QED
    BY <2>1, <2>2 DEF Elapsed
<1>9. NewCircuit \in Circuit
  BY <1>3 DEF NewCircuit
<1> QED
  BY <1>5, <1>6, <1>7, <1>8, <1>9

(* The row, the calls and the circuits of the pods keep their types.       *)
THEOREM RefreshTypeCorrect == RefreshSpec => []RefreshTypeOK
<1>1. RefreshInit => circuit \in [Jobs -> Circuit]
  <2>1. NewCircuit \in Circuit
    BY BreakerAssumption DEF NewCircuit, Circuit
  <2> QED
    BY <2>1 DEF RefreshInit
<1>2. circuit \in [Jobs -> Circuit] /\ [RefreshNext]_refreshVars
        => (circuit \in [Jobs -> Circuit])'
  <2> SUFFICES ASSUME circuit \in [Jobs -> Circuit], [RefreshNext]_refreshVars
               PROVE  circuit' \in [Jobs -> Circuit]
    OBVIOUS
  <2>1. \A j \in Jobs : /\ Asked(circuit[j]) \in Circuit
                        /\ RecordSuccess(circuit[j]) \in Circuit
                        /\ RecordFailure(circuit[j]) \in Circuit
                        /\ Elapsed(circuit[j]) \in Circuit
                        /\ NewCircuit \in Circuit
    BY BreakerTypes
  <2>2. ASSUME NEW j \in Jobs, JobStep(j) \/ Restart(j)
        PROVE  circuit' \in [Jobs -> Circuit]
    BY <2>1, <2>2 DEF JobStep, Begin, Skip, End, Restart, After
  <2>3. CASE Elapse
    BY <2>1, <2>3 DEF Elapse
  <2>4. CASE UNCHANGED circuit
    BY <2>4
  <2> QED
    BY <2>2, <2>3, <2>4 DEF RefreshNext, Unheard, refreshVars
<1>3. Spec => []TypeOK
  BY TypeCorrect
<1> QED
  BY <1>1, <1>2, <1>3, RefreshImplementsClaim, PTL DEF RefreshSpec, RefreshTypeOK

(* With the jobs in place too, no slow owner writes older data, no answer  *)
(* goes back, and the keys follow the data.                                *)
THEOREM RefreshIsSafe ==
  RefreshSpec => NeverOlder /\ []NoStepBack /\ []KeysFollowData
BY RefreshImplementsClaim, NeverOlderHolds, NoStepBackHolds, KeysFollowDataHolds
=============================================================================
