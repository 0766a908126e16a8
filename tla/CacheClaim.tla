----------------------------- MODULE CacheClaim -----------------------------
(***************************************************************************)
(* One row of the mirror node cache (an account; nodes use the same code): *)
(* calls of getAccountInfoForTransaction by requests, and of               *)
(* refreshAccount by the refresh jobs, that coordinate through the row's   *)
(* refreshToken.  A call that finds the row old claims it, fetches from    *)
(* the mirror node, and saves where the token is still its own; other      *)
(* calls poll; a claim not renewed for too long may be taken over.         *)
(*                                                                         *)
(* Account data is abstracted to the version of the account on the ledger, *)
(* 0 for none.  The random token of a call is its name; the token of a call*)
(* that died, or could not release it, is Orphan.                          *)
(***************************************************************************)
EXTENDS Integers

CONSTANTS
  Requests,     \* calls of getAccountInfoForTransaction
  Jobs,         \* refresh jobs, which call refreshAccount
  NoToken,      \* the NULL refreshToken
  Orphan,       \* a token whose call is gone
  MaxVersion,   \* the account changes at most MaxVersion - 1 times
  FreshFor,     \* CACHE_STALE_THRESHOLD_MS, in units of time
  ClaimFor,     \* CACHE_CLAIM_TIMEOUT_MS
  UnusedFor,    \* age from which the cleanup may delete an unused row
  MaxTries,     \* attempts of tryClaimRefresh
  MaxFaults     \* bound on calls that die and statements that fail

Calls    == Requests \union Jobs
Versions == 0 .. MaxVersion

ASSUME CacheAssumption ==
  /\ Requests \intersect Jobs = {} /\ {NoToken, Orphan} \intersect Calls = {} /\ NoToken # Orphan
  /\ MaxVersion \in Nat \ {0} /\ MaxTries \in Nat \ {0} /\ MaxFaults \in Nat
  /\ FreshFor \in Nat /\ ClaimFor \in Nat
  /\ UnusedFor \in Nat /\ FreshFor <= UnusedFor /\ ClaimFor <= UnusedFor

VARIABLES
  row,       \* the cached_account row: there, refreshToken, data, age of updatedAt
  keyRows,   \* versions whose keys are in cached_account_key
  mirror,    \* the mirror node: the account's version, whether it answers
  call,      \* per call: progress and what it read
  faults     \* calls that died and statements that failed so far

vars == <<row, keyRows, mirror, call, faults>>

-----------------------------------------------------------------------------
Row  == [there : BOOLEAN, token : Calls \union {NoToken, Orphan}, data : Versions,
         age : 0 .. UnusedFor]
Mirror == [version : Versions \ {0}, up : BOOLEAN]

(* tries: claims refused; saw: `existing` was found; last: its data, or  *)
(* that of the claimed row; got: the version fetched, 0 for 304; floor:    *)
(* the data of the row when the call began; answer: 0 for null.            *)
Call == [pc : {"idle", "claim", "poll", "fetch", "save", "keys", "release",
               "done", "threw"},
         tries : 0 .. MaxTries - 1, saw : BOOLEAN, last : Versions, got : Versions,
         floor : Versions, answer : Versions]

NoRow    == [there |-> FALSE, token |-> NoToken, data |-> 0, age |-> 0]
IdleCall == [pc |-> "idle", tries |-> 0, saw |-> FALSE, last |-> 0, got |-> 0,
             floor |-> 0, answer |-> 0]

TypeOK ==
  /\ row \in Row
  /\ keyRows \in SUBSET Versions
  /\ mirror \in Mirror
  /\ call \in [Calls -> Call]
  /\ faults \in Nat

-----------------------------------------------------------------------------
Fresh == row.age < FreshFor

(* The WHERE of the upsert.  Mutant: a claim is never taken over. *)
ClaimableNever == row.token = NoToken
Claimable      == row.token = NoToken \/ row.age >= ClaimFor

(* The WHERE of saveAndReleaseClaim.  Mutant: by the key only. *)
OwnsAlways(c) == row.there
Owns(c)       == row.there /\ row.token = c

(* The loop condition of tryClaimRefresh. *)
MoreTries(tries) == tries < MaxTries

(* A call forgets what its next steps do not read. *)
Step(c, fields)    == call' = [call EXCEPT ![c] = fields]
AtPc(c, pc)        == [IdleCall EXCEPT !.pc = pc, !.floor = call[c].floor]
Returned(c, v)     == [AtPc(c, "done") EXCEPT !.answer = v]

-----------------------------------------------------------------------------
(* getAccountInfoForTransaction: complete and fresh data is returned,      *)
(* otherwise the row is to be claimed.                                     *)
Read(c) ==
  /\ call[c].pc = "idle"
  /\ IF row.there /\ row.data > 0 /\ Fresh
     THEN Step(c, [IdleCall EXCEPT !.pc = "done", !.floor = row.data,
                                   !.answer = row.data])
     ELSE Step(c, [IdleCall EXCEPT !.pc = "claim", !.floor = row.data])
  /\ UNCHANGED <<row, keyRows, mirror, faults>>

(* refreshStaleAccounts lists the row: it is old, and unclaimed or         *)
(* claimed for too long.                                                   *)
Listed == row.there /\ ~Fresh /\ Claimable

JobRead(c) ==
  /\ call[c].pc = "idle" /\ Listed
  /\ Step(c, [IdleCall EXCEPT !.pc = "claim"])
  /\ UNCHANGED <<row, keyRows, mirror, faults>>

(* Mutant: taking a claim writes the empty columns of an insert.           *)
ClaimEmpty(c) ==
  /\ call[c].pc = "claim"
  /\ ~row.there \/ Claimable
  /\ row' = [there |-> TRUE, token |-> c, data |-> 0, age |-> 0]
  /\ Step(c, [AtPc(c, "fetch") EXCEPT !.last = row.data])
  /\ UNCHANGED <<keyRows, mirror, faults>>

(* The upsert of tryClaimRefresh: inserts the row or takes the claim ...   *)
Claim(c) ==
  /\ call[c].pc = "claim"
  /\ ~row.there \/ Claimable
  /\ row' = [there |-> TRUE, token |-> c, data |-> row.data, age |-> 0]
  /\ Step(c, [AtPc(c, "fetch") EXCEPT !.last = row.data])
  /\ UNCHANGED <<keyRows, mirror, faults>>

(* ... or returns somebody else's row: wait, and after the last attempt    *)
(* return the row found last, or throw if none was found ...               *)
ClaimRefused(c) ==
  /\ call[c].pc = "claim"
  /\ row.there /\ ~Claimable
  /\ LET tries == call[c].tries + 1
     IN Step(c, IF MoreTries(tries)
                THEN [call[c] EXCEPT !.pc = "poll", !.tries = tries]
                ELSE IF call[c].saw THEN Returned(c, call[c].last)
                ELSE AtPc(c, "threw"))
  /\ UNCHANGED <<row, keyRows, mirror, faults>>

(* ... or no row, which throws: another call inserted it while the         *)
(* statement ran, and the SELECT reads the table as it was before.  (A     *)
(* row without data, unless this call found it, may be such a row.)        *)
ClaimMissed(c) ==
  /\ call[c].pc = "claim"
  /\ row.there /\ ~Claimable /\ row.data = 0 /\ ~call[c].saw
  /\ Step(c, AtPc(c, "threw"))
  /\ UNCHANGED <<row, keyRows, mirror, faults>>

(* After the wait: an unclaimed row is returned as it is.                  *)
Poll(c) ==
  /\ call[c].pc = "poll"
  /\ IF row.there /\ row.token = NoToken
     THEN Step(c, Returned(c, row.data))
     ELSE Step(c, [call[c] EXCEPT !.pc = "claim", !.saw = row.there,
                                  !.last = row.data])
  /\ UNCHANGED <<row, keyRows, mirror, faults>>

(* fetchAccountInfo with the etag of the claimed row: 304 when the ledger  *)
(* has nothing new, an exception when the mirror node does not answer.     *)
Fetch(c) ==
  /\ call[c].pc = "fetch"
  /\ IF mirror.up
     THEN Step(c, [call[c] EXCEPT !.pc = "save",
            !.got = IF call[c].last = mirror.version THEN 0 ELSE mirror.version])
     ELSE Step(c, AtPc(c, "release"))
  /\ UNCHANGED <<row, keyRows, mirror, faults>>

(* saveAndReleaseClaim.  A call that lost its claim saves nothing, and     *)
(* still returns what it fetched.                                          *)
Save(c) ==
  /\ call[c].pc = "save"
  /\ LET got == call[c].got
         answer == IF got > 0 THEN got ELSE call[c].last
     IN IF Owns(c)
        THEN /\ row' = [there |-> TRUE, token |-> NoToken, age |-> 0,
                        data |-> IF got > 0 THEN got ELSE row.data]
             /\ Step(c, IF got > 0 THEN [AtPc(c, "keys") EXCEPT !.got = got]
                        ELSE Returned(c, answer))
        ELSE Step(c, Returned(c, answer)) /\ UNCHANGED row
  /\ UNCHANGED <<keyRows, mirror, faults>>

(* insertKeys, a statement of its own; keys of older versions stay.        *)
(* Mutant: only for an account seen for the first time.                    *)
InsertKeysOnce(c) ==
  /\ call[c].pc = "keys"
  /\ keyRows' = IF keyRows = {} THEN {call[c].got} ELSE keyRows
  /\ Step(c, Returned(c, call[c].got))
  /\ UNCHANGED <<row, mirror, faults>>

InsertKeys(c) ==
  /\ call[c].pc = "keys"
  /\ keyRows' = keyRows \union {call[c].got}
  /\ Step(c, Returned(c, call[c].got))
  /\ UNCHANGED <<row, mirror, faults>>

(* After an error the claim is released (and updatedAt set) where it is    *)
(* still held, and the error thrown again.                                 *)
Release(c) ==
  /\ call[c].pc = "release"
  /\ row' = IF Owns(c) THEN [row EXCEPT !.token = NoToken, !.age = 0] ELSE row
  /\ Step(c, AtPc(c, "threw"))
  /\ UNCHANGED <<keyRows, mirror, faults>>

Fault == faults < MaxFaults /\ faults' = faults + 1

Orphaned(c) == [row EXCEPT !.token = IF @ = c THEN Orphan ELSE @]

(* A statement fails: saving or inserting keys, which goes on to the       *)
(* release, or the release itself, whose failure is only logged.           *)
StatementFails(c) ==
  /\ call[c].pc \in {"save", "keys", "release"} /\ Fault
  /\ IF call[c].pc = "release"
     THEN Step(c, AtPc(c, "threw")) /\ row' = Orphaned(c)
     ELSE Step(c, AtPc(c, "release")) /\ UNCHANGED row
  /\ UNCHANGED <<keyRows, mirror>>

(* The process dies in a call; its claim stays in the row.                 *)
Crash(c) ==
  /\ call[c].pc \notin {"idle", "done", "threw"} /\ Fault
  /\ row' = Orphaned(c)
  /\ Step(c, IdleCall)
  /\ UNCHANGED <<keyRows, mirror>>

(* The caller takes the answer. *)
Finish(c) ==
  /\ call[c].pc \in {"done", "threw"}
  /\ Step(c, IdleCall)
  /\ UNCHANGED <<row, keyRows, mirror, faults>>

-----------------------------------------------------------------------------
(* cleanupUnusedAccounts, for a row that no active transaction uses; its   *)
(* keys go with it.  (Inserting keys takes far less than UnusedFor.)       *)
Cleanup ==
  /\ row.there /\ row.token = NoToken /\ row.age >= UnusedFor
  /\ \A c \in Calls : call[c].pc # "keys"
  /\ row' = NoRow /\ keyRows' = {}
  /\ UNCHANGED <<mirror, call, faults>>

Tick ==
  /\ row' = IF row.there /\ row.age < UnusedFor
            THEN [row EXCEPT !.age = row.age + 1] ELSE row
  /\ UNCHANGED <<keyRows, mirror, call, faults>>

LedgerChanges ==
  /\ mirror.version < MaxVersion
  /\ mirror' = [mirror EXCEPT !.version = mirror.version + 1]
  /\ UNCHANGED <<row, keyRows, call, faults>>

MirrorToggles ==
  /\ mirror' = [mirror EXCEPT !.up = ~mirror.up]
  /\ UNCHANGED <<row, keyRows, call, faults>>

-----------------------------------------------------------------------------
Init ==
  /\ row = NoRow
  /\ keyRows = {}
  /\ mirror = [version |-> 1, up |-> TRUE]
  /\ call = [c \in Calls |-> IdleCall]
  /\ faults = 0

CallStep(c) == \/ Claim(c) \/ ClaimRefused(c) \/ ClaimMissed(c) \/ Poll(c) \/ Fetch(c)
               \/ Save(c) \/ InsertKeys(c) \/ Release(c)

Environment == Cleanup \/ Tick \/ LedgerChanges \/ MirrorToggles

Next ==
  \/ \E c \in Requests : Read(c)
  \/ \E c \in Jobs : JobRead(c)
  \/ \E c \in Calls : CallStep(c) \/ Finish(c) \/ StatementFails(c) \/ Crash(c)
  \/ Environment

Spec == Init /\ [][Next]_vars

-----------------------------------------------------------------------------
(* Safety *)

(* A slow call whose claim was taken over never overwrites the row with    *)
(* what it fetched before: the data of a row only gets newer.              *)
NeverOlder == [][row.there /\ row'.there => row.data <= row'.data]_vars

(* The keys of the cached version are indexed, or its saver is about to    *)
(* index them: the rows of cached_account_key decide who is asked to sign. *)
(* A call that dies in between, or whose INSERT fails, leaves them out for *)
(* as long as the mirror node answers 304.                                 *)
KeysFollowData ==
  row.data > 0 =>
    \/ row.data \in keyRows
    \/ \E c \in Calls : call[c].pc = "keys" /\ call[c].got = row.data
    \/ faults > 0

(* An answer is not older than what the cache held when the call began.    *)
NoStepBack ==
  \A c \in Requests : call[c].pc = "done" /\ call[c].answer > 0
                     => call[c].answer >= call[c].floor

(* "No cached data.  This should never happen": a waiting call answers null *)
(* when it finds the row unclaimed and empty.  As long as the mirror node   *)
(* answers and nothing fails, it never does: the row is claimed until it    *)
(* has data, whoever claims it in between.                                  *)
EmptyOnlyAfterFailure ==
  [](mirror.up /\ faults = 0) => [](row.there /\ row.token = NoToken => row.data > 0)

=============================================================================
