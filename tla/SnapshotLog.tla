----------------------------- MODULE SnapshotLog -----------------------------
(***************************************************************************)
(* The history of an account's key that the signing reports are made from  *)
(* (libs/common/src/transaction-snapshot, the account_snapshot and         *)
(* transaction_account_snapshot tables, apps/api/src/reports).  Whoever    *)
(* ends a transaction stamps it with executedAt and then captures the key  *)
(* that the cache holds: the row is reused when the latest one has the     *)
(* same key, otherwise a row is added with createdAt = executedAt.  The    *)
(* reads and the insert of a capture are separate statements, and captures *)
(* run in every pod of the api and the chain service.                      *)
(*                                                                         *)
(* One account on one network; the rows of a node's admin key are kept the *)
(* same way (resolveNodeSnapshot).  The cache is CacheRefresh's.           *)
(***************************************************************************)
EXTENDS SignatureKey

CONSTANTS
  Transactions,
  Captures,     \* calls of captureForTransaction that may be made
  For,          \* the transaction of each
  Rotated,      \* the key that takes the place of a key, or of none
  LastTime,     \* bound: moments at which a transaction may end
  MaxRotations, \* bound: changes of the cached row
  NoKey         \* encodedKey is null

ASSUME SnapshotAssumption ==
  /\ For \in [Captures -> Transactions]
  /\ NoKey \notin Keys
  /\ Rotated \in [Keys \cup {NoKey} -> Keys]
  /\ LastTime \in Nat \ {0} /\ MaxRotations \in Nat

VARIABLES
  clock,
  cached,      \* cached_account: its key and receiverSignatureRequired
  executedAt,  \* of each transaction, as last written; 0 while it is open
  capture,     \* the calls: what they have read
  log,         \* account_snapshot; a row's id is its position
  links,       \* transaction_account_snapshot
  rotations,
  since,       \* what the cache held since each transaction ended (history)
  inOrder      \* one capture at a time, in the order of executedAt (history)

vars == <<clock, cached, executedAt, capture, log, links, rotations, since,
          inOrder>>

Held == [key : Keys \cup {NoKey}, receiver : BOOLEAN]

Unread == [key |-> NoKey, receiver |-> FALSE]
IdleCapture == [pc |-> "idle", at |-> 0, read |-> Unread, latest |-> 0]

-----------------------------------------------------------------------------
(* The rows of the log *)

Content(id) == [key |-> log[id].key, receiver |-> log[id].receiver]

(* ORDER BY createdAt DESC LIMIT 1: of rows with one createdAt, any. *)
Latest(ids) ==
  IF ids = {} THEN {0}
  ELSE {i \in ids : \A j \in ids : log[j].createdAt <= log[i].createdAt}

(* The lookup that account-snapshot.entity.ts describes. *)
LookUp(at) == Latest({i \in DOMAIN log : log[i].createdAt <= at})

Running == {c \in Captures : capture[c].pc \notin {"idle", "done"}}

-----------------------------------------------------------------------------
(* The cache and the ends of transactions *)

Rotate ==
  /\ rotations < MaxRotations
  /\ \/ cached' = [cached EXCEPT !.key = Rotated[cached.key]]
     \/ cached' = [cached EXCEPT !.receiver = ~cached.receiver]
  /\ rotations' = rotations + 1
  /\ since' = [t \in Transactions |->
                 IF executedAt[t] = 0 THEN {} ELSE since[t] \cup {cached'}]
  /\ UNCHANGED <<clock, executedAt, capture, log, links, inOrder>>

Tick ==
  /\ clock < LastTime
  /\ clock' = clock + 1
  /\ UNCHANGED <<cached, executedAt, capture, log, links, rotations, since, inOrder>>

(* Execution, cancel, expiration, collation and, over them, archive: write *)
(* executedAt and call captureForTransaction.  One sweep ends several      *)
(* transactions at one executedAt.                                         *)
End(c) ==
  LET t == For[c]
  IN /\ capture[c].pc = "idle"
     /\ executedAt' = [executedAt EXCEPT ![t] = clock]
     /\ since' = [since EXCEPT ![t] = IF executedAt[t] = 0 THEN {cached} ELSE @]
     /\ capture' = [capture EXCEPT ![c].pc = "links", ![c].at = clock]
     /\ inOrder' = (inOrder /\ Running = {}
                      /\ \A d \in Captures : capture[d].at < clock)
     /\ UNCHANGED <<clock, cached, log, links, rotations>>

-----------------------------------------------------------------------------
(* captureAccountSnapshots *)

(* The link with the cached account; without a key it is skipped. *)
ReadCache(c) ==
  /\ capture[c].pc = "links"
  /\ capture' = [capture EXCEPT ![c].read = cached,
                                ![c].pc = IF cached.key = NoKey THEN "done" ELSE "find"]
  /\ UNCHANGED <<clock, cached, executedAt, log, links, rotations, since, inOrder>>

(* The first statement of resolveAccountSnapshot. *)
FindLatest(c) ==
  /\ capture[c].pc = "find"
  /\ \E id \in Latest(DOMAIN log) :
       capture' = [capture EXCEPT ![c].latest = id, ![c].pc = "resolve"]
  /\ UNCHANGED <<clock, cached, executedAt, log, links, rotations, since, inOrder>>

(* Mutant: the keys are compared but not receiverSignatureRequired. *)
SameKey(c) ==
  capture[c].latest # 0 /\ log[capture[c].latest].key = capture[c].read.key

SameAsLatest(c) ==
  capture[c].latest # 0 /\ Content(capture[c].latest) = capture[c].read

(* Mutant: the row is stamped with the clock of the database. *)
NewRowNow(c) ==
  [key |-> capture[c].read.key, receiver |-> capture[c].read.receiver,
   createdAt |-> clock]

NewRow(c) ==
  [key |-> capture[c].read.key, receiver |-> capture[c].read.receiver,
   createdAt |-> capture[c].at]

(* Its second: reuse the row or insert one. *)
Resolve(c) ==
  /\ capture[c].pc = "resolve"
  /\ \/ /\ SameAsLatest(c)
        /\ capture' = [capture EXCEPT ![c].pc = "link"]
        /\ UNCHANGED log
     \/ /\ ~SameAsLatest(c)
        /\ log' = Append(log, NewRow(c))
        /\ capture' = [capture EXCEPT ![c].latest = Len(log) + 1, ![c].pc = "link"]
  /\ UNCHANGED <<clock, cached, executedAt, links, rotations, since, inOrder>>

(* The row of the junction table; it is unique, a second one is ignored. *)
Link(c) ==
  /\ capture[c].pc = "link"
  /\ links' = links \cup {[t |-> For[c], snapshot |-> capture[c].latest]}
  /\ capture' = [capture EXCEPT ![c].pc = "done"]
  /\ UNCHANGED <<clock, cached, executedAt, log, rotations, since, inOrder>>

(* A statement fails, or the process dies: the error is logged.  What was  *)
(* inserted stays.                                                         *)
CaptureFails(c) ==
  /\ capture[c].pc \in {"links", "find", "resolve", "link"}
  /\ capture' = [capture EXCEPT ![c].pc = "done", ![c].latest = 0]
  /\ UNCHANGED <<clock, cached, executedAt, log, links, rotations, since, inOrder>>

Init ==
  /\ clock = 1
  /\ cached \in [key : Keys \cup {NoKey}, receiver : {FALSE}]
  /\ executedAt = [t \in Transactions |-> 0]
  /\ capture = [c \in Captures |-> IdleCapture]
  /\ log = <<>>
  /\ links = {}
  /\ rotations = 0
  /\ since = [t \in Transactions |-> {}]
  /\ inOrder = TRUE

Next ==
  \/ Rotate \/ Tick
  \/ \E c \in Captures : \/ End(c) \/ ReadCache(c) \/ FindLatest(c)
                         \/ Resolve(c) \/ Link(c) \/ CaptureFails(c)

Spec == Init /\ [][Next]_vars

-----------------------------------------------------------------------------
(* Properties of the log *)

TypeOK ==
  /\ clock \in 1 .. LastTime
  /\ cached \in Held
  /\ executedAt \in [Transactions -> 0 .. LastTime]
  /\ capture \in [Captures -> [pc : {"idle", "links", "find", "resolve", "link", "done"},
                               at : Nat, read : Held, latest : Nat]]
  /\ \A c \in Captures : capture[c].latest \in 0 .. Len(log)
  /\ log \in Seq([key : Keys, receiver : BOOLEAN, createdAt : Nat])
  /\ links \subseteq [t : Transactions, snapshot : DOMAIN log]
  /\ since \in [Transactions -> SUBSET Held]
  /\ rotations \in 0 .. MaxRotations
  /\ inOrder \in BOOLEAN

(* Reports read the key of an ended transaction through its links: it is   *)
(* one that the cache held since the transaction ended, however captures   *)
(* interleave, fail half-way and reuse each other's rows.                  *)
LinkTellsKey ==
  \A l \in links : Content(l.snapshot) \in since[l.t]

(* "The standard lookup query is correct" and "A new row is written only   *)
(* when the key or receiverSignatureRequired changes"                      *)
(* (account-snapshot.entity.ts): for transactions captured one after the   *)
(* other, in the order of executedAt, the timeline gives back the key that *)
(* was captured, and has one row per change.  Captures at once, as after   *)
(* every sweep of expired transactions, break both.                        *)
TimelineInOrder ==
  inOrder =>
    /\ \A c \in Captures :
         capture[c].pc = "done" /\ capture[c].latest # 0
           => \A id \in LookUp(capture[c].at) : id # 0 /\ Content(id) = capture[c].read
    /\ \A id \in 1 .. Len(log) - 1 : Content(id) # Content(id + 1)

-----------------------------------------------------------------------------
(* Properties of the key, for whichever key the cache holds                *)

ShortSuffices ==
  {k \in KeyLists : \A signers \in SUBSET PublicKeys :
     LET short == ComputeShortenedPublicKeyList(signers, k)
     IN /\ HasValidSignatureKey(signers, k) <=> \E q \in Quorums(k) : q \subseteq signers
        /\ HasValidSignatureKey(signers, k) <=> short # {}
        /\ \A s \in short : /\ SignersOf(s) \subseteq signers
                             /\ HasValidSignatureKey(SignersOf(s), k)}

ShortIsSmallest ==
  {k \in KeyLists : \A signers \in SUBSET PublicKeys :
     \A s \in ComputeShortenedPublicKeyList(signers, k), q \in Quorums(k) :
       q \subseteq signers => Cardinality(s) <= Cardinality(q)}

(* A key is satisfied when the signers include one of the smallest sets    *)
(* that sign for it: what TransactionLifecycle assumes.  The signatures    *)
(* that smartCollate keeps of a transaction that is too big are among      *)
(* those it has and still sign for the key; there are none only when all   *)
(* it has would not (or when the key is an empty list).                    *)
ShortListSuffices ==
  cached.key \in KeyLists /\ cached.key.keys # <<>> => cached.key \in ShortSuffices

(* "the smallest set of public keys that can satisfy the threshold": so it *)
(* is when no public key occurs twice in the key.                          *)
ShortListIsSmallest ==
  cached.key \in KeyLists /\ Plain(cached.key) => cached.key \in ShortIsSmallest
=============================================================================
