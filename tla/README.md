# TLA+ models of the Hedera Transaction Tool back-end

This directory holds TLA+ specifications of the concurrent core of the
Transaction Tool's back-end (`src/back-end`), the TLC configurations that check
them on small instances, and TLAPS proofs of the most important properties for
every instance.

Paths below are relative to `src/back-end/` unless they say otherwise.
`PROJECT.json` maps every definition to the lines it models, lists the runs,
the mutants that show that each property can fail, the hazards of the code, the
findings and the theorems.

Contents: 1 the system; 2 the modules and the code; 3 the runs; 4 fairness;
5 the proofs; 6 findings and observations; 7 what is not modelled; 8 the plan.

## 1. The system

The back-end is a NestJS monorepo with three services that share a PostgreSQL
database, Redis (locks, reminders, blacklist, batching) and NATS JetStream
(events):

* **api** (`apps/api`): users create, sign, approve, cancel, archive and
  manually execute transactions.
* **chain** (`apps/chain`): one or more pods; a scheduler recomputes statuses,
  collates signatures, executes transactions at their valid start and expires
  them; cache jobs refresh what is known of accounts and nodes.
* **notifications** (`apps/notifications`): turns events into stored
  notifications, websocket messages and mails.
* **libs/common**: entities, the execute service, key computation, mirror node
  caches, snapshots.

Nothing but the database, Redis and NATS is shared between processes, and every
service may run in several pods, so every window between a read and a write that
depends on it is a window for somebody else.

### Components, state and operations

| component | state | operations | what must hold |
|---|---|---|---|
| transaction lifecycle | row `transaction` (status, bytes, isManual), `transaction_signer` rows, timers of each pod, Redis lock | upload and import signatures, status crons, collate, execute, expire, cancel, archive, manual execute | one end per transaction; EXECUTED only if consensus took it; signatures never lost; every transaction ends and its end is announced |
| transaction groups | group rows, timers, group lock | create, cancel, execute atomically or sequentially | atomic groups run whole or not at all; cancel answers are true |
| signature keys | none (pure) | flatten, satisfy, shorten | the shortened list satisfies the key and is the smallest that does |
| mirror node caches | cached rows with `refreshToken`, `updatedAt`; keys of accounts | claim, poll, save, refresh job, cleanup | a stale owner never overwrites; keys follow the data; a caller gets data; a row does not stay old |
| circuit breaker | state, failures, attempts, in the memory of a pod | isAvailable, recordSuccess, recordFailure | it opens, probes and closes again |
| snapshots | change-log of account and node keys, links of transactions to it | capture at every terminal status | a link tells a key the cache held; captured in order, the latest row at any time is what was active |
| notification batcher | Redis list, flush key, two lock keys | add, flush when a key expires or the list is full | no message lost, none twice, none waits for ever |
| notification receiver and its consumers | events in the stream, indicator rows with receivers, the copies of a handler | take, load, find, write, send, acknowledge | indicators follow the status; a stage of a group is mailed |
| approver trees | rows with parent, threshold, user, signature | create, detach, move, threshold, user, remove, approve | trees stay trees; thresholds stay reachable; signatures stay with their transaction |
| reviewer groups and rules | rows, change records | create; requests to change | one pending request at most |
| authentication, blacklist, users | row `user`, tokens, entries in Redis | sign-up, login, logout, change, reset, removal, updates | a revoked token stays revoked; a verified account has a password of its own |
| user keys | rows `user_key` | upload, remove, recover, index, removal of the user | one row per public key; the limit; reports name the same owner |
| creation | rows, groups, reminders | check transaction ids, insert, group | no two active rows with one transaction id; answers tell what was left |

Interaction: api and chain call the execute service of libs/common, which takes a
lock in Redis; all of them write the same rows with compare-and-set `UPDATE`s
(or, in places, without the comparison); after a write they publish to NATS,
from which notifications is fed; the signature computation of api and chain
reads the mirror node caches, which the jobs of chain refresh.

The hard behaviours are the windows between read and write, several pods that run
the same crons, a lock in Redis that may run out, timers that hold copies of rows,
crashes between the submission to the network and the update of the row, network
calls of unknown outcome, and claims that time out. `PROJECT.json` lists each at
its line ("hazards").

## 2. The modules and the code

| module | what it is | code |
|---|---|---|
| `TransactionPromise` | abstract: one transaction as a client and the ledger see it | the promise that the next two implement |
| `TransactionLifecycle` | one transaction, every actor, every window | `transactions.service.ts`, `signers.service.ts`, `transaction-scheduler.service.ts`, `execute.service.ts`, `utils/transaction` |
| `TransactionLifecycle_proofs` | theorems about it | |
| `GroupExecution` | an atomic or sequential group | the group parts of the scheduler and the execute service, `transaction-groups.service.ts` |
| `CacheClaim` | one cached account row and its callers | `cache.helper.ts`, `cache.queries.ts`, `account-cache.service.ts`, cleanup of `cache-management.service.ts` |
| `CircuitBreaker` | the breaker, as operators on a circuit | `mirror-node-circuit-breaker.service.ts` |
| `CacheRefresh` | composes `CacheClaim` and `CircuitBreaker` into the refresh job | `refreshStaleAccounts` |
| `Cache_proofs` | theorems about both; `CacheRefresh` implements `CacheClaim` | |
| `NotificationBatcher` | one debounced batch in Redis, its adds and the pods that hear of expired keys | `DebouncedNotificationBatcher.ts` |
| `NotificationBatcher_proofs` | theorems about it | |
| `StatusNotifications` | status events of one group, and the pods that turn them into indicators and mails | `receiver.service.ts`, `base-nats-consumer.service.ts`, `nats.publisher.ts` |
| `StatusNotifications_proofs` | theorems about it | |
| `ApproverTree` | the approver rows of several transactions, requests that overlap | `approvers.service.ts`, `transaction-approver.entity.ts` |
| `ApproverTree_proofs` | theorems about it | |
| `SignatureKey` | keys as operators: flatten, validity, the shortened list | `utils/sdk/key.ts` |
| `SnapshotLog` | captures of an account's key into the change-log | `transaction-snapshot.service.ts`, the snapshot entities |
| `Accounts` | one account, its tokens, Redis | `apps/api/src/auth`, `users.service.ts`, `blacklist.service.ts` |
| `UserKeys` | the rows of `user_key` | `user-keys.service.ts`, `removeUser`, `resolveKeyOwners` of the signing reports |
| `TransactionCreation` | requests that create transactions and groups | `createTransactions`, `createTransactionGroup` |
| `GroupExecution_proofs`, `SnapshotLog_proofs`, `Organization_proofs` | theorems about groups; about the log of keys; about accounts, keys and creation | |
| `MCLifecycle`, `MCGroup`, `MCCache`, `MCBatcher`, `MCNotifications`, `MCApprovers`, `MCSnapshots`, `MCOrganization` | values of constants for TLC | |

### TransactionLifecycle

State: `row` is the database row (`status`; `sigs`, the keys whose signatures
`transactionBytes` carries; `isManual`), `signers` the `transaction_signer` rows,
`net` what consensus knows of the transaction id, `lock` the MurLock of
`executeTransaction`. Everything else is the progress of one actor and the copies
it holds: an upload or import (`UploadLoad`, `UploadSave`, `UploadStatus`), a
status cron of a pod (`CronLoad`, `CronUpdate`), the collation timeout, an
execution (`ExecLock`, `ExecValidate`, the `Submit` actions, `ExecRecord`,
`ExecFollow`), the expiration sweep, a cancel, an archive. `followed` is what was
published and snapshotted.

Every database statement, lock operation and network call is one action, because
these are the awaits between which others run; what the code does between two
awaits is part of the action. A compare-and-set `UPDATE` (`WHERE id AND status`)
reads and writes the row in its action; an `UPDATE` by id alone does not look at
it.

Abstractions, each keeping what the properties can tell apart:

* Bytes are the set of keys that signed them; the signature key is the family
  `Quorums` of key sets that satisfy it; the size limit is `MaxSigs`.
* The reads of an upload before its write are one step (`UploadLoad`).
* Emitting the event and capturing the snapshot follow a write as one step
  (`...Follow`, `followed`); the writer may die before it.
* The resolution of keys through the mirror node may fail at any time
  (`KeysFail`), for each actor on its own.
* The clock has four phases, seen from `validStart`; every phase may begin between
  any two steps.
* The time to live of the lock may end at any time: a slow execution.
* One invocation of a status cron, a collation timeout and an execution timeout at
  a time per pod: the scheduler registers timeouts by name and does not register
  one that exists.
* A crash loses the timers and copies of a pod and leaves its lock in Redis.
* `NEW` and `REJECTED` are in the enumeration and never assigned.

`TransactionPromise` knows only the status, what consensus knows, and whether some
executor that saw the transaction open may still submit it. The refinement mapping
is `status <- row.status`, `inFlight <- some executor is validated and has not
submitted`. It rules out that a terminal status changes other than to ARCHIVED,
that a row is EXECUTED that consensus did not take, that an outcome is recorded
from another status than WAITING_FOR_EXECUTION, and that anything is submitted by
nobody who saw the transaction open. It does not promise that a canceled
transaction is not executed by consensus: the window between the status check and
the submission is real (`execute.service.ts:213`), and `Settle` allows it.

### GroupExecution

The windows of the group operations: the collation of all members from one copy,
the group lock, the filter and validation of the members, each member's
submission, record or failing `UPDATE`, the publication after the last member,
the two reads and the bulk `UPDATE` of the group cancel. Upload, status cron, sweep
and the cancel of one member, whose windows are in `TransactionLifecycle`, are one
step each. A member is valid for two units of time. `Sequential` members go one
after the other; atomic ones at once. A record that throws rejects `Promise.all`:
the lock is released and the remaining members go on with nobody to publish them
(`unheard`). A pod does not start another execution of the group while such
members go on. Each member implements `TransactionPromise`.

### CacheClaim, CircuitBreaker, CacheRefresh

`row` is the cached account row: whether it is there, its `refreshToken`, the
version of its data (0 for none) and the age of `updatedAt`. `keyRows` are the
versions whose keys are in `cached_account_key`. A call reads the row, claims it
(the upsert: insert, or take over an unclaimed or too old row), polls if refused,
fetches with the etag of the row it claimed (304 is `got = 0`), saves where the
token is its own, then inserts the keys in a statement of its own; an error goes
through the release. The upsert may also give back no row, when another call inserts it
while the statement runs, and the call throws (`ClaimMissed`). `StatementFails` and `Crash` are the failures, together at
most `MaxFaults`. The random token of a call is its name; a token nobody is left
to release is `Orphan`. `LedgerChanges` gives the account a new version; the
mirror node stops and starts to answer at any time.

Ages are capped at `UnusedFor`, from which the cleanup may delete the row. The
cleanup may run at any time then, because which transactions are active is not
modelled, but not while keys are being inserted: the row was saved a moment ago
and the cleanup wants five minutes. That the account is not found at all is not
modelled. `floor` is a history variable: the data in the row when a request began.

The poll interval is not timed: `MaxTries` attempts may pass before or after the
claim times out. In the code both take about ten seconds (20 attempts of 500 ms,
`CACHE_CLAIM_TIMEOUT_MS`), so either may be first.

`CacheRefresh` adds one circuit per job, that is, per pod. A job lists one row,
asks the breaker (`Begin`, `Skip`), runs a call of `CacheClaim`, and records the
end (`End`). A restarted pod has a new circuit. Only the time that a state of the
circuit reads is counted.

### NotificationBatcher

One group key, that is, one mailbox or one websocket room. A process is an `add`,
named by its message, or a handler of an instance for the expiry of one of the two
keys of the group (`"batch"`, the list itself, and `"flush"`, the debounce key).
Every Redis command is one action, because every one is awaited. `list`,
`listTTL`, `flushTTL` and `locked` are in Redis; `at` is the next step of every
process, `hand` what a flush has read and not yet given to the callback; `echo`
are the instances that heard that a *lock* key has expired. `taken`, `sent`, `past`
are history.

* The callback begins with `Unschedule` and ends with the next step of its
  process; `sent` says that it was called, not that the mail arrived.
* A handler that is busy is not told again: its instance would find the lock
  taken (`SET NX`), and no state would change.
* The name of a lock key is that of the key it locks and `:lock`, and the prefix is
  what `handleMessage` looks at. The expiry of a lock is therefore taken for the
  expiry of a group's key: the flush of that group finds no list and deletes "its"
  flush key, which is the lock of the real one (`EchoFlush`); or the lock of the
  batch key exists, is not a list, and the command is rejected with nobody to catch
  it (`EchoFails`).
* Times to live are counted in ticks. A tick may come between any two steps, unless
  the constant `Calm` says that the pods are faster than the clock.
* A crash loses the progress of the adds and handlers of an instance; locks, list
  and times to live stay in Redis.
* `flushAll` and the index of local groups are left out: they run in
  `onModuleDestroy`, and nothing enables the shutdown hooks or closes the application.

### StatusNotifications

`status` is the status of every transaction of one group in the database, `grouped`
says that the group's rows are committed, `rows` are the indicator notifications.
`queue` counts, for every set of transactions, the messages about it that wait in the
stream: JetStream gives no order that the handlers could rely on, because two pods
take from it and messages come again. `job` is what a pod does: the copies of the
transactions of the event (`copy`, those that are still to be handled) and of the group
(`peers`), the indicators found (`found`), and what is collected to be told at the end
(`gone`, `fresh`, `mail`). `shown` is what the clients were told of, `mailed` what was
handed to the mailer. `met`, `past` are history.

* A change of a status and its publication are one step (`Change`): an event that is
  published later is an event that is taken later. A writer that dies in between is
  `Lose`, as is a publisher without a connection and an event of more than five minutes.
* `Take` includes the first read, of the event's transactions; the group is read
  by a second statement (`LoadGroup`), and only if the first read found one:
  `createTransactionGroup` publishes before its database transaction commits.
* The database transaction of each member is two steps, the search for old indicators
  and the deletion and insert, because PostgreSQL's READ COMMITTED lets others
  commit in between.
* The handler throws (`HandlerFails`) and is acknowledged all the same; an error
  in the callback of a member's database transaction is caught inside of it, so that the
  transaction commits and the handler goes on (`WriteFails`): an error of the code leaves what
  was done before it, the deletions, and an error of a statement leaves nothing; a
  publication or the insert of a mail's rows that fails is forgotten (`SendFails`).
* `Redeliver`: the acknowledgement took longer than JetStream waits, while the pod
  still works. `Crash`: the pod is gone, and the message comes again.
* The ids of rows come from a sequence; the smallest id that nobody knows stands for
  the next one.
* Who receives what, preferences, reminders, and update events (no indicator of a
  status) are left out. A soft-deleted transaction is left out as well.

### ApproverTree

`rows` is the table `transaction_approver`; a row's id is its position, 0 stands for a
null `listId` or threshold. `edit` holds what each request of a creator has read,
`approval` the rows that the approval of a user is going to sign. Every request is a
`Begin...` (its reads and checks) and a `Commit` over whatever was committed meanwhile: the
database transactions lock nothing they read, and `approveTransaction` signs by id.
`Below` and `Above` are the two recursive queries, which do not skip deleted rows; on a
cycle they have no end (`OnCycle`). Changing a user sets columns to `undefined`, which
TypeORM leaves out of the `UPDATE` (`AfterUser`). A forest may be created with a negative
threshold (`ValidApprover`); an update refuses one. Removing a row removes everything
below it in one statement. `overlapped`, a history variable, says that two requests of creators were in flight
at once: some promises are kept to creators that act one after the other only.

### SignatureKey and SnapshotLog

A key is a public key or a list with a threshold, nested. `HasValidSignatureKey` and
`ComputeShortenedPublicKeyList` follow the recursion of the code;
the reference is `Quorums`, the family of the minimal sets that sign for a key. A shortened
list is the set of its entries, each a public key with the path to its place in the key (one
public key may be there twice); the order of the entries is left out. Which entries are taken
follows the loop, the stable sort and the slice of the code: public keys in the order of
the list, then lists, the shorter first (`Comes`, `Taken`). The run
takes every key of a small family as what the cache holds, and every set of signers.

In `SnapshotLog` somebody ends a transaction (`End`: `executedAt` and the start of the
capture), then a capture reads the cache, reads the latest row, inserts a row if it
differs, and links; each of these is a statement of its own and may be the last. Rows are
ordered by `createdAt`, not by id; of two with one `createdAt` PostgreSQL may return
either. `since` is what the cache held since a transaction ended, `inOrder` says
that no two captures ran at once and each ended at a later moment: both are
history. The archive of a transaction writes `executedAt` again and captures again.

### Accounts, UserKeys, TransactionCreation

Three parts of the api that share no variable. `MCOrganization` extends the three; a behaviour
moves one of them, chosen in the initial state (`moving`), so that a single run explores
the sum of their states and not the product.

* `Accounts`: requests are a `Begin...`, in which the guards load the row, and one or
  more later steps; every save writes the whole entity that was loaded, as TypeORM's `save`
  does. A token is its kind and the second it was signed in: two tokens of one kind signed
  in one second are the same string. Redis keeps revoked tokens until the end of
  `JWT_EXPIRATION`, and for a removed user the second of the removal (`cutoff`). `spent`
  are the tokens whose revocation was answered, `torn` that a sign-up overlapped another
  request; both are history.
* `UserKeys`: an upload counts the keys, looks the public key up, recovers the row it found
  if that was deleted, and saves it or a new one. Each is a statement of its own; one that
  fails after the recovery leaves the row recovered. The removal of
  a user deletes the keys first and the user later; a sign-up brings the user back.
* `TransactionCreation`: ids are looked up, the rows saved in one database transaction,
  reminders set, the group saved in another. `FailCreate` stops a request at any of these.

## 3. The runs

Passing runs (all mutants of their properties are found):

| run | instance | question |
|---|---|---|
| `LifecyclePromise` | 1 pod that may crash once, 1 request, 1 cancel, 1 archive, manual or not, an upload of two signatures of which one must be stripped, keys may fail | does the code implement the promise; is one end told at most and by whom; are cancel answers true; is a manual transaction left alone by pods; do signatures stay; does every transaction end, and is its end published |
| `LifecycleRepair` | 1 pod, an upload of a pair that does not fit and an overlapping import of a key that does, before `validStart` and at it | do the crons repair a status that the signatures do not justify |
| `GroupPromise` | 2 members, 1 pod, 1 request for the first member, 1 group cancel | does every member keep the promise; are the group cancel's answers complete and true; is what clients are told true |
| `GroupEnds` | 2 staggered members, one too big, one whose keys change, 2 faults | does every member end and is it published |
| `CacheRefresh` | 1 request, 1 job, 3 attempts, 2 versions, 2 faults | does data never get older, are keys indexed, do answers not go back, is an empty answer given after a failure only, does the job catch up |
| `BatchRaces` | 2 pods, 2 messages of different pods, lists of 2, delay 1 and maximum delay 2 ticks, one crash or lock that runs out | is a list always going to end, is a full one being flushed, is nothing sent twice for one kind of expiry |
| `StatusIndicators` | 1 pod, a group of two, 4 events, 1 fault of any kind | does a transaction at rest have the one right indicator, do clients show it, and is a stage on which the group has settled mailed |
| `ApproverTrees` | 2 transactions, 2 users, 2 requests of creators at once and 4 in all, 4 rows, a threshold of -1 among those created | does a row belong to one place; are trees whole unless requests overlap; do signatures stay with the transaction they were given for; which operations strand a threshold |
| `Snapshots` | 2 transactions, 3 captures (one transaction is archived as well), 1 change of the cache, 2 moments, 11 lists of up to 4 public keys | does a link tell a key that the cache held; is the timeline of captures in order exact; does the shortened list suffice, and is it the smallest |
| `Organization` | 2 requests, 2 tokens, 3 seconds, 1 temporary and 1 own password; 2 users, 2 keys, 2 uploads, a limit of 1 key; 2 creators, 3 requests of one or two ids | do spent tokens stay spent; has a verified account a password of its own; has a public key one row; does an id name one active transaction; do answers tell what was left |

Violation runs: `LifecycleAllSigned`, `BatchMaxDelay`; see section 6.

Why the bounds are enough. The races of the code are between two actors over one
row: two executors (pod and request, or two pods), two cancels, two uploads, owner
and taker of a claim. A third actor of a kind finds the row in a state that one of
the two left. One crash suffices for the orphaned submission, lock, or claim, two
faults for a crash during the recovery. Two keys suffice for a quorum that one
upload does not meet and for a set that must be stripped; three for a pair that
does not fit beside a key that does. Two messages suffice to fill a list, and to
begin a second list while the first is flushed. Two members suffice for "one is
executed and the other is not", and two versions for "older data". The theorems of section 5
remove the bounds where they apply, and cover a second pod, a second cancel, more members,
uploads, users and keys than the runs have.

One behaviour of an approver tree that goes wrong needs a list, a row to move, and a second
request: four rows and four requests. A timeline is wrong after two rows in the wrong
order, and one transaction that ends twice reuses a row of another. The lists of
`MCSnapshots` have each shape on which the algorithm takes another branch: all of the
keys or some of them, a list inside a list, the shorter list first and last, a public key that
occurs twice, an empty list, a threshold that cannot be reached. A token can come back to
life at the end of an entry in Redis, of the token, or in the second of the
cutoff: three seconds, with lifetimes of two and one. Two uploads of one key are what can make a second
row; a limit of one key is exceeded by the second.

Deadlock is not checked: all these systems stop when the transaction ended or the
clock has stopped; `Ends`, `MembersEnd` and `CatchesUp` say what must not stop.
The batcher stops when all messages are added and no key is left, the
notifications when all events are handled, and the others when the bounds on requests,
rows and moments are used up.

`StatusIndicators` has four events because an indicator can be wrong in the end only
when an event is handled after a later one, and one event is needed to create it and
one to be lost or repeated. The properties of indicators exempt transactions that two
pods handled at once (`met`): the code does not promise them (section 6). With one pod
per service, as the chart deploys it, that happens only while one pod replaces another.

## 4. Fairness

Weak fairness on: the clock and the time to live of locks; every cron, timeout and
sweep of a pod (NestJS schedules them again and again, and a pod that crashed is
restarted by its deployment); every step of code that was begun. No fairness on
users (nobody has to sign, cancel, archive, execute), on crashes, on
the ledger. The network answers every submission, by an answer or an error
(the SDK has a deadline). `EndsAreTold` and `MemberEndsAreTold` except runs with a
crash or fault, because the code publishes after the write and keeps no outbox:
an end whose writer died is never announced. `ApproverTree`, `SnapshotLog` and the parts of
`Organization` have no liveness to promise: their requests are answered or fail, and nobody
retries them.

`CatchesUp` has two premises in the formula, since the code cannot guarantee
them: the mirror node answers from some time on, and live calls lose their
claim only finitely often. Without the second TLC shows two callers that are each
slower than the claim timeout and take the row from one another for ever.

## 5. The proofs

All are for every value of the constants that satisfies the named assumptions
(`KeyAssumption`, `OwnerAssumption`, `BoundAssumption`, `CacheAssumption`,
`BreakerAssumption`; for the batcher `HomeAssumption`, `BoundsAssumption`,
`NamesAssumption`; for the notifications `BoundsAssumption`; for groups `GroupAssumption`;
`LivesAssumption`, `PasswordsAssumption`, `IndexesAssumption`, `KeyBoundsAssumption`,
`ItemsAssumption`, `RequestsAssumption` for the organisation; `SnapshotAssumption`, `NestingAssumption` and the `KeyAssumption` of `SignatureKey`; `TreeAssumption`), which TLC evaluates in the
runs.

`TransactionLifecycle_proofs`: `TypeCorrect`, `OneVerdictHolds`,
`EveryEndIsToldHolds`, `Refinement`, `ManualIsNotAutomaticHolds`,
`CancelAnswersTruthHolds`, `SignaturesStay`.

* `OneVerdict` is not inductive: it says nothing of a row that is archived after
  one end was told, nor of an actor about to write. The strengthening adds
  what each write does to the set `Told` (`ToldEffect`): a terminal `UPDATE` is a
  compare-and-set from an open status, when nobody has told anything yet, and
  makes its own verdict the only one; other steps leave `Told` alone or
  move a verdict from an actor to `followed`.
* `Refinement` needs that an executor's answer "ok" implies consensus success
  (`OkIsTrue`), and that whoever is in flight saw the transaction open.
* `ManualIsNotAutomatic` needs that the copies of `isManual` in crons and collation
  timeouts agree with the row or that the row was released (`CopiesAreRight`):
  the flag only changes from manual to not, so a stale copy errs towards not
  executing.
* `CancelAnswersTruth` needs that a cancel which fell back to re-reading found
  its `UPDATE` without effect because the row was terminal (`CancelSawTruth`).
* `SignaturesStay` (`SignaturesKept`) has the hypothesis that there is one upload request at most,
  with any number of pods, executions, cancels and archives: only the write of an upload changes
  the signatures (`OnlySavesChangeSigs`), and a lone upload finds what it read
  (`ReadsStand`). With two uploads the property is false: the run
  `LifecycleAllSigned` shows the overlap that loses one's signature.

`Cache_proofs`: `TypeCorrect`, `NeverOlderHolds`, `NoStepBackHolds`,
`KeysFollowDataHolds`, `EmptyHolds`. `NeverOlder` rests on `Newest`: nothing that is cached or
held is newer than the mirror node's version; and what the *owner of the claim* is about to
save is at least as new as the row and as everything any caller began with. The
owner's data can be that new because it fetched after it claimed, and nobody else
could save in between without taking the token. `KeysFollowData` is inductive
with the types. `EmptyOnlyAfterFailure` rests on `NeverEmpty`: the row a call
owns still has the data the call read when it claimed, so that a 304, which the
mirror node answers only to a call with data, finds data in the row.

Of the jobs and their breakers: `RefreshImplementsClaim` (every step of the jobs and
breakers is a step of `CacheClaim` or leaves its variables alone), from which
`RefreshIsSafe` carries the three properties over; `RefreshTypeCorrect` also
proves that no operation of the breaker takes a count past its bound.

`NotificationBatcher_proofs`: `TypeCorrect`, `ClearHolds`, `FullHolds`, `OnceHolds`.

* `SomebodyWillClear` and `FullIsBeingFlushed` are inductive with the types. A list that
  becomes full does so by a `Push`, and that add goes to its flush; a list that is
  emptied by another flush is no longer full.
* `OncePerTrigger` needs to know who is past the lock (`LockInv`). As long as no lock ran
  out, a handler that is past the lock holds it and is alone of its kind. What handlers of
  a kind have read and is still in the list is about to be deleted by the one
  that read it, or its reader died and the lock stays for good (`Protected`). The echo
  of an expired lock is the only other step that frees a lock, and there is none
  until a lock ran out.

`StatusNotifications_proofs` (from `BoundsAssumption`): `TypeCorrect`, `IndicatorHolds`,
`ClientsHold`, `StageHolds`.

* `TypeCorrect` includes that ids stay a key, for which the known ids must stay
  finite (`Bounded`), so that there is a new one.
* `IndicatorFollowsStatus` speaks of rest only. What is kept meanwhile (`TruthOf`), of a
  transaction that no two pods handled at once: whoever lost the right to acknowledge has
  his event in the stream again; what a handler is about to delete is all there is;
  and unless an event waits, a pod that holds a copy holds a current one, or the
  indicator is right. A change always leaves an event behind, which is why a stale copy
  is never the last word.
* `ClientsSeeIndicators` needs in addition that what clients show, after the handler has
  sent what it collected, is what is stored (`TellOf`), and that a handler collects
  rows of its own event only.
* `StageIsMailed` looks at a group at rest, when nobody owes a mail. The invariant says who
  owes one meanwhile (`Owed`). A transaction that is handled before its group is committed, or is
  canceled, is mailed about by itself: an event of it waits, or a pod that has not lost its event
  knows its status or has collected the mail (`Due`). Members of a group that agree are
  mailed about by whoever handles *any* of them after the last change: an event of any
  member waits, or a pod holds a current copy of one and will read, or has read, the group as
  it is (`DueTogether`). The change that makes them agree leaves such an event behind. The theorem
  holds for pods that handle one event at once; the run has one pod.

`GroupExecution_proofs`: `TypeCorrect`, `CancelHolds`, `ToldHolds`, `MembersRefine`. The
invariant is `TypeOK` with four parts: a collation that is about to publish failures has
written them (`CollateTruth`); what an executor recorded of a member is its status, and its
"ok" means that consensus took the member (`ExecTruth`); a cancel, from its second read on, has
every member in one of its lists, and those it will not cancel have ended as the list
says (`CancelTruth`); and `ToldIsTrue` itself, for whose sake the others speak
of what is about to be published. A terminal status of a member never changes, so that what was
true of it stays true. `MembersRefine` maps every step to a step
of `TransactionPromise`, or a stutter, of every member.

`Organization_proofs` has one argument for each of the three parts.

* `SpentHolds` (`SpentStaysSpent`): a spent token has expired, or its entry in Redis, or
  the cutoff if it is an access token, outlives it (`SpentDead`). For the entry this is the
  assumption `OtpLife <= JwtLife`: entries live as long as an *access* token does. For the
  cutoff it needs that no token is signed in the future (`Times`) and that what a removal
  holds was signed no later than its cutoff (`HeldCut`).
* `VerifiedHolds` (`VerifiedMeansOwn`): as long as no sign-up overlapped another request
  (`Untorn`), a sign-up is alone and the row it loaded is the row; all other requests hold a
  row with an own password, if it is verified.
* `OneRowHolds` (`OneRowPerKey`): of a public key that is not contested, whoever is about to
  insert found no row and is the only one (`Absent`, `FoundOnce`). `OwnerHolds`: the row
  of a key never disappears and never changes its owner, hence the name in a report stands.
* `BoundsHold` (`KeysInBounds`): an upload that has counted leaves room for its row beside
  the other live keys of its user, before and after the row is recovered; a user that is
  removed, or about to be, has no upload that could bring a key back (`Bounded`).
* `AnswerHolds` (`AnswerTellsWhatIsLeft`): every request has one number, and what it has saved
  so far is told by its stage (`Told`). `OneActiveHolds`: two requests in flight that
  carry one id overlapped, and as long as none did, a request that has checked and not yet
  saved finds no active row of its ids (`OneEach`).

`OwnerStands` and `KeysInBounds` are proved and not listed in a run.

`SnapshotLog_proofs`: `TypeCorrect`, `LinkHolds`, `TimelineHolds`, `SufficesHolds`,
`SmallestHolds`. The log is only appended
to, so that a row says for ever what it said (`RowsStay`).

* `LinkTellsKey` needs that what a running capture has read was held since its transaction
  ended, and that the row it found or inserted has that content (`Captured`, `Remembered`).
* `TimelineInOrder` needs, of captures in order, that one runs at a time and ends last
  (`Alone`, `Later`); that every row is dated like a capture that has resolved (`Dated`), from
  which dates rise (`Rising`) and the row found is the last one; and that what a capture
  linked is the last row dated no later than its own transaction (`Placed`).
* `ShortListSuffices` and `ShortListIsSmallest` are about what the key algorithms compute, for
  every key and every signers. They hold in every state, so that no invariant is needed, but the
  recursions have to be shown to have a solution first: since no list is inside itself
  (`NestingAssumption`), what holds of public keys and of a list when it holds of its keys holds of
  all keys (`KeysInduct`), two solutions agree (`OneSolution`), and the union
  of the partial ones is one (`Recursion`). `ValidIs`, `FlatIs`, `ShortIs`, `QuorumsAre` and
  `PlainIs` are then the equations the definitions were written as, and the rest is by induction on the key.
  As many lists are taken as are needed (`TakenAre`, which counts the places before each in the
  order); `ShortestIs` pairs every list that is taken with one of a quorum that is no smaller
  (`PairedOff`), and since the quorums of different places share no public key, their
  sizes add up (`FitTogether`).

`ApproverTree_proofs` (from `TreeAssumption`): `TypeCorrect`, `TreeHolds`, `SignedHolds`,
`OnlyMovesHolds`.

* `Above` is a recursion over the rows. `UpInLeast` says what it computes: the least set of
  rows with the row and the list of each. It is proved by induction on the number of rows not yet
  reached, where induction itself is a lemma about sets of numbers (`NatSets`), which
  follows from the facts about finite sets.
* `SignedForItsTransaction` needs that every row keeps a *home*, the transaction that it was
  created for (`Home`): a list and its rows have one home, a root names it, a signature was
  given for it, and what requests and approvals hold agrees with it. Nothing that requests can
  do to one another changes a home, although they may leave a row under no root.
* `TreeIsSound` needs, while no two requests of creators overlapped (`Alone`), that no live row
  is under a deleted one and none is on a cycle (`Sound`: of any live rows, one's list is not
  among them), and
  that what the one request in flight has read is still so (`Fresh`).
* `OnlyMovesStrand` counts: what a list asks for is at most the number of its rows when a
  request that creates, detaches or changes a threshold has written.

Only model-checked: all liveness (`Ends`, `EndsAreTold`, `StatusIsRepaired`,
`MembersEnd`, `MemberEndsAreTold`, `CatchesUp`), which is out of the prover's reach. Every safety
and action property that a passing run checks is stated by a theorem.

## 6. Findings and observations

Findings, each with a run whose counterexample shows it:

1. `LifecycleAllSigned`: overlapping uploads write back the whole bytes they read;
   one signature is lost while both signers are recorded, and the transaction
   waits for signatures for ever.
2. `BatchMaxDelay`: `EMAIL_DEBOUNCE_MAX_FLUSH_MS` is said to be the "maximum time a batch
   can be held before force-flushing" (`apps/notifications/example.env:30`), but it is
   the time to live of the list itself. When messages keep coming, Redis deletes
   the list at its end, the handler of that expiry reads an empty list, and the
   messages are lost.

Observations without a run of their own:

* When a pod dies between submission and update, the others get
  DUPLICATE_TRANSACTION and leave the row for the pod that succeeded
  (`execute.service.ts:170`); the sweep then expires a transaction that consensus
  executed.
* "All transactions in the group need to be valid" (`execute.service.ts:72`) is checked
  after the members that were not ready when the group was read are dropped (`:68`).
* A group is mailed "once all non-CANCELLED members share the same tier"
  (`receiver.service.ts:58-60`), but a last member that ends CANCELED is mailed about
  alone, and one that ends ARCHIVED is not mailed about: the mail that the others waited for is
  not sent. `StageIsMailed` exempts these groups.
* Two pods that handle events of one transaction at once may leave two indicators, or the
  older one: each deletes the indicators that it found, and writes the status that it read.
* `sendInAppNotifications` marks receivers as notified also when the publication failed.
* `archiveTransaction` accepts everything that is in progress or manual, although
  `errorCodes.ts:66` says "Only manual transaction in progress can be archived".
* A cancel does not look at `validStart`, although the comment at
  `transactions.service.ts:884` says it does.
* A refresh whose claim was refused counts as a success for the breaker, so a
  half-open circuit may close without the mirror node having been asked. With one
  job per pod the safety net at `mirror-node-circuit-breaker.service.ts:67` is not
  needed: every attempt is recorded.
* A failed fetch sets `updatedAt` when it releases the claim, so old data counts
  as fresh for one more period.
* When a process dies, or an `INSERT` fails, between the data and its keys, the keys
  stay out of `cached_account_key` until the account changes: later fetches get 304.
* When the record of a group's member throws, the members that end after it are published by
  nobody (`unheard`).
* A cancel may be answered CANCELED and consensus takes the transaction all the same, for an
  executor that had checked the status before.
* The timers of a group ignore `isManual`.
* In an atomic group a member that is too big fails the other members, and is itself
  left open (`transaction-scheduler.service.ts:242`).
* After a failed first fetch of an account, a caller that waited takes the unclaimed row
  without data and returns null ("This should never happen",
  `account-cache.service.ts:107`); the account's key is then missing from the
  required keys.
* A flush of the batcher reads the list and deletes it in two commands: a message
  that is pushed in between is deleted unread. Its third command deletes the flush key,
  which may be that of the *next* list; that list is then left to its time to live,
  and lost.
* An add that fills the list flushes without the lock, so that it and a handler may
  send the same messages.
* The lock of a handler lasts 1000 ms and is deleted without a look at who set it; after
  a slow Redis or pod, two handlers may be in the flush. A flush key that expires
  while the lock is held is ignored for good, and its list left to its time to live.

* Approvers: moving a row to another list, or removing it, may leave the list it was in with
  a threshold that its rows cannot reach (`OnlyMovesStrand` says that nothing else does);
  detaching lowers the threshold.
* Creating approvers refuses a threshold of zero and one above the number of rows
  (`approvers.service.ts:306-310`), but not a negative one, which nobody needs to meet; the
  update has `@Min(1)`, the create has not.
* Two overlapping moves may put two lists under each other. The recursive queries use
  `UNION ALL` and never end on such rows.
* An approver whose user is changed keeps the signature and the approval of the previous
  one: they are set to `undefined` (`approvers.service.ts:509`), which an update leaves out.
* Approvers are behind a disabled feature flag in the front-end (`docs/test-scenarios.md:1011`,
  at the repository's root); the API is not.
* Snapshots: the ends of one sweep are captured at once (`Promise.all`), so that several may read
  the same latest row and insert it again, although "a new row is written only when the key
  or receiverSignatureRequired changes" (`account-snapshot.entity.ts:14`); a capture that
  comes late, or a cache that is refreshed late, makes the lookup by `createdAt` name another
  key. Reports read through the links, which stay right (`LinkTellsKey`).
* A transaction that is executed and archived may be linked to two rows.
* The shortened list is not "the smallest set" (`key.ts:88`) when a public key occurs twice
  in a key; `ShortListIsSmallest` leaves these keys out. A key that is an empty list is
  answered by an empty list and not by `null`.
* Every save of a user writes back the row that was loaded: an update that overlaps a removal
  brings the user back, and one that overlaps a change of the password
  restores the old one.
* Tokens of the password reset name no user id, and the cutoff of a removed user does not
  apply to them. A login in the very second of a removal and a new sign-up gets a token that is
  refused.
* Transactions of a group outlive a failure of the save of their group, and a retry
  of the request is refused because they exist. Two requests that check one id before either
  inserts both create it. Ids that one request repeats are not compared
  with each other. A failed reminder is answered by an error although the transactions are
  saved.
* The limit of keys is checked against the user that the guard loaded: overlapping uploads
  exceed it. Two uploads of a new public key both insert it, although
  `signing-report.service.ts:463` says that a public key has at most one row.
* An index of 0 of a stored key counts as none, and the hash of the recovery phrase is not
  compared, although `user-keys.service.ts:57` says so.

Described, and not ruled out. Some hazards of `PROJECT.json` are defects or limits that
the code has, so that no property could hold without leaving the case out. Their properties
say what holds up to that case, and the hazard's note says what is left out:

* The promise permits what the code does not prevent: consensus takes a transaction that was
  canceled after an executor's check, a receipt that is lost is recorded as FAILED, and an
  archive by id writes over an end that another actor has just written.
* A history variable takes the case out of the formula: two uploads of one public key
  (`contested`), requests of one user at once (`crowded`), a sign-up that overlaps
  (`torn`), requests of creators, or creations of one transaction id, that overlap
  (`overlapped`), captures that overlap (`inOrder`), two pods that handle one transaction
  (`met`), a handler or statement that failed (`past` of the notifications), a crash or a
  lock that ran out (`past` of the batcher), an error in the database between the data
  of an account and its keys (`faults`).
* The formula names an operation: only moving or removing an approver strands a threshold; a
  request whose group could not be saved leaves all of its transactions, or none.

## 7. What is not modelled

Because it would have to be made up: the change requests of reviewer groups and rules
are created and stay `PENDING`; the votes that would apply or reject one, and every deletion,
are documented in the entities and not written yet. What there is (a request for
each group, kept alone by a unique index) is a statement of PostgreSQL.

Because there is no state shared between steps to go wrong:
controllers, guards, pipes and interceptors (stateless; what the guards of a
token check is in `Accounts`); observers, notification
preferences and receivers of the API (single-row operations); the queries and layout of signing
reports; schema and SDK adapters (data without control); mail and
websocket delivery (one call each); reminders (one Redis key, one event); the
front-end (its server-visible actions are the API requests here); automation,
charts and build files. These are most of the repository by lines: the map
covers the concurrent core of the back-end and no user interface.

External and modelled by how the code uses them: PostgreSQL statements are atomic;
MurLock gives a lock with a time to live that only its owner releases (one key per
group: the key expression of `executeTransactionGroup` is taken to be evaluated);
the Hedera network takes a transaction id at most once; the mirror node's versions
do not go back.

Within the modelled components: removal of transactions by id, reads, the
scheduling of sign reminders, links of transactions to cached rows, node rows and node snapshots (the
same code, without keys or `receiverSignatureRequired`), batches of several rows in one refresh
job; recipients, preferences and update events of the receiver; the status of the
transaction and the signature check in requests about approvers; hashing, the older
password format that a login converts (`users.service.ts:66-77`), mails and
throttling of accounts (a login that converts saves the whole row with status NONE, so that
an account with a temporary password of that format would count as verified; no code of
today writes such a hash); the encoding and equality of keys.

## 8. Plan

The modules of the plan are written. What could follow:

1. The recipients of notifications and their preferences, in `StatusNotifications`.
2. The refresh job with several rows and the events for the transactions whose accounts
   changed, in `CacheRefresh`.
3. Reviewer groups, once their votes are written.

Runs are kept to one per distinct question. `LifecycleRepair` stays apart from
`LifecyclePromise` because its property is about a clock that stands at the
valid start and needs two uploads.
