--------------------------- MODULE SnapshotLog_proofs ---------------------------
(***************************************************************************)
(* What holds of the log of account keys for every number of transactions, *)
(* captures, keys, changes of the cache and moments, and of the keys       *)
(* themselves, nested to any depth.                                        *)
(***************************************************************************)
EXTENDS SnapshotLog, FiniteSetTheorems, FunctionTheorems, SequenceTheorems, TLAPS

-----------------------------------------------------------------------------
(* Types *)

Stages == {"idle", "links", "find", "resolve", "link", "done"}
CaptureStates == [pc : Stages, at : Nat, read : Held, latest : Nat]
LogRows == [key : Keys, receiver : BOOLEAN, createdAt : Nat]

LEMMA LogIs ==
  ASSUME TypeOK
  PROVE  /\ log \in Seq(LogRows) /\ Len(log) \in Nat /\ DOMAIN log = 1 .. Len(log)
         /\ \A i \in DOMAIN log : /\ log[i] \in LogRows /\ log[i].createdAt \in Nat
                                  /\ log[i].key \in Keys /\ log[i].receiver \in BOOLEAN
<1>1. log \in Seq(LogRows)
  BY DEF TypeOK, LogRows
<1>2. Len(log) \in Nat /\ DOMAIN log = 1 .. Len(log) /\ \A i \in DOMAIN log : log[i] \in LogRows
  BY <1>1
<1> QED
  BY <1>1, <1>2 DEF LogRows

LEMMA CaptureIs ==
  ASSUME TypeOK
  PROVE  /\ capture \in [Captures -> CaptureStates]
         /\ \A c \in Captures :
              /\ capture[c] \in CaptureStates /\ capture[c].pc \in Stages
              /\ capture[c].at \in Nat /\ capture[c].read \in Held
              /\ capture[c].latest \in Nat /\ capture[c].latest \in 0 .. Len(log)
              /\ For[c] \in Transactions
<1>1. capture \in [Captures -> CaptureStates]
  BY DEF TypeOK, CaptureStates, Stages
<1>2. \A c \in Captures : capture[c] \in CaptureStates
  BY <1>1
<1>3. \A c \in Captures : For[c] \in Transactions
  BY SnapshotAssumption
<1>4. \A c \in Captures : capture[c].latest \in 0 .. Len(log)
  BY DEF TypeOK
<1> QED
  BY <1>1, <1>2, <1>3, <1>4 DEF CaptureStates

(* A capture's step leaves it with these fields, and the other captures     *)
(* alone.                                                                   *)
Moves(c, pc, at, read, latest) ==
  /\ capture' \in [Captures -> CaptureStates]
  /\ capture'[c].pc = pc /\ capture'[c].at = at
  /\ capture'[c].read = read /\ capture'[c].latest = latest
  /\ \A d \in Captures : d # c => capture'[d] = capture[d]

LEMMA Moved ==
  ASSUME TypeOK, NEW c \in Captures, NEW w,
         w.pc \in Stages, w.at \in Nat, w.read \in Held, w.latest \in Nat,
         w \in CaptureStates,
         capture' = [capture EXCEPT ![c] = w]
  PROVE  Moves(c, w.pc, w.at, w.read, w.latest)
BY CaptureIs DEF Moves

(* What every step of a capture does to it.                                 *)
LEMMA EndMoves ==
  ASSUME TypeOK, NEW c \in Captures, End(c)
  PROVE  Moves(c, "links", clock, capture[c].read, capture[c].latest)
<1> DEFINE w == [capture[c] EXCEPT !.pc = "links", !.at = clock]
<1>1. "links" \in Stages /\ clock \in Nat
  BY DEF Stages, TypeOK
<1>2. /\ w \in CaptureStates /\ w.pc = "links" /\ w.at = clock
      /\ w.read = capture[c].read /\ w.latest = capture[c].latest
  BY <1>1, CaptureIs DEF CaptureStates
<1>3. capture' = [capture EXCEPT ![c] = w]
  BY DEF End
<1>4. Moves(c, w.pc, w.at, w.read, w.latest)
  <2> HIDE DEF w
  <2> QED
    BY <1>1, <1>2, <1>3, CaptureIs, Moved
<1> QED
  BY <1>2, <1>4

LEMMA ReadMoves ==
  ASSUME TypeOK, NEW c \in Captures, ReadCache(c)
  PROVE  Moves(c, IF cached.key = NoKey THEN "done" ELSE "find", capture[c].at, cached,
               capture[c].latest)
<1> DEFINE stage == IF cached.key = NoKey THEN "done" ELSE "find"
           w == [capture[c] EXCEPT !.read = cached, !.pc = stage]
<1>1. stage \in Stages /\ cached \in Held
  BY DEF Stages, TypeOK
<1>3. capture' = [capture EXCEPT ![c] = w]
  BY DEF ReadCache
<1> HIDE DEF stage
<1>2. /\ w \in CaptureStates /\ w.pc = stage /\ w.at = capture[c].at
      /\ w.read = cached /\ w.latest = capture[c].latest
  BY <1>1, CaptureIs DEF CaptureStates
<1>4. Moves(c, w.pc, w.at, w.read, w.latest)
  <2> HIDE DEF w
  <2> QED
    BY <1>1, <1>2, <1>3, CaptureIs, Moved
<1>5. Moves(c, stage, capture[c].at, cached, capture[c].latest)
  BY <1>2, <1>4
<1> QED
  BY <1>5 DEF stage

LEMMA StageMoves ==
  ASSUME TypeOK, NEW c \in Captures, NEW stage \in Stages,
         capture' = [capture EXCEPT ![c].pc = stage]
  PROVE  Moves(c, stage, capture[c].at, capture[c].read, capture[c].latest)
<1> DEFINE w == [capture[c] EXCEPT !.pc = stage]
<1>2. /\ w \in CaptureStates /\ w.pc = stage /\ w.at = capture[c].at
      /\ w.read = capture[c].read /\ w.latest = capture[c].latest
  BY CaptureIs DEF CaptureStates
<1>3. capture' = [capture EXCEPT ![c] = w]
  OBVIOUS
<1>4. Moves(c, w.pc, w.at, w.read, w.latest)
  <2> HIDE DEF w
  <2> QED
    BY <1>2, <1>3, CaptureIs, Moved
<1> QED
  BY <1>2, <1>4

LEMMA LatestMoves ==
  ASSUME TypeOK, NEW c \in Captures, NEW stage \in Stages, NEW id \in Nat,
         \/ capture' = [capture EXCEPT ![c].latest = id, ![c].pc = stage]
         \/ capture' = [capture EXCEPT ![c].pc = stage, ![c].latest = id]
  PROVE  Moves(c, stage, capture[c].at, capture[c].read, id)
<1> DEFINE v == [capture[c] EXCEPT !.latest = id, !.pc = stage]
           w == [capture[c] EXCEPT !.pc = stage, !.latest = id]
<1>1. /\ v \in CaptureStates /\ v.pc = stage /\ v.at = capture[c].at
      /\ v.read = capture[c].read /\ v.latest = id
  BY CaptureIs DEF CaptureStates
<1>2. /\ w \in CaptureStates /\ w.pc = stage /\ w.at = capture[c].at
      /\ w.read = capture[c].read /\ w.latest = id
  BY CaptureIs DEF CaptureStates
<1>3. capture' = [capture EXCEPT ![c] = v] \/ capture' = [capture EXCEPT ![c] = w]
  OBVIOUS
<1>4. \/ Moves(c, v.pc, v.at, v.read, v.latest)
      \/ Moves(c, w.pc, w.at, w.read, w.latest)
  <2> HIDE DEF v, w
  <2> QED
    BY <1>1, <1>2, <1>3, CaptureIs, Moved
<1> QED
  BY <1>1, <1>2, <1>4

LEMMA LatestIs ==
  ASSUME TypeOK, NEW id \in Latest(DOMAIN log)
  PROVE  id \in 0 .. Len(log)
<1>1. CASE DOMAIN log = {}
  BY <1>1, LogIs DEF Latest
<1>2. CASE DOMAIN log # {}
  BY <1>2, LogIs DEF Latest
<1> QED
  BY <1>1, <1>2

LEMMA FindMoves ==
  ASSUME TypeOK, NEW c \in Captures, FindLatest(c)
  PROVE  \E id \in Latest(DOMAIN log) :
           Moves(c, "resolve", capture[c].at, capture[c].read, id)
<1>1. PICK id \in Latest(DOMAIN log) :
        capture' = [capture EXCEPT ![c].latest = id, ![c].pc = "resolve"]
  BY DEF FindLatest
<1>2. id \in Nat /\ "resolve" \in Stages
  BY LatestIs, LogIs DEF Stages
<1>3. Moves(c, "resolve", capture[c].at, capture[c].read, id)
  BY <1>1, <1>2, LatestMoves
<1> QED
  BY <1>3

LEMMA ResolveMoves ==
  ASSUME TypeOK, NEW c \in Captures, Resolve(c)
  PROVE  \/ /\ SameAsLatest(c) /\ log' = log
            /\ Moves(c, "link", capture[c].at, capture[c].read, capture[c].latest)
         \/ /\ ~SameAsLatest(c) /\ log' = Append(log, NewRow(c))
            /\ Moves(c, "link", capture[c].at, capture[c].read, Len(log) + 1)
<1>1. "link" \in Stages /\ Len(log) + 1 \in Nat
  BY LogIs DEF Stages
<1>2. CASE SameAsLatest(c) /\ capture' = [capture EXCEPT ![c].pc = "link"] /\ log' = log
  BY <1>1, <1>2, StageMoves
<1>3. CASE /\ ~SameAsLatest(c) /\ log' = Append(log, NewRow(c))
           /\ capture' = [capture EXCEPT ![c].latest = Len(log) + 1, ![c].pc = "link"]
  BY <1>1, <1>3, LatestMoves
<1> QED
  BY <1>2, <1>3 DEF Resolve

LEMMA LinkMoves ==
  ASSUME TypeOK, NEW c \in Captures, Link(c)
  PROVE  Moves(c, "done", capture[c].at, capture[c].read, capture[c].latest)
<1>1. "done" \in Stages /\ capture' = [capture EXCEPT ![c].pc = "done"]
  BY DEF Link, Stages
<1> QED
  BY <1>1, StageMoves

LEMMA FailMoves ==
  ASSUME TypeOK, NEW c \in Captures, CaptureFails(c)
  PROVE  Moves(c, "done", capture[c].at, capture[c].read, 0)
<1>1. "done" \in Stages /\ 0 \in Nat
      /\ capture' = [capture EXCEPT ![c].pc = "done", ![c].latest = 0]
  BY DEF CaptureFails, Stages
<1> QED
  BY <1>1, LatestMoves

-----------------------------------------------------------------------------
(* The log is only appended to. *)

(* The key that a capture is going to insert is one.                        *)
ReadsAKey ==
  \A c \in Captures : capture[c].pc \in {"find", "resolve", "link"} => capture[c].read.key # NoKey

LEMMA NewRowIs ==
  ASSUME TypeOK, ReadsAKey, NEW c \in Captures, capture[c].pc = "resolve"
  PROVE  /\ NewRow(c) \in LogRows
         /\ NewRow(c).key = capture[c].read.key
         /\ NewRow(c).receiver = capture[c].read.receiver
         /\ NewRow(c).createdAt = capture[c].at
<1>1. capture[c].read \in Held /\ capture[c].at \in Nat /\ capture[c].read.key # NoKey
  BY CaptureIs DEF ReadsAKey
<1>2. capture[c].read.key \in Keys /\ capture[c].read.receiver \in BOOLEAN
  BY <1>1 DEF Held
<1> QED
  BY <1>1, <1>2 DEF NewRow, LogRows

LEMMA Grown ==
  ASSUME TypeOK, NEW row \in LogRows, log' = Append(log, row)
  PROVE  /\ log' \in Seq(LogRows) /\ Len(log)' = Len(log) + 1
         /\ DOMAIN log' = 1 .. Len(log) + 1
         /\ \A i \in DOMAIN log : i \in DOMAIN log' /\ log'[i] = log[i]
         /\ log'[Len(log) + 1] = row
BY LogIs

(* A step leaves the log alone, or appends what a capture resolved.         *)
LEMMA LogWrites ==
  ASSUME [Next]_vars
  PROVE  log' = log \/ \E c \in Captures : Resolve(c)
BY DEF Next, vars, Rotate, Tick, End, ReadCache, FindLatest, Link, CaptureFails

LEMMA RowsStay ==
  ASSUME TypeOK, ReadsAKey, [Next]_vars
  PROVE  /\ log' \in Seq(LogRows) /\ Len(log)' \in Nat /\ Len(log) <= Len(log)'
         /\ \A i \in DOMAIN log : i \in DOMAIN log' /\ log'[i] = log[i] /\ Content(i)' = Content(i)
<1>1. CASE log' = log
  BY <1>1, LogIs DEF Content
<1>2. ASSUME NEW c \in Captures, Resolve(c), log' # log
      PROVE  /\ log' \in Seq(LogRows) /\ Len(log)' \in Nat /\ Len(log) <= Len(log)'
             /\ \A i \in DOMAIN log : i \in DOMAIN log' /\ log'[i] = log[i]
  <2>1. capture[c].pc = "resolve" /\ log' = Append(log, NewRow(c))
    BY <1>2 DEF Resolve
  <2>2. NewRow(c) \in LogRows
    BY <2>1, NewRowIs
  <2> QED
    BY <2>1, <2>2, Grown, LogIs
<1> QED
  BY <1>1, <1>2, LogWrites DEF Content

-----------------------------------------------------------------------------
(* What a link tells *)

(* Progress of a capture: what it has read is what the cache held since its *)
(* transaction ended, and the row it found or inserted says so.             *)
Steady(c) ==
  /\ capture[c].pc \in {"idle", "links"} => capture[c].latest = 0
  /\ capture[c].pc \in {"find", "resolve", "link"} =>
       capture[c].read \in since[For[c]] /\ capture[c].read.key # NoKey
  /\ capture[c].pc = "link" => capture[c].latest # 0
  /\ capture[c].pc \in {"link", "done"} /\ capture[c].latest # 0 =>
       Content(capture[c].latest) = capture[c].read
  /\ capture[c].pc # "idle" => executedAt[For[c]] # 0

Captured == \A c \in Captures : Steady(c)

Remembered == \A t \in Transactions : executedAt[t] # 0 => cached \in since[t]

Linked ==
  \A l \in links : executedAt[l.t] # 0 /\ Content(l.snapshot) \in since[l.t]

Tells == TypeOK /\ Captured /\ Remembered /\ Linked

LEMMA CapturedReads ==
  ASSUME Captured
  PROVE  ReadsAKey
BY DEF Captured, Steady, ReadsAKey

(* What was held is remembered, and a transaction that ended has ended.     *)
LEMMA SinceGrows ==
  ASSUME TypeOK, [Next]_vars, NEW t \in Transactions, executedAt[t] # 0
  PROVE  executedAt'[t] # 0 /\ since[t] \subseteq since'[t]
<1>1. clock # 0 /\ executedAt \in [Transactions -> 0 .. LastTime]
      /\ since \in [Transactions -> SUBSET Held]
  BY DEF TypeOK
<1>2. CASE Rotate
  BY <1>2 DEF Rotate
<1>3. ASSUME NEW c \in Captures, End(c)
      PROVE  executedAt'[t] # 0 /\ since[t] \subseteq since'[t]
  BY <1>1, <1>3 DEF End
<1>4. CASE UNCHANGED <<executedAt, since>>
  BY <1>4
<1> QED
  BY <1>2, <1>3, <1>4 DEF Next, vars, Tick, ReadCache, FindLatest, Resolve, Link, CaptureFails

LEMMA RememberedNext ==
  ASSUME TypeOK, Remembered, [Next]_vars
  PROVE  Remembered'
<1>1. CASE Rotate
  BY <1>1 DEF Rotate, Remembered
<1>2. ASSUME NEW c \in Captures, End(c)
      PROVE  Remembered'
  BY <1>2 DEF End, Remembered, TypeOK
<1>3. CASE UNCHANGED <<executedAt, since, cached>>
  BY <1>3 DEF Remembered
<1> QED
  BY <1>1, <1>2, <1>3 DEF Next, vars, Tick, ReadCache, FindLatest, Resolve, Link, CaptureFails

(* A capture that does not move stays steady.                               *)
LEMMA StaysSteady ==
  ASSUME TypeOK, Captured, [Next]_vars, NEW d \in Captures, capture'[d] = capture[d]
  PROVE  Steady(d)'
<1>1. Steady(d) /\ For[d] \in Transactions /\ capture[d].latest \in 0 .. Len(log)
  BY CaptureIs DEF Captured
<1>2. executedAt[For[d]] # 0 => executedAt'[For[d]] # 0 /\ since[For[d]] \subseteq since'[For[d]]
  BY <1>1, SinceGrows
<1>3. capture[d].latest # 0 => Content(capture[d].latest)' = Content(capture[d].latest)
  <2>1. capture[d].latest # 0 => capture[d].latest \in DOMAIN log
    BY <1>1, LogIs
  <2>2. \A i \in DOMAIN log : Content(i)' = Content(i)
    BY CapturedReads, RowsStay
  <2> QED
    BY <2>1, <2>2 DEF Content
<1> QED
  BY <1>1, <1>2, <1>3 DEF Steady

LEMMA CapturedNext ==
  ASSUME Tells, [Next]_vars
  PROVE  Captured'
<1> TypeOK /\ Captured /\ Remembered
  BY DEF Tells
<1>1. ASSUME NEW c \in Captures, Steady(c)',
             \A d \in Captures : d # c => capture'[d] = capture[d]
      PROVE  Captured'
  <2>1. \A d \in Captures : d # c => Steady(d)'
    BY <1>1, StaysSteady
  <2> QED
    BY <1>1, <2>1 DEF Captured
<1>2. CASE UNCHANGED capture
  BY <1>2, StaysSteady DEF Captured
<1>3. ASSUME NEW c \in Captures, End(c)
      PROVE  Captured'
  <2>1. Moves(c, "links", clock, capture[c].read, capture[c].latest)
    BY <1>3, EndMoves
  <2>2. capture[c].latest = 0
    BY <1>3 DEF End, Captured, Steady
  <2>3. executedAt'[For[c]] # 0
    BY <1>3, CaptureIs DEF End, TypeOK
  <2>4. Steady(c)'
    BY <2>1, <2>2, <2>3 DEF Moves, Steady
  <2> QED
    BY <1>1, <2>1, <2>4 DEF Moves
<1>4. ASSUME NEW c \in Captures, ReadCache(c)
      PROVE  Captured'
  <2>1. Moves(c, IF cached.key = NoKey THEN "done" ELSE "find", capture[c].at, cached,
              capture[c].latest)
    BY <1>4, ReadMoves
  <2>2. capture[c].latest = 0 /\ executedAt[For[c]] # 0
    BY <1>4 DEF ReadCache, Captured, Steady
  <2>3. cached \in since[For[c]]
    BY <2>2, CaptureIs DEF Remembered
  <2>4. UNCHANGED <<executedAt, since>>
    BY <1>4 DEF ReadCache
  <2>5. Steady(c)'
    BY <2>1, <2>2, <2>3, <2>4 DEF Moves, Steady
  <2> QED
    BY <1>1, <2>1, <2>5 DEF Moves
<1>5. ASSUME NEW c \in Captures, FindLatest(c)
      PROVE  Captured'
  <2>1. PICK id \in Latest(DOMAIN log) :
          Moves(c, "resolve", capture[c].at, capture[c].read, id)
    BY <1>5, FindMoves
  <2>2. UNCHANGED <<executedAt, since>> /\ capture[c].pc = "find"
    BY <1>5 DEF FindLatest
  <2>3. Steady(c)'
    BY <2>1, <2>2 DEF Moves, Steady, Captured
  <2> QED
    BY <1>1, <2>1, <2>3 DEF Moves
<1>6. ASSUME NEW c \in Captures, Resolve(c)
      PROVE  Captured'
  <2>1. UNCHANGED <<executedAt, since>> /\ capture[c].pc = "resolve"
    BY <1>6 DEF Resolve
  <2>2. /\ capture[c].read \in since[For[c]] /\ capture[c].read.key # NoKey
        /\ executedAt[For[c]] # 0
    BY <2>1 DEF Captured, Steady
  <2>3. CASE /\ SameAsLatest(c) /\ log' = log
             /\ Moves(c, "link", capture[c].at, capture[c].read, capture[c].latest)
    <3>1. Steady(c)'
      BY <2>1, <2>2, <2>3 DEF Moves, Steady, SameAsLatest, Content
    <3> QED
      BY <1>1, <2>3, <3>1 DEF Moves
  <2>4. CASE /\ log' = Append(log, NewRow(c))
             /\ Moves(c, "link", capture[c].at, capture[c].read, Len(log) + 1)
    <3>1. /\ NewRow(c) \in LogRows /\ NewRow(c).key = capture[c].read.key
          /\ NewRow(c).receiver = capture[c].read.receiver
      BY <2>1, CapturedReads, NewRowIs
    <3>2. log'[Len(log) + 1] = NewRow(c)
      BY <2>4, <3>1, Grown
    <3>3. PICK n : n = Len(log) + 1
      OBVIOUS
    <3>4. [key |-> log'[n].key, receiver |-> log'[n].receiver] = capture[c].read
      BY <3>1, <3>2, <3>3, CaptureIs DEF Held
    <3>5. /\ capture'[c].pc = "link" /\ capture'[c].read = capture[c].read
          /\ capture'[c].latest = n /\ n # 0
      BY <2>4, <3>3, LogIs DEF Moves
    <3>6. Content(capture[c].latest)' = capture[c].read
      BY <3>4, <3>5 DEF Content
    <3>7. Steady(c)'
      BY <2>1, <2>2, <3>5, <3>6 DEF Steady
    <3> QED
      BY <1>1, <2>4, <3>7 DEF Moves
  <2> QED
    BY <1>6, <2>3, <2>4, ResolveMoves
<1>7. ASSUME NEW c \in Captures, Link(c)
      PROVE  Captured'
  <2>1. Moves(c, "done", capture[c].at, capture[c].read, capture[c].latest)
    BY <1>7, LinkMoves
  <2>2. UNCHANGED <<executedAt, since, log>> /\ capture[c].pc = "link"
    BY <1>7 DEF Link
  <2>3. Steady(c)'
    BY <2>1, <2>2 DEF Moves, Steady, Captured, Content
  <2> QED
    BY <1>1, <2>1, <2>3 DEF Moves
<1>8. ASSUME NEW c \in Captures, CaptureFails(c)
      PROVE  Captured'
  <2>1. Moves(c, "done", capture[c].at, capture[c].read, 0)
    BY <1>8, FailMoves
  <2>2. UNCHANGED <<executedAt, since>> /\ capture[c].pc # "idle"
    BY <1>8 DEF CaptureFails
  <2>3. Steady(c)'
    BY <2>1, <2>2 DEF Moves, Steady, Captured
  <2> QED
    BY <1>1, <2>1, <2>3 DEF Moves
<1> QED
  BY <1>2, <1>3, <1>4, <1>5, <1>6, <1>7, <1>8 DEF Next, vars, Rotate, Tick

LEMMA LinkedNext ==
  ASSUME Tells, [Next]_vars
  PROVE  Linked'
<1> TypeOK /\ Captured /\ Linked
  BY DEF Tells
<1>1. ASSUME NEW l \in links
      PROVE  executedAt'[l.t] # 0 /\ Content(l.snapshot)' \in since'[l.t]
  <2>1. l.t \in Transactions /\ l.snapshot \in DOMAIN log
    BY DEF TypeOK
  <2>2. executedAt'[l.t] # 0 /\ since[l.t] \subseteq since'[l.t]
    BY <2>1, SinceGrows DEF Linked
  <2>3. Content(l.snapshot)' = Content(l.snapshot)
    BY <2>1, CapturedReads, RowsStay
  <2> QED
    BY <2>2, <2>3 DEF Linked
<1>2. CASE links' = links
  BY <1>1, <1>2 DEF Linked, Content
<1>3. ASSUME NEW c \in Captures, Link(c)
      PROVE  Linked'
  <2>0. PICK new : new = [t |-> For[c], snapshot |-> capture[c].latest]
    OBVIOUS
  <2>1. links' = links \cup {new} /\ UNCHANGED <<executedAt, since, log>>
    BY <1>3, <2>0 DEF Link
  <2>2. /\ Content(capture[c].latest) \in since[For[c]] /\ executedAt[For[c]] # 0
    BY <1>3 DEF Link, Captured, Steady
  <2>3. new.t = For[c] /\ new.snapshot = capture[c].latest
    BY <2>0
  <2>4. executedAt'[new.t] # 0 /\ Content(new.snapshot)' \in since'[new.t]
    BY <2>1, <2>2, <2>3 DEF Content
  <2> QED
    BY <1>1, <2>1, <2>4 DEF Linked, Content
<1> QED
  BY <1>2, <1>3 DEF Next, vars, Rotate, Tick, End, ReadCache, FindLatest, Resolve, CaptureFails

LEMMA TypeNext ==
  ASSUME Tells, [Next]_vars
  PROVE  TypeOK'
<1> TypeOK /\ Captured
  BY DEF Tells
<1>1. clock' \in 1 .. LastTime
  <2>1. clock' = clock \/ Tick
    BY DEF Next, vars, Rotate, End, ReadCache, FindLatest, Resolve, Link, CaptureFails
  <2> QED
    BY <2>1, SnapshotAssumption DEF TypeOK, Tick
<1>2. cached' \in Held
  <2>1. CASE Rotate
    <3>1. cached \in Held /\ Rotated[cached.key] \in Keys /\ cached.receiver \in BOOLEAN
      BY SnapshotAssumption DEF TypeOK, Held
    <3>2. CASE cached' = [cached EXCEPT !.key = Rotated[cached.key]]
      BY <3>1, <3>2 DEF Held
    <3>3. CASE cached' = [cached EXCEPT !.receiver = ~cached.receiver]
      BY <3>1, <3>3 DEF Held
    <3> QED
      BY <2>1, <3>2, <3>3 DEF Rotate
  <2>2. CASE cached' = cached
    BY <2>2 DEF TypeOK
  <2> QED
    BY <2>1, <2>2 DEF Next, vars, Tick, End, ReadCache, FindLatest, Resolve, Link, CaptureFails
<1>3. executedAt' \in [Transactions -> 0 .. LastTime]
  <2>1. ASSUME NEW c \in Captures, End(c)
        PROVE  executedAt' \in [Transactions -> 0 .. LastTime]
    <3>1. clock \in 0 .. LastTime
      BY SnapshotAssumption DEF TypeOK
    <3> QED
      BY <2>1, <3>1 DEF End, TypeOK
  <2> QED
    BY <2>1 DEF TypeOK, Next, vars, Rotate, Tick, ReadCache, FindLatest, Resolve, Link, CaptureFails
<1>4. /\ log' \in Seq(LogRows) /\ Len(log)' \in Nat /\ Len(log) <= Len(log)' /\ Len(log) \in Nat
      /\ \A i \in DOMAIN log : i \in DOMAIN log'
  BY CapturedReads, RowsStay, LogIs
<1>5. /\ capture' \in [Captures -> CaptureStates]
      /\ \A c \in Captures : capture'[c].latest \in 0 .. Len(log)'
  <2> DEFINE Fits == /\ capture' \in [Captures -> CaptureStates]
                     /\ \A c \in Captures : capture'[c].latest \in 0 .. Len(log)'
  <2>0. \A c \in Captures : capture[c].latest \in 0 .. Len(log)'
    BY <1>4, CaptureIs
  <2>1. CASE UNCHANGED capture
    BY <2>0, <2>1, CaptureIs
  <2>2. ASSUME NEW c \in Captures, NEW pc, NEW at, NEW read, NEW latest \in 0 .. Len(log)',
               Moves(c, pc, at, read, latest)
        PROVE  Fits
    BY <2>0, <2>2 DEF Moves
  <2> HIDE DEF Fits
  <2>3. ASSUME NEW c \in Captures, End(c)
        PROVE  Fits
    BY <2>0, <2>2, <2>3, EndMoves
  <2>4. ASSUME NEW c \in Captures, ReadCache(c)
        PROVE  Fits
    BY <2>0, <2>2, <2>4, ReadMoves
  <2>5. ASSUME NEW c \in Captures, FindLatest(c)
        PROVE  Fits
    <3>1. PICK id \in Latest(DOMAIN log) :
            Moves(c, "resolve", capture[c].at, capture[c].read, id)
      BY <2>5, FindMoves
    <3>2. id \in 0 .. Len(log)'
      BY <1>4, LatestIs
    <3> QED
      BY <2>2, <3>1, <3>2
  <2>6. ASSUME NEW c \in Captures, Resolve(c)
        PROVE  Fits
    <3>1. CASE Moves(c, "link", capture[c].at, capture[c].read, capture[c].latest)
      BY <2>0, <2>2, <3>1
    <3>2. CASE /\ log' = Append(log, NewRow(c))
               /\ Moves(c, "link", capture[c].at, capture[c].read, Len(log) + 1)
      <4>1. NewRow(c) \in LogRows
        BY <2>6, CapturedReads, NewRowIs DEF Resolve
      <4>2. Len(log) + 1 \in 0 .. Len(log)'
        BY <1>4, <3>2, <4>1, Grown
      <4> QED
        BY <2>2, <3>2, <4>2
    <3> QED
      BY <2>6, <3>1, <3>2, ResolveMoves
  <2>7. ASSUME NEW c \in Captures, Link(c)
        PROVE  Fits
    BY <2>0, <2>2, <2>7, LinkMoves
  <2>8. ASSUME NEW c \in Captures, CaptureFails(c)
        PROVE  Fits
    <3>1. 0 \in 0 .. Len(log)'
      BY <1>4
    <3> QED
      BY <2>2, <2>8, <3>1, FailMoves
  <2>9. UNCHANGED capture \/ Fits
    BY <2>3, <2>4, <2>5, <2>6, <2>7, <2>8 DEF Next, vars, Rotate, Tick
  <2> QED
    BY <2>1, <2>9 DEF Fits
<1>6. links' \subseteq [t : Transactions, snapshot : DOMAIN log']
  <2>1. links \subseteq [t : Transactions, snapshot : DOMAIN log']
    BY <1>4 DEF TypeOK
  <2>2. ASSUME NEW c \in Captures, Link(c)
        PROVE  links' \subseteq [t : Transactions, snapshot : DOMAIN log']
    <3>1. capture[c].latest \in DOMAIN log /\ For[c] \in Transactions
      BY <2>2, CaptureIs, LogIs DEF Link, Captured, Steady
    <3>2. links' = links \cup {[t |-> For[c], snapshot |-> capture[c].latest]}
      BY <2>2 DEF Link
    <3> QED
      BY <1>4, <2>1, <3>1, <3>2
  <2> QED
    BY <2>1, <2>2 DEF Next, vars, Rotate, Tick, End, ReadCache, FindLatest, Resolve, CaptureFails
<1>7. since' \in [Transactions -> SUBSET Held]
  <2>1. CASE Rotate
    BY <1>2, <2>1 DEF Rotate, TypeOK
  <2>2. ASSUME NEW c \in Captures, End(c)
        PROVE  since' \in [Transactions -> SUBSET Held]
    BY <2>2 DEF End, TypeOK
  <2> QED
    BY <2>1, <2>2 DEF TypeOK, Next, vars, Tick, ReadCache, FindLatest, Resolve, Link, CaptureFails
<1>8. rotations' \in 0 .. MaxRotations
  <2>1. rotations' = rotations \/ Rotate
    BY DEF Next, vars, Tick, End, ReadCache, FindLatest, Resolve, Link, CaptureFails
  <2> QED
    BY <2>1, SnapshotAssumption DEF TypeOK, Rotate
<1>9. inOrder' \in BOOLEAN
  BY DEF TypeOK, Next, vars, Rotate, Tick, End, ReadCache, FindLatest, Resolve, Link, CaptureFails
<1> QED
  BY <1>1, <1>2, <1>3, <1>4, <1>5, <1>6, <1>7, <1>8, <1>9
     DEF TypeOK, CaptureStates, Stages, LogRows

LEMMA TellsInit ==
  ASSUME Init
  PROVE  Tells
<1>1. /\ capture \in [Captures -> CaptureStates] /\ \A c \in Captures : capture[c] = IdleCapture
      /\ IdleCapture.pc = "idle" /\ IdleCapture.latest = 0
  BY DEF Init, IdleCapture, Unread, CaptureStates, Stages, Held
<1>2. cached \in Held
  BY DEF Init, Held
<1>3. log = <<>> /\ links = {} /\ log \in Seq(LogRows) /\ Len(log) = 0
  BY DEF Init
<1>4. TypeOK
  BY <1>1, <1>2, <1>3, SnapshotAssumption DEF Init, TypeOK, CaptureStates, Stages, LogRows
<1>5. Captured
  BY <1>1 DEF Captured, Steady
<1>6. Remembered /\ Linked
  BY <1>3 DEF Init, Remembered, Linked
<1> QED
  BY <1>4, <1>5, <1>6 DEF Tells

LEMMA TellsAlways == Spec => []Tells
<1>1. Init => Tells
  BY TellsInit
<1>2. Tells /\ [Next]_vars => Tells'
  BY TypeNext, CapturedNext, RememberedNext, LinkedNext DEF Tells
<1> QED
  BY <1>1, <1>2, PTL DEF Spec

(* The cache, the ends of transactions, captures, log and links keep their  *)
(* types; a capture never names a row that is not there.                    *)
THEOREM TypeCorrect == Spec => []TypeOK
<1>1. Tells => TypeOK
  BY DEF Tells
<1> QED
  BY <1>1, TellsAlways, PTL

(* Whatever captures interleave, fail half-way and reuse each other's rows, *)
(* a link names a key that the cache held since the transaction ended.      *)
THEOREM LinkHolds == Spec => []LinkTellsKey
<1>1. Tells => LinkTellsKey
  BY DEF Tells, Linked, LinkTellsKey
<1> QED
  BY <1>1, TellsAlways, PTL

-----------------------------------------------------------------------------
(* The timeline of captures in order *)

(* One capture runs at a time, of the transaction that ended last; every    *)
(* row is dated like one of the captures before it, later than the row      *)
(* before it, and differs from that.  What a capture found is the last row, *)
(* and what it linked is the last one dated no later than its transaction.  *)
Alone == \A c, d \in Running : c = d

Later == \A c \in Running, d \in Captures : d # c => capture[d].at < capture[c].at

Dated ==
  \A i \in DOMAIN log : \E d \in Captures :
    capture[d].pc \in {"link", "done"} /\ capture[d].at = log[i].createdAt

Rising == \A i, j \in DOMAIN log : i < j => log[i].createdAt < log[j].createdAt

Changing == \A i, j \in DOMAIN log : j = i + 1 => Content(i) # Content(j)

Placed(c) ==
  /\ capture[c].pc = "resolve" => capture[c].latest = Len(log)
  /\ capture[c].pc \in {"link", "done"} /\ capture[c].latest # 0 =>
       /\ log[capture[c].latest].createdAt <= capture[c].at
       /\ \A i \in DOMAIN log : capture[c].latest < i => capture[c].at < log[i].createdAt

Ordered ==
  /\ Alone /\ Later /\ Dated /\ Rising /\ Changing
  /\ \A c \in Captures : Placed(c)

LEMMA InOrderWas ==
  ASSUME [Next]_vars, inOrder'
  PROVE  inOrder
BY DEF Next, vars, Rotate, Tick, End, ReadCache, FindLatest, Resolve, Link, CaptureFails

(* With strictly rising dates the latest of the rows up to n is n.          *)
LEMMA LatestIsLast ==
  ASSUME TypeOK, Rising, NEW n \in DOMAIN log, NEW id \in Latest(1 .. n)
  PROVE  id = n
<1>1. /\ n \in Nat /\ n \in 1 .. n /\ 1 .. n # {} /\ 1 .. n \subseteq DOMAIN log
      /\ \A i \in DOMAIN log : log[i].createdAt \in Nat
  BY LogIs
<1>2. id \in 1 .. n /\ log[n].createdAt <= log[id].createdAt
  BY <1>1 DEF Latest
<1>3. id < n => log[id].createdAt < log[n].createdAt
  BY <1>1, <1>2 DEF Rising
<1> QED
  BY <1>1, <1>2, <1>3

(* A step of a running capture that leaves the log alone.                   *)
LEMMA QuietMoves ==
  ASSUME TypeOK, Ordered, NEW c \in Captures, c \in Running, log' = log,
         NEW pc \in {"find", "resolve", "link", "done"}, NEW read, NEW latest,
         Moves(c, pc, capture[c].at, read, latest),
         capture[c].pc = "link" => pc = "done",
         Placed(c)'
  PROVE  Ordered'
<1>1. Running' \subseteq Running
  BY DEF Running, Moves
<1>2. \A d \in Captures : capture'[d].at = capture[d].at
  BY DEF Moves
<1>3. Alone' /\ Later'
  BY <1>1, <1>2 DEF Ordered, Alone, Later
<1>4. \A d \in Captures : capture[d].pc \in {"link", "done"} => capture'[d].pc \in {"link", "done"}
  BY DEF Moves, Running
<1>5. Dated'
  BY <1>2, <1>4 DEF Ordered, Dated
<1>6. Rising' /\ Changing'
  BY DEF Ordered, Rising, Changing, Content
<1>7. \A d \in Captures : d # c => Placed(d)'
  BY DEF Ordered, Placed, Moves
<1> QED
  BY <1>3, <1>5, <1>6, <1>7 DEF Ordered

LEMMA EndOrdered ==
  ASSUME TypeOK, Ordered, NEW c \in Captures, End(c), inOrder'
  PROVE  Ordered'
<1>1. /\ capture[c].pc = "idle" /\ log' = log /\ Running = {}
      /\ \A d \in Captures : capture[d].at < clock
  BY DEF End
<1>2. Moves(c, "links", clock, capture[c].read, capture[c].latest)
  BY EndMoves
<1>3. Running' \subseteq {c}
  BY <1>1, <1>2 DEF Running, Moves
<1>4. Alone'
  BY <1>3 DEF Alone
<1>5. Later'
  BY <1>1, <1>2, <1>3 DEF Later, Moves
<1>6. Dated'
  BY <1>1, <1>2 DEF Ordered, Dated, Moves
<1>7. Rising' /\ Changing'
  BY <1>1 DEF Ordered, Rising, Changing, Content
<1>8. \A d \in Captures : Placed(d)'
  BY <1>1, <1>2 DEF Ordered, Placed, Moves
<1> QED
  BY <1>4, <1>5, <1>6, <1>7, <1>8 DEF Ordered

(* A capture that appends: its transaction ended after those of all rows.   *)
LEMMA ResolveOrdered ==
  ASSUME Tells, Ordered, NEW c \in Captures, Resolve(c)
  PROVE  Ordered'
<1> TypeOK /\ Captured
  BY DEF Tells
<1>1. capture[c].pc = "resolve" /\ c \in Running /\ capture[c].latest = Len(log)
  BY DEF Resolve, Running, Ordered, Placed
<1>2. \A i \in DOMAIN log : log[i].createdAt < capture[c].at
  <2> TAKE i \in DOMAIN log
  <2>1. PICK d \in Captures : capture[d].pc \in {"link", "done"} /\ capture[d].at = log[i].createdAt
    BY DEF Ordered, Dated
  <2>2. d # c
    BY <1>1, <2>1
  <2> QED
    BY <1>1, <2>1, <2>2 DEF Ordered, Later
<1>3. CASE /\ SameAsLatest(c) /\ log' = log
           /\ Moves(c, "link", capture[c].at, capture[c].read, capture[c].latest)
  <2>1. Len(log) \in DOMAIN log /\ Len(log) \in Nat /\ DOMAIN log = 1 .. Len(log)
    BY <1>1, <1>3, LogIs DEF SameAsLatest
  <2>2. log[Len(log)].createdAt <= capture[c].at
    BY <1>2, <2>1, LogIs, CaptureIs
  <2>3. \A i \in DOMAIN log : ~(Len(log) < i)
    BY <2>1
  <2>4. Placed(c)'
    BY <1>1, <1>3, <2>2, <2>3 DEF Placed, Moves
  <2> QED
    BY <1>1, <1>3, <2>4, QuietMoves
<1>4. CASE /\ ~SameAsLatest(c) /\ log' = Append(log, NewRow(c))
           /\ Moves(c, "link", capture[c].at, capture[c].read, Len(log) + 1)
  <2>0. PICK n : n = Len(log) + 1
    OBVIOUS
  <2>1. /\ NewRow(c) \in LogRows /\ NewRow(c).key = capture[c].read.key
        /\ NewRow(c).receiver = capture[c].read.receiver /\ NewRow(c).createdAt = capture[c].at
    BY <1>1, CapturedReads, NewRowIs
  <2>2. /\ DOMAIN log' = 1 .. n /\ log'[n] = NewRow(c) /\ n \in Nat /\ DOMAIN log = 1 .. n - 1
        /\ \A i \in DOMAIN log : i \in DOMAIN log' /\ log'[i] = log[i]
    BY <1>4, <2>0, <2>1, Grown, LogIs
  <2>3. /\ capture'[c].pc = "link" /\ capture'[c].at = capture[c].at
        /\ capture'[c].latest = n /\ capture[c].at \in Nat
    BY <1>4, <2>0, CaptureIs DEF Moves
  <2>4. \A d \in Captures : d # c => capture'[d] = capture[d]
    BY <1>4 DEF Moves
  <2>5. \A i \in DOMAIN log' : i = n \/ i \in DOMAIN log
    BY <2>2
  <2>6. log'[n].createdAt = capture[c].at
    BY <2>1, <2>2
  <2>7. Alone' /\ Later'
    <3>1. Running' \subseteq Running
      BY <1>1, <2>3, <2>4 DEF Running
    <3>2. \A d \in Captures : capture'[d].at = capture[d].at
      BY <2>3, <2>4
    <3>3. Alone /\ Later
      BY DEF Ordered
    <3>4. Alone'
      BY ONLY <3>1, <3>3 DEF Alone
    <3>5. Later'
      <4> SUFFICES ASSUME NEW x \in Running', NEW d \in Captures, d # x
                   PROVE  capture'[d].at < capture'[x].at
        BY DEF Later
      <4>1. x \in Running /\ x \in Captures
        BY <3>1 DEF Running
      <4>2. capture[d].at < capture[x].at
        BY <3>3, <4>1 DEF Later
      <4> QED
        BY <3>2, <4>1, <4>2
    <3> QED
      BY <3>4, <3>5
  <2>8. Dated'
    <3>1. ASSUME NEW i \in DOMAIN log'
          PROVE  \E d \in Captures : capture'[d].pc \in {"link", "done"} /\ capture'[d].at = log'[i].createdAt
      <4>1. CASE i = n
        BY <2>3, <2>6, <4>1
      <4>2. CASE i \in DOMAIN log
        <5>1. PICK d \in Captures : capture[d].pc \in {"link", "done"} /\ capture[d].at = log[i].createdAt
          BY <4>2 DEF Ordered, Dated
        <5>2. d # c
          BY <1>1, <5>1
        <5> QED
          BY <2>2, <2>4, <4>2, <5>1, <5>2
      <4> QED
        BY <2>5, <3>1, <4>1, <4>2
    <3> QED
      BY <3>1 DEF Dated
  <2>9. Rising'
    <3>1. ASSUME NEW i \in DOMAIN log', NEW j \in DOMAIN log', i < j
          PROVE  log'[i].createdAt < log'[j].createdAt
      <4>1. i \in DOMAIN log
        BY <2>2, <3>1
      <4>2. CASE j = n
        BY <1>2, <2>2, <2>6, <4>1, <4>2
      <4>3. CASE j \in DOMAIN log
        BY <2>2, <3>1, <4>1, <4>3 DEF Ordered, Rising
      <4> QED
        BY <2>5, <4>2, <4>3
    <3> QED
      BY <3>1 DEF Rising
  <2>10. Changing'
    <3>1. ASSUME NEW i \in DOMAIN log', NEW j \in DOMAIN log', j = i + 1
          PROVE  [key |-> log'[i].key, receiver |-> log'[i].receiver]
                   # [key |-> log'[j].key, receiver |-> log'[j].receiver]
      <4>1. i \in DOMAIN log
        BY <2>2, <3>1
      <4>2. CASE j = n
        <5>1. i = Len(log) /\ Len(log) # 0
          BY <2>0, <2>2, <3>1, <4>1, <4>2, LogIs
        <5>2. Content(i) # capture[c].read
          BY <1>1, <1>4, <5>1 DEF SameAsLatest
        <5>3. [key |-> log'[j].key, receiver |-> log'[j].receiver] = capture[c].read
          BY <2>1, <2>2, <4>2, CaptureIs DEF Held
        <5> QED
          BY <2>2, <4>1, <5>2, <5>3 DEF Content
      <4>3. CASE j \in DOMAIN log
        BY <2>2, <3>1, <4>1, <4>3 DEF Ordered, Changing, Content
      <4> QED
        BY <2>5, <4>2, <4>3
    <3> QED
      BY <3>1 DEF Changing, Content
  <2>11. Placed(c)'
    <3>1. \A i \in DOMAIN log' : ~(n < i)
      BY <2>2
    <3> QED
      BY <2>3, <2>6, <3>1 DEF Placed
  <2>12. ASSUME NEW d \in Captures, d # c
         PROVE  Placed(d)'
    <3>1. capture[d].at < capture[c].at /\ capture'[d] = capture[d]
      BY <1>1, <2>4, <2>12 DEF Ordered, Later
    <3>2. capture[d].pc # "resolve"
      <4>1. capture[d].pc = "resolve" => d \in Running
        BY DEF Running
      <4> QED
        BY <1>1, <2>12, <4>1 DEF Ordered, Alone
    <3>3. ASSUME capture[d].pc \in {"link", "done"}, capture[d].latest # 0
          PROVE  /\ log'[capture[d].latest].createdAt <= capture[d].at
                 /\ \A i \in DOMAIN log' : capture[d].latest < i => capture[d].at < log'[i].createdAt
      <4>1. capture[d].latest \in DOMAIN log
        BY <3>3, CaptureIs, LogIs
      <4>2. /\ log[capture[d].latest].createdAt <= capture[d].at
            /\ \A i \in DOMAIN log : capture[d].latest < i => capture[d].at < log[i].createdAt
        BY <3>3 DEF Ordered, Placed
      <4> QED
        BY <2>2, <2>5, <2>6, <3>1, <4>1, <4>2
    <3> QED
      BY <3>1, <3>2, <3>3 DEF Placed
  <2> QED
    BY <2>7, <2>8, <2>9, <2>10, <2>11, <2>12 DEF Ordered
<1> QED
  BY <1>3, <1>4, ResolveMoves

LEMMA OrderedNext ==
  ASSUME Tells, Ordered, [Next]_vars, inOrder'
  PROVE  Ordered'
<1> TypeOK /\ Captured
  BY DEF Tells
<1>1. CASE UNCHANGED <<capture, log>>
  <2>1. Running' = Running
    BY <1>1 DEF Running
  <2> QED
    BY <1>1, <2>1 DEF Ordered, Alone, Later, Dated, Rising, Changing, Placed, Content
<1>2. ASSUME NEW c \in Captures, ReadCache(c)
      PROVE  Ordered'
  <2>0. PICK stage : stage = IF cached.key = NoKey THEN "done" ELSE "find"
    OBVIOUS
  <2>1. Moves(c, stage, capture[c].at, cached, capture[c].latest)
    BY <1>2, <2>0, ReadMoves
  <2>2. log' = log /\ capture[c].pc = "links" /\ capture[c].latest = 0
    BY <1>2 DEF ReadCache, Captured, Steady
  <2>3. c \in Running /\ stage \in {"find", "resolve", "link", "done"}
    BY <2>0, <2>2 DEF Running
  <2>4. Placed(c)'
    BY <2>0, <2>1, <2>2 DEF Placed, Moves
  <2> QED
    BY <2>1, <2>2, <2>3, <2>4, QuietMoves
<1>3. ASSUME NEW c \in Captures, FindLatest(c)
      PROVE  Ordered'
  <2>1. PICK id \in Latest(DOMAIN log) :
          Moves(c, "resolve", capture[c].at, capture[c].read, id)
    BY <1>3, FindMoves
  <2>2. log' = log /\ capture[c].pc = "find" /\ c \in Running
    BY <1>3 DEF FindLatest, Running
  <2>3. id = Len(log)
    <3>1. CASE Len(log) = 0
      BY <3>1, LatestIs
    <3>2. CASE Len(log) # 0
      <4>1. Len(log) \in DOMAIN log /\ DOMAIN log = 1 .. Len(log)
        BY <3>2, LogIs
      <4> QED
        BY <4>1, LatestIsLast DEF Ordered
    <3> QED
      BY <3>1, <3>2
  <2>4. Placed(c)'
    BY <2>1, <2>2, <2>3 DEF Placed, Moves
  <2> QED
    BY <2>1, <2>2, <2>4, QuietMoves
<1>4. ASSUME NEW c \in Captures, Link(c)
      PROVE  Ordered'
  <2>1. Moves(c, "done", capture[c].at, capture[c].read, capture[c].latest)
    BY <1>4, LinkMoves
  <2>2. log' = log /\ capture[c].pc = "link" /\ c \in Running
    BY <1>4 DEF Link, Running
  <2>3. Placed(c)'
    BY <2>1, <2>2 DEF Ordered, Placed, Moves
  <2> QED
    BY <2>1, <2>2, <2>3, QuietMoves
<1>5. ASSUME NEW c \in Captures, CaptureFails(c)
      PROVE  Ordered'
  <2>1. Moves(c, "done", capture[c].at, capture[c].read, 0)
    BY <1>5, FailMoves
  <2>2. log' = log /\ c \in Running
    BY <1>5 DEF CaptureFails, Running
  <2>3. Placed(c)'
    BY <2>1 DEF Placed, Moves
  <2> QED
    BY <2>1, <2>2, <2>3, QuietMoves
<1> QED
  BY <1>1, <1>2, <1>3, <1>4, <1>5, EndOrdered, ResolveOrdered DEF Next, vars, Rotate, Tick

LEMMA OrderAlways == Spec => [](Tells /\ (inOrder => Ordered))
<1>1. Init => Tells /\ (inOrder => Ordered)
  <2> SUFFICES ASSUME Init PROVE Tells /\ Ordered
    OBVIOUS
  <2>1. log = <<>> /\ Running = {} /\ \A c \in Captures : capture[c].pc = "idle"
    BY DEF Init, IdleCapture, Running
  <2>2. Ordered
    BY <2>1 DEF Ordered, Alone, Later, Dated, Rising, Changing, Placed
  <2> QED
    BY <2>2, TellsInit
<1>2. Tells /\ (inOrder => Ordered) /\ [Next]_vars => (Tells /\ (inOrder => Ordered))'
  <2> SUFFICES ASSUME Tells, inOrder => Ordered, [Next]_vars
               PROVE  Tells' /\ (inOrder' => Ordered')
    OBVIOUS
  <2>1. Tells'
    BY TypeNext, CapturedNext, RememberedNext, LinkedNext DEF Tells
  <2>2. inOrder' => Ordered'
    BY InOrderWas, OrderedNext
  <2> QED
    BY <2>1, <2>2
<1> QED
  BY <1>1, <1>2, PTL DEF Spec

(* Captures one after the other, in the order of executedAt: the lookup by  *)
(* createdAt gives back the key that was captured, and every row of the log *)
(* is a change.                                                             *)
THEOREM TimelineHolds == Spec => []TimelineInOrder
<1>1. ASSUME Tells, inOrder => Ordered
      PROVE  TimelineInOrder
  <2> SUFFICES ASSUME inOrder PROVE TimelineInOrder
    BY DEF TimelineInOrder
  <2> TypeOK /\ Captured /\ Ordered
    BY <1>1 DEF Tells
  <2>1. ASSUME NEW c \in Captures, capture[c].pc = "done", capture[c].latest # 0,
               NEW id \in LookUp(capture[c].at)
        PROVE  id # 0 /\ Content(id) = capture[c].read
    <3>0. PICK n : n = capture[c].latest
      OBVIOUS
    <3>1. n \in DOMAIN log /\ n \in Nat /\ n # 0 /\ DOMAIN log = 1 .. Len(log) /\ Len(log) \in Nat
      BY <2>1, <3>0, CaptureIs, LogIs
    <3>2. /\ log[n].createdAt <= capture[c].at
          /\ \A i \in DOMAIN log : n < i => capture[c].at < log[i].createdAt
      BY <2>1, <3>0 DEF Ordered, Placed
    <3>3. \A i \in DOMAIN log : log[i].createdAt \in Nat /\ capture[c].at \in Nat
      BY LogIs, CaptureIs
    <3>4. \A i \in DOMAIN log : i < n => log[i].createdAt < log[n].createdAt
      BY <3>1 DEF Ordered, Rising
    <3>5. \A i \in DOMAIN log : log[i].createdAt <= capture[c].at <=> i <= n
      BY <3>1, <3>2, <3>3, <3>4
    <3>6. {i \in DOMAIN log : log[i].createdAt <= capture[c].at} = 1 .. n
      BY <3>1, <3>5
    <3>7. id = n
      BY <2>1, <3>1, <3>6, LatestIsLast DEF LookUp, Ordered
    <3> QED
      BY <2>1, <3>0, <3>1, <3>7 DEF Captured, Steady
  <2>2. ASSUME NEW i \in 1 .. Len(log) - 1
        PROVE  Content(i) # Content(i + 1)
    <3>1. i \in DOMAIN log /\ i + 1 \in DOMAIN log
      BY LogIs
    <3> QED
      BY <3>1 DEF Ordered, Changing
  <2> QED
    BY <2>1, <2>2 DEF TimelineInOrder
<1> QED
  BY <1>1, OrderAlways, PTL

-----------------------------------------------------------------------------
(* Keys, by induction on their nesting *)

LEMMA KeysInduct ==
  ASSUME NEW P \in SUBSET Keys, PublicKeys \subseteq P,
         \A list \in KeyLists : (\A i \in DOMAIN list.keys : list.keys[i] \in P) => list \in P
  PROVE  P = Keys
<1> DEFINE S == KeyLists \ P
<1> SUFFICES ASSUME S # {} PROVE FALSE
  BY DEF Keys
<1>1. PICK list \in S : \A i \in DOMAIN list.keys : list.keys[i] \notin S
  BY NestingAssumption
<1>2. \A i \in DOMAIN list.keys : list.keys[i] \in Keys
  BY KeyAssumption
<1>3. \A i \in DOMAIN list.keys : list.keys[i] \in P
  BY <1>1, <1>2 DEF Keys
<1> QED
  BY <1>1, <1>3

(* Recursion over keys: what is found for a key, G[k][f], depends only on  *)
(* what f tells of the keys in it.  A set of keys is closed if it has the  *)
(* keys in each; on the closed sets that have a solution there is one, and *)
(* their union is a closed set with a solution, to which a list can be     *)
(* added whose keys are in it.                                             *)
Depends(X, G) ==
  /\ G \in [Keys -> [[Keys -> X] -> X]]
  /\ \A k \in Keys, f, g \in [Keys -> X] :
       (k \in KeyLists => \A i \in DOMAIN k.keys : f[k.keys[i]] = g[k.keys[i]])
         => G[k][f] = G[k][g]
Closed(D) ==
  /\ D \subseteq Keys
  /\ \A k \in D \cap KeyLists : \A i \in DOMAIN k.keys : k.keys[i] \in D
Solves(G, D, f) == \A k \in D : f[k] = G[k][f]

(* What is found for a list depends on what is found for its keys. *)
LEMMA SameSolution ==
  ASSUME NEW X, NEW G, Depends(X, G), NEW k \in Keys,
         NEW f \in [Keys -> X], NEW g \in [Keys -> X],
         k \in KeyLists => \A i \in DOMAIN k.keys : f[k.keys[i]] = g[k.keys[i]]
  PROVE  G[k][f] = G[k][g]
BY DEF Depends

(* Two solutions agree where both are given. *)
LEMMA OneSolution ==
  ASSUME NEW X, NEW G, Depends(X, G), NEW D, NEW E, Closed(D), Closed(E),
         NEW f \in [Keys -> X], NEW g \in [Keys -> X], Solves(G, D, f), Solves(G, E, g)
  PROVE  \A k \in D \cap E : f[k] = g[k]
<1> DEFINE P == {k \in Keys : k \in D \cap E => f[k] = g[k]}
<1>1. PublicKeys \subseteq P
  <2> SUFFICES ASSUME NEW k \in PublicKeys, k \in D \cap E PROVE f[k] = g[k]
    BY DEF Keys
  <2>1. k \in Keys /\ k \notin KeyLists
    BY KeyAssumption DEF Keys
  <2>2. G[k][f] = G[k][g]
    BY <2>1, SameSolution
  <2> QED
    BY <2>2 DEF Solves
<1>2. ASSUME NEW list \in KeyLists, \A i \in DOMAIN list.keys : list.keys[i] \in P
      PROVE  list \in P
  <2>1. SUFFICES ASSUME list \in D \cap E PROVE f[list] = g[list]
    BY DEF Keys
  <2>2. \A i \in DOMAIN list.keys : f[list.keys[i]] = g[list.keys[i]]
    BY <1>2, <2>1 DEF Closed
  <2>3. G[list][f] = G[list][g]
    BY <2>2, SameSolution DEF Keys
  <2> QED
    BY <2>1, <2>3 DEF Solves
<1>3. P \in SUBSET Keys
  OBVIOUS
<1> HIDE DEF P
<1>4. P = Keys
  BY <1>1, <1>2, <1>3, KeysInduct
<1> QED
  BY <1>4 DEF P, Closed

(* There is a solution for all keys. *)
LEMMA Recursion ==
  ASSUME NEW X, NEW x0 \in X, NEW G, Depends(X, G)
  PROVE  \E f \in [Keys -> X] : Solves(G, Keys, f)
<1> DEFINE Sol(D, f) == Closed(D) /\ f \in [Keys -> X] /\ Solves(G, D, f)
           U == {k \in Keys : \E D, f : k \in D /\ Sol(D, f)}
           val(k) == CHOOSE v \in X : \E D, f : k \in D /\ Sol(D, f) /\ v = f[k]
           g == [k \in Keys |-> IF k \in U THEN val(k) ELSE x0]
<1>1. ASSUME NEW D, NEW f, Sol(D, f), NEW k \in D
      PROVE  g[k] = f[k] /\ k \in U
  <2>1. k \in Keys /\ f[k] \in X
    BY <1>1 DEF Closed
  <2>2. k \in U
    BY <1>1, <2>1
  <2>3. \E v \in X : \E E, h : k \in E /\ Sol(E, h) /\ v = h[k]
    BY <1>1, <2>1
  <2>4. PICK E, h : k \in E /\ Sol(E, h) /\ val(k) = h[k]
    BY <2>3, Zenon
  <2>5. h[k] = f[k]
    BY <1>1, <2>4, OneSolution
  <2> QED
    BY <2>1, <2>2, <2>4, <2>5
<1>2. g \in [Keys -> X]
  <2>1. ASSUME NEW k \in U PROVE val(k) \in X
    <3>1. PICK D, f : k \in D /\ Sol(D, f)
      BY <2>1
    <3>2. f[k] \in X
      BY <3>1 DEF Closed
    <3>3. \E v \in X : \E E, h : k \in E /\ Sol(E, h) /\ v = h[k]
      BY <3>1, <3>2
    <3> QED
      BY <3>3, Zenon
  <2> QED
    BY <2>1
<1>3. Closed(U)
  <2>1. ASSUME NEW k \in U \cap KeyLists, NEW i \in DOMAIN k.keys PROVE k.keys[i] \in U
    <3>1. PICK D, f : k \in D /\ Sol(D, f)
      BY <2>1
    <3>2. k.keys[i] \in D
      BY <2>1, <3>1 DEF Closed
    <3> QED
      BY <1>1, <3>1, <3>2
  <2> QED
    BY <2>1 DEF Closed
<1>4. Solves(G, U, g)
  <2>1. ASSUME NEW k \in U PROVE g[k] = G[k][g]
    <3>1. PICK D, f : k \in D /\ Sol(D, f)
      BY <2>1
    <3>2. \A x \in D : g[x] = f[x]
      BY <1>1, <3>1
    <3>3. G[k][f] = G[k][g]
      <4>1. k \in Keys /\ f \in [Keys -> X]
        BY <3>1
      <4>2. k \in KeyLists => \A i \in DOMAIN k.keys : k.keys[i] \in D
        BY <3>1 DEF Closed
      <4>3. k \in KeyLists => \A i \in DOMAIN k.keys : f[k.keys[i]] = g[k.keys[i]]
        BY <3>2, <4>2
      <4> HIDE DEF g
      <4> QED
        BY <1>2, <4>1, <4>3, SameSolution
    <3> QED
      BY <3>1, <3>2, <3>3 DEF Solves
  <2> QED
    BY <2>1 DEF Solves
<1>5. Sol(U, g)
  BY <1>2, <1>3, <1>4
<1> HIDE DEF g
<1>6. ASSUME NEW k \in Keys, k \in KeyLists => \A i \in DOMAIN k.keys : k.keys[i] \in U
      PROVE  k \in U
  <2> SUFFICES ASSUME k \notin U PROVE FALSE
    OBVIOUS
  <2> DEFINE D == U \cup {k}
             f == [g EXCEPT ![k] = G[k][g]]
  <2>1. G[k][g] \in X
    BY <1>2 DEF Depends
  <2>2. f \in [Keys -> X] /\ f[k] = G[k][g] /\ \A x \in U : f[x] = g[x]
    BY <1>2, <2>1
  <2>3. Closed(D)
    BY <1>3, <1>6 DEF Closed
  <2>4. ASSUME NEW x \in D PROVE f[x] = G[x][f]
    <3>1. x \in Keys /\ (x \in KeyLists => \A i \in DOMAIN x.keys : x.keys[i] \in U)
      BY <1>3, <1>6 DEF Closed
    <3>2. G[x][f] = G[x][g]
      <4>1. x \in KeyLists => \A i \in DOMAIN x.keys : f[x.keys[i]] = g[x.keys[i]]
        BY <2>2, <3>1
      <4> HIDE DEF f, U
      <4> QED
        BY <1>2, <2>2, <3>1, <4>1, SameSolution
    <3> QED
      BY <1>4, <2>2, <3>2 DEF Solves
  <2>5. Sol(D, f)
    BY <2>2, <2>3, <2>4 DEF Solves
  <2> QED
    BY <2>5
<1>7. U = Keys
  <2>1. U \in SUBSET Keys
    OBVIOUS
  <2>2. PublicKeys \subseteq U
    BY <1>6, KeyAssumption DEF Keys
  <2>3. \A list \in KeyLists : (\A i \in DOMAIN list.keys : list.keys[i] \in U) => list \in U
    BY <1>6 DEF Keys
  <2> HIDE DEF U
  <2> QED
    BY <2>1, <2>2, <2>3, KeysInduct
<1> QED
  BY <1>5, <1>7
-----------------------------------------------------------------------------
(* What the recursions compute: the equations they were written as *)

LEMMA InList ==
  ASSUME NEW k \in KeyLists
  PROVE  /\ k \in Keys /\ k \notin PublicKeys /\ Len(k.keys) \in Nat
         /\ DOMAIN k.keys = 1 .. Len(k.keys) /\ k.threshold \in Nat
         /\ \A i \in DOMAIN k.keys : k.keys[i] \in Keys
BY KeyAssumption DEF Keys

Satisfies(signers, f, k) ==
  IF k \in PublicKeys THEN k \in signers
  ELSE /\ k.keys # <<>>
       /\ Cardinality({i \in DOMAIN k.keys : f[k.keys[i]]}) >= Needed(k)

(* hasValidSignatureKey. *)
LEMMA ValidIs ==
  ASSUME NEW signers, NEW k \in Keys
  PROVE  HasValidSignatureKey(signers, k) <=>
           IF k \in PublicKeys THEN k \in signers
           ELSE /\ k.keys # <<>>
                /\ Cardinality({i \in DOMAIN k.keys : HasValidSignatureKey(signers, k.keys[i])})
                     >= Needed(k)
<1> DEFINE G == [x \in Keys |-> [f \in [Keys -> BOOLEAN] |-> Satisfies(signers, f, x)]]
           Eq(f) == f = [x \in Keys |-> Satisfies(signers, f, x)]
           v == CHOOSE f : Eq(f)
<1>1. Depends(BOOLEAN, G)
  <2>1. \A x \in Keys, f \in [Keys -> BOOLEAN] : Satisfies(signers, f, x) \in BOOLEAN
    <3> SUFFICES ASSUME NEW x \in Keys, NEW f \in [Keys -> BOOLEAN]
                 PROVE  Satisfies(signers, f, x) \in BOOLEAN
      OBVIOUS
    <3>1. CASE x \in PublicKeys
      <4>1. CASE x \in signers
        BY <3>1, <4>1 DEF Satisfies
      <4>2. CASE x \notin signers
        BY <3>1, <4>2 DEF Satisfies
      <4> QED
        BY <4>1, <4>2
    <3>2. CASE x \notin PublicKeys
      <4> DEFINE c == Cardinality({i \in DOMAIN x.keys : f[x.keys[i]]})
      <4>1. Satisfies(signers, f, x) = (x.keys # <<>> /\ c >= Needed(x))
        BY <3>2 DEF Satisfies
      <4> HIDE DEF c
      <4> QED
        BY <4>1, Zenon
    <3> QED
      BY <3>1, <3>2
  <2>2. ASSUME NEW x \in Keys, NEW f \in [Keys -> BOOLEAN], NEW g \in [Keys -> BOOLEAN],
               x \in KeyLists => \A i \in DOMAIN x.keys : f[x.keys[i]] = g[x.keys[i]]
        PROVE  Satisfies(signers, f, x) = Satisfies(signers, g, x)
    <3>1. CASE x \in PublicKeys
      BY <3>1 DEF Satisfies
    <3>2. CASE x \notin PublicKeys
      <4>1. \A i \in DOMAIN x.keys : f[x.keys[i]] = g[x.keys[i]]
        BY <2>2, <3>2 DEF Keys
      <4>2. {i \in DOMAIN x.keys : f[x.keys[i]]} = {i \in DOMAIN x.keys : g[x.keys[i]]}
        BY <4>1
      <4> QED
        BY <3>2, <4>2 DEF Satisfies
    <3> QED
      BY <3>1, <3>2
  <2> QED
    BY <2>1, <2>2 DEF Depends
<1>2. PICK f \in [Keys -> BOOLEAN] : Solves(G, Keys, f)
  BY <1>1, Recursion
<1>3. Eq(f)
  BY <1>2 DEF Solves
<1>4. \A x : HasValidSignatureKey(signers, x) = v[x]
  BY DEF HasValidSignatureKey, Satisfies
<1> HIDE DEF Eq
<1>5. Eq(v)
  BY <1>3, Zenon
<1>6. v = [x \in Keys |-> Satisfies(signers, v, x)]
  BY <1>5 DEF Eq
<1> HIDE DEF v
<1>7. v[k] = Satisfies(signers, v, k)
  BY <1>6
<1> QED
  BY <1>4, <1>7 DEF Satisfies

FlatOf(f, k) ==
  IF k \in PublicKeys THEN {k} ELSE UNION {f[k.keys[i]] : i \in DOMAIN k.keys}

(* flattenKeyList. *)
LEMMA FlatIs ==
  ASSUME NEW k \in Keys
  PROVE  FlattenKeyList(k) = IF k \in PublicKeys THEN {k}
           ELSE UNION {FlattenKeyList(k.keys[i]) : i \in DOMAIN k.keys}
<1> DEFINE X == SUBSET PublicKeys
           G == [x \in Keys |-> [f \in [Keys -> X] |-> FlatOf(f, x)]]
           Eq(f) == f = [x \in Keys |-> FlatOf(f, x)]
           v == CHOOSE f : Eq(f)
<1>1. Depends(X, G)
  <2>1. ASSUME NEW x \in Keys, NEW f \in [Keys -> X] PROVE FlatOf(f, x) \in X
    <3>1. CASE x \in PublicKeys
      BY <3>1 DEF FlatOf
    <3>2. CASE x \notin PublicKeys
      <4>1. \A i \in DOMAIN x.keys : f[x.keys[i]] \in X
        BY <3>2, InList DEF Keys
      <4> QED
        BY <3>2, <4>1 DEF FlatOf
    <3> QED
      BY <3>1, <3>2
  <2>2. ASSUME NEW x \in Keys, NEW f \in [Keys -> X], NEW g \in [Keys -> X],
               x \in KeyLists => \A i \in DOMAIN x.keys : f[x.keys[i]] = g[x.keys[i]]
        PROVE  FlatOf(f, x) = FlatOf(g, x)
    <3>1. CASE x \in PublicKeys
      BY <3>1 DEF FlatOf
    <3>2. CASE x \notin PublicKeys
      BY <2>2, <3>2 DEF FlatOf, Keys
    <3> QED
      BY <3>1, <3>2
  <2> HIDE DEF X
  <2> QED
    BY <2>1, <2>2 DEF Depends
<1>2. PICK f \in [Keys -> X] : Solves(G, Keys, f)
  <2>1. {} \in X
    OBVIOUS
  <2> HIDE DEF X, G
  <2> QED
    BY <1>1, <2>1, Recursion
<1>3. Eq(f)
  BY <1>2 DEF Solves
<1>4. \A x : FlattenKeyList(x) = v[x]
  BY DEF FlattenKeyList, FlatOf
<1> HIDE DEF Eq
<1>5. Eq(v)
  BY <1>3, Zenon
<1>6. v = [x \in Keys |-> FlatOf(v, x)]
  BY <1>5 DEF Eq
<1> HIDE DEF v
<1>7. v[k] = FlatOf(v, k)
  BY <1>6
<1> QED
  BY <1>4, <1>7 DEF FlatOf

(* The entries a shortened list can have. *)
Entries == Seq(Nat) \X PublicKeys

(* An entry of a key inside a list is an entry of the list, one step       *)
(* further down; nothing else is the same entry.                           *)
LEMMA EmptyPath == <<>> \in Seq(Nat) /\ \A k \in PublicKeys : <<<<>>, k>> \in Entries
<1>1. <<>> \in Seq(Nat)
  OBVIOUS
<1> QED
  BY <1>1 DEF Entries

(* The entry one step further down. *)
LEMMA Deeper ==
  ASSUME NEW i \in Nat, NEW e \in Entries
  PROVE  /\ e[1] \in Seq(Nat) /\ e[2] \in PublicKeys /\ e = <<e[1], e[2]>>
         /\ <<i>> \o e[1] \in Seq(Nat)
         /\ <<<<i>> \o e[1], e[2]>> \in Entries
<1>1. e[1] \in Seq(Nat) /\ e[2] \in PublicKeys /\ e = <<e[1], e[2]>>
  BY DEF Entries
<1>2. <<i>> \in Seq(Nat)
  OBVIOUS
<1>3. <<i>> \o e[1] \in Seq(Nat)
  BY <1>1, <1>2
<1> QED
  BY <1>1, <1>3 DEF Entries

(* Two entries stay two. *)
LEMMA DeeperApart ==
  ASSUME NEW i \in Nat, NEW j \in Nat, NEW p \in Seq(Nat), NEW q \in Seq(Nat), <<i>> \o p = <<j>> \o q
  PROVE  i = j /\ p = q
<1>1. /\ Len(<<i>> \o p) = 1 + Len(p) /\ Len(<<j>> \o q) = 1 + Len(q)
      /\ (<<i>> \o p)[1] = i /\ (<<j>> \o q)[1] = j
  OBVIOUS
<1>2. \A n \in 1 .. Len(p) : (<<i>> \o p)[n + 1] = p[n]
  OBVIOUS
<1>3. \A n \in 1 .. Len(q) : (<<j>> \o q)[n + 1] = q[n]
  OBVIOUS
<1>4. i = j /\ Len(p) = Len(q) /\ Len(p) \in Nat
  BY <1>1
<1>5. \A n \in 1 .. Len(p) : p[n] = q[n]
  BY <1>2, <1>3, <1>4
<1> QED
  BY <1>4, <1>5, SeqEqual

ShortOf(signers, short, k) ==
  IF k \in PublicKeys THEN IF k \in signers THEN {{<<<<>>, k>>}} ELSE {}
  ELSE LET parts == Parts(k, short)
       IN IF Enough(k, parts) THEN {UNION {parts[i] : i \in Taken(k, parts)}}
          ELSE {}

(* What the keys of a list put together. *)
PartsOf(signers, k) ==
  [i \in DOMAIN k.keys |->
     {<<<<i>> \o entry[1], entry[2]>> :
        entry \in UNION ComputeShortenedPublicKeyList(signers, k.keys[i])}]

(* computeShortenedPublicKeyList. *)
LEMMA ShortIs ==
  ASSUME NEW signers, NEW k \in Keys
  PROVE  ComputeShortenedPublicKeyList(signers, k) =
           IF k \in PublicKeys THEN IF k \in signers THEN {{<<<<>>, k>>}} ELSE {}
           ELSE IF Enough(k, PartsOf(signers, k))
                THEN {UNION {PartsOf(signers, k)[i] : i \in Taken(k, PartsOf(signers, k))}}
                ELSE {}
<1> DEFINE X == SUBSET SUBSET Entries
           G == [x \in Keys |-> [f \in [Keys -> X] |-> ShortOf(signers, f, x)]]
           Eq(f) == f = [x \in Keys |-> ShortOf(signers, f, x)]
           v == CHOOSE f : Eq(f)
<1>1. Depends(X, G)
  <2>1. ASSUME NEW x \in Keys, NEW f \in [Keys -> X] PROVE ShortOf(signers, f, x) \in X
    <3>1. CASE x \in PublicKeys
      <4>1. <<<<>>, x>> \in Entries
        BY <3>1, EmptyPath
      <4> QED
        BY <3>1, <4>1 DEF ShortOf
    <3>2. CASE x \notin PublicKeys
      <4> DEFINE parts == Parts(x, f)
      <4>1. ASSUME NEW i \in DOMAIN x.keys PROVE parts[i] \in SUBSET Entries
        <5>1. f[x.keys[i]] \in X /\ i \in Nat
          BY <3>2, InList DEF Keys
        <5>2. \A entry \in UNION f[x.keys[i]] : <<<<i>> \o entry[1], entry[2]>> \in Entries
          BY <5>1, Deeper
        <5> QED
          BY <5>2 DEF Parts
      <4>2. Taken(x, parts) \subseteq DOMAIN x.keys
        BY DEF Taken, Found, Parts
      <4> HIDE DEF parts
      <4>3. UNION {parts[i] : i \in Taken(x, parts)} \in SUBSET Entries
        BY <4>1, <4>2
      <4>4. ShortOf(signers, f, x) = IF Enough(x, parts)
                                     THEN {UNION {parts[i] : i \in Taken(x, parts)}} ELSE {}
        BY <3>2 DEF ShortOf, parts
      <4> QED
        BY <4>3, <4>4
    <3> QED
      BY <3>1, <3>2
  <2>2. ASSUME NEW x \in Keys, NEW f \in [Keys -> X], NEW g \in [Keys -> X],
               x \in KeyLists => \A i \in DOMAIN x.keys : f[x.keys[i]] = g[x.keys[i]]
        PROVE  ShortOf(signers, f, x) = ShortOf(signers, g, x)
    <3>1. CASE x \in PublicKeys
      BY <3>1 DEF ShortOf
    <3>2. CASE x \notin PublicKeys
      <4>1. Parts(x, f) = Parts(x, g)
        BY <2>2, <3>2 DEF Parts, Keys
      <4> QED
        BY <3>2, <4>1 DEF ShortOf
    <3> QED
      BY <3>1, <3>2
  <2> HIDE DEF X
  <2> QED
    BY <2>1, <2>2 DEF Depends
<1>2. PICK f \in [Keys -> X] : Solves(G, Keys, f)
  <2>1. {} \in X
    OBVIOUS
  <2> HIDE DEF X, G
  <2> QED
    BY <1>1, <2>1, Recursion
<1>3. Eq(f)
  BY <1>2 DEF Solves
<1>4. \A x : ComputeShortenedPublicKeyList(signers, x) = v[x]
  BY DEF ComputeShortenedPublicKeyList, ShortOf
<1> HIDE DEF Eq
<1>5. Eq(v)
  BY <1>3, Zenon
<1>6. v = [x \in Keys |-> ShortOf(signers, v, x)]
  BY <1>5 DEF Eq
<1> HIDE DEF v
<1>7. v[k] = ShortOf(signers, v, k)
  BY <1>6
<1>8. Parts(k, v) = PartsOf(signers, k)
  BY <1>4 DEF Parts, PartsOf
<1> QED
  BY <1>4, <1>7, <1>8 DEF ShortOf

-----------------------------------------------------------------------------
(* Counting *)

(* The first n of a finite set are n, in an order that has earlier[i] *)
(* before i.                                                          *)
LEMMA FirstAreSoMany ==
  ASSUME NEW F, IsFiniteSet(F), NEW earlier,
         \A i \in F : earlier[i] \in SUBSET (F \ {i}),
         \A i, j \in F : i # j => i \in earlier[j] \/ j \in earlier[i],
         \A i, j \in F : j \in earlier[i] => earlier[j] \subseteq earlier[i],
         NEW n \in Nat, n <= Cardinality(F)
  PROVE  Cardinality({i \in F : Cardinality(earlier[i]) < n}) = n
<1> DEFINE rank == [i \in F |-> Cardinality(earlier[i])]
           c == Cardinality(F)
           First == {i \in F : Cardinality(earlier[i]) < n}
<1>1. c \in Nat
  BY FS_CardinalityType
<1>2. ASSUME NEW i \in F
      PROVE  IsFiniteSet(earlier[i]) /\ rank[i] \in Nat /\ rank[i] < c /\ rank[i] = Cardinality(earlier[i])
  <2>1. IsFiniteSet(F \ {i}) /\ Cardinality(F \ {i}) = c - 1
    BY FS_RemoveElement
  <2>2. IsFiniteSet(earlier[i]) /\ Cardinality(earlier[i]) <= c - 1
    BY <2>1, FS_Subset
  <2>3. Cardinality(earlier[i]) \in Nat
    BY <2>2, FS_CardinalityType
  <2> QED
    BY <1>1, <2>2, <2>3
<1>3. ASSUME NEW i \in F, NEW j \in F, i \in earlier[j]
      PROVE  rank[i] < rank[j]
  <2>1. earlier[i] \in SUBSET earlier[j] /\ i \notin earlier[i]
    BY <1>3
  <2>2. /\ Cardinality(earlier[i]) <= Cardinality(earlier[j])
        /\ Cardinality(earlier[i]) # Cardinality(earlier[j])
    BY <1>2, <1>3, <2>1, FS_Subset
  <2> HIDE DEF rank
  <2> QED
    BY <1>2, <2>2
<1>4. IsFiniteSet(0 .. c - 1) /\ Cardinality(0 .. c - 1) = c
  <2>1. 0 \in Int /\ c - 1 \in Int /\ (IF 0 > c - 1 THEN 0 ELSE (c - 1) - 0 + 1) = c
    BY <1>1
  <2> HIDE DEF c
  <2> QED
    BY <2>1, FS_Interval
<1>5. rank \in Injection(F, 0 .. c - 1)
  <2>1. rank \in [F -> 0 .. c - 1]
    BY <1>1, <1>2
  <2>2. \A i, j \in F : i # j => rank[i] # rank[j]
    <3> SUFFICES ASSUME NEW i \in F, NEW j \in F, i # j PROVE rank[i] # rank[j]
      OBVIOUS
    <3> HIDE DEF rank
    <3>1. rank[i] < rank[j] \/ rank[j] < rank[i]
      BY <1>3
    <3> QED
      BY <1>2, <3>1
  <2> HIDE DEF rank
  <2> QED
    BY <2>1, <2>2 DEF Injection, IsInjective
<1> HIDE DEF rank
<1>6. rank \in Surjection(F, 0 .. c - 1)
  BY <1>4, <1>5, FS_Injection
<1>7. IsFiniteSet(First) /\ First \subseteq F
  BY FS_Subset
<1> DEFINE part == [i \in First |-> rank[i]]
<1>8. part \in Bijection(First, 0 .. n - 1)
  <2>1. part \in [First -> 0 .. n - 1]
    BY <1>2
  <2>2. \A i, j \in First : part[i] = part[j] => i = j
    BY <1>5, <1>7 DEF Injection, IsInjective
  <2>3. \A m \in 0 .. n - 1 : \E i \in First : part[i] = m
    <3> SUFFICES ASSUME NEW m \in 0 .. n - 1 PROVE \E i \in First : part[i] = m
      OBVIOUS
    <3>1. m \in 0 .. c - 1
      BY <1>1
    <3>2. PICK i \in F : rank[i] = m
      BY <1>6, <3>1 DEF Surjection
    <3>3. i \in First
      BY <1>2, <3>2
    <3> QED
      BY <3>2, <3>3
  <2> HIDE DEF part
  <2> QED
    BY <2>1, <2>2, <2>3 DEF Bijection, Injection, Surjection, IsInjective
<1>9. Cardinality(0 .. n - 1) = n /\ IsFiniteSet(0 .. n - 1)
  BY FS_Interval
<1>10. ExistsBijection(First, 0 .. n - 1)
  BY <1>8 DEF ExistsBijection
<1> HIDE DEF First
<1>11. Cardinality(First) = n
  BY <1>7, <1>9, <1>10, FS_Bijection
<1> QED
  BY <1>11 DEF First

(* Of a finite set there are subsets of every smaller size. *)
LEMMA SomeAreSoMany ==
  ASSUME NEW m \in Nat, NEW F \in SUBSET (1 .. m), NEW n \in Nat, n <= Cardinality(F)
  PROVE  \E chosen \in SUBSET F : Cardinality(chosen) = n
<1> DEFINE earlier == [i \in F |-> {j \in F : j < i}]
<1>1. IsFiniteSet(F)
  <2>1. IsFiniteSet(1 .. m)
    BY FS_Interval
  <2> QED
    BY <2>1, FS_Subset
<1>2. /\ \A i \in F : earlier[i] \in SUBSET (F \ {i})
      /\ \A i, j \in F : i # j => i \in earlier[j] \/ j \in earlier[i]
      /\ \A i, j \in F : j \in earlier[i] => earlier[j] \subseteq earlier[i]
  <2>1. F \subseteq Nat /\ \A i \in F : earlier[i] = {j \in F : j < i}
    OBVIOUS
  <2> HIDE DEF earlier
  <2>2. \A i \in F : earlier[i] \in SUBSET (F \ {i})
    BY <2>1
  <2>3. \A i, j \in F : i # j => i \in earlier[j] \/ j \in earlier[i]
    <3> SUFFICES ASSUME NEW i \in F, NEW j \in F, i # j PROVE i < j \/ j < i
      BY <2>1
    <3> QED
      BY <2>1
  <2>4. \A i, j \in F : j \in earlier[i] => earlier[j] \subseteq earlier[i]
    <3> SUFFICES ASSUME NEW i \in F, NEW j \in F, NEW l \in F, j < i, l < j PROVE l < i
      BY <2>1
    <3> QED
      BY <2>1
  <2> QED
    BY <2>2, <2>3, <2>4
<1> HIDE DEF earlier
<1>3. Cardinality({i \in F : Cardinality(earlier[i]) < n}) = n
  BY <1>1, <1>2, FirstAreSoMany
<1> QED
  BY <1>3

(* A finite set fits into one that is no smaller. *)
LEMMA Fits ==
  ASSUME NEW A, NEW B, IsFiniteSet(A), IsFiniteSet(B), Cardinality(A) <= Cardinality(B)
  PROVE  \E f : f \in Injection(A, B)
<1> DEFINE a == Cardinality(A)
           b == Cardinality(B)
<1>1. a \in Nat /\ b \in Nat /\ ExistsBijection(1 .. a, A) /\ ExistsBijection(1 .. b, B)
  BY FS_CardinalityType
<1>2. PICK f : f \in Bijection(1 .. b, B)
  BY <1>1 DEF ExistsBijection
<1>3. ExistsBijection(A, 1 .. a)
  BY <1>1, Fun_ExistsBijSymmetric
<1>4. PICK g : g \in Bijection(A, 1 .. a)
  BY <1>3 DEF ExistsBijection
<1> DEFINE h == [x \in A |-> f[g[x]]]
<1>5. \A x \in A : g[x] \in 1 .. b
  BY <1>1, <1>4 DEF Bijection, Injection
<1>6. h \in [A -> B]
  BY <1>2, <1>5 DEF Bijection, Injection
<1>7. \A x, y \in A : h[x] = h[y] => x = y
  <2> SUFFICES ASSUME NEW x \in A, NEW y \in A, h[x] = h[y] PROVE x = y
    OBVIOUS
  <2>1. g[x] = g[y]
    BY <1>2, <1>5 DEF Bijection, Injection, IsInjective
  <2> QED
    BY <1>4, <2>1 DEF Bijection, Injection, IsInjective
<1> QED
  BY <1>6, <1>7 DEF Injection, IsInjective

(* Sets that each fit into a set of their own, of disjoint sets, fit together. *)
LEMMA FitTogether ==
  ASSUME NEW T, NEW C, NEW a, NEW g, NEW b \in Injection(T, C), IsFiniteSet(C),
         \A i \in T : IsFiniteSet(a[i]), \A i \in C : IsFiniteSet(g[i]),
         \A i \in T : Cardinality(a[i]) <= Cardinality(g[b[i]]),
         \A i, j \in C : i # j => g[i] \cap g[j] = {}
  PROVE  Cardinality(UNION {a[i] : i \in T}) <= Cardinality(UNION {g[i] : i \in C})
<1> DEFINE A == UNION {a[i] : i \in T}
           B == UNION {g[i] : i \in C}
           h == [i \in T |-> CHOOSE f : f \in Injection(a[i], g[b[i]])]
           at == [e \in A |-> CHOOSE i \in T : e \in a[i]]
           into == [e \in A |-> h[at[e]][e]]
<1>1. IsFiniteSet(B)
  <2> DEFINE all == {g[i] : i \in C}
             f == [i \in C |-> g[i]]
  <2>1. f \in Surjection(C, all)
    BY DEF Surjection
  <2>2. IsFiniteSet(all)
    <3> HIDE DEF all, f
    <3> QED
      BY <2>1, FS_Surjection
  <2>3. \A x \in all : IsFiniteSet(x)
    OBVIOUS
  <2> HIDE DEF all
  <2>4. IsFiniteSet(UNION all)
    BY <2>2, <2>3, FS_UNION
  <2> QED
    BY <2>4 DEF all
<1>2. \A i \in T : b[i] \in C
  BY DEF Injection
<1>3. \A i, j \in T : b[i] = b[j] => i = j
  BY DEF Injection, IsInjective
<1>4. ASSUME NEW i \in T PROVE h[i] \in Injection(a[i], g[b[i]])
  <2>1. \E f : f \in Injection(a[i], g[b[i]])
    BY <1>2, Fits
  <2> QED
    BY <2>1, Zenon
<1>5. ASSUME NEW e \in A PROVE at[e] \in T /\ e \in a[at[e]]
  BY <1>5
<1> HIDE DEF h, at
<1>6. ASSUME NEW e \in A PROVE into[e] \in g[b[at[e]]] /\ into[e] \in B
  <2>1. into[e] \in g[b[at[e]]]
    BY <1>4, <1>5, <1>6 DEF Injection
  <2> QED
    BY <1>2, <1>5, <1>6, <2>1
<1>7. \A e, x \in A : into[e] = into[x] => e = x
  <2> SUFFICES ASSUME NEW e \in A, NEW x \in A, into[e] = into[x] PROVE e = x
    OBVIOUS
  <2>1. b[at[e]] = b[at[x]]
    BY <1>2, <1>5, <1>6
  <2>2. at[e] = at[x]
    BY <1>3, <1>5, <2>1
  <2>3. h[at[e]][e] = h[at[e]][x]
    BY <2>2
  <2> HIDE DEF A, into
  <2> QED
    BY <1>4, <1>5, <2>2, <2>3 DEF Injection, IsInjective
<1>8. into \in [A -> B]
  BY <1>6
<1> HIDE DEF A, B, into
<1>9. into \in Injection(A, B)
  BY <1>7, <1>8 DEF Injection, IsInjective
<1>10. Cardinality(A) <= Cardinality(B)
  BY <1>1, <1>9, FS_Injection
<1> QED
  BY <1>10 DEF A, B

(* The ways to make a quorum of a list of the quorums of the keys in it. *)
Picks(k, quorum) ==
  IF k.keys = <<>> \/ Needed(k) > Len(k.keys) THEN {}
  ELSE UNION {{UNION {f[i] : i \in chosen} :
                 f \in {g \in [chosen -> UNION {quorum[k.keys[i]] : i \in chosen}] :
                          \A i \in chosen : g[i] \in quorum[k.keys[i]]}}
              : chosen \in kSubset(Needed(k), DOMAIN k.keys)}

QuorumsOf(f, k) == IF k \in PublicKeys THEN {{k}} ELSE Picks(k, f)

Picked(k, f, q, chosen, g) ==
  /\ chosen \in SUBSET DOMAIN k.keys /\ Cardinality(chosen) = Needed(k)
  /\ DOMAIN g = chosen /\ g = [i \in chosen |-> g[i]]
  /\ \A i \in chosen : g[i] \in f[k.keys[i]]
  /\ q = UNION {g[i] : i \in chosen}

(* A quorum of a list: which keys of the list it satisfies, and with what. *)
LEMMA PicksAre ==
  ASSUME NEW k \in KeyLists, NEW f, NEW q
  PROVE  q \in Picks(k, f) <=>
           /\ k.keys # <<>> /\ Needed(k) <= Len(k.keys)
           /\ \E chosen, g : Picked(k, f, q, chosen, g)
<1>1. (Needed(k) > Len(k.keys)) <=> ~(Needed(k) <= Len(k.keys))
  <2>1. Needed(k) \in Nat /\ Len(k.keys) \in Nat
    BY InList DEF Needed
  <2> QED
    BY <2>1
<1>2. ASSUME q \in Picks(k, f)
      PROVE  k.keys # <<>> /\ Needed(k) <= Len(k.keys) /\ \E chosen, g : Picked(k, f, q, chosen, g)
  <2> DEFINE Made(chosen) ==
               {UNION {h[i] : i \in chosen} :
                  h \in {g \in [chosen -> UNION {f[k.keys[i]] : i \in chosen}] :
                           \A i \in chosen : g[i] \in f[k.keys[i]]}}
  <2>1. q \in UNION {Made(chosen) : chosen \in kSubset(Needed(k), DOMAIN k.keys)}
    BY <1>1, <1>2 DEF Picks
  <2>2. PICK chosen \in kSubset(Needed(k), DOMAIN k.keys) : q \in Made(chosen)
    <3> HIDE DEF Made
    <3> QED
      BY <2>1
  <2>3. chosen \in SUBSET DOMAIN k.keys /\ Cardinality(chosen) = Needed(k)
    BY <2>2 DEF kSubset
  <2>4. PICK g \in [chosen -> UNION {f[k.keys[i]] : i \in chosen}] :
               /\ \A i \in chosen : g[i] \in f[k.keys[i]]
               /\ q = UNION {g[i] : i \in chosen}
    BY <2>2
  <2>5. Picked(k, f, q, chosen, g)
    BY <2>3, <2>4 DEF Picked
  <2> QED
    BY <1>1, <1>2, <2>5 DEF Picks
<1>3. ASSUME k.keys # <<>>, Needed(k) <= Len(k.keys), NEW chosen, NEW g, Picked(k, f, q, chosen, g)
      PROVE  q \in Picks(k, f)
  <2>1. g \in [chosen -> UNION {f[k.keys[i]] : i \in chosen}]
    BY <1>3 DEF Picked
  <2>2. chosen \in kSubset(Needed(k), DOMAIN k.keys)
    BY <1>3 DEF Picked, kSubset
  <2> QED
    BY <1>1, <1>3, <2>1, <2>2 DEF Picks, Picked
<1> QED
  BY <1>2, <1>3

(* Quorums are sets of public keys, and made of quorums. *)
LEMMA QuorumsAre ==
  ASSUME NEW k \in Keys
  PROVE  /\ Quorums(k) \in SUBSET SUBSET PublicKeys
         /\ k \in PublicKeys => Quorums(k) = {{k}}
         /\ k \in KeyLists => Quorums(k) = Picks(k, [x \in Keys |-> Quorums(x)])
<1> DEFINE X == SUBSET SUBSET PublicKeys
           G == [x \in Keys |-> [f \in [Keys -> X] |-> QuorumsOf(f, x)]]
           Eq(f) == f = [x \in Keys |-> QuorumsOf(f, x)]
           v == CHOOSE f : Eq(f)
<1>1. Depends(X, G)
  <2>1. ASSUME NEW x \in Keys, NEW f \in [Keys -> X] PROVE QuorumsOf(f, x) \in X
    <3>1. CASE x \in PublicKeys
      BY <3>1 DEF QuorumsOf
    <3>2. CASE x \notin PublicKeys
      <4> SUFFICES ASSUME NEW q \in Picks(x, f) PROVE q \subseteq PublicKeys
        BY <3>2 DEF QuorumsOf
      <4>1. x \in KeyLists
        BY <3>2 DEF Keys
      <4>2. PICK chosen, g : Picked(x, f, q, chosen, g)
        BY <4>1, PicksAre
      <4>3. \A i \in chosen : f[x.keys[i]] \in X
        BY <4>1, <4>2, InList DEF Picked
      <4>4. \A i \in chosen : g[i] \subseteq PublicKeys
        BY <4>2, <4>3 DEF Picked
      <4> QED
        BY <4>2, <4>4 DEF Picked
    <3> QED
      BY <3>1, <3>2
  <2>2. ASSUME NEW x \in Keys, NEW f \in [Keys -> X], NEW g \in [Keys -> X],
               x \in KeyLists => \A i \in DOMAIN x.keys : f[x.keys[i]] = g[x.keys[i]]
        PROVE  QuorumsOf(f, x) = QuorumsOf(g, x)
    <3>1. CASE x \in PublicKeys
      BY <3>1 DEF QuorumsOf
    <3>2. CASE x \notin PublicKeys
      <4>1. x \in KeyLists
        BY <3>2 DEF Keys
      <4>2. \A q, chosen, h : Picked(x, f, q, chosen, h) <=> Picked(x, g, q, chosen, h)
        BY <2>2, <4>1 DEF Picked
      <4>3. \A q : q \in Picks(x, f) <=> q \in Picks(x, g)
        BY <4>1, <4>2, PicksAre
      <4>4. Picks(x, f) = Picks(x, g)
        <5>1. Picks(x, f) = {q \in Picks(x, f) : TRUE} /\ Picks(x, g) = {q \in Picks(x, g) : TRUE}
          OBVIOUS
        <5> QED
          BY <4>3, <5>1
      <4> QED
        BY <3>2, <4>4 DEF QuorumsOf
    <3> QED
      BY <3>1, <3>2
  <2> HIDE DEF X
  <2> QED
    BY <2>1, <2>2 DEF Depends
<1>2. PICK f \in [Keys -> X] : Solves(G, Keys, f)
  <2>1. {} \in X
    OBVIOUS
  <2> HIDE DEF X, G
  <2> QED
    BY <1>1, <2>1, Recursion
<1>3. Eq(f)
  BY <1>2 DEF Solves
<1>4. \A x : Quorums(x) = v[x]
  BY DEF Quorums, QuorumsOf, Picks
<1> HIDE DEF Eq
<1>5. Eq(v)
  BY <1>3, Zenon
<1>6. v = [x \in Keys |-> QuorumsOf(v, x)]
  BY <1>5 DEF Eq
<1>7. v \in [Keys -> X]
  <2> DEFINE P == {x \in Keys : v[x] \in X}
  <2> HIDE DEF v
  <2>1. PublicKeys \subseteq P
    BY <1>6 DEF QuorumsOf, Keys
  <2>2. ASSUME NEW list \in KeyLists, \A i \in DOMAIN list.keys : list.keys[i] \in P
        PROVE  list \in P
    <3>1. list \in Keys /\ v[list] = Picks(list, v)
      BY <1>6, InList DEF QuorumsOf
    <3> SUFFICES ASSUME NEW q \in Picks(list, v) PROVE q \subseteq PublicKeys
      BY <3>1
    <3>2. PICK chosen, g : Picked(list, v, q, chosen, g)
      BY PicksAre
    <3>3. \A i \in chosen : g[i] \subseteq PublicKeys
      BY <2>2, <3>2 DEF Picked
    <3> QED
      BY <3>2, <3>3 DEF Picked
  <2>3. P \in SUBSET Keys
    OBVIOUS
  <2> HIDE DEF P
  <2>4. P = Keys
    BY <2>1, <2>2, <2>3, KeysInduct
  <2> QED
    BY <1>6, <2>4 DEF P
<1> HIDE DEF v
<1>8. v[k] = QuorumsOf(v, k) /\ v[k] \in X
  BY <1>6, <1>7
<1>9. v = [x \in Keys |-> Quorums(x)]
  BY <1>4, <1>7
<1>10. k \in PublicKeys => Quorums(k) = {{k}}
  BY <1>4, <1>8 DEF QuorumsOf
<1>11. k \in KeyLists => Quorums(k) = Picks(k, [x \in Keys |-> Quorums(x)])
  BY <1>4, <1>8, <1>9, InList DEF QuorumsOf
<1> QED
  BY <1>4, <1>8, <1>10, <1>11

(* Of a list, a quorum for each of as many keys as are needed. *)
LEMMA QuorumOfList ==
  ASSUME NEW k \in KeyLists, NEW q
  PROVE  q \in Quorums(k) <=>
           /\ k.keys # <<>> /\ Needed(k) <= Len(k.keys)
           /\ \E chosen, g :
                /\ chosen \in SUBSET DOMAIN k.keys /\ Cardinality(chosen) = Needed(k)
                /\ DOMAIN g = chosen /\ g = [i \in chosen |-> g[i]]
                /\ \A i \in chosen : g[i] \in Quorums(k.keys[i])
                /\ q = UNION {g[i] : i \in chosen}
<1> DEFINE f == [x \in Keys |-> Quorums(x)]
<1>1. \A i \in DOMAIN k.keys : f[k.keys[i]] = Quorums(k.keys[i])
  BY InList
<1>2. Quorums(k) = Picks(k, f)
  BY InList, QuorumsAre
<1> HIDE DEF f
<1>3. q \in Quorums(k) <=> /\ k.keys # <<>> /\ Needed(k) <= Len(k.keys)
                           /\ \E chosen, g : Picked(k, f, q, chosen, g)
  BY <1>2, PicksAre
<1>4. \A chosen, g : Picked(k, f, q, chosen, g) <=>
         /\ chosen \in SUBSET DOMAIN k.keys /\ Cardinality(chosen) = Needed(k)
         /\ DOMAIN g = chosen /\ g = [i \in chosen |-> g[i]]
         /\ \A i \in chosen : g[i] \in Quorums(k.keys[i])
         /\ q = UNION {g[i] : i \in chosen}
  BY <1>1 DEF Picked
<1> QED
  BY <1>3, <1>4

(* ... of which every quorum is made. *)
LEMMA MadeOf ==
  ASSUME NEW k \in KeyLists, NEW q \in Quorums(k)
  PROVE  \E chosen, g :
           /\ chosen \in SUBSET DOMAIN k.keys /\ Cardinality(chosen) = Needed(k)
           /\ \A i \in chosen : g[i] \in Quorums(k.keys[i])
           /\ q = UNION {g[i] : i \in chosen}
<1>1. PICK chosen, g :
        /\ chosen \in SUBSET DOMAIN k.keys /\ Cardinality(chosen) = Needed(k)
        /\ DOMAIN g = chosen /\ g = [i \in chosen |-> g[i]]
        /\ \A i \in chosen : g[i] \in Quorums(k.keys[i])
        /\ q = UNION {g[i] : i \in chosen}
  BY QuorumOfList
<1> QED
  BY <1>1

(* Some places of a list: how many, and how many are needed. *)
LEMMA Counted ==
  ASSUME NEW k \in KeyLists, NEW V \in SUBSET DOMAIN k.keys
  PROVE  /\ IsFiniteSet(V) /\ Cardinality(V) \in Nat /\ Cardinality(V) <= Len(k.keys)
         /\ Needed(k) \in Nat /\ (k.keys # <<>> => Needed(k) > 0)
         /\ (k.keys = <<>> => V = {} /\ Cardinality(V) = 0)
<1>1. Len(k.keys) \in Nat /\ DOMAIN k.keys = 1 .. Len(k.keys) /\ k.threshold \in Nat
      /\ k.keys \in Seq(Keys)
  BY InList, KeyAssumption
<1>2. IsFiniteSet(1 .. Len(k.keys)) /\ Cardinality(1 .. Len(k.keys)) = Len(k.keys)
  BY <1>1, FS_Interval
<1>3. IsFiniteSet(V) /\ Cardinality(V) <= Len(k.keys)
  BY <1>1, <1>2, FS_Subset
<1>4. k.keys # <<>> => Len(k.keys) > 0
  BY <1>1
<1>5. k.keys = <<>> => V = {}
  BY <1>1
<1> QED
  BY <1>1, <1>3, <1>4, <1>5, FS_CardinalityType, FS_EmptySet DEF Needed

(* Signers sign for a list when they sign for enough of its keys. *)
LEMMA ValidOfList ==
  ASSUME NEW signers, NEW k \in KeyLists
  PROVE  HasValidSignatureKey(signers, k) <=>
           /\ k.keys # <<>>
           /\ Needed(k) <= Cardinality({i \in DOMAIN k.keys : HasValidSignatureKey(signers, k.keys[i])})
<1> DEFINE V == {i \in DOMAIN k.keys : HasValidSignatureKey(signers, k.keys[i])}
<1>1. Cardinality(V) \in Nat /\ Needed(k) \in Nat
  BY Counted
<1>2. HasValidSignatureKey(signers, k) <=> (k.keys # <<>> /\ Cardinality(V) >= Needed(k))
  BY InList, ValidIs
<1> HIDE DEF V
<1>3. Cardinality(V) >= Needed(k) <=> Needed(k) <= Cardinality(V)
  BY <1>1
<1> QED
  BY <1>2, <1>3 DEF V

(* A public key has to be among them. *)
LEMMA ValidOfKey ==
  ASSUME NEW signers, NEW k \in PublicKeys
  PROVE  HasValidSignatureKey(signers, k) <=> k \in signers
BY ValidIs DEF Keys

(* Signers sign for a key just when a quorum of it is among them. *)
LEMMA ValidByQuorum ==
  ASSUME NEW signers
  PROVE  \A k \in Keys : HasValidSignatureKey(signers, k) <=> \E q \in Quorums(k) : q \subseteq signers
<1> DEFINE P == {k \in Keys : HasValidSignatureKey(signers, k) <=>
                                \E q \in Quorums(k) : q \subseteq signers}
<1>1. PublicKeys \subseteq P
  <2> SUFFICES ASSUME NEW k \in PublicKeys PROVE k \in P
    OBVIOUS
  <2>1. k \in Keys /\ Quorums(k) = {{k}}
    BY QuorumsAre DEF Keys
  <2>2. HasValidSignatureKey(signers, k) <=> k \in signers
    BY ValidOfKey
  <2>3. (\E q \in Quorums(k) : q \subseteq signers) <=> k \in signers
    BY <2>1
  <2> QED
    BY <2>1, <2>2, <2>3
<1>2. ASSUME NEW list \in KeyLists, \A i \in DOMAIN list.keys : list.keys[i] \in P
      PROVE  list \in P
  <2> DEFINE V == {i \in DOMAIN list.keys : HasValidSignatureKey(signers, list.keys[i])}
             n == Needed(list)
  <2>1. \A i \in DOMAIN list.keys :
          i \in V <=> \E q \in Quorums(list.keys[i]) : q \subseteq signers
    BY <1>2
  <2>2. /\ IsFiniteSet(V) /\ Cardinality(V) \in Nat /\ Cardinality(V) <= Len(list.keys)
        /\ n \in Nat /\ Len(list.keys) \in Nat /\ V \in SUBSET (1 .. Len(list.keys))
        /\ HasValidSignatureKey(signers, list) <=> (list.keys # <<>> /\ n <= Cardinality(V))
    BY Counted, InList, ValidOfList
  <2> HIDE DEF V, n
  <2>3. ASSUME HasValidSignatureKey(signers, list)
        PROVE  \E q \in Quorums(list) : q \subseteq signers
    <3>1. PICK chosen \in SUBSET V : Cardinality(chosen) = n
      BY <2>2, <2>3, SomeAreSoMany
    <3> DEFINE g == [i \in chosen |-> CHOOSE q \in Quorums(list.keys[i]) : q \subseteq signers]
               q == UNION {g[i] : i \in chosen}
    <3>2. chosen \in SUBSET DOMAIN list.keys
      BY <3>1 DEF V
    <3>3. ASSUME NEW i \in chosen PROVE g[i] \in Quorums(list.keys[i]) /\ g[i] \subseteq signers
      <4>1. \E x \in Quorums(list.keys[i]) : x \subseteq signers
        BY <2>1, <3>1, <3>2
      <4> QED
        BY <4>1
    <3>4. DOMAIN g = chosen /\ g = [i \in chosen |-> g[i]]
      OBVIOUS
    <3> HIDE DEF g
    <3>5. n <= Len(list.keys) /\ list.keys # <<>>
      BY <2>2, <2>3
    <3>6. q \in Quorums(list)
      BY <3>1, <3>2, <3>3, <3>4, <3>5, QuorumOfList DEF n
    <3>7. q \subseteq signers
      BY <3>3
    <3> QED
      BY <3>6, <3>7
  <2>4. ASSUME NEW q \in Quorums(list), q \subseteq signers
        PROVE  HasValidSignatureKey(signers, list)
    <3>1. list.keys # <<>> /\ n <= Len(list.keys)
      BY QuorumOfList DEF n
    <3>2. PICK chosen, g :
            /\ chosen \in SUBSET DOMAIN list.keys /\ Cardinality(chosen) = n
            /\ \A i \in chosen : g[i] \in Quorums(list.keys[i])
            /\ q = UNION {g[i] : i \in chosen}
      BY MadeOf DEF n
    <3>3. \A i \in chosen : g[i] \subseteq signers
      BY <2>4, <3>2
    <3>4. chosen \in SUBSET V
      BY <2>1, <3>2, <3>3
    <3>5. n <= Cardinality(V)
      BY <2>2, <3>2, <3>4, FS_Subset
    <3> QED
      BY <2>2, <3>1, <3>5
  <2> QED
    BY <2>3, <2>4, InList
<1>3. P \in SUBSET Keys
  OBVIOUS
<1> HIDE DEF P
<1>4. P = Keys
  BY <1>1, <1>2, <1>3, KeysInduct
<1> QED
  BY <1>4 DEF P

(* More signers never sign for less. *)
LEMMA ValidGrows ==
  ASSUME NEW signers, NEW more, signers \subseteq more, NEW k \in Keys,
         HasValidSignatureKey(signers, k)
  PROVE  HasValidSignatureKey(more, k)
BY ValidByQuorum

-----------------------------------------------------------------------------
(* What a shortened list is made of *)

(* Of a public key it is the key, if it has signed. *)
LEMMA ShortOfKey ==
  ASSUME NEW signers, NEW k \in PublicKeys
  PROVE  ComputeShortenedPublicKeyList(signers, k) = IF k \in signers THEN {{<<<<>>, k>>}} ELSE {}
BY ShortIs DEF Keys

(* Of a list it is what is taken, if there is enough. *)
LEMMA ShortOfList ==
  ASSUME NEW signers, NEW k \in KeyLists
  PROVE  ComputeShortenedPublicKeyList(signers, k) =
           IF Enough(k, PartsOf(signers, k))
           THEN {UNION {PartsOf(signers, k)[i] : i \in Taken(k, PartsOf(signers, k))}}
           ELSE {}
BY ShortIs, InList

(* A shortened list has finitely many entries. *)
LEMMA ShortIsEntries ==
  ASSUME NEW signers
  PROVE  \A k \in Keys : \A s \in ComputeShortenedPublicKeyList(signers, k) : 
           IsFiniteSet(s) /\ s \subseteq Entries
<1> DEFINE Short(k) == ComputeShortenedPublicKeyList(signers, k)
           P == {k \in Keys : \A s \in Short(k) : IsFiniteSet(s) /\ s \subseteq Entries}
<1>1. PublicKeys \subseteq P
  <2> SUFFICES ASSUME NEW k \in PublicKeys, NEW s \in Short(k)
               PROVE  k \in Keys /\ IsFiniteSet(s) /\ s \subseteq Entries
    BY DEF Keys
  <2>1. s = {<<<<>>, k>>}
    BY ShortOfKey
  <2> QED
    BY <2>1, EmptyPath, FS_Singleton DEF Keys
<1>2. ASSUME NEW list \in KeyLists, \A i \in DOMAIN list.keys : list.keys[i] \in P
      PROVE  list \in P
  <2> DEFINE parts == PartsOf(signers, list)
             taken == Taken(list, parts)
  <2>1. SUFFICES ASSUME NEW s \in Short(list) PROVE IsFiniteSet(s) /\ s \subseteq Entries
    BY InList
  <2>2. s = UNION {parts[i] : i \in taken}
    BY <2>1, ShortOfList
  <2>3. taken \in SUBSET DOMAIN list.keys
    BY DEF Taken, Found, PartsOf
  <2>4. IsFiniteSet(taken)
    BY <2>3, Counted
  <2> HIDE DEF taken
  <2>5. ASSUME NEW i \in DOMAIN list.keys PROVE IsFiniteSet(parts[i]) /\ parts[i] \subseteq Entries
    <3> DEFINE below == UNION Short(list.keys[i])
               f == [e \in below |-> <<<<i>> \o e[1], e[2]>>]
    <3>1. \/ Short(list.keys[i]) = {}
          \/ \E t : Short(list.keys[i]) = {t}
      <4>1. list.keys[i] \in Keys
        BY InList
      <4> QED
        BY <4>1, ShortIs
    <3>2. IsFiniteSet(below) /\ below \subseteq Entries
      <4>1. \A t \in Short(list.keys[i]) : IsFiniteSet(t) /\ t \subseteq Entries
        BY <1>2
      <4> HIDE DEF P, Short
      <4> QED
        BY <3>1, <4>1, FS_EmptySet
    <3>3. parts[i] = {<<<<i>> \o e[1], e[2]>> : e \in below}
      BY DEF PartsOf
    <3>4. i \in Nat
      BY InList
    <3> HIDE DEF below, parts
    <3>5. f \in Surjection(below, parts[i])
      BY <3>3 DEF Surjection
    <3>6. \A e \in below : <<<<i>> \o e[1], e[2]>> \in Entries
      BY <3>2, <3>4, Deeper
    <3> HIDE DEF f
    <3> QED
      BY <3>2, <3>3, <3>5, <3>6, FS_Surjection
  <2> DEFINE all == {parts[i] : i \in taken}
             f == [i \in taken |-> parts[i]]
  <2> HIDE DEF parts
  <2>6. f \in Surjection(taken, all)
    BY DEF Surjection
  <2>7. \A x \in all : IsFiniteSet(x) /\ x \subseteq Entries
    BY <2>3, <2>5
  <2> HIDE DEF f, all
  <2>8. IsFiniteSet(all)
    BY <2>4, <2>6, FS_Surjection
  <2>9. IsFiniteSet(UNION all) /\ UNION all \subseteq Entries
    BY <2>7, <2>8, FS_UNION
  <2> QED
    BY <2>2, <2>9 DEF all
<1>3. P \in SUBSET Keys
  OBVIOUS
<1> HIDE DEF P
<1>4. P = Keys
  BY <1>1, <1>2, <1>3, KeysInduct
<1> QED
  BY <1>4 DEF P

(* There is one at most. *)
LEMMA OneShort ==
  ASSUME NEW signers, NEW k \in Keys
  PROVE  \/ ComputeShortenedPublicKeyList(signers, k) = {}
         \/ \E s : ComputeShortenedPublicKeyList(signers, k) = {s}
BY ShortIs

(* What is at a place of a list is the shortened list of the key there, one *)
(* step further down: as many entries, with the same signers.              *)
LEMMA PartIs ==
  ASSUME NEW signers, NEW k \in KeyLists, NEW i \in DOMAIN k.keys
  PROVE  LET part == PartsOf(signers, k)[i]
             below == UNION ComputeShortenedPublicKeyList(signers, k.keys[i])
         IN /\ IsFiniteSet(below) /\ IsFiniteSet(part)
            /\ Cardinality(part) = Cardinality(below)
            /\ SignersOf(part) = SignersOf(below)
            /\ SignersOf(below) \subseteq PublicKeys
            /\ part = {} <=> below = {}
<1> DEFINE part == PartsOf(signers, k)[i]
           below == UNION ComputeShortenedPublicKeyList(signers, k.keys[i])
           f == [e \in below |-> <<<<i>> \o e[1], e[2]>>]
<1>1. k.keys[i] \in Keys /\ i \in Nat
  BY InList
<1>2. IsFiniteSet(below) /\ below \subseteq Entries
  <2> DEFINE short == ComputeShortenedPublicKeyList(signers, k.keys[i])
  <2>1. \A t \in short : IsFiniteSet(t) /\ t \subseteq Entries
    BY <1>1, ShortIsEntries
  <2>2. short = {} \/ \E s : short = {s}
    BY <1>1, OneShort
  <2> HIDE DEF short
  <2>3. IsFiniteSet(UNION short) /\ UNION short \subseteq Entries
    BY <2>1, <2>2, FS_EmptySet
  <2> QED
    BY <2>3 DEF short
<1>3. part = {<<<<i>> \o e[1], e[2]>> : e \in below}
  BY DEF PartsOf
<1> HIDE DEF part, below
<1>4. f \in Bijection(below, part)
  <2>1. f \in [below -> part] /\ \A t \in part : \E s \in below : f[s] = t
    BY <1>3
  <2>2. ASSUME NEW d \in below, NEW e \in below, f[d] = f[e] PROVE d = e
    <3>1. /\ d[1] \in Seq(Nat) /\ e[1] \in Seq(Nat) /\ d = <<d[1], d[2]>> /\ e = <<e[1], e[2]>>
      BY <1>1, <1>2, Deeper
    <3>2. <<i>> \o d[1] = <<i>> \o e[1] /\ d[2] = e[2]
      BY <2>2
    <3> QED
      BY <1>1, <3>1, <3>2, DeeperApart
  <2> HIDE DEF f
  <2> QED
    BY <2>1, <2>2 DEF Bijection, Injection, Surjection, IsInjective
<1>5. IsFiniteSet(part) /\ Cardinality(part) = Cardinality(below)
  <2>1. ExistsBijection(below, part)
    BY <1>4 DEF ExistsBijection
  <2> QED
    BY <1>2, <2>1, FS_Bijection
<1>6. SignersOf(part) = SignersOf(below)
  <2>1. ASSUME NEW e \in below PROVE e[2] \in SignersOf(part)
    <3>1. <<<<i>> \o e[1], e[2]>> \in part /\ <<<<i>> \o e[1], e[2]>>[2] = e[2]
      BY <1>3
    <3> QED
      BY <3>1 DEF SignersOf
  <2>2. ASSUME NEW d \in part PROVE d[2] \in SignersOf(below)
    BY <1>3 DEF SignersOf
  <2> QED
    BY <2>1, <2>2 DEF SignersOf
<1>7. SignersOf(below) \subseteq PublicKeys
  BY <1>2 DEF SignersOf, Entries
<1>8. part = {} <=> below = {}
  BY <1>3
<1> QED
  BY <1>2, <1>5, <1>6, <1>7, <1>8 DEF part, below

-----------------------------------------------------------------------------
(* Those that are taken *)

(* Of those that are found as many are taken as are needed, and none that  *)
(* is left has a shorter list than one that is taken.                      *)
LEMMA TakenAre ==
  ASSUME NEW signers, NEW k \in KeyLists, Enough(k, PartsOf(signers, k))
  PROVE  LET parts == PartsOf(signers, k)
             taken == Taken(k, parts)
         IN /\ taken \in SUBSET Found(parts) /\ Found(parts) \in SUBSET DOMAIN k.keys
            /\ Cardinality(taken) = Needed(k)
            /\ \A i \in taken, j \in Found(parts) \ taken :
                 Cardinality(parts[i]) <= Cardinality(parts[j])
<1> DEFINE parts == PartsOf(signers, k)
           F == Found(parts)
           earlier == [i \in F |-> {j \in F : Comes(k, parts, j, i)}]
           n == Needed(k)
           taken == Taken(k, parts)
           size == [i \in F |-> Cardinality(parts[i])]
<1>1. F \in SUBSET DOMAIN k.keys
  BY DEF Found, PartsOf
<1>2. ASSUME NEW i \in F
      PROVE  i \in Nat /\ size[i] \in Nat /\ size[i] > 0 /\ (k.keys[i] \in PublicKeys => size[i] = 1)
             /\ (k.keys[i] \in KeyLists <=> k.keys[i] \notin PublicKeys)
  <2> DEFINE below == UNION ComputeShortenedPublicKeyList(signers, k.keys[i])
  <2>1. /\ IsFiniteSet(below) /\ size[i] = Cardinality(below) /\ below # {}
    BY <1>1, PartIs DEF Found
  <2>2. size[i] \in Nat /\ size[i] # 0
    <3> HIDE DEF below, size
    <3> QED
      BY <2>1, FS_CardinalityType, FS_EmptySet
  <2>3. ASSUME k.keys[i] \in PublicKeys PROVE size[i] = 1
    <3>1. below = {<<<<>>, k.keys[i]>>}
      BY <2>1, <2>3, ShortOfKey
    <3> HIDE DEF below, size
    <3> QED
      BY <2>1, <3>1, FS_Singleton
  <2>4. k.keys[i] \in Keys /\ i \in Nat
    BY <1>1, InList
  <2> QED
    BY <2>2, <2>3, <2>4, KeyAssumption DEF Keys
<1>3. ASSUME NEW i \in F, NEW j \in F
      PROVE  j \in earlier[i] <=>
               \/ k.keys[j] \in PublicKeys /\ k.keys[i] \notin PublicKeys
               \/ /\ k.keys[j] \in PublicKeys <=> k.keys[i] \in PublicKeys
                  /\ \/ size[j] < size[i]
                     \/ size[j] = size[i] /\ j < i
  <2>1. j \in earlier[i] <=> Comes(k, parts, j, i)
    OBVIOUS
  <2>2. size[i] = Cardinality(parts[i]) /\ size[j] = Cardinality(parts[j])
    OBVIOUS
  <2> HIDE DEF earlier, F, parts, size
  <2> QED
    BY <1>2, <2>1, <2>2 DEF Comes
<1>4. \A i \in F : earlier[i] \subseteq F
  OBVIOUS
<1>5. IsFiniteSet(F) /\ n \in Nat /\ n <= Cardinality(F)
  <2>1. IsFiniteSet(F) /\ n \in Nat /\ Cardinality(F) \in Nat
    BY <1>1, Counted
  <2>2. Cardinality(F) >= n
    BY DEF Enough
  <2> HIDE DEF F, n
  <2> QED
    BY <2>1, <2>2
<1>6. taken = {i \in F : Cardinality(earlier[i]) < n}
  BY DEF Taken
<1>7. \A i \in F : size[i] = Cardinality(parts[i])
  OBVIOUS
<1> HIDE DEF parts, F, earlier, n, taken, size
<1>8. \A i \in F : earlier[i] \in SUBSET (F \ {i})
  <2> SUFFICES ASSUME NEW i \in F PROVE i \notin earlier[i]
    BY <1>4
  <2> QED
    BY <1>2, <1>3
<1>9. \A i, j \in F : i # j => i \in earlier[j] \/ j \in earlier[i]
  <2> SUFFICES ASSUME NEW i \in F, NEW j \in F, i # j PROVE i \in earlier[j] \/ j \in earlier[i]
    OBVIOUS
  <2>1. (i < j \/ j < i) /\ (size[i] < size[j] \/ size[j] < size[i] \/ size[i] = size[j])
    BY <1>2
  <2> QED
    BY <1>3, <2>1
<1>10. \A i, j \in F : j \in earlier[i] => earlier[j] \subseteq earlier[i]
  <2> SUFFICES ASSUME NEW i \in F, NEW j \in F, j \in earlier[i], NEW l \in earlier[j]
               PROVE  l \in earlier[i]
    OBVIOUS
  <2>1. l \in F
    BY <1>4
  <2>2. /\ i \in Nat /\ j \in Nat /\ l \in Nat
        /\ size[i] \in Nat /\ size[j] \in Nat /\ size[l] \in Nat
    BY <1>2, <2>1
  <2> QED
    BY <1>3, <2>1, <2>2
<1>11. Cardinality(taken) = n
  BY <1>5, <1>6, <1>8, <1>9, <1>10, FirstAreSoMany
<1>12. ASSUME NEW i \in taken, NEW j \in F \ taken
       PROVE  Cardinality(parts[i]) <= Cardinality(parts[j])
  <2>1. i \in F /\ i # j
    BY <1>6
  <2>2. i \in earlier[j]
    <3> SUFFICES ASSUME j \in earlier[i] PROVE FALSE
      BY <1>9, <2>1
    <3>1. earlier[j] \in SUBSET earlier[i]
      BY <1>10, <2>1
    <3>2. IsFiniteSet(earlier[i])
      BY <1>4, <1>5, <2>1, FS_Subset
    <3>3. IsFiniteSet(earlier[j]) /\ Cardinality(earlier[j]) <= Cardinality(earlier[i])
      BY <3>1, <3>2, FS_Subset
    <3>4. Cardinality(earlier[j]) \in Nat /\ Cardinality(earlier[i]) \in Nat
      BY <3>2, <3>3, FS_CardinalityType
    <3>5. Cardinality(earlier[i]) < n /\ ~(Cardinality(earlier[j]) < n)
      BY <1>6, <2>1
    <3> QED
      BY <1>5, <3>3, <3>4, <3>5
  <2>3. size[i] <= size[j]
    BY <1>2, <1>3, <2>1, <2>2
  <2> QED
    BY <1>7, <2>1, <2>3
<1>13. taken \in SUBSET F
  BY <1>6
<1> QED
  BY <1>1, <1>11, <1>12, <1>13 DEF parts, F, taken, n

-----------------------------------------------------------------------------
(* The shortened list signs for the key *)

(* There is an entry of a shortened list when the signers sign for the key. *)
LEMMA ShortWhenValid ==
  ASSUME NEW signers
  PROVE  \A k \in Keys : HasValidSignatureKey(signers, k) <=>
                           \E s \in ComputeShortenedPublicKeyList(signers, k) : s # {}
<1> DEFINE Short(k) == ComputeShortenedPublicKeyList(signers, k)
           Some(k) == \E s \in Short(k) : s # {}
           P == {k \in Keys : HasValidSignatureKey(signers, k) <=> Some(k)}
<1>1. PublicKeys \subseteq P
  <2> SUFFICES ASSUME NEW k \in PublicKeys PROVE k \in P
    OBVIOUS
  <2>1. HasValidSignatureKey(signers, k) <=> k \in signers
    BY ValidOfKey
  <2>2. Some(k) <=> k \in signers
    BY ShortOfKey
  <2> QED
    BY <2>1, <2>2 DEF Keys
<1>2. ASSUME NEW list \in KeyLists, \A i \in DOMAIN list.keys : list.keys[i] \in P
      PROVE  list \in P
  <2> DEFINE V == {i \in DOMAIN list.keys : HasValidSignatureKey(signers, list.keys[i])}
             parts == PartsOf(signers, list)
             taken == Taken(list, parts)
  <2>1. V = Found(parts)
    <3>1. DOMAIN parts = DOMAIN list.keys
      BY DEF PartsOf
    <3>2. \A i \in DOMAIN list.keys : parts[i] # {} <=> Some(list.keys[i])
      <4> SUFFICES ASSUME NEW i \in DOMAIN list.keys
                   PROVE  parts[i] # {} <=> Some(list.keys[i])
        OBVIOUS
      <4>1. parts[i] = {} <=> UNION Short(list.keys[i]) = {}
        BY PartIs
      <4> HIDE DEF parts, Short
      <4>2. UNION Short(list.keys[i]) # {} <=> \E s \in Short(list.keys[i]) : s # {}
        <5>1. ASSUME UNION Short(list.keys[i]) # {}
              PROVE  \E s \in Short(list.keys[i]) : s # {}
          BY <5>1
        <5> QED
          BY <5>1
      <4> QED
        BY <4>1, <4>2
    <3> HIDE DEF parts, Some
    <3> QED
      BY <1>2, <3>1, <3>2 DEF Found
  <2>2. /\ Cardinality(V) \in Nat /\ Needed(list) \in Nat
        /\ list.keys # <<>> => Needed(list) > 0
        /\ list.keys = <<>> => V = {}
        /\ HasValidSignatureKey(signers, list) <=>
             (list.keys # <<>> /\ Needed(list) <= Cardinality(V))
    BY Counted, ValidOfList
  <2>3. Enough(list, parts) <=> Needed(list) <= Cardinality(V)
    <3>1. Enough(list, parts) <=> Cardinality(V) >= Needed(list)
      BY <2>1 DEF Enough
    <3> HIDE DEF V, parts
    <3> QED
      BY <2>2, <3>1
  <2>4. Short(list) = IF Enough(list, parts) THEN {UNION {parts[i] : i \in taken}} ELSE {}
    BY ShortOfList
  <2>5. ASSUME Enough(list, parts)
        PROVE  taken \in SUBSET Found(parts) /\ Cardinality(taken) = Needed(list)
    BY <2>5, TakenAre
  <2>6. Found(parts) = {i \in DOMAIN list.keys : parts[i] # {}}
    BY DEF Found, PartsOf
  <2> HIDE DEF V, parts, taken, Short
  <2>7. ASSUME HasValidSignatureKey(signers, list)
        PROVE  Some(list)
    <3>1. Enough(list, parts) /\ Needed(list) # 0
      BY <2>2, <2>3, <2>7
    <3>2. taken # {}
      BY <2>5, <3>1, FS_EmptySet
    <3>3. PICK i \in taken : parts[i] # {}
      BY <2>5, <2>6, <3>1, <3>2
    <3> QED
      BY <2>4, <3>1, <3>3
  <2>8. ASSUME Some(list)
        PROVE  HasValidSignatureKey(signers, list)
    <3>1. Enough(list, parts) /\ UNION {parts[i] : i \in taken} # {}
      BY <2>4, <2>8
    <3>2. taken # {}
      BY <3>1
    <3>3. list.keys # <<>>
      BY <2>1, <2>2, <2>5, <3>1, <3>2
    <3> QED
      BY <2>2, <2>3, <3>1, <3>3
  <2> HIDE DEF Some
  <2> QED
    BY <2>7, <2>8, InList
<1>3. P \in SUBSET Keys
  OBVIOUS
<1> HIDE DEF P
<1>4. P = Keys
  BY <1>1, <1>2, <1>3, KeysInduct
<1> QED
  BY <1>4 DEF P

(* Its signers are among the signers and sign for the key. *)
LEMMA ShortSigns ==
  ASSUME NEW signers
  PROVE  \A k \in Keys : \A s \in ComputeShortenedPublicKeyList(signers, k) :
           /\ SignersOf(s) \subseteq signers
           /\ s # {} => HasValidSignatureKey(SignersOf(s), k)
<1> DEFINE Short(k) == ComputeShortenedPublicKeyList(signers, k)
           P == {k \in Keys : \A s \in Short(k) :
                   /\ SignersOf(s) \subseteq signers
                   /\ s # {} => HasValidSignatureKey(SignersOf(s), k)}
<1>1. PublicKeys \subseteq P
  <2> SUFFICES ASSUME NEW k \in PublicKeys, NEW s \in Short(k)
               PROVE  /\ SignersOf(s) \subseteq signers
                      /\ HasValidSignatureKey(SignersOf(s), k)
    BY DEF Keys
  <2>1. s = {<<<<>>, k>>} /\ k \in signers
    BY ShortOfKey
  <2>2. SignersOf(s) = {k}
    BY <2>1 DEF SignersOf
  <2> QED
    BY <2>1, <2>2, ValidOfKey
<1>2. ASSUME NEW list \in KeyLists, \A i \in DOMAIN list.keys : list.keys[i] \in P
      PROVE  list \in P
  <2> SUFFICES ASSUME NEW s \in Short(list)
               PROVE  /\ SignersOf(s) \subseteq signers
                      /\ s # {} => HasValidSignatureKey(SignersOf(s), list)
    BY InList
  <2> DEFINE parts == PartsOf(signers, list)
             taken == Taken(list, parts)
  <2>1. Enough(list, parts) /\ s = UNION {parts[i] : i \in taken}
    BY ShortOfList
  <2>2. /\ taken \in SUBSET DOMAIN list.keys /\ Cardinality(taken) = Needed(list)
        /\ \A i \in taken : parts[i] # {}
    BY <2>1, TakenAre DEF Found
  <2>3. ASSUME NEW i \in taken
        PROVE  /\ SignersOf(parts[i]) \subseteq signers
               /\ HasValidSignatureKey(SignersOf(parts[i]), list.keys[i])
    <3>1. list.keys[i] \in Keys
      BY <2>2, InList
    <3>2. /\ SignersOf(parts[i]) = SignersOf(UNION Short(list.keys[i]))
          /\ UNION Short(list.keys[i]) # {}
      BY <2>2, PartIs
    <3>3. PICK t : Short(list.keys[i]) = {t}
      BY <3>1, <3>2, OneShort
    <3>4. /\ SignersOf(t) \subseteq signers
          /\ t # {} => HasValidSignatureKey(SignersOf(t), list.keys[i])
      BY <1>2, <2>2, <3>3
    <3>5. UNION Short(list.keys[i]) = t
      BY <3>3
    <3> HIDE DEF Short, parts
    <3> QED
      BY <3>2, <3>4, <3>5
  <2> HIDE DEF parts, taken, Short
  <2>4. \A e \in s : \E i \in taken : e[2] \in SignersOf(parts[i])
    BY <2>1 DEF SignersOf
  <2>5. SignersOf(s) \subseteq signers
    BY <2>3, <2>4 DEF SignersOf
  <2>6. \A i \in taken : SignersOf(parts[i]) \subseteq SignersOf(s)
    BY <2>1 DEF SignersOf
  <2>7. \A i \in taken : HasValidSignatureKey(SignersOf(s), list.keys[i])
    BY <2>2, <2>3, <2>6, ValidGrows, InList
  <2>8. ASSUME s # {} PROVE HasValidSignatureKey(SignersOf(s), list)
    <3> DEFINE V == {i \in DOMAIN list.keys : HasValidSignatureKey(SignersOf(s), list.keys[i])}
    <3>1. taken \in SUBSET V
      BY <2>2, <2>7
    <3>2. IsFiniteSet(V) /\ (list.keys = <<>> => V = {})
      BY Counted
    <3>3. list.keys # <<>>
      BY <2>1, <2>8, <3>1, <3>2
    <3>4. Needed(list) <= Cardinality(V)
      <4> HIDE DEF V
      <4> QED
        BY <2>2, <3>1, <3>2, FS_Subset
    <3> QED
      BY <3>3, <3>4, ValidOfList
  <2> QED
    BY <2>5, <2>8
<1>3. P \in SUBSET Keys
  OBVIOUS
<1> HIDE DEF P
<1>4. P = Keys
  BY <1>1, <1>2, <1>3, KeysInduct
<1> QED
  BY <1>4 DEF P

(* An empty shortened list is that of an empty list. *)
LEMMA ShortIsThere ==
  ASSUME NEW signers, NEW k \in KeyLists, k.keys # <<>>, 
         NEW s \in ComputeShortenedPublicKeyList(signers, k)
  PROVE  s # {}
<1> DEFINE parts == PartsOf(signers, k)
           taken == Taken(k, parts)
<1>1. Enough(k, parts) /\ s = UNION {parts[i] : i \in taken}
  BY ShortOfList
<1>2. /\ Cardinality(taken) = Needed(k)
      /\ \A i \in taken : parts[i] # {}
  BY <1>1, TakenAre DEF Found
<1>3. Needed(k) \in Nat /\ Needed(k) > 0
  BY Counted
<1> HIDE DEF parts, taken
<1>4. taken # {}
  <2>1. Cardinality({}) = 0
    BY FS_EmptySet
  <2> QED
    BY <1>2, <1>3, <2>1
<1> QED
  BY <1>1, <1>2, <1>4

-----------------------------------------------------------------------------
(* The shortened list is the smallest *)

PlainOf(f, k) ==
  k \in KeyLists =>
    \A i, j \in DOMAIN k.keys :
      /\ f[k.keys[i]]
      /\ i # j => FlattenKeyList(k.keys[i]) \cap FlattenKeyList(k.keys[j]) = {}

(* The keys of a plain list are plain and share no public key. *)
LEMMA PlainIs ==
  ASSUME NEW k \in KeyLists, Plain(k)
  PROVE  /\ \A i \in DOMAIN k.keys : Plain(k.keys[i])
         /\ \A i, j \in DOMAIN k.keys :
              i # j => FlattenKeyList(k.keys[i]) \cap FlattenKeyList(k.keys[j]) = {}
<1> DEFINE G == [x \in Keys |-> [f \in [Keys -> BOOLEAN] |-> PlainOf(f, x)]]
           Eq(f) == f = [x \in Keys |-> PlainOf(f, x)]
           v == CHOOSE f : Eq(f)
<1>1. Depends(BOOLEAN, G)
  <2>1. ASSUME NEW x \in Keys, NEW f \in [Keys -> BOOLEAN] PROVE PlainOf(f, x) \in BOOLEAN
    <3> DEFINE B == \A i, j \in DOMAIN x.keys :
                      /\ f[x.keys[i]]
                      /\ i # j => FlattenKeyList(x.keys[i]) \cap FlattenKeyList(x.keys[j]) = {}
    <3>1. PlainOf(f, x) = (x \in KeyLists => B)
      BY DEF PlainOf
    <3> HIDE DEF B
    <3> QED
      BY <3>1, Zenon
  <2>2. ASSUME NEW x \in Keys, NEW f \in [Keys -> BOOLEAN], NEW g \in [Keys -> BOOLEAN],
               x \in KeyLists => \A i \in DOMAIN x.keys : f[x.keys[i]] = g[x.keys[i]]
        PROVE  PlainOf(f, x) = PlainOf(g, x)
    BY <2>2 DEF PlainOf
  <2> QED
    BY <2>1, <2>2 DEF Depends
<1>2. PICK f \in [Keys -> BOOLEAN] : Solves(G, Keys, f)
  BY <1>1, Recursion
<1>3. Eq(f)
  BY <1>2 DEF Solves
<1>4. \A x : Plain(x) = v[x]
  BY DEF Plain, PlainOf
<1> HIDE DEF Eq
<1>5. Eq(v)
  BY <1>3, Zenon
<1>6. v = [x \in Keys |-> PlainOf(v, x)]
  BY <1>5 DEF Eq
<1> HIDE DEF v
<1>7. v[k] = PlainOf(v, k)
  BY <1>6, InList
<1>8. PlainOf(v, k)
  BY <1>4, <1>7
<1> QED
  BY <1>4, <1>8 DEF PlainOf

(* A quorum is made of public keys in the key, of which there are finitely many. *)
LEMMA QuorumInside ==
  \A k \in Keys : \A q \in Quorums(k) : IsFiniteSet(q) /\ q \subseteq FlattenKeyList(k)
<1> DEFINE P == {k \in Keys : \A q \in Quorums(k) : IsFiniteSet(q) /\ q \subseteq FlattenKeyList(k)}
<1>1. PublicKeys \subseteq P
  <2> SUFFICES ASSUME NEW k \in PublicKeys, NEW q \in Quorums(k)
               PROVE  k \in Keys /\ IsFiniteSet(q) /\ q \subseteq FlattenKeyList(k)
    BY DEF Keys
  <2>1. k \in Keys
    BY DEF Keys
  <2> HIDE DEF P
  <2>2. Quorums(k) = {{k}}
    BY <2>1, QuorumsAre
  <2>3. FlattenKeyList(k) = {k}
    BY <2>1, FlatIs
  <2> QED
    BY <2>1, <2>2, <2>3, FS_Singleton
<1>2. ASSUME NEW list \in KeyLists, \A i \in DOMAIN list.keys : list.keys[i] \in P
      PROVE  list \in P
  <2> SUFFICES ASSUME NEW q \in Quorums(list) PROVE IsFiniteSet(q) /\ q \subseteq FlattenKeyList(list)
    BY InList
  <2>1. PICK chosen, g :
          /\ chosen \in SUBSET DOMAIN list.keys /\ Cardinality(chosen) = Needed(list)
          /\ \A i \in chosen : g[i] \in Quorums(list.keys[i])
          /\ q = UNION {g[i] : i \in chosen}
    <3> HIDE DEF P
    <3> QED
      BY MadeOf
  <2>2. \A i \in chosen : IsFiniteSet(g[i]) /\ g[i] \subseteq FlattenKeyList(list.keys[i])
    BY <1>2, <2>1
  <2>3. FlattenKeyList(list) = UNION {FlattenKeyList(list.keys[i]) : i \in DOMAIN list.keys}
    BY InList, FlatIs
  <2>4. q \subseteq FlattenKeyList(list)
    <3> DEFINE flat == {FlattenKeyList(list.keys[i]) : i \in DOMAIN list.keys}
    <3>1. \A i \in chosen : \E x \in flat : g[i] \subseteq x
      BY <2>1, <2>2
    <3> HIDE DEF flat
    <3>2. q \subseteq UNION flat
      BY <2>1, <3>1
    <3> QED
      BY <2>3, <3>2 DEF flat
  <2>5. IsFiniteSet(chosen)
    BY <2>1, Counted
  <2> DEFINE all == {g[i] : i \in chosen}
             f == [i \in chosen |-> g[i]]
  <2>6. f \in Surjection(chosen, all)
    BY DEF Surjection
  <2>7. \A x \in all : IsFiniteSet(x)
    BY <2>2
  <2> HIDE DEF f, all
  <2>8. IsFiniteSet(UNION all)
    BY <2>5, <2>6, <2>7, FS_Surjection, FS_UNION
  <2> QED
    BY <2>1, <2>4, <2>8 DEF all
<1>3. P \in SUBSET Keys
  OBVIOUS
<1> HIDE DEF P
<1>4. P = Keys
  BY <1>1, <1>2, <1>3, KeysInduct
<1> QED
  BY <1>4 DEF P

(* Those taken can each be paired with one of as many others that were     *)
(* found, no smaller: itself, where it is one of them.                     *)
LEMMA PairedOff ==
  ASSUME NEW F, IsFiniteSet(F), NEW taken \in SUBSET F, NEW chosen \in SUBSET F,
         Cardinality(taken) = Cardinality(chosen), NEW parts,
         \A i \in F : Cardinality(parts[i]) \in Nat,
         \A i \in taken, j \in F \ taken : Cardinality(parts[i]) <= Cardinality(parts[j])
  PROVE  \E b \in Injection(taken, chosen) :
           \A i \in taken : Cardinality(parts[i]) <= Cardinality(parts[b[i]])
<1> DEFINE A == taken \ chosen
           B == chosen \ taken
<1>1. IsFiniteSet(taken) /\ IsFiniteSet(chosen)
  BY FS_Subset
<1>2. IsFiniteSet(A) /\ Cardinality(A) = Cardinality(taken) - Cardinality(taken \cap chosen)
  BY <1>1, FS_Difference
<1>3. IsFiniteSet(B) /\ Cardinality(B) = Cardinality(chosen) - Cardinality(chosen \cap taken)
  BY <1>1, FS_Difference
<1>4. taken \cap chosen = chosen \cap taken
  OBVIOUS
<1>5. Cardinality(A) \in Nat /\ Cardinality(A) = Cardinality(B)
  BY <1>2, <1>3, <1>4, FS_CardinalityType
<1>6. PICK h : h \in Injection(A, B)
  <2> HIDE DEF A, B
  <2> QED
    BY <1>2, <1>3, <1>5, Fits
<1> DEFINE b == [i \in taken |-> IF i \in chosen THEN i ELSE h[i]]
<1>7. \A i \in A : h[i] \in B
  BY <1>6 DEF Injection
<1>8. b \in [taken -> chosen]
  BY <1>7
<1>9. \A i, j \in taken : b[i] = b[j] => i = j
  <2> SUFFICES ASSUME NEW i \in taken, NEW j \in taken, b[i] = b[j] PROVE i = j
    OBVIOUS
  <2>1. CASE i \in chosen /\ j \in chosen
    BY <2>1
  <2>2. CASE i \in chosen /\ j \notin chosen
    BY <1>7, <2>2
  <2>3. CASE i \notin chosen /\ j \in chosen
    BY <1>7, <2>3
  <2>4. CASE i \notin chosen /\ j \notin chosen
    <3>1. i \in A /\ j \in A /\ h[i] = h[j]
      BY <2>4
    <3> HIDE DEF A, B
    <3> QED
      BY <1>6, <3>1 DEF Injection, IsInjective
  <2> QED
    BY <2>1, <2>2, <2>3, <2>4
<1>10. \A i \in taken : Cardinality(parts[i]) <= Cardinality(parts[b[i]])
  <2> SUFFICES ASSUME NEW i \in taken PROVE Cardinality(parts[i]) <= Cardinality(parts[b[i]])
    OBVIOUS
  <2>1. CASE i \in chosen
    <3>1. b[i] = i /\ Cardinality(parts[i]) \in Nat
      BY <2>1
    <3> HIDE DEF b
    <3> QED
      BY <3>1
  <2>2. CASE i \notin chosen
    BY <1>7, <2>2
  <2> QED
    BY <2>1, <2>2
<1> HIDE DEF b
<1> QED
  BY <1>8, <1>9, <1>10 DEF Injection, IsInjective

(* Of a key with no public key twice, no quorum among the signers is       *)
(* smaller than the shortened list.                                        *)
LEMMA ShortestIs ==
  ASSUME NEW signers
  PROVE  \A k \in Keys : Plain(k) =>
           \A s \in ComputeShortenedPublicKeyList(signers, k), q \in Quorums(k) :
             q \subseteq signers => Cardinality(s) <= Cardinality(q)
<1> DEFINE Short(k) == ComputeShortenedPublicKeyList(signers, k)
           P == {k \in Keys : Plain(k) =>
                   \A s \in Short(k), q \in Quorums(k) :
                     q \subseteq signers => Cardinality(s) <= Cardinality(q)}
<1>1. PublicKeys \subseteq P
  <2> SUFFICES ASSUME NEW k \in PublicKeys, NEW s \in Short(k), NEW q \in Quorums(k)
               PROVE  Cardinality(s) <= Cardinality(q)
    BY DEF Keys
  <2>1. s = {<<<<>>, k>>}
    BY ShortOfKey
  <2> HIDE DEF P
  <2>2. Quorums(k) = {{k}}
    BY QuorumsAre DEF Keys
  <2>3. Cardinality(s) = 1 /\ Cardinality(q) = 1
    BY <2>1, <2>2, FS_Singleton
  <2> QED
    BY <2>3
<1>2. ASSUME NEW list \in KeyLists, \A i \in DOMAIN list.keys : list.keys[i] \in P
      PROVE  list \in P
  <2> SUFFICES ASSUME Plain(list), NEW s \in Short(list), NEW q \in Quorums(list), q \subseteq signers
               PROVE  Cardinality(s) <= Cardinality(q)
    BY InList
  <2> DEFINE parts == PartsOf(signers, list)
             taken == Taken(list, parts)
             F == Found(parts)
  <2>1. Enough(list, parts) /\ s = UNION {parts[i] : i \in taken}
    BY ShortOfList
  <2>2. /\ taken \in SUBSET F /\ F \in SUBSET DOMAIN list.keys
        /\ Cardinality(taken) = Needed(list)
        /\ \A i \in taken, j \in F \ taken : Cardinality(parts[i]) <= Cardinality(parts[j])
    BY <2>1, TakenAre
  <2>3. PICK chosen, g :
          /\ chosen \in SUBSET DOMAIN list.keys /\ Cardinality(chosen) = Needed(list)
          /\ \A i \in chosen : g[i] \in Quorums(list.keys[i])
          /\ q = UNION {g[i] : i \in chosen}
    <3> HIDE DEF P
    <3> QED
      BY MadeOf
  <2>4. ASSUME NEW i \in DOMAIN list.keys
        PROVE  /\ IsFiniteSet(parts[i]) /\ Cardinality(parts[i]) \in Nat
               /\ Cardinality(parts[i]) = Cardinality(UNION Short(list.keys[i]))
               /\ parts[i] # {} <=> UNION Short(list.keys[i]) # {}
    BY PartIs, FS_CardinalityType
  <2>5. F = {i \in DOMAIN list.keys : parts[i] # {}}
    BY DEF Found, PartsOf
  <2>6. IsFiniteSet(F)
    BY <2>2, Counted
  <2>7. /\ \A i \in DOMAIN list.keys : Plain(list.keys[i])
        /\ \A i, j \in DOMAIN list.keys :
             i # j => FlattenKeyList(list.keys[i]) \cap FlattenKeyList(list.keys[j]) = {}
    BY PlainIs
  <2> HIDE DEF parts, taken, F
  <2>8. ASSUME NEW i \in chosen
        PROVE  /\ i \in F /\ IsFiniteSet(g[i]) /\ g[i] \subseteq FlattenKeyList(list.keys[i])
               /\ Cardinality(parts[i]) <= Cardinality(g[i])
    <3>1. i \in DOMAIN list.keys /\ list.keys[i] \in Keys /\ g[i] \in Quorums(list.keys[i])
      BY <2>3, InList
    <3>2. g[i] \subseteq signers
      BY <2>3
    <3>3. HasValidSignatureKey(signers, list.keys[i])
      BY <3>1, <3>2, ValidByQuorum
    <3>4. PICK t \in Short(list.keys[i]) : t # {}
      BY <3>1, <3>3, ShortWhenValid
    <3>5. Short(list.keys[i]) = {t} /\ UNION Short(list.keys[i]) = t
      <4>1. Short(list.keys[i]) = {t}
        BY <3>1, <3>4, OneShort
      <4> HIDE DEF Short
      <4> QED
        BY <4>1
    <3>6. Cardinality(t) <= Cardinality(g[i])
      BY <1>2, <2>7, <3>1, <3>2, <3>4
    <3> HIDE DEF P, Short
    <3>7. i \in F /\ Cardinality(parts[i]) <= Cardinality(g[i])
      BY <2>4, <2>5, <3>1, <3>4, <3>5, <3>6
    <3> QED
      BY <3>1, <3>7, QuorumInside
  <2>9. chosen \in SUBSET F
    BY <2>8
  <2>10. PICK b \in Injection(taken, chosen) :
           \A i \in taken : Cardinality(parts[i]) <= Cardinality(parts[b[i]])
    <3>1. \A i \in F : Cardinality(parts[i]) \in Nat
      BY <2>2, <2>4
    <3>2. Cardinality(taken) = Cardinality(chosen)
      BY <2>2, <2>3
    <3> HIDE DEF P
    <3> QED
      BY <2>2, <2>6, <2>9, <3>1, <3>2, PairedOff
  <2>11. ASSUME NEW i \in taken PROVE Cardinality(parts[i]) <= Cardinality(g[b[i]])
    <3>1. b[i] \in chosen
      BY <2>10 DEF Injection
    <3>2. /\ Cardinality(parts[i]) \in Nat /\ Cardinality(parts[b[i]]) \in Nat
          /\ Cardinality(g[b[i]]) \in Nat
      BY <2>2, <2>3, <2>4, <2>8, <3>1, FS_CardinalityType
    <3>3. /\ Cardinality(parts[i]) <= Cardinality(parts[b[i]])
          /\ Cardinality(parts[b[i]]) <= Cardinality(g[b[i]])
      BY <2>8, <2>10, <3>1
    <3> HIDE DEF P
    <3> QED
      BY <3>2, <3>3
  <2>12. \A i, j \in chosen : i # j => g[i] \cap g[j] = {}
    <3> SUFFICES ASSUME NEW i \in chosen, NEW j \in chosen, i # j PROVE g[i] \cap g[j] = {}
      OBVIOUS
    <3>1. FlattenKeyList(list.keys[i]) \cap FlattenKeyList(list.keys[j]) = {}
      BY <2>3, <2>7
    <3> QED
      BY <2>8, <3>1
  <2>13. IsFiniteSet(chosen) /\ \A i \in chosen : IsFiniteSet(g[i])
    BY <2>3, <2>8, Counted
  <2>14. \A i \in taken : IsFiniteSet(parts[i])
    BY <2>2, <2>4
  <2> HIDE DEF P
  <2>15. Cardinality(UNION {parts[i] : i \in taken}) <= Cardinality(UNION {g[i] : i \in chosen})
    BY <2>10, <2>11, <2>12, <2>13, <2>14, FitTogether
  <2> QED
    BY <2>1, <2>3, <2>15
<1>3. P \in SUBSET Keys
  OBVIOUS
<1> HIDE DEF P
<1>4. P = Keys
  BY <1>1, <1>2, <1>3, KeysInduct
<1> QED
  BY <1>4 DEF P

-----------------------------------------------------------------------------
(* The properties of the key that the cache holds *)

LEMMA SufficesFor ==
  ASSUME NEW k \in KeyLists, k.keys # <<>>
  PROVE  k \in ShortSuffices
<1> SUFFICES ASSUME NEW signers \in SUBSET PublicKeys
             PROVE  LET short == ComputeShortenedPublicKeyList(signers, k)
                    IN /\ HasValidSignatureKey(signers, k) <=> \E q \in Quorums(k) : q \subseteq signers
                       /\ HasValidSignatureKey(signers, k) <=> short # {}
                       /\ \A s \in short : /\ SignersOf(s) \subseteq signers
                                           /\ HasValidSignatureKey(SignersOf(s), k)
  BY DEF ShortSuffices
<1> DEFINE short == ComputeShortenedPublicKeyList(signers, k)
<1>1. k \in Keys
  BY InList
<1>2. HasValidSignatureKey(signers, k) <=> \E q \in Quorums(k) : q \subseteq signers
  BY <1>1, ValidByQuorum
<1>3. \A s \in short : s # {}
  BY ShortIsThere
<1>4. HasValidSignatureKey(signers, k) <=> \E s \in short : s # {}
  BY <1>1, ShortWhenValid
<1>5. \A s \in short : /\ SignersOf(s) \subseteq signers
                       /\ s # {} => HasValidSignatureKey(SignersOf(s), k)
  BY <1>1, ShortSigns
<1> HIDE DEF short
<1>6. HasValidSignatureKey(signers, k) <=> short # {}
  BY <1>3, <1>4
<1> QED
  BY <1>2, <1>3, <1>5, <1>6 DEF short

(* ShortestIs, for a list. *)
LEMMA SmallestFor ==
  ASSUME NEW k \in KeyLists, Plain(k)
  PROVE  k \in ShortIsSmallest
<1>1. k \in Keys
  BY InList
<1>2. \A signers \in SUBSET PublicKeys :
        \A s \in ComputeShortenedPublicKeyList(signers, k), q \in Quorums(k) :
          q \subseteq signers => Cardinality(s) <= Cardinality(q)
  BY <1>1, ShortestIs
<1> QED
  BY <1>2 DEF ShortIsSmallest

(* Whatever key the cache holds, nested to any depth, and whoever signed:  *)
(* hasValidSignatureKey holds just when a quorum of the key is among the   *)
(* signers, computeShortenedPublicKeyList then finds a list, and the list  *)
(* is made of signers and signs for the key (ShortListSuffices).           *)
THEOREM SufficesHolds == Spec => []ShortListSuffices
<1>1. ShortListSuffices
  BY SufficesFor DEF ShortListSuffices
<1> QED
  BY <1>1, PTL

(* When no public key is in the key twice, the list is the smallest there  *)
(* is: no quorum among the signers has fewer public keys                   *)
(* (ShortListIsSmallest, the comment of computeShortenedPublicKeyList).    *)
THEOREM SmallestHolds == Spec => []ShortListIsSmallest
<1>1. ShortListIsSmallest
  BY SmallestFor DEF ShortListIsSmallest
<1> QED
  BY <1>1, PTL
=============================================================================
